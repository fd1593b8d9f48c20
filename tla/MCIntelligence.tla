--------------------------- MODULE MCIntelligence ---------------------------
(* Intelligence with two SUBDOMAINs, a DOMAIN and two addresses.          *)
EXTENDS Intelligence, TLC

CONSTANTS p1, p2, s1, s2, d, i1, i2, aws

Passes  == {p1, p2}
Subs    == {s1, s2}
Ips     == {i1, i2}
MCRank  == i1 :> 1 @@ s1 :> 2 @@ s2 :> 3 @@ i2 :> 4

(* A DOMAIN and a SUBDOMAIN on one address; and two SUBDOMAINs on both.     *)
MCGraphs == {{<<d, i1>>, <<s1, i1>>},
             {<<s1, i1>>, <<s2, i1>>, <<s1, i2>>, <<s2, i2>>}}

MCObservations ==
  LET of(D, C) == [a \in Row |-> [dangling |-> a \in D, vendor |-> IF a \in C THEN aws ELSE None]]
  IN  {of({s1, s2}, {s1, i1})}

AllOff(S) == [k \in S |-> FALSE]
AllOn(S) == [k \in S |-> TRUE]

(* The empty block stands for one sent as null, too. *)
MCBlocks   == {AllOff({"correlate_shared_ips"}), AllOff({"check_takeover"}), AllOff({})}
MCRequests == {<<None, None>>,
               <<AllOn({"correlate_shared_ips", "check_takeover"}),
                 AllOff({"check_takeover", "tag_cloud_providers"})>>}
=============================================================================

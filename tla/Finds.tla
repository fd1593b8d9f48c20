-------------------------------- MODULE Finds --------------------------------
(***************************************************************************)
(* What one transaction brings to the asset graph: the finds, in order, of *)
(* a Subfinder run and of a DNS batch, as the loops of                     *)
(* workers/tasks/discovery.py hand them to upsert_asset and link_assets.   *)
(* Constant-level; the results of tools are sequences, of queries sets.    *)
(***************************************************************************)
EXTENDS Integers, Sequences, SequencesExt

FindOf(p, k, m) == [parent |-> p, asset |-> k, meta |-> m]

(* process_subdomain_discovery: every host the rows name below the root, once, *)
(* and not the root itself; a row may name none.                               *)
DiscoveryFinds(root, out, NoHost, source) ==
  LET New(k) == /\ out[k] \notin {root, NoHost}
                /\ \A i \in 1 .. k - 1 : out[i] # out[k]
      kept   == SelectSeq([k \in 1 .. Len(out) |-> k], New)
  IN  [k \in 1 .. Len(kept) |-> FindOf(root, out[kept[k]], {source})]

(* resolve_dns_batch: every address below its host; ips[s] is what the resolver *)
(* says of subdomain s, nothing if it fails.                                    *)
DnsFinds(subs, ips, source) ==
  FlattenSeq([k \in 1 .. Len(subs) |->
    [i \in 1 .. Len(ips[subs[k]]) |-> FindOf(subs[k], ips[subs[k]][i], {source})]])
=============================================================================

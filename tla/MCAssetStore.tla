---------------------------- MODULE MCAssetStore ----------------------------
(* AssetStore with a root DOMAIN, two SUBDOMAINs that may be stored before  *)
(* and an address: what two tasks and a user bring.                         *)
EXTENDS AssetStore, Finds, TLC

CONSTANTS t1, t2, r1, del, root, a, b, ip, source, note

TwoTasks    == {t1, t2}
TasksAndApi == {t1, t2, r1}
TaskAndApi  == {t1, r1}
MCAsset     == {root, a, b, ip}
MCMetaKey   == {source, note}

(* Subfinder's finds in either order, with repetitions. *)
Discoveries ==
  {DiscoveryFinds(root, out, NoParent, source) : out \in {<<a, root, b, a>>, <<NoParent, b, a>>}}

(* Two SUBDOMAINs on one address. *)
Resolution == DnsFinds(<<a, b>>, [s \in {a, b} |-> <<ip>>], source)

TaskPlans == Discoveries \cup {Resolution}

(* What a user sends, with and without a parent. *)
UserLink  == {<<FindOf(root, b, {note})>>}
UserAsset == {<<FindOf(NoParent, a, {note})>>}

(* New and known SUBDOMAINs. *)
MCStored == {{root}, {root, a, b}}

Symmetry == Permutations(TwoTasks)
=============================================================================

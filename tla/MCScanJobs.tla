------------------------------ MODULE MCScanJobs ------------------------------
(* ScanJobs on small sets of tasks; one plan of every shape the API starts.    *)
EXTENDS ScanJobs, TLC

CONSTANTS r1, c1, c2, c3, c4, p1, p2

OneRoot == {r1}
Steps4 == {c1, c2, c3, c4}

FourSteps == OneRoot \cup Steps4
ThreeSteps == OneRoot \cup {c1, c2, c3}

DiscoveryChain == NamedPlan(<<"subfinder", "dns_resolve", "httpx_stub">>)
VulnChain      == NamedPlan(<<"nmap", "nuclei">>)
LoneSubfinder  == CustomPlan(<<"subfinder">>)

AllPlans   == {HealthPlan, DiscoveryPlan, DiscoveryChain, VulnChain, LoneSubfinder}
ShortPlans == {HealthPlan, DiscoveryPlan, CustomPlan(<<"subfinder", "dns_resolve">>)}

TwoPollers == {p1, p2}
OnePoller  == {p1}

FourSymmetry  == Permutations(Steps4) \cup Permutations(TwoPollers)
=============================================================================

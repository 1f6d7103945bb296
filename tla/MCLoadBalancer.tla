--------------------------- MODULE MCLoadBalancer ---------------------------
(* Three requests on two permanent servers and one that comes and goes,    *)
(* with room for two sessions in the cache, so that entries are evicted.   *)
EXTENDS LoadBalancer, TLC

CONSTANTS r1, r2, r3, p1, p2, h1

MCRequests == {r1, r2, r3}
MCServers == {p1, p2, h1}
MCPermanent == {p1, p2}

RequestSymmetry == Permutations(MCRequests) \cup Permutations(MCPermanent)

=============================================================================

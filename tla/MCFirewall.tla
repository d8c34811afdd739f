------------------------------ MODULE MCFirewall ------------------------------
\* Two connections and one probe on a pool of capacity 1, in every pair of modes.
EXTENDS Firewall, TLC

CONSTANTS c1, c2, p1, k1, k2, k3

MCConns == {c1, c2}
MCProbes == {p1}
MCClients == {k1, k2, k3}
AllModes == [req : Mode, resp : Mode]
\* Connections are interchangeable, and so are clients.
Symmetric == Permutations(MCConns) \cup Permutations(MCClients)
\* For liveness, where symmetry is unsound: blocking requests, looking at responses.
SomeModes == {[req |-> "BLOCK", resp |-> "LOG_ONLY"]}
==============================================================================

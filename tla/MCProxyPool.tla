----------------------------- MODULE MCProxyPool -----------------------------
\* Two request goroutines (or a request and the readiness probe), two calls of
\* Close, a channel of capacity 1: every race between two Puts for the last slot
\* and between a Get or a Put and each step of Close happens.
EXTENDS ProxyPool

CONSTANTS u1, u2, m1, m2, k1, k2, k3, k4

MCUsers == {u1, u2}
MCClosers == {m1, m2}
MCClients == {k1, k2, k3, k4}
==============================================================================

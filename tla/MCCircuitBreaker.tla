-------------------------- MODULE MCCircuitBreaker --------------------------
EXTENDS CircuitBreaker, TLC

CONSTANTS k1, k2, s1, s2

\* Channel s1 sees the limit and the EDS service name change, s2 lags behind.
MCCds == (s1 :> {<<k1, 1>>, <<k1, 2>>, <<k2, 1>>}) @@ (s2 :> {<<k1, 1>>})

Symmetry == Permutations(Call)

=============================================================================

----------------------------- MODULE MCPickFirst -----------------------------
\* Two IPv4 addresses, in either order, one twice, one alone, or none at all.
EXTENDS PickFirst

CONSTANTS a1, a2

MCAddrLists == {<<>>, <<a1>>, <<a1, a2, a1>>, <<a2, a1>>}

MCFamily == [a \in {a1, a2} |-> 1]
=============================================================================

----------------------------- MODULE MCPriority -----------------------------
EXTENDS Priority

CONSTANTS a, b, c

\* A full list, a shorter one that swaps two priorities, and none at all.
MCOrders == {<<a, b, c>>, <<b, a>>, <<>>}

=============================================================================

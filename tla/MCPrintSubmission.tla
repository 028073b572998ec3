------------------------- MODULE MCPrintSubmission -------------------------
(* Instances of PrintSubmission for TLC. *)
EXTENDS PrintSubmission, TLC

CONSTANTS k1, k2, p1, p2

Demand(k, p) == [key |-> k, payload |-> p]

\* A key reused with the same and with another payload, a second key that competes
\* for the store's capacity, and a print without a key.
SafetyDemands == {Demand(k1, p1), Demand(k1, p2), Demand(k2, p1), Demand(NoKey, p1)}

\* The same key and payload again and again, and a print without a key.
RetryDemands == {Demand(k1, p1), Demand(NoKey, p1)}

\* Requests are interchangeable.
Symmetry == Permutations(Requests)
=============================================================================

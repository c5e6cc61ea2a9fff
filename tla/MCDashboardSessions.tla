------------------------- MODULE MCDashboardSessions -------------------------
(* A small instance of DashboardSessions for TLC. *)
EXTENDS DashboardSessions, TLC

CONSTANTS ann, bob, fa, fb

FactOwners == (fa :> ann) @@ (fb :> bob)

\* Tokens and requests are interchangeable: nothing orders them.
Interchangeable == Permutations(Tokens) \cup Permutations(Requests)
=============================================================================

--------------------------- MODULE MCConsolidation ---------------------------
(* A small instance of Consolidation for TLC. *)
EXTENDS Consolidation, TLC

CONSTANTS s1, s2, alice, f1

TwoSlots == {s1, s2}
SlotSymmetry == Permutations(TwoSlots)
JustAlice == {alice}
OneFact == {f1}
NoFacts == {}
BothAcls == {"private", "team"}

\* Bound: one row at most is left without an embedding, or a statement has failed.
FewOddities == faults + Cardinality({i \in DOMAIN table : ~table[i].embedded}) <= 1
=============================================================================

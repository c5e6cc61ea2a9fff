---------------------------- MODULE MCFactWriter ----------------------------
(* A small instance of FactWriter for TLC: two slots.  f2 contradicts f1.   *)
EXTENDS WriterHistory, TLC

CONSTANTS s1, s2, alice, f1, f2

TwoSlots == {s1, s2}
SlotSymmetry == Permutations(TwoSlots)
JustAlice == {alice}

ClaimAndContrary == {f1, f2}
MCSameClaim == {<<f1, f1>>, <<f2, f2>>}
MCRelated == {<<f1, f2>>, <<f2, f1>>}

OneFactEach == {<<f1>>, <<f2>>}
NoFacts == {}
BothAcls == {"private", "team"}
Deletions == {"forget", "hard", "purge"}

\* Bound: one row at most is left without an embedding, or a statement has failed.
FewOddities == faults + Cardinality({i \in DOMAIN table : ~table[i].embedded}) <= 1
=============================================================================

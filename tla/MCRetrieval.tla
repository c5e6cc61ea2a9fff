----------------------------- MODULE MCRetrieval -----------------------------
(* A small instance of Retrieval for TLC: one slot, and two bots.  f2        *)
(* contradicts f1 and is private by default.                                 *)
EXTENDS Retrieval, TLC

CONSTANTS s1, alice, bob, f1, f2

OneSlot == {s1}
JustAlice == {alice}
AliceAndBob == {alice, bob}

ClaimAndContrary == {f1, f2}
MCSameClaim == {<<f1, f1>>, <<f2, f2>>}
MCRelated == {<<f1, f2>>, <<f2, f1>>}

OneFactEach == {<<f1>>, <<f2>>}
NoFacts == {}
ContraryIsPrivate == {f2}
BothAcls == {"private", "team"}
Publishing == {"acl", "category", "importance", "share", "hard"}

\* Bound: one thing at most is out of the ordinary.  A row has been published or
\* withdrawn, made permanent, moved to another category, erased, or left without an
\* embedding; or a statement has failed; or a week has passed; or rows have been put
\* into prompts.
OddRows ==
    {i \in 1..lastId :
        \/ i \notin DOMAIN table
        \/ table[i].acl # DefaultAcl(table[i].fact)
        \/ table[i].category # CategoryOf(table[i].fact)
        \/ table[i].permanent
        \/ ~table[i].embedded}

FewOddities ==
    1 >= faults + Cardinality(OddRows)
         + (IF \E i \in DOMAIN table : table[i].old THEN 1 ELSE 0)
         + (IF \E i \in Ids : since[i] # {} THEN 1 ELSE 0)
=============================================================================

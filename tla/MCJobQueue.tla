---------------------------- MODULE MCJobQueue ----------------------------
(* Small instances of JobQueue for TLC. *)
EXTENDS JobQueue, TLC

CONSTANTS s1, s2, alice, bob

MCSlots == {s1, s2}
MCUsers == {alice, bob}
MCJobOwner == [j \in Jobs |-> IF j % 2 = 1 THEN alice ELSE bob]
AllFaults == {"refused", "lost", "hang", "crash", "rm"}
============================================================================

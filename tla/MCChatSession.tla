--------------------------- MODULE MCChatSession ---------------------------
(* Small instances of ChatSession for TLC. *)
EXTENDS ChatSession, TLC

CONSTANTS t1, t2, w1, w2, c1

TwoTurns == {t1, t2}
TwoSweeps == {w1, w2}
OneCommand == {c1}
=============================================================================

---------------------------- MODULE MCGmailIngest ----------------------------
(* Small instances of GmailIngest for TLC. *)
EXTENDS GmailIngest, TLC

CONSTANTS alice, bob, t1, t2

JustAlice == {alice}
OneThread == {t1}
TwoThreads == {t1, t2}

Mail(sent, hasFiles, storable) == [sent |-> sent, files |-> hasFiles, storable |-> storable]

SentAndReceived == {Mail(TRUE, TRUE, TRUE), Mail(FALSE, FALSE, TRUE)}
\* Sent and received with files, and one PostgreSQL refuses.
Assorted == {Mail(TRUE, TRUE, TRUE), Mail(FALSE, TRUE, TRUE), Mail(FALSE, FALSE, FALSE)}
=============================================================================

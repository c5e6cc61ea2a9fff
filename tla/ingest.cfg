SPECIFICATION Spec
CONSTANTS
    alice = alice  bob = bob  t1 = t1  t2 = t2
    Users <- JustAlice
    Threads <- OneThread
    MailKinds <- Assorted
    MaxPerTick = 2
    Modes = {"sent_plus_threads", "labeled_only", "full_inbox"}
    Changes = {"mode", "status", "purge", "age"}
    FaultKinds = {"throw", "lost", "crash", "attachment"}
    MaxMail = 3
    MaxFaults = 2
INVARIANTS
    EnqueuedOnce
    InboxOnlyWhenAsked
PROPERTIES
    NeverRestaged

SPECIFICATION FairSpec
CONSTANTS
    alice = alice  bob = bob  t1 = t1  t2 = t2
    Users <- JustAlice
    Threads <- TwoThreads
    MailKinds <- SentAndReceived
    MaxPerTick = 3
    Modes = {"sent_plus_threads"}
    Changes = {"age"}
    FaultKinds = {}
    MaxMail = 3
    MaxFaults = 0
PROPERTIES
    SentIsIngested
    ThreadComesAlong
    StagedFilesRemoved

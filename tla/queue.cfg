CONSTANTS
    s1 = s1
    s2 = s2
    alice = alice
    bob = bob
    MaxJobs = 2
    Users <- MCUsers
    JobOwner <- MCJobOwner
    Slots <- MCSlots
    MaxAttempts = 2
    Faults <- AllFaults
    MaxFaults = 1
SPECIFICATION FairSpec
INVARIANTS
    LeaseExclusive
    DoneMeansHandled
    StrandedByFault
PROPERTIES
    KeepsContract
    DoneIsFinal
    QueueDrains
    FilesRemovedOnceSettled

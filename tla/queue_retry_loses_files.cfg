CONSTANTS
    s1 = s1
    s2 = s2
    alice = alice
    bob = bob
    MaxJobs = 1
    Users <- MCUsers
    JobOwner <- MCJobOwner
    Slots <- MCSlots
    MaxAttempts = 2
    Faults = {}
    MaxFaults = 0
SPECIFICATION Spec
INVARIANTS
    FilesKeptUntilSettled

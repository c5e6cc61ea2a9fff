CONSTANTS
    s1 = s1
    alice = alice
    bob = bob
    f1 = f1
    f2 = f2
    Slots <- OneSlot
    Owners <- JustAlice
    Readers <- AliceAndBob
    Facts <- ClaimAndContrary
    Acls <- BothAcls
    SameClaim <- MCSameClaim
    Related <- MCRelated
    PrivateFacts <- ContraryIsPrivate
    PermanentFacts <- NoFacts
    Batches <- OneFactEach
    Cap = 1
    Edits <- Publishing
    EmbedFails = TRUE
    MaxCandidates = 2
    MinCandidates = 2
    MaxRows = 3
    MaxEvidence = 3
    MaxRuns = 2
    MaxFaults = 1
    Limit = 1
    MaxPending = 1
SPECIFICATION RetrievalSpec
CONSTRAINT FewOddities
INVARIANTS
    OnlyClearedRowsLeave
PROPERTIES
    PruneSparesTheUsed

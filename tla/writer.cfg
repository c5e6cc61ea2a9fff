CONSTANTS
    s1 = s1
    s2 = s2
    alice = alice
    f1 = f1
    f2 = f2
    Slots <- TwoSlots
    Owners <- JustAlice
    Facts <- ClaimAndContrary
    Acls <- BothAcls
    SameClaim <- MCSameClaim
    Related <- MCRelated
    PrivateFacts <- NoFacts
    PermanentFacts <- NoFacts
    Batches <- OneFactEach
    Cap = 1
    Edits <- Deletions
    EmbedFails = TRUE
    MaxCandidates = 2
    MinCandidates = 4
    MaxRows = 3
    MaxEvidence = 3
    MaxRuns = 3
    MaxFaults = 1
SPECIFICATION HistorySpec
SYMMETRY SlotSymmetry
CONSTRAINT FewOddities
INVARIANTS
    ContradictedHadSettled
    NewerAssertionWins
PROPERTIES
    RunsTableStatements
    DuplicatesNeedOverlap
    FactDroppedOnlyWithItsRow
    PruneStopsAtCap

CONSTANTS
    s1 = s1
    s2 = s2
    alice = alice
    f1 = f1
    Slots <- TwoSlots
    Owners <- JustAlice
    Facts <- OneFact
    Acls <- BothAcls
    PrivateFacts <- NoFacts
    PermanentFacts <- NoFacts
    Changes <- ChangeKinds
    MaxRows = 3
    MaxEvidence = 3
    Trigger = 1
    MaxCandidates = 2
    MinCandidates = 1
    EmbedFails = TRUE
    MaxEdits = 1
    MaxFaults = 1
SPECIFICATION ConsolidationSpec
SYMMETRY SlotSymmetry
CONSTRAINT FewOddities
PROPERTIES
    MergesAreTableStatements
    MergeKeepsPrivate
    EvidenceAccumulates

\* Five commits, two users, two failures.
SPECIFICATION DeploySpec
CONSTANTS
    ann = ann
    bob = bob
    Team = {ann, bob}
    Commits <- History
    MaxFailures = 2
SYMMETRY TeamSymmetry
INVARIANTS
    DeployedIsCurrent
    SchemaBeforeCode
    RecordedInOrder

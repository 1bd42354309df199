SPECIFICATION Spec
CONSTANTS
    ann = ann
    bob = bob
    Approvers = {ann, bob}
    Records = {r1}
    MaxLevel = 2
    Lists <- AllShapes
    Workers = {w1, w2, w3}
    MaxStarts = 3
    MaxMade = 0
    MaxKills = 1
SYMMETRY WorkerSymmetry
INVARIANTS
    TypeOK
    DecidedOnlyAfterConsent
    NoLevelSkipped
    FinalDecisionsStay
PROPERTIES
    ImplementsRow

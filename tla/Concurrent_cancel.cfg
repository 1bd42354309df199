SPECIFICATION Spec
CONSTANTS
    ann = ann
    bob = bob
    Approvers = {ann, bob}
    Records = {r1}
    MaxLevel = 2
    Lists <- AllShapes
    Workers = {w1, w2}
    MaxStarts = 4
    MaxMade = 0
    MaxKills = 0
PROPERTY
    CancelledStays

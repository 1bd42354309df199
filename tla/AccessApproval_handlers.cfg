SPECIFICATION Spec
CONSTANTS
    ann = ann
    bob = bob
    eve = eve
    Approvers = {ann, bob, eve}
    Records = {r1, r2}
    MaxLevel = 2
    Lists <- ListShapes
INVARIANTS
    TypeOK
    ApprovedByAll
    NoHiddenRejection
    SomebodyMayDecide
    ApproversOfTheRecords
PROPERTIES
    CancelledIsFinal

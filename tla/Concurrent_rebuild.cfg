SPECIFICATION FairSpec
CONSTANTS
    ann = ann
    bob = bob
    Approvers = {ann, bob}
    Records = {r1, r2}
    MaxLevel = 2
    Lists <- ChainOrBob
    Workers = {w1, w2}
    MaxStarts = 2
    MaxMade = 1
    MaxKills = 0
INVARIANTS
    DecidedOnlyAfterConsent
    FinalDecisionsStay
PROPERTIES
    HandlersReturn

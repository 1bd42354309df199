SPECIFICATION SerialSpec
CONSTANTS
    ann = ann
    bob = bob
    Approvers = {ann, bob}
    Records = {r1, r2}
    MaxLevel = 2
    Lists <- SomeLists
    Workers = {w1}
    MaxStarts = 5
    MaxMade = 2
    MaxKills = 0
PROPERTY ImplementsWorkflow

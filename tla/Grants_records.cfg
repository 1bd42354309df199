SPECIFICATION Spec
CONSTANTS
    Users = {uma}
    Parties = {}
    Records = {r1}
    Submitters = {w1}
    Workers = {a1, a2}
    Oneself = Oneself
    Nothing = Nothing
    MaxRequests = 2
    MaxKills = 1
    MaxOrder = 2
SYMMETRY Symmetric
INVARIANTS
    TypeOK
    AccessBehindSequence
    OnlyNamedRevoked
    IdsDistinct

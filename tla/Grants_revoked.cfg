SPECIFICATION Spec
CONSTANTS
    Users = {uma}
    Parties = {eve}
    Records = {r1}
    Submitters = {w1}
    Workers = {a1}
    Oneself = Oneself
    Nothing = Nothing
    MaxRequests = 2
    MaxKills = 0
    MaxOrder = 1
PROPERTY
    RevokedMeansNoAccess

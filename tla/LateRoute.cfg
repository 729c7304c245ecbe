SPECIFICATION Spec
CONSTANTS
    r1 = r1  r2 = r2
    g1 = g1  g2 = g2
    Requests = {r1}
    Identities = {g1, g2}
    Models = {"m", "m-max", "k"}
    Functions = 2
    Catalog <- MCCatalog
    MaxName <- MCMaxName
    Limits = {0, 1, 3}
    Capacity = 2
INVARIANTS
    UnknownBeforeStart

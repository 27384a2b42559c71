SPECIFICATION FairSpec
CONSTANTS
    UserIDs = {}
    RoleIDs = {}
    p1 = p1
    p2 = p2
    c1 = c1
    c2 = c2
    f1 = f1
    f2 = f2
    Processes = {p1, p2}
    Clients = {c1}
    Paths = {f1, f2}
    Configs <- TwoFiles
    Fresh = TRUE
    MaxEdits = 1
    MaxDeaths = 1
    MaxSends = 2
    MaxProjects = 2
INVARIANT SchemaIsWhole
INVARIANT AnsweredAddsSurvive
INVARIANT OneDatabasePerProcess
PROPERTY ComesUp

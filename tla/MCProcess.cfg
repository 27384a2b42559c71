SPECIFICATION Spec
CONSTANTS
    UserIDs = {}
    RoleIDs = {}
    p1 = p1
    p2 = p2
    c1 = c1
    c2 = c2
    f1 = f1
    f2 = f2
    Processes = {p1}
    Clients = {c1, c2}
    Paths = {f1}
    Configs <- OneFile
    Fresh = TRUE
    MaxEdits = 2
    MaxDeaths = 2
    MaxSends = 2
    MaxProjects = 3
INVARIANT TypeOK
INVARIANT SchemaIsWhole
INVARIANT ServesWhenReady
INVARIANT NeverRecreated
INVARIANT AnsweredAddsSurvive
INVARIANT DeletedStaysDeleted
SYMMETRY Symmetry

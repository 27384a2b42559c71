CONSTANTS
    t1 = t1
    t2 = t2
    Threads = {t1, t2}
    alice = alice
    bob = bob
    admin = admin
    default = default
    UserIDs = {alice, bob}
    RoleIDs = {admin, default}
    Configs <- TwoConfigs
    Ops = {"add_project", "del_project", "get_project", "get_users"}
    Ids = {1}
    MaxRows = 1
    Segments <- Texts
    LeadingInt <- Leading
    IntMax = 9
    HttpRequests <- Requests
SYMMETRY Symmetry
SPECIFICATION Spec
INVARIANTS TypeOK AuthorizedNow OneTransactionAtATime GetNeverWrites
PROPERTY ServesTaskBoard

CONSTANTS
    t1 = t1
    t2 = t2
    Threads = {t1, t2}
    alice = alice
    bob = bob
    admin = admin
    default = default
    UserIDs = {alice, bob}
    RoleIDs = {admin, default}
    Configs <- OneConfig
    Ops = {"add_project", "del_project", "add_task", "assign_task", "add_worker", "get_task"}
    Ids = {1}
    MaxRows = 1
    Segments <- Texts
    LeadingInt <- Leading
    IntMax = 9
    HttpRequests <- LiveRequests
SPECIFICATION FairSpec
PROPERTIES EveryRequestAnswered

CONSTANTS
    t1 = t1
    t2 = t2
    Threads = {t1, t2}
    admin = admin
    admins = admins
    UserIDs = {admin}
    RoleIDs = {admins}
    InitialUsers <- MCUsers
    InitialRoles <- MCRoles
    Ops = {"add_project", "del_project", "add_task", "assign_task", "unassign_task", "add_worker", "get_projects", "get_project", "get_worker", "get_task", "get_users", "get_workers", "debug"}
    Ids = {1, 2}
    MaxRows = 1
SYMMETRY Symmetry
SPECIFICATION Spec
INVARIANTS TypeOK ReadsStayTrue NoSurpriseFailures
PROPERTIES IdsStable LinearizesTaskBoard

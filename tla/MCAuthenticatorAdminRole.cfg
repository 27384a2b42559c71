CONSTANTS
    t1 = t1
    t2 = t2
    Threads = {t1, t2}
    alice = alice
    bob = bob
    carol = carol
    admin = admin
    default = default
    guest = guest
    UserIDs = {alice, bob, carol}
    RoleIDs = {admin, default, guest}
    Configs <- AnyRoles
SPECIFICATION Spec
INVARIANTS AdminRoleUponLogin

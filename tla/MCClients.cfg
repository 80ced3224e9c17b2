SPECIFICATION ClientsSpec
CONSTANTS
    Tokens = {admin, wrong}
    Admin = admin
    Empty = empty
    MaxRequests = 3
    MaxFaults = 2
    Names = {n1, n2}
    Peers = {p1}
    Loads = {1, 2}
    Edits = {1, 2}
    MaxChanges = 3
    Memos = {m1, m2}
    Posts = {q1, q2}
    Window = 4
    MaxServed = 3
    MaxAsked = 4
    None = None
INVARIANTS StoredIsAccepted LonePostSyncs BurstIsBounded
PROPERTIES LoginIsShown ShowsTheServer ServedAgain

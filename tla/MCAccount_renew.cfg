SPECIFICATION FairSpec
CONSTANTS
    r1 = r1
    r2 = r2
    r3 = r3
    l1 = l1
    l2 = l2
    ann = ann
    bob = bob
    Nobody = Nobody
    Requests = {r1, r2}
    Logins = {l1, l2}
    Accounts = {ann, bob}
    LoginAs <- FirstAnnThenBob
    Rotating = TRUE
CHECK_DEADLOCK FALSE
INVARIANTS
    KeepsSession
    AccountSticks
PROPERTIES
    LoginEnds

CONSTANTS
    Session = {s1, s2}
    Admin = {a1}
    Login = {p1}
    Nobody = Nobody
    Null = Null
    Policies = {"A", "B"}
    Observe = TRUE
    MaxLen = 2
    Events = {"idle", "logout", "audit", "code", "codeEnds"}
SPECIFICATION FairSpec
INVARIANT OneUnlessBlind
PROPERTY EntriesGo

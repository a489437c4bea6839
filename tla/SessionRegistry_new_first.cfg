CONSTANTS
    Session = {s1, s2}
    Admin = {a1}
    Login = {p1, p2}
    Nobody = Nobody
    Null = Null
    Policies = {"A"}
    Observe = FALSE
    MaxLen = 3
    Events = {}
SPECIFICATION Spec
INVARIANT OnePerAdmin

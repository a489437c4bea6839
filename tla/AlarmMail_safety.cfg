CONSTANTS
    m1 = m1
    m2 = m2
    NoMail = NoMail
    Mail = {m1, m2}
    Sender = {s1, s2, s3}
    Dirs = 2
    DirOf <- TwoDirs
    PerDir = 1
    Pool = 1
    Closed = {m1}
    Large = {m2}
    Events = {"smtp", "crash"}
SPECIFICATION Spec
SYMMETRY Senders
INVARIANTS TmpIsOwned DeliveryIsHonest
PROPERTY ImplementsLife

CONSTANTS
    m1 = m1
    m2 = m2
    NoMail = NoMail
    Mail = {m1, m2}
    Sender = {s1, s2, s3}
    Dirs = 1
    DirOf <- OneDir
    PerDir = 2
    Pool = 2
    Closed = {m1, m2}
    Large = {}
    Events = {}
SPECIFICATION FairSpec
INVARIANT FailsOnlyIfTakenTwice
PROPERTY EveryMailEnds

CONSTANTS
    Account = {a1}
    Worker = {r1, r2}
    Releaser = {t1, t2}
    Limits = {1, 2}
    Restore = 1
    FailCap = 7
    ErrCap = 1
    Faults = {"dbError", "rename", "restart"}
    Nobody = Nobody
SPECIFICATION FairSpec
INVARIANTS LockTypeOK LockHasReleaser FailuresBounded
PROPERTIES FloorNeverFalls BlockIsTemporary

CONSTANTS
    w1 = w1
    round = round
    None = None
    Ips = {1, 2}
    First = {2}
    Web = {w1}
    Scheduled = round
    Budgets <- Combinations
SPECIFICATION Spec
INVARIANT ListIsRight
PROPERTIES GoesBackOnlyIfContended ListRecovers

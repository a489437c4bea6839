CONSTANTS
    r1 = r1
    r2 = r2
    NoRoom = NoRoom
    Rooms = {r1, r2}
    Length <- Lengths
    DayLength = 3
    Limit = 2
    ViewPages = 3
    MaxInFlight = 2
SPECIFICATION Spec
INVARIANTS OneConversation EndsInReach ReadWasShown MasksHaveOwners

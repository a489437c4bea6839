CONSTANTS
    HoursPerDay = 2
    First = 2
    MaxHour = 5
    Settings <- MCSettings
    Silent = {3}
    MaxEdits = 1
    MaxFaults = 1
SPECIFICATION Spec
INVARIANTS EveryHourIsReported LogDecides SaidIsSearched MailsAreKept

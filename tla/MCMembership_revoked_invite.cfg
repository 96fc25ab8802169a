CONSTANTS
    crew = crew
    guild = guild
    olga = olga
    pat = pat
    q1 = q1
    q2 = q2
    Teams <- OneTeam
    People <- TwoPeople
    Owner <- OlgaOwnsOne
    Amounts <- ZeroOrTwo
    DefaultLimit = 1
    Slots <- TwoSlots
    NoInvite = NoInvite
    NoJob = NoJob
    MaxRequests = 2
    MaxFailures = 1
    MaxSpent = 0
SPECIFICATION Spec
PROPERTIES
    RevokedCannotJoin
CHECK_DEADLOCK FALSE

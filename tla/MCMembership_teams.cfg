CONSTANTS
    crew = crew
    guild = guild
    olga = olga
    pat = pat
    q1 = q1
    q2 = q2
    Teams <- OneTeam
    People <- TwoPeople
    Owner <- OlgaOwnsOne
    Amounts <- ZeroOrTwo
    DefaultLimit = 1
    Slots <- TwoSlots
    NoInvite = NoInvite
    NoJob = NoJob
    MaxRequests = 4
    MaxFailures = 1
    MaxSpent = 1
SPECIFICATION Spec
SYMMETRY SlotSymmetry
INVARIANTS
    TypeOK
    OnePending
    OwnersStay
    AcceptedJoined
    CapsWereAffordable
    PoolCoversSeats
CHECK_DEADLOCK FALSE

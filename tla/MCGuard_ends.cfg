CONSTANTS
    r1 = r1
    r2 = r2
    r3 = r3
    alice = alice
    bob = bob
    crew = crew
    NoTeam = NoTeam
    Requests <- TwoRequests
    Users <- BothUsers
    Teams <- OneTeam
    Owner <- AliceOwns
    StartMembers <- Everyone
    StartLimit <- SmallLimits
    Quotes <- FewQuotes
    Costs <- FewCosts
    Limits = {}
    Env <- AnyFault
SPECIFICATION FairSpec
INVARIANTS
    SpentIsBilled
PROPERTIES
    EveryRequestEnds
CHECK_DEADLOCK FALSE

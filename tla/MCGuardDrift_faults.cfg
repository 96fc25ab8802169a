CONSTANTS
    r1 = r1
    r2 = r2
    r3 = r3
    alice = alice
    bob = bob
    crew = crew
    NoTeam = NoTeam
    Requests <- ThreeRequests
    Users <- BothUsers
    Teams <- OneTeam
    Owner <- AliceOwns
    StartMembers <- Everyone
    StartLimit <- SmallLimits
    Quotes <- ClampQuote
    Costs = {2}
    Limits = {2}
    Env <- Losses
    MaxAdds = 2
SPECIFICATION DriftSpec
SYMMETRY RequestSymmetry
INVARIANTS
    DriftTypeOK
    HoldFollowsPhase
    CountersErrLow
    SolventDespiteDrift
CHECK_DEADLOCK FALSE

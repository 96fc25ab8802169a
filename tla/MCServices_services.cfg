CONSTANTS
    crew = crew
    guild = guild
    olga = olga
    pat = pat
    ann = ann
    Ann = Ann
    clerk = clerk
    dev = dev
    cheap = cheap
    dear = dear
    Teams <- TwoTeams
    People <- TwoPeople
    Owner <- OlgaOwns
    Amounts <- JustOne
    DefaultLimit = 1
    Slots = {q1, q2}
    NoInvite = NoInvite
    NoJob = NoJob
    MaxRequests = 2
    MaxFailures = 1
    MaxSpent = 0
    LastKey = 2
    Prices = {cheap, dear}
    NoPrice = NoPrice
    Files <- FilePrices
    Feeds <- FeedPrices
    Operators = {op}
    Main = main
    MaxEdits = 2
    MaxMishaps = 2
    Emails = {ann, Ann}
    Identities = {clerk, dev}
    ClerkIdentities = {clerk}
    EmailOf <- AnnsEmail
    NoOne = NoOne
    KeyPrefixes = {k1, k2}
    MaxKeys = 1
    Cookies = {s1}
    Calls = {c1, c2}
    MaxUsers = 2
    MaxFaults = 1
    MaxInt = 7000
    DefaultMax = 3
    NoRate = NoRate
    Repriced <- NewRates
    Requests <- ManyRequests
    Answers <- ManyAnswers
SPECIFICATION ServicesSpec
INVARIANTS
    CatalogTypeOK
    CatalogServed
    AccountsTypeOK
    OneUserPerPerson
    KeysAreBounded
    MeteringTypeOK
    ClampIsBest
    HoldRoundsUp
    HoldCoversBill
    ReportIsOfAnswer
    ChargedAsReported
PROPERTIES
    FileNeverOverwrites
    InvitesSettle
    CopyCatchesUp
    SignInsSucceed
    SessionsEnd
CHECK_DEADLOCK FALSE

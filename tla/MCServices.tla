----------------------------- MODULE MCServices -----------------------------
(***************************************************************************)
(* The four services beside the request path: teams and invites, the price *)
(* catalog, accounts and metering.  What one of them changes and another   *)
(* reads is the prices: the catalog's, which metering takes to be any of   *)
(* NewRates whenever it looks one up.  So a behaviour is one of one of     *)
(* them, the part that is drawn at the start; the others rest in a state   *)
(* in which none of their fair actions is enabled.                         *)
(***************************************************************************)
EXTENDS Membership, Catalog, Accounts, Metering, SequencesExt

CONSTANTS crew, guild, olga, pat, ann, Ann, clerk, dev, cheap, dear

VARIABLE part

Parts == {"teams", "catalog", "accounts", "metering"}
servicesVars == <<part, vars, catalogVars, accountVars, meteringVars>>

\* Membership: two teams of Olga's, who asks herself and Pat in.
TwoTeams == {crew, guild}
TwoPeople == {olga, pat}
OlgaOwns == [t \in {crew, guild} |-> olga]
JustOne == {1}

TeamsRest ==
    /\ account = People
    /\ limit = [t \in Teams |-> 0] /\ highest = limit /\ pool = limit
    /\ member = [s \in Seats |-> "none"]
    /\ cap = [s \in Seats |-> 0] /\ spent = cap
    /\ invite = [i \in Invites |-> "none"] /\ inviteCap = [i \in Invites |-> 0]
    /\ at = [q \in Slots |-> "idle"] /\ job = [q \in Slots |-> NoJob]
    /\ requests = 0 /\ failures = 0

\* Catalog: pricing.json is empty or prices both models, OpenRouter lists the
\* first of them only.
FilePrices == {[k \in 1 .. 2 |-> NoPrice], [k \in 1 .. 2 |-> cheap]}
FeedPrices == {[k \in 1 .. 2 |-> IF k = 1 THEN dear ELSE NoPrice]}

CatalogRests ==
    /\ phase = "boot"
    /\ table = Nothing /\ memory = Nothing
    /\ task = [w \in Workers |-> Idle]
    /\ gone = {} /\ edits = 0 /\ mishaps = 0

\* Accounts: Ann signs in with Clerk and in the development portal, and an
\* administrator spells her address with a capital.
AnnsEmail == [i \in {clerk, dev} |-> ann]

AccountsRest ==
    /\ email = [u \in UserIds |-> IF u = 1 THEN ann ELSE NoOne]
    /\ identity = [i \in Identities |-> 1]
    /\ key = [p \in KeyPrefixes |-> NoKey]
    /\ call = [c \in Calls |-> Ended]
    /\ session = [s \in Cookies |-> NoOne]
    /\ revoked = {} /\ expired = {} /\ faults = 0

\* Metering: requests that are affordable as they are, with a lower cap, for
\* their input only, and not at all; whose output, or its cost, overflows;
\* and streams of up to three events.
ManyCaps ==
    {<<>>, [max_tokens |-> 0], [max_output_tokens |-> 4, max_tokens |-> 3],
     [max_tokens |-> 1, max_completion_tokens |-> 4]}
ManyRequests ==
    [rate : {[in |-> 1500, out |-> 1800]}, input : {1}, caps : ManyCaps, available : {0, 1, 4, 8}]
    \cup [rate : {[in |-> 999, out |-> 0]}, input : {1, 9}, caps : {<<>>}, available : {3}]
Tellings ==
    {[out |-> 2, in |-> 1, cost |-> 0, text |-> 0, early |-> FALSE],
     [out |-> 0, in |-> 0, cost |-> 0, text |-> 1, early |-> FALSE],
     [out |-> 1, in |-> 4, cost |-> 0, text |-> 1, early |-> TRUE],
     [out |-> 0, in |-> 0, cost |-> 9, text |-> 0, early |-> FALSE]}
ManyAnswers ==
    [kind : {"sse"}, ok : {TRUE}, split : {FALSE}, events : BoundedSeq(Tellings, 3)]
    \cup [kind : {"sse"}, ok : {TRUE}, split : {TRUE}, events : BoundedSeq(Tellings, 2)]
    \cup [kind : {"sse", "json", "other"}, ok : BOOLEAN, split : {FALSE},
          events : {<<e>> : e \in Tellings}]

\* Between two look-ups a model becomes a little dearer, so that its clamped
\* request still fits, much dearer, cheaper, or unknown.
NewRates ==
    {[in |-> 1500, out |-> 2000], [in |-> 1500, out |-> 2500], [in |-> 999, out |-> 500], NoRate}

MeteringRests == MeteringInit /\ request = CHOOSE r \in Requests : TRUE

ServicesInit ==
    /\ part \in Parts
    /\ IF part = "teams" THEN Init ELSE TeamsRest
    /\ IF part = "catalog" THEN CatalogInit ELSE CatalogRests
    /\ IF part = "accounts" THEN AccountsInit ELSE AccountsRest
    /\ IF part = "metering" THEN MeteringInit ELSE MeteringRests

ServicesNext ==
    /\ UNCHANGED part
    /\ \/ part = "teams" /\ Next /\ UNCHANGED <<catalogVars, accountVars, meteringVars>>
       \/ part = "catalog" /\ CatalogNext /\ UNCHANGED <<vars, accountVars, meteringVars>>
       \/ part = "accounts" /\ AccountsNext /\ UNCHANGED <<vars, catalogVars, meteringVars>>
       \/ part = "metering" /\ MeteringNext /\ UNCHANGED <<vars, catalogVars, accountVars>>

ServicesSpec ==
    /\ ServicesInit /\ [][ServicesNext]_servicesVars
    /\ Fairness /\ CatalogFairness /\ AccountsFairness
=============================================================================

----------------------------- MODULE Membership -----------------------------
(***************************************************************************)
(* Teams, memberships and invites (internal/billing/teams.go), as the      *)
(* portal's handlers drive them.  A call is several SQL statements with no *)
(* transaction around them, so calls of an owner, and the acceptance each  *)
(* GET /portal/api/me of an invitee runs, interleave statement by          *)
(* statement; a slot is such a call in flight.  Any statement may fail     *)
(* (the client hangs up, Turso errs), which ends its call where it is.     *)
(*                                                                         *)
(* A seat <<t, p>> is the team_members row of person p in team t.  A       *)
(* person is an e-mail address; the ids of their invites are numbered.     *)
(* What a request spends on a seat is Ledger's business: here any active   *)
(* seat may spend.                                                         *)
(*                                                                         *)
(* An operator named Bug... is a wrong version of the one that follows it, *)
(* used to see a property fail; no specification refers to it.             *)
(***************************************************************************)
EXTENDS Integers, FiniteSets, Totals

CONSTANTS
    Teams, People,
    Owner,          \* Owner[t]: who may create team t
    Amounts,        \* limits and caps an owner may ask for
    DefaultLimit,   \* CreateTeam's limit when none is given
    Slots,          \* calls in flight
    NoInvite,       \* the "invite" of an owner's AddMember
    NoJob,          \* what an idle slot works on
    MaxRequests,    \* bound: calls of owners
    MaxFailures,    \* bound: statements that fail
    MaxSpent        \* bound: what is spent on a pool

Seats == Teams \X People
Invites == Seats \X (1 .. MaxRequests)

\* What a slot works on; todo are the invites an acceptance has read and not
\* taken yet.
Jobs == [seat : Seats, cap : Nat, invite : Invites \cup {NoInvite}, todo : SUBSET Invites]

ASSUME OwnerAssumption == Owner \in [Teams -> People]
ASSUME AmountsAssumption == Amounts \subseteq Nat /\ DefaultLimit \in Nat
ASSUME NothingAssumption == NoInvite \notin Invites /\ NoJob \notin Jobs
ASSUME BoundsAssumption == MaxRequests \in Nat /\ MaxFailures \in Nat /\ MaxSpent \in Nat
ASSUME FiniteAssumption == IsFiniteSet(People)

VARIABLES
    account,        \* the people with an active users row
    limit,          \* limit[t]: teams.limit_microusd
    highest,        \* highest[t]: the highest limit team t ever had (history)
    pool,           \* pool[t]: teams.spent_microusd
    member,         \* member[s]: team_members.status
    cap, spent,     \* cap[s], spent[s]: the columns of seat s
    invite,         \* invite[i]: team_invites.status
    inviteCap,      \* inviteCap[i]: team_invites.cap_microusd
    at, job,        \* at[q]: the statement slot q comes to; job[q]: for whom
    requests, failures

teamVars == <<limit, highest, pool>>
seatVars == <<member, cap, spent>>
inviteVars == <<invite, inviteCap>>
slotVars == <<at, job>>
vars == <<account, teamVars, seatVars, inviteVars, slotVars, requests, failures>>

Statements == {"lookup", "check", "invite", "find", "revive", "insert", "reread",
               "mark", "cap", "ownercap"}

\* The owner, the seat an invite is for, and the people in question.
OwnerSeat(t) == <<t, Owner[t]>>
Exists(t) == member[OwnerSeat(t)] # "none"
SeatOf(i) == i[1]
PendingFor(s) == {i \in Invites : SeatOf(i) = s /\ invite[i] = "pending"}
PendingOf(p) == {i \in Invites : SeatOf(i)[2] = p /\ invite[i] = "pending"}

TypeOK ==
    /\ account \subseteq People
    /\ limit \in [Teams -> Nat] /\ highest \in [Teams -> Nat] /\ pool \in [Teams -> Nat]
    /\ member \in [Seats -> {"none", "active", "removed"}]
    /\ cap \in [Seats -> Nat] /\ spent \in [Seats -> Nat]
    /\ invite \in [Invites -> {"none", "pending", "accepted", "revoked"}]
    /\ inviteCap \in [Invites -> Nat]
    /\ at \in [Slots -> Statements \cup {"idle"}]
    /\ job \in [Slots -> Jobs \cup {NoJob}]
    /\ \A q \in Slots : at[q] # "idle" => job[q] \in Jobs
    /\ \A q \in Slots : at[q] = "mark" => job[q].invite \in Invites
    /\ requests \in 0 .. MaxRequests
    /\ failures \in 0 .. MaxFailures

Init ==
    /\ account = {}
    /\ limit = [t \in Teams |-> 0] /\ highest = [t \in Teams |-> 0]
    /\ pool = [t \in Teams |-> 0]
    /\ member = [s \in Seats |-> "none"]
    /\ cap = [s \in Seats |-> 0] /\ spent = [s \in Seats |-> 0]
    /\ invite = [i \in Invites |-> "none"] /\ inviteCap = [i \in Invites |-> 0]
    /\ at = [q \in Slots |-> "idle"] /\ job = [q \in Slots |-> NoJob]
    /\ requests = 0 /\ failures = 0

-----------------------------------------------------------------------------
(* How a slot moves *)

Begin(q, statement, task) ==
    /\ at[q] = "idle"
    /\ at' = [at EXCEPT ![q] = statement]
    /\ job' = [job EXCEPT ![q] = task]

Go(q, statement) == at' = [at EXCEPT ![q] = statement] /\ UNCHANGED job

End(q) == at' = [at EXCEPT ![q] = "idle"] /\ job' = [job EXCEPT ![q] = NoJob]

\* A call of an owner, of which there are at most MaxRequests.
Request == requests < MaxRequests /\ requests' = requests + 1

BugSeatTakenMarks(q) == Go(q, "mark")

\* upsertActiveMember found the seat taken: an owner's call ends there, an
\* acceptance marks its invite all the same.
SeatTaken(q) == IF job[q].invite = NoInvite THEN End(q) ELSE Go(q, "mark")

-----------------------------------------------------------------------------
(* The calls *)

\* A first sign-in, or provisioning, makes the users row.
SignUp(p) ==
    /\ p \notin account
    /\ account' = account \cup {p}
    /\ UNCHANGED <<teamVars, seatVars, inviteVars, slotVars, requests, failures>>

\* CreateTeam: the team and its owner's seat, in one transaction.
CreateTeam(t, n) ==
    LET granted == IF n <= 0 THEN DefaultLimit ELSE n
    IN  /\ ~Exists(t)
        /\ limit' = [limit EXCEPT ![t] = granted]
        /\ highest' = [highest EXCEPT ![t] = granted]
        /\ member' = [member EXCEPT ![OwnerSeat(t)] = "active"]
        /\ cap' = [cap EXCEPT ![OwnerSeat(t)] = granted]
        /\ UNCHANGED <<account, pool, spent, inviteVars, slotVars, requests, failures>>

BugAddMember(q, s, n) ==
    /\ Exists(s[1])
    /\ Begin(q, "lookup", [seat |-> s, cap |-> n, invite |-> NoInvite, todo |-> {}])
    /\ Request
    /\ UNCHANGED <<account, teamVars, seatVars, inviteVars, failures>>

\* AddTeamMemberOrInvite reads the team and compares the cap with its limit.
AddMember(q, s, n) ==
    /\ Exists(s[1])
    /\ n <= limit[s[1]]
    /\ Begin(q, "lookup", [seat |-> s, cap |-> n, invite |-> NoInvite, todo |-> {}])
    /\ Request
    /\ UNCHANGED <<account, teamVars, seatVars, inviteVars, failures>>

\* Its second statement: who has the e-mail?  Nobody: an invite; the owner:
\* refused; anybody else: a seat.
LookUp(q) ==
    LET s == job[q].seat
    IN  /\ at[q] = "lookup"
        /\ \/ s[2] \notin account /\ Go(q, "check")
           \/ s[2] \in account /\ s = OwnerSeat(s[1]) /\ End(q)
           \/ s[2] \in account /\ s # OwnerSeat(s[1]) /\ Go(q, "find")
        /\ UNCHANGED <<account, teamVars, seatVars, inviteVars, requests, failures>>

\* createPendingInvite looks for a pending invite of the same e-mail ...
CheckPending(q) ==
    /\ at[q] = "check"
    /\ IF PendingFor(job[q].seat) = {} THEN Go(q, "invite") ELSE End(q)
    /\ UNCHANGED <<account, teamVars, seatVars, inviteVars, requests, failures>>

BugInviteTwice(q) ==
    /\ at[q] = "invite"
    /\ LET s == job[q].seat
           i == <<s, 1 + Cardinality({j \in Invites : SeatOf(j) = s /\ invite[j] # "none"})>>
       IN  /\ invite' = [invite EXCEPT ![i] = "pending"]
           /\ inviteCap' = [inviteCap EXCEPT ![i] = job[q].cap]
    /\ End(q)
    /\ UNCHANGED <<account, teamVars, seatVars, requests, failures>>

\* ... and inserts one; the partial unique index rejects a second.
CreateInvite(q) ==
    /\ at[q] = "invite"
    /\ LET s == job[q].seat
       IN  \/ PendingFor(s) # {} /\ UNCHANGED inviteVars
           \/ /\ PendingFor(s) = {}
              /\ \E i \in Invites :
                    /\ SeatOf(i) = s /\ invite[i] = "none"
                    /\ \A j \in Invites : SeatOf(j) = s /\ invite[j] = "none" => i[2] <= j[2]
                    /\ invite' = [invite EXCEPT ![i] = "pending"]
                    /\ inviteCap' = [inviteCap EXCEPT ![i] = job[q].cap]
    /\ End(q)
    /\ UNCHANGED <<account, teamVars, seatVars, requests, failures>>

\* AcceptPendingInvitesForEmail reads the pending invites of p, and takes
\* them one after the other.
AcceptInvites(q, p) ==
    /\ \E i \in PendingOf(p) :
          Begin(q, "find", [seat |-> SeatOf(i), cap |-> inviteCap[i], invite |-> i,
                            todo |-> PendingOf(p) \ {i}])
    /\ UNCHANGED <<account, teamVars, seatVars, inviteVars, requests, failures>>

BugTakenSeatErrs(q) ==
    /\ at[q] = "find"
    /\ \/ member[job[q].seat] = "active" /\ End(q)
       \/ member[job[q].seat] = "removed" /\ Go(q, "revive")
       \/ member[job[q].seat] = "none" /\ Go(q, "insert")
    /\ UNCHANGED <<account, teamVars, seatVars, inviteVars, requests, failures>>

\* upsertActiveMember reads the status of the seat ...
FindSeat(q) ==
    /\ at[q] = "find"
    /\ \/ member[job[q].seat] = "active" /\ SeatTaken(q)
       \/ member[job[q].seat] = "removed" /\ Go(q, "revive")
       \/ member[job[q].seat] = "none" /\ Go(q, "insert")
    /\ UNCHANGED <<account, teamVars, seatVars, inviteVars, requests, failures>>

BugReviveClearsPool(q) ==
    LET s == job[q].seat
    IN  /\ at[q] = "revive"
        /\ member' = [member EXCEPT ![s] = "active"]
        /\ cap' = [cap EXCEPT ![s] = job[q].cap]
        /\ pool' = [pool EXCEPT ![s[1]] = @ - spent[s]]
        /\ Go(q, "reread")
        /\ UNCHANGED <<account, limit, highest, spent, inviteVars, requests, failures>>

\* ... and updates a row it saw removed, as it is by now: what the seat has
\* spent is forgotten, also if another call has made it active meanwhile ...
ReviveSeat(q) ==
    LET s == job[q].seat
    IN  /\ at[q] = "revive"
        /\ member' = [member EXCEPT ![s] = "active"]
        /\ cap' = [cap EXCEPT ![s] = job[q].cap]
        /\ spent' = [spent EXCEPT ![s] = 0]
        /\ Go(q, "reread")
        /\ UNCHANGED <<account, teamVars, inviteVars, requests, failures>>

\* ... or inserts one, unless the primary key is taken by now ...
InsertSeat(q) ==
    LET s == job[q].seat
    IN  /\ at[q] = "insert"
        /\ IF member[s] = "none"
           THEN /\ member' = [member EXCEPT ![s] = "active"]
                /\ cap' = [cap EXCEPT ![s] = job[q].cap]
                /\ Go(q, "reread")
           ELSE SeatTaken(q) /\ UNCHANGED <<member, cap>>
        /\ UNCHANGED <<account, teamVars, spent, inviteVars, requests, failures>>

\* ... and reads it back: a seat removed meanwhile is an error, which also
\* ends an acceptance, with this invite and the rest still pending.
RereadSeat(q) ==
    /\ at[q] = "reread"
    /\ IF member[job[q].seat] = "active" THEN SeatTaken(q) ELSE End(q)
    /\ UNCHANGED <<account, teamVars, seatVars, inviteVars, requests, failures>>

\* The acceptance goes on with the next invite it read, or is done.
NextInvite(q) ==
    IF job[q].todo = {} THEN End(q)
    ELSE /\ at' = [at EXCEPT ![q] = "find"]
         /\ \E i \in job[q].todo :
               job' = [job EXCEPT ![q] = [seat |-> SeatOf(i), cap |-> inviteCap[i],
                                          invite |-> i, todo |-> job[q].todo \ {i}]]

\* The invite is marked accepted, whatever its status is by now.
MarkAccepted(q) ==
    /\ at[q] = "mark"
    /\ invite' = [invite EXCEPT ![job[q].invite] = "accepted"]
    /\ NextInvite(q)
    /\ UNCHANGED <<account, teamVars, seatVars, inviteCap, requests, failures>>

\* RevokePendingInvite: one guarded statement.
RevokeInvite(i) ==
    /\ invite[i] = "pending"
    /\ invite' = [invite EXCEPT ![i] = "revoked"]
    /\ Request
    /\ UNCHANGED <<account, teamVars, seatVars, inviteCap, slotVars, failures>>

BugRemoveAnyone(s) ==
    /\ member[s] = "active"
    /\ member' = [member EXCEPT ![s] = "removed"]
    /\ Request
    /\ UNCHANGED <<account, teamVars, cap, spent, inviteVars, slotVars, failures>>

\* RemoveTeamMember: one guarded statement; never the owner.
RemoveMember(s) ==
    /\ s # OwnerSeat(s[1])
    /\ member[s] = "active"
    /\ member' = [member EXCEPT ![s] = "removed"]
    /\ Request
    /\ UNCHANGED <<account, teamVars, cap, spent, inviteVars, slotVars, failures>>

\* UpdateTeamMemberCap compares the cap with the limit it reads ...
ChangeCap(q, s, n) ==
    /\ Exists(s[1])
    /\ n <= limit[s[1]]
    /\ Begin(q, "cap", [seat |-> s, cap |-> n, invite |-> NoInvite, todo |-> {}])
    /\ Request
    /\ UNCHANGED <<account, teamVars, seatVars, inviteVars, failures>>

\* ... and writes it in a second statement, if the seat is active then.
WriteCap(q) ==
    /\ at[q] = "cap"
    /\ cap' = [cap EXCEPT ![job[q].seat] =
                 IF member[job[q].seat] = "active" THEN job[q].cap ELSE @]
    /\ End(q)
    /\ UNCHANGED <<account, teamVars, member, spent, inviteVars, requests, failures>>

\* UpdateTeamBudget writes the limit ...
ChangeLimit(q, t, n) ==
    /\ Exists(t)
    /\ limit' = [limit EXCEPT ![t] = n]
    /\ highest' = [highest EXCEPT ![t] = IF n > @ THEN n ELSE @]
    /\ Begin(q, "ownercap", [seat |-> OwnerSeat(t), cap |-> n, invite |-> NoInvite, todo |-> {}])
    /\ Request
    /\ UNCHANGED <<account, pool, seatVars, inviteVars, failures>>

\* ... and then the owner's cap, in a statement whose error it ignores (Fail).
WriteOwnerCap(q) ==
    /\ at[q] = "ownercap"
    /\ cap' = [cap EXCEPT ![job[q].seat] = job[q].cap]
    /\ End(q)
    /\ UNCHANGED <<account, teamVars, member, spent, inviteVars, requests, failures>>

BugFailGoesOn(q) ==
    /\ at[q] # "idle"
    /\ failures < MaxFailures
    /\ failures' = failures + 1
    /\ IF at[q] = "insert" THEN SeatTaken(q) ELSE End(q)
    /\ UNCHANGED <<account, teamVars, seatVars, inviteVars, requests>>

\* A statement fails or the client is gone: the call ends where it is.
Fail(q) ==
    /\ at[q] # "idle"
    /\ failures < MaxFailures
    /\ failures' = failures + 1
    /\ End(q)
    /\ UNCHANGED <<account, teamVars, seatVars, inviteVars, requests>>

\* A request of an active member settles: on the seat and on the pool.
Spend(s) ==
    /\ member[s] = "active"
    /\ pool[s[1]] < MaxSpent
    /\ spent' = [spent EXCEPT ![s] = @ + 1]
    /\ pool' = [pool EXCEPT ![s[1]] = @ + 1]
    /\ UNCHANGED <<account, limit, highest, member, cap, inviteVars, slotVars, requests, failures>>

-----------------------------------------------------------------------------
(* The portal's handlers: requirePortalUser, and the store's first statement *)

IsPortalUser(p) == p \in account
OwnerCalls(t) == IsPortalUser(Owner[t])

HandlePortalCreateTeam(t, n) == OwnerCalls(t) /\ CreateTeam(t, n)
HandlePortalUpdateTeamBudget(q, t, n) == OwnerCalls(t) /\ ChangeLimit(q, t, n)
HandlePortalAddTeamMember(q, s, n) == OwnerCalls(s[1]) /\ AddMember(q, s, n)
HandlePortalUpdateMemberCap(q, s, n) == OwnerCalls(s[1]) /\ ChangeCap(q, s, n)
HandlePortalRemoveTeamMember(s) == OwnerCalls(s[1]) /\ RemoveMember(s)
HandlePortalRevokePendingInvite(i) == OwnerCalls(SeatOf(i)[1]) /\ RevokeInvite(i)

\* GetAccountView, with invites to accept.
HandlePortalMe(q, p) == IsPortalUser(p) /\ AcceptInvites(q, p)

-----------------------------------------------------------------------------
Statement(q) ==
    \/ LookUp(q) \/ CheckPending(q) \/ CreateInvite(q)
    \/ FindSeat(q) \/ ReviveSeat(q) \/ InsertSeat(q) \/ RereadSeat(q) \/ MarkAccepted(q)
    \/ WriteCap(q) \/ WriteOwnerCap(q)

Next ==
    \/ \E p \in People : SignUp(p)
    \/ \E t \in Teams, n \in Amounts : HandlePortalCreateTeam(t, n)
    \/ \E q \in Slots, s \in Seats, n \in Amounts :
          HandlePortalAddTeamMember(q, s, n) \/ HandlePortalUpdateMemberCap(q, s, n)
    \/ \E q \in Slots, t \in Teams, n \in Amounts : HandlePortalUpdateTeamBudget(q, t, n)
    \/ \E q \in Slots, p \in People : HandlePortalMe(q, p)
    \/ \E q \in Slots : Statement(q) \/ Fail(q)
    \/ \E i \in Invites : HandlePortalRevokePendingInvite(i)
    \/ \E s \in Seats : HandlePortalRemoveTeamMember(s) \/ Spend(s)

Spec == Init /\ [][Next]_vars

\* A call that has begun goes on; people who are asked in sign in, and open
\* the portal again while they have invites pending.  Nobody has to invite,
\* remove or revoke, and nothing has to fail.
Fairness ==
    /\ WF_vars(\E p \in People : SignUp(p))
    /\ WF_vars(\E q \in Slots, p \in People : HandlePortalMe(q, p))
    /\ \A q \in Slots : WF_vars(Statement(q))

FairSpec == Spec /\ Fairness

-----------------------------------------------------------------------------
(* Properties *)

\* However invitations race, an address has at most one pending invite to a
\* team: the owner who revokes it has revoked them all.
OnePending ==
    \A i, j \in Invites :
        invite[i] = "pending" /\ invite[j] = "pending" /\ SeatOf(i) = SeatOf(j) => i = j

\* A team anybody was ever let into or invited to has its owner as an
\* active member: no removal, racing re-adding or cap change orphans it.
OwnersStay ==
    \A s \in Seats :
        member[s] # "none" \/ (\E i \in Invites : SeatOf(i) = s /\ invite[i] # "none")
            => member[OwnerSeat(s[1])] = "active"

\* An invite is used up only after its address has had the seat, wherever
\* the acceptance fails and whoever else adds or removes the member.
AcceptedJoined == \A i \in Invites : invite[i] = "accepted" => member[SeatOf(i)] # "none"

\* A cap may exceed the pool's limit of today, as the limit may have been
\* lowered since (between reading it and writing the cap, too), but never
\* every limit the pool has had; invites and calls in flight included.
CapsWereAffordable ==
    /\ \A s \in Seats : cap[s] <= highest[s[1]]
    /\ \A i \in Invites : inviteCap[i] <= highest[SeatOf(i)[1]]
    /\ \A q \in Slots : at[q] # "idle" => job[q].cap <= highest[job[q].seat[1]]

SeatSpent(t) == [p \in People |-> spent[<<t, p>>]]

\* Re-adding members forgets what they spent on their seats, never what the
\* pool paid: the pool's spending is at least that of its seats together.
PoolCoversSeats == \A t \in Teams : Total(SeatSpent(t)) <= pool[t]

\* docs/DESIGN.md:73, pending invites "auto-accept on /portal/api/me": once
\* owners stop inviting, every invite is accepted or revoked in the end, though
\* an acceptance may fail halfway, or meet a removal, and leave its invites
\* pending.
InvitesSettle == []<>(\A i \in Invites : invite[i] # "pending")

\* teams.go:509, RevokePendingInvite "cancels a pending invite so that email
\* can no longer auto-join": nobody joins through an invite that is revoked.
RevokedCannotJoin ==
    [][\A q \in Slots : (ReviveSeat(q) \/ InsertSeat(q)) /\ job[q].invite \in Invites
            => invite[job[q].invite] # "revoked" \/ UNCHANGED member]_vars
=============================================================================

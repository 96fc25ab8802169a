------------------------- MODULE MembershipTheorems -------------------------
(***************************************************************************)
(* Theorems about Membership, for every set of teams, people and calls in  *)
(* flight.  The calls are sequences of statements without a transaction,   *)
(* so the invariant says of each slot what is still true, however the      *)
(* other slots have moved, of what its call has read (Fits).               *)
(***************************************************************************)
EXTENDS Membership, TotalsTheorems

USE OwnerAssumption, AmountsAssumption, NothingAssumption, BoundsAssumption

-----------------------------------------------------------------------------
(* The inductive invariant *)

\* The statuses, limits and caps, apart from the slots.
RowTypes ==
    /\ account \subseteq People
    /\ limit \in [Teams -> Nat] /\ highest \in [Teams -> Nat] /\ pool \in [Teams -> Nat]
    /\ member \in [Seats -> {"none", "active", "removed"}]
    /\ cap \in [Seats -> Nat] /\ spent \in [Seats -> Nat]
    /\ invite \in [Invites -> {"none", "pending", "accepted", "revoked"}]
    /\ inviteCap \in [Invites -> Nat]
    /\ requests \in 0 .. MaxRequests
    /\ failures \in 0 .. MaxFailures

\* A team that does not exist yet has no limit, and one that does has had
\* none above its highest.
LimitsInv ==
    /\ \A t \in Teams : limit[t] <= highest[t]
    /\ \A t \in Teams : ~Exists(t) => highest[t] = 0

RowCaps ==
    /\ \A s \in Seats : cap[s] <= highest[s[1]]
    /\ \A i \in Invites : inviteCap[i] <= highest[SeatOf(i)[1]]

RowsInv == OnePending /\ OwnersStay /\ AcceptedJoined /\ LimitsInv /\ RowCaps

\* A call that comes to this statement with this job: its team exists, its
\* cap was affordable, the row it is to revive, read back or have joined is
\* there, and so are the invites it has read.
Fits(statement, j) ==
    /\ statement \in Statements
    /\ j \in Jobs
    /\ member[OwnerSeat(j.seat[1])] = "active"
    /\ j.cap <= highest[j.seat[1]]
    /\ statement \in {"revive", "reread", "mark"} => member[j.seat] # "none"
    /\ statement = "mark" => j.invite # NoInvite
    /\ j.invite # NoInvite => SeatOf(j.invite) = j.seat /\ invite[j.invite] # "none"
    /\ \A i \in j.todo : invite[i] # "none"

SlotsInv ==
    /\ at \in [Slots -> Statements \cup {"idle"}]
    /\ job \in [Slots -> Jobs \cup {NoJob}]
    /\ \A q \in Slots : at[q] # "idle" => Fits(at[q], job[q])

MInv == RowTypes /\ RowsInv /\ SlotsInv

-----------------------------------------------------------------------------
(* Seats, and what the invariant says *)

LEMMA SeatFacts ==
    /\ \A t \in Teams : OwnerSeat(t) \in Seats /\ OwnerSeat(t)[1] = t /\ OwnerSeat(t)[2] = Owner[t]
    /\ \A s \in Seats : s[1] \in Teams /\ s[2] \in People
    /\ \A i \in Invites : SeatOf(i) \in Seats
  BY DEF OwnerSeat, Seats, Invites, SeatOf

LEMMA JobFacts ==
    ASSUME NEW j \in Jobs
    PROVE  /\ j.seat \in Seats /\ j.cap \in Nat
           /\ j.invite \in Invites \cup {NoInvite} /\ j.todo \subseteq Invites
  BY DEF Jobs

LEMMA MInvImplies ==
    MInv => TypeOK /\ OnePending /\ OwnersStay /\ AcceptedJoined /\ CapsWereAffordable
<1> SUFFICES ASSUME MInv
             PROVE  TypeOK /\ OnePending /\ OwnersStay /\ AcceptedJoined /\ CapsWereAffordable
  OBVIOUS
<1>1. \A q \in Slots : at[q] # "idle" =>
          /\ job[q] \in Jobs /\ job[q].cap <= highest[job[q].seat[1]]
          /\ at[q] = "mark" => job[q].invite # NoInvite
  BY DEF MInv, SlotsInv, Fits
<1>2. \A q \in Slots : at[q] = "mark" => job[q].invite \in Invites
  BY <1>1, JobFacts
<1>3. TypeOK
  BY <1>1, <1>2 DEF MInv, RowTypes, SlotsInv, TypeOK
<1>4. CapsWereAffordable
  BY <1>1 DEF MInv, RowsInv, RowCaps, CapsWereAffordable
<1> QED
  BY <1>3, <1>4 DEF MInv, RowsInv

\* A team that exists has its owner as an active member.
LEMMA OwnersActive ==
    ASSUME MInv
    PROVE  /\ \A t \in Teams : Exists(t) => member[OwnerSeat(t)] = "active"
           /\ \A s \in Seats : member[s] # "none" => member[OwnerSeat(s[1])] = "active"
           /\ \A i \in Invites : invite[i] # "none" =>
                 member[OwnerSeat(SeatOf(i)[1])] = "active"
  BY SeatFacts DEF MInv, RowsInv, OwnersStay, Exists

LEMMA MInvInit == Init => MInv
<1> SUFFICES ASSUME Init PROVE MInv
  OBVIOUS
<1>1. RowTypes
  BY DEF Init, RowTypes
<1>2. OnePending /\ OwnersStay /\ AcceptedJoined
  BY DEF Init, OnePending, OwnersStay, AcceptedJoined
<1>3. LimitsInv /\ RowCaps
  BY SeatFacts DEF Init, LimitsInv, RowCaps
<1>4. SlotsInv
  BY DEF Init, SlotsInv
<1> QED
  BY <1>1, <1>2, <1>3, <1>4 DEF MInv, RowsInv

-----------------------------------------------------------------------------
(* Slots still fit, whatever the others do *)

\* Rows only come into being, owners stay, and the highest limits rise.
RowsGrow ==
    /\ \A t \in Teams : highest[t] <= highest'[t]
    /\ \A t \in Teams : member[OwnerSeat(t)] = "active" => member'[OwnerSeat(t)] = "active"
    /\ \A s \in Seats : member[s] # "none" => member'[s] # "none"
    /\ \A i \in Invites : invite[i] # "none" => invite'[i] # "none"

LEMMA StillFits ==
    ASSUME MInv, RowTypes', RowsGrow, NEW statement, NEW j, Fits(statement, j)
    PROVE  Fits(statement, j)'
<1>1. /\ j.seat \in Seats /\ j.seat[1] \in Teams /\ j.cap \in Nat
      /\ j.invite \in Invites \cup {NoInvite} /\ j.todo \subseteq Invites
  BY JobFacts, SeatFacts DEF Fits
<1>2. highest[j.seat[1]] \in Nat /\ highest'[j.seat[1]] \in Nat
  BY <1>1 DEF MInv, RowTypes
<1>3. j.cap <= highest'[j.seat[1]]
  BY <1>1, <1>2 DEF Fits, RowsGrow
<1> QED
  BY <1>1, <1>3 DEF Fits, RowsGrow, OwnerSeat, SeatOf

\* A step that moves slot q on to a statement that fits, or ends its call.
LEMMA SlotMoves ==
    ASSUME MInv, RowTypes', RowsInv', RowsGrow, NEW q \in Slots,
           NEW statement, NEW j,
           at' = [at EXCEPT ![q] = statement], job' = [job EXCEPT ![q] = j],
           \/ statement = "idle" /\ j = NoJob
           \/ statement \in Statements /\ Fits(statement, j)'
    PROVE  MInv'
<1>1. /\ at \in [Slots -> Statements \cup {"idle"}] /\ job \in [Slots -> Jobs \cup {NoJob}]
      /\ \A r \in Slots : at[r] # "idle" => Fits(at[r], job[r])
  BY DEF MInv, SlotsInv
<1>2. statement \in Statements \cup {"idle"} /\ j \in Jobs \cup {NoJob}
  BY DEF Fits
<1>3. /\ at' \in [Slots -> Statements \cup {"idle"}] /\ job' \in [Slots -> Jobs \cup {NoJob}]
      /\ at'[q] = statement /\ job'[q] = j
      /\ \A r \in Slots \ {q} : at'[r] = at[r] /\ job'[r] = job[r]
  BY <1>1, <1>2
<1>4. ASSUME NEW r \in Slots, at'[r] # "idle" PROVE Fits(at[r], job[r])'
  <2>1. CASE r = q
    BY <1>3, <1>4, <2>1 DEF Fits
  <2>2. CASE r # q
    <3>1. at'[r] = at[r] /\ job'[r] = job[r] /\ Fits(at[r], job[r])
      BY <1>1, <1>3, <1>4, <2>2
    <3> DEFINE u == at[r]
               v == job[r]
    <3>2. PICK x, y : x = u /\ y = v
      OBVIOUS
    <3>3. Fits(x, y)'
      BY <3>1, <3>2, StillFits
    <3>4. at'[r] = x /\ job'[r] = y
      BY <3>1, <3>2
    <3> QED
      BY <3>3, <3>4 DEF Fits
  <2> QED
    BY <2>1, <2>2
<1>5. SlotsInv'
  BY <1>3, <1>4 DEF SlotsInv
<1> QED
  BY <1>5 DEF MInv

\* A step that leaves every slot alone.
LEMMA SlotsStay ==
    ASSUME MInv, RowTypes', RowsInv', RowsGrow, UNCHANGED slotVars
    PROVE  MInv'
<1>1. /\ at \in [Slots -> Statements \cup {"idle"}] /\ job \in [Slots -> Jobs \cup {NoJob}]
      /\ \A r \in Slots : at[r] # "idle" => Fits(at[r], job[r])
      /\ at' = at /\ job' = job
  BY DEF MInv, SlotsInv, slotVars
<1>2. ASSUME NEW r \in Slots, at'[r] # "idle" PROVE Fits(at[r], job[r])'
  <2>1. PICK x, y : x = at[r] /\ y = job[r]
    OBVIOUS
  <2>2. Fits(x, y)'
    BY <1>1, <1>2, <2>1, StillFits
  <2> QED
    BY <1>1, <2>1, <2>2 DEF Fits
<1> QED
  BY <1>1, <1>2 DEF MInv, SlotsInv

\* A step that moves slot q on and writes no row.
LEMMA OnlyMoves ==
    ASSUME MInv, UNCHANGED <<account, teamVars, seatVars, inviteVars>>,
           requests' \in 0 .. MaxRequests, failures' \in 0 .. MaxFailures,
           NEW q \in Slots, NEW statement, NEW j,
           at' = [at EXCEPT ![q] = statement], job' = [job EXCEPT ![q] = j],
           \/ statement = "idle" /\ j = NoJob
           \/ statement \in Statements /\ Fits(statement, j)
    PROVE  MInv'
<1>1. UNCHANGED <<account, limit, highest, pool, member, cap, spent, invite, inviteCap>>
  BY DEF teamVars, seatVars, inviteVars
<1>2. RowTypes'
  BY <1>1 DEF MInv, RowTypes
<1>3. RowsInv'
  BY <1>1 DEF MInv, RowsInv, OnePending, OwnersStay, AcceptedJoined, LimitsInv, RowCaps,
              Exists, OwnerSeat, SeatOf
<1>4. RowsGrow
  BY <1>1, SeatFacts DEF RowsGrow, MInv, RowTypes
<1>5. statement \in Statements => (Fits(statement, j) => Fits(statement, j)')
  BY <1>2, <1>4, StillFits
<1> QED
  BY <1>2, <1>3, <1>4, <1>5, SlotMoves

\* ... with the job it has, or to its end.
LEMMA GoesOn ==
    ASSUME MInv, UNCHANGED <<account, teamVars, seatVars, inviteVars>>,
           requests' \in 0 .. MaxRequests, failures' \in 0 .. MaxFailures,
           NEW q \in Slots, NEW statement \in Statements,
           End(q) \/ (Go(q, statement) /\ Fits(statement, job[q]))
    PROVE  MInv'
<1>1. at \in [Slots -> Statements \cup {"idle"}] /\ job \in [Slots -> Jobs \cup {NoJob}]
  BY DEF MInv, SlotsInv
<1>2. CASE End(q)
  BY <1>2, OnlyMoves DEF End
<1>3. CASE Go(q, statement) /\ Fits(statement, job[q])
  <2>1. PICK j : j = job[q]
    OBVIOUS
  <2>2. job' = [job EXCEPT ![q] = j] /\ at' = [at EXCEPT ![q] = statement]
    BY <1>1, <1>3, <2>1 DEF Go
  <2> QED
    BY <1>3, <2>1, <2>2, OnlyMoves
<1> QED
  BY <1>2, <1>3

LEMMA BusySlot ==
    ASSUME MInv, NEW q \in Slots, at[q] # "idle"
    PROVE  /\ Fits(at[q], job[q]) /\ job[q] \in Jobs /\ job[q].seat \in Seats
           /\ job[q].seat[1] \in Teams /\ job[q].cap \in Nat
           /\ requests \in 0 .. MaxRequests /\ failures \in 0 .. MaxFailures
<1>1. Fits(at[q], job[q]) /\ job[q] \in Jobs
  BY DEF MInv, SlotsInv, Fits
<1> QED
  BY <1>1, JobFacts, SeatFacts DEF MInv, RowTypes

-----------------------------------------------------------------------------
(* Steps that only read *)

LEMMA BeginsKeepInv ==
    ASSUME MInv, NEW q \in Slots,
           \/ \E s \in Seats, n \in Amounts : AddMember(q, s, n) \/ ChangeCap(q, s, n)
           \/ \E p \in People : AcceptInvites(q, p)
    PROVE  MInv'
<1>1. ASSUME NEW s \in Seats, NEW n \in Amounts, AddMember(q, s, n) \/ ChangeCap(q, s, n)
      PROVE  MInv'
  <2> DEFINE j == [seat |-> s, cap |-> n, invite |-> NoInvite, todo |-> {}]
  <2>1. PICK statement \in {"lookup", "cap"} :
             /\ at' = [at EXCEPT ![q] = statement] /\ job' = [job EXCEPT ![q] = j]
             /\ Exists(s[1]) /\ n <= limit[s[1]] /\ Request
             /\ UNCHANGED <<account, teamVars, seatVars, inviteVars, failures>>
    BY <1>1 DEF AddMember, ChangeCap, Begin
  <2>2. j \in Jobs /\ j.seat = s /\ j.cap = n /\ j.invite = NoInvite /\ j.todo = {}
    BY DEF Jobs
  <2>3. n <= highest[s[1]]
    <3>1. s[1] \in Teams /\ limit[s[1]] \in Nat /\ highest[s[1]] \in Nat /\ n \in Nat
      BY SeatFacts DEF MInv, RowTypes
    <3>2. limit[s[1]] <= highest[s[1]]
      BY <3>1 DEF MInv, RowsInv, LimitsInv
    <3> QED
      BY <2>1, <3>1, <3>2
  <2>4. member[OwnerSeat(s[1])] = "active"
    BY <2>1, SeatFacts, OwnersActive
  <2> HIDE DEF j
  <2>5. Fits(statement, j)
    BY <2>1, <2>2, <2>3, <2>4 DEF Fits, Statements
  <2>6. requests' \in 0 .. MaxRequests /\ failures' \in 0 .. MaxFailures
    BY <2>1 DEF Request, MInv, RowTypes
  <2> QED
    BY <2>1, <2>5, <2>6, OnlyMoves DEF Statements
<1>2. ASSUME NEW p \in People, AcceptInvites(q, p) PROVE MInv'
  <2>1. PICK i \in PendingOf(p) :
             Begin(q, "find", [seat |-> SeatOf(i), cap |-> inviteCap[i], invite |-> i,
                               todo |-> PendingOf(p) \ {i}])
    BY <1>2 DEF AcceptInvites
  <2> DEFINE j == [seat |-> SeatOf(i), cap |-> inviteCap[i], invite |-> i,
                   todo |-> PendingOf(p) \ {i}]
  <2>2. i \in Invites /\ invite[i] # "none" /\ SeatOf(i) \in Seats /\ inviteCap[i] \in Nat
        /\ \A k \in PendingOf(p) : k \in Invites /\ invite[k] # "none"
    BY SeatFacts DEF PendingOf, MInv, RowTypes
  <2>3. j \in Jobs /\ j.seat = SeatOf(i) /\ j.cap = inviteCap[i] /\ j.invite = i
        /\ j.todo = PendingOf(p) \ {i}
    BY <2>2 DEF Jobs
  <2>4. inviteCap[i] <= highest[SeatOf(i)[1]] /\ member[OwnerSeat(SeatOf(i)[1])] = "active"
    BY <2>2, OwnersActive DEF MInv, RowsInv, RowCaps
  <2>5. /\ at' = [at EXCEPT ![q] = "find"] /\ job' = [job EXCEPT ![q] = j]
        /\ UNCHANGED <<account, teamVars, seatVars, inviteVars, requests, failures>>
    BY <1>2, <2>1 DEF AcceptInvites, Begin
  <2> HIDE DEF j
  <2>6. Fits("find", j)
    BY <2>2, <2>3, <2>4, NothingAssumption DEF Fits, Statements
  <2>7. requests' \in 0 .. MaxRequests /\ failures' \in 0 .. MaxFailures
    BY <2>5 DEF MInv, RowTypes
  <2> QED
    BY <2>5, <2>6, <2>7, OnlyMoves DEF Statements
<1> QED
  BY <1>1, <1>2

LEMMA ReadsKeepInv ==
    ASSUME MInv, NEW q \in Slots,
           LookUp(q) \/ CheckPending(q) \/ FindSeat(q) \/ RereadSeat(q) \/ Fail(q)
    PROVE  MInv'
<1>1. at[q] # "idle"
  BY DEF LookUp, CheckPending, FindSeat, RereadSeat, Fail
<1>2. Fits(at[q], job[q]) /\ requests \in 0 .. MaxRequests /\ failures \in 0 .. MaxFailures
      /\ job[q].seat \in Seats
  BY <1>1, BusySlot
<1>3. UNCHANGED <<account, teamVars, seatVars, inviteVars>> /\ requests' = requests
  BY DEF LookUp, CheckPending, FindSeat, RereadSeat, Fail
<1>4. failures' \in 0 .. MaxFailures
  BY <1>2 DEF LookUp, CheckPending, FindSeat, RereadSeat, Fail
<1>5. PICK statement \in Statements :
           End(q) \/ (Go(q, statement) /\ Fits(statement, job[q]))
  <2>1. CASE LookUp(q)
    BY <1>2, <2>1 DEF LookUp, Fits, Statements
  <2>2. CASE CheckPending(q)
    BY <1>2, <2>2 DEF CheckPending, Fits, Statements
  <2>3. CASE FindSeat(q)
    BY <1>2, <2>3 DEF FindSeat, SeatTaken, Fits, Statements
  <2>4. CASE RereadSeat(q)
    BY <1>2, <2>4 DEF RereadSeat, SeatTaken, Fits, Statements
  <2>5. CASE Fail(q)
    BY <2>5 DEF Fail, Statements
  <2> QED
    BY <2>1, <2>2, <2>3, <2>4, <2>5
<1> QED
  BY <1>2, <1>3, <1>4, <1>5, GoesOn

-----------------------------------------------------------------------------
(* Statements that write *)

LEMMA WritesAndGoesOn ==
    ASSUME MInv, RowTypes', RowsInv', RowsGrow, NEW q \in Slots, NEW statement \in Statements,
           NEW j, j = job[q],
           End(q) \/ (Go(q, statement) /\ Fits(statement, j)')
    PROVE  MInv'
<1>1. at \in [Slots -> Statements \cup {"idle"}] /\ job \in [Slots -> Jobs \cup {NoJob}]
  BY DEF MInv, SlotsInv
<1>2. CASE End(q)
  BY <1>2, SlotMoves DEF End
<1>3. CASE Go(q, statement) /\ Fits(statement, j)'
  <2>1. job' = [job EXCEPT ![q] = j] /\ at' = [at EXCEPT ![q] = statement]
    BY <1>1, <1>3 DEF Go
  <2> QED
    BY <1>3, <2>1, SlotMoves
<1> QED
  BY <1>2, <1>3

LEMMA CreateInviteKeepsInv ==
    ASSUME MInv, NEW q \in Slots, CreateInvite(q)
    PROVE  MInv'
<1> DEFINE s == job[q].seat
<1>1. at[q] # "idle" /\ End(q) /\ UNCHANGED <<account, teamVars, seatVars, requests, failures>>
  BY DEF CreateInvite
<1>2. Fits(at[q], job[q]) /\ s \in Seats /\ job[q].cap \in Nat /\ s[1] \in Teams
  BY <1>1, BusySlot
<1>3. CASE UNCHANGED inviteVars
  BY <1>1, <1>3, GoesOn DEF Statements, MInv, RowTypes
<1>4. ASSUME PendingFor(s) = {}, NEW i \in Invites, SeatOf(i) = s, invite[i] = "none",
             invite' = [invite EXCEPT ![i] = "pending"],
             inviteCap' = [inviteCap EXCEPT ![i] = job[q].cap]
      PROVE  MInv'
  <2>1. UNCHANGED <<account, limit, highest, pool, member, cap, spent, requests, failures>>
    BY <1>1 DEF teamVars, seatVars
  <2>2. RowTypes'
    BY <1>2, <1>4, <2>1 DEF MInv, RowTypes
  <2>3. RowsGrow
    BY <1>4, <2>1, SeatFacts DEF RowsGrow, MInv, RowTypes
  <2>4. invite'[i] = "pending" /\ inviteCap'[i] = job[q].cap
        /\ \A k \in Invites \ {i} : invite'[k] = invite[k] /\ inviteCap'[k] = inviteCap[k]
    BY <1>4 DEF MInv, RowTypes
  <2>5. OnePending'
    <3>1. \A k \in Invites : SeatOf(k) = s => invite[k] # "pending"
      BY <1>4 DEF PendingFor
    <3> QED
      BY <1>4, <2>4, <3>1 DEF OnePending, SeatOf, MInv, RowsInv
  <2>6. OwnersStay'
    BY <1>2, <1>4, <2>1, <2>4 DEF OwnersStay, OwnerSeat, SeatOf, Fits, MInv, RowsInv
  <2>7. AcceptedJoined'
    BY <2>1, <2>4 DEF AcceptedJoined, SeatOf, MInv, RowsInv
  <2>8. LimitsInv'
    BY <2>1 DEF LimitsInv, Exists, OwnerSeat, MInv, RowsInv
  <2>9. RowCaps'
    BY <1>2, <1>4, <2>1, <2>4 DEF RowCaps, SeatOf, Fits, MInv, RowsInv
  <2>10. MInv'
    BY <1>1, <2>2, <2>3, <2>5, <2>6, <2>7, <2>8, <2>9, WritesAndGoesOn DEF RowsInv, Statements
  <2> QED
    BY <2>10
<1> QED
  BY <1>3, <1>4 DEF CreateInvite

\* Revive and insert: the seat is active, with the cap of the job.
LEMMA SeatActive ==
    ASSUME MInv, NEW q \in Slots, at[q] \in {"revive", "insert"},
           member' = [member EXCEPT ![job[q].seat] = "active"],
           cap' = [cap EXCEPT ![job[q].seat] = job[q].cap],
           spent' \in [Seats -> Nat],
           Go(q, "reread"),
           UNCHANGED <<account, teamVars, inviteVars, requests, failures>>
    PROVE  MInv'
<1>1. PICK j : j = job[q]
  OBVIOUS
<1> DEFINE s == j.seat
<1>2. Fits(at[q], j) /\ j \in Jobs /\ s \in Seats /\ j.cap \in Nat /\ s[1] \in Teams
  BY <1>1, BusySlot
<1>3. UNCHANGED <<account, limit, highest, pool, invite, inviteCap, requests, failures>>
  BY DEF teamVars, inviteVars
<1>4. /\ member' \in [Seats -> {"none", "active", "removed"}] /\ cap' \in [Seats -> Nat]
      /\ member'[s] = "active" /\ cap'[s] = j.cap
      /\ \A u \in Seats \ {s} : member'[u] = member[u] /\ cap'[u] = cap[u]
  BY <1>1, <1>2 DEF MInv, RowTypes
<1>5. RowTypes'
  BY <1>3, <1>4 DEF MInv, RowTypes
<1>6. RowsGrow
  BY <1>3, <1>4, SeatFacts DEF RowsGrow, MInv, RowTypes
<1>7. OwnersStay'
  BY <1>2, <1>3, <1>4, SeatFacts DEF OwnersStay, OwnerSeat, SeatOf, Fits, MInv, RowsInv
<1>8. AcceptedJoined'
  BY <1>3, <1>4, SeatFacts DEF AcceptedJoined, SeatOf, MInv, RowsInv
<1>9. LimitsInv'
  <2>1. \A t \in Teams : Exists(t) => Exists(t)'
    BY <1>6, SeatFacts DEF Exists, RowsGrow, OwnerSeat
  <2>2. \A t \in Teams : ~Exists(t)' => highest'[t] = 0
    BY <1>3, <2>1 DEF LimitsInv, MInv, RowsInv
  <2> QED
    BY <1>3, <2>2 DEF LimitsInv, MInv, RowsInv
<1>10. RowCaps'
  BY <1>2, <1>3, <1>4 DEF RowCaps, SeatOf, Fits, MInv, RowsInv
<1>11. OnePending'
  BY <1>3 DEF OnePending, SeatOf, MInv, RowsInv
<1>12. Fits("reread", j)'
  BY <1>2, <1>3, <1>4, <1>6, SeatFacts DEF Fits, RowsGrow, OwnerSeat, SeatOf, Statements
<1> QED
  BY <1>1, <1>5, <1>6, <1>7, <1>8, <1>9, <1>10, <1>11, <1>12, WritesAndGoesOn
     DEF RowsInv, Statements

LEMMA SeatsKeepInv ==
    ASSUME MInv, NEW q \in Slots, ReviveSeat(q) \/ InsertSeat(q)
    PROVE  MInv'
<1>1. CASE ReviveSeat(q)
  <2>1. spent' \in [Seats -> Nat]
    BY <1>1 DEF ReviveSeat, MInv, RowTypes
  <2> QED
    BY <1>1, <2>1, SeatActive DEF ReviveSeat
<1>2. CASE InsertSeat(q) /\ member[job[q].seat] = "none"
  BY <1>2, SeatActive DEF InsertSeat, MInv, RowTypes
<1>3. CASE InsertSeat(q) /\ member[job[q].seat] # "none"
  <2>1. UNCHANGED <<account, teamVars, seatVars, inviteVars, requests, failures>>
    BY <1>3 DEF InsertSeat, seatVars
  <2>2. at[q] = "insert" /\ SeatTaken(q)
    BY <1>3 DEF InsertSeat
  <2>3. Fits(at[q], job[q])
    BY <2>2, BusySlot
  <2>4. End(q) \/ (Go(q, "mark") /\ Fits("mark", job[q]))
    BY <1>3, <2>2, <2>3 DEF SeatTaken, Fits, Statements
  <2> QED
    BY <2>1, <2>4, GoesOn DEF Statements, MInv, RowTypes
<1> QED
  BY <1>1, <1>2, <1>3

LEMMA MarkKeepsInv ==
    ASSUME MInv, NEW q \in Slots, MarkAccepted(q)
    PROVE  MInv'
<1>1. at[q] = "mark" /\ invite' = [invite EXCEPT ![job[q].invite] = "accepted"] /\ NextInvite(q)
      /\ UNCHANGED <<account, teamVars, seatVars, inviteCap, requests, failures>>
  BY DEF MarkAccepted
<1>2. UNCHANGED <<account, limit, highest, pool, member, cap, spent, inviteCap, requests, failures>>
  BY <1>1 DEF teamVars, seatVars
<1>3. Fits(at[q], job[q]) /\ job[q] \in Jobs
  BY <1>1, BusySlot
<1> DEFINE i == job[q].invite
<1>4. /\ i \in Invites /\ SeatOf(i) = job[q].seat /\ invite[i] # "none"
      /\ member[SeatOf(i)] # "none" /\ job[q].todo \subseteq Invites
      /\ \A k \in job[q].todo : invite[k] # "none"
  BY <1>1, <1>3, JobFacts DEF Fits
<1>5. /\ invite' \in [Invites -> {"none", "pending", "accepted", "revoked"}]
      /\ invite'[i] = "accepted" /\ \A k \in Invites \ {i} : invite'[k] = invite[k]
  BY <1>1, <1>4 DEF MInv, RowTypes
<1>6. RowTypes'
  BY <1>2, <1>5 DEF MInv, RowTypes
<1>7. RowsGrow
  BY <1>2, <1>5, SeatFacts DEF RowsGrow, MInv, RowTypes
<1>8. OnePending'
  BY <1>5 DEF OnePending, SeatOf, MInv, RowsInv
<1>9. OwnersStay'
  BY <1>2, <1>4, <1>5 DEF OwnersStay, OwnerSeat, SeatOf, MInv, RowsInv
<1>10. AcceptedJoined'
  BY <1>2, <1>4, <1>5 DEF AcceptedJoined, SeatOf, MInv, RowsInv
<1>11. LimitsInv' /\ RowCaps'
  BY <1>2 DEF LimitsInv, RowCaps, Exists, OwnerSeat, SeatOf, MInv, RowsInv
<1>12. RowsInv'
  BY <1>8, <1>9, <1>10, <1>11 DEF RowsInv
<1>13. CASE job[q].todo = {}
  BY <1>1, <1>6, <1>7, <1>12, <1>13, SlotMoves DEF NextInvite, End
<1>14. CASE job[q].todo # {}
  <2>1. PICK k \in job[q].todo :
             job' = [job EXCEPT ![q] = [seat |-> SeatOf(k), cap |-> inviteCap[k],
                                        invite |-> k, todo |-> job[q].todo \ {k}]]
    BY <1>1, <1>14 DEF NextInvite
  <2>2. PICK j : j = [seat |-> SeatOf(k), cap |-> inviteCap[k], invite |-> k,
                      todo |-> job[q].todo \ {k}]
    OBVIOUS
  <2>3. j.seat = SeatOf(k) /\ j.cap = inviteCap[k] /\ j.invite = k /\ j.todo = job[q].todo \ {k}
    BY <2>2
  <2>4. k \in Invites /\ invite[k] # "none" /\ SeatOf(k) \in Seats /\ inviteCap[k] \in Nat
    BY <1>4, SeatFacts DEF MInv, RowTypes
  <2>5. j \in Jobs
    BY <1>4, <2>2, <2>4 DEF Jobs
  <2>6. inviteCap[k] <= highest[SeatOf(k)[1]] /\ member[OwnerSeat(SeatOf(k)[1])] = "active"
    BY <2>4, OwnersActive DEF MInv, RowsInv, RowCaps
  <2>7. Fits("find", j)
    BY <1>4, <2>3, <2>4, <2>5, <2>6 DEF Fits, Statements
  <2>8. Fits("find", j)'
    BY <1>6, <1>7, <2>7, StillFits
  <2>9. at' = [at EXCEPT ![q] = "find"] /\ job' = [job EXCEPT ![q] = j]
    BY <1>1, <1>14, <2>1, <2>2 DEF NextInvite
  <2> QED
    BY <1>6, <1>7, <1>12, <2>8, <2>9, SlotMoves DEF Statements
<1> QED
  BY <1>13, <1>14

\* The second statement of a cap or budget change.
LEMMA CapsKeepInv ==
    ASSUME MInv, NEW q \in Slots, WriteCap(q) \/ WriteOwnerCap(q)
    PROVE  MInv'
<1>1. /\ at[q] # "idle" /\ End(q)
      /\ UNCHANGED <<account, teamVars, member, spent, inviteVars, requests, failures>>
      /\ \E n \in {cap[job[q].seat], job[q].cap} : cap' = [cap EXCEPT ![job[q].seat] = n]
  BY DEF WriteCap, WriteOwnerCap
<1>2. Fits(at[q], job[q]) /\ job[q].seat \in Seats /\ job[q].cap \in Nat
  BY <1>1, BusySlot
<1>3. UNCHANGED <<account, limit, highest, pool, member, spent, invite, inviteCap, requests, failures>>
  BY <1>1 DEF teamVars, inviteVars
<1>4. /\ cap' \in [Seats -> Nat]
      /\ \A s \in Seats : cap'[s] = cap[s] \/ (s = job[q].seat /\ cap'[s] = job[q].cap)
  BY <1>1, <1>2 DEF MInv, RowTypes
<1>5. RowTypes'
  BY <1>3, <1>4 DEF MInv, RowTypes
<1>6. RowsGrow
  BY <1>3, SeatFacts DEF RowsGrow, MInv, RowTypes
<1>7. OnePending' /\ OwnersStay' /\ AcceptedJoined' /\ LimitsInv'
  BY <1>3 DEF OnePending, OwnersStay, AcceptedJoined, LimitsInv, Exists, OwnerSeat, SeatOf,
              MInv, RowsInv
<1>8. RowCaps'
  BY <1>2, <1>3, <1>4 DEF RowCaps, Fits, SeatOf, MInv, RowsInv
<1> QED
  BY <1>1, <1>5, <1>6, <1>7, <1>8, WritesAndGoesOn DEF RowsInv, Statements

LEMMA ChangeLimitKeepsInv ==
    ASSUME MInv, NEW q \in Slots, NEW t \in Teams, NEW n \in Amounts, ChangeLimit(q, t, n)
    PROVE  MInv'
<1>1. /\ Exists(t) /\ limit' = [limit EXCEPT ![t] = n]
      /\ highest' = [highest EXCEPT ![t] = IF n > @ THEN n ELSE @]
      /\ Request /\ UNCHANGED <<account, pool, seatVars, inviteVars, failures>>
  BY DEF ChangeLimit
<1>2. UNCHANGED <<account, pool, member, cap, spent, invite, inviteCap, failures>>
  BY <1>1 DEF seatVars, inviteVars
<1>3. requests' \in 0 .. MaxRequests
  BY <1>1 DEF Request, MInv, RowTypes
<1>4. n \in Nat /\ limit[t] \in Nat /\ highest[t] \in Nat
  BY DEF MInv, RowTypes
<1>5. /\ limit' \in [Teams -> Nat] /\ highest' \in [Teams -> Nat]
      /\ limit'[t] = n /\ n <= highest'[t] /\ highest[t] <= highest'[t]
      /\ \A u \in Teams \ {t} : limit'[u] = limit[u] /\ highest'[u] = highest[u]
  BY <1>1, <1>4 DEF MInv, RowTypes
<1>6. RowTypes'
  BY <1>2, <1>3, <1>5 DEF MInv, RowTypes
<1>7. \A u \in Teams : highest[u] <= highest'[u]
  BY <1>5 DEF MInv, RowTypes
<1>8. RowsGrow
  BY <1>2, <1>7 DEF RowsGrow, OwnerSeat
<1>9. OnePending' /\ OwnersStay' /\ AcceptedJoined'
  BY <1>2 DEF OnePending, OwnersStay, AcceptedJoined, OwnerSeat, SeatOf, MInv, RowsInv
<1>10. LimitsInv'
  BY <1>1, <1>2, <1>5 DEF LimitsInv, Exists, OwnerSeat, MInv, RowsInv
<1>11. RowCaps'
  <2>1. \A s \in Seats, m \in Nat : m <= highest[s[1]] => m <= highest'[s[1]]
    BY <1>5, <1>7, SeatFacts DEF MInv, RowTypes
  <2> QED
    BY <1>2, <2>1, SeatFacts DEF RowCaps, MInv, RowsInv, RowTypes, SeatOf
<1> DEFINE s == OwnerSeat(t)
           j == [seat |-> s, cap |-> n, invite |-> NoInvite, todo |-> {}]
<1>12. j \in Jobs /\ j.seat = s /\ j.cap = n /\ j.invite = NoInvite /\ j.todo = {}
       /\ s[1] = t /\ s = OwnerSeat(t)
  BY <1>4, SeatFacts DEF Jobs
<1>13. member[s] = "active"
  BY <1>1, OwnersActive
<1>14. at' = [at EXCEPT ![q] = "ownercap"] /\ job' = [job EXCEPT ![q] = j]
  BY DEF ChangeLimit, Begin
<1> HIDE DEF j, s
<1>15. Fits("ownercap", j)'
  BY <1>2, <1>5, <1>12, <1>13 DEF Fits, Statements, OwnerSeat
<1> QED
  BY <1>6, <1>8, <1>9, <1>10, <1>11, <1>14, <1>15, SlotMoves DEF RowsInv, Statements

-----------------------------------------------------------------------------
(* Calls of one statement *)

LEMMA CreateTeamKeepsInv ==
    ASSUME MInv, NEW t \in Teams, NEW n \in Amounts, CreateTeam(t, n)
    PROVE  MInv'
<1> DEFINE granted == IF n <= 0 THEN DefaultLimit ELSE n
           s == OwnerSeat(t)
<1>1. /\ ~Exists(t)
      /\ limit' = [limit EXCEPT ![t] = granted] /\ highest' = [highest EXCEPT ![t] = granted]
      /\ member' = [member EXCEPT ![s] = "active"] /\ cap' = [cap EXCEPT ![s] = granted]
      /\ UNCHANGED <<account, pool, spent, inviteVars, slotVars, requests, failures>>
  BY DEF CreateTeam
<1>2. UNCHANGED <<account, pool, spent, invite, inviteCap, requests, failures>>
  BY <1>1 DEF inviteVars
<1>3. granted \in Nat /\ s \in Seats /\ s[1] = t
  BY SeatFacts
<1>4. highest[t] = 0 /\ member[s] = "none"
  BY <1>1 DEF MInv, RowsInv, LimitsInv, Exists
<1>5. \A u \in Teams : s = OwnerSeat(u) => u = t
  BY SeatFacts
<1> HIDE DEF granted, s
<1>6. /\ limit' \in [Teams -> Nat] /\ highest' \in [Teams -> Nat]
      /\ member' \in [Seats -> {"none", "active", "removed"}] /\ cap' \in [Seats -> Nat]
      /\ limit'[t] = granted /\ highest'[t] = granted
      /\ \A u \in Teams \ {t} : limit'[u] = limit[u] /\ highest'[u] = highest[u]
      /\ member'[s] = "active" /\ cap'[s] = granted
      /\ \A u \in Seats \ {s} : member'[u] = member[u] /\ cap'[u] = cap[u]
  BY <1>1, <1>3 DEF MInv, RowTypes
<1>7. RowTypes'
  BY <1>2, <1>6 DEF MInv, RowTypes
<1>8. \A u \in Teams : highest[u] <= highest'[u]
  BY <1>3, <1>4, <1>6 DEF MInv, RowTypes
<1>9. RowsGrow
  BY <1>2, <1>6, <1>8, SeatFacts DEF RowsGrow, OwnerSeat
<1>10. OnePending'
  BY <1>2 DEF OnePending, SeatOf, MInv, RowsInv
<1>11. OwnersStay'
  <2>1. s = OwnerSeat(t)
    BY DEF s
  <2>2. \A u \in Seats : member[OwnerSeat(u[1])] = "active" => member'[OwnerSeat(u[1])] = "active"
    BY <1>9, SeatFacts DEF RowsGrow
  <2>3. member'[OwnerSeat(s[1])] = "active"
    BY <1>3, <1>6, <2>1
  <2> QED
    BY <1>2, <1>6, <2>2, <2>3 DEF OwnersStay, OwnerSeat, SeatOf, MInv, RowsInv
<1>12. AcceptedJoined'
  BY <1>2, <1>9, SeatFacts DEF AcceptedJoined, RowsGrow, SeatOf, MInv, RowsInv
<1>13. LimitsInv'
  <2>1. s = OwnerSeat(t)
    BY DEF s
  <2>2. \A u \in Teams \ {t} : Exists(u) => Exists(u)'
    BY <1>9, SeatFacts DEF Exists, RowsGrow, OwnerSeat
  <2>3. Exists(t)'
    BY <1>6, <2>1 DEF Exists, OwnerSeat
  <2>4. \A u \in Teams : limit'[u] <= highest'[u]
    BY <1>3, <1>6 DEF MInv, RowsInv, LimitsInv
  <2>5. \A u \in Teams : ~Exists(u)' => highest'[u] = 0
    BY <1>6, <2>2, <2>3 DEF MInv, RowsInv, LimitsInv
  <2> QED
    BY <2>4, <2>5 DEF LimitsInv
<1>14. RowCaps'
  <2>1. \A u \in Seats, m \in Nat : m <= highest[u[1]] => m <= highest'[u[1]]
    BY <1>7, <1>8, SeatFacts DEF MInv, RowTypes
  <2>2. \A u \in Seats : cap'[u] <= highest'[u[1]]
    BY <1>3, <1>6, <2>1 DEF RowCaps, MInv, RowsInv, RowTypes
  <2>3. \A i \in Invites : inviteCap'[i] <= highest'[SeatOf(i)[1]]
    BY <1>2, <2>1, SeatFacts DEF RowCaps, MInv, RowsInv, RowTypes
  <2> QED
    BY <2>2, <2>3 DEF RowCaps, SeatOf
<1> QED
  BY <1>1, <1>7, <1>9, <1>10, <1>11, <1>12, <1>13, <1>14, SlotsStay DEF RowsInv

LEMMA RevokeKeepsInv ==
    ASSUME MInv, NEW i \in Invites, RevokeInvite(i)
    PROVE  MInv'
<1>1. invite[i] = "pending" /\ invite' = [invite EXCEPT ![i] = "revoked"]
      /\ UNCHANGED <<account, teamVars, seatVars, inviteCap, slotVars, failures>>
  BY DEF RevokeInvite
<1>2. UNCHANGED <<account, limit, highest, pool, member, cap, spent, inviteCap, failures>>
  BY <1>1 DEF teamVars, seatVars
<1>3. requests' \in 0 .. MaxRequests
  BY DEF RevokeInvite, Request, MInv, RowTypes
<1>4. /\ invite' \in [Invites -> {"none", "pending", "accepted", "revoked"}]
      /\ invite'[i] = "revoked" /\ \A k \in Invites \ {i} : invite'[k] = invite[k]
  BY <1>1 DEF MInv, RowTypes
<1>5. RowTypes'
  BY <1>2, <1>3, <1>4 DEF MInv, RowTypes
<1>6. RowsGrow
  BY <1>2, <1>4, SeatFacts DEF RowsGrow, MInv, RowTypes
<1>7. OnePending' /\ AcceptedJoined'
  BY <1>2, <1>4 DEF OnePending, AcceptedJoined, SeatOf, MInv, RowsInv
<1>8. OwnersStay'
  BY <1>1, <1>2, <1>4 DEF OwnersStay, OwnerSeat, SeatOf, MInv, RowsInv
<1>9. LimitsInv' /\ RowCaps'
  BY <1>2 DEF LimitsInv, RowCaps, Exists, OwnerSeat, SeatOf, MInv, RowsInv
<1> QED
  BY <1>1, <1>5, <1>6, <1>7, <1>8, <1>9, SlotsStay DEF RowsInv

LEMMA RemoveKeepsInv ==
    ASSUME MInv, NEW s \in Seats, RemoveMember(s)
    PROVE  MInv'
<1>1. /\ s # OwnerSeat(s[1]) /\ member[s] = "active"
      /\ member' = [member EXCEPT ![s] = "removed"]
      /\ UNCHANGED <<account, teamVars, cap, spent, inviteVars, slotVars, failures>>
  BY DEF RemoveMember
<1>2. UNCHANGED <<account, limit, highest, pool, cap, spent, invite, inviteCap, failures>>
  BY <1>1 DEF teamVars, inviteVars
<1>3. requests' \in 0 .. MaxRequests
  BY DEF RemoveMember, Request, MInv, RowTypes
<1>4. /\ member' \in [Seats -> {"none", "active", "removed"}]
      /\ member'[s] = "removed" /\ \A u \in Seats \ {s} : member'[u] = member[u]
  BY <1>1 DEF MInv, RowTypes
<1>5. \A t \in Teams : member'[OwnerSeat(t)] = member[OwnerSeat(t)]
  BY <1>1, <1>4, SeatFacts
<1>6. RowTypes'
  BY <1>2, <1>3, <1>4 DEF MInv, RowTypes
<1>7. RowsGrow
  BY <1>1, <1>2, <1>4, <1>5, SeatFacts DEF RowsGrow, MInv, RowTypes
<1>8. OnePending'
  BY <1>2 DEF OnePending, SeatOf, MInv, RowsInv
<1>9. OwnersStay'
  BY <1>1, <1>2, <1>4, <1>5, SeatFacts DEF OwnersStay, OwnerSeat, SeatOf, MInv, RowsInv
<1>10. AcceptedJoined'
  BY <1>2, <1>7, SeatFacts DEF AcceptedJoined, RowsGrow, SeatOf, MInv, RowsInv
<1>11. LimitsInv'
  BY <1>2, <1>5 DEF LimitsInv, Exists, OwnerSeat, MInv, RowsInv
<1>12. RowCaps'
  BY <1>2 DEF RowCaps, SeatOf, MInv, RowsInv
<1> QED
  BY <1>1, <1>6, <1>7, <1>8, <1>9, <1>10, <1>11, <1>12, SlotsStay DEF RowsInv

\* Signing up and spending touch nothing the invariant relates.
LEMMA OtherTables ==
    ASSUME MInv, RowTypes',
           UNCHANGED <<limit, highest, member, cap, inviteVars, slotVars, requests, failures>>
    PROVE  MInv'
<1>1. UNCHANGED <<limit, highest, member, cap, invite, inviteCap>>
  BY DEF inviteVars
<1>2. RowsInv'
  BY <1>1 DEF MInv, RowsInv, OnePending, OwnersStay, AcceptedJoined, LimitsInv, RowCaps,
              Exists, OwnerSeat, SeatOf
<1>3. RowsGrow
  BY <1>1, SeatFacts DEF RowsGrow, MInv, RowTypes
<1> QED
  BY <1>2, <1>3, SlotsStay

LEMMA MInvNext == MInv /\ [Next]_vars => MInv'
<1> SUFFICES ASSUME MInv, [Next]_vars PROVE MInv'
  OBVIOUS
<1>1. CASE UNCHANGED vars
  BY <1>1, OtherTables DEF vars, teamVars, seatVars, MInv, RowTypes, inviteVars
<1>2. ASSUME NEW p \in People, SignUp(p) PROVE MInv'
  BY <1>2, OtherTables DEF SignUp, teamVars, seatVars, inviteVars, MInv, RowTypes
<1>3. ASSUME NEW s \in Seats, Spend(s) PROVE MInv'
  <2>1. s[1] \in Teams
    BY SeatFacts
  <2> QED
    BY <1>3, <2>1, OtherTables DEF Spend, inviteVars, MInv, RowTypes
<1>4. ASSUME NEW q \in Slots, Statement(q) \/ Fail(q) PROVE MInv'
  BY <1>4, ReadsKeepInv, CreateInviteKeepsInv, SeatsKeepInv, MarkKeepsInv, CapsKeepInv
     DEF Statement
<1> QED
  BY <1>1, <1>2, <1>3, <1>4, CreateTeamKeepsInv, BeginsKeepInv, ChangeLimitKeepsInv,
     RevokeKeepsInv, RemoveKeepsInv
     DEF Next, HandlePortalCreateTeam, HandlePortalAddTeamMember, HandlePortalUpdateMemberCap,
         HandlePortalUpdateTeamBudget, HandlePortalMe, HandlePortalRevokePendingInvite,
         HandlePortalRemoveTeamMember

-----------------------------------------------------------------------------
(* What the pool paid *)

\* One seat's spending becomes n: its team's total moves by the difference.
LEMMA SeatSpentUpdate ==
    ASSUME MInv, NEW s \in Seats, NEW n \in Nat, spent' = [spent EXCEPT ![s] = n], NEW t \in Teams
    PROVE  /\ Total(SeatSpent(t)) \in Nat
           /\ t = s[1] => Total(SeatSpent(t)') = Total(SeatSpent(t)) - spent[s] + n
           /\ t # s[1] => SeatSpent(t)' = SeatSpent(t)
<1>1. /\ spent \in [Seats -> Nat] /\ IsFiniteSet(People)
      /\ \A p \in People : <<t, p>> \in Seats
      /\ s[1] \in Teams /\ s[2] \in People /\ s = <<s[1], s[2]>>
  BY FiniteAssumption DEF MInv, RowTypes, Seats
<1>2. SeatSpent(t) \in [People -> Nat]
  BY <1>1 DEF SeatSpent
<1>3. Total(SeatSpent(t)) \in Nat
  BY <1>1, <1>2, TotalType
<1>4. CASE t = s[1]
  <2>1. PICK f \in [People -> Nat], x \in People : f = SeatSpent(t) /\ x = s[2]
    BY <1>1, <1>2
  <2>2. f[x] = spent[s]
    BY <1>1, <1>4, <2>1 DEF SeatSpent
  <2>3. Total([f EXCEPT ![x] = n]) = Total(f) - f[x] + n
    <3>1. IsFiniteSet(People) /\ f \in [People -> Nat] /\ x \in People /\ n \in Nat
      BY <1>1, <2>1
    <3> QED
      BY ONLY <3>1, TotalUpdate
  <2>4. [p \in People |-> spent'[<<t, p>>]] = [f EXCEPT ![x] = n]
    <3>1. \A p \in People : spent'[<<t, p>>] = IF p = x THEN n ELSE f[p]
      BY <1>1, <1>4, <2>1 DEF SeatSpent
    <3>2. f = [p \in People |-> f[p]]
      BY <2>1
    <3> QED
      BY <3>1, <3>2
  <2>5. SeatSpent(t)' = [f EXCEPT ![x] = n]
    BY <2>4 DEF SeatSpent
  <2> QED
    BY <1>3, <1>4, <2>1, <2>2, <2>3, <2>5
<1>5. CASE t # s[1]
  <2>1. \A p \in People : <<t, p>> # s
    BY <1>1, <1>5
  <2>2. \A p \in People : spent'[<<t, p>>] = spent[<<t, p>>]
    BY <1>1, <2>1
  <2> QED
    BY <1>3, <1>5, <2>2 DEF SeatSpent
<1> QED
  BY <1>3, <1>4, <1>5

LEMMA PoolInit == Init => PoolCoversSeats
<1> SUFFICES ASSUME Init, NEW t \in Teams PROVE Total(SeatSpent(t)) <= pool[t]
  BY DEF PoolCoversSeats
<1>1. SeatSpent(t) = [p \in People |-> 0]
  BY DEF Init, SeatSpent, Seats
<1> QED
  BY <1>1, TotalZero DEF Init

LEMMA PoolNext == MInv /\ PoolCoversSeats /\ [Next]_vars => PoolCoversSeats'
<1> SUFFICES ASSUME MInv, PoolCoversSeats, [Next]_vars, NEW t \in Teams
             PROVE  Total(SeatSpent(t)') <= pool'[t]
  BY DEF PoolCoversSeats
<1>1. Total(SeatSpent(t)) <= pool[t] /\ pool \in [Teams -> Nat] /\ spent \in [Seats -> Nat]
  BY DEF PoolCoversSeats, MInv, RowTypes
<1>2. ASSUME UNCHANGED <<pool, spent>> PROVE Total(SeatSpent(t)') <= pool'[t]
  <2>1. SeatSpent(t)' = SeatSpent(t)
    BY <1>2 DEF SeatSpent
  <2> QED
    BY <1>1, <1>2, <2>1
<1>3. ASSUME NEW s \in Seats, Spend(s) PROVE Total(SeatSpent(t)') <= pool'[t]
  <2>1. /\ spent' = [spent EXCEPT ![s] = spent[s] + 1] /\ pool' = [pool EXCEPT ![s[1]] = pool[s[1]] + 1]
    BY <1>3 DEF Spend
  <2>2. spent[s] \in Nat /\ spent[s] + 1 \in Nat
    BY <1>1
  <2>3. /\ Total(SeatSpent(t)) \in Nat
        /\ t = s[1] => Total(SeatSpent(t)') = Total(SeatSpent(t)) - spent[s] + (spent[s] + 1)
        /\ t # s[1] => SeatSpent(t)' = SeatSpent(t)
    BY <2>1, <2>2, SeatSpentUpdate
  <2>4. CASE t = s[1]
    <3>1. pool'[t] = pool[t] + 1 /\ pool[t] \in Nat
      BY <1>1, <2>1, <2>4
    <3>2. Total(SeatSpent(t)') = Total(SeatSpent(t)) + 1
      BY <2>2, <2>3, <2>4
    <3> QED
      BY <1>1, <2>3, <3>1, <3>2
  <2>5. CASE t # s[1]
    <3>1. pool'[t] = pool[t]
      BY <1>1, <2>1, <2>5
    <3> QED
      BY <1>1, <2>3, <2>5, <3>1
  <2> QED
    BY <2>4, <2>5
<1>4. ASSUME NEW q \in Slots, ReviveSeat(q) PROVE Total(SeatSpent(t)') <= pool'[t]
  <2>1. job[q].seat \in Seats
    BY <1>4, BusySlot DEF ReviveSeat
  <2>2. PICK s \in Seats : s = job[q].seat
    BY <2>1
  <2>3. spent' = [spent EXCEPT ![s] = 0] /\ pool' = pool /\ spent[s] \in Nat
    BY <1>1, <1>4, <2>2 DEF ReviveSeat, teamVars
  <2>4. /\ Total(SeatSpent(t)) \in Nat
        /\ t = s[1] => Total(SeatSpent(t)') = Total(SeatSpent(t)) - spent[s] + 0
        /\ t # s[1] => SeatSpent(t)' = SeatSpent(t)
    BY <2>3, SeatSpentUpdate
  <2>5. pool[t] \in Nat
    BY <1>1
  <2> QED
    BY <1>1, <2>3, <2>4, <2>5
<1>5. ASSUME NEW q \in Slots, Statement(q) \/ Fail(q), ~ReviveSeat(q) PROVE UNCHANGED <<pool, spent>>
  BY <1>5 DEF Statement, LookUp, CheckPending, CreateInvite, FindSeat, InsertSeat, RereadSeat,
              MarkAccepted, WriteCap, WriteOwnerCap, Fail, teamVars, seatVars
<1>6. ASSUME UNCHANGED vars \/ (\E p \in People : SignUp(p))
             \/ (\E u \in Teams, n \in Amounts : CreateTeam(u, n))
             \/ (\E q \in Slots, s \in Seats, n \in Amounts : AddMember(q, s, n) \/ ChangeCap(q, s, n))
             \/ (\E q \in Slots, u \in Teams, n \in Amounts : ChangeLimit(q, u, n))
             \/ (\E q \in Slots, p \in People : AcceptInvites(q, p))
             \/ (\E i \in Invites : RevokeInvite(i))
             \/ (\E s \in Seats : RemoveMember(s))
      PROVE  UNCHANGED <<pool, spent>>
  BY <1>6 DEF vars, SignUp, CreateTeam, AddMember, ChangeCap, ChangeLimit, AcceptInvites,
              RevokeInvite, RemoveMember, teamVars, seatVars
<1> QED
  BY <1>2, <1>3, <1>4, <1>5, <1>6
     DEF Next, HandlePortalCreateTeam, HandlePortalAddTeamMember, HandlePortalUpdateMemberCap,
         HandlePortalUpdateTeamBudget, HandlePortalMe, HandlePortalRevokePendingInvite,
         HandlePortalRemoveTeamMember

-----------------------------------------------------------------------------
(* The theorems *)

LEMMA MInvHolds == Spec => []MInv
  BY MInvInit, MInvNext, PTL DEF Spec

\* Rows and calls in flight hold what they may hold.
THEOREM MembershipTypes == Spec => []TypeOK
  BY MInvHolds, MInvImplies, PTL

\* An address never has two pending invites to a team (teams.go
\* createPendingInvite and the partial unique index of schema.go).
THEOREM OneInvitePending == Spec => []OnePending
  BY MInvHolds, MInvImplies, PTL

\* The owner of a team is an active member, whatever calls race (teams.go
\* CreateTeam, RemoveTeamMember, upsertActiveMember).
THEOREM OwnersAreMembers == Spec => []OwnersStay
  BY MInvHolds, MInvImplies, PTL

\* An accepted invite has had its seat (teams.go AcceptPendingInvitesForEmail).
THEOREM AcceptedHaveJoined == Spec => []AcceptedJoined
  BY MInvHolds, MInvImplies, PTL

\* Every cap was within the limit its pool had at some time (teams.go
\* AddTeamMemberOrInvite, UpdateTeamMemberCap, UpdateTeamBudget).
THEOREM CapsAreAffordable == Spec => []CapsWereAffordable
  BY MInvHolds, MInvImplies, PTL

\* A pool has paid at least what its seats say (teams.go upsertActiveMember).
THEOREM PoolsCoverSeats == Spec => []PoolCoversSeats
  BY MInvHolds, PoolInit, PoolNext, PTL DEF Spec
=============================================================================

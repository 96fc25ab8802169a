-------------------------- MODULE GuardRefinement ---------------------------
(***************************************************************************)
(* Guard implements HoldBook: the stored counters can stand for the holds  *)
(* themselves, for every set of users, teams, requests, prices and bills.  *)
(***************************************************************************)
EXTENDS GuardTheorems

\* What the refinement needs beside IInv: limits come from the start or from
\* an administrator, and a bill that is about to be settled from a provider.
LimitValues == Limits \cup {StartLimit[a] : a \in Accounts}

LimitsKnown == \A a \in Accounts : row[a].limit \in LimitValues

BillsKnown == \A r \in Requests : phase[r] = "settle" => cost[r] \in Costs

RInv == IInv /\ LimitsKnown /\ BillsKnown

-----------------------------------------------------------------------------
(* Limits and bills *)

\* Only administrators move limits, and they move them to values they have.
LEMMA AdminLimits ==
    ASSUME row \in [Accounts -> Row], LimitsKnown, Admin
    PROVE  LimitsKnown'
<1> USE DEF LimitsKnown, LimitValues
<1>1. Users \subseteq Accounts /\ Teams \subseteq Accounts
      /\ \A t \in Teams, u \in Users : <<t, u>> \in Accounts
    BY DEF Accounts
<1>2. ASSUME NEW u \in Users, NEW limit \in Limits, NEW reset,
             UpdateUserBudget(u, limit, reset)
      PROVE  LimitsKnown'
    BY <1>1, <1>2 DEF UpdateUserBudget, Row
<1>3. ASSUME NEW t \in Teams, NEW limit \in Limits, UpdateTeamBudget(t, limit)
      PROVE  LimitsKnown'
    <2>1. <<t, Owner[t]>> \in Accounts /\ t \in Accounts
        BY <1>1, OwnerAssumption
    <2>2. PICK cap \in {limit, row[<<t, Owner[t]>>].limit} :
             row' = [row EXCEPT ![t].limit = limit, ![<<t, Owner[t]>>].limit = cap]
        BY <1>3 DEF UpdateTeamBudget
    <2>3. cap \in LimitValues
        BY <2>1, <2>2
    <2> DEFINE mid == [row EXCEPT ![t].limit = limit]
    <2>4. mid \in [Accounts -> [limit : LimitValues \cup Nat, spent : Nat, reserved : Nat]]
          /\ \A a \in Accounts : mid[a].limit \in LimitValues
        BY <2>1 DEF Row
    <2>5. row' = [mid EXCEPT ![<<t, Owner[t]>>].limit = cap]
        BY <2>2
    <2> HIDE DEF mid
    <2>q. QED
        BY <2>1, <2>3, <2>4, <2>5
<1>4. ASSUME NEW t \in Teams, NEW u \in Users, NEW limit \in Limits,
             UpdateTeamMemberCap(t, u, limit)
      PROVE  LimitsKnown'
    BY <1>1, <1>4 DEF UpdateTeamMemberCap, Row
<1>5. ASSUME NEW t \in Teams, NEW u \in Users, RemoveTeamMember(t, u)
      PROVE  LimitsKnown'
    BY <1>5 DEF RemoveTeamMember
<1> HIDE DEF LimitsKnown, LimitValues
<1>q. QED
    BY <1>2, <1>3, <1>4, <1>5 DEF Admin

\* What an account has spent stays, or is forgotten.
LEMMA AdminSpent ==
    ASSUME row \in [Accounts -> Row], Admin, NEW a \in Accounts
    PROVE  row'[a].spent \in {0, row[a].spent}
<1>1. Users \subseteq Accounts /\ Teams \subseteq Accounts
      /\ \A t \in Teams, u \in Users : <<t, u>> \in Accounts
    BY DEF Accounts
<1>2. ASSUME NEW u \in Users, NEW limit \in Limits, NEW reset \in BOOLEAN,
             UpdateUserBudget(u, limit, reset)
      PROVE  row'[a].spent \in {0, row[a].spent}
    BY <1>1, <1>2 DEF UpdateUserBudget, Row
<1>3. ASSUME NEW t \in Teams, NEW limit \in Limits, UpdateTeamBudget(t, limit)
      PROVE  row'[a].spent \in {0, row[a].spent}
    <2>1. <<t, Owner[t]>> \in Accounts /\ t \in Accounts
        BY <1>1, OwnerAssumption
    <2>2. PICK cap \in {limit, row[<<t, Owner[t]>>].limit} :
             row' = [row EXCEPT ![t].limit = limit, ![<<t, Owner[t]>>].limit = cap]
        BY <1>3 DEF UpdateTeamBudget
    <2> DEFINE mid == [row EXCEPT ![t].limit = limit]
    <2>3. mid \in [Accounts -> [limit : {limit} \cup Nat, spent : Nat, reserved : Nat]]
          /\ mid[a].spent = row[a].spent
        BY <2>1 DEF Row
    <2>4. row' = [mid EXCEPT ![<<t, Owner[t]>>].limit = cap]
        BY <2>2
    <2> HIDE DEF mid
    <2>q. QED
        BY <2>1, <2>3, <2>4
<1>4. ASSUME NEW t \in Teams, NEW u \in Users, NEW limit \in Limits,
             UpdateTeamMemberCap(t, u, limit)
      PROVE  row'[a].spent \in {0, row[a].spent}
    BY <1>1, <1>4 DEF UpdateTeamMemberCap, Row
<1>5. ASSUME NEW t \in Teams, NEW u \in Users, RemoveTeamMember(t, u)
      PROVE  row'[a].spent \in {0, row[a].spent}
    BY <1>5 DEF RemoveTeamMember
<1>q. QED
    BY <1>2, <1>3, <1>4, <1>5 DEF Admin

\* Holding and posting leave every limit as it is.
LEMMA HoldKeepsLimit ==
    ASSUME row \in [Accounts -> Row], NEW u, NEW t, NEW n \in Nat, AddHold(u, t, n),
           NEW a \in Accounts
    PROVE  row'[a].limit = row[a].limit /\ row'[a].spent = row[a].spent
BY DEF AddHold, Row

LEMMA PostKeepsLimit ==
    ASSUME row \in [Accounts -> Row], NEW u, NEW t, NEW c \in Nat, NEW n \in Nat,
           Post(u, t, c, n), NEW a \in Accounts
    PROVE  row'[a].limit = row[a].limit
<1>1. row[a] \in Row
    OBVIOUS
<1>2. row'[a] = IF a \in Scope(u, t) THEN Posted(row[a], c, n) ELSE row[a]
    BY DEF Post
<1>3. Posted(row[a], c, n).limit = row[a].limit
    BY <1>1 DEF Posted, Row
<1>q. QED
    BY <1>2, <1>3

LEMMA KnownStep ==
    ASSUME TypeOK, LimitsKnown, BillsKnown, [Next]_vars
    PROVE  LimitsKnown' /\ BillsKnown'
<1>1. ASSUME NEW r \in Requests, Step(r) PROVE LimitsKnown' /\ BillsKnown'
    <2>0. amt[r] \in Nat /\ cost[r] \in Nat /\ row \in [Accounts -> Row]
        BY DEF TypeOK
    <2>1. CASE \/ Arrive(r) \/ LoopCheck(r) \/ Quote(r) \/ Unaffordable(r) \/ CheckFails(r)
               \/ ReserveFails(r) \/ ReserveDenied(r) \/ Join(r) \/ Abort(r)
               \/ SettleFails(r) \/ ReleaseFails(r)
        <3>1. UNCHANGED <<row, cost>>
            BY <2>1 DEF ledgerVars, Arrive, LoopCheck, Quote, Unaffordable, CheckFails,
               ReserveFails, ReserveDenied, Join, Abort, SettleFails, ReleaseFails
        <3>2. \A q \in Requests : phase'[q] = "settle" => phase[q] = "settle"
            BY <2>1 DEF TypeOK, Arrive, LoopCheck, Quote, Unaffordable, CheckFails, Answered,
               ReserveFails, ReserveDenied, Join, Abort, SettleFails, ReleaseFails
        <3>q. QED
            BY <3>1, <3>2 DEF LimitsKnown, BillsKnown
    <2>2. CASE Complete(r)
        BY <2>2 DEF Complete, TypeOK, ledgerVars, LimitsKnown, BillsKnown
    <2>3. CASE ReserveGranted(r)
        <3>1. LimitsKnown'
            BY <2>0, <2>3, HoldKeepsLimit DEF ReserveGranted, LimitsKnown
        <3>q. QED
            BY <2>3, <3>1 DEF ReserveGranted, TypeOK, BillsKnown
    <2>4. CASE ReserveUnheard(r)
        <3>1. LimitsKnown'
            BY <2>0, <2>4, HoldKeepsLimit DEF ReserveUnheard, LimitsKnown
        <3>q. QED
            BY <2>4, <3>1 DEF ReserveUnheard, Answered, TypeOK, BillsKnown
    <2>5. CASE Settle(r)
        <3>1. LimitsKnown'
            BY <2>0, <2>5, PostKeepsLimit DEF Settle, SettleReservedUsage, LimitsKnown
        <3>q. QED
            BY <2>5, <3>1 DEF Settle, TypeOK, BillsKnown
    <2>6. CASE Release(r)
        <3>1. LimitsKnown'
            BY <2>0, <2>6, PostKeepsLimit DEF Release, ReleaseReservation, LimitsKnown
        <3>q. QED
            BY <2>6, <3>1 DEF Release, TypeOK, BillsKnown
    <2>q. QED
        BY <1>1, <2>1, <2>2, <2>3, <2>4, <2>5, <2>6 DEF Step
<1>2. CASE Crash
    BY <1>2 DEF Crash, ledgerVars, LimitsKnown, BillsKnown
<1>3. CASE Admin
    <2>1. LimitsKnown'
        BY <1>3, AdminLimits DEF TypeOK
    <2>q. QED
        BY <1>3, <2>1 DEF Admin, reqVars, BillsKnown
<1>4. CASE UNCHANGED vars
    BY <1>4 DEF vars, ledgerVars, reqVars, LimitsKnown, BillsKnown
<1>q. QED
    BY <1>1, <1>2, <1>3, <1>4 DEF Next

LEMMA RInvHolds ==
    ASSUME "lost_settle" \notin Env
    PROVE  Spec => []RInv
<1>1. Init => LimitsKnown /\ BillsKnown
    <2> SUFFICES ASSUME Init PROVE LimitsKnown /\ BillsKnown
        OBVIOUS
    <2>1. LimitsKnown
        BY DEF Init, LedgerInit, LimitsKnown, LimitValues
    <2>2. BillsKnown
        BY DEF Init, BillsKnown
    <2>q. QED
        BY <2>1, <2>2
<1>2. IInv /\ LimitsKnown /\ BillsKnown /\ [Next]_vars => (LimitsKnown /\ BillsKnown)'
    BY KnownStep DEF IInv
<1>q. QED
    BY <1>1, <1>2, IInvHolds, PTL DEF Spec, RInv

-----------------------------------------------------------------------------
(* The book behind the counters *)

\* The state of the book, as the counters show it.
Allowed == [a \in Accounts |-> row[a].limit]
Paid == [a \in Accounts |-> row[a].spent]
SpendsOn == [r \in Requests |-> ScopeOf(r)]
Billed == {r \in Requests : settled[r]}

\* The book adds up as the ledger does.
LEMMA BookTotal ==
    ASSUME NEW f
    PROVE  Book!Total(f) = Total(f)
BY DEF Book!Total, Book!Tokens, Book!Cardinality, Total, Tokens, Cardinality

\* What is left beside all holds is what the counters leave.
LEMMA FreeIsLeft ==
    ASSUME RInv, NEW a \in Accounts
    PROVE  Book!Free(a) = row[a].limit - row[a].spent - row[a].reserved
<1>1. Book!Held(a) = Total(HoldOn(a))
    <2>1. [r \in Requests |-> IF a \in [q \in Requests |-> ScopeOf(q)][r] THEN hold[r] ELSE 0]
            = HoldOn(a)
        BY DEF HoldOn
    <2>q. QED
        BY <2>1, BookTotal DEF Book!Held
<1>2. row[a].reserved = Total(HoldOn(a))
    BY DEF RInv, IInv, ReservedIsOutstanding
<1>q. QED
    BY <1>1, <1>2 DEF Book!Free

LEMMA BookStarts ==
    ASSUME Init
    PROVE  Book!BookInit
<1>1. Allowed \in [Accounts -> LimitValues]
    BY DEF Allowed, LimitValues, Init, LedgerInit
<1>2. Paid = [a \in Accounts |-> 0]
    BY DEF Paid, Init, LedgerInit
<1>3. SpendsOn \in [Requests -> SUBSET Accounts]
    BY ScopeType DEF SpendsOn, ScopeOf, Init
<1>4. Billed = {} /\ hold = [r \in Requests |-> 0]
    BY DEF Billed, Init
<1>q. QED
    BY <1>1, <1>2, <1>3, <1>4
       DEF Book!BookInit, Allowed, LimitValues, Paid, SpendsOn, Billed

\* A step the book does not see.
LEMMA BookRests ==
    ASSUME UNCHANGED <<row, user, team, hold, settled>>
    PROVE  UNCHANGED Book!bookVars
BY DEF Book!bookVars, ScopeOf

\* A granted reservation is an admission; one of nothing goes unseen.
LEMMA BookAdmits ==
    ASSUME RInv, NEW r \in Requests, ~settled[r], hold[r] = 0,
           Reservable(user[r], team[r], amt[r]), AddHold(user[r], team[r], amt[r]),
           hold' = [hold EXCEPT ![r] = amt[r]], UNCHANGED <<user, team, settled>>
    PROVE  Book!Admit(r) \/ UNCHANGED Book!bookVars
<1>0. TypeOK /\ amt[r] \in Nat /\ row \in [Accounts -> Row]
    BY DEF RInv, IInv, TypeOK
<1>1. UNCHANGED <<Allowed, Paid, SpendsOn, Billed>>
    <2>1. \A a \in Accounts : row'[a].limit = row[a].limit /\ row'[a].spent = row[a].spent
        BY <1>0, HoldKeepsLimit
    <2>q. QED
        BY <2>1 DEF Allowed, Paid, SpendsOn, Billed, ScopeOf
<1>2. CASE amt[r] = 0
    <2>1. hold' = hold
        BY <1>0, <1>2 DEF TypeOK
    <2>q. QED
        BY <1>1, <2>1 DEF Book!bookVars, Allowed, Paid, SpendsOn, Billed
<1>3. CASE amt[r] > 0
    <2>1. ScopeOf(r) \subseteq Accounts
        BY <1>0, ScopeType DEF TypeOK, ScopeOf
    <2>2. \A b \in ScopeOf(r) : Book!Free(b) \in Int /\ amt[r] <= Book!Free(b)
        <3> SUFFICES ASSUME NEW b \in ScopeOf(r)
                     PROVE  Book!Free(b) \in Int /\ amt[r] <= Book!Free(b)
            OBVIOUS
        <3>1. row[b] \in Row /\ b \in Accounts
            BY <1>0, <2>1
        <3>2. row[b].limit - row[b].spent - row[b].reserved >= amt[r]
            BY <1>0, <3>1 DEF Reservable, CanCover, Available, ScopeOf, Row
        <3>3. Book!Free(b) = row[b].limit - row[b].spent - row[b].reserved
            BY <3>1, FreeIsLeft
        <3>q. QED
            BY <1>0, <3>1, <3>2, <3>3 DEF Row
    <2>3. PICK a : a \in ScopeOf(r)
        BY DEF ScopeOf, Scope
    <2>4. amt[r] \in 1 .. Book!Free(a)
        BY <1>0, <1>3, <2>2, <2>3
    <2>5. r \notin Billed
        BY DEF Billed
    <2>6. SpendsOn[r] = ScopeOf(r)
        BY DEF SpendsOn
    <2>7. \E b \in SpendsOn[r] : \E n \in 1 .. Book!Free(b) :
             /\ \A c \in SpendsOn[r] : n <= Book!Free(c)
             /\ hold' = [hold EXCEPT ![r] = n]
        BY <2>2, <2>3, <2>4, <2>6
    <2>8. Book!Admit(r)
        BY <1>1, <2>5, <2>7 DEF Book!Admit, Allowed, Paid, SpendsOn, Billed
    <2>q. QED
        BY <2>8
<1>q. QED
    BY <1>0, <1>2, <1>3

\* A settlement charges the bill to the whole scope and ends the hold.
LEMMA BookCharges ==
    ASSUME RInv, NEW r \in Requests, Settle(r)
    PROVE  Book!Charge(r)
<1>0. /\ TypeOK /\ amt[r] \in Nat /\ cost[r] \in Nat
      /\ row \in [Accounts -> Row] /\ settled \in [Requests -> BOOLEAN]
    BY DEF RInv, IInv, TypeOK
<1>1. phase[r] = "settle" /\ ~settled[r] /\ cost[r] \in Costs
    BY DEF RInv, IInv, HoldFollowsPhase, BillsKnown, Settle
<1>2. Post(user[r], team[r], cost[r], amt[r])
    BY DEF Settle, SettleReservedUsage
<1>3. UNCHANGED <<Allowed, SpendsOn>>
    <2>1. \A a \in Accounts : row'[a].limit = row[a].limit
        BY <1>0, <1>2, PostKeepsLimit
    <2>q. QED
        BY <2>1 DEF Allowed, SpendsOn, ScopeOf, Settle
<1>4. Paid' = [a \in Accounts |-> IF a \in SpendsOn[r] THEN Paid[a] + cost[r] ELSE Paid[a]]
    <2>1. \A a \in Accounts :
             row'[a].spent = IF a \in SpendsOn[r] THEN row[a].spent + cost[r] ELSE row[a].spent
        BY <1>0, <1>2, SpentAfterPost DEF SpendsOn, ScopeOf
    <2>q. QED
        BY <2>1 DEF Paid
<1>5. Billed' = Billed \cup {r} /\ r \notin Billed
    BY <1>0, <1>1 DEF Billed, Settle
<1>6. hold' = [hold EXCEPT ![r] = 0]
    BY DEF Settle
<1>q. QED
    BY <1>1, <1>3, <1>4, <1>5, <1>6 DEF Book!Charge, Allowed, Paid, SpendsOn, Billed

\* A release returns the hold and touches nothing else.
LEMMA BookReturns ==
    ASSUME RInv, NEW r \in Requests, Release(r)
    PROVE  Book!Return(r)
<1>0. TypeOK /\ amt[r] \in Nat /\ row \in [Accounts -> Row]
    BY DEF RInv, IInv, TypeOK
<1>1. Post(user[r], team[r], 0, amt[r])
    BY DEF Release, ReleaseReservation
<1>2. UNCHANGED <<Allowed, Paid, SpendsOn, Billed>>
    <2>1. \A a \in Accounts : row'[a].limit = row[a].limit
        BY <1>0, <1>1, PostKeepsLimit
    <2>2. \A a \in Accounts : row'[a].spent = row[a].spent
        <3> SUFFICES ASSUME NEW a \in Accounts PROVE row'[a].spent = row[a].spent
            OBVIOUS
        <3>1. row'[a].spent = IF a \in ScopeOf(r) THEN row[a].spent + 0 ELSE row[a].spent
            BY <1>0, <1>1, SpentAfterPost DEF ScopeOf
        <3>2. row[a].spent \in Nat
            BY <1>0 DEF Row
        <3>q. QED
            BY <3>1, <3>2
    <2>q. QED
        BY <2>1, <2>2 DEF Allowed, Paid, SpendsOn, Billed, ScopeOf, Release
<1>3. hold' = [hold EXCEPT ![r] = 0]
    BY DEF Release
<1>q. QED
    BY <1>2, <1>3 DEF Book!Return, Allowed, Paid, SpendsOn, Billed

\* Administrators adjust the book and disturb no hold.
LEMMA BookAdjusts ==
    ASSUME RInv, LimitsKnown', Admin
    PROVE  Book!Adjust
<1>0. row \in [Accounts -> Row] /\ active \subseteq Teams \X Users
    BY DEF RInv, IInv, TypeOK
<1>1. row' \in [Accounts -> Row]
    BY <1>0, AdminType
<1>2. Allowed' \in [Accounts -> LimitValues]
    BY DEF Allowed, LimitsKnown, LimitValues
<1>3. \A a \in Accounts : row'[a].spent \in {0, row[a].spent}
    BY <1>0, AdminSpent
<1>4. Paid' \in [Accounts -> Nat] /\ \A a \in Accounts : Paid'[a] \in {0, Paid[a]}
    BY <1>1, <1>3 DEF Paid, Row
<1>5. UNCHANGED <<SpendsOn, hold, Billed>>
    BY DEF Admin, reqVars, SpendsOn, ScopeOf, Billed
<1>q. QED
    BY <1>2, <1>4, <1>5
       DEF Book!Adjust, Allowed, LimitValues, Paid, SpendsOn, Billed

LEMMA BookFollows ==
    ASSUME RInv, LimitsKnown', [Next]_vars
    PROVE  [Book!BookNext]_Book!bookVars
<1>1. ASSUME NEW r \in Requests, Step(r) PROVE Book!BookNext \/ UNCHANGED Book!bookVars
    <2>1. CASE \/ Arrive(r) \/ LoopCheck(r) \/ Quote(r) \/ Unaffordable(r) \/ CheckFails(r)
               \/ ReserveDenied(r) \/ ReserveFails(r) \/ Join(r) \/ Complete(r) \/ Abort(r)
               \/ SettleFails(r) \/ ReleaseFails(r)
        <3>1. UNCHANGED <<row, user, team, hold, settled>>
            BY <2>1 DEF ledgerVars, Arrive, LoopCheck, Quote, Unaffordable, CheckFails,
               ReserveDenied, ReserveFails, Join, Complete, Abort, SettleFails, ReleaseFails
        <3>q. QED
            BY <3>1, BookRests
    <2>2. CASE ReserveGranted(r) \/ ReserveUnheard(r)
        <3>1. ~settled[r] /\ hold[r] = 0
            BY <2>2 DEF RInv, IInv, HoldFollowsPhase, ReserveGranted, ReserveUnheard
        <3>2. /\ Reservable(user[r], team[r], amt[r])
              /\ AddHold(user[r], team[r], amt[r])
              /\ hold' = [hold EXCEPT ![r] = amt[r]]
              /\ UNCHANGED <<user, team, settled>>
            BY <2>2 DEF ReserveGranted, ReserveUnheard
        <3>3. Book!Admit(r) \/ UNCHANGED Book!bookVars
            BY <3>1, <3>2, BookAdmits
        <3>q. QED
            BY <3>3 DEF Book!BookNext
    <2>3. CASE Settle(r)
        BY <2>3, BookCharges DEF Book!BookNext
    <2>4. CASE Release(r)
        BY <2>4, BookReturns DEF Book!BookNext
    <2>q. QED
        BY <1>1, <2>1, <2>2, <2>3, <2>4 DEF Step
<1>2. CASE Crash
    BY <1>2, BookRests DEF Crash, ledgerVars
<1>3. CASE Admin
    BY <1>3, BookAdjusts DEF Book!BookNext
<1>4. CASE UNCHANGED vars
    BY <1>4, BookRests DEF vars, ledgerVars, reqVars
<1>q. QED
    BY <1>1, <1>2, <1>3, <1>4 DEF Next

\* Admission against the stored counters is admission against the holds
\* themselves: unless a settlement's reply is lost, every behaviour of the
\* guard is one of the book (ReserveBudget, SettleReservedUsage,
\* ReleaseReservation, UpdateUserBudget).
THEOREM BookImplemented ==
    ASSUME "lost_settle" \notin Env
    PROVE  Spec => ImplementsBook
<1>1. Init => Book!BookInit
    BY BookStarts
<1>2. RInv /\ RInv' /\ [Next]_vars => [Book!BookNext]_Book!bookVars
    BY BookFollows DEF RInv
<1>q. QED
    BY <1>1, <1>2, RInvHolds, PTL DEF Spec, ImplementsBook, Book!BookSpec
=============================================================================

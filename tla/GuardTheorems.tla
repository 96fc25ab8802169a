--------------------------- MODULE GuardTheorems ----------------------------
(***************************************************************************)
(* What is proved about Guard and GuardDrift for every set of users, teams *)
(* and requests, every price catalog and every bill.                       *)
(***************************************************************************)
EXTENDS GuardDrift, TotalsTheorems

USE DEF Phases, LoopStates

-----------------------------------------------------------------------------
(* The rows *)

\* The scope of a request consists of rows there are.
LEMMA ScopeType ==
    ASSUME NEW u \in Users, NEW t \in Teams \cup {NoTeam}
    PROVE  Scope(u, t) \subseteq Accounts
BY DEF Scope, Accounts

LEMMA AvailableType ==
    ASSUME NEW b \in Row
    PROVE  Available(b) \in Nat
BY DEF Available, Row

LEMMA PostedType ==
    ASSUME NEW b \in Row, NEW c \in Nat, NEW n \in Nat
    PROVE  Posted(b, c, n) \in Row
<1> DEFINE left == IF b.reserved > n THEN b.reserved - n ELSE 0
<1>1. b.spent + c \in Nat /\ left \in Nat
    BY DEF Row
<1>2. \A x, y \in Nat : [b EXCEPT !.spent = x, !.reserved = y] \in Row
    BY DEF Row
<1>q. QED
    BY <1>1, <1>2 DEF Posted

\* Reserving, and settling or releasing, keep the rows rows.
LEMMA AddHoldType ==
    ASSUME row \in [Accounts -> Row], NEW u, NEW t, NEW n \in Nat, AddHold(u, t, n)
    PROVE  row' \in [Accounts -> Row] /\ active' = active
<1>1. \A a \in Accounts : [row[a] EXCEPT !.reserved = @ + n] \in Row
    BY DEF Row
<1>q. QED
    BY <1>1 DEF AddHold

LEMMA PostType ==
    ASSUME row \in [Accounts -> Row], NEW u, NEW t, NEW c \in Nat, NEW n \in Nat,
           Post(u, t, c, n)
    PROVE  row' \in [Accounts -> Row] /\ active' = active
<1>1. \A a \in Accounts : Posted(row[a], c, n) \in Row
    BY PostedType
<1>q. QED
    BY <1>1 DEF Post

\* Administrators keep the rows rows, and no reserved column changes;
\* only a reset of a user's own row changes a spent column.
LEMMA AdminType ==
    ASSUME row \in [Accounts -> Row], active \subseteq Teams \X Users, Admin
    PROVE  /\ row' \in [Accounts -> Row]
           /\ active' \subseteq Teams \X Users
           /\ \A a \in Accounts : row'[a].reserved = row[a].reserved
           /\ "reset" \notin Env => \A a \in Accounts : row'[a].spent = row[a].spent
           /\ \A a \in Accounts \ Users : row'[a].spent = row[a].spent
<1> DEFINE Kept == /\ row' \in [Accounts -> Row]
                   /\ active' \subseteq Teams \X Users
                   /\ \A a \in Accounts : row'[a].reserved = row[a].reserved
                   /\ "reset" \notin Env => \A a \in Accounts : row'[a].spent = row[a].spent
                   /\ \A a \in Accounts \ Users : row'[a].spent = row[a].spent
<1>0. Users \subseteq Accounts /\ Teams \subseteq Accounts
      /\ \A t \in Teams, u \in Users : <<t, u>> \in Accounts
    BY DEF Accounts
<1>1. ASSUME NEW u \in Users, NEW limit \in Limits, UpdateUserBudget(u, limit, FALSE)
      PROVE  Kept
    BY <1>0, <1>1, LimitsAssumption DEF UpdateUserBudget, Row
<1>2. ASSUME NEW t \in Teams, NEW limit \in Limits, UpdateTeamBudget(t, limit)
      PROVE  Kept
    <2>1. <<t, Owner[t]>> \in Accounts /\ t \in Accounts
        BY <1>0, OwnerAssumption
    <2>2. PICK cap \in {limit, row[<<t, Owner[t]>>].limit} :
             row' = [row EXCEPT ![t].limit = limit, ![<<t, Owner[t]>>].limit = cap]
        BY <1>2 DEF UpdateTeamBudget
    <2>3. cap \in Nat /\ limit \in Nat
        BY <2>1, <2>2, LimitsAssumption DEF Row
    <2> DEFINE mid == [row EXCEPT ![t].limit = limit]
    <2>4. mid \in [Accounts -> Row]
          /\ \A a \in Accounts : mid[a].reserved = row[a].reserved /\ mid[a].spent = row[a].spent
        BY <2>1, <2>3 DEF Row
    <2>5. row' = [mid EXCEPT ![<<t, Owner[t]>>].limit = cap]
        BY <2>2
    <2> HIDE DEF mid
    <2>6. row' \in [Accounts -> Row]
          /\ \A a \in Accounts : row'[a].reserved = mid[a].reserved /\ row'[a].spent = mid[a].spent
        BY <2>1, <2>3, <2>4, <2>5 DEF Row
    <2>q. QED
        BY <1>2, <2>4, <2>6 DEF UpdateTeamBudget
<1>3. ASSUME NEW t \in Teams, NEW u \in Users, NEW limit \in Limits,
             UpdateTeamMemberCap(t, u, limit)
      PROVE  Kept
    BY <1>0, <1>3, LimitsAssumption DEF UpdateTeamMemberCap, Row
<1>4. ASSUME "reset" \in Env, NEW u \in Users, NEW limit \in Limits,
             UpdateUserBudget(u, limit, TRUE)
      PROVE  Kept
    BY <1>0, <1>4, LimitsAssumption DEF UpdateUserBudget, Row
<1>5. ASSUME NEW t \in Teams, NEW u \in Users, RemoveTeamMember(t, u)
      PROVE  Kept
    BY <1>5 DEF RemoveTeamMember
<1> HIDE DEF Kept
<1>6. Kept
    BY <1>1, <1>2, <1>3, <1>4, <1>5 DEF Admin
<1>q. QED
    BY <1>6 DEF Kept

-----------------------------------------------------------------------------
(* Types *)

LEMMA TypeInit == Init => TypeOK
<1> SUFFICES ASSUME Init PROVE TypeOK
    OBVIOUS
<1>1. row \in [Accounts -> Row]
    BY StartLimitAssumption DEF Init, LedgerInit, Row
<1>q. QED
    BY <1>1, StartMembersAssumption DEF Init, LedgerInit, TypeOK

\* checkBudget reserves a natural amount: the quote, or what it was cut to.
LEMMA QuoteType ==
    ASSUME TypeOK, NEW r \in Requests, Quote(r)
    PROVE  \E n \in Nat : amt' = [amt EXCEPT ![r] = n]
<1>1. row[user[r]] \in Row
    BY DEF TypeOK, Accounts
<1>2. Available(row[user[r]]) \in Nat
    BY <1>1, AvailableType
<1> DEFINE totals(q) == IF Affordable(r, q) THEN {q.total}
                        ELSE IF Clampable(r, q) THEN q.input .. Available(row[user[r]])
                        ELSE {}
<1>3. PICK q \in Quotes : \E n \in totals(q) : amt' = [amt EXCEPT ![r] = n]
    BY DEF Quote
<1>4. q.input \in Nat /\ q.total \in Nat
    BY QuotesAssumption
<1>5. totals(q) \subseteq Nat
    <2>1. q.input .. Available(row[user[r]]) \subseteq Nat
        BY <1>2, <1>4
    <2>q. QED
        BY <1>4, <2>1
<1> HIDE DEF totals
<1>q. QED
    BY <1>3, <1>5

LEMMA TypeStep == TypeOK /\ [Next]_vars => TypeOK'
<1> SUFFICES ASSUME TypeOK, [Next]_vars PROVE TypeOK'
    OBVIOUS
<1> USE DEF TypeOK, ledgerVars
<1>1. ASSUME NEW r \in Requests, Step(r) PROVE TypeOK'
    <2>0. amt[r] \in Nat /\ cost[r] \in Nat /\ user[r] \in Users /\ team[r] \in Teams \cup {NoTeam}
        OBVIOUS
    <2>1. CASE Arrive(r)
        BY <2>1 DEF Arrive
    <2>2. CASE LoopCheck(r)
        BY <2>2 DEF LoopCheck
    <2>3. CASE Quote(r)
        BY <2>3, QuoteType DEF Quote
    <2>4. CASE Unaffordable(r)
        BY <2>4 DEF Unaffordable
    <2>5. CASE CheckFails(r)
        BY <2>5 DEF CheckFails, Answered
    <2>6. CASE ReserveGranted(r)
        BY <2>0, <2>6, AddHoldType DEF ReserveGranted
    <2>7. CASE ReserveUnheard(r)
        BY <2>0, <2>7, AddHoldType DEF ReserveUnheard, Answered
    <2>8. CASE ReserveDenied(r)
        BY <2>8 DEF ReserveDenied
    <2>9. CASE ReserveFails(r)
        BY <2>9 DEF ReserveFails, Answered
    <2>10. CASE Join(r)
        BY <2>10 DEF Join
    <2>11. CASE Complete(r)
        BY <2>11, CostsAssumption DEF Complete
    <2>12. CASE Abort(r)
        BY <2>12 DEF Abort
    <2>13. CASE Settle(r)
        <3>1. row' \in [Accounts -> Row] /\ active' = active
            BY <2>0, <2>13, PostType DEF Settle, SettleReservedUsage
        <3>q. QED
            BY <2>13, <3>1 DEF Settle
    <2>14. CASE SettleFails(r)
        BY <2>14 DEF SettleFails
    <2>15. CASE Release(r)
        <3>1. row' \in [Accounts -> Row] /\ active' = active
            BY <2>0, <2>15, PostType DEF Release, ReleaseReservation
        <3>q. QED
            BY <2>15, <3>1 DEF Release
    <2>16. CASE ReleaseFails(r)
        BY <2>16 DEF ReleaseFails
    <2>q. QED
        BY <1>1, <2>1, <2>2, <2>3, <2>4, <2>5, <2>6, <2>7, <2>8, <2>9, <2>10, <2>11,
           <2>12, <2>13, <2>14, <2>15, <2>16 DEF Step
<1>2. CASE Crash
    BY <1>2 DEF Crash
<1>3. CASE Admin
    BY <1>3, AdminType DEF Admin, reqVars
<1>4. CASE UNCHANGED vars
    BY <1>4 DEF vars, reqVars
<1>q. QED
    BY <1>1, <1>2, <1>3, <1>4 DEF Next

\* Every reachable state has rows with natural columns, requests in known
\* phases and amounts in Nat: MAX(0, ...) and the checks keep every column of
\* user_budgets, teams and team_members from going below zero.
THEOREM TypeCorrect == Spec => []TypeOK
<1>1. Init => TypeOK
    BY TypeInit
<1>2. TypeOK /\ [Next]_vars => TypeOK'
    BY TypeStep
<1>q. QED
    BY <1>1, <1>2, PTL DEF Spec
-----------------------------------------------------------------------------
(* What the handler believes *)

LEMMA FollowStep == TypeOK /\ HoldFollowsPhase /\ [Next]_vars => HoldFollowsPhase'
<1> SUFFICES ASSUME TypeOK, HoldFollowsPhase, [Next]_vars PROVE HoldFollowsPhase'
    OBVIOUS
<1> USE DEF TypeOK, HoldFollowsPhase
<1>1. ASSUME NEW r \in Requests, Step(r) PROVE HoldFollowsPhase'
    <2>1. CASE Arrive(r)
        BY <2>1 DEF Arrive
    <2>2. CASE LoopCheck(r)
        BY <2>2 DEF LoopCheck
    <2>3. CASE Quote(r)
        <3>1. \E n \in Nat : amt' = [amt EXCEPT ![r] = n]
            BY <2>3, QuoteType
        <3>q. QED
            BY <2>3, <3>1 DEF Quote
    <2>4. CASE Unaffordable(r)
        BY <2>4 DEF Unaffordable
    <2>5. CASE CheckFails(r)
        BY <2>5 DEF CheckFails, Answered
    <2>6. CASE ReserveGranted(r)
        BY <2>6 DEF ReserveGranted
    <2>7. CASE ReserveUnheard(r)
        BY <2>7 DEF ReserveUnheard, Answered
    <2>8. CASE ReserveDenied(r)
        BY <2>8 DEF ReserveDenied
    <2>9. CASE ReserveFails(r)
        BY <2>9 DEF ReserveFails, Answered
    <2>10. CASE Join(r)
        BY <2>10 DEF Join
    <2>11. CASE Complete(r)
        BY <2>11 DEF Complete
    <2>12. CASE Abort(r)
        BY <2>12 DEF Abort
    <2>13. CASE Settle(r)
        BY <2>13 DEF Settle
    <2>14. CASE SettleFails(r)
        BY <2>14 DEF SettleFails
    <2>15. CASE Release(r)
        BY <2>15 DEF Release
    <2>16. CASE ReleaseFails(r)
        BY <2>16 DEF ReleaseFails
    <2>q. QED
        BY <1>1, <2>1, <2>2, <2>3, <2>4, <2>5, <2>6, <2>7, <2>8, <2>9, <2>10, <2>11,
           <2>12, <2>13, <2>14, <2>15, <2>16 DEF Step
<1>2. CASE Crash
    BY <1>2 DEF Crash
<1>3. CASE Admin
    BY <1>3 DEF Admin, reqVars
<1>4. CASE UNCHANGED vars
    BY <1>4 DEF vars, reqVars
<1>q. QED
    BY <1>1, <1>2, <1>3, <1>4 DEF Next
\* In every reachable state the reservation the handler would settle or
\* release is the one the rows hold for the request, whatever faults occur.
THEOREM HoldsFollowPhases == Spec => []HoldFollowsPhase
<1>1. Init => HoldFollowsPhase
    BY DEF Init, HoldFollowsPhase
<1>2. TypeOK /\ HoldFollowsPhase /\ [Next]_vars => HoldFollowsPhase'
    BY FollowStep
<1>q. QED
    BY <1>1, <1>2, TypeCorrect, PTL DEF Spec

-----------------------------------------------------------------------------
(* The reserved columns *)

LEMMA HoldOnType ==
    ASSUME TypeOK, NEW a
    PROVE  HoldOn(a) \in [Requests -> Nat]
BY DEF TypeOK, HoldOn

\* One request's hold moves what is held on the rows of its scope, and only
\* there, by the difference.
LEMMA HeldChanges ==
    ASSUME TypeOK, NEW r \in Requests, NEW n \in Nat, NEW a,
           hold' = [hold EXCEPT ![r] = n], user' = user, team' = team
    PROVE  Total(HoldOn(a)') = IF a \in ScopeOf(r) THEN Total(HoldOn(a)) - hold[r] + n
                               ELSE Total(HoldOn(a))
<1>1. HoldOn(a) \in [Requests -> Nat]
    BY HoldOnType
<1>2. CASE a \in ScopeOf(r)
    <2>1. HoldOn(a)' = [HoldOn(a) EXCEPT ![r] = n]
        BY <1>2 DEF TypeOK, HoldOn, ScopeOf
    <2>2. HoldOn(a)[r] = hold[r]
        BY <1>2 DEF HoldOn
    <2>3. Total([HoldOn(a) EXCEPT ![r] = n]) = Total(HoldOn(a)) - HoldOn(a)[r] + n
        BY <1>1, RequestsAssumption, TotalUpdate
    <2>q. QED
        BY <1>2, <2>1, <2>2, <2>3
<1>3. CASE a \notin ScopeOf(r)
    <2>1. HoldOn(a)' = HoldOn(a)
        BY <1>3 DEF TypeOK, HoldOn, ScopeOf
    <2>q. QED
        BY <1>3, <2>1
<1>q. QED
    BY <1>2, <1>3

LEMMA HeldStays ==
    ASSUME hold' = hold, user' = user, team' = team, NEW a
    PROVE  Total(HoldOn(a)') = Total(HoldOn(a))
<1>1. HoldOn(a)' = HoldOn(a)
    BY DEF HoldOn, ScopeOf
<1>q. QED
    BY <1>1

\* The rows cover each hold.
LEMMA HoldBound ==
    ASSUME TypeOK, ReservedIsOutstanding, NEW r \in Requests, NEW a \in ScopeOf(r)
    PROVE  a \in Accounts /\ hold[r] <= row[a].reserved
<1>1. a \in Accounts
    BY ScopeType DEF TypeOK, ScopeOf
<1>2. HoldOn(a)[r] <= Total(HoldOn(a))
    BY HoldOnType, RequestsAssumption, TotalBound
<1>3. HoldOn(a)[r] = hold[r]
    BY DEF HoldOn
<1>q. QED
    BY <1>1, <1>2, <1>3 DEF ReservedIsOutstanding

\* ReserveBudget adds to the columns what it holds for the request.
LEMMA ReservedAfterHold ==
    ASSUME TypeOK, ReservedIsOutstanding, NEW r \in Requests, hold[r] = 0,
           AddHold(user[r], team[r], amt[r]), hold' = [hold EXCEPT ![r] = amt[r]],
           user' = user, team' = team
    PROVE  ReservedIsOutstanding'
<1> SUFFICES ASSUME NEW a \in Accounts
             PROVE  row'[a].reserved = Total(HoldOn(a)')
    BY DEF ReservedIsOutstanding
<1>1. row[a] \in Row /\ row[a].reserved = Total(HoldOn(a)) /\ amt[r] \in Nat
    BY DEF TypeOK, ReservedIsOutstanding
<1>2. row'[a].reserved = IF a \in ScopeOf(r) THEN row[a].reserved + amt[r]
                         ELSE row[a].reserved
    BY <1>1 DEF AddHold, ScopeOf, Row
<1>3. Total(HoldOn(a)') = IF a \in ScopeOf(r) THEN Total(HoldOn(a)) - hold[r] + amt[r]
                          ELSE Total(HoldOn(a))
    BY <1>1, HeldChanges
<1>4. Total(HoldOn(a)) \in Nat
    BY HoldOnType, RequestsAssumption, TotalType
<1>q. QED
    BY <1>1, <1>2, <1>3, <1>4

\* A settlement or release takes exactly the request's own hold away: MAX(0,
\* ...) never cuts, because the columns cover each hold.
LEMMA ReservedAfterPost ==
    ASSUME TypeOK, ReservedIsOutstanding, NEW r \in Requests, hold[r] = amt[r],
           NEW c \in Nat, Post(user[r], team[r], c, amt[r]),
           hold' = [hold EXCEPT ![r] = 0], user' = user, team' = team
    PROVE  ReservedIsOutstanding'
<1> SUFFICES ASSUME NEW a \in Accounts
             PROVE  row'[a].reserved = Total(HoldOn(a)')
    BY DEF ReservedIsOutstanding
<1>1. row[a] \in Row /\ row[a].reserved = Total(HoldOn(a)) /\ amt[r] \in Nat
    BY DEF TypeOK, ReservedIsOutstanding
<1>2. Total(HoldOn(a)') = IF a \in ScopeOf(r) THEN Total(HoldOn(a)) - hold[r] + 0
                          ELSE Total(HoldOn(a))
    BY HeldChanges
<1>3. Total(HoldOn(a)) \in Nat
    BY HoldOnType, RequestsAssumption, TotalType
<1>4. CASE a \in ScopeOf(r)
    <2>1. amt[r] <= row[a].reserved
        BY <1>4, HoldBound
    <2>2. row'[a] = Posted(row[a], c, amt[r])
        BY <1>4 DEF Post, ScopeOf
    <2>3. row'[a].reserved = row[a].reserved - amt[r]
        BY <1>1, <2>1, <2>2 DEF Posted, Row
    <2>q. QED
        BY <1>1, <1>2, <1>3, <1>4, <2>3
<1>5. CASE a \notin ScopeOf(r)
    <2>1. row'[a] = row[a]
        BY <1>5 DEF Post, ScopeOf
    <2>q. QED
        BY <1>1, <1>2, <1>5, <2>1
<1>q. QED
    BY <1>4, <1>5

\* A step that leaves the holds and the reserved columns alone.
LEMMA ReservedStays ==
    ASSUME ReservedIsOutstanding, hold' = hold, user' = user, team' = team,
           \A a \in Accounts : row'[a].reserved = row[a].reserved
    PROVE  ReservedIsOutstanding'
<1> SUFFICES ASSUME NEW a \in Accounts
             PROVE  row'[a].reserved = Total(HoldOn(a)')
    BY DEF ReservedIsOutstanding
<1>1. Total(HoldOn(a)') = Total(HoldOn(a))
    BY HeldStays
<1>q. QED
    BY <1>1 DEF ReservedIsOutstanding

-----------------------------------------------------------------------------
(* The inductive invariant.  A release is exact only because the handler   *)
(* knows its hold, and a fallback only because its settlement did not      *)
(* commit: that is where a lost settlement reply would break it.           *)

NoStaleFallback == \A r \in Requests : phase[r] = "fallback" => ~settled[r]

IInv ==
    /\ TypeOK
    /\ HoldFollowsPhase
    /\ NoStaleFallback
    /\ ReservedIsOutstanding

LEMMA IInvInit == Init => IInv
<1> SUFFICES ASSUME Init PROVE IInv
    OBVIOUS
<1>1. TypeOK
    BY TypeInit
<1>2. HoldFollowsPhase /\ NoStaleFallback
    BY DEF Init, HoldFollowsPhase, NoStaleFallback
<1>3. ASSUME NEW a \in Accounts PROVE row[a].reserved = Total(HoldOn(a))
    <2>1. HoldOn(a) = [r \in Requests |-> 0]
        BY DEF Init, HoldOn
    <2>2. row[a].reserved = 0
        BY DEF Init, LedgerInit
    <2>q. QED
        BY <2>1, <2>2, TotalZero
<1>q. QED
    BY <1>1, <1>2, <1>3 DEF IInv, ReservedIsOutstanding

LEMMA StaleStep ==
    ASSUME "lost_settle" \notin Env, TypeOK, HoldFollowsPhase, NoStaleFallback, [Next]_vars
    PROVE  NoStaleFallback'
<1> USE DEF TypeOK, HoldFollowsPhase, NoStaleFallback
<1>1. ASSUME NEW r \in Requests, Step(r) PROVE NoStaleFallback'
    <2>1. CASE \/ Arrive(r) \/ LoopCheck(r) \/ Quote(r) \/ Unaffordable(r) \/ CheckFails(r)
               \/ ReserveFails(r) \/ ReserveDenied(r) \/ ReserveGranted(r) \/ ReserveUnheard(r)
        BY <2>1 DEF Arrive, LoopCheck, Quote, Unaffordable, CheckFails, Answered,
           ReserveFails, ReserveDenied, ReserveGranted, ReserveUnheard
    <2>2. CASE Join(r) \/ Complete(r) \/ Abort(r) \/ Release(r) \/ ReleaseFails(r)
        BY <2>2 DEF Join, Complete, Abort, Release, ReleaseFails
    <2>3. CASE Settle(r)
        BY <2>3 DEF Settle
    <2>4. CASE SettleFails(r)
        BY <2>4 DEF SettleFails
    <2>q. QED
        BY <1>1, <2>1, <2>2, <2>3, <2>4 DEF Step
<1>2. CASE Crash
    BY <1>2 DEF Crash
<1>3. CASE Admin
    BY <1>3 DEF Admin, reqVars
<1>4. CASE UNCHANGED vars
    BY <1>4 DEF vars, reqVars
<1>q. QED
    BY <1>1, <1>2, <1>3, <1>4 DEF Next

LEMMA ReservedStep ==
    ASSUME "lost_settle" \notin Env, IInv, [Next]_vars
    PROVE  ReservedIsOutstanding'
<1> USE DEF IInv
<1>1. ASSUME NEW r \in Requests, Step(r) PROVE ReservedIsOutstanding'
    <2>0. amt[r] \in Nat /\ cost[r] \in Nat
        BY DEF TypeOK
    <2>1. CASE \/ Arrive(r) \/ LoopCheck(r) \/ Quote(r) \/ Unaffordable(r) \/ CheckFails(r)
               \/ ReserveFails(r) \/ ReserveDenied(r) \/ Join(r) \/ Complete(r) \/ Abort(r)
               \/ SettleFails(r) \/ ReleaseFails(r)
        <3>1. UNCHANGED <<row, hold, user, team>>
            BY <2>1 DEF ledgerVars, Arrive, LoopCheck, Quote, Unaffordable, CheckFails,
               ReserveFails, ReserveDenied, Join, Complete, Abort, SettleFails, ReleaseFails
        <3>q. QED
            BY <3>1, ReservedStays
    <2>2. CASE ReserveGranted(r)
        <3>1. hold[r] = 0
            BY <2>2 DEF ReserveGranted, HoldFollowsPhase
        <3>q. QED
            BY <2>2, <3>1, ReservedAfterHold DEF ReserveGranted
    <2>3. CASE ReserveUnheard(r)
        <3>1. hold[r] = 0
            BY <2>3 DEF ReserveUnheard, HoldFollowsPhase
        <3>q. QED
            BY <2>3, <3>1, ReservedAfterHold DEF ReserveUnheard
    <2>4. CASE Settle(r)
        <3>1. hold[r] = amt[r]
            BY <2>4 DEF Settle, HoldFollowsPhase
        <3>q. QED
            BY <2>0, <2>4, <3>1, ReservedAfterPost DEF Settle, SettleReservedUsage
    <2>5. CASE Release(r)
        <3>1. hold[r] = amt[r]
            BY <2>5 DEF Release, HoldFollowsPhase, NoStaleFallback
        <3>q. QED
            BY <2>5, <3>1, ReservedAfterPost DEF Release, ReleaseReservation
    <2>q. QED
        BY <1>1, <2>1, <2>2, <2>3, <2>4, <2>5 DEF Step
<1>2. CASE Crash
    BY <1>2, ReservedStays DEF Crash, ledgerVars
<1>3. CASE Admin
    BY <1>3, AdminType, ReservedStays DEF TypeOK, Admin, reqVars
<1>4. CASE UNCHANGED vars
    BY <1>4, ReservedStays DEF vars, ledgerVars, reqVars
<1>q. QED
    BY <1>1, <1>2, <1>3, <1>4 DEF Next

LEMMA IInvStep ==
    ASSUME "lost_settle" \notin Env
    PROVE  IInv /\ [Next]_vars => IInv'
BY TypeStep, FollowStep, StaleStep, ReservedStep DEF IInv

LEMMA IInvHolds ==
    ASSUME "lost_settle" \notin Env
    PROVE  Spec => []IInv
<1>1. Init => IInv
    BY IInvInit
<1>2. IInv /\ [Next]_vars => IInv'
    BY IInvStep
<1>q. QED
    BY <1>1, <1>2, PTL DEF Spec

\* As long as no settlement reply is lost, every reserved_microusd column is
\* the sum of the outstanding holds on its row: crashes, hangups, lost
\* reservation replies, failed store calls, administrators and removals can
\* strand a hold but never touch another request's.
THEOREM ReservedCorrect ==
    ASSUME "lost_settle" \notin Env
    PROVE  Spec => []ReservedIsOutstanding
<1>1. IInv => ReservedIsOutstanding
    BY DEF IInv
<1>q. QED
    BY <1>1, IInvHolds, PTL

\* Under the same assumption every forwarded request stays covered on each
\* row it spends on until its own settlement.
THEOREM ForwardedBacked ==
    ASSUME "lost_settle" \notin Env
    PROVE  Spec => []ForwardedIsBacked
<1>1. IInv => ForwardedIsBacked
    <2> SUFFICES ASSUME IInv, NEW r \in Requests, phase[r] = "forwarded",
                        NEW a \in ScopeOf(r)
                 PROVE  row[a].reserved >= amt[r]
        BY DEF ForwardedIsBacked
    <2>1. hold[r] = amt[r] /\ amt[r] \in Nat
        BY DEF IInv, TypeOK, HoldFollowsPhase
    <2>2. hold[r] <= row[a].reserved /\ row[a] \in Row
        BY HoldBound DEF IInv, TypeOK
    <2>q. QED
        BY <2>1, <2>2 DEF Row
<1>q. QED
    BY <1>1, IInvHolds, PTL
-----------------------------------------------------------------------------
(* The spent columns *)

LEMMA BillOnType ==
    ASSUME TypeOK, NEW a
    PROVE  BillOn(a) \in [Requests -> Nat]
BY DEF TypeOK, BillOn

\* A first settlement adds its bill to the rows of its scope, and only there.
LEMMA BillAdded ==
    ASSUME TypeOK, NEW r \in Requests, NEW a, ~settled[r],
           settled' = [settled EXCEPT ![r] = TRUE], cost' = cost, user' = user, team' = team
    PROVE  Total(BillOn(a)') = IF a \in ScopeOf(r) THEN Total(BillOn(a)) + cost[r]
                               ELSE Total(BillOn(a))
<1>1. BillOn(a) \in [Requests -> Nat] /\ Total(BillOn(a)) \in Nat /\ cost[r] \in Nat
    BY BillOnType, RequestsAssumption, TotalType DEF TypeOK
<1>2. CASE a \in ScopeOf(r)
    <2>1. BillOn(a)' = [BillOn(a) EXCEPT ![r] = cost[r]]
        BY <1>2 DEF TypeOK, BillOn, ScopeOf
    <2>2. BillOn(a)[r] = 0
        BY DEF BillOn
    <2>3. Total([BillOn(a) EXCEPT ![r] = cost[r]]) = Total(BillOn(a)) - BillOn(a)[r] + cost[r]
        BY <1>1, RequestsAssumption, TotalUpdate
    <2>q. QED
        BY <1>1, <1>2, <2>1, <2>2, <2>3
<1>3. CASE a \notin ScopeOf(r)
    <2>1. BillOn(a)' = BillOn(a)
        BY <1>3 DEF TypeOK, BillOn, ScopeOf
    <2>q. QED
        BY <1>3, <2>1
<1>q. QED
    BY <1>2, <1>3

\* A step that settles nothing and changes no settled bill.
LEMMA SpentStays ==
    ASSUME SpentIsBilled, settled' = settled, user' = user, team' = team,
           \A q \in Requests : settled[q] => cost'[q] = cost[q],
           \A a \in Accounts : row'[a].spent = row[a].spent
    PROVE  SpentIsBilled'
<1> SUFFICES ASSUME NEW a \in Accounts
             PROVE  row'[a].spent = Total(BillOn(a)')
    BY DEF SpentIsBilled
<1>1. BillOn(a)' = BillOn(a)
    BY DEF BillOn, ScopeOf
<1>q. QED
    BY <1>1 DEF SpentIsBilled

\* Reserving leaves the spent columns alone; posting adds the charge.
LEMMA SpentAfterHold ==
    ASSUME TypeOK, NEW u, NEW t, NEW n \in Nat, AddHold(u, t, n), NEW a \in Accounts
    PROVE  row'[a].spent = row[a].spent
BY DEF TypeOK, AddHold, Row

LEMMA SpentAfterPost ==
    ASSUME TypeOK, NEW u, NEW t, NEW c \in Nat, NEW n \in Nat, Post(u, t, c, n),
           NEW a \in Accounts
    PROVE  row'[a].spent = IF a \in Scope(u, t) THEN row[a].spent + c ELSE row[a].spent
<1>1. row[a] \in Row
    BY DEF TypeOK
<1>2. row'[a] = IF a \in Scope(u, t) THEN Posted(row[a], c, n) ELSE row[a]
    BY DEF Post
<1>3. Posted(row[a], c, n).spent = row[a].spent + c
    BY <1>1 DEF Posted, Row
<1>q. QED
    BY <1>2, <1>3

LEMMA SpentStep ==
    ASSUME "reset" \notin Env, TypeOK, HoldFollowsPhase, SpentIsBilled, [Next]_vars
    PROVE  SpentIsBilled'
<1>1. ASSUME NEW r \in Requests, Step(r) PROVE SpentIsBilled'
    <2>0. amt[r] \in Nat /\ cost[r] \in Nat
        BY DEF TypeOK
    <2>1. CASE \/ Arrive(r) \/ LoopCheck(r) \/ Quote(r) \/ Unaffordable(r) \/ CheckFails(r)
               \/ ReserveFails(r) \/ ReserveDenied(r) \/ Join(r) \/ Abort(r)
               \/ SettleFails(r) \/ ReleaseFails(r)
        <3>1. UNCHANGED <<row, settled, cost, user, team>>
            BY <2>1 DEF ledgerVars, Arrive, LoopCheck, Quote, Unaffordable, CheckFails,
               ReserveFails, ReserveDenied, Join, Abort, SettleFails, ReleaseFails
        <3>q. QED
            BY <3>1, SpentStays
    <2>2. CASE Complete(r)
        <3>1. ~settled[r]
            BY <2>2 DEF Complete, HoldFollowsPhase
        <3>2. PICK c \in Costs : cost' = [cost EXCEPT ![r] = c]
            BY <2>2 DEF Complete
        <3>3. \A q \in Requests : settled[q] => cost'[q] = cost[q]
            BY <3>1, <3>2 DEF TypeOK
        <3>q. QED
            BY <2>2, <3>3, SpentStays DEF Complete, ledgerVars
    <2>3. CASE ReserveGranted(r)
        BY <2>0, <2>3, SpentAfterHold, SpentStays DEF ReserveGranted
    <2>4. CASE ReserveUnheard(r)
        BY <2>0, <2>4, SpentAfterHold, SpentStays DEF ReserveUnheard
    <2>5. CASE Settle(r)
        <3>1. ~settled[r]
            BY <2>5 DEF Settle, HoldFollowsPhase
        <3>2. ASSUME NEW a \in Accounts PROVE row'[a].spent = Total(BillOn(a)')
            <4>1. row'[a].spent = IF a \in ScopeOf(r) THEN row[a].spent + cost[r]
                                  ELSE row[a].spent
                BY <2>0, <2>5, SpentAfterPost DEF Settle, SettleReservedUsage, ScopeOf
            <4>2. Total(BillOn(a)') = IF a \in ScopeOf(r) THEN Total(BillOn(a)) + cost[r]
                                      ELSE Total(BillOn(a))
                BY <2>5, <3>1, BillAdded DEF Settle
            <4>q. QED
                BY <4>1, <4>2 DEF SpentIsBilled
        <3>q. QED
            BY <3>2 DEF SpentIsBilled
    <2>6. CASE Release(r)
        <3>1. ASSUME NEW a \in Accounts PROVE row'[a].spent = row[a].spent
            <4>1. row'[a].spent = IF a \in ScopeOf(r) THEN row[a].spent + 0 ELSE row[a].spent
                BY <2>0, <2>6, SpentAfterPost DEF Release, ReleaseReservation, ScopeOf
            <4>2. row[a].spent \in Nat
                BY DEF TypeOK, Row
            <4>q. QED
                BY <4>1, <4>2
        <3>q. QED
            BY <2>6, <3>1, SpentStays DEF Release
    <2>q. QED
        BY <1>1, <2>1, <2>2, <2>3, <2>4, <2>5, <2>6 DEF Step
<1>2. CASE Crash
    BY <1>2, SpentStays DEF Crash, ledgerVars
<1>3. CASE Admin
    <2>1. \A a \in Accounts : row'[a].spent = row[a].spent
        BY <1>3, AdminType DEF TypeOK
    <2>q. QED
        BY <1>3, <2>1, SpentStays DEF Admin, reqVars
<1>4. CASE UNCHANGED vars
    BY <1>4, SpentStays DEF vars, ledgerVars, reqVars
<1>q. QED
    BY <1>1, <1>2, <1>3, <1>4 DEF Next

\* While no administrator resets spending, every spent_microusd column is the
\* sum of the settled bills of its scope: a request is charged at most once,
\* on every row it spends on, even when the reply of its settlement is lost.
THEOREM SpentCorrect ==
    ASSUME "reset" \notin Env
    PROVE  Spec => []SpentIsBilled
<1>1. Init => SpentIsBilled
    <2> SUFFICES ASSUME Init, NEW a \in Accounts
                 PROVE  row[a].spent = Total(BillOn(a))
        BY DEF SpentIsBilled
    <2>1. BillOn(a) = [r \in Requests |-> 0]
        BY DEF Init, BillOn
    <2>2. row[a].spent = 0
        BY DEF Init, LedgerInit
    <2>q. QED
        BY <2>1, <2>2, TotalZero
<1>2. TypeOK /\ HoldFollowsPhase /\ SpentIsBilled /\ [Next]_vars => SpentIsBilled'
    BY SpentStep
<1>q. QED
    BY <1>1, <1>2, TypeCorrect, HoldsFollowPhases, PTL DEF Spec
-----------------------------------------------------------------------------
(* Limits *)

LEMMA OverrunOnType ==
    ASSUME TypeOK, NEW a
    PROVE  OverrunOn(a) \in [Requests -> Nat] /\ Total(OverrunOn(a)) \in Nat
<1>1. OverrunOn(a) \in [Requests -> Nat]
    BY DEF TypeOK, OverrunOn
<1>q. QED
    BY <1>1, RequestsAssumption, TotalType

\* A first settlement adds what it was billed beyond its reservation.
LEMMA OverrunAdded ==
    ASSUME TypeOK, NEW r \in Requests, NEW a \in ScopeOf(r), ~settled[r],
           settled' = [settled EXCEPT ![r] = TRUE], cost' = cost, amt' = amt,
           user' = user, team' = team
    PROVE  Total(OverrunOn(a)') =
              Total(OverrunOn(a)) + (IF cost[r] > amt[r] THEN cost[r] - amt[r] ELSE 0)
<1> DEFINE over == IF cost[r] > amt[r] THEN cost[r] - amt[r] ELSE 0
<1>1. over \in Nat
    BY DEF TypeOK
<1>2. OverrunOn(a)' = [OverrunOn(a) EXCEPT ![r] = over]
    BY DEF TypeOK, OverrunOn, ScopeOf
<1>3. OverrunOn(a)[r] = 0
    BY DEF OverrunOn
<1> HIDE DEF over
<1>4. Total([OverrunOn(a) EXCEPT ![r] = over]) = Total(OverrunOn(a)) - OverrunOn(a)[r] + over
    BY <1>1, OverrunOnType, RequestsAssumption, TotalUpdate
<1>5. Total(OverrunOn(a)') = Total(OverrunOn(a)) + over
    BY <1>1, <1>2, <1>3, <1>4, OverrunOnType
<1>q. QED
    BY <1>5 DEF over

\* A step that settles nothing on row a.
LEMMA OverrunStays ==
    ASSUME user' = user, team' = team, NEW a,
           \A q \in Requests : a \in ScopeOf(q) => settled'[q] = settled[q],
           \A q \in Requests : settled[q] => cost'[q] = cost[q] /\ amt'[q] = amt[q]
    PROVE  Total(OverrunOn(a)') = Total(OverrunOn(a))
<1>1. OverrunOn(a)' = OverrunOn(a)
    BY DEF OverrunOn, ScopeOf
<1>q. QED
    BY <1>1

SolventOn(a) == row[a].spent + row[a].reserved <= row[a].limit + Total(OverrunOn(a))

LEMMA SolventStays ==
    ASSUME Solvent, row' = row, user' = user, team' = team, settled' = settled,
           \A q \in Requests : settled[q] => cost'[q] = cost[q] /\ amt'[q] = amt[q]
    PROVE  Solvent'
<1> SUFFICES ASSUME NEW a \in Accounts PROVE SolventOn(a)'
    BY DEF Solvent, SolventOn
<1>1. Total(OverrunOn(a)') = Total(OverrunOn(a))
    BY OverrunStays
<1>q. QED
    BY <1>1 DEF Solvent, SolventOn

\* ReserveBudget grants only what every row of the scope has left.
LEMMA SolventAfterHold ==
    ASSUME TypeOK, Solvent, NEW r \in Requests, Reservable(user[r], team[r], amt[r]),
           AddHold(user[r], team[r], amt[r]),
           user' = user, team' = team, settled' = settled,
           \A q \in Requests : settled[q] => cost'[q] = cost[q] /\ amt'[q] = amt[q]
    PROVE  Solvent'
<1> SUFFICES ASSUME NEW a \in Accounts PROVE SolventOn(a)'
    BY DEF Solvent, SolventOn
<1>1. Total(OverrunOn(a)') = Total(OverrunOn(a)) /\ Total(OverrunOn(a)) \in Nat
    BY OverrunStays, OverrunOnType
<1>2. row[a] \in Row /\ amt[r] \in Nat
    BY DEF TypeOK
<1>3. CASE a \in ScopeOf(r)
    <2>1. row[a].limit - row[a].spent - row[a].reserved >= amt[r]
        BY <1>2, <1>3 DEF Reservable, CanCover, Available, ScopeOf, Row
    <2>2. row'[a] = [row[a] EXCEPT !.reserved = @ + amt[r]]
        BY <1>3 DEF AddHold, ScopeOf
    <2>3. /\ row'[a].limit = row[a].limit
          /\ row'[a].spent = row[a].spent
          /\ row'[a].reserved = row[a].reserved + amt[r]
        BY <1>2, <2>2 DEF Row
    <2>q. QED
        BY <1>1, <1>2, <2>1, <2>3 DEF SolventOn, Row
<1>4. CASE a \notin ScopeOf(r)
    <2>1. row'[a] = row[a]
        BY <1>4 DEF AddHold, ScopeOf
    <2>q. QED
        BY <1>1, <2>1 DEF Solvent, SolventOn
<1>q. QED
    BY <1>3, <1>4

\* Posting c against the request's own hold moves spent + reserved by the
\* difference of the two.
LEMMA RowAfterPost ==
    ASSUME IInv, NEW r \in Requests, hold[r] = amt[r], NEW c \in Nat,
           Post(user[r], team[r], c, amt[r]), NEW a \in ScopeOf(r)
    PROVE  /\ row'[a].limit = row[a].limit
           /\ row'[a].spent = row[a].spent + c
           /\ row'[a].reserved = row[a].reserved - amt[r]
<1>1. a \in Accounts /\ amt[r] <= row[a].reserved
    BY HoldBound DEF IInv
<1>2. row[a] \in Row /\ amt[r] \in Nat
    BY <1>1 DEF IInv, TypeOK
<1>3. row'[a] = Posted(row[a], c, amt[r])
    BY <1>1 DEF Post, ScopeOf
<1>q. QED
    BY <1>1, <1>2, <1>3 DEF Posted, Row

LEMMA SolventStep ==
    ASSUME "lost_settle" \notin Env, "limit" \notin Env, "reset" \notin Env,
           IInv, Solvent, [Next]_vars
    PROVE  Solvent'
<1> USE DEF IInv
<1>1. ASSUME NEW r \in Requests, Step(r) PROVE Solvent'
    <2>0. amt[r] \in Nat /\ cost[r] \in Nat
        BY DEF TypeOK
    <2>1. CASE \/ Arrive(r) \/ LoopCheck(r) \/ Unaffordable(r) \/ CheckFails(r)
               \/ Join(r) \/ Abort(r) \/ SettleFails(r) \/ ReleaseFails(r)
        <3>1. UNCHANGED <<row, settled, cost, amt, user, team>>
            BY <2>1 DEF ledgerVars, Arrive, LoopCheck, Unaffordable, CheckFails,
               Join, Abort, SettleFails, ReleaseFails
        <3>q. QED
            BY <3>1, SolventStays
    <2>2. CASE Quote(r) \/ ReserveDenied(r) \/ ReserveFails(r) \/ Complete(r)
        <3>1. ~settled[r]
            BY <2>2 DEF Quote, ReserveDenied, ReserveFails, Complete, HoldFollowsPhase
        <3>2. UNCHANGED <<row, user, team, settled>>
            BY <2>2 DEF ledgerVars, Quote, ReserveDenied, ReserveFails, Complete, Answered
        <3>3. \A q \in Requests : q # r => cost'[q] = cost[q] /\ amt'[q] = amt[q]
            BY <2>2 DEF Quote, ReserveDenied, ReserveFails, Complete, Answered, TypeOK
        <3>q. QED
            BY <3>1, <3>2, <3>3, SolventStays
    <2>3. CASE ReserveGranted(r)
        BY <2>3, SolventAfterHold DEF ReserveGranted
    <2>4. CASE ReserveUnheard(r)
        <3>1. ~settled[r]
            BY <2>4 DEF ReserveUnheard, HoldFollowsPhase
        <3>2. \A q \in Requests : settled[q] => cost'[q] = cost[q] /\ amt'[q] = amt[q]
            BY <2>4, <3>1 DEF ReserveUnheard, TypeOK
        <3>q. QED
            BY <2>4, <3>2, SolventAfterHold DEF ReserveUnheard
    <2>5. CASE Settle(r)
        <3> SUFFICES ASSUME NEW a \in Accounts PROVE SolventOn(a)'
            BY DEF Solvent, SolventOn
        <3>1. hold[r] = amt[r] /\ ~settled[r]
            BY <2>5 DEF Settle, HoldFollowsPhase
        <3>2. Post(user[r], team[r], cost[r], amt[r])
            BY <2>5 DEF Settle, SettleReservedUsage
        <3>3. row[a] \in Row /\ Total(OverrunOn(a)) \in Nat
            BY OverrunOnType DEF TypeOK
        <3>4. CASE a \in ScopeOf(r)
            <4>1. /\ row'[a].limit = row[a].limit
                  /\ row'[a].spent = row[a].spent + cost[r]
                  /\ row'[a].reserved = row[a].reserved - amt[r]
                BY <2>0, <3>1, <3>2, <3>4, RowAfterPost
            <4>2. Total(OverrunOn(a)') =
                    Total(OverrunOn(a)) + (IF cost[r] > amt[r] THEN cost[r] - amt[r] ELSE 0)
                BY <2>5, <3>1, <3>4, OverrunAdded DEF Settle
            <4>3. row[a].spent + row[a].reserved <= row[a].limit + Total(OverrunOn(a))
                BY DEF Solvent
            <4>q. QED
                BY <2>0, <3>3, <4>1, <4>2, <4>3 DEF SolventOn, Row
        <3>5. CASE a \notin ScopeOf(r)
            <4>1. row'[a] = row[a]
                BY <3>2, <3>5 DEF Post, ScopeOf
            <4>2. \A q \in Requests : a \in ScopeOf(q) => settled'[q] = settled[q]
                BY <2>5, <3>5 DEF Settle, TypeOK
            <4>3. Total(OverrunOn(a)') = Total(OverrunOn(a))
                BY <2>5, <4>2, OverrunStays DEF Settle
            <4>q. QED
                BY <4>1, <4>3 DEF Solvent, SolventOn
        <3>q. QED
            BY <3>4, <3>5
    <2>6. CASE Release(r)
        <3> SUFFICES ASSUME NEW a \in Accounts PROVE SolventOn(a)'
            BY DEF Solvent, SolventOn
        <3>1. hold[r] = amt[r]
            BY <2>6 DEF Release, HoldFollowsPhase, NoStaleFallback
        <3>2. Post(user[r], team[r], 0, amt[r])
            BY <2>6 DEF Release, ReleaseReservation
        <3>3. row[a] \in Row /\ Total(OverrunOn(a)) \in Nat
            BY OverrunOnType DEF TypeOK
        <3>4. Total(OverrunOn(a)') = Total(OverrunOn(a))
            BY <2>6, OverrunStays DEF Release
        <3>5. row[a].spent + row[a].reserved <= row[a].limit + Total(OverrunOn(a))
            BY DEF Solvent
        <3>6. CASE a \in ScopeOf(r)
            <4>1. /\ row'[a].limit = row[a].limit
                  /\ row'[a].spent = row[a].spent + 0
                  /\ row'[a].reserved = row[a].reserved - amt[r]
                BY <3>1, <3>2, <3>6, RowAfterPost
            <4>q. QED
                BY <2>0, <3>3, <3>4, <3>5, <4>1 DEF SolventOn, Row
        <3>7. CASE a \notin ScopeOf(r)
            <4>1. row'[a] = row[a]
                BY <3>2, <3>7 DEF Post, ScopeOf
            <4>q. QED
                BY <3>4, <3>5, <4>1 DEF SolventOn
        <3>q. QED
            BY <3>6, <3>7
    <2>q. QED
        BY <1>1, <2>1, <2>2, <2>3, <2>4, <2>5, <2>6 DEF Step
<1>2. CASE Crash
    BY <1>2, SolventStays DEF Crash, ledgerVars
<1>3. CASE Admin
    BY <1>3, SolventStays DEF Admin, RemoveTeamMember, reqVars
<1>4. CASE UNCHANGED vars
    BY <1>4, SolventStays DEF vars, ledgerVars, reqVars
<1>q. QED
    BY <1>1, <1>2, <1>3, <1>4 DEF Next

\* While limits stand, no interleaving of admissions takes a user, a cap or a
\* pool past its limit: only what a provider bills beyond a reservation does.
THEOREM SolventAlways ==
    ASSUME "lost_settle" \notin Env, "limit" \notin Env, "reset" \notin Env
    PROVE  Spec => []Solvent
<1>1. Init => Solvent
    <2> SUFFICES ASSUME Init, NEW a \in Accounts PROVE SolventOn(a)
        BY DEF Solvent, SolventOn
    <2>1. OverrunOn(a) = [r \in Requests |-> 0]
        BY DEF Init, OverrunOn
    <2>2. row[a].spent = 0 /\ row[a].reserved = 0 /\ row[a].limit \in Nat
        BY StartLimitAssumption DEF Init, LedgerInit
    <2>q. QED
        BY <2>1, <2>2, TotalZero DEF SolventOn
<1>2. IInv /\ Solvent /\ [Next]_vars => Solvent'
    BY SolventStep
<1>q. QED
    BY <1>1, <1>2, IInvHolds, PTL DEF Spec
-----------------------------------------------------------------------------
(* Pools and memberships *)

MembersSpent(t) == [u \in Users |-> row[<<t, u>>].spent]
MembersReserved(t) == [u \in Users |-> row[<<t, u>>].reserved]

LEMMA MembersType ==
    ASSUME TypeOK, NEW t \in Teams
    PROVE  MembersSpent(t) \in [Users -> Nat] /\ MembersReserved(t) \in [Users -> Nat]
BY DEF TypeOK, Accounts, Row, MembersSpent, MembersReserved

\* Which rows of a team belong to the scope of a request.
LEMMA TeamRowsInScope ==
    ASSUME NEW u \in Users, NEW x \in Teams \cup {NoTeam}, NEW t \in Teams
    PROVE  /\ t \in Scope(u, x) <=> x = t
           /\ \A v \in Users : <<t, v>> \in Scope(u, x) <=> x = t /\ v = u
BY NoTeamAssumption, TablesAssumption DEF Scope

\* A step that moves the spent and the reserved column of every row of a
\* scope by the same amounts keeps the pools the sums of their memberships.
LEMMA PoolMoves ==
    ASSUME TypeOK, PoolIsMembers, row' \in [Accounts -> Row],
           NEW u \in Users, NEW x \in Teams \cup {NoTeam}, NEW paid \in Int, NEW held \in Int,
           \A a \in Scope(u, x) : /\ row'[a].spent = row[a].spent + paid
                                  /\ row'[a].reserved = row[a].reserved + held,
           \A a \in Accounts \ Scope(u, x) : row'[a] = row[a]
    PROVE  PoolIsMembers'
<1> SUFFICES ASSUME NEW t \in Teams
             PROVE  /\ row'[t].spent = Total(MembersSpent(t)')
                    /\ row'[t].reserved = Total(MembersReserved(t)')
    BY DEF PoolIsMembers, MembersSpent, MembersReserved
<1>1. t \in Accounts /\ \A v \in Users : <<t, v>> \in Accounts
    BY DEF Accounts
<1>2. row[t].spent = Total(MembersSpent(t)) /\ row[t].reserved = Total(MembersReserved(t))
    BY DEF PoolIsMembers, MembersSpent, MembersReserved
<1>3. row[t] \in Row /\ row[<<t, u>>] \in Row /\ row'[<<t, u>>] \in Row
    BY <1>1 DEF TypeOK
<1>4. CASE x = t
    <2>1. t \in Scope(u, x) /\ <<t, u>> \in Scope(u, x)
          /\ \A v \in Users : v # u => <<t, v>> \notin Scope(u, x)
        BY <1>4, TeamRowsInScope
    <2> DEFINE s == row'[<<t, u>>].spent
               h == row'[<<t, u>>].reserved
    <2>2. s \in Nat /\ h \in Nat
        BY <1>3 DEF Row
    <2>3. s = row[<<t, u>>].spent + paid /\ h = row[<<t, u>>].reserved + held
        BY <2>1
    <2>4. \A v \in Users : v # u => row'[<<t, v>>] = row[<<t, v>>]
        BY <1>1, <2>1
    <2>5. MembersSpent(t)' = [MembersSpent(t) EXCEPT ![u] = s]
        BY <2>4 DEF MembersSpent
    <2>6. MembersReserved(t)' = [MembersReserved(t) EXCEPT ![u] = h]
        BY <2>4 DEF MembersReserved
    <2>7. MembersSpent(t)[u] = row[<<t, u>>].spent
          /\ MembersReserved(t)[u] = row[<<t, u>>].reserved
        BY DEF MembersSpent, MembersReserved
    <2> HIDE DEF s, h
    <2>8. /\ Total([MembersSpent(t) EXCEPT ![u] = s])
                = Total(MembersSpent(t)) - MembersSpent(t)[u] + s
          /\ Total([MembersReserved(t) EXCEPT ![u] = h])
                = Total(MembersReserved(t)) - MembersReserved(t)[u] + h
        BY <2>2, MembersType, UsersAssumption, TotalUpdate
    <2>9. row'[t].spent = row[t].spent + paid /\ row'[t].reserved = row[t].reserved + held
        BY <2>1
    <2>q. QED
        BY <1>2, <1>3, <2>3, <2>5, <2>6, <2>7, <2>8, <2>9 DEF Row
<1>5. CASE x # t
    <2>1. t \notin Scope(u, x) /\ \A v \in Users : <<t, v>> \notin Scope(u, x)
        BY <1>5, TeamRowsInScope
    <2>2. row'[t] = row[t] /\ \A v \in Users : row'[<<t, v>>] = row[<<t, v>>]
        BY <1>1, <2>1
    <2>3. MembersSpent(t)' = MembersSpent(t) /\ MembersReserved(t)' = MembersReserved(t)
        BY <2>2 DEF MembersSpent, MembersReserved
    <2>q. QED
        BY <1>2, <2>2, <2>3
<1>q. QED
    BY <1>4, <1>5

\* A step that leaves those columns of pools and memberships alone.
LEMMA PoolStays ==
    ASSUME PoolIsMembers,
           \A a \in Accounts \ Users : /\ row'[a].spent = row[a].spent
                                       /\ row'[a].reserved = row[a].reserved
    PROVE  PoolIsMembers'
<1> SUFFICES ASSUME NEW t \in Teams
             PROVE  /\ row'[t].spent = Total(MembersSpent(t)')
                    /\ row'[t].reserved = Total(MembersReserved(t)')
    BY DEF PoolIsMembers, MembersSpent, MembersReserved
<1>1. t \in Accounts \ Users /\ \A v \in Users : <<t, v>> \in Accounts \ Users
    BY TablesAssumption DEF Accounts
<1>2. MembersSpent(t)' = MembersSpent(t) /\ MembersReserved(t)' = MembersReserved(t)
    BY <1>1 DEF MembersSpent, MembersReserved
<1>q. QED
    BY <1>1, <1>2 DEF PoolIsMembers, MembersSpent, MembersReserved

LEMMA PoolAfterHold ==
    ASSUME TypeOK, PoolIsMembers, NEW r \in Requests, AddHold(user[r], team[r], amt[r])
    PROVE  PoolIsMembers'
<1>1. user[r] \in Users /\ team[r] \in Teams \cup {NoTeam} /\ amt[r] \in Nat
    BY DEF TypeOK
<1>2. row' \in [Accounts -> Row]
    BY <1>1, AddHoldType DEF TypeOK
<1>3. ASSUME NEW a \in Scope(user[r], team[r])
      PROVE  row'[a].spent = row[a].spent + 0 /\ row'[a].reserved = row[a].reserved + amt[r]
    <2>1. a \in Accounts /\ row[a] \in Row
        BY <1>1, ScopeType DEF TypeOK
    <2>2. row'[a] = [row[a] EXCEPT !.reserved = @ + amt[r]]
        BY <2>1 DEF AddHold
    <2>q. QED
        BY <2>1, <2>2 DEF Row
<1>4. \A a \in Accounts \ Scope(user[r], team[r]) : row'[a] = row[a]
    BY DEF AddHold
<1>q. QED
    BY <1>1, <1>2, <1>3, <1>4, PoolMoves

\* Both UPDATEs of a team's settlement subtract the whole hold: neither
\* MAX(0, ...) cuts.
LEMMA PoolAfterPost ==
    ASSUME IInv, PoolIsMembers, NEW r \in Requests, hold[r] = amt[r], NEW c \in Nat,
           Post(user[r], team[r], c, amt[r])
    PROVE  PoolIsMembers'
<1>1. user[r] \in Users /\ team[r] \in Teams \cup {NoTeam} /\ amt[r] \in Nat
    BY DEF IInv, TypeOK
<1>2. row' \in [Accounts -> Row]
    BY <1>1, PostType DEF IInv, TypeOK
<1>3. ASSUME NEW a \in Scope(user[r], team[r])
      PROVE  row'[a].spent = row[a].spent + c /\ row'[a].reserved = row[a].reserved + (0 - amt[r])
    <2>1. a \in Accounts /\ row[a] \in Row
        BY <1>1, ScopeType DEF IInv, TypeOK
    <2>2. row'[a].spent = row[a].spent + c /\ row'[a].reserved = row[a].reserved - amt[r]
        BY RowAfterPost DEF ScopeOf
    <2>q. QED
        BY <1>1, <2>1, <2>2 DEF Row
<1>4. \A a \in Accounts \ Scope(user[r], team[r]) : row'[a] = row[a]
    BY DEF Post
<1>5. c \in Int /\ 0 - amt[r] \in Int
    BY <1>1
<1>q. QED
    BY <1>1, <1>2, <1>3, <1>4, <1>5, PoolMoves DEF IInv

LEMMA PoolStep ==
    ASSUME "lost_settle" \notin Env, IInv, PoolIsMembers, [Next]_vars
    PROVE  PoolIsMembers'
<1> USE DEF IInv
<1>1. ASSUME NEW r \in Requests, Step(r) PROVE PoolIsMembers'
    <2>0. amt[r] \in Nat /\ cost[r] \in Nat
        BY DEF TypeOK
    <2>1. CASE \/ Arrive(r) \/ LoopCheck(r) \/ Quote(r) \/ Unaffordable(r) \/ CheckFails(r)
               \/ ReserveFails(r) \/ ReserveDenied(r) \/ Join(r) \/ Complete(r) \/ Abort(r)
               \/ SettleFails(r) \/ ReleaseFails(r)
        <3>1. row' = row
            BY <2>1 DEF ledgerVars, Arrive, LoopCheck, Quote, Unaffordable, CheckFails,
               ReserveFails, ReserveDenied, Join, Complete, Abort, SettleFails, ReleaseFails
        <3>q. QED
            BY <3>1, PoolStays
    <2>2. CASE ReserveGranted(r)
        BY <2>2, PoolAfterHold DEF ReserveGranted
    <2>3. CASE ReserveUnheard(r)
        BY <2>3, PoolAfterHold DEF ReserveUnheard
    <2>4. CASE Settle(r)
        <3>1. hold[r] = amt[r]
            BY <2>4 DEF Settle, HoldFollowsPhase
        <3>q. QED
            BY <2>0, <2>4, <3>1, PoolAfterPost DEF Settle, SettleReservedUsage
    <2>5. CASE Release(r)
        <3>1. hold[r] = amt[r]
            BY <2>5 DEF Release, HoldFollowsPhase, NoStaleFallback
        <3>q. QED
            BY <2>5, <3>1, PoolAfterPost DEF Release, ReleaseReservation
    <2>q. QED
        BY <1>1, <2>1, <2>2, <2>3, <2>4, <2>5 DEF Step
<1>2. CASE Crash
    BY <1>2, PoolStays DEF Crash, ledgerVars
<1>3. CASE Admin
    <2>1. \A a \in Accounts \ Users : row'[a].spent = row[a].spent
                                      /\ row'[a].reserved = row[a].reserved
        BY <1>3, AdminType DEF TypeOK
    <2>q. QED
        BY <2>1, PoolStays
<1>4. CASE UNCHANGED vars
    BY <1>4, PoolStays DEF vars, ledgerVars
<1>q. QED
    BY <1>1, <1>2, <1>3, <1>4 DEF Next

\* As long as no settlement reply is lost, a pool row is the sum of its
\* membership rows for any team, however its members' requests interleave,
\* fail or die and whoever is removed: the two UPDATEs of a team transaction
\* never drift apart, and a reset touches neither.
THEOREM PoolsAddUp ==
    ASSUME "lost_settle" \notin Env
    PROVE  Spec => []PoolIsMembers
<1>1. Init => PoolIsMembers
    <2> SUFFICES ASSUME Init, NEW t \in Teams
                 PROVE  /\ row[t].spent = Total(MembersSpent(t))
                        /\ row[t].reserved = Total(MembersReserved(t))
        BY DEF PoolIsMembers, MembersSpent, MembersReserved
    <2>1. t \in Accounts /\ \A v \in Users : <<t, v>> \in Accounts
        BY DEF Accounts
    <2>2. MembersSpent(t) = [v \in Users |-> 0] /\ MembersReserved(t) = [v \in Users |-> 0]
        BY <2>1 DEF Init, LedgerInit, MembersSpent, MembersReserved
    <2>3. row[t].spent = 0 /\ row[t].reserved = 0
        BY <2>1 DEF Init, LedgerInit
    <2>q. QED
        BY <2>2, <2>3, TotalZero
<1>2. IInv /\ PoolIsMembers /\ [Next]_vars => PoolIsMembers'
    BY PoolStep
<1>q. QED
    BY <1>1, <1>2, IInvHolds, PTL DEF Spec

-----------------------------------------------------------------------------
(* Finished requests *)

\* The scope a hold was taken under still resolves until the hold is given
\* back: no settlement or release is refused.
HoldersResolve ==
    \A r \in Requests :
        phase[r] \in {"granted", "forwarded", "settle", "fallback", "release"} => Resolves(r)

\* Nothing in Env strands a hold: the store answers, no exchange or process
\* dies and nobody is removed.
NothingStrands == Env \cap {"error", "lost_reserve", "abort", "crash", "remove"} = {}

LEMMA FinishStep ==
    ASSUME NothingStrands, TypeOK, HoldFollowsPhase, HoldersResolve, FinishedHoldsNothing,
           [Next]_vars
    PROVE  HoldersResolve' /\ FinishedHoldsNothing'
<1> USE DEF NothingStrands, TypeOK, HoldFollowsPhase, HoldersResolve, FinishedHoldsNothing
<1> DEFINE Goal == HoldersResolve' /\ FinishedHoldsNothing'
<1>0. ASSUME active' = active, user' = user, team' = team, NEW r \in Requests
      PROVE  Resolves(r)' <=> Resolves(r)
    BY <1>0 DEF Resolves, InScope
<1>1. ASSUME NEW r \in Requests, Step(r) PROVE Goal
    <2>1. CASE Arrive(r) \/ LoopCheck(r) \/ Quote(r) \/ Unaffordable(r) \/ CheckFails(r)
        BY <1>0, <2>1 DEF ledgerVars, Arrive, LoopCheck, Quote, Unaffordable, CheckFails,
           Answered
    <2>2. CASE ReserveGranted(r)
        <3>1. Resolves(r) /\ active' = active
            BY <2>2 DEF ReserveGranted, Reservable, Resolves, AddHold
        <3>q. QED
            BY <1>0, <2>2, <3>1 DEF ReserveGranted
    <2>3. CASE ReserveDenied(r) \/ ReserveFails(r)
        BY <1>0, <2>3 DEF ledgerVars, ReserveDenied, ReserveFails, Answered
    <2>4. CASE Join(r)
        BY <1>0, <2>4 DEF ledgerVars, Join
    <2>5. CASE Complete(r)
        BY <1>0, <2>5 DEF ledgerVars, Complete
    <2>6. CASE Settle(r)
        <3>1. active' = active
            BY <2>6 DEF Settle, SettleReservedUsage, Post
        <3>q. QED
            BY <1>0, <2>6, <3>1 DEF Settle
    <2>7. CASE Release(r)
        <3>1. active' = active
            BY <2>7 DEF Release, ReleaseReservation, Post
        <3>q. QED
            BY <1>0, <2>7, <3>1 DEF Release
    <2>8. ~ReserveUnheard(r) /\ ~Abort(r)
        BY DEF ReserveUnheard, Abort
    <2>9. CASE SettleFails(r)
        BY <2>9 DEF SettleFails
    <2>10. CASE ReleaseFails(r)
        BY <2>10 DEF ReleaseFails
    <2>q. QED
        BY <1>1, <2>1, <2>2, <2>3, <2>4, <2>5, <2>6, <2>7, <2>8, <2>9, <2>10 DEF Step
<1>2. ~Crash
    BY DEF Crash
<1>3. CASE Admin
    <2>1. active' = active
        BY <1>3 DEF Admin, UpdateUserBudget, UpdateTeamBudget, UpdateTeamMemberCap
    <2>q. QED
        BY <1>0, <1>3, <2>1 DEF Admin, reqVars
<1>4. CASE UNCHANGED vars
    BY <1>0, <1>4 DEF vars, ledgerVars, reqVars
<1>q. QED
    BY <1>1, <1>2, <1>3, <1>4 DEF Next

\* Where the store answers, nobody is removed and no exchange or process
\* dies, a finished request holds nothing, for any set of requests and even
\* when the reply of its settlement is lost.  The runs removal and hangup
\* show that a removal or a hangup alone is enough to break it.
THEOREM FinishedAreFree ==
    ASSUME NothingStrands
    PROVE  Spec => []FinishedHoldsNothing
<1>1. Init => HoldersResolve /\ FinishedHoldsNothing
    BY DEF Init, HoldersResolve, FinishedHoldsNothing
<1>2. TypeOK /\ HoldFollowsPhase /\ HoldersResolve /\ FinishedHoldsNothing /\ [Next]_vars
         => HoldersResolve' /\ FinishedHoldsNothing'
    BY FinishStep
<1>q. QED
    BY <1>1, <1>2, TypeCorrect, HoldsFollowPhases, PTL DEF Spec

-----------------------------------------------------------------------------
(* Drift: counters and holds, where settlements go unheard and members     *)
(* come back (GuardDrift)                                                  *)

\* The steps of the guard as far as holds are concerned: nothing moves, a
\* hold is taken, one ends, or a fallback releases what has ended before.
HoldsRest ==
    /\ UNCHANGED <<hold, user, team>>
    /\ \A a \in Accounts : row'[a].reserved = row[a].reserved

HoldTaken(r) ==
    /\ UNCHANGED <<user, team>>
    /\ hold[r] = 0 /\ hold' = [hold EXCEPT ![r] = amt[r]]
    /\ AddHold(user[r], team[r], amt[r])

HoldEnded(r) ==
    /\ UNCHANGED <<user, team>>
    /\ hold[r] = amt[r] /\ hold' = [hold EXCEPT ![r] = 0]
    /\ \E c \in Nat : Post(user[r], team[r], c, amt[r])

LEMMA HoldsMove ==
    ASSUME TypeOK, HoldFollowsPhase, [Next]_vars
    PROVE  \/ HoldsRest
           \/ \E r \in Requests : HoldTaken(r) \/ HoldEnded(r) \/ ReleasesAgain(r)
<1>1. ASSUME NEW r \in Requests, Step(r)
      PROVE  HoldsRest \/ HoldTaken(r) \/ HoldEnded(r) \/ ReleasesAgain(r)
    <2>0. amt[r] \in Nat /\ cost[r] \in Nat
        BY DEF TypeOK
    <2>1. CASE \/ Arrive(r) \/ LoopCheck(r) \/ Quote(r) \/ Unaffordable(r) \/ CheckFails(r)
               \/ ReserveFails(r) \/ ReserveDenied(r) \/ Join(r) \/ Complete(r) \/ Abort(r)
               \/ SettleFails(r) \/ ReleaseFails(r)
        <3>1. UNCHANGED <<row, hold, user, team>>
            BY <2>1 DEF ledgerVars, Arrive, LoopCheck, Quote, Unaffordable, CheckFails,
               ReserveFails, ReserveDenied, Join, Complete, Abort, SettleFails, ReleaseFails
        <3>q. QED
            BY <3>1 DEF HoldsRest
    <2>2. CASE ReserveGranted(r) \/ ReserveUnheard(r)
        BY <2>2 DEF ReserveGranted, ReserveUnheard, HoldFollowsPhase, HoldTaken
    <2>3. CASE Settle(r)
        <3>1. hold[r] = amt[r]
            BY <2>3 DEF Settle, HoldFollowsPhase
        <3>q. QED
            BY <2>0, <2>3, <3>1 DEF Settle, SettleReservedUsage, HoldEnded
    <2>4. CASE Release(r) /\ ~ReleasesAgain(r)
        <3>1. hold[r] = amt[r]
            BY <2>4 DEF Release, ReleasesAgain, HoldFollowsPhase
        <3>2. UNCHANGED <<user, team>> /\ hold' = [hold EXCEPT ![r] = 0]
              /\ Post(user[r], team[r], 0, amt[r])
            BY <2>4 DEF Release, ReleaseReservation
        <3>q. QED
            BY <3>1, <3>2 DEF HoldEnded
    <2>q. QED
        BY <1>1, <2>1, <2>2, <2>3, <2>4 DEF Step, ReleasesAgain
<1>2. CASE Crash
    BY <1>2 DEF Crash, ledgerVars, HoldsRest
<1>3. CASE Admin
    BY <1>3, AdminType DEF TypeOK, Admin, reqVars, HoldsRest
<1>4. CASE UNCHANGED vars
    BY <1>4 DEF vars, ledgerVars, reqVars, HoldsRest
<1>q. QED
    BY <1>1, <1>2, <1>3, <1>4 DEF Next

ErrsLowOn(a) ==
    /\ row[a].reserved <= Total(HoldOn(a))
    /\ Total(HoldOn(a)) <= row[a].reserved + Drift(a)

\* A request that has released twice is at its end.
TwiceDone == \A r \in twice : phase[r] = "done"

\* A request at its end changes no more.
LEMMA DoneRests ==
    ASSUME TypeOK, [Next]_vars, NEW r \in Requests, phase[r] = "done"
    PROVE  phase'[r] = "done" /\ amt'[r] = amt[r]
<1>1. ASSUME NEW q \in Requests, Step(q) PROVE phase'[r] = "done" /\ amt'[r] = amt[r]
    <2>1. phase[q] # "done" => q # r
        OBVIOUS
    <2>2. CASE LoopCheck(q)
        BY <2>2 DEF LoopCheck
    <2>3. CASE ~LoopCheck(q)
        <3>1. phase[q] # "done"
            BY <1>1, <2>3 DEF Step, Arrive, Quote, Unaffordable, CheckFails, ReserveGranted,
               ReserveUnheard, ReserveDenied, ReserveFails, Join, Complete, Abort, Settle,
               SettleFails, Release, ReleaseFails
        <3>2. /\ \E p : phase' = [phase EXCEPT ![q] = p]
              /\ amt' = amt \/ \E n : amt' = [amt EXCEPT ![q] = n]
            BY <1>1, <2>3 DEF Step, Arrive, Quote, Unaffordable, CheckFails, ReserveGranted,
               ReserveUnheard, ReserveDenied, ReserveFails, Join, Complete, Abort, Settle,
               SettleFails, Release, ReleaseFails, Answered
        <3>q. QED
            BY <2>1, <3>1, <3>2 DEF TypeOK
    <2>q. QED
        BY <2>2, <2>3
<1>2. CASE Crash
    BY <1>2 DEF Crash
<1>3. CASE Admin \/ UNCHANGED vars
    BY <1>3 DEF Admin, vars, reqVars
<1>q. QED
    BY <1>1, <1>2, <1>3 DEF Next

\* Nobody changes user or team.
LEMMA ScopeStays ==
    ASSUME [Next]_vars
    PROVE  UNCHANGED <<user, team>>
<1>1. ASSUME NEW q \in Requests, Step(q) PROVE UNCHANGED <<user, team>>
    BY <1>1 DEF Step, Arrive, LoopCheck, Quote, Unaffordable, CheckFails, ReserveGranted,
       ReserveUnheard, ReserveDenied, ReserveFails, Join, Complete, Abort, Settle,
       SettleFails, Release, ReleaseFails
<1>q. QED
    BY <1>1 DEF Next, Crash, Admin, vars, reqVars

LEMMA TwiceOnType ==
    ASSUME DriftTypeOK, NEW a
    PROVE  TwiceOn(a) \in [Requests -> Nat] /\ Total(TwiceOn(a)) \in Nat
<1>1. TwiceOn(a) \in [Requests -> Nat]
    BY DEF DriftTypeOK, TypeOK, TwiceOn
<1>q. QED
    BY <1>1, RequestsAssumption, TotalType

\* Where nothing is released twice and no seat is revived, drift stays.
LEMMA DriftStays ==
    ASSUME DriftTypeOK, TwiceDone, [Next]_vars, UNCHANGED <<twice, forgotten>>, NEW a
    PROVE  Drift(a)' = Drift(a)
<1>1. \A r \in twice : amt'[r] = amt[r]
    BY DoneRests DEF TwiceDone, DriftTypeOK
<1>2. TwiceOn(a)' = TwiceOn(a)
    BY <1>1, ScopeStays DEF TwiceOn, ScopeOf
<1>q. QED
    BY <1>2 DEF Drift

\* A second release is the drift of its rows.
LEMMA DriftAfterAgain ==
    ASSUME DriftTypeOK, TwiceDone, NEW r \in Requests, ReleaseTwice(r), NEW a
    PROVE  Total(TwiceOn(a)') = IF a \in ScopeOf(r) THEN Total(TwiceOn(a)) + amt[r]
                                ELSE Total(TwiceOn(a))
<1> DEFINE n == IF a \in ScopeOf(r) THEN amt[r] ELSE 0
<1>1. /\ r \notin twice /\ twice' = twice \cup {r}
      /\ UNCHANGED <<user, team, amt>> /\ amt[r] \in Nat /\ n \in Nat
    BY DEF ReleaseTwice, ReleasesAgain, Release, TwiceDone, DriftTypeOK, TypeOK
<1>2. TwiceOn(a)[r] = 0
    BY <1>1 DEF TwiceOn
<1>3. TwiceOn(a)' = [TwiceOn(a) EXCEPT ![r] = n]
    BY <1>1 DEF TwiceOn, ScopeOf
<1>4. Total([TwiceOn(a) EXCEPT ![r] = n]) = Total(TwiceOn(a)) - TwiceOn(a)[r] + n
    BY <1>1, TwiceOnType, RequestsAssumption, TotalUpdate
<1>q. QED
    BY <1>1, <1>2, <1>3, <1>4, TwiceOnType

\* What one row shows and what is held on it, as numbers.
LEMMA Numbers ==
    ASSUME DriftTypeOK, NEW a \in Accounts
    PROVE  /\ row[a] \in Row /\ row[a].reserved \in Nat
           /\ Total(HoldOn(a)) \in Nat /\ Drift(a) \in Nat
<1>1. Total(HoldOn(a)) \in Nat
    BY HoldOnType, RequestsAssumption, TotalType DEF DriftTypeOK
<1>2. Drift(a) \in Nat
    BY TwiceOnType DEF Drift, DriftTypeOK
<1>q. QED
    BY <1>1, <1>2 DEF DriftTypeOK, TypeOK, Row

LEMMA ErrsLowAtRest ==
    ASSUME HoldsRest, NEW a \in Accounts, Drift(a)' = Drift(a), ErrsLowOn(a)
    PROVE  ErrsLowOn(a)'
<1>1. Total(HoldOn(a)') = Total(HoldOn(a))
    BY HeldStays DEF HoldsRest
<1>q. QED
    BY <1>1 DEF HoldsRest, ErrsLowOn

LEMMA ErrsLowAfterHold ==
    ASSUME DriftTypeOK, NEW r \in Requests, HoldTaken(r),
           NEW a \in Accounts, Drift(a)' = Drift(a), ErrsLowOn(a)
    PROVE  ErrsLowOn(a)'
<1>1. amt[r] \in Nat /\ TypeOK
    BY DEF DriftTypeOK, TypeOK
<1>2. Total(HoldOn(a)') = IF a \in ScopeOf(r) THEN Total(HoldOn(a)) - hold[r] + amt[r]
                          ELSE Total(HoldOn(a))
    BY <1>1, HeldChanges DEF HoldTaken
<1>3. row'[a].reserved = IF a \in ScopeOf(r) THEN row[a].reserved + amt[r]
                         ELSE row[a].reserved
    BY <1>1, Numbers DEF HoldTaken, AddHold, ScopeOf, Row
<1>q. QED
    BY <1>1, <1>2, <1>3, Numbers DEF HoldTaken, ErrsLowOn

\* What one post leaves of a row.
LEMMA RowPosted ==
    ASSUME DriftTypeOK, NEW u, NEW t, NEW c \in Nat, NEW n \in Nat, Post(u, t, c, n),
           NEW a \in Accounts
    PROVE  /\ row'[a].limit = row[a].limit
           /\ row'[a].spent = IF a \in Scope(u, t) THEN row[a].spent + c ELSE row[a].spent
           /\ row'[a].reserved = IF a \in Scope(u, t)
                                 THEN IF row[a].reserved > n THEN row[a].reserved - n ELSE 0
                                 ELSE row[a].reserved
BY Numbers DEF Post, Posted, Row

LEMMA RowReleased ==
    ASSUME DriftTypeOK, NEW u, NEW t, NEW n \in Nat, Post(u, t, 0, n), NEW a \in Accounts
    PROVE  row'[a].limit = row[a].limit /\ row'[a].spent = row[a].spent
<1>1. row[a] \in Row /\ row[a].spent \in Nat /\ row[a].spent + 0 = row[a].spent
    BY Numbers DEF Row
<1>2. row'[a] = IF a \in Scope(u, t) THEN Posted(row[a], 0, n) ELSE row[a]
    BY DEF Post
<1>3. /\ Posted(row[a], 0, n).limit = row[a].limit
      /\ Posted(row[a], 0, n).spent = row[a].spent + 0
    BY <1>1 DEF Posted, Row
<1>q. QED
    BY <1>1, <1>2, <1>3

\* MAX(0, ...) cuts only what the row had forgotten already.
LEMMA ErrsLowAfterPost ==
    ASSUME DriftTypeOK, NEW r \in Requests, HoldEnded(r),
           NEW a \in Accounts, Drift(a)' = Drift(a), ErrsLowOn(a)
    PROVE  ErrsLowOn(a)'
<1>1. amt[r] \in Nat /\ TypeOK
    BY DEF DriftTypeOK, TypeOK
<1>2. Total(HoldOn(a)') = IF a \in ScopeOf(r) THEN Total(HoldOn(a)) - hold[r] + 0
                          ELSE Total(HoldOn(a))
    BY <1>1, HeldChanges DEF HoldEnded
<1>3. row'[a].reserved = IF a \in ScopeOf(r)
                         THEN IF row[a].reserved > amt[r] THEN row[a].reserved - amt[r] ELSE 0
                         ELSE row[a].reserved
    BY <1>1, RowPosted DEF HoldEnded, ScopeOf
<1>4. a \in ScopeOf(r) => hold[r] <= Total(HoldOn(a))
    <2>1. HoldOn(a)[r] <= Total(HoldOn(a))
        BY <1>1, HoldOnType, RequestsAssumption, TotalBound
    <2>q. QED
        BY <2>1 DEF HoldOn
<1>q. QED
    BY <1>1, <1>2, <1>3, <1>4, Numbers DEF HoldEnded, ErrsLowOn

\* A second release takes what somebody else holds, and drift says so.
LEMMA ErrsLowAfterAgain ==
    ASSUME DriftTypeOK, HoldFollowsPhase, TwiceDone, NEW r \in Requests, ReleaseTwice(r),
           NEW a \in Accounts, ErrsLowOn(a)
    PROVE  ErrsLowOn(a)'
<1>1. amt[r] \in Nat /\ TypeOK /\ hold[r] = 0
    BY DEF DriftTypeOK, TypeOK, HoldFollowsPhase, ReleaseTwice, ReleasesAgain
<1>2. /\ Post(user[r], team[r], 0, amt[r])
      /\ hold' = [hold EXCEPT ![r] = 0] /\ UNCHANGED <<user, team>>
    BY DEF ReleaseTwice, ReleasesAgain, Release, ReleaseReservation
<1>3. Drift(a)' = IF a \in ScopeOf(r) THEN Drift(a) + amt[r] ELSE Drift(a)
    BY <1>1, DriftAfterAgain, TwiceOnType DEF Drift, ReleaseTwice, DriftTypeOK
<1>4. hold' = hold
    BY <1>1, <1>2 DEF TypeOK
<1>5. Total(HoldOn(a)') = Total(HoldOn(a))
    BY <1>2, <1>4, HeldStays
<1>6. \E c \in Nat : Post(user[r], team[r], c, amt[r])
    BY <1>2
<1>7. row'[a].reserved = IF a \in ScopeOf(r)
                         THEN IF row[a].reserved > amt[r] THEN row[a].reserved - amt[r] ELSE 0
                         ELSE row[a].reserved
    BY <1>1, <1>6, RowPosted DEF ScopeOf
<1>q. QED
    BY <1>1, <1>5, <1>7, <1>3, Numbers DEF ErrsLowOn

\* A seat that is written anew, and every other row.
LEMMA RowRevived ==
    ASSUME DriftTypeOK, NEW s \in Teams \X Users, ReviveSeat(s), NEW a \in Accounts
    PROVE  /\ UNCHANGED reqVars
           /\ a = s => /\ row'[a].limit \in Nat /\ row'[a].spent = 0 /\ row'[a].reserved = 0
                       /\ Drift(a)' = Drift(a) + row[a].reserved
           /\ a # s => row'[a] = row[a] /\ Drift(a)' = Drift(a)
<1>1. TwiceOn(a)' = TwiceOn(a)
    BY DEF ReviveSeat, reqVars, TwiceOn, ScopeOf
<1>2. a = s => forgotten'[a] = forgotten[a] + row[a].reserved
    BY DEF ReviveSeat, DriftTypeOK
<1>3. a # s /\ a \in Teams \X Users => forgotten'[a] = forgotten[a]
    BY DEF ReviveSeat, DriftTypeOK
<1>4. a = s => Drift(a)' = Drift(a) + row[a].reserved
    <2>1. ASSUME a = s PROVE a \in Teams \X Users /\ forgotten[a] \in Nat
        BY <2>1 DEF DriftTypeOK
    <2>q. QED
        BY <1>1, <1>2, <2>1, TwiceOnType, Numbers DEF Drift
<1>5. a # s => Drift(a)' = Drift(a)
    BY <1>1, <1>3 DEF Drift
<1>q. QED
    BY <1>4, <1>5, LimitsAssumption DEF ReviveSeat, DriftTypeOK, TypeOK, Accounts

LEMMA ErrsLowAfterRevival ==
    ASSUME DriftTypeOK, NEW s \in Teams \X Users, ReviveSeat(s),
           NEW a \in Accounts, ErrsLowOn(a)
    PROVE  ErrsLowOn(a)'
<1>1. Total(HoldOn(a)') = Total(HoldOn(a))
    BY RowRevived, HeldStays DEF reqVars
<1>q. QED
    BY <1>1, RowRevived, Numbers DEF ErrsLowOn

-----------------------------------------------------------------------------

DInv == DriftTypeOK /\ HoldFollowsPhase /\ TwiceDone /\ CountersErrLow

LEMMA DInvInit == DriftInit => DInv
<1> SUFFICES ASSUME DriftInit PROVE DInv
    OBVIOUS
<1>1. DriftTypeOK /\ HoldFollowsPhase /\ TwiceDone
    BY TypeInit, MaxAddsAssumption
    DEF DriftInit, DriftTypeOK, Init, HoldFollowsPhase, TwiceDone
<1>2. ASSUME NEW a \in Accounts
      PROVE  row[a].reserved = 0 /\ Total(HoldOn(a)) = 0 /\ Drift(a) \in Nat
    <2>1. HoldOn(a) = [r \in Requests |-> 0]
        BY DEF DriftInit, Init, HoldOn
    <2>2. row[a].reserved = 0
        BY <1>2 DEF DriftInit, Init, LedgerInit
    <2>q. QED
        BY <1>1, <2>1, <2>2, TotalZero, Numbers
<1>q. QED
    BY <1>1, <1>2 DEF DInv, CountersErrLow

LEMMA DInvNext == DInv /\ [DriftNext]_driftVars => DInv'
<1> SUFFICES ASSUME DInv, [DriftNext]_driftVars PROVE DInv'
    OBVIOUS
<1> USE DEF DInv
<1>0. /\ TypeOK /\ HoldFollowsPhase /\ DriftTypeOK /\ TwiceDone
      /\ \A a \in Accounts : ErrsLowOn(a)
      /\ (\A a \in Accounts : ErrsLowOn(a)') => CountersErrLow'
    BY DEF DriftTypeOK, CountersErrLow, ErrsLowOn
<1>1. CASE GuardStep \/ UNCHANGED driftVars
    <2>1. [Next]_vars /\ UNCHANGED <<adding, twice, forgotten>>
          /\ (~(\E r \in Requests : ReleasesAgain(r)) \/ UNCHANGED vars)
        BY <1>1 DEF GuardStep, driftVars
    <2>2. TypeOK' /\ HoldFollowsPhase'
        BY <1>0, <2>1, TypeStep, FollowStep
    <2>3. HoldsRest \/ \E r \in Requests : HoldTaken(r) \/ HoldEnded(r)
        <3>1. CASE UNCHANGED vars
            BY <3>1 DEF vars, ledgerVars, reqVars, HoldsRest
        <3>q. QED
            BY <1>0, <2>1, <3>1, HoldsMove
    <2>4. ASSUME NEW a \in Accounts PROVE ErrsLowOn(a)'
        <3>1. Drift(a)' = Drift(a)
            BY <1>0, <2>1, DriftStays
        <3>q. QED
            BY <1>0, <2>3, <3>1, ErrsLowAtRest, ErrsLowAfterHold, ErrsLowAfterPost
    <2>5. TwiceDone'
        BY <1>0, <2>1, DoneRests DEF TwiceDone, DriftTypeOK
    <2>q. QED
        BY <1>0, <2>1, <2>2, <2>4, <2>5 DEF DriftTypeOK
<1>2. ASSUME NEW r \in Requests, ReleaseTwice(r) PROVE DInv'
    <2>1. [Next]_vars /\ UNCHANGED <<adding, forgotten>> /\ twice' = twice \cup {r}
        BY <1>2 DEF ReleaseTwice, ReleasesAgain, Next, Step
    <2>2. TypeOK' /\ HoldFollowsPhase'
        BY <1>0, <2>1, TypeStep, FollowStep
    <2>3. TwiceDone'
        <3>1. phase'[r] = "done"
            BY <1>0, <1>2 DEF ReleaseTwice, ReleasesAgain, Release, TypeOK
        <3>q. QED
            BY <1>0, <2>1, <3>1, DoneRests DEF TwiceDone, DriftTypeOK
    <2>4. ASSUME NEW a \in Accounts PROVE ErrsLowOn(a)'
        BY <1>0, <1>2, ErrsLowAfterAgain
    <2>q. QED
        BY <1>0, <2>1, <2>2, <2>3, <2>4 DEF DriftTypeOK
<1>3. ASSUME NEW s \in Teams \X Users, FindSeat(s) PROVE DInv'
    <2>1. /\ UNCHANGED <<vars, twice, forgotten>>
          /\ adding' \in [Teams \X Users -> 0 .. MaxAdds]
        BY <1>0, <1>3, MaxAddsAssumption DEF FindSeat, DriftTypeOK
    <2>2. TypeOK' /\ HoldFollowsPhase' /\ HoldsRest
        BY <1>0, <2>1, TypeStep, FollowStep DEF vars, ledgerVars, reqVars, HoldsRest
    <2>3. ASSUME NEW a \in Accounts PROVE ErrsLowOn(a)'
        <3>1. Drift(a)' = Drift(a)
            BY <1>0, <2>1, DriftStays
        <3>q. QED
            BY <1>0, <2>2, <3>1, ErrsLowAtRest
    <2>4. TwiceDone'
        BY <1>0, <2>1 DEF TwiceDone, vars, reqVars
    <2>q. QED
        BY <1>0, <2>1, <2>2, <2>3, <2>4 DEF DriftTypeOK
<1>4. ASSUME NEW s \in Teams \X Users, ReviveSeat(s) PROVE DInv'
    <2>1. /\ UNCHANGED <<reqVars, twice>>
          /\ adding' \in [Teams \X Users -> 0 .. MaxAdds]
        BY <1>0, <1>4, MaxAddsAssumption DEF ReviveSeat, DriftTypeOK
    <2>2. row' \in [Accounts -> Row] /\ active' \subseteq Teams \X Users
        BY <1>0, <1>4, LimitsAssumption DEF ReviveSeat, TypeOK, Row, Accounts
    <2>3. forgotten' \in [Teams \X Users -> Nat]
        <3>1. s \in Accounts
            BY DEF Accounts
        <3>2. row[s].reserved \in Nat
            BY <1>0, <3>1, Numbers
        <3>q. QED
            BY <1>0, <1>4, <3>2 DEF ReviveSeat, DriftTypeOK
    <2>4. TypeOK' /\ HoldFollowsPhase' /\ TwiceDone'
        BY <1>0, <2>1, <2>2 DEF TypeOK, HoldFollowsPhase, TwiceDone, reqVars
    <2>5. ASSUME NEW a \in Accounts PROVE ErrsLowOn(a)'
        BY <1>0, <1>4, ErrsLowAfterRevival
    <2>q. QED
        BY <1>0, <2>1, <2>4, <2>5, <2>3 DEF DriftTypeOK
<1>q. QED
    BY <1>1, <1>2, <1>3, <1>4 DEF DriftNext

LEMMA DInvHolds == DriftSpec => []DInv
    BY DInvInit, DInvNext, PTL DEF DriftSpec

\* Every variable keeps its type.
THEOREM DriftTypes == DriftSpec => []DriftTypeOK
<1>1. DInv => DriftTypeOK
    BY DEF DInv
<1>q. QED
    BY <1>1, DInvHolds, PTL

\* Whatever fails, exits, is lost or comes back, a counter shows no more than is
\* held and misses no more than was released twice or forgotten.
THEOREM CountersStayClose == DriftSpec => []CountersErrLow
<1>1. DInv => CountersErrLow
    BY DEF DInv
<1>q. QED
    BY <1>1, DInvHolds, PTL

-----------------------------------------------------------------------------

SolventWithDrift(a) ==
    row[a].spent + Total(HoldOn(a)) <= row[a].limit + Total(OverrunOn(a)) + Drift(a)

\* What is settled stays as it was settled.
BillsRest ==
    /\ UNCHANGED <<user, team, settled>>
    /\ \A q \in Requests : settled[q] => cost'[q] = cost[q] /\ amt'[q] = amt[q]

\* A step that holds no more and settles nothing.
LEMMA SolventWhenFreed ==
    ASSUME DriftTypeOK, DriftTypeOK', BillsRest, NEW a \in Accounts, SolventWithDrift(a),
           row'[a].limit = row[a].limit, row'[a].spent = row[a].spent,
           Total(HoldOn(a)') <= Total(HoldOn(a)), Drift(a)' >= Drift(a)
    PROVE  SolventWithDrift(a)'
<1>1. Total(OverrunOn(a)') = Total(OverrunOn(a)) /\ Total(OverrunOn(a)) \in Nat
    BY OverrunStays, OverrunOnType DEF BillsRest, DriftTypeOK
<1>2. row[a].limit \in Nat /\ row[a].spent \in Nat
    BY Numbers DEF Row
<1>3. Total(HoldOn(a)') \in Nat /\ Drift(a)' \in Nat
    <2>1. HoldOn(a)' \in [Requests -> Nat] /\ TwiceOn(a)' \in [Requests -> Nat]
        BY DEF DriftTypeOK, TypeOK, HoldOn, TwiceOn
    <2>2. Total(HoldOn(a)') \in Nat /\ Total(TwiceOn(a)') \in Nat
        BY <2>1, RequestsAssumption, TotalType
    <2>q. QED
        BY <2>2 DEF Drift, DriftTypeOK
<1>q. QED
    BY <1>1, <1>2, <1>3, Numbers DEF SolventWithDrift

\* Room by the counter is room beside the holds, but for the drift.
LEMMA SolventAfterTaking ==
    ASSUME DriftTypeOK, BillsRest, NEW r \in Requests, HoldTaken(r),
           Reservable(user[r], team[r], amt[r]),
           NEW a \in Accounts, Drift(a)' = Drift(a), ErrsLowOn(a), SolventWithDrift(a)
    PROVE  SolventWithDrift(a)'
<1>1. Total(OverrunOn(a)') = Total(OverrunOn(a)) /\ Total(OverrunOn(a)) \in Nat
    BY OverrunStays, OverrunOnType DEF BillsRest, DriftTypeOK
<1>2. row[a] \in Row /\ amt[r] \in Nat /\ TypeOK
    BY DEF DriftTypeOK, TypeOK
<1>3. Total(HoldOn(a)') = IF a \in ScopeOf(r) THEN Total(HoldOn(a)) - hold[r] + amt[r]
                          ELSE Total(HoldOn(a))
    BY <1>2, HeldChanges DEF HoldTaken
<1>4. row'[a].limit = row[a].limit /\ row'[a].spent = row[a].spent
    BY <1>2 DEF HoldTaken, AddHold, Row
<1>5. a \in ScopeOf(r) => row[a].limit - row[a].spent - row[a].reserved >= amt[r]
    BY <1>2 DEF Reservable, CanCover, Available, ScopeOf, Row
<1>q. QED
    BY <1>1, <1>2, <1>3, <1>4, <1>5, Numbers DEF HoldTaken, ErrsLowOn, SolventWithDrift, Row

\* A settlement exchanges a hold for a bill.
LEMMA SolventAfterSettling ==
    ASSUME DriftTypeOK, HoldFollowsPhase, NEW r \in Requests, Settle(r),
           NEW a \in Accounts, Drift(a)' = Drift(a), SolventWithDrift(a)
    PROVE  SolventWithDrift(a)'
<1>1. /\ row[a] \in Row /\ amt[r] \in Nat /\ cost[r] \in Nat /\ TypeOK
      /\ hold[r] = amt[r] /\ ~settled[r] /\ Total(OverrunOn(a)) \in Nat
    BY OverrunOnType DEF DriftTypeOK, TypeOK, Settle, HoldFollowsPhase
<1>2. /\ Post(user[r], team[r], cost[r], amt[r])
      /\ hold' = [hold EXCEPT ![r] = 0] /\ settled' = [settled EXCEPT ![r] = TRUE]
      /\ UNCHANGED <<user, team, amt, cost>>
    BY DEF Settle, SettleReservedUsage
<1>3. Total(HoldOn(a)') = IF a \in ScopeOf(r) THEN Total(HoldOn(a)) - hold[r] + 0
                          ELSE Total(HoldOn(a))
    BY <1>1, <1>2, HeldChanges
<1>4. /\ row'[a].limit = row[a].limit
      /\ row'[a].spent = IF a \in ScopeOf(r) THEN row[a].spent + cost[r] ELSE row[a].spent
    BY <1>1, <1>2, RowPosted DEF ScopeOf
<1>5. CASE a \in ScopeOf(r)
    <2>1. Total(OverrunOn(a)') =
            Total(OverrunOn(a)) + (IF cost[r] > amt[r] THEN cost[r] - amt[r] ELSE 0)
        BY <1>1, <1>2, <1>5, OverrunAdded
    <2>q. QED
        BY <1>1, <1>3, <1>4, <1>5, <2>1, Numbers DEF SolventWithDrift, Row
<1>6. CASE a \notin ScopeOf(r)
    <2>1. \A q \in Requests : a \in ScopeOf(q) => settled'[q] = settled[q]
        BY <1>1, <1>2, <1>6 DEF TypeOK
    <2>2. Total(OverrunOn(a)') = Total(OverrunOn(a))
        BY <1>2, <2>1, OverrunStays
    <2>q. QED
        BY <1>2, <1>3, <1>4, <1>6, <2>2 DEF SolventWithDrift
<1>q. QED
    BY <1>5, <1>6

\* A seat written anew owes nothing, and what it held has become drift.
LEMMA SolventAfterRevival ==
    ASSUME DriftTypeOK, NEW s \in Teams \X Users, ReviveSeat(s),
           NEW a \in Accounts, ErrsLowOn(a), SolventWithDrift(a)
    PROVE  SolventWithDrift(a)'
<1>1. UNCHANGED reqVars
    BY RowRevived
<1>2. /\ Total(HoldOn(a)') = Total(HoldOn(a)) /\ Total(HoldOn(a)) \in Nat
      /\ Total(OverrunOn(a)') = Total(OverrunOn(a)) /\ Total(OverrunOn(a)) \in Nat
    BY <1>1, HeldStays, Numbers, OverrunStays, OverrunOnType DEF reqVars, DriftTypeOK
<1>3. CASE a = s
    BY <1>2, <1>3, RowRevived, Numbers DEF ErrsLowOn, SolventWithDrift
<1>4. CASE a # s
    BY <1>2, <1>4, RowRevived DEF SolventWithDrift
<1>q. QED
    BY <1>3, <1>4

LEMMA SolventWithDriftNext ==
    ASSUME "limit" \notin Env, "reset" \notin Env, DInv, DInv', [DriftNext]_driftVars,
           NEW a \in Accounts, SolventWithDrift(a)
    PROVE  SolventWithDrift(a)'
<1>0. /\ TypeOK /\ DriftTypeOK /\ DriftTypeOK' /\ HoldFollowsPhase /\ ErrsLowOn(a)
      /\ TwiceDone /\ Drift(a) \in Nat
    BY Numbers DEF DInv, DriftTypeOK, CountersErrLow, ErrsLowOn
<1>1. ASSUME UNCHANGED <<row, hold>>, BillsRest, Drift(a)' = Drift(a) PROVE SolventWithDrift(a)'
    <2>1. Total(HoldOn(a)') = Total(HoldOn(a))
        BY <1>1, HeldStays DEF BillsRest
    <2>q. QED
        BY <1>0, <1>1, <2>1, SolventWhenFreed, Numbers
<1>2. ASSUME NEW r \in Requests, Step(r), Drift(a)' = Drift(a)
      PROVE  SolventWithDrift(a)'
    <2>1. CASE \/ Arrive(r) \/ LoopCheck(r) \/ Unaffordable(r) \/ CheckFails(r)
               \/ Join(r) \/ Abort(r) \/ SettleFails(r) \/ ReleaseFails(r)
        <3>1. UNCHANGED <<row, hold>> /\ BillsRest
            BY <2>1 DEF ledgerVars, Arrive, LoopCheck, Unaffordable, CheckFails,
               Join, Abort, SettleFails, ReleaseFails, BillsRest
        <3>q. QED
            BY <1>1, <1>2, <3>1
    <2>2. CASE Quote(r) \/ ReserveDenied(r) \/ ReserveFails(r) \/ Complete(r)
        <3>1. ~settled[r]
            BY <1>0, <2>2 DEF Quote, ReserveDenied, ReserveFails, Complete, HoldFollowsPhase
        <3>2. UNCHANGED <<row, hold, user, team, settled>>
            BY <2>2 DEF ledgerVars, Quote, ReserveDenied, ReserveFails, Complete, Answered
        <3>3. \A q \in Requests : q # r => cost'[q] = cost[q] /\ amt'[q] = amt[q]
            BY <1>0, <2>2 DEF Quote, ReserveDenied, ReserveFails, Complete, Answered, TypeOK
        <3>q. QED
            BY <1>1, <1>2, <3>1, <3>2, <3>3 DEF BillsRest
    <2>3. CASE ReserveGranted(r) \/ ReserveUnheard(r)
        <3>1. ~settled[r]
            BY <1>0, <2>3 DEF ReserveGranted, ReserveUnheard, HoldFollowsPhase
        <3>2. BillsRest
            BY <1>0, <2>3, <3>1 DEF ReserveGranted, ReserveUnheard, TypeOK, BillsRest
        <3>3. HoldTaken(r) /\ Reservable(user[r], team[r], amt[r])
            BY <1>0, <2>3 DEF ReserveGranted, ReserveUnheard, HoldFollowsPhase, HoldTaken
        <3>q. QED
            BY <1>0, <1>2, <3>2, <3>3, SolventAfterTaking
    <2>4. CASE Settle(r)
        BY <1>0, <1>2, <2>4, SolventAfterSettling
    <2>5. CASE Release(r)
        <3>1. BillsRest /\ Post(user[r], team[r], 0, amt[r]) /\ hold' = [hold EXCEPT ![r] = 0]
            BY <2>5 DEF Release, ReleaseReservation, BillsRest
        <3>2. row'[a].limit = row[a].limit /\ row'[a].spent = row[a].spent
            BY <1>0, <3>1, RowReleased DEF TypeOK
        <3>3. Total(HoldOn(a)') <= Total(HoldOn(a))
            <4>1. Total(HoldOn(a)') = IF a \in ScopeOf(r) THEN Total(HoldOn(a)) - hold[r] + 0
                                      ELSE Total(HoldOn(a))
                BY <1>0, <3>1, HeldChanges DEF BillsRest
            <4>q. QED
                BY <1>0, <4>1, Numbers DEF TypeOK
        <3>q. QED
            BY <1>0, <1>2, <3>1, <3>2, <3>3, SolventWhenFreed
    <2>q. QED
        BY <1>2, <2>1, <2>2, <2>3, <2>4, <2>5 DEF Step
<1>3. CASE GuardStep
    <2>1. Drift(a)' = Drift(a)
        BY <1>0, <1>3, DriftStays DEF GuardStep
    <2>2. CASE Crash
        <3>1. UNCHANGED <<row, hold>> /\ BillsRest
            BY <2>2 DEF Crash, ledgerVars, BillsRest
        <3>q. QED
            BY <1>1, <2>1, <3>1
    <2>3. CASE Admin
        <3>1. UNCHANGED <<row, hold>> /\ BillsRest
            BY <2>3 DEF Admin, RemoveTeamMember, reqVars, BillsRest
        <3>q. QED
            BY <1>1, <2>1, <3>1
    <2>q. QED
        BY <1>2, <1>3, <2>1, <2>2, <2>3 DEF GuardStep, Next
<1>4. ASSUME NEW r \in Requests, ReleaseTwice(r) PROVE SolventWithDrift(a)'
    <2>1. /\ BillsRest /\ Post(user[r], team[r], 0, amt[r])
          /\ hold' = [hold EXCEPT ![r] = 0] /\ hold[r] = 0 /\ amt[r] \in Nat
        BY <1>0, <1>4 DEF ReleaseTwice, ReleasesAgain, Release, ReleaseReservation, BillsRest,
           HoldFollowsPhase, TypeOK
    <2>2. Drift(a)' >= Drift(a)
        BY <1>0, <1>4, <2>1, DriftAfterAgain, TwiceOnType DEF Drift, ReleaseTwice, DriftTypeOK
    <2>3. row'[a].limit = row[a].limit /\ row'[a].spent = row[a].spent
        BY <1>0, <2>1, RowReleased
    <2>4. hold' = hold
        BY <1>0, <2>1 DEF TypeOK
    <2>5. Total(HoldOn(a)') = Total(HoldOn(a))
        BY <2>1, <2>4, HeldStays DEF BillsRest
    <2>q. QED
        BY <1>0, <2>1, <2>3, <2>5, <2>2, SolventWhenFreed, Numbers
<1>5. ASSUME NEW s \in Teams \X Users, FindSeat(s) PROVE SolventWithDrift(a)'
    <2>1. UNCHANGED <<vars, twice, forgotten>>
        BY <1>5 DEF FindSeat
    <2>2. Drift(a)' = Drift(a)
        BY <1>0, <2>1, DriftStays
    <2>q. QED
        BY <1>1, <2>1, <2>2 DEF vars, ledgerVars, reqVars, BillsRest
<1>6. ASSUME NEW s \in Teams \X Users, ReviveSeat(s) PROVE SolventWithDrift(a)'
    BY <1>0, <1>6, SolventAfterRevival
<1>7. CASE UNCHANGED driftVars
    <2>1. UNCHANGED <<vars, twice, forgotten>>
        BY <1>7 DEF driftVars
    <2>2. Drift(a)' = Drift(a)
        BY <1>0, <2>1, DriftStays
    <2>q. QED
        BY <1>1, <2>1, <2>2 DEF vars, ledgerVars, reqVars, BillsRest
<1>q. QED
    BY <1>3, <1>4, <1>5, <1>6, <1>7 DEF DriftNext

\* While limits stand, a lost reply or a forgotten hold lets a row be overspent by
\* its own amount and by no more.
THEOREM DriftIsAllThatIsLost ==
    ASSUME "limit" \notin Env, "reset" \notin Env
    PROVE  DriftSpec => []SolventDespiteDrift
<1>1. DriftInit => SolventDespiteDrift
    <2> SUFFICES ASSUME DriftInit, NEW a \in Accounts PROVE SolventWithDrift(a)
        BY DEF SolventDespiteDrift, SolventWithDrift
    <2>1. HoldOn(a) = [r \in Requests |-> 0] /\ OverrunOn(a) = [r \in Requests |-> 0]
        BY DEF DriftInit, Init, HoldOn, OverrunOn
    <2>2. row[a].spent = 0 /\ row[a].limit \in Nat
        BY StartLimitAssumption DEF DriftInit, Init, LedgerInit
    <2>3. Drift(a) \in Nat
        BY DInvInit, Numbers DEF DInv
    <2>q. QED
        BY <2>1, <2>2, <2>3, TotalZero DEF SolventWithDrift
<1>2. DInv /\ DInv' /\ SolventDespiteDrift /\ [DriftNext]_driftVars => SolventDespiteDrift'
    BY SolventWithDriftNext DEF SolventDespiteDrift, SolventWithDrift
<1>q. QED
    BY <1>1, <1>2, DInvHolds, PTL DEF DriftSpec

-----------------------------------------------------------------------------

\* Where no reply of a settlement is lost, nothing is released twice.
NoneTwice == NoStaleFallback /\ twice = {}

LEMMA NoneTwiceNext ==
    ASSUME "lost_settle" \notin Env, DInv, NoneTwice, [DriftNext]_driftVars
    PROVE  NoneTwice'
<1>0. TypeOK /\ HoldFollowsPhase /\ NoStaleFallback
    BY DEF DInv, DriftTypeOK, NoneTwice
<1>1. CASE GuardStep \/ UNCHANGED driftVars \/ \E s \in Teams \X Users : FindSeat(s)
    <2>1. [Next]_vars /\ UNCHANGED twice
        BY <1>1 DEF GuardStep, driftVars, FindSeat
    <2>q. QED
        BY <1>0, <2>1, StaleStep DEF NoneTwice
<1>2. ASSUME NEW r \in Requests, ReleaseTwice(r) PROVE FALSE
    BY <1>0, <1>2 DEF ReleaseTwice, ReleasesAgain, NoStaleFallback
<1>3. ASSUME NEW s \in Teams \X Users, ReviveSeat(s) PROVE NoneTwice'
    BY <1>3 DEF NoneTwice, NoStaleFallback, ReviveSeat, reqVars
<1>q. QED
    BY <1>1, <1>2, <1>3 DEF DriftNext

\* Without lost settlement replies what users and pools have reserved is exactly
\* what is held on them, however often members leave and come back.
THEOREM PoolsStayExact ==
    ASSUME "lost_settle" \notin Env
    PROVE  DriftSpec => []PoolsAreExact
<1>1. DriftInit => NoneTwice
    BY DEF DriftInit, Init, NoneTwice, NoStaleFallback
<1>2. DInv /\ NoneTwice /\ [DriftNext]_driftVars => NoneTwice'
    BY NoneTwiceNext
<1>3. DInv /\ NoneTwice => PoolsAreExact
    <2> SUFFICES ASSUME DInv, NoneTwice, NEW a \in Users \cup Teams
                 PROVE  row[a].reserved = Total(HoldOn(a))
        BY DEF PoolsAreExact
    <2>1. a \in Accounts /\ a \notin Teams \X Users
        BY TablesAssumption DEF Accounts
    <2>2. TwiceOn(a) = [r \in Requests |-> 0]
        BY DEF NoneTwice, TwiceOn
    <2>3. Drift(a) = 0
        BY <2>1, <2>2, TotalZero DEF Drift
    <2>4. row[a].reserved <= Total(HoldOn(a)) /\ Total(HoldOn(a)) <= row[a].reserved + 0
        BY <2>1, <2>3 DEF DInv, CountersErrLow
    <2>q. QED
        BY <2>1, <2>4, Numbers DEF DInv
<1>q. QED
    BY <1>1, <1>2, <1>3, DInvHolds, PTL DEF DriftSpec
=============================================================================

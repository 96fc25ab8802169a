------------------------------- MODULE Guard --------------------------------
(***************************************************************************)
(* The life of a proxied LLM request (internal/proxy/guard.go, proxy.go):  *)
(* preflight checks the budget and the loop breaker in two goroutines,     *)
(* joins them, forwards, and settles or releases the reservation in a      *)
(* detached goroutine after the client has its answer.                     *)
(*                                                                         *)
(*   idle -> check -> reserve -> granted | denied -> forwarded             *)
(*        -> settle -> fallback -> done      granted -> release -> done    *)
(*                                                                         *)
(* row, active belong to the database; phase .. cost are the locals of the *)
(* handler and its goroutines, gone after a crash.  hold is a history      *)
(* variable: what the database really did for each request, which the      *)
(* process may not know when a reply is lost.                              *)
(*                                                                         *)
(* An operator named Bug... is a wrong version of the one that follows it, *)
(* used to see a property fail; no specification refers to it.             *)
(***************************************************************************)
EXTENDS Ledger, Totals

CONSTANTS
    Requests,
    Quotes,     \* price estimates [input, total] the catalog can give
    Costs,      \* bills a finished request can come to (0: provider error)
    Limits,     \* limits an administrator can set
    Env         \* which of EnvKinds may happen

VARIABLES
    phase,      \* where the request is
    loop,       \* its loop-check goroutine: none, running, pass or block
    user,       \* the user its API key belongs to
    team,       \* its X-TokenGuard-Team-ID
    amt,        \* the estimate to reserve, then guardContext.reservedMicroUSD
    cost,       \* the bill, once the provider has answered
    hold,       \* what the rows of its scope hold for it
    settled     \* whether usage_events has the row its settlement inserts

reqVars == <<phase, loop, user, team, amt, cost, hold, settled>>
vars == <<ledgerVars, reqVars>>

EnvKinds == {
    "error",        \* a store call fails and changes nothing
    "lost_reserve", \* ReserveBudget commits and the reply times out
    "lost_settle",  \* SettleReservedUsage commits and the reply times out
    "abort",        \* ReverseProxy panics with http.ErrAbortHandler mid-body
    "crash",        \* the process exits
    "limit",        \* administrators change limits and caps
    "reset",        \* ... and reset what a user has spent
    "remove"}       \* team owners remove members

ASSUME EnvAssumption == Env \subseteq EnvKinds
ASSUME RequestsAssumption == IsFiniteSet(Requests)
ASSUME QuotesAssumption == Quotes \subseteq [input : Nat, total : Nat]
ASSUME CostsAssumption == Costs \subseteq Nat
ASSUME LimitsAssumption == Limits \subseteq Nat

Phases == {"idle", "check", "reserve", "granted", "denied", "forwarded",
           "settle", "fallback", "release", "done"}
LoopStates == {"none", "running", "pass", "block"}

TypeOK ==
    /\ row \in [Accounts -> Row]
    /\ active \subseteq Teams \X Users
    /\ phase \in [Requests -> Phases]
    /\ loop \in [Requests -> LoopStates]
    /\ user \in [Requests -> Users]
    /\ team \in [Requests -> Teams \cup {NoTeam}]
    /\ amt \in [Requests -> Nat]
    /\ cost \in [Requests -> Nat]
    /\ hold \in [Requests -> Nat]
    /\ settled \in [Requests -> BOOLEAN]

Init ==
    /\ LedgerInit
    /\ phase = [r \in Requests |-> "idle"]
    /\ loop = [r \in Requests |-> "none"]
    /\ user \in [Requests -> Users]
    /\ team \in [Requests -> Teams \cup {NoTeam}]
    /\ amt = [r \in Requests |-> 0]
    /\ cost = [r \in Requests |-> 0]
    /\ hold = [r \in Requests |-> 0]
    /\ settled = [r \in Requests |-> FALSE]

ScopeOf(r) == Scope(user[r], team[r])
Resolves(r) == InScope(user[r], team[r])

-----------------------------------------------------------------------------
(* preflight *)

\* A request with a key, a small enough body and valid JSON starts both
\* checks.  The loop check is skipped without a session or a payload.
Arrive(r) ==
    /\ phase[r] = "idle"
    /\ phase' = [phase EXCEPT ![r] = "check"]
    /\ \E l \in {"running", "pass"} : loop' = [loop EXCEPT ![r] = l]
    /\ UNCHANGED <<ledgerVars, user, team, amt, cost, hold, settled>>

\* The breaker answers: below the threshold, or tripped or unreachable.
LoopCheck(r) ==
    /\ loop[r] = "running"
    /\ \E verdict \in {"pass", "block"} : loop' = [loop EXCEPT ![r] = verdict]
    /\ UNCHANGED <<ledgerVars, phase, user, team, amt, cost, hold, settled>>

\* What checkBudget does with the personal balance it has read: stop when
\* nothing is left, shrink the output cap when the ceiling does not fit
\* but the prompt does.  Team balances are left to ReserveBudget.
Affordable(r, q) == team[r] = NoTeam => q.total <= Available(row[user[r]])
Clampable(r, q) == ~Affordable(r, q) /\ q.input <= Available(row[user[r]])
Exhausted(r) == team[r] = NoTeam /\ Available(row[user[r]]) = 0

\* checkBudget up to the reservation: the key and the balance are read
\* (reads are retried), the catalog quotes, the quote is taken or clamped.
\* The clamped estimate is quoted again, so any total from the prompt's own
\* cost up to what is left may result.
Quote(r) ==
    /\ phase[r] = "check"
    /\ ~Exhausted(r)
    /\ \E q \in Quotes :
          \E n \in IF Affordable(r, q) THEN {q.total}
                   ELSE IF Clampable(r, q) THEN q.input .. Available(row[user[r]])
                   ELSE {} :
             amt' = [amt EXCEPT ![r] = n]
    /\ phase' = [phase EXCEPT ![r] = "reserve"]
    /\ UNCHANGED <<ledgerVars, loop, user, team, cost, hold, settled>>

\* Nothing left, a prompt that does not fit, or no room for one output token.
Unaffordable(r) ==
    /\ phase[r] = "check"
    /\ Exhausted(r) \/ \E q \in Quotes : ~Affordable(r, q)
    /\ phase' = [phase EXCEPT ![r] = "denied"]
    /\ UNCHANGED <<ledgerVars, loop, user, team, amt, cost, hold, settled>>

\* The handler answers and nobody waits for the loop check any more.
Answered(r) ==
    /\ phase' = [phase EXCEPT ![r] = "done"]
    /\ loop' = [loop EXCEPT ![r] = "none"]

\* Unknown key, no budget row, no model, no price, or the store is down:
\* preflight answers from the budget result alone.
CheckFails(r) ==
    /\ phase[r] = "check"
    /\ Answered(r)
    /\ UNCHANGED <<ledgerVars, user, team, amt, cost, hold, settled>>

\* ReserveBudget commits a hold and the guard learns of it.
ReserveGranted(r) ==
    /\ phase[r] = "reserve"
    /\ Reservable(user[r], team[r], amt[r])
    /\ AddHold(user[r], team[r], amt[r])
    /\ hold' = [hold EXCEPT ![r] = amt[r]]
    /\ phase' = [phase EXCEPT ![r] = "granted"]
    /\ UNCHANGED <<loop, user, team, amt, cost, settled>>

\* ReserveBudget commits a hold and the reply is lost.  It is never retried
\* and the guard reports a budget error, taking the request to hold nothing.
ReserveUnheard(r) ==
    /\ "lost_reserve" \in Env
    /\ phase[r] = "reserve"
    /\ Reservable(user[r], team[r], amt[r])
    /\ AddHold(user[r], team[r], amt[r])
    /\ hold' = [hold EXCEPT ![r] = amt[r]]
    /\ amt' = [amt EXCEPT ![r] = 0]
    /\ Answered(r)
    /\ UNCHANGED <<user, team, cost, settled>>

BugDeniedKeepsAmount(r) ==
    /\ phase[r] = "reserve"
    /\ Resolves(r)
    /\ ~Reservable(user[r], team[r], amt[r])
    /\ phase' = [phase EXCEPT ![r] = "denied"]
    /\ UNCHANGED <<ledgerVars, loop, user, team, amt, cost, hold, settled>>

\* Some row of the scope does not cover the amount.  A member increment
\* already made is rolled back with the transaction.
ReserveDenied(r) ==
    /\ phase[r] = "reserve"
    /\ Resolves(r)
    /\ ~Reservable(user[r], team[r], amt[r])
    /\ amt' = [amt EXCEPT ![r] = 0]
    /\ phase' = [phase EXCEPT ![r] = "denied"]
    /\ UNCHANGED <<ledgerVars, loop, user, team, cost, hold, settled>>

\* The team header names no team of the user, or the store call fails.
ReserveFails(r) ==
    /\ phase[r] = "reserve"
    /\ ~Resolves(r) \/ "error" \in Env
    /\ amt' = [amt EXCEPT ![r] = 0]
    /\ Answered(r)
    /\ UNCHANGED <<ledgerVars, user, team, cost, hold, settled>>

BugBlockedKeepsHold(r) ==
    /\ phase[r] \in {"granted", "denied"}
    /\ loop[r] \in {"pass", "block"}
    /\ phase' = [phase EXCEPT ![r] =
          IF loop[r] = "pass" /\ @ = "granted" THEN "forwarded" ELSE "done"]
    /\ loop' = [loop EXCEPT ![r] = "none"]
    /\ UNCHANGED <<ledgerVars, user, team, amt, cost, hold, settled>>

BugBlockNeverJoined(r) ==
    /\ phase[r] \in {"granted", "denied"}
    /\ loop[r] = "pass"
    /\ phase' = [phase EXCEPT ![r] = IF @ = "granted" THEN "forwarded" ELSE "done"]
    /\ loop' = [loop EXCEPT ![r] = "none"]
    /\ UNCHANGED <<ledgerVars, user, team, amt, cost, hold, settled>>

\* Both results are in.  The loop verdict comes first: a blocked request
\* gives its reservation back, whether or not it was affordable.  So does a
\* personal one whose lowered cap cannot be written into its body, of which
\* the model does not ask why: analyzeRequest has read the same body before.
Join(r) ==
    /\ phase[r] \in {"granted", "denied"}
    /\ loop[r] \in {"pass", "block"}
    /\ LET ended == IF amt[r] > 0 THEN "release" ELSE "done"
       IN  \E next \in IF loop[r] = "block" THEN {ended}
                       ELSE IF phase[r] = "denied" THEN {"done"}
                       ELSE {"forwarded", IF team[r] = NoTeam THEN ended ELSE "forwarded"} :
              phase' = [phase EXCEPT ![r] = next]
    /\ loop' = [loop EXCEPT ![r] = "none"]
    /\ UNCHANGED <<ledgerVars, user, team, amt, cost, hold, settled>>

-----------------------------------------------------------------------------
(* the provider, and the goroutines that follow it *)

\* The provider answers; c is the bill (0 for an error status), which can
\* exceed the estimate.
Complete(r) ==
    /\ phase[r] = "forwarded"
    /\ \E c \in Costs : cost' = [cost EXCEPT ![r] = c]
    /\ phase' = [phase EXCEPT ![r] = "settle"]
    /\ UNCHANGED <<ledgerVars, loop, user, team, amt, hold, settled>>

\* Copying the body fails (the client or the provider went away): the
\* reverse proxy panics out of ServeHTTP, past the settlement.
Abort(r) ==
    /\ "abort" \in Env
    /\ phase[r] = "forwarded"
    /\ phase' = [phase EXCEPT ![r] = "done"]
    /\ UNCHANGED <<ledgerVars, loop, user, team, amt, cost, hold, settled>>

BugSettleThenRelease(r) ==
    /\ phase[r] = "settle"
    /\ SettleReservedUsage(user[r], team[r], cost[r], amt[r])
    /\ hold' = [hold EXCEPT ![r] = 0]
    /\ settled' = [settled EXCEPT ![r] = TRUE]
    /\ phase' = [phase EXCEPT ![r] = "fallback"]
    /\ UNCHANGED <<loop, user, team, amt, cost>>

\* settleReservedUsageOnce commits; done, or with the reply lost, fallback.
Settle(r) ==
    /\ phase[r] = "settle"
    /\ SettleReservedUsage(user[r], team[r], cost[r], amt[r])
    /\ hold' = [hold EXCEPT ![r] = 0]
    /\ settled' = [settled EXCEPT ![r] = TRUE]
    /\ \E next \in {"done"} \cup (IF "lost_settle" \in Env THEN {"fallback"} ELSE {}) :
          phase' = [phase EXCEPT ![r] = next]
    /\ UNCHANGED <<loop, user, team, amt, cost>>

\* The one attempt to settle fails; settleUsageAsync turns to the fallback.
SettleFails(r) ==
    /\ phase[r] = "settle"
    /\ \/ (amt[r] > 0 \/ cost[r] > 0) /\ ~Resolves(r)
       \/ "error" \in Env
    /\ phase' = [phase EXCEPT ![r] = "fallback"]
    /\ UNCHANGED <<ledgerVars, loop, user, team, amt, cost, hold, settled>>

BugFallbackSettlesAgain(r) ==
    /\ phase[r] \in {"release", "fallback"}
    /\ SettleReservedUsage(user[r], team[r], cost[r], amt[r])
    /\ hold' = [hold EXCEPT ![r] = 0]
    /\ phase' = [phase EXCEPT ![r] = "done"]
    /\ UNCHANGED <<loop, user, team, amt, cost, settled>>

\* releaseReservationAsync after a loop block, releaseReservationSync as the
\* fallback.  A lost reply changes nothing: nobody reads the result.
Release(r) ==
    /\ phase[r] \in {"release", "fallback"}
    /\ ReleaseReservation(user[r], team[r], amt[r])
    /\ hold' = [hold EXCEPT ![r] = 0]
    /\ phase' = [phase EXCEPT ![r] = "done"]
    /\ UNCHANGED <<loop, user, team, amt, cost, settled>>

\* The one attempt to release fails and is only logged.
ReleaseFails(r) ==
    /\ phase[r] \in {"release", "fallback"}
    /\ amt[r] > 0
    /\ ~Resolves(r) \/ "error" \in Env
    /\ phase' = [phase EXCEPT ![r] = "done"]
    /\ UNCHANGED <<ledgerVars, loop, user, team, amt, cost, hold, settled>>

\* The process exits: handlers and detached goroutines are gone, rows stay.
Crash ==
    /\ "crash" \in Env
    /\ phase' = [r \in Requests |-> IF phase[r] = "idle" THEN "idle" ELSE "done"]
    /\ loop' = [r \in Requests |-> "none"]
    /\ UNCHANGED <<ledgerVars, user, team, amt, cost, hold, settled>>

-----------------------------------------------------------------------------
(* administrators and team owners *)
Admin ==
    /\ \/ /\ "limit" \in Env
          /\ \E limit \in Limits :
                \/ \E u \in Users : UpdateUserBudget(u, limit, FALSE)
                \/ \E t \in Teams : UpdateTeamBudget(t, limit)
                \/ \E t \in Teams, u \in Users : UpdateTeamMemberCap(t, u, limit)
       \/ /\ "reset" \in Env
          /\ \E u \in Users, limit \in Limits : UpdateUserBudget(u, limit, TRUE)
       \/ /\ "remove" \in Env
          /\ \E t \in Teams, u \in Users : RemoveTeamMember(t, u)
    /\ UNCHANGED reqVars

Step(r) ==
    \/ Arrive(r) \/ LoopCheck(r)
    \/ Quote(r) \/ Unaffordable(r) \/ CheckFails(r)
    \/ ReserveGranted(r) \/ ReserveUnheard(r) \/ ReserveDenied(r) \/ ReserveFails(r)
    \/ Join(r) \/ Complete(r) \/ Abort(r)
    \/ Settle(r) \/ SettleFails(r) \/ Release(r) \/ ReleaseFails(r)

Next == (\E r \in Requests : Step(r)) \/ Crash \/ Admin

Spec == Init /\ [][Next]_vars

\* Goroutines keep running, the breaker and the store answer, and every
\* forwarded exchange ends.  Arrivals, faults and administrators owe nothing.
Fairness ==
    \A r \in Requests :
        /\ WF_vars(LoopCheck(r))
        /\ WF_vars(Quote(r) \/ Unaffordable(r) \/ CheckFails(r))
        /\ WF_vars(ReserveGranted(r) \/ ReserveDenied(r) \/ ReserveFails(r))
        /\ WF_vars(Join(r))
        /\ WF_vars(Complete(r))
        /\ WF_vars(Settle(r) \/ SettleFails(r))
        /\ WF_vars(Release(r) \/ ReleaseFails(r))

FairSpec == Spec /\ Fairness

-----------------------------------------------------------------------------
(* Properties *)

\* What the requests that satisfy the history hold on account a, were
\* billed on it, and were billed beyond what they had reserved.
HoldOn(a) == [r \in Requests |-> IF a \in ScopeOf(r) THEN hold[r] ELSE 0]
BillOn(a) == [r \in Requests |-> IF settled[r] /\ a \in ScopeOf(r) THEN cost[r] ELSE 0]
OverrunOn(a) == [r \in Requests |->
    IF settled[r] /\ a \in ScopeOf(r) /\ cost[r] > amt[r] THEN cost[r] - amt[r] ELSE 0]

\* What the handler believes it has reserved is what the rows hold for it, in
\* every phase in which it can still act on that belief: nothing before the
\* grant, the whole amount until the settlement or release commits
\* (budgetCheckResult.reserved, guardContext.reservedMicroUSD).
HoldFollowsPhase ==
    \A r \in Requests :
        /\ phase[r] \in {"idle", "check", "reserve", "denied"} => hold[r] = 0
        /\ phase[r] \in {"granted", "forwarded", "settle", "release"} => hold[r] = amt[r]
        /\ phase[r] \in {"idle", "check", "denied"} => amt[r] = 0
        /\ phase[r] = "fallback" => hold[r] = IF settled[r] THEN 0 ELSE amt[r]
        /\ phase[r] \notin {"fallback", "done"} => ~settled[r]

\* Every reserved_microusd column is the sum of the holds the requests really
\* have on that row: no release hits another request's hold, none is counted
\* twice and MAX(0, ...) never hides a mistake (usage.go Reserve/Release/settle).
ReservedIsOutstanding ==
    \A a \in Accounts : row[a].reserved = Total(HoldOn(a))

\* Every spent_microusd column is the sum of the bills of the settled requests
\* that spend on it: charged once, to the right rows, and never for a blocked
\* or rejected request (recordUsage, settleReservedUsageOnce).
SpentIsBilled ==
    \A a \in Accounts : row[a].spent = Total(BillOn(a))

\* While limits stand, spending and holds together pass a limit only by what
\* providers billed beyond the reservations: concurrent admissions never
\* oversubscribe a user, a cap or a pool (ReserveBudget, reserveTeamBudget).
Solvent ==
    \A a \in Accounts : row[a].spent + row[a].reserved <= row[a].limit + Total(OverrunOn(a))

\* A request at the provider is backed on every row it spends on: nothing that
\* happens to other requests takes its reservation away (preflight's promise
\* that a forwarded request is covered).
ForwardedIsBacked ==
    \A r \in Requests : phase[r] = "forwarded" =>
        \A a \in ScopeOf(r) : row[a].reserved >= amt[r]

\* A pool row is the sum of its membership rows, removed members included:
\* the two UPDATEs of each team transaction stay in step.
PoolIsMembers ==
    \A t \in Teams :
        /\ row[t].spent = Total([u \in Users |-> row[<<t, u>>].spent])
        /\ row[t].reserved = Total([u \in Users |-> row[<<t, u>>].reserved])

\* A finished request keeps nothing on hold (HOW_TO_USE.md:449: the actual
\* cost is settled after the response, or the reservation is released).
FinishedHoldsNothing ==
    \A r \in Requests : phase[r] = "done" => hold[r] = 0

\* A hold is not kept for ever: what ReserveBudget took comes back through the
\* detached goroutines, however requests interleave.
HoldsComeBack == \A r \in Requests : hold[r] > 0 ~> hold[r] = 0

\* preflight answers or forwards every request it starts on, although it waits
\* for two goroutines, and a forwarded one is settled.
EveryRequestEnds == \A r \in Requests : phase[r] = "check" ~> phase[r] = "done"

\* The counters implement the book of holds.
Book == INSTANCE HoldBook WITH
    Account <- Accounts, Request <- Requests, Cost <- Costs,
    Limit <- Limits \cup {StartLimit[a] : a \in Accounts},
    limit <- [a \in Accounts |-> row[a].limit],
    paid <- [a \in Accounts |-> row[a].spent],
    on <- [r \in Requests |-> ScopeOf(r)],
    hold <- hold,
    charged <- {r \in Requests : settled[r]}

\* Admission against the stored counters is admission against the holds
\* themselves, a hold ends once, and a bill is charged to the whole scope.
ImplementsBook == Book!BookSpec
=============================================================================

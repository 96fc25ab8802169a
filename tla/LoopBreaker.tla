----------------------------- MODULE LoopBreaker -----------------------------
(***************************************************************************)
(* The loop circuit breaker (internal/cache/circuit_breaker.go): each      *)
(* check runs one Lua script in Redis that increments the counter of its   *)
(* key and, on the first increment, gives the key its time to live.        *)
(*                                                                         *)
(* A check is one HTTP exchange with a client timeout (client.go).  Redis  *)
(* may run the script after the client has given up: that call blocks its  *)
(* request (guard.go turns an error into a refusal) and counts all the     *)
(* same.  Nothing is retried.                                              *)
(*                                                                         *)
(* An operator named Bug... is a wrong version of the one that follows it, *)
(* used to see a property fail; no specification refers to it.             *)
(***************************************************************************)
EXTENDS Integers, FiniteSets

CONSTANTS
    Requests,   \* each makes one check
    Keys,       \* what a session hash and a payload hash make up
    TTL,        \* ticks of the clock a counter lives
    Threshold   \* the count that trips

ASSUME RequestsAssumption == IsFiniteSet(Requests)
ASSUME TTLAssumption == TTL \in Nat \ {0}
ASSUME ThresholdAssumption == Threshold \in Nat \ {0}

VARIABLES
    count,      \* count[k]: the value in Redis, 0 when there is no such key
    left,       \* left[k]: ticks until Redis drops the key, 0 for none
    key,        \* key[r]: the key of request r
    call,       \* call[r]: the check as its goroutine sees it
    script,     \* script[r]: whether Redis has run it
    seen,       \* seen[r]: the count the script returned
    age         \* age[r]: ticks since the script ran, TTL at most

vars == <<count, left, key, call, script, seen, age>>

Calls == {"idle", "waiting", "passed", "tripped", "failed"}
Scripts == {"none", "sent", "run"}

TypeOK ==
    /\ count \in [Keys -> Nat]
    /\ left \in [Keys -> 0 .. TTL]
    /\ key \in [Requests -> Keys]
    /\ call \in [Requests -> Calls]
    /\ script \in [Requests -> Scripts]
    /\ seen \in [Requests -> Nat]
    /\ age \in [Requests -> 0 .. TTL]

Init ==
    /\ count = [k \in Keys |-> 0]
    /\ left = [k \in Keys |-> 0]
    /\ key \in [Requests -> Keys]
    /\ call = [r \in Requests |-> "idle"]
    /\ script = [r \in Requests |-> "none"]
    /\ seen = [r \in Requests |-> 0]
    /\ age = [r \in Requests |-> 0]

\* Check posts the script.
Check(r) ==
    /\ call[r] = "idle"
    /\ call' = [call EXCEPT ![r] = "waiting"]
    /\ script' = [script EXCEPT ![r] = "sent"]
    /\ UNCHANGED <<count, left, key, seen, age>>

BugExpireInMillis(r) ==
    /\ script[r] = "sent"
    /\ count' = [count EXCEPT ![key[r]] = @ + 1]
    /\ left' = [left EXCEPT ![key[r]] = IF count[key[r]] = 0 THEN 1000 * TTL ELSE @]
    /\ script' = [script EXCEPT ![r] = "run"]
    /\ seen' = [seen EXCEPT ![r] = count[key[r]] + 1]
    /\ age' = [age EXCEPT ![r] = 0]
    /\ UNCHANGED <<key, call>>

BugExpireEachTime(r) ==
    /\ script[r] = "sent"
    /\ count' = [count EXCEPT ![key[r]] = @ + 1]
    /\ left' = [left EXCEPT ![key[r]] = TTL]
    /\ script' = [script EXCEPT ![r] = "run"]
    /\ seen' = [seen EXCEPT ![r] = count[key[r]] + 1]
    /\ age' = [age EXCEPT ![r] = 0]
    /\ UNCHANGED <<key, call>>

BugExpireNever(r) ==
    /\ script[r] = "sent"
    /\ count' = [count EXCEPT ![key[r]] = @ + 1]
    /\ script' = [script EXCEPT ![r] = "run"]
    /\ seen' = [seen EXCEPT ![r] = count[key[r]] + 1]
    /\ age' = [age EXCEPT ![r] = 0]
    /\ UNCHANGED <<left, key, call>>

\* loopCounterScript: INCR, and EXPIRE when the count is 1, in one step.
\* The caller may have given up long before.
Count(r) ==
    /\ script[r] = "sent"
    /\ count' = [count EXCEPT ![key[r]] = @ + 1]
    /\ left' = [left EXCEPT ![key[r]] = IF count[key[r]] = 0 THEN TTL ELSE @]
    /\ script' = [script EXCEPT ![r] = "run"]
    /\ seen' = [seen EXCEPT ![r] = count[key[r]] + 1]
    /\ age' = [age EXCEPT ![r] = 0]
    /\ UNCHANGED <<key, call>>

BugTrippedTooLate(n) == n > Threshold

Tripped(n) == n >= Threshold

\* The reply arrives in time.
Reply(r) ==
    /\ call[r] = "waiting"
    /\ script[r] = "run"
    /\ call' = [call EXCEPT ![r] = IF Tripped(seen[r]) THEN "tripped" ELSE "passed"]
    /\ UNCHANGED <<count, left, key, script, seen, age>>

BugNoTimeout(r) ==
    /\ call[r] = "waiting"
    /\ script[r] = "run"
    /\ call' = [call EXCEPT ![r] = "failed"]
    /\ UNCHANGED <<count, left, key, script, seen, age>>

\* The HTTP client times out, or Redis answers with an error.  The script may
\* have run, may still run, or may never have arrived.
GiveUp(r) ==
    /\ call[r] = "waiting"
    /\ call' = [call EXCEPT ![r] = "failed"]
    /\ UNCHANGED <<count, left, key, script, seen, age>>

\* Time passes; Redis drops the keys whose time has come.
Tick ==
    /\ count' = [k \in Keys |-> IF left[k] = 1 THEN 0 ELSE count[k]]
    /\ left' = [k \in Keys |-> IF left[k] > 0 THEN left[k] - 1 ELSE 0]
    /\ age' = [r \in Requests |->
                 IF script[r] = "run" /\ age[r] < TTL THEN age[r] + 1 ELSE age[r]]
    /\ UNCHANGED <<key, call, script, seen>>

Next == (\E r \in Requests : Check(r) \/ Count(r) \/ Reply(r) \/ GiveUp(r)) \/ Tick

Spec == Init /\ [][Next]_vars

\* Time passes, and a check hears from Redis or times out.  Nobody owes a
\* request, and Redis owes no check its script.
Fairness == WF_vars(Tick) /\ \A r \in Requests : WF_vars(Reply(r) \/ GiveUp(r))

FairSpec == Spec /\ Fairness

-----------------------------------------------------------------------------
(* Properties *)

\* The requests counted under key k; those since its counter was last
\* created; and those of the last TTL ticks that were let through.
Counted(k) == {r \in Requests : script[r] = "run" /\ key[r] = k}
Window(k) == {r \in Counted(k) : count[k] > 0 /\ age[r] <= TTL - left[k]}
LetThrough(k) == {r \in Counted(k) : call[r] = "passed" /\ age[r] < TTL}

\* A counter is exactly the checks of its window, calls nobody waited for
\* included: it starts again with the first check after it was dropped, and
\* a stream of checks does not keep it alive (the EXPIRE at count 1 only).
CountIsWindow == \A k \in Keys : count[k] = Cardinality(Window(k))

\* In any TTL ticks, wherever they start, at most 2 * Threshold - 3 equal calls
\* of a session get through: Threshold - 1 of the window that is open, and
\* of the one before all but its first, which is at least TTL old.
FewGetThrough ==
    \A k \in Keys : LetThrough(k) = {} \/ Cardinality(LetThrough(k)) <= 2 * Threshold - 3

\* HOW_TO_USE.md:420: of equal calls of a session within the TTL, the
\* Threshold-th is blocked.
LoopsAreBlocked == \A k \in Keys : Cardinality(LetThrough(k)) < Threshold

\* However often a session repeats itself, its counter is dropped again: a
\* tripped breaker does not stay tripped.
CountersExpire == \A k \in Keys : count[k] > 0 ~> count[k] = 0

\* The goroutine that checks always has a verdict for preflight to receive,
\* also when Redis never answers (the HTTP client's timeout).
ChecksEnd == \A r \in Requests : call[r] = "waiting" ~> call[r] \in {"passed", "tripped", "failed"}
=============================================================================

----------------------------- MODULE GuardDrift -----------------------------
(***************************************************************************)
(* Guard with the two things that make its counters drift away from the    *)
(* holds they stand for: a settlement whose reply was lost, so that the    *)
(* fallback releases its amount a second time out of what others hold      *)
(* (guard.go, settleUsageAsync), and a removed member who is added again   *)
(* while requests of the old membership are in flight, which sets the      *)
(* seat's reserved_microusd to 0 and leaves the pool's as it is (teams.go, *)
(* upsertActiveMember).                                                    *)
(*                                                                         *)
(* twice and forgotten are history variables.  They bound the damage: no    *)
(* counter ever shows more than is held, and none shows less by more than  *)
(* what was released twice on it or, on a seat, forgotten.                 *)
(*                                                                         *)
(* An operator named Bug... is a wrong version of the one that follows it, *)
(* used to see a property fail; no specification refers to it.             *)
(***************************************************************************)
EXTENDS Guard

CONSTANT MaxAdds    \* the calls that may be adding the same member again

VARIABLES
    adding,     \* adding[s]: how many calls have found seat s removed
    twice,      \* the requests whose fallback released what had been settled
    forgotten   \* forgotten[s]: what seat s had reserved when it was revived

driftVars == <<vars, adding, twice, forgotten>>

ASSUME MaxAddsAssumption == MaxAdds \in Nat

DriftInit ==
    /\ Init
    /\ adding = [s \in Teams \X Users |-> 0]
    /\ twice = {}
    /\ forgotten = [s \in Teams \X Users |-> 0]

\* The fallback releases what a settlement has already dropped.
ReleasesAgain(r) == phase[r] = "fallback" /\ settled[r] /\ Release(r)

ReleaseTwice(r) ==
    /\ ReleasesAgain(r)
    /\ twice' = twice \cup {r}
    /\ UNCHANGED <<adding, forgotten>>

\* Every other step of the guard and of its surroundings.
GuardStep ==
    /\ Next
    /\ ~\E r \in Requests : ReleasesAgain(r)
    /\ UNCHANGED <<adding, twice, forgotten>>

\* upsertActiveMember, for an owner or for an acceptance: the seat has a row,
\* and it is not active.
FindSeat(s) ==
    /\ s \in StartMembers \ active
    /\ adding[s] < MaxAdds
    /\ adding' = [adding EXCEPT ![s] = @ + 1]
    /\ UNCHANGED <<vars, twice, forgotten>>

BugReviveSeat(s) ==
    /\ adding[s] > 0
    /\ \E cap \in Limits :
          row' = [row EXCEPT ![s] = [limit |-> cap, spent |-> 0, reserved |-> 0],
                             ![s[1]].reserved = @ - row[s].reserved]
    /\ active' = active \cup {s}
    /\ adding' = [adding EXCEPT ![s] = @ - 1]
    /\ forgotten' = [forgotten EXCEPT ![s] = @ + row[s].reserved]
    /\ UNCHANGED <<reqVars, twice>>

\* ... and a statement later the row is written, whatever it has become: two
\* calls can do so one after the other, with requests in between.
ReviveSeat(s) ==
    /\ adding[s] > 0
    /\ \E cap \in Limits :
          row' = [row EXCEPT ![s] = [limit |-> cap, spent |-> 0, reserved |-> 0]]
    /\ active' = active \cup {s}
    /\ adding' = [adding EXCEPT ![s] = @ - 1]
    /\ forgotten' = [forgotten EXCEPT ![s] = @ + row[s].reserved]
    /\ UNCHANGED <<reqVars, twice>>

DriftNext ==
    \/ GuardStep
    \/ \E r \in Requests : ReleaseTwice(r)
    \/ \E s \in Teams \X Users : FindSeat(s) \/ ReviveSeat(s)

DriftSpec == DriftInit /\ [][DriftNext]_driftVars

-----------------------------------------------------------------------------
(* Properties *)

DriftTypeOK ==
    /\ TypeOK
    /\ adding \in [Teams \X Users -> 0 .. MaxAdds]
    /\ twice \subseteq Requests
    /\ forgotten \in [Teams \X Users -> Nat]

\* What row a was made to forget that was held: of each request that released
\* twice its amount, and what a seat had reserved when it was revived.
TwiceOn(a) == [r \in Requests |-> IF r \in twice /\ a \in ScopeOf(r) THEN amt[r] ELSE 0]
Drift(a) == Total(TwiceOn(a)) + IF a \in Teams \X Users THEN forgotten[a] ELSE 0

\* Whatever is lost, exits or is removed and added again, a counter never shows
\* more than the requests on its row hold, so none is denied for a hold nobody
\* has, and never less by more than its drift: each lost settlement reply frees
\* its own amount once (guard.go:466), and adding a member again never touches
\* users and pools, to which the old membership's requests still give back what
\* they took (teams.go:344).
CountersErrLow ==
    \A a \in Accounts :
        LET held == Total(HoldOn(a))
        IN  row[a].reserved <= held /\ held <= row[a].reserved + Drift(a)

\* While limits stand, spending and true holds pass a limit by what providers
\* billed beyond the reservations and by the drift, and by nothing else.
SolventDespiteDrift ==
    \A a \in Accounts :
        row[a].spent + Total(HoldOn(a)) <= row[a].limit + Total(OverrunOn(a)) + Drift(a)

\* Where no settlement reply is lost, what users and pools have reserved is what
\* is held on them, although members leave and come back in the meantime.
PoolsAreExact ==
    \A a \in Users \cup Teams : row[a].reserved = Total(HoldOn(a))
=============================================================================

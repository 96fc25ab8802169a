------------------------------ MODULE MCGuard -------------------------------
(***************************************************************************)
(* Two users, one team that alice owns, two or three requests of theirs.   *)
(***************************************************************************)
EXTENDS Guard, TLC

CONSTANTS r1, r2, r3, alice, bob, crew

TwoRequests == {r1, r2}
ThreeRequests == {r1, r2, r3}
BothUsers == {alice, bob}
OneTeam == {crew}
AliceOwns == [t \in OneTeam |-> alice]
Everyone == OneTeam \X BothUsers

\* The pool is smaller than the caps together, so members compete for it;
\* alice's own row fits a second, clamped request beside her first.
SmallLimits == [a \in BothUsers \cup OneTeam \cup (OneTeam \X BothUsers) |->
                  IF a \in OneTeam \cup {alice} THEN 3 ELSE 2]

\* A call whose ceiling can need clamping, also beside a free model, and
\* beside a cheap call and one most rows never cover.
ClampQuote == {[input |-> 1, total |-> 2]}
FewQuotes == ClampQuote \cup {[input |-> 0, total |-> 0]}
MoreQuotes == FewQuotes \cup {[input |-> 1, total |-> 1], [input |-> 1, total |-> 3]}

\* A provider error and a bill beyond the estimate; also a bill within it.
FewCosts == {0, 3}
MoreCosts == FewCosts \cup {1}

\* What may happen in a run.
Administration == {"limit", "reset"}
LostSettle == {"lost_settle"}
AnyFault == {"error", "lost_reserve", "lost_settle", "abort", "crash", "remove"}
Losses == {"lost_reserve", "lost_settle", "crash", "remove"}
Removal == {"remove"}
Hangup == {"abort"}

RequestSymmetry == Permutations(Requests)
=============================================================================

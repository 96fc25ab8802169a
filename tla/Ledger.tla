------------------------------- MODULE Ledger -------------------------------
(***************************************************************************)
(* The budget rows of the billing store (internal/billing): one row per    *)
(* user (user_budgets), per team (teams, the pool) and per membership      *)
(* (team_members, the cap).  Each operator below is one SQL transaction or *)
(* one guarded UPDATE; Turso runs them serially, so each is atomic.        *)
(*                                                                         *)
(* A request spends on its user's personal row, or, when it names a team   *)
(* in X-TokenGuard-Team-ID, on the membership row and the pool together.   *)
(*                                                                         *)
(* An operator named Bug... is a wrong version of the one that follows it, *)
(* used to see a property fail; no specification refers to it.             *)
(***************************************************************************)
EXTENDS Integers, FiniteSets

CONSTANTS
    Users,          \* user ids
    Teams,          \* team ids
    NoTeam,         \* "no X-TokenGuard-Team-ID header"
    Owner,          \* Owner[t]: the user who owns team t
    StartMembers,   \* the memberships there are at the start
    StartLimit      \* the limit each row is created with

VARIABLES
    row,            \* row[a]: the budget columns of account a
    active          \* the memberships <<t, u>> with status = 'active'

ledgerVars == <<row, active>>

Accounts == Users \cup Teams \cup (Teams \X Users)

ASSUME UsersAssumption == IsFiniteSet(Users)

\* user_budgets, teams and team_members are three tables: no row is in two.
ASSUME TablesAssumption ==
    /\ Users \cap Teams = {}
    /\ (Users \cup Teams) \cap (Teams \X Users) = {}

ASSUME OwnerAssumption == Owner \in [Teams -> Users]
ASSUME NoTeamAssumption == NoTeam \notin Teams
ASSUME StartMembersAssumption ==
    /\ StartMembers \subseteq Teams \X Users
    /\ \A t \in Teams : <<t, Owner[t]>> \in StartMembers
ASSUME StartLimitAssumption == StartLimit \in [Accounts -> Nat]

\* SELECT of the columns a spending decision looks at.
Row == [limit : Nat, spent : Nat, reserved : Nat]

\* Room left on a row; never shown as negative.
Available(b) ==
    LET left == b.limit - b.spent - b.reserved
    IN  IF left < 0 THEN 0 ELSE left

BugCoverIgnoresHolds(b, n) == b.limit > b.spent /\ b.limit - b.spent >= n

\* Nothing left is never affordable, not even for a zero estimate.
CanCover(b, n) == Available(b) > 0 /\ Available(b) >= n

\* The rows a request of user u under header t charges.
Scope(u, t) == IF t = NoTeam THEN {u} ELSE {<<t, u>>, t}

\* The header names no team, or a team u is an active member of.
InScope(u, t) == t = NoTeam \/ <<t, u>> \in active

-----------------------------------------------------------------------------
LedgerInit ==
    /\ row = [a \in Accounts |-> [limit |-> StartLimit[a], spent |-> 0, reserved |-> 0]]
    /\ active = StartMembers

\* ReserveBudget grants n: every row of the scope covers n and holds it.
\* A zero amount is affordable on the same terms and holds nothing.
Reservable(u, t, n) == InScope(u, t) /\ \A a \in Scope(u, t) : CanCover(row[a], n)

BugHoldSkipsPool(u, t, n) ==
    /\ row' = [a \in Accounts |->
                 IF a \in Scope(u, t) \ Teams THEN [row[a] EXCEPT !.reserved = @ + n] ELSE row[a]]
    /\ UNCHANGED active

AddHold(u, t, n) ==
    /\ row' = [a \in Accounts |->
                 IF a \in Scope(u, t) THEN [row[a] EXCEPT !.reserved = @ + n] ELSE row[a]]
    /\ UNCHANGED active

BugPostedRefundsSpent(b, cost, n) ==
    [b EXCEPT !.spent = @ + cost - n, !.reserved = IF @ > n THEN @ - n ELSE 0]

BugPostedUncut(b, cost, n) == [b EXCEPT !.spent = @ + cost, !.reserved = @ - n]

\* One UPDATE ... SET spent = spent + cost, reserved = MAX(0, reserved - n).
Posted(b, cost, n) ==
    [b EXCEPT !.spent = @ + cost,
              !.reserved = IF @ > n THEN @ - n ELSE 0]

Post(u, t, cost, n) ==
    /\ row' = [a \in Accounts |->
                 IF a \in Scope(u, t) THEN Posted(row[a], cost, n) ELSE row[a]]
    /\ UNCHANGED active

BugReleaseLosesTeam(u, t, n) == (n > 0 => InScope(u, t)) /\ Post(u, NoTeam, 0, n)

\* ReleaseReservation: nothing to do for n = 0; otherwise the scope must
\* still resolve, or the transaction fails and the hold stays.
ReleaseReservation(u, t, n) == (n > 0 => InScope(u, t)) /\ Post(u, t, 0, n)

\* SettleReservedUsage: charge cost and drop the hold n in one transaction.
\* The scope is looked up only when a budget row has to change.
SettleReservedUsage(u, t, cost, n) ==
    (n > 0 \/ cost > 0 => InScope(u, t)) /\ Post(u, t, cost, n)

-----------------------------------------------------------------------------
BugResetForgetsHolds(u, limit, reset) ==
    /\ row' = [row EXCEPT ![u].limit = limit,
                          ![u].spent = IF reset THEN 0 ELSE @,
                          ![u].reserved = IF reset THEN 0 ELSE @]
    /\ UNCHANGED active

\* UpdateUserBudget: a new limit; a reset also forgets what was spent.
\* Outstanding holds are not touched.
UpdateUserBudget(u, limit, reset) ==
    /\ row' = [row EXCEPT ![u].limit = limit,
                          ![u].spent = IF reset THEN 0 ELSE @]
    /\ UNCHANGED active

\* UpdateTeamBudget: the pool limit, then the owner's cap in a second
\* statement whose failure is ignored.  What can happen between the two
\* statements is a failed second one followed by UpdateTeamMemberCap.
UpdateTeamBudget(t, limit) ==
    /\ \E cap \in {limit, row[<<t, Owner[t]>>].limit} :
          row' = [row EXCEPT ![t].limit = limit, ![<<t, Owner[t]>>].limit = cap]
    /\ UNCHANGED active

\* UpdateTeamMemberCap.  The cap was compared with a pool limit read in an
\* earlier statement, which may have changed since: any cap may arrive here.
UpdateTeamMemberCap(t, u, cap) ==
    /\ <<t, u>> \in active
    /\ row' = [row EXCEPT ![<<t, u>>].limit = cap]
    /\ UNCHANGED active

\* RemoveTeamMember: the row stays, with its spent and reserved columns.
RemoveTeamMember(t, u) ==
    /\ u # Owner[t]
    /\ <<t, u>> \in active
    /\ active' = active \ {<<t, u>>}
    /\ UNCHANGED row
=============================================================================

------------------------------ MODULE HoldBook ------------------------------
(***************************************************************************)
(* What the guard promises about money, with no counters and no goroutines *)
(* (docs/DESIGN.md, "Reserve, then settle").  The book lists every hold by *)
(* request.  A request is admitted only while each account it spends on    *)
(* has that much free beside everybody else's holds; its hold ends by      *)
(* being charged or returned; and it is charged at most once.              *)
(***************************************************************************)
EXTENDS Totals

CONSTANTS
    Account,
    Request,
    Cost,       \* what a provider may bill
    Limit       \* what an account may be allowed

VARIABLES
    limit,      \* limit[a]: what account a may spend
    paid,       \* paid[a]: what it has been charged
    on,         \* on[r]: the accounts request r spends on
    hold,       \* hold[r]: what r holds on each account of on[r]
    charged     \* the requests that have been charged

bookVars == <<limit, paid, on, hold, charged>>

\* Everything held on account a, and what that leaves.
Held(a) == Total([r \in Request |-> IF a \in on[r] THEN hold[r] ELSE 0])
Free(a) == limit[a] - paid[a] - Held(a)

BookInit ==
    /\ limit \in [Account -> Limit]
    /\ paid = [a \in Account |-> 0]
    /\ on \in [Request -> SUBSET Account]
    /\ hold = [r \in Request |-> 0]
    /\ charged = {}

\* r is admitted with a hold that fits in what every account has free.
Admit(r) ==
    /\ UNCHANGED <<limit, paid, on, charged>>
    /\ hold[r] = 0
    /\ r \notin charged
    /\ \E a \in on[r] : \E n \in 1 .. Free(a) :
          /\ \A b \in on[r] : n <= Free(b)
          /\ hold' = [hold EXCEPT ![r] = n]

\* The provider's bill for r is charged, and whatever r held ends with it.
Charge(r) ==
    /\ UNCHANGED <<limit, on>>
    /\ r \notin charged
    /\ charged' = charged \cup {r}
    /\ \E c \in Cost : paid' = [a \in Account |-> IF a \in on[r] THEN paid[a] + c ELSE paid[a]]
    /\ hold' = [hold EXCEPT ![r] = 0]

\* r's hold is returned uncharged.
Return(r) ==
    /\ UNCHANGED <<limit, paid, on, charged>>
    /\ hold' = [hold EXCEPT ![r] = 0]

\* Administrators set limits as they like, and may forget what was paid.
Adjust ==
    /\ UNCHANGED <<on, hold, charged>>
    /\ limit' \in [Account -> Limit]
    /\ paid' \in [Account -> Nat]
    /\ \A a \in Account : paid'[a] \in {0, paid[a]}

BookNext == (\E r \in Request : Admit(r) \/ Charge(r) \/ Return(r)) \/ Adjust

BookSpec == BookInit /\ [][BookNext]_bookVars
=============================================================================

------------------------ MODULE LoopBreakerTheorems -------------------------
(***************************************************************************)
(* What is proved about LoopBreaker for every threshold, every time to     *)
(* live, and every set of keys and requests.                               *)
(***************************************************************************)
EXTENDS LoopBreaker, FiniteSetTheorems, TLAPS

USE TTLAssumption, ThresholdAssumption DEF Calls, Scripts

\* The checks of the last TTL ticks that an earlier counter counted.
Before(k) == {r \in Counted(k) \ Window(k) : age[r] < TTL}

\* A request that got through was counted, below the threshold; one that has
\* not been checked was not counted.
PassedBelow ==
    \A r \in Requests :
        /\ call[r] = "passed" => script[r] = "run" /\ seen[r] < Threshold
        /\ call[r] = "idle" => script[r] = "none"

\* A key is there while it has time left, and without one all checks are past.
DroppedInTime ==
    \A k \in Keys :
        /\ count[k] = 0 <=> left[k] = 0
        /\ count[k] = 0 => \A r \in Counted(k) : age[r] > 0

\* Within a window the counts returned are different, and the first is as old
\* as the window.
WindowInOrder ==
    \A k \in Keys :
        /\ \A r \in Window(k) : seen[r] \in 1 .. count[k]
        /\ \A r \in Window(k) : seen[r] = 1 => age[r] = TTL - left[k]
        /\ \A r, q \in Window(k) : seen[r] = seen[q] => r = q

\* Of the window before, the first check is no longer among the last TTL ticks.
BeforeInOrder ==
    \A k \in Keys :
        /\ \A r \in Before(k) : seen[r] > 1
        /\ \A r, q \in Before(k) : seen[r] = seen[q] => r = q

WInv == TypeOK /\ PassedBelow /\ DroppedInTime /\ WindowInOrder /\ BeforeInOrder

-----------------------------------------------------------------------------
LEMMA TypeStep == TypeOK /\ [Next]_vars => TypeOK'
<1> SUFFICES ASSUME TypeOK, [Next]_vars PROVE TypeOK'
    OBVIOUS
<1> USE DEF TypeOK
<1>1. CASE \E r \in Requests : Check(r)
    BY <1>1 DEF Check
<1>2. CASE \E r \in Requests : Count(r)
    <2>1. PICK r \in Requests : Count(r)
        BY <1>2
    <2>2. count[key[r]] \in Nat /\ left[key[r]] \in 0 .. TTL /\ key[r] \in Keys
        OBVIOUS
    <2>q. QED
        BY <2>1, <2>2 DEF Count
<1>3. CASE \E r \in Requests : Reply(r)
    BY <1>3 DEF Reply
<1>4. CASE \E r \in Requests : GiveUp(r)
    BY <1>4 DEF GiveUp
<1>5. CASE Tick
    BY <1>5 DEF Tick
<1>6. CASE UNCHANGED vars
    BY <1>6 DEF vars
<1>q. QED
    BY <1>1, <1>2, <1>3, <1>4, <1>5, <1>6 DEF Next

\* The counts and the lives of counters are in range (the EXPIRE argument is
\* the TTL, and DECR is never used), whatever calls are lost or late.
THEOREM TypeCorrect == Spec => []TypeOK
<1>1. Init => TypeOK
    BY DEF Init, TypeOK
<1>q. QED
    BY <1>1, TypeStep, PTL DEF Spec

-----------------------------------------------------------------------------
(* Windows *)

\* What the clock, the counts and the scripts leave alone.
LEMMA WindowsStay ==
    ASSUME WInv, UNCHANGED <<count, left, key, seen, age>>,
           \A r \in Requests : script'[r] = "run" <=> script[r] = "run"
    PROVE  /\ \A k \in Keys : Window(k)' = Window(k)
           /\ DroppedInTime' /\ WindowInOrder' /\ BeforeInOrder'
<1>1. \A k \in Keys : Counted(k)' = Counted(k)
    BY DEF Counted
<1>2. \A k \in Keys : Window(k)' = Window(k) /\ Before(k)' = Before(k)
    BY <1>1 DEF Window, Before
<1>3. DroppedInTime'
    BY <1>1 DEF WInv, DroppedInTime
<1>4. WindowInOrder' /\ BeforeInOrder'
    BY <1>2 DEF WInv, WindowInOrder, BeforeInOrder
<1>q. QED
    BY <1>2, <1>3, <1>4

\* A script adds its request to the window of its key, which it opens if
\* there is none, and to no other.
LEMMA WindowGrows ==
    ASSUME WInv, NEW r \in Requests, Count(r), NEW k \in Keys
    PROVE  /\ Window(k)' = IF k = key[r] THEN Window(k) \cup {r} ELSE Window(k)
           /\ Before(k)' = Before(k)
           /\ Counted(k)' = IF k = key[r] THEN Counted(k) \cup {r} ELSE Counted(k)
           /\ r \notin Counted(k)
<1> USE DEF WInv, TypeOK
<1>1. Counted(k)' = IF k = key[r] THEN Counted(k) \cup {r} ELSE Counted(k)
    BY DEF Counted, Count
<1>2. r \notin Counted(k)
    BY DEF Counted, Count
<1>3. \A q \in Requests : q # r => age'[q] = age[q]
    BY DEF Count
<1>4. CASE k # key[r]
    <2>1. Counted(k)' = Counted(k) /\ count'[k] = count[k] /\ left'[k] = left[k]
        BY <1>1, <1>4 DEF Count
    <2>2. Window(k)' = Window(k)
        BY <1>2, <1>3, <2>1 DEF Window, Counted
    <2>q. QED
        BY <1>1, <1>2, <1>3, <1>4, <2>1, <2>2 DEF Before, Counted
<1>5. CASE k = key[r] /\ count[k] = 0
    <2>1. count'[k] = 1 /\ left'[k] = TTL /\ age'[r] = 0
        BY <1>5 DEF Count
    <2>2. Window(k) = {}
        BY <1>5 DEF Window
    <2>3. \A q \in Counted(k) : age'[q] > 0
        BY <1>2, <1>3, <1>5 DEF DroppedInTime, Counted
    <2>4. Window(k)' = {r}
        <3>1. \A q \in Counted(k)' : age'[q] <= 0 <=> q = r
            BY <1>1, <1>3, <1>5, <2>1, <2>3 DEF Counted
        <3>2. r \in Counted(k)' /\ TTL - left'[k] = 0 /\ count'[k] > 0
            BY <1>1, <1>5, <2>1
        <3>q. QED
            BY <3>1, <3>2 DEF Window
    <2>5. Before(k)' = Before(k)
        BY <1>1, <1>2, <1>3, <1>5, <2>2, <2>4 DEF Before, Counted
    <2>q. QED
        BY <1>1, <1>2, <1>5, <2>2, <2>4, <2>5
<1>6. CASE k = key[r] /\ count[k] # 0
    <2>1. count'[k] > 0 /\ count[k] > 0 /\ left'[k] = left[k] /\ age'[r] = 0
        BY <1>6 DEF Count
    <2>2. Window(k)' = Window(k) \cup {r}
        BY <1>1, <1>2, <1>3, <1>6, <2>1 DEF Window, Counted
    <2>3. Before(k)' = Before(k)
        BY <1>1, <1>2, <1>3, <1>6, <2>2 DEF Before, Counted
    <2>q. QED
        BY <1>1, <1>2, <1>6, <2>2, <2>3
<1>q. QED
    BY <1>4, <1>5, <1>6

\* A tick leaves a window as it is or closes it, and then all of it but the
\* first check is what happened before.
LEMMA WindowTicks ==
    ASSUME WInv, Tick, NEW k \in Keys
    PROVE  /\ Counted(k)' = Counted(k)
           /\ Window(k)' = IF left[k] = 1 THEN {} ELSE Window(k)
           /\ Before(k)' \subseteq
                 IF left[k] = 1 THEN {r \in Window(k) : age[r] < TTL - 1} ELSE Before(k)
<1> USE DEF WInv, TypeOK
<1>1. Counted(k)' = Counted(k)
    BY DEF Counted, Tick
<1>2. \A r \in Counted(k) : age'[r] = IF age[r] < TTL THEN age[r] + 1 ELSE age[r]
    BY DEF Counted, Tick
<1>3. \A r \in Counted(k) : age[r] \in 0 .. TTL
    BY DEF Counted
<1>4. left[k] \in 0 .. TTL /\ count[k] \in Nat /\ (count[k] = 0 <=> left[k] = 0)
    BY DEF DroppedInTime
<1>5. CASE left[k] = 0
    <2>1. count'[k] = 0 /\ count[k] = 0
        BY <1>4, <1>5 DEF Tick
    <2>2. Window(k) = {} /\ Window(k)' = {}
        BY <2>1 DEF Window
    <2>q. QED
        BY <1>1, <1>2, <1>3, <1>5, <2>2 DEF Before
<1>6. CASE left[k] = 1
    <2>1. count'[k] = 0 /\ count[k] > 0
        BY <1>4, <1>6 DEF Tick
    <2>2. Window(k)' = {}
        BY <2>1 DEF Window
    <2>3. \A r \in Counted(k) : age'[r] < TTL => r \in Window(k) /\ age[r] < TTL - 1
        BY <1>2, <1>3, <1>6, <2>1 DEF Window
    <2>q. QED
        BY <1>1, <1>6, <2>2, <2>3 DEF Before
<1>7. CASE left[k] > 1
    <2>1. count'[k] = count[k] /\ count[k] > 0 /\ left'[k] = left[k] - 1
        BY <1>4, <1>7 DEF Tick
    <2>2. \A r \in Counted(k) : age'[r] <= TTL - left'[k] <=> age[r] <= TTL - left[k]
        BY <1>2, <1>3, <1>4, <1>7, <2>1
    <2>3. Window(k)' = Window(k)
        BY <1>1, <2>1, <2>2 DEF Window
    <2>q. QED
        BY <1>1, <1>2, <1>3, <1>7, <2>3 DEF Before
<1>q. QED
    BY <1>4, <1>5, <1>6, <1>7

LEMMA WInvStep == WInv /\ [Next]_vars => WInv'
<1> SUFFICES ASSUME WInv, [Next]_vars PROVE WInv'
    OBVIOUS
<1>0. TypeOK /\ TypeOK'
    BY TypeStep DEF WInv
<1>1. ASSUME NEW r \in Requests, Check(r) \/ Reply(r) \/ GiveUp(r) PROVE WInv'
    <2>1. UNCHANGED <<count, left, key, seen, age>>
        BY <1>1 DEF Check, Reply, GiveUp
    <2>2. \A q \in Requests : script'[q] = "run" <=> script[q] = "run"
        BY <1>0, <1>1 DEF WInv, PassedBelow, Check, Reply, GiveUp, TypeOK
    <2>3. PassedBelow'
        BY <1>0, <1>1, <2>1, <2>2 DEF WInv, PassedBelow, Check, Reply, GiveUp, Tripped, TypeOK
    <2>q. QED
        BY <1>0, <2>1, <2>2, <2>3, WindowsStay DEF WInv
<1>2. ASSUME NEW r \in Requests, Count(r) PROVE WInv'
    <2>1. PassedBelow'
        BY <1>0, <1>2 DEF WInv, PassedBelow, Count, TypeOK
    <2>2. \A q \in Requests : q # r => age'[q] = age[q] /\ seen'[q] = seen[q]
        BY <1>0, <1>2 DEF Count, TypeOK
    <2>3. seen'[r] = count[key[r]] + 1 /\ age'[r] = 0 /\ key[r] \in Keys
        BY <1>0, <1>2 DEF Count, TypeOK
    <2>4. /\ count'[key[r]] = count[key[r]] + 1
          /\ left'[key[r]] = IF count[key[r]] = 0 THEN TTL ELSE left[key[r]]
          /\ \A k \in Keys : k # key[r] => count'[k] = count[k] /\ left'[k] = left[k]
        BY <1>0, <1>2 DEF Count, TypeOK
    <2>5. DroppedInTime'
        <3> SUFFICES ASSUME NEW k \in Keys
                     PROVE  /\ count'[k] = 0 <=> left'[k] = 0
                            /\ count'[k] = 0 => \A q \in Counted(k)' : age'[q] > 0
            BY DEF DroppedInTime
        <3>1. CASE k = key[r]
            BY <1>0, <2>4, <3>1 DEF WInv, DroppedInTime, TypeOK
        <3>2. CASE k # key[r]
            BY <1>2, <2>2, <2>4, <3>2, WindowGrows DEF WInv, DroppedInTime, Counted
        <3>q. QED
            BY <3>1, <3>2
    <2>6. WindowInOrder'
        <3> SUFFICES ASSUME NEW k \in Keys
                     PROVE  /\ \A q \in Window(k)' : seen'[q] \in 1 .. count'[k]
                            /\ \A q \in Window(k)' : seen'[q] = 1 => age'[q] = TTL - left'[k]
                            /\ \A p, q \in Window(k)' : seen'[p] = seen'[q] => p = q
            BY DEF WindowInOrder
        <3>0. /\ r \notin Window(k) /\ Window(k) \subseteq Requests
              /\ count[k] \in Nat /\ left[k] \in 0 .. TTL
              /\ count[k] = 0 => Window(k) = {}
            BY <1>0, <1>2, WindowGrows DEF Window, Counted, TypeOK
        <3>1. /\ \A q \in Window(k) : seen[q] \in 1 .. count[k]
              /\ \A q \in Window(k) : seen[q] = 1 => age[q] = TTL - left[k]
              /\ \A p, q \in Window(k) : seen[p] = seen[q] => p = q
            BY DEF WInv, WindowInOrder
        <3>2. \A q \in Window(k) : seen'[q] = seen[q] /\ age'[q] = age[q]
            BY <2>2, <3>0
        <3>3. CASE k = key[r]
            <4>1. Window(k)' = Window(k) \cup {r}
                BY <1>2, <3>3, WindowGrows
            <4>2. \A q \in Window(k) : seen'[q] \in 1 .. count[k]
                BY <3>1, <3>2
            <4>3. seen'[r] = count[k] + 1 /\ count'[k] = count[k] + 1
                BY <2>3, <2>4, <3>3
            <4>4. \A q \in Window(k)' : seen'[q] \in 1 .. count'[k]
                BY <3>0, <4>1, <4>2, <4>3
            <4>5. \A q \in Window(k)' : seen'[q] = 1 => age'[q] = TTL - left'[k]
                BY <2>3, <2>4, <3>0, <3>1, <3>2, <3>3, <4>1, <4>3
            <4>6. \A p, q \in Window(k)' : seen'[p] = seen'[q] => p = q
                BY <3>0, <3>1, <3>2, <4>1, <4>2, <4>3
            <4>q. QED
                BY <4>4, <4>5, <4>6
        <3>4. CASE k # key[r]
            <4>1. Window(k)' = Window(k)
                BY <1>2, <3>4, WindowGrows
            <4>q. QED
                BY <2>4, <3>1, <3>2, <3>4, <4>1
        <3>q. QED
            BY <3>3, <3>4
    <2>7. BeforeInOrder'
        <3>1. \A k \in Keys : Before(k)' = Before(k) /\ r \notin Before(k) /\ Before(k) \subseteq Requests
            BY <1>2, WindowGrows DEF Before, Counted
        <3>q. QED
            BY <2>2, <3>1 DEF WInv, BeforeInOrder
    <2>q. QED
        BY <1>0, <2>1, <2>5, <2>6, <2>7 DEF WInv
<1>3. CASE Tick
    <2>1. PassedBelow'
        BY <1>3 DEF WInv, PassedBelow, Tick
    <2>2. /\ \A k \in Keys : count'[k] = IF left[k] = 1 THEN 0 ELSE count[k]
          /\ \A k \in Keys : left'[k] = IF left[k] > 0 THEN left[k] - 1 ELSE 0
          /\ \A k \in Keys : count[k] \in Nat /\ left[k] \in 0 .. TTL
          /\ seen' = seen
        BY <1>0, <1>3 DEF Tick, TypeOK
    <2>3. \A k \in Keys : \A r \in Counted(k) :
             /\ age'[r] = IF age[r] < TTL THEN age[r] + 1 ELSE age[r]
             /\ age[r] \in 0 .. TTL
        BY <1>0, <1>3 DEF Tick, Counted, TypeOK
    <2>4. DroppedInTime'
        <3> SUFFICES ASSUME NEW k \in Keys
                     PROVE  /\ count'[k] = 0 <=> left'[k] = 0
                            /\ \A q \in Counted(k)' : age'[q] > 0
            BY DEF DroppedInTime
        <3>1. count'[k] = 0 <=> left'[k] = 0
            BY <2>2 DEF WInv, DroppedInTime
        <3>2. \A q \in Counted(k) : age'[q] > 0
            BY <2>3
        <3>q. QED
            BY <1>3, <3>1, <3>2, WindowTicks
    <2>5. WindowInOrder'
        <3> SUFFICES ASSUME NEW k \in Keys
                     PROVE  /\ \A q \in Window(k)' : seen'[q] \in 1 .. count'[k]
                            /\ \A q \in Window(k)' : seen'[q] = 1 => age'[q] = TTL - left'[k]
                            /\ \A p, q \in Window(k)' : seen'[p] = seen'[q] => p = q
            BY DEF WindowInOrder
        <3>1. /\ \A q \in Window(k) : seen[q] \in 1 .. count[k]
              /\ \A q \in Window(k) : seen[q] = 1 => age[q] = TTL - left[k]
              /\ \A p, q \in Window(k) : seen[p] = seen[q] => p = q
            BY DEF WInv, WindowInOrder
        <3>2. Window(k)' = IF left[k] = 1 THEN {} ELSE Window(k)
            BY <1>3, WindowTicks
        <3>3. CASE left[k] = 1
            BY <3>2, <3>3
        <3>4. CASE left[k] # 1
            <4>1. \A q \in Window(k) : q \in Counted(k) /\ left[k] > 1 /\ age[q] <= TTL - left[k]
                BY <2>2, <3>4 DEF Window, WInv, DroppedInTime
            <4>2. \A q \in Window(k) : age'[q] = age[q] + 1 /\ left'[k] = left[k] - 1
                BY <2>2, <2>3, <4>1
            <4>3. \A q \in Window(k) : seen[q] = 1 => age'[q] = TTL - left'[k]
                BY <2>2, <3>1, <4>2
            <4>q. QED
                BY <2>2, <3>1, <3>2, <3>4, <4>3
        <3>q. QED
            BY <3>3, <3>4
    <2>6. BeforeInOrder'
        <3> SUFFICES ASSUME NEW k \in Keys
                     PROVE  /\ \A q \in Before(k)' : seen'[q] > 1
                            /\ \A p, q \in Before(k)' : seen'[p] = seen'[q] => p = q
            BY DEF BeforeInOrder
        <3>1. CASE left[k] = 1
            <4>1. Before(k)' \subseteq {r \in Window(k) : age[r] < TTL - 1}
                BY <1>3, <3>1, WindowTicks
            <4>2. \A q \in Window(k) : seen[q] \in 1 .. count[k]
                  /\ (seen[q] = 1 => age[q] = TTL - 1)
                BY <3>1 DEF WInv, WindowInOrder
            <4>3. \A q \in Before(k)' : seen[q] > 1
                BY <2>2, <4>1, <4>2
            <4>4. \A p, q \in Before(k)' : seen[p] = seen[q] => p = q
                BY <4>1 DEF WInv, WindowInOrder
            <4>q. QED
                BY <2>2, <4>3, <4>4
        <3>2. CASE left[k] # 1
            <4>1. Before(k)' \subseteq Before(k)
                BY <1>3, <3>2, WindowTicks
            <4>q. QED
                BY <2>2, <4>1 DEF WInv, BeforeInOrder
        <3>q. QED
            BY <3>1, <3>2
    <2>q. QED
        BY <1>0, <2>1, <2>4, <2>5, <2>6 DEF WInv
<1>4. CASE UNCHANGED vars
    <2>1. PassedBelow'
        BY <1>4 DEF WInv, PassedBelow, vars
    <2>q. QED
        BY <1>0, <1>4, <2>1, WindowsStay DEF WInv, vars
<1>q. QED
    BY <1>1, <1>2, <1>3, <1>4 DEF Next

LEMMA WInvHolds == Spec => []WInv
<1>1. Init => WInv
    <2> SUFFICES ASSUME Init PROVE WInv
        OBVIOUS
    <2>1. TypeOK /\ PassedBelow
        BY DEF Init, TypeOK, PassedBelow
    <2>2. \A k \in Keys : Counted(k) = {}
        BY DEF Init, Counted
    <2>3. DroppedInTime
        BY <2>2 DEF Init, DroppedInTime
    <2>4. WindowInOrder /\ BeforeInOrder
        BY <2>2 DEF Window, Before, WindowInOrder, BeforeInOrder
    <2>q. QED
        BY <2>1, <2>3, <2>4 DEF WInv
<1>q. QED
    BY <1>1, WInvStep, PTL DEF Spec

-----------------------------------------------------------------------------
(* Counters *)

LEMMA CountStep ==
    ASSUME WInv, CountIsWindow, [Next]_vars
    PROVE  CountIsWindow'
<1> SUFFICES ASSUME NEW k \in Keys PROVE count'[k] = Cardinality(Window(k)')
    BY DEF CountIsWindow
<1>0. count[k] = Cardinality(Window(k)) /\ count[k] \in Nat
    BY DEF CountIsWindow, WInv, TypeOK
<1>1. ASSUME NEW r \in Requests, Check(r) \/ Reply(r) \/ GiveUp(r)
      PROVE  count'[k] = Cardinality(Window(k)')
    <2>1. UNCHANGED <<count, left, key, seen, age>>
        BY <1>1 DEF Check, Reply, GiveUp
    <2>2. \A q \in Requests : script'[q] = "run" <=> script[q] = "run"
        BY <1>1 DEF WInv, PassedBelow, Check, Reply, GiveUp, TypeOK
    <2>q. QED
        BY <1>0, <2>1, <2>2, WindowsStay
<1>2. ASSUME NEW r \in Requests, Count(r)
      PROVE  count'[k] = Cardinality(Window(k)')
    <2>1. IsFiniteSet(Window(k)) /\ r \notin Window(k)
        BY <1>2, RequestsAssumption, FS_Subset, WindowGrows DEF Window, Counted
    <2>2. count'[k] = IF k = key[r] THEN count[k] + 1 ELSE count[k]
        BY <1>2 DEF Count, WInv, TypeOK
    <2>3. Window(k)' = IF k = key[r] THEN Window(k) \cup {r} ELSE Window(k)
        BY <1>2, WindowGrows
    <2>4. Cardinality(Window(k) \cup {r}) = Cardinality(Window(k)) + 1
        BY <2>1, FS_AddElement
    <2>q. QED
        BY <1>0, <2>2, <2>3, <2>4
<1>3. CASE Tick
    <2>1. Window(k)' = IF left[k] = 1 THEN {} ELSE Window(k)
        BY <1>3, WindowTicks
    <2>2. count'[k] = IF left[k] = 1 THEN 0 ELSE count[k]
        BY <1>3 DEF Tick
    <2>q. QED
        BY <1>0, <2>1, <2>2, FS_EmptySet
<1>4. CASE UNCHANGED vars
    <2>1. Window(k)' = Window(k)
        BY <1>4 DEF vars, Window, Counted
    <2>q. QED
        BY <1>0, <1>4, <2>1 DEF vars
<1>q. QED
    BY <1>1, <1>2, <1>3, <1>4 DEF Next

\* A counter is always the number of checks since its key was created, with
\* those whose callers had given up, and it dies TTL ticks after the first.
THEOREM CountersCorrect == Spec => []CountIsWindow
<1>1. Init => CountIsWindow
    <2> SUFFICES ASSUME Init, NEW k \in Keys PROVE count[k] = Cardinality(Window(k))
        BY DEF CountIsWindow
    <2>1. Window(k) = {}
        BY DEF Init, Window
    <2>q. QED
        BY <2>1, FS_EmptySet DEF Init
<1>2. WInv /\ CountIsWindow /\ [Next]_vars => CountIsWindow'
    BY CountStep
<1>q. QED
    BY <1>1, <1>2, WInvHolds, PTL DEF Spec

-----------------------------------------------------------------------------
(* What gets through *)

\* A set of requests that were all counted differently, from m below n, is
\* no larger than that range.
LEMMA FewDistinct ==
    ASSUME NEW S, NEW m \in Nat, NEW n \in Nat, m <= n,
           \A r \in S : seen[r] \in m .. (n - 1),
           \A r, q \in S : seen[r] = seen[q] => r = q
    PROVE  IsFiniteSet(S) /\ Cardinality(S) <= n - m
<1> DEFINE f == [r \in S |-> seen[r]]
<1>1. f \in Injection(S, m .. (n - 1))
    BY DEF Injection, IsInjective
<1>2. IsFiniteSet(m .. (n - 1)) /\ Cardinality(m .. (n - 1)) = n - m
    BY FS_Interval
<1> HIDE DEF f
<1>3. IsFiniteSet(S) /\ Cardinality(S) <= Cardinality(m .. (n - 1))
    BY <1>1, <1>2, FS_Injection
<1>q. QED
    BY <1>2, <1>3

LEMMA FewInOrder == WInv => FewGetThrough
<1> SUFFICES ASSUME WInv, NEW k \in Keys, LetThrough(k) # {}
             PROVE  Cardinality(LetThrough(k)) <= 2 * Threshold - 3
    BY DEF FewGetThrough
<1> DEFINE now == LetThrough(k) \cap Window(k)
           old == LetThrough(k) \ Window(k)
<1>1. LetThrough(k) = now \cup old /\ now \cap old = {}
    OBVIOUS
<1>2. /\ \A r \in LetThrough(k) : seen[r] \in Nat /\ seen[r] < Threshold
      /\ old \subseteq Before(k)
    BY DEF WInv, TypeOK, PassedBelow, LetThrough, Counted, Before
<1>3. /\ \A r \in now : seen[r] \in 1 .. (Threshold - 1)
      /\ \A r, q \in now : seen[r] = seen[q] => r = q
    BY <1>2 DEF WInv, WindowInOrder, TypeOK
<1>4. /\ \A r \in old : seen[r] \in 2 .. (Threshold - 1)
      /\ \A r, q \in old : seen[r] = seen[q] => r = q
    BY <1>2 DEF WInv, BeforeInOrder
<1>5. Threshold >= 2
    BY <1>1, <1>3, <1>4
<1> HIDE DEF now, old
<1>6. IsFiniteSet(now) /\ Cardinality(now) <= Threshold - 1
    BY <1>3, <1>5, FewDistinct
<1>7. IsFiniteSet(old) /\ Cardinality(old) <= Threshold - 2
    BY <1>4, <1>5, FewDistinct
<1>8. Cardinality(LetThrough(k)) = Cardinality(now) + Cardinality(old)
    <2>1. Cardinality(now \cup old) =
             Cardinality(now) + Cardinality(old) - Cardinality(now \cap old)
        BY <1>6, <1>7, FS_Union
    <2>2. Cardinality(now) \in Nat /\ Cardinality(old) \in Nat
        BY <1>6, <1>7, FS_CardinalityType
    <2>3. Cardinality(now \cap old) = 0
        BY <1>1, FS_EmptySet
    <2>4. Cardinality(LetThrough(k)) = Cardinality(now \cup old)
        BY <1>1
    <2>q. QED
        BY <2>1, <2>2, <2>3, <2>4
<1>q. QED
    BY <1>5, <1>6, <1>7, <1>8, FS_CardinalityType

\* In any TTL ticks a session gets the same payload through at most
\* 2 * Threshold - 3 times (Check's fixed window, guard.go's refusal).
THEOREM LoopsAreBounded == Spec => []FewGetThrough
BY WInvHolds, FewInOrder, PTL
=============================================================================

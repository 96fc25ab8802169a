--------------------------- MODULE CatalogTheorems --------------------------
(***************************************************************************)
(* Theorems about Catalog, for every set of prices, keys and operators:    *)
(* whatever statements fail, a process that is up has prices, and a boot   *)
(* never puts pricing.json over the table.                                 *)
(***************************************************************************)
EXTENDS Catalog, TLAPS

USE LastKeyAssumption, NoPriceAssumption, MainAssumption, SourcesAssumption, EditsAssumption

-----------------------------------------------------------------------------
(* The inductive invariant *)

\* Operators work only in a process that is up, main only once the boot has
\* come to its sync.
TasksInv ==
    /\ phase # "up" => \A w \in Operators : task[w] = Idle
    /\ phase \in {"down", "seed", "merge", "sync"} => task[Main] = Idle

\* No copy of nothing is on its way into memory, nor a price taken away that
\* no operator has deleted.
CopiesInv ==
    /\ task[Main].at = "replace" => Priced(task[Main].rows) # {}
    /\ \A w \in Workers :
          /\ task[w].at = "mem" => task[w].rows[task[w].key] # NoPrice
          /\ task[w].at = "drop" => task[w].key \in gone

CInv == CatalogTypeOK /\ TasksInv /\ CopiesInv /\ CatalogServed

-----------------------------------------------------------------------------
(* Types *)

LEMMA CatalogParts ==
    /\ Nothing \in Catalogs
    /\ Idle \in Tasks
    /\ Priced(Nothing) = {}
    /\ \A c \in Catalogs, k \in ModelKeys, p \in Prices \cup {NoPrice} :
          [c EXCEPT ![k] = p] \in Catalogs
    /\ \A k \in ModelKeys, p \in Prices : OneRow(k, p) \in Catalogs
<1>1. Nothing \in Catalogs
  BY DEF Nothing, Catalogs
<1>2. \A c \in Catalogs, k \in ModelKeys, p \in Prices \cup {NoPrice} :
         [c EXCEPT ![k] = p] \in Catalogs
  BY DEF Catalogs
<1>3. \A k \in ModelKeys, p \in Prices : OneRow(k, p) \in Catalogs
  BY <1>1, <1>2 DEF OneRow
<1>4. Idle \in Tasks
  BY <1>1 DEF Idle, Tasks
<1>5. Priced(Nothing) = {}
  BY DEF Priced, Nothing
<1> QED
  BY <1>1, <1>2, <1>3, <1>4, <1>5

LEMMA RowsGoOn ==
    ASSUME NEW w \in Workers, NEW f \in Catalogs
    PROVE  /\ Then(w) \in Tasks
           /\ Then(w).at \in {"idle", "list"}
           /\ WithRows(w, f) \in Tasks
           /\ WithRows(w, f).at \in {"idle", "list", "row"}
           /\ w # Main => Then(w) = Idle
  BY CatalogParts DEF Then, WithRows, Idle, Tasks

LEMMA InsertKeeps ==
    ASSUME CatalogTypeOK, NEW c \in Catalogs, NEW keys
    PROVE  /\ Inserted(c, keys) \in Catalogs
           /\ \A k \in Priced(table) : Inserted(c, keys)[k] = table[k]
  BY DEF CatalogTypeOK, Inserted, Catalogs, Priced

LEMMA CInvInit == CatalogInit => CInv
<1> SUFFICES ASSUME CatalogInit PROVE CInv
  OBVIOUS
<1>1. CatalogTypeOK
  BY CatalogParts DEF CatalogInit, CatalogTypeOK, Phases, Idle, Workers
<1>2. \A w \in Workers : task[w] = Idle
  BY DEF CatalogInit
<1>3. TasksInv /\ CopiesInv /\ CatalogServed
  BY <1>2 DEF CatalogInit, TasksInv, CopiesInv, CatalogServed, Workers, Idle
<1> QED
  BY <1>1, <1>3 DEF CInv

-----------------------------------------------------------------------------
(* Steps that only hand a task out, or a new one to its worker *)

\* A step that gives worker w the task t and keeps memory and phase.
LEMMA NewTask ==
    ASSUME CInv, NEW w \in Workers, NEW t \in Tasks,
           task' = [task EXCEPT ![w] = t],
           UNCHANGED <<phase, memory>>,
           table' \in Catalogs, gone \subseteq gone', gone' \subseteq ModelKeys,
           edits' \in 0 .. MaxEdits, mishaps' \in 0 .. MaxMishaps,
           phase = "up" \/ (w = Main /\ phase = "boot"),
           t.at \in {"mem", "drop"} => t.key \in ModelKeys,
           t.at = "replace" => Priced(t.rows) # {},
           t.at = "mem" => t.rows[t.key] # NoPrice,
           t.at = "drop" => t.key \in gone'
    PROVE  CInv'
<1>1. /\ task \in [Workers -> Tasks] /\ Main \in Workers /\ Operators \subseteq Workers
      /\ task' \in [Workers -> Tasks]
      /\ task'[w] = t /\ \A v \in Workers \ {w} : task'[v] = task[v]
  BY DEF CInv, CatalogTypeOK, Workers
<1>2. CatalogTypeOK'
  <2>1. \A v \in Workers : task'[v].at \in {"mem", "drop"} => task'[v].key \in ModelKeys
    BY <1>1 DEF CInv, CatalogTypeOK
  <2> QED
    BY <1>1, <2>1 DEF CInv, CatalogTypeOK
<1>3. TasksInv'
  BY <1>1 DEF CInv, TasksInv, Workers
<1>4. CopiesInv'
  BY <1>1 DEF CInv, CopiesInv
<1>5. CatalogServed'
  BY DEF CInv, CatalogServed, Priced
<1> QED
  BY <1>2, <1>3, <1>4, <1>5 DEF CInv

LEMMA BusyWorker ==
    ASSUME CInv, NEW w \in Workers, task[w] # Idle
    PROVE  phase = "up" \/ (w = Main /\ phase = "boot")
  BY DEF CInv, TasksInv, CatalogTypeOK, Phases, Workers

\* A step at whose end worker w is idle, the boot perhaps over, and memory
\* what it was or a copy of something.
LEMMA TaskEnds ==
    ASSUME CInv, NEW w \in Workers, task[w] # Idle,
           task' = [task EXCEPT ![w] = Idle],
           phase' \in {"up", "down"}, phase = "up" => phase' = "up",
           phase = "boot" /\ Priced(memory') = {} => phase' = "down",
           memory' \in Catalogs,
           gone = {} => memory' = memory \/ Priced(memory') # {},
           table' \in Catalogs, UNCHANGED gone,
           edits' \in 0 .. MaxEdits, mishaps' \in 0 .. MaxMishaps
    PROVE  CInv'
<1>1. /\ task \in [Workers -> Tasks] /\ Main \in Workers /\ Operators \subseteq Workers
      /\ task' \in [Workers -> Tasks]
      /\ task'[w] = Idle /\ \A v \in Workers \ {w} : task'[v] = task[v]
  BY CatalogParts DEF CInv, CatalogTypeOK, Workers
<1>2. phase = "up" \/ (w = Main /\ phase = "boot")
  BY BusyWorker
<1>3. phase' \in {"up", "down"} /\ (phase = "up" => phase' = "up")
  OBVIOUS
<1>4. CatalogTypeOK'
  <2>1. \A v \in Workers : task'[v].at \in {"mem", "drop"} => task'[v].key \in ModelKeys
    BY <1>1 DEF CInv, CatalogTypeOK, Idle
  <2> QED
    BY <1>1, <1>3, <2>1 DEF CInv, CatalogTypeOK, Phases
<1>5. TasksInv'
  <2>1. CASE phase = "up"
    BY <1>3, <2>1 DEF TasksInv
  <2>2. CASE phase = "boot"
    <3>1. w = Main /\ \A v \in Operators : task[v] = Idle
      BY <1>2, <2>2 DEF CInv, TasksInv
    <3>2. \A v \in Operators : task'[v] = Idle
      BY <1>1, <3>1
    <3> QED
      BY <1>1, <3>1, <3>2 DEF TasksInv
  <2> QED
    BY <1>2, <2>1, <2>2
<1>6. CopiesInv'
  BY <1>1 DEF CInv, CopiesInv, Idle
<1>7. CatalogServed'
  BY <1>2, <1>3 DEF CInv, CatalogServed, Priced
<1> QED
  BY <1>4, <1>5, <1>6, <1>7 DEF CInv

-----------------------------------------------------------------------------
(* Every step keeps the invariant *)

\* Steps of a boot before its sync, or out of one: no worker has a task.
LEMMA BootStep ==
    ASSUME CInv,
           phase \in {"down", "seed", "merge"}, phase' \in {"seed", "merge", "sync"},
           UNCHANGED task, memory' \in Catalogs, table' \in Catalogs,
           gone' \subseteq ModelKeys, UNCHANGED edits, mishaps' \in 0 .. MaxMishaps
    PROVE  CInv'
<1>1. \A w \in Workers : task[w] = Idle
  BY DEF CInv, TasksInv, Workers
<1>2. CatalogTypeOK'
  BY DEF CInv, CatalogTypeOK, Phases
<1>3. TasksInv' /\ CopiesInv' /\ CatalogServed'
  BY <1>1 DEF TasksInv, CopiesInv, CatalogServed, Idle, Workers
<1> QED
  BY <1>2, <1>3 DEF CInv

LEMMA SyncStep ==
    ASSUME CInv, phase = "sync", phase' = "boot", NEW t \in Tasks, t.at \in {"idle", "list", "row"},
           task' = [task EXCEPT ![Main] = t],
           UNCHANGED <<table, memory, gone, edits, mishaps>>
    PROVE  CInv'
<1>1. /\ task \in [Workers -> Tasks] /\ Main \in Workers /\ Main \notin Operators
      /\ \A w \in Workers : task[w] = Idle
      /\ task' \in [Workers -> Tasks]
      /\ task'[Main] = t /\ \A v \in Workers \ {Main} : task'[v] = Idle
  BY DEF CInv, CatalogTypeOK, TasksInv, Workers
<1>2. CatalogTypeOK'
  BY <1>1 DEF CInv, CatalogTypeOK, Phases, Idle
<1>3. TasksInv'
  BY <1>1 DEF TasksInv, Workers
<1>4. CopiesInv'
  BY <1>1 DEF CopiesInv, Idle
<1>5. CatalogServed'
  BY DEF CatalogServed
<1> QED
  BY <1>2, <1>3, <1>4, <1>5 DEF CInv

LEMMA ReadParts ==
    ASSUME CInv, NEW c \in Catalogs, Read(c)
    PROVE  mishaps' \in 0 .. MaxMishaps
  BY DEF Read, Mishap, CInv, CatalogTypeOK

LEMMA BootKeepsInv ==
    ASSUME CInv, (\E f \in Files : BootStart(f)) \/ SeedRows \/ MergeRows
    PROVE  CInv'
<1>1. CASE \E f \in Files : BootStart(f)
  BY <1>1, BootStep DEF BootStart, CInv, CatalogTypeOK
<1>2. CASE SeedRows
  <2>1. table' \in Catalogs
    BY <1>2, InsertKeeps DEF SeedRows, CInv, CatalogTypeOK
  <2>2. mishaps' \in 0 .. MaxMishaps
    BY <1>2 DEF SeedRows, Mishap, CInv, CatalogTypeOK
  <2> QED
    BY <1>2, <2>1, <2>2, BootStep DEF SeedRows, CInv, CatalogTypeOK
<1>3. CASE MergeRows
  <2>1. PICK c \in Catalogs :
             LET missing == Priced(memory) \ Priced(c)
             IN  \/ Read(c) /\ table' = Inserted(memory, missing)
                 \/ /\ c = table /\ Mishap
                    /\ \E batches \in SUBSET missing : table' = Inserted(memory, batches)
    BY <1>3 DEF MergeRows
  <2>2. table' \in Catalogs
    BY <2>1, InsertKeeps DEF CInv, CatalogTypeOK
  <2>3. mishaps' \in 0 .. MaxMishaps
    BY <2>1, ReadParts DEF Mishap, CInv, CatalogTypeOK
  <2> QED
    BY <1>3, <2>2, <2>3, BootStep DEF MergeRows, CInv, CatalogTypeOK
<1> QED
  BY <1>1, <1>2, <1>3

LEMMA HandOutKeepsInv ==
    ASSUME CInv,
           \/ \E f \in Feeds : BootSync(f) \/ LoopSync(f) \/ \E w \in Operators : SyncNow(w, f)
           \/ BootSkipsSync
           \/ \E w \in Operators, k \in ModelKeys :
                 DeletePrice(w, k) \/ \E p \in Prices : UpsertPrice(w, k, p)
    PROVE  CInv'
<1>1. Main \in Workers /\ Operators \subseteq Workers /\ Feeds \subseteq Catalogs
  BY DEF Workers
<1>2. ASSUME NEW f \in Feeds, BootSync(f) PROVE CInv'
  BY <1>1, <1>2, RowsGoOn, SyncStep DEF BootSync, Hand
<1>3. CASE BootSkipsSync
  <2>1. Then(Main) \in Tasks /\ Then(Main).at \in {"idle", "list"}
    BY <1>1, CatalogParts, RowsGoOn
  <2> QED
    BY <1>3, <2>1, SyncStep DEF BootSkipsSync, Hand
<1>4. ASSUME NEW f \in Feeds, LoopSync(f) PROVE CInv'
  <2>1. WithRows(Main, f) \in Tasks /\ WithRows(Main, f).at \in {"idle", "list", "row"}
    BY <1>1, RowsGoOn
  <2> QED
    BY <1>1, <1>4, <2>1, NewTask DEF LoopSync, Hand, CInv, CatalogTypeOK
<1>5. ASSUME NEW f \in Feeds, NEW w \in Operators, SyncNow(w, f) PROVE CInv'
  <2>1. WithRows(w, f) \in Tasks /\ WithRows(w, f).at \in {"idle", "list", "row"}
    BY <1>1, RowsGoOn
  <2>2. edits' \in 0 .. MaxEdits
    BY <1>5 DEF SyncNow, Edit, CInv, CatalogTypeOK
  <2>3. /\ task' = [task EXCEPT ![w] = WithRows(w, f)] /\ phase = "up"
        /\ UNCHANGED <<phase, memory, table, gone, mishaps>>
    BY <1>5 DEF SyncNow, Hand
  <2> DEFINE t == WithRows(w, f)
  <2>4. t \in Tasks /\ t.at \in {"idle", "list", "row"} /\ task' = [task EXCEPT ![w] = t]
    BY <2>1, <2>3
  <2> HIDE DEF t
  <2> QED
    BY <1>1, <2>2, <2>3, <2>4, NewTask DEF CInv, CatalogTypeOK
<1>6. ASSUME NEW w \in Operators, NEW k \in ModelKeys, DeletePrice(w, k) PROVE CInv'
  <2> DEFINE t == [at |-> "drop", key |-> k, rows |-> Nothing]
  <2>1. t \in Tasks /\ t.at = "drop" /\ t.key = k
    BY CatalogParts DEF Tasks, ModelKeys
  <2>2. table' \in Catalogs /\ edits' \in 0 .. MaxEdits
    <3>1. table \in Catalogs /\ table' = [table EXCEPT ![k] = NoPrice]
      BY <1>6 DEF DeletePrice, CInv, CatalogTypeOK
    <3>2. table' \in Catalogs
      BY <3>1, CatalogParts
    <3> QED
      BY <1>6, <3>2 DEF DeletePrice, Edit, CInv, CatalogTypeOK
  <2>3. gone \subseteq gone' /\ gone' \subseteq ModelKeys /\ k \in gone'
    BY <1>6 DEF DeletePrice, CInv, CatalogTypeOK
  <2>4. task' = [task EXCEPT ![w] = t] /\ UNCHANGED <<phase, memory, mishaps>> /\ phase = "up"
    BY <1>6 DEF DeletePrice, Hand
  <2> HIDE DEF t
  <2> QED
    BY <1>1, <2>1, <2>2, <2>3, <2>4, NewTask DEF CInv, CatalogTypeOK
<1>7. ASSUME NEW w \in Operators, NEW k \in ModelKeys, NEW p \in Prices, UpsertPrice(w, k, p)
      PROVE  CInv'
  <2> DEFINE t == [at |-> "row", key |-> 0, rows |-> OneRow(k, p)]
  <2>1. t \in Tasks /\ t.at = "row"
    BY CatalogParts DEF Tasks
  <2>2. edits' \in 0 .. MaxEdits
    BY <1>7 DEF UpsertPrice, Edit, CInv, CatalogTypeOK
  <2>3. task' = [task EXCEPT ![w] = t] /\ phase = "up"
        /\ UNCHANGED <<phase, memory, table, gone, mishaps>>
    BY <1>7 DEF UpsertPrice, Hand
  <2> HIDE DEF t
  <2> QED
    BY <1>1, <2>1, <2>2, <2>3, NewTask DEF CInv, CatalogTypeOK
<1> QED
  BY <1>2, <1>3, <1>4, <1>5, <1>6, <1>7

LEMMA WorkKeepsInv ==
    ASSUME CInv, NEW w \in Workers,
           \/ \E k \in ModelKeys : WriteRow(w, k)
           \/ WriteCopy(w)
           \/ DropCopy(w)
    PROVE  CInv'
<1>1. /\ table \in Catalogs /\ memory \in Catalogs /\ task[w] \in Tasks
      /\ gone \subseteq ModelKeys /\ task \in [Workers -> Tasks]
      /\ edits \in 0 .. MaxEdits /\ mishaps \in 0 .. MaxMishaps
  BY DEF CInv, CatalogTypeOK
<1>2. ASSUME NEW k \in ModelKeys, WriteRow(w, k) PROVE CInv'
  <2> DEFINE t == [at |-> "mem", key |-> k, rows |-> task[w].rows]
  <2>1. t \in Tasks /\ t.at = "mem" /\ t.key = k /\ t.rows = task[w].rows
    BY <1>1 DEF Tasks, ModelKeys
  <2>2. task[w].rows[k] \in Prices /\ task[w].rows[k] # NoPrice /\ task[w].rows \in Catalogs
    BY <1>1, <1>2 DEF WriteRow, Tasks, Catalogs
  <2>3. table' \in Catalogs
    BY <1>1, <1>2, <2>2, CatalogParts DEF WriteRow
  <2>4. task' = [task EXCEPT ![w] = t]
    <3> DEFINE mid == [task EXCEPT ![w].at = "mem"]
    <3>1. mid[w] = [at |-> "mem", key |-> task[w].key, rows |-> task[w].rows]
      BY <1>1 DEF Tasks
    <3>2. task' = [mid EXCEPT ![w].key = k]
      BY <1>2 DEF WriteRow
    <3>3. t = [mid[w] EXCEPT !.key = k]
      BY <3>1
    <3>4. DOMAIN mid = Workers /\ \A v \in Workers \ {w} : mid[v] = task[v]
      BY <1>1
    <3> HIDE DEF mid, t
    <3>5. task' = [mid EXCEPT ![w] = t]
      BY <3>2, <3>3
    <3> QED
      BY <1>1, <3>4, <3>5
  <2>5. UNCHANGED <<phase, memory, gone, edits, mishaps>> /\ task[w] # Idle
    BY <1>2 DEF WriteRow, Idle
  <2>6. phase = "up" \/ (w = Main /\ phase = "boot")
    BY <2>5, BusyWorker
  <2> HIDE DEF t
  <2> QED
    BY <1>1, <2>1, <2>2, <2>3, <2>4, <2>5, <2>6, NewTask
<1>3. CASE WriteCopy(w)
  <2> DEFINE k == task[w].key
             left == [task[w].rows EXCEPT ![k] = NoPrice]
             t == WithRows(w, left)
  <2>1. k \in ModelKeys /\ task[w].rows \in Catalogs
        /\ task[w].rows[k] \in Prices \cup {NoPrice} /\ task[w].rows[k] # NoPrice
    BY <1>1, <1>3 DEF WriteCopy, CInv, CatalogTypeOK, CopiesInv, Tasks, Catalogs
  <2>2. left \in Catalogs
    BY <2>1, CatalogParts
  <2>3. t \in Tasks /\ t.at \in {"idle", "list", "row"}
    BY <2>2, RowsGoOn
  <2>4. /\ memory' = [memory EXCEPT ![k] = task[w].rows[k]]
        /\ task' = [task EXCEPT ![w] = t]
        /\ UNCHANGED <<phase, table, gone, edits, mishaps>>
        /\ task[w] # Idle
    BY <1>3 DEF WriteCopy, Idle
  <2>5. memory' \in Catalogs /\ Priced(memory') # {}
    <3>1. memory' \in Catalogs
      BY <1>1, <2>1, <2>4, CatalogParts
    <3>2. memory'[k] # NoPrice
      BY <1>1, <2>1, <2>4 DEF Catalogs
    <3> QED
      BY <2>1, <3>1, <3>2 DEF Priced
  <2>6. phase = "up" \/ (w = Main /\ phase = "boot")
    BY <2>4, BusyWorker
  <2> HIDE DEF k, left, t
  <2>7. /\ Main \in Workers /\ Operators \subseteq Workers
        /\ task' \in [Workers -> Tasks]
        /\ task'[w] = t /\ \A v \in Workers \ {w} : task'[v] = task[v]
    BY <1>1, <2>3, <2>4 DEF Workers
  <2>8. CatalogTypeOK'
    <3>1. \A v \in Workers : task'[v].at \in {"mem", "drop"} => task'[v].key \in ModelKeys
      BY <2>3, <2>7 DEF CInv, CatalogTypeOK
    <3> QED
      BY <2>4, <2>5, <2>7, <3>1 DEF CInv, CatalogTypeOK
  <2>9. TasksInv'
    BY <2>4, <2>6, <2>7 DEF CInv, TasksInv, Workers
  <2>10. CopiesInv'
    BY <2>3, <2>4, <2>7 DEF CInv, CopiesInv
  <2>11. CatalogServed'
    BY <2>5 DEF CatalogServed
  <2> QED
    BY <2>8, <2>9, <2>10, <2>11 DEF CInv
<1>4. CASE DropCopy(w)
  <2>1. task[w].key \in ModelKeys /\ gone # {} /\ task[w] # Idle
    BY <1>1, <1>4 DEF DropCopy, CInv, CatalogTypeOK, CopiesInv, Idle
  <2>2. memory' \in Catalogs
    BY <1>1, <1>4, <2>1, CatalogParts DEF DropCopy
  <2>3. phase = "up" \/ (w = Main /\ phase = "boot")
    BY <2>1, BusyWorker
  <2>4. task' = [task EXCEPT ![w] = Idle] /\ UNCHANGED <<phase, table, gone, edits, mishaps>>
    BY <1>4 DEF DropCopy
  <2>5. /\ Main \in Workers /\ Operators \subseteq Workers
        /\ task' \in [Workers -> Tasks]
        /\ task'[w] = Idle /\ \A v \in Workers \ {w} : task'[v] = task[v]
    BY <1>1, <2>4, CatalogParts DEF Workers
  <2>6. CatalogTypeOK'
    <3>1. \A v \in Workers : task'[v].at \in {"mem", "drop"} => task'[v].key \in ModelKeys
      BY <2>5 DEF CInv, CatalogTypeOK, Idle
    <3> QED
      BY <2>2, <2>4, <2>5, <3>1 DEF CInv, CatalogTypeOK
  <2>7. TasksInv'
    BY <2>4, <2>5 DEF CInv, TasksInv, Workers
  <2>8. CopiesInv'
    BY <2>4, <2>5 DEF CInv, CopiesInv, Idle
  <2>9. CatalogServed'
    BY <2>1, <2>4 DEF CatalogServed
  <2> QED
    BY <2>6, <2>7, <2>8, <2>9 DEF CInv
<1> QED
  BY <1>2, <1>3, <1>4

LEMMA ReloadKeepsInv ==
    ASSUME CInv, ReadTable \/ ReplaceCopy
    PROVE  CInv'
<1>1. /\ table \in Catalogs /\ memory \in Catalogs /\ task[Main] \in Tasks
      /\ gone \subseteq ModelKeys /\ task \in [Workers -> Tasks] /\ Main \in Workers
      /\ edits \in 0 .. MaxEdits /\ mishaps \in 0 .. MaxMishaps
  BY DEF CInv, CatalogTypeOK, Workers
<1>2. CASE ReadTable
  <2>1. PICK c \in Catalogs :
             /\ Read(c)
             /\ IF Priced(c) = {}
                THEN BootedWith(memory) /\ task' = [task EXCEPT ![Main] = Idle]
                ELSE /\ task' = [task EXCEPT ![Main] = [at |-> "replace", key |-> 0, rows |-> c]]
                     /\ UNCHANGED phase
    BY <1>2 DEF ReadTable
  <2>2. mishaps' \in 0 .. MaxMishaps
    BY <2>1, ReadParts
  <2>3. UNCHANGED <<table, memory, gone, edits>> /\ task[Main] # Idle
    BY <1>2 DEF ReadTable, Idle
  <2>4. CASE Priced(c) = {}
    <3>1. phase = "up" \/ phase = "boot"
      BY <1>1, <2>3, BusyWorker
    <3>2. /\ phase' \in {"up", "down"}
          /\ phase = "up" => phase' = "up"
          /\ phase = "boot" /\ Priced(memory') = {} => phase' = "down"
      BY <2>1, <2>3, <2>4, <3>1 DEF BootedWith
    <3>3. task' = [task EXCEPT ![Main] = Idle]
      BY <2>1, <2>4
    <3> QED
      BY <1>1, <2>2, <2>3, <3>2, <3>3, TaskEnds
  <2>5. CASE Priced(c) # {}
    <3> DEFINE t == [at |-> "replace", key |-> 0, rows |-> c]
    <3>1. t \in Tasks /\ t.at = "replace" /\ Priced(t.rows) # {}
      BY <2>5 DEF Tasks
    <3>2. task' = [task EXCEPT ![Main] = t] /\ UNCHANGED <<phase, memory, table, gone, edits>>
      BY <2>1, <2>3, <2>5
    <3>3. phase = "up" \/ phase = "boot"
      BY <1>1, <2>3, BusyWorker
    <3> HIDE DEF t
    <3> QED
      BY <1>1, <2>2, <3>1, <3>2, <3>3, NewTask
  <2> QED
    BY <2>4, <2>5
<1>3. CASE ReplaceCopy
  <2>1. /\ memory' = task[Main].rows /\ BootedWith(memory')
        /\ task' = [task EXCEPT ![Main] = Idle]
        /\ UNCHANGED <<table, gone, edits, mishaps>> /\ task[Main] # Idle
    BY <1>3 DEF ReplaceCopy, Idle
  <2>2. memory' \in Catalogs /\ Priced(memory') # {}
    BY <1>1, <1>3, <2>1 DEF ReplaceCopy, CInv, CopiesInv, Tasks, Priced
  <2>3. phase = "up" \/ phase = "boot"
    BY <1>1, <2>1, BusyWorker
  <2>4. phase' \in {"up", "down"} /\ (phase = "up" => phase' = "up")
    BY <2>1, <2>2, <2>3 DEF BootedWith
  <2> QED
    BY <1>1, <2>1, <2>2, <2>4, TaskEnds
<1> QED
  BY <1>2, <1>3

LEMMA FailKeepsInv ==
    ASSUME CInv,
           \/ \E w \in Workers : StatementFails(w)
           \/ \E k \in ModelKeys : DeleteUnheard(k)
           \/ ProcessEnds
    PROVE  CInv'
<1>1. /\ table \in Catalogs /\ memory \in Catalogs /\ task \in [Workers -> Tasks]
      /\ gone \subseteq ModelKeys /\ edits \in 0 .. MaxEdits /\ mishaps \in 0 .. MaxMishaps
  BY DEF CInv, CatalogTypeOK
<1>2. ASSUME NEW w \in Workers, StatementFails(w) PROVE CInv'
  <2>1. task[w] # Idle /\ task[w].rows \in Catalogs /\ UNCHANGED <<memory, gone, edits>>
    BY <1>1, <1>2 DEF StatementFails, Idle, Tasks
  <2>2. mishaps' \in 0 .. MaxMishaps
    BY <1>1, <1>2 DEF StatementFails, Mishap
  <2>3. table' \in Catalogs
    <3>1. \A k \in ModelKeys : task[w].rows[k] \in Prices \cup {NoPrice}
      BY <2>1 DEF Catalogs
    <3> QED
      BY <1>1, <1>2, <3>1, CatalogParts DEF StatementFails, Priced
  <2>4. phase = "up" \/ (w = Main /\ phase = "boot")
    BY <2>1, BusyWorker
  <2>5. CASE phase = "boot" /\ task[w].at = "row"
    <3> DEFINE t == Then(w)
    <3>1. t \in Tasks /\ t.at \in {"idle", "list"}
      BY CatalogParts, RowsGoOn
    <3>2. task' = [task EXCEPT ![w] = t] /\ UNCHANGED phase
      BY <1>2, <2>5 DEF StatementFails
    <3> HIDE DEF t
    <3> QED
      BY <1>1, <2>1, <2>2, <2>3, <2>4, <3>1, <3>2, NewTask
  <2>6. CASE ~(phase = "boot" /\ task[w].at = "row")
    <3>1. task' = [task EXCEPT ![w] = Idle] /\ BootedWith(memory)
      BY <1>2, <2>6 DEF StatementFails
    <3>2. /\ phase' \in {"up", "down"}
          /\ phase = "up" => phase' = "up"
          /\ phase = "boot" /\ Priced(memory') = {} => phase' = "down"
      BY <2>1, <2>4, <3>1 DEF BootedWith
    <3> QED
      BY <1>1, <2>1, <2>2, <2>3, <3>1, <3>2, TaskEnds
  <2> QED
    BY <2>5, <2>6
<1>3. ASSUME NEW k \in ModelKeys, DeleteUnheard(k) PROVE CInv'
  <2>1. table' \in Catalogs
    BY <1>1, <1>3, CatalogParts DEF DeleteUnheard
  <2>2. /\ edits' \in 0 .. MaxEdits /\ mishaps' \in 0 .. MaxMishaps
        /\ gone' = gone \cup {k} /\ UNCHANGED <<phase, memory, task>>
    BY <1>1, <1>3 DEF DeleteUnheard, Edit, Mishap
  <2>3. CatalogTypeOK'
    BY <1>1, <2>1, <2>2 DEF CInv, CatalogTypeOK
  <2>4. TasksInv' /\ CopiesInv'
    BY <2>2 DEF CInv, TasksInv, CopiesInv
  <2>5. CatalogServed'
    BY <2>2 DEF CatalogServed
  <2> QED
    BY <2>3, <2>4, <2>5 DEF CInv
<1>4. CASE ProcessEnds
  <2>1. /\ phase' = "down" /\ memory' = Nothing /\ task' = [w \in Workers |-> Idle]
        /\ UNCHANGED <<table, gone, edits>> /\ mishaps' \in 0 .. MaxMishaps
    BY <1>1, <1>4 DEF ProcessEnds, Mishap
  <2>2. CatalogTypeOK'
    BY <1>1, <2>1, CatalogParts DEF CatalogTypeOK, Phases, Idle
  <2>3. TasksInv' /\ CopiesInv' /\ CatalogServed'
    BY <2>1 DEF TasksInv, CopiesInv, CatalogServed, Idle, Workers
  <2> QED
    BY <2>2, <2>3 DEF CInv
<1> QED
  BY <1>2, <1>3, <1>4

LEMMA CInvNext == CInv /\ [CatalogNext]_catalogVars => CInv'
<1> SUFFICES ASSUME CInv, [CatalogNext]_catalogVars PROVE CInv'
  OBVIOUS
<1>1. CASE UNCHANGED catalogVars
  BY <1>1 DEF catalogVars, CInv, CatalogTypeOK, TasksInv, CopiesInv, CatalogServed, Priced
<1>2. Main \in Workers /\ Operators \subseteq Workers
  BY DEF Workers
<1>3. CASE CatalogNext
  <2>1. CASE (\E f \in Files : BootStart(f)) \/ SeedRows \/ MergeRows
    BY <2>1, BootKeepsInv
  <2>2. CASE \/ \E f \in Feeds : BootSync(f) \/ LoopSync(f) \/ \E w \in Operators : SyncNow(w, f)
             \/ BootSkipsSync
             \/ \E w \in Operators, k \in ModelKeys :
                   DeletePrice(w, k) \/ \E p \in Prices : UpsertPrice(w, k, p)
    BY <2>2, HandOutKeepsInv
  <2>3. CASE \E w \in Workers : WorkerStep(w) \/ DropCopy(w)
    BY <2>3, WorkKeepsInv DEF WorkerStep
  <2>4. CASE ReadTable \/ ReplaceCopy
    BY <2>4, ReloadKeepsInv
  <2>5. CASE \/ \E w \in Workers : StatementFails(w)
             \/ \E k \in ModelKeys : DeleteUnheard(k)
             \/ ProcessEnds
    BY <2>5, FailKeepsInv
  <2> QED
    BY <1>2, <1>3, <2>1, <2>2, <2>3, <2>4, <2>5 DEF CatalogNext, MainStep
<1> QED
  BY <1>1, <1>3

LEMMA CInvHolds == CatalogSpec => []CInv
  BY CInvInit, CInvNext, PTL DEF CatalogSpec

-----------------------------------------------------------------------------
(* What follows from it *)

\* The table, the copy and every task hold what their columns may hold.
THEOREM CatalogTypes == CatalogSpec => []CatalogTypeOK
<1>1. CInv => CatalogTypeOK
  BY DEF CInv
<1> QED
  BY CInvHolds, <1>1, PTL

\* A process that is up has prices, unless an operator has deleted some
\* (pricing_bootstrap.go, main.go, pricing.go ReplaceAll).
THEOREM PricesAreServed == CatalogSpec => []CatalogServed
<1>1. CInv => CatalogServed
  BY DEF CInv
<1> QED
  BY CInvHolds, <1>1, PTL

\* Neither the seed nor the merge of a boot changes a row there is, whatever
\* their listing saw (pricing_catalog.go SeedModelPrices,
\* UpsertMissingModelPrices).
THEOREM FileAddsOnly == CatalogSpec => FileNeverOverwrites
<1> DEFINE Kept == \A k \in Priced(table) :
                      phase \in {"seed", "merge"} => table'[k] = table[k]
<1>1. CInv /\ CatalogNext => Kept
  <2> SUFFICES ASSUME CInv, CatalogNext, phase \in {"seed", "merge"}, NEW k \in Priced(table)
               PROVE  table'[k] = table[k]
    OBVIOUS
  <2>1. \A w \in Workers : task[w].at = "idle"
    BY DEF CInv, TasksInv, Idle, Workers
  <2>2. Main \in Workers /\ Operators \subseteq Workers /\ phase # "up" /\ CatalogTypeOK
    BY DEF Workers, CInv
  <2>3. CASE SeedRows
    BY <2>2, <2>3, InsertKeeps DEF SeedRows, CatalogTypeOK
  <2>4. CASE MergeRows
    BY <2>2, <2>4, InsertKeeps DEF MergeRows, CatalogTypeOK
  <2>5. CASE ~SeedRows /\ ~MergeRows
    <3>1. \A w \in Workers :
             /\ ~WriteCopy(w) /\ ~DropCopy(w) /\ ~StatementFails(w)
             /\ \A j \in ModelKeys : ~WriteRow(w, j)
      BY <2>1 DEF WriteRow, WriteCopy, DropCopy, StatementFails
    <3>2. \A w \in Operators, j \in ModelKeys : ~DeletePrice(w, j)
      BY <2>2 DEF DeletePrice
    <3>3. ~BootSkipsSync /\ ~ReadTable /\ ~ReplaceCopy
      BY <2>1, <2>2 DEF BootSkipsSync, ReadTable, ReplaceCopy
    <3>4. \A j \in ModelKeys : ~DeleteUnheard(j)
      BY <2>2 DEF DeleteUnheard
    <3>5. \/ \E f \in Files : BootStart(f)
          \/ \E f \in Feeds : BootSync(f) \/ LoopSync(f) \/ \E w \in Operators : SyncNow(w, f)
          \/ \E w \in Operators, j \in ModelKeys, p \in Prices : UpsertPrice(w, j, p)
          \/ ProcessEnds
      BY <2>2, <2>5, <3>1, <3>2, <3>3, <3>4 DEF CatalogNext, MainStep, WorkerStep
    <3> QED
      BY <3>5 DEF BootStart, BootSync, LoopSync, SyncNow, UpsertPrice, ProcessEnds
  <2> QED
    BY <2>3, <2>4, <2>5
<1>2. CInv /\ [CatalogNext]_catalogVars => [Kept]_catalogVars
  BY <1>1
<1> QED
  BY CInvHolds, <1>2, PTL DEF CatalogSpec, FileNeverOverwrites
=============================================================================

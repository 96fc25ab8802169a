------------------------------- MODULE Catalog ------------------------------
(***************************************************************************)
(* The price catalog: the model_prices table in Turso and the copy of it   *)
(* the PricingEngine serves requests from.  An operator's edit writes the  *)
(* table and then the copy; an OpenRouter sync does so row by row; a       *)
(* reload reads the table and later replaces the copy.  None of them       *)
(* excludes another, any statement may fail or commit with its reply lost, *)
(* and the process may end and boot again, which starts from pricing.json. *)
(*                                                                         *)
(* A catalog is a function from the model keys, numbered in the order a    *)
(* listing returns them, to a price or NoPrice.                            *)
(*                                                                         *)
(* An operator named Bug... is a wrong version of the one that follows it, *)
(* used to see a property fail; no specification refers to it.             *)
(***************************************************************************)
EXTENDS Integers

CONSTANTS
    LastKey,        \* the model keys are 1 .. LastKey
    Prices, NoPrice,
    Files,          \* what pricing.json may hold
    Feeds,          \* what OpenRouter may list
    Operators,      \* management calls in flight
    Main,           \* main's goroutine: the boot, then RunPricingSyncLoop
    MaxEdits,       \* bound: management calls
    MaxMishaps      \* bound: failed statements, broken reads and crashes

ModelKeys == 1 .. LastKey
Catalogs == [ModelKeys -> Prices \cup {NoPrice}]
Workers == Operators \cup {Main}

ASSUME LastKeyAssumption == LastKey \in Nat
ASSUME NoPriceAssumption == NoPrice \notin Prices
ASSUME MainAssumption == Main \notin Operators
ASSUME SourcesAssumption == Files \subseteq Catalogs /\ Feeds \subseteq Catalogs
ASSUME EditsAssumption == MaxEdits \in Nat /\ MaxMishaps \in Nat

VARIABLES
    phase,      \* the process: down, its steps of booting, or up
    table,      \* model_prices
    memory,     \* PricingEngine.prices
    task,       \* task[w]: the statement w comes to, and the rows it has
    gone,       \* the keys an operator has deleted since the boot (history)
    edits, mishaps

catalogVars == <<phase, table, memory, task, gone, edits, mishaps>>

Nothing == [k \in ModelKeys |-> NoPrice]
Priced(c) == {k \in ModelKeys : c[k] # NoPrice}
OneRow(k, p) == [Nothing EXCEPT ![k] = p]

Phases == {"down", "seed", "merge", "sync", "boot", "up"}
Idle == [at |-> "idle", key |-> 0, rows |-> Nothing]
Tasks == [at : {"idle", "row", "mem", "drop", "list", "replace"},
          key : 0 .. LastKey, rows : Catalogs]

CatalogTypeOK ==
    /\ phase \in Phases
    /\ table \in Catalogs
    /\ memory \in Catalogs
    /\ task \in [Workers -> Tasks]
    /\ \A w \in Workers : task[w].at \in {"mem", "drop"} => task[w].key \in ModelKeys
    /\ gone \subseteq ModelKeys
    /\ edits \in 0 .. MaxEdits
    /\ mishaps \in 0 .. MaxMishaps

\* A table of any earlier history.
CatalogInit ==
    /\ phase = "down"
    /\ table \in {Nothing} \cup Feeds
    /\ memory = Nothing
    /\ task = [w \in Workers |-> Idle]
    /\ gone = {}
    /\ edits = 0 /\ mishaps = 0

Mishap == mishaps < MaxMishaps /\ mishaps' = mishaps + 1
Edit == edits < MaxEdits /\ edits' = edits + 1

\* INSERT OR IGNORE of some of the rows of c.
Inserted(c, keys) ==
    [k \in ModelKeys |-> IF table[k] = NoPrice /\ k \in keys THEN c[k] ELSE table[k]]

\* ListModelPrices.  It does not ask rows.Err(), so a read that breaks off
\* after the key k passes for the whole table.
UpTo(k) == [j \in ModelKeys |-> IF j <= k THEN table[j] ELSE NoPrice]
Read(c) ==
    \/ c = table /\ UNCHANGED mishaps
    \/ (\E k \in 0 .. LastKey - 1 : c = UpTo(k)) /\ Mishap

-----------------------------------------------------------------------------
(* Booting: memory holds the file until the reload *)

\* LoadPricing and NewPricingEngine.
BootStart(f) ==
    /\ phase = "down"
    /\ phase' = "seed"
    /\ memory' = f
    /\ gone' = {}
    /\ UNCHANGED <<table, task, edits, mishaps>>

\* SeedModelPrices fills an empty table, batch by batch; when a batch fails
\* the boot goes on.
SeedRows ==
    /\ phase = "seed"
    /\ phase' = "merge"
    /\ \/ Priced(table) # {} /\ UNCHANGED <<table, mishaps>>
       \/ /\ Priced(table) = {}
          /\ table' = Inserted(memory, Priced(memory))
          /\ UNCHANGED mishaps
       \/ /\ Priced(table) = {}
          /\ \E batches \in SUBSET Priced(memory) : table' = Inserted(memory, batches)
          /\ Mishap
    /\ UNCHANGED <<memory, task, gone, edits>>

BugMergeReplaces ==
    /\ phase = "merge"
    /\ phase' = "sync"
    /\ \E c \in Catalogs :
          /\ Read(c)
          /\ table' = [k \in ModelKeys |-> IF k \in Priced(memory) \ Priced(c)
                                           THEN memory[k] ELSE table[k]]
    /\ UNCHANGED <<memory, task, gone, edits>>

\* UpsertMissingModelPrices inserts what a listing lacks, in batches too.
MergeRows ==
    /\ phase = "merge"
    /\ phase' = "sync"
    /\ \E c \in Catalogs :
          LET missing == Priced(memory) \ Priced(c)
          IN  \/ Read(c) /\ table' = Inserted(memory, missing)
              \/ /\ c = table /\ Mishap
                 /\ \E batches \in SUBSET missing : table' = Inserted(memory, batches)
    /\ UNCHANGED <<memory, task, gone, edits>>

-----------------------------------------------------------------------------
(* Edits, syncs and reloads *)

Hand(w, t) == task[w] = Idle /\ task' = [task EXCEPT ![w] = t]

BugNoReload(w) == IF w = Main /\ phase = "boot" THEN [Idle EXCEPT !.at = "list"] ELSE Idle

\* What comes after the last row: a sync of main's reloads, also a boot's.
Then(w) == IF w = Main THEN [Idle EXCEPT !.at = "list"] ELSE Idle

\* FetchOpenRouterPrices and the loop over its rows: on boot, every interval,
\* or for an operator.
WithRows(w, f) == IF Priced(f) = {} THEN Then(w) ELSE [at |-> "row", key |-> 0, rows |-> f]

BootSync(f) ==
    /\ phase = "sync"
    /\ phase' = "boot"
    /\ Hand(Main, WithRows(Main, f))
    /\ UNCHANGED <<table, memory, gone, edits, mishaps>>

\* The boot goes on without when it is not configured, or the fetch fails.
BootSkipsSync ==
    /\ phase = "sync"
    /\ phase' = "boot"
    /\ Hand(Main, Then(Main))
    /\ UNCHANGED <<table, memory, gone, edits, mishaps>>

LoopSync(f) ==
    /\ phase = "up"
    /\ Hand(Main, WithRows(Main, f))
    /\ UNCHANGED <<phase, table, memory, gone, edits, mishaps>>

SyncNow(w, f) ==
    /\ phase = "up"
    /\ Priced(f) # {}
    /\ Hand(w, WithRows(w, f))
    /\ Edit
    /\ UNCHANGED <<phase, table, memory, gone, mishaps>>

\* HandleUpsertPricing is a sync of one row.
UpsertPrice(w, k, p) ==
    /\ phase = "up"
    /\ Hand(w, [at |-> "row", key |-> 0, rows |-> OneRow(k, p)])
    /\ Edit
    /\ UNCHANGED <<phase, table, memory, gone, mishaps>>

\* HandleDeletePricing, of a row there is.
DeletePrice(w, k) ==
    /\ phase = "up"
    /\ table[k] # NoPrice
    /\ table' = [table EXCEPT ![k] = NoPrice]
    /\ gone' = gone \cup {k}
    /\ Hand(w, [at |-> "drop", key |-> k, rows |-> Nothing])
    /\ Edit
    /\ UNCHANGED <<phase, memory, mishaps>>

BugRowForgetsKey(w, k) ==
    /\ task[w].at = "row"
    /\ task[w].rows[k] # NoPrice
    /\ table' = [table EXCEPT ![k] = task[w].rows[k]]
    /\ task' = [task EXCEPT ![w].at = "mem"]
    /\ UNCHANGED <<phase, memory, gone, edits, mishaps>>

\* UpsertModelPrice writes a row of the table ...
WriteRow(w, k) ==
    /\ task[w].at = "row"
    /\ task[w].rows[k] # NoPrice
    /\ table' = [table EXCEPT ![k] = task[w].rows[k]]
    /\ task' = [task EXCEPT ![w].at = "mem", ![w].key = k]
    /\ UNCHANGED <<phase, memory, gone, edits, mishaps>>

\* ... and PricingEngine.Upsert the copy, before the next row.
WriteCopy(w) ==
    /\ task[w].at = "mem"
    /\ LET k == task[w].key
           left == [task[w].rows EXCEPT ![k] = NoPrice]
       IN  /\ memory' = [memory EXCEPT ![k] = task[w].rows[k]]
           /\ task' = [task EXCEPT ![w] = WithRows(w, left)]
    /\ UNCHANGED <<phase, table, gone, edits, mishaps>>

\* HandleDeletePricing goes on to PricingEngine.Delete.
DropCopy(w) ==
    /\ task[w].at = "drop"
    /\ memory' = [memory EXCEPT ![task[w].key] = NoPrice]
    /\ task' = [task EXCEPT ![w] = Idle]
    /\ UNCHANGED <<phase, table, gone, edits, mishaps>>

\* The boot ends with the copy c, reloaded or not: served from it, unless it is
\* empty, which is fatal.
BootedWith(c) == phase' = IF phase = "boot" /\ Priced(c) = {} THEN "down"
                          ELSE IF phase = "boot" THEN "up" ELSE phase

BugReadEmpty ==
    /\ task[Main].at = "list"
    /\ \E c \in Catalogs :
          /\ Read(c)
          /\ task' = [task EXCEPT ![Main] = [at |-> "replace", key |-> 0, rows |-> c]]
    /\ UNCHANGED <<phase, table, memory, gone, edits>>

\* ReloadPricingFromStore reads the table; an empty listing is an error ...
ReadTable ==
    /\ task[Main].at = "list"
    /\ \E c \in Catalogs :
          /\ Read(c)
          /\ IF Priced(c) = {}
             THEN BootedWith(memory) /\ task' = [task EXCEPT ![Main] = Idle]
             ELSE /\ task' = [task EXCEPT ![Main] = [at |-> "replace", key |-> 0, rows |-> c]]
                  /\ UNCHANGED phase
    /\ UNCHANGED <<table, memory, gone, edits>>

\* ... and replaces the copy by what it read.
ReplaceCopy ==
    /\ task[Main].at = "replace"
    /\ memory' = task[Main].rows
    /\ BootedWith(memory')
    /\ task' = [task EXCEPT ![Main] = Idle]
    /\ UNCHANGED <<table, gone, edits, mishaps>>

-----------------------------------------------------------------------------
(* Mishaps *)

\* UpsertModelPrice or the listing errs, perhaps after it has committed: the
\* handler answers with the error and the loop waits for its next tick,
\* without a reload; a boot reloads, and goes on without when that fails.
StatementFails(w) ==
    /\ task[w].at \in {"row", "list"}
    /\ Mishap
    /\ table' \in {table} \cup {[table EXCEPT ![k] = task[w].rows[k]] : k \in Priced(task[w].rows)}
    /\ IF phase = "boot" /\ task[w].at = "row"
       THEN task' = [task EXCEPT ![w] = Then(w)] /\ UNCHANGED phase
       ELSE task' = [task EXCEPT ![w] = Idle] /\ BootedWith(memory)
    /\ UNCHANGED <<memory, gone, edits>>

\* The DELETE commits and its reply is lost: the copy keeps the price, and a
\* repeated call is told there is no such row.
DeleteUnheard(k) ==
    /\ phase = "up"
    /\ table[k] # NoPrice
    /\ table' = [table EXCEPT ![k] = NoPrice]
    /\ gone' = gone \cup {k}
    /\ Edit
    /\ Mishap
    /\ UNCHANGED <<phase, memory, task>>

ProcessEnds ==
    /\ phase # "down"
    /\ Mishap
    /\ phase' = "down"
    /\ memory' = Nothing
    /\ task' = [w \in Workers |-> Idle]
    /\ UNCHANGED <<table, gone, edits>>

-----------------------------------------------------------------------------
WorkerStep(w) == (\E k \in ModelKeys : WriteRow(w, k)) \/ WriteCopy(w)
MainStep == SeedRows \/ MergeRows \/ BootSkipsSync \/ WorkerStep(Main) \/ ReadTable \/ ReplaceCopy

CatalogNext ==
    \/ \E f \in Files : BootStart(f)
    \/ \E f \in Feeds : BootSync(f) \/ LoopSync(f) \/ \E w \in Operators : SyncNow(w, f)
    \/ \E w \in Operators, k \in ModelKeys :
          DeletePrice(w, k) \/ \E p \in Prices : UpsertPrice(w, k, p)
    \/ MainStep
    \/ \E w \in Operators : WorkerStep(w) \/ DropCopy(w)
    \/ \E w \in Workers : StatementFails(w)
    \/ \E k \in ModelKeys : DeleteUnheard(k)
    \/ ProcessEnds

CatalogSpec == CatalogInit /\ [][CatalogNext]_catalogVars

\* The platform starts the process again; main and the handlers go on with
\* what they have begun; the ticker fires, and OpenRouter answers, again and
\* again.  Nobody has to edit a price.
CatalogFairness ==
    /\ WF_catalogVars(\E f \in Files : BootStart(f))
    /\ WF_catalogVars(MainStep)
    /\ WF_catalogVars(\E f \in Feeds : LoopSync(f))
    /\ \A w \in Operators : WF_catalogVars(WorkerStep(w) \/ DropCopy(w))

-----------------------------------------------------------------------------
(* Properties *)

\* pricing.go:288, "a failed sync cannot wipe a last-good catalog": a process
\* that is up has prices to charge by, whatever seed, sync or listing failed
\* or broke off, unless an operator has deleted some.
CatalogServed == phase = "up" /\ gone = {} => Priced(memory) # {}

\* pricing_catalog.go:121, "Existing operator-edited rows are left untouched":
\* no boot puts pricing.json over a row, also when it read only some of them.
FileNeverOverwrites ==
    [][\A k \in Priced(table) :
          phase \in {"seed", "merge"} => table'[k] = table[k] ]_catalogVars

\* Once operators let it alone, the copy is again and again what the table
\* says: edits that crossed a reload, replies that were lost, listings cut
\* short and crashed processes leave no lasting difference.
CopyCatchesUp == []<>(memory = table)
=============================================================================

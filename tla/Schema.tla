------------------------------- MODULE Schema -------------------------------
(* The start of Hub and Bot on the SQLite file they share (plugins/data.ts, *)
(* ensureSchema; bot/db.ts).  Each process brings the file to its schema by *)
(* itself, in steps the other one's may fall between: missing tables,       *)
(* missing columns, and the ledger of arrivals, whose CHECK on the source   *)
(* can only be widened by copying it.  Two generations of that ledger are   *)
(* older than the code: "old" knows two sources and no assurance, "face"    *)
(* has both but not the source "gps".                                       *)
EXTENDS Naturals, FiniteSets

CONSTANTS
  Processes,   \* Hub and Bot
  Columns,     \* columns that later versions added
  MaxCrashes,  \* bound: crashes, in all
  MaxRows      \* bound: arrivals

SchemaAssumption == MaxCrashes \in Nat /\ MaxRows \in Nat /\ "nobody" \notin Processes

VARIABLES
  ledger,   \* glab_attendance: its generation ("none": no table) and rows
  present,  \* the columns that are there
  lock,     \* who writes: a transaction begun with BEGIN IMMEDIATE, or nobody
  process,  \* each process: its step, the columns it saw, its transaction
  written,  \* every row whose insertion was acknowledged
  crashes

vars == <<ledger, present, lock, process, written, crashes>>

Sources == {"passkey", "face", "gps"}
Takes(generation) ==
  CASE generation = "old" -> {"passkey"}
    [] generation = "face" -> {"passkey", "face"}
    [] generation = "gps" -> Sources
    [] OTHER -> {}

Off == [at |-> "off", seen |-> {}, copied |-> {}]
Row(id, source) == [id |-> id, source |-> source, assured |-> source = "face"]

(* A new file, or one an earlier version has written.                       *)
Init ==
  /\ \E g \in {"none", "old", "face", "gps"} :
       /\ ledger = [generation |-> g, rows |-> {Row(0, s) : s \in Takes(g) \ {"passkey"}}]
       /\ written = ledger.rows
  /\ present \in SUBSET Columns
  /\ lock = "nobody" /\ process = [p \in Processes |-> Off] /\ crashes = 0

At(p, step) == process' = [process EXCEPT ![p].at = step]
Free(p) == lock \in {"nobody", p}   \* a statement that writes waits for the lock

(* openSharedDb and setup: the tables that are missing are created, with    *)
(* the schema of today.                                                     *)
CreateTables(p) ==
  /\ process[p].at = "off" /\ Free(p)
  /\ ledger' = IF ledger.generation = "none" THEN [ledger EXCEPT !.generation = "gps"] ELSE ledger
  /\ At(p, "columns")
  /\ UNCHANGED <<present, lock, written, crashes>>

(* ensureColumns: what is there is read once ...                            *)
ReadColumns(p) ==
  /\ process[p].at = "columns"
  /\ process' = [process EXCEPT ![p].at = "alter", ![p].seen = present]
  /\ UNCHANGED <<ledger, present, lock, written, crashes>>

AlterDies(p) ==   \* mutant: the duplicate column is not expected
  /\ process[p].at = "alter" /\ Free(p)
  /\ \E c \in Columns \ process[p].seen :
       /\ present' = present \cup {c}
       /\ process' = [process EXCEPT ![p].at = IF c \in present THEN "failed" ELSE "alter",
                                     ![p].seen = @ \cup {c}]
  /\ UNCHANGED <<ledger, lock, written, crashes>>

(* ... and each column not seen is added.  When the other process was       *)
(* faster the statement fails, what is there is read again, and the column  *)
(* found.                                                                   *)
Alter(p) ==
  /\ process[p].at = "alter" /\ Free(p)
  /\ \E c \in Columns \ process[p].seen :
       /\ present' = present \cup {c}
       /\ process' = [process EXCEPT ![p].seen = IF c \in present THEN present ELSE @ \cup {c}]
  /\ UNCHANGED <<ledger, lock, written, crashes>>

Altered(p) ==
  /\ process[p].at = "alter" /\ Columns \subseteq process[p].seen
  /\ At(p, "ledger")
  /\ UNCHANGED <<ledger, present, lock, written, crashes>>

(* ensureAttendanceSourceValues: nothing to do, or a transaction that takes *)
(* the lock (it waits for it, for five seconds at most).                    *)
Wide(p) ==
  /\ process[p].at = "ledger" /\ ledger.generation = "gps"
  /\ At(p, "serving")
  /\ UNCHANGED <<ledger, present, lock, written, crashes>>

BeginUnlocked(p) ==   \* mutant: BEGIN instead of BEGIN IMMEDIATE
  /\ process[p].at = "ledger" /\ ledger.generation # "gps"
  /\ At(p, "migrating")
  /\ UNCHANGED <<ledger, present, lock, written, crashes>>

Begin(p) ==
  /\ process[p].at = "ledger" /\ ledger.generation # "gps"
  /\ lock = "nobody" /\ lock' = p
  /\ At(p, "migrating")
  /\ UNCHANGED <<ledger, present, written, crashes>>

TimedOut(p) ==
  /\ process[p].at = "ledger" /\ lock \notin {"nobody", p}
  /\ At(p, "off")
  /\ UNCHANGED <<ledger, present, lock, written, crashes>>

(* Under the lock it looks again: the other process may have migrated.      *)
Recheck(p) ==
  /\ process[p].at = "migrating" /\ ledger.generation = "gps"
  /\ lock' = "nobody"
  /\ At(p, "serving")
  /\ UNCHANGED <<ledger, present, written, crashes>>

CopyBare(p) ==   \* mutant: the assurance is not taken along
  /\ process[p].at = "migrating" /\ ledger.generation # "gps"
  /\ process' = [process EXCEPT ![p].at = "copied",
                                ![p].copied = {[r EXCEPT !.assured = FALSE] : r \in ledger.rows}]
  /\ UNCHANGED <<ledger, present, lock, written, crashes>>

(* Every row is copied to a new table, with its source, and with its        *)
(* assurance where the generation has one.                                  *)
Copy(p) ==
  /\ process[p].at = "migrating" /\ ledger.generation # "gps"
  /\ process' = [process EXCEPT ![p].at = "copied",
                                ![p].copied = {[r EXCEPT !.assured = @ /\ ledger.generation = "face"] :
                                                 r \in ledger.rows}]
  /\ UNCHANGED <<ledger, present, lock, written, crashes>>

(* The new table takes the old one's place; the transaction is committed.   *)
Commit(p) ==
  /\ process[p].at = "copied"
  /\ ledger' = [generation |-> "gps", rows |-> process[p].copied]
  /\ lock' = IF lock = p THEN "nobody" ELSE lock
  /\ At(p, "serving")
  /\ UNCHANGED <<present, written, crashes>>

(* A process that serves writes arrivals.                                   *)
Serving == {p \in Processes : process[p].at = "serving"}

Arrive(p) ==
  /\ p \in Serving /\ Free(p) /\ Cardinality(ledger.rows) < MaxRows
  /\ \E s \in Takes(ledger.generation) :
       /\ ledger' = [ledger EXCEPT !.rows = @ \cup {Row(Cardinality(written) + 1, s)}]
       /\ written' = written \cup {Row(Cardinality(written) + 1, s)}
  /\ UNCHANGED <<present, lock, process, crashes>>

(* A process of an earlier version, still running, writes as well, until it *)
(* is replaced.                                                             *)
ArriveEarlier ==
  /\ lock = "nobody" /\ ledger.generation \in {"old", "face"} /\ Cardinality(ledger.rows) < MaxRows
  /\ \E s \in Takes(ledger.generation) :
       /\ ledger' = [ledger EXCEPT !.rows = @ \cup {Row(Cardinality(written) + 1, s)}]
       /\ written' = written \cup {Row(Cardinality(written) + 1, s)}
  /\ UNCHANGED <<present, lock, process, crashes>>

(* A crash rolls the transaction back and releases the lock.                *)
Crash(p) ==
  /\ process[p].at # "off" /\ crashes < MaxCrashes
  /\ crashes' = crashes + 1
  /\ process' = [process EXCEPT ![p] = Off]
  /\ lock' = IF lock = p THEN "nobody" ELSE lock
  /\ UNCHANGED <<ledger, present, written>>

Next ==
  \/ ArriveEarlier
  \/ \E p \in Processes :
       \/ CreateTables(p) \/ ReadColumns(p) \/ Alter(p) \/ Altered(p)
       \/ Wide(p) \/ Begin(p) \/ TimedOut(p) \/ Recheck(p) \/ Copy(p) \/ Commit(p)
       \/ Arrive(p) \/ Crash(p)

Spec == Init /\ [][Next]_vars

-----------------------------------------------------------------------------
Steps == {"off", "columns", "alter", "ledger", "migrating", "copied", "serving", "failed"}
TypeOK ==
  /\ ledger.generation \in {"none", "old", "face", "gps"} /\ Cardinality(ledger.rows) <= MaxRows + 2
  /\ present \subseteq Columns /\ lock \in Processes \cup {"nobody"}
  /\ \A p \in Processes : process[p].at \in Steps /\ process[p].seen \subseteq Columns
  /\ crashes \in 0..MaxCrashes

(* Hub and Bot may start in either order and at once (spec/interface/       *)
(* corpus-db-shared.md:14): neither dies of what the other did, a process   *)
(* that serves finds the whole schema, and no arrival is lost or loses its  *)
(* source or its assurance, wherever a start is cut off (data.ts: `the rows *)
(* that are there are not rewritten').                                      *)
StartsAreSafe ==
  /\ \A p \in Processes : process[p].at # "failed"
  /\ Serving # {} => present = Columns /\ ledger.generation = "gps"
  /\ ledger.rows = written
=============================================================================

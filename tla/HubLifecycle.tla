---------------------------- MODULE HubLifecycle ----------------------------
(***************************************************************************)
(* server.ts with plugins/cernere/shutdown.ts and the openers and closers  *)
(* of events/store.ts and events/facility-store.ts: how the Hub's process  *)
(* opens its two PostgreSQL stores, starts Corpus, and ends.  The main     *)
(* module, the initialization, a signal handler and one cleanup per store  *)
(* interleave at their awaits.                                             *)
(***************************************************************************)
EXTENDS Naturals

VARIABLES
  stopping,        \* set by the first signal
  initialization,  \* the promise: the store it is opening, "ok" or "failed"
  main,            \* where the main module is
  corpus,          \* the Corpus server startCorpus() returned
  corpusClosing,   \* the promise of closeCorpus()
  store,           \* the pool behind the module variable of each store
  cleanup,         \* the cleanup of each store in shutdown()
  exit             \* "running" or the exit code

vars == <<stopping, initialization, main, corpus, corpusClosing, store, cleanup, exit>>

Stores == {"events", "facility"}
Each(x) == [s \in Stores |-> x]

Init ==
  /\ stopping = FALSE
  /\ initialization = "events"
  /\ main = "initializing"
  /\ corpus = "none"
  /\ corpusClosing = "none"
  /\ store = Each("none")
  /\ cleanup = Each("idle")
  /\ exit = "running"

-----------------------------------------------------------------------------
(* createShutdown: the stores are cleaned up once, whoever asks.  Its      *)
(* closeClients() runs first, in the same step.                            *)
Shutdown == cleanup' = [s \in Stores |-> IF cleanup[s] = "idle" THEN "waiting" ELSE cleanup[s]]
ShutdownStarts == cleanup = Each("idle") /\ cleanup' # cleanup

(* initializeEventStore, then initializeFacilityStore unless the signal    *)
(* came.  A store that fails to initialize has closed its own pool.        *)
OpenEvents ==
  /\ initialization = "events"
  /\ \/ /\ store' = [store EXCEPT !["events"] = "open"]
        /\ initialization' = IF stopping THEN "ok" ELSE "facility"
     \/ initialization' = "failed" /\ UNCHANGED store
  /\ UNCHANGED <<stopping, main, corpus, corpusClosing, cleanup, exit>>

OpenFacility ==
  /\ initialization = "facility"
  /\ \/ store' = [store EXCEPT !["facility"] = "open"] /\ initialization' = "ok"
     \/ initialization' = "failed" /\ UNCHANGED store
  /\ UNCHANGED <<stopping, main, corpus, corpusClosing, cleanup, exit>>

(* The catch of the main module: shutdown(), whose end Exit awaits.        *)
Fails == main' = "failed" /\ Shutdown

Initialized ==
  /\ main = "initializing"
  /\ \/ initialization = "ok" /\ main' = (IF stopping THEN "done" ELSE "starting") /\ UNCHANGED cleanup
     \/ initialization = "failed" /\ Fails
  /\ UNCHANGED <<stopping, initialization, corpus, corpusClosing, store, exit>>

(* startCorpus() resolves: its runtime is registered or, when the signal   *)
(* came meanwhile, closed at once; or it rejects.                          *)
Started ==
  /\ main = "starting"
  /\ \/ corpus' = "up" /\ main' = (IF stopping THEN "late" ELSE "serving") /\ UNCHANGED cleanup
     \/ Fails /\ UNCHANGED corpus
  /\ UNCHANGED <<stopping, initialization, corpusClosing, store, exit>>

LateClosed ==
  /\ main = "late"
  /\ \/ corpus' = "closed" /\ main' = "done" /\ UNCHANGED cleanup
     \/ Fails /\ UNCHANGED corpus
  /\ UNCHANGED <<stopping, initialization, corpusClosing, store, exit>>

(* onSignal, the first time.  closeTirociniumCalls() is TrCalls' Stop.     *)
Signal ==
  /\ ~stopping
  /\ stopping' = TRUE
  /\ Shutdown
  /\ UNCHANGED <<initialization, main, corpus, corpusClosing, store, exit>>

-----------------------------------------------------------------------------
Initializing == initialization \notin {"ok", "failed"}

CloseCorpusAfterStart(s) ==   \* mutant: awaits the start, not the initialization
  /\ cleanup[s] = "waiting"
  /\ main \notin {"initializing", "starting"}
  /\ corpusClosing = "none"
  /\ corpusClosing' = IF main = "serving" THEN "pending" ELSE "closed"
  /\ UNCHANGED <<stopping, initialization, main, corpus, store, cleanup, exit>>

CloseCorpusUnawaited(s) ==   \* mutant: initialization is not awaited
  /\ cleanup[s] = "waiting"
  /\ corpusClosing = "none"
  /\ corpusClosing' = IF main = "serving" THEN "pending" ELSE "closed"
  /\ UNCHANGED <<stopping, initialization, main, corpus, store, cleanup, exit>>

(* afterInitialization: the first cleanup to get past the initialization   *)
(* calls closeCorpus(), which finds a registered runtime or none.          *)
CloseCorpus(s) ==
  /\ cleanup[s] = "waiting"
  /\ ~Initializing
  /\ corpusClosing = "none"
  /\ corpusClosing' = IF main = "serving" THEN "pending" ELSE "closed"
  /\ UNCHANGED <<stopping, initialization, main, corpus, store, cleanup, exit>>

CorpusClosed ==
  /\ corpusClosing = "pending"
  /\ \/ corpusClosing' = "closed" /\ corpus' = "closed"
     \/ corpusClosing' = "failed" /\ UNCHANGED corpus
  /\ UNCHANGED <<stopping, initialization, main, store, cleanup, exit>>

(* closeEventStore / closeFacilityStore take the pool out of the module    *)
(* variable and end it; sql.end may reject.  When Corpus did not close, a  *)
(* store is not closed either.                                             *)
CloseStore(s) ==
  /\ cleanup[s] = "waiting"
  /\ \/ /\ corpusClosing = "closed"
        /\ \/ /\ cleanup' = [cleanup EXCEPT ![s] = "done"]
              /\ store' = [store EXCEPT ![s] = IF @ = "open" THEN "closed" ELSE @]
           \/ /\ store[s] = "open"
              /\ cleanup' = [cleanup EXCEPT ![s] = "failed"]
              /\ UNCHANGED store
     \/ /\ corpusClosing = "failed"
        /\ cleanup' = [cleanup EXCEPT ![s] = "failed"]
        /\ UNCHANGED store
  /\ UNCHANGED <<stopping, initialization, main, corpus, corpusClosing, exit>>

Settled == \A s \in Stores : cleanup[s] \in {"done", "failed"}
FailedCleanup == \E s \in Stores : cleanup[s] = "failed"

(* process.exit after shutdown() of a signal, or the rethrown error of the *)
(* main module; after a failure and a signal, whichever is first.          *)
Exit ==
  /\ Settled
  /\ \/ stopping /\ exit' = (IF FailedCleanup THEN "1" ELSE "0")
     \/ main = "failed" /\ exit' = "1"
  /\ UNCHANGED <<stopping, initialization, main, corpus, corpusClosing, store, cleanup>>

(* Connecting, closing a pool (sql.end has a 5 s limit) and Corpus' close  *)
(* are answered and a settled promise is resumed: these steps have to come.*)
Progress ==
  /\ exit = "running"
  /\ \/ OpenEvents \/ OpenFacility \/ Initialized
     \/ \E s \in Stores : CloseCorpus(s) \/ CloseStore(s)
     \/ CorpusClosed \/ Exit

(* startCorpus() need not end, nor the close of a runtime that came late.  *)
Next ==
  \/ Progress
  \/ exit = "running" /\ (Started \/ LateClosed \/ Signal)

Fairness == WF_vars(Progress)

Spec == Init /\ [][Next]_vars /\ Fairness

-----------------------------------------------------------------------------
(* When the process ends, whatever came first and whatever failed, a pool  *)
(* that was opened has been closed, unless its own close or that of Corpus *)
(* failed; and then the exit code says so.  The signal may come while a    *)
(* pool is still being opened.                                             *)
EndsClean ==
  exit # "running" =>
    /\ \A s \in Stores : store[s] = "open" => cleanup[s] = "failed"
    /\ FailedCleanup => exit = "1"

(* A process that was told to stop, or whose start failed, ends.           *)
ShutdownEnds == (stopping \/ main = "failed") ~> exit # "running"

-----------------------------------------------------------------------------
(* Every variable keeps its range. *)
TypeOK ==
  /\ stopping \in BOOLEAN
  /\ initialization \in {"events", "facility", "ok", "failed"}
  /\ main \in {"initializing", "starting", "serving", "late", "done", "failed"}
  /\ corpus \in {"none", "up", "closed"}
  /\ corpusClosing \in {"none", "pending", "closed", "failed"}
  /\ store \in [Stores -> {"none", "open", "closed"}]
  /\ cleanup \in [Stores -> {"idle", "waiting", "done", "failed"}]
  /\ exit \in {"running", "0", "1"}

(* What makes EndsClean inductive.  The cleanups begin together, for a     *)
(* signal or a failed start, and get past a finished initialization only;  *)
(* the promise of closeCorpus() holds back the stores.                     *)
CleanupsBeginTogether ==
  /\ (\E s \in Stores : cleanup[s] # "idle") => \A s \in Stores : cleanup[s] # "idle"
  /\ (\E s \in Stores : cleanup[s] # "idle") => stopping \/ main = "failed"

ClosingFollowsInitialization ==
  /\ corpusClosing # "none" => ~Initializing /\ \E s \in Stores : cleanup[s] # "idle"
  /\ corpusClosing = "closed" /\ main = "serving" => corpus = "closed"

StoresFollowClosing ==
  \A s \in Stores :
    /\ cleanup[s] \in {"done", "failed"} => corpusClosing \in {"closed", "failed"}
    /\ cleanup[s] = "done" => store[s] # "open"
    /\ store[s] = "closed" => corpusClosing = "closed"

Inv ==
  /\ TypeOK
  /\ CleanupsBeginTogether
  /\ ClosingFollowsInitialization
  /\ StoresFollowClosing
  /\ EndsClean
=============================================================================

---------------------------- MODULE DeliveryProofs ----------------------------
EXTENDS MCDelivery, FiniteSetTheorems, WellFoundedInduction, TLAPS

-----------------------------------------------------------------------------
(* Admissions (Registrations).                                             *)

AdmissionRow == [status : {"pending", "approved", "rejected"}, revision : Nat]

OpenedRow == [user : Accounts, revision : Nat]

(* An administrator has before him a row that is there, as it was or is.   *)
AdmissionInv ==
  /\ admission \in [Accounts -> {None} \cup AdmissionRow]
  /\ opened \in [Admins -> {None} \cup OpenedRow]

LEMMA AdmissionsBegin == Admissions!Init => AdmissionInv
BY DEF Admissions!Init, AdmissionInv

LEMMA RecordedRows ==
  ASSUME AdmissionInv, NEW us
  PROVE  /\ Admissions!Recorded(admission, us) \in [Accounts -> {None} \cup AdmissionRow]
         /\ \A u \in Accounts : admission[u] # None =>
              Admissions!Recorded(admission, us)[u] = admission[u]
<1>1. Admissions!Pending \in AdmissionRow
  BY DEF Admissions!Pending, AdmissionRow
<1>2. \A u \in Accounts : admission[u] \in {None} \cup AdmissionRow
  BY DEF AdmissionInv
<1> QED BY <1>1, <1>2 DEF Admissions!Recorded

(* An administrator's decision: the row he had before him is still the     *)
(* row, or nothing changes.                                                *)
LEMMA Decided ==
  ASSUME AdmissionInv, NEW a \in Admins, NEW status \in {"approved", "rejected"},
         Admissions!Decide(a, status)
  PROVE  /\ AdmissionInv'
         /\ \A u \in Accounts : admission[u] # None =>
              \/ admission'[u] = admission[u]
              \/ /\ admission'[u].revision = admission[u].revision + 1
                 /\ opened[a] = [user |-> u, revision |-> admission[u].revision]
<1> DEFINE o == opened[a]
           new == [status |-> status, revision |-> admission[o.user].revision + 1]
<1>1. o \in OpenedRow
  BY DEF AdmissionInv, Admissions!Decide
<1>2. o.user \in Accounts /\ o.revision \in Nat
      /\ o = [user |-> o.user, revision |-> o.revision]
  BY <1>1 DEF OpenedRow
<1>3. opened' = [opened EXCEPT ![a] = None]
  BY DEF Admissions!Decide
<1>4. opened' \in [Admins -> {None} \cup OpenedRow]
  BY <1>3 DEF AdmissionInv
<1>5. CASE admission[o.user].revision = o.revision
  <2>1. admission' = [admission EXCEPT ![o.user] = new]
    BY <1>5 DEF Admissions!Decide
  <2>2. new \in AdmissionRow
    BY <1>2, <1>5 DEF AdmissionRow
  <2>3. new.revision = admission[o.user].revision + 1
    OBVIOUS
  <2> HIDE DEF new
  <2>4. admission' \in [Accounts -> {None} \cup AdmissionRow]
    BY <1>2, <2>1, <2>2 DEF AdmissionInv
  <2>5. ASSUME NEW u \in Accounts
        PROVE  \/ admission'[u] = admission[u]
               \/ /\ admission'[u].revision = admission[u].revision + 1
                  /\ o = [user |-> u, revision |-> admission[u].revision]
    BY <1>2, <1>5, <2>1, <2>3 DEF AdmissionInv
  <2> QED BY <1>4, <2>4, <2>5 DEF AdmissionInv
<1>6. CASE admission[o.user].revision # o.revision
  <2>1. admission' = admission
    BY <1>6 DEF Admissions!Decide
  <2> QED BY <1>4, <2>1 DEF AdmissionInv
<1> QED BY <1>5, <1>6

(* What a step of the admissions does to the rows that are there.          *)
DecisionStands ==
  \A u \in Accounts : admission[u] # None =>
    \/ admission'[u] = admission[u]
    \/ /\ admission'[u].revision = admission[u].revision + 1
       /\ \E a \in Admins : opened[a] = [user |-> u, revision |-> admission[u].revision]

LEMMA AdmissionsStep ==
  AdmissionInv /\ [Admissions!Next]_admissionVars => AdmissionInv' /\ DecisionStands
<1> SUFFICES ASSUME AdmissionInv, [Admissions!Next]_admissionVars
             PROVE  AdmissionInv' /\ DecisionStands
  OBVIOUS
<1>1. ASSUME UNCHANGED <<admission, opened>> PROVE AdmissionInv' /\ DecisionStands
  BY <1>1 DEF AdmissionInv, DecisionStands
<1>2. ASSUME NEW us, admission' = Admissions!Recorded(admission, us), UNCHANGED opened
      PROVE  AdmissionInv' /\ DecisionStands
  BY <1>2, RecordedRows DEF AdmissionInv, DecisionStands
<1>3. ASSUME NEW a \in Admins, NEW u \in Accounts, Admissions!Open(a, u)
      PROVE  AdmissionInv' /\ DecisionStands
  <2> DEFINE o == [user |-> u, revision |-> admission[u].revision]
  <2>1. admission[u] \in AdmissionRow /\ opened' = [opened EXCEPT ![a] = o]
        /\ admission' = admission
    BY <1>3 DEF Admissions!Open, AdmissionInv
  <2>2. o \in OpenedRow
    BY <2>1 DEF AdmissionRow, OpenedRow
  <2> HIDE DEF o
  <2> QED BY <2>1, <2>2 DEF AdmissionInv, DecisionStands
<1>4. ASSUME NEW a \in Admins, NEW status \in {"approved", "rejected"},
             Admissions!Decide(a, status)
      PROVE  AdmissionInv' /\ DecisionStands
  BY <1>4, Decided DEF DecisionStands
<1>5. CASE Admissions!Next
  BY <1>1, <1>2, <1>3, <1>4, <1>5 DEF Admissions!Next, Admissions!Register, Admissions!Visit,
     Admissions!StartSync, Admissions!Listed, Admissions!Stored, Admissions!SyncFails
<1>6. CASE UNCHANGED admissionVars
  BY <1>1, <1>6 DEF admissionVars
<1> QED BY <1>5, <1>6

(* Whatever syncs overlap or begin again, and whoever visits meanwhile: a  *)
(* decision stands until one by somebody who has seen it (plugins/access,  *)
(* decideAdmission and recordRegistration).                                *)
THEOREM DecisionsStandFast ==
  Admissions!Init /\ [][Admissions!Next]_(Admissions!vars) => Admissions!DecisionsStand
<1>1. AdmissionInv /\ [Admissions!Next]_admissionVars => [DecisionStands]_admissionVars
  BY AdmissionsStep
<1>2. Admissions!Init /\ [][Admissions!Next]_admissionVars => [][DecisionStands]_admissionVars
  BY <1>1, AdmissionsBegin, AdmissionsStep, PTL
<1> QED BY <1>2, PTL DEF Admissions!DecisionsStand, DecisionStands, admissionVars,
        Admissions!vars

-----------------------------------------------------------------------------
(* Consultations (Consults).                                               *)

ConsultRow == [status : {"none", "open", "resolved"}, by : Users \cup {None},
               recent : BOOLEAN, thread : Threads \cup {None}, acked : BOOLEAN]

ForumThread == [of : Consults \cup {None}, state : {"none", "open", "archived", "deleted"}]

BotState == [at : {"idle", "posting", "resolving"}, batch : SUBSET Consults,
             row : Consults \cup {None}, thread : Threads \cup {None}]

(* What is announced was posted, and what is acknowledged is over.         *)
RowIsSound(c) ==
  /\ consult[c].status = "none" => consult[c].thread = None /\ ~consult[c].recent
  /\ consult[c].acked => consult[c].status = "resolved" /\ consult[c].thread # None

(* What the bot read holds until it gets to it: only the bot records a     *)
(* thread, and no row that is resolved is opened again.                    *)
BotIsSound ==
  /\ bot.at = "idle" => bot = Idle
  /\ bot.at = "posting" =>
       /\ \A c \in bot.batch : consult[c].status # "none" /\ consult[c].thread = None
       /\ bot.row = None <=> bot.thread = None
       /\ bot.row # None => bot.row \in bot.batch /\ thread[bot.thread].of = bot.row
  /\ bot.at = "resolving" =>
       /\ bot.thread = None /\ bot.row \in bot.batch \cup {None}
       /\ \A c \in bot.batch : consult[c].status = "resolved" /\ consult[c].thread # None

Recorded(c) == IF consult[c].thread # None THEN 1 ELSE 0
InHand(c) == IF bot.row = c /\ bot.at = "posting" THEN 1 ELSE 0

ConsultInv ==
  /\ consult \in [Consults -> ConsultRow] /\ thread \in [Threads -> ForumThread]
  /\ bot \in BotState /\ lost \in [Consults -> Nat]
  /\ \A t \in Threads : thread[t].state = "none" <=> thread[t].of = None
  /\ \A c \in Consults : RowIsSound(c)
  /\ BotIsSound
  /\ ThreadsAreAccounted

LEMMA ConsultsAre ==
  ASSUME ConsultInv
  PROVE  /\ None \notin Consults /\ None \notin Threads /\ Consults \subseteq Int
         /\ Threads \subseteq Int
         /\ \A c \in Consults : /\ consult[c] \in ConsultRow /\ lost[c] \in Nat /\ RowIsSound(c)
                                /\ IsFiniteSet(ThreadsOf(c))
                                /\ Cardinality(ThreadsOf(c)) = lost[c] + Recorded(c) + InHand(c)
                                /\ consult[c].thread # None => consult[c].thread \in ThreadsOf(c)
         /\ \A t \in Threads : thread[t] \in ForumThread
<1>1. None \notin Consults /\ None \notin Threads /\ Consults \subseteq Int /\ Threads \subseteq Int
      /\ NThreads \in Nat
  BY ConsultAssumption DEF Consults, Threads
<1>2. IsFiniteSet(Threads)
  BY <1>1, FS_Interval DEF Threads
<1>3. \A c : ThreadsOf(c) \subseteq Threads
  BY DEF ThreadsOf
<1>4. \A c \in Consults : IsFiniteSet(ThreadsOf(c))
  BY <1>2, <1>3, FS_Subset
<1>5. \A c \in Consults : /\ Cardinality(ThreadsOf(c)) = lost[c] + Recorded(c) + InHand(c)
                          /\ consult[c].thread # None => consult[c].thread \in ThreadsOf(c)
  BY DEF ConsultInv, ThreadsAreAccounted, Recorded, InHand
<1>6. /\ \A c \in Consults : consult[c] \in ConsultRow /\ lost[c] \in Nat /\ RowIsSound(c)
      /\ \A t \in Threads : thread[t] \in ForumThread
  BY DEF ConsultInv
<1> QED BY <1>1, <1>4, <1>5, <1>6

(* A step that makes no thread keeps the account when what it takes from   *)
(* the bot's hand is recorded or lost.                                     *)
LEMMA AccountIsKept ==
  ASSUME ConsultInv,
         consult' \in [Consults -> ConsultRow], thread' \in [Threads -> ForumThread],
         bot' \in BotState, lost' \in [Consults -> Nat],
         \A t \in Threads : /\ thread'[t].of = thread[t].of
                            /\ thread'[t].state = "none" <=> thread[t].state = "none",
         \A c \in Consults : /\ RowIsSound(c)'
                             /\ lost'[c] + Recorded(c)' + InHand(c)'
                                  = lost[c] + Recorded(c) + InHand(c)
                             /\ consult'[c].thread # None =>
                                  \/ consult'[c].thread = consult[c].thread
                                  \/ consult'[c].thread \in ThreadsOf(c),
         BotIsSound'
  PROVE  ConsultInv'
<1>1. \A c : ThreadsOf(c)' = ThreadsOf(c)
  BY DEF ThreadsOf
<1>2. ThreadsAreAccounted'
  <2> SUFFICES ASSUME NEW c \in Consults
               PROVE  /\ consult'[c].thread # None => consult'[c].thread \in ThreadsOf(c)'
                      /\ Cardinality(ThreadsOf(c)') = lost'[c] + Recorded(c)' + InHand(c)'
    BY DEF ThreadsAreAccounted, Recorded, InHand
  <2> QED BY <1>1, ConsultsAre
<1>3. \A t \in Threads : thread'[t].state = "none" <=> thread'[t].of = None
  BY DEF ConsultInv
<1> QED BY <1>2, <1>3 DEF ConsultInv

(* The Hub's routes and time: rows come in, leave the window, are resolved.*)
LEMMA HubMoves ==
  ASSUME ConsultInv, consult' \in [Consults -> ConsultRow], UNCHANGED <<thread, bot, lost>>,
         \A c \in Consults :
           /\ RowIsSound(c)' /\ consult'[c].thread = consult[c].thread
           /\ consult[c].status # "none" => consult'[c].status # "none"
           /\ consult[c].status = "resolved" => consult'[c].status = "resolved"
  PROVE  ConsultInv'
<1>1. bot \in BotState /\ BotIsSound
  BY DEF ConsultInv
<1>2. BotIsSound'
  <2>1. bot.batch \subseteq Consults
    BY <1>1 DEF BotState
  <2> QED BY <1>1, <2>1 DEF BotIsSound
<1>3. \A c \in Consults : Recorded(c)' = Recorded(c) /\ InHand(c)' = InHand(c)
  BY DEF Recorded, InHand
<1> QED BY <1>2, <1>3, AccountIsKept DEF ConsultInv

(* The bot goes on or a thread changes its state: no row changes.          *)
LEMMA BotMoves ==
  ASSUME ConsultInv, thread' \in [Threads -> ForumThread], UNCHANGED <<consult, lost>>,
         bot' \in BotState, BotIsSound',
         \A t \in Threads : /\ thread'[t].of = thread[t].of
                            /\ thread'[t].state = "none" <=> thread[t].state = "none",
         \A c \in Consults : InHand(c)' = InHand(c)
  PROVE  ConsultInv'
<1>1. \A c \in Consults : RowIsSound(c)' /\ Recorded(c)' = Recorded(c)
  BY DEF ConsultInv, RowIsSound, Recorded
<1> QED BY <1>1, AccountIsKept DEF ConsultInv

LEMMA ConsultsBegin == Init => ConsultInv
<1> SUFFICES ASSUME Init PROVE ConsultInv
  OBVIOUS
<1>1. /\ NoRow \in ConsultRow /\ [of |-> None, state |-> "none"] \in ForumThread
      /\ Idle \in BotState /\ None \notin Consults
  BY ConsultAssumption DEF NoRow, ConsultRow, ForumThread, Idle, BotState
<1>2. /\ consult = [c \in Consults |-> NoRow] /\ bot = Idle /\ lost = [c \in Consults |-> 0]
      /\ thread = [t \in Threads |-> [of |-> None, state |-> "none"]]
  BY DEF Init
<1>3. \A c \in Consults : consult[c] = NoRow /\ RowIsSound(c)
  BY <1>2 DEF RowIsSound, NoRow
<1>4. \A t \in Threads : thread[t].of = None /\ thread[t].state = "none"
  BY <1>2
<1>5. ThreadsAreAccounted
  <2>1. \A c \in Consults : ThreadsOf(c) = {}
    BY <1>1, <1>4 DEF ThreadsOf
  <2>2. Cardinality({}) = 0
    BY FS_EmptySet
  <2>3. bot.at = "idle" /\ \A c \in Consults : consult[c].thread = None /\ lost[c] = 0
    BY <1>2, <1>3 DEF NoRow, Idle
  <2> QED BY <2>1, <2>2, <2>3 DEF ThreadsAreAccounted
<1> QED BY <1>1, <1>2, <1>3, <1>4, <1>5 DEF ConsultInv, BotIsSound, Idle

LEMMA HubSteps ==
  ASSUME ConsultInv,
         \/ \E u \in Users, r \in Requests : Ask(u, r) \/ Insert(u, r)
         \/ \E c \in Consults : WindowPasses(c) \/ Resolve(c)
  PROVE  ConsultInv'
<1>1. \A c \in Consults : consult[c] \in ConsultRow /\ RowIsSound(c)
  BY ConsultsAre
<1>2. consult \in [Consults -> ConsultRow]
  BY DEF ConsultInv
<1>3. ASSUME UNCHANGED <<consult, thread, bot, lost>> PROVE ConsultInv'
  BY <1>1, <1>2, <1>3, HubMoves DEF RowIsSound
<1>4. ASSUME NEW c \in Consults, NEW new \in ConsultRow,
             consult' = [consult EXCEPT ![c] = new], UNCHANGED <<thread, bot, lost>>,
             new.thread = consult[c].thread,
             new.status = "none" => ~new.recent,
             consult[c].status # "none" => new.status # "none" /\ new.acked = consult[c].acked,
             consult[c].status = "resolved" => new.status = "resolved",
             consult[c].status = "none" => ~new.acked
      PROVE  ConsultInv'
  <2>1. consult' \in [Consults -> ConsultRow]
    BY <1>2, <1>4
  <2>2. \A d \in Consults : consult'[d] = IF d = c THEN new ELSE consult[d]
    BY <1>2, <1>4
  <2>3. ASSUME NEW d \in Consults
        PROVE  /\ RowIsSound(d)' /\ consult'[d].thread = consult[d].thread
               /\ consult[d].status # "none" => consult'[d].status # "none"
               /\ consult[d].status = "resolved" => consult'[d].status = "resolved"
    BY <1>1, <1>4, <2>2 DEF RowIsSound
  <2> QED BY <1>4, <2>1, <2>3, HubMoves
<1>5. ASSUME NEW u \in Users, NEW r \in Requests, Insert(u, r) PROVE ConsultInv'
  <2>1. CASE UNCHANGED consult
    BY <1>3, <1>5, <2>1 DEF Insert
  <2>2. CASE ~UNCHANGED consult
    <3> DEFINE new == [NoRow EXCEPT !.status = "open", !.by = u, !.recent = TRUE]
    <3>1. PICK c \in Consults \ Rows : consult' = [consult EXCEPT ![c] = new]
      BY <1>5, <2>2 DEF Insert
    <3>2. new \in ConsultRow /\ new.status = "open" /\ new.thread = None /\ ~new.acked
      BY DEF NoRow, ConsultRow
    <3>3. consult[c].status = "none" /\ consult[c].thread = None
      BY <1>1, <3>1 DEF Rows, RowIsSound
    <3> HIDE DEF new
    <3> QED BY <1>4, <1>5, <3>1, <3>2, <3>3 DEF Insert
  <2> QED BY <2>1, <2>2
<1>6. ASSUME NEW c \in Consults, WindowPasses(c) PROVE ConsultInv'
  <2> DEFINE new == [consult[c] EXCEPT !.recent = FALSE]
  <2>1. /\ new \in ConsultRow /\ new.thread = consult[c].thread /\ new.status = consult[c].status
        /\ new.acked = consult[c].acked /\ new.recent = FALSE
    BY <1>1 DEF ConsultRow
  <2>2. consult' = [consult EXCEPT ![c] = new] /\ consult[c].status # "none"
    BY <1>1, <1>6 DEF WindowPasses, RowIsSound
  <2>3. UNCHANGED <<thread, bot, lost>>
    BY <1>6 DEF WindowPasses
  <2> HIDE DEF new
  <2> QED BY <1>4, <2>1, <2>2, <2>3
<1>7. ASSUME NEW c \in Consults, Resolve(c) PROVE ConsultInv'
  <2> DEFINE new == [consult[c] EXCEPT !.status = "resolved"]
  <2>1. /\ new \in ConsultRow /\ new.thread = consult[c].thread /\ new.status = "resolved"
        /\ new.acked = consult[c].acked /\ new.recent = consult[c].recent
    BY <1>1 DEF ConsultRow
  <2>2. consult' = [consult EXCEPT ![c] = new] /\ consult[c].status = "open"
    BY <1>7 DEF Resolve
  <2> HIDE DEF new
  <2> QED BY <1>4, <1>7, <2>1, <2>2 DEF Resolve
<1> QED BY <1>3, <1>5, <1>6, <1>7 DEF Ask

(* The bot begins a stage, ends it, stops, or Discord deletes a thread.    *)
LEMMA BotSteps ==
  ASSUME ConsultInv, BeginPosts \/ BeginNotices \/ EndTick \/ \E t \in Threads : ThreadDeleted(t)
  PROVE  ConsultInv'
<1>1. bot \in BotState /\ BotIsSound /\ thread \in [Threads -> ForumThread]
  BY DEF ConsultInv
<1>2. Idle \in BotState /\ PendingPost \subseteq Consults /\ PendingNotice \subseteq Consults
      /\ None \notin Consults /\ None \notin Threads
  BY ConsultsAre DEF Idle, BotState, PendingPost, PendingNotice, Rows
<1>3. ASSUME UNCHANGED <<consult, thread, lost>>, bot' \in BotState, BotIsSound',
             \A c \in Consults : InHand(c)' = InHand(c)
      PROVE  ConsultInv'
  BY <1>1, <1>3, BotMoves
<1>4. CASE BeginPosts
  <2>1. bot.at = "idle" /\ bot = Idle /\ UNCHANGED <<consult, thread, lost>>
    BY <1>1, <1>4 DEF BeginPosts, BotIsSound
  <2>2. CASE UNCHANGED bot
    BY <1>1, <1>3, <2>1, <2>2 DEF BotIsSound, InHand
  <2>3. CASE bot' = [Idle EXCEPT !.at = "posting", !.batch = PendingPost]
    <3>1. bot'.at = "posting" /\ bot'.batch = PendingPost /\ bot'.row = None /\ bot'.thread = None
          /\ bot' \in BotState
      BY <1>2, <2>3 DEF Idle, BotState
    <3>2. BotIsSound'
      BY <2>1, <3>1 DEF BotIsSound, PendingPost, Rows
    <3> QED BY <1>2, <1>3, <2>1, <3>1, <3>2 DEF InHand, Idle
  <2> QED BY <1>4, <2>2, <2>3 DEF BeginPosts
<1>5. CASE BeginNotices
  <2>1. bot.at = "posting" /\ bot.batch = {} /\ UNCHANGED <<consult, thread, lost>>
    BY <1>5 DEF BeginNotices
  <2>2. bot.row = None
    BY <1>1, <2>1 DEF BotIsSound
  <2>3. /\ bot'.at \in {"idle", "resolving"} /\ bot'.row = None /\ bot'.thread = None
        /\ bot' \in BotState
        /\ bot'.at = "idle" => bot' = Idle
        /\ bot'.at = "resolving" => bot'.batch = PendingNotice
    BY <1>2, <1>5 DEF BeginNotices, Idle, BotState
  <2>4. BotIsSound'
    BY <2>1, <2>3 DEF BotIsSound, PendingNotice, Rows
  <2> QED BY <1>2, <1>3, <2>1, <2>2, <2>3, <2>4 DEF InHand
<1>6. CASE EndTick
  <2>1. bot.at = "resolving" /\ bot' = Idle /\ UNCHANGED <<consult, thread, lost>>
    BY <1>6 DEF EndTick
  <2>2. BotIsSound'
    BY <2>1 DEF BotIsSound, Idle
  <2> QED BY <1>2, <1>3, <2>1, <2>2 DEF InHand, Idle
<1>7. ASSUME NEW t \in Threads, ThreadDeleted(t) PROVE ConsultInv'
  <2> DEFINE new == [thread[t] EXCEPT !.state = "deleted"]
  <2>1. new \in ForumThread /\ new.of = thread[t].of /\ new.state # "none"
        /\ thread[t].state # "none" /\ thread' = [thread EXCEPT ![t] = new]
        /\ UNCHANGED <<consult, bot, lost>>
    BY <1>1, <1>7 DEF ForumThread, ThreadDeleted
  <2> HIDE DEF new
  <2>2. thread' \in [Threads -> ForumThread]
    BY <1>1, <2>1
  <2>3. \A s \in Threads : /\ thread'[s].of = thread[s].of
                           /\ thread'[s].state = "none" <=> thread[s].state = "none"
    BY <1>1, <2>1
  <2>4. BotIsSound'
    <3>1. bot.at = "posting" /\ bot.row # None => bot.thread \in Threads
      BY <1>1 DEF BotIsSound, BotState
    <3> QED BY <1>1, <2>1, <2>3, <3>1 DEF BotIsSound
  <2>5. \A c \in Consults : InHand(c)' = InHand(c)
    BY <2>1 DEF InHand
  <2> QED BY <1>1, <2>1, <2>2, <2>3, <2>4, <2>5, BotMoves
<1> QED BY <1>4, <1>5, <1>6, <1>7

(* A set of numbers has a least one: the bot can always take the oldest.   *)
LEMMA LeastNumber ==
  ASSUME NEW T \in SUBSET Nat, NEW n \in T PROVE \E x \in T : \A y \in T : x <= y
<1> DEFINE R == OpToRel(<, Nat)
<1>1. IsWellFoundedOn(R, Nat)
  BY NatLessThanWellFounded
<1>2. \A x, y \in Nat : y < x => <<y, x>> \in R
  BY DEF OpToRel
<1> HIDE DEF R
<1>3. PICK x \in T : \A y \in T : ~ (<<y, x>> \in R)
  BY <1>1, WFMin
<1>4. \A y \in T : x <= y
  <2> TAKE y \in T
  <2>1. x \in Nat /\ y \in Nat
    OBVIOUS
  <2>2. ~(y < x)
    BY <1>2, <1>3, <2>1
  <2> QED BY <2>1, <2>2
<1> QED BY <1>3, <1>4

(* The bot gives the consultation it works at out of its hands.            *)
LEMMA HandledNext ==
  ASSUME ConsultInv, NEW c \in Consults, bot.at \in {"posting", "resolving"}
  PROVE  /\ HandleNext(c) \in BotState /\ HandleNext(c).at = bot.at
         /\ HandleNext(c).batch = bot.batch \ {c}
         /\ HandleNext(c).row = None /\ HandleNext(c).thread = None
BY DEF ConsultInv, BotState, HandleNext

(* A thread is created: into the bot's hand, or lost with its answer.      *)
LEMMA ThreadIsMade ==
  ASSUME ConsultInv, NEW c \in Consults, NEW t \in Threads, thread[t].state = "none",
         thread' = [thread EXCEPT ![t] = [of |-> c, state |-> "open"]],
         UNCHANGED consult, bot' \in BotState, lost' \in [Consults -> Nat], BotIsSound',
         lost'[c] + InHand(c)' = lost[c] + InHand(c) + 1,
         \A d \in Consults \ {c} : lost'[d] + InHand(d)' = lost[d] + InHand(d)
  PROVE  ConsultInv'
<1>1. thread \in [Threads -> ForumThread] /\ \A s \in Threads : thread[s] \in ForumThread
  BY DEF ConsultInv
<1>2. [of |-> c, state |-> "open"] \in ForumThread
  BY DEF ForumThread
<1>3. thread' \in [Threads -> ForumThread]
  BY <1>1, <1>2
<1>4. \A s \in Threads : /\ s = t => thread'[s].of = c /\ thread'[s].state = "open"
                         /\ s # t => thread'[s] = thread[s]
  BY <1>1
<1>5. thread[t].of = None /\ None \notin Consults
  BY ConsultsAre DEF ConsultInv
<1>6. ThreadsOf(c)' = ThreadsOf(c) \cup {t} /\ t \notin ThreadsOf(c)
  BY <1>4, <1>5 DEF ThreadsOf
<1>7. \A d \in Consults \ {c} : ThreadsOf(d)' = ThreadsOf(d)
  BY <1>4, <1>5 DEF ThreadsOf
<1>8. Cardinality(ThreadsOf(c)') = Cardinality(ThreadsOf(c)) + 1
  <2>1. IsFiniteSet(ThreadsOf(c))
    BY ConsultsAre
  <2> QED BY <1>6, <2>1, FS_AddElement
<1>9. \A d \in Consults : Recorded(d)' = Recorded(d) /\ Recorded(d) \in Nat /\ InHand(d) \in Nat
                          /\ InHand(d)' \in Nat /\ lost'[d] \in Nat
  BY DEF Recorded, InHand
<1>10. ThreadsAreAccounted'
  <2> SUFFICES ASSUME NEW d \in Consults
               PROVE  /\ consult'[d].thread # None => consult'[d].thread \in ThreadsOf(d)'
                      /\ Cardinality(ThreadsOf(d)') = lost'[d] + Recorded(d)' + InHand(d)'
    BY DEF ThreadsAreAccounted, Recorded, InHand
  <2>1. consult'[d].thread # None => consult'[d].thread \in ThreadsOf(d)'
    BY <1>6, <1>7, ConsultsAre
  <2>2. Cardinality(ThreadsOf(d)') = lost'[d] + Recorded(d)' + InHand(d)'
    <3>1. Cardinality(ThreadsOf(d)) = lost[d] + Recorded(d) + InHand(d) /\ lost[d] \in Nat
      BY ConsultsAre
    <3>2. CASE d = c
      BY <1>8, <1>9, <3>1, <3>2
    <3>3. CASE d # c
      BY <1>7, <1>9, <3>1, <3>3
    <3> QED BY <3>2, <3>3
  <2> QED BY <2>1, <2>2
<1>11. \A s \in Threads : thread'[s].state = "none" <=> thread'[s].of = None
  BY <1>4, <1>5 DEF ConsultInv
<1>12. \A d \in Consults : RowIsSound(d)'
  BY DEF ConsultInv, RowIsSound
<1> QED BY <1>3, <1>10, <1>11, <1>12 DEF ConsultInv

LEMMA CreateSteps ==
  ASSUME ConsultInv, NEW c \in Consults, CreateThread(c)
  PROVE  ConsultInv'
<1>1. /\ bot \in BotState /\ BotIsSound /\ lost \in [Consults -> Nat]
      /\ None \notin Consults /\ None \notin Threads /\ Consults \subseteq Int
  BY ConsultsAre DEF ConsultInv
<1>2. bot.at = "posting" /\ bot.thread = None /\ bot.row = None /\ bot.batch # {}
      /\ c = Min(bot.batch) /\ UNCHANGED consult
  BY <1>1 DEF CreateThread, BotIsSound
<1>3. c \in bot.batch
  <2>1. bot.batch \in SUBSET Nat
    BY <1>1 DEF BotState, Consults
  <2>2. \E x \in bot.batch : \A y \in bot.batch : x <= y
    BY <1>2, <2>1, LeastNumber
  <2> QED BY <1>2, <2>2 DEF Min
<1>4. ASSUME PostFails(c)
      PROVE  bot' \in BotState /\ BotIsSound' /\ \A d \in Consults : InHand(d)' = InHand(d)
  <2>1. /\ bot' \in BotState /\ bot'.at = "posting" /\ bot'.batch = bot.batch \ {c}
        /\ bot'.row = None /\ bot'.thread = None
    BY <1>2, <1>4, HandledNext DEF PostFails
  <2>2. BotIsSound'
    BY <1>1, <1>2, <2>1 DEF BotIsSound
  <2> QED BY <1>1, <1>2, <2>1, <2>2 DEF InHand
<1>5. ASSUME PostFails(c), UNCHANGED <<thread, lost>> PROVE ConsultInv'
  <2>1. thread \in [Threads -> ForumThread]
    BY DEF ConsultInv
  <2> QED BY <1>2, <1>4, <1>5, <2>1, BotMoves
<1>6. ASSUME NEW t \in Threads, \A s \in Threads : thread[s].state = "none" <=> s >= t,
             thread' = [thread EXCEPT ![t] = [of |-> c, state |-> "open"]]
      PROVE  thread[t].state = "none" /\ thread'[t].of = c
  <2>1. t \in Int
    BY ConsultsAre
  <2> QED BY <1>6, <2>1 DEF ConsultInv
<1>7. ASSUME NEW t \in Threads, \A s \in Threads : thread[s].state = "none" <=> s >= t,
             thread' = [thread EXCEPT ![t] = [of |-> c, state |-> "open"]],
             bot' = [bot EXCEPT !.row = c, !.thread = t], UNCHANGED lost
      PROVE  ConsultInv'
  <2>1. /\ bot' \in BotState /\ bot'.at = "posting" /\ bot'.batch = bot.batch
        /\ bot'.row = c /\ bot'.thread = t
    BY <1>1, <1>2, <1>7 DEF BotState
  <2>2. BotIsSound'
    BY <1>1, <1>2, <1>3, <1>6, <1>7, <2>1 DEF BotIsSound
  <2>3. /\ InHand(c) = 0 /\ InHand(c)' = 1
        /\ \A d \in Consults \ {c} : InHand(d) = 0 /\ InHand(d)' = 0
    BY <1>1, <1>2, <2>1 DEF InHand
  <2>4. lost' \in [Consults -> Nat] /\ lost[c] \in Nat /\ lost' = lost
    BY <1>1, <1>7
  <2>5. /\ lost'[c] + InHand(c)' = lost[c] + InHand(c) + 1
        /\ \A d \in Consults \ {c} : lost'[d] + InHand(d)' = lost[d] + InHand(d)
    BY <2>3, <2>4
  <2>6. thread[t].state = "none"
    BY <1>6, <1>7
  <2> QED BY <1>2, <1>7, <2>1, <2>2, <2>4, <2>5, <2>6, ThreadIsMade
<1>8. ASSUME NEW t \in Threads, \A s \in Threads : thread[s].state = "none" <=> s >= t,
             thread' = [thread EXCEPT ![t] = [of |-> c, state |-> "open"]],
             lost' = [lost EXCEPT ![c] = @ + 1], PostFails(c)
      PROVE  ConsultInv'
  <2>1. /\ lost' \in [Consults -> Nat] /\ lost'[c] = lost[c] + 1
        /\ \A d \in Consults \ {c} : lost'[d] = lost[d]
    BY <1>1, <1>8
  <2>2. bot' \in BotState /\ BotIsSound' /\ \A d \in Consults : InHand(d)' = InHand(d)
    BY <1>4, <1>8
  <2>3. \A d \in Consults : InHand(d) \in Nat /\ lost[d] \in Nat
    BY <1>1 DEF InHand
  <2>4. /\ lost'[c] + InHand(c)' = lost[c] + InHand(c) + 1
        /\ \A d \in Consults \ {c} : lost'[d] + InHand(d)' = lost[d] + InHand(d)
    BY <2>1, <2>2, <2>3
  <2>5. thread[t].state = "none"
    BY <1>6, <1>8
  <2> QED BY <1>2, <1>8, <2>1, <2>2, <2>4, <2>5, ThreadIsMade
<1> QED BY <1>5, <1>7, <1>8 DEF CreateThread

(* The thread in hand is recorded: the row was read without one, and only  *)
(* the bot writes it.                                                      *)
LEMMA RecordSteps ==
  ASSUME ConsultInv, NEW c \in Consults, RecordThread(c)
  PROVE  ConsultInv'
<1>1. /\ bot \in BotState /\ BotIsSound /\ lost \in [Consults -> Nat] /\ None \notin Consults
      /\ consult \in [Consults -> ConsultRow] /\ thread \in [Threads -> ForumThread]
      /\ bot.thread \in Threads \cup {None}
  BY ConsultsAre DEF ConsultInv, BotState
<1>2. /\ bot.at = "posting" /\ bot.row = c /\ bot' = HandleNext(c) /\ UNCHANGED thread
      /\ bot.thread \in ThreadsOf(c) /\ consult[c].thread = None /\ consult[c].status # "none"
  BY <1>1 DEF RecordThread, BotIsSound, ThreadsOf
<1>3. /\ bot' \in BotState /\ bot'.at = "posting" /\ bot'.batch = bot.batch \ {c}
      /\ bot'.row = None /\ bot'.thread = None
  BY <1>2, HandledNext
<1>4. /\ InHand(c) = 1 /\ InHand(c)' = 0 /\ Recorded(c) = 0
      /\ \A d \in Consults \ {c} : InHand(d) = 0 /\ InHand(d)' = 0
  BY <1>1, <1>2, <1>3 DEF InHand, Recorded
<1>5. \A d \in Consults : RowIsSound(d) /\ lost[d] \in Nat /\ consult[d] \in ConsultRow
  BY ConsultsAre
<1>6. CASE consult' = [consult EXCEPT ![c].thread = bot.thread] /\ UNCHANGED lost
  <2> DEFINE new == [consult[c] EXCEPT !.thread = bot.thread]
  <2>1. /\ new \in ConsultRow /\ new.thread = bot.thread /\ new.status = consult[c].status
        /\ new.acked = consult[c].acked /\ consult' = [consult EXCEPT ![c] = new]
        /\ bot.thread # None
    BY <1>1, <1>2, <1>5, <1>6 DEF ConsultRow, BotIsSound
  <2> HIDE DEF new
  <2>2. /\ consult' \in [Consults -> ConsultRow] /\ consult'[c] = new
        /\ \A d \in Consults \ {c} : consult'[d] = consult[d]
    BY <1>1, <2>1
  <2>3. Recorded(c)' = 1 /\ \A d \in Consults \ {c} : Recorded(d)' = Recorded(d)
    BY <2>1, <2>2 DEF Recorded
  <2>4. BotIsSound'
    BY <1>1, <1>2, <1>3, <2>2 DEF BotIsSound, BotState
  <2>5. ASSUME NEW d \in Consults
        PROVE  /\ RowIsSound(d)'
               /\ lost'[d] + Recorded(d)' + InHand(d)' = lost[d] + Recorded(d) + InHand(d)
               /\ consult'[d].thread # None =>
                    \/ consult'[d].thread = consult[d].thread
                    \/ consult'[d].thread \in ThreadsOf(d)
    <3>1. CASE d = c
      <4>1. RowIsSound(d)'
        BY <1>2, <1>5, <2>1, <2>2, <3>1 DEF RowIsSound
      <4> QED BY <1>2, <1>4, <1>5, <1>6, <2>1, <2>2, <2>3, <3>1, <4>1
    <3>2. CASE d # c
      BY <1>4, <1>5, <1>6, <2>2, <2>3, <3>2 DEF RowIsSound
    <3> QED BY <3>1, <3>2
  <2> QED BY <1>1, <1>2, <1>3, <1>6, <2>2, <2>4, <2>5, AccountIsKept
<1>7. CASE lost' = [lost EXCEPT ![c] = @ + 1] /\ UNCHANGED consult
  <2>1. /\ lost' \in [Consults -> Nat] /\ lost'[c] = lost[c] + 1
        /\ \A d \in Consults \ {c} : lost'[d] = lost[d]
    BY <1>1, <1>7
  <2>2. \A d \in Consults : Recorded(d)' = Recorded(d) /\ RowIsSound(d)'
    BY <1>5, <1>7 DEF Recorded, RowIsSound
  <2>3. BotIsSound'
    BY <1>1, <1>2, <1>3, <1>7 DEF BotIsSound, BotState
  <2>4. ASSUME NEW d \in Consults
        PROVE  lost'[d] + Recorded(d)' + InHand(d)' = lost[d] + Recorded(d) + InHand(d)
    <3>1. CASE d = c
      BY <1>4, <1>5, <2>1, <2>2, <3>1
    <3>2. CASE d # c
      BY <1>4, <2>1, <2>2, <3>2
    <3> QED BY <3>1, <3>2
  <2> QED BY <1>1, <1>2, <1>3, <1>7, <2>1, <2>2, <2>3, <2>4, AccountIsKept
<1> QED BY <1>2, <1>6, <1>7 DEF RecordThread

(* A resolved consultation is acknowledged, or left for the next tick.     *)
LEMMA NoticeSteps ==
  ASSUME ConsultInv, NEW c \in Consults, FetchThread(c) \/ ArchiveThread(c)
  PROVE  ConsultInv'
<1>1. /\ bot \in BotState /\ BotIsSound /\ lost \in [Consults -> Nat] /\ None \notin Consults
      /\ consult \in [Consults -> ConsultRow] /\ thread \in [Threads -> ForumThread]
  BY ConsultsAre DEF ConsultInv
<1>2. /\ bot.at = "resolving" /\ bot.thread = None /\ c \in bot.batch /\ UNCHANGED lost
      /\ consult[c].status = "resolved" /\ consult[c].thread # None
  <2>1. bot.at = "resolving" /\ c \in bot.batch /\ UNCHANGED lost
    BY <1>1 DEF FetchThread, ArchiveThread, BotIsSound
  <2> QED BY <1>1, <2>1 DEF BotIsSound
<1>3. \A d \in Consults : RowIsSound(d) /\ consult[d] \in ConsultRow
  BY ConsultsAre
<1>4. /\ bot' \in BotState /\ bot'.at = "resolving" /\ bot'.batch \subseteq bot.batch
      /\ bot'.row \in bot'.batch \cup {None} /\ bot'.thread = None
  <2>1. CASE bot' = HandleNext(c)
    BY <1>2, <2>1, HandledNext
  <2>2. CASE bot' = [bot EXCEPT !.row = c]
    BY <1>1, <1>2, <2>2 DEF BotState
  <2> QED BY <2>1, <2>2 DEF FetchThread, ArchiveThread
<1>5. \A d \in Consults : InHand(d)' = InHand(d)
  BY <1>2, <1>4 DEF InHand
<1>6. /\ thread' \in [Threads -> ForumThread]
      /\ \A t \in Threads : /\ thread'[t].of = thread[t].of
                            /\ thread'[t].state = "none" <=> thread[t].state = "none"
  <2>1. CASE UNCHANGED thread
    BY <1>1, <2>1
  <2>2. CASE thread' = [thread EXCEPT ![consult[c].thread].state = "archived"]
    <3> DEFINE t == consult[c].thread
               new == [thread[t] EXCEPT !.state = "archived"]
    <3>1. t \in Threads /\ thread[t].of = c
      BY <1>2, ConsultsAre DEF ThreadsOf
    <3>2. thread[t] \in ForumThread /\ thread[t].state # "none"
      BY <1>1, <3>1 DEF ConsultInv
    <3>3. new \in ForumThread /\ new.of = thread[t].of /\ new.state # "none"
      BY <3>2 DEF ForumThread
    <3>4. thread' = [thread EXCEPT ![t] = new]
      BY <2>2
    <3> HIDE DEF t, new
    <3> QED BY <1>1, <3>1, <3>2, <3>3, <3>4
  <2> QED BY <2>1, <2>2 DEF FetchThread, ArchiveThread
<1>7. /\ consult' \in [Consults -> ConsultRow]
      /\ \A d \in Consults : /\ consult'[d].thread = consult[d].thread
                             /\ consult'[d].status = consult[d].status
                             /\ RowIsSound(d)'
  <2>1. CASE UNCHANGED consult
    BY <1>1, <1>3, <2>1 DEF RowIsSound
  <2>2. CASE consult' = [consult EXCEPT ![c].acked = TRUE]
    <3> DEFINE new == [consult[c] EXCEPT !.acked = TRUE]
    <3>1. /\ new \in ConsultRow /\ new.thread = consult[c].thread
          /\ new.status = consult[c].status
      BY <1>3 DEF ConsultRow
    <3>2. consult' = [consult EXCEPT ![c] = new]
      BY <2>2
    <3> HIDE DEF new
    <3>3. /\ consult' \in [Consults -> ConsultRow] /\ consult'[c] = new
          /\ \A d \in Consults \ {c} : consult'[d] = consult[d]
      BY <1>1, <3>1, <3>2
    <3> QED BY <1>2, <1>3, <3>1, <3>3 DEF RowIsSound
  <2> QED BY <2>1, <2>2 DEF FetchThread, ArchiveThread
<1>8. BotIsSound'
  <2>1. \A d \in bot.batch : d \in Consults
    BY <1>1 DEF BotState
  <2> QED BY <1>1, <1>2, <1>4, <1>7, <2>1 DEF BotIsSound
<1>9. \A d \in Consults : Recorded(d)' = Recorded(d)
  BY <1>7 DEF Recorded
<1> QED BY <1>1, <1>2, <1>4, <1>5, <1>6, <1>7, <1>8, <1>9, AccountIsKept

(* The bot stops: the thread in its hand is lost to it.                    *)
LEMMA CrashStep ==
  ASSUME ConsultInv, Crash
  PROVE  ConsultInv'
<1>1. /\ bot \in BotState /\ BotIsSound /\ lost \in [Consults -> Nat] /\ None \notin Consults
      /\ consult \in [Consults -> ConsultRow] /\ thread \in [Threads -> ForumThread]
      /\ bot.at \in {"idle", "posting", "resolving"} /\ bot.row \in Consults \cup {None}
  BY ConsultsAre DEF ConsultInv, BotState
<1>2. bot' = Idle /\ bot # Idle /\ UNCHANGED <<consult, thread>>
  BY DEF Crash
<1>3. bot' \in BotState /\ BotIsSound' /\ \A d \in Consults : InHand(d)' = 0
  BY <1>2 DEF Idle, BotState, BotIsSound, InHand
<1>4. CASE bot.thread = None
  <2>1. UNCHANGED lost /\ \A d \in Consults : InHand(d) = 0
    BY <1>1, <1>4 DEF Crash, InHand, BotIsSound
  <2> QED BY <1>1, <1>2, <1>3, <2>1, BotMoves
<1>5. CASE bot.thread # None
  <2>1. bot.at = "posting" /\ bot.row \in Consults
    BY <1>1, <1>2, <1>5 DEF BotIsSound
  <2>2. PICK c \in Consults : bot.row = c
    BY <2>1
  <2>3. /\ lost' \in [Consults -> Nat] /\ lost'[c] = lost[c] + 1
        /\ \A d \in Consults \ {c} : lost'[d] = lost[d]
    BY <1>1, <1>5, <2>2 DEF Crash
  <2>4. InHand(c) = 1 /\ \A d \in Consults \ {c} : InHand(d) = 0
    BY <2>1, <2>2 DEF InHand
  <2>5. \A d \in Consults : /\ Recorded(d)' = Recorded(d) /\ RowIsSound(d)'
                            /\ Recorded(d) \in Nat /\ lost[d] \in Nat
    BY <1>1, <1>2 DEF ConsultInv, Recorded, RowIsSound
  <2>6. \A d \in Consults : lost'[d] + Recorded(d)' + InHand(d)' = lost[d] + Recorded(d) + InHand(d)
    BY <1>3, <2>3, <2>4, <2>5
  <2> QED BY <1>1, <1>2, <1>3, <2>3, <2>5, <2>6, AccountIsKept
<1> QED BY <1>4, <1>5

LEMMA ConsultsStep == ConsultInv /\ [Next]_vars => ConsultInv'
<1> SUFFICES ASSUME ConsultInv, [Next]_vars PROVE ConsultInv'
  OBVIOUS
<1>1. CASE Next
  BY <1>1, HubSteps, BotSteps, CreateSteps, RecordSteps, NoticeSteps, CrashStep DEF Next
<1>2. CASE UNCHANGED vars
  BY <1>2 DEF vars, ConsultInv, RowIsSound, BotIsSound, ThreadsAreAccounted, ThreadsOf
<1> QED BY <1>1, <1>2

(* Whatever the Hub, the bot and Discord do and wherever the bot stops: a  *)
(* consultation has one thread, but for those a crash or a lost answer     *)
(* took (bot/notify/scheduler.ts, postPendingConsults, and                 *)
(* plugins/consult/store.ts, markConsultPosted).                           *)
THEOREM ThreadsAccounted == Init /\ [][Next]_vars => []ThreadsAreAccounted
<1>1. ConsultInv => ThreadsAreAccounted
  BY DEF ConsultInv
<1> QED BY <1>1, ConsultsBegin, ConsultsStep, PTL

(* The rate limit.  What counts against it was asked for while nothing     *)
(* recent was there, so posts under way and recent rows are together no    *)
(* more than the posts there can be.                                       *)
RecentOf(u) == {c \in Rows : consult[c].by = u /\ consult[c].recent}
UnderWay(u) == {r \in Requests : asking[u][r]}

PostsInv ==
  /\ asking \in [Users -> [Requests -> BOOLEAN]]
  /\ \A u \in Users :
       Cardinality(RecentOf(u)) + Cardinality(UnderWay(u)) <= Cardinality(Requests)

LEMMA PostsAreFinite ==
  ASSUME NEW u
  PROVE  /\ IsFiniteSet(RecentOf(u)) /\ IsFiniteSet(UnderWay(u)) /\ IsFiniteSet(Requests)
         /\ Cardinality(RecentOf(u)) \in Nat /\ Cardinality(UnderWay(u)) \in Nat
         /\ Cardinality(Requests) \in Nat
         /\ Cardinality(UnderWay(u)) <= Cardinality(Requests)
<1>1. NConsults \in Int /\ IsFiniteSet(Requests)
  BY ConsultAssumption
<1>2. IsFiniteSet(Consults)
  BY <1>1, FS_Interval DEF Consults
<1>3. RecentOf(u) \subseteq Consults /\ UnderWay(u) \subseteq Requests
  BY DEF RecentOf, Rows, UnderWay
<1>4. IsFiniteSet(RecentOf(u)) /\ IsFiniteSet(UnderWay(u))
      /\ Cardinality(UnderWay(u)) <= Cardinality(Requests)
  BY <1>1, <1>2, <1>3, FS_Subset
<1> QED BY <1>1, <1>4, FS_CardinalityType

LEMMA NoMoreRecent ==
  ASSUME PostsInv, UNCHANGED asking, \A c \in Rows' : c \in Rows,
         \A c \in Rows' : consult'[c].by = consult[c].by /\ (consult'[c].recent => consult[c].recent)
  PROVE  PostsInv'
<1> SUFFICES ASSUME NEW u \in Users
             PROVE  Cardinality(RecentOf(u)') + Cardinality(UnderWay(u)') <= Cardinality(Requests)
  BY DEF PostsInv
<1>1. RecentOf(u)' \subseteq RecentOf(u) /\ UnderWay(u)' = UnderWay(u)
  BY DEF RecentOf, UnderWay
<1>2. IsFiniteSet(RecentOf(u)) /\ Cardinality(RecentOf(u)) \in Nat
      /\ Cardinality(UnderWay(u)) \in Nat /\ Cardinality(Requests) \in Nat
  BY PostsAreFinite
<1>3. Cardinality(RecentOf(u)') <= Cardinality(RecentOf(u)) /\ IsFiniteSet(RecentOf(u)')
  BY <1>1, <1>2, FS_Subset
<1>4. Cardinality(RecentOf(u)') \in Nat
  BY <1>3, FS_CardinalityType
<1> QED BY <1>1, <1>2, <1>3, <1>4 DEF PostsInv

LEMMA PostsBegin == Init => PostsInv
<1> SUFFICES ASSUME Init PROVE PostsInv
  OBVIOUS
<1>1. asking = [u \in Users |-> [r \in Requests |-> FALSE]] /\ consult = [c \in Consults |-> NoRow]
  BY DEF Init
<1>2. ASSUME NEW u \in Users
      PROVE  Cardinality(RecentOf(u)) + Cardinality(UnderWay(u)) <= Cardinality(Requests)
  <2>1. RecentOf(u) = {} /\ UnderWay(u) = {}
    BY <1>1 DEF RecentOf, Rows, UnderWay, NoRow
  <2>2. Cardinality({}) = 0 /\ Cardinality(Requests) \in Nat
    BY FS_EmptySet, PostsAreFinite
  <2> QED BY <2>1, <2>2
<1> QED BY <1>1, <1>2 DEF PostsInv

LEMMA AskedPosts ==
  ASSUME ConsultInv, PostsInv, NEW u \in Users, NEW r \in Requests, Ask(u, r)
  PROVE  PostsInv'
<1>1. /\ \A c \in Rows : consult[c].by = u => ~consult[c].recent
      /\ asking' = [asking EXCEPT ![u][r] = TRUE] /\ UNCHANGED consult
  BY DEF Ask
<1>2. asking' \in [Users -> [Requests -> BOOLEAN]]
  BY <1>1 DEF PostsInv
<1>3. ASSUME NEW v \in Users
      PROVE  Cardinality(RecentOf(v)') + Cardinality(UnderWay(v)') <= Cardinality(Requests)
  <2>1. RecentOf(v)' = RecentOf(v)
    BY <1>1 DEF RecentOf, Rows
  <2>2. CASE v = u
    <3>1. RecentOf(v) = {}
      BY <1>1, <2>2 DEF RecentOf
    <3>2. UnderWay(v)' \subseteq Requests
      BY DEF UnderWay
    <3>3. IsFiniteSet(Requests) /\ Cardinality(Requests) \in Nat
      BY PostsAreFinite
    <3>4. Cardinality(UnderWay(v)') <= Cardinality(Requests) /\ IsFiniteSet(UnderWay(v)')
      BY <3>2, <3>3, FS_Subset
    <3>5. Cardinality(UnderWay(v)') \in Nat /\ Cardinality({}) = 0
      BY <3>4, FS_CardinalityType, FS_EmptySet
    <3> QED BY <2>1, <3>1, <3>3, <3>4, <3>5
  <2>3. CASE v # u
    <3>1. asking'[v] = asking[v]
      BY <1>1, <2>3 DEF PostsInv
    <3>2. UnderWay(v)' = UnderWay(v)
      BY <3>1 DEF UnderWay
    <3> QED BY <2>1, <3>2 DEF PostsInv
  <2> QED BY <2>2, <2>3
<1> QED BY <1>2, <1>3 DEF PostsInv

LEMMA InsertedPosts ==
  ASSUME ConsultInv, PostsInv, NEW u \in Users, NEW r \in Requests, Insert(u, r)
  PROVE  PostsInv'
<1>1. asking[u][r] /\ asking' = [asking EXCEPT ![u][r] = FALSE]
  BY DEF Insert
<1>2. asking' \in [Users -> [Requests -> BOOLEAN]]
  BY <1>1 DEF PostsInv
<1>3. UnderWay(u)' = UnderWay(u) \ {r} /\ r \in UnderWay(u)
      /\ \A v \in Users \ {u} : UnderWay(v)' = UnderWay(v)
  BY <1>1 DEF UnderWay, PostsInv
<1>4. Cardinality(UnderWay(u)') = Cardinality(UnderWay(u)) - 1
  <2>1. IsFiniteSet(UnderWay(u))
    BY PostsAreFinite
  <2> QED BY <1>3, <2>1, FS_RemoveElement
<1>5. /\ Cardinality(RecentOf(u)') <= Cardinality(RecentOf(u)) + 1
      /\ Cardinality(RecentOf(u)') \in Nat
      /\ \A v \in Users \ {u} : RecentOf(v)' = RecentOf(v)
  <2>1. IsFiniteSet(RecentOf(u)) /\ Cardinality(RecentOf(u)) \in Nat
    BY PostsAreFinite
  <2>2. CASE UNCHANGED consult
    <3>1. \A v : RecentOf(v)' = RecentOf(v)
      BY <2>2 DEF RecentOf, Rows
    <3> QED BY <2>1, <3>1
  <2>3. CASE ~UNCHANGED consult
    <3> DEFINE new == [NoRow EXCEPT !.status = "open", !.by = u, !.recent = TRUE]
    <3>1. PICK c \in Consults \ Rows : consult' = [consult EXCEPT ![c] = new]
      BY <2>3 DEF Insert
    <3>2. new.by = u /\ consult \in [Consults -> ConsultRow]
      BY DEF NoRow, ConsultInv
    <3> HIDE DEF new
    <3>3. consult'[c] = new /\ \A d \in Consults \ {c} : consult'[d] = consult[d]
      BY <3>1, <3>2
    <3>4. RecentOf(u)' \subseteq RecentOf(u) \cup {c} /\ c \notin RecentOf(u)
      BY <3>1, <3>3 DEF RecentOf, Rows
    <3>5. \A v \in Users \ {u} : RecentOf(v)' = RecentOf(v)
      BY <3>1, <3>2, <3>3 DEF RecentOf, Rows
    <3>6. /\ IsFiniteSet(RecentOf(u) \cup {c})
          /\ Cardinality(RecentOf(u) \cup {c}) = Cardinality(RecentOf(u)) + 1
      BY <2>1, <3>4, FS_AddElement
    <3>7. /\ Cardinality(RecentOf(u)') <= Cardinality(RecentOf(u) \cup {c})
          /\ IsFiniteSet(RecentOf(u)')
      BY <3>4, <3>6, FS_Subset
    <3>8. Cardinality(RecentOf(u)') \in Nat
      BY <3>7, FS_CardinalityType
    <3> QED BY <3>5, <3>6, <3>7, <3>8
  <2> QED BY <2>2, <2>3
<1>6. ASSUME NEW v \in Users
      PROVE  Cardinality(RecentOf(v)') + Cardinality(UnderWay(v)') <= Cardinality(Requests)
  <2>1. CASE v = u
    <3>1. /\ Cardinality(RecentOf(u)) \in Nat /\ Cardinality(UnderWay(u)) \in Nat
          /\ Cardinality(Requests) \in Nat
      BY PostsAreFinite
    <3> QED BY <1>4, <1>5, <2>1, <3>1 DEF PostsInv
  <2>2. CASE v # u
    BY <1>3, <1>5, <2>2 DEF PostsInv
  <2> QED BY <2>1, <2>2
<1> QED BY <1>2, <1>6 DEF PostsInv

LEMMA PostsStep ==
  ConsultInv /\ PostsInv /\ [Next]_vars => PostsInv'
<1> SUFFICES ASSUME ConsultInv, PostsInv, [Next]_vars PROVE PostsInv'
  OBVIOUS
<1>1. consult \in [Consults -> ConsultRow]
  BY DEF ConsultInv
<1>2. ASSUME UNCHANGED <<asking, consult>> PROVE PostsInv'
  BY <1>2, NoMoreRecent DEF Rows
<1>3. ASSUME NEW c \in Consults, UNCHANGED asking, NEW new,
             consult' = [consult EXCEPT ![c] = new], consult[c].status # "none",
             new.by = consult[c].by, new.recent => consult[c].recent
      PROVE  PostsInv'
  <2>1. consult'[c] = new /\ \A d \in Consults \ {c} : consult'[d] = consult[d]
    BY <1>1, <1>3
  <2> QED BY <1>3, <2>1, NoMoreRecent DEF Rows
<1>4. \A c \in Consults : /\ consult[c] \in ConsultRow
                          /\ consult[c].recent => consult[c].status # "none"
  BY ConsultsAre DEF RowIsSound
<1>5. ASSUME NEW c \in Consults, WindowPasses(c) PROVE PostsInv'
  <2> DEFINE new == [consult[c] EXCEPT !.recent = FALSE]
  <2>1. new.by = consult[c].by /\ new.recent = FALSE
    BY <1>4 DEF ConsultRow
  <2>2. consult' = [consult EXCEPT ![c] = new] /\ consult[c].status # "none" /\ UNCHANGED asking
    BY <1>4, <1>5 DEF WindowPasses
  <2> HIDE DEF new
  <2> QED BY <1>3, <2>1, <2>2
<1>6. ASSUME NEW c \in Consults, Resolve(c) PROVE PostsInv'
  <2> DEFINE new == [consult[c] EXCEPT !.status = "resolved"]
  <2>1. new.by = consult[c].by /\ new.recent = consult[c].recent
    BY <1>4 DEF ConsultRow
  <2>2. consult' = [consult EXCEPT ![c] = new] /\ consult[c].status # "none" /\ UNCHANGED asking
    BY <1>6 DEF Resolve
  <2> HIDE DEF new
  <2> QED BY <1>3, <2>1, <2>2
<1>7. ASSUME NEW c \in Consults, RecordThread(c) PROVE PostsInv'
  <2> DEFINE new == [consult[c] EXCEPT !.thread = bot.thread]
  <2>1. new.by = consult[c].by /\ new.recent = consult[c].recent
    BY <1>4 DEF ConsultRow
  <2>2. UNCHANGED asking /\ (UNCHANGED consult \/ consult' = [consult EXCEPT ![c] = new])
    BY <1>7 DEF RecordThread
  <2>3. consult[c].status # "none"
    <3>1. bot.at = "posting" /\ bot.row = c
      BY <1>7 DEF RecordThread
    <3>2. None \notin Consults
      BY ConsultsAre
    <3> QED BY <3>1, <3>2 DEF ConsultInv, BotIsSound
  <2> HIDE DEF new
  <2> QED BY <1>2, <1>3, <2>1, <2>2, <2>3
<1>8. ASSUME NEW c \in Consults, FetchThread(c) \/ ArchiveThread(c) PROVE PostsInv'
  <2> DEFINE new == [consult[c] EXCEPT !.acked = TRUE]
  <2>1. new.by = consult[c].by /\ new.recent = consult[c].recent
    BY <1>4 DEF ConsultRow
  <2>2. UNCHANGED asking /\ (UNCHANGED consult \/ consult' = [consult EXCEPT ![c] = new])
    BY <1>8 DEF FetchThread, ArchiveThread
  <2>3. consult[c].status # "none"
    <3>1. bot.at = "resolving" /\ (c \in bot.batch \/ bot.row = c)
      BY <1>8 DEF FetchThread, ArchiveThread
    <3>2. None \notin Consults
      BY ConsultsAre
    <3> QED BY <3>1, <3>2 DEF ConsultInv, BotIsSound
  <2> HIDE DEF new
  <2> QED BY <1>2, <1>3, <2>1, <2>2, <2>3
<1>9. CASE Next
  BY <1>2, <1>5, <1>6, <1>7, <1>8, <1>9, AskedPosts, InsertedPosts
     DEF Next, BeginPosts, BeginNotices, EndTick, CreateThread, Crash, ThreadDeleted
<1>10. CASE UNCHANGED vars
  BY <1>2, <1>10 DEF vars
<1> QED BY <1>9, <1>10

(* Overlapping posts pass the rate limit together, but within a window a   *)
(* user's consultations and the posts that may yet become one are no more  *)
(* than he can send at once, however long their awaits take                *)
(* (plugins/consult/index.ts, POST /consults).                             *)
THEOREM PostsLimited == Init /\ [][Next]_vars => []PostsAreLimited
<1>1. PostsInv => PostsAreLimited
  BY DEF PostsInv, PostsAreLimited, RecentOf, UnderWay
<1>2. Init => ConsultInv /\ PostsInv
  BY ConsultsBegin, PostsBegin
<1>3. ConsultInv /\ PostsInv /\ [Next]_vars => (ConsultInv /\ PostsInv)'
  BY ConsultsStep, PostsStep
<1> QED BY <1>1, <1>2, <1>3, PTL

-----------------------------------------------------------------------------
(* The sum (MCDelivery): its bounds and its fairness only leave behaviours *)
(* of a part out.                                                          *)
LEMMA ConsultsIsPart == DeliverySpec => Init /\ [][Next]_vars
<1>1. DeliveryInit => Init
  BY DEF DeliveryInit
<1>2. [DeliveryNext]_partVars => [Next]_vars
  BY DEF DeliveryNext, partVars, consultVars
<1> QED BY <1>1, <1>2, PTL DEF DeliverySpec

LEMMA AdmissionsIsPart ==
  DeliverySpec => Admissions!Init /\ [][Admissions!Next]_(Admissions!vars)
<1>1. DeliveryInit => Admissions!Init
  BY DEF DeliveryInit
<1>2. [DeliveryNext]_partVars => [Admissions!Next]_(Admissions!vars)
  BY DEF DeliveryNext, partVars, admissionVars, Admissions!vars
<1> QED BY <1>1, <1>2, PTL DEF DeliverySpec

(* Whatever part is explored, what the run checks of its safety holds.     *)
THEOREM DeliveryHolds ==
  DeliverySpec => [](ThreadsAreAccounted /\ PostsAreLimited) /\ Admissions!DecisionsStand
BY ThreadsAccounted, PostsLimited, DecisionsStandFast, ConsultsIsPart, AdmissionsIsPart, PTL
=============================================================================

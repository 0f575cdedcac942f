------------------------------ MODULE Consults ------------------------------
(***************************************************************************)
(* Consultations: POST /consults and the resolve route of the Hub          *)
(* (plugins/consult), and the two stages of the bot's tick that carry them *)
(* to Discord (bot/notify/scheduler.ts with bot/forum.ts).  Hub and bot    *)
(* are two processes that share the rows of glab_consult; the bot may      *)
(* crash between any two steps, Discord may fail, lose an answer or have a *)
(* thread deleted.                                                         *)
(***************************************************************************)
EXTENDS Integers, FiniteSets, FiniteSetsExt

CONSTANTS
  Users,
  Requests,     \* POST requests a user may have under way at once
  NConsults,    \* bound: consultations, numbered in the order of created_at
  NThreads,     \* bound: Discord threads, numbered as they are created
  MaxLost,      \* bound: threads created whose creation the bot never records
  MaxCrashes,   \* bound: crashes of the bot
  Healthy,      \* consultations Discord does not refuse for ever
  None

Consults == 1..NConsults
Threads == 1..NThreads

ASSUME ConsultAssumption ==
  /\ NConsults \in Nat /\ NThreads \in Nat
  /\ Healthy \subseteq Consults /\ IsFiniteSet(Requests)
  /\ None \notin Threads \cup Consults \cup Users

VARIABLES
  asking,   \* POST /consults: requests between the rate test and the insert
  consult,  \* the rows of glab_consult
  thread,   \* the threads of the forum
  bot,      \* the bot's tick: stage, rows read and not handled, thread in hand
  lost,     \* threads of each consultation the bot does not know of
  crashes

vars == <<asking, consult, thread, bot, lost, crashes>>

NoRow == [status |-> "none", by |-> None, recent |-> FALSE, thread |-> None, acked |-> FALSE]
Idle == [at |-> "idle", batch |-> {}, row |-> None, thread |-> None]

Init ==
  /\ asking = [u \in Users |-> [r \in Requests |-> FALSE]]
  /\ consult = [c \in Consults |-> NoRow]
  /\ thread = [t \in Threads |-> [of |-> None, state |-> "none"]]
  /\ bot = Idle
  /\ lost = [c \in Consults |-> 0]
  /\ crashes = 0

Rows == {c \in Consults : consult[c].status # "none"}
Sum(f) == FoldSet(LAMBDA c, n : f[c] + n, 0, Consults)

-----------------------------------------------------------------------------
AskUnlimited(u, r) ==   \* mutant: no rate limit
  /\ ~asking[u][r]
  /\ asking' = [asking EXCEPT ![u][r] = TRUE]
  /\ UNCHANGED <<consult, thread, bot, lost, crashes>>

(* POST /consults up to its await: hasRecentConsult.                       *)
Ask(u, r) ==
  /\ ~asking[u][r]
  /\ \A c \in Rows : consult[c].by = u => ~consult[c].recent
  /\ asking' = [asking EXCEPT ![u][r] = TRUE]
  /\ UNCHANGED <<consult, thread, bot, lost, crashes>>

(* The list of available members arrives and the row is inserted, or the   *)
(* list fails and the answer is 503.                                       *)
Insert(u, r) ==
  /\ asking[u][r]
  /\ asking' = [asking EXCEPT ![u][r] = FALSE]
  /\ \/ \E c \in Consults \ Rows :
          /\ \A d \in Consults \ Rows : c <= d
          /\ consult' = [consult EXCEPT ![c] =
                           [NoRow EXCEPT !.status = "open", !.by = u, !.recent = TRUE]]
     \/ UNCHANGED consult
  /\ UNCHANGED <<thread, bot, lost, crashes>>

(* CREATE_WINDOW_MS passes; the oldest row leaves the window first.        *)
WindowPasses(c) ==
  /\ consult[c].recent
  /\ \A d \in Rows : d < c => ~consult[d].recent
  /\ consult' = [consult EXCEPT ![c].recent = FALSE]
  /\ UNCHANGED <<asking, thread, bot, lost, crashes>>

(* POST /consults/:id/resolve; a resolved row may be resolved again.       *)
Resolve(c) ==
  /\ consult[c].status = "open"
  /\ consult' = [consult EXCEPT ![c].status = "resolved"]
  /\ UNCHANGED <<asking, thread, bot, lost, crashes>>

-----------------------------------------------------------------------------
PendingPost == {c \in Rows : consult[c].status = "open" /\ consult[c].thread = None}
PendingNotice ==
  {c \in Rows : consult[c].status = "resolved" /\ consult[c].thread # None /\ ~consult[c].acked}

(* postPendingConsults reads its rows.  Without any it does not touch the  *)
(* forum; ensureConsultForum may throw, which ends the tick.               *)
BeginPosts ==
  /\ bot.at = "idle"
  /\ \/ bot' = [Idle EXCEPT !.at = "posting", !.batch = PendingPost]
     \/ PendingPost # {} /\ UNCHANGED bot
  /\ UNCHANGED <<asking, consult, thread, lost, crashes>>

HandleNext(c) == [bot EXCEPT !.batch = @ \ {c}, !.row = None, !.thread = None]

PostFailureEndsTick(c) ==   \* mutant: the try surrounds the loop
  bot' = Idle

(* The catch of one consultation: the next one is tried.                   *)
PostFails(c) == bot' = HandleNext(c)

(* forum.threads.create of the oldest row of the batch.  Its answer may be *)
(* lost after the thread exists.                                           *)
CreateThread(c) ==
  /\ bot.at = "posting" /\ bot.thread = None
  /\ bot.batch # {} /\ c = Min(bot.batch)
  /\ \/ \E t \in Threads :
          /\ \A s \in Threads : thread[s].state = "none" <=> s >= t
          /\ thread' = [thread EXCEPT ![t] = [of |-> c, state |-> "open"]]
          /\ \/ /\ bot' = [bot EXCEPT !.row = c, !.thread = t]
                /\ UNCHANGED lost
             \/ /\ Sum(lost) < MaxLost
                /\ lost' = [lost EXCEPT ![c] = @ + 1]
                /\ PostFails(c)
     \/ PostFails(c) /\ UNCHANGED <<thread, lost>>
  /\ UNCHANGED <<asking, consult, crashes>>

RecordOpenOnly(c) ==   \* mutant: markConsultPosted asks for an open row
  /\ bot.at = "posting" /\ bot.row = c
  /\ IF consult[c].status = "open"
       THEN consult' = [consult EXCEPT ![c].thread = bot.thread]
       ELSE UNCHANGED consult
  /\ UNCHANGED lost
  /\ bot' = HandleNext(c)
  /\ UNCHANGED <<asking, thread, crashes>>

(* fetchStarterMessage and markConsultPosted, or the starter message is    *)
(* missing and createConsultThread throws with the thread already there.   *)
RecordThread(c) ==
  /\ bot.at = "posting" /\ bot.row = c
  /\ \/ /\ consult' = IF consult[c].thread = None
                        THEN [consult EXCEPT ![c].thread = bot.thread] ELSE consult
        /\ UNCHANGED lost
     \/ /\ Sum(lost) < MaxLost
        /\ lost' = [lost EXCEPT ![c] = @ + 1]
        /\ UNCHANGED consult
  /\ bot' = HandleNext(c)
  /\ UNCHANGED <<asking, thread, crashes>>

(* resolvePostedConsults reads its rows, after the other stages.           *)
BeginNotices ==
  /\ bot.at = "posting" /\ bot.batch = {}
  /\ bot' \in {[Idle EXCEPT !.at = "resolving", !.batch = PendingNotice], Idle}
  /\ UNCHANGED <<asking, consult, thread, lost, crashes>>

(* forum.threads.fetch(...).catch(() => null): a thread that was deleted   *)
(* and a fetch that failed look the same, and both are acknowledged.       *)
FetchThread(c) ==
  /\ bot.at = "resolving" /\ bot.row = None /\ c \in bot.batch
  /\ \/ /\ thread[consult[c].thread].state # "deleted"
        /\ bot' = [bot EXCEPT !.row = c]
        /\ UNCHANGED consult
     \/ /\ bot' = HandleNext(c)
        /\ consult' = [consult EXCEPT ![c].acked = TRUE]
  /\ UNCHANGED <<asking, thread, lost, crashes>>

(* resolveConsultThread and markConsultResolvedPosted; a failure leaves    *)
(* the row for the next tick.                                              *)
ArchiveThread(c) ==
  /\ bot.at = "resolving" /\ bot.row = c
  /\ \/ /\ thread[consult[c].thread].state # "deleted"
        /\ thread' = [thread EXCEPT ![consult[c].thread].state = "archived"]
        /\ consult' = [consult EXCEPT ![c].acked = TRUE]
     \/ UNCHANGED <<thread, consult>>
  /\ bot' = HandleNext(c)
  /\ UNCHANGED <<asking, lost, crashes>>

EndTick ==
  /\ bot.at = "resolving" /\ bot.batch = {}
  /\ bot' = Idle
  /\ UNCHANGED <<asking, consult, thread, lost, crashes>>

(* The bot's process ends and is started again: a thread in hand is lost.  *)
Crash ==
  /\ bot # Idle /\ crashes < MaxCrashes
  /\ bot' = Idle /\ crashes' = crashes + 1
  /\ IF bot.thread = None THEN UNCHANGED lost
     ELSE Sum(lost) < MaxLost /\ lost' = [lost EXCEPT ![bot.row] = @ + 1]
  /\ UNCHANGED <<asking, consult, thread>>

ThreadDeleted(t) ==
  /\ thread[t].state \in {"open", "archived"}
  /\ thread' = [thread EXCEPT ![t].state = "deleted"]
  /\ UNCHANGED <<asking, consult, bot, lost, crashes>>

Next ==
  \/ \E u \in Users, r \in Requests : Ask(u, r) \/ Insert(u, r)
  \/ \E c \in Consults : WindowPasses(c) \/ Resolve(c)
  \/ BeginPosts \/ BeginNotices \/ EndTick
  \/ \E c \in Consults :
       CreateThread(c) \/ RecordThread(c) \/ FetchThread(c) \/ ArchiveThread(c)
  \/ Crash
  \/ \E t \in Threads : ThreadDeleted(t)

(* The interval timer comes again and a call to Discord returns.  A        *)
(* forum is found in the end, Discord accepts a healthy consultation that  *)
(* is tried for ever, and the bot does not crash at one point for ever.    *)
Fairness ==
  /\ WF_vars(\E c \in Consults :
               CreateThread(c) \/ RecordThread(c) \/ FetchThread(c) \/ ArchiveThread(c))
  /\ SF_vars(BeginPosts /\ bot' # bot)
  /\ SF_vars(BeginNotices /\ bot' # Idle)
  /\ WF_vars(EndTick)
  /\ \A c \in Healthy :
       /\ SF_vars(CreateThread(c) /\ bot'.thread # None)
       /\ SF_vars(RecordThread(c) /\ consult' # consult)
       /\ SF_vars((FetchThread(c) \/ ArchiveThread(c)) /\ consult' # consult)

Spec == Init /\ [][Next]_vars /\ Fairness

-----------------------------------------------------------------------------
TypeOK ==
  /\ asking \in [Users -> [Requests -> BOOLEAN]]
  /\ consult \in [Consults -> [status : {"none", "open", "resolved"},
                               by : Users \cup {None}, recent : BOOLEAN,
                               thread : Threads \cup {None}, acked : BOOLEAN]]
  /\ thread \in [Threads -> [of : Consults \cup {None},
                             state : {"none", "open", "archived", "deleted"}]]
  /\ bot \in [at : {"idle", "posting", "resolving"}, batch : SUBSET Consults,
              row : Consults \cup {None}, thread : Threads \cup {None}]
  /\ lost \in [Consults -> Nat]
  /\ crashes \in 0..MaxCrashes

ThreadsOf(c) == {t \in Threads : thread[t].of = c}

(* Every thread of the forum is accounted for: it is the one its           *)
(* consultation records, the one the bot has in hand, or one whose         *)
(* creation a crash or a lost answer took.  Without such a fault nobody is *)
(* called twice to one consultation, resolved meanwhile or not.            *)
ThreadsAreAccounted ==
  \A c \in Consults :
    /\ consult[c].thread # None => consult[c].thread \in ThreadsOf(c)
    /\ Cardinality(ThreadsOf(c)) =
         lost[c] + (IF consult[c].thread # None THEN 1 ELSE 0)
                 + (IF bot.row = c /\ bot.at = "posting" THEN 1 ELSE 0)

(* The rate limit is tested before an await and the row inserted after it: *)
(* posts that overlap all pass it.  Within a window a user's consultations *)
(* and the posts that may yet become one are no more than he can send at   *)
(* once.                                                                   *)
PostsAreLimited ==
  \A u \in Users :
    Cardinality({c \in Rows : consult[c].by = u /\ consult[c].recent})
      + Cardinality({r \in Requests : asking[u][r]}) <= Cardinality(Requests)

(* A consultation Discord refuses for ever stops no other: an open one is  *)
(* posted, and the thread of a resolved one is handled and leaves the feed.*)
ConsultsAreCarriedThrough ==
  \A c \in Healthy :
    /\ consult[c].status = "open" ~> (consult[c].thread # None \/ consult[c].status = "resolved")
    /\ (consult[c].status = "resolved" /\ consult[c].thread # None) ~> consult[c].acked

(* spec/feature/consult.md: resolved_posted_at records that the archiving  *)
(* of the thread is complete.  A deleted thread has nothing to archive.    *)
AckedIsArchived ==
  \A c \in Consults :
    consult[c].acked => thread[consult[c].thread].state \in {"archived", "deleted"}

(* spec/feature/consult.md: a user creates one consultation per 60 seconds.*)
OneConsultPerWindow ==
  \A c, d \in Rows :
    c # d /\ consult[c].by = consult[d].by => ~(consult[c].recent /\ consult[d].recent)
=============================================================================

------------------------------ MODULE TrBrowser ------------------------------
(* tirocinium/call-ui.ts and call-audio.ts: the page's side of an interview *)
(* call.  One closure per press of "start" gets the microphone, the call id *)
(* and the event stream, one await after the other; "end", an error, a full *)
(* queue or leaving the page stops whatever runs; late answers belong to a  *)
(* call that may be over.  A call is named by the press that asked for it.  *)
EXTENDS Naturals, Integers, Sequences

CONSTANTS
  MaxCalls,   \* bound: presses of "start"
  MaxQueue,   \* frames waiting, 8 in the code
  MaxSeq      \* bound: audio frames of a call

TrBrowserAssumption ==
  MaxCalls \in Nat /\ MaxQueue \in Nat \ {0} /\ MaxSeq \in Nat

Calls == 1..MaxCalls
Nobody == 0

VARIABLES
  live,      \* the call that is running (generation, running and stopped)
  stage,     \* of a closure: what it awaits
  mic,       \* of a closure: whether its tracks run
  known,     \* calls whose id the page was given
  current,   \* callId
  deletion,  \* DELETE /calls/:id
  queue,     \* frames to upload: "audio" or "control"
  timer,     \* uploadTimer
  upload,    \* uploading: the call of the frame on its way, or being stopped
  seq,       \* number of the next audio frame
  heard      \* history: audio frames of a call that left in order, or -1

vars == <<live, stage, mic, known, current, deletion, queue, timer, upload, seq, heard>>

NoUpload == [call |-> Nobody, stopping |-> FALSE]

Init ==
  /\ live = Nobody /\ current = Nobody
  /\ stage = [c \in Calls |-> "none"]
  /\ mic = [c \in Calls |-> FALSE]
  /\ known = {}
  /\ deletion = [c \in Calls |-> "none"]
  /\ queue = <<>> /\ timer = FALSE
  /\ upload = NoUpload
  /\ seq = 0
  /\ heard = [c \in Calls |-> 0]

Pressed == {c \in Calls : stage[c] # "none"}

(* stop: everything that runs, at once; a known call is handed back.        *)
StopRunning ==
  /\ live' = Nobody /\ current' = Nobody
  /\ mic' = [mic EXCEPT ![live] = FALSE]
  /\ deletion' = IF current = Nobody THEN deletion ELSE [deletion EXCEPT ![current] = "sent"]
  /\ queue' = <<>> /\ timer' = FALSE
  /\ UNCHANGED <<known, seq, heard>>

Stop ==
  /\ live # Nobody
  /\ StopRunning
  /\ UNCHANGED <<stage, upload>>

Start(c) ==
  /\ live = Nobody
  /\ stage[c] = "none" /\ \A d \in Calls : d < c => stage[d] # "none"
  /\ live' = c
  /\ stage' = [stage EXCEPT ![c] = "permission"]
  /\ seq' = 0
  /\ UNCHANGED <<mic, known, current, deletion, queue, timer, upload, heard>>

Step(c, from, to) == stage[c] = from /\ stage' = [stage EXCEPT ![c] = to]

(* CallAudio.start: tracks run once the user agrees, unless the call was    *)
(* stopped: its context is gone and what follows throws.                    *)
Granted(c) ==
  /\ Step(c, "permission", IF live = c THEN "worklet" ELSE "over")
  /\ mic' = [mic EXCEPT ![c] = (live = c)]
  /\ UNCHANGED <<live, known, current, deletion, queue, timer, upload, seq, heard>>

(* The worklet, then the file to submit; POST /calls follows.               *)
Prepared(c) ==
  /\ \/ Step(c, "worklet", IF live = c THEN "file" ELSE "over")
     \/ Step(c, "file", IF live = c THEN "post" ELSE "over")
  /\ UNCHANGED <<live, mic, known, current, deletion, queue, timer, upload, seq, heard>>

(* Refused, unreadable, no route, not ok, the stream's end or its error:    *)
(* the call is stopped if it is the one that runs.                          *)
Fails(c) ==
  /\ stage[c] \notin {"none", "over"}
  /\ stage' = [stage EXCEPT ![c] = "over"]
  /\ IF live = c THEN StopRunning
     ELSE UNCHANGED <<live, mic, known, current, deletion, queue, timer, seq, heard>>
  /\ UNCHANGED upload

GivenToAny(c) ==   \* mutant: the answer belongs to whatever call runs
  /\ Step(c, "post", "events")
  /\ known' = known \cup {c}
  /\ current' = c /\ seq' = 0
  /\ UNCHANGED <<live, mic, deletion, queue, timer, upload, heard>>

(* POST /calls answers with the id: handed back at once if this call was    *)
(* stopped meanwhile.                                                       *)
Given(c) ==
  /\ Step(c, "post", IF live = c THEN "events" ELSE "over")
  /\ known' = known \cup {c}
  /\ IF live = c
     THEN current' = c /\ seq' = 0 /\ UNCHANGED deletion
     ELSE deletion' = [deletion EXCEPT ![c] = "sent"] /\ UNCHANGED <<current, seq>>
  /\ UNCHANGED <<live, mic, queue, timer, upload, heard>>

-----------------------------------------------------------------------------
Number(kind, n) == IF kind = "audio" THEN n + 1 ELSE n

InOrder(c, kind, n) ==
  IF kind # "audio" THEN heard
  ELSE [heard EXCEPT ![c] = IF @ = n THEN n + 1 ELSE -1]

(* upload: the head of the queue, one frame at a time.                      *)
Send(q, busy) ==
  IF ~busy /\ current # Nobody /\ live # Nobody /\ q # <<>>
  THEN /\ upload' = [call |-> current, stopping |-> FALSE]
       /\ queue' = Tail(q)
       /\ heard' = InOrder(current, Head(q), seq)
       /\ seq' = Number(Head(q), seq)
  ELSE /\ queue' = q
       /\ upload' = IF busy THEN upload ELSE NoUpload
       /\ UNCHANGED <<heard, seq>>

Busy == upload # NoUpload
Merges(kind) == kind = "audio" /\ queue # <<>> /\ queue[Len(queue)] = "audio"

(* enqueue: audio joins audio while the frame has room, and waits for the   *)
(* timer; anything else leaves at once.  A full queue ends the call.        *)
Enqueue(kind) ==
  \/ Merges(kind) /\ UNCHANGED <<live, mic, known, current, deletion, queue, timer, upload, seq, heard>>
  \/ /\ Len(queue) >= MaxQueue
     /\ StopRunning /\ UNCHANGED upload
  \/ /\ Len(queue) < MaxQueue
     /\ IF kind = "audio"
        THEN timer' = TRUE /\ queue' = Append(queue, kind) /\ UNCHANGED <<upload, heard, seq>>
        ELSE UNCHANGED timer /\ Send(Append(queue, kind), Busy)
     /\ UNCHANGED <<live, mic, known, current, deletion>>

(* The event stream opens: the interview begins.                            *)
Opened(c) ==
  /\ live = c
  /\ Step(c, "events", "reading")
  /\ Enqueue("control")

Pcm ==
  /\ current # Nobody /\ mic[live]
  /\ seq + Len(SelectSeq(queue, LAMBDA k : k = "audio")) < MaxSeq
  /\ Enqueue("audio")
  /\ UNCHANGED stage

BargeIn ==
  /\ current # Nobody
  /\ Enqueue("control")
  /\ UNCHANGED stage

TimerFires ==
  /\ timer
  /\ timer' = FALSE
  /\ Send(queue, Busy)
  /\ UNCHANGED <<live, stage, mic, known, current, deletion>>

Uploaded ==
  /\ Busy /\ ~upload.stopping
  /\ Send(queue, FALSE)
  /\ UNCHANGED <<live, stage, mic, known, current, deletion, timer>>

(* A frame fails: its call is stopped, and the pipeline stays taken until   *)
(* the DELETE has its answer.  A frame of a call already over just ends.    *)
UploadFails ==
  /\ Busy /\ ~upload.stopping
  /\ IF live = upload.call
     THEN StopRunning /\ upload' = [upload EXCEPT !.stopping = TRUE]
     ELSE Send(queue, FALSE) /\ UNCHANGED <<live, mic, known, current, deletion, timer>>
  /\ UNCHANGED stage

Deleted(c) ==
  /\ deletion[c] = "sent"
  /\ deletion' = [deletion EXCEPT ![c] = "answered"]
  /\ IF upload.stopping /\ upload.call = c
     THEN Send(queue, FALSE)
     ELSE UNCHANGED <<queue, upload, heard, seq>>
  /\ UNCHANGED <<live, stage, mic, known, current, timer>>

Next ==
  \/ \E c \in Calls :
       \/ Start(c) \/ Granted(c) \/ Prepared(c) \/ Fails(c) \/ Given(c)
       \/ Opened(c) \/ Deleted(c)
  \/ Stop \/ Pcm \/ BargeIn \/ TimerFires \/ Uploaded \/ UploadFails

Spec == Init /\ [][Next]_vars

TypeOK ==
  /\ live \in Calls \cup {Nobody} /\ current \in Calls \cup {Nobody}
  /\ stage \in [Calls -> {"none", "permission", "worklet", "file", "post", "events", "reading", "over"}]
  /\ mic \in [Calls -> BOOLEAN]
  /\ known \subseteq Calls
  /\ deletion \in [Calls -> {"none", "sent", "answered"}]
  /\ queue \in Seq({"audio", "control"}) /\ Len(queue) <= MaxQueue
  /\ timer \in BOOLEAN
  /\ upload \in [call : Calls \cup {Nobody}, stopping : BOOLEAN]
  /\ seq \in 0..MaxSeq
  /\ heard \in [Calls -> -1..MaxSeq]

(* Whatever was pressed while something was awaited: a call the page knows  *)
(* is the one that runs or has been handed back (else it holds one of the   *)
(* Hub's few places), the microphone is on for the running call only, and   *)
(* each call gets its own audio, numbered from 0 without a gap, although    *)
(* calls share one queue and one pipeline.                                  *)
CallsAreTheirOwn ==
  /\ current # Nobody => current = live
  /\ \A c \in known : c = current \/ deletion[c] # "none"
  /\ \A c \in Calls : (mic[c] => live = c) /\ heard[c] # -1
=============================================================================

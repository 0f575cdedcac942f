------------------------------- MODULE Curves -------------------------------
(* Recording an emotion curve (plugins/volputas/emotion-curve-panel.ts): a  *)
(* video is chosen, stamps are pressed while it plays, and saving is three  *)
(* calls of Voluptas in a row - record, video, evaluation -, during which   *)
(* the recorder stays usable: another stamp enables the button again.       *)
EXTENDS Naturals, FiniteSets

CONSTANTS
  Videos,     \* the files a member can choose
  MaxStamps,  \* bound: stamps pressed
  MaxSaves,   \* bound: saves started, so records created
  None

CurvesAssumption ==
  MaxStamps \in Nat \ {0} /\ MaxSaves \in Nat \ {0} /\ None \notin Videos

VARIABLES
  file,      \* filePicker.files[0]
  entries,   \* the stamps on the page, and all pressed so far
  enabled,   \* the button "save and evaluate"
  save,      \* each save: the call it waits for, what it took with it
  record,    \* Voluptas: each record, with its stamps, its video, its evaluation
  history    \* the list of records: loads that have not drawn, cards drawn

vars == <<file, entries, enabled, save, record, history>>

Saves == 1..MaxSaves
Stamps == 1..MaxStamps
NoSave == [at |-> "none", file |-> None, entries |-> {}]
NoRecord == [stored |-> FALSE, entries |-> {}, video |-> None, evaluated |-> FALSE]

Init ==
  /\ file = None /\ entries = [now |-> {}, pressed |-> 0] /\ enabled = FALSE
  /\ save = [s \in Saves |-> NoSave] /\ record = [s \in Saves |-> NoRecord]
  /\ history = [loading |-> 1, cards |-> {}]

Storing == {s \in Saves : save[s].at # "none"}
Recorded == {s \in Saves : record[s].stored}

(* redrawEntries.                                                           *)
Redrawn(now, f) == enabled' = (now # {} /\ f # None)

-----------------------------------------------------------------------------
Choose ==
  /\ \E f \in Videos \cup {None} : f # file /\ file' = f /\ Redrawn(entries.now, f)
  /\ UNCHANGED <<entries, save, record, history>>

Stamp ==
  /\ entries.pressed < MaxStamps
  /\ entries' = [now |-> entries.now \cup {entries.pressed + 1}, pressed |-> entries.pressed + 1]
  /\ Redrawn(entries'.now, file)
  /\ UNCHANGED <<file, save, record, history>>

Drop(e) ==
  /\ e \in entries.now /\ entries' = [entries EXCEPT !.now = @ \ {e}]
  /\ Redrawn(entries'.now, file)
  /\ UNCHANGED <<file, save, record, history>>

(* submit.onclick: the file and the stamps of this moment; the body of the  *)
(* first call is made at once.                                              *)
Save ==
  /\ enabled /\ file # None /\ entries.now # {} /\ Cardinality(Storing) < MaxSaves
  /\ enabled' = FALSE
  /\ save' = [save EXCEPT ![Cardinality(Storing) + 1] =
                [at |-> "record", file |-> file, entries |-> entries.now]]
  /\ UNCHANGED <<file, entries, record, history>>

(* `submit.disabled = false', and if the save got as far as the evaluation  *)
(* the recorder is emptied - of the stamps pressed meanwhile, too.          *)
Ended(s, ok) ==
  /\ save' = [save EXCEPT ![s].at = "ended"]
  /\ IF ok
     THEN /\ entries' = [entries EXCEPT !.now = {}] /\ file' = None
          /\ enabled' = FALSE
          /\ history' = [loading |-> history.loading + 1, cards |-> {}]
     ELSE enabled' = TRUE /\ UNCHANGED <<entries, file, history>>

(* POST /evidence/emotion-curves.  The answer may be lost with the record   *)
(* stored: saving again creates another.                                    *)
Recording(s) ==
  /\ save[s].at = "record"
  /\ LET stored == [record EXCEPT ![s] =
                      [NoRecord EXCEPT !.stored = TRUE, !.entries = save[s].entries]] IN
     \/ /\ record' = stored /\ save' = [save EXCEPT ![s].at = "video"]
        /\ UNCHANGED <<file, entries, enabled, history>>
     \/ record' \in {record, stored} /\ Ended(s, FALSE)

UploadChosen(s) ==   \* mutant: the file chosen now
  /\ save[s].at = "video"
  /\ LET kept == [record EXCEPT ![s].video = file] IN
     \/ /\ record' = kept /\ save' = [save EXCEPT ![s].at = "evaluation"]
        /\ UNCHANGED <<file, entries, enabled, history>>
     \/ record' \in {record, kept} /\ Ended(s, FALSE)

(* PUT /evidence/media/videos/:id, of the record just created.              *)
Upload(s) ==
  /\ save[s].at = "video"
  /\ LET kept == [record EXCEPT ![s].video = save[s].file] IN
     \/ /\ record' = kept /\ save' = [save EXCEPT ![s].at = "evaluation"]
        /\ UNCHANGED <<file, entries, enabled, history>>
     \/ record' \in {record, kept} /\ Ended(s, FALSE)

EvaluateUnseen(s) ==   \* mutant: a failed upload is not noticed
  /\ save[s].at \in {"video", "evaluation"}
  /\ record' \in {record, [record EXCEPT ![s].evaluated = TRUE]}
  /\ Ended(s, TRUE)

(* POST /evidence/emotion-curves/:id/evaluate, whatever its outcome: the    *)
(* list offers it again.                                                    *)
Evaluate(s) ==
  /\ save[s].at = "evaluation"
  /\ record' \in {record, [record EXCEPT ![s].evaluated = TRUE]}
  /\ Ended(s, TRUE)

-----------------------------------------------------------------------------
(* loadHistory clears the list, and draws when its answer comes: two loads  *)
(* under way draw every card twice.                                         *)
HistoryDrawn ==
  /\ history.loading > 0
  /\ \E cards \in {{}, Recorded} :
       history' = [loading |-> history.loading - 1, cards |-> history.cards \cup cards]
  /\ UNCHANGED <<file, entries, enabled, save, record>>

(* The button of a card without an evaluation.                              *)
EvaluateAgain(s) ==
  /\ s \in history.cards /\ ~record[s].evaluated
  /\ record' \in {record, [record EXCEPT ![s].evaluated = TRUE]}
  /\ history' = [loading |-> history.loading + 1, cards |-> {}]
  /\ UNCHANGED <<file, entries, enabled, save>>

Next ==
  \/ Choose \/ Stamp \/ Save \/ HistoryDrawn
  \/ \E e \in Stamps : Drop(e)
  \/ \E s \in Saves : Recording(s) \/ Upload(s) \/ Evaluate(s) \/ EvaluateAgain(s)

Spec == Init /\ [][Next]_vars

TypeOK ==
  /\ file \in Videos \cup {None}
  /\ entries \in [now : SUBSET Stamps, pressed : 0..MaxStamps] /\ enabled \in BOOLEAN
  /\ save \in [Saves -> [at : {"none", "record", "video", "evaluation", "ended"},
                         file : Videos \cup {None}, entries : SUBSET Stamps]]
  /\ record \in [Saves -> [stored : BOOLEAN, entries : SUBSET Stamps,
                           video : Videos \cup {None}, evaluated : BOOLEAN]]
  /\ history \in [loading : Nat, cards : SUBSET Saves]

(* A record keeps together the stamps and the video of one moment, whatever *)
(* is chosen or stamped while its calls are under way, and saves overlap    *)
(* (emotion-curve-panel.ts:108-122,167-193).                                *)
VideoMatchesItsStamps ==
  \A s \in Saves : record[s].stored =>
    /\ record[s].entries = save[s].entries
    /\ record[s].video \in {None, save[s].file}

(* The recorder is emptied by a save whose record has its video, never by   *)
(* one that failed: "the record stays if it fails on the way"               *)
(* (emotion-curve-panel.ts:157).  What was stamped while that save was      *)
(* under way goes with the rest.                                            *)
EmptiedOnlyByASave ==
  [][ entries'.now = {} /\ Cardinality(entries.now) > 1 =>
        \E s \in Saves : save[s].at = "evaluation" /\ record[s].video # None ]_vars

CurvesSafe == []VideoMatchesItsStamps /\ EmptiedOnlyByASave
=============================================================================

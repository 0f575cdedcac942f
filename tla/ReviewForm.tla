----------------------------- MODULE ReviewForm -----------------------------
(* A review, from the form to Voluptas and to the queue of the bot          *)
(* (plugins/volputas/panel.ts, index.ts, review-relay.ts), and what follows *)
(* it (review-follow-up-panel.ts): the list is loaded anew, questions are   *)
(* asked one by one, and an analysis by an AI is offered, which needs the   *)
(* author's consent.  Every answer may come late, or not at all.            *)
EXTENDS Naturals

CONSTANTS
  MaxPosts,      \* bound: reviews stored
  MaxTicks,      \* bound: consents given for one review
  MaxQuestions   \* bound: questions Voluptas has for one review

FormAssumption == MaxPosts \in Nat \ {0} /\ {MaxTicks, MaxQuestions} \subseteq Nat

VARIABLES
  form,      \* the button: "idle", "sent", "stored" with the answer on its way,
             \* or "reading" its body
  reviews,   \* Voluptas: reviews stored, 1..reviews
  relay,     \* the reviews queued for the bot (glab_review_relay)
  told,      \* the reviews the form has said are published
  load,      \* loads of the list: whether read by Voluptas, and what was there
  feed,      \* what the list shows: the load it waits for, or a number of reviews
  follow,    \* the review whose box is in the follow-up element, 0 for none
  box,       \* per review: where its questions are
  analysis   \* per review: whether a complete analysis is shown, the consents, the posts

vars == <<form, reviews, relay, told, load, feed, follow, box, analysis>>

Reviews == 1..MaxPosts
Loads == 1..MaxPosts + 1
Loading == MaxPosts + 1   \* feed: "loading"
Failed == MaxPosts + 2    \* feed: a notice

NoAnalysis ==
  [at |-> "none", complete |-> FALSE, tick |-> FALSE, ticks |-> 0, posts |-> 0, flight |-> 0]

LastLoad == CHOOSE l \in Loads : load[l].at # "none" /\ \A k \in Loads : k > l => load[k].at = "none"

(* renderReviewForm and renderReviewFeed: the list is being loaded.         *)
Init ==
  /\ form = "idle" /\ reviews = 0 /\ relay = {} /\ told = {}
  /\ load = [l \in Loads |-> [at |-> IF l = 1 THEN "asked" ELSE "none", saw |-> 0]]
  /\ feed = Loading /\ follow = 0
  /\ box = [r \in Reviews |-> [at |-> "none", left |-> MaxQuestions]]
  /\ analysis = [r \in Reviews |-> NoAnalysis]

-----------------------------------------------------------------------------
(* form.onsubmit, with a title and a text.                                  *)
Submit ==
  /\ form = "idle" /\ reviews < MaxPosts /\ form' = "sent"
  /\ UNCHANGED <<reviews, relay, told, load, feed, follow, box, analysis>>

(* POST /reviews of the Hub: Voluptas stores; a review for the community is *)
(* queued, unless its record cannot be read, no public URL is set, or the   *)
(* insertion fails - which never fails the review.                          *)
Store ==
  /\ form = "sent" /\ form' = "stored" /\ reviews' = reviews + 1
  /\ relay' \in {relay, relay \cup {reviews'}}
  /\ UNCHANGED <<told, load, feed, follow, box, analysis>>

(* Refused, or no answer: the review may be stored all the same.            *)
SubmitFails ==
  /\ form \in {"sent", "stored"} /\ form' = "idle"
  /\ UNCHANGED <<reviews, relay, told, load, feed, follow, box, analysis>>

(* The answer arrives: the review is called published, its body is awaited. *)
Announced ==
  /\ form = "stored" /\ form' = "reading" /\ told' = told \cup {reviews}
  /\ UNCHANGED <<reviews, relay, load, feed, follow, box, analysis>>

(* The list is loaded again, and if the record can be read, its box takes   *)
(* the place of the previous one.                                           *)
Submitted ==
  /\ form = "reading" /\ form' = "idle"
  /\ load' = [load EXCEPT ![LastLoad + 1].at = "asked"] /\ feed' = Loading
  /\ \/ follow' = reviews /\ box' = [box EXCEPT ![reviews].at = "asking"]
     \/ UNCHANGED <<follow, box>>
  /\ UNCHANGED <<reviews, relay, told, analysis>>

-----------------------------------------------------------------------------
ListRead(l) ==
  /\ load[l].at = "asked" /\ load' = [load EXCEPT ![l] = [at |-> "read", saw |-> reviews]]
  /\ UNCHANGED <<form, reviews, relay, told, feed, follow, box, analysis>>

ListDrawnAnywhere(l) ==   \* mutant: into the list, not into the body of its load
  /\ load[l].at = "read" /\ load' = [load EXCEPT ![l].at = "done"]
  /\ feed' = load[l].saw
  /\ UNCHANGED <<form, reviews, relay, told, follow, box, analysis>>

(* loadReviews draws in the body it made: the list shows that of the last   *)
(* load only.                                                               *)
ListDrawn(l) ==
  /\ load[l].at = "read" /\ load' = [load EXCEPT ![l].at = "done"]
  /\ feed' = IF l = LastLoad THEN load[l].saw ELSE feed
  /\ UNCHANGED <<form, reviews, relay, told, follow, box, analysis>>

ListFails(l) ==
  /\ load[l].at \in {"asked", "read"} /\ load' = [load EXCEPT ![l].at = "done"]
  /\ feed' = IF l = LastLoad THEN Failed ELSE feed
  /\ UNCHANGED <<form, reviews, relay, told, follow, box, analysis>>

-----------------------------------------------------------------------------
(* showQuestion: a question, or none left and the analysis is looked up.    *)
AskedAnywhere(r, left) ==   \* mutant: drawn in the element all reviews share
  /\ follow' = r
  /\ \/ left > 0 /\ box' = [box EXCEPT ![r] = [at |-> "question", left |-> left]] /\ UNCHANGED analysis
     \/ /\ box' = [box EXCEPT ![r] = [at |-> "over", left |-> 0]]
        /\ analysis' = [analysis EXCEPT ![r].at = "asking"]

Asked(r, left) ==
  /\ UNCHANGED follow
  /\ \/ left > 0 /\ box' = [box EXCEPT ![r] = [at |-> "question", left |-> left]] /\ UNCHANGED analysis
     \/ /\ box' = [box EXCEPT ![r] = [at |-> "over", left |-> 0]]
        /\ analysis' = [analysis EXCEPT ![r].at = "asking"]

(* The first question, or the answer to one: the next, a refusal after      *)
(* which the buttons are enabled again, or something that cannot be read    *)
(* and leaves them disabled.                                                *)
QuestionArrives(r) ==
  /\ box[r].at = "asking"
  /\ \/ Asked(r, box[r].left)
     \/ box' = [box EXCEPT ![r].at = "over"] /\ UNCHANGED <<follow, analysis>>
  /\ UNCHANGED <<form, reviews, relay, told, load, feed>>

Answer(r) ==
  /\ follow = r /\ box[r].at = "question" /\ box' = [box EXCEPT ![r].at = "sending"]
  /\ UNCHANGED <<form, reviews, relay, told, load, feed, follow, analysis>>

AnswerReturns(r) ==
  /\ box[r].at = "sending"
  /\ \/ Asked(r, box[r].left - 1)
     \/ /\ \E at \in {"question", "over"} : box' = [box EXCEPT ![r].at = at]
        /\ UNCHANGED <<follow, analysis>>
  /\ UNCHANGED <<form, reviews, relay, told, load, feed>>

-----------------------------------------------------------------------------
(* show(): the box is drawn anew, with a consent that is not given.         *)
Shown(a, complete) == [a EXCEPT !.at = "shown", !.complete = complete, !.tick = FALSE]

AnalysisLoaded(r) ==
  /\ analysis[r].at = "asking"
  /\ \E complete \in BOOLEAN : analysis' = [analysis EXCEPT ![r] = Shown(@, complete)]
  /\ UNCHANGED <<form, reviews, relay, told, load, feed, follow, box>>

Offered(r) == follow = r /\ analysis[r].at = "shown" /\ ~analysis[r].complete

Tick(r) ==
  /\ Offered(r) /\ ~analysis[r].tick /\ analysis[r].ticks < MaxTicks
  /\ analysis' = [analysis EXCEPT ![r].tick = TRUE, ![r].ticks = @ + 1]
  /\ UNCHANGED <<form, reviews, relay, told, load, feed, follow, box>>

AnalyseQuietly(r) ==   \* mutant: the button is disabled but the box is not drawn anew
  /\ Offered(r) /\ analysis[r].tick /\ analysis[r].posts <= MaxTicks
  /\ analysis' = [analysis EXCEPT ![r].posts = @ + 1, ![r].flight = @ + 1]
  /\ UNCHANGED <<form, reviews, relay, told, load, feed, follow, box>>

(* run.onclick.  The button it disables is drawn anew by show(), so that a  *)
(* second analysis can be started - with a second consent.                  *)
Analyse(r) ==
  /\ Offered(r) /\ analysis[r].tick
  /\ analysis' = [analysis EXCEPT ![r] =
       [Shown(analysis[r], FALSE) EXCEPT !.posts = @ + 1, !.flight = @ + 1]]
  /\ UNCHANGED <<form, reviews, relay, told, load, feed, follow, box>>

(* Its answer - or a note, and the view it was started from, which another  *)
(* analysis may have completed meanwhile.                                   *)
Analysed(r) ==
  /\ analysis[r].flight > 0
  /\ \E complete \in BOOLEAN :
       analysis' = [analysis EXCEPT ![r] = [Shown(analysis[r], complete) EXCEPT !.flight = @ - 1]]
  /\ UNCHANGED <<form, reviews, relay, told, load, feed, follow, box>>

Next ==
  \/ Submit \/ Store \/ SubmitFails \/ Announced \/ Submitted
  \/ \E l \in Loads : ListRead(l) \/ ListDrawn(l) \/ ListFails(l)
  \/ \E r \in Reviews :
       \/ QuestionArrives(r) \/ Answer(r) \/ AnswerReturns(r)
       \/ AnalysisLoaded(r) \/ Tick(r) \/ Analyse(r) \/ Analysed(r)

Spec == Init /\ [][Next]_vars

TypeOK ==
  /\ form \in {"idle", "sent", "stored", "reading"} /\ reviews \in 0..MaxPosts
  /\ relay \subseteq 1..reviews /\ told \subseteq 1..reviews
  /\ load \in [Loads -> [at : {"none", "asked", "read", "done"}, saw : 0..MaxPosts]]
  /\ feed \in 0..Failed /\ follow \in 0..reviews
  /\ box \in [Reviews -> [at : {"none", "asking", "question", "sending", "over"},
                          left : 0..MaxQuestions]]
  /\ analysis \in [Reviews -> [at : {"none", "asking", "shown"}, complete : BOOLEAN, tick : BOOLEAN,
                               ticks : 0..MaxTicks, posts : Nat, flight : Nat]]

(* The reviews called published, but the one whose answer is still read:    *)
(* the list is loaded anew only after that (panel.ts:292-298).              *)
Listed == told \ (IF form = "reading" THEN {reviews} ELSE {})

(* A list that is shown holds every one of these, in whatever order the     *)
(* loads are answered (panel.ts:145-147,169-189).                           *)
ListHoldsThePublished == feed <= MaxPosts => \A r \in Listed : r <= feed

(* The questions and the analysis on the page are those of the newest       *)
(* review that could be followed up, though those of an earlier one still   *)
(* arrive (review-follow-up-panel.ts:23-25).                                *)
NewestIsFollowed == \A r \in Reviews : box[r].at # "none" => r <= follow

(* "the analysis runs only when the author has confirmed that it is sent to *)
(* the AI" (review-follow-up-panel.ts:2,109): each analysis had a consent   *)
(* of its own.                                                              *)
EachAnalysisHadConsent == \A r \in Reviews : analysis[r].posts <= analysis[r].ticks

FollowsFaithfully == ListHoldsThePublished /\ NewestIsFollowed /\ EachAnalysisHadConsent
=============================================================================

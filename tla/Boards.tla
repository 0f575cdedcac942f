------------------------------- MODULE Boards -------------------------------
(* What members write for one another, as the Hub keeps it in SQLite:       *)
(*   "threads"  the forum, whose threads may be for some roles only;        *)
(*   "links"    the technical links, typed here or shared from Memoria;     *)
(*   "quests"   the public quest board, where a lead or an instructor has   *)
(*              to approve what strangers will read.                        *)
(* and what the dashboard tells a member of it (activity and counts).  The  *)
(* boards share the roles and nothing else: `board' says which is explored. *)
(* A handler that awaits nothing but its request's body, before it reads    *)
(* the store, is one step.  A quest request has more: the page it was       *)
(* pressed on, the guards that run before the body is there, and the rest.  *)
(* Texts are left out; a quest's is the revision it was written in.         *)
EXTENDS Naturals, FiniteSets

CONSTANTS
  Boards,       \* the boards to explore
  Members,
  Admins,       \* members whose identity says isAdmin
  RolesOf,      \* [Boards -> roles that change while it is explored]
  Items,        \* ids of threads or links
  Quests,       \* ids of quests
  Notes,        \* ids of comments
  Refs,         \* source_ref of Memoria
  Requests,     \* quest requests under way
  MaxRevision,  \* bound: revisions of a quest
  None

Approving == {"lead", "instructor"}

BoardsAssumption ==
  /\ Boards \subseteq {"threads", "links", "quests"} /\ Admins \subseteq Members
  /\ DOMAIN RolesOf = Boards
  /\ None \notin Members \cup Refs /\ MaxRevision \in Nat

VARIABLES
  board,
  role,      \* glab_member_role
  thread,    \* glab_forum_thread
  link,      \* glab_tech_link
  comments,  \* glab_forum_comment or glab_tech_link_comment
  quest,     \* glab_quest
  admitted,  \* members whose admission is `approved'
  request,   \* quest requests
  agreed     \* history: the text its approver had before them, of each quest

vars == <<board, role, thread, link, comments, quest, admitted, request, agreed>>

NoThread == [state |-> "absent", by |-> None, audience |-> {}, pinned |-> FALSE]
NoLink == [state |-> "absent", by |-> None, ref |-> None]
NoQuest == [status |-> "absent", by |-> None, revision |-> 0, text |-> 0,
            whole |-> FALSE, approver |-> None]
NoRequest == [at |-> "none", kind |-> "none", by |-> None, item |-> None,
              revision |-> 0, text |-> 0]

(* A quest stored before its conditions had columns has them empty.         *)
OldQuest(m, status) ==
  [NoQuest EXCEPT !.by = m, !.status = status, !.approver = IF status = "published" THEN m ELSE None]

Init ==
  /\ board \in Boards
  /\ role = [m \in Members |-> {}]
  /\ thread = [i \in Items |-> NoThread] /\ link = [i \in Items |-> NoLink] /\ comments = {}
  /\ quest \in [Quests -> {NoQuest} \cup
                 {OldQuest(m, s) : m \in Members, s \in {"draft", "pending", "published"}}]
  /\ board # "quests" => \A i \in Quests : quest[i] = NoQuest
  /\ admitted = Members
  /\ request = [q \in Requests |-> NoRequest] /\ agreed = [i \in Quests |-> IF quest[i].status = "published" THEN 0 ELSE None]

questVars == <<quest, admitted, request, agreed>>

-----------------------------------------------------------------------------
GrantRole(m, r) ==
  /\ role' = [role EXCEPT ![m] = @ \cup {r}]
  /\ UNCHANGED <<board, thread, link, comments, questVars>>

RevokeRole(m, r) ==
  /\ role' = [role EXCEPT ![m] = @ \ {r}]
  /\ UNCHANGED <<board, thread, link, comments, questVars>>

-----------------------------------------------------------------------------
(* forum                                                                    *)
CanSee(m, t) ==
  t.audience = {} \/ t.by = m \/ m \in Admins \/ t.audience \cap role[m] # {}

PostThread(m, i) ==
  /\ thread[i].state = "absent"
  /\ \E audience \in {{}, {"member"}} :
       thread' = [thread EXCEPT ![i] = [NoThread EXCEPT !.state = "live", !.by = m, !.audience = audience]]
  /\ UNCHANGED <<board, role, link, comments, questVars>>

CommentUnseen(m, i, n) ==   \* mutant: the thread is not looked up again
  /\ \A c \in comments : c.id # n
  /\ thread[i].state # "absent"
  /\ comments' = comments \cup {[id |-> n, of |-> i, by |-> m]}
  /\ UNCHANGED <<board, role, thread, link, questVars>>

(* A comment arrives, from a page drawn at any time before.                 *)
Comment(m, i, n) ==
  /\ \A c \in comments : c.id # n
  /\ thread[i].state = "live" /\ CanSee(m, thread[i])
  /\ comments' = comments \cup {[id |-> n, of |-> i, by |-> m]}
  /\ UNCHANGED <<board, role, thread, link, questVars>>

PinThread(m, i) ==
  /\ m \in Admins /\ thread[i].state = "live"
  /\ thread' = [thread EXCEPT ![i].pinned = TRUE]
  /\ UNCHANGED <<board, role, link, comments, questVars>>

DeleteThreadOnly(m, i) ==   \* mutant: its comments are left
  /\ thread[i].state = "live" /\ (thread[i].by = m \/ m \in Admins)
  /\ thread' = [thread EXCEPT ![i].state = "deleted"]
  /\ UNCHANGED <<board, role, link, comments, questVars>>

DeleteThread(m, i) ==
  /\ thread[i].state = "live" /\ (thread[i].by = m \/ m \in Admins)
  /\ thread' = [thread EXCEPT ![i].state = "deleted"]
  /\ comments' = {c \in comments : c.of # i}
  /\ UNCHANGED <<board, role, link, questVars>>

-----------------------------------------------------------------------------
(* tech-links: a deleted link keeps its row, its tags and its comments.     *)
LiveLinks == {i \in Items : link[i].state = "live"}
Shared(m, ref) == {i \in LiveLinks : link[i].by = m /\ link[i].ref = ref}

AddLink(m, i, ref) ==
  /\ link[i].state = "absent"
  /\ link' = [link EXCEPT ![i] = [state |-> "live", by |-> m, ref |-> ref]]

PostLink(m, i) ==
  /\ AddLink(m, i, None)
  /\ UNCHANGED <<board, role, thread, comments, questVars>>

ShareAgain(m, i, ref) ==   \* mutant: a repeated share is a second link
  /\ AddLink(m, i, ref)
  /\ UNCHANGED <<board, role, thread, comments, questVars>>

(* POST /external/links: Memoria may repeat it, also at once.               *)
Share(m, i, ref) ==
  /\ Shared(m, ref) = {} /\ AddLink(m, i, ref)
  /\ UNCHANGED <<board, role, thread, comments, questVars>>

Unshare(m, ref) ==
  /\ Shared(m, ref) # {}
  /\ link' = [i \in Items |-> IF i \in Shared(m, ref) THEN [link[i] EXCEPT !.state = "deleted"] ELSE link[i]]
  /\ UNCHANGED <<board, role, thread, comments, questVars>>

DeleteLink(m, i) ==
  /\ i \in LiveLinks /\ (link[i].by = m \/ m \in Admins)
  /\ link' = [link EXCEPT ![i].state = "deleted"]
  /\ UNCHANGED <<board, role, thread, comments, questVars>>

CommentLink(m, i, n) ==
  /\ \A c \in comments : c.id # n
  /\ i \in LiveLinks
  /\ comments' = comments \cup {[id |-> n, of |-> i, by |-> m]}
  /\ UNCHANGED <<board, role, thread, link, questVars>>

-----------------------------------------------------------------------------
(* dashboard: activity.ts.                                                  *)
Entry(kind, of, note) == [kind |-> kind, of |-> of, note |-> note]

Activity(m) ==
  {Entry("forum-thread", i, None) : i \in {j \in Items : thread[j].state = "live" /\ thread[j].by = m}}
  \cup {Entry("forum-comment", c.of, c.id) :
          c \in {d \in comments : board = "threads" /\ d.by = m /\ thread[d.of].state = "live"}}
  \cup {Entry("tech-link", i, None) : i \in {j \in LiveLinks : link[j].by = m}}
  \cup {Entry("tech-link-comment", c.of, c.id) :
          c \in {d \in comments : board = "links" /\ d.by = m /\ d.of \in LiveLinks}}

Listed(m, kinds) == {e \in Activity(m) : e.kind \in kinds}

(* The counts are read from each table alone.                               *)
ForumPosts(m) ==
  Cardinality({i \in Items : thread[i].state = "live" /\ thread[i].by = m})
  + Cardinality({c \in comments : board = "threads" /\ c.by = m})

TechLinks(m) == Cardinality({i \in Items : link[i].by = m /\ link[i].state # "deleted"})

-----------------------------------------------------------------------------
(* quests                                                                   *)
(* An administrator needs none.                                             *)
SetAdmission(m) ==
  /\ m \notin Admins
  /\ admitted' \in {admitted \cup {m}, admitted \ {m}}
  /\ UNCHANGED <<board, role, thread, link, comments, quest, request, agreed>>

IsMember(m) == m \in Admins \/ m \in admitted

(* The draft a member creates; its contact may be empty.                    *)
CreateQuest(m, i) ==
  /\ quest[i].status = "absent" /\ IsMember(m)
  /\ \E whole \in BOOLEAN :
       quest' = [quest EXCEPT ![i] = [OldQuest(m, "draft") EXCEPT !.whole = whole]]
  /\ UNCHANGED <<board, role, thread, link, comments, admitted, request, agreed>>

OwnKinds == {"edit", "submit", "withdraw"}
Decisions == {"approve", "return"}

MayDecide(m) == role[m] \cap Approving # {}

(* Somebody presses a button on a page that shows the quest as it is now:   *)
(* its owner's, or an approver's.                                           *)
Send(q, m, i) ==
  /\ request[q] = NoRequest /\ quest[i].status # "absent"
  /\ \E kind \in OwnKinds \cup Decisions :
       /\ IF kind \in OwnKinds THEN m = quest[i].by ELSE MayDecide(m)
       /\ request' = [request EXCEPT ![q] =
            [at |-> "sent", kind |-> kind, by |-> m, item |-> i,
             revision |-> quest[i].revision, text |-> quest[i].text]]
  /\ UNCHANGED <<board, role, thread, link, comments, quest, admitted, agreed>>

(* It reaches the Hub: the admission, and for a decision the role, are read *)
(* before the body is awaited.                                              *)
Enter(q) ==
  LET r == request[q] IN
  /\ r.at = "sent"
  /\ request' = [request EXCEPT ![q] =
       IF IsMember(r.by) /\ (r.kind \in Decisions => MayDecide(r.by))
         THEN [r EXCEPT !.at = "entered"] ELSE NoRequest]
  /\ UNCHANGED <<board, role, thread, link, comments, quest, admitted, agreed>>

Matching(r) == quest[r.item].status # "absent"   \* mutant: the revision is not compared

Matches(r) == quest[r.item].revision = r.revision

Mine(q) == quest[request[q].item].by = request[q].by

Due(q, kind) ==
  LET r == request[q] IN
  r.at = "entered" /\ r.kind = kind /\ Matches(r) /\ quest[r.item].revision < MaxRevision

(* The row gets a new revision; who approved it is forgotten.               *)
Changed(row, status) == [row EXCEPT !.revision = @ + 1, !.status = status, !.approver = None]

Becomes(q, row) ==
  /\ quest' = [quest EXCEPT ![request[q].item] = row]
  /\ request' = [request EXCEPT ![q] = NoRequest]
  /\ UNCHANGED <<board, role, thread, link, comments, admitted>>

EditKeeping(q) ==   \* mutant: a published quest stays published
  LET row == quest[request[q].item] IN
  /\ Due(q, "edit") /\ Mine(q)
  /\ \E whole \in BOOLEAN :
       Becomes(q, [row EXCEPT !.revision = @ + 1, !.text = row.revision + 1, !.whole = whole])
  /\ agreed' = agreed

Edit(q) ==
  LET row == quest[request[q].item] IN
  /\ Due(q, "edit") /\ Mine(q)
  /\ \E whole \in BOOLEAN :
       Becomes(q, [Changed(row, "draft") EXCEPT !.text = row.revision + 1, !.whole = whole])
  /\ agreed' = agreed

Submit(q) ==
  LET row == quest[request[q].item] IN
  /\ Due(q, "submit") /\ Mine(q) /\ row.status = "draft" /\ row.whole
  /\ Becomes(q, Changed(row, "pending"))
  /\ agreed' = agreed

Withdraw(q) ==
  LET row == quest[request[q].item] IN
  /\ Due(q, "withdraw") /\ Mine(q) /\ row.status # "withdrawn"
  /\ Becomes(q, Changed(row, "withdrawn"))
  /\ agreed' = agreed

(* An approver may be the owner.                                            *)
Decide(q) ==
  LET r == request[q] IN LET row == quest[r.item] IN
  /\ r.at = "entered" /\ row.status = "pending"
  /\ \/ /\ Due(q, "approve") /\ row.whole
        /\ Becomes(q, [Changed(row, "published") EXCEPT !.approver = r.by])
        /\ agreed' = [agreed EXCEPT ![r.item] = r.text]
     \/ /\ Due(q, "return")
        /\ Becomes(q, Changed(row, "draft"))
        /\ agreed' = agreed

(* It is refused (400, 403, 409), or never arrives.                         *)
Refuse(q) ==
  /\ request[q] # NoRequest
  /\ request' = [request EXCEPT ![q] = NoRequest]
  /\ UNCHANGED <<board, role, thread, link, comments, quest, admitted, agreed>>

Public == {i \in Quests : quest[i].status = "published"}

-----------------------------------------------------------------------------
Next ==
  \/ \E m \in Members, r \in RolesOf[board] : GrantRole(m, r) \/ RevokeRole(m, r)
  \/ /\ board = "threads"
     /\ \E m \in Members, i \in Items :
          \/ PostThread(m, i) \/ PinThread(m, i) \/ DeleteThread(m, i)
          \/ \E n \in Notes : Comment(m, i, n)
  \/ /\ board = "links"
     /\ \E m \in Members :
          \/ \E i \in Items, ref \in Refs : Share(m, i, ref)
          \/ \E ref \in Refs : Unshare(m, ref)
          \/ \E i \in Items : PostLink(m, i) \/ DeleteLink(m, i) \/ \E n \in Notes : CommentLink(m, i, n)
  \/ /\ board = "quests"
     /\ \/ \E m \in Members : SetAdmission(m) \/ \E i \in Quests : CreateQuest(m, i)
        \/ \E q \in Requests : Enter(q) \/ Edit(q) \/ Submit(q) \/ Withdraw(q) \/ Decide(q) \/ Refuse(q)
        \/ \E q \in Requests, m \in Members, i \in Quests : Send(q, m, i)

Spec == Init /\ [][Next]_vars

(* A quest is public only in the words its approver had before them, whole  *)
(* (unless it was so before its conditions had columns), and under their    *)
(* name: no edit, late decision or second approver gets other words onto    *)
(* the board (quests/store.ts: "Every edit removes publication and          *)
(* approval; optimistic revisions prevent stale approval").                 *)
PublishedAsReviewed ==
  \A i \in Quests :
    /\ i \in Public => quest[i].text = agreed[i] /\ (quest[i].whole \/ quest[i].revision = 0)
    /\ i \in Public <=> quest[i].approver # None

(* spec/interface/tech-links.md: what a member shares from Memoria is one   *)
(* link, however often the share is repeated, withdrawn and shared again.   *)
SharedOnce == \A m \in Members, ref \in Refs : Cardinality(Shared(m, ref)) <= 1

(* The counts of the dashboard, read from single tables, are those of the   *)
(* activity, which joins a comment with what it is about: no comment        *)
(* outlives its thread ("コメントだけが残ると参照先を失う", forum/store.ts),  *)
(* whatever arrives late.                                                   *)
CountsAreListed ==
  \A m \in Members :
    /\ ForumPosts(m) = Cardinality(Listed(m, {"forum-thread", "forum-comment"}))
    /\ TechLinks(m) = Cardinality(Listed(m, {"tech-link"}))

(* What members read of one another is what was agreed, once, and counted.  *)
BoardsAreKept == PublishedAsReviewed /\ SharedOnce /\ CountsAreListed

(* "Only a current lead or instructor" (spec/quest-board.md): TLC refutes   *)
(* it, since the role is read before the body is awaited.                   *)
ApproversAreCurrent ==
  [][\A i \in Quests : i \in Public' \ Public =>
       role[quest'[i].approver] \cap Approving # {}]_vars
=============================================================================

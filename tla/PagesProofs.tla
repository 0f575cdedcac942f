----------------------------- MODULE PagesProofs -----------------------------
EXTENDS MCPages, FiniteSetTheorems, SequenceTheorems, TLAPS

-----------------------------------------------------------------------------
(* The boards (Boards).                                                    *)

Entries == {"absent", "live", "deleted"}
Thread == [state : Entries, by : Members \cup {None}, audience : SUBSET {"member"},
           pinned : BOOLEAN]
TechLink == [state : Entries, by : Members \cup {None}, ref : Refs \cup {None}]
Note == [id : Notes, of : Items, by : Members]
Quest == [status : {"absent", "draft", "pending", "published", "withdrawn"},
          by : Members \cup {None}, revision : Nat, text : Nat,
          whole : BOOLEAN, approver : Members \cup {None}]
QuestRequest ==
  [at : {"none", "sent", "entered"}, kind : {"none"} \cup Boards!OwnKinds \cup Boards!Decisions,
   by : Members \cup {None}, item : Quests \cup {None}, revision : Nat, text : Nat]

BoardsTyped ==
  /\ board \in {"threads", "links", "quests"}
  /\ thread \in [Items -> Thread] /\ posted \in [Items -> TechLink]
  /\ comments \subseteq Note
  /\ quest \in [Quests -> Quest] /\ deciding \in [Requests -> QuestRequest]
  /\ DOMAIN agreed = Quests

(* A request under way has read its quest at some time: the quest exists,  *)
(* and if it has the revision that was read it has the text that was read. *)
RequestsAreOfQuests ==
  \A q \in Requests : deciding[q].at # "none" =>
    LET r == deciding[q] IN LET row == quest[r.item] IN
      /\ r.by \in Members /\ r.item \in Quests
      /\ row.status # "absent" /\ r.revision <= row.revision
      /\ r.revision = row.revision => r.text = row.text

(* SharedOnce, without counting.                                           *)
SharedIsOne ==
  \A i, j \in Boards!LiveLinks :
    posted[i].by = posted[j].by /\ posted[i].ref = posted[j].ref /\ posted[i].ref # None => i = j

(* What CountsAreListed rests on: a comment of the forum is about a thread *)
(* that is there, and what is counted is finite.                           *)
CommentsHaveTheirThread ==
  /\ IsFiniteSet(comments)
  /\ \A c, d \in comments : c.id = d.id => c = d
  /\ board = "threads" => \A c \in comments : thread[c.of].state = "live"

PostsAreCounted ==
  /\ IsFiniteSet({i \in Items : thread[i].state # "absent"})
  /\ IsFiniteSet({i \in Items : posted[i].state # "absent"})
  /\ \A i \in Items : posted[i].state = "absent" => posted[i].by = None

BoardsInv ==
  /\ BoardsTyped /\ RequestsAreOfQuests /\ SharedIsOne
  /\ CommentsHaveTheirThread /\ PostsAreCounted
  /\ Boards!PublishedAsReviewed

LEMMA BoardsBegin == Boards!Init => BoardsInv
<1> SUFFICES ASSUME Boards!Init PROVE BoardsInv
  OBVIOUS
<1>1. board \in {"threads", "links", "quests"}
  BY DEF Boards!Init, BoardRoles
<1>2. /\ thread = [i \in Items |-> Boards!NoThread] /\ posted = [i \in Items |-> Boards!NoLink]
      /\ comments = {} /\ deciding = [q \in Requests |-> Boards!NoRequest]
  BY DEF Boards!Init
<1>3. \A m \in Members : None # m
  BY BoardsAreExplored DEF Boards!BoardsAssumption
<1>4. ASSUME NEW i \in Quests
      PROVE  /\ quest[i] \in Quest
             /\ quest[i].status = "published" <=> quest[i].approver # None
             /\ quest[i].text = 0 /\ quest[i].revision = 0
  <2>1. \/ quest[i] = Boards!NoQuest
        \/ \E m \in Members, s \in {"draft", "pending", "published"} : quest[i] = Boards!OldQuest(m, s)
    BY DEF Boards!Init
  <2>2. CASE quest[i] = Boards!NoQuest
    BY <2>2 DEF Boards!NoQuest, Quest
  <2>3. ASSUME NEW m \in Members, NEW s \in {"draft", "pending", "published"},
               quest[i] = Boards!OldQuest(m, s)
        PROVE  /\ quest[i] \in Quest
               /\ quest[i].status = "published" <=> quest[i].approver # None
               /\ quest[i].text = 0 /\ quest[i].revision = 0
    <3>1. quest[i] = [status |-> s, by |-> m, revision |-> 0, text |-> 0, whole |-> FALSE,
                      approver |-> IF s = "published" THEN m ELSE None]
      BY <2>3 DEF Boards!NoQuest, Boards!OldQuest
    <3> QED BY <3>1, <1>3 DEF Quest
  <2> QED BY <2>1, <2>2, <2>3
<1>5. quest \in [Quests -> Quest]
  <2>1. DOMAIN quest = Quests /\ quest = [i \in Quests |-> quest[i]]
    BY DEF Boards!Init
  <2> QED BY <2>1, <1>4
<1>6. BoardsTyped
  BY <1>1, <1>2, <1>5 DEF BoardsTyped, Boards!Init, Boards!NoThread, Boards!NoLink, Boards!NoRequest,
     Thread, TechLink, QuestRequest, Note, Entries
<1>7. RequestsAreOfQuests
  BY <1>2 DEF RequestsAreOfQuests, Boards!NoRequest
<1>8. SharedIsOne
  BY <1>2 DEF SharedIsOne, Boards!LiveLinks, Boards!NoLink
<1>9. CommentsHaveTheirThread
  BY <1>2, FS_EmptySet DEF CommentsHaveTheirThread
<1>10. PostsAreCounted
  <2>1. {i \in Items : thread[i].state # "absent"} = {} /\ {i \in Items : posted[i].state # "absent"} = {}
    BY <1>2 DEF Boards!NoThread, Boards!NoLink
  <2>2. \A i \in Items : posted[i].by = None
    BY <1>2 DEF Boards!NoLink
  <2> QED BY <2>1, <2>2, FS_EmptySet DEF PostsAreCounted
<1>11. Boards!PublishedAsReviewed
  BY <1>4 DEF Boards!PublishedAsReviewed, Boards!Public, Boards!Init
<1> QED BY <1>6, <1>7, <1>8, <1>9, <1>10, <1>11 DEF BoardsInv

(* One thread changes, its comments stay only if it is live.               *)
LEMMA ThreadKept ==
  ASSUME BoardsInv, board = "threads", UNCHANGED <<board, posted, quest, deciding, agreed>>,
         NEW i \in Items, NEW t \in Thread, thread' = [thread EXCEPT ![i] = t],
         comments' = IF t.state = "live" THEN comments ELSE {c \in comments : c.of # i}
  PROVE  BoardsInv'
<1>1. thread' \in [Items -> Thread] /\ comments' \subseteq comments
  BY DEF BoardsInv, BoardsTyped
<1>2. BoardsTyped'
  BY <1>1 DEF BoardsInv, BoardsTyped
<1>3. CommentsHaveTheirThread'
  <2>1. IsFiniteSet(comments')
    BY <1>1, FS_Subset DEF BoardsInv, CommentsHaveTheirThread
  <2>2. ASSUME NEW c \in comments' PROVE thread'[c.of].state = "live"
    <3>1. c \in comments /\ c.of \in Items /\ thread[c.of].state = "live"
      BY <1>1 DEF BoardsInv, CommentsHaveTheirThread, BoardsTyped, Note
    <3> QED BY <3>1 DEF BoardsInv, BoardsTyped
  <2> QED BY <1>1, <2>1, <2>2 DEF BoardsInv, CommentsHaveTheirThread
<1>4. PostsAreCounted'
  <2>1. {j \in Items : thread'[j].state # "absent"}
          \subseteq {j \in Items : thread[j].state # "absent"} \cup {i}
    BY DEF BoardsInv, BoardsTyped
  <2>2. IsFiniteSet({j \in Items : thread[j].state # "absent"} \cup {i})
    BY FS_AddElement DEF BoardsInv, PostsAreCounted
  <2> QED BY <2>1, <2>2, FS_Subset DEF BoardsInv, PostsAreCounted
<1>5. RequestsAreOfQuests' /\ SharedIsOne' /\ Boards!PublishedAsReviewed'
  BY DEF BoardsInv, RequestsAreOfQuests, SharedIsOne, Boards!LiveLinks, Boards!PublishedAsReviewed,
     Boards!Public
<1> QED BY <1>2, <1>3, <1>4, <1>5 DEF BoardsInv

(* A comment is added where it may be.                                     *)
LEMMA CommentKept ==
  ASSUME BoardsInv, UNCHANGED <<board, thread, posted, quest, deciding, agreed>>,
         NEW c \in Note, comments' = comments \cup {c}, \A d \in comments : d.id # c.id,
         board = "threads" => thread[c.of].state = "live"
  PROVE  BoardsInv'
<1>1. IsFiniteSet(comments')
  BY FS_AddElement DEF BoardsInv, CommentsHaveTheirThread
<1>2. CommentsHaveTheirThread'
  BY <1>1 DEF BoardsInv, CommentsHaveTheirThread
<1>3. BoardsTyped' /\ PostsAreCounted'
  BY DEF BoardsInv, BoardsTyped, PostsAreCounted
<1>4. RequestsAreOfQuests' /\ SharedIsOne' /\ Boards!PublishedAsReviewed'
  BY DEF BoardsInv, RequestsAreOfQuests, SharedIsOne, Boards!LiveLinks, Boards!PublishedAsReviewed,
     Boards!Public
<1> QED BY <1>2, <1>3, <1>4 DEF BoardsInv

(* The links: a new one has no source or one that its author has not       *)
(* shared, or links are deleted.                                           *)
LEMMA LinksKept ==
  ASSUME BoardsInv, board # "threads", UNCHANGED <<board, thread, comments, quest, deciding, agreed>>,
         posted' \in [Items -> TechLink], SharedIsOne',
         NEW i, \A j \in Items : j # i /\ posted'[j].state # "absent" => posted[j].state # "absent",
         \A j \in Items : posted'[j].state = "absent" => posted'[j] = posted[j]
  PROVE  BoardsInv'
<1>1. BoardsTyped' /\ CommentsHaveTheirThread'
  BY DEF BoardsInv, BoardsTyped, CommentsHaveTheirThread
<1>2. PostsAreCounted'
  <2>1. {j \in Items : posted'[j].state # "absent"}
          \subseteq {j \in Items : posted[j].state # "absent"} \cup {i}
    OBVIOUS
  <2>2. IsFiniteSet({j \in Items : posted[j].state # "absent"} \cup {i})
    BY FS_AddElement DEF BoardsInv, PostsAreCounted
  <2>3. IsFiniteSet({j \in Items : posted'[j].state # "absent"})
    BY <2>1, <2>2, FS_Subset
  <2> QED BY <2>3 DEF BoardsInv, PostsAreCounted
<1>3. RequestsAreOfQuests' /\ Boards!PublishedAsReviewed'
  BY DEF BoardsInv, RequestsAreOfQuests, Boards!PublishedAsReviewed, Boards!Public
<1> QED BY <1>1, <1>2, <1>3 DEF BoardsInv

LEMMA AddLinkKept ==
  ASSUME BoardsInv, board # "threads", UNCHANGED <<board, thread, comments, quest, deciding, agreed>>,
         NEW m \in Members, NEW i \in Items, NEW ref \in Refs \cup {None},
         Boards!AddLink(m, i, ref), ref # None => Boards!Shared(m, ref) = {}
  PROVE  BoardsInv'
<1>1. posted' = [posted EXCEPT ![i] = [state |-> "live", by |-> m, ref |-> ref]]
  BY DEF Boards!AddLink
<1>2. posted' \in [Items -> TechLink]
  BY <1>1 DEF BoardsInv, BoardsTyped, TechLink, Entries
<1>3. SharedIsOne'
  <2> SUFFICES ASSUME NEW j \in Boards!LiveLinks', NEW k \in Boards!LiveLinks', posted'[j].by = posted'[k].by,
                      posted'[j].ref = posted'[k].ref, posted'[j].ref # None, j # k
               PROVE  FALSE
    BY DEF SharedIsOne
  <2>1. \A l \in Boards!LiveLinks' : l \in Items /\ (l # i => l \in Boards!LiveLinks /\ posted'[l] = posted[l])
    BY <1>1 DEF BoardsInv, BoardsTyped, Boards!LiveLinks
  <2>2. posted'[i].by = m /\ posted'[i].ref = ref
    BY <1>1 DEF BoardsInv, BoardsTyped
  <2>3. CASE j # i /\ k # i
    BY <2>1, <2>3 DEF BoardsInv, SharedIsOne
  <2>4. CASE j = i
    BY <2>1, <2>2, <2>4 DEF Boards!Shared
  <2>5. CASE k = i
    BY <2>1, <2>2, <2>5 DEF Boards!Shared
  <2> QED BY <2>3, <2>4, <2>5
<1>4. \A j \in Items : j # i => posted'[j] = posted[j]
  BY <1>1 DEF BoardsInv, BoardsTyped
<1>5. posted'[i].state = "live"
  BY <1>1 DEF BoardsInv, BoardsTyped
<1> QED BY <1>2, <1>3, <1>4, <1>5, LinksKept

LEMMA DeletedLinksKept ==
  ASSUME BoardsInv, board # "threads", UNCHANGED <<board, thread, comments, quest, deciding, agreed>>,
         NEW D \in SUBSET Boards!LiveLinks,
         posted' = [i \in Items |-> IF i \in D THEN [posted[i] EXCEPT !.state = "deleted"] ELSE posted[i]]
  PROVE  BoardsInv'
<1>1. posted' \in [Items -> TechLink]
  BY DEF BoardsInv, BoardsTyped, TechLink, Entries
<1>2. \A i \in Items : /\ i \in D => posted'[i].state = "deleted"
                       /\ i \notin D => posted'[i] = posted[i]
  BY DEF BoardsInv, BoardsTyped, TechLink
<1>3. Boards!LiveLinks' \subseteq Boards!LiveLinks \ D
  BY <1>2 DEF Boards!LiveLinks
<1>4. SharedIsOne'
  BY <1>2, <1>3 DEF BoardsInv, SharedIsOne, Boards!LiveLinks
<1>5. \A j \in Items : posted'[j].state # "absent" => posted[j].state # "absent"
  BY <1>2 DEF Boards!LiveLinks
<1> QED BY <1>1, <1>2, <1>4, <1>5, LinksKept

-----------------------------------------------------------------------------
(* The quests.                                                             *)
LEMMA RequestKept ==
  ASSUME BoardsInv, UNCHANGED <<board, thread, posted, comments, quest, agreed>>,
         NEW q \in Requests, NEW r \in QuestRequest, deciding' = [deciding EXCEPT ![q] = r],
         r.at # "none" =>
           /\ r.by \in Members /\ r.item \in Quests
           /\ quest[r.item].status # "absent" /\ r.revision <= quest[r.item].revision
           /\ r.revision = quest[r.item].revision => r.text = quest[r.item].text
  PROVE  BoardsInv'
<1>1. BoardsTyped' /\ CommentsHaveTheirThread' /\ PostsAreCounted'
  BY DEF BoardsInv, BoardsTyped, CommentsHaveTheirThread, PostsAreCounted
<1>2. \A p \in Requests : deciding'[p] = IF p = q THEN r ELSE deciding[p]
  BY DEF BoardsInv, BoardsTyped
<1>3. RequestsAreOfQuests'
  BY <1>2 DEF BoardsInv, RequestsAreOfQuests
<1>4. SharedIsOne' /\ Boards!PublishedAsReviewed'
  BY DEF BoardsInv, SharedIsOne, Boards!LiveLinks, Boards!PublishedAsReviewed, Boards!Public
<1> QED BY <1>1, <1>3, <1>4 DEF BoardsInv

(* A request gets a quest another revision, published or not.              *)
LEMMA QuestKept ==
  ASSUME BoardsInv, UNCHANGED <<board, thread, posted, comments>>,
         NEW q \in Requests, deciding[q].at = "entered", NEW row \in Quest,
         Boards!Becomes(q, row),
         row.revision = quest[deciding[q].item].revision + 1, row.status # "absent",
         \/ row.approver = None /\ row.status # "published" /\ UNCHANGED agreed
         \/ /\ row.status = "published" /\ row.whole /\ row.approver # None
            /\ row.text = deciding[q].text
            /\ agreed' = [agreed EXCEPT ![deciding[q].item] = deciding[q].text]
  PROVE  BoardsInv'
<1> DEFINE i == deciding[q].item
<1>1. i \in Quests /\ quest[i] \in Quest
  BY DEF BoardsInv, RequestsAreOfQuests, BoardsTyped
<1>2. /\ quest' = [quest EXCEPT ![i] = row]
      /\ deciding' = [deciding EXCEPT ![q] = Boards!NoRequest]
  BY DEF Boards!Becomes
<1>3. Boards!NoRequest \in QuestRequest /\ Boards!NoRequest.at = "none"
  BY DEF Boards!NoRequest, QuestRequest
<1>4. BoardsTyped' /\ CommentsHaveTheirThread' /\ PostsAreCounted'
  BY <1>2, <1>3 DEF BoardsInv, BoardsTyped, CommentsHaveTheirThread, PostsAreCounted
<1>5. \A j \in Quests : quest'[j] = IF j = i THEN row ELSE quest[j]
  BY <1>2 DEF BoardsInv, BoardsTyped
<1>6. RequestsAreOfQuests'
  <2> SUFFICES ASSUME NEW p \in Requests, deciding'[p].at # "none"
               PROVE  /\ deciding'[p].by \in Members /\ deciding'[p].item \in Quests
                      /\ quest'[deciding'[p].item].status # "absent"
                      /\ deciding'[p].revision <= quest'[deciding'[p].item].revision
                      /\ deciding'[p].revision = quest'[deciding'[p].item].revision
                           => deciding'[p].text = quest'[deciding'[p].item].text
    BY DEF RequestsAreOfQuests
  <2>1. p # q /\ deciding'[p] = deciding[p]
    BY <1>2, <1>3 DEF BoardsInv, BoardsTyped
  <2>2. /\ deciding[p].by \in Members /\ deciding[p].item \in Quests
        /\ quest[deciding[p].item].status # "absent"
        /\ deciding[p].revision <= quest[deciding[p].item].revision
        /\ deciding[p].revision = quest[deciding[p].item].revision
             => deciding[p].text = quest[deciding[p].item].text
        /\ deciding[p].revision \in Nat /\ quest[deciding[p].item].revision \in Nat
    BY <2>1 DEF BoardsInv, BoardsTyped, RequestsAreOfQuests, QuestRequest, Quest
  <2>3. CASE deciding[p].item = i
    <3>1. deciding'[p].item = i /\ quest'[i] = row /\ deciding[p].revision # quest[i].revision + 1
      BY <2>1, <2>2, <2>3, <1>1, <1>5
    <3> QED BY <3>1, <2>1, <2>2, <2>3
  <2>4. CASE deciding[p].item # i
    BY <2>1, <2>2, <2>4, <1>5
  <2> QED BY <2>3, <2>4
<1>7. Boards!PublishedAsReviewed'
  <2> SUFFICES ASSUME NEW j \in Quests
               PROVE  /\ quest'[j].status = "published" =>
                           quest'[j].text = agreed'[j] /\ (quest'[j].whole \/ quest'[j].revision = 0)
                      /\ quest'[j].status = "published" <=> quest'[j].approver # None
    BY DEF Boards!PublishedAsReviewed, Boards!Public
  <2>1. CASE j = i
    BY <2>1, <1>1, <1>5 DEF BoardsInv, BoardsTyped
  <2>2. j # i => agreed'[j] = agreed[j]
    BY DEF BoardsInv, BoardsTyped
  <2>3. CASE j # i
    BY <2>2, <2>3, <1>5 DEF BoardsInv, Boards!PublishedAsReviewed, Boards!Public
  <2> QED BY <2>1, <2>3
<1>8. SharedIsOne'
  BY DEF BoardsInv, SharedIsOne, Boards!LiveLinks
<1> QED BY <1>4, <1>6, <1>7, <1>8 DEF BoardsInv

LEMMA ChangedRow ==
  ASSUME NEW row \in Quest, NEW s \in {"draft", "pending", "withdrawn", "published"}
  PROVE  /\ Boards!Changed(row, s) \in Quest
         /\ Boards!Changed(row, s).status = s /\ Boards!Changed(row, s).approver = None
         /\ Boards!Changed(row, s).revision = row.revision + 1
         /\ Boards!Changed(row, s).text = row.text /\ Boards!Changed(row, s).whole = row.whole
<1> DEFINE n == row.revision + 1
<1>1. Boards!Changed(row, s) = [row EXCEPT !.revision = n, !.status = s, !.approver = None]
  BY DEF Boards!Changed
<1>2. n \in Nat
  BY DEF Quest
<1> HIDE DEF n
<1>3. [row EXCEPT !.revision = n, !.status = s, !.approver = None] \in Quest
  BY <1>2 DEF Quest
<1>4. \A x : x = [row EXCEPT !.revision = n, !.status = s, !.approver = None] =>
              x.status = s /\ x.approver = None /\ x.revision = n /\ x.text = row.text /\ x.whole = row.whole
  BY DEF Quest
<1> QED BY <1>1, <1>3, <1>4 DEF n

LEMMA CreateQuestKept ==
  ASSUME BoardsInv, NEW m \in Members, NEW i \in Quests, Boards!CreateQuest(m, i)
  PROVE  BoardsInv'
<1>1. PICK whole \in BOOLEAN : quest' = [quest EXCEPT ![i] = [Boards!OldQuest(m, "draft") EXCEPT !.whole = whole]]
  BY DEF Boards!CreateQuest
<1> DEFINE row == [Boards!OldQuest(m, "draft") EXCEPT !.whole = whole]
<1>2. Boards!OldQuest(m, "draft") \in Quest /\ Boards!OldQuest(m, "draft").status = "draft"
      /\ Boards!OldQuest(m, "draft").approver = None
  <2>1. Boards!NoQuest \in Quest
    BY DEF Boards!NoQuest, Quest
  <2> QED BY <2>1 DEF Boards!OldQuest, Quest
<1>3. quest[i].status = "absent" /\ UNCHANGED <<board, thread, posted, comments, deciding, agreed>>
  BY DEF Boards!CreateQuest
<1>4. row \in Quest /\ row.status = "draft" /\ row.approver = None /\ quest' = [quest EXCEPT ![i] = row]
  BY <1>1, <1>2 DEF Quest
<1> HIDE DEF row
<1>5. BoardsTyped' /\ CommentsHaveTheirThread' /\ PostsAreCounted'
  BY <1>4, <1>3 DEF BoardsInv, BoardsTyped, CommentsHaveTheirThread, PostsAreCounted
<1>6. \A j \in Quests : quest'[j] = IF j = i THEN row ELSE quest[j]
  BY <1>4 DEF BoardsInv, BoardsTyped
<1>7. RequestsAreOfQuests'
  BY <1>3, <1>6 DEF BoardsInv, RequestsAreOfQuests
<1>8. SharedIsOne' /\ Boards!PublishedAsReviewed'
  BY <1>3, <1>4, <1>6 DEF BoardsInv, SharedIsOne, Boards!LiveLinks, Boards!PublishedAsReviewed, Boards!Public
<1> QED BY <1>5, <1>7, <1>8 DEF BoardsInv

(* Roles and admissions are no part of it.                                 *)
LEMMA BoardsUnchanged ==
  ASSUME BoardsInv, UNCHANGED <<board, thread, posted, comments, quest, deciding, agreed>>
  PROVE  BoardsInv'
BY DEF BoardsInv, BoardsTyped, RequestsAreOfQuests, SharedIsOne, CommentsHaveTheirThread,
       PostsAreCounted, Boards!PublishedAsReviewed, Boards!LiveLinks, Boards!Public

LEMMA BoardsStep == ASSUME BoardsInv, [Boards!Next]_boardVars PROVE BoardsInv'
<1>0. CASE UNCHANGED boardVars
  BY <1>0, BoardsUnchanged DEF boardVars
<1>1. ASSUME NEW m \in Members, NEW r, Boards!GrantRole(m, r) \/ Boards!RevokeRole(m, r)
      PROVE  BoardsInv'
  BY <1>1, BoardsUnchanged DEF Boards!GrantRole, Boards!RevokeRole, Boards!questVars
<1>2. ASSUME board = "threads", NEW m \in Members, NEW i \in Items, Boards!PostThread(m, i)
      PROVE  BoardsInv'
  <2>1. PICK audience \in {{}, {"member"}} :
          thread' = [thread EXCEPT ![i] = [Boards!NoThread EXCEPT !.state = "live", !.by = m, !.audience = audience]]
    BY <1>2 DEF Boards!PostThread
  <2> DEFINE t == [Boards!NoThread EXCEPT !.state = "live", !.by = m, !.audience = audience]
  <2>2. thread' = [thread EXCEPT ![i] = t] /\ t \in Thread /\ t.state = "live"
    <3>1. Boards!NoThread \in Thread
      BY DEF Boards!NoThread, Thread, Entries
    <3> QED BY <2>1, <3>1 DEF Thread, Entries
  <2> HIDE DEF t
  <2> QED BY <2>2, <1>2, ThreadKept DEF Boards!PostThread, Boards!questVars
<1>3. ASSUME board = "threads", NEW m \in Members, NEW i \in Items, Boards!PinThread(m, i)
      PROVE  BoardsInv'
  <2> DEFINE t == [thread[i] EXCEPT !.pinned = TRUE]
  <2>1. thread[i] \in Thread /\ thread[i].state = "live" /\ thread' = [thread EXCEPT ![i] = t]
    BY <1>3 DEF Boards!PinThread, BoardsInv, BoardsTyped
  <2>2. t \in Thread /\ t.state = "live"
    BY <2>1 DEF Thread
  <2> HIDE DEF t
  <2> QED BY <2>1, <2>2, <1>3, ThreadKept DEF Boards!PinThread, Boards!questVars
<1>4. ASSUME board = "threads", NEW m \in Members, NEW i \in Items, Boards!DeleteThread(m, i)
      PROVE  BoardsInv'
  <2> DEFINE t == [thread[i] EXCEPT !.state = "deleted"]
  <2>1. thread[i] \in Thread /\ thread' = [thread EXCEPT ![i] = t]
    BY <1>4 DEF Boards!DeleteThread, BoardsInv, BoardsTyped
  <2>2. t \in Thread /\ t.state = "deleted"
    BY <2>1 DEF Thread, Entries
  <2> HIDE DEF t
  <2> QED BY <2>1, <2>2, <1>4, ThreadKept DEF Boards!DeleteThread, Boards!questVars
<1>5. ASSUME NEW m \in Members, NEW i \in Items, NEW n \in Notes,
             \/ board = "threads" /\ Boards!Comment(m, i, n)
             \/ board = "links" /\ Boards!CommentLink(m, i, n)
      PROVE  BoardsInv'
  <2> DEFINE c == [id |-> n, of |-> i, by |-> m]
  <2>1. c \in Note /\ c.id = n /\ c.of = i
    BY DEF Note
  <2>2. comments' = comments \cup {c} /\ UNCHANGED <<board, thread, posted, quest, deciding, agreed>>
    BY <1>5 DEF Boards!Comment, Boards!CommentLink, Boards!questVars
  <2>3. (\A d \in comments : d.id # n) /\ (board = "threads" => thread[i].state = "live")
    BY <1>5 DEF Boards!Comment, Boards!CommentLink
  <2> HIDE DEF c
  <2> QED BY <2>1, <2>2, <2>3, CommentKept
<1>6. ASSUME board = "links", NEW m \in Members, NEW i \in Items,
             \E ref \in Refs : Boards!Share(m, i, ref)
      PROVE  BoardsInv'
  BY <1>6, AddLinkKept DEF Boards!Share, Boards!questVars
<1>7. ASSUME board = "links", NEW m \in Members, NEW i \in Items, Boards!PostLink(m, i)
      PROVE  BoardsInv'
  BY <1>7, AddLinkKept DEF Boards!PostLink, Boards!questVars
<1>8. ASSUME board = "links", NEW m \in Members, NEW ref \in Refs, Boards!Unshare(m, ref)
      PROVE  BoardsInv'
  <2>1. Boards!Shared(m, ref) \in SUBSET Boards!LiveLinks
    BY DEF Boards!Shared
  <2>2. /\ posted' = [i \in Items |-> IF i \in Boards!Shared(m, ref)
                                        THEN [posted[i] EXCEPT !.state = "deleted"] ELSE posted[i]]
        /\ UNCHANGED <<board, thread, comments, quest, deciding, agreed>>
    BY <1>8 DEF Boards!Unshare, Boards!questVars
  <2> QED BY <1>8, <2>1, <2>2, DeletedLinksKept
<1>9. ASSUME board = "links", NEW m \in Members, NEW i \in Items, Boards!DeleteLink(m, i)
      PROVE  BoardsInv'
  <2>1. /\ {i} \in SUBSET Boards!LiveLinks
        /\ posted' = [j \in Items |-> IF j \in {i} THEN [posted[j] EXCEPT !.state = "deleted"] ELSE posted[j]]
        /\ UNCHANGED <<board, thread, comments, quest, deciding, agreed>>
    BY <1>9 DEF Boards!DeleteLink, Boards!questVars, BoardsInv, BoardsTyped
  <2> QED BY <1>9, <2>1, DeletedLinksKept
<1>10. ASSUME NEW m \in Members, Boards!SetAdmission(m)
       PROVE  BoardsInv'
  BY <1>10, BoardsUnchanged DEF Boards!SetAdmission
<1>11. ASSUME NEW q \in Requests, NEW m \in Members, NEW i \in Quests, Boards!Send(q, m, i)
       PROVE  BoardsInv'
  <2>1. PICK kind \in Boards!OwnKinds \cup Boards!Decisions :
          deciding' = [deciding EXCEPT ![q] =
            [at |-> "sent", kind |-> kind, by |-> m, item |-> i,
             revision |-> quest[i].revision, text |-> quest[i].text]]
    BY <1>11 DEF Boards!Send
  <2> DEFINE r == [at |-> "sent", kind |-> kind, by |-> m, item |-> i,
                   revision |-> quest[i].revision, text |-> quest[i].text]
  <2>2. quest[i] \in Quest
    BY DEF BoardsInv, BoardsTyped
  <2>3. r \in QuestRequest /\ r.by = m /\ r.item = i /\ r.text = quest[i].text
        /\ r.revision = quest[i].revision /\ r.revision \in Nat
    BY <2>2 DEF QuestRequest, Quest
  <2>4. deciding' = [deciding EXCEPT ![q] = r] /\ quest[i].status # "absent"
        /\ UNCHANGED <<board, thread, posted, comments, quest, agreed>>
    BY <2>1, <1>11 DEF Boards!Send
  <2>5. r.revision <= quest[r.item].revision
    BY <2>3
  <2> HIDE DEF r
  <2> QED BY <2>3, <2>4, <2>5, RequestKept
<1>12. ASSUME NEW q \in Requests, Boards!Enter(q) \/ Boards!Refuse(q)
       PROVE  BoardsInv'
  <2>1. deciding[q] \in QuestRequest /\ UNCHANGED <<board, thread, posted, comments, quest, agreed>>
    BY <1>12 DEF Boards!Enter, Boards!Refuse, BoardsInv, BoardsTyped
  <2>2. Boards!NoRequest \in QuestRequest /\ Boards!NoRequest.at = "none"
    BY DEF Boards!NoRequest, QuestRequest
  <2>3. CASE deciding' = [deciding EXCEPT ![q] = Boards!NoRequest]
    BY <2>1, <2>2, <2>3, RequestKept
  <2>4. CASE deciding[q].at = "sent" /\ deciding' = [deciding EXCEPT ![q] = [deciding[q] EXCEPT !.at = "entered"]]
    <3> DEFINE r == [deciding[q] EXCEPT !.at = "entered"]
    <3>1. /\ r \in QuestRequest /\ r.by = deciding[q].by /\ r.item = deciding[q].item
          /\ r.text = deciding[q].text /\ r.revision = deciding[q].revision
      BY <2>1 DEF QuestRequest
    <3>2. /\ r.by \in Members /\ r.item \in Quests
          /\ quest[r.item].status # "absent" /\ r.revision <= quest[r.item].revision
          /\ r.revision = quest[r.item].revision => r.text = quest[r.item].text
      BY <3>1, <2>4 DEF BoardsInv, RequestsAreOfQuests
    <3>3. deciding' = [deciding EXCEPT ![q] = r]
      BY <2>4
    <3> HIDE DEF r
    <3> QED BY <3>1, <3>2, <3>3, <2>1, RequestKept
  <2> QED BY <1>12, <2>3, <2>4 DEF Boards!Enter, Boards!Refuse
<1>13. ASSUME NEW q \in Requests,
              Boards!Edit(q) \/ Boards!Submit(q) \/ Boards!Withdraw(q) \/ Boards!Decide(q)
       PROVE  BoardsInv'
  <2> DEFINE row == quest[deciding[q].item]
  <2>1. /\ deciding[q].at = "entered" /\ deciding[q] \in QuestRequest
        /\ deciding[q].item \in Quests /\ row \in Quest /\ row.revision \in Nat /\ deciding[q].by \in Members
        /\ deciding[q].revision = row.revision
        /\ deciding[q].text = row.text
    <3>1. deciding[q].at = "entered" /\ deciding[q].revision = row.revision
      BY <1>13 DEF Boards!Edit, Boards!Submit, Boards!Withdraw, Boards!Decide, Boards!Due, Boards!Matches
    <3> QED BY <3>1 DEF BoardsInv, BoardsTyped, RequestsAreOfQuests, Quest
  <2>2. \A s \in {"draft", "pending", "withdrawn", "published"} :
          /\ Boards!Changed(row, s) \in Quest
          /\ Boards!Changed(row, s).status = s /\ Boards!Changed(row, s).approver = None
          /\ Boards!Changed(row, s).revision = row.revision + 1
          /\ Boards!Changed(row, s).text = row.text /\ Boards!Changed(row, s).whole = row.whole
    BY <2>1, ChangedRow
  <2>3. CASE Boards!Edit(q)
    <3>1. PICK whole \in BOOLEAN :
            Boards!Becomes(q, [Boards!Changed(row, "draft") EXCEPT !.text = row.revision + 1, !.whole = whole])
      BY <2>3 DEF Boards!Edit
    <3> DEFINE new == [Boards!Changed(row, "draft") EXCEPT !.text = row.revision + 1, !.whole = whole]
    <3>2. /\ new \in Quest /\ new.revision = row.revision + 1 /\ new.status = "draft"
          /\ new.approver = None
      BY <2>1, <2>2 DEF Quest
    <3>3. Boards!Becomes(q, new) /\ UNCHANGED <<board, thread, posted, comments, agreed>>
      BY <3>1, <2>3 DEF Boards!Becomes, Boards!Edit
    <3> HIDE DEF new
    <3> QED BY <3>2, <3>3, <2>1, QuestKept
  <2>4. ASSUME NEW s \in {"draft", "pending", "withdrawn"}, Boards!Becomes(q, Boards!Changed(row, s)),
               UNCHANGED agreed
        PROVE  BoardsInv'
    <3>1. UNCHANGED <<board, thread, posted, comments>>
      BY <2>4 DEF Boards!Becomes
    <3> QED BY <3>1, <2>1, <2>2, <2>4, QuestKept
  <2>5. CASE Boards!Submit(q) \/ Boards!Withdraw(q)
    BY <2>4, <2>5 DEF Boards!Submit, Boards!Withdraw
  <2>6. CASE Boards!Decide(q)
    <3> DEFINE new == [Boards!Changed(row, "published") EXCEPT !.approver = deciding[q].by]
    <3>1. /\ new \in Quest /\ new.revision = row.revision + 1 /\ new.status = "published"
          /\ new.approver = deciding[q].by /\ new.text = row.text /\ new.whole = row.whole
      BY <2>1, <2>2 DEF Quest
    <3>2. deciding[q].by # None
      BY <2>1, BoardsAreExplored DEF Boards!BoardsAssumption
    <3>3. CASE /\ row.whole /\ Boards!Becomes(q, new)
               /\ agreed' = [agreed EXCEPT ![deciding[q].item] = deciding[q].text]
      <4>1. UNCHANGED <<board, thread, posted, comments>>
        BY <3>3 DEF Boards!Becomes
      <4> HIDE DEF new
      <4> QED BY <4>1, <3>1, <3>2, <3>3, <2>1, QuestKept
    <3>4. CASE Boards!Becomes(q, Boards!Changed(row, "draft")) /\ UNCHANGED agreed
      BY <3>4, <2>4
    <3> QED BY <2>6, <3>3, <3>4 DEF Boards!Decide
  <2> QED BY <1>13, <2>3, <2>5, <2>6
<1> QED BY <1>0, <1>1, <1>2, <1>3, <1>4, <1>5, <1>6, <1>7, <1>8, <1>9, <1>10, <1>11, <1>12, <1>13,
          CreateQuestKept DEF Boards!Next

-----------------------------------------------------------------------------
(* Counting what a member reads of the boards.                             *)
LEMMA OneToOne ==
  ASSUME NEW S, NEW T, IsFiniteSet(S), NEW f \in [S -> T],
         \A x, y \in S : f[x] = f[y] => x = y, \A y \in T : \E x \in S : f[x] = y
  PROVE  IsFiniteSet(T) /\ Cardinality(T) = Cardinality(S)
<1>1. f \in Bijection(S, T)
  BY DEF Bijection, Injection, Surjection, IsInjective
<1>2. ExistsBijection(S, T)
  BY <1>1 DEF ExistsBijection
<1> QED BY <1>2, FS_Bijection

LEMMA SharedIsCounted ==
  ASSUME BoardsInv
  PROVE  Boards!SharedOnce
<1> SUFFICES ASSUME NEW m \in Members, NEW ref \in Refs
             PROVE  Boards!Cardinality(Boards!Shared(m, ref)) <= 1
  BY DEF Boards!SharedOnce
<1>1. ref # None
  BY BoardsAreExplored DEF Boards!BoardsAssumption
<1>2. \A i, j \in Boards!Shared(m, ref) : i = j
  BY <1>1 DEF BoardsInv, SharedIsOne, Boards!Shared
<1>3. Boards!Shared(m, ref) = {} \/ \E i : Boards!Shared(m, ref) = {i}
  BY <1>2
<1>4. Cardinality(Boards!Shared(m, ref)) <= 1
  BY <1>3, FS_EmptySet, FS_Singleton
<1> QED BY <1>4 DEF Boards!Cardinality, Cardinality, Boards!IsFiniteSet, IsFiniteSet

LEMMA PostsAreListed ==
  ASSUME BoardsInv, NEW m \in Members
  PROVE  Boards!ForumPosts(m) = Boards!Cardinality(Boards!Listed(m, {"forum-thread", "forum-comment"}))
<1> DEFINE T == {i \in Items : thread[i].state = "live" /\ thread[i].by = m}
           C == {c \in comments : board = "threads" /\ c.by = m}
           X == {Boards!Entry("forum-thread", i, None) : i \in T}
           Y == {Boards!Entry("forum-comment", c.of, c.id) : c \in C}
<1>1. IsFiniteSet(T)
  <2>1. T \subseteq {i \in Items : thread[i].state # "absent"}
    OBVIOUS
  <2> QED BY <2>1, FS_Subset DEF BoardsInv, PostsAreCounted
<1>2. IsFiniteSet(C)
  <2>1. C \subseteq comments
    OBVIOUS
  <2> QED BY <2>1, FS_Subset DEF BoardsInv, CommentsHaveTheirThread
<1>3. IsFiniteSet(X) /\ Cardinality(X) = Cardinality(T)
  <2> DEFINE f == [i \in T |-> Boards!Entry("forum-thread", i, None)]
  <2>1. \A i, j \in T : f[i] = f[j] => i = j
    BY DEF Boards!Entry
  <2>2. f \in [T -> X] /\ \A x \in X : \E i \in T : f[i] = x
    OBVIOUS
  <2> HIDE DEF f, T, X
  <2> QED BY <1>1, <2>1, <2>2, OneToOne
<1>4. IsFiniteSet(Y) /\ Cardinality(Y) = Cardinality(C)
  <2> DEFINE f == [c \in C |-> Boards!Entry("forum-comment", c.of, c.id)]
  <2>1. ASSUME NEW c \in C, NEW d \in C, f[c] = f[d]
        PROVE  c = d
    <3>1. c.id = d.id
      BY <2>1 DEF Boards!Entry
    <3> QED BY <3>1 DEF BoardsInv, CommentsHaveTheirThread
  <2>2. f \in [C -> Y] /\ \A y \in Y : \E c \in C : f[c] = y
    OBVIOUS
  <2> HIDE DEF f, C, Y
  <2> QED BY <1>2, <2>1, <2>2, OneToOne
<1>5. Boards!Listed(m, {"forum-thread", "forum-comment"}) = X \cup Y
  <2>1. C = {d \in comments : board = "threads" /\ d.by = m /\ thread[d.of].state = "live"}
    BY DEF BoardsInv, CommentsHaveTheirThread
  <2>2. \A k, i, n : Boards!Entry(k, i, n).kind = k
    BY DEF Boards!Entry
  <2> DEFINE L == {Boards!Entry("tech-link", i, None) : i \in {j \in Boards!LiveLinks : posted[j].by = m}}
             N == {Boards!Entry("tech-link-comment", c.of, c.id) :
                    c \in {d \in comments : board = "links" /\ d.by = m /\ d.of \in Boards!LiveLinks}}
  <2>3. Boards!Activity(m) = X \cup Y \cup L \cup N
    BY <2>1 DEF Boards!Activity
  <2>4. /\ \A e \in X : e.kind = "forum-thread"
        /\ \A e \in Y : e.kind = "forum-comment"
        /\ \A e \in L : e.kind = "tech-link"
        /\ \A e \in N : e.kind = "tech-link-comment"
    BY <2>2
  <2> HIDE DEF X, Y, L, N
  <2> QED BY <2>3, <2>4 DEF Boards!Listed
<1>6. X \cap Y = {}
  BY DEF Boards!Entry
<1>7. /\ Boards!ForumPosts(m) = Cardinality(T) + Cardinality(C)
      /\ Boards!Cardinality(X \cup Y) = Cardinality(X \cup Y)
  BY DEF Boards!ForumPosts, Boards!Cardinality, Cardinality, Boards!IsFiniteSet, IsFiniteSet
<1> HIDE DEF T, C, X, Y
<1>8. Cardinality(X \cup Y) = Cardinality(X) + Cardinality(Y)
  <2>1. Cardinality(X \cup Y) = Cardinality(X) + Cardinality(Y) - Cardinality({})
    BY <1>3, <1>4, <1>6, FS_Union
  <2>2. Cardinality(X) \in Nat /\ Cardinality(Y) \in Nat /\ Cardinality({}) = 0
    BY <1>3, <1>4, FS_EmptySet, FS_CardinalityType
  <2> QED BY <2>1, <2>2
<1> QED BY <1>3, <1>4, <1>5, <1>7, <1>8

LEMMA LinksAreListed ==
  ASSUME BoardsInv, NEW m \in Members
  PROVE  Boards!TechLinks(m) = Boards!Cardinality(Boards!Listed(m, {"tech-link"}))
<1> DEFINE T == {i \in Items : posted[i].by = m /\ posted[i].state # "deleted"}
           X == {Boards!Entry("tech-link", i, None) : i \in T}
<1>1. m # None
  BY BoardsAreExplored DEF Boards!BoardsAssumption
<1>2. T = {i \in Boards!LiveLinks : posted[i].by = m}
  <2>1. \A i \in Items : posted[i].state \in {"absent", "live", "deleted"}
    BY DEF BoardsInv, BoardsTyped, TechLink, Entries
  <2> QED BY <1>1, <2>1 DEF Boards!LiveLinks, BoardsInv, PostsAreCounted
<1>3. IsFiniteSet(T)
  <2>1. T \subseteq {i \in Items : posted[i].state # "absent"}
    BY <1>2 DEF Boards!LiveLinks
  <2> QED BY <2>1, FS_Subset DEF BoardsInv, PostsAreCounted
<1>4. Cardinality(X) = Cardinality(T)
  <2> DEFINE f == [i \in T |-> Boards!Entry("tech-link", i, None)]
  <2>1. \A i, j \in T : f[i] = f[j] => i = j
    BY DEF Boards!Entry
  <2>2. f \in [T -> X] /\ \A x \in X : \E i \in T : f[i] = x
    OBVIOUS
  <2> HIDE DEF f, T, X
  <2> QED BY <1>3, <2>1, <2>2, OneToOne
<1>5. Boards!Listed(m, {"tech-link"}) = X
  <2>1. \A k, i, n : Boards!Entry(k, i, n).kind = k
    BY DEF Boards!Entry
  <2> QED BY <1>2, <2>1 DEF Boards!Listed, Boards!Activity
<1> QED BY <1>4, <1>5 DEF Boards!TechLinks, Boards!Cardinality, Cardinality, Boards!IsFiniteSet, IsFiniteSet

(* What members read of one another is what was agreed, once, and counted: *)
(* a quest is public in the words its approver had read, a link shared     *)
(* twice is one, and no comment of the forum outlives its thread - for any *)
(* members, quests and requests under way.                                 *)
THEOREM BoardsKept == PagesSpec => []BoardsAreKept
<1>1. PagesInit => BoardsInv
  BY BoardsBegin DEF PagesInit
<1>2. [PagesNext]_pageVars => [Boards!Next]_boardVars
  BY DEF PagesNext, pageVars
<1>3. BoardsInv => BoardsAreKept
  BY SharedIsCounted, PostsAreListed, LinksAreListed
     DEF BoardsInv, BoardsAreKept, Boards!BoardsAreKept, Boards!CountsAreListed
<1> QED BY <1>1, <1>2, <1>3, BoardsStep, PTL DEF PagesSpec

-----------------------------------------------------------------------------
(* The page of reviews (ReviewPage).                                       *)
ReviewsInv ==
  /\ Reviews!TypeOK /\ Reviews!PageIsCoherent
  /\ \A a \in saves : a.survey = a.questions

ReviewRender ==
  [at : {"none", "omnipotens", "games", "admin", "list", "done"}, drawn : BOOLEAN,
   tab : Reviews!Tabs \cup {None}, project : Projects \cup {None}]

Detail == [form : Surveys \cup {None}, busy : BOOLEAN, asked : SUBSET Surveys]

LEMMA ReviewsBegin == Reviews!Init => ReviewsInv
<1> SUFFICES ASSUME Reviews!Init PROVE ReviewsInv
  OBVIOUS
<1>1. PICK p \in Projects \cup {None}, admin \in BOOLEAN, c \in Categories :
       page = [project |-> p, url |-> p, tab |-> IF p = None THEN c ELSE "reviews",
               selected |-> None, loaded |-> FALSE, admin |-> admin]
  BY DEF Reviews!Init
<1>2. /\ page \in [project : Projects \cup {None}, url : Projects \cup {None}, tab : Reviews!Tabs,
                   selected : Surveys \cup {None}, loaded : BOOLEAN, admin : BOOLEAN]
      /\ page.url = page.project
  BY <1>1 DEF Reviews!Tabs
<1>3. /\ Reviews!NoRender \in ReviewRender /\ [Reviews!NoRender EXCEPT !.at = "omnipotens"] \in ReviewRender
      /\ ~Reviews!NoRender.drawn /\ ~[Reviews!NoRender EXCEPT !.at = "omnipotens"].drawn
      /\ Reviews!NoDetail \in Detail
  BY DEF Reviews!NoRender, Reviews!NoDetail, ReviewRender, Detail
<1>4. /\ render = [r \in Reviews!Renders |-> IF r = 1 THEN [Reviews!NoRender EXCEPT !.at = "omnipotens"]
                                            ELSE Reviews!NoRender]
      /\ detail = [r \in Reviews!Renders |-> Reviews!NoDetail]
      /\ saves = {} /\ stored = [s \in Surveys |-> {}]
  BY DEF Reviews!Init
<1>5. Reviews!TypeOK
  BY <1>2, <1>3, <1>4 DEF Reviews!TypeOK, ReviewRender, Detail
<1>6. Reviews!PageIsCoherent
  BY <1>2, <1>3, <1>4 DEF Reviews!PageIsCoherent, Reviews!DrawnIsOfThePage, Reviews!AnswersMatchTheirSurvey
<1> QED BY <1>4, <1>5, <1>6 DEF ReviewsInv

(* The page may be moved when everything is drawn anew.                    *)
LEMMA RenderedKept ==
  ASSUME ReviewsInv, Reviews!Rendered, saves' \subseteq saves,
         page' \in [project : Projects \cup {None}, url : Projects \cup {None}, tab : Reviews!Tabs,
                    selected : Surveys \cup {None}, loaded : BOOLEAN, admin : BOOLEAN],
         page'.url = page'.project,
         stored' \in [Surveys -> SUBSET Surveys], \A s \in Surveys : stored'[s] \subseteq {s}
  PROVE  ReviewsInv'
<1> DEFINE n == Reviews!Cardinality(Reviews!Started) + 1
<1>1. /\ render' = [r \in Reviews!Renders |->
                      IF r = n THEN [Reviews!NoRender EXCEPT !.at = "omnipotens"]
                      ELSE [render[r] EXCEPT !.drawn = FALSE]]
      /\ detail' = [r \in Reviews!Renders |-> Reviews!NoDetail]
  BY DEF Reviews!Rendered
<1> HIDE DEF n
<1>2. \A r \in Reviews!Renders : render[r] \in ReviewRender
  BY DEF ReviewsInv, Reviews!TypeOK, ReviewRender
<1>3. /\ [Reviews!NoRender EXCEPT !.at = "omnipotens"] \in ReviewRender
      /\ ~[Reviews!NoRender EXCEPT !.at = "omnipotens"].drawn /\ Reviews!NoDetail \in Detail
  BY DEF Reviews!NoRender, Reviews!NoDetail, ReviewRender, Detail
<1>4. \A x \in ReviewRender : [x EXCEPT !.drawn = FALSE] \in ReviewRender /\ ~[x EXCEPT !.drawn = FALSE].drawn
  BY DEF ReviewRender
<1>5. \A r \in Reviews!Renders : render'[r] \in ReviewRender /\ ~render'[r].drawn
  BY <1>1, <1>2, <1>3, <1>4
<1>6. Reviews!TypeOK'
  <2>1. render' \in [Reviews!Renders -> ReviewRender]
    BY <1>1, <1>5
  <2>2. detail' \in [Reviews!Renders -> Detail]
    BY <1>1, <1>3
  <2> QED BY <2>1, <2>2 DEF ReviewsInv, Reviews!TypeOK, ReviewRender, Detail
<1>7. Reviews!PageIsCoherent'
  BY <1>5 DEF Reviews!PageIsCoherent, Reviews!DrawnIsOfThePage, Reviews!AnswersMatchTheirSurvey
<1> QED BY <1>6, <1>7 DEF ReviewsInv

(* A rendering goes on: it may draw for the page as it is.                 *)
LEMMA RenderKept ==
  ASSUME ReviewsInv, NEW r \in Reviews!Renders, NEW x \in ReviewRender,
         render' = [render EXCEPT ![r] = x],
         x.drawn => \/ x.tab = page.tab /\ x.project = page.project
                    \/ render[r].drawn /\ x.tab = render[r].tab /\ x.project = render[r].project,
         detail' \in [Reviews!Renders -> Detail],
         page' \in [project : Projects \cup {None}, url : Projects \cup {None}, tab : Reviews!Tabs,
                    selected : Surveys \cup {None}, loaded : BOOLEAN, admin : BOOLEAN],
         page'.url = page.url, page'.project = page.project, page'.tab = page.tab,
         UNCHANGED <<saves, stored>>
  PROVE  ReviewsInv'
<1>1. Reviews!TypeOK'
  BY DEF ReviewsInv, Reviews!TypeOK, ReviewRender, Detail
<1>2. \A q \in Reviews!Renders : render'[q] = IF q = r THEN x ELSE render[q]
  BY DEF ReviewsInv, Reviews!TypeOK
<1>3. Reviews!PageIsCoherent'
  BY <1>2 DEF ReviewsInv, Reviews!PageIsCoherent, Reviews!DrawnIsOfThePage, Reviews!AnswersMatchTheirSurvey
<1> QED BY <1>1, <1>3 DEF ReviewsInv

(* The details, and the answers on their way.                              *)
LEMMA DetailKept ==
  ASSUME ReviewsInv, UNCHANGED render, detail' \in [Reviews!Renders -> Detail],
         page' \in [project : Projects \cup {None}, url : Projects \cup {None}, tab : Reviews!Tabs,
                    selected : Surveys \cup {None}, loaded : BOOLEAN, admin : BOOLEAN],
         page'.url = page.url, page'.project = page.project, page'.tab = page.tab,
         saves' \subseteq [by : Reviews!Renders, questions : Surveys, survey : Surveys],
         \A a \in saves' : a.survey = a.questions,
         stored' \in [Surveys -> SUBSET Surveys], \A s \in Surveys : stored'[s] \subseteq {s}
  PROVE  ReviewsInv'
<1>1. Reviews!TypeOK'
  BY DEF ReviewsInv, Reviews!TypeOK, Detail
<1>2. Reviews!PageIsCoherent'
  BY DEF ReviewsInv, Reviews!PageIsCoherent, Reviews!DrawnIsOfThePage, Reviews!AnswersMatchTheirSurvey
<1> QED BY <1>1, <1>2 DEF ReviewsInv

LEMMA ReviewsTyped ==
  ASSUME ReviewsInv
  PROVE  /\ page \in [project : Projects \cup {None}, url : Projects \cup {None}, tab : Reviews!Tabs,
                     selected : Surveys \cup {None}, loaded : BOOLEAN, admin : BOOLEAN]
         /\ page.url = page.project
         /\ render \in [Reviews!Renders -> ReviewRender] /\ detail \in [Reviews!Renders -> Detail]
         /\ saves \subseteq [by : Reviews!Renders, questions : Surveys, survey : Surveys]
         /\ \A a \in saves : a.survey = a.questions
         /\ stored \in [Surveys -> SUBSET Surveys] /\ \A s \in Surveys : stored[s] \subseteq {s}
BY DEF ReviewsInv, Reviews!TypeOK, ReviewRender, Detail, Reviews!PageIsCoherent, Reviews!DrawnIsOfThePage,
       Reviews!AnswersMatchTheirSurvey

LEMMA ReviewsStep == ASSUME ReviewsInv, [Reviews!Next]_reviewVars PROVE ReviewsInv'
<1> USE ReviewsTyped
<1>0. CASE UNCHANGED reviewVars
  BY <1>0, DetailKept DEF reviewVars
<1>1. ASSUME NEW r \in Reviews!Renders, NEW at \in {"games", "admin", "done"}, render' = Reviews!Waits(r, at),
             detail' \in [Reviews!Renders -> Detail],
             page' = page \/ page' = [page EXCEPT !.loaded = TRUE], UNCHANGED <<saves, stored>>
      PROVE  ReviewsInv'
  <2> DEFINE x == [render[r] EXCEPT !.at = at]
  <2>1. /\ x \in ReviewRender /\ x.drawn = render[r].drawn /\ x.tab = render[r].tab
        /\ x.project = render[r].project
    BY DEF ReviewRender
  <2>2. render' = [render EXCEPT ![r] = x]
    BY <1>1 DEF Reviews!Waits
  <2>3. /\ page' \in [project : Projects \cup {None}, url : Projects \cup {None}, tab : Reviews!Tabs,
                       selected : Surveys \cup {None}, loaded : BOOLEAN, admin : BOOLEAN]
        /\ page'.url = page.url /\ page'.project = page.project /\ page'.tab = page.tab
    BY <1>1
  <2> HIDE DEF x
  <2> QED BY <1>1, <2>1, <2>2, <2>3, RenderKept
<1>2. ASSUME NEW r \in Reviews!Renders, render' = Reviews!Draw(r), UNCHANGED <<detail, saves, stored>>,
             page' = page \/ page' = [page EXCEPT !.loaded = TRUE]
      PROVE  ReviewsInv'
  <2> DEFINE x == [at |-> IF page.tab \in Categories THEN "list" ELSE "done", drawn |-> TRUE,
                   tab |-> page.tab, project |-> page.project]
  <2>1. /\ x \in ReviewRender /\ x.tab = page.tab /\ x.project = page.project
    BY DEF ReviewRender
  <2>2. render' = [render EXCEPT ![r] = x]
    BY <1>2 DEF Reviews!Draw
  <2>3. /\ page' \in [project : Projects \cup {None}, url : Projects \cup {None}, tab : Reviews!Tabs,
                       selected : Surveys \cup {None}, loaded : BOOLEAN, admin : BOOLEAN]
        /\ page'.url = page.url /\ page'.project = page.project /\ page'.tab = page.tab
    BY <1>2
  <2> HIDE DEF x
  <2> QED BY <1>2, <2>1, <2>2, <2>3, RenderKept
<1>3. ASSUME NEW r \in Reviews!Renders,
             Reviews!OmnipotensDrawn(r) \/ Reviews!GamesLoaded(r) \/ Reviews!AdminDrawn(r)
      PROVE  ReviewsInv'
  <2>1. UNCHANGED <<detail, saves, stored>> /\ (page' = page \/ page' = [page EXCEPT !.loaded = TRUE])
    BY <1>3 DEF Reviews!OmnipotensDrawn, Reviews!GamesLoaded, Reviews!AdminDrawn
  <2>2. render' \in {Reviews!Waits(r, "games"), Reviews!Waits(r, "admin"), Reviews!Draw(r)}
    BY <1>3 DEF Reviews!OmnipotensDrawn, Reviews!GamesLoaded, Reviews!AdminDrawn
  <2> QED BY <2>1, <2>2, <1>1, <1>2
<1>4. ASSUME NEW r \in Reviews!Renders, Reviews!ListDrawn(r)
      PROVE  ReviewsInv'
  <2>1. Reviews!NoDetail \in Detail
    BY DEF Reviews!NoDetail, Detail
  <2>2. [Reviews!NoDetail EXCEPT !.asked = @ \cup {page.selected}] \in Detail \/ page.selected = None
    BY <2>1 DEF Detail
  <2>3. detail' \in [Reviews!Renders -> Detail]
    BY <1>4, <2>2 DEF Reviews!ListDrawn
  <2> QED BY <1>4, <2>3, <1>1 DEF Reviews!ListDrawn
<1>5. CASE Reviews!Refresh
  BY <1>5, RenderedKept DEF Reviews!Refresh
<1>6. ASSUME NEW r \in Reviews!Renders, NEW t \in Reviews!Tabs, Reviews!TabClick(r, t)
      PROVE  ReviewsInv'
  <2>1. /\ page' \in [project : Projects \cup {None}, url : Projects \cup {None}, tab : Reviews!Tabs,
                       selected : Surveys \cup {None}, loaded : BOOLEAN, admin : BOOLEAN]
        /\ page'.url = page'.project
    BY <1>6 DEF Reviews!TabClick
  <2> QED BY <1>6, <2>1, RenderedKept DEF Reviews!TabClick
<1>7. ASSUME NEW r \in Reviews!Renders, Reviews!FilterCleared(r)
      PROVE  ReviewsInv'
  <2>1. /\ page' \in [project : Projects \cup {None}, url : Projects \cup {None}, tab : Reviews!Tabs,
                       selected : Surveys \cup {None}, loaded : BOOLEAN, admin : BOOLEAN]
        /\ page'.url = page'.project
    BY <1>7 DEF Reviews!FilterCleared
  <2> QED BY <1>7, <2>1, RenderedKept DEF Reviews!FilterCleared
<1>8. CASE Reviews!GameChanged
  <2>1. /\ page' \in [project : Projects \cup {None}, url : Projects \cup {None}, tab : Reviews!Tabs,
                       selected : Surveys \cup {None}, loaded : BOOLEAN, admin : BOOLEAN]
        /\ page'.url = page'.project
    BY <1>8 DEF Reviews!GameChanged
  <2> QED BY <1>8, <2>1, RenderedKept DEF Reviews!GameChanged
<1>9. ASSUME NEW r \in Reviews!Renders, NEW s \in Surveys, Reviews!Select(r, s)
      PROVE  ReviewsInv'
  <2>1. /\ page' \in [project : Projects \cup {None}, url : Projects \cup {None}, tab : Reviews!Tabs,
                       selected : Surveys \cup {None}, loaded : BOOLEAN, admin : BOOLEAN]
        /\ page'.url = page.url /\ page'.project = page.project /\ page'.tab = page.tab
    BY <1>9 DEF Reviews!Select
  <2>2. detail' \in [Reviews!Renders -> Detail]
    BY <1>9 DEF Reviews!Select, Detail
  <2> QED BY <1>9, <2>1, <2>2, DetailKept DEF Reviews!Select
<1>10. ASSUME NEW r \in Reviews!Renders, NEW s \in Surveys, Reviews!DetailDrawn(r, s)
       PROVE  ReviewsInv'
  <2>1. detail' \in [Reviews!Renders -> Detail]
    BY <1>10 DEF Reviews!DetailDrawn, Detail
  <2> QED BY <1>10, <2>1, DetailKept DEF Reviews!DetailDrawn
<1>11. ASSUME NEW r \in Reviews!Renders, Reviews!Save(r)
       PROVE  ReviewsInv'
  <2>1. detail[r].form \in Surveys /\ detail' \in [Reviews!Renders -> Detail]
    BY <1>11 DEF Reviews!Save, Detail
  <2>2. /\ saves' \subseteq [by : Reviews!Renders, questions : Surveys, survey : Surveys]
        /\ \A a \in saves' : a.survey = a.questions
    BY <1>11, <2>1 DEF Reviews!Save
  <2> QED BY <1>11, <2>1, <2>2, DetailKept DEF Reviews!Save
<1>12. ASSUME NEW a \in saves, Reviews!Saved(a)
       PROVE  ReviewsInv'
  <2>1. a.survey \in Surveys /\ a.questions = a.survey /\ saves' \subseteq saves /\ UNCHANGED page
    BY <1>12 DEF Reviews!Saved
  <2>2. stored' = stored \/ stored' = [stored EXCEPT ![a.survey] = @ \cup {a.questions}]
    BY <1>12 DEF Reviews!Saved
  <2>3. stored' \in [Surveys -> SUBSET Surveys] /\ \A s \in Surveys : stored'[s] \subseteq {s}
    BY <2>1, <2>2
  <2>4. CASE Reviews!Rendered
    BY <2>1, <2>3, <2>4, RenderedKept
  <2>5. CASE /\ detail' = [detail EXCEPT ![a.by].busy = IF detail[a.by].form = a.questions THEN FALSE ELSE @]
             /\ UNCHANGED render
    <3> DEFINE busy == IF detail[a.by].form = a.questions THEN FALSE ELSE detail[a.by].busy
    <3>0. a.by \in Reviews!Renders /\ detail[a.by] \in Detail /\ busy \in BOOLEAN
      BY DEF Detail
    <3>2. detail' = [detail EXCEPT ![a.by] = [detail[a.by] EXCEPT !.busy = busy]]
      BY <2>5
    <3>3. [detail[a.by] EXCEPT !.busy = busy] \in Detail
      BY <3>0 DEF Detail
    <3>1. detail' \in [Reviews!Renders -> Detail]
      BY <3>0, <3>2, <3>3
    <3> QED BY <2>1, <2>3, <2>5, <3>1, DetailKept
  <2> QED BY <1>12, <2>4, <2>5 DEF Reviews!Saved
<1> QED BY <1>0, <1>3, <1>4, <1>5, <1>6, <1>7, <1>8, <1>9, <1>10, <1>11, <1>12 DEF Reviews!Next

-----------------------------------------------------------------------------
(* A review from the form to what follows it (ReviewForm).                 *)

Covers(n) == \A r \in Form!Listed : r <= n

(* The loads of the list are numbered, no more than one for each review    *)
(* called published; the last one, once read, has seen them.               *)
LoadsFollowReviews ==
  \E n \in Form!Loads :
    /\ n = 1 \/ \E r \in Form!Listed : n <= r + 1
    /\ \A l \in Form!Loads : load[l].at # "none" <=> l <= n
    /\ load[n].at = "read" => Covers(load[n].saw)

(* A consent that was used is not there any more.                          *)
ConsentsAreUsed ==
  \A r \in Form!Reviews :
    analysis[r].posts + (IF analysis[r].tick THEN 1 ELSE 0) <= analysis[r].ticks

FormInv ==
  /\ Form!TypeOK /\ LoadsFollowReviews /\ ConsentsAreUsed
  /\ Form!ListHoldsThePublished /\ Form!NewestIsFollowed
  /\ form = "sent" => reviews < MaxPosts
  /\ form \in {"stored", "reading"} => reviews > 0 /\ \A r \in Form!Listed : r < reviews
  /\ form = "reading" => reviews \in told
  /\ \A r \in Form!Reviews : box[r].at \in {"question", "sending"} => box[r].left > 0

Load == [at : {"none", "asked", "read", "done"}, saw : 0..MaxPosts]
Questions == [at : {"none", "asking", "question", "sending", "over"}, left : 0..MaxQuestions]
Consent == [at : {"none", "asking", "shown"}, complete : BOOLEAN, tick : BOOLEAN,
            ticks : 0..MaxTicks, posts : Nat, flight : Nat]

LEMMA FormTyped ==
  ASSUME FormInv
  PROVE  /\ MaxPosts \in Nat /\ MaxQuestions \in Nat /\ MaxTicks \in Nat
         /\ form \in {"idle", "sent", "stored", "reading"} /\ reviews \in 0..MaxPosts
         /\ relay \subseteq 1..reviews /\ told \subseteq 1..reviews /\ Form!Listed \subseteq 1..reviews
         /\ load \in [Form!Loads -> Load] /\ feed \in 0..Form!Failed
         /\ follow \in 0..reviews /\ box \in [Form!Reviews -> Questions]
         /\ analysis \in [Form!Reviews -> Consent]
BY ReviewsAreExplored DEF Form!FormAssumption, FormInv, Form!TypeOK, Form!Listed, Load, Questions, Consent

LEMMA FormBegins == Form!Init => FormInv
<1> SUFFICES ASSUME Form!Init PROVE FormInv
  OBVIOUS
<1>1. MaxPosts \in Nat /\ MaxPosts > 0 /\ MaxTicks \in Nat /\ MaxQuestions \in Nat
  BY ReviewsAreExplored DEF Form!FormAssumption
<1>2. /\ form = "idle" /\ reviews = 0 /\ relay = {} /\ told = {} /\ feed = Form!Loading /\ follow = 0
      /\ load = [l \in Form!Loads |-> [at |-> IF l = 1 THEN "asked" ELSE "none", saw |-> 0]]
      /\ box = [r \in Form!Reviews |-> [at |-> "none", left |-> MaxQuestions]]
      /\ analysis = [r \in Form!Reviews |-> Form!NoAnalysis]
  BY DEF Form!Init
<1>3. Form!NoAnalysis \in Consent /\ ~Form!NoAnalysis.tick /\ Form!NoAnalysis.posts = 0
      /\ Form!NoAnalysis.ticks = 0
  BY <1>1 DEF Form!NoAnalysis, Consent
<1>4. Form!TypeOK
  BY <1>1, <1>2, <1>3 DEF Form!TypeOK, Form!Loads, Form!Reviews, Form!Failed, Form!Loading, Consent
<1>5. LoadsFollowReviews
  <2>1. 1 \in Form!Loads /\ \A l \in Form!Loads : l <= 1 <=> l = 1
    BY <1>1 DEF Form!Loads
  <2> QED BY <1>2, <2>1 DEF LoadsFollowReviews
<1>6. ConsentsAreUsed
  BY <1>2, <1>3 DEF ConsentsAreUsed
<1>7. Form!ListHoldsThePublished /\ Form!NewestIsFollowed
  BY <1>1, <1>2 DEF Form!ListHoldsThePublished, Form!NewestIsFollowed, Form!Loading, Form!Listed
<1> QED BY <1>2, <1>4, <1>5, <1>6, <1>7 DEF FormInv

LEMMA LastLoadIs ==
  ASSUME NEW n \in Form!Loads, \A l \in Form!Loads : load[l].at # "none" <=> l <= n, FormInv
  PROVE  Form!LastLoad = n
<1> DEFINE P(l) == load[l].at # "none" /\ \A k \in Form!Loads : k > l => load[k].at = "none"
<1>0. Form!Loads \subseteq Nat
  BY FormTyped DEF Form!Loads
<1>1. P(n) /\ \A l \in Form!Loads : P(l) => l = n
  BY <1>0
<1>2. (CHOOSE l \in Form!Loads : P(l)) = n
  BY <1>1
<1> QED BY <1>2 DEF Form!LastLoad

(* Only the boxes of questions change.                                     *)
LEMMA BoxKept ==
  ASSUME FormInv, UNCHANGED <<form, reviews, relay, told, load, feed, follow>>,
         NEW r \in Form!Reviews, NEW b \in Questions, box' = [box EXCEPT ![r] = b],
         box[r].at # "none", b.at \in {"question", "sending"} => b.left > 0,
         analysis' = analysis \/ analysis' = [analysis EXCEPT ![r].at = "asking"]
  PROVE  FormInv'
<1> USE FormTyped
<1>1. \A q \in Form!Reviews : box'[q] = IF q = r THEN b ELSE box[q]
  OBVIOUS
<1>2. analysis' \in [Form!Reviews -> Consent]
  BY DEF Consent
<1>3. \A q \in Form!Reviews : /\ analysis'[q].posts = analysis[q].posts
                            /\ analysis'[q].ticks = analysis[q].ticks /\ analysis'[q].tick = analysis[q].tick
  BY DEF Consent
<1>4. Form!TypeOK'
  BY <1>2 DEF FormInv, Form!TypeOK, Consent, Questions
<1>5. LoadsFollowReviews' /\ ConsentsAreUsed'
  BY <1>3 DEF FormInv, LoadsFollowReviews, ConsentsAreUsed, Covers, Form!Listed
<1>6. Form!ListHoldsThePublished' /\ Form!NewestIsFollowed'
  BY <1>1 DEF FormInv, Form!ListHoldsThePublished, Form!NewestIsFollowed, Form!Listed
<1> QED BY <1>1, <1>4, <1>5, <1>6 DEF FormInv, Form!Listed

LEMMA ConsentKept ==
  ASSUME FormInv, UNCHANGED <<form, reviews, relay, told, load, feed, follow, box>>,
         NEW r \in Form!Reviews, NEW a \in Consent, analysis' = [analysis EXCEPT ![r] = a],
         a.posts + (IF a.tick THEN 1 ELSE 0) <= a.ticks
  PROVE  FormInv'
<1> USE FormTyped
<1>1. \A q \in Form!Reviews : analysis'[q] = IF q = r THEN a ELSE analysis[q]
  OBVIOUS
<1>2. Form!TypeOK'
  BY DEF FormInv, Form!TypeOK, Consent
<1>3. LoadsFollowReviews' /\ Form!ListHoldsThePublished' /\ Form!NewestIsFollowed'
  BY DEF FormInv, LoadsFollowReviews, Form!ListHoldsThePublished, Form!NewestIsFollowed, Covers, Form!Listed
<1>4. ConsentsAreUsed'
  BY <1>1 DEF FormInv, ConsentsAreUsed
<1> QED BY <1>2, <1>3, <1>4 DEF FormInv, Form!Listed

(* A load is read, or ends; the list shows the last one only.              *)
LEMMA LoadKept ==
  ASSUME FormInv, UNCHANGED <<form, reviews, relay, told, follow, box, analysis>>,
         NEW l \in Form!Loads, NEW x \in Load, load' = [load EXCEPT ![l] = x],
         load[l].at # "none", x.at # "none", x.at = "read" => Covers(x.saw),
         feed' \in 0..Form!Failed, feed' <= MaxPosts => Covers(feed')
  PROVE  FormInv'
<1> USE FormTyped
<1>1. \A k \in Form!Loads : load'[k] = IF k = l THEN x ELSE load[k]
  OBVIOUS
<1>2. Form!TypeOK'
  BY DEF FormInv, Form!TypeOK, Load
<1>s. Form!Listed' = Form!Listed
  BY DEF Form!Listed
<1>3. LoadsFollowReviews'
  BY <1>1, <1>s DEF FormInv, LoadsFollowReviews, Covers
<1>4. ConsentsAreUsed' /\ Form!ListHoldsThePublished' /\ Form!NewestIsFollowed'
  BY <1>s DEF FormInv, ConsentsAreUsed, Form!ListHoldsThePublished, Form!NewestIsFollowed, Covers
<1> QED BY <1>2, <1>3, <1>4, <1>s DEF FormInv

LEMMA ShownConsent ==
  ASSUME NEW a \in Consent, NEW complete \in BOOLEAN
  PROVE  /\ Form!Shown(a, complete) \in Consent /\ ~Form!Shown(a, complete).tick
         /\ Form!Shown(a, complete).posts = a.posts /\ Form!Shown(a, complete).ticks = a.ticks
         /\ Form!Shown(a, complete).flight = a.flight
BY DEF Form!Shown, Consent

(* The form itself: a review is stored, or the list is asked for again.    *)
LEMMA SubmittedKept == ASSUME FormInv, Form!Submitted PROVE FormInv'
<1> USE FormTyped
<1>1. /\ form = "reading" /\ form' = "idle" /\ reviews \in told
      /\ load' = [load EXCEPT ![Form!LastLoad + 1].at = "asked"] /\ feed' = Form!Loading
      /\ UNCHANGED <<reviews, relay, told, analysis>>
      /\ \/ follow' = reviews /\ box' = [box EXCEPT ![reviews].at = "asking"]
         \/ UNCHANGED <<follow, box>>
  BY DEF Form!Submitted, FormInv
<1>2. PICK n \in Form!Loads : n <= reviews /\ \A l \in Form!Loads : load[l].at # "none" <=> l <= n
  <2>1. \A r \in Form!Listed : r < reviews
    BY <1>1 DEF FormInv
  <2>2. PICK n \in Form!Loads : /\ n = 1 \/ \E r \in Form!Listed : n <= r + 1
                               /\ \A l \in Form!Loads : load[l].at # "none" <=> l <= n
    BY DEF FormInv, LoadsFollowReviews
  <2>3. n \in Nat /\ reviews \in 1..MaxPosts
    BY <1>1 DEF Form!Loads
  <2>4. n <= reviews
    BY <2>1, <2>2, <2>3
  <2> QED BY <2>2, <2>4
<1>3. n + 1 \in Form!Loads /\ n \in Nat /\ Form!LastLoad = n
  BY <1>1, <1>2, LastLoadIs DEF Form!Loads
<1>t. Form!Listed' = told
  BY <1>1 DEF Form!Listed
<1>4. \A l \in Form!Loads : load'[l] = IF l = n + 1 THEN [load[l] EXCEPT !.at = "asked"] ELSE load[l]
  BY <1>1, <1>3
<1>5. load' \in [Form!Loads -> Load]
  BY <1>1, <1>3 DEF Load
<1>6. LoadsFollowReviews'
  <2>1. load'[n + 1].at = "asked" /\ n + 1 <= reviews + 1 /\ reviews \in Form!Listed'
    BY <1>1, <1>2, <1>3, <1>4, <1>t DEF Load
  <2>2. \A l \in Form!Loads : load'[l].at # "none" <=> l <= n + 1
    <3>1. \A l \in Form!Loads : l \in Nat
      BY DEF Form!Loads
    <3>2. \A l \in Form!Loads : l # n + 1 => (l <= n + 1 <=> l <= n)
      BY <1>3, <3>1
    <3>3. ASSUME NEW l \in Form!Loads, l # n + 1 PROVE load'[l].at # "none" <=> l <= n + 1
      BY ONLY <3>3, <1>2, <1>4, <3>2
    <3> QED BY <1>3, <2>1, <3>1, <3>3
  <2> QED BY <1>3, <2>1, <2>2 DEF LoadsFollowReviews
<1>7. reviews \in Form!Reviews
  BY <1>1 DEF Form!Reviews
<1>8. /\ box' \in [Form!Reviews -> Questions] /\ follow' \in 0..reviews
      /\ \A q \in Form!Reviews : box'[q].at # "none" => q <= follow'
      /\ \A q \in Form!Reviews : box'[q].at \in {"question", "sending"} => box'[q].left > 0
  <2>1. CASE UNCHANGED <<follow, box>>
    BY <2>1 DEF FormInv, Form!NewestIsFollowed
  <2>2. CASE follow' = reviews /\ box' = [box EXCEPT ![reviews].at = "asking"]
    <3>1. box' \in [Form!Reviews -> Questions]
      BY <1>7, <2>2 DEF Questions
    <3>2. \A q \in Form!Reviews : q # reviews => box'[q] = box[q]
      BY <2>2
    <3>3. box'[reviews].at = "asking" /\ follow <= reviews
      BY <1>7, <2>2 DEF Questions
    <3>4. \A q \in Form!Reviews : q \in Nat
      BY DEF Form!Reviews
    <3> QED BY <2>2, <3>1, <3>2, <3>3, <3>4 DEF FormInv, Form!NewestIsFollowed
  <2> QED BY <1>1, <2>1, <2>2
<1>9. Form!TypeOK'
  BY <1>1, <1>5, <1>8 DEF Form!TypeOK, Load, Questions, Consent, Form!Loading, Form!Failed
<1>10. ConsentsAreUsed' /\ Form!ListHoldsThePublished' /\ Form!NewestIsFollowed'
  BY <1>1, <1>8 DEF FormInv, ConsentsAreUsed, Form!ListHoldsThePublished, Form!NewestIsFollowed, Form!Loading
<1> QED BY <1>1, <1>6, <1>8, <1>9, <1>10 DEF FormInv

LEMMA FormStep == ASSUME FormInv, [Form!Next]_formVars PROVE FormInv'
<1> USE FormTyped
<1>0. CASE UNCHANGED formVars
  BY <1>0 DEF formVars, FormInv, Form!TypeOK, LoadsFollowReviews, ConsentsAreUsed,
     Form!ListHoldsThePublished, Form!NewestIsFollowed, Covers, Form!Listed
<1>1. CASE Form!Submit \/ Form!SubmitFails
  <2>1. /\ form' \in {"idle", "sent"} /\ (form' = "sent" => reviews < MaxPosts)
        /\ UNCHANGED <<reviews, relay, told, load, feed, follow, box, analysis>>
        /\ form # "reading"
    BY <1>1 DEF Form!Submit, Form!SubmitFails
  <2>2. Form!TypeOK' /\ Form!Listed' = Form!Listed
    BY <2>1 DEF Form!TypeOK, Form!Listed, Load, Questions, Consent
  <2> QED BY <2>1, <2>2 DEF FormInv, LoadsFollowReviews, ConsentsAreUsed, Covers,
             Form!ListHoldsThePublished, Form!NewestIsFollowed
<1>a. CASE Form!Announced
  <2>1. /\ form = "stored" /\ form' = "reading" /\ told' = told \cup {reviews}
        /\ UNCHANGED <<reviews, relay, load, feed, follow, box, analysis>>
        /\ reviews > 0 /\ \A r \in Form!Listed : r < reviews
    BY <1>a DEF Form!Announced, FormInv
  <2>2. Form!Listed' = Form!Listed
    BY <2>1 DEF Form!Listed
  <2>3. reviews \in 1..reviews
    BY <2>1
  <2>4. Form!TypeOK'
    BY <2>1, <2>3 DEF Form!TypeOK, Load, Questions, Consent
  <2> QED BY <2>1, <2>2, <2>4 DEF FormInv, LoadsFollowReviews, ConsentsAreUsed, Covers,
             Form!ListHoldsThePublished, Form!NewestIsFollowed
<1>2. CASE Form!Store
  <2>1. reviews < MaxPosts /\ reviews' = reviews + 1 /\ reviews' \in 0..MaxPosts /\ relay' \subseteq 1..reviews'
        /\ UNCHANGED <<told, load, feed, follow, box, analysis>> /\ form = "sent" /\ form' = "stored"
    BY <1>2 DEF Form!Store, FormInv
  <2>2. Form!TypeOK' /\ Form!Listed' = Form!Listed /\ \A r \in Form!Listed : r < reviews'
    BY <2>1 DEF Form!TypeOK, Form!Listed, Load, Questions, Consent
  <2> QED BY <2>1, <2>2 DEF FormInv, LoadsFollowReviews, ConsentsAreUsed, Covers,
             Form!ListHoldsThePublished, Form!NewestIsFollowed
<1>3. ASSUME NEW l \in Form!Loads, Form!ListRead(l) \/ Form!ListDrawn(l) \/ Form!ListFails(l)
      PROVE  FormInv'
  <2>1. load[l] \in Load /\ load[l].at \in {"asked", "read"}
        /\ UNCHANGED <<form, reviews, relay, told, follow, box, analysis>>
    BY <1>3 DEF Form!ListRead, Form!ListDrawn, Form!ListFails
  <2>2. CASE Form!ListRead(l)
    <3> DEFINE x == [at |-> "read", saw |-> reviews]
    <3>1. x \in Load /\ x.at = "read" /\ Covers(x.saw)
      BY DEF Load, Covers
    <3>2. load' = [load EXCEPT ![l] = x] /\ UNCHANGED feed
      BY <2>2 DEF Form!ListRead
    <3>3. feed' \in 0..Form!Failed /\ (feed' <= MaxPosts => Covers(feed'))
      BY <3>2 DEF FormInv, Form!ListHoldsThePublished, Covers
    <3> HIDE DEF x
    <3> QED BY <2>1, <3>1, <3>2, <3>3, LoadKept
  <2>3. CASE Form!ListDrawn(l) \/ Form!ListFails(l)
    <3> DEFINE x == [load[l] EXCEPT !.at = "done"]
    <3>1. x \in Load /\ x.at = "done" /\ load' = [load EXCEPT ![l] = x]
      BY <2>1, <2>3 DEF Load, Form!ListDrawn, Form!ListFails
    <3>2. feed' \in 0..Form!Failed /\ (feed' <= MaxPosts => Covers(feed'))
      <4>1. feed \in 0..Form!Failed /\ (feed <= MaxPosts => Covers(feed))
        BY DEF FormInv, Form!ListHoldsThePublished, Covers
      <4>2. l = Form!LastLoad /\ load[l].at = "read" => Covers(load[l].saw)
        BY LastLoadIs DEF FormInv, LoadsFollowReviews
      <4>3. load[l].saw \in 0..MaxPosts /\ Form!Failed = MaxPosts + 2
        BY <2>1 DEF Load, Form!Failed
      <4> QED BY <2>3, <4>1, <4>2, <4>3 DEF Form!ListDrawn, Form!ListFails
    <3> HIDE DEF x
    <3> QED BY <2>1, <3>1, <3>2, LoadKept
  <2> QED BY <1>3, <2>2, <2>3
<1>4. ASSUME NEW r \in Form!Reviews, NEW left \in 0..MaxQuestions, Form!Asked(r, left), box[r].at # "none",
             UNCHANGED <<form, reviews, relay, told, load, feed>>
      PROVE  FormInv'
  <2>1. [at |-> "question", left |-> left] \in Questions /\ [at |-> "over", left |-> 0] \in Questions
    BY DEF Questions
  <2> QED BY <1>4, <2>1, BoxKept DEF Form!Asked
<1>5. ASSUME NEW r \in Form!Reviews, NEW at \in {"question", "sending", "over"}, box[r].at # "none",
             box' = [box EXCEPT ![r].at = at], at # "over" => box[r].left > 0,
             UNCHANGED <<form, reviews, relay, told, load, feed, follow, analysis>>
      PROVE  FormInv'
  <2> DEFINE b == [box[r] EXCEPT !.at = at]
  <2>1. b \in Questions /\ b.at = at /\ b.left = box[r].left /\ box' = [box EXCEPT ![r] = b]
    BY <1>5 DEF Questions
  <2> HIDE DEF b
  <2> QED BY <1>5, <2>1, BoxKept
<1>6. ASSUME NEW r \in Form!Reviews,
             Form!QuestionArrives(r) \/ Form!Answer(r) \/ Form!AnswerReturns(r)
      PROVE  FormInv'
  <2>1. box[r] \in Questions /\ box[r].left \in 0..MaxQuestions
        /\ (box[r].at \in {"question", "sending"} => box[r].left > 0)
    BY DEF FormInv, Questions
  <2>2. CASE Form!QuestionArrives(r)
    BY <2>1, <2>2, <1>4, <1>5 DEF Form!QuestionArrives
  <2>3. CASE Form!Answer(r)
    BY <2>1, <2>3, <1>5 DEF Form!Answer
  <2>4. CASE Form!AnswerReturns(r)
    <3>1. box[r].left - 1 \in 0..MaxQuestions /\ box[r].at = "sending"
      BY <2>1, <2>4 DEF Form!AnswerReturns
    <3> QED BY <2>1, <2>4, <3>1, <1>4, <1>5 DEF Form!AnswerReturns
  <2> QED BY <1>6, <2>2, <2>3, <2>4
<1>7. ASSUME NEW r \in Form!Reviews,
             Form!AnalysisLoaded(r) \/ Form!Tick(r) \/ Form!Analyse(r) \/ Form!Analysed(r)
      PROVE  FormInv'
  <2>1. /\ analysis[r] \in Consent /\ analysis[r].posts \in Nat /\ analysis[r].ticks \in Nat
        /\ analysis[r].flight \in Nat
        /\ analysis[r].posts + (IF analysis[r].tick THEN 1 ELSE 0) <= analysis[r].ticks
        /\ UNCHANGED <<form, reviews, relay, told, load, feed, follow, box>>
    BY <1>7 DEF Form!AnalysisLoaded, Form!Tick, Form!Analyse, Form!Analysed, FormInv, ConsentsAreUsed, Consent
  <2>2. ASSUME NEW complete \in BOOLEAN, analysis' = [analysis EXCEPT ![r] = Form!Shown(@, complete)]
        PROVE  FormInv'
    <3>1. analysis' = [analysis EXCEPT ![r] = Form!Shown(analysis[r], complete)]
      BY <2>2
    <3>2. /\ Form!Shown(analysis[r], complete) \in Consent
          /\ ~Form!Shown(analysis[r], complete).tick
          /\ Form!Shown(analysis[r], complete).posts = analysis[r].posts
          /\ Form!Shown(analysis[r], complete).ticks = analysis[r].ticks
      BY <2>1, ShownConsent
    <3> DEFINE s == Form!Shown(analysis[r], complete)
    <3>3. s.posts + (IF s.tick THEN 1 ELSE 0) <= s.ticks
      BY <2>1, <3>2
    <3> HIDE DEF s
    <3> QED BY <2>1, <3>1, <3>2, <3>3, ConsentKept DEF s
  <2>3. CASE Form!Tick(r)
    <3> DEFINE n == analysis[r].ticks + 1
               a == [analysis[r] EXCEPT !.tick = TRUE, !.ticks = n]
    <3>1. ~analysis[r].tick /\ analysis[r].ticks < MaxTicks
          /\ analysis' = [analysis EXCEPT ![r].tick = TRUE, ![r].ticks = @ + 1]
      BY <2>3 DEF Form!Tick, Form!Offered
    <3>2. analysis' = [analysis EXCEPT ![r] = a]
      BY <2>1, <3>1
    <3>3. n \in 0..MaxTicks /\ n = analysis[r].ticks + 1
      BY <2>1, <3>1
    <3> HIDE DEF n
    <3>4. a \in Consent /\ a.tick /\ a.ticks = n /\ a.posts = analysis[r].posts
      BY <2>1, <3>3 DEF Consent
    <3> HIDE DEF a
    <3>5. a.posts + (IF a.tick THEN 1 ELSE 0) <= a.ticks
      BY <2>1, <3>1, <3>3, <3>4
    <3> QED BY <2>1, <3>2, <3>4, <3>5, ConsentKept
  <2>4. CASE Form!Analyse(r)
    <3> DEFINE s == Form!Shown(analysis[r], FALSE)
               n == s.posts + 1
               f == s.flight + 1
               a == [s EXCEPT !.posts = n, !.flight = f]
    <3>1. s \in Consent /\ ~s.tick /\ s.posts = analysis[r].posts /\ s.ticks = analysis[r].ticks
      BY <2>1, ShownConsent
    <3>2. analysis' = [analysis EXCEPT ![r] = [Form!Shown(analysis[r], FALSE) EXCEPT !.posts = @ + 1, !.flight = @ + 1]]
          /\ analysis[r].tick
      BY <2>4 DEF Form!Analyse
    <3>3. analysis' = [analysis EXCEPT ![r] = a]
      BY ONLY <3>2
    <3> HIDE DEF s
    <3>4. n \in Nat /\ f \in Nat
      BY <3>1 DEF Consent
    <3> HIDE DEF n, f
    <3>5. a \in Consent /\ ~a.tick /\ a.ticks = s.ticks /\ a.posts = n
      BY <3>1, <3>4 DEF Consent
    <3> HIDE DEF a
    <3>6. a.posts + (IF a.tick THEN 1 ELSE 0) <= a.ticks
      BY <2>1, <3>1, <3>2, <3>5 DEF n
    <3> QED BY <2>1, <3>3, <3>5, <3>6, ConsentKept
  <2>5. CASE Form!Analysed(r)
    <3>1. PICK complete \in BOOLEAN :
            analysis' = [analysis EXCEPT ![r] = [Form!Shown(analysis[r], complete) EXCEPT !.flight = @ - 1]]
      BY <2>5 DEF Form!Analysed
    <3> DEFINE s == Form!Shown(analysis[r], complete)
               a == [s EXCEPT !.flight = s.flight - 1]
    <3>2. /\ s \in Consent /\ ~s.tick /\ s.posts = analysis[r].posts /\ s.ticks = analysis[r].ticks
          /\ s.flight = analysis[r].flight
      BY <2>1, ShownConsent
    <3>3. analysis' = [analysis EXCEPT ![r] = a]
      BY ONLY <3>1
    <3>4. analysis[r].flight > 0
      BY <2>5 DEF Form!Analysed
    <3> HIDE DEF s
    <3>5. a \in Consent /\ ~a.tick /\ a.ticks = s.ticks /\ a.posts = s.posts
      BY <2>1, <3>2, <3>4 DEF Consent
    <3> HIDE DEF a
    <3>6. a.posts + (IF a.tick THEN 1 ELSE 0) <= a.ticks
      BY <2>1, <3>2, <3>5
    <3> QED BY <2>1, <3>5, <3>6, <3>3, ConsentKept
  <2> QED BY <1>7, <2>2, <2>3, <2>4, <2>5 DEF Form!AnalysisLoaded
<1> QED BY <1>0, <1>1, <1>a, <1>2, SubmittedKept, <1>3, <1>6, <1>7 DEF Form!Next

LEMMA FormFollows == FormInv => Form!FollowsFaithfully
<1> SUFFICES ASSUME FormInv PROVE Form!EachAnalysisHadConsent
  BY DEF FormInv, Form!FollowsFaithfully
<1>1. ASSUME NEW r \in Form!Reviews PROVE analysis[r].posts <= analysis[r].ticks
  <2>1. analysis[r].posts \in Nat /\ analysis[r].ticks \in Nat
    BY FormTyped DEF Consent
  <2> QED BY <2>1 DEF FormInv, ConsentsAreUsed
<1> QED BY <1>1 DEF Form!EachAnalysisHadConsent

-----------------------------------------------------------------------------
(* The recorder of the curves (Curves).                                    *)

(* The saves started are the first ones: the next of them is not a save    *)
(* under way (emotion-curve-panel.ts:157-193).                             *)
SavesAreNumbered ==
  \E n \in 0..MaxSaves : \A s \in Curves!Saves : save[s].at # "none" <=> s <= n

(* A record is of a save that was started, which had its video in hand; a   *)
(* save that has come to the evaluation has stored it.                     *)
CurvesInv ==
  /\ Curves!TypeOK /\ SavesAreNumbered /\ Curves!VideoMatchesItsStamps
  /\ \A s \in Curves!Saves :
       /\ record[s].stored => save[s].at # "none"
       /\ save[s].at # "none" => save[s].file # None
       /\ save[s].at = "evaluation" => record[s].video # None

Curve == [at : {"none", "record", "video", "evaluation", "ended"},
          file : Videos \cup {None}, entries : SUBSET Curves!Stamps]
CurveRecord == [stored : BOOLEAN, entries : SUBSET Curves!Stamps,
                video : Videos \cup {None}, evaluated : BOOLEAN]

LEMMA CurvesTyped ==
  ASSUME CurvesInv
  PROVE  /\ file \in Videos \cup {None} /\ enabled \in BOOLEAN
         /\ entries \in [now : SUBSET Curves!Stamps, pressed : 0..MaxStamps]
         /\ save \in [Curves!Saves -> Curve] /\ record \in [Curves!Saves -> CurveRecord]
         /\ history \in [loading : Nat, cards : SUBSET Curves!Saves]
         /\ MaxSaves \in Nat /\ MaxStamps \in Nat /\ None \notin Videos
BY ReviewsAreExplored DEF CurvesInv, Curves!TypeOK, Curve, CurveRecord, Curves!CurvesAssumption

LEMMA CurvesBegin == Curves!Init => CurvesInv
<1> SUFFICES ASSUME Curves!Init PROVE CurvesInv
  OBVIOUS
<1>1. MaxSaves \in Nat /\ MaxStamps \in Nat
  BY ReviewsAreExplored DEF Curves!CurvesAssumption
<1>2. Curves!NoSave \in Curve /\ Curves!NoRecord \in CurveRecord
  BY DEF Curves!NoSave, Curves!NoRecord, Curve, CurveRecord
<1>3. Curves!TypeOK
  <2>1. file \in Videos \cup {None} /\ enabled \in BOOLEAN
        /\ save \in [Curves!Saves -> Curve] /\ record \in [Curves!Saves -> CurveRecord]
    BY <1>2 DEF Curves!Init
  <2>2. entries \in [now : SUBSET Curves!Stamps, pressed : 0..MaxStamps]
    BY <1>1 DEF Curves!Init
  <2>3. history \in [loading : Nat, cards : SUBSET Curves!Saves]
    BY DEF Curves!Init
  <2> QED BY <2>1, <2>2, <2>3 DEF Curves!TypeOK, Curve, CurveRecord
<1>4. \A s \in Curves!Saves : save[s].at = "none" /\ ~record[s].stored
  BY DEF Curves!Init, Curves!NoSave, Curves!NoRecord
<1>5. SavesAreNumbered
  BY <1>1, <1>4 DEF SavesAreNumbered, Curves!Saves
<1> QED BY <1>3, <1>4, <1>5 DEF CurvesInv, Curves!VideoMatchesItsStamps

(* One save moves on, or ends, and its record with it.                     *)
LEMMA CurveKept ==
  ASSUME CurvesInv, NEW s \in Curves!Saves, NEW x \in Curve, NEW y \in CurveRecord,
         save[s].at # "none", x.at # "none", x.file = save[s].file,
         save' = [save EXCEPT ![s] = x], record' = [record EXCEPT ![s] = y],
         y.stored => y.entries = x.entries /\ y.video \in {None, x.file},
         x.at = "evaluation" => y.video # None,
         file' \in Videos \cup {None}, enabled' \in BOOLEAN,
         entries' \in [now : SUBSET Curves!Stamps, pressed : 0..MaxStamps],
         history' \in [loading : Nat, cards : SUBSET Curves!Saves]
  PROVE  CurvesInv'
<1> USE CurvesTyped
<1>1. save' \in [Curves!Saves -> Curve] /\ record' \in [Curves!Saves -> CurveRecord]
  OBVIOUS
<1>2. save'[s] = x /\ record'[s] = y
      /\ \A r \in Curves!Saves : r # s => save'[r] = save[r] /\ record'[r] = record[r]
  OBVIOUS
<1>3. Curves!TypeOK'
  BY <1>1 DEF Curves!TypeOK, Curve, CurveRecord
<1>4. SavesAreNumbered'
  BY <1>2 DEF CurvesInv, SavesAreNumbered
<1>5. Curves!VideoMatchesItsStamps'
  BY <1>2 DEF CurvesInv, Curves!VideoMatchesItsStamps
<1>6. \A r \in Curves!Saves :
        /\ record'[r].stored => save'[r].at # "none"
        /\ save'[r].at # "none" => save'[r].file # None
        /\ save'[r].at = "evaluation" => record'[r].video # None
  BY <1>2 DEF CurvesInv
<1> QED BY <1>3, <1>4, <1>5, <1>6 DEF CurvesInv

(* The recorder alone changes.                                             *)
LEMMA RecorderKept ==
  ASSUME CurvesInv, UNCHANGED <<save, record>>, file' \in Videos \cup {None}, enabled' \in BOOLEAN,
         entries' \in [now : SUBSET Curves!Stamps, pressed : 0..MaxStamps],
         history' \in [loading : Nat, cards : SUBSET Curves!Saves]
  PROVE  CurvesInv'
BY DEF CurvesInv, Curves!TypeOK, SavesAreNumbered, Curves!VideoMatchesItsStamps

(* submit.disabled = false, and the recorder emptied by a whole save.      *)
LEMMA EndedKept ==
  ASSUME CurvesInv, NEW s \in Curves!Saves, NEW ok \in BOOLEAN, NEW y \in CurveRecord,
         Curves!Ended(s, ok), save[s].at # "none", record' = [record EXCEPT ![s] = y],
         y.stored => y.entries = save[s].entries /\ y.video \in {None, save[s].file}
  PROVE  CurvesInv'
<1> USE CurvesTyped
<1> DEFINE x == [save[s] EXCEPT !.at = "ended"]
<1>1. x \in Curve /\ x.at = "ended" /\ x.file = save[s].file /\ x.entries = save[s].entries
  BY DEF Curve
<1>2. save' = [save EXCEPT ![s] = x]
  BY DEF Curves!Ended
<1>3. /\ file' \in Videos \cup {None} /\ enabled' \in BOOLEAN
      /\ entries' \in [now : SUBSET Curves!Stamps, pressed : 0..MaxStamps]
      /\ history' \in [loading : Nat, cards : SUBSET Curves!Saves]
  <2>1. history.loading + 1 \in Nat
    OBVIOUS
  <2>2. CASE ok
    <3>1. /\ entries' = [entries EXCEPT !.now = {}] /\ file' = None /\ enabled' = FALSE
          /\ history' = [loading |-> history.loading + 1, cards |-> {}]
      BY <2>2 DEF Curves!Ended
    <3> QED BY <2>1, <3>1
  <2>3. CASE ~ok
    BY <2>3 DEF Curves!Ended
  <2> QED BY <2>2, <2>3
<1> HIDE DEF x
<1> QED BY <1>1, <1>2, <1>3, CurveKept

(* The next save: the number of those started, and one.                    *)
LEMMA NextSave ==
  ASSUME CurvesInv, Curves!Cardinality(Curves!Storing) < MaxSaves
  PROVE  \E n \in 0..MaxSaves - 1 :
           /\ Curves!Cardinality(Curves!Storing) = n /\ save[n + 1].at = "none"
           /\ \A s \in Curves!Saves : save[s].at # "none" <=> s <= n
<1> USE CurvesTyped
<1>1. PICK n \in 0..MaxSaves : \A s \in Curves!Saves : save[s].at # "none" <=> s <= n
  BY DEF CurvesInv, SavesAreNumbered
<1>2. Curves!Storing = 1..n
  BY <1>1 DEF Curves!Storing, Curves!Saves
<1>3. Cardinality(1..n) = n
  <2>1. Cardinality(1..n) = IF 1 > n THEN 0 ELSE n - 1 + 1
    BY FS_Interval
  <2> QED BY <2>1
<1>4. Curves!Cardinality(Curves!Storing) = n
  <2>1. Curves!Cardinality(1..n) = Cardinality(1..n)
    BY DEF Curves!Cardinality, Cardinality, Curves!IsFiniteSet, IsFiniteSet
  <2> QED BY <1>2, <1>3, <2>1
<1>5. n \in 0..MaxSaves - 1 /\ n + 1 \in Curves!Saves /\ save[n + 1].at = "none"
  BY <1>1, <1>4 DEF Curves!Saves
<1> QED BY <1>1, <1>4, <1>5

LEMMA CurvesStep == ASSUME CurvesInv, [Curves!Next]_curveVars PROVE CurvesInv'
<1> USE CurvesTyped
<1>0. CASE UNCHANGED curveVars
  BY <1>0, RecorderKept DEF curveVars
<1>1. CASE Curves!Choose \/ Curves!Stamp \/ Curves!HistoryDrawn
  <2>1. UNCHANGED <<save, record>>
    BY <1>1 DEF Curves!Choose, Curves!Stamp, Curves!HistoryDrawn
  <2>2. CASE Curves!Choose
    BY <2>1, <2>2, RecorderKept DEF Curves!Choose, Curves!Redrawn
  <2>3. CASE Curves!Stamp
    <3> DEFINE n == entries.pressed + 1
    <3>1. n \in 0..MaxStamps /\ n \in Curves!Stamps
      BY <2>3 DEF Curves!Stamp, Curves!Stamps
    <3>2. entries' = [now |-> entries.now \cup {n}, pressed |-> n]
          /\ enabled' \in BOOLEAN /\ UNCHANGED <<file, history>>
      BY <2>3 DEF Curves!Stamp, Curves!Redrawn
    <3> HIDE DEF n
    <3> QED BY <2>1, <3>1, <3>2, RecorderKept
  <2>4. CASE Curves!HistoryDrawn
    <3>1. history.loading - 1 \in Nat
      BY <2>4 DEF Curves!HistoryDrawn
    <3>2. history' \in [loading : Nat, cards : SUBSET Curves!Saves]
          /\ UNCHANGED <<file, entries, enabled>>
      BY <2>4, <3>1 DEF Curves!HistoryDrawn, Curves!Recorded
    <3> QED BY <2>1, <3>2, RecorderKept
  <2> QED BY <1>1, <2>2, <2>3, <2>4
<1>2. ASSUME NEW e \in Curves!Stamps, Curves!Drop(e)
      PROVE  CurvesInv'
  BY <1>2, RecorderKept DEF Curves!Drop, Curves!Redrawn
<1>3. CASE Curves!Save
  <2>1. PICK n \in 0..MaxSaves - 1 :
           /\ Curves!Cardinality(Curves!Storing) = n /\ save[n + 1].at = "none"
           /\ \A s \in Curves!Saves : save[s].at # "none" <=> s <= n
    BY <1>3, NextSave DEF Curves!Save
  <2> DEFINE x == [at |-> "record", file |-> file, entries |-> entries.now]
  <2>2. /\ save' = [save EXCEPT ![n + 1] = x] /\ enabled' = FALSE /\ file # None
        /\ UNCHANGED <<file, entries, record, history>>
    BY <1>3, <2>1 DEF Curves!Save
  <2>3. x \in Curve /\ x.at = "record" /\ x.file = file
    BY DEF Curve
  <2> HIDE DEF x
  <2>4. n + 1 \in Curves!Saves /\ save' \in [Curves!Saves -> Curve] /\ n + 1 \in 0..MaxSaves
        /\ \A s \in Curves!Saves : save'[s] = IF s = n + 1 THEN x ELSE save[s]
    BY <2>2, <2>3 DEF Curves!Saves
  <2>5. \A s \in Curves!Saves : record'[s].stored => s # n + 1 /\ save'[s] = save[s]
    BY <2>1, <2>2, <2>4 DEF CurvesInv
  <2>6. SavesAreNumbered'
    <3>1. \A s \in Curves!Saves : save'[s].at # "none" <=> s <= n + 1
      BY <2>1, <2>3, <2>4 DEF Curves!Saves
    <3> QED BY <2>4, <3>1 DEF SavesAreNumbered
  <2>7. Curves!TypeOK'
    BY <2>2, <2>4 DEF Curves!TypeOK, Curve, CurveRecord
  <2>8. Curves!VideoMatchesItsStamps'
    BY <2>2, <2>5 DEF CurvesInv, Curves!VideoMatchesItsStamps
  <2>9. \A s \in Curves!Saves :
          /\ record'[s].stored => save'[s].at # "none"
          /\ save'[s].at # "none" => save'[s].file # None
          /\ save'[s].at = "evaluation" => record'[s].video # None
    BY <2>2, <2>3, <2>4, <2>5 DEF CurvesInv
  <2> QED BY <2>6, <2>7, <2>8, <2>9 DEF CurvesInv
<1>4. ASSUME NEW s \in Curves!Saves, Curves!Recording(s)
      PROVE  CurvesInv'
  <2> DEFINE y == [Curves!NoRecord EXCEPT !.stored = TRUE, !.entries = save[s].entries]
             x == [save[s] EXCEPT !.at = "video"]
  <2>1. y \in CurveRecord /\ y.entries = save[s].entries /\ y.video = None
        /\ save[s].at = "record" /\ record[s] \in CurveRecord
    BY <1>4 DEF CurveRecord, Curve, Curves!NoRecord, Curves!Recording
  <2>2. x \in Curve /\ x.at = "video" /\ x.file = save[s].file /\ x.entries = save[s].entries
    BY DEF Curve
  <2>3. \/ /\ record' = [record EXCEPT ![s] = y] /\ save' = [save EXCEPT ![s] = x]
           /\ UNCHANGED <<file, entries, enabled, history>>
        \/ record' \in {record, [record EXCEPT ![s] = y]} /\ Curves!Ended(s, FALSE)
    BY <1>4 DEF Curves!Recording
  <2>4. record = [record EXCEPT ![s] = record[s]]
    OBVIOUS
  <2>5. record[s].stored => record[s].entries = save[s].entries /\ record[s].video \in {None, save[s].file}
    BY DEF CurvesInv, Curves!VideoMatchesItsStamps
  <2> HIDE DEF x, y
  <2>6. CASE /\ record' = [record EXCEPT ![s] = y] /\ save' = [save EXCEPT ![s] = x]
             /\ UNCHANGED <<file, entries, enabled, history>>
    BY <2>1, <2>2, <2>6, CurveKept
  <2>7. CASE record' = record /\ Curves!Ended(s, FALSE)
    BY <2>1, <2>4, <2>5, <2>7, EndedKept
  <2>8. CASE record' = [record EXCEPT ![s] = y] /\ Curves!Ended(s, FALSE)
    BY <2>1, <2>8, EndedKept
  <2> QED BY <2>3, <2>6, <2>7, <2>8
<1>5. ASSUME NEW s \in Curves!Saves, Curves!Upload(s)
      PROVE  CurvesInv'
  <2> DEFINE y == [record[s] EXCEPT !.video = save[s].file]
             x == [save[s] EXCEPT !.at = "evaluation"]
  <2>1. y \in CurveRecord /\ y.entries = record[s].entries /\ y.video = save[s].file
        /\ y.stored = record[s].stored /\ save[s].at = "video" /\ record[s] \in CurveRecord
    BY <1>5 DEF CurveRecord, Curve, Curves!Upload
  <2>2. x \in Curve /\ x.at = "evaluation" /\ x.file = save[s].file /\ x.entries = save[s].entries
    BY DEF Curve
  <2>3. \/ /\ record' = [record EXCEPT ![s] = y] /\ save' = [save EXCEPT ![s] = x]
           /\ UNCHANGED <<file, entries, enabled, history>>
        \/ record' \in {record, [record EXCEPT ![s] = y]} /\ Curves!Ended(s, FALSE)
    BY <1>5 DEF Curves!Upload
  <2>4. record = [record EXCEPT ![s] = record[s]]
    OBVIOUS
  <2>5. /\ record[s].stored =>
             record[s].entries = save[s].entries /\ record[s].video \in {None, save[s].file}
        /\ save[s].file # None
    BY <2>1 DEF CurvesInv, Curves!VideoMatchesItsStamps
  <2> HIDE DEF x, y
  <2>6. CASE /\ record' = [record EXCEPT ![s] = y] /\ save' = [save EXCEPT ![s] = x]
             /\ UNCHANGED <<file, entries, enabled, history>>
    BY <2>1, <2>2, <2>5, <2>6, CurveKept
  <2>7. CASE record' = record /\ Curves!Ended(s, FALSE)
    BY <2>1, <2>4, <2>5, <2>7, EndedKept
  <2>8. CASE record' = [record EXCEPT ![s] = y] /\ Curves!Ended(s, FALSE)
    BY <2>1, <2>5, <2>8, EndedKept
  <2> QED BY <2>3, <2>6, <2>7, <2>8
<1>6. ASSUME NEW s \in Curves!Saves, Curves!Evaluate(s) \/ Curves!EvaluateAgain(s)
      PROVE  CurvesInv'
  <2> DEFINE y == [record[s] EXCEPT !.evaluated = TRUE]
  <2>1. y \in CurveRecord /\ y.entries = record[s].entries /\ y.video = record[s].video
        /\ y.stored = record[s].stored /\ record[s] \in CurveRecord
    BY DEF CurveRecord
  <2>2. PICK z \in {record[s], y} : record' = [record EXCEPT ![s] = z]
    BY <1>6 DEF Curves!Evaluate, Curves!EvaluateAgain
  <2>3. record[s].stored => record[s].entries = save[s].entries /\ record[s].video \in {None, save[s].file}
    BY DEF CurvesInv, Curves!VideoMatchesItsStamps
  <2> HIDE DEF y
  <2>4. CASE Curves!Evaluate(s)
    <3>1. save[s].at # "none" /\ Curves!Ended(s, TRUE)
      BY <2>4 DEF Curves!Evaluate
    <3> QED BY <2>1, <2>2, <2>3, <3>1, EndedKept
  <2>5. CASE Curves!EvaluateAgain(s)
    <3>1. /\ UNCHANGED <<file, entries, enabled, save>>
          /\ history' \in [loading : Nat, cards : SUBSET Curves!Saves]
      BY <2>5 DEF Curves!EvaluateAgain
    <3>2. record' \in [Curves!Saves -> CurveRecord]
          /\ \A r \in Curves!Saves : record'[r].stored = record[r].stored
               /\ record'[r].entries = record[r].entries /\ record'[r].video = record[r].video
      BY <2>1, <2>2
    <3>3. Curves!TypeOK' /\ SavesAreNumbered' /\ Curves!VideoMatchesItsStamps'
      BY <3>1, <3>2 DEF CurvesInv, Curves!TypeOK, SavesAreNumbered,
                        Curves!VideoMatchesItsStamps, CurveRecord
    <3> QED BY <3>1, <3>2, <3>3 DEF CurvesInv
  <2> QED BY <1>6, <2>4, <2>5
<1> QED BY <1>0, <1>1, <1>2, <1>3, <1>4, <1>5, <1>6 DEF Curves!Next

(* Only the end of a whole save takes more than one stamp off the page.     *)
LEMMA OnlyWholeSavesEmpty ==
  ASSUME CurvesInv, [Curves!Next]_curveVars, entries'.now = {}, Curves!Cardinality(entries.now) > 1
  PROVE  \E s \in Curves!Saves : save[s].at = "evaluation" /\ record[s].video # None
<1> USE CurvesTyped
<1>1. Curves!Cardinality(entries.now) = Cardinality(entries.now)
  BY DEF Curves!Cardinality, Cardinality, Curves!IsFiniteSet, IsFiniteSet
<1>2. entries.now # {}
  BY <1>1, FS_EmptySet
<1>3. ASSUME NEW e, entries.now = {e}
      PROVE  FALSE
  <2>1. Cardinality({e}) = 1
    BY FS_Singleton
  <2> QED BY <1>1, <1>3, <2>1
<1>4. ASSUME NEW e \in Curves!Stamps, Curves!Drop(e)
      PROVE  FALSE
  <2>1. entries.now \ {e} = {}
    BY <1>4 DEF Curves!Drop
  <2>2. entries.now = {e}
    BY <1>2, <2>1
  <2> QED BY <1>3, <2>2
<1>5. entries'.now # entries.now
  BY <1>2
<1>6. ~Curves!Choose /\ ~Curves!Save /\ ~Curves!HistoryDrawn /\ ~UNCHANGED curveVars
      /\ \A s \in Curves!Saves : ~Curves!EvaluateAgain(s)
  BY <1>5 DEF Curves!Choose, Curves!Save, Curves!HistoryDrawn, Curves!EvaluateAgain, curveVars
<1>7. ~Curves!Stamp
  BY DEF Curves!Stamp
<1>8. \A s \in Curves!Saves : ~Curves!Recording(s) /\ ~Curves!Upload(s)
  BY <1>5 DEF Curves!Recording, Curves!Upload, Curves!Ended
<1>9. PICK s \in Curves!Saves : Curves!Evaluate(s)
  BY <1>4, <1>6, <1>7, <1>8 DEF Curves!Next
<1> QED BY <1>9 DEF Curves!Evaluate, CurvesInv

(* What is reviewed, answered and recorded is what its author meant and     *)
(* saw: answers are kept for the survey they answer, what is drawn is of    *)
(* the page's project, a list that is read late never hides what the form   *)
(* said is published, each analysis had a consent of its own, a record      *)
(* keeps the stamps and the video of one moment, and a save that failed     *)
(* takes nothing off the page - for any surveys, reviews, videos and calls  *)
(* under way.                                                              *)
THEOREM ReviewsFaithful == PagesSpec => ReviewsAreFaithful
<1>1. PagesInit => ReviewsInv /\ FormInv /\ CurvesInv
  BY ReviewsBegin, FormBegins, CurvesBegin DEF PagesInit
<1>2. [PagesNext]_pageVars =>
        [Reviews!Next]_reviewVars /\ [Form!Next]_formVars /\ [Curves!Next]_curveVars
  BY DEF PagesNext, pageVars
<1>3. /\ ReviewsInv => Reviews!PageIsCoherent
      /\ FormInv => Form!FollowsFaithfully
      /\ CurvesInv => Curves!VideoMatchesItsStamps
  BY FormFollows DEF ReviewsInv, CurvesInv
<1>4. CurvesInv /\ [Curves!Next]_curveVars =>
        [entries'.now = {} /\ Curves!Cardinality(entries.now) > 1 =>
           \E s \in Curves!Saves : save[s].at = "evaluation" /\ record[s].video # None]_(Curves!vars)
  BY OnlyWholeSavesEmpty
<1>5. PagesSpec => [](ReviewsInv /\ FormInv /\ CurvesInv)
  BY <1>1, <1>2, ReviewsStep, FormStep, CurvesStep, PTL DEF PagesSpec
<1> QED BY <1>2, <1>3, <1>4, <1>5, PTL
     DEF PagesSpec, ReviewsAreFaithful, Curves!CurvesSafe, Curves!EmptiedOnlyByASave

-----------------------------------------------------------------------------
(* The viewer (Viewer).                                                    *)

(* close() leaves nothing for a late event to work on                      *)
(* (viewer-connection.ts:131-147).                                         *)
ClosedIsSilent(l) ==
  l.closed => ~l.ready /\ l.peer = "none" /\ l.inbox = <<>> /\ l.socket \notin {"connecting", "open"}

(* Connections are built one after another, and only the last of them can   *)
(* be the connection of the page: the others are closed or not built yet.  *)
LinksAreInOrder ==
  /\ view = "built" => connection = built /\ built > 0
  /\ connection \in {0, built}
  /\ \A c \in Viewer!Connections :
       /\ c > built => link[c] = Viewer!NoLink
       /\ c <= built /\ c # connection => link[c].closed
       /\ ClosedIsSilent(link[c])

(* A box that is ticked is a consent that no post has used; goods wait for  *)
(* a connection.                                                           *)
ViewerInv ==
  /\ Viewer!TypeOK /\ LinksAreInOrder
  /\ Viewer!ViewerIsFaithful
  /\ count.shown + (IF draft.ticked THEN 1 ELSE 0) <= count.ticked
  /\ batcher.timer => batcher.of # 0

Link ==
  [socket : {"none", "connecting", "open", "closing", "closed"}, closed : BOOLEAN,
   ready : BOOLEAN, peer : {"none", "new"}, at : {"idle", "describing", "answering"},
   inbox : Seq(Viewer!Messages)]
Draft == [typed : BOOLEAN, ticked : BOOLEAN]
Batcher == [of : 0..MaxConnects, pending : 0..MaxPresses, timer : BOOLEAN]
Count == [pressed : 0..MaxPresses, sent : Nat, typed : 0..MaxPosts, ticked : 0..MaxPosts, shown : Nat]

LEMMA ViewerTyped ==
  ASSUME ViewerInv
  PROVE  /\ view \in {"asking", "refused", "built", "left"}
         /\ built \in 0..MaxConnects /\ connection \in 0..MaxConnects
         /\ link \in [Viewer!Connections -> Link] /\ composer \in BOOLEAN /\ draft \in Draft
         /\ poll \in [id : Polls \cup {0}, open : BOOLEAN] /\ batcher \in Batcher
         /\ decay \in BOOLEAN /\ count \in Count
         /\ MaxConnects \in Nat /\ MaxPresses \in Nat /\ MaxPosts \in Nat /\ MaxBatch \in Nat \ {0}
BY ViewerIsExplored
   DEF ViewerInv, Viewer!TypeOK, Link, Draft, Batcher, Count, Viewer!ViewerAssumption

LEMMA ViewerBegins == Viewer!Init => ViewerInv
<1> SUFFICES ASSUME Viewer!Init PROVE ViewerInv
  OBVIOUS
<1>1. {MaxConnects, MaxPresses, MaxPosts, MaxInbox} \subseteq Nat
  BY ViewerIsExplored DEF Viewer!ViewerAssumption
<1>2. Viewer!NoLink \in Link
  BY DEF Viewer!NoLink, Link
<1>3. Viewer!TypeOK
  <2>1. link \in [Viewer!Connections -> Link]
    BY <1>2 DEF Viewer!Init
  <2>2. batcher \in Batcher
    BY <1>1 DEF Viewer!Init, Viewer!NoBatcher, Batcher
  <2>3. draft \in Draft /\ poll \in [id : Polls \cup {0}, open : BOOLEAN]
    BY DEF Viewer!Init, Viewer!NoDraft, Viewer!NoPoll, Draft
  <2>4. count \in Count
    BY <1>1 DEF Viewer!Init, Count
  <2>5. view = "asking" /\ composer = FALSE /\ decay = FALSE /\ built = 0 /\ connection = 0
    BY DEF Viewer!Init
  <2>6. 0 \in 0..MaxConnects
    BY <1>1
  <2> QED BY <2>1, <2>2, <2>3, <2>4, <2>5, <2>6 DEF Viewer!TypeOK, Link, Draft, Batcher, Count
<1>4. ClosedIsSilent(Viewer!NoLink)
  BY DEF ClosedIsSilent, Viewer!NoLink
<1>5. LinksAreInOrder
  BY <1>4 DEF Viewer!Init, LinksAreInOrder, Viewer!Connections
<1>6. Viewer!ViewerIsFaithful
  BY DEF Viewer!Init, Viewer!ViewerIsFaithful, Viewer!OneConnectionFeedsThePage,
         Viewer!SentOnceAndAsMeant, Viewer!NoLink, Viewer!NoBatcher
<1> QED BY <1>3, <1>5, <1>6 DEF ViewerInv, Viewer!Init, Viewer!NoDraft, Viewer!NoBatcher

(* Of the connections, only that of the page is not closed or not built.    *)
LEMMA OnlyThePageIsOpen ==
  ASSUME ViewerInv, NEW c \in Viewer!Connections,
         \/ link[c].socket \in {"connecting", "open"} \/ link[c].peer # "none" \/ link[c].inbox # <<>>
  PROVE  c = connection /\ c = built /\ ~link[c].closed /\ view = "built"
<1> USE ViewerTyped
<1>1. ~link[c].closed
  BY DEF ViewerInv, LinksAreInOrder, ClosedIsSilent
<1>2. c <= built
  BY DEF ViewerInv, LinksAreInOrder, Viewer!NoLink, Viewer!Connections
<1>3. c = connection /\ connection # 0
  BY <1>1, <1>2 DEF ViewerInv, LinksAreInOrder, Viewer!Connections
<1> QED BY <1>1, <1>3 DEF ViewerInv, LinksAreInOrder, Viewer!ViewerIsFaithful,
                          Viewer!OneConnectionFeedsThePage

(* One connection changes, and what the page shows of it.                  *)
LEMMA LinkKept ==
  ASSUME ViewerInv, NEW c \in Viewer!Connections, NEW x \in Link, c <= built,
         link' = [link EXCEPT ![c] = x], ClosedIsSilent(x), link[c].closed => x.closed,
         x.socket \in {"connecting", "open"} => c = connection,
         composer' \in BOOLEAN, c = connection => composer' = x.ready,
         c # connection => composer' = composer,
         batcher' = batcher \/ batcher' = Viewer!NoBatcher,
         c = connection /\ batcher'.of # 0 => ~x.closed,
         poll' \in [id : Polls \cup {0}, open : BOOLEAN],
         UNCHANGED <<view, built, connection, draft, decay, count>>
  PROVE  ViewerInv'
<1> USE ViewerTyped
<1>1. /\ batcher' \in Batcher /\ batcher'.of \in {0, batcher.of}
      /\ batcher'.pending \in Nat /\ batcher'.pending <= batcher.pending
      /\ batcher'.timer => batcher.timer /\ batcher' = batcher
  <2>1. CASE batcher' = batcher
    BY <2>1 DEF Batcher
  <2>2. CASE batcher' = Viewer!NoBatcher
    <3>1. Viewer!NoBatcher \in Batcher /\ Viewer!NoBatcher.of = 0
          /\ Viewer!NoBatcher.pending = 0 /\ ~Viewer!NoBatcher.timer
      BY DEF Batcher, Viewer!NoBatcher
    <3> QED BY <2>2, <3>1 DEF Batcher
  <2> QED BY <2>1, <2>2
<1>2. Viewer!TypeOK'
  BY <1>1 DEF Viewer!TypeOK, Link, Draft, Batcher, Count
<1>3. /\ link'[c] = x
      /\ \A d \in Viewer!Connections : d # c => link'[d] = link[d]
  OBVIOUS
<1>4. LinksAreInOrder'
  BY <1>3 DEF ViewerInv, LinksAreInOrder, Viewer!Connections
<1>5. Viewer!OneConnectionFeedsThePage'
  <2>1. \A d \in Viewer!Connections : link'[d].socket \in {"connecting", "open"} => d = connection
    BY <1>3 DEF ViewerInv, Viewer!ViewerIsFaithful, Viewer!OneConnectionFeedsThePage
  <2>2. view # "built" => connection = 0 /\ ~decay /\ ~batcher'.timer
    BY <1>1 DEF ViewerInv, Viewer!ViewerIsFaithful, Viewer!OneConnectionFeedsThePage
  <2>3. connection # 0 => connection \in Viewer!Connections
    BY DEF Viewer!Connections
  <2>4. batcher'.of # 0 => batcher'.of = connection /\ ~link'[connection].closed
    BY <1>1, <1>3, <2>3 DEF ViewerInv, Viewer!ViewerIsFaithful, Viewer!OneConnectionFeedsThePage
  <2>5. view = "built" => composer' = link'[connection].ready
    BY <1>3, <2>3 DEF ViewerInv, Viewer!ViewerIsFaithful, Viewer!OneConnectionFeedsThePage, LinksAreInOrder
  <2> QED BY <2>1, <2>2, <2>4, <2>5 DEF Viewer!OneConnectionFeedsThePage
<1>6. Viewer!SentOnceAndAsMeant'
  <2>1. count.sent + batcher.pending <= count.pressed /\ count.shown <= count.ticked
        /\ count.sent \in Nat /\ count.pressed \in Nat /\ batcher.pending \in Nat
    BY DEF ViewerInv, Viewer!ViewerIsFaithful, Viewer!SentOnceAndAsMeant, Count, Batcher
  <2> QED BY <1>1, <2>1 DEF Viewer!SentOnceAndAsMeant
<1>7. batcher'.timer => batcher'.of # 0
  BY <1>1 DEF ViewerInv
<1> QED BY <1>2, <1>4, <1>5, <1>6, <1>7 DEF ViewerInv, Viewer!ViewerIsFaithful

(* What is typed, ticked, pressed and sent changes.                        *)
LEMMA CountKept ==
  ASSUME ViewerInv, NEW b \in Batcher, NEW d \in Draft, NEW k \in Count,
         batcher' = b, draft' = d, count' = k, b.of = batcher.of,
         b.timer => b.of # 0 /\ view = "built",
         k.sent + b.pending <= k.pressed, k.shown + (IF d.ticked THEN 1 ELSE 0) <= k.ticked,
         UNCHANGED <<view, built, connection, link, composer, poll, decay>>
  PROVE  ViewerInv'
<1> USE ViewerTyped
<1>1. Viewer!TypeOK'
  BY DEF Viewer!TypeOK, Link, Draft, Batcher, Count
<1>2. LinksAreInOrder'
  BY DEF ViewerInv, LinksAreInOrder
<1>3. Viewer!OneConnectionFeedsThePage'
  BY DEF ViewerInv, Viewer!ViewerIsFaithful, Viewer!OneConnectionFeedsThePage
<1>4. k.shown <= k.ticked
  BY DEF Count
<1>5. Viewer!SentOnceAndAsMeant'
  BY <1>4 DEF Viewer!SentOnceAndAsMeant
<1> QED BY <1>1, <1>2, <1>3, <1>5 DEF ViewerInv, Viewer!ViewerIsFaithful

LEMMA ClosedLink ==
  ASSUME NEW l \in Link
  PROVE  /\ Viewer!Close(l) \in Link /\ Viewer!Close(l).closed /\ ~Viewer!Close(l).ready
         /\ ClosedIsSilent(Viewer!Close(l)) /\ Viewer!Close(l).socket \notin {"connecting", "open"}
<1>1. <<>> \in Seq(Viewer!Messages)
  OBVIOUS
<1> QED BY <1>1 DEF Link, Viewer!Close, ClosedIsSilent

(* finish(), of a connection whose chain or socket has gone on to l.        *)
LEMMA FinishKept ==
  ASSUME ViewerInv, NEW c \in Viewer!Connections, NEW l \in Link, Viewer!Finish(c, l), c <= built,
         l.closed = link[c].closed, ClosedIsSilent(l),
         l.socket \in {"connecting", "open"} => link[c].socket \in {"connecting", "open"},
         l.ready = link[c].ready,
         UNCHANGED <<view, built, connection, draft, poll, decay, count>>
  PROVE  ViewerInv'
<1> USE ViewerTyped
<1>1. l.socket \in {"connecting", "open"} => c = connection
  BY OnlyThePageIsOpen
<1>2. c = connection => view = "built" /\ composer = link[c].ready
  BY DEF ViewerInv, Viewer!ViewerIsFaithful, Viewer!OneConnectionFeedsThePage, Viewer!Connections
<1>3. CASE l.closed
  <2>1. link' = [link EXCEPT ![c] = l] /\ UNCHANGED <<composer, batcher>>
    BY <1>3 DEF Viewer!Finish
  <2>2. c = connection => batcher.of = 0
    BY <1>3 DEF ViewerInv, Viewer!ViewerIsFaithful, Viewer!OneConnectionFeedsThePage
  <2> QED BY <1>1, <1>2, <2>1, <2>2, LinkKept
<1>4. CASE ~l.closed
  <2>1. link' = [link EXCEPT ![c] = Viewer!Close(l)] /\ composer' = FALSE /\ batcher' = Viewer!NoBatcher
    BY <1>4 DEF Viewer!Finish
  <2>2. c = connection
    BY <1>4 DEF ViewerInv, LinksAreInOrder
  <2>3. batcher'.of = 0
    BY <2>1 DEF Viewer!NoBatcher
  <2>4. Viewer!Close(l) \in Link /\ Viewer!Close(l).closed /\ Viewer!Close(l).ready = FALSE
        /\ ClosedIsSilent(Viewer!Close(l)) /\ Viewer!Close(l).socket \notin {"connecting", "open"}
    BY ClosedLink DEF Link
  <2> QED BY <2>1, <2>2, <2>3, <2>4, LinkKept
<1> QED BY <1>3, <1>4

(* retry and dispose(): the connection of the page is closed.              *)
LEMMA TeardownKept ==
  ASSUME ViewerInv, Viewer!Teardown, view' \in {"asking", "left"},
         UNCHANGED <<built, composer, draft, poll, count>>
  PROVE  ViewerInv'
<1> USE ViewerTyped
<1>1. connection' = 0 /\ batcher' = Viewer!NoBatcher /\ decay' = FALSE
  BY DEF Viewer!Teardown
<1>2. batcher' \in Batcher /\ batcher'.of = 0 /\ batcher'.pending = 0 /\ ~batcher'.timer
  BY <1>1 DEF Viewer!NoBatcher, Batcher
<1>3. link' \in [Viewer!Connections -> Link]
      /\ \A c \in Viewer!Connections :
           link'[c] = IF c = connection THEN Viewer!Close(link[c]) ELSE link[c]
  BY ClosedLink DEF Viewer!Teardown, Viewer!Connections
<1>4. Viewer!TypeOK'
  BY <1>1, <1>2, <1>3 DEF Viewer!TypeOK, Link, Draft, Batcher, Count
<1>5. \A c \in Viewer!Connections :
        /\ c > built => link'[c] = Viewer!NoLink
        /\ c <= built => link'[c].closed
        /\ ClosedIsSilent(link'[c])
  <2> TAKE c \in Viewer!Connections
  <2>1. connection # 0 => connection = built
    BY DEF ViewerInv, LinksAreInOrder
  <2>2. CASE c = connection
    BY <1>3, <2>1, <2>2, ClosedLink DEF Viewer!Connections
  <2>3. CASE c # connection
    BY <1>3, <2>3 DEF ViewerInv, LinksAreInOrder
  <2> QED BY <2>2, <2>3
<1>6. LinksAreInOrder'
  BY <1>1, <1>5 DEF LinksAreInOrder
<1>7. \A c \in Viewer!Connections : link'[c].socket \notin {"connecting", "open"}
  BY <1>5 DEF ClosedIsSilent, Viewer!NoLink, Viewer!Connections
<1>8. Viewer!OneConnectionFeedsThePage'
  BY <1>1, <1>2, <1>7 DEF Viewer!OneConnectionFeedsThePage
<1>9. Viewer!SentOnceAndAsMeant'
  BY <1>2 DEF ViewerInv, Viewer!ViewerIsFaithful, Viewer!SentOnceAndAsMeant, Count, Batcher
<1> QED BY <1>2, <1>4, <1>6, <1>8, <1>9 DEF ViewerInv, Viewer!ViewerIsFaithful

LEMMA TicketKept == ASSUME ViewerInv, Viewer!Ticket PROVE ViewerInv'
<1> USE ViewerTyped
<1>1. view = "asking" /\ connection = 0 /\ ~decay /\ ~batcher.timer /\ UNCHANGED count
  BY DEF Viewer!Ticket, ViewerInv, Viewer!ViewerIsFaithful, Viewer!OneConnectionFeedsThePage
<1>2. CASE view' = "refused" /\ UNCHANGED <<built, connection, link, composer, draft, poll, batcher, decay>>
  BY <1>1, <1>2 DEF ViewerInv, Viewer!TypeOK, LinksAreInOrder, Viewer!ViewerIsFaithful,
       Viewer!OneConnectionFeedsThePage, Viewer!SentOnceAndAsMeant
<1>3. CASE built < MaxConnects /\ view' = "built"
  <2> DEFINE x == [Viewer!NoLink EXCEPT !.socket = "connecting"]
             b == [Viewer!NoBatcher EXCEPT !.of = built + 1]
  <2>1. /\ built' = built + 1 /\ connection' = built + 1 /\ composer' = FALSE
        /\ draft' = Viewer!NoDraft /\ poll' = Viewer!NoPoll /\ decay' = TRUE
        /\ link' = [link EXCEPT ![built + 1].socket = "connecting"]
        /\ batcher' = b
    BY <1>3 DEF Viewer!Ticket
  <2>2. built + 1 \in Viewer!Connections /\ built + 1 \in 0..MaxConnects /\ built + 1 # 0
    BY <1>3 DEF Viewer!Connections
  <2>3. link[built + 1] = Viewer!NoLink
    BY <2>2 DEF ViewerInv, LinksAreInOrder
  <2>4. link' = [link EXCEPT ![built + 1] = x]
    BY <2>1, <2>3
  <2>5. x \in Link /\ x.closed = FALSE /\ x.ready = FALSE
    <3>1. <<>> \in Seq(Viewer!Messages)
      OBVIOUS
    <3> QED BY <3>1 DEF Viewer!NoLink, Link
  <2>6. b \in Batcher /\ b.of = built + 1 /\ b.pending = 0 /\ ~b.timer
    <3> DEFINE n == built + 1
    <3>1. n \in 0..MaxConnects /\ 0 \in 0..MaxPresses
      BY <2>2
    <3>2. b = [Viewer!NoBatcher EXCEPT !.of = n]
      OBVIOUS
    <3> HIDE DEF n
    <3>3. b \in Batcher /\ b.of = n /\ b.pending = 0 /\ ~b.timer
      BY <3>1, <3>2 DEF Viewer!NoBatcher, Batcher
    <3> QED BY <3>3 DEF n
  <2> HIDE DEF x, b
  <2>7. link' \in [Viewer!Connections -> Link]
        /\ \A c \in Viewer!Connections : link'[c] = IF c = built + 1 THEN x ELSE link[c]
    BY <2>2, <2>4, <2>5
  <2>8. draft' \in Draft /\ ~draft'.ticked /\ poll' \in [id : Polls \cup {0}, open : BOOLEAN]
    BY <2>1 DEF Viewer!NoDraft, Viewer!NoPoll, Draft
  <2>9. Viewer!TypeOK'
    BY <1>1, <1>3, <2>1, <2>2, <2>6, <2>7, <2>8 DEF Viewer!TypeOK, Link, Draft, Batcher, Count
  <2>10. LinksAreInOrder'
    <3> SUFFICES ASSUME NEW c \in Viewer!Connections
                 PROVE  /\ c > built + 1 => link'[c] = Viewer!NoLink
                        /\ c <= built + 1 /\ c # built + 1 => link'[c].closed
                        /\ ClosedIsSilent(link'[c])
      BY <1>3, <2>1, <2>2 DEF LinksAreInOrder
    <3>1. /\ c > built => link[c] = Viewer!NoLink
          /\ c <= built => link[c].closed
          /\ ClosedIsSilent(link[c]) /\ c \in Nat
      BY <1>1 DEF ViewerInv, LinksAreInOrder, Viewer!Connections
    <3>2. ClosedIsSilent(x)
      BY <2>5 DEF ClosedIsSilent
    <3> QED BY <2>7, <3>1, <3>2
  <2>11. Viewer!OneConnectionFeedsThePage'
    <3>1. \A c \in Viewer!Connections : link[c].socket \notin {"connecting", "open"}
      BY <1>1, OnlyThePageIsOpen
    <3>2. \A c \in Viewer!Connections : link'[c].socket \in {"connecting", "open"} => c = connection'
      BY <2>1, <2>7, <3>1
    <3>3. link'[connection'] = x
      BY <2>1, <2>2, <2>7
    <3> QED BY <1>3, <2>1, <2>5, <2>6, <3>2, <3>3 DEF Viewer!OneConnectionFeedsThePage
  <2>12. Viewer!SentOnceAndAsMeant'
    BY <1>1, <2>1, <2>6
       DEF ViewerInv, Viewer!ViewerIsFaithful, Viewer!SentOnceAndAsMeant, Count, Batcher
  <2>13. count'.shown + (IF draft'.ticked THEN 1 ELSE 0) <= count'.ticked
    BY <1>1, <2>8 DEF ViewerInv, Count
  <2> QED BY <2>1, <2>6, <2>9, <2>10, <2>11, <2>12, <2>13 DEF ViewerInv, Viewer!ViewerIsFaithful
<1> QED BY <1>2, <1>3 DEF Viewer!Ticket

(* receive, up to its first await.                                         *)
LEMMA ReceiveKept ==
  ASSUME ViewerInv, NEW c \in Viewer!Connections, Viewer!Receive(c)
  PROVE  ViewerInv'
<1> USE ViewerTyped
<1> DEFINE l == [link[c] EXCEPT !.inbox = Tail(@)]
           m == Head(link[c].inbox)
<1>1. /\ link[c].inbox # <<>> /\ link[c].inbox \in Seq(Viewer!Messages) /\ link[c] \in Link
      /\ UNCHANGED <<view, built, connection, draft, decay, count>>
  BY DEF Viewer!Receive, Link
<1>2. c = connection /\ c = built /\ ~link[c].closed /\ view = "built" /\ c <= built
  BY <1>1, OnlyThePageIsOpen
<1>3. m \in Viewer!Messages /\ Tail(link[c].inbox) \in Seq(Viewer!Messages)
  BY <1>1
<1>4. /\ m.type \in {"welcome", "offer", "candidate", "presence", "poll.open", "poll.closed"}
      /\ m.poll \in Polls \cup {0} /\ m.ready \in BOOLEAN
  BY <1>3 DEF Viewer!Messages
<1>5. /\ l \in Link /\ l.closed = link[c].closed /\ l.ready = link[c].ready
      /\ l.socket = link[c].socket /\ ClosedIsSilent(l)
  BY <1>1, <1>2, <1>3 DEF Link, ClosedIsSilent
<1>6. composer = link[c].ready
  BY <1>2 DEF ViewerInv, Viewer!ViewerIsFaithful, Viewer!OneConnectionFeedsThePage
<1>7. ASSUME Viewer!Finish(c, l), UNCHANGED poll
      PROVE  ViewerInv'
  BY <1>1, <1>2, <1>5, <1>7, FinishKept
<1>8. ASSUME NEW x \in Link, link' = [link EXCEPT ![c] = x], ~x.closed, composer' = x.ready,
             UNCHANGED batcher, poll' \in [id : Polls \cup {0}, open : BOOLEAN]
      PROVE  ViewerInv'
  <2>1. ClosedIsSilent(x)
    BY <1>8 DEF ClosedIsSilent
  <2>2. composer' \in BOOLEAN
    BY <1>8 DEF Link
  <2> HIDE DEF l, m
  <2> QED BY <1>1, <1>2, <1>8, <2>1, <2>2, LinkKept
<1>9. ASSUME link' = [link EXCEPT ![c] = l], UNCHANGED <<composer, batcher>>,
             poll' \in [id : Polls \cup {0}, open : BOOLEAN]
      PROVE  ViewerInv'
  BY <1>2, <1>5, <1>6, <1>8, <1>9
<1>10. /\ [l EXCEPT !.ready = m.ready] \in Link /\ ~[l EXCEPT !.ready = m.ready].closed
       /\ [l EXCEPT !.ready = m.ready].ready = m.ready
  BY <1>2, <1>4, <1>5 DEF Link
<1>11. /\ [l EXCEPT !.peer = "new"] \in Link /\ ~[l EXCEPT !.peer = "new"].closed
       /\ [l EXCEPT !.peer = "new"].ready = l.ready
  BY <1>2, <1>5 DEF Link
<1>12. /\ [l EXCEPT !.at = "describing"] \in Link /\ ~[l EXCEPT !.at = "describing"].closed
       /\ [l EXCEPT !.at = "describing"].ready = l.ready
  BY <1>2, <1>5 DEF Link
<1>13. Viewer!Receive(c)
  OBVIOUS
<1>14. CASE m.type = "presence"
  <2>1. /\ link' = [link EXCEPT ![c] = [l EXCEPT !.ready = m.ready]]
        /\ composer' = m.ready /\ UNCHANGED <<poll, batcher>>
    BY <1>13, <1>14 DEF Viewer!Receive
  <2> HIDE DEF l, m
  <2> QED BY <1>10, <1>8, <2>1
<1>15. CASE m.type = "welcome"
  <2>1. /\ link' = [link EXCEPT ![c] = [l EXCEPT !.peer = "new"]]
        /\ UNCHANGED <<composer, poll, batcher>>
    BY <1>13, <1>15 DEF Viewer!Receive
  <2> HIDE DEF l, m
  <2> QED BY <1>5, <1>6, <1>11, <1>8, <2>1
<1>16. CASE m.type = "offer"
  <2>1. /\ UNCHANGED poll
        /\ \/ Viewer!Finish(c, l)
           \/ /\ link' = [link EXCEPT ![c] = [l EXCEPT !.at = "describing"]]
              /\ UNCHANGED <<composer, batcher>>
    BY <1>13, <1>16 DEF Viewer!Receive
  <2> HIDE DEF l, m
  <2> QED BY <1>5, <1>6, <1>12, <1>7, <1>8, <2>1
<1>17. CASE m.type = "candidate"
  <2>1. /\ UNCHANGED poll
        /\ \/ link' = [link EXCEPT ![c] = l] /\ UNCHANGED <<composer, batcher>>
           \/ Viewer!Finish(c, l)
    BY <1>13, <1>17 DEF Viewer!Receive
  <2> HIDE DEF l, m
  <2> QED BY <1>7, <1>9, <2>1
<1>18. CASE m.type = "poll.open" \/ m.type = "poll.closed"
  <2>1. /\ link' = [link EXCEPT ![c] = l] /\ UNCHANGED <<composer, batcher>>
        /\ \/ poll' = [id |-> m.poll, open |-> TRUE]
           \/ poll' = [poll EXCEPT !.open = FALSE]
           \/ poll' = poll
    BY <1>13, <1>18 DEF Viewer!Receive
  <2>2. m.poll \in Polls \cup {0}
    BY <1>4
  <2> HIDE DEF l, m
  <2>3. poll' \in [id : Polls \cup {0}, open : BOOLEAN]
    <3>1. CASE poll' = [id |-> m.poll, open |-> TRUE]
      BY <2>2, <3>1
    <3>2. CASE poll' = [poll EXCEPT !.open = FALSE] \/ poll' = poll
      BY <3>2
    <3> QED BY <2>1, <3>1, <3>2
  <2> QED BY <1>9, <2>1, <2>3
<1> QED BY <1>4, <1>14, <1>15, <1>16, <1>17, <1>18

LEMMA ViewerStep == ASSUME ViewerInv, [Viewer!Next]_viewerVars PROVE ViewerInv'
<1> USE ViewerTyped
<1>0. CASE UNCHANGED viewerVars
  BY <1>0 DEF viewerVars, ViewerInv, Viewer!TypeOK, LinksAreInOrder, Viewer!ViewerIsFaithful,
       Viewer!OneConnectionFeedsThePage, Viewer!SentOnceAndAsMeant
<1>1. CASE Viewer!Retry \/ Viewer!Leave
  BY <1>1, TeardownKept DEF Viewer!Retry, Viewer!Leave
<1>2. ASSUME NEW c \in Viewer!Connections, Viewer!SocketOpens(c)
      PROVE  ViewerInv'
  <2> DEFINE x == [link[c] EXCEPT !.socket = "open"]
  <2>1. c = connection /\ c <= built /\ ~link[c].closed /\ composer = link[c].ready
    BY <1>2, OnlyThePageIsOpen
       DEF Viewer!SocketOpens, ViewerInv, Viewer!ViewerIsFaithful, Viewer!OneConnectionFeedsThePage
  <2>2. x \in Link /\ x.closed = link[c].closed /\ x.ready = link[c].ready
    BY DEF Link
  <2>3. link' = [link EXCEPT ![c] = x]
        /\ UNCHANGED <<view, built, connection, composer, draft, poll, batcher, decay, count>>
    BY <1>2 DEF Viewer!SocketOpens
  <2> HIDE DEF x
  <2> QED BY <2>1, <2>2, <2>3, LinkKept DEF ClosedIsSilent
<1>3. ASSUME NEW c \in Viewer!Connections, Viewer!SocketEnds(c)
      PROVE  ViewerInv'
  <2> DEFINE x == [link[c] EXCEPT !.socket = "closed"]
  <2>1. c <= built
    BY <1>3 DEF Viewer!SocketEnds, ViewerInv, LinksAreInOrder, Viewer!NoLink, Viewer!Connections
  <2>2. /\ x \in Link /\ x.closed = link[c].closed /\ x.ready = link[c].ready
        /\ x.socket = "closed" /\ x.peer = link[c].peer /\ x.inbox = link[c].inbox
    BY DEF Link
  <2>3. ClosedIsSilent(x)
    BY <2>2 DEF ViewerInv, LinksAreInOrder, ClosedIsSilent
  <2>4. Viewer!Finish(c, x) /\ UNCHANGED <<view, built, connection, draft, poll, decay, count>>
    BY <1>3 DEF Viewer!SocketEnds
  <2> HIDE DEF x
  <2> QED BY <2>1, <2>2, <2>4, <2>3, FinishKept
<1>4. ASSUME NEW c \in Viewer!Connections, Viewer!PeerFails(c)
      PROVE  ViewerInv'
  <2>1. c <= built
    BY <1>4, OnlyThePageIsOpen DEF Viewer!PeerFails
  <2>2. ClosedIsSilent(link[c])
    BY DEF ViewerInv, LinksAreInOrder
  <2> QED BY <1>4, <2>1, <2>2, FinishKept DEF Viewer!PeerFails
<1>5. ASSUME NEW c \in Viewer!Connections, NEW m \in Viewer!Messages, Viewer!Arrives(c, m)
      PROVE  ViewerInv'
  <2> DEFINE i == Append(link[c].inbox, m)
             x == [link[c] EXCEPT !.inbox = i]
  <2>1. c = connection /\ c <= built /\ ~link[c].closed /\ composer = link[c].ready
    BY <1>5, OnlyThePageIsOpen
       DEF Viewer!Arrives, ViewerInv, Viewer!ViewerIsFaithful, Viewer!OneConnectionFeedsThePage
  <2>2. link' = [link EXCEPT ![c] = x]
        /\ UNCHANGED <<view, built, connection, composer, draft, poll, batcher, decay, count>>
    BY <1>5 DEF Viewer!Arrives
  <2>3. i \in Seq(Viewer!Messages)
    BY DEF Link
  <2> HIDE DEF i
  <2>4. x \in Link /\ x.closed = link[c].closed /\ x.ready = link[c].ready
    BY <2>3 DEF Link
  <2> HIDE DEF x
  <2> QED BY <2>1, <2>4, <2>2, LinkKept DEF ClosedIsSilent
<1>6. ASSUME NEW c \in Viewer!Connections, Viewer!Describe(c)
      PROVE  ViewerInv'
  <2> DEFINE at == IF link[c].at = "describing" /\ ~link[c].closed THEN "answering" ELSE "idle"
             x == [link[c] EXCEPT !.at = at]
             y == [link[c] EXCEPT !.at = "idle"]
  <2>1. c <= built
    BY <1>6 DEF Viewer!Describe, ViewerInv, LinksAreInOrder, Viewer!NoLink, Viewer!Connections
  <2>2. /\ x \in Link /\ x.closed = link[c].closed /\ x.ready = link[c].ready
        /\ ClosedIsSilent(x) /\ x.socket = link[c].socket
    BY DEF Link, ViewerInv, LinksAreInOrder, ClosedIsSilent
  <2>3. /\ y \in Link /\ y.closed = link[c].closed /\ y.ready = link[c].ready
        /\ ClosedIsSilent(y) /\ y.socket = link[c].socket
    BY DEF Link, ViewerInv, LinksAreInOrder, ClosedIsSilent
  <2>4. \/ link' = [link EXCEPT ![c] = x] /\ UNCHANGED <<composer, batcher>>
        \/ Viewer!Finish(c, y)
    BY <1>6 DEF Viewer!Describe
  <2>5. UNCHANGED <<view, built, connection, draft, poll, decay, count>>
    BY <1>6 DEF Viewer!Describe
  <2>6. /\ c = connection => composer = link[c].ready /\ (batcher.of # 0 => ~link[c].closed)
        /\ link[c].socket \in {"connecting", "open"} => c = connection
    BY <2>1 DEF ViewerInv, LinksAreInOrder, Viewer!ViewerIsFaithful,
               Viewer!OneConnectionFeedsThePage, Viewer!Connections
  <2> HIDE DEF x, y
  <2>7. CASE link' = [link EXCEPT ![c] = x] /\ UNCHANGED <<composer, batcher>>
    BY <2>1, <2>2, <2>5, <2>6, <2>7, LinkKept
  <2>8. CASE Viewer!Finish(c, y)
    BY <2>1, <2>3, <2>5, <2>8, FinishKept
  <2> QED BY <2>4, <2>7, <2>8
<1>7. /\ count.sent \in Nat /\ batcher.pending \in Nat /\ count.pressed \in Nat
      /\ count.shown \in Nat /\ count.ticked \in Nat /\ batcher.pending <= MaxPresses
      /\ count.sent + batcher.pending <= count.pressed
      /\ count.shown + (IF draft.ticked THEN 1 ELSE 0) <= count.ticked
      /\ batcher.timer => batcher.of # 0 /\ view = "built"
  BY DEF ViewerInv, Viewer!ViewerIsFaithful, Viewer!SentOnceAndAsMeant,
         Viewer!OneConnectionFeedsThePage, Count, Batcher
<1>8. CASE Viewer!Press
  <2> DEFINE p == batcher.pending + 1
             q == count.pressed + 1
             b == [batcher EXCEPT !.pending = p, !.timer = TRUE]
             k == [count EXCEPT !.pressed = q]
  <2>1. count.pressed < MaxPresses /\ view = "built" /\ batcher.of # 0
        /\ UNCHANGED <<view, built, connection, link, composer, draft, poll, decay>>
        /\ batcher' = b /\ count' = k
    BY <1>8 DEF Viewer!Press
  <2>2. p \in 0..MaxPresses /\ q \in 0..MaxPresses /\ count.sent + p <= q
    BY <1>7, <2>1
  <2> HIDE DEF p, q
  <2>3. b \in Batcher /\ b.of = batcher.of /\ b.pending = p
        /\ k \in Count /\ k.pressed = q /\ k.sent = count.sent /\ k.shown = count.shown
        /\ k.ticked = count.ticked
    BY <2>2 DEF Batcher, Count
  <2> HIDE DEF b, k
  <2> QED BY <1>7, <2>1, <2>2, <2>3, CountKept
<1>9. CASE Viewer!Flush
  <2> DEFINE n == IF batcher.pending < MaxBatch THEN batcher.pending ELSE MaxBatch
             p == batcher.pending - n
             s == IF Viewer!Sends(batcher.of) THEN count.sent + n ELSE count.sent
             w == batcher.pending > n
             b == [batcher EXCEPT !.pending = p, !.timer = w]
             k == [count EXCEPT !.sent = s]
  <2>1. batcher.timer /\ UNCHANGED <<view, built, connection, link, composer, draft, poll, decay>>
        /\ batcher' = b /\ count' = k
    BY <1>9 DEF Viewer!Flush
  <2>2. n \in Nat /\ n <= batcher.pending
    BY <1>7
  <2> HIDE DEF n
  <2>3. p \in 0..MaxPresses /\ s \in Nat /\ s + p <= count.pressed /\ w \in BOOLEAN
    BY <1>7, <2>2
  <2> HIDE DEF p, s, w
  <2>4. b \in Batcher /\ b.of = batcher.of /\ b.pending = p
        /\ k \in Count /\ k.pressed = count.pressed /\ k.sent = s /\ k.shown = count.shown
        /\ k.ticked = count.ticked
    BY <2>3 DEF Batcher, Count
  <2> HIDE DEF b, k
  <2> QED BY <1>7, <2>1, <2>3, <2>4, CountKept
<1>10. CASE Viewer!Type
  <2> DEFINE q == count.typed + 1
             d == [draft EXCEPT !.typed = TRUE]
             k == [count EXCEPT !.typed = q]
  <2>1. count.typed < MaxPosts /\ draft' = d /\ count' = k
        /\ UNCHANGED <<view, built, connection, link, composer, poll, batcher, decay>>
    BY <1>10 DEF Viewer!Type
  <2>2. q \in 0..MaxPosts
    BY <2>1 DEF Count
  <2> HIDE DEF q
  <2>3. d \in Draft /\ d.ticked = draft.ticked
        /\ k \in Count /\ k.pressed = count.pressed /\ k.sent = count.sent /\ k.shown = count.shown
        /\ k.ticked = count.ticked
    BY <2>2 DEF Draft, Count
  <2> HIDE DEF d, k
  <2> QED BY <1>7, <2>1, <2>3, CountKept
<1>11. CASE Viewer!Tick
  <2> DEFINE q == IF draft.ticked THEN count.ticked ELSE count.ticked + 1
             d == [draft EXCEPT !.ticked = ~draft.ticked]
             k == [count EXCEPT !.ticked = q]
  <2>1. count.ticked < MaxPosts /\ draft' = d /\ count' = k
        /\ UNCHANGED <<view, built, connection, link, composer, poll, batcher, decay>>
    BY <1>11 DEF Viewer!Tick
  <2>2. q \in 0..MaxPosts /\ count.shown + (IF ~draft.ticked THEN 1 ELSE 0) <= q
        /\ draft.ticked \in BOOLEAN
    BY <1>7, <2>1 DEF Draft
  <2> HIDE DEF q
  <2>3. d \in Draft /\ d.ticked = ~draft.ticked
        /\ k \in Count /\ k.pressed = count.pressed /\ k.sent = count.sent /\ k.shown = count.shown
        /\ k.ticked = q
    BY <2>2 DEF Draft, Count
  <2> HIDE DEF d, k
  <2> QED BY <1>7, <2>1, <2>2, <2>3, CountKept
<1>12. CASE Viewer!Submit
  <2> DEFINE s == IF draft.ticked THEN count.shown + 1 ELSE count.shown
             k == [count EXCEPT !.shown = s]
  <2>1. UNCHANGED <<view, built, connection, link, composer, poll, batcher, decay>>
        /\ \/ draft' = Viewer!NoDraft /\ count' = k
           \/ UNCHANGED <<draft, count>>
    BY <1>12 DEF Viewer!Submit
  <2>2. s \in Nat /\ s <= count.ticked
    BY <1>7
  <2> HIDE DEF s
  <2>3. Viewer!NoDraft \in Draft /\ ~Viewer!NoDraft.ticked
    BY DEF Viewer!NoDraft, Draft
  <2>4. k \in Count /\ k.pressed = count.pressed /\ k.sent = count.sent /\ k.shown = s
        /\ k.ticked = count.ticked
    BY <2>2 DEF Count
  <2>5. s + (IF Viewer!NoDraft.ticked THEN 1 ELSE 0) <= count.ticked
    BY <2>2, <2>3
  <2> HIDE DEF k
  <2>6. CASE draft' = Viewer!NoDraft /\ count' = k
    BY <1>7, <2>1, <2>3, <2>4, <2>5, <2>6, CountKept
  <2>7. CASE UNCHANGED <<draft, count>>
    BY <1>7, <2>1, <2>7, CountKept
  <2> QED BY <2>1, <2>6, <2>7
<1> QED BY <1>0, <1>1, TicketKept, <1>2, <1>3, <1>4, ReceiveKept, <1>5, <1>6, <1>8, <1>9, <1>10,
           <1>11, <1>12 DEF Viewer!Next

(* However connections are lost, retried and left while a ticket, a socket  *)
(* or a description is awaited, one connection feeds the page: what it       *)
(* offers, shows and keeps waiting is of that connection, no good is sent    *)
(* twice, and every post shown to all had a consent of its own - for any     *)
(* number of connections, messages, goods and posts.                       *)
THEOREM ViewerFaithful == PagesSpec => []ViewerIsFaithful
<1>1. PagesInit => ViewerInv
  BY ViewerBegins DEF PagesInit
<1>2. [PagesNext]_pageVars => [Viewer!Next]_viewerVars
  BY DEF PagesNext, pageVars
<1>3. ViewerInv => ViewerIsFaithful
  BY DEF ViewerInv, ViewerIsFaithful
<1> QED BY <1>1, <1>2, <1>3, ViewerStep, PTL DEF PagesSpec

-----------------------------------------------------------------------------
(* The panels (PanelPages).                                                *)

(* What is true of every panel, and all that is needed of one: its parts    *)
(* have names of their own, only one that replaces what is there leaves it  *)
(* there when a rendering begins, and one that is hidden looks whether its  *)
(* rendering is the newest.                                                *)
InOrder(steps) ==
  /\ \E n \in Nat \ {0} : Len(steps) = n /\ DOMAIN steps = 1..n
  /\ \A i, j \in DOMAIN steps : \A p \in steps[i], q \in steps[j] : p.name = q.name => i = j /\ p = q

WellShaped(s) ==
  /\ DOMAIN s = {"kind", "steps", "forms", "clears", "again", "alone", "hides"}
  /\ s.kind \in {"append", "replace", "newest"}
  /\ InOrder(s.steps)
  /\ s.kind # "replace" => s.clears
  /\ s.hides => s.kind = "newest"

LEMMA PageIs ==
  ASSUME NEW kind \in {"append", "replace", "newest"}, NEW forms, NEW steps, InOrder(steps)
  PROVE  WellShaped(Panels!Page(kind, steps, forms)) /\ Panels!Page(kind, steps, forms).kind = kind
BY DEF WellShaped, Panels!Page

LEMMA OnePart == ASSUME NEW p PROVE InOrder(<<{p}>>)
<1> DEFINE steps == <<{p}>>
<1>1. Len(steps) = 1 /\ DOMAIN steps = 1..1 /\ steps[1] = {p}
  OBVIOUS
<1> HIDE DEF steps
<1>2. \A i \in DOMAIN steps : i = 1 /\ steps[i] = {p}
  BY <1>1
<1>3. InOrder(steps)
  BY <1>1, <1>2 DEF InOrder
<1> QED BY <1>3 DEF steps

LEMMA TwoParts ==
  ASSUME NEW p, NEW q, p.name # q.name
  PROVE  InOrder(<<{p, q}>>) /\ InOrder(<<{p}, {q}>>)
<1>1. InOrder(<<{p, q}>>)
  <2> DEFINE steps == <<{p, q}>>
  <2>1. Len(steps) = 1 /\ DOMAIN steps = 1..1 /\ steps[1] = {p, q}
    OBVIOUS
  <2> HIDE DEF steps
  <2>2. \A i \in DOMAIN steps : i = 1 /\ steps[i] = {p, q}
    BY <2>1
  <2>3. InOrder(steps)
    BY <2>1, <2>2 DEF InOrder
  <2> QED BY <2>3 DEF steps
<1>2. InOrder(<<{p}, {q}>>)
  <2> DEFINE steps == <<{p}, {q}>>
  <2>1. Len(steps) = 2 /\ DOMAIN steps = 1..2 /\ steps[1] = {p} /\ steps[2] = {q}
    OBVIOUS
  <2> HIDE DEF steps
  <2>2. \A i \in DOMAIN steps : \A x \in steps[i] : (i = 1 /\ x = p) \/ (i = 2 /\ x = q)
    BY <2>1
  <2>3. InOrder(steps)
    BY <2>1, <2>2 DEF InOrder
  <2> QED BY <2>3 DEF steps
<1> QED BY <1>1, <1>2

LEMMA Reshaped ==
  ASSUME NEW s, WellShaped(s)
  PROVE  /\ WellShaped(Panels!Alone(s)) /\ Panels!Alone(s).kind = s.kind
         /\ WellShaped(Panels!AfterWrites(s))
         /\ s.kind = "replace" => WellShaped(Panels!Keeping(s))
         /\ s.kind = "newest" => WellShaped(Panels!Hiding(s))
BY DEF WellShaped, Panels!Alone, Panels!AfterWrites, Panels!Keeping, Panels!Hiding

LEMMA OneOf ==
  ASSUME NEW kind \in {"append", "replace", "newest"}, NEW forms, NEW p
  PROVE  WellShaped(Panels!Page(kind, <<{p}>>, forms)) /\ Panels!Page(kind, <<{p}>>, forms).kind = kind
BY OnePart, PageIs

LEMMA TwoOf ==
  ASSUME NEW kind \in {"append", "replace", "newest"}, NEW forms, NEW p, NEW q, p.name # q.name
  PROVE  /\ WellShaped(Panels!Page(kind, <<{p, q}>>, forms))
         /\ WellShaped(Panels!Page(kind, <<{p}, {q}>>, forms))
BY TwoParts, PageIs

LEMMA AttendanceShape == ASSUME NEW admin \in BOOLEAN PROVE WellShaped(Panels!AttendanceOf(admin))
<1> DEFINE a == Panels!Approvals
           b == Panels!Checkin
           c == Panels!Part("today", "note", "throw", {})
           d == Panels!Part("mine", "note", "throw", {})
           e == Panels!Ledger
           always == <<{a}, {b}, {c}, {d}>>
           rest == IF admin THEN <<{e}>> ELSE <<>>
           steps == always \o rest
<1>1. /\ a.name = "approvals" /\ b.name = "checkin" /\ c.name = "today" /\ d.name = "mine"
      /\ e.name = "ledger"
  BY DEF Panels!Approvals, Panels!Checkin, Panels!Ledger, Panels!Part
<1>2. Panels!AttendanceOf(admin) = Panels!Page("append", steps, {})
  BY DEF Panels!AttendanceOf
<1> HIDE DEF a, b, c, d, e
<1> DEFINE S == {{a}, {b}, {c}, {d}, {e}}
<1>3. /\ Len(always) = 4 /\ always \in Seq(S)
      /\ always[1] = {a} /\ always[2] = {b} /\ always[3] = {c} /\ always[4] = {d}
  <2>1. {a} \in S /\ {b} \in S /\ {c} \in S /\ {d} \in S
    OBVIOUS
  <2> HIDE DEF S
  <2> QED BY <2>1
<1>4. rest \in Seq(S) /\ (Len(rest) = 0 \/ (Len(rest) = 1 /\ rest[1] = {e}))
  <2>1. {e} \in S
    OBVIOUS
  <2> HIDE DEF S
  <2> QED BY <2>1
<1> HIDE DEF always, rest, S
<1>5. /\ Len(steps) = 4 + Len(rest) /\ DOMAIN steps = 1..Len(steps)
      /\ \A i \in 1..Len(steps) : steps[i] = IF i <= 4 THEN always[i] ELSE rest[i - 4]
  <2>1. Len(steps) = 4 + Len(rest) /\ steps \in Seq(S)
    <3>1. always \in Seq(S) /\ rest \in Seq(S) /\ Len(always) = 4 /\ Len(rest) \in Nat
      BY <1>3, <1>4
    <3>2. steps \in Seq(S)
      BY <3>1
    <3>3. Len(steps) = Len(always) + Len(rest)
      BY <3>1, ConcatProperties
    <3> QED BY <3>1, <3>2, <3>3
  <2>2. DOMAIN steps = 1..Len(steps)
    <3> HIDE DEF steps
    <3> QED BY <2>1
  <2>3. \A i \in 1..Len(steps) : steps[i] = IF i <= 4 THEN always[i] ELSE rest[i - 4]
    BY <1>3, <1>4, <2>1
  <2> QED BY <2>1, <2>2, <2>3
<1> HIDE DEF steps
<1>6. \A i \in DOMAIN steps : \A x \in steps[i] :
        \/ (i = 1 /\ x = a) \/ (i = 2 /\ x = b) \/ (i = 3 /\ x = c) \/ (i = 4 /\ x = d)
        \/ (i = 5 /\ x = e)
  BY <1>3, <1>4, <1>5
<1>7. InOrder(steps)
  BY <1>1, <1>4, <1>5, <1>6 DEF InOrder
<1> QED BY <1>2, <1>7, PageIs

LEMMA QuestsShape == ASSUME NEW approver \in BOOLEAN PROVE WellShaped(Panels!QuestsOf(approver))
<1> DEFINE a == Panels!Part("mine", "stop", "throw", {"save", "submit", "withdraw"})
           b == Panels!Part("pending", "stop", "throw", {"approve", "return"})
           always == <<{a}>>
           rest == IF approver THEN <<{b}>> ELSE <<>>
           steps == always \o rest
           S == {{a}, {b}}
<1>1. a.name = "mine" /\ b.name = "pending"
  BY DEF Panels!Part
<1>2. Panels!QuestsOf(approver) = Panels!AfterWrites(Panels!Page("append", steps, {}))
  BY DEF Panels!QuestsOf
<1> HIDE DEF a, b
<1>3. Len(always) = 1 /\ always \in Seq(S) /\ always[1] = {a}
  OBVIOUS
<1>4. rest \in Seq(S) /\ (Len(rest) = 0 \/ (Len(rest) = 1 /\ rest[1] = {b}))
  OBVIOUS
<1> HIDE DEF always, rest, S
<1>5. /\ Len(steps) = 1 + Len(rest) /\ DOMAIN steps = 1..Len(steps)
      /\ \A i \in 1..Len(steps) : steps[i] = IF i <= 1 THEN always[i] ELSE rest[i - 1]
  <2>1. Len(steps) = 1 + Len(rest) /\ steps \in Seq(S)
    <3>1. always \in Seq(S) /\ rest \in Seq(S) /\ Len(always) = 1 /\ Len(rest) \in Nat
      BY <1>3, <1>4
    <3>2. steps \in Seq(S)
      BY <3>1
    <3>3. Len(steps) = Len(always) + Len(rest)
      BY <3>1, ConcatProperties
    <3> QED BY <3>1, <3>2, <3>3
  <2>2. DOMAIN steps = 1..Len(steps)
    <3> HIDE DEF steps
    <3> QED BY <2>1
  <2>3. \A i \in 1..Len(steps) : steps[i] = IF i <= 1 THEN always[i] ELSE rest[i - 1]
    BY <1>3, <1>4, <2>1
  <2> QED BY <2>1, <2>2, <2>3
<1> HIDE DEF steps
<1>6. \A i \in DOMAIN steps : \A x \in steps[i] : (i = 1 /\ x = a) \/ (i = 2 /\ x = b)
  BY <1>3, <1>4, <1>5
<1>7. InOrder(steps)
  BY <1>1, <1>4, <1>5, <1>6 DEF InOrder
<1> QED BY <1>2, <1>7, PageIs, Reshaped

(* Every panel of the Hub.                                                 *)
LEMMA PanelsAreWellShaped == \A name \in Panels!PanelNames : WellShaped(Panels!Panel(name))
<1>1. WellShaped(Panels!Events)
  <2> DEFINE a == Panels!EventForm
             b == Panels!Week("this week")
             c == Panels!Week("next week")
             steps == <<{a}, {b, c}>>
  <2>1. a.name = "form" /\ b.name = "this week" /\ c.name = "next week"
    BY DEF Panels!EventForm, Panels!Week, Panels!Part
  <2>2. Panels!Events = Panels!Page("append", steps, {})
    BY DEF Panels!Events
  <2> HIDE DEF a, b, c
  <2>3. Len(steps) = 2 /\ DOMAIN steps = 1..2 /\ steps[1] = {a} /\ steps[2] = {b, c}
    OBVIOUS
  <2> HIDE DEF steps
  <2>4. \A i \in DOMAIN steps : \A x \in steps[i] : (i = 1 /\ x = a) \/ (i = 2 /\ (x = b \/ x = c))
    BY <2>3
  <2>5. \A i, j \in DOMAIN steps : \A p \in steps[i], q \in steps[j] : p.name = q.name => i = j /\ p = q
    <3> TAKE i, j \in DOMAIN steps
    <3> TAKE p \in steps[i], q \in steps[j]
    <3> QED BY <2>1, <2>4
  <2>6. InOrder(steps)
    BY <2>3, <2>5 DEF InOrder
  <2> QED BY <2>2, <2>6, PageIs
<1>2. /\ WellShaped(Panels!Jobs) /\ WellShaped(Panels!MembersOf)
      /\ WellShaped(Panels!ProjectsOf(FALSE)) /\ WellShaped(Panels!ProjectsOf(TRUE))
  BY OneOf DEF Panels!Jobs, Panels!MembersOf, Panels!ProjectsOf
<1>3. /\ WellShaped(Panels!Links) /\ WellShaped(Panels!MeetAccount)
      /\ WellShaped(Panels!Actives) /\ WellShaped(Panels!Progress)
  BY OneOf DEF Panels!Links, Panels!MeetAccount, Panels!Actives, Panels!Progress
<1>4. WellShaped(Panels!Loans) /\ WellShaped(Panels!Search)
  BY OneOf DEF Panels!Loans, Panels!Search
<1>5. WellShaped(Panels!ReleaseSlot) /\ WellShaped(Panels!Saved)
  BY OneOf, Reshaped DEF Panels!ReleaseSlot, Panels!Saved
<1>6. WellShaped(Panels!Comments) /\ WellShaped(Panels!Forum) /\ WellShaped(Panels!Launch)
  BY OneOf, Reshaped DEF Panels!Comments, Panels!Forum, Panels!Launch
<1>7. WellShaped(Panels!Reservations) /\ WellShaped(Panels!Meetings) /\ WellShaped(Panels!Catalogue)
  BY OneOf, Reshaped DEF Panels!Reservations, Panels!Meetings, Panels!Catalogue
<1>8. WellShaped(Panels!Analysis) /\ WellShaped(Panels!Conclusions) /\ WellShaped(Panels!Showcase)
  <2>1. WellShaped(Panels!Analysis)
    BY OneOf, Reshaped DEF Panels!Analysis
  <2>2. WellShaped(Panels!Conclusions)
    BY OneOf, Reshaped DEF Panels!Conclusions
  <2>3. WellShaped(Panels!Showcase)
    BY OneOf, Reshaped DEF Panels!Showcase
  <2> QED BY <2>1, <2>2, <2>3
<1>9. \A name, other, refused, lost, r, l, w, o :
        name # other => Panels!Part(name, refused, lost, w).name # Panels!Part(other, r, l, o).name
  BY DEF Panels!Part
<1>10. WellShaped(Panels!ConsultLists) /\ WellShaped(Panels!Dashboard)
  BY <1>9, TwoOf, Reshaped DEF Panels!ConsultLists, Panels!Dashboard, Panels!Summary, Panels!Live
<1>11. WellShaped(Panels!Trends) /\ WellShaped(Panels!Overview)
  <2>1. Panels!TrendMap.name # Panels!Address.name
    BY DEF Panels!TrendMap, Panels!Address, Panels!Part
  <2>2. WellShaped(Panels!Trends)
    BY <2>1, TwoOf, Reshaped DEF Panels!Trends
  <2>3. WellShaped(Panels!Overview)
    BY <1>9, TwoOf, Reshaped DEF Panels!Overview
  <2> QED BY <2>2, <2>3
<1>12. /\ Panels!Panel("attendance") = Panels!AttendanceOf(FALSE)
       /\ Panels!Panel("attendance_admin") = Panels!AttendanceOf(TRUE)
       /\ Panels!Panel("events") = Panels!Events
       /\ Panels!Panel("jobs") = Panels!Jobs
       /\ Panels!Panel("members") = Panels!MembersOf
       /\ Panels!Panel("projects") = Panels!ProjectsOf(FALSE)
       /\ Panels!Panel("projects_admin") = Panels!ProjectsOf(TRUE)
       /\ Panels!Panel("releases") = Panels!ReleaseSlot
       /\ Panels!Panel("analysis") = Panels!Analysis
       /\ Panels!Panel("saved") = Panels!Saved
       /\ Panels!Panel("search") = Panels!Search
       /\ Panels!Panel("links") = Panels!Links
       /\ Panels!Panel("comments") = Panels!Comments
       /\ Panels!Panel("reservations") = Panels!Reservations
       /\ Panels!Panel("meetings") = Panels!Meetings
       /\ Panels!Panel("meet") = Panels!MeetAccount
       /\ Panels!Panel("forum") = Panels!Forum
       /\ Panels!Panel("consult") = Panels!ConsultLists
       /\ Panels!Panel("cocoiru") = Panels!Actives
       /\ Panels!Panel("quests") = Panels!QuestsOf(FALSE)
       /\ Panels!Panel("quests_approver") = Panels!QuestsOf(TRUE)
       /\ Panels!Panel("loans") = Panels!Loans
       /\ Panels!Panel("catalogue") = Panels!Catalogue
       /\ Panels!Panel("dashboard") = Panels!Dashboard
       /\ Panels!Panel("trends") = Panels!Trends
       /\ Panels!Panel("conclusions") = Panels!Conclusions
       /\ Panels!Panel("launch") = Panels!Launch
       /\ Panels!Panel("progress") = Panels!Progress
       /\ Panels!Panel("showcase") = Panels!Showcase
       /\ Panels!Panel("overview") = Panels!Overview
  BY DEF Panels!Panel
<1> QED BY AttendanceShape, QuestsShape, <1>1, <1>2, <1>3, <1>4, <1>5, <1>6, <1>7, <1>8, <1>10,
           <1>11, <1>12 DEF Panels!PanelNames

-----------------------------------------------------------------------------
PartNames == {p.name : p \in Panels!Parts}
Reading == [by : Panels!Renders, part : PartNames, saw : Nat, failed : BOOLEAN, stop : BOOLEAN]
Rendering == [at : {"none", "running", "ended"}, step : Nat, got : SUBSET Reading, whole : BOOLEAN]

PanelsTyped ==
  /\ panel \in Explored /\ latest \in 0..MaxRenders /\ mixed \in BOOLEAN
  /\ drawing \in [Panels!Renders -> Rendering]
  /\ version \in Nat /\ confirmed \in 0..version /\ hidden \in 0..latest
  /\ \A w \in writes : w.stored \in 0..version

(* A rendering is mixed from its beginning, or has the page to itself.     *)
RenderingsAreInOrder ==
  /\ \A r \in Panels!Renders : drawing[r].at = "none" <=> r > latest
  /\ ~mixed => \A r \in Panels!Running : r = latest

(* What is read is of the step that is read, one answer for a part; the     *)
(* newest rendering began after the last write that the page was told of.  *)
ReadingsAreOfTheirStep ==
  \A r \in Panels!Running :
    /\ drawing[r].step \in DOMAIN Panels!Steps
    /\ \A g \in drawing[r].got :
         /\ g.by = r /\ g.saw <= version /\ (r = latest => g.saw >= confirmed)
         /\ \E p \in Panels!Steps[drawing[r].step] : p.name = g.part
    /\ \A g, h \in drawing[r].got : g.part = h.part => g = h
    /\ drawing[r].whole => \A g \in drawing[r].got : ~g.stop

DrawingsAreInOrder ==
  /\ \A d \in shown : d.by \in 1..latest /\ d.by > hidden /\ (d.by = latest => d.saw >= confirmed)
  /\ ~Panels!Shape.hides => hidden = 0

(* The steps of the newest rendering that are on the page.                 *)
Begun(i) == drawing[latest].at = "running" => i < drawing[latest].step

(* Without an overlap, or where overlaps are sorted out, each part is on    *)
(* the page once, and is of the newest rendering where the container was    *)
(* cleared for it.                                                         *)
PartsAreDrawnOnce ==
  /\ Panels!Shape.kind # "append" \/ ~mixed => \A d, e \in shown : d.part = e.part => d = e
  /\ Panels!Shape.kind = "newest" \/ (Panels!Shape.kind = "append" /\ ~mixed) =>
       \A d \in shown :
         /\ d.by = latest
         /\ \E i \in DOMAIN Panels!Steps : Begun(i) /\ \E p \in Panels!Steps[i] : p.name = d.part

(* A rendering all of whose reads were answered has its earlier steps on    *)
(* the page, in drawings of its own unless another's take their place.     *)
EarlierPartsAreDrawn ==
  latest > hidden /\ drawing[latest].whole =>
    \A i \in DOMAIN Panels!Steps : Begun(i) => \A p \in Panels!Steps[i] :
      \E d \in shown : d.part = p.name /\ (Panels!Shape.kind # "replace" \/ ~mixed => d.by = latest)

PanelsInv ==
  /\ PanelsTyped /\ RenderingsAreInOrder /\ ReadingsAreOfTheirStep /\ DrawingsAreInOrder
  /\ PartsAreDrawnOnce /\ EarlierPartsAreDrawn

LEMMA ShapeIs ==
  ASSUME panel \in Explored
  PROVE  /\ MaxRenders \in Nat \ {0}
         /\ Panels!Shape.kind \in {"append", "replace", "newest"}
         /\ \E n \in Nat \ {0} : Len(Panels!Steps) = n /\ DOMAIN Panels!Steps = 1..n
         /\ \A i, j \in DOMAIN Panels!Steps : \A p \in Panels!Steps[i], q \in Panels!Steps[j] :
              p.name = q.name => i = j /\ p = q
         /\ Panels!Shape.kind # "replace" => Panels!Shape.clears
         /\ Panels!Shape.hides => Panels!Shape.kind = "newest"
<1>1. panel \in Panels!PanelNames /\ MaxRenders \in Nat \ {0}
  BY PanelsAreExplored DEF Panels!PanelPagesAssumption
<1>2. WellShaped(Panels!Shape)
  BY <1>1, PanelsAreWellShaped DEF Panels!Shape
<1> QED BY <1>1, <1>2 DEF WellShaped, InOrder, Panels!Steps

LEMMA ShapeStays ==
  ASSUME UNCHANGED panel
  PROVE  /\ Panels!Shape' = Panels!Shape /\ Panels!Steps' = Panels!Steps
         /\ PartNames' = PartNames /\ Reading' = Reading /\ Rendering' = Rendering
BY DEF Panels!Shape, Panels!Steps, Panels!Parts, PartNames, Reading, Rendering

LEMMA PanelsBegin == Panels!Init => PanelsInv
<1> SUFFICES ASSUME Panels!Init PROVE PanelsInv
  OBVIOUS
<1>1. panel \in Explored /\ latest = 0 /\ shown = {} /\ hidden = 0 /\ writes = {} /\ version = 0
      /\ confirmed = 0 /\ mixed = FALSE /\ drawing = [r \in Panels!Renders |-> Panels!NoRender]
  BY DEF Panels!Init
<1>2. Panels!NoRender \in Rendering /\ Panels!NoRender.at = "none"
  BY DEF Panels!NoRender, Rendering
<1>3. PanelsTyped
  <2>1. drawing \in [Panels!Renders -> Rendering]
    BY <1>1, <1>2
  <2>2. latest \in 0..MaxRenders /\ mixed \in BOOLEAN /\ hidden \in 0..latest
    <3>1. 0 \in 0..MaxRenders /\ 0 \in 0..0 /\ FALSE \in BOOLEAN
      BY <1>1, ShapeIs
    <3> QED BY <1>1, <3>1
  <2>3. version \in Nat /\ confirmed \in 0..version /\ \A w \in writes : w.stored \in 0..version
    BY <1>1
  <2> QED BY <1>1, <2>1, <2>2, <2>3 DEF PanelsTyped
<1>4. \A r \in Panels!Renders : drawing[r].at = "none" /\ r > latest
  BY <1>1, <1>2 DEF Panels!Renders
<1>5. Panels!Running = {}
  BY <1>4 DEF Panels!Running
<1>6. RenderingsAreInOrder /\ ReadingsAreOfTheirStep
  BY <1>4, <1>5 DEF RenderingsAreInOrder, ReadingsAreOfTheirStep
<1>7. DrawingsAreInOrder /\ PartsAreDrawnOnce /\ EarlierPartsAreDrawn
  BY <1>1 DEF DrawingsAreInOrder, PartsAreDrawnOnce, EarlierPartsAreDrawn
<1> QED BY <1>3, <1>6, <1>7 DEF PanelsInv

(* A rendering begins, and with it the page may be told of a write.        *)
LEMMA BeginKept ==
  ASSUME PanelsInv, Panels!Begin, UNCHANGED <<panel, version, hidden>>,
         confirmed' \in 0..version, \A w \in writes' : w.stored \in 0..version
  PROVE  PanelsInv'
<1> USE ShapeStays
<1> DEFINE n == latest + 1
           x == [at |-> "running", step |-> 1, got |-> {}, whole |-> TRUE]
<1>1. /\ panel \in Explored /\ drawing \in [Panels!Renders -> Rendering]
      /\ latest \in 0..MaxRenders /\ version \in Nat /\ hidden \in 0..latest /\ MaxRenders \in Nat
  BY ShapeIs DEF PanelsInv, PanelsTyped
<1>2. /\ latest' = n /\ n \in Panels!Renders /\ latest < MaxRenders
      /\ drawing' = [drawing EXCEPT ![n] = x] /\ mixed' = (Panels!Running # {})
      /\ shown' = IF Panels!Shape.clears THEN {} ELSE shown
  BY <1>1 DEF Panels!Begin, Panels!Renders
<1>3. x \in Rendering /\ x.at = "running" /\ x.step = 1 /\ x.got = {}
  BY DEF Rendering
<1> HIDE DEF x
<1>4. /\ drawing' \in [Panels!Renders -> Rendering]
      /\ \A r \in Panels!Renders : drawing'[r] = IF r = n THEN x ELSE drawing[r]
  BY <1>2, <1>3, <1>1
<1>5. PanelsTyped'
  BY <1>2, <1>1, <1>4 DEF PanelsTyped
<1>6. Panels!Running' = Panels!Running \cup {n}
  BY <1>2, <1>3, <1>4 DEF Panels!Running
<1>7. \A r \in Panels!Running : r # n /\ r <= latest
  BY <1>1 DEF Panels!Running, Panels!Renders, PanelsInv, RenderingsAreInOrder
<1>8. RenderingsAreInOrder'
  <2>1. \A r \in Panels!Renders : drawing'[r].at = "none" <=> r > n
    BY <1>3, <1>1, <1>4 DEF PanelsInv, RenderingsAreInOrder, Panels!Renders
  <2>2. ~mixed' => Panels!Running' = {n}
    BY <1>2, <1>6
  <2> QED BY <1>2, <2>1, <2>2 DEF RenderingsAreInOrder
<1>9. ReadingsAreOfTheirStep'
  <2> SUFFICES ASSUME NEW r \in Panels!Running \cup {n}
               PROVE  /\ drawing'[r].step \in DOMAIN Panels!Steps
                      /\ \A g \in drawing'[r].got :
                           /\ g.by = r /\ g.saw <= version /\ (r = n => g.saw >= confirmed')
                           /\ \E p \in Panels!Steps[drawing'[r].step] : p.name = g.part
                      /\ \A g, h \in drawing'[r].got : g.part = h.part => g = h
                      /\ drawing'[r].whole => \A g \in drawing'[r].got : ~g.stop
    BY <1>2, <1>6 DEF ReadingsAreOfTheirStep
  <2>1. CASE r = n
    <3>1. drawing'[r] = x /\ 1 \in DOMAIN Panels!Steps
      BY <1>2, <1>1, <1>4, <2>1, ShapeIs
    <3> QED BY <1>3, <3>1
  <2>2. CASE r # n
    <3>1. r \in Panels!Running /\ drawing'[r] = drawing[r]
      BY <1>4, <2>2 DEF Panels!Running
    <3> QED BY <2>2, <3>1 DEF PanelsInv, ReadingsAreOfTheirStep
  <2> QED BY <2>1, <2>2
<1>10. shown' \subseteq shown
  BY <1>2
<1>11. DrawingsAreInOrder'
  <2>1. \A d \in shown : d.by \in 1..latest /\ d.by > hidden
    BY DEF PanelsInv, DrawingsAreInOrder
  <2>2. \A d \in shown' : d.by \in 1..n /\ d.by > hidden /\ d.by # n
    BY <1>1, <1>10, <2>1
  <2> QED BY <1>2, <2>2 DEF DrawingsAreInOrder, PanelsInv
<1>12. Panels!Shape.kind # "replace" => shown' = {}
  BY <1>2, <1>1, ShapeIs
<1>13. PartsAreDrawnOnce'
  <2>1. Panels!Shape.kind = "replace" => \A d, e \in shown : d.part = e.part => d = e
    BY DEF PanelsInv, PartsAreDrawnOnce
  <2> QED BY <1>10, <1>12, <2>1 DEF PartsAreDrawnOnce
<1>14. \A i \in DOMAIN Panels!Steps : ~Begun(i)'
  <2>1. drawing'[latest'] = x
    BY <1>2, <1>4
  <2>2. \A i \in DOMAIN Panels!Steps : ~(i < 1)
    BY <1>1, ShapeIs
  <2> QED BY <1>3, <2>1, <2>2 DEF Begun
<1>15. EarlierPartsAreDrawn'
  BY <1>14 DEF EarlierPartsAreDrawn
<1> QED BY <1>5, <1>8, <1>9, <1>11, <1>13, <1>15 DEF PanelsInv

(* Writes go on, and the page stays as it is.                              *)
LEMMA WritesKept ==
  ASSUME PanelsInv, UNCHANGED <<panel, latest, drawing, mixed, shown, confirmed, hidden>>,
         version' \in Nat, version' >= version, \A w \in writes' : w.stored \in 0..version'
  PROVE  PanelsInv'
<1> USE ShapeStays
<1>1. PanelsTyped'
  BY DEF PanelsInv, PanelsTyped
<1>2. RenderingsAreInOrder' /\ Panels!Running' = Panels!Running
  BY DEF PanelsInv, RenderingsAreInOrder, Panels!Running
<1>3. ReadingsAreOfTheirStep'
  <2> SUFFICES ASSUME NEW r \in Panels!Running
               PROVE  /\ drawing[r].step \in DOMAIN Panels!Steps
                      /\ \A g \in drawing[r].got :
                           /\ g.by = r /\ g.saw <= version' /\ (r = latest => g.saw >= confirmed)
                           /\ \E p \in Panels!Steps[drawing[r].step] : p.name = g.part
                      /\ \A g, h \in drawing[r].got : g.part = h.part => g = h
                      /\ drawing[r].whole => \A g \in drawing[r].got : ~g.stop
    BY <1>2 DEF ReadingsAreOfTheirStep
  <2>1. version \in Nat /\ \A g \in drawing[r].got : g.saw \in Nat
    BY DEF PanelsInv, PanelsTyped, Panels!Running, Rendering, Reading
  <2> QED BY <2>1 DEF PanelsInv, ReadingsAreOfTheirStep
<1>4. DrawingsAreInOrder' /\ PartsAreDrawnOnce' /\ EarlierPartsAreDrawn'
  BY DEF PanelsInv, DrawingsAreInOrder, PartsAreDrawnOnce, EarlierPartsAreDrawn, Begun
<1> QED BY <1>1, <1>2, <1>3, <1>4 DEF PanelsInv

(* The tab is hidden.                                                      *)
LEMMA HideKept == ASSUME PanelsInv, Panels!Hide PROVE PanelsInv'
<1> USE ShapeStays
<1>1. /\ Panels!Shape.hides /\ hidden' = latest /\ shown' = {}
      /\ UNCHANGED <<panel, latest, drawing, mixed, writes, version, confirmed>>
  BY DEF Panels!Hide
<1>2. PanelsTyped'
  BY <1>1 DEF PanelsInv, PanelsTyped
<1>3. RenderingsAreInOrder' /\ ReadingsAreOfTheirStep'
  BY <1>1 DEF PanelsInv, RenderingsAreInOrder, ReadingsAreOfTheirStep, Panels!Running
<1>4. DrawingsAreInOrder' /\ PartsAreDrawnOnce'
  BY <1>1 DEF DrawingsAreInOrder, PartsAreDrawnOnce
<1>5. EarlierPartsAreDrawn'
  BY <1>1 DEF EarlierPartsAreDrawn, PanelsInv, PanelsTyped
<1> QED BY <1>2, <1>3, <1>4, <1>5 DEF PanelsInv

(* The Hub answers one read.                                               *)
LEMMA ReadKept == ASSUME PanelsInv, NEW r \in Panels!Renders, Panels!Read(r) PROVE PanelsInv'
<1> USE ShapeStays
<1>1. /\ r \in Panels!Running /\ drawing[r].at = "running" /\ drawing[r] \in Rendering
      /\ UNCHANGED <<panel, latest, mixed, shown, writes, version, confirmed, hidden>>
      /\ panel \in Explored /\ drawing \in [Panels!Renders -> Rendering] /\ version \in Nat
      /\ confirmed \in 0..version
  BY DEF Panels!Read, Panels!Running, PanelsInv, PanelsTyped
<1>2. PICK p \in Panels!Awaited(r), how \in {"ok", "note", "stop", "without", "throw"} :
        drawing' = [drawing EXCEPT ![r] =
          IF how = "throw" THEN [drawing[r] EXCEPT !.at = "ended", !.whole = FALSE]
          ELSE [drawing[r] EXCEPT !.got = @ \cup {Panels!Got(r, p, how)},
                                  !.whole = @ /\ how \in {"ok", "without"}]]
  BY DEF Panels!Read
<1>3. /\ drawing[r].step \in DOMAIN Panels!Steps /\ p \in Panels!Steps[drawing[r].step]
      /\ \A g \in drawing[r].got : g.part # p.name
  BY <1>1 DEF Panels!Awaited, PanelsInv, ReadingsAreOfTheirStep
<1> DEFINE g0 == Panels!Got(r, p, how)
           more == drawing[r].got \cup {g0}
           full == drawing[r].whole /\ how \in {"ok", "without"}
           x == IF how = "throw" THEN [drawing[r] EXCEPT !.at = "ended", !.whole = FALSE]
                ELSE [drawing[r] EXCEPT !.got = more, !.whole = full]
<1>4. p.name \in PartNames
  BY <1>3 DEF PartNames, Panels!Parts
<1>5. /\ g0 \in Reading /\ g0.by = r /\ g0.part = p.name /\ g0.saw = version
      /\ full => ~g0.stop
  <2> DEFINE f == how \in {"note", "stop"}
             s == how = "stop"
  <2>1. f \in BOOLEAN /\ s \in BOOLEAN /\ (full => ~s)
    OBVIOUS
  <2>2. g0 = [by |-> r, part |-> p.name, saw |-> version, failed |-> f, stop |-> s]
    BY DEF Panels!Got
  <2> HIDE DEF g0, f, s, full
  <2> QED BY <1>1, <1>4, <2>1, <2>2 DEF Reading
<1>6. drawing' = [drawing EXCEPT ![r] = x]
  BY <1>1, <1>2
<1>7. full \in BOOLEAN /\ (full => drawing[r].whole)
  BY <1>1 DEF Rendering
<1> HIDE DEF g0, full
<1>8. more \in SUBSET Reading
  BY <1>1, <1>5 DEF Rendering
<1>9. /\ x \in Rendering /\ x.step = drawing[r].step
      /\ \/ x.at = "ended" /\ x.whole = FALSE
         \/ x.at = "running" /\ x.got = more /\ x.whole = full
  <2> HIDE DEF more
  <2> QED BY <1>1, <1>7, <1>8 DEF Rendering
<1> HIDE DEF x
<1>10. /\ drawing' \in [Panels!Renders -> Rendering]
       /\ \A q \in Panels!Renders : drawing'[q] = IF q = r THEN x ELSE drawing[q]
  BY <1>1, <1>6, <1>9
<1>11. PanelsTyped'
  BY <1>1, <1>10 DEF PanelsInv, PanelsTyped
<1>12. \A q \in Panels!Running' : q \in Panels!Running /\ (q = r => x.at = "running")
  BY <1>1, <1>9, <1>10 DEF Panels!Running
<1>13. RenderingsAreInOrder'
  <2>1. \A q \in Panels!Renders : drawing'[q].at = "none" <=> drawing[q].at = "none"
    BY <1>1, <1>9, <1>10
  <2> QED BY <1>1, <1>12, <2>1 DEF PanelsInv, RenderingsAreInOrder
<1>14. ReadingsAreOfTheirStep'
  <2> SUFFICES ASSUME NEW q \in Panels!Running'
               PROVE  /\ drawing'[q].step \in DOMAIN Panels!Steps
                      /\ \A g \in drawing'[q].got :
                           /\ g.by = q /\ g.saw <= version /\ (q = latest => g.saw >= confirmed)
                           /\ \E o \in Panels!Steps[drawing'[q].step] : o.name = g.part
                      /\ \A g, h \in drawing'[q].got : g.part = h.part => g = h
                      /\ drawing'[q].whole => \A g \in drawing'[q].got : ~g.stop
    BY <1>1 DEF ReadingsAreOfTheirStep
  <2>1. /\ drawing[q].step \in DOMAIN Panels!Steps
        /\ \A g \in drawing[q].got :
             /\ g.by = q /\ g.saw <= version /\ (q = latest => g.saw >= confirmed)
             /\ \E o \in Panels!Steps[drawing[q].step] : o.name = g.part
        /\ \A g, h \in drawing[q].got : g.part = h.part => g = h
        /\ drawing[q].whole => \A g \in drawing[q].got : ~g.stop
    BY <1>12 DEF PanelsInv, ReadingsAreOfTheirStep
  <2>2. CASE q = r
    <3>1. drawing'[q] = x /\ x.got = drawing[r].got \cup {g0} /\ x.whole = full /\ x.step = drawing[r].step
      BY <1>9, <1>10, <1>12, <2>2
    <3>2. g0.saw <= version /\ g0.saw >= confirmed
      BY <1>1, <1>5
    <3>3. \A g \in x.got :
            /\ g.by = r /\ g.saw <= version /\ (q = latest => g.saw >= confirmed)
            /\ \E o \in Panels!Steps[drawing[r].step] : o.name = g.part
      BY <1>3, <1>5, <2>1, <2>2, <3>1, <3>2
    <3>4. \A g, h \in x.got : g.part = h.part => g = h
      BY <1>3, <1>5, <2>1, <2>2, <3>1
    <3>5. x.whole => \A g \in x.got : ~g.stop
      BY <1>5, <1>7, <2>1, <2>2, <3>1
    <3> QED BY <1>3, <2>2, <3>1, <3>3, <3>4, <3>5
  <2>3. CASE q # r
    <3>1. drawing'[q] = drawing[q]
      BY <1>10, <1>12, <2>3 DEF Panels!Running
    <3> QED BY <2>1, <3>1
  <2> QED BY <2>2, <2>3
<1>15. DrawingsAreInOrder'
  BY <1>1 DEF PanelsInv, DrawingsAreInOrder
<1>16. latest \in Panels!Renders
  BY <1>1, ShapeIs DEF PanelsInv, PanelsTyped, RenderingsAreInOrder, Panels!Renders
<1>17. PartsAreDrawnOnce'
  <2>1. \A i \in DOMAIN Panels!Steps : Begun(i) => Begun(i)'
    BY <1>1, <1>9, <1>10, <1>16 DEF Begun
  <2> QED BY <1>1, <2>1 DEF PanelsInv, PartsAreDrawnOnce
<1>18. EarlierPartsAreDrawn'
  <2>1. drawing'[latest].whole =>
          drawing[latest].whole /\ \A i \in DOMAIN Panels!Steps : Begun(i)' => Begun(i)
    BY <1>1, <1>7, <1>9, <1>10, <1>16 DEF Begun
  <2> QED BY <1>1, <2>1 DEF PanelsInv, EarlierPartsAreDrawn
<1> QED BY <1>11, <1>13, <1>14, <1>15, <1>17, <1>18 DEF PanelsInv

(* The parts of a step are put where they go.                              *)
LEMMA DrawKept == ASSUME PanelsInv, NEW r \in Panels!Renders, Panels!Draw(r) PROVE PanelsInv'
<1> USE ShapeStays
<1> DEFINE k == drawing[r].step
           new == {Panels!Drawing(g) : g \in drawing[r].got}
           x == IF k = Len(Panels!Steps) \/ \E g \in drawing[r].got : g.stop
                THEN [drawing[r] EXCEPT !.at = "ended", !.got = {}]
                ELSE [drawing[r] EXCEPT !.step = k + 1, !.got = {}]
<1>1. /\ r \in Panels!Running /\ drawing[r].at = "running" /\ drawing[r] \in Rendering
      /\ UNCHANGED <<panel, latest, mixed, writes, version, confirmed, hidden>>
      /\ panel \in Explored /\ drawing \in [Panels!Renders -> Rendering] /\ version \in Nat
      /\ confirmed \in 0..version /\ latest \in 0..MaxRenders /\ hidden \in 0..latest
      /\ drawing' = [drawing EXCEPT ![r] = x] /\ shown' = Panels!Placed(r)
      /\ \A p \in Panels!Steps[k] : \E g \in drawing[r].got : g.part = p.name
  BY DEF Panels!Draw, Panels!Running, Panels!Awaited, PanelsInv, PanelsTyped
<1>2. PICK n \in Nat \ {0} : Len(Panels!Steps) = n /\ DOMAIN Panels!Steps = 1..n
  BY <1>1, ShapeIs
<1>3. /\ k \in 1..n
      /\ \A g \in drawing[r].got :
           /\ g.by = r /\ g.saw <= version /\ (r = latest => g.saw >= confirmed)
           /\ \E p \in Panels!Steps[k] : p.name = g.part
      /\ \A g, h \in drawing[r].got : g.part = h.part => g = h
      /\ drawing[r].whole => \A g \in drawing[r].got : ~g.stop
  BY <1>1, <1>2 DEF PanelsInv, ReadingsAreOfTheirStep
<1>4. /\ x \in Rendering /\ x.got = {} /\ x.whole = drawing[r].whole
      /\ \/ x.at = "ended" /\ (drawing[r].whole => k = n)
         \/ x.at = "running" /\ x.step = k + 1 /\ k + 1 \in 1..n
  <2>1. {} \in SUBSET Reading /\ k + 1 \in Nat
    BY <1>3
  <2>2. CASE k = n \/ \E g \in drawing[r].got : g.stop
    <3>1. x = [drawing[r] EXCEPT !.at = "ended", !.got = {}]
      BY <1>2, <2>2
    <3>2. drawing[r].whole => k = n
      BY <1>3, <2>2
    <3> HIDE DEF x, k
    <3> QED BY <1>1, <2>1, <3>1, <3>2 DEF Rendering
  <2>3. CASE ~(k = n \/ \E g \in drawing[r].got : g.stop)
    <3>1. x = [drawing[r] EXCEPT !.step = k + 1, !.got = {}] /\ k + 1 \in 1..n
      BY <1>2, <1>3, <2>3
    <3> DEFINE j == k + 1
    <3>2. x = [drawing[r] EXCEPT !.step = j, !.got = {}] /\ j \in 1..n /\ j \in Nat
      BY <2>1, <3>1
    <3> HIDE DEF x, j
    <3>3. x \in Rendering /\ x.got = {} /\ x.whole = drawing[r].whole /\ x.at = "running" /\ x.step = j
      BY <1>1, <2>1, <3>2 DEF Rendering
    <3> QED BY <3>2, <3>3 DEF j
  <2> QED BY <2>2, <2>3
<1> HIDE DEF x
<1>5. /\ \A e \in new : /\ e.by = r /\ (r = latest => e.saw >= confirmed)
                        /\ \E p \in Panels!Steps[k] : p.name = e.part
      /\ \A e, f \in new : e.part = f.part => e = f
      /\ \A p \in Panels!Steps[k] : \E e \in new : e.part = p.name
  <2>1. \A g \in drawing[r].got :
          /\ Panels!Drawing(g) \in new
          /\ Panels!Drawing(g).by = g.by /\ Panels!Drawing(g).part = g.part /\ Panels!Drawing(g).saw = g.saw
    BY DEF Panels!Drawing
  <2>2. \A e \in new : \E g \in drawing[r].got : e = Panels!Drawing(g)
    OBVIOUS
  <2> HIDE DEF new, k
  <2> QED BY <1>1, <1>3, <2>1, <2>2
<1>6. shown' = CASE Panels!Shape.kind = "append"  -> shown \cup new
                 [] Panels!Shape.kind = "replace" -> {d \in shown : \A e \in new : e.part # d.part} \cup new
                 [] Panels!Shape.kind = "newest"  -> IF r = latest /\ r > hidden THEN shown \cup new ELSE shown
  BY <1>1 DEF Panels!Placed
<1> HIDE DEF new, k
<1>7. /\ Panels!Shape.kind = "append" => shown' = shown \cup new
      /\ Panels!Shape.kind = "replace" =>
           shown' = {d \in shown : \A e \in new : e.part # d.part} \cup new
      /\ Panels!Shape.kind = "newest" =>
           shown' = IF r = latest /\ r > hidden THEN shown \cup new ELSE shown
  BY <1>6
<1>8. /\ drawing' \in [Panels!Renders -> Rendering]
      /\ \A q \in Panels!Renders : drawing'[q] = IF q = r THEN x ELSE drawing[q]
  BY <1>1, <1>4
<1>9. PanelsTyped'
  BY <1>1, <1>8 DEF PanelsInv, PanelsTyped
<1>10. \A q \in Panels!Running' : q \in Panels!Running /\ (q = r => x.at = "running")
  BY <1>1, <1>8 DEF Panels!Running
<1>11. RenderingsAreInOrder'
  <2>1. \A q \in Panels!Renders : drawing'[q].at = "none" <=> drawing[q].at = "none"
    BY <1>1, <1>4, <1>8
  <2> QED BY <1>1, <1>10, <2>1 DEF PanelsInv, RenderingsAreInOrder
<1>12. ReadingsAreOfTheirStep'
  <2> SUFFICES ASSUME NEW q \in Panels!Running'
               PROVE  /\ drawing'[q].step \in DOMAIN Panels!Steps
                      /\ \A g \in drawing'[q].got :
                           /\ g.by = q /\ g.saw <= version /\ (q = latest => g.saw >= confirmed)
                           /\ \E o \in Panels!Steps[drawing'[q].step] : o.name = g.part
                      /\ \A g, h \in drawing'[q].got : g.part = h.part => g = h
                      /\ drawing'[q].whole => \A g \in drawing'[q].got : ~g.stop
    BY <1>1 DEF ReadingsAreOfTheirStep
  <2>1. CASE q = r
    <3>1. drawing'[q] = x /\ x.at = "running"
      BY <1>8, <1>10, <2>1
    <3> QED BY <1>2, <1>4, <3>1
  <2>2. CASE q # r
    <3>1. drawing'[q] = drawing[q] /\ q \in Panels!Running
      BY <1>8, <1>10, <2>2 DEF Panels!Running
    <3> QED BY <3>1 DEF PanelsInv, ReadingsAreOfTheirStep
  <2> QED BY <2>1, <2>2
<1>13. Panels!Shape.kind \in {"append", "replace", "newest"} /\ (Panels!Shape.kind # "newest" => hidden = 0)
  BY <1>1, ShapeIs DEF PanelsInv, DrawingsAreInOrder
<1>14. r \in 1..latest /\ latest \in Panels!Renders
  BY <1>1, ShapeIs DEF PanelsInv, RenderingsAreInOrder, Panels!Renders
<1>15. DrawingsAreInOrder'
  <2>1. \A d \in shown' : d \in shown \/ (d \in new /\ r > hidden)
    BY <1>7, <1>13, <1>14
  <2>2. \A d \in shown' : d.by \in 1..latest /\ d.by > hidden /\ (d.by = latest => d.saw >= confirmed)
    BY <1>5, <1>14, <2>1 DEF PanelsInv, DrawingsAreInOrder
  <2>3. ~Panels!Shape.hides => hidden = 0
    BY DEF PanelsInv, DrawingsAreInOrder
  <2> QED BY <1>1, <2>2, <2>3 DEF DrawingsAreInOrder
<1>16. r # latest => drawing'[latest] = drawing[latest] /\ mixed
  BY <1>1, <1>8, <1>14 DEF PanelsInv, RenderingsAreInOrder
<1>17. r = latest => drawing'[latest] = x
  BY <1>8, <1>14
<1>18. PartsAreDrawnOnce'
  <2>1. CASE Panels!Shape.kind = "replace"
    <3>1. \A d, e \in shown : d.part = e.part => d = e
      BY <2>1 DEF PanelsInv, PartsAreDrawnOnce
    <3>2. \A d, e \in shown' : d.part = e.part => d = e
      BY <1>5, <1>7, <2>1, <3>1
    <3> QED BY <1>1, <2>1, <3>2 DEF PartsAreDrawnOnce
  <2>2. CASE Panels!Shape.kind = "newest" \/ (Panels!Shape.kind = "append" /\ ~mixed)
    <3>1. /\ \A d, e \in shown : d.part = e.part => d = e
          /\ \A d \in shown : d.by = latest /\
               \E i \in DOMAIN Panels!Steps : Begun(i) /\ \E p \in Panels!Steps[i] : p.name = d.part
      BY <2>2 DEF PanelsInv, PartsAreDrawnOnce
    <3>2. CASE r # latest
      <4>1. shown' = shown /\ \A i \in DOMAIN Panels!Steps : Begun(i)' <=> Begun(i)
        BY <1>1, <1>7, <1>16, <2>2, <3>2 DEF Begun
      <4> QED BY <1>1, <3>1, <4>1 DEF PartsAreDrawnOnce
    <3>3. CASE r = latest
      <4>1. \A i \in DOMAIN Panels!Steps : (Begun(i) <=> i < k) /\ (i <= k => Begun(i)')
        BY <1>1, <1>2, <1>3, <1>4, <1>17, <3>3 DEF Begun, k
      <4>2. shown' \subseteq shown \cup new
        BY <1>7, <2>2
      <4>3. \A d \in shown, e \in new : d.part # e.part
        <5> TAKE d \in shown, e \in new
        <5>1. PICK i \in DOMAIN Panels!Steps : i < k /\ \E p \in Panels!Steps[i] : p.name = d.part
          BY <3>1, <4>1
        <5>2. \E q \in Panels!Steps[k] : q.name = e.part
          BY <1>5
        <5>3. k \in DOMAIN Panels!Steps /\ i # k
          BY <1>2, <1>3, <5>1
        <5> QED BY <1>1, <5>1, <5>2, <5>3, ShapeIs
      <4>4. \A d, e \in shown' : d.part = e.part => d = e
        BY <1>5, <3>1, <4>2, <4>3
      <4>5. \A d \in shown' : d.by = latest /\
              \E i \in DOMAIN Panels!Steps : Begun(i)' /\ \E p \in Panels!Steps[i] : p.name = d.part
        <5> TAKE d \in shown'
        <5>1. CASE d \in shown
          <6>1. PICK i \in DOMAIN Panels!Steps : Begun(i) /\ \E p \in Panels!Steps[i] : p.name = d.part
            BY <3>1, <5>1
          <6>2. Begun(i)'
            BY <1>2, <1>3, <4>1, <6>1
          <6> QED BY <3>1, <5>1, <6>1, <6>2
        <5>2. CASE d \in new
          <6>1. PICK i \in DOMAIN Panels!Steps : i = k
            BY <1>2, <1>3
          <6>2. Begun(i)'
            BY <1>2, <1>3, <4>1, <6>1
          <6>3. \E p \in Panels!Steps[i] : p.name = d.part
            BY <1>5, <5>2, <6>1
          <6>4. d.by = latest
            BY <1>5, <3>3, <5>2
          <6> QED BY <6>2, <6>3, <6>4
        <5> QED BY <4>2, <5>1, <5>2
      <4> QED BY <1>1, <4>4, <4>5 DEF PartsAreDrawnOnce
    <3> QED BY <3>2, <3>3
  <2>3. CASE Panels!Shape.kind = "append" /\ mixed
    BY <1>1, <2>3 DEF PartsAreDrawnOnce
  <2> QED BY <1>1, <1>13, <2>1, <2>2, <2>3 DEF PanelsInv, PanelsTyped
<1>19. \A d \in shown : \E e \in shown' : e.part = d.part /\ (Panels!Shape.kind = "replace" \/ e = d)
                                          /\ (e = d \/ e.by = r)
  BY <1>5, <1>7, <1>13
<1>20. EarlierPartsAreDrawn'
  <2> SUFFICES ASSUME latest > hidden, drawing'[latest].whole, NEW i \in DOMAIN Panels!Steps, Begun(i)',
                      NEW p \in Panels!Steps[i]
               PROVE  \E d \in shown' : d.part = p.name /\ (Panels!Shape.kind # "replace" \/ ~mixed => d.by = latest)
    BY <1>1 DEF EarlierPartsAreDrawn
  <2>1. ASSUME drawing[latest].whole, Begun(i)
        PROVE  \E d \in shown : d.part = p.name /\ (Panels!Shape.kind # "replace" \/ ~mixed => d.by = latest)
    BY <2>1 DEF PanelsInv, EarlierPartsAreDrawn
  <2>2. CASE r # latest
    <3>1. drawing[latest].whole /\ Begun(i)
      BY <1>1, <1>16, <2>2 DEF Begun
    <3> QED BY <1>16, <1>19, <2>1, <2>2, <3>1
  <2>3. CASE r = latest
    <3>1. drawing[latest].whole /\ i <= k
      BY <1>1, <1>2, <1>3, <1>4, <1>17, <2>3 DEF Begun
    <3>2. CASE i = k
      <4>1. new \subseteq shown'
        BY <1>7, <1>13, <2>3
      <4> QED BY <1>5, <2>3, <3>2, <4>1
    <3>3. CASE i < k
      <4>1. Begun(i)
        BY <2>3, <3>3 DEF Begun, k
      <4> QED BY <1>19, <2>1, <2>3, <3>1, <4>1
    <3> QED BY <1>2, <1>3, <3>1, <3>2, <3>3
  <2> QED BY <2>2, <2>3
<1> QED BY <1>9, <1>11, <1>12, <1>15, <1>18, <1>20 DEF PanelsInv

(* A write under way: its form, and the version it was stored as, if it was. *)
Writes == [id : Nat, how : {"in place", "may stay", "drawn again"}, stored : Nat]

WritesAreRecords == pressed \in Nat /\ \A w \in writes : w \in Writes

LEMMA RecordsKept ==
  ASSUME WritesAreRecords, version \in Nat, [Panels!Next]_panelVars PROVE WritesAreRecords'
<1>1. CASE Panels!Press
  <2>1. PICK name \in Panels!Offered :
          writes' = writes \cup {[id |-> pressed, how |-> Panels!How(name), stored |-> 0]}
    BY <1>1 DEF Panels!Press
  <2>2. Panels!How(name) \in {"in place", "may stay", "drawn again"}
    BY DEF Panels!How
  <2>3. [id |-> pressed, how |-> Panels!How(name), stored |-> 0] \in Writes
    BY <2>2 DEF WritesAreRecords, Writes
  <2>4. pressed' = pressed + 1
    BY <1>1 DEF Panels!Press
  <2> QED BY <2>1, <2>3, <2>4 DEF WritesAreRecords
<1>2. CASE Panels!Store
  <2>1. PICK w \in writes : writes' = (writes \ {w}) \cup {[w EXCEPT !.stored = version + 1]}
    BY <1>2 DEF Panels!Store
  <2>2. w \in Writes /\ version + 1 \in Nat
    BY <2>1 DEF WritesAreRecords
  <2>3. [w EXCEPT !.stored = version + 1] \in Writes
    BY <2>2 DEF Writes
  <2> QED BY <1>2, <2>1, <2>3 DEF Panels!Store, WritesAreRecords
<1>3. CASE Panels!Fail \/ Panels!Left \/ Panels!Answer
  BY <1>3 DEF Panels!Fail, Panels!Left, Panels!Answer, WritesAreRecords
<1>4. CASE UNCHANGED <<writes, pressed>>
  BY <1>4 DEF WritesAreRecords
<1> QED BY <1>1, <1>2, <1>3, <1>4 DEF Panels!Next, panelVars, Panels!Hide, Panels!Render,
                                      Panels!Read, Panels!Draw

LEMMA PanelsStep ==
  ASSUME PanelsInv, WritesAreRecords, [Panels!Next]_panelVars PROVE PanelsInv'
<1>1. version \in Nat /\ confirmed \in 0..version /\ \A w \in writes : w.stored \in 0..version
  BY DEF PanelsInv, PanelsTyped
<1>2. CASE UNCHANGED panelVars
  BY <1>1, <1>2, WritesKept DEF panelVars
<1>3. CASE Panels!Render
  BY <1>1, <1>3, BeginKept DEF Panels!Render
<1>4. CASE Panels!Answer
  <2>1. PICK w \in writes : writes' = writes \ {w} /\ confirmed' = Panels!Told(w)
    BY <1>4 DEF Panels!Answer
  <2>2. confirmed' \in 0..version
    BY <1>1, <2>1 DEF Panels!Told
  <2> QED BY <1>1, <1>4, <2>1, <2>2, BeginKept DEF Panels!Answer
<1>5. CASE Panels!Press
  <2>1. PICK how : writes' = writes \cup {[id |-> pressed, how |-> how, stored |-> 0]}
    BY <1>5 DEF Panels!Press
  <2>2. \A w \in writes' : w.stored \in 0..version
    BY <1>1, <2>1
  <2> QED BY <1>1, <1>5, <2>2, WritesKept DEF Panels!Press
<1>6. CASE Panels!Store
  <2>1. PICK w \in writes : writes' = (writes \ {w}) \cup {[w EXCEPT !.stored = version + 1]}
    BY <1>6 DEF Panels!Store
  <2>2. version' = version + 1
        /\ UNCHANGED <<panel, latest, drawing, mixed, shown, confirmed, hidden>>
    BY <1>6 DEF Panels!Store
  <2> DEFINE x == [w EXCEPT !.stored = version + 1]
  <2>3. x.stored = version + 1
    <3>1. w \in Writes
      BY <2>1 DEF WritesAreRecords
    <3> QED BY <3>1 DEF Writes
  <2> HIDE DEF x
  <2>5. writes' = (writes \ {w}) \cup {x} /\ version' = version + 1
    BY <2>1, <2>2 DEF x
  <2>4. \A v \in writes' : v.stored \in 0..version'
    BY <1>1, <2>3, <2>5
  <2> QED BY <1>1, <2>2, <2>4, WritesKept
<1>7. CASE Panels!Fail \/ Panels!Left
  <2>1. /\ UNCHANGED <<panel, latest, drawing, mixed, shown, version, confirmed, hidden>>
        /\ writes' \subseteq writes
    BY <1>7 DEF Panels!Fail, Panels!Left
  <2> QED BY <1>1, <2>1, WritesKept
<1> QED BY <1>2, <1>3, <1>4, <1>5, <1>6, <1>7, HideKept, ReadKept, DrawKept DEF Panels!Next

LEMMA PanelsAreCurrent == PanelsInv => PageIsCurrent
<1> SUFFICES ASSUME PanelsInv PROVE Panels!NewestIsWhole /\ Panels!HiddenIsForgotten
  BY DEF PageIsCurrent, Panels!PageIsCurrent
<1>1. Panels!HiddenIsForgotten
  BY DEF PanelsInv, DrawingsAreInOrder, Panels!HiddenIsForgotten
<1>2. ASSUME Panels!Quiet, drawing[latest].whole, latest > hidden, NEW p \in Panels!Parts
      PROVE  /\ Panels!Shape.kind # "replace" \/ ~mixed =>
                  \E d \in Panels!Shown(p.name) : d.by = latest /\ d.saw >= confirmed
             /\ Panels!Shape.kind # "append" \/ ~mixed => Panels!Cardinality(Panels!Shown(p.name)) = 1
  <2>1. latest \in Panels!Renders /\ drawing[latest].at # "running"
    BY <1>2, ShapeIs DEF Panels!Quiet, Panels!Running, Panels!Renders, PanelsInv, PanelsTyped
  <2>2. PICK i \in DOMAIN Panels!Steps : p \in Panels!Steps[i]
    BY DEF Panels!Parts
  <2>3. PICK d \in shown : d.part = p.name /\ (Panels!Shape.kind # "replace" \/ ~mixed => d.by = latest)
    BY <1>2, <2>1, <2>2 DEF PanelsInv, EarlierPartsAreDrawn, Begun
  <2>4. d \in Panels!Shown(p.name) /\ (d.by = latest => d.saw >= confirmed)
    BY <2>3 DEF Panels!Shown, PanelsInv, DrawingsAreInOrder
  <2>5. ASSUME Panels!Shape.kind # "append" \/ ~mixed
        PROVE  Panels!Cardinality(Panels!Shown(p.name)) = 1
    <3>1. \A e \in Panels!Shown(p.name) : e = d
      BY <2>3, <2>5 DEF PanelsInv, PartsAreDrawnOnce, Panels!Shown
    <3>2. Panels!Shown(p.name) = {d}
      BY <2>4, <3>1
    <3>3. Cardinality({d}) = 1
      BY FS_Singleton
    <3> QED BY <3>2, <3>3 DEF Panels!Cardinality, Cardinality, Panels!IsFiniteSet, IsFiniteSet
  <2> QED BY <2>3, <2>4, <2>5
<1> QED BY <1>1, <1>2 DEF Panels!NewestIsWhole

(* Whatever renderings overlap, reads fail or come late, writes succeed and *)
(* tabs are hidden: when nothing is under way a page shows all that its     *)
(* newest rendering read, once, and every write it was told of - with the   *)
(* two exceptions where older answers may come last -, and nothing that was *)
(* shown before the tab was hidden.  For each of the Hub's panels, and any  *)
(* number of renderings and writes.                                        *)
THEOREM PageCurrent == PagesSpec => []PageIsCurrent
<1>1. PagesInit => PanelsInv /\ WritesAreRecords
  BY PanelsBegin DEF PagesInit, Panels!Init, WritesAreRecords
<1>2. [PagesNext]_pageVars => [Panels!Next]_panelVars
  BY DEF PagesNext, pageVars
<1>3. PanelsInv /\ WritesAreRecords /\ [PagesNext]_pageVars => PanelsInv' /\ WritesAreRecords'
  BY <1>2, PanelsStep, RecordsKept DEF PanelsInv, PanelsTyped
<1> QED BY <1>1, <1>3, PanelsAreCurrent, PTL DEF PagesSpec
=============================================================================

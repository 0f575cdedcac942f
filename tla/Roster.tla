------------------------------- MODULE Roster -------------------------------
(* plugins/members and bot/member-resolver.ts: administrators keep the      *)
(* roster by Discord login, and the bot looks the numeric ids up and writes *)
(* them back, one await after it read the row.  Hub and bot are processes   *)
(* of their own on one database.                                            *)
CONSTANTS
  Members,   \* ids of glab_member, never used twice
  Users,     \* glab_user
  Handles,   \* Discord logins; the id of a login is written as the login
  None,
  Deleted

RosterAssumption ==
  /\ None \notin Users \cup Handles
  /\ None # Deleted
  /\ {None, Deleted} \cap [user : Users \cup {None}, named : BOOLEAN,
                           handle : Handles \cup {None}, discord : Handles \cup {None}] = {}

VARIABLES
  member,    \* glab_member: user_id, whether display_name is kept, handle, id
  tick,      \* the rows the current tick of the resolver read, still to search
  stopped    \* the resolver

vars == <<member, tick, stopped>>

Init ==
  /\ member = [m \in Members |-> None]
  /\ tick = {}
  /\ stopped = FALSE

Listed == {m \in Members : member[m] \notin {None, Deleted}}
Logins == Handles \cup {None}

Create(m, h) ==
  /\ member[m] = None
  /\ member' = [member EXCEPT ![m] = [user |-> None, named |-> TRUE, handle |-> h, discord |-> None]]
  /\ UNCHANGED <<tick, stopped>>

RenameLinked(m) ==   \* mutant: the name is written whoever the row belongs to
  /\ m \in Listed
  /\ member' = [member EXCEPT ![m].named = TRUE]
  /\ UNCHANGED <<tick, stopped>>

(* A name given to a row that is linked is dropped: Cernere has it.         *)
Rename(m) ==
  /\ m \in Listed
  /\ member' = [member EXCEPT ![m].named = (member[m].user = None)]
  /\ UNCHANGED <<tick, stopped>>

(* Another login drops the id that belonged to the one before.              *)
ChangeHandle(m, h) ==
  /\ m \in Listed
  /\ member' = [member EXCEPT ![m].handle = h,
                              ![m].discord = IF member[m].handle = h THEN @ ELSE None]
  /\ UNCHANGED <<tick, stopped>>

Link(m, u) ==
  /\ m \in Listed /\ member[m].user = None
  /\ \A n \in Listed : member[n].user # u
  /\ member' = [member EXCEPT ![m].user = u, ![m].named = FALSE]
  /\ UNCHANGED <<tick, stopped>>

Delete(m) ==
  /\ m \in Listed
  /\ member' = [member EXCEPT ![m] = Deleted]
  /\ UNCHANGED <<tick, stopped>>

NeedingResolution == {m \in Listed : member[m].discord = None /\ member[m].handle # None}

(* Ticks do not overlap.  The rows are read once, then searched in turn.    *)
Tick ==
  /\ ~stopped /\ tick = {}
  /\ tick' = {[id |-> m, handle |-> member[m].handle] : m \in NeedingResolution}
  /\ UNCHANGED <<member, stopped>>

WriteByRow(row) ==   \* mutant: the row is found by its id alone
  IF /\ row.id \in Listed /\ member[row.id].discord = None
     /\ \A n \in Listed : member[n].discord # row.handle
  THEN [member EXCEPT ![row.id].discord = row.handle]
  ELSE member

(* setMemberDiscordUserId: the row must still have the login that was       *)
(* searched and no id; the column is UNIQUE, so a second row with the login *)
(* is refused and stays unresolved.                                         *)
Write(row) ==
  IF /\ row.id \in Listed /\ member[row.id].discord = None
     /\ member[row.id].handle = row.handle
     /\ \A n \in Listed : member[n].discord # row.handle
  THEN [member EXCEPT ![row.id].discord = row.handle]
  ELSE member

Found(row) ==
  /\ row \in tick
  /\ member' = IF stopped THEN member ELSE Write(row)
  /\ tick' = IF stopped THEN {} ELSE tick \ {row}
  /\ UNCHANGED stopped

(* No member has the login, or the search fails.                            *)
NotFound(row) ==
  /\ row \in tick
  /\ tick' = IF stopped THEN {} ELSE tick \ {row}
  /\ UNCHANGED <<member, stopped>>

Stop ==
  /\ ~stopped
  /\ stopped' = TRUE
  /\ UNCHANGED <<member, tick>>

Next ==
  \/ \E m \in Members, h \in Logins : Create(m, h) \/ ChangeHandle(m, h)
  \/ \E m \in Members : Rename(m) \/ Delete(m)
  \/ \E m \in Members, u \in Users : Link(m, u)
  \/ Tick
  \/ \E row \in tick : Found(row) \/ NotFound(row)
  \/ Stop

Spec == Init /\ [][Next]_vars

TypeOK ==
  /\ member \in [Members -> {None, Deleted} \cup
       [user : Users \cup {None}, named : BOOLEAN, handle : Logins, discord : Logins]]
  /\ tick \subseteq [id : Members, handle : Handles]
  /\ stopped \in BOOLEAN

(* Whatever an administrator did between the read of a row and the write of *)
(* its id (an edit, a link, a deletion; member-resolver.ts:61), an id is    *)
(* that of the login its row has and no two rows have one, a user is linked *)
(* once, and GLAB keeps no name of a linked member.                         *)
RosterIsCurrent ==
  \A m \in Listed :
    /\ member[m].discord # None => member[m].discord = member[m].handle
    /\ member[m].user # None => ~member[m].named
    /\ \A n \in Listed \ {m} :
         /\ member[m].discord # None => member[n].discord # member[m].discord
         /\ member[m].user # None => member[n].user # member[m].user
=============================================================================

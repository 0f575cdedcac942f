------------------------------ MODULE JobOwner ------------------------------
(* plugins/jobs: job postings and who owns them.  A posting of the Hub is   *)
(* owned by its poster; one of Discord, or older than the ownership, by     *)
(* nobody until an administrator assigns it.  An assignment names the owner *)
(* and the revision it was decided on, is recorded, and can be undone while *)
(* nothing was assigned since.  Each handler is one SQLite transaction.     *)
EXTENDS Naturals, Sequences

CONSTANTS
  Jobs,         \* ids of glab_job
  Users,        \* glab_user
  Operations,   \* operation ids administrators choose
  Discord,      \* the poster of a job added with /job
  None,
  MaxAudit      \* bound of the model: rows of the audit table

ASSUME JobOwnerAssumption ==
  /\ None \notin Users
  /\ None \notin [owner : Users \cup {None}, revision : Nat, poster : Users \cup {Discord},
                   open : BOOLEAN]

VARIABLES
  job,    \* glab_job: owner_user_id, owner_revision, posted_by, status
  audit   \* glab_job_owner_migration, in the order of its ids

vars == <<job, audit>>

Owners == Users \cup {None}

(* Rows older than the columns come with no owner and revision 0.           *)
Init ==
  /\ job \in [Jobs -> {None} \cup
       [owner : {None}, revision : {0}, poster : Users \cup {Discord}, open : {TRUE}]]
  /\ audit = <<>>

Post(j, u) ==
  /\ job[j] = None
  /\ job' = [job EXCEPT ![j] = [owner |-> u, revision |-> 0, poster |-> u, open |-> TRUE]]
  /\ UNCHANGED audit

PostFromDiscord(j) ==
  /\ job[j] = None
  /\ job' = [job EXCEPT ![j] = [owner |-> None, revision |-> 0, poster |-> Discord, open |-> TRUE]]
  /\ UNCHANGED audit

(* An operation id that is in the table answers from the table: what it     *)
(* answered before, or a conflict; either way nothing is written.           *)
Unused(op) == \A i \in DOMAIN audit : audit[i].operation # op

ChangeOwnerByOwner(j, op, expected, revision, owner, undoes) ==   \* mutant: the owner alone is compared
  /\ job[j] # None /\ Len(audit) < MaxAudit
  /\ job[j].owner = expected
  /\ job' = [job EXCEPT ![j].owner = owner, ![j].revision = revision + 1]
  /\ audit' = Append(audit, [operation |-> op, job |-> j, before |-> expected, after |-> owner,
                             revision |-> revision, undoes |-> undoes])

(* The row is changed only when owner and revision are the expected ones;   *)
(* the audit row commits with it.  Its `revision' is before_revision.       *)
ChangeOwner(j, op, expected, revision, owner, undoes) ==
  /\ job[j] # None /\ Len(audit) < MaxAudit
  /\ job[j].owner = expected /\ job[j].revision = revision
  /\ job' = [job EXCEPT ![j].owner = owner, ![j].revision = revision + 1]
  /\ audit' = Append(audit, [operation |-> op, job |-> j, before |-> expected, after |-> owner,
                             revision |-> revision, undoes |-> undoes])

Migrate(j, op, expected, revision, owner, kind) ==
  /\ Unused(op)
  /\ job[j] # None
  /\ kind = "exact_user_id" => job[j].poster = owner
  /\ ChangeOwner(j, op, expected, revision, owner, 0)

(* A row that itself undoes another cannot be undone.                       *)
Rollback(i, op) ==
  /\ i \in DOMAIN audit /\ audit[i].undoes = 0
  /\ Unused(op)
  /\ ChangeOwner(audit[i].job, op, audit[i].after, audit[i].revision + 1, audit[i].before, i)

(* POST /:id/close by the owner or an administrator.                        *)
Close(j, u, isAdmin) ==
  /\ job[j] # None
  /\ job[j].owner = u \/ isAdmin
  /\ job' = [job EXCEPT ![j].open = FALSE]
  /\ UNCHANGED audit

(* /job close asks for the name that posted it, not for the owner.          *)
CloseFromDiscord(j, isAdmin) ==
  /\ job[j] # None
  /\ job[j].poster = Discord \/ isAdmin
  /\ job' = [job EXCEPT ![j].open = FALSE]
  /\ UNCHANGED audit

Kinds == {"exact_user_id", "admin_verified", "authenticated_link"}

Next ==
  \/ \E j \in Jobs, u \in Users : Post(j, u)
  \/ \E j \in Jobs : PostFromDiscord(j)
  \/ \E j \in Jobs, op \in Operations, expected \in Owners, revision \in 0..MaxAudit,
        owner \in Users, kind \in Kinds : Migrate(j, op, expected, revision, owner, kind)
  \/ \E i \in 1..MaxAudit, op \in Operations : Rollback(i, op)
  \/ \E j \in Jobs, u \in Users, isAdmin \in BOOLEAN : Close(j, u, isAdmin)
  \/ \E j \in Jobs, isAdmin \in BOOLEAN : CloseFromDiscord(j, isAdmin)

Spec == Init /\ [][Next]_vars

(* Types: an audit row is about a posted job and a rollback names an        *)
(* earlier row.                                                             *)
TypeOK ==
  /\ job \in [Jobs -> {None} \cup
       [owner : Owners, revision : Nat, poster : Users \cup {Discord}, open : BOOLEAN]]
  /\ audit \in Seq([operation : Operations, job : Jobs, before : Owners, after : Owners,
                    revision : Nat, undoes : Nat])

HistoryIsWhole ==
  /\ \A j \in Jobs : job[j] # None =>
       \A r \in 0..(job[j].revision - 1) :
         \E i \in DOMAIN audit : audit[i].job = j /\ audit[i].revision = r
  /\ \A i \in DOMAIN audit :
       LET j == audit[i].job IN
       /\ job[j] # None /\ audit[i].revision < job[j].revision
       /\ audit[i].revision + 1 = job[j].revision => audit[i].after = job[j].owner
       /\ \A k \in DOMAIN audit : audit[k].job = j =>
            /\ i < k => audit[i].revision < audit[k].revision
            /\ audit[k].revision = audit[i].revision + 1 => audit[k].before = audit[i].after

RollbacksFollow ==
  \A i, k \in DOMAIN audit : audit[k].undoes = i =>
    /\ audit[k].job = audit[i].job
    /\ audit[k].revision = audit[i].revision + 1
    /\ audit[k].after = audit[i].before

(* The audit table is the whole history of every owner: the rows of a job   *)
(* count its revisions without a gap or a repetition, each begins with the  *)
(* owner the one before it left, and the last one left the owner it has; a  *)
(* rollback comes next after what it undoes.  No assignment is lost when    *)
(* two administrators decide on what both read, nor when an owner comes     *)
(* back (owner-migration.ts:79 compares the revision too).                  *)
OwnersAreAudited == HistoryIsWhole /\ RollbacksFollow
=============================================================================

------------------------------ MODULE Releases ------------------------------
(* The game list: a project's description and its GitHub releases.  Admins *)
(* create and edit a project and ask for a sync with its repository; the   *)
(* sync reads the row, waits for GitHub (or the client's cache) and then   *)
(* stores what it got.  The bot announces releases not yet notified.       *)
EXTENDS FiniteSets

CONSTANTS
  Projects, Repos, Syncs,
  Releases,     \* release ids of GitHub
  HomeOf,       \* the repository of a release
  None,         \* no row, no repository, no text
  Waiting,      \* an answer of GitHub still awaited
  Unavailable   \* GitHub did not answer, or not in the expected form

ReleasesAssumption ==
  /\ HomeOf \in [Releases -> Repos]
  /\ {None, Waiting, Unavailable} \cap (Projects \cup Repos \cup Releases) = {}
  /\ None # Waiting
  /\ None \notin [repo : Repos \cup {None}, text : Repos \cup {None, "typed"},
                   manual : BOOLEAN, synced : BOOLEAN]

VARIABLES
  project,    \* glab_project: repository, text, description_manual, releases_synced_at
  stored,     \* glab_project_release of a project: release ids
  pending,    \* those of them with notified_at NULL
  sync,       \* POST /projects/:id/github-sync in progress
  cache,      \* GitHubClient.cache
  published,  \* the releases on GitHub, each on the page of its repository
  typed,      \* history: the projects whose last text an admin typed
  imported,   \* history: what the first sync of each repository brought
  announced   \* history: releases of a project posted in the channel

vars == <<project, stored, pending, sync, cache, published, typed, imported, announced>>

NoImport == [order |-> None, of |-> [r \in Repos |-> None]]
Idle == [project |-> None, repo |-> None, data |-> None]
Pages == {Waiting, Unavailable, None} \cup SUBSET Releases

Init ==
  /\ project = [p \in Projects |-> None]
  /\ stored = [p \in Projects |-> {}]
  /\ pending = [p \in Projects |-> {}]
  /\ sync = [s \in Syncs |-> Idle]
  /\ cache = [r \in Repos |-> None]
  /\ published \in SUBSET Releases
  /\ typed = {}
  /\ imported = [p \in Projects |-> NoImport]
  /\ announced = [p \in Projects |-> {}]

Editing == <<stored, pending, sync, cache, published, imported, announced>>

Write(p, row) ==
  /\ project' = [project EXCEPT ![p] = row]
  /\ typed' = IF row.manual THEN typed \cup {p} ELSE typed \ {p}
  /\ UNCHANGED Editing

(* POST /projects                                                          *)
Create(p, repo, text) ==
  /\ project[p] = None
  /\ Write(p, [repo |-> repo, text |-> text, manual |-> text # None, synced |-> FALSE])

(* mergePatch: an absent description keeps text and flag, an empty one     *)
(* hands the text back to GitHub.                                          *)
Patch(p, repo, describe, text) ==
  /\ project[p] # None
  /\ Write(p, [project[p] EXCEPT
       !.repo = repo,
       !.text = IF describe THEN text ELSE @,
       !.manual = IF describe THEN text # None ELSE @])

(* The sync reads the project; getProject looks in its cache.              *)
StartSync(s, p) ==
  /\ sync[s] = Idle
  /\ project[p] # None /\ project[p].repo # None
  /\ LET repo == project[p].repo IN
     sync' = [sync EXCEPT ![s] =
       [project |-> p, repo |-> repo,
        data |-> IF cache[repo] = None THEN Waiting ELSE cache[repo]]]
  /\ UNCHANGED <<project, stored, pending, cache, published, typed, imported, announced>>

(* GitHub answers with the releases of that moment, or not; either goes    *)
(* into the cache (SUCCESS_TTL_MS, DEGRADED_TTL_MS).                        *)
Fetched(s, data) ==
  /\ sync[s].data = Waiting
  /\ data \in {Unavailable, {r \in published : HomeOf[r] = sync[s].repo}}
  /\ sync' = [sync EXCEPT ![s].data = data]
  /\ cache' = [cache EXCEPT ![sync[s].repo] = data]
  /\ UNCHANGED <<project, stored, pending, published, typed, imported, announced>>

Expire(r) ==
  /\ cache[r] # None
  /\ cache' = [cache EXCEPT ![r] = None]
  /\ UNCHANGED <<project, stored, pending, sync, published, typed, imported, announced>>

(* mutant: whatever an admin typed meanwhile                               *)
DescribeAlways(s, row) == [row EXCEPT !.text = sync[s].repo]

(* syncProjectGitHubDescription: the row, as it is now, decides.           *)
Describe(s, row) ==
  IF row.manual THEN row ELSE [row EXCEPT !.text = sync[s].repo]

(* mutants: no first import; a row that is there is written anew           *)
AnnounceBacklog(p, page) == pending[p] \cup (page \ stored[p])
ReplaceRows(p, page) ==
  IF project[p].synced THEN pending[p] \cup page ELSE pending[p]

(* storeProjectReleases: a row inserted is notified already when the       *)
(* project has not been synced; a row that is there keeps its mark.        *)
ToAnnounce(p, page) ==
  IF project[p].synced THEN pending[p] \cup (page \ stored[p]) ELSE pending[p]

Store(s) ==
  LET p == sync[s].project
      page == sync[s].data
      from == sync[s].repo
  IN  /\ page \notin {Waiting, Unavailable, None}
      /\ project' = [project EXCEPT ![p] = [Describe(s, @) EXCEPT !.synced = TRUE]]
      /\ stored' = [stored EXCEPT ![p] = @ \cup page]
      /\ pending' = [pending EXCEPT ![p] = ToAnnounce(p, page)]
      /\ imported' = [imported EXCEPT
           ![p].order = IF @ = None THEN from ELSE @,
           ![p].of[from] = IF @ = None THEN page ELSE @]
      /\ sync' = [sync EXCEPT ![s] = Idle]
      /\ UNCHANGED <<cache, published, typed, announced>>

GiveUp(s) ==
  /\ sync[s].data = Unavailable
  /\ sync' = [sync EXCEPT ![s] = Idle]
  /\ UNCHANGED <<project, stored, pending, cache, published, typed, imported, announced>>

(* The bot posts a release and marks it; without a message it stays.       *)
Announce(p, r) ==
  /\ r \in pending[p]
  /\ announced' = [announced EXCEPT ![p] = @ \cup {r}]
  /\ pending' = [pending EXCEPT ![p] = @ \ {r}]
  /\ UNCHANGED <<project, stored, sync, cache, published, typed, imported>>

Publish(r) ==
  /\ r \notin published
  /\ published' = published \cup {r}
  /\ UNCHANGED <<project, stored, pending, sync, cache, typed, imported, announced>>

Next ==
  \/ \E p \in Projects, repo \in Repos \cup {None}, text \in {None, "typed"} :
       Create(p, repo, text) \/ \E describe \in BOOLEAN : Patch(p, repo, describe, text)
  \/ \E s \in Syncs :
       \/ \E p \in Projects : StartSync(s, p)
       \/ Fetched(s, Unavailable)
       \/ \E page \in SUBSET Releases : Fetched(s, page)
       \/ Store(s)
       \/ GiveUp(s)
  \/ \E r \in Repos : Expire(r)
  \/ \E r \in Releases : Publish(r) \/ \E p \in Projects : Announce(p, r)

Spec == Init /\ [][Next]_vars

TypeOK ==
  /\ \A p \in Projects :
       project[p] # None =>
         project[p] \in [repo : Repos \cup {None}, text : Repos \cup {None, "typed"},
                         manual : BOOLEAN, synced : BOOLEAN]
  /\ stored \in [Projects -> SUBSET Releases]
  /\ pending \in [Projects -> SUBSET Releases]
  /\ sync \in [Syncs -> [project : Projects \cup {None}, repo : Repos \cup {None}, data : Pages]]
  /\ cache \in [Repos -> Pages]
  /\ published \subseteq Releases
  /\ typed \subseteq Projects
  /\ announced \in [Projects -> SUBSET Releases]

(* The first import of the project: its history before the list knew it.   *)
FirstImport(p) ==
  IF imported[p].order = None THEN {} ELSE imported[p].of[imported[p].order]

(* A text an admin typed stays until an admin changes it, whatever sync    *)
(* began before he typed it (data.ts:1091).                                *)
TypedTextStays == \A p \in typed : project[p].text = "typed"

(* Releases found by a project's first sync are never announced, a later   *)
(* one that a sync stored is announced once.                               *)
BacklogIsSilent ==
  \A p \in Projects :
    /\ FirstImport(p) \cap (pending[p] \cup announced[p]) = {}
    /\ announced[p] \cap pending[p] = {}
    /\ stored[p] = FirstImport(p) \cup pending[p] \cup announced[p]

(* The same of every repository a project is given, as data.ts:1101-1103   *)
(* has it: the releases found by the first sync of a registered            *)
(* repository do not flow to Discord.                                      *)
EachRepoIsSilent ==
  \A p \in Projects, r \in Repos :
    imported[p].of[r] # None => imported[p].of[r] \cap announced[p] = {}

(* A sync that waited for GitHub spares what an admin typed meanwhile, and *)
(* the channel what the project's first import brought.                    *)
SyncsSpareTextAndChannel == TypedTextStays /\ BacklogIsSilent
=============================================================================

# GLAB-Hub: formal models

TLA+ models of GLAB-Hub, the TypeScript hub of the GLAB community (a set of
plugins in one Node process, a Discord bot in a second one, and the stores and
services they share), with TLC configurations that check them and TLAPS proofs
of the core. Source paths below are relative to `src/`.

## 1. The system

```
 browser ──HTTP/SSE──► Hub process (Corpus runtime + plugins/*) ──WebSocket──► Cernere
                          │  │  │                                  (identity, user data)
                          │  │  ├──HTTP──► Aedilis (facilities, meetings)
                          │  │  ├──HTTP/WS► Tirocinium (voice calls, "Tr")
                          │  │  ├──HTTP/WS► Odeum relay, Volputas, Di, Calliope, GitHub ...
                          │  └──► PostgreSQL (glab_event, glab_meeting_event)
                          └─────► SQLite (plugins/data.ts) ◄── bot process ──► Discord
```

`server.ts` builds the plugins, starts the Corpus runtime (a git submodule,
outside this repository) and installs the stop signals. Each plugin registers
routes, services and panels. The bot (`bot/index.ts`) is a process of its own
that reads the same SQLite file and the same PostgreSQL store; the two processes
speak only through them and through a few HTTP routes.

### Inventory

| Component | State | Operations | What is hard |
|---|---|---|---|
| Shared Cernere client, `plugins/cernere/project-client.ts` | one WebSocket, the shared `connectPromise`, the `pending` map, `closed` | request, connect (login, handshake), replies, `onerror`/`onclose`, timers, `close()` | late events of superseded sockets, many settlers of one promise, `close()` during a login |
| Cernere client owner, `plugins/cernere/shared-owner.ts` | a map of entries (client, secret, `rotating`), `closed` | get, rotate, revoke, closeAll | a rotation awaits authentication while the entry is revoked, re-created or closed |
| Cernere service token, `plugins/cernere-service-token.ts` | cached token, failure deadline, issue in flight | get a token | a stale failure against a fresh token, sharing one issue |
| Hub launcher, `server.ts`, `plugins/cernere/shutdown.ts` | runtime handle, shutdown promise | start, stop signals, cleanup | a signal during start-up, order of cleanup |
| Notification bot, `bot/notify/*`, `bot/channels.ts`, `bot/forum.ts`, `bot/index.ts` | the ledgers (SQLite, PostgreSQL), `tickInFlight` | the periodic tick over eight sources, posting, recording, stop | lost Discord answers, overlapping ticks, stop between post and record, one failing source starving the next |
| Tirocinium calls, `plugins/tirocinium/call-routes.ts` | `starting`, `calls`, timers, per-call sequence and buffer | start, event stream, frames, delete, timers | aborts at each of five awaits, concurrent frame posts, capacity across awaits |
| Events, `plugins/events/*`, `plugins/facility/meeting-event.ts` | rows of `glab_event`, meeting links, Aedilis reservations | create, import a meeting, delete, Meet links, recurrence, reminders | two stores and no transaction over both, lost answers, repeated handoffs |
| Shared SQLite, `plugins/data.ts` | tables of jobs, consults, reviews, releases, forum ... | CRUD, notification queries and acknowledgments, migration | acknowledgments of rows that changed meanwhile |
| Odeum, hub side, `plugins/odeum/routes.ts`, `program-routes.ts`, `authorization.ts`, `session-store.ts` | sessions and programs (SQLite) | start or resume, end, tickets of viewers, invitations and programs | the event is awaited in PostgreSQL while sessions end and admissions change; two operators of one program |
| Odeum, presenting browser, `plugins/odeum/presenter-ui.ts`, `presenter-connection.ts` | the closure of one presentation: capture, ticket, connection, `closed`, `ending` | pick, start, stop, end the ledger | answers after the stop, a second tab, a page that goes away |
| Odeum, viewer, `plugins/odeum/viewer-*.ts`, `good-batcher.ts`, `reaction-composer.ts` | the page: connection, its chain of messages, goods of a batch, draft, poll | watch, reconnect, press, post, vote, leave | messages awaited one by one, batches on a lost socket, consent per post |
| Consult and presence, `plugins/consult/*`, `plugins/cernere/presence-schema.ts` | consults; the declaration of the presence columns | post, resolve, carry to Discord, read and write presence | a crash between a thread and its record, a shared declaration that fails |
| Cocoiru, `plugins/cocoiru/*` | leases, calls, inbox | announce, call, acknowledge, broadcast | expiry against renewals, windows read from rows that are deleted, a full inbox |
| Attendance, `plugins/attendance/*` | ledger of arrivals, nonces, GPS photos, approvals | four ways of checking in, approve | one attestation over two routes, five steps of a GPS check-in, restarts |
| Access, `plugins/access/*` | registrations, admissions, cursor of the sync | sync, first visit, decide | syncs that share a cursor, late decisions |
| Projects and releases, `plugins/projects/*` | projects, releases, analysis reports, Cernere's keys | create, edit, sync, verify service tokens | a sync that read before an edit, one shared refetch of keys |
| Jobs, `plugins/jobs/*`, `bot/commands/job.ts` | postings, owners, audit | post, close, assign, roll back | decisions on what was read before |
| Members, `plugins/members/*`, `bot/member-resolver.ts` | the roster | edit, link, delete, resolve Discord ids | the bot writes what it read an await ago |
| Daily engagement, `plugins/daily-engagement/*`, `plugins/dashboard/index.ts` | spotlight and quest of a day | choose, complete | two processes choose, a card of yesterday |
| Forum, tech links, quests, roles, `plugins/{forum,tech-links,quests,roles}` | threads, links, comments, quests, roles | write, share, comment, submit, decide | deletion between page and request, repeated shares, decisions on an older text |
| Volputas, `plugins/volputas/*` | the panel: rendering, surveys, form, recorder; the relay queue | review, answer, follow up, record curves | renderings and saves that overlap, answers of an earlier selection |
| Panels, `plugins/*/panel.ts` and others | what is on the page | render, reload, write and render again | two renderings at once, failing parts, pages that must forget |
| Browser shell, `public/src/*` | main area, selection, header | tabs, teams, logout, presence in the header | late answers of what was left |
| Facility, library, progress, Di, Tendentia, profile | none of their own | proxies and views | their pages only (see Panels) |

Hazards, each at its line, with the properties that would catch them, are in
`PROJECT.json` under `hazards`.

What makes each modelled component correct:

* **Client**: no leaked connection, nothing sent unauthenticated, nobody
  forgotten, nothing outstanding after `close()`, answers only from the current
  connection, and to its callers it is a simple request/answer contract.
* **Owner**: every open client can be closed by somebody, the entry in use is
  always served with the secret it claims, a rotation always ends.
* **Bot**: at-most-once for admissions, at-least-once for acknowledged kinds, no
  post of a recorded row, and every notice arrives once outages end.
* **Calls**: one call per user within the capacity, audio without gap or
  repetition, and every call released and Tr told.
* **Odeum, hub**: an event has one live presentation and an ended one never comes
  back; a ticket is issued for what holds when it is issued; a program stays with
  its project.
* **Odeum, browser**: what was stopped stays silent, a page captures once, a failed
  resume ends nothing, and what was presented is ended or the user is told. A viewer
  sends each good once, over the connection of the page, and each public post with
  a consent of its own.
* **Events**: a live event keeps its reservation unless its owner cancels that at the
  booking page, a deletion frees it, a meeting becomes one event, an orphaned reservation is never silent, and every occurrence
  of a weekly event is listed and reminded of once, over a change of the clock too.
* **Process**: everything opened is closed, in order, whenever the stop comes; two
  processes may start on one old database.
* **Access, roster, jobs, releases, boards**: what somebody decided stands until
  somebody who has seen it decides otherwise; what others read late changes nothing.
* **Attendance**: each arrival has its proof, used once.
* **Consults and Cocoiru**: who called is heard, nobody is called twice.
* **Pages**: what is on the page is of what is selected, whole, and no older than the
  write it was told of.

## 2. Modules

| Module | Code | Notes |
|---|---|---|
| `RequestContract` | what callers of the client are promised | abstract specification |
| `CernereClient` | `plugins/cernere/project-client.ts` | implements `RequestContract` under `request <- Seen` |
| `CernereOwner` | `plugins/cernere/shared-owner.ts` | sees a client through `ready()` and `close()` only |
| `GlabHubProofs` | | inductive invariants and theorems of `CernereOwner` and of the process `GlabHub` |
| `StreamsProofs` | | the same of `CernereClient` with its refinement, of `TrCalls` and `Shell` |
| `HubPartsProofs` | | inductive invariants and theorems of `OdeumScreen`, `EventDesk`, `Attendance`, `Cocoiru`, `Presence`, `ServiceToken`, `KeyCache`, `HeaderStatus`, `TrBrowser`, and of their sum |
| `BotPartsProofs` | | the same of `JobOwner`, `Notify`, `Roster`, `Daily`, `Releases`, `Schema`, `Recurrence` |
| `DeliveryProofs` | | the same of `Consults` and `Registrations`, safety only |
| `PagesProofs` | | the same of `Boards`, `ReviewPage`, `ReviewForm`, `Curves`, `Viewer`, `PanelPages` |
| `Notify` | `bot/notify/*`, `bot/channels.ts`, `bot/forum.ts`, queries of `plugins/data.ts` and `plugins/events/store.ts` | |
| `TrCalls` | `plugins/tirocinium/call-routes.ts` | |
| `EventDesk` | `plugins/events/index.ts`, `plugins/events/store.ts`, `plugins/facility/meeting-event.ts` | Aedilis is external, modelled as these files use it |
| `OdeumLedger` | what `plugins/odeum/session-store.ts` promises | abstract specification |
| `OdeumRoutes` | `plugins/odeum/routes.ts`, `program-routes.ts`, `authorization.ts`, `permissions.ts`, `session-store.ts` | implements `OdeumLedger` (same three variables) |
| `OdeumRoutesProofs` | | type correctness, refinement, theorems |
| `OdeumScreen` | `plugins/odeum/presenter-ui.ts`, `presenter-connection.ts`, `live-card.ts` (end) | over `OdeumLedger`; the relay and the picker are external |
| `HubLifecycle` | `server.ts`, `plugins/cernere/shutdown.ts`, the openers and closers of the two stores | `GlabHub` composes it with `CernereOwner` |
| `GlabHub` | the process: launcher, Corpus, plugins, owner | composition |
| `ServiceToken`, `KeyCache` | `plugins/cernere-service-token.ts`; `plugins/projects/service-token-verifier.ts` | two clocks: a token issued, a key believed |
| `Presence` | `plugins/cernere/presence-schema.ts` and the requests that use it | |
| `Consults` | `plugins/consult/*`, two stages of `bot/notify/scheduler.ts`, `bot/forum.ts` | Hub and bot, crash and restart |
| `Cocoiru` | `plugins/cocoiru/*` | |
| `Attendance` | `plugins/attendance/*`, `data.ts` | crash and restart of the Hub at any await |
| `Registrations` | `plugins/access/*` | |
| `Roster` | `plugins/members/*`, `bot/member-resolver.ts`, `data.ts` | two processes |
| `JobOwner` | `plugins/jobs/*`, `bot/commands/job.ts` | |
| `Daily` | `plugins/daily-engagement/*`, `plugins/dashboard/index.ts` | two processes and a card |
| `Releases` | `plugins/projects/index.ts`, `github-client.ts`, `data.ts` | |
| `Schema` | `data.ts` (`ensureSchema`), `bot/db.ts` | two processes, crash |
| `Recurrence` | `plugins/events/recurrence.ts`, `store.ts` | an algorithm against a reference definition (`StartsOf`) |
| `Boards` | `plugins/{forum,tech-links,quests,roles}`, `plugins/dashboard/activity.ts` | |
| `TrBrowser` | `plugins/tirocinium/call-ui.ts`, `call-audio.ts` | |
| `Viewer` | `plugins/odeum/viewer-*.ts`, `good-batcher.ts`, `reaction-composer.ts` | |
| `ReviewPage`, `ReviewForm`, `Curves` | `plugins/volputas/panel.ts`, `index.ts`, `review-follow-up-panel.ts`, `emotion-curve-panel.ts` | |
| `PanelPages` | the rendering of 30 panels | one description per panel, one set of actions |
| `Shell`, `HeaderStatus` | `public/src/shell.ts`, `team-navigation.ts`, `app.ts`, `header-status.ts` | |

The `MC*` modules are instances for TLC. `MCOdeumRoutes` instantiates one module, and
`GlabHub` is explored as it is: `MCSpec` takes new entries and clients in order, since
which of the unused ones it is makes no difference. `MCStreams`, `MCHubParts`, `MCBotParts`, `MCDelivery` and `MCPages` are
sums: their parts share no state, a variable `part` says which one a behaviour
explores, and the others stand still. A sum has no interleaving between its parts and
none is claimed; it lets one run ask several questions of systems that never meet.
The sums leave sets and bounds to their configurations (the presenting page of
`MCStreams` and the notices of `MCDelivery` are spelled out), so that `HubPartsProofs`,
`BotPartsProofs`, `StreamsProofs`, `DeliveryProofs` and `PagesProofs` prove of any
instance what a run checks of one; each assumption of a part is an `ASSUME` of the sum,
which TLC evaluates. Where components do meet they are composed:
the owner, the launcher and the stores in `GlabHub`, the ledger under the routes and
under the screens, Hub and bot in `Consults`, `Roster`, `Daily`, `Releases` and
`Schema`.

### Atomicity

Both processes run JavaScript: a handler and the microtasks it resolves run
without interruption. A step of a model is such a run: from one event (a message,
a timer, an answer, a request) to the next `await` of something external.
Everything a handler changes up to there is one action; whatever is read again
after an `await` is read in the next one. A definition called `...Unclaimed`,
`...AfterClose` and so on, marked `mutant:`, is never used by the specification:
it is the definition after it with a plausible bug, kept to show that each
property can be broken.

### CernereClient

`phase` stands for `connectPromise`: `"login"` while the token is fetched,
`"handshake"` between `new WebSocket` and the settling of the promise, `"idle"`
otherwise. `hand[s] # "waiting"` is the `settled` flag of socket `s`. A caller is
`"joining"` while it awaits `ensureConnected()`, `"pending"` while it is in the
`pending` map, `"orphaned"` when a reply with an unknown type deleted its entry
and settled nothing. Settling the handshake resumes all joiners in the same step
(`Send`: `ws.send` may throw for some of them). Events of superseded sockets stay
enabled until their socket closes, so they arrive arbitrarily late.

### CernereOwner

One key of the map: keys never meet in the code. `rotating` is
`entry[e].candidate # None`. `Rotate` is the code up to `await
candidate.ready()`; `Activate` and `Abandon` are the resumed rotation with the
second look at the map. A facade is not stored: it is the entry it was made for,
and an entry that is no longer in the map refuses its facade (`revoked`).

### Notify

A row of any source is an item with a kind; the sources are walked in the order
of `runTick`. `queue` numbers the rows as they are created, which is the order of the
queries: a batch is a set, of the oldest rows where the query has a limit, and its
oldest row is next. `Enter` loads a batch, `Post` starts a post, and then one of:
`Answered` (posted and recorded), `RecordFails` (posted, the write throws),
`Unanswered` (no message id; the message may be on Discord), or `Stop`.
`Isolated` are the two stages with a `try` of their own, `BestEffort` those that
record whatever the answer, `AtMostOnce` the one that claims its row before
posting. `Ticks` has two elements so that a tick overlapping another one is
expressible; the guard of `StartTick` is `tickInFlight`.

### TrCalls

An id is one start, from `POST /` to the call's end. `at` is the `await` a start
is in, and each `await` may be answered, refused or timed out, with the browser
leaving at any time (`Abort`). `Dispose` is `call.dispose`. `posts` are frame
requests whose owner was checked and whose body is still being read: they end in
any order.

### EventDesk

A request (`Handle`) is a sequence of external steps (`at`): each may fail before it takes
effect (`Fail`), take effect and be answered, or take effect and lose its answer
(`Proceed`, the branch to `"failed"`). `link` is the table that remembers a
meeting for ever. `doomed`, `forced` and `unconfirmed` are history variables: the
rows whose deletion was asked for, those forced, and the reservations whose
creation ended in an error to the caller.

The booking page (`Book`) writes to the same reservations and meetings through
`bookingProxy`, which relays `DELETE /reservations/:id` and the routes of meetings as
they are: `CancelReservation` of any reservation at any time, the date of a meeting
without an event (`FinalizeMeeting`), its survey begun anew (`ReopenMeeting`) and its end
(`CancelMeeting`). A live event may so lose its reservation, which GLAB does not learn
before it deletes the event (`plugins/events/index.ts:315-317`, 404 as already
cancelled); `released` remembers these. What the code answers for is that no request of
its own takes the reservation of a live event, unless its deletion was asked for. That a
meeting handed over is left alone by the booking page is what the page says of it
(`plugins/facility/meeting-panel.ts:109-110`); Aedilis decides it.

### OdeumLedger, OdeumRoutes

`status`, `place` and `presenter` are the rows of `glab_odeum_sessions` and
`glab_odeum_direct_sessions`; the place of a direct stream is its user, so one
partial unique index covers both. A request is its read of the event in
PostgreSQL (`EventRead`) and then one step, because every test before that
`await` is made again after it and SQLite answers without one. `issued` is the
ticket the last step answered with, so that "when a ticket is issued" is a
property of steps. `Invite` passes its tests twice, before and after the QR code.
A refusal, an aborted request and an error are all `Drop`: none of them changes
anything. The audience of an event and the operation policy in front of the
routes are left out: both only refuse more.

### OdeumScreen

An attempt is one run of `startScreenPresentation`; its record is the closure
plus its two requests. `Halted`, `EndLedger` and `Finish` are the three local
functions, used by every way to stop. An `await` is a field (`capture`, `post`,
`end`) that an action answers later, whether or not the box still exists. `post`
and `end` have two steps each, the hub's and the browser's, so that a request
served whose answer is lost is expressible. `relay[s]` is the presenter's seat: the
relay may free it at any time, before or after the page notices. `PageHide` covers
an unloaded page and one the browser keeps. `operator` is one POST of the list of
sessions in some page.

### GlabHub and HubLifecycle

The main module, the initialization, a signal handler and one cleanup per store are
processes that interleave at their awaits. Corpus starts, and a runtime that comes
up late is closed by the module that asked for it. `GlabHub` lets the owner's steps
happen only while Corpus serves, and its cleanup is the owner's `CloseAll`.

### The Hub's parts

`ServiceToken` has a bounded clock; `KeyCache` keeps ages up to the longest that is
compared. In `Presence` a request waits for the declaration, which is one
promise for all, and `failed` is the history of failures since it began to wait.
`Attendance` has one day, one facility and one event; `gateway`
says whether the Hub has the key of the gateway that signs. A GPS check-in is `relay`, ledger, file, photo row, and the
Hub may restart between any two. `Cocoiru`'s routes are single steps; `Tick` is time.
`Registrations` numbers the accounts, so that a page after a cursor is a set of
numbers. `Roster`, `Releases` and `Daily` keep, for every actor that read a row, what
it read. In `Boards` a quest request is the page it was pressed on, the guards that
run before the body is there, and the rest; the forum's and the links' routes are
single steps. `Schema` has three generations of the ledger of arrivals, of which two
are older than the code; DDL is a step, a transaction holds `lock`, a crash rolls it
back. `Recurrence` has a wall clock `Wall(t)` that jumps once, by `shift`.

### The pages

A page is what was drawn, each thing with the rendering that drew it. In `PanelPages`
a panel is described by what its functions do - whether a rendering clears the
container when it begins or replaces it when it ends, whether a late one is dropped,
what each part does when it is refused or lost - and the actions
(`Render`, `Read`, `Draw`, `Press`, `Store`, `Fail`, `Answer`, `Left`, `Hide`) are
common to all. `version` counts the
writes the Hub has applied, `told` those whose success the page was told of. In
`ReviewPage`, `ReviewForm`, `Curves`, `Viewer`, `Shell`, `HeaderStatus` and `TrBrowser`
each `await` is a state of a closure whose answer may come at any time after. In
`ReviewForm` a review is called published (`Announced`, `panel.ts:292`) before the body
of the answer is awaited and the list loaded anew (`Submitted`, lines 293-300): until
then the list shown may lack it, and `Listed` leaves that one review out.

In `HeaderStatus` the values are Cernere's and change elsewhere at any time
(`Elsewhere`): on another device, through the bot, by the end of the hours of an
availability, or by a `PUT` that reaches Cernere after the page gave it up. So the header
may be stale until its next read, and `HeaderIsCurrent` says how stale: it shows nothing,
or a value Cernere has had since it last did what the page knows of - answered the
page's last read or stored the page's last choice. `recent` collects what a value has
been since Cernere last did a request of the page, and becomes `had` when the page learns
that it was done. The choice under way is the one thing shown without Cernere.

## 3. Runs

| Run | Instance | What it shows |
|---|---|---|
| `hub` | 2 entries, 4 clients, 2 secrets, 2 stores, a signal at any time | no client nobody can close, closing in order, `RotatesToAuthenticated`, rotation and shutdown end |
| `streams` | parts `client` (2 callers, 3 sockets), `roomy` and `full` (2 starts of any of 2 users, room for 2 and for 1), `page` (2 presentations of one page), `shell` (2 tabs, 2 teams, 3 clicks) | sockets and callers, the refinement of `RequestContract`, calls released, audio, one capture, late team pages |
| `hub_parts` | parts `screen`, `desk`, `attendance`, `cocoiru`, `presence`, `token`, `keys`, `header`, `voice` | events over two stores beside the booking page (3 requests, 3 reservations, a meeting), the ledger of arrivals, inboxes, what is remembered of Cernere, two presenting pages, the header with values written elsewhere, the page of a voice call |
| `bot_parts` | parts `jobs`, `notify`, `roster`, `daily`, `done`, `releases`, `schema`, `weeks` | owners, the ledger of notices, the roster, spotlight and quest, releases, start of two processes, weekly events |
| `delivery` | parts `posts` (two overlapping posts and more, the bot down), `consults`, `notices` (two reviews and a thread of the forum), `admissions`, with fairness | everything arrives: consults, notices, accounts; a consult has one thread, the rate limit, decisions stand |
| `pages` | parts `viewer`, `reviews`, `form`, `curves`, `panels` (27 panels), `boards` | what is on the pages, and what the boards keep |
| `odeum_routes` | 2 requests, 2 sessions, 1 event and a direct stream, 2 users, 2 projects | the ledger's specification, tickets, programs |
| `notify_reminder`, `tr_abort`, `gps_presence`, `releases_repo`, `key_refetch` | small | a violation each: see findings |

The head of each `MC*` module says what each part's instance holds, its `.cfg` gives the
bounds their values. The two runs `notify_reminder` and `releases_repo` are of `MCBotParts`
with the other parts' sets as small as they can be.

Why the bounds are enough for what is asked. The client: two callers are needed
for one to join the other's connection; three sockets give a current one, a
superseded one and one still closing. The owner: two entries are a revoked one
and the one re-created under its old rotation; four clients allow a rotation on
each. The bot: two rows of one source and a batch of one make the second wait for
the first; in `delivery` two reviews, of which the first may fail the tick, come before a
thread that may be deleted before it is announced. The calls: two
ids of one user are a race for one slot, two users over a capacity of one a race for
the last. The events: three requests are a creation or a handoff repeated and a deletion, or one
and two deletions racing it, while the booking page acts at any time; of three
reservations one may be lost and one belong to a date fixed before the handoff. The ledger: two requests
cross each other's read, and of two sessions one ends and the next begins. The
screens: two attempts are a presentation and its rival in another tab, or a stopped
one and its successor in the same page. The timed parts run longer than their
longest life and its margin together. The consults: two posts at once
and a third after them show what the rate limit still keeps; where the bot runs, two
consults are one that fails and one behind it, and no more posts are under way than rows
are left. Jobs need three operations: an assignment,
another, and the rollback of either. Two administrators' or processes' reads are as
many as one write can invalidate. A page needs two renderings for one to overtake
the other, one write to be late, and one failing read; two surveys, two saves, two
connections likewise. The boards need a quest in three revisions: the one that was
read, the one edited meanwhile, the one published.

`CHECK_DEADLOCK FALSE` stands in the configurations of systems that really stop:
ended processes, used up ids, answered requests, pages that are gone, and the parts
of a sum that end. The sums therefore do not check that the client and the bot never
stop; `EveryCallSettles` and `EveryNoticeArrives` would fail if they did.

### Fairness

* `CernereClient`: weak fairness of what a timer of the process guarantees. The
  login is given `AbortSignal.timeout`, the handshake and each request a
  `setTimeout`. No answer of Cernere is assumed.
* `CernereOwner`, `HubLifecycle`: a candidate's `ready()` settles (by the timers of
  the client), connecting and closing a pool and Corpus' close are answered, and a
  settled promise resumes its waiter (weak). `startCorpus()` need not end.
* `Notify`, `Consults`: the interval keeps starting ticks and the process is restarted
  (weak); a store or Discord that is asked again and again eventually answers
  (strong, per stage and per row). Nothing is assumed of a single attempt. In
  `Consults` this is assumed of the `Healthy` consults only: Discord may refuse the
  other one for ever.
* `Registrations`: the sync is asked for again and again, and Cernere answers now and
  then (strong).
* `TrCalls`: each `await` of a start has a timeout and each call a timer (weak).
  The answer that would let a start succeed is not assumed.
* `OdeumScreen`: the browser delivers an answer it has, runs the 30 s timer, and a
  request is served or fails (weak, per attempt). Nothing is asked of the user, the
  picker or the relay; a page that is gone owes nothing.
* The other modules state no liveness.

In the sums the conditions of one part hold in that part only. `MCDelivery` joins
conditions of different parts in one formula: a behaviour is of one part for ever, so
the others never enable it.

## 4. Findings

* `notify_reminder`: event and job reminders are recorded as notified whatever
  `postToChannel` returned (`bot/notify/scheduler.ts:43-62`), so a reminder whose
  post failed is lost; `DESIGN.md:96-97` says the ledger is updated after a
  successful delivery.
* `tr_abort`: a browser that leaves while the ticket is awaited leaves its call in
  the map until the 20 s timer (`plugins/tirocinium/call-routes.ts:128-131`: the
  listener is added to a signal already aborted, and the `catch` does not
  dispose); `spec/feature/tirocinium-call.md:14-15` says it is released.

* `gps_presence`: a GPS check-in during an event writes the event into its ledger
  row, and the event's attendance reports everybody with such a row as present
  (`plugins/attendance/gps-checkin.ts:146`, `plugins/events/attendance-routes.ts:10`);
  `spec/feature/automatic-facility-attendance.md:19` says that an arrival associates
  no event and that only the organizer's approval confirms attendance.
* `releases_repo`: when the repository of a project changes, the first sync with the
  new one announces all its old releases (`plugins/data.ts:1112`), which
  `data.ts:1101-1102` says must not happen at a first sync.
* `key_refetch`: the interval between two refetches of Cernere's keys starts at the
  last success, so while the endpoint fails every unknown key asks it again
  (`plugins/projects/service-token-verifier.ts:101`, its comment at line 18).

Definitions that state a promise of the documents and that TLC refutes as well, each
on the instance of its module, are kept without a run, because the code and the text
can be read either way or the case is rare:

* `Shell!OnlyLateTeamsAreDiscarded`: a team's page that is not late is dropped too,
  when it was selected twice (`spec/feature/team-navigation.md:16-17`).
* `Consults!AckedIsArchived`: a thread that could not be fetched is taken for a deleted
  one (`bot/notify/scheduler.ts:168`), acknowledged and never archived.
* `Consults!OneConsultPerWindow`: two posts of one user at once both pass the rate
  limit, which is tested before an `await` (`plugins/consult/index.ts:54`). What the
  limit does keep is `PostsAreLimited`: the consults of the last minute and the posts
  that may yet become one are never more than the user can send at once.
* `PanelPages!NewestIsShown`: where a panel replaces what is there and does not look
  at the order (`plugins/tirocinium/panel.ts`, `plugins/facility/*`), the older of two
  answers may stay on the page. `PageIsCurrent` makes this one exception.
* `Boards!ApproversAreCurrent`: the role of an approver is read before the body of the
  request is awaited (`plugins/quests/routes.ts`), so that one may decide who has
  just lost it.

Not a finding but worth knowing: a reply whose `type` is neither `module_response`
nor `error` deletes the pending entry and its timer and settles nothing
(`project-client.ts:253-270`). `EveryCallSettles` is therefore stated for the two
types Cernere sends (the constant `ReplyTypes`); all safety theorems hold for any
set of types.

## 5. Proofs

TLAPS proves, for every value of the constants:

| Module | Theorems |
|---|---|
| `StreamsProofs` | of the client: `Invariance`, `TypeCorrect`, `NoLeakedConnection`, `RequestsAreAuthenticated`, `NobodyIsForgotten`, `ClosedIsQuiet`, `CurrentConnectionAnswers`, `LossIsConfined`, `Refinement`; of the calls: `CallsCounted`, `AudioKept`; of the shell: `TeamsKept`; of all: `StreamsHold` |
| `GlabHubProofs` | of the owner: `Invariance`, `TypeCorrect`, `NoOrphanedClient`, `ServiceIsKept`, `RotationIsAuthenticated`; of the process: `ProcessInvariance`, `ProcessKeepsOwner`, `ProcessEndsInOrder` |
| `OdeumRoutesProofs` | `LedgerIsExclusive`, `RoutesTyped`, `RoutesKeepLedger`, `OneLive`, `TicketsCurrent`, `ProgramKeepsProject` |
| `HubPartsProofs` | of the screens: `ScreenInvariance`, `ScreenTyped`, `Silent`, `OneCapture`, `FailedResume`; of the others: `EventsMatch`, `ArrivalsBacked`, `CallsShownAndSpaced`, `CernereRemembered`, `HeaderCurrent`, `CallsTheirOwn`, `PartsHold` |
| `BotPartsProofs` | `OwnersAudited`, `LedgerKept`, `RosterCurrent`, `DailyKept`, `SyncsSpare`, `StartsSafe`, `OccurrencesRight`, `PartsHold` |
| `DeliveryProofs` | `ThreadsAccounted`, `PostsLimited`, `DecisionsStandFast`, `DeliveryHolds` |
| `PagesProofs` | `BoardsKept`, `ReviewsFaithful`, `ViewerFaithful`, `PageCurrent` |

They assume

* that the null value, and other markers of a model (`Deleted`, `Waiting`, `"nobody"`),
  are none of the objects, rows or sets they stand beside: in the code they are `null`,
  a missing row, a promise that is pending;
* the ranges of the constant functions, and that events, users and session ids do not
  overlap (`RoutesAssumption`, `ScreenAssumption`);
* that there are finitely many users of Cocoiru, rows of notices, processes, days and
  posts of a user, where something is counted;
* of the times in the code no value, only the order that its constants have:
  `AUTO` freshness below the freshness, twice that and the longest wait below the
  retention of nonces (`AttendanceAssumption`), the rate windows below the life of a call
  (`CocoiruAssumption`), the interval of refetches below the life of the keys
  (`KeyCacheAssumption`), the reminder's window below a week and the change of the clock
  the unit of time (`RecurrenceAssumption`).

Bounds (`MaxCrashes`, `MaxAudit`, `MaxNow` ...) are constants of the theorems like any
others: they hold for all of them.

*Client.* None of the safety invariants is inductive alone. That a live socket is
`this.ws` survives `HandshakeTimeout` only if the socket that times out is the
current one, which is `HandshakeIsCurrent`; `LoginOk` may replace `this.ws` only
because `LoginHasNoSocket`: a login starts after the previous socket stopped
being live; `PendingIsAuthenticated` survives a direct send because an open
current socket with no `connect()` in progress has settled its handshake, and it
settled well, since a failed one is closing (`HandshakeMatchesSocket`). `Inv` is
their conjunction; there is one lemma per action. The refinement maps a caller
that is joining, pending or orphaned to a waiting one; every step that settles
several callers is one `Reject` of the contract.

*Owner.* The danger is a rotation that resumes late. `ClientsHaveOnePlace` says
its candidate is nobody else's client, so that closing it disturbs nothing;
`CandidateIsOpen` says the candidate of the entry in the map was not closed
behind its back, so that activating it keeps the service; `EntriesAreMade` links
entries and the map.

*Process.* A step of `GlabHub` is one of the owner's or leaves it alone, so the owner's
theorems hold in it. `HubInv` adds the launcher's invariant and the one fact that joins
them: a store's cleanup has begun only if the owner was closed. The launcher's is that
cleanups begin all together (`CleanupsBeginTogether`) and after the initialization has
ended (`ClosingFollowsInitialization`), because a store opened after its cleanup would
stay open; and that a closed store has an ended Corpus (`StoresFollowClosing`).

*Calls.* `OneCallPerUser` counts: the calls of a user, and those of all with the starts
that reserved a place. No counter is right in every state of `call-routes.ts`, since a
start passes its tests, waits for Tr and only then has a call. `PlacesAreCounted` says
the counter is the number of starts that wait or hold (`Waiting`, `Holding`), and
`CallsFollowStarts` what a call's record says of the start it came from; each action
moves one start, so each cardinality moves by one at most (`CallsInv`).

*Shell.* `LoadsAreOfClicks` and `TrackedIsSelected`: what is loaded, and what is redrawn
on a change, was selected once, so a late answer is recognized by comparing it with the
selection.

*Odeum, hub.* `LedgerSpec` alone implies `OneLivePerPlace`; the routes implement it
step by step (`RoutesStep`: each route leaves the ledger alone, begins a session
at a free place, or ends one), so they inherit it. That tickets are current and
programs stay is then a fact of single steps over the type invariant, because the
code decides after its last `await`.

*Odeum, browser.* `Sound` is what holds of an attempt whatever the others do: closed
means silent, an attempt still at its picker has sent nothing, and the ledger
is asked to end a session only with its ticket and only by its creator or by an
attempt that was connected. Every action replaces one closure (`Replaced`), and
`HaltedIsGood`, `EndLedgerIsGood` and `FinishIsGood` are the three local functions.
`OneCapture` adds that a page shows one box; an attempt that captures is not closed,
so its box is shown.

*The Hub's parts.* For each part an invariant that is inductive, of which what the run
checks is a conjunct or a consequence, and a lemma that its steps keep it:

* `DeskInv` (events): a live event keeps its reservation only if nobody else can cancel
  it, so `ReservationsHaveOneOwner` says that an event, a meeting and a creation that has
  not stored its event yet never share one; `MeetingsAreLinked` carries this over the
  handoff of a meeting; `RequestsAreSound` says what a request has read is still good when
  it goes on, in particular that a deletion about to remove its row has freed the
  reservation or was forced. What the booking page cancels is in `released` and
  stays cancelled, and a meeting that has an event is changed by its deletion only; the
  page's cancellations share the lemma `DeskReleased`.
* `AttendanceInv`: an attestation is accepted once only if its nonce outlives every
  moment at which it could be presented again, over either route and after any wait:
  `NoncesOutlive`, where the assumption on the times is used. `GpsIsBacked` says at which
  step of a check-in Aedilis and the file have it.
* `CocoiruInv`: a call was counted with what stood before it in its recipient's inbox
  (`Ahead`), and nothing comes to stand before it later, so it stays within the limit.
* `TokenInv`, `KeysInv`, `PresenceInv`: a deadline leaves the margin less the way of the
  answer; the keys are no older than the cache and one fetch, and a caller that may fall
  back on them began to wait while they were fresh (`KeysAreRecent`).
* `HeaderInv`: but for the choice under way, what is shown is what was saved or nothing,
  and what was saved is in `had`. An answer on its way is in `recent`, because no choice is
  made while one is awaited; that is what a read during a save would break.
* `VoiceInv`: what is heard of a call is counted by `seq`, and only the current call, which
  is the live one once its stream is open, has a queue.

*The bot's parts.* Likewise:

* `JobInv`: that rollbacks follow what they undo needs that they name an earlier row.
* `NotifyInv`: `RunsAreSound` (one tick at a time, its batch not recorded meanwhile) and
  `AdmissionsAreHeld` (what is in flight is claimed and was not delivered). The order of
  the rows and the size of a batch are not used: the ledger is kept whatever they are.
* `RosterInv`: what the run checks is inductive with the types; the work is that the
  bot's late write tests what an administrator may have changed.
* `DailyInv`: `ChoicesAreEven` strengthens the bound by the choices made and not inserted
  yet, which are at most one per process. What a day's answers are, and that a quest is
  done from its card only (an action property), are facts of single steps.
* `ReleasesInv`: `GameIsSound` says that a game is marked synced exactly when it has had
  its first import, so that the mark a sync reads after its await is the one that counts.
* `SchemaInv`: `ProcessIsSound` says what each step of a start may rely on whatever the
  other processes do meanwhile: columns are never removed, the ledger's generation only
  advances, and a copy is made and swapped under the lock, so no row comes between.
* `WeeksInv`: a reminder in `sent` is one of an occurrence, was sent within its window and
  left its mark, and there is no mark without one. The work is in `List`, `Active` and
  `Due`, which walk a cursor week by week, while `StartsOf` says of an instant alone
  whether it is an occurrence. `CursorIs` gives the value of the cursor after n steps: the
  local time of the start so many weeks later, whichever side of the change of the clock
  it falls on. It needs that a week later is always a moment whose local time exists or
  the one the clock was put on to (`EveryWeekIsShown`, `WeeksFollow`); `FirstWeekIs` says
  that the number of weeks skipped never goes too far, which a change of the clock
  threatens, and `BetweenIs` that what is left is every occurrence of the interval. An
  induction theorem cannot be cited here (it takes an operator as a parameter);
  `LeastNumber`, that a set of numbers has a least one, takes its place: the first step
  at which the cursor were wrong would follow one at which it is right.

*Delivery.* Consultations and admissions:

* `ConsultInv`: threads are counted per consultation, so each is accounted for as the one
  recorded, the one in the bot's hand, or a lost one. `RowIsSound` says what is announced
  was posted and what is acknowledged is over; `BotIsSound` says what a row the bot has
  read still is when it comes to it, whoever resolved it meanwhile: it exists, and if it
  was to be posted it has no thread yet. That is what makes a thread unique: only the bot
  creates them, it does one row at a time, and it records before it reads again.
* `PostsInv`: a post begins only when nothing recent is there, so at that moment all that
  counts is under way; each insertion moves one post to the recent rows, so their sum
  never exceeds the posts the user can send.
* `AdmissionInv`: what an administrator has before him names a row, by an earlier
  revision or the present one; that decisions stand is then a fact of single steps,
  because a sync adds rows only where there is none.

*The pages.* Again a conjunction for each part:

* `BoardsInv`: a request for a quest reads it, waits for its body and then decides.
  `RequestsAreOfQuests` says what that reading is still good for: the quest is never
  removed, its revision only grows, and at an equal revision the text is the one read.
  `SharedIsOne` states without counting that a link is shared once; `PostsAreCounted` and
  `CommentsHaveTheirThread` keep what is counted finite and attached to a live thread.
* `ReviewsInv`, `FormInv`, `CurvesInv`: a rendering draws for the page as it is, or not at
  all. Loads of the list are numbered, no more of them than reviews were stored, and the
  last one has seen what the form told, but for the review whose answer is still read
  (`LoadsFollowReviews`); a consent that was used is
  not there any more (`ConsentsAreUsed`); a save takes the next number, so none under way
  is overwritten by it (`SavesAreNumbered`).
* `ViewerInv`: connections are built one after another and only the last of them can be
  the page's (`LinksAreInOrder`); a closed one leaves nothing for a late ticket, socket or
  message to work on (`ClosedIsSilent`), so what moves on after an await is that of the
  page (`OnlyThePageIsOpen`).
* `PanelsInv`: what a read brings is of the step of its rendering, and the newest
  rendering began after the last write the page was told of (`ReadingsAreOfTheirStep`);
  every drawing is of a rendering that has begun since the tab was hidden
  (`DrawingsAreInOrder`); a rendering has its earlier steps on the page
  (`EarlierPartsAreDrawn`), each part once where overlaps are sorted out
  (`PartsAreDrawnOnce`). Of the panels it needs four facts only (`WellShaped`), which
  the lemma `PanelsAreWellShaped` shows of all thirty descriptions: a panel added later
  needs that lemma alone. Writes may be counted without a bound in the proof; TLC checked `PanelsInv`
  with three renderings and two writes.

`PartsHold` of `HubPartsProofs` or `BotPartsProofs` and `DeliveryHolds` join their parts: a step of a sum is a step of one part or of
none, so the sum satisfies the specification of each part, and with it every invariant
that its run checks.

The inductive invariants were first checked by TLC on the instances above.

Model-checked only:

* all liveness (`EveryCallSettles`, `RotationAndShutdownEnd`, `EveryNoticeArrives`,
  `CallsAreReleased`, and the liveness conjuncts of `PagePresentsInTurn`,
  `ConsultsAreServed` and `AdmissionsConverge`: `PresentationsSettle`,
  `ConsultsAreCarriedThrough`, `EveryAccountIsListed`), which is out of TLAPS' reach
  under fairness. The safety conjuncts of these three are proved.

No safety invariant or action property of a passing run is left to TLC alone.

## 6. Not modelled

* Corpus (runtime, routing, authentication of requests) is a submodule outside the
  repository. Cernere, Aedilis, Tirocinium, Discord and the databases are modelled
  only as the code uses them, as actions of the environment or as the steps of
  `EventDesk` marked external.
* Formatting, texts, layout and logging everywhere. Of a panel its rendering is
  modelled, not its elements; what is typed into a form matters in `ReviewForm`,
  `Curves` and `Viewer` only. Two known effects are outside the models for this
  reason: a button that stays disabled when a request throws
  (`plugins/projects/panel.ts:204`), and a form cleared by the success of an earlier
  save (`plugins/facility/reservation-panel.ts:64`).
* Routes that only ask another service and pass its answer on (library, facility,
  progress, Di, Tendentia, Volputas' reads, profile), the validation of their answers
  (`plugins/volputas/contracts.ts`), signatures (`paseto-v4-public.ts`, `ticket.ts`),
  static tables (`operation-policy.ts`), configuration, the bot's commands except
  `/job`.
* In `CernereClient`: validation of arguments and replies. In `CernereOwner`: the
  other keys of the map. In `Notify`: member names, texts. In `TrCalls`: the content
  of frames and the counting of rates (the rate limit is a step that may end a call
  at any time). In `EventDesk`: Meet links and
  audiences, and reservations and meetings of the booking page that have nothing to do
  with events. In `OdeumRoutes`: the list
  of live sessions, what a ticket contains, audiences. In `OdeumScreen`: the messages
  between a page and the relay beyond `welcome` and the connected peer, and browsers
  without screen capture, whose box only shows a text. The text that says the ledger
  was not ended may land in a box the user has removed (`warned` does not look at
  `root`); and a page is told of an end by its own list only, so a presentation
  ended from another page runs on until it is stopped there. In `Viewer`: the media
  themselves and the effects. In `Attendance`: lists and the reading of photos. In
  `Boards`: tags, search, and a malformed list of roles, which opens a thread to all
  (`plugins/roles/audience.ts:22`). In `Schema`: tables that are only created;
  all columns are added before the step of the ledger, while the code adds a few after
  it, and a process whose wait for the lock times out counts as one that stopped.

## 7. Plan

Done: all modules of section 2, the sums, and the proofs of section 5.

Next, in this order:

1. An abstract notice that is delivered once, which `Notify` and `Consults` implement.
2. Meet links in `EventDesk`; the analysis reports of projects.

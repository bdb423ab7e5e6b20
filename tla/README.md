# Verification of the social and SEO agent

TLA+ models, TLC runs and TLAPS proofs for the backend in `src/backend/app` and its
evaluation harness in `src/evals`: an agent that researches, drafts, validates, asks a
human, publishes, and measures.  The subject is the part of the system whose mistakes are
expensive and hard to test: what may leave the system and how often, what happens to a run
when processes die or requests overlap, when an automation fires, what is kept of
credentials, sessions, money, memory and leads, and whether the advice and the reports it
gives can be relied on.

Run everything from this directory: `tlc -workers 2 -config X.cfg M` for a model,
`tlapm M_proofs.tla` for a proof.  `PROJECT.json` lists the runs, the mutants, the lines
each definition translates, the hazards and the theorems.

## 1. Inventory

| Component (`backend/app/…`) | State it keeps | Operations | Talks to |
|---|---|---|---|
| agent graph: `agents/graph`, `state`, `state_graph` | the `AgentState` of one drive: visited nodes, steps, cost, loops, texts, verdicts, approver, outcome | drive the eleven nodes, retry VALIDATE, exit early, interrupt at REVIEW, skip on resume | nodes; checkpointed by the executor |
| nodes: `agents/nodes` | none of its own | one update of the state each; EXPORT performs effects | model router, engines, actuators |
| executor: `services/run_executor` | `_live`, the set of runs this process drives | submit, execute, settle, record a failure | graph, run service |
| run service and store: `services/run_service`, `db/adapters/run_store` | rows of `runs` and `run_events` | start, checkpoint, record_approval, await_approval, finish, mark_resumed | database |
| runs API: `api/runs` | none | start, resume, approve, reject, stream | run service, executor |
| actuation: `actuators/actuate`, `contract`, `db/adapters/action_store` | rows of `actions`, one per idempotency key | claim, perform, settle, replay | providers |
| weekly cap: `services/publish_cap` | none (counts the ledger) | headroom | action store |
| calendar: `services/social_post_service`, `api/posts` | rows of `social_posts` | queue, schedule, cancel, publish | cap, actuation |
| automation: `services/automation_service`, `automation_settings_service` | rows of `automation_settings` | compute the next slot, load, save, pause | worker |
| worker: `worker/scheduler` | none (the database is the queue) | due, ceiling check, claim, start, sweep stranded runs | run service, executor, cost |
| cost: `services/cost_service`, `usage_recorder` | the usage ledger | monthly ceiling | API, worker |
| connections: `services/connection_service`, `api/connections`, `platform_oauth*`, `core/token_cipher` | sealed credentials, their expiry and status; a state cookie in the browser | connect, callback, refresh, disconnect, sweep, reveal | platforms, social actuator |
| model router: `llm/router`, `route_config`, `sampling`, `pricing`; `db/adapters/route_store` | the operator's tables, a resolver's copy of them, a budget | resolve a chain, complete with fallbacks, book | providers |
| cost ledger: `services/usage_recorder`, `cost_service` | a drive's buffer, rows of `model_usage` | record, flush, sum, refuse over the ceiling | executor, API, worker |
| timeline: `run_executor`'s queue, `run_service`, `run_store`, the SSE stream | rows of `run_events` | emit, drain, number, insert, poll | browsers |
| accounts: `services/auth_service`, `api/auth`, `core/security`, `core/rate_limit` | users with a watermark, windows of attempts | sign up, log in, log out, limit, refund | Redis |
| knowledge base: `kb_service`, `document_service`, `chunk_store`, `llm/embedder` | documents, chunks and their vectors | upload, extract, embed, store, delete, search | nodes |
| tools and grounding: `agents/tools`, `tool_policy`, `kb_service.retrieve`, `nodes._ask` | the operator's revocations, a run's retrieval traces | retrieve with grading and rewriting, ask a model that may call tools | nodes |
| memory and feedback: `memory_service`, `feedback_service`, `onboarding_service` | `businesses.dna`, feedback, proposals | confirm, add, revise, forget, reject, distil, approve | nodes read the memory |
| leads, links and pages: `landing_service`, `link_service`, `api/links`, `pages`, `leads`, `engines/landing` | content pieces, short links, clicks, leads | publish, follow, render, submit | public visitors |
| GEO probes: `geo_service`, `probe_store`, `engines/geo` | prompts and results | ask, classify, score, store, compare | router, dashboard |
| crawl engine: `engines/crawl` | one crawl's frontier | fetch, parse, follow | HARVEST, onboarding |
| delivery: REPACK, EXPORT and MEASURE in `agents/nodes`, `engines/channel`, `engines/claims`, `actuators/owner_notice`, `review_service` | renderings, the run's report | render, check, send, notify, show | platforms, the owner |
| NAP engine: `engines/nap`; SEO engine: `engines/seo` | none | audit, score, hint | HARVEST, VALIDATE, GENERATE |
| evaluation harness: `src/evals` | one run's rows and samples | write each case twice, score, judge, report | router, two judges |
| onboarding, dashboard and admin screens | none of their own | confirm, preview, edit tables, read | owner, operator |
| frontend | none that matters here | the screens | API |

**What is hard here.**  A run is driven by an in-process task and recorded in a row that
several routes, another process and a sweep write as a whole.  The checkpoint is written
once per drive, before the run is parked, so a process can die between the two.  Effects
are at most once by a key, and two callers derive the key differently.  Counts and checks
are awaited before the action they guard.  The scheduler compares two clocks.  Around the
run, one JSON column, one credential row, one budget and one rate window are each shared by
requests that read before an await and write after it; tokens count in whole seconds; a
store commits in several transactions what the reader takes for one thing; and texts are
checked in one form and sent, shown or compared in another.
`PROJECT.json` lists these one by one under `hazards`, each at its line.

**What makes each component correct.**

- graph: only what a human was shown and approved leaves; a first drive reviews what was
  validated; a drive ends in a settled row; caps are never exceeded.
- lifecycle: a decision stays taken; a row is not `running` for ever; one process drives a
  run once.
- actuation: at most one call per key; no call without a row that admits it.
- calendar and cap: `published` means it went out; the cap is exceeded only by a count
  that went stale.
- automation: the slot is where the settings say; a slot is claimed once; off means off;
  what is due is handled.
- connections: what was forgotten stays forgotten; nothing is sent with a dead credential.
- router, ledger and timeline: an overspent budget is overspent by a batch at most; a paid
  call is booked once or known to be lost; a reader's cursor skips nothing.
- accounts: a logout ends the sessions before it; wrong guesses are rationed.
- knowledge, tools, memory: search finds what was kept and nothing else; what a text cites
  was vouched for; a writer of the memory changes only what it was asked to.
- leads, probes, crawl: a visitor reaches a form and its lead the right business; a
  retried measurement is not counted as another one; a complete crawl is complete.
- delivery and evaluation: what is out was cleared; reports are true of what happened.
- advice: an owner or a model that does what a hint says is not told it again.

## 2. Modules

| Module | Models | Proofs |
|---|---|---|
| `PublicationGate` | the abstract specification of the human gate: show, sign, withdraw, publish | |
| `AgentGraph` | both drivers, the caps, the nodes as far as anybody branches on them, and the executor and routes around one drive | `AgentGraph_proofs` |
| `RunLifecycle` | one run row and all its writers: drives in two processes, resume/approve/reject, the sweep, time, deaths | `RunLifecycle_proofs` |
| `RunLifecycleApproval` | EXTENDS `RunLifecycle`: one course of it, a slow drive and an owner who resumes past it, for the run that looks for an unapproved publication | |
| `Actuation` | `actuate()` and the `actions` table, for any callers and keys | `Publishing_proofs` |
| `Publishing` | EXTENDS `Actuation`: the calendar's routes, EXPORT and the weekly cap over one ledger | `Publishing_proofs` |
| `NextRun` | `compute_next_run` on a scaled calendar with one daylight-saving edge | `AutomationScheduler_proofs` |
| `AutomationScheduler` | EXTENDS `NextRun`: one automation, its owners and its workers | `AutomationScheduler_proofs` |
| `Connections` | one business's connection to one platform: its accounts, grants, cookie, requests, sweep and sends | `Accounts_proofs` |
| `ModelRouter` | the calls of one fan-out over one budget, their fallback chains, and the operator's tables as a resolver holds them | `Services_proofs` |
| `RunEvents` | what drives leave behind: timeline, ledger, and what a browser sees of the timeline | `RunEvents_proofs` |
| `Accounts` | logins and logouts of one account, its watermark and its window of attempts | `Accounts_proofs` |
| `KnowledgeBase` | uploads of two tenants, the chunks and vectors they leave, and their deletion | `Services_proofs` |
| `NodeTurn` | one writing node's turns: grounding, then a model that may call tools | `Content_proofs` |
| `BusinessMemory` | the memory column and the proposals, under concurrent requests | `Content_proofs` |
| `LeadLoop` | two publications, their links, and the visitors that come by them | `Services_proofs` |
| `GeoProbes` | the probe runs of one business and the rows they write | `Services_proofs` |
| `Crawl` | one crawl of a site that answers as it likes | `Content_proofs` |
| `Delivery` | a run's posts from REPACK to the report, over up to two drives of EXPORT | `Content_proofs` |
| `Evaluation` | one evaluation run and every cell of its report | `Content_proofs` |
| `Filtering` | the list comprehension with a condition that EXPORT, the memory, the router and the knowledge base use, as the places it keeps | `Content_proofs` |
| `SeoAudit` | a draft and its score, a site and its audit, and whoever follows their hints | `Content_proofs` |
| `NapAudit` | a profile, a listing, their audit, and an owner who follows its hints | `Content_proofs` |
| `Services` | EXTENDS the fourteen above: one system, one property list, one run | `Services_proofs` |

### AgentGraph

A drive is `pc` moving over the positions of `graph.ORDER`; `st` is the `AgentState`,
`saved` the checkpoint in the row, `row` its state.  A text is the *stamp* of the step that
wrote it, so "the text that was approved" is an equality of stamps.  `Charge` charges a
node and ends the drive at the cost cap, `Route` is what the driver does after a node,
`Continue` finds the next node that is not skipped.  The drivers differ in three places,
each a condition on `runtime`: whether updates survive a refused charge, whether a stale
outcome halts the drive, and what the driver answers when no node is left.  `NodeCrash` is
the wrapper that records an exception and goes on.  `Checkpoint` and `Settle` are two
steps because they are two transactions; `Die` may fall between them.

`Gate` maps this to `PublicationGate`: *shown* is the copy of the parked checkpoint,
*signed* and *sent* are what was approved and what an actuator accepted.

### RunLifecycle

Every write of `RunService` is `get` and then `update` of the whole row, in two
transactions.  So each is two actions, `ReadRow`/`WriteRow` for drives and
`ReadDecision`/`WriteDecision` for the routes, and the copy held in between is part of the
state.  The sweep is one conditional `UPDATE` of one column after an earlier read.
What a drive computes is reduced to a stage (`none`, `early`, `review`, `over`) and the
drive that wrote the text.  `overlapped` records that two drives ran at once; the run
`lifecycle_resume` shows that this is reachable.

`PublishedWasApproved` says two things.  While no approval has been written on an *early*
draft, what EXPORT publishes is a text an approval was written on; and if no two drives ever
overlapped, it is the text that was parked when the approver's request looked.  The
exception is real: `record_approval` signs whatever checkpoint the row holds when it reads,
and a slow drive may have stored its unfinished draft there since.  `lifecycle_approval`
follows that course to a publication, on the module `RunLifecycleApproval`, which only
narrows `RunLifecycle`'s next-state relation so that TLC reaches the depth.

### Actuation and Publishing

`Claim` is the insert under a unique index or the answer of the row that holds the key;
`Perform` covers refusal, failure, simulation and a real call that may publish whether or
not it answers; `Settle` updates by key.  `StoreFails` and `Forget` put a failing store and
a dead process between any two of them.  `Publishing` gives the two callers: a request
holds a session, so it compares with the status it loaded and its write is unconditional;
`RollBack` drops the session at any await; `Restart` kills all requests and may change
whether a publisher is configured.  `recent` is the seven-day window as a queue of keys.
`believed` is an auxiliary count: how many rows of the window a caller knows of.

### NextRun and AutomationScheduler

Instants are integers on a calendar of two-hour days, two-day weeks and three-day months,
with one change of the zone's offset.  The arithmetic is that of the code with 24, 7 and
the month's length as constants.  A tick takes its `now`, then the database answers what is
due on its own clock; `MaxLag` bounds the distance.  A save is a read and an upsert and may
straddle a claim.  `claimed` and `previous` are auxiliary.

`Hours` are the hours the owners pick from.  Where the clocks are set forward, the skipped
hour and the next one are the same instant; a save that moves the slot from one to the other
then stores the slot a worker has just read, its claim succeeds with the old schedule, and
the row holds a slot that is not of its own hour.  With both hours offered
`NextRunIsOnSchedule` is false, so the run offers one; with the clocks set back it may offer
both.  `MidnightAssumption` leaves out zones that set their clocks back across midnight, in
which `_next_monthly` would reach its "unreachable" error.

### The fourteen components of Services

They meet one another only in the database, through rows another one does not write.  So
they share no variable, and a property of one cannot depend on how its steps fall between
another's: `Services` lets a behaviour move one part, chosen at its start.  Interleaving
them would multiply the states without a new reachable state of any part.  Where two
components do meet in steps, they are one module: the refresh and the publish in
`Connections`, the ledger and the timeline of one drive in `RunEvents`, uploads and
deletions in `KnowledgeBase`, onboarding and feedback in `BusinessMemory`, publications and
visitors in `LeadLoop`, REPACK, EXPORT and the review page in `Delivery`.

- **Connections.**  A grant is the serial number of a credential, a row holds numbers.  Every
  operation is cut at its awaits: `Callback`/`Exchange`/`SaveGrant`, `RevealRefresh`/`Renew`/
  `SaveGrant` or `ExpireRow`, `Disconnect`/`TellPlatform`/`Forget`, `CheckConnection`/
  `RevealAccess`/`Send`.  Lookups are by platform without an order, so with two accounts
  either row may answer.  `Elapse` is the clock, `Redeploy` a change of the vault's key.
- **ModelRouter.**  `Attempt` is one entry of a chain: estimate, guard, call; `Settle` books
  what was paid; `Answer` returns or falls through.  `Reload` reads three tables one after
  another, `Edit` may fall between.
- **RunEvents.**  `TakeEvent` starts a flush when an event closes a node, `NextSeq` and
  `AppendEvent` are two transactions, `FlushRest` is the last flush, which a drive that
  raised does not reach.  `ReadEvents` and `ReadState` are the two halves of a poll.
- **Accounts.**  `Throttle`, `LoadUser`, `Verify`, `GiveBack`, `Mint` are a login; `BeginLogout`
  and `RevokeSessions` a logout.  `strays` counts refunds that reached another window or
  counter than the attempt, `ended` marks sessions a logout was asked to end: both auxiliary.
- **KnowledgeBase.**  An upload is its passages; a vector is named by the text it was made
  from, so a mix-up shows.  `WriteChunk` is one statement of the storing transaction and
  sees what others committed meanwhile.
- **NodeTurn.**  `Search`, `Grade`, `Judge`, `Rewrite` go round up to the attempts allowed;
  `AskModel` offers tools for a number of rounds.  `vouched` is auxiliary: what a grader was
  shown and called relevant.
- **BusinessMemory.**  A writer reads, then locks and writes in one step; what it read before
  the lock is kept in the request, and the mutant shows what using that would do.
- **LeadLoop.**  `publish_landing_page` and `publish_distribution` commit the piece, each
  link, each target one by one.  `follow`, `landing_page`, `submit_form` and `create_lead` are
  a visitor's requests.  The checks of `engines/landing` decide what may be published and the
  renderer's layout what can be filled in, so that a page that passes the one and cannot be
  answered through the other would show.
- **GeoProbes.**  A run asks, resolves its prompts, stamps itself and writes, each at its
  await; `Unlocked` is what the upsert's row locks make a second writer wait for.  A question
  is what its prompt is rendered from: the business's name, city, a service, the locale.
  `EditProfile` is `save_confirmed_dna`, which rewrites all of them, so two runs of one
  business may have no question in common, or some.
- **Crawl.**  The site is chosen as it is asked: each request may answer, redirect, leave the
  site or fail, and each new page links to any mixture of pages heard of and new ones, up
  to the bound on links; their order in the document is chosen when they go on the frontier.
- **Delivery.**  A body is words: hashtags and the two halves of a claim.  `RenderPost` is
  REPACK; `validating` says whether the node was granted `channel.validate`, without which
  nothing counts the hashtags of a body.  `Perform`/`Replay`/`SettleFails` an iteration of
  EXPORT, `DieExporting` ends a drive anywhere in it; `Report` writes the report and the
  notice.
- **Evaluation.**  A text is the figures it asserts and the chunks it cites; a judge's score
  is named by the text it was given for.  A run may be given no case at all (`AfterCase`).
- **SeoAudit, NapAudit.**  Pure functions, and a follower: `ReviseDraft` makes every change the
  hints of the last score ask for and no other, `ReviseSite` and `Follow` the same for an
  owner.  What a page or a field is reduced to is what the rules read: the headings of a
  draft are their levels, its body two counts, a score the sum of what nine answers cost.  A
  first draft fails any set of the nine rules at once, each in any of its ways; `phrase` is
  the keyword's number of words, 0 for a request that names none.  The site's audit names at
  most `MAX_EXAMPLES` pages of a finding, and only those are revised.  An address line is a
  name, house numbers and annotations, each split off as the regular expressions would, and
  split once more when the hint is read back; a name may be nothing but a legal form, an
  address of a mailbox may carry its `mailto:` twice.

Some modules hold operators marked *faulty variant*.  Each is a definition as a plausible
bug would have it, and is not used by the specification; `PROJECT.json` says which property
notices it.

## 3. Runs

| Run | Expect | Question |
|---|---|---|
| `graph_drive` | holds | Can any sequence of drives, node failures, charges, deaths and decisions publish the unapproved, review the unjudged, publish twice after a recorded export, or leave a drive unsettled? |
| `graph_blocked` | violated | Does a banned draft stay away from REVIEW? Not after a resume. |
| `run_lifecycle` | holds | Do overlapping whole-row writes ever publish what nobody approved, reopen a decided run, or leave a row `running`? |
| `lifecycle_reject` | violated | Does a rejection stick against what is in flight? |
| `lifecycle_resume` | violated | Does one process drive a run at most once? |
| `lifecycle_approval` | violated | Is what EXPORT publishes always a text that was shown and approved? Not when an approval is written on a slow drive's early draft. |
| `publishing` | holds | At most one call per key, on record; `published` is true; the cap gives way only to stale counts. |
| `publishing_retry` | violated | Does pressing publish on a failed post try again? |
| `automation` | holds | Slots on schedule, claimed once, none lost while due, none claimed after the switch. |
| `automation_slot` | violated | Is a slot claimed once even when the tick's clock is behind the database's? |
| `automation_parity` | violated | Are fortnights a fortnight apart after a late claim? |
| `services` | holds | The nineteen properties of the fourteen components, listed below. |

`services` checks, beside the types (`ServicesTypeOK`):

| Property | What it excludes |
|---|---|
| `ForgottenStaysForgotten` | a renewal begun after a disconnect bringing the credential back |
| `SentWithALiveCredential` | a publish with a credential the clock had ended, swept or not |
| `OvershootIsOneBatch` | a budget overspent by more than the calls that passed the guard together |
| `RunsAreAWindowApart` | a re-sent probe run showing up as a second measurement: two answers under one time, or a new time within a window of an answer to the same question |
| `EveryCallIsBookedOnce` | a paid call booked twice, or vanishing from the buffer between two flushes |
| `CursorSkipsNothing` | an event appearing below a number a browser already has |
| `LogoutEndsOlderSessions` | a session surviving a logout that came after it |
| `GuessesAreRationed` | more wrong passwords in a window than its limit, beyond stray refunds |
| `SearchFindsWhatWasKept` | a passage under another's vector, or remains of a failed or deleted upload |
| `CitationsAreVouchedFor` | a citation of a passage no grader called relevant |
| `WritersKeepTheRest` | an edit of the memory that loses or moves somebody else's |
| `LeadsReachTheirOwner` | a dead link, a form that cannot be sent, a lead at another business or under another's link |
| `NothingWithinReachIsMissed` | a crawl that says it is complete and left a reachable page out |
| `WhatIsOutWasCleared` | a post that differs from what was shown, makes a banned claim, or has more hashtags than its channel takes though `channel.validate` was granted |
| `ReportIsTrue` | a report or notice that calls published what is not out, or the reverse |
| `ScoresAreOfTheModelsText` | a number in the report that was measured on another text, or on none |
| `AdviceHelps` | SEO hints that lower the score, bring a new error or need a sixth round, or a site audit after which more is left than the shared texts and orphans it had no room to name |
| `HintsHelp` | a NAP hint that, followed to the letter, is given again, beside the four kinds of value that no listing can say back |

### Bounds, and why they are enough

- `graph_drive`: `MaxSteps = 14` and `MaxLoops = 2` are the code's own values, because the
  interaction of the two is what matters.  `MaxUsd = 2` with charges 0 and 1 lets the cost
  cap fall at every charged node.  Four drives are a first drive, a resume after a death,
  an approval and a resume of the approved run.
- `run_lifecycle`: three drives and two requests are the least with which two requests race
  each other while an earlier drive is live in the other process.
- `publishing`: two callers, two calendar posts, two channels and a cap of one make the cap,
  the shared window and the partial export all bind; three requests let a failure be
  followed by a retry while another caller acts; one restart changes the publisher.
- `automation`: five instants hold two weekly slots, a month's edge and the clock change;
  one save and one death can fall between any two steps of two workers.
  The biweekly cadence is exercised by the two violation runs, which have one worker and
  no saves so that the counterexample is the arithmetic's alone.

- `services`, per part: *connections*: two accounts, two requests in flight of three begun,
  two grants, one instant of life, so that a grant, its renewal and a disconnect meet.
  *router*: three calls on two slots, so that a third call sees what two concurrent ones
  booked; one edit or reload.  *geo*: three runs by two probers, of one model, so that a run
  can join one of two earlier ones while another is in flight; two business names, one service
  and two categories, three confirmations of the profile, so that question sets overlap, part
  and meet again; times 1 and 2 over a window of one.  *events*: two drives, one browser, one
  event and one call, a ceiling of one. *accounts*: two logins and two logouts within three
  seconds and two windows; a limit of one. *knowledge*: two uploads of two passages out of two
  texts, two tenants: every text is shared or repeated.  *turn*: two passages, one per search,
  two attempts, so the threshold of two can only be met across attempts; two tool rounds and
  two turns over one kept trace. *memory*: three requests, two rules that fit and one too
  long, a limit of two.  *leads*: two publications with two links, two codes, so that codes
  collide; two businesses.  *crawl*: six urls, six links and redirects together, five pages,
  three levels, one redirect in a row: one page may link to heard and new pages in every
  order, and to several of each.
  *delivery*: two posts, two names of one channel, bodies of up to five words (two when there
  are several posts), of which at most two are no hashtag and one hashtag is allowed, with
  `channel.validate` and without; two drives.  *evaluation*: two cases with room for three of
  their samples.  *seo*: lengths on both sides of every threshold, the code's own density
  arithmetic up to eleven uses of a phrase of none to three words, three headings of six
  levels, with which five rounds are needed; drafts that fail up to two rules at once, so that
  a keyword out of its band meets a draft that is refused for something else; three pages of
  which a finding names one, with one respect in which they fail.  *nap*: every shape of an
  address line of up to three numbers and annotations, of a name, a phone, a mail address, an
  hours list that the rules tell apart, one group of fields at a time.  The theorems of
  section 5 hold for all values of these bounds: every set of failed rules, any number of
  links, hashtags, runs and pages.

`CHECK_DEADLOCK FALSE` is set in all of them because the bounds stop the system: when the
drives, requests or instants of the bound are used up, nothing is left to do.

### Fairness

- `AgentGraph`: a drive is a task of a live event loop, so its steps, the checkpoint and
  the settling write are weakly fair; starting, deciding and dying are not.
- `RunLifecycle`: the same for each drive and request; time passes; the worker ticks for
  ever.  `CloseStranded` is strongly fair: a worker killed between the two statements of its
  sweep sweeps again after its restart, and is not killed there for ever.
- `AutomationScheduler`: each worker's loop goes on (`run_forever` sleeps and ticks); the
  owner, time and deaths are not fair, and deaths are bounded.
- `Publishing` and the parts of `Services` state no liveness: their promises are about what
  may not happen, and nothing in the code obliges a visitor, an owner or a platform to act.
  That a connect, a refresh or an upload ends is the HTTP client's timeout, which is not
  modelled.

## 4. What the violated runs show

Each states what a comment or a document of the repository says, quoted with its line in
`PROJECT.json`.

1. *A blocked draft can reach REVIEW.*  On resume, VALIDATE and CONVERT are skipped as
   visited while GENERATE runs again, so the retry loop is left without a new verdict.
2. *A rejection can be undone* by a write that read the row before it.
3. *Two resumes can both start a drive*, since the ceiling is awaited between check and
   submit.
4. *An unapproved text can be published.*  The worker's drive is slow; the owner resumes the
   run in the API and is shown the second drive's text.  The slow drive stores its unfinished
   draft, the approval is written on that, and after the API died between its checkpoint and
   `await_approval` a resume restores the approver beside a draft that was never reviewed.
5. *A failed post cannot be retried*: its key is stable and a settled row is replayed.  The
   same holds for a refused and for a simulated one.
6. *A slot can be claimed twice* by a tick that took its time just before the slot.
7. *A fortnight can become a week*, once a claim is made a day late.

Divergences met on the way for which no run was added:

- The second retry cannot be used: seven nodes up to VALIDATE, three per retry, then REPACK,
  so REVIEW would be the fifteenth step of fourteen.
- `automation_settings_service.py:15` calls `next_run_at` a cache of the arithmetic.  A claim
  computes the next slot from the weekly row it read and compares only the slot: an owner's
  save in between, with the same slot and a monthly cadence, keeps a weekly next slot until
  the claim after it.  It is on the weekday and hour all the same, and that is what
  `NextRunIsOnSchedule` says.
- `approve_run` says a second approval is a 409; the row stays `awaiting_approval` while the
  approved drive executes, so it is accepted.
- A run whose process died in its first drive stays `queued`; the sweep looks at `running`.
- The sweep's reason ends with an invitation to resume, and its comment says the route still
  works; `resume_run` refuses a `failed` run.
- The checkpoint is written once per drive, not after every node.
- An approved run revived from a checkpoint that a cap had ended can exhaust its steps
  before EXPORT.
- The per-run cost is charged after a call, where the documentation says before.
- EXPORT's key is the content and the calendar's the post's id: one rendering sent by both
  is two calls.
- `cancel_post` and a second press can overwrite `published`; `queue_posts` can queue a
  channel twice; simulated sends count against the weekly cap.
- A claim does not look at `paused_reason`; a save computed before a claim re-stores the
  claimed slot; switching off with an old read erases a pause.
- A claim followed by a crash loses that slot (by design), and a row whose claim always
  raises stays due.

*Connections.*

- Reads go by platform with no order while a row is unique per account: with two accounts
  of one platform, what is shown, used and disconnected may be either.
- A refresh that finds a revoked row, and a sweep beside a refresh, write `expired` over
  `revoked` or over a `connected` that was just renewed.
- Reconnecting replaces a grant without revoking it; a grant whose identity cannot be read is
  recorded nowhere.  `refresh_connection` has no caller yet; the fake provider is built per
  request, so a refresh through it always refuses.

*Router, ledger, timeline.*

- No router in the application is given a resolver, so the operator's routes, switches and
  sampling reach no run; no `BudgetState` is constructed either.  `ModelRouter` leaves both
  open (`governed`, `budgeted`).
- Routers built without a usage sink (probes, embedding, onboarding) spend money that neither
  the ledger nor the monthly ceiling sees.
- An unpriced local model under a budget raises; an OpenRouter answer with unparseable tool
  arguments is paid and not booked; a reload is three awaited loads, so a call may see one
  table of the new configuration and two of the old.
- `run_store.py:6` says `next_seq` reads the maximum inside the insert's transaction and that
  a race is a visible error: they are two transactions, and the drain logs the collision.
- The recorder's last flush is skipped when the drive raises.  A stream may send `end` before
  the last events are written.

*Accounts and rate limit.*

- Logout, login and logout within one second leave the token of the middle login alive
  (`auth.py:567` speaks of every session); `LogoutEndsOlderSessions` exempts just that.
- A refund computes its window anew and reaches both counters; `GuessesAreRationed` counts
  such strays.  The Redis refund is two commands.
- `create_business` checks and then inserts without a unique owner; sign-up's retry after a
  slug conflict may surface a bare integrity error.

*Knowledge, tools, memory.*

- A deletion between another upload's look-up and its copy makes that upload fail; a process
  lost between the store and the last write leaves a document `pending` for ever with its
  chunks retrievable; vectors made by the fake embedder stay when a key is configured.
- `_load_revocations` says its fallback is narrower or equal: with the table unreadable a node
  has its whole allowlist.  Revocations are read per drive, so a resumed run gets new ones.
- Retrieval's model calls are neither in the node's cost nor under the run's step budget.
- `approve_proposal` is idempotent only until the owner deletes the rule.  A distilled rule
  may be longer than the memory accepts: its approval fails, and will always.  Nothing sets a
  proposal `rejected`; two rejections distilled together can propose one rule twice.

*Leads.*

- The hub lists links before they have their `?ref=`, and a crash leaves them so.  EXPORT run
  again mints a second article with links of its own; a re-sent form is a second lead; a
  refused form's page forgets ref and campaign.
- `create_link` retries on any integrity error; a CTA with a blank text on an unknown channel
  passes the checks and raises after the piece is live.  `set_status`, `publish_landing_page`
  and the actuators' `retryable` are on no path of a run.

*Probes, crawl, delivery.*

- A retry folded into an older run is not what the dashboard reads if a newer one exists; a
  probe within the window overwrites what it would be compared with.
- A run joins the newest time of any of its questions.  After the profile was confirmed with
  other services and back, that time need not be the one at which each of them was answered:
  such a run answers a question twice within `RUN_DEDUPE_WINDOW`, under two times.
  `RunsAreAWindowApart` promises the distance only for a run that opens a time of its own.
- `probe_store.py:36-40` says that the ids of stored prompts are recomputed from the locale
  `build_prompt_set` used.  The questions are built from the confirmed profile's locale, the
  ids from the column `businesses.locale`, which nothing writes after the row is created: once
  they differ, the unchanged questions of two runs are never comparable.
- A url that redirects to a stored page stores it twice; a crawl cut by depth is not called
  truncated; a robots.txt that does not load allows everything for the crawl.
- EXPORT keeps the links it mints under `distribution`, `_published_addresses` reads the refs
  of `publish.page`: the pack never shows a tracked link.
- After a crash and a second approval the run's own posts count against the cap, so posts that
  are out are reported as held back; `ReportIsTrue` claims that direction for one drive only.
- A notice that was itself simulated is reported as sent.  Declared hashtags are appended by
  `paste_text` after the claim check.
- With `channel.validate` revoked, REPACK leaves the inline hashtags of a body as they are
  (`nodes/__init__.py:1963-1974`) and nothing behind it counts them: `social.py:228-253` look
  at the length and the link.

*Advice and evaluation.*

- Four kinds of profile value are displayed in a form that, pasted into the listing, is not
  read back as equal, so their hint never stops (`NeverRight`).  A street whose name ends in
  a number is split once more (`normalise.py:171-182` and `:278-295`); a name that is only
  a legal form folds to nothing (`:147-161`, read by `audit.py:198` and `:213`); a floor
  behind a range of numbers has its digit taken for the range; an email address with two
  `mailto:` loses one at each reading (`normalise_email`).  `nap/audit.py:112` says that 100
  means nothing mismatched; opening hours that differ cost nothing.  The profile confirmed at
  onboarding holds no street or phone, so HARVEST compares names and cities only.
- `score.py` says no single warning can fail the gate; a title warning costs 7.5.  The image
  hint recommends the blank text that the check flags.  The density hint counts on the old
  length, and heading hints on the old tree: up to five rounds where the graph allows
  two (`AdviceComesToRest`: never a sixth).
- A keyword that tokenises to nothing is an error that no revision of the draft can clear
  (`rules.py:486-497`): the request has to change, and the graph retries the draft.
- `_orphans` counts a page's link to itself.  A finding names five pages at most
  (`audit.py:73`, `:407`, `:450`), so a larger site needs a round for every five of them.
- One failed generation ends an evaluation without a report.  `run.py:1525` says two
  comparisons are not implemented that have flags, and the paragraph about the fake provider
  is printed on live runs too.

## 5. Proofs

TLAPS proves what follows for every value of the constants.  Nothing is assumed but

- the named assumptions on the constants, each in the module that declares them.  Most say
  that a bound is a number, that a set of callers, keys, texts or links is finite, and that
  names the code keeps apart are different (`SeoAssumption`: no title is the absence of one).
  Those with content are `MidnightAssumption` (section 2), `PublishingAssumption` (a run's
  channels are finitely many and no channel is a post's key), `DeliveryAssumption` (an alias
  is not a canonical name, `specs.py`'s table), `EvaluationAssumption` (what a model makes up
  is not among the case's facts) and `LeadLoopAssumption` (a link is tried at least once,
  `lead_store.py:116`);
- three hypotheses written into the theorems that need them:
  `RoomBehindGate` (a run that reaches REVIEW within `MaxSteps` has two steps left; true of
  the code's 14 and 2, false of 13), `NoSkippedHour` (the clocks are not set forward, or the
  owners pick from one hour) and `ShortLag` (no tick works with a `now` six days old).
  The configuration of the run that checks the property satisfies each of them.
  They are needed: with 13 steps, or with an hour skipped and two offered, the statement is
  false.

**`AgentGraph_proofs`.**  `PublishedWasApproved` is not inductive: EXPORT sends the copy in
`st`, and nothing in the property says that copy was signed.  `AgentInv` adds that

- every node before the one the driver is at is behind the run (`NodesBefore`), because
  whatever a driver skips is on the checkpoint;
- REVIEW is visited only with everything before it, and a parked outcome means it was
  (`GateOpens`);
- a state that carries an approval has REVIEW behind it, its copy is signed, and the drive
  resumes and stands behind the gate (`SignedCopy`, `ApprovedIsBehindGate`), so no node that
  writes a text is entered again: each is skipped by `resumable_skip`, whose bound on
  GENERATE is what the proof turns on;
- the checkpoint is what the state was when it was written (`SavedIsState`,
  `SavedIsBehind`), and EXPORT is entered only by a drive that has not been there
  (`ExportIsNew`).

From it: `AgentTypeCorrect`, `OnlyApprovedIsPublished`, `ExportIsNotRepeated`, and
`GateIsImplemented`, the refinement, step by step.  Two more results stand on it.
`ReviewShowsJudgedText` needs `VerdictStands`: in a first drive the verdicts in the state
are weak while a retry is under way, and about the present text from REPACK on; a VALIDATE
that crashed in a later loop leaves the verdicts of the earlier one, which are what sent
the driver back, so it goes back again or is cut by the loop cap.  `ApprovedRunsFinish`
needs a budget: `Spent` says that a step went to each node before `pc` and three to every
retry (or, after a resume that skips what it has visited, one to its single retry), so what
REVIEW parks has one of the counts `StepsAtGate`, and `Provision` carries the two steps
behind the gate through the checkpoint, the approval and any number of resumes.

**`Publishing_proofs`.**  First the ledger: the row of a key is its lock.  `ActuationInv`
says, beside the types, that a caller between its claim and its settle holds a key whose row
is in flight (`HeldIsInFlight`), that no two callers hold one key (`HeldByOne`), that nobody
has been called under a key that is only claimed (`ClaimedIsUncalled`), what a caller knows
of its own call (`PerformedKnowsItsCall`), and that a success not marked as simulated is at
the provider, be it in the ledger, unsettled or returned (`AnswersAreTrue`).  From it:
`CalledAtMostOnce` and `CallsAreOnRecord`.

Then its callers.  Every step of `Publishing` is a step of `Actuation` on the ledger, leaves
it alone, or is the restart, which forgets attempts; so `ActuationInv` carries over.
`PublishingInv` adds the types, that an attempt belongs to an allowed request and carries
its post's key, and `PublishedWentOut` itself: a post becomes `published` only from a
returned real success, which `ReturnedIsSettled` and `SuccessLanded` place in the ledger and
at the provider, and a settled row is never written again. `CapIsPassedOnlyByAStaleCount`
adds `CapInv`: every key of the window has a row, and a caller that was allowed and has
claims left believes that what it is still to claim fits (`believed` plus its remaining keys
is at most the cap).  A refused or failed row stays so, and a step adds at most one row to
the window, so the step that passes the cap is a claim of a caller whose belief is below
what is committed.

**`Accounts_proofs`.**  `LogoutEndsSessions` rests on three facts about the clock: every token
was minted by now, a logout under way carries a watermark above the minting of each session
it covers (`CoversOlder`, where `revocation_watermark` rounding up is what the proof uses),
and a session that was ended was minted below the stored watermark (`EndedIsBelow`, where
GREATEST is).  `GuessesRationed` counts what is to come: an attempt let through and not yet
judged (`Pending`) is a wrong password in waiting, so `GuessesInv` bounds both together by
the counter, as far as the limit, plus the strays.  A refund takes one from the counter and
one from `Pending`, unless it strayed, and then it is counted as such.  That only a right
password is refunded enters as `FailedWasWrong`.

*Connections* are in this module too.  `ConnectionInv`: a row holds grants of its own account,
a request that has taken a credential still names it, and `wipes`, which counts the
disconnects of an account, tells whether it took it before the last one.

**`RunLifecycle_proofs`.**  `LifecycleTypeCorrect` needs a reason why the row's `resumed`
stays below the number of submitted drives: every count that a copy of the row holds, in a
drive or a request, is at most the number of resuming drives that had marked it
(`Resumptions`). `PublishedWasSigned` has two halves.  `CoveredInv`: as long as no approval
was written on an early draft, an approver in the row, in a drive's state or in any copy
still to be written stands beside a text of `ApprovedTexts`.  `SerialInv`: until two drives
overlapped, there is one writer of checkpoints, so what the row, the running drive and a
deciding request hold is the same text, and what was seen is what was signed.
`ClosedRunsStayClosed` shows that a closed run with nobody holding its row (`AtRest`) stays
so: whoever arrives reads a closed row, decides on that copy, and is turned away.

**`RunEvents_proofs`.**  `AccountInv` places each call of each drive in exactly one of buffer,
event on its way, ledger, or loss (`Holder`), and says of a flush that what it writes is what
it took.  `TimelineInv`: the numbers of the timeline have no hole below their count
(`NoHole`), a drive holding a number holds the next one or one that is taken, its events
enter in the order it emitted them (`InOrder`), and a browser has exactly the numbers up to
its cursor.  `CallsAreBookedOnce`, `CursorIsComplete` and `EventsTypeCorrect` follow.

**`AutomationScheduler_proofs`.**  First the arithmetic, without a state:
`NextRunIsLaterAndOnSchedule` says of `compute_next_run` what its docstring promises, for
every calendar, offset, cadence, instant and anchor.  It needs that local days follow one
another (`MidnightAssumption`) and, for the monthly cadence, that the first such weekday of
this month or the next one is later than `after`.  Then the state: a row that is off holds
no slot and a worker claims with a slot it read (`TickInv`), which gives
`NothingIsClaimedOnceOff`; slots of the row and of the copies are on their schedules, and,
where no hour is skipped, equal instants are equal weekdays and hours (`SlotsInv`), which
gives `SlotFollowsTheRow`; and the row's slot lies beyond every slot claimed with a `now`
that had reached it, except for what a save that was computed before may restore
(`ClaimInv`), which gives `ReachedSlotsAreClaimedOnce`.

**`Content_proofs`.**  One invariant per component that reads, writes or judges texts, and the
types of each.

- *Crawl*: `CrawlInv`.  Breadth-first search as an invariant: a function from the urls heard of
  to their depths (the witness) under which the frontier is sorted and at most one level
  deep, and a page's links are heard of at one more than its depth, unless that is too deep.
- *Delivery*: `LeavesCleared` (what is rendered is cleared, what is out is shown), `AnswersHold`
  (the ledger's, the drive's and the platforms' answers agree), `ReportsHold`.  `Rank` and
  `Place` show that enforcing the hashtags, as a choice of places, keeps the order.
- *Node turn*: `TurnInv`.  What every attempt retained was vouched for; a loop that goes on
  had no sufficient attempt; the outcome is that of the best attempt.
- *Memory*: `MemoryInv` (no rule is there twice under one key) and `Edited`, what a request
  may do to the row.  A deletion is `Picked` at all places but one, and that is `RemoveAt`.
- *Evaluation*: `EvalInv`.  Samples belong to the row they are named for, and the tally in the
  header is the number of measured cells, counted row by row as rows are appended.
- *Pages*: `AdviceInv`.  Of the draft and the site, one has nothing to report from the start;
  `Rounded(d, r)` says what r rounds make of a draft, `SoundPages` and `Left(named, r)` what
  they leave of a site: no finding of a single page after one, and of the orphans, titles and
  descriptions as many fewer as the findings named.  Two arguments carry it.
  `RevisedNoWorse`: each hint, taken with what the other hints change of the same page, leaves
  no rule's answer worse than it was; so the score, as the sum of what the answers cost, does
  not fall.  For the keyword this is arithmetic: uses and words grow or shrink together, and a
  rounded count still lies in the band of the body it is written into (`DensityHintsHelp`),
  whatever else the draft was refused for.  And `HeadingHintsAdvance`: where a draft skips a
  level after r rounds, the heading above is of level r or deeper, because a skip that is left
  lies below a heading that this round retagged or put in, and that one is a level deeper than
  the one whose skip it answers; with six levels there is no such skip after five rounds
  (`NothingSkipsFromFive`).  A single `<h6>` needs all five, as TLC shows, so the bound is
  exact; and it holds for any number of headings.
- *Listings*: `HintInv`.  The profile is one that can be written down, and the findings are
  those of the listing as it is.  Pasting what a hint displays makes the comparison of that
  field succeed, and what still costs points is among what did before, a street's inline
  house number included.  The exceptions, `NeverRight`, are in the statement because they are
  in the code; outside them the proof shows that a displayed value, reduced once more, is
  what it was.

**`Services_proofs`.**  One invariant per component again, and its types.

- *Router*: `BudgetInv`.  As long as calls are in flight, one of them, the last to pass the
  guard, is such that its estimate and a batch for each of the others fit on top of what is
  spent; a booking exceeds its estimate by at most the surplus.
- *Probes*: `GeoInv`.  No row of a run's questions is later than its stamp, and if the stamp
  is a fresh one, each is more than a window older; what it is still to insert is not there
  under that time (`Sound`).  It stays so because two saves never hold the same question
  (`LocksHold`), and rows of other questions do not matter.  What a run's questions are is
  immaterial, so the profile may change at any time and a budget may skip any of them.
- *Knowledge base*: `KnowledgeInv`.  What an upload is to embed, has been answered, and has
  stored are the same texts at the same places, whatever the order of the answers.
- *Leads*: `LeadInv`, with `Grown`: a published page stays, a link keeps owner, piece and code,
  so what a visitor was shown remains true while they fill in a form.

`ComponentsStandAlone` shows that a behaviour of `Services` is one of each of twelve components,
and `ServicesKeepTheirPromises` lifts their theorems to it.  Pages and listings start freely
only in a behaviour that follows them, so they obey their own specification there and stand
still elsewhere (`AuditsStart`, `AuditsMoveAlone`): that gives `HintsHelpBesideTheRest` and
`AdviceHelpsBesideTheRest`, and with the twelve others `ServicesTypeCorrect`.

**Only model-checked.**  Liveness (`DriveEnds`, `RunningIsSettled`, `DueIsHandled`), which is
out of this prover's reach.  Every other property of a passing run, types included, is a
theorem for all values of the constants; the violated runs are counterexamples, and need no
proof.

## 6. Not modelled, and why

The components with status `not_modelled` in `PROJECT.json` carry their reason.  In short:
schema, settings and tracing are what the modules assume; keyword expansion is stateless;
the frontend is a caller.  Within the modelled parts:

- wire formats of platforms, mail and models, HTML parsing, and prompts: an answer is one of
  the outcomes the callers tell apart;
- the address rules of the crawler and the mail headers, whose only effect is a refusal;
- sign-up and the creation of a business, single transactions whose races are listed above;
- the reading-ease formula and the extraction of a NAP from a page: arithmetic and patterns
  over text that no model of a few words would test;
- the scheduler's batch of many businesses and its LIMIT 100;
- the tail a stream may lose, a cancel over a published post and a double queueing: the code
  has no guard there, so there is nothing a property could hold on to.

## 7. Plan

Done, in this order: `AgentGraph` with its gate, `RunLifecycle`, `Actuation`, `Publishing`,
`NextRun` and `AutomationScheduler`, the first proof modules, then the fourteen components
with `Services`, and a proof of every invariant and action property a passing run checks.

Next:

1. A theorem for the other half of the cap: with one publisher at a time the window never
   holds more than the cap.
2. A batch of businesses in the scheduler, for the starvation behind LIMIT 100.
3. Sign-up and the creation of a business, with the slug's retry.
4. Delivery over a key that EXPORT and the calendar share, once the code has one.

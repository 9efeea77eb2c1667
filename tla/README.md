# MergePilot: a TLA+ verification development

MergePilot is a local-first copilot for Azure DevOps delivery work. A Tauri
desktop starts a daemon (`packages/daemon`, Fastify over HTTP and SSE); the
daemon runs the shared logic of `packages/core` (delivery actions, task queue,
chat planner, git and Azure DevOps tools); `packages/review-agent` is a hosted
webhook service that reviews pull requests with the same core; `packages/cli` is
a thin client of the daemon. Everything is single-process Node.js: code between
two `await`s runs alone, and the hazards lie in what is read before an await and
used after it, and in what a crash leaves behind.

## Inventory

| Component | State it keeps | Operations | What makes it correct |
|---|---|---|---|
| Delivery action runtime (`core/src/delivery/actions`) | SQLite table `delivery_actions`, one row per idempotency key | propose, approve, approveStreaming, retry, reject, resumeVerification | each write has an approval, runs at most once, is verified by a re-read, and settles |
| Azure DevOps transport (`core/src/delivery/adoActionTransport.ts`) | none; the remote artifacts | readArtifact, execute per kind of action | a failed read or a half-done write is told apart from an absent artifact or no write |
| Delivery tool, routes, verified chat action (`daemon/src`) | kill switch in memory | callers of the runtime | a confirmation sent twice writes once |
| Task queue (`core/src/queue.ts`) | `tasks.json`, the same store in memory, one running task | submit, start, stop, the loop | a restart loses no accepted task, repeats a run only when it must, and every task ends |
| Review agent (`review-agent/src`) | review history (table, file or memory), a queue per replica | webhook, handle | one review per iteration, no approval without a record, no queued event forgotten |
| Chat sessions (`daemon/src/chat*.ts`) | session records, the active-run set | message, confirm, decline, delete | one run per session, no lost bubble, a proposal confirmed once |
| Snapshot store (`core/src/delivery/snapshotStore.ts`) | SQLite snapshots | put, latest, freshness | the newest revision wins |
| Chat planner (`core/src/chatPlanner*.ts`) | one conversation | model steps, tool calls | bounded, no duplicate tool call |
| Workflows (`daemon/src/workflows`) | working tree, artifacts | commit, push, pull request, pipeline | later step only after the earlier succeeded |
| Pull request validation (`daemon/src/pullRequestValidation.ts`) | result cache keyed by commit | validate | a result is used only for what it validated |
| Git tools and checkpoints (`core/src/tools/git*.ts`, `daemon/src/chatToolRuntime.ts`) | `checkpoints/<id>.json`; the repository | checkpoint before a confirmed tool, `git_checkpoint_apply`, the git commands | what a tool overwrites can be brought back, and applying a checkpoint brings it back |
| Project links, settings, authentication, indexing, CLI, desktop | files, MSAL cache, UI state | read and rewrite | last writer wins by design, or a library's concern |

Interaction: the desktop posts a confirmation; the daemon's chat route runs
`runVerifiedChatAction` (git tools) or `delivery_propose_action` (Azure DevOps),
and both drive one `DeliveryActionRuntime`, each call with its own instance over
the same SQLite file. The delivery routes drive the same table directly. Only
the table is shared, so nothing orders two calls on one row. The pipeline route
submits to the task queue, whose runner calls Azure DevOps without a record in
that table; the queue's only durable state is its file, which every daemon
process over the same data directory opens.

## Modules

| Module | Role |
|---|---|
| `DeliveryActions` | the delivery action runtime with its store, policy, executor, verifier, callers, the remote, and crashes |
| `MCDeliveryActions` | the instance for TLC: symmetry of callers |
| `DeliveryActionsProofs` | theorems about `DeliveryActions` |
| `WriteLedger` | the abstract promise of the runtime: an approval buys one write, and the ledger tells the truth |
| `DeliveryLedgerProofs` | `DeliveryActions` implements `WriteLedger`, and what follows |
| `ChatTurn` | one turn of the chat: narrator, planner run, route, event stream, user |
| `MCChatTurn`, `ChatTurnProofs` | the instance for TLC; theorems about `ChatTurn` |
| `ChatApprovals` | the proposals of one session across its requests, and the records of the approved git tools |
| `MCChatApprovals`, `ChatApprovalsProofs` | the instance for TLC; theorems about `ChatApprovals` |
| `GitCheckpoints` | confirmed git tools with the checkpoint taken before each, `git_checkpoint_apply`, the repository and its developer |
| `MCGitCheckpoints`, `GitCheckpointsProofs` | the instance for TLC; theorems about `GitCheckpoints` |
| `TaskQueue` | the task queue with its file, and the daemon processes that open it |
| `TaskBoard` | the abstract promise of the queue: one task at a time, one verdict out of a run, no run after it |
| `MCTaskQueue` | the instance for TLC |
| `TaskQueueProofs` | theorems about `TaskQueue`, and that it implements `TaskBoard` |
| `ReviewAgent` | replicas of the review service, their queues, the history row they share and the pull request |
| `MCReviewAgent` | the instance for TLC |
| `ReviewAgentProofs` | theorems about `ReviewAgent` |

### DeliveryActions

`store` is the table; `req[c]` what caller `c` is in the middle of: the row it
read (`rec`), the kill switch and clock as it read them, the write it has under
way. Every action is the code between two awaits; `pc` names the await.

| Action | Code |
|---|---|
| `CallPropose`, `CallApprove`, `CallRetry`, `CallReject`, `CallResume` | entry of the operation up to its first store read |
| `CheckProposal`, `CheckApproval`, `LoadRetry`, `CheckRetry`, `DoReject` | the status, expiry and retry guards, up to `policyContext` |
| `ReadRevision`, `ReadThrows` | the awaited artifact reads of `policyContext` |
| `DecideProposal`, `DecideApproval`, `DecideRetry` | the verdict and the row it writes |
| `Send`, `Answered`, `CallbackThrows` | `executor.execute` or the streaming callback, and the row written after |
| `ResumeNext`, `VerifyAttempt`, `WriteVerdict` | the verifier loop and the verdict row |
| `RemoteApplies`, `RemoteRefuses`, `LoseAnswer`, `LateLands`, `LateDropped` | the remote and the network |
| `SetWritesEnabled`, `Tick`, `ExternalEdit`, `Crash` | kill switch, clock, other people, the daemon dying |

Abstractions. A revision is one counter for all targets, since the code only
compares for equality; a payload is not kept. Each action has one predicate,
chosen by whether it creates its target (`exists`), expects it gone
(`not_exists`) or changes a field (`field_eq`); the other conditions behave as
`field_eq` does in the loop (pending until satisfied). `evidence`, `landed`,
`claims` and the `since` and `wasOn` fields of a request are history. Two
microtask chains may interleave at every await, a superset of what one event
loop produces; none of the reported counterexamples needs more than the awaits
of the network. `auto-approve` (status `approved` in `propose`) is unreachable,
because `policyContext` never passes `autoApproveRisk`; `cancelled` is never
written; `markStaleForTarget` has no caller outside tests.

### WriteLedger

What a caller may rely on, without requests, statuses or awaits: `granted` and
`permits` count approvals and those not yet spent, `sending` and `landed` the
writes under way and those that took effect, `told` what the row says. A write
spends a permit, a late one keeps its charge until it lands or is lost, and a row
may say `executed` only of a write that landed and `verified` only of one that was
seen. The mapping in `DeliveryActions` (`Ledger == INSTANCE WriteLedger WITH ...`)
forgets who asked: a request that passed the approval guard and has not sent yet is
a permit, a write in any caller's hands is `sending`, and the status of the row
becomes two flags. Retries, recovery and lost answers are where a permit could be
used twice; `ImplementsLedger` says they are not.

### ChatTurn

Three activities of one process (and a user) that interleave at their awaits:

| Action | Code |
|---|---|
| `Speak`, `FallSilent` | a text or failure event, and the end, of an opening attempt |
| `Reprompt`, `OpeningFails`, `OpenGate` | the route after the opening settled or its deadline passed |
| `Forward`, `QueueFails`, `QueueEnds` | the route's loop over the event queue, its `catch` and its end |
| `Persisted`, `Claim`, `Found`, `Started` | the message is stored, the prewarmed runtime is claimed, the session is looked up, read and saved; each of these may throw, and the session may not be there |
| `NoProposal`, `TakeProposal`, `ApprovedDone` | the pending approval: none, refused or replaced, or run and over |
| `DecideTool`, `PassGate`, `ToolDone`, `Nudge` | the planner's loop around the first-tool gate |
| `Conclude`, `ModelFails`, `AskConfirm`, `Close` | its answers, failures and questions; the `finally` of the run |
| `Confirm`, `Cancel`, `Disconnect` | the user |

`timeline` is the persisted timeline of the turn, `queue` the events between
planner and route, `gate` the first-tool gate, `runtime` the prewarmed runtime
that somebody has to close. Abstractions: texts are left out, except whether there
was one; the model answers anything; what the evidence checks and tool guards
decide is open (`Nudge`); one kind of tool stands for all.

### ChatApprovals

`stored` is the proposal of the session file, `asked` what the transcript parser
makes of the last answer, `record[a]` the `ActionRecord` of an approved call,
`shown` the calls whose expected result the repository shows.

| Action | Code |
|---|---|
| `Say`, `Answer`, `NothingPending` | a message: "yes", "no" or another, with or without a pending approval |
| `Conclude`, `PlanFails` | the planner ends with a proposal, a question or an answer |
| `Click`, `SetUp`, `Decline` | `confirm-action` with its awaited set-up, `decline-action` |
| `Prepare` | the routes that store a prepared proposal |
| `Run` | a tool that has no record: everything a typed "yes" runs, and all but git tools |
| `Dispatch`, `Resume`, `Retry`, `Propose`, `Approve`, `Execute`, `ExecuteUnrecorded`, `Verify`, `Outcome` | `runVerifiedChatAction` with every branch on an earlier record, and a transcript that cannot be written after the tool ran |
| `Edit`, `Crash` | somebody else in the repository; the daemon dies |

Abstractions. The session file is read and written synchronously, so its steps
are those between awaits of real I/O. The approval id is a hash of tool and
arguments, so one record stands for one call with its arguments. The policy reads
of propose and approve are their own steps; expiry is left to `DeliveryActions`.
`seen`, `answers`, `wrote`, `overlapped` and `unrecorded` are history. A typed "yes" runs a git tool directly, without a record
(`chatMessageApprovals.ts:107`), which is why `OkIsConfirmedOnce` speaks of clicks.

### GitCheckpoints

`tree`, `made`, `head`, `index` and `work` are the repository, `saved` the checkpoint
files by the millisecond that names them, `req[c]` a confirmed tool between two of its
git commands.

| Action | Code |
|---|---|
| `Call` | the confirmed tool, up to the id of the checkpoint before it |
| `ReadHead`, `TakeCheckpoint` | the hook of `createChatToolExecutor()` with `createGitCheckpoint()`: HEAD, the diff, the file; for `git_checkpoint` the tool itself; for `git_checkpoint_apply` also the read of the checkpoint it names |
| `CheckHead`, `ListStatus` | `applyGitCheckpoint()`: the HEAD check, and the status that a checkpoint without changes goes by |
| `Reset`, `Patch` | its `git restore --staged --worktree` and its `git apply` |
| `RunRestore`, `RunUnstage`, `RunAdd`, `RunCommit`, `Refused` | `git_restore` with and without `staged`, `git_add`, `git_commit`; a command that fails |
| `Edit`, `Stage`, `Commits`, `Switch` | the developer, at any moment |
| `Crash` | the daemon dies between two commands |

Every git command may fail. A failed read is swallowed where the code swallows it: HEAD
becomes "" (0 in the model), the diff and the status become empty. `Mask` is
`redact()`, which every output of a command passes, the stored diff among them.
Abstractions. A file is its content. A secret in a file is taken to stand in every hunk
of it; a patch whose context is not what it was made from may fit or be refused; git
pairs a deleted with a new file as a rename when their contents are equal. A tool names
one path, and the options of the commands are left out. `read`, `was` and `plain` of a
checkpoint and `touched` of a request are history: what a checkpoint can vouch for, and
which files somebody else has changed since the request read the diff.

### TaskQueue

`disk` is `tasks.json`; `mem[p]` is `this.store` of process `p`, `cur[p]` the
task whose runner its loop awaits, `wake[p]` the flag of that name, `listening`
the process that holds the port.

| Action | Code |
|---|---|
| `Boot`, `Start` | the constructor's `load()`, which may find or make the store empty; `start()`: running tasks back to queued, save, enter the loop |
| `PickTask` | `nextQueued()` and the call of the runner |
| `Sleep`, `WakeUp` | the empty branch of `loop()` and its poll |
| `Step` | `addStep()`: a save of the whole store from memory |
| `RunnerSettles` | the `try` and the `catch` of `loop()` with the `done` event |
| `Submit` | `POST /tasks/submit-pipeline` and `submit()` |
| `Listen` | `startServer()`: the port, or EADDRINUSE and `process.exit(1)` |
| `Crash` | `/shutdown`, a kill, a power loss |

Every save may throw, and a throw or a death may leave the file unreadable
(`Corrupt`), since `writeFileSync` truncates first; where nothing catches the
throw the process ends (`Die`). The read of a good file may throw too: `load()` takes
that for an empty store, and the save of `start()` makes it so (`lost`). `Boot` beside a live process is possible because
`buildApp()` starts the queue before `startServer()` asks for the port.

Abstractions. A task is its status and its insertion position: `createdAt` has a
resolution of one second and its ties are resolved by the insertion order, which
it follows as long as the clock is not set back. The steps and the result of a
task are not kept, the saves they cause are. `accepted`, `reported`, `runs`,
`kills`, `lost` and `overlaps` are history: what clients were told, how often
runners were called, and what disturbed them.

### TaskBoard

What a client may rely on, without processes, file, memory or faults: `taken` are the
accepted tasks, `active` the one that runs, `started` counts runs, `told` is the verdict
a task was given. A task begins only while nothing runs and it has no verdict, and ends
only out of its run; an interrupted run may begin again. A task may begin that nobody
was told is accepted: `submit()` leaves it in memory when its save throws. The mapping
(`Board == INSTANCE TaskBoard WITH ...` in `TaskQueue`) forgets who runs a task and what
is on disk; the board is `spoilt` from a boot beside a live daemon, or from loading an
empty store in place of a file that could not be read, and promises nothing after that.

### ReviewAgent

`pending`, `done` and `job` are the queue of each replica, `latest` and
`decision` what its `handle()` holds between awaits, and `pc` names the request
it awaits. `last` is `lastIterationId` of the history row, `audited` the iteration whose
approval it names (`autoApprovedAt`), which the next upsert replaces; `head`, `threads` and
`approved` are the pull request at Azure DevOps.

| Action | Code |
|---|---|
| `Deliver` | the webhook route and `enqueue()`, at any replica, late or repeated |
| `Take` | the head of `start()`, up to the first request of `handle()` |
| `ReadIterations`, `ReadHistory` | the newest iteration; the duplicate check |
| `Review` | conventions, context, model and gate, which change nothing outside |
| `PostSummary`, `PostFindings`, `Approve` | the threads, the vote and its `catch` |
| `Record` | `upsertHistory` and the `finally` of the queue |
| `Fails` | any other request fails: the handler logs it and the key is done |
| `Push`, `Crash`, `Boot` | the author; the host of the replicas |

A request that fails, or whose replica dies, may have taken effect
(`Unanswered`). Abstractions: what a review says is arbitrary, except that
`handle()` passes no base commit, so that no changed file has hunks, context
confidence stays below high, and only an iteration without changed files can be
approved (`Unchanged`). The inline findings are one step, because their number
decides nothing. A commit is not tied to an iteration: events are late, and a
push back to an older commit repeats a key. `recorded`, `announced`,
`overlaps`, `events` and `faults` are history or bounds.

## Runs

Bounds of `DeliveryActions`: `MaxClock` and `MaxEdits` (1 or 2 steps are enough
to expire a record or move its target between two awaits), `MaxRetries` (1 lets
a failed action be proposed, executed and fail again), `Attempts` (2 instead of 6:
the loop only distinguishes the last attempt from the others).

| Run | Question |
|---|---|
| `DeliveryFaults` | one caller, all operations, all faults: what runs was allowed, executedAt, approval evidence, verification evidence, one write and one more per retry, and the refinement of `WriteLedger` |
| `DeliverySettles` | two callers of an action that creates its target: no uncharged write, at most one execution per caller, a settled row is overwritten only by a request that had read it before, and every execution settles |
| `DoubleApproval` | counterexample: two approvals of one action write twice |
| `UnreadDeletion` | counterexample: an action that expects its artifact gone is verified by a read that failed |
| `ChatTurnSettles` | one turn: no tool before a heard narrative, one end per timeline, answers obeyed, every turn ends, its runtime is closed but in three named cases |
| `ChatApprovalsSettle` | two requests: a proposal is answered once, a git write that its record knows of is not repeated, success was confirmed, every click is answered |
| `ReplayedApproval` | counterexample: a second approval of the same call is answered with the result of the first |
| `GitCheckpoints` | a tool and then another, with a developer in between: an applied checkpoint gives the file back, what a tool overwrites can be restored but in four named cases |
| `TaskQueueRestarts` | two processes, two tasks, every fault: runs are charged, answers are durable, accepted tasks end, and the refinement of `TaskBoard` |
| `SecondDaemon` | counterexample: a second daemon requeues the task that the first is running |
| `ReviewReplicas` | two replicas, late and repeated events, one fault: reviews are charged, the history claims no approval that was not given and goes forward, queued events are acted on |
| `UnauditedApproval` | counterexample: the next review replaces the record of an approval |

Bounds of `ChatTurn`: `MaxSteps` 2 instead of the planner's limit lets one tool
precede an answer, a nudge or a second tool, and the limit be reached; everything
else is finite by itself.

Bounds of `ChatApprovals`: two requests at once, three messages or clicks in all
(propose, approve, approve again), one outside change and one crash; a git tool
and another. A second git tool only adds records that do not interact, but in the
list that a recovery resumes; the proofs cover any number of them.

Bounds of `GitCheckpoints`: one file with or without a secret, two commits, two calls,
two edits and two milliseconds. That is a checkpoint and its application, or two tools
with checkpoints of one name, with HEAD, index or file changed twice at any await
between them; no action of the developer or a tool is needed twice for a case the
properties tell apart. Several files (a patch over some of them, renames) and several
requests at once multiply the states beyond a run; the proofs cover them.

Bounds of `TaskQueue`: `MaxFaults` counts kills, failed saves, failed reads and
overlapping boots together. 3 lets a save fail, a process die and a second one boot in one
behaviour, or one task be killed in each of its runs; two tasks are enough for
one to be submitted while the other runs, and two processes for an overlap.

Bounds of `ReviewAgent`: two replicas overlap as five would; three events let one
be redelivered while two are under way; two iterations, of which the second can
be approved, let one overtake the other; `DoneLimit` 1 (4096 in the code) makes a
queue forget a key, and `MaxFaults` 1 lets one request fail or one replica die at
any await. `UnauditedApproval` needs one replica, two events and no fault.

`GitCheckpoints` promises safety only: it states no fairness, and every request is a
fixed sequence of commands that have timeouts.

Fairness of `DeliveryActions`: `WF_vars(Handle(c) \/ Remote(c))` for each caller. A handler whose
await settled is resumed by the event loop, and `fetch` settles with an answer or
an error. No fairness is assumed of callers, ticks, edits, crashes or recovery.
`InFlightSettles` is checked without crashes: after a crash nothing resumes the
row unless the same confirmation is sent again.

Fairness of `ChatTurn`: `WF_vars(Serve)` and `WF_vars(Run)`: the route's awaits end
because the deadline is a timer, and the run's because model requests and tools
have timeouts. Nothing is assumed of the narrator, whose stream may hang, and of
the user. Fairness of `ChatApprovals`: `WF_vars(Step(c))` of each request; nothing is
assumed of messages, clicks, edits and crashes.

Fairness of `TaskQueue`: `WF_vars(Work(p))`, what a live process does of itself
(its runner settles, because its commands and requests have timeouts), and
`WF_vars(Restart)`, since the command line and the desktop start a daemon when none
is up; nothing forces a second one to boot beside it. Nothing is assumed of submissions,
steps and faults, and `MaxFaults` bounds the faults: `AcceptedEnds` says that a task ends
once they stop.

Fairness of `ReviewAgent`: `WF_vars(Work(r))`, a live worker goes on when its
request settles. Nothing is assumed of pushes, webhooks and the start of a
replica, and the other handlers of the replica are single synchronous steps.

## Proofs

`DeliveryActionsProofs` proves for every set of actions and callers, every bound
and every set of faults, from the named assumptions of `DeliveryActions`:

* `TypeCorrect`: the type invariant.
* `ExecutedAtCorrect`: a row with `executedAt` names a write that landed. The
  property is not inductive, because handlers write whole rows from snapshots:
  the invariant also says it of every row a handler holds and of a write whose
  answer is applied but not yet recorded.
* `ExecutionLicensed`: what is executed was allowed while its request ran. The
  invariant follows a request from the call to the write: what the kill switch
  and the clock were at each step, and that revisions only grow.
* `SettledRowsYield`: whatever overlaps or fails, a row that is settled (terminal, and no
  retry may open it again) is overwritten only by a request that still holds it as it was
  before. The invariant (`DatedInv`) says that a handler past its guards holds a row that
  was not settled when it read it, and that recovery lists rows in flight only.

`MutationsAreApproved` and two theorems of `DeliveryLedgerProofs` are about requests
that do not overlap: `Spec /\ []Alone`, where `Alone` says that one caller at most is in
the middle of an operation. The hypothesis is what the code needs, since
`updateStatus()` writes a whole row from a snapshot and compares nothing;
`DoubleApproval` shows what two overlapping requests do. Everything else stays
arbitrary: crashes, lost answers, late writes, other people, any number of callers that
take turns. The invariant (`SerialInv`) says that the row a request holds is the row of
the table (`Current`), that a write which landed or may still land is in a row that
names its approval, and that the approvals spent, with one for a row that may be
executed again, are at most one more than the retries.

* `MutationsAreApproved`: the ledger names the approval of every write.
* `RetriesPay`: a logical write lands, or still may, once and once more per retry.
* `WritesOnce`: without retries it lands once, `AtMostOnce`.

`TaskQueueProofs` proves, for every set of tasks, every finite set of processes
and every bound on faults, from `TaskQueueAssumption` and `CorruptAssumption`:

* `QueueTypeCorrect`: the type invariant.
* `RunsAreCharged`: a task runs at most once, once more for every death in the
  middle of a run, and once more for every overlapping boot. To be inductive the
  invariant charges the runs that are still possible too: one for each process
  that holds the task unfinished without running it (`Idle`), and one for the
  file when no process holds it (`OnlyOnDisk`). Each action then moves a copy,
  spends it or is charged for it; the finite set of idle holders is why the
  proof needs the cardinality theorems of the library.
* `AnswersSurvive`: while one daemon runs at a time and no empty store was loaded in
  place of the file, the file agrees with what clients were told. The invariant says it of
  the memory of the live process as well, because a save writes that memory and
  a boot reads the file.
* `QueueKeepsItsBoard`: every step of the queue is one of `TaskBoard` or changes none of
  its variables. Besides `DurableInv` of `AnswersSurvive` the invariant (`RunInv`) says
  that a process that awaits a runner holds its task as running in memory, so that with
  one daemon at a time a task that was given a verdict is not being run.
* `ResetsAreOfInterrupted`: as long as no daemon boots beside a live one
  (`[](overlaps = 0)`), what `start()` resets nobody is running. `SecondDaemon` refutes
  the same property with two.

`ReviewAgentProofs` proves, for every set of replicas and commits, every bound and
every limit of the queue, from `ReviewAgentAssumption`:

* `ReviewTypeCorrect`: the type invariant.
* `HistoryIsMonotone`: until two replicas have worked at once the row never goes
  back. The invariant (`OrderInv`) adds that nothing reviewed or recorded is newer
  than the pull request, and that without an overlap there is one worker at most
  and the row is not newer than the iteration it holds.
* `AuditsAreTrue` (`AuditInv`): the row names an approval only of the iteration it is
  about, and only if the vote was cast: a worker that is about to record one has seen the
  vote answered. `UnauditedApproval` refutes the converse, that every approval is named.
* `ReviewsAreCharged` (`ChargeInv`): the threads of an iteration are counted together
  with the reviews that may still post to it (`Open`: one per worker that has not got
  past posting; `Due`: one while nobody works and the row is older), and are at most
  one, plus the faults, plus the overlaps, plus one while some worker is kept from
  posting by the row or by the newer iteration it has read (`Relieved`). Every action
  moves one of these, spends it, or is charged for it.

`DeliveryLedgerProofs` (with `LedgerIsSound` of `WriteLedger`):

* `LedgerImplemented`: every step of `DeliveryActions` is one of `WriteLedger` or
  changes none of its variables, for all callers, actions, bounds and faults. The
  mapped counters are cardinalities of sets of callers, so the proof first shows
  what moving one caller does to such a count.
* `WritesAreCharged`: inherited from the ledger's invariant by the refinement.
* `OverlapsPay`: however requests overlap, a logical write lands, or still may, at most
  `Cardinality(Client) * (1 + retries)` times. No hypothesis: this is the bound that
  holds where `AtMostOnce` fails. The invariant (`OverlapInv`) counts, for each action,
  the approvals spent, the requests that may still spend one (all callers while the row
  awaits approval, those that have read it so afterwards), and the callers times what
  may yet open the row again: its proposal and the retries under way.
* `VerifiedIsEvident`: under every fault a verified row had its evidence, unless it is a
  deletion and reads fail (`BlindActions`), which is what `UnreadDeletion` shows. The
  invariant (`EvidenceInv`) follows the verdict from the read of the verifier to the row,
  through a handler that holds it.

`ChatTurnProofs`, for every bound on the planner's steps and every set of messages:

* `TypeCorrect`: the type invariant.
* `StreamsEndOnce` (`EndsInv`): while the turn is active nothing has ended, and before
  the route is over only the user's stop may stand at the end of the timeline.
* `NarrativeComesFirst` (`NarrativeInv`): the gate is open only behind an opening that
  is over, without error and heard, and a planner that is past the gate has seen it
  open or runs what was approved.
* `StoppedTurnsRest`, an action property that needs the types only: each action that runs a
  tool reads the flag that every stop clears.
* `CardsCanBeAnswered`, `AnswersAreObeyed` (`ApprovalInv`): a card, or a card still
  queued, exists only when the run is ending, so that nobody takes the proposal away.

`ChatApprovalsProofs`, for every number of requests, tools and faults:

* `ProposalsAreAnsweredOnce` (`AnswersInv`): whoever acts on a stored proposal has
  removed it in the step that read it.
* `WritesAreNotRepeated` (`RepeatInv`): a reported write runs again only if two requests
  carried it out at once, or if its last execution left no trace in the record, because
  the daemon died or the append to the transcript threw (`unrecorded`). The invariant:
  only resuming requests hold lists of records; two requests carry one call only after
  an overlap was noted; and the record of a reported write rests in `verified`, or on a
  way that leads there or to a status that is not retried.
* `SuccessIsConfirmedOnce` (`DirectInv`): a click never runs a git tool without its record.
* `SuccessIsConfirmed`: with `MaxEdits = 0`, that is while nobody else changes the
  repository, `OkIsConfirmed` holds: a verified record (`VerifiedIsShown`) still says what
  the repository shows. `ReplayedApproval` refutes the property with one such change.
* `TypeCorrect`: the type invariant.

`GitCheckpointsProofs`, for all files, contents, requests and bounds:

* `TypeCorrect`: the type invariant.
* `AppliesRestore`: an applied checkpoint gave back every file that it vouches for,
  that nobody touched, and whose patch shows no secret. The invariant first says what a
  stored checkpoint is (`CkOK`: it was taken at its HEAD, and a file outside its patch
  was as committed), then follows a request (`Restoring`): while nobody touches a file,
  HEAD still has what the checkpoint's HEAD had, and after the reset so has the file.
* `OverwrittenIsKept`: what a tool overwrites can be restored from HEAD, or from what is
  left in the index, with the patch of the tool's own checkpoint, unless it is one of the
  losses that `NotSaved` names or somebody else changed the file after the diff was read.
  The invariant (`Guarded`) says it of each file of a tool that is about to act: until
  somebody touches the file, the stored patch leads from the index to the working tree.

Five theorems state, under a named hypothesis, the property that a counterexample run
refutes without it (`WritesOnce`, `ResetsAreOfInterrupted`, `SuccessIsConfirmed`) or the
property that replaces it (`OverlapsPay`, `VerifiedIsEvident`): together with the
counterexamples they say what exactly each flaw needs.

Only model-checked: the liveness properties (`InFlightSettles`, `EveryTurnIsAnswered`,
`ProposalIsShown`, `RuntimeIsReleasedOrStranded`, `ClicksAreAnswered`, `AcceptedEnds`,
`QueuedIsReviewed`), because fairness and ENABLED are out of the prover's reach. Every
safety invariant and action property of the passing runs is a theorem.

## What the counterexamples say

* `DoubleApproval`: the runtime checks a row before an await and rewrites the whole
  row after it, so two confirmations of one action both write to Azure DevOps. The
  same race lets the second erase the first one's approval, which is why
  `MutationHasApproval` is checked and proved for requests that take turns.
* `UnreadDeletion`: the transport answers a failed read with `undefined`, and the verifier
  takes `undefined` for the absence that `not_exists` expects, so such an action is
  verified while its artifact is still there.
* `ReplayedApproval`: the record of a call that was verified once answers every later
  approval of the same call, although the repository has moved on.
* `SecondDaemon`: starting the queue before binding the port lets a daemon that
  is about to exit run a task twice.
* `UnauditedApproval`: the history has one row per pull request and every review replaces
  it, so a review that does not approve erases the record of an approval that stands. It
  takes no failure: a push and its webhook do. (A vote that lands while the request
  fails, or a replica that dies before the row, leaves no record either.)

Losses that the properties of the passing runs name as exceptions, because the code has
them:

* A pull request that was created while the link to its work item failed counts as not
  written (`adoActionTransport.ts:297`), its row is failed without `executedAt`, and a
  retry creates another (`actionRuntime.ts:357`; its comment at 342-343 says that no
  remote mutation happened). `RetriesPayForWrites` counts the retry.
* Two requests overwrite each other's row (`actionRuntime.ts:391` and the unconditional
  `updateStatus`): an execution under way overwrites a rejection.
  `SettledYieldsToStale` says that nothing started later does.
* A client that leaves after a valid opening makes the route return without settling the
  first-tool gate (`chat.routes.ts:543`), so a planner that waits there waits for ever
  and its runtime stays, although it "is released by the existing finally block"
  (`chatSessionRun.ts:36-37`). So does the runtime of a turn whose session is not found,
  or cannot be read or saved, after the claim (`chatSessionRun.ts:63-86`).
  `RuntimeIsReleasedOrStranded` names these three.
* The append to the transcript throws after a confirmed tool ran
  (`chatVerifiedActionRuntime.ts:394-409`): the row stays executing, recovery makes it
  failed without `executedAt`, and the next approval runs the tool again. A death at
  that point does the same. `WritesNotRepeated` names both.
* A confirmed git tool loses a change whose diff could not be read, an untracked file,
  changes that were only staged (the checkpoint stores `git diff`), and the content of a
  file with a secret (only its masked text is stored). `WorkIsKept` names the four
  (`NotSaved`); it also loses what somebody writes between the diff and the tool.
* A file of tasks that cannot be read is an empty store (`AnswersAreDurable`), and the
  jobs of a replica that is scaled in are gone (`QueuedIsReviewed`).
* A stop between the store of a proposal and its card leaves a proposal that was never
  shown (`ProposalIsShown`), and a turn may wait for a confirmation for ever
  (`EveryTurnIsAnswered`).

Not findings, since no text of the repository says otherwise, but visible in the
models: the revision that a proposal read is never compared, and the policy re-reads
it at approval; the vote is not bound to the iteration that was reviewed. Applying a
clean checkpoint after a `git mv` restores the new name only. A stored patch has its
secrets masked, so that it is refused or writes the mask into the file. A diff that
could not be read makes a checkpoint that looks clean.

## Plan

Done: the delivery runtime and its ledger, the task queue, the review agent, the chat
turn, the approvals of a session over the records of the runtime, and the git
checkpoints. Left, in this order:

1. `PullRequestPreparation`: validation runs, the cache keyed by commit, and the
   approval that stays possible after the branch moved.
2. `WorkspaceWorkflow`: commit, push, pull request, pipeline over a working tree
   that changes between steps.
3. The snapshot store, whose upsert compares no revisions.
4. Two daemons with `ChatApprovals` over one session file, and `DeliveryActions` in place
   of the one record per call that `ChatApprovals` keeps.

Theorems still worth proving: that two requests on different actions never disturb each
other, so that `Alone` is needed per action only; an abstract specification of the review
history and of a session's proposals, with their refinements.

## Not modelled

* The Azure DevOps client, authentication and indexing: pure I/O or a library's state;
  `DeliveryActions` models the outcomes they may have.
* Git tools that switch or merge branches, pull, push, stash, tag or rewrite history:
  one command each behind the same hook as the modelled ones; the developer's `Switch`
  and `Commits` stand for what they do to HEAD.
* Snapshot store, observations, assessments: functions of one snapshot, read-only
  towards the rest; the snapshot writes of `readArtifact` decide nothing in the
  action runtime.
* Signatures and configuration of the review service, and its file store: the
  hosted service uses the table store.
* Prompts, evidence checks and tool guards of the planner: what a language model
  answers is arbitrary, and `ChatTurn` keeps the loop around it.
* Project links and settings: last writer wins on one file by design.
* Desktop and command line: clients of the daemon; `Boot` stands for the
  processes they spawn.
* In the modelled parts: `markStaleForTarget` and `TaskQueue.stop()` have no
  callers in the running program; event streams deliver what was already decided.

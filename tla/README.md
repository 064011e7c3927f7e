# A verification development of the Citrate agent runtime

This directory holds TLA+ models of the parts of citrate-agent-runtime on which its
guarantees rest: who may release an effect, what is on the record about it, how untrusted
content is kept from acting, how a file change is undone, what the agent may keep of what it
learned, what of the record is anchored on the chain, and how a worker process is kept alive.
Each model is translated from the Rust source and checked with TLC on small instances. For the
approval queue, the break-glass registry, the ceremony bridge, the worker supervisor, the agent
session, the checkpoint store, the learning store and the nightly anchor the safety properties of
the runs are also proved with TLAPS, for instances of any size; those of the decision log with any
number of kills, or with any number of power losses as long as a process opens flushed files.

Contents: 1 the system, 2 the modules, 3 the runs, 4 fairness, 5 the proofs, 6 where the code
departs from its documentation, 7 what is not modelled, 8 the plan.

## 1. The system

The runtime executes agent work on a member's machine and asks the member before anything
with an effect happens. `agent/core` holds the approval queue, the capsule runtime and the
audit chain. `agent-sidecar` is the HTTP process around it: it runs agent sessions and
skills, keeps the decision log, supervises workers and undoes file changes. `citrate-core`
(not in this repository) shows approval cards, holds the keys and submits transactions.
`hermes` is a chat front end.

| Component (source) | State | Operations | Why it is hard |
|---|---|---|---|
| approval queue (`agent/core/src/hitl/mod.rs`, `quorum.rs`, `roles.rs`) | FIFO and role tracks, frozen flag, grants, unknown outcomes, nonce counter | submit on either track, approve or reject by call id, sign, report an unknown outcome, grant, freeze and drain, thaw | a submission crosses several lock sections, its timer races the answer, its guard runs after it ended, a stop drains two tracks under two locks |
| break-glass registry (`hitl/break_glass.rs`) | one record per barred action | invoke, affirm, tick, surface | two-of-three quorum with keys in several roles, a window with two boundaries, readings of the clock taken before the lock |
| ceremony bridge (`agent-sidecar/src/lib.rs`, `hic_records.rs`) | skills in flight, the stop flag, requests between the queue and the log | run a skill, show, approve, reject, report, stop | looks at the head, writes the log and resolves without one lock over the three; timers, repeated effects and the stop in between |
| agent loop and taint (`agent-loop/src/lib.rs`) | transcript, taint sources, the calls of a reply, workflow attempts | run a turn, call tools, compact, run a workflow, clear the taint | what a refused, late or approved call brings in decides what the next may do; evidence of one attempt must not count for another |
| sessions (`agent-sidecar/src/sessions.rs`) | busy flag, calls waiting for core, stop flag, runs | message, workflow, tool results, stop | a turn parked on core, early, late and missing results, deadlines |
| action and shell approvals (`action_approvals.rs`, `shell_run.rs`) | cards waiting for the member | ask, decide, release | deadlines and the stop against a decision that is recorded ahead; two decisions on one card |
| decision log (`agent-records`) | segments, HEAD, CHECKPOINT; the writer's memory | open and recover, record, rotate, prune, verify; the lock-free walk | a crash, a power loss or an error at every system call; a reader beside the writer |
| anchor ledger (`agent-anchor`, `agent-sidecar/src/anchor.rs`) | one entry per day | plan a day, prove a record, confirm | the day is read file by file while the log rotates, prunes and takes records back; two planners; late records |
| learning store (`agent-learn`) | proposals in memory, their file, the decision log, the skills folder | propose, accept, reject, resolve, publish, reopen | the log is written before an effect and the file after it; any of the writes fails, the process stops between any two, the member edits the folder |
| worker supervisor (`agent-workers`) | worker state, pending calls, stdin slot, the child | start, call, ping, restart, shut down | four kinds of threads and a process that may hang or die; three locks |
| checkpoint store (`agent-checkpoints`, its use in `agent-sidecar/src/files.rs`) | steps, blobs, manifests in memory and on disk, busy paths | begin, commit, abort, drop, undo a step or a session, prune, reopen | writes that may fail late, crashes between them, undos interrupted half way, a full store |
| browser approvals (`agent-browser/src/approvals.rs`), MCP approvals (`mcp_approvals.rs`) | one slot; a list of cards | request, decide, deny all | waiters, a member and a stop on one slot |
| audit recorder (`agent/core/src/audit`) | hash chain, account nonce | append, submit | two submissions with one nonce |
| MCP host (`agent-mcp-host`) | servers, offered tools, backoff | call, maintain, reconnect | a tool list that changes under a running session |
| scheduler and tripwires (`agent-cron`) | jobs, last firings | tick | a tick that comes late skips a job, two within its second fire it twice (`scheduler.rs:142`) |
| metering (`agent-metering`) | an append-only log | append, report | crash between line and report |
| grants and auto-approval (`agent-grants`, `auto_approve.rs`) | folder grants, a rule list | grant, revoke, match | expiry between check and use |
| browser service, capsule runtime and archives, guards, code, search, office and chain tools, escalation, trajectory, doctor, command line, projects, hermes, legacy objects | little or none | one request each | pure functions, or drivers of external programs |

How they interact. A session's turn asks the model and runs the calls of its reply: a call goes
to core by an event and comes back as a posted result, or to a tool of the sidecar; after
untrusted content either needs the member's explicit approval, on core's card or on the
sidecar's. A skill (a WebAssembly capsule) calls the approval gate, which submits to the queue
and waits. The member's decision on a skill's effect arrives as a request at the sidecar, which
writes the decision log ahead of resolving the queue and closes the decision with an outcome
afterwards; a decision on a session's card or on something the agent wants to keep is recorded
the same way. The emergency stop sets a flag every route looks at, halts the sessions and the
browser, and freezes and drains the queue. A file tool begins a step in the checkpoint store,
makes its change and commits. Workers are called by the sidecar's tools. Once a day the anchor
job reads the decision log, which may be appended to, rotated and pruned meanwhile, and settles
the day; core anchors its commitment and reports the transaction.

What makes each part correct, in a sentence:

- queue: every entry has exactly one live waiter and every waiter its entry; a role action is
  released only by a real quorum; a stop leaves nothing parked; every submission ends;
- registry: an affirmed action was signed by three different people for one payload within
  the window, and a reported outcome is final;
- bridge: what is released was reviewed and is on the record first; every decision is closed;
- sessions: with untrusted content in the context no effect happens without the member's
  approval of that very call; an answer is used for the call it was posted for; a card releases
  nothing against its record; only evidence of the attempt makes a workflow succeed; every task
  ends;
- log: what was acknowledged is never lost, renumbered or closed twice, and the log opens
  again after a crash with earlier decisions closed;
- anchor: a batch never misses the front of its day, core gets one commitment per day, every
  proof leads to it, and a settled day stays as it is;
- learning: what is shown as kept was approved and kept, what the member decided is final and
  visible after any restart, and a contradiction never reaches the app unmarked;
- supervisor: no caller is left waiting for an answer that cannot come, no report about a
  call is false, a hung worker is replaced, shutdown returns;
- checkpoint store: an undo is possible, restores exactly what was there, and never replaces
  something no step recorded.

The repository has TLA+ of its own in `agent-anchor/formal`, `agent-grants/formal`,
`agent-learn/formal` and `agent-loop/formal`. Those are design models; nothing here is taken
from them. The models here follow the Rust source of those parts, with its files, its locks and
its failures.

## 2. The modules

Every public operation that runs under one lock is one action; one that gives the lock up in
between, or that makes several system calls, is one action per lock section or system call.
Fields keep their names. `PROJECT.json` maps each definition to its lines.

### ApprovalQueue, ApprovalPromise

`ApprovalQueue` models `hitl/mod.rs`. The state of a future in `submit_with_resolution` or
`submit_for_action` is `pc[s]`: `grant` and `prior` are the two looks at grants and at
remembered unknown outcomes, `enqueue` is the point before the queue's lock, `waiting` the
race between the oneshot receiver and the timer, `elapsed` the time between the last poll of
the receiver and its being dropped (a send still succeeds then), `leaving` the guard that
removes the submission's own entry. `mail[s]` is the value in the oneshot channel. `pending`
and `rolePending` are the two tracks, `unknown` the bounded memory of unknown outcomes.
`freeze_and_drain` is three actions (`Freeze`, `DrainFifo`, `DrainRole`) and
`approve_by_id_outcome_unknown` two (`ReportUnknown`, `ResolveUnknown`). `told`, `signed`,
`reported` and `since` are history variables. A call is its id, a signature the payload it
was made over; the length of timeouts is abstracted: a timer may elapse at any time.
Quorums (`ForTier`, `SatisfiedBy`) are the operators of `quorum.rs`; the roles and the roster are in
ApprovalRoles.

`ApprovalPromise` is the abstract specification, without locks, timers or data: a submission
is decided once, a parked one is released only while no stop is in force, and after a stop
nothing is parked until it is lifted. `ApprovalQueue` implements it with `StatusOf` as the
refinement mapping, `CeremonyBridge` with its own variables: the bridge may use the simpler
queue because both keep the same promise.

### BreakGlass

Roles and roster are ApprovalRoles', shared with the queue; the specification is `BreakGlassSpec`.
One action per method of the registry: `Invoke`, `Affirm` (every check in the order of the
code), `Tick` (several records at once), `Surface`. A caller reads the clock before it takes
the lock, so `Readings` includes the previous instant. An attestation says who signed what
for which action and operation; any signature ever made may be presented.

### DecisionLog

`store.rs`, `seg.rs` and `verify.rs`. `seen` is the directory as processes see it, `durable`
what would survive a power loss. Each system call is an action with its error path:
`Quarantine` ... `SyncSegment` are the recovery in `open`, `Rotate` ... `SyncPruneRemove` the
rotation and retention, `WriteLine` ... `SyncHead` an append, `RollBack` its undoing. `Kill`
and `PowerLoss` may come at each of them. `WalkOk` is the walk of `seg.rs` with its modes
`Strict` and `Recover`, stated on the segments as sets: `Live` ones, `Retained` records, what each
record `Continues`. The length of a segment (`len`) is kept with it. The file system is assumed to be journalled: any flush makes earlier
name changes durable. After a power loss an unflushed suffix is kept or lost, and a line may
be cut anywhere.

### CeremonyBridge

`run_skill`, the gate and `resolve_body`. A request goes through `Peek` (is the call at the
head?), `RecordAhead`, `Remember`, `Resolve`, `Receipt` and `RecordOutcome`, each one lock
section of the code; `Trigger`, `Freeze`, `Drain` are the stop route. A call id is a hash of
the effect, so an effect proposed again has the same id: `EffectsOf` says which proposals
may have which. The queue keeps only what a request can see of it (order and answers), the
log only the order and outcomes of its records.

### WorkerSupervisor, WorkerPromise

The monitor thread (`Top` ... `BackOff`, in the order of `monitor`, `watch` and
`graceful_stop`), the callers (`Admitted` ... `Timeout`), the readers (`Deliver`), the threads
in `shutdown`, and the serving child (`ReadRequest`, `Answer`, `GiveBack`, `Exit`, `Hang`).
The stdin slot is `open` and `writer`: a request larger than the pipe (`BigCalls`) is written
while the child reads it, with the slot locked. `WorkerPromise` is what a caller may believe:
a call runs at most once, a result is reported only for a call that ran, and a call reported
as not run never ran and never will.

### CheckpointStore

`store.rs` with its manifests and blobs, and the order in which `files.rs` uses it. Memory
(`steps`, `meta`, `blobs`) and disk (`disk`, `diskMeta`, `diskBlobs`) are separate; `op` is
the operation that holds the mutex and its progress. A write may fail before or after it has
replaced its target (`MaybeWritten`: the rename succeeded, the sync of the directory did
not). `tool` is how far the owner of a step is, including a dropped handle. The member edits
files whenever they like (`Edit`).

### AgentSession

One session of the sidecar, with everything that reaches it. `pc` is the turn thread: `step`,
`model` and `call` are the loop of `run_turn_with` (the top of a step, the model's reply, the
next call of it), `announce`, `parked` and `leave` are `CoreHost` (registered, waiting for the
result, waking up), `host`, `asked` and `released` are a tool of the sidecar, its card, and the
card's allow, `ran` and `refused` the way back to the transcript. `attempt` and `judge` are
`run_workflow_reviewed` around it. `Post` is the tool-results route, `LookAndRecord` and
`Decide` the two halves of a decision on a card, `LookAtTaint` and `ClearTaint` those of
clearing the taint. A message of the transcript is who said it and which calls it carries, so
that `Requests` can say what `compact_to_budget` may leave of it whatever the token counts are.
`exposed` and `obeyed` are history variables: what the properties mean by untrusted content and
by an approval does not read the code's own bookkeeping. With `OwnIds = FALSE` the provider
names calls by their index in a reply (`llm_http.rs:96`).

### NightlyAnchor

`nightly.rs` and `ledger.rs` over the walk of `seg.rs` in its live mode, beside the writer of
`store.rs`. The writer is one step per file it changes; its recovery is DecisionLog's and here
one step (`Reopen`). A reader takes HEAD, CHECKPOINT, the list of segments and each segment in
steps of its own (`ReadHead` ... `ReadSegment`), so what it has read may never have existed at
one time. As in `walk`, each file is judged when it is read: one that has gone or does not go on
with what was read before (`Fits`) ends the reading, a stale one is passed over; HEAD is compared
at the end (`HeadFits`). `todo` and `leaves` of a reader are the loop's state, the files still to
read and the records read. `Settle` is the rest of `plan_day` with the ledger's guard,
`HandProof` the rest of `prove`. A batch is the set of the day's records, which their numbers
order: two batches have the same commitment if and only if they are equal. `log` is a history
variable, the records that are in the log for good; the reader never sees it.

### LearningStore

`learner.rs`. Three stores hold a proposal's fate: `prop` (memory), `file` (rewritten after every
change) and the decision log, of which `latest` and `asides` are what a start reads. A write of
the file may be lost (`Save`), an append may be kept, or fail with its record whole or torn
(`Record`). An accept is taken apart into its effects (`Accept`, `WriteSkill`, `ValidateSkill`,
`CloseDecision`, `FinishAccept`), because the process may stop between any two and because the
member may edit the skills folder meanwhile (`MemberEdits`); the other operations hold the lock
and touch nothing the member can reach. `Restart` is `open` with `Reconcile`, for each proposal
of the file what `reconcile_with_log` makes of it, wherever the process had been. `written` and
`core` remember what was really validated and handed to the app.

## 3. The runs

`MC<Module>` gives the constants their values; each cfg is one run. Times are ten seconds to a
minute and a half on two cores.

| Run | Properties | Instance |
|---|---|---|
| ApprovalQueue_fifo | StopEmpties, EntriesMatchWaiters, UnknownOutcomeSuppressesGrant | 2 submissions, 3 FIFO calls of one tool, memory of 2 unknown outcomes |
| ApprovalQueue_live | ReleaseHasQuorum, KeepsPromise, EverySubmissionEnds | 2 submissions, 1 FIFO and 1 role call, tier High, 3 people of whom one has two roles |
| BreakGlass_quorum | AffirmedByTwoOthers, ReportedOutcomeStands | 3 actions (one barred), 2 payloads, 3 people in 6 enrolments, window 2, clock up to 4, two reports |
| CeremonyBridge_again | FirstReleaseIsWriteAhead, AnswersAreOnRecord, EveryReleaseWasReviewed, KeepsPromise | 2 skills, 3 proposals of which two have the same effect, 2 requests, 1 failing write of the log, the stop |
| AgentSession_turns | RequestsAreWhole, AnswerIsItsOwn, DecisionsHold, NoUnapprovedEffect, SuccessIsEarned, EveryTaskEnds | a core tool (which the guard may decline), a file tool, a shell tool and a made-up one; 2 calls, replies of up to 2, 2 steps of a turn, 2 messages or a workflow of 2 steps with 2 attempts each, 2 decisions |
| DecisionLog_crash | AcknowledgedStands, DecisionsAreAccounted, WriterAgreesWithDisk, OpenClosesEarlierDecisions, OpensAgain | segments of 2 records, 1 retained, 5 records sealed, two clock readings in any order, 1 failing call, 2 kills or 2 power losses |
| NightlyAnchor_plan | BatchStartsItsDay, LossIsReal, LedgerIsWhatWasHandedOut, EntriesStand | 2 readings by one or two planners or provers; 3 records over 3 days, 2 segments, 1 failed or interrupted append, 2 transactions |
| LearningStore_restart | MemberSeesDecisions, KeptIsReal, ContradictionsHold, DecisionsAreFinal | 2 proposals out of two skills of one name and two memories of one key, a memory the app had before, 2 restarts |
| WorkerSupervisor_calls | NoCallStranded, ShutdownWaits, KeepsPromise, NobodyHangs | 2 calls (one larger than the pipe), 1 shutdown, 1 restart per window, 2 missed pings, 1 call at a time |
| CheckpointStore_undo | UndoRestoresAll, UndoIsReady, PruneIsExact | 1 session, 3 steps (writes, deletions, renames) on 2 paths, 2 contents, room for 1 snapshot, 2 crashes |
| CheckpointStore_shared | InFlightIsProtected, RestoreReplacesOnlyRecorded | 2 sessions, 2 steps, undo by step and by session, and one of: a crash, a failing write, an edit |
| DecisionLog_first | FirstRecordIsRecovered is violated | 1 kill |

Several properties are the conjunction of named parts that belong to one question, each stated
and explained in its module: EntriesMatchWaiters of EveryWaiterIsListed, EveryEntryIsOwned and
OneEntryPerCall; AcknowledgedStands, DecisionsAreAccounted, AnswersAreOnRecord, UndoIsReady,
LedgerIsWhatWasHandedOut and ContradictionsHold likewise. `TypeOK` of each module holds at the
instances of its runs too; it is a theorem for every module that is proved about (section 5), and
the runs spend their time on what can go wrong.

Why the bounds are enough for the hazards they are for:

- *Queue.* Two submissions are the smallest number that can race each other's entry, guard and
  drain; a third adds no pair of steps that two do not have, and the pairing of entries and
  waiters is proved for any number. Three calls with a memory of two make the memory overflow
  and let the third report push out the first. Three people, one of them in two roles, are the
  fewest with which a quorum of two exists and one person could fill both places; with a fourth
  one, an auditor who is also a compliance officer, and the tier Critical, ReleaseHasQuorum holds
  as well (two submissions, without liveness).
- *Registry.* Three people with two roles each are the fewest with which a quorum exists and
  one person could try to fill two places. Window 2 with a clock up to 4 has instants
  before, at and after the boundary, and a late reading across it.
- *Bridge.* The third proposal repeats the effect of the first, and two requests can interfere
  with each other's look at the head. Both skills may propose all of them.
- *Session.* Two calls reach every order of a taint and what follows it, of an answer and the
  next call, and of two calls in one reply; which of three tools each is, is free. Two messages,
  or two attempts at each of two steps, are what old results and old evidence need to be mistaken
  for new ones. Two decisions can meet on one card. A stop may come anywhere.
- *Log.* Two records per segment and one retained segment make every second append rotate
  and prune, so that five records cross the checkpoint twice; the second crash hits the
  recovery from the first. Kills and power losses are not mixed in one behaviour
  (`MixedCrashes`); section 6 says what happens when they are.
- *Anchor.* Three records with two retained segments prune once, at any point of a reading; with
  two midnights the pruned day is before, at and after the day that is planned. Two readings are
  what two answers need to disagree.
- *Learning.* Two proposals of one kind clash, two of different kinds do not touch; the second
  restart hits what the first reconciled, with a file that was written or not. Three proposals
  with one restart (2.3 million states without a known memory, 9 million with one and room for
  one decided proposal) hold the same properties.
- *Supervisor.* One restart in the window is enough for a second child to get what was meant
  for the first; two misses distinguish missing once from missing in a row. `recent` may
  shrink at any restart, so the supervisor can restart without end.
- *Store.* Three steps with room for one snapshot prune twice and leave gaps if the order is
  wrong; two paths let a rename tie them; a second crash hits the retry of an undo.

Symmetry is declared for submissions and FIFO calls, for skills, requests and like proposals, for
readers and transactions, for skills and for memories, and for sessions, paths and contents, only
in runs without a liveness property (KeepsPromise and the action properties are safety
properties). Deadlock is checked in the queue's runs; elsewhere the system stops when the bounds
are used up, and the cfg says so.

Every property has a mutant, a plausible bug of the code, that makes TLC violate it in the
same run: dropping the second look at `frozen` under the lock, evicting by call id instead of
nonce, forgetting the role track in a drain, accepting two signatures of one person, removing a
segment before its checkpoint is written, taking the day a prune ended in for a whole one,
treating a tool's error as the loop's own text, leaving a call registered after its wait, judging
an attempt by the whole transcript, reconciling by what lies in the folder, failing only the
calls of a worker that is restarted, collecting the snapshots of undone steps, and so on. They
stand in the modules next to the definition they replace, marked *Faulty* or *mutant*.

## 4. Fairness

- *Queue*: `WF Proceed(s)` for each submission and `WF Drain`. The runtime polls a woken
  future, the timer of a parked one fires, and `freeze_and_drain` runs to its end. Nothing
  obliges anybody to submit, decide, freeze or thaw. A poll that finds the answer prefers it
  to the timer, so `Receive` and `TimerElapses` exclude each other.
- *Session*: `WF TurnThread`. The thread's waits for core and for the member have deadlines, the
  model's client and the tools time out. Nothing is assumed of core, the member or the model's
  replies; that a turn has a bounded number of steps and calls is the code's own limit.
- *Log*: `WF Recover` (the steps of `open`, which somebody calls again after a crash) and `WF
  Finish` (an append that has begun runs to its end; it is one synchronous call). Kills, power
  losses and errors are bounded in number, which is what `OpensAgain` needs ("after the last of
  them"). Nobody is obliged to record anything.
- *Supervisor*: `WF Monitor`, `WF Deliver`, `WF Caller(c)` and `WF Join(s)`, the threads of
  the sidecar, whose deadlines pass. Nothing is assumed of the child: it may hang for ever,
  crash or ignore requests; nor of who calls and who shuts down.
- The bridge, the registry, the anchor, the learning store and the checkpoint store state safety
  only.

`NobodyHangs` (a call returns, a shutdown returns, a hung worker does not stay) makes the
exception `[]<>Wedged`, that is: unless again and again a large request is being written to a
process that does not read. Section 6 shows the exception is needed.

## 5. The proofs

Every theorem holds for all values of the constants that satisfy the assumptions of its module,
which TLC evaluates in every run. The assumptions are of three kinds, and none restricts what the
code can meet: limits are numbers (a quota of at least one where the code has one); sets that the
code keeps apart by construction are disjoint (FIFO and role calls, skills and memories, a
call's id and the ids of pings); and the null value `None` is none of the values it stands in
for. Some theorems have a hypothesis of their own, stated with them: those about the decision log
suppose that no power is lost or that a process opens flushed files only (`FlushedOrKept`),
`AnswersFindTheirCall` needs `OwnIds`,
`ShutdownIsWaitedFor` a single thread that shuts down, and `UndoStaysReady` and
`UndoRestoresTheFirst` are about one session that is undone as a whole, until a write fails or
the member edits the folder. Without them a property is false: section 6 gives the counterexample
for AcknowledgedStands, the call ids and the shutdown; as to the store, an undo waits for another
session's step in flight and refuses a path the member has changed.

| Module | Properties of its runs that are theorems |
|---|---|
| ApprovalQueue_proofs | StopEmpties, EntriesMatchWaiters, ReleaseHasQuorum, UnknownOutcomeSuppressesGrant, KeepsPromise; of BreakGlass AffirmedByTwoOthers, ReportedOutcomeStands |
| DecisionLog_proofs | AcknowledgedStands, DecisionsAreAccounted, WriterAgreesWithDisk, OpenClosesEarlierDecisions, while no power is lost or files are flushed when they are opened |
| CeremonyBridge_proofs | EveryReleaseWasReviewed, AnswersAreOnRecord, FirstReleaseIsWriteAhead, KeepsPromise |
| WorkerSupervisor_proofs | NoCallStranded, ShutdownWaits, KeepsPromise |
| CheckpointStore_proofs | InFlightIsProtected, PruneIsExact, RestoreReplacesOnlyRecorded, UndoIsReady, UndoRestoresAll |
| AgentSession_proofs | NoUnapprovedEffect, RequestsAreWhole, AnswerIsItsOwn, DecisionsHold, SuccessIsEarned |
| NightlyAnchor_proofs | BatchStartsItsDay, LossIsReal, LedgerIsWhatWasHandedOut, EntriesStand |
| LearningStore_proofs | MemberSeesDecisions, KeptIsReal, ContradictionsHold, DecisionsAreFinal |

Each module also proves its `TypeOK` (in NightlyAnchor and DecisionLog what the invariant says of
the types), and names its
inductive invariant, which TLC checked at the instance of the run before it was proved. The
proofs have one step per action, and one lemma per action where a step is long.

**ApprovalQueue.**

- `TypeCorrect`: `Spec => []TypeOK`. TypeOK is not inductive: that a submission at `enqueue`
  has a call and, on the role track, a quorum and a proposer has to be known to type the entry
  it parks. `TypeInv` adds that (`ArgumentsOK`).
- `StopLeavesNothingParked`: `Spec => []StopEmpties`. Inductive with `DrainOrder`: while
  frozen, the FIFO track is empty once the drain has passed it and both are when it has
  returned. The heart of it is `StepParks`: a step that parks something looked at `frozen`
  under the lock that parks.
- `QueueInvariant`: `Spec => []QueueInv`, the pairing of entries and waiters. It consists of
  `NoncesDistinct` (two submissions past the counter never share a nonce: why a late guard
  cannot remove another submission's entry), `NoEarlyMail` (nothing is sent to a submission
  before it is parked), `OneEntryPerCall`, `EveryEntryIsOwned` and `EveryWaiterIsListed`.
  None is inductive alone: that a waiter keeps its entry when another submission of the same
  call leaves needs the nonces; that an entry is owned after a send needs that an entry's
  submission has no mail; that needs `NoEarlyMail`. From it follow `WaitersAreListed`,
  `EntriesAreOwned` and `CallsWaitOnce`, and together `QueueIsPaired`:
  `Spec => []EntriesMatchWaiters`, the property of the runs.
- `RemoveAtProperties` is what `evict_exact` relies on: removing one position of a sequence
  shifts the rest and changes nothing else.

And of what leaves the queue, on top of the pairing:

- `ReleaseIsByQuorum`: `Spec => []ReleaseHasQuorum`. `signed` is what was counted when the
  quorum was reached, the entry is gone by then; so the invariant says of every entry that it
  asks for what its submission asked for and holds only signatures that were let in
  (`EntriesGather`), and of an approval under way in the channel that it is by such signatures
  (`ApprovedBySigned`).
- `QueueKeepsPromise`: `Spec => KeepsPromise`, the refinement of `ApprovalPromise`. Each step maps
  to a step of the promise or a stutter: a parking step to parking outside a stop, a resolution
  to one decision, a timer that elapses to a refusal, and the last section of a drain to the stop.
- `UnknownOutcomesSuppressGrants`: an action property. The memory of unknown outcomes is a
  sequence that drops its oldest call; the invariant counts for each reported call the
  reports since, which its position in that sequence bounds.

**BreakGlass.** The last part of ApprovalQueue_proofs, over the same keys and the same roster.

- `RegistryTypeCorrect`.
- `AffirmationIsByTwoOthers`: `Spec => []AffirmedByTwoOthers`. The property says something only
  of affirmed actions; `RegistryInv` says of every phase what is known of the invocation and of
  each affirmation collected so far.
- `OutcomesStand`: `Spec => ReportedOutcomeStands`, an action property: one step per action.

**DecisionLog.** For segments, lines and retention of any size, any readings of the clock, and any
number of records, failing system calls, killed processes and power losses. A behaviour is supposed
to be one of two kinds (`FlushedOrKept`): no power is lost, and processes are killed anywhere
(`NoPowerLost`); or power is lost anywhere, and a process that opens the log finds its files flushed
(`OpensFlushed`: the process before it had flushed them, or power was lost since). None of the properties is inductive: each speaks of the records on disk without
saying where they are. `LogInv` says that there are a history `H` of `n` records, the first and last
segment and the number `b[i]` of the first record of segment `i`, such that

- `History`: `H` is one linked chain in which an outcome closes an allowing decision, once;
- `Layout`: the segments cut `H` at `b`, from the checkpoint on; a prune that has not come to its end
  leaves one segment behind the checkpoint;
- `Accounted`: all of it was kept but for the last record perhaps, the one in hand;
- `Repairing`: what a recovery has still to repair, at each of its system calls;
- `Working`: how memory, HEAD and the segments go together at each system call of an append, a
  rotation and a prune, and after each of them has failed.

`LogHolds` (`Spec /\ FlushedOrKept => []LogInv`) has a lemma per system call. What they share is
stated once: what the walk finds in a directory that is laid out (`RetainedIs`, `TipIs`, `OpenIs`,
`ChainFitsHere`, `StrictWalk`), and the changes after which a directory is still laid out (a
segment added or dropped, a checkpoint, a line more or less, a torn line).

A loss of power leaves any of many directories. `PowerInv` (`PowerHolds`) says of all of them
(`Remains`) that they hold a chain with every record kept (`Laid`), so that the step keeps `LogInv`
(`PowerLossKeeps`). For the other steps it says why: between the flush of a line and the next line
all segments are flushed and only names are not (`Settled`: what remains is the one directory or
the other), and while a line is on its way only its own segment is not, in which it is there, torn
or absent (`Varies`, `Tails`, `Pending`): each of these leaves the chain with that line or without
it.

From `LogInv` follow `AcknowledgedStandsHolds`, `DecisionsAreAccountedHolds` and
`WriterAgreesWithDiskHolds`; and `OpenClosesEarlierDecisionsHolds`, since only the return of `open`
leads from an opening to a log that is ready. Of neither kind are the behaviours in which a process
opens what another has written and not flushed and power is lost afterwards: there a line that
recovery has found in the page cache may still be lost and `AcknowledgedStands` is false (section 6).

**CeremonyBridge.** `BridgeInv` says which effect a skill has in the queue, what each request
has written and what it saw at the head (a look that may be out of date), and counts.

- `ReleasesWereReviewed`: of a call no more effects are released than approvals of it were
  answered ok. Several proposals share a call, so the argument is about two cardinalities: a
  resolution adds one to both, and nothing else adds to the released ones.
- `AnswersAreRecorded`: from what each request knows of its own record at each of its steps;
  that nobody closes it for another needs that the sequence numbers held by requests differ.
- `FirstReleasesAreWriteAhead`: a call that was shown had been at the head, so one that is not
  there when its request looks is out of the queue, and can be released later only if its
  effect was proposed again (`ShownInv`).
- `BridgeQueueKeepsPromise`: the bridge's own queue implements the same `ApprovalPromise`.

**WorkerSupervisor.** `WorkerInv` relates, for each call, its registration, the child's unread
input, what the child ran, the mail and what the caller was told (`CallHistory`, `Registered`).

- `CallsAreNotStranded`: what waits is registered with the present child or has mail. It
  needs the order of registration, writing and the sweep.
- `CallersAreNotMisled`: the refinement of `WorkerPromise`, per call and step.
- `JoinedMeansGone` holds of any number of threads; `ShutdownIsWaitedFor` follows from it for one.

**CheckpointStore.** `StoreInv` has five layers, each proved about every step with the ones before
it. Every write may fail, so the layers say what survives a failure and what does not.

- `Placed` holds whatever fails: what the operation with the mutex knows at each of its places,
  and that a step in flight is on record, in memory and on disk, with its snapshots.
- `Exclusive`, while no write failed: memory and disk agree, and a path is busy exactly while one
  step in flight has it. From both, `StepsInFlightAreProtected`. Without the second the first part
  of `InFlightIsProtected` still holds: an eviction only takes steps that are not in flight.
- `Contiguous`: the steps of a session are an interval that ends at the last number given out.
  After a crash the recorded `pruned` may lag behind its lower end, but never past it; hence
  `PruningIsExact`.
- `Restoring`: what is left of an undo fits, that is, each path either holds what the newest of its
  steps recorded or would after the newer ones are undone. The heart is `FittingWith` (only the
  newest step of a path sees the folder) and `FittingBelow` (with the newest step restored the
  rest still fits). `UndoNeverClobbers` follows: the comparison was made before the first
  path was restored, and is still true of each path when its turn comes.
- `Chained`, for one session: a tool finds on its paths what its step recorded, a new step begins
  where the folder is, and so undoing all that is left always leads back to what each path's first
  step found (`LeadsBack`). `UndoStaysReady` and `UndoRestoresTheFirst` follow.

**AgentSession.** `SessionInv` has six parts, each proved about every step with the ones before it:
the loop (calls of a reply run once, in order), the taint (the code's sources cover what
`exposed` says was seen), what waits for core, the cards, the attempts of a workflow, and the
transcript.

- `EffectsAreApproved`: `Spec => NoUnapprovedEffect`, for any tools and annotations.
- `ModelSeesWholeRequests`: whatever compaction leaves of a transcript (`Requests` allows it to
  keep any suffix it may), each call has its one result behind it. The invariant says so of the
  whole transcript, but for the calls of the present reply that are still to run.
- `AnswersFindTheirCall`, `DecisionsAreKept`, `SuccessNeedsEvidence`.

**LearningStore.** Nothing is assumed of names and contents. The three stores drift apart with
every lost save and failed append, so none of the properties is inductive. `LearnInv` says how
far: what the log says of a proposal can still be carried out on the copy in memory and on the
one in the file (`Agrees`), the file's copy is not ahead of the one in memory (`Behind`), and
while the log takes records the memory is behind it by nothing but the accept that is running
(`CaughtUp`). `ForwardCatchesUp` is the heart: opening again, whatever the file holds, ends
`CaughtUp`.

- `DecisionsAreSeen`, `KeptWasKept`: from these three parts.
- `ContradictionsAreMarked`: an accept starts with every memory the app holds as plainly true in
  its record (`AcceptMeets`), and a memory the app holds is persisted, failed or decided
  against; and a resolution keeps a side that has not itself been retracted, so the chain of
  "in favour of" never closes (`OneSideStep`).
- `DecisionsStand`: every new record is about a proposal that was not decided against (`LogMoves`).

**NightlyAnchor.** For any number of planners and provers, records, midnights, faults and
readings; of the constants only that `MaxSegments` is positive, that the bounds are numbers, and
that `None` is no checkpoint.

- `HandedOutIsLedger`: `Spec => []LedgerIsWhatWasHandedOut`, and `SettledStands`:
  `Spec => EntriesStand`. Here nothing is assumed of the log, the writer or what a reader saw of
  it. A planner hands out the entry it read before it read the log, so the property is not
  inductive: `LedgerInv` (`LedgerInvariant`) says that whatever was handed out, and every entry a
  planner still carries, stands in the ledger. The same lemmas show of every step that it takes
  no entry back (`Grows`).
- `AnchorInvariant`: `Spec => []AnchorInv`, what the files, the readers and the entries have to
  do with the log. The files a reader holds are of different moments, and a line it holds may
  have been taken back since and its number given to another record; so nothing that says "what
  the reader holds is the log" is inductive. What is never lost is `Line`: a record was sealed
  behind the record that is in the log before it, no other record of the log has its hash, and
  while no append has failed it is in the log or about to be. The steps of the writer are shown
  to go on from the log as it is (`Onward`), never to move the checkpoint back (`NoEarlier`) and
  to keep the files in order (`LogInv`: LogTypeOK, LogFits, WriterFits, SegsFit, PruneFits);
  everything said of a record, a checkpoint, a reader or an entry survives such a step (`LineOn`,
  `CheckpointFitsOn`, `HoldsChainOn`, `SettledFitsOn`), so that the steps of readers and writer
  never meet in one case.
- From that, `HeldIsLogged`: in a chain of such lines each has a successor whose `prev` is its
  hash, hence every line but the last is of the log. With the checkpoint in front of the chain no
  later than the one of now, a chain that holds a record of the day and whose checkpoint is of an
  earlier day holds the front of the day (`HoldsDay`), and one whose checkpoint is of that day or
  later is evidence of a prune (`Lost`). `MakesDay` and `Lost` are what entries keep.
- `BatchStartsItsDayHolds`, `LossIsRealHolds`: from the two invariants. `BatchIsLogged`, which
  the code does not keep (section 6), fails of the last record of a batch only:
  `BatchIsLoggedButForItsLastHolds`.

Not proved: the decision log when a failed open leaves unflushed files, the next one accepts them and
power is lost then (DecisionLog_crash checks it with one failing call). Out of the prover's reach and
left to TLC: liveness under fairness and anything with ENABLED (`EverySubmissionEnds`,
`EveryTaskEnds`, `OpensAgain`, `NobodyHangs`); induction over data (what a fold computes for every input, hence the
sums of the store in general; the walk of the decision log is written without a fold, as
conditions on neighbouring records, so that it can be reasoned about). No module declares a RECURSIVE operator.

## 6. Where the code departs from its documentation

One disagreement has a run of its own, whose counterexample is the evidence:

**The first record** (`DecisionLog_first`, `agent-records/src/seg.rs:313`). A process that
dies after the first line is flushed and before the first HEAD is renamed leaves one record
and no HEAD. The walk answers HeadMissing in every mode, so the directory is refused for
ever. `store.rs:117` says that a HEAD one record behind is moved forward.

The statements below are in the last section of their modules. Each is what a comment or a
document says; TLC refutes it at the instance given. Constants not mentioned are those of the
module's first passing run (for the log DecisionLog_crash, for the checkpoint store
CheckpointStore_undo with no crash, no failing write and no edit).

| Statement | Instance | What happens |
|---|---|---|
| FifoOkIsReceived (`mod.rs:188`) | 1 submission, 1 call | the timer elapsed; the receiver still exists, the approver is answered Ok (`:424`) |
| QuorumOkIsReceived (`mod.rs:695`) | ApprovalQueue_live with 1 submission | the same for the completing signature, whose send is ignored (`:779`) |
| HeadAtCheckpointIsRepaired (`store.rs:117`) | 1 kill, no failing call | a prune empties the retained chain, the next line is written and HEAD still names the pruned record: the log is refused |
| TornTailIsQuarantined (`store.rs:286`) | sizes 1 and 2, 1 failing call, 1 kill | a rotation could not flush its new name and left an empty segment behind which a torn line is not last |
| HeadNamesDurableRecord (`seg.rs:6`) | `MixedCrashes`, 1 kill, 1 power loss | recovery repairs HEAD for a line it can see but nobody has flushed |
| AcknowledgedStands with a kill and a power loss mixed, or with 2 failing calls and 2 power losses | `MixedCrashes`; or 2 failing calls | the same cause: what recovery finds in the page cache counts as written |
| NothingReleasedAfterTrigger (`agent-sidecar/src/lib.rs:715`) | 1 skill, 2 proposals, 1 request | a request past the first check resolves between the flag and the freeze |
| ReleaseIsWriteAhead (`hic_records.rs:16`) | 1 request | the member is shown an effect; it times out and is proposed again behind another call; the approval finds that call at the head and writes no record, that call times out, and the approval resolves the head by id, releases the effect and answers "resolved" (`lib.rs:731`). For effects proposed once the promise is kept (FirstReleaseIsWriteAhead) |
| EveryReportHasReceipt (`lib.rs:729`) | 1 skill, 2 proposals, 1 request | a report that arrives after the stop is answered 503 before anything is written |
| ShutdownWaits with two shutdowns (`agent-workers/src/lib.rs:470`) | 2 stoppers, 1 small call | the second finds the join handle gone and returns at once |
| HungWorkerIsKilled (`agent-workers/src/lib.rs:14`) | 1 large call | a request larger than the pipe is written under the lock of the stdin slot; when the worker hangs before it has read it, the monitor waits for that lock in its ping or shutdown request: no health check is missed, nobody kills the worker, and neither the caller's timeout nor shutdown applies (`:267`) |
| CrashEndsTheCall (`lib.rs:263`) | 1 small call, no shutdown | the sweep tells a registered call of the crash before it writes; it then writes to the next child, which runs it |
| RefusedOnlyAtLimit (`protocol.rs:178`) | 2 small calls, no shutdown | the place is given back after the answer is written, so the next call is refused while none runs |
| DeliveredIsUsed (`agent-sidecar/src/lib.rs:1124`) | as given | core's result is put into the channel of a call whose deadline has just passed and before it is taken off the list: the post is answered "delivered" and the turn goes on with the timeout |
| ClearedWasRecorded (`lib.rs:1360-1389`) | as given | a turn brings in another source after the sources have been read for the record: it is cleared with the others and stands in no record |
| AnswerIsItsOwn with `OwnIds = FALSE` (`agent-loop/src/llm_http.rs:96`) | `OwnIds = FALSE` | calls without an id of the provider's are named by their index in the reply: a late result of a call that timed out answers the call of the next reply with the same index |
| ClosedDayIsWhole (`agent-anchor/src/nightly.rs:50`) | as given | a record sealed before midnight is written after the day has been planned; it is never anchored, and the day's proofs and plans answer Conflict from then on |
| PrunedHadRecords (`nightly.rs:20`) | as given | a day without records before the day a prune ended in is answered Pruned |
| BatchIsLogged (`agent-records/src/merkle.rs:183`) | as given | a line is read and batched, cannot be made durable and is taken back: the batch is over a record that never was. That can only be its last one (BatchIsLoggedButForItsLastHolds) |
| DaysNeverOverlap (`nightly.rs:121`) | as given | after that the record's number is given to a record of a later day, whose batch then overlaps and is refused for ever |
| NoFalseAlarm (`agent-records/src/read.rs:3`) | as given | a reader that has read HEAD before the first record (or the segments around a prune) takes a sound log for a broken chain, once |
| PublishIsPrepared (`agent-learn/src/learner.rs:586`) | as given | the file still says "proposed" after two lost saves, of the accept and of the publish: the restart makes the skill persisted, not prepared |
| MayAcceptAgain (`learner.rs:116`) | as given | the process stops after the rename: the skill is shown as failed to persist, and accepting it again answers AlreadyKnown for ever |
| NeverOverwritten (`learner.rs:826`) | as given | the member writes a skill of that name between the rename and the read-back: the validation fails and the member's folder is removed (`:1305`) |
| WithinCap (`agent-checkpoints/src/store.rs:504`) | as given | bytes counted as present are pruned to make room and then needed again |
| BusyOnlyInFlight (`:543`) | 1 step, 1 failing write | a failed begin leaves its paths busy |
| ChangeMadeCanBeUndone (`:634`) | 1 step, 1 failing write | the write of a dropped handle fails (or commit's and then the drop's): the step stays Prepared and no undo takes it |
| PrunedIsReported (`:397`) | 1 crash | the manifest is removed, the count of pruned steps not written |
| LaterStepConflicts (`:786`) | 2 steps, undo by step | the later step left the path as the earlier one had |
| RestoreReplacesOnlyRecorded without `edits = 0` (`:809`) | 1 step, 1 edit | the member edits the file between the comparison and the restoring |
| InFlightIsProtected without `errors = 0` (`:631`) | 2 steps, 1 failing write | a failed commit releases the paths and the dropped handle releases them again, when another step has them |
| UndoIsReady without `errors = 0` (`fsutil.rs:33`) | 1 failing write (with 3 steps), or one and a crash (with 2) | a write that failed late has replaced its target: a manifest the store does not know of |

Conditions in the properties that pass (`errors = 0`, `edits = 0`, `logErrors = 0`,
`Refused`) mark exactly these cases.

Seen while modelling the learner, and true of the model as of the code: a memory that was saved as
persisted while the answer to the accept was lost is neither handed over nor offered again
(`learner.rs:587`); an acknowledged conflict with a pending proposal counts as acknowledged when
it has become a contradiction with an accepted one; a memory whose persist failed, and which core
may hold, can be rejected, and what is accepted on its key afterwards is marked as true without
it. The properties leave exactly these out (DecidedAgainst, `dropped`).

## 7. What is not modelled

- Of the modelled parts: a poisoned lock anywhere; of the log, symbolic links, created directories
  and file modes; of the checkpoint store the same, the path checks, the per-file cap and power
  losses; of the bridge, the role track of the approval gate, `POST /records/core` and the other
  routes; of the sessions, opening, evicting and closing them, the bounded event log and its long
  poll, skills, personas, metering and the tool hosts that have no card of the two kinds; of the
  loop, which tools are offered, the self-review and the verifiers other than ToolSucceeded; of
  the anchor, `pending_days`, a ledger that cannot be read or written, and the check of a
  confirmation against the chain; of the learner, the evidence of a run, the validation of a
  skill's text, and the calldata of a publish; everywhere the bytes that are signed or hashed, the
  text of messages, the development roster, and the restart of the registry (it is in memory).
- Whole parts, listed in PROJECT.json with their reasons: those of the plan below; pure
  functions of one input (archives, manifests, policies, guards, redaction); drivers of
  external programs (Chromium, git, shells, toolchains); configuration and read-only routes;
  the legacy objects, of which only the stop flag is still used.

## 8. The plan

Modules written, in this order: ApprovalRoles, ApprovalQueue with ApprovalPromise, BreakGlass, DecisionLog,
CeremonyBridge (composes the promise of the queue and the order of the log), WorkerSupervisor
with WorkerPromise, CheckpointStore, AgentSession, NightlyAnchor, LearningStore; and the eight
modules of proofs of section 5.

Modules to come, the most important first:

1. `BrowserApprovals`: the browser's single slot. `agent-browser/src/approvals.rs:117` clears the
   slot's answer when a waiter leaves, also when the answer is already that of the next question.
2. The audit recorder, two submissions reading one account nonce
   (`agent/core/src/audit/recorder.rs:133`).
3. `McpHost`, `CronScheduler`, grants and auto-approval, the metering log.
4. Extensions: the event log of a session with its bound and its readers; power losses and created
   directories in the checkpoint store; the role track through the bridge.

Abstract specifications worth stating then: one promise for all approval lists (asked once,
answered at most once, never allowed without the member), and an append-only log that
DecisionLog and the metering log both implement.

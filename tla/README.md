# SuperCLI: specification of what survives crashes, races and takeovers

SuperCLI is a terminal multiplexer for agents. Its server keeps sessions
running; agents in those sessions call tools through connectors; people approve
those calls from their devices; schedules fire tasks of tool calls with nobody
watching. This project specifies the parts of it that must survive crashes,
stalls and races without doing anything twice or losing it: who may act, what
is written down before and after acting, what is made of the record after a
failure, and who hosts a session when the program is updated under it.

## 1. Inventory

| component | code | state it keeps | operations | who it talks to |
|---|---|---|---|---|
| schedule leases | `supercli-core/schedule_leases.rs` | one SQLite row per schedule: owner, expiry, generation | claim, renew, release, fence check, migration | the scheduler, every tool call of a run (fence) |
| scheduler and runner | `scheduled.rs`, `schedule_cli.rs` | due times, run guard | tick, takeover check, run_trigger with retries, run_attempt | leases, tool calls, runs store, both logs |
| tool calls | `session_connectors.rs` | connector links, attempt log `connectors-audit.jsonl` | call, deny, replace, three fence checks, hook | review log, leases, approvals, hooks, connectors |
| action-review log | `action_reviews.rs` | `action-reviews.jsonl`, hash-chained; a lock file | record_review, record_attempt_outcome, list in-flight, verify, re-chain | tool calls, turn cancel, `supercli migrate` |
| turn cancel | `supercli-serve/mobile.rs` | none | list in-flight reviews, mark each ambiguous, interrupt | review log, session |
| durable runs | `durable_runs.rs` | SQLite: runs with a state, journal of step rows | create, begin/complete step, resume, reconcile, transitions, budgets | scheduler, `supercli runs`, crash-test worker |
| runs commands | `runs_cli.rs` | none | show, resume, pause, cancel, retry | runs store, concurrently with workers |
| approvals hub | `supercli-serve/approvals.rs`, `hook_listener.rs`, `mobile.rs` | pending prompts, answered prompts (bounded), a generation | ask, answer, time out, list by long poll, remember a grant | tool calls, clients, grants |
| event hooks | `supercli-events` | outbox, dead letters | run handlers with retries and cancellation | tool calls, approvals |
| PTY core | `pty_core.rs`, `core_reactor.rs`, `fd_pass.rs` | live set, hosted terminals, `pty-core.json`, `.lock`, `.sock` | start, launch, shut down, hand over, take over | launching clients, the next core |
| core supervisor | `supercli-serve/pty_core_supervisor.rs` | state, adopted pid, child, rapid failures | adopt, spawn, poll, take over, drain | PTY cores, through files and pings |
| session host, events | `session_host.rs`, `session_events.rs` | sessions, event cursors | start, resume, stop, stream | clients |
| write deliveries | `write_deliveries.rs`, `session_io.rs` | recent ids in memory, `write-deliveries` log per session | check, type, commit, compact | session commands, handoff |
| grants | `grant_store.rs`, `grant_writer.rs`, `grant_audit.rs` | `grants.json`, a hash-chained audit log, a queue per host | submit, commit a batch, reconcile at start | approvals hub of every host |
| browser takeover, MCP host, rate limit | `browser_takeover.rs`, `mcp_host.rs`, `rate_limit.rs` | owner of the browser; counters | take, give back; adapt | tool calls, clients |
| pairing, relay, direct path, remote sessions | `pairing.rs`, `relay_*.rs`, `direct_*.rs`, `remote_*.rs` | keys, connections | pair, connect, reconnect | clients |
| apps, plugins, devices, clients | several crates | files | install, render | the user |

What is hard: two daemons and a `run-once` share one database and one set of
logs without sharing memory; a lease is a promise about a clock that may jump; a
request that left a process is carried out whether or not the process still
lives; every record is written in a separate step from the thing it records; a
write may be cut short and an fsync may fail; an operator's command arrives
between any two steps; several hosts edit one grant file; two devices answer one
prompt while it times out; a session moves between processes while commands for
it are under way, and the files that say which process serves it are written by
the processes themselves.

What makes the parts correct:

- *leases*: a generation is granted once; a superseded fence stays stale; the
  next claimant learns of a run that never released and of no other;
- *scheduler and tool calls*: two workers are never inside a call of the same
  schedule; a takeover never fires over a call whose fate is open; a schedule is
  not held for a call that went nowhere;
- *review log*: the chain verifies after any interleaving and any fault; an
  acknowledged entry stays; a review has one outcome; a cancel settles what it
  listed;
- *durable runs*: no effect twice, no success in the journal that did not
  happen, no run parked without a doubt, no run left behind;
- *grants*: no grant without its audit line, one chain over all hosts, an
  acknowledged grant stays, every batch is answered;
- *approvals*: the first answer wins and reaches the agent, a grant goes back to
  an approval, a prompt reaches every device;
- *write deliveries*: bytes are typed once, and ok means typed to the end;
- *cores*: a session has one host and is not left paused by a handoff, no core
  exits with a session, one core opens its doors, the supervisor finds the core that serves, and a home without a core
  gets one.

## 2. Modules

```
LeaseStore        the lease table and its operations (actions on `rows`, `claims`, `now`)
  ScheduleLeases  workers that use it in any order, with the history its promises speak of
  ScheduledFire   tick, takeover check, attempts and fenced tool calls over both logs
  ScheduleProofs  theorems about both
RunStore          the runs database: states, journal, resume, reconcile, budgets
  RunRecovery     one run of every kind of step, its worker killed and restarted
    RunRecoveryProofs      theorems
  DurableSchedule run_trigger of several processes over one database, with commands
    DurableScheduleProofs  theorems
ActionReviews     the review log under its lock: callers, cancels, migrations, faults
  ActionReviewsProofs      theorems
AuditedGrants     abstract: what the grant store promises
  GrantWriter     the hosts' writers, the audit log, the grant file; implements it
    GrantWriterProofs      theorems
  ApprovalHub     prompts, answers, long polls, over the abstract store
    ApprovalHubProofs      theorems
SessionWrites     writes with ids to one session, its log, its cores and their handoff
  SessionWritesProofs      theorems
PtyCore           core processes, launches, shutdown, handoff
  CoreSupervisor  PtyCore under the worker that starts, adopts and replaces cores
    CoreSupervisorProofs   theorems
MC*               the modules TLC runs: symmetry sets, and functions for CONSTANTS
```

`ScheduledFire` composes the lease store with the runner and the tool call.
`DurableSchedule` composes the runs store with the runner and the commands; the
schedule lease is reduced there to its holder and the owner a lapsed row names,
and the two logs to whether a call is in doubt.
`ActionReviews` takes apart the log whose operations are one step each in
`ScheduledFire`. `ApprovalHub` uses the store of grants by its abstract
specification (`Store!Commit`), and `GrantWriter` shows that the real one
implements it, so the two compose. `SessionWrites` looks at one session through
the handoff that `PtyCore` shows for all sessions at once.

### LeaseStore, ScheduleLeases

`rows` is the table, `claims` the `ClaimInfo` a run carries, `now` the database
clock. Every statement compares the row with the clock inside one transaction,
so `StoreClaim`, `StoreRenew` and `StoreRelease` are atomic. `StoreHold` is the
branch of `tick` that sends a schedule to needs_review: neither used nor
released. `StoreCrash` forgets the claims and keeps the rows. `StoreClock` moves
the clock anywhere, backwards too. `claimed_at_ms` is left out (it only appears in
a message); a missing row is a tombstone of generation 0. A migrated row of an
old database starts with generation 1 and an owner (`LeaseInit` of `ScheduleLeases`).

### ScheduledFire

One variable per worker says where its trigger stands (`Points`). The steps
between which another worker may run are separate actions: claim, takeover check,
first fence, review, second fence with the request, answer, third fence, attempt
line, outcome line, release. `wire` holds requests sent and not yet carried out:
`CarryOut` happens at any time, after the worker gave up or died too.
`reviews` joins the two logs by review; each log is one field. Refusals before
the review (unknown tool, rate limit, deadline) are one action, `Refused`.
A failed write is the third disjunct of `RecordOutcome` and the second of
`RecordAttempt`. The schedule lease is taken from `LeaseStore`, clock jumps
included. The fence also reads as stale when its database cannot be read, so
`StaleAtFirstFence`, `StaleBeforeSend` and `StaleAfterCall` are possible in every
state. The logs can always be read here (section 3, section 5).

### RunStore, RunRecovery, DurableSchedule

A run has a state and, per step, the sequence of its journal rows; a row is its
outcome and its position is its attempt. `Standing` is what `resume_run` makes
of a step, `Verdict` is `reconcile_orphan`, `Resume` does what `resume_run` does:
it closes landed file writes and parks a doubtful run.

`RunRecovery` is the worker of the crash tests over the seven kinds of step. Its
world is a file per file step (old, torn, new) and a count of effects per other
step; a keyed request counts once however often it is sent. `Kill` may happen
between any two steps, between truncation and write of a file too.

`DurableSchedule` is `run_trigger`: resume the newest run that is not finished or
create one, then begin, call, fence the answer, record, for each step; retry from
the same start; mark the run; release. `Fire` is the daemon under the schedule
lease; over a lapsed one (`lapsed`) it fires only when the takeover check finds no
call in doubt (`doubt`: a review without an attempt, or an ambiguous one), and
otherwise `Hold` opens no run and leaves the lease to lapse again. `FireUnread` is
the check over a review log that cannot be read, `Replace` the human who replaces
the calls in doubt. `RunOnce` is `schedule run-once`, which takes no lease. `exposed` remembers the
runs one of whose journal writes failed or that `run-once` drove. `OpenFails`, `BeginUnjournaled` and the
last disjunct of `Record`'s journaling are failed database statements, which the
code ignores. `Pause`, `Cancel`, `Retry`, `Show` and `ResumeCommand` are the
commands. How often a call takes effect is `effects`, which no code reads; it
counts by run, so the calls of a trigger that could not open its journal, which
belong to no run, are not in it.

### ActionReviews

A line is what it says, the hash it links to and its own hash; a hash is
modelled by what it commits to (the contents of all lines up to it), so that two
hashes are equal exactly when they commit to the same history. `Unreadable`
is any line that does not parse; `glued` remembers the entries that share one
with another because the first lost only its newline. An entry is written in four steps under the lock:
`Acquire`, `Read` (scan, duplicate check, tail hash), `Write`, `Sync`. `WriteFails`
leaves nothing, a part of the line or all of it but the newline; `PowerLoss` keeps what was synced, and any
part of what follows; `Kill` frees the lock. `List`, `Mark` and `Interrupt` are
`handle_turn_cancel`, whose listing takes no lock. `Scan`, `Acquire` and `Rename`
are `rechain_review_log`, whose scan takes none either. A lock that stays
contended for 30 seconds is `LockTimeout`, possible whenever it is held.

### AuditedGrants, GrantWriter

A grant is a key. `audit` is the log, an entry being what it says and the one it
links to; `synced` is how much of it is on disk; `torn` says whether it ends in a
part of an entry or in one without its newline, and `joined` which entries go on
with the next one in the same line, so that neither can be read. A file that
cannot be read is read as empty: `blind` says which ones a host did not see, and
`wiped` remembers the grants such a host, or one that met a joined entry, dropped,
until they are granted again. `LockUnread` is a comparison with a file that
appeared since and cannot be read. `grants` is `grants.json` as it is read, `durable` as a power loss
would leave it: they differ between the rename and the sync of the directory.
Each host has a writer thread: `Drain` and `Wait` are its loop, `AcquireAudit`,
`AppendAudit`, `SyncAudit` the write-ahead half of `commit_batch_at`, `Load`,
`Lock`, `Rename`, `SyncDir` the optimistic edit, `Answer` the end; `ReadGrants`,
`ReadAudit` and `Quarantine` are `reconcile_grants` at the start of a host. The
callers are `Check`, `Submit`, `Notify`. `Fail` is any failing step of a commit,
`Kill` ends a host and frees its locks, `Power` ends all of them. A grant that
carries no audit line because it is older than the log is in `Legacy`.

### ApprovalHub

`handler` is the thread of the agent's request, `pending` (the set of queued
prompts: nothing depends on their order), `resolved`, `generation` the state of
the hub, `channel` the answer on its way to the handler, `phone` what
a device has listed and the generation it knows. `Take` (remove the prompt and
send the answer) and `Resolve` (remember the decision) are separate steps because
the code releases the lock between them; `Receive`, `TimeOut` and `Close` are the
end of `request`; `Audit` and `Grant` are the steps of the abstract store. `late`
remembers the answers that came when the handler had given up.

### SessionWrites

One session, its cores, commands that carry ids. A command goes through the lock
of the core it reached: `Fresh` or known (memory, then log), then an append
(`OpenLog`, `Write`, `Scan`), `Type`, and a second append before ok. A scan that finds
too many lines compacts: `OpenTmp`, `Fill`, `Rename`. The file it writes has one name
for all cores (`tmp`), so that two compactions empty, write and rename each other's
file: `file` says what each command has open, `Mixed` what two writers leave. `disk`
is what the log says of each id, `cut` a line cut short. `Export`, `Adopt`, `CommitHandoff`, `Refuse`,
`Forget`, `Resume`, `TimeOut` are the handoff, over the connection in `from`;
`Disarmed` is the old core's writer after it. `exposed` are the ids the code does
not protect: those that waited for the old core's lock at the export, those
recorded on a cut line or in a log that was just replaced, those another core
recorded while the log was compacted, those that another core's compaction took out
of the shared file, and all after a time-out.

### PtyCore, CoreSupervisor

`core` has a record per process: where it stands, its build, the live set, the
sessions its reactor serves, its part in a handoff. `record`, `socket` and `locks`
are the three files: a socket is the set of processes that accept from it, because
a handoff shares the listener. A launch is `Route`, `Connect`, `Gate`, `Insert`
(into the live set), `Take` (the launch file), `Count` (it holds an export back only
from here on), `Register`, with `Reply` when the manifest is there; `NoAnswer` decides by the
launch file, `Fallback` starts a process of its own. A handoff is `BeginHandoff`,
`Export`, `Publish` (the record), `Commit`, `Forget` or `RefuseHandoff`,
`TakeoverFails`, `TimeOut`, `Resume`. `straddled`, `widowed` and `dropped` remember
launches an export did not see, the sessions of killed cores, and those a new core
had alone when it gave up. The supervisor has one action per function
of `pty_core_supervisor.rs` that changes its state; `Worker` is what a restarted
worker knows. `Mistaken` is an adopted core that is not the process the record
names: start times within ten seconds count as equal, so it may go unnoticed and no
fairness is assumed of it. Whether cores are taken over in place (off since 0.5.2, on with
`SUPERCLI_PTY_CORE_TAKEOVER=1`) is chosen initially. Identifiers of dead processes
are reused when no file and no process names them.

## 3. Runs

| run | instance | states | what it shows |
|---|---|---|---|
| `leases` | 2 workers, 1 row, clock 0..2, TTL 1, 4 generations | whole | `GenerationUnique`, `TakeoverReported`, `FenceOrder`, `StaleForGood` from old and new databases |
| `fire` | 2 workers, 1 call with a retry, 2 generations, 2 reviews, all results and faults | whole | `NoOverlap`, `NoBlindRefire`, `NoFalseHold` |
| `recovery` | 7 steps: each kind, two of them without a hint, 6 kills | whole | `EffectOnce`, `JournalTrue`, `Settles` |
| `durable` | 2 workers, 2 runs of 2 steps, 1 retry, 2 of crash, pause, cancel, replacement | 475k | `NeverReplayed`, `DoneDecided`, `ParkedInDoubt`, `Settles` |
| `durable_once` | 2 workers, 1 run of 2 steps, no retry, 3 events of eight kinds | 5.3M | `EffectOnce`, `JournalTrue` |
| `reviews` | 1 caller, 1 cancel, 2 migrations, an old log, 3 reviews, 2 faults, both tears | 2.5M | `ChainVerifies`, `OneOutcome`, `AckedStays`, `CancelSettles` |
| `grants` | 2 hosts, 3 threads, 2 keys (one old), 1 fault of five kinds | 765k | `WriteAhead`, `ChainVerifies`, `AckedKept`, `BatchAnswered`, `KeepsPromise` (the refinement) |
| `writes` | 2 cores, 3 commands, 2 ids, a memory of 1, compaction at 2 lines, 2 faults of seven kinds | 2.5M | `DeliveredOnce`, `OkTyped` |
| `approvals` | 2 prompts for one tool, 2 answers, 1 phone, a memory of 1, 1 fault | 379k | `FirstAnswerWins`, `AnswerReaches`, `GrantsApproved`, `Shown` |
| `cores` | 3 processes, 2 sessions, one of them to be launched, 2 builds, 2 faults of seven kinds, take-over on and off | 157k | `HostedOnce`, `NoneTaken`, `OneCore`, `Found`, `CoreReturns`, `Resumed` |

The bounds are chosen so that the case each property fears happens: two
generations suffice for a takeover with the overtaken worker alive; clock 0..2
with TTL 1 has a live, an expired and a revived lease; two steps give a completed
one before the failing one; two runs give an older one behind a newer one; two
faults give a failure during the recovery from the first; a memory of one id makes
the other evicted; three processes are an old core, a new one and one the
supervisor starts meanwhile; two threads of one host share a batch while a third,
of another host, wants the same key. Every property has a
mutant of the code it is about that TLC refutes under the same configuration.
`TypeOK` is listed in the runs of the modules with theorems, where it is part of
the inductive invariant; in the other modules it documents the variables.

`writes` does not follow states in which all ids are exposed (`SomeHidden`): both
properties are about the others, and no id stops being exposed.

Outside `leases` and `fire` the system may stop (no run, review, request, write or
launch left within the bounds), so deadlock is not checked there.

**Fairness.** `RunRecovery` assumes that the worker is started again and goes on
when not killed: the supervisor restarts it, and each step ends. `DurableSchedule`
assumes the same of each worker (weak fairness of its steps): a tool call is
bounded by its transport timeout, a database call by its busy timeout, and the
daemon's loop ticks for as long as it lives. Nothing is assumed of the operator,
of crashes, or of the order in which workers get the lease. A held schedule waits for a
human, of whom nothing is assumed; this is why `Settles` names it. `GrantWriter` assumes
that a writer which can run does, and no spurious wake-up; `grants_wakeup` assumes it
of the callers too. `ApprovalHub` assumes that
handlers run and phones keep polling, not that anybody answers or that the
two-minute time-out fires. `CoreSupervisor` assumes that threads and processes go
on, that the worker polls, and that a wait for a dead peer ends (the connection
closes); no core need fail, be updated, be asked to exit or be given a launch. The other modules state safety only and assume none.

### Disagreements between documents and code

Two runs are expected to end in a violation; each checks what a comment says.

| run | the text | what happens |
|---|---|---|
| `fire_declined` | `scheduled.rs`: held until an "explicit human-approved replacement" | a replacement the person declined also releases the schedule, because the check does not read its decision (scheduled.rs:1395) |
| `grants_wakeup` | `grant_writer.rs`: "a notify sent before this wait is not lost" | the writer waits without looking at the queue again; a request that came between its drain and its wait stays unanswered until the next one (grant_writer.rs:143) |

Others were met while modelling. The models contain the behaviour, no run is
spent on them.

Scheduled runs and the review log:

- a retry within a trigger restarts at the trigger's first step (scheduled.rs:752);
  durable-runs.md:223 says "Never re-execute a completed side effect."; this is why
  `durable_once` has no retries;
- the next trigger takes any run that is not finished, a paused one too
  (scheduled.rs:696); durable-runs.md:174 says "A paused run is never auto-claimed";
- an entry appended between the scan of a migration and its lock is lost
  (action_reviews.rs:1024); :586 says history is "append-only, never rewritten": the
  exception of `Rename` in `AckedStays`;
- a call that panicked is ambiguous in the review log, but its attempt line says
  "panic" (session_connectors.rs:1086), which the takeover check does not count
  (scheduled.rs:1472); action_reviews.rs:490 says an ambiguous attempt is never
  auto-retried;
- after `runs retry`, a step that failed counts as complete (durable_runs.rs:1463):
  the run ends DONE without it; durable-runs.md:181 promises a new attempt;
- a failed `begin_step` is ignored and the step executed (scheduled.rs:925), against
  durable_runs.rs:826;
- the result of `claim_run` is ignored (scheduled.rs:714), so a `run-once` and a
  daemon can drive one run at the same time;
- a stale lease is journaled as executed_failed (scheduled.rs:988), not never_ran as
  durable-runs.md:228 says, and may be reported for a call that took effect
  (session_connectors.rs:1106 against 160);
- after a crash in the middle of a call every takeover finds its review and holds the
  schedule before any run is opened (scheduled.rs:1253), so the run stays in
  EXECUTING_TOOLS until a human replaces the call; durable-runs.md:234 says such a
  step becomes ambiguous and the run NEEDS_REVIEW: `Held` in `Settles`;
- the takeover check takes a review log it cannot read for an empty one
  (scheduled.rs:1435) and fires; scheduled.rs:1237 says "an in-flight or ambiguous
  attempt escalates to a human instead of re-firing". In `DurableSchedule` the run's
  journal still parks the step, so `EffectOnce` holds with it;
- a trigger that cannot open its journal runs its whole task without one
  (scheduled.rs:694), whatever a run in progress has done already;
- the step cap said to be unreachable (scheduled.rs:960) kills a task of exactly
  max_steps calls;
- a newer run that stays parked keeps older ones from being resumed
  (scheduled.rs:696 against durable-runs.md:124);
- `runs show` and `runs resume` park a run whose worker is in the middle of a call
  (runs_cli.rs:50 against durable-runs.md:91): this is why `durable` has neither;
- a review line that lost only its newline parses, and the next review is glued to
  it: both are unreadable although acknowledged (action_reviews.rs:463). `glued` in
  `AckedStays` and `CancelSettles` has exactly the entries of such lines.

Grants and approvals:

- a reconciliation that cannot read the audit log takes it for empty
  (grant_audit.rs:346) and quarantines every grant; an edit that cannot read or parse
  `grants.json` takes it for empty and writes back its own keys alone
  (grant_store.rs:115, 128); an audit entry that lost only its newline joins the
  next one, neither is read again, and the next reconciliation quarantines their
  grants. The first two lose acknowledged grants after one failed read: `wiped` in
  `AckedKept` and in the abstract store, until the key is granted again;
- two reconciliations with lists made before a key was approved again may remove
  it once more, and the second overwrites the quarantine file (grant_audit.rs:381);
  only keys older than the audit log are concerned, which is what `Legacy` exempts;
- a torn audit line makes every later commit fail (grant_audit.rs:166);
- an answer that comes after the time-out and before the prompt leaves the list is
  told it was applied, although the agent was denied (approvals.rs:228): `late` in
  `AnswerReaches` and `GrantsApproved`; a second
  answer between the removal and the memory of the first is told there is no such
  prompt (approvals.rs:261);
- the long poll lists before it reads the generation (mobile.rs:1930), so a prompt
  may wait until the poll times out.

Writes and handoffs:

- a write that failed leaves its `delivering` record, so the retry is answered
  OutcomeUnknown (session_io.rs:1384); :1353 says "a retry can still deliver it";
- an append cut short glues the next record to it; after a crash that write is
  delivered again (write_deliveries.rs:96 against 180);
- two cores compact into one file name (write_deliveries.rs:154): what one has written
  the other empties, and either renames what is there, so that records both had read
  are gone; an append that opened the log before a rename writes to a file nobody
  reads (write_deliveries.rs:89). A write whose record went that way is typed again:
  `exposed` in `DeliveredOnce`;
- when the second append fails, ok is answered from memory, and a kill turns it
  into OutcomeUnknown (write_deliveries.rs:226);
- a command that waits for the old core's lock while the session is exported is
  typed by the new core when it is sent again, and by the old one
  (session_host.rs:3477: "two racing transports cannot both apply the bytes"); after
  the handoff its bytes go to a sink and ok is answered (session_io.rs:1853);
  a poisoned lock skips the disarming;
- a commit that arrives after the old core's 30 seconds leaves two cores serving
  (core_reactor.rs:1034); pty_core.rs:747 says "Never a half-handoff".

Cores and their supervisor:

- a launch that passed the check of handing_off before the handoff began, and was
  counted only after the export (pty_core.rs:911, 949; the session may be in the live
  set already), stays on the old core and dies with it; docs/agents/pty-core.md:24 says
  the core never exits on its own while it hosts a session: `straddled` in `NoneTaken`;
- a new core whose commit fails because the old one was killed exits with the only
  copies of the sessions (pty_core.rs:738): `widowed` in `NoneTaken`;
- a client whose ten seconds end while the launch file is still there starts a
  second host (pty_core.rs:212 against pty-core.md:91): `twice` in `HostedOnce`;
- a new core that dies between its record and its commit leaves a record of a dead
  process: the old core serves, the supervisor counts it as lost, and the cores it
  starts exit on the lock until it gives up (pty_core.rs:733); pty-core.md:198
  says a failed takeover is a no-op: the "failed" in `Found` and `CoreReturns`;
- a take-over that succeeds after the supervisor's 30 seconds leaves it in
  `starting` with a living child (pty_core_supervisor.rs:542): the last case of
  `Found`;
- a shutdown that saw no handoff before one began removes the socket and the
  record of the new core (pty_core.rs:613).

## 4. Proofs

The eight `*Proofs` modules hold forty-six theorems that TLAPS checks: in each,
that its invariant is inductive and what follows from it, thirty-eight of them
listed in `PROJECT.json`. They hold for every value of the constants, so for any number
of processes, schedules, runs, generations, lines and faults. The assumptions are
the named ASSUMEs of the modules: bounds are natural numbers, `Nobody` is nobody,
functions among the constants have their type. Each inductive invariant was
checked by TLC on the instance of its run before it was proved. In every module
the argument is one lemma per action; steps that leave the interesting part alone
share a lemma.

**Leases** (`ScheduleProofs`): `LeasesTyped`, `GenerationsAreUnique`,
`TakeoversAreReported`, `FencesAreOrdered`, `StaleFencesStayStale`. Assumed are
`TombstoneAssumption` (no worker is the tombstone), `TtlAssumption` and
`BoundsAssumption` (natural numbers); the clock is arbitrary. The inductive
invariant is `GrantInv`: `LeaseTypeOK`, `GenerationUnique` and `TakeoverReported` with

- `GenerationBounds`: the generation of a row is at least every generation
  granted, finished, held or acted under. Uniqueness alone says nothing of the
  next number a claim hands out; this does.
- `RowAccounted`: a live row's generation is not finished, a tombstone's is. The
  report of a takeover looks at the row only; this ties it to the history.

The two action properties follow from `GrantInv`: a side effect passes the fence
only under the generation of the row, which never decreases.

**Review log** (`ActionReviewsProofs`): `LogTypeCorrect`, `ChainAlwaysVerifies`,
`OutcomesAreUnique`, `AckedAlwaysStays`, `CancelAlwaysSettles`. Assumed are
`ProcsAssumption` (nobody is no process), `RolesAssumption` (a process has one role)
and `LogBounds` (natural numbers); nothing is assumed of the faults, and both kinds of
torn line are covered. The inductive invariant of the first three is `LogInv`: the typing `TypeInv` (an entry being written has
its id; a line without a newline is a line), `ChainVerifies` and `OneOutcome` with

- `LockInv`: a process between lock and release holds the lock, so no other is
  there;
- `WriteInv`: at its write a process still has the tail it read (readable, with
  the hash it links to), and the review of its outcome is there and has none;
- `ScanInv`: the lines a migration carries were once the log, so they have
  `OneOutcome`, although the log has moved on.

A step either is `Quiet` (the log and the writers stay), or is a read or a scan, or
changes the log in one of three ways: an append by the holder of the lock
(`AppendStep`), a shorter log whose last line may have become unreadable
(`ShortenedStep`: power losses, and appends to a line without its newline), or the
rechained scan (`RechainedLog`, `RenameStep`).

The two action properties rest on `AckInv`, which is `LogInv` with `SyncInv` (what a
process is about to sync is the last line and is its own, or the process appended it
to a line that lacked its newline, and it is glued), `ReviewedInv` (a call that may be
sent was told of its approval) and `MarkInv` (a cancel writes outcomes only).
`DiskKeeps` shows that no step but the rename of a migration takes an entry off the
disk that is not glued; `CancelGoesOn` that a cancel goes on after two steps only, the
read that found an outcome and the sync of its own.

**Grants** (`GrantWriterProofs`): `TypeCorrect`, `GrantsExplained`, `OneChain`,
`AckedGrantsKept` and the refinement `Implements`, for any number of hosts, threads,
keys, old grants and faults. The inductive invariant is `IInv`: `TypeOK`,
`WriteAhead`, `ChainVerifies` and `AckedKept` with

- `LocksOK`: who appends or renames holds the lock for it;
- `TailOK`: an appender's tail is still the last line, so its entry extends the
  chain and no other's;
- `EditOK`: a host edits the grant file only when its batch is synced in the log and
  what it read was explained, and what it removes is old or has an unreadable entry,
  unless it could not read the log (`Sound`); at its rename the file still is what it
  read, unless it could not read it, and at its answer the batch is in it. Without it
  nothing ties the writer's private copy, made before the lock, to the files;
- `DiskOK`: what a power loss would take from the grant file has its audit line,
  and what it would bring back is old or wiped.

`Implements` maps `recorded` to the keys with a synced line and `granted` to
`durable`; `DurableStep` shows that every step is a `Commit`, a `Wipe` (an edit that
could not read the files) or a stutter. The
abstract specification is a safety formula, so the refinement needs no fairness.

**Scheduled fires** (`ScheduleProofs`): `NeverOverlap`, `NeverBlindlyRefired`,
`NeverFalselyHeld`, for any number of workers, schedules, calls, retries and
reviews, any clock and any faults. The inductive invariant is `IInv`: `TypeOK` with

- `Leased`, `OwnGeneration`: a busy worker's generation is one the row has
  reached, the row is its own exactly when it has not moved on, and no two busy
  workers of a schedule share one. A fence compares generations only; this says
  what passing it means;
- `Holds`, `OwnReview`: what both logs say of the review a worker holds, at each
  point of the call, and that nobody else holds it;
- `Traced`: a request is a scheduled run's, the log never says of it that it never
  ran, and every uncertain review is explained by a request, a fault or a worker;
- `Excludes`: while a worker is inside a call that nobody was asked to replace, its
  schedule is not released, and whoever claimed it since took it over and has not
  fired. This is what the takeover check reads from the logs, said of the workers;
  without it `NoOverlap` is not inductive, as the fence of the second worker
  passes;
- `Cleared`: a worker that fired after a takeover has nothing open behind it, which
  carries the verdict of the check to the later sends of the same run.

**Crash recovery** (`RunRecoveryProofs`): `EffectsOnce`, `JournalIsTrue`,
`DoneIsWhole`, for runs of any length with steps of any kinds and hints, and any
number of kills. `IInv` is `TypeOK`, `EffectOnce`, `JournalTrue` with `InOrder` (no
row before all earlier steps succeeded), `Untouched` (a step nobody can probe has no
effect before its row, and none when it is about to be executed), `WorkerTrue` (the
worker's step and intent agree with the journal) and `DoneInPlace`. `Stops` and
`Resumed` say what `resume_run`'s walk comes to, from a lemma that `Min` is the
least element; `WithinBudget` that max_steps never stops this worker.

**Scheduled runs** (`DurableScheduleProofs`): the same journal under several
processes. Three invariants, each on top of the one before, by what the
environment may do:

- `BaseInv`, in any environment, gives `JournalIsTrue`. `Fits` ties a worker's
  intent to a row that was written. `Paid` counts what may still be recorded: if
  the intent of a worker with a success in hand is the last row of its step, the
  effects exceed the recorded successes. Any later row takes that away from
  everybody else, which is the primary key on (run, step, attempt) at work;
- `OnceInv`, where `MaxRetries = 0`, gives `EffectsOnce`. `Ordered`: a step that
  took effect has a row, and rows are in the order of the steps. `Ahead`: nothing
  from the holder's step on has taken effect; a worker without the lease may still
  write rows, but not call. A resumed run starts at a step without a row, hence
  without an effect there or further on. With retries it is false (section 3);
- `CalmInv`, where journal writes succeed, leases last and `run-once` is not used
  (`Calm`: a condition on the constant `Events`; crashes, unreadable logs, pause,
  cancel, retry, show, resume and replacements are allowed), gives `DoubtNotReplayed`, `DoneIsDecided` and,
  without show and resume (`Unwatched`), `ParkedOverDoubt`. `Steady`: the busy
  worker is alone, all behind it is complete and nothing but its own intent is in
  doubt. `Tidy`: a step in doubt is the first incomplete one, so that a resumption
  meets it first. `Told`: what DONE and NEEDS_REVIEW say of the steps. The
  conditions are those of the `durable` run, and the disagreements of section 3
  say why each is needed.

Here all steps are tool calls (`ToolSteps`), as `run_attempt` begins no others.

**Approvals** (`ApprovalHubProofs`): `FirstWins`, `TheAnswerReaches`,
`GrantsAreApproved`, for any number of prompts, phones and answers and any bound
of the memory. `IInv` is `TypeOK`, `GrantsApproved` with `QueuedOpen` (nobody has
approved a queued prompt), `TakenOnce` (an answer takes its prompt off the queue
for good, and every remembered or late answer was taken), `ChannelTrue` (until a
handler stops waiting its channel holds the taken answer and none else) and
`HandlerTrue` (afterwards it has that answer, or a time-out's denial). The two
middle ones carry the answer across the steps where the hub's lock is free.

**Cores** (`CoreSupervisorProofs`): `SupervisorIsTyped`, `OneCoreOpens`,
`NoSessionTaken`, `ServedOnce`, for any number of cores, sessions, restarts and
faults. `IInv` has two halves. `CoresFit`: how the two ends of a handoff fit
(`StagesFit`, `OneHeir`), who has the lock (`Locked`), and that two cores hold the
sessions only between export and commit (`OneHolder`). `SessionsFit`: what a core
accounts for in each phase (`LiveFits`), that a launch goes one way (`LaunchFits`),
that the launch file is a token which one process takes (`OneToken`), and that two
cores know a session only across a handoff (`OneHost`). `Backed` says that what a new
core has before its commit the old one has kept, unless that was killed or has stopped
waiting; it is what a new core that gives up relies on. The exceptions `split`,
`twice`, `straddled` and `widowed` are those of the properties, no wider. `TypeOK` needs
`GivesUp` besides: the counter of rapid failures is below its limit whenever a
failure can raise it.

**Write deliveries** (`SessionWritesProofs`): `WritesTyped`, `WritesOnce`,
`OkIsTyped`, for any number of cores, commands, ids and faults, any memory and any
compaction limit; assumed besides is that the ids are finitely many. `WriteInv` is
`TypeOK` with

- `Locks`, `Placed`: a command past the check holds the lock of its core, and that
  core accepts commands unless the id is exposed;
- `OneServes`: unless all ids are exposed, one core serves or is about to, and one
  that waits for a commit is connected to it. Locks are per core; with this, an id
  that is not exposed has one command past the check (`Exclusive`);
- `Contents`: an id that reached the terminal is in the log, and stays there when
  the cut line is lost (`Recorded`); what memory or log call applied was typed to
  the end. It is needed because a command trusts either of them alone.

The proof made the model more precise: a compaction used to expose every id as
soon as another core was running; what is lost is what was recorded since the log
was read, and what another compaction took out of the shared file, and the theorem
holds with that smaller exception (`RenameKeeps`, `FillKeeps`).

**Only model-checked**: everything under fairness (`Settles`, `BatchAnswered`,
`Shown`, `Found`, `CoreReturns`, `Resumed`), which is out of the prover's reach.
Every invariant and every action property of the passing runs is stated by a
theorem.

## 5. What is not modelled

Of the modelled components: the lease of a durable run (its only effect is on
`runs resume`, which may succeed or fail at any time in the model), the budgets
other than max_steps, unreadable logs at the takeover check of `ScheduledFire`
(scheduled.rs:1435 fails open, so `NoBlindRefire` is about logs that can be read;
`DurableSchedule` has the case), run events, subagents, `append_step` (only tests call it), the
run record at the end of a trigger, due times, the lock file of builds without
flock, the loss of a rename of the review log on power loss, the profile counters a
human's review feeds; the approval of file operations, grants in the old
state file and push notices; writes without an id, a delivery log that cannot be
read, the relaunch of an agent; a busy core that does not answer a ping, take-overs
started by hand, several homes. File formats, hashes and messages are abstracted as
section 2 says.

Of the other components: event hooks and their outbox, session events and browser
takeover keep protocol state and are worth a module each. Relay, direct and remote
connections mostly convert and forward; pairing rests on cryptography. The larger
part of the repository (clients, user interface, installers, platform adapters,
provider integrations, the MCP adapter) is input, output and layout with little
state that outlives a call, so a model of it would repeat it; this is why the map
covers a small share of all lines although it covers most of the files it names
as modelled.

## 6. Plan

Done: leases, firing, recovery, the journal under the scheduler, the review log,
grants with their abstract specification, approvals, write deliveries, PTY cores
and their supervisor. Next, in this order:

1. `EventRunner`: the hook outbox, retries, dead letters and cancellation.
2. `SessionEvents`: cursors and replay; `BrowserTakeover`: one owner at a time.
3. An abstract specification of an append-only log that `ActionReviews` implements,
   and of a session with one host that `CoreSupervisor` implements between time-outs.

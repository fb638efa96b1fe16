# A TLA+ development for Nanna

Nanna is a long-running personal agent. A daemon takes messages from a desktop
client and several channels, turns them into tasks on a durable board, and lets
a model work the board off under acceptance checks. This directory holds TLA+
models of the parts that decide *what is worked on, by whom, and when it counts
as done*, the TLC runs that check them, and TLAPS proofs of the properties that
matter most.

Paths are relative to `src/crates/`. `tasks.rs` is `nanna-storage/src/tasks.rs`,
`harness.rs` is `nanna-agent/src/harness.rs`, `chat_harness.rs` is
`nanna-daemon/src/control/chat_harness.rs`, the daemon's own task file is
written `nanna-daemon/src/tasks.rs`.

## 1. Inventory

| Component | State it keeps | Operations | Talks to | What makes it correct |
|---|---|---|---|---|
| **Task store** (`tasks.rs`) | rows of a scope: status, parent, dependencies, check, stamp, dates and markers | create, update with cancel cascade, complete with ancestors, reopen, delete, clear, next, announce_due | one SQLite connection behind a mutex; tools, GUI, harness and daemon call it at once | both graphs acyclic, references live, a parent waits for its children, contracts are met by name, a crossing is announced once |
| **Long-horizon harness** (`harness.rs`) | per-item budgets, verified / abandoned / unmet lists, error counters | pick, pre-check, step, judge, replan, escalate, abandon, sweep | task store, step runner, user messages, cancel token, the files | ends, never completes an item against its check, reports what is true of the files |
| **Agent loop** (`loop_runner.rs`) | a conversation, tool calls in flight, nudges, caps, mission rounds | one model exchange and its tools, recovery, wrap-up | providers, tools | calls stay paired with results, one wrap-up, claims are proved, talk alone ends |
| **Chat turns** (`chat_harness.rs`, `nanna-daemon/src/tasks.rs`, `ask_user_service.rs`, `agent_service.rs`) | the run slot of a session, pending messages, parked goals, baselines, registrations | claim, push, poll, interject, ask, park, resume, stop, release | harness, sessions, channels | one turn per session, each message queued or in one hand until it is settled, Stop finds the live turn, every turn releases |
| **Missions** (`chat_harness.rs`) | error, dry and round budgets, the cumulative report | judge, reseed, plan, seed, run a round, finish | planner, task store, harness | budgets charged once; ends; a dry end is justified |
| **Step runner** (`nanna-daemon/src/tasks.rs`) | a model chain shared by runners, wedge fingerprints | attempt, retry, reset a wedged runner, fall back | model router | no model is skipped untried, every step is decided |
| **Wake-ups** (`cancel.rs`, `chat_harness.rs`) | flags, sets, `Notify` | cancel, claim, release; wait | every loop | nobody sleeps through what he waits for |
| **Scheduler** (`nanna-core/src/scheduler.rs`) | the job map, its rows, claims, runs | tick, claim, run, settle, add, remove, enable, run_now | executors, storage | no job runs twice at once, settled one-shots stay settled, due jobs run |
| **MCP tools** (`nanna-mcp`) | pending requests, list-changed flag, registry | request, answer, time out, resync | a child process | every slot is a live request; a change is not forgotten |
| **Sessions** (`nanna-daemon/src/session.rs`) | a map of sessions, their rows, the default | create, rename, pin a model, add a message, fork, regenerate, delete, load | SQLite | written through, the model picked last is the one used |
| **Listeners** (`nanna-channels/src/listeners`) | the poll offset, breaker counters | poll, hand over, back off, stop | a chat service, the router | no update lost, failures bounded |
| **Outbound queue** (`nanna-channels/src/queue.rs`) | messages, attempts, tokens, events | enqueue, process, send, retry, dead-letter, clear | a chat service | every message accounted for, mail settles |
| **Daemon role** (`health.rs`, `exit_reason.rs`, `ipc.rs`, `server.rs`) | PID file, its lock, the port, the exit record | acquire, bind, release, record | the kernel, other processes | the running daemon is the one on file; refused starts leave its record alone |
| Sub-agents (`registry.rs`, `supervisor.rs`, `multi.rs`) | definitions, handles | spawn (a stub) | | |
| Memory, providers, tools, scripting, configuration, GUI, kernels | | | | I/O, text and floating point |

**Hard behaviours.** The store's methods take the connection mutex several times
per call, so callers interleave *inside* create, update, complete, delete and
clear. The harness judges by checks whose verdict is true only at one moment.
A chat turn, the waiter of a parked turn, a new message, a Stop and a panic meet
at the same few maps. Scheduler, sessions and due announcements write memory and
disk in separate steps and may die between them. `hazards` in `PROJECT.json`
lists each at its line, with the properties that cover it.

## 2. Modules

| Module | Models | State and actions |
|---|---|---|
| `TaskGraph` | `Reach`, `Acyclic` | sets closed under edges; no recursion |
| `TaskBoard` | the rules of `tasks.rs`, one step per method | `board` maps live ids to rows; `Create`, `Update(t, patch)`, `Complete`, `Reopen`, `Delete`, `Clear`, each with its cascade |
| `TaskRepository` | the same methods cut at each release of the mutex | `call[a]`: what a caller carries between two critical sections; extends `TaskBoard` |
| `TaskWalk` | the work-list loop under the graph checks | any graph; `Hit`, `Skip`, `Expand`, `Exhausted` |
| `DueCards` | the recurrence sweep and `announce_due` | rows with dates and markers, a sweep with its list, an edit between read and write; a death at any step |
| `Harness` | the loop of `LongHorizonRunner` | `world[c]`: the check holds of the files now; `progress`, `ledger`, `at` |
| `AgentLoop` | one run of `Agent::run` | `phase` of the iteration, caps, wrap-up, nudges, mission rounds, `dangling` calls |
| `ChatTurns` | the turns of one session | `active`, `pending`, `parked`, `registered`, turn tasks, handlers, park waiters |
| `Mission` | the continuation loop of a turn | `budget`, `report`, the board's items; a harness run is one step |
| `StepLadder` | `AgentStepRunner` and `ModelChain` | the shared position, each runner's attempt, wedge tokens |
| `WakeUps` | `CancelToken` and the gates of `ChatRunRegistry` | waiters that register, check, sleep; notifications still to come |
| `Scheduler` | the cron runner | job map, rows, claims, runs, a caller, deaths of the daemon |
| `McpTools` | stdio transport, client and adapter | slots, answers in flight, versions of the tool list, the registry |
| `SessionStore` | `SessionManager` | the map, the tables, and requests that carry a row across an await |
| `ChannelListener` | the Telegram long poll and its breaker | offset, batch in hand, what the service still keeps |
| `OutboundQueue` | `MessageQueue` | mail, tokens, the event channel, the lock held across an await |
| `SingleInstance` | PID file, lock, port and exit record | lives that start, serve, drain, are killed or lose the race |
| `MCTaskBoard`, `MCTaskRepository`, `MCHarness`, `MCAgentLoop` | constants for TLC | |
| `MCServices` | the eleven services of the daemon and `TaskWalk` | they share no state: `service` says which one runs |
| `TaskGraphTheorems` | lemmas on `Reach`, `Acyclic` and least naturals | |
| `TaskBoardProofs`, `TaskRepositoryProofs` | theorems on the store, its callers and its walks | |
| `HarnessProofs`, `AgentProofs` | theorems on the harness; on the agent loop and MCP | |
| `ChatProofs` | theorems on wake-ups, missions and chat turns | |
| `ChannelProofs` | theorems on the listener and the outbound queue | |
| `DaemonProofs` | theorems on the ladder, scheduler, claims of the daemon, due cards and sessions | |

**How they fit together.** `TaskBoard` is the abstract specification of the
store; `TaskRepository` refines it for one caller (`ImplementsTaskBoard`, proved
in `LoneCallerAtomic`; the refinement mapping `Promise` applies the writes the
caller has still to make to the rows),
and `TaskWalk` justifies `Reach` in its guards. `Harness` treats a step as an
answer of the runner that `StepLadder` models, `Mission` treats a harness run as
one step whose report is `Report`, `ChatTurns` treats a mission as a loop that
polls and ends, and `AgentLoop` is one attempt of a step. Each of these
abstractions is a nondeterministic choice over the outcomes of the module below
it. `Scheduler` starts the sweep of `DueCards`.

**Choices of abstraction.**

* `TaskBoard`: `pending` and `in_progress` are both kept, blocked is derived. A
  patch is a record of the fields it names. Titles, notes, priorities and
  assignees are left out: no guard of the graph reads them.
* `Harness`: outcomes of a step are what the budget tells apart (`novel`,
  `moved`, `shifted`, `vain`, `repeat`, `talk`, `loop`). Its plan is flat; the
  cost rule that picks targets of a mid-run sweep is a free choice of subsets.
* `AgentLoop`: a reply is what the loop can tell of it (what its text amounts to,
  whether it calls tools, whether calls are written as prose, whether its
  reasoning went in circles).
* `Scheduler`: a schedule is whether it has come round. `DueCards`: a date is a
  day, unset dates lie after every day, and due is `<=` where overdue is `<`.
* `OutboundQueue`, `ChannelListener`: times are whether they have passed.
* `SessionStore`: a row is title, workspace, pinned model, tools and reply
  route; messages are their roles.

## 3. Runs

| Run | Instance | Shows |
|---|---|---|
| `board_graph` | 3 tasks, 2 dependencies, 1 contract, all patches | `RowsSound` (types, live references, stamps), both graphs acyclic, no dependency on an ancestor, flat boards never wedge, contracts close by name, a cancel closes its branch |
| `board_tree` | 4 tasks, depth 3 | the depth limit under moves of subtrees; parents wait for children |
| `board_wedge` | 3 tasks | **violated**: open tasks, none actionable |
| `repository_lone` | 1 caller, 3 tasks, every operation | the critical sections refine `TaskBoard`; every call returns; clear spares open tasks |
| `repository_checked` | 2 callers, updates that name edges | `EdgesAcyclic`: where check and write share a guard, both graphs stay acyclic |
| `repository_stale_write` | 2 callers | **violated**: an unchecked whole-row write closes a dependency cycle |
| `harness_sweep` | 2 checked items, hanging checks, failing store | `LedgerSound` (counts match the plan, one reopening); completion only while the check holds |
| `harness_ends` | a checked item, an unchecked message, a ladder of 2 steps and 2 replans | a run ends once new evidence stops, and its final report is true of the files |
| `services` | below | the safety of every service |
| `services_live` | below | what each service must eventually do |
| `agent` | 1 iteration and the wrap-up under a cap, unbounded without one; every reply, outcome, recovery and Stop | `RequestsSound` (requests carry paired blocks, one reserved iteration), claims are proved by work, recovery keeps replies, talk ends |
| `agent_paired` | the same | **violated**: a Stop leaves tool calls without results |

`services` checks, per service:

| Property | Instance | Says |
|---|---|---|
| `ChatSound` | 3 messages, 2 turns, a queue of 2, panics, seed failures | one live turn; Stop finds the turn that works; a message is in the queue or in one hand, and leaves both only by a step that settles it (a failing seed and a panic settle it by losing it, section 5); no baseline outlives the turns |
| `MissionSound`, `QuietRoundsBounded` | 1 item, 7 rounds, 2 dry rounds, 1 error | a stop is charged once; giving up cost the whole budget; a dry end over failing checks was reseeded; rounds that seed nothing are few |
| `LadderSound` | 2 runners, 2 retries per model (3 in the code), 4 models of which 3 are served | every model passed over has been given up on by a step, and a step fails only when every served model was tried |
| `NoLostWakeUp` | one waiter of each kind, 2 sessions | nobody sleeps while what he waits for holds and no notification is coming |
| `SchedulerSound` | 2 jobs, one of them one-shot, 2 runs, panics, any number of deaths | claims are runs; a settled one-shot stays settled |
| `McpSound` | 1 caller, whose calls may ask for input and go out again, 2 ids, 2 versions, late answers, death, close | slots are live requests; a change is marked, being fetched, or fetched |
| `ListenerSound` | 4 updates, limits 3 and 5 | nothing the service forgot was lost; failures in a row are bounded |
| `MailSound` | 2 messages, 2 processors, 1 token | mail is where some task will find it; attempts bounded |
| `InstanceSound` | 2 lives, 2 PIDs, kills, panics, I/O errors, reused PIDs | the daemon that serves is the one on file; a refused start never writes or removes the record; the running marker of the one on file stands, with two named exceptions |
| `WalkSound` | every graph on 2 nodes | the verdict is reachability |
| `SessionsSound` | 3 sessions, 2 clients, 3 requests, 1 restart | rows and messages reach the disk; the pin is the last pick; the default exists |
| `DueSound` | 1 recurring card, 3 edits, days 0 to 2, failing writes, any number of deaths | a crossing is announced at most once; a marker stands for a crossing; a card that came back falls due on the same pass |

`services_live`: `SessionReleased`, `MissionEnds`, `DueTasksRun`, `StepsDecided`,
`WalkEnds`, `MailSettles`.

**Why the bounds are enough.** Three tasks hold every shape the graph guards
distinguish; four are needed for a subtree of height one moved to the depth
limit. Two callers, clients, runners or processors are what each race takes: one
holds a stale copy, the other writes. Three messages fill the queue of a session
whose turn holds one. Limits 3 and 5 differ, so that alternating failures can
reset each other's count. Where a proof exists (section 4) no bound is involved.
`FreshMax`, `AskMax`, `EditMax`, `IdMax`, `UpdateMax`, `OwedMax`, `RunSlot`,
`LimitsMax`, `MsgMax`, `RestartMax` and `DayMax` bound what the program does not.

**Properties with an exception.** `WrittenThrough` (sessions) and `AnnouncedOnce`
(due cards) speak of rows no two tasks wrote at once: `overlapped`, `raced` and
`touched` are history variables that name the others. What happens to those is
in section 5. `OwnersRecordStands` (part of `InstanceSound`) names the lives that may
write over the record of the daemon on file (`WritesUnclaimed`): one whose claim of
the PID file ended in an I/O error, and one that released the file in its shutdown
and records its exit after that. Both do, see section 5. `ListenerSound` counts an update that `convert_update` drops as
handed over.

**Fairness.** In each case the executor polls a task that can run:

* `FairRSpec`: a call that has begun is polled to its end; tokio's mutex is FIFO.
  Starting a call is not fair.
* `HSpec`, `FairMSpec`, `FairLSpec`, `FairASpec`: the loop is one task; model,
  checks and store answer or time out (the transport has a silence window, a
  check a deadline). Nothing forces the clock to stop a run, so `RunEnds` rests on
  the loop's own ladder and assumes that new evidence is finite (`FreshMax`).
* `FairCSpec`: handlers, turns and waiters are polled; strong fairness for the
  end of a run and of a mission, which poll the queue between steps and would
  otherwise be kept from ending by messages alone.
* `FairSSpec`: the interval ticks and `select!` keeps no ready arm waiting for
  ever, hence strong fairness of `Tick`; executors return.
* `FairQSpec`: processors, timers and the event consumer go on; strong fairness
  for a processor because the lock it needs is taken and freed by others.

**Deadlock** is allowed where the thing modelled stops (a run that has returned,
a daemon that is down, services that are idle). The runs of the store check it.

### What the violated runs mean

* *Wedge.* The ancestor check follows dependency edges only. A wait that goes
  from a parent to its child and on through another task's dependency is
  accepted. `FlatBoardNeverWedges`, proved, says that hierarchy is essential.
* *Whole-row writes.* The header of `tasks.rs` argues that every method holds the
  connection lock for the duration of its writes; the reads those writes depend on
  are outside. `repository_checked` shows that where the read is repeated under
  the guard, the argument holds.
* *Unpaired calls.* An iteration stores the assistant's turn and then returns on a
  cancel; the repair in `context.rs` drops results without a call, not calls
  without a result.

## 4. Proofs

Each theorem holds for all values of the constants, under the assumption on them
that its module names. The pattern is the same throughout: an inductive invariant
that is stronger than the property, one lemma per action, and a temporal step.

### The task store

`TaskGraphTheorems` proves what is needed of `Reach` from its definition as the
least closed set: closed, least, monotone; an acyclic relation stays acyclic when
edges are removed, or when the edges of one node are replaced and that node does
not reach itself. `LeastNatural` (every set of naturals has a least element, from
well-founded inclusion of finite sets) takes the place of induction: what must
hold at every depth is shown by the least counterexample.

`TaskBoardProofs` uses the inductive invariant

    IInv == TypeOK /\ ReferencesLive /\ DepsAcyclic /\ HierarchyAcyclic /\ StampMatchesStatus

Live references are needed for acyclicity: a new row gets a fresh id, which no
row names yet, so it closes no cycle. It gives `Invariance`, `RowsStaySound`,
`DependenciesNeverCycle`, `HierarchyStaysForest`, and from it

* `FlatBoardsProgress` -- if every open task waited for an open one, following the
  waits in a finite board would close a cycle;
* `ParentWaits` -- whatever is marked done has all children closed or marked in the
  same step, along the ancestor chain;
* `ContractsEnd` -- what auto-completes carries no contract, so one step ends at
  most one;
* `CancelledBranchIsClosed` -- what the cascade leaves open has been taken out of
  the branch;
* `AncestorsNotAwaited`, `DepthHolds` -- both bounds are stated over the ancestors
  `Up(b, t)` of every task (`Clean`, `Shallow`) and kept along whole paths: rows
  that only move up their own chain keep them, a new row inherits its parent's,
  and a moved subtree is measured by `SubtreeHeight`, which `HeightBounds` shows
  to be no less than the way up from any task in it.

`TaskRepositoryProofs`: `CheckedEdgesHold` proves `EdgesAcyclic` for any number of
callers whose critical sections interleave, under `ChecksEveryEdge` (nobody
deletes or clears, every patch touches the graph, none cancels). The invariant
`StoreSound` keeps an id back for each caller about to insert and says what a
carried row still names. Without the assumption the property is false:
`repository_stale_write`.

`LoneCallerAtomic` proves that the store implements `TaskBoard` when `Actor` holds
one caller (`Alone`), for any numbers of tasks and any patches: an operation takes
effect at its first write, the later writes stutter. The board's rows are
`Promise(call, board)`: the plan of a cascade applied, the ancestors of a
completion marked, the rows and references of a delete and the targets of a clear
removed. The invariant `LoneHolds` says, for each place a call can be at, what it
carries and that it is still true of the rows; the rows are well formed, acyclic
and without dangling references (`Good`) except in the midst of a cascade or
between a delete and its last stripped reference, and there the promised rows are.
Each critical section has a lemma that it keeps `LoneHolds` and takes the promised
rows by one operation of the board or by none (`Moves`, `Does`). Two arguments
carry it: the walk of `complete()`, which marks one ancestor per write in the
order of a snapshot, ends exactly at the set `AutoCompleted` the board marks at
once, because the ancestor chain has no cycle (`ChainOrder`, `EndsWithTask`,
`StopsWithTask`); and what a clear has left is closed downwards (`DownClosed`), so
that each delete of a subtree stays within it and a target that is gone has left
nothing below. `ClearSpares` reads `ClearSparesOpenTasks` off the same invariant.

`WalkInvariant` and `WalkDecides`: visited and queued
nodes are reachable, and successors of visited nodes are visited or queued; an
empty queue then makes the visited set closed, hence everything reachable.

### The harness and the agent

`HarnessProofs` (`HInv`) ties the tallies of the ledger to the plan (`Balanced`),
every item's counters to its budget (`Budgets`), and what a sweep has asked so far
to the world it asked about (`DrainAsked`). `LedgerHolds`, `FinalReports` -- a
clean end with every check answered is true of the files as they are at the end,
although each verdict was heard earlier -- and `CompletionsHold` follow. It assumes
a finite plan.

`AgentProofs`: `LoopInv` keeps the caps and the pairing of calls per phase of the
iteration, which gives `RequestsHold`, `ClaimsHold`, `RecoveryHolds`. `McpInv`
says that the slots are the requests in flight, whose ids differ (`SlotsHeld`), that
the watcher's request is a list and is not answered with a mismatch
(`WatcherAsks`), that the lines still to be read are no older than those read
(`LinesOrdered`), and that a change is marked, being fetched, fetched, or its fetch
has failed (`Noticed`): `McpHolds`.

### Chat, channels and services

`ChatProofs`: `NobodySleepsThrough`, for any number of waiters -- one past
registration whose condition holds was woken, is about to check, or a notification
is due: the order register, check, sleep is what makes it inductive.
`MissionHolds` -- an error stop not yet charged is still owed (`Owing`), and a dry
spell about to end the mission has nothing unmet or a reseed against the same
verified state. `QuietRoundsHold` -- `QuietPaid` charges each round that seeds
nothing to an error, to the one reopening of an item, or to a dry spell.
`ChatHolds` -- `ChatInv` has the ownership of the run slot, the registration and
the baselines, and that only a turn that seeds has messages in hand (`HandsFull`);
`CustodyInv` adds where messages are: one that its handler has still to push is with
nobody else, and one that began a turn is with the turn, the parked entry or one
waiter (`GoalsOnce`), so that a push or a put-back never makes a second copy. `ResumesHold` -- `ResumesPaid` in `ChatInv` counts what turns, waiters, park entries and noted counts
may still cost, and has it covered by the user's turns and the counts that were
overwritten, a budget each. No run checks `ResumesBounded`: it takes more turns to
exceed than a run of TLC holds.

`ChannelProofs`: `ListenerHolds` -- whatever is below the kept mark was handed
over, the batch in hand starts where the handed ones end, and failures since the
last success are bounded by the product of the two limits, because each reset of
one counter costs a failure of the other. `MailHolds` -- a held message is in the
hands of exactly one processor (`Kept`), and what was tried is counted (`Tried`).

`DaemonProofs`:

* `LadderHolds` -- the shared position moves only past models that some step has
  given up on, and a step is on a model the chain has reached (`LadderInv`).
* `SchedulerHolds` -- a claim is a run, from the select to the settle
  (`ClaimsHeld`), and a one-shot that has run is neither due nor armed
  (`OneShotPlaced`).
* `InstanceHolds` -- the lock's owner wrote the file (`FileOwned`); a life gets to
  its running marker only past a claim that was held or ended in an error
  (`ClaimPlaced`), and handlers write in such lives only (`HandlersArmed`); once the
  owner has written its marker, whoever writes after it is `WritesUnclaimed`, since
  nobody else holds the claim (`RecordWritten`, `RecordInv`).
* `DueHolds` -- under `OneSweep`, as the code intends and as the run has it: a
  sweep's list covers what is due (`ListCovers`), its plans are of rows as they
  are unless touched (`Plans`), and a marker stands for a crossing
  (`MarkersMean`).
* `SessionsHold` -- for a session on which no two requests have met, map and disk
  differ by exactly what the one request under way has still to write
  (`OneByOne`, `Halfway`); a pin written last is the last picked, and a request
  that carries an older copy reconciles it (`PinIsLastPick`).

### Only model-checked

Liveness (the prover has no fairness): `RunEnds`, `CallsReturn` and the properties
of `services_live`. Concurrent callers of the store that delete or cancel: no
invariant of theirs is stated beyond what the violated runs refute.

## 5. Divergences without a run of their own

Each is a trace of the module named; the formula is in the module where one is
given, and a cfg that names it reproduces the trace.

* `TaskRepository!ParentNeverDoneOverOpenChild`: with two callers, a child is
  inserted under a parent closed meanwhile, and an ancestor is closed from a stale
  snapshot. Likewise an update writes `done` back over a reopen, and `clear`
  deletes an open task added meanwhile.
* `Harness!EveryAbandonmentNamed`: the unmet list is rebuilt at each drain from
  items not yet reopened, so the second abandonment of an item is only counted.
  `Harness!AskedWorkRuns`: revival goes through the pre-check also for work the
  user asked for, which is then closed with no step run. After a passing check a
  `complete()` that fails every time never reaches its error limit, since a step
  resets the counter (`harness.rs:3202`).
* `ChatTurns!FailedSeedStaysPending`: when an interjection fails, "the message stays
  pending and is retried next boundary" (`harness.rs:2147`, which logs "retrying next
  step"). The interjector has drained the queue by then, and `seed_plan(..).await?`
  (`nanna-daemon/src/tasks.rs:4470`) returns with the message and the rest of the
  batch in hand; only a Stop puts them back. A panic between drain and seed loses
  them too.
* `ChatTurns!AnswerFollowsQuestion`: an answer that comes as its question times out
  stays and answers the next one (`ask_user_service.rs:11`).
  `ChatTurns!OrdinaryTurnStartsFresh`: an ordinary turn may take the resume count
  noted for a parked one (`chat_harness.rs:245`).
  `ChatTurns!FlappingProviderEnds`: "so a flapping provider cannot loop forever"
  (`chat_harness.rs:2912`) counts on the resume count, but a waiter that stalls
  between `clear_park` and `note_resume` for a whole turn notes its count over
  that of the next waiter (`chat_harness.rs:349`, `chat_harness.rs:2953`), and the
  budget starts again. A turn that closes after its
  release removes the baseline of the next turn (`chat_harness.rs:2286`,
  `nanna-daemon/src/tasks.rs:4167`).
* `Scheduler!OneShotRunsOnce`: a one-shot executed with success is started again
  after a death before its row is settled (`scheduler.rs:88`).
* `McpTools!RegistryInStep`: a list that fails to load after its flag was taken
  leaves the registry behind (`adapter.rs:479`).
* `OutboundQueue!QueueWithinLimit` and `NoUrgentDroppedForLess`: messages put back
  after a failed send exceed the limit, and an urgent one is dropped to make room
  for one that is not (`queue.rs:191`, `queue.rs:330`).
* `SingleInstance!LiveRecordStands`: "a losing duplicate can never clobber the live
  daemon's record" (`exit_reason.rs:10`; also `exit_reason.rs:21`, `server.rs:3854`).
  Two ways it does. A start whose PID file fails with an I/O error goes on
  (`server.rs:3842`), binds under `SO_REUSEADDR` beside a daemon that is booting
  (`ipc.rs:230`), marks itself running over that one's record, loses the `listen` and
  records its own exit, over a daemon that serves. And a shutdown frees port and PID
  file before it writes its exit record, over the record of the next life
  (`server.rs:4699`). Between removing and renaming the record there is none.
* `SessionStore`: an overlapping write that comes late puts an old row back, or a
  deleted session back on disk; `update()` of a deleted session brings it back;
  a fork's messages and a regenerated conversation's truncation never reach the
  disk (`session.rs:787`, "write-through"); a tools setting is undone by a stale
  `update()`, which reconciles the pinned model only.
* `DueCards!ReopenedIsArmed`: "reopening a card clears BOTH" (`migrations.rs:676`);
  a status patch that reopens a card clears neither marker, so the card is not
  announced again. An update in flight during a sweep writes the marker it read
  back, and the card is announced twice; a date moved after the sweep's list is
  marked as announced before it has come. `run_now` may start a second sweep
  beside the scheduler's (a second member of `Sweeper`), with the same effects.
* `AgentLoop`: healing unserved tools puts tools on wrap-up and plan requests; a
  silent reply repeats the claim of the reply before it.

## 6. Not modelled

* *In modelled components:* failing SQL statements between two critical sections
  of the store; notes, posts and the activity log; text validation; `import_v01`;
  prompts, reports and the evidence fingerprint of the harness, and what programs
  outside the run do to the files between a passing check and its `complete()`; the repeat-call
  breaker, prose salvage's parser and token counts of the agent loop; GPU window
  demotion in the step runner; `update_schedule` and cron arithmetic; HTTP and SSE
  transports of MCP and its write to a child that stops reading; sub-sessions and
  subscriptions; `QueueStats`; health probes. `MessageQueue` has no caller in the
  daemon yet.
* *Components:* memory and providers (floating point, HTTP, streams), tools and
  scripting (operating system calls), configuration (parsing), the supervisor
  (its agent loop is a stub: `spawn_agent_task` starts nothing), the GUI, numeric
  kernels, browser, workspace and timeline.

The map covers about a twentieth of the repository's Rust. The rest is mostly
text, I/O, arithmetic, front end and unit tests inside the source files; a model
of it would have no interleaving, failure or protocol to check.

## 7. Plan

1. *(done)* The store, its callers and walks, the harness, the agent loop, the
   services of the daemon.
2. *(done)* Every safety property the passing runs check is a theorem, the
   refinement of the store among them; eight proof modules.
3. Proofs: what two callers of the store keep when one of them deletes
   (`ReferencesLive` does not hold, `HierarchyAcyclic` may); action properties of
   the services.
4. Models: failing statements in `TaskRepository`; retention sweeps of the memory
   service; the registry of sub-sessions.

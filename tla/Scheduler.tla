------------------------------ MODULE Scheduler ------------------------------
(***************************************************************************)
(* The cron runner (nanna-core/src/scheduler.rs): a map of tasks in memory *)
(* and its rows in storage, a loop that starts what is due, the runs it    *)
(* spawns, a caller of the control plane, and a daemon that may die        *)
(* between any two steps and load its rows again.                          *)
(*                                                                         *)
(* A schedule is abstracted to whether it has come round: a one-shot's     *)
(* stays so, a repeating task's comes round again after each run.  The     *)
(* master switch is on; what an executor does is its outcome.              *)
(***************************************************************************)
EXTENDS Naturals, FiniteSets

CONSTANTS
    Job,         \* task ids
    OneShot,     \* those of type Delayed or At
    RunSlot,     \* bound: runs that exist at a time
    UserOps,     \* what the caller does: of "add", "remove", "enable", "disable", "now"
    JobFaults    \* of "panic" of an executor, "death" of the daemon

ASSUME SchedulerAssumption == OneShot \subseteq Job /\ JobFaults \subseteq {"panic", "death"}

VARIABLES
    tasks,       \* Scheduler.tasks: whether the job is in it, enabled, has run
    rows,        \* cron_jobs: "none", "on" or "off"
    elapsed,     \* the jobs whose time has come
    tick,        \* due tasks of the tick's snapshot still to be considered
    beating,     \* the loop awaits the executor of a heartbeat
    claims,      \* InFlight
    jobRun,      \* runs spawned by the loop
    call,        \* the caller's operation
    settled,     \* history: one-shots the loop has settled, until enabled again
    delivered    \* history: one-shots executed with success to the end, until enabled again

scheduler == <<tasks, rows, elapsed, tick, beating, claims, jobRun, call,
               settled, delivered>>

Absent == [in |-> FALSE, on |-> FALSE, ran |-> FALSE]
Loaded(on) == [in |-> TRUE, on |-> on, ran |-> FALSE]
NoRun == [job |-> "none", at |-> "free", ok |-> FALSE]
NoCall == [op |-> "none", job |-> "none", at |-> "none", ok |-> FALSE]

\* load_jobs: every row comes back, its run_count at zero.
LoadJobs == [j \in Job |-> IF rows[j] = "none" THEN Absent ELSE Loaded(rows[j] = "on")]

SInit ==
    /\ rows \in [Job -> IF "add" \in UserOps THEN {"on", "none"} ELSE {"on"}]
    /\ tasks = LoadJobs
    /\ elapsed = {} /\ tick = {} /\ claims = {}
    /\ beating = FALSE
    /\ jobRun = [r \in RunSlot |-> NoRun]
    /\ call = NoCall
    /\ settled = {} /\ delivered = {}

Elapse(j) ==
    /\ j \notin elapsed
    /\ elapsed' = elapsed \cup {j}
    /\ UNCHANGED <<tasks, rows, tick, beating, claims, jobRun, call, settled, delivered>>

(***************************************************************************)
(* The loop: start.                                                        *)
(***************************************************************************)

IsTaskDue(j) ==
    /\ tasks[j].in /\ tasks[j].on
    /\ j \in elapsed
    /\ j \in OneShot => ~tasks[j].ran

\* A tick clones the tasks and judges the clones.
Tick ==
    /\ tick = {} /\ ~beating
    /\ tick' = {j \in Job : IsTaskDue(j)}
    /\ tick' # {}
    /\ UNCHANGED <<tasks, rows, elapsed, beating, claims, jobRun, call, settled, delivered>>

\* InFlightClaim::take.
MayClaim(j) == j \notin claims

Starts(j, r) ==
    /\ jobRun[r] = NoRun
    /\ jobRun' = [jobRun EXCEPT ![r] = [job |-> j, at |-> "exec", ok |-> FALSE]]
    /\ claims' = claims \cup {j}

Consider(j) ==
    /\ j \in tick
    /\ tick' = tick \ {j}
    /\ \/ MayClaim(j) /\ \E r \in RunSlot : Starts(j, r)
       \/ ~MayClaim(j) /\ UNCHANGED <<jobRun, claims>>
    /\ UNCHANGED <<tasks, rows, elapsed, beating, call, settled, delivered>>

\* The heartbeat's executor is awaited in the loop.
Heartbeat ==
    /\ tick = {} /\ ~beating
    /\ beating' = TRUE
    /\ UNCHANGED <<tasks, rows, elapsed, tick, claims, jobRun, call, settled, delivered>>

HeartbeatReturns ==
    /\ beating
    /\ beating' = FALSE
    /\ UNCHANGED <<tasks, rows, elapsed, tick, claims, jobRun, call, settled, delivered>>

(***************************************************************************)
(* A run: run_due_task.                                                    *)
(***************************************************************************)

Moves(r, place) == jobRun' = [jobRun EXCEPT ![r].at = place]

Executes(r, ok) ==
    /\ jobRun[r].at = "exec"
    /\ jobRun' = [jobRun EXCEPT ![r].at = "memory", ![r].ok = ok]
    /\ UNCHANGED <<tasks, rows, elapsed, tick, beating, claims, call, settled, delivered>>

\* Mutant: a panic leaves the claim behind.
PanicKeepsClaim(r) == claims

\* The unwinding run drops its claim.
PanicDrops(r) == claims \ {jobRun[r].job}

Panics(r) ==
    /\ "panic" \in JobFaults
    /\ jobRun[r].at = "exec"
    /\ claims' = PanicDrops(r)
    /\ jobRun' = [jobRun EXCEPT ![r] = NoRun]
    /\ UNCHANGED <<tasks, rows, elapsed, tick, beating, call, settled, delivered>>

\* A delivered one-shot goes, a failed one stays disabled; a repeating task's
\* next time is computed from now.
SettleMemory(r) ==
    /\ jobRun[r].at = "memory"
    /\ LET j == jobRun[r].job
       IN  /\ tasks' = CASE j \in OneShot /\ jobRun[r].ok -> [tasks EXCEPT ![j] = Absent]
                         [] ~(j \in OneShot /\ jobRun[r].ok) /\ tasks[j].in ->
                              [tasks EXCEPT ![j].ran = TRUE,
                                            ![j].on = @ /\ j \notin OneShot]
                         [] OTHER -> tasks
           /\ elapsed' = IF j \notin OneShot /\ tasks[j].in THEN elapsed \ {j} ELSE elapsed
    /\ Moves(r, "storage")
    /\ UNCHANGED <<rows, tick, beating, claims, call, settled, delivered>>

\* Mutant: a failed one-shot is disabled in memory only.
RowKept(j, ok) == IF j \in OneShot /\ ok THEN "none" ELSE rows[j]

\* settle_in_storage: updates and deletes of a row that is gone do nothing.
RowAfter(j, ok) ==
    CASE rows[j] = "none" \/ j \notin OneShot -> rows[j]
      [] rows[j] # "none" /\ j \in OneShot /\ ok -> "none"
      [] OTHER -> "off"

\* The claim is dropped last; the storage writes before it are two awaits
\* with no state of their own between them.
SettleStorage(r) ==
    /\ jobRun[r].at = "storage"
    /\ LET j == jobRun[r].job
       IN  /\ rows' = [rows EXCEPT ![j] = RowAfter(j, jobRun[r].ok)]
           /\ settled' = IF j \in OneShot THEN settled \cup {j} ELSE settled
           /\ delivered' = IF j \in OneShot /\ jobRun[r].ok THEN delivered \cup {j} ELSE delivered
    /\ Moves(r, "drop")
    /\ UNCHANGED <<tasks, elapsed, tick, beating, claims, call>>

DropClaim(r) ==
    /\ jobRun[r].at = "drop"
    /\ claims' = claims \ {jobRun[r].job}
    /\ jobRun' = [jobRun EXCEPT ![r] = NoRun]
    /\ UNCHANGED <<tasks, rows, elapsed, tick, beating, call, settled, delivered>>

(***************************************************************************)
(* The control plane: each operation writes storage, then memory.          *)
(***************************************************************************)

Calls(op, j, place) == call' = [op |-> op, job |-> j, at |-> place, ok |-> FALSE]

AddRow(j) ==
    /\ "add" \in UserOps /\ call = NoCall
    /\ rows[j] = "none" /\ ~tasks[j].in /\ j \notin settled \cup elapsed
    /\ rows' = [rows EXCEPT ![j] = "on"]
    /\ Calls("add", j, "memory")
    /\ UNCHANGED <<tasks, elapsed, tick, beating, claims, jobRun, settled, delivered>>

RemoveRow(j) ==
    /\ "remove" \in UserOps /\ call = NoCall /\ tasks[j].in
    /\ rows' = [rows EXCEPT ![j] = "none"]
    /\ Calls("remove", j, "memory")
    /\ UNCHANGED <<tasks, elapsed, tick, beating, claims, jobRun, settled, delivered>>

SetRowEnabled(j, op) ==
    /\ op \in UserOps /\ call = NoCall /\ tasks[j].in
    /\ rows' = IF rows[j] = "none" THEN rows
               ELSE [rows EXCEPT ![j] = IF op = "enable" THEN "on" ELSE "off"]
    /\ Calls(op, j, "memory")
    /\ settled' = IF op = "enable" THEN settled \ {j} ELSE settled
    /\ delivered' = IF op = "enable" THEN delivered \ {j} ELSE delivered
    /\ UNCHANGED <<tasks, elapsed, tick, beating, claims, jobRun>>

CallMemory ==
    /\ call.at = "memory" /\ call.op # "now"
    /\ LET j == call.job
       IN  tasks' = CASE call.op = "add" -> [tasks EXCEPT ![j] = Loaded(TRUE)]
                      [] call.op = "remove" -> [tasks EXCEPT ![j] = Absent]
                      [] call.op \in {"enable", "disable"} /\ tasks[j].in ->
                           [tasks EXCEPT ![j].on = (call.op = "enable")]
                      [] OTHER -> tasks
    /\ call' = NoCall
    /\ UNCHANGED <<rows, elapsed, tick, beating, claims, jobRun, settled, delivered>>

\* run_now takes no claim and settles no one-shot.
RunNow(j) ==
    /\ "now" \in UserOps /\ call = NoCall /\ tasks[j].in
    /\ Calls("now", j, "exec")
    /\ UNCHANGED <<tasks, rows, elapsed, tick, beating, claims, jobRun, settled, delivered>>

RunNowExecutes(ok) ==
    /\ call.at = "exec"
    /\ call' = [call EXCEPT !.at = "memory", !.ok = ok]
    /\ UNCHANGED <<tasks, rows, elapsed, tick, beating, claims, jobRun, settled, delivered>>

RunNowRecords ==
    /\ call.at = "memory" /\ call.op = "now"
    /\ LET j == call.job
       IN  /\ tasks' = IF tasks[j].in THEN [tasks EXCEPT ![j].ran = TRUE] ELSE tasks
           /\ elapsed' = IF j \notin OneShot /\ tasks[j].in THEN elapsed \ {j} ELSE elapsed
           /\ delivered' = IF j \in OneShot /\ call.ok THEN delivered \cup {j} ELSE delivered
    /\ call' = NoCall
    /\ UNCHANGED <<rows, tick, beating, claims, jobRun, settled>>

\* The daemon dies and starts again: start_scheduler loads the rows.
DieAndLoad ==
    /\ "death" \in JobFaults
    /\ tasks' = LoadJobs
    /\ tick' = {} /\ claims' = {} /\ beating' = FALSE
    /\ jobRun' = [r \in RunSlot |-> NoRun]
    /\ call' = NoCall
    /\ UNCHANGED <<rows, elapsed, settled, delivered>>
----------------------------------------------------------------------------
RunStep(r) ==
    \/ \E ok \in BOOLEAN : Executes(r, ok)
    \/ Panics(r) \/ SettleMemory(r) \/ SettleStorage(r) \/ DropClaim(r)

CallStep ==
    \/ \E j \in Job :
          \/ AddRow(j) \/ RemoveRow(j) \/ RunNow(j)
          \/ \E op \in {"enable", "disable"} : SetRowEnabled(j, op)
    \/ CallMemory \/ RunNowRecords
    \/ \E ok \in BOOLEAN : RunNowExecutes(ok)

SNext ==
    \/ Tick \/ Heartbeat \/ HeartbeatReturns
    \/ \E j \in Job : Consider(j) \/ Elapse(j)
    \/ \E r \in RunSlot : RunStep(r)
    \/ CallStep \/ DieAndLoad

SSpec == SInit /\ [][SNext]_scheduler

\* The interval ticks, select! keeps no ready arm waiting for ever, executors
\* return.  An executor that panics for ever may starve its job.
SFairness ==
    /\ SF_scheduler(Tick) /\ WF_scheduler(HeartbeatReturns)
    /\ \A j \in Job : WF_scheduler(Consider(j))
    /\ \A r \in RunSlot : WF_scheduler(RunStep(r))

FairSSpec == SSpec /\ SFairness
----------------------------------------------------------------------------
\* Types.
STypeOK ==
    /\ \A j \in Job : tasks[j] \in [in : BOOLEAN, on : BOOLEAN, ran : BOOLEAN]
    /\ rows \in [Job -> {"none", "on", "off"}]
    /\ claims \subseteq Job /\ tick \subseteq Job /\ elapsed \subseteq Job

Occupied(r) == jobRun[r].at # "free"

\* InFlightClaim: a claim is held by exactly one run, from before it is
\* spawned until its state is settled, however the run ends.
ClaimsAreRuns ==
    /\ claims = {jobRun[r].job : r \in {q \in RunSlot : Occupied(q)}}
    /\ \A q, r \in RunSlot : Occupied(q) /\ Occupied(r) /\ jobRun[q].job = jobRun[r].job => q = r

\* run_due_task: a one-shot the loop has settled, delivered or failed, is not
\* due, and no restart arms it again unless it has been enabled again.
SettledStaysSettled == \A j \in settled : rows[j] # "on" /\ ~IsTaskDue(j)

\* Claims and one-shots together: no task runs twice at once, and none that is
\* settled comes back.
SchedulerSound == ClaimsAreRuns /\ SettledStaysSettled

\* A task that is due is executed, whatever runs, callers and the heartbeat do.
DueTasksRun ==
    \A j \in Job : IsTaskDue(j) ~> ~IsTaskDue(j) \/ \E r \in RunSlot : jobRun[r].job = j

\* TaskType::is_one_shot, "runs at most once": a one-shot that was executed
\* with success is not started again.
OneShotRunsOnce ==
    [][\A j \in delivered : \A r \in RunSlot :
          jobRun'[r].job = j /\ jobRun'[r].at = "exec" => jobRun[r].job = j]_scheduler
=============================================================================

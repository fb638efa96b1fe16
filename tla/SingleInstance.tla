---------------------------- MODULE SingleInstance ----------------------------
(***************************************************************************)
(* How a daemon process claims the daemon role and gives it up:            *)
(* the PID file with its lock (nanna-daemon/src/health.rs), the IPC port   *)
(* (ipc.rs), the exit record (exit_reason.rs), and the order in which      *)
(* server.rs uses them, on Unix.                                           *)
(*                                                                         *)
(* A life is one run of the program.  It may be killed at any step, and    *)
(* its PID is then free for another daemon or for another program.  The    *)
(* kernel's part (PIDs, the advisory lock, the port) is external: with     *)
(* SO_REUSEADDR several sockets may be bound to the port while none        *)
(* listens, and only one listens.  What read_previous finds is only        *)
(* logged, and a temporary file that cannot be written is left out.        *)
(***************************************************************************)
EXTENDS Naturals, FiniteSets

CONSTANTS
    Life,             \* runs of the daemon, each started at most once
    Pid,              \* process ids
    Locking,          \* whether the file system supports the lock
    InstanceFaults    \* of "kill", "panic", "boot", "io", "reuse"

ASSUME InstanceAssumption ==
    /\ Locking \in BOOLEAN
    /\ {"free", "none", "nobody"} \cap Life = {} /\ {"absent", "torn"} \cap Pid = {}
    /\ InstanceFaults \subseteq {"kill", "panic", "boot", "io", "reuse"}

VARIABLES
    life,        \* each life: where it is, its PID, PidFile.owned, ExitReasonFile.armed,
                 \* and (history) how its claim to the daemon role went
    handler,     \* each life's signal handler or panic hook
    pidFile,     \* "absent", "torn", or the PID in it
    section,     \* the life that holds the lock on nanna-daemon.pid.lock, or "free"
    listening,   \* the life that listens on the IPC port, or "none"
    record,      \* the exit record: its state and the life that last wrote or removed it
    strangers    \* PIDs of other programs

instance == <<life, handler, pidFile, section, listening, record, strangers>>

NoRecord == [state |-> "absent", by |-> "nobody"]
\* A claim is made ("held"), skipped after an I/O error ("error") or refused,
\* by the PID file or the port.
Unborn == [pc |-> "unborn", pid |-> "none", owned |-> FALSE, armed |-> FALSE,
           next |-> "none", claim |-> "none"]

IInit ==
    /\ life = [l \in Life |-> Unborn]
    /\ handler = [l \in Life |-> "idle"]
    /\ pidFile = "absent" /\ section = "free" /\ listening = "none"
    /\ record = NoRecord /\ strangers = {}

Alive == {l \in Life : life[l].pc \notin {"unborn", "over"}}
DaemonPids == {life[l].pid : l \in Alive}

Proceeds(l, pc) == life' = [life EXCEPT ![l].pc = pc]

\* Whatever ends a process, the kernel takes back its lock and its port.
Over(l) ==
    /\ Proceeds(l, "over")
    /\ handler' = [handler EXCEPT ![l] = "idle"]
    /\ section' = IF section = l THEN "free" ELSE section
    /\ listening' = IF listening = l THEN "none" ELSE listening

Launch(l, pid) ==
    /\ life[l].pc = "unborn" /\ pid \notin DaemonPids \cup strangers
    /\ life' = [life EXCEPT ![l].pc = "acquire", ![l].pid = pid]
    /\ UNCHANGED <<handler, pidFile, section, listening, record, strangers>>

(***************************************************************************)
(* acquire_pid_file and PidFile::acquire.                                  *)
(***************************************************************************)

\* Mutant: the section runs unserialized.
EntersUnlocked(l) == UNCHANGED section

EntersSection(l) ==
    IF Locking THEN section = "free" /\ section' = l ELSE UNCHANGED section

LeavesSection(l) == section' = IF section = l THEN "free" ELSE section

AcquirePid(l) ==
    /\ life[l].pc = "acquire"
    /\ EntersSection(l)
    /\ Proceeds(l, "judge")
    /\ UNCHANGED <<handler, pidFile, listening, record, strangers>>

\* read_state and probe_process: a daemon's PID refuses; so may another
\* program's, when its identity cannot be read; dead and torn records do not.
Refusals(l) ==
    IF pidFile \in DaemonPids \ {life[l].pid} THEN {TRUE}
    ELSE IF pidFile \in strangers THEN {TRUE, FALSE} ELSE {FALSE}

Judge(l) ==
    /\ life[l].pc = "judge"
    /\ \E refused \in Refusals(l) :
          IF refused
          THEN /\ life' = [life EXCEPT ![l].pc = "release", ![l].next = "over",
                                        ![l].claim = "refused"]
               /\ LeavesSection(l)
          ELSE Proceeds(l, "truncate") /\ UNCHANGED section
    /\ UNCHANGED <<handler, pidFile, listening, record, strangers>>

\* std::fs::write empties the file, then writes.
Truncate(l) ==
    /\ life[l].pc = "truncate"
    /\ pidFile' = "torn"
    /\ Proceeds(l, "write")
    /\ UNCHANGED <<handler, section, listening, record, strangers>>

WritePid(l) ==
    /\ life[l].pc = "write"
    /\ pidFile' = life[l].pid
    /\ life' = [life EXCEPT ![l].pc = "bind", ![l].owned = TRUE,
                             ![l].claim = "held"]
    /\ LeavesSection(l)
    /\ UNCHANGED <<handler, listening, record, strangers>>

\* An I/O error is no reason not to serve: the life goes on without the file.
PidIoFails(l) ==
    /\ "io" \in InstanceFaults /\ life[l].pc \in {"judge", "truncate", "write"}
    /\ life' = [life EXCEPT ![l].pc = "bind", ![l].claim = "error"]
    /\ LeavesSection(l)
    /\ UNCHANGED <<handler, pidFile, listening, record, strangers>>

(***************************************************************************)
(* reserve_port, mark_running, the start of the services, serve.           *)
(***************************************************************************)

BindPort(l) ==
    /\ life[l].pc = "bind"
    /\ IF listening = "none"
       THEN life' = [life EXCEPT ![l].pc = "unlink", ![l].next = "boot"]
       ELSE life' = [life EXCEPT ![l].pc = "release", ![l].next = "over",
                                 ![l].claim = "refused"]
    /\ UNCHANGED <<handler, pidFile, section, listening, record, strangers>>

BootFails(l) ==
    /\ "boot" \in InstanceFaults /\ life[l].pc = "boot"
    /\ life' = [life EXCEPT ![l].pc = "release", ![l].next = "over"]
    /\ UNCHANGED <<handler, pidFile, section, listening, record, strangers>>

\* A port another life listens on takes the daemon down, which records why.
OpenPort(l) ==
    /\ life[l].pc = "boot"
    /\ IF listening = "none"
       THEN Proceeds(l, "serving") /\ listening' = l
       ELSE /\ life' = [life EXCEPT ![l].pc = "unlink", ![l].next = "drain"]
            /\ UNCHANGED listening
    /\ UNCHANGED <<handler, pidFile, section, record, strangers>>

(***************************************************************************)
(* ExitReasonFile::write removes the record, then renames the new one into *)
(* its place.  The main task writes the running marker, a listen error and *)
(* clean_shutdown; the signal handler and the panic hook write theirs      *)
(* beside it, and nothing in a life that is not armed.                     *)
(***************************************************************************)

Unlinked(l) == [state |-> "absent", by |-> l]

UnlinkRecord(l) ==
    /\ life[l].pc = "unlink"
    /\ record' = Unlinked(l)
    /\ Proceeds(l, "rename")
    /\ UNCHANGED <<handler, pidFile, section, listening, strangers>>

RenameRecord(l) ==
    /\ life[l].pc = "rename"
    /\ record' = [state |-> IF life[l].next = "boot" THEN "running" ELSE "exited", by |-> l]
    /\ IF life[l].next = "over" THEN Over(l)
       ELSE /\ life' = [life EXCEPT ![l].pc = life[l].next, ![l].armed = TRUE]
            /\ UNCHANGED <<handler, section, listening>>
    /\ UNCHANGED <<pidFile, strangers>>

\* Mutant: a life that never owned the file records its end all the same.
RecordsUnarmed(l) == l \in Alive

RecordsExit(l) == life[l].armed

SignalArrives(l) ==
    /\ l \in Alive /\ handler[l] = "idle"
    /\ handler' = [handler EXCEPT ![l] = IF RecordsExit(l) THEN "unlink" ELSE "sent"]
    /\ UNCHANGED <<life, pidFile, section, listening, record, strangers>>

HookPanics(l) ==
    /\ "panic" \in InstanceFaults
    /\ l \in Alive /\ handler[l] = "idle" /\ RecordsExit(l)
    /\ handler' = [handler EXCEPT ![l] = "panicUnlink"]
    /\ UNCHANGED <<life, pidFile, section, listening, record, strangers>>

HandlerUnlinks(l) ==
    /\ handler[l] \in {"unlink", "panicUnlink"}
    /\ record' = Unlinked(l)
    /\ handler' = [handler EXCEPT ![l] = IF @ = "unlink" THEN "rename" ELSE "panicRename"]
    /\ UNCHANGED <<life, pidFile, section, listening, strangers>>

\* The signal handler then asks for the shutdown; a panic aborts the process.
HandlerRenames(l) ==
    /\ handler[l] \in {"rename", "panicRename"}
    /\ record' = [state |-> "exited", by |-> l]
    /\ IF handler[l] = "panicRename" THEN Over(l)
       ELSE /\ handler' = [handler EXCEPT ![l] = "sent"]
            /\ UNCHANGED <<life, section, listening>>
    /\ UNCHANGED <<pidFile, strangers>>

(***************************************************************************)
(* finish_shutdown: the port is closed, the PID file released, and then    *)
(* the clean exit is recorded.                                             *)
(***************************************************************************)

BeginDrain(l) ==
    /\ \/ life[l].pc = "serving" /\ handler[l] = "sent"
       \/ life[l].pc = "drain"
    /\ life' = [life EXCEPT ![l].pc = "release", ![l].next = "unlink"]
    /\ listening' = IF listening = l THEN "none" ELSE listening
    /\ UNCHANGED <<handler, pidFile, section, record, strangers>>

\* What follows the release: the end of the process, or its exit record.
AfterRelease(l) ==
    IF life[l].next = "over" THEN Over(l)
    ELSE /\ life' = [life EXCEPT ![l].pc = "unlink", ![l].next = "over", ![l].owned = FALSE]
         /\ LeavesSection(l)
         /\ UNCHANGED <<handler, listening>>

\* release, and Drop: only a life that wrote the file goes on to look at it.
NotOwned(l) ==
    /\ life[l].pc = "release" /\ ~life[l].owned
    /\ AfterRelease(l)
    /\ UNCHANGED <<pidFile, record, strangers>>

ReleaseOwned(l) ==
    /\ life[l].pc = "release" /\ life[l].owned
    /\ EntersSection(l)
    /\ life' = [life EXCEPT ![l].pc = "check", ![l].owned = FALSE]
    /\ UNCHANGED <<handler, pidFile, listening, record, strangers>>

CheckPid(l) ==
    /\ life[l].pc = "check"
    /\ IF pidFile = life[l].pid
       THEN Proceeds(l, "remove") /\ UNCHANGED <<handler, section, listening>>
       ELSE AfterRelease(l)
    /\ UNCHANGED <<pidFile, record, strangers>>

RemovePid(l) ==
    /\ life[l].pc = "remove"
    /\ pidFile' = "absent"
    /\ AfterRelease(l)
    /\ UNCHANGED <<record, strangers>>

(***************************************************************************)
(* Hard deaths, and other programs.                                        *)
(***************************************************************************)

Killed(l) ==
    /\ "kill" \in InstanceFaults /\ l \in Alive
    /\ Over(l)
    /\ UNCHANGED <<pidFile, record, strangers>>

PidReused(pid) ==
    /\ "reuse" \in InstanceFaults /\ pid \notin DaemonPids \cup strangers
    /\ strangers' = strangers \cup {pid}
    /\ UNCHANGED <<life, handler, pidFile, section, listening, record>>

StrangerEnds(pid) ==
    /\ pid \in strangers
    /\ strangers' = strangers \ {pid}
    /\ UNCHANGED <<life, handler, pidFile, section, listening, record>>
----------------------------------------------------------------------------
INext ==
    \/ \E l \in Life :
          \/ \E pid \in Pid : Launch(l, pid)
          \/ AcquirePid(l) \/ Judge(l) \/ Truncate(l) \/ WritePid(l) \/ PidIoFails(l)
          \/ BindPort(l) \/ BootFails(l) \/ OpenPort(l)
          \/ UnlinkRecord(l) \/ RenameRecord(l)
          \/ SignalArrives(l) \/ HookPanics(l) \/ HandlerUnlinks(l) \/ HandlerRenames(l)
          \/ BeginDrain(l) \/ NotOwned(l) \/ ReleaseOwned(l) \/ CheckPid(l) \/ RemovePid(l)
          \/ Killed(l)
    \/ \E pid \in Pid : PidReused(pid) \/ StrangerEnds(pid)

ISpec == IInit /\ [][INext]_instance
----------------------------------------------------------------------------
\* Types.
ITypeOK ==
    /\ pidFile \in {"absent", "torn"} \cup Pid
    /\ section \in {"free"} \cup Life /\ listening \in {"none"} \cup Life
    /\ record.state \in {"absent", "running", "exited"}
    /\ strangers \subseteq Pid

\* The three rules of PidFile: where the lock works, the file of a daemon that
\* acquired it and has not begun to release it records that daemon, whatever
\* other starts, refused starts, hard deaths and reused PIDs do to it.  So a
\* live daemon is found by every later start, and two are never both owners.
OwnerOnFile ==
    Locking => \A l \in Alive : life[l].owned => pidFile = life[l].pid

\* exit_reason.rs: a start that the PID file or the port refuses never writes
\* or removes the record, even when a signal or a panic ends it while it
\* gives up.
LosersLeaveNoRecord ==
    record.by # "nobody" => life[record.by].claim # "refused"

\* Lives that may write beside the owner of the PID file: one whose own claim
\* ended in an I/O error, which serves on without the file, and one that gave
\* the file up in its shutdown and has its exit record still to write.
WritesUnclaimed(m) ==
    life[m].claim = "error" \/ (life[m].claim = "held" /\ ~life[m].owned)

\* exit_reason.rs: from its running marker to the first request to stop, the
\* record of the daemon on file says that this daemon runs, so that its hard
\* death is reported by the next start.  The two kinds of life named above are
\* all that can write over it.
OwnersRecordStands ==
    Locking =>
        \A l \in Life :
            (life[l].pc \in {"boot", "serving"} /\ life[l].owned /\ handler[l] = "idle") =>
                \/ record = [state |-> "running", by |-> l]
                \/ record.by \notin {"nobody", l} /\ WritesUnclaimed(record.by)

\* The living daemon is the one on file, and its record stands against every
\* other start.
InstanceSound == OwnerOnFile /\ LosersLeaveNoRecord /\ OwnersRecordStands

\* What exit_reason.rs says without exception: while a daemon serves and nothing
\* has asked it to stop, the record says that it runs.  The code breaks it on
\* both ways that WritesUnclaimed names; no run checks it.
LiveRecordStands ==
    \A l \in Life : (life[l].pc = "serving" /\ handler[l] = "idle") =>
                        record = [state |-> "running", by |-> l]
=============================================================================

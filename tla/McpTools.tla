------------------------------ MODULE McpTools ------------------------------
(***************************************************************************)
(* An MCP server over stdio: the requests in flight (StdioTransport in     *)
(* nanna-mcp/src/transport.rs), the client's cached tool list (client.rs)  *)
(* and the watcher that keeps the tool registry in step (adapter.rs).      *)
(*                                                                         *)
(* A tool list is its version.  Request ids are fresh; Id bounds how many  *)
(* there are.  The server is external: it answers what it has read in any  *)
(* order, announces each change of its list, and may die at any time.      *)
(* The third reader of the flag, list_tools, takes it in register alone,   *)
(* before the watcher starts: TInit is what comes after.                   *)
(***************************************************************************)
EXTENDS Naturals, Sequences, FiniteSets

CONSTANTS
    ToolCaller,   \* callers of call_tool
    IdMax,        \* bound: requests sent
    VersionMax,   \* bound: changes of the server's list
    LinkFaults    \* of "late" (a timeout before the answer), "die", "close"

Watcher == "watcher"
Requester == ToolCaller \cup {Watcher}
Id == 1..IdMax

ASSUME McpAssumption == IdMax \in Nat /\ VersionMax \in Nat /\ Watcher \notin ToolCaller

VARIABLES
    version,     \* the server's list
    alive,       \* the child process
    inbox,       \* requests the server has not answered: [id, method]
    stdout,      \* lines the reader has not read
    reading,     \* the reader task runs
    stdin,       \* the writer is open
    slots,     \* StdioTransport.pending
    nextId,      \* id_counter
    req,         \* each requester's call in progress
    dirty,       \* ListChangedFlags.tools
    permit,      \* ListChangedFlags.wake holds a permit
    cache,       \* McpClient.tools
    registry,    \* the server's entries in the ToolRegistry
    announced,   \* history: the newest version the reader has been told of
    failed       \* history: a resync has failed

mcp == <<version, alive, inbox, stdout, reading, stdin, slots, nextId, req,
         dirty, permit, cache, registry, announced, failed>>
link == <<version, alive, inbox, stdout, reading, stdin>>
lists == <<dirty, permit, cache, registry, announced, failed>>

\* method is that of the request in flight, retried that a mismatch has been
\* answered once, list the version a list answer carries.
NoReq == [at |-> "idle", id |-> 0, method |-> "none", retried |-> FALSE, list |-> 0]

\* initialize has fetched the list and the manager has registered it.
TInit ==
    /\ version = 0 /\ alive = TRUE
    /\ inbox = {} /\ stdout = <<>>
    /\ reading = TRUE /\ stdin = TRUE
    /\ slots = {} /\ nextId = 1
    /\ req = [c \in Requester |-> NoReq]
    /\ dirty = FALSE /\ permit = FALSE
    /\ cache = 0 /\ registry = 0
    /\ announced = 0 /\ failed = FALSE

Doing(c, place) == req[c].at = place
Sets(c, r) == req' = [req EXCEPT ![c] = r]

(***************************************************************************)
(* The server (external).                                                  *)
(***************************************************************************)

ServerChanges ==
    /\ alive /\ version < VersionMax
    /\ version' = version + 1
    /\ stdout' = Append(stdout, [kind |-> "changed", id |-> 0, ver |-> version + 1])
    /\ UNCHANGED <<alive, inbox, reading, stdin, slots, nextId, req, lists>>

\* A call may be answered with HEADER_MISMATCH.
ServerAnswers(q, kind) ==
    /\ alive /\ q \in inbox
    /\ kind = "mismatch" => q.method = "call"
    /\ inbox' = inbox \ {q}
    /\ stdout' = Append(stdout, [kind |-> kind, id |-> q.id, ver |-> version])
    /\ UNCHANGED <<version, alive, reading, stdin, slots, nextId, req, lists>>

ServerDies ==
    /\ alive
    /\ "die" \in LinkFaults \/ ~stdin
    /\ alive' = FALSE
    /\ inbox' = {}
    /\ UNCHANGED <<version, stdout, reading, stdin, slots, nextId, req, lists>>

(***************************************************************************)
(* The reader task: route_line.                                            *)
(***************************************************************************)

\* Mutant: an announcement is noted without waking the watcher.
MarkUnwoken == dirty' = TRUE /\ UNCHANGED permit

\* ListChangedFlags::mark.
Mark == dirty' = TRUE /\ permit' = TRUE

ReadNotification ==
    /\ reading /\ stdout # <<>> /\ Head(stdout).kind = "changed"
    /\ stdout' = Tail(stdout)
    /\ Mark
    /\ announced' = Head(stdout).ver
    /\ UNCHANGED <<version, alive, inbox, reading, stdin, slots, nextId, req,
                   cache, registry, failed>>

\* An answer completes the request whose slot it takes; without one it is dropped.
ReadResponse ==
    /\ reading /\ stdout # <<>> /\ Head(stdout).kind # "changed"
    /\ LET line == Head(stdout)
       IN  /\ slots' = slots \ {line.id}
           /\ req' = [c \in Requester |->
                        IF line.id \in slots /\ req[c].id = line.id
                        THEN [req[c] EXCEPT !.at = line.kind, !.list = line.ver]
                        ELSE req[c]]
    /\ stdout' = Tail(stdout)
    /\ UNCHANGED <<version, alive, inbox, reading, stdin, nextId, lists>>

\* End of the server's output, or close's signal: the slots stay.
ReaderEnds ==
    /\ reading
    /\ ~stdin \/ (~alive /\ stdout = <<>>)
    /\ reading' = FALSE
    /\ UNCHANGED <<version, alive, inbox, stdout, stdin, slots, nextId, req, lists>>

Close ==
    /\ "close" \in LinkFaults /\ stdin
    /\ stdin' = FALSE
    /\ UNCHANGED <<version, alive, inbox, stdout, reading, slots, nextId, req, lists>>

(***************************************************************************)
(* Transport::request.                                                     *)
(***************************************************************************)

\* The slot is registered under a fresh id, then the line is written.
Registers(c, method, retried) ==
    /\ nextId <= IdMax
    /\ slots' = slots \cup {nextId}
    /\ nextId' = nextId + 1
    /\ Sets(c, [at |-> "write", id |-> nextId, method |-> method, retried |-> retried, list |-> 0])

Writes(c) ==
    /\ Doing(c, "write")
    /\ stdin /\ alive
    /\ inbox' = inbox \cup {[id |-> req[c].id, method |-> req[c].method]}
    /\ Sets(c, [req[c] EXCEPT !.at = "wait"])
    /\ UNCHANGED <<version, alive, stdout, reading, stdin, slots, nextId, lists>>

SlotFreed(c) == slots \ {req[c].id}

WriteFails(c) ==
    /\ Doing(c, "write")
    /\ ~stdin \/ ~alive
    /\ slots' = SlotFreed(c)
    /\ Sets(c, [req[c] EXCEPT !.at = "error"])
    /\ UNCHANGED <<link, nextId, lists>>

\* The timer runs out; before the answer only if the server is late.
TimesOut(c) ==
    /\ Doing(c, "wait")
    /\ "late" \in LinkFaults \/ ~reading \/ ~alive
    /\ slots' = SlotFreed(c)
    /\ Sets(c, [req[c] EXCEPT !.at = "error"])
    /\ UNCHANGED <<link, nextId, lists>>

(***************************************************************************)
(* call_tool: a header mismatch re-lists and retries, once.                *)
(***************************************************************************)

CallTool(c) ==
    /\ Doing(c, "idle")
    /\ Registers(c, "call", FALSE)
    /\ UNCHANGED <<link, lists>>

Relists(c) ==
    /\ Doing(c, "mismatch") /\ ~req[c].retried
    /\ Registers(c, "list", TRUE)
    /\ UNCHANGED <<link, lists>>

RelistAnswered(c) ==
    /\ Doing(c, "ok") /\ req[c].method = "list"
    /\ cache' = req[c].list
    /\ Registers(c, "call", TRUE)
    /\ UNCHANGED <<link, dirty, permit, registry, announced, failed>>

\* request_with_input: an answer that asks the user for input is put to him,
\* and the call goes out again with what he said, under a new id.
AsksAgain(c) ==
    /\ Doing(c, "ok") /\ req[c].method = "call"
    /\ Registers(c, "call", req[c].retried)
    /\ UNCHANGED <<link, lists>>

CallEnds(c) ==
    /\ \/ Doing(c, "error")
       \/ Doing(c, "ok") /\ req[c].method = "call"
       \/ Doing(c, "mismatch") /\ req[c].retried
    /\ Sets(c, NoReq)
    /\ UNCHANGED <<link, slots, nextId, lists>>

(***************************************************************************)
(* watch_list_changes and resync_server.                                   *)
(***************************************************************************)

\* A wake; take() clears the flag before the list is asked for.
WatcherWakes ==
    /\ Doing(Watcher, "idle") /\ permit
    /\ permit' = FALSE
    /\ Sets(Watcher, [NoReq EXCEPT !.at = "woken"])
    /\ UNCHANGED <<link, slots, nextId, dirty, cache, registry, announced, failed>>

WatcherTakes ==
    /\ Doing(Watcher, "woken")
    /\ dirty' = FALSE
    /\ IF dirty THEN Registers(Watcher, "list", FALSE)
                ELSE Sets(Watcher, NoReq) /\ UNCHANGED <<slots, nextId>>
    /\ UNCHANGED <<link, permit, cache, registry, announced, failed>>

\* Mutant: the flag is cleared with the registry's entries.
FlagCleared == FALSE

FlagAfterResync == dirty

\* The cache, then the registry's entries; then a pause, and the next wake.
WatcherCaches ==
    /\ Doing(Watcher, "ok")
    /\ cache' = req[Watcher].list
    /\ Sets(Watcher, [req[Watcher] EXCEPT !.at = "registry"])
    /\ UNCHANGED <<link, slots, nextId, dirty, permit, registry, announced, failed>>

WatcherRegisters ==
    /\ Doing(Watcher, "registry")
    /\ registry' = req[Watcher].list
    /\ dirty' = FlagAfterResync
    /\ Sets(Watcher, NoReq)
    /\ UNCHANGED <<link, slots, nextId, permit, cache, announced, failed>>

\* A failed resync is logged.
WatcherFails ==
    /\ Doing(Watcher, "error")
    /\ failed' = TRUE
    /\ Sets(Watcher, NoReq)
    /\ UNCHANGED <<link, slots, nextId, dirty, permit, cache, registry, announced>>
----------------------------------------------------------------------------
RequestStep(c) == Writes(c) \/ WriteFails(c) \/ TimesOut(c)

CallerStep(c) ==
    CallTool(c) \/ Relists(c) \/ RelistAnswered(c) \/ AsksAgain(c) \/ CallEnds(c)

WatcherStep ==
    WatcherWakes \/ WatcherTakes \/ WatcherCaches \/ WatcherRegisters \/ WatcherFails

ReaderStep == ReadNotification \/ ReadResponse \/ ReaderEnds

ServerStep ==
    \/ ServerChanges \/ ServerDies
    \/ \E q \in inbox, kind \in {"ok", "mismatch"} : ServerAnswers(q, kind)

TNext ==
    \/ ServerStep \/ ReaderStep \/ Close \/ WatcherStep
    \/ \E c \in Requester : RequestStep(c)
    \/ \E c \in ToolCaller : CallerStep(c)

TSpec == TInit /\ [][TNext]_mcp

----------------------------------------------------------------------------
\* Types.
TTypeOK ==
    /\ slots \subseteq Id
    /\ nextId \in 1..IdMax + 1
    /\ cache \in 0..VersionMax /\ registry \in 0..VersionMax

InFlight(c) == req[c].at \in {"write", "wait"}

\* StdioTransport::request: however a request ends - answer, refused write,
\* timeout, a late answer to it, the death of the server - it leaves no slot
\* behind, and no request waits without one.
SlotsAreRequests == slots = {req[c].id : c \in {d \in Requester : InFlight(d)}}

Resyncing == req[Watcher].at \in {"woken", "write", "wait", "ok", "registry", "error"}

\* watch_list_changes: a registry behind what the server has announced is
\* on its way, by a wake with its flag set or a resync that has not ended,
\* unless a resync has failed.
AnnouncedIsOnItsWay ==
    registry < announced => (dirty /\ permit) \/ Resyncing \/ failed

\* No slot without its request, and no announced change without its resync.
McpSound == TTypeOK /\ SlotsAreRequests /\ AnnouncedIsOnItsWay

\* "Keep registry in step with every server's tool list": the same without
\* the exception.
RegistryInStep == registry < announced => (dirty /\ permit) \/ Resyncing
=============================================================================

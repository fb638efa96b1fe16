----------------------------- MODULE MCServices -----------------------------
(***************************************************************************)
(* The daemon's services for TLC, one at a time: `service` says which one  *)
(* runs, and the others stand idle.  They share no state, so one run       *)
(* checks each of them.                                                    *)
(***************************************************************************)
EXTENDS ChatTurns, Mission, StepLadder, WakeUps, Scheduler, McpTools,
        ChannelListener, TaskWalk, OutboundQueue, SingleInstance, SessionStore,
        DueCards

VARIABLE service

services == <<chat, mission, ladders, gates, scheduler, mcp, listener, walk,
              outbound, instance, sessionStore, cards, service>>

\* A mission that is over, runners between steps, gates nobody waits at, no
\* scheduled task, no session, a walk that has ended.  The other services are idle in
\* their initial states.
MissionIdle ==
    /\ at = "end" /\ board = [i \in Item |-> "new"] /\ evidence = FALSE
    /\ report = [stop |-> "done", fault |-> "none", unmet |-> {}, verified |-> {}]
    /\ budget = NoBudget /\ stopped = FALSE /\ ending = "none"
    /\ faults = 0 /\ quiet = 0

LadderIdle ==
    /\ onModel = First /\ wedge = [m \in Model |-> NoToken]
    /\ ladder = [r \in Runner |-> [NewStep EXCEPT !.pc = "done"]]
    /\ halted = FALSE /\ gaveUp = {}

WalkIdle ==
    /\ succ = [n \in Node |-> {}] /\ start = {} /\ targets = {}
    /\ queue = {} /\ visited = {} /\ verdict = "ok"

GatesIdle ==
    /\ liveRuns = {} /\ flag = FALSE /\ owed = 0 /\ tokenOwed = FALSE
    /\ waiterAt = [w \in Waiter |-> "returned"] /\ woken = {}

SchedulerIdle ==
    /\ tasks = [j \in Job |-> Absent] /\ rows = [j \in Job |-> "none"]
    /\ elapsed = {} /\ tick = {} /\ beating = FALSE /\ claims = {}
    /\ jobRun = [r \in RunSlot |-> NoRun] /\ call = NoCall
    /\ settled = {} /\ delivered = {}

StoreIdle ==
    /\ held = <<>> /\ onDisk = <<>> /\ defaultId = Null /\ known = {}
    /\ heldMsgs = [x \in SessId |-> <<>>] /\ onDiskMsgs = heldMsgs
    /\ request = [c \in SessClient |-> NoRequest] /\ picked = [x \in SessId |-> Null]
    /\ overlapped = {} /\ rewritten = {} /\ asked = 0 /\ restarts = 0

ServicesInit ==
    /\ service \in {"chat", "mission", "ladder", "gates", "scheduler", "mcp",
                   "listener", "walk", "outbound", "instance", "sessions", "cards"}
    /\ CInit /\ TInit /\ LisInit /\ QInit /\ IInit /\ DInit
    /\ IF service = "mission" THEN MInit ELSE MissionIdle
    /\ IF service = "ladder" THEN LInit ELSE LadderIdle
    /\ IF service = "walk" THEN WInit ELSE WalkIdle
    /\ IF service = "gates" THEN GInit ELSE GatesIdle
    /\ IF service = "scheduler" THEN SInit ELSE SchedulerIdle
    /\ IF service = "sessions" THEN StInit ELSE StoreIdle

ServicesNext ==
    \/ /\ service = "chat" /\ CNext
       /\ UNCHANGED <<mission, ladders, gates, scheduler, mcp,
                      listener, walk, outbound, instance, sessionStore,
                      cards, service>>
    \/ /\ service = "mission" /\ MNext
       /\ UNCHANGED <<chat, ladders, gates, scheduler, mcp,
                      listener, walk, outbound, instance, sessionStore,
                      cards, service>>
    \/ /\ service = "ladder" /\ LNext
       /\ UNCHANGED <<chat, mission, gates, scheduler, mcp,
                      listener, walk, outbound, instance, sessionStore,
                      cards, service>>
    \/ /\ service = "gates" /\ GNext
       /\ UNCHANGED <<chat, mission, ladders, scheduler, mcp,
                      listener, walk, outbound, instance, sessionStore,
                      cards, service>>
    \/ /\ service = "scheduler" /\ SNext
       /\ UNCHANGED <<chat, mission, ladders, gates, mcp,
                      listener, walk, outbound, instance, sessionStore,
                      cards, service>>
    \/ /\ service = "mcp" /\ TNext
       /\ UNCHANGED <<chat, mission, ladders, gates, scheduler,
                      listener, walk, outbound, instance, sessionStore,
                      cards, service>>
    \/ /\ service = "listener" /\ LisNext
       /\ UNCHANGED <<chat, mission, ladders, gates, scheduler,
                      mcp, walk, outbound, instance, sessionStore,
                      cards, service>>
    \/ /\ service = "walk" /\ WNext
       /\ UNCHANGED <<chat, mission, ladders, gates, scheduler,
                      mcp, listener, outbound, instance, sessionStore, cards, service>>
    \/ /\ service = "outbound" /\ QNext
       /\ UNCHANGED <<chat, mission, ladders, gates, scheduler,
                      mcp, listener, walk, instance, sessionStore, cards, service>>
    \/ /\ service = "instance" /\ INext
       /\ UNCHANGED <<chat, mission, ladders, gates, scheduler,
                      mcp, listener, walk, outbound, sessionStore, cards, service>>
    \/ /\ service = "sessions" /\ StNext
       /\ UNCHANGED <<chat, mission, ladders, gates, scheduler,
                      mcp, listener, walk, outbound, instance, cards, service>>
    \/ /\ service = "cards" /\ DNext
       /\ UNCHANGED <<chat, mission, ladders, gates, scheduler,
                      mcp, listener, walk, outbound, instance, sessionStore, service>>

ServicesSafety == ServicesInit /\ [][ServicesNext]_services

\* The fairness of each module, for the service that runs.
ServicesFairness ==
    /\ WF_chat(service = "chat" /\ \E m \in Msg : Handler(m))
    /\ WF_chat(service = "chat" /\ \E t \in Turn : Opening(t) \/ Running(t) \/ Closing(t))
    /\ SF_chat(service = "chat" /\ \E t \in Turn : RunEnds(t))
    /\ SF_chat(service = "chat" /\ \E t \in Turn : MissionReturns(t) \/ Park(t))
    /\ WF_chat(service = "chat" /\ \E w \in Turn : Waiting(w))
    /\ WF_mission(service = "mission" /\ LoopStep)
    /\ \A r \in Runner : WF_ladders(service = "ladder" /\ LadderStep(r))
    /\ WF_walk(service = "walk" /\ WNext)
    /\ SF_scheduler(service = "scheduler" /\ Tick)
    /\ WF_scheduler(service = "scheduler" /\ HeartbeatReturns)
    /\ \A j \in Job : WF_scheduler(service = "scheduler" /\ Consider(j))
    /\ \A r \in RunSlot : WF_scheduler(service = "scheduler" /\ RunStep(r))
    /\ \A p \in Processor : /\ WF_outbound(service = "outbound" /\ Process(p))
                            /\ SF_outbound(service = "outbound" /\ Working(p))
    /\ WF_outbound(service = "outbound" /\ Time)
    /\ WF_outbound(service = "outbound" /\ EnqueueEvent)
    /\ WF_outbound(service = "outbound" /\ Consume)

ServicesSpec == ServicesSafety /\ ServicesFairness
=============================================================================

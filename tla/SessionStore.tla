---------------------------- MODULE SessionStore ----------------------------
(***************************************************************************)
(* The sessions of the daemon (nanna-daemon session.rs): a map in memory   *)
(* with write-through to the database.  Every request is a task of its     *)
(* own.  rename, set_workspace, clear, delete and add_message write the    *)
(* database while they hold the map; set_chat_model, set_chat_tools,       *)
(* ensure_channel_session, create and update carry a row across an await   *)
(* with the map unlocked, so another request may come between.  A request  *)
(* is the row it carries and the stages it still has to do.                *)
(***************************************************************************)
EXTENDS Naturals, Sequences, FiniteSets, Functions, SequencesExt

CONSTANTS
    SessId,       \* session ids
    Channel,      \* the id a channel's conversation maps to, in SessId
    Title,        \* names of sessions
    Place,        \* workspaces
    Pin,          \* chat models a user may pick
    ReplyTo,      \* chats a channel's replies may go to
    SessClient,   \* clients, one request at a time each
    AskMax,       \* bound: requests made
    MsgMax,       \* bound: messages of a session
    RestartMax,   \* bound: restarts of the daemon
    Null          \* NULL, None, an absent key

ASSUME SessionAssumption ==
    /\ Channel \in SessId /\ Null \notin SessId \cup Title \cup Place \cup Pin \cup ReplyTo
    /\ {AskMax, MsgMax, RestartMax} \subseteq Nat

VARIABLES
    held,         \* SessionManager.sessions: the row of each session
    heldMsgs,     \* and its messages, by role
    onDisk,       \* the sessions table
    onDiskMsgs,   \* the messages table
    defaultId,    \* SessionManager.default_session
    request,      \* what each client's request carries and has still to do
    picked,       \* history: the last model picked for each session
    overlapped,   \* history: sessions changed by one request during another
    rewritten,    \* history: sessions whose messages update() has replaced
    known,        \* history: ids in use so far
    asked, restarts

sessionStore == <<held, heldMsgs, onDisk, onDiskMsgs, defaultId, request, picked,
                  overlapped, rewritten, known, asked, restarts>>

Role == {"user", "assistant"}
SessRow == [title : Title \cup {Null}, place : Place \cup {Null}, pin : Pin \cup {Null},
            tools : BOOLEAN, route : ReplyTo \cup {Null}]
NewRow(t, p) == [title |-> t, place |-> p, pin |-> Null, tools |-> FALSE, route |-> Null]

NoRequest == [todo |-> <<>>, id |-> Null, row |-> NewRow(Null, Null), msgs |-> <<>>]
Carries(s, r, m, todo) == [todo |-> todo, id |-> s, row |-> r, msgs |-> m]

StTypeOK ==
    /\ DOMAIN held \subseteq SessId /\ \A s \in DOMAIN held : held[s] \in SessRow
    /\ DOMAIN onDisk \subseteq SessId /\ \A s \in DOMAIN onDisk : onDisk[s] \in SessRow
    /\ \A s \in SessId : heldMsgs[s] \in Seq(Role) /\ onDiskMsgs[s] \in Seq(Role)
    /\ defaultId \in SessId \cup {Null}
    /\ \A c \in SessClient :
         /\ request[c].todo \in Seq({"persist", "insert", "update", "send"})
         /\ request[c].id \in SessId \cup {Null} /\ request[c].row \in SessRow
    /\ picked \in [SessId -> Pin \cup {Null}]
    /\ known \in SUBSET SessId /\ overlapped \in SUBSET SessId /\ rewritten \in SUBSET SessId
    /\ asked \in 0..AskMax /\ restarts \in 0..RestartMax

\* A daemon that found nothing to load has created its session.
StInit ==
    \E s \in SessId \ {Channel}, t \in Title :
        /\ held = [x \in {s} |-> NewRow(t, Null)] /\ onDisk = held
        /\ heldMsgs = [x \in SessId |-> <<>>] /\ onDiskMsgs = heldMsgs
        /\ defaultId = s /\ known = {s}
        /\ request = [c \in SessClient |-> NoRequest]
        /\ picked = [x \in SessId |-> Null]
        /\ overlapped = {} /\ rewritten = {} /\ asked = 0 /\ restarts = 0
-----------------------------------------------------------------------------
(* What the requests are made of.                                          *)

\* A map or a table with the row of one session put into it.
With(f, s, r) == [x \in (DOMAIN f) \cup {s} |-> IF x = s THEN r ELSE f[x]]

\* ON CONFLICT DO UPDATE: a NULL name or workspace keeps the column; the
\* metadata always travels.
Upsert(s, r) ==
    LET kept(old) == [r EXCEPT !.title = IF @ = Null THEN old.title ELSE @,
                               !.place = IF @ = Null THEN old.place ELSE @]
    IN  With(onDisk, s, IF s \in DOMAIN onDisk THEN kept(onDisk[s]) ELSE r)

\* update(): the live pin wins over that of the caller's copy.
SnapshotWins(r, s) == r
Reconciled(r, s) == IF s \in DOMAIN held THEN [r EXCEPT !.pin = held[s].pin] ELSE r

\* take_last_user_turn: everything before the last message of the user.
BeforeLastTurn(m) ==
    LET users == {i \in 1..Len(m) : m[i] = "user"}
    IN  SubSeq(m, 1, Max(users) - 1)

InFlightOn(d, s) == request[d].todo # <<>> /\ request[d].id = s

Touches(c, S) ==
    overlapped' = overlapped \cup {s \in S : \E d \in SessClient \ {c} : InFlightOn(d, s)}

Asks(c) ==
    /\ request[c].todo = <<>> /\ asked < AskMax
    /\ asked' = asked + 1 /\ UNCHANGED restarts

\* A request that is done when it lets go of the map.
AtOnce(c, s) == Asks(c) /\ Touches(c, {s}) /\ UNCHANGED <<request, known>>

\* A request that changes a row of the map and carries it to the database.
CarriesRow(c, s, r) ==
    /\ Asks(c) /\ Touches(c, {s})
    /\ held' = With(held, s, r)
    /\ request' = [request EXCEPT ![c] = Carries(s, r, <<>>, <<"persist">>)]
    /\ UNCHANGED <<heldMsgs, onDisk, onDiskMsgs, defaultId, rewritten>>

\* A request that has read, and has yet to write.
Reads(c, q) ==
    /\ Asks(c) /\ request' = [request EXCEPT ![c] = q]
    /\ UNCHANGED <<held, heldMsgs, onDisk, onDiskMsgs, defaultId, picked, overlapped,
                   rewritten>>

NextStage(c, r) ==
    LET q == request[c] IN
    request' = [request EXCEPT ![c] =
        IF Len(q.todo) = 1 THEN NoRequest ELSE Carries(q.id, r, q.msgs, Tail(q.todo))]
Due(c, stage) == request[c].todo # <<>> /\ Head(request[c].todo) = stage
-----------------------------------------------------------------------------
(* Requests that hold the map until they are done.                         *)

Rename(c, s, t) ==
    /\ s \in DOMAIN held
    /\ held' = [held EXCEPT ![s].title = t]
    /\ onDisk' = IF s \in DOMAIN onDisk THEN [onDisk EXCEPT ![s].title = t] ELSE onDisk
    /\ AtOnce(c, s) /\ UNCHANGED <<heldMsgs, onDiskMsgs, defaultId, picked, rewritten>>

SetWorkspace(c, s, p) ==
    /\ s \in DOMAIN held
    /\ held' = [held EXCEPT ![s].place = p]
    /\ onDisk' = IF s \in DOMAIN onDisk THEN [onDisk EXCEPT ![s].place = p] ELSE onDisk
    /\ AtOnce(c, s) /\ UNCHANGED <<heldMsgs, onDiskMsgs, defaultId, picked, rewritten>>

ClearMessages(c, s) ==
    /\ s \in DOMAIN held
    /\ heldMsgs' = [heldMsgs EXCEPT ![s] = <<>>]
    /\ onDiskMsgs' = [onDiskMsgs EXCEPT ![s] = <<>>]
    /\ rewritten' = rewritten \ {s}
    /\ AtOnce(c, s) /\ UNCHANGED <<held, onDisk, defaultId, picked>>

AddMessage(c, s, role) ==
    /\ s \in DOMAIN held /\ Len(heldMsgs[s]) < MsgMax
    /\ heldMsgs' = [heldMsgs EXCEPT ![s] = Append(@, role)]
    /\ onDiskMsgs' = [onDiskMsgs EXCEPT ![s] = Append(@, role)]
    /\ AtOnce(c, s) /\ UNCHANGED <<held, onDisk, defaultId, picked, rewritten>>

\* delete() of one session and delete_all(): map, database and default as one.
Gone(c, S) ==
    /\ held' = Restrict(held, DOMAIN held \ S) /\ onDisk' = Restrict(onDisk, DOMAIN onDisk \ S)
    /\ heldMsgs' = [s \in SessId |-> IF s \in S THEN <<>> ELSE heldMsgs[s]]
    /\ onDiskMsgs' = [s \in SessId |-> IF s \in S THEN <<>> ELSE onDiskMsgs[s]]
    /\ picked' = [s \in SessId |-> IF s \in S THEN Null ELSE picked[s]]
    /\ rewritten' = rewritten \ S
    /\ Asks(c) /\ Touches(c, S) /\ UNCHANGED <<request, known>>

DeleteSession(c, s) ==
    /\ s \in DOMAIN held /\ Gone(c, {s})
    /\ IF defaultId # s THEN UNCHANGED defaultId
       ELSE IF DOMAIN held' = {} THEN defaultId' = Null ELSE defaultId' \in DOMAIN held'

DeleteAll(c) == held # <<>> /\ Gone(c, DOMAIN held) /\ defaultId' = Null
-----------------------------------------------------------------------------
(* Requests that carry a row across an await.                              *)

SetChatModel(c, s, p) ==
    /\ s \in DOMAIN held
    /\ CarriesRow(c, s, [held[s] EXCEPT !.pin = p])
    /\ picked' = [picked EXCEPT ![s] = p] /\ UNCHANGED known

SetChatTools(c, s, on) ==
    /\ s \in DOMAIN held
    /\ CarriesRow(c, s, [held[s] EXCEPT !.tools = on]) /\ UNCHANGED <<picked, known>>

\* A channel's message makes sure of its session and of where its replies go.
EnsureChannelSession(c, t, route) ==
    /\ Channel \notin DOMAIN held
    /\ CarriesRow(c, Channel, [NewRow(t, Null) EXCEPT !.route = route])
    /\ picked' = [picked EXCEPT ![Channel] = Null] /\ known' = known \cup {Channel}

\* One that exists has its route changed; nothing is done when it has it.
RerouteChannel(c, route) ==
    /\ Channel \in DOMAIN held /\ held[Channel].route # route
    /\ CarriesRow(c, Channel, [held[Channel] EXCEPT !.route = route])
    /\ UNCHANGED <<picked, known>>

FreshId == SessId \ (known \cup {Channel})

CreateSession(c, t, p) ==
    \E s \in FreshId :
        /\ Reads(c, Carries(s, NewRow(t, p), <<>>, <<"persist", "insert">>))
        /\ known' = known \cup {s}

\* fork_session: read, create under the name given or that of a copy, then
\* update with the messages read.
Fork(c, s) ==
    /\ s \in DOMAIN held
    /\ \E n \in FreshId, t \in Title \cup ({held[s].title} \cap {Null}) :
        /\ Reads(c, Carries(n, NewRow(t, Null), heldMsgs[s],
                            <<"persist", "insert", "update", "persist">>))
        /\ known' = known \cup {n}

\* ChatAction::Regenerate: read, cut the copy, update, and send again.
Regenerate(c, s) ==
    /\ s \in DOMAIN held /\ Contains(heldMsgs[s], "user")
    /\ Reads(c, Carries(s, held[s], BeforeLastTurn(heldMsgs[s]),
                        <<"update", "persist", "send">>))
    /\ UNCHANGED known

\* persist_row, with the map unlocked.
Persist(c) ==
    /\ Due(c, "persist")
    /\ onDisk' = Upsert(request[c].id, request[c].row)
    /\ NextStage(c, request[c].row) /\ Touches(c, {request[c].id})
    /\ UNCHANGED <<held, heldMsgs, onDiskMsgs, defaultId, picked, rewritten, known, asked,
                   restarts>>

\* The second half of create_in_workspace.
InsertSession(c) ==
    LET s == request[c].id IN
    /\ Due(c, "insert")
    /\ held' = With(held, s, request[c].row)
    /\ defaultId' = IF defaultId = Null THEN s ELSE defaultId
    /\ picked' = [picked EXCEPT ![s] = Null]
    /\ NextStage(c, request[c].row) /\ Touches(c, {s})
    /\ UNCHANGED <<heldMsgs, onDisk, onDiskMsgs, rewritten, known, asked, restarts>>

UpdateSession(c) ==
    LET s == request[c].id
        r == Reconciled(request[c].row, s) IN
    /\ Due(c, "update")
    /\ held' = With(held, s, r)
    /\ heldMsgs' = [heldMsgs EXCEPT ![s] = request[c].msgs]
    /\ rewritten' = IF heldMsgs[s] = request[c].msgs THEN rewritten ELSE rewritten \cup {s}
    /\ picked' = IF s \in DOMAIN held THEN picked ELSE [picked EXCEPT ![s] = r.pin]
    /\ NextStage(c, r) /\ Touches(c, {s})
    /\ UNCHANGED <<onDisk, onDiskMsgs, defaultId, known, asked, restarts>>

\* The message sent again; a session deleted meanwhile refuses it.
SendAgain(c) ==
    LET s == request[c].id
        grown(m) == IF s \in DOMAIN held THEN [m EXCEPT ![s] = Append(@, "user")] ELSE m IN
    /\ Due(c, "send")
    /\ heldMsgs' = grown(heldMsgs) /\ onDiskMsgs' = grown(onDiskMsgs)
    /\ NextStage(c, request[c].row) /\ Touches(c, {s})
    /\ UNCHANGED <<held, onDisk, defaultId, picked, rewritten, known, asked, restarts>>
-----------------------------------------------------------------------------
\* The daemon dies and load_sessions reads the tables; with nothing to load
\* it creates a session.  What was loaded is in step with the disk again.
RestartDaemon ==
    /\ restarts < RestartMax /\ restarts' = restarts + 1
    /\ request' = [c \in SessClient |-> NoRequest]
    /\ overlapped' = overlapped \ DOMAIN onDisk /\ rewritten' = {}
    /\ \/ /\ DOMAIN onDisk # {}
          /\ held' = onDisk /\ defaultId' \in DOMAIN onDisk
          /\ heldMsgs' = [s \in SessId |-> IF s \in DOMAIN onDisk THEN onDiskMsgs[s] ELSE <<>>]
          /\ picked' = [s \in SessId |-> IF s \in DOMAIN onDisk THEN onDisk[s].pin ELSE Null]
          /\ UNCHANGED <<onDisk, known>>
       \/ /\ DOMAIN onDisk = {}
          /\ \E s \in FreshId, t \in Title :
               held' = [x \in {s} |-> NewRow(t, Null)] /\ defaultId' = s /\ known' = known \cup {s}
          /\ onDisk' = held'
          /\ heldMsgs' = [s \in SessId |-> <<>>] /\ picked' = [s \in SessId |-> Null]
    /\ UNCHANGED <<onDiskMsgs, asked>>

StNext ==
    \/ \E c \in SessClient :
         \/ \E s \in SessId :
              \/ \E t \in Title : Rename(c, s, t)
              \/ \E p \in Place \cup {Null} : SetWorkspace(c, s, p)
              \/ ClearMessages(c, s) \/ \E role \in Role : AddMessage(c, s, role)
              \/ DeleteSession(c, s)
              \/ \E p \in Pin \cup {Null} : SetChatModel(c, s, p)
              \/ \E on \in BOOLEAN : SetChatTools(c, s, on)
              \/ Fork(c, s) \/ Regenerate(c, s)
         \/ DeleteAll(c)
         \/ \E route \in ReplyTo : \/ \E t \in Title : EnsureChannelSession(c, t, route)
                                 \/ RerouteChannel(c, route)
         \/ \E t \in Title \cup {Null}, p \in Place \cup {Null} : CreateSession(c, t, p)
         \/ Persist(c) \/ InsertSession(c) \/ UpdateSession(c) \/ SendAgain(c)
    \/ RestartDaemon

StSpec == StInit /\ [][StNext]_sessionStore
-----------------------------------------------------------------------------
(* Properties.                                                             *)

Quiet(s) == \A c \in SessClient : ~InFlightOn(c, s)

\* "Manages all sessions with write-through": a session is in memory exactly
\* if it is on disk, with the same row and the same messages, whenever no
\* request on it is under way and none has met another.  The messages that
\* update() replaces are the exception: it writes the row alone.
WrittenThrough ==
    \A s \in SessId \ overlapped : Quiet(s) =>
        /\ s \in DOMAIN held <=> s \in DOMAIN onDisk
        /\ s \in DOMAIN held => held[s] = onDisk[s]
        /\ s \notin rewritten => heldMsgs[s] = onDiskMsgs[s]

\* update() is pin-neutral: whatever copies other requests write back, a
\* session runs on the model picked last.
PinIsLastPick == \A s \in DOMAIN held : held[s].pin = picked[s]

\* The default names a session that exists.
DefaultIsHeld == defaultId # Null => defaultId \in DOMAIN held

\* What the session store keeps, under every interleaving of requests: types,
\* rows on disk, the picked model, and a default that exists.
SessionsSound == StTypeOK /\ WrittenThrough /\ PinIsLastPick /\ DefaultIsHeld
=============================================================================

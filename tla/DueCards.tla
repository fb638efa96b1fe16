------------------------------ MODULE DueCards ------------------------------
(***************************************************************************)
(* The task_recurrence_sweep of the daemon: it reopens recurring tasks     *)
(* whose next occurrence has come (sweep_recurrences), then announces the  *)
(* cards that have fallen due or are overdue (announce_due), while a       *)
(* caller edits, completes and reopens cards and the daemon may die.       *)
(*                                                                         *)
(* Each action is one critical section of the store's connection, or an    *)
(* event published.  A day is a number, and a date not set lies after      *)
(* every day.  Cron arithmetic is abstracted to `came`: the occurrence     *)
(* after completed_at has come.  The fields that no sweep reads are left   *)
(* out, and so are parents, whose rules are in TaskBoard.                  *)
(***************************************************************************)
EXTENDS Naturals, Sequences

CONSTANTS
    Card,          \* tasks
    Recurring,     \* those with a recurrence
    DayMax,        \* bound: the last day
    Sweeper,       \* runs of the sweep that may exist at a time
    EditMax        \* bound: calls of the user's tools

ASSUME CardAssumption ==
    Recurring \subseteq Card /\ {DayMax, EditMax} \subseteq Nat

VARIABLES
    card,        \* the rows
    today,
    sweep,       \* each run of the sweep
    edit,        \* the row a caller has read and is about to write
    edits,       \* calls so far
    told,        \* history: announcements of a crossing since it was last armed
    unsaid,        \* history: crossings marked and not yet published
    mute,        \* history: crossings whose event a death of the daemon has lost
    raced,       \* history: cards written by one task between another's read and write
    touched      \* history: cards the caller has written since each sweep began

cards == <<card, today, sweep, edit, edits, told, unsaid, mute, raced, touched>>

Kind == {"due", "overdue"}
Crossing == Card \X Kind
Never == DayMax + 1
NoEdit == [op |-> "none"]
AtRest == [pc |-> "rest", back |-> {}, crossed |-> [c \in Card |-> {}], steps |-> <<>>, day |-> 0]

IsClosed(r) == r.status \in {"done", "cancelled"}

\* day_of: due on the day, overdue from the day after.
Crossed(r, k, day) == IF k = "due" THEN r.date[k] <= day ELSE r.date[k] < day

DInit ==
    /\ card = [c \in Card |-> [status |-> "open", date |-> [k \in Kind |-> Never],
                               mark |-> [k \in Kind |-> FALSE], came |-> FALSE]]
    /\ today = 0
    /\ sweep = [w \in Sweeper |-> AtRest] /\ touched = [w \in Sweeper |-> {}]
    /\ edit = NoEdit /\ edits = 0
    /\ told = [x \in Crossing |-> 0] /\ unsaid = {} /\ mute = {} /\ raced = {}
-----------------------------------------------------------------------------
\* Time: a day passes, a recurrence comes round.
DayPasses ==
    /\ today < DayMax /\ today' = today + 1
    /\ UNCHANGED <<card, sweep, edit, edits, told, unsaid, mute, raced, touched>>

OccurrenceComes(c) ==
    /\ c \in Recurring /\ card[c].status = "done" /\ ~card[c].came
    /\ card' = [card EXCEPT ![c].came = TRUE]
    /\ UNCHANGED <<today, sweep, edit, edits, told, unsaid, mute, raced, touched>>

\* Bookkeeping for the properties.  A sweep holds a card it has read as
\* crossed; an edit holds the card it has read.
HeldBySweep(c) == \E w \in Sweeper : \/ sweep[w].crossed[c] # {}
                                     \/ \E i \in DOMAIN sweep[w].steps : sweep[w].steps[i][1] = c
HeldByEdit(c) == edit # NoEdit /\ edit.card = c
Armed(X) ==
    /\ told' = [x \in Crossing |-> IF x \in X THEN 0 ELSE told[x]]
    /\ unsaid' = unsaid \ X /\ mute' = mute \ X
-----------------------------------------------------------------------------
(* The caller: update, complete and reopen of the store.                   *)

\* apply_patch: a date that moves clears its marker; a status patch leaves
\* both markers alone.
MoveDate(r, k, d) == [r EXCEPT !.date[k] = d,
                               !.mark[k] = IF r.date[k] # d THEN FALSE ELSE @]
Patches(r) ==
    {r} \cup {MoveDate(r, k, d) : k \in Kind, d \in 1..Never}
        \cup {[r EXCEPT !.status = s, !.came = FALSE] : s \in {"open", "cancelled"}}

\* validate_dates.
DatesValid(r) == r.date["due"] # Never => r.date["due"] <= r.date["overdue"]

CallerReads(op, c, r) ==
    /\ edit = NoEdit /\ edits < EditMax
    /\ edits' = edits + 1
    /\ edit' = [op |-> op, card |-> c, row |-> r, arms |-> {k \in Kind : r.date[k] # card[c].date[k]}]
    /\ UNCHANGED <<card, today, sweep, told, unsaid, mute, raced, touched>>

UpdateReads(c) == \E r \in Patches(card[c]) : DatesValid(r) /\ CallerReads("update", c, r)
ReopenReads(c) == IsClosed(card[c]) /\ CallerReads("reopen", c, card[c])

CallerWrites(c) ==
    /\ touched' = [w \in Sweeper |-> touched[w] \cup {c}]
    /\ raced' = IF HeldBySweep(c) THEN raced \cup {c} ELSE raced

UpdateWrites ==
    /\ edit.op = "update"
    /\ card' = [card EXCEPT ![edit.card] = edit.row]
    /\ CallerWrites(edit.card)
    /\ Armed({edit.card} \X edit.arms)
    /\ edit' = NoEdit
    /\ UNCHANGED <<today, sweep, edits>>

\* complete: mark_done_with, whatever the row has become.
Complete(c) ==
    /\ edit = NoEdit /\ edits < EditMax /\ edits' = edits + 1
    /\ card[c].status # "done"
    /\ card' = [card EXCEPT ![c].status = "done", ![c].came = FALSE]
    /\ CallerWrites(c)
    /\ UNCHANGED <<today, sweep, edit, told, unsaid, mute>>

Reopened(c) == [card[c] EXCEPT !.status = "open", !.mark = [k \in Kind |-> FALSE],
                               !.came = FALSE]

ReopenWrites ==
    /\ edit.op = "reopen"
    /\ card' = [card EXCEPT ![edit.card] = Reopened(edit.card)]
    /\ CallerWrites(edit.card)
    /\ Armed({edit.card} \X Kind)
    /\ edit' = NoEdit
    /\ UNCHANGED <<today, sweep, edits>>
-----------------------------------------------------------------------------
(* The sweep.  recur: reopen what came back; list; announce.               *)

Sweeps(w, s) == sweep' = [sweep EXCEPT ![w] = s]

CameBack == {c \in Recurring : card[c].status = "done" /\ card[c].came}

\* A list that cannot be read counts as empty.
BeginSweep(w) ==
    /\ sweep[w].pc = "rest"
    /\ \E back \in {CameBack, {}} : Sweeps(w, [AtRest EXCEPT !.pc = "recur", !.back = back])
    /\ touched' = [touched EXCEPT ![w] = {}]
    /\ UNCHANGED <<card, today, edit, edits, told, unsaid, mute, raced>>

\* reopen reads the row again and leaves an open one alone.
RecurReads(w, c) ==
    /\ sweep[w].pc = "recur" /\ sweep[w].steps = <<>> /\ c \in sweep[w].back
    /\ Sweeps(w, [sweep[w] EXCEPT !.back = @ \ {c},
                  !.steps = IF IsClosed(card[c]) THEN <<<<c, "reopen">>>> ELSE <<>>])
    /\ UNCHANGED <<card, today, edit, edits, told, unsaid, mute, raced, touched>>

RecurWrites(w) ==
    /\ sweep[w].pc = "recur" /\ sweep[w].steps # <<>>
    /\ LET c == sweep[w].steps[1][1] IN
         /\ card' = [card EXCEPT ![c] = Reopened(c)]
         /\ raced' = IF HeldByEdit(c) \/ c \in touched[w] THEN raced \cup {c} ELSE raced
         /\ Armed({c} \X Kind)
    /\ Sweeps(w, [sweep[w] EXCEPT !.steps = <<>>])
    /\ UNCHANGED <<today, edit, edits, touched>>

\* A card that cannot be reopened is left to the next sweep.
RecurFails(w) ==
    /\ sweep[w].pc = "recur" /\ sweep[w].steps # <<>>
    /\ Sweeps(w, [sweep[w] EXCEPT !.steps = <<>>])
    /\ UNCHANGED <<card, today, edit, edits, told, unsaid, mute, raced, touched>>

RecurEnds(w) == sweep[w].pc = "recur" /\ sweep[w].steps = <<>> /\ sweep[w].back = {}

\* announce_due takes the time, then list_time_announcable reads open cards
\* with a crossing that has no marker.
ListCrossed(w) ==
    /\ RecurEnds(w)
    /\ Sweeps(w, [sweep[w] EXCEPT !.pc = "announce", !.day = today,
                  !.crossed = [c \in Card |-> {k \in Kind :
                      ~IsClosed(card[c]) /\ ~card[c].mark[k] /\ Crossed(card[c], k, today)}]])
    /\ UNCHANGED <<card, today, edit, edits, told, unsaid, mute, raced, touched>>

\* Mutant: the event is published before its marker is written.
EmitThenMark(c, k) == <<<<c, k, "emit">>, <<c, k, "mark">>>>

\* For each crossing the marker is written before the event is published.
MarkThenEmit(c, k) == <<<<c, k, "mark">>, <<c, k, "emit">>>>

TakeCard(w, c) ==
    /\ sweep[w].pc = "announce" /\ sweep[w].steps = <<>> /\ sweep[w].crossed[c] # {}
    /\ LET of(k) == IF k \in sweep[w].crossed[c] THEN MarkThenEmit(c, k) ELSE <<>> IN
       Sweeps(w, [sweep[w] EXCEPT !.crossed[c] = {}, !.steps = of("due") \o of("overdue")])
    /\ UNCHANGED <<card, today, edit, edits, told, unsaid, mute, raced, touched>>

Announcing(w, what) ==
    sweep[w].pc = "announce" /\ sweep[w].steps # <<>> /\ sweep[w].steps[1][3] = what
Done(w) == [sweep[w] EXCEPT !.steps = Tail(@)]

MarkAnnounced(w) ==
    /\ Announcing(w, "mark")
    /\ LET c == sweep[w].steps[1][1]
           k == sweep[w].steps[1][2] IN
         /\ card' = [card EXCEPT ![c].mark[k] = TRUE]
         /\ raced' = IF HeldByEdit(c) THEN raced \cup {c} ELSE raced
         /\ unsaid' = unsaid \cup {<<c, k>>}
    /\ Sweeps(w, Done(w))
    /\ UNCHANGED <<today, edit, edits, told, mute, touched>>

\* A list that cannot be read, or a marker that cannot be written, ends the sweep.
AnnounceFails(w) ==
    /\ RecurEnds(w) \/ Announcing(w, "mark")
    /\ Sweeps(w, AtRest)
    /\ UNCHANGED <<card, today, edit, edits, told, unsaid, mute, raced, touched>>

Emit(w) ==
    /\ Announcing(w, "emit")
    /\ LET x == <<sweep[w].steps[1][1], sweep[w].steps[1][2]>> IN
         /\ told' = [told EXCEPT ![x] = IF @ < 2 THEN @ + 1 ELSE @]
         /\ unsaid' = unsaid \ {x}
    /\ Sweeps(w, Done(w))
    /\ UNCHANGED <<card, today, edit, edits, mute, raced, touched>>

SweepDone(w) ==
    sweep[w].pc = "announce" /\ sweep[w].steps = <<>> /\ \A c \in Card : sweep[w].crossed[c] = {}

EndSweep(w) ==
    /\ SweepDone(w)
    /\ Sweeps(w, AtRest)
    /\ UNCHANGED <<card, today, edit, edits, told, unsaid, mute, raced, touched>>

\* The daemon dies: calls and sweeps are gone, rows stay.
Kill ==
    /\ sweep' = [w \in Sweeper |-> AtRest] /\ edit' = NoEdit
    /\ mute' = mute \cup unsaid /\ unsaid' = {}
    /\ UNCHANGED <<card, today, edits, told, raced, touched>>
-----------------------------------------------------------------------------
DNext ==
    \/ DayPasses \/ Kill \/ UpdateWrites \/ ReopenWrites
    \/ \E c \in Card : OccurrenceComes(c) \/ UpdateReads(c) \/ ReopenReads(c) \/ Complete(c)
    \/ \E w \in Sweeper :
         \/ BeginSweep(w) \/ RecurWrites(w) \/ RecurFails(w) \/ ListCrossed(w)
         \/ \E c \in Card : RecurReads(w, c) \/ TakeCard(w, c)
         \/ MarkAnnounced(w) \/ AnnounceFails(w) \/ Emit(w) \/ EndSweep(w)

DSpec == DInit /\ [][DNext]_cards
-----------------------------------------------------------------------------
\* Types.
DTypeOK ==
    /\ card \in [Card -> [status : {"open", "done", "cancelled"}, date : [Kind -> 1..Never],
                          mark : [Kind -> BOOLEAN], came : BOOLEAN]]
    /\ today \in 0..DayMax /\ told \in [Crossing -> 0..2]
    /\ unsaid \subseteq Crossing /\ mute \subseteq Crossing

\* announce_due, "announced once per crossing, not once per sweep": of a card
\* no two tasks wrote at once, a crossing is published at most once until it
\* is armed again, across failing writes and deaths of the daemon, and a
\* marker stands for a crossing that was published, is about to be, or was
\* lost in a death.
AnnouncedOnce ==
    \A c \in Card \ raced, k \in Kind :
        /\ told[<<c, k>>] <= 1
        /\ card[c].mark[k] =>
              /\ Crossed(card[c], k, today)
              /\ told[<<c, k>>] = 1 \/ <<c, k>> \in unsaid \cup mute

\* run_recurrence_sweep, "a card that came back around this pass can fall due
\* on the same pass": a sweep that ends leaves no open card it could have
\* announced without its marker, the cards it has itself reopened included.
SamePass ==
    \A w \in Sweeper : SweepDone(w) =>
        \A c \in Card \ (touched[w] \cup raced), k \in Kind :
            ~IsClosed(card[c]) /\ Crossed(card[c], k, sweep[w].day) => card[c].mark[k]

\* The time-driven events of the task store.
DueSound == DTypeOK /\ AnnouncedOnce /\ SamePass

\* Migration 020, "reopening a card clears BOTH": a card that is open again is
\* armed again.
ReopenedIsArmed ==
    [][\A c \in Card : IsClosed(card[c]) /\ ~IsClosed(card'[c]) =>
          card'[c].mark = [k \in Kind |-> FALSE]]_cards
=============================================================================

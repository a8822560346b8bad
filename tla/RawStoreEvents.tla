--------------------------- MODULE RawStoreEvents ---------------------------
(***************************************************************************)
(* Two journal events of one mount at the same time.  snapshot and the     *)
(* autopilot call journal_locked with the metadata lock held for reading,  *)
(* so their fan-outs may interleave.  append_journal_quorum reads every    *)
(* member's write offset before its first write and uses it later:         *)
(* whatever the other event has put there in between is overwritten.  The  *)
(* certificate is appended at an offset read anew, but names the record by *)
(* its hash, wherever it went.                                             *)
(*                                                                         *)
(* op is the event that runs, parked the one that waits, and Interleave    *)
(* switches between them.  Bounds: the two overlap only while neither      *)
(* rolls a journal over, and no incident falls into an event.              *)
(***************************************************************************)
EXTENDS RawStore

VARIABLES
    at,         \* member -> the write offset op read, in entries
    parked      \* the other event: its fan-out and its offsets

eventVars == <<vars, at, parked>>

NoOffsets == [m \in Members |-> 0]

NoEvent == [op |-> Idle, at |-> NoOffsets]

\* journal_append_position for every member, before the first write
AppendPositions == [m \in Members |-> Len(disk[m].log)]

\* Everything but events happens with no other event in progress.
Alone ==
    /\ parked = NoEvent /\ op.by # "event"
    /\ Next
    /\ at' = IF op'.by = "event" THEN AppendPositions ELSE NoOffsets
    /\ UNCHANGED parked

\* Bound: an event that another has overtaken is over before a third one begins.
NotOvertaken(event) ==
    event.op.step = "append" => \A m \in event.op.todo : event.at[m] = Len(disk[m].log)

\* journal_locked while another event is in progress.  The two records have the
\* same metadata but not the same record_hash (time, action and details differ):
\* prev, of no use to a full record, tells them apart.
SecondEvent ==
    /\ parked # NoEvent /\ NotOvertaken(parked)
    /\ BeginAppend("event", live, Entry("full", live, {live} \ parked.op.entry.prev))
    /\ op'.step = "append"
    /\ at' = AppendPositions
    /\ UNCHANGED <<txns, parked>>

\* append_journal_member at the offset found before the fan-out began
AppendRecord(m) ==
    /\ op.by = "event" /\ op.step = "append" /\ m \in op.todo
    /\ disk' = [disk EXCEPT ![m].log = Append(SubSeq(@, 1, at[m]), op.entry)]
    /\ op' = [op EXCEPT !.todo = @ \ {m}, !.done = @ \cup {m}]
    /\ UNCHANGED <<phase, scanned, quar, broken, fenced, live, durable, dirty, acked,
                   unresolved, txns, incidents, at, parked>>

\* The rest of an event's fan-out.
EventStep ==
    /\ op.by = "event"
    /\ End \/ (op.step # "append" /\ \E m \in Members : MemberOk(m))
    /\ at' = IF op'.by = "event" THEN at ELSE NoOffsets
    /\ UNCHANGED parked

\* The other thread runs.
Interleave ==
    /\ \/ op.by = "event" /\ op.step # "rollover" /\ op.entry.kind # "ckpt"
       \/ op = Idle /\ parked # NoEvent
    /\ op' = parked.op /\ at' = parked.at
    /\ parked' = [op |-> op, at |-> at]
    /\ UNCHANGED <<disk, phase, scanned, quar, broken, fenced, live, durable, dirty, acked,
                   unresolved, txns, incidents>>

EventsInit == Init /\ at = NoOffsets /\ parked = NoEvent

EventsNext ==
    \/ Alone \/ SecondEvent \/ EventStep \/ Interleave
    \/ \E m \in Members : AppendRecord(m)

EventsSpec == EventsInit /\ [][EventsNext]_eventVars

=============================================================================

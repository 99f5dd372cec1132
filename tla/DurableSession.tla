---------------------------- MODULE DurableSession ----------------------------
(***************************************************************************)
(* The durable task session of runtime/durable.py with its three stores:   *)
(* the JSONL event log, the checkpoint files and the receipt files of one  *)
(* run.  One process works on them, through as many DurableTaskSession     *)
(* objects as its caller created or resumed (handles), one call at a time; *)
(* a call is a sequence of steps, and between any two of them the process  *)
(* may die or the file system may refuse to write.                         *)
(*                                                                         *)
(* A saved file appears at once, by os.replace: the temporary file that is *)
(* written first has a name no reader of the directory matches.            *)
(***************************************************************************)
EXTENDS TaskReducer, Sequences

CONSTANTS Handles,          \* the session objects a process may hold
          Plans,            \* the plans offered to accept_plan
          Receipts,         \* the receipts callers may present
          ReceiptTuples,    \* the tuples of them offered to complete_node
          Revisions,        \* workspace revisions
          MaxEvents,        \* bound: no call starts on a longer log
          MaxCheckpoints    \* bound: no more checkpoints are saved

(* created_at stands for all that may differ between two receipts that     *)
(* have the same id and vouch for the same thing.                          *)
ExecutionReceipt ==
    [id : ReceiptIds, task : TaskIds, node : NodeIds,
     kind : {"verification", "tool_execution"},
     status : {"succeeded", "failed"}, created_at : Nat]

ASSUME ReceiptsAssumption ==
    /\ Receipts \subseteq ExecutionReceipt
    /\ None \notin Receipts
    /\ ReceiptTuples \subseteq Seq(Receipts)

ASSUME PlansAssumption == Plans \subseteq PlanSpec

ASSUME NoneIsNoState == None \notin DurableTaskState

VARIABLES
    log,          \* the events whose JSON was written completely, in order
    lastLine,     \* how the file ends: "whole", "unterminated" (the last
                  \* event lacks its newline), "garbled" (a line that is not
                  \* one JSON object)
    checkpoints,  \* the checkpoint files, by checkpoint sequence
    receipts,     \* the receipt files, by receipt id
    session,      \* session[h].state of each open session object
    call,         \* the call in progress
    history       \* auxiliary: the state after each event of the log; no
                  \* guard or other variable depends on it

vars == <<log, lastLine, checkpoints, receipts, session, call, history>>

Checkpoint == [state : DurableTaskState, revision : Revisions \cup {None}]

Idle == [pc |-> "idle"]

Writing(h, e, next, queue) ==
    [pc |-> "append", handle |-> h, event |-> e, next |-> next, queue |-> queue]

Replaying(h, task, state) ==
    [pc |-> "replay", handle |-> h, task |-> task, state |-> state]

Call ==
    {Idle}
    \cup [pc : {"append", "publish"}, handle : Handles, event : DomainEvent,
          next : DurableTaskState, queue : Seq(Receipts)]
    \cup [pc : {"replay"}, handle : Handles, task : TaskIds,
          state : DurableTaskState \cup {None}]

Open(h) == session[h] # None

Init ==
    /\ log = <<>>
    /\ lastLine = "whole"
    /\ checkpoints = <<>>
    /\ receipts = [id \in ReceiptIds |-> None]
    /\ session = [h \in Handles |-> None]
    /\ call = Idle
    /\ history = <<>>

------------------------------------------------------------------------------
(* Reading: JsonlDomainEventStore.read_all, the checks on a checkpoint and *)
(* the receipts a state refers to.                                         *)

ReadAllSucceeds ==
    /\ lastLine # "garbled"
    /\ \A i \in 1..Len(log) : log[i].sequence = i

LatestCheckpoint == checkpoints[Len(checkpoints)]

LoadLatestSucceeds == checkpoints # <<>> => Deserializable(LatestCheckpoint.state)

(* _validate_receipt_for_node; a receipt that is not stored fails it too.  *)
ValidForNode(s, n, r) ==
    r # None /\ r.task = s.task /\ r.node = n /\ r.status = "succeeded"

(* _validate_node_acceptance_receipts.                                     *)
AcceptanceVerified(s, n, rs) ==
    s.plan[n].criteria => \E r \in rs : r.kind = "verification"

(* _validate_state_receipts.                                               *)
EvidenceHolds(s) ==
    \A n \in DOMAIN s.plan :
        /\ \A id \in s.plan[n].evidence : ValidForNode(s, n, receipts[id])
        /\ s.plan[n].status = "completed" =>
               AcceptanceVerified(s, n, {receipts[id] : id \in s.plan[n].evidence})

------------------------------------------------------------------------------
(* The beginnings of calls: what is validated before anything is written.  *)

Create(h, t) ==
    LET e == [sequence |-> 1, data |-> Created(t)]
    IN  /\ call = Idle
        /\ ~Open(h)
        /\ ReadAllSucceeds
        /\ log = <<>>
        /\ call' = Writing(h, e, InitialState(e), <<>>)
        /\ UNCHANGED <<log, lastLine, checkpoints, receipts, session, history>>

NextEvent(h, d) == [sequence |-> session[h].last_event_sequence + 1, data |-> d]

(* accept_plan, start_node, add_blocker, resolve_blocker, set_next_action. *)
Recordable ==
    {PlanAccepted(p) : p \in Plans} \cup {NodeStarted(n) : n \in NodeIds}
    \cup {BlockerAdded(b) : b \in BlockerIds}
    \cup {BlockerResolved(b) : b \in BlockerIds}
    \cup {NextActionSet(x) : x \in NextActions}

(* Variants of the definitions that follow, as a slip in the code would    *)
(* make them; each breaks a property below.                                *)
RecordPublishesFirst(h, d) ==
    LET e == NextEvent(h, d)
    IN  /\ call = Idle /\ Open(h) /\ Len(log) < MaxEvents
        /\ CanReduce(session[h], e)
        /\ session' = [session EXCEPT ![h] = Reduce(session[h], e)]
        /\ call' = Writing(h, e, Reduce(session[h], e), <<>>)
        /\ UNCHANGED <<log, lastLine, checkpoints, receipts, history>>
CompleteUnchecked(h, n, rs) ==
    LET e == NextEvent(h, NodeCompleted(n, {rs[i].id : i \in DOMAIN rs}))
    IN  /\ call = Idle /\ Open(h) /\ Len(log) < MaxEvents
        /\ CanReduce(session[h], e)
        /\ call' = Writing(h, e, Reduce(session[h], e), rs)
        /\ UNCHANGED <<log, lastLine, checkpoints, receipts, session, history>>
CompleteWithReceipts(h, n, rs) ==
    LET e == NextEvent(h, NodeCompleted(n, {rs[i] : i \in DOMAIN rs}))
    IN  /\ call = Idle /\ Open(h) /\ Len(log) < MaxEvents
        /\ CanReduce(session[h], e)
        /\ call' = Writing(h, e, Reduce(session[h], e), rs)
        /\ UNCHANGED <<log, lastLine, checkpoints, receipts, session, history>>
SaveCheckpointOfLog(h, rev) ==
    /\ call = Idle /\ Open(h) /\ Len(checkpoints) < MaxCheckpoints
    /\ checkpoints' = Append(checkpoints,
            [state |-> [session[h] EXCEPT !.last_event_sequence = Len(log)],
             revision |-> rev])
    /\ UNCHANGED <<log, lastLine, receipts, session, call, history>>
SaveReceiptOver ==
    /\ call.pc = "append" /\ call.queue # <<>>
    /\ receipts' = [receipts EXCEPT ![Head(call.queue).id] = Head(call.queue)]
    /\ call' = [call EXCEPT !.queue = Tail(call.queue)]
    /\ UNCHANGED <<log, lastLine, checkpoints, session, history>>
AppendBeforeReceipts ==
    /\ call.pc = "append"
    /\ ReadAllSucceeds /\ call.event.sequence = Len(log) + 1
    /\ log' = Append(log, call.event)
    /\ history' = Append(history, call.next)
    /\ call' = [call EXCEPT !.pc = "publish"]
    /\ UNCHANGED <<lastLine, checkpoints, receipts, session>>
FinishWithoutReplay ==
    /\ call.pc = "replay" /\ call.state # None
    /\ session' = [session EXCEPT ![call.handle] = call.state]
    /\ call' = Idle
    /\ UNCHANGED <<log, lastLine, checkpoints, receipts, history>>

Record(h, d) ==
    LET e == NextEvent(h, d)
    IN  /\ call = Idle
        /\ Open(h)
        /\ Len(log) < MaxEvents
        /\ CanReduce(session[h], e)
        /\ call' = Writing(h, e, Reduce(session[h], e), <<>>)
        /\ UNCHANGED <<log, lastLine, checkpoints, receipts, session, history>>

Complete(h, n, rs) ==
    LET given == {rs[i] : i \in DOMAIN rs}
        e == NextEvent(h, NodeCompleted(n, {r.id : r \in given}))
    IN  /\ call = Idle
        /\ Open(h)
        /\ Len(log) < MaxEvents
        /\ \A r \in given : ValidForNode(session[h], n, r)
        /\ n \in DOMAIN session[h].plan
        /\ AcceptanceVerified(session[h], n, given)
        /\ CanReduce(session[h], e)
        /\ call' = Writing(h, e, Reduce(session[h], e), rs)
        /\ UNCHANGED <<log, lastLine, checkpoints, receipts, session, history>>

(* JsonTaskCheckpointStore.save under the number after the latest one,     *)
(* which is free: the file appears by os.replace.                          *)
SavedCheckpoints(s, rev) ==
    Append(checkpoints, [state |-> s, revision |-> rev])

(* The whole of save_checkpoint.                                           *)
SaveCheckpoint(h, rev) ==
    /\ call = Idle
    /\ Open(h)
    /\ Len(checkpoints) < MaxCheckpoints
    /\ LoadLatestSucceeds
    /\ checkpoints' = SavedCheckpoints(session[h], rev)
    /\ UNCHANGED <<log, lastLine, receipts, session, call, history>>

(* resume up to the replay; the ResumeRequest holds a task id, a revision  *)
(* or None, and whether a checkpoint is required.                          *)
Resume(h, t, rev, require) ==
    /\ call = Idle
    /\ ~Open(h)
    /\ ReadAllSucceeds
    /\ log # <<>>
    /\ LoadLatestSucceeds
    /\ \/ /\ checkpoints = <<>>
          /\ ~require /\ rev = None
          /\ call' = Replaying(h, t, None)
       \/ /\ checkpoints # <<>>
          /\ LatestCheckpoint.state.last_event_sequence <= Len(log)
          /\ rev = None \/ LatestCheckpoint.revision = rev
          /\ call' = Replaying(h, t, LatestCheckpoint.state)
    /\ UNCHANGED <<log, lastLine, checkpoints, receipts, session, history>>

------------------------------------------------------------------------------
(* The steps of a call that writes.                                        *)

(* JsonReceiptStore.save of the next receipt: a stored receipt is never    *)
(* replaced, an equal one is accepted again, another one raises.           *)
SaveReceipt ==
    /\ call.pc = "append"
    /\ call.queue # <<>>
    /\ LET r == Head(call.queue)
       IN  IF receipts[r.id] \in {None, r}
             THEN /\ receipts' = [receipts EXCEPT ![r.id] = r]
                  /\ call' = [call EXCEPT !.queue = Tail(call.queue)]
             ELSE /\ call' = Idle
                  /\ UNCHANGED receipts
    /\ UNCHANGED <<log, lastLine, checkpoints, session, history>>

(* A variant of the next definition: the event's number is not compared.   *)
AppendAllowedAnyNumber == ReadAllSucceeds

AppendAllowed ==
    /\ ReadAllSucceeds
    /\ call.event.sequence = Len(log) + 1

(* What a write leaves at the end of the file when `end' is what it would  *)
(* leave after a whole line: behind an event that lacks its newline it     *)
(* makes a line of two JSON objects.                                       *)
LineAfter(end) == IF lastLine = "whole" THEN end ELSE "garbled"

AppendEvent ==
    /\ call.pc = "append"
    /\ call.queue = <<>>
    /\ AppendAllowed
    /\ log' = Append(log, call.event)
    /\ lastLine' = LineAfter("whole")
    /\ history' = Append(history, call.next)
    /\ call' = [call EXCEPT !.pc = "publish"]
    /\ UNCHANGED <<checkpoints, receipts, session>>

(* A number that is already taken, a gap, or a file that cannot be read.   *)
AppendRefused ==
    /\ call.pc = "append"
    /\ call.queue = <<>>
    /\ ~AppendAllowed
    /\ call' = Idle
    /\ UNCHANGED <<log, lastLine, checkpoints, receipts, session, history>>

(* write, flush or fsync raises (a full disk) after all, all but the       *)
(* newline, or a part of the line has reached the file.                    *)
AppendInterrupted ==
    /\ call.pc = "append"
    /\ call.queue = <<>>
    /\ AppendAllowed
    /\ \E end \in {"whole", "unterminated", "garbled"} :
        /\ lastLine' = LineAfter(end)
        /\ IF end = "garbled"
             THEN UNCHANGED <<log, history>>
             ELSE /\ log' = Append(log, call.event)
                  /\ history' = Append(history, call.next)
    /\ call' = Idle
    /\ UNCHANGED <<checkpoints, receipts, session>>

Publish ==
    /\ call.pc = "publish"
    /\ session' = [session EXCEPT ![call.handle] = call.next]
    /\ call' = Idle
    /\ UNCHANGED <<log, lastLine, checkpoints, receipts, history>>

(* create builds the object after the append, and __init__ raises when the *)
(* receipt store belongs to another run.                                   *)
CreateFails ==
    /\ call.pc = "publish"
    /\ ~Open(call.handle)
    /\ call' = Idle
    /\ UNCHANGED <<log, lastLine, checkpoints, receipts, session, history>>

------------------------------------------------------------------------------
(* The steps of resume after its first checks.                             *)

Replayed == IF call.state = None THEN 0 ELSE call.state.last_event_sequence

NextReplayed == log[Replayed + 1]

CanReplay ==
    IF call.state = None THEN CanInitialize(NextReplayed)
                         ELSE CanReduce(call.state, NextReplayed)

ReplayEvent ==
    /\ call.pc = "replay"
    /\ Replayed < Len(log)
    /\ call' = IF CanReplay
                 THEN [call EXCEPT !.state =
                          IF @ = None THEN InitialState(NextReplayed)
                                      ELSE Reduce(@, NextReplayed)]
                 ELSE Idle
    /\ UNCHANGED <<log, lastLine, checkpoints, receipts, session, history>>

FinishResume ==
    /\ call.pc = "replay"
    /\ Replayed = Len(log)
    /\ session' = IF call.state.task = call.task /\ EvidenceHolds(call.state)
                    THEN [session EXCEPT ![call.handle] = call.state]
                    ELSE session
    /\ call' = Idle
    /\ UNCHANGED <<log, lastLine, checkpoints, receipts, history>>

------------------------------------------------------------------------------

(* A file cannot be read, or cannot be written at all: the call raises.    *)
CallFails ==
    /\ call.pc \in {"append", "replay"}
    /\ call' = Idle
    /\ UNCHANGED <<log, lastLine, checkpoints, receipts, session, history>>

(* The process dies; what it leaves is what is on disk.                    *)
Crash ==
    /\ call' = Idle
    /\ session' = [h \in Handles |-> None]
    /\ UNCHANGED <<log, lastLine, checkpoints, receipts, history>>

CallBegins ==
    \E h \in Handles :
        \/ \E t \in TaskIds : Create(h, t)
        \/ \E d \in Recordable : Record(h, d)
        \/ \E n \in NodeIds, rs \in ReceiptTuples : Complete(h, n, rs)
        \/ \E rev \in Revisions \cup {None} : SaveCheckpoint(h, rev)
        \/ \E t \in TaskIds, rev \in Revisions \cup {None}, require \in BOOLEAN :
               Resume(h, t, rev, require)

CallStep ==
    SaveReceipt \/ AppendEvent \/ AppendRefused \/ Publish
    \/ ReplayEvent \/ FinishResume

Fault == AppendInterrupted \/ CreateFails \/ CallFails \/ Crash

Next == CallBegins \/ CallStep \/ Fault

Spec == Init /\ [][Next]_vars

------------------------------------------------------------------------------

TypeOK ==
    /\ log \in Seq(DomainEvent)
    /\ lastLine \in {"whole", "unterminated", "garbled"}
    /\ checkpoints \in Seq(Checkpoint)
    /\ receipts \in [ReceiptIds -> Receipts \cup {None}]
    /\ session \in [Handles -> DurableTaskState \cup {None}]
    /\ call \in Call
    /\ history \in Seq(DurableTaskState)
    /\ Len(history) = Len(log)

(* s is the state after a prefix of the log, the one its own number says.  *)
IsDurable(s) ==
    /\ s.last_event_sequence \in 1..Len(log)
    /\ s = history[s.last_event_sequence]

(* The events in the log are numbered 1, 2, 3, ... even when several       *)
(* session objects, some of them stale, append to it (durable.py:526-531). *)
EventsAreNumbered == \A i \in 1..Len(log) : log[i].sequence = i

(* A session object never shows a state that a crash could take back: its  *)
(* state is the one after a prefix of the log (durable.py:825-829).        *)
PublishedIsDurable == \A h \in Handles : Open(h) => IsDurable(session[h])

(* Every checkpoint, also one that a stale session saved, is the state     *)
(* after exactly the events it claims to cover (durable.py:831-842).       *)
CheckpointIsDurable ==
    \A k \in 1..Len(checkpoints) : IsDurable(checkpoints[k].state)

(* Every node the log completed has its receipts on disk, succeeded and    *)
(* its own, with a verification among them if it has acceptance criteria,  *)
(* wherever the process died (durable.py:790-792).                         *)
CompletedIsEvidenced == \A i \in 1..Len(history) : EvidenceHolds(history[i])

(* No state of the log has a node under way whose dependencies are not     *)
(* completed (durable.py:438-446).                                         *)
DependenciesComeFirst ==
    \A i \in 1..Len(history) : DependenciesFirst(history[i])

(* What the reducer produces, from_dict accepts: a checkpoint that was     *)
(* saved can be loaded (durable.py:168-190).                               *)
StatesDeserialize == \A i \in 1..Len(history) : Deserializable(history[i])

(* A resume with the right task id and a readable log never fails on what  *)
(* the runtime itself wrote: the latest checkpoint is not ahead, every     *)
(* event can be applied, and the receipts are there (durable.py:737-755).  *)
ResumeNeverRefused ==
    /\ LoadLatestSucceeds
    /\ checkpoints # <<>> =>
            LatestCheckpoint.state.last_event_sequence <= Len(log)
    /\ call.pc = "replay" =>
            IF Replayed < Len(log)
              THEN CanReplay
              ELSE Replayed = Len(log) /\ EvidenceHolds(call.state)

(* A resumed session starts from the state after the last event, whether   *)
(* it replayed the whole log or a checkpoint and the rest (durable.py:     *)
(* 710-762), and a session that opens any other way is a new task.         *)
OpensUpToDate ==
    [][\A h \in Handles : ~Open(h) /\ Open(h)' =>
            Len(log) > 0 /\ session'[h] = history[Len(log)]]_vars

(* What replay_domain_events gives on the first n events of the log.       *)
ReplayDomainEvents[n \in 0..Len(log)] ==
    IF n = 0 THEN None
    ELSE LET state == ReplayDomainEvents[n - 1]
         IN  IF state = None THEN InitialState(log[n]) ELSE Reduce(state, log[n])

(* The auxiliary variable against the log: history[n] is the state that a  *)
(* full replay of the first n events gives (durable.py:497-503), so the    *)
(* properties above speak of what is on disk.                              *)
HistoryIsReplay == \A n \in 1..Len(log) : history[n] = ReplayDomainEvents[n]

(* No receipt file ever changes, however often a completion is retried     *)
(* (durable_contracts.py:279-283).                                         *)
ReceiptsAreImmutable ==
    [][\A id \in ReceiptIds : receipts[id] # None => receipts'[id] = receipts[id]]_vars

(* An append that succeeds leaves a log that can be read, with the event   *)
(* in it: the event is safe before its state is published                  *)
(* (durable.py:533-537).                                                   *)
AppendedIsReadable == call.pc = "publish" => ReadAllSucceeds

(* The log, seen through the state after its last event, is a task board.  *)
BoardPlan == IF history = <<>> THEN NoPlan ELSE history[Len(history)].plan

Board == INSTANCE TaskBoard
    WITH Nodes   <- NodeIds,
         graph   <- DependenciesOf(BoardPlan),
         running <- NodesWith(BoardPlan, "running"),
         done    <- NodesWith(BoardPlan, "completed")

(* Crashes, failed writes, stale sessions and resumes are invisible there. *)
ImplementsTaskBoard == Board!Spec
===============================================================================

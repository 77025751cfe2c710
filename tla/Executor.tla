------------------------------ MODULE Executor ------------------------------
(***************************************************************************)
(* A reattachable operation of the Spark Connect server: the Executor with *)
(* its state behind a lock, the task that runs it, the buffer of responses *)
(* that a client may ask for again, and the handlers of the ExecutePlan,   *)
(* ReattachExecute, ReleaseExecute and Interrupt requests.                 *)
(*                                                                         *)
(* A response is a batch of the result (1, 2, ...), the schema, an empty   *)
(* batch or "complete", under an id of its own.  Between the task and the  *)
(* client are a channel with room for one response and the transport.  The *)
(* client and the transport are external: a client reattaches when its     *)
(* stream breaks or ends before "complete", naming the last response it    *)
(* has.                                                                    *)
(***************************************************************************)
EXTENDS Integers, Sequences, FiniteSets

CONSTANTS
    Batches,         \* how many batches the result has
    BufferCapacity,  \* the capacity of ExecutorBuffer
    InFlight,        \* how many responses the transport holds
    MaxRequests,     \* bound on the ReattachExecute requests
    Trouble,         \* the troubles to consider, one of which may happen
    MaxBreaks,       \* bound on the broken streams
    MaxHeartbeats,   \* bound on the heartbeats
    MaxReleases      \* bound on the ReleaseUntil requests

Request == 1..MaxRequests

Troubles == {"request dropped", "request cancelled", "query fails", "interrupt"}

ASSUME ExecutorAssumption ==
    /\ {Batches, InFlight, MaxRequests, MaxBreaks, MaxHeartbeats, MaxReleases} \subseteq Nat
    /\ BufferCapacity \in Nat \ {0} /\ Trouble \subseteq Troubles

VARIABLES
    state,     \* ExecutorState, without what it holds
    context,   \* ExecutorTaskContext: the result stream and the buffer
    task,      \* the task that runs the operation, and its JoinHandle
    channel,   \* the latest ReceiverStream, and what the transport has of it
    requests,  \* the handlers of the reattach_execute requests, and of interrupt
    session,   \* whether the session has the operation in its executors
    client,    \* the client
    used       \* how much of the bounds is used; who held the executor at the interrupt,
               \* and whether a handler has met one that had paused the task

vars == <<state, context, task, channel, requests, session, client, used>>

\* The data of a response: a batch of rows 1..Batches, or one of these.
Empty == 0
Schema == -1
Complete == -2

NoId == 0
Response(id, data) == [id |-> id, data |-> data]
NoResponse == Response(NoId, Empty)

\* The requests other than reattach_execute.
NoStream == 0
Execute == -1
Interrupt == -2

NewTask(replay) ==
    [result |-> "running", phase |-> "replay", replay |-> replay, out |-> NoResponse,
     empty |-> TRUE, notified |-> FALSE]

NewChannel(owner) == [owner |-> owner, open |-> TRUE, queue |-> <<>>, wire |-> <<>>]

\* The client has sent ExecutePlan; the plan is resolved and Executor::new is done.
Init ==
    /\ state = "Pending"
    /\ context = [taken |-> 0, buffer |-> <<>>, nextId |-> 1]
    /\ task = [NewTask(<<>>) EXCEPT !.result = "paused"]
    /\ channel = [NewChannel(NoStream) EXCEPT !.open = FALSE]
    /\ requests = [r \in Request \cup {Interrupt} |-> [pc |-> "unused", last |-> NoId]]
    /\ session = FALSE
    /\ client = [stream |-> NoStream, awaits |-> Execute, rest |-> <<>>, last |-> NoId,
                 got |-> <<>>, done |-> FALSE, error |-> FALSE]
    /\ used = [breaks |-> 0, heartbeats |-> 0, releases |-> 0, trouble |-> "none",
               held |-> {}, overlap |-> FALSE]
-----------------------------------------------------------------------------
(* ExecutorBuffer.                                                         *)

\* Mutant of Add: nothing is evicted.
AddUnbounded(buffer, response) == Append(buffer, response)

Add(buffer, response) ==
    Append(IF Len(buffer) >= BufferCapacity THEN Tail(buffer) ELSE buffer, response)

\* Mutant of RemoveUntil: drain(0..index), so that the response itself stays.
RemoveUntilKeepsIt(buffer, id) ==
    LET found == {i \in DOMAIN buffer : buffer[i].id = id}
    IN  IF found = {} THEN buffer
        ELSE SubSeq(buffer, CHOOSE i \in found : TRUE, Len(buffer))

RemoveUntil(buffer, id) ==
    LET found == {i \in DOMAIN buffer : buffer[i].id = id}
    IN  IF found = {} THEN buffer
        ELSE SubSeq(buffer, (CHOOSE i \in found : TRUE) + 1, Len(buffer))
-----------------------------------------------------------------------------
(* The task.  A send waits for room in the channel; the response is in the *)
(* buffer before.                                                          *)

Save(data) ==
    context' = [context EXCEPT !.buffer = Add(@, Response(context.nextId, data)),
                               !.nextId = @ + 1]

\* The task saves data and is about to send it, in `phase` from then on.
Output(data, phase) ==
    /\ Save(data)
    /\ task' = [task EXCEPT !.out = Response(context.nextId, data), !.phase = phase]

Running(phase) == task.result = "running" /\ task.out = NoResponse /\ task.phase = phase

Replay ==
    /\ Running("replay")
    /\ IF task.replay # <<>>
       THEN /\ task' = [task EXCEPT !.out = Head(task.replay), !.replay = Tail(@)]
            /\ UNCHANGED context
       ELSE Output(Schema, "batches")
    /\ UNCHANGED <<state, channel, requests, session, client, used>>

NextBatch ==
    /\ Running("batches") /\ context.taken < Batches
    /\ context' = [context EXCEPT !.buffer = Add(@, Response(context.nextId, context.taken + 1)),
                                  !.nextId = @ + 1, !.taken = @ + 1]
    /\ task' = [task EXCEPT !.out = Response(context.nextId, context.taken + 1), !.empty = FALSE]
    /\ UNCHANGED <<state, channel, requests, session, client, used>>

\* The stream has been silent for heartbeat_interval.
Heartbeat ==
    /\ Running("batches") /\ used.heartbeats < MaxHeartbeats
    /\ Save(Empty)
    /\ task' = [task EXCEPT !.out = Response(context.nextId, Empty), !.empty = FALSE]
    /\ used' = [used EXCEPT !.heartbeats = @ + 1]
    /\ UNCHANGED <<state, channel, requests, session, client>>

\* The stream ends: a result without any batch gets an empty one.
EndOfStream ==
    /\ Running("batches") /\ context.taken = Batches
    /\ IF task.empty THEN Output(Empty, "complete") ELSE Output(Complete, "end")
    /\ UNCHANGED <<state, channel, requests, session, client, used>>

SendComplete ==
    /\ Running("complete")
    /\ Output(Complete, "end")
    /\ UNCHANGED <<state, channel, requests, session, client, used>>

\* The task returns: its sender is dropped.
Return(result) == task' = [task EXCEPT !.result = result, !.out = NoResponse]

Happens(trouble) ==
    /\ trouble \in Trouble /\ used.trouble = "none"
    /\ used' = [used EXCEPT !.trouble = trouble]

Finish ==
    /\ Running("end")
    /\ Return("completed")
    /\ UNCHANGED <<state, context, channel, requests, session, client, used>>

QueryFails ==
    /\ Running("batches") /\ Happens("query fails")
    /\ Return("failed")
    /\ UNCHANGED <<state, context, channel, requests, session, client>>

\* Mutant of Send: a closed channel is an error like any other.
SendErrorFails ==
    /\ task.result = "running" /\ task.out # NoResponse
    /\ IF channel.open
       THEN /\ channel.queue = <<>>
            /\ channel' = [channel EXCEPT !.queue = <<task.out>>]
            /\ task' = [task EXCEPT !.out = NoResponse]
       ELSE Return("failed") /\ UNCHANGED channel
    /\ UNCHANGED <<state, context, requests, session, client, used>>

Send ==
    /\ task.result = "running" /\ task.out # NoResponse
    /\ IF channel.open
       THEN /\ channel.queue = <<>>
            /\ channel' = [channel EXCEPT !.queue = <<task.out>>]
            /\ task' = [task EXCEPT !.out = NoResponse]
       ELSE Return("paused") /\ UNCHANGED channel
    /\ UNCHANGED <<state, context, requests, session, client, used>>

\* The handlers of the client that hold the executor.
Holders ==
    {r \in Request : requests[r].pc \in {"pause", "wait", "release", "start"}}
        \cup ({Execute} \cap {client.awaits})

\* Nobody holds the executor any more: it is dropped, and the notifier with it.
LetGo == ~session /\ Holders = {} /\ requests[Interrupt].pc \notin {"pause", "wait"}

\* The listener wins the race in run, for the notifier was used or is gone; what
\* run_internal was about to do is dropped.
Notified ==
    /\ task.result = "running" /\ (task.notified \/ LetGo)
    /\ Return("paused")
    /\ UNCHANGED <<state, context, channel, requests, session, client, used>>

Task ==
    \/ Replay \/ NextBatch \/ Heartbeat \/ EndOfStream \/ SendComplete
    \/ Finish \/ QueryFails \/ Send \/ Notified
-----------------------------------------------------------------------------
(* Executor's operations, each under the lock of its state.                *)

\* The client gets the answer to request r, if it still waits for it.
Answer(r, stream) ==
    IF client.awaits # r THEN client
    ELSE [client EXCEPT !.awaits = NoStream, !.stream = stream, !.error = (stream = NoStream)]

\* What is left of the stream that a new one replaces still reaches its client.
Rest == IF channel.owner = client.stream THEN channel.wire \o channel.queue ELSE client.rest

\* start: a context that waits is run, with the responses of the buffer first.
Run(r) ==
    /\ state' = "Running"
    /\ task' = NewTask(context.buffer)
    /\ channel' = NewChannel(r)

Start(r) ==
    IF state = "Pending"
    THEN /\ Run(r)
         /\ client' = [Answer(r, r) EXCEPT !.rest = IF client.awaits = r THEN <<>> ELSE Rest]
    ELSE /\ client' = Answer(r, NoStream)
         /\ UNCHANGED <<state, task, channel>>

\* The handlers that have paused the task and are not through with it.
Pausers == {r \in DOMAIN requests : requests[r].pc \in {"wait", "release", "start"}}

\* Mutant of PauseIfRunning: it waits for the task without notifying it.
PauseIfRunningSilently(r, done) ==
    /\ IF state = "Running"
       THEN /\ state' = "Pausing"
            /\ requests' = [requests EXCEPT ![r].pc = "wait"]
       ELSE /\ requests' = [requests EXCEPT ![r].pc = done]
            /\ UNCHANGED state
    /\ used' = [used EXCEPT !.overlap = @ \/ state = "Pausing" \/ Pausers \ {r} # {}]
    /\ UNCHANGED task

\* The first half of pause_if_running; its caller goes on at `done`.
PauseIfRunning(r, done) ==
    /\ IF state = "Running"
       THEN /\ state' = "Pausing"
            /\ task' = [task EXCEPT !.notified = TRUE]
            /\ requests' = [requests EXCEPT ![r].pc = "wait"]
       ELSE /\ requests' = [requests EXCEPT ![r].pc = done]
            /\ UNCHANGED <<state, task>>
    /\ used' = [used EXCEPT !.overlap = @ \/ state = "Pausing" \/ Pausers \ {r} # {}]

\* The second half: the task has returned.
Paused(r, done) ==
    /\ task.result # "running"
    /\ state' = CASE task.result = "paused" -> "Pending"
                  [] task.result = "completed" -> "Idle"
                  [] task.result = "failed" -> "Failed"
    /\ requests' = [requests EXCEPT ![r].pc = done]

Release(id) ==
    context' = IF state \in {"Running", "Pending"}
               THEN [context EXCEPT !.buffer = RemoveUntil(@, id)]
               ELSE context
-----------------------------------------------------------------------------
(* The handlers.                                                           *)

\* handle_execute_plan starts the operation, and then adds it to the session.
ExecutePlan ==
    /\ channel.owner = NoStream
    /\ Run(Execute)
    /\ UNCHANGED <<context, requests, session, client, used>>

AddExecutor ==
    /\ channel.owner = Execute /\ client.awaits = Execute
    /\ session' = TRUE
    /\ client' = Answer(Execute, Execute)
    /\ UNCHANGED <<state, context, task, channel, requests, used>>

\* handle_reattach_execute.
GetExecutor(r) ==
    /\ requests[r].pc = "called"
    /\ IF session
       THEN requests' = [requests EXCEPT ![r].pc = "pause"] /\ UNCHANGED client
       ELSE requests' = [requests EXCEPT ![r].pc = "done"] /\ client' = Answer(r, NoStream)
    /\ UNCHANGED <<state, context, task, channel, session, used>>

ReattachPauses(r) ==
    /\ requests[r].pc = "pause"
    /\ PauseIfRunning(r, "release")
    /\ UNCHANGED <<context, channel, session, client>>

ReattachPaused(r) ==
    /\ requests[r].pc = "wait"
    /\ Paused(r, "release")
    /\ UNCHANGED <<context, task, channel, session, client, used>>

ReattachReleases(r) ==
    /\ requests[r].pc = "release"
    /\ Release(requests[r].last)
    /\ requests' = [requests EXCEPT ![r].pc = "start"]
    /\ UNCHANGED <<state, task, channel, session, client, used>>

ReattachStarts(r) ==
    /\ requests[r].pc = "start"
    /\ Start(r)
    /\ requests' = [requests EXCEPT ![r].pc = "done"]
    /\ UNCHANGED <<context, session, used>>

\* The server drops the future of a handler that waits, for its request is cancelled.
ReattachDropped(r) ==
    /\ requests[r].pc = "wait" /\ client.awaits = r
    /\ Happens("request cancelled")
    /\ requests' = [requests EXCEPT ![r].pc = "done"]
    /\ client' = [client EXCEPT !.awaits = NoStream]
    /\ UNCHANGED <<state, context, task, channel, session>>

Reattach(r) ==
    \/ GetExecutor(r) \/ ReattachPauses(r) \/ ReattachPaused(r)
    \/ ReattachReleases(r) \/ ReattachStarts(r)

\* handle_release_execute, for the last response the client has.
ReleaseExecute ==
    /\ used.releases < MaxReleases /\ client.last # NoId
    /\ IF session THEN Release(client.last) ELSE UNCHANGED context
    /\ used' = [used EXCEPT !.releases = @ + 1]
    /\ UNCHANGED <<state, task, channel, requests, session, client>>

\* Mutant of RemoveExecutor: the interrupted operation stays in the session.
GetExecutorToInterrupt ==
    /\ "interrupt" \in Trouble /\ used.trouble = "none"
    /\ used' = [used EXCEPT !.trouble = "interrupt", !.held = Holders]
    /\ requests' = [requests EXCEPT ![Interrupt].pc = IF session THEN "pause" ELSE "done"]
    /\ UNCHANGED <<state, context, task, channel, session, client>>

\* handle_interrupt_operation_id: the operation leaves the session, then is paused.
RemoveExecutor ==
    /\ "interrupt" \in Trouble /\ used.trouble = "none"
    /\ used' = [used EXCEPT !.trouble = "interrupt", !.held = Holders]
    /\ session' = FALSE
    /\ requests' = [requests EXCEPT ![Interrupt].pc = IF session THEN "pause" ELSE "done"]
    /\ UNCHANGED <<state, context, task, channel, client>>

InterruptPauses ==
    \/ /\ requests[Interrupt].pc = "pause"
       /\ PauseIfRunning(Interrupt, "done")
       /\ UNCHANGED <<context, channel, session, client>>
    \/ /\ requests[Interrupt].pc = "wait"
       /\ Paused(Interrupt, "done")
       /\ UNCHANGED <<context, task, channel, session, client, used>>

Server == Task \/ ExecutePlan \/ AddExecutor \/ (\E r \in Request : Reattach(r)) \/ InterruptPauses
-----------------------------------------------------------------------------
(* The transport and the client.                                           *)

Transmit ==
    /\ channel.open /\ channel.queue # <<>> /\ Len(channel.wire) < InFlight
    /\ channel' = [channel EXCEPT !.wire = @ \o channel.queue, !.queue = <<>>]
    /\ UNCHANGED <<state, context, task, requests, session, client, used>>

\* The client gets response out; it counts the batches of rows.
Got(out) ==
    [client EXCEPT !.last = out.id,
                   !.got = IF out.data \in 1..Batches THEN Append(@, out.data) ELSE @,
                   !.done = @ \/ out.data = Complete]

Receive ==
    /\ client.stream # NoStream /\ ~client.done
    /\ IF channel.owner = client.stream
       THEN /\ channel.wire # <<>>
            /\ client' = Got(Head(channel.wire))
            /\ channel' = [channel EXCEPT !.wire = Tail(@)]
       ELSE /\ client.rest # <<>>
            /\ client' = [Got(Head(client.rest)) EXCEPT !.rest = Tail(@)]
            /\ UNCHANGED channel
    /\ UNCHANGED <<state, context, task, requests, session, used>>

\* The sender of the client's stream is gone, and the client has what was sent.
StreamEnds ==
    /\ client.stream # NoStream /\ ~client.done
    /\ IF channel.owner = client.stream
       THEN task.result # "running" /\ channel.queue \o channel.wire = <<>>
       ELSE client.rest = <<>>
    /\ client' = [client EXCEPT !.stream = NoStream]
    /\ UNCHANGED <<state, context, task, channel, requests, session, used>>

\* The connection of the stream breaks.  The server notices it later, or never.
Break ==
    /\ client.stream # NoStream /\ ~client.done /\ used.breaks < MaxBreaks
    /\ client' = [client EXCEPT !.stream = NoStream, !.rest = <<>>]
    /\ used' = [used EXCEPT !.breaks = @ + 1]
    /\ UNCHANGED <<state, context, task, channel, requests, session>>

NoticeBreak ==
    /\ channel.open /\ channel.owner \notin {client.stream, client.awaits}
    /\ channel' = [channel EXCEPT !.open = FALSE, !.queue = <<>>, !.wire = <<>>]
    /\ UNCHANGED <<state, context, task, requests, session, client, used>>

ReattachExecute ==
    /\ client.stream = NoStream /\ client.awaits = NoStream /\ ~client.done /\ ~client.error
    /\ \E r \in Request :
          /\ requests[r].pc = "unused" /\ \A q \in 1..(r - 1) : requests[q].pc # "unused"
          /\ requests' = [requests EXCEPT ![r] = [pc |-> "called", last |-> client.last]]
          /\ client' = [client EXCEPT !.awaits = r]
    /\ UNCHANGED <<state, context, task, channel, session, used>>

\* The connection breaks while the client waits for the answer.
RequestDropped ==
    /\ client.awaits \in Request /\ Happens("request dropped")
    /\ client' = [client EXCEPT !.awaits = NoStream]
    /\ UNCHANGED <<state, context, task, channel, requests, session>>

Client == Transmit \/ Receive \/ StreamEnds \/ ReattachExecute

Next ==
    \/ Server \/ Client
    \/ ReleaseExecute \/ RemoveExecutor \/ (\E r \in Request : ReattachDropped(r))
    \/ Break \/ NoticeBreak \/ RequestDropped

Spec == Init /\ [][Next]_vars

\* The runtime polls the tasks and the handlers, the transport delivers, and the
\* client reads its stream and reattaches.
FairSpec == Spec /\ WF_vars(Server \/ Client)
-----------------------------------------------------------------------------
Id == 0..context.nextId

\* The state is one of the program's: a task runs exactly while the executor is
\* Running or Pausing, or has just returned; the buffer keeps to its capacity
\* with ids that ascend; the channel holds one response.
TypeOK ==
    /\ state \in {"Idle", "Pending", "Running", "Pausing", "Failed"}
    /\ task.result \in {"running", "paused", "completed", "failed"}
    /\ task.result = "running" => state \in {"Running", "Pausing"}
    /\ Len(context.buffer) <= BufferCapacity
    /\ \A i, j \in DOMAIN context.buffer : i < j => context.buffer[i].id < context.buffer[j].id
    /\ context.taken \in 0..Batches /\ Len(channel.queue) <= 1 /\ Len(channel.wire) <= InFlight
    /\ requests \in [Request \cup {Interrupt} ->
                       [pc: {"unused", "called", "pause", "wait", "release", "start", "done"},
                        last: Id]]
    /\ session \in BOOLEAN /\ client.last \in Id /\ used.trouble \in Trouble \cup {"none"}

OnceInOrder ==
    /\ client.got = [i \in DOMAIN client.got |-> i]
    /\ client.done => Len(client.got) = Batches

\* However often the stream breaks and is reattached, and wherever a pause cuts the
\* task off, as long as no two handlers pause it at once the client gets the batches
\* of the result each once, in order, and "complete" only after the last:
\* run_internal saves a response before it sends it, remove_until drops what the
\* client has and no more, and the buffer evicts only what the client has.
BatchesArriveOnceInOrder ==
    used.overlap \/ OnceInOrder

\* Once interrupt has returned and no handler holds the executor, a task that still
\* runs has been told to stop, and no later reattach finds the operation.  Only a
\* reattach that held the executor when interrupt removed it has run it again.
\* (An interrupt that comes before handle_execute_plan adds the operation finds none.)
InterruptedIsStopped ==
    requests[Interrupt].pc = "done" /\ Execute \notin used.held /\ Holders = {} =>
        /\ task.result = "running" => task.notified \/ LetGo
        /\ state = "Running" => channel.owner \in used.held

\* A reattach is refused only when the query has failed, was interrupted or has
\* completed, or when two handlers pause the task at once (or one was dropped at it).
RefusedWithReason ==
    client.error =>
        \/ used.trouble \in {"query fails", "interrupt"} \/ used.overlap
        \/ state = "Idle" /\ task.result = "completed"

\* The client of an operation gets its last response, or an error: no pause waits
\* forever for its task, and no stream stays silent while there is more to send.
EveryClientEnds == <>(client.done \/ client.error)

\* The task of an interrupted operation ends and no other is started, also if it
\* waits for room in a channel that nobody reads and whoever held the executor has
\* started it again: the pause notifies it, or the executor is dropped.
InterruptsStopTheTask ==
    used.trouble = "interrupt" /\ Execute \notin used.held ~> [](task.result # "running")
=============================================================================

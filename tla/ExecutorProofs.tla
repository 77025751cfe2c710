--------------------------- MODULE ExecutorProofs ---------------------------
(***************************************************************************)
(* Proofs about module Executor, for every result, buffer, transport and   *)
(* number of requests.                                                     *)
(*                                                                         *)
(* Every step has one of a few effects on the fields of the state          *)
(* (StepEffects), and the invariants are proved of the effects: BaseInv,   *)
(* which always holds; Stream, by which what is under way follows what the *)
(* client has and the buffer has the rest, until two handlers pause the    *)
(* task at once; and Recorded, by which the batches were saved in order.   *)
(***************************************************************************)
EXTENDS Executor, TLAPS

Responses == [id : Nat \ {0}, data : Int]
Streams == Request \cup {NoStream, Execute}
Callers == Request \cup {Interrupt}

Pc == {"unused", "called", "pause", "wait", "release", "start", "done"}

\* The types of the variables.
States == {"Idle", "Pending", "Running", "Pausing", "Failed"}
Contexts == [taken : 0..Batches, buffer : Seq(Responses), nextId : Nat \ {0}]
Tasks == [result : {"running", "paused", "completed", "failed"},
          phase : {"replay", "batches", "complete", "end"},
          replay : Seq(Responses), out : Responses \cup {NoResponse},
          empty : BOOLEAN, notified : BOOLEAN]
Channels == [owner : Streams, open : BOOLEAN, queue : Seq(Responses), wire : Seq(Responses)]
Handlers == [pc : Pc, last : Nat]
Clients == [stream : Streams, awaits : Streams, rest : Seq(Responses), last : Nat,
            got : Seq(Int), done : BOOLEAN, error : BOOLEAN]
Bounds == [breaks : Nat, heartbeats : Nat, releases : Nat, trouble : Trouble \cup {"none"},
           held : SUBSET Streams, overlap : BOOLEAN]

Shape ==
    /\ state \in States
    /\ context \in Contexts
    /\ task \in Tasks
    /\ channel \in Channels
    /\ requests \in [Callers -> Handlers]
    /\ session \in BOOLEAN
    /\ client \in Clients
    /\ used \in Bounds

\* The responses that are somewhere between the task and the client.
Items(s) == {s[i] : i \in DOMAIN s}

Responding ==
    Items(context.buffer) \cup Items(task.replay) \cup ({task.out} \ {NoResponse})
        \cup Items(channel.queue) \cup Items(channel.wire) \cup Items(client.rest)

\* Ids are given out in order: whoever names one names a response that was saved.
IdsAreKnown ==
    /\ \A x \in Responding : x.id < context.nextId
    /\ client.last < context.nextId
    /\ \A r \in Callers : requests[r].last < context.nextId

\* The responses of s have the ids that follow id a.
Follows(s, a) == \A i \in DOMAIN s : s[i].id = a + i

\* The id before the first one of the buffer.
Dropped == context.nextId - 1 - Len(context.buffer)

\* The places that hold responses, and who waits for the task.
Places ==
    /\ Len(context.buffer) <= BufferCapacity
    /\ Follows(context.buffer, Dropped)
    /\ Len(channel.queue) <= 1 /\ Len(channel.wire) <= InFlight
    /\ task.phase # "replay" => task.replay = <<>>
    /\ task.phase = "complete" => context.taken = Batches
    /\ task.result = "running" => state \in {"Running", "Pausing"}
    /\ \A r, q \in Callers :
          requests[r].pc = "wait" => state = "Pausing" /\ (requests[q].pc = "wait" => q = r)

\* Who may read which stream.
Handles ==
    /\ client.awaits # NoStream => client.stream = NoStream
    /\ client.awaits = Execute =>
          /\ \A r \in Request : requests[r].pc = "unused"
          /\ channel.owner \in {NoStream, Execute} /\ client.last = NoId /\ ~session
    /\ channel.owner = NoStream =>
          /\ client.awaits = Execute /\ state = "Pending" /\ task.result = "paused"
          /\ context.nextId = 1 /\ context.buffer = <<>>
          /\ requests[Interrupt].pc \in {"unused", "done"}
    /\ \A r \in Request :
          /\ r \in {channel.owner, client.stream} => requests[r].pc = "done"
          /\ client.awaits = r => requests[r].pc \notin {"unused", "done"}
    /\ requests[Interrupt].pc \in {"unused", "pause", "wait", "done"}
    /\ requests[Interrupt].pc # "unused" => used.trouble = "interrupt"
    /\ client.awaits # Execute => session \/ used.trouble = "interrupt"

\* Why a reattach may be refused.
Reasons ==
    /\ RefusedWithReason
    /\ state = "Idle" => task.result = "completed"
    /\ state = "Failed" \/ task.result = "failed" => used.trouble = "query fails"

\* The interrupted executor is with those who held it.
Interrupted ==
    used.trouble = "interrupt" /\ Execute \notin used.held =>
        /\ ~session /\ client.awaits # Execute
        /\ Holders \subseteq used.held
        /\ requests[Interrupt].pc = "pause" \/ state # "Running" \/ channel.owner \in used.held

\* A handler that has paused the task is the only one, until it has started it again.
Alone ==
    /\ \A r, q \in Pausers : r = q
    /\ \A r \in Request :
        requests[r].pc \in {"release", "start"} => state \in {"Pending", "Idle", "Failed"}

BaseInv ==
    /\ Shape /\ IdsAreKnown /\ Places /\ Handles /\ Reasons /\ Interrupted
    /\ used.overlap \/ Alone
-----------------------------------------------------------------------------
\* The client reads, or is about to read, what is in the channel.
Live == channel.owner # NoStream /\ channel.owner \in {client.stream, client.awaits}

Unsent == IF task.out = NoResponse THEN 0 ELSE 1
Transit == Len(channel.wire) + Len(channel.queue)

\* What the client is going to read follows what it has.
Flowing ==
    Live =>
        /\ channel.open
        /\ Follows(channel.wire, client.last)
        /\ Follows(channel.queue, client.last + Len(channel.wire))
        /\ task.result = "running" =>
            /\ task.out # NoResponse => task.out.id = client.last + Transit + 1
            /\ Follows(task.replay, client.last + Transit + Unsent)
            /\ context.nextId - 1 = client.last + Transit + Unsent + Len(task.replay)

\* The task is ahead of the client by what is under way, whoever reads it, and by
\* a response more once the server has noticed that nobody does.
Ahead ==
    /\ task.result = "running" /\ channel.open =>
        context.nextId - 1 <= client.last + Transit + Unsent + Len(task.replay)
    /\ task.result = "running" /\ ~channel.open /\ task.out = NoResponse /\ task.replay = <<>> =>
        context.nextId - 1 <= client.last + InFlight + 1

\* What is left of a stream that was replaced follows what the client has.
Resting ==
    client.stream \notin {NoStream, channel.owner} => Follows(client.rest, client.last)

\* The buffer has everything that the client does not have.
Kept == Dropped <= client.last

\* A reattach that starts the task has released what the client has.
Asked ==
    \A r \in Request :
        /\ requests[r].last <= client.last
        /\ client.awaits = r => requests[r].last = client.last
        /\ requests[r].pc = "start" /\ state = "Pending" => requests[r].last <= Dropped

Stream == Flowing /\ Ahead /\ Resting /\ Kept /\ Asked
-----------------------------------------------------------------------------
(* Sequences of responses.                                                 *)

\* What Head and Tail of a sequence are.
LEMMA TailFacts ==
    ASSUME NEW S, NEW s \in Seq(S), s # <<>>
    PROVE  /\ Len(s) \in Nat /\ Len(s) > 0 /\ DOMAIN s = 1..Len(s)
           /\ Head(s) \in S /\ Head(s) = s[1]
           /\ Tail(s) \in Seq(S) /\ Len(Tail(s)) = Len(s) - 1
           /\ DOMAIN Tail(s) = 1..(Len(s) - 1)
           /\ \A i \in 1..(Len(s) - 1) : Tail(s)[i] = s[i + 1]
  OBVIOUS

\* What Append returns.
LEMMA AppendFacts ==
    ASSUME NEW S, NEW s \in Seq(S), NEW x \in S
    PROVE  /\ Append(s, x) \in Seq(S) /\ Len(Append(s, x)) = Len(s) + 1
           /\ Len(s) \in Nat /\ DOMAIN s = 1..Len(s)
           /\ DOMAIN Append(s, x) = 1..(Len(s) + 1)
           /\ \A i \in 1..Len(s) : Append(s, x)[i] = s[i]
           /\ Append(s, x)[Len(s) + 1] = x
  OBVIOUS

\* Add keeps the newest responses: what was evicted is the oldest one.
LEMMA AddFacts ==
    ASSUME NEW s \in Seq(Responses), Len(s) <= BufferCapacity, NEW x \in Responses
    PROVE  /\ Add(s, x) \in Seq(Responses)
           /\ Len(Add(s, x)) <= BufferCapacity
           /\ Len(s) < BufferCapacity => Len(Add(s, x)) = Len(s) + 1
           /\ Len(s) = BufferCapacity => Len(Add(s, x)) = Len(s)
           /\ Items(Add(s, x)) \subseteq Items(s) \cup {x}
           /\ \A a, b \in Int : Follows(s, a) /\ x.id = a + Len(s) + 1
                                   /\ b + Len(Add(s, x)) = a + Len(s) + 1
                                => Follows(Add(s, x), b)
  <1>0. BufferCapacity \in Nat \ {0}
    BY ExecutorAssumption, Zenon
  <1>1. CASE Len(s) >= BufferCapacity
    <2>1. s # <<>> /\ Len(s) = BufferCapacity
      BY <1>0, <1>1
    <2>2. Add(s, x) = Append(Tail(s), x)
      BY <1>1, Zenon DEF Add
    <2>. DEFINE t == Tail(s)
    <2>3. /\ t \in Seq(Responses) /\ Len(t) = Len(s) - 1 /\ DOMAIN s = 1..Len(s)
          /\ \A i \in 1..(Len(s) - 1) : t[i] = s[i + 1]
      BY <2>1, TailFacts, Zenon
    <2>. HIDE DEF t
    <2>4. /\ Append(t, x) \in Seq(Responses) /\ Len(Append(t, x)) = Len(s)
          /\ DOMAIN Append(t, x) = 1..Len(s)
          /\ \A i \in 1..(Len(s) - 1) : Append(t, x)[i] = s[i + 1]
          /\ Append(t, x)[Len(s)] = x
      BY <2>1, <2>3, <1>0, AppendFacts
    <2>5. Items(Append(t, x)) \subseteq Items(s) \cup {x}
      BY <2>3, <2>4, <2>1, <1>0, SMTT(30) DEF Items
    <2>6. \A a, b \in Int : Follows(s, a) /\ x.id = a + Len(s) + 1 /\ b = a + 1
                                => Follows(Append(t, x), b)
      <3>. SUFFICES ASSUME NEW a \in Int, NEW b \in Int, Follows(s, a), x.id = a + Len(s) + 1,
                           b = a + 1, NEW i \in 1..Len(s)
                    PROVE  Append(t, x)[i].id = b + i
        BY <2>4, SMTT(30) DEF Follows
      <3>1. CASE i = Len(s)
        BY <3>1, <2>4
      <3>2. CASE i # Len(s)
        <4>1. i \in 1..(Len(s) - 1) /\ i + 1 \in DOMAIN s
          BY <3>2, <2>3
        <4>2. s[i + 1].id = a + (i + 1)
          BY <4>1, Zenon DEF Follows
        <4>3. QED
          BY <4>1, <4>2, <2>4
      <3>3. QED
        BY <3>1, <3>2, Zenon
    <2>7. QED
      BY <2>1, <2>2, <2>4, <2>5, <2>6 DEF t
  <1>2. CASE ~ (Len(s) >= BufferCapacity)
    <2>2. Add(s, x) = Append(s, x)
      BY <1>2, Zenon DEF Add
    <2>4. /\ Append(s, x) \in Seq(Responses) /\ Len(Append(s, x)) = Len(s) + 1
          /\ DOMAIN Append(s, x) = 1..(Len(s) + 1) /\ DOMAIN s = 1..Len(s)
          /\ \A i \in 1..Len(s) : Append(s, x)[i] = s[i]
          /\ Append(s, x)[Len(s) + 1] = x
      BY AppendFacts
    <2>5. Items(Append(s, x)) \subseteq Items(s) \cup {x}
      BY <2>4 DEF Items
    <2>6. \A a \in Int : Follows(s, a) /\ x.id = a + Len(s) + 1 => Follows(Append(s, x), a)
      BY <2>4 DEF Follows
    <2>7. \A a, b \in Int : Follows(s, a) /\ x.id = a + Len(s) + 1
                                /\ b + Len(Add(s, x)) = a + Len(s) + 1
                             => Follows(Add(s, x), b)
      <3>. SUFFICES ASSUME NEW a \in Int, NEW b \in Int, Follows(s, a), x.id = a + Len(s) + 1,
                           b + Len(Add(s, x)) = a + Len(s) + 1
                    PROVE  Follows(Add(s, x), b)
        BY Zenon
      <3>1. a = b
        BY <2>2, <2>4
      <3>2. QED
        BY <3>1, <2>2, <2>6, Zenon
    <2>8. /\ Len(Add(s, x)) <= BufferCapacity
          /\ Len(s) < BufferCapacity => Len(Add(s, x)) = Len(s) + 1
          /\ Len(s) = BufferCapacity => Len(Add(s, x)) = Len(s)
      <3>1. Len(s) \in Nat /\ Len(s) < BufferCapacity
        BY <1>0, <1>2
      <3>2. Len(Add(s, x)) = Len(s) + 1
        BY <2>2, <2>4, Zenon
      <3>3. QED
        BY <1>0, <3>1, <3>2
    <2>9. QED
      BY <2>2, <2>4, <2>5, <2>7, <2>8, Zenon
  <1>3. QED
    BY <1>1, <1>2, Zenon

\* RemoveUntil drops the responses up to the named one, and nothing when the
\* named one is gone already.
LEMMA RemoveUntilFacts ==
    ASSUME NEW s \in Seq(Responses), NEW a \in Nat, Follows(s, a), NEW id \in Nat,
           id <= a + Len(s)
    PROVE  /\ RemoveUntil(s, id) \in Seq(Responses)
           /\ Len(RemoveUntil(s, id)) = IF id > a THEN a + Len(s) - id ELSE Len(s)
           /\ Items(RemoveUntil(s, id)) \subseteq Items(s)
           /\ Follows(RemoveUntil(s, id), IF id > a THEN id ELSE a)
  <1>. DEFINE found == {i \in DOMAIN s : s[i].id = id}
  <1>0. DOMAIN s = 1..Len(s) /\ Len(s) \in Nat
    OBVIOUS
  <1>1. CASE id > a
    <2>1. found = {id - a}
      BY <1>0, <1>1 DEF Follows
    <2>2. RemoveUntil(s, id) = SubSeq(s, id - a + 1, Len(s))
      BY <2>1, Zenon DEF RemoveUntil
    <2>. DEFINE t == SubSeq(s, id - a + 1, Len(s))
    <2>3. /\ t \in Seq(Responses) /\ Len(t) = a + Len(s) - id
          /\ DOMAIN t = 1..(a + Len(s) - id)
          /\ \A i \in 1..(a + Len(s) - id) : t[i] = s[id - a + i]
      BY <1>0, <1>1
    <2>. HIDE DEF t
    <2>4. Follows(t, id)
      <3>. SUFFICES ASSUME NEW i \in 1..(a + Len(s) - id) PROVE t[i].id = id + i
        BY <2>3, Zenon DEF Follows
      <3>1. id - a + i \in DOMAIN s
        BY <1>0, <1>1
      <3>2. s[id - a + i].id = a + (id - a + i)
        BY <3>1, Zenon DEF Follows
      <3>3. QED
        BY <3>2, <2>3
    <2>5. Items(t) \subseteq Items(s)
      <3>1. \A i \in 1..(a + Len(s) - id) : id - a + i \in DOMAIN s
        BY <1>0, <1>1
      <3>2. QED
        BY <3>1, <2>3, Zenon DEF Items
    <2>6. QED
      BY <1>1, <2>2, <2>3, <2>4, <2>5, Zenon DEF t
  <1>2. CASE ~ (id > a)
    <2>1. found = {}
      BY <1>0, <1>2 DEF Follows
    <2>2. RemoveUntil(s, id) = s
      BY <2>1, Zenon DEF RemoveUntil
    <2>3. QED
      BY <1>2, <2>2, Zenon
  <1>3. QED
    BY <1>1, <1>2, Zenon
-----------------------------------------------------------------------------
(* What the actions do to the fields of the records.  Every step of Next is *)
(* one of these effects; the invariants are then proved of the effects.     *)

\* The task saves a response with this data and is about to send it.
Saves(data) ==
    /\ data \in Int
    /\ task.result = "running" /\ task.out = NoResponse /\ task.replay = <<>>
    /\ task'.result = "running" /\ task'.out = Response(context.nextId, data)
    /\ task'.replay = <<>> /\ task'.phase # "replay"
    /\ context'.nextId = context.nextId + 1
    /\ context'.buffer = Add(context.buffer, Response(context.nextId, data))
    /\ data \in 1..Batches => data = context.taken + 1 /\ context'.taken = context.taken + 1
    /\ data \notin 1..Batches => context'.taken = context.taken
    /\ data = Complete => context.taken = Batches
    /\ task'.phase = "complete" => context'.taken = Batches
    /\ used'.trouble = used.trouble /\ used'.held = used.held /\ used'.overlap = used.overlap
    /\ UNCHANGED <<state, channel, requests, session, client>>

\* The task is about to send a saved response again.
Replays ==
    /\ task.result = "running" /\ task.out = NoResponse /\ task.replay # <<>>
    /\ task'.result = "running" /\ task'.out = Head(task.replay)
    /\ task'.replay = Tail(task.replay) /\ task'.phase = task.phase
    /\ UNCHANGED <<state, context, channel, requests, session, client, used>>

Returns(result) ==
    /\ task.result = "running" /\ result \in {"paused", "completed", "failed"}
    /\ task'.result = result /\ task'.out = NoResponse
    /\ task'.replay = task.replay /\ task'.phase = task.phase
    /\ result = "failed" => used.trouble = "none" /\ used'.trouble = "query fails"
    /\ result # "failed" => used'.trouble = used.trouble
    /\ used'.held = used.held /\ used'.overlap = used.overlap
    /\ UNCHANGED <<state, context, channel, requests, session, client>>

Sends ==
    /\ task.result = "running" /\ task.out # NoResponse /\ channel.open /\ channel.queue = <<>>
    /\ channel'.queue = <<task.out>> /\ channel'.wire = channel.wire
    /\ channel'.owner = channel.owner /\ channel'.open
    /\ task'.result = "running" /\ task'.out = NoResponse
    /\ task'.replay = task.replay /\ task'.phase = task.phase
    /\ UNCHANGED <<state, context, requests, session, client, used>>

\* A task begins, for the stream of owner.
Begins(owner) ==
    /\ state' = "Running"
    /\ task'.result = "running" /\ task'.out = NoResponse
    /\ task'.replay = context.buffer /\ task'.phase = "replay"
    /\ channel'.owner = owner /\ channel'.open /\ channel'.queue = <<>> /\ channel'.wire = <<>>

\* Handler r goes on at pc, and the others stay where they are.
GoesTo(r, pc) ==
    /\ requests'[r].pc = pc
    /\ \A q \in Callers : /\ requests'[q].last = requests[q].last
                          /\ q # r => requests'[q].pc = requests[q].pc

\* The client no longer waits for request r.
Answered(r, stream) ==
    /\ client.awaits = r =>
          client'.awaits = NoStream /\ client'.stream = stream /\ client'.error = (stream = NoStream)
    /\ client.awaits # r =>
          /\ client'.awaits = client.awaits /\ client'.stream = client.stream
          /\ client'.error = client.error
    /\ client'.last = client.last /\ client'.got = client.got /\ client'.done = client.done
Executes ==
    /\ channel.owner = NoStream /\ Begins(Execute)
    /\ UNCHANGED <<context, requests, session, client, used>>

Adds ==
    /\ channel.owner = Execute /\ client.awaits = Execute
    /\ session' = TRUE
    /\ Answered(Execute, Execute) /\ client'.rest = client.rest
    /\ UNCHANGED <<state, context, task, channel, requests, used>>

Gets(r) ==
    /\ r \in Request /\ requests[r].pc = "called"
    /\ session => GoesTo(r, "pause") /\ UNCHANGED client
    /\ ~session => GoesTo(r, "done") /\ Answered(r, NoStream) /\ client'.rest = client.rest
    /\ UNCHANGED <<state, context, task, channel, session, used>>

Pauses(r, done) ==
    /\ <<r, done>> \in (Request \X {"release"}) \cup {<<Interrupt, "done">>}
    /\ requests[r].pc = "pause"
    /\ state = "Running" => state' = "Pausing" /\ GoesTo(r, "wait")
    /\ state # "Running" => state' = state /\ GoesTo(r, done)
    /\ task'.result = task.result /\ task'.out = task.out
    /\ task'.replay = task.replay /\ task'.phase = task.phase
    /\ used'.trouble = used.trouble /\ used'.held = used.held
    /\ used'.overlap = (used.overlap \/ state = "Pausing" \/ Pausers \ {r} # {})
    /\ UNCHANGED <<context, channel, session, client>>

HasPaused(r, done) ==
    /\ <<r, done>> \in (Request \X {"release"}) \cup {<<Interrupt, "done">>}
    /\ requests[r].pc = "wait" /\ task.result # "running"
    /\ <<task.result, state'>> \in {<<"paused", "Pending">>, <<"completed", "Idle">>,
                                   <<"failed", "Failed">>}
    /\ GoesTo(r, done)
    /\ UNCHANGED <<context, task, channel, session, client, used>>

\* The buffer is released up to id, when the executor has it.
Frees(id) ==
    /\ context'.nextId = context.nextId /\ context'.taken = context.taken
    /\ context'.buffer = IF state \in {"Running", "Pending"} THEN RemoveUntil(context.buffer, id)
                         ELSE context.buffer

Releases(r) ==
    /\ r \in Request /\ requests[r].pc = "release"
    /\ Frees(requests[r].last)
    /\ GoesTo(r, "start")
    /\ UNCHANGED <<state, task, channel, session, client, used>>

Starts(r) ==
    /\ r \in Request /\ requests[r].pc = "start" /\ state = "Pending"
    /\ Begins(r) /\ Answered(r, r)
    /\ client'.rest = (IF client.awaits = r THEN <<>> ELSE Rest)
    /\ GoesTo(r, "done")
    /\ UNCHANGED <<context, session, used>>

Refuses(r) ==
    /\ r \in Request /\ requests[r].pc = "start" /\ state # "Pending"
    /\ Answered(r, NoStream) /\ client'.rest = client.rest
    /\ GoesTo(r, "done")
    /\ UNCHANGED <<state, context, task, channel, session, used>>

\* The client loses its request; the handler is dropped with it, or goes on.
Loses(dropped) ==
    /\ client.awaits \in Request
    /\ dropped => requests[client.awaits].pc = "wait" /\ GoesTo(client.awaits, "done")
    /\ ~dropped => UNCHANGED requests
    /\ client'.awaits = NoStream /\ client'.stream = client.stream /\ client'.rest = client.rest
    /\ client'.error = client.error
    /\ client'.last = client.last /\ client'.got = client.got /\ client'.done = client.done
    /\ used.trouble = "none" /\ used'.trouble \notin {"none", "interrupt"}
    /\ used'.held = used.held /\ used'.overlap = used.overlap
    /\ UNCHANGED <<state, context, task, channel, session>>

FreesForClient ==
    /\ \/ Frees(client.last)
       \/ UNCHANGED context
    /\ used'.trouble = used.trouble /\ used'.held = used.held /\ used'.overlap = used.overlap
    /\ UNCHANGED <<state, task, channel, requests, session, client>>

Removes ==
    /\ used.trouble = "none" /\ used'.trouble = "interrupt"
    /\ used'.held = Holders /\ used'.overlap = used.overlap
    /\ session' = FALSE
    /\ GoesTo(Interrupt, IF session THEN "pause" ELSE "done")
    /\ UNCHANGED <<state, context, task, channel, client>>

Transmits ==
    /\ channel.open /\ channel.queue # <<>> /\ Len(channel.wire) < InFlight
    /\ channel'.owner = channel.owner /\ channel'.open
    /\ channel'.wire = channel.wire \o channel.queue /\ channel'.queue = <<>>
    /\ UNCHANGED <<state, context, task, requests, session, client, used>>

Gains(out) ==
    /\ client.stream # NoStream /\ ~client.done
    /\ client'.stream = client.stream /\ client'.awaits = client.awaits
    /\ client'.error = client.error
    /\ client'.last = out.id
    /\ client'.got = (IF out.data \in 1..Batches THEN Append(client.got, out.data) ELSE client.got)
    /\ client'.done = (out.data = Complete)
    /\ UNCHANGED <<state, context, task, requests, session, used>>

Receives ==
    /\ channel.owner = client.stream /\ channel.wire # <<>>
    /\ Gains(Head(channel.wire)) /\ client'.rest = client.rest
    /\ channel'.owner = channel.owner /\ channel'.open = channel.open
    /\ channel'.wire = Tail(channel.wire) /\ channel'.queue = channel.queue

ReceivesRest ==
    /\ channel.owner # client.stream /\ client.rest # <<>>
    /\ Gains(Head(client.rest)) /\ client'.rest = Tail(client.rest)
    /\ UNCHANGED channel

\* The stream of the client is over, for it ended or broke.
Detaches ==
    /\ client.stream # NoStream
    /\ client'.stream = NoStream /\ client'.awaits = client.awaits
    /\ client'.rest \in {client.rest, <<>>} /\ client'.error = client.error
    /\ client'.last = client.last /\ client'.got = client.got /\ client'.done = client.done
    /\ used'.trouble = used.trouble /\ used'.held = used.held /\ used'.overlap = used.overlap
    /\ UNCHANGED <<state, context, task, channel, requests, session>>

Notices ==
    /\ channel.open /\ channel.owner \notin {client.stream, client.awaits}
    /\ channel'.owner = channel.owner /\ ~channel'.open
    /\ channel'.queue = <<>> /\ channel'.wire = <<>>
    /\ UNCHANGED <<state, context, task, requests, session, client, used>>

Asks(r) ==
    /\ r \in Request /\ requests[r].pc = "unused"
    /\ client.stream = NoStream /\ client.awaits = NoStream /\ ~client.error
    /\ requests'[r] = [pc |-> "called", last |-> client.last]
    /\ \A q \in Callers : q # r => requests'[q] = requests[q]
    /\ client'.awaits = r /\ client'.stream = client.stream /\ client'.rest = client.rest
    /\ client'.error = client.error
    /\ client'.last = client.last /\ client'.got = client.got /\ client'.done = client.done
    /\ UNCHANGED <<state, context, task, channel, session, used>>
-----------------------------------------------------------------------------
\* What saving a response does to the context.
LEMMA SaveFacts ==
    ASSUME context \in Contexts, NEW data \in Int, Save(data),
           Len(context.buffer) <= BufferCapacity
    PROVE  /\ Response(context.nextId, data) \in Responses
           /\ context' \in Contexts
           /\ context'.taken = context.taken
           /\ context'.nextId = context.nextId + 1
           /\ context'.buffer = Add(context.buffer, Response(context.nextId, data))
  <1>1. Response(context.nextId, data) \in Responses
    BY Zenon DEF Contexts, Response, Responses
  <1>2. context.buffer \in Seq(Responses)
    BY Zenon DEF Contexts
  <1>3. Add(context.buffer, Response(context.nextId, data)) \in Seq(Responses)
    BY <1>1, <1>2, AddFacts, Zenon
  <1>4. context.nextId + 1 \in Nat \ {0}
    BY DEF Contexts
  <1>. DEFINE b == Add(context.buffer, Response(context.nextId, data))
              n == context.nextId + 1
  <1>5. context' = [context EXCEPT !.buffer = b, !.nextId = n]
    BY Zenon DEF Save
  <1>. HIDE DEF b, n
  <1> b \in Seq(Responses) /\ n \in Nat \ {0}
    BY <1>3, <1>4, Zenon DEF b, n
  <1> context' \in Contexts /\ context'.taken = context.taken /\ context'.nextId = n
          /\ context'.buffer = b
    BY <1>5, Zenon DEF Contexts
  <1>8. QED
    BY <1>1, Zenon DEF b, n

\* What a step of handler r does to the handlers.
LEMMA GoesToFacts ==
    ASSUME requests \in [Callers -> Handlers], NEW r \in Callers, NEW pc \in Pc,
           requests' = [requests EXCEPT ![r].pc = pc]
    PROVE  requests' \in [Callers -> Handlers] /\ GoesTo(r, pc)
  BY Zenon DEF Handlers, GoesTo

\* A step of the task that saves a response.
LEMMA SavingSteps ==
    ASSUME Shape, Places,
           (Replay /\ task.replay = <<>>) \/ NextBatch \/ Heartbeat \/ EndOfStream \/ SendComplete
    PROVE  Shape' /\ \E data \in Int : Saves(data)
  <1>0. Batches \in Nat /\ context.taken \in 0..Batches
    BY ExecutorAssumption, Zenon DEF Shape, Contexts
  <1>1. ASSUME NEW data \in Int, NEW phase \in {"batches", "complete", "end"},
               data \notin 1..Batches, Output(data, phase), task.replay = <<>>,
               data = Complete \/ phase = "complete" => context.taken = Batches,
               task.result = "running", task.out = NoResponse,
               UNCHANGED <<state, channel, requests, session, client, used>>
        PROVE  Shape' /\ Saves(data)
    <2> USE <1>1
    <2> /\ Response(context.nextId, data) \in Responses
        /\ context' \in Contexts
        /\ context'.taken = context.taken
        /\ context'.nextId = context.nextId + 1
        /\ context'.buffer = Add(context.buffer, Response(context.nextId, data))
      BY SaveFacts, Zenon DEF Output, Shape, Places
    <2> /\ task' \in Tasks /\ task'.result = "running" /\ task'.phase = phase
        /\ task'.out = Response(context.nextId, data) /\ task'.replay = <<>>
      BY Zenon DEF Output, Shape, Tasks
    <2>3. QED
      BY Zenon DEF Saves, Shape
  <1>2. CASE Replay /\ task.replay = <<>>
    BY <1>2, <1>1 DEF Replay, Running, Schema, Complete
  <1>3. CASE NextBatch
    <2>. DEFINE data == context.taken + 1
    <2>1. data \in 1..Batches /\ data \in Int
      BY <1>0, <1>3 DEF NextBatch
    <2>2. Response(context.nextId, data) \in Responses
      BY <2>1, Zenon DEF Shape, Contexts, Response, Responses
    <2>3. Add(context.buffer, Response(context.nextId, data)) \in Seq(Responses)
      BY <2>2, AddFacts DEF Shape, Contexts, Places
    <2>4. /\ context' \in Contexts /\ context'.taken = data
          /\ context'.nextId = context.nextId + 1
          /\ context'.buffer = Add(context.buffer, Response(context.nextId, data))
      <3>. DEFINE b == Add(context.buffer, Response(context.nextId, data))
                  n == context.nextId + 1
      <3>1. context' = [context EXCEPT !.buffer = b, !.nextId = n, !.taken = data]
        BY <1>3, Zenon DEF NextBatch, Shape, Contexts
      <3> b \in Seq(Responses) /\ n \in Nat \ {0} /\ data \in 0..Batches
        BY <2>1, <2>3, <1>0 DEF Shape, Contexts
      <3>. HIDE DEF b, n, data
      <3> context' \in Contexts /\ context'.taken = data /\ context'.nextId = n
              /\ context'.buffer = b
        BY <3>1, Zenon DEF Contexts, Shape
      <3>4. QED
        BY Zenon DEF b, n
    <2> /\ task' \in Tasks /\ task'.result = "running" /\ task'.phase = "batches"
        /\ task'.out = Response(context.nextId, data) /\ task'.replay = task.replay
      BY <1>3, <2>2, Zenon DEF NextBatch, Running, Shape, Tasks
    <2> Saves(data)
      BY <1>3, <2>1, <2>4 DEF NextBatch, Running, Saves, Places, Complete
    <2>7. QED
      BY <1>3, <2>1, <2>4, Zenon DEF NextBatch, Shape
  <1>4. CASE Heartbeat
    <2> USE <1>4
    <2> /\ Response(context.nextId, Empty) \in Responses
        /\ context' \in Contexts
        /\ context'.taken = context.taken
        /\ context'.nextId = context.nextId + 1
        /\ context'.buffer = Add(context.buffer, Response(context.nextId, Empty))
      BY SaveFacts DEF Heartbeat, Shape, Places, Empty
    <2> /\ task' \in Tasks /\ task'.result = "running" /\ task'.phase = "batches"
        /\ task'.out = Response(context.nextId, Empty) /\ task'.replay = task.replay
      BY Zenon DEF Heartbeat, Running, Shape, Tasks
    <2> /\ used' \in Bounds /\ used'.trouble = used.trouble /\ used'.held = used.held
        /\ used'.overlap = used.overlap
      BY DEF Heartbeat, Shape, Bounds
    <2> Empty \in Int /\ Empty \notin 1..Batches /\ Empty # Complete
      BY <1>0 DEF Empty, Complete
    <2> Saves(Empty)
      BY Zenon DEF Heartbeat, Running, Saves, Places
    <2>6. QED
      BY Zenon DEF Heartbeat, Shape
  <1>5. CASE EndOfStream
    <2> Empty \notin 1..Batches /\ Complete \notin 1..Batches /\ Empty \in Int /\ Complete \in Int
      BY <1>0 DEF Empty, Complete
    <2> /\ task.replay = <<>> /\ task.result = "running" /\ task.out = NoResponse
        /\ context.taken = Batches
        /\ UNCHANGED <<state, channel, requests, session, client, used>>
      BY <1>5, Zenon DEF EndOfStream, Running, Places
    <2>3. CASE Output(Empty, "complete")
      BY <2>3, <1>1, Zenon
    <2>4. CASE Output(Complete, "end")
      BY <2>4, <1>1, Zenon
    <2>5. QED
      BY <1>5, <2>3, <2>4, Zenon DEF EndOfStream
  <1>6. CASE SendComplete
    <2> Complete \notin 1..Batches /\ Complete \in Int
      BY <1>0 DEF Complete
    <2>2. QED
      BY <1>6, <1>1, Zenon DEF SendComplete, Running, Places
  <1>7. QED
    BY <1>2, <1>3, <1>4, <1>5, <1>6, Zenon

\* A step of the task.
LEMMA TaskSteps ==
    ASSUME Shape, Places, Task
    PROVE  /\ Shape'
           /\ \/ \E data \in Int : Saves(data)
              \/ Replays
              \/ \E result \in {"paused", "completed", "failed"} : Returns(result)
              \/ Sends
  <1>1. CASE Replay /\ task.replay # <<>>
    <2> USE <1>1
    <2> Head(task.replay) \in Responses /\ Tail(task.replay) \in Seq(Responses)
      BY TailFacts, Zenon DEF Shape, Tasks
    <2> /\ task' \in Tasks /\ task'.result = task.result /\ task'.out = Head(task.replay)
        /\ task'.replay = Tail(task.replay) /\ task'.phase = task.phase
      BY ZenonT(30) DEF Replay, Shape, Tasks
    <2>3. QED
      BY Zenon DEF Replay, Running, Replays, Shape
  <1>2. ASSUME NEW result \in {"paused", "completed", "failed"}, Return(result),
               task.result = "running"
        PROVE  /\ task' \in Tasks /\ task'.result = result /\ task'.out = NoResponse
               /\ task'.replay = task.replay /\ task'.phase = task.phase
    BY <1>2, Zenon DEF Return, Shape, Tasks
  <1>3. CASE Finish
    <2> USE <1>3
    <2> Returns("completed")
      BY <1>2, Zenon DEF Finish, Running, Returns
    <2>2. QED
      BY <1>2, Zenon DEF Finish, Running, Shape
  <1>4. CASE QueryFails
    <2> USE <1>4
    <2> /\ used' \in Bounds /\ used'.trouble = "query fails" /\ used'.held = used.held
        /\ used'.overlap = used.overlap
      BY Zenon DEF QueryFails, Happens, Shape, Bounds
    <2> Returns("failed")
      BY <1>2, Zenon DEF QueryFails, Running, Happens, Returns
    <2>3. QED
      BY <1>2, Zenon DEF QueryFails, Running, Shape
  <1>5. CASE Send /\ channel.open
    <2> USE <1>5
    <2>1. task.out \in Responses /\ <<task.out>> \in Seq(Responses)
      BY DEF Send, Shape, Tasks
    <2> /\ channel' \in Channels
        /\ channel'.queue = <<task.out>> /\ channel'.wire = channel.wire
        /\ channel'.owner = channel.owner /\ channel'.open = channel.open
      BY <2>1, Zenon DEF Send, Shape, Channels
    <2> /\ task' \in Tasks /\ task'.result = task.result /\ task'.out = NoResponse
        /\ task'.replay = task.replay /\ task'.phase = task.phase
      BY Zenon DEF Send, Shape, Tasks
    <2> Sends
      BY Zenon DEF Send, Sends
    <2>5. QED
      BY Zenon DEF Send, Shape
  <1>6. CASE (Send /\ ~channel.open) \/ Notified
    <2> USE <1>6
    <2> Returns("paused")
      BY <1>2, Zenon DEF Send, Notified, Returns
    <2>2. QED
      BY <1>2, Zenon DEF Send, Notified, Shape
  <1>7. QED
    BY <1>1, <1>3, <1>4, <1>5, <1>6, SavingSteps, Zenon DEF Task, Replay

\* The start of a task, and the answer to a request.
LEMMA BeginFacts ==
    ASSUME Shape, NEW r \in Request \cup {Execute}, Run(r)
    PROVE  Begins(r) /\ state' \in States /\ task' \in Tasks /\ channel' \in Channels
  <1> context.buffer \in Seq(Responses)
    BY Zenon DEF Shape, Contexts
  <1>2. QED
    BY DEF Run, Begins, NewTask, NewChannel, Tasks, Channels, States, Streams

\* An answer reaches the client when it waits for that request.
LEMMA AnswerFacts ==
    ASSUME Shape, NEW r \in Streams, NEW stream \in Streams, client' = Answer(r, stream)
    PROVE  client' \in Clients /\ Answered(r, stream) /\ client'.rest = client.rest
  <1>1. CASE client.awaits # r
    BY <1>1, Zenon DEF Answer, Answered, Shape
  <1>2. CASE client.awaits = r
    <2>. DEFINE e == (stream = NoStream)
    <2>1. NoStream \in Streams /\ e \in BOOLEAN
      BY Zenon DEF Streams
    <2> client' = [client EXCEPT !.awaits = NoStream, !.stream = stream, !.error = e]
      BY <1>2, Zenon DEF Answer
    <2>. HIDE DEF e
    <2> /\ client' \in Clients
        /\ client'.awaits = NoStream /\ client'.stream = stream /\ client'.error = e
        /\ client'.rest = client.rest /\ client'.last = client.last
        /\ client'.got = client.got /\ client'.done = client.done
      BY <2>1, Zenon DEF Shape, Clients
    <2>4. QED
      BY <1>2, Zenon DEF Answered, e
  <1>3. QED
    BY <1>1, <1>2, Zenon

\* A step of pause_if_running.
LEMMA PauseSteps ==
    ASSUME Shape, NEW r, NEW done,
           <<r, done>> \in (Request \X {"release"}) \cup {<<Interrupt, "done">>},
           \/ /\ requests[r].pc = "pause" /\ PauseIfRunning(r, done)
              /\ UNCHANGED <<context, channel, session, client>>
           \/ /\ requests[r].pc = "wait" /\ Paused(r, done)
              /\ UNCHANGED <<context, task, channel, session, client, used>>
    PROVE  Shape' /\ (Pauses(r, done) \/ HasPaused(r, done))
  <1>0. r \in Callers /\ done \in Pc /\ "wait" \in Pc
    BY Zenon DEF Callers, Pc
  <1>1. CASE requests[r].pc = "pause" /\ PauseIfRunning(r, done)
                /\ UNCHANGED <<context, channel, session, client>>
    <2>1. /\ used' \in Bounds /\ used'.trouble = used.trouble /\ used'.held = used.held
          /\ used'.overlap = (used.overlap \/ state = "Pausing" \/ Pausers \ {r} # {})
      BY <1>1, Zenon DEF PauseIfRunning, Shape, Bounds
    <2>2. CASE state = "Running"
      <3> state' = "Pausing" /\ requests' = [requests EXCEPT ![r].pc = "wait"]
              /\ task' = [task EXCEPT !.notified = TRUE]
        BY <1>1, <2>2, Zenon DEF PauseIfRunning
      <3>2. requests' \in [Callers -> Handlers] /\ GoesTo(r, "wait")
        BY <1>0, GoesToFacts, Zenon DEF Shape
      <3> /\ task' \in Tasks /\ task'.result = task.result /\ task'.out = task.out
          /\ task'.replay = task.replay /\ task'.phase = task.phase
        BY Zenon DEF Shape, Tasks
      <3> Pauses(r, done)
        BY <1>1, <2>1, <2>2, <3>2, Zenon DEF Pauses
      <3>5. QED
        BY <1>1, <2>1, <3>2, Zenon DEF Shape, States
    <2>3. CASE state # "Running"
      <3> requests' = [requests EXCEPT ![r].pc = done] /\ UNCHANGED <<state, task>>
        BY <1>1, <2>3, Zenon DEF PauseIfRunning
      <3> requests' \in [Callers -> Handlers] /\ GoesTo(r, done)
        BY <1>0, GoesToFacts, Zenon DEF Shape
      <3> Pauses(r, done)
        BY <1>1, <2>1, <2>3, Zenon DEF Pauses
      <3>5. QED
        BY <1>1, <2>1, Zenon DEF Shape
    <2>4. QED
      BY <2>2, <2>3, Zenon
  <1>2. CASE requests[r].pc = "wait" /\ Paused(r, done)
                /\ UNCHANGED <<context, task, channel, session, client, used>>
    <2> USE <1>2
    <2> requests' \in [Callers -> Handlers] /\ GoesTo(r, done)
      BY <1>0, GoesToFacts, Zenon DEF Shape, Paused
    <2> /\ state' \in States
        /\ <<task.result, state'>> \in {<<"paused", "Pending">>, <<"completed", "Idle">>,
                                       <<"failed", "Failed">>}
      BY Zenon DEF Paused, Shape, Tasks, States
    <2> HasPaused(r, done)
      BY Zenon DEF HasPaused, Paused
    <2>4. QED
      BY Zenon DEF Shape
  <1>3. QED
    BY <1>1, <1>2, Zenon

\* A release of the buffer.
LEMMA ReleaseFacts ==
    ASSUME Shape, Places, NEW id \in Nat, id < context.nextId, Release(id)
    PROVE  context' \in Contexts /\ Frees(id)
  <1>1. context.buffer \in Seq(Responses) /\ Len(context.buffer) \in Nat /\ context.nextId \in Nat
    BY DEF Shape, Contexts
  <1> RemoveUntil(context.buffer, id) \in Seq(Responses)
    <2>1. CASE {i \in DOMAIN context.buffer : context.buffer[i].id = id} = {}
      BY <1>1, <2>1, Zenon DEF RemoveUntil
    <2>2. CASE {i \in DOMAIN context.buffer : context.buffer[i].id = id} # {}
      <3> PICK i \in DOMAIN context.buffer :
              RemoveUntil(context.buffer, id) = SubSeq(context.buffer, i + 1, Len(context.buffer))
        BY <2>2, Zenon DEF RemoveUntil
      <3> i \in Nat /\ i + 1 \in 1..(Len(context.buffer) + 1)
        BY <1>1
      <3>3. QED
        BY <1>1
    <2>3. QED
      BY <2>1, <2>2, Zenon
  <1>3. QED
    BY Zenon DEF Release, Frees, Shape, Contexts

\* A step of a handler.
LEMMA HandlerSteps ==
    ASSUME Shape, Places, IdsAreKnown,
           ExecutePlan \/ AddExecutor \/ (\E r \in Request : Reattach(r)) \/ InterruptPauses
    PROVE  /\ Shape'
           /\ \/ Executes \/ Adds
              \/ \E r \in Request : Gets(r) \/ Releases(r) \/ Starts(r) \/ Refuses(r)
              \/ \E r, done : Pauses(r, done) \/ HasPaused(r, done)
  <1>1. CASE ExecutePlan
    <2> USE <1>1
    <2> Begins(Execute) /\ state' \in States /\ task' \in Tasks /\ channel' \in Channels
      BY BeginFacts, Zenon DEF ExecutePlan
    <2>2. QED
      BY Zenon DEF ExecutePlan, Executes, Shape
  <1>2. CASE AddExecutor
    <2> USE <1>2
    <2> client' \in Clients /\ Answered(Execute, Execute) /\ client'.rest = client.rest
      BY AnswerFacts, Zenon DEF AddExecutor, Streams
    <2>2. QED
      BY Zenon DEF AddExecutor, Adds, Shape
  <1>3. ASSUME NEW r \in Request, GetExecutor(r)
        PROVE  Shape' /\ Gets(r)
    <2> USE <1>3
    <2> r \in Callers /\ r \in Streams /\ NoStream \in Streams /\ {"pause", "done"} \subseteq Pc
      BY Zenon DEF Callers, Streams, Pc
    <2>1. CASE session
      <3> USE <2>1
      <3> requests' \in [Callers -> Handlers] /\ GoesTo(r, "pause")
        BY GoesToFacts, Zenon DEF GetExecutor, Shape
      <3>2. QED
        BY Zenon DEF GetExecutor, Gets, Shape
    <2>2. CASE ~session
      <3> USE <2>2
      <3> requests' \in [Callers -> Handlers] /\ GoesTo(r, "done")
        BY GoesToFacts, Zenon DEF GetExecutor, Shape
      <3> client' \in Clients /\ Answered(r, NoStream) /\ client'.rest = client.rest
        BY AnswerFacts, Zenon DEF GetExecutor
      <3>3. QED
        BY Zenon DEF GetExecutor, Gets, Shape
    <2>3. QED
      BY <2>1, <2>2, Zenon
  <1>4. ASSUME NEW r \in Request, ReattachPauses(r) \/ ReattachPaused(r)
        PROVE  Shape' /\ (Pauses(r, "release") \/ HasPaused(r, "release"))
    BY <1>4, PauseSteps, Zenon DEF ReattachPauses, ReattachPaused
  <1>5. ASSUME NEW r \in Request, ReattachReleases(r)
        PROVE  Shape' /\ Releases(r)
    <2> USE <1>5
    <2> r \in Callers /\ "start" \in Pc
      BY Zenon DEF Callers, Pc
    <2>1. requests' \in [Callers -> Handlers] /\ GoesTo(r, "start")
      BY GoesToFacts, Zenon DEF ReattachReleases, Shape
    <2> requests[r].last \in Nat /\ requests[r].last < context.nextId
      BY Zenon DEF Shape, Handlers, IdsAreKnown
    <2> context' \in Contexts /\ Frees(requests[r].last)
      BY ReleaseFacts, Zenon DEF ReattachReleases
    <2>4. QED
      BY <2>1, Zenon DEF ReattachReleases, Releases, Shape
  <1>6. ASSUME NEW r \in Request, ReattachStarts(r)
        PROVE  Shape' /\ (Starts(r) \/ Refuses(r))
    <2>0. r \in Callers /\ r \in Streams /\ NoStream \in Streams /\ "done" \in Pc
      BY Zenon DEF Callers, Streams, Pc
    <2>1. requests' \in [Callers -> Handlers] /\ GoesTo(r, "done")
      BY <1>6, <2>0, GoesToFacts, Zenon DEF ReattachStarts, Shape
    <2>2. CASE state = "Pending"
      <3>1. Begins(r) /\ state' \in States /\ task' \in Tasks /\ channel' \in Channels
        BY <1>6, <2>2, BeginFacts, Zenon DEF ReattachStarts, Start
      <3>. DEFINE rest == IF client.awaits = r THEN <<>> ELSE Rest
      <3>2. client' = [Answer(r, r) EXCEPT !.rest = rest]
        BY <1>6, <2>2, Zenon DEF ReattachStarts, Start
      <3>3. rest \in Seq(Responses)
        BY DEF Rest, Shape, Channels, Clients
      <3>. HIDE DEF rest
      <3> /\ client' \in Clients /\ Answered(r, r) /\ client'.rest = rest
        <4>1. CASE client.awaits # r
          <5> USE <4>1
          <5> client' = [client EXCEPT !.rest = rest]
            BY <3>2, Zenon DEF Answer
          <5>2. QED
            BY <3>3, Zenon DEF Answered, Shape, Clients
        <4>2. CASE client.awaits = r
          <5>. DEFINE e == (r = NoStream)
          <5>1. client' = [client EXCEPT !.awaits = NoStream, !.stream = r, !.error = e, !.rest = rest]
            BY <3>2, <4>2, Zenon DEF Answer
          <5> e \in BOOLEAN
            BY Zenon
          <5>. HIDE DEF e
          <5> /\ client' \in Clients
              /\ client'.awaits = NoStream /\ client'.stream = r /\ client'.error = e
              /\ client'.rest = rest /\ client'.last = client.last
              /\ client'.got = client.got /\ client'.done = client.done
            BY <5>1, <2>0, <3>3, Zenon DEF Shape, Clients
          <5>4. QED
            BY <4>2, Zenon DEF Answered, e
        <4>3. QED
          BY <4>1, <4>2, Zenon
      <3> Starts(r)
        BY <1>6, <2>1, <2>2, <3>1, Zenon DEF ReattachStarts, Starts, rest
      <3>6. QED
        BY <1>6, <2>1, <3>1, Zenon DEF ReattachStarts, Shape
    <2>3. CASE state # "Pending"
      <3> USE <2>3
      <3> client' \in Clients /\ Answered(r, NoStream) /\ client'.rest = client.rest
        BY <1>6, <2>0, AnswerFacts, Zenon DEF ReattachStarts, Start
      <3> Refuses(r)
        BY <1>6, <2>1, Zenon DEF ReattachStarts, Start, Refuses
      <3>3. QED
        BY <1>6, <2>1, Zenon DEF ReattachStarts, Start, Shape
    <2>4. QED
      BY <2>2, <2>3, Zenon
  <1>7. CASE InterruptPauses
    <2> Shape' /\ (Pauses(Interrupt, "done") \/ HasPaused(Interrupt, "done"))
      BY <1>7, PauseSteps, Zenon DEF InterruptPauses
    <2>2. QED
      BY Zenon
  <1>8. QED
    BY <1>1, <1>2, <1>3, <1>4, <1>5, <1>6, <1>7, Zenon DEF Reattach

\* The client gets a response.
LEMMA GotFacts ==
    ASSUME Shape, NEW out \in Responses, NEW rest \in Seq(Responses),
           client' = [Got(out) EXCEPT !.rest = rest], ~client.done
    PROVE  /\ client' \in Clients /\ client'.rest = rest
           /\ client'.stream = client.stream /\ client'.awaits = client.awaits
           /\ client'.error = client.error /\ client'.last = out.id
           /\ client'.got = (IF out.data \in 1..Batches THEN Append(client.got, out.data)
                             ELSE client.got)
           /\ client'.done = (out.data = Complete)
  <1>. DEFINE got == IF out.data \in 1..Batches THEN Append(client.got, out.data) ELSE client.got
              done == client.done \/ out.data = Complete
  <1>1. client' = [client EXCEPT !.last = out.id, !.got = got, !.done = done, !.rest = rest]
    BY Zenon DEF Got
  <1>2. got \in Seq(Int) /\ done \in BOOLEAN /\ out.id \in Nat
    BY DEF Shape, Clients, Responses
  <1>3. done = (out.data = Complete)
    BY Zenon
  <1>. HIDE DEF got, done
  <1> /\ client' \in Clients /\ client'.rest = rest
      /\ client'.stream = client.stream /\ client'.awaits = client.awaits
      /\ client'.error = client.error /\ client'.last = out.id
      /\ client'.got = got /\ client'.done = done
    BY <1>1, <1>2, Zenon DEF Shape, Clients
  <1>5. QED
    BY <1>3, Zenon DEF got

\* A step of the client or of the transport.
LEMMA ClientSteps ==
    ASSUME Shape, Client \/ Break \/ NoticeBreak
    PROVE  /\ Shape'
           /\ \/ Transmits \/ Receives \/ ReceivesRest \/ Detaches \/ Notices
              \/ \E r \in Request : Asks(r)
  <1>0. <<>> \in Seq(Responses) /\ NoStream \in Streams
    BY DEF Streams
  <1>1. CASE Transmit
    <2> USE <1>1
    <2>1. channel.wire \o channel.queue \in Seq(Responses) /\ <<>> \in Seq(Responses)
      BY DEF Shape, Channels
    <2> /\ channel' \in Channels
        /\ channel'.owner = channel.owner /\ channel'.open = channel.open
        /\ channel'.wire = channel.wire \o channel.queue /\ channel'.queue = <<>>
      BY <2>1, Zenon DEF Transmit, Shape, Channels
    <2> Transmits
      BY Zenon DEF Transmit, Transmits
    <2>4. QED
      BY Zenon DEF Transmit, Shape
  <1>2. CASE Receive /\ channel.owner = client.stream
    <2>1. Head(channel.wire) \in Responses /\ Tail(channel.wire) \in Seq(Responses)
      BY <1>2, TailFacts, Zenon DEF Receive, Shape, Channels
    <2>2. client.rest \in Seq(Responses)
      BY Zenon DEF Shape, Clients
    <2>3. client' = [Got(Head(channel.wire)) EXCEPT !.rest = client.rest]
      <3>1. client' = Got(Head(channel.wire))
        BY <1>2, Zenon DEF Receive
      <3> Got(Head(channel.wire)).rest = client.rest
          /\ DOMAIN Got(Head(channel.wire)) = DOMAIN client
        BY Zenon DEF Got, Shape, Clients
      <3> Got(Head(channel.wire)) = [Got(Head(channel.wire)) EXCEPT !.rest = client.rest]
        BY Zenon DEF Got
      <3>4. QED
        BY <3>1, Zenon
    <2> /\ channel' \in Channels
        /\ channel'.owner = channel.owner /\ channel'.open = channel.open
        /\ channel'.wire = Tail(channel.wire) /\ channel'.queue = channel.queue
      BY <1>2, <2>1, Zenon DEF Receive, Shape, Channels
    <2>. DEFINE out == Head(channel.wire)
    <2>. HIDE DEF out
    <2> /\ client' \in Clients /\ client'.rest = client.rest
        /\ client'.stream = client.stream /\ client'.awaits = client.awaits
        /\ client'.error = client.error /\ client'.last = out.id
        /\ client'.got = (IF out.data \in 1..Batches THEN Append(client.got, out.data)
                          ELSE client.got)
        /\ client'.done = (out.data = Complete)
      BY <1>2, <2>1, <2>2, <2>3, GotFacts, Zenon DEF Receive, out
    <2> Gains(out)
      BY <1>2, Zenon DEF Receive, Gains
    <2> Receives
      BY <1>2, Zenon DEF Receive, Receives, out
    <2>8. QED
      BY <1>2, Zenon DEF Receive, Shape
  <1>3. CASE Receive /\ channel.owner # client.stream
    <2> USE <1>3
    <2>1. Head(client.rest) \in Responses /\ Tail(client.rest) \in Seq(Responses)
      BY TailFacts, Zenon DEF Receive, Shape, Clients
    <2>. DEFINE out == Head(client.rest)
    <2>2. client' = [Got(out) EXCEPT !.rest = Tail(client.rest)]
      BY Zenon DEF Receive, Got, Shape, Clients
    <2>. HIDE DEF out
    <2> /\ client' \in Clients /\ client'.rest = Tail(client.rest)
        /\ client'.stream = client.stream /\ client'.awaits = client.awaits
        /\ client'.error = client.error /\ client'.last = out.id
        /\ client'.got = (IF out.data \in 1..Batches THEN Append(client.got, out.data)
                          ELSE client.got)
        /\ client'.done = (out.data = Complete)
      BY <2>1, <2>2, GotFacts, Zenon DEF Receive, out
    <2> Gains(out)
      BY Zenon DEF Receive, Gains
    <2> ReceivesRest
      BY Zenon DEF Receive, ReceivesRest, out
    <2>8. QED
      BY Zenon DEF Receive, Shape
  <1>4. CASE StreamEnds
    <2> USE <1>4
    <2> /\ client' \in Clients
        /\ client'.stream = NoStream /\ client'.awaits = client.awaits
        /\ client'.rest = client.rest /\ client'.error = client.error
        /\ client'.last = client.last /\ client'.got = client.got /\ client'.done = client.done
      BY Zenon DEF StreamEnds, Shape, Clients, Streams
    <2>2. QED
      BY Zenon DEF StreamEnds, Detaches, Shape
  <1>5. CASE Break
    <2> USE <1>5
    <2> /\ client' \in Clients
        /\ client'.stream = NoStream /\ client'.awaits = client.awaits
        /\ client'.rest = <<>> /\ client'.error = client.error
        /\ client'.last = client.last /\ client'.got = client.got /\ client'.done = client.done
      BY <1>0, Zenon DEF Break, Shape, Clients
    <2> /\ used' \in Bounds /\ used'.trouble = used.trouble /\ used'.held = used.held
        /\ used'.overlap = used.overlap
      BY DEF Break, Shape, Bounds
    <2>3. QED
      BY Zenon DEF Break, Detaches, Shape
  <1>6. CASE NoticeBreak
    <2> USE <1>6
    <2> /\ channel' \in Channels
        /\ channel'.owner = channel.owner /\ ~channel'.open
        /\ channel'.queue = <<>> /\ channel'.wire = <<>>
      BY <1>0, Zenon DEF NoticeBreak, Shape, Channels
    <2>2. QED
      BY Zenon DEF NoticeBreak, Notices, Shape
  <1>7. CASE ReattachExecute
    <2> PICK r \in Request :
          /\ requests[r].pc = "unused"
          /\ requests' = [requests EXCEPT ![r] = [pc |-> "called", last |-> client.last]]
          /\ client' = [client EXCEPT !.awaits = r]
      BY <1>7, Zenon DEF ReattachExecute
    <2>2. r \in Callers /\ r \in Streams
      BY Zenon DEF Callers, Streams
    <2> /\ client' \in Clients
        /\ client'.awaits = r /\ client'.stream = client.stream /\ client'.rest = client.rest
        /\ client'.error = client.error
        /\ client'.last = client.last /\ client'.got = client.got /\ client'.done = client.done
      BY <2>2, Zenon DEF Shape, Clients
    <2>4. [pc |-> "called", last |-> client.last] \in Handlers
      BY Zenon DEF Shape, Clients, Handlers, Pc
    <2> /\ requests' \in [Callers -> Handlers]
        /\ requests'[r] = [pc |-> "called", last |-> client.last]
        /\ \A q \in Callers : q # r => requests'[q] = requests[q]
      BY <2>2, <2>4, Zenon DEF Shape
    <2> Asks(r)
      BY <1>7, Zenon DEF ReattachExecute, Asks
    <2>7. QED
      BY <1>7, Zenon DEF ReattachExecute, Shape
  <1>8. QED
    BY <1>1, <1>2, <1>3, <1>4, <1>5, <1>6, <1>7, Zenon DEF Client

Effect ==
    \/ \E data \in Int : Saves(data)
    \/ Replays
    \/ \E result \in {"paused", "completed", "failed"} : Returns(result)
    \/ Sends
    \/ Executes \/ Adds
    \/ \E r \in Request : Gets(r) \/ Releases(r) \/ Starts(r) \/ Refuses(r)
    \/ \E r, done : Pauses(r, done) \/ HasPaused(r, done)
    \/ Transmits \/ Receives \/ ReceivesRest \/ Detaches \/ Notices
    \/ \E r \in Request : Asks(r)
    \/ \E dropped \in BOOLEAN : Loses(dropped)
    \/ FreesForClient \/ Removes

\* Every step has one of the effects, and keeps the types.
LEMMA StepEffects ==
    ASSUME Shape, Places, IdsAreKnown, Next
    PROVE  Shape' /\ Effect
  <1>1. CASE Server
    BY <1>1, TaskSteps, HandlerSteps, Zenon DEF Server, Effect
  <1>2. CASE Client \/ Break \/ NoticeBreak
    BY <1>2, ClientSteps, Zenon DEF Effect
  <1>3. CASE ReleaseExecute
    <2> USE <1>3
    <2> /\ used' \in Bounds /\ used'.trouble = used.trouble /\ used'.held = used.held
        /\ used'.overlap = used.overlap
      BY DEF ReleaseExecute, Shape, Bounds
    <2>2. client.last \in Nat /\ client.last < context.nextId
      BY Zenon DEF Shape, Clients, IdsAreKnown
    <2> context' \in Contexts /\ (Frees(client.last) \/ UNCHANGED context)
      BY <2>2, ReleaseFacts, Zenon DEF ReleaseExecute, Shape
    <2> FreesForClient
      BY Zenon DEF ReleaseExecute, FreesForClient
    <2>5. QED
      BY Zenon DEF ReleaseExecute, Shape, Effect
  <1>4. CASE RemoveExecutor
    <2> USE <1>4
    <2>0. Holders \subseteq Streams
      BY Zenon DEF Holders, Streams
    <2>. DEFINE held == Holders
                pc == IF session THEN "pause" ELSE "done"
    <2>. HIDE DEF held
    <2>1. /\ used' \in Bounds /\ used'.trouble = "interrupt" /\ used'.held = held
          /\ used'.overlap = used.overlap
      BY <2>0, Zenon DEF RemoveExecutor, Shape, Bounds, held
    <2>2. Interrupt \in Callers /\ pc \in Pc
      BY Zenon DEF Callers, Pc
    <2>. HIDE DEF pc
    <2> requests' \in [Callers -> Handlers] /\ GoesTo(Interrupt, pc)
      BY <2>2, GoesToFacts, Zenon DEF RemoveExecutor, Shape, pc
    <2> Removes
      BY <2>1, Zenon DEF RemoveExecutor, Removes, held, pc
    <2>5. QED
      BY <2>1, Zenon DEF RemoveExecutor, Shape, Effect
  <1>5. ASSUME NEW trouble \in {"request dropped", "request cancelled"}, Happens(trouble)
        PROVE  /\ used' \in Bounds /\ used'.held = used.held /\ used'.overlap = used.overlap
               /\ used.trouble = "none" /\ used'.trouble \notin {"none", "interrupt"}
    BY <1>5, Zenon DEF Happens, Shape, Bounds
  <1>6. ASSUME client' = [client EXCEPT !.awaits = NoStream]
        PROVE  /\ client' \in Clients
               /\ client'.awaits = NoStream /\ client'.stream = client.stream
               /\ client'.rest = client.rest /\ client'.error = client.error
               /\ client'.last = client.last /\ client'.got = client.got
               /\ client'.done = client.done
    BY <1>6, Zenon DEF Shape, Clients, Streams
  <1>7. CASE RequestDropped
    <2> USE <1>7
    <2> Loses(FALSE)
      BY <1>5, <1>6, Zenon DEF RequestDropped, Loses
    <2>2. QED
      BY <1>5, <1>6, Zenon DEF RequestDropped, Shape, Effect
  <1>8. ASSUME NEW r \in Request, ReattachDropped(r)
        PROVE  Shape' /\ Effect
    <2> USE <1>8
    <2>1. r \in Callers /\ "done" \in Pc
      BY Zenon DEF Callers, Pc
    <2> requests' \in [Callers -> Handlers] /\ GoesTo(r, "done")
      BY <2>1, GoesToFacts, Zenon DEF ReattachDropped, Shape
    <2> Loses(TRUE)
      BY <1>5, <1>6, Zenon DEF ReattachDropped, Loses
    <2>4. QED
      BY <1>5, <1>6, Zenon DEF ReattachDropped, Shape, Effect
  <1>9. QED
    BY <1>1, <1>2, <1>3, <1>4, <1>7, <1>8, Zenon DEF Next
-----------------------------------------------------------------------------
(* Where the responses are.                                                *)

\* What is in the pieces of a sequence.
LEMMA ItemsFacts ==
    /\ Items(<<>>) = {}
    /\ \A x : Items(<<x>>) = {x}
    /\ \A s \in Seq(Responses) : s # <<>> => Head(s) \in Items(s) /\ Items(Tail(s)) \subseteq Items(s)
    /\ \A s, t \in Seq(Responses) : Items(s \o t) \subseteq Items(s) \cup Items(t)
  <1>1. Items(<<>>) = {} /\ \A x : Items(<<x>>) = {x}
    BY DEF Items
  <1>2. ASSUME NEW s \in Seq(Responses), s # <<>>
        PROVE  Head(s) \in Items(s) /\ Items(Tail(s)) \subseteq Items(s)
    <2> /\ Len(s) \in Nat /\ Len(s) > 0 /\ DOMAIN s = 1..Len(s) /\ Head(s) = s[1]
        /\ DOMAIN Tail(s) = 1..(Len(s) - 1)
        /\ \A i \in 1..(Len(s) - 1) : Tail(s)[i] = s[i + 1]
      BY <1>2, TailFacts, Zenon
    <2> 1 \in DOMAIN s /\ \A i \in 1..(Len(s) - 1) : i + 1 \in DOMAIN s
      OBVIOUS
    <2>3. QED
      BY DEF Items
  <1> ASSUME NEW s \in Seq(Responses), NEW t \in Seq(Responses)
      PROVE  Items(s \o t) \subseteq Items(s) \cup Items(t)
    <2> \A i \in DOMAIN (s \o t) : \/ i \in DOMAIN s /\ (s \o t)[i] = s[i]
                                   \/ i - Len(s) \in DOMAIN t /\ (s \o t)[i] = t[i - Len(s)]
      OBVIOUS
    <2>2. QED
      BY Zenon DEF Items
  <1>4. QED
    BY <1>1, <1>2, Zenon

\* The ids of the buffer are the latest ones.
LEMMA DroppedFacts ==
    ASSUME Shape, Places
    PROVE  /\ Dropped \in Nat /\ Len(context.buffer) \in Nat /\ context.nextId \in Nat \ {0}
           /\ context.nextId = Dropped + Len(context.buffer) + 1
           /\ context.buffer \in Seq(Responses)
           /\ \A id \in Nat : id < context.nextId => id <= Dropped + Len(context.buffer)
  <1>. DEFINE b == context.buffer
              n == context.nextId
  <1> b \in Seq(Responses) /\ Len(b) \in Nat /\ DOMAIN b = 1..Len(b) /\ n \in Nat \ {0}
    BY DEF Shape, Contexts
  <1>2. Dropped = n - 1 - Len(b) /\ Dropped \in Int
    BY DEF Dropped
  <1>3. Follows(b, Dropped)
    BY Zenon DEF Places
  <1>. HIDE DEF b, n
  <1> Dropped \in Nat
    <2>1. CASE Len(b) = 0
      BY <1>2, <2>1
    <2>2. CASE Len(b) # 0
      <3> 1 \in DOMAIN b
        BY <2>2
      <3> b[1].id = Dropped + 1 /\ b[1] \in Responses
        BY <1>3 DEF Follows
      <3>3. QED
        BY <1>2 DEF Responses
    <2>3. QED
      BY <2>1, <2>2, Zenon
  <1> n = Dropped + Len(b) + 1 /\ \A id \in Nat : id < n => id <= Dropped + Len(b)
    BY <1>2
  <1>6. QED
    BY Zenon DEF b, n

\* What is in a place is a response.
LEMMA RespondingType ==
    ASSUME Shape
    PROVE  \A x \in Responding : x \in Responses /\ x.id \in Nat \ {0} /\ x.data \in Int
  <1>1. \A s \in Seq(Responses) : \A x \in Items(s) : x \in Responses
    BY DEF Items
  <1> /\ context.buffer \in Seq(Responses) /\ task.replay \in Seq(Responses)
      /\ channel.queue \in Seq(Responses) /\ channel.wire \in Seq(Responses)
      /\ client.rest \in Seq(Responses) /\ task.out \in Responses \cup {NoResponse}
    BY Zenon DEF Shape, Contexts, Tasks, Channels, Clients
  <1> \A x \in Responding : x \in Responses
    BY <1>1, Zenon DEF Responding
  <1>4. QED
    BY Zenon DEF Responses

\* What a step does to the handlers.
LEMMA RequestsEffects ==
    ASSUME Effect
    PROVE  \/ UNCHANGED requests
           \/ \E q \in Callers, pc \in Pc : GoesTo(q, pc)
           \/ \E q \in Request : Asks(q)
  <1>0. Request \subseteq Callers /\ Interrupt \in Callers
        /\ {"pause", "wait", "release", "start", "done"} \subseteq Pc
    BY Zenon DEF Callers, Pc
  <1>1. CASE \E r \in Request : Gets(r) \/ Releases(r) \/ Starts(r) \/ Refuses(r)
    BY <1>0, <1>1, Zenon DEF Gets, Releases, Starts, Refuses
  <1>2. CASE \E r, done : Pauses(r, done) \/ HasPaused(r, done)
    <2> PICK r, done : Pauses(r, done) \/ HasPaused(r, done)
      BY <1>2, Zenon
    <2> r \in Callers /\ done \in Pc
      BY <1>0, Zenon DEF Pauses, HasPaused
    <2> GoesTo(r, "wait") \/ GoesTo(r, done)
      BY Zenon DEF Pauses, HasPaused
    <2>4. QED
      BY <1>0, Zenon
  <1>3. CASE \E dropped \in BOOLEAN : Loses(dropped)
    BY <1>0, <1>3, Zenon DEF Loses
  <1>4. CASE Removes
    BY <1>0, <1>4, Zenon DEF Removes
  <1>5. QED
    BY <1>1, <1>2, <1>3, <1>4, Zenon DEF Effect, Saves, Replays, Returns, Sends, Executes, Adds,
      Transmits, Receives, ReceivesRest, Gains, Detaches, Notices, FreesForClient

\* No response appears in a place unless it was in one before, or was just saved.
LEMMA RespondingEffects ==
    ASSUME Shape, Places, IdsAreKnown, Effect
    PROVE  \/ context'.nextId = context.nextId /\ context'.taken = context.taken
                 /\ Responding' \subseteq Responding
           \/ \E data \in Int : Saves(data)
                 /\ Responding' \subseteq Responding \cup {Response(context.nextId, data)}
  <1>0. /\ context.buffer \in Seq(Responses) /\ task.replay \in Seq(Responses)
        /\ channel.queue \in Seq(Responses) /\ channel.wire \in Seq(Responses)
        /\ client.rest \in Seq(Responses)
    BY Zenon DEF Shape, Contexts, Tasks, Channels, Clients
  <1>1. ASSUME NEW data \in Int, Saves(data)
        PROVE  Responding' \subseteq Responding \cup {Response(context.nextId, data)}
    <2> USE <1>1
    <2> Response(context.nextId, data) \in Responses
      BY Zenon DEF Shape, Contexts, Response, Responses
    <2> Items(context'.buffer) \subseteq Items(context.buffer) \cup {Response(context.nextId, data)}
      BY <1>0, AddFacts, Zenon DEF Saves, Places
    <2>3. QED
      BY ItemsFacts DEF Saves, Responding
  <1>2. CASE Replays
    BY <1>0, <1>2, ItemsFacts DEF Replays, Responding
  <1>3. ASSUME NEW result \in {"paused", "completed", "failed"}, Returns(result)
        PROVE  context' = context /\ Responding' \subseteq Responding
    BY <1>3, ZenonT(30) DEF Returns, Responding
  <1>4. CASE Sends
    BY <1>4, ItemsFacts DEF Sends, Responding
  <1>5. CASE Executes
    BY <1>5, ItemsFacts DEF Executes, Begins, Responding
  <1>6. CASE Adds
    BY <1>6, Zenon DEF Adds, Responding
  <1>7. ASSUME NEW r \in Request, Gets(r)
        PROVE  context' = context /\ Responding' \subseteq Responding
    BY <1>7, Zenon DEF Gets, Responding
  <1>8. ASSUME NEW id \in Nat, id < context.nextId, Frees(id)
        PROVE  Items(context'.buffer) \subseteq Items(context.buffer)
    <2> USE <1>8
    <2> /\ Dropped \in Nat /\ id <= Dropped + Len(context.buffer)
        /\ Follows(context.buffer, Dropped)
      BY DroppedFacts, Zenon DEF Places
    <2> Items(RemoveUntil(context.buffer, id)) \subseteq Items(context.buffer)
      BY <1>0, RemoveUntilFacts, Zenon
    <2>3. QED
      BY Zenon DEF Frees
  <1>9. ASSUME NEW r \in Request, Releases(r)
        PROVE  context'.nextId = context.nextId /\ context'.taken = context.taken
                /\ Responding' \subseteq Responding
    <2> requests[r].last \in Nat /\ requests[r].last < context.nextId
      BY Zenon DEF Shape, Handlers, IdsAreKnown, Callers
    <2>2. QED
      BY <1>8, <1>9, Zenon DEF Releases, Frees, Responding
  <1>10. ASSUME NEW r \in Request, Starts(r)
         PROVE  context' = context /\ Responding' \subseteq Responding
    <2> USE <1>10
    <2> Items(client'.rest) \subseteq Responding
      BY <1>0, ItemsFacts, Zenon DEF Starts, Rest, Responding
    <2>2. QED
      BY ItemsFacts DEF Starts, Begins, Responding
  <1>11. ASSUME NEW r \in Request, Refuses(r)
         PROVE  context' = context /\ Responding' \subseteq Responding
    BY <1>11, Zenon DEF Refuses, Responding
  <1>12. ASSUME NEW r, NEW done, Pauses(r, done) \/ HasPaused(r, done)
         PROVE  context' = context /\ Responding' \subseteq Responding
    BY <1>12, Zenon DEF Pauses, HasPaused, Responding
  <1>13. CASE Transmits
    BY <1>0, <1>13, ItemsFacts DEF Transmits, Responding
  <1>14. CASE Receives
    BY <1>0, <1>14, ItemsFacts, ZenonT(30) DEF Receives, Gains, Responding
  <1>15. CASE ReceivesRest
    BY <1>0, <1>15, ItemsFacts, Zenon DEF ReceivesRest, Gains, Responding
  <1>16. CASE Detaches
    BY <1>16, ItemsFacts, Zenon DEF Detaches, Responding
  <1>17. CASE Notices
    BY <1>17, ItemsFacts, Zenon DEF Notices, Responding
  <1>18. ASSUME NEW r \in Request, Asks(r)
         PROVE  context' = context /\ Responding' \subseteq Responding
    BY <1>18, Zenon DEF Asks, Responding
  <1>19. ASSUME NEW dropped \in BOOLEAN, Loses(dropped)
         PROVE  context' = context /\ Responding' \subseteq Responding
    BY <1>19, Zenon DEF Loses, Responding
  <1>20. CASE FreesForClient
    <2> client.last \in Nat /\ client.last < context.nextId
      BY Zenon DEF Shape, Clients, IdsAreKnown
    <2>2. QED
      BY <1>8, <1>20 DEF FreesForClient, Frees, Responding
  <1>21. CASE Removes
    BY <1>21, Zenon DEF Removes, Responding
  <1>22. QED
    BY <1>1, <1>2, <1>3, <1>4, <1>5, <1>6, <1>7, <1>9, <1>10, <1>11, <1>12, <1>13, <1>14, <1>15,
       <1>16, <1>17, <1>18, <1>19, <1>20, <1>21, ZenonT(30)
    DEF Effect, Replays, Sends, Executes, Adds, Transmits, Receives, ReceivesRest, Gains, Detaches,
        Notices, Removes

\* Ids stay known.
LEMMA IdsStep ==
    ASSUME Shape, Places, IdsAreKnown, Shape', Effect
    PROVE  IdsAreKnown'
  <1>0. context.nextId \in Nat /\ context'.nextId \in Nat
    BY Zenon DEF Shape, Contexts
  <1>1. /\ context'.nextId \in {context.nextId, context.nextId + 1}
        /\ \A x \in Responding' : x.id < context'.nextId
    <2>1. CASE context'.nextId = context.nextId /\ Responding' \subseteq Responding
      BY <2>1, Zenon DEF IdsAreKnown
    <2>2. ASSUME NEW data \in Int, Saves(data),
                 Responding' \subseteq Responding \cup {Response(context.nextId, data)}
          PROVE  /\ context'.nextId = context.nextId + 1
                 /\ \A x \in Responding' : x.id < context'.nextId
      <3> USE <2>2
      <3> context'.nextId = context.nextId + 1
        BY Zenon DEF Saves
      <3> \A x \in Responding : x.id \in Nat
        BY RespondingType, Zenon
      <3>3. QED
        BY <1>0 DEF IdsAreKnown, Response
    <2>3. QED
      BY <2>1, <2>2, RespondingEffects, Zenon
  <1>2. client'.last < context'.nextId
    <2>0. client.last \in Nat /\ client.last < context.nextId
      BY Zenon DEF IdsAreKnown, Shape, Clients
    <2>1. CASE client'.last = client.last
      BY <1>0, <1>1, <2>0, <2>1
    <2>2. CASE Receives
      <3> USE <2>2
      <3> Head(channel.wire) \in Responding
        BY ItemsFacts, Zenon DEF Receives, Responding, Shape, Channels
      <3>2. QED
        BY Zenon DEF Receives, Gains, IdsAreKnown
    <2>3. CASE ReceivesRest
      <3> USE <2>3
      <3> Head(client.rest) \in Responding
        BY ItemsFacts, Zenon DEF ReceivesRest, Responding, Shape, Clients
      <3>2. QED
        BY Zenon DEF ReceivesRest, Gains, IdsAreKnown
    <2>4. QED
      BY <2>1, <2>2, <2>3, Zenon DEF Effect, Saves, Replays, Returns, Sends, Executes, Adds, Gets,
        Answered, Releases, Starts, Refuses, Pauses, HasPaused, Transmits, Detaches, Notices, Asks,
        Loses, FreesForClient, Removes
  <1> ASSUME NEW r \in Callers
      PROVE  requests'[r].last < context'.nextId
    <2> /\ client.last \in Nat /\ client.last < context.nextId
        /\ requests[r].last \in Nat /\ requests[r].last < context.nextId
      BY Zenon DEF IdsAreKnown, Shape, Clients, Handlers
    <2> requests'[r].last \in {requests[r].last, client.last}
      BY RequestsEffects DEF GoesTo, Asks
    <2>2. QED
      BY <1>0, <1>1
  <1>4. QED
    BY <1>1, <1>2, Zenon DEF IdsAreKnown

\* A saved response pushes out the oldest one when the buffer is full.
LEMMA SavesBuffer ==
    ASSUME Shape, Places, NEW data \in Int, Saves(data)
    PROVE  /\ Len(context'.buffer) <= BufferCapacity
           /\ Follows(context'.buffer, Dropped')
           /\ Len(context.buffer) < BufferCapacity => Dropped' = Dropped
           /\ Len(context.buffer) = BufferCapacity => Dropped' = Dropped + 1
  <1>. DEFINE b == context.buffer
              x == Response(context.nextId, data)
              c == Add(b, x)
  <1> /\ Dropped \in Nat /\ Len(b) \in Nat /\ context.nextId \in Nat \ {0}
      /\ context.nextId = Dropped + Len(b) + 1 /\ b \in Seq(Responses)
    BY DroppedFacts, Zenon
  <1>2. x \in Responses /\ x.id = context.nextId
    BY Zenon DEF Response, Responses
  <1>3. context'.buffer = c /\ context'.nextId = context.nextId + 1
    BY Zenon DEF Saves
  <1>4. Len(b) <= BufferCapacity /\ Follows(b, Dropped)
    BY Zenon DEF Places
  <1>. HIDE DEF b, x
  <1> /\ c \in Seq(Responses)
      /\ Len(c) <= BufferCapacity
      /\ Len(b) < BufferCapacity => Len(c) = Len(b) + 1
      /\ Len(b) = BufferCapacity => Len(c) = Len(b)
      /\ \A a, d \in Int : Follows(b, a) /\ x.id = a + Len(b) + 1
                              /\ d + Len(c) = a + Len(b) + 1
                           => Follows(c, d)
    BY <1>2, <1>4, AddFacts, Zenon
  <1>. HIDE DEF c
  <1>6. Dropped' = context.nextId + 1 - 1 - Len(c)
    BY <1>3 DEF Dropped
  <1> Len(c) \in Nat /\ BufferCapacity \in Nat
    BY ExecutorAssumption
  <1>8. Dropped' \in Int /\ Dropped' + Len(c) = Dropped + Len(b) + 1
    BY <1>6
  <1> Follows(c, Dropped')
    BY <1>2, <1>4, <1>8
  <1> /\ Len(b) < BufferCapacity => Dropped' = Dropped
      /\ Len(b) = BufferCapacity => Dropped' = Dropped + 1
    BY <1>6
  <1>11. QED
    BY <1>3, Zenon DEF b

\* A release drops what is named and everything before it.
LEMMA FreesBuffer ==
    ASSUME Shape, Places, NEW id \in Nat, id < context.nextId, Frees(id)
    PROVE  /\ Len(context'.buffer) <= BufferCapacity
           /\ Follows(context'.buffer, Dropped')
           /\ Dropped' \in {Dropped, id}
           /\ Dropped' >= Dropped
           /\ state \in {"Running", "Pending"} => Dropped' >= id
  <1>. DEFINE b == context.buffer
              c == RemoveUntil(b, id)
  <1>1. /\ Dropped \in Nat /\ Len(b) \in Nat /\ context.nextId \in Nat \ {0}
        /\ context.nextId = Dropped + Len(b) + 1 /\ b \in Seq(Responses)
        /\ id <= Dropped + Len(b)
    BY DroppedFacts, Zenon
  <1>2. context'.nextId = context.nextId
    BY Zenon DEF Frees
  <1>3. Len(b) <= BufferCapacity /\ Follows(b, Dropped) /\ BufferCapacity \in Nat
    BY ExecutorAssumption, Zenon DEF Places
  <1>4. CASE context'.buffer = c
    <2>. HIDE DEF b
    <2> /\ c \in Seq(Responses)
        /\ Len(c) = IF id > Dropped THEN Dropped + Len(b) - id ELSE Len(b)
        /\ Follows(c, IF id > Dropped THEN id ELSE Dropped)
      BY <1>1, <1>3, RemoveUntilFacts, Zenon
    <2>. HIDE DEF c
    <2>2. Dropped' = context.nextId - 1 - Len(c)
      BY <1>2, <1>4, Zenon DEF Dropped
    <2> Dropped' = IF id > Dropped THEN id ELSE Dropped
      BY <1>1, <2>2
    <2> Len(c) <= BufferCapacity
      BY <1>1, <1>3
    <2> Dropped' \in {Dropped, id} /\ Dropped' >= Dropped /\ Dropped' >= id
      BY <1>1
    <2>6. QED
      BY <1>4, Zenon
  <1>5. CASE context'.buffer = b /\ state \notin {"Running", "Pending"}
    <2> USE <1>5
    <2> Dropped' = Dropped
      BY <1>2, Zenon DEF Dropped
    <2>2. QED
      BY <1>1, <1>3
  <1>6. QED
    BY <1>4, <1>5, Zenon DEF Frees

\* The places of the responses stay within their bounds, and one handler at most
\* waits for the task.
LEMMA PlacesStep ==
    ASSUME Shape, Places, IdsAreKnown, Handles, Shape', Effect
    PROVE  Places'
  <1>. DEFINE BufferOK == Len(context.buffer) <= BufferCapacity /\ Follows(context.buffer, Dropped)
              ChannelOK == Len(channel.queue) <= 1 /\ Len(channel.wire) <= InFlight
              TaskOK == /\ task.phase # "replay" => task.replay = <<>>
                        /\ task.phase = "complete" => context.taken = Batches
                        /\ task.result = "running" => state \in {"Running", "Pausing"}
              WaitOK == \A r, q \in Callers : requests[r].pc = "wait" =>
                            state = "Pausing" /\ (requests[q].pc = "wait" => q = r)
  <1>0. /\ BufferOK /\ ChannelOK /\ TaskOK /\ WaitOK
        /\ (BufferOK /\ ChannelOK /\ TaskOK /\ WaitOK)' => Places'
    BY Zenon DEF Places
  <1>1. BufferOK'
    <2>1. CASE UNCHANGED context
      BY <1>0, <2>1, Zenon DEF Dropped
    <2>2. CASE \E data \in Int : Saves(data)
      BY <2>2, SavesBuffer, Zenon
    <2>3. CASE \E r \in Request : Releases(r)
      <3> PICK r \in Request : Releases(r)
        BY <2>3, Zenon
      <3> requests[r].last \in Nat /\ requests[r].last < context.nextId
        BY Zenon DEF Shape, Handlers, IdsAreKnown, Callers
      <3>3. QED
        BY FreesBuffer, Zenon DEF Releases
    <2>4. CASE FreesForClient
      <3> client.last \in Nat /\ client.last < context.nextId
        BY Zenon DEF Shape, Clients, IdsAreKnown
      <3>2. QED
        BY <2>1, <2>4, FreesBuffer, Zenon DEF FreesForClient
    <2>5. QED
      BY <2>1, <2>2, <2>3, <2>4, ZenonT(30) DEF Effect, Replays, Returns, Sends, Executes, Adds, Gets, Starts,
        Refuses, Pauses, HasPaused, Transmits, Receives, ReceivesRest, Gains, Detaches, Notices,
        Asks, Loses, Removes
  <1>2. ChannelOK'
    <2>0. /\ channel.queue \in Seq(Responses) /\ channel.wire \in Seq(Responses)
          /\ InFlight \in Nat
      BY ExecutorAssumption, Zenon DEF Shape, Channels
    <2>1. CASE UNCHANGED channel
      BY <1>0, <2>1, Zenon
    <2>2. CASE Sends
      BY <1>0, <2>2 DEF Sends
    <2>3. CASE Executes \/ \E r \in Request : Starts(r)
      BY <2>0, <2>3 DEF Executes, Starts, Begins
    <2>4. CASE Transmits
      <3>1. Len(channel.wire \o channel.queue) = Len(channel.wire) + Len(channel.queue)
            /\ Len(channel.wire) \in Nat /\ Len(channel.queue) \in Nat
        BY <2>0
      <3>2. Len(channel.wire) < InFlight /\ Len(channel.queue) <= 1
        BY <1>0, <2>4, Zenon DEF Transmits
      <3>3. Len(channel.wire \o channel.queue) <= InFlight
        <4> \A w, q \in Nat : w < InFlight /\ q <= 1 => w + q <= InFlight
          BY <2>0
        <4>2. QED
          BY <3>1, <3>2, Zenon
      <3> Len(<<>>) <= 1
        OBVIOUS
      <3> channel'.wire = channel.wire \o channel.queue /\ channel'.queue = <<>>
        BY <2>4, Zenon DEF Transmits
      <3>6. QED
        BY <3>3, Zenon
    <2>5. CASE Receives
      <3> USE <2>5
      <3> Len(Tail(channel.wire)) = Len(channel.wire) - 1 /\ Len(channel.wire) \in Nat
        BY <2>0, TailFacts, Zenon DEF Receives
      <3>2. QED
        BY <1>0, <2>0 DEF Receives
    <2>6. CASE Notices
      BY <2>0, <2>6 DEF Notices
    <2>7. QED
      BY <2>1, <2>2, <2>3, <2>4, <2>5, <2>6, ZenonT(30) DEF Effect, Saves, Replays, Returns, Adds, Gets,
        Releases, Refuses, Pauses, HasPaused, ReceivesRest, Gains, Detaches, Asks, Loses,
        FreesForClient, Removes
  <1>3. TaskOK'
    <2>1. CASE UNCHANGED <<task, context>> /\ state' = state
      BY <1>0, <2>1, ZenonT(30)
    <2>2. CASE \E data \in Int : Saves(data)
      BY <1>0, <2>2, Zenon DEF Saves
    <2>3. CASE Replays
      BY <1>0, <2>3, Zenon DEF Replays
    <2>4. CASE Sends \/ \E result \in {"paused", "completed", "failed"} : Returns(result)
      BY <1>0, <2>4, ZenonT(30) DEF Sends, Returns
    <2>5. CASE Executes \/ \E r \in Request : Starts(r)
      BY <2>5, Zenon DEF Executes, Starts, Begins
    <2>6. CASE FreesForClient \/ \E r \in Request : Releases(r)
      BY <1>0, <2>6, Zenon DEF FreesForClient, Releases, Frees
    <2>7. CASE \E r, done : Pauses(r, done) \/ HasPaused(r, done)
      BY <1>0, <2>7 DEF Pauses, HasPaused
    <2>8. QED
      BY <2>1, <2>2, <2>3, <2>4, <2>5, <2>6, <2>7, ZenonT(30) DEF Effect, Adds, Gets, Refuses, Transmits,
        Receives, ReceivesRest, Gains, Detaches, Notices, Asks, Loses, Removes
  <1> WaitOK'
    <2>0. Interrupt \notin Request
      BY ExecutorAssumption DEF Interrupt, Request
    <2>1. CASE UNCHANGED <<requests, state>>
      BY <1>0, <2>1, Zenon
    <2>2. CASE UNCHANGED state /\ \E q \in Callers, pc \in Pc \ {"wait"} : GoesTo(q, pc)
      <3> USE <2>2
      <3>1. PICK q \in Callers, pc \in Pc \ {"wait"} : GoesTo(q, pc)
        BY Zenon
      <3> \A r \in Callers : requests'[r].pc = "wait" => requests[r].pc = "wait"
        BY <3>1, Zenon DEF GoesTo
      <3>3. QED
        BY <1>0, Zenon
    <2>3. CASE \E r \in Request : Gets(r) \/ Releases(r) \/ Refuses(r)
      <3> Request \subseteq Callers /\ {"pause", "start", "done"} \subseteq Pc \ {"wait"}
        BY Zenon DEF Callers, Pc
      <3>2. QED
        BY <2>2, <2>3, Zenon DEF Gets, Releases, Refuses
    <2>4. CASE Removes
      <3> Interrupt \in Callers /\ {"pause", "done"} \subseteq Pc \ {"wait"}
        BY Zenon DEF Callers, Pc
      <3>2. QED
        BY <2>2, <2>4, Zenon DEF Removes
    <2>5. CASE \E dropped \in BOOLEAN : Loses(dropped)
      <3> Request \subseteq Callers /\ {"pause", "start", "done"} \subseteq Pc \ {"wait"}
        BY Zenon DEF Callers, Pc
      <3>2. QED
        BY <2>1, <2>2, <2>5, Zenon DEF Loses
    <2>6. ASSUME NEW r \in Request, Starts(r)
          PROVE  WaitOK'
      <3> USE <2>6
      <3> \A q \in Callers : requests[q].pc # "wait"
        BY <1>0, Zenon DEF Starts
      <3> \A q \in Callers : requests'[q].pc # "wait"
        BY Zenon DEF Starts, GoesTo
      <3>3. QED
        BY Zenon
    <2>7. CASE Executes
      <3> state = "Pending" /\ UNCHANGED requests
        BY <2>7, Zenon DEF Executes, Handles
      <3>2. QED
        BY <1>0, Zenon
    <2>8. ASSUME NEW r, NEW done, Pauses(r, done)
          PROVE  WaitOK'
      <3> USE <2>8
      <3>0. r \in Callers /\ done # "wait"
        BY Zenon DEF Pauses, Callers
      <3>1. CASE state = "Running"
        <4> USE <3>1
        <4> \A q \in Callers : requests[q].pc # "wait"
          BY <1>0, Zenon
        <4>2. QED
          BY DEF Pauses, GoesTo
      <3>2. CASE state # "Running"
        BY <1>0, <3>0, <3>2, ZenonT(30) DEF Pauses, GoesTo
      <3>3. QED
        BY <3>1, <3>2, Zenon
    <2>9. ASSUME NEW r, NEW done, HasPaused(r, done)
          PROVE  WaitOK'
      <3> USE <2>9
      <3> r \in Callers /\ done # "wait"
        BY Zenon DEF HasPaused, Callers
      <3> \A q \in Callers : q # r => requests[q].pc # "wait"
        BY <1>0, ZenonT(30) DEF HasPaused
      <3> \A q \in Callers : requests'[q].pc # "wait"
        BY Zenon DEF HasPaused, GoesTo
      <3>3. QED
        BY Zenon
    <2>10. ASSUME NEW r \in Request, Asks(r)
           PROVE  WaitOK'
      <3> USE <2>10
      <3> \A q \in Callers : requests'[q].pc = "wait" => requests[q].pc = "wait"
        BY DEF Asks
      <3>2. QED
        BY <1>0, Zenon DEF Asks
    <2>11. QED
      BY <2>1, <2>3, <2>4, <2>5, <2>6, <2>7, <2>8, <2>9, <2>10, ZenonT(30) DEF Effect, Saves, Replays, Returns,
        Sends, Adds, Transmits, Receives, ReceivesRest, Gains, Detaches, Notices, FreesForClient
  <1>5. QED
    BY <1>0, <1>1, <1>2, <1>3, Zenon

\* Who may read which stream.
LEMMA HandlesStep ==
    ASSUME Shape, Places, Handles, Shape', Effect
    PROVE  Handles'
  <1>0. /\ Interrupt \notin Request /\ Execute \notin Request /\ NoStream \notin Request
        /\ Execute # NoStream /\ Request \subseteq Callers /\ Interrupt \in Callers
    BY ExecutorAssumption DEF Interrupt, Request, Execute, NoStream, Callers
  <1>1. ASSUME NEW data \in Int, Saves(data)
        PROVE  Handles'
    BY <1>1, ZenonT(30) DEF Saves, Handles
  <1>2. CASE Replays
    BY <1>2, Zenon DEF Replays, Handles
  <1>3. ASSUME NEW result \in {"paused", "completed", "failed"}, Returns(result)
        PROVE  Handles'
    BY <1>3, ZenonT(30) DEF Returns, Handles
  <1>4. CASE Sends
    BY <1>4, Zenon DEF Sends, Handles
  <1>5. CASE Executes
    BY <1>0, <1>5, Zenon DEF Executes, Begins, Handles
  <1>6. CASE Adds
    BY <1>0, <1>6 DEF Adds, Answered, Handles
  <1>7. ASSUME NEW r \in Request, Gets(r)
        PROVE  Handles'
    <2> USE <1>7
    <2>1. CASE session
      BY <1>0, <2>1 DEF Gets, GoesTo, Handles
    <2>2. CASE ~session
      BY <1>0, <2>2 DEF Gets, GoesTo, Answered, Handles
    <2>3. QED
      BY <2>1, <2>2, Zenon
  <1>8. ASSUME NEW r \in Request, Releases(r)
        PROVE  Handles'
    BY <1>0, <1>8, ZenonT(30) DEF Releases, Frees, GoesTo, Handles
  <1>9. ASSUME NEW r \in Request, Starts(r)
        PROVE  Handles'
    BY <1>0, <1>9 DEF Starts, Begins, GoesTo, Answered, Handles
  <1>10. ASSUME NEW r \in Request, Refuses(r)
         PROVE  Handles'
    BY <1>0, <1>10 DEF Refuses, GoesTo, Answered, Handles
  <1>11. ASSUME NEW r, NEW done, Pauses(r, done)
         PROVE  Handles'
    BY <1>0, <1>11, ZenonT(30) DEF Pauses, GoesTo, Handles
  <1>12. ASSUME NEW r, NEW done, HasPaused(r, done)
         PROVE  Handles'
    BY <1>0, <1>12 DEF HasPaused, GoesTo, Handles
  <1>13. CASE Transmits
    BY <1>13, Zenon DEF Transmits, Handles
  <1>14. CASE Receives \/ ReceivesRest
    BY <1>0, <1>14 DEF Receives, ReceivesRest, Gains, Handles
  <1>15. CASE Detaches
    BY <1>0, <1>15, ZenonT(30) DEF Detaches, Handles
  <1>16. CASE Notices
    BY <1>16, Zenon DEF Notices, Handles
  <1>17. ASSUME NEW r \in Request, Asks(r)
         PROVE  Handles'
    BY <1>0, <1>17 DEF Asks, Handles
  <1>18. ASSUME NEW dropped \in BOOLEAN, Loses(dropped)
         PROVE  Handles'
    BY <1>0, <1>18 DEF Loses, GoesTo, Handles
  <1>19. CASE FreesForClient
    <2> USE <1>19
    <2>1. RemoveUntil(<<>>, client.last) = <<>>
      BY DEF RemoveUntil
    <2> context'.nextId = context.nextId /\ (context.buffer = <<>> => context'.buffer = <<>>)
      BY <2>1, Zenon DEF FreesForClient, Frees
    <2>3. QED
      BY ZenonT(30) DEF FreesForClient, Handles
  <1>20. CASE Removes
    BY <1>0, <1>20 DEF Removes, GoesTo, Handles
  <1>21. QED
    BY <1>1, <1>2, <1>3, <1>4, <1>5, <1>6, <1>7, <1>8, <1>9, <1>10, <1>11, <1>12, <1>13, <1>14,
       <1>15, <1>16, <1>17, <1>18, <1>19, <1>20, Zenon DEF Effect

\* An interrupted operation is with those who held it when it was removed.
LEMMA InterruptedStep ==
    ASSUME Shape, Places, Handles, Interrupted, Shape', Effect
    PROVE  Interrupted'
  <1>0. /\ Interrupt \notin Request /\ Execute \notin Request /\ NoStream \notin Request
        /\ Execute # NoStream /\ Request \subseteq Callers /\ Interrupt \in Callers
    BY ExecutorAssumption DEF Interrupt, Request, Execute, NoStream, Callers
  <1>. DEFINE Premise == used.trouble = "interrupt" /\ Execute \notin used.held
              Conclusion ==
                /\ ~session /\ client.awaits # Execute
                /\ Holders \subseteq used.held
                /\ requests[Interrupt].pc = "pause" \/ state # "Running" \/ channel.owner \in used.held
  <1>1. CASE Removes
    <2>1. \A r \in Request : requests'[r].pc = requests[r].pc
      BY <1>0, <1>1, Zenon DEF Removes, GoesTo
    <2>2. Holders' = Holders
      BY <1>1, <2>1, Zenon DEF Removes, Holders
    <2> Execute \in Holders \/ client.awaits # Execute
      BY Zenon DEF Holders
    <2> client.awaits # Execute => session
      BY <1>1, Zenon DEF Removes, Handles
    <2>5. QED
      BY <1>1, <2>2, Zenon DEF Removes, GoesTo, Interrupted
  <1>2. CASE ~Removes
    <2>1. SUFFICES ASSUME Premise'
                   PROVE  Conclusion'
      BY Zenon DEF Interrupted
    <2>2. Premise /\ used'.held = used.held /\ used'.trouble = used.trouble
      BY <1>2, <2>1, ZenonT(30) DEF Effect, Saves, Replays, Returns, Sends, Executes, Adds, Gets, Releases,
        Starts, Refuses, Pauses, HasPaused, Transmits, Receives, ReceivesRest, Gains, Detaches,
        Notices, Asks, Loses, FreesForClient
    <2>3. Conclusion
      BY <2>2, Zenon DEF Interrupted
    <2>4. CASE UNCHANGED <<requests, session>> /\ client'.awaits # Execute
                 /\ (state' # "Running" \/ (state' = state /\ channel'.owner = channel.owner))
      <3> USE <2>4
      <3> Holders' \subseteq Holders
        BY Zenon DEF Holders
      <3>2. QED
        BY <2>2, <2>3, Zenon
    <2>5. CASE Executes \/ Adds
      BY <2>3, <2>5, ZenonT(30) DEF Executes, Adds, Handles
    <2>6. ASSUME NEW r \in Request, Gets(r)
          PROVE  Conclusion'
      <3>1. GoesTo(r, "done") /\ Answered(r, NoStream)
        BY <2>3, <2>6, ZenonT(30) DEF Gets
      <3> client'.awaits # Execute
        BY <1>0, <2>3, <3>1, Zenon DEF Answered
      <3>3. \A q \in Request : requests'[q].pc \in {requests[q].pc, "done"}
        BY <1>0, <3>1, Zenon DEF GoesTo
      <3> Holders' \subseteq Holders
        BY <3>3, Zenon DEF Holders
      <3> requests'[Interrupt].pc = requests[Interrupt].pc
        BY <1>0, <3>1, Zenon DEF GoesTo
      <3>6. QED
        BY <2>2, <2>3, <2>6, ZenonT(30) DEF Gets
    <2>7. ASSUME NEW r \in Request, Releases(r) \/ Refuses(r)
          PROVE  Conclusion'
      <3> USE <2>7
      <3>1. GoesTo(r, "start") \/ GoesTo(r, "done")
        BY Zenon DEF Releases, Refuses
      <3>2. client'.awaits # Execute
        BY <1>0, <2>3, Zenon DEF Releases, Refuses, Answered
      <3>3. r \in Holders
        BY ZenonT(30) DEF Releases, Refuses, Holders
      <3>4. \A q \in Request : q # r => requests'[q].pc = requests[q].pc
        BY <1>0, <3>1, Zenon DEF GoesTo
      <3> Holders' \subseteq Holders
        BY <3>2, <3>3, <3>4, Zenon DEF Holders
      <3> requests'[Interrupt].pc = requests[Interrupt].pc
        BY <1>0, <3>1, Zenon DEF GoesTo
      <3>7. QED
        BY <2>2, <2>3, <3>2 DEF Releases, Refuses
    <2>8. ASSUME NEW r \in Request, Starts(r)
          PROVE  Conclusion'
      <3> GoesTo(r, "done") /\ Answered(r, r) /\ channel'.owner = r /\ session' = session
        BY <2>8, Zenon DEF Starts, Begins
      <3> client'.awaits # Execute
        BY <1>0, <2>3, Zenon DEF Answered
      <3> r \in Holders
        BY <2>8, Zenon DEF Starts, Holders
      <3> \A q \in Request : q # r => requests'[q].pc = requests[q].pc
        BY <1>0, Zenon DEF GoesTo
      <3> Holders' \subseteq Holders
        BY Zenon DEF Holders
      <3>7. QED
        BY <2>2, <2>3, Zenon
    <2>9. ASSUME NEW r, NEW done, Pauses(r, done) \/ HasPaused(r, done)
          PROVE  Conclusion'
      <3> USE <2>9
      <3>1. /\ client' = client /\ session' = session /\ channel' = channel /\ state' # "Running"
        BY Zenon DEF Pauses, HasPaused
      <3>2. \A q \in Request : q # r => requests'[q].pc = requests[q].pc
        BY <1>0, Zenon DEF Pauses, HasPaused, GoesTo
      <3> r \in Request => r \in Holders
        BY ZenonT(30) DEF Pauses, HasPaused, Holders
      <3> Holders' \subseteq Holders
        BY <3>1, <3>2, Zenon DEF Holders
      <3>5. QED
        BY <2>2, <2>3, <3>1, Zenon
    <2>10. ASSUME NEW r \in Request, Asks(r)
           PROVE  Conclusion'
      <3> USE <2>10
      <3> client'.awaits # Execute /\ UNCHANGED <<state, channel, session>>
        BY <1>0, Zenon DEF Asks
      <3> /\ requests'[r].pc = "called" /\ requests'[Interrupt].pc = requests[Interrupt].pc
          /\ \A q \in Request : q # r => requests'[q].pc = requests[q].pc
        BY <1>0 DEF Asks
      <3> Holders' \subseteq Holders
        BY Zenon DEF Holders
      <3>4. QED
        BY <2>2, <2>3, Zenon
    <2>11. CASE \E dropped \in BOOLEAN : Loses(dropped)
      BY <2>2, <2>11, Zenon DEF Loses
    <2>12. QED
      BY <1>2, <2>3, <2>4, <2>5, <2>6, <2>7, <2>8, <2>9, <2>10, <2>11, ZenonT(30) DEF Effect, Saves, Replays,
        Returns, Sends, Transmits, Receives, ReceivesRest, Gains, Detaches, Notices, FreesForClient
  <1>3. QED
    BY <1>1, <1>2, Zenon

\* A reattach is refused with a reason.
LEMMA ReasonsStep ==
    ASSUME Shape, Places, Handles, Reasons, Shape', Effect,
           used.overlap \/ Alone
    PROVE  Reasons'
  <1>0. /\ Interrupt \notin Request /\ Execute \notin Request /\ NoStream \notin Request
        /\ Execute # NoStream /\ Request \subseteq Callers /\ Interrupt \in Callers
    BY ExecutorAssumption DEF Interrupt, Request, Execute, NoStream, Callers
  <1>1. ASSUME NEW data \in Int, Saves(data)
        PROVE  Reasons'
    BY <1>1, ZenonT(30) DEF Saves, Reasons, RefusedWithReason
  <1>2. CASE Replays
    BY <1>2, ZenonT(30) DEF Replays, Reasons, RefusedWithReason
  <1>3. ASSUME NEW result \in {"paused", "completed", "failed"}, Returns(result)
        PROVE  Reasons'
    BY <1>3, ZenonT(30) DEF Returns, Reasons, RefusedWithReason
  <1>4. CASE Sends \/ Transmits \/ Notices
    BY <1>4, ZenonT(30) DEF Sends, Transmits, Notices, Reasons, RefusedWithReason
  <1>5. CASE Executes
    BY <1>5, ZenonT(30) DEF Executes, Begins, Handles, Reasons, RefusedWithReason
  <1>6. CASE Adds
    BY <1>0, <1>6, Zenon DEF Adds, Answered, Reasons, RefusedWithReason
  <1>7. ASSUME NEW r \in Request, Gets(r)
        PROVE  Reasons'
    <2> USE <1>7
    <2>1. CASE session
      BY <2>1, ZenonT(30) DEF Gets, Reasons, RefusedWithReason
    <2>2. CASE ~session
      BY <1>0, <2>2, ZenonT(30) DEF Gets, Answered, Handles, Reasons, RefusedWithReason
    <2>3. QED
      BY <2>1, <2>2, Zenon
  <1>8. ASSUME NEW r \in Request, Releases(r)
        PROVE  Reasons'
    BY <1>8, ZenonT(30) DEF Releases, Reasons, RefusedWithReason
  <1>9. ASSUME NEW r \in Request, Starts(r)
        PROVE  Reasons'
    BY <1>0, <1>9, ZenonT(30) DEF Starts, Begins, Answered, Reasons, RefusedWithReason
  <1>10. ASSUME NEW r \in Request, Refuses(r)
         PROVE  Reasons'
    BY <1>0, <1>10, ZenonT(30) DEF Refuses, Answered, Alone, Reasons, RefusedWithReason
  <1>11. ASSUME NEW r, NEW done, Pauses(r, done)
         PROVE  Reasons'
    BY <1>11, ZenonT(30) DEF Pauses, Reasons, RefusedWithReason
  <1>12. ASSUME NEW r, NEW done, HasPaused(r, done)
         PROVE  Reasons'
    <2> USE <1>12
    <2> state = "Pausing"
      BY ZenonT(30) DEF HasPaused, Places, Callers
    <2>2. QED
      BY ZenonT(30) DEF HasPaused, Reasons, RefusedWithReason
  <1>14. CASE Receives \/ ReceivesRest
    BY <1>14, Zenon DEF Receives, ReceivesRest, Gains, Reasons, RefusedWithReason
  <1>15. CASE Detaches
    BY <1>15, Zenon DEF Detaches, Reasons, RefusedWithReason
  <1>17. ASSUME NEW r \in Request, Asks(r)
         PROVE  Reasons'
    BY <1>17, Zenon DEF Asks, Reasons, RefusedWithReason
  <1>18. ASSUME NEW dropped \in BOOLEAN, Loses(dropped)
         PROVE  Reasons'
    BY <1>18, ZenonT(30) DEF Loses, Reasons, RefusedWithReason
  <1>19. CASE FreesForClient
    BY <1>19, ZenonT(30) DEF FreesForClient, Reasons, RefusedWithReason
  <1>20. CASE Removes
    BY <1>20, Zenon DEF Removes, Reasons, RefusedWithReason
  <1>21. QED
    BY <1>1, <1>2, <1>3, <1>4, <1>5, <1>6, <1>7, <1>8, <1>9, <1>10, <1>11, <1>12, <1>14,
       <1>15, <1>17, <1>18, <1>19, <1>20, Zenon DEF Effect

\* Without an overlap there is one handler at most between its pause and its start.
LEMMA AloneStep ==
    ASSUME Shape, Places, Handles, Alone, Shape', Effect, ~used'.overlap
    PROVE  Alone'
  <1>0. /\ Interrupt \notin Request /\ Execute \notin Request /\ NoStream \notin Request
        /\ Request \subseteq Callers /\ Interrupt \in Callers
        /\ DOMAIN requests = Callers /\ DOMAIN requests' = Callers
    BY ExecutorAssumption DEF Interrupt, Request, Execute, NoStream, Callers, Shape
  <1>1. CASE UNCHANGED <<requests, state>>
    BY <1>1 DEF Alone, Pausers
  <1>2. ASSUME NEW r \in Callers, NEW pc \in Pc, GoesTo(r, pc), state' = state,
               pc \in {"release", "start"} => r \in Pausers /\ r \in Request
                                                /\ state \in {"Pending", "Idle", "Failed"},
               pc # "wait"
        PROVE  Alone'
    <2> USE <1>2
    <2> Pausers' \subseteq Pausers
      BY <1>0, Zenon DEF Pausers, GoesTo
    <2> \A q \in Request : q # r => requests'[q].pc = requests[q].pc
      BY <1>0, Zenon DEF GoesTo
    <2>3. QED
      BY Zenon DEF Alone, GoesTo
  <1>3. ASSUME NEW r \in Request, Gets(r) \/ Releases(r) \/ Refuses(r)
        PROVE  Alone'
    <2>1. {"pause", "start", "done"} \subseteq Pc
      BY Zenon DEF Pc
    <2> state' = state
      BY <1>3, Zenon DEF Gets, Releases, Refuses
    <2>3. CASE GoesTo(r, "pause") \/ GoesTo(r, "done")
      BY <1>0, <1>2, <2>1, <2>3, Zenon
    <2>4. CASE Releases(r)
      <3> GoesTo(r, "start") /\ r \in Pausers /\ state \in {"Pending", "Idle", "Failed"}
        BY <1>0, <2>4, Zenon DEF Releases, Pausers, Alone
      <3>2. QED
        BY <1>0, <1>2, <2>1, Zenon
    <2>5. QED
      BY <1>3, <2>3, <2>4, Zenon DEF Gets, Refuses
  <1>4. CASE Removes
    <2> {"pause", "done"} \subseteq Pc
      BY Zenon DEF Pc
    <2>2. QED
      BY <1>0, <1>2, <1>4, Zenon DEF Removes
  <1>5. CASE \E dropped \in BOOLEAN : Loses(dropped)
    <2> "done" \in Pc
      BY Zenon DEF Pc
    <2>2. QED
      BY <1>0, <1>1, <1>2, <1>5, Zenon DEF Loses
  <1>6. ASSUME NEW r \in Request, Starts(r)
        PROVE  Alone'
    <2> r \in Pausers /\ GoesTo(r, "done")
      BY <1>0, <1>6, Zenon DEF Starts, Pausers
    <2>2. \A q \in Callers : q # r => q \notin Pausers /\ requests'[q].pc = requests[q].pc
      BY Zenon DEF Alone, GoesTo
    <2> Pausers' = {}
      BY <1>0, <2>2, Zenon DEF Pausers, GoesTo
    <2> \A q \in Request : requests'[q].pc \notin {"release", "start"}
      BY <1>0, Zenon DEF Pausers
    <2>5. QED
      BY Zenon DEF Alone
  <1>7. CASE Executes
    <2> \A q \in Request : requests'[q].pc = "unused"
      BY <1>7, Zenon DEF Executes, Handles
    <2> \A q \in Pausers' : q = Interrupt
      BY <1>0, Zenon DEF Pausers, Callers
    <2>3. QED
      BY Zenon DEF Alone
  <1>8. ASSUME NEW r, NEW done, Pauses(r, done)
        PROVE  Alone'
    <2> USE <1>8
    <2>0. r \in Callers /\ (r \in Request \/ (r = Interrupt /\ done = "done"))
            /\ done \in {"release", "done"}
      BY <1>0, Zenon DEF Pauses
    <2>1. Pausers \ {r} = {} /\ state # "Pausing"
      BY ZenonT(30) DEF Pauses
    <2>2. \A q \in Callers : q # r => requests'[q].pc = requests[q].pc
      BY Zenon DEF Pauses, GoesTo
    <2>3. Pausers' \subseteq {r}
      BY <1>0, <2>1, <2>2, Zenon DEF Pausers
    <2>4. \A q \in Request : requests'[q].pc \in {"release", "start"} => q = r
      BY <1>0, <2>3 DEF Pausers
    <2> requests'[r].pc \in {"release", "start"} => state' \in {"Pending", "Idle", "Failed"}
      <3>1. CASE state = "Running"
        BY <3>1, Zenon DEF Pauses, GoesTo
      <3>2. CASE state # "Running"
        BY <2>1, <3>2, Zenon DEF Pauses, Shape, States
      <3>3. QED
        BY <3>1, <3>2, Zenon
    <2>6. QED
      BY <2>3, <2>4, Zenon DEF Alone
  <1>9. ASSUME NEW r, NEW done, HasPaused(r, done)
        PROVE  Alone'
    <2> USE <1>9
    <2> r \in Callers /\ r \in Pausers /\ state' \in {"Pending", "Idle", "Failed"}
      BY <1>0, Zenon DEF HasPaused, Pausers
    <2> \A q \in Callers : q # r => q \notin Pausers /\ requests'[q].pc = requests[q].pc
      BY Zenon DEF HasPaused, GoesTo, Alone
    <2> Pausers' \subseteq {r}
      BY <1>0, Zenon DEF Pausers
    <2>3. QED
      BY Zenon DEF Alone
  <1>10. ASSUME NEW r \in Request, Asks(r)
         PROVE  Alone'
    <2> USE <1>10
    <2> Pausers' \subseteq Pausers
      BY <1>0 DEF Pausers, Asks
    <2> \A q \in Request : requests'[q].pc \in {requests[q].pc, "called"}
      BY <1>0 DEF Asks
    <2>3. QED
      BY Zenon DEF Alone, Asks
  <1>11. QED
    BY <1>1, <1>3, <1>4, <1>5, <1>6, <1>7, <1>8, <1>9, <1>10, ZenonT(30) DEF Effect, Saves, Replays, Returns,
      Sends, Adds, Transmits, Receives, ReceivesRest, Gains, Detaches, Notices, FreesForClient
-----------------------------------------------------------------------------
(* The invariant that needs nothing of the size of the buffer.             *)

\* The executor starts in the invariant.
LEMMA BaseInit ==
    ASSUME Init
    PROVE  BaseInv
  <1>0. /\ Interrupt \notin Request /\ Execute \notin Request /\ NoStream \notin Request
        /\ Execute # NoStream
        /\ {Batches, InFlight, MaxRequests} \subseteq Nat /\ BufferCapacity \in Nat \ {0}
        /\ <<>> \in Seq(Responses) /\ <<>> \in Seq(Int) /\ Len(<<>>) = 0 /\ DOMAIN <<>> = {}
    BY ExecutorAssumption DEF Interrupt, Request, Execute, NoStream
  <1>1. context \in Contexts /\ context.buffer = <<>> /\ context.nextId = 1 /\ context.taken = 0
    BY <1>0 DEF Init, Contexts
  <1>2. /\ task \in Tasks /\ task.result = "paused" /\ task.phase = "replay"
        /\ task.replay = <<>> /\ task.out = NoResponse
    BY <1>0, Zenon DEF Init, Tasks, NewTask
  <1>3. /\ channel \in Channels /\ channel.owner = NoStream /\ channel.open = FALSE
        /\ channel.queue = <<>> /\ channel.wire = <<>>
    BY <1>0, Zenon DEF Init, Channels, NewChannel, Streams
  <1> /\ requests \in [Callers -> Handlers]
      /\ \A r \in Callers : requests[r].pc = "unused" /\ requests[r].last = 0
    BY <1>0, Zenon DEF Init, Callers, Handlers, Pc, NoId
  <1> /\ client \in Clients /\ client.stream = NoStream /\ client.awaits = Execute
      /\ client.rest = <<>> /\ client.last = 0 /\ client.got = <<>>
      /\ client.done = FALSE /\ client.error = FALSE
    BY <1>0, Zenon DEF Init, Clients, Streams, NoId
  <1>6. used \in Bounds /\ used.trouble = "none" /\ used.overlap = FALSE
    BY <1>0, Zenon DEF Init, Bounds
  <1>7. Shape
    BY <1>1, <1>2, <1>3, <1>6, ZenonT(30) DEF Init, Shape, States
  <1>8. Responding = {}
    BY <1>1, <1>2, <1>3, ItemsFacts, Zenon DEF Responding
  <1>9. IdsAreKnown
    BY <1>1, <1>8 DEF IdsAreKnown
  <1>10. Places
    BY <1>0, <1>1, <1>2, <1>3 DEF Places, Follows
  <1>11. Handles
    BY <1>0, <1>1, <1>2, <1>3 DEF Init, Handles, NoId, Callers
  <1> Reasons /\ Interrupted
    BY <1>2, <1>6, Zenon DEF Init, Reasons, RefusedWithReason, Interrupted
  <1> Alone
    BY Zenon DEF Alone, Pausers, Callers
  <1>14. QED
    BY <1>7, <1>9, <1>10, <1>11, Zenon DEF BaseInv

\* An overlap is never forgotten.
LEMMA OverlapStays ==
    ASSUME Effect, used.overlap
    PROVE  used'.overlap
  BY Zenon DEF Effect, Saves, Replays, Returns, Sends, Executes, Adds, Gets, Releases, Starts, Refuses,
    Pauses, HasPaused, Transmits, Receives, ReceivesRest, Gains, Detaches, Notices, Asks, Loses,
    FreesForClient, Removes

\* Every step keeps the invariant.
LEMMA BaseStep ==
    ASSUME BaseInv, [Next]_vars
    PROVE  BaseInv'
  <1>1. CASE Next
    <2> Shape /\ IdsAreKnown /\ Places /\ Handles /\ Reasons /\ Interrupted
          /\ (used.overlap \/ Alone)
      BY Zenon DEF BaseInv
    <2> Shape' /\ Effect
      BY <1>1, StepEffects, Zenon
    <2> IdsAreKnown' /\ Places' /\ Handles' /\ Reasons' /\ Interrupted'
      BY IdsStep, PlacesStep, HandlesStep, ReasonsStep, InterruptedStep, Zenon
    <2> used'.overlap \/ Alone'
      BY AloneStep, OverlapStays, Zenon
    <2>5. QED
      BY Zenon DEF BaseInv
  <1>2. CASE UNCHANGED vars
    <2> USE <1>2
    <2>1. (Shape => Shape') /\ (Handles => Handles')
      BY ZenonT(30) DEF vars, Shape, Handles
    <2>2. (IdsAreKnown => IdsAreKnown') /\ (Places => Places')
      BY Zenon DEF vars, IdsAreKnown, Responding, Places, Dropped
    <2> (Reasons => Reasons') /\ (Interrupted => Interrupted')
      BY ZenonT(30) DEF vars, Reasons, RefusedWithReason, Interrupted, Holders
    <2> (Alone => Alone') /\ used' = used
      BY DEF vars, Alone, Pausers
    <2>5. QED
      BY <2>1, <2>2, Zenon DEF BaseInv
  <1>3. QED
    BY <1>1, <1>2, Zenon

\* The invariant of the executor holds in every behaviour.
LEMMA BaseAlways == Spec => []BaseInv
  BY BaseInit, BaseStep, PTL DEF Spec

\* A task runs only while the executor is Running or Pausing, and the buffer, the
\* channel and the transport keep to their capacities: ExecutorBuffer::add and
\* remove_until leave ids that ascend.
THEOREM TypesHold == Spec => []TypeOK
  <1>1. ASSUME BaseInv
        PROVE  TypeOK
    <2> Shape /\ IdsAreKnown /\ Places
      BY <1>1, Zenon DEF BaseInv
    <2>2. \A i, j \in DOMAIN context.buffer :
                i < j => context.buffer[i].id < context.buffer[j].id
      <3> Dropped \in Nat /\ context.buffer \in Seq(Responses) /\ Follows(context.buffer, Dropped)
        BY DroppedFacts, Zenon DEF Places
      <3> DOMAIN context.buffer \subseteq Nat
        OBVIOUS
      <3>3. QED
        BY DEF Follows
    <2>3. \A n \in Nat : n < context.nextId => n \in Id
      BY DEF Id, Shape, Contexts
    <2> requests \in [Callers -> [pc : Pc, last : Id]] /\ client.last \in Id
      BY <2>3, Zenon DEF Shape, Handlers, Clients, IdsAreKnown
    <2> context.taken \in 0..Batches /\ used.trouble \in Trouble \cup {"none"}
          /\ task.result \in {"running", "paused", "completed", "failed"}
      BY Zenon DEF Shape, Contexts, Bounds, Tasks
    <2>6. QED
      BY <2>2, Zenon DEF TypeOK, Places, Shape, States, Callers, Pc
  <1>2. QED
    BY <1>1, BaseAlways, PTL

\* After an interrupt that found the operation, a task runs on only while a handler
\* holds the executor or until it sees that it has to stop, and only a handler that
\* held the executor when handle_interrupt_operation_id removed it has started it.
THEOREM InterruptsHold == Spec => []InterruptedIsStopped
  <1>1. ASSUME BaseInv
        PROVE  InterruptedIsStopped
    BY <1>1, Zenon DEF BaseInv, Handles, Interrupted, InterruptedIsStopped, LetGo
  <1>2. QED
    BY <1>1, BaseAlways, PTL

\* A reattach is refused only for a reason.
THEOREM RefusalsAreReasoned == Spec => []RefusedWithReason
  <1>1. ASSUME BaseInv
        PROVE  RefusedWithReason
    BY <1>1, ZenonT(30) DEF BaseInv, Reasons
  <1>2. QED
    BY <1>1, BaseAlways, PTL
-----------------------------------------------------------------------------
(* The stream of the client.                                               *)

\* The ids of the pieces of a sequence whose ids follow a.
LEMMA FollowsFacts ==
    /\ \A a : Follows(<<>>, a)
    /\ \A a \in Nat : \A x : x.id = a + 1 => Follows(<<x>>, a)
    /\ \A a \in Nat, s \in Seq(Responses) : s # <<>> /\ Follows(s, a) =>
          Head(s).id = a + 1 /\ Follows(Tail(s), a + 1)
    /\ \A a \in Nat, s, t \in Seq(Responses) : Follows(s, a) /\ Follows(t, a + Len(s)) =>
          Follows(s \o t, a)
  <1>1. (\A a : Follows(<<>>, a)) /\ (\A a \in Nat : \A x : x.id = a + 1 => Follows(<<x>>, a))
    BY DEF Follows
  <1>2. ASSUME NEW a \in Nat, NEW s \in Seq(Responses), s # <<>>, Follows(s, a)
        PROVE  Head(s).id = a + 1 /\ Follows(Tail(s), a + 1)
    <2> USE <1>2
    <2> /\ Len(s) \in Nat /\ Len(s) > 0 /\ DOMAIN s = 1..Len(s) /\ Head(s) = s[1]
        /\ DOMAIN Tail(s) = 1..(Len(s) - 1)
        /\ \A i \in 1..(Len(s) - 1) : Tail(s)[i] = s[i + 1]
      BY TailFacts, Zenon
    <2> 1 \in DOMAIN s /\ \A i \in 1..(Len(s) - 1) : i + 1 \in DOMAIN s
      OBVIOUS
    <2>3. \A i \in 1..(Len(s) - 1) : s[i + 1].id = a + (i + 1)
      BY Zenon DEF Follows
    <2> \A i \in 1..(Len(s) - 1) : Tail(s)[i].id = (a + 1) + i
      <3> \A i \in 1..(Len(s) - 1) : a + (i + 1) = (a + 1) + i
        OBVIOUS
      <3>2. QED
        BY <2>3, Zenon
    <2>5. QED
      BY Zenon DEF Follows
  <1>3. ASSUME NEW a \in Nat, NEW s \in Seq(Responses), NEW t \in Seq(Responses),
               Follows(s, a), Follows(t, a + Len(s))
        PROVE  Follows(s \o t, a)
    <2>1. \A i \in DOMAIN (s \o t) : \/ i \in DOMAIN s /\ (s \o t)[i] = s[i]
                                     \/ i - Len(s) \in DOMAIN t /\ (s \o t)[i] = t[i - Len(s)]
      OBVIOUS
    <2> Len(s) \in Nat /\ DOMAIN t \subseteq Nat /\ DOMAIN (s \o t) \subseteq Nat
      OBVIOUS
    <2> \A i \in DOMAIN (s \o t) : i - Len(s) \in DOMAIN t =>
            t[i - Len(s)].id = (a + Len(s)) + (i - Len(s))
      BY <1>3, Zenon DEF Follows
    <2> \A i \in Nat : (a + Len(s)) + (i - Len(s)) = a + i
      OBVIOUS
    <2>5. QED
      BY <1>3, <2>1, Zenon DEF Follows
  <1>4. QED
    BY <1>1, <1>2, <1>3, Zenon

\* The numbers that the invariant of the stream is about.
LEMMA Numbers ==
    ASSUME Shape
    PROVE  /\ client.last \in Nat /\ context.nextId \in Nat \ {0} /\ InFlight \in Nat
           /\ Len(channel.wire) \in Nat /\ Len(channel.queue) \in Nat
           /\ Len(task.replay) \in Nat /\ Len(context.buffer) \in Nat
           /\ Unsent \in {0, 1} /\ Transit \in Nat
           /\ channel.wire \in Seq(Responses) /\ channel.queue \in Seq(Responses)
           /\ task.replay \in Seq(Responses) /\ context.buffer \in Seq(Responses)
           /\ client.rest \in Seq(Responses)
           /\ \A r \in Request : requests[r].last \in Nat
  <1>1. /\ client.last \in Nat /\ context.nextId \in Nat \ {0} /\ InFlight \in Nat
        /\ channel.wire \in Seq(Responses) /\ channel.queue \in Seq(Responses)
        /\ task.replay \in Seq(Responses) /\ context.buffer \in Seq(Responses)
        /\ client.rest \in Seq(Responses)
    BY ExecutorAssumption, Zenon DEF Shape, Clients, Contexts, Channels, Tasks
  <1>2. \A r \in Request : requests[r].last \in Nat
    BY Zenon DEF Shape, Handlers, Callers
  <1>3. \A q \in Seq(Responses) : Len(q) \in Nat
    OBVIOUS
  <1> /\ Len(channel.wire) \in Nat /\ Len(channel.queue) \in Nat
      /\ Len(task.replay) \in Nat /\ Len(context.buffer) \in Nat
    BY <1>1, <1>3, Zenon
  <1> Transit \in Nat
    <2> \A w, q \in Nat : w + q \in Nat
      OBVIOUS
    <2>2. QED
      BY ZenonT(30) DEF Transit
  <1> Unsent \in {0, 1}
    BY Zenon DEF Unsent
  <1>7. QED
    BY <1>1, <1>2, Zenon

\* The responses that a task saves or replays.
LEMMA StreamTaskSteps ==
    ASSUME BaseInv, Stream, Shape', BufferCapacity >= InFlight + 2,
           (\E data \in Int : Saves(data)) \/ Replays \/ Sends
              \/ \E result \in {"paused", "completed", "failed"} : Returns(result)
    PROVE  Stream'
  <1>. DEFINE L == client.last
              N == context.nextId
              W == Len(channel.wire)
              Q == Len(channel.queue)
              R == Len(task.replay)
  <1>0. /\ Shape /\ Places
        /\ L \in Nat /\ N \in Nat \ {0} /\ InFlight \in Nat /\ W \in Nat /\ Q \in Nat /\ R \in Nat
        /\ task.replay \in Seq(Responses)
    BY Numbers, Zenon DEF BaseInv
  <1>. HIDE DEF L, N, W, Q, R
  <1>1. task.result = "running" /\ state \notin {"Pending"}
    BY <1>0, ZenonT(30) DEF Saves, Replays, Sends, Returns, Places
  <1>2. UNCHANGED <<state, requests, client>> /\ channel'.owner = channel.owner
            /\ channel'.open = channel.open
    BY ZenonT(30) DEF Saves, Replays, Sends, Returns
  <1>3. Resting' /\ Live' = Live
    BY <1>2, Zenon DEF Stream, Resting, Live
  <1>4. Asked'
    BY <1>1, <1>2, Zenon DEF Stream, Asked
  <1>5. ASSUME NEW data \in Int, Saves(data)
        PROVE  Flowing' /\ Ahead' /\ Kept'
    <2>0. /\ task.out = NoResponse /\ task.replay = <<>> /\ task'.replay = <<>>
          /\ task'.out = Response(N, data) /\ N' = N + 1
          /\ UNCHANGED <<channel, client>> /\ Len(<<>>) = 0
      BY <1>5, ZenonT(30) DEF Saves, N
    <2>1. task'.out # NoResponse /\ task'.out.id = N
      BY <1>0, <2>0 DEF Response, NoResponse, NoId
    <2>2. Unsent = 0 /\ Unsent' = 1 /\ Transit' = W + Q /\ Transit = W + Q /\ W' = W /\ Q' = Q
            /\ L' = L
      BY <2>0, <2>1, Zenon DEF Unsent, Transit, W, Q, L
    <2>3. Flowing'
      <3>1. SUFFICES ASSUME Live PROVE Flowing'
        BY <1>3, Zenon DEF Flowing
      <3> /\ channel.open /\ Follows(channel.wire, L) /\ Follows(channel.queue, L + W)
          /\ N - 1 = L + (W + Q) + 0 + 0
        BY <1>1, <2>0, <2>2, <3>1, Zenon DEF Stream, Flowing, L, N, W
      <3> N = L + (W + Q) + 1 /\ (N + 1) - 1 = L + (W + Q) + 1 + 0
        BY <1>0
      <3>4. QED
        BY <2>0, <2>1, <2>2, FollowsFacts DEF Flowing, L, N, W
    <2>4. W + Q <= InFlight + 1
      <3> W <= InFlight /\ Q <= 1
        BY <1>0, Zenon DEF Places, W, Q
      <3>2. QED
        BY <1>0
    <2>5. channel.open => N - 1 <= L + (W + Q) + 0 + 0
      BY <1>1, <2>0, <2>2, Zenon DEF Stream, Ahead, N, L
    <2>6. N - 1 <= L + InFlight + 1
      <3>1. CASE channel.open
        BY <1>0, <2>4, <2>5, <3>1
      <3>2. CASE ~channel.open
        BY <1>1, <2>0, <3>2, Zenon DEF Stream, Ahead, N, L
      <3>3. QED
        BY <3>1, <3>2, Zenon
    <2>7. Ahead'
      <3> channel.open => (N + 1) - 1 <= L + (W + Q) + 1 + 0
        BY <1>0, <2>5
      <3>2. QED
        BY <2>0, <2>1, <2>2, Zenon DEF Ahead, N, L
    <2> Kept'
      <3>1. /\ Len(context.buffer) < BufferCapacity => Dropped' = Dropped
            /\ Len(context.buffer) = BufferCapacity => Dropped' = Dropped + 1
        BY <1>0, <1>5, SavesBuffer, Zenon
      <3>. DEFINE B == Len(context.buffer)
      <3>2. B <= BufferCapacity /\ BufferCapacity \in Nat
        BY <1>0, ExecutorAssumption, Zenon DEF Places
      <3>3. Dropped \in Nat /\ N = Dropped + B + 1 /\ B \in Nat
        BY <1>0, DroppedFacts, Zenon DEF N
      <3>4. Dropped <= L
        BY Zenon DEF Stream, Kept, L
      <3>. HIDE DEF B
      <3>5. CASE B < BufferCapacity
        BY <2>2, <3>1, <3>4, <3>5, Zenon DEF Kept, B, L
      <3>6. CASE B = BufferCapacity
        <4> USE <3>6
        <4> Dropped + 1 <= L
          BY <1>0, <2>6, <3>2, <3>3
        <4>2. QED
          BY <2>2, <3>1, Zenon DEF Kept, B, L
      <3>7. QED
        BY <3>2, <3>3, <3>5, <3>6
    <2>9. QED
      BY <2>3, <2>7, Zenon
  <1>6. CASE Replays
    <2> /\ task.out = NoResponse /\ task.replay # <<>> /\ task'.replay = Tail(task.replay)
        /\ task'.out = Head(task.replay) /\ N' = N
        /\ UNCHANGED <<channel, client, context>>
      BY <1>6, Zenon DEF Replays, N
    <2>1. /\ R > 0 /\ Len(Tail(task.replay)) = R - 1
          /\ Head(task.replay) \in Responses /\ Head(task.replay) # NoResponse
      <3> R > 0 /\ Len(Tail(task.replay)) = R - 1 /\ Head(task.replay) \in Responses
        BY <1>0, TailFacts, Zenon DEF R
      <3> \A x \in Responses : x # NoResponse
        BY DEF Responses, NoResponse, Response, NoId
      <3>3. QED
        BY Zenon
    <2>2. Unsent = 0 /\ Unsent' = 1 /\ Transit' = W + Q /\ Transit = W + Q /\ W' = W /\ Q' = Q
            /\ L' = L /\ R' = R - 1
      BY <2>1, Zenon DEF Unsent, Transit, W, Q, L, R
    <2>3. Flowing'
      <3>1. SUFFICES ASSUME Live PROVE Flowing'
        BY <1>3, Zenon DEF Flowing
      <3> /\ channel.open /\ Follows(channel.wire, L) /\ Follows(channel.queue, L + W)
          /\ Follows(task.replay, L + (W + Q) + 0)
          /\ N - 1 = L + (W + Q) + 0 + R
        BY <1>1, <2>2, <3>1, Zenon DEF Stream, Flowing, L, N, W, R
      <3> L + (W + Q) + 0 \in Nat /\ (L + (W + Q) + 0) + 1 = L + (W + Q) + 1
          /\ N - 1 = L + (W + Q) + 1 + (R - 1)
        BY <1>0
      <3> Head(task.replay).id = L + (W + Q) + 1 /\ Follows(Tail(task.replay), L + (W + Q) + 1)
        BY <1>0, FollowsFacts, Zenon
      <3>5. QED
        BY <2>1, <2>2, Zenon DEF Flowing, L, N, W
    <2> Ahead'
      <3> channel.open => N - 1 <= L + (W + Q) + 0 + R
        BY <1>1, <2>2, Zenon DEF Stream, Ahead, N, L, R
      <3> channel.open => N - 1 <= L + (W + Q) + 1 + (R - 1)
        BY <1>0
      <3>3. QED
        BY <2>1, <2>2, Zenon DEF Ahead, N, L
    <2> Kept'
      BY Zenon DEF Stream, Kept, Dropped
    <2>6. QED
      BY <1>3, <1>4, <2>3, Zenon DEF Stream
  <1>7. CASE Sends
    <2> /\ task.out # NoResponse /\ channel.queue = <<>> /\ channel.open /\ channel'.open
        /\ task'.out = NoResponse /\ task'.replay = task.replay
        /\ channel'.queue = <<task.out>> /\ channel'.wire = channel.wire
        /\ UNCHANGED <<client, context>> /\ Len(<<>>) = 0 /\ Len(<<task.out>>) = 1
      BY <1>7, Zenon DEF Sends
    <2>2. Unsent = 1 /\ Unsent' = 0 /\ Transit' = W + 1 /\ Transit = W + 0 /\ W' = W
            /\ L' = L /\ R' = R /\ N' = N
      BY Zenon DEF Unsent, Transit, W, L, R, N
    <2>3. Flowing'
      <3>1. SUFFICES ASSUME Live PROVE Flowing'
        BY <1>3, Zenon DEF Flowing
      <3> /\ Follows(channel.wire, L) /\ task.out.id = L + (W + 0) + 1
          /\ Follows(task.replay, L + (W + 0) + 1)
          /\ N - 1 = L + (W + 0) + 1 + R
        BY <1>1, <2>2, <3>1, Zenon DEF Stream, Flowing, L, N, R
      <3> L + W \in Nat /\ L + (W + 0) + 1 = (L + W) + 1
          /\ L + (W + 0) + 1 = L + (W + 1) + 0
          /\ N - 1 = L + (W + 1) + 0 + R
        BY <1>0
      <3> Follows(<<task.out>>, L + W)
        BY FollowsFacts
      <3> Follows(task.replay, L + (W + 1) + 0)
        BY Zenon
      <3>6. QED
        BY <2>2, Zenon DEF Flowing, L, N, W, R
    <2> Ahead'
      <3> N - 1 <= L + (W + 0) + 1 + R
        BY <1>1, <2>2, Zenon DEF Stream, Ahead, N, L, R
      <3> N - 1 <= L + (W + 1) + 0 + R
        BY <1>0
      <3>3. QED
        BY <2>2, Zenon DEF Ahead, N, L, R
    <2> Kept'
      BY Zenon DEF Stream, Kept, Dropped
    <2>6. QED
      BY <1>3, <1>4, <2>3, Zenon DEF Stream
  <1>8. ASSUME NEW result \in {"paused", "completed", "failed"}, Returns(result)
        PROVE  Stream'
    <2> task'.result # "running" /\ UNCHANGED <<channel, client, context>>
      BY <1>8, ZenonT(30) DEF Returns
    <2>2. Flowing'
      BY <1>3, Zenon DEF Stream, Flowing
    <2> Ahead'
      BY Zenon DEF Ahead
    <2> Kept'
      BY Zenon DEF Stream, Kept, Dropped
    <2>5. QED
      BY <1>3, <1>4, <2>2, Zenon DEF Stream
  <1>9. QED
    BY <1>3, <1>4, <1>5, <1>6, <1>7, <1>8, Zenon DEF Stream

\* A step that moves no response, and gives the client no other stream than it
\* reads already.
LEMMA StreamQuiet ==
    ASSUME Stream, UNCHANGED <<context, channel>>,
           task'.result = task.result, task'.out = task.out, task'.replay = task.replay,
           client'.last = client.last, Live' => Live,
           client'.stream \in {client.stream, NoStream, channel.owner},
           client'.stream # NoStream => client'.rest = client.rest
    PROVE  Flowing' /\ Ahead' /\ Resting' /\ Kept'
  <1> Unsent' = Unsent /\ Transit' = Transit /\ Dropped' = Dropped
    BY Zenon DEF Unsent, Transit, Dropped
  <1>2. Flowing'
    BY Zenon DEF Stream, Flowing
  <1> Ahead'
    BY Zenon DEF Stream, Ahead
  <1> Resting' /\ Kept'
    BY Zenon DEF Stream, Resting, Kept
  <1>5. QED
    BY <1>2, Zenon

\* The handlers and the client, where no response moves.
LEMMA StreamQuietSteps ==
    ASSUME BaseInv, Stream, Alone, Shape',
           \/ Adds \/ Detaches \/ Removes
           \/ \E r \in Request : Gets(r) \/ Refuses(r) \/ Asks(r)
           \/ \E r, done : Pauses(r, done) \/ HasPaused(r, done)
           \/ \E dropped \in BOOLEAN : Loses(dropped)
    PROVE  Stream'
  <1>0. /\ Interrupt \notin Request /\ Execute \notin Request /\ NoStream \notin Request
        /\ Execute # NoStream /\ Request \subseteq Callers /\ Interrupt \in Callers
        /\ DOMAIN requests = Callers
    BY ExecutorAssumption DEF Interrupt, Request, Execute, NoStream, Callers, BaseInv, Shape
  <1>1. Handles /\ \A r \in Request : requests[r].last \in Nat
    BY Numbers, Zenon DEF BaseInv
  <1>2. ASSUME NEW r \in Callers, NEW pc \in Pc \ {"start"}, GoesTo(r, pc), state' = state,
               UNCHANGED context, client'.last = client.last,
               client'.awaits \in {client.awaits, NoStream}
        PROVE  Asked'
    <2> USE <1>2
    <2> Dropped' = Dropped
      BY Zenon DEF Dropped
    <2> \A q \in Request : /\ requests'[q].last = requests[q].last
                           /\ requests'[q].pc = "start" => requests[q].pc = "start"
      BY <1>0, Zenon DEF GoesTo
    <2>3. QED
      BY <1>0 DEF Stream, Asked
  <1>3. CASE Adds
    <2> USE <1>3
    <2>1. Live /\ Flowing' /\ Ahead' /\ Resting' /\ Kept'
      <3> Live
        BY <1>0, ZenonT(30) DEF Adds, Live
      <3>2. QED
        BY StreamQuiet, ZenonT(30) DEF Adds, Answered
    <2> Asked'
      BY <1>0, ZenonT(30) DEF Adds, Answered, Stream, Asked, Dropped
    <2>3. QED
      BY <2>1, Zenon DEF Stream
  <1>4. CASE Detaches
    <2> USE <1>4
    <2>1. Live' => Live
      BY ZenonT(30) DEF Detaches, Live
    <2> Flowing' /\ Ahead' /\ Resting' /\ Kept'
      BY <2>1, StreamQuiet, ZenonT(30) DEF Detaches
    <2> Asked'
      BY Zenon DEF Detaches, Stream, Asked, Dropped
    <2>4. QED
      BY Zenon DEF Stream
  <1>5. CASE Removes
    <2> USE <1>5
    <2>1. Flowing' /\ Ahead' /\ Resting' /\ Kept'
      BY StreamQuiet, Zenon DEF Removes, Live
    <2> Asked'
      <3> {"pause", "done"} \subseteq Pc \ {"start"}
        BY Zenon DEF Pc
      <3>2. QED
        BY <1>0, <1>2, Zenon DEF Removes
    <2>3. QED
      BY <2>1, Zenon DEF Stream
  <1>6. ASSUME NEW r \in Request, Gets(r) \/ Refuses(r)
        PROVE  Stream'
    <2>0. {"pause", "done"} \subseteq Pc \ {"start"}
      BY Zenon DEF Pc
    <2>1. client' = client \/ (Answered(r, NoStream) /\ client'.rest = client.rest)
      BY <1>6, ZenonT(30) DEF Gets, Refuses
    <2>2. Live' => Live
      BY <1>6, <2>1, ZenonT(30) DEF Gets, Refuses, Answered, Live
    <2>3. UNCHANGED <<context, channel, task, state>>
      BY <1>6, ZenonT(30) DEF Gets, Refuses
    <2>4. Flowing' /\ Ahead' /\ Resting' /\ Kept'
      BY <2>1, <2>2, <2>3, StreamQuiet, ZenonT(30) DEF Answered
    <2> GoesTo(r, "pause") \/ GoesTo(r, "done")
      BY <1>6, ZenonT(30) DEF Gets, Refuses
    <2> Asked'
      BY <1>0, <1>2, <2>0, <2>1, <2>3, ZenonT(30) DEF Answered
    <2>7. QED
      BY <2>4, Zenon DEF Stream
  <1>7. ASSUME NEW r \in Request, Asks(r)
        PROVE  Stream'
    <2> USE <1>7
    <2>1. channel.owner # r
      BY <1>1, ZenonT(30) DEF Handles, Asks
    <2>2. Live' => Live
      BY <2>1, ZenonT(30) DEF Asks, Live
    <2>3. Flowing' /\ Ahead' /\ Resting' /\ Kept'
      BY <2>2, StreamQuiet, ZenonT(30) DEF Asks
    <2>4. requests'[r].pc = "called" /\ requests'[r].last = client.last
      <3> requests'[r] = [pc |-> "called", last |-> client.last]
        BY Zenon DEF Asks
      <3>2. QED
        OBVIOUS
    <2>5. \A q \in Request : q # r => requests'[q] = requests[q]
      BY <1>0, Zenon DEF Asks
    <2> client.last \in Nat /\ Dropped' = Dropped /\ client'.last = client.last
          /\ client'.awaits = r /\ state' = state
      BY Numbers, ZenonT(30) DEF Asks, Dropped, BaseInv
    <2> Asked'
      BY <2>4, <2>5 DEF Stream, Asked
    <2>8. QED
      BY <2>3, Zenon DEF Stream
  <1>8. ASSUME NEW r, NEW done, Pauses(r, done)
        PROVE  Stream'
    <2>1. Flowing' /\ Ahead' /\ Resting' /\ Kept'
      BY <1>8, StreamQuiet, Zenon DEF Pauses, Live
    <2>2. r \in Callers /\ done # "start"
      BY <1>0, <1>8, ZenonT(30) DEF Pauses
    <2>3. \A q \in Request : /\ requests'[q].last = requests[q].last
                             /\ requests'[q].pc = "start" => requests[q].pc = "start"
      BY <1>0, <1>8, <2>2, ZenonT(30) DEF Pauses, GoesTo
    <2>4. state' = "Pending" => state = "Pending"
      BY <1>8, ZenonT(30) DEF Pauses
    <2> Dropped' = Dropped /\ client' = client
      BY <1>8, ZenonT(30) DEF Pauses, Dropped
    <2> Asked'
      BY <2>3, <2>4, ZenonT(30) DEF Stream, Asked
    <2>7. QED
      BY <2>1, Zenon DEF Stream
  <1>9. ASSUME NEW r, NEW done, HasPaused(r, done)
        PROVE  Stream'
    <2> USE <1>9
    <2>1. Flowing' /\ Ahead' /\ Resting' /\ Kept'
      BY StreamQuiet, ZenonT(30) DEF HasPaused, Live
    <2>2. r \in Callers /\ done # "start" /\ r \in Pausers
      BY <1>0, ZenonT(30) DEF HasPaused, Pausers
    <2>3. \A q \in Request : requests'[q].last = requests[q].last /\ requests'[q].pc # "start"
      <3>1. \A q \in Request : q # r => q \notin Pausers
        BY <2>2, Zenon DEF Alone
      <3> \A q \in Request : q # r => requests[q].pc # "start"
        BY <1>0, <3>1, Zenon DEF Pausers
      <3>3. QED
        BY <1>0, <2>2, ZenonT(30) DEF HasPaused, GoesTo
    <2> client' = client
      BY ZenonT(30) DEF HasPaused
    <2> Asked'
      BY <2>3, Zenon DEF Stream, Asked
    <2>7. QED
      BY <2>1, Zenon DEF Stream
  <1>10. ASSUME NEW dropped \in BOOLEAN, Loses(dropped)
         PROVE  Stream'
    <2> USE <1>10
    <2>1. Live' => Live
      BY ZenonT(30) DEF Loses, Live
    <2>2. Flowing' /\ Ahead' /\ Resting' /\ Kept'
      BY <2>1, StreamQuiet, ZenonT(30) DEF Loses
    <2> Asked'
      <3>1. CASE dropped
        <4> "done" \in Pc \ {"start"} /\ client.awaits \in Callers
          BY <1>0, ZenonT(30) DEF Pc, Loses
        <4>2. QED
          BY <1>2, <3>1, ZenonT(30) DEF Loses
      <3>2. CASE ~dropped
        BY <1>0, <3>2, ZenonT(30) DEF Loses, Stream, Asked, Dropped
      <3>3. QED
        BY <3>1, <3>2, Zenon
    <2>4. QED
      BY <2>2, Zenon DEF Stream
  <1>11. QED
    BY <1>3, <1>4, <1>5, <1>6, <1>7, <1>8, <1>9, <1>10, Zenon

\* A release drops nothing that the client does not have.
LEMMA StreamBufferSteps ==
    ASSUME BaseInv, Stream, Shape', FreesForClient \/ \E r \in Request : Releases(r)
    PROVE  Stream'
  <1>0. /\ Shape /\ Places /\ IdsAreKnown /\ client.last \in Nat /\ Dropped \in Nat
        /\ \A r \in Request : requests[r].last \in Nat
        /\ Request \subseteq Callers
    BY Numbers, DroppedFacts, Zenon DEF BaseInv, Callers
  <1>1. /\ UNCHANGED <<state, task, channel, client>> /\ context'.nextId = context.nextId
        /\ Unsent' = Unsent /\ Transit' = Transit /\ Live' = Live
    BY ZenonT(30) DEF FreesForClient, Releases, Frees, Unsent, Transit, Live
  <1>2. Flowing' /\ Ahead' /\ Resting'
    <2>1. Flowing'
      BY <1>1, Zenon DEF Stream, Flowing
    <2> Ahead'
      BY <1>1, Zenon DEF Stream, Ahead
    <2> Resting'
      BY <1>1, Zenon DEF Stream, Resting
    <2>4. QED
      BY <2>1, Zenon
  <1>3. CASE FreesForClient
    <2>1. client.last < context.nextId
      BY <1>0, Zenon DEF IdsAreKnown
    <2> Dropped' \in {Dropped, client.last} /\ Dropped' >= Dropped
      <3>1. CASE Frees(client.last)
        BY <1>0, <2>1, <3>1, FreesBuffer, Zenon
      <3>2. CASE UNCHANGED context
        BY <1>0, <3>2 DEF Dropped
      <3>3. QED
        BY <1>3, <3>1, <3>2, ZenonT(30) DEF FreesForClient
    <2>3. Kept'
      BY <1>0, <1>1 DEF Stream, Kept
    <2> Asked'
      <3> UNCHANGED requests
        BY <1>3, Zenon DEF FreesForClient
      <3>2. QED
        BY <1>0, <1>1, Zenon DEF Stream, Asked
    <2>5. QED
      BY <1>2, <2>3, Zenon DEF Stream
  <1>4. ASSUME NEW r \in Request, Releases(r)
        PROVE  Stream'
    <2>1. requests[r].last < context.nextId /\ Frees(requests[r].last)
      BY <1>0, <1>4, ZenonT(30) DEF IdsAreKnown, Releases
    <2>2. /\ Dropped' \in {Dropped, requests[r].last} /\ Dropped' >= Dropped
          /\ state = "Pending" => Dropped' >= requests[r].last
      BY <1>0, <2>1, FreesBuffer, Zenon
    <2>3. requests[r].last <= client.last
      BY Zenon DEF Stream, Asked
    <2>4. Kept'
      BY <1>0, <1>1, <2>2, <2>3, ZenonT(30) DEF Stream, Kept
    <2> \A q \in Request : /\ requests'[q].last = requests[q].last
                           /\ q # r => requests'[q].pc = requests[q].pc
      BY <1>0, <1>4, ZenonT(30) DEF Releases, GoesTo
    <2> \A q \in Request : requests'[q].pc = "start" /\ state = "Pending" =>
              requests[q].last <= Dropped'
      <3> \A q \in Request : q # r /\ requests[q].pc = "start" /\ state = "Pending" =>
              requests[q].last <= Dropped
        BY Zenon DEF Stream, Asked
      <3>2. QED
        BY <1>0, <2>2
    <2> Asked'
      BY <1>1, ZenonT(30) DEF Stream, Asked
    <2>8. QED
      BY <1>2, <2>4, Zenon DEF Stream
  <1>5. QED
    BY <1>3, <1>4, Zenon

\* A task that begins replays exactly what its client does not have.
LEMMA StreamBeginSteps ==
    ASSUME BaseInv, Stream, Shape', Executes \/ \E r \in Request : Starts(r)
    PROVE  Stream'
  <1>. DEFINE L == client.last
              N == context.nextId
              B == Len(context.buffer)
  <1>0. /\ Shape /\ Places /\ Handles /\ L \in Nat /\ N \in Nat \ {0} /\ B \in Nat
        /\ Dropped \in Nat /\ N = Dropped + B + 1 /\ Follows(context.buffer, Dropped)
        /\ context.buffer \in Seq(Responses) /\ NoStream \notin Request /\ Execute \notin Request
        /\ Request \subseteq Callers /\ Execute # NoStream
        /\ \A r \in Request : requests[r].last \in Nat
    <2> Shape /\ Places /\ Handles
      BY Zenon DEF BaseInv
    <2> NoStream \notin Request /\ Execute \notin Request /\ Execute # NoStream
          /\ Request \subseteq Callers
      BY ExecutorAssumption DEF NoStream, Execute, Request, Callers
    <2>3. QED
      BY Numbers, DroppedFacts, ZenonT(30) DEF Places
  <1>1. /\ state' = "Running" /\ UNCHANGED context /\ client'.last = client.last
        /\ channel'.open /\ channel'.queue = <<>> /\ channel'.wire = <<>>
        /\ task'.out = NoResponse /\ task'.replay = context.buffer
    BY ZenonT(30) DEF Executes, Starts, Begins, Answered
  <1>2. Unsent' = 0 /\ Transit' = 0 /\ Dropped' = Dropped /\ Len(<<>>) = 0
    BY <1>1 DEF Unsent, Transit, Dropped
  <1>3. Dropped <= L
    BY Zenon DEF Stream, Kept
  <1>. HIDE DEF L, N, B
  <1>4. Kept'
    BY <1>1, <1>2, <1>3, Zenon DEF Kept, L
  <1>5. Ahead'
    <2> N - 1 <= L + 0 + 0 + B
      BY <1>0, <1>3
    <2>2. QED
      BY <1>1, <1>2, Zenon DEF Ahead, L, N, B
  <1>6. ASSUME Dropped = L
        PROVE  Flowing'
    <2> Follows(context.buffer, L + 0 + 0) /\ N - 1 = L + 0 + 0 + B
      <3> L + 0 + 0 = Dropped /\ N - 1 = L + 0 + 0 + B
        BY <1>0, <1>6
      <3>2. QED
        BY <1>0, Zenon
    <2>2. QED
      BY <1>1, <1>2, FollowsFacts DEF Flowing, L, N, B
  <1>7. CASE Executes
    <2> channel.owner = NoStream /\ UNCHANGED <<requests, client>> /\ channel'.owner = Execute
      BY <1>7, Zenon DEF Executes, Begins
    <2> client.awaits = Execute /\ client.stream = NoStream /\ L = 0
      BY <1>0, Zenon DEF Handles, NoId, L
    <2>3. Flowing'
      BY <1>0, <1>3, <1>6
    <2> Resting'
      BY Zenon DEF Resting
    <2> Asked'
      BY <1>1, Zenon DEF Stream, Asked
    <2>6. QED
      BY <1>4, <1>5, <2>3, Zenon DEF Stream
  <1>8. ASSUME NEW r \in Request, Starts(r)
        PROVE  Stream'
    <2>1. /\ requests[r].pc = "start" /\ state = "Pending" /\ channel'.owner = r
          /\ Answered(r, r) /\ GoesTo(r, "done")
          /\ client'.rest = (IF client.awaits = r THEN <<>> ELSE Rest)
      BY <1>8, ZenonT(30) DEF Starts, Begins
    <2>2. client.stream # r
      BY <1>0, <2>1, ZenonT(30) DEF Handles
    <2>3. Asked'
      <3>1. \A q \in Request : requests'[q].last = requests[q].last
        BY <1>0, <2>1, ZenonT(30) DEF GoesTo
      <3> client'.awaits \in {client.awaits, NoStream}
        BY <2>1, ZenonT(30) DEF Answered
      <3>3. QED
        BY <1>0, <1>1, <3>1, ZenonT(30) DEF Stream, Asked
    <2>4. CASE client.awaits = r
      <3> USE <2>4
      <3>1. requests[r].last = L /\ requests[r].last <= Dropped
        BY <2>1, Zenon DEF Stream, Asked, L
      <3> Flowing'
        BY <1>0, <1>3, <1>6, <3>1
      <3> Resting'
        BY <2>1, Zenon DEF Resting, Answered
      <3>4. QED
        BY <1>4, <1>5, <2>3, Zenon DEF Stream
    <2>5. CASE client.awaits # r
      <3>1. client'.stream = client.stream /\ client'.awaits = client.awaits /\ client'.rest = Rest
        BY <2>1, <2>5, Zenon DEF Answered
      <3>2. ~Live'
        BY <2>1, <2>2, <2>5, <3>1, Zenon DEF Live
      <3>3. Flowing'
        BY <3>2, Zenon DEF Flowing
      <3> Resting'
        <4>1. SUFFICES ASSUME client.stream # NoStream PROVE Follows(Rest, client.last)
          BY <1>1, <3>1, Zenon DEF Resting
        <4>2. CASE channel.owner = client.stream
          <5>1. Live
            BY <4>1, <4>2, Zenon DEF Live
          <5> /\ Follows(channel.wire, client.last)
              /\ Follows(channel.queue, client.last + Len(channel.wire))
            BY <5>1, Zenon DEF Stream, Flowing
          <5> Rest = channel.wire \o channel.queue
            BY <4>2, Zenon DEF Rest
          <5>4. QED
            BY <1>0, Numbers, FollowsFacts, ZenonT(30)
        <4>3. CASE channel.owner # client.stream
          BY <4>1, <4>3, Zenon DEF Rest, Stream, Resting
        <4>4. QED
          BY <4>2, <4>3, Zenon
      <3>5. QED
        BY <1>4, <1>5, <2>3, <3>3, Zenon DEF Stream
    <2>6. QED
      BY <2>4, <2>5, Zenon
  <1>9. QED
    BY <1>7, <1>8, Zenon

\* The transport and the client keep the order of the responses.
LEMMA StreamClientSteps ==
    ASSUME BaseInv, Stream, Shape', Transmits \/ Receives \/ ReceivesRest \/ Notices
    PROVE  Stream'
  <1>. DEFINE L == client.last
              N == context.nextId
              W == Len(channel.wire)
              Q == Len(channel.queue)
              R == Len(task.replay)
              U == Unsent
  <1>0. /\ L \in Nat /\ N \in Nat \ {0} /\ InFlight \in Nat /\ W \in Nat /\ Q \in Nat /\ R \in Nat
        /\ U \in {0, 1} /\ Dropped \in Nat /\ W <= InFlight /\ Q <= 1 /\ Transit = W + Q
        /\ channel.wire \in Seq(Responses) /\ channel.queue \in Seq(Responses)
        /\ client.rest \in Seq(Responses)
        /\ \A r \in Request : requests[r].last \in Nat
    BY Numbers, DroppedFacts, ZenonT(30) DEF BaseInv, Places, Transit
  <1>1. Handles /\ NoStream \notin Request
    BY ExecutorAssumption DEF BaseInv, NoStream, Request
  <1>2. /\ UNCHANGED <<state, context, task, requests>> /\ Dropped' = Dropped /\ U' = U
        /\ client'.stream = client.stream /\ client'.awaits = client.awaits
        /\ channel'.owner = channel.owner /\ Live' = Live
    BY ZenonT(30) DEF Transmits, Receives, ReceivesRest, Gains, Notices, Unsent, Dropped, Live
  <1>. HIDE DEF L, N, W, Q, R, U
  <1>3. ASSUME Live
        PROVE  /\ channel.open /\ Follows(channel.wire, L) /\ Follows(channel.queue, L + W)
               /\ task.result = "running" =>
                    /\ task.out # NoResponse => task.out.id = L + (W + Q) + 1
                    /\ Follows(task.replay, L + (W + Q) + U)
                    /\ N - 1 = L + (W + Q) + U + R
    BY <1>0, <1>3, ZenonT(30) DEF Stream, Flowing, L, N, W, R, U
  <1>4. task.result = "running" /\ channel.open => N - 1 <= L + (W + Q) + U + R
    BY <1>0, Zenon DEF Stream, Ahead, L, N, R, U
  <1>5. CASE Transmits
    <2>1. /\ channel'.wire = channel.wire \o channel.queue /\ channel'.queue = <<>>
          /\ UNCHANGED client /\ channel.open /\ channel'.open
      BY <1>5, Zenon DEF Transmits
    <2>2. Len(channel'.wire) = W + Q /\ Len(channel'.queue) = 0 /\ W + Q + 0 = W + Q
      BY <1>0, <2>1 DEF W, Q
    <2>3. Transit' = W + Q
      BY <2>2, Zenon DEF Transit
    <2>4. Follows(channel.wire, L) /\ Follows(channel.queue, L + W) => Follows(channel'.wire, L)
      BY <1>0, <2>1, FollowsFacts DEF W
    <2>5. Flowing'
      <3>1. SUFFICES ASSUME Live PROVE Flowing'
        BY <1>2, ZenonT(30) DEF Flowing
      <3> /\ Follows(channel'.wire, L) /\ \A a : Follows(channel'.queue, a)
          /\ task.result = "running" =>
                  /\ task.out # NoResponse => task.out.id = L + (W + Q) + 1
                  /\ Follows(task.replay, L + (W + Q) + U)
                  /\ N - 1 = L + (W + Q) + U + R
        BY <1>3, <2>1, <2>4, <3>1, FollowsFacts
      <3>3. QED
        BY <1>2, <2>1, <2>3, Zenon DEF Flowing, L, N, R, U
    <2> Ahead'
      BY <1>2, <1>4, <2>1, <2>3, Zenon DEF Ahead, L, N, R, U
    <2> Resting' /\ Kept' /\ Asked'
      BY <1>2, <2>1, Zenon DEF Stream, Resting, Kept, Asked
    <2>8. QED
      BY <2>5, Zenon DEF Stream
  <1>6. CASE Notices
    <2> ~Live /\ channel.open /\ ~channel'.open /\ UNCHANGED client
      BY <1>6, Zenon DEF Notices, Live
    <2>2. Flowing'
      BY <1>2, Zenon DEF Flowing
    <2>3. task.result = "running" /\ task.out = NoResponse /\ task.replay = <<>> =>
              N - 1 <= L + InFlight + 1
      <3> SUFFICES ASSUME task.result = "running", task.out = NoResponse, task.replay = <<>>
                   PROVE  N - 1 <= L + InFlight + 1
        BY Zenon
      <3> U = 0 /\ R = 0
        BY Zenon DEF U, Unsent, R
      <3>3. QED
        BY <1>0, <1>4
    <2>4. Ahead'
      BY <1>2, <2>3, Zenon DEF Ahead, N, L
    <2> Resting' /\ Kept' /\ Asked'
      BY <1>2, ZenonT(30) DEF Stream, Resting, Kept, Asked
    <2>6. QED
      BY <2>2, <2>4, Zenon DEF Stream
  <1>7. ASSUME client'.last = L + 1, client.stream # NoStream
        PROVE  Kept' /\ Asked'
    <2> USE <1>7
    <2>1. Dropped <= L /\ \A r \in Request : requests[r].last <= L
      BY Zenon DEF Stream, Kept, Asked, L
    <2> Dropped <= L + 1 /\ \A r \in Request : requests[r].last <= L + 1
      BY <1>0, <2>1
    <2> client'.awaits = NoStream
      BY <1>1, <1>2, Zenon DEF Handles
    <2>4. QED
      BY <1>1, <1>2, Zenon DEF Stream, Kept, Asked
  <1>8. CASE Receives
    <2> /\ channel.owner = client.stream /\ client.stream # NoStream /\ channel.wire # <<>>
        /\ client'.last = Head(channel.wire).id
        /\ channel'.wire = Tail(channel.wire) /\ channel'.queue = channel.queue
        /\ channel'.open = channel.open
      BY <1>8, Zenon DEF Receives, Gains
    <2>2. Live
      BY Zenon DEF Live
    <2>3. client'.last = L + 1 /\ Follows(channel'.wire, L + 1)
      BY <1>0, <1>3, <2>2, FollowsFacts
    <2>4. W > 0 /\ Len(channel'.wire) = W - 1 /\ Len(channel'.queue) = Q
      BY <1>0, TailFacts, Zenon DEF W, Q
    <2> /\ L + W = (L + 1) + (W - 1) /\ Transit' = (W - 1) + Q
        /\ L + (W + Q) = (L + 1) + ((W - 1) + Q)
      BY <1>0, <2>4 DEF Transit
    <2>6. Flowing'
      <3>. DEFINE L1 == L + 1
                  W1 == W - 1
                  T1 == W1 + Q
      <3>1. L + W = L1 + W1 /\ L + (W + Q) = L1 + T1
        BY Zenon
      <3> /\ channel.open /\ Follows(channel.queue, L1 + W1)
          /\ task.result = "running" =>
                  /\ task.out # NoResponse => task.out.id = L1 + T1 + 1
                  /\ Follows(task.replay, L1 + T1 + U)
                  /\ N - 1 = L1 + T1 + U + R
        BY <1>3, <2>2, <3>1, Zenon
      <3> client'.last = L1 /\ Transit' = T1 /\ Len(channel'.wire) = W1
            /\ Follows(channel'.wire, L1)
        BY <2>3, <2>4, Zenon
      <3>. HIDE DEF L1, W1, T1
      <3>4. QED
        BY <1>2, Zenon DEF Flowing, N, R, U
    <2> Ahead'
      <3> task.result = "running" => N - 1 <= (L + 1) + ((W - 1) + Q) + U + R
        BY <1>3, <1>4, <2>2, Zenon
      <3>2. QED
        BY <1>2, <1>3, <2>2, <2>3, Zenon DEF Ahead, N, R, U
    <2> Resting'
      BY <1>2, Zenon DEF Resting
    <2>9. QED
      BY <1>7, <2>3, <2>6, Zenon DEF Stream
  <1>9. CASE ReceivesRest
    <2> /\ channel.owner # client.stream /\ client.stream # NoStream /\ client.rest # <<>>
        /\ client'.last = Head(client.rest).id /\ client'.rest = Tail(client.rest)
        /\ UNCHANGED channel
      BY <1>9, Zenon DEF ReceivesRest, Gains
    <2>2. client'.last = L + 1 /\ Follows(client'.rest, L + 1)
      <3> Follows(client.rest, L)
        BY Zenon DEF Stream, Resting, L
      <3>2. QED
        BY <1>0, FollowsFacts, SMTT(30)
    <2>3. ~Live
      BY <1>1, Zenon DEF Handles, Live
    <2>4. Flowing'
      BY <1>2, <2>3, Zenon DEF Flowing
    <2> Ahead'
      <3>1. /\ task.result = "running" /\ channel.open => N - 1 <= (L + 1) + (W + Q) + U + R
            /\ task.result = "running" /\ ~channel.open /\ task.out = NoResponse
                /\ task.replay = <<>> => N - 1 <= (L + 1) + InFlight + 1
        <4> task.result = "running" /\ ~channel.open /\ task.out = NoResponse
              /\ task.replay = <<>> => N - 1 <= L + InFlight + 1
          BY Zenon DEF Stream, Ahead, N, L
        <4>2. QED
          BY <1>0, <1>4, SMTT(30)
      <3> Transit' = W + Q
        BY <1>0, ZenonT(30) DEF Transit
      <3>3. QED
        BY <1>2, <2>2, <3>1, Zenon DEF Ahead, N, R, U
    <2> Resting'
      BY <2>2, Zenon DEF Resting
    <2>7. QED
      BY <1>7, <2>2, <2>4, Zenon DEF Stream
  <1>10. QED
    BY <1>5, <1>6, <1>8, <1>9, Zenon

\* As long as no two handlers pause the task at once, every step keeps the stream.
LEMMA StreamStep ==
    ASSUME BaseInv, Alone, Stream, Shape', BufferCapacity >= InFlight + 2, Effect
    PROVE  Stream'
  BY StreamTaskSteps, StreamQuietSteps, StreamBufferSteps, StreamBeginSteps, StreamClientSteps, Zenon
    DEF Effect

\* Nothing is under way in the beginning.
LEMMA StreamInit ==
    ASSUME Init
    PROVE  Stream
  <1> /\ task.result = "paused" /\ channel.owner = NoStream /\ client.stream = NoStream
      /\ client.last = 0 /\ context.nextId = 1 /\ context.buffer = <<>>
      /\ client.awaits = Execute
    BY Zenon DEF Init, NewChannel, NewTask, NoId
  <1> Dropped = 0 /\ \A r \in Request : requests[r].last = 0
    BY DEF Init, Dropped, NoId
  <1>3. QED
    BY SMTT(60) DEF Stream, Flowing, Live, Ahead, Resting, Kept, Asked
-----------------------------------------------------------------------------
(* What the client has of the result.                                      *)

\* data[i] is what was saved under id i, and count[i] how many batches were saved
\* until then; every response that is left somewhere has the data of its id.
Story(data, count) ==
    /\ count[0] = 0 /\ count[context.nextId - 1] = context.taken
    /\ \A i \in 1..(context.nextId - 1) :
          /\ data[i] \in 1..Batches => data[i] = count[i] /\ count[i] = count[i - 1] + 1
          /\ data[i] \notin 1..Batches => count[i] = count[i - 1]
          /\ data[i] = Complete => count[i] = Batches
    /\ \A x \in Responding : x.data = data[x.id]
    /\ Len(client.got) = count[client.last]
    /\ \A i \in DOMAIN client.got : client.got[i] = i
    /\ client.done => Len(client.got) = Batches

Recorded == \E data \in [Nat -> Int], count \in [Nat -> Nat] : Story(data, count)

\* The client gets nothing, or the response after its last one.
LEMMA GainEffects ==
    ASSUME BaseInv, Stream, Effect
    PROVE  \/ /\ client'.last = client.last /\ client'.got = client.got
              /\ client'.done = client.done
           \/ \E x \in Responding : Gains(x) /\ x.id = client.last + 1
  <1>0. client.last \in Nat /\ channel.wire \in Seq(Responses) /\ client.rest \in Seq(Responses)
    BY Numbers, Zenon DEF BaseInv
  <1>1. CASE Receives
    <2>1. channel.owner = client.stream /\ client.stream # NoStream /\ channel.wire # <<>>
            /\ Gains(Head(channel.wire))
      BY <1>1, ZenonT(30) DEF Receives, Gains
    <2>2. Follows(channel.wire, client.last)
      BY <2>1, ZenonT(30) DEF Live, Stream, Flowing
    <2>3. Head(channel.wire).id = client.last + 1
      BY <1>0, <2>1, <2>2, FollowsFacts, Zenon
    <2> Head(channel.wire) \in Responding
      <3> Head(channel.wire) = channel.wire[1] /\ 1 \in DOMAIN channel.wire
        BY <1>0, <2>1, TailFacts
      <3>2. QED
        BY Zenon DEF Responding, Items
    <2>5. QED
      BY <2>1, <2>3, ZenonT(30)
  <1>2. CASE ReceivesRest
    <2> channel.owner # client.stream /\ client.stream # NoStream /\ client.rest # <<>>
          /\ Gains(Head(client.rest))
      BY <1>2, Zenon DEF ReceivesRest, Gains
    <2>2. Follows(client.rest, client.last)
      BY Zenon DEF Stream, Resting
    <2> Head(client.rest).id = client.last + 1
      BY <1>0, <2>2, FollowsFacts, Zenon
    <2> Head(client.rest) \in Responding
      BY <1>0, TailFacts DEF Responding, Items
    <2>5. QED
      BY ZenonT(30)
  <1>3. QED
    BY <1>1, <1>2, ZenonT(30) DEF Effect, Saves, Replays, Returns, Sends, Executes, Adds, Gets, Releases,
      Starts, Refuses, Answered, Pauses, HasPaused, Transmits, Detaches, Notices, Asks, Loses,
      FreesForClient, Removes

\* Every step keeps the record of what was saved.
LEMMA RecordedStep ==
    ASSUME BaseInv, Stream, Recorded, Shape', Effect
    PROVE  Recorded'
  <1>. DEFINE N == context.nextId
              L == client.last
              G == Len(client.got)
  <1>0. /\ Shape /\ Places /\ IdsAreKnown /\ N \in Nat \ {0} /\ L \in Nat /\ L < N
        /\ client.got \in Seq(Int) /\ G \in Nat /\ context.taken \in 0..Batches /\ Batches \in Nat
    <2> Shape /\ Places /\ IdsAreKnown /\ Batches \in Nat
      BY ExecutorAssumption, Zenon DEF BaseInv
    <2> N \in Nat \ {0} /\ L \in Nat /\ L < N
      BY Numbers, Zenon DEF IdsAreKnown
    <2> client.got \in Seq(Int) /\ context.taken \in 0..Batches
      BY Zenon DEF Shape, Clients, Contexts
    <2>4. QED
      OBVIOUS
  <1>1. \A x \in Responding : x \in Responses /\ x.id \in 1..(N - 1) /\ x.data \in Int
    <2> \A x \in Responding : x.id < N
      BY <1>0, Zenon DEF IdsAreKnown
    <2>2. QED
      BY <1>0, RespondingType
  <1>2. PICK data \in [Nat -> Int], count \in [Nat -> Nat] : Story(data, count)
    BY Zenon DEF Recorded
  <1>. HIDE DEF N, L, G
  <1>3. /\ count[0] = 0 /\ count[N - 1] = context.taken
        /\ \A i \in 1..(N - 1) :
              /\ data[i] \in 1..Batches => data[i] = count[i] /\ count[i] = count[i - 1] + 1
              /\ data[i] \notin 1..Batches => count[i] = count[i - 1]
              /\ data[i] = Complete => count[i] = Batches
        /\ \A x \in Responding : x.data = data[x.id]
        /\ G = count[L]
        /\ \A i \in DOMAIN client.got : client.got[i] = i
        /\ client.done => G = Batches
    BY <1>2, Zenon DEF Story, N, L, G
  <1>4. CASE \E new \in Int : Saves(new)
                 /\ Responding' \subseteq Responding \cup {Response(context.nextId, new)}
    <2>1. PICK new \in Int : Saves(new)
                 /\ Responding' \subseteq Responding \cup {Response(context.nextId, new)}
      BY <1>4, Zenon
    <2>. DEFINE T == context.taken
                T1 == context'.taken
    <2>2. /\ context'.nextId = N + 1 /\ UNCHANGED client
          /\ new \in 1..Batches => new = T + 1 /\ T1 = T + 1
          /\ new \notin 1..Batches => T1 = T
          /\ new = Complete => T = Batches
      BY <2>1, Zenon DEF Saves, N
    <2>. HIDE DEF T, T1
    <2>3. count[N - 1] = T /\ T \in Nat
      <3> T \in 0..Batches /\ count[N - 1] = T
        BY <1>0, <1>3, Zenon DEF T
      <3>2. QED
        BY <1>0
    <2>4. PICK newData \in [Nat -> Int], newCount \in [Nat -> Nat] :
            /\ newData[N] = new /\ newCount[N] = T1
            /\ \A i \in 0..(N - 1) : newData[i] = data[i] /\ newCount[i] = count[i]
      <3>1. T1 \in Nat
        BY <2>2, <2>3
      <3>. DEFINE f == [data EXCEPT ![N] = new]
                  g == [count EXCEPT ![N] = T1]
      <3>2. f \in [Nat -> Int] /\ g \in [Nat -> Nat] /\ f[N] = new /\ g[N] = T1
        BY <1>0, <3>1, ZenonT(30)
      <3> \A i \in Nat : i # N => f[i] = data[i] /\ g[i] = count[i]
        BY <1>0, Zenon
      <3> \A i \in 0..(N - 1) : i \in Nat /\ i # N
        BY <1>0
      <3>. HIDE DEF f, g
      <3>5. QED
        BY <3>2, Zenon
    <2>5. newCount[0] = 0 /\ newCount[(N + 1) - 1] = T1
      <3>1. 0 \in 0..(N - 1) /\ (N + 1) - 1 = N
        BY <1>0
      <3>2. count[0] = 0
        BY <1>3, Zenon
      <3>3. QED
        BY <2>4, <3>1, <3>2, Zenon
    <2>6. ASSUME NEW i \in 1..((N + 1) - 1)
          PROVE  /\ newData[i] \in 1..Batches =>
                        newData[i] = newCount[i] /\ newCount[i] = newCount[i - 1] + 1
                 /\ newData[i] \notin 1..Batches => newCount[i] = newCount[i - 1]
                 /\ newData[i] = Complete => newCount[i] = Batches
      <3>1. CASE i = N
        <4> newCount[i - 1] = T /\ newData[i] = new /\ newCount[i] = T1
          BY <1>0, <2>3, <2>4, <3>1
        <4> Complete \notin 1..Batches
          BY <1>0 DEF Complete
        <4>3. QED
          BY <2>2, Zenon
      <3>2. CASE i # N
        <4> i \in 1..(N - 1) /\ i \in 0..(N - 1) /\ i - 1 \in 0..(N - 1)
          BY <1>0, <3>2
        <4>2. QED
          BY <1>3, <2>4, Zenon
      <3>3. QED
        BY <3>1, <3>2, Zenon
    <2>7. \A x \in Responding' : x.data = newData[x.id]
      <3> ASSUME NEW x \in Responding
          PROVE  x.data = newData[x.id]
        <4> x.id \in 1..(N - 1) /\ \A i \in 1..(N - 1) : i \in 0..(N - 1)
          BY <1>0, <1>1
        <4>2. QED
          BY <1>3, <2>4, Zenon
      <3> Response(context.nextId, new).data = newData[Response(context.nextId, new).id]
        BY <2>4, Zenon DEF Response, N
      <3>3. QED
        BY <2>1, Zenon
    <2> G = newCount[L]
      BY <1>0, <1>3, <2>4
    <2> Story(newData, newCount)'
      BY <1>3, <2>2, <2>5, <2>6, <2>7, Zenon DEF Story, N, L, G, T1
    <2>10. QED
      BY Zenon DEF Recorded
  <1>5. CASE /\ context'.nextId = context.nextId /\ context'.taken = context.taken
             /\ Responding' \subseteq Responding
    <2>1. SUFFICES Story(data, count)'
      BY Zenon DEF Recorded
    <2>2. CASE client'.last = client.last /\ client'.got = client.got /\ client'.done = client.done
      BY <1>3, <1>5, <2>2, Zenon DEF Story, N, L, G
    <2>3. ASSUME NEW x \in Responding, Gains(x), x.id = client.last + 1
          PROVE  Story(data, count)'
      <3>1. /\ x.id = L + 1 /\ L + 1 \in 1..(N - 1) /\ x.data = data[L + 1] /\ x.data \in Int
            /\ client'.last = L + 1 /\ (L + 1) - 1 = L
        <4> /\ client'.last = x.id /\ x.id = L + 1
            /\ x.id \in 1..(N - 1) /\ x.data = data[x.id] /\ x.data \in Int
          BY <1>1, <1>3, <2>3, Zenon DEF Gains, L
        <4>2. QED
          BY <1>0
      <3>2. /\ data[L + 1] \in 1..Batches => data[L + 1] = count[L + 1] /\ count[L + 1] = G + 1
            /\ data[L + 1] \notin 1..Batches => count[L + 1] = G
            /\ data[L + 1] = Complete => count[L + 1] = Batches
        BY <1>3, <3>1, Zenon
      <3>3. client'.done = (x.data = Complete)
        BY <2>3, Zenon DEF Gains
      <3> Len(client'.got) = count[L + 1] /\ \A i \in DOMAIN client'.got : client'.got[i] = i
        <4>1. CASE x.data \in 1..Batches
          <5>1. client'.got = Append(client.got, x.data) /\ x.data = G + 1 /\ count[L + 1] = G + 1
            BY <2>3, <3>1, <3>2, <4>1, Zenon DEF Gains
          <5> /\ Len(client'.got) = G + 1 /\ DOMAIN client.got = 1..G
              /\ DOMAIN client'.got = 1..(G + 1) /\ client'.got[G + 1] = G + 1
              /\ \A i \in 1..G : client'.got[i] = client.got[i]
            <6> /\ Len(client'.got) = G + 1 /\ DOMAIN client.got = 1..G
                /\ DOMAIN client'.got = 1..(G + 1) /\ client'.got[G + 1] = x.data
                /\ \A i \in 1..G : client'.got[i] = client.got[i]
              <7>1. client'.got = Append(client.got, x.data) /\ client.got \in Seq(Int)
                      /\ x.data \in Int
                BY <1>0, <3>1, <5>1, Zenon
              <7>. DEFINE g == client.got
                          d == x.data
                          h == client'.got
              <7> h = Append(g, d) /\ g \in Seq(Int) /\ d \in Int
                BY <7>1, Zenon
              <7>. HIDE DEF g, d, h
              <7> /\ Len(h) = Len(g) + 1 /\ DOMAIN g = 1..Len(g)
                  /\ DOMAIN h = 1..(Len(g) + 1) /\ h[Len(g) + 1] = d
                  /\ \A i \in 1..Len(g) : h[i] = g[i]
                BY AppendFacts
              <7>4. QED
                BY Zenon DEF g, d, h, G
            <6>2. QED
              BY <5>1, ZenonT(30)
          <5> \A i \in 1..(G + 1) : i \in 1..G \/ i = G + 1
            BY <1>0
          <5>4. QED
            BY <1>3, <5>1, ZenonT(30)
        <4>2. CASE x.data \notin 1..Batches
          <5> USE <4>2
          <5> client'.got = client.got
            BY <2>3, Zenon DEF Gains
          <5>2. QED
            BY <1>3, <3>1, <3>2, Zenon DEF G
        <4>3. QED
          BY <4>1, <4>2, Zenon
      <3>5. QED
        BY <1>3, <1>5, <3>1, <3>2, <3>3, ZenonT(30) DEF Story, N, L, G
    <2>4. QED
      BY <2>2, <2>3, GainEffects, Zenon
  <1>6. QED
    BY <1>0, <1>4, <1>5, RespondingEffects, Zenon

\* Nothing is saved in the beginning.
LEMMA RecordedInit ==
    ASSUME Init
    PROVE  Recorded
  <1>. DEFINE data == [i \in Nat |-> 0]
              count == [i \in Nat |-> 0]
  <1>1. /\ context.nextId = 1 /\ context.taken = 0 /\ client.last = 0 /\ client.got = <<>>
        /\ ~client.done
    BY Zenon DEF Init, NoId
  <1>2. Responding = {}
    <2> /\ context.buffer = <<>> /\ task.replay = <<>> /\ task.out = NoResponse
        /\ channel.queue = <<>> /\ channel.wire = <<>> /\ client.rest = <<>>
      BY Zenon DEF Init, NewTask, NewChannel
    <2> Items(<<>>) = {}
      BY DEF Items
    <2>3. QED
      BY Zenon DEF Responding
  <1> data \in [Nat -> Int] /\ count \in [Nat -> Nat] /\ data[0] = 0 /\ count[0] = 0
    OBVIOUS
  <1>. HIDE DEF data, count
  <1> Story(data, count)
    BY <1>1, <1>2 DEF Story
  <1>5. QED
    BY Zenon DEF Recorded

\* However often the stream breaks and is reattached, the client gets every batch
\* once and in order, as long as no two handlers pause the task at once: what
\* run_internal saves before it sends is replayed from where the client is.  The
\* buffer must hold what can be under way and a response more.
THEOREM BatchesArrive ==
    ASSUME BufferCapacity >= InFlight + 2
    PROVE  Spec => []BatchesArriveOnceInOrder
  <1>. DEFINE Inv == BaseInv /\ (used.overlap \/ (Stream /\ Recorded))
  <1>1. Init => Inv
    BY BaseInit, StreamInit, RecordedInit, Zenon
  <1>2. Inv /\ [Next]_vars => Inv'
    <2>1. SUFFICES ASSUME Inv, [Next]_vars PROVE Inv'
      BY Zenon
    <2>2. BaseInv'
      BY <2>1, BaseStep, Zenon
    <2>3. CASE Next
      <3> Shape' /\ Effect
        BY <2>1, <2>3, StepEffects, Zenon DEF BaseInv
      <3>2. CASE used.overlap
        BY <2>2, <3>2, OverlapStays, Zenon
      <3>3. CASE ~used.overlap
        <4> Alone /\ Stream /\ Recorded
          BY <2>1, <3>3, Zenon DEF BaseInv
        <4>2. QED
          BY <2>1, <2>2, StreamStep, RecordedStep, Zenon
      <3>4. QED
        BY <3>2, <3>3, Zenon
    <2>4. CASE UNCHANGED vars
      <3> USE <2>4
      <3>1. Stream => Stream'
        BY ZenonT(30) DEF vars, Stream, Flowing, Live, Transit, Unsent, Ahead, Resting, Kept, Dropped,
          Asked
      <3> Recorded => Recorded'
        BY ZenonT(30) DEF vars, Recorded, Story, Responding
      <3> used' = used
        BY Zenon DEF vars
      <3>4. QED
        BY <2>1, <2>2, <3>1, Zenon
    <2>5. QED
      BY <2>1, <2>3, <2>4, Zenon
  <1> Inv => BatchesArriveOnceInOrder
    <2> SUFFICES ASSUME BaseInv, Recorded PROVE OnceInOrder
      BY Zenon DEF BatchesArriveOnceInOrder
    <2>2. client.got \in Seq(Int)
      BY Zenon DEF BaseInv, Shape, Clients
    <2> (\A i \in DOMAIN client.got : client.got[i] = i)
          /\ (client.done => Len(client.got) = Batches)
      BY ZenonT(30) DEF Recorded, Story
    <2> client.got = [i \in DOMAIN client.got |-> i]
      BY <2>2, SMTT(60)
    <2>5. QED
      BY Zenon DEF OnceInOrder
  <1>. HIDE DEF Inv
  <1>4. QED
    BY <1>1, <1>2, PTL DEF Spec
=============================================================================

---------------------------- MODULE EventDelivery ----------------------------
(***************************************************************************)
(* From the engine to the reader of a run's events.                         *)
(*                                                                          *)
(* The bus numbers every event of the run.  Durable events queue on one     *)
(* tail: numbered, written and delivered one at a time.  Streamed events    *)
(* are numbered and delivered at once.  The run handle puts what the bus    *)
(* delivers into a single-reader queue; producers ask it for room before    *)
(* they stream, and the engine reads its counters to decide whether a       *)
(* paused run may depart.                                                   *)
(*                                                                          *)
(* Source: packages/core/src/engine/event-bus.ts, event-stream.ts,          *)
(* run-handle.ts and the durable writer of engine.ts.                       *)
(***************************************************************************)
EXTENDS Integers, Sequences, FiniteSets

CONSTANTS
    Producer,   \* the coroutines that await readiness: dispatches, the loop
    Capacity,   \* the high-water mark of the stream
    MaxEvents   \* bound: events numbered and asked for

(* DEFAULT_STREAM_CAPACITY is 256 and a run has at most max_parallel + 1
   coroutines that wait, far below what the last conjunct asks. *)
ASSUME DeliveryConstants ==
    /\ IsFiniteSet(Producer)
    /\ Capacity \in Nat \ {0} /\ MaxEvents \in Nat
    /\ 2 * Cardinality(Producer) <= Capacity * (Capacity + 1)

VARIABLES
    seq,        \* #sequence of the bus for this run
    asks,       \* durable events on #deliveryTail that have no number yet
    writing,    \* the durable events between their number and their delivery
    settled,    \* #settled: the terminal was asked for, or the fence closed
    sealed,     \* how the log ended: "written", "failed" to be, or "fenced"
    listening,  \* the handle's subscription to the bus
    buffer,     \* #buffer
    pulling,    \* #waitingPull
    closed,     \* #closed
    published,  \* #publishedCount
    delivered,  \* #deliveredCount
    gap,        \* #hasGap
    abandoned,  \* #abandoned
    waiters,    \* #drainWaiters
    prod,       \* what each producer does: "idle", "parked" or "ready"
    sent,       \* history: what the bus delivered up to the end of the stream
    received,   \* history: what the reader got
    finished    \* the reader was told that the stream is done

engine == <<seq, asks, writing, settled, sealed>>
queue  == <<buffer, pulling, published, delivered, gap, received>>
ending == <<closed, listening, finished, abandoned>>
ready  == <<waiters, prod>>
vars   == <<engine, queue, ending, ready, sent>>

Event(n, kind) == [n |-> n, kind |-> kind]

Init ==
    /\ seq = 0 /\ asks = <<>> /\ writing = {} /\ settled = FALSE /\ sealed = "no"
    /\ listening = TRUE /\ buffer = <<>> /\ pulling = FALSE /\ closed = FALSE
    /\ published = 0 /\ delivered = 0 /\ gap = FALSE /\ abandoned = FALSE
    /\ waiters = <<>> /\ prod = [p \in Producer |-> "idle"]
    /\ sent = <<>> /\ received = <<>> /\ finished = FALSE

-----------------------------------------------------------------------------
(* The stream.                                                               *)

(* Variant: a full buffer declines the event. *)
PushBounded(e) ==
    /\ published' = published + 1
    /\ IF closed
       THEN gap' = TRUE /\ UNCHANGED <<buffer, pulling, delivered, received>>
       ELSE /\ UNCHANGED gap
            /\ IF pulling
               THEN /\ pulling' = FALSE /\ delivered' = delivered + 1
                    /\ received' = Append(received, e) /\ UNCHANGED buffer
               ELSE /\ buffer' = IF Len(buffer) < Capacity THEN Append(buffer, e) ELSE buffer
                    /\ UNCHANGED <<pulling, delivered, received>>

(* Variant: an event handed to a waiting pull is not counted as published. *)
PushMiscounted(e) ==
    /\ published' = IF pulling THEN published ELSE published + 1
    /\ IF closed
       THEN gap' = TRUE /\ UNCHANGED <<buffer, pulling, delivered, received>>
       ELSE /\ UNCHANGED gap
            /\ IF pulling
               THEN /\ pulling' = FALSE /\ delivered' = delivered + 1
                    /\ received' = Append(received, e) /\ UNCHANGED buffer
               ELSE buffer' = Append(buffer, e) /\ UNCHANGED <<pulling, delivered, received>>

(* Hand the event to a waiting pull, else buffer it, above capacity if need
   be.  A closed stream records that it missed one. *)
Push(e) ==
    /\ published' = published + 1
    /\ IF closed
       THEN gap' = TRUE /\ UNCHANGED <<buffer, pulling, delivered, received>>
       ELSE /\ UNCHANGED gap
            /\ IF pulling
               THEN /\ pulling' = FALSE /\ delivered' = delivered + 1
                    /\ received' = Append(received, e) /\ UNCHANGED buffer
               ELSE buffer' = Append(buffer, e) /\ UNCHANGED <<pulling, delivered, received>>

Woken == [p \in Producer |-> IF prod[p] = "parked" THEN "ready" ELSE prod[p]]

(* Variant: the parked producers are not released. *)
CloseWithoutWake ==
    /\ closed' = TRUE /\ listening' = FALSE
    /\ UNCHANGED <<waiters, prod>>

(* close: release every parked producer and unsubscribe the handle. *)
Close ==
    /\ closed' = TRUE /\ listening' = FALSE
    /\ waiters' = <<>> /\ prod' = Woken

(* Variant: one producer per pull. *)
WakeOne(b) ==
    LET k == IF b < Capacity /\ waiters # <<>> THEN 1 ELSE 0
    IN  /\ waiters' = SubSeq(waiters, k + 1, Len(waiters))
        /\ prod' = [p \in Producer |->
                      IF \E i \in 1..k : waiters[i] = p THEN "ready" ELSE prod[p]]

(* #wakeDrainWaiters with "b" events left in the buffer of an open stream. *)
Wake(b) ==
    LET free == IF b < Capacity THEN Capacity - b ELSE 0
        k    == IF free < Len(waiters) THEN free ELSE Len(waiters)
    IN  /\ waiters' = SubSeq(waiters, k + 1, Len(waiters))
        /\ prod' = [p \in Producer |->
                      IF \E i \in 1..k : waiters[i] = p THEN "ready" ELSE prod[p]]

(* next with something in the buffer. *)
Next1 ==
    /\ buffer # <<>> /\ ~ pulling
    /\ received' = Append(received, Head(buffer)) /\ buffer' = Tail(buffer)
    /\ delivered' = delivered + 1
    /\ IF closed THEN UNCHANGED ready ELSE Wake(Len(buffer) - 1)
    /\ UNCHANGED <<engine, pulling, published, gap, ending, sent>>

(* next on an empty buffer waits; a second one is refused while it does. *)
NextWaits ==
    /\ buffer = <<>> /\ ~ closed /\ ~ pulling
    /\ pulling' = TRUE
    /\ UNCHANGED <<engine, buffer, published, delivered, gap, received, ending, ready, sent>>

NextDone ==
    /\ buffer = <<>> /\ closed /\ ~ pulling /\ ~ finished
    /\ finished' = TRUE
    /\ UNCHANGED <<engine, queue, closed, listening, abandoned, ready, sent>>

(* return: the reader leaves, and what is still buffered is thrown away. *)
Return ==
    /\ ~ finished
    /\ abandoned' = (abandoned \/ ~ closed \/ buffer # <<>>)
    /\ IF closed THEN UNCHANGED <<closed, listening, ready>> ELSE Close
    /\ buffer' = <<>> /\ pulling' = FALSE /\ finished' = TRUE
    /\ UNCHANGED <<engine, published, delivered, gap, received, sent>>

-----------------------------------------------------------------------------
(* The producers of streamed events.                                         *)

(* whenDrained. *)
WhenDrained(p) ==
    /\ prod[p] = "idle"
    /\ IF closed \/ Len(buffer) < Capacity
       THEN prod' = [prod EXCEPT ![p] = "ready"] /\ UNCHANGED waiters
       ELSE prod' = [prod EXCEPT ![p] = "parked"] /\ waiters' = Append(waiters, p)
    /\ UNCHANGED <<engine, queue, ending, sent>>

Record(e) == sent' = IF listening /\ ~ closed THEN Append(sent, e) ELSE sent

(* bus.emit of a token and its like, while the dispatch is live. *)
Emit(p) ==
    LET e == Event(seq, "token") IN
    /\ prod[p] = "ready" /\ ~ settled /\ seq + Len(asks) < MaxEvents
    /\ prod' = [prod EXCEPT ![p] = "idle"]
    /\ seq' = seq + 1
    /\ IF listening THEN Push(e) ELSE UNCHANGED queue
    /\ Record(e)
    /\ UNCHANGED <<asks, writing, settled, sealed, ending, waiters>>

(* Most chunks emit nothing, and a stopped producer emits no more. *)
Skip(p) ==
    /\ prod[p] = "ready"
    /\ prod' = [prod EXCEPT ![p] = "idle"]
    /\ UNCHANGED <<engine, queue, ending, waiters, sent>>

-----------------------------------------------------------------------------
(* The durable writer.                                                       *)

(* #emitDurable takes a place on the tail.  A receipt may come late. *)
EmitDurable(kind) ==
    /\ kind # "receipt" => ~ settled
    /\ seq + Len(asks) < MaxEvents
    /\ asks' = Append(asks, kind)
    /\ settled' = (settled \/ kind = "terminal")
    /\ UNCHANGED <<seq, writing, sealed, queue, ending, ready, sent>>

(* Variant: the write does not wait for its predecessor. *)
WriteUnordered ==
    /\ asks # <<>>
    /\ asks' = Tail(asks) /\ seq' = seq + 1
    /\ writing' = IF sealed \in {"failed", "fenced"} \/ (sealed = "written" /\ Head(asks) # "receipt")
                  THEN writing ELSE writing \cup {Event(seq, Head(asks))}
    /\ UNCHANGED <<settled, sealed, queue, ending, ready, sent>>

(* Its turn: the event gets its number and its append starts, unless the
   run's terminal has been decided. *)
Write ==
    /\ asks # <<>> /\ writing = {}
    /\ asks' = Tail(asks) /\ seq' = seq + 1
    /\ writing' = IF sealed \in {"failed", "fenced"} \/ (sealed = "written" /\ Head(asks) # "receipt")
                  THEN writing ELSE writing \cup {Event(seq, Head(asks))}
    /\ UNCHANGED <<settled, sealed, queue, ending, ready, sent>>

(* bus.deliver: the handle pushes, and a terminal then closes the stream. *)
Deliver(e) ==
    IF ~ listening THEN UNCHANGED <<queue, ending, ready>>
    ELSE /\ Push(e)
         /\ IF e.kind = "terminal" THEN Close ELSE UNCHANGED <<closed, listening, ready>>
         /\ UNCHANGED <<finished, abandoned>>

(* The append ended.  What it wrote, or failed to write, is delivered. *)
Acknowledge(e) ==
    /\ e \in writing
    /\ writing' = writing \ {e}
    /\ \/ UNCHANGED sealed /\ e.kind # "terminal"
       \/ e.kind = "terminal" /\ sealed' \in {"written", "failed"}
    /\ Deliver(e) /\ Record(e)
    /\ UNCHANGED <<seq, asks, settled>>

(* The append, or a heartbeat, found that another process owns the run:
   #settleFenced closes the stream under whatever was being written. *)
Fence ==
    /\ sealed = "no" /\ settled' = TRUE /\ sealed' = "fenced"
    /\ writing' = {}
    /\ IF closed THEN UNCHANGED <<ending, pulling, ready>>
       ELSE /\ Close /\ pulling' = FALSE /\ finished' = (finished \/ pulling)
            /\ UNCHANGED abandoned
    /\ UNCHANGED <<seq, asks, buffer, published, delivered, gap, received, sent>>

-----------------------------------------------------------------------------
Reader == Next1 \/ NextWaits \/ NextDone
Writer == Write \/ \E e \in writing : Acknowledge(e)

Next ==
    \/ Reader \/ Return \/ Writer \/ Fence
    \/ \E p \in Producer : WhenDrained(p) \/ Emit(p) \/ Skip(p)
    \/ \E kind \in {"boundary", "receipt", "terminal"} : EmitDurable(kind)

Spec == Init /\ [][Next]_vars

(* Appends end and the reader goes on reading, or leaves. *)
FairSpec == Spec /\ WF_vars(Reader) /\ WF_vars(Writer)

-----------------------------------------------------------------------------
Kind == {"token", "boundary", "receipt", "terminal"}
Events == [n : Nat, kind : Kind]

(* The bus, the durable tail and the stream keep their types. *)
TypeOK ==
    /\ seq \in Nat /\ asks \in Seq(Kind) /\ writing \subseteq Events
    /\ settled \in BOOLEAN /\ sealed \in {"no", "written", "failed", "fenced"}
    /\ listening \in BOOLEAN /\ buffer \in Seq(Events) /\ pulling \in BOOLEAN
    /\ closed \in BOOLEAN /\ published \in Nat /\ delivered \in Nat
    /\ gap \in BOOLEAN /\ abandoned \in BOOLEAN
    /\ waiters \in Seq(Producer) /\ prod \in [Producer -> {"idle", "parked", "ready"}]
    /\ sent \in Seq(Events) /\ received \in Seq(Events) /\ finished \in BOOLEAN

(* Nothing is dropped, doubled or reordered between the bus and a reader that
   stays: what it got, followed by what is buffered, is what the bus delivered
   (push, next and close of BoundedEventStream). *)
Lossless ==
    ~ abandoned =>
        /\ Len(sent) = Len(received) + Len(buffer)
        /\ \A i \in 1..Len(received) : received[i] = sent[i]
        /\ \A i \in 1..Len(buffer) : buffer[i] = sent[Len(received) + i]

(* What the departure relies on: when the counters agree and nobody returned
   early, the reader has everything the bus delivered (deliveryState,
   #sameDeparturePause). *)
CountersAgree ==
    ~ gap /\ ~ abandoned /\ delivered = published =>
        received = sent /\ buffer = <<>>

(* The subscription ends with the stream, so no event is ever pushed into a
   closed one, however late a receipt or another terminal is (the close callback of
   createRunHandle). *)
NoGap == ~ gap

(* Both: the counters certify a paused departure, and no gap ever voids them. *)
CountersCertify == NoGap /\ CountersAgree

(* A reader that stays to the end of a run that was not fenced has the terminal
   as the last thing it read, and only there (createRunHandle). *)
TerminalIsLast ==
    /\ \A i \in 1..Len(received) : received[i].kind = "terminal" => i = Len(received)
    /\ finished /\ ~ abandoned /\ sealed \in {"written", "failed"} =>
          received # <<>> /\ received[Len(received)].kind = "terminal"

(* Durable events reach the reader in the order of their numbers, whatever is
   streamed between them (#deliveryTail). *)
DurableInOrder ==
    \A i, j \in 1..Len(received) :
        i < j /\ received[i].kind # "token" /\ received[j].kind # "token"
            => received[i].n < received[j].n

(* Both: what is read is in order and ends with the terminal. *)
ReadInOrder == TerminalIsLast /\ DurableInOrder

(* No producer is left waiting for room in an empty or a closed stream: the
   pulls that emptied it woke everybody (#wakeDrainWaiters). *)
NoStrandedProducer == closed \/ buffer = <<>> => waiters = <<>>

(* A parked producer gets its answer if the reader reads on or leaves. *)
ParkedIsWoken == \A p \in Producer : prod[p] = "parked" ~> prod[p] # "parked"

(* A closed stream ends the iteration of its reader. *)
ReaderIsReleased == closed ~> finished

(* Both: nobody at either end of the stream waits for ever. *)
NobodyWaitsForEver == ParkedIsWoken /\ ReaderIsReleased
=============================================================================

------------------------ MODULE EventDeliveryProofs ------------------------
(***************************************************************************)
(* The reader of a run's events loses nothing, the counters that certify a  *)
(* paused departure mean what they say, and no producer is left waiting for *)
(* room in an empty stream; durable events reach it in the order of their   *)
(* numbers and the terminal is the last thing a reader that stays reads,    *)
(* for every capacity and every number of producers and events.             *)
(***************************************************************************)
EXTENDS EventDelivery, FiniteSetTheorems, TLAPS

-----------------------------------------------------------------------------
(* The inductive invariant.                                                  *)

(* The subscription lives exactly as long as the stream is open. *)
Ends ==
    /\ listening <=> ~ closed
    /\ pulling => ~ closed /\ buffer = <<>>
    /\ abandoned => closed
    /\ ~ gap

Counters == delivered = Len(received) /\ published = Len(sent)

(* A producer waits at most once. *)
WaitsOnce ==
    /\ \A i \in 1..Len(waiters) : prod[waiters[i]] = "parked"
    /\ \A i, j \in 1..Len(waiters) : waiters[i] = waiters[j] => i = j

(* Twice the number of wake-ups that pulls hand out on the way from a full
   buffer to one of "b" events. *)
Handed(b) == IF b < Capacity THEN (Capacity - b) * (Capacity - b + 1) ELSE 0

(* The wake-ups of the pulls that brought the buffer down are accounted for:
   this is what makes NoStrandedProducer inductive. *)
WakesHanded ==
    \/ waiters = <<>>
    \/ ~ closed /\ 2 * Len(waiters) + Handed(Len(buffer)) <= 2 * Cardinality(Producer)

StreamInv == TypeOK /\ Ends /\ Counters /\ Lossless /\ WaitsOnce /\ WakesHanded

-----------------------------------------------------------------------------
(* A sequence without repetitions is no longer than the set it draws from. *)
LEMMA DistinctBound ==
    ASSUME NEW S, IsFiniteSet(S), NEW s \in Seq(S),
           \A i, j \in 1..Len(s) : s[i] = s[j] => i = j
    PROVE  Len(s) <= Cardinality(S)
<1>1. Len(s) \in Nat /\ \A i \in 1..Len(s) : s[i] \in S
  OBVIOUS
<1>2. IsFiniteSet(1..Len(s)) /\ Cardinality(1..Len(s)) = Len(s)
  <2>1. 1 \in Int /\ Len(s) \in Int
    BY <1>1
  <2>2. IsFiniteSet(1..Len(s)) /\ Cardinality(1..Len(s)) = IF 1 > Len(s) THEN 0 ELSE Len(s) - 1 + 1
    BY <2>1, FS_Interval
  <2> QED
    BY <1>1, <2>2
<1> DEFINE f == [i \in 1..Len(s) |-> s[i]]
<1>3. f \in Injection(1..Len(s), S)
  BY <1>1 DEF Injection, IsInjective
<1>4. Cardinality(1..Len(s)) <= Cardinality(S)
  BY <1>2, <1>3, FS_Injection
<1> QED
  BY <1>2, <1>4

(* The steps of Handed: one more event takes some back, one pull adds what it
   wakes. *)
LEMMA HandedStep ==
    ASSUME NEW b \in Nat, Capacity \in Nat \ {0}
    PROVE  /\ Handed(b) \in Nat
           /\ Handed(b + 1) <= Handed(b)
           /\ b < Capacity => Handed(b) = Handed(b + 1) + 2 * (Capacity - b)
<1>1. ASSUME NEW m \in Nat PROVE m * (m + 1) \in Nat /\ (m + 1) * (m + 2) = m * (m + 1) + 2 * (m + 1)
  BY <1>1
<1>2. CASE b < Capacity
  <2> DEFINE m == Capacity - b - 1
  <2>1. m \in Nat /\ Capacity - b = m + 1 /\ Capacity - b + 1 = m + 2
    BY <1>2
  <2>2. Handed(b) = (m + 1) * (m + 2)
    BY <1>2, <2>1 DEF Handed
  <2>3. Handed(b + 1) = m * (m + 1)
    <3>1. CASE b + 1 < Capacity
      <4>1. Capacity - (b + 1) = m /\ Capacity - (b + 1) + 1 = m + 1
        BY <2>1
      <4> QED
        BY <3>1, <4>1 DEF Handed
    <3>2. CASE ~ (b + 1 < Capacity)
      <4>1. m = 0
        BY <1>2, <3>2
      <4>2. Handed(b + 1) = 0
        BY <3>2 DEF Handed
      <4> QED
        BY <4>1, <4>2
    <3> QED
      BY <3>1, <3>2
  <2>4. m * (m + 1) \in Nat /\ (m + 1) * (m + 2) = m * (m + 1) + 2 * (m + 1)
    BY <1>1, <2>1
  <2> HIDE DEF m
  <2> QED
    BY <2>1, <2>2, <2>3, <2>4
<1>3. CASE ~ (b < Capacity)
  BY <1>3 DEF Handed
<1> QED
  BY <1>2, <1>3

(* What the reader has, followed by what is buffered, is what was delivered. *)
Joined(s, r, b) ==
    /\ Len(s) = Len(r) + Len(b)
    /\ \A i \in 1..Len(r) : r[i] = s[i]
    /\ \A i \in 1..Len(b) : b[i] = s[Len(r) + i]

(* An event put into the buffer. *)
LEMMA JoinBuffered ==
    ASSUME NEW S, NEW s \in Seq(S), NEW r \in Seq(S), NEW b \in Seq(S), NEW e \in S,
           Joined(s, r, b)
    PROVE  Joined(Append(s, e), r, Append(b, e))
<1>1. Len(Append(s, e)) = Len(r) + Len(Append(b, e))
  BY DEF Joined
<1>2. ASSUME NEW i \in 1..Len(r) PROVE r[i] = Append(s, e)[i]
  BY DEF Joined
<1>3. ASSUME NEW i \in 1..Len(Append(b, e)) PROVE Append(b, e)[i] = Append(s, e)[Len(r) + i]
  <2>1. CASE i = Len(b) + 1
    BY <2>1 DEF Joined
  <2>2. CASE i \in 1..Len(b)
    <3>1. Len(r) + i \in 1..Len(s)
      BY <2>2 DEF Joined
    <3> QED
      BY <2>2, <3>1 DEF Joined
  <2>3. i = Len(b) + 1 \/ i \in 1..Len(b)
    OBVIOUS
  <2> QED
    BY <2>1, <2>2, <2>3
<1> QED
  BY <1>1, <1>2, <1>3 DEF Joined

(* An event handed to a waiting pull. *)
LEMMA JoinHanded ==
    ASSUME NEW S, NEW s \in Seq(S), NEW r \in Seq(S), NEW e \in S, Joined(s, r, <<>>)
    PROVE  Joined(Append(s, e), Append(r, e), <<>>)
<1>1. Len(s) = Len(r) /\ Len(Append(r, e)) = Len(r) + 1 /\ Len(Append(s, e)) = Len(s) + 1
  BY DEF Joined
<1>2. ASSUME NEW i \in 1..Len(Append(r, e)) PROVE Append(r, e)[i] = Append(s, e)[i]
  <2>1. CASE i = Len(r) + 1
    BY <1>1, <2>1
  <2>2. CASE i \in 1..Len(r)
    BY <1>1, <2>2 DEF Joined
  <2> QED
    BY <1>1, <2>1, <2>2
<1> QED
  BY <1>1, <1>2 DEF Joined

(* An event taken from the buffer. *)
LEMMA JoinPulled ==
    ASSUME NEW S, NEW s \in Seq(S), NEW r \in Seq(S), NEW b \in Seq(S), b # <<>>,
           Joined(s, r, b)
    PROVE  Joined(s, Append(r, Head(b)), Tail(b))
<1>1. /\ Head(b) \in S /\ Head(b) = b[1] /\ Len(b) \in Nat \ {0}
      /\ Tail(b) \in Seq(S) /\ Len(Tail(b)) = Len(b) - 1
      /\ Len(Append(r, Head(b))) = Len(r) + 1
  OBVIOUS
<1>2. Len(s) = Len(Append(r, Head(b))) + Len(Tail(b))
  BY <1>1 DEF Joined
<1>3. ASSUME NEW i \in 1..Len(Append(r, Head(b))) PROVE Append(r, Head(b))[i] = s[i]
  <2>1. CASE i = Len(r) + 1
    BY <1>1, <2>1 DEF Joined
  <2>2. CASE i \in 1..Len(r)
    BY <1>1, <2>2 DEF Joined
  <2> QED
    BY <1>1, <2>1, <2>2
<1>4. ASSUME NEW i \in 1..Len(Tail(b)) PROVE Tail(b)[i] = s[Len(Append(r, Head(b))) + i]
  <2>1. i + 1 \in 1..Len(b) /\ Tail(b)[i] = b[i + 1]
    BY <1>1
  <2> QED
    BY <1>1, <2>1 DEF Joined
<1> QED
  BY <1>2, <1>3, <1>4 DEF Joined

(* Joined to the very end, with nothing in the buffer: the reader has all. *)
LEMMA JoinComplete ==
    ASSUME NEW S, NEW s \in Seq(S), NEW r \in Seq(S), NEW b \in Seq(S),
           Joined(s, r, b), Len(r) = Len(s)
    PROVE  r = s /\ b = <<>>
<1>1. Len(b) = 0
  BY DEF Joined
<1>2. \A i \in 1..Len(s) : r[i] = s[i]
  BY DEF Joined
<1> QED
  BY <1>1, <1>2

-----------------------------------------------------------------------------
(* The parts of a step.                                                      *)

Places == {"idle", "parked", "ready"}

(* What the producers' side of the invariant says, with the buffer at "b". *)
ReadyOK ==
    /\ waiters \in Seq(Producer) /\ prod \in [Producer -> Places]
    /\ WaitsOnce /\ WakesHanded

QueueOK ==
    /\ buffer \in Seq(Events) /\ pulling \in BOOLEAN /\ published \in Nat
    /\ delivered \in Nat /\ gap \in BOOLEAN /\ received \in Seq(Events)
    /\ sent \in Seq(Events)

EndingOK ==
    /\ closed \in BOOLEAN /\ listening \in BOOLEAN /\ finished \in BOOLEAN
    /\ abandoned \in BOOLEAN

EngineOK ==
    /\ seq \in Nat /\ asks \in Seq(Kind) /\ writing \subseteq Events
    /\ settled \in BOOLEAN /\ sealed \in {"no", "written", "failed", "fenced"}

(* The invariant by the group of variables it is about. *)
LEMMA InvParts ==
    /\ TypeOK <=> EngineOK /\ QueueOK /\ EndingOK
                    /\ waiters \in Seq(Producer) /\ prod \in [Producer -> Places]
    /\ StreamInv <=> EngineOK /\ QueueOK /\ EndingOK /\ ReadyOK /\ Ends /\ Counters
                       /\ Lossless
    /\ Lossless <=> (~ abandoned => Joined(sent, received, buffer))
<1>1. TypeOK <=> EngineOK /\ QueueOK /\ EndingOK
                    /\ waiters \in Seq(Producer) /\ prod \in [Producer -> Places]
  BY Zenon DEF TypeOK, EngineOK, QueueOK, EndingOK, Places
<1>2. StreamInv <=> EngineOK /\ QueueOK /\ EndingOK /\ ReadyOK /\ Ends /\ Counters
                       /\ Lossless
  BY <1>1, Zenon DEF StreamInv, ReadyOK
<1>3. Lossless <=> (~ abandoned => Joined(sent, received, buffer))
  BY Zenon DEF Lossless, Joined
<1> QED
  BY <1>1, <1>2, <1>3

(* The same of the next state. *)
LEMMA InvBuilt ==
    ASSUME EngineOK', QueueOK', EndingOK', ReadyOK', Ends', Counters',
           ~ abandoned' => Joined(sent', received', buffer')
    PROVE  StreamInv'
<1>1. Lossless'
  BY Zenon DEF Lossless, Joined
<1>2. TypeOK'
  BY Zenon DEF TypeOK, EngineOK, QueueOK, EndingOK, ReadyOK, Places
<1> QED
  BY <1>1, <1>2, Zenon DEF StreamInv, ReadyOK

(* An event pushed into the open stream and put on the record. *)
LEMMA PushKeeps ==
    ASSUME QueueOK, Ends, Counters, Lossless, listening, closed \in BOOLEAN,
           NEW e \in Events, Push(e), Record(e)
    PROVE  /\ QueueOK' /\ Counters' /\ ~ gap' /\ ~ pulling'
           /\ ~ abandoned => Joined(sent', received', buffer')
           /\ Len(buffer') = Len(buffer) \/ Len(buffer') = Len(buffer) + 1
<1>1. /\ ~ closed /\ ~ gap /\ ~ abandoned
      /\ pulling => buffer = <<>>
  BY DEF Ends
<1>2. /\ published' = published + 1 /\ UNCHANGED gap /\ sent' = Append(sent, e)
  BY <1>1 DEF Push, Record
<1>3. buffer \in Seq(Events) /\ received \in Seq(Events) /\ sent \in Seq(Events)
  BY DEF QueueOK
<1>4. published \in Nat /\ delivered \in Nat /\ pulling \in BOOLEAN /\ gap \in BOOLEAN
  BY DEF QueueOK
<1>5. Joined(sent, received, buffer)
  BY <1>1, InvParts
<1>6. CASE pulling
  <2>1. /\ pulling' = FALSE /\ delivered' = delivered + 1
        /\ received' = Append(received, e) /\ buffer' = buffer /\ buffer = <<>>
    BY <1>1, <1>6 DEF Push
  <2>2. Joined(sent', received', buffer')
    BY <1>2, <1>3, <1>5, <2>1, JoinHanded
  <2>3. received' \in Seq(Events) /\ sent' \in Seq(Events) /\ buffer' \in Seq(Events)
    BY <1>2, <1>3, <2>1
  <2>4. Len(received') = Len(received) + 1 /\ Len(sent') = Len(sent) + 1
    BY <1>2, <1>3, <2>1
  <2>5. Counters'
    BY <1>2, <2>1, <2>4 DEF Counters
  <2>6. published' \in Nat /\ delivered' \in Nat
    BY <1>2, <1>4, <2>1
  <2>7. pulling' \in BOOLEAN /\ gap' \in BOOLEAN /\ ~ gap' /\ ~ pulling'
    BY <1>1, <1>2, <1>4, <2>1, Zenon
  <2>8. QueueOK'
    BY <2>3, <2>6, <2>7, Zenon DEF QueueOK
  <2>9. Len(buffer') = Len(buffer)
    BY <2>1
  <2> QED
    BY <2>2, <2>5, <2>7, <2>8, <2>9
<1>7. CASE ~ pulling
  <2>1. buffer' = Append(buffer, e) /\ UNCHANGED <<pulling, delivered, received>>
    BY <1>1, <1>7 DEF Push
  <2>2. Joined(sent', received', buffer')
    BY <1>2, <1>3, <1>5, <2>1, JoinBuffered
  <2>3. received' \in Seq(Events) /\ sent' \in Seq(Events) /\ buffer' \in Seq(Events)
    BY <1>2, <1>3, <2>1
  <2>4. Len(buffer') = Len(buffer) + 1 /\ Len(sent') = Len(sent) + 1
    BY <1>2, <1>3, <2>1
  <2>5. Counters'
    BY <1>2, <2>1, <2>4 DEF Counters
  <2>6. QueueOK' /\ ~ gap' /\ ~ pulling'
    BY <1>1, <1>2, <1>4, <1>7, <2>1, <2>3 DEF QueueOK
  <2> QED
    BY <2>2, <2>4, <2>5, <2>6
<1> QED
  BY <1>6, <1>7

(* A longer buffer takes wake-ups back. *)
LEMMA LongerBuffer ==
    ASSUME ReadyOK, buffer \in Seq(Events), buffer' \in Seq(Events),
           Len(buffer') = Len(buffer) \/ Len(buffer') = Len(buffer) + 1,
           UNCHANGED waiters, UNCHANGED closed
    PROVE  WakesHanded'
<1>1. CASE waiters = <<>>
  BY <1>1 DEF WakesHanded
<1>2. CASE waiters # <<>>
  <2>1. ~ closed /\ 2 * Len(waiters) + Handed(Len(buffer)) <= 2 * Cardinality(Producer)
    BY <1>2 DEF ReadyOK, WakesHanded
  <2>2. /\ Len(buffer) \in Nat /\ Len(waiters) \in Nat /\ Cardinality(Producer) \in Nat
        /\ Capacity \in Nat \ {0}
    BY DeliveryConstants, FS_CardinalityType DEF ReadyOK
  <2>3. /\ Handed(Len(buffer)) \in Nat /\ Handed(Len(buffer) + 1) \in Nat
        /\ Handed(Len(buffer) + 1) <= Handed(Len(buffer))
    <3>1. Len(buffer) + 1 \in Nat
      BY <2>2
    <3> QED
      BY <2>2, <3>1, HandedStep
  <2>4. Handed(Len(buffer')) \in Nat /\ Handed(Len(buffer')) <= Handed(Len(buffer))
    BY <2>3
  <2>5. 2 * Len(waiters') + Handed(Len(buffer')) <= 2 * Cardinality(Producer)
    BY <2>1, <2>2, <2>3, <2>4
  <2>6. ~ closed'
    BY <2>1
  <2>7. Handed(Len(buffer))' = Handed(Len(buffer'))
    BY DEF Handed
  <2> QED
    BY <2>5, <2>6, <2>7 DEF WakesHanded
<1> QED
  BY <1>1, <1>2

(* Close leaves nobody waiting. *)
LEMMA CloseKeeps ==
    ASSUME ReadyOK, Close
    PROVE  ReadyOK' /\ closed' = TRUE /\ listening' = FALSE
<1>1. waiters' = <<>> /\ prod' = Woken /\ closed' = TRUE /\ listening' = FALSE
  BY DEF Close
<1>2. prod' \in [Producer -> Places]
  BY <1>1 DEF ReadyOK, Woken, Places
<1>3. WaitsOnce' /\ WakesHanded'
  BY <1>1 DEF WaitsOnce, WakesHanded
<1> QED
  BY <1>1, <1>2, <1>3 DEF ReadyOK

(* Nothing that the producers' side depends on has changed. *)
LEMMA ReadyUnchanged ==
    ASSUME ReadyOK, UNCHANGED <<waiters, prod, closed, buffer>>
    PROVE  ReadyOK'
BY DEF ReadyOK, WaitsOnce, WakesHanded, Handed, Places

-----------------------------------------------------------------------------
(* The steps.                                                                *)

(* One pull takes one event out and wakes as many producers as it sees room
   for. *)
LEMMA WakeKeeps ==
    ASSUME ReadyOK, buffer \in Seq(Events), buffer # <<>>, buffer' = Tail(buffer),
           closed \in BOOLEAN, ~ closed, UNCHANGED closed, Wake(Len(buffer) - 1)
    PROVE  ReadyOK'
<1> DEFINE b    == Len(buffer) - 1
           free == IF b < Capacity THEN Capacity - b ELSE 0
           k    == IF free < Len(waiters) THEN free ELSE Len(waiters)
<1>1. /\ waiters \in Seq(Producer) /\ prod \in [Producer -> Places]
      /\ Len(waiters) \in Nat /\ Cardinality(Producer) \in Nat /\ Capacity \in Nat \ {0}
  BY DeliveryConstants, FS_CardinalityType DEF ReadyOK
<1>2. b \in Nat /\ Len(buffer) = b + 1 /\ Len(buffer') = b
  OBVIOUS
<1>3. free \in Nat /\ k \in 0..Len(waiters)
  BY <1>1, <1>2
<1>4. /\ waiters' = SubSeq(waiters, k + 1, Len(waiters))
      /\ prod' = [p \in Producer |->
                    IF \E i \in 1..k : waiters[i] = p THEN "ready" ELSE prod[p]]
  BY DEF Wake
<1> HIDE DEF b
<1>5. k = free \/ k = Len(waiters)
  OBVIOUS
<1>6. b < Capacity => free = Capacity - b
  OBVIOUS
<1>6a. ~ (b < Capacity) => free = 0
  OBVIOUS
<1> HIDE DEF k, free
<1>7. /\ waiters' \in Seq(Producer) /\ Len(waiters') = Len(waiters) - k
      /\ \A i \in 1..Len(waiters') : waiters'[i] = waiters[k + i]
  BY <1>1, <1>3, <1>4
<1>8. prod' \in [Producer -> Places]
  BY <1>1, <1>4 DEF Places
<1>9. WaitsOnce'
  <2>1. ASSUME NEW i \in 1..Len(waiters') PROVE prod'[waiters'[i]] = "parked"
    <3>1. k + i \in 1..Len(waiters) /\ waiters'[i] = waiters[k + i]
      BY <1>1, <1>3, <1>7
    <3>2. \A j \in 1..k : waiters[j] # waiters[k + i]
      <4>1. ASSUME NEW j \in 1..k, waiters[j] = waiters[k + i] PROVE FALSE
        <5>1. j \in 1..Len(waiters) /\ j # k + i
          BY <1>1, <1>3
        <5> QED
          BY <3>1, <4>1, <5>1 DEF ReadyOK, WaitsOnce
      <4> QED
        BY <4>1
    <3>3. waiters[k + i] \in Producer /\ prod[waiters[k + i]] = "parked"
      BY <1>1, <3>1 DEF ReadyOK, WaitsOnce
    <3>4. prod'[waiters[k + i]] = prod[waiters[k + i]]
      BY <1>4, <3>2, <3>3
    <3> QED
      BY <3>1, <3>3, <3>4
  <2>2. ASSUME NEW i \in 1..Len(waiters'), NEW j \in 1..Len(waiters'),
               waiters'[i] = waiters'[j]
        PROVE  i = j
    <3>1. /\ k + i \in 1..Len(waiters) /\ k + j \in 1..Len(waiters)
          /\ waiters[k + i] = waiters[k + j]
      BY <1>1, <1>3, <1>7, <2>2
    <3>2. k + i = k + j
      BY <3>1 DEF ReadyOK, WaitsOnce
    <3> QED
      BY <1>3, <3>2
  <2> QED
    BY <2>1, <2>2 DEF WaitsOnce
<1>10. WakesHanded'
  <2>1. CASE k = Len(waiters)
    <3>1. waiters' = <<>>
      BY <1>1, <1>7, <2>1
    <3> QED
      BY <3>1 DEF WakesHanded
  <2>2. CASE k = free /\ k # Len(waiters)
    <3>1. waiters # <<>>
      BY <1>1, <1>3, <2>2
    <3>2. 2 * Len(waiters) + Handed(b + 1) <= 2 * Cardinality(Producer)
      BY <1>2, <3>1 DEF ReadyOK, WakesHanded
    <3>3. /\ Handed(b) \in Nat /\ Handed(b + 1) \in Nat
          /\ b < Capacity => Handed(b) = Handed(b + 1) + 2 * (Capacity - b)
      <4>1. b + 1 \in Nat
        BY <1>2
      <4> QED
        BY <1>1, <1>2, <4>1, HandedStep
    <3>4. Handed(b) = Handed(b + 1) + 2 * free
      <4>1. CASE b < Capacity
        BY <1>6, <3>3, <4>1
      <4>2. CASE ~ (b < Capacity)
        <5>1. ~ (b + 1 < Capacity) /\ free = 0
          BY <1>1, <1>2, <1>6a, <4>2
        <5>2. Handed(b) = 0 /\ Handed(b + 1) = 0
          BY <4>2, <5>1 DEF Handed
        <5> QED
          BY <5>1, <5>2
      <4> QED
        BY <4>1, <4>2
    <3>5. 2 * Len(waiters') + Handed(b) <= 2 * Cardinality(Producer)
      BY <1>1, <1>3, <1>7, <2>2, <3>2, <3>3, <3>4
    <3>6. Handed(Len(buffer))' = Handed(Len(buffer'))
      BY DEF Handed
    <3> QED
      BY <1>2, <3>5, <3>6 DEF WakesHanded
  <2> QED
    BY <1>5, <2>1, <2>2
<1> QED
  BY <1>7, <1>8, <1>9, <1>10 DEF ReadyOK

LEMMA PullStep == ASSUME StreamInv, Next1 PROVE StreamInv'
<1>1. /\ EngineOK /\ QueueOK /\ EndingOK /\ ReadyOK /\ Ends /\ Counters
      /\ ~ abandoned => Joined(sent, received, buffer)
  BY InvParts
<1>2. /\ buffer # <<>> /\ ~ pulling /\ received' = Append(received, Head(buffer))
      /\ buffer' = Tail(buffer) /\ delivered' = delivered + 1
      /\ UNCHANGED <<engine, pulling, published, gap, ending, sent>>
      /\ IF closed THEN UNCHANGED ready ELSE Wake(Len(buffer) - 1)
  BY DEF Next1
<1>3. EngineOK' /\ EndingOK'
  BY <1>1, <1>2 DEF EngineOK, EndingOK, engine, ending
<1>4. buffer \in Seq(Events) /\ received \in Seq(Events) /\ sent \in Seq(Events)
  BY <1>1 DEF QueueOK
<1>5. /\ Head(buffer) \in Events /\ buffer' \in Seq(Events) /\ received' \in Seq(Events)
      /\ Len(received') = Len(received) + 1
  BY <1>2, <1>4
<1>6. QueueOK'
  BY <1>1, <1>2, <1>5 DEF QueueOK
<1>7. Ends' /\ Counters'
  BY <1>1, <1>2, <1>5 DEF Ends, Counters, ending
<1>8. ~ abandoned' => Joined(sent', received', buffer')
  BY <1>1, <1>2, <1>4, JoinPulled DEF ending
<1>9. ReadyOK'
  <2>1. closed \in BOOLEAN /\ UNCHANGED closed
    BY <1>1, <1>2 DEF EndingOK, ending
  <2>2. CASE closed
    <3>1. waiters = <<>> /\ waiters' = waiters /\ prod' = prod
      BY <1>1, <1>2, <2>2 DEF ReadyOK, WakesHanded, ready
    <3> QED
      BY <1>1, <3>1 DEF ReadyOK, WakesHanded, WaitsOnce, Places
  <2>3. CASE ~ closed
    BY <1>1, <1>2, <1>4, <2>1, <2>3, WakeKeeps
  <2> QED
    BY <2>1, <2>2, <2>3
<1> QED
  BY <1>3, <1>6, <1>7, <1>8, <1>9, InvBuilt

LEMMA WaitOrDoneStep == ASSUME StreamInv, NextWaits \/ NextDone PROVE StreamInv'
<1>1. /\ EngineOK /\ QueueOK /\ EndingOK /\ ReadyOK /\ Ends /\ Counters
      /\ ~ abandoned => Joined(sent, received, buffer)
  BY InvParts
<1>2. /\ UNCHANGED <<buffer, published, delivered, gap, received, sent, waiters, prod, closed>>
      /\ UNCHANGED <<listening, abandoned, engine>>
  BY DEF NextWaits, NextDone, engine, queue, ending, ready
<1>3. EngineOK' /\ ReadyOK'
  BY <1>1, <1>2, ReadyUnchanged DEF EngineOK, engine
<1>4. Counters' /\ (~ abandoned' => Joined(sent', received', buffer'))
  BY <1>1, <1>2 DEF Counters
<1>5. QueueOK' /\ EndingOK'
  <2>1. pulling' \in BOOLEAN /\ finished' \in BOOLEAN
    BY <1>1 DEF NextWaits, NextDone, queue, ending, QueueOK, EndingOK
  <2> QED
    BY <1>1, <1>2, <2>1 DEF QueueOK, EndingOK
<1>6. Ends'
  BY <1>1, <1>2 DEF Ends, NextWaits, NextDone, queue
<1> QED
  BY <1>3, <1>4, <1>5, <1>6, InvBuilt

LEMMA ReturnStep == ASSUME StreamInv, Return PROVE StreamInv'
<1>1. EngineOK /\ QueueOK /\ EndingOK /\ ReadyOK /\ Ends /\ Counters /\ Lossless
  BY InvParts
<1>2. /\ abandoned' = (abandoned \/ ~ closed \/ buffer # <<>>)
      /\ IF closed THEN UNCHANGED <<closed, listening, ready>> ELSE Close
      /\ buffer' = <<>> /\ pulling' = FALSE /\ finished' = TRUE
      /\ UNCHANGED <<engine, published, delivered, gap, received, sent>>
  BY DEF Return
<1>3. EngineOK' /\ Counters'
  BY <1>1, <1>2 DEF EngineOK, Counters, engine
<1>4. QueueOK'
  <2>1. pulling' \in BOOLEAN
    BY <1>2, Zenon
  <2>2. buffer' \in Seq(Events)
    <3>1. buffer' = <<>>
      BY <1>2, Zenon
    <3> QED
      BY <3>1
  <2> QED
    BY <1>1, <1>2, <2>1, <2>2, Zenon DEF QueueOK
<1>5. /\ closed' = TRUE /\ listening' = FALSE /\ ReadyOK'
  <2>1. CASE closed
    <3>1. waiters = <<>> /\ waiters' = waiters /\ prod' = prod
      BY <1>1, <1>2, <2>1 DEF ReadyOK, WakesHanded, ready
    <3>2. ReadyOK'
      BY <1>1, <3>1 DEF ReadyOK, WakesHanded, WaitsOnce, Places
    <3> QED
      BY <1>1, <1>2, <2>1, <3>2 DEF EndingOK, Ends
  <2>2. CASE ~ closed
    BY <1>1, <1>2, <2>2, CloseKeeps
  <2> QED
    BY <2>1, <2>2
<1>6. EndingOK'
  <2>1. abandoned' \in BOOLEAN
    BY <1>1, <1>2, Zenon
  <2> QED
    BY <1>2, <1>5, <2>1 DEF EndingOK
<1>7. Ends'
  BY <1>1, <1>2, <1>5 DEF Ends
<1>8. ~ abandoned' => Joined(sent', received', buffer')
  <2>1. ASSUME ~ abandoned' PROVE ~ abandoned /\ buffer = <<>>
    BY <1>2, <2>1
  <2>2. ASSUME ~ abandoned' PROVE Joined(sent, received, buffer) /\ buffer' = buffer
    BY <1>1, <1>2, <2>1, <2>2, InvParts
  <2> QED
    BY <1>2, <2>2
<1> QED
  BY <1>3, <1>4, <1>5, <1>6, <1>7, <1>8, InvBuilt

LEMMA ProducerStep ==
    ASSUME StreamInv, NEW p \in Producer, WhenDrained(p) \/ Emit(p) \/ Skip(p)
    PROVE  StreamInv'
<1>1. /\ EngineOK /\ QueueOK /\ EndingOK /\ ReadyOK /\ Ends /\ Counters /\ Lossless
      /\ ~ abandoned => Joined(sent, received, buffer)
  BY InvParts
<1>2. /\ waiters \in Seq(Producer) /\ prod \in [Producer -> Places]
      /\ buffer \in Seq(Events)
  BY <1>1 DEF ReadyOK, QueueOK
<1>3. ASSUME prod[p] # "parked", UNCHANGED waiters,
             \E x \in Places : prod' = [prod EXCEPT ![p] = x]
      PROVE  prod' \in [Producer -> Places] /\ WaitsOnce'
  <2>1. prod' \in [Producer -> Places]
    BY <1>2, <1>3
  <2>2. \A q \in Producer : prod[q] = "parked" => prod'[q] = "parked"
    BY <1>2, <1>3
  <2>3. \A i \in 1..Len(waiters) : waiters[i] \in Producer /\ prod[waiters[i]] = "parked"
    BY <1>1, <1>2 DEF ReadyOK, WaitsOnce
  <2> QED
    BY <1>1, <1>3, <2>1, <2>2, <2>3 DEF ReadyOK, WaitsOnce
<1>4. CASE (WhenDrained(p) \/ Skip(p)) /\ UNCHANGED waiters
  <2>1. /\ prod[p] # "parked" /\ \E x \in Places : prod' = [prod EXCEPT ![p] = x]
        /\ UNCHANGED <<engine, queue, ending, sent>>
    <3>1. CASE WhenDrained(p)
      <4>1. /\ prod[p] = "idle" /\ UNCHANGED <<engine, queue, ending, sent>>
            /\ \/ prod' = [prod EXCEPT ![p] = "ready"]
               \/ prod' = [prod EXCEPT ![p] = "parked"]
        BY <3>1 DEF WhenDrained
      <4> QED
        BY <4>1 DEF Places
    <3>2. CASE Skip(p)
      <4>1. /\ prod[p] = "ready" /\ UNCHANGED <<engine, queue, ending, sent>>
            /\ prod' = [prod EXCEPT ![p] = "idle"]
        BY <3>2 DEF Skip
      <4> QED
        BY <4>1 DEF Places
    <3> QED
      BY <1>4, <3>1, <3>2
  <2>2. prod' \in [Producer -> Places] /\ WaitsOnce'
    BY <1>3, <1>4, <2>1
  <2>3. ReadyOK'
    <3>1. WakesHanded'
      BY <1>1, <1>4, <2>1 DEF ReadyOK, WakesHanded, Handed, queue, ending
    <3> QED
      BY <1>2, <1>4, <2>2, <3>1 DEF ReadyOK
  <2>4. EngineOK' /\ QueueOK' /\ EndingOK' /\ Ends' /\ Counters'
    BY <1>1, <2>1 DEF EngineOK, QueueOK, EndingOK, Ends, Counters, engine, queue, ending
  <2>5. ~ abandoned' => Joined(sent', received', buffer')
    BY <1>1, <2>1 DEF queue, ending
  <2> QED
    BY <2>3, <2>4, <2>5, InvBuilt
<1>5. CASE WhenDrained(p) /\ waiters' # waiters
  <2>1. /\ prod[p] = "idle" /\ ~ closed /\ ~ (Len(buffer) < Capacity)
        /\ prod' = [prod EXCEPT ![p] = "parked"] /\ waiters' = Append(waiters, p)
        /\ UNCHANGED <<engine, queue, ending, sent>>
    BY <1>5 DEF WhenDrained
  <2>2. waiters' \in Seq(Producer) /\ prod' \in [Producer -> Places]
    BY <1>2, <2>1 DEF Places
  <2>3. /\ Len(waiters) \in Nat /\ Len(waiters') = Len(waiters) + 1
        /\ waiters'[Len(waiters) + 1] = p
        /\ \A i \in 1..Len(waiters) : waiters'[i] = waiters[i]
    BY <1>2, <2>1
  <2>4. \A i \in 1..Len(waiters) : /\ waiters[i] \in Producer
                                   /\ prod[waiters[i]] = "parked" /\ waiters[i] # p
    BY <1>1, <1>2, <2>1 DEF ReadyOK, WaitsOnce
  <2>5. WaitsOnce'
    <3>1. ASSUME NEW i \in 1..Len(waiters') PROVE prod'[waiters'[i]] = "parked"
      <4>1. CASE i = Len(waiters) + 1
        BY <1>2, <2>1, <2>3, <4>1
      <4>2. CASE i \in 1..Len(waiters)
        BY <1>2, <2>1, <2>3, <2>4, <4>2
      <4> QED
        BY <2>3, <4>1, <4>2
    <3>2. ASSUME NEW i \in 1..Len(waiters'), NEW j \in 1..Len(waiters'),
                 waiters'[i] = waiters'[j]
          PROVE  i = j
      <4>1. \A n, m \in 1..Len(waiters) : waiters[n] = waiters[m] => n = m
        BY <1>1 DEF ReadyOK, WaitsOnce
      <4> QED
        BY <2>3, <2>4, <3>2, <4>1
    <3> QED
      BY <3>1, <3>2 DEF WaitsOnce
  <2>6. WakesHanded'
    <3>1. Len(waiters') <= Cardinality(Producer)
      <4>1. \A i, j \in 1..Len(waiters') : waiters'[i] = waiters'[j] => i = j
        BY <2>5 DEF WaitsOnce
      <4> QED
        BY <2>2, <4>1, DistinctBound, DeliveryConstants
    <3>2. Handed(Len(buffer))' = 0 /\ ~ closed'
      BY <2>1 DEF Handed, queue, ending
    <3>3. Cardinality(Producer) \in Nat /\ Len(waiters') \in Nat
      BY <2>2, DeliveryConstants, FS_CardinalityType
    <3> QED
      BY <3>1, <3>2, <3>3 DEF WakesHanded
  <2>7. ReadyOK'
    BY <2>2, <2>5, <2>6 DEF ReadyOK
  <2>8. EngineOK' /\ QueueOK' /\ EndingOK' /\ Ends' /\ Counters'
    BY <1>1, <2>1 DEF EngineOK, QueueOK, EndingOK, Ends, Counters, engine, queue, ending
  <2>9. ~ abandoned' => Joined(sent', received', buffer')
    BY <1>1, <2>1 DEF queue, ending
  <2> QED
    BY <2>7, <2>8, <2>9, InvBuilt
<1>6. CASE Emit(p)
  <2> DEFINE e == Event(seq, "token")
  <2>1. /\ prod[p] = "ready" /\ prod' = [prod EXCEPT ![p] = "idle"] /\ seq' = seq + 1
        /\ IF listening THEN Push(e) ELSE UNCHANGED queue
        /\ Record(e) /\ UNCHANGED <<asks, writing, settled, sealed, ending, waiters>>
    BY <1>6 DEF Emit
  <2>2. e \in Events
    BY <1>1 DEF Event, Events, Kind, EngineOK
  <2> HIDE DEF e
  <2>3. prod' \in [Producer -> Places] /\ WaitsOnce'
    <3>1. \E x \in Places : prod' = [prod EXCEPT ![p] = x]
      BY <2>1 DEF Places
    <3> QED
      BY <1>3, <2>1, <3>1
  <2>4. EngineOK' /\ EndingOK'
    BY <1>1, <2>1 DEF EngineOK, EndingOK, ending
  <2>5. CASE listening
    <3>1. /\ QueueOK' /\ Counters' /\ ~ gap' /\ ~ pulling'
          /\ ~ abandoned => Joined(sent', received', buffer')
          /\ Len(buffer') = Len(buffer) \/ Len(buffer') = Len(buffer) + 1
      <4>1. Push(e) /\ closed \in BOOLEAN
        BY <1>1, <2>1, <2>5 DEF EndingOK
      <4> QED
        BY <1>1, <2>1, <2>2, <2>5, <4>1, PushKeeps
    <3>2. Ends'
      BY <1>1, <2>1, <3>1 DEF Ends, ending
    <3>3. ~ abandoned' => Joined(sent', received', buffer')
      BY <2>1, <3>1 DEF ending
    <3>4. WakesHanded'
      <4>1. buffer' \in Seq(Events) /\ UNCHANGED <<waiters, closed>>
        BY <2>1, <3>1 DEF QueueOK, ending
      <4> QED
        BY <1>1, <1>2, <3>1, <4>1, LongerBuffer
    <3>5. ReadyOK'
      BY <1>2, <2>1, <2>3, <3>4 DEF ReadyOK
    <3> QED
      BY <2>4, <3>1, <3>2, <3>3, <3>5, InvBuilt
  <2>6. CASE ~ listening
    <3>1. UNCHANGED <<queue, ending, waiters, sent>>
      BY <2>1, <2>6 DEF Record
    <3>2. QueueOK' /\ Ends' /\ Counters'
      BY <1>1, <3>1 DEF QueueOK, Ends, Counters, queue, ending
    <3>3. ~ abandoned' => Joined(sent', received', buffer')
      BY <1>1, <3>1 DEF queue, ending
    <3>4. WakesHanded'
      BY <1>1, <3>1 DEF ReadyOK, WakesHanded, Handed, queue, ending
    <3>5. ReadyOK'
      BY <1>2, <3>1, <2>3, <3>4 DEF ReadyOK
    <3> QED
      BY <2>4, <3>2, <3>3, <3>5, InvBuilt
  <2> QED
    BY <2>5, <2>6
<1> QED
  BY <1>4, <1>5, <1>6 DEF Skip

LEMMA WriterStep ==
    ASSUME StreamInv,
           \/ Write \/ Fence \/ \E e \in writing : Acknowledge(e)
           \/ \E kind \in {"boundary", "receipt", "terminal"} : EmitDurable(kind)
    PROVE  StreamInv'
<1>1. /\ EngineOK /\ QueueOK /\ EndingOK /\ ReadyOK /\ Ends /\ Counters /\ Lossless
      /\ ~ abandoned => Joined(sent, received, buffer)
  BY InvParts
<1>2. /\ seq \in Nat /\ asks \in Seq(Kind) /\ writing \subseteq Events
      /\ settled \in BOOLEAN /\ sealed \in {"no", "written", "failed", "fenced"}
  BY <1>1 DEF EngineOK
<1>3. ASSUME EngineOK', UNCHANGED <<queue, ending, ready, sent>> PROVE StreamInv'
  <2>1. QueueOK' /\ EndingOK' /\ Ends' /\ Counters'
    BY <1>1, <1>3 DEF QueueOK, EndingOK, Ends, Counters, queue, ending
  <2>2. ~ abandoned' => Joined(sent', received', buffer')
    BY <1>1, <1>3 DEF queue, ending
  <2>3. ReadyOK'
    BY <1>1, <1>3, ReadyUnchanged DEF queue, ending, ready
  <2> QED
    BY <1>3, <2>1, <2>2, <2>3, InvBuilt
<1>4. CASE Write
  <2>1. /\ asks # <<>> /\ asks' = Tail(asks) /\ seq' = seq + 1
        /\ \/ writing' = writing
           \/ writing' = writing \cup {Event(seq, Head(asks))}
        /\ UNCHANGED <<settled, sealed, queue, ending, ready, sent>>
    BY <1>4 DEF Write
  <2>2. Head(asks) \in Kind /\ asks' \in Seq(Kind) /\ seq' \in Nat
    BY <1>2, <2>1
  <2>3. Event(seq, Head(asks)) \in Events
    BY <1>2, <2>2 DEF Event, Events
  <2>4. EngineOK'
    BY <1>2, <2>1, <2>2, <2>3 DEF EngineOK
  <2> QED
    BY <1>3, <2>1, <2>4
<1>5. CASE \E kind \in {"boundary", "receipt", "terminal"} : EmitDurable(kind)
  <2>1. PICK kind \in {"boundary", "receipt", "terminal"} : EmitDurable(kind)
    BY <1>5
  <2>2. /\ asks' = Append(asks, kind) /\ settled' = (settled \/ kind = "terminal")
        /\ UNCHANGED <<seq, writing, sealed, queue, ending, ready, sent>>
    BY <2>1 DEF EmitDurable
  <2>3. settled' \in BOOLEAN
    BY <2>2, Zenon
  <2>4. asks' \in Seq(Kind)
    BY <1>2, <2>2 DEF Kind
  <2>5. EngineOK'
    BY <1>2, <2>2, <2>3, <2>4 DEF EngineOK
  <2> QED
    BY <1>3, <2>2, <2>5
<1>6. CASE Fence
  <2>1. /\ settled' = TRUE /\ sealed' = "fenced" /\ writing' = {}
        /\ IF closed THEN UNCHANGED <<ending, pulling, ready>>
           ELSE /\ Close /\ pulling' = FALSE /\ finished' = (finished \/ pulling)
                /\ UNCHANGED abandoned
        /\ UNCHANGED <<seq, asks, buffer, published, delivered, gap, received, sent>>
    BY <1>6 DEF Fence
  <2>2. EngineOK'
    BY <1>2, <2>1 DEF EngineOK
  <2>3. CASE closed
    <3>1. UNCHANGED <<queue, ending, ready, sent>>
      BY <2>1, <2>3 DEF queue
    <3> QED
      BY <1>3, <2>2, <3>1
  <2>4. CASE ~ closed
    <3>1. /\ Close /\ pulling' = FALSE /\ finished' = (finished \/ pulling)
          /\ UNCHANGED abandoned
      BY <2>1, <2>4
    <3>2. ReadyOK' /\ closed' = TRUE /\ listening' = FALSE
      BY <1>1, <3>1, CloseKeeps
    <3>3. finished' \in BOOLEAN /\ pulling' \in BOOLEAN
      BY <3>1, Zenon
    <3>4. QueueOK' /\ EndingOK' /\ Counters'
      BY <1>1, <2>1, <3>1, <3>2, <3>3, Zenon DEF QueueOK, EndingOK, Counters
    <3>5. Ends'
      BY <1>1, <2>1, <3>1, <3>2 DEF Ends
    <3>6. ~ abandoned' => Joined(sent', received', buffer')
      BY <1>1, <2>1, <3>1
    <3> QED
      BY <2>2, <3>2, <3>4, <3>5, <3>6, InvBuilt
  <2> QED
    BY <2>3, <2>4
<1>7. CASE \E e \in writing : Acknowledge(e)
  <2>1. PICK e \in writing : Acknowledge(e)
    BY <1>7
  <2>2. e \in Events
    BY <1>2
  <2>3. /\ writing' = writing \ {e} /\ Deliver(e) /\ Record(e) /\ UNCHANGED <<seq, asks, settled>>
        /\ UNCHANGED sealed \/ sealed' \in {"written", "failed"}
    BY <2>1 DEF Acknowledge
  <2>4. EngineOK'
    BY <1>2, <2>3 DEF EngineOK
  <2>5. CASE ~ listening
    <3>1. UNCHANGED <<queue, ending, ready, sent>>
      BY <2>3, <2>5 DEF Deliver, Record
    <3> QED
      BY <1>3, <2>4, <3>1
  <2>6. CASE listening
    <3>1. /\ Push(e)
          /\ IF e.kind = "terminal" THEN Close ELSE UNCHANGED <<closed, listening, ready>>
          /\ UNCHANGED <<finished, abandoned>>
      BY <2>3, <2>6 DEF Deliver
    <3>2. /\ QueueOK' /\ Counters' /\ ~ gap' /\ ~ pulling'
          /\ ~ abandoned => Joined(sent', received', buffer')
          /\ Len(buffer') = Len(buffer) \/ Len(buffer') = Len(buffer) + 1
      <4>1. closed \in BOOLEAN
        BY <1>1 DEF EndingOK
      <4> QED
        BY <1>1, <2>2, <2>3, <2>6, <3>1, <4>1, PushKeeps
    <3>3. ~ abandoned /\ ~ closed
      BY <1>1, <2>6 DEF Ends
    <3>4. ~ abandoned' => Joined(sent', received', buffer')
      BY <3>1, <3>2, <3>3
    <3>5. CASE e.kind = "terminal"
      <4>1. ReadyOK' /\ closed' = TRUE /\ listening' = FALSE
        BY <1>1, <3>1, <3>5, CloseKeeps
      <4>2. EndingOK' /\ Ends'
        BY <1>1, <3>1, <3>2, <4>1 DEF EndingOK, Ends
      <4> QED
        BY <2>4, <3>2, <3>4, <4>1, <4>2, InvBuilt
    <3>6. CASE e.kind # "terminal"
      <4>1. UNCHANGED <<closed, listening, ready, finished, abandoned>>
        BY <3>1, <3>6
      <4>2. EndingOK' /\ Ends'
        BY <1>1, <3>2, <4>1 DEF EndingOK, Ends
      <4>3. ReadyOK'
        <5>1. UNCHANGED <<waiters, prod, closed>>
          BY <4>1 DEF ready
        <5>2. buffer \in Seq(Events) /\ buffer' \in Seq(Events)
          BY <1>1, <3>2 DEF QueueOK
        <5>3. WakesHanded'
          BY <1>1, <3>2, <5>1, <5>2, LongerBuffer
        <5>4. WaitsOnce'
          BY <1>1, <5>1 DEF ReadyOK, WaitsOnce
        <5> QED
          BY <1>1, <5>1, <5>3, <5>4 DEF ReadyOK
      <4> QED
        BY <2>4, <3>2, <3>4, <4>2, <4>3, InvBuilt
    <3> QED
      BY <3>5, <3>6
  <2> QED
    BY <2>5, <2>6
<1> QED
  BY <1>4, <1>5, <1>6, <1>7

-----------------------------------------------------------------------------
(* The theorems.                                                             *)

LEMMA StreamStart == Init => StreamInv
<1> SUFFICES ASSUME Init PROVE StreamInv
  OBVIOUS
<1>1. /\ settled \in BOOLEAN /\ pulling \in BOOLEAN /\ gap \in BOOLEAN /\ EndingOK
  BY Zenon DEF Init, EndingOK
<1>2. EngineOK
  BY <1>1 DEF Init, EngineOK
<1>3. QueueOK
  BY <1>1 DEF Init, QueueOK
<1>4. Ends /\ Counters
  BY DEF Init, Ends, Counters
<1>5. ReadyOK
  BY DEF Init, ReadyOK, WaitsOnce, WakesHanded, Places
<1>6. Joined(sent, received, buffer)
  BY DEF Init, Joined
<1> QED
  BY <1>1, <1>2, <1>3, <1>4, <1>5, <1>6, InvParts

LEMMA StreamStep == StreamInv /\ [Next]_vars => StreamInv'
<1> SUFFICES ASSUME StreamInv, [Next]_vars PROVE StreamInv'
  OBVIOUS
<1>1. CASE Reader
  BY <1>1, PullStep, WaitOrDoneStep DEF Reader
<1>2. CASE Return
  BY <1>2, ReturnStep
<1>3. CASE Writer \/ Fence
  BY <1>3, WriterStep DEF Writer
<1>4. CASE \E p \in Producer : WhenDrained(p) \/ Emit(p) \/ Skip(p)
  BY <1>4, ProducerStep
<1>5. CASE \E kind \in {"boundary", "receipt", "terminal"} : EmitDurable(kind)
  BY <1>5, WriterStep
<1>6. CASE UNCHANGED vars
  <2>1. /\ EngineOK /\ QueueOK /\ EndingOK /\ ReadyOK /\ Ends /\ Counters
        /\ ~ abandoned => Joined(sent, received, buffer)
    BY InvParts
  <2>2. UNCHANGED <<engine, queue, ending, ready, sent>>
    BY <1>6 DEF vars
  <2>3. EngineOK' /\ QueueOK' /\ EndingOK' /\ Ends' /\ Counters'
    BY <2>1, <2>2 DEF EngineOK, QueueOK, EndingOK, Ends, Counters, engine, queue, ending
  <2>4. ~ abandoned' => Joined(sent', received', buffer')
    BY <2>1, <2>2 DEF queue, ending
  <2>5. ReadyOK'
    BY <2>1, <2>2, ReadyUnchanged DEF queue, ending, ready
  <2> QED
    BY <2>3, <2>4, <2>5, InvBuilt
<1> QED
  BY <1>1, <1>2, <1>3, <1>4, <1>5, <1>6 DEF Next

(* StreamInv is an invariant of the event path, whatever the number of
   producers, the capacity and the number of events. *)
THEOREM StreamInvariant == Spec => []StreamInv
BY StreamStart, StreamStep, PTL DEF Spec

(* Every variable of the bus, the durable tail and the stream keeps its type. *)
THEOREM StreamTypes == Spec => []TypeOK
<1>1. StreamInv => TypeOK
  BY DEF StreamInv
<1> QED
  BY <1>1, StreamInvariant, PTL

(* Nothing is dropped, doubled or reordered between the bus and a reader that
   stays (push, next, return and close of BoundedEventStream). *)
THEOREM LosslessDelivery == Spec => []Lossless
<1>1. StreamInv => Lossless
  BY DEF StreamInv
<1> QED
  BY <1>1, StreamInvariant, PTL

(* No event is pushed into a closed stream (the close callback of
   createRunHandle unsubscribes it), and the counters that #sameDeparturePause
   reads certify that the reader has every event the bus delivered. *)
THEOREM CertifiedDeparture == Spec => []CountersCertify
<1>1. StreamInv => CountersAgree
  <2> SUFFICES ASSUME StreamInv, ~ gap, ~ abandoned, delivered = published
               PROVE  received = sent /\ buffer = <<>>
    BY DEF CountersAgree
  <2>1. Joined(sent, received, buffer) /\ QueueOK /\ Counters
    BY InvParts
  <2>2. Len(received) = Len(sent)
    BY <2>1 DEF Counters
  <2>3. sent \in Seq(Events) /\ received \in Seq(Events) /\ buffer \in Seq(Events)
    BY <2>1 DEF QueueOK
  <2> QED
    BY <2>1, <2>2, <2>3, JoinComplete
<1>2. StreamInv => NoGap
  BY DEF StreamInv, Ends, NoGap
<1> QED
  BY <1>1, <1>2, StreamInvariant, PTL DEF CountersCertify

(* No producer waits for room in an empty or a closed stream, as long as twice
   the number of producers is at most Capacity * (Capacity + 1)
   (#wakeDrainWaiters). *)
THEOREM NobodyStranded == Spec => []NoStrandedProducer
<1>1. StreamInv => NoStrandedProducer
  <2> SUFFICES ASSUME StreamInv, closed \/ buffer = <<>>, waiters # <<>> PROVE FALSE
    BY DEF NoStrandedProducer
  <2>1. ReadyOK
    BY InvParts
  <2>2. ~ closed /\ 2 * Len(waiters) + Handed(Len(buffer)) <= 2 * Cardinality(Producer)
    BY <2>1 DEF ReadyOK, WakesHanded
  <2>3. Len(buffer) = 0
    BY <2>2
  <2>4. /\ Capacity \in Nat \ {0} /\ Cardinality(Producer) \in Nat
        /\ 2 * Cardinality(Producer) <= Capacity * (Capacity + 1)
    BY DeliveryConstants, FS_CardinalityType
  <2>5. Handed(0) = Capacity * (Capacity + 1)
    BY <2>4 DEF Handed
  <2>6. Len(waiters) \in Nat \ {0}
    BY <2>1 DEF ReadyOK
  <2>7. Handed(0) \in Nat
    BY <2>4, HandedStep
  <2> QED
    BY <2>2, <2>3, <2>4, <2>5, <2>6, <2>7
<1> QED
  BY <1>1, StreamInvariant, PTL

-----------------------------------------------------------------------------
(* The order of delivery: the inductive invariant, on top of StreamInv.      *)

(* The reader has a beginning of what the bus delivered, even if it left. *)
ReadPrefix ==
    /\ Len(received) <= Len(sent)
    /\ \A i \in 1..Len(received) : received[i] = sent[i]

(* The bus delivers durable events in the order of their numbers. *)
SentInOrder ==
    /\ \A i \in 1..Len(sent) : sent[i].kind # "token" => sent[i].n < seq
    /\ \A i, j \in 1..Len(sent) :
          i < j /\ sent[i].kind # "token" /\ sent[j].kind # "token" => sent[i].n < sent[j].n

(* One write at a time, of a number later than those of all durable events delivered. *)
OneWrite ==
    /\ \A e, f \in writing : e = f
    /\ \A e \in writing :
          /\ e.n < seq
          /\ \A i \in 1..Len(sent) : sent[i].kind # "token" => sent[i].n < e.n

(* A terminal closes the stream, so nothing is delivered after it. *)
TerminalCloses ==
    \A i \in 1..Len(sent) : sent[i].kind = "terminal" => closed /\ i = Len(sent)

(* How the stream of a reader that stays is closed: by the terminal, or by the
   fence. *)
Closing ==
    /\ closed /\ ~ abandoned => sealed # "no"
    /\ finished => closed /\ buffer = <<>>
    /\ abandoned => buffer = <<>>
    /\ sealed = "fenced" => writing = {}
    /\ ~ abandoned /\ sealed \in {"written", "failed"} =>
          sent # <<>> /\ sent[Len(sent)].kind = "terminal"

OrderInv == ReadPrefix /\ SentInOrder /\ OneWrite /\ TerminalCloses /\ Closing

-----------------------------------------------------------------------------
(* What a step does to the events delivered.                                 *)

(* A sequence in the order of its numbers, followed by a token or by a durable
   event of a later number, is still in order. *)
LEMMA OrderExtended ==
    ASSUME NEW s \in Seq(Events), NEW e \in Events, NEW m \in Nat, e.n < m,
           \A i \in 1..Len(s) : s[i].kind # "token" => s[i].n < m,
           \A i, j \in 1..Len(s) :
              i < j /\ s[i].kind # "token" /\ s[j].kind # "token" => s[i].n < s[j].n,
           e.kind # "token" => \A i \in 1..Len(s) : s[i].kind # "token" => s[i].n < e.n
    PROVE  /\ \A i \in 1..Len(Append(s, e)) :
                 Append(s, e)[i].kind # "token" => Append(s, e)[i].n < m
           /\ \A i, j \in 1..Len(Append(s, e)) :
                 i < j /\ Append(s, e)[i].kind # "token" /\ Append(s, e)[j].kind # "token"
                    => Append(s, e)[i].n < Append(s, e)[j].n
<1> DEFINE t == Append(s, e)
<1>1. /\ Len(t) = Len(s) + 1 /\ Len(s) \in Nat
      /\ t[Len(s) + 1] = e /\ \A i \in 1..Len(s) : t[i] = s[i]
  OBVIOUS
<1>2. \A i \in 1..Len(t) : i \in 1..Len(s) \/ i = Len(s) + 1
  BY <1>1
<1> HIDE DEF t
<1>3. \A i \in 1..Len(t) : t[i].kind # "token" => t[i].n < m
  BY <1>1, <1>2
<1>4. ASSUME NEW i \in 1..Len(t), NEW j \in 1..Len(t), i < j,
             t[i].kind # "token", t[j].kind # "token"
      PROVE  t[i].n < t[j].n
  <2>1. i \in 1..Len(s)
    BY <1>1, <1>2, <1>4
  <2> QED BY <1>1, <1>2, <1>4, <2>1
<1> QED BY <1>3, <1>4 DEF t

(* Later numbers leave the order as it is. *)
LEMMA LaterNumber ==
    ASSUME sent \in Seq(Events), seq \in Nat, SentInOrder
    PROVE  \A i \in 1..Len(sent) : sent[i].kind # "token" => sent[i].n < seq + 1
<1> SUFFICES ASSUME NEW i \in 1..Len(sent), sent[i].kind # "token"
             PROVE  sent[i].n < seq + 1
  OBVIOUS
<1>1. sent[i].n < seq
  BY DEF SentInOrder
<1>2. sent[i] \in Events
  OBVIOUS
<1>3. sent[i].n \in Nat
  BY <1>2 DEF Events
<1> QED BY <1>1, <1>3

(* A streamed token. *)
LEMMA TokenStep ==
    ASSUME StreamInv, OrderInv, NEW p \in Producer, Emit(p)
    PROVE  SentInOrder' /\ OneWrite' /\ TerminalCloses' /\ Closing'
<1> DEFINE e == Event(seq, "token")
<1>1. sent \in Seq(Events) /\ seq \in Nat /\ writing \subseteq Events /\ (listening <=> ~ closed)
  BY InvParts DEF QueueOK, EngineOK, Ends
<1>2. /\ seq' = seq + 1 /\ writing' = writing /\ sealed' = sealed
      /\ closed' = closed /\ finished' = finished /\ abandoned' = abandoned
  BY DEF Emit, ending
<1>3. e \in Events /\ e.n = seq /\ e.kind = "token"
  BY <1>1 DEF Event, Events, Kind
<1>4. CASE closed
  <2>1. sent' = sent /\ buffer' = buffer
    BY <1>1, <1>4 DEF Emit, Record, queue
  <2>2. SentInOrder'
    BY <1>1, <1>2, <2>1, LaterNumber DEF OrderInv, SentInOrder
  <2>3. OneWrite'
    <3>1. \A f \in writing : f.n < seq + 1
      BY <1>1 DEF OrderInv, OneWrite, Events
    <3> QED BY <1>2, <2>1, <3>1 DEF OrderInv, OneWrite
  <2>4. TerminalCloses' /\ Closing'
    BY <1>2, <2>1 DEF OrderInv, TerminalCloses, Closing
  <2> QED BY <2>2, <2>3, <2>4
<1>5. CASE ~ closed
  <2>1. sent' = Append(sent, e)
    BY <1>1, <1>5 DEF Emit, Record
  <2>2. \A i \in 1..Len(sent) : sent[i].kind # "token" => sent[i].n < seq'
    BY <1>1, <1>2, LaterNumber DEF OrderInv
  <2>3. SentInOrder'
    <3> HIDE DEF e
    <3>1. e.n < seq'
      BY <1>1, <1>2, <1>3
    <3> QED BY <1>1, <1>2, <1>3, <2>1, <2>2, <3>1, OrderExtended DEF OrderInv, SentInOrder
  <2>4. /\ Len(sent') = Len(sent) + 1 /\ sent'[Len(sent) + 1] = e
        /\ \A i \in 1..Len(sent) : sent'[i] = sent[i]
        /\ \A i \in 1..Len(sent') : i \in 1..Len(sent) \/ i = Len(sent) + 1
    BY <1>1, <2>1
  <2>5. OneWrite'
    BY <1>1, <1>2, <1>3, <2>4 DEF OrderInv, OneWrite, Events
  <2>6. TerminalCloses'
    BY <1>2, <1>3, <1>5, <2>4 DEF OrderInv, TerminalCloses
  <2>7. Closing'
    <3>1. ~ finished /\ ~ abandoned /\ sealed \notin {"written", "failed"}
      <4>1. ~ abandoned
        BY <1>5, InvParts DEF Ends
      <4>2. sealed \notin {"written", "failed"}
        BY <1>5, <1>1, <4>1 DEF OrderInv, Closing, TerminalCloses
      <4> QED BY <1>5, <4>1, <4>2 DEF OrderInv, Closing
    <3> QED BY <1>2, <1>5, <3>1 DEF OrderInv, Closing
  <2> QED BY <2>3, <2>5, <2>6, <2>7
<1> QED BY <1>4, <1>5

(* A durable event that was written, or failed to be. *)
LEMMA AcknowledgeStep ==
    ASSUME StreamInv, OrderInv, NEW e \in writing, Acknowledge(e)
    PROVE  SentInOrder' /\ OneWrite' /\ TerminalCloses' /\ Closing'
<1>1. sent \in Seq(Events) /\ seq \in Nat /\ e \in Events /\ (listening <=> ~ closed)
  BY InvParts DEF QueueOK, EngineOK, Ends
<1>2. seq' = seq /\ writing' = {} /\ sealed # "fenced" /\ finished' = finished /\ abandoned' = abandoned
  BY DEF Acknowledge, Deliver, ending, OrderInv, OneWrite, Closing
<1>3. \/ sealed' = sealed /\ e.kind # "terminal"
      \/ e.kind = "terminal" /\ sealed' \in {"written", "failed"}
  BY DEF Acknowledge
<1>4. CASE closed
  <2>1. sent' = sent /\ buffer' = buffer /\ closed' = closed
    BY <1>1, <1>4 DEF Acknowledge, Deliver, Record, queue, ending
  <2>2. ~ abandoned => sealed \in {"written", "failed"}
    BY <1>2, <1>4, InvParts DEF OrderInv, Closing, EngineOK
  <2> QED BY <1>2, <1>3, <1>4, <2>1, <2>2 DEF OrderInv, SentInOrder, OneWrite, TerminalCloses, Closing
<1>5. CASE ~ closed
  <2>1. sent' = Append(sent, e)
    BY <1>1, <1>5 DEF Acknowledge, Record
  <2>2. /\ e.n < seq
        /\ \A i \in 1..Len(sent) : sent[i].kind # "token" => sent[i].n < e.n
    BY DEF OrderInv, OneWrite
  <2>3. SentInOrder'
    BY <1>1, <1>2, <2>1, <2>2, OrderExtended DEF OrderInv, SentInOrder
  <2>4. /\ Len(sent') = Len(sent) + 1 /\ sent'[Len(sent) + 1] = e /\ sent' # <<>>
        /\ \A i \in 1..Len(sent) : sent'[i] = sent[i]
        /\ \A i \in 1..Len(sent') : i \in 1..Len(sent) \/ i = Len(sent) + 1
    BY <1>1, <2>1
  <2>5. OneWrite'
    BY <1>2 DEF OneWrite
  <2>6. closed' <=> e.kind = "terminal"
    <3>1. Deliver(e) /\ listening
      BY <1>1, <1>5 DEF Acknowledge
    <3> QED BY <1>5, <3>1 DEF Deliver, Close
  <2>7. TerminalCloses'
    BY <1>5, <2>4, <2>6 DEF OrderInv, TerminalCloses
  <2>8. Closing'
    <3>1. ~ finished /\ ~ abandoned
      BY <1>1, <1>5, InvParts DEF OrderInv, Closing, Ends
    <3>2. sealed \notin {"written", "failed"}
      BY <1>1, <1>5, <3>1 DEF OrderInv, Closing, TerminalCloses
    <3> QED BY <1>2, <1>3, <2>4, <2>6, <3>1, <3>2 DEF OrderInv, Closing
  <2> QED BY <2>3, <2>5, <2>7, <2>8
<1> QED BY <1>4, <1>5

(* Every other step delivers nothing. *)
LEMMA OtherStep ==
    ASSUME StreamInv, OrderInv,
           \/ Reader \/ Return \/ Write \/ Fence \/ UNCHANGED vars
           \/ \E p \in Producer : WhenDrained(p) \/ Skip(p)
           \/ \E kind \in {"boundary", "receipt", "terminal"} : EmitDurable(kind)
    PROVE  SentInOrder' /\ OneWrite' /\ TerminalCloses' /\ Closing'
<1>1. sent \in Seq(Events) /\ buffer \in Seq(Events) /\ seq \in Nat /\ asks \in Seq(Kind)
      /\ writing \subseteq Events /\ (pulling => ~ closed /\ buffer = <<>>) /\ (abandoned => closed)
  BY InvParts DEF QueueOK, EngineOK, Ends
<1>2. CASE Next1 \/ NextWaits \/ NextDone \/ UNCHANGED vars \/ (\E p \in Producer : WhenDrained(p) \/ Skip(p))
           \/ \E kind \in {"boundary", "receipt", "terminal"} : EmitDurable(kind)
  <2>1. UNCHANGED <<sent, seq, writing, sealed, closed, abandoned>>
    BY <1>2 DEF Next1, NextWaits, NextDone, vars, WhenDrained, Skip, EmitDurable, engine, queue, ending
  <2>2. \/ finished' = finished /\ buffer' = buffer
        \/ finished' = finished /\ ~ finished /\ ~ abandoned
        \/ finished' = TRUE /\ closed /\ buffer = <<>> /\ buffer' = buffer
    BY <1>1, <1>2 DEF OrderInv, Closing, Next1, NextWaits, NextDone, vars, WhenDrained, Skip, EmitDurable,
       engine, queue, ending
  <2> QED BY <2>1, <2>2 DEF OrderInv, SentInOrder, OneWrite, TerminalCloses, Closing
<1>3. CASE Return
  <2>1. UNCHANGED <<sent, seq, writing, sealed>> /\ closed' /\ buffer' = <<>>
        /\ abandoned' = (abandoned \/ ~ closed \/ buffer # <<>>)
    BY <1>3 DEF Return, Close, engine
  <2> QED BY <2>1 DEF OrderInv, SentInOrder, OneWrite, TerminalCloses, Closing
<1>4. CASE Fence
  <2>1. UNCHANGED <<sent, seq, buffer, abandoned>> /\ writing' = {} /\ sealed' = "fenced" /\ closed'
    BY <1>4 DEF Fence, Close, ending
  <2>2. finished' => finished \/ pulling
    BY <1>4 DEF Fence, ending
  <2> QED BY <1>1, <2>1, <2>2 DEF OrderInv, SentInOrder, OneWrite, TerminalCloses, Closing
<1>5. CASE Write
  <2>1. UNCHANGED <<sent, sealed, closed, abandoned, finished, buffer>> /\ seq' = seq + 1 /\ writing = {}
    BY <1>5 DEF Write, queue, ending
  <2>2. writing' = {} \/ (sealed # "fenced" /\ writing' = {Event(seq, Head(asks))})
    BY <1>5, <2>1 DEF Write
  <2>3. Event(seq, Head(asks)).n = seq
    BY DEF Event
  <2>4. SentInOrder'
    BY <1>1, <2>1, LaterNumber DEF OrderInv, SentInOrder
  <2>5. OneWrite'
    BY <1>1, <2>1, <2>2, <2>3 DEF OrderInv, SentInOrder, OneWrite
  <2> QED BY <2>1, <2>2, <2>4, <2>5 DEF OrderInv, TerminalCloses, Closing
<1> QED BY <1>2, <1>3, <1>4, <1>5 DEF Reader

(* A reader that left gets nothing any more. *)
LEMMA PrefixStep ==
    ASSUME StreamInv, StreamInv', OrderInv, [Next]_vars
    PROVE  ReadPrefix'
<1>1. CASE ~ abandoned'
  <2>1. Joined(sent, received, buffer)' /\ QueueOK'
    BY <1>1, InvParts, PTL
  <2> QED BY <2>1 DEF Joined, QueueOK, ReadPrefix
<1>2. CASE abandoned'
  <2>1. UNCHANGED <<sent, received>>
    <3>1. CASE abandoned
      <4>1. closed /\ ~ listening /\ buffer = <<>>
        BY <3>1, InvParts DEF OrderInv, Closing, Ends
      <4> QED BY <4>1 DEF Next, Reader, Writer, Next1, NextWaits, NextDone, Return, Write, Acknowledge,
           Deliver, Record, Fence, WhenDrained, Emit, Skip, EmitDurable, vars, queue
    <3>2. CASE ~ abandoned
      <4>1. Return
        BY <1>2, <3>2 DEF Next, Reader, Writer, Next1, NextWaits, NextDone, Write, Acknowledge,
           Deliver, Close, Fence, WhenDrained, Emit, Skip, EmitDurable, vars, ending
      <4> QED BY <4>1 DEF Return
    <3> QED BY <3>1, <3>2
  <2> QED BY <2>1 DEF OrderInv, ReadPrefix
<1> QED BY <1>1, <1>2

-----------------------------------------------------------------------------
(* The invariant and what follows from it.                                   *)

(* OrderInv is an invariant of the event path. *)
THEOREM OrderInvariant == Spec => []OrderInv
<1>1. Init => OrderInv
  BY DEF Init, OrderInv, ReadPrefix, SentInOrder, OneWrite, TerminalCloses, Closing
<1>2. StreamInv /\ StreamInv' /\ OrderInv /\ [Next]_vars => OrderInv'
  <2> SUFFICES ASSUME StreamInv, StreamInv', OrderInv, [Next]_vars PROVE OrderInv'
    OBVIOUS
  <2>1. ReadPrefix'
    BY PrefixStep
  <2>2. SentInOrder' /\ OneWrite' /\ TerminalCloses' /\ Closing'
    BY TokenStep, AcknowledgeStep, OtherStep DEF Next, Writer
  <2> QED BY <2>1, <2>2 DEF OrderInv
<1> QED BY <1>1, <1>2, StreamInvariant, PTL DEF Spec

(* Durable events are read in the order of their numbers, whatever is streamed
   between them (#deliveryTail), and a reader that stays to the end of a run
   that was not fenced reads the terminal last, and only there
   (createRunHandle). *)
THEOREM OrderedReading == Spec => []ReadInOrder
<1>1. StreamInv /\ OrderInv => TerminalIsLast
  <2> SUFFICES ASSUME StreamInv, OrderInv PROVE TerminalIsLast
    OBVIOUS
  <2>1. received \in Seq(Events) /\ sent \in Seq(Events)
    BY InvParts DEF QueueOK
  <2>2. \A i \in 1..Len(received) : received[i].kind = "terminal" => i = Len(received)
    BY <2>1 DEF OrderInv, ReadPrefix, TerminalCloses
  <2>3. ASSUME finished, ~ abandoned, sealed \in {"written", "failed"}
        PROVE  received # <<>> /\ received[Len(received)].kind = "terminal"
    <3>1. buffer = <<>> /\ sent # <<>> /\ sent[Len(sent)].kind = "terminal"
      BY <2>3 DEF OrderInv, Closing
    <3>2. Len(received) = Len(sent)
      BY <2>1, <2>3, <3>1 DEF StreamInv, Lossless
    <3> QED BY <2>1, <3>1, <3>2 DEF OrderInv, ReadPrefix
  <2> QED BY <2>2, <2>3 DEF TerminalIsLast
<1>2. StreamInv /\ OrderInv => DurableInOrder
  <2> SUFFICES ASSUME StreamInv, OrderInv PROVE DurableInOrder
    OBVIOUS
  <2>1. Len(received) \in Nat /\ Len(sent) \in Nat
    BY InvParts DEF QueueOK
  <2>2. \A i \in 1..Len(received) : i \in 1..Len(sent) /\ received[i] = sent[i]
    BY <2>1 DEF OrderInv, ReadPrefix
  <2> QED BY <2>2 DEF OrderInv, SentInOrder, DurableInOrder
<1> QED BY <1>1, <1>2, StreamInvariant, OrderInvariant, PTL DEF ReadInOrder

=============================================================================

------------------------- MODULE RunSchedulerProofs -------------------------
(***************************************************************************)
(* What holds of the scheduler for every run plan, every limit and every    *)
(* number of faults and pauses.                                             *)
(***************************************************************************)
EXTENDS RunScheduler, FiniteSetTheorems, WellFoundedInduction, TLAPS

-----------------------------------------------------------------------------
(* Induction, from the least member of a set of numbers.                     *)

LEMMA Least ==
    ASSUME NEW T, T \subseteq Nat, T # {}
    PROVE  \E x \in T : \A y \in T : x <= y
<1> DEFINE R == OpToRel(<, Nat)
<1>1. \A x, y \in Nat : y < x => <<y, x>> \in R
  BY DEF OpToRel
<1> HIDE DEF R
<1>2. IsWellFoundedOn(R, Nat)
  BY NatLessThanWellFounded DEF R
<1>3. PICK x \in T : \A y \in T : ~ (<<y, x>> \in R)
  BY <1>2, WFMin
<1>4. ASSUME NEW y \in T PROVE x <= y
  <2>1. x \in Nat /\ y \in Nat
    OBVIOUS
  <2>2. ~ (y < x)
    BY <1>1, <1>3, <2>1
  <2> QED BY <2>1, <2>2
<1> QED BY <1>4

LEMMA SetInduction ==
    ASSUME NEW S, 0 \in S, \A n \in Nat : n \in S => n + 1 \in S
    PROVE  Nat \subseteq S
<1> SUFFICES ASSUME Nat \ S # {} PROVE FALSE
  OBVIOUS
<1>1. PICK x \in Nat \ S : \A y \in Nat \ S : x <= y
  BY Least
<1>2. x # 0 /\ x - 1 \in Nat
  BY <1>1
<1>3. x - 1 \in S
  <2>1. ~ (x <= x - 1)
    BY <1>2
  <2> QED BY <1>1, <1>2, <2>1
<1>4. x - 1 + 1 \in S
  BY <1>2, <1>3
<1>5. x - 1 + 1 = x
  BY <1>1, <1>2
<1> QED BY <1>1, <1>4, <1>5

-----------------------------------------------------------------------------
(* The batch that a pass claims.                                             *)

LEMMA PlanOrder ==
    /\ Len(Order) \in Nat /\ \A i \in 1..Len(Order) : Order[i] \in Node
    /\ \A n \in Node : \E i \in 1..Len(Order) : Order[i] = n
    /\ \A i, j \in 1..Len(Order) : Order[i] = Order[j] => i = j
<1>1. /\ Order \in Seq(Node) /\ Len(Order) \in Nat /\ Len(Order) = Cardinality(Node) /\ IsFiniteSet(Node)
      /\ \A n \in Node : \E i \in 1..Len(Order) : Order[i] = n
  BY SchedulerConstants
<1>2. Order \in Surjection(1..Len(Order), Node)
  BY <1>1 DEF Surjection
<1>3. IsFiniteSet(1..Len(Order)) /\ Cardinality(1..Len(Order)) = Len(Order)
  BY <1>1, FS_Interval
<1>4. Order \in Injection(1..Len(Order), Node)
  BY <1>1, <1>2, <1>3, FS_SurjSameCardinalityImpliesInj
<1>5. \A i, j \in 1..Len(Order) : Order[i] = Order[j] => i = j
  <2> DEFINE N == 1..Len(Order)
  <2>1. Order \in {M \in [N -> Node] : \A i, j \in N : M[i] = M[j] => i = j}
    BY <1>4 DEF Injection, IsInjective
  <2> HIDE DEF N
  <2>2. \A i, j \in N : Order[i] = Order[j] => i = j
    BY <2>1
  <2> QED BY <2>2 DEF N
<1> QED BY <1>1, <1>5

Looked(claimed, i) ==
    IF Len(claimed) < Room /\ Claimable(Order[i]) THEN Append(claimed, Order[i]) ELSE claimed

(* A batch is defined whatever the plan is. *)
LEMMA BatchDefined ==
    Batch = [i \in 0..Len(Order) |-> IF i = 0 THEN <<>> ELSE Looked(Batch[i - 1], i)]
<1> DEFINE Built(f, n) == \A i \in 0..n : f[i] = IF i = 0 THEN <<>> ELSE Looked(f[i - 1], i)
           S == {n \in Nat : \E f : Built(f, n)}
<1>1. 0 \in S
  <2>1. Built([i \in 0..0 |-> <<>>], 0)
    OBVIOUS
  <2> QED BY <2>1
<1>2. ASSUME NEW n \in Nat, n \in S PROVE n + 1 \in S
  <2>1. PICK f : Built(f, n)
    BY <1>2
  <2> DEFINE g == [i \in 0..(n + 1) |-> IF i = n + 1 THEN Looked(f[n], n + 1) ELSE f[i]]
  <2>2. ASSUME NEW i \in 0..(n + 1) PROVE g[i] = IF i = 0 THEN <<>> ELSE Looked(g[i - 1], i)
    <3>1. CASE i = n + 1
      <4>1. g[i - 1] = f[n] /\ g[i] = Looked(f[n], n + 1)
        BY <3>1
      <4> QED BY <3>1, <4>1
    <3>2. CASE i \in 1..n
      <4>1. g[i] = f[i] /\ g[i - 1] = f[i - 1]
        BY <3>2
      <4>2. f[i] = Looked(f[i - 1], i)
        BY <2>1, <3>2
      <4> QED BY <3>2, <4>1, <4>2
    <3>3. CASE i = 0
      BY <2>1, <3>3
    <3> QED BY <3>1, <3>2, <3>3
  <2>3. Built(g, n + 1)
    BY <2>2
  <2> HIDE DEF g, Built
  <2> QED BY <2>3
<1>3. Len(Order) \in S
  <2> HIDE DEF S
  <2> QED BY <1>1, <1>2, SetInduction, PlanOrder
<1>4. PICK f : Built(f, Len(Order))
  BY <1>3
<1> DEFINE h == [i \in 0..Len(Order) |-> f[i]]
<1>5. h = [i \in 0..Len(Order) |-> IF i = 0 THEN <<>> ELSE Looked(h[i - 1], i)]
  <2>1. ASSUME NEW i \in 0..Len(Order)
        PROVE  f[i] = IF i = 0 THEN <<>> ELSE Looked(h[i - 1], i)
    <3>1. CASE i = 0
      BY <1>4, <3>1
    <3>2. CASE i # 0
      <4>1. i - 1 \in 0..Len(Order)
        BY <3>2, PlanOrder
      <4>2. h[i - 1] = f[i - 1]
        BY <4>1
      <4> QED BY <1>4, <3>2, <4>2
    <3> QED BY <3>1, <3>2
  <2> QED BY <2>1
<1> HIDE DEF h
<1> DEFINE IsBatch(b) ==
        b = [i \in 0..Len(Order) |->
                IF i = 0 THEN <<>>
                ELSE LET claimed == b[i - 1]
                     IN  IF Len(claimed) < Room /\ Claimable(Order[i]) THEN Append(claimed, Order[i]) ELSE claimed]
<1>6. IsBatch(h)
  BY <1>5 DEF Looked
<1>7. IsBatch(CHOOSE b : IsBatch(b))
  <2> HIDE DEF IsBatch
  <2> QED BY <1>6
<1>8. Batch = CHOOSE b : IsBatch(b)
  BY DEF Batch
<1>9. IsBatch(Batch)
  <2> HIDE DEF IsBatch
  <2> QED BY <1>7, <1>8
<1> QED BY <1>9 DEF Looked

(* How many vertices run, and how many more may be claimed. *)
LEMMA RoomIsInt ==
    ASSUME TypeOK
    PROVE  Room \in Int /\ IsFiniteSet(Running) /\ Cardinality(Running) \in Nat
<1>1. IsFiniteSet(Running) /\ Cardinality(Running) \in Nat
  <2>1. Running \subseteq Node /\ IsFiniteSet(Node)
    BY SchedulerConstants DEF Running
  <2> QED BY <2>1, FS_Subset, FS_CardinalityType
<1> QED BY <1>1, SchedulerConstants DEF Room, TypeOK

(* What #claimReady claims: vertices that may be, each of them once, as many as
   there is room for or all there are. *)
LEMMA BatchFacts ==
    ASSUME TypeOK
    PROVE  /\ Ready \in Seq(Node) /\ Len(Ready) \in Nat
           /\ \A k \in 1..Len(Ready) : Ready[k] \in Node /\ Claimable(Ready[k])
           /\ \A k, l \in 1..Len(Ready) : Ready[k] = Ready[l] => k = l
           /\ Ready # <<>> => Len(Ready) <= Room
           /\ Room <= Len(Ready) \/ \A n \in Node : Claimable(n) => \E k \in 1..Len(Ready) : Ready[k] = n
<1> DEFINE N == Len(Order)
           Facts(i) ==
             LET b == Batch[i] IN
             /\ b \in Seq(Node)
             /\ \A k \in 1..Len(b) : Claimable(b[k]) /\ \E j \in 1..i : Order[j] = b[k]
             /\ \A k, l \in 1..Len(b) : b[k] = b[l] => k = l
             /\ b # <<>> => Len(b) <= Room
             /\ Room <= Len(b) \/ \A j \in 1..i : Claimable(Order[j]) => \E k \in 1..Len(b) : b[k] = Order[j]
           S == {i \in Nat : i <= N => Facts(i)}
<1>1. /\ N \in Nat /\ \A i \in 1..N : Order[i] \in Node
      /\ \A i, j \in 1..N : Order[i] = Order[j] => i = j
  BY PlanOrder
<1>2. Batch[0] = <<>>
  BY <1>1, BatchDefined
<1>3. \A i \in 1..N : Batch[i] = Looked(Batch[i - 1], i)
  BY <1>1, BatchDefined
<1>4. Room \in Int
  BY RoomIsInt
<1> HIDE DEF N
<1>5. 0 \in S
  <2>1. Facts(0)
    <3> DEFINE b == Batch[0]
    <3>1. b = <<>> /\ b \in Seq(Node) /\ Len(b) = 0 /\ 1..0 = {}
      BY <1>2
    <3> HIDE DEF b
    <3> QED BY <3>1 DEF b
  <2> HIDE DEF Facts
  <2> QED BY <2>1
<1>6. ASSUME NEW i \in Nat, i \in S, i + 1 <= N PROVE Facts(i + 1)
  <2> DEFINE b == Batch[i]
             n == Order[i + 1]
             c == Batch[i + 1]
  <2>1. Facts(i) /\ i + 1 \in 1..N
    <3> HIDE DEF Facts
    <3> QED BY <1>1, <1>6
  <2>2. c = IF Len(b) < Room /\ Claimable(n) THEN Append(b, n) ELSE b
    <3>1. c = Looked(Batch[i + 1 - 1], i + 1) /\ i + 1 - 1 = i
      BY <1>3, <2>1
    <3> QED BY <3>1 DEF Looked
  <2>3. n \in Node /\ b \in Seq(Node) /\ Len(b) \in Nat
    BY <1>1, <2>1
  <2>4. /\ \A k \in 1..Len(b) : Claimable(b[k]) /\ \E j \in 1..i : Order[j] = b[k]
        /\ \A k, l \in 1..Len(b) : b[k] = b[l] => k = l
        /\ b # <<>> => Len(b) <= Room
        /\ Room <= Len(b) \/ \A j \in 1..i : Claimable(Order[j]) => \E k \in 1..Len(b) : b[k] = Order[j]
    BY <2>1
  <2>5. \A k \in 1..Len(b) : Claimable(b[k]) /\ \E j \in 1..(i + 1) : Order[j] = b[k]
    <3> SUFFICES ASSUME NEW k \in 1..Len(b) PROVE Claimable(b[k]) /\ \E j \in 1..(i + 1) : Order[j] = b[k]
      OBVIOUS
    <3>1. PICK j \in 1..i : Order[j] = b[k]
      BY <2>4
    <3>2. j \in 1..(i + 1)
      BY <1>6
    <3> QED BY <2>4, <3>1, <3>2
  <2> HIDE DEF b, n, c
  <2>6. CASE Len(b) < Room /\ Claimable(n)
    <3>1. /\ c \in Seq(Node) /\ Len(c) = Len(b) + 1 /\ c[Len(b) + 1] = n
          /\ \A k \in 1..Len(b) : c[k] = b[k]
          /\ \A k \in 1..Len(c) : k \in 1..Len(b) \/ k = Len(b) + 1
      BY <2>2, <2>3, <2>6
    <3>2. \A k \in 1..Len(b) : b[k] # n
      <4> SUFFICES ASSUME NEW k \in 1..Len(b), b[k] = n PROVE FALSE
        OBVIOUS
      <4>1. PICK j \in 1..i : Order[j] = b[k]
        BY <2>4
      <4>2. j \in 1..N /\ i + 1 \in 1..N /\ j # i + 1
        BY <1>1, <1>6
      <4> QED BY <1>1, <4>1, <4>2 DEF n
    <3>3. \A k \in 1..Len(c) : Claimable(c[k]) /\ \E j \in 1..(i + 1) : Order[j] = c[k]
      <4>1. n = Order[i + 1] /\ i + 1 \in 1..(i + 1)
        BY <1>6 DEF n
      <4> QED BY <2>6, <2>5, <3>1, <4>1
    <3>4. \A k, l \in 1..Len(c) : c[k] = c[l] => k = l
      <4> SUFFICES ASSUME NEW k \in 1..Len(c), NEW l \in 1..Len(c), c[k] = c[l] PROVE k = l
        OBVIOUS
      <4>1. CASE k \in 1..Len(b) /\ l \in 1..Len(b)
        BY <2>4, <3>1, <4>1
      <4>2. CASE k = Len(b) + 1 \/ l = Len(b) + 1
        BY <3>1, <3>2, <4>2
      <4> QED BY <3>1, <4>1, <4>2
    <3>5. Len(c) <= Room
      BY <1>4, <2>3, <2>6, <3>1
    <3>6. ASSUME ~ Room <= Len(c), NEW j \in 1..(i + 1), Claimable(Order[j])
          PROVE  \E k \in 1..Len(c) : c[k] = Order[j]
      <4>1. CASE j = i + 1
        <5>1. Order[j] = n /\ Len(c) \in 1..Len(c) /\ Len(c) = Len(b) + 1
          BY <2>3, <3>1, <4>1 DEF n
        <5> QED BY <3>1, <5>1
      <4>2. CASE j # i + 1
        <5>1. j \in 1..i /\ ~ Room <= Len(b)
          BY <1>4, <1>6, <2>3, <2>6, <3>6, <4>2
        <5>2. \E k \in 1..Len(b) : b[k] = Order[j]
          BY <2>4, <3>6, <5>1
        <5> QED BY <2>3, <3>1, <5>2
      <4> QED BY <4>1, <4>2
    <3> QED BY <3>1, <3>3, <3>4, <3>5, <3>6 DEF c
  <2>7. CASE ~ (Len(b) < Room /\ Claimable(n))
    <3>1. c = b
      BY <2>2, <2>7
    <3>2. Room <= Len(b) \/ \A j \in 1..(i + 1) : Claimable(Order[j]) => \E k \in 1..Len(b) : b[k] = Order[j]
      <4>1. CASE Room <= Len(b)
        BY <4>1
      <4>2. CASE ~ Room <= Len(b)
        <5>1. ~ Claimable(n) /\ \A j \in 1..i : Claimable(Order[j]) => \E k \in 1..Len(b) : b[k] = Order[j]
          BY <1>4, <2>3, <2>7, <2>4, <4>2
        <5>2. \A j \in 1..(i + 1) : j \in 1..i \/ j = i + 1
          BY <1>6
        <5> QED BY <5>1, <5>2 DEF n
      <4> QED BY <4>1, <4>2
    <3> QED BY <2>3, <2>4, <2>5, <3>1, <3>2 DEF c
  <2> QED BY <2>6, <2>7
<1>7. Facts(N)
  <2> HIDE DEF Facts
  <2>1. ASSUME NEW i \in Nat, i \in S PROVE i + 1 \in S
    BY <1>6, <2>1
  <2>2. Nat \subseteq S
    <3> HIDE DEF S
    <3> QED BY <1>5, <2>1, SetInduction
  <2> QED BY <1>1, <2>2
<1>8. \A n \in Node : \E i \in 1..N : Order[i] = n
  BY PlanOrder DEF N
<1>9. Ready = Batch[N]
  BY DEF Ready, N
<1> HIDE DEF N
<1>10. Ready \in Seq(Node) /\ Len(Ready) \in Nat
  BY <1>7, <1>9
<1>11. \A k \in 1..Len(Ready) : Ready[k] \in Node /\ Claimable(Ready[k])
  BY <1>7, <1>9
<1>12. Room <= Len(Ready) \/ \A n \in Node : Claimable(n) => \E k \in 1..Len(Ready) : Ready[k] = n
  <2> SUFFICES ASSUME ~ Room <= Len(Ready), NEW n \in Node, Claimable(n)
               PROVE  \E k \in 1..Len(Ready) : Ready[k] = n
    OBVIOUS
  <2>1. PICK j \in 1..N : Order[j] = n
    BY <1>8
  <2>2. \E k \in 1..Len(Batch[N]) : Batch[N][k] = Order[j]
    BY <1>7, <1>9, <2>1
  <2> QED BY <1>9, <2>1, <2>2
<1> QED BY <1>7, <1>9, <1>10, <1>11, <1>12

-----------------------------------------------------------------------------
(* The steps.                                                                *)

(* Skips are written before a pass decides anything. *)
SkipsFound ==
    /\ loop = "awake" /\ terminal = "none" /\ SkipSet # {}
    /\ status' = [n \in Node |-> IF n \in SkipSet THEN "skipped" ELSE status[n]]
    /\ deadline' = deadline \ SkipSet
    /\ loop' = "skipping" /\ rerun' = FALSE
    /\ UNCHANGED <<chosen, claims, starting, task, attempt, landing, dispatches, stop, gates, mjobs>>
    /\ UNCHANGED <<pauseEpisode, timeoutArmed, ends, faults>>

AtPass == loop \in {"awake", "skipping"} /\ terminal = "none"

LEMMA StepCases ==
    ASSUME TypeOK, [Next]_vars
    PROVE  \/ UNCHANGED vars
           \/ SkipsFound
           \/ \E r \in BOOLEAN : AtPass /\ (Conclude(r) \/ CeilingReached(r) \/ Claim(r) \/ Idle(r))
           \/ PauseWritten \/ WaitAborted \/ Started \/ Refused \/ Unwind \/ EndLoop
           \/ Start \/ WaitFailed \/ AppendFailed \/ RequestCancel \/ RunTimeout
           \/ GraceElapsed \/ GraceSwept \/ PublishTerminal
           \/ \E n \in Node : GraceAbandons(n) \/ NodeDeadline(n) \/ GateDecision(n) \/ GateTimeout(n)
           \/ \E n \in Node : RespondLate(n) \/ RespondCompleted(n) \/ RespondFailed(n)
           \/ \E n \in Node : RespondRetryable(n) \/ RespondPaused(n) \/ RespondMediaJob(n)
           \/ \E n \in Node : BackoffOver(n) \/ Restarted(n) \/ PauseAcked(n) \/ PausePublished(n)
           \/ \E n \in Node : DecisionChecked(n) \/ DecisionPinned(n) \/ BudgetDecided(n)
           \/ \E n \in Node : MediaSubmitted(n) \/ PollFailed(n) \/ PollAborted(n) \/ PollDone(n) \/ MediaPinned(n)
           \/ \E n \in Node, v \in {"approve", "reject"} : BudgetDecision(n, v)
           \/ \E c \in callers : BudgetPrepared(c)
           \/ \E n \in Node \cup {NoNode} : Landed(n)
<1>1. CASE Pass
  <2>1. CASE SkipSet = {} /\ Evaluate(FALSE)
    BY <1>1, <2>1 DEF Pass, AtPass, Evaluate
  <2>2. CASE SkipSet # {}
    BY <1>1, <2>2 DEF Pass, SkipsFound
  <2> QED BY <1>1, <2>1, <2>2 DEF Pass
<1>2. CASE SkipsWritten
  <2>1. rerun \in BOOLEAN /\ AtPass /\ Evaluate(rerun)
    BY <1>2 DEF SkipsWritten, AtPass, TypeOK
  <2> QED BY <2>1 DEF Evaluate
<1>3. CASE LoopStep /\ ~ Pass /\ ~ SkipsWritten
  BY <1>3 DEF LoopStep
<1>4. CASE Elsewhere
  BY <1>4 DEF Elsewhere, GraceStep, Respond, Continue
<1> QED BY <1>1, <1>2, <1>3, <1>4 DEF Next

-----------------------------------------------------------------------------
(* The invariant.                                                            *)

(* Where the loop stands tells what it has claimed and not yet started. *)
LoopShape ==
    /\ claims # <<>> => loop \in {"waiting", "starting", "refusing"}
    /\ loop = "waiting" => claims # <<>>
    /\ starting # NoNode <=> loop \in {"starting", "refusing"}
    /\ loop = "idle" /\ terminal = "none" => ~ rerun

(* Each vertex is claimed once, and started once. *)
Distinct ==
    /\ \A i, j \in DOMAIN claims : claims[i] = claims[j] => i = j
    /\ loop = "starting" => starting \notin Unstarted

(* A vertex that is claimed or being started waits for nothing else. *)
Claimed ==
    \A n \in Node : n \in Unstarted \/ n = starting =>
        /\ task[n] = "none" /\ status[n] \in {"running", "failed"}
        /\ gate[n] = "none" /\ decide[n] = "none" /\ n \notin jobs /\ media[n] = "none"
        /\ loop = "refusing" /\ n = starting => status[n] = "failed"

(* A dispatch is awaited for a vertex that runs, or that failed meanwhile. *)
Working ==
    \A n \in Node : task[n] # "none" =>
        /\ status[n] \in {"running", "failed"}
        /\ gate[n] = "none" /\ decide[n] = "none" /\ n \notin jobs /\ media[n] = "none"

(* A gate or a media job parks its vertex, and one of them only. *)
Parking ==
    \A n \in Node :
        /\ gate[n] # "none" \/ n \in jobs \/ media[n] # "none" => status[n] \in {"paused", "failed"}
        /\ n \in jobs \/ media[n] # "none" => gate[n] = "none" /\ (terminal = "none" => decide[n] = "none")
        /\ media[n] = "pinning" => n \notin jobs

(* Who claimed a gate is deciding it, unless the run was told to stop. *)
Deciding ==
    terminal = "none" => \A n \in Node :
        /\ decide[n] # "none" => gate[n] = "claimed"
        /\ gate[n] = "claimed" /\ decide[n] = "none" => Stopping

(* A media job is polled until the run is aborted. *)
Polled ==
    terminal = "none" /\ ~ aborted => \A n \in jobs : media[n] \in {"submitting", "polling"}

(* A failed vertex stops the run, what stops it aborts it, and nothing else does. *)
Aborts ==
    /\ (\E n \in Node : status[n] = "failed") => cancelling \/ failure # "none"
    /\ cancelling \/ noNewDispatch \/ grace # "off" => aborted
    /\ terminal = "none" => (failure \notin {"none", "stalled"} => aborted)
    /\ terminal = "none" /\ aborted => cancelling \/ failure # "none"
    /\ terminal # "none" => aborted

(* A run that stalled has nothing under way. *)
Stalled ==
    failure = "stalled" /\ terminal = "none" /\ ~ aborted =>
        Running = {} /\ claims = <<>> /\ starting = NoNode /\ \A n \in Node : task[n] = "none"

(* Once the grace window closed, no dispatch is left running. *)
Swept ==
    noNewDispatch /\ terminal = "none" => grace = "sweeping" \/ (grace = "done" /\ Running \subseteq Unstarted)

(* A vertex that runs is claimed, being started, dispatched, or about to be swept. *)
Attended ==
    \A n \in Running : n \in Unstarted \/ n = starting \/ task[n] # "none" \/ noNewDispatch \/ terminal # "none"

(* What completed left nothing behind. *)
Complete ==
    terminal = "completed" =>
        ~ cancelling /\ jobs = {} /\ \A n \in Node : status[n] \in {"completed", "skipped"}

(* What was ever claimed had its turn, and keeps it. *)
Alive(n) == (\A m \in Deps[n] : status[m] \in Settled) /\ HasLiveEdge(n)
TurnTaken ==
    \A n \in Node :
        /\ status[n] \in {"running", "paused", "completed", "failed"} \/ n \in deadline => Alive(n)
        /\ status[n] = "skipped" => ~ HasLiveEdge(n) /\ \A m \in Deps[n] : status[m] \in Settled

(* The width counts what is claimed and what runs; the ceiling also what will be
   counted when it starts or its backoff ends. *)
BackingOff == {n \in Running : task[n] = "backoff"}
Width   == Len(claims) + Cardinality(Running \ Unstarted) <= MaxParallel
Counted == dispatches + Len(claims) + Cardinality(BackingOff) <= Ceiling + MaxParallel - 1

(* The loop has nothing to do: it sleeps or is about to, and nobody asked again. *)
Quiet(L) == loop \in L /\ ~ rerun /\ terminal = "none"

Reported ==
    landing # {} \/ \E n \in Node : publishing[n] > 0 \/ media[n] = "submitting"
Taken ==
    \/ MaxParallel <= Cardinality(Running) \/ Ceiling <= dispatches + Len(claims)
    \/ ~ \E n \in Node : Claimable(n)
NothingLeft ==
    Quiet({"idle", "pausing", "ending", "waiting", "starting", "refusing"}) /\ ~ Stopping => Reported \/ Taken

(* The vertex will ask for a pass: for sure when the run was told to stop, and
   otherwise unless it rests on a gate or a media job. *)
AsksWhenStopped(n) ==
    \/ task[n] # "none" /\ status[n] = "running"
    \/ publishing[n] > 0 \/ media[n] = "submitting"
    \/ decide[n] \in {"checking", "approving", "rejecting"}
AsksOrRests(n) ==
    \/ task[n] # "none" /\ status[n] = "running"
    \/ publishing[n] > 0 \/ media[n] \in {"submitting", "pinning"} \/ decide[n] # "none"
    \/ pauseEpisode /\ (gate[n] = "open" \/ (n \in jobs /\ media[n] = "polling"))
Wakes ==
    Quiet({"idle", "pausing", "ending"}) =>
        \/ landing # {} \/ grace = "sweeping"
        \/ Stopping /\ \E n \in Node : AsksWhenStopped(n)
        \/ ~ Stopping /\ \E n \in Node : AsksOrRests(n)

(* A start that the grace window overtook will be swept. *)
SweptAtStart == loop = "starting" /\ ~ rerun /\ terminal = "none" /\ noNewDispatch => grace = "sweeping"

SchedulerInv ==
    /\ TypeOK /\ LoopShape /\ Distinct /\ Claimed /\ Working /\ Parking /\ Deciding /\ Polled /\ Aborts /\ Stalled
    /\ Swept /\ Attended /\ Complete /\ TurnTaken /\ Width /\ Counted /\ NothingLeft /\ Wakes /\ SweptAtStart

(* Where nobody is asked for a decision, a run settles only in a pass. *)
Gateless ==
    /\ callers = {} /\ \A n \in Node : gate[n] = "none" /\ (terminal = "none" => decide[n] = "none")
    /\ terminal # "none" => Running = {}

-----------------------------------------------------------------------------
(* Types.                                                                    *)

PassTypes ==
    /\ status \in [Node -> {"pending", "running", "paused"} \cup Settled]
    /\ chosen \in [Node -> SUBSET Node]
    /\ loop \in {"idle", "awake", "skipping", "pausing", "waiting", "starting", "refusing", "ending"}
    /\ rerun \in BOOLEAN
    /\ claims \in Seq(Node)
    /\ starting \in Node \cup {NoNode}
WorkTypes ==
    /\ task \in [Node -> {"none", "executing", "backoff", "restarting"}]
    /\ attempt \in [Node -> Nat]
    /\ dispatches \in Nat
    /\ deadline \subseteq Timed
    /\ landing \subseteq Node \cup {NoNode}
StopTypes ==
    /\ cancelling \in BOOLEAN
    /\ aborted \in BOOLEAN
    /\ noNewDispatch \in BOOLEAN
    /\ failure \in {"none", "node", "cancelled", "internal", "run_timeout", "turn_limit", "stalled",
                     "durability", "effects", "budget_exceeded"}
    /\ grace \in {"off", "armed", "sweeping", "done"}
    /\ terminal \in {"none", "completed", "failed", "cancelled"}
GateTypes ==
    /\ gate \in [Node -> {"none", "open", "claimed"}]
    /\ publishing \in [Node -> Nat]
    /\ acked \subseteq Node
    /\ gateTimer \subseteq Gates
    /\ decide \in [Node -> {"none", "checking", "pinning", "approving", "rejecting"}]
    /\ callers \subseteq Node \X {"approve", "reject"} \X Nat
    /\ pauses \in [Node -> Nat]
RestTypes ==
    /\ jobs \subseteq MediaNodes
    /\ media \in [Node -> {"none", "submitting", "polling", "pinning"}]
    /\ pauseEpisode \in BOOLEAN
    /\ timeoutArmed \in BOOLEAN
    /\ published \in {"none", "completed", "failed", "cancelled"}
    /\ faults \in Nat

(* TypeOK in parts, so that a step only has to look at what it changes. *)
LEMMA Types == TypeOK <=> PassTypes /\ WorkTypes /\ StopTypes /\ GateTypes /\ RestTypes
BY DEF TypeOK, PassTypes, WorkTypes, StopTypes, GateTypes, RestTypes

(* Every step keeps the types: of the loop and the vertices, *)
LEMMA PassTyped ==
    ASSUME TypeOK, LoopShape, [Next]_vars
    PROVE  PassTypes'
<1>0. PassTypes
  BY Types
<1>1. ASSUME UNCHANGED vars \/ RunTimeout \/ GraceElapsed \/ PublishTerminal PROVE PassTypes'
  BY <1>1, <1>0 DEF vars, graph, pass, RunTimeout, GraceElapsed, PublishTerminal, PassTypes, Settled
<1>2. ASSUME SkipsFound PROVE PassTypes'
  BY <1>2, <1>0 DEF SkipsFound, PassTypes, Settled
<1>3. ASSUME NEW r \in BOOLEAN, AtPass, Conclude(r) PROVE PassTypes'
  BY <1>3, <1>0 DEF Conclude, GoingOn, EndPass, graph, AllSettled, AtPass, PassTypes, Settled
<1>4. ASSUME NEW r \in BOOLEAN, AtPass, CeilingReached(r) PROVE PassTypes'
  BY <1>4, <1>0 DEF CeilingReached, GoingOn, EndPass, graph, AllSettled, AtPass, PassTypes, Settled
<1>5. ASSUME NEW r \in BOOLEAN, AtPass, Claim(r) PROVE PassTypes'
  BY <1>5, BatchFacts, <1>0 DEF AtPass, Claim, GoingOn, work, PassTypes, Settled
<1>6. ASSUME NEW r \in BOOLEAN, AtPass, Idle(r) PROVE PassTypes'
  BY <1>6, <1>0 DEF Idle, GoingOn, StillBusy, EndPass, graph, AllSettled, AtPass, PassTypes, Settled
<1>7. ASSUME PauseWritten PROVE PassTypes'
  BY <1>7, <1>0 DEF PauseWritten, EndPass, graph, PassTypes, Settled
<1>8. ASSUME WaitAborted PROVE PassTypes'
  BY <1>8, <1>0 DEF WaitAborted, GiveUpClaims, EndPass, Unstarted, PassTypes, Settled
<1>9. ASSUME Started PROVE PassTypes'
  <2>1. UNCHANGED chosen /\ loop' \in {"ending", "refusing", "waiting"} /\ rerun' \in BOOLEAN
    BY <1>9, <1>0 DEF Started, GiveUpClaims, EndPass, PassTypes, Settled
  <2>2. CASE GiveUpClaims
    BY <1>0, <2>1, <2>2 DEF GiveUpClaims, PassTypes, Settled
  <2>3. CASE ~ GiveUpClaims
    <3>1. claims' = claims /\ starting' \in {NoNode, starting}
      BY <1>9, <2>3 DEF Started
    <3>2. status' = status \/ status' = [status EXCEPT ![starting] = "failed"]
      BY <1>9, <2>3 DEF Started, SettleFailed
    <3> QED BY <1>0, <2>1, <3>1, <3>2 DEF PassTypes, Settled
  <2> QED BY <2>2, <2>3
<1>10. ASSUME Refused PROVE PassTypes'
  BY <1>10, <1>0 DEF Refused, EndPass, Unstarted, PassTypes, Settled
<1>11. ASSUME Unwind PROVE PassTypes'
  BY <1>11, <1>0 DEF Unwind, GiveUpClaims, EndPass, Unstarted, PassTypes, Settled
<1>12. ASSUME EndLoop PROVE PassTypes'
  BY <1>12, <1>0 DEF EndLoop, graph, PassTypes, Settled
<1>13. ASSUME Start PROVE PassTypes'
  BY <1>13, <1>0 DEF Start, graph, PassTypes, Settled, LoopShape
<1>14. ASSUME WaitFailed PROVE PassTypes'
  BY <1>14, <1>0 DEF WaitFailed, SettleFailed, PassTypes, Settled, LoopShape
<1>15. ASSUME AppendFailed PROVE PassTypes'
  BY <1>15, <1>0 DEF AppendFailed, AppendUnderWay, Schedule, graph, PassTypes, Settled
<1>16. ASSUME RequestCancel PROVE PassTypes'
  BY <1>16, <1>0 DEF RequestCancel, Schedule, graph, PassTypes, Settled
<1>17. ASSUME GraceSwept PROVE PassTypes'
  BY <1>17, <1>0 DEF GraceSwept, Abandonable, Schedule, graph, Unstarted, PassTypes, Settled
<1>18. ASSUME NEW n \in Node, GraceAbandons(n) PROVE PassTypes'
  BY <1>18, <1>0 DEF GraceAbandons, Abandonable, SettleFailed, pass, Unstarted, PassTypes, Settled
<1>19. ASSUME NEW n \in Node, NodeDeadline(n) PROVE PassTypes'
  BY <1>19, <1>0 DEF NodeDeadline, OpenForOutcome, SettleFailed, pass, PassTypes, Settled
<1>20. ASSUME NEW n \in Node,
              GateDecision(n) \/ RespondLate(n) \/ RespondRetryable(n) \/ PauseAcked(n) \/
              DecisionChecked(n) \/ PollAborted(n)
       PROVE  PassTypes'
  BY <1>20, <1>0 DEF GateDecision, graph, pass, RespondLate, RespondRetryable, PauseAcked, DecisionChecked,
        PollAborted, PassTypes, Settled
<1>21. ASSUME NEW n \in Node, GateTimeout(n) PROVE PassTypes'
  BY <1>21, <1>0 DEF GateTimeout, SettleFailed, pass, PassTypes, Settled
<1>22. ASSUME NEW n \in Node, RespondCompleted(n) PROVE PassTypes'
  BY <1>22, <1>0 DEF RespondCompleted, OpenForOutcome, pass, PassTypes, Settled, Succ
<1>23. ASSUME NEW n \in Node, RespondFailed(n) PROVE PassTypes'
  BY <1>23, <1>0 DEF RespondFailed, OpenForOutcome, SettleFailed, pass, PassTypes, Settled
<1>24. ASSUME NEW n \in Node, RespondPaused(n) PROVE PassTypes'
  BY <1>24, <1>0 DEF RespondPaused, OpenForOutcome, pass, PassTypes, Settled
<1>25. ASSUME NEW n \in Node, RespondMediaJob(n) PROVE PassTypes'
  BY <1>25, <1>0 DEF RespondMediaJob, OpenForOutcome, pass, PassTypes, Settled
<1>26. ASSUME NEW n \in Node, BackoffOver(n) PROVE PassTypes'
  BY <1>26, <1>0 DEF BackoffOver, OpenForOutcome, SettleFailed, pass, PassTypes, Settled
<1>27. ASSUME NEW n \in Node, Restarted(n) PROVE PassTypes'
  BY <1>27, <1>0 DEF Restarted, SettleFailed, pass, PassTypes, Settled
<1>28. ASSUME NEW n \in Node, PausePublished(n) PROVE PassTypes'
  BY <1>28, <1>0 DEF PausePublished, Schedule, graph, PassTypes, Settled
<1>29. ASSUME NEW n \in Node, DecisionPinned(n) PROVE PassTypes'
  BY <1>29, <1>0 DEF DecisionPinned, Schedule, PassTypes, Settled
<1>30. ASSUME NEW n \in Node, BudgetDecided(n) PROVE PassTypes'
  BY <1>30, <1>0 DEF BudgetDecided, Schedule, PassTypes, Settled
<1>31. ASSUME NEW n \in Node, MediaSubmitted(n) PROVE PassTypes'
  BY <1>31, <1>0 DEF MediaSubmitted, Schedule, graph, PassTypes, Settled
<1>32. ASSUME NEW n \in Node, PollFailed(n) PROVE PassTypes'
  BY <1>32, <1>0 DEF PollFailed, OpenForOutcome, SettleFailed, pass, PassTypes, Settled
<1>33. ASSUME NEW n \in Node, PollDone(n) PROVE PassTypes'
  BY <1>33, <1>0 DEF PollDone, graph, pass, PassTypes, Settled
<1>34. ASSUME NEW n \in Node, MediaPinned(n) PROVE PassTypes'
  BY <1>34, <1>0 DEF MediaPinned, OpenForOutcome, SettleFailed, pass, PassTypes, Settled
<1>35. ASSUME NEW n \in Node, NEW v \in {"approve", "reject"}, BudgetDecision(n, v) PROVE PassTypes'
  BY <1>35, <1>0 DEF BudgetDecision, graph, pass, PassTypes, Settled
<1>36. ASSUME NEW c \in callers, BudgetPrepared(c) PROVE PassTypes'
  BY <1>36, <1>0 DEF BudgetPrepared, graph, pass, PassTypes, Settled
<1>37. ASSUME NEW n \in Node \cup {NoNode}, Landed(n) PROVE PassTypes'
  BY <1>37, <1>0 DEF Landed, Schedule, graph, PassTypes, Settled
<1> QED BY <1>1, <1>2, <1>3, <1>4, <1>5, <1>6, <1>7, <1>8, <1>9, <1>10, <1>11, <1>12, <1>13, <1>14, <1>15,
        <1>16, <1>17, <1>18, <1>19, <1>20, <1>21, <1>22, <1>23, <1>24, <1>25, <1>26, <1>27, <1>28, <1>29,
        <1>30, <1>31, <1>32, <1>33, <1>34, <1>35, <1>36, <1>37, StepCases

(* of the dispatches, *)
LEMMA WorkTyped ==
    ASSUME TypeOK, LoopShape, [Next]_vars
    PROVE  WorkTypes'
<1>0. WorkTypes
  BY Types
<1>1. ASSUME UNCHANGED vars \/ PauseWritten \/ WaitAborted \/ Refused \/ Unwind \/ EndLoop PROVE WorkTypes'
  BY <1>1, <1>0 DEF vars, work, PauseWritten, WaitAborted, Refused, Unwind, EndLoop, WorkTypes
<1>2. ASSUME SkipsFound PROVE WorkTypes'
  BY <1>2, <1>0 DEF SkipsFound, WorkTypes
<1>3. ASSUME NEW r \in BOOLEAN, AtPass, Conclude(r) PROVE WorkTypes'
  BY <1>3, <1>0 DEF Conclude, Settle, AtPass, WorkTypes
<1>4. ASSUME NEW r \in BOOLEAN, AtPass /\ (CeilingReached(r) \/ Claim(r) \/ Idle(r)) PROVE WorkTypes'
  BY <1>4, <1>0 DEF CeilingReached, work, Claim, Idle, WorkTypes
<1>5. ASSUME Started PROVE WorkTypes'
  BY <1>5, <1>0 DEF Started, ArmNodeDeadline, WorkTypes
<1>6. ASSUME Start PROVE WorkTypes'
  <2>1. Head(claims) \in Node
    BY <1>6 DEF Start, TypeOK, LoopShape
  <2> QED BY <1>6, <1>0, <2>1 DEF Start, WorkTypes
<1>7. ASSUME WaitFailed \/ AppendFailed \/ RequestCancel \/ GraceSwept \/ PublishTerminal PROVE WorkTypes'
  BY <1>7, <1>0 DEF WaitFailed, work, AppendFailed, RequestCancel, GraceSwept, PublishTerminal, WorkTypes
<1>8. ASSUME RunTimeout PROVE WorkTypes'
  BY <1>8, <1>0 DEF RunTimeout, Land, WorkTypes
<1>9. ASSUME GraceElapsed PROVE WorkTypes'
  BY <1>9, <1>0 DEF GraceElapsed, WorkTypes
<1>10. ASSUME NEW n \in Node,
              GraceAbandons(n) \/ GateDecision(n) \/ PauseAcked(n) \/ PausePublished(n) \/
              MediaSubmitted(n) \/ PollAborted(n)
       PROVE  WorkTypes'
  BY <1>10, <1>0 DEF GraceAbandons, work, GateDecision, PauseAcked, PausePublished, MediaSubmitted, PollAborted,
        WorkTypes
<1>11. ASSUME NEW n \in Node, NodeDeadline(n) PROVE WorkTypes'
  BY <1>11, <1>0 DEF NodeDeadline, Land, WorkTypes
<1>12. ASSUME NEW n \in Node, GateTimeout(n) PROVE WorkTypes'
  BY <1>12, <1>0 DEF GateTimeout, Land, WorkTypes
<1>13. ASSUME NEW n \in Node, RespondLate(n) PROVE WorkTypes'
  BY <1>13, <1>0 DEF RespondLate, Executing, Finish, WorkTypes
<1>14. ASSUME NEW n \in Node, RespondCompleted(n) PROVE WorkTypes'
  BY <1>14, <1>0 DEF RespondCompleted, Executing, Finish, Land, WorkTypes
<1>15. ASSUME NEW n \in Node, RespondFailed(n) PROVE WorkTypes'
  BY <1>15, <1>0 DEF RespondFailed, Executing, Finish, Land, WorkTypes
<1>16. ASSUME NEW n \in Node, RespondRetryable(n) PROVE WorkTypes'
  BY <1>16, <1>0 DEF RespondRetryable, Executing, ShouldRetry, WorkTypes
<1>17. ASSUME NEW n \in Node, RespondPaused(n) PROVE WorkTypes'
  BY <1>17, <1>0 DEF RespondPaused, Executing, Finish, WorkTypes
<1>18. ASSUME NEW n \in Node, RespondMediaJob(n) PROVE WorkTypes'
  BY <1>18, <1>0 DEF RespondMediaJob, Executing, Finish, WorkTypes
<1>19. ASSUME NEW n \in Node, BackoffOver(n) PROVE WorkTypes'
  BY <1>19, <1>0 DEF BackoffOver, Finish, Land, WorkTypes
<1>20. ASSUME NEW n \in Node, Restarted(n) PROVE WorkTypes'
  BY <1>20, <1>0 DEF Restarted, Finish, Land, WorkTypes
<1>21. ASSUME NEW n \in Node, DecisionChecked(n) PROVE WorkTypes'
  BY <1>21, <1>0 DEF DecisionChecked, ResumeRefused, Settle, WorkTypes
<1>22. ASSUME NEW n \in Node, DecisionPinned(n) PROVE WorkTypes'
  BY <1>22, <1>0 DEF DecisionPinned, Land, WorkTypes
<1>23. ASSUME NEW n \in Node, BudgetDecided(n) PROVE WorkTypes'
  BY <1>23, <1>0 DEF BudgetDecided, WorkTypes
<1>24. ASSUME NEW n \in Node, PollFailed(n) PROVE WorkTypes'
  BY <1>24, <1>0 DEF PollFailed, Land, WorkTypes
<1>25. ASSUME NEW n \in Node, PollDone(n) PROVE WorkTypes'
  BY <1>25, <1>0 DEF PollDone, work, WorkTypes
<1>26. ASSUME NEW n \in Node, MediaPinned(n) PROVE WorkTypes'
  BY <1>26, <1>0 DEF MediaPinned, Land, WorkTypes
<1>27. ASSUME NEW n \in Node, NEW v \in {"approve", "reject"}, BudgetDecision(n, v) PROVE WorkTypes'
  BY <1>27, <1>0 DEF BudgetDecision, work, WorkTypes
<1>28. ASSUME NEW c \in callers, BudgetPrepared(c) PROVE WorkTypes'
  BY <1>28, <1>0 DEF BudgetPrepared, ResumeRefused, Settle, WorkTypes
<1>29. ASSUME NEW n \in Node \cup {NoNode}, Landed(n) PROVE WorkTypes'
  BY <1>29, <1>0 DEF Landed, WorkTypes
<1> QED BY <1>1, <1>2, <1>3, <1>4, <1>5, <1>6, <1>7, <1>8, <1>9, <1>10, <1>11, <1>12, <1>13, <1>14, <1>15,
        <1>16, <1>17, <1>18, <1>19, <1>20, <1>21, <1>22, <1>23, <1>24, <1>25, <1>26, <1>27, <1>28, <1>29,
        StepCases

(* of what stops a run, *)
LEMMA StopTyped ==
    ASSUME TypeOK, [Next]_vars
    PROVE  StopTypes'
<1>0. StopTypes
  BY Types
<1>1. ASSUME UNCHANGED vars \/ SkipsFound \/ PauseWritten \/ WaitAborted \/ Refused \/ Unwind PROVE StopTypes'
  BY <1>1, <1>0 DEF vars, stop, ends, SkipsFound, PauseWritten, WaitAborted, Refused, Unwind, StopTypes
<1>2. ASSUME NEW r \in BOOLEAN, AtPass, Conclude(r) PROVE StopTypes'
  BY <1>2, <1>0 DEF Conclude, GoingOn, Settle, AtPass, StopTypes
<1>3. ASSUME NEW r \in BOOLEAN, AtPass, CeilingReached(r) PROVE StopTypes'
  BY <1>3, <1>0 DEF CeilingReached, GoingOn, Abort, ends, AtPass, StopTypes
<1>4. ASSUME NEW r \in BOOLEAN, AtPass, Claim(r) PROVE StopTypes'
  BY <1>4, <1>0 DEF Claim, stop, ends, StopTypes
<1>5. ASSUME NEW r \in BOOLEAN, AtPass, Idle(r) PROVE StopTypes'
  BY <1>5, <1>0 DEF Idle, GoingOn, ends, AtPass, StopTypes
<1>6. ASSUME Started PROVE StopTypes'
  BY <1>6, <1>0 DEF Started, GiveUpClaims, SettleFailed, ends, FailRun, Abort, StopTypes
<1>7. ASSUME EndLoop \/ Start PROVE StopTypes'
  BY <1>7, <1>0 DEF EndLoop, stop, ends, Start, StopTypes
<1>8. ASSUME WaitFailed PROVE StopTypes'
  BY <1>8, <1>0 DEF WaitFailed, SettleFailed, ends, FailRun, Abort, StopTypes
<1>9. ASSUME AppendFailed PROVE StopTypes'
  BY <1>9, <1>0 DEF AppendFailed, AppendUnderWay, Abort, Schedule, ends, StopTypes
<1>10. ASSUME RequestCancel PROVE StopTypes'
  BY <1>10, <1>0 DEF RequestCancel, Abort, Schedule, ends, StopTypes
<1>11. ASSUME RunTimeout PROVE StopTypes'
  BY <1>11, <1>0 DEF RunTimeout, Abort, ends, StopTypes
<1>12. ASSUME GraceElapsed PROVE StopTypes'
  BY <1>12, <1>0 DEF GraceElapsed, ends, StopTypes
<1>13. ASSUME GraceSwept PROVE StopTypes'
  BY <1>13, <1>0 DEF GraceSwept, Schedule, ends, StopTypes
<1>14. ASSUME PublishTerminal PROVE StopTypes'
  BY <1>14, <1>0 DEF PublishTerminal, StopTypes
<1>15. ASSUME NEW n \in Node, GraceAbandons(n) PROVE StopTypes'
  BY <1>15, <1>0 DEF GraceAbandons, SettleFailed, ends, FailRun, Abort, StopTypes
<1>16. ASSUME NEW n \in Node, NodeDeadline(n) PROVE StopTypes'
  BY <1>16, <1>0 DEF NodeDeadline, SettleFailed, ends, FailRun, Abort, StopTypes
<1>17. ASSUME NEW n \in Node,
              GateDecision(n) \/ RespondLate(n) \/ RespondCompleted(n) \/ RespondRetryable(n) \/
              RespondPaused(n) \/ RespondMediaJob(n)
       PROVE  StopTypes'
  BY <1>17, <1>0 DEF GateDecision, stop, ends, RespondLate, RespondCompleted, RespondRetryable, RespondPaused,
        RespondMediaJob, StopTypes
<1>18. ASSUME NEW n \in Node, GateTimeout(n) PROVE StopTypes'
  BY <1>18, <1>0 DEF GateTimeout, SettleFailed, ends, FailRun, Abort, StopTypes
<1>19. ASSUME NEW n \in Node, RespondFailed(n) PROVE StopTypes'
  BY <1>19, <1>0 DEF RespondFailed, Executing, SettleFailed, ends, FailRun, Abort, StopTypes
<1>20. ASSUME NEW n \in Node, BackoffOver(n) PROVE StopTypes'
  BY <1>20, <1>0 DEF BackoffOver, SettleFailed, ends, FailRun, Abort, StopTypes
<1>21. ASSUME NEW n \in Node, Restarted(n) PROVE StopTypes'
  BY <1>21, <1>0 DEF Restarted, SettleFailed, ends, FailRun, Abort, StopTypes
<1>22. ASSUME NEW n \in Node,
              PauseAcked(n) \/ PausePublished(n) \/ MediaSubmitted(n) \/ PollAborted(n) \/ PollDone(n)
       PROVE  StopTypes'
  BY <1>22, <1>0 DEF PauseAcked, stop, ends, PausePublished, MediaSubmitted, PollAborted, PollDone, StopTypes
<1>23. ASSUME NEW n \in Node, DecisionChecked(n) PROVE StopTypes'
  BY <1>23, <1>0 DEF DecisionChecked, ResumeRefused, Stopping, Settle, StopTypes
<1>24. ASSUME NEW n \in Node, DecisionPinned(n) PROVE StopTypes'
  BY <1>24, <1>0 DEF DecisionPinned, FailRun, Schedule, ends, Abort, StopTypes
<1>25. ASSUME NEW n \in Node, BudgetDecided(n) PROVE StopTypes'
  BY <1>25, <1>0 DEF BudgetDecided, Schedule, Acknowledged, FailRun, ends, CanAuthorize, Abort, Stopping,
        StopTypes
<1>26. ASSUME NEW n \in Node, PollFailed(n) PROVE StopTypes'
  BY <1>26, <1>0 DEF PollFailed, SettleFailed, ends, FailRun, Abort, StopTypes
<1>27. ASSUME NEW n \in Node, MediaPinned(n) PROVE StopTypes'
  BY <1>27, <1>0 DEF MediaPinned, SettleFailed, ends, FailRun, Abort, StopTypes
<1>28. ASSUME NEW n \in Node, NEW v \in {"approve", "reject"}, BudgetDecision(n, v) PROVE StopTypes'
  BY <1>28, <1>0 DEF BudgetDecision, stop, ends, StopTypes
<1>29. ASSUME NEW c \in callers, BudgetPrepared(c) PROVE StopTypes'
  BY <1>29, <1>0 DEF BudgetPrepared, ResumeRefused, Stopping, Settle, StopTypes
<1>30. ASSUME NEW n \in Node \cup {NoNode}, Landed(n) PROVE StopTypes'
  BY <1>30, <1>0 DEF Landed, stop, ends, StopTypes
<1> QED BY <1>1, <1>2, <1>3, <1>4, <1>5, <1>6, <1>7, <1>8, <1>9, <1>10, <1>11, <1>12, <1>13, <1>14, <1>15,
        <1>16, <1>17, <1>18, <1>19, <1>20, <1>21, <1>22, <1>23, <1>24, <1>25, <1>26, <1>27, <1>28, <1>29,
        <1>30, StepCases

(* of the gates, *)
LEMMA GateTyped ==
    ASSUME TypeOK, [Next]_vars
    PROVE  GateTypes'
<1>0. GateTypes
  BY Types
<1>1. ASSUME UNCHANGED vars \/ SkipsFound \/ PauseWritten \/ WaitAborted \/ Started \/ Refused
      PROVE  GateTypes'
  BY <1>1, <1>0 DEF vars, gates, SkipsFound, PauseWritten, WaitAborted, Started, Refused, GateTypes
<1>2. ASSUME NEW r \in BOOLEAN, AtPass, Conclude(r) PROVE GateTypes'
  BY <1>2, <1>0 DEF Conclude, Settle, AtPass, GateTypes
<1>3. ASSUME NEW r \in BOOLEAN, AtPass /\ (CeilingReached(r) \/ Claim(r) \/ Idle(r)) PROVE GateTypes'
  BY <1>3, <1>0 DEF CeilingReached, gates, Claim, Idle, GateTypes
<1>4. ASSUME Unwind \/ EndLoop \/ Start \/ WaitFailed \/ AppendFailed \/ RequestCancel PROVE GateTypes'
  BY <1>4, <1>0 DEF Unwind, gates, EndLoop, Start, WaitFailed, AppendFailed, RequestCancel, GateTypes
<1>5. ASSUME RunTimeout \/ GraceElapsed \/ GraceSwept \/ PublishTerminal PROVE GateTypes'
  BY <1>5, <1>0 DEF RunTimeout, gates, GraceElapsed, GraceSwept, PublishTerminal, GateTypes
<1>6. ASSUME NEW n \in Node,
             GraceAbandons(n) \/ NodeDeadline(n) \/ RespondLate(n) \/ RespondCompleted(n) \/
             RespondFailed(n) \/ RespondRetryable(n)
      PROVE  GateTypes'
  BY <1>6, <1>0 DEF GraceAbandons, gates, NodeDeadline, RespondLate, RespondCompleted, RespondFailed,
        RespondRetryable, GateTypes
<1>7. ASSUME NEW n \in Node, GateDecision(n) PROVE GateTypes'
  BY <1>7, <1>0 DEF GateDecision, ClaimGate, GateTypes
<1>8. ASSUME NEW n \in Node, GateTimeout(n) PROVE GateTypes'
  BY <1>8, <1>0 DEF GateTimeout, ClaimGate, GateTypes
<1>9. ASSUME NEW n \in Node, RespondPaused(n) PROVE GateTypes'
  BY <1>9, <1>0 DEF RespondPaused, GateTypes
<1>10. ASSUME NEW n \in Node,
              RespondMediaJob(n) \/ BackoffOver(n) \/ Restarted(n) \/ MediaSubmitted(n) \/
              PollFailed(n) \/ PollAborted(n)
       PROVE  GateTypes'
  BY <1>10, <1>0 DEF RespondMediaJob, gates, BackoffOver, Restarted, MediaSubmitted, PollFailed, PollAborted,
        GateTypes
<1>11. ASSUME NEW n \in Node, PauseAcked(n) PROVE GateTypes'
  BY <1>11, <1>0 DEF PauseAcked, GateTypes
<1>12. ASSUME NEW n \in Node, PausePublished(n) PROVE GateTypes'
  BY <1>12, <1>0 DEF PausePublished, GateTypes
<1>13. ASSUME NEW n \in Node, DecisionChecked(n) PROVE GateTypes'
  BY <1>13, <1>0 DEF DecisionChecked, ResumeRefused, Settle, GateTypes
<1>14. ASSUME NEW n \in Node, DecisionPinned(n) PROVE GateTypes'
  BY <1>14, <1>0 DEF DecisionPinned, GateTypes
<1>15. ASSUME NEW n \in Node, BudgetDecided(n) PROVE GateTypes'
  BY <1>15, <1>0 DEF BudgetDecided, GateTypes
<1>16. ASSUME NEW n \in Node, PollDone(n) \/ MediaPinned(n) PROVE GateTypes'
  BY <1>16, <1>0 DEF PollDone, gates, MediaPinned, GateTypes
<1>17. ASSUME NEW n \in Node, NEW v \in {"approve", "reject"}, BudgetDecision(n, v) PROVE GateTypes'
  BY <1>17, <1>0 DEF BudgetDecision, GateTypes
<1>18. ASSUME NEW c \in callers, BudgetPrepared(c) PROVE GateTypes'
  BY <1>18, <1>0 DEF BudgetPrepared, ResumeRefused, GateStillOpen, Settle, GateTypes
<1>19. ASSUME NEW n \in Node \cup {NoNode}, Landed(n) PROVE GateTypes'
  BY <1>19, <1>0 DEF Landed, gates, GateTypes
<1> QED BY <1>1, <1>2, <1>3, <1>4, <1>5, <1>6, <1>7, <1>8, <1>9, <1>10, <1>11, <1>12, <1>13, <1>14, <1>15,
        <1>16, <1>17, <1>18, <1>19, StepCases

(* and of everything else. *)
LEMMA RestTyped ==
    ASSUME TypeOK, [Next]_vars
    PROVE  RestTypes'
<1>0. RestTypes /\ StopTypes
  BY Types
<1>1. ASSUME UNCHANGED vars \/ SkipsFound \/ PauseWritten \/ WaitAborted \/ Started \/ Refused
      PROVE  RestTypes'
  BY <1>1, <1>0 DEF vars, mjobs, ends, SkipsFound, PauseWritten, WaitAborted, Started, Refused, RestTypes
<1>2. ASSUME NEW r \in BOOLEAN, AtPass, Conclude(r) PROVE RestTypes'
  BY <1>2, <1>0 DEF Conclude, Settle, AtPass, RestTypes
<1>3. ASSUME NEW r \in BOOLEAN, AtPass /\ (CeilingReached(r) \/ Claim(r)) PROVE RestTypes'
  BY <1>3, <1>0 DEF CeilingReached, mjobs, ends, Claim, RestTypes
<1>4. ASSUME NEW r \in BOOLEAN, AtPass, Idle(r) PROVE RestTypes'
  BY <1>4, <1>0 DEF Idle, Parked, mjobs, ends, AtPass, RestTypes
<1>5. ASSUME Unwind \/ EndLoop \/ Start \/ RequestCancel \/ GraceElapsed \/ GraceSwept PROVE RestTypes'
  BY <1>5, <1>0 DEF Unwind, mjobs, ends, EndLoop, Start, RequestCancel, GraceElapsed, GraceSwept, RestTypes
<1>6. ASSUME WaitFailed PROVE RestTypes'
  BY <1>6, <1>0 DEF WaitFailed, Fault, mjobs, ends, RestTypes
<1>7. ASSUME AppendFailed PROVE RestTypes'
  BY <1>7, <1>0 DEF AppendFailed, AppendUnderWay, Fault, mjobs, ends, RestTypes
<1>8. ASSUME RunTimeout PROVE RestTypes'
  BY <1>8, <1>0 DEF RunTimeout, mjobs, ends, RestTypes
<1>9. ASSUME PublishTerminal PROVE RestTypes'
  BY <1>9, <1>0 DEF PublishTerminal, Fault, mjobs, RestTypes, StopTypes
<1>10. ASSUME NEW n \in Node,
              GraceAbandons(n) \/ NodeDeadline(n) \/ GateDecision(n) \/ GateTimeout(n) \/
              RespondLate(n) \/ RespondCompleted(n)
       PROVE  RestTypes'
  BY <1>10, <1>0 DEF GraceAbandons, mjobs, ends, NodeDeadline, GateDecision, GateTimeout, RespondLate,
        RespondCompleted, RestTypes
<1>11. ASSUME NEW n \in Node,
              RespondFailed(n) \/ RespondRetryable(n) \/ RespondPaused(n) \/ BackoffOver(n) \/
              Restarted(n) \/ PauseAcked(n)
       PROVE  RestTypes'
  BY <1>11, <1>0 DEF RespondFailed, mjobs, ends, RespondRetryable, RespondPaused, BackoffOver, Restarted,
        PauseAcked, RestTypes
<1>12. ASSUME NEW n \in Node, RespondMediaJob(n) PROVE RestTypes'
  BY <1>12, <1>0 DEF RespondMediaJob, ends, RestTypes
<1>13. ASSUME NEW n \in Node, PausePublished(n) PROVE RestTypes'
  BY <1>13, <1>0 DEF PausePublished, mjobs, ends, RestTypes
<1>14. ASSUME NEW n \in Node, DecisionChecked(n) PROVE RestTypes'
  BY <1>14, <1>0 DEF DecisionChecked, ResumeRefused, Settle, RestTypes
<1>15. ASSUME NEW n \in Node, DecisionPinned(n) PROVE RestTypes'
  BY <1>15, <1>0 DEF DecisionPinned, Fault, mjobs, ends, RestTypes
<1>16. ASSUME NEW n \in Node, BudgetDecided(n) PROVE RestTypes'
  BY <1>16, <1>0 DEF BudgetDecided, mjobs, ends, RestTypes
<1>17. ASSUME NEW n \in Node, MediaSubmitted(n) PROVE RestTypes'
  BY <1>17, <1>0 DEF MediaSubmitted, ends, RestTypes
<1>18. ASSUME NEW n \in Node, PollFailed(n) PROVE RestTypes'
  BY <1>18, <1>0 DEF PollFailed, ends, RestTypes
<1>19. ASSUME NEW n \in Node, PollAborted(n) PROVE RestTypes'
  BY <1>19, <1>0 DEF PollAborted, ends, RestTypes
<1>20. ASSUME NEW n \in Node, PollDone(n) PROVE RestTypes'
  BY <1>20, <1>0 DEF PollDone, ends, RestTypes
<1>21. ASSUME NEW n \in Node, MediaPinned(n) PROVE RestTypes'
  BY <1>21, <1>0 DEF MediaPinned, Fault, ends, RestTypes
<1>22. ASSUME NEW n \in Node, NEW v \in {"approve", "reject"}, BudgetDecision(n, v) PROVE RestTypes'
  BY <1>22, <1>0 DEF BudgetDecision, mjobs, ends, RestTypes
<1>23. ASSUME NEW c \in callers, BudgetPrepared(c) PROVE RestTypes'
  BY <1>23, <1>0 DEF BudgetPrepared, ResumeRefused, Settle, RestTypes
<1>24. ASSUME NEW n \in Node \cup {NoNode}, Landed(n) PROVE RestTypes'
  BY <1>24, <1>0 DEF Landed, mjobs, ends, RestTypes
<1> QED BY <1>1, <1>2, <1>3, <1>4, <1>5, <1>6, <1>7, <1>8, <1>9, <1>10, <1>11, <1>12, <1>13, <1>14, <1>15,
        <1>16, <1>17, <1>18, <1>19, <1>20, <1>21, <1>22, <1>23, <1>24, StepCases

(* Every step keeps the types of the fields. *)
LEMMA TypeStep ==
    ASSUME TypeOK, LoopShape, [Next]_vars
    PROVE  TypeOK'
<1>1. PassTypes' /\ WorkTypes' /\ StopTypes' /\ GateTypes' /\ RestTypes'
  BY PassTyped, WorkTyped, StopTyped, GateTyped, RestTyped
<1> QED BY <1>1, Types, PTL

-----------------------------------------------------------------------------
(* Where the loop stands, and what the steps that move claims do.            *)

(* What is assumed of a plan. *)
LEMMA Plan ==
    /\ IsFiniteSet(Node) /\ NoNode \notin Node /\ Timed \cap (Gates \cup Conditions) = {}
    /\ Gates \cap (Conditions \cup Budgeted \cup MediaNodes) = {} /\ Conditions \cap (Budgeted \cup MediaNodes) = {}
    /\ Deps \in [Node -> SUBSET Node] /\ MaxParallel \in Nat \ {0} /\ Ceiling \in Nat \ {0}
    /\ MediaNodes \subseteq Node /\ Gates \subseteq Node /\ Timed \subseteq Node /\ Conditions \subseteq Node
BY SchedulerConstants

(* Starting the head of the batch takes it off the claims. *)
LEMMA Heads ==
    ASSUME TypeOK, claims # <<>>
    PROVE  /\ Head(claims) \in Unstarted /\ Head(claims) \in Node /\ Len(claims) \in Nat \ {0}
           /\ Tail(claims) \in Seq(Node) /\ Len(Tail(claims)) = Len(claims) - 1
           /\ \A n : n \in Unstarted <=> n = Head(claims) \/ n \in {Tail(claims)[i] : i \in DOMAIN Tail(claims)}
<1>1. claims \in Seq(Node) /\ claims # <<>>
  BY DEF TypeOK
<1>2. /\ Head(claims) \in Node /\ Len(claims) \in Nat \ {0} /\ Head(claims) = claims[1]
      /\ Tail(claims) \in Seq(Node) /\ Len(Tail(claims)) = Len(claims) - 1
      /\ DOMAIN claims = 1..Len(claims) /\ DOMAIN Tail(claims) = 1..(Len(claims) - 1)
      /\ \A i \in 1..(Len(claims) - 1) : Tail(claims)[i] = claims[i + 1]
  BY <1>1
<1>3. Head(claims) \in Unstarted
  BY <1>2 DEF Unstarted
<1>4. ASSUME NEW n, n \in Unstarted, n # Head(claims) PROVE n \in {Tail(claims)[i] : i \in DOMAIN Tail(claims)}
  <2>1. PICK i \in 1..Len(claims) : claims[i] = n
    BY <1>2, <1>4 DEF Unstarted
  <2>2. i - 1 \in 1..(Len(claims) - 1) /\ Tail(claims)[i - 1] = claims[i - 1 + 1] /\ i - 1 + 1 = i
    BY <1>2, <1>4, <2>1
  <2> QED BY <1>2, <2>1, <2>2
<1>5. ASSUME NEW n, n \in {Tail(claims)[i] : i \in DOMAIN Tail(claims)} PROVE n \in Unstarted
  <2>1. PICK i \in 1..(Len(claims) - 1) : Tail(claims)[i] = n
    BY <1>2, <1>5
  <2>2. i + 1 \in 1..Len(claims) /\ claims[i + 1] = n
    BY <1>2, <2>1
  <2> QED BY <1>2, <2>2 DEF Unstarted
<1> QED BY <1>2, <1>3, <1>4, <1>5

(* An empty batch claims nothing. *)
LEMMA NoneClaimed == claims = <<>> => Unstarted = {}
BY DEF Unstarted

(* What is claimed is a vertex. *)
LEMMA ClaimsAreNodes == ASSUME TypeOK PROVE Unstarted \subseteq Node
BY DEF TypeOK, Unstarted

(* Only a pass that is under way holds claims. *)
LEMMA LoopShapeStep ==
    ASSUME TypeOK, LoopShape, [Next]_vars
    PROVE  LoopShape'
<1>1. ASSUME UNCHANGED vars \/ RunTimeout \/ GraceElapsed \/ PublishTerminal PROVE LoopShape'
  BY <1>1 DEF vars, pass, ends, RunTimeout, GraceElapsed, PublishTerminal, LoopShape
<1>2. ASSUME SkipsFound PROVE LoopShape'
  BY <1>2 DEF SkipsFound, ends, LoopShape
<1>3. ASSUME NEW r \in BOOLEAN, AtPass, Conclude(r) PROVE LoopShape'
  BY <1>3 DEF Conclude, EndPass, Settle, AtPass, LoopShape
<1>4. ASSUME NEW r \in BOOLEAN, AtPass, CeilingReached(r) PROVE LoopShape'
  BY <1>4 DEF CeilingReached, EndPass, ends, AtPass, LoopShape
<1>5. ASSUME NEW r \in BOOLEAN, AtPass, Claim(r) PROVE LoopShape'
  BY <1>5 DEF Claim, ends, AtPass, LoopShape
<1>6. ASSUME NEW r \in BOOLEAN, AtPass, Idle(r) PROVE LoopShape'
  BY <1>6 DEF Idle, EndPass, ends, AtPass, LoopShape
<1>7. ASSUME PauseWritten PROVE LoopShape'
  BY <1>7 DEF PauseWritten, EndPass, ends, LoopShape
<1>8. ASSUME WaitAborted PROVE LoopShape'
  BY <1>8 DEF WaitAborted, GiveUpClaims, ends, EndPass, Unstarted, LoopShape
<1>9. ASSUME Started PROVE LoopShape'
  BY <1>9 DEF Started, GiveUpClaims, ends, EndPass, Unstarted, LoopShape
<1>10. ASSUME Refused PROVE LoopShape'
  BY <1>10 DEF Refused, EndPass, Unstarted, ends, LoopShape
<1>11. ASSUME Unwind PROVE LoopShape'
  BY <1>11 DEF Unwind, GiveUpClaims, ends, EndPass, Unstarted, LoopShape
<1>12. ASSUME EndLoop PROVE LoopShape'
  BY <1>12 DEF EndLoop, ends, LoopShape
<1>13. ASSUME Start PROVE LoopShape'
  BY <1>13, Heads, Plan DEF Start, LoopShape
<1>14. ASSUME WaitFailed PROVE LoopShape'
  BY <1>14, Heads, Plan DEF WaitFailed, LoopShape
<1>15. ASSUME AppendFailed PROVE LoopShape'
  BY <1>15 DEF AppendFailed, AppendUnderWay, Schedule, ends, LoopShape
<1>16. ASSUME RequestCancel PROVE LoopShape'
  BY <1>16 DEF RequestCancel, Schedule, ends, LoopShape
<1>17. ASSUME GraceSwept PROVE LoopShape'
  BY <1>17 DEF GraceSwept, Abandonable, Schedule, ends, Unstarted, LoopShape
<1>18. ASSUME NEW n \in Node,
              GraceAbandons(n) \/ NodeDeadline(n) \/ GateDecision(n) \/ GateTimeout(n) \/
              RespondLate(n) \/ RespondCompleted(n)
       PROVE  LoopShape'
  BY <1>18 DEF GraceAbandons, pass, ends, NodeDeadline, GateDecision, GateTimeout, RespondLate,
        RespondCompleted, LoopShape
<1>19. ASSUME NEW n \in Node,
              RespondFailed(n) \/ RespondRetryable(n) \/ RespondPaused(n) \/ RespondMediaJob(n) \/
              BackoffOver(n) \/ Restarted(n)
       PROVE  LoopShape'
  BY <1>19 DEF RespondFailed, pass, ends, RespondRetryable, RespondPaused, RespondMediaJob, BackoffOver,
        Restarted, LoopShape
<1>20. ASSUME NEW n \in Node,
              PauseAcked(n) \/ PollFailed(n) \/ PollAborted(n) \/ PollDone(n) \/ MediaPinned(n)
       PROVE  LoopShape'
  BY <1>20 DEF PauseAcked, pass, ends, PollFailed, PollAborted, PollDone, MediaPinned, LoopShape
<1>21. ASSUME NEW n \in Node, PausePublished(n) PROVE LoopShape'
  BY <1>21 DEF PausePublished, Schedule, ends, LoopShape
<1>22. ASSUME NEW n \in Node, DecisionChecked(n) PROVE LoopShape'
  BY <1>22 DEF DecisionChecked, ResumeRefused, pass, Settle, LoopShape
<1>23. ASSUME NEW n \in Node, DecisionPinned(n) PROVE LoopShape'
  BY <1>23 DEF DecisionPinned, Schedule, ends, LoopShape
<1>24. ASSUME NEW n \in Node, BudgetDecided(n) PROVE LoopShape'
  BY <1>24 DEF BudgetDecided, Schedule, ends, LoopShape
<1>25. ASSUME NEW n \in Node, MediaSubmitted(n) PROVE LoopShape'
  BY <1>25 DEF MediaSubmitted, Schedule, ends, LoopShape
<1>26. ASSUME NEW n \in Node, NEW v \in {"approve", "reject"}, BudgetDecision(n, v) PROVE LoopShape'
  BY <1>26 DEF BudgetDecision, pass, ends, LoopShape
<1>27. ASSUME NEW c \in callers, BudgetPrepared(c) PROVE LoopShape'
  BY <1>27 DEF BudgetPrepared, ResumeRefused, pass, Settle, LoopShape
<1>28. ASSUME NEW n \in Node \cup {NoNode}, Landed(n) PROVE LoopShape'
  BY <1>28 DEF Landed, Schedule, ends, LoopShape
<1> QED BY <1>1, <1>2, <1>3, <1>4, <1>5, <1>6, <1>7, <1>8, <1>9, <1>10, <1>11, <1>12, <1>13, <1>14, <1>15,
        <1>16, <1>17, <1>18, <1>19, <1>20, <1>21, <1>22, <1>23, <1>24, <1>25, <1>26, <1>27, <1>28, StepCases

(* Who is claimed depends on the batch alone. *)
LEMMA SameClaims == UNCHANGED claims => Unstarted' = Unstarted
BY DEF Unstarted

(* What #propagateSkips skips is pending, has no live edge, and waits for nothing else. *)
LEMMA SkipFacts ==
    ASSUME NEW n \in SkipSet
    PROVE  /\ n \in Node /\ status[n] = "pending" /\ ~ HasLiveEdge(n)
           /\ \A d \in Deps[n] : status[d] \in Settled \/ d \in SkipSet
<1>1. PICK S \in SUBSET Node : n \in S /\ \A m \in S : IsSkipped(S, m)
  BY DEF SkipSet
<1>2. S \subseteq SkipSet
  BY <1>1 DEF SkipSet
<1> QED BY <1>1, <1>2 DEF IsSkipped

(* The steps that move claims, in terms of the vertices claimed. *)
LEMMA ClaimFacts ==
    ASSUME TypeOK, NEW r \in BOOLEAN, Claim(r)
    PROVE  /\ Unstarted' \subseteq Node
           /\ \A n \in Unstarted' : Claimable(n) /\ status[n] = "pending" /\ status'[n] = "running"
           /\ \A n \in Node \ Unstarted' : status'[n] = status[n]
<1>1. claims' = Ready /\ status' = [n \in Node |-> IF \E i \in DOMAIN Ready : Ready[i] = n THEN "running" ELSE status[n]]
  BY DEF Claim
<1>2. DOMAIN Ready = 1..Len(Ready)
  BY BatchFacts
<1>3. Unstarted' = {Ready[i] : i \in 1..Len(Ready)}
  BY <1>1, <1>2 DEF Unstarted
<1>4. \A n \in Unstarted' : n \in Node /\ Claimable(n)
  BY <1>3, BatchFacts
<1>5. \A n \in Node : n \in Unstarted' <=> \E i \in DOMAIN Ready : Ready[i] = n
  BY <1>2, <1>3
<1> QED BY <1>1, <1>4, <1>5 DEF Claimable

(* The finally of #step hands the rest of the batch back ... *)
LEMMA GiveUpFacts ==
    ASSUME GiveUpClaims
    PROVE  /\ claims' = <<>> /\ Unstarted' = {} /\ starting' = NoNode /\ loop' = "ending"
           /\ rerun' = (rerun \/ (claims # <<>> /\ aborted))
           /\ status' = [n \in Node |-> IF n \in Unstarted /\ status[n] = "running" THEN "pending" ELSE status[n]]
BY DEF GiveUpClaims, EndPass, Unstarted

(* ... and so does a refusal. *)
LEMMA RefusedFacts ==
    ASSUME Refused
    PROVE  /\ claims' = <<>> /\ Unstarted' = {} /\ starting' = NoNode /\ loop' = "ending" /\ rerun' = TRUE
           /\ status' = [n \in Node |-> IF n \in Unstarted /\ status[n] = "running" THEN "pending" ELSE status[n]]
BY DEF Refused, EndPass, Unstarted

(* A start takes the head of the batch. *)
LEMMA StartFacts ==
    ASSUME TypeOK, LoopShape, Start
    PROVE  /\ claims # <<>> /\ starting' \in Unstarted /\ starting' \in Node /\ Unstarted' \subseteq Unstarted
           /\ \A n \in Unstarted : n = starting' \/ n \in Unstarted'
           /\ claims' \in Seq(Node) /\ Len(claims') = Len(claims) - 1 /\ Len(claims) \in Nat \ {0}
<1>1. claims # <<>> /\ starting' = Head(claims) /\ claims' = Tail(claims)
  BY DEF Start, LoopShape
<1>2. Unstarted' = {Tail(claims)[i] : i \in DOMAIN Tail(claims)}
  BY <1>1 DEF Unstarted
<1> QED BY <1>1, <1>2, Heads

-----------------------------------------------------------------------------
(* One lemma for each part of the invariant.                                 *)

(* A claimed vertex is left alone until it is started. *)
LEMMA ClaimedStep ==
    ASSUME TypeOK, LoopShape, Distinct, Claimed, Working, Parking, Deciding, [Next]_vars
    PROVE  Claimed'
<1>0. /\ status \in [Node -> {"pending", "running", "paused"} \cup Settled]
      /\ task \in [Node -> {"none", "executing", "backoff", "restarting"}]
      /\ gate \in [Node -> {"none", "open", "claimed"}]
      /\ decide \in [Node -> {"none", "checking", "pinning", "approving", "rejecting"}]
      /\ media \in [Node -> {"none", "submitting", "polling", "pinning"}]
  BY DEF TypeOK
<1>1. ASSUME UNCHANGED vars \/ RunTimeout \/ GraceElapsed \/ PublishTerminal PROVE Claimed'
  BY <1>1, <1>0, SameClaims DEF vars, graph, pass, work, gates, mjobs, RunTimeout, GraceElapsed,
        PublishTerminal, Claimed
<1>2. ASSUME SkipsFound PROVE Claimed'
  BY <1>2, <1>0, SameClaims, SkipFacts DEF SkipsFound, gates, mjobs, Claimed
<1>3. ASSUME NEW r \in BOOLEAN, AtPass, Conclude(r) PROVE Claimed'
  BY <1>3, <1>0, SameClaims DEF Conclude, GoingOn, EndPass, Settle, graph, AllSettled, AtPass, Claimed
<1>4. ASSUME NEW r \in BOOLEAN, AtPass, CeilingReached(r) PROVE Claimed'
  BY <1>4, <1>0, SameClaims DEF CeilingReached, GoingOn, EndPass, graph, work, gates, mjobs, AllSettled,
        AtPass, Claimed
<1>5. ASSUME NEW r \in BOOLEAN, AtPass, Claim(r) PROVE Claimed'
  BY <1>5, <1>0, ClaimFacts DEF Claim, AtPass, LoopShape, work, gates, mjobs, Claimed, Working, Parking, Deciding
<1>6. ASSUME NEW r \in BOOLEAN, AtPass, Idle(r) PROVE Claimed'
  BY <1>6, <1>0, SameClaims DEF Idle, GoingOn, StillBusy, Parked, EndPass, graph, work, gates, mjobs,
        AllSettled, AtPass, Claimed
<1>7. ASSUME PauseWritten PROVE Claimed'
  BY <1>7, <1>0, SameClaims DEF PauseWritten, EndPass, graph, work, gates, mjobs, Claimed
<1>8. ASSUME WaitAborted PROVE Claimed'
  BY <1>8, <1>0, GiveUpFacts, Plan DEF WaitAborted, Claimed
<1>9. ASSUME Started PROVE Claimed'
  <2>1. UNCHANGED <<gate, decide, jobs, media>>
    BY <1>9 DEF Started, gates, mjobs
  <2>2. CASE GiveUpClaims
    BY <2>2, GiveUpFacts, Plan DEF Claimed
  <2>3. CASE ~ GiveUpClaims
    <3>1. /\ claims' = claims /\ starting \in Node
          /\ \/ /\ starting' = starting /\ task' = task /\ loop' = "refusing"
                /\ (status[starting] \in Settled /\ status' = status) \/ status' = [status EXCEPT ![starting] = "failed"]
             \/ /\ starting' = NoNode /\ status' = status /\ loop' # "refusing"
                /\ task' = [task EXCEPT ![starting] = "executing"]
      BY <1>9, <2>3, Plan DEF Started, SettleFailed, LoopShape, TypeOK
    <3>2. starting \notin Unstarted
      BY <1>9 DEF Started, Distinct
    <3> QED BY <1>0, <2>1, <3>1, <3>2, SameClaims, Plan DEF Claimed, Settled
  <2> QED BY <2>2, <2>3
<1>10. ASSUME Refused PROVE Claimed'
  BY <1>10, <1>0, RefusedFacts, Plan DEF Claimed
<1>11. ASSUME Unwind PROVE Claimed'
  BY <1>11, <1>0, GiveUpFacts, Plan DEF Unwind, Claimed
<1>12. ASSUME EndLoop PROVE Claimed'
  BY <1>12, <1>0, SameClaims DEF EndLoop, graph, work, gates, mjobs, Claimed
<1>13. ASSUME Start PROVE Claimed'
  BY <1>13, <1>0, StartFacts DEF Start, graph, gates, mjobs, Claimed
<1>14. ASSUME WaitFailed PROVE Claimed'
  BY <1>14, <1>0, Heads, SameClaims DEF WaitFailed, LoopShape, SettleFailed, work, gates, mjobs, Claimed
<1>15. ASSUME AppendFailed PROVE Claimed'
  BY <1>15, <1>0, SameClaims DEF AppendFailed, AppendUnderWay, Schedule, graph, work, gates, mjobs, Claimed
<1>16. ASSUME RequestCancel PROVE Claimed'
  BY <1>16, <1>0, SameClaims DEF RequestCancel, Schedule, graph, work, gates, mjobs, Claimed
<1>17. ASSUME GraceSwept PROVE Claimed'
  BY <1>17, <1>0, SameClaims DEF GraceSwept, Abandonable, Schedule, graph, work, gates, mjobs, Claimed
<1>18. ASSUME NEW n \in Node, GraceAbandons(n) PROVE Claimed'
  BY <1>18, <1>0, SameClaims DEF GraceAbandons, Abandonable, SettleFailed, pass, work, gates, mjobs, Claimed
<1>19. ASSUME NEW n \in Node, NodeDeadline(n) PROVE Claimed'
  BY <1>19, <1>0, SameClaims DEF NodeDeadline, OpenForOutcome, SettleFailed, pass, gates, mjobs, Claimed
<1>20. ASSUME NEW n \in Node, GateDecision(n) PROVE Claimed'
  BY <1>20, <1>0, SameClaims DEF GateDecision, ClaimGate, graph, pass, work, mjobs, Claimed
<1>21. ASSUME NEW n \in Node, GateTimeout(n) PROVE Claimed'
  BY <1>21, <1>0, SameClaims DEF GateTimeout, ClaimGate, SettleFailed, pass, mjobs, Claimed
<1>22. ASSUME NEW n \in Node, RespondLate(n) PROVE Claimed'
  BY <1>22, <1>0, SameClaims DEF RespondLate, Executing, OpenForOutcome, Finish, graph, pass, gates, mjobs,
        Claimed
<1>23. ASSUME NEW n \in Node, RespondCompleted(n) PROVE Claimed'
  BY <1>23, <1>0, SameClaims DEF RespondCompleted, Executing, OpenForOutcome, Finish, pass, gates, mjobs,
        Claimed
<1>24. ASSUME NEW n \in Node, RespondFailed(n) PROVE Claimed'
  BY <1>24, <1>0, SameClaims DEF RespondFailed, Executing, OpenForOutcome, SettleFailed, Finish, pass, gates,
        mjobs, Claimed
<1>25. ASSUME NEW n \in Node, RespondRetryable(n) PROVE Claimed'
  BY <1>25, <1>0, SameClaims DEF RespondRetryable, Executing, OpenForOutcome, graph, pass, gates, mjobs,
        Claimed
<1>26. ASSUME NEW n \in Node, RespondPaused(n) PROVE Claimed'
  BY <1>26, <1>0, SameClaims DEF RespondPaused, Executing, OpenForOutcome, Finish, pass, mjobs, Claimed
<1>27. ASSUME NEW n \in Node, RespondMediaJob(n) PROVE Claimed'
  BY <1>27, <1>0, SameClaims DEF RespondMediaJob, Executing, OpenForOutcome, Finish, pass, gates, Claimed
<1>28. ASSUME NEW n \in Node, BackoffOver(n) PROVE Claimed'
  BY <1>28, <1>0, SameClaims DEF BackoffOver, Finish, OpenForOutcome, SettleFailed, pass, gates, mjobs,
        Claimed
<1>29. ASSUME NEW n \in Node, Restarted(n) PROVE Claimed'
  BY <1>29, <1>0, SameClaims DEF Restarted, Finish, SettleFailed, pass, gates, mjobs, Claimed
<1>30. ASSUME NEW n \in Node, PauseAcked(n) PROVE Claimed'
  BY <1>30, <1>0, SameClaims DEF PauseAcked, graph, pass, work, mjobs, Claimed
<1>31. ASSUME NEW n \in Node, PausePublished(n) PROVE Claimed'
  BY <1>31, <1>0, SameClaims DEF PausePublished, Schedule, graph, work, mjobs, Claimed
<1>32. ASSUME NEW n \in Node, DecisionChecked(n) PROVE Claimed'
  BY <1>32, <1>0, SameClaims DEF DecisionChecked, ResumeRefused, graph, pass, Settle, Claimed
<1>33. ASSUME NEW n \in Node, DecisionPinned(n) PROVE Claimed'
  BY <1>33, <1>0, SameClaims DEF DecisionPinned, Schedule, mjobs, Claimed
<1>34. ASSUME NEW n \in Node, BudgetDecided(n) PROVE Claimed'
  BY <1>34, <1>0, SameClaims DEF BudgetDecided, Schedule, mjobs, Claimed
<1>35. ASSUME NEW n \in Node, MediaSubmitted(n) PROVE Claimed'
  BY <1>35, <1>0, SameClaims DEF MediaSubmitted, Schedule, graph, work, gates, Claimed
<1>36. ASSUME NEW n \in Node, PollFailed(n) PROVE Claimed'
  BY <1>36, <1>0, SameClaims DEF PollFailed, OpenForOutcome, SettleFailed, pass, gates, Claimed
<1>37. ASSUME NEW n \in Node, PollAborted(n) PROVE Claimed'
  BY <1>37, <1>0, SameClaims DEF PollAborted, graph, pass, work, gates, Claimed
<1>38. ASSUME NEW n \in Node, PollDone(n) PROVE Claimed'
  BY <1>38, <1>0, SameClaims DEF PollDone, graph, pass, work, gates, Claimed
<1>39. ASSUME NEW n \in Node, MediaPinned(n) PROVE Claimed'
  BY <1>39, <1>0, SameClaims DEF MediaPinned, OpenForOutcome, SettleFailed, pass, gates, Claimed
<1>40. ASSUME NEW n \in Node, NEW v \in {"approve", "reject"}, BudgetDecision(n, v) PROVE Claimed'
  BY <1>40, <1>0, SameClaims DEF BudgetDecision, graph, pass, work, mjobs, Claimed
<1>41. ASSUME NEW c \in callers, BudgetPrepared(c) PROVE Claimed'
  BY <1>41, <1>0, SameClaims DEF BudgetPrepared, ResumeRefused, GateStillOpen, graph, pass, Settle, Claimed
<1>42. ASSUME NEW n \in Node \cup {NoNode}, Landed(n) PROVE Claimed'
  BY <1>42, <1>0, SameClaims DEF Landed, Schedule, graph, gates, mjobs, Claimed
<1> QED BY <1>1, <1>2, <1>3, <1>4, <1>5, <1>6, <1>7, <1>8, <1>9, <1>10, <1>11, <1>12, <1>13, <1>14, <1>15,
        <1>16, <1>17, <1>18, <1>19, <1>20, <1>21, <1>22, <1>23, <1>24, <1>25, <1>26, <1>27, <1>28, <1>29,
        <1>30, <1>31, <1>32, <1>33, <1>34, <1>35, <1>36, <1>37, <1>38, <1>39, <1>40, <1>41, <1>42, StepCases

(* A dispatched vertex runs, or failed while its executor went on. *)
LEMMA WorkingStep ==
    ASSUME TypeOK, LoopShape, Claimed, Working, Parking, Deciding, [Next]_vars
    PROVE  Working'
<1>0. /\ status \in [Node -> {"pending", "running", "paused"} \cup Settled]
      /\ task \in [Node -> {"none", "executing", "backoff", "restarting"}]
      /\ gate \in [Node -> {"none", "open", "claimed"}]
      /\ decide \in [Node -> {"none", "checking", "pinning", "approving", "rejecting"}]
      /\ media \in [Node -> {"none", "submitting", "polling", "pinning"}]
  BY DEF TypeOK
<1>1. ASSUME UNCHANGED vars \/ PauseWritten \/ EndLoop \/ Start PROVE Working'
  BY <1>1, <1>0 DEF vars, graph, work, gates, mjobs, PauseWritten, EndLoop, Start, Working
<1>2. ASSUME SkipsFound PROVE Working'
  BY <1>2, <1>0, SkipFacts DEF SkipsFound, gates, mjobs, Working
<1>3. ASSUME NEW r \in BOOLEAN, AtPass, Conclude(r) PROVE Working'
  BY <1>3, <1>0 DEF Conclude, GoingOn, Settle, graph, AllSettled, AtPass, Working
<1>4. ASSUME NEW r \in BOOLEAN, AtPass /\ (CeilingReached(r) \/ Idle(r)) PROVE Working'
  BY <1>4, <1>0 DEF CeilingReached, graph, work, gates, mjobs, Idle, Working
<1>5. ASSUME NEW r \in BOOLEAN, AtPass, Claim(r) PROVE Working'
  BY <1>5, <1>0, ClaimFacts DEF Claim, AtPass, LoopShape, work, gates, mjobs, Working
<1>6. ASSUME WaitAborted PROVE Working'
  BY <1>6, <1>0, GiveUpFacts DEF WaitAborted, work, gates, mjobs, Working, Claimed
<1>7. ASSUME Started PROVE Working'
  <2>1. UNCHANGED <<gate, decide, jobs, media>>
    BY <1>7 DEF Started, gates, mjobs
  <2>2. CASE GiveUpClaims
    BY <1>7, <1>0, <2>1, <2>2, GiveUpFacts DEF Started, Working, Claimed
  <2>3. CASE ~ GiveUpClaims
    <3>1. /\ starting \in Node
          /\ status' = status \/ status' = [status EXCEPT ![starting] = "failed"]
          /\ task' = task \/ task' = [task EXCEPT ![starting] = "executing"]
      BY <1>7, <2>3 DEF Started, SettleFailed, LoopShape, TypeOK
    <3> QED BY <1>0, <2>1, <3>1 DEF Working, Claimed
  <2> QED BY <2>2, <2>3
<1>8. ASSUME Refused PROVE Working'
  BY <1>8, <1>0, RefusedFacts DEF Refused, work, gates, mjobs, Working, Claimed
<1>9. ASSUME Unwind PROVE Working'
  BY <1>9, <1>0, GiveUpFacts DEF Unwind, work, gates, mjobs, Working, Claimed
<1>10. ASSUME WaitFailed PROVE Working'
  BY <1>10, <1>0 DEF WaitFailed, SettleFailed, work, gates, mjobs, Working
<1>11. ASSUME AppendFailed \/ RequestCancel \/ RunTimeout \/ GraceElapsed PROVE Working'
  BY <1>11, <1>0 DEF AppendFailed, graph, work, gates, mjobs, RequestCancel, RunTimeout, GraceElapsed, Working
<1>12. ASSUME GraceSwept \/ PublishTerminal PROVE Working'
  BY <1>12, <1>0 DEF GraceSwept, graph, work, gates, mjobs, PublishTerminal, Working
<1>13. ASSUME NEW n \in Node, GraceAbandons(n) PROVE Working'
  BY <1>13, <1>0 DEF GraceAbandons, Abandonable, SettleFailed, work, gates, mjobs, Working
<1>14. ASSUME NEW n \in Node, NodeDeadline(n) PROVE Working'
  BY <1>14, <1>0 DEF NodeDeadline, OpenForOutcome, SettleFailed, gates, mjobs, Working
<1>15. ASSUME NEW n \in Node, GateDecision(n) PROVE Working'
  BY <1>15, <1>0 DEF GateDecision, ClaimGate, graph, work, mjobs, Working, Claimed, Parking, Deciding
<1>16. ASSUME NEW n \in Node, GateTimeout(n) PROVE Working'
  BY <1>16, <1>0 DEF GateTimeout, ClaimGate, SettleFailed, mjobs, Working, Claimed, Parking, Deciding
<1>17. ASSUME NEW n \in Node, RespondLate(n) PROVE Working'
  BY <1>17, <1>0 DEF RespondLate, Executing, OpenForOutcome, Finish, graph, gates, mjobs, Working
<1>18. ASSUME NEW n \in Node, RespondCompleted(n) PROVE Working'
  BY <1>18, <1>0 DEF RespondCompleted, Executing, OpenForOutcome, Finish, gates, mjobs, Working
<1>19. ASSUME NEW n \in Node, RespondFailed(n) PROVE Working'
  BY <1>19, <1>0 DEF RespondFailed, Executing, OpenForOutcome, SettleFailed, Finish, gates, mjobs, Working
<1>20. ASSUME NEW n \in Node, RespondRetryable(n) PROVE Working'
  BY <1>20, <1>0 DEF RespondRetryable, Executing, OpenForOutcome, graph, gates, mjobs, Working
<1>21. ASSUME NEW n \in Node, RespondPaused(n) PROVE Working'
  BY <1>21, <1>0 DEF RespondPaused, Executing, OpenForOutcome, Finish, mjobs, Working, Claimed, Parking,
        Deciding
<1>22. ASSUME NEW n \in Node, RespondMediaJob(n) PROVE Working'
  BY <1>22, <1>0 DEF RespondMediaJob, Executing, OpenForOutcome, Finish, gates, Working, Claimed, Parking,
        Deciding
<1>23. ASSUME NEW n \in Node, BackoffOver(n) PROVE Working'
  BY <1>23, <1>0 DEF BackoffOver, Finish, OpenForOutcome, SettleFailed, gates, mjobs, Working
<1>24. ASSUME NEW n \in Node, Restarted(n) PROVE Working'
  BY <1>24, <1>0 DEF Restarted, Finish, SettleFailed, gates, mjobs, Working
<1>25. ASSUME NEW n \in Node, PauseAcked(n) \/ PausePublished(n) PROVE Working'
  BY <1>25, <1>0 DEF PauseAcked, graph, work, mjobs, PausePublished, Working
<1>26. ASSUME NEW n \in Node, DecisionChecked(n) PROVE Working'
  BY <1>26, <1>0 DEF DecisionChecked, ResumeRefused, graph, Settle, Working
<1>27. ASSUME NEW n \in Node, DecisionPinned(n) PROVE Working'
  BY <1>27, <1>0 DEF DecisionPinned, mjobs, Working, Claimed, Parking, Deciding
<1>28. ASSUME NEW n \in Node, BudgetDecided(n) PROVE Working'
  BY <1>28, <1>0 DEF BudgetDecided, mjobs, Working, Claimed, Parking, Deciding
<1>29. ASSUME NEW n \in Node, MediaSubmitted(n) PROVE Working'
  BY <1>29, <1>0 DEF MediaSubmitted, graph, work, gates, Working
<1>30. ASSUME NEW n \in Node, PollFailed(n) PROVE Working'
  BY <1>30, <1>0 DEF PollFailed, OpenForOutcome, SettleFailed, gates, Working
<1>31. ASSUME NEW n \in Node, PollAborted(n) PROVE Working'
  BY <1>31, <1>0 DEF PollAborted, graph, work, gates, Working
<1>32. ASSUME NEW n \in Node, PollDone(n) PROVE Working'
  BY <1>32, <1>0 DEF PollDone, graph, work, gates, Working
<1>33. ASSUME NEW n \in Node, MediaPinned(n) PROVE Working'
  BY <1>33, <1>0 DEF MediaPinned, OpenForOutcome, SettleFailed, gates, Working
<1>34. ASSUME NEW n \in Node, NEW v \in {"approve", "reject"}, BudgetDecision(n, v) PROVE Working'
  BY <1>34, <1>0 DEF BudgetDecision, graph, work, mjobs, Working
<1>35. ASSUME NEW c \in callers, BudgetPrepared(c) PROVE Working'
  BY <1>35, <1>0 DEF BudgetPrepared, ResumeRefused, GateStillOpen, graph, Settle, Working, Claimed, Parking,
        Deciding
<1>36. ASSUME NEW n \in Node \cup {NoNode}, Landed(n) PROVE Working'
  BY <1>36, <1>0 DEF Landed, graph, gates, mjobs, Working
<1> QED BY <1>1, <1>2, <1>3, <1>4, <1>5, <1>6, <1>7, <1>8, <1>9, <1>10, <1>11, <1>12, <1>13, <1>14, <1>15,
        <1>16, <1>17, <1>18, <1>19, <1>20, <1>21, <1>22, <1>23, <1>24, <1>25, <1>26, <1>27, <1>28, <1>29,
        <1>30, <1>31, <1>32, <1>33, <1>34, <1>35, <1>36, StepCases

(* A vertex is parked in one place. *)
LEMMA ParkingStep ==
    ASSUME TypeOK, Claimed, Working, Parking, Deciding, [Next]_vars
    PROVE  Parking'
<1>0. /\ status \in [Node -> {"pending", "running", "paused"} \cup Settled]
      /\ task \in [Node -> {"none", "executing", "backoff", "restarting"}]
      /\ gate \in [Node -> {"none", "open", "claimed"}]
      /\ decide \in [Node -> {"none", "checking", "pinning", "approving", "rejecting"}]
      /\ media \in [Node -> {"none", "submitting", "polling", "pinning"}]
  BY DEF TypeOK
<1>1. ASSUME UNCHANGED vars \/ PauseWritten \/ EndLoop \/ Start PROVE Parking'
  BY <1>1, <1>0 DEF vars, graph, work, gates, mjobs, ends, PauseWritten, EndLoop, Start, Parking
<1>2. ASSUME SkipsFound PROVE Parking'
  BY <1>2, <1>0, SkipFacts DEF SkipsFound, gates, mjobs, ends, Parking
<1>3. ASSUME NEW r \in BOOLEAN, AtPass, Conclude(r) PROVE Parking'
  BY <1>3, <1>0 DEF Conclude, GoingOn, Settle, graph, AllSettled, AtPass, Parking
<1>4. ASSUME NEW r \in BOOLEAN, AtPass /\ (CeilingReached(r) \/ Idle(r)) PROVE Parking'
  BY <1>4, <1>0 DEF CeilingReached, graph, work, gates, mjobs, ends, Idle, Parking
<1>5. ASSUME NEW r \in BOOLEAN, AtPass, Claim(r) PROVE Parking'
  BY <1>5, <1>0, ClaimFacts DEF Claim, AtPass, gates, mjobs, ends, Parking
<1>6. ASSUME WaitAborted PROVE Parking'
  BY <1>6, <1>0, GiveUpFacts DEF WaitAborted, gates, mjobs, ends, Parking, Claimed
<1>7. ASSUME Started PROVE Parking'
  BY <1>7, <1>0 DEF Started, GiveUpClaims, SettleFailed, gates, mjobs, ends, Parking
<1>8. ASSUME Refused PROVE Parking'
  BY <1>8, <1>0, RefusedFacts DEF Refused, gates, mjobs, ends, Parking, Claimed
<1>9. ASSUME Unwind PROVE Parking'
  BY <1>9, <1>0, GiveUpFacts DEF Unwind, gates, mjobs, ends, Parking, Claimed
<1>10. ASSUME WaitFailed PROVE Parking'
  BY <1>10, <1>0 DEF WaitFailed, SettleFailed, work, gates, mjobs, ends, Parking
<1>11. ASSUME AppendFailed \/ RequestCancel \/ RunTimeout \/ GraceElapsed PROVE Parking'
  BY <1>11, <1>0 DEF AppendFailed, graph, work, gates, mjobs, ends, RequestCancel, RunTimeout, GraceElapsed,
        Parking
<1>12. ASSUME GraceSwept \/ PublishTerminal PROVE Parking'
  BY <1>12, <1>0 DEF GraceSwept, graph, work, gates, mjobs, ends, PublishTerminal, Parking
<1>13. ASSUME NEW n \in Node, GraceAbandons(n) PROVE Parking'
  BY <1>13, <1>0 DEF GraceAbandons, Abandonable, SettleFailed, work, gates, mjobs, ends, Parking
<1>14. ASSUME NEW n \in Node, NodeDeadline(n) PROVE Parking'
  BY <1>14, <1>0 DEF NodeDeadline, OpenForOutcome, SettleFailed, gates, mjobs, ends, Parking
<1>15. ASSUME NEW n \in Node, GateDecision(n) PROVE Parking'
  BY <1>15, <1>0 DEF GateDecision, ClaimGate, graph, work, mjobs, ends, Parking, Working, Deciding
<1>16. ASSUME NEW n \in Node, GateTimeout(n) PROVE Parking'
  BY <1>16, <1>0 DEF GateTimeout, ClaimGate, SettleFailed, mjobs, ends, Parking, Working, Deciding
<1>17. ASSUME NEW n \in Node, RespondLate(n) PROVE Parking'
  BY <1>17, <1>0 DEF RespondLate, Executing, OpenForOutcome, Finish, graph, gates, mjobs, ends, Parking
<1>18. ASSUME NEW n \in Node, RespondCompleted(n) PROVE Parking'
  BY <1>18, <1>0 DEF RespondCompleted, Executing, OpenForOutcome, Finish, gates, mjobs, ends, Parking,
        Working, Deciding
<1>19. ASSUME NEW n \in Node, RespondFailed(n) PROVE Parking'
  BY <1>19, <1>0 DEF RespondFailed, Executing, OpenForOutcome, SettleFailed, Finish, gates, mjobs, ends,
        Parking
<1>20. ASSUME NEW n \in Node, RespondRetryable(n) PROVE Parking'
  BY <1>20, <1>0 DEF RespondRetryable, Executing, OpenForOutcome, graph, gates, mjobs, ends, Parking
<1>21. ASSUME NEW n \in Node, RespondPaused(n) PROVE Parking'
  BY <1>21, <1>0 DEF RespondPaused, Executing, OpenForOutcome, Finish, mjobs, ends, Parking, Working, Deciding
<1>22. ASSUME NEW n \in Node, RespondMediaJob(n) PROVE Parking'
  BY <1>22, <1>0 DEF RespondMediaJob, Executing, OpenForOutcome, Finish, gates, ends, Parking, Working,
        Deciding
<1>23. ASSUME NEW n \in Node, BackoffOver(n) PROVE Parking'
  BY <1>23, <1>0 DEF BackoffOver, Finish, OpenForOutcome, SettleFailed, gates, mjobs, ends, Parking
<1>24. ASSUME NEW n \in Node, Restarted(n) PROVE Parking'
  BY <1>24, <1>0 DEF Restarted, Finish, SettleFailed, gates, mjobs, ends, Parking
<1>25. ASSUME NEW n \in Node, PauseAcked(n) \/ PausePublished(n) PROVE Parking'
  BY <1>25, <1>0 DEF PauseAcked, graph, work, mjobs, ends, PausePublished, Parking
<1>26. ASSUME NEW n \in Node, DecisionChecked(n) PROVE Parking'
  BY <1>26, <1>0 DEF DecisionChecked, ResumeRefused, graph, Settle, Parking, Working, Deciding
<1>27. ASSUME NEW n \in Node, DecisionPinned(n) PROVE Parking'
  BY <1>27, <1>0 DEF DecisionPinned, Schedule, mjobs, ends, Parking
<1>28. ASSUME NEW n \in Node, BudgetDecided(n) PROVE Parking'
  BY <1>28, <1>0 DEF BudgetDecided, Schedule, mjobs, ends, Parking
<1>29. ASSUME NEW n \in Node, MediaSubmitted(n) PROVE Parking'
  BY <1>29, <1>0 DEF MediaSubmitted, Schedule, graph, work, gates, ends, Parking
<1>30. ASSUME NEW n \in Node, PollFailed(n) PROVE Parking'
  BY <1>30, <1>0 DEF PollFailed, OpenForOutcome, SettleFailed, gates, ends, Parking
<1>31. ASSUME NEW n \in Node, PollAborted(n) PROVE Parking'
  BY <1>31, <1>0 DEF PollAborted, graph, work, gates, ends, Parking
<1>32. ASSUME NEW n \in Node, PollDone(n) PROVE Parking'
  BY <1>32, <1>0 DEF PollDone, graph, work, gates, ends, Parking
<1>33. ASSUME NEW n \in Node, MediaPinned(n) PROVE Parking'
  BY <1>33, <1>0 DEF MediaPinned, OpenForOutcome, SettleFailed, gates, ends, Parking
<1>34. ASSUME NEW n \in Node, NEW v \in {"approve", "reject"}, BudgetDecision(n, v) PROVE Parking'
  BY <1>34, <1>0 DEF BudgetDecision, graph, work, mjobs, ends, Parking
<1>35. ASSUME NEW c \in callers, BudgetPrepared(c) PROVE Parking'
  BY <1>35, <1>0 DEF BudgetPrepared, ResumeRefused, GateStillOpen, graph, Settle, Parking, Working, Deciding
<1>36. ASSUME NEW n \in Node \cup {NoNode}, Landed(n) PROVE Parking'
  BY <1>36, <1>0 DEF Landed, graph, gates, mjobs, ends, Parking
<1> QED BY <1>1, <1>2, <1>3, <1>4, <1>5, <1>6, <1>7, <1>8, <1>9, <1>10, <1>11, <1>12, <1>13, <1>14, <1>15,
        <1>16, <1>17, <1>18, <1>19, <1>20, <1>21, <1>22, <1>23, <1>24, <1>25, <1>26, <1>27, <1>28, <1>29,
        <1>30, <1>31, <1>32, <1>33, <1>34, <1>35, <1>36, StepCases

(* A claimed gate is being decided. *)
LEMMA DecidingStep ==
    ASSUME TypeOK, Working, Parking, Deciding, Aborts, [Next]_vars
    PROVE  Deciding'
<1>0. /\ gate \in [Node -> {"none", "open", "claimed"}]
      /\ decide \in [Node -> {"none", "checking", "pinning", "approving", "rejecting"}]
      /\ failure \in {"none", "node", "cancelled", "internal", "run_timeout", "turn_limit", "stalled",
                     "durability", "effects", "budget_exceeded"}
      /\ cancelling \in BOOLEAN /\ aborted \in BOOLEAN
  BY DEF TypeOK
<1>1. ASSUME UNCHANGED vars \/ SkipsFound \/ PauseWritten \/ WaitAborted PROVE Deciding'
  BY <1>1, <1>0 DEF vars, stop, gates, ends, SkipsFound, PauseWritten, WaitAborted, Deciding, Stopping
<1>2. ASSUME NEW r \in BOOLEAN, AtPass, Conclude(r) PROVE Deciding'
  BY <1>2, <1>0 DEF Conclude, GoingOn, Settle, AtPass, Deciding, Stopping
<1>3. ASSUME NEW r \in BOOLEAN, AtPass, CeilingReached(r) PROVE Deciding'
  BY <1>3, <1>0 DEF CeilingReached, GoingOn, Abort, gates, ends, AtPass, Deciding, Stopping
<1>4. ASSUME NEW r \in BOOLEAN, AtPass, Claim(r) PROVE Deciding'
  BY <1>4, <1>0 DEF Claim, stop, gates, ends, Deciding, Stopping
<1>5. ASSUME NEW r \in BOOLEAN, AtPass, Idle(r) PROVE Deciding'
  BY <1>5, <1>0 DEF Idle, GoingOn, StillBusy, Parked, gates, ends, AtPass, Deciding, Stopping
<1>6. ASSUME Started PROVE Deciding'
  BY <1>6, <1>0 DEF Started, GiveUpClaims, SettleFailed, gates, ends, FailRun, Abort, Deciding, Stopping
<1>7. ASSUME Refused \/ Unwind \/ EndLoop \/ Start PROVE Deciding'
  BY <1>7, <1>0 DEF Refused, stop, gates, ends, Unwind, EndLoop, Start, Deciding, Stopping
<1>8. ASSUME WaitFailed PROVE Deciding'
  BY <1>8, <1>0 DEF WaitFailed, SettleFailed, gates, ends, FailRun, Abort, Deciding, Stopping
<1>9. ASSUME AppendFailed PROVE Deciding'
  BY <1>9, <1>0 DEF AppendFailed, AppendUnderWay, Abort, Schedule, gates, ends, Deciding, Stopping
<1>10. ASSUME RequestCancel PROVE Deciding'
  BY <1>10, <1>0 DEF RequestCancel, Abort, Schedule, gates, ends, Deciding, Stopping
<1>11. ASSUME RunTimeout PROVE Deciding'
  BY <1>11, <1>0 DEF RunTimeout, Abort, gates, ends, Deciding, Stopping
<1>12. ASSUME GraceElapsed PROVE Deciding'
  BY <1>12, <1>0 DEF GraceElapsed, gates, ends, Deciding, Stopping
<1>13. ASSUME GraceSwept PROVE Deciding'
  BY <1>13, <1>0 DEF GraceSwept, Schedule, gates, ends, Deciding, Stopping
<1>14. ASSUME PublishTerminal PROVE Deciding'
  BY <1>14, <1>0 DEF PublishTerminal, gates, Deciding, Stopping
<1>15. ASSUME NEW n \in Node, GraceAbandons(n) PROVE Deciding'
  BY <1>15, <1>0 DEF GraceAbandons, SettleFailed, gates, ends, FailRun, Abort, Deciding, Stopping
<1>16. ASSUME NEW n \in Node, NodeDeadline(n) PROVE Deciding'
  BY <1>16, <1>0 DEF NodeDeadline, SettleFailed, gates, ends, FailRun, Abort, Deciding, Stopping
<1>17. ASSUME NEW n \in Node, GateDecision(n) PROVE Deciding'
  BY <1>17, <1>0 DEF GateDecision, ClaimGate, stop, ends, Deciding, Stopping
<1>18. ASSUME NEW n \in Node, GateTimeout(n) PROVE Deciding'
  BY <1>18, <1>0 DEF GateTimeout, ClaimGate, SettleFailed, ends, FailRun, Abort, Deciding, Stopping
<1>19. ASSUME NEW n \in Node,
              RespondLate(n) \/ RespondCompleted(n) \/ RespondRetryable(n) \/ RespondMediaJob(n)
       PROVE  Deciding'
  BY <1>19, <1>0 DEF RespondLate, stop, gates, ends, RespondCompleted, RespondRetryable, RespondMediaJob,
        Deciding, Stopping
<1>20. ASSUME NEW n \in Node, RespondFailed(n) PROVE Deciding'
  BY <1>20, <1>0 DEF RespondFailed, Executing, SettleFailed, gates, ends, FailRun, Abort, Deciding, Stopping
<1>21. ASSUME NEW n \in Node, RespondPaused(n) PROVE Deciding'
  BY <1>21, <1>0 DEF RespondPaused, Executing, stop, ends, Deciding, Stopping, Working
<1>22. ASSUME NEW n \in Node, BackoffOver(n) PROVE Deciding'
  BY <1>22, <1>0 DEF BackoffOver, SettleFailed, gates, ends, FailRun, Abort, Deciding, Stopping
<1>23. ASSUME NEW n \in Node, Restarted(n) PROVE Deciding'
  BY <1>23, <1>0 DEF Restarted, SettleFailed, gates, ends, FailRun, Abort, Deciding, Stopping
<1>24. ASSUME NEW n \in Node,
              PauseAcked(n) \/ PausePublished(n) \/ MediaSubmitted(n) \/ PollAborted(n)
       PROVE  Deciding'
  BY <1>24, <1>0 DEF PauseAcked, stop, ends, PausePublished, MediaSubmitted, gates, PollAborted, Deciding,
        Stopping
<1>25. ASSUME NEW n \in Node, DecisionChecked(n) PROVE Deciding'
  BY <1>25, <1>0 DEF DecisionChecked, ResumeRefused, Settle, Deciding, Stopping
<1>26. ASSUME NEW n \in Node, DecisionPinned(n) PROVE Deciding'
  BY <1>26, <1>0 DEF DecisionPinned, FailRun, Schedule, ends, Abort, Deciding, Stopping, Parking, Aborts
<1>27. ASSUME NEW n \in Node, BudgetDecided(n) PROVE Deciding'
  BY <1>27, <1>0 DEF BudgetDecided, Schedule, Acknowledged, FailRun, ends, CanAuthorize, Abort, Deciding,
        Stopping
<1>28. ASSUME NEW n \in Node, PollFailed(n) PROVE Deciding'
  BY <1>28, <1>0 DEF PollFailed, SettleFailed, gates, ends, FailRun, Abort, Deciding, Stopping
<1>29. ASSUME NEW n \in Node, PollDone(n) PROVE Deciding'
  BY <1>29, <1>0 DEF PollDone, stop, gates, ends, Deciding, Stopping
<1>30. ASSUME NEW n \in Node, MediaPinned(n) PROVE Deciding'
  BY <1>30, <1>0 DEF MediaPinned, SettleFailed, gates, ends, FailRun, Abort, Deciding, Stopping
<1>31. ASSUME NEW n \in Node, NEW v \in {"approve", "reject"}, BudgetDecision(n, v) PROVE Deciding'
  BY <1>31, <1>0 DEF BudgetDecision, stop, ends, Deciding, Stopping
<1>32. ASSUME NEW c \in callers, BudgetPrepared(c) PROVE Deciding'
  BY <1>32, <1>0 DEF BudgetPrepared, ResumeRefused, GateStillOpen, Settle, Deciding, Stopping
<1>33. ASSUME NEW n \in Node \cup {NoNode}, Landed(n) PROVE Deciding'
  BY <1>33, <1>0 DEF Landed, stop, gates, ends, Deciding, Stopping
<1> QED BY <1>1, <1>2, <1>3, <1>4, <1>5, <1>6, <1>7, <1>8, <1>9, <1>10, <1>11, <1>12, <1>13, <1>14, <1>15,
        <1>16, <1>17, <1>18, <1>19, <1>20, <1>21, <1>22, <1>23, <1>24, <1>25, <1>26, <1>27, <1>28, <1>29,
        <1>30, <1>31, <1>32, <1>33, StepCases

(* A pending job has its poller. *)
LEMMA PolledStep ==
    ASSUME TypeOK, Polled, [Next]_vars
    PROVE  Polled'
<1>0. /\ media \in [Node -> {"none", "submitting", "polling", "pinning"}] /\ aborted \in BOOLEAN
  BY DEF TypeOK
<1>1. ASSUME UNCHANGED vars \/ SkipsFound \/ PauseWritten PROVE Polled'
  BY <1>1, <1>0 DEF vars, stop, mjobs, ends, SkipsFound, PauseWritten, Polled
<1>2. ASSUME NEW r \in BOOLEAN, AtPass, Conclude(r) PROVE Polled'
  BY <1>2, <1>0 DEF Conclude, Settle, AtPass, Polled
<1>3. ASSUME NEW r \in BOOLEAN, AtPass, CeilingReached(r) PROVE Polled'
  BY <1>3, <1>0 DEF CeilingReached, Abort, mjobs, ends, AtPass, Polled
<1>4. ASSUME NEW r \in BOOLEAN, AtPass /\ (Claim(r) \/ Idle(r)) PROVE Polled'
  BY <1>4, <1>0 DEF Claim, stop, mjobs, ends, Idle, Polled
<1>5. ASSUME WaitAborted \/ Refused \/ Unwind PROVE Polled'
  BY <1>5, <1>0 DEF WaitAborted, stop, mjobs, ends, Refused, Unwind, Polled
<1>6. ASSUME Started PROVE Polled'
  BY <1>6, <1>0 DEF Started, GiveUpClaims, SettleFailed, mjobs, ends, FailRun, Abort, Polled
<1>7. ASSUME EndLoop \/ Start \/ GraceElapsed PROVE Polled'
  BY <1>7, <1>0 DEF EndLoop, stop, mjobs, ends, Start, GraceElapsed, Polled
<1>8. ASSUME WaitFailed PROVE Polled'
  BY <1>8, <1>0 DEF WaitFailed, SettleFailed, mjobs, ends, FailRun, Abort, Polled
<1>9. ASSUME AppendFailed PROVE Polled'
  BY <1>9, <1>0 DEF AppendFailed, AppendUnderWay, Abort, Schedule, mjobs, ends, Polled
<1>10. ASSUME RequestCancel PROVE Polled'
  BY <1>10, <1>0 DEF RequestCancel, Abort, Schedule, mjobs, ends, Polled
<1>11. ASSUME RunTimeout PROVE Polled'
  BY <1>11, <1>0 DEF RunTimeout, Abort, mjobs, ends, Polled
<1>12. ASSUME GraceSwept \/ PublishTerminal PROVE Polled'
  BY <1>12, <1>0 DEF GraceSwept, mjobs, ends, PublishTerminal, Polled
<1>13. ASSUME NEW n \in Node, GraceAbandons(n) PROVE Polled'
  BY <1>13, <1>0 DEF GraceAbandons, SettleFailed, mjobs, ends, FailRun, Abort, Polled
<1>14. ASSUME NEW n \in Node, NodeDeadline(n) PROVE Polled'
  BY <1>14, <1>0 DEF NodeDeadline, SettleFailed, mjobs, ends, FailRun, Abort, Polled
<1>15. ASSUME NEW n \in Node, GateDecision(n) \/ RespondLate(n) \/ RespondCompleted(n) PROVE Polled'
  BY <1>15, <1>0 DEF GateDecision, stop, mjobs, ends, RespondLate, RespondCompleted, Polled
<1>16. ASSUME NEW n \in Node, GateTimeout(n) PROVE Polled'
  BY <1>16, <1>0 DEF GateTimeout, SettleFailed, mjobs, ends, FailRun, Abort, Polled
<1>17. ASSUME NEW n \in Node, RespondFailed(n) PROVE Polled'
  BY <1>17, <1>0 DEF RespondFailed, Executing, SettleFailed, mjobs, ends, FailRun, Abort, Polled
<1>18. ASSUME NEW n \in Node, RespondRetryable(n) \/ RespondPaused(n) \/ PauseAcked(n) PROVE Polled'
  BY <1>18, <1>0 DEF RespondRetryable, stop, mjobs, ends, RespondPaused, PauseAcked, Polled
<1>19. ASSUME NEW n \in Node, RespondMediaJob(n) PROVE Polled'
  BY <1>19, <1>0 DEF RespondMediaJob, Executing, stop, ends, Polled
<1>20. ASSUME NEW n \in Node, BackoffOver(n) PROVE Polled'
  BY <1>20, <1>0 DEF BackoffOver, SettleFailed, mjobs, ends, FailRun, Abort, Polled
<1>21. ASSUME NEW n \in Node, Restarted(n) PROVE Polled'
  BY <1>21, <1>0 DEF Restarted, SettleFailed, mjobs, ends, FailRun, Abort, Polled
<1>22. ASSUME NEW n \in Node, PausePublished(n) PROVE Polled'
  BY <1>22, <1>0 DEF PausePublished, stop, mjobs, ends, Polled
<1>23. ASSUME NEW n \in Node, DecisionChecked(n) PROVE Polled'
  BY <1>23, <1>0 DEF DecisionChecked, ResumeRefused, Settle, Polled
<1>24. ASSUME NEW n \in Node, DecisionPinned(n) PROVE Polled'
  BY <1>24, <1>0 DEF DecisionPinned, FailRun, Schedule, mjobs, ends, Abort, Polled
<1>25. ASSUME NEW n \in Node, BudgetDecided(n) PROVE Polled'
  BY <1>25, <1>0 DEF BudgetDecided, Schedule, Acknowledged, FailRun, mjobs, ends, CanAuthorize, Abort, Polled
<1>26. ASSUME NEW n \in Node, MediaSubmitted(n) PROVE Polled'
  BY <1>26, <1>0 DEF MediaSubmitted, Schedule, stop, ends, Polled
<1>27. ASSUME NEW n \in Node, PollFailed(n) PROVE Polled'
  BY <1>27, <1>0 DEF PollFailed, SettleFailed, ends, FailRun, Abort, Polled
<1>28. ASSUME NEW n \in Node, PollAborted(n) PROVE Polled'
  BY <1>28, <1>0 DEF PollAborted, stop, ends, Polled
<1>29. ASSUME NEW n \in Node, PollDone(n) PROVE Polled'
  BY <1>29, <1>0 DEF PollDone, stop, ends, Polled
<1>30. ASSUME NEW n \in Node, MediaPinned(n) PROVE Polled'
  BY <1>30, <1>0 DEF MediaPinned, SettleFailed, ends, FailRun, Abort, Polled
<1>31. ASSUME NEW n \in Node, NEW v \in {"approve", "reject"}, BudgetDecision(n, v) PROVE Polled'
  BY <1>31, <1>0 DEF BudgetDecision, stop, mjobs, ends, Polled
<1>32. ASSUME NEW c \in callers, BudgetPrepared(c) PROVE Polled'
  BY <1>32, <1>0 DEF BudgetPrepared, ResumeRefused, Settle, Polled
<1>33. ASSUME NEW n \in Node \cup {NoNode}, Landed(n) PROVE Polled'
  BY <1>33, <1>0 DEF Landed, stop, mjobs, ends, Polled
<1> QED BY <1>1, <1>2, <1>3, <1>4, <1>5, <1>6, <1>7, <1>8, <1>9, <1>10, <1>11, <1>12, <1>13, <1>14, <1>15,
        <1>16, <1>17, <1>18, <1>19, <1>20, <1>21, <1>22, <1>23, <1>24, <1>25, <1>26, <1>27, <1>28, <1>29,
        <1>30, <1>31, <1>32, <1>33, StepCases

(* The abort signal and the reasons to stop agree. *)
LEMMA AbortsStep ==
    ASSUME TypeOK, Aborts, [Next]_vars
    PROVE  Aborts'
<1>0. /\ status \in [Node -> {"pending", "running", "paused"} \cup Settled]
      /\ failure \in {"none", "node", "cancelled", "internal", "run_timeout", "turn_limit", "stalled",
                     "durability", "effects", "budget_exceeded"}
      /\ aborted \in BOOLEAN /\ cancelling \in BOOLEAN /\ noNewDispatch \in BOOLEAN
  BY DEF TypeOK
<1>1. ASSUME UNCHANGED vars \/ PauseWritten \/ EndLoop \/ Start PROVE Aborts'
  BY <1>1, <1>0 DEF vars, graph, stop, ends, PauseWritten, EndLoop, Start, Aborts, Settled
<1>2. ASSUME SkipsFound PROVE Aborts'
  BY <1>2, <1>0 DEF SkipsFound, stop, ends, Aborts, Settled
<1>3. ASSUME NEW r \in BOOLEAN, AtPass, Conclude(r) PROVE Aborts'
  BY <1>3, <1>0 DEF Conclude, GoingOn, Settle, graph, AllSettled, AtPass, Aborts, Settled
<1>4. ASSUME NEW r \in BOOLEAN, AtPass, CeilingReached(r) PROVE Aborts'
  BY <1>4, <1>0 DEF CeilingReached, GoingOn, Abort, graph, ends, AllSettled, AtPass, Aborts, Settled
<1>5. ASSUME NEW r \in BOOLEAN, AtPass, Claim(r) PROVE Aborts'
  BY <1>5, <1>0 DEF Claim, GoingOn, stop, ends, AllSettled, AtPass, Aborts, Settled
<1>6. ASSUME NEW r \in BOOLEAN, AtPass, Idle(r) PROVE Aborts'
  BY <1>6, <1>0 DEF Idle, GoingOn, StillBusy, graph, ends, AllSettled, AtPass, Aborts, Settled
<1>7. ASSUME WaitAborted PROVE Aborts'
  BY <1>7, <1>0 DEF WaitAborted, GiveUpClaims, stop, ends, Aborts, Settled
<1>8. ASSUME Started PROVE Aborts'
  BY <1>8, <1>0 DEF Started, GiveUpClaims, SettleFailed, ends, FailRun, Abort, Aborts, Settled
<1>9. ASSUME Refused PROVE Aborts'
  BY <1>9, <1>0 DEF Refused, stop, ends, Aborts, Settled
<1>10. ASSUME Unwind PROVE Aborts'
  BY <1>10, <1>0 DEF Unwind, GiveUpClaims, stop, ends, Aborts, Settled
<1>11. ASSUME WaitFailed PROVE Aborts'
  BY <1>11, <1>0 DEF WaitFailed, SettleFailed, ends, FailRun, Abort, Aborts, Settled
<1>12. ASSUME AppendFailed PROVE Aborts'
  BY <1>12, <1>0 DEF AppendFailed, AppendUnderWay, Abort, Schedule, graph, ends, Aborts, Settled
<1>13. ASSUME RequestCancel PROVE Aborts'
  BY <1>13, <1>0 DEF RequestCancel, Abort, Schedule, graph, ends, Aborts, Settled
<1>14. ASSUME RunTimeout PROVE Aborts'
  BY <1>14, <1>0 DEF RunTimeout, Abort, graph, ends, Aborts, Settled
<1>15. ASSUME GraceElapsed PROVE Aborts'
  BY <1>15, <1>0 DEF GraceElapsed, graph, ends, Aborts, Settled
<1>16. ASSUME GraceSwept PROVE Aborts'
  BY <1>16, <1>0 DEF GraceSwept, Abandonable, Schedule, graph, ends, Aborts, Settled
<1>17. ASSUME PublishTerminal PROVE Aborts'
  BY <1>17, <1>0 DEF PublishTerminal, graph, Aborts, Settled
<1>18. ASSUME NEW n \in Node, GraceAbandons(n) PROVE Aborts'
  BY <1>18, <1>0 DEF GraceAbandons, Abandonable, SettleFailed, ends, FailRun, Abort, Aborts, Settled
<1>19. ASSUME NEW n \in Node, NodeDeadline(n) PROVE Aborts'
  BY <1>19, <1>0 DEF NodeDeadline, OpenForOutcome, SettleFailed, ends, FailRun, Abort, Aborts, Settled
<1>20. ASSUME NEW n \in Node,
              GateDecision(n) \/ RespondLate(n) \/ RespondRetryable(n) \/ PauseAcked(n)
       PROVE  Aborts'
  BY <1>20, <1>0 DEF GateDecision, graph, stop, ends, RespondLate, RespondRetryable, PauseAcked, Aborts, Settled
<1>21. ASSUME NEW n \in Node, GateTimeout(n) PROVE Aborts'
  BY <1>21, <1>0 DEF GateTimeout, SettleFailed, ends, FailRun, Abort, Aborts, Settled
<1>22. ASSUME NEW n \in Node, RespondCompleted(n) PROVE Aborts'
  BY <1>22, <1>0 DEF RespondCompleted, Executing, OpenForOutcome, stop, ends, Aborts, Settled
<1>23. ASSUME NEW n \in Node, RespondFailed(n) PROVE Aborts'
  BY <1>23, <1>0 DEF RespondFailed, Executing, OpenForOutcome, SettleFailed, ends, FailRun, Abort, Aborts,
        Settled
<1>24. ASSUME NEW n \in Node, RespondPaused(n) PROVE Aborts'
  BY <1>24, <1>0 DEF RespondPaused, Executing, OpenForOutcome, stop, ends, Aborts, Settled
<1>25. ASSUME NEW n \in Node, RespondMediaJob(n) PROVE Aborts'
  BY <1>25, <1>0 DEF RespondMediaJob, Executing, OpenForOutcome, stop, ends, Aborts, Settled
<1>26. ASSUME NEW n \in Node, BackoffOver(n) PROVE Aborts'
  BY <1>26, <1>0 DEF BackoffOver, OpenForOutcome, SettleFailed, ends, FailRun, Abort, Aborts, Settled
<1>27. ASSUME NEW n \in Node, Restarted(n) PROVE Aborts'
  BY <1>27, <1>0 DEF Restarted, SettleFailed, ends, FailRun, Abort, Aborts, Settled
<1>28. ASSUME NEW n \in Node,
              PausePublished(n) \/ MediaSubmitted(n) \/ PollAborted(n) \/ PollDone(n)
       PROVE  Aborts'
  BY <1>28, <1>0 DEF PausePublished, graph, stop, ends, MediaSubmitted, PollAborted, PollDone, Aborts, Settled
<1>29. ASSUME NEW n \in Node, DecisionChecked(n) PROVE Aborts'
  BY <1>29, <1>0 DEF DecisionChecked, ResumeRefused, graph, Settle, Aborts, Settled
<1>30. ASSUME NEW n \in Node, DecisionPinned(n) PROVE Aborts'
  BY <1>30, <1>0 DEF DecisionPinned, FailRun, Schedule, ends, Abort, Aborts, Settled
<1>31. ASSUME NEW n \in Node, BudgetDecided(n) PROVE Aborts'
  BY <1>31, <1>0 DEF BudgetDecided, Schedule, Acknowledged, FailRun, ends, CanAuthorize, Abort, Aborts,
        Settled
<1>32. ASSUME NEW n \in Node, PollFailed(n) PROVE Aborts'
  BY <1>32, <1>0 DEF PollFailed, OpenForOutcome, SettleFailed, ends, FailRun, Abort, Aborts, Settled
<1>33. ASSUME NEW n \in Node, MediaPinned(n) PROVE Aborts'
  BY <1>33, <1>0 DEF MediaPinned, OpenForOutcome, SettleFailed, ends, FailRun, Abort, Aborts, Settled
<1>34. ASSUME NEW n \in Node, NEW v \in {"approve", "reject"}, BudgetDecision(n, v) PROVE Aborts'
  BY <1>34, <1>0 DEF BudgetDecision, graph, stop, ends, Aborts, Settled
<1>35. ASSUME NEW c \in callers, BudgetPrepared(c) PROVE Aborts'
  BY <1>35, <1>0 DEF BudgetPrepared, ResumeRefused, graph, Settle, Aborts, Settled
<1>36. ASSUME NEW n \in Node \cup {NoNode}, Landed(n) PROVE Aborts'
  BY <1>36, <1>0 DEF Landed, graph, stop, ends, Aborts, Settled
<1> QED BY <1>1, <1>2, <1>3, <1>4, <1>5, <1>6, <1>7, <1>8, <1>9, <1>10, <1>11, <1>12, <1>13, <1>14, <1>15,
        <1>16, <1>17, <1>18, <1>19, <1>20, <1>21, <1>22, <1>23, <1>24, <1>25, <1>26, <1>27, <1>28, <1>29,
        <1>30, <1>31, <1>32, <1>33, <1>34, <1>35, <1>36, StepCases

(* A run that stalled starts nothing. *)
LEMMA StalledStep ==
    ASSUME TypeOK, LoopShape, Claimed, Working, Aborts, Stalled, [Next]_vars
    PROVE  Stalled'
<1>0. /\ status \in [Node -> {"pending", "running", "paused"} \cup Settled]
      /\ task \in [Node -> {"none", "executing", "backoff", "restarting"}]
      /\ failure \in {"none", "node", "cancelled", "internal", "run_timeout", "turn_limit", "stalled",
                     "durability", "effects", "budget_exceeded"}
  BY DEF TypeOK
<1>1. ASSUME UNCHANGED vars \/ PauseWritten \/ EndLoop \/ GraceElapsed PROVE Stalled'
  BY <1>1, <1>0 DEF vars, graph, pass, work, stop, ends, PauseWritten, EndLoop, GraceElapsed, Stalled, Running
<1>2. ASSUME SkipsFound PROVE Stalled'
  BY <1>2, <1>0 DEF SkipsFound, stop, ends, Stalled, Running
<1>3. ASSUME NEW r \in BOOLEAN, AtPass, Conclude(r) PROVE Stalled'
  BY <1>3, <1>0 DEF Conclude, GoingOn, Settle, graph, AllSettled, AtPass, Stalled, Running
<1>4. ASSUME NEW r \in BOOLEAN, AtPass, CeilingReached(r) PROVE Stalled'
  BY <1>4, <1>0 DEF CeilingReached, GoingOn, Abort, graph, work, ends, AllSettled, AtPass, Stalled, Running
<1>5. ASSUME NEW r \in BOOLEAN, AtPass, Claim(r) PROVE Stalled'
  BY <1>5, <1>0 DEF Claim, GoingOn, work, stop, ends, AllSettled, AtPass, Stalled, Running
<1>6. ASSUME NEW r \in BOOLEAN, AtPass, Idle(r) PROVE Stalled'
  BY <1>6, <1>0 DEF Idle, GoingOn, StillBusy, graph, work, ends, AllSettled, AtPass, Stalled, Running,
        Working, Aborts, LoopShape
<1>7. ASSUME WaitAborted PROVE Stalled'
  BY <1>7, <1>0 DEF WaitAborted, GiveUpClaims, work, stop, ends, Stalled, Running
<1>8. ASSUME Started PROVE Stalled'
  BY <1>8, <1>0 DEF Started, GiveUpClaims, SettleFailed, ends, FailRun, Abort, Stalled, Running, LoopShape
<1>9. ASSUME Refused PROVE Stalled'
  BY <1>9, <1>0 DEF Refused, work, stop, ends, Stalled, Running
<1>10. ASSUME Unwind PROVE Stalled'
  BY <1>10, <1>0 DEF Unwind, GiveUpClaims, work, stop, ends, Stalled, Running
<1>11. ASSUME Start PROVE Stalled'
  BY <1>11, <1>0 DEF Start, graph, stop, ends, Stalled, Running, LoopShape
<1>12. ASSUME WaitFailed PROVE Stalled'
  BY <1>12, <1>0 DEF WaitFailed, SettleFailed, work, ends, FailRun, Abort, Stalled, Running, LoopShape
<1>13. ASSUME AppendFailed PROVE Stalled'
  BY <1>13, <1>0 DEF AppendFailed, AppendUnderWay, Abort, Schedule, graph, work, ends, Stalled, Running
<1>14. ASSUME RequestCancel PROVE Stalled'
  BY <1>14, <1>0 DEF RequestCancel, Abort, Schedule, graph, work, ends, Stalled, Running
<1>15. ASSUME RunTimeout PROVE Stalled'
  BY <1>15, <1>0 DEF RunTimeout, Abort, graph, pass, ends, Stalled, Running
<1>16. ASSUME GraceSwept PROVE Stalled'
  BY <1>16, <1>0 DEF GraceSwept, Abandonable, Schedule, graph, work, ends, Stalled, Running
<1>17. ASSUME PublishTerminal PROVE Stalled'
  BY <1>17, <1>0 DEF PublishTerminal, graph, pass, work, Stalled, Running
<1>18. ASSUME NEW n \in Node, GraceAbandons(n) PROVE Stalled'
  BY <1>18, <1>0 DEF GraceAbandons, Abandonable, SettleFailed, pass, work, ends, FailRun, Abort, Stalled,
        Running
<1>19. ASSUME NEW n \in Node, NodeDeadline(n) PROVE Stalled'
  BY <1>19, <1>0 DEF NodeDeadline, OpenForOutcome, SettleFailed, pass, ends, FailRun, Abort, Stalled, Running
<1>20. ASSUME NEW n \in Node,
              GateDecision(n) \/ PauseAcked(n) \/ PausePublished(n) \/ MediaSubmitted(n)
       PROVE  Stalled'
  BY <1>20, <1>0 DEF GateDecision, graph, pass, work, stop, ends, PauseAcked, PausePublished, MediaSubmitted,
        Stalled, Running
<1>21. ASSUME NEW n \in Node, GateTimeout(n) PROVE Stalled'
  BY <1>21, <1>0 DEF GateTimeout, SettleFailed, pass, ends, FailRun, Abort, Stalled, Running
<1>22. ASSUME NEW n \in Node, RespondLate(n) PROVE Stalled'
  BY <1>22, <1>0 DEF RespondLate, Executing, OpenForOutcome, Finish, graph, pass, stop, ends, Stalled, Running
<1>23. ASSUME NEW n \in Node, RespondCompleted(n) PROVE Stalled'
  BY <1>23, <1>0 DEF RespondCompleted, Executing, OpenForOutcome, Finish, pass, stop, ends, Stalled, Running
<1>24. ASSUME NEW n \in Node, RespondFailed(n) PROVE Stalled'
  BY <1>24, <1>0 DEF RespondFailed, Executing, OpenForOutcome, SettleFailed, Finish, pass, ends, FailRun,
        Abort, Stalled, Running
<1>25. ASSUME NEW n \in Node, RespondRetryable(n) PROVE Stalled'
  BY <1>25, <1>0 DEF RespondRetryable, Executing, OpenForOutcome, ShouldRetry, graph, pass, stop, ends,
        Stalled, Running
<1>26. ASSUME NEW n \in Node, RespondPaused(n) PROVE Stalled'
  BY <1>26, <1>0 DEF RespondPaused, Executing, OpenForOutcome, Finish, pass, stop, ends, Stalled, Running
<1>27. ASSUME NEW n \in Node, RespondMediaJob(n) PROVE Stalled'
  BY <1>27, <1>0 DEF RespondMediaJob, Executing, OpenForOutcome, Finish, pass, stop, ends, Stalled, Running
<1>28. ASSUME NEW n \in Node, BackoffOver(n) PROVE Stalled'
  BY <1>28, <1>0 DEF BackoffOver, Finish, OpenForOutcome, SettleFailed, pass, ends, FailRun, Abort, Stalled,
        Running
<1>29. ASSUME NEW n \in Node, Restarted(n) PROVE Stalled'
  BY <1>29, <1>0 DEF Restarted, Finish, SettleFailed, pass, ends, FailRun, Abort, Stalled, Running
<1>30. ASSUME NEW n \in Node, DecisionChecked(n) PROVE Stalled'
  BY <1>30, <1>0 DEF DecisionChecked, ResumeRefused, graph, pass, Settle, Stalled, Running
<1>31. ASSUME NEW n \in Node, DecisionPinned(n) PROVE Stalled'
  BY <1>31, <1>0 DEF DecisionPinned, FailRun, Schedule, ends, Abort, Stalled, Running
<1>32. ASSUME NEW n \in Node, BudgetDecided(n) PROVE Stalled'
  BY <1>32, <1>0 DEF BudgetDecided, Schedule, Acknowledged, FailRun, ends, CanAuthorize, Abort, Stalled,
        Running
<1>33. ASSUME NEW n \in Node, PollFailed(n) PROVE Stalled'
  BY <1>33, <1>0 DEF PollFailed, OpenForOutcome, SettleFailed, pass, ends, FailRun, Abort, Stalled, Running
<1>34. ASSUME NEW n \in Node, PollAborted(n) \/ PollDone(n) PROVE Stalled'
  BY <1>34, <1>0 DEF PollAborted, graph, pass, work, stop, ends, PollDone, Stalled, Running
<1>35. ASSUME NEW n \in Node, MediaPinned(n) PROVE Stalled'
  BY <1>35, <1>0 DEF MediaPinned, OpenForOutcome, SettleFailed, pass, ends, FailRun, Abort, Stalled, Running
<1>36. ASSUME NEW n \in Node, NEW v \in {"approve", "reject"}, BudgetDecision(n, v) PROVE Stalled'
  BY <1>36, <1>0 DEF BudgetDecision, graph, pass, work, stop, ends, Stalled, Running
<1>37. ASSUME NEW c \in callers, BudgetPrepared(c) PROVE Stalled'
  BY <1>37, <1>0 DEF BudgetPrepared, ResumeRefused, graph, pass, Settle, Stalled, Running
<1>38. ASSUME NEW n \in Node \cup {NoNode}, Landed(n) PROVE Stalled'
  BY <1>38, <1>0 DEF Landed, graph, stop, ends, Stalled, Running
<1> QED BY <1>1, <1>2, <1>3, <1>4, <1>5, <1>6, <1>7, <1>8, <1>9, <1>10, <1>11, <1>12, <1>13, <1>14, <1>15,
        <1>16, <1>17, <1>18, <1>19, <1>20, <1>21, <1>22, <1>23, <1>24, <1>25, <1>26, <1>27, <1>28, <1>29,
        <1>30, <1>31, <1>32, <1>33, <1>34, <1>35, <1>36, <1>37, <1>38, StepCases

(* Nothing is claimed or started twice. *)
LEMMA DistinctStep ==
    ASSUME TypeOK, LoopShape, Distinct, [Next]_vars
    PROVE  Distinct'
<1>0. /\ claims \in Seq(Node)
  BY DEF TypeOK
<1>1. ASSUME UNCHANGED vars \/ RunTimeout \/ GraceElapsed \/ PublishTerminal PROVE Distinct'
  BY <1>1, <1>0, SameClaims DEF vars, pass, RunTimeout, GraceElapsed, PublishTerminal, Distinct
<1>2. ASSUME SkipsFound PROVE Distinct'
  BY <1>2, <1>0, SameClaims DEF SkipsFound, Distinct
<1>3. ASSUME NEW r \in BOOLEAN, AtPass, Conclude(r) PROVE Distinct'
  BY <1>3, <1>0, SameClaims DEF Conclude, EndPass, AtPass, Distinct
<1>4. ASSUME NEW r \in BOOLEAN, AtPass, CeilingReached(r) PROVE Distinct'
  BY <1>4, <1>0, SameClaims DEF CeilingReached, EndPass, AtPass, Distinct
<1>5. ASSUME NEW r \in BOOLEAN, AtPass, Claim(r) PROVE Distinct'
  <2>1. claims' = Ready /\ loop' = "waiting" /\ DOMAIN Ready = 1..Len(Ready)
    BY <1>5, BatchFacts DEF Claim
  <2> QED BY <2>1, BatchFacts DEF Distinct
<1>6. ASSUME NEW r \in BOOLEAN, AtPass, Idle(r) PROVE Distinct'
  BY <1>6, <1>0, SameClaims DEF Idle, EndPass, AtPass, Distinct
<1>7. ASSUME PauseWritten PROVE Distinct'
  BY <1>7, <1>0, SameClaims DEF PauseWritten, EndPass, Distinct
<1>8. ASSUME WaitAborted PROVE Distinct'
  BY <1>8, <1>0, GiveUpFacts DEF WaitAborted, Distinct
<1>9. ASSUME Started PROVE Distinct'
  <2>1. CASE GiveUpClaims
    BY <2>1, GiveUpFacts DEF Distinct
  <2>2. CASE ~ GiveUpClaims
    BY <1>9, <2>2, SameClaims DEF Started, Distinct
  <2> QED BY <2>1, <2>2
<1>10. ASSUME Refused PROVE Distinct'
  BY <1>10, <1>0, RefusedFacts DEF Refused, Distinct
<1>11. ASSUME Unwind PROVE Distinct'
  BY <1>11, <1>0, GiveUpFacts DEF Unwind, Distinct
<1>12. ASSUME EndLoop PROVE Distinct'
  BY <1>12, <1>0, SameClaims DEF EndLoop, Distinct
<1>13. ASSUME Start PROVE Distinct'
  <2>1. claims # <<>> /\ starting' = Head(claims) /\ claims' = Tail(claims)
    BY <1>13 DEF Start, LoopShape
  <2>2. /\ Len(claims) \in Nat \ {0} /\ DOMAIN claims = 1..Len(claims) /\ Head(claims) = claims[1]
        /\ DOMAIN Tail(claims) = 1..(Len(claims) - 1)
        /\ \A i \in 1..(Len(claims) - 1) : Tail(claims)[i] = claims[i + 1] /\ i + 1 \in 1..Len(claims)
    BY <1>0, <2>1
  <2>3. \A i, j \in 1..Len(claims) : claims[i] = claims[j] => i = j
    BY <2>2 DEF Distinct
  <2>4. \A i, j \in 1..(Len(claims) - 1) : Tail(claims)[i] = Tail(claims)[j] => i = j
    <3> SUFFICES ASSUME NEW i \in 1..(Len(claims) - 1), NEW j \in 1..(Len(claims) - 1), Tail(claims)[i] = Tail(claims)[j]
                 PROVE  i = j
      OBVIOUS
    <3>1. i + 1 = j + 1
      BY <2>2, <2>3
    <3> QED BY <2>2, <3>1
  <2>5. \A i \in 1..(Len(claims) - 1) : Tail(claims)[i] # claims[1]
    <3> SUFFICES ASSUME NEW i \in 1..(Len(claims) - 1), Tail(claims)[i] = claims[1] PROVE FALSE
      OBVIOUS
    <3>1. i + 1 = 1
      BY <2>2, <2>3
    <3> QED BY <2>2, <3>1
  <2>6. Unstarted' = {Tail(claims)[i] : i \in 1..(Len(claims) - 1)}
    BY <2>1, <2>2 DEF Unstarted
  <2> QED BY <2>1, <2>2, <2>4, <2>5, <2>6 DEF Distinct
<1>14. ASSUME WaitFailed PROVE Distinct'
  BY <1>14, <1>0, SameClaims DEF WaitFailed, Distinct
<1>15. ASSUME AppendFailed PROVE Distinct'
  BY <1>15, <1>0, SameClaims DEF AppendFailed, AppendUnderWay, Schedule, Distinct
<1>16. ASSUME RequestCancel PROVE Distinct'
  BY <1>16, <1>0, SameClaims DEF RequestCancel, Schedule, Distinct
<1>17. ASSUME GraceSwept PROVE Distinct'
  BY <1>17, <1>0, SameClaims DEF GraceSwept, Abandonable, Schedule, Distinct
<1>18. ASSUME NEW n \in Node,
              GraceAbandons(n) \/ NodeDeadline(n) \/ GateDecision(n) \/ GateTimeout(n)
       PROVE  Distinct'
  BY <1>18, <1>0, SameClaims DEF GraceAbandons, pass, NodeDeadline, GateDecision, GateTimeout, Distinct
<1>19. ASSUME NEW n \in Node,
              RespondLate(n) \/ RespondCompleted(n) \/ RespondFailed(n) \/ RespondRetryable(n)
       PROVE  Distinct'
  BY <1>19, <1>0, SameClaims DEF RespondLate, pass, RespondCompleted, RespondFailed, RespondRetryable, Distinct
<1>20. ASSUME NEW n \in Node,
              RespondPaused(n) \/ RespondMediaJob(n) \/ BackoffOver(n) \/ Restarted(n)
       PROVE  Distinct'
  BY <1>20, <1>0, SameClaims DEF RespondPaused, pass, RespondMediaJob, BackoffOver, Restarted, Distinct
<1>21. ASSUME NEW n \in Node,
              PauseAcked(n) \/ DecisionChecked(n) \/ PollFailed(n) \/ PollAborted(n)
       PROVE  Distinct'
  BY <1>21, <1>0, SameClaims DEF PauseAcked, pass, DecisionChecked, PollFailed, PollAborted, Distinct
<1>22. ASSUME NEW n \in Node, PausePublished(n) PROVE Distinct'
  BY <1>22, <1>0, SameClaims DEF PausePublished, Schedule, Distinct
<1>23. ASSUME NEW n \in Node, DecisionPinned(n) PROVE Distinct'
  BY <1>23, <1>0, SameClaims DEF DecisionPinned, Schedule, Distinct
<1>24. ASSUME NEW n \in Node, BudgetDecided(n) PROVE Distinct'
  BY <1>24, <1>0, SameClaims DEF BudgetDecided, Schedule, Distinct
<1>25. ASSUME NEW n \in Node, MediaSubmitted(n) PROVE Distinct'
  BY <1>25, <1>0, SameClaims DEF MediaSubmitted, Schedule, Distinct
<1>26. ASSUME NEW n \in Node, PollDone(n) \/ MediaPinned(n) PROVE Distinct'
  BY <1>26, <1>0, SameClaims DEF PollDone, pass, MediaPinned, Distinct
<1>27. ASSUME NEW n \in Node, NEW v \in {"approve", "reject"}, BudgetDecision(n, v) PROVE Distinct'
  BY <1>27, <1>0, SameClaims DEF BudgetDecision, pass, Distinct
<1>28. ASSUME NEW c \in callers, BudgetPrepared(c) PROVE Distinct'
  BY <1>28, <1>0, SameClaims DEF BudgetPrepared, pass, Distinct
<1>29. ASSUME NEW n \in Node \cup {NoNode}, Landed(n) PROVE Distinct'
  BY <1>29, <1>0, SameClaims DEF Landed, Schedule, Distinct
<1> QED BY <1>1, <1>2, <1>3, <1>4, <1>5, <1>6, <1>7, <1>8, <1>9, <1>10, <1>11, <1>12, <1>13, <1>14, <1>15,
        <1>16, <1>17, <1>18, <1>19, <1>20, <1>21, <1>22, <1>23, <1>24, <1>25, <1>26, <1>27, <1>28, <1>29,
        StepCases

(* Nothing is started behind the sweep. *)
LEMMA SweptStep ==
    ASSUME TypeOK, Aborts, Swept, [Next]_vars
    PROVE  Swept'
<1>0. /\ status \in [Node -> {"pending", "running", "paused"} \cup Settled]
  BY DEF TypeOK
<1>1. ASSUME UNCHANGED vars \/ PauseWritten \/ EndLoop \/ PublishTerminal PROVE Swept'
  BY <1>1, <1>0, SameClaims DEF vars, graph, pass, stop, ends, PauseWritten, EndLoop, PublishTerminal, Swept,
        Running
<1>2. ASSUME SkipsFound PROVE Swept'
  BY <1>2, <1>0, SameClaims DEF SkipsFound, stop, ends, Swept, Running
<1>3. ASSUME NEW r \in BOOLEAN, AtPass, Conclude(r) PROVE Swept'
  BY <1>3, <1>0, SameClaims DEF Conclude, GoingOn, Settle, graph, AllSettled, AtPass, Swept, Running
<1>4. ASSUME NEW r \in BOOLEAN, AtPass, CeilingReached(r) PROVE Swept'
  BY <1>4, <1>0, SameClaims DEF CeilingReached, GoingOn, Abort, graph, ends, AllSettled, AtPass, Swept,
        Running
<1>5. ASSUME NEW r \in BOOLEAN, AtPass, Claim(r) PROVE Swept'
  BY <1>5  DEF AtPass, Claim, GoingOn, stop, ends, Aborts, Swept
<1>6. ASSUME NEW r \in BOOLEAN, AtPass, Idle(r) PROVE Swept'
  BY <1>6, <1>0, SameClaims DEF Idle, graph, ends, Swept, Running
<1>7. ASSUME WaitAborted PROVE Swept'
  BY <1>7, <1>0, GiveUpFacts DEF WaitAborted, stop, ends, Swept, Running
<1>8. ASSUME Started PROVE Swept'
  <2>1. UNCHANGED <<noNewDispatch, terminal>> /\ (grace' = grace \/ (grace = "off" /\ ~ noNewDispatch))
    BY <1>8 DEF Started, SettleFailed, FailRun, Abort, ends
  <2>2. CASE GiveUpClaims
    BY <1>8, <1>0, <2>2, GiveUpFacts DEF Started, Swept, Running
  <2>3. CASE ~ GiveUpClaims
    BY <1>8, <1>0, <2>1, <2>3, SameClaims DEF Started, SettleFailed, Swept, Running
  <2> QED BY <2>2, <2>3
<1>9. ASSUME Refused PROVE Swept'
  BY <1>9, <1>0, RefusedFacts DEF Refused, stop, ends, Swept, Running
<1>10. ASSUME Unwind PROVE Swept'
  BY <1>10  DEF Unwind, ends, Swept
<1>11. ASSUME Start PROVE Swept'
  BY <1>11  DEF Start, Aborts, stop, Swept
<1>12. ASSUME WaitFailed PROVE Swept'
  BY <1>12, <1>0, SameClaims DEF WaitFailed, SettleFailed, ends, FailRun, Abort, Swept, Running, Aborts
<1>13. ASSUME AppendFailed PROVE Swept'
  BY <1>13, <1>0, SameClaims DEF AppendFailed, AppendUnderWay, Abort, Schedule, graph, ends, Swept, Running
<1>14. ASSUME RequestCancel PROVE Swept'
  BY <1>14, <1>0, SameClaims DEF RequestCancel, Abort, Schedule, graph, ends, Swept, Running
<1>15. ASSUME RunTimeout PROVE Swept'
  BY <1>15, <1>0, SameClaims DEF RunTimeout, Abort, graph, pass, ends, Swept, Running
<1>16. ASSUME GraceElapsed PROVE Swept'
  BY <1>16, <1>0, SameClaims DEF GraceElapsed, graph, pass, ends, Swept, Running
<1>17. ASSUME GraceSwept PROVE Swept'
  BY <1>17, <1>0, SameClaims DEF GraceSwept, Abandonable, Schedule, graph, ends, Swept, Running
<1>18. ASSUME NEW n \in Node, GraceAbandons(n) PROVE Swept'
  BY <1>18, <1>0, SameClaims DEF GraceAbandons, Abandonable, SettleFailed, pass, ends, FailRun, Abort, Swept,
        Running
<1>19. ASSUME NEW n \in Node, NodeDeadline(n) PROVE Swept'
  BY <1>19, <1>0, SameClaims DEF NodeDeadline, OpenForOutcome, SettleFailed, pass, ends, FailRun, Abort,
        Swept, Running
<1>20. ASSUME NEW n \in Node,
              GateDecision(n) \/ RespondLate(n) \/ RespondRetryable(n) \/ PauseAcked(n)
       PROVE  Swept'
  BY <1>20, <1>0, SameClaims DEF GateDecision, graph, pass, stop, ends, RespondLate, RespondRetryable,
        PauseAcked, Swept, Running
<1>21. ASSUME NEW n \in Node, GateTimeout(n) PROVE Swept'
  BY <1>21, <1>0, SameClaims DEF GateTimeout, SettleFailed, pass, ends, FailRun, Abort, Swept, Running
<1>22. ASSUME NEW n \in Node, RespondCompleted(n) PROVE Swept'
  BY <1>22, <1>0, SameClaims DEF RespondCompleted, Executing, OpenForOutcome, pass, stop, ends, Swept, Running
<1>23. ASSUME NEW n \in Node, RespondFailed(n) PROVE Swept'
  BY <1>23, <1>0, SameClaims DEF RespondFailed, Executing, OpenForOutcome, SettleFailed, pass, ends, FailRun,
        Abort, Swept, Running
<1>24. ASSUME NEW n \in Node, RespondPaused(n) PROVE Swept'
  BY <1>24, <1>0, SameClaims DEF RespondPaused, Executing, OpenForOutcome, pass, stop, ends, Swept, Running
<1>25. ASSUME NEW n \in Node, RespondMediaJob(n) PROVE Swept'
  BY <1>25, <1>0, SameClaims DEF RespondMediaJob, Executing, OpenForOutcome, pass, stop, ends, Swept, Running
<1>26. ASSUME NEW n \in Node, BackoffOver(n) PROVE Swept'
  BY <1>26, <1>0, SameClaims DEF BackoffOver, OpenForOutcome, SettleFailed, pass, ends, FailRun, Abort,
        Swept, Running
<1>27. ASSUME NEW n \in Node, Restarted(n) PROVE Swept'
  BY <1>27, <1>0, SameClaims DEF Restarted, SettleFailed, pass, ends, FailRun, Abort, Swept, Running
<1>28. ASSUME NEW n \in Node,
              PausePublished(n) \/ MediaSubmitted(n) \/ PollAborted(n) \/ PollDone(n)
       PROVE  Swept'
  BY <1>28, <1>0, SameClaims DEF PausePublished, graph, stop, ends, MediaSubmitted, PollAborted, pass, PollDone,
        Swept, Running
<1>29. ASSUME NEW n \in Node, DecisionChecked(n) PROVE Swept'
  BY <1>29, <1>0, SameClaims DEF DecisionChecked, ResumeRefused, graph, pass, Settle, Swept, Running
<1>30. ASSUME NEW n \in Node, DecisionPinned(n) PROVE Swept'
  BY <1>30, <1>0, SameClaims DEF DecisionPinned, FailRun, Schedule, ends, Abort, Swept, Running
<1>31. ASSUME NEW n \in Node, BudgetDecided(n) PROVE Swept'
  BY <1>31, <1>0, SameClaims DEF BudgetDecided, Schedule, Acknowledged, FailRun, ends, CanAuthorize, Abort,
        Swept, Running
<1>32. ASSUME NEW n \in Node, PollFailed(n) PROVE Swept'
  BY <1>32, <1>0, SameClaims DEF PollFailed, OpenForOutcome, SettleFailed, pass, ends, FailRun, Abort, Swept,
        Running
<1>33. ASSUME NEW n \in Node, MediaPinned(n) PROVE Swept'
  BY <1>33, <1>0, SameClaims DEF MediaPinned, OpenForOutcome, SettleFailed, pass, ends, FailRun, Abort,
        Swept, Running
<1>34. ASSUME NEW n \in Node, NEW v \in {"approve", "reject"}, BudgetDecision(n, v) PROVE Swept'
  BY <1>34, <1>0, SameClaims DEF BudgetDecision, graph, pass, stop, ends, Swept, Running
<1>35. ASSUME NEW c \in callers, BudgetPrepared(c) PROVE Swept'
  BY <1>35, <1>0, SameClaims DEF BudgetPrepared, ResumeRefused, graph, pass, Settle, Swept, Running
<1>36. ASSUME NEW n \in Node \cup {NoNode}, Landed(n) PROVE Swept'
  BY <1>36, <1>0, SameClaims DEF Landed, graph, stop, ends, Swept, Running
<1> QED BY <1>1, <1>2, <1>3, <1>4, <1>5, <1>6, <1>7, <1>8, <1>9, <1>10, <1>11, <1>12, <1>13, <1>14, <1>15,
        <1>16, <1>17, <1>18, <1>19, <1>20, <1>21, <1>22, <1>23, <1>24, <1>25, <1>26, <1>27, <1>28, <1>29,
        <1>30, <1>31, <1>32, <1>33, <1>34, <1>35, <1>36, StepCases

(* A running vertex has somebody who will report on it. *)
LEMMA AttendedStep ==
    ASSUME TypeOK, LoopShape, Claimed, Working, Attended, [Next]_vars
    PROVE  Attended'
<1>0. /\ status \in [Node -> {"pending", "running", "paused"} \cup Settled]
      /\ task \in [Node -> {"none", "executing", "backoff", "restarting"}]
  BY DEF TypeOK
<1>1. ASSUME UNCHANGED vars \/ PauseWritten \/ EndLoop \/ AppendFailed PROVE Attended'
  BY <1>1, <1>0, SameClaims DEF vars, graph, pass, work, stop, ends, PauseWritten, EndLoop, AppendFailed,
        Attended, Running
<1>2. ASSUME SkipsFound PROVE Attended'
  BY <1>2, <1>0, SameClaims DEF SkipsFound, stop, ends, Attended, Running
<1>3. ASSUME NEW r \in BOOLEAN, AtPass, Conclude(r) PROVE Attended'
  BY <1>3, <1>0, SameClaims DEF Conclude, GoingOn, Settle, graph, AllSettled, AtPass, Attended, Running
<1>4. ASSUME NEW r \in BOOLEAN, AtPass, CeilingReached(r) PROVE Attended'
  BY <1>4, <1>0, SameClaims DEF CeilingReached, graph, work, ends, Attended, Running
<1>5. ASSUME NEW r \in BOOLEAN, AtPass, Claim(r) PROVE Attended'
  BY <1>5, <1>0, ClaimFacts, NoneClaimed DEF AtPass, LoopShape, Claim, work, stop, ends, Attended, Running
<1>6. ASSUME NEW r \in BOOLEAN, AtPass, Idle(r) PROVE Attended'
  BY <1>6, <1>0, SameClaims DEF Idle, graph, work, ends, Attended, Running
<1>7. ASSUME WaitAborted PROVE Attended'
  BY <1>7, <1>0, GiveUpFacts DEF WaitAborted, LoopShape, work, stop, ends, Attended, Running
<1>8. ASSUME Started PROVE Attended'
  <2>1. CASE noNewDispatch
    BY <1>8, <2>1 DEF Started, Attended
  <2>2. CASE ~ noNewDispatch
    BY <1>8, <1>0, <2>2, SameClaims DEF Started, SettleFailed, LoopShape, Attended, Running, Settled
  <2> QED BY <2>1, <2>2
<1>9. ASSUME Refused PROVE Attended'
  BY <1>9, <1>0, RefusedFacts DEF Refused, Claimed, work, stop, ends, Attended, Running
<1>10. ASSUME Unwind PROVE Attended'
  BY <1>10  DEF Unwind, ends, Attended
<1>11. ASSUME Start PROVE Attended'
  BY <1>11, <1>0, StartFacts, Plan DEF Start, LoopShape, graph, stop, ends, Attended, Running
<1>12. ASSUME WaitFailed PROVE Attended'
  BY <1>12, <1>0, SameClaims, Plan DEF WaitFailed, LoopShape, SettleFailed, work, ends, Attended, Running
<1>13. ASSUME RequestCancel \/ RunTimeout \/ GraceSwept \/ PublishTerminal PROVE Attended'
  BY <1>13, <1>0, SameClaims DEF RequestCancel, graph, work, ends, RunTimeout, pass, GraceSwept,
        PublishTerminal, Attended, Running
<1>14. ASSUME GraceElapsed PROVE Attended'
  BY <1>14, <1>0, SameClaims DEF GraceElapsed, graph, pass, ends, Attended, Running
<1>15. ASSUME NEW n \in Node, GraceAbandons(n) PROVE Attended'
  BY <1>15, <1>0, SameClaims DEF GraceAbandons, Abandonable, SettleFailed, pass, work, ends, Attended, Running
<1>16. ASSUME NEW n \in Node, NodeDeadline(n) PROVE Attended'
  BY <1>16, <1>0, SameClaims DEF NodeDeadline, OpenForOutcome, SettleFailed, pass, ends, Attended, Running
<1>17. ASSUME NEW n \in Node,
              GateDecision(n) \/ PauseAcked(n) \/ PausePublished(n) \/ MediaSubmitted(n)
       PROVE  Attended'
  BY <1>17, <1>0, SameClaims DEF GateDecision, graph, pass, work, stop, ends, PauseAcked, PausePublished,
        MediaSubmitted, Attended, Running
<1>18. ASSUME NEW n \in Node, GateTimeout(n) PROVE Attended'
  BY <1>18, <1>0, SameClaims DEF GateTimeout, SettleFailed, pass, ends, Attended, Running
<1>19. ASSUME NEW n \in Node, RespondLate(n) PROVE Attended'
  BY <1>19, <1>0, SameClaims DEF RespondLate, Executing, OpenForOutcome, Finish, graph, pass, stop, ends,
        Attended, Running, Settled
<1>20. ASSUME NEW n \in Node, RespondCompleted(n) PROVE Attended'
  BY <1>20, <1>0, SameClaims DEF RespondCompleted, Executing, OpenForOutcome, Finish, pass, stop, ends,
        Attended, Running
<1>21. ASSUME NEW n \in Node, RespondFailed(n) PROVE Attended'
  BY <1>21, <1>0, SameClaims DEF RespondFailed, Executing, OpenForOutcome, SettleFailed, Finish, pass, ends,
        Attended, Running
<1>22. ASSUME NEW n \in Node, RespondRetryable(n) PROVE Attended'
  BY <1>22, <1>0, SameClaims DEF RespondRetryable, Executing, OpenForOutcome, ShouldRetry, graph, pass, stop,
        ends, Attended, Running
<1>23. ASSUME NEW n \in Node, RespondPaused(n) PROVE Attended'
  BY <1>23, <1>0, SameClaims DEF RespondPaused, Executing, OpenForOutcome, Finish, pass, stop, ends,
        Attended, Running
<1>24. ASSUME NEW n \in Node, RespondMediaJob(n) PROVE Attended'
  BY <1>24, <1>0, SameClaims DEF RespondMediaJob, Executing, OpenForOutcome, Finish, pass, stop, ends,
        Attended, Running
<1>25. ASSUME NEW n \in Node, BackoffOver(n) PROVE Attended'
  BY <1>25, <1>0, SameClaims DEF BackoffOver, Finish, OpenForOutcome, SettleFailed, pass, ends, Attended,
        Running, Settled
<1>26. ASSUME NEW n \in Node, Restarted(n) PROVE Attended'
  BY <1>26, <1>0, SameClaims DEF Restarted, Finish, SettleFailed, pass, ends, Attended, Running, Settled
<1>27. ASSUME NEW n \in Node, DecisionChecked(n) PROVE Attended'
  BY <1>27, <1>0, SameClaims DEF DecisionChecked, ResumeRefused, graph, pass, Settle, Attended, Running
<1>28. ASSUME NEW n \in Node, DecisionPinned(n) PROVE Attended'
  BY <1>28, <1>0, SameClaims DEF DecisionPinned, Schedule, ends, Attended, Running
<1>29. ASSUME NEW n \in Node, BudgetDecided(n) PROVE Attended'
  BY <1>29, <1>0, SameClaims DEF BudgetDecided, Schedule, Acknowledged, ends, CanAuthorize, Attended, Running
<1>30. ASSUME NEW n \in Node, PollFailed(n) PROVE Attended'
  BY <1>30, <1>0, SameClaims DEF PollFailed, OpenForOutcome, SettleFailed, pass, ends, Attended, Running
<1>31. ASSUME NEW n \in Node, PollAborted(n) \/ PollDone(n) PROVE Attended'
  BY <1>31, <1>0, SameClaims DEF PollAborted, graph, pass, work, stop, ends, PollDone, Attended, Running
<1>32. ASSUME NEW n \in Node, MediaPinned(n) PROVE Attended'
  BY <1>32, <1>0, SameClaims DEF MediaPinned, OpenForOutcome, SettleFailed, pass, ends, Attended, Running
<1>33. ASSUME NEW n \in Node, NEW v \in {"approve", "reject"}, BudgetDecision(n, v) PROVE Attended'
  BY <1>33, <1>0, SameClaims DEF BudgetDecision, graph, pass, work, stop, ends, Attended, Running
<1>34. ASSUME NEW c \in callers, BudgetPrepared(c) PROVE Attended'
  BY <1>34, <1>0, SameClaims DEF BudgetPrepared, ResumeRefused, graph, pass, Settle, Attended, Running
<1>35. ASSUME NEW n \in Node \cup {NoNode}, Landed(n) PROVE Attended'
  BY <1>35, <1>0, SameClaims DEF Landed, graph, stop, ends, Attended, Running
<1> QED BY <1>1, <1>2, <1>3, <1>4, <1>5, <1>6, <1>7, <1>8, <1>9, <1>10, <1>11, <1>12, <1>13, <1>14, <1>15,
        <1>16, <1>17, <1>18, <1>19, <1>20, <1>21, <1>22, <1>23, <1>24, <1>25, <1>26, <1>27, <1>28, <1>29,
        <1>30, <1>31, <1>32, <1>33, <1>34, <1>35, StepCases

(* A completed run has nothing left. *)
LEMMA CompleteStep ==
    ASSUME TypeOK, Aborts, Complete, [Next]_vars
    PROVE  Complete'
<1>0. /\ status \in [Node -> {"pending", "running", "paused"} \cup Settled] /\ cancelling \in BOOLEAN
  BY DEF TypeOK
<1>1. ASSUME UNCHANGED vars \/ PauseWritten \/ EndLoop \/ Start PROVE Complete'
  BY <1>1, <1>0 DEF vars, graph, stop, mjobs, ends, PauseWritten, EndLoop, Start, Complete, Settled
<1>2. ASSUME SkipsFound PROVE Complete'
  BY <1>2, <1>0 DEF SkipsFound, stop, mjobs, ends, Complete, Settled
<1>3. ASSUME NEW r \in BOOLEAN, AtPass, Conclude(r) PROVE Complete'
  BY <1>3, <1>0 DEF Conclude, GoingOn, Settle, graph, AllSettled, AtPass, Complete, Settled, Aborts
<1>4. ASSUME NEW r \in BOOLEAN, AtPass /\ (CeilingReached(r) \/ Idle(r)) PROVE Complete'
  BY <1>4, <1>0 DEF CeilingReached, graph, mjobs, ends, Idle, Complete, Settled
<1>5. ASSUME NEW r \in BOOLEAN, AtPass, Claim(r) PROVE Complete'
  BY <1>5, <1>0 DEF Claim, GoingOn, stop, mjobs, ends, AllSettled, AtPass, Complete, Settled
<1>6. ASSUME WaitAborted PROVE Complete'
  BY <1>6, <1>0 DEF WaitAborted, GiveUpClaims, stop, mjobs, ends, Complete, Settled
<1>7. ASSUME Started PROVE Complete'
  BY <1>7, <1>0 DEF Started, GiveUpClaims, SettleFailed, mjobs, ends, FailRun, Complete, Settled
<1>8. ASSUME Refused PROVE Complete'
  BY <1>8, <1>0 DEF Refused, stop, mjobs, ends, Complete, Settled
<1>9. ASSUME Unwind PROVE Complete'
  BY <1>9, <1>0, GiveUpFacts DEF Unwind, stop, mjobs, ends, Complete
<1>10. ASSUME WaitFailed PROVE Complete'
  BY <1>10, <1>0 DEF WaitFailed, SettleFailed, mjobs, ends, FailRun, Complete, Settled
<1>11. ASSUME AppendFailed \/ RunTimeout \/ GraceElapsed \/ GraceSwept PROVE Complete'
  BY <1>11, <1>0 DEF AppendFailed, graph, mjobs, ends, RunTimeout, GraceElapsed, GraceSwept, Complete, Settled
<1>12. ASSUME RequestCancel PROVE Complete'
  BY <1>12, <1>0 DEF RequestCancel, Schedule, graph, mjobs, ends, Complete, Settled
<1>13. ASSUME PublishTerminal PROVE Complete'
  BY <1>13, <1>0 DEF PublishTerminal, graph, mjobs, Complete, Settled
<1>14. ASSUME NEW n \in Node, GraceAbandons(n) PROVE Complete'
  BY <1>14, <1>0 DEF GraceAbandons, Abandonable, SettleFailed, mjobs, ends, FailRun, Complete, Settled
<1>15. ASSUME NEW n \in Node, NodeDeadline(n) PROVE Complete'
  BY <1>15, <1>0 DEF NodeDeadline, OpenForOutcome, SettleFailed, mjobs, ends, FailRun, Complete, Settled
<1>16. ASSUME NEW n \in Node,
              GateDecision(n) \/ RespondLate(n) \/ RespondRetryable(n) \/ PauseAcked(n)
       PROVE  Complete'
  BY <1>16, <1>0 DEF GateDecision, graph, stop, mjobs, ends, RespondLate, RespondRetryable, PauseAcked,
        Complete, Settled
<1>17. ASSUME NEW n \in Node, GateTimeout(n) PROVE Complete'
  BY <1>17, <1>0 DEF GateTimeout, SettleFailed, mjobs, ends, FailRun, Complete, Settled
<1>18. ASSUME NEW n \in Node, RespondCompleted(n) PROVE Complete'
  BY <1>18, <1>0 DEF RespondCompleted, Executing, OpenForOutcome, stop, mjobs, ends, Complete, Settled
<1>19. ASSUME NEW n \in Node, RespondFailed(n) PROVE Complete'
  BY <1>19, <1>0 DEF RespondFailed, Executing, OpenForOutcome, SettleFailed, mjobs, ends, FailRun, Complete,
        Settled
<1>20. ASSUME NEW n \in Node, RespondPaused(n) PROVE Complete'
  BY <1>20, <1>0 DEF RespondPaused, Executing, OpenForOutcome, stop, mjobs, ends, Complete, Settled
<1>21. ASSUME NEW n \in Node, RespondMediaJob(n) PROVE Complete'
  BY <1>21, <1>0 DEF RespondMediaJob, Executing, OpenForOutcome, stop, ends, Complete, Settled
<1>22. ASSUME NEW n \in Node, BackoffOver(n) PROVE Complete'
  BY <1>22, <1>0 DEF BackoffOver, OpenForOutcome, SettleFailed, mjobs, ends, FailRun, Complete, Settled
<1>23. ASSUME NEW n \in Node, Restarted(n) PROVE Complete'
  BY <1>23, <1>0 DEF Restarted, SettleFailed, mjobs, ends, FailRun, Complete, Settled
<1>24. ASSUME NEW n \in Node, PausePublished(n) \/ MediaSubmitted(n) \/ PollAborted(n) PROVE Complete'
  BY <1>24, <1>0 DEF PausePublished, graph, stop, mjobs, ends, MediaSubmitted, PollAborted, Complete, Settled
<1>25. ASSUME NEW n \in Node, DecisionChecked(n) PROVE Complete'
  BY <1>25, <1>0 DEF DecisionChecked, ResumeRefused, graph, Settle, Complete, Settled
<1>26. ASSUME NEW n \in Node, DecisionPinned(n) PROVE Complete'
  BY <1>26, <1>0 DEF DecisionPinned, FailRun, Schedule, mjobs, ends, Complete, Settled
<1>27. ASSUME NEW n \in Node, BudgetDecided(n) PROVE Complete'
  BY <1>27, <1>0 DEF BudgetDecided, Schedule, Acknowledged, FailRun, mjobs, ends, CanAuthorize, Complete,
        Settled
<1>28. ASSUME NEW n \in Node, PollFailed(n) PROVE Complete'
  BY <1>28, <1>0 DEF PollFailed, OpenForOutcome, SettleFailed, ends, FailRun, Complete, Settled
<1>29. ASSUME NEW n \in Node, PollDone(n) PROVE Complete'
  BY <1>29, <1>0 DEF PollDone, graph, stop, ends, Complete, Settled
<1>30. ASSUME NEW n \in Node, MediaPinned(n) PROVE Complete'
  BY <1>30, <1>0 DEF MediaPinned, OpenForOutcome, SettleFailed, ends, FailRun, Complete, Settled
<1>31. ASSUME NEW n \in Node, NEW v \in {"approve", "reject"}, BudgetDecision(n, v) PROVE Complete'
  BY <1>31, <1>0 DEF BudgetDecision, graph, stop, mjobs, ends, Complete, Settled
<1>32. ASSUME NEW c \in callers, BudgetPrepared(c) PROVE Complete'
  BY <1>32, <1>0 DEF BudgetPrepared, ResumeRefused, graph, Settle, Complete, Settled
<1>33. ASSUME NEW n \in Node \cup {NoNode}, Landed(n) PROVE Complete'
  BY <1>33, <1>0 DEF Landed, graph, stop, mjobs, ends, Complete, Settled
<1> QED BY <1>1, <1>2, <1>3, <1>4, <1>5, <1>6, <1>7, <1>8, <1>9, <1>10, <1>11, <1>12, <1>13, <1>14, <1>15,
        <1>16, <1>17, <1>18, <1>19, <1>20, <1>21, <1>22, <1>23, <1>24, <1>25, <1>26, <1>27, <1>28, <1>29,
        <1>30, <1>31, <1>32, <1>33, StepCases

-----------------------------------------------------------------------------
(* Vertices take their turns.                                                *)

(* What is over stays over, and a condition keeps the edges it picked. *)
SettledKept ==
    \A n \in Node : status[n] \in Settled =>
        status'[n] = status[n] /\ (status[n] = "completed" => chosen'[n] = chosen[n])

(* How a vertex may come to what it is. *)
Active == {"running", "paused", "completed", "failed"}
OnlyInTurn ==
    \A n \in Node :
        /\ status'[n] \in Active => status[n] \in Active \/ Claimable(n)
        /\ status'[n] = "skipped" => status[n] = "skipped" \/ (n \in SkipSet /\ \A m \in SkipSet : status'[m] = "skipped")
        /\ n \in deadline' => n \in deadline \/ status[n] \in Active

(* No step reopens a vertex, or changes what a condition picked. *)
LEMMA SettledKeptStep ==
    ASSUME TypeOK, LoopShape, Claimed, Working, Parking, Deciding, Aborts, [Next]_vars
    PROVE  SettledKept
<1>0. /\ status \in [Node -> {"pending", "running", "paused"} \cup Settled]
      /\ chosen \in [Node -> SUBSET Node]
  BY DEF TypeOK
<1>1. ASSUME UNCHANGED vars \/ PauseWritten \/ EndLoop \/ Start \/ AppendFailed \/ RequestCancel
      PROVE  SettledKept
  BY <1>1, <1>0 DEF vars, graph, PauseWritten, EndLoop, Start, AppendFailed, RequestCancel, SettledKept, Settled
<1>2. ASSUME SkipsFound PROVE SettledKept
  BY <1>2, <1>0, SkipFacts DEF SkipsFound, SettledKept, Settled
<1>3. ASSUME NEW r \in BOOLEAN, AtPass /\ (Conclude(r) \/ CeilingReached(r) \/ Idle(r)) PROVE SettledKept
  BY <1>3, <1>0 DEF Conclude, graph, CeilingReached, Idle, SettledKept, Settled
<1>4. ASSUME NEW r \in BOOLEAN, AtPass, Claim(r) PROVE SettledKept
  BY <1>4, <1>0, ClaimFacts DEF Claim, SettledKept, Settled
<1>5. ASSUME WaitAborted PROVE SettledKept
  BY <1>5, <1>0, GiveUpFacts DEF WaitAborted, SettledKept, Settled
<1>6. ASSUME Started PROVE SettledKept
  <2>1. UNCHANGED chosen
    BY <1>6 DEF Started
  <2>2. CASE GiveUpClaims
    BY <1>0, <2>1, <2>2, GiveUpFacts DEF SettledKept, Settled
  <2>3. CASE ~ GiveUpClaims
    <3>1. status' = status \/ (status[starting] \notin Settled /\ status' = [status EXCEPT ![starting] = "failed"])
      BY <1>6, <2>3 DEF Started, SettleFailed
    <3> QED BY <1>0, <2>1, <3>1 DEF SettledKept, Settled
  <2> QED BY <2>2, <2>3
<1>7. ASSUME Refused PROVE SettledKept
  BY <1>7, <1>0, RefusedFacts DEF Refused, SettledKept, Settled
<1>8. ASSUME Unwind PROVE SettledKept
  BY <1>8, <1>0, GiveUpFacts DEF Unwind, SettledKept, Settled
<1>9. ASSUME WaitFailed PROVE SettledKept
  BY <1>9, <1>0, Heads DEF WaitFailed, LoopShape, Claimed, SettleFailed, SettledKept, Settled
<1>10. ASSUME RunTimeout \/ GraceElapsed \/ GraceSwept \/ PublishTerminal PROVE SettledKept
  BY <1>10, <1>0 DEF RunTimeout, graph, GraceElapsed, GraceSwept, PublishTerminal, SettledKept, Settled
<1>11. ASSUME NEW n \in Node, GraceAbandons(n) PROVE SettledKept
  BY <1>11, <1>0 DEF GraceAbandons, Abandonable, SettleFailed, SettledKept, Settled
<1>12. ASSUME NEW n \in Node, NodeDeadline(n) PROVE SettledKept
  BY <1>12, <1>0 DEF NodeDeadline, OpenForOutcome, SettleFailed, SettledKept, Settled
<1>13. ASSUME NEW n \in Node,
              GateDecision(n) \/ RespondLate(n) \/ RespondRetryable(n) \/ PauseAcked(n) \/
              PausePublished(n) \/ DecisionChecked(n)
       PROVE  SettledKept
  BY <1>13, <1>0 DEF GateDecision, graph, RespondLate, RespondRetryable, PauseAcked, PausePublished,
        DecisionChecked, SettledKept, Settled
<1>14. ASSUME NEW n \in Node, GateTimeout(n) PROVE SettledKept
  BY <1>14, <1>0 DEF GateTimeout, SettleFailed, SettledKept, Settled, Parking
<1>15. ASSUME NEW n \in Node, RespondCompleted(n) PROVE SettledKept
  BY <1>15, <1>0 DEF RespondCompleted, OpenForOutcome, SettledKept, Settled
<1>16. ASSUME NEW n \in Node, RespondFailed(n) PROVE SettledKept
  BY <1>16, <1>0 DEF RespondFailed, OpenForOutcome, SettleFailed, SettledKept, Settled
<1>17. ASSUME NEW n \in Node, RespondPaused(n) PROVE SettledKept
  BY <1>17, <1>0 DEF RespondPaused, OpenForOutcome, SettledKept, Settled
<1>18. ASSUME NEW n \in Node, RespondMediaJob(n) PROVE SettledKept
  BY <1>18, <1>0 DEF RespondMediaJob, OpenForOutcome, SettledKept, Settled
<1>19. ASSUME NEW n \in Node, BackoffOver(n) PROVE SettledKept
  BY <1>19, <1>0 DEF BackoffOver, OpenForOutcome, SettleFailed, SettledKept, Settled
<1>20. ASSUME NEW n \in Node, Restarted(n) PROVE SettledKept
  BY <1>20, <1>0 DEF Restarted, SettleFailed, SettledKept, Settled
<1>21. ASSUME NEW n \in Node, DecisionPinned(n) PROVE SettledKept
  BY <1>21, <1>0 DEF DecisionPinned, SettledKept, Settled
<1>22. ASSUME NEW n \in Node, BudgetDecided(n) PROVE SettledKept
  BY <1>22, <1>0 DEF BudgetDecided, SettledKept, Settled, Deciding, Parking, Aborts, Acknowledged,
        CanAuthorize, Stopping
<1>23. ASSUME NEW n \in Node, MediaSubmitted(n) \/ PollAborted(n) \/ PollDone(n) PROVE SettledKept
  BY <1>23, <1>0 DEF MediaSubmitted, graph, PollAborted, PollDone, SettledKept, Settled
<1>24. ASSUME NEW n \in Node, PollFailed(n) PROVE SettledKept
  BY <1>24, <1>0 DEF PollFailed, OpenForOutcome, SettleFailed, SettledKept, Settled
<1>25. ASSUME NEW n \in Node, MediaPinned(n) PROVE SettledKept
  BY <1>25, <1>0 DEF MediaPinned, OpenForOutcome, SettleFailed, SettledKept, Settled
<1>26. ASSUME NEW n \in Node, NEW v \in {"approve", "reject"}, BudgetDecision(n, v) PROVE SettledKept
  BY <1>26, <1>0 DEF BudgetDecision, graph, SettledKept, Settled
<1>27. ASSUME NEW c \in callers, BudgetPrepared(c) PROVE SettledKept
  BY <1>27, <1>0 DEF BudgetPrepared, graph, SettledKept, Settled
<1>28. ASSUME NEW n \in Node \cup {NoNode}, Landed(n) PROVE SettledKept
  BY <1>28, <1>0 DEF Landed, graph, SettledKept, Settled
<1> QED BY <1>1, <1>2, <1>3, <1>4, <1>5, <1>6, <1>7, <1>8, <1>9, <1>10, <1>11, <1>12, <1>13, <1>14, <1>15,
        <1>16, <1>17, <1>18, <1>19, <1>20, <1>21, <1>22, <1>23, <1>24, <1>25, <1>26, <1>27, <1>28, StepCases

(* No step activates or skips a vertex out of turn. *)
LEMMA OnlyInTurnStep ==
    ASSUME TypeOK, LoopShape, Claimed, Working, Parking, Deciding, Aborts, TurnTaken, [Next]_vars
    PROVE  OnlyInTurn
<1>0. /\ status \in [Node -> {"pending", "running", "paused"} \cup Settled]
  BY DEF TypeOK
<1>1. ASSUME UNCHANGED vars \/ PauseWritten \/ EndLoop \/ Start \/ AppendFailed \/ RequestCancel
      PROVE  OnlyInTurn
  BY <1>1, <1>0 DEF vars, graph, work, PauseWritten, EndLoop, Start, AppendFailed, RequestCancel, OnlyInTurn,
        Active, Settled
<1>2. ASSUME SkipsFound PROVE OnlyInTurn
  BY <1>2, <1>0, SkipFacts DEF SkipsFound, OnlyInTurn, Active
<1>3. ASSUME NEW r \in BOOLEAN, AtPass, Conclude(r) PROVE OnlyInTurn
  BY <1>3, <1>0 DEF Conclude, GoingOn, Settle, graph, AllSettled, AtPass, OnlyInTurn, Active, Settled
<1>4. ASSUME NEW r \in BOOLEAN, AtPass /\ (CeilingReached(r) \/ Idle(r)) PROVE OnlyInTurn
  BY <1>4, <1>0 DEF CeilingReached, graph, work, Idle, OnlyInTurn, Active, Settled
<1>5. ASSUME NEW r \in BOOLEAN, AtPass, Claim(r) PROVE OnlyInTurn
  BY <1>5, <1>0, ClaimFacts DEF Claim, work, OnlyInTurn, Active
<1>6. ASSUME WaitAborted PROVE OnlyInTurn
  BY <1>6, <1>0, GiveUpFacts DEF WaitAborted, work, OnlyInTurn, Active
<1>7. ASSUME Started PROVE OnlyInTurn
  <2>1. starting \in Node /\ status[starting] \in Active /\ deadline' \subseteq deadline \cup {starting}
    BY <1>7 DEF Started, ArmNodeDeadline, LoopShape, Claimed, TypeOK, Active
  <2>2. CASE GiveUpClaims
    BY <1>0, <2>1, <2>2, GiveUpFacts DEF OnlyInTurn, Active
  <2>3. CASE ~ GiveUpClaims
    <3>1. status' = status \/ status' = [status EXCEPT ![starting] = "failed"]
      BY <1>7, <2>3 DEF Started, SettleFailed
    <3> QED BY <1>0, <2>1, <3>1 DEF OnlyInTurn, Active
  <2> QED BY <2>2, <2>3
<1>8. ASSUME Refused PROVE OnlyInTurn
  BY <1>8, <1>0, RefusedFacts DEF Refused, work, OnlyInTurn, Active
<1>9. ASSUME Unwind PROVE OnlyInTurn
  BY <1>9, <1>0, GiveUpFacts DEF Unwind, work, OnlyInTurn, Active
<1>10. ASSUME WaitFailed PROVE OnlyInTurn
  BY <1>10, <1>0, Heads DEF WaitFailed, LoopShape, Claimed, SettleFailed, work, OnlyInTurn, Active
<1>11. ASSUME RunTimeout \/ GraceSwept \/ PublishTerminal PROVE OnlyInTurn
  BY <1>11, <1>0 DEF RunTimeout, graph, GraceSwept, work, PublishTerminal, OnlyInTurn, Active, Settled
<1>12. ASSUME GraceElapsed PROVE OnlyInTurn
  BY <1>12, <1>0 DEF GraceElapsed, graph, OnlyInTurn, Active, Settled
<1>13. ASSUME NEW n \in Node, GraceAbandons(n) PROVE OnlyInTurn
  BY <1>13, <1>0 DEF GraceAbandons, Abandonable, SettleFailed, work, OnlyInTurn, Active, Settled
<1>14. ASSUME NEW n \in Node, NodeDeadline(n) PROVE OnlyInTurn
  BY <1>14, <1>0, Plan DEF NodeDeadline, OpenForOutcome, SettleFailed, TurnTaken, Alive, Claimable, AllDepsSettled, OnlyInTurn, Active, Settled
<1>15. ASSUME NEW n \in Node,
              GateDecision(n) \/ RespondLate(n) \/ RespondRetryable(n) \/ PauseAcked(n) \/
              PausePublished(n) \/ MediaSubmitted(n)
       PROVE  OnlyInTurn
  BY <1>15, <1>0 DEF GateDecision, graph, work, RespondLate, RespondRetryable, PauseAcked, PausePublished,
        MediaSubmitted, OnlyInTurn, Active, Settled
<1>16. ASSUME NEW n \in Node, GateTimeout(n) PROVE OnlyInTurn
  BY <1>16, <1>0 DEF GateTimeout, SettleFailed, OnlyInTurn, Active, Settled, Parking
<1>17. ASSUME NEW n \in Node, RespondCompleted(n) PROVE OnlyInTurn
  BY <1>17, <1>0 DEF RespondCompleted, OpenForOutcome, OnlyInTurn, Active, Settled, Working, Executing
<1>18. ASSUME NEW n \in Node, RespondFailed(n) PROVE OnlyInTurn
  BY <1>18, <1>0 DEF RespondFailed, OpenForOutcome, SettleFailed, OnlyInTurn, Active, Settled, Working,
        Executing
<1>19. ASSUME NEW n \in Node, RespondPaused(n) PROVE OnlyInTurn
  BY <1>19, <1>0 DEF RespondPaused, OpenForOutcome, OnlyInTurn, Active, Settled, Working, Executing
<1>20. ASSUME NEW n \in Node, RespondMediaJob(n) PROVE OnlyInTurn
  BY <1>20, <1>0 DEF RespondMediaJob, OpenForOutcome, OnlyInTurn, Active, Settled, Working, Executing
<1>21. ASSUME NEW n \in Node, BackoffOver(n) PROVE OnlyInTurn
  BY <1>21, <1>0 DEF BackoffOver, OpenForOutcome, SettleFailed, OnlyInTurn, Active, Settled, Working
<1>22. ASSUME NEW n \in Node, Restarted(n) PROVE OnlyInTurn
  BY <1>22, <1>0 DEF Restarted, SettleFailed, OnlyInTurn, Active, Settled, Working
<1>23. ASSUME NEW n \in Node, DecisionChecked(n) PROVE OnlyInTurn
  BY <1>23, <1>0 DEF DecisionChecked, ResumeRefused, graph, Settle, OnlyInTurn, Active, Settled
<1>24. ASSUME NEW n \in Node, DecisionPinned(n) PROVE OnlyInTurn
  BY <1>24, <1>0 DEF DecisionPinned, OnlyInTurn, Active, Settled
<1>25. ASSUME NEW n \in Node, BudgetDecided(n) PROVE OnlyInTurn
  BY <1>25, <1>0 DEF BudgetDecided, OnlyInTurn, Active, Settled, Deciding, Parking
<1>26. ASSUME NEW n \in Node, PollFailed(n) PROVE OnlyInTurn
  BY <1>26, <1>0 DEF PollFailed, OpenForOutcome, SettleFailed, OnlyInTurn, Active, Settled, Parking
<1>27. ASSUME NEW n \in Node, PollAborted(n) \/ PollDone(n) PROVE OnlyInTurn
  BY <1>27, <1>0 DEF PollAborted, graph, work, PollDone, OnlyInTurn, Active, Settled
<1>28. ASSUME NEW n \in Node, MediaPinned(n) PROVE OnlyInTurn
  BY <1>28, <1>0 DEF MediaPinned, OpenForOutcome, SettleFailed, OnlyInTurn, Active, Settled, Parking
<1>29. ASSUME NEW n \in Node, NEW v \in {"approve", "reject"}, BudgetDecision(n, v) PROVE OnlyInTurn
  BY <1>29, <1>0 DEF BudgetDecision, graph, work, OnlyInTurn, Active, Settled
<1>30. ASSUME NEW c \in callers, BudgetPrepared(c) PROVE OnlyInTurn
  BY <1>30, <1>0 DEF BudgetPrepared, ResumeRefused, graph, Settle, OnlyInTurn, Active, Settled
<1>31. ASSUME NEW n \in Node \cup {NoNode}, Landed(n) PROVE OnlyInTurn
  BY <1>31, <1>0 DEF Landed, graph, OnlyInTurn, Active, Settled
<1> QED BY <1>1, <1>2, <1>3, <1>4, <1>5, <1>6, <1>7, <1>8, <1>9, <1>10, <1>11, <1>12, <1>13, <1>14, <1>15,
        <1>16, <1>17, <1>18, <1>19, <1>20, <1>21, <1>22, <1>23, <1>24, <1>25, <1>26, <1>27, <1>28, <1>29,
        <1>30, <1>31, StepCases

(* So every vertex that was activated had its turn. *)
LEMMA TurnTakenStep ==
    ASSUME TypeOK, LoopShape, Claimed, Working, Parking, Deciding, Aborts, TurnTaken, [Next]_vars
    PROVE  TurnTaken'
<1>1. SettledKept /\ OnlyInTurn
  BY SettledKeptStep, OnlyInTurnStep
<1>2. ASSUME NEW n \in Node, \A m \in Deps[n] : status[m] \in Settled
      PROVE  /\ \A m \in Deps[n] : status'[m] \in Settled
             /\ HasLiveEdge(n)' <=> HasLiveEdge(n)
  <2>1. \A m \in Deps[n] : m \in Node
    BY Plan
  <2>2. \A m \in Deps[n] : status'[m] = status[m] /\ (status[m] = "completed" => chosen'[m] = chosen[m])
    BY <1>1, <1>2, <2>1 DEF SettledKept
  <2> QED BY <1>2, <2>2 DEF HasLiveEdge
<1>3. ASSUME NEW n \in Node, Alive(n) PROVE Alive(n)'
  BY <1>2, <1>3 DEF Alive, Settled
<1>4. ASSUME NEW n \in Node, status'[n] \in Active \/ n \in deadline' PROVE Alive(n)'
  <2>1. Alive(n)
    BY <1>1, <1>4 DEF OnlyInTurn, TurnTaken, Claimable, AllDepsSettled, Alive, Active
  <2> QED BY <1>3, <2>1
<1>5. ASSUME NEW n \in Node, status'[n] = "skipped"
      PROVE  ~ HasLiveEdge(n)' /\ \A m \in Deps[n] : status'[m] \in Settled
  <2>1. CASE status[n] = "skipped"
    BY <1>2, <2>1 DEF TurnTaken
  <2>2. CASE status[n] # "skipped"
    <3>1. n \in SkipSet /\ \A m \in SkipSet : status'[m] = "skipped"
      BY <1>1, <1>5, <2>2 DEF OnlyInTurn
    <3>2. ~ HasLiveEdge(n) /\ \A m \in Deps[n] : m \in Node /\ (status[m] \in Settled \/ m \in SkipSet)
      BY <3>1, SkipFacts, Plan
    <3>3. \A m \in Deps[n] : m \in SkipSet => m \in Node /\ status[m] = "pending"
      BY SkipFacts
    <3>4. \A m \in Deps[n] : status'[m] \in Settled
      BY <1>1, <3>1, <3>2 DEF SettledKept, Settled
    <3>5. \A m \in Deps[n] : status'[m] = "completed" => status[m] = "completed" /\ chosen'[m] = chosen[m]
      BY <1>1, <3>1, <3>2 DEF SettledKept, Settled
    <3> QED BY <3>2, <3>4, <3>5 DEF HasLiveEdge
  <2> QED BY <2>1, <2>2
<1> QED BY <1>4, <1>5 DEF TurnTaken, Active, Alive, Settled

-----------------------------------------------------------------------------
(* The limits.                                                               *)

(* Most steps claim, start and count nothing. *)
Counting ==
    \/ \E r \in BOOLEAN : AtPass /\ Claim(r)
    \/ Start
    \/ \E n \in Node : RespondRetryable(n) \/ BackoffOver(n)
Steady ==
    /\ claims' = claims \/ claims' = <<>>
    /\ dispatches' = dispatches
    /\ Running' \ Unstarted' \subseteq Running \ Unstarted
    /\ BackingOff' \subseteq BackingOff

(* A step claims, starts or counts a retry, or changes none of the sums below. *)
LEMMA SteadyStep ==
    ASSUME TypeOK, LoopShape, [Next]_vars
    PROVE  Steady \/ Counting
<1>0. /\ status \in [Node -> {"pending", "running", "paused"} \cup Settled]
      /\ task \in [Node -> {"none", "executing", "backoff", "restarting"}]
  BY DEF TypeOK
<1>1. ASSUME UNCHANGED vars \/ PauseWritten \/ EndLoop \/ AppendFailed \/ RequestCancel \/ RunTimeout
      PROVE  Steady \/ Counting
  BY <1>1, <1>0, SameClaims DEF vars, graph, pass, work, PauseWritten, EndLoop, AppendFailed, RequestCancel,
        RunTimeout, Steady, Running, BackingOff
<1>2. ASSUME SkipsFound PROVE Steady \/ Counting
  BY <1>2, <1>0, SameClaims DEF SkipsFound, Steady, Running, BackingOff
<1>3. ASSUME NEW r \in BOOLEAN, AtPass, Conclude(r) PROVE Steady \/ Counting
  BY <1>3, <1>0, SameClaims DEF Conclude, graph, Steady, Running, BackingOff
<1>4. ASSUME NEW r \in BOOLEAN, AtPass, CeilingReached(r) PROVE Steady \/ Counting
  BY <1>4, <1>0, SameClaims DEF CeilingReached, graph, work, Steady, Running, BackingOff
<1>5. ASSUME NEW r \in BOOLEAN, AtPass, Claim(r) PROVE Steady \/ Counting
  BY <1>5 DEF Counting
<1>6. ASSUME NEW r \in BOOLEAN, AtPass, Idle(r) PROVE Steady \/ Counting
  BY <1>6, <1>0, SameClaims DEF Idle, graph, work, Steady, Running, BackingOff
<1>7. ASSUME WaitAborted PROVE Steady \/ Counting
  BY <1>7, <1>0, GiveUpFacts DEF WaitAborted, work, Steady, Running, BackingOff
<1>8. ASSUME Started PROVE Steady \/ Counting
  <2>1. UNCHANGED dispatches
    BY <1>8 DEF Started
  <2>2. CASE GiveUpClaims /\ UNCHANGED task
    BY <1>8, <1>0, <2>1, <2>2, GiveUpFacts DEF Started, Steady, Running, BackingOff
  <2>3. CASE ~ (GiveUpClaims /\ UNCHANGED task)
    <3>1. /\ claims' = claims
          /\ status' = status \/ status' = [status EXCEPT ![starting] = "failed"]
          /\ task' = task \/ task' = [task EXCEPT ![starting] = "executing"]
      BY <1>8, <2>3 DEF Started, SettleFailed
    <3> QED BY <1>0, <2>1, <3>1, SameClaims DEF Steady, Running, BackingOff
  <2> QED BY <2>2, <2>3
<1>9. ASSUME Refused PROVE Steady \/ Counting
  BY <1>9, <1>0, RefusedFacts DEF Refused, work, Steady, Running, BackingOff
<1>10. ASSUME Unwind PROVE Steady \/ Counting
  BY <1>10, <1>0, GiveUpFacts DEF Unwind, work, Steady, Running, BackingOff
<1>11. ASSUME Start PROVE Steady \/ Counting
  BY <1>11 DEF Counting
<1>12. ASSUME WaitFailed PROVE Steady \/ Counting
  BY <1>12, <1>0, SameClaims DEF WaitFailed, LoopShape, SettleFailed, work, Steady, Running, BackingOff
<1>13. ASSUME GraceElapsed \/ GraceSwept \/ PublishTerminal PROVE Steady \/ Counting
  BY <1>13, <1>0, SameClaims DEF GraceElapsed, graph, pass, GraceSwept, work, PublishTerminal, Steady, Running,
        BackingOff
<1>14. ASSUME NEW n \in Node, GraceAbandons(n) PROVE Steady \/ Counting
  BY <1>14, <1>0, SameClaims DEF GraceAbandons, Abandonable, SettleFailed, pass, work, Steady, Running,
        BackingOff
<1>15. ASSUME NEW n \in Node, NodeDeadline(n) PROVE Steady \/ Counting
  BY <1>15, <1>0, SameClaims DEF NodeDeadline, OpenForOutcome, SettleFailed, pass, Steady, Running, BackingOff
<1>16. ASSUME NEW n \in Node,
              GateDecision(n) \/ PauseAcked(n) \/ PausePublished(n) \/ DecisionChecked(n) \/
              MediaSubmitted(n) \/ PollAborted(n)
       PROVE  Steady \/ Counting
  BY <1>16, <1>0, SameClaims DEF GateDecision, graph, pass, work, PauseAcked, PausePublished, DecisionChecked,
        MediaSubmitted, PollAborted, Steady, Running, BackingOff
<1>17. ASSUME NEW n \in Node, GateTimeout(n) PROVE Steady \/ Counting
  BY <1>17, <1>0, SameClaims DEF GateTimeout, SettleFailed, pass, Steady, Running, BackingOff
<1>18. ASSUME NEW n \in Node, RespondLate(n) PROVE Steady \/ Counting
  BY <1>18, <1>0, SameClaims DEF RespondLate, Executing, OpenForOutcome, Finish, graph, pass, Steady,
        Running, BackingOff
<1>19. ASSUME NEW n \in Node, RespondCompleted(n) PROVE Steady \/ Counting
  BY <1>19, <1>0, SameClaims DEF RespondCompleted, Executing, OpenForOutcome, Finish, pass, Steady, Running,
        BackingOff
<1>20. ASSUME NEW n \in Node, RespondFailed(n) PROVE Steady \/ Counting
  BY <1>20, <1>0, SameClaims DEF RespondFailed, Executing, OpenForOutcome, SettleFailed, Finish, pass,
        Steady, Running, BackingOff
<1>21. ASSUME NEW n \in Node, RespondRetryable(n) PROVE Steady \/ Counting
  BY <1>21 DEF Counting
<1>22. ASSUME NEW n \in Node, RespondPaused(n) PROVE Steady \/ Counting
  BY <1>22, <1>0, SameClaims DEF RespondPaused, Executing, OpenForOutcome, Finish, pass, Steady, Running,
        BackingOff
<1>23. ASSUME NEW n \in Node, RespondMediaJob(n) PROVE Steady \/ Counting
  BY <1>23, <1>0, SameClaims DEF RespondMediaJob, Executing, OpenForOutcome, Finish, pass, Steady, Running,
        BackingOff
<1>24. ASSUME NEW n \in Node, BackoffOver(n) PROVE Steady \/ Counting
  BY <1>24 DEF Counting
<1>25. ASSUME NEW n \in Node, Restarted(n) PROVE Steady \/ Counting
  BY <1>25, <1>0, SameClaims DEF Restarted, Finish, SettleFailed, pass, Steady, Running, BackingOff
<1>26. ASSUME NEW n \in Node, DecisionPinned(n) PROVE Steady \/ Counting
  BY <1>26, <1>0, SameClaims DEF DecisionPinned, Steady, Running, BackingOff
<1>27. ASSUME NEW n \in Node, BudgetDecided(n) PROVE Steady \/ Counting
  BY <1>27, <1>0, SameClaims DEF BudgetDecided, Steady, Running, BackingOff
<1>28. ASSUME NEW n \in Node, PollFailed(n) PROVE Steady \/ Counting
  BY <1>28, <1>0, SameClaims DEF PollFailed, OpenForOutcome, SettleFailed, pass, Steady, Running, BackingOff
<1>29. ASSUME NEW n \in Node, PollDone(n) PROVE Steady \/ Counting
  BY <1>29, <1>0, SameClaims DEF PollDone, graph, pass, work, Steady, Running, BackingOff
<1>30. ASSUME NEW n \in Node, MediaPinned(n) PROVE Steady \/ Counting
  BY <1>30, <1>0, SameClaims DEF MediaPinned, OpenForOutcome, SettleFailed, pass, Steady, Running, BackingOff
<1>31. ASSUME NEW n \in Node, NEW v \in {"approve", "reject"}, BudgetDecision(n, v) PROVE Steady \/ Counting
  BY <1>31, <1>0, SameClaims DEF BudgetDecision, graph, pass, work, Steady, Running, BackingOff
<1>32. ASSUME NEW c \in callers, BudgetPrepared(c) PROVE Steady \/ Counting
  BY <1>32, <1>0, SameClaims DEF BudgetPrepared, graph, pass, Steady, Running, BackingOff
<1>33. ASSUME NEW n \in Node \cup {NoNode}, Landed(n) PROVE Steady \/ Counting
  BY <1>33, <1>0, SameClaims DEF Landed, graph, Steady, Running, BackingOff
<1> QED BY <1>1, <1>2, <1>3, <1>4, <1>5, <1>6, <1>7, <1>8, <1>9, <1>10, <1>11, <1>12, <1>13, <1>14, <1>15,
        <1>16, <1>17, <1>18, <1>19, <1>20, <1>21, <1>22, <1>23, <1>24, <1>25, <1>26, <1>27, <1>28, <1>29,
        <1>30, <1>31, <1>32, <1>33, StepCases

(* Sets of vertices have a size. *)
LEMMA FiniteParts == \A S \in SUBSET Node : IsFiniteSet(S) /\ Cardinality(S) \in Nat
BY Plan, FS_Subset, FS_CardinalityType

(* The room is what both limits leave. *)
LEMMA RoomBounds ==
    ASSUME TypeOK
    PROVE  Room <= MaxParallel - Cardinality(Running) /\ Room <= Ceiling - dispatches
<1>1. Cardinality(Running) \in Int /\ dispatches \in Int /\ MaxParallel \in Int /\ Ceiling \in Int
  BY RoomIsInt, Plan DEF TypeOK
<1> QED BY <1>1 DEF Room

(* The width is kept: a claim takes no more than the room there is. *)
LEMMA WidthStep ==
    ASSUME TypeOK, TypeOK', LoopShape, Working, Width, [Next]_vars
    PROVE  Width'
<1> DEFINE X == Running \ Unstarted
<1>0. /\ IsFiniteSet(X) /\ Cardinality(X) \in Nat /\ Len(claims) \in Nat /\ MaxParallel \in Nat
      /\ IsFiniteSet(X') /\ Cardinality(X') \in Nat /\ Len(claims') \in Nat
      /\ Len(claims) + Cardinality(X) <= MaxParallel
  <2>1. X \in SUBSET Node /\ X' \in SUBSET Node
    BY DEF Running
  <2>2. Len(claims) \in Nat /\ Len(claims') \in Nat
    BY DEF TypeOK
  <2> QED BY <2>1, <2>2, FiniteParts, Plan DEF Width
<1>1. CASE Steady
  <2>1. Len(claims') <= Len(claims)
    BY <1>0, <1>1 DEF Steady
  <2>2. Cardinality(X') <= Cardinality(X)
    BY <1>0, <1>1, FS_Subset DEF Steady
  <2> HIDE DEF X
  <2> QED BY <1>0, <2>1, <2>2 DEF Width, X
<1>2. ASSUME NEW r \in BOOLEAN, AtPass, Claim(r) PROVE Width'
  <2>1. claims' = Ready /\ Ready # <<>> /\ claims = <<>> /\ Len(Ready) <= Room
    BY <1>2, BatchFacts DEF Claim, AtPass, LoopShape
  <2>2. Room <= MaxParallel - Cardinality(Running)
    BY RoomBounds
  <2>3. X' \subseteq Running
    BY <1>2, ClaimFacts DEF Running
  <2>4. Cardinality(X') <= Cardinality(Running)
    BY <2>3, RoomIsInt, FS_Subset
  <2> HIDE DEF X
  <2> QED BY <1>0, <2>1, <2>2, <2>4, RoomIsInt DEF Width, X
<1>3. CASE Start
  <2>1. X' \subseteq X \cup {starting'}
    <3>1. status' = status
      BY <1>3 DEF Start, graph
    <3> QED BY <1>3, <3>1, StartFacts DEF Running
  <2>2. IsFiniteSet(X \cup {starting'}) /\ Cardinality(X \cup {starting'}) <= Cardinality(X) + 1
    <3> HIDE DEF X
    <3>1. Cardinality(X \cup {starting'}) = Cardinality(X) \/ Cardinality(X \cup {starting'}) = Cardinality(X) + 1
      BY <1>0, FS_AddElement
    <3> QED BY <1>0, <3>1, FS_AddElement
  <2>3. Cardinality(X') <= Cardinality(X \cup {starting'})
    BY <2>1, <2>2, FS_Subset
  <2>4. Cardinality(X \cup {starting'}) \in Nat
    BY <2>2, FS_CardinalityType
  <2> HIDE DEF X
  <2> QED BY <1>0, <1>3, <2>2, <2>3, <2>4, StartFacts DEF Width, X
<1>4. ASSUME NEW n \in Node, RespondRetryable(n) \/ BackoffOver(n) PROVE Width'
  <2>1. claims' = claims /\ (status' = status \/ status' = [status EXCEPT ![n] = "failed"])
    BY <1>4 DEF RespondRetryable, BackoffOver, SettleFailed, graph, pass
  <2>2. X' \subseteq X
    BY <2>1, SameClaims DEF Running, TypeOK
  <2>3. Cardinality(X') <= Cardinality(X)
    BY <1>0, <2>2, FS_Subset
  <2> HIDE DEF X
  <2> QED BY <1>0, <2>1, <2>3 DEF Width, X
<1> QED BY <1>1, <1>2, <1>3, <1>4, SteadyStep DEF Counting

(* The ceiling is kept: what will still be counted was claimed below it. *)
LEMMA CountedStep ==
    ASSUME TypeOK, TypeOK', LoopShape, Claimed, Working, Aborts, Stalled, Width, Counted, [Next]_vars
    PROVE  Counted'
<1> DEFINE X == Running \ Unstarted
<1>0. /\ IsFiniteSet(X) /\ Cardinality(X) \in Nat
      /\ IsFiniteSet(BackingOff) /\ Cardinality(BackingOff) \in Nat
      /\ IsFiniteSet(BackingOff') /\ Cardinality(BackingOff') \in Nat
      /\ Len(claims) \in Nat /\ Len(claims') \in Nat /\ dispatches \in Nat /\ dispatches' \in Nat
      /\ MaxParallel \in Nat \ {0} /\ Ceiling \in Nat \ {0}
      /\ Len(claims) + Cardinality(X) <= MaxParallel
      /\ dispatches + Len(claims) + Cardinality(BackingOff) <= Ceiling + MaxParallel - 1
  <2>1. X \in SUBSET Node /\ BackingOff \in SUBSET Node /\ BackingOff' \in SUBSET Node
    BY DEF Running, BackingOff
  <2>2. Len(claims) \in Nat /\ Len(claims') \in Nat /\ dispatches \in Nat /\ dispatches' \in Nat
    BY DEF TypeOK
  <2> QED BY <2>1, <2>2, FiniteParts, Plan DEF Width, Counted
<1>1. CASE Steady
  <2>1. Len(claims') <= Len(claims) /\ dispatches' = dispatches
    BY <1>0, <1>1 DEF Steady
  <2>2. Cardinality(BackingOff') <= Cardinality(BackingOff)
    BY <1>0, <1>1, FS_Subset DEF Steady
  <2> QED BY <1>0, <2>1, <2>2 DEF Counted
<1>2. ASSUME NEW r \in BOOLEAN, AtPass, Claim(r) PROVE Counted'
  <2>1. claims' = Ready /\ Ready # <<>> /\ claims = <<>> /\ Len(Ready) <= Room /\ dispatches' = dispatches
    BY <1>2, BatchFacts DEF Claim, AtPass, LoopShape
  <2>2. Room <= MaxParallel - Cardinality(Running) /\ Room <= Ceiling - dispatches
    BY RoomBounds
  <2>3. BackingOff' \subseteq Running
    <3>1. task' = task
      BY <1>2 DEF Claim, work
    <3>2. \A n \in Unstarted' : task[n] = "none"
      BY <1>2, ClaimFacts DEF Working
    <3> QED BY <1>2, <3>1, <3>2, ClaimFacts DEF BackingOff, Running
  <2>4. Cardinality(BackingOff') <= Cardinality(Running)
    BY <2>3, RoomIsInt, FS_Subset
  <2>5. Len(Ready) >= 1
    BY <2>1, BatchFacts
  <2> QED BY <1>0, <2>1, <2>2, <2>4, <2>5, RoomIsInt DEF Counted
<1>3. CASE Start
  <2>1. dispatches' = dispatches + 1 /\ BackingOff' = BackingOff
    BY <1>3 DEF Start, graph, BackingOff, Running
  <2> HIDE DEF X
  <2> QED BY <1>0, <1>3, <2>1, StartFacts DEF Counted
<1>4. ASSUME NEW n \in Node, RespondRetryable(n) PROVE Counted'
  <2>1. claims' = claims /\ status' = status /\ task' = [task EXCEPT ![n] = "backoff"] /\ dispatches' = dispatches
    BY <1>4 DEF RespondRetryable, pass, graph
  <2>2. dispatches < Ceiling /\ task[n] = "executing"
    BY <1>4 DEF RespondRetryable, ShouldRetry, Executing
  <2>3. BackingOff' \subseteq X
    BY <2>1, <2>2 DEF BackingOff, Running, Claimed, TypeOK
  <2>4. Cardinality(BackingOff') <= Cardinality(X)
    BY <1>0, <2>3, FS_Subset
  <2> HIDE DEF X
  <2> QED BY <1>0, <2>1, <2>2, <2>4 DEF Counted
<1>5. ASSUME NEW n \in Node, BackoffOver(n) PROVE Counted'
  <2>1. claims' = claims /\ task[n] = "backoff"
    BY <1>5 DEF BackoffOver, pass
  <2>2. CASE cancelling \/ aborted
    <3>1. dispatches' = dispatches /\ (status' = status \/ status' = [status EXCEPT ![n] = "failed"])
          /\ task' = [task EXCEPT ![n] = "none"]
      BY <1>5, <2>2 DEF BackoffOver, SettleFailed, Finish
    <3>2. BackingOff' \subseteq BackingOff
      BY <3>1 DEF BackingOff, Running, TypeOK
    <3>3. Cardinality(BackingOff') <= Cardinality(BackingOff)
      BY <1>0, <3>2, FS_Subset
    <3> HIDE DEF X
    <3> QED BY <1>0, <2>1, <3>1, <3>3 DEF Counted
  <2>3. CASE ~ (cancelling \/ aborted)
    <3>1. dispatches' = dispatches + 1 /\ status' = status /\ task' = [task EXCEPT ![n] = "restarting"]
      BY <1>5, <2>3 DEF BackoffOver
    <3>2. status[n] = "running"
      <4>1. terminal = "none" /\ failure \in {"none", "stalled"}
        BY <1>5, <2>3 DEF BackoffOver, Aborts
      <4>2. failure # "stalled"
        BY <2>1, <2>3, <4>1 DEF Stalled
      <4> QED BY <2>1, <2>3, <4>1, <4>2 DEF Aborts, Working
    <3>3. n \in BackingOff /\ BackingOff' = BackingOff \ {n}
      BY <2>1, <3>1, <3>2 DEF BackingOff, Running, TypeOK
    <3>4. Cardinality(BackingOff') = Cardinality(BackingOff) - 1
      BY <1>0, <3>3, FS_RemoveElement
    <3> HIDE DEF X
    <3> QED BY <1>0, <2>1, <3>1, <3>4 DEF Counted
  <2> QED BY <2>2, <2>3
<1> QED BY <1>1, <1>2, <1>3, <1>4, <1>5, SteadyStep DEF Counting

-----------------------------------------------------------------------------
(* Nothing is left unclaimed.                                                *)

(* A step wakes the loop, stops or ends the run, announces itself, or leaves alone
   what a pass goes by. *)
Undisturbed ==
    /\ loop' \in {"idle", "pausing", "ending", "waiting", "starting", "refusing"} =>
          loop \in {"idle", "pausing", "ending", "waiting", "starting", "refusing"}
    /\ UNCHANGED <<rerun, status, chosen>>
    /\ dispatches + Len(claims) <= dispatches' + Len(claims')
    /\ Reported => Reported'
Minded ==
    \/ loop' \in {"awake", "skipping"} \/ rerun' \/ terminal' # "none"
    \/ Stopping' \/ Reported'
    \/ Undisturbed
Deciders == \E r \in BOOLEAN : AtPass /\ (Claim(r) \/ Idle(r))

(* Apart from a claim or an idle pass, that is every step. *)
LEMMA MindedStep ==
    ASSUME TypeOK, LoopShape, Aborts, [Next]_vars
    PROVE  Minded \/ Deciders
<1>0. /\ status \in [Node -> {"pending", "running", "paused"} \cup Settled] /\ dispatches \in Nat
      /\ claims \in Seq(Node) /\ publishing \in [Node -> Nat]
      /\ media \in [Node -> {"none", "submitting", "polling", "pinning"}]
      /\ failure \in {"none", "node", "cancelled", "internal", "run_timeout", "turn_limit", "stalled",
                     "durability", "effects", "budget_exceeded"}
  BY DEF TypeOK
<1>1. ASSUME UNCHANGED vars \/ GraceElapsed PROVE Minded \/ Deciders
  BY <1>1, <1>0 DEF vars, graph, pass, work, stop, gates, mjobs, ends, GraceElapsed, Minded, Undisturbed,
        Reported, Stopping
<1>2. ASSUME SkipsFound PROVE Minded \/ Deciders
  BY <1>2 DEF SkipsFound, Minded
<1>3. ASSUME NEW r \in BOOLEAN, AtPass, Conclude(r) PROVE Minded \/ Deciders
  BY <1>3, <1>0 DEF Conclude, GoingOn, EndPass, Settle, graph, AllSettled, AtPass, Minded, Undisturbed,
        Reported, Stopping
<1>4. ASSUME NEW r \in BOOLEAN, AtPass, CeilingReached(r) PROVE Minded \/ Deciders
  BY <1>4, <1>0 DEF CeilingReached, GoingOn, Abort, EndPass, graph, work, gates, mjobs, ends, AllSettled,
        AtPass, Minded, Undisturbed, Reported, Stopping
<1>5. ASSUME NEW r \in BOOLEAN, AtPass, Claim(r) PROVE Minded \/ Deciders
  BY <1>5 DEF Deciders
<1>6. ASSUME NEW r \in BOOLEAN, AtPass, Idle(r) PROVE Minded \/ Deciders
  BY <1>6 DEF Deciders
<1>7. ASSUME PauseWritten PROVE Minded \/ Deciders
  BY <1>7, <1>0 DEF PauseWritten, EndPass, graph, work, stop, gates, mjobs, ends, Minded, Undisturbed,
        Reported, Stopping
<1>8. ASSUME WaitAborted PROVE Minded \/ Deciders
  BY <1>8, <1>0, GiveUpFacts DEF WaitAborted, stop, Minded, Stopping
<1>9. ASSUME Started PROVE Minded \/ Deciders
  <2>1. CASE aborted
    <3>1. aborted'
      BY <1>9, <2>1 DEF Started, SettleFailed, FailRun, Abort
    <3> QED BY <3>1 DEF Minded, Stopping
  <2>2. CASE ~ aborted
    <3>1. UNCHANGED <<rerun, status, chosen, claims, dispatches, landing, publishing, media>> /\ loop = "starting"
      BY <1>9, <2>2 DEF Started, Aborts, gates, mjobs
    <3> QED BY <1>0, <3>1 DEF Minded, Undisturbed, Reported
  <2> QED BY <2>1, <2>2
<1>10. ASSUME Refused PROVE Minded \/ Deciders
  BY <1>10, <1>0, RefusedFacts DEF Minded
<1>11. ASSUME Unwind PROVE Minded \/ Deciders
  BY <1>11 DEF Unwind, ends, Minded
<1>12. ASSUME EndLoop PROVE Minded \/ Deciders
  BY <1>12, <1>0 DEF EndLoop, graph, work, stop, gates, mjobs, ends, Minded, Undisturbed, Reported, Stopping
<1>13. ASSUME Start PROVE Minded \/ Deciders
  <2>1. dispatches + Len(claims) <= dispatches' + Len(claims')
    BY <1>13, <1>0, StartFacts DEF Start
  <2>2. UNCHANGED <<rerun, status, chosen, landing, publishing, media>> /\ loop = "waiting"
    BY <1>13 DEF Start, graph, gates, mjobs
  <2> QED BY <2>1, <2>2 DEF Minded, Undisturbed, Reported
<1>14. ASSUME WaitFailed PROVE Minded \/ Deciders
  BY <1>14  DEF WaitFailed, SettleFailed, FailRun, Abort, Minded, Stopping
<1>15. ASSUME AppendFailed PROVE Minded \/ Deciders
  BY <1>15, <1>0 DEF AppendFailed, AppendUnderWay, Abort, Schedule, graph, work, gates, mjobs, ends, Minded,
        Undisturbed, Reported, Stopping
<1>16. ASSUME RequestCancel PROVE Minded \/ Deciders
  BY <1>16, <1>0 DEF RequestCancel, Abort, Schedule, graph, work, gates, mjobs, ends, Minded, Undisturbed,
        Reported, Stopping
<1>17. ASSUME RunTimeout PROVE Minded \/ Deciders
  BY <1>17, <1>0 DEF RunTimeout, Abort, Land, graph, pass, gates, mjobs, ends, Minded, Undisturbed, Reported,
        Stopping
<1>18. ASSUME GraceSwept PROVE Minded \/ Deciders
  BY <1>18, <1>0 DEF GraceSwept, Abandonable, Schedule, graph, work, gates, mjobs, ends, Minded, Undisturbed,
        Reported, Stopping
<1>19. ASSUME PublishTerminal PROVE Minded \/ Deciders
  BY <1>19, <1>0 DEF PublishTerminal, graph, pass, work, gates, mjobs, Minded, Undisturbed, Reported, Stopping
<1>20. ASSUME NEW n \in Node, GraceAbandons(n) PROVE Minded \/ Deciders
  BY <1>20, <1>0 DEF GraceAbandons, Abandonable, SettleFailed, pass, work, gates, mjobs, ends, FailRun,
        Abort, Minded, Undisturbed, Reported, Stopping
<1>21. ASSUME NEW n \in Node, NodeDeadline(n) PROVE Minded \/ Deciders
  BY <1>21, <1>0 DEF NodeDeadline, OpenForOutcome, SettleFailed, Land, pass, gates, mjobs, ends, FailRun,
        Abort, Minded, Undisturbed, Reported, Stopping
<1>22. ASSUME NEW n \in Node,
              GateDecision(n) \/ RespondLate(n) \/ RespondRetryable(n) \/ PauseAcked(n)
       PROVE  Minded \/ Deciders
  BY <1>22, <1>0 DEF GateDecision, graph, pass, work, stop, mjobs, ends, RespondLate, gates, RespondRetryable,
        PauseAcked, Minded, Undisturbed, Reported, Stopping
<1>23. ASSUME NEW n \in Node, GateTimeout(n) PROVE Minded \/ Deciders
  BY <1>23, <1>0 DEF GateTimeout, SettleFailed, Land, pass, mjobs, ends, FailRun, Abort, Minded, Undisturbed,
        Reported, Stopping
<1>24. ASSUME NEW n \in Node, RespondCompleted(n) PROVE Minded \/ Deciders
  BY <1>24, <1>0 DEF RespondCompleted, Executing, OpenForOutcome, Land, pass, stop, gates, mjobs, ends,
        Minded, Undisturbed, Reported, Stopping
<1>25. ASSUME NEW n \in Node, RespondFailed(n) PROVE Minded \/ Deciders
  BY <1>25, <1>0 DEF RespondFailed, Executing, OpenForOutcome, SettleFailed, Land, pass, gates, mjobs, ends,
        FailRun, Abort, Minded, Undisturbed, Reported, Stopping
<1>26. ASSUME NEW n \in Node, RespondPaused(n) PROVE Minded \/ Deciders
  BY <1>26, <1>0 DEF RespondPaused, Executing, OpenForOutcome, pass, stop, mjobs, ends, Minded, Undisturbed,
        Reported, Stopping
<1>27. ASSUME NEW n \in Node, RespondMediaJob(n) PROVE Minded \/ Deciders
  BY <1>27, <1>0 DEF RespondMediaJob, Executing, OpenForOutcome, pass, stop, gates, ends, Minded,
        Undisturbed, Reported, Stopping
<1>28. ASSUME NEW n \in Node, BackoffOver(n) PROVE Minded \/ Deciders
  BY <1>28, <1>0 DEF BackoffOver, OpenForOutcome, SettleFailed, Land, pass, gates, mjobs, ends, FailRun,
        Abort, Minded, Undisturbed, Reported, Stopping
<1>29. ASSUME NEW n \in Node, Restarted(n) PROVE Minded \/ Deciders
  BY <1>29, <1>0 DEF Restarted, Land, SettleFailed, pass, gates, mjobs, ends, FailRun, Abort, Minded,
        Undisturbed, Reported, Stopping
<1>30. ASSUME NEW n \in Node, PausePublished(n) PROVE Minded \/ Deciders
  BY <1>30, <1>0 DEF PausePublished, CanAuthorize, Schedule, graph, work, stop, mjobs, ends, Minded,
        Undisturbed, Reported, Stopping
<1>31. ASSUME NEW n \in Node, DecisionChecked(n) PROVE Minded \/ Deciders
  BY <1>31, <1>0 DEF DecisionChecked, ResumeRefused, graph, pass, Settle, Minded, Undisturbed, Reported,
        Stopping
<1>32. ASSUME NEW n \in Node, DecisionPinned(n) PROVE Minded \/ Deciders
  <2>1. CASE n \in landing'
    BY <2>1 DEF Minded, Reported
  <2>2. CASE FailRun("node")
    <3>1. UNCHANGED cancelling
      BY <1>32 DEF DecisionPinned
    <3> QED BY <2>2, <3>1 DEF FailRun, Abort, Minded, Stopping
  <2>3. CASE n \notin landing' /\ ~ FailRun("node")
    <3>1. UNCHANGED <<loop, rerun, status, chosen, claims, dispatches, landing, publishing, media>>
      BY <1>32, <2>3 DEF DecisionPinned, Land, mjobs
    <3> QED BY <1>0, <3>1 DEF Minded, Undisturbed, Reported
  <2> QED BY <2>1, <2>2, <2>3
<1>33. ASSUME NEW n \in Node, BudgetDecided(n) PROVE Minded \/ Deciders
  BY <1>33, <1>0 DEF BudgetDecided, Schedule, Acknowledged, FailRun, mjobs, ends, CanAuthorize, Abort,
        Minded, Undisturbed, Reported, Stopping
<1>34. ASSUME NEW n \in Node, MediaSubmitted(n) PROVE Minded \/ Deciders
  BY <1>34, <1>0 DEF MediaSubmitted, Schedule, graph, work, stop, gates, ends, Minded, Undisturbed, Reported,
        Stopping
<1>35. ASSUME NEW n \in Node, PollFailed(n) PROVE Minded \/ Deciders
  BY <1>35, <1>0 DEF PollFailed, OpenForOutcome, SettleFailed, Land, pass, gates, ends, FailRun, Abort,
        Minded, Undisturbed, Reported, Stopping
<1>36. ASSUME NEW n \in Node, PollAborted(n) PROVE Minded \/ Deciders
  BY <1>36, <1>0 DEF PollAborted, graph, pass, work, stop, gates, ends, Minded, Undisturbed, Reported,
        Stopping
<1>37. ASSUME NEW n \in Node, PollDone(n) PROVE Minded \/ Deciders
  BY <1>37, <1>0 DEF PollDone, graph, pass, work, stop, gates, ends, Minded, Undisturbed, Reported, Stopping
<1>38. ASSUME NEW n \in Node, MediaPinned(n) PROVE Minded \/ Deciders
  <2>1. CASE n \in landing'
    BY <2>1 DEF Minded, Reported
  <2>2. CASE n \notin landing'
    <3>1. /\ UNCHANGED <<loop, rerun, status, chosen, claims, dispatches, landing, publishing>>
          /\ media[n] = "pinning" /\ media' = [media EXCEPT ![n] = "none"]
      BY <1>38, <2>2 DEF MediaPinned, Land, pass, gates
    <3> QED BY <1>0, <3>1 DEF Minded, Undisturbed, Reported
  <2> QED BY <2>1, <2>2
<1>39. ASSUME NEW n \in Node, NEW v \in {"approve", "reject"}, BudgetDecision(n, v) PROVE Minded \/ Deciders
  BY <1>39, <1>0 DEF BudgetDecision, graph, pass, work, stop, mjobs, ends, Minded, Undisturbed, Reported,
        Stopping
<1>40. ASSUME NEW c \in callers, BudgetPrepared(c) PROVE Minded \/ Deciders
  BY <1>40, <1>0 DEF BudgetPrepared, ResumeRefused, graph, pass, Settle, Minded, Undisturbed, Reported,
        Stopping
<1>41. ASSUME NEW n \in Node \cup {NoNode}, Landed(n) PROVE Minded \/ Deciders
  BY <1>41, <1>0 DEF Landed, Schedule, graph, stop, gates, mjobs, ends, Minded, Undisturbed, Reported,
        Stopping
<1> QED BY <1>1, <1>2, <1>3, <1>4, <1>5, <1>6, <1>7, <1>8, <1>9, <1>10, <1>11, <1>12, <1>13, <1>14, <1>15,
        <1>16, <1>17, <1>18, <1>19, <1>20, <1>21, <1>22, <1>23, <1>24, <1>25, <1>26, <1>27, <1>28, <1>29,
        <1>30, <1>31, <1>32, <1>33, <1>34, <1>35, <1>36, <1>37, <1>38, <1>39, <1>40, <1>41, StepCases

(* What stops a run is never taken back, and a run that ended does not go on. *)
LEMMA StoppingKept ==
    ASSUME TypeOK, [Next]_vars
    PROVE  (terminal' = "none" => terminal = "none") /\ (Stopping => Stopping')
<1>0. cancelling \in BOOLEAN /\ aborted \in BOOLEAN
  BY DEF TypeOK
<1>1. ASSUME UNCHANGED vars PROVE (terminal' = "none" => terminal = "none") /\ (Stopping => Stopping')
  BY <1>1 DEF vars, Stopping, stop, ends
<1>2. ASSUME SkipsFound PROVE (terminal' = "none" => terminal = "none") /\ (Stopping => Stopping')
  BY <1>2 DEF SkipsFound, AtPass, Stopping, stop, ends
<1>3. ASSUME NEW r \in BOOLEAN, AtPass, Conclude(r) PROVE (terminal' = "none" => terminal = "none") /\ (Stopping => Stopping')
  BY <1>3, <1>0 DEF Conclude, GoingOn, Settle, AtPass, Stopping
<1>4. ASSUME NEW r \in BOOLEAN, AtPass, CeilingReached(r) PROVE (terminal' = "none" => terminal = "none") /\ (Stopping => Stopping')
  BY <1>4, <1>0 DEF CeilingReached, GoingOn, Abort, ends, AtPass, Stopping
<1>5. ASSUME NEW r \in BOOLEAN, AtPass, Claim(r) PROVE (terminal' = "none" => terminal = "none") /\ (Stopping => Stopping')
  BY <1>5 DEF AtPass, Claim, Stopping, stop, ends
<1>6. ASSUME NEW r \in BOOLEAN, AtPass, Idle(r) PROVE (terminal' = "none" => terminal = "none") /\ (Stopping => Stopping')
  BY <1>6, <1>0 DEF Idle, GoingOn, ends, AtPass, Stopping
<1>7. ASSUME PauseWritten \/ WaitAborted
      PROVE  (terminal' = "none" => terminal = "none") /\ (Stopping => Stopping')
  BY <1>7, <1>0 DEF PauseWritten, stop, ends, WaitAborted, Stopping
<1>8. ASSUME Started PROVE (terminal' = "none" => terminal = "none") /\ (Stopping => Stopping')
  BY <1>8, <1>0 DEF Started, GiveUpClaims, SettleFailed, ends, FailRun, Abort, Stopping
<1>9. ASSUME Refused \/ Unwind PROVE (terminal' = "none" => terminal = "none") /\ (Stopping => Stopping')
  BY <1>9, <1>0 DEF Refused, stop, ends, Unwind, Stopping
<1>10. ASSUME EndLoop \/ Start PROVE (terminal' = "none" => terminal = "none") /\ (Stopping => Stopping')
  BY <1>10, <1>0 DEF EndLoop, stop, ends, Start, Stopping
<1>11. ASSUME WaitFailed PROVE (terminal' = "none" => terminal = "none") /\ (Stopping => Stopping')
  BY <1>11, <1>0 DEF WaitFailed, SettleFailed, ends, FailRun, Abort, Stopping
<1>12. ASSUME AppendFailed PROVE (terminal' = "none" => terminal = "none") /\ (Stopping => Stopping')
  BY <1>12, <1>0 DEF AppendFailed, Abort, Schedule, ends, Stopping
<1>13. ASSUME RequestCancel PROVE (terminal' = "none" => terminal = "none") /\ (Stopping => Stopping')
  BY <1>13, <1>0 DEF RequestCancel, Abort, Schedule, ends, Stopping
<1>14. ASSUME RunTimeout PROVE (terminal' = "none" => terminal = "none") /\ (Stopping => Stopping')
  BY <1>14, <1>0 DEF RunTimeout, Abort, ends, Stopping
<1>15. ASSUME GraceElapsed PROVE (terminal' = "none" => terminal = "none") /\ (Stopping => Stopping')
  BY <1>15, <1>0 DEF GraceElapsed, ends, Stopping
<1>16. ASSUME GraceSwept PROVE (terminal' = "none" => terminal = "none") /\ (Stopping => Stopping')
  BY <1>16, <1>0 DEF GraceSwept, Schedule, ends, Stopping
<1>17. ASSUME PublishTerminal PROVE (terminal' = "none" => terminal = "none") /\ (Stopping => Stopping')
  BY <1>17, <1>0 DEF PublishTerminal, Stopping
<1>18. ASSUME NEW n \in Node, GraceAbandons(n) PROVE (terminal' = "none" => terminal = "none") /\ (Stopping => Stopping')
  BY <1>18, <1>0 DEF GraceAbandons, SettleFailed, ends, FailRun, Abort, Stopping
<1>19. ASSUME NEW n \in Node, NodeDeadline(n) PROVE (terminal' = "none" => terminal = "none") /\ (Stopping => Stopping')
  BY <1>19, <1>0 DEF NodeDeadline, SettleFailed, ends, FailRun, Abort, Stopping
<1>20. ASSUME NEW n \in Node,
              GateDecision(n) \/ RespondLate(n)
       PROVE  (terminal' = "none" => terminal = "none") /\ (Stopping => Stopping')
  BY <1>20, <1>0 DEF GateDecision, stop, ends, RespondLate, Stopping
<1>21. ASSUME NEW n \in Node, GateTimeout(n) PROVE (terminal' = "none" => terminal = "none") /\ (Stopping => Stopping')
  BY <1>21, <1>0 DEF GateTimeout, SettleFailed, ends, FailRun, Abort, Stopping
<1>22. ASSUME NEW n \in Node,
              RespondCompleted(n) \/ RespondRetryable(n)
       PROVE  (terminal' = "none" => terminal = "none") /\ (Stopping => Stopping')
  BY <1>22, <1>0 DEF RespondCompleted, stop, ends, RespondRetryable, Stopping
<1>23. ASSUME NEW n \in Node, RespondFailed(n) PROVE (terminal' = "none" => terminal = "none") /\ (Stopping => Stopping')
  BY <1>23, <1>0 DEF RespondFailed, Executing, SettleFailed, ends, FailRun, Abort, Stopping
<1>24. ASSUME NEW n \in Node,
              RespondPaused(n) \/ RespondMediaJob(n)
       PROVE  (terminal' = "none" => terminal = "none") /\ (Stopping => Stopping')
  BY <1>24, <1>0 DEF RespondPaused, stop, ends, RespondMediaJob, Stopping
<1>25. ASSUME NEW n \in Node, BackoffOver(n) PROVE (terminal' = "none" => terminal = "none") /\ (Stopping => Stopping')
  BY <1>25, <1>0 DEF BackoffOver, SettleFailed, ends, FailRun, Abort, Stopping
<1>26. ASSUME NEW n \in Node, Restarted(n) PROVE (terminal' = "none" => terminal = "none") /\ (Stopping => Stopping')
  BY <1>26, <1>0 DEF Restarted, SettleFailed, ends, FailRun, Abort, Stopping
<1>27. ASSUME NEW n \in Node,
              PauseAcked(n) \/ PausePublished(n)
       PROVE  (terminal' = "none" => terminal = "none") /\ (Stopping => Stopping')
  BY <1>27, <1>0 DEF PauseAcked, stop, ends, PausePublished, Stopping
<1>28. ASSUME NEW n \in Node, DecisionChecked(n) PROVE (terminal' = "none" => terminal = "none") /\ (Stopping => Stopping')
  BY <1>28, <1>0 DEF DecisionChecked, ResumeRefused, Settle, Stopping
<1>29. ASSUME NEW n \in Node, DecisionPinned(n) PROVE (terminal' = "none" => terminal = "none") /\ (Stopping => Stopping')
  BY <1>29, <1>0 DEF DecisionPinned, FailRun, Schedule, ends, Abort, Stopping
<1>30. ASSUME NEW n \in Node, BudgetDecided(n) PROVE (terminal' = "none" => terminal = "none") /\ (Stopping => Stopping')
  BY <1>30, <1>0 DEF BudgetDecided, Schedule, Acknowledged, FailRun, ends, CanAuthorize, Abort, Stopping
<1>31. ASSUME NEW n \in Node,
              MediaSubmitted(n) \/ PollAborted(n)
       PROVE  (terminal' = "none" => terminal = "none") /\ (Stopping => Stopping')
  BY <1>31, <1>0 DEF MediaSubmitted, stop, ends, PollAborted, Stopping
<1>32. ASSUME NEW n \in Node, PollFailed(n) PROVE (terminal' = "none" => terminal = "none") /\ (Stopping => Stopping')
  BY <1>32, <1>0 DEF PollFailed, SettleFailed, ends, FailRun, Abort, Stopping
<1>33. ASSUME NEW n \in Node, PollDone(n) PROVE (terminal' = "none" => terminal = "none") /\ (Stopping => Stopping')
  BY <1>33, <1>0 DEF PollDone, stop, ends, Stopping
<1>34. ASSUME NEW n \in Node, MediaPinned(n) PROVE (terminal' = "none" => terminal = "none") /\ (Stopping => Stopping')
  BY <1>34, <1>0 DEF MediaPinned, SettleFailed, ends, FailRun, Abort, Stopping
<1>35. ASSUME NEW n \in Node, NEW v \in {"approve", "reject"}, BudgetDecision(n, v) PROVE (terminal' = "none" => terminal = "none") /\ (Stopping => Stopping')
  BY <1>35, <1>0 DEF BudgetDecision, stop, ends, Stopping
<1>36. ASSUME NEW c \in callers, BudgetPrepared(c) PROVE (terminal' = "none" => terminal = "none") /\ (Stopping => Stopping')
  BY <1>36, <1>0 DEF BudgetPrepared, ResumeRefused, Settle, Stopping
<1>37. ASSUME NEW n \in Node \cup {NoNode}, Landed(n) PROVE (terminal' = "none" => terminal = "none") /\ (Stopping => Stopping')
  BY <1>37, <1>0 DEF Landed, stop, ends, Stopping
<1> QED BY <1>1, <1>2, <1>3, <1>4, <1>5, <1>6, <1>7, <1>8, <1>9, <1>10, <1>11, <1>12, <1>13, <1>14, <1>15,
        <1>16, <1>17, <1>18, <1>19, <1>20, <1>21, <1>22, <1>23, <1>24, <1>25, <1>26, <1>27, <1>28, <1>29,
        <1>30, <1>31, <1>32, <1>33, <1>34, <1>35, <1>36, <1>37, StepCases

(* A claim adds its batch to what runs. *)
LEMMA RunningGrows ==
    ASSUME TypeOK, NEW r \in BOOLEAN, Claim(r)
    PROVE  Cardinality(Running') = Cardinality(Running) + Len(Ready)
<1> DEFINE I == 1..Len(Ready)
           T == {Ready[i] : i \in I}
<1>1. IsFiniteSet(I) /\ Cardinality(I) = Len(Ready) /\ DOMAIN Ready = I
  BY BatchFacts, FS_Interval
<1>2. Ready \in [I -> T]
  BY BatchFacts, <1>1
<1>3. Ready \in Surjection(I, T)
  BY <1>2 DEF Surjection
<1>4. Ready \in Injection(I, T)
  <2>1. \A k, l \in I : Ready[k] = Ready[l] => k = l
    BY BatchFacts
  <2> HIDE DEF I, T
  <2> QED BY <1>2, <2>1 DEF Injection, IsInjective
<1>5. IsFiniteSet(T) /\ Cardinality(T) = Len(Ready)
  <2> HIDE DEF I, T
  <2> QED BY <1>1, <1>3, <1>4, FS_Surjection
<1>6. status' = [n \in Node |-> IF n \in T THEN "running" ELSE status[n]]
  <2>1. \A n \in Node : (\E i \in DOMAIN Ready : Ready[i] = n) <=> n \in T
    BY <1>1
  <2> QED BY <2>1 DEF Claim
<1>7. T \subseteq Node /\ \A n \in T : status[n] = "pending"
  BY BatchFacts DEF Claimable
<1> HIDE DEF T, I
<1>8. Running' = Running \cup T /\ Running \cap T = {}
  BY <1>6, <1>7 DEF Running
<1>9. Cardinality(Running \cup T) = Cardinality(Running) + Cardinality(T) - Cardinality({})
  BY <1>5, <1>8, RoomIsInt, FS_Union
<1> QED BY <1>5, <1>8, <1>9, RoomIsInt, BatchFacts, FS_EmptySet

(* What is left unclaimed after a step had no room, or will be looked at. *)
LEMMA NothingLeftStep ==
    ASSUME TypeOK, TypeOK', LoopShape, Aborts, NothingLeft, [Next]_vars
    PROVE  NothingLeft'
<1> DEFINE L == {"idle", "pausing", "ending", "waiting", "starting", "refusing"}
<1> SUFFICES ASSUME loop' \in L, ~ rerun', terminal' = "none", ~ Stopping', ~ Reported' PROVE Taken'
  BY DEF NothingLeft, Quiet
<1>0. /\ dispatches \in Nat /\ dispatches' \in Nat /\ Len(claims) \in Nat /\ Len(claims') \in Nat
      /\ MaxParallel \in Nat /\ Ceiling \in Nat /\ Cardinality(Running) \in Nat
  <2>1. dispatches \in Nat /\ dispatches' \in Nat /\ Len(claims) \in Nat /\ Len(claims') \in Nat
    BY DEF TypeOK
  <2> QED BY <2>1, Plan, RoomIsInt
<1>1. CASE Minded
  <2>1. Undisturbed /\ loop \in L
    BY <1>1 DEF Minded, Undisturbed
  <2>2. ~ rerun /\ terminal = "none" /\ ~ Stopping /\ ~ Reported
    <3>1. terminal = "none" /\ (Stopping => Stopping')
      BY StoppingKept
    <3> QED BY <2>1, <3>1 DEF Undisturbed
  <2>3. Taken
    BY <2>1, <2>2 DEF NothingLeft, Quiet
  <2>4. Running' = Running /\ \A n \in Node : Claimable(n)' <=> Claimable(n)
    BY <2>1 DEF Undisturbed, Running, Claimable, AllDepsSettled, HasLiveEdge
  <2>5. dispatches + Len(claims) <= dispatches' + Len(claims')
    BY <2>1 DEF Undisturbed
  <2> QED BY <1>0, <2>3, <2>4, <2>5 DEF Taken
<1>2. ASSUME NEW r \in BOOLEAN, AtPass, Idle(r) PROVE Taken'
  <2>1. Ready = <<>> /\ UNCHANGED <<status, chosen, claims, dispatches>>
    BY <1>2 DEF Idle, graph
  <2>2. Len(Ready) = 0 /\ \A k \in 1..0 : FALSE
    BY <2>1
  <2>3. Room <= 0 \/ ~ \E n \in Node : Claimable(n)
    BY <2>2, BatchFacts
  <2>4. Room <= 0 => MaxParallel <= Cardinality(Running) \/ Ceiling <= dispatches
    BY <1>0 DEF Room
  <2>5. dispatches < Ceiling
    BY <1>2 DEF Idle
  <2>6. Running' = Running /\ \A n \in Node : Claimable(n)' <=> Claimable(n)
    BY <2>1 DEF Running, Claimable, AllDepsSettled, HasLiveEdge
  <2> QED BY <1>0, <2>3, <2>4, <2>5, <2>6 DEF Taken
<1>3. ASSUME NEW r \in BOOLEAN, AtPass, Claim(r) PROVE Taken'
  <2>1. claims' = Ready /\ claims = <<>> /\ UNCHANGED <<chosen, dispatches>>
    BY <1>3 DEF Claim, AtPass, LoopShape
  <2>2. CASE Room <= Len(Ready)
    <3>1. MaxParallel - Cardinality(Running) <= Len(Ready) \/ Ceiling - dispatches <= Len(Ready)
      BY <1>0, <2>2 DEF Room
    <3>2. Cardinality(Running') = Cardinality(Running) + Len(Ready)
      BY <1>3, RunningGrows
    <3> QED BY <1>0, <2>1, <3>1, <3>2 DEF Taken
  <2>3. CASE \A n \in Node : Claimable(n) => \E k \in 1..Len(Ready) : Ready[k] = n
    <3>1. ASSUME NEW n \in Node, Claimable(n)' PROVE Claimable(n)
      <4>1. \A m \in Node : status'[m] = status[m] \/ (status[m] = "pending" /\ status'[m] = "running")
        BY <1>3, ClaimFacts
      <4>2. Deps[n] \subseteq Node
        BY Plan
      <4>3. \A m \in Deps[n] : status'[m] \in Settled => status'[m] = status[m]
        BY <4>1, <4>2 DEF Settled
      <4>4. status[n] = "pending" /\ AllDepsSettled(n)
        BY <3>1, <4>1, <4>3 DEF Claimable, AllDepsSettled
      <4>5. HasLiveEdge(n)
        BY <2>1, <3>1, <4>3 DEF Claimable, HasLiveEdge, Settled
      <4> QED BY <4>4, <4>5 DEF Claimable
    <3>2. ASSUME NEW n \in Node, Claimable(n)' PROVE FALSE
      <4>1. PICK k \in 1..Len(Ready) : Ready[k] = n
        BY <2>3, <3>1, <3>2
      <4>2. status' = [m \in Node |-> IF \E i \in DOMAIN Ready : Ready[i] = m THEN "running" ELSE status[m]]
        BY <1>3 DEF Claim
      <4>3. k \in DOMAIN Ready
        BY BatchFacts
      <4>4. status'[n] = "running"
        BY <4>1, <4>2, <4>3
      <4> QED BY <3>2, <4>4 DEF Claimable
    <3> QED BY <3>2 DEF Taken
  <2> QED BY <2>2, <2>3, BatchFacts
<1> QED BY <1>1, <1>2, <1>3, MindedStep DEF Deciders

-----------------------------------------------------------------------------
(* Nobody waits for nothing.                                                 *)

(* A pass is asked for, somebody will ask for one, or who would ask is as before. *)
Heard ==
    \/ loop' \notin {"idle", "pausing", "ending"} \/ rerun' \/ terminal' # "none"
    \/ landing' # {} \/ grace' = "sweeping"
Answered ==
    \/ Stopping' /\ \E n \in Node : AsksWhenStopped(n)'
    \/ ~ Stopping' /\ \E n \in Node : AsksOrRests(n)'
Unheard ==
    /\ loop \in {"idle", "pausing", "ending"}
    /\ UNCHANGED <<rerun, terminal, landing, grace, cancelling, failure, aborted>>
    /\ \A n \in Node : Stopping /\ AsksWhenStopped(n) => AsksWhenStopped(n)'
    /\ \A n \in Node : ~ Stopping /\ AsksOrRests(n) => AsksOrRests(n)'
Minds == Heard \/ Answered \/ Unheard

(* That is every step. *)
LEMMA MindsStep ==
    ASSUME TypeOK, LoopShape, Claimed, Working, Parking, Deciding, Aborts, Stalled, Polled, Swept, Attended, SweptAtStart, [Next]_vars
    PROVE  Minds
<1>0. /\ status \in [Node -> {"pending", "running", "paused"} \cup Settled]
      /\ task \in [Node -> {"none", "executing", "backoff", "restarting"}] /\ publishing \in [Node -> Nat]
      /\ media \in [Node -> {"none", "submitting", "polling", "pinning"}]
      /\ decide \in [Node -> {"none", "checking", "pinning", "approving", "rejecting"}]
      /\ gate \in [Node -> {"none", "open", "claimed"}]
  BY DEF TypeOK
<1>1. ASSUME UNCHANGED vars PROVE Minds
  BY <1>1, <1>0 DEF vars, graph, pass, work, stop, gates, mjobs, ends, Heard, Minds, Unheard, AsksWhenStopped, AsksOrRests, Stopping
<1>2. ASSUME SkipsFound PROVE Minds
  BY <1>2 DEF SkipsFound, Minds, Heard
<1>3. ASSUME NEW r \in BOOLEAN, AtPass, Conclude(r) PROVE Minds
  <2>1. CASE (cancelling \/ failure # "none") /\ Running # {}
    <3>1. PICK n \in Running : TRUE
      BY <2>1
    <3>2. /\ n \in Node /\ status[n] = "running" /\ claims = <<>> /\ starting = NoNode /\ terminal = "none"
          /\ UNCHANGED <<cancelling, failure, noNewDispatch, grace, status, task>>
      BY <1>3, <2>1, <3>1 DEF Conclude, AtPass, LoopShape, Running, graph, work
    <3>3. Unstarted = {}
      BY <3>2 DEF Unstarted
    <3>4. CASE task[n] # "none"
      BY <3>2, <3>4, <2>1 DEF Minds, Answered, AsksWhenStopped, Stopping
    <3>5. CASE noNewDispatch
      BY <3>2, <3>3, <3>5, <3>1 DEF Swept, Minds, Heard
    <3> QED BY <3>1, <3>2, <3>3, <3>4, <3>5, Plan DEF Attended
  <2>2. CASE ~ ((cancelling \/ failure # "none") /\ Running # {})
    BY <1>3, <2>2 DEF Conclude, Settle, Minds, Heard
  <2> QED BY <2>1, <2>2
<1>4. ASSUME NEW r \in BOOLEAN, AtPass, CeilingReached(r) PROVE Minds
  BY <1>4 DEF CeilingReached, EndPass, Minds, Heard
<1>5. ASSUME NEW r \in BOOLEAN, AtPass, Claim(r) PROVE Minds
  BY <1>5 DEF Claim, Minds, Heard
<1>6. ASSUME NEW r \in BOOLEAN, AtPass, Idle(r) PROVE Minds
  <2>1. /\ terminal = "none" /\ claims = <<>> /\ starting = NoNode /\ ~ cancelling /\ failure = "none" /\ ~ aborted
        /\ UNCHANGED <<cancelling, aborted, status, task, publishing, media, decide, gate, jobs>>
    BY <1>6 DEF Idle, GoingOn, AtPass, LoopShape, Aborts, graph, work, gates, mjobs
  <2>2. Unstarted = {} /\ ~ noNewDispatch
    BY <2>1 DEF Unstarted, Aborts
  <2>3. CASE failure' = "stalled" /\ rerun'
    BY <2>3 DEF Minds, Heard
  <2>4. CASE UNCHANGED failure
    <3>1. ~ Stopping'
      BY <2>1, <2>4 DEF Stopping
    <3>2. CASE \E n \in Node : AsksOrRests(n)'
      BY <3>1, <3>2 DEF Minds, Answered
    <3>3. CASE \E n \in Node : publishing[n] > 0
      BY <2>1, <3>3, <3>2 DEF AsksOrRests
    <3>4. CASE \E n \in Node : gate[n] = "claimed"
      BY <2>1, <3>4, <3>2 DEF AsksOrRests, Deciding, Stopping
    <3>5. CASE Running # {}
      <4>1. PICK n \in Running : TRUE
        BY <3>5
      <4>2. n \in Node /\ status[n] = "running" /\ task[n] # "none"
        BY <4>1, <2>1, <2>2, Plan DEF Attended, Running
      <4> QED BY <4>2, <2>1, <3>2 DEF AsksOrRests
    <3>6. CASE pauseEpisode' /\ Parked /\ ~ \E n \in Node : gate[n] = "claimed"
      <4>1. CASE \E n \in Node : gate[n] # "none"
        <5>1. PICK n \in Node : gate[n] = "open"
          BY <1>0, <3>6, <4>1
        <5> QED BY <5>1, <2>1, <3>6, <3>2 DEF AsksOrRests
      <4>2. CASE jobs # {}
        <5>1. PICK n \in jobs : TRUE
          BY <4>2
        <5>2. n \in Node /\ media[n] \in {"submitting", "polling"}
          BY <5>1, <2>1, Plan DEF Polled, TypeOK
        <5> QED BY <5>1, <5>2, <2>1, <3>6, <3>2 DEF AsksOrRests
      <4> QED BY <3>6, <4>1, <4>2 DEF Parked
    <3> QED BY <1>6, <2>1, <2>4, <3>3, <3>4, <3>5, <3>6 DEF Idle, StillBusy, EndPass
  <2> QED BY <1>6, <2>3, <2>4 DEF Idle, EndPass
<1>7. ASSUME PauseWritten PROVE Minds
  BY <1>7, <1>0 DEF PauseWritten, EndPass, graph, work, stop, gates, mjobs, ends, Minds, Heard, Answered,
        Unheard, AsksWhenStopped, AsksOrRests, Stopping
<1>8. ASSUME WaitAborted PROVE Minds
  BY <1>8, <1>0, GiveUpFacts DEF WaitAborted, LoopShape, Minds, Heard
<1>9. ASSUME Started PROVE Minds
  <2>1. CASE noNewDispatch
    <3>1. grace = "sweeping" \/ rerun
      BY <1>9, <2>1 DEF Started, SweptAtStart
    <3>2. UNCHANGED grace \/ grace' = grace
      BY <1>9, <2>1 DEF Started, Aborts
    <3>3. rerun' = (rerun \/ (claims # <<>> /\ aborted))
      BY <1>9, <2>1, GiveUpFacts DEF Started, Aborts
    <3> QED BY <3>1, <3>2, <3>3 DEF Minds, Heard
  <2>2. CASE ~ noNewDispatch /\ aborted
    BY <1>9, <2>2 DEF Started, Minds, Heard
  <2>3. CASE ~ noNewDispatch /\ ~ aborted
    <3>1. /\ task' = [task EXCEPT ![starting] = "executing"] /\ loop = "starting" /\ terminal = "none" /\ starting \in Node
          /\ UNCHANGED <<status, cancelling, failure, aborted>>
      BY <1>9, <2>3, Plan DEF Started, LoopShape, TypeOK
    <3>2. starting # NoNode /\ status[starting] \in {"running", "failed"}
      BY <3>1, Plan DEF Claimed
    <3>3. ~ Stopping /\ status[starting] = "running"
      BY <2>3, <3>1, <3>2 DEF Aborts, Stalled, Stopping
    <3>4. PICK n \in Node : n = starting
      BY <3>1
    <3>5. task'[n] = "executing" /\ status'[n] = "running" /\ ~ Stopping'
      BY <1>0, <3>1, <3>3, <3>4 DEF Stopping
    <3>6. AsksOrRests(n)'
      BY <3>5 DEF AsksOrRests
    <3> QED BY <3>5, <3>6 DEF Minds, Answered
  <2> QED BY <2>1, <2>2, <2>3
<1>10. ASSUME Refused PROVE Minds
  BY <1>10, <1>0, RefusedFacts DEF Minds, Heard
<1>11. ASSUME Unwind PROVE Minds
  BY <1>11 DEF Unwind, ends, Minds, Heard
<1>12. ASSUME EndLoop PROVE Minds
  BY <1>12, <1>0 DEF EndLoop, graph, work, stop, gates, mjobs, ends, Minds, Heard, Answered, Unheard,
        AsksWhenStopped, AsksOrRests, Stopping
<1>13. ASSUME Start PROVE Minds
  BY <1>13 DEF Start, Minds, Heard
<1>14. ASSUME WaitFailed PROVE Minds
  BY <1>14 DEF WaitFailed, Minds, Heard
<1>15. ASSUME AppendFailed PROVE Minds
  BY <1>15 DEF AppendFailed, Schedule, Minds, Heard
<1>16. ASSUME RequestCancel PROVE Minds
  BY <1>16 DEF RequestCancel, Schedule, Minds, Heard
<1>17. ASSUME RunTimeout PROVE Minds
  BY <1>17 DEF RunTimeout, Land, Minds, Heard
<1>18. ASSUME GraceElapsed PROVE Minds
  BY <1>18 DEF GraceElapsed, Minds, Heard
<1>19. ASSUME GraceSwept PROVE Minds
  BY <1>19 DEF GraceSwept, Schedule, Minds, Heard
<1>20. ASSUME PublishTerminal PROVE Minds
  BY <1>20 DEF PublishTerminal, Minds, Heard
<1>21. ASSUME NEW n \in Node, GraceAbandons(n) PROVE Minds
  BY <1>21 DEF GraceAbandons, SettleFailed, FailRun, Abort, Minds, Heard
<1>22. ASSUME NEW n \in Node, NodeDeadline(n) PROVE Minds
  BY <1>22, <1>0 DEF NodeDeadline, OpenForOutcome, SettleFailed, Land, pass, gates, mjobs, ends, FailRun,
        Abort, Minds, Heard, Answered, Unheard, AsksWhenStopped, AsksOrRests, Stopping
<1>23. ASSUME NEW n \in Node, GateDecision(n) PROVE Minds
  BY <1>23, <1>0 DEF GateDecision, ClaimGate, Minds, Answered, AsksWhenStopped, AsksOrRests
<1>24. ASSUME NEW n \in Node, GateTimeout(n) PROVE Minds
  BY <1>24, <1>0 DEF GateTimeout, ClaimGate, SettleFailed, Land, pass, mjobs, ends, FailRun, Abort, Minds,
        Heard, Answered, Unheard, AsksWhenStopped, AsksOrRests, Stopping
<1>25. ASSUME NEW n \in Node, RespondLate(n) PROVE Minds
  BY <1>25, <1>0 DEF RespondLate, Executing, OpenForOutcome, Finish, Settled, Heard, graph, pass, stop, gates, mjobs, ends, Minds, Unheard, AsksWhenStopped, AsksOrRests, Stopping
<1>26. ASSUME NEW n \in Node, RespondCompleted(n) PROVE Minds
  BY <1>26 DEF RespondCompleted, Land, Minds, Heard
<1>27. ASSUME NEW n \in Node, RespondFailed(n) PROVE Minds
  BY <1>27 DEF RespondFailed, Land, Minds, Heard
<1>28. ASSUME NEW n \in Node, RespondRetryable(n) PROVE Minds
  BY <1>28, <1>0 DEF RespondRetryable, Executing, OpenForOutcome, ShouldRetry, graph, pass, stop, gates,
        mjobs, ends, Minds, Heard, Answered, Unheard, AsksWhenStopped, AsksOrRests, Stopping
<1>29. ASSUME NEW n \in Node, RespondPaused(n) PROVE Minds
  BY <1>29, <1>0 DEF RespondPaused, Minds, Answered, AsksWhenStopped, AsksOrRests
<1>30. ASSUME NEW n \in Node, RespondMediaJob(n) PROVE Minds
  BY <1>30, <1>0 DEF RespondMediaJob, Minds, Answered, AsksWhenStopped, AsksOrRests
<1>31. ASSUME NEW n \in Node, BackoffOver(n) PROVE Minds
  <2>1. CASE landing' # {}
    BY <2>1 DEF Minds, Heard
  <2>2. CASE landing' = {}
    <3>1. /\ UNCHANGED <<loop, rerun, terminal, landing, grace, cancelling, failure, aborted>>
          /\ UNCHANGED <<status, publishing, media, decide, gate, pauseEpisode, jobs>>
          /\ (status[n] \in Settled /\ task' = [task EXCEPT ![n] = "none"]) \/ task' = [task EXCEPT ![n] = "restarting"]
      BY <1>31, <2>2 DEF BackoffOver, Finish, OpenForOutcome, Land, pass, gates, mjobs, ends
    <3> QED BY <1>0, <3>1 DEF Settled, Heard, Minds, Unheard, AsksWhenStopped, AsksOrRests, Stopping
  <2> QED BY <2>1, <2>2
<1>32. ASSUME NEW n \in Node, Restarted(n) PROVE Minds
  <2>1. CASE landing' # {}
    BY <2>1 DEF Minds, Heard
  <2>2. CASE noNewDispatch
    <3>1. /\ task[n] = "restarting" /\ terminal = "none" /\ task' = [task EXCEPT ![n] = "none"]
          /\ UNCHANGED <<status, failure, aborted, grace, landing>>
      BY <1>32, <2>2, <2>1 DEF Restarted, Finish, Aborts, Land
    <3>2. CASE grace = "sweeping"
      BY <3>1, <3>2 DEF Minds, Heard
    <3>3. CASE status[n] # "running"
      <4>1. UNCHANGED <<loop, rerun, terminal, cancelling, publishing, media, decide, gate, pauseEpisode, jobs>>
        BY <1>32 DEF Restarted, pass, gates, mjobs, ends
      <4> QED BY <1>0, <3>1, <3>3, <4>1 DEF Heard, Minds, Unheard, AsksWhenStopped, AsksOrRests, Stopping
    <3>4. n \notin Unstarted
      BY <3>1 DEF Claimed
    <3> QED BY <2>2, <3>1, <3>2, <3>3, <3>4 DEF Swept, Running
  <2>3. CASE ~ aborted
    BY <1>32, <1>0, <2>2, <2>3 DEF Restarted, Heard, pass, gates, mjobs, ends, Minds, Unheard, AsksWhenStopped, AsksOrRests, Stopping
  <2> QED BY <1>32, <2>1, <2>2, <2>3 DEF Restarted, Land
<1>33. ASSUME NEW n \in Node, PauseAcked(n) PROVE Minds
  BY <1>33, <1>0 DEF PauseAcked, graph, pass, work, stop, mjobs, ends, Minds, Heard, Answered, Unheard,
        AsksWhenStopped, AsksOrRests, Stopping
<1>34. ASSUME NEW n \in Node, PausePublished(n) PROVE Minds
  BY <1>34 DEF PausePublished, Schedule, Minds, Heard
<1>35. ASSUME NEW n \in Node, DecisionChecked(n) PROVE Minds
  BY <1>35, <1>0 DEF DecisionChecked, ResumeRefused, graph, pass, Settle, Minds, Heard, Answered, Unheard,
        AsksWhenStopped, AsksOrRests, Stopping
<1>36. ASSUME NEW n \in Node, DecisionPinned(n) PROVE Minds
  <2>1. CASE Schedule
    BY <1>36, <2>1 DEF DecisionPinned, Schedule, Minds, Heard
  <2>2. CASE landing' # {}
    BY <2>2 DEF Minds, Heard
  <2>3. CASE ~ Schedule /\ landing' = {}
    <3>1. /\ UNCHANGED <<loop, rerun, terminal, landing, grace, cancelling, failure, aborted>>
          /\ UNCHANGED <<status, task, publishing, media, gate, pauseEpisode, jobs>>
          /\ decide[n] = "pinning" /\ terminal = "none" /\ decide' = [decide EXCEPT ![n] = "none"]
          /\ cancelling \/ aborted \/ status[n] # "paused"
      BY <1>36, <2>3 DEF DecisionPinned, Land, mjobs, ends
    <3>2. Stopping
      BY <3>1, <1>0 DEF Deciding, Parking, Aborts, Stopping
    <3> QED BY <1>0, <3>1, <3>2 DEF Heard, Minds, Unheard, AsksWhenStopped, AsksOrRests, Stopping
  <2> QED BY <2>1, <2>2, <2>3
<1>37. ASSUME NEW n \in Node, BudgetDecided(n) PROVE Minds
  BY <1>37 DEF BudgetDecided, Schedule, Minds, Heard
<1>38. ASSUME NEW n \in Node, MediaSubmitted(n) PROVE Minds
  BY <1>38 DEF MediaSubmitted, Schedule, Minds, Heard
<1>39. ASSUME NEW n \in Node, PollFailed(n) PROVE Minds
  <2>1. CASE landing' # {}
    BY <2>1 DEF Minds, Heard
  <2>2. CASE landing' = {}
    <3>1. /\ UNCHANGED <<loop, rerun, terminal, landing, grace, cancelling, failure, aborted>>
          /\ UNCHANGED <<status, task, publishing, decide>> /\ status[n] \in Settled /\ n \in jobs
          /\ media[n] = "polling" /\ media' = [media EXCEPT ![n] = "none"]
      BY <1>39, <2>2 DEF PollFailed, OpenForOutcome, Land, pass, gates, ends
    <3>2. Stopping
      BY <3>1 DEF Parking, Settled, Aborts, Stopping
    <3> QED BY <1>0, <3>1, <3>2 DEF Heard, Minds, Unheard, AsksWhenStopped, Stopping
  <2> QED BY <2>1, <2>2
<1>40. ASSUME NEW n \in Node, PollAborted(n) PROVE Minds
  BY <1>40, <1>0 DEF PollAborted, graph, pass, work, stop, gates, ends, Minds, Heard, Answered, Unheard,
        AsksWhenStopped, AsksOrRests, Stopping
<1>41. ASSUME NEW n \in Node, PollDone(n) PROVE Minds
  BY <1>41, <1>0 DEF PollDone, graph, pass, work, stop, gates, ends, Minds, Heard, Answered, Unheard,
        AsksWhenStopped, AsksOrRests, Stopping
<1>42. ASSUME NEW n \in Node, MediaPinned(n) PROVE Minds
  <2>1. CASE landing' # {}
    BY <2>1 DEF Minds, Heard
  <2>2. CASE landing' = {}
    <3>1. /\ UNCHANGED <<loop, rerun, terminal, landing, grace, cancelling, failure, aborted>>
          /\ UNCHANGED <<status, task, publishing, decide>> /\ status[n] \in Settled
          /\ media[n] = "pinning" /\ media' = [media EXCEPT ![n] = "none"]
      BY <1>42, <2>2 DEF MediaPinned, OpenForOutcome, Land, pass, gates, ends
    <3>2. Stopping
      BY <3>1 DEF Parking, Settled, Aborts, Stopping
    <3> QED BY <1>0, <3>1, <3>2 DEF Heard, Minds, Unheard, AsksWhenStopped, Stopping
  <2> QED BY <2>1, <2>2
<1>43. ASSUME NEW n \in Node, NEW v \in {"approve", "reject"}, BudgetDecision(n, v) PROVE Minds
  BY <1>43, <1>0 DEF BudgetDecision, graph, pass, work, stop, mjobs, ends, Minds, Heard, Answered, Unheard,
        AsksWhenStopped, AsksOrRests, Stopping
<1>44. ASSUME NEW c \in callers, BudgetPrepared(c) PROVE Minds
  BY <1>44, <1>0 DEF BudgetPrepared, ResumeRefused, GateStillOpen, graph, pass, Settle, Minds, Heard,
        Answered, Unheard, AsksWhenStopped, AsksOrRests, Stopping
<1>45. ASSUME NEW n \in Node \cup {NoNode}, Landed(n) PROVE Minds
  BY <1>45 DEF Landed, Schedule, Minds, Heard
<1> QED BY <1>1, <1>2, <1>3, <1>4, <1>5, <1>6, <1>7, <1>8, <1>9, <1>10, <1>11, <1>12, <1>13, <1>14, <1>15,
        <1>16, <1>17, <1>18, <1>19, <1>20, <1>21, <1>22, <1>23, <1>24, <1>25, <1>26, <1>27, <1>28, <1>29,
        <1>30, <1>31, <1>32, <1>33, <1>34, <1>35, <1>36, <1>37, <1>38, <1>39, <1>40, <1>41, <1>42, <1>43,
        <1>44, <1>45, StepCases

(* So somebody always will wake the loop. *)
LEMMA WakesStep ==
    ASSUME Wakes, Minds
    PROVE  Wakes'
<1>1. CASE Heard
  BY <1>1 DEF Heard, Wakes, Quiet
<1>2. CASE Answered
  BY <1>2 DEF Answered, Wakes
<1>3. CASE Unheard
  <2>1. Stopping' <=> Stopping
    BY <1>3 DEF Unheard, Stopping
  <2> QED BY <1>3, <2>1 DEF Unheard, Wakes, Quiet
<1> QED BY <1>1, <1>2, <1>3 DEF Minds

(* A start is overtaken by the sweep only while the sweep is under way. *)
LEMMA SweptAtStartStep ==
    ASSUME TypeOK, LoopShape, Aborts, SweptAtStart, [Next]_vars
    PROVE  SweptAtStart'
<1>0. /\ loop \in {"idle", "awake", "skipping", "pausing", "waiting", "starting", "refusing", "ending"}
      /\ rerun \in BOOLEAN /\ terminal \in {"none", "completed", "failed", "cancelled"}
      /\ noNewDispatch \in BOOLEAN /\ grace \in {"off", "armed", "sweeping", "done"}
  BY DEF TypeOK
<1>1. ASSUME UNCHANGED vars \/ PublishTerminal PROVE SweptAtStart'
  BY <1>1, <1>0 DEF vars, pass, stop, ends, PublishTerminal, SweptAtStart
<1>2. ASSUME SkipsFound PROVE SweptAtStart'
  BY <1>2 DEF SkipsFound, SweptAtStart
<1>3. ASSUME NEW r \in BOOLEAN, AtPass, Conclude(r) PROVE SweptAtStart'
  BY <1>3, <1>0 DEF Conclude, EndPass, Settle, AtPass, SweptAtStart
<1>4. ASSUME NEW r \in BOOLEAN, AtPass, CeilingReached(r) PROVE SweptAtStart'
  BY <1>4, <1>0 DEF CeilingReached, Abort, EndPass, ends, AtPass, SweptAtStart
<1>5. ASSUME NEW r \in BOOLEAN, AtPass, Claim(r) PROVE SweptAtStart'
  BY <1>5 DEF Claim, SweptAtStart
<1>6. ASSUME NEW r \in BOOLEAN, AtPass, Idle(r) PROVE SweptAtStart'
  BY <1>6, <1>0 DEF Idle, EndPass, ends, AtPass, SweptAtStart
<1>7. ASSUME PauseWritten PROVE SweptAtStart'
  BY <1>7, <1>0 DEF PauseWritten, EndPass, stop, ends, SweptAtStart
<1>8. ASSUME WaitAborted PROVE SweptAtStart'
  BY <1>8, <1>0, GiveUpFacts DEF SweptAtStart, WaitAborted
<1>9. ASSUME Started PROVE SweptAtStart'
  BY <1>9, <1>0 DEF Started, GiveUpClaims, EndPass, SweptAtStart
<1>10. ASSUME Refused PROVE SweptAtStart'
  BY <1>10, <1>0, RefusedFacts DEF SweptAtStart
<1>11. ASSUME Unwind PROVE SweptAtStart'
  BY <1>11, <1>0, GiveUpFacts DEF Unwind, SweptAtStart
<1>12. ASSUME EndLoop PROVE SweptAtStart'
  BY <1>12, <1>0 DEF EndLoop, stop, ends, SweptAtStart
<1>13. ASSUME Start PROVE SweptAtStart'
  BY <1>13 DEF Start, Aborts, SweptAtStart, stop
<1>14. ASSUME WaitFailed PROVE SweptAtStart'
  BY <1>14, <1>0 DEF WaitFailed, SettleFailed, ends, FailRun, Abort, SweptAtStart
<1>15. ASSUME AppendFailed PROVE SweptAtStart'
  BY <1>15, <1>0 DEF AppendFailed, AppendUnderWay, Abort, Schedule, ends, SweptAtStart
<1>16. ASSUME RequestCancel PROVE SweptAtStart'
  BY <1>16, <1>0 DEF RequestCancel, Abort, Schedule, ends, SweptAtStart
<1>17. ASSUME RunTimeout PROVE SweptAtStart'
  BY <1>17, <1>0 DEF RunTimeout, Abort, pass, ends, SweptAtStart
<1>18. ASSUME GraceElapsed PROVE SweptAtStart'
  BY <1>18, <1>0 DEF GraceElapsed, pass, ends, SweptAtStart
<1>19. ASSUME GraceSwept PROVE SweptAtStart'
  BY <1>19, <1>0 DEF GraceSwept, Schedule, ends, SweptAtStart
<1>20. ASSUME NEW n \in Node, GraceAbandons(n) PROVE SweptAtStart'
  BY <1>20, <1>0 DEF GraceAbandons, SettleFailed, pass, ends, FailRun, Abort, SweptAtStart
<1>21. ASSUME NEW n \in Node, NodeDeadline(n) PROVE SweptAtStart'
  BY <1>21, <1>0 DEF NodeDeadline, SettleFailed, pass, ends, FailRun, Abort, SweptAtStart
<1>22. ASSUME NEW n \in Node,
              GateDecision(n) \/ RespondLate(n) \/ RespondCompleted(n) \/ RespondRetryable(n)
       PROVE  SweptAtStart'
  BY <1>22, <1>0 DEF GateDecision, pass, stop, ends, RespondLate, RespondCompleted, RespondRetryable,
        SweptAtStart
<1>23. ASSUME NEW n \in Node, GateTimeout(n) PROVE SweptAtStart'
  BY <1>23, <1>0 DEF GateTimeout, SettleFailed, pass, ends, FailRun, Abort, SweptAtStart
<1>24. ASSUME NEW n \in Node, RespondFailed(n) PROVE SweptAtStart'
  BY <1>24, <1>0 DEF RespondFailed, Executing, SettleFailed, pass, ends, FailRun, Abort, SweptAtStart
<1>25. ASSUME NEW n \in Node,
              RespondPaused(n) \/ RespondMediaJob(n) \/ PauseAcked(n) \/ PollAborted(n)
       PROVE  SweptAtStart'
  BY <1>25, <1>0 DEF RespondPaused, pass, stop, ends, RespondMediaJob, PauseAcked, PollAborted, SweptAtStart
<1>26. ASSUME NEW n \in Node, BackoffOver(n) PROVE SweptAtStart'
  BY <1>26, <1>0 DEF BackoffOver, SettleFailed, pass, ends, FailRun, Abort, SweptAtStart
<1>27. ASSUME NEW n \in Node, Restarted(n) PROVE SweptAtStart'
  BY <1>27, <1>0 DEF Restarted, SettleFailed, pass, ends, FailRun, Abort, SweptAtStart
<1>28. ASSUME NEW n \in Node, PausePublished(n) PROVE SweptAtStart'
  BY <1>28, <1>0 DEF PausePublished, CanAuthorize, Schedule, stop, ends, SweptAtStart
<1>29. ASSUME NEW n \in Node, DecisionChecked(n) PROVE SweptAtStart'
  BY <1>29, <1>0 DEF DecisionChecked, ResumeRefused, pass, Settle, SweptAtStart
<1>30. ASSUME NEW n \in Node, DecisionPinned(n) PROVE SweptAtStart'
  BY <1>30, <1>0 DEF DecisionPinned, FailRun, Schedule, ends, Abort, SweptAtStart
<1>31. ASSUME NEW n \in Node, BudgetDecided(n) PROVE SweptAtStart'
  BY <1>31, <1>0 DEF BudgetDecided, Schedule, Acknowledged, FailRun, ends, CanAuthorize, Abort, SweptAtStart
<1>32. ASSUME NEW n \in Node, MediaSubmitted(n) PROVE SweptAtStart'
  BY <1>32, <1>0 DEF MediaSubmitted, Schedule, stop, ends, SweptAtStart
<1>33. ASSUME NEW n \in Node, PollFailed(n) PROVE SweptAtStart'
  BY <1>33, <1>0 DEF PollFailed, SettleFailed, pass, ends, FailRun, Abort, SweptAtStart
<1>34. ASSUME NEW n \in Node, PollDone(n) PROVE SweptAtStart'
  BY <1>34, <1>0 DEF PollDone, pass, stop, ends, SweptAtStart
<1>35. ASSUME NEW n \in Node, MediaPinned(n) PROVE SweptAtStart'
  BY <1>35, <1>0 DEF MediaPinned, SettleFailed, pass, ends, FailRun, Abort, SweptAtStart
<1>36. ASSUME NEW n \in Node, NEW v \in {"approve", "reject"}, BudgetDecision(n, v) PROVE SweptAtStart'
  BY <1>36, <1>0 DEF BudgetDecision, pass, stop, ends, SweptAtStart
<1>37. ASSUME NEW c \in callers, BudgetPrepared(c) PROVE SweptAtStart'
  BY <1>37, <1>0 DEF BudgetPrepared, ResumeRefused, pass, Settle, SweptAtStart
<1>38. ASSUME NEW n \in Node \cup {NoNode}, Landed(n) PROVE SweptAtStart'
  BY <1>38, <1>0 DEF Landed, Schedule, stop, ends, SweptAtStart
<1> QED BY <1>1, <1>2, <1>3, <1>4, <1>5, <1>6, <1>7, <1>8, <1>9, <1>10, <1>11, <1>12, <1>13, <1>14, <1>15,
        <1>16, <1>17, <1>18, <1>19, <1>20, <1>21, <1>22, <1>23, <1>24, <1>25, <1>26, <1>27, <1>28, <1>29,
        <1>30, <1>31, <1>32, <1>33, <1>34, <1>35, <1>36, <1>37, <1>38, StepCases

-----------------------------------------------------------------------------
(* Where nobody decides, and where nobody may enter.                         *)

(* No executor is entered by a step of an aborted run. *)
Entered == \A n \in Node : aborted /\ task[n] # "executing" => task'[n] # "executing"

(* Without gates, only a pass with nothing running settles the run. *)
LEMMA GatelessStep ==
    ASSUME Gates = {}, Budgeted = {}, TypeOK, LoopShape, Deciding, Gateless, [Next]_vars
    PROVE  Gateless'
<1>0. /\ gate \in [Node -> {"none", "open", "claimed"}]
      /\ decide \in [Node -> {"none", "checking", "pinning", "approving", "rejecting"}]
      /\ status \in [Node -> {"pending", "running", "paused"} \cup Settled]
  BY DEF TypeOK
<1>1. ASSUME UNCHANGED vars \/ PauseWritten \/ EndLoop \/ AppendFailed PROVE Gateless'
  BY <1>1, <1>0 DEF vars, graph, gates, ends, PauseWritten, EndLoop, AppendFailed, Gateless, Running
<1>2. ASSUME SkipsFound PROVE Gateless'
  BY <1>2, <1>0 DEF SkipsFound, gates, ends, Gateless, Running
<1>3. ASSUME NEW r \in BOOLEAN, AtPass, Conclude(r) PROVE Gateless'
  <2>1. callers' = callers /\ UNCHANGED <<gate, decide, status>>
    BY <1>3 DEF Conclude, graph
  <2>2. CASE (cancelling \/ failure # "none") /\ Running # {}
    BY <1>3, <2>1, <2>2 DEF Conclude, Gateless, AtPass
  <2>3. CASE ~ ((cancelling \/ failure # "none") /\ Running # {})
    <3>1. terminal' # "none" /\ Running = {}
      BY <1>3, <2>3 DEF Conclude, Settle, GoingOn, AllSettled, Settled, Running
    <3> QED BY <2>1, <3>1, <1>0 DEF Gateless, AtPass, Running
  <2> QED BY <2>2, <2>3
<1>4. ASSUME NEW r \in BOOLEAN, AtPass /\ (CeilingReached(r) \/ Idle(r)) PROVE Gateless'
  BY <1>4, <1>0 DEF CeilingReached, graph, gates, ends, Idle, Gateless, Running
<1>5. ASSUME NEW r \in BOOLEAN, AtPass, Claim(r) PROVE Gateless'
  BY <1>5, <1>0 DEF AtPass, Claim, gates, ends, Gateless
<1>6. ASSUME WaitAborted PROVE Gateless'
  BY <1>6, <1>0, GiveUpFacts DEF WaitAborted, gates, ends, Gateless
<1>7. ASSUME Started PROVE Gateless'
  BY <1>7, <1>0 DEF Started, GiveUpClaims, SettleFailed, gates, ends, Gateless, Running
<1>8. ASSUME Refused PROVE Gateless'
  BY <1>8, <1>0, RefusedFacts DEF Refused, gates, ends, Gateless
<1>9. ASSUME Unwind PROVE Gateless'
  BY <1>9, <1>0, GiveUpFacts DEF Unwind, gates, ends, Gateless, Running
<1>10. ASSUME Start PROVE Gateless'
  BY <1>10 DEF Start, gates, ends, Gateless
<1>11. ASSUME WaitFailed PROVE Gateless'
  BY <1>11, <1>0 DEF WaitFailed, SettleFailed, gates, ends, Gateless, Running
<1>12. ASSUME RequestCancel \/ RunTimeout \/ GraceElapsed \/ GraceSwept PROVE Gateless'
  BY <1>12, <1>0 DEF RequestCancel, graph, gates, ends, RunTimeout, GraceElapsed, GraceSwept, Gateless, Running
<1>13. ASSUME PublishTerminal PROVE Gateless'
  BY <1>13, <1>0 DEF PublishTerminal, graph, gates, Gateless, Running
<1>14. ASSUME NEW n \in Node, GraceAbandons(n) PROVE Gateless'
  BY <1>14, <1>0 DEF GraceAbandons, Abandonable, SettleFailed, gates, ends, Gateless, Running
<1>15. ASSUME NEW n \in Node, NodeDeadline(n) PROVE Gateless'
  BY <1>15, <1>0 DEF NodeDeadline, OpenForOutcome, SettleFailed, gates, ends, Gateless, Running
<1>16. ASSUME NEW n \in Node, GateDecision(n) PROVE Gateless'
  BY <1>16, <1>0 DEF GateDecision, ClaimGate, graph, ends, Gateless, Running
<1>17. ASSUME NEW n \in Node, GateTimeout(n) PROVE Gateless'
  BY <1>17, <1>0 DEF GateTimeout, ClaimGate, SettleFailed, ends, Gateless, Running
<1>18. ASSUME NEW n \in Node,
              RespondLate(n) \/ RespondRetryable(n) \/ PauseAcked(n) \/ PausePublished(n)
       PROVE  Gateless'
  BY <1>18, <1>0 DEF RespondLate, graph, gates, ends, RespondRetryable, PauseAcked, PausePublished, Gateless,
        Running
<1>19. ASSUME NEW n \in Node, RespondCompleted(n) PROVE Gateless'
  BY <1>19, <1>0 DEF RespondCompleted, Executing, OpenForOutcome, gates, ends, Gateless, Running
<1>20. ASSUME NEW n \in Node, RespondFailed(n) PROVE Gateless'
  BY <1>20, <1>0 DEF RespondFailed, Executing, OpenForOutcome, SettleFailed, gates, ends, Gateless, Running
<1>21. ASSUME NEW n \in Node, RespondPaused(n) PROVE Gateless'
  BY <1>21, <1>0 DEF RespondPaused, Executing, OpenForOutcome, ends, Gateless, Running
<1>22. ASSUME NEW n \in Node, RespondMediaJob(n) PROVE Gateless'
  BY <1>22, <1>0 DEF RespondMediaJob, Executing, OpenForOutcome, gates, ends, Gateless, Running
<1>23. ASSUME NEW n \in Node, BackoffOver(n) PROVE Gateless'
  BY <1>23, <1>0 DEF BackoffOver, OpenForOutcome, SettleFailed, gates, ends, Gateless, Running
<1>24. ASSUME NEW n \in Node, Restarted(n) PROVE Gateless'
  BY <1>24, <1>0 DEF Restarted, SettleFailed, gates, ends, Gateless, Running
<1>25. ASSUME NEW n \in Node, DecisionChecked(n) PROVE Gateless'
  BY <1>25, <1>0 DEF DecisionChecked, ResumeRefused, graph, Settle, Gateless, Running, Deciding
<1>26. ASSUME NEW n \in Node, DecisionPinned(n) PROVE Gateless'
  BY <1>26, <1>0 DEF DecisionPinned, Schedule, ends, Gateless, Running, Deciding
<1>27. ASSUME NEW n \in Node, BudgetDecided(n) PROVE Gateless'
  BY <1>27, <1>0 DEF BudgetDecided, Schedule, ends, Gateless, Running
<1>28. ASSUME NEW n \in Node, MediaSubmitted(n) \/ PollAborted(n) \/ PollDone(n) PROVE Gateless'
  BY <1>28, <1>0 DEF MediaSubmitted, graph, gates, ends, PollAborted, PollDone, Gateless, Running
<1>29. ASSUME NEW n \in Node, PollFailed(n) PROVE Gateless'
  BY <1>29, <1>0 DEF PollFailed, OpenForOutcome, SettleFailed, gates, ends, Gateless, Running
<1>30. ASSUME NEW n \in Node, MediaPinned(n) PROVE Gateless'
  BY <1>30, <1>0 DEF MediaPinned, OpenForOutcome, SettleFailed, gates, ends, Gateless, Running
<1>31. ASSUME NEW n \in Node, NEW v \in {"approve", "reject"}, BudgetDecision(n, v) PROVE Gateless'
  BY <1>31, <1>0 DEF BudgetDecision, graph, ends, Gateless, Running
<1>32. ASSUME NEW c \in callers, BudgetPrepared(c) PROVE Gateless'
  BY <1>32, <1>0 DEF BudgetPrepared, ResumeRefused, GateStillOpen, graph, Settle, Gateless, Running
<1>33. ASSUME NEW n \in Node \cup {NoNode}, Landed(n) PROVE Gateless'
  BY <1>33, <1>0 DEF Landed, graph, gates, ends, Gateless, Running
<1> QED BY <1>1, <1>2, <1>3, <1>4, <1>5, <1>6, <1>7, <1>8, <1>9, <1>10, <1>11, <1>12, <1>13, <1>14, <1>15,
        <1>16, <1>17, <1>18, <1>19, <1>20, <1>21, <1>22, <1>23, <1>24, <1>25, <1>26, <1>27, <1>28, <1>29,
        <1>30, <1>31, <1>32, <1>33, StepCases

(* That is every step. *)
LEMMA EnteredStep ==
    ASSUME TypeOK, [Next]_vars
    PROVE  Entered
<1>0. /\ task \in [Node -> {"none", "executing", "backoff", "restarting"}]
  BY DEF TypeOK
<1>1. ASSUME UNCHANGED vars \/ PauseWritten \/ Refused \/ Unwind \/ EndLoop \/ Start PROVE Entered
  BY <1>1, <1>0 DEF vars, work, PauseWritten, Refused, Unwind, EndLoop, Start, Entered
<1>2. ASSUME SkipsFound PROVE Entered
  BY <1>2 DEF SkipsFound, Entered
<1>3. ASSUME NEW r \in BOOLEAN, AtPass /\ (Conclude(r) \/ CeilingReached(r) \/ Idle(r)) PROVE Entered
  BY <1>3, <1>0 DEF Conclude, CeilingReached, work, Idle, Entered
<1>4. ASSUME NEW r \in BOOLEAN, AtPass, Claim(r) PROVE Entered
  BY <1>4  DEF Claim, work, Entered
<1>5. ASSUME WaitAborted PROVE Entered
  BY <1>5  DEF WaitAborted, work, Entered
<1>6. ASSUME Started PROVE Entered
  <2>1. CASE aborted
    <3>1. UNCHANGED task
      BY <1>6, <2>1 DEF Started
    <3> QED BY <3>1 DEF Entered
  <2> QED BY <2>1 DEF Entered
<1>7. ASSUME WaitFailed \/ AppendFailed \/ RequestCancel \/ RunTimeout \/ GraceElapsed \/ GraceSwept
      PROVE  Entered
  BY <1>7, <1>0 DEF WaitFailed, work, AppendFailed, RequestCancel, RunTimeout, GraceElapsed, GraceSwept, Entered
<1>8. ASSUME PublishTerminal PROVE Entered
  BY <1>8, <1>0 DEF PublishTerminal, work, Entered
<1>9. ASSUME NEW n \in Node,
             GraceAbandons(n) \/ NodeDeadline(n) \/ GateDecision(n) \/ GateTimeout(n) \/ PauseAcked(n) \/
             PausePublished(n)
      PROVE  Entered
  BY <1>9, <1>0 DEF GraceAbandons, work, NodeDeadline, GateDecision, GateTimeout, PauseAcked, PausePublished,
        Entered
<1>10. ASSUME NEW n \in Node, RespondLate(n) PROVE Entered
  BY <1>10, <1>0 DEF RespondLate, Executing, Finish, Entered
<1>11. ASSUME NEW n \in Node, RespondCompleted(n) PROVE Entered
  BY <1>11, <1>0 DEF RespondCompleted, Executing, Finish, Entered
<1>12. ASSUME NEW n \in Node, RespondFailed(n) PROVE Entered
  BY <1>12, <1>0 DEF RespondFailed, Executing, Finish, Entered
<1>13. ASSUME NEW n \in Node, RespondRetryable(n) PROVE Entered
  BY <1>13, <1>0 DEF RespondRetryable, Executing, Entered
<1>14. ASSUME NEW n \in Node, RespondPaused(n) PROVE Entered
  BY <1>14, <1>0 DEF RespondPaused, Executing, Finish, Entered
<1>15. ASSUME NEW n \in Node, RespondMediaJob(n) PROVE Entered
  BY <1>15, <1>0 DEF RespondMediaJob, Executing, Finish, Entered
<1>16. ASSUME NEW n \in Node, BackoffOver(n) PROVE Entered
  BY <1>16, <1>0 DEF BackoffOver, Finish, Entered
<1>17. ASSUME NEW n \in Node, Restarted(n) PROVE Entered
  BY <1>17, <1>0 DEF Restarted, Finish, Entered
<1>18. ASSUME NEW n \in Node,
              DecisionChecked(n) \/ DecisionPinned(n) \/ BudgetDecided(n) \/ MediaSubmitted(n) \/
              PollFailed(n) \/ PollAborted(n)
       PROVE  Entered
  BY <1>18, <1>0 DEF DecisionChecked, DecisionPinned, BudgetDecided, MediaSubmitted, work, PollFailed,
        PollAborted, Entered
<1>19. ASSUME NEW n \in Node, PollDone(n) \/ MediaPinned(n) PROVE Entered
  BY <1>19, <1>0 DEF PollDone, work, MediaPinned, Entered
<1>20. ASSUME NEW n \in Node, NEW v \in {"approve", "reject"}, BudgetDecision(n, v) PROVE Entered
  BY <1>20, <1>0 DEF BudgetDecision, work, Entered
<1>21. ASSUME NEW c \in callers, BudgetPrepared(c) PROVE Entered
  BY <1>21, <1>0 DEF BudgetPrepared, Entered
<1>22. ASSUME NEW n \in Node \cup {NoNode}, Landed(n) PROVE Entered
  BY <1>22, <1>0 DEF Landed, Entered
<1> QED BY <1>1, <1>2, <1>3, <1>4, <1>5, <1>6, <1>7, <1>8, <1>9, <1>10, <1>11, <1>12, <1>13, <1>14, <1>15,
        <1>16, <1>17, <1>18, <1>19, <1>20, <1>21, <1>22, StepCases

-----------------------------------------------------------------------------
(* The theorems.                                                             *)

(* The invariant holds at first ... *)
LEMMA InitInv == Init => SchedulerInv
<1> SUFFICES ASSUME Init PROVE SchedulerInv
  OBVIOUS
<1>0. /\ MaxParallel \in Nat \ {0} /\ Ceiling \in Nat \ {0}
  BY Plan
<1>1. Running = {} /\ Unstarted = {} /\ BackingOff = {}
  BY DEF Init, Running, Unstarted, BackingOff
<1>2. Len(claims) = 0 /\ Cardinality(Running \ Unstarted) = 0 /\ Cardinality(BackingOff) = 0 /\ dispatches = 0
  BY <1>1, FS_EmptySet DEF Init
<1>3. TypeOK
  <2>1. RunTimed \in BOOLEAN /\ <<>> \in Seq(Node)
    BY SchedulerConstants
  <2> QED BY <2>1 DEF Init, TypeOK, Settled
<1>4. LoopShape /\ Distinct /\ Working /\ Parking /\ Deciding /\ Polled /\ Aborts
  BY DEF Init, LoopShape, Distinct, Working, Parking, Deciding, Polled, Aborts
<1>5. Claimed
  BY <1>1, Plan DEF Init, Claimed
<1>6. Stalled /\ Swept /\ Complete /\ SweptAtStart
  BY <1>1 DEF Init, Stalled, Swept, Complete, SweptAtStart
<1>7. Attended
  BY <1>1 DEF Attended
<1>8. TurnTaken
  BY DEF Init, TurnTaken
<1>9. Width /\ Counted
  BY <1>0, <1>2 DEF Width, Counted
<1>10. NothingLeft /\ Wakes
  BY DEF Init, NothingLeft, Wakes, Quiet
<1> QED BY <1>3, <1>4, <1>5, <1>6, <1>7, <1>8, <1>9, <1>10 DEF SchedulerInv

(* ... and after every step. *)
LEMMA StepInv == SchedulerInv /\ [Next]_vars => SchedulerInv'
<1> SUFFICES ASSUME SchedulerInv, [Next]_vars PROVE SchedulerInv'
  OBVIOUS
<1> USE DEF SchedulerInv
<1>1. TypeOK' /\ LoopShape' /\ Distinct'
  BY TypeStep, LoopShapeStep, DistinctStep
<1>2. Claimed' /\ Working' /\ Parking' /\ Deciding' /\ Polled'
  BY ClaimedStep, WorkingStep, ParkingStep, DecidingStep, PolledStep
<1>3. Aborts' /\ Stalled' /\ Swept' /\ Attended' /\ Complete'
  BY AbortsStep, StalledStep, SweptStep, AttendedStep, CompleteStep
<1>4. TurnTaken' /\ Width' /\ Counted'
  BY <1>1, TurnTakenStep, WidthStep, CountedStep
<1>5. NothingLeft' /\ Wakes' /\ SweptAtStart'
  BY <1>1, NothingLeftStep, MindsStep, WakesStep, SweptAtStartStep
<1> QED BY <1>1, <1>2, <1>3, <1>4, <1>5

(* The invariant holds of every run of the loop, for every plan, every number of
   slots and every ceiling. *)
THEOREM SchedulerInvariant == Spec => []SchedulerInv
BY InitInv, StepInv, PTL DEF Spec

(* The fields of RunExecution keep their types. *)
THEOREM TypeInvariant == Spec => []TypeOK
<1>1. SchedulerInv => TypeOK
  BY DEF SchedulerInv
<1> QED BY <1>1, SchedulerInvariant, PTL

(* #claimReady and #propagateSkips never act out of turn. *)
THEOREM ReadyWhenRun == Spec => []RanOnlyWhenReady
<1>1. ASSUME SchedulerInv, NEW n \in Node
      PROVE  /\ status[n] # "pending" => \A m \in Deps[n] : status[m] \in Settled
             /\ status[n] \in {"running", "paused", "completed", "failed"} => HasLiveEdge(n)
             /\ status[n] = "skipped" => ~ HasLiveEdge(n)
  <2>1. status[n] \in {"pending", "running", "paused", "completed", "failed", "skipped"}
    BY <1>1 DEF SchedulerInv, TypeOK, Settled
  <2> QED BY <1>1, <2>1 DEF SchedulerInv, TurnTaken, Alive
<1>2. SchedulerInv => RanOnlyWhenReady
  BY <1>1 DEF RanOnlyWhenReady, HasLiveEdge
<1> QED BY <1>2, SchedulerInvariant, PTL

(* Both limits of a run hold through every await. *)
THEOREM LimitsHold == Spec => []WithinCeilings
<1>1. ASSUME SchedulerInv PROVE WithinCeilings
  <2> USE DEF SchedulerInv
  <2>0. Len(claims) \in Nat /\ dispatches \in Nat /\ MaxParallel \in Nat /\ Ceiling \in Nat /\ DOMAIN claims = 1..Len(claims)
    BY <1>1, Plan DEF TypeOK
  <2>1. Unstarted \in SUBSET Node /\ Running \in SUBSET Node /\ BackingOff \in SUBSET Node
    BY <1>1, ClaimsAreNodes DEF Running, BackingOff
  <2>2. Cardinality(Unstarted) <= Len(claims)
    <3>1. claims \in [1..Len(claims) -> Unstarted]
      BY <1>1, <2>0 DEF TypeOK, Unstarted
    <3>2. claims \in Surjection(1..Len(claims), Unstarted)
      BY <2>0, <3>1 DEF Surjection, Unstarted
    <3> QED BY <2>0, <3>2, FS_Surjection, FS_Interval
  <2> DEFINE R == Running \ Unstarted
             U == Running \cap Unstarted
  <2>3. /\ IsFiniteSet(R) /\ IsFiniteSet(U) /\ IsFiniteSet(Unstarted) /\ IsFiniteSet(BackingOff)
        /\ Cardinality(R) \in Nat /\ Cardinality(U) \in Nat /\ Cardinality(Unstarted) \in Nat
        /\ Cardinality(BackingOff) \in Nat /\ Cardinality(Running) \in Nat
    BY <2>1, FiniteParts
  <2>4. Cardinality(U) <= Cardinality(Unstarted)
    BY <2>3, FS_Subset
  <2>5. Cardinality(Running) = Cardinality(R) + Cardinality(U)
    <3>1. Running = R \cup U /\ R \cap U = {}
      OBVIOUS
    <3>2. Cardinality(R \cup U) = Cardinality(R) + Cardinality(U) - Cardinality(R \cap U)
      BY <2>3, FS_Union
    <3>3. Cardinality(R \cap U) = 0
      BY <3>1, FS_EmptySet
    <3> HIDE DEF R, U
    <3> QED BY <2>3, <3>1, <3>2, <3>3
  <2>6. Len(claims) + Cardinality(R) <= MaxParallel
    BY <1>1 DEF Width
  <2>7. dispatches + Len(claims) + Cardinality(BackingOff) <= Ceiling + MaxParallel - 1
    BY <1>1 DEF Counted
  <2> HIDE DEF R, U
  <2>8. Cardinality(Running) <= MaxParallel
    BY <2>0, <2>2, <2>3, <2>4, <2>5, <2>6
  <2>9. dispatches <= Ceiling + MaxParallel - 1
    BY <2>0, <2>3, <2>7
  <2> QED BY <2>8, <2>9 DEF WithinCeilings, ParallelismBounded, DispatchesNearCeiling
<1> QED BY <1>1, SchedulerInvariant, PTL

(* run:completed means that nothing is parked, failed or left to do. *)
THEOREM CleanCompletion == Spec => []CompletionIsClean
<1>1. SchedulerInv => CompletionIsClean
  BY DEF SchedulerInv, TypeOK, Complete, Parking, CompletionIsClean
<1> QED BY <1>1, SchedulerInvariant, PTL

(* Nobody waits for a pass that nobody will ask for. *)
THEOREM Wakeful == Spec => []NeverWedged
<1>1. ASSUME SchedulerInv PROVE NeverWedged
  <2>1. SUFFICES ASSUME loop = "idle", terminal = "none", ~ PassIsDue
                 PROVE  /\ ~ Stopping /\ pauseEpisode
                        /\ (\E n \in Node : gate[n] = "open") \/ (\E n \in jobs : media[n] = "polling")
    BY DEF NeverWedged
  <2>2. Quiet({"idle", "pausing", "ending"})
    BY <1>1, <2>1 DEF SchedulerInv, LoopShape, Quiet
  <2>3. ~ \E n \in Node : Stopping /\ AsksWhenStopped(n)
    BY <2>1 DEF PassIsDue, AsksWhenStopped
  <2>4. ~ Stopping /\ \E n \in Node : AsksOrRests(n)
    BY <1>1, <2>1, <2>2, <2>3 DEF SchedulerInv, Wakes, PassIsDue
  <2> QED BY <2>1, <2>4 DEF PassIsDue, AsksOrRests
<1> QED BY <1>1, SchedulerInvariant, PTL

(* A vertex that is ready while a slot is free is claimed, or somebody who will
   ask for a pass is still writing. *)
LEMMA WakeupKept == SchedulerInv => NoLostWakeup
<1> SUFFICES ASSUME SchedulerInv, loop = "idle", terminal = "none", GoingOn, Ready # <<>>, ~ Reported
             PROVE  FALSE
  BY DEF NoLostWakeup, Reported
<1> USE DEF SchedulerInv
<1>1. claims = <<>> /\ ~ rerun /\ ~ Stopping
  BY DEF LoopShape, GoingOn, Aborts, Stopping
<1>2. Taken
  BY <1>1 DEF NothingLeft, Quiet
<1>3. /\ Len(Ready) \in Nat /\ Len(Ready) <= Room /\ Len(Ready) # 0
      /\ \A k \in 1..Len(Ready) : Ready[k] \in Node /\ Claimable(Ready[k])
  BY BatchFacts
<1>4. Room <= MaxParallel - Cardinality(Running) /\ Room <= Ceiling - dispatches
  BY RoomBounds
<1>5. Cardinality(Running) \in Nat /\ MaxParallel \in Nat /\ Ceiling \in Nat /\ dispatches \in Nat /\ Len(claims) = 0 /\ Room \in Int
  BY <1>1, RoomIsInt, Plan DEF TypeOK
<1>6. 1 \in 1..Len(Ready)
  BY <1>3
<1> QED BY <1>2, <1>3, <1>4, <1>5, <1>6 DEF Taken

(* No vertex that is ready while a slot is free is forgotten (#schedule, the finally of #step). *)
THEOREM WakeupsKept == Spec => []NoLostWakeup
BY SchedulerInvariant, WakeupKept, PTL

(* Where nobody is asked for a decision, nothing is overlooked at the end either. *)
THEOREM NothingIsOverlooked ==
    ASSUME Gates = {}, Budgeted = {}
    PROVE  Spec => []NothingOverlooked
<1>1. Init => Gateless
  BY DEF Init, Gateless, Running
<1>2. SchedulerInv /\ Gateless /\ [Next]_vars => Gateless'
  BY GatelessStep DEF SchedulerInv
<1>3. SchedulerInv /\ Gateless => NothingOverlooked
  BY WakeupKept DEF Gateless, NothingOverlooked, NoOrphanStart
<1> QED BY <1>1, <1>2, <1>3, SchedulerInvariant, PTL DEF Spec

(* A vertex settles once, and an aborted run enters no executor. *)
THEOREM EndsStand == Spec => EndsAreFinal
<1>1. SchedulerInv /\ [Next]_vars => [\A n \in Node : status[n] \in Settled => status'[n] = status[n]]_vars
  BY SettledKeptStep DEF SchedulerInv, SettledKept
<1>2. SchedulerInv /\ [Next]_vars => [\A n \in Node : aborted /\ task[n] # "executing" => task'[n] # "executing"]_vars
  BY EnteredStep DEF SchedulerInv, Entered
<1>3. Spec => SettledIsFinal
  BY <1>1, SchedulerInvariant, PTL DEF Spec, SettledIsFinal
<1>4. Spec => NoDispatchAfterAbort
  BY <1>2, SchedulerInvariant, PTL DEF Spec, NoDispatchAfterAbort
<1> QED BY <1>3, <1>4 DEF EndsAreFinal

-----------------------------------------------------------------------------
(* The graph, as somebody sees it who does not know the loop.                *)

(* What a step does to the vertices: nothing, or one thing to one vertex or to
   a batch of them. *)
Turned(S, v) == status' = [n \in Node |-> IF n \in S THEN v ELSE status[n]] /\ UNCHANGED published

Rests == UNCHANGED <<status, chosen>> /\ (UNCHANGED published \/ PublishTerminal)

TakesUp ==
    /\ ~ cancelling /\ failure = "none"
    /\ \E S \in SUBSET Node : Turned(S, "running") /\ \A n \in S : Claimable(n)
    /\ UNCHANGED chosen

Skips == Turned(SkipSet, "skipped") /\ UNCHANGED chosen

Parks(n) == status[n] = "running" /\ Turned({n}, "paused") /\ UNCHANGED chosen

Fails(n) ==
    /\ status[n] \in {"running", "paused"} \/ (status[n] = "pending" /\ n \in deadline)
    /\ Turned({n}, "failed") /\ UNCHANGED chosen

Completes(n) ==
    /\ status[n] \in {"running", "paused"}
    /\ Turned({n}, "completed")
    /\ \E T \in SUBSET Node : chosen' = [m \in Node |-> IF m = n THEN T ELSE chosen[m]]

HandsBack(S) ==
    /\ \A n \in S : status[n] \in {"running", "paused"}
    /\ Turned(S, "pending") /\ UNCHANGED chosen

GraphMoves ==
    \/ Rests
    \/ \E S \in SUBSET Node : HandsBack(S)
    \/ /\ terminal = "none"
       /\ TakesUp \/ Skips \/ \E n \in Node : Parks(n) \/ Fails(n) \/ Completes(n)

(* A vertex that fails, in the words of the engine. *)
LEMMA FailsAt ==
    ASSUME status \in [Node -> {"pending", "running", "paused"} \cup Settled], NEW n \in Node,
           UNCHANGED <<chosen, published>>, terminal = "none",
           status' = [status EXCEPT ![n] = "failed"],
           status[n] \in {"running", "paused", "failed"} \/ (status[n] = "pending" /\ n \in deadline)
    PROVE  GraphMoves
<1>1. CASE status[n] = "failed"
  <2>1. status' = status
    BY <1>1
  <2> QED BY <2>1 DEF GraphMoves, Rests
<1>2. CASE status[n] # "failed"
  <2>1. Turned({n}, "failed")
    BY DEF Turned
  <2> QED BY <1>2, <2>1 DEF GraphMoves, Fails
<1> QED BY <1>1, <1>2

(* A vertex that completes. *)
LEMMA CompletesAt ==
    ASSUME TypeOK, NEW n \in Node, UNCHANGED published, terminal = "none",
           status' = [status EXCEPT ![n] = "completed"], status[n] \in {"running", "paused"},
           NEW T \in SUBSET Node, chosen' = [chosen EXCEPT ![n] = T]
    PROVE  GraphMoves
<1>1. Turned({n}, "completed") /\ chosen' = [m \in Node |-> IF m = n THEN T ELSE chosen[m]]
  BY DEF Turned, TypeOK
<1> QED BY <1>1 DEF GraphMoves, Completes

(* A batch that is handed back. *)
LEMMA HandsBackAt ==
    ASSUME TypeOK, UNCHANGED <<chosen, published>>, NEW S \in SUBSET Node,
           status' = [n \in Node |-> IF n \in S /\ status[n] = "running" THEN "pending" ELSE status[n]]
    PROVE  GraphMoves
<1> DEFINE B == {n \in S : status[n] = "running"}
<1>1. B \in SUBSET Node /\ HandsBack(B)
  BY DEF HandsBack, Turned
<1> QED BY <1>1 DEF GraphMoves

(* Every step is one of these. *)
LEMMA GraphMovesStep ==
    ASSUME TypeOK, LoopShape, Claimed, Working, Parking, Deciding, Aborts, [Next]_vars
    PROVE  GraphMoves
<1>0. /\ status \in [Node -> {"pending", "running", "paused"} \cup Settled]
      /\ chosen \in [Node -> SUBSET Node] /\ Unstarted \subseteq Node
  BY ClaimsAreNodes DEF TypeOK
<1>1. ASSUME UNCHANGED vars \/ PauseWritten \/ EndLoop \/ Start \/ AppendFailed \/ RequestCancel PROVE GraphMoves
  BY <1>1 DEF vars, graph, ends, PauseWritten, EndLoop, Start, AppendFailed, RequestCancel, GraphMoves, Rests
<1>2. ASSUME SkipsFound PROVE GraphMoves
  BY <1>2 DEF SkipsFound, ends, GraphMoves, Skips, Turned
<1>3. ASSUME NEW r \in BOOLEAN, AtPass /\ (Conclude(r) \/ CeilingReached(r) \/ Idle(r)) PROVE GraphMoves
  BY <1>3 DEF Conclude, graph, ends, CeilingReached, Idle, GraphMoves, Rests
<1>4. ASSUME NEW r \in BOOLEAN, AtPass, Claim(r) PROVE GraphMoves
  <2>1. Unstarted' \in SUBSET Node /\ Turned(Unstarted', "running") /\ \A n \in Unstarted' : Claimable(n)
    <3>1. /\ Unstarted' \subseteq Node
          /\ \A n \in Unstarted' : Claimable(n) /\ status'[n] = "running"
          /\ \A n \in Node \ Unstarted' : status'[n] = status[n]
      BY <1>0, <1>4, ClaimFacts
    <3>2. status' = [n \in Node |-> status'[n]] /\ UNCHANGED published
      BY <1>4 DEF Claim, ends
    <3> QED BY <3>1, <3>2 DEF Turned
  <2>2. ~ cancelling /\ failure = "none" /\ UNCHANGED chosen /\ terminal = "none"
    BY <1>4 DEF Claim, GoingOn, AtPass
  <2> QED BY <2>1, <2>2 DEF GraphMoves, TakesUp
<1>5. ASSUME WaitAborted \/ Unwind PROVE GraphMoves
  <2>1. UNCHANGED <<chosen, published>>
    BY <1>5 DEF WaitAborted, Unwind, ends
  <2>2. GiveUpClaims
    BY <1>5 DEF WaitAborted, Unwind
  <2> QED BY <1>0, <2>1, <2>2, GiveUpFacts, HandsBackAt
<1>6. ASSUME Started PROVE GraphMoves
  <2>1. UNCHANGED <<chosen, published>> /\ terminal = "none"
    BY <1>6 DEF Started, ends
  <2>2. CASE GiveUpClaims
    BY <1>0, <2>1, <2>2, GiveUpFacts, HandsBackAt
  <2>3. CASE ~ GiveUpClaims
    <3>1. status' = status \/ status' = [status EXCEPT ![starting] = "failed"]
      BY <1>6, <2>3 DEF Started, SettleFailed
    <3>2. starting \in Node /\ status[starting] \in {"running", "failed"}
      BY <1>6 DEF Started, LoopShape, Claimed, TypeOK
    <3>3. CASE status' = status
      BY <2>1, <3>3 DEF GraphMoves, Rests
    <3> QED BY <1>0, <2>1, <3>1, <3>2, <3>3, FailsAt
  <2> QED BY <2>2, <2>3
<1>7. ASSUME Refused PROVE GraphMoves
  BY <1>0, <1>7, RefusedFacts, HandsBackAt DEF Refused, ends
<1>8. ASSUME WaitFailed PROVE GraphMoves
  <2>1. claims # <<>> /\ Head(claims) \in Unstarted /\ Head(claims) \in Node
    BY <1>8, Heads DEF WaitFailed, LoopShape
  <2>2. status[Head(claims)] \in {"running", "failed"}
    BY <2>1 DEF Claimed
  <2> QED BY <1>0, <1>8, <2>1, <2>2, FailsAt DEF WaitFailed, SettleFailed, ends
<1>9. ASSUME RunTimeout \/ GraceElapsed \/ GraceSwept PROVE GraphMoves
  BY <1>9 DEF RunTimeout, graph, ends, GraceElapsed, GraceSwept, GraphMoves, Rests
<1>10. ASSUME PublishTerminal PROVE GraphMoves
  BY <1>10 DEF PublishTerminal, graph, GraphMoves, Rests
<1>11. ASSUME NEW n \in Node, GraceAbandons(n) PROVE GraphMoves
  <2>1. UNCHANGED <<chosen, published>> /\ terminal = "none"
    BY <1>11 DEF GraceAbandons, ends
  <2>2. \/ status' = status
        \/ /\ status' = [status EXCEPT ![n] = "failed"]
           /\ status[n] \in {"running", "paused", "failed"} \/ (status[n] = "pending" /\ n \in deadline)
    BY <1>0, <1>11 DEF GraceAbandons, SettleFailed, Settled, Abandonable
  <2>3. CASE status' = status
    BY <2>1, <2>3 DEF GraphMoves, Rests
  <2> QED BY <1>0, <2>1, <2>2, <2>3, FailsAt
<1>12. ASSUME NEW n \in Node, NodeDeadline(n) PROVE GraphMoves
  <2>1. UNCHANGED <<chosen, published>> /\ terminal = "none"
    BY <1>12 DEF NodeDeadline, ends
  <2>2. \/ status' = status
        \/ /\ status' = [status EXCEPT ![n] = "failed"]
           /\ status[n] \in {"running", "paused", "failed"} \/ (status[n] = "pending" /\ n \in deadline)
    BY <1>0, <1>12 DEF NodeDeadline, SettleFailed, Settled, OpenForOutcome
  <2>3. CASE status' = status
    BY <2>1, <2>3 DEF GraphMoves, Rests
  <2> QED BY <1>0, <2>1, <2>2, <2>3, FailsAt
<1>13. ASSUME NEW n \in Node, GateTimeout(n) PROVE GraphMoves
  <2>1. UNCHANGED <<chosen, published>> /\ terminal = "none"
    BY <1>13 DEF GateTimeout, ends
  <2>2. \/ status' = status
        \/ /\ status' = [status EXCEPT ![n] = "failed"]
           /\ status[n] \in {"running", "paused", "failed"} \/ (status[n] = "pending" /\ n \in deadline)
    BY <1>0, <1>13 DEF GateTimeout, SettleFailed, Settled, Parking
  <2>3. CASE status' = status
    BY <2>1, <2>3 DEF GraphMoves, Rests
  <2> QED BY <1>0, <2>1, <2>2, <2>3, FailsAt
<1>14. ASSUME NEW n \in Node, RespondFailed(n) PROVE GraphMoves
  <2>1. UNCHANGED <<chosen, published>> /\ terminal = "none"
    BY <1>14 DEF RespondFailed, ends, Executing
  <2>2. \/ status' = status
        \/ /\ status' = [status EXCEPT ![n] = "failed"]
           /\ status[n] \in {"running", "paused", "failed"} \/ (status[n] = "pending" /\ n \in deadline)
    BY <1>0, <1>14 DEF RespondFailed, SettleFailed, Settled, OpenForOutcome, Working, Executing
  <2>3. CASE status' = status
    BY <2>1, <2>3 DEF GraphMoves, Rests
  <2> QED BY <1>0, <2>1, <2>2, <2>3, FailsAt
<1>15. ASSUME NEW n \in Node, BackoffOver(n) PROVE GraphMoves
  <2>1. UNCHANGED <<chosen, published>> /\ terminal = "none"
    BY <1>15 DEF BackoffOver, ends
  <2>2. \/ status' = status
        \/ /\ status' = [status EXCEPT ![n] = "failed"]
           /\ status[n] \in {"running", "paused", "failed"} \/ (status[n] = "pending" /\ n \in deadline)
    BY <1>0, <1>15 DEF BackoffOver, SettleFailed, Settled, OpenForOutcome, Working
  <2>3. CASE status' = status
    BY <2>1, <2>3 DEF GraphMoves, Rests
  <2> QED BY <1>0, <2>1, <2>2, <2>3, FailsAt
<1>16. ASSUME NEW n \in Node, Restarted(n) PROVE GraphMoves
  <2>1. UNCHANGED <<chosen, published>> /\ terminal = "none"
    BY <1>16 DEF Restarted, ends
  <2>2. \/ status' = status
        \/ /\ status' = [status EXCEPT ![n] = "failed"]
           /\ status[n] \in {"running", "paused", "failed"} \/ (status[n] = "pending" /\ n \in deadline)
    BY <1>0, <1>16 DEF Restarted, SettleFailed, Settled, Working
  <2>3. CASE status' = status
    BY <2>1, <2>3 DEF GraphMoves, Rests
  <2> QED BY <1>0, <2>1, <2>2, <2>3, FailsAt
<1>17. ASSUME NEW n \in Node, PollFailed(n) PROVE GraphMoves
  <2>1. UNCHANGED <<chosen, published>> /\ terminal = "none"
    BY <1>17 DEF PollFailed, ends
  <2>2. \/ status' = status
        \/ /\ status' = [status EXCEPT ![n] = "failed"]
           /\ status[n] \in {"running", "paused", "failed"} \/ (status[n] = "pending" /\ n \in deadline)
    BY <1>0, <1>17 DEF PollFailed, SettleFailed, Settled, OpenForOutcome, Parking
  <2>3. CASE status' = status
    BY <2>1, <2>3 DEF GraphMoves, Rests
  <2> QED BY <1>0, <2>1, <2>2, <2>3, FailsAt
<1>18. ASSUME NEW n \in Node,
              GateDecision(n) \/ RespondLate(n) \/ RespondRetryable(n) \/ PauseAcked(n) \/
              PausePublished(n) \/ MediaSubmitted(n) \/ PollAborted(n) \/ PollDone(n)
       PROVE GraphMoves
  BY <1>18 DEF GateDecision, graph, ends, RespondLate, RespondRetryable, PauseAcked, PausePublished,
        MediaSubmitted, PollAborted, PollDone, GraphMoves, Rests
<1>19. ASSUME NEW n \in Node, DecisionChecked(n) PROVE GraphMoves
  BY <1>19 DEF DecisionChecked, graph, GraphMoves, Rests
<1>20. ASSUME NEW n \in Node, RespondCompleted(n) PROVE GraphMoves
  <2>1. UNCHANGED published /\ terminal = "none" /\ status' = [status EXCEPT ![n] = "completed"]
    BY <1>20 DEF RespondCompleted, ends, Executing
  <2>2. status[n] \in {"running", "paused"}
    BY <1>0, <1>20 DEF RespondCompleted, OpenForOutcome, Executing, Working, Settled
  <2>3. PICK T \in SUBSET Succ(n) : chosen' = [chosen EXCEPT ![n] = T]
    BY <1>20 DEF RespondCompleted
  <2>4. T \in SUBSET Node
    BY DEF Succ
  <2> QED BY <2>1, <2>2, <2>3, <2>4, CompletesAt
<1>21. ASSUME NEW n \in Node, RespondPaused(n) PROVE GraphMoves
  <2>1. UNCHANGED <<chosen, published>> /\ terminal = "none" /\ status' = [status EXCEPT ![n] = "paused"]
    BY <1>21 DEF RespondPaused, ends, Executing
  <2>2. status[n] = "running"
    BY <1>0, <1>21 DEF RespondPaused, OpenForOutcome, Executing, Working, Settled
  <2>3. Turned({n}, "paused")
    BY <1>0, <2>1 DEF Turned
  <2> QED BY <2>1, <2>2, <2>3 DEF GraphMoves, Parks
<1>22. ASSUME NEW n \in Node, RespondMediaJob(n) PROVE GraphMoves
  <2>1. UNCHANGED <<chosen, published>> /\ terminal = "none" /\ status' = [status EXCEPT ![n] = "paused"]
    BY <1>22 DEF RespondMediaJob, ends, Executing
  <2>2. status[n] = "running"
    BY <1>0, <1>22 DEF RespondMediaJob, OpenForOutcome, Executing, Working, Settled
  <2>3. Turned({n}, "paused")
    BY <1>0, <2>1 DEF Turned
  <2> QED BY <2>1, <2>2, <2>3 DEF GraphMoves, Parks
<1>23. ASSUME NEW n \in Node, DecisionPinned(n) PROVE GraphMoves
  <2>1. UNCHANGED <<chosen, published>> /\ terminal = "none"
    BY <1>23 DEF DecisionPinned, ends
  <2>2. \/ status' = status
        \/ status' = [status EXCEPT ![n] = "failed"] /\ status[n] = "paused"
        \/ status' = [status EXCEPT ![n] = "completed"] /\ status[n] = "paused"
    BY <1>0, <1>23 DEF DecisionPinned
  <2>3. CASE status' = status
    BY <2>1, <2>3 DEF GraphMoves, Rests
  <2>4. CASE status' = [status EXCEPT ![n] = "failed"] /\ status[n] = "paused"
    BY <1>0, <2>1, <2>4, FailsAt
  <2>5. CASE status' = [status EXCEPT ![n] = "completed"] /\ status[n] = "paused"
    <3>1. chosen[n] \in SUBSET Node /\ chosen' = [chosen EXCEPT ![n] = chosen[n]]
      BY <1>0, <2>1
    <3> QED BY <2>1, <2>5, <3>1, CompletesAt
  <2> QED BY <2>2, <2>3, <2>4, <2>5
<1>24. ASSUME NEW n \in Node, MediaPinned(n) PROVE GraphMoves
  <2>1. UNCHANGED <<chosen, published>> /\ terminal = "none"
    BY <1>24 DEF MediaPinned, ends
  <2>2. \/ status' = status
        \/ status' = [status EXCEPT ![n] = "failed"] /\ status[n] = "paused"
        \/ status' = [status EXCEPT ![n] = "completed"] /\ status[n] = "paused"
    BY <1>0, <1>24 DEF MediaPinned, OpenForOutcome, SettleFailed, Parking, Settled
  <2>3. CASE status' = status
    BY <2>1, <2>3 DEF GraphMoves, Rests
  <2>4. CASE status' = [status EXCEPT ![n] = "failed"] /\ status[n] = "paused"
    BY <1>0, <2>1, <2>4, FailsAt
  <2>5. CASE status' = [status EXCEPT ![n] = "completed"] /\ status[n] = "paused"
    <3>1. chosen[n] \in SUBSET Node /\ chosen' = [chosen EXCEPT ![n] = chosen[n]]
      BY <1>0, <2>1
    <3> QED BY <2>1, <2>5, <3>1, CompletesAt
  <2> QED BY <2>2, <2>3, <2>4, <2>5
<1>25. ASSUME NEW n \in Node, BudgetDecided(n) PROVE GraphMoves
  <2>1. UNCHANGED <<chosen, published>> /\ terminal = "none"
    BY <1>25 DEF BudgetDecided, ends
  <2>2. status[n] \in {"paused", "failed"} /\ (Acknowledged => status[n] = "paused")
    BY <1>25 DEF BudgetDecided, Deciding, Parking, Aborts, Acknowledged, CanAuthorize, Stopping
  <2>3. \/ status' = status
        \/ status' = [status EXCEPT ![n] = "failed"]
        \/ Acknowledged /\ status' = [status EXCEPT ![n] = "pending"]
    BY <1>0, <1>25, <2>2 DEF BudgetDecided
  <2>4. CASE status' = status
    BY <2>1, <2>4 DEF GraphMoves, Rests
  <2>5. CASE status' = [status EXCEPT ![n] = "failed"]
    BY <1>0, <2>1, <2>2, <2>5, FailsAt
  <2>6. CASE Acknowledged /\ status' = [status EXCEPT ![n] = "pending"]
    <3>1. {n} \in SUBSET Node /\ HandsBack({n})
      BY <1>0, <2>1, <2>2, <2>6 DEF HandsBack, Turned
    <3> QED BY <3>1 DEF GraphMoves
  <2> QED BY <2>3, <2>4, <2>5, <2>6
<1>26. ASSUME NEW n \in Node, NEW v \in {"approve", "reject"}, BudgetDecision(n, v) PROVE GraphMoves
  BY <1>26 DEF BudgetDecision, graph, ends, GraphMoves, Rests
<1>27. ASSUME NEW c \in callers, BudgetPrepared(c) PROVE GraphMoves
  BY <1>27 DEF BudgetPrepared, graph, GraphMoves, Rests
<1>28. ASSUME NEW n \in Node \cup {NoNode}, Landed(n) PROVE GraphMoves
  BY <1>28 DEF Landed, graph, ends, GraphMoves, Rests
<1> QED BY <1>1, <1>2, <1>3, <1>4, <1>5, <1>6, <1>7, <1>8, <1>9, <1>10, <1>11, <1>12, <1>13, <1>14,
        <1>15, <1>16, <1>17, <1>18, <1>19, <1>20, <1>21, <1>22, <1>23, <1>24, <1>25, <1>26, <1>27,
        <1>28, StepCases

(* A run that is over does not go on. *)
LEMMA TerminalKept ==
    ASSUME TypeOK, [Next]_vars
    PROVE  terminal # "none" => terminal' = terminal
<1>1. ASSUME \/ UNCHANGED vars \/ SkipsFound \/ PauseWritten \/ WaitAborted \/ Started \/ Refused \/ Unwind
             \/ EndLoop \/ Start \/ WaitFailed \/ AppendFailed \/ RequestCancel \/ RunTimeout
             \/ GraceElapsed \/ GraceSwept \/ PublishTerminal
      PROVE  UNCHANGED terminal
  BY <1>1 DEF vars, ends, SkipsFound, PauseWritten, WaitAborted, Started, Refused, Unwind, EndLoop, Start,
        WaitFailed, AppendFailed, RequestCancel, RunTimeout, GraceElapsed, GraceSwept, PublishTerminal
<1>2. ASSUME NEW r \in BOOLEAN, AtPass /\ (Conclude(r) \/ CeilingReached(r) \/ Claim(r) \/ Idle(r))
      PROVE  terminal = "none"
  BY <1>2 DEF AtPass
<1>3. ASSUME NEW n \in Node,
             \/ GraceAbandons(n) \/ NodeDeadline(n) \/ GateDecision(n) \/ GateTimeout(n)
             \/ RespondLate(n) \/ RespondCompleted(n) \/ RespondFailed(n)
             \/ RespondRetryable(n) \/ RespondPaused(n) \/ RespondMediaJob(n)
             \/ BackoffOver(n) \/ Restarted(n) \/ PauseAcked(n) \/ PausePublished(n)
      PROVE  UNCHANGED terminal
  BY <1>3 DEF ends, GraceAbandons, NodeDeadline, GateDecision, GateTimeout, RespondLate, RespondCompleted,
        RespondFailed, RespondRetryable, RespondPaused, RespondMediaJob, BackoffOver, Restarted, PauseAcked,
        PausePublished
<1>4. ASSUME NEW n \in Node,
             \/ DecisionChecked(n) \/ DecisionPinned(n) \/ BudgetDecided(n)
             \/ MediaSubmitted(n) \/ PollFailed(n) \/ PollAborted(n) \/ PollDone(n) \/ MediaPinned(n)
      PROVE  terminal = "none"
  BY <1>4 DEF DecisionChecked, DecisionPinned, BudgetDecided, MediaSubmitted, PollFailed, PollAborted, PollDone,
        MediaPinned
<1>5. ASSUME NEW n \in Node, NEW v \in {"approve", "reject"}, BudgetDecision(n, v) PROVE terminal = "none"
  BY <1>5 DEF BudgetDecision
<1>6. ASSUME NEW c \in callers, BudgetPrepared(c) PROVE terminal = "none"
  BY <1>6 DEF BudgetPrepared
<1>7. ASSUME NEW n \in Node \cup {NoNode}, Landed(n) PROVE terminal = "none"
  BY <1>7 DEF Landed
<1> QED BY <1>1, <1>2, <1>3, <1>4, <1>5, <1>6, <1>7, StepCases

(* The outcome is published after the run settled on it. *)
Published == published # "none" => terminal # "none"

(* Once published it stays published, and the run stays over. *)
LEMMA PublishedStep ==
    ASSUME SchedulerInv, Published, [Next]_vars
    PROVE  Published'
<1>1. GraphMoves
  BY GraphMovesStep DEF SchedulerInv
<1>2. published' = published \/ terminal # "none"
  BY <1>1 DEF GraphMoves, Rests, HandsBack, TakesUp, Skips, Parks, Fails, Completes, Turned, PublishTerminal
<1>3. terminal # "none" => terminal' = terminal
  BY TerminalKept DEF SchedulerInv
<1> QED BY <1>2, <1>3 DEF Published

(* What the loop says of a vertex, in the words of the graph. *)
LEMMA FateFacts ==
    ASSUME TypeOK, NEW n \in Node
    PROVE  /\ Fates[n] = "waiting" <=> status[n] = "pending"
           /\ Fates[n] = "active" <=> status[n] \in {"running", "paused"}
           /\ \A s \in Settled : Fates[n] = s <=> status[n] = s
BY DEF TypeOK, Fates, Fate, Settled

(* Whose turn it is means the same to the loop and to the graph. *)
LEMMA DueFacts ==
    ASSUME TypeOK, NEW n \in Node
    PROVE  /\ Graph!Alive(n) <=> HasLiveEdge(n)
           /\ Graph!Due(n) <=> Alive(n)
<1>1. \A d \in Deps[n] : /\ Fates[d] = "completed" <=> status[d] = "completed"
                         /\ Fates[d] \in Settled <=> status[d] \in Settled
  BY FateFacts, Plan DEF Settled
<1>2. Graph!Alive(n) <=> HasLiveEdge(n)
  BY <1>1 DEF Graph!Alive, HasLiveEdge
<1> QED BY <1>1, <1>2 DEF Graph!Due, Graph!Over, Alive, Settled

(* A batch of vertices turned to v is turned to what v means. *)
LEMMA BatchTurned ==
    ASSUME TypeOK, TypeOK', NEW S \in SUBSET Node, NEW v, NEW f, Turned(S, v),
           <<v, f>> \in {<<"pending", "waiting">>, <<"running", "active">>, <<"completed", "completed">>,
                         <<"failed", "failed">>, <<"skipped", "skipped">>}
    PROVE  Graph!Become(S, f)
<1>1. \A n \in Node : status'[n] = IF n \in S THEN v ELSE status[n]
  BY DEF Turned
<1>2. \A n \in Node : Fates'[n] = IF n \in S THEN f ELSE Fates[n]
  BY <1>1 DEF Fates, Fate
<1>3. Fates' = [n \in Node |-> Fates'[n]]
  BY DEF Fates
<1> QED BY <1>2, <1>3 DEF Graph!Become

(* Every step of the loop and of what it waits for is a step of the graph, or
   none. *)
LEMMA GraphStep == SchedulerInv /\ Published /\ [Next]_vars => [Graph!Next]_<<Fates, chosen, published>>
<1> SUFFICES ASSUME SchedulerInv, Published, [Next]_vars
             PROVE  Graph!Next \/ UNCHANGED <<Fates, chosen, published>>
  OBVIOUS
<1>0. TypeOK /\ TypeOK' /\ TurnTaken /\ Aborts /\ Complete
  BY StepInv DEF SchedulerInv
<1>1. GraphMoves
  BY GraphMovesStep DEF SchedulerInv
<1>2. terminal = "none" => published = "none"
  BY DEF Published
<1>3. CASE Rests
  <2>1. UNCHANGED <<Fates, chosen>>
    BY <1>3 DEF Rests, Fates, Fate
  <2>2. CASE UNCHANGED published
    BY <2>1, <2>2
  <2>3. CASE PublishTerminal
    <3>1. /\ published = "none" /\ published' \in {"completed", "failed", "cancelled"}
          /\ published' = "completed" => terminal = "completed"
      BY <1>0, <2>3 DEF PublishTerminal, TypeOK
    <3>2. published' = "completed" => \A n \in Node : Fates[n] \in {"completed", "skipped"}
      BY <1>0, <3>1, FateFacts DEF Complete, Settled
    <3> QED BY <2>1, <3>1, <3>2 DEF Graph!Next, Graph!End
  <2> QED BY <1>3, <2>2, <2>3 DEF Rests
<1>4. ASSUME NEW S \in SUBSET Node, HandsBack(S) PROVE Graph!Next
  <2>1. Graph!Become(S, "waiting") /\ UNCHANGED <<chosen, published>>
    BY <1>0, <1>4, BatchTurned DEF HandsBack, Turned
  <2>2. \A n \in S : Fates[n] = "active"
    BY <1>0, <1>4, FateFacts DEF HandsBack
  <2> QED BY <2>1, <2>2 DEF Graph!Next, Graph!HandBack
<1>5. CASE terminal = "none" /\ TakesUp
  <2>1. PICK S \in SUBSET Node : Turned(S, "running") /\ \A n \in S : Claimable(n)
    BY <1>5 DEF TakesUp
  <2>2. Graph!Become(S, "active") /\ UNCHANGED <<chosen, published>>
    BY <1>0, <1>5, <2>1, BatchTurned DEF TakesUp, Turned
  <2>3. \A n \in S : Fates[n] = "waiting" /\ Graph!Due(n)
    BY <1>0, <2>1, FateFacts, DueFacts DEF Claimable, AllDepsSettled, Alive
  <2>4. \A n \in Node : Fates[n] # "failed"
    BY <1>0, <1>5, FateFacts DEF TakesUp, Aborts, Settled
  <2>5. Graph!Activate(S)
    BY <2>2, <2>3, <2>4 DEF Graph!Activate
  <2> QED BY <1>2, <1>5, <2>5 DEF Graph!Next
<1>6. CASE terminal = "none" /\ Skips
  <2>1. SkipSet \in SUBSET Node
    BY SkipFacts
  <2>2. Graph!Become(SkipSet, "skipped") /\ UNCHANGED <<chosen, published>>
    BY <1>0, <1>6, <2>1, BatchTurned DEF Skips, Turned
  <2>3. ASSUME NEW n \in SkipSet
        PROVE  /\ Fates[n] = "waiting" /\ ~ Graph!Alive(n)
               /\ \A d \in Deps[n] : Fates[d] \in Settled \/ d \in SkipSet
    <3>1. n \in Node /\ status[n] = "pending" /\ ~ HasLiveEdge(n) /\ \A d \in Deps[n] : d \in Node
      BY SkipFacts, Plan
    <3>2. \A d \in Deps[n] : status[d] \in Settled \/ d \in SkipSet
      BY SkipFacts
    <3> QED BY <1>0, <3>1, <3>2, FateFacts, DueFacts DEF Settled
  <2>4. Graph!Skip(SkipSet)
    BY <2>2, <2>3 DEF Graph!Skip, Graph!Over, Settled
  <2> QED BY <1>2, <1>6, <2>1, <2>4 DEF Graph!Next
<1>7. ASSUME NEW n \in Node, Parks(n) PROVE UNCHANGED <<Fates, chosen, published>>
  BY <1>7 DEF Parks, Turned, Fates, Fate
<1>8. ASSUME NEW n \in Node, terminal = "none", Fails(n) PROVE Graph!Next
  <2>1. Graph!Become({n}, "failed") /\ UNCHANGED <<chosen, published>>
    BY <1>0, <1>8, BatchTurned DEF Fails, Turned
  <2>2. Fates[n] \in {"active", "waiting"} /\ Graph!Due(n)
    BY <1>0, <1>8, FateFacts, DueFacts DEF Fails, TurnTaken
  <2> QED BY <1>2, <1>8, <2>1, <2>2 DEF Graph!Next, Graph!Fail
<1>9. ASSUME NEW n \in Node, terminal = "none", Completes(n) PROVE Graph!Next
  <2>1. Graph!Become({n}, "completed") /\ UNCHANGED published
    BY <1>0, <1>9, BatchTurned DEF Completes, Turned
  <2>2. Fates[n] = "active"
    BY <1>0, <1>9, FateFacts DEF Completes
  <2>3. PICK T \in SUBSET Node : chosen' = [m \in Node |-> IF m = n THEN T ELSE chosen[m]]
    BY <1>9 DEF Completes
  <2>4. Graph!Complete(n, T)
    BY <2>1, <2>2, <2>3 DEF Graph!Complete
  <2> QED BY <1>2, <1>9, <2>4 DEF Graph!Next
<1> QED BY <1>1, <1>3, <1>4, <1>5, <1>6, <1>7, <1>8, <1>9 DEF GraphMoves

(* The scheduler implements GraphRun, for every plan, ceiling, retry budget and
   number of faults: each vertex is taken up in its turn, over once and never
   after the end of the run, and a run that completed completed it all. *)
THEOREM GraphImplemented == Spec => ImplementsGraph
<1>1. Init => Graph!Init /\ Published
  BY DEF Init, Graph!Init, Fates, Fate, Published
<1>2. SchedulerInv /\ Published /\ [Next]_vars => Published'
  BY PublishedStep
<1> QED BY <1>1, <1>2, GraphStep, SchedulerInvariant, PTL DEF Spec, ImplementsGraph, Graph!Spec

=============================================================================

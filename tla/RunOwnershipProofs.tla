------------------------- MODULE RunOwnershipProofs -------------------------
(***************************************************************************)
(* What RunOwnership guarantees for every set of processes and every bound. *)
(***************************************************************************)
EXTENDS RunOwnership, SequenceTheorems, TLAPS

(* What TypeOK leaves out and the safety proofs need.  An append in flight is *)
(* a real event of its own process, guarded unless it is a terminal.          *)
InFlight(p) ==
    /\ write[p] = NoEvent \/ (write[p].kind \in Kinds /\ write[p].by = p /\ write[p].seq >= 0)
    /\ write[p].kind \in Kinds \ Terminals => write[p].expected >= -1
    /\ lastAsked[p] >= -1
    /\ pc[p] = "confirming" => snap[p].last >= 0

(* Only terminals are held in the outbox, and only those are drained. *)
IsHeld(e) == e = NoEvent \/ (e.kind \in Terminals /\ e.by \in Proc)

HeldTerminals(p) ==
    /\ pc[p] = "outboxing" => write[p].kind \in Terminals
    /\ IsHeld(snap[p].held)
    /\ pc[p] \in {"drain", "draining"} => snap[p].held # NoEvent

(* A claim leaves a fence behind, and the row a process owns is the one its   *)
(* fence names.                                                               *)
Claiming ==
    {"loading", "confirming", "draining", "forget", "rechecking", "repairing", "releasing"}

Fencing(p) ==
    /\ lease.owner = p => lease.gen = fence[p]
    /\ own[p] # "unclaimed" \/ pc[p] \in Claiming => fence[p] # 0

Discipline ==
    /\ IsHeld(outbox)
    /\ \A p \in Proc : InFlight(p) /\ HeldTerminals(p) /\ Fencing(p)

(* The rows, events and snapshots that stand for "nothing" are well typed. *)
LEMMA Constants ==
    /\ NoLease \in LeaseRow /\ NoEvent \in Write /\ NoSnap \in Snapshot
    /\ \A w \in Write : [NoSnap EXCEPT !.held = w] \in Snapshot
    /\ \A n \in Int : [NoSnap EXCEPT !.last = n] \in Snapshot
    /\ \A p \in Proc : Life(p) \in Nat
  <1>1. NoLease \in LeaseRow
    BY OwnershipConstants DEF NoLease, LeaseRow
  <1>2. NoEvent \in Write
    BY DEF NoEvent, Write, Unguarded
  <1>3. NoSnap \in Snapshot
    BY <1>2 DEF NoSnap, Snapshot
  <1>4. \A w \in Write : [NoSnap EXCEPT !.held = w] \in Snapshot
    BY <1>3 DEF Snapshot
  <1>5. \A n \in Int : [NoSnap EXCEPT !.last = n] \in Snapshot
    BY <1>3 DEF Snapshot
  <1>6. \A p \in Proc : Life(p) \in Nat
    BY OwnershipConstants DEF Life
  <1> QED
    BY <1>1, <1>2, <1>3, <1>4, <1>5, <1>6

(* A well-formed event extends a well-formed log. *)
LEMMA AppendType ==
    ASSUME NEW s \in Seq(EventRow), NEW w, w.seq \in Int, w.kind \in Kinds, w.by \in Proc
    PROVE  Append(s, [seq |-> w.seq, kind |-> w.kind, by |-> w.by]) \in Seq(EventRow)
  <1>1. [seq |-> w.seq, kind |-> w.kind, by |-> w.by] \in EventRow
    BY DEF EventRow
  <1> QED
    BY <1>1

(* An execution that leaves memory leaves its fields in their types. *)
LEMMA DiscardType ==
    ASSUME TypeOK, NEW p \in Proc, Discard(p)
    PROVE  /\ nextSeq' \in [Proc -> Nat] /\ lastAsked' \in [Proc -> Int] /\ failed' \in [Proc -> BOOLEAN]
           /\ durability' \in [Proc -> {"none", "durable", "uncertain"}] /\ missed' \in [Proc -> Nat]
  BY DEF TypeOK, Discard

LEMMA InitInv == Init => TypeOK /\ Discipline
  BY OwnershipConstants DEF Init, TypeOK, Discipline, InFlight, HeldTerminals,
     Fencing, IsHeld, Claiming, Kinds, NoLease,
     NoEvent, NoSnap, Unguarded, Write, EventRow, LeaseRow, Snapshot, Phase, Bounds

(* Every step keeps every variable in its type.  *)
LEMMA TypeStep == TypeOK /\ Discipline /\ [Next]_vars => TypeOK'
  <1> SUFFICES ASSUME TypeOK, Discipline, [Next]_vars PROVE TypeOK'
    OBVIOUS
  <1>lease. lease \in LeaseRow
    BY DEF TypeOK
  <1>log. log \in Seq(EventRow)
    BY DEF TypeOK
  <1>outbox. outbox \in Write
    BY DEF TypeOK
  <1>age. age \in Int /\ age <= TTL
    BY DEF TypeOK
  <1>pc. pc \in [Proc -> Phase]
    BY DEF TypeOK
  <1>own. own \in [Proc -> {"unclaimed", "held", "parked", "lost", "done"}]
    BY DEF TypeOK
  <1>fence. fence \in [Proc -> Nat]
    BY DEF TypeOK
  <1>nextSeq. nextSeq \in [Proc -> Nat]
    BY DEF TypeOK
  <1>lastAsked. lastAsked \in [Proc -> Int]
    BY DEF TypeOK
  <1>write. write \in [Proc -> Write]
    BY DEF TypeOK
  <1>failed. failed \in [Proc -> BOOLEAN]
    BY DEF TypeOK
  <1>durability. durability \in [Proc -> {"none", "durable", "uncertain"}]
    BY DEF TypeOK
  <1>missed. missed \in [Proc -> Nat]
    BY DEF TypeOK
  <1>snap. snap \in [Proc -> Snapshot]
    BY DEF TypeOK
  <1>spent. spent \in [Bounds -> Nat]
    BY DEF TypeOK
  <1>s. CASE UNCHANGED vars
    BY <1>s DEF vars, store, local, TypeOK
  <1>t. CASE Tick
    <2>1. lease' \in LeaseRow
      BY <1>t, <1>lease, OwnershipConstants DEF Tick, LeaseRow
    <2>2. age' \in Int /\ age' <= TTL
      BY <1>t, <1>age, OwnershipConstants DEF Tick
    <2>3. spent' \in [Bounds -> Nat]
      BY <1>t, <1>spent, OwnershipConstants DEF Tick, Spend, Bounds
    <2> QED
      BY <1>t, <2>1, <2>2, <2>3 DEF Tick, local, TypeOK
  <1>p. ASSUME NEW p \in Proc, RunStep(p) \/ ResumeStep(p) \/ ReconcileStep(p) \/ Crash(p)
        PROVE  TypeOK'
    <2>1. CASE Begin(p)
      <3>1. pc' \in [Proc -> Phase]
        BY <2>1, <1>pc DEF Begin, Ask, Phase
      <3>2. age' \in Int /\ age' <= TTL
        BY <2>1, <1>age, OwnershipConstants DEF Begin, Ask
      <3>3. nextSeq' \in [Proc -> Nat]
        BY <2>1, <1>nextSeq DEF Begin, Ask
      <3>4. lastAsked' \in [Proc -> Int]
        BY <2>1, <1>lastAsked, <1>nextSeq DEF Begin, Ask
      <3>5. write' \in [Proc -> Write]
        BY <2>1, <1>write, <1>nextSeq, <1>lastAsked
           DEF Begin, Ask, Write, Unguarded, Kinds, Terminals
      <3> UNCHANGED <<lease, log, outbox, own, fence, failed, durability, missed, snap, spent>>
        BY <2>1 DEF Begin, Ask, store
      <3> QED
        BY <3>1, <3>2, <3>3, <3>4, <3>5 DEF TypeOK
    <2>2. CASE Claim(p)
      <3>1. pc' \in [Proc -> Phase]
        BY <2>2, <1>pc DEF Claim, Ask, Acquire, NextGeneration, Fault, Spend, Phase
      <3>2. own' \in [Proc -> {"unclaimed", "held", "parked", "lost", "done"}]
        BY <2>2, <1>own DEF Claim, Ask, Acquire, NextGeneration, Fault, Spend
      <3>3. fence' \in [Proc -> Nat]
        BY <2>2, <1>fence, <1>lease
           DEF Claim, Ask, Acquire, NextGeneration, Fault, Spend, LeaseRow
      <3>4. lease' \in LeaseRow
        BY <2>2, <1>lease, OwnershipConstants, Constants
           DEF Claim, Ask, Acquire, NextGeneration, Fault, Spend, LeaseRow
      <3>5. failed' \in [Proc -> BOOLEAN]
        BY <2>2, <1>failed DEF Claim, Ask, Acquire, NextGeneration, Fault, Spend
      <3>6. spent' \in [Bounds -> Nat]
        BY <2>2, <1>spent, OwnershipConstants
           DEF Claim, Ask, Acquire, NextGeneration, Fault, Spend, Bounds
      <3>7. nextSeq' \in [Proc -> Nat]
        BY <2>2, <1>nextSeq DEF Claim, Ask, Acquire, NextGeneration, Fault, Spend
      <3>8. lastAsked' \in [Proc -> Int]
        BY <2>2, <1>lastAsked, <1>nextSeq DEF Claim, Ask, Acquire, NextGeneration, Fault, Spend
      <3>9. write' \in [Proc -> Write]
        BY <2>2, <1>write, <1>nextSeq, <1>lastAsked DEF Claim, Ask, Acquire, NextGeneration,
           Fault, Spend, Write, Unguarded, Kinds, Terminals
      <3> UNCHANGED <<log, outbox, age, durability, missed, snap>>
        BY <2>2 DEF Claim, Ask, Acquire, NextGeneration, Fault, Spend, store
      <3> QED
        BY <3>1, <3>2, <3>3, <3>4, <3>5, <3>6, <3>7, <3>8, <3>9 DEF TypeOK
    <2>3. CASE Work(p)
      <3>1. nextSeq' \in [Proc -> Nat]
        BY <2>3, <1>nextSeq DEF Work, Ask
      <3>2. lastAsked' \in [Proc -> Int]
        BY <2>3, <1>lastAsked, <1>nextSeq DEF Work, Ask
      <3>3. write' \in [Proc -> Write]
        BY <2>3, <1>write, <1>nextSeq, <1>lastAsked
           DEF Work, Ask, Write, Unguarded, Kinds, Terminals
      <3> UNCHANGED <<lease, log, outbox, age, pc, own, fence, failed, durability, missed,
                      snap, spent>>
        BY <2>3 DEF Work, Ask, store
      <3> QED
        BY <3>1, <3>2, <3>3 DEF TypeOK
    <2>4. CASE Transient(p)
      <3>1. nextSeq' \in [Proc -> Nat]
        BY <2>4, <1>nextSeq DEF Transient, Spend
      <3>2. spent' \in [Bounds -> Nat]
        BY <2>4, <1>spent, OwnershipConstants DEF Transient, Spend, Bounds
      <3> UNCHANGED <<lease, log, outbox, age, pc, own, fence, lastAsked, write, failed,
                      durability, missed, snap>>
        BY <2>4 DEF Transient, Spend, store
      <3> QED
        BY <3>1, <3>2 DEF TypeOK
    <2>5. CASE Pause(p)
      <3>1. pc' \in [Proc -> Phase]
        BY <2>5, <1>pc DEF Pause, Ask, Phase
      <3>2. nextSeq' \in [Proc -> Nat]
        BY <2>5, <1>nextSeq DEF Pause, Ask
      <3>3. lastAsked' \in [Proc -> Int]
        BY <2>5, <1>lastAsked, <1>nextSeq DEF Pause, Ask
      <3>4. write' \in [Proc -> Write]
        BY <2>5, <1>write, <1>nextSeq, <1>lastAsked
           DEF Pause, Ask, Write, Unguarded, Kinds, Terminals
      <3> UNCHANGED <<lease, log, outbox, age, own, fence, failed, durability, missed, snap, spent>>
        BY <2>5 DEF Pause, Ask, store
      <3> QED
        BY <3>1, <3>2, <3>3, <3>4 DEF TypeOK
    <2>6. CASE Park(p)
      <3>1. lease' \in LeaseRow
        BY <2>6, <1>lease, OwnershipConstants, Constants
           DEF Park, GiveBack, Released, Fault, Spend, LeaseRow
      <3>2. own' \in [Proc -> {"unclaimed", "held", "parked", "lost", "done"}]
        BY <2>6, <1>own DEF Park, GiveBack, Released, Fault, Spend
      <3>3. spent' \in [Bounds -> Nat]
        BY <2>6, <1>spent, OwnershipConstants DEF Park, GiveBack, Released, Fault, Spend, Bounds
      <3> UNCHANGED <<log, outbox, age, pc, fence, nextSeq, lastAsked, write, failed,
                      durability, missed, snap>>
        BY <2>6 DEF Park, GiveBack, Released, Fault, Spend, store
      <3> QED
        BY <3>1, <3>2, <3>3 DEF TypeOK
    <2>7. CASE ResumeGate(p)
      <3>1. pc' \in [Proc -> Phase]
        BY <2>7, <1>pc DEF ResumeGate, Authorize, Acquire, NextGeneration, Ask, Phase
      <3>2. own' \in [Proc -> {"unclaimed", "held", "parked", "lost", "done"}]
        BY <2>7, <1>own DEF ResumeGate, Authorize, Acquire, NextGeneration, Ask
      <3>3. fence' \in [Proc -> Nat]
        BY <2>7, <1>fence, <1>lease
           DEF ResumeGate, Authorize, Acquire, NextGeneration, Ask, LeaseRow
      <3>4. lease' \in LeaseRow
        BY <2>7, <1>lease, OwnershipConstants, Constants
           DEF ResumeGate, Authorize, Acquire, NextGeneration, Ask, LeaseRow
      <3>5. nextSeq' \in [Proc -> Nat]
        BY <2>7, <1>nextSeq DEF ResumeGate, Authorize, Acquire, NextGeneration, Ask
      <3>6. lastAsked' \in [Proc -> Int]
        BY <2>7, <1>lastAsked, <1>nextSeq DEF ResumeGate, Authorize, Acquire, NextGeneration, Ask
      <3>7. write' \in [Proc -> Write]
        BY <2>7, <1>write, <1>nextSeq, <1>lastAsked DEF ResumeGate, Authorize, Acquire,
           NextGeneration, Ask, Write, Unguarded, Kinds, Terminals
      <3> UNCHANGED <<log, outbox, age, failed, durability, missed, snap, spent>>
        BY <2>7 DEF ResumeGate, Authorize, Acquire, NextGeneration, Ask, store
      <3> QED
        BY <3>1, <3>2, <3>3, <3>4, <3>5, <3>6, <3>7 DEF TypeOK
    <2>8. CASE RunTimeout(p)
      <3>1. failed' \in [Proc -> BOOLEAN]
        BY <2>8, <1>failed DEF RunTimeout, Authorize, Acquire, NextGeneration, Ask
      <3>2. own' \in [Proc -> {"unclaimed", "held", "parked", "lost", "done"}]
        BY <2>8, <1>own DEF RunTimeout, Authorize, Acquire, NextGeneration, Ask
      <3>3. fence' \in [Proc -> Nat]
        BY <2>8, <1>fence, <1>lease
           DEF RunTimeout, Authorize, Acquire, NextGeneration, Ask, LeaseRow
      <3>4. lease' \in LeaseRow
        BY <2>8, <1>lease, OwnershipConstants, Constants
           DEF RunTimeout, Authorize, Acquire, NextGeneration, Ask, LeaseRow
      <3>5. nextSeq' \in [Proc -> Nat]
        BY <2>8, <1>nextSeq DEF RunTimeout, Authorize, Acquire, NextGeneration, Ask
      <3>6. lastAsked' \in [Proc -> Int]
        BY <2>8, <1>lastAsked, <1>nextSeq DEF RunTimeout, Authorize, Acquire, NextGeneration, Ask
      <3>7. write' \in [Proc -> Write]
        BY <2>8, <1>write, <1>nextSeq, <1>lastAsked DEF RunTimeout, Authorize, Acquire,
           NextGeneration, Ask, Write, Unguarded, Kinds, Terminals
      <3> UNCHANGED <<log, outbox, age, pc, durability, missed, snap, spent>>
        BY <2>8 DEF RunTimeout, Authorize, Acquire, NextGeneration, Ask, store
      <3> QED
        BY <3>1, <3>2, <3>3, <3>4, <3>5, <3>6, <3>7 DEF TypeOK
    <2>9. CASE ReclaimRefused(p)
      <3>1. pc' \in [Proc -> Phase]
        BY <2>9, <1>pc DEF ReclaimRefused, LoseOwnership, Fault, Spend, Phase
      <3>2. own' \in [Proc -> {"unclaimed", "held", "parked", "lost", "done"}]
        BY <2>9, <1>own DEF ReclaimRefused, LoseOwnership, Fault, Spend
      <3>3. durability' \in [Proc -> {"none", "durable", "uncertain"}]
        BY <2>9, <1>durability DEF ReclaimRefused, LoseOwnership, Fault, Spend
      <3>4. spent' \in [Bounds -> Nat]
        BY <2>9, <1>spent, OwnershipConstants
           DEF ReclaimRefused, LoseOwnership, Fault, Spend, Bounds
      <3> UNCHANGED <<lease, log, outbox, age, fence, nextSeq, lastAsked, write, failed,
                      missed, snap>>
        BY <2>9 DEF ReclaimRefused, LoseOwnership, Fault, Spend, store
      <3> QED
        BY <3>1, <3>2, <3>3, <3>4 DEF TypeOK
    <2>10. CASE Depart(p)
      <3>1. pc' \in [Proc -> Phase]
        BY <2>10, <1>pc DEF Depart, Phase
      <3>2. own' \in [Proc -> {"unclaimed", "held", "parked", "lost", "done"}]
        BY <2>10, <1>own DEF Depart
      <3> UNCHANGED <<lease, log, outbox, age, fence, write, snap, spent>>
        BY <2>10 DEF Depart, store
      <3> QED
        BY <2>10, <3>1, <3>2, DiscardType DEF Depart, TypeOK
    <2>11. CASE Beat(p)
      <3>1. lease' \in LeaseRow
        BY <2>11, <1>lease, OwnershipConstants, Constants
           DEF Beat, LoseOwnership, Fault, Spend, LeaseRow
      <3>2. pc' \in [Proc -> Phase]
        BY <2>11, <1>pc DEF Beat, LoseOwnership, Fault, Spend, Phase
      <3>3. own' \in [Proc -> {"unclaimed", "held", "parked", "lost", "done"}]
        BY <2>11, <1>own DEF Beat, LoseOwnership, Fault, Spend
      <3>4. durability' \in [Proc -> {"none", "durable", "uncertain"}]
        BY <2>11, <1>durability DEF Beat, LoseOwnership, Fault, Spend
      <3>5. missed' \in [Proc -> Nat]
        BY <2>11, <1>missed DEF Beat, LoseOwnership, Fault, Spend
      <3>6. spent' \in [Bounds -> Nat]
        BY <2>11, <1>spent, OwnershipConstants DEF Beat, LoseOwnership, Fault, Spend, Bounds
      <3> UNCHANGED <<log, outbox, age, fence, nextSeq, lastAsked, write, failed, snap>>
        BY <2>11 DEF Beat, LoseOwnership, Fault, Spend, store
      <3> QED
        BY <3>1, <3>2, <3>3, <3>4, <3>5, <3>6 DEF TypeOK
    <2>12. ASSUME NEW kind \in Terminals, Settle(p, kind) PROVE TypeOK'
      <3>1. pc' \in [Proc -> Phase]
        BY <2>12, <1>pc DEF Settle, Authorize, Acquire, NextGeneration, Ask, Phase
      <3>2. own' \in [Proc -> {"unclaimed", "held", "parked", "lost", "done"}]
        BY <2>12, <1>own DEF Settle, Authorize, Acquire, NextGeneration, Ask
      <3>3. fence' \in [Proc -> Nat]
        BY <2>12, <1>fence, <1>lease DEF Settle, Authorize, Acquire, NextGeneration, Ask, LeaseRow
      <3>4. lease' \in LeaseRow
        BY <2>12, <1>lease, OwnershipConstants, Constants
           DEF Settle, Authorize, Acquire, NextGeneration, Ask, LeaseRow
      <3>5. nextSeq' \in [Proc -> Nat]
        BY <2>12, <1>nextSeq DEF Settle, Authorize, Acquire, NextGeneration, Ask
      <3>6. lastAsked' \in [Proc -> Int]
        BY <2>12, <1>lastAsked, <1>nextSeq DEF Settle, Authorize, Acquire, NextGeneration, Ask
      <3>7. write' \in [Proc -> Write]
        BY <2>12, <1>write, <1>nextSeq, <1>lastAsked DEF Settle, Authorize, Acquire,
           NextGeneration, Ask, Write, Unguarded, Kinds, Terminals
      <3> UNCHANGED <<log, outbox, age, failed, durability, missed, snap, spent>>
        BY <2>12 DEF Settle, Authorize, Acquire, NextGeneration, Ask, store
      <3> QED
        BY <3>1, <3>2, <3>3, <3>4, <3>5, <3>6, <3>7 DEF TypeOK
    <2>13. CASE Persisted(p)
      <3>1. log' \in Seq(EventRow)
        BY <2>13, <1>log, <1>write, AppendType
           DEF Persisted, Append1, Asking, Quiet, Write, Discipline, InFlight
      <3>2. write' \in [Proc -> Write]
        BY <2>13, <1>write, Constants DEF Persisted
      <3>3. lastAsked' \in [Proc -> Int]
        BY <2>13, <1>lastAsked, <1>nextSeq, <1>write DEF Persisted, Append1, Asking, Quiet, Write
      <3>4. durability' \in [Proc -> {"none", "durable", "uncertain"}]
        BY <2>13, <1>durability DEF Persisted, Append1, Asking, Quiet
      <3>5. pc' \in [Proc -> Phase]
        BY <2>13, <1>pc DEF Persisted, Append1, Asking, Quiet, Phase
      <3> UNCHANGED <<lease, outbox, age, own, fence, nextSeq, failed, missed, snap,
                      spent>>
        BY <2>13 DEF Persisted, Append1, Asking, Quiet, store
      <3> QED
        BY <3>1, <3>2, <3>3, <3>4, <3>5 DEF TypeOK
    <2>14. CASE Fenced(p)
      <3>1. write' \in [Proc -> Write]
        BY <2>14, <1>write, Constants DEF Fenced, LoseOwnership
      <3>2. own' \in [Proc -> {"unclaimed", "held", "parked", "lost", "done"}]
        BY <2>14, <1>own DEF Fenced, LoseOwnership
      <3>3. durability' \in [Proc -> {"none", "durable", "uncertain"}]
        BY <2>14, <1>durability DEF Fenced, LoseOwnership
      <3>4. pc' \in [Proc -> Phase]
        BY <2>14, <1>pc DEF Fenced, LoseOwnership, Phase
      <3> UNCHANGED <<lease, log, outbox, age, fence, nextSeq, lastAsked, failed, missed, snap, spent>>
        BY <2>14 DEF Fenced, LoseOwnership, store
      <3> QED
        BY <3>1, <3>2, <3>3, <3>4 DEF TypeOK
    <2>15. CASE NotPersisted(p)
      <3>1. write' \in [Proc -> Write]
        BY <2>15, <1>write, Constants DEF NotPersisted, Fault, Spend
      <3>2. failed' \in [Proc -> BOOLEAN]
        BY <2>15, <1>failed DEF NotPersisted, Fault, Spend
      <3>3. durability' \in [Proc -> {"none", "durable", "uncertain"}]
        BY <2>15, <1>durability DEF NotPersisted, Fault, Spend
      <3>4. pc' \in [Proc -> Phase]
        BY <2>15, <1>pc DEF NotPersisted, Fault, Spend, Phase
      <3>5. spent' \in [Bounds -> Nat]
        BY <2>15, <1>spent, OwnershipConstants DEF NotPersisted, Fault, Spend, Bounds
      <3> UNCHANGED <<lease, log, outbox, age, own, fence, nextSeq, lastAsked, missed, snap>>
        BY <2>15 DEF NotPersisted, Fault, Spend, store
      <3> QED
        BY <3>1, <3>2, <3>3, <3>4, <3>5 DEF TypeOK
    <2>16. CASE PutOutbox(p)
      <3>1. outbox' \in Write
        BY <2>16, <1>outbox, Constants, <1>write DEF PutOutbox, Fault, Spend
      <3>2. write' \in [Proc -> Write]
        BY <2>16, <1>write, Constants DEF PutOutbox, Fault, Spend
      <3>3. pc' \in [Proc -> Phase]
        BY <2>16, <1>pc DEF PutOutbox, Fault, Spend, Phase
      <3>4. spent' \in [Bounds -> Nat]
        BY <2>16, <1>spent, OwnershipConstants DEF PutOutbox, Fault, Spend, Bounds
      <3> UNCHANGED <<lease, log, age, own, fence, nextSeq, lastAsked, failed, durability,
                      missed, snap>>
        BY <2>16 DEF PutOutbox, Fault, Spend, store
      <3> QED
        BY <3>1, <3>2, <3>3, <3>4 DEF TypeOK
    <2>17. CASE Receipt(p)
      <3>1. nextSeq' \in [Proc -> Nat]
        BY <2>17, <1>nextSeq DEF Receipt, Ask
      <3>2. lastAsked' \in [Proc -> Int]
        BY <2>17, <1>lastAsked, <1>nextSeq DEF Receipt, Ask
      <3>3. write' \in [Proc -> Write]
        BY <2>17, <1>write, <1>nextSeq, <1>lastAsked
           DEF Receipt, Ask, Write, Unguarded, Kinds, Terminals
      <3> UNCHANGED <<lease, log, outbox, age, pc, own, fence, failed, durability, missed,
                      snap, spent>>
        BY <2>17 DEF Receipt, Ask, store
      <3> QED
        BY <3>1, <3>2, <3>3 DEF TypeOK
    <2>18. CASE Retire(p)
      <3>1. own' \in [Proc -> {"unclaimed", "held", "parked", "lost", "done"}]
        BY <2>18, <1>own DEF Retire, GiveBack, Released, Fault, Spend
      <3>2. lease' \in LeaseRow
        BY <2>18, <1>lease, OwnershipConstants, Constants
           DEF Retire, GiveBack, Released, Fault, Spend, LeaseRow
      <3>3. pc' \in [Proc -> Phase]
        BY <2>18, <1>pc DEF Retire, GiveBack, Released, Fault, Spend, Phase
      <3>4. spent' \in [Bounds -> Nat]
        BY <2>18, <1>spent, OwnershipConstants
           DEF Retire, GiveBack, Released, Fault, Spend, Bounds
      <3> UNCHANGED <<log, outbox, age, fence, write, snap>>
        BY <2>18 DEF Retire, GiveBack, Released, Fault, Spend, store
      <3> QED
        BY <2>18, <3>1, <3>2, <3>3, <3>4, DiscardType DEF Retire, TypeOK
    <2>19. CASE ResumeAcquire(p)
      <3>1. lease' \in LeaseRow
        BY <2>19, <1>lease, OwnershipConstants, Constants
           DEF ResumeAcquire, Acquire, NextGeneration, LeaseRow
      <3>2. fence' \in [Proc -> Nat]
        BY <2>19, <1>fence, <1>lease DEF ResumeAcquire, Acquire, NextGeneration, LeaseRow
      <3>3. pc' \in [Proc -> Phase]
        BY <2>19, <1>pc DEF ResumeAcquire, Acquire, NextGeneration, Phase
      <3> UNCHANGED <<log, outbox, age, own, nextSeq, lastAsked, write, failed, durability,
                      missed, snap, spent>>
        BY <2>19 DEF ResumeAcquire, Acquire, NextGeneration, execution, store
      <3> QED
        BY <3>1, <3>2, <3>3 DEF TypeOK
    <2>20. CASE LoadCheckpoint(p)
      <3>1. lease' \in LeaseRow
        BY <2>20, <1>lease, OwnershipConstants, Constants
           DEF LoadCheckpoint, GiveBack, Released, Fault, Spend, LeaseRow
      <3>2. pc' \in [Proc -> Phase]
        BY <2>20, <1>pc DEF LoadCheckpoint, GiveBack, Released, Fault, Spend, Phase
      <3>3. snap' \in [Proc -> Snapshot]
        BY <2>20, <1>snap, Constants DEF LoadCheckpoint, GiveBack, Released, Fault, Spend
      <3>4. spent' \in [Bounds -> Nat]
        BY <2>20, <1>spent, OwnershipConstants
           DEF LoadCheckpoint, GiveBack, Released, Fault, Spend, Bounds
      <3> UNCHANGED <<log, outbox, age, own, fence, nextSeq, lastAsked, write, failed,
                      durability, missed>>
        BY <2>20 DEF LoadCheckpoint, GiveBack, Released, Fault, Spend, execution, store
      <3> QED
        BY <3>1, <3>2, <3>3, <3>4 DEF TypeOK
    <2>21. CASE ConfirmResume(p)
      <3>1. lease' \in LeaseRow
        BY <2>21, <1>lease, OwnershipConstants, Constants DEF ConfirmResume, LeaseRow
      <3>2. pc' \in [Proc -> Phase]
        BY <2>21, <1>pc DEF ConfirmResume, Phase
      <3>3. own' \in [Proc -> {"unclaimed", "held", "parked", "lost", "done"}]
        BY <2>21, <1>own DEF ConfirmResume
      <3>4. nextSeq' \in [Proc -> Nat]
        BY <2>21, <1>nextSeq, <1>snap DEF ConfirmResume, Snapshot, Discipline, InFlight
      <3>5. lastAsked' \in [Proc -> Int]
        BY <2>21, <1>lastAsked, <1>snap DEF ConfirmResume, Snapshot
      <3>6. failed' \in [Proc -> BOOLEAN]
        BY <2>21, <1>failed DEF ConfirmResume
      <3>7. durability' \in [Proc -> {"none", "durable", "uncertain"}]
        BY <2>21, <1>durability DEF ConfirmResume
      <3>8. missed' \in [Proc -> Nat]
        BY <2>21, <1>missed DEF ConfirmResume
      <3>9. snap' \in [Proc -> Snapshot]
        BY <2>21, <1>snap, Constants DEF ConfirmResume
      <3> UNCHANGED <<log, outbox, age, fence, write, spent>>
        BY <2>21 DEF ConfirmResume, store
      <3> QED
        BY <3>1, <3>2, <3>3, <3>4, <3>5, <3>6, <3>7, <3>8, <3>9 DEF TypeOK
    <2>22. CASE ResumeRefused(p)
      <3>1. lease' \in LeaseRow
        BY <2>22, <1>lease, OwnershipConstants, Constants
           DEF ResumeRefused, GiveBack, Released, Fault, Spend, LeaseRow
      <3>2. pc' \in [Proc -> Phase]
        BY <2>22, <1>pc DEF ResumeRefused, GiveBack, Released, Fault, Spend, Phase
      <3>3. snap' \in [Proc -> Snapshot]
        BY <2>22, <1>snap, Constants DEF ResumeRefused, GiveBack, Released, Fault, Spend
      <3>4. spent' \in [Bounds -> Nat]
        BY <2>22, <1>spent, OwnershipConstants
           DEF ResumeRefused, GiveBack, Released, Fault, Spend, Bounds
      <3> UNCHANGED <<log, outbox, age, own, fence, nextSeq, lastAsked, write, failed,
                      durability, missed>>
        BY <2>22 DEF ResumeRefused, GiveBack, Released, Fault, Spend, execution, store
      <3> QED
        BY <3>1, <3>2, <3>3, <3>4 DEF TypeOK
    <2>23. CASE ReadOutbox(p)
      <3>1. pc' \in [Proc -> Phase]
        BY <2>23, <1>pc DEF ReadOutbox, Phase
      <3>2. snap' \in [Proc -> Snapshot]
        BY <2>23, <1>snap, Constants, <1>outbox DEF ReadOutbox
      <3> UNCHANGED <<lease, log, outbox, age, own, fence, nextSeq, lastAsked, write, failed,
                      durability, missed, spent>>
        BY <2>23 DEF ReadOutbox, execution, store
      <3> QED
        BY <3>1, <3>2 DEF TypeOK
    <2>24. CASE ListInterruptedRuns(p)
      <3>1. pc' \in [Proc -> Phase]
        BY <2>24, <1>pc DEF ListInterruptedRuns, Phase
      <3>2. snap' \in [Proc -> Snapshot]
        <4> DEFINE open == log # <<>> /\ ~ HasTerminal
        <4>1. PICK k \in -1 .. MaxSeq + 1 :
                 snap' = [snap EXCEPT ![p].open = open, ![p].resumable = Resumable, ![p].last = k]
          BY <2>24 DEF ListInterruptedRuns
        <4>2. open \in BOOLEAN /\ Resumable \in BOOLEAN /\ k \in Int
          BY OwnershipConstants DEF Resumable
        <4> HIDE DEF open
        <4> QED
          BY <4>1, <4>2, <1>snap DEF Snapshot
      <3> UNCHANGED <<lease, log, outbox, age, own, fence, nextSeq, lastAsked, write, failed,
                      durability, missed, spent>>
        BY <2>24 DEF ListInterruptedRuns, execution, store
      <3> QED
        BY <3>1, <3>2 DEF TypeOK
    <2>25. CASE Drain(p)
      <3>1. lease' \in LeaseRow
        BY <2>25, <1>lease, OwnershipConstants, Constants
           DEF Drain, ForgetOutbox, LeavePass, Acquire, NextGeneration, Fault, Spend, LeaseRow
      <3>2. fence' \in [Proc -> Nat]
        BY <2>25, <1>fence, <1>lease
           DEF Drain, ForgetOutbox, LeavePass, Acquire, NextGeneration, Fault, Spend, LeaseRow
      <3>3. pc' \in [Proc -> Phase]
        BY <2>25, <1>pc
           DEF Drain, ForgetOutbox, LeavePass, Acquire, NextGeneration, Fault, Spend, Phase
      <3>4. snap' \in [Proc -> Snapshot]
        BY <2>25, <1>snap, Constants
           DEF Drain, ForgetOutbox, LeavePass, Acquire, NextGeneration, Fault, Spend
      <3>5. outbox' \in Write
        BY <2>25, <1>outbox, Constants
           DEF Drain, ForgetOutbox, LeavePass, Acquire, NextGeneration, Fault, Spend
      <3>6. spent' \in [Bounds -> Nat]
        BY <2>25, <1>spent, OwnershipConstants DEF Drain, ForgetOutbox, Fault, Spend, Bounds
      <3> UNCHANGED <<log, age, own, nextSeq, lastAsked, write, failed, durability, missed>>
        BY <2>25 DEF Drain, ForgetOutbox, LeavePass, Acquire, NextGeneration, Fault, Spend,
           execution, store
      <3> QED
        BY <3>1, <3>2, <3>3, <3>4, <3>5, <3>6 DEF TypeOK
    <2>26. CASE DrainWrite(p)
      <3>1. lease' \in LeaseRow
        BY <2>26, <1>lease, OwnershipConstants, Constants DEF DrainWrite, LeavePass, Append1,
           HeldTerminal, GiveBack, Released, Fault, Spend, LeaseRow
      <3>2. log' \in Seq(EventRow)
        <4>1. /\ HeldTerminal(p).seq \in Int
              /\ HeldTerminal(p).kind \in Kinds /\ HeldTerminal(p).by \in Proc
          BY <2>26, <1>snap DEF DrainWrite, HeldTerminal, Discipline, HeldTerminals, IsHeld,
             Snapshot, Write, Kinds
        <4> QED
          BY <2>26, <4>1, <1>log, AppendType DEF DrainWrite, Append1
      <3>3. pc' \in [Proc -> Phase]
        BY <2>26, <1>pc DEF DrainWrite, LeavePass, Append1, HeldTerminal, GiveBack, Released,
           Fault, Spend, Phase
      <3>4. snap' \in [Proc -> Snapshot]
        BY <2>26, <1>snap, Constants
           DEF DrainWrite, LeavePass, Append1, HeldTerminal, GiveBack, Released, Fault, Spend
      <3>5. spent' \in [Bounds -> Nat]
        BY <2>26, <1>spent, OwnershipConstants DEF DrainWrite, LeavePass, Append1,
           HeldTerminal, GiveBack, Released, Fault, Spend, Bounds
      <3> UNCHANGED <<outbox, age, own, fence, nextSeq, lastAsked, write, failed, durability,
                      missed>>
        BY <2>26 DEF DrainWrite, LeavePass, Append1, HeldTerminal, GiveBack, Released, Fault,
           Spend, execution, store
      <3> QED
        BY <3>1, <3>2, <3>3, <3>4, <3>5 DEF TypeOK
    <2>27. CASE Forget(p)
      <3>1. lease' \in LeaseRow
        BY <2>27, <1>lease, OwnershipConstants, Constants
           DEF Forget, ForgetOutbox, Released, Fault, Spend, LeaseRow
      <3>2. outbox' \in Write
        BY <2>27, <1>outbox, Constants DEF Forget, ForgetOutbox, Released, Fault, Spend
      <3>3. pc' \in [Proc -> Phase]
        BY <2>27, <1>pc DEF Forget, ForgetOutbox, Released, Fault, Spend, Phase
      <3>4. spent' \in [Bounds -> Nat]
        BY <2>27, <1>spent, OwnershipConstants DEF Forget, ForgetOutbox, Fault, Spend, Bounds
      <3> UNCHANGED <<log, age, own, fence, nextSeq, lastAsked, write, failed, durability,
                      missed, snap>>
        BY <2>27 DEF Forget, ForgetOutbox, Released, Fault, Spend, execution, store
      <3> QED
        BY <3>1, <3>2, <3>3, <3>4 DEF TypeOK
    <2>28. CASE RepairClaim(p)
      <3>1. lease' \in LeaseRow
        BY <2>28, <1>lease, OwnershipConstants, Constants
           DEF RepairClaim, LeavePass, Acquire, NextGeneration, LeaseRow
      <3>2. fence' \in [Proc -> Nat]
        BY <2>28, <1>fence, <1>lease DEF RepairClaim, LeavePass, Acquire, NextGeneration, LeaseRow
      <3>3. pc' \in [Proc -> Phase]
        BY <2>28, <1>pc DEF RepairClaim, LeavePass, Acquire, NextGeneration, Phase
      <3>4. snap' \in [Proc -> Snapshot]
        BY <2>28, <1>snap, Constants DEF RepairClaim, LeavePass, Acquire, NextGeneration
      <3> UNCHANGED <<log, outbox, age, own, nextSeq, lastAsked, write, failed, durability,
                      missed, spent>>
        BY <2>28 DEF RepairClaim, LeavePass, Acquire, NextGeneration, execution, store
      <3> QED
        BY <3>1, <3>2, <3>3, <3>4 DEF TypeOK
    <2>29. CASE Recheck(p)
      <3>1. lease' \in LeaseRow
        BY <2>29, <1>lease, OwnershipConstants, Constants
           DEF Recheck, LeavePass, GiveBack, Released, Fault, Spend, LeaseRow
      <3>2. pc' \in [Proc -> Phase]
        BY <2>29, <1>pc DEF Recheck, LeavePass, GiveBack, Released, Fault, Spend, Phase
      <3>3. snap' \in [Proc -> Snapshot]
        BY <2>29, <1>snap, Constants DEF Recheck, LeavePass, GiveBack, Released, Fault, Spend
      <3>4. spent' \in [Bounds -> Nat]
        BY <2>29, <1>spent, OwnershipConstants DEF Recheck, GiveBack, Fault, Spend, Bounds
      <3> UNCHANGED <<log, outbox, age, own, fence, nextSeq, lastAsked, write, failed,
                      durability, missed>>
        BY <2>29 DEF Recheck, LeavePass, GiveBack, Released, Fault, Spend, execution, store
      <3> QED
        BY <3>1, <3>2, <3>3, <3>4 DEF TypeOK
    <2>30. CASE RepairWrite(p)
      <3>1. log' \in Seq(EventRow)
        <4>1. /\ RepairTerminal(p).seq \in Int
              /\ RepairTerminal(p).kind \in Kinds /\ RepairTerminal(p).by \in Proc
          BY <1>snap DEF RepairTerminal, Snapshot, Kinds, Terminals
        <4> QED
          BY <2>30, <4>1, <1>log, AppendType DEF RepairWrite, Append1
      <3>2. pc' \in [Proc -> Phase]
        BY <2>30, <1>pc DEF RepairWrite, Append1, RepairTerminal, Fault, Spend, Phase
      <3>3. spent' \in [Bounds -> Nat]
        BY <2>30, <1>spent, OwnershipConstants
           DEF RepairWrite, Append1, RepairTerminal, Fault, Spend, Bounds
      <3> UNCHANGED <<lease, outbox, age, own, fence, nextSeq, lastAsked, write, failed,
                      durability, missed, snap>>
        BY <2>30 DEF RepairWrite, Append1, RepairTerminal, Fault, Spend, execution, store
      <3> QED
        BY <3>1, <3>2, <3>3 DEF TypeOK
    <2>31. CASE RepairRelease(p)
      <3>1. lease' \in LeaseRow
        BY <2>31, <1>lease, OwnershipConstants, Constants
           DEF RepairRelease, LeavePass, GiveBack, Released, Fault, Spend, LeaseRow
      <3>2. pc' \in [Proc -> Phase]
        BY <2>31, <1>pc DEF RepairRelease, LeavePass, GiveBack, Released, Fault, Spend, Phase
      <3>3. snap' \in [Proc -> Snapshot]
        BY <2>31, <1>snap, Constants
           DEF RepairRelease, LeavePass, GiveBack, Released, Fault, Spend
      <3>4. spent' \in [Bounds -> Nat]
        BY <2>31, <1>spent, OwnershipConstants
           DEF RepairRelease, LeavePass, GiveBack, Released, Fault, Spend, Bounds
      <3> UNCHANGED <<log, outbox, age, own, fence, nextSeq, lastAsked, write, failed,
                      durability, missed>>
        BY <2>31 DEF RepairRelease, LeavePass, GiveBack, Released, Fault, Spend, execution, store
      <3> QED
        BY <3>1, <3>2, <3>3, <3>4 DEF TypeOK
    <2>32. CASE Crash(p)
      <3>1. pc' \in [Proc -> Phase]
        BY <2>32, <1>pc DEF Crash, Spend, store, Phase
      <3>2. write' \in [Proc -> Write]
        BY <2>32, <1>write, Constants DEF Crash, Spend, store
      <3>3. snap' \in [Proc -> Snapshot]
        BY <2>32, <1>snap, Constants DEF Crash, Spend, store
      <3>4. spent' \in [Bounds -> Nat]
        BY <2>32, <1>spent, OwnershipConstants DEF Crash, Spend, store, Bounds
      <3> UNCHANGED <<lease, log, outbox, age, own, fence>>
        BY <2>32 DEF Crash, Spend, store
      <3> QED
        BY <2>32, <3>1, <3>2, <3>3, <3>4, DiscardType DEF Crash, TypeOK
    <2> QED
      BY <1>p, <2>1, <2>2, <2>3, <2>4, <2>5, <2>6, <2>7, <2>8, <2>9, <2>10, <2>11, <2>12,
         <2>13, <2>14, <2>15, <2>16, <2>17, <2>18, <2>19, <2>20, <2>21, <2>22, <2>23, <2>24,
         <2>25, <2>26, <2>27, <2>28, <2>29, <2>30, <2>31, <2>32 DEF RunStep, ResumeStep,
         ReconcileStep
  <1> QED
    BY <1>s, <1>t, <1>p DEF Next

(* Appends stay numbered, signed and guarded. *)
LEMMA InFlightStep == TypeOK /\ Discipline /\ [Next]_vars => \A q \in Proc : InFlight(q)'
  <1> SUFFICES ASSUME TypeOK, Discipline, [Next]_vars, NEW q \in Proc PROVE InFlight(q)'
    OBVIOUS
  <1>q. /\ write \in [Proc -> Write] /\ lastAsked \in [Proc -> Int] /\ nextSeq \in [Proc -> Nat]
       /\ pc \in [Proc -> Phase] /\ snap \in [Proc -> Snapshot]
       /\ InFlight(q) /\ \A p \in Proc : InFlight(p)
    BY DEF TypeOK, Discipline
  <1>s. CASE UNCHANGED vars
    BY <1>s, <1>q DEF vars, store, local, InFlight, NoEvent
  <1>t. CASE Tick
    BY <1>t, <1>q DEF Tick, local, InFlight, NoEvent
  <1>p. ASSUME NEW p \in Proc, RunStep(p) \/ ResumeStep(p) \/ ReconcileStep(p) \/ Crash(p)
        PROVE  InFlight(q)'
    <2>1. CASE Begin(p)
      BY <2>1, <1>q DEF Begin, Ask, store, InFlight, NoEvent, Kinds, Terminals, Write
    <2>2. CASE Claim(p)
      BY <2>2, <1>q DEF Claim, Ask, Acquire, NextGeneration, Fault, Spend, store, InFlight,
         NoEvent, Kinds, Terminals, Write
    <2>3. CASE Work(p)
      BY <2>3, <1>q DEF Work, Ask, store, InFlight, NoEvent, Kinds, Terminals, Write
    <2>4. CASE Transient(p)
      BY <2>4, <1>q DEF Transient, Spend, store, InFlight, NoEvent
    <2>5. CASE Pause(p)
      BY <2>5, <1>q DEF Pause, Ask, store, InFlight, NoEvent, Kinds, Terminals, Write
    <2>6. CASE Park(p)
      BY <2>6, <1>q DEF Park, GiveBack, Released, Fault, Spend, store, InFlight, NoEvent
    <2>7. CASE ResumeGate(p)
      BY <2>7, <1>q DEF ResumeGate, Authorize, Acquire, NextGeneration, Ask, store, InFlight,
         NoEvent, Kinds, Terminals, Write
    <2>8. CASE RunTimeout(p)
      BY <2>8, <1>q DEF RunTimeout, Authorize, Acquire, NextGeneration, Ask, store, InFlight,
         NoEvent, Kinds, Terminals, Write
    <2>9. CASE ReclaimRefused(p)
      BY <2>9, <1>q DEF ReclaimRefused, LoseOwnership, Fault, Spend, store, InFlight, NoEvent
    <2>10. CASE Depart(p)
      BY <2>10, <1>q DEF Depart, Discard, store, InFlight, NoEvent
    <2>11. CASE Beat(p)
      BY <2>11, <1>q DEF Beat, LoseOwnership, Fault, Spend, store, InFlight, NoEvent
    <2>12. ASSUME NEW kind \in Terminals, Settle(p, kind) PROVE InFlight(q)'
      BY <2>12, <1>q DEF Settle, Authorize, Acquire, NextGeneration, Ask, store, InFlight,
         NoEvent, Kinds, Terminals, Write
    <2>13. CASE Persisted(p)
      BY <2>13, <1>q DEF Persisted, Append1, Asking, Quiet, store, InFlight, NoEvent, Kinds,
         Terminals, Write
    <2>14. CASE Fenced(p)
      BY <2>14, <1>q DEF Fenced, LoseOwnership, store, InFlight, NoEvent, Kinds, Terminals
    <2>15. CASE NotPersisted(p)
      BY <2>15, <1>q DEF NotPersisted, Fault, Spend, store, InFlight, NoEvent, Kinds, Terminals
    <2>16. CASE PutOutbox(p)
      BY <2>16, <1>q DEF PutOutbox, Fault, Spend, store, InFlight, NoEvent, Kinds, Terminals
    <2>17. CASE Receipt(p)
      BY <2>17, <1>q DEF Receipt, Ask, store, InFlight, NoEvent, Kinds, Terminals, Write
    <2>18. CASE Retire(p)
      BY <2>18, <1>q DEF Retire, Discard, GiveBack, Released, Fault, Spend, store, InFlight, NoEvent
    <2>19. CASE ResumeAcquire(p)
      BY <2>19, <1>q
         DEF ResumeAcquire, Acquire, NextGeneration, execution, store, InFlight, NoEvent
    <2>20. CASE LoadCheckpoint(p)
      BY <2>20, <1>q DEF LoadCheckpoint, GiveBack, Released, Fault, Spend, execution, store,
         InFlight, NoEvent, NoSnap, Snapshot
    <2>21. CASE ConfirmResume(p)
      BY <2>21, <1>q DEF ConfirmResume, store, InFlight, NoEvent, NoSnap, Snapshot
    <2>22. CASE ResumeRefused(p)
      BY <2>22, <1>q DEF ResumeRefused, GiveBack, Released, Fault, Spend, execution, store,
         InFlight, NoEvent, NoSnap
    <2>23. CASE ReadOutbox(p)
      BY <2>23, <1>q DEF ReadOutbox, execution, store, InFlight, NoEvent, NoSnap
    <2>24. CASE ListInterruptedRuns(p)
      BY <2>24, <1>q DEF ListInterruptedRuns, execution, store, InFlight, NoEvent
    <2>25. CASE Drain(p)
      BY <2>25, <1>q DEF Drain, ForgetOutbox, LeavePass, Acquire, NextGeneration, Fault, Spend,
         execution, store, InFlight, NoEvent, NoSnap
    <2>26. CASE DrainWrite(p)
      BY <2>26, <1>q DEF DrainWrite, LeavePass, Append1, HeldTerminal, GiveBack, Released,
         Fault, Spend, execution, store, InFlight, NoEvent, NoSnap
    <2>27. CASE Forget(p)
      BY <2>27, <1>q DEF Forget, ForgetOutbox, Released, Fault, Spend, execution, store,
         InFlight, NoEvent
    <2>28. CASE RepairClaim(p)
      BY <2>28, <1>q DEF RepairClaim, LeavePass, Acquire, NextGeneration, execution, store,
         InFlight, NoEvent, NoSnap
    <2>29. CASE Recheck(p)
      BY <2>29, <1>q DEF Recheck, LeavePass, GiveBack, Released, Fault, Spend, execution,
         store, InFlight, NoEvent, NoSnap
    <2>30. CASE RepairWrite(p)
      BY <2>30, <1>q DEF RepairWrite, Append1, RepairTerminal, Fault, Spend, execution, store,
         InFlight, NoEvent
    <2>31. CASE RepairRelease(p)
      BY <2>31, <1>q DEF RepairRelease, LeavePass, GiveBack, Released, Fault, Spend, execution,
         store, InFlight, NoEvent, NoSnap
    <2>32. CASE Crash(p)
      BY <2>32, <1>q DEF Crash, Discard, Spend, store, InFlight, NoEvent, Kinds, Terminals, NoSnap
    <2> QED
      BY <1>p, <2>1, <2>2, <2>3, <2>4, <2>5, <2>6, <2>7, <2>8, <2>9, <2>10, <2>11, <2>12,
         <2>13, <2>14, <2>15, <2>16, <2>17, <2>18, <2>19, <2>20, <2>21, <2>22, <2>23, <2>24,
         <2>25, <2>26, <2>27, <2>28, <2>29, <2>30, <2>31, <2>32
         DEF RunStep, ResumeStep, ReconcileStep
  <1> QED
    BY <1>s, <1>t, <1>p DEF Next

(* Whatever is held or about to be is a terminal. *)
LEMMA HeldStep == TypeOK /\ Discipline /\ [Next]_vars => \A q \in Proc : HeldTerminals(q)'
  <1> SUFFICES ASSUME TypeOK, Discipline, [Next]_vars, NEW q \in Proc PROVE HeldTerminals(q)'
    OBVIOUS
  <1>q. /\ write \in [Proc -> Write] /\ pc \in [Proc -> Phase] /\ snap \in [Proc -> Snapshot]
       /\ IsHeld(outbox) /\ \A p \in Proc : HeldTerminals(p)
    BY DEF TypeOK, Discipline
  <1>s. CASE UNCHANGED vars
    BY <1>s, <1>q DEF vars, store, local, HeldTerminals, IsHeld
  <1>t. CASE Tick
    BY <1>t, <1>q DEF Tick, local, HeldTerminals, IsHeld
  <1>p. ASSUME NEW p \in Proc, RunStep(p) \/ ResumeStep(p) \/ ReconcileStep(p) \/ Crash(p)
        PROVE  HeldTerminals(q)'
    <2>1. CASE Begin(p)
      BY <2>1, <1>q DEF Begin, Ask, store, HeldTerminals, IsHeld
    <2>2. CASE Claim(p)
      BY <2>2, <1>q
         DEF Claim, Ask, Acquire, NextGeneration, Fault, Spend, store, HeldTerminals, IsHeld
    <2>3. CASE Work(p)
      BY <2>3, <1>q DEF Work, Ask, store, HeldTerminals, IsHeld
    <2>4. CASE Transient(p)
      BY <2>4, <1>q DEF Transient, Spend, store, HeldTerminals, IsHeld
    <2>5. CASE Pause(p)
      BY <2>5, <1>q DEF Pause, Ask, store, HeldTerminals, IsHeld
    <2>6. CASE Park(p)
      BY <2>6, <1>q DEF Park, GiveBack, Released, Fault, Spend, store, HeldTerminals, IsHeld
    <2>7. CASE ResumeGate(p)
      BY <2>7, <1>q DEF ResumeGate, Authorize, Acquire, NextGeneration, Ask, store,
         HeldTerminals, IsHeld
    <2>8. CASE RunTimeout(p)
      BY <2>8, <1>q DEF RunTimeout, Authorize, Acquire, NextGeneration, Ask, store,
         HeldTerminals, IsHeld
    <2>9. CASE ReclaimRefused(p)
      BY <2>9, <1>q DEF ReclaimRefused, LoseOwnership, Fault, Spend, store, HeldTerminals, IsHeld
    <2>10. CASE Depart(p)
      BY <2>10, <1>q DEF Depart, store, HeldTerminals, IsHeld
    <2>11. CASE Beat(p)
      BY <2>11, <1>q DEF Beat, LoseOwnership, Fault, Spend, store, HeldTerminals, IsHeld
    <2>12. ASSUME NEW kind \in Terminals, Settle(p, kind) PROVE HeldTerminals(q)'
      BY <2>12, <1>q
         DEF Settle, Authorize, Acquire, NextGeneration, Ask, store, HeldTerminals, IsHeld
    <2>13. CASE Persisted(p)
      BY <2>13, <1>q DEF Persisted, Append1, Asking, Quiet, store, HeldTerminals, IsHeld
    <2>14. CASE Fenced(p)
      BY <2>14, <1>q DEF Fenced, LoseOwnership, store, HeldTerminals, IsHeld, Asking
    <2>15. CASE NotPersisted(p)
      BY <2>15, <1>q DEF NotPersisted, Fault, Spend, store, HeldTerminals, IsHeld, Terminals
    <2>16. CASE PutOutbox(p)
      BY <2>16, <1>q DEF PutOutbox, Fault, Spend, store, HeldTerminals, IsHeld
    <2>17. CASE Receipt(p)
      BY <2>17, <1>q DEF Receipt, Ask, store, HeldTerminals, IsHeld
    <2>18. CASE Retire(p)
      BY <2>18, <1>q DEF Retire, GiveBack, Released, Fault, Spend, store, HeldTerminals, IsHeld
    <2>19. CASE ResumeAcquire(p)
      BY <2>19, <1>q
         DEF ResumeAcquire, Acquire, NextGeneration, execution, store, HeldTerminals, IsHeld
    <2>20. CASE LoadCheckpoint(p)
      BY <2>20, <1>q DEF LoadCheckpoint, GiveBack, Released, Fault, Spend, execution, store,
         HeldTerminals, IsHeld, NoSnap
    <2>21. CASE ConfirmResume(p)
      BY <2>21, <1>q DEF ConfirmResume, store, HeldTerminals, IsHeld, NoSnap
    <2>22. CASE ResumeRefused(p)
      BY <2>22, <1>q DEF ResumeRefused, GiveBack, Released, Fault, Spend, execution, store,
         HeldTerminals, IsHeld, NoSnap
    <2>23. CASE ReadOutbox(p)
      BY <2>23, <1>q DEF ReadOutbox, execution, store, HeldTerminals, IsHeld, NoSnap, Discipline
    <2>24. CASE ListInterruptedRuns(p)
      BY <2>24, <1>q DEF ListInterruptedRuns, execution, store, HeldTerminals, IsHeld
    <2>25. CASE Drain(p)
      BY <2>25, <1>q DEF Drain, ForgetOutbox, LeavePass, Acquire, NextGeneration, Fault, Spend,
         execution, store, HeldTerminals, IsHeld, NoSnap
    <2>26. CASE DrainWrite(p)
      BY <2>26, <1>q DEF DrainWrite, LeavePass, Append1, HeldTerminal, GiveBack, Released,
         Fault, Spend, execution, store, HeldTerminals, IsHeld, NoSnap
    <2>27. CASE Forget(p)
      BY <2>27, <1>q DEF Forget, ForgetOutbox, Released, Fault, Spend, execution, store,
         HeldTerminals, IsHeld
    <2>28. CASE RepairClaim(p)
      BY <2>28, <1>q DEF RepairClaim, LeavePass, Acquire, NextGeneration, execution, store,
         HeldTerminals, IsHeld, NoSnap
    <2>29. CASE Recheck(p)
      BY <2>29, <1>q DEF Recheck, LeavePass, GiveBack, Released, Fault, Spend, execution,
         store, HeldTerminals, IsHeld, NoSnap
    <2>30. CASE RepairWrite(p)
      BY <2>30, <1>q DEF RepairWrite, Append1, RepairTerminal, Fault, Spend, execution, store,
         HeldTerminals, IsHeld
    <2>31. CASE RepairRelease(p)
      BY <2>31, <1>q DEF RepairRelease, LeavePass, GiveBack, Released, Fault, Spend, execution,
         store, HeldTerminals, IsHeld, NoSnap
    <2>32. CASE Crash(p)
      BY <2>32, <1>q DEF Crash, Spend, store, HeldTerminals, IsHeld, NoSnap
    <2> QED
      BY <1>p, <2>1, <2>2, <2>3, <2>4, <2>5, <2>6, <2>7, <2>8, <2>9, <2>10, <2>11, <2>12,
         <2>13, <2>14, <2>15, <2>16, <2>17, <2>18, <2>19, <2>20, <2>21, <2>22, <2>23, <2>24,
         <2>25, <2>26, <2>27, <2>28, <2>29, <2>30, <2>31, <2>32
         DEF RunStep, ResumeStep, ReconcileStep
  <1> QED
    BY <1>s, <1>t, <1>p DEF Next

(* Claims and fences stay paired. *)
LEMMA FencingStep == TypeOK /\ Discipline /\ [Next]_vars => \A q \in Proc : Fencing(q)'
  <1> SUFFICES ASSUME TypeOK, Discipline, [Next]_vars, NEW q \in Proc PROVE Fencing(q)'
    OBVIOUS
  <1>q. /\ lease \in LeaseRow /\ pc \in [Proc -> Phase] /\ fence \in [Proc -> Nat]
       /\ own \in [Proc -> {"unclaimed", "held", "parked", "lost", "done"}]
       /\ \A p \in Proc : Fencing(p)
    BY DEF TypeOK, Discipline
  <1>s. CASE UNCHANGED vars
    BY <1>s, <1>q DEF vars, store, local, Fencing, Claiming, NoLease, HoldsRow
  <1>t. CASE Tick
    BY <1>t, <1>q DEF Tick, local, Fencing, Claiming, NoLease, HoldsRow
  <1>p. ASSUME NEW p \in Proc, RunStep(p) \/ ResumeStep(p) \/ ReconcileStep(p) \/ Crash(p)
        PROVE  Fencing(q)'
    <2>1. CASE Begin(p)
      BY <2>1, <1>q DEF Begin, Ask, store, Fencing, Claiming, NoLease, HoldsRow
    <2>2. CASE Claim(p)
      BY <2>2, <1>q DEF Claim, Ask, Acquire, NextGeneration, Fault, Spend, store, Fencing,
         Claiming, NoLease, HoldsRow, LeaseRow
    <2>3. CASE Work(p)
      BY <2>3, <1>q DEF Work, Ask, store, Fencing, Claiming, NoLease, HoldsRow
    <2>4. CASE Transient(p)
      BY <2>4, <1>q DEF Transient, Spend, store, Fencing, Claiming, NoLease, HoldsRow
    <2>5. CASE Pause(p)
      BY <2>5, <1>q DEF Pause, Ask, store, Fencing, Claiming, NoLease, HoldsRow
    <2>6. CASE Park(p)
      BY <2>6, <1>q, OwnershipConstants DEF Park, GiveBack, Released, Fault, Spend, store,
         Fencing, Claiming, NoLease, HoldsRow
    <2>7. CASE ResumeGate(p)
      BY <2>7, <1>q DEF ResumeGate, Authorize, Acquire, NextGeneration, Ask, store, Fencing,
         Claiming, NoLease, HoldsRow, LeaseRow
    <2>8. CASE RunTimeout(p)
      BY <2>8, <1>q DEF RunTimeout, Authorize, Acquire, NextGeneration, Ask, store, Fencing,
         Claiming, NoLease, HoldsRow, LeaseRow
    <2>9. CASE ReclaimRefused(p)
      BY <2>9, <1>q DEF ReclaimRefused, LoseOwnership, Fault, Spend, store, Fencing, Claiming,
         NoLease, HoldsRow
    <2>10. CASE Depart(p)
      BY <2>10, <1>q DEF Depart, store, Fencing, Claiming, NoLease, HoldsRow
    <2>11. CASE Beat(p)
      BY <2>11, <1>q DEF Beat, LoseOwnership, Fault, Spend, store, Fencing, Claiming, NoLease,
         HoldsRow, LeaseRow
    <2>12. ASSUME NEW kind \in Terminals, Settle(p, kind) PROVE Fencing(q)'
      BY <2>12, <1>q DEF Settle, Authorize, Acquire, NextGeneration, Ask, store, Fencing,
         Claiming, NoLease, HoldsRow, LeaseRow
    <2>13. CASE Persisted(p)
      BY <2>13, <1>q
         DEF Persisted, Append1, Asking, Quiet, store, Fencing, Claiming, NoLease, HoldsRow
    <2>14. CASE Fenced(p)
      BY <2>14, <1>q DEF Fenced, LoseOwnership, store, Fencing, Claiming, NoLease, HoldsRow,
         Fold, FenceHolds
    <2>15. CASE NotPersisted(p)
      BY <2>15, <1>q DEF NotPersisted, Fault, Spend, store, Fencing, Claiming, NoLease, HoldsRow
    <2>16. CASE PutOutbox(p)
      BY <2>16, <1>q DEF PutOutbox, Fault, Spend, store, Fencing, Claiming, NoLease, HoldsRow
    <2>17. CASE Receipt(p)
      BY <2>17, <1>q DEF Receipt, Ask, store, Fencing, Claiming, NoLease, HoldsRow
    <2>18. CASE Retire(p)
      BY <2>18, <1>q, OwnershipConstants DEF Retire, GiveBack, Released, Fault, Spend, store,
         Fencing, Claiming, NoLease, HoldsRow
    <2>19. CASE ResumeAcquire(p)
      BY <2>19, <1>q DEF ResumeAcquire, Acquire, NextGeneration, execution, store, Fencing,
         Claiming, NoLease, HoldsRow, LeaseRow
    <2>20. CASE LoadCheckpoint(p)
      BY <2>20, <1>q, OwnershipConstants DEF LoadCheckpoint, GiveBack, Released, Fault, Spend,
         execution, store, Fencing, Claiming, NoLease, HoldsRow
    <2>21. CASE ConfirmResume(p)
      BY <2>21, <1>q DEF ConfirmResume, store, Fencing, Claiming, NoLease, HoldsRow, LeaseRow
    <2>22. CASE ResumeRefused(p)
      BY <2>22, <1>q, OwnershipConstants DEF ResumeRefused, GiveBack, Released, Fault, Spend,
         execution, store, Fencing, Claiming, NoLease, HoldsRow
    <2>23. CASE ReadOutbox(p)
      BY <2>23, <1>q DEF ReadOutbox, execution, store, Fencing, Claiming, NoLease, HoldsRow
    <2>24. CASE ListInterruptedRuns(p)
      BY <2>24, <1>q
         DEF ListInterruptedRuns, execution, store, Fencing, Claiming, NoLease, HoldsRow
    <2>25. CASE Drain(p)
      BY <2>25, <1>q DEF Drain, ForgetOutbox, LeavePass, Acquire, NextGeneration, Fault, Spend,
         execution, store, Fencing, Claiming, NoLease, HoldsRow, LeaseRow
    <2>26. CASE DrainWrite(p)
      BY <2>26, <1>q, OwnershipConstants DEF DrainWrite, LeavePass, Append1, HeldTerminal,
         GiveBack, Released, Fault, Spend, execution, store, Fencing, Claiming, NoLease, HoldsRow
    <2>27. CASE Forget(p)
      BY <2>27, <1>q, OwnershipConstants DEF Forget, ForgetOutbox, Released, Fault, Spend,
         execution, store, Fencing, Claiming, NoLease, HoldsRow
    <2>28. CASE RepairClaim(p)
      BY <2>28, <1>q DEF RepairClaim, LeavePass, Acquire, NextGeneration, execution, store,
         Fencing, Claiming, NoLease, HoldsRow, LeaseRow
    <2>29. CASE Recheck(p)
      BY <2>29, <1>q, OwnershipConstants DEF Recheck, LeavePass, GiveBack, Released, Fault,
         Spend, execution, store, Fencing, Claiming, NoLease, HoldsRow
    <2>30. CASE RepairWrite(p)
      BY <2>30, <1>q DEF RepairWrite, Append1, RepairTerminal, Fault, Spend, execution, store,
         Fencing, Claiming, NoLease, HoldsRow
    <2>31. CASE RepairRelease(p)
      BY <2>31, <1>q, OwnershipConstants DEF RepairRelease, LeavePass, GiveBack, Released,
         Fault, Spend, execution, store, Fencing, Claiming, NoLease, HoldsRow
    <2>32. CASE Crash(p)
      BY <2>32, <1>q DEF Crash, Spend, store, Fencing, Claiming, NoLease, HoldsRow
    <2> QED
      BY <1>p, <2>1, <2>2, <2>3, <2>4, <2>5, <2>6, <2>7, <2>8, <2>9, <2>10, <2>11, <2>12,
         <2>13, <2>14, <2>15, <2>16, <2>17, <2>18, <2>19, <2>20, <2>21, <2>22, <2>23, <2>24,
         <2>25, <2>26, <2>27, <2>28, <2>29, <2>30, <2>31, <2>32
         DEF RunStep, ResumeStep, ReconcileStep
  <1> QED
    BY <1>s, <1>t, <1>p DEF Next

(* Only three actions touch the outbox. *)
LEMMA OutboxStep == TypeOK /\ Discipline /\ [Next]_vars => IsHeld(outbox)'
  <1> SUFFICES ASSUME TypeOK, Discipline, [Next]_vars PROVE IsHeld(outbox)'
    OBVIOUS
  <1>s. CASE UNCHANGED vars
    BY <1>s DEF vars, store, Discipline, IsHeld
  <1>t. CASE Tick
    BY <1>t DEF Tick, Discipline, IsHeld
  <1>p. ASSUME NEW p \in Proc, RunStep(p) \/ ResumeStep(p) \/ ReconcileStep(p) \/ Crash(p)
        PROVE  IsHeld(outbox)'
    <2>1. CASE PutOutbox(p)
      <3>1. IsHeld(write[p])
        BY <2>1 DEF PutOutbox, TypeOK, Write, Discipline, HeldTerminals, InFlight, IsHeld
      <3> QED
        BY <2>1, <3>1 DEF PutOutbox, Discipline, IsHeld
    <2>2. CASE Drain(p)
      BY <2>2 DEF Drain, ForgetOutbox, Discipline, IsHeld
    <2>3. CASE Forget(p)
      BY <2>3 DEF Forget, ForgetOutbox, Discipline, IsHeld
    <2>4. CASE Begin(p) \/ Claim(p) \/ Work(p) \/ Transient(p) \/ Pause(p) \/ Park(p)
            \/ ResumeGate(p) \/ RunTimeout(p) \/ ReclaimRefused(p) \/ Depart(p) \/ Beat(p)
            \/ (\E kind \in Terminals : Settle(p, kind)) \/ Receipt(p) \/ Retire(p)
            \/ Fenced(p) \/ NotPersisted(p) \/ Persisted(p)
      BY <2>4 DEF Begin, Claim, Work, Transient, Pause, Park, ResumeGate, RunTimeout,
         ReclaimRefused, Depart, Beat, Settle, Receipt, Retire, Fenced, NotPersisted,
         Persisted, store, Discipline, IsHeld
    <2>5. CASE ResumeAcquire(p) \/ LoadCheckpoint(p) \/ ConfirmResume(p) \/ ResumeRefused(p)
            \/ ReadOutbox(p) \/ ListInterruptedRuns(p) \/ RepairClaim(p) \/ Recheck(p)
            \/ RepairRelease(p) \/ Crash(p) \/ DrainWrite(p) \/ RepairWrite(p)
      BY <2>5 DEF ResumeAcquire, LoadCheckpoint, ConfirmResume, ResumeRefused, ReadOutbox,
         ListInterruptedRuns, RepairClaim, Recheck, RepairRelease, Crash, DrainWrite,
         RepairWrite, store, Discipline, IsHeld
    <2> QED
      BY <1>p, <2>1, <2>2, <2>3, <2>4, <2>5 DEF RunStep, ResumeStep, ReconcileStep
  <1> QED
    BY <1>s, <1>t, <1>p DEF Next

(* The log changes only by an append the fold admits: of an append in flight, *)
(* of a held terminal by the process draining it, or of a repair's run:failed. *)
Admits(p, w) ==
    /\ Fold(p, w) = "persisted" /\ Append1(w)
    /\ w.seq \in Int /\ w.kind \in Kinds
    /\ w.kind \notin Terminals => w.expected >= -1

LogGrows(p) ==
    \/ Asking(p) /\ write[p].by = p /\ Admits(p, write[p])
    \/ pc[p] = "draining" /\ pc'[p] = "forget" /\ Admits(p, HeldTerminal(p))
    \/ pc[p] = "repairing" /\ Admits(p, RepairTerminal(p))

(* Every step leaves the log alone or is one of those appends. *)
LEMMA LogStep == TypeOK /\ Discipline /\ [Next]_vars => log' = log \/ \E r \in Proc : LogGrows(r)
  <1> SUFFICES ASSUME TypeOK, Discipline,
  [Next]_vars PROVE log' = log \/ \E r \in Proc : LogGrows(r)
    OBVIOUS
  <1>s. CASE UNCHANGED vars
    BY <1>s DEF vars, store
  <1>t. CASE Tick
    BY <1>t DEF Tick
  <1>p. ASSUME NEW p \in Proc, RunStep(p) \/ ResumeStep(p) \/ ReconcileStep(p) \/ Crash(p)
        PROVE  log' = log \/ \E r \in Proc : LogGrows(r)
    <2>1. CASE Persisted(p)
      BY <2>1 DEF Persisted, LogGrows, Admits, TypeOK, Write, Discipline, InFlight, Asking, Quiet
    <2>2. CASE DrainWrite(p)
      <3>1. HeldTerminal(p).seq \in Int /\ HeldTerminal(p).kind \in Terminals
        BY <2>2 DEF DrainWrite, HeldTerminal, TypeOK, Snapshot, Write, Discipline,
           HeldTerminals, IsHeld
      <3> QED
        BY <2>2, <3>1 DEF DrainWrite, LogGrows, Admits, Kinds, TypeOK
    <2>3. CASE RepairWrite(p)
      <3>1. RepairTerminal(p).seq \in Int /\ RepairTerminal(p).kind \in Terminals
        BY DEF RepairTerminal, TypeOK, Snapshot, Terminals
      <3> QED
        BY <2>3, <3>1 DEF RepairWrite, LogGrows, Admits, Kinds
    <2>4. CASE Begin(p) \/ Claim(p) \/ Work(p) \/ Transient(p) \/ Pause(p) \/ Park(p)
            \/ ResumeGate(p) \/ RunTimeout(p) \/ ReclaimRefused(p) \/ Depart(p) \/ Beat(p)
            \/ (\E kind \in Terminals : Settle(p, kind)) \/ Receipt(p) \/ Retire(p)
            \/ Fenced(p) \/ NotPersisted(p) \/ PutOutbox(p)
      BY <2>4 DEF Begin, Claim, Work, Transient, Pause, Park, ResumeGate, RunTimeout,
         ReclaimRefused, Depart, Beat, Settle, Receipt, Retire, Fenced, NotPersisted,
         PutOutbox, store
    <2>5. CASE ResumeAcquire(p) \/ LoadCheckpoint(p) \/ ConfirmResume(p) \/ ResumeRefused(p)
            \/ ReadOutbox(p) \/ ListInterruptedRuns(p) \/ RepairClaim(p) \/ Recheck(p)
            \/ RepairRelease(p) \/ Crash(p) \/ Drain(p) \/ Forget(p)
      BY <2>5 DEF ResumeAcquire, LoadCheckpoint, ConfirmResume, ResumeRefused, ReadOutbox,
         ListInterruptedRuns, RepairClaim, Recheck, RepairRelease, Crash, Drain, Forget, store
    <2> QED
      BY <1>p, <2>1, <2>2, <2>3, <2>4, <2>5 DEF RunStep, ResumeStep, ReconcileStep
  <1> QED
    BY <1>s, <1>t, <1>p DEF Next

(* An admitted append puts one row behind the log. *)
LEMMA AppendRow ==
    ASSUME TypeOK, NEW p \in Proc, NEW w, Admits(p, w)
    PROVE  /\ Len(log') = Len(log) + 1 /\ DOMAIN log' = 1 .. Len(log) + 1
           /\ log'[Len(log) + 1] = [seq |-> w.seq, kind |-> w.kind, by |-> w.by]
           /\ \A i \in DOMAIN log : log'[i] = log[i]
           /\ DOMAIN log = 1 .. Len(log) /\ Len(log) \in Nat
  <1> DEFINE row == [seq |-> w.seq, kind |-> w.kind, by |-> w.by]
  <1>1. log \in Seq(EventRow) /\ log' = Append(log, row)
    BY DEF TypeOK, Admits, Append1
  <1>2. Len(log) \in Nat /\ DOMAIN log = 1 .. Len(log)
    BY <1>1
  <1> HIDE DEF row
  <1>3. Len(log') = Len(log) + 1 /\ DOMAIN log' = 1 .. Len(log) + 1
    BY <1>1, <1>2
  <1>4. log'[Len(log) + 1] = row /\ \A i \in 1 .. Len(log) : log'[i] = log[i]
    BY <1>1, <1>2
  <1> QED
    BY <1>2, <1>3, <1>4 DEF row

LEMMA RowType == ASSUME TypeOK, NEW i \in DOMAIN log PROVE log[i].seq \in Int
  <1>1. log \in Seq(EventRow)
    BY DEF TypeOK
  <1>2. log[i] \in EventRow
    BY <1>1
  <1> QED
    BY <1>2 DEF EventRow

(* The fold refuses a second terminal, and a guarded append that is not ahead *)
(* of every row.                                                              *)
LEMMA FoldAdmits ==
    ASSUME TypeOK, NEW p \in Proc, NEW w, Admits(p, w)
    PROVE  /\ NotSecondTerminal(w)
           /\ w.kind \notin Terminals => \A i \in DOMAIN log : log[i].seq < w.seq
           /\ FenceHolds(p)
  <1>1. GuardHolds(w) /\ FenceHolds(p) /\ NotSecondTerminal(w)
    BY DEF Admits, Fold
  <1>2. ASSUME w.kind \notin Terminals, NEW i \in DOMAIN log PROVE log[i].seq < w.seq
    <2>1. w.expected >= -1 /\ w.seq \in Int
      BY <1>2 DEF Admits
    <2>2. w.expected # Unguarded
      BY <2>1 DEF Unguarded
    <2>3. EndsAt(w.expected) /\ w.seq > w.expected
      BY <1>1, <2>2 DEF GuardHolds
    <2>4. \E j \in DOMAIN log : log[j].seq = w.expected
      BY <2>3, <1>2 DEF EndsAt, TypeOK
    <2>5. log[i].seq <= w.expected
      BY <2>3, <1>2 DEF EndsAt, TypeOK
    <2>6. log[i].seq \in Int /\ w.expected \in Int
      BY <1>2, <2>4, RowType
    <2> QED
      BY <2>1, <2>3, <2>5, <2>6
  <1> QED
    BY <1>1, <1>2

(* The inductive invariant behind the two statements about the log. *)
LogInv == TypeOK /\ Discipline /\ OneTerminal /\ GuardedAppendsInOrder

LEMMA LogInvInit == Init => LogInv
  BY InitInv DEF Init, LogInv, OneTerminal, GuardedAppendsInOrder

LEMMA DisciplineStep == TypeOK /\ Discipline /\ [Next]_vars => Discipline'
  <1> SUFFICES ASSUME TypeOK, Discipline, [Next]_vars PROVE Discipline'
    OBVIOUS
  <1>1. IsHeld(outbox)'
    BY OutboxStep
  <1>2. \A q \in Proc : InFlight(q)' /\ HeldTerminals(q)' /\ Fencing(q)'
    BY InFlightStep, HeldStep, FencingStep
  <1> QED
    BY <1>1, <1>2 DEF Discipline

LEMMA OneTerminalStep == LogInv /\ [Next]_vars => OneTerminal'
  <1> SUFFICES ASSUME LogInv, [Next]_vars PROVE OneTerminal'
    OBVIOUS
  <1>1. CASE log' = log
    BY <1>1 DEF LogInv, OneTerminal
  <1>2. ASSUME NEW p \in Proc, NEW w, Admits(p, w) PROVE OneTerminal'
    <2>1. SUFFICES ASSUME NEW i \in DOMAIN log', NEW j \in DOMAIN log',
                          log'[i].kind \in Terminals, log'[j].kind \in Terminals
                   PROVE  i = j
      BY DEF OneTerminal
    <2>r. /\ DOMAIN log' = 1 .. Len(log) + 1 /\ DOMAIN log = 1 .. Len(log) /\ Len(log) \in Nat
          /\ log'[Len(log) + 1].seq = w.seq /\ log'[Len(log) + 1].kind = w.kind
          /\ \A k \in DOMAIN log : log'[k] = log[k]
      <3>1. TypeOK
        BY DEF LogInv
      <3>2. log'[Len(log) + 1] = [seq |-> w.seq, kind |-> w.kind, by |-> w.by]
        BY <1>2, <3>1, AppendRow
      <3>3. log'[Len(log) + 1].seq = w.seq /\ log'[Len(log) + 1].kind = w.kind
        BY <3>2
      <3> QED
        BY <1>2, <3>1, <3>3, AppendRow
    <2>2. CASE i \in DOMAIN log /\ j \in DOMAIN log
      BY <2>r, <2>1, <2>2 DEF LogInv, OneTerminal
    <2>3. w.kind \in Terminals => \A k \in DOMAIN log : log[k].kind \notin Terminals
      BY <1>2, FoldAdmits DEF LogInv, NotSecondTerminal, HasTerminal
    <2>4. CASE i \notin DOMAIN log \/ j \notin DOMAIN log
      BY <2>r, <2>1, <2>3, <2>4
    <2> QED
      BY <2>2, <2>4
  <1> QED
    BY <1>1, <1>2, LogStep DEF LogInv, LogGrows

LEMMA GuardedStep == LogInv /\ [Next]_vars => GuardedAppendsInOrder'
  <1> SUFFICES ASSUME LogInv, [Next]_vars PROVE GuardedAppendsInOrder'
    OBVIOUS
  <1>1. CASE log' = log
    BY <1>1 DEF LogInv, GuardedAppendsInOrder
  <1>2. ASSUME NEW p \in Proc, NEW w, Admits(p, w) PROVE GuardedAppendsInOrder'
    <2>1. SUFFICES ASSUME NEW i \in DOMAIN log', NEW j \in DOMAIN log',
                          i < j, log'[j].kind \notin Terminals
                   PROVE  log'[i].seq < log'[j].seq
      BY DEF GuardedAppendsInOrder
    <2>r. /\ DOMAIN log' = 1 .. Len(log) + 1 /\ DOMAIN log = 1 .. Len(log) /\ Len(log) \in Nat
          /\ log'[Len(log) + 1].seq = w.seq /\ log'[Len(log) + 1].kind = w.kind
          /\ \A k \in DOMAIN log : log'[k] = log[k]
      <3>1. TypeOK
        BY DEF LogInv
      <3>2. log'[Len(log) + 1] = [seq |-> w.seq, kind |-> w.kind, by |-> w.by]
        BY <1>2, <3>1, AppendRow
      <3>3. log'[Len(log) + 1].seq = w.seq /\ log'[Len(log) + 1].kind = w.kind
        BY <3>2
      <3> QED
        BY <1>2, <3>1, <3>3, AppendRow
    <2>3. i \in DOMAIN log /\ log'[i] = log[i]
      BY <2>1, <2>r
    <2>4. CASE j \in DOMAIN log
      BY <2>r, <2>1, <2>3, <2>4 DEF LogInv, GuardedAppendsInOrder
    <2>5. CASE j = Len(log) + 1
      <3>1. log'[j].seq = w.seq /\ log'[j].kind = w.kind
        BY <2>5, <2>r
      <3>2. w.kind \notin Terminals => \A k \in DOMAIN log : log[k].seq < w.seq
        BY <1>2, FoldAdmits DEF LogInv
      <3> QED
        BY <2>1, <2>3, <3>1, <3>2
    <2> QED
      BY <2>r, <2>4, <2>5
  <1> QED
    BY <1>1, <1>2, LogStep DEF LogInv, LogGrows

LEMMA LogInvariant == Spec => []LogInv
  <1>1. LogInv /\ [Next]_vars => LogInv'
    BY TypeStep, DisciplineStep, OneTerminalStep, GuardedStep DEF LogInv
  <1> QED
    BY LogInvInit, <1>1, PTL DEF Spec

(* The store's rows and every process's variables keep their types. *)
THEOREM TypeCorrect == Spec => []TypeOK
  <1>1. LogInv => TypeOK
    BY DEF LogInv
  <1> QED
    BY LogInvariant, <1>1, PTL

(* Whatever starts, resumes, drains and repairs interleave, and whatever      *)
(* faults, stalls and crashes occur, the fold never commits a second terminal. *)
THEOREM SingleTerminal == Spec => []OneTerminal
  <1>1. LogInv => OneTerminal
    BY DEF LogInv
  <1> QED
    BY LogInvariant, <1>1, PTL

(* The events that are not terminals are an ordered append, across all the    *)
(* processes that ever wrote to the run.                                      *)
THEOREM OrderedAppends == Spec => []GuardedAppendsInOrder
  <1>1. LogInv => GuardedAppendsInOrder
    BY DEF LogInv
  <1> QED
    BY LogInvariant, <1>1, PTL

(* The log is one ordered story with one end. *)
THEOREM OrderedLog == Spec => []LogInOrder
  BY SingleTerminal, OrderedAppends, PTL DEF LogInOrder

(* While a process's claim is the one on record, only it adds to the log, or a *)
(* process that was never granted a claim, whose writes carry no fence; what   *)
(* it adds as a reconciler is the terminal another process left.              *)
THEOREM OwnerWrites == Spec => OwnerWritesAlone
  <1> DEFINE Alone(p) ==
        (HoldsRow(p) /\ Len(log') > Len(log))
            => \/ log'[Len(log')].by = p
               \/ fence[log'[Len(log')].by] = 0
               \/ pc[p] = "draining" /\ pc'[p] = "forget"
  <1>1. ASSUME LogInv, [Next]_vars, NEW p \in Proc PROVE Alone(p)
    <2>1. SUFFICES ASSUME HoldsRow(p), Len(log') > Len(log)
                   PROVE  \/ log'[Len(log')].by = p
                          \/ fence[log'[Len(log')].by] = 0
                          \/ pc[p] = "draining" /\ pc'[p] = "forget"
      OBVIOUS
    <2>2. TypeOK /\ Discipline /\ Len(log) \in Nat
      BY <1>1 DEF LogInv, TypeOK
    <2>3. PICK q \in Proc : LogGrows(q)
      BY <1>1, <2>1, <2>2, LogStep
    <2>4. fence[q] = 0 => pc[q] \notin Claiming
      BY <2>2 DEF Discipline, Fencing
    <2>5. ASSUME NEW w, Admits(q, w)
          PROVE  (q = p \/ fence[q] = 0) /\ log'[Len(log')].by = w.by
      <3>1. FenceHolds(q)
        BY <2>2, <2>5, FoldAdmits
      <3>2. log'[Len(log')] = [seq |-> w.seq, kind |-> w.kind, by |-> w.by]
        BY <2>2, <2>5, AppendRow
      <3> QED
        BY <2>1, <3>1, <3>2 DEF FenceHolds, HoldsRow
    <2>6. CASE write[q].by = q /\ Admits(q, write[q])
      BY <2>5, <2>6
    <2>7. CASE pc[q] = "draining" /\ pc'[q] = "forget" /\ Admits(q, HeldTerminal(q))
      BY <2>4, <2>5, <2>7 DEF Claiming
    <2>8. CASE pc[q] = "repairing" /\ Admits(q, RepairTerminal(q))
      BY <2>4, <2>5, <2>8 DEF Claiming, RepairTerminal
    <2> QED
      BY <2>3, <2>6, <2>7, <2>8 DEF LogGrows
  <1>2. LogInv /\ [Next]_vars => [\A p \in Proc : Alone(p)]_vars
    BY <1>1
  <1> QED
    BY LogInvariant, <1>2, PTL DEF Spec, OwnerWritesAlone

(* The row and the pair that names it, the owner's own variables, and another  *)
(* process that claimed the row when it had run out on its own clock.         *)
SameRow == lease'.owner = lease.owner /\ lease'.gen = lease.gen
Moved(q) == pc'[q] # pc[q] \/ own'[q] # own[q] \/ fence'[q] # fence[q]
TakenOver(q) == \E r \in Proc \ {q} : lease'.owner = r /\ HoldsRow(r)' /\ Expired(r)

(* A row is replaced or deleted only by a step that moves its owner, or by    *)
(* the claim of a process for which it has run out.                           *)
LEMMA LeaseStep ==
    ASSUME LogInv, [Next]_vars, NEW q \in Proc, lease.owner = q
    PROVE  SameRow \/ Moved(q) \/ TakenOver(q)
  <1>q. /\ lease \in LeaseRow /\ pc \in [Proc -> Phase] /\ fence \in [Proc -> Nat]
        /\ own \in [Proc -> {"unclaimed", "held", "parked", "lost", "done"}]
        /\ lease.gen = fence[q]
    BY DEF LogInv, TypeOK, Discipline, Fencing
  <1>a. ASSUME NEW p \in Proc, Acquire(p) PROVE Moved(q) \/ TakenOver(q)
    <2>1. lease'.owner = p /\ HoldsRow(p)'
      BY <1>a, <1>q DEF Acquire, HoldsRow
    <2>2. CASE p = q
      BY <1>a, <1>q, <2>2 DEF Acquire, NextGeneration, LeaseRow, Moved
    <2>3. CASE p # q
      BY <1>a, <2>1, <2>3 DEF Acquire, CanAcquire, TakenOver
    <2> QED
      BY <2>2, <2>3
  <1>s. CASE UNCHANGED vars
    BY <1>s DEF vars, store, SameRow
  <1>t. CASE Tick
    BY <1>t, <1>q DEF Tick, SameRow, LeaseRow
  <1>p. ASSUME NEW p \in Proc, RunStep(p) \/ ResumeStep(p) \/ ReconcileStep(p) \/ Crash(p)
        PROVE  SameRow \/ Moved(q) \/ TakenOver(q)
    <2>1. CASE Begin(p)
      BY <2>1, <1>q DEF Begin, store, SameRow
    <2>2. CASE Claim(p)
      BY <2>2, <1>a, <1>q DEF Claim, SameRow, Moved
    <2>3. CASE Work(p)
      BY <2>3, <1>q DEF Work, store, SameRow
    <2>4. CASE Transient(p)
      BY <2>4, <1>q DEF Transient, store, SameRow
    <2>5. CASE Pause(p)
      BY <2>5, <1>q DEF Pause, store, SameRow
    <2>6. CASE Park(p)
      BY <2>6, <1>q DEF Park, GiveBack, Released, HoldsRow, SameRow, Moved
    <2>7. CASE ResumeGate(p)
      BY <2>7, <1>a, <1>q DEF ResumeGate, Authorize, SameRow, Moved
    <2>8. CASE RunTimeout(p)
      BY <2>8, <1>a, <1>q DEF RunTimeout, Authorize, SameRow, Moved
    <2>9. CASE ReclaimRefused(p)
      BY <2>9, <1>q DEF ReclaimRefused, store, SameRow
    <2>10. CASE Depart(p)
      BY <2>10, <1>q DEF Depart, store, SameRow
    <2>11. CASE Beat(p)
      BY <2>11, <1>q DEF Beat, LoseOwnership, LeaseRow, SameRow
    <2>12. ASSUME NEW kind \in Terminals, Settle(p, kind) PROVE SameRow \/ Moved(q) \/ TakenOver(q)
      BY <2>12, <1>a, <1>q DEF Settle, Authorize, SameRow, Moved
    <2>13. CASE Persisted(p)
      BY <2>13, <1>q DEF Persisted, store, SameRow
    <2>14. CASE Fenced(p)
      BY <2>14, <1>q DEF Fenced, store, SameRow
    <2>15. CASE NotPersisted(p)
      BY <2>15, <1>q DEF NotPersisted, store, SameRow
    <2>16. CASE PutOutbox(p)
      BY <2>16, <1>q DEF PutOutbox, store, SameRow
    <2>17. CASE Receipt(p)
      BY <2>17, <1>q DEF Receipt, store, SameRow
    <2>18. CASE Retire(p)
      BY <2>18, <1>q DEF Retire, GiveBack, Released, HoldsRow, SameRow, Moved
    <2>19. CASE ResumeAcquire(p)
      BY <2>19, <1>a, <1>q
         DEF ResumeAcquire, SameRow, Moved
    <2>20. CASE LoadCheckpoint(p)
      BY <2>20, <1>q DEF LoadCheckpoint, GiveBack, Released, HoldsRow, SameRow, Moved
    <2>21. CASE ConfirmResume(p)
      BY <2>21, <1>q DEF ConfirmResume, LeaseRow, SameRow
    <2>22. CASE ResumeRefused(p)
      BY <2>22, <1>q DEF ResumeRefused, GiveBack, Released, HoldsRow, SameRow, Moved
    <2>23. CASE ReadOutbox(p)
      BY <2>23, <1>q DEF ReadOutbox, store, SameRow
    <2>24. CASE ListInterruptedRuns(p)
      BY <2>24, <1>q DEF ListInterruptedRuns, store, SameRow
    <2>25. CASE Drain(p)
      BY <2>25, <1>a, <1>q DEF Drain, ForgetOutbox, LeavePass, Fault, Spend,
         SameRow, Moved
    <2>26. CASE DrainWrite(p)
      BY <2>26, <1>q DEF DrainWrite, LeavePass, GiveBack, Released, HoldsRow, SameRow, Moved
    <2>27. CASE Forget(p)
      BY <2>27, <1>q DEF Forget, ForgetOutbox, Released, Fault, Spend, HoldsRow, SameRow, Moved
    <2>28. CASE RepairClaim(p)
      BY <2>28, <1>a, <1>q DEF RepairClaim, LeavePass, SameRow, Moved
    <2>29. CASE Recheck(p)
      BY <2>29, <1>q
         DEF Recheck, LeavePass, GiveBack, Released, Fault, Spend, HoldsRow, SameRow, Moved
    <2>30. CASE RepairWrite(p)
      BY <2>30, <1>q DEF RepairWrite, store, SameRow
    <2>31. CASE RepairRelease(p)
      BY <2>31, <1>q DEF RepairRelease, LeavePass, GiveBack, Released, HoldsRow, SameRow, Moved
    <2>32. CASE Crash(p)
      BY <2>32, <1>q DEF Crash, store, SameRow
    <2> QED
      BY <1>p, <2>1, <2>2, <2>3, <2>4, <2>5, <2>6, <2>7, <2>8, <2>9, <2>10, <2>11, <2>12,
         <2>13, <2>14, <2>15, <2>16, <2>17, <2>18, <2>19, <2>20, <2>21, <2>22, <2>23, <2>24,
         <2>25, <2>26, <2>27, <2>28, <2>29, <2>30, <2>31, <2>32
         DEF RunStep, ResumeStep, ReconcileStep
  <1> QED
    BY <1>s, <1>t, <1>p DEF Next

(* No step of another process deletes or retakes a lease that reads as live on *)
(* the clock of whoever takes it.                                             *)
THEOREM LeaseNotStolen == Spec => LiveLeaseNotStolen
  <1> DEFINE Kept(p) ==
        (lease.owner = p /\ ~ (lease'.owner = p /\ lease'.gen = lease.gen))
            => \/ <<pc[p], own[p], fence[p]>>' # <<pc[p], own[p], fence[p]>>
               \/ \E q \in Proc \ {p} : lease'.owner = q /\ HoldsRow(q)' /\ Expired(q)
  <1>1. ASSUME LogInv, [Next]_vars, NEW p \in Proc PROVE Kept(p)
    BY <1>1, LeaseStep DEF SameRow, Moved, TakenOver
  <1>2. LogInv /\ [Next]_vars => [\A p \in Proc : Kept(p)]_vars
    BY <1>1
  <1> QED
    BY LogInvariant, <1>2, PTL DEF Spec, LiveLeaseNotStolen

(* A claim protects the log and the row from every process that has not taken  *)
(* it over, whatever the clocks of the processes say.                         *)
THEOREM OwnershipKept == Spec => OwnershipRespected
  BY OwnerWrites, LeaseNotStolen DEF OwnershipRespected

-----------------------------------------------------------------------------
(* The refinement of RunRecord.  Whoever has closed the run, by its own       *)
(* terminal, by one that was held for it or by a repair, has nothing left to  *)
(* add but receipts; and only such a process adds receipts.                   *)
Spoke(p) == \E i \in DOMAIN log : log[i].kind \in Terminals /\ log[i].by = p

Held(p) ==
    \/ outbox # NoEvent /\ outbox.by = p
    \/ \E q \in Proc : snap[q].held # NoEvent /\ snap[q].held.by = p

Passing ==
    {"none", "loading", "listing", "drain", "draining", "forget", "repair", "rechecking",
     "repairing", "releasing"}

Gone == {"outboxing", "retiring", "closed", "dead"}

LastWord(p) ==
    /\ pc[p] \in Passing \cup {"confirming"} => Quiet(p)
    /\ Held(p) => pc[p] \in Gone
    /\ Spoke(p) => pc[p] \in Gone \cup Passing
    /\ Held(p) \/ Spoke(p) => write[p].kind \in Terminals \cup {"receipt", "none"}
    /\ durability[p] = "durable" \/ write[p].kind = "receipt" => Spoke(p)

(* A terminal is held for a process that was before, or has just put it. *)
LEMMA HeldAlong ==
    ASSUME TypeOK, Discipline, [Next]_vars, NEW q \in Proc, Held(q)'
    PROVE  Held(q) \/ PutOutbox(q)
  <1>q. /\ write \in [Proc -> Write] /\ snap \in [Proc -> Snapshot]
        /\ \A p \in Proc : InFlight(p)
    BY DEF TypeOK, Discipline
  <1>1. CASE outbox' = outbox /\ snap' = snap
    BY <1>1 DEF Held
  <1>2. ASSUME NEW p \in Proc, outbox' \in {outbox, NoEvent}, NEW s \in {NoSnap, [snap[p] EXCEPT !.held = NoEvent], [NoSnap EXCEPT !.held = outbox]},
               snap' = [snap EXCEPT ![p] = s]
        PROVE  Held(q)
    <2>1. s.held \in {NoEvent, outbox}
      BY <1>q, <1>2 DEF NoSnap, Snapshot
    <2>2. \A r \in Proc : snap'[r].held \in {snap[r].held, NoEvent, outbox}
      BY <1>q, <1>2, <2>1
    <2> QED BY <1>2, <2>2 DEF Held
  <1>p. ASSUME NEW p \in Proc, RunStep(p) \/ ResumeStep(p) \/ ReconcileStep(p) \/ Crash(p)
        PROVE  Held(q) \/ PutOutbox(q)
    <2>1. CASE PutOutbox(p)
      <3>1. snap' = snap /\ (outbox' = outbox \/ outbox' = write[p])
        BY <2>1 DEF PutOutbox
      <3>2. write[p] = NoEvent \/ write[p].by = p
        BY <1>q DEF InFlight
      <3> QED BY <2>1, <3>1, <3>2 DEF Held
    <2>2. CASE Begin(p) \/ Claim(p) \/ Work(p) \/ Transient(p) \/ Pause(p) \/ Park(p)
            \/ ResumeGate(p) \/ RunTimeout(p) \/ ReclaimRefused(p) \/ Depart(p) \/ Beat(p)
            \/ (\E kind \in Terminals : Settle(p, kind)) \/ Receipt(p) \/ Retire(p)
            \/ Fenced(p) \/ NotPersisted(p) \/ Persisted(p) \/ ResumeAcquire(p) \/ RepairWrite(p)
      BY <1>1, <2>2 DEF Begin, Claim, Work, Transient, Pause, Park, ResumeGate, RunTimeout,
         ReclaimRefused, Depart, Beat, Settle, Receipt, Retire, Fenced, NotPersisted,
         Persisted, ResumeAcquire, RepairWrite, store
    <2>3. CASE LoadCheckpoint(p)
      <3>1. outbox' = outbox /\ (snap' = snap \/ \E n \in 0 .. MaxSeq : snap' = [snap EXCEPT ![p] = [NoSnap EXCEPT !.last = n]])
        BY <2>3 DEF LoadCheckpoint
      <3>2. \A n \in 0 .. MaxSeq : [NoSnap EXCEPT !.last = n].held = NoEvent
        BY DEF NoSnap
      <3>3. \A r \in Proc : snap'[r].held \in {snap[r].held, NoEvent}
        BY <1>q, <3>1, <3>2
      <3> QED BY <3>1, <3>3 DEF Held
    <2>4. CASE ListInterruptedRuns(p)
      <3>1. outbox' = outbox /\ \A r \in Proc : snap'[r].held = snap[r].held
        BY <1>q, <2>4 DEF ListInterruptedRuns, store, Snapshot
      <3> QED BY <3>1 DEF Held
    <2>5. CASE ConfirmResume(p) \/ ResumeRefused(p) \/ RepairRelease(p) \/ Crash(p) \/ ReadOutbox(p)
      <3>1. outbox' = outbox /\ \E s \in {NoSnap, [NoSnap EXCEPT !.held = outbox]} : snap' = [snap EXCEPT ![p] = s]
        BY <2>5 DEF ConfirmResume, ResumeRefused, RepairRelease, Crash, ReadOutbox, LeavePass, store
      <3> QED BY <1>2, <3>1
    <2>6. CASE Drain(p) \/ DrainWrite(p) \/ Forget(p) \/ RepairClaim(p) \/ Recheck(p)
      <3>1. outbox' \in {outbox, NoEvent} /\ (snap' = snap \/ snap' = [snap EXCEPT ![p] = NoSnap])
        BY <2>6 DEF Drain, DrainWrite, Forget, RepairClaim, Recheck, LeavePass, ForgetOutbox, store
      <3>2. CASE snap' = snap
        BY <3>1, <3>2 DEF Held
      <3> QED BY <1>2, <3>1, <3>2
    <2> QED
      BY <1>p, <2>1, <2>2, <2>3, <2>4, <2>5, <2>6 DEF RunStep, ResumeStep, ReconcileStep
  <1>t. CASE Tick \/ UNCHANGED vars
    BY <1>1, <1>t DEF Tick, vars, store, local
  <1> QED
    BY <1>t, <1>p DEF Next

(* Who is the author of an outcome was so before, or writes it now. *)
LEMMA SpokeAlong ==
    ASSUME TypeOK, Discipline, [Next]_vars, NEW q \in Proc
    PROVE  /\ Spoke(q) => Spoke(q)'
           /\ Spoke(q)' => Spoke(q) \/ Held(q) \/ RepairWrite(q) \/ (Persisted(q) /\ write[q].kind \in Terminals)
           /\ Persisted(q) /\ write[q].kind \in Terminals => Spoke(q)'
  <1>1. CASE log' = log
    <2>1. ~ Persisted(q)
      <3> SUFFICES ASSUME Persisted(q) PROVE FALSE
        OBVIOUS
      <3>1. log \in Seq(EventRow) /\ log' = Append(log, [seq |-> write[q].seq, kind |-> write[q].kind, by |-> write[q].by])
        BY DEF TypeOK, Persisted, Append1
      <3>2. Len(log') = Len(log) + 1 /\ Len(log) \in Nat
        BY <3>1
      <3> QED BY <1>1, <3>2
    <2>2. Spoke(q)' <=> Spoke(q)
      BY <1>1 DEF Spoke
    <2> QED BY <2>1, <2>2
  <1>2. ASSUME NEW p \in Proc, NEW w, Admits(p, w)
        PROVE  Spoke(q)' <=> Spoke(q) \/ (w.kind \in Terminals /\ w.by = q)
    <2>1. /\ DOMAIN log' = DOMAIN log \cup {Len(log) + 1} /\ \A i \in DOMAIN log : log'[i] = log[i]
          /\ log'[Len(log) + 1] = [seq |-> w.seq, kind |-> w.kind, by |-> w.by]
      <3>1. /\ DOMAIN log' = 1 .. Len(log) + 1 /\ DOMAIN log = 1 .. Len(log) /\ Len(log) \in Nat
            /\ \A i \in DOMAIN log : log'[i] = log[i]
            /\ log'[Len(log) + 1] = [seq |-> w.seq, kind |-> w.kind, by |-> w.by]
        BY <1>2, AppendRow
      <3> QED BY <3>1
    <2>2. log'[Len(log) + 1].kind = w.kind /\ log'[Len(log) + 1].by = w.by
      BY <2>1
    <2> QED BY <2>1, <2>2 DEF Spoke
  <1>3. ASSUME NEW p \in Proc, Persisted(p)
        PROVE  Admits(p, write[p]) /\ write[p].by = p
    BY <1>3 DEF Persisted, Admits, TypeOK, Write, Discipline, InFlight, Asking, Quiet
  <1>4. ASSUME NEW p \in Proc, Persisted(p)
        PROVE  Spoke(q)' <=> Spoke(q) \/ (write[p].kind \in Terminals /\ p = q)
    <2>1. Admits(p, write[p]) /\ write[p].by = p
      BY <1>3, <1>4
    <2>2. Spoke(q)' <=> Spoke(q) \/ (write[p].kind \in Terminals /\ write[p].by = q)
      BY <1>2, <2>1
    <2> QED BY <2>1, <2>2
  <1>6. ASSUME NEW p \in Proc, DrainWrite(p), log' # log
        PROVE  Admits(p, HeldTerminal(p)) /\ (HeldTerminal(p).by = q => Held(q))
    <2>1. HeldTerminal(p).seq \in Int /\ HeldTerminal(p).kind \in Terminals /\ HeldTerminal(p).by = snap[p].held.by
      BY <1>6 DEF DrainWrite, HeldTerminal, TypeOK, Snapshot, Write, Discipline, HeldTerminals, IsHeld
    <2>2. Admits(p, HeldTerminal(p))
      BY <1>6, <2>1 DEF DrainWrite, Admits, Kinds
    <2>3. snap[p].held # NoEvent
      BY <1>6 DEF DrainWrite, Discipline, HeldTerminals
    <2> QED BY <2>1, <2>2, <2>3 DEF Held
  <1>7. ASSUME NEW p \in Proc, RepairWrite(p), log' # log
        PROVE  Admits(p, RepairTerminal(p)) /\ RepairTerminal(p).by = p
    <2>1. RepairTerminal(p).seq \in Int /\ RepairTerminal(p).kind \in Terminals /\ RepairTerminal(p).by = p
      BY DEF RepairTerminal, TypeOK, Snapshot, Terminals
    <2> QED BY <1>7, <2>1 DEF RepairWrite, Admits, Kinds
  <1>8. log' = log \/ \E p \in Proc : Persisted(p) \/ DrainWrite(p) \/ RepairWrite(p)
    <2>1. CASE Tick \/ UNCHANGED vars
      BY <2>1 DEF Tick, vars, store
    <2>2. ASSUME NEW p \in Proc, RunStep(p) \/ ResumeStep(p) \/ ReconcileStep(p) \/ Crash(p)
          PROVE  log' = log \/ Persisted(p) \/ DrainWrite(p) \/ RepairWrite(p)
      <3>1. CASE RunStep(p)
        <4>1. CASE Begin(p) \/ Claim(p) \/ Work(p) \/ Transient(p) \/ Pause(p) \/ Park(p) \/ ResumeGate(p)
                   \/ RunTimeout(p) \/ ReclaimRefused(p) \/ Depart(p) \/ Beat(p)
          BY <4>1 DEF Begin, Claim, Work, Transient, Pause, Park, ResumeGate, RunTimeout, ReclaimRefused,
             Depart, Beat, store
        <4>2. CASE (\E kind \in Terminals : Settle(p, kind)) \/ Receipt(p) \/ Retire(p) \/ Fenced(p)
                   \/ NotPersisted(p) \/ PutOutbox(p)
          BY <4>2 DEF Settle, Receipt, Retire, Fenced, NotPersisted, PutOutbox, store
        <4> QED BY <3>1, <4>1, <4>2 DEF RunStep
      <3>2. CASE ResumeStep(p)
        BY <3>2 DEF ResumeStep, ResumeAcquire, LoadCheckpoint, ConfirmResume, ResumeRefused
      <3>3. CASE ReconcileStep(p)
        <4>1. CASE ReadOutbox(p) \/ ListInterruptedRuns(p) \/ Drain(p) \/ Forget(p) \/ RepairClaim(p)
                   \/ Recheck(p) \/ RepairRelease(p)
          BY <4>1 DEF ReadOutbox, ListInterruptedRuns, Drain, Forget, RepairClaim, Recheck, RepairRelease, store
        <4> QED BY <3>3, <4>1 DEF ReconcileStep
      <3>4. CASE Crash(p)
        BY <3>4 DEF Crash, store
      <3> QED BY <2>2, <3>1, <3>2, <3>3, <3>4
    <2> QED BY <2>1, <2>2 DEF Next
  <1>9. ASSUME log' # log, ~ Persisted(q)
        PROVE  (Spoke(q) => Spoke(q)') /\ (Spoke(q)' => Spoke(q) \/ Held(q) \/ RepairWrite(q))
    <2>1. PICK p \in Proc : Persisted(p) \/ DrainWrite(p) \/ RepairWrite(p)
      BY <1>8, <1>9
    <2>2. CASE Persisted(p)
      BY <1>4, <1>9, <2>2
    <2>3. CASE DrainWrite(p)
      <3>1. Admits(p, HeldTerminal(p)) /\ (HeldTerminal(p).by = q => Held(q))
        BY <1>6, <1>9, <2>3
      <3>2. Spoke(q)' <=> Spoke(q) \/ (HeldTerminal(p).kind \in Terminals /\ HeldTerminal(p).by = q)
        BY <1>2, <3>1
      <3> QED BY <3>1, <3>2
    <2>4. CASE RepairWrite(p)
      <3>1. Admits(p, RepairTerminal(p)) /\ RepairTerminal(p).by = p
        BY <1>7, <1>9, <2>4
      <3>2. Spoke(q)' <=> Spoke(q) \/ (RepairTerminal(p).kind \in Terminals /\ RepairTerminal(p).by = q)
        BY <1>2, <3>1
      <3> QED BY <2>4, <3>1, <3>2
    <2> QED BY <2>1, <2>2, <2>3, <2>4
  <1>10. CASE Persisted(q)
    BY <1>4, <1>10
  <1>11. CASE log' # log /\ ~ Persisted(q)
    BY <1>9, <1>11
  <1> QED BY <1>1, <1>10, <1>11

(* The parts of the last word that an event tells apart. *)
LEMMA NoEventKind == NoEvent.kind = "none"
  BY DEF NoEvent

(* Nobody who has had the last word speaks again. *)
LEMMA LastWordStep ==
    TypeOK /\ Discipline /\ (\A p \in Proc : LastWord(p)) /\ [Next]_vars => \A q \in Proc : LastWord(q)'
  <1> SUFFICES ASSUME TypeOK, Discipline, \A p \in Proc : LastWord(p), [Next]_vars, NEW q \in Proc
               PROVE  LastWord(q)'
    OBVIOUS
  <1>q. /\ write \in [Proc -> Write] /\ pc \in [Proc -> Phase]
        /\ durability \in [Proc -> {"none", "durable", "uncertain"}] /\ NoEvent.kind = "none"
        /\ "receipt" \notin Terminals /\ "none" \notin Terminals
    BY NoEventKind DEF TypeOK, Terminals
  <1>w. /\ pc[q] \in {"none", "loading", "listing", "drain", "draining", "forget", "repair", "rechecking", "repairing",
                      "releasing", "confirming"} => write[q] = NoEvent
        /\ Held(q) => pc[q] \in {"outboxing", "retiring", "closed", "dead"}
        /\ Spoke(q) => pc[q] \in {"outboxing", "retiring", "closed", "dead", "none", "loading", "listing", "drain", "draining",
                                 "forget", "repair", "rechecking", "repairing", "releasing"}
        /\ Held(q) \/ Spoke(q) => write[q].kind \in Terminals \cup {"receipt", "none"}
        /\ durability[q] = "durable" \/ write[q].kind = "receipt" => Spoke(q)
    BY DEF LastWord, Quiet, Passing, Gone
  <1>h. Held(q)' => Held(q) \/ (pc[q] = "outboxing" /\ pc'[q] = "retiring" /\ write'[q] = NoEvent)
    BY <1>q, HeldAlong DEF PutOutbox
  <1>s. /\ Spoke(q) => Spoke(q)'
        /\ Spoke(q)' => \/ Spoke(q)
                        \/ Held(q)
                        \/ pc[q] = "repairing" /\ pc'[q] = "releasing" /\ write'[q] = write[q]
                        \/ pc'[q] = "retiring" /\ write'[q] = NoEvent
    BY <1>q, SpokeAlong DEF RepairWrite, Persisted
  <1>e. Spoke(q) => log # <<>> /\ ~ Resumable
    <2>1. Spoke(q) => HasTerminal
      BY DEF Spoke, HasTerminal
    <2>2. Spoke(q) => log # <<>>
      BY DEF Spoke
    <2> QED BY <2>1, <2>2 DEF Resumable
  <1>s1. CASE UNCHANGED vars
    BY <1>s1, <1>q, <1>w, <1>h, <1>s DEF vars, store, local, LastWord, Quiet, Passing, Gone
  <1>t. CASE Tick
    BY <1>t, <1>q, <1>w, <1>h, <1>s DEF Tick, local, LastWord, Quiet, Passing, Gone
  <1>p. ASSUME NEW p \in Proc, RunStep(p) \/ ResumeStep(p) \/ ReconcileStep(p) \/ Crash(p)
        PROVE  LastWord(q)'
    <2>1. CASE Begin(p)
      BY <2>1, <1>q, <1>w, <1>h, <1>s, <1>e
         DEF Begin, Ask, store, LastWord, Quiet, Passing, Gone
    <2>2. CASE Claim(p)
      BY <2>2, <1>q, <1>w, <1>h, <1>s, <1>e
         DEF Claim, Ask, store, LastWord, Quiet, Passing, Gone
    <2>3. CASE Work(p)
      BY <2>3, <1>q, <1>w, <1>h, <1>s, <1>e
         DEF Work, Ask, store, LastWord, Quiet, Passing, Gone
    <2>4. CASE Transient(p)
      BY <2>4, <1>q, <1>w, <1>h, <1>s, <1>e
         DEF Transient, store, LastWord, Quiet, Passing, Gone
    <2>5. CASE Pause(p)
      BY <2>5, <1>q, <1>w, <1>h, <1>s, <1>e
         DEF Pause, Ask, store, LastWord, Quiet, Passing, Gone
    <2>6. CASE Park(p)
      BY <2>6, <1>q, <1>w, <1>h, <1>s, <1>e
         DEF Park, store, LastWord, Quiet, Passing, Gone
    <2>7. CASE ResumeGate(p)
      BY <2>7, <1>q, <1>w, <1>h, <1>s, <1>e
         DEF ResumeGate, Ask, store, LastWord, Quiet, Passing, Gone
    <2>8. CASE RunTimeout(p)
      BY <2>8, <1>q, <1>w, <1>h, <1>s, <1>e
         DEF RunTimeout, Ask, store, LastWord, Quiet, Passing, Gone
    <2>9. CASE ReclaimRefused(p)
      BY <2>9, <1>q, <1>w, <1>h, <1>s, <1>e
         DEF ReclaimRefused, LoseOwnership, store, LastWord, Quiet, Passing, Gone
    <2>10. CASE Depart(p)
      BY <2>10, <1>q, <1>w, <1>h, <1>s, <1>e
         DEF Depart, Discard, store, LastWord, Quiet, Passing, Gone
    <2>11. CASE Beat(p)
      BY <2>11, <1>q, <1>w, <1>h, <1>s, <1>e
         DEF Beat, LoseOwnership, store, LastWord, Quiet, Passing, Gone
    <2>12. ASSUME NEW kind \in Terminals, Settle(p, kind) PROVE LastWord(q)'
      BY <2>12, <1>q, <1>w, <1>h, <1>s, <1>e
         DEF Settle, Ask, store, LastWord, Quiet, Passing, Gone
    <2>13. CASE Persisted(p)
      <3>1. CASE p # q
        BY <2>13, <3>1, <1>q, <1>w, <1>h, <1>s, <1>e
           DEF Persisted, Asking, Quiet, store, LastWord, Passing, Gone
      <3>2. CASE p = q
        <4>1. write[q].kind \in Terminals => Spoke(q)'
          BY <2>13, <3>2, SpokeAlong
        <4> QED
          BY <2>13, <3>2, <4>1, <1>q, <1>w, <1>h, <1>s
             DEF Persisted, Asking, Quiet, store, LastWord, Passing, Gone
      <3> QED BY <3>1, <3>2
    <2>14. CASE Fenced(p)
      BY <2>14, <1>q, <1>w, <1>h, <1>s, <1>e
         DEF Fenced, LoseOwnership, store, Asking, LastWord, Quiet, Passing, Gone
    <2>15. CASE NotPersisted(p)
      BY <2>15, <1>q, <1>w, <1>h, <1>s, <1>e
         DEF NotPersisted, store, LastWord, Quiet, Passing, Gone
    <2>16. CASE PutOutbox(p)
      BY <2>16, <1>q, <1>w, <1>h, <1>s, <1>e
         DEF PutOutbox, store, LastWord, Quiet, Passing, Gone
    <2>17. CASE Receipt(p)
      BY <2>17, <1>q, <1>w, <1>h, <1>s, <1>e
         DEF Receipt, Ask, store, LastWord, Quiet, Passing, Gone
    <2>18. CASE Retire(p)
      BY <2>18, <1>q, <1>w, <1>h, <1>s, <1>e
         DEF Retire, Discard, store, LastWord, Quiet, Passing, Gone
    <2>19. CASE ResumeAcquire(p)
      BY <2>19, <1>q, <1>w, <1>h, <1>s, <1>e
         DEF ResumeAcquire, execution, store, LastWord, Quiet, Passing, Gone
    <2>20. CASE LoadCheckpoint(p)
      BY <2>20, <1>q, <1>w, <1>h, <1>s, <1>e
         DEF LoadCheckpoint, execution, store, LastWord, Quiet, Passing, Gone
    <2>21. CASE ConfirmResume(p)
      BY <2>21, <1>q, <1>w, <1>h, <1>s, <1>e
         DEF ConfirmResume, store, LastWord, Quiet, Passing, Gone
    <2>22. CASE ResumeRefused(p)
      BY <2>22, <1>q, <1>w, <1>h, <1>s, <1>e
         DEF ResumeRefused, execution, store, LastWord, Quiet, Passing, Gone
    <2>23. CASE ReadOutbox(p)
      BY <2>23, <1>q, <1>w, <1>h, <1>s, <1>e
         DEF ReadOutbox, execution, store, LastWord, Quiet, Passing, Gone
    <2>24. CASE ListInterruptedRuns(p)
      BY <2>24, <1>q, <1>w, <1>h, <1>s, <1>e
         DEF ListInterruptedRuns, execution, store, LastWord, Quiet, Passing, Gone
    <2>25. CASE Drain(p)
      BY <2>25, <1>q, <1>w, <1>h, <1>s, <1>e
         DEF Drain, LeavePass, execution, store, LastWord, Quiet, Passing, Gone
    <2>26. CASE DrainWrite(p)
      BY <2>26, <1>q, <1>w, <1>h, <1>s, <1>e
         DEF DrainWrite, LeavePass, execution, store, LastWord, Quiet, Passing, Gone
    <2>27. CASE Forget(p)
      BY <2>27, <1>q, <1>w, <1>h, <1>s, <1>e
         DEF Forget, execution, store, LastWord, Quiet, Passing, Gone
    <2>28. CASE RepairClaim(p)
      BY <2>28, <1>q, <1>w, <1>h, <1>s, <1>e
         DEF RepairClaim, LeavePass, execution, store, LastWord, Quiet, Passing, Gone
    <2>29. CASE Recheck(p)
      BY <2>29, <1>q, <1>w, <1>h, <1>s, <1>e
         DEF Recheck, LeavePass, execution, store, LastWord, Quiet, Passing, Gone
    <2>30. CASE RepairWrite(p)
      BY <2>30, <1>q, <1>w, <1>h, <1>s, <1>e
         DEF RepairWrite, execution, store, LastWord, Quiet, Passing, Gone
    <2>31. CASE RepairRelease(p)
      BY <2>31, <1>q, <1>w, <1>h, <1>s, <1>e
         DEF RepairRelease, LeavePass, execution, store, LastWord, Quiet, Passing, Gone
    <2>32. CASE Crash(p)
      BY <2>32, <1>q, <1>w, <1>h, <1>s, <1>e
         DEF Crash, Discard, store, LastWord, Quiet, Passing, Gone
    <2> QED
      BY <1>p, <2>1, <2>2, <2>3, <2>4, <2>5, <2>6, <2>7, <2>8, <2>9, <2>10, <2>11, <2>12,
         <2>13, <2>14, <2>15, <2>16, <2>17, <2>18, <2>19, <2>20, <2>21, <2>22, <2>23, <2>24,
         <2>25, <2>26, <2>27, <2>28, <2>29, <2>30, <2>31, <2>32
         DEF RunStep, ResumeStep, ReconcileStep
  <1> QED
    BY <1>s1, <1>t, <1>p DEF Next

(* The invariant behind the refinement. *)
RecordInv == LogInv /\ \A p \in Proc : LastWord(p)

(* In every state the log is in order and the last words are kept. *)
LEMMA RecordInvariant == Spec => []RecordInv
  <1>1. Init => RecordInv
    <2>1. Init => \A p \in Proc : LastWord(p)
      BY DEF Init, LastWord, Held, Spoke, Quiet, Passing, Gone, Terminals, NoSnap, NoEvent
    <2> QED BY <2>1, LogInvInit DEF RecordInv
  <1>2. RecordInv /\ [Next]_vars => RecordInv'
    <2>1. RecordInv /\ [Next]_vars => LogInv'
      BY TypeStep, DisciplineStep, OneTerminalStep, GuardedStep DEF RecordInv, LogInv
    <2>2. RecordInv /\ [Next]_vars => (\A p \in Proc : LastWord(p))'
      BY LastWordStep DEF RecordInv, LogInv
    <2> QED BY <2>1, <2>2 DEF RecordInv
  <1> QED BY <1>1, <1>2, PTL DEF Spec

(* A step leaves the log alone, or appends what its author may still say. *)
LEMMA SayStep ==
    ASSUME RecordInv, [Next]_vars, log' # log
    PROVE  \E p \in Proc, w \in Write :
              /\ Admits(p, w) /\ w.by \in Proc
              /\ w.kind = "receipt" => Spoke(w.by)
              /\ w.kind \notin Terminals \cup {"receipt"} => ~ Spoke(w.by)
  <1>1. TypeOK /\ Discipline /\ \A p \in Proc : LastWord(p)
    BY DEF RecordInv, LogInv
  <1>2. PICK p \in Proc : LogGrows(p)
    BY <1>1, LogStep
  <1>3. CASE Asking(p) /\ write[p].by = p /\ Admits(p, write[p])
    <2>1. write[p] \in Write /\ write[p].kind \in Kinds
      BY <1>1, <1>3 DEF TypeOK, Admits
    <2>2. /\ write[p].kind = "receipt" => Spoke(p)
          /\ write[p].kind \notin Terminals \cup {"receipt"} => ~ Spoke(p)
      BY <1>1, <2>1 DEF LastWord, Kinds, Terminals
    <2> QED BY <1>3, <2>1, <2>2
  <1>4. CASE pc[p] = "draining" /\ Admits(p, HeldTerminal(p))
    <2>1. snap[p] \in Snapshot /\ snap[p].held.kind \in Terminals /\ snap[p].held.by \in Proc
      BY <1>1, <1>4 DEF TypeOK, Discipline, HeldTerminals, IsHeld
    <2>2. HeldTerminal(p) \in Write /\ HeldTerminal(p).kind \in Terminals /\ HeldTerminal(p).by \in Proc
      BY <2>1 DEF HeldTerminal, Snapshot, Write
    <2> QED BY <1>4, <2>2 DEF Terminals
  <1>5. CASE pc[p] = "repairing" /\ Admits(p, RepairTerminal(p))
    <2>1. snap[p] \in Snapshot
      BY <1>1 DEF TypeOK
    <2>2. RepairTerminal(p) \in Write /\ RepairTerminal(p).kind \in Terminals /\ RepairTerminal(p).by \in Proc
      BY <2>1 DEF RepairTerminal, Snapshot, Write, Kinds, Terminals
    <2> QED BY <1>5, <2>2 DEF Terminals
  <1> QED BY <1>2, <1>3, <1>4, <1>5 DEF LogGrows

(* The entries follow the rows. *)
LEMMA EntriesAppended ==
    ASSUME TypeOK, NEW p \in Proc, NEW w, Admits(p, w)
    PROVE  RecordRows' = Append(RecordRows, Entry(w))
  <1>1. /\ DOMAIN log' = 1 .. Len(log) + 1 /\ DOMAIN log = 1 .. Len(log) /\ Len(log) \in Nat
        /\ \A i \in DOMAIN log : log'[i] = log[i]
        /\ log'[Len(log) + 1] = [seq |-> w.seq, kind |-> w.kind, by |-> w.by]
    BY AppendRow
  <1>2. Entry([seq |-> w.seq, kind |-> w.kind, by |-> w.by]) = Entry(w)
    BY DEF Entry
  <1> DEFINE E(i) == Entry(log[i])
             F(i) == Entry(log'[i])
  <1>3. RecordRows = [i \in 1 .. Len(log) |-> E(i)] /\ RecordRows' = [i \in 1 .. Len(log) + 1 |-> F(i)]
    BY <1>1 DEF RecordRows
  <1>4. /\ \A i \in 1 .. Len(log) : F(i) = E(i)
        /\ F(Len(log) + 1) = Entry(w)
    BY <1>1, <1>2
  <1> HIDE DEF E, F
  <1>5. PICK n \in Nat : n = Len(log)
    BY <1>1
  <1>6. [i \in 1 .. n + 1 |-> F(i)] = Append([i \in 1 .. n |-> E(i)], Entry(w))
    <2> DEFINE g == [i \in 1 .. n |-> E(i)]
               S == {E(i) : i \in 1 .. n} \cup {Entry(w)}
               h == Append(g, Entry(w))
    <2>1. g \in Seq(S) /\ Len(g) = n
      <3>1. g \in [1 .. n -> S]
        OBVIOUS
      <3> QED BY <3>1
    <2>2. /\ h \in Seq(S) /\ Len(h) = n + 1 /\ h[n + 1] = Entry(w)
          /\ \A i \in 1 .. n : h[i] = g[i]
      <3>1. Entry(w) \in S
        OBVIOUS
      <3> HIDE DEF g, S
      <3>2. /\ h \in Seq(S) /\ Len(h) = Len(g) + 1 /\ h[Len(g) + 1] = Entry(w)
            /\ \A i \in 1 .. Len(g) : h[i] = g[i]
        BY <2>1, <3>1, AppendProperties
      <3> QED BY <2>1, <3>2
    <2>3. \A i \in 1 .. n : g[i] = F(i)
      BY <1>4, <1>5
    <2>4. \A i \in 1 .. n + 1 : h[i] = F(i)
      BY <1>4, <1>5, <2>2, <2>3
    <2>5. h = [i \in 1 .. n + 1 |-> h[i]]
      BY <2>2
    <2>6. [i \in 1 .. n + 1 |-> h[i]] = [i \in 1 .. n + 1 |-> F(i)]
      <3> HIDE DEF h
      <3> QED BY <2>4
    <2> QED BY <2>5, <2>6
  <1> QED BY <1>3, <1>5, <1>6

(* What is closed, and by whom, is the same in the log and in the record. *)
LEMMA SameClosed ==
    ASSUME TypeOK
    PROVE  /\ Record!Closed <=> HasTerminal
           /\ \A p \in Proc : Record!ClosedBy(p) <=> Spoke(p)
           /\ RecordRows = <<>> <=> log = <<>>
  <1>1. \A i \in DOMAIN log : /\ RecordRows[i].by = log[i].by
                              /\ RecordRows[i].what \in Terminals <=> log[i].kind \in Terminals
    BY DEF RecordRows, Entry, Terminals
  <1>2. DOMAIN RecordRows = DOMAIN log
    BY DEF RecordRows
  <1>3. RecordRows = <<>> <=> log = <<>>
    <2>1. log \in Seq(EventRow)
      BY DEF TypeOK
    <2>2. log = <<>> <=> DOMAIN log = {}
      BY <2>1
    <2>3. RecordRows = <<>> <=> DOMAIN RecordRows = {}
      BY DEF RecordRows
    <2> QED BY <1>2, <2>2, <2>3
  <1> QED BY <1>1, <1>2, <1>3 DEF Record!Closed, Record!ClosedBy, Record!Closing, HasTerminal, Spoke

(* Every step of the processes is a step of the record, or none. *)
LEMMA RecordStep == RecordInv /\ [Next]_vars => [Record!Next]_RecordRows
  <1> SUFFICES ASSUME RecordInv, [Next]_vars, RecordRows' # RecordRows PROVE Record!Next
    OBVIOUS
  <1>g. RecordRows' # RecordRows
    OBVIOUS
  <1>1. TypeOK
    BY DEF RecordInv, LogInv
  <1>2. CASE log' = log
    BY <1>2, <1>g DEF RecordRows
  <1>3. CASE log' # log
    <2>1. PICK p \in Proc, w \in Write :
              /\ Admits(p, w) /\ w.by \in Proc
              /\ w.kind = "receipt" => Spoke(w.by)
              /\ w.kind \notin Terminals \cup {"receipt"} => ~ Spoke(w.by)
      BY <1>3, SayStep
    <2>2. RecordRows' = Append(RecordRows, Entry(w))
      BY <1>1, <2>1, EntriesAppended
    <2>3. NotSecondTerminal(w) /\ (w.kind = "started" <=> log = <<>>) /\ w.kind \in Kinds
      BY <2>1 DEF Admits, Fold, RowIsNew
    <2>4. CASE w.kind \in Terminals
      <3>1. ~ HasTerminal /\ log # <<>> /\ Entry(w) = [by |-> w.by, what |-> w.kind]
        BY <2>3, <2>4 DEF NotSecondTerminal, Entry, Terminals
      <3>2. Record!Close(w.by, w.kind)
        BY <1>1, <2>2, <3>1, SameClosed DEF Record!Close, Record!Add
      <3> QED BY <2>1, <2>4, <3>2, <1>g DEF Record!Next
    <2>5. CASE w.kind = "receipt"
      <3>1. Entry(w) = [by |-> w.by, what |-> "receipt"]
        BY <2>5 DEF Entry
      <3>2. Record!Receipt(w.by)
        BY <1>1, <2>1, <2>2, <2>5, <3>1, SameClosed DEF Record!Receipt, Record!Add
      <3> QED BY <2>1, <3>2, <1>g DEF Record!Next
    <2>6. CASE w.kind = "started"
      <3>1. log = <<>> /\ Entry(w) = [by |-> w.by, what |-> "opened"]
        BY <2>3, <2>6 DEF Entry, Terminals
      <3>2. Record!Open(w.by)
        BY <1>1, <2>2, <3>1, SameClosed DEF Record!Open, Record!Add
      <3> QED BY <2>1, <3>2, <1>g DEF Record!Next
    <2>7. CASE w.kind \notin Terminals \cup {"receipt", "started"}
      <3>1. log # <<>> /\ ~ Spoke(w.by) /\ Entry(w) = [by |-> w.by, what |-> "progress"]
        BY <2>1, <2>3, <2>7 DEF Entry
      <3>2. Record!Advance(w.by)
        BY <1>1, <2>1, <2>2, <3>1, SameClosed DEF Record!Advance, Record!Add
      <3> QED BY <2>1, <3>2, <1>g DEF Record!Next
    <2> QED BY <2>4, <2>5, <2>6, <2>7
  <1> QED BY <1>2, <1>3

(* The runs, leases, fences, outbox and reconcilers implement RunRecord, for  *)
(* any number of processes, faults, stalls and crashes: a run is opened once, *)
(* closed once, and who closed it adds only receipts.                         *)
THEOREM RecordImplemented == Spec => ImplementsRecord
  <1>1. Init => Record!Init
    BY DEF Init, Record!Init, RecordRows
  <1> QED BY <1>1, RecordStep, RecordInvariant, PTL DEF Spec, ImplementsRecord, Record!Spec

-----------------------------------------------------------------------------
(* Repairs: who may be overtaken by one.                                      *)

(* Where no execution holds a claim: before the first one, and in a pass of   *)
(* resume or reconcile, which claims the row for itself.                      *)
Unclaiming == Passing \cup {"starting", "confirming"}

(* Where a process stands tells what claim it may have.  A terminal is asked  *)
(* for under a claim or without one, never under a parked one, and nothing by *)
(* a dead process.                                                            *)
Standing(p) ==
    /\ pc[p] \in Unclaiming => own[p] = "unclaimed"
    /\ pc[p] = "closed" => own[p] # "held"
    /\ write[p].kind \in Terminals => own[p] \in {"held", "unclaimed", "lost"}
    /\ pc[p] = "dead" => Quiet(p)

(* The lease has not run out, and the run is younger than a lease, on any clock. *)
Unexpired == \A r \in Proc : ~ Expired(r)
Young     == \A r \in Proc : age + Ahead[r] < TTL

(* As long as nobody stalled, and the clocks agree, a claim that is held is    *)
(* the one the row records and has not run out, a run whose owner is about to  *)
(* claim it is young, and no clock sees it begin a lease or more ahead.       *)
Kept(p) ==
    /\ own[p] = "held" /\ pc[p] # "dead" => HoldsRow(p) /\ Unexpired
    /\ pc[p] = "starting" => Young
    /\ - TTL < age + Ahead[p]

(* Under the same premise a repair under way is of a run older than a lease;  *)
(* and, while its claim stands, nothing a claimant left is in the outbox.     *)
Repairing(q) ==
    /\ Calm /\ pc[q] \in {"rechecking", "repairing"} => age + Ahead[q] >= TTL
    /\ Calm /\ pc[q] = "repairing" /\ HoldsRow(q) =>
           outbox = NoEvent \/ own[outbox.by] \in {"lost", "unclaimed"}

(* The inductive invariant, together with RecordInv.                          *)
RepairInv ==
    \A p \in Proc : Standing(p) /\ (Calm => Kept(p)) /\ Repairing(p)

(* Every step keeps the claim a phase goes with. *)
LEMMA StandingStep ==
    ASSUME TypeOK, [Next]_vars, NEW q \in Proc, Standing(q)
    PROVE  Standing(q)'
  <1>q. /\ pc \in [Proc -> Phase] /\ own \in [Proc -> {"unclaimed", "held", "parked", "lost", "done"}]
        /\ write \in [Proc -> Write] /\ NoEvent.kind = "none"
        /\ \A kind \in {"none", "work", "paused", "resumed", "receipt", "started"} : kind \notin Terminals
    BY NoEventKind DEF TypeOK, Terminals
  <1>s. CASE UNCHANGED vars
    BY <1>s, <1>q DEF vars, store, local, Standing, Quiet, Unclaiming, Passing
  <1>t. CASE Tick
    BY <1>t, <1>q DEF Tick, local, Standing, Quiet, Unclaiming, Passing
  <1>p. ASSUME NEW p \in Proc, RunStep(p) \/ ResumeStep(p) \/ ReconcileStep(p) \/ Crash(p)
        PROVE  Standing(q)'
    <2>1. CASE Begin(p)
      BY <2>1, <1>q
         DEF Begin, Ask, execution, store, Standing, Quiet, Unclaiming, Passing
    <2>2. CASE Claim(p)
      BY <2>2, <1>q
         DEF Claim, Ask, execution, store, Standing, Quiet, Unclaiming, Passing
    <2>3. CASE Work(p)
      BY <2>3, <1>q
         DEF Work, Ask, execution, store, Standing, Quiet, Unclaiming, Passing
    <2>4. CASE Transient(p)
      BY <2>4, <1>q
         DEF Transient, execution, store, Standing, Quiet, Unclaiming, Passing
    <2>5. CASE Pause(p)
      BY <2>5, <1>q
         DEF Pause, Ask, execution, store, Standing, Quiet, Unclaiming, Passing
    <2>6. CASE Park(p)
      BY <2>6, <1>q
         DEF Park, execution, store, Standing, Quiet, Unclaiming, Passing
    <2>7. CASE ResumeGate(p)
      BY <2>7, <1>q
         DEF ResumeGate, Ask, Authorize, execution, store, Standing, Quiet, Unclaiming, Passing
    <2>8. CASE RunTimeout(p)
      BY <2>8, <1>q
         DEF RunTimeout, Ask, Authorize, execution, store, Standing, Quiet, Unclaiming, Passing
    <2>9. CASE ReclaimRefused(p)
      BY <2>9, <1>q
         DEF ReclaimRefused, LoseOwnership, execution, store, Standing, Quiet, Unclaiming, Passing
    <2>10. CASE Depart(p)
      BY <2>10, <1>q
         DEF Depart, execution, store, Standing, Quiet, Unclaiming, Passing
    <2>11. CASE Beat(p)
      BY <2>11, <1>q
         DEF Beat, LoseOwnership, execution, store, Standing, Quiet, Unclaiming, Passing
    <2>12. ASSUME NEW kind \in Terminals, Settle(p, kind) PROVE Standing(q)'
      BY <2>12, <1>q
         DEF Settle, Ask, Authorize, execution, store, Standing, Quiet, Unclaiming, Passing
    <2>13. CASE Persisted(p)
      BY <2>13, <1>q
         DEF Persisted, Asking, execution, store, Standing, Quiet, Unclaiming, Passing
    <2>14. CASE Fenced(p)
      BY <2>14, <1>q
         DEF Fenced, LoseOwnership, Asking, execution, store, Standing, Quiet, Unclaiming, Passing
    <2>15. CASE NotPersisted(p)
      BY <2>15, <1>q
         DEF NotPersisted, Asking, execution, store, Standing, Quiet, Unclaiming, Passing
    <2>16. CASE PutOutbox(p)
      BY <2>16, <1>q
         DEF PutOutbox, execution, store, Standing, Quiet, Unclaiming, Passing
    <2>17. CASE Receipt(p)
      BY <2>17, <1>q
         DEF Receipt, Ask, execution, store, Standing, Quiet, Unclaiming, Passing
    <2>18. CASE Retire(p)
      BY <2>18, <1>q
         DEF Retire, execution, store, Standing, Quiet, Unclaiming, Passing
    <2>19. CASE ResumeAcquire(p)
      BY <2>19, <1>q
         DEF ResumeAcquire, execution, store, Standing, Quiet, Unclaiming, Passing
    <2>20. CASE LoadCheckpoint(p)
      BY <2>20, <1>q
         DEF LoadCheckpoint, execution, store, Standing, Quiet, Unclaiming, Passing
    <2>21. CASE ConfirmResume(p)
      BY <2>21, <1>q
         DEF ConfirmResume, execution, store, Standing, Quiet, Unclaiming, Passing
    <2>22. CASE ResumeRefused(p)
      BY <2>22, <1>q
         DEF ResumeRefused, execution, store, Standing, Quiet, Unclaiming, Passing
    <2>23. CASE ReadOutbox(p)
      BY <2>23, <1>q
         DEF ReadOutbox, execution, store, Standing, Quiet, Unclaiming, Passing
    <2>24. CASE ListInterruptedRuns(p)
      BY <2>24, <1>q
         DEF ListInterruptedRuns, execution, store, Standing, Quiet, Unclaiming, Passing
    <2>25. CASE Drain(p)
      BY <2>25, <1>q
         DEF Drain, LeavePass, execution, store, Standing, Quiet, Unclaiming, Passing
    <2>26. CASE DrainWrite(p)
      BY <2>26, <1>q
         DEF DrainWrite, LeavePass, execution, store, Standing, Quiet, Unclaiming, Passing
    <2>27. CASE Forget(p)
      BY <2>27, <1>q
         DEF Forget, execution, store, Standing, Quiet, Unclaiming, Passing
    <2>28. CASE RepairClaim(p)
      BY <2>28, <1>q
         DEF RepairClaim, LeavePass, execution, store, Standing, Quiet, Unclaiming, Passing
    <2>29. CASE Recheck(p)
      BY <2>29, <1>q
         DEF Recheck, LeavePass, execution, store, Standing, Quiet, Unclaiming, Passing
    <2>30. CASE RepairWrite(p)
      BY <2>30, <1>q
         DEF RepairWrite, execution, store, Standing, Quiet, Unclaiming, Passing
    <2>31. CASE RepairRelease(p)
      BY <2>31, <1>q
         DEF RepairRelease, LeavePass, execution, store, Standing, Quiet, Unclaiming, Passing
    <2>32. CASE Crash(p)
      BY <2>32, <1>q
         DEF Crash, execution, store, Standing, Quiet, Unclaiming, Passing
    <2> QED
      BY <1>p, <2>1, <2>2, <2>3, <2>4, <2>5, <2>6, <2>7, <2>8, <2>9, <2>10, <2>11, <2>12, <2>13,
         <2>14, <2>15, <2>16, <2>17, <2>18, <2>19, <2>20, <2>21, <2>22, <2>23, <2>24, <2>25, <2>26,
         <2>27, <2>28, <2>29, <2>30, <2>31, <2>32
         DEF RunStep, ResumeStep, ReconcileStep
  <1> QED
    BY <1>s, <1>t, <1>p DEF Next

(* Stalls are not undone. *)
LEMMA CalmAlong ==
    ASSUME TypeOK, [Next]_vars, Calm'
    PROVE  Calm
  <1> SUFFICES spent.stalls = 0
    BY DEF Calm, ClocksAgree
  <1>q. spent \in [Bounds -> Nat] /\ spent'.stalls = 0
    BY DEF TypeOK, Calm
  <1>s. CASE UNCHANGED vars
    BY <1>s, <1>q DEF vars, store, local, Bounds
  <1>t. CASE Tick
    BY <1>t, <1>q DEF Tick, local, Spend, Bounds
  <1>p. ASSUME NEW p \in Proc, RunStep(p) \/ ResumeStep(p) \/ ReconcileStep(p) \/ Crash(p)
        PROVE  spent.stalls = 0
    <2>1. CASE Begin(p)
      BY <2>1, <1>q
         DEF Begin, execution, store, Bounds
    <2>2. CASE Claim(p)
      BY <2>2, <1>q
         DEF Claim, Fault, Spend, execution, store, Bounds
    <2>3. CASE Work(p)
      BY <2>3, <1>q
         DEF Work, execution, store, Bounds
    <2>4. CASE Transient(p)
      BY <2>4, <1>q
         DEF Transient, Spend, execution, store, Bounds
    <2>5. CASE Pause(p)
      BY <2>5, <1>q
         DEF Pause, execution, store, Bounds
    <2>6. CASE Park(p)
      BY <2>6, <1>q
         DEF Park, GiveBack, Fault, Spend, execution, store, Bounds
    <2>7. CASE ResumeGate(p)
      BY <2>7, <1>q
         DEF ResumeGate, execution, store, Bounds
    <2>8. CASE RunTimeout(p)
      BY <2>8, <1>q
         DEF RunTimeout, execution, store, Bounds
    <2>9. CASE ReclaimRefused(p)
      BY <2>9, <1>q
         DEF ReclaimRefused, Fault, Spend, execution, store, Bounds
    <2>10. CASE Depart(p)
      BY <2>10, <1>q
         DEF Depart, execution, store, Bounds
    <2>11. CASE Beat(p)
      BY <2>11, <1>q
         DEF Beat, Fault, Spend, execution, store, Bounds
    <2>12. ASSUME NEW kind \in Terminals, Settle(p, kind) PROVE spent.stalls = 0
      BY <2>12, <1>q
         DEF Settle, execution, store, Bounds
    <2>13. CASE Persisted(p)
      BY <2>13, <1>q
         DEF Persisted, execution, store, Bounds
    <2>14. CASE Fenced(p)
      BY <2>14, <1>q
         DEF Fenced, execution, store, Bounds
    <2>15. CASE NotPersisted(p)
      BY <2>15, <1>q
         DEF NotPersisted, Fault, Spend, execution, store, Bounds
    <2>16. CASE PutOutbox(p)
      BY <2>16, <1>q
         DEF PutOutbox, Fault, Spend, execution, store, Bounds
    <2>17. CASE Receipt(p)
      BY <2>17, <1>q
         DEF Receipt, execution, store, Bounds
    <2>18. CASE Retire(p)
      BY <2>18, <1>q
         DEF Retire, GiveBack, Fault, Spend, execution, store, Bounds
    <2>19. CASE ResumeAcquire(p)
      BY <2>19, <1>q
         DEF ResumeAcquire, execution, store, Bounds
    <2>20. CASE LoadCheckpoint(p)
      BY <2>20, <1>q
         DEF LoadCheckpoint, GiveBack, Fault, Spend, execution, store, Bounds
    <2>21. CASE ConfirmResume(p)
      BY <2>21, <1>q
         DEF ConfirmResume, execution, store, Bounds
    <2>22. CASE ResumeRefused(p)
      BY <2>22, <1>q
         DEF ResumeRefused, GiveBack, Fault, Spend, execution, store, Bounds
    <2>23. CASE ReadOutbox(p)
      BY <2>23, <1>q
         DEF ReadOutbox, execution, store, Bounds
    <2>24. CASE ListInterruptedRuns(p)
      BY <2>24, <1>q
         DEF ListInterruptedRuns, execution, store, Bounds
    <2>25. CASE Drain(p)
      BY <2>25, <1>q
         DEF Drain, ForgetOutbox, Fault, Spend, execution, store, Bounds
    <2>26. CASE DrainWrite(p)
      BY <2>26, <1>q
         DEF DrainWrite, GiveBack, Fault, Spend, execution, store, Bounds
    <2>27. CASE Forget(p)
      BY <2>27, <1>q
         DEF Forget, ForgetOutbox, Fault, Spend, execution, store, Bounds
    <2>28. CASE RepairClaim(p)
      BY <2>28, <1>q
         DEF RepairClaim, execution, store, Bounds
    <2>29. CASE Recheck(p)
      BY <2>29, <1>q
         DEF Recheck, GiveBack, Fault, Spend, execution, store, Bounds
    <2>30. CASE RepairWrite(p)
      BY <2>30, <1>q
         DEF RepairWrite, Fault, Spend, execution, store, Bounds
    <2>31. CASE RepairRelease(p)
      BY <2>31, <1>q
         DEF RepairRelease, GiveBack, Fault, Spend, execution, store, Bounds
    <2>32. CASE Crash(p)
      BY <2>32, <1>q
         DEF Crash, Spend, execution, store, Bounds
    <2> QED
      BY <1>p, <2>1, <2>2, <2>3, <2>4, <2>5, <2>6, <2>7, <2>8, <2>9, <2>10, <2>11, <2>12, <2>13,
         <2>14, <2>15, <2>16, <2>17, <2>18, <2>19, <2>20, <2>21, <2>22, <2>23, <2>24, <2>25, <2>26,
         <2>27, <2>28, <2>29, <2>30, <2>31, <2>32
         DEF RunStep, ResumeStep, ReconcileStep
  <1> QED
    BY <1>s, <1>t, <1>p DEF Next

(* A claim that is held stays on record. *)
LEMMA KeptStep ==
    ASSUME TypeOK, Discipline, [Next]_vars, NEW q \in Proc, Standing(q), Kept(q), Calm, Calm'
    PROVE  Kept(q)'
  <1>q. /\ pc \in [Proc -> Phase] /\ own \in [Proc -> {"unclaimed", "held", "parked", "lost", "done"}]
        /\ spent \in [Bounds -> Nat] /\ fence \in [Proc -> Nat] /\ lease \in LeaseRow /\ age \in Int
        /\ TTL \in Nat \ {0} /\ Fencing(q) /\ NoProc \notin Proc /\ Ahead \in [Proc -> Nat]
        /\ \A p, r \in Proc : Ahead[p] < TTL + Ahead[r]
    BY OwnershipConstants DEF TypeOK, Discipline, Calm, ClocksAgree
  <1>u. lease' = lease => Unexpired' = Unexpired
    BY DEF Unexpired, Expired
  <1>l. ASSUME NEW p \in Proc, lease'.ttl = Life(p) PROVE Unexpired'
    BY <1>l, <1>q DEF Life, Unexpired, Expired
  <1>y. age' = age => Young' = Young
    BY DEF Young
  <1>a. ASSUME NEW p \in Proc, Acquire(p)
        PROVE  /\ HoldsRow(p)' /\ Unexpired' /\ fence' = [fence EXCEPT ![p] = fence'[p]]
               /\ p # q => ~ (HoldsRow(q) /\ Unexpired)
    <2>1. HoldsRow(p)' /\ lease'.ttl = Life(p) /\ fence' = [fence EXCEPT ![p] = fence'[p]]
      BY <1>a, <1>q DEF Acquire, HoldsRow
    <2>2. p # q => ~ (HoldsRow(q) /\ Unexpired)
      BY <1>a DEF Acquire, CanAcquire, HoldsRow, Unexpired
    <2> QED BY <1>l, <2>1, <2>2
  <1>s. CASE UNCHANGED vars
    BY <1>s, <1>q, <1>u, <1>y DEF vars, store, local, HoldsRow, Kept, Standing, Quiet, Unclaiming, Passing
  <1>t. CASE Tick
    <2>1. ~ Stalling
      BY <1>t, <1>q DEF Tick, Spend, Calm, Bounds
    <2>2. /\ lease'.owner = lease.owner /\ lease'.gen = lease.gen
          /\ lease.ttl > 0 => lease'.ttl = lease.ttl - 1
          /\ age' = age \/ age' = age + 1
      BY <1>t, <1>q DEF Tick, LeaseRow
    <2>3. UNCHANGED <<pc, own, fence>>
      BY <1>t DEF Tick, local
    <2>4. \A r \in Proc : /\ Using(q) => lease.ttl # Ahead[r] + 1
                          /\ pc[q] = "starting" => age + Ahead[r] # TTL - 1
      BY <2>1 DEF Stalling
    <2>5. own[q] = "held" /\ pc[q] # "dead" => Using(q) /\ HoldsRow(q) /\ Unexpired
      BY DEF Using, Kept
    <2>6. own[q] = "held" /\ pc[q] # "dead" => HoldsRow(q)' /\ Unexpired'
      <3> SUFFICES ASSUME own[q] = "held", pc[q] # "dead" PROVE HoldsRow(q)' /\ Unexpired'
        OBVIOUS
      <3>1. HoldsRow(q)'
        BY <2>2, <2>3, <2>5 DEF HoldsRow
      <3>2. \A r \in Proc : lease.ttl > Ahead[r] /\ lease.ttl # Ahead[r] + 1
        BY <1>q, <2>4, <2>5 DEF Unexpired, Expired, LeaseRow
      <3>3. Unexpired'
        BY <1>q, <2>2, <3>2 DEF Unexpired, Expired, LeaseRow
      <3> QED BY <3>1, <3>3
    <2>7. pc[q] = "starting" => Young'
      BY <1>q, <2>2, <2>4 DEF Kept, Young
    <2>8. - TTL < age' + Ahead[q]
      BY <1>q, <2>2 DEF Kept
    <2> QED BY <2>3, <2>6, <2>7, <2>8 DEF Kept
  <1>p. ASSUME NEW p \in Proc, RunStep(p) \/ ResumeStep(p) \/ ReconcileStep(p) \/ Crash(p)
        PROVE  Kept(q)'
    <2>1. CASE Begin(p)
      <3>1. Young' /\ - TTL < age' + Ahead[q]
        BY <2>1, <1>q DEF Begin, Young
      <3> QED BY <2>1, <3>1, <1>q, <1>u
         DEF Begin, Ask, execution, store, HoldsRow, Kept, Standing, Quiet, Unclaiming, Passing
    <2>2. CASE Claim(p)
      BY <2>2, <1>q, <1>u, <1>y, <1>a
         DEF Claim, Ask, execution, store, HoldsRow, Kept, Standing,
         Quiet, Unclaiming, Passing
    <2>3. CASE Work(p)
      BY <2>3, <1>q, <1>u, <1>y
         DEF Work, Ask, execution, store, HoldsRow, Kept, Standing, Quiet, Unclaiming, Passing
    <2>4. CASE Transient(p)
      BY <2>4, <1>q, <1>u, <1>y
         DEF Transient, execution, store, HoldsRow, Kept, Standing, Quiet, Unclaiming, Passing
    <2>5. CASE Pause(p)
      BY <2>5, <1>q, <1>u, <1>y
         DEF Pause, Ask, execution, store, HoldsRow, Kept, Standing, Quiet, Unclaiming, Passing
    <2>6. CASE Park(p)
      BY <2>6, <1>q, <1>u, <1>y
         DEF Park, GiveBack, Released, NoLease, execution, store, HoldsRow, Kept, Standing, Quiet,
         Unclaiming, Passing
    <2>7. CASE ResumeGate(p)
      BY <2>7, <1>q, <1>u, <1>y, <1>a
         DEF ResumeGate, Ask, Authorize, execution, store, HoldsRow,
         Kept, Standing, Quiet, Unclaiming, Passing
    <2>8. CASE RunTimeout(p)
      BY <2>8, <1>q, <1>u, <1>y, <1>a
         DEF RunTimeout, Ask, Authorize, execution, store, HoldsRow,
         Kept, Standing, Quiet, Unclaiming, Passing
    <2>9. CASE ReclaimRefused(p)
      BY <2>9, <1>q, <1>u, <1>y
         DEF ReclaimRefused, LoseOwnership, execution, store, HoldsRow, Kept, Standing, Quiet,
         Unclaiming, Passing
    <2>10. CASE Depart(p)
      BY <2>10, <1>q, <1>u, <1>y
         DEF Depart, execution, store, HoldsRow, Kept, Standing, Quiet, Unclaiming, Passing
    <2>11. CASE Beat(p)
      <3>1. /\ own' = own \/ own' = [own EXCEPT ![p] = "lost"]
            /\ lease' = lease \/ (HoldsRow(p) /\ lease' = [lease EXCEPT !.ttl = Life(p)])
            /\ UNCHANGED <<age, fence>>
            /\ pc' = pc \/ pc' = [pc EXCEPT ![p] = IF pc[p] = "outboxing" THEN pc[p] ELSE "retiring"]
            /\ pc[p] # "dead"
        BY <2>11 DEF Beat, LoseOwnership
      <3>2. lease' = [lease EXCEPT !.ttl = Life(p)] => Unexpired'
        BY <1>q, <1>l DEF LeaseRow
      <3> QED BY <1>q, <1>u, <1>y, <3>1, <3>2 DEF HoldsRow, Kept, Standing, LeaseRow
    <2>12. ASSUME NEW kind \in Terminals, Settle(p, kind) PROVE Kept(q)'
      BY <2>12, <1>q, <1>u, <1>y, <1>a
         DEF Settle, Ask, Authorize, execution, store, HoldsRow,
         Kept, Standing, Quiet, Unclaiming, Passing
    <2>13. CASE Persisted(p)
      BY <2>13, <1>q, <1>u, <1>y
         DEF Persisted, Asking, execution, store, HoldsRow, Kept, Standing, Quiet, Unclaiming, Passing
    <2>14. CASE Fenced(p)
      BY <2>14, <1>q, <1>u, <1>y
         DEF Fenced, LoseOwnership, Asking, execution, store, HoldsRow, Kept, Standing, Quiet,
         Unclaiming, Passing
    <2>15. CASE NotPersisted(p)
      BY <2>15, <1>q, <1>u, <1>y
         DEF NotPersisted, Asking, execution, store, HoldsRow, Kept, Standing, Quiet, Unclaiming, Passing
    <2>16. CASE PutOutbox(p)
      BY <2>16, <1>q, <1>u, <1>y
         DEF PutOutbox, execution, store, HoldsRow, Kept, Standing, Quiet, Unclaiming, Passing
    <2>17. CASE Receipt(p)
      BY <2>17, <1>q, <1>u, <1>y
         DEF Receipt, Ask, execution, store, HoldsRow, Kept, Standing, Quiet, Unclaiming, Passing
    <2>18. CASE Retire(p)
      BY <2>18, <1>q, <1>u, <1>y
         DEF Retire, GiveBack, Released, NoLease, execution, store, HoldsRow, Kept, Standing, Quiet,
         Unclaiming, Passing
    <2>19. CASE ResumeAcquire(p)
      BY <2>19, <1>q, <1>u, <1>y, <1>a
         DEF ResumeAcquire, execution, store, HoldsRow, Kept,
         Standing, Quiet, Unclaiming, Passing
    <2>20. CASE LoadCheckpoint(p)
      BY <2>20, <1>q, <1>u, <1>y
         DEF LoadCheckpoint, GiveBack, Released, NoLease, execution, store, HoldsRow, Kept, Standing,
         Quiet, Unclaiming, Passing
    <2>21. CASE ConfirmResume(p)
      <3>1. lease' = [lease EXCEPT !.ttl = Life(p)] => Unexpired'
        BY <1>q, <1>l DEF LeaseRow
      <3> QED BY <2>21, <3>1, <1>q, <1>u, <1>y
         DEF ConfirmResume, LeaseRow, execution, store, HoldsRow, Kept, Standing, Quiet, Unclaiming, Passing
    <2>22. CASE ResumeRefused(p)
      BY <2>22, <1>q, <1>u, <1>y
         DEF ResumeRefused, GiveBack, Released, NoLease, execution, store, HoldsRow, Kept, Standing,
         Quiet, Unclaiming, Passing
    <2>23. CASE ReadOutbox(p)
      BY <2>23, <1>q, <1>u, <1>y
         DEF ReadOutbox, execution, store, HoldsRow, Kept, Standing, Quiet, Unclaiming, Passing
    <2>24. CASE ListInterruptedRuns(p)
      BY <2>24, <1>q, <1>u, <1>y
         DEF ListInterruptedRuns, execution, store, HoldsRow, Kept, Standing, Quiet, Unclaiming, Passing
    <2>25. CASE Drain(p)
      BY <2>25, <1>q, <1>u, <1>y, <1>a
         DEF Drain, LeavePass, execution, store, HoldsRow, Kept,
         Standing, Quiet, Unclaiming, Passing
    <2>26. CASE DrainWrite(p)
      BY <2>26, <1>q, <1>u, <1>y
         DEF DrainWrite, GiveBack, LeavePass, Released, NoLease, execution, store, HoldsRow, Kept,
         Standing, Quiet, Unclaiming, Passing
    <2>27. CASE Forget(p)
      BY <2>27, <1>q, <1>u, <1>y
         DEF Forget, Released, NoLease, execution, store, HoldsRow, Kept, Standing, Quiet, Unclaiming,
         Passing
    <2>28. CASE RepairClaim(p)
      BY <2>28, <1>q, <1>u, <1>y, <1>a
         DEF RepairClaim, LeavePass, execution, store, HoldsRow,
         Kept, Standing, Quiet, Unclaiming, Passing
    <2>29. CASE Recheck(p)
      BY <2>29, <1>q, <1>u, <1>y
         DEF Recheck, GiveBack, LeavePass, Released, NoLease, execution, store, HoldsRow, Kept, Standing,
         Quiet, Unclaiming, Passing
    <2>30. CASE RepairWrite(p)
      BY <2>30, <1>q, <1>u, <1>y
         DEF RepairWrite, execution, store, HoldsRow, Kept, Standing, Quiet, Unclaiming, Passing
    <2>31. CASE RepairRelease(p)
      BY <2>31, <1>q, <1>u, <1>y
         DEF RepairRelease, GiveBack, LeavePass, Released, NoLease, execution, store, HoldsRow, Kept,
         Standing, Quiet, Unclaiming, Passing
    <2>32. CASE Crash(p)
      BY <2>32, <1>q, <1>u, <1>y
         DEF Crash, execution, store, HoldsRow, Kept, Standing, Quiet, Unclaiming, Passing
    <2> QED
      BY <1>p, <2>1, <2>2, <2>3, <2>4, <2>5, <2>6, <2>7, <2>8, <2>9, <2>10, <2>11, <2>12, <2>13,
         <2>14, <2>15, <2>16, <2>17, <2>18, <2>19, <2>20, <2>21, <2>22, <2>23, <2>24, <2>25, <2>26,
         <2>27, <2>28, <2>29, <2>30, <2>31, <2>32
         DEF RunStep, ResumeStep, ReconcileStep
  <1> QED
    BY <1>s, <1>t, <1>p DEF Next

(* What a repair has looked at stays as it was while its claim stands. *)
LEMMA RepairingStep ==
    ASSUME TypeOK, Discipline, [Next]_vars, NEW q \in Proc, Repairing(q),
           \A p \in Proc : LastWord(p) /\ Standing(p) /\ (Calm => Kept(p))
    PROVE  Repairing(q)'
  <1>q. /\ pc \in [Proc -> Phase] /\ own \in [Proc -> {"unclaimed", "held", "parked", "lost", "done"}]
        /\ fence \in [Proc -> Nat] /\ lease \in LeaseRow /\ age \in Int
        /\ TTL \in Nat \ {0} /\ Ahead \in [Proc -> Nat] /\ Fencing(q) /\ NoProc \notin Proc /\ (Calm' => Calm)
        /\ outbox # NoEvent => outbox.by \in Proc /\ pc[outbox.by] \in Gone
    <2>1. outbox # NoEvent => outbox.by \in Proc /\ pc[outbox.by] \in Gone
      BY DEF Discipline, IsHeld, LastWord, Held
    <2> QED BY <2>1, OwnershipConstants, CalmAlong DEF TypeOK, Discipline
  <1>s. CASE UNCHANGED vars
    BY <1>s, <1>q DEF vars, store, local, HoldsRow, Repairing, Gone
  <1>t. CASE Tick
    BY <1>t, <1>q DEF Tick, local, LeaseRow, HoldsRow, Repairing, Gone
  <1>p. ASSUME NEW p \in Proc, RunStep(p) \/ ResumeStep(p) \/ ReconcileStep(p) \/ Crash(p)
        PROVE  Repairing(q)'
    <2>0. Standing(p)
      OBVIOUS
    <2>1. CASE Begin(p)
      BY <2>1, <1>q
         DEF Begin, execution, store, HoldsRow, Repairing, Gone
    <2>2. CASE Claim(p)
      BY <2>2, <1>q
         DEF Claim, Acquire, CanAcquire, NextGeneration, execution, store, HoldsRow, Repairing, Gone
    <2>3. CASE Work(p)
      BY <2>3, <1>q
         DEF Work, execution, store, HoldsRow, Repairing, Gone
    <2>4. CASE Transient(p)
      BY <2>4, <1>q
         DEF Transient, execution, store, HoldsRow, Repairing, Gone
    <2>5. CASE Pause(p)
      BY <2>5, <1>q
         DEF Pause, execution, store, HoldsRow, Repairing, Gone
    <2>6. CASE Park(p)
      BY <2>6, <1>q
         DEF Park, GiveBack, Released, NoLease, execution, store, HoldsRow, Repairing, Gone
    <2>7. CASE ResumeGate(p)
      BY <2>7, <1>q
         DEF ResumeGate, Authorize, Acquire, CanAcquire, NextGeneration, execution, store, HoldsRow,
         Repairing, Gone
    <2>8. CASE RunTimeout(p)
      BY <2>8, <1>q
         DEF RunTimeout, Authorize, Acquire, CanAcquire, NextGeneration, execution, store, HoldsRow,
         Repairing, Gone
    <2>9. CASE ReclaimRefused(p)
      BY <2>9, <1>q
         DEF ReclaimRefused, LoseOwnership, execution, store, HoldsRow, Repairing, Gone
    <2>10. CASE Depart(p)
      BY <2>10, <1>q
         DEF Depart, execution, store, HoldsRow, Repairing, Gone
    <2>11. CASE Beat(p)
      <3>1. /\ own' = own \/ own' = [own EXCEPT ![p] = "lost"]
            /\ lease'.owner = lease.owner /\ lease'.gen = lease.gen /\ UNCHANGED <<outbox, age, fence>>
            /\ pc' = pc \/ pc' = [pc EXCEPT ![p] = IF pc[p] = "outboxing" THEN pc[p] ELSE "retiring"]
        BY <1>q, <2>11 DEF Beat, LoseOwnership, LeaseRow
      <3> QED BY <1>q, <3>1 DEF HoldsRow, Repairing
    <2>12. ASSUME NEW kind \in Terminals, Settle(p, kind) PROVE Repairing(q)'
      BY <2>12, <1>q
         DEF Settle, Authorize, Acquire, CanAcquire, NextGeneration, execution, store, HoldsRow,
         Repairing, Gone
    <2>13. CASE Persisted(p)
      BY <2>13, <1>q
         DEF Persisted, execution, store, HoldsRow, Repairing, Gone
    <2>14. CASE Fenced(p)
      BY <2>14, <1>q
         DEF Fenced, LoseOwnership, execution, store, HoldsRow, Repairing, Gone
    <2>15. CASE NotPersisted(p)
      BY <2>15, <1>q
         DEF NotPersisted, execution, store, HoldsRow, Repairing, Gone
    <2>16. CASE PutOutbox(p)
      <3>1. /\ outbox' = outbox \/ outbox' = write[p]
            /\ pc[p] = "outboxing" /\ pc' = [pc EXCEPT ![p] = "retiring"] /\ UNCHANGED <<lease, age, own, fence>>
        BY <2>16 DEF PutOutbox
      <3>2. write[p] = NoEvent \/ write[p].by = p
        BY DEF Discipline, InFlight
      <3>3. own[p] \in {"held", "unclaimed", "lost"}
        BY <2>16, <2>0 DEF PutOutbox, Standing, Discipline, HeldTerminals
      <3>4. CASE Calm /\ own[p] = "held"
        <4>1. HoldsRow(p)
          BY <3>1, <3>4 DEF Kept
        <4>2. HoldsRow(q) => p = q
          BY <4>1 DEF HoldsRow
        <4> QED BY <1>q, <3>1, <4>2 DEF Repairing, HoldsRow
      <3>5. CASE ~ (Calm /\ own[p] = "held")
        BY <1>q, <3>1, <3>2, <3>3, <3>5 DEF Repairing, HoldsRow
      <3> QED BY <3>4, <3>5
    <2>17. CASE Receipt(p)
      BY <2>17, <1>q
         DEF Receipt, execution, store, HoldsRow, Repairing, Gone
    <2>18. CASE Retire(p)
      BY <2>18, <1>q
         DEF Retire, GiveBack, Released, NoLease, execution, store, HoldsRow, Repairing, Gone
    <2>19. CASE ResumeAcquire(p)
      BY <2>19, <1>q
         DEF ResumeAcquire, Acquire, CanAcquire, NextGeneration, execution, store, HoldsRow, Repairing,
         Gone
    <2>20. CASE LoadCheckpoint(p)
      BY <2>20, <1>q
         DEF LoadCheckpoint, GiveBack, Released, NoLease, execution, store, HoldsRow, Repairing, Gone
    <2>21. CASE ConfirmResume(p)
      BY <2>21, <1>q
         DEF ConfirmResume, execution, store, HoldsRow, Repairing, Gone
    <2>22. CASE ResumeRefused(p)
      BY <2>22, <1>q
         DEF ResumeRefused, GiveBack, Released, NoLease, execution, store, HoldsRow, Repairing, Gone
    <2>23. CASE ReadOutbox(p)
      BY <2>23, <1>q
         DEF ReadOutbox, execution, store, HoldsRow, Repairing, Gone
    <2>24. CASE ListInterruptedRuns(p)
      BY <2>24, <1>q
         DEF ListInterruptedRuns, execution, store, HoldsRow, Repairing, Gone
    <2>25. CASE Drain(p)
      BY <2>25, <1>q
         DEF Drain, ForgetOutbox, LeavePass, Acquire, CanAcquire, NextGeneration, execution, store,
         HoldsRow, Repairing, Gone
    <2>26. CASE DrainWrite(p)
      BY <2>26, <1>q
         DEF DrainWrite, GiveBack, LeavePass, Released, NoLease, execution, store, HoldsRow, Repairing,
         Gone
    <2>27. CASE Forget(p)
      BY <2>27, <1>q
         DEF Forget, ForgetOutbox, Released, NoLease, execution, store, HoldsRow, Repairing, Gone
    <2>28. CASE RepairClaim(p)
      BY <2>28, <1>q
         DEF RepairClaim, Acquire, CanAcquire, NextGeneration, LeavePass, Repairable,
         StartedWithinLeaseTtl, Kept, execution, store, HoldsRow, Repairing, Gone
    <2>29. CASE Recheck(p)
      BY <2>29, <1>q
         DEF Recheck, GiveBack, LeavePass, Released, NoLease, execution, store, HoldsRow, Repairing, Gone
    <2>30. CASE RepairWrite(p)
      BY <2>30, <1>q
         DEF RepairWrite, execution, store, HoldsRow, Repairing, Gone
    <2>31. CASE RepairRelease(p)
      BY <2>31, <1>q
         DEF RepairRelease, GiveBack, LeavePass, Released, NoLease, execution, store, HoldsRow,
         Repairing, Gone
    <2>32. CASE Crash(p)
      BY <2>32, <1>q
         DEF Crash, execution, store, HoldsRow, Repairing, Gone
    <2> QED
      BY <1>p, <2>1, <2>2, <2>3, <2>4, <2>5, <2>6, <2>7, <2>8, <2>9, <2>10, <2>11, <2>12, <2>13,
         <2>14, <2>15, <2>16, <2>17, <2>18, <2>19, <2>20, <2>21, <2>22, <2>23, <2>24, <2>25, <2>26,
         <2>27, <2>28, <2>29, <2>30, <2>31, <2>32
         DEF RunStep, ResumeStep, ReconcileStep
  <1> QED
    BY <1>s, <1>t, <1>p DEF Next

(* Only the write of its own repair takes a process on from repairing to      *)
(* releasing.                                                                 *)
LEMMA RepairWrites ==
    ASSUME TypeOK, [Next]_vars, NEW q \in Proc, pc[q] = "repairing", pc'[q] = "releasing"
    PROVE  RepairWrite(q)
  <1>q. pc \in [Proc -> Phase] /\ pc[q] = "repairing" /\ pc'[q] = "releasing"
    BY DEF TypeOK
  <1>s. ~ UNCHANGED vars
    BY <1>q DEF vars, local
  <1>t. ~ Tick
    BY <1>q DEF Tick, local
  <1>p. ASSUME NEW p \in Proc, RunStep(p) \/ ResumeStep(p) \/ ReconcileStep(p) \/ Crash(p)
        PROVE  RepairWrite(q)
    <2>0. p = q \/ p # q
      OBVIOUS
    <2>1. CASE Begin(p)
      BY <2>1, <1>q DEF Begin, execution
    <2>2. CASE Claim(p)
      BY <2>2, <1>q DEF Claim, execution
    <2>3. CASE Work(p)
      BY <2>3, <1>q DEF Work, execution
    <2>4. CASE Transient(p)
      BY <2>4, <1>q DEF Transient, execution
    <2>5. CASE Pause(p)
      BY <2>5, <1>q DEF Pause, execution
    <2>6. CASE Park(p)
      BY <2>6, <1>q DEF Park, execution
    <2>7. CASE ResumeGate(p)
      BY <2>7, <1>q DEF ResumeGate, execution
    <2>8. CASE RunTimeout(p)
      BY <2>8, <1>q DEF RunTimeout, execution
    <2>9. CASE ReclaimRefused(p)
      BY <2>9, <1>q DEF ReclaimRefused, LoseOwnership, execution
    <2>10. CASE Depart(p)
      BY <2>10, <1>q DEF Depart, execution
    <2>11. CASE Beat(p)
      BY <2>11, <1>q DEF Beat, LoseOwnership, execution
    <2>12. ASSUME NEW kind \in Terminals, Settle(p, kind) PROVE RepairWrite(q)
      BY <2>12, <1>q DEF Settle, execution
    <2>13. CASE Persisted(p)
      BY <2>13, <1>q DEF Persisted, execution
    <2>14. CASE Fenced(p)
      BY <2>14, <1>q DEF Fenced, LoseOwnership, execution
    <2>15. CASE NotPersisted(p)
      BY <2>15, <1>q DEF NotPersisted, execution
    <2>16. CASE PutOutbox(p)
      BY <2>16, <1>q DEF PutOutbox, execution
    <2>17. CASE Receipt(p)
      BY <2>17, <1>q DEF Receipt, execution
    <2>18. CASE Retire(p)
      BY <2>18, <1>q DEF Retire, execution
    <2>19. CASE ResumeAcquire(p)
      BY <2>19, <1>q DEF ResumeAcquire, execution
    <2>20. CASE LoadCheckpoint(p)
      BY <2>20, <1>q DEF LoadCheckpoint, execution
    <2>21. CASE ConfirmResume(p)
      BY <2>21, <1>q DEF ConfirmResume, execution
    <2>22. CASE ResumeRefused(p)
      BY <2>22, <1>q DEF ResumeRefused, execution
    <2>23. CASE ReadOutbox(p)
      BY <2>23, <1>q DEF ReadOutbox, execution
    <2>24. CASE ListInterruptedRuns(p)
      BY <2>24, <1>q DEF ListInterruptedRuns, execution
    <2>25. CASE Drain(p)
      BY <2>25, <1>q DEF Drain, LeavePass, execution
    <2>26. CASE DrainWrite(p)
      BY <2>26, <1>q DEF DrainWrite, LeavePass, execution
    <2>27. CASE Forget(p)
      BY <2>27, <1>q DEF Forget, execution
    <2>28. CASE RepairClaim(p)
      BY <2>28, <1>q DEF RepairClaim, LeavePass, execution
    <2>29. CASE Recheck(p)
      BY <2>29, <1>q DEF Recheck, LeavePass, execution
    <2>30. CASE RepairWrite(p)
      BY <2>30, <1>q DEF RepairWrite
    <2>31. CASE RepairRelease(p)
      BY <2>31, <1>q DEF RepairRelease, LeavePass, execution
    <2>32. CASE Crash(p)
      BY <2>32, <1>q DEF Crash, execution
    <2> QED
      BY <1>p, <2>1, <2>2, <2>3, <2>4, <2>5, <2>6, <2>7, <2>8, <2>9, <2>10, <2>11, <2>12, <2>13,
         <2>14, <2>15, <2>16, <2>17, <2>18, <2>19, <2>20, <2>21, <2>22, <2>23, <2>24, <2>25, <2>26,
         <2>27, <2>28, <2>29, <2>30, <2>31, <2>32
         DEF RunStep, ResumeStep, ReconcileStep
  <1> QED
    BY <1>s, <1>t, <1>p DEF Next

(* The claims and the repairs are kept by every step.                         *)
LEMMA RepairStep == RecordInv /\ RepairInv /\ [Next]_vars => RepairInv'
  <1> SUFFICES ASSUME RecordInv, RepairInv, [Next]_vars, NEW q \in Proc
               PROVE  Standing(q)' /\ (Calm' => Kept(q)') /\ Repairing(q)'
    BY DEF RepairInv
  <1>1. TypeOK /\ Discipline /\ \A p \in Proc : LastWord(p) /\ Standing(p) /\ (Calm => Kept(p))
    BY DEF RecordInv, LogInv, RepairInv
  <1>2. Standing(q) /\ (Calm => Kept(q)) /\ Repairing(q)
    BY DEF RepairInv
  <1>3. Standing(q)'
    BY <1>1, <1>2, StandingStep
  <1>4. Calm' => Kept(q)'
    BY <1>1, <1>2, CalmAlong, KeptStep
  <1>5. Repairing(q)'
    BY <1>1, <1>2, RepairingStep
  <1> QED BY <1>3, <1>4, <1>5

(* In every state, for any number of processes, faults, stalls and crashes, a *)
(* phase goes with its claim; and with clocks that differ by less than a lease *)
(* and nobody stalled on any of them, a held claim is on record and has not   *)
(* run out, and a repair is of a run older than a lease.                      *)
THEOREM ClaimsAndRepairs == Spec => []RepairInv
  <1>1. Init => RepairInv
    BY OwnershipConstants, NoEventKind
       DEF Init, RepairInv, Standing, Kept, Repairing, Unclaiming, Passing, Quiet, Terminals
  <1> QED BY <1>1, RepairStep, RecordInvariant, PTL DEF Spec

(* What a persisted repair says of everybody: the claim it was written under  *)
(* is the one on record, so no living process holds another, no run is about  *)
(* to be claimed, and no claimant's outcome is waiting in the outbox.         *)
LEMMA RepairIsAlone ==
    ASSUME RecordInv, RepairInv, [Next]_vars, Calm, NEW q \in Proc,
           pc[q] = "repairing", log' # log, pc'[q] = "releasing"
    PROVE  /\ \A p \in Proc : own[p] = "held" /\ pc[p] # "dead" => p = q
           /\ \A p \in Proc : pc[p] # "starting"
           /\ outbox = NoEvent \/ own[outbox.by] \in {"lost", "unclaimed"}
  <1>1. TypeOK /\ Fencing(q)
    BY DEF RecordInv, LogInv, Discipline
  <1>2. RepairWrite(q)
    BY <1>1, RepairWrites
  <1>3. FenceHolds(q)
    BY <1>2 DEF RepairWrite, Fold
  <1>4. HoldsRow(q)
    BY <1>1, <1>3 DEF FenceHolds, Fencing, Claiming
  <1>5. Repairing(q) /\ \A p \in Proc : Kept(p)
    BY DEF RepairInv
  <1>6. \A p \in Proc : own[p] = "held" /\ pc[p] # "dead" => p = q
    BY <1>4, <1>5 DEF Kept, HoldsRow
  <1>7. \A p \in Proc : pc[p] # "starting"
    <2>1. age \in Int /\ TTL \in Int /\ Ahead[q] \in Int
      BY <1>1, OwnershipConstants DEF TypeOK
    <2> QED BY <1>5, <2>1 DEF Kept, Young, Repairing
  <1>8. outbox = NoEvent \/ own[outbox.by] \in {"lost", "unclaimed"}
    BY <1>4, <1>5 DEF Repairing
  <1> QED BY <1>6, <1>7, <1>8

(* With clocks that agree, and as long as nobody stalled on any of them, a    *)
(* repair never settles a run that a living process has claimed or is about    *)
(* to claim.                                                                  *)
THEOREM LivingRunSpared == Spec => LivingRunNotRepaired
  <1>1. RecordInv /\ RepairInv /\ [Next]_vars =>
          [\A p, q \in Proc :
            (Calm /\ p # q /\ pc[q] = "repairing" /\ log' # log /\ pc'[q] = "releasing")
                => /\ ~ (pc[p] \in {"covering", "live", "closing"} /\ own[p] = "held")
                   /\ ~ (pc[p] = "starting" /\ ~ failed[p])]_vars
    <2> SUFFICES ASSUME RecordInv, RepairInv, [Next]_vars, NEW p \in Proc, NEW q \in Proc,
                        Calm, p # q, pc[q] = "repairing", log' # log, pc'[q] = "releasing"
                 PROVE  /\ ~ (pc[p] \in {"covering", "live", "closing"} /\ own[p] = "held")
                        /\ pc[p] # "starting"
      OBVIOUS
    <2>1. /\ own[p] = "held" /\ pc[p] # "dead" => p = q
          /\ pc[p] # "starting"
      BY RepairIsAlone
    <2> QED BY <2>1
  <1> QED BY <1>1, RecordInvariant, ClaimsAndRepairs, PTL DEF Spec, LivingRunNotRepaired

(* Under the same premise a repair never writes run:failed past an outcome    *)
(* that a claimant left in the outbox.                                        *)
THEOREM HeldOutcomeKept == Spec => HeldTerminalNotRelabelled
  <1>1. RecordInv /\ RepairInv /\ [Next]_vars =>
          [\A q \in Proc :
            (Calm /\ pc[q] = "repairing" /\ log' # log /\ pc'[q] = "releasing")
                => outbox = NoEvent \/ own[outbox.by] \in {"lost", "unclaimed"}]_vars
    BY RepairIsAlone
  <1> QED BY <1>1, RecordInvariant, ClaimsAndRepairs, PTL DEF Spec, HeldTerminalNotRelabelled

(* Reconciling writes run:failed only where nobody is at work and no outcome  *)
(* of a claimant is waiting to be stored, for any number of processes, faults *)
(* and crashes.                                                               *)
THEOREM AbandonedOnly == Spec => RepairsOnlyTheAbandoned
  <1> QED BY LivingRunSpared, HeldOutcomeKept DEF RepairsOnlyTheAbandoned
=============================================================================

---------------------------- MODULE RunOwnership ----------------------------
(***************************************************************************)
(* Who may write a run's durable record.                                    *)
(*                                                                          *)
(* One run, one history database, several engine instances ("processes").   *)
(* A process may start the run, park it at a gate, resume it from its       *)
(* checkpoint, or reconcile it after a crash.  Ownership is a lease row with *)
(* a TTL; every durable write carries the writer's (owner, generation)      *)
(* fence and, unless it is a terminal, the sequence number the writer       *)
(* believes the log ends at.  A terminal the store will not take is held in  *)
(* an outbox for a later reconcile to write.                                *)
(*                                                                          *)
(* Sources: packages/core/src/engine/engine.ts (the single durable writer,  *)
(* the lease, settlement, resume and reconcile), packages/db/src/           *)
(* run-history-store.ts (the fold and the lease rows), and apps/cli/src/    *)
(* engine/terminal-outbox.ts (the outbox file).                             *)
(*                                                                          *)
(* Time is relative to the slowest clock: the lease stores how long that    *)
(* clock has to go until expiresAt, and "age" how long ago run:started was  *)
(* stamped, capped at one TTL; a process reads both on its own clock, which *)
(* is Ahead of the slowest.  A process is one engine instance, so a         *)
(* restarted program is another member of Proc and the process name is the  *)
(* ownerId that WorkflowEngine draws.                                       *)
(***************************************************************************)
EXTENDS Integers, Sequences, FiniteSets

CONSTANTS
    Proc,           \* engine instances; each is its own ownerId
    NoProc,         \* the owner of a lease row that does not exist
    TTL,            \* RUN_LEASE_TTL_MS, in ticks
    BEAT,           \* RUN_LEASE_HEARTBEAT_MS, in ticks
    Gates,          \* whether the workflow has a gate to pause at
    Ahead,          \* by how many ticks the clock of each process is ahead
    MaxSeq,         \* bound: no non-terminal is numbered past MaxSeq
    MaxTransients,  \* bound: numbers spent on events that are never stored
    MaxFaults,      \* bound: store, lease-port and outbox calls that fail
    MaxStalls,      \* bound: leases that run out under a living process
    MaxCrashes      \* bound: processes that die

ASSUME OwnershipConstants ==
    /\ TTL \in Nat \ {0} /\ BEAT \in Nat \ {0}
    /\ NoProc \notin Proc /\ Ahead \in [Proc -> Nat] /\ Gates \in BOOLEAN
    /\ MaxSeq \in Nat /\ MaxTransients \in Nat
    /\ MaxFaults \in Nat /\ MaxStalls \in Nat /\ MaxCrashes \in Nat

VARIABLES
    lease,       \* the run_leases row of the run, or NoLease
    log,         \* the run_events rows, in the order they were committed
    outbox,      \* the terminal-outbox entry of the run, or NoEvent
    age,         \* ticks since the timestamp of run:started, at most TTL
    pc,          \* what the process is doing with the run
    own,         \* RunExecution.#ownership
    fence,       \* the generation of RunExecution.#fence, 0 when undefined
    nextSeq,     \* the event bus's counter for this run
    lastAsked,   \* RunExecution.#lastAskedSequenceNumber
    write,       \* the append in flight, or NoEvent
    failed,      \* RunExecution.#failure is set
    durability,  \* RunExecution.#terminalDurability
    missed,      \* RunExecution.#missedBeats
    snap,        \* what a resume or reconcile has read so far
    spent        \* how much of each bound has been used

store == <<lease, log, outbox, age>>
local == <<pc, own, fence, nextSeq, lastAsked, write, failed, durability, missed, snap>>
vars  == <<store, local, spent>>

-----------------------------------------------------------------------------
(* Events.  A durable event is its sequence number, its kind and the process *)
(* that stamped it; "work" is any node, cost or gate event that does not     *)
(* change who may pick the run up.                                           *)
Terminals    == {"completed", "failed", "cancelled"}
Kinds        == Terminals \cup {"started", "work", "paused", "resumed", "receipt"}
Unguarded    == -2            \* an append that carries no expectedLastSequenceNumber
NoEvent      == [seq |-> -1, kind |-> "none", by |-> NoProc, expected |-> Unguarded]
NoLease      == [owner |-> NoProc, gen |-> 0, ttl |-> 0]
NoSnap       == [held |-> NoEvent, open |-> FALSE, resumable |-> FALSE, last |-> -1]

HasTerminal == \E i \in DOMAIN log : log[i].kind \in Terminals

(* max(run_events.seq) is n; -1 for a run with no row. *)
EndsAt(n) ==
    \/ n = -1 /\ log = <<>>
    \/ /\ \E i \in DOMAIN log : log[i].seq = n
       /\ \A i \in DOMAIN log : log[i].seq <= n

(* RunSuspensionReducer.isResumable, for one gate: the last pause or resume  *)
(* event of an open run is a pause.                                          *)
Resumable ==
    /\ ~ HasTerminal
    /\ \E i \in DOMAIN log :
          /\ log[i].kind = "paused"
          /\ \A j \in DOMAIN log : j > i => log[j].kind # "resumed"

-----------------------------------------------------------------------------
(* The store: run-history-store.ts fold and leases.                          *)

(* Variant: an expired lease still refuses. *)
CanAcquireNeverExpired(p) == lease.owner \in {p, NoProc}

(* Whether the lease has run out, on the clock of the process that asks. *)
Expired(p) == lease.ttl <= Ahead[p]

(* The life of a lease that p writes: expiresAt is its own clock plus a TTL. *)
Life(p) == TTL + Ahead[p]

(* acquire: only a DIFFERENT owner with a LIVE lease refuses. *)
CanAcquire(p) == lease.owner = p \/ Expired(p)

(* The generation an acquire hands out; a released row restarts at 1. *)
NextGeneration == lease.gen + 1

Acquire(p) ==
    /\ CanAcquire(p)
    /\ lease' = [owner |-> p, gen |-> NextGeneration, ttl |-> Life(p)]
    /\ fence' = [fence EXCEPT ![p] = NextGeneration]

HoldsRow(p) == lease.owner = p /\ lease.gen = fence[p]

(* release: scoped to (owner, generation), so it never deletes a successor. *)
Released(p) == IF HoldsRow(p) THEN NoLease ELSE lease

(* Variants: a stale guard is let through, the fence compares nothing, and a
   second terminal is not looked for. *)
GuardIgnored(w) == TRUE
FenceIgnored(p) == TRUE
SecondTerminalAllowed(w) == TRUE

(* The checks of fold, in the order it makes them. *)
GuardHolds(w) == w.expected = Unguarded \/ (EndsAt(w.expected) /\ w.seq > w.expected)
FenceHolds(p) == fence[p] = 0 \/ HoldsRow(p)
NotSecondTerminal(w) == w.kind \in Terminals => ~ HasTerminal
RowIsNew(w) ==
    /\ \A i \in DOMAIN log : log[i].seq # w.seq      \* UNIQUE(run_id, seq)
    /\ (w.kind = "started") <=> (log = <<>>)         \* runs.id and its foreign key

Fold(p, w) ==
    IF ~ GuardHolds(w) THEN "conflict"
    ELSE IF ~ FenceHolds(p) THEN "fenced"
    ELSE IF ~ NotSecondTerminal(w) \/ ~ RowIsNew(w) THEN "refused"
    ELSE "persisted"

Append1(w) == log' = Append(log, [seq |-> w.seq, kind |-> w.kind, by |-> w.by])

Spend(b, bound) == spent[b] < bound /\ spent' = [spent EXCEPT ![b] = @ + 1]
Fault == Spend("faults", MaxFaults)

(* Every release is best effort: a row that cannot be deleted is left to expire. *)
GiveBack(p) ==
    \/ lease' = Released(p) /\ UNCHANGED spent
    \/ Fault /\ UNCHANGED lease

-----------------------------------------------------------------------------
Init ==
    /\ lease = NoLease /\ log = <<>> /\ outbox = NoEvent /\ age = TTL
    /\ pc = [p \in Proc |-> "none"]
    /\ own = [p \in Proc |-> "unclaimed"]
    /\ fence = [p \in Proc |-> 0]
    /\ nextSeq = [p \in Proc |-> 0]
    /\ lastAsked = [p \in Proc |-> -1]
    /\ write = [p \in Proc |-> NoEvent]
    /\ failed = [p \in Proc |-> FALSE]
    /\ durability = [p \in Proc |-> "none"]
    /\ missed = [p \in Proc |-> 0]
    /\ snap = [p \in Proc |-> NoSnap]
    /\ spent = [transients |-> 0, faults |-> 0, stalls |-> 0, crashes |-> 0]

-----------------------------------------------------------------------------
(* The single durable writer: #writeDurable.  Ask stamps and hands the event  *)
(* to the store; Commit is the store's transaction and what the writer does   *)
(* with its answer.  One append is in flight per execution (#deliveryTail).   *)

Quiet(p) == write[p] = NoEvent
Asking(p) == ~ Quiet(p) /\ pc[p] # "outboxing"

(* Number the event and advance the belief a guarded ask leaves behind. *)
Ask(p, kind) ==
    LET guard == IF kind \in Terminals THEN Unguarded ELSE lastAsked[p] IN
    /\ Quiet(p)
    /\ kind \in Terminals \/ nextSeq[p] <= MaxSeq
    /\ write' = [write EXCEPT ![p] = [seq |-> nextSeq[p], kind |-> kind,
                                      by |-> p, expected |-> guard]]
    /\ nextSeq' = [nextSeq EXCEPT ![p] = @ + 1]
    /\ lastAsked' = IF kind \in Terminals THEN lastAsked
                    ELSE [lastAsked EXCEPT ![p] = nextSeq[p]]

(* #authorizeWrite: a held or never-taken claim writes at once; a parked one  *)
(* must be taken again first (#reclaim).                                      *)
Authorize(p) ==
    \/ /\ own[p] \in {"held", "unclaimed"}
       /\ UNCHANGED <<lease, fence, own>>
    \/ /\ own[p] = "parked"
       /\ Acquire(p)
       /\ own' = [own EXCEPT ![p] = "held"]

(* #loseOwnership and #settleFenced: stop, write no terminal, keep no claim.  *)
(* An append or an outbox entry already under way is still finished.          *)
LoseOwnership(p) ==
    /\ own' = [own EXCEPT ![p] = "lost"]
    /\ durability' = [durability EXCEPT ![p] = IF @ = "durable" THEN @ ELSE "uncertain"]
    /\ pc' = [pc EXCEPT ![p] = IF @ = "outboxing" THEN @ ELSE "retiring"]

(* A parked process whose claim somebody else holds, or whose lease port      *)
(* fails, discovers it when it next has something to write.                   *)
ReclaimRefused(p) ==
    /\ pc[p] = "paused" /\ own[p] = "parked" /\ Quiet(p)
    /\ \/ ~ CanAcquire(p) /\ UNCHANGED spent
       \/ Fault
    /\ LoseOwnership(p)
    /\ UNCHANGED <<store, fence, nextSeq, lastAsked, write, failed, missed, snap>>

Persisted(p) ==
    LET w == write[p] IN
    /\ Asking(p)
    /\ Fold(p, w) = "persisted"
    /\ Append1(w)
    /\ write' = [write EXCEPT ![p] = NoEvent]
    /\ IF w.kind \in Terminals
       THEN /\ lastAsked' = [lastAsked EXCEPT ![p] = w.seq]
            /\ durability' = [durability EXCEPT ![p] = "durable"]
            /\ pc' = [pc EXCEPT ![p] = "retiring"]
       ELSE /\ pc' = [pc EXCEPT ![p] = IF @ = "covering" THEN "live" ELSE @]
            /\ UNCHANGED <<lastAsked, durability>>
    /\ UNCHANGED <<lease, outbox, age, own, fence, nextSeq, failed, missed, snap, spent>>

(* LeaseFencedError: somebody else owns the run now.  No outbox entry. *)
Fenced(p) ==
    /\ Asking(p)
    /\ Fold(p, write[p]) = "fenced"
    /\ write' = [write EXCEPT ![p] = NoEvent]
    /\ LoseOwnership(p)
    /\ UNCHANGED <<store, fence, nextSeq, lastAsked, failed, missed, snap, spent>>

(* Any other refusal, or a store fault: a terminal goes to the outbox, any    *)
(* other event becomes the run's failure.                                     *)
NotPersisted(p) ==
    LET w == write[p] IN
    /\ Asking(p)
    /\ \/ Fold(p, w) \in {"conflict", "refused"} /\ UNCHANGED spent
       \/ Fault
    /\ IF w.kind \in Terminals
       THEN /\ durability' = [durability EXCEPT ![p] = "uncertain"]
            /\ pc' = [pc EXCEPT ![p] = "outboxing"]
            /\ UNCHANGED <<write, failed>>
       ELSE /\ write' = [write EXCEPT ![p] = NoEvent]
            /\ failed' = [failed EXCEPT ![p] = @ \/ own[p] # "lost"]
            /\ UNCHANGED <<durability, pc>>
    /\ UNCHANGED <<store, own, fence, nextSeq, lastAsked, missed, snap>>

(* #bestEffortOutbox: put replaces any entry of the run, and never throws. *)
PutOutbox(p) ==
    /\ pc[p] = "outboxing"
    /\ \/ outbox' = write[p] /\ UNCHANGED spent
       \/ Fault /\ UNCHANGED outbox
    /\ write' = [write EXCEPT ![p] = NoEvent]
    /\ pc' = [pc EXCEPT ![p] = "retiring"]
    /\ UNCHANGED <<lease, log, age, own, fence, nextSeq, lastAsked, failed, durability, missed, snap>>

-----------------------------------------------------------------------------
(* A run in one process: #begin, the scheduler's writes, pause, settlement.   *)

(* The RunExecution and its bus are done with: they leave memory, or a settled *)
(* one stays to be looked at (#retainSettled).  A claim it was granted and did *)
(* not release is not undone.                                                 *)
Discard(p) ==
    /\ nextSeq' = [nextSeq EXCEPT ![p] = 0]
    /\ lastAsked' = [lastAsked EXCEPT ![p] = -1]
    /\ failed' = [failed EXCEPT ![p] = FALSE]
    /\ durability' = [durability EXCEPT ![p] = "none"]
    /\ missed' = [missed EXCEPT ![p] = 0]

(* run:started is stamped and asked for before any claim exists.  A fresh     *)
(* runId: no other process can know the run.                                  *)
Begin(p) ==
    /\ log = <<>> /\ \A q \in Proc : pc[q] = "none"
    /\ pc' = [pc EXCEPT ![p] = "starting"]
    /\ Ask(p, "started")
    /\ age' = - Ahead[p]
    /\ UNCHANGED <<lease, log, outbox, own, fence, failed, durability, missed, snap, spent>>

(* #acquireLease after run:started, then #startUsageCoverage, whose event must *)
(* be persisted before anything runs.  A refused claim fails the run.          *)
Claim(p) ==
    /\ pc[p] = "starting" /\ Quiet(p) /\ ~ failed[p]
    /\ \/ /\ Acquire(p)
          /\ own' = [own EXCEPT ![p] = "held"]
          /\ pc' = [pc EXCEPT ![p] = "covering"]
          /\ Ask(p, "work")
          /\ UNCHANGED <<failed, spent>>
       \/ /\ \/ ~ CanAcquire(p) /\ UNCHANGED spent
             \/ Fault
          /\ failed' = [failed EXCEPT ![p] = TRUE]
          /\ UNCHANGED <<lease, fence, own, pc, nextSeq, lastAsked, write>>
    /\ UNCHANGED <<log, outbox, age, durability, missed, snap>>

(* A node, cost or skip event; a failed run still writes them on its way down *)
Work(p) ==
    /\ pc[p] = "live"
    /\ Ask(p, "work")
    /\ UNCHANGED <<store, pc, own, fence, failed, durability, missed, snap, spent>>

(* agent:token and the like: numbered by the same bus, never stored. *)
Transient(p) ==
    /\ pc[p] = "live" /\ nextSeq[p] < MaxSeq
    /\ nextSeq' = [nextSeq EXCEPT ![p] = @ + 1]
    /\ Spend("transients", MaxTransients)
    /\ UNCHANGED <<store, pc, own, fence, lastAsked, write, failed, durability, missed, snap>>

(* Nothing can run until somebody decides a gate: the pause is published. *)
Pause(p) ==
    /\ Gates /\ pc[p] = "live" /\ ~ failed[p]
    /\ Ask(p, "paused")
    /\ pc' = [pc EXCEPT ![p] = "paused"]
    /\ UNCHANGED <<store, own, fence, failed, durability, missed, snap, spent>>

(* #parkAfterReceipts: the claim is parked, then its row is deleted. *)
Park(p) ==
    /\ pc[p] = "paused" /\ own[p] = "held" /\ Quiet(p) /\ ~ failed[p]
    /\ own' = [own EXCEPT ![p] = "parked"]
    /\ GiveBack(p)
    /\ UNCHANGED <<log, outbox, age, pc, fence, nextSeq, lastAsked, write, failed, durability, missed, snap>>

(* A gate decision reaches the execution that holds the pause. *)
ResumeGate(p) ==
    /\ pc[p] = "paused" /\ ~ failed[p]
    /\ Authorize(p)
    /\ Ask(p, "resumed")
    /\ pc' = [pc EXCEPT ![p] = "live"]
    /\ UNCHANGED <<log, outbox, age, failed, durability, missed, snap, spent>>

(* #onRunTimeout: the failure is set first, then run:timeout is asked for. *)
RunTimeout(p) ==
    /\ pc[p] \in {"starting", "covering", "live", "paused"} /\ ~ failed[p]
    /\ failed' = [failed EXCEPT ![p] = TRUE]
    /\ Authorize(p)
    /\ Ask(p, "work")
    /\ UNCHANGED <<log, outbox, age, pc, durability, missed, snap, spent>>

(* #settle: cancellation, failure or completion.  A cancel may come before    *)
(* the first claim; the terminal is asked for outside the append guard.       *)
Settle(p, kind) ==
    /\ pc[p] \in {"starting", "covering", "live", "paused"}
    /\ kind = "failed" /\ pc[p] \in {"starting", "covering"} => failed[p]
    /\ kind = "completed" => pc[p] = "live" /\ ~ failed[p]
    /\ Authorize(p)
    /\ Ask(p, kind)
    /\ pc' = [pc EXCEPT ![p] = "closing"]
    /\ UNCHANGED <<log, outbox, age, failed, durability, missed, snap, spent>>

(* A cost receipt that settles after the durable terminal, still owned. *)
Receipt(p) ==
    /\ pc[p] = "retiring" /\ durability[p] = "durable" /\ own[p] = "held"
    /\ Ask(p, "receipt")
    /\ UNCHANGED <<store, pc, own, fence, failed, durability, missed, snap, spent>>

(* #retireHostWhenQuiet and #releaseOwnership. *)
Retire(p) ==
    /\ pc[p] = "retiring" /\ Quiet(p)
    /\ IF own[p] = "held"
       THEN /\ own' = [own EXCEPT ![p] = "done"]
            /\ GiveBack(p)
       ELSE UNCHANGED <<own, lease, spent>>
    /\ pc' = [pc EXCEPT ![p] = "closed"]
    /\ Discard(p)
    /\ UNCHANGED <<log, outbox, age, fence, write, snap>>

(* #depart: a parked execution leaves the engine's memory. *)
Depart(p) ==
    /\ pc[p] = "paused" /\ own[p] = "parked" /\ Quiet(p)
    /\ pc' = [pc EXCEPT ![p] = "none"]
    /\ own' = [own EXCEPT ![p] = "unclaimed"]
    /\ Discard(p)
    /\ UNCHANGED <<store, fence, write, snap, spent>>

(* #beat.  A beat that cannot be written is tolerated for less than one TTL. *)
Beat(p) ==
    /\ own[p] = "held" /\ pc[p] \in {"covering", "live", "paused", "closing", "outboxing", "retiring"}
    /\ \/ /\ HoldsRow(p)
          /\ lease' = [lease EXCEPT !.ttl = Life(p)]
          /\ missed' = [missed EXCEPT ![p] = 0]
          /\ UNCHANGED <<pc, own, durability, spent>>
       \/ /\ ~ HoldsRow(p)
          /\ LoseOwnership(p)
          /\ missed' = [missed EXCEPT ![p] = 0]
          /\ UNCHANGED <<lease, spent>>
       \/ /\ Fault
          /\ missed' = [missed EXCEPT ![p] = @ + 1]
          /\ IF (missed[p] + 1) * BEAT < TTL THEN UNCHANGED <<pc, own, durability>>
             ELSE LoseOwnership(p)
          /\ UNCHANGED lease
    /\ UNCHANGED <<log, outbox, age, fence, nextSeq, lastAsked, write, failed, snap>>

-----------------------------------------------------------------------------
(* resumeFromCheckpoint: claim first, then read, then confirm the claim.      *)

execution == <<own, nextSeq, lastAsked, failed, durability, missed>>

ResumeAcquire(p) ==
    /\ pc[p] = "none" /\ log # <<>>
    /\ Acquire(p)
    /\ pc' = [pc EXCEPT ![p] = "loading"]
    /\ UNCHANGED <<log, outbox, age, execution, write, snap, spent>>

(* The checkpoint is folded from the log.  A finished run, one with no gate   *)
(* to decide, or another workflow or other inputs than it started with, is    *)
(* refused with the claim given back.                                         *)
LoadCheckpoint(p) ==
    /\ pc[p] = "loading"
    /\ \/ /\ Resumable
          /\ \E n \in 0 .. MaxSeq :
                /\ EndsAt(n)
                /\ snap' = [snap EXCEPT ![p] = [NoSnap EXCEPT !.last = n]]
          /\ pc' = [pc EXCEPT ![p] = "confirming"]
          /\ UNCHANGED <<lease, spent>>
       \/ /\ GiveBack(p)
          /\ pc' = [pc EXCEPT ![p] = "none"]
          /\ UNCHANGED snap
    /\ UNCHANGED <<log, outbox, age, fence, execution, write>>

(* The exact claim is renewed before the execution may act: adoptLease.  The  *)
(* bus and the append guard continue from the checkpoint's last sequence.     *)
ConfirmResume(p) ==
    /\ pc[p] = "confirming" /\ HoldsRow(p)
    /\ lease' = [lease EXCEPT !.ttl = Life(p)]
    /\ pc' = [pc EXCEPT ![p] = "paused"]
    /\ own' = [own EXCEPT ![p] = "held"]
    /\ nextSeq' = [nextSeq EXCEPT ![p] = snap[p].last + 1]
    /\ lastAsked' = [lastAsked EXCEPT ![p] = snap[p].last]
    /\ failed' = [failed EXCEPT ![p] = FALSE]
    /\ durability' = [durability EXCEPT ![p] = "none"]
    /\ missed' = [missed EXCEPT ![p] = 0]
    /\ snap' = [snap EXCEPT ![p] = NoSnap]
    /\ UNCHANGED <<log, outbox, age, fence, write, spent>>

(* The claim was taken over meanwhile, or could not be confirmed. *)
ResumeRefused(p) ==
    /\ pc[p] = "confirming"
    /\ \/ ~ HoldsRow(p) /\ GiveBack(p)
       \/ Fault /\ lease' = Released(p)
    /\ pc' = [pc EXCEPT ![p] = "none"]
    /\ snap' = [snap EXCEPT ![p] = NoSnap]
    /\ UNCHANGED <<log, outbox, age, fence, execution, write>>

-----------------------------------------------------------------------------
(* reconcile: read the outbox, list the open runs, drain, then repair.        *)

ReadOutbox(p) ==
    /\ pc[p] = "none"
    /\ pc' = [pc EXCEPT ![p] = "listing"]
    /\ snap' = [snap EXCEPT ![p] = [NoSnap EXCEPT !.held = outbox]]
    /\ UNCHANGED <<store, fence, execution, write, spent>>

ListInterruptedRuns(p) ==
    /\ pc[p] = "listing"
    /\ \E n \in -1 .. MaxSeq + 1 :
          /\ EndsAt(n)
          /\ snap' = [snap EXCEPT ![p].open = log # <<>> /\ ~ HasTerminal,
                                  ![p].resumable = Resumable,
                                  ![p].last = n]
    /\ pc' = [pc EXCEPT ![p] = IF snap[p].held = NoEvent THEN "repair" ELSE "drain"]
    /\ UNCHANGED <<store, fence, execution, write, spent>>

LeavePass(p) ==
    /\ pc' = [pc EXCEPT ![p] = "none"]
    /\ snap' = [snap EXCEPT ![p] = NoSnap]

(* #forgetOutbox, best effort: an entry not removed is drained again later. *)
ForgetOutbox ==
    \/ outbox' = NoEvent /\ UNCHANGED spent
    \/ Fault /\ UNCHANGED outbox

(* #drainTerminalOutbox: an entry whose run is not open has landed; otherwise *)
(* claim the run, or leave it for the next pass.                              *)
Drain(p) ==
    /\ pc[p] = "drain"
    /\ \/ /\ ~ snap[p].open
          /\ ForgetOutbox
          /\ LeavePass(p)
          /\ UNCHANGED <<lease, fence>>
       \/ /\ snap[p].open
          /\ Acquire(p)
          /\ pc' = [pc EXCEPT ![p] = "draining"]
          /\ UNCHANGED <<outbox, snap, spent>>
       \/ /\ snap[p].open /\ ~ CanAcquire(p)
          /\ LeavePass(p)
          /\ UNCHANGED <<lease, fence, outbox, spent>>
    /\ UNCHANGED <<log, age, execution, write>>

HeldTerminal(p) == [snap[p].held EXCEPT !.expected = snap[p].last]

DrainWrite(p) ==
    /\ pc[p] = "draining"
    /\ \/ /\ Fold(p, HeldTerminal(p)) = "persisted"
          /\ Append1(HeldTerminal(p))
          /\ pc' = [pc EXCEPT ![p] = "forget"]
          /\ UNCHANGED <<lease, snap, spent>>
       \/ /\ Fold(p, HeldTerminal(p)) # "persisted"
          /\ GiveBack(p)
          /\ LeavePass(p)
          /\ UNCHANGED log
       \/ /\ Fault
          /\ lease' = Released(p)
          /\ LeavePass(p)
          /\ UNCHANGED log
    /\ UNCHANGED <<outbox, age, fence, execution, write>>

(* The entry is removed and the claim released; the same pass goes on to the  *)
(* repair loop with the listing it read at the start.                         *)
Forget(p) ==
    /\ pc[p] = "forget"
    /\ \/ ForgetOutbox /\ lease' = Released(p)
       \/ outbox' = NoEvent /\ Fault /\ UNCHANGED lease
    /\ pc' = [pc EXCEPT ![p] = "repair"]
    /\ UNCHANGED <<log, age, fence, execution, write, snap>>

(* #startedWithinLeaseTtl, by the reconciling host's own clock, on either side. *)
StartedWithinLeaseTtl(p) == - TTL < age + Ahead[p] /\ age + Ahead[p] < TTL

Repairable(p) == snap[p].open /\ ~ snap[p].resumable /\ ~ StartedWithinLeaseTtl(p)

RepairClaim(p) ==
    /\ pc[p] = "repair"
    /\ \/ /\ Repairable(p)
          /\ Acquire(p)
          /\ pc' = [pc EXCEPT ![p] = "rechecking"]
          /\ UNCHANGED snap
       \/ /\ ~ Repairable(p) \/ ~ CanAcquire(p)
          /\ LeavePass(p)
          /\ UNCHANGED <<lease, fence>>
    /\ UNCHANGED <<log, outbox, age, execution, write, spent>>

(* Variant: the outbox as read before the claim is trusted. *)
RecheckSkipped(p) ==
    /\ pc[p] = "rechecking"
    /\ pc' = [pc EXCEPT ![p] = "repairing"]
    /\ UNCHANGED <<lease, snap, log, outbox, age, fence, execution, write, spent>>

(* The outbox is read again under the claim; an entry, or an outbox that      *)
(* cannot be read, keeps the repair away.                                     *)
Recheck(p) ==
    /\ pc[p] = "rechecking"
    /\ \/ /\ outbox = NoEvent
          /\ pc' = [pc EXCEPT ![p] = "repairing"]
          /\ UNCHANGED <<lease, snap, spent>>
       \/ /\ outbox # NoEvent /\ GiveBack(p)
          /\ LeavePass(p)
       \/ /\ Fault /\ lease' = Released(p)
          /\ LeavePass(p)
    /\ UNCHANGED <<log, outbox, age, fence, execution, write>>

RepairTerminal(p) ==
    [seq |-> snap[p].last + 1, kind |-> "failed", by |-> p, expected |-> snap[p].last]

RepairWrite(p) ==
    /\ pc[p] = "repairing"
    /\ \/ /\ Fold(p, RepairTerminal(p)) = "persisted"
          /\ Append1(RepairTerminal(p))
          /\ UNCHANGED spent
       \/ /\ Fold(p, RepairTerminal(p)) # "persisted"
          /\ UNCHANGED <<log, spent>>
       \/ Fault /\ UNCHANGED log
    /\ pc' = [pc EXCEPT ![p] = "releasing"]
    /\ UNCHANGED <<lease, outbox, age, fence, execution, write, snap>>

RepairRelease(p) ==
    /\ pc[p] = "releasing"
    /\ GiveBack(p)
    /\ LeavePass(p)
    /\ UNCHANGED <<log, outbox, age, fence, execution, write>>

-----------------------------------------------------------------------------
(* The environment. *)

Crash(p) ==
    /\ pc[p] \notin {"closed", "dead"}
    /\ Spend("crashes", MaxCrashes)
    /\ pc' = [pc EXCEPT ![p] = "dead"]
    /\ write' = [write EXCEPT ![p] = NoEvent]
    /\ snap' = [snap EXCEPT ![p] = NoSnap]
    /\ Discard(p)
    /\ UNCHANGED <<store, own, fence>>

(* A living process that is using the claim the row records, in an execution  *)
(* or in the part of a resume or reconcile pass that has claimed.             *)
Using(p) ==
    /\ HoldsRow(p)
    /\ \/ own[p] = "held" /\ pc[p] # "dead"
       \/ pc[p] \in {"loading", "confirming", "draining", "forget", "rechecking", "repairing", "releasing"}

(* With this tick somebody's clock has the lease of a living process run out  *)
(* while it is using it, or the run a TTL old before its first claim.         *)
Stalling ==
    \E p, q \in Proc : \/ lease.ttl = Ahead[q] + 1 /\ Using(p)
                       \/ age + Ahead[q] = TTL - 1 /\ pc[p] = "starting"

(* One tick; a stall is a process suspended, blocked, or slow past its TTL.   *)
(* A lease nobody wrote, or that has run out for all, is not counted down.    *)
Tick ==
    /\ lease.ttl > 0 \/ age < TTL
    /\ lease' = [lease EXCEPT !.ttl = IF @ > 0 THEN @ - 1 ELSE 0]
    /\ age' = IF age < TTL THEN age + 1 ELSE age
    /\ IF Stalling THEN Spend("stalls", MaxStalls) ELSE UNCHANGED spent
    /\ UNCHANGED <<log, outbox, local>>

RunStep(p) ==
    \/ Begin(p) \/ Claim(p) \/ Work(p) \/ Transient(p) \/ Pause(p) \/ Park(p)
    \/ ResumeGate(p) \/ RunTimeout(p) \/ ReclaimRefused(p) \/ Depart(p) \/ Beat(p)
    \/ \E kind \in Terminals : Settle(p, kind)
    \/ Persisted(p) \/ Fenced(p) \/ NotPersisted(p) \/ PutOutbox(p)
    \/ Receipt(p) \/ Retire(p)

ResumeStep(p) ==
    ResumeAcquire(p) \/ LoadCheckpoint(p) \/ ConfirmResume(p) \/ ResumeRefused(p)

ReconcileStep(p) ==
    \/ ReadOutbox(p) \/ ListInterruptedRuns(p)
    \/ Drain(p) \/ DrainWrite(p) \/ Forget(p)
    \/ RepairClaim(p) \/ Recheck(p) \/ RepairWrite(p) \/ RepairRelease(p)

Next ==
    \/ \E p \in Proc : RunStep(p) \/ ResumeStep(p) \/ ReconcileStep(p) \/ Crash(p)
    \/ Tick

Spec == Init /\ [][Next]_vars

(* The scheduler comes to the end of what it can do: a gate or an outcome.  At *)
(* a gate nobody has to decide, unless the run has failed there.              *)
Finish(p) ==
    /\ pc[p] = "paused" => failed[p]
    /\ Pause(p) \/ \E kind \in Terminals : Settle(p, kind)

(* What a process that is left running does next: it handles the answer to an *)
(* append, brings a workflow to its end or to a gate and puts the execution    *)
(* away, or goes on with the claim, resume or reconcile pass it began.        *)
Proceed(p) ==
    \/ Persisted(p) \/ Fenced(p) \/ NotPersisted(p) \/ PutOutbox(p)
    \/ Claim(p) \/ Finish(p) \/ Retire(p)
    \/ LoadCheckpoint(p) \/ ConfirmResume(p) \/ ResumeRefused(p)
    \/ ListInterruptedRuns(p) \/ Drain(p) \/ DrainWrite(p) \/ Forget(p)
    \/ RepairClaim(p) \/ Recheck(p) \/ RepairWrite(p) \/ RepairRelease(p)

(* Time passes, although a tick that would be one stall too many is left out; *)
(* a host that keeps running lets each process go on; and a surface is opened  *)
(* again and again, each time reconciling (run, gate, budget resume and Home   *)
(* all do).                                                                   *)
Fairness ==
    /\ SF_vars(Tick)
    /\ \A p \in Proc : WF_vars(Proceed(p)) /\ SF_vars(ReadOutbox(p))

FairSpec == Spec /\ Fairness

-----------------------------------------------------------------------------
(* Properties.                                                               *)

LeaseRow == [owner : Proc \cup {NoProc}, gen : Nat, ttl : Nat]
EventRow == [seq : Int, kind : Kinds, by : Proc]
Write    == [seq : Int, kind : Kinds \cup {"none"}, by : Proc \cup {NoProc}, expected : Int]
Snapshot == [held : Write, open : BOOLEAN, resumable : BOOLEAN, last : Int]
Phase    == {"none", "starting", "covering", "live", "paused", "closing", "outboxing",
             "retiring", "closed", "loading", "confirming", "listing", "drain", "draining",
             "forget", "repair", "rechecking", "repairing", "releasing", "dead"}
Bounds   == {"transients", "faults", "stalls", "crashes"}

(* Type correctness of the store and of every process's view of the run. *)
TypeOK ==
    /\ lease \in LeaseRow
    /\ log \in Seq(EventRow)
    /\ outbox \in Write
    /\ age \in Int /\ age <= TTL
    /\ pc \in [Proc -> Phase]
    /\ own \in [Proc -> {"unclaimed", "held", "parked", "lost", "done"}]
    /\ fence \in [Proc -> Nat]
    /\ nextSeq \in [Proc -> Nat]
    /\ lastAsked \in [Proc -> Int]
    /\ write \in [Proc -> Write]
    /\ failed \in [Proc -> BOOLEAN]
    /\ durability \in [Proc -> {"none", "durable", "uncertain"}]
    /\ missed \in [Proc -> Nat]
    /\ snap \in [Proc -> Snapshot]
    /\ spent \in [Bounds -> Nat]

(* However starts, resumes, drains and repairs interleave, and whichever of   *)
(* them writes outside the guard or without a fence, the durable log of the   *)
(* run never holds a second terminal (fold's RunAlreadyTerminalError).        *)
OneTerminal ==
    \A i, j \in DOMAIN log : log[i].kind \in Terminals /\ log[j].kind \in Terminals => i = j

(* Every event that is not a terminal was committed ahead of everything the   *)
(* log already held: the guarded part of the log is an ordered append, even   *)
(* across legs of different processes and after failed asks.                  *)
GuardedAppendsInOrder ==
    \A i, j \in DOMAIN log :
        i < j /\ log[j].kind \notin Terminals => log[i].seq < log[j].seq

(* Both: the log is one ordered story with one end. *)
LogInOrder == OneTerminal /\ GuardedAppendsInOrder

(* While a process's claim is the one the row records, nobody else adds to    *)
(* the log, whatever the clocks say and although the claim has run out (fold's *)
(* fence check) - except a process that was never granted a claim at all,     *)
(* whose writes carry no fence.                                               *)
OwnerWritesAlone ==
    [][ \A p \in Proc :
          (HoldsRow(p) /\ Len(log') > Len(log))
              => \/ log'[Len(log')].by = p
                 \/ fence[log'[Len(log')].by] = 0
                 \/ pc[p] = "draining" /\ pc'[p] = "forget" ]_vars

(* A lease row leaves its owner's hands only by a step of that owner, or for   *)
(* a process on whose own clock it has run out: no release, takeover or       *)
(* resume of another deletes it, and none retakes it while it reads as live.  *)
LiveLeaseNotStolen ==
    [][ \A p \in Proc :
          (lease.owner = p /\ ~ (lease'.owner = p /\ lease'.gen = lease.gen))
              => \/ <<pc[p], own[p], fence[p]>>' # <<pc[p], own[p], fence[p]>>
                 \/ \E q \in Proc \ {p} : lease'.owner = q /\ HoldsRow(q)' /\ Expired(q) ]_vars

(* Both: a claim protects the log and the row from everybody who has not      *)
(* taken it over, and it is taken over only by the clock of whoever takes it. *)
OwnershipRespected == OwnerWritesAlone /\ LiveLeaseNotStolen

(* Once the run has its terminal the log is closed: only receipts that the    *)
(* terminal's own process had already admitted may follow it.  It does not    *)
(* hold: README, section 5.                                                    *)
TerminalEndsTheLog ==
    \A i, j \in DOMAIN log :
        i < j /\ log[i].kind \in Terminals
            => log[j].kind = "receipt" /\ log[j].by = log[i].by

(* Any two clocks differ by less than a TTL: on one machine they are one.     *)
ClocksAgree == \A p, q \in Proc : Ahead[p] < TTL + Ahead[q]

(* Nobody has outlived, on anybody's clock, a lease it was using, or a TTL    *)
(* before its first claim; and the clocks agree.                              *)
Calm == ClocksAgree /\ spent.stalls = 0

(* A repair settles only a run that no living process is working on: with     *)
(* clocks that agree, and as long as nobody stalled, a process between its     *)
(* run:started and its terminal is never overtaken by another's run:failed.   *)
LivingRunNotRepaired ==
    [][ \A p, q \in Proc :
          (Calm /\ p # q /\ pc[q] = "repairing" /\ log' # log /\ pc'[q] = "releasing")
              => /\ ~ (pc[p] \in {"covering", "live", "closing"} /\ own[p] = "held")
                 /\ ~ (pc[p] = "starting" /\ ~ failed[p]) ]_vars

(* Under the same premise a repair never writes run:failed past a terminal    *)
(* the outbox holds, unless the process that put it there had no claim: never  *)
(* granted, or lost.                                                          *)
HeldTerminalNotRelabelled ==
    [][ \A q \in Proc :
          (Calm /\ pc[q] = "repairing" /\ log' # log /\ pc'[q] = "releasing")
              => outbox = NoEvent \/ own[outbox.by] \in {"lost", "unclaimed"} ]_vars

(* Both: reconciling writes run:failed only where nobody is at work and no    *)
(* outcome of a claimant is waiting to be stored.                             *)
RepairsOnlyTheAbandoned == LivingRunNotRepaired /\ HeldTerminalNotRelabelled

(* The record a reader sees: who wrote what. *)
Entry(e) ==
    [by |-> e.by,
     what |-> IF e.kind \in Terminals \cup {"receipt"} THEN e.kind
              ELSE IF e.kind = "started" THEN "opened" ELSE "progress"]
RecordRows == [i \in DOMAIN log |-> Entry(log[i])]
Record == INSTANCE RunRecord WITH Writers <- Proc, Outcomes <- Terminals, record <- RecordRows

(* The runs, leases, fences and outbox implement RunRecord. *)
ImplementsRecord == Record!Spec

(* A run that has started does not stay open with nobody able to move it: it  *)
(* reaches a terminal or a parked state whoever crashes, as long as some      *)
(* engine instance keeps being free to reconcile.                             *)
EventuallySettledOrParked ==
    (\E p \in Proc : []<>(pc[p] = "none"))
        => [](log # <<>> => <>(HasTerminal \/ Resumable))

=============================================================================

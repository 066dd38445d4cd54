--------------------------- MODULE RunCheckpoint ---------------------------
(***************************************************************************)
(* A run carried over crashes by its log.                                   *)
(*                                                                          *)
(* Every process that executes the run appends to one durable log through   *)
(* one ordered writer; "tail" is what it has asked for and the store has    *)
(* not acknowledged.  A process may die between any two appends, and the    *)
(* next one rebuilds the run from the log alone: reconstructCheckpointState *)
(* folds the events, #seedFromCheckpoint turns the fold into the state of a *)
(* new execution, and beginResume drives it on.  There is no stored         *)
(* checkpoint, so the log is represented by its fold, "rec".                *)
(*                                                                          *)
(* Who may append is the business of RunOwnership, the order in which a     *)
(* pass claims vertices that of RunScheduler.  An append the store refuses  *)
(* closes the log for this process but for its terminal, and is therefore   *)
(* a crash here.                                                            *)
(*                                                                          *)
(* Source: packages/core/src/engine/checkpoint.ts and engine.ts.            *)
(***************************************************************************)
EXTENDS RunSuspension, Sequences

CONSTANTS
    NoNode,       \* the run itself, in its own events
    Deps,         \* vertex -> the vertices its in-edges come from
    Conditions,   \* condition vertices
    Gates,        \* human_in_the_loop vertices
    Deadlined,    \* gates with a timeout_ms, action reject
    Budgeted,     \* agents whose dispatch may stop at the budget cap
    MediaNodes,   \* agents whose dispatch may leave an asynchronous media job
    Timed,        \* agents with a timeout_ms
    RetryMax,     \* vertex -> retry.max
    Cancels,      \* whether the run may be cancelled
    Ceiling,      \* ADMISSION_CEILINGS.nodeDispatchesPerRun
    MaxCrashes    \* bound: how often the executing process dies

Agents == Node \ (Conditions \cup Gates)

ASSUME CheckpointConstants ==
    /\ IsFiniteSet(Node) /\ NoNode \notin Node
    /\ Deps \in [Node -> SUBSET Node]
    /\ Conditions \subseteq Node /\ Gates \subseteq Node /\ Conditions \cap Gates = {}
    /\ Deadlined \subseteq Gates
    /\ Budgeted \subseteq Agents /\ MediaNodes \subseteq Agents /\ Timed \subseteq Agents
    /\ RetryMax \in [Node -> Nat \ {0}]
    /\ Cancels \in BOOLEAN /\ Ceiling \in Nat \ {0} /\ MaxCrashes \in Nat

INSTANCE NodeLifeClock WITH Agents <- Agents

VARIABLES
    rec,          \* the fold of the durable log
    tail,         \* #deliveryTail: events asked for, in order
    leg,          \* the process: "down", "passive" (its checkpoint not activated), "live", "settled"
    status,       \* #states
    chosen,       \* selectedTargets
    task,         \* what the dispatch or the pause of the vertex is awaiting
    attempt,      \* #lastAttemptByVertex
    entry,        \* which dispatch of the run is the vertex's last; names its gate and its job
    startedAt,    \* #nodeDeadlineStartMs
    dispatches,   \* #nodeDispatches
    pendingGates, \* #pendingGates
    resolved,     \* #resolvedGates
    timers,       \* #gateTimers
    decision,     \* the claimed decision on the vertex's gate, and what it is awaiting
    jobs,         \* #pendingMediaJobs
    pauseEpisode, \* #pauseEpisode
    failure,      \* whether #failure is set
    cancelling,   \* #cancelling
    crashes       \* how much of MaxCrashes has been used

waiting == <<pendingGates, resolved, timers, decision>>
fate    == <<failure, cancelling>>
counted == <<attempt, entry, startedAt, dispatches>>
vars    == <<rec, tail, leg, status, chosen, task, counted, waiting, jobs, pauseEpisode, fate, crashes>>

-----------------------------------------------------------------------------
(* reconstructCheckpointState, one event at a time.                          *)
Settled == {"completed", "failed", "skipped"}

NoRecord ==
    [run |-> "running",
     node |-> [n \in Node |-> "none"],        \* nodeStates; "none" is absent
     selected |-> [n \in Node |-> {}],
     dispatches |-> 0,
     suspensions |-> NoSuspension,
     lives |-> [n \in Node |-> NoLife]]

(* RUN_STATUS_BY_EVENT *)
ApplyRunEvent(r, e) ==
    CASE e.type = "run:paused"    -> [r EXCEPT !.run = "paused"]
      [] e.type = "run:completed" -> [r EXCEPT !.run = "completed"]
      [] e.type = "run:failed"    -> [r EXCEPT !.run = "failed"]
      [] e.type = "run:cancelled" -> [r EXCEPT !.run = "cancelled"]
      [] OTHER -> r

(* A vertex that was running at the crash is absent, and will run again. *)
ApplyNodeEvent(r, e) ==
    CASE e.type = "node:completed" ->
            [r EXCEPT !.node[e.node] = "completed", !.selected[e.node] = e.selected]
      [] e.type = "node:failed"  -> [r EXCEPT !.node[e.node] = "failed"]
      [] e.type = "node:skipped" -> [r EXCEPT !.node[e.node] = "skipped"]
      [] e.type = "node:started" -> [r EXCEPT !.dispatches = @ + 1]
      [] OTHER -> r

ApplyMediaJobEvent(r, e) ==
    IF e.type = "media_job:submitted" /\ r.node[e.node] \notin Settled
    THEN [r EXCEPT !.node[e.node] = "paused"] ELSE r

(* Variant: a person's answer leaves the vertex parked. *)
ApplyGateEventNoAnswer(r, kind, n) ==
    CASE kind = "paused"   -> [r EXCEPT !.node[n] = "paused"]
      [] kind = "approved" -> [r EXCEPT !.node[n] = "none"]
      [] kind = "rejected" -> [r EXCEPT !.node[n] = "failed"]
      [] OTHER -> r

(* An approval belongs to the owner that got it: the vertex starts again. *)
ApplyGateEvent(r, kind, n) ==
    CASE kind = "paused"   -> [r EXCEPT !.node[n] = "paused"]
      [] kind = "human"    -> [r EXCEPT !.node[n] = "completed"]
      [] kind = "approved" -> [r EXCEPT !.node[n] = "none"]
      [] kind = "rejected" -> [r EXCEPT !.node[n] = "failed"]
      [] OTHER -> r

ApplyEvent(r, e) ==
    LET q == ApplyMediaJobEvent(ApplyNodeEvent(ApplyRunEvent(r, e), e), e)
        s == ApplySuspension(r.suspensions, e)
        t == [q EXCEPT !.suspensions = s.state,
                       !.lives = [n \in Node |-> IF n = e.node
                                                 THEN ApplyLife(@[n], e, s.kind, q.dispatches)
                                                 ELSE @[n]]]
    IN  IF r.suspensions.corrupt THEN r ELSE ApplyGateEvent(t, s.kind, s.node)

Ended == rec.suspensions.terminalRun

-----------------------------------------------------------------------------
(* The executing process.                                                    *)
Stopping     == failure \/ cancelling
Active       == leg \in {"passive", "live"}
CanAuthorize == Active /\ ~ Stopping

Running        == {n \in Node : status[n] = "running"}
Succ(n)        == {m \in Node : n \in Deps[m]}
AllDepsSettled(n) == \A d \in Deps[n] : status[d] \in Settled
HasLiveEdge(n) ==
    \/ Deps[n] = {}
    \/ \E d \in Deps[n] : status[d] = "completed" /\ (d \in Conditions => n \in chosen[d])
Skippable(n)   == status[n] = "pending" /\ AllDepsSettled(n) /\ ~ HasLiveEdge(n)
Claimable(n)   == status[n] = "pending" /\ AllDepsSettled(n) /\ HasLiveEdge(n)
AllSettled     == \A n \in Node : status[n] \in Settled

(* #emitDurable reserves the next place in the tail. *)
Ask(e)      == tail' = Append(tail, e)
Acked(n, t) == ~ \E i \in DOMAIN tail : tail[i].node = n /\ tail[i].type = t

NodeEvent(type, n) == [type |-> type, node |-> n]
RunEvent(type)     == [type |-> type, node |-> NoNode]
Started(n, a)      == [type |-> "node:started", node |-> n, attempt |-> a]
Retrying(n, a)     == [type |-> "node:retrying", node |-> n, attempt |-> a]
Completed(n, S)    == [type |-> "node:completed", node |-> n, selected |-> S]
Submitted(n, j)    == [type |-> "media_job:submitted", node |-> n, job |-> j]
GateEvent(type, p, d) ==
    [type |-> type, node |-> p.node, gate |-> p.gate, allowance |-> p.allowance, decision |-> d]
HumanAnswer(n, d) ==
    [type |-> "human_gate:resumed", node |-> n, gate |-> NoGate, allowance |-> "none", decision |-> d]

(* A cancel outranks a failure. *)
Fail == failure' = (failure \/ ~ cancelling)

(* #settleFailed *)
SettleFailed(n) ==
    /\ status' = [status EXCEPT ![n] = "failed"]
    /\ task' = [task EXCEPT ![n] = "idle"]
    /\ Fail /\ UNCHANGED cancelling
    /\ Ask(NodeEvent("node:failed", n))

GateOf(n) == CHOOSE p \in pendingGates : p.node = n

-----------------------------------------------------------------------------
(* After #begin: run:started is durable, every vertex pending.               *)
BlankLeg ==
    /\ status' = [n \in Node |-> "pending"] /\ chosen' = [n \in Node |-> {}]
    /\ task' = [n \in Node |-> "idle"] /\ attempt' = [n \in Node |-> 0] /\ entry' = [n \in Node |-> 0]
    /\ startedAt' = [n \in Node |-> 0] /\ dispatches' = 0
    /\ pendingGates' = {} /\ resolved' = {} /\ timers' = {} /\ decision' = [n \in Node |-> "none"]
    /\ jobs' = [n \in Node |-> NoJob] /\ pauseEpisode' = FALSE
    /\ failure' = FALSE /\ cancelling' = FALSE /\ tail' = <<>>

Init ==
    /\ rec = NoRecord /\ tail = <<>> /\ leg = "live"
    /\ status = [n \in Node |-> "pending"] /\ chosen = [n \in Node |-> {}]
    /\ task = [n \in Node |-> "idle"] /\ attempt = [n \in Node |-> 0] /\ entry = [n \in Node |-> 0]
    /\ startedAt = [n \in Node |-> 0] /\ dispatches = 0
    /\ pendingGates = {} /\ resolved = {} /\ timers = {} /\ decision = [n \in Node |-> "none"]
    /\ jobs = [n \in Node |-> NoJob] /\ pauseEpisode = FALSE
    /\ failure = FALSE /\ cancelling = FALSE /\ crashes = 0

-----------------------------------------------------------------------------
(* #step.  One pass at a time: it awaits what it publishes.  Before the       *)
(* checkpoint is activated it does nothing but end the run.                  *)
Pass ==
    /\ leg = "live" \/ (leg = "passive" /\ Stopping)
    /\ \A i \in DOMAIN tail : tail[i].type \notin {"node:skipped", "run:paused"}
    /\ \A n \in Node : task[n] # "starting"

Decides == Pass /\ ~ Stopping /\ ~ AllSettled /\ \A n \in Node : ~ Skippable(n)

Skip(n) ==
    /\ Pass /\ Skippable(n)
    /\ status' = [status EXCEPT ![n] = "skipped"]
    /\ Ask(NodeEvent("node:skipped", n))
    /\ UNCHANGED <<rec, leg, chosen, task, counted, waiting, jobs, pauseEpisode, fate, crashes>>

(* One node:started, one dispatch. *)
Dispatch(n, a) ==
    /\ dispatches' = dispatches + 1
    /\ entry' = [entry EXCEPT ![n] = dispatches + 1]
    /\ attempt' = [attempt EXCEPT ![n] = a]
    /\ Ask(Started(n, a))
    /\ UNCHANGED startedAt

Claim(n) ==
    /\ Decides /\ dispatches < Ceiling /\ Claimable(n)
    /\ status' = [status EXCEPT ![n] = "running"]
    /\ task' = [task EXCEPT ![n] = "starting"]
    /\ Dispatch(n, 1)
    /\ UNCHANGED <<rec, leg, chosen, waiting, jobs, pauseEpisode, fate, crashes>>

CeilingReached ==
    /\ Decides /\ dispatches >= Ceiling
    /\ failure' = TRUE
    /\ UNCHANGED <<rec, tail, leg, status, chosen, task, counted, waiting, jobs, pauseEpisode, cancelling, crashes>>

(* #handleIdle: a decision or the publication of a pause in flight keeps the
   run as it is. *)
Publishing(n) == task[n] \in {"authority", "companion", "announcing"}

Idle ==
    /\ Decides /\ dispatches < Ceiling /\ Running = {}
    /\ \A n \in Node : ~ Claimable(n) /\ ~ Publishing(n)
    /\ \A p \in pendingGates : p.gate \notin resolved

Parked == pendingGates # {} \/ \E n \in Node : jobs[n] # NoJob

PauseRun ==
    /\ Idle /\ Parked /\ ~ pauseEpisode
    /\ pauseEpisode' = TRUE
    /\ Ask(RunEvent("run:paused"))
    /\ UNCHANGED <<rec, leg, status, chosen, task, counted, waiting, jobs, fate, crashes>>

Stall ==
    /\ Idle /\ ~ Parked
    /\ failure' = TRUE
    /\ UNCHANGED <<rec, tail, leg, status, chosen, task, counted, waiting, jobs, pauseEpisode, cancelling, crashes>>

Terminal == IF cancelling THEN "run:cancelled" ELSE IF failure THEN "run:failed" ELSE "run:completed"

Settle ==
    /\ Pass /\ \A n \in Node : ~ Skippable(n)
    /\ IF Stopping THEN Running = {} ELSE AllSettled
    /\ leg' = "settled"
    /\ jobs' = [n \in Node |-> NoJob] /\ timers' = {}
    /\ Ask(RunEvent(Terminal))
    /\ UNCHANGED <<rec, status, chosen, task, counted, pendingGates, resolved, decision, pauseEpisode, fate, crashes>>

-----------------------------------------------------------------------------
(* A dispatch.  Only after its start is durable does the executor run.       *)
Enter(n) ==
    /\ leg = "live" /\ task[n] \in {"starting", "restarting"} /\ Acked(n, "node:started")
    /\ \/ Stopping /\ SettleFailed(n) /\ UNCHANGED startedAt
       \/ /\ ~ Stopping
          /\ task' = [task EXCEPT ![n] = "exec"]
          /\ startedAt' = [startedAt EXCEPT ![n] = IF n \in Timed /\ @ = 0 THEN entry[n] ELSE @]
          /\ UNCHANGED <<status, tail, fate>>
    /\ UNCHANGED <<rec, leg, chosen, attempt, entry, dispatches, waiting, jobs, pauseEpisode, crashes>>

Complete(n) ==
    /\ leg = "live" /\ task[n] = "exec" /\ n \notin Gates
    /\ \E S \in IF n \in Conditions THEN (SUBSET Succ(n)) \ {{}} ELSE {{}} :
        /\ chosen' = [chosen EXCEPT ![n] = S]
        /\ Ask(Completed(n, S))
    /\ status' = [status EXCEPT ![n] = "completed"]
    /\ task' = [task EXCEPT ![n] = "idle"]
    /\ UNCHANGED <<rec, leg, counted, waiting, jobs, pauseEpisode, fate, crashes>>

AttemptFails(n) ==
    /\ leg = "live" /\ task[n] = "exec" /\ n \notin Gates
    /\ \/ SettleFailed(n)
       \/ /\ ~ Stopping /\ attempt[n] < RetryMax[n] /\ dispatches < Ceiling
          /\ task' = [task EXCEPT ![n] = "backoff"]
          /\ Ask(Retrying(n, attempt[n]))
          /\ UNCHANGED <<status, fate>>
    /\ UNCHANGED <<rec, leg, chosen, counted, waiting, jobs, pauseEpisode, crashes>>

Redispatch(n) ==
    /\ leg = "live" /\ task[n] = "backoff" /\ Acked(n, "node:retrying")
    /\ \/ Stopping /\ SettleFailed(n) /\ UNCHANGED counted
       \/ /\ ~ Stopping
          /\ task' = [task EXCEPT ![n] = "restarting"]
          /\ Dispatch(n, attempt[n] + 1)
          /\ UNCHANGED <<status, fate>>
    /\ UNCHANGED <<rec, leg, chosen, waiting, jobs, pauseEpisode, crashes>>

(* #onNodeDeadline: it does not wait for the dispatch it ends. *)
NodeDeadline(n) ==
    /\ Active /\ n \in Timed /\ startedAt[n] # 0 /\ status[n] \notin Settled
    /\ SettleFailed(n)
    /\ UNCHANGED <<rec, leg, chosen, counted, waiting, jobs, pauseEpisode, crashes>>

Cancel ==
    /\ Cancels /\ Active /\ ~ cancelling
    /\ cancelling' = TRUE
    /\ UNCHANGED <<rec, tail, leg, status, chosen, task, counted, waiting, jobs, pauseEpisode, failure, crashes>>

-----------------------------------------------------------------------------
(* #publishPause.  A budget gate is announced by three events, each written  *)
(* once the one before is acknowledged; a person's gate by one.              *)
Opens(n, p, first) ==
    /\ status' = [status EXCEPT ![n] = "paused"]
    /\ pendingGates' = pendingGates \cup {p}
    /\ task' = [task EXCEPT ![n] = first]
    /\ UNCHANGED <<rec, leg, chosen, counted, resolved, timers, decision, jobs, pauseEpisode, fate, crashes>>

PauseAtGate(n) ==
    LET p == [gate |-> entry[n], node |-> n, budget |-> FALSE, allowance |-> "none"]
    IN  /\ leg = "live" /\ task[n] = "exec" /\ n \in Gates
        /\ Opens(n, p, "announcing")
        /\ Ask(GateEvent("human_gate:paused", p, "none"))

PauseForBudget(n) ==
    LET p == [gate |-> entry[n], node |-> n, budget |-> TRUE, allowance |-> "frozen"]
    IN  /\ leg = "live" /\ task[n] = "exec" /\ n \in Budgeted
        /\ Opens(n, p, IF CanAuthorize THEN "authority" ELSE "idle")
        /\ IF CanAuthorize THEN Ask(GateEvent("budget:authorization", p, "paused")) ELSE UNCHANGED tail

Publish(n) ==
    /\ leg = "live"
    /\ \E step \in {[at |-> "authority", after |-> "budget:authorization", asks |-> "budget:paused", next |-> "companion"],
                    [at |-> "companion", after |-> "budget:paused", asks |-> "human_gate:paused", next |-> "announcing"]} :
        /\ task[n] = step.at /\ Acked(n, step.after)
        /\ task' = [task EXCEPT ![n] = IF CanAuthorize THEN step.next ELSE "idle"]
        /\ IF CanAuthorize THEN Ask(GateEvent(step.asks, GateOf(n), "none")) ELSE UNCHANGED tail
    /\ UNCHANGED <<rec, leg, status, chosen, counted, waiting, jobs, pauseEpisode, fate, crashes>>

Announced(n) ==
    /\ leg = "live" /\ task[n] = "announcing" /\ Acked(n, "human_gate:paused")
    /\ task' = [task EXCEPT ![n] = "idle"]
    /\ timers' = IF Stopping \/ n \notin Deadlined THEN timers
                 ELSE timers \cup {p.gate : p \in {q \in pendingGates : q.node = n /\ q.gate \notin resolved}}
    /\ UNCHANGED <<rec, tail, leg, status, chosen, counted, pendingGates, resolved, decision, jobs, pauseEpisode, fate, crashes>>

-----------------------------------------------------------------------------
(* A decision on a gate is claimed before the first await.                   *)
ClaimHuman(p) ==
    /\ leg = "live" /\ ~ p.budget /\ p.gate \notin resolved
    /\ resolved' = resolved \cup {p.gate} /\ timers' = timers \ {p.gate}
    /\ decision' = [decision EXCEPT ![p.node] = "pinning"]
    /\ pauseEpisode' = FALSE
    /\ UNCHANGED <<rec, tail, leg, status, chosen, task, counted, pendingGates, jobs, fate, crashes>>

(* The payload's media is pinned; what the run has become meanwhile wins. *)
HumanDecided(n) ==
    /\ leg = "live" /\ decision[n] = "pinning"
    /\ decision' = [decision EXCEPT ![n] = "none"]
    /\ IF Stopping \/ status[n] # "paused"
       THEN UNCHANGED <<status, pendingGates, tail>>
       ELSE /\ status' = [status EXCEPT ![n] = "completed"]
            /\ pendingGates' = pendingGates \ {GateOf(n)}
            /\ Ask(HumanAnswer(n, "approved"))
    /\ UNCHANGED <<rec, leg, chosen, task, counted, resolved, timers, jobs, pauseEpisode, fate, crashes>>

(* #failGateResume *)
PinFails(n) ==
    /\ leg = "live" /\ decision[n] = "pinning"
    /\ decision' = [decision EXCEPT ![n] = "none"]
    /\ status' = [status EXCEPT ![n] = IF @ = "paused" THEN "failed" ELSE @]
    /\ Fail
    /\ UNCHANGED <<rec, tail, leg, chosen, task, counted, pendingGates, resolved, timers, jobs, pauseEpisode, cancelling, crashes>>

GateTimeout(p) ==
    /\ leg = "live" /\ p.gate \in timers /\ p.gate \notin resolved
    /\ pendingGates' = pendingGates \ {p} /\ resolved' = resolved \cup {p.gate} /\ timers' = timers \ {p.gate}
    /\ SettleFailed(p.node)
    /\ UNCHANGED <<rec, leg, chosen, counted, decision, jobs, pauseEpisode, crashes>>

(* #resumeBudgetGate: the authority, then its companion, then its effect.
   Acknowledgements come back in the order of the log. *)
Deciding(d) == IF d = "approved" THEN "approving" ELSE "rejecting"
Verdict(n)  == IF decision[n] \in {"approving", "approved"} THEN "approved" ELSE "rejected"

(* Variant: the claim is not looked at, and a second decision is written. *)
ClaimBudgetAgain(p, d) ==
    /\ leg = "live" /\ p.budget /\ task[p.node] # "authority" /\ ~ Stopping
    /\ resolved' = resolved \cup {p.gate} /\ timers' = timers \ {p.gate}
    /\ decision' = [decision EXCEPT ![p.node] = Deciding(d)]
    /\ Ask(GateEvent("budget:authorization", p, d))
    /\ UNCHANGED <<rec, leg, status, chosen, task, counted, pendingGates, jobs, pauseEpisode, fate, crashes>>

ClaimBudget(p, d) ==
    /\ leg = "live" /\ p.budget /\ p.gate \notin resolved /\ task[p.node] # "authority" /\ ~ Stopping
    /\ resolved' = resolved \cup {p.gate} /\ timers' = timers \ {p.gate}
    /\ decision' = [decision EXCEPT ![p.node] = Deciding(d)]
    /\ Ask(GateEvent("budget:authorization", p, d))
    /\ UNCHANGED <<rec, leg, status, chosen, task, counted, pendingGates, jobs, pauseEpisode, fate, crashes>>

(* Variant: a deadline dies with the process that armed it. *)
ArmedNever(open, except) == {}

(* #activateCheckpoint: gates get their deadlines back, jobs their polls. *)
ArmedAgain(open, except) ==
    {p.gate : p \in {q \in open : q.node \in Deadlined /\ q.gate # except}}

DecisionOver(n) ==
    /\ pendingGates' = pendingGates \ {GateOf(n)}
    /\ pauseEpisode' = FALSE
    /\ decision' = [decision EXCEPT ![n] = "none"]
    /\ leg' = "live"
    /\ jobs' = IF leg = "passive" THEN rec.suspensions.media ELSE jobs
    /\ timers' = IF leg = "passive" /\ ~ Stopping /\ ~ failure'
                 THEN ArmedAgain(pendingGates, GateOf(n).gate) ELSE timers

BudgetRecorded(n) ==
    /\ Active /\ decision[n] \in {"approving", "rejecting"}
    /\ Acked(n, "budget:authorization") /\ task[n] # "companion"
    /\ IF CanAuthorize
       THEN /\ decision' = [decision EXCEPT ![n] = Verdict(n)]
            /\ Ask(GateEvent("human_gate:resumed", GateOf(n), Verdict(n)))
            /\ UNCHANGED <<pendingGates, timers, pauseEpisode, leg, jobs, fate>>
       ELSE UNCHANGED <<tail, fate>> /\ DecisionOver(n)
    /\ UNCHANGED <<rec, status, chosen, task, counted, resolved, crashes>>

BudgetApplied(n) ==
    /\ Active /\ decision[n] \in {"approved", "rejected"}
    /\ Acked(n, "human_gate:resumed") /\ task[n] = "idle"
    /\ IF ~ CanAuthorize THEN UNCHANGED <<status, failure>>
       ELSE IF Verdict(n) = "approved"
            THEN status' = [status EXCEPT ![n] = "pending"] /\ UNCHANGED failure
            ELSE status' = [status EXCEPT ![n] = "failed"] /\ Fail
    /\ DecisionOver(n)
    /\ UNCHANGED <<rec, tail, chosen, task, counted, resolved, cancelling, crashes>>

-----------------------------------------------------------------------------
(* An asynchronous media job: parked, polled, its result pinned.             *)
Park(n) ==
    /\ leg = "live" /\ task[n] = "exec" /\ n \in MediaNodes
    /\ status' = [status EXCEPT ![n] = "paused"]
    /\ task' = [task EXCEPT ![n] = "idle"]
    /\ jobs' = [jobs EXCEPT ![n] = entry[n]]
    /\ Ask(Submitted(n, entry[n]))
    /\ UNCHANGED <<rec, leg, chosen, counted, waiting, pauseEpisode, fate, crashes>>

Polled(n) == leg = "live" /\ jobs[n] # NoJob /\ Acked(n, "media_job:submitted")

ClearMediaJob(n) == jobs' = [jobs EXCEPT ![n] = NoJob] /\ pauseEpisode' = FALSE

MediaDone(n) ==
    /\ Polled(n) /\ ~ Stopping
    /\ ClearMediaJob(n)
    /\ task' = [task EXCEPT ![n] = "pinning"]
    /\ UNCHANGED <<rec, tail, leg, status, chosen, counted, waiting, fate, crashes>>

(* #onOutcome drops the result of a vertex that is already over. *)
MediaPinned(n) ==
    /\ leg = "live" /\ task[n] = "pinning"
    /\ \/ SettleFailed(n)
       \/ /\ status' = [status EXCEPT ![n] = "completed"]
          /\ task' = [task EXCEPT ![n] = "idle"]
          /\ Ask(Completed(n, {}))
          /\ UNCHANGED fate
    /\ UNCHANGED <<rec, leg, chosen, counted, waiting, jobs, pauseEpisode, crashes>>

MediaFails(n) ==
    /\ Polled(n)
    /\ ClearMediaJob(n)
    /\ IF status[n] \in Settled THEN UNCHANGED <<status, task, tail, fate>> ELSE SettleFailed(n)
    /\ UNCHANGED <<rec, leg, chosen, counted, waiting, crashes>>

-----------------------------------------------------------------------------
(* The store, and the death of a process.                                    *)
AppendEvent ==
    /\ tail # <<>>
    /\ rec' = ApplyEvent(rec, Head(tail)) /\ tail' = Tail(tail)
    /\ UNCHANGED <<leg, status, chosen, task, counted, waiting, jobs, pauseEpisode, fate, crashes>>

Crash ==
    /\ leg # "down" /\ ~ Ended /\ crashes < MaxCrashes
    /\ leg' = "down" /\ BlankLeg
    /\ crashes' = crashes + 1 /\ UNCHANGED rec

(* reconcile: what waits for nothing is closed. *)
Reconcile ==
    /\ leg = "down" /\ ~ Ended /\ ~ IsResumable(rec.suspensions)
    /\ rec' = ApplyEvent(rec, RunEvent("run:failed"))
    /\ UNCHANGED <<tail, leg, status, chosen, task, counted, waiting, jobs, pauseEpisode, fate, crashes>>

-----------------------------------------------------------------------------
(* resumeFromCheckpoint.                                                     *)
Waiting  == PendingGates(rec.suspensions)
Answered == ResolvedGateIds(rec.suspensions)

(* Variant: a recorded rejection is not looked for. *)
RejectedForgotten == FALSE

Rejected == BudgetRejections(rec.suspensions) # {}

(* restoredNodeClockBases *)
ClockBearers ==
    Timed \cap ({p.node : p \in {q \in Waiting : q.budget}} \cup PendingMediaJobs(rec.suspensions)
                \cup {n \in Node : rec.lives[n].budgetContinuation})

GateRequest  == Waiting # {} \/ Answered # {}
MediaRequest == Waiting = {} /\ PendingMediaJobs(rec.suspensions) # {}

(* #seedFromCheckpoint, but for what the request decides. *)
Seeded ==
    /\ leg = "down" /\ ~ Ended
    /\ \A n \in ClockBearers : rec.lives[n].valid
    /\ chosen' = rec.selected /\ dispatches' = rec.dispatches
    /\ attempt' = [n \in Node |-> 0] /\ entry' = [n \in Node |-> 0]
    /\ startedAt' = [n \in Node |-> IF n \in ClockBearers THEN rec.lives[n].startedAt ELSE 0]
    /\ task' = [n \in Node |-> "idle"]
    /\ pendingGates' = Waiting /\ cancelling' = FALSE
    /\ UNCHANGED <<rec, crashes>>

(* Variant: a vertex that waits is taken for one that was running. *)
RestoredAfresh == [n \in Node |-> IF rec.node[n] \in {"none", "paused"} THEN "pending" ELSE rec.node[n]]

Restored == [n \in Node |-> IF rec.node[n] = "none" THEN "pending" ELSE rec.node[n]]

(* #activateCheckpoint on admission. *)
Activated(except) ==
    /\ leg' = "live" /\ status' = Restored /\ tail' = <<>>
    /\ jobs' = rec.suspensions.media
    /\ timers' = ArmedAgain(Waiting, except)

(* A live pause announced before the crash is not announced twice. *)
PauseAnnouncedBefore == PendingMediaJobs(rec.suspensions) # {} /\ rec.run = "paused"

NoDecision == [n \in Node |-> "none"]

ResumeHuman(p) ==
    /\ Seeded /\ ~ p.budget /\ ~ Rejected
    /\ Activated(p.gate)
    /\ resolved' = Answered \cup {p.gate} /\ decision' = [NoDecision EXCEPT ![p.node] = "pinning"]
    /\ pauseEpisode' = FALSE /\ failure' = FALSE

(* The decision is durable before anything else of the run moves. *)
ResumeBudget(p, d) ==
    /\ Seeded /\ p.budget /\ ~ Rejected
    /\ leg' = "passive" /\ status' = Restored
    /\ jobs' = [n \in Node |-> NoJob] /\ timers' = {}
    /\ resolved' = Answered \cup {p.gate} /\ decision' = [NoDecision EXCEPT ![p.node] = Deciding(d)]
    /\ tail' = <<GateEvent("budget:authorization", p, d)>>
    /\ pauseEpisode' = PauseAnnouncedBefore /\ failure' = FALSE

(* A second delivery of a decision the log holds only sets the run going. *)
ResumeAnswered(g) ==
    /\ Seeded /\ ~ Rejected
    /\ Activated(g)
    /\ resolved' = Answered /\ decision' = NoDecision
    /\ pauseEpisode' = PauseAnnouncedBefore /\ failure' = FALSE

ResumeMedia ==
    /\ Seeded /\ MediaRequest
    /\ Activated(NoGate)
    /\ resolved' = Answered /\ decision' = NoDecision
    /\ pauseEpisode' = PauseAnnouncedBefore /\ failure' = Rejected

(* Refused by its context, its effects or a cancel, or fatal by its record:
   only the terminal is written. *)
ResumeEnds(type) ==
    /\ Seeded /\ (GateRequest \/ MediaRequest)
    /\ leg' = "settled" /\ status' = Restored
    /\ jobs' = [n \in Node |-> NoJob] /\ timers' = {}
    /\ resolved' = Answered /\ decision' = NoDecision
    /\ pauseEpisode' = PauseAnnouncedBefore /\ failure' = TRUE
    /\ tail' = <<RunEvent(type)>>

(* #armRestoredNodeDeadlines finds a clock that has run out. *)
ResumeOverdue(n) ==
    /\ Seeded /\ n \in ClockBearers
    /\ status' = [Restored EXCEPT ![n] = "failed"] /\ failure' = TRUE
    /\ resolved' = Answered /\ decision' = NoDecision /\ pauseEpisode' = PauseAnnouncedBefore
    /\ timers' = {}
    /\ \/ /\ GateRequest /\ leg' = "settled" /\ jobs' = [m \in Node |-> NoJob]
          /\ tail' = <<NodeEvent("node:failed", n), RunEvent("run:failed")>>
       \/ /\ MediaRequest /\ leg' = "live" /\ jobs' = rec.suspensions.media
          /\ tail' = <<NodeEvent("node:failed", n)>>

Done == Ended /\ tail = <<>> /\ UNCHANGED vars

-----------------------------------------------------------------------------
Resume ==
    \/ \E p \in Waiting : ResumeHuman(p) \/ \E d \in {"approved", "rejected"} : ResumeBudget(p, d)
    \/ \E g \in Answered : ResumeAnswered(g)
    \/ ResumeMedia
    \/ \E type \in {"run:failed", "run:cancelled"} : ResumeEnds(type)
    \/ \E n \in Node : ResumeOverdue(n)

Decide ==
    \/ \E p \in pendingGates :
        ClaimHuman(p) \/ GateTimeout(p) \/ \E d \in {"approved", "rejected"} : ClaimBudget(p, d)
    \/ \E n \in Node : HumanDecided(n) \/ PinFails(n) \/ BudgetRecorded(n) \/ BudgetApplied(n)

Execute(n) ==
    \/ Skip(n) \/ Claim(n) \/ Enter(n) \/ Complete(n) \/ AttemptFails(n) \/ Redispatch(n) \/ NodeDeadline(n)
    \/ PauseAtGate(n) \/ PauseForBudget(n) \/ Publish(n) \/ Announced(n)
    \/ Park(n) \/ MediaDone(n) \/ MediaPinned(n) \/ MediaFails(n)

Next ==
    \/ \E n \in Node : Execute(n)
    \/ Decide \/ Cancel \/ CeilingReached \/ PauseRun \/ Stall \/ Settle
    \/ AppendEvent \/ Crash \/ Reconcile \/ Resume \/ Done

Spec == Init /\ [][Next]_vars

-----------------------------------------------------------------------------
(* Properties.                                                               *)

(* Types of everything a process keeps, and of the fold. *)
Steps == {"idle", "starting", "restarting", "exec", "backoff", "authority", "companion", "announcing", "pinning"}

TypeOK ==
    /\ rec.run \in {"running", "paused", "completed", "failed", "cancelled"}
    /\ rec.node \in [Node -> {"none", "paused"} \cup Settled]
    /\ leg \in {"down", "passive", "live", "settled"}
    /\ status \in [Node -> {"pending", "running", "paused"} \cup Settled]
    /\ task \in [Node -> Steps]
    /\ decision \in [Node -> {"none", "pinning", "approving", "rejecting", "approved", "rejected"}]
    /\ dispatches \in Nat /\ crashes \in 0 .. MaxCrashes

(* No interleaving of deciders, publishers, deadlines and deaths writes a
   history the next process refuses: the gate fold never contradicts itself,
   and an agent parked under a timeout_ms has a clock that can be rebuilt. *)
ReadableHistory ==
    /\ ~ rec.suspensions.corrupt
    /\ ~ Ended => \A n \in ClockBearers : rec.lives[n].valid

(* Once everything asked for is durable, what a new process would rebuild from
   the log is what the living one holds: the fate of every vertex, the branch
   of every condition, the open gates, the jobs in flight, the dispatches spent
   and the clocks of the parked agents.  A vertex whose decision or whose media
   is still being pinned is about to say more. *)
Speaking(n) == decision[n] # "none" \/ task[n] = "pinning"

CheckpointAgrees ==
    leg = "live" /\ tail = <<>> /\ ~ Stopping =>
        /\ dispatches = rec.dispatches
        /\ \A n \in Node : ~ Speaking(n) =>
            /\ rec.node[n] = IF status[n] \in {"pending", "running"} THEN "none" ELSE status[n]
            /\ chosen[n] = rec.selected[n]
            /\ jobs[n] = rec.suspensions.media[n]
            /\ {p \in pendingGates : p.node = n} = {p \in Waiting : p.node = n}
            /\ n \in ClockBearers => startedAt[n] = rec.lives[n].startedAt

(* Across any number of deaths the log tells of every vertex once: nothing is
   started again after it ended or while it waits, for a person, for money or
   for a job already paid for, and nothing follows the end of the run. *)
ToldOnce ==
    [][rec' # rec /\ leg # "down" =>
        LET e == Head(tail)
        IN  /\ ~ Ended
            /\ e.type \in {"node:started", "media_job:submitted", "node:completed", "node:skipped"} =>
                rec.node[e.node] \notin Settled
            /\ e.type \in {"node:started", "media_job:submitted"} => rec.node[e.node] # "paused"
            /\ e.type = "node:failed" => rec.node[e.node] \notin {"completed", "skipped"}]_vars

(* A budget gate that was rejected ends the run, whoever finishes it. *)
RejectionIsFatal == BudgetRejections(rec.suspensions) # {} => rec.run # "completed"

(* No open gate with a deadline is left without its timer, in the process that
   opened it or in the one that found it. *)
DeadlinesKept ==
    leg = "live" /\ ~ Stopping =>
        \A p \in pendingGates :
            p.node \in Deadlined /\ p.gate \notin resolved /\ task[p.node] # "announcing" => p.gate \in timers

(* A vertex that failed ends the run, whoever finishes it, as the documents say.
   It need not: README, section 5. *)
FailureIsFatal == (\E n \in Node : rec.node[n] = "failed") => rec.run # "completed"
=============================================================================

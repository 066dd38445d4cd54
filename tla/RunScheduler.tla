---------------------------- MODULE RunScheduler ----------------------------
(***************************************************************************)
(* How one process drives one run through its graph.                        *)
(*                                                                          *)
(* RunExecution is an actor on one event loop: a serialised scheduling loop *)
(* claims ready vertices and starts them; dispatches, gate decisions, media *)
(* polls and timers settle vertices between its awaits and ask it to run    *)
(* again.  Each action below is the code between two awaits.  A durable     *)
(* append takes time and may fail, but keeping the lease and the append     *)
(* itself are the business of RunOwnership.                                 *)
(*                                                                          *)
(* Source: packages/core/src/engine/engine.ts, class RunExecution.          *)
(***************************************************************************)
EXTENDS Integers, Sequences, FiniteSets

CONSTANTS
    Node,         \* the vertices of the run plan
    NoNode,       \* stands for the run itself, and for "no vertex"
    Order,        \* plan.order: every vertex once, dependencies first
    Deps,         \* vertex -> the vertices its in-edges come from
    Conditions,   \* condition vertices: they pick the edges that live on
    Gates,        \* human_in_the_loop vertices
    GateAction,   \* gate -> "none", "approve" or "reject" on its timeout
    Budgeted,     \* agents whose dispatch may stop at the budget cap
    MediaNodes,   \* agents whose dispatch leaves an asynchronous media job
    Timed,        \* agents with an authored timeout_ms
    RetryMax,     \* vertex -> retry.max (1 without a retry block)
    MaxParallel,  \* plan.maxParallel
    Ceiling,      \* ADMISSION_CEILINGS.nodeDispatchesPerRun
    RunTimed,     \* whether the workflow has a timeout_ms
    Cancels,      \* whether somebody may cancel the run
    Unresolved,   \* whether the effect journal may hold unresolved effects
    MaxPauses,    \* bound: budget pauses of one vertex
    MaxFaults     \* bound: appends and host calls that fail

ASSUME SchedulerConstants ==
    /\ IsFiniteSet(Node) /\ NoNode \notin Node
    /\ Order \in Seq(Node) /\ Len(Order) = Cardinality(Node)
    /\ Deps \in [Node -> SUBSET Node]
    /\ \A n \in Node : \E i \in DOMAIN Order :
          Order[i] = n /\ \A d \in Deps[n] : \E j \in 1..(i - 1) : Order[j] = d
    /\ Conditions \subseteq Node /\ Gates \subseteq Node /\ Timed \subseteq Node
    /\ Budgeted \subseteq Node /\ MediaNodes \subseteq Node
    /\ Timed \cap (Gates \cup Conditions) = {} /\ Gates \cap (Conditions \cup Budgeted \cup MediaNodes) = {}
    /\ Conditions \cap (Budgeted \cup MediaNodes) = {}
    /\ GateAction \in [Gates -> {"none", "approve", "reject"}]
    /\ RetryMax \in [Node -> Nat \ {0}]
    /\ MaxParallel \in Nat \ {0} /\ Ceiling \in Nat \ {0}
    /\ RunTimed \in BOOLEAN /\ Cancels \in BOOLEAN /\ Unresolved \in BOOLEAN
    /\ MaxPauses \in Nat /\ MaxFaults \in Nat

VARIABLES
    status,      \* #states: the status of every vertex
    chosen,      \* selectedTargets of a condition
    loop,        \* where #loop is; "idle" is #scheduling = false
    rerun,       \* #rerun
    claims,      \* #unstartedClaims, in the order they will be started
    starting,    \* the vertex whose node:started is being written
    task,        \* what the dispatch of the vertex is awaiting
    attempt,     \* #lastAttemptByVertex
    dispatches,  \* #nodeDispatches
    deadline,    \* #nodeDeadlineDisarm: vertices whose deadline is armed
    landing,     \* settlements being written; each then asks for a pass
    cancelling,  \* #cancelling
    failure,     \* #failure
    aborted,     \* #abort.signal.aborted
    noNewDispatch,
    grace,       \* the grace window: "off", "armed", "sweeping", "done"
    gate,        \* #pendingGates and #resolvedGates: "none", "open", "claimed"
    publishing,  \* #publishingPauses, per vertex
    acked,       \* gates whose pause is durable (PendingGate.acknowledged)
    gateTimer,   \* #gateTimers
    decide,      \* what the claimed decision of a gate is awaiting
    callers,     \* resumeBudgetGate calls that have not claimed the gate yet
    pauses,      \* history: pauses of the vertex, i.e. which gateId is current
    jobs,        \* #pendingMediaJobs
    media,       \* what the media poller of the vertex is doing
    pauseEpisode,
    timeoutArmed,
    terminal,    \* #settled, and the terminal the run settled on
    published,   \* the terminal that was written
    faults       \* how much of MaxFaults has been used

graph == <<status, chosen>>
pass  == <<loop, rerun, claims, starting>>
work  == <<task, attempt, deadline, landing>>
stop  == <<cancelling, failure, aborted, noNewDispatch, grace>>
gates == <<gate, publishing, acked, gateTimer, decide, callers, pauses>>
mjobs == <<jobs, media>>
ends  == <<terminal, published>>
vars  == <<graph, pass, work, dispatches, stop, gates, mjobs, pauseEpisode, timeoutArmed, ends, faults>>

-----------------------------------------------------------------------------
Settled   == {"completed", "failed", "skipped"}
Running   == {n \in Node : status[n] = "running"}
Unstarted == {claims[i] : i \in DOMAIN claims}
Stopping  == cancelling \/ failure # "none" \/ aborted
Succ(n)   == {m \in Node : n \in Deps[m]}
Fault     == faults < MaxFaults /\ faults' = faults + 1

AllDepsSettled(n) == \A d \in Deps[n] : status[d] \in Settled

HasLiveEdge(n) ==
    \/ Deps[n] = {}
    \/ \E d \in Deps[n] : status[d] = "completed" /\ (d \in Conditions => n \in chosen[d])

Claimable(n) == status[n] = "pending" /\ AllDepsSettled(n) /\ HasLiveEdge(n)

(* #propagateSkips runs to its fixed point; on a DAG there is one, so it is
   also the largest set that skips nothing but what it may. *)
IsSkipped(S, n) ==
    /\ status[n] = "pending" /\ ~ HasLiveEdge(n)
    /\ \A d \in Deps[n] : status[d] \in Settled \/ d \in S
SkipSet == UNION {S \in SUBSET Node : \A n \in S : IsSkipped(S, n)}

-----------------------------------------------------------------------------
(* Pieces the handlers share.                                                *)

(* Variant: a request made during a pass is forgotten. *)
ScheduleWhenIdleOnly ==
    IF terminal = "none" /\ loop = "idle"
    THEN loop' = "awake" /\ UNCHANGED rerun
    ELSE UNCHANGED <<loop, rerun>>

(* #schedule: start a pass, or leave a note for the one under way. *)
Schedule ==
    IF terminal # "none" THEN UNCHANGED <<loop, rerun>>
    ELSE IF loop = "idle" THEN loop' = "awake" /\ UNCHANGED rerun
    ELSE rerun' = TRUE /\ UNCHANGED loop

(* Variant: the grace window is not armed off the signal. *)
AbortWithoutGrace == aborted' = TRUE /\ UNCHANGED grace

(* #abort.abort(): the constructor's listener arms the grace window. *)
Abort ==
    /\ aborted' = TRUE
    /\ grace' = IF grace = "off" THEN "armed" ELSE grace

(* The first failure wins, and a cancel outranks it. *)
FailRun(code) ==
    IF failure = "none" /\ ~ cancelling
    THEN failure' = code /\ Abort
    ELSE UNCHANGED <<failure, aborted, grace>>

(* #settle: the flag is set before anything else, then every timer goes. *)
Settle(type) ==
    /\ terminal' = type
    /\ aborted' = TRUE /\ grace' = "done"
    /\ deadline' = {} /\ gateTimer' = {} /\ jobs' = {} /\ timeoutArmed' = FALSE

(* #settleFailed up to its append, which is then one of "landing". *)
SettleFailed(n, code) ==
    /\ status' = [status EXCEPT ![n] = "failed"]
    /\ FailRun(code)

-----------------------------------------------------------------------------
Init ==
    /\ status = [n \in Node |-> "pending"] /\ chosen = [n \in Node |-> {}]
    /\ loop = "awake" /\ rerun = FALSE /\ claims = <<>> /\ starting = NoNode
    /\ task = [n \in Node |-> "none"] /\ attempt = [n \in Node |-> 0] /\ dispatches = 0
    /\ deadline = {} /\ landing = {}
    /\ cancelling = FALSE /\ failure = "none" /\ aborted = FALSE
    /\ noNewDispatch = FALSE /\ grace = "off"
    /\ gate = [n \in Node |-> "none"] /\ publishing = [n \in Node |-> 0] /\ acked = {}
    /\ gateTimer = {} /\ decide = [n \in Node |-> "none"] /\ callers = {}
    /\ pauses = [n \in Node |-> 0]
    /\ jobs = {} /\ media = [n \in Node |-> "none"]
    /\ pauseEpisode = FALSE /\ timeoutArmed = RunTimed
    /\ terminal = "none" /\ published = "none" /\ faults = 0

-----------------------------------------------------------------------------
(* One pass of the loop.  "r" is what #rerun is before the pass asks again.  *)

(* Variant: a vertex that waits for a decision counts as settled. *)
AllSettledOrPaused == \A n \in Node : status[n] \in Settled \cup {"paused"}

AllSettled == \A n \in Node : status[n] \in Settled
(* Variant: the loop goes on after a failure as long as something is open. *)
GoingOnAfterFailure == ~ cancelling /\ ~ AllSettled
GoingOn    == ~ cancelling /\ failure = "none" /\ ~ AllSettled
EndPass(r) == loop' = "ending" /\ rerun' = r

(* Cancelled, failed or finished: settle once nothing runs any more. *)
Conclude(r) ==
    /\ ~ GoingOn
    /\ EndPass(r)
    /\ IF (cancelling \/ failure # "none") /\ Running # {}
       THEN UNCHANGED <<terminal, aborted, grace, deadline, gateTimer, jobs, timeoutArmed>>
       ELSE Settle(IF cancelling THEN "cancelled"
                   ELSE IF failure # "none" THEN "failed" ELSE "completed")
    /\ UNCHANGED <<cancelling, failure, noNewDispatch, gate, publishing, acked, decide, callers, pauses, media>>
    /\ UNCHANGED <<graph, claims, starting, task, attempt, landing, dispatches, pauseEpisode, published, faults>>

(* The dispatch ceiling is looked at before anything is claimed. *)
CeilingReached(r) ==
    /\ GoingOn /\ dispatches >= Ceiling
    /\ failure' = "turn_limit" /\ Abort
    /\ EndPass(TRUE)
    /\ UNCHANGED <<graph, claims, starting, work, dispatches, cancelling, noNewDispatch, gates, mjobs>>
    /\ UNCHANGED <<pauseEpisode, timeoutArmed, ends, faults>>

(* maxParallel less what runs, clamped by the dispatches that are left. *)
Room ==
    LET free == MaxParallel - Cardinality(Running)
        left == Ceiling - dispatches
    IN  IF free < left THEN free ELSE left

(* #claimReady, in plan order: what is claimed once i vertices were looked at. *)
Batch[i \in 0..Len(Order)] ==
    IF i = 0 THEN <<>>
    ELSE LET claimed == Batch[i - 1]
         IN  IF Len(claimed) < Room /\ Claimable(Order[i]) THEN Append(claimed, Order[i]) ELSE claimed

Ready == Batch[Len(Order)]

Claim(r) ==
    /\ GoingOn /\ dispatches < Ceiling /\ Ready # <<>>
    /\ status' = [n \in Node |-> IF \E i \in DOMAIN Ready : Ready[i] = n THEN "running" ELSE status[n]]
    /\ claims' = Ready /\ loop' = "waiting" /\ rerun' = r
    /\ UNCHANGED <<chosen, starting, work, dispatches, stop, gates, mjobs, pauseEpisode, timeoutArmed, ends, faults>>

(* An executor, a pause publisher or a claimed decision will ask again. *)
StillBusy ==
    \/ Running # {}
    \/ \E n \in Node : publishing[n] > 0 \/ gate[n] = "claimed"

Parked == (\E n \in Node : gate[n] # "none") \/ jobs # {}

(* #handleIdle: wait, publish the pause once, or fail loudly. *)
Idle(r) ==
    /\ GoingOn /\ dispatches < Ceiling /\ Ready = <<>>
    /\ \/ /\ StillBusy \/ (Parked /\ pauseEpisode)
          /\ EndPass(r)
          /\ UNCHANGED <<pauseEpisode, failure>>
       \/ /\ ~ StillBusy /\ Parked /\ ~ pauseEpisode
          /\ pauseEpisode' = TRUE
          /\ loop' = "pausing" /\ rerun' = r
          /\ UNCHANGED failure
       \/ /\ ~ StillBusy /\ ~ Parked
          /\ failure' = "stalled"
          /\ EndPass(TRUE)
          /\ UNCHANGED pauseEpisode
    /\ UNCHANGED <<graph, claims, starting, work, dispatches, cancelling, aborted, noNewDispatch, grace>>
    /\ UNCHANGED <<gates, mjobs, timeoutArmed, ends, faults>>

Evaluate(r) == Conclude(r) \/ CeilingReached(r) \/ Claim(r) \/ Idle(r)

(* The pass starts in the very call that asked for it.  Skips are written     *)
(* before anything is decided.                                                *)
Pass ==
    /\ loop = "awake" /\ terminal = "none"
    /\ \/ SkipSet = {} /\ Evaluate(FALSE)
       \/ /\ SkipSet # {}
          /\ status' = [n \in Node |-> IF n \in SkipSet THEN "skipped" ELSE status[n]]
          /\ deadline' = deadline \ SkipSet
          /\ loop' = "skipping" /\ rerun' = FALSE
          /\ UNCHANGED <<chosen, claims, starting, task, attempt, landing, dispatches, stop, gates, mjobs>>
          /\ UNCHANGED <<pauseEpisode, timeoutArmed, ends, faults>>

SkipsWritten == loop = "skipping" /\ terminal = "none" /\ Evaluate(rerun)

PauseWritten ==
    /\ loop = "pausing" /\ EndPass(rerun)
    /\ UNCHANGED <<graph, claims, starting, work, dispatches, stop, gates, mjobs, pauseEpisode, timeoutArmed, ends, faults>>

(* Variant: the loop goes idle whatever was asked for meanwhile. *)
EndLoopForgetting ==
    /\ loop = "ending"
    /\ loop' = "idle"
    /\ UNCHANGED <<graph, rerun, claims, starting, work, dispatches, stop, gates, mjobs>>
    /\ UNCHANGED <<pauseEpisode, timeoutArmed, ends, faults>>

(* do ... while (#rerun && !#settled). *)
EndLoop ==
    /\ loop = "ending"
    /\ loop' = IF rerun /\ terminal = "none" THEN "awake" ELSE "idle"
    /\ UNCHANGED <<graph, rerun, claims, starting, work, dispatches, stop, gates, mjobs>>
    /\ UNCHANGED <<pauseEpisode, timeoutArmed, ends, faults>>

-----------------------------------------------------------------------------
(* Starting what was claimed, one vertex at a time.                           *)

(* The finally of #step: what was never started is pending again. *)
GiveUpClaims ==
    /\ claims' = <<>> /\ starting' = NoNode
    /\ EndPass(rerun \/ (claims # <<>> /\ aborted))
    /\ status' = [n \in Node |-> IF n \in Unstarted /\ status[n] = "running" THEN "pending" ELSE status[n]]

(* #waitForConsumer gives up when the run is aborted. *)
WaitAborted ==
    /\ loop = "waiting" /\ aborted /\ terminal = "none"
    /\ GiveUpClaims
    /\ UNCHANGED <<chosen, work, dispatches, stop, gates, mjobs, pauseEpisode, timeoutArmed, ends, faults>>

(* The consumer has room: the head of the batch is started. *)
Start ==
    /\ loop = "waiting" /\ ~ aborted /\ terminal = "none"
    /\ starting' = Head(claims) /\ claims' = Tail(claims)
    /\ dispatches' = dispatches + 1
    /\ attempt' = [attempt EXCEPT ![Head(claims)] = 1]
    /\ loop' = "starting"
    /\ UNCHANGED <<graph, rerun, task, deadline, landing, stop, gates, mjobs, pauseEpisode, timeoutArmed, ends, faults>>

(* The readiness check threw: the head fails without having started. *)
WaitFailed ==
    /\ loop = "waiting" /\ ~ aborted /\ terminal = "none" /\ Fault
    /\ SettleFailed(Head(claims), "internal")
    /\ starting' = Head(claims) /\ loop' = "refusing"
    /\ UNCHANGED <<chosen, rerun, claims, work, dispatches, cancelling, noNewDispatch, gates, mjobs>>
    /\ UNCHANGED <<pauseEpisode, timeoutArmed, ends>>

ArmNodeDeadline(n) == deadline' = IF n \in Timed THEN deadline \cup {n} ELSE deadline

(* node:started is durable: dispatch, unless the run stopped meanwhile. *)
Started ==
    LET n == starting IN
    /\ loop = "starting" /\ terminal = "none"
    /\ \/ /\ noNewDispatch
          /\ GiveUpClaims
          /\ UNCHANGED <<task, deadline, failure, aborted, grace>>
       \/ /\ ~ noNewDispatch /\ aborted
          /\ IF status[n] \in Settled
             THEN UNCHANGED <<status, failure, aborted, grace>>
             ELSE SettleFailed(n, "cancelled")
          /\ loop' = "refusing"
          /\ UNCHANGED <<rerun, claims, starting, task, deadline>>
       \/ /\ ~ aborted
          /\ task' = [task EXCEPT ![n] = "executing"]
          /\ ArmNodeDeadline(n)
          /\ starting' = NoNode
          /\ loop' = IF claims = <<>> THEN "ending" ELSE "waiting"
          /\ UNCHANGED <<status, rerun, claims, failure, aborted, grace>>
    /\ UNCHANGED <<chosen, attempt, landing, dispatches, cancelling, noNewDispatch, gates, mjobs>>
    /\ UNCHANGED <<pauseEpisode, timeoutArmed, ends, faults>>

(* The refused vertex is on record; #settleFailedOrBackstop asks again. *)
Refused ==
    /\ loop = "refusing" /\ terminal = "none"
    /\ claims' = <<>> /\ starting' = NoNode
    /\ EndPass(TRUE)
    /\ status' = [n \in Node |-> IF n \in Unstarted /\ status[n] = "running" THEN "pending" ELSE status[n]]
    /\ UNCHANGED <<chosen, work, dispatches, stop, gates, mjobs, pauseEpisode, timeoutArmed, ends, faults>>

(* The run settled under the pass, which runs out without starting more. *)
Unwind ==
    /\ terminal # "none" /\ loop \notin {"idle", "ending"}
    /\ GiveUpClaims
    /\ UNCHANGED <<chosen, work, dispatches, stop, gates, mjobs, pauseEpisode, timeoutArmed, ends, faults>>

-----------------------------------------------------------------------------
(* The dispatch of a vertex.  #onOutcome ignores a vertex that has settled,   *)
(* and #activeDispatchByVertex is emptied exactly when noNewDispatch is set:  *)
(* from then on an attempt can only report that it was cancelled.             *)

Land(n) == landing' = landing \cup {n}

Executing(n) == task[n] = "executing" /\ terminal = "none"
Finish(n) == task' = [task EXCEPT ![n] = "none"]

OpenForOutcome(n) == status[n] \notin Settled

RespondLate(n) ==
    /\ Executing(n) /\ ~ OpenForOutcome(n)
    /\ Finish(n)
    /\ UNCHANGED <<graph, pass, attempt, deadline, landing, dispatches, stop, gates, mjobs, pauseEpisode, timeoutArmed, ends, faults>>

(* #settleCompleted; a condition also says which of its edges live. *)
RespondCompleted(n) ==
    /\ Executing(n) /\ OpenForOutcome(n) /\ ~ noNewDispatch /\ n \notin Gates \cup MediaNodes
    /\ status' = [status EXCEPT ![n] = "completed"]
    /\ \E S \in SUBSET Succ(n) :
          /\ n \notin Conditions => S = {}
          /\ chosen' = [chosen EXCEPT ![n] = S]
    /\ Finish(n) /\ Land(n)
    /\ UNCHANGED <<pass, attempt, deadline, dispatches, stop, gates, mjobs, pauseEpisode, timeoutArmed, ends, faults>>

(* Variant: a retry is not held to the dispatch ceiling. *)
ShouldRetryPastCeiling(n) == attempt[n] < RetryMax[n] /\ ~ Stopping /\ ~ noNewDispatch

ShouldRetry(n) ==
    attempt[n] < RetryMax[n] /\ ~ Stopping /\ ~ noNewDispatch /\ dispatches < Ceiling

(* A failure that is not retried.  A retry without headroom is one too. *)
RespondFailed(n) ==
    /\ Executing(n) /\ OpenForOutcome(n)
    /\ SettleFailed(n, "node")
    /\ Finish(n) /\ Land(n)
    /\ UNCHANGED <<chosen, pass, attempt, deadline, dispatches, cancelling, noNewDispatch, gates, mjobs>>
    /\ UNCHANGED <<pauseEpisode, timeoutArmed, ends, faults>>

(* A retryable failure: node:retrying is written, then the backoff runs. *)
RespondRetryable(n) ==
    /\ Executing(n) /\ OpenForOutcome(n) /\ ShouldRetry(n)
    /\ task' = [task EXCEPT ![n] = "backoff"]
    /\ UNCHANGED <<graph, pass, attempt, deadline, landing, dispatches, stop, gates, mjobs, pauseEpisode, timeoutArmed, ends, faults>>

(* The backoff ended, or the abort cut it short. *)
BackoffOver(n) ==
    /\ task[n] = "backoff" /\ terminal = "none"
    /\ IF cancelling \/ aborted
       THEN /\ Finish(n)
            /\ IF OpenForOutcome(n)
               THEN SettleFailed(n, "node") /\ Land(n)
               ELSE UNCHANGED <<status, failure, aborted, grace, landing>>
            /\ UNCHANGED <<attempt, dispatches>>
       ELSE /\ task' = [task EXCEPT ![n] = "restarting"]
            /\ attempt' = [attempt EXCEPT ![n] = @ + 1]
            /\ dispatches' = dispatches + 1
            /\ UNCHANGED <<status, failure, aborted, grace, landing>>
    /\ UNCHANGED <<chosen, pass, deadline, cancelling, noNewDispatch, gates, mjobs, pauseEpisode, timeoutArmed, ends, faults>>

(* node:started of the next attempt is durable. *)
Restarted(n) ==
    /\ task[n] = "restarting" /\ terminal = "none"
    /\ \/ /\ noNewDispatch
          /\ Finish(n)
          /\ UNCHANGED <<status, failure, aborted, grace, landing>>
       \/ /\ ~ noNewDispatch /\ aborted
          /\ Finish(n) /\ Land(n)
          /\ IF status[n] \in Settled
             THEN UNCHANGED <<status, failure, aborted, grace>>
             ELSE SettleFailed(n, "cancelled")
       \/ /\ ~ aborted
          /\ task' = [task EXCEPT ![n] = "executing"]
          /\ UNCHANGED <<status, failure, aborted, grace, landing>>
    /\ UNCHANGED <<chosen, pass, attempt, deadline, dispatches, cancelling, noNewDispatch, gates, mjobs>>
    /\ UNCHANGED <<pauseEpisode, timeoutArmed, ends, faults>>

(* A settlement is on record: #onOutcome and its like call #schedule last. *)
Landed(n) ==
    /\ n \in landing /\ terminal = "none"
    /\ landing' = landing \ {n}
    /\ Schedule
    /\ UNCHANGED <<graph, claims, starting, task, attempt, deadline, dispatches, stop, gates, mjobs>>
    /\ UNCHANGED <<pauseEpisode, timeoutArmed, ends, faults>>

(* Some append failed: the writer fails the run and asks for a pass. *)
AppendUnderWay ==
    \/ loop \in {"skipping", "pausing", "starting", "refusing"} \/ landing # {} \/ grace = "sweeping"
    \/ \E n \in Node : task[n] \in {"backoff", "restarting"} \/ publishing[n] > 0
    \/ \E n \in Node : decide[n] \in {"approving", "rejecting"} \/ media[n] = "submitting"

AppendFailed ==
    /\ terminal = "none" /\ AppendUnderWay /\ Fault
    /\ failure = "none" /\ ~ cancelling
    /\ failure' = "durability" /\ Abort
    /\ Schedule
    /\ UNCHANGED <<graph, claims, starting, work, dispatches, cancelling, noNewDispatch, gates, mjobs>>
    /\ UNCHANGED <<pauseEpisode, timeoutArmed, ends>>

-----------------------------------------------------------------------------
(* Stopping: cancel, the run's timeout, a vertex's deadline, the grace window *)

RequestCancel ==
    /\ Cancels /\ terminal = "none" /\ ~ cancelling
    /\ cancelling' = TRUE /\ Abort
    /\ Schedule
    /\ UNCHANGED <<graph, claims, starting, work, dispatches, failure, noNewDispatch, gates, mjobs>>
    /\ UNCHANGED <<pauseEpisode, timeoutArmed, ends, faults>>

(* #onRunTimeout replaces any failure; run:timeout is written afterwards. *)
RunTimeout ==
    /\ timeoutArmed /\ terminal = "none"
    /\ timeoutArmed' = FALSE
    /\ failure' = "run_timeout" /\ Abort
    /\ Land(NoNode)
    /\ UNCHANGED <<graph, pass, task, attempt, deadline, dispatches, cancelling, noNewDispatch, gates, mjobs>>
    /\ UNCHANGED <<pauseEpisode, ends, faults>>

(* Variant: the deadline does not look at what the vertex has become. *)
NodeDeadlineUnchecked(n) ==
    /\ n \in deadline /\ terminal = "none"
    /\ deadline' = deadline \ {n}
    /\ SettleFailed(n, "run_timeout") /\ Land(n)
    /\ UNCHANGED <<chosen, pass, task, attempt, dispatches, cancelling, noNewDispatch, gates, mjobs>>
    /\ UNCHANGED <<pauseEpisode, timeoutArmed, ends, faults>>

NodeDeadline(n) ==
    /\ n \in deadline /\ terminal = "none"
    /\ deadline' = deadline \ {n}
    /\ IF OpenForOutcome(n)
       THEN SettleFailed(n, "run_timeout") /\ Land(n)
       ELSE UNCHANGED <<status, failure, aborted, grace, landing>>
    /\ UNCHANGED <<chosen, pass, task, attempt, dispatches, cancelling, noNewDispatch, gates, mjobs>>
    /\ UNCHANGED <<pauseEpisode, timeoutArmed, ends, faults>>

(* The executors had their time: no dispatch is live any more. *)
GraceElapsed ==
    /\ grace = "armed" /\ terminal = "none"
    /\ grace' = "sweeping" /\ noNewDispatch' = TRUE /\ deadline' = {}
    /\ UNCHANGED <<graph, pass, task, attempt, landing, dispatches, cancelling, failure, aborted, gates, mjobs>>
    /\ UNCHANGED <<pauseEpisode, timeoutArmed, ends, faults>>

Abandonable(n) == status[n] = "running" /\ n \notin Unstarted

(* Every started vertex gets its node:failed, one append after another ... *)
GraceAbandons(n) ==
    /\ grace = "sweeping" /\ terminal = "none" /\ Abandonable(n)
    /\ SettleFailed(n, "cancelled")
    /\ UNCHANGED <<chosen, pass, work, dispatches, cancelling, noNewDispatch, gates, mjobs>>
    /\ UNCHANGED <<pauseEpisode, timeoutArmed, ends, faults>>

(* ... and the loop is asked to close the run. *)
GraceSwept ==
    /\ grace = "sweeping" /\ terminal = "none" /\ ~ \E n \in Node : Abandonable(n)
    /\ grace' = "done"
    /\ failure' = IF failure = "none" /\ ~ cancelling THEN "run_timeout" ELSE failure
    /\ Schedule
    /\ UNCHANGED <<graph, claims, starting, work, dispatches, cancelling, aborted, noNewDispatch, gates, mjobs>>
    /\ UNCHANGED <<pauseEpisode, timeoutArmed, ends, faults>>

(* The money barrier is joined, then the terminal is written; a barrier that  *)
(* fails turns a completed run into a failed one.                             *)
PublishTerminal ==
    /\ terminal # "none" /\ published = "none"
    /\ \/ published' = terminal /\ UNCHANGED <<failure, faults>>
       \/ /\ Fault
          /\ failure' = IF failure = "none" THEN "durability" ELSE failure
          /\ published' = IF terminal = "completed" THEN "failed" ELSE terminal
    /\ UNCHANGED <<graph, pass, work, dispatches, cancelling, aborted, noNewDispatch, grace, gates, mjobs>>
    /\ UNCHANGED <<pauseEpisode, timeoutArmed, terminal>>

-----------------------------------------------------------------------------
(* Gates.  A pause is visible at once and written afterwards; a decision is   *)
(* claimed before its first await at a human gate, and after its preparation  *)
(* at a budget gate.                                                          *)

CanAuthorize == ~ Stopping /\ ~ noNewDispatch

RespondPaused(n) ==
    /\ Executing(n) /\ OpenForOutcome(n) /\ ~ noNewDispatch
    /\ n \in Gates \/ (n \in Budgeted /\ pauses[n] < MaxPauses)
    /\ status' = [status EXCEPT ![n] = "paused"]
    /\ gate' = [gate EXCEPT ![n] = "open"]
    /\ pauses' = [pauses EXCEPT ![n] = @ + 1]
    /\ publishing' = [publishing EXCEPT ![n] = @ + 1]
    /\ acked' = IF n \in Gates THEN acked \cup {n} ELSE acked \ {n}
    /\ Finish(n)
    /\ UNCHANGED <<chosen, pass, attempt, deadline, landing, dispatches, stop, gateTimer, decide, callers, mjobs>>
    /\ UNCHANGED <<pauseEpisode, timeoutArmed, ends, faults>>

(* budget:authorization is durable: from here on a decision is accepted. *)
PauseAcked(n) ==
    /\ publishing[n] > 0 /\ n \notin acked /\ terminal = "none" /\ CanAuthorize
    /\ acked' = acked \cup {n}
    /\ UNCHANGED <<graph, pass, work, dispatches, stop, gate, publishing, gateTimer, decide, callers, pauses, mjobs>>
    /\ UNCHANGED <<pauseEpisode, timeoutArmed, ends, faults>>

(* The last companion is written, or the stop made #publishPause give up. *)
PausePublished(n) ==
    /\ publishing[n] > 0 /\ terminal = "none"
    /\ n \in acked \/ ~ CanAuthorize
    /\ publishing' = [publishing EXCEPT ![n] = @ - 1]
    /\ gateTimer' = IF /\ n \in Gates /\ gate[n] = "open" /\ GateAction[n] # "none"
                       /\ ~ cancelling /\ failure = "none"
                    THEN gateTimer \cup {n} ELSE gateTimer
    /\ Schedule
    /\ UNCHANGED <<graph, claims, starting, work, dispatches, stop, gate, acked, decide, callers, pauses, mjobs>>
    /\ UNCHANGED <<pauseEpisode, timeoutArmed, ends, faults>>

(* The claim is taken before any await and the gate stays pending. *)
ClaimGate(n) ==
    /\ gate' = [gate EXCEPT ![n] = "claimed"]
    /\ decide' = [decide EXCEPT ![n] = "checking"]

(* resume at a human gate. *)
GateDecision(n) ==
    /\ n \in Gates /\ gate[n] = "open" /\ terminal = "none"
    /\ ClaimGate(n)
    /\ UNCHANGED <<graph, pass, work, dispatches, stop, publishing, acked, gateTimer, callers, pauses, mjobs>>
    /\ UNCHANGED <<pauseEpisode, timeoutArmed, ends, faults>>

(* #onGateTimeout: approve as a decision, or fail the vertex. *)
GateTimeout(n) ==
    /\ n \in gateTimer /\ gate[n] = "open" /\ terminal = "none"
    /\ gateTimer' = gateTimer \ {n}
    /\ IF GateAction[n] = "approve"
       THEN ClaimGate(n) /\ UNCHANGED <<status, failure, aborted, grace, landing>>
       ELSE /\ gate' = [gate EXCEPT ![n] = "none"]
            /\ SettleFailed(n, "run_timeout") /\ Land(n)
            /\ UNCHANGED decide
    /\ UNCHANGED <<chosen, pass, task, attempt, deadline, dispatches, cancelling, noNewDispatch>>
    /\ UNCHANGED <<publishing, acked, callers, pauses, mjobs, pauseEpisode, timeoutArmed, ends, faults>>

(* #effectResumeGateOrFail said no: the run is settled where it stands. *)
ResumeRefused(n) ==
    /\ \/ Stopping /\ UNCHANGED failure
       \/ ~ Stopping /\ Unresolved /\ failure' = "effects"
    /\ gate' = [gate EXCEPT ![n] = "none"]
    /\ Settle("failed")

(* The effect gate answered a claimed human decision. *)
DecisionChecked(n) ==
    /\ decide[n] = "checking" /\ terminal = "none"
    /\ \/ /\ ResumeRefused(n)
          /\ decide' = [decide EXCEPT ![n] = "none"]
          /\ UNCHANGED pauseEpisode
       \/ /\ ~ Stopping
          /\ decide' = [decide EXCEPT ![n] = "pinning"]
          /\ gateTimer' = gateTimer \ {n} /\ pauseEpisode' = FALSE
          /\ UNCHANGED <<gate, failure, aborted, grace, deadline, jobs, timeoutArmed, terminal>>
    /\ UNCHANGED <<graph, pass, task, attempt, landing, dispatches, cancelling, noNewDispatch>>
    /\ UNCHANGED <<publishing, acked, callers, pauses, media, published, faults>>

(* The payload is pinned, or cannot be. *)
DecisionPinned(n) ==
    /\ decide[n] = "pinning" /\ terminal = "none"
    /\ decide' = [decide EXCEPT ![n] = "none"]
    /\ \/ /\ Fault
          /\ status' = [status EXCEPT ![n] = IF @ = "paused" THEN "failed" ELSE @]
          /\ FailRun("node") /\ Schedule
          /\ UNCHANGED <<gate, deadline, landing>>
       \/ /\ cancelling \/ aborted \/ status[n] # "paused"
          /\ UNCHANGED <<status, failure, aborted, grace, loop, rerun, gate, deadline, landing, faults>>
       \/ /\ ~ cancelling /\ ~ aborted /\ status[n] = "paused"
          /\ gate' = [gate EXCEPT ![n] = "none"]
          /\ status' = [status EXCEPT ![n] = "completed"]
          /\ deadline' = deadline \ {n}
          /\ Land(n)
          /\ UNCHANGED <<failure, aborted, grace, loop, rerun, faults>>
    /\ UNCHANGED <<chosen, claims, starting, task, attempt, dispatches, cancelling, noNewDispatch>>
    /\ UNCHANGED <<publishing, acked, gateTimer, callers, pauses, mjobs, pauseEpisode, timeoutArmed, ends>>

(* resume at a budget gate: the caller prepares before it claims, so several  *)
(* callers may be preparing for the same gateId.                              *)
BudgetDecision(n, verdict) ==
    /\ n \in Budgeted /\ gate[n] = "open" /\ n \in acked /\ terminal = "none"
    /\ callers' = callers \cup {<<n, verdict, pauses[n]>>}
    /\ UNCHANGED <<graph, pass, work, dispatches, stop, gate, publishing, acked, gateTimer, decide, pauses, mjobs>>
    /\ UNCHANGED <<pauseEpisode, timeoutArmed, ends, faults>>

GateStillOpen(c) == gate[c[1]] = "open" /\ c[3] = pauses[c[1]]

(* The preparation and the effect gate are behind the caller. *)
BudgetPrepared(c) ==
    LET n == c[1] IN
    /\ c \in callers /\ terminal = "none"
    /\ callers' = callers \ {c}
    /\ \/ ResumeRefused(n) /\ UNCHANGED decide
       \/ /\ ~ Stopping /\ GateStillOpen(c) /\ ~ noNewDispatch
          /\ gate' = [gate EXCEPT ![n] = "claimed"]
          /\ decide' = [decide EXCEPT ![n] = IF c[2] = "approve" THEN "approving" ELSE "rejecting"]
          /\ UNCHANGED <<failure, aborted, grace, deadline, gateTimer, jobs, timeoutArmed, terminal>>
       \/ /\ c[2] = "approve" \/ (~ Stopping /\ ~ GateStillOpen(c))   \* unpreparable, or too late
          /\ UNCHANGED <<gate, decide, failure, aborted, grace, deadline, gateTimer, jobs, timeoutArmed, terminal>>
    /\ UNCHANGED <<graph, pass, task, attempt, landing, dispatches, cancelling, noNewDispatch>>
    /\ UNCHANGED <<publishing, acked, pauses, media, pauseEpisode, published, faults>>

Acknowledged == CanAuthorize

(* Both records of the decision are durable, or the stop overtook them. *)
BudgetDecided(n) ==
    /\ decide[n] \in {"approving", "rejecting"} /\ terminal = "none"
    /\ decide' = [decide EXCEPT ![n] = "none"]
    /\ gate' = [gate EXCEPT ![n] = "none"] /\ pauseEpisode' = FALSE
    /\ Schedule
    /\ \/ /\ Acknowledged /\ decide[n] = "approving"
          /\ status' = [status EXCEPT ![n] = "pending"]
          /\ UNCHANGED <<failure, aborted, grace, deadline>>
       \/ /\ Acknowledged /\ decide[n] = "rejecting"
          /\ status' = [status EXCEPT ![n] = IF @ \in {"paused", "running"} THEN "failed" ELSE @]
          /\ FailRun("budget_exceeded")
          /\ deadline' = deadline \ {n}
       \/ ~ Acknowledged /\ UNCHANGED <<status, failure, aborted, grace, deadline>>
    /\ UNCHANGED <<chosen, claims, starting, task, attempt, landing, dispatches, cancelling, noNewDispatch>>
    /\ UNCHANGED <<publishing, acked, gateTimer, callers, pauses, mjobs, timeoutArmed, ends, faults>>

-----------------------------------------------------------------------------
(* Asynchronous media jobs: park the vertex, poll, fetch the bytes, settle.   *)

RespondMediaJob(n) ==
    /\ Executing(n) /\ OpenForOutcome(n) /\ ~ noNewDispatch /\ n \in MediaNodes
    /\ status' = [status EXCEPT ![n] = "paused"]
    /\ jobs' = jobs \cup {n}
    /\ media' = [media EXCEPT ![n] = "submitting"]
    /\ Finish(n)
    /\ UNCHANGED <<chosen, pass, attempt, deadline, landing, dispatches, stop, gates, pauseEpisode, timeoutArmed, ends, faults>>

(* media_job:submitted is durable: the poll timer is armed. *)
MediaSubmitted(n) ==
    /\ media[n] = "submitting" /\ terminal = "none"
    /\ media' = [media EXCEPT ![n] = "polling"]
    /\ Schedule
    /\ UNCHANGED <<graph, claims, starting, work, dispatches, stop, gates, jobs, pauseEpisode, timeoutArmed, ends, faults>>

(* A poll failed, or the job's own deadline passed, which an abort does not
   stop.  A "pending" answer arms the next poll and changes nothing. *)
PollFailed(n) ==
    /\ media[n] = "polling" /\ n \in jobs /\ terminal = "none"
    /\ media' = [media EXCEPT ![n] = "none"]
    /\ jobs' = jobs \ {n} /\ pauseEpisode' = FALSE
    /\ IF OpenForOutcome(n)
       THEN SettleFailed(n, "node") /\ Land(n)
       ELSE UNCHANGED <<status, failure, aborted, grace, landing>>
    /\ UNCHANGED <<chosen, pass, task, attempt, deadline, dispatches, cancelling, noNewDispatch, gates>>
    /\ UNCHANGED <<timeoutArmed, ends, faults>>

PollAborted(n) ==
    /\ media[n] = "polling" /\ aborted /\ terminal = "none"
    /\ media' = [media EXCEPT ![n] = "none"]
    /\ UNCHANGED <<graph, pass, work, dispatches, stop, gates, jobs, pauseEpisode, timeoutArmed, ends, faults>>

(* The job is taken off the list before its bytes are fetched. *)
PollDone(n) ==
    /\ media[n] = "polling" /\ n \in jobs /\ ~ aborted /\ terminal = "none"
    /\ media' = [media EXCEPT ![n] = "pinning"]
    /\ jobs' = jobs \ {n} /\ pauseEpisode' = FALSE
    /\ UNCHANGED <<graph, pass, work, dispatches, stop, gates, timeoutArmed, ends, faults>>

MediaPinned(n) ==
    /\ media[n] = "pinning" /\ terminal = "none"
    /\ media' = [media EXCEPT ![n] = "none"]
    /\ IF OpenForOutcome(n)
       THEN /\ Land(n)
            /\ \/ Fault /\ SettleFailed(n, "node")
               \/ /\ status' = [status EXCEPT ![n] = "completed"]
                  /\ UNCHANGED <<failure, aborted, grace, faults>>
       ELSE UNCHANGED <<status, failure, aborted, grace, landing, faults>>
    /\ UNCHANGED <<chosen, pass, task, attempt, deadline, dispatches, cancelling, noNewDispatch, gates>>
    /\ UNCHANGED <<jobs, pauseEpisode, timeoutArmed, ends>>

-----------------------------------------------------------------------------
(* The scheduling coroutine, the grace timer's, and everything else.          *)
LoopStep == Pass \/ SkipsWritten \/ PauseWritten \/ WaitAborted \/ Started \/ Refused \/ Unwind \/ EndLoop
GraceStep == GraceElapsed \/ (\E n \in Node : GraceAbandons(n)) \/ GraceSwept

(* What the host, the executor and the people at the gates do.                *)
Respond(n) ==
    \/ RespondLate(n) \/ RespondCompleted(n) \/ RespondFailed(n) \/ RespondRetryable(n)
    \/ RespondPaused(n) \/ RespondMediaJob(n)
Continue(n) ==
    \/ BackoffOver(n) \/ Restarted(n) \/ PauseAcked(n) \/ PausePublished(n)
    \/ DecisionChecked(n) \/ DecisionPinned(n) \/ BudgetDecided(n)
    \/ MediaSubmitted(n) \/ PollFailed(n) \/ PollAborted(n) \/ PollDone(n) \/ MediaPinned(n)

(* A pass that was asked for runs before anything else can: it is a call. *)
Elsewhere ==
    \/ Start \/ WaitFailed \/ AppendFailed \/ RequestCancel \/ RunTimeout \/ GraceStep \/ PublishTerminal
    \/ \E n \in Node : Respond(n) \/ Continue(n) \/ NodeDeadline(n) \/ GateDecision(n) \/ GateTimeout(n)
    \/ \E n \in Node, v \in {"approve", "reject"} : BudgetDecision(n, v)
    \/ \E c \in callers : BudgetPrepared(c)
    \/ \E n \in Node \cup {NoNode} : Landed(n)

Next == LoopStep \/ (loop # "awake" /\ Elsewhere)

Spec == Init /\ [][Next]_vars

(* Appends end and timers fire.  Nothing is assumed of the executors, of the  *)
(* event consumer or of the people who decide.                                *)
StopFairness ==
    /\ WF_vars(LoopStep) /\ WF_vars(loop # "awake" /\ GraceStep)
    /\ WF_vars(loop # "awake" /\ PublishTerminal)
    /\ \A n \in Node \cup {NoNode} : WF_vars(loop # "awake" /\ Landed(n))

StopSpec == Spec /\ StopFairness

(* The executors answer and the consumer reads. *)
Answering ==
    /\ WF_vars(loop # "awake" /\ Start)
    /\ \A n \in Node : WF_vars(loop # "awake" /\ (Respond(n) \/ Continue(n)))

-----------------------------------------------------------------------------
(* The fields of RunExecution keep their types. *)
TypeOK ==
    /\ status \in [Node -> {"pending", "running", "paused"} \cup Settled]
    /\ chosen \in [Node -> SUBSET Node]
    /\ loop \in {"idle", "awake", "skipping", "pausing", "waiting", "starting", "refusing", "ending"}
    /\ rerun \in BOOLEAN /\ claims \in Seq(Node) /\ starting \in Node \cup {NoNode}
    /\ task \in [Node -> {"none", "executing", "backoff", "restarting"}]
    /\ attempt \in [Node -> Nat] /\ dispatches \in Nat
    /\ deadline \subseteq Timed /\ landing \subseteq Node \cup {NoNode}
    /\ cancelling \in BOOLEAN /\ aborted \in BOOLEAN /\ noNewDispatch \in BOOLEAN
    /\ failure \in {"none", "node", "cancelled", "internal", "run_timeout", "turn_limit", "stalled",
                     "durability", "effects", "budget_exceeded"}
    /\ grace \in {"off", "armed", "sweeping", "done"}
    /\ gate \in [Node -> {"none", "open", "claimed"}]
    /\ publishing \in [Node -> Nat] /\ acked \subseteq Node /\ gateTimer \subseteq Gates
    /\ decide \in [Node -> {"none", "checking", "pinning", "approving", "rejecting"}]
    /\ callers \subseteq Node \X {"approve", "reject"} \X Nat /\ pauses \in [Node -> Nat]
    /\ jobs \subseteq MediaNodes
    /\ media \in [Node -> {"none", "submitting", "polling", "pinning"}]
    /\ pauseEpisode \in BOOLEAN /\ timeoutArmed \in BOOLEAN
    /\ terminal \in {"none", "completed", "failed", "cancelled"}
    /\ published \in {"none", "completed", "failed", "cancelled"} /\ faults \in Nat

(* A vertex settles once: whatever a late outcome, a deadline, a gate timeout,
   the grace sweep or an approval does, a completed, failed or skipped vertex
   stays what it is (the guards of #onOutcome, #settleFailedOrBackstop,
   #onNodeDeadline, #failGateResume). *)
SettledIsFinal == [][\A n \in Node : status[n] \in Settled => status'[n] = status[n]]_vars

(* Nothing ran out of turn: a vertex that was ever claimed has all its
   dependencies settled and an edge that is still live, and a skipped one has
   no live edge, at any later moment (#claimReady, #propagateSkips). *)
RanOnlyWhenReady ==
    \A n \in Node :
        LET alive == Deps[n] = {} \/ \E m \in Deps[n] :
                        status[m] = "completed" /\ (m \in Conditions => n \in chosen[m])
        IN  /\ status[n] # "pending" => \A m \in Deps[n] : status[m] \in Settled
            /\ status[n] \in {"running", "paused", "completed", "failed"} => alive
            /\ status[n] = "skipped" => ~ alive

(* run:completed means that every vertex completed or was skipped and nothing
   is parked, being decided or cancelling (#step, #settle). *)
CompletionIsClean ==
    terminal = "completed" =>
        /\ ~ cancelling
        /\ \A n \in Node : status[n] \in {"completed", "skipped"} /\ gate[n] = "none" /\ n \notin jobs

(* Some coroutine is under way that ends in #schedule. *)
PassIsDue ==
    \/ landing # {} \/ grace = "sweeping"
    \/ \E n \in Node :
          \/ task[n] # "none" /\ status[n] = "running"
          \/ publishing[n] > 0 \/ media[n] \in {"submitting", "pinning"}
          \/ decide[n] # "none"

(* The loop never sleeps on a run it should advance: when it is idle and no
   coroutine will wake it, the run is parked on an undecided gate or a live
   media job, has said so, and nobody has told it to stop - it never merely
   waits for the grace timer (#schedule, #handleIdle, the finally of #step). *)
NeverWedged ==
    loop = "idle" /\ terminal = "none" /\ ~ PassIsDue =>
        /\ ~ Stopping /\ pauseEpisode
        /\ (\E n \in Node : gate[n] = "open") \/ (\E n \in jobs : media[n] = "polling")

(* A vertex that can be dispatched while a slot is free is never overlooked:
   if the loop is idle, the coroutine that will wake it is still writing. *)
NoLostWakeup ==
    loop = "idle" /\ terminal = "none" /\ GoingOn /\ Ready # <<>> =>
        \/ landing # {}
        \/ \E n \in Node : publishing[n] > 0 \/ media[n] = "submitting"

(* Whatever the terminal, a vertex whose node:started was written has its
   partner: what is still marked running was only claimed (#settle, ADR-0085
   section 4).  Without gates: README, section 5. *)
NoOrphanStart == terminal # "none" => Running \subseteq Unstarted

(* No vertex is overlooked, neither one that is ready while the run goes on nor
   one that was started when it ends (#schedule, #settle). *)
NothingOverlooked == NoLostWakeup /\ NoOrphanStart

(* At most maxParallel vertices are claimed at any time, although the count is
   taken before the awaits of the batch (#claimReady). *)
ParallelismBounded == Cardinality(Running) <= MaxParallel

(* The dispatch ceiling may be overshot, because a retry is checked before its
   backoff and counted after it, but never by a full batch (ADR-0086 section 4,
   #dispatchLoop). *)
DispatchesNearCeiling == dispatches <= Ceiling + MaxParallel - 1

(* Both limits of a run hold through every await. *)
WithinCeilings == ParallelismBounded /\ DispatchesNearCeiling

(* No executor is entered once the run is aborted, however long the append of
   its node:started took (#step, #dispatchLoop). *)
NoDispatchAfterAbort ==
    [][\A n \in Node : aborted /\ task[n] # "executing" => task'[n] # "executing"]_vars

(* What is over stays over, for a vertex and for an aborted run. *)
EndsAreFinal == SettledIsFinal /\ NoDispatchAfterAbort

(* A cancelled run closes as run:cancelled, whatever races with it
   (ADR-0036, the header of engine.ts).  With gates it does not hold: README,
   section 5. *)
CancelWins == cancelling /\ terminal # "none" => terminal = "cancelled"

(* The loud stall of #handleIdle, which the code calls an invariant breach,
   never happens.  It does: README, section 5. *)
NoFalseStall == failure # "stalled"

(* An executor that ignores the abort signal cannot keep the run open: once it
   is cancelled or has failed, the run gets its terminal (ADR-0085 section 3). *)
StopsWhenTold == (cancelling \/ failure # "none") ~> published # "none"

(* A run that is told to stop stops, and one whose executors answer and whose
   consumer reads comes to an end, or to rest on a gate that nobody decides. *)
RunEnds ==
    /\ StopsWhenTold
    /\ Answering => <>(published # "none" \/ [](\E n \in Node : gate[n] = "open"))
(* The graph of the run, as somebody sees it who does not know the loop. *)
Fate(n) ==
    CASE status[n] = "pending" -> "waiting"
      [] status[n] \in {"running", "paused"} -> "active"
      [] OTHER -> status[n]
Fates == [n \in Node |-> Fate(n)]
Graph == INSTANCE GraphRun WITH
    Vertices <- Node, Dependencies <- Deps, Choosers <- Conditions,
    fate <- Fates, branches <- chosen, outcome <- published

(* The loop, its dispatches, timers and deciders implement GraphRun: whatever
   they do between each other's awaits, every vertex is taken up in its turn
   and over once, nothing is taken up after a failure, and nothing settles
   once the run has its outcome (#claimReady, #onOutcome, #settle). *)
ImplementsGraph == Graph!Spec

=============================================================================

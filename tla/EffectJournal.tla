---------------------------- MODULE EffectJournal ----------------------------
(***************************************************************************)
(* The effects of one node of a run, and the journal that brackets them.    *)
(*                                                                          *)
(* A tool call that changes something outside the process is prepared in    *)
(* the journal, sent, and settled.  The row is keyed by the run, the node,  *)
(* the ordinal of the call and the tool, whatever the attempt and whoever   *)
(* the process.  A second attempt gets the recorded result or a refusal; a  *)
(* resumed run does not start while a row is unresolved; a process that     *)
(* ends reports whether it leaves an effect behind, and sweeps the rows of  *)
(* a run that it takes to be over.                                          *)
(*                                                                          *)
(* Source: packages/core/src/tools/registry.ts, packages/core/src/engine/   *)
(* engine.ts and effect-receipt-health.ts, packages/db/src/                 *)
(* effect-journal-store.ts, apps/cli/src/commands/run.ts and drive.ts.      *)
(***************************************************************************)
EXTENDS Integers, FiniteSets

CONSTANTS
    Proc,        \* processes, each drives the run at most once
    NoProc,
    Effect,      \* identities: the ordinal of a call in the node, and its tool
    Args,        \* digests of redacted arguments
    MaxAttempts, \* bound of the node's retry budget
    MaxFaults,   \* bound: storage operations that fail
    MaxStalls,   \* bound: leases that run out under a living owner
    MaxCrashes   \* bound: processes that die

ASSUME JournalConstants ==
    /\ NoProc \notin Proc /\ MaxAttempts \in Nat \ {0}
    /\ MaxFaults \in Nat /\ MaxStalls \in Nat /\ MaxCrashes \in Nat

VARIABLES
    rows,      \* run_effects: the row of each identity, if there is one
    begun,     \* run:started is in the log
    node,      \* whether the log has an outcome of the node: "open" or "done"
    over,      \* the process whose terminal is in the log, or NoProc
    gate,      \* another branch waits at a human gate: the run can be resumed
    owner,     \* whose claim on the run is recorded
    eng,       \* what the run loop of each process does
    exec,      \* what the tool dispatch of each process does
    call,      \* the identity the dispatch is about
    tried,     \* identities this attempt has used up
    attempt,   \* the attempt of the node
    live,      \* #isLive of the dispatch: nobody gave up waiting for it
    aborted,   \* the abort signal of the run
    pending,   \* #pending of EffectReceiptHealth
    sticky,    \* #stickyAttention of EffectReceiptHealth
    report,    \* what the exit code says: "none" yet, "clean" or "attention"
    left,      \* history: how often each effect left a process
    swept,     \* history: the identities whose rows were swept
    spent      \* how much of each bound is used

store   == <<rows, begun, node, over, gate, owner>>
process == <<eng, exec, call, tried, attempt, live, aborted>>
health  == <<pending, sticky, report>>
vars    == <<store, process, health, left, swept, spent>>

NoRow == [state |-> "none", args |-> "none", by |-> NoProc]
Row(s, a, p) == [state |-> s, args |-> a, by |-> p]
NoCall == "none"

Spend(b, bound) == spent[b] < bound /\ spent' = [spent EXCEPT ![b] = @ + 1]
Fault == Spend("faults", MaxFaults)

(* A row that stops a resume: anything but a commit with its result. *)
Blocks(e) == rows[e].state \in {"prepared", "ambiguous"}
Unresolved == {e \in Effect : Blocks(e)}

Init ==
    /\ rows = [e \in Effect |-> NoRow] /\ begun = FALSE /\ node = "open" /\ over = NoProc
    /\ gate \in BOOLEAN /\ owner = NoProc
    /\ eng = [p \in Proc |-> "none"] /\ exec = [p \in Proc |-> "idle"]
    /\ call = [p \in Proc |-> NoCall] /\ tried = [p \in Proc |-> {}]
    /\ attempt = [p \in Proc |-> 1] /\ live = [p \in Proc |-> TRUE]
    /\ aborted = [p \in Proc |-> FALSE]
    /\ pending = [p \in Proc |-> {}] /\ sticky = [p \in Proc |-> FALSE]
    /\ report = [p \in Proc |-> "none"]
    /\ left = [e \in Effect |-> 0] /\ swept = {}
    /\ spent = [faults |-> 0, stalls |-> 0, crashes |-> 0]

-----------------------------------------------------------------------------
(* The run: who may start, resume or repair it.                               *)

Begin(p) ==
    /\ ~ begun /\ eng[p] = "none"
    /\ begun' = TRUE /\ owner' = p /\ eng' = [eng EXCEPT ![p] = "running"]
    /\ UNCHANGED <<rows, node, over, gate, exec, call, tried, attempt, live, aborted>>
    /\ UNCHANGED <<health, left, swept, spent>>

(* A decision at the other gate resumes the run from its checkpoint. *)
Resume(p) ==
    /\ begun /\ gate /\ over = NoProc /\ owner = NoProc /\ eng[p] = "none"
    /\ owner' = p /\ eng' = [eng EXCEPT ![p] = "gating"]
    /\ UNCHANGED <<rows, begun, node, over, gate, exec, call, tried, attempt, live, aborted>>
    /\ UNCHANGED <<health, left, swept, spent>>

(* Variant: a journal that cannot be read lets the run go on. *)
ReadGateFailOpen(p) ==
    /\ eng[p] = "gating" /\ ((Unresolved = {} /\ UNCHANGED spent) \/ Fault)
    /\ eng' = [eng EXCEPT ![p] = IF node = "open" THEN "running" ELSE "settling"]
    /\ UNCHANGED <<store, exec, call, tried, attempt, live, aborted, health, left, swept>>

(* The pre-flight gate of a resumed run.  A stopped run does not look; an
   unresolved row, or a journal that cannot be read, asks for attention. *)
ReadGate(p) ==
    /\ eng[p] = "gating"
    /\ \/ /\ aborted[p] /\ UNCHANGED <<sticky, spent>>
          /\ eng' = [eng EXCEPT ![p] = "settling"]
       \/ /\ ~ aborted[p] /\ Unresolved = {} /\ UNCHANGED <<sticky, spent>>
          /\ eng' = [eng EXCEPT ![p] = IF node = "open" THEN "running" ELSE "settling"]
       \/ /\ ~ aborted[p] /\ ((Unresolved # {} /\ UNCHANGED spent) \/ Fault)
          /\ sticky' = [sticky EXCEPT ![p] = TRUE]
          /\ eng' = [eng EXCEPT ![p] = "settling"]
    /\ UNCHANGED <<store, exec, call, tried, attempt, live, aborted, pending, report, left, swept>>

(* A run that nobody drives and that cannot be resumed is closed on the next
   start.  The journal decides how the failure is labelled. *)
RepairRead(p) ==
    /\ begun /\ ~ gate /\ over = NoProc /\ owner = NoProc /\ eng[p] = "none"
    /\ owner' = p /\ eng' = [eng EXCEPT ![p] = "repairing"]
    /\ \/ sticky' = [sticky EXCEPT ![p] = Unresolved # {}] /\ UNCHANGED spent
       \/ sticky' = [sticky EXCEPT ![p] = TRUE] /\ Fault
    /\ UNCHANGED <<rows, begun, node, over, gate, exec, call, tried, attempt, live, aborted>>
    /\ UNCHANGED <<pending, report, left, swept>>

RepairWrite(p) ==
    /\ eng[p] = "repairing" /\ eng' = [eng EXCEPT ![p] = "gone"]
    /\ \/ /\ owner = p /\ over' = p /\ owner' = NoProc /\ UNCHANGED spent
          /\ report' = [report EXCEPT ![p] = IF sticky[p] THEN "attention" ELSE "clean"]
       \/ /\ owner = p /\ Fault /\ owner' = NoProc /\ UNCHANGED <<over, report>>
       \/ /\ owner # p /\ UNCHANGED <<owner, over, report, spent>>
    /\ UNCHANGED <<rows, begun, node, gate, exec, call, tried, attempt, live, aborted>>
    /\ UNCHANGED <<pending, sticky, left, swept>>

-----------------------------------------------------------------------------
(* One journalled tool call.                                                  *)

(* The dispatch is over.  The loop, if it still waits, fails the node. *)
EndTurn(p) ==
    /\ exec' = [exec EXCEPT ![p] = "idle"] /\ call' = [call EXCEPT ![p] = NoCall]
    /\ eng' = [eng EXCEPT ![p] = IF @ = "running" THEN "settling" ELSE @]

AtRest(p) == eng[p] = "running" /\ exec[p] = "idle"

(* The entry check of #fenceEffects. *)
MayAsk(p, e) == AtRest(p) /\ node = "open" /\ live[p] /\ ~ aborted[p] /\ e \notin tried[p]

(* No row: it is inserted before the call is made, and counted as pending
   before the fence looks again. *)
PrepareProceeds(p, e, a) ==
    /\ MayAsk(p, e) /\ rows[e] = NoRow
    /\ rows' = [rows EXCEPT ![e] = Row("prepared", a, p)]
    /\ pending' = [pending EXCEPT ![p] = @ \cup {e}]
    /\ exec' = [exec EXCEPT ![p] = "admitted"] /\ call' = [call EXCEPT ![p] = e]
    /\ UNCHANGED <<begun, node, over, gate, owner, eng, tried, attempt, live, aborted>>
    /\ UNCHANGED <<sticky, report, left, swept, spent>>

(* A commit with the same arguments: its recorded result is delivered again. *)
SameCall(e, a) == rows[e].state = "committed" /\ rows[e].args = a

PrepareReplays(p, e, a) ==
    /\ MayAsk(p, e) /\ SameCall(e, a)
    /\ tried' = [tried EXCEPT ![p] = @ \cup {e}]
    /\ UNCHANGED <<store, eng, exec, call, attempt, live, aborted, health, left, swept, spent>>

(* Any other row is a conflict, and no attempt of this node may go on. *)
PrepareRefused(p, e, a) ==
    /\ MayAsk(p, e) /\ rows[e] # NoRow /\ ~ SameCall(e, a)
    /\ sticky' = [sticky EXCEPT ![p] = TRUE] /\ EndTurn(p)
    /\ UNCHANGED <<store, tried, attempt, live, aborted, pending, report, left, swept, spent>>

(* A new attempt numbers its calls from the beginning. *)
NextAttempt(p) ==
    \/ /\ attempt[p] < MaxAttempts /\ ~ aborted[p]
       /\ attempt' = [attempt EXCEPT ![p] = @ + 1] /\ tried' = [tried EXCEPT ![p] = {}]
       /\ UNCHANGED eng
    \/ /\ attempt[p] = MaxAttempts \/ aborted[p]
       /\ eng' = [eng EXCEPT ![p] = "settling"] /\ UNCHANGED <<attempt, tried>>

(* The journal cannot be written: nothing left, the node may be retried. *)
PrepareFails(p) ==
    /\ AtRest(p) /\ node = "open" /\ live[p] /\ ~ aborted[p] /\ Fault /\ NextAttempt(p)
    /\ UNCHANGED <<store, exec, call, live, aborted, health, left, swept>>

(* The provider fails, or the node is aborted between two calls. *)
TurnFails(p) ==
    /\ AtRest(p) /\ node = "open" /\ NextAttempt(p)
    /\ UNCHANGED <<store, exec, call, live, aborted, health, left, swept, spent>>

(* Variant: the verdict of the store is taken as it comes. *)
StillAwaitedUnchecked(p) == TRUE

(* The second look of #fenceEffects, after the await of the store. *)
StillAwaited(p) == live[p]

Refuse(p) ==
    /\ exec[p] = "admitted" /\ ~ StillAwaited(p) /\ EndTurn(p)
    /\ UNCHANGED <<store, tried, attempt, live, aborted, health, left, swept, spent>>

Send(p) ==
    /\ exec[p] = "admitted" /\ StillAwaited(p)
    /\ left' = [left EXCEPT ![call[p]] = @ + 1] /\ exec' = [exec EXCEPT ![p] = "out"]
    /\ UNCHANGED <<store, eng, call, tried, attempt, live, aborted, health, swept, spent>>

(* The host has no such capability, or refuses the call before it is made:
   nothing left, and the row is dropped.  If it cannot be, it stays and asks
   for attention. *)
Unavailable(p) ==
    /\ exec[p] = "admitted" /\ StillAwaited(p) /\ EndTurn(p)
    /\ \/ /\ rows' = [rows EXCEPT ![call[p]] = IF @.state = "prepared" THEN NoRow ELSE @]
          /\ pending' = [pending EXCEPT ![p] = @ \ {call[p]}] /\ UNCHANGED <<sticky, spent>>
       \/ Fault /\ sticky' = [sticky EXCEPT ![p] = TRUE] /\ UNCHANGED <<rows, pending>>
    /\ UNCHANGED <<begun, node, over, gate, owner, tried, attempt, live, aborted, report, left, swept>>

(* Variant: a failed call is taken for one that never left. *)
SendFailsDiscarding(p) ==
    /\ exec[p] = "out" /\ EndTurn(p) /\ rows' = [rows EXCEPT ![call[p]] = NoRow]
    /\ pending' = [pending EXCEPT ![p] = @ \ {call[p]}]
    /\ UNCHANGED <<begun, node, over, gate, owner, tried, attempt, live, aborted>>
    /\ UNCHANGED <<sticky, report, left, swept, spent>>

(* The call fails, times out or is aborted by its tool: whether the target
   acted is unknown.  It asks for attention, recorded or not. *)
SendFails(p) ==
    /\ exec[p] = "out" /\ EndTurn(p) /\ sticky' = [sticky EXCEPT ![p] = TRUE]
    /\ \/ /\ UNCHANGED spent
          /\ rows' = [rows EXCEPT ![call[p]].state = IF @ = "prepared" THEN "ambiguous" ELSE @]
       \/ Fault /\ UNCHANGED rows
    /\ UNCHANGED <<begun, node, over, gate, owner, tried, attempt, live, aborted>>
    /\ UNCHANGED <<pending, report, left, swept>>

(* The answer is mapped and bounded before it is recorded. *)
Answer(p) ==
    /\ exec[p] = "out" /\ ~ aborted[p] /\ exec' = [exec EXCEPT ![p] = "bounding"]
    /\ UNCHANGED <<store, eng, call, tried, attempt, live, aborted, health, left, swept, spent>>

(* An abort, a mapping or a bounding failure after the call: the row stays
   prepared, and pending. *)
Unrecorded(p) ==
    /\ exec[p] = "bounding" \/ (exec[p] = "out" /\ aborted[p])
    /\ EndTurn(p)
    /\ UNCHANGED <<store, tried, attempt, live, aborted, health, left, swept, spent>>

(* A transition must move exactly one prepared row.  An abort that came while
   the answer was bounded is noticed after the commit. *)
Commit(p) ==
    /\ exec[p] = "bounding" /\ rows[call[p]].state = "prepared"
    /\ rows' = [rows EXCEPT ![call[p]].state = "committed"]
    /\ pending' = [pending EXCEPT ![p] = @ \ {call[p]}]
    /\ tried' = [tried EXCEPT ![p] = @ \cup {call[p]}]
    /\ exec' = [exec EXCEPT ![p] = "idle"] /\ call' = [call EXCEPT ![p] = NoCall]
    /\ eng' = [eng EXCEPT ![p] = IF @ = "running" /\ aborted[p] THEN "settling" ELSE @]
    /\ UNCHANGED <<begun, node, over, gate, owner, attempt, live, aborted>>
    /\ UNCHANGED <<sticky, report, left, swept, spent>>

CommitFails(p) ==
    /\ exec[p] = "bounding" /\ Fault
    /\ sticky' = [sticky EXCEPT ![p] = TRUE] /\ EndTurn(p)
    /\ UNCHANGED <<store, tried, attempt, live, aborted, pending, report, left, swept>>

-----------------------------------------------------------------------------
(* The end of the node, of the run and of the process.                        *)

(* The write is fenced: a process that lost the run stops, and says nothing. *)
LeaveFenced(p) ==
    /\ eng' = [eng EXCEPT ![p] = "fenced"] /\ live' = [live EXCEPT ![p] = FALSE]
    /\ aborted' = [aborted EXCEPT ![p] = TRUE]

(* node:completed; the run then completes, or rests on the other gate. *)
Complete(p) ==
    /\ AtRest(p) /\ node = "open" /\ ~ aborted[p]
    /\ \/ /\ owner = p /\ node' = "done" /\ UNCHANGED <<live, aborted, spent>>
          /\ eng' = [eng EXCEPT ![p] = IF gate THEN "parked" ELSE "settling"]
          /\ owner' = IF gate THEN NoProc ELSE p
       \/ /\ owner = p /\ Fault /\ eng' = [eng EXCEPT ![p] = "settling"]
          /\ UNCHANGED <<node, owner, live, aborted>>
       \/ /\ owner # p /\ LeaveFenced(p) /\ UNCHANGED <<node, owner, spent>>
    /\ UNCHANGED <<rows, begun, over, gate, exec, call, tried, attempt, health, left, swept>>

Cancel(p) ==
    /\ eng[p] \in {"gating", "running"} /\ ~ aborted[p]
    /\ aborted' = [aborted EXCEPT ![p] = TRUE]
    /\ UNCHANGED <<store, eng, exec, call, tried, attempt, live, health, left, swept, spent>>

(* A node deadline, or the grace window of a stopped run, ends: the loop stops
   waiting while the dispatch goes on. *)
Abandon(p) ==
    /\ eng[p] = "running"
    /\ live' = [live EXCEPT ![p] = FALSE] /\ eng' = [eng EXCEPT ![p] = "settling"]
    /\ UNCHANGED <<store, exec, call, tried, attempt, aborted, health, left, swept, spent>>

(* The terminal.  Delivered to the reader in any case; the log may lack it,
   and the outcome of the node with it. *)
Settle(p) ==
    /\ eng[p] = "settling"
    /\ \/ /\ owner = p /\ over' = p /\ node' = "done" /\ UNCHANGED spent
          /\ owner' = NoProc
          /\ eng' = [eng EXCEPT ![p] = "settled"] /\ live' = [live EXCEPT ![p] = FALSE]
          /\ UNCHANGED aborted
       \/ /\ owner = p /\ Fault /\ node' \in {node, "done"} /\ UNCHANGED over
          /\ owner' = NoProc
          /\ eng' = [eng EXCEPT ![p] = "settled"] /\ live' = [live EXCEPT ![p] = FALSE]
          /\ UNCHANGED aborted
       \/ /\ owner # p /\ LeaveFenced(p) /\ UNCHANGED <<over, node, owner, spent>>
    /\ UNCHANGED <<rows, begun, gate, exec, call, tried, attempt, health, left, swept>>

(* The heartbeat of a process that lost the run finds out. *)
Notice(p) ==
    /\ eng[p] \in {"gating", "running", "settling"} /\ owner # p /\ LeaveFenced(p)
    /\ UNCHANGED <<store, exec, call, tried, attempt, health, left, swept, spent>>

(* Variant: a row that is still prepared is not counted. *)
NeedsAttentionSticky(p) == sticky[p]

NeedsAttention(p) == sticky[p] \/ pending[p] # {}

(* The process waits for the dispatches it started, reports, and sweeps what a
   finished run has committed, unless it ran out of time. *)
Depart(p) ==
    /\ eng[p] \in {"parked", "settled", "fenced"} /\ exec[p] = "idle"
    /\ eng' = [eng EXCEPT ![p] = "gone"]
    /\ report' = [report EXCEPT ![p] = IF NeedsAttention(p) THEN "attention" ELSE "clean"]
    /\ \/ /\ eng[p] = "settled"
          /\ swept' = swept \cup {e \in Effect : rows[e].state = "committed"}
          /\ rows' = [e \in Effect |-> IF rows[e].state = "committed" THEN NoRow ELSE rows[e]]
       \/ UNCHANGED <<rows, swept>>
    /\ UNCHANGED <<begun, node, over, gate, owner, exec, call, tried, attempt, live, aborted>>
    /\ UNCHANGED <<pending, sticky, left, spent>>

(* A process dies, and its lease runs out. *)
Crash(p) ==
    /\ eng[p] \notin {"none", "gone"} /\ Spend("crashes", MaxCrashes)
    /\ eng' = [eng EXCEPT ![p] = "gone"] /\ exec' = [exec EXCEPT ![p] = "idle"]
    /\ call' = [call EXCEPT ![p] = NoCall]
    /\ owner' = IF owner = p THEN NoProc ELSE owner
    /\ UNCHANGED <<rows, begun, node, over, gate, tried, attempt, live, aborted>>
    /\ UNCHANGED <<health, left, swept>>

(* A process sleeps past its lease and does not know it. *)
Stall(p) ==
    /\ owner = p /\ Spend("stalls", MaxStalls) /\ owner' = NoProc
    /\ UNCHANGED <<rows, begun, node, over, gate, process, health, left, swept>>

Dispatch(p) ==
    \/ \E e \in Effect, a \in Args :
          PrepareProceeds(p, e, a) \/ PrepareReplays(p, e, a) \/ PrepareRefused(p, e, a)
    \/ PrepareFails(p) \/ Refuse(p) \/ Send(p) \/ Unavailable(p) \/ SendFails(p)
    \/ Answer(p) \/ Unrecorded(p) \/ Commit(p) \/ CommitFails(p)

Drive(p) ==
    \/ Begin(p) \/ Resume(p) \/ ReadGate(p) \/ RepairRead(p) \/ RepairWrite(p)
    \/ TurnFails(p) \/ Complete(p) \/ Cancel(p) \/ Abandon(p) \/ Settle(p) \/ Notice(p)
    \/ Depart(p) \/ Crash(p) \/ Stall(p)

Next == \E p \in Proc : Dispatch(p) \/ Drive(p)

Spec == Init /\ [][Next]_vars

-----------------------------------------------------------------------------
RowType ==
    [state : {"none", "prepared", "committed", "ambiguous"},
     args : Args \cup {"none"}, by : Proc \cup {NoProc}]
StoreTypes ==
    /\ rows \in [Effect -> RowType]
    /\ begun \in BOOLEAN /\ node \in {"open", "done"} /\ over \in Proc \cup {NoProc}
    /\ gate \in BOOLEAN /\ owner \in Proc \cup {NoProc}
DispatchTypes ==
    /\ eng \in [Proc -> {"none", "gating", "running", "parked", "settling", "settled", "fenced",
                         "repairing", "gone"}]
    /\ exec \in [Proc -> {"idle", "admitted", "out", "bounding"}]
    /\ call \in [Proc -> Effect \cup {NoCall}] /\ tried \in [Proc -> SUBSET Effect]
    /\ attempt \in [Proc -> 1..MaxAttempts]
FlagTypes ==
    /\ live \in [Proc -> BOOLEAN] /\ aborted \in [Proc -> BOOLEAN]
    /\ sticky \in [Proc -> BOOLEAN]
HealthTypes ==
    /\ pending \in [Proc -> SUBSET Effect]
    /\ report \in [Proc -> {"none", "clean", "attention"}]
HistoryTypes ==
    /\ left \in [Effect -> Nat] /\ swept \in SUBSET Effect
    /\ spent \in [{"faults", "stalls", "crashes"} -> Nat]

(* The rows, the dispatches and the receipts keep their types, and no node
   makes more attempts than its retry budget allows. *)
TypeOK == StoreTypes /\ DispatchTypes /\ FlagTypes /\ HealthTypes /\ HistoryTypes

(* An effect leaves at most once, whoever retries, resumes, stalls or crashes,
   as long as its row has not been swept (prepare, discard, settle and their
   callers in registry.ts). *)
SentOnceWhileRecorded == \A e \in Effect \ swept : left[e] <= 1

(* The promise of the contract: at most one dispatch attempt of an effect.  It
   does not hold once rows are swept: README, section 5. *)
AtMostOnceAttempt == \A e \in Effect : left[e] <= 1

(* A process that reports no effect in doubt leaves none of its own behind:
   what it prepared is committed, or never left (EffectReceiptHealth). *)
HonestReport ==
    \A p \in Proc : report[p] = "clean" =>
        \A e \in Effect : rows[e].by = p => rows[e].state = "committed"

(* If leases are kept and nobody cancelled it, a run that its last process
   closes with a clean report has no unresolved effect of anybody: not of a
   leg that crashed before, nor of a dispatch that was given up
   (#effectResumeGateOrFail, #reconciledFailure, the final departure). *)
CleanMeansResolved ==
    \A p \in Proc :
        spent.stalls = 0 /\ over = p /\ ~ aborted[p] /\ report[p] = "clean" => Unresolved = {}

(* If leases are kept, nothing leaves once the run has its terminal, although
   a dispatch that was given up may still be waiting for the journal
   (#fenceEffects). *)
NothingLeavesAfterTheEnd ==
    [][spent.stalls = 0 /\ over # NoProc => left' = left]_vars
=============================================================================

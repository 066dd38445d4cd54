--------------------------- MODULE MoneyDurability ---------------------------
(***************************************************************************)
(* The write-behind ledger of one run's provider charges                   *)
(* (core/src/engine/money-durability.ts).                                  *)
(*                                                                         *)
(* Charges settle synchronously and are written one behind the other; the  *)
(* turn reads the ledger's failure at its joins.  A join waits for every   *)
(* write it saw, flushes the governor's commitments, and starts over when  *)
(* the ledger has grown in the meantime.  A call announces itself with a   *)
(* pending marker before a provider is asked, and that marker is resolved  *)
(* by exactly one outcome.                                                 *)
(***************************************************************************)
EXTENDS BudgetGovernor

CONSTANT MaxFaults   \* bound: appends that fail

ASSUME MoneyAssumption == MaxFaults \in Nat

Free == -1                     \* not in a join

(* cost:usage_pending; cost:attempt_settled; a disposition not_invoked or  *)
(* official_refusal; incomplete, with the receipt still expected or not    *)
Outcomes == {"settled", "released", "waiting", "incomplete"}
Writes == Outcomes \cup {"pending"}

Joiners == Calls \cup Turns

VARIABLES
    ledger,    \* #inFlight: the writes that have not settled, oldest first
    failure,   \* #failure
    broken,    \* #broken
    claim,     \* #usageClaims
    observed,  \* per joiner, how many writes before its observedTail are left
    log,       \* the run's durable events about each call, in order
    run,       \* the run's own outcome so far: #failure, #cancelling
    faults     \* appends that failed so far

moneyVars == <<ledger, failure, broken, claim, observed, log>>
runVars == <<run, faults>>

MoneyInit ==
    /\ ledger = <<>> /\ failure = FALSE /\ broken = FALSE
    /\ claim = [c \in Calls |-> "none"]
    /\ observed = [j \in Joiners |-> Free]
    /\ log = [c \in Calls |-> <<>>]
    /\ run = "running" /\ faults = 0

(* #abort.signal.aborted *)
Aborted == run # "running"

(***************************************************************************)
(* Enqueueing.                                                             *)
(***************************************************************************)

(* claimUsage: may this outcome of the call still be taken? *)
MayClaim(c, kind) ==
    /\ claim[c] \in {"pending", "incomplete"}
    /\ kind = "incomplete" => claim[c] # "incomplete"
    /\ kind = "released" => claim[c] = "pending"

(* a claimed outcome is written; a second claim does nothing *)
Account(c, kind, w) ==
    IF MayClaim(c, kind)
    THEN /\ claim' = [claim EXCEPT ![c] = IF kind = "incomplete" THEN "incomplete" ELSE "finished"]
         /\ ledger' = Append(ledger, [call |-> c, write |-> w])
    ELSE UNCHANGED <<claim, ledger>>

(***************************************************************************)
(* join: one pass of its loop.  A joiner that still waits for writes it    *)
(* saw, or for a commitment, takes no step.                                *)
(***************************************************************************)

(* Variant: the commitments are not flushed. *)
JoinMovesLedgerOnly(j) == observed[j] = 0

JoinMoves(j) == observed[j] = 0 /\ commits = <<>>

(* the ledger grew while the commitments were flushed *)
JoinLoops(j) ==
    /\ JoinMoves(j) /\ ~commitFailure /\ ledger # <<>>
    /\ observed' = [observed EXCEPT ![j] = Len(ledger)]
    /\ UNCHANGED <<ledger, failure, broken, claim, log, runVars, governorVars>>

JoinDone(j) == JoinMoves(j) /\ (commitFailure \/ ledger = <<>>)

JoinFailed == commitFailure \/ failure

(* a commitment's failure comes out first; whichever it is, it comes out   *)
(* once                                                                    *)
JoinEnds ==
    /\ commitFailure' = FALSE
    /\ failure' = (failure /\ commitFailure)
    /\ UNCHANGED <<broken, log, commits, commitBroken>>

(***************************************************************************)
(* The writes settle.                                                      *)
(***************************************************************************)

(* #writeDurable: a failed append fails the run and aborts it, unless it   *)
(* is being cancelled; the abort releases every legacy hold                *)
AppendFails ==
    /\ faults < MaxFaults /\ faults' = faults + 1
    /\ run' = IF Aborted THEN run ELSE "failed"
    /\ legacyHold' = FALSE

Settled(w) ==
    /\ ledger # <<>> /\ Head(ledger) = w
    /\ ledger' = Tail(ledger)
    /\ observed' = [j \in Joiners |-> IF observed[j] > 0 THEN observed[j] - 1 ELSE observed[j]]

(* record, usageDisposition *)
OutcomeLands(w) ==
    /\ w.write # "pending" /\ Settled(w)
    /\ log' = [log EXCEPT ![w.call] = Append(@, w.write)]
    /\ UNCHANGED <<failure, broken, claim, legacyHold, runVars>>

OutcomeLost(w) ==
    /\ w.write # "pending" /\ Settled(w)
    /\ AppendFails
    /\ failure' = TRUE /\ broken' = TRUE
    /\ UNCHANGED <<claim, log>>

(* beginUsageInvocation: a marker is written unless money is already       *)
(* uncertain or the run no longer admits usage                             *)
MarkerRefused(w) == w.write = "pending" /\ (broken \/ Aborted)

MarkerLands(w) ==
    /\ w.write = "pending" /\ ~MarkerRefused(w) /\ Settled(w)
    /\ log' = [log EXCEPT ![w.call] = Append(@, "pending")]
    /\ claim' = [claim EXCEPT ![w.call] = "pending"]
    /\ UNCHANGED <<failure, broken, legacyHold, runVars>>

MarkerLost(w) ==
    /\ w.write = "pending" /\ Settled(w)
    /\ \/ MarkerRefused(w) /\ UNCHANGED <<legacyHold, runVars>>
       \/ ~MarkerRefused(w) /\ AppendFails
    /\ broken' = TRUE
    /\ UNCHANGED <<failure, claim, log>>

(* #persistCommitment *)
CommitLands ==
    /\ commits # <<>>
    /\ commits' = Tail(commits)
    /\ log' = [log EXCEPT ![Head(commits)] = Append(@, "committed")]
    /\ UNCHANGED <<commitFailure, commitBroken, legacyHold, runVars>>

CommitLost ==
    /\ commits # <<>>
    /\ commits' = Tail(commits)
    /\ AppendFails
    /\ commitFailure' = TRUE /\ commitBroken' = TRUE
    /\ UNCHANGED log

MoneyTypeOK ==
    /\ ledger \in Seq([call: Calls, write: Writes])
    /\ failure \in BOOLEAN /\ broken \in BOOLEAN
    /\ claim \in [Calls -> {"none", "pending", "incomplete", "finished"}]
    /\ observed \in [Joiners -> Nat \cup {Free}]
    /\ log \in [Calls -> Seq(Writes \cup {"committed"})]
    /\ run \in {"running", "failed", "cancelled"} /\ faults \in 0..MaxFaults
=============================================================================

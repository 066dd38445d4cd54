--------------------------- MODULE BudgetGovernor ---------------------------
(***************************************************************************)
(* The budget governor of one run (core/src/engine/budget-governor.ts) and *)
(* the allowances approved past its cap (dispatch-allowance.ts).           *)
(*                                                                         *)
(* Before every provider call the governor projects what is spent, what is *)
(* committed for calls whose bill is unknown and what other calls have     *)
(* reserved.  A call that is admitted holds a reservation until its owner  *)
(* settles it at the real charge, retains it as a commitment, or releases  *)
(* it.  Commitments are written one behind the other to the durable log.   *)
(*                                                                         *)
(* The module holds the governor's state and the effect of each of its     *)
(* methods on that state; AgentTurn calls them.  Microcents are small      *)
(* naturals.                                                               *)
(***************************************************************************)
EXTENDS Dispatches, Sequences, FiniteSets

CONSTANTS
    Cap,          \* budget.max_cost_microcents
    Approved,     \* Turns -> the allowance a person approved, or NoAllowance
    Policies,     \* the values of budget.on_exceed that are explored
    LegacyJobs    \* whether the run resumed with media jobs of an unknown price

NoAllowance == -1
NoPrice == -1          \* the model has no price: UnknownModelError
Unrepresentable == -2  \* the price is not a safe integer

ASSUME GovernorAssumption ==
    /\ Cap \in Nat
    /\ Approved \in [Turns -> Nat \cup {NoAllowance}]
    /\ Policies \subseteq {"warn", "fail", "pause"} /\ LegacyJobs \in BOOLEAN

VARIABLES
    policy,         \* budget.on_exceed
    spent,          \* #cumulativeCostMicrocents
    conservative,   \* #conservativeCostMicrocents
    reservedCost,   \* #reservedCostMicrocents
    reserved,       \* #reservedAdmissions: the live reservation of each call
    warningArmed,   \* #warningArmed
    warning,        \* #warningInFlight
    commits,        \* the commitments whose write has not settled
    commitFailure,  \* #commitmentFailure
    commitBroken,   \* #durabilityBroken
    legacyHold,     \* #legacyMediaJobNodes is not empty
    allowance,      \* DispatchAllowanceBook: the owner record of each turn
    debit           \* calls that hold an unfinished AllowanceDebit

budgetVars == <<policy, spent, conservative, reservedCost, reserved>>
warningVars == <<warningArmed, warning>>
commitVars == <<commits, commitFailure, commitBroken>>
allowanceVars == <<allowance, debit>>
governorVars == <<budgetVars, warningVars, commitVars, legacyHold, allowanceVars>>

Larger(a, b) == IF a >= b THEN a ELSE b

HasToken(t) == Approved[t] # NoAllowance

(* activate: a fresh owner for the dispatch, with nothing in flight *)
Activated(t) ==
    [remaining |-> IF HasToken(t) THEN Approved[t] ELSE 0,
     inFlight  |-> FALSE, closed |-> FALSE, exhausted |-> FALSE]

GovernorInit ==
    /\ policy \in Policies
    /\ spent = 0 /\ conservative = 0 /\ reservedCost = 0
    /\ reserved = [c \in Calls |-> 0]
    /\ warningArmed = TRUE /\ warning = FALSE
    /\ commits = <<>> /\ commitFailure = FALSE /\ commitBroken = FALSE
    /\ legacyHold = LegacyJobs
    /\ allowance = [t \in Turns |-> Activated(t)]
    /\ debit = {}

(***************************************************************************)
(* The allowance book.  `live` says whether the dispatch still runs: the   *)
(* isLive callback, which never turns true again, so that closing a dead   *)
(* owner later than the code does is not observable.                       *)
(***************************************************************************)

(* #current and isLive *)
Owns(t, live) == ~allowance[t].closed /\ live

(* validateLive: refused, unless the caller is the admission in flight *)
AllowanceRefused(t, live, admitted) ==
    /\ HasToken(t)
    /\ \/ ~Owns(t, live)
       \/ allowance[t].exhausted
       \/ allowance[t].inFlight /\ ~admitted

(* acquire, when the estimate does not fit: exhausted for good *)
Overdrawn(t, quote) == quote > allowance[t].remaining

Acquired(t, quote) ==
    [allowance EXCEPT ![t].inFlight = TRUE, ![t].remaining = @ - Larger(quote, 0)]

Exhausted(t) == [allowance EXCEPT ![t].exhausted = TRUE]

(* finish: give back `back`, or take `extra` more, and free the owner *)
Finished(t, live, back, extra) ==
    LET a == allowance[t]
        left == IF extra >= a.remaining /\ extra > 0 THEN 0 ELSE a.remaining + back - extra
        now == IF Owns(t, live)
               THEN [a EXCEPT !.remaining = left,
                              !.exhausted = @ \/ (Approved[t] > 0 /\ left = 0)]
               ELSE [a EXCEPT !.closed = TRUE]
    IN  [allowance EXCEPT ![t] = [now EXCEPT !.inFlight = FALSE]]

FinishDebit(c, live, back, extra) ==
    /\ debit' = debit \ {c}
    /\ allowance' = IF c \in debit THEN Finished(c[1], live, back, extra) ELSE allowance

(***************************************************************************)
(* #evaluate and #admit.  No await separates them.                         *)
(***************************************************************************)

Projected(quote) == spent + conservative + reservedCost + quote

(* strict_cost_cap is off *)
Verdict(quote) ==
    CASE quote = NoPrice -> "unpriced"
      [] quote = Unrepresentable -> "unrepresentable"
      [] quote >= 0 /\ (Cap = 0 \/ Projected(quote) <= Cap) -> "allow"
      [] OTHER -> policy

(* permits: an approved dispatch may pass the cap, within its allowance *)
Permits(t, quote) ==
    \/ Verdict(quote) \in {"allow", "warn", "unpriced"}
    \/ HasToken(t) /\ Verdict(quote) \in {"fail", "pause"}

Admits(t, quote) == Permits(t, quote) /\ (HasToken(t) => ~Overdrawn(t, quote))

(* the reservation, and the debit of an approved dispatch, in one step *)
Admit(c, quote) ==
    /\ reserved' = [reserved EXCEPT ![c] = Larger(quote, 0)]
    /\ reservedCost' = reservedCost + Larger(quote, 0)
    /\ IF HasToken(c[1])
       THEN debit' = debit \cup {c} /\ allowance' = Acquired(c[1], quote)
       ELSE UNCHANGED allowanceVars
    /\ UNCHANGED <<policy, spent, conservative>>

(* what a refusal leaves behind: an overdrawn or unpriceable allowance ends *)
Refuse(t, quote) ==
    /\ allowance' = IF HasToken(t) /\ (quote = Unrepresentable \/
                                       (Permits(t, quote) /\ Overdrawn(t, quote)))
                    THEN Exhausted(t) ELSE allowance
    /\ UNCHANGED <<budgetVars, debit>>

(***************************************************************************)
(* The three ways an admission ends.  `total` is the engine's own running  *)
(* total, which updateCost makes the floor of `spent`.                     *)
(***************************************************************************)

TakeReservation(c) ==
    /\ reserved' = [reserved EXCEPT ![c] = 0]
    /\ reservedCost' = reservedCost - reserved[c]
    /\ UNCHANGED policy

Settle(c, live, actual, total) ==
    /\ TakeReservation(c)
    /\ spent' = Larger(spent + actual, total)
    /\ warningArmed' = (warningArmed \/ actual > 0)
    /\ FinishDebit(c, live, Larger(reserved[c] - actual, 0), Larger(actual - reserved[c], 0))
    /\ UNCHANGED <<conservative, warning, commitVars>>

(* Variant: the commitment is written, and not counted. *)
SettleAtNothing(c, live) ==
    /\ TakeReservation(c)
    /\ FinishDebit(c, live, 0, 0)
    /\ IF reserved[c] > 0
       THEN warningArmed' = TRUE /\ commits' = Append(commits, c)
       ELSE UNCHANGED <<warningArmed, commits>>
    /\ UNCHANGED <<spent, conservative, warning, commitFailure, commitBroken>>

SettleAtReservedEstimate(c, live) ==
    /\ TakeReservation(c)
    /\ FinishDebit(c, live, 0, 0)
    /\ conservative' = conservative + reserved[c]
    /\ IF reserved[c] > 0
       THEN warningArmed' = TRUE /\ commits' = Append(commits, c)
       ELSE UNCHANGED <<warningArmed, commits>>
    /\ UNCHANGED <<spent, warning, commitFailure, commitBroken>>

(* Variant: only the debit is given back. *)
ReturnedDebitOnly(c, live) ==
    /\ FinishDebit(c, live, reserved[c], 0)
    /\ UNCHANGED <<budgetVars, warningVars>>

Returned(c, live) ==
    /\ TakeReservation(c)
    /\ FinishDebit(c, live, reserved[c], 0)
    /\ UNCHANGED <<spent, conservative, warningVars>>

Release(c, live) == Returned(c, live) /\ UNCHANGED commitVars

(* updateCost alone: a charge that settles no admission *)
UpdateCost(total) ==
    /\ spent' = Larger(spent, total)
    /\ warningArmed' = (warningArmed \/ total > spent)
    /\ UNCHANGED <<policy, conservative, reservedCost, reserved, warning,
                   commitVars, allowanceVars>>

GovernorTypeOK ==
    /\ policy \in Policies
    /\ spent \in Nat /\ conservative \in Nat /\ reservedCost \in Nat
    /\ reserved \in [Calls -> Nat]
    /\ warningArmed \in BOOLEAN /\ warning \in BOOLEAN
    /\ commits \in Seq(Calls) /\ commitFailure \in BOOLEAN /\ commitBroken \in BOOLEAN
    /\ legacyHold \in BOOLEAN
    /\ allowance \in [Turns -> [remaining: Nat, inFlight: BOOLEAN,
                                closed: BOOLEAN, exhausted: BOOLEAN]]
    /\ debit \subseteq Calls
=============================================================================

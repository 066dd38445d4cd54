------------------------------- MODULE AgentTurn -------------------------------
(***************************************************************************)
(* The agent turns of one run, calling providers through a fallback chain, *)
(* under one budget and in front of one money ledger.                      *)
(*                                                                         *)
(* Source: core/src/engine/agent-turn.ts (driveAgentTurn and its           *)
(* onAttempt and preAttempt callbacks, captureAgentTurnOutcome), with the  *)
(* attempt of llm/src/fallback-chain.ts between them and the dispatch of   *)
(* core/src/engine/engine.ts around them.                                  *)
(*                                                                         *)
(* Every action is the code between two awaits.  A call waits, in order,   *)
(* for the ledger, for the governor, for the ledger again, for its pending *)
(* marker and for a credential; then the provider is asked.                *)
(***************************************************************************)
EXTENDS MoneyDurability, FallbackChain, FiniteSetsExt

CONSTANTS
    Quote,       \* provider -> the estimate of one call, or NoPrice
    Bills,       \* what one call may really cost
    Official,    \* providers that are not custom endpoints
    Errors,      \* the kinds of error providers answer with
    ToolRounds,  \* turn -> limits.maxToolTurns
    Cancels,     \* whether somebody may cancel the run
    Timed,       \* turns whose vertex has a timeout_ms
    MaxNative    \* turn -> bound: its native retries

ASSUME TurnAssumption ==
    /\ Quote \in [Providers -> Nat \cup {NoPrice, Unrepresentable}]
    /\ Bills \subseteq Nat /\ Official \subseteq Providers /\ Errors \subseteq ErrorKinds
    /\ ToolRounds \in [Turns -> Nat] /\ MaxNative \in [Turns -> Nat] /\ Timed \subseteq Turns
    /\ Cancels \in BOOLEAN

NoBill == -1

VARIABLES
    stage,      \* what each call awaits
    via,        \* the provider of each call
    paid,       \* the charge that was recorded for a call
    shown,      \* calls whose content the reader has seen: contentReceived
    native,     \* calls that are native retries inside an adapter
    closed,     \* retries whose attempt ended while they were admitted
    unknown,    \* calls whose usage was unknown when their attempt ended
    overCap,    \* calls admitted over the cap, with a warning
    step,       \* what each turn does
    result,     \* how it ended
    round,      \* toolTurn
    roundOf,    \* the tool round each call belongs to
    current,    \* the call of the attempt in flight, 0 when there is none
    made,       \* how many calls the turn made
    abandoned,  \* dispatches the run no longer waits for: not #isLive
    total,      \* #cumulativeCostMicrocents of the run
    announced   \* a budget:warning is on the log

callVars == <<stage, via, paid, shown, native, closed, unknown, overCap, roundOf>>
turnVars == <<step, result, round, current, made, abandoned>>
tallyVars == <<total, announced>>
vars == <<governorVars, moneyVars, runVars, chainVars, callVars, turnVars, tallyVars>>

(* before the provider is asked *)
Acquiring == {"join", "check", "held", "warned", "told", "begin", "marker", "unmarked", "acked"}
Stages == Acquiring \cup {"none", "asked", "late", "over"}

Init ==
    /\ GovernorInit /\ MoneyInit /\ ChainInit
    /\ stage = [c \in Calls |-> "none"]
    /\ via = [c \in Calls |-> Plan[1]]
    /\ paid = [c \in Calls |-> NoBill]
    /\ shown = {} /\ native = {} /\ closed = {} /\ unknown = {} /\ overCap = {}
    /\ step = [t \in Turns |-> "chain"]
    /\ result = [t \in Turns |-> "none"]
    /\ round = [t \in Turns |-> 0]
    /\ roundOf = [c \in Calls |-> 0]
    /\ current = [t \in Turns |-> 0]
    /\ made = [t \in Turns |-> 0]
    /\ abandoned = {} /\ total = 0 /\ announced = FALSE

(* isLive of a dispatch that may still spend: #canAuthorizeBudget, #isLive *)
Live(t) == ~Aborted /\ t \notin abandoned

At(c, s) == stage[c] = s

(***************************************************************************)
(* Where a turn goes next.  Closing a turn opens its join of the ledger.   *)
(***************************************************************************)

Closes(t, how) ==
    /\ step' = [step EXCEPT ![t] = "closing"]
    /\ result' = [result EXCEPT ![t] = how]
    /\ current' = [current EXCEPT ![t] = 0]
    /\ UNCHANGED <<round, made, abandoned>>

(* the attempt of call c failed: #afterFailure, or nothing at all when the *)
(* attempt had already been closed under it                                *)
Ends(c, kind, renews, s) ==
    LET t == c[1]
        committed == c \in shown'
        verdict == AfterFailure(t, kind, committed, renews)
        fatal == c \notin closed /\ verdict = "fatal"
    IN  /\ stage' = [stage EXCEPT ![c] = s]
        /\ observed' = [observed EXCEPT ![c] = Free,
                                        ![t] = IF fatal THEN Len(ledger') ELSE @]
        /\ IF c \in closed THEN UNCHANGED <<chainVars, turnVars>>
           ELSE /\ FailureNoted(t, kind, committed, renews)
                /\ IF fatal
                   THEN Closes(t, IF kind = "pause" /\ round[t] = 0 THEN "paused" ELSE "failed")
                   ELSE /\ step' = [step EXCEPT ![t] = "chain"]
                        /\ current' = [current EXCEPT ![t] = 0]
                        /\ UNCHANGED <<result, round, made, abandoned>>
        /\ UNCHANGED <<via, native, roundOf>>

(***************************************************************************)
(* The entry loop of the chain.                                            *)
(***************************************************************************)

StandsStill == UNCHANGED <<governorVars, runVars, callVars, tallyVars,
                           ledger, failure, broken, claim, log>>

(* aborted, or no entry is left *)
ChainFails(t) ==
    /\ step[t] = "chain" /\ (Aborted \/ PlanExhausted(t))
    /\ StandsStill /\ UNCHANGED chainVars
    /\ observed' = [observed EXCEPT ![t] = Len(ledger)]
    /\ Closes(t, "failed")

(* a skip, or media that cannot be materialized again for this provider *)
EntryPassed(t) ==
    /\ step[t] = "chain" /\ ~Aborted /\ ~PlanExhausted(t) /\ tries[t] = 0
    /\ NextEntry(t)
    /\ StandsStill /\ UNCHANGED <<turnVars, observed>>

NewCall(t, retry) ==
    LET c == <<t, made[t] + 1>>
    IN  /\ made[t] < MaxCalls[t]
        /\ stage' = [stage EXCEPT ![c] = "join"]
        /\ via' = [via EXCEPT ![c] = Provider(t)]
        /\ roundOf' = [roundOf EXCEPT ![c] = round[t]]
        /\ native' = IF retry THEN native \cup {c} ELSE native
        /\ made' = [made EXCEPT ![t] = @ + 1]
        /\ current' = [current EXCEPT ![t] = made[t] + 1]
        /\ observed' = [observed EXCEPT ![c] = Len(ledger')]
        /\ UNCHANGED <<result, round, abandoned, paid, shown, closed, unknown, overCap>>

StartAttempt(t) ==
    /\ step[t] = "chain" /\ ~Aborted /\ ~PlanExhausted(t) /\ ~Skipped(t)
    /\ step' = [step EXCEPT ![t] = "attempt"]
    /\ UNCHANGED <<governorVars, runVars, tallyVars, ledger, failure, broken, claim, log>>
    /\ NewCall(t, FALSE)
    /\ Tried(t)

(***************************************************************************)
(* preAttempt: join, then ask the governor.                                *)
(***************************************************************************)

Refused(t) == Aborted \/ t \in abandoned \/ AllowanceRefused(t, Live(t), FALSE)

PreAttemptJoined(c) ==
    /\ At(c, "join") /\ JoinDone(c)
    /\ JoinEnds
    /\ UNCHANGED <<ledger, claim, budgetVars, warningVars, allowanceVars, legacyHold, runVars,
                   tallyVars, paid, shown, closed, unknown, overCap>>
    /\ IF JoinFailed \/ Refused(c[1]) THEN Ends(c, "other", FALSE, "over")
       ELSE /\ stage' = [stage EXCEPT ![c] = "check"]
            /\ observed' = [observed EXCEPT ![c] = Free]
            /\ UNCHANGED <<via, native, roundOf, chainVars, turnVars>>

(* checkPreEgress: flush what is pending, wait out the legacy jobs *)
CheckFails(c) ==
    /\ At(c, "check") /\ commits = <<>> /\ (commitFailure \/ AllowanceRefused(c[1], Live(c[1]), FALSE))
    /\ commitFailure' = FALSE
    /\ UNCHANGED <<ledger, claim, failure, broken, log, commits, commitBroken, budgetVars, warningVars,
                   allowanceVars, legacyHold, runVars, tallyVars, paid, shown, closed, unknown, overCap>>
    /\ Ends(c, "other", FALSE, "over")

CheckHeld(c) ==
    /\ At(c, "check") /\ commits = <<>> /\ ~commitFailure /\ legacyHold
    /\ ~AllowanceRefused(c[1], Live(c[1]), FALSE)
    /\ stage' = [stage EXCEPT ![c] = "held"]
    /\ UNCHANGED <<via, paid, shown, native, closed, unknown, overCap, roundOf, governorVars, moneyVars,
                   runVars, chainVars, turnVars, tallyVars>>

(* back in preAttempt with an admission: one that nobody waits for any     *)
(* more is released                                                        *)
Unwanted(c) == Aborted \/ c \in closed

Begins(c) ==
    /\ stage' = [stage EXCEPT ![c] = "begin"]
    /\ observed' = [observed EXCEPT ![c] = Len(ledger)]
    /\ UNCHANGED <<via, native, roundOf, chainVars, turnVars>>

(* Variant: a warning that another call is writing is not waited for.       *)
AwaitsOwnWarning == ~warning /\ warningArmed

(* #emitWarning: the write in flight, or a new one, is awaited *)
AwaitsWarning == warning \/ warningArmed

(* the waits are over: #evaluate and #admit in one step, and back to       *)
(* preAttempt unless a warning has to be written first                     *)
Evaluate(c) ==
    LET t == c[1]
        quote == Quote[via[c]]
        refused == AllowanceRefused(t, Live(t), FALSE)
        warns == Verdict(quote) = "warn"
        kind == IF ~refused /\ ~HasToken(t) /\ Verdict(quote) = "pause" THEN "pause" ELSE "other"
    IN  /\ \/ At(c, "check") /\ commits = <<>> /\ ~commitFailure /\ ~legacyHold /\ ~refused
           \/ At(c, "held") /\ ~legacyHold
        /\ UNCHANGED <<commitVars, legacyHold, ledger, failure, broken, claim, log, runVars,
                       tallyVars, paid, shown, closed, unknown>>
        /\ \/ /\ refused \/ ~Admits(t, quote)
              /\ IF refused THEN UNCHANGED <<budgetVars, allowanceVars>> ELSE Refuse(t, quote)
              /\ UNCHANGED <<warningVars, overCap>>
              /\ Ends(c, kind, FALSE, "over")
           \/ /\ ~refused /\ Admits(t, quote) /\ ~warns /\ Unwanted(c)
              /\ UNCHANGED <<budgetVars, allowanceVars, warningVars, overCap>>
              /\ Ends(c, "other", FALSE, "over")
           \/ /\ ~refused /\ Admits(t, quote) /\ ~warns /\ ~Unwanted(c)
              /\ Admit(c, quote) /\ Begins(c)
              /\ UNCHANGED <<warningVars, overCap>>
           \/ /\ ~refused /\ Admits(t, quote) /\ warns
              /\ Admit(c, quote)
              /\ overCap' = overCap \cup {c}
              /\ warning' = (warning \/ warningArmed)
              /\ warningArmed' = (warningArmed /\ warning)
              /\ stage' = [stage EXCEPT ![c] = IF AwaitsWarning THEN "warned" ELSE "told"]
              /\ UNCHANGED <<via, native, roundOf, observed, chainVars, turnVars>>

(* #emitWarning settles, and with it everyone who waits for it *)
Told(s) == stage' = [c \in Calls |-> IF stage[c] = "warned" THEN s ELSE stage[c]]

WarningAppended ==
    /\ warning /\ warning' = FALSE
    /\ Told("told")
    /\ \/ announced' = TRUE /\ UNCHANGED <<legacyHold, runVars>>
       \/ AppendFails /\ UNCHANGED announced
    /\ UNCHANGED <<warningArmed, budgetVars, commitVars, allowanceVars, moneyVars, chainVars,
                   via, paid, shown, native, closed, unknown, overCap, roundOf, turnVars, total>>

(* the emission itself throws: re-armed, and every waiter is let down *)
WarningThrows ==
    /\ warning /\ warning' = FALSE /\ warningArmed' = TRUE
    /\ faults < MaxFaults /\ faults' = faults + 1
    /\ Told("unmarked")
    /\ UNCHANGED <<run, legacyHold, announced, budgetVars, commitVars, allowanceVars, moneyVars,
                   chainVars, via, paid, shown, native, closed, unknown, overCap, roundOf, turnVars, total>>

(* after the warning *)
Admitted(c) ==
    /\ At(c, "told")
    /\ UNCHANGED <<ledger, claim, failure, broken, log, runVars, legacyHold, tallyVars,
                   paid, shown, closed, unknown, overCap>>
    /\ IF Unwanted(c) \/ AllowanceRefused(c[1], Live(c[1]), TRUE)
       THEN Release(c, Live(c[1])) /\ Ends(c, "other", FALSE, "over")
       ELSE Begins(c) /\ UNCHANGED <<budgetVars, warningVars, commitVars, allowanceVars>>

(* beginUsageInvocation: join again, then queue the pending marker *)
BeginJoined(c) ==
    /\ At(c, "begin") /\ JoinDone(c)
    /\ JoinEnds
    /\ UNCHANGED <<claim, legacyHold, runVars, tallyVars, paid, shown, closed, unknown, overCap>>
    /\ IF JoinFailed
       THEN UNCHANGED ledger /\ Returned(c, Live(c[1])) /\ Ends(c, "other", FALSE, "over")
       ELSE /\ ledger' = Append(ledger, [call |-> c, write |-> "pending"])
            /\ stage' = [stage EXCEPT ![c] = "marker"]
            /\ observed' = [observed EXCEPT ![c] = Free]
            /\ UNCHANGED <<via, native, roundOf, chainVars, turnVars, budgetVars, warningVars,
                           allowanceVars>>

(* the marker, or the warning, could not be written *)
Unmarked(c) ==
    /\ At(c, "unmarked")
    /\ Release(c, Live(c[1]))
    /\ UNCHANGED <<ledger, claim, failure, broken, log, legacyHold, runVars, tallyVars,
                   paid, shown, closed, unknown, overCap>>
    /\ Ends(c, "other", FALSE, "over")

(* onAttempt of a call whose provider was never asked *)
Uninvoked(c, kind, renews) ==
    /\ Release(c, Live(c[1]))
    /\ Account(c, IF c \in closed THEN "retired" ELSE "released", "released")
    /\ UNCHANGED <<failure, broken, log, legacyHold, runVars, tallyVars, paid, shown, closed, unknown, overCap>>
    /\ Ends(c, kind, renews, "over")

(* no credential, a caller that aborted, or a retry whose attempt is over *)
NotAsked(c) ==
    /\ At(c, "acked")
    /\ \/ (Aborted \/ c \in closed) /\ Uninvoked(c, "other", FALSE)
       \/ ~Aborted /\ c \notin native /\ "auth" \in Errors /\ \E renews \in BOOLEAN : Uninvoked(c, "auth", renews)

(* Variant: the abort is not looked at again before the provider is asked.  *)
AskUnchecked(c) ==
    /\ At(c, "acked") /\ c \notin closed
    /\ stage' = [stage EXCEPT ![c] = "asked"]
    /\ UNCHANGED <<via, paid, shown, native, closed, unknown, overCap, roundOf, governorVars, moneyVars,
                   runVars, chainVars, turnVars, tallyVars>>

Ask(c) ==
    /\ At(c, "acked") /\ ~Aborted /\ c \notin closed
    /\ stage' = [stage EXCEPT ![c] = "asked"]
    /\ UNCHANGED <<via, paid, shown, native, closed, unknown, overCap, roundOf, governorVars, moneyVars,
                   runVars, chainVars, turnVars, tallyVars>>

(***************************************************************************)
(* The provider answers.  onAttempt accounts for the call before the chain *)
(* or the turn goes on.  Content that reached the reader is noted when the *)
(* attempt ends: nothing reads it earlier.                                 *)
(***************************************************************************)

Priced(c) == Quote[via[c]] # NoPrice

(* complete usage: settled at its price, or retained when it has none *)
Charged(c, bill) ==
    LET cost == IF Priced(c) THEN bill ELSE 0
    IN  /\ IF Priced(c) THEN Settle(c, Live(c[1]), cost, total + cost)
                        ELSE SettleAtReservedEstimate(c, Live(c[1]))
        /\ Account(c, "complete", "settled")
        /\ paid' = [paid EXCEPT ![c] = cost]
        /\ total' = total + cost
        /\ UNCHANGED unknown

(* usage unknown: the reservation becomes a commitment *)
Retained(c, kind, w) ==
    /\ SettleAtReservedEstimate(c, Live(c[1]))
    /\ Account(c, kind, w)
    /\ unknown' = unknown \cup {c}
    /\ UNCHANGED <<paid, total>>

(* state.committed: part of the stream reached the reader, or none of it *)
Shown(c) == shown' \in {shown, shown \cup {c}}

AnswerFrame == UNCHANGED <<failure, broken, log, legacyHold, runVars, announced, closed, overCap>>

(* the stream is over: tools to run, or the turn's answer *)
Answered(c, toolUse) ==
    LET t == c[1]
    IN  /\ stage' = [stage EXCEPT ![c] = "over"]
        /\ shown' = shown \cup {c}
        /\ observed' = [observed EXCEPT ![t] = Len(ledger')]
        /\ UNCHANGED <<via, native, roundOf, chainVars>>
        /\ IF toolUse /\ ~Aborted
           THEN /\ step' = [step EXCEPT ![t] = "join"]
                /\ current' = [current EXCEPT ![t] = 0]
                /\ UNCHANGED <<result, round, made, abandoned>>
           ELSE Closes(t, IF Aborted THEN "failed" ELSE "done")

Succeed(c) ==
    /\ At(c, "asked") /\ AnswerFrame
    /\ \/ \E bill \in Bills : Charged(c, bill)
       \/ Retained(c, "retired", "incomplete")
    /\ \E toolUse \in BOOLEAN : Answered(c, toolUse)

(* Variant: a refusal after content counts as free, too.                    *)
RefusableAnyway(c, kind) ==
    via[c] \in Official /\ kind \in {"auth", "rate_limit", "other"}

(* officialRefusal: nothing was billed *)
Refusable(c, kind) ==
    c \notin shown' /\ via[c] \in Official /\ kind \in {"auth", "rate_limit", "other"}

Fail(c) ==
    \E kind \in Errors, renews \in BOOLEAN :
        /\ At(c, "asked") /\ AnswerFrame /\ Shown(c)
        /\ renews => kind = "auth"
        /\ \/ \E bill \in Bills : Charged(c, bill)
           \/ Retained(c, "retired", "incomplete")
           \/ /\ Refusable(c, kind)
              /\ Release(c, Live(c[1])) /\ Account(c, "released", "released")
              /\ UNCHANGED <<paid, total, unknown>>
        /\ Ends(c, IF Aborted THEN "other" ELSE kind, renews, "over")

(* the attempt's deadline, or its caller's abort, while the provider works: *)
(* the receipt may still come                                              *)
Deadline(c) ==
    /\ At(c, "asked") /\ AnswerFrame /\ Shown(c)
    /\ Retained(c, "incomplete", "waiting")
    /\ Ends(c, IF Aborted THEN "other" ELSE "retryable", FALSE, "late")

(* the same while a native retry is being admitted: what it acquires later *)
(* is given back                                                           *)
RetryClosed(c) ==
    LET t == c[1]
        fatal == Aborted
    IN  /\ c \in native \ closed /\ stage[c] \in Acquiring \ {"acked"}
        /\ closed' = closed \cup {c}
        /\ IF stage[c] \in {"warned", "told"}
           THEN UNCHANGED <<budgetVars, warningVars, commitVars, allowanceVars>>
           ELSE Release(c, Live(t))
        /\ UNCHANGED <<ledger, claim, failure, broken, log, legacyHold, runVars, tallyVars,
                       stage, via, paid, shown, native, unknown, overCap, roundOf>>
        /\ FailureNoted(t, IF Aborted THEN "other" ELSE "retryable", FALSE, FALSE)
        /\ observed' = [observed EXCEPT ![t] = IF fatal THEN Len(ledger) ELSE @]
        /\ IF fatal THEN Closes(t, "failed")
           ELSE /\ step' = [step EXCEPT ![t] = "chain"]
                /\ current' = [current EXCEPT ![t] = 0]
                /\ UNCHANGED <<result, round, made, abandoned>>

(* beforeNativeRetry: the adapter drops a rejected parameter and asks again *)
NativeRetry(c) ==
    LET t == c[1]
    IN  /\ At(c, "asked") /\ ~Aborted
        /\ Cardinality({d \in native : d[1] = t}) < MaxNative[t]
        /\ made[t] < MaxCalls[t]
        /\ UNCHANGED <<failure, broken, log, legacyHold, runVars, announced, chainVars>>
        /\ IF via[c] \in Official
           THEN /\ Release(c, Live(t)) /\ Account(c, "released", "released")
                /\ UNCHANGED <<paid, total, unknown>>
           ELSE Retained(c, "retired", "incomplete")
        /\ LET d == <<t, made[t] + 1>>
           IN  /\ stage' = [stage EXCEPT ![c] = "over", ![d] = "join"]
               /\ via' = [via EXCEPT ![d] = via[c]]
               /\ roundOf' = [roundOf EXCEPT ![d] = round[t]]
               /\ native' = native \cup {d}
               /\ observed' = [observed EXCEPT ![d] = Len(ledger')]
        /\ made' = [made EXCEPT ![t] = @ + 1]
        /\ current' = [current EXCEPT ![t] = made[t] + 1]
        /\ UNCHANGED <<step, result, round, abandoned, shown, closed, overCap>>

(* #settleLateReceipt: the charge is recorded beside the estimate that was *)
(* retained for it                                                         *)
LateReceipt(c) ==
    /\ At(c, "late") /\ AnswerFrame
    /\ stage' = [stage EXCEPT ![c] = "over"]
    /\ \/ \E bill \in Bills :
             LET cost == IF Priced(c) THEN bill ELSE 0
             IN  /\ UpdateCost(total + cost) /\ total' = total + cost
                 /\ paid' = [paid EXCEPT ![c] = cost]
                 /\ Account(c, "complete", "settled")
       \/ /\ Account(c, "retired", "incomplete")
          /\ UNCHANGED <<budgetVars, warningVars, commitVars, allowanceVars, paid, total>>
    /\ UNCHANGED <<via, shown, native, unknown, roundOf, observed, chainVars, turnVars>>

(***************************************************************************)
(* The turn around its calls, and the dispatch around the turn.            *)
(***************************************************************************)

JoinFrame == UNCHANGED <<ledger, claim, budgetVars, warningVars, chainVars, callVars, total, announced>>

(* dispatchToolUseTurn: the charges of this round are durable before its   *)
(* tools run                                                               *)
ToolsJoined(t) ==
    /\ step[t] = "join" /\ JoinDone(t) /\ JoinEnds /\ JoinFrame
    /\ UNCHANGED <<allowanceVars, legacyHold, runVars>>
    /\ IF JoinFailed \/ Aborted
       THEN Closes(t, "failed") /\ observed' = [observed EXCEPT ![t] = Len(ledger)]
       ELSE /\ step' = [step EXCEPT ![t] = "tools"]
            /\ observed' = [observed EXCEPT ![t] = Free]
            /\ UNCHANGED <<result, round, current, made, abandoned>>

(* another round, unless a tool failed for good, the limit is reached or   *)
(* the run was aborted                                                     *)
ToolsReturn(t) ==
    /\ step[t] = "tools"
    /\ StandsStill
    /\ \/ /\ ~Aborted /\ round[t] < ToolRounds[t]
          /\ step' = [step EXCEPT ![t] = "chain"]
          /\ round' = [round EXCEPT ![t] = @ + 1]
          /\ Restarted(t)
          /\ UNCHANGED <<result, current, made, abandoned, observed>>
       \/ /\ Closes(t, "failed")
          /\ observed' = [observed EXCEPT ![t] = Len(ledger)]
          /\ UNCHANGED chainVars

(* captureAgentTurnOutcome: a turn that failed already keeps its error;    *)
(* then the engine joins at the dispatch's boundary                        *)
TurnCaptured(t) ==
    /\ step[t] = "closing" /\ JoinDone(t) /\ JoinEnds /\ JoinFrame
    /\ step' = [step EXCEPT ![t] = "boundary"]
    /\ result' = [result EXCEPT ![t] = IF JoinFailed /\ @ = "done" THEN "failed" ELSE @]
    /\ observed' = [observed EXCEPT ![t] = Len(ledger)]
    /\ UNCHANGED <<round, current, made, abandoned, allowanceVars, legacyHold, runVars>>

(* #joinMoneyDurability, #onOutcome, and the allowance is closed *)
DispatchEnds(t) ==
    /\ step[t] = "boundary" /\ JoinDone(t) /\ JoinEnds /\ JoinFrame
    /\ step' = [step EXCEPT ![t] = "ended"]
    /\ observed' = [observed EXCEPT ![t] = Free]
    /\ allowance' = [allowance EXCEPT ![t].closed = TRUE]
    /\ \/ /\ Live(t) /\ (JoinFailed \/ result[t] = "failed")
          /\ run' = "failed" /\ legacyHold' = FALSE
       \/ ~(Live(t) /\ JoinFailed) /\ UNCHANGED <<run, legacyHold>>
    /\ UNCHANGED <<result, round, current, made, abandoned, debit, faults>>

Loops(j) == JoinLoops(j) /\ UNCHANGED <<chainVars, callVars, turnVars, tallyVars>>

(***************************************************************************)
(* The store, and everything else that may happen to the run.              *)
(***************************************************************************)

OutcomeSettles ==
    /\ \E w \in [call: Calls, write: Writes] : OutcomeLands(w) \/ OutcomeLost(w)
    /\ UNCHANGED <<budgetVars, warningVars, commitVars, allowanceVars, chainVars, callVars, turnVars,
                   tallyVars>>

MarkerSettles ==
    \E c \in Calls :
        LET w == [call |-> c, write |-> "pending"]
        IN  /\ \/ MarkerLands(w) /\ stage' = [stage EXCEPT ![c] = "acked"]
               \/ MarkerLost(w) /\ stage' = [stage EXCEPT ![c] = "unmarked"]
            /\ UNCHANGED <<budgetVars, warningVars, commitVars, allowanceVars, chainVars, via, paid,
                           shown, native, closed, unknown, overCap, roundOf, turnVars, tallyVars>>

CommitSettles ==
    /\ CommitLands \/ CommitLost
    /\ UNCHANGED <<budgetVars, warningVars, allowanceVars, ledger, failure, broken, claim, observed,
                   chainVars, callVars, turnVars, tallyVars>>

Outside == UNCHANGED <<budgetVars, warningVars, commitVars, allowanceVars, moneyVars, faults,
                       callVars, tallyVars>>

(* Variant: an abort leaves the calls that are held where they are.         *)
CancelHolding ==
    /\ Cancels /\ \E t \in Turns : step[t] # "ended"
    /\ run = "running" /\ run' = "cancelled"
    /\ Outside /\ UNCHANGED <<legacyHold, chainVars, turnVars>>

(* cancel, and with it the abort that releases every hold *)
Cancel ==
    /\ Cancels /\ \E t \in Turns : step[t] # "ended"
    /\ run = "running" /\ run' = "cancelled" /\ legacyHold' = FALSE
    /\ Outside /\ UNCHANGED <<chainVars, turnVars>>

(* the last legacy media job settles; an aborted run polls none any more *)
LegacyJobSettles ==
    /\ legacyHold /\ ~Aborted /\ legacyHold' = FALSE
    /\ Outside /\ UNCHANGED <<run, chainVars, turnVars>>

(* the vertex's own deadline: the run stops waiting for this dispatch *)
Abandon(t) ==
    /\ t \in Timed \ abandoned /\ step[t] # "ended" /\ ~Aborted
    /\ abandoned' = abandoned \cup {t}
    /\ Outside /\ UNCHANGED <<run, legacyHold, chainVars, step, result, round, current, made>>

CoolsOff(t, p) ==
    /\ CooldownEnds(t, p)
    /\ Outside /\ UNCHANGED <<run, legacyHold, turnVars>>

CallStep(c) ==
    \/ PreAttemptJoined(c) \/ CheckFails(c) \/ CheckHeld(c) \/ Evaluate(c) \/ Admitted(c)
    \/ BeginJoined(c) \/ Unmarked(c) \/ NotAsked(c) \/ Ask(c) \/ Loops(c)

ProviderStep(c) == Succeed(c) \/ Fail(c) \/ Deadline(c) \/ RetryClosed(c)

TurnStep(t) ==
    \/ ChainFails(t) \/ EntryPassed(t) \/ StartAttempt(t) \/ ToolsJoined(t) \/ ToolsReturn(t)
    \/ TurnCaptured(t) \/ DispatchEnds(t) \/ Loops(t)

StoreStep == OutcomeSettles \/ MarkerSettles \/ CommitSettles \/ WarningAppended \/ WarningThrows

Next ==
    \/ \E c \in Calls : CallStep(c) \/ ProviderStep(c) \/ NativeRetry(c) \/ LateReceipt(c)
    \/ \E t \in Turns : TurnStep(t) \/ Abandon(t) \/ \E p \in Providers : CoolsOff(t, p)
    \/ StoreStep \/ Cancel \/ LegacyJobSettles

(* Promises that are settled are continued; the store answers; an attempt  *)
(* has a deadline and a media job settles or is abandoned by its own.      *)
Fairness ==
    /\ \A c \in Calls : WF_vars(CallStep(c)) /\ WF_vars(ProviderStep(c))
    /\ \A t \in Turns : WF_vars(TurnStep(t))
    /\ WF_vars(StoreStep) /\ WF_vars(LegacyJobSettles)

Spec == Init /\ [][Next]_vars
FairSpec == Spec /\ Fairness

(* The governor, the ledger, the chain, the calls and the turns keep their *)
(* types: no sum, count or position ever falls below nought.               *)
TypeOK ==
    /\ GovernorTypeOK /\ MoneyTypeOK /\ ChainTypeOK
    /\ stage \in [Calls -> Stages] /\ via \in [Calls -> Providers]
    /\ paid \in [Calls -> Nat \cup {NoBill}]
    /\ shown \subseteq Calls /\ native \subseteq Calls /\ closed \subseteq native /\ unknown \subseteq Calls
    /\ overCap \subseteq Calls
    /\ step \in [Turns -> {"chain", "attempt", "join", "tools", "closing", "boundary", "ended"}]
    /\ result \in [Turns -> {"none", "done", "failed", "paused"}]
    /\ round \in [Turns -> Nat] /\ roundOf \in [Calls -> Nat]
    /\ current \in [Turns -> Nat] /\ made \in [Turns -> Nat]
    /\ abandoned \subseteq Turns /\ total \in Nat /\ announced \in BOOLEAN

(***************************************************************************)
(* Properties.                                                             *)
(***************************************************************************)

CallsOf(t) == {c \in Calls : c[1] = t}

(* the outcomes of a call that are written, or queued to be *)
Known(c) ==
    {log[c][i] : i \in DOMAIN log[c]}
    \cup {ledger[i].write : i \in {j \in DOMAIN ledger : ledger[j].call = c}}

Estimate(c) == Larger(Quote[via[c]], 0)

(* what the provider has charged, or may have *)
Exposure(c) ==
    IF paid[c] # NoBill THEN paid[c]
    ELSE IF stage[c] = "asked" \/ c \in unknown THEN Estimate(c) ELSE 0

(* charges no admission foresaw: a late receipt, a bill above its estimate *)
Overrun(c) ==
    IF paid[c] = NoBill THEN 0
    ELSE IF c \in unknown THEN paid[c] ELSE Larger(paid[c] - Estimate(c), 0)

(* Whatever interleaving of calls, retries, deadlines and late receipts:   *)
(* what the providers charged, or may have charged for calls whose usage   *)
(* is unknown, is never more than the governor counts as spent, committed  *)
(* and reserved.                                                           *)
ChargesAreCounted ==
    MapThenSumSet(Exposure, Calls) <= spent + conservative + reservedCost

(* Under "fail" and "pause" several calls admitted at once do not pass the *)
(* cap together: the governor's total exceeds it only by the allowances a  *)
(* person approved and by charges no estimate foresaw.  Under "warn" no    *)
(* provider is asked over the cap before a warning is on the log, also by  *)
(* the call that found the warning already in flight.                      *)
CapRespected ==
    /\ policy \in {"fail", "pause"} /\ Cap > 0 =>
          spent + conservative + reservedCost
              <= Cap + MapThenSumSet(LAMBDA t : Larger(Approved[t], 0), Turns)
                     + MapThenSumSet(Overrun, Calls)
    /\ \A c \in overCap : stage[c] \in {"asked", "late"} => announced

(* A reservation is held only by a call that is being admitted or asked:   *)
(* after a refusal, an abort or a closed attempt it comes back, and so     *)
(* does the allowance debit of the call; the governor's sum agrees.        *)
ReservationsReturned ==
    /\ reservedCost = MapThenSumSet(LAMBDA c : reserved[c], Calls)
    /\ \A c \in Calls :
          stage[c] \notin Acquiring \cup {"asked"} => reserved[c] = 0 /\ c \notin debit
    /\ \A t \in Turns : allowance[t].inFlight = (debit \cap CallsOf(t) # {})

(* the outcome of a call that left its marker is durable, and so is the    *)
(* commitment for a charge that is unknown                                 *)
OnRecord(c) ==
    LET written == {log[c][i] : i \in DOMAIN log[c]}
    IN  /\ written \cap Outcomes # {}
        /\ {"waiting", "incomplete"} \cap written # {} /\ Estimate(c) > 0 => "committed" \in written

(* Before a turn asks a provider again, runs a tool or ends without an     *)
(* error of the ledger, the outcomes of all its earlier calls are durable: *)
(* the joins of preAttempt, of dispatchToolUseTurn and of the dispatch's   *)
(* boundary, though other turns and closed retries join and write too.     *)
RecordedBeforeActing ==
    \A t \in Turns :
        \/ \E c \in CallsOf(t) : stage[c] = "asked"
        \/ step[t] = "tools"
        \/ step[t] = "ended" /\ ~broken /\ ~commitBroken
        => \A c \in CallsOf(t) \ closed :
              stage[c] \in {"late", "over"} /\ claim[c] # "none" => OnRecord(c)

(* A provider is only asked with the call's marker on the log; a marker is *)
(* resolved once, or once more when a receipt was still awaited; and a     *)
(* call that was paid for or showed content is never written as released.  *)
OneOutcomeEach ==
    \A c \in Calls :
        /\ stage[c] \in {"asked", "late"} => log[c] # <<>> /\ log[c][1] = "pending"
        /\ \A i, j \in DOMAIN log[c] :
              i < j /\ {log[c][i], log[c][j]} \subseteq Outcomes =>
                  log[c][i] = "waiting" /\ log[c][j] \in {"settled", "incomplete"}
        /\ "released" \in Known(c) => paid[c] = NoBill /\ c \notin shown

(* Once a reader has seen part of an answer, neither the same provider nor *)
(* the next one is tried again for that request.                           *)
NoSecondVoice ==
    \A c \in shown, d \in Calls :
        c[1] = d[1] /\ d[2] > c[2] /\ stage[d] # "none" => roundOf[d] > roundOf[c]

(* A provider gets its attempts in each request, once for each place it    *)
(* has in the plan, and one more over the whole turn for a refreshed       *)
(* credential.                                                             *)
AttemptsBounded ==
    \A t \in Turns, p \in Providers :
        LET places == Cardinality({i \in DOMAIN Plan : Plan[i] = p})
        IN  Cardinality({c \in CallsOf(t) \ native : stage[c] # "none" /\ via[c] = p})
                <= MaxAttempts[p] * places * (round[t] + 1) + 1

(* Both: what the chain may never do to answer one request.                *)
ChainKeepsItsWord == NoSecondVoice /\ AttemptsBounded

(* Once money is uncertain, or the run is over, no provider is asked and   *)
(* no tool round starts, whoever else consumed the failure.                *)
NothingNewAfterLoss ==
    [][Aborted \/ broken \/ commitBroken =>
          /\ \A c \in Calls : stage'[c] = "asked" => stage[c] = "asked"
          /\ \A t \in Turns : step'[t] = "tools" => step[t] = "tools"]_vars

(* Every turn ends, whatever fails, is held or is cancelled, or uses up    *)
(* the calls this model gives it.                                          *)
TurnsEnd ==
    \A t \in Turns :
        <>(step[t] = "ended" \/ (step[t] = "chain" /\ made[t] = MaxCalls[t]))

(* The durability of money is reported uncertain only when an append of    *)
(* money failed.  It does not hold: README, section 5.                     *)
UncertainMeansLost == broken => faults > 0
=============================================================================

---------------------------- MODULE FallbackChain ----------------------------
(***************************************************************************)
(* The fallback chain of one turn (llm/src/fallback-chain.ts): a plan of   *)
(* providers, tried in order, each a bounded number of times.  Streaming   *)
(* and generating take the same decisions; the entry loop, the attempt     *)
(* budget and the verdict on a failure are here, the attempt itself in     *)
(* AgentTurn.  A chain lives as long as its turn: cooldowns and credential *)
(* refreshes outlast one request.                                          *)
(***************************************************************************)
EXTENDS Dispatches, Sequences

CONSTANTS
    Plan,          \* #plan: providers, most preferred first
    MaxAttempts,   \* provider -> entry.maxAttempts
    Unable         \* providers that cannot serve the request: #skipReason

Providers == {Plan[i] : i \in DOMAIN Plan}

ASSUME ChainAssumption ==
    /\ Plan \in Seq(Providers) /\ Plan # <<>> /\ MaxAttempts \in [Providers -> Nat \ {0}]

(* what LlmError.kind decides: auth, rate_limit, protocol, a retryable     *)
(* kind (timeout, transport, overloaded), or any other                     *)
ErrorKinds == {"auth", "rate_limit", "protocol", "retryable", "other"}

VARIABLES
    entry,      \* position in the plan, per turn
    tries,      \* attempts made at this entry
    bonus,      \* attempts a refreshed credential added
    refreshed,  \* #authRefreshed
    cooled      \* #cooldownUntil, the providers still cooling down

chainVars == <<entry, tries, bonus, refreshed, cooled>>

ChainInit ==
    /\ entry = [t \in Turns |-> 1]
    /\ tries = [t \in Turns |-> 0]
    /\ bonus = [t \in Turns |-> 0]
    /\ refreshed = [t \in Turns |-> {}]
    /\ cooled = [t \in Turns |-> {}]

PlanExhausted(t) == entry[t] > Len(Plan)

Provider(t) == Plan[entry[t]]

(* #skipReason, read when an entry is reached *)
Skipped(t) == tries[t] = 0 /\ Provider(t) \in cooled[t] \cup Unable

BudgetLeft(t) == tries[t] < MaxAttempts[Provider(t)] + bonus[t]

AtEntry(t, i) ==
    /\ entry' = [entry EXCEPT ![t] = i]
    /\ tries' = [tries EXCEPT ![t] = 0]
    /\ bonus' = [bonus EXCEPT ![t] = 0]

(* the entry is skipped, or its media could not be materialized *)
NextEntry(t) == AtEntry(t, entry[t] + 1) /\ UNCHANGED <<refreshed, cooled>>

(* the next request of the turn *)
Restarted(t) == AtEntry(t, 1) /\ UNCHANGED <<refreshed, cooled>>

Tried(t) ==
    /\ tries' = [tries EXCEPT ![t] = @ + 1]
    /\ UNCHANGED <<entry, bonus, refreshed, cooled>>

(* Variant: an attempt whose content was seen is retried like any other.    *)
AfterFailureUncommitted(t, kind, committed, renews) ==
    CASE kind = "auth" -> IF Provider(t) \notin refreshed[t] /\ renews
                          THEN "auth-refreshed" ELSE "fatal"
      [] kind \in {"rate_limit", "retryable"} -> "retryable"
      [] kind = "protocol" -> "advance"
      [] OTHER -> "fatal"

(* #afterFailure: committed is the content the reader has already seen,    *)
(* renews the host's answer to onAuthError                                 *)
AfterFailure(t, kind, committed, renews) ==
    IF committed THEN "fatal"
    ELSE CASE kind = "auth" -> IF Provider(t) \notin refreshed[t] /\ renews
                               THEN "auth-refreshed" ELSE "fatal"
           [] kind \in {"rate_limit", "retryable"} -> "retryable"
           [] kind = "protocol" -> "advance"
           [] OTHER -> "fatal"

(* what the attempt loop does with the verdict *)
FailureNoted(t, kind, committed, renews) ==
    LET verdict == AfterFailure(t, kind, committed, renews)
        noted(k) == IF kind = k /\ ~committed THEN {Provider(t)} ELSE {}
    IN  /\ refreshed' = [refreshed EXCEPT ![t] = @ \cup noted("auth")]
        /\ cooled' = [cooled EXCEPT ![t] = @ \cup noted("rate_limit")]
        /\ CASE verdict = "auth-refreshed" ->
                  bonus' = [bonus EXCEPT ![t] = @ + 1] /\ UNCHANGED <<entry, tries>>
             [] verdict = "advance" \/ (verdict = "retryable" /\ ~BudgetLeft(t)) ->
                  AtEntry(t, entry[t] + 1)
             [] OTHER -> UNCHANGED <<entry, tries, bonus>>

CooldownEnds(t, p) ==
    /\ p \in cooled[t]
    /\ cooled' = [cooled EXCEPT ![t] = @ \ {p}]
    /\ UNCHANGED <<entry, tries, bonus, refreshed>>

ChainTypeOK ==
    /\ entry \in [Turns -> 1..(Len(Plan) + 1)]
    /\ tries \in [Turns -> Nat] /\ bonus \in [Turns -> Nat]
    /\ refreshed \in [Turns -> SUBSET Providers]
    /\ cooled \in [Turns -> SUBSET Providers]
=============================================================================

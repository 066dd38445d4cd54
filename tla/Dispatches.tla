------------------------------ MODULE Dispatches ------------------------------
(* The agent dispatches of one run, and the provider calls they make.        *)
EXTENDS Integers, FiniteSets

CONSTANTS
    Turns,        \* node dispatches, each one agent turn
    MaxCalls      \* turn -> bound: its provider calls

ASSUME DispatchAssumption == IsFiniteSet(Turns) /\ MaxCalls \in [Turns -> Nat \ {0}]

(* One call is one attempt at one provider, or one native retry of it. *)
Calls == UNION {{t} \X (1..MaxCalls[t]) : t \in Turns}
=============================================================================

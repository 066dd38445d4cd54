--------------------------- MODULE MCRunScheduler ---------------------------
(* Run plans for model checking RunScheduler.                                *)
EXTENDS RunScheduler, TLC

CONSTANTS a, b, c, d, e

NoRetry    == [n \in Node |-> 1]
RetryBE    == [n \in Node |-> IF n \in {b, e} THEN 2 ELSE 1]
NoGateAction == <<>>

(* A condition with four branches, the last behind the first as well. *)
OrderFork == <<c, a, b, d, e>>
DepsFork  == (c :> {}) @@ (a :> {c}) @@ (b :> {c}) @@ (d :> {a, c}) @@ (e :> {c})

(* Two independent vertices. *)
OrderTwo == <<a, b>>
DepsTwo  == (a :> {}) @@ (b :> {})

RejectA == a :> "reject"
=============================================================================

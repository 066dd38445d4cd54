-------------------------- MODULE MCRunCheckpoint --------------------------
(* An instance of RunCheckpoint for TLC: a condition that opens the way to an *)
(* agent, to a gate or to both.                                               *)
EXTENDS RunCheckpoint

CONSTANTS cond, agent, person

DepsFork == [n \in {cond, agent, person} |-> IF n = cond THEN {} ELSE {cond}]
RetryA   == [n \in {cond, agent, person} |-> IF n = agent THEN 2 ELSE 1]
=============================================================================

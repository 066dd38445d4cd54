---------------------------- MODULE MCAgentSession ----------------------------
(* Transcripts for model checking AgentSession.                               *)
EXTENDS AgentSession

CONSTANTS p1, p2

(* a bare row and a finished turn of an older version *)
Older == <<Row(1, "user", 1, {}, 0), Row(2, "user", 2, {}, 0), Row(3, "assistant", 2, {1}, 0)>>
Opening == {Older}
OneFirst == [p \in Procs |-> IF p = p1 THEN 1 ELSE 0]
FirstTrims == [p \in Procs |-> IF p = p1 THEN {1} ELSE {}]
OneSecond == [p \in Procs |-> IF p = p2 THEN 1 ELSE 0]
=============================================================================

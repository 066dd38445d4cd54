--------------------------- MODULE NodeLifeClock ---------------------------
(***************************************************************************)
(* Since when an agent vertex has been alive, told from the log.            *)
(*                                                                          *)
(* An agent's timeout_ms runs from the first start of its life, across its  *)
(* retries and its parks; a restart after a crash opens a new life, the     *)
(* continuation after an approved budget gate does not.  The instant of a   *)
(* start is its place among the starts of the run.                          *)
(*                                                                          *)
(* Source: packages/core/src/engine/node-life-clock.ts.                     *)
(***************************************************************************)
EXTENDS Naturals

CONSTANT Agents   \* the vertices whose node:started says nodeType "agent"

(* A Life; attempt 0 stands for a vertex that is not in #lives. *)
NewLife(at, attempt, valid) ==
    [startedAt |-> at, attempt |-> attempt, nextRetry |-> 0, budgetContinuation |-> FALSE, valid |-> valid]
NoLife == NewLife(0, 0, FALSE)

(* A start: the first of a life, its continuation, or a retry. *)
LifeStarted(life, e, at) ==
    CASE e.attempt = 1 /\ life.budgetContinuation ->
            [life EXCEPT !.valid = @ /\ life.nextRetry = 0, !.budgetContinuation = FALSE,
                         !.attempt = 1, !.nextRetry = 0]
      [] e.attempt = 1 /\ ~ life.budgetContinuation -> NewLife(at, 1, TRUE)
      [] e.attempt # 1 /\ life # NoLife ->
            [life EXCEPT !.valid = /\ @ /\ life.nextRetry = e.attempt
                                   /\ life.attempt = e.attempt - 1 /\ ~ life.budgetContinuation,
                         !.attempt = e.attempt, !.nextRetry = 0]
      [] OTHER -> NewLife(at, e.attempt, FALSE)

LifeRetrying(life, e) ==
    IF life = NoLife THEN life
    ELSE [life EXCEPT !.valid = /\ @ /\ life.attempt = e.attempt
                                /\ life.nextRetry = 0 /\ ~ life.budgetContinuation,
                      !.nextRetry = e.attempt + 1]

(* An approval: the next first start continues this life. *)
LifeApproved(life) ==
    IF life = NoLife THEN [NewLife(0, 1, FALSE) EXCEPT !.budgetContinuation = TRUE]
    ELSE [life EXCEPT !.valid = @ /\ ~ life.budgetContinuation /\ life.nextRetry = 0,
                      !.budgetContinuation = TRUE]

(* apply: the event itself, then the gate transition it made. *)
ApplyLife(life, e, kind, at) ==
    LET after ==
          CASE e.type = "node:started" /\ e.node \in Agents -> LifeStarted(life, e, at)
            [] e.type = "node:retrying" -> LifeRetrying(life, e)
            [] e.type \in {"node:completed", "node:failed", "node:skipped"} -> NoLife
            [] OTHER -> life
    IN  CASE kind = "approved" -> LifeApproved(after)
          [] kind = "human"    -> NoLife
          [] OTHER             -> after
=============================================================================

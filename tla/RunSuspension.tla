--------------------------- MODULE RunSuspension ---------------------------
(***************************************************************************)
(* What the ordered log of a run says it is waiting for.                    *)
(*                                                                          *)
(* RunSuspensionReducer folds one event at a time into the history of every *)
(* gate and the media jobs in flight, and answers with the transition the   *)
(* event made.  A history that contradicts itself is refused for good: here *)
(* "corrupt" is set and stays.  Of an event the fold reads its type, its    *)
(* vertex, its gate, its decision and whether it carries a frozen quote;    *)
(* amounts and deadlines ride along unchanged from the pause they copy.     *)
(*                                                                          *)
(* Source: packages/shared/src/run-suspension.ts.                           *)
(***************************************************************************)
EXTENDS Naturals, FiniteSets

CONSTANT Node

NoGate == 0
NoJob  == 0

NodeTerminals == {"node:completed", "node:failed", "node:skipped"}
RunTerminals  == {"run:completed", "run:failed", "run:cancelled"}

(* RunSuspensionReducer's fields, and one GateHistory. *)
NoSuspension ==
    [gates |-> <<>>, media |-> [n \in Node |-> NoJob], terminalNodes |-> {},
     terminalRun |-> FALSE, corrupt |-> FALSE]

FreshGate(n) ==
    [node |-> n, active |-> TRUE, budget |-> FALSE, allowance |-> "none",
     authorityPause |-> FALSE, authorityDecision |-> "none", humanDecision |-> "none"]

IsResolved(h) == h.authorityDecision # "none" \/ h.humanDecision # "none"

-----------------------------------------------------------------------------
(* Answers of apply: the new state and the GateTransition, if there is one.  *)
Moved(s, kind, n) == [state |-> s, kind |-> kind, node |-> n]
Unmoved(s, n)     == Moved(s, "none", n)
Corrupt(s, n)     == Unmoved([s EXCEPT !.corrupt = TRUE], n)

PutGate(s, g, h) ==
    [s EXCEPT !.gates = [i \in (DOMAIN @) \cup {g} |-> IF i = g THEN h ELSE @[i]]]

(* #retireNode: the vertex is over, and with it what it was waiting for. *)
RetireNode(s, n) ==
    [s EXCEPT !.terminalNodes = @ \cup {n},
              !.media[n] = NoJob,
              !.gates = [g \in DOMAIN s.gates |-> [s.gates[g] EXCEPT !.active = @ /\ s.gates[g].node # n]]]

(* #find, then #create: a vertex that is over opens no gate. *)
FoundGate(s, e)  == IF e.gate \in DOMAIN s.gates THEN s.gates[e.gate] ELSE FreshGate(e.node)
Mistaken(s, e)   == IF e.gate \in DOMAIN s.gates
                    THEN s.gates[e.gate].node # e.node
                    ELSE e.node \in s.terminalNodes

(* mergeAllowance: what was frozen with the gate may not change. *)
Misquoted(h, e) == e.allowance # "none" /\ h.allowance \notin {"none", e.allowance}
Quoted(h, e)    == IF e.allowance = "none" THEN h ELSE [h EXCEPT !.allowance = e.allowance]

(* #budget: a gate a person has answered does not become a budget gate. *)
NotBudget(h) == ~ h.budget /\ h.humanDecision # "none"

Pausing(s, g, h, n) ==
    LET t == PutGate(s, g, h)
    IN  IF h.active /\ ~ IsResolved(h) THEN Moved(t, "paused", n) ELSE Unmoved(t, n)

(* #authority, a pause. *)
AuthorityPaused(s, e) ==
    LET h == FoundGate(s, e)
    IN  IF Mistaken(s, e) \/ NotBudget(h) \/ Misquoted(h, e) THEN Corrupt(s, e.node)
        ELSE IF h.authorityPause THEN Unmoved(s, e.node)
        ELSE Pausing(s, e.gate, [Quoted(h, e) EXCEPT !.budget = TRUE, !.authorityPause = TRUE], e.node)

(* #authority, a decision: it counts once, and only for a gate that waits. *)
AuthorityDecided(s, e) ==
    LET h == FoundGate(s, e)
        t == PutGate(s, e.gate, [Quoted(h, e) EXCEPT !.budget = TRUE, !.active = FALSE,
                                                     !.authorityDecision = e.decision])
        u == IF e.decision = "rejected" THEN RetireNode(t, e.node) ELSE t
    IN  IF \/ Mistaken(s, e) \/ NotBudget(h) \/ Misquoted(h, e)
           \/ h.authorityDecision \notin {"none", e.decision}
           \/ h.humanDecision \notin {"none", e.decision}
           \/ ~ IsResolved(h) /\ ~ h.active
        THEN Corrupt(s, e.node)
        ELSE IF IsResolved(h) THEN Unmoved(IF h.authorityDecision = "none" THEN u ELSE s, e.node)
        ELSE Moved(u, e.decision, e.node)

(* #pause: the two companions of a pause. *)
PauseAnnounced(s, e) ==
    LET h == FoundGate(s, e)
        q == Quoted(h, e)
        b == [q EXCEPT !.budget = TRUE,
                       !.allowance = IF @ = "none" THEN "legacy" ELSE @]
    IN  IF Mistaken(s, e) \/ Misquoted(h, e) \/ (e.type = "budget:paused" /\ NotBudget(h))
        THEN Corrupt(s, e.node)
        ELSE Pausing(s, e.gate, IF e.type = "budget:paused" THEN b ELSE q, e.node)

(* #resume finds its gate by its id, or, a person's answer, by the one gate
   of the vertex that still waits. *)
Outstanding(s, n) ==
    {g \in DOMAIN s.gates : s.gates[g].node = n /\ s.gates[g].active /\ ~ IsResolved(s.gates[g])}

AnsweredGate(s, e) ==
    IF e.gate # NoGate THEN {e.gate} \cap {g \in DOMAIN s.gates : s.gates[g].node = e.node}
    ELSE Outstanding(s, e.node)

GateAnswered(s, e) ==
    IF Cardinality(AnsweredGate(s, e)) # 1 THEN Corrupt(s, e.node)
    ELSE LET g == CHOOSE i \in AnsweredGate(s, e) : TRUE
             h == s.gates[g]
             t == PutGate(s, g, [Quoted(h, e) EXCEPT !.humanDecision = e.decision, !.active = FALSE])
         IN  IF \/ Misquoted(h, e)
                \/ h.authorityDecision \notin {"none", e.decision}
                \/ h.humanDecision \notin {"none", e.decision}
                \/ ~ IsResolved(h) /\ ~ h.active
             THEN Corrupt(s, e.node)
             ELSE IF IsResolved(h) THEN Unmoved(t, e.node)
             ELSE IF ~ h.budget THEN Moved(t, "human", e.node)
             ELSE Moved(IF e.decision = "rejected" THEN RetireNode(t, e.node) ELSE t, e.decision, e.node)

(* apply *)
ApplySuspension(s, e) ==
    CASE e.type = "budget:authorization" ->
            IF e.decision = "paused" THEN AuthorityPaused(s, e) ELSE AuthorityDecided(s, e)
      [] e.type \in {"budget:paused", "human_gate:paused"} -> PauseAnnounced(s, e)
      [] e.type = "human_gate:resumed" -> GateAnswered(s, e)
      [] e.type = "media_job:submitted" ->
            Unmoved(IF e.node \in s.terminalNodes THEN s ELSE [s EXCEPT !.media[e.node] = e.job], e.node)
      [] e.type \in NodeTerminals -> Unmoved(RetireNode(s, e.node), e.node)
      [] e.type \in RunTerminals -> Unmoved([s EXCEPT !.terminalRun = TRUE], e.node)
      [] OTHER -> Unmoved(s, e.node)

-----------------------------------------------------------------------------
(* The projections.                                                          *)
PendingGates(s) ==
    {[gate |-> g, node |-> s.gates[g].node, budget |-> s.gates[g].budget,
      allowance |-> s.gates[g].allowance] :
        g \in {i \in DOMAIN s.gates : s.gates[i].active /\ ~ IsResolved(s.gates[i])}}

ResolvedGateIds(s)  == {g \in DOMAIN s.gates : IsResolved(s.gates[g])}
PendingMediaJobs(s) == {n \in Node : s.media[n] # NoJob}

BudgetRejections(s) ==
    {g \in DOMAIN s.gates :
        /\ s.gates[g].budget
        /\ "rejected" = IF s.gates[g].authorityDecision # "none"
                        THEN s.gates[g].authorityDecision ELSE s.gates[g].humanDecision}

IsResumable(s) == ~ s.terminalRun /\ (PendingGates(s) # {} \/ PendingMediaJobs(s) # {})
=============================================================================

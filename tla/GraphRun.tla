------------------------------ MODULE GraphRun ------------------------------
(***************************************************************************)
(* What a run promises about its graph, whoever schedules it.  A vertex    *)
(* waits, is under way, and is over at most once; it is taken up in its    *)
(* turn, skipped only when no edge to it can live, and nothing is taken up *)
(* once a vertex has failed.  The run ends once, as completed only when    *)
(* every vertex completed or was skipped, and no vertex settles after the  *)
(* end.  What is under way may be handed back: a batch that was not        *)
(* started, or a vertex whose money was approved.                          *)
(***************************************************************************)

CONSTANTS Vertices,      \* the vertices of the plan
          Dependencies,  \* vertex -> the vertices its in-edges come from
          Choosers       \* the vertices that pick which of their edges live

VARIABLES fate,          \* of every vertex: "waiting", "active", or how it is over
          branches,      \* the targets a chooser picked
          outcome        \* how the run ended, or "none"

Over == {"completed", "failed", "skipped"}

(* An edge into n is alive, or n has none to wait for. *)
Alive(n) ==
    \/ Dependencies[n] = {}
    \/ \E d \in Dependencies[n] : fate[d] = "completed" /\ (d \in Choosers => n \in branches[d])

Due(n) == Alive(n) /\ \A d \in Dependencies[n] : fate[d] \in Over

Become(S, f) == fate' = [n \in Vertices |-> IF n \in S THEN f ELSE fate[n]]

Init ==
    /\ fate = [n \in Vertices |-> "waiting"]
    /\ branches = [n \in Vertices |-> {}]
    /\ outcome = "none"

Activate(S) ==
    /\ \A n \in S : fate[n] = "waiting" /\ Due(n)
    /\ \A n \in Vertices : fate[n] # "failed"
    /\ Become(S, "active")
    /\ UNCHANGED <<branches, outcome>>

Skip(S) ==
    /\ \A n \in S : /\ fate[n] = "waiting" /\ ~ Alive(n)
                    /\ \A d \in Dependencies[n] : fate[d] \in Over \/ d \in S
    /\ Become(S, "skipped")
    /\ UNCHANGED <<branches, outcome>>

Complete(n, T) ==
    /\ fate[n] = "active"
    /\ Become({n}, "completed")
    /\ branches' = [m \in Vertices |-> IF m = n THEN T ELSE branches[m]]
    /\ UNCHANGED outcome

(* A deadline may also strike a vertex that was handed back. *)
Fail(n) ==
    /\ fate[n] \in {"active", "waiting"} /\ Due(n)
    /\ Become({n}, "failed")
    /\ UNCHANGED <<branches, outcome>>

HandBack(S) ==
    /\ \A n \in S : fate[n] = "active"
    /\ Become(S, "waiting")
    /\ UNCHANGED <<branches, outcome>>

End(o) ==
    /\ o = "completed" => \A n \in Vertices : fate[n] \in {"completed", "skipped"}
    /\ outcome' = o
    /\ UNCHANGED <<fate, branches>>

Next ==
    \/ /\ outcome = "none"
       /\ \/ \E S \in SUBSET Vertices : Activate(S) \/ Skip(S)
          \/ \E n \in Vertices : Fail(n) \/ \E T \in SUBSET Vertices : Complete(n, T)
          \/ \E o \in {"completed", "failed", "cancelled"} : End(o)
    \/ \E S \in SUBSET Vertices : HandBack(S)

Spec == Init /\ [][Next]_<<fate, branches, outcome>>

=============================================================================

------------------------------ MODULE RunRecord ------------------------------
(***************************************************************************)
(* What the durable record of a run promises a reader, whoever writes it.  *)
(* It only grows; it is opened once; it is closed once, by one outcome     *)
(* that nothing replaces (ADR-0036's single terminal).  Whoever closed it  *)
(* adds nothing but receipts.  Progress of somebody else may still come    *)
(* behind the outcome: a writer that was passed by is not always kept out. *)
(***************************************************************************)
EXTENDS Sequences

CONSTANTS Writers,       \* processes
          Outcomes       \* the terminal event types

VARIABLE record          \* the entries: who wrote what, in the order stored

Closing(e) == e.what \in Outcomes

Closed == \E i \in DOMAIN record : Closing(record[i])

ClosedBy(p) == \E i \in DOMAIN record : Closing(record[i]) /\ record[i].by = p

Add(p, what) == record' = Append(record, [by |-> p, what |-> what])

Init == record = <<>>

Open(p) == record = <<>> /\ Add(p, "opened")

Advance(p) == record # <<>> /\ ~ ClosedBy(p) /\ Add(p, "progress")

Close(p, outcome) == record # <<>> /\ ~ Closed /\ Add(p, outcome)

Receipt(p) == ClosedBy(p) /\ Add(p, "receipt")

(* Every step adds an entry. *)
Next ==
    /\ record' # record
    /\ \E p \in Writers :
          Open(p) \/ Advance(p) \/ Receipt(p) \/ \E outcome \in Outcomes : Close(p, outcome)

Spec == Init /\ [][Next]_record

=============================================================================

--------------------------- MODULE MCRunOwnership ---------------------------
(* Small instances of RunOwnership for TLC. *)
EXTENDS RunOwnership

CONSTANT Fast       \* the processes whose clock is ahead

(* A clock that is ahead by less than a TTL, and one that is so by a TTL. *)
AheadALittle == [p \in Proc |-> IF p \in Fast THEN 1 ELSE 0]
AheadByTTL   == [p \in Proc |-> IF p \in Fast THEN TTL ELSE 0]

=============================================================================

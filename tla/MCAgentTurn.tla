----------------------------- MODULE MCAgentTurn -----------------------------
(* Turns, plans and prices for model checking AgentTurn.                      *)
EXTENDS AgentTurn, TLC

CONSTANTS t1, t2, p1, p2

PlanOne == <<p1>>
PlanTwo == <<p1, p2>>
QuoteTwo == [p \in Providers |-> 2]
ApprovedFirst == [t \in Turns |-> IF t = t1 THEN 2 ELSE NoAllowance]
NoRound == [t \in Turns |-> 0]
CallsTwoOne == [t \in Turns |-> IF t = t1 THEN 2 ELSE 1]
CallsThree == [t \in Turns |-> 3]
OneRound == [t \in Turns |-> 1]
RoundFirst == [t \in Turns |-> IF t = t1 THEN 1 ELSE 0]
QuoteMixed == [p \in Providers |-> IF p = p1 THEN 2 ELSE NoPrice]
AttemptsOne == [p \in Providers |-> 1]
AttemptsTwoOne == [p \in Providers |-> IF p = p1 THEN 2 ELSE 1]
NoneApproved == [t \in Turns |-> NoAllowance]
=============================================================================

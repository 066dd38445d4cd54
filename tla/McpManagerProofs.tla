-------------------------- MODULE McpManagerProofs --------------------------
(***************************************************************************)
(* What an answer of the MCP manager means, for any number of servers,     *)
(* callers and reporters.                                                  *)
(***************************************************************************)
EXTENDS McpManager, TLAPS

Types ==
    /\ task \in [Server -> {"opening", "listing", "ok", "failed"}]
    /\ conn \in [Server -> {"none", "cleaning", "open", "closing", "held", "closed", "faulty"}]
    /\ connections \subseteq Server /\ busy \subseteq Server
    /\ start \in {"connecting", "tearing", "up", "refused", "broken"}
    /\ closing \in {"none", "asked", "entered", "done"}
    /\ entered \in [Server -> Nat] /\ observer \in BOOLEAN
    /\ active \subseteq Reporters
    /\ told \in [Reporters \cup {Host} -> SUBSET Server]
    /\ call \in [Caller -> {"idle", "waiting", "joining", "resolved", "rejected"}]
    /\ host \in {"waiting", "joined"}

(* Where the start, the shared close and the callers stand to each other. *)
Phases ==
    /\ start = "connecting" => closing = "none"
    /\ start # "connecting" => \A s \in Server : task[s] \in {"ok", "failed"}
    /\ closing \in {"none", "asked"} => ~observer /\ start \notin {"refused", "broken"}
    /\ host = "joined" => start \in {"refused", "broken"}
    /\ \A c \in Caller : call[c] # "idle" => start = "up" /\ closing # "none"
    /\ \A c \in Caller : call[c] \in {"joining", "resolved"} => closing = "done"

(* A connection is registered as long as it is open or its close has not gone
   well, and is closed within the one shared close. *)
Connections ==
    \A s \in Server :
        /\ task[s] = "opening" => conn[s] = "none"
        /\ s \in connections <=> conn[s] \in {"open", "closing", "held", "faulty"}
        /\ closing \in {"none", "asked"} =>
             conn[s] \in {"none", "cleaning", "open"} /\ entered[s] = 0
        /\ closing \in {"entered", "done"} => conn[s] # "open"
        /\ closing = "done" => conn[s] \notin {"closing", "held"}
        /\ entered[s] <= 1
        /\ s \in busy => conn[s] \in {"open", "closing", "held"}

(* Who waits for the shared close is among its reporters and has heard of every
   fault there is. *)
Reports ==
    /\ told[Host] = IF Failed THEN Faulty ELSE {}
    /\ \A c \in Reporters :
         /\ told[c] \subseteq Faulty
         /\ call[c] # "idle" => told[c] = Faulty /\ (closing # "done" => c \in active)

IInv == Types /\ Phases /\ Connections /\ Reports /\ CloseKeepsItsWord

-----------------------------------------------------------------------------
(* The first state satisfies the invariant. *)
LEMMA Start == Init => IInv
  <1> SUFFICES ASSUME Init PROVE IInv
    OBVIOUS
  <1>1. Types /\ Phases
    BY DEF Init, Types, Phases
  <1>2. Connections
    BY DEF Init, Connections
  <1>3. Faulty = {} /\ ~Failed
    BY DEF Init, Faulty, Failed
  <1>4. Reports
    BY <1>3, McpConstants DEF Init, Reports
  <1>5. CloseKeepsItsWord
    BY DEF Init, CloseKeepsItsWord
  <1> QED BY <1>1, <1>2, <1>4, <1>5 DEF IInv

(* The connect tasks open connections only before anything is closed. *)
LEMMA ConnectStep ==
    ASSUME IInv, NEW s \in Server,
           Opens(s) \/ OpenFails(s) \/ CleanupEnds(s) \/ Lists(s)
    PROVE  IInv'
  <1>1. Types'
    BY DEF IInv, Types, Opens, OpenFails, CleanupEnds, Lists
  <1>2. Phases'
    BY DEF IInv, Types, Phases, Opens, OpenFails, CleanupEnds, Lists
  <1>3. Connections'
    BY DEF IInv, Types, Phases, Connections, Opens, OpenFails, CleanupEnds, Lists
  <1>4. /\ Faulty' = Faulty /\ Failed' = Failed
        /\ start # "connecting" => Alive' \subseteq Alive
    <2>1. Failed' = Failed
      BY DEF Failed, Opens, OpenFails, CleanupEnds, Lists
    <2>2. conn' = conn \/ conn[s] \in {"none", "cleaning", "open"}
      BY DEF IInv, Types, Phases, Connections, Opens, OpenFails, CleanupEnds, Lists
    <2>3. \/ conn' = conn
          \/ \E end \in {"none", "cleaning", "open"} : conn' = [conn EXCEPT ![s] = end]
      BY DEF Opens, OpenFails, CleanupEnds, Lists
    <2>4. Faulty' = Faulty
      BY <2>2, <2>3 DEF IInv, Types, Faulty
    <2>5. start # "connecting" => conn' = conn \/ conn' = [conn EXCEPT ![s] = "none"]
      BY DEF IInv, Types, Phases, Opens, OpenFails, CleanupEnds, Lists
    <2>6. start # "connecting" => Alive' \subseteq Alive
      BY <2>5 DEF IInv, Types, Alive
    <2> QED BY <2>1, <2>4, <2>6
  <1>5. Reports'
    BY <1>4 DEF IInv, Types, Reports, Opens, OpenFails, CleanupEnds, Lists
  <1>6. CloseKeepsItsWord'
    BY <1>3, <1>4, <1>2 DEF IInv, Types, Phases, Connections, CloseKeepsItsWord,
       Opens, OpenFails, CleanupEnds, Lists, Alive
  <1> QED BY <1>1, <1>2, <1>3, <1>5, <1>6 DEF IInv

(* The start and its host go on. *)
LEMMA StartStep == ASSUME IInv, Starting PROVE IInv'
  <1>1. Types'
    BY DEF IInv, Types, Starting, AllSettled, StartThrows, HostJoins
  <1>2. Phases'
    BY DEF IInv, Types, Phases, Starting, AllSettled, StartThrows, HostJoins
  <1>3. Connections'
    BY DEF IInv, Types, Phases, Connections, Starting, AllSettled, StartThrows,
       HostJoins
  <1>4. Faulty' = Faulty /\ Alive' = Alive
    BY DEF Faulty, Alive, Starting, AllSettled, StartThrows, HostJoins
  <1>5. Reports'
    BY <1>4 DEF IInv, Types, Phases, Connections, Reports, Faulty, Failed,
       Starting, AllSettled, StartThrows, HostJoins
  <1>6. CloseKeepsItsWord'
    BY <1>4 DEF IInv, Types, Phases, Connections, Reports, CloseKeepsItsWord,
       Starting, AllSettled, StartThrows, HostJoins, StartupDone, Alive, Failed
  <1> QED BY <1>1, <1>2, <1>3, <1>5, <1>6 DEF IInv

(* Calls come and go while nothing is closed. *)
LEMMA ToolStep ==
    ASSUME IInv, NEW s \in Server, CallTool(s) \/ CallEnds(s) PROVE IInv'
  <1>1. Types' /\ Phases' /\ Connections'
    BY DEF IInv, Types, Phases, Connections, CallTool, CallEnds
  <1>2. Faulty' = Faulty /\ Alive' = Alive /\ Failed' = Failed
    BY DEF Faulty, Alive, Failed, CallTool, CallEnds
  <1>3. Reports'
    BY <1>2 DEF IInv, Reports, CallTool, CallEnds
  <1>4. CloseKeepsItsWord'
    BY <1>2 DEF IInv, Types, Phases, CloseKeepsItsWord, CallTool, CallEnds
  <1> QED BY <1>1, <1>3, <1>4 DEF IInv

(* A caller that closes hears of all faults at once. *)
LEMMA CallerStep ==
    ASSUME IInv, NEW c \in Caller, Close(c) \/ CloseAnswers(c) \/ CloseResolves(c)
    PROVE  IInv'
  <1>1. Faulty' = Faulty /\ Alive' = Alive /\ Failed' = Failed
    BY DEF Faulty, Alive, Failed, Close, CloseAnswers, CloseResolves
  <1>2. CASE Close(c)
    <2>1. Types'
      BY <1>2 DEF IInv, Types, Close, Deliver, Faulty
    <2>2. Phases' /\ Connections'
      BY <1>2 DEF IInv, Types, Phases, Connections, Close
    <2>3. told' = [r \in Reporters \cup {Host} |->
                     IF r = c THEN told[r] \cup Faulty ELSE told[r]]
      BY <1>2, McpConstants DEF IInv, Types, Close, Deliver
    <2>4. Reports'
      BY <1>1, <1>2, <2>3, McpConstants DEF IInv, Types, Phases, Reports, Close
    <2>5. CloseKeepsItsWord'
      BY <1>1, <1>2, <2>3, <2>4 DEF IInv, Types, Phases, Reports,
         CloseKeepsItsWord, Close
    <2> QED BY <2>1, <2>2, <2>4, <2>5 DEF IInv
  <1>3. CASE CloseAnswers(c)
    <2>1. Types' /\ Phases' /\ Connections'
      BY <1>3 DEF IInv, Types, Phases, Connections, CloseAnswers, Answered
    <2>2. Reports'
      BY <1>1, <1>3 DEF IInv, Types, Reports, CloseAnswers
    <2>3. CloseKeepsItsWord'
      BY <1>1, <1>3 DEF IInv, Types, CloseKeepsItsWord, CloseAnswers
    <2> QED BY <2>1, <2>2, <2>3 DEF IInv
  <1>4. CASE CloseResolves(c)
    <2>1. Types' /\ Phases' /\ Connections'
      BY <1>4 DEF IInv, Types, Phases, Connections, CloseResolves
    <2>2. Reports'
      BY <1>1, <1>4 DEF IInv, Types, Reports, CloseResolves
    <2>3. busy = {}
      BY <1>4 DEF IInv, Types, Connections, CloseResolves, StartupDone, Alive
    <2>4. CloseKeepsItsWord'
      BY <1>1, <1>4, <2>3 DEF IInv, Types, Reports, CloseKeepsItsWord,
         CloseResolves, StartupDone
    <2> QED BY <2>1, <2>2, <2>4 DEF IInv
  <1> QED BY <1>2, <1>3, <1>4

(* closeAll enters each close once, while nobody has been answered. *)
LEMMA EnterStep == ASSUME IInv, CloseAll PROVE IInv'
  <1>1. PICK fate \in [connections -> {"enter", "spent", "unreadable"}] :
          /\ conn' = [s \in Server |-> IF s \notin DOMAIN fate THEN conn[s]
                                       ELSE IF fate[s] = "enter" THEN "closing" ELSE "held"]
          /\ entered' = [s \in Server |-> IF s \in DOMAIN fate /\ fate[s] = "enter"
                                          THEN entered[s] + 1 ELSE entered[s]]
          /\ observer' = (observer \/ \E s \in DOMAIN fate : fate[s] = "unreadable")
    BY DEF CloseAll
  <1>2. Types'
    BY <1>1 DEF IInv, Types, CloseAll
  <1>3. Phases'
    BY <1>2 DEF IInv, Types, Phases, CloseAll
  <1>4. Connections'
    BY <1>1 DEF IInv, Types, Connections, CloseAll
  <1>5. Faulty' = Faulty /\ Failed' = Failed
    BY <1>1 DEF IInv, Types, Connections, Faulty, Failed, CloseAll
  <1>6. Reports'
    BY <1>5 DEF IInv, Types, Reports, CloseAll
  <1>7. CloseKeepsItsWord'
    BY <1>4 DEF IInv, Types, Phases, Connections, CloseKeepsItsWord, CloseAll
  <1> QED BY <1>2, <1>3, <1>4, <1>6, <1>7 DEF IInv

(* A close that settles, and the end of the shared close. *)
LEMMA EndStep ==
    ASSUME IInv, NEW s \in Server, CloseEnds(s) PROVE IInv'
  <1>1. Types' /\ Phases' /\ Connections'
    BY DEF IInv, Types, Phases, Connections, CloseEnds
  <1>2. Faulty' = Faulty /\ Failed' = Failed /\ Alive' \subseteq Alive
    BY DEF IInv, Types, Faulty, Failed, Alive, CloseEnds
  <1>3. Reports'
    BY <1>2 DEF IInv, Types, Reports, CloseEnds
  <1>4. CloseKeepsItsWord'
    BY <1>2 DEF IInv, Types, Connections, CloseKeepsItsWord, CloseEnds, Alive
  <1> QED BY <1>1, <1>3, <1>4 DEF IInv

LEMMA FailStep ==
    ASSUME IInv, NEW s \in Server, CloseFails(s) PROVE IInv'
  <1> DEFINE rs == IF Failed THEN {Host} ELSE active
  <1>1. told' = [r \in Reporters \cup {Host} |->
                   IF r \in rs THEN told[r] \cup {s} ELSE told[r]]
    BY DEF IInv, Types, CloseFails, Deliver
  <1>2. Types'
    BY <1>1 DEF IInv, Types, CloseFails
  <1>3. closing = "entered"
    BY DEF IInv, Types, Connections, CloseFails
  <1>4. Phases' /\ Connections'
    BY <1>3 DEF IInv, Types, Phases, Connections, CloseFails
  <1>5. Faulty' = Faulty \cup {s} /\ Failed' = Failed /\ Alive' \subseteq Alive
    BY DEF IInv, Types, Faulty, Failed, Alive, CloseFails
  <1>6. Reports'
    <2>1. told'[Host] = IF Failed THEN Faulty \cup {s} ELSE {}
      BY <1>1, McpConstants DEF IInv, Types, Reports
    <2>2. ASSUME NEW c \in Reporters
          PROVE  /\ told'[c] \subseteq Faulty \cup {s}
                 /\ call[c] # "idle" => told'[c] = Faulty \cup {s} /\ c \in active
      BY <1>1, <1>3, McpConstants DEF IInv, Types, Phases, Reports, Failed
    <2> QED BY <1>3, <1>5, <2>1, <2>2 DEF Reports, CloseFails
  <1>7. CloseKeepsItsWord'
    BY <1>3, <1>4, <1>5, <1>6 DEF IInv, Types, Phases, Reports, CloseKeepsItsWord,
       CloseFails, Alive, Failed
  <1> QED BY <1>2, <1>4, <1>6, <1>7 DEF IInv

LEMMA DoneStep == ASSUME IInv, AllClosed PROVE IInv'
  <1>1. Types' /\ Phases' /\ Connections'
    BY DEF IInv, Types, Phases, Connections, AllClosed
  <1>2. Faulty' = Faulty /\ Failed' = Failed /\ Alive' = Alive
    BY DEF Faulty, Failed, Alive, AllClosed
  <1>3. Reports'
    BY <1>2 DEF IInv, Types, Reports, AllClosed
  <1>4. CloseKeepsItsWord'
    BY <1>2 DEF IInv, CloseKeepsItsWord, AllClosed
  <1> QED BY <1>1, <1>3, <1>4 DEF IInv

(* Every step keeps the invariant. *)
LEMMA Preserved == IInv /\ [Next]_vars => IInv'
  <1> SUFFICES ASSUME IInv, [Next]_vars PROVE IInv'
    OBVIOUS
  <1>1. CASE Connecting
    BY <1>1, ConnectStep DEF Connecting
  <1>2. CASE Starting
    BY <1>2, StartStep
  <1>3. CASE Closing
    BY <1>3, EnterStep, DoneStep, EndStep, FailStep, CallerStep DEF Closing
  <1>4. CASE \E s \in Server : CallTool(s) \/ CallEnds(s)
    BY <1>4, ToolStep
  <1>5. CASE \E c \in Caller : Close(c)
    BY <1>5, CallerStep
  <1>6. CASE UNCHANGED vars
    BY <1>6 DEF vars, IInv, Types, Phases, Connections, Reports, CloseKeepsItsWord,
       Failed,
       Faulty, Alive
  <1> QED BY <1>1, <1>2, <1>3, <1>4, <1>5, <1>6 DEF Next

(* For every set of servers, callers and reporters: whoever the manager answers
   finds everything ended, each connection closed at most once and every fault
   told (startMcpClient, close and closeAll of manager.ts). *)
THEOREM AnswersAreHonest == Spec => []CloseKeepsItsWord
  <1>1. IInv => CloseKeepsItsWord
    BY DEF IInv
  <1> QED BY <1>1, Start, Preserved, PTL DEF Spec
=============================================================================

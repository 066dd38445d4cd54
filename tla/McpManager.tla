---------------------------- MODULE McpManager ----------------------------
(***************************************************************************)
(* The client of the MCP servers that one command declares                 *)
(* (packages/mcp/src/manager.ts): every server is connected at once, one   *)
(* that fails fails the start and everything that was opened is closed     *)
(* again; a client that came up routes calls and is closed, possibly by    *)
(* several callers at once.  What has been started and not yet ended is    *)
(* kept by nested scopes (work-scope.ts), which the host joins             *)
(* (apps/cli/src/engine/mcp-servers.ts).                                   *)
(*                                                                         *)
(* A server's id is unique: the start refuses a repeated one before it     *)
(* opens anything.  A connection owns a child process or a socket; its     *)
(* close() settles, well or badly, after that has gone (sdk-work.ts).      *)
(***************************************************************************)
EXTENDS Naturals, FiniteSets

CONSTANTS Server,     \* the declared servers
          Caller,     \* who may close a client that came up
          Reporters,  \* the callers that pass onCloseError
          Host        \* the reporter of a failed start (lifecycle.onCloseError)

ASSUME McpConstants == Reporters \subseteq Caller /\ Host \notin Caller

VARIABLES task,      \* per server: where its connect task stands
          conn,      \* per server: its connection
          connections, \* the servers whose connection is registered
          busy,      \* the servers with a call in flight
          start,     \* startMcpClient
          sealed,    \* the sealed ones of the scopes startup and failedCleanup
          closing,   \* the shared close
          entered,   \* history: how often close() of a connection was entered
          observer,  \* observerFailure has been rejected
          active,    \* activeReporters
          told,      \* per reporter: the servers whose faults it was given
          threw,     \* the reporters with a failure of their own
          call,      \* per caller: its close()
          host       \* whoever awaits the start and its scope

vars == <<task, conn, connections, busy, start, sealed, closing, entered,
          observer, active, told, threw, call, host>>

Init ==
    /\ task = [s \in Server |-> "opening"]
    /\ conn = [s \in Server |-> "none"]
    /\ connections = {} /\ busy = {}
    /\ start = "connecting" /\ sealed = {}
    /\ closing = "none"
    /\ entered = [s \in Server |-> 0]
    /\ observer = FALSE
    /\ active = {} /\ threw = {}
    /\ told = [r \in Reporters \cup {Host} |-> {}]
    /\ call = [c \in Caller |-> "idle"]
    /\ host = "waiting"

Faulty == {s \in Server : conn[s] = "faulty"}         \* closeFailures
Failed == start \in {"tearing", "refused", "broken"}  \* failedStartup

(* The connections with a child, a socket or a clean-up that has not ended.   *)
Alive == {s \in Server : conn[s] \in {"cleaning", "open", "closing", "held"}}

(* The scope failedCleanup, and startup with all its forks, acknowledge.     *)
CleanupDone ==
    /\ "cleanup" \in sealed
    /\ Failed => \A s \in Server : conn[s] \notin {"closing", "held"}
StartupDone ==
    "startup" \in sealed /\ CleanupDone /\ Alive = {}

-----------------------------------------------------------------------------
(* Connecting: the tasks of all servers run at once.                         *)

(* Variant: a connection is registered with its tools, and its listing fails. *)
OpensUnregistered(s) ==
    /\ task[s] = "opening"
    /\ task' = [task EXCEPT ![s] = "listing"]
    /\ conn' = [conn EXCEPT ![s] = "open"]
    /\ UNCHANGED <<connections, busy, start, sealed, closing, entered, observer,
                   active, told, threw, call, host>>

(* open() resolves and its connection is registered before tools are listed. *)
Opens(s) ==
    /\ task[s] = "opening"
    /\ task' = [task EXCEPT ![s] = "listing"]
    /\ conn' = [conn EXCEPT ![s] = "open"]
    /\ connections' = connections \cup {s}
    /\ UNCHANGED <<busy, start, sealed, closing, entered, observer, active,
                   told, threw, call, host>>

(* open() rejects: refused before a child exists, or at its deadline or a     *)
(* cancel, with the clean-up begun and left behind.                          *)
OpenFails(s) ==
    /\ task[s] = "opening"
    /\ task' = [task EXCEPT ![s] = "failed"]
    /\ \E end \in {"none", "cleaning"} : conn' = [conn EXCEPT ![s] = end]
    /\ UNCHANGED <<connections, busy, start, sealed, closing, entered, observer,
                   active, told, threw, call, host>>

CleanupEnds(s) ==
    /\ conn[s] = "cleaning"
    /\ conn' = [conn EXCEPT ![s] = "none"]
    /\ UNCHANGED <<task, connections, busy, start, sealed, closing, entered,
                   observer, active, told, threw, call, host>>

Lists(s) ==
    /\ task[s] = "listing"
    /\ \E end \in {"ok", "failed"} : task' = [task EXCEPT ![s] = end]
    /\ UNCHANGED <<conn, connections, busy, start, sealed, closing, entered,
                   observer, active, told, threw, call, host>>

(* All tasks have settled.  One that failed makes the start close what was    *)
(* opened; otherwise the client is assembled and returned.                   *)
AllSettled ==
    /\ start = "connecting"
    /\ \A s \in Server : task[s] \in {"ok", "failed"}
    /\ IF \E s \in Server : task[s] = "failed"
         THEN /\ start' = "tearing" /\ closing' = "asked"
              /\ sealed' = sealed \cup {"startup"}
         ELSE /\ start' = "up" /\ sealed' = sealed \cup {"startup", "cleanup"}
              /\ UNCHANGED closing
    /\ UNCHANGED <<task, conn, connections, busy, entered, observer, active,
                   told, threw, call, host>>

(* The start rejects: with the failure of a server once all is closed, or at  *)
(* once when the clean-up could not be observed.                              *)
StartThrows ==
    /\ start = "tearing"
    /\ observer \/ closing = "done"
    /\ start' = IF observer THEN "broken" ELSE "refused"
    /\ sealed' = sealed \cup {"cleanup"}
    /\ UNCHANGED <<task, conn, connections, busy, closing, entered, observer,
                   active, told, threw, call, host>>

(* The host awaits its own scope before it passes the failure on.            *)
HostJoins ==
    /\ host = "waiting" /\ start \in {"refused", "broken"} /\ StartupDone
    /\ host' = "joined"
    /\ UNCHANGED <<task, conn, connections, busy, start, sealed, closing,
                   entered, observer, active, told, threw, call>>

-----------------------------------------------------------------------------
(* Calls and the close of a client that came up.                             *)

CallTool(s) ==
    /\ start = "up" /\ closing = "none" /\ s \in connections \ busy
    /\ busy' = busy \cup {s}
    /\ UNCHANGED <<task, conn, connections, start, sealed, closing, entered,
                   observer, active, told, threw, call, host>>

CallEnds(s) ==
    /\ s \in busy
    /\ busy' = busy \ {s}
    /\ UNCHANGED <<task, conn, connections, start, sealed, closing, entered,
                   observer, active, told, threw, call, host>>

(* A fault is given once to each of the reporters rs; some of them throw.    *)
Deliver(rs, faults) ==
    LET new == {r \in rs : ~ faults \subseteq told[r]} IN
    /\ told' = [r \in DOMAIN told |-> IF r \in rs THEN told[r] \cup faults ELSE told[r]]
    /\ \E bad \in SUBSET new : threw' = threw \cup bad

(* close(onCloseError): the first call schedules the shared close, each one   *)
(* hears of the faults there are.                                            *)
Close(c) ==
    /\ start = "up" /\ call[c] \notin {"waiting", "joining"}
    /\ call' = [call EXCEPT ![c] = "waiting"]
    /\ closing' = IF closing = "none" THEN "asked" ELSE closing
    /\ active' = active \cup (IF closing # "done" THEN {c} \cap Reporters ELSE {})
    /\ Deliver({c} \cap Reporters, Faulty)
    /\ UNCHANGED <<task, conn, connections, busy, start, sealed, entered,
                   observer, host>>


(* closeAll: in one go, the close of every registered connection is entered   *)
(* unless the budget is spent or cannot be read; then it is held, which is    *)
(* never acknowledged.                                                       *)
CloseAll ==
    /\ closing = "asked"
    /\ closing' = "entered"
    /\ \E fate \in [connections -> {"enter", "spent", "unreadable"}] :
         /\ conn' = [s \in Server |-> IF s \notin DOMAIN fate THEN conn[s]
                                      ELSE IF fate[s] = "enter" THEN "closing" ELSE "held"]
         /\ entered' = [s \in Server |-> IF s \in DOMAIN fate /\ fate[s] = "enter"
                                         THEN entered[s] + 1 ELSE entered[s]]
         /\ observer' = (observer \/ \E s \in DOMAIN fate : fate[s] = "unreadable")
    /\ UNCHANGED <<task, connections, busy, start, sealed, active, told, threw,
                   call, host>>

CloseEnds(s) ==
    /\ conn[s] = "closing" /\ s \notin busy
    /\ conn' = [conn EXCEPT ![s] = "closed"]
    /\ connections' = connections \ {s}
    /\ UNCHANGED <<task, busy, start, sealed, closing, entered, observer,
                   active, told, threw, call, host>>

(* The fault is kept and reported at once, to the host of a failed start or   *)
(* to the callers that wait.  What the host's reporter throws is an observer  *)
(* failure, what a caller's throws is its own.                               *)
CloseFails(s) ==
    /\ conn[s] = "closing" /\ s \notin busy
    /\ conn' = [conn EXCEPT ![s] = "faulty"]
    /\ Deliver(IF Failed THEN {Host} ELSE active, {s})
    /\ observer' = (observer \/ (Host \in threw' /\ Host \notin threw))
    /\ UNCHANGED <<task, connections, busy, start, sealed, closing, entered,
                   active, call, host>>

AllClosed ==
    /\ closing = "entered"
    /\ \A s \in Server : conn[s] \notin {"closing", "held"}
    /\ closing' = "done"
    /\ active' = {}
    /\ UNCHANGED <<task, conn, connections, busy, start, sealed, entered,
                   observer, told, threw, call, host>>

(* Variant: close() awaits the shared close alone. *)
AnsweredByTheCloseAlone == closing = "done"

(* The race of the shared close with the observer's failure.                 *)
Answered == observer \/ closing = "done"

(* A caller's close() goes on: it rejects, or waits for the whole scope.     *)
CloseAnswers(c) ==
    /\ call[c] = "waiting" /\ Answered
    /\ call' = [call EXCEPT ![c] =
                  IF observer \/ c \in threw THEN "rejected" ELSE "joining"]
    /\ UNCHANGED <<task, conn, connections, busy, start, sealed, closing,
                   entered, observer, active, told, threw, host>>

CloseResolves(c) ==
    /\ call[c] = "joining" /\ StartupDone
    /\ call' = [call EXCEPT ![c] = "resolved"]
    /\ UNCHANGED <<task, conn, connections, busy, start, sealed, closing,
                   entered, observer, active, told, threw, host>>

-----------------------------------------------------------------------------
Connecting == \E s \in Server : Opens(s) \/ OpenFails(s) \/ CleanupEnds(s) \/ Lists(s)
Starting   == AllSettled \/ StartThrows \/ HostJoins
Closing    ==
    \/ CloseAll \/ AllClosed
    \/ \E s \in Server : CloseEnds(s) \/ CloseFails(s)
    \/ \E c \in Caller : CloseAnswers(c) \/ CloseResolves(c)

Next ==
    \/ Connecting \/ Starting \/ Closing
    \/ \E s \in Server : CallTool(s) \/ CallEnds(s)
    \/ \E c \in Caller : Close(c)

(* Opening, listing and calling have a deadline each, the close of a child    *)
(* ends in a kill, and promises go on.  Nobody has to call or to close.       *)
Fairness ==
    /\ WF_vars(Starting) /\ WF_vars(CloseAll) /\ WF_vars(AllClosed)
    /\ \A s \in Server :
         /\ WF_vars(Opens(s) \/ OpenFails(s)) /\ WF_vars(Lists(s))
         /\ WF_vars(CleanupEnds(s)) /\ WF_vars(CallEnds(s))
         /\ WF_vars(CloseEnds(s) \/ CloseFails(s))
    /\ \A c \in Caller : WF_vars(CloseAnswers(c) \/ CloseResolves(c))

Spec     == Init /\ [][Next]_vars
FairSpec == Spec /\ Fairness

-----------------------------------------------------------------------------
(* What an answer means.  A close() that resolves, and a start that its host  *)
(* has joined, leave no child, socket or call behind, whichever server failed *)
(* when and however many closed at once; no connection is closed twice; a     *)
(* start that is refused has closed all that it registered; and whoever is    *)
(* answered was told every fault, also one that asked late                    *)
(* (startMcpClient, close and closeAll of manager.ts).                       *)
CloseKeepsItsWord ==
    /\ \A s \in Server : entered[s] <= 1
    /\ \A c \in Caller : call[c] = "resolved" =>
         Alive = {} /\ busy = {} /\ (c \in Reporters => told[c] = Faulty)
    /\ host = "joined" => Alive = {}
    /\ start = "refused" =>
         told[Host] = Faulty /\ \A s \in Alive : conn[s] = "cleaning"

(* Everyone is answered: the start ends, the host joins a start that failed,  *)
(* and a caller's close() returns, unless a connection is held by a spent     *)
(* budget; one that is held because the budget cannot be read answers all     *)
(* but the join (close, closeAll and the race with observerFailure).         *)
EveryoneIsAnswered ==
    LET held == \E s \in Server : conn[s] = "held" IN
    /\ start \in {"connecting", "tearing"} ~>
         (start \in {"up", "refused", "broken"} \/ (held /\ ~observer))
    /\ start \in {"refused", "broken"} ~> (host = "joined" \/ held)
    /\ \A c \in Caller : call[c] = "waiting" ~>
         (call[c] \in {"resolved", "rejected"} \/ (held /\ ~observer))
=============================================================================

----------------------------- MODULE AgentSession -----------------------------
(***************************************************************************)
(* The chat session that each process keeps in memory, in front of the one *)
(* durable transcript.                                                     *)
(*                                                                         *)
(* Source: core/src/engine/agent-session.ts, with the processLine, resume  *)
(* and durability gate of apps/cli/src/chat/session-host.ts and            *)
(* apps/cli/src/commands/chat.ts.                                          *)
(*                                                                         *)
(* An action is the code between two awaits.  A turn of the provider (one  *)
(* capture of the turn core, with its rounds of tools) and a summarisation *)
(* are awaited as a whole; what they do meanwhile is in actions of its own.*)
(***************************************************************************)
EXTENDS SessionTranscript, BagsExt

CONSTANTS
    MaxTurns,     \* the hard cap of a session
    TrimTo,       \* process -> arguments of its /trim and [chat].max_messages
    MaxAsked,     \* bound: messages the users send
    MaxTools,     \* bound: tool calls of one capture
    MaxCommands,  \* process -> bound: its !commands between two messages
    MaxFolds,     \* process -> bound: its summarisations
    Stoppable     \* bound: processes whose user may abort or cancel

ASSUME SessionAssumption ==
    /\ {MaxTurns, MaxAsked, MaxTools} \subseteq Nat /\ TrimTo \in [Procs -> SUBSET Nat]
    /\ MaxCommands \in [Procs -> Nat] /\ MaxFolds \in [Procs -> Nat] /\ Stoppable \subseteq Procs

VARIABLES
    live,     \* the session of each process
    asked,    \* messages sent so far; the number of one is its identity
    effects   \* the identities <<turn key, slot>> tools were dispatched under

vars == <<storeVars, live, asked, effects>>

NoFold == [kept |-> <<>>, covers |-> {}]

Absent == [status |-> "absent", op |-> "none", hist |-> <<>>, spans |-> <<>>, summary |-> {},
           pending |-> 0, count |-> 0, aborting |-> FALSE, aborted |-> FALSE, engaged |-> FALSE,
           key |-> 0, cmds |-> 0, fold |-> NoFold, folds |-> 0, capture |-> 0, spoke |-> FALSE,
           acted |-> FALSE, tools |-> 0, norecovery |-> FALSE, owed |-> FALSE]

Init ==
    /\ StoreInit
    /\ live = [p \in Procs |-> Absent]
    /\ asked = Cardinality({r \in Range(rows) : r.role = "user"})
    /\ effects = EmptyBag

Becomes(p, s) == live' = [live EXCEPT ![p] = s]
Is(p, op) == live[p].op = op
Idle(p) == live[p].status = "idle" /\ writer[p].open

(***************************************************************************)
(* Opening the session: resume reads the transcript and builds the host;   *)
(* the writer of the process starts later and reads it again.  A fresh     *)
(* session is one with no row.  A process that dies is one that takes no   *)
(* further step: it leaves nothing behind but the rows it wrote.           *)
(***************************************************************************)

Load(p) ==
    /\ live[p].status = "absent"
    /\ Becomes(p, [Absent EXCEPT !.status = "loading", !.hist = ResumedHistory,
                       !.spans = ResumedSpans, !.summary = ResumedSummary, !.count = ResumedCount])
    /\ writer' = [writer EXCEPT ![p] = WriterLoaded]
    /\ UNCHANGED <<rows, highWater, asked, effects>>

Attach(p) ==
    /\ live[p].status = "loading"
    /\ Becomes(p, [live[p] EXCEPT !.status = "idle"])
    /\ writer' = [writer EXCEPT ![p] = WriterStarted(@)]
    /\ UNCHANGED <<rows, highWater, asked, effects>>

(***************************************************************************)
(* Pieces of the session's operations, as functions of its state.          *)
(***************************************************************************)

PendingAt(s) == CHOOSE i \in 1 .. Len(s.hist) : s.hist[i].turn = s.pending

(* the history without the message that is being answered *)
Settled(s) == IF s.pending = 0 THEN s.hist ELSE SubSeq(s.hist, 1, PendingAt(s) - 1)

(* #rollbackPendingUser *)
RolledBack(s) == [s EXCEPT !.hist = Settled(s)]

(* #armTurnController: an abort that was not taken up aborts at once *)
Armed(s) == [s EXCEPT !.status = "running", !.aborted = s.aborting]

(* the end of a compaction or of a command *)
Released(s) ==
    [s EXCEPT !.op = "none", !.aborting = FALSE, !.aborted = FALSE, !.fold = NoFold,
              !.status = IF @ = "running" THEN "idle" ELSE @]

(* the finally of sendMessage *)
TurnReleased(s) ==
    [Released(s) EXCEPT !.pending = 0, !.key = 0, !.cmds = 0, !.engaged = FALSE, !.capture = 0,
                        !.spoke = FALSE, !.acted = FALSE, !.tools = 0, !.norecovery = FALSE]

(* #splitFoldable: what precedes the last completed turn, or with none the *)
(* last user's message; 0 when there is nothing to fold                    *)
KeptStart(s) ==
    LET end == Len(Settled(s))
        whole == {s.spans[i] : i \in {j \in DOMAIN s.spans : s.spans[j][2] <= end}}
        users == {i \in 1 .. end : s.hist[i].role = "user"}
    IN  IF whole # {} THEN Max({span[1] : span \in whole})
        ELSE IF users # {} THEN Max(users) ELSE 0

Foldable(s) == KeptStart(s) > 1

(* the split and the running summary, captured before anything is awaited *)
Folding(s, op) ==
    LET at == KeptStart(s)
    IN  [s EXCEPT !.op = op, !.folds = @ + 1,
                  !.fold = [kept |-> SubSeq(s.hist, at, Len(s.hist)),
                            covers |-> s.summary \cup {s.hist[i].turn : i \in 1 .. at - 1}]]

MayFold(p, s) == Foldable(s) /\ s.folds < MaxFolds[p]

(* #replaceHistory, #rebasedHistorySpans *)
Replaced(s, kept) ==
    LET dropped == Len(s.hist) - Len(kept)
        whole == SelectSeq(s.spans, LAMBDA span : span[1] > dropped)
    IN  [s EXCEPT !.hist = kept,
                  !.spans = [i \in DOMAIN whole |-> <<whole[i][1] - dropped, whole[i][2] - dropped>>]]

(* the turns of a kept tail that have ended: keptTurnCount *)
TurnsIn(s, kept) ==
    Cardinality({i \in DOMAIN kept : kept[i].role = "user" /\ kept[i].turn # s.pending})

(***************************************************************************)
(* sendMessage.                                                            *)
(***************************************************************************)

Capturing(s, n) ==
    [s EXCEPT !.op = "turn", !.capture = n, !.spoke = FALSE, !.acted = FALSE, !.tools = 0,
              !.fold = NoFold]

(* the catch of sendMessage: roll back, count a turn that reached a        *)
(* provider, and say how it ended; a cancelled session says nothing more   *)
TurnEnds(p, s, w) ==
    LET cancelled == s.status = "cancelled"
        rolled == TurnReleased(RolledBack(s))
    IN  IF cancelled
        THEN /\ Becomes(p, rolled)
             /\ writer' = [writer EXCEPT ![p] = w]
             /\ UNCHANGED rows
        ELSE /\ Becomes(p, [rolled EXCEPT !.count = IF s.engaged THEN @ + 1 ELSE @])
             /\ UpdateSession(p, w)

(* cancel: session:cancelled is the last event the writer hears *)
Cancelled(p) ==
    LET w == [writer[p] EXCEPT !.open = FALSE]
    IN  /\ Becomes(p, [live[p] EXCEPT !.status = "cancelled", !.aborted = TRUE])
        /\ Writes(p, w, <<>>, w)

(* what a listener of session:turn_started may do before anything else *)
Hooks(p) == {"none"} \cup (IF p \in Stoppable THEN {"abort", "cancel"} ELSE {})

SendCancelled(p) ==
    /\ Cancelled(p)
    /\ UNCHANGED <<highWater, asked>>

(* #completeIfTurnCapReached *)
SendOverCap(p, hook) ==
    /\ live[p].count >= MaxTurns
    /\ Becomes(p, [live[p] EXCEPT !.aborting = (hook = "abort")])
    /\ UpdateSession(p, writer[p])
    /\ UNCHANGED <<highWater, asked>>

(* #reserveEffectTurnKey: a key that a command reserved is used again *)
Reserved(p) == IF live[p].key # 0 THEN live[p].key ELSE highWater + 1

(* the allocator refuses once a write was lost *)
NoKey(p) == live[p].key = 0 /\ writer[p].failed

SendRuns(p, hook) ==
    LET sent == [Armed([live[p] EXCEPT !.aborting = (hook = "abort")])
                    EXCEPT !.pending = asked + 1,
                           !.hist = Append(@, Message(asked + 1, "user", {})),
                           !.key = IF NoKey(p) THEN 0 ELSE Reserved(p)]
        w == BeginUserTurn(writer[p])
    IN  /\ live[p].count < MaxTurns /\ asked < MaxAsked
        /\ asked' = asked + 1
        /\ IF NoKey(p) THEN TurnEnds(p, sent, w) /\ UNCHANGED highWater
           ELSE /\ highWater' = IF live[p].key = 0 THEN Reserved(p) ELSE highWater
                /\ \/ MayFold(p, sent) /\ Becomes(p, Folding(sent, "presend"))
                   \/ Becomes(p, Capturing(sent, 1))
                   \/ MayFold(p, sent) /\ Becomes(p, [Capturing(sent, 1) EXCEPT !.norecovery = TRUE])
                /\ writer' = [writer EXCEPT ![p] = w]
                /\ UNCHANGED rows

SendMessage(p) ==
    /\ Idle(p)
    /\ \E hook \in Hooks(p) :
          IF hook = "cancel" THEN SendCancelled(p)
          ELSE SendOverCap(p, hook) \/ SendRuns(p, hook)
    /\ UNCHANGED effects

(* agent:token.  Nothing leaves the process, and so nothing comes back,    *)
(* once a write was lost.                                                  *)
TurnSpeaks(p) ==
    /\ Is(p, "turn") /\ ~live[p].spoke /\ ~live[p].aborted /\ ~writer[p].failed
    /\ Becomes(p, [live[p] EXCEPT !.spoke = TRUE, !.acted = TRUE, !.engaged = TRUE])
    /\ writer' = [writer EXCEPT ![p] = Heard(@, live[p].capture)]
    /\ UNCHANGED <<rows, highWater, asked, effects>>

(* agent:tool_call, dispatched under the key and the ordinal of the call *)
ToolRound(p) ==
    LET s == live[p]
    IN  /\ Is(p, "turn") /\ s.tools < MaxTools /\ ~s.aborted /\ ~writer[p].failed
        /\ effects' = BagAdd(effects, <<s.key, s.tools>>)
        /\ Becomes(p, [s EXCEPT !.tools = @ + 1, !.acted = TRUE, !.engaged = TRUE, !.spoke = FALSE])
        /\ writer' = [writer EXCEPT ![p] = HeardToolCall(@)]
        /\ UNCHANGED <<rows, highWater, asked>>

TurnSucceeds(p) ==
    LET s == [live[p] EXCEPT !.engaged = FALSE]
    IN  /\ Is(p, "turn") /\ ~writer[p].failed
        /\ Becomes(p, IF s.status = "cancelled" THEN TurnReleased(RolledBack(s))
                      ELSE [s EXCEPT !.op = "join", !.count = @ + 1])
        /\ UNCHANGED <<storeVars, asked, effects>>

(* Variant: an overflow is recovered from whatever the turn did before.     *)
RecoverableAlways(p, s) == s.capture = 1 /\ ~s.norecovery /\ MayFold(p, s)

(* an overflow may be recovered from, once, when the reader has seen       *)
(* nothing of the turn and no tool ran                                     *)
Recoverable(p, s) == s.capture = 1 /\ ~s.norecovery /\ ~s.acted /\ MayFold(p, s)

(* a record of usage may be the write that is lost *)
MoneyWritten(p) == {writer[p]} \cup (IF p \in Faulty THEN {Failed(writer[p])} ELSE {})

TurnFails(p) ==
    /\ Is(p, "turn")
    /\ \E engaged \in {live[p].engaged, TRUE} :
       \E w \in MoneyWritten(p) :
          LET s == [live[p] EXCEPT !.engaged = engaged]
          IN  \/ TurnEnds(p, s, w)
              \/ /\ Recoverable(p, s)
                 /\ Becomes(p, Folding(s, "recover"))
                 /\ writer' = [writer EXCEPT ![p] = w]
                 /\ UNCHANGED rows
    /\ UNCHANGED <<highWater, asked, effects>>

(* the money ledger and the commitments are joined: the turn is written, or *)
(* undone when the join fails or the session was cancelled meanwhile        *)
TurnJoined(p) ==
    LET s == live[p]
        replied == [s EXCEPT !.hist = IF s.spoke
                                      THEN Append(@, Message(s.pending, "assistant", {s.capture})) ELSE @]
        ended == [replied EXCEPT !.spans = Append(@, <<PendingAt(s), Len(replied.hist)>>)]
        done == TurnReleased(ended)
    IN  /\ Is(p, "join")
        /\ \/ s.status = "cancelled" /\ TurnEnds(p, s, writer[p])
           \/ p \in Faulty /\ \E w \in MoneyWritten(p) : TurnEnds(p, s, w)
           \/ /\ s.status # "cancelled" /\ ~writer[p].failed
              /\ CommitTurn(p, writer[p], s.pending)
              /\ \/ Becomes(p, done)
                 \/ MayFold(p, done) /\ Becomes(p, Folding(Armed(done), "auto"))
        /\ UNCHANGED <<highWater, asked, effects>>

(***************************************************************************)
(* Compaction: before a turn, after an overflow, after a turn, on demand.  *)
(***************************************************************************)

CompactNow(p) ==
    /\ Idle(p) /\ MayFold(p, live[p])
    /\ Becomes(p, Folding(Armed(live[p]), "manual"))
    /\ UNCHANGED <<storeVars, asked, effects>>

Folds == {"presend", "recover", "auto", "manual"}

Interrupted(s) == s.aborted \/ s.status = "cancelled"

(* Variant: the turns that are kept are not counted apart from the message  *)
(* in flight.                                                              *)
PublishedCountingAll(p, s) ==
    LET kept == s.fold.kept
    IN  WriteMarker(p, writer[p], s.fold.covers,
                    Cardinality({i \in DOMAIN kept : kept[i].role = "user"}))

(* session:compacted *)
Published(p, s) ==
    WriteMarker(p, writer[p], s.fold.covers, TurnsIn(s, s.fold.kept))

FoldPublishes(p) ==
    LET s == live[p]
        folded == [Replaced(s, s.fold.kept) EXCEPT !.summary = s.fold.covers]
    IN  /\ s.op \in Folds /\ ~Interrupted(s) /\ ~writer[p].failed
        /\ Published(p, s)
        /\ Becomes(p, CASE s.op = "presend" -> Capturing(folded, 1)
                        [] s.op = "recover" -> Capturing(folded, 2)
                        [] OTHER -> Released(folded))
        /\ UNCHANGED <<highWater, asked, effects>>

(* it fails, or the budget refuses it: a turn goes on without it, once; a  *)
(* failed one after a turn is made up for by trimming                      *)
FoldFails(p) ==
    LET s == live[p]
    IN  /\ s.op \in Folds /\ ~Interrupted(s)
        /\ \E refused \in BOOLEAN, w \in MoneyWritten(p) :
              IF s.op = "recover" \/ (s.op = "presend" /\ refused) THEN TurnEnds(p, s, w)
              ELSE /\ writer' = [writer EXCEPT ![p] = w]
                   /\ Becomes(p, IF s.op = "presend" THEN [Capturing(s, 1) EXCEPT !.norecovery = TRUE]
                                 ELSE [Released(s) EXCEPT !.owed = (s.op = "auto" /\ ~refused)])
                   /\ UNCHANGED rows
        /\ UNCHANGED <<highWater, asked, effects>>

FoldCancelled(p) ==
    LET s == live[p]
    IN  /\ s.op \in Folds /\ Interrupted(s)
        /\ IF s.op \in {"presend", "recover"} THEN TurnEnds(p, s, writer[p])
           ELSE Becomes(p, Released(s)) /\ UNCHANGED <<rows, writer>>
        /\ UNCHANGED <<highWater, asked, effects>>

(* tailFromUserBoundary: from the first user's message in the window, or   *)
(* else from the last one                                                  *)
TailFrom(hist, n) ==
    LET users == {i \in DOMAIN hist : hist[i].role = "user"}
        inside == {i \in users : i > Len(hist) - n}
        from == IF inside # {} THEN Min(inside) ELSE Max(users)
    IN  IF n = 0 \/ users = {} THEN <<>> ELSE SubSeq(hist, from, Len(hist))

(* trimHistory *)
Trim(p, s, n) ==
    LET kept == TailFrom(s.hist, n)
    IN  IF Len(kept) = Len(s.hist) THEN Becomes(p, s) /\ UNCHANGED <<rows, writer>>
        ELSE /\ Becomes(p, Replaced(s, kept))
             /\ WriteMarker(p, writer[p], {}, TurnsIn(s, kept))

TrimNow(p) ==
    /\ Idle(p) /\ \E n \in TrimTo[p] : Trim(p, live[p], n) /\ live' # live
    /\ UNCHANGED <<highWater, asked, effects>>

(* a moment later, and only if nobody has begun anything *)
FallbackTrim(p) ==
    LET s == [live[p] EXCEPT !.owed = FALSE]
    IN  /\ live[p].owed
        /\ IF Idle(p) THEN \E n \in TrimTo[p] : Trim(p, s, n)
           ELSE Becomes(p, s) /\ UNCHANGED <<rows, writer>>
        /\ UNCHANGED <<highWater, asked, effects>>

(***************************************************************************)
(* runUserCommand: dispatched under the key of the next turn, in a slot    *)
(* below those of its tools.                                               *)
(***************************************************************************)

RunCommand(p) ==
    LET s == [Armed(live[p]) EXCEPT !.cmds = @ + 1, !.key = IF NoKey(p) THEN 0 ELSE Reserved(p)]
        runs == ~NoKey(p) /\ ~s.aborted /\ ~writer[p].failed
    IN  /\ Idle(p) /\ live[p].cmds < MaxCommands[p]
        /\ Becomes(p, IF runs THEN [s EXCEPT !.op = "command"] ELSE Released(s))
        /\ highWater' = IF live[p].key = 0 /\ ~NoKey(p) THEN Reserved(p) ELSE highWater
        /\ effects' = IF runs THEN BagAdd(effects, <<s.key, -s.cmds>>) ELSE effects
        /\ UNCHANGED <<rows, writer, asked>>

CommandEnds(p) ==
    /\ Is(p, "command")
    /\ Becomes(p, Released(live[p]))
    /\ UNCHANGED <<storeVars, asked, effects>>

(***************************************************************************)
(* abort and cancel, at any moment.                                        *)
(***************************************************************************)

Abort(p) ==
    /\ live[p].status = "running" /\ p \in Stoppable
    /\ Becomes(p, [live[p] EXCEPT !.aborting = TRUE, !.aborted = TRUE])
    /\ UNCHANGED <<storeVars, asked, effects>>

Cancel(p) ==
    /\ live[p].status \in {"idle", "running"} /\ writer[p].open /\ p \in Stoppable
    /\ Cancelled(p)
    /\ UNCHANGED <<highWater, asked, effects>>

Next == \E p \in Procs :
    \/ Load(p) \/ Attach(p) \/ SendMessage(p) \/ TurnSpeaks(p) \/ ToolRound(p)
    \/ TurnSucceeds(p) \/ TurnFails(p) \/ TurnJoined(p) \/ CompactNow(p) \/ FoldPublishes(p)
    \/ FoldFails(p) \/ FoldCancelled(p) \/ TrimNow(p) \/ FallbackTrim(p)
    \/ RunCommand(p) \/ CommandEnds(p) \/ Abort(p) \/ Cancel(p)

Spec == Init /\ [][Next]_vars

(***************************************************************************)
(* Properties.                                                             *)
(***************************************************************************)

Messages == [turn : 1 .. MaxAsked, role : {"user", "assistant"}, text : SUBSET {1, 2}]
Roles == {"user", "assistant", "marker"}

(* TypeOK: states are of their types, the rows are numbered without a gap  *)
(* and no writer is ahead of them, a message is being answered exactly     *)
(* while sendMessage runs, and the spans are inside the history.           *)
TypeOK ==
    /\ asked \in 0 .. MaxAsked /\ highWater \in Nat
    /\ \A n \in DOMAIN rows : rows[n].seq = n /\ rows[n].role \in Roles /\ rows[n].drop < n
    /\ \A p \in Procs :
          LET s == live[p]
          IN  /\ writer[p].next \in 0 .. Len(rows) /\ Range(writer[p].bounds) \subseteq DOMAIN rows
              /\ Range(s.hist) \subseteq Messages
              /\ (s.pending # 0) <=> (s.op \in {"presend", "turn", "recover", "join"})
              /\ s.status \in {"idle", "loading", "absent"} => s.op = "none"
              /\ s.status = "running" => s.op # "none"
              /\ \A i \in DOMAIN s.spans : s.spans[i][1] <= s.spans[i][2] /\ s.spans[i][2] <= Len(s.hist)

(* what a process that resumed the session now would begin with *)
Stored == [hist |-> ResumedHistory, summary |-> ResumedSummary, spans |-> ResumedSpans,
           bounds |-> ResumedBounds]

Held(p) == [hist |-> Settled(live[p]), summary |-> live[p].summary, spans |-> live[p].spans,
            bounds |-> writer[p].bounds]

(* ResumeAgrees: whatever was sent, folded, trimmed, aborted or rolled     *)
(* back, resuming would rebuild the history, the summary and the turns     *)
(* that the model is shown now, unless a write was lost (and then nothing  *)
(* more is sent) or another process has written since.                     *)
(* agent-session.ts 849-1013 and 1395-1681, persister.ts 216-333,          *)
(* session-history.ts 47-123.                                              *)
ResumeAgrees ==
    LET stored == Stored
    IN  \A p \in Procs :
            live[p].status \in {"idle", "running", "cancelled"} /\ ~writer[p].failed
                /\ writer[p].next = Len(rows)
            => Held(p) = stored

(* WritesWhatItRead: two processes may have the session open.  A turn or a *)
(* summary is added to the transcript only by one that holds exactly what  *)
(* is in it, and no row is ever changed.                                   *)
(* session-host.ts 1375, session-store.ts 571-593, schema.ts 544.          *)
WritesWhatItRead ==
    [][/\ IsPrefix(rows, rows')
       /\ \A n \in Len(rows) + 1 .. Len(rows') :
             rows'[n].role = "user" \/ rows'[n].text # {}
             => \E p \in Procs : writer'[p] # writer[p] /\ Held(p) = Stored]_vars

(* EffectsDistinct: no two tools of the session are ever dispatched under  *)
(* one identity, by turns, by their recoveries, by commands, or by two     *)
(* processes: the journal would take the second for a repeat of the first. *)
(* agent-session.ts 1210-1276, session-effect-turns.ts 163-190.            *)
EffectsDistinct == \A e \in BagToSet(effects) : CopiesIn(e, effects) = 1
=============================================================================

--------------------------- MODULE SessionTranscript ---------------------------
(***************************************************************************)
(* The durable transcript of one chat session, the writer each process     *)
(* keeps on it, and what a process that resumes the session reads back.    *)
(*                                                                         *)
(* Source: apps/cli/src/chat/persister.ts, db/src/session-store.ts,        *)
(* db/src/session-effect-turns.ts, shared/src/session-history.ts and       *)
(* core/src/engine/session-resume.ts.                                      *)
(*                                                                         *)
(* Rows are numbered from 1 without a gap: a writer numbers what it writes *)
(* from the last row it knows, and the index on (session, number) refuses  *)
(* a number that is taken.  The rows of tool calls, which no projection    *)
(* reads, are left out.  A summary is the set of turns that it stands for, *)
(* a reply the set of captures whose tokens it is made of.                 *)
(***************************************************************************)
EXTENDS Integers, Sequences, FiniteSets, SequencesExt

CONSTANTS
    Procs,    \* processes that open the session, one after another or at once
    OldRows,  \* transcripts an earlier version may have left behind
    Faulty    \* bound: processes whose writes may fail

VARIABLES
    rows,       \* session_messages
    highWater,  \* effect_turn_high_water
    writer      \* the persister of each process

storeVars == <<rows, highWater, writer>>

Row(n, role, turn, text, drop) ==
    [seq |-> n, role |-> role, turn |-> turn, text |-> text, drop |-> drop]

(* a message of the text-only history *)
Message(turn, role, text) == [turn |-> turn, role |-> role, text |-> text]

(***************************************************************************)
(* Reading the transcript back.                                            *)
(***************************************************************************)

(* dropBoundaryOf *)
DropBoundary == Max({0} \cup {r.drop : r \in Range(rows)})

(* the next row that is not a marker: the terminal of a turn, or another   *)
(* user's row                                                              *)
Following(r) ==
    LET later == {n \in r.seq + 1 .. Len(rows) : rows[n].role # "marker"}
    IN  IF later = {} THEN {} ELSE {rows[Min(later)]}

Answered(r) == r.role = "user" /\ \E a \in Following(r) : a.role = "assistant"

(* a bare row of the old writer, which kept a turn with an empty reply so; *)
(* the last bare row of all was a turn that never ended                    *)
Bare(r) == r.role = "user" /\ \E a \in Following(r) : a.role = "user"

(* resumableSessionMessages: a turn is dropped whole, with its question *)
Resumed ==
    LET boundary == DropBoundary
        question(r) == Max({n \in 1 .. r.seq : rows[n].role = "user"})
        kept(r) == /\ r.role # "marker" /\ question(r) > boundary
                   /\ Answered(r) \/ Bare(r) \/ (r.role = "assistant" /\ r.text # {})
    IN  SelectSeq(rows, kept)

(* reconstructSessionState *)
ResumedHistory ==
    LET kept == Resumed
    IN  [i \in DOMAIN kept |-> Message(kept[i].turn, kept[i].role, kept[i].text)]

ResumedSpans ==
    LET kept == Resumed
        starts == SelectSeq([i \in DOMAIN kept |-> i], LAMBDA i : Answered(kept[i]))
        last(i) == IF \E a \in Following(kept[i]) : a.text = {} THEN i ELSE i + 1
    IN  [k \in DOMAIN starts |-> <<starts[k], last(starts[k])>>]

ResumedSummary ==
    LET told == SelectSeq(rows, LAMBDA r : r.role = "marker" /\ r.text # {})
    IN  IF told = <<>> THEN {} ELSE Last(told).text

ResumedCount == Cardinality({r \in Range(Resumed) : Answered(r)})

(* resumableTurnBoundarySequences *)
ResumedBounds ==
    LET users == SelectSeq(Resumed, LAMBDA r : r.role = "user")
        slot(r) == IF Bare(r) THEN r.seq ELSE (CHOOSE a \in Following(r) : TRUE).seq
    IN  [i \in DOMAIN users |-> slot(users[i])]

(***************************************************************************)
(* The writer.                                                             *)
(***************************************************************************)

NoWriter == [next |-> 0, bounds |-> <<>>, open |-> FALSE, failed |-> FALSE, said |-> {}]

(* the number of the last row a process knows is read with the history,    *)
(* the slots of the turns only when the writer starts                      *)
WriterLoaded == [NoWriter EXCEPT !.next = Len(rows)]
WriterStarted(w) == [w EXCEPT !.bounds = ResumedBounds, !.open = TRUE]

Failed(w) == [w EXCEPT !.failed = TRUE]

(* Variant: two rows may have one number.                                   *)
UniqueNever(w, new) == TRUE

(* idx_session_messages_seq *)
Unique(w, new) == new = <<>> \/ w.next >= Len(rows)

(* writeTurn: all rows and the session, or nothing; the failure is kept    *)
(* and the session goes on, for a listener's error stays with the listener *)
Writes(p, w, new, written) ==
    \/ /\ Unique(w, new)
       /\ rows' = rows \o new
       /\ writer' = [writer EXCEPT ![p] = written]
    \/ /\ p \in Faulty \/ ~Unique(w, new)
       /\ writer' = [writer EXCEPT ![p] = Failed(w)]
       /\ UNCHANGED rows

(* session:turn_completed of a turn that ended well: commitTurn *)
CommitTurn(p, w, turn) ==
    LET user == Row(w.next + 1, "user", turn, {}, 0)
        reply == Row(w.next + 2, "assistant", turn, w.said, 0)
    IN  Writes(p, w, <<user, reply>>,
               [w EXCEPT !.next = @ + 2, !.said = {}, !.bounds = Append(@, w.next + 2)])

(* session:turn_completed otherwise, and session:cancelled: updateSession *)
UpdateSession(p, w) == Writes(p, w, <<>>, [w EXCEPT !.said = {}])

(* stageMarker: the last number that the history no longer holds; none     *)
(* when every turn is kept                                                 *)
Marker(w, keptTurns) ==
    IF keptTurns >= Len(w.bounds) THEN 0 ELSE w.bounds[Len(w.bounds) - keptTurns]

(* session:compacted and session:trimmed, with adoptMarker *)
WriteMarker(p, w, summary, turns) ==
    LET drop == Marker(w, turns)
        new == IF drop = 0 THEN <<>> ELSE <<Row(w.next + 1, "marker", 0, summary, drop)>>
    IN  Writes(p, w, new, [w EXCEPT !.next = @ + Len(new),
                                    !.bounds = SelectSeq(@, LAMBDA n : n > drop)])

(* the tokens the writer hears, and the tool call that makes it forget     *)
(* them: they were a preamble                                              *)
Heard(w, capture) == IF w.open THEN [w EXCEPT !.said = @ \cup {capture}] ELSE w
HeardToolCall(w) == IF w.open THEN [w EXCEPT !.said = {}] ELSE w

(* beginUserTurn: nothing is staged over an exchange that was not written *)
BeginUserTurn(w) == IF w.failed THEN w ELSE [w EXCEPT !.said = {}]

StoreInit ==
    /\ rows \in OldRows
    /\ highWater = Cardinality({r \in Range(rows) : r.role = "assistant"})
    /\ writer = [p \in Procs |-> NoWriter]
=============================================================================

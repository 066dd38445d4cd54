---------------------------- MODULE MediaRetention ----------------------------
(***************************************************************************)
(* Content-addressed media, the runs that name it and its collection.       *)
(*                                                                          *)
(* A run stores the bytes of what it produced, verifies them, admits a row  *)
(* for them and, once the event that names them is in the log, records a    *)
(* reference.  The process of a run that ended removes the references the   *)
(* dead left behind, soft-deletes the rows nobody has referenced for the    *)
(* grace period, unlinks their bytes and then the aged bytes without a row. *)
(* Every run has a process of its own; they share the files and the rows,   *)
(* and no lock covers both.                                                 *)
(*                                                                          *)
(* Time is the two thresholds the code compares with: bytes and rows are    *)
(* "fresh" until the orphan age and the grace period have passed.           *)
(*                                                                          *)
(* Source: packages/shared/src/media-deinline.ts, packages/core/src/engine/ *)
(* engine.ts, packages/db/src/media-store.ts and media-reference-store.ts,  *)
(* apps/cli/src/engine/media-gc.ts.                                         *)
(***************************************************************************)
EXTENDS Naturals

CONSTANTS Runs, Media, NoMedia

ASSUME MediaConstants == NoMedia \notin Media

VARIABLES
    status,   \* the durable status of each run
    write,    \* what the run's process does with one media: its stage and which
    file,     \* the bytes of each media: "none", "fresh" or "old"
    row,      \* media_objects: "none", "fresh", "old" or soft-"deleted"
    refs,     \* media_references of kind run
    sweep,    \* the collection of each process: its stage
    aged,     \* its rowless handles whose bytes are no newer than its cutoff
    doomed,   \* the handles it has decided to unlink and has not unlinked yet
    held,     \* history: the media each run has referenced
    raced,    \* history: doomed handles that were verified by a run meanwhile
    lost      \* history: handles unlinked although raced, and not stored again

vars == <<status, write, file, row, refs, sweep, aged, doomed, held, raced, lost>>
store == <<file, row, refs>>
collector == <<sweep, aged, doomed>>
history == <<held, raced, lost>>

Unsettled == {"running", "paused"}
Idle == [at |-> "idle", of |-> NoMedia]
At(stage, h) == [at |-> stage, of |-> h]

Init ==
    /\ status = [r \in Runs |-> "absent"]
    /\ write = [r \in Runs |-> Idle]
    /\ file = [h \in Media |-> "none"] /\ row = [h \in Media |-> "none"]
    /\ refs = {}
    /\ sweep = [r \in Runs |-> "none"]
    /\ aged = [r \in Runs |-> {}] /\ doomed = [r \in Runs |-> {}]
    /\ held = [r \in Runs |-> {}] /\ raced = [r \in Runs |-> {}] /\ lost = {}

-----------------------------------------------------------------------------
(* A run and its media. *)

Start(r) ==
    /\ status[r] = "absent"
    /\ status' = [status EXCEPT ![r] = "running"]
    /\ UNCHANGED <<write, store, collector, history>>

\* The rename publishes the bytes, as new ones, whether or not the handle had
\* any before.
Put(r, h) ==
    /\ status[r] = "running" /\ write[r] = Idle
    /\ file' = [file EXCEPT ![h] = "fresh"]
    /\ aged' = [s \in Runs |-> aged[s] \ {h}]
    /\ lost' = lost \ {h}
    /\ write' = [write EXCEPT ![r] = At("stored", h)]
    /\ UNCHANGED <<status, row, refs, sweep, doomed, held, raced>>

\* A handle that is already in a value is verified again; it comes from a log,
\* so it had a row once.
Reuse(r, h) ==
    /\ status[r] = "running" /\ write[r] = Idle /\ row[h] # "none"
    /\ write' = [write EXCEPT ![r] = At("stored", h)]
    /\ UNCHANGED <<status, store, collector, history>>

Validate(r) ==
    /\ write[r].at = "stored"
    /\ LET h == write[r].of IN
       IF file[h] = "none"
       THEN /\ write' = [write EXCEPT ![r] = Idle]
            /\ UNCHANGED raced
       ELSE /\ write' = [write EXCEPT ![r] = At("verified", h)]
            /\ raced' = [s \in Runs |-> raced[s] \cup (doomed[s] \cap {h})]
    /\ UNCHANGED <<status, store, collector, held, lost>>

AdmitBatch(h) == row' = [row EXCEPT ![h] = "fresh"]

Admit(r) ==
    /\ write[r].at = "verified"
    /\ AdmitBatch(write[r].of)
    /\ write' = [write EXCEPT ![r] = At("admitted", write[r].of)]
    /\ UNCHANGED <<status, file, refs, collector, history>>

\* After the acknowledgement of the event; best effort.
RecordRunMedia(r) ==
    /\ write[r].at = "admitted"
    /\ AdmitBatch(write[r].of)
    /\ refs' = refs \cup {<<r, write[r].of>>}
    /\ held' = [held EXCEPT ![r] = @ \cup {write[r].of}]
    /\ write' = [write EXCEPT ![r] = Idle]
    /\ UNCHANGED <<status, file, collector, raced, lost>>

\* The preparation or the record of the reference is refused, or the process
\* of the run dies.
Abandon(r) ==
    /\ write[r].at # "idle"
    /\ write' = [write EXCEPT ![r] = Idle]
    /\ UNCHANGED <<status, store, collector, history>>

Pause(r) ==
    /\ status[r] = "running" /\ write[r] = Idle
    /\ status' = [status EXCEPT ![r] = "paused"]
    /\ UNCHANGED <<write, store, collector, history>>

Resume(r) ==
    /\ status[r] = "paused"
    /\ status' = [status EXCEPT ![r] = "running"]
    /\ UNCHANGED <<write, store, collector, history>>

-----------------------------------------------------------------------------
(* References and collection. *)

ReferencedBy(rs) == {h \in Media : \E r \in rs : <<r, h>> \in refs}

\* The grace period of what a run let go starts now.
RemoveRunReferences(rs) ==
    /\ refs' = {x \in refs : x[1] \notin rs}
    /\ row' = [h \in Media |->
                 IF h \in ReferencedBy(rs) /\ row[h] = "old" THEN "fresh" ELSE row[h]]

\* The terminal, by the run's process or by the repair of a crashed one: the
\* references go with it, unless the store refuses or the process dies.
End(r) ==
    /\ status[r] \in Unsettled /\ write[r] = Idle
    /\ status' = [status EXCEPT ![r] = "ended"]
    /\ \/ RemoveRunReferences({r}) \/ UNCHANGED <<refs, row>>
    /\ UNCHANGED <<write, file, collector, history>>

BeginSweep(r) ==
    /\ status[r] = "ended" /\ sweep[r] = "none"
    /\ sweep' = [sweep EXCEPT ![r] = "retry"]
    /\ UNCHANGED <<status, write, store, aged, doomed, history>>

(* Variant: a paused run is taken for a settled one. *)
ReclaimableWhenPaused(r, s) == s # r /\ status[s] # "running"

ReclaimableRun(r, s) == s # r /\ status[s] = "ended"

SweepRetries(r) ==
    /\ sweep[r] = "retry"
    /\ RemoveRunReferences({s \in Runs : ReclaimableRun(r, s)})
    /\ sweep' = [sweep EXCEPT ![r] = "grace"]
    /\ UNCHANGED <<status, write, file, aged, doomed, history>>

\* Whoever has verified a handle and has not admitted it yet relies on bytes
\* that are about to go.
Verified == {write[r].of : r \in {s \in Runs : write[s].at = "verified"}}

Doom(r, hs) ==
    /\ doomed' = [doomed EXCEPT ![r] = hs]
    /\ raced' = [raced EXCEPT ![r] = hs \cap Verified]

Expired == {h \in Media : row[h] = "old" /\ h \notin ReferencedBy(Runs)}

ReclaimExpired(r) ==
    /\ sweep[r] = "grace"
    /\ row' = [h \in Media |-> IF h \in Expired THEN "deleted" ELSE row[h]]
    /\ Doom(r, Expired)
    /\ sweep' = [sweep EXCEPT ![r] = "expired"]
    /\ UNCHANGED <<status, write, file, refs, aged, held, lost>>

Unlink(r, h) ==
    /\ h \in doomed[r]
    /\ file' = [file EXCEPT ![h] = "none"]
    /\ lost' = IF h \in raced[r] THEN lost \cup {h} ELSE lost
    /\ doomed' = [doomed EXCEPT ![r] = @ \ {h}]
    /\ raced' = [raced EXCEPT ![r] = @ \ {h}]
    /\ UNCHANGED <<status, write, row, refs, sweep, aged, held>>

\* The other deletions are joined, then the collection is abandoned.
UnlinkFails(r, h) ==
    /\ h \in doomed[r]
    /\ doomed' = [doomed EXCEPT ![r] = @ \ {h}]
    /\ raced' = [raced EXCEPT ![r] = @ \ {h}]
    /\ sweep' = [sweep EXCEPT ![r] = "over"]
    /\ UNCHANGED <<status, write, store, aged, held, lost>>

HasOtherActiveRuns(r) == \E s \in Runs \ {r} : status[s] \in Unsettled

OrphanGate(r) ==
    /\ sweep[r] = "expired" /\ doomed[r] = {}
    /\ sweep' = [sweep EXCEPT ![r] = IF HasOtherActiveRuns(r) THEN "over" ELSE "cutoff"]
    /\ UNCHANGED <<status, write, store, aged, doomed, history>>

ListObjectHandles(r) ==
    /\ sweep[r] = "cutoff"
    /\ aged' = [aged EXCEPT ![r] = {h \in Media : row[h] = "none" /\ file[h] = "old"}]
    /\ sweep' = [sweep EXCEPT ![r] = "list"]
    /\ UNCHANGED <<status, write, store, doomed, history>>

Orphans(r) == {h \in aged[r] : file[h] # "none"}

ListHandles(r) ==
    /\ sweep[r] = "list"
    /\ Doom(r, Orphans(r))
    /\ aged' = [aged EXCEPT ![r] = {}]
    /\ sweep' = [sweep EXCEPT ![r] = "over"]
    /\ UNCHANGED <<status, write, store, held, lost>>

-----------------------------------------------------------------------------
(* A collecting process dies, and time passes. *)

\* Rows that were soft-deleted stay so, with the bytes it did not unlink.
Die(r) ==
    /\ sweep[r] \notin {"none", "over"} \/ doomed[r] # {}
    /\ sweep' = [sweep EXCEPT ![r] = "over"]
    /\ doomed' = [doomed EXCEPT ![r] = {}]
    /\ aged' = [aged EXCEPT ![r] = {}]
    /\ raced' = [raced EXCEPT ![r] = {}]
    /\ UNCHANGED <<status, write, store, held, lost>>

\* Both thresholds are far longer than the steps of one write, so nothing
\* grows old under a write of it.
AtRest(h) == \A r \in Runs : write[r].of # h

FileAges(h) ==
    /\ file[h] = "fresh" /\ AtRest(h)
    /\ file' = [file EXCEPT ![h] = "old"]
    /\ UNCHANGED <<status, write, row, refs, collector, history>>

RowAges(h) ==
    /\ row[h] = "fresh" /\ AtRest(h)
    /\ row' = [row EXCEPT ![h] = "old"]
    /\ UNCHANGED <<status, write, file, refs, collector, history>>

Next ==
    \/ \E r \in Runs :
         \/ Start(r) \/ Validate(r) \/ Admit(r) \/ RecordRunMedia(r) \/ Abandon(r)
         \/ Pause(r) \/ Resume(r) \/ End(r) \/ BeginSweep(r) \/ SweepRetries(r)
         \/ ReclaimExpired(r) \/ OrphanGate(r) \/ ListObjectHandles(r)
         \/ ListHandles(r) \/ Die(r)
         \/ \E h \in Media : Put(r, h) \/ Reuse(r, h) \/ Unlink(r, h) \/ UnlinkFails(r, h)
    \/ \E h \in Media : FileAges(h) \/ RowAges(h)

Spec == Init /\ [][Next]_vars

-----------------------------------------------------------------------------
(* Properties. *)

\* What the rows and the references promise: the media of a live row, and
\* every media that a run which may still go on has referenced.
Promised ==
    {h \in Media : row[h] \in {"fresh", "old"}}
        \cup UNION {held[r] : r \in {s \in Runs : status[s] \in Unsettled}}

\* Promised media has its bytes, through crashes anywhere, lost references,
\* pauses longer than the grace period and collections by several processes
\* at once.  The one exception is the gap that media-gc.ts names: a run
\* verified the handle between a collection's decision to unlink it and the
\* unlinking, or was between verifying and admitting it when the collection
\* decided.
BytesKept == \A h \in Promised : file[h] # "none" \/ h \in lost

=============================================================================

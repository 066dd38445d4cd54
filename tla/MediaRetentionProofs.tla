------------------------- MODULE MediaRetentionProofs -------------------------
(***************************************************************************)
(* BytesKept holds for every number of runs and media.                      *)
(*                                                                          *)
(* The argument follows a handle that a collection has doomed.  If no run   *)
(* met it in the window (it is not raced), then nothing promises it: no     *)
(* live row, no run that may go on, no write past its verification.  For    *)
(* expired rows that follows from the references, for orphans from the      *)
(* cutoff: a write of a rowless handle works on fresh bytes.                *)
(***************************************************************************)
EXTENDS MediaRetention, TLAPS

Stages == {"stored", "verified", "admitted"}
Writes == {Idle} \cup {At(s, h) : s \in Stages, h \in Media}

TypeOK ==
    /\ status \in [Runs -> {"absent", "running", "paused", "ended"}]
    /\ write \in [Runs -> Writes]
    /\ file \in [Media -> {"none", "fresh", "old"}]
    /\ row \in [Media -> {"none", "fresh", "old", "deleted"}]
    /\ refs \subseteq Runs \X Media
    /\ sweep \in [Runs -> {"none", "retry", "grace", "expired", "cutoff", "list", "over"}]
    /\ aged \in [Runs -> SUBSET Media]
    /\ doomed \in [Runs -> SUBSET Media]
    /\ held \in [Runs -> SUBSET Media]
    /\ raced \in [Runs -> SUBSET Media]
    /\ lost \subseteq Media

\* A run relies on the bytes from their verification to the record.
Relies(r, h) == write[r] = At("verified", h) \/ write[r] = At("admitted", h)

Live(h) == row[h] = "fresh" \/ row[h] = "old"

HeldBy(r, h) == status[r] \in Unsettled /\ h \in held[r]

\* What a run relies on, and what is promised, has its bytes.
Kept ==
    \A h \in Media :
        \/ file[h] # "none" \/ h \in lost
        \/ ~Live(h) /\ \A r \in Runs : ~HeldBy(r, h) /\ ~Relies(r, h)

\* What is doomed and was not met in the window is nobody's.
DoomedIsFree ==
    \A s \in Runs : \A h \in doomed[s] :
        \/ h \in raced[s]
        \/ ~Live(h) /\ \A r \in Runs : ~HeldBy(r, h) /\ ~Relies(r, h)

\* The references of a run that may go on stand, what is held has a row, and a
\* run that has not started holds nothing.
ReferencesStand ==
    /\ \A r \in Runs : status[r] = "absent" => held[r] = {} /\ write[r] = Idle
    /\ \A r \in Runs : \A h \in held[r] : row[h] # "none"
    /\ \A r \in Runs : \A h \in held[r] :
          status[r] \in Unsettled => <<r, h>> \in refs

\* A write of a rowless handle works on fresh bytes, an admitted one on a
\* fresh row, and neither meets the candidates of an orphan sweep.
WritesAreFresh ==
    /\ \A r \in Runs : \A h \in Media :
          write[r].of = h /\ row[h] = "none" => file[h] # "old"
    /\ \A r \in Runs : \A h \in Media :
          write[r] = At("admitted", h) => row[h] = "fresh"
    /\ \A s \in Runs : \A h \in aged[s] :
          row[h] = "none" /\ \A r \in Runs : write[r].of # h

IInv == TypeOK /\ Kept /\ DoomedIsFree /\ ReferencesStand /\ WritesAreFresh

\* Every step of a run, of a collection or of time preserves the invariant.
LEMMA Preserved == IInv /\ [Next]_vars => IInv'
<1> SUFFICES ASSUME IInv, [Next]_vars PROVE IInv'
    OBVIOUS
<1> USE MediaConstants DEF IInv
<1>1. ASSUME NEW r \in Runs, Start(r) PROVE IInv'
  <2> USE <1>1 DEF Start, store, collector, history, Idle, At, Unsettled
  <2>1. TypeOK'
    BY DEF TypeOK, Writes, Stages
  <2>2. Kept'
    BY DEF TypeOK, Writes, Stages, Kept, Live, HeldBy, Relies, DoomedIsFree, ReferencesStand
  <2>3. DoomedIsFree'
    BY DEF TypeOK, Writes, Stages, DoomedIsFree, Live, HeldBy, Relies, Kept, ReferencesStand, WritesAreFresh
  <2>4. ReferencesStand'
    BY DEF TypeOK, Writes, Stages, ReferencesStand, WritesAreFresh
  <2>5. WritesAreFresh'
    BY DEF TypeOK, Writes, Stages, WritesAreFresh
  <2> QED BY <2>1, <2>2, <2>3, <2>4, <2>5
<1>2. ASSUME NEW r \in Runs, Validate(r) PROVE IInv'
  <2> USE <1>2 DEF Validate, store, collector, history, Idle, At, Unsettled
  <2>1. TypeOK'
    BY DEF TypeOK, Writes, Stages
  <2>2. Kept'
    BY DEF TypeOK, Writes, Stages, Kept, Live, HeldBy, Relies, DoomedIsFree, ReferencesStand
  <2>3. DoomedIsFree'
    BY DEF TypeOK, Writes, Stages, DoomedIsFree, Live, HeldBy, Relies, Kept, ReferencesStand, WritesAreFresh
  <2>4. ReferencesStand'
    BY DEF TypeOK, Writes, Stages, ReferencesStand, WritesAreFresh
  <2>5. WritesAreFresh'
    <3>1. \A s \in Runs : write'[s].of = write[s].of \/ write'[s] = Idle
      BY DEF TypeOK, Writes, Stages
    <3>2. \A s \in Runs : \A h \in Media :
             write'[s] = At("admitted", h) => write[s] = At("admitted", h)
      BY DEF TypeOK, Writes, Stages
    <3>3. Idle.of \notin Media
      OBVIOUS
    <3>4. UNCHANGED <<file, row, aged>>
      OBVIOUS
    <3> QED BY ONLY <3>1, <3>2, <3>3, <3>4, TypeOK, WritesAreFresh DEF TypeOK, WritesAreFresh
  <2> QED BY <2>1, <2>2, <2>3, <2>4, <2>5
<1>3. ASSUME NEW r \in Runs, Admit(r) PROVE IInv'
  <2> USE <1>3 DEF Admit, store, collector, history, Idle, At, Unsettled, AdmitBatch
  <2>1. TypeOK'
    BY DEF TypeOK, Writes, Stages
  <2>2. Kept'
    BY DEF TypeOK, Writes, Stages, Kept, Live, HeldBy, Relies, DoomedIsFree, ReferencesStand
  <2>3. DoomedIsFree'
    BY DEF TypeOK, Writes, Stages, DoomedIsFree, Live, HeldBy, Relies, Kept, ReferencesStand, WritesAreFresh
  <2>4. ReferencesStand'
    BY DEF TypeOK, Writes, Stages, ReferencesStand, WritesAreFresh
  <2>5. WritesAreFresh'
    BY DEF TypeOK, Writes, Stages, WritesAreFresh
  <2> QED BY <2>1, <2>2, <2>3, <2>4, <2>5
<1>4. ASSUME NEW r \in Runs, RecordRunMedia(r) PROVE IInv'
  <2> USE <1>4 DEF RecordRunMedia, store, collector, history, Idle, At, Unsettled, AdmitBatch
  <2>1. TypeOK'
    BY DEF TypeOK, Writes, Stages
  <2>2. Kept'
    BY DEF TypeOK, Writes, Stages, Kept, Live, HeldBy, Relies, DoomedIsFree, ReferencesStand
  <2>3. DoomedIsFree'
    BY DEF TypeOK, Writes, Stages, DoomedIsFree, Live, HeldBy, Relies, Kept, ReferencesStand, WritesAreFresh
  <2>4. ReferencesStand'
    BY DEF TypeOK, Writes, Stages, ReferencesStand, WritesAreFresh
  <2>5. WritesAreFresh'
    BY DEF TypeOK, Writes, Stages, WritesAreFresh
  <2> QED BY <2>1, <2>2, <2>3, <2>4, <2>5
<1>5. ASSUME NEW r \in Runs, Abandon(r) PROVE IInv'
  <2> USE <1>5 DEF Abandon, store, collector, history, Idle, At, Unsettled
  <2>1. TypeOK'
    BY DEF TypeOK, Writes, Stages
  <2>2. Kept'
    BY DEF TypeOK, Writes, Stages, Kept, Live, HeldBy, Relies, DoomedIsFree, ReferencesStand
  <2>3. DoomedIsFree'
    BY DEF TypeOK, Writes, Stages, DoomedIsFree, Live, HeldBy, Relies, Kept, ReferencesStand, WritesAreFresh
  <2>4. ReferencesStand'
    BY DEF TypeOK, Writes, Stages, ReferencesStand, WritesAreFresh
  <2>5. WritesAreFresh'
    BY DEF TypeOK, Writes, Stages, WritesAreFresh
  <2> QED BY <2>1, <2>2, <2>3, <2>4, <2>5
<1>6. ASSUME NEW r \in Runs, Pause(r) PROVE IInv'
  <2> USE <1>6 DEF Pause, store, collector, history, Idle, At, Unsettled
  <2>1. TypeOK'
    BY DEF TypeOK, Writes, Stages
  <2>2. Kept'
    BY DEF TypeOK, Writes, Stages, Kept, Live, HeldBy, Relies, DoomedIsFree, ReferencesStand
  <2>3. DoomedIsFree'
    BY DEF TypeOK, Writes, Stages, DoomedIsFree, Live, HeldBy, Relies, Kept, ReferencesStand, WritesAreFresh
  <2>4. ReferencesStand'
    BY DEF TypeOK, Writes, Stages, ReferencesStand, WritesAreFresh
  <2>5. WritesAreFresh'
    BY DEF TypeOK, Writes, Stages, WritesAreFresh
  <2> QED BY <2>1, <2>2, <2>3, <2>4, <2>5
<1>7. ASSUME NEW r \in Runs, Resume(r) PROVE IInv'
  <2> USE <1>7 DEF Resume, store, collector, history, Idle, At, Unsettled
  <2>1. TypeOK'
    BY DEF TypeOK, Writes, Stages
  <2>2. Kept'
    BY DEF TypeOK, Writes, Stages, Kept, Live, HeldBy, Relies, DoomedIsFree, ReferencesStand
  <2>3. DoomedIsFree'
    BY DEF TypeOK, Writes, Stages, DoomedIsFree, Live, HeldBy, Relies, Kept, ReferencesStand, WritesAreFresh
  <2>4. ReferencesStand'
    BY DEF TypeOK, Writes, Stages, ReferencesStand, WritesAreFresh
  <2>5. WritesAreFresh'
    BY DEF TypeOK, Writes, Stages, WritesAreFresh
  <2> QED BY <2>1, <2>2, <2>3, <2>4, <2>5
<1>8. ASSUME NEW r \in Runs, End(r) PROVE IInv'
  <2> USE <1>8 DEF End, store, collector, history, Idle, At, Unsettled, RemoveRunReferences, ReferencedBy
  <2>1. CASE RemoveRunReferences({r})
    <3>1. TypeOK'
      BY <2>1 DEF TypeOK, Writes, Stages
    <3>2. Kept'
      BY <2>1 DEF TypeOK, Writes, Stages, Kept, Live, HeldBy, Relies, DoomedIsFree, ReferencesStand
    <3>3. DoomedIsFree'
      BY <2>1 DEF TypeOK, Writes, Stages, DoomedIsFree, Live, HeldBy, Relies, Kept, ReferencesStand, WritesAreFresh
    <3>4. ReferencesStand'
      BY <2>1 DEF TypeOK, Writes, Stages, ReferencesStand, WritesAreFresh
    <3>5. WritesAreFresh'
      BY <2>1 DEF TypeOK, Writes, Stages, WritesAreFresh
    <3> QED BY <3>1, <3>2, <3>3, <3>4, <3>5
  <2>2. CASE UNCHANGED <<refs, row>>
    <3>1. TypeOK'
      BY <2>2 DEF TypeOK, Writes, Stages
    <3>2. Kept'
      BY <2>2 DEF TypeOK, Writes, Stages, Kept, Live, HeldBy, Relies, DoomedIsFree, ReferencesStand
    <3>3. DoomedIsFree'
      BY <2>2 DEF TypeOK, Writes, Stages, DoomedIsFree, Live, HeldBy, Relies, Kept, ReferencesStand, WritesAreFresh
    <3>4. ReferencesStand'
      BY <2>2 DEF TypeOK, Writes, Stages, ReferencesStand, WritesAreFresh
    <3>5. WritesAreFresh'
      BY <2>2 DEF TypeOK, Writes, Stages, WritesAreFresh
    <3> QED BY <3>1, <3>2, <3>3, <3>4, <3>5
  <2> QED BY <2>1, <2>2
<1>9. ASSUME NEW r \in Runs, BeginSweep(r) PROVE IInv'
  <2> USE <1>9 DEF BeginSweep, store, collector, history, Idle, At, Unsettled
  <2>1. TypeOK'
    BY DEF TypeOK, Writes, Stages
  <2>2. Kept'
    BY DEF TypeOK, Writes, Stages, Kept, Live, HeldBy, Relies, DoomedIsFree, ReferencesStand
  <2>3. DoomedIsFree'
    BY DEF TypeOK, Writes, Stages, DoomedIsFree, Live, HeldBy, Relies, Kept, ReferencesStand, WritesAreFresh
  <2>4. ReferencesStand'
    BY DEF TypeOK, Writes, Stages, ReferencesStand, WritesAreFresh
  <2>5. WritesAreFresh'
    BY DEF TypeOK, Writes, Stages, WritesAreFresh
  <2> QED BY <2>1, <2>2, <2>3, <2>4, <2>5
<1>10. ASSUME NEW r \in Runs, SweepRetries(r) PROVE IInv'
  <2> USE <1>10 DEF SweepRetries, store, collector, history, Idle, At, Unsettled, RemoveRunReferences, ReferencedBy, ReclaimableRun
  <2>1. TypeOK'
    BY DEF TypeOK, Writes, Stages
  <2>2. Kept'
    BY DEF TypeOK, Writes, Stages, Kept, Live, HeldBy, Relies, DoomedIsFree, ReferencesStand
  <2>3. DoomedIsFree'
    BY DEF TypeOK, Writes, Stages, DoomedIsFree, Live, HeldBy, Relies, Kept, ReferencesStand, WritesAreFresh
  <2>4. ReferencesStand'
    BY DEF TypeOK, Writes, Stages, ReferencesStand, WritesAreFresh
  <2>5. WritesAreFresh'
    BY DEF TypeOK, Writes, Stages, WritesAreFresh
  <2> QED BY <2>1, <2>2, <2>3, <2>4, <2>5
<1>11. ASSUME NEW r \in Runs, ReclaimExpired(r) PROVE IInv'
  <2> USE <1>11 DEF ReclaimExpired, store, collector, history, Idle, At, Unsettled, Expired, Doom, Verified, ReferencedBy
  <2>1. TypeOK'
    BY DEF TypeOK, Writes, Stages
  <2>2. Kept'
    BY DEF TypeOK, Writes, Stages, Kept, Live, HeldBy, Relies, DoomedIsFree, ReferencesStand
  <2>3. DoomedIsFree'
    <3>1. \A h \in Media : Live(h)' => Live(h)
      BY DEF TypeOK, Live
    <3>2. \A s \in Runs : \A h \in Media :
             (HeldBy(s, h)' => HeldBy(s, h)) /\ (Relies(s, h)' => Relies(s, h))
      BY DEF TypeOK, HeldBy, Relies
    <3>3. ASSUME NEW h \in doomed'[r], h \notin raced'[r]
          PROVE  ~Live(h)' /\ \A s \in Runs : ~HeldBy(s, h)' /\ ~Relies(s, h)'
      <4>1. h \in Expired /\ h \notin Verified
        BY <3>3 DEF TypeOK
      <4>2. ~Live(h)'
        BY <4>1 DEF TypeOK, Live
      <4>3. \A s \in Runs : ~HeldBy(s, h)
        BY <4>1 DEF TypeOK, HeldBy, ReferencesStand
      <4>4. ASSUME NEW s \in Runs PROVE ~Relies(s, h)
        <5>1. write[s] # At("verified", h)
          <6>1. \A t \in Runs : write[t].at = "verified" => write[t].of \in Verified
            OBVIOUS
          <6> QED BY <4>1, <6>1
        <5>2. write[s] # At("admitted", h)
          BY <4>1 DEF TypeOK, WritesAreFresh
        <5> QED BY <5>1, <5>2 DEF Relies
      <4> QED BY <3>2, <4>1, <4>2, <4>3, <4>4
    <3>4. \A s \in Runs : s # r => doomed'[s] = doomed[s] /\ raced'[s] = raced[s]
      BY DEF TypeOK
    <3> QED BY <3>1, <3>2, <3>3, <3>4 DEF DoomedIsFree, TypeOK
  <2>4. ReferencesStand'
    BY DEF TypeOK, Writes, Stages, ReferencesStand, WritesAreFresh
  <2>5. WritesAreFresh'
    BY DEF TypeOK, Writes, Stages, WritesAreFresh
  <2> QED BY <2>1, <2>2, <2>3, <2>4, <2>5
<1>12. ASSUME NEW r \in Runs, OrphanGate(r) PROVE IInv'
  <2> USE <1>12 DEF OrphanGate, store, collector, history, Idle, At, Unsettled
  <2>1. TypeOK'
    BY DEF TypeOK, Writes, Stages
  <2>2. Kept'
    BY DEF TypeOK, Writes, Stages, Kept, Live, HeldBy, Relies, DoomedIsFree, ReferencesStand
  <2>3. DoomedIsFree'
    BY DEF TypeOK, Writes, Stages, DoomedIsFree, Live, HeldBy, Relies, Kept, ReferencesStand, WritesAreFresh
  <2>4. ReferencesStand'
    BY DEF TypeOK, Writes, Stages, ReferencesStand, WritesAreFresh
  <2>5. WritesAreFresh'
    BY DEF TypeOK, Writes, Stages, WritesAreFresh
  <2> QED BY <2>1, <2>2, <2>3, <2>4, <2>5
<1>13. ASSUME NEW r \in Runs, ListObjectHandles(r) PROVE IInv'
  <2> USE <1>13 DEF ListObjectHandles, store, collector, history, Idle, At, Unsettled
  <2>1. TypeOK'
    BY DEF TypeOK, Writes, Stages
  <2>2. Kept'
    BY DEF TypeOK, Writes, Stages, Kept, Live, HeldBy, Relies, DoomedIsFree, ReferencesStand
  <2>3. DoomedIsFree'
    BY DEF TypeOK, Writes, Stages, DoomedIsFree, Live, HeldBy, Relies, Kept, ReferencesStand, WritesAreFresh
  <2>4. ReferencesStand'
    BY DEF TypeOK, Writes, Stages, ReferencesStand, WritesAreFresh
  <2>5. WritesAreFresh'
    BY DEF TypeOK, Writes, Stages, WritesAreFresh
  <2> QED BY <2>1, <2>2, <2>3, <2>4, <2>5
<1>14. ASSUME NEW r \in Runs, ListHandles(r) PROVE IInv'
  <2> USE <1>14 DEF ListHandles, store, collector, history, Idle, At, Unsettled, Orphans, Doom, Verified
  <2>1. TypeOK'
    BY DEF TypeOK, Writes, Stages
  <2>2. Kept'
    BY DEF TypeOK, Writes, Stages, Kept, Live, HeldBy, Relies, DoomedIsFree, ReferencesStand
  <2>3. DoomedIsFree'
    BY DEF TypeOK, Writes, Stages, DoomedIsFree, Live, HeldBy, Relies, Kept, ReferencesStand, WritesAreFresh
  <2>4. ReferencesStand'
    BY DEF TypeOK, Writes, Stages, ReferencesStand, WritesAreFresh
  <2>5. WritesAreFresh'
    BY DEF TypeOK, Writes, Stages, WritesAreFresh
  <2> QED BY <2>1, <2>2, <2>3, <2>4, <2>5
<1>15. ASSUME NEW r \in Runs, Die(r) PROVE IInv'
  <2> USE <1>15 DEF Die, store, collector, history, Idle, At, Unsettled
  <2>1. TypeOK'
    BY DEF TypeOK, Writes, Stages
  <2>2. Kept'
    BY DEF TypeOK, Writes, Stages, Kept, Live, HeldBy, Relies, DoomedIsFree, ReferencesStand
  <2>3. DoomedIsFree'
    BY DEF TypeOK, Writes, Stages, DoomedIsFree, Live, HeldBy, Relies, Kept, ReferencesStand, WritesAreFresh
  <2>4. ReferencesStand'
    BY DEF TypeOK, Writes, Stages, ReferencesStand, WritesAreFresh
  <2>5. WritesAreFresh'
    BY DEF TypeOK, Writes, Stages, WritesAreFresh
  <2> QED BY <2>1, <2>2, <2>3, <2>4, <2>5
<1>16. ASSUME NEW r \in Runs, NEW h \in Media, Put(r, h) PROVE IInv'
  <2> USE <1>16 DEF Put, store, collector, history, Idle, At, Unsettled
  <2>1. TypeOK'
    BY DEF TypeOK, Writes, Stages
  <2>2. Kept'
    BY DEF TypeOK, Writes, Stages, Kept, Live, HeldBy, Relies, DoomedIsFree, ReferencesStand
  <2>3. DoomedIsFree'
    BY DEF TypeOK, Writes, Stages, DoomedIsFree, Live, HeldBy, Relies, Kept, ReferencesStand, WritesAreFresh
  <2>4. ReferencesStand'
    BY DEF TypeOK, Writes, Stages, ReferencesStand, WritesAreFresh
  <2>5. WritesAreFresh'
    BY DEF TypeOK, Writes, Stages, WritesAreFresh
  <2> QED BY <2>1, <2>2, <2>3, <2>4, <2>5
<1>17. ASSUME NEW r \in Runs, NEW h \in Media, Reuse(r, h) PROVE IInv'
  <2> USE <1>17 DEF Reuse, store, collector, history, Idle, At, Unsettled
  <2>1. TypeOK'
    BY DEF TypeOK, Writes, Stages
  <2>2. Kept'
    BY DEF TypeOK, Writes, Stages, Kept, Live, HeldBy, Relies, DoomedIsFree, ReferencesStand
  <2>3. DoomedIsFree'
    BY DEF TypeOK, Writes, Stages, DoomedIsFree, Live, HeldBy, Relies, Kept, ReferencesStand, WritesAreFresh
  <2>4. ReferencesStand'
    BY DEF TypeOK, Writes, Stages, ReferencesStand, WritesAreFresh
  <2>5. WritesAreFresh'
    BY DEF TypeOK, Writes, Stages, WritesAreFresh
  <2> QED BY <2>1, <2>2, <2>3, <2>4, <2>5
<1>18. ASSUME NEW r \in Runs, NEW h \in Media, Unlink(r, h) PROVE IInv'
  <2> USE <1>18 DEF Unlink, store, collector, history, Idle, At, Unsettled
  <2>1. TypeOK'
    BY DEF TypeOK, Writes, Stages
  <2>2. Kept'
    BY DEF TypeOK, Writes, Stages, Kept, Live, HeldBy, Relies, DoomedIsFree, ReferencesStand
  <2>3. DoomedIsFree'
    BY DEF TypeOK, Writes, Stages, DoomedIsFree, Live, HeldBy, Relies, Kept, ReferencesStand, WritesAreFresh
  <2>4. ReferencesStand'
    BY DEF TypeOK, Writes, Stages, ReferencesStand, WritesAreFresh
  <2>5. WritesAreFresh'
    BY DEF TypeOK, Writes, Stages, WritesAreFresh
  <2> QED BY <2>1, <2>2, <2>3, <2>4, <2>5
<1>19. ASSUME NEW r \in Runs, NEW h \in Media, UnlinkFails(r, h) PROVE IInv'
  <2> USE <1>19 DEF UnlinkFails, store, collector, history, Idle, At, Unsettled
  <2>1. TypeOK'
    BY DEF TypeOK, Writes, Stages
  <2>2. Kept'
    BY DEF TypeOK, Writes, Stages, Kept, Live, HeldBy, Relies, DoomedIsFree, ReferencesStand
  <2>3. DoomedIsFree'
    BY DEF TypeOK, Writes, Stages, DoomedIsFree, Live, HeldBy, Relies, Kept, ReferencesStand, WritesAreFresh
  <2>4. ReferencesStand'
    BY DEF TypeOK, Writes, Stages, ReferencesStand, WritesAreFresh
  <2>5. WritesAreFresh'
    BY DEF TypeOK, Writes, Stages, WritesAreFresh
  <2> QED BY <2>1, <2>2, <2>3, <2>4, <2>5
<1>20. ASSUME NEW h \in Media, FileAges(h) PROVE IInv'
  <2> USE <1>20 DEF FileAges, store, collector, history, Idle, At, Unsettled, AtRest
  <2>1. TypeOK'
    BY DEF TypeOK, Writes, Stages
  <2>2. Kept'
    BY DEF TypeOK, Writes, Stages, Kept, Live, HeldBy, Relies, DoomedIsFree, ReferencesStand
  <2>3. DoomedIsFree'
    BY DEF TypeOK, Writes, Stages, DoomedIsFree, Live, HeldBy, Relies, Kept, ReferencesStand, WritesAreFresh
  <2>4. ReferencesStand'
    BY DEF TypeOK, Writes, Stages, ReferencesStand, WritesAreFresh
  <2>5. WritesAreFresh'
    BY DEF TypeOK, Writes, Stages, WritesAreFresh
  <2> QED BY <2>1, <2>2, <2>3, <2>4, <2>5
<1>21. ASSUME NEW h \in Media, RowAges(h) PROVE IInv'
  <2> USE <1>21 DEF RowAges, store, collector, history, Idle, At, Unsettled, AtRest
  <2>1. TypeOK'
    BY DEF TypeOK, Writes, Stages
  <2>2. Kept'
    BY DEF TypeOK, Writes, Stages, Kept, Live, HeldBy, Relies, DoomedIsFree, ReferencesStand
  <2>3. DoomedIsFree'
    BY DEF TypeOK, Writes, Stages, DoomedIsFree, Live, HeldBy, Relies, Kept, ReferencesStand, WritesAreFresh
  <2>4. ReferencesStand'
    BY DEF TypeOK, Writes, Stages, ReferencesStand, WritesAreFresh
  <2>5. WritesAreFresh'
    BY DEF TypeOK, Writes, Stages, WritesAreFresh
  <2> QED BY <2>1, <2>2, <2>3, <2>4, <2>5
<1>22. CASE UNCHANGED vars
  BY <1>22 DEF vars, TypeOK, Writes, Stages, Kept, Live, HeldBy, Relies, DoomedIsFree, ReferencesStand, WritesAreFresh
<1> QED BY <1>1, <1>2, <1>3, <1>4, <1>5, <1>6, <1>7, <1>8, <1>9, <1>10, <1>11, <1>12, <1>13, <1>14, <1>15, <1>16, <1>17, <1>18, <1>19, <1>20, <1>21, <1>22 DEF Next

\* It holds when there is no run, no file and no row.
LEMMA Initially == Init => IInv
  BY MediaConstants DEF Init, IInv, TypeOK, Writes, Stages, Kept, Live, HeldBy, Relies,
     DoomedIsFree, ReferencesStand, WritesAreFresh, Idle, At, Unsettled

\* The inductive invariant holds in every reachable state.
LEMMA Invariant == Spec => []IInv
  BY Initially, Preserved, PTL DEF Spec

\* What a row or a living run promises is among what Kept covers.
LEMMA KeptMeansBytesKept == IInv => BytesKept
  BY DEF IInv, TypeOK, Kept, Live, HeldBy, BytesKept, Promised, Unsettled

\* For every number of runs and of media: promised media has its bytes, except
\* for a handle that a run verified while a collection was unlinking it
\* (media-gc.ts, deleteJoined after reclaimExpired and after listHandles).
THEOREM PromisedBytes == Spec => []BytesKept
  BY Invariant, KeptMeansBytesKept, PTL

=============================================================================

------------------------- MODULE EffectJournalProofs -------------------------
(***************************************************************************)
(* An effect leaves at most once while its row stands, a clean report       *)
(* leaves nothing in doubt and nothing leaves after the terminal, for every *)
(* number of processes, effects, attempts, faults, stalls and crashes.      *)
(***************************************************************************)
EXTENDS EffectJournal, TLAPS

-----------------------------------------------------------------------------
(* The inductive invariant.                                                  *)

(* A dispatch under way holds the prepared row of its call, and its process
   counts it as pending. *)
Bracketed ==
    \A q \in Proc : exec[q] # "idle" =>
        /\ call[q] \in Effect /\ call[q] \in pending[q]
        /\ rows[call[q]].state = "prepared" /\ rows[call[q]].by = q
        /\ eng[q] \notin {"none", "gating", "repairing", "parked", "gone"}

(* What has left has a row, and what was only admitted has not left. *)
Recorded ==
    \A f \in Effect \ swept :
        /\ left[f] <= 1
        /\ rows[f] = NoRow => left[f] = 0
        /\ \A q \in Proc : exec[q] = "admitted" /\ call[q] = f => left[f] = 0

(* A row that is not committed is on the conscience of the process that
   prepared it. *)
Owed ==
    \A q \in Proc, f \in Effect :
        rows[f].by = q /\ rows[f].state # "committed" => f \in pending[q] \/ sticky[q]

(* A report is the last thing a process says; a clean one had no cause. *)
Reported ==
    \A q \in Proc :
        /\ report[q] # "none" => eng[q] = "gone"
        /\ report[q] = "clean" => ~ sticky[q] /\ pending[q] = {}
        /\ eng[q] \in {"none", "gating", "repairing"} => pending[q] = {}
        /\ eng[q] = "none" => ~ sticky[q]

(* Who drives the run.  A process that is engaged has the claim as long as
   leases are kept, and nobody has it once the run has its terminal. *)
Engaged == {"gating", "running", "settling", "repairing"}
Kept == spent.stalls = 0

Claimed ==
    /\ \A q \in Proc : owner = q => eng[q] \in Engaged
    /\ over # NoProc => owner = NoProc
    /\ ~ begun => over = NoProc /\ owner = NoProc /\ \A q \in Proc : eng[q] = "none"
    /\ ~ begun => \A f \in Effect : rows[f].state = "none"
    /\ \A q \in Proc : eng[q] \in {"settled", "fenced"} => ~ live[q]
    /\ Kept => \A q \in Proc : eng[q] \in Engaged => owner = q

(* What a driving process did not prepare itself, it found settled or it asks
   for attention; so does the one that closed the run. *)
Checked ==
    Kept => \A q \in Proc :
        ((owner = q /\ eng[q] # "gating") \/ over = q) /\ ~ aborted[q] /\ ~ sticky[q] =>
            \A f \in Effect : Blocks(f) => rows[f].by = q

JournalInv == TypeOK /\ Bracketed /\ Recorded /\ Owed /\ Reported /\ Claimed /\ Checked

-----------------------------------------------------------------------------
(* Types are kept by every step. *)
LEMMA TypeStep ==
    ASSUME JournalConstants, TypeOK, Bracketed, [Next]_vars
    PROVE  TypeOK'
<1>1. ASSUME NEW p \in Proc, Dispatch(p) \/ Drive(p) PROVE TypeOK'
  <2>1. ASSUME NEW e \in Effect, NEW a \in Args, PrepareProceeds(p, e, a) PROVE TypeOK'
    BY JournalConstants, TypeOK, Bracketed, <2>1 DEF PrepareProceeds, MayAsk, AtRest, Row,
       NoRow, store, process, health, TypeOK, StoreTypes, DispatchTypes, FlagTypes,
       HealthTypes, HistoryTypes, RowType, Bracketed
  <2>2. ASSUME NEW e \in Effect, NEW a \in Args, PrepareReplays(p, e, a) PROVE TypeOK'
    BY JournalConstants, TypeOK, Bracketed, <2>2 DEF PrepareReplays, MayAsk, AtRest, store,
       process, health, TypeOK, StoreTypes, DispatchTypes, FlagTypes, HealthTypes,
       HistoryTypes, RowType, Bracketed
  <2>3. ASSUME NEW e \in Effect, NEW a \in Args, PrepareRefused(p, e, a) PROVE TypeOK'
    BY JournalConstants, TypeOK, Bracketed, <2>3 DEF PrepareRefused, MayAsk, AtRest, EndTurn,
       store, process, health, TypeOK, StoreTypes, DispatchTypes, FlagTypes, HealthTypes,
       HistoryTypes, RowType, Bracketed
  <2>4. CASE PrepareFails(p)
    <3>1. StoreTypes'
      BY <2>4, JournalConstants, TypeOK DEF PrepareFails, AtRest, NextAttempt, Fault, Spend,
         store, process, health, TypeOK, StoreTypes, RowType
    <3>2. DispatchTypes'
      BY <2>4, JournalConstants, TypeOK DEF PrepareFails, AtRest, NextAttempt, Fault, Spend,
         store, process, health, TypeOK, DispatchTypes
    <3>3. FlagTypes'
      BY <2>4, JournalConstants, TypeOK DEF PrepareFails, AtRest, NextAttempt, Fault, Spend,
         store, process, health, TypeOK, FlagTypes
    <3>4. HealthTypes'
      BY <2>4, JournalConstants, TypeOK DEF PrepareFails, AtRest, NextAttempt, Fault, Spend,
         store, process, health, TypeOK, HealthTypes
    <3>5. HistoryTypes'
      BY <2>4, JournalConstants, TypeOK DEF PrepareFails, AtRest, NextAttempt, Fault, Spend,
         store, process, health, TypeOK, HistoryTypes
    <3> QED BY <3>1, <3>2, <3>3, <3>4, <3>5 DEF TypeOK
  <2>5. CASE Refuse(p)
    BY JournalConstants, TypeOK, Bracketed, <2>5 DEF Refuse, EndTurn, store, process, health,
       TypeOK, StoreTypes, DispatchTypes, FlagTypes, HealthTypes, HistoryTypes, RowType, Bracketed
  <2>6. CASE Send(p)
    BY JournalConstants, TypeOK, Bracketed, <2>6 DEF Send, store, process, health, TypeOK,
       StoreTypes, DispatchTypes, FlagTypes, HealthTypes, HistoryTypes, RowType, Bracketed
  <2>7. CASE Unavailable(p)
    <3>1. StoreTypes'
      <4>1. NoRow \in RowType
        BY JournalConstants DEF NoRow, RowType, JournalConstants
      <4> QED BY <2>7, <4>1, TypeOK DEF Unavailable, TypeOK, StoreTypes
    <3>2. DispatchTypes'
      BY <2>7, JournalConstants, TypeOK DEF Unavailable, EndTurn, Fault, Spend, store, process,
         health, TypeOK, DispatchTypes
    <3>3. FlagTypes'
      BY <2>7, JournalConstants, TypeOK
         DEF Unavailable, EndTurn, Fault, Spend, store, process, health, TypeOK, FlagTypes
    <3>4. HealthTypes'
      BY <2>7, JournalConstants, TypeOK
         DEF Unavailable, EndTurn, Fault, Spend, store, process, health, TypeOK, HealthTypes
    <3>5. HistoryTypes'
      BY <2>7, JournalConstants, TypeOK DEF Unavailable, EndTurn, Fault, Spend, store, process,
         health, TypeOK, HistoryTypes
    <3> QED BY <3>1, <3>2, <3>3, <3>4, <3>5 DEF TypeOK
  <2>8. CASE SendFails(p)
    <3>1. StoreTypes'
      BY <2>8, JournalConstants, TypeOK DEF SendFails, EndTurn, Fault, Spend, store, process,
         health, TypeOK, StoreTypes, RowType
    <3>2. DispatchTypes'
      BY <2>8, JournalConstants, TypeOK
         DEF SendFails, EndTurn, Fault, Spend, store, process, health, TypeOK, DispatchTypes
    <3>3. FlagTypes'
      BY <2>8, JournalConstants, TypeOK
         DEF SendFails, EndTurn, Fault, Spend, store, process, health, TypeOK, FlagTypes
    <3>4. HealthTypes'
      BY <2>8, JournalConstants, TypeOK
         DEF SendFails, EndTurn, Fault, Spend, store, process, health, TypeOK, HealthTypes
    <3>5. HistoryTypes'
      BY <2>8, JournalConstants, TypeOK
         DEF SendFails, EndTurn, Fault, Spend, store, process, health, TypeOK, HistoryTypes
    <3> QED BY <3>1, <3>2, <3>3, <3>4, <3>5 DEF TypeOK
  <2>9. CASE Answer(p)
    BY JournalConstants, TypeOK, Bracketed, <2>9 DEF Answer, store, process, health, TypeOK,
       StoreTypes, DispatchTypes, FlagTypes, HealthTypes, HistoryTypes, RowType, Bracketed
  <2>10. CASE Unrecorded(p)
    BY JournalConstants, TypeOK, Bracketed, <2>10 DEF Unrecorded, EndTurn, store, process,
       health, TypeOK, StoreTypes, DispatchTypes, FlagTypes, HealthTypes, HistoryTypes,
       RowType, Bracketed
  <2>11. CASE Commit(p)
    <3>1. StoreTypes'
      BY <2>11, Bracketed, TypeOK
         DEF Commit, store, TypeOK, StoreTypes, DispatchTypes, RowType, Bracketed
    <3>2. DispatchTypes'
      BY <2>11, Bracketed, TypeOK DEF Commit, store, TypeOK, DispatchTypes, Bracketed
    <3>3. FlagTypes'
      BY <2>11, JournalConstants, TypeOK
         DEF Commit, Spend, store, process, health, TypeOK, FlagTypes
    <3>4. HealthTypes'
      BY <2>11, JournalConstants, TypeOK
         DEF Commit, Spend, store, process, health, TypeOK, HealthTypes
    <3>5. HistoryTypes'
      BY <2>11, JournalConstants, TypeOK
         DEF Commit, Spend, store, process, health, TypeOK, HistoryTypes
    <3> QED BY <3>1, <3>2, <3>3, <3>4, <3>5 DEF TypeOK
  <2>12. CASE CommitFails(p)
    BY JournalConstants, TypeOK, Bracketed, <2>12 DEF CommitFails, EndTurn, Fault, Spend,
       store, process, health, TypeOK, StoreTypes, DispatchTypes, FlagTypes, HealthTypes,
       HistoryTypes, RowType, Bracketed
  <2>13. CASE Begin(p)
    BY JournalConstants, TypeOK, Bracketed, <2>13 DEF Begin, store, process, health, TypeOK,
       StoreTypes, DispatchTypes, FlagTypes, HealthTypes, HistoryTypes, RowType, Bracketed
  <2>14. CASE Resume(p)
    BY JournalConstants, TypeOK, Bracketed, <2>14 DEF Resume, store, process, health, TypeOK,
       StoreTypes, DispatchTypes, FlagTypes, HealthTypes, HistoryTypes, RowType, Bracketed
  <2>15. CASE ReadGate(p)
    <3>1. StoreTypes'
      BY <2>15, JournalConstants, TypeOK
         DEF ReadGate, Fault, Spend, store, process, health, TypeOK, StoreTypes, RowType
    <3>2. DispatchTypes'
      BY <2>15, JournalConstants, TypeOK
         DEF ReadGate, Fault, Spend, store, process, health, TypeOK, DispatchTypes
    <3>3. FlagTypes'
      BY <2>15, JournalConstants, TypeOK
         DEF ReadGate, Fault, Spend, store, process, health, TypeOK, FlagTypes
    <3>4. HealthTypes'
      BY <2>15, JournalConstants, TypeOK
         DEF ReadGate, Fault, Spend, store, process, health, TypeOK, HealthTypes
    <3>5. HistoryTypes'
      BY <2>15, JournalConstants, TypeOK
         DEF ReadGate, Fault, Spend, store, process, health, TypeOK, HistoryTypes
    <3> QED BY <3>1, <3>2, <3>3, <3>4, <3>5 DEF TypeOK
  <2>16. CASE RepairRead(p)
    <3>1. StoreTypes'
      BY <2>16, JournalConstants, TypeOK
         DEF RepairRead, Fault, Spend, store, process, health, TypeOK, StoreTypes, RowType
    <3>2. DispatchTypes'
      BY <2>16, JournalConstants, TypeOK
         DEF RepairRead, Fault, Spend, store, process, health, TypeOK, DispatchTypes
    <3>3. FlagTypes'
      BY <2>16, JournalConstants, TypeOK
         DEF RepairRead, Fault, Spend, store, process, health, TypeOK, FlagTypes
    <3>4. HealthTypes'
      BY <2>16, JournalConstants, TypeOK
         DEF RepairRead, Fault, Spend, store, process, health, TypeOK, HealthTypes
    <3>5. HistoryTypes'
      BY <2>16, JournalConstants, TypeOK
         DEF RepairRead, Fault, Spend, store, process, health, TypeOK, HistoryTypes
    <3> QED BY <3>1, <3>2, <3>3, <3>4, <3>5 DEF TypeOK
  <2>17. CASE RepairWrite(p)
    BY JournalConstants, TypeOK, Bracketed, <2>17 DEF RepairWrite, Fault, Spend, store,
       process, health, TypeOK, StoreTypes, DispatchTypes, FlagTypes, HealthTypes,
       HistoryTypes, RowType, Bracketed
  <2>18. CASE TurnFails(p)
    <3>1. StoreTypes'
      BY <2>18, JournalConstants, TypeOK DEF TurnFails, AtRest, NextAttempt, store, process,
         health, TypeOK, StoreTypes, RowType
    <3>2. DispatchTypes'
      BY <2>18, JournalConstants, TypeOK
         DEF TurnFails, AtRest, NextAttempt, store, process, health, TypeOK, DispatchTypes
    <3>3. FlagTypes'
      BY <2>18, JournalConstants, TypeOK
         DEF TurnFails, AtRest, NextAttempt, store, process, health, TypeOK, FlagTypes
    <3>4. HealthTypes'
      BY <2>18, JournalConstants, TypeOK
         DEF TurnFails, AtRest, NextAttempt, store, process, health, TypeOK, HealthTypes
    <3>5. HistoryTypes'
      BY <2>18, JournalConstants, TypeOK
         DEF TurnFails, AtRest, NextAttempt, store, process, health, TypeOK, HistoryTypes
    <3> QED BY <3>1, <3>2, <3>3, <3>4, <3>5 DEF TypeOK
  <2>19. CASE Complete(p)
    <3>1. StoreTypes'
      BY <2>19, JournalConstants, TypeOK DEF Complete, AtRest, Fault, Spend, LeaveFenced,
         store, process, health, TypeOK, StoreTypes, RowType
    <3>2. DispatchTypes'
      BY <2>19, JournalConstants, TypeOK DEF Complete, AtRest, Fault, Spend, LeaveFenced,
         store, process, health, TypeOK, DispatchTypes
    <3>3. FlagTypes'
      BY <2>19, JournalConstants, TypeOK DEF Complete, AtRest, Fault, Spend, LeaveFenced,
         store, process, health, TypeOK, FlagTypes
    <3>4. HealthTypes'
      BY <2>19, JournalConstants, TypeOK DEF Complete, AtRest, Fault, Spend, LeaveFenced,
         store, process, health, TypeOK, HealthTypes
    <3>5. HistoryTypes'
      BY <2>19, JournalConstants, TypeOK DEF Complete, AtRest, Fault, Spend, LeaveFenced,
         store, process, health, TypeOK, HistoryTypes
    <3> QED BY <3>1, <3>2, <3>3, <3>4, <3>5 DEF TypeOK
  <2>20. CASE Cancel(p)
    BY JournalConstants, TypeOK, Bracketed, <2>20 DEF Cancel, store, process, health, TypeOK,
       StoreTypes, DispatchTypes, FlagTypes, HealthTypes, HistoryTypes, RowType, Bracketed
  <2>21. CASE Abandon(p)
    BY JournalConstants, TypeOK, Bracketed, <2>21 DEF Abandon, store, process, health, TypeOK,
       StoreTypes, DispatchTypes, FlagTypes, HealthTypes, HistoryTypes, RowType, Bracketed
  <2>22. CASE Settle(p)
    <3>1. StoreTypes'
      BY <2>22, JournalConstants, TypeOK DEF Settle, Fault, Spend, LeaveFenced, store, process,
         health, TypeOK, StoreTypes, RowType
    <3>2. DispatchTypes'
      BY <2>22, JournalConstants, TypeOK DEF Settle, Fault, Spend, LeaveFenced, store, process,
         health, TypeOK, DispatchTypes
    <3>3. FlagTypes'
      BY <2>22, JournalConstants, TypeOK
         DEF Settle, Fault, Spend, LeaveFenced, store, process, health, TypeOK, FlagTypes
    <3>4. HealthTypes'
      BY <2>22, JournalConstants, TypeOK
         DEF Settle, Fault, Spend, LeaveFenced, store, process, health, TypeOK, HealthTypes
    <3>5. HistoryTypes'
      BY <2>22, JournalConstants, TypeOK
         DEF Settle, Fault, Spend, LeaveFenced, store, process, health, TypeOK, HistoryTypes
    <3> QED BY <3>1, <3>2, <3>3, <3>4, <3>5 DEF TypeOK
  <2>23. CASE Notice(p)
    BY JournalConstants, TypeOK, Bracketed, <2>23 DEF Notice, LeaveFenced, store, process,
       health, TypeOK, StoreTypes, DispatchTypes, FlagTypes, HealthTypes, HistoryTypes,
       RowType, Bracketed
  <2>24. CASE Depart(p)
    BY JournalConstants, TypeOK, Bracketed, <2>24 DEF Depart, NeedsAttention, NoRow, store,
       process, health, TypeOK, StoreTypes, DispatchTypes, FlagTypes, HealthTypes,
       HistoryTypes, RowType, Bracketed
  <2>25. CASE Crash(p)
    BY JournalConstants, TypeOK, Bracketed, <2>25 DEF Crash, Spend, store, process, health,
       TypeOK, StoreTypes, DispatchTypes, FlagTypes, HealthTypes, HistoryTypes, RowType, Bracketed
  <2>26. CASE Stall(p)
    BY JournalConstants, TypeOK, Bracketed, <2>26 DEF Stall, Spend, store, process, health,
       TypeOK, StoreTypes, DispatchTypes, FlagTypes, HealthTypes, HistoryTypes, RowType, Bracketed
  <2>q. QED BY <1>1, <2>1, <2>2, <2>3, <2>4, <2>5, <2>6, <2>7, <2>8, <2>9, <2>10, <2>11, <2>12,
  <2>13, <2>14, <2>15, <2>16, <2>17, <2>18, <2>19, <2>20, <2>21, <2>22, <2>23, <2>24, <2>25,
  <2>26 DEF Dispatch, Drive
<1>2. CASE UNCHANGED vars
  BY JournalConstants, TypeOK, Bracketed, <1>2 DEF vars, store, process, health, TypeOK,
     StoreTypes, DispatchTypes, FlagTypes, HealthTypes, HistoryTypes, RowType, Bracketed
<1>q. QED BY <1>1, <1>2 DEF Next

(* Every step keeps the bracket around a dispatch. *)
LEMMA BracketStep ==
    ASSUME JournalConstants, TypeOK, Bracketed, [Next]_vars
    PROVE  Bracketed'
<1>1. ASSUME NEW p \in Proc, Dispatch(p) \/ Drive(p) PROVE Bracketed'
  <2>1. ASSUME NEW e \in Effect, NEW a \in Args, PrepareProceeds(p, e, a) PROVE Bracketed'
    <3>1. rows[e].state = "none"
      BY <2>1 DEF PrepareProceeds, NoRow
    <3>2. SUFFICES ASSUME NEW q \in Proc, exec'[q] # "idle"
          PROVE  /\ call'[q] \in Effect /\ call'[q] \in pending'[q]
                 /\ rows'[call'[q]].state = "prepared" /\ rows'[call'[q]].by = q
                 /\ eng'[q] \notin {"none", "gating", "repairing", "parked", "gone"}
      BY DEF Bracketed
    <3>3. CASE q = p
      BY <2>1, <3>2, <3>3, TypeOK DEF PrepareProceeds, MayAsk, AtRest, Row, TypeOK, StoreTypes,
         DispatchTypes, HealthTypes
    <3>4. CASE q # p
      <4>1. exec[q] # "idle" /\ exec'[q] = exec[q] /\ call'[q] = call[q] /\ pending'[q] = pending[q] /\ eng'[q] = eng[q]
        BY <2>1, <3>2, <3>4, TypeOK DEF PrepareProceeds, TypeOK, DispatchTypes, HealthTypes
      <4>2. call[q] # e /\ call[q] \in Effect
        BY <3>1, <4>1, Bracketed DEF Bracketed
      <4>3. rows'[call[q]] = rows[call[q]]
        BY <2>1, <4>2, TypeOK DEF PrepareProceeds, TypeOK, StoreTypes
      <4> QED BY <4>1, <4>2, <4>3, Bracketed DEF Bracketed
    <3> QED BY <3>3, <3>4
  <2>2. ASSUME NEW e \in Effect, NEW a \in Args, PrepareReplays(p, e, a) PROVE Bracketed'
    BY TypeOK, Bracketed, <2>2 DEF PrepareReplays, MayAsk, AtRest, store, process, health,
       TypeOK, StoreTypes, DispatchTypes, FlagTypes, HealthTypes, HistoryTypes, RowType, Bracketed
  <2>3. ASSUME NEW e \in Effect, NEW a \in Args, PrepareRefused(p, e, a) PROVE Bracketed'
    BY TypeOK, Bracketed, <2>3 DEF PrepareRefused, MayAsk, AtRest, EndTurn, store, process,
       health, TypeOK, StoreTypes, DispatchTypes, FlagTypes, HealthTypes, HistoryTypes,
       RowType, Bracketed
  <2>4. CASE PrepareFails(p)
    BY TypeOK, Bracketed, <2>4 DEF PrepareFails, AtRest, NextAttempt, Fault, Spend, store,
       process, health, TypeOK, StoreTypes, DispatchTypes, FlagTypes, HealthTypes,
       HistoryTypes, RowType, Bracketed
  <2>5. CASE Refuse(p)
    BY TypeOK, Bracketed, <2>5 DEF Refuse, EndTurn, store, process, health, TypeOK, StoreTypes,
       DispatchTypes, FlagTypes, HealthTypes, HistoryTypes, RowType, Bracketed
  <2>6. CASE Send(p)
    BY TypeOK, Bracketed, <2>6 DEF Send, store, process, health, TypeOK, StoreTypes,
       DispatchTypes, FlagTypes, HealthTypes, HistoryTypes, RowType, Bracketed
  <2>7. CASE Unavailable(p)
    BY TypeOK, Bracketed, <2>7 DEF Unavailable, EndTurn, Fault, Spend, store, process, health,
       TypeOK, StoreTypes, DispatchTypes, FlagTypes, HealthTypes, HistoryTypes, RowType, Bracketed
  <2>8. CASE SendFails(p)
    BY TypeOK, Bracketed, <2>8 DEF SendFails, EndTurn, Fault, Spend, store, process, health,
       TypeOK, StoreTypes, DispatchTypes, FlagTypes, HealthTypes, HistoryTypes, RowType, Bracketed
  <2>9. CASE Answer(p)
    BY TypeOK, Bracketed, <2>9 DEF Answer, store, process, health, TypeOK, StoreTypes,
       DispatchTypes, FlagTypes, HealthTypes, HistoryTypes, RowType, Bracketed
  <2>10. CASE Unrecorded(p)
    BY TypeOK, Bracketed, <2>10 DEF Unrecorded, EndTurn, store, process, health, TypeOK,
       StoreTypes, DispatchTypes, FlagTypes, HealthTypes, HistoryTypes, RowType, Bracketed
  <2>11. CASE Commit(p)
    BY TypeOK, Bracketed, <2>11 DEF Commit, store, process, health, TypeOK, StoreTypes,
       DispatchTypes, FlagTypes, HealthTypes, HistoryTypes, RowType, Bracketed
  <2>12. CASE CommitFails(p)
    BY TypeOK, Bracketed, <2>12 DEF CommitFails, EndTurn, Fault, Spend, store, process, health,
       TypeOK, StoreTypes, DispatchTypes, FlagTypes, HealthTypes, HistoryTypes, RowType, Bracketed
  <2>13. CASE Begin(p)
    BY TypeOK, Bracketed, <2>13 DEF Begin, store, process, health, TypeOK, StoreTypes,
       DispatchTypes, FlagTypes, HealthTypes, HistoryTypes, RowType, Bracketed
  <2>14. CASE Resume(p)
    BY TypeOK, Bracketed, <2>14 DEF Resume, store, process, health, TypeOK, StoreTypes,
       DispatchTypes, FlagTypes, HealthTypes, HistoryTypes, RowType, Bracketed
  <2>15. CASE ReadGate(p)
    BY TypeOK, Bracketed, <2>15 DEF ReadGate, Fault, Spend, store, process, health, TypeOK,
       StoreTypes, DispatchTypes, FlagTypes, HealthTypes, HistoryTypes, RowType, Bracketed
  <2>16. CASE RepairRead(p)
    BY TypeOK, Bracketed, <2>16 DEF RepairRead, Fault, Spend, store, process, health, TypeOK,
       StoreTypes, DispatchTypes, FlagTypes, HealthTypes, HistoryTypes, RowType, Bracketed
  <2>17. CASE RepairWrite(p)
    BY TypeOK, Bracketed, <2>17 DEF RepairWrite, Fault, Spend, store, process, health, TypeOK,
       StoreTypes, DispatchTypes, FlagTypes, HealthTypes, HistoryTypes, RowType, Bracketed
  <2>18. CASE TurnFails(p)
    BY TypeOK, Bracketed, <2>18 DEF TurnFails, AtRest, NextAttempt, store, process, health,
       TypeOK, StoreTypes, DispatchTypes, FlagTypes, HealthTypes, HistoryTypes, RowType, Bracketed
  <2>19. CASE Complete(p)
    BY TypeOK, Bracketed, <2>19 DEF Complete, AtRest, Fault, Spend, LeaveFenced, store,
       process, health, TypeOK, StoreTypes, DispatchTypes, FlagTypes, HealthTypes,
       HistoryTypes, RowType, Bracketed
  <2>20. CASE Cancel(p)
    BY TypeOK, Bracketed, <2>20 DEF Cancel, store, process, health, TypeOK, StoreTypes,
       DispatchTypes, FlagTypes, HealthTypes, HistoryTypes, RowType, Bracketed
  <2>21. CASE Abandon(p)
    BY TypeOK, Bracketed, <2>21 DEF Abandon, store, process, health, TypeOK, StoreTypes,
       DispatchTypes, FlagTypes, HealthTypes, HistoryTypes, RowType, Bracketed
  <2>22. CASE Settle(p)
    BY TypeOK, Bracketed, <2>22 DEF Settle, Fault, Spend, LeaveFenced, store, process, health,
       TypeOK, StoreTypes, DispatchTypes, FlagTypes, HealthTypes, HistoryTypes, RowType, Bracketed
  <2>23. CASE Notice(p)
    BY TypeOK, Bracketed, <2>23 DEF Notice, LeaveFenced, store, process, health, TypeOK,
       StoreTypes, DispatchTypes, FlagTypes, HealthTypes, HistoryTypes, RowType, Bracketed
  <2>24. CASE Depart(p)
    BY TypeOK, Bracketed, <2>24 DEF Depart, NeedsAttention, store, process, health, TypeOK,
       StoreTypes, DispatchTypes, FlagTypes, HealthTypes, HistoryTypes, RowType, Bracketed
  <2>25. CASE Crash(p)
    BY TypeOK, Bracketed, <2>25 DEF Crash, Spend, store, process, health, TypeOK, StoreTypes,
       DispatchTypes, FlagTypes, HealthTypes, HistoryTypes, RowType, Bracketed
  <2>26. CASE Stall(p)
    BY TypeOK, Bracketed, <2>26 DEF Stall, Spend, store, process, health, TypeOK, StoreTypes,
       DispatchTypes, FlagTypes, HealthTypes, HistoryTypes, RowType, Bracketed
  <2>q. QED BY <1>1, <2>1, <2>2, <2>3, <2>4, <2>5, <2>6, <2>7, <2>8, <2>9, <2>10, <2>11, <2>12,
  <2>13, <2>14, <2>15, <2>16, <2>17, <2>18, <2>19, <2>20, <2>21, <2>22, <2>23, <2>24, <2>25,
  <2>26 DEF Dispatch, Drive
<1>2. CASE UNCHANGED vars
  BY TypeOK, Bracketed, <1>2 DEF vars, store, process, health, TypeOK, StoreTypes,
     DispatchTypes, FlagTypes, HealthTypes, HistoryTypes, RowType, Bracketed
<1>q. QED BY <1>1, <1>2 DEF Next

(* Every step keeps the count of what left. *)
LEMMA RecordStep ==
    ASSUME JournalConstants, TypeOK, Bracketed, Recorded, [Next]_vars
    PROVE  Recorded'
<1>1. ASSUME NEW p \in Proc, Dispatch(p) \/ Drive(p) PROVE Recorded'
  <2>1. ASSUME NEW e \in Effect, NEW a \in Args, PrepareProceeds(p, e, a) PROVE Recorded'
    BY JournalConstants, TypeOK, Bracketed, Recorded, <2>1 DEF PrepareProceeds, MayAsk, AtRest,
       Row, store, process, health, TypeOK, StoreTypes, DispatchTypes, FlagTypes, HealthTypes,
       HistoryTypes, RowType, Bracketed, Recorded, NoRow
  <2>2. ASSUME NEW e \in Effect, NEW a \in Args, PrepareReplays(p, e, a) PROVE Recorded'
    BY JournalConstants, TypeOK, Bracketed, Recorded, <2>2 DEF PrepareReplays, MayAsk, AtRest,
       store, process, health, TypeOK, StoreTypes, DispatchTypes, FlagTypes, HealthTypes,
       HistoryTypes, RowType, Bracketed, Recorded, NoRow
  <2>3. ASSUME NEW e \in Effect, NEW a \in Args, PrepareRefused(p, e, a) PROVE Recorded'
    BY JournalConstants, TypeOK, Bracketed, Recorded, <2>3 DEF PrepareRefused, MayAsk, AtRest,
       EndTurn, store, process, health, TypeOK, StoreTypes, DispatchTypes, FlagTypes,
       HealthTypes, HistoryTypes, RowType, Bracketed, Recorded, NoRow
  <2>4. CASE PrepareFails(p)
    BY JournalConstants, TypeOK, Bracketed, Recorded, <2>4 DEF PrepareFails, AtRest,
       NextAttempt, Fault, Spend, store, process, health, TypeOK, StoreTypes, DispatchTypes,
       FlagTypes, HealthTypes, HistoryTypes, RowType, Bracketed, Recorded, NoRow
  <2>5. CASE Refuse(p)
    BY JournalConstants, TypeOK, Bracketed, Recorded, <2>5 DEF Refuse, EndTurn, store, process,
       health, TypeOK, StoreTypes, DispatchTypes, FlagTypes, HealthTypes, HistoryTypes,
       RowType, Bracketed, Recorded, NoRow
  <2>6. CASE Send(p)
    BY JournalConstants, TypeOK, Bracketed, Recorded, <2>6 DEF Send, store, process, health,
       TypeOK, StoreTypes, DispatchTypes, FlagTypes, HealthTypes, HistoryTypes, RowType,
       Bracketed, Recorded, NoRow
  <2>7. CASE Unavailable(p)
    BY JournalConstants, TypeOK, Bracketed, Recorded, <2>7 DEF Unavailable, EndTurn, Fault,
       Spend, store, process, health, TypeOK, StoreTypes, DispatchTypes, FlagTypes,
       HealthTypes, HistoryTypes, RowType, Bracketed, Recorded, NoRow
  <2>8. CASE SendFails(p)
    BY JournalConstants, TypeOK, Bracketed, Recorded, <2>8 DEF SendFails, EndTurn, Fault,
       Spend, store, process, health, TypeOK, StoreTypes, DispatchTypes, FlagTypes,
       HealthTypes, HistoryTypes, RowType, Bracketed, Recorded, NoRow
  <2>9. CASE Answer(p)
    BY JournalConstants, TypeOK, Bracketed, Recorded, <2>9 DEF Answer, store, process, health,
       TypeOK, StoreTypes, DispatchTypes, FlagTypes, HealthTypes, HistoryTypes, RowType,
       Bracketed, Recorded, NoRow
  <2>10. CASE Unrecorded(p)
    BY JournalConstants, TypeOK, Bracketed, Recorded, <2>10 DEF Unrecorded, EndTurn, store,
       process, health, TypeOK, StoreTypes, DispatchTypes, FlagTypes, HealthTypes,
       HistoryTypes, RowType, Bracketed, Recorded, NoRow
  <2>11. CASE Commit(p)
    BY JournalConstants, TypeOK, Bracketed, Recorded, <2>11 DEF Commit, store, process, health,
       TypeOK, StoreTypes, DispatchTypes, FlagTypes, HealthTypes, HistoryTypes, RowType,
       Bracketed, Recorded, NoRow
  <2>12. CASE CommitFails(p)
    BY JournalConstants, TypeOK, Bracketed, Recorded, <2>12 DEF CommitFails, EndTurn, Fault,
       Spend, store, process, health, TypeOK, StoreTypes, DispatchTypes, FlagTypes,
       HealthTypes, HistoryTypes, RowType, Bracketed, Recorded, NoRow
  <2>13. CASE Begin(p)
    BY JournalConstants, TypeOK, Bracketed, Recorded, <2>13 DEF Begin, store, process, health,
       TypeOK, StoreTypes, DispatchTypes, FlagTypes, HealthTypes, HistoryTypes, RowType,
       Bracketed, Recorded, NoRow
  <2>14. CASE Resume(p)
    BY JournalConstants, TypeOK, Bracketed, Recorded, <2>14 DEF Resume, store, process, health,
       TypeOK, StoreTypes, DispatchTypes, FlagTypes, HealthTypes, HistoryTypes, RowType,
       Bracketed, Recorded, NoRow
  <2>15. CASE ReadGate(p)
    BY JournalConstants, TypeOK, Bracketed, Recorded, <2>15 DEF ReadGate, Fault, Spend, store,
       process, health, TypeOK, StoreTypes, DispatchTypes, FlagTypes, HealthTypes,
       HistoryTypes, RowType, Bracketed, Recorded, NoRow
  <2>16. CASE RepairRead(p)
    BY JournalConstants, TypeOK, Bracketed, Recorded, <2>16 DEF RepairRead, Fault, Spend,
       store, process, health, TypeOK, StoreTypes, DispatchTypes, FlagTypes, HealthTypes,
       HistoryTypes, RowType, Bracketed, Recorded, NoRow
  <2>17. CASE RepairWrite(p)
    BY JournalConstants, TypeOK, Bracketed, Recorded, <2>17 DEF RepairWrite, Fault, Spend,
       store, process, health, TypeOK, StoreTypes, DispatchTypes, FlagTypes, HealthTypes,
       HistoryTypes, RowType, Bracketed, Recorded, NoRow
  <2>18. CASE TurnFails(p)
    BY JournalConstants, TypeOK, Bracketed, Recorded, <2>18 DEF TurnFails, AtRest, NextAttempt,
       store, process, health, TypeOK, StoreTypes, DispatchTypes, FlagTypes, HealthTypes,
       HistoryTypes, RowType, Bracketed, Recorded, NoRow
  <2>19. CASE Complete(p)
    BY JournalConstants, TypeOK, Bracketed, Recorded, <2>19 DEF Complete, AtRest, Fault, Spend,
       LeaveFenced, store, process, health, TypeOK, StoreTypes, DispatchTypes, FlagTypes,
       HealthTypes, HistoryTypes, RowType, Bracketed, Recorded, NoRow
  <2>20. CASE Cancel(p)
    BY JournalConstants, TypeOK, Bracketed, Recorded, <2>20 DEF Cancel, store, process, health,
       TypeOK, StoreTypes, DispatchTypes, FlagTypes, HealthTypes, HistoryTypes, RowType,
       Bracketed, Recorded, NoRow
  <2>21. CASE Abandon(p)
    BY JournalConstants, TypeOK, Bracketed, Recorded, <2>21 DEF Abandon, store, process,
       health, TypeOK, StoreTypes, DispatchTypes, FlagTypes, HealthTypes, HistoryTypes,
       RowType, Bracketed, Recorded, NoRow
  <2>22. CASE Settle(p)
    BY JournalConstants, TypeOK, Bracketed, Recorded, <2>22 DEF Settle, Fault, Spend,
       LeaveFenced, store, process, health, TypeOK, StoreTypes, DispatchTypes, FlagTypes,
       HealthTypes, HistoryTypes, RowType, Bracketed, Recorded, NoRow
  <2>23. CASE Notice(p)
    BY JournalConstants, TypeOK, Bracketed, Recorded, <2>23 DEF Notice, LeaveFenced, store,
       process, health, TypeOK, StoreTypes, DispatchTypes, FlagTypes, HealthTypes,
       HistoryTypes, RowType, Bracketed, Recorded, NoRow
  <2>24. CASE Depart(p)
    BY JournalConstants, TypeOK, Bracketed, Recorded, <2>24 DEF Depart, NeedsAttention, store,
       process, health, TypeOK, StoreTypes, DispatchTypes, FlagTypes, HealthTypes,
       HistoryTypes, RowType, Bracketed, Recorded, NoRow
  <2>25. CASE Crash(p)
    BY JournalConstants, TypeOK, Bracketed, Recorded, <2>25 DEF Crash, Spend, store, process,
       health, TypeOK, StoreTypes, DispatchTypes, FlagTypes, HealthTypes, HistoryTypes,
       RowType, Bracketed, Recorded, NoRow
  <2>26. CASE Stall(p)
    BY JournalConstants, TypeOK, Bracketed, Recorded, <2>26 DEF Stall, Spend, store, process,
       health, TypeOK, StoreTypes, DispatchTypes, FlagTypes, HealthTypes, HistoryTypes,
       RowType, Bracketed, Recorded, NoRow
  <2>q. QED BY <1>1, <2>1, <2>2, <2>3, <2>4, <2>5, <2>6, <2>7, <2>8, <2>9, <2>10, <2>11, <2>12,
  <2>13, <2>14, <2>15, <2>16, <2>17, <2>18, <2>19, <2>20, <2>21, <2>22, <2>23, <2>24, <2>25,
  <2>26 DEF Dispatch, Drive
<1>2. CASE UNCHANGED vars
  BY JournalConstants, TypeOK, Bracketed, Recorded, <1>2 DEF vars, store, process, health,
     TypeOK, StoreTypes, DispatchTypes, FlagTypes, HealthTypes, HistoryTypes, RowType,
     Bracketed, Recorded, NoRow
<1>q. QED BY <1>1, <1>2 DEF Next

(* Every step keeps the owner of a row in debt. *)
LEMMA OwedStep ==
    ASSUME JournalConstants, TypeOK, Bracketed, Owed, Reported, [Next]_vars
    PROVE  Owed'
<1>1. ASSUME NEW p \in Proc, Dispatch(p) \/ Drive(p) PROVE Owed'
  <2>1. ASSUME NEW e \in Effect, NEW a \in Args, PrepareProceeds(p, e, a) PROVE Owed'
    BY JournalConstants, TypeOK, Bracketed, Owed, <2>1 DEF PrepareProceeds, MayAsk, AtRest,
       Row, store, process, health, TypeOK, StoreTypes, DispatchTypes, FlagTypes, HealthTypes,
       HistoryTypes, RowType, Bracketed, Owed, NoRow
  <2>2. ASSUME NEW e \in Effect, NEW a \in Args, PrepareReplays(p, e, a) PROVE Owed'
    BY JournalConstants, TypeOK, Bracketed, Owed, <2>2 DEF PrepareReplays, MayAsk, AtRest,
       store, process, health, TypeOK, StoreTypes, DispatchTypes, FlagTypes, HealthTypes,
       HistoryTypes, RowType, Bracketed, Owed, NoRow
  <2>3. ASSUME NEW e \in Effect, NEW a \in Args, PrepareRefused(p, e, a) PROVE Owed'
    BY JournalConstants, TypeOK, Bracketed, Owed, <2>3 DEF PrepareRefused, MayAsk, AtRest,
       EndTurn, store, process, health, TypeOK, StoreTypes, DispatchTypes, FlagTypes,
       HealthTypes, HistoryTypes, RowType, Bracketed, Owed, NoRow
  <2>4. CASE PrepareFails(p)
    BY JournalConstants, TypeOK, Bracketed, Owed, <2>4 DEF PrepareFails, AtRest, NextAttempt,
       Fault, Spend, store, process, health, TypeOK, StoreTypes, DispatchTypes, FlagTypes,
       HealthTypes, HistoryTypes, RowType, Bracketed, Owed, NoRow
  <2>5. CASE Refuse(p)
    BY JournalConstants, TypeOK, Bracketed, Owed, <2>5 DEF Refuse, EndTurn, store, process,
       health, TypeOK, StoreTypes, DispatchTypes, FlagTypes, HealthTypes, HistoryTypes,
       RowType, Bracketed, Owed, NoRow
  <2>6. CASE Send(p)
    BY JournalConstants, TypeOK, Bracketed, Owed, <2>6 DEF Send, store, process, health,
       TypeOK, StoreTypes, DispatchTypes, FlagTypes, HealthTypes, HistoryTypes, RowType,
       Bracketed, Owed, NoRow
  <2>7. CASE Unavailable(p)
    <3>1. SUFFICES ASSUME NEW q \in Proc, NEW f \in Effect,
                           rows'[f].by = q, rows'[f].state # "committed"
          PROVE  f \in pending'[q] \/ sticky'[q]
      BY DEF Owed
    <3>2. exec[p] # "idle" /\ call[p] \in Effect /\ rows[call[p]].state = "prepared" /\ rows[call[p]].by = p
      BY <2>7, Bracketed DEF Unavailable, Bracketed
    <3>3. CASE rows' = rows
      <4>1. f \in pending[q] \/ sticky[q]
        BY <3>1, <3>3, Owed DEF Owed
      <4>2. CASE f = call[p]
        <5>1. rows'[f].by = p /\ rows[f].state = "prepared"
          BY <3>2, <3>3, <4>2
        <5>2. NoRow.by # p
          BY JournalConstants DEF NoRow, JournalConstants
        <5>3. rows'[f] # NoRow
          BY <5>1, <5>2
        <5>4. pending' = pending /\ sticky' = [sticky EXCEPT ![p] = TRUE]
          BY <2>7, <3>2, <4>2, <5>1, <5>3, TypeOK DEF Unavailable, TypeOK, StoreTypes
        <5> QED BY <3>1, <5>1, <5>4, TypeOK DEF TypeOK, FlagTypes
      <4>3. CASE f # call[p]
        <5>1. f \in pending[q] => f \in pending'[q]
          BY <2>7, <4>3, TypeOK DEF Unavailable, TypeOK, HealthTypes
        <5>2. sticky[q] => sticky'[q]
          BY <2>7, TypeOK DEF Unavailable, TypeOK, FlagTypes
        <5> QED BY <4>1, <5>1, <5>2
      <4> QED BY <4>2, <4>3
    <3>4. CASE rows' # rows
      <4>1. /\ rows' = [rows EXCEPT ![call[p]] = NoRow]
            /\ pending' = [pending EXCEPT ![p] = @ \ {call[p]}] /\ sticky' = sticky
        BY <2>7, <3>2, <3>4 DEF Unavailable
      <4>2. f # call[p]
        BY <3>1, <3>2, <4>1, JournalConstants, TypeOK
           DEF JournalConstants, NoRow, TypeOK, StoreTypes
      <4>3. f \in pending[q] \/ sticky[q]
        BY <3>1, <4>1, <4>2, Owed, TypeOK DEF Owed, TypeOK, StoreTypes
      <4> QED BY <4>1, <4>2, <4>3, TypeOK DEF TypeOK, HealthTypes
    <3> QED BY <3>3, <3>4
  <2>8. CASE SendFails(p)
    <3>1. SUFFICES ASSUME NEW q \in Proc, NEW f \in Effect,
                           rows'[f].by = q, rows'[f].state # "committed"
          PROVE  f \in pending'[q] \/ sticky'[q]
      BY DEF Owed
    <3>2. call[p] \in Effect /\ rows[call[p]].state = "prepared" /\ rows[call[p]].by = p
      BY <2>8, Bracketed DEF SendFails, Bracketed
    <3>3. rows'[f].by = rows[f].by /\ rows[f].state # "committed"
      BY <2>8, <3>1, <3>2, TypeOK DEF SendFails, TypeOK, StoreTypes, RowType
    <3>4. f \in pending[q] \/ sticky[q]
      BY <3>1, <3>3, Owed DEF Owed
    <3>5. pending' = pending /\ (sticky[q] => sticky'[q])
      BY <2>8, TypeOK DEF SendFails, TypeOK, FlagTypes
    <3> QED BY <3>4, <3>5
  <2>9. CASE Answer(p)
    BY JournalConstants, TypeOK, Bracketed, Owed, <2>9 DEF Answer, store, process, health,
       TypeOK, StoreTypes, DispatchTypes, FlagTypes, HealthTypes, HistoryTypes, RowType,
       Bracketed, Owed, NoRow
  <2>10. CASE Unrecorded(p)
    BY JournalConstants, TypeOK, Bracketed, Owed, <2>10 DEF Unrecorded, EndTurn, store,
       process, health, TypeOK, StoreTypes, DispatchTypes, FlagTypes, HealthTypes,
       HistoryTypes, RowType, Bracketed, Owed, NoRow
  <2>11. CASE Commit(p)
    BY JournalConstants, TypeOK, Bracketed, Owed, <2>11 DEF Commit, store, process, health,
       TypeOK, StoreTypes, DispatchTypes, FlagTypes, HealthTypes, HistoryTypes, RowType,
       Bracketed, Owed, NoRow
  <2>12. CASE CommitFails(p)
    BY JournalConstants, TypeOK, Bracketed, Owed, <2>12 DEF CommitFails, EndTurn, Fault, Spend,
       store, process, health, TypeOK, StoreTypes, DispatchTypes, FlagTypes, HealthTypes,
       HistoryTypes, RowType, Bracketed, Owed, NoRow
  <2>13. CASE Begin(p)
    BY JournalConstants, TypeOK, Bracketed, Owed, <2>13 DEF Begin, store, process, health,
       TypeOK, StoreTypes, DispatchTypes, FlagTypes, HealthTypes, HistoryTypes, RowType,
       Bracketed, Owed, NoRow
  <2>14. CASE Resume(p)
    BY JournalConstants, TypeOK, Bracketed, Owed, <2>14 DEF Resume, store, process, health,
       TypeOK, StoreTypes, DispatchTypes, FlagTypes, HealthTypes, HistoryTypes, RowType,
       Bracketed, Owed, NoRow
  <2>15. CASE ReadGate(p)
    BY JournalConstants, TypeOK, Bracketed, Owed, <2>15 DEF ReadGate, Fault, Spend, store,
       process, health, TypeOK, StoreTypes, DispatchTypes, FlagTypes, HealthTypes,
       HistoryTypes, RowType, Bracketed, Owed, NoRow
  <2>16. CASE RepairRead(p)
    <3>1. SUFFICES ASSUME NEW q \in Proc, NEW f \in Effect,
                           rows'[f].by = q, rows'[f].state # "committed"
          PROVE  f \in pending'[q] \/ sticky'[q]
      BY DEF Owed
    <3>2. f \in pending[q] \/ sticky[q]
      BY <2>16, <3>1, Owed DEF RepairRead, Owed
    <3>3. CASE q # p
      <4>1. sticky'[q] = sticky[q] /\ pending' = pending
        BY <2>16, <3>3, TypeOK DEF RepairRead, TypeOK, FlagTypes
      <4> QED BY <3>2, <4>1
    <3>4. CASE q = p
      <4>1. pending[p] = {} /\ ~ sticky[p]
        BY <2>16, Reported DEF RepairRead, Reported
      <4> QED BY <3>2, <3>4, <4>1
    <3> QED BY <3>3, <3>4
  <2>17. CASE RepairWrite(p)
    BY JournalConstants, TypeOK, Bracketed, Owed, <2>17 DEF RepairWrite, Fault, Spend, store,
       process, health, TypeOK, StoreTypes, DispatchTypes, FlagTypes, HealthTypes,
       HistoryTypes, RowType, Bracketed, Owed, NoRow
  <2>18. CASE TurnFails(p)
    BY JournalConstants, TypeOK, Bracketed, Owed, <2>18 DEF TurnFails, AtRest, NextAttempt,
       store, process, health, TypeOK, StoreTypes, DispatchTypes, FlagTypes, HealthTypes,
       HistoryTypes, RowType, Bracketed, Owed, NoRow
  <2>19. CASE Complete(p)
    BY JournalConstants, TypeOK, Bracketed, Owed, <2>19 DEF Complete, AtRest, Fault, Spend,
       LeaveFenced, store, process, health, TypeOK, StoreTypes, DispatchTypes, FlagTypes,
       HealthTypes, HistoryTypes, RowType, Bracketed, Owed, NoRow
  <2>20. CASE Cancel(p)
    BY JournalConstants, TypeOK, Bracketed, Owed, <2>20 DEF Cancel, store, process, health,
       TypeOK, StoreTypes, DispatchTypes, FlagTypes, HealthTypes, HistoryTypes, RowType,
       Bracketed, Owed, NoRow
  <2>21. CASE Abandon(p)
    BY JournalConstants, TypeOK, Bracketed, Owed, <2>21 DEF Abandon, store, process, health,
       TypeOK, StoreTypes, DispatchTypes, FlagTypes, HealthTypes, HistoryTypes, RowType,
       Bracketed, Owed, NoRow
  <2>22. CASE Settle(p)
    BY JournalConstants, TypeOK, Bracketed, Owed, <2>22 DEF Settle, Fault, Spend, LeaveFenced,
       store, process, health, TypeOK, StoreTypes, DispatchTypes, FlagTypes, HealthTypes,
       HistoryTypes, RowType, Bracketed, Owed, NoRow
  <2>23. CASE Notice(p)
    BY JournalConstants, TypeOK, Bracketed, Owed, <2>23 DEF Notice, LeaveFenced, store,
       process, health, TypeOK, StoreTypes, DispatchTypes, FlagTypes, HealthTypes,
       HistoryTypes, RowType, Bracketed, Owed, NoRow
  <2>24. CASE Depart(p)
    BY JournalConstants, TypeOK, Bracketed, Owed, <2>24 DEF Depart, NeedsAttention, store,
       process, health, TypeOK, StoreTypes, DispatchTypes, FlagTypes, HealthTypes,
       HistoryTypes, RowType, Bracketed, Owed, NoRow
  <2>25. CASE Crash(p)
    BY JournalConstants, TypeOK, Bracketed, Owed, <2>25 DEF Crash, Spend, store, process,
       health, TypeOK, StoreTypes, DispatchTypes, FlagTypes, HealthTypes, HistoryTypes,
       RowType, Bracketed, Owed, NoRow
  <2>26. CASE Stall(p)
    BY JournalConstants, TypeOK, Bracketed, Owed, <2>26 DEF Stall, Spend, store, process,
       health, TypeOK, StoreTypes, DispatchTypes, FlagTypes, HealthTypes, HistoryTypes,
       RowType, Bracketed, Owed, NoRow
  <2>q. QED BY <1>1, <2>1, <2>2, <2>3, <2>4, <2>5, <2>6, <2>7, <2>8, <2>9, <2>10, <2>11, <2>12,
  <2>13, <2>14, <2>15, <2>16, <2>17, <2>18, <2>19, <2>20, <2>21, <2>22, <2>23, <2>24, <2>25,
  <2>26 DEF Dispatch, Drive
<1>2. CASE UNCHANGED vars
  BY JournalConstants, TypeOK, Bracketed, Owed, <1>2 DEF vars, store, process, health, TypeOK,
     StoreTypes, DispatchTypes, FlagTypes, HealthTypes, HistoryTypes, RowType, Bracketed, Owed,
     NoRow
<1>q. QED BY <1>1, <1>2 DEF Next

(* Every step keeps the reports. *)
LEMMA ReportStep ==
    ASSUME JournalConstants, TypeOK, Bracketed, Reported, [Next]_vars
    PROVE  Reported'
<1>1. ASSUME NEW p \in Proc, Dispatch(p) \/ Drive(p) PROVE Reported'
  <2>1. ASSUME NEW e \in Effect, NEW a \in Args, PrepareProceeds(p, e, a) PROVE Reported'
    BY TypeOK, Bracketed, Reported, <2>1 DEF PrepareProceeds, MayAsk, AtRest, Row, store,
       process, health, TypeOK, StoreTypes, DispatchTypes, FlagTypes, HealthTypes,
       HistoryTypes, RowType, Bracketed, Reported
  <2>2. ASSUME NEW e \in Effect, NEW a \in Args, PrepareReplays(p, e, a) PROVE Reported'
    BY TypeOK, Bracketed, Reported, <2>2 DEF PrepareReplays, MayAsk, AtRest, store, process,
       health, TypeOK, StoreTypes, DispatchTypes, FlagTypes, HealthTypes, HistoryTypes,
       RowType, Bracketed, Reported
  <2>3. ASSUME NEW e \in Effect, NEW a \in Args, PrepareRefused(p, e, a) PROVE Reported'
    BY TypeOK, Bracketed, Reported, <2>3 DEF PrepareRefused, MayAsk, AtRest, EndTurn, store,
       process, health, TypeOK, StoreTypes, DispatchTypes, FlagTypes, HealthTypes,
       HistoryTypes, RowType, Bracketed, Reported
  <2>4. CASE PrepareFails(p)
    BY TypeOK, Bracketed, Reported, <2>4 DEF PrepareFails, AtRest, NextAttempt, Fault, Spend,
       store, process, health, TypeOK, StoreTypes, DispatchTypes, FlagTypes, HealthTypes,
       HistoryTypes, RowType, Bracketed, Reported
  <2>5. CASE Refuse(p)
    BY TypeOK, Bracketed, Reported, <2>5 DEF Refuse, EndTurn, store, process, health, TypeOK,
       StoreTypes, DispatchTypes, FlagTypes, HealthTypes, HistoryTypes, RowType, Bracketed,
       Reported
  <2>6. CASE Send(p)
    BY TypeOK, Bracketed, Reported, <2>6 DEF Send, store, process, health, TypeOK, StoreTypes,
       DispatchTypes, FlagTypes, HealthTypes, HistoryTypes, RowType, Bracketed, Reported
  <2>7. CASE Unavailable(p)
    BY TypeOK, Bracketed, Reported, <2>7 DEF Unavailable, EndTurn, Fault, Spend, store,
       process, health, TypeOK, StoreTypes, DispatchTypes, FlagTypes, HealthTypes,
       HistoryTypes, RowType, Bracketed, Reported
  <2>8. CASE SendFails(p)
    BY TypeOK, Bracketed, Reported, <2>8 DEF SendFails, EndTurn, Fault, Spend, store, process,
       health, TypeOK, StoreTypes, DispatchTypes, FlagTypes, HealthTypes, HistoryTypes,
       RowType, Bracketed, Reported
  <2>9. CASE Answer(p)
    BY TypeOK, Bracketed, Reported, <2>9 DEF Answer, store, process, health, TypeOK,
       StoreTypes, DispatchTypes, FlagTypes, HealthTypes, HistoryTypes, RowType, Bracketed,
       Reported
  <2>10. CASE Unrecorded(p)
    BY TypeOK, Bracketed, Reported, <2>10 DEF Unrecorded, EndTurn, store, process, health,
       TypeOK, StoreTypes, DispatchTypes, FlagTypes, HealthTypes, HistoryTypes, RowType,
       Bracketed, Reported
  <2>11. CASE Commit(p)
    BY TypeOK, Bracketed, Reported, <2>11 DEF Commit, store, process, health, TypeOK,
       StoreTypes, DispatchTypes, FlagTypes, HealthTypes, HistoryTypes, RowType, Bracketed,
       Reported
  <2>12. CASE CommitFails(p)
    BY TypeOK, Bracketed, Reported, <2>12 DEF CommitFails, EndTurn, Fault, Spend, store,
       process, health, TypeOK, StoreTypes, DispatchTypes, FlagTypes, HealthTypes,
       HistoryTypes, RowType, Bracketed, Reported
  <2>13. CASE Begin(p)
    BY TypeOK, Bracketed, Reported, <2>13 DEF Begin, store, process, health, TypeOK,
       StoreTypes, DispatchTypes, FlagTypes, HealthTypes, HistoryTypes, RowType, Bracketed,
       Reported
  <2>14. CASE Resume(p)
    BY TypeOK, Bracketed, Reported, <2>14 DEF Resume, store, process, health, TypeOK,
       StoreTypes, DispatchTypes, FlagTypes, HealthTypes, HistoryTypes, RowType, Bracketed,
       Reported
  <2>15. CASE ReadGate(p)
    BY TypeOK, Bracketed, Reported, <2>15 DEF ReadGate, Fault, Spend, store, process, health,
       TypeOK, StoreTypes, DispatchTypes, FlagTypes, HealthTypes, HistoryTypes, RowType,
       Bracketed, Reported
  <2>16. CASE RepairRead(p)
    BY TypeOK, Bracketed, Reported, <2>16 DEF RepairRead, Fault, Spend, store, process, health,
       TypeOK, StoreTypes, DispatchTypes, FlagTypes, HealthTypes, HistoryTypes, RowType,
       Bracketed, Reported
  <2>17. CASE RepairWrite(p)
    BY TypeOK, Bracketed, Reported, <2>17 DEF RepairWrite, Fault, Spend, store, process,
       health, TypeOK, StoreTypes, DispatchTypes, FlagTypes, HealthTypes, HistoryTypes,
       RowType, Bracketed, Reported
  <2>18. CASE TurnFails(p)
    BY TypeOK, Bracketed, Reported, <2>18 DEF TurnFails, AtRest, NextAttempt, store, process,
       health, TypeOK, StoreTypes, DispatchTypes, FlagTypes, HealthTypes, HistoryTypes,
       RowType, Bracketed, Reported
  <2>19. CASE Complete(p)
    BY TypeOK, Bracketed, Reported, <2>19 DEF Complete, AtRest, Fault, Spend, LeaveFenced,
       store, process, health, TypeOK, StoreTypes, DispatchTypes, FlagTypes, HealthTypes,
       HistoryTypes, RowType, Bracketed, Reported
  <2>20. CASE Cancel(p)
    BY TypeOK, Bracketed, Reported, <2>20 DEF Cancel, store, process, health, TypeOK,
       StoreTypes, DispatchTypes, FlagTypes, HealthTypes, HistoryTypes, RowType, Bracketed,
       Reported
  <2>21. CASE Abandon(p)
    BY TypeOK, Bracketed, Reported, <2>21 DEF Abandon, store, process, health, TypeOK,
       StoreTypes, DispatchTypes, FlagTypes, HealthTypes, HistoryTypes, RowType, Bracketed,
       Reported
  <2>22. CASE Settle(p)
    BY TypeOK, Bracketed, Reported, <2>22 DEF Settle, Fault, Spend, LeaveFenced, store,
       process, health, TypeOK, StoreTypes, DispatchTypes, FlagTypes, HealthTypes,
       HistoryTypes, RowType, Bracketed, Reported
  <2>23. CASE Notice(p)
    BY TypeOK, Bracketed, Reported, <2>23 DEF Notice, LeaveFenced, store, process, health,
       TypeOK, StoreTypes, DispatchTypes, FlagTypes, HealthTypes, HistoryTypes, RowType,
       Bracketed, Reported
  <2>24. CASE Depart(p)
    BY TypeOK, Bracketed, Reported, <2>24 DEF Depart, NeedsAttention, store, process, health,
       TypeOK, StoreTypes, DispatchTypes, FlagTypes, HealthTypes, HistoryTypes, RowType,
       Bracketed, Reported
  <2>25. CASE Crash(p)
    BY TypeOK, Bracketed, Reported, <2>25 DEF Crash, Spend, store, process, health, TypeOK,
       StoreTypes, DispatchTypes, FlagTypes, HealthTypes, HistoryTypes, RowType, Bracketed,
       Reported
  <2>26. CASE Stall(p)
    BY TypeOK, Bracketed, Reported, <2>26 DEF Stall, Spend, store, process, health, TypeOK,
       StoreTypes, DispatchTypes, FlagTypes, HealthTypes, HistoryTypes, RowType, Bracketed,
       Reported
  <2>q. QED BY <1>1, <2>1, <2>2, <2>3, <2>4, <2>5, <2>6, <2>7, <2>8, <2>9, <2>10, <2>11, <2>12,
  <2>13, <2>14, <2>15, <2>16, <2>17, <2>18, <2>19, <2>20, <2>21, <2>22, <2>23, <2>24, <2>25,
  <2>26 DEF Dispatch, Drive
<1>2. CASE UNCHANGED vars
  BY TypeOK, Bracketed, Reported, <1>2 DEF vars, store, process, health, TypeOK, StoreTypes,
     DispatchTypes, FlagTypes, HealthTypes, HistoryTypes, RowType, Bracketed, Reported
<1>q. QED BY <1>1, <1>2 DEF Next

(* Every step keeps the claim with the process that is engaged. *)
LEMMA ClaimStep ==
    ASSUME JournalConstants, TypeOK, Bracketed, Claimed, [Next]_vars
    PROVE  Claimed'
<1>1. ASSUME NEW p \in Proc, Dispatch(p) \/ Drive(p) PROVE Claimed'
  <2>1. ASSUME NEW e \in Effect, NEW a \in Args, PrepareProceeds(p, e, a) PROVE Claimed'
    BY JournalConstants, TypeOK, Bracketed, Claimed, <2>1 DEF PrepareProceeds, MayAsk, AtRest,
       Row, store, process, health, TypeOK, StoreTypes, DispatchTypes, FlagTypes, HealthTypes,
       HistoryTypes, RowType, Bracketed, Engaged, Kept, Claimed, JournalConstants
  <2>2. ASSUME NEW e \in Effect, NEW a \in Args, PrepareReplays(p, e, a) PROVE Claimed'
    BY JournalConstants, TypeOK, Bracketed, Claimed, <2>2 DEF PrepareReplays, MayAsk, AtRest,
       store, process, health, TypeOK, StoreTypes, DispatchTypes, FlagTypes, HealthTypes,
       HistoryTypes, RowType, Bracketed, Engaged, Kept, Claimed, JournalConstants
  <2>3. ASSUME NEW e \in Effect, NEW a \in Args, PrepareRefused(p, e, a) PROVE Claimed'
    BY JournalConstants, TypeOK, Bracketed, Claimed, <2>3 DEF PrepareRefused, MayAsk, AtRest,
       EndTurn, store, process, health, TypeOK, StoreTypes, DispatchTypes, FlagTypes,
       HealthTypes, HistoryTypes, RowType, Bracketed, Engaged, Kept, Claimed, JournalConstants
  <2>4. CASE PrepareFails(p)
    BY JournalConstants, TypeOK, Bracketed, Claimed, <2>4 DEF PrepareFails, AtRest, NextAttempt,
       Fault, Spend, store, process, health, TypeOK, StoreTypes, DispatchTypes, FlagTypes,
       HealthTypes, HistoryTypes, RowType, Bracketed, Engaged, Kept, Claimed, JournalConstants
  <2>5. CASE Refuse(p)
    BY JournalConstants, TypeOK, Bracketed, Claimed, <2>5 DEF Refuse, EndTurn, store, process,
       health, TypeOK, StoreTypes, DispatchTypes, FlagTypes, HealthTypes, HistoryTypes, RowType,
       Bracketed, Engaged, Kept, Claimed, JournalConstants
  <2>6. CASE Send(p)
    BY JournalConstants, TypeOK, Bracketed, Claimed, <2>6 DEF Send, store, process, health,
       TypeOK, StoreTypes, DispatchTypes, FlagTypes, HealthTypes, HistoryTypes, RowType,
       Bracketed, Engaged, Kept, Claimed, JournalConstants
  <2>7. CASE Unavailable(p)
    BY JournalConstants, TypeOK, Bracketed, Claimed, <2>7 DEF Unavailable, EndTurn, Fault,
       Spend, store, process, health, TypeOK, StoreTypes, DispatchTypes, FlagTypes, HealthTypes,
       HistoryTypes, RowType, Bracketed, Engaged, Kept, Claimed, JournalConstants
  <2>8. CASE SendFails(p)
    BY JournalConstants, TypeOK, Bracketed, Claimed, <2>8 DEF SendFails, EndTurn, Fault, Spend,
       store, process, health, TypeOK, StoreTypes, DispatchTypes, FlagTypes, HealthTypes,
       HistoryTypes, RowType, Bracketed, Engaged, Kept, Claimed, JournalConstants
  <2>9. CASE Answer(p)
    BY JournalConstants, TypeOK, Bracketed, Claimed, <2>9 DEF Answer, store, process, health,
       TypeOK, StoreTypes, DispatchTypes, FlagTypes, HealthTypes, HistoryTypes, RowType,
       Bracketed, Engaged, Kept, Claimed, JournalConstants
  <2>10. CASE Unrecorded(p)
    BY JournalConstants, TypeOK, Bracketed, Claimed, <2>10 DEF Unrecorded, EndTurn, store,
       process, health, TypeOK, StoreTypes, DispatchTypes, FlagTypes, HealthTypes, HistoryTypes,
       RowType, Bracketed, Engaged, Kept, Claimed, JournalConstants
  <2>11. CASE Commit(p)
    BY JournalConstants, TypeOK, Bracketed, Claimed, <2>11 DEF Commit, store, process, health,
       TypeOK, StoreTypes, DispatchTypes, FlagTypes, HealthTypes, HistoryTypes, RowType,
       Bracketed, Engaged, Kept, Claimed, JournalConstants
  <2>12. CASE CommitFails(p)
    BY JournalConstants, TypeOK, Bracketed, Claimed, <2>12 DEF CommitFails, EndTurn, Fault,
       Spend, store, process, health, TypeOK, StoreTypes, DispatchTypes, FlagTypes, HealthTypes,
       HistoryTypes, RowType, Bracketed, Engaged, Kept, Claimed, JournalConstants
  <2>13. CASE Begin(p)
    BY JournalConstants, TypeOK, Bracketed, Claimed, <2>13 DEF Begin, store, process, health,
       TypeOK, StoreTypes, DispatchTypes, FlagTypes, HealthTypes, HistoryTypes, RowType,
       Bracketed, Engaged, Kept, Claimed, JournalConstants
  <2>14. CASE Resume(p)
    BY JournalConstants, TypeOK, Bracketed, Claimed, <2>14 DEF Resume, store, process, health,
       TypeOK, StoreTypes, DispatchTypes, FlagTypes, HealthTypes, HistoryTypes, RowType,
       Bracketed, Engaged, Kept, Claimed, JournalConstants
  <2>15. CASE ReadGate(p)
    BY JournalConstants, TypeOK, Bracketed, Claimed, <2>15 DEF ReadGate, Fault, Spend, store,
       process, health, TypeOK, StoreTypes, DispatchTypes, FlagTypes, HealthTypes, HistoryTypes,
       RowType, Bracketed, Engaged, Kept, Claimed, JournalConstants
  <2>16. CASE RepairRead(p)
    BY JournalConstants, TypeOK, Bracketed, Claimed, <2>16 DEF RepairRead, Fault, Spend, store,
       process, health, TypeOK, StoreTypes, DispatchTypes, FlagTypes, HealthTypes, HistoryTypes,
       RowType, Bracketed, Engaged, Kept, Claimed, JournalConstants
  <2>17. CASE RepairWrite(p)
    BY JournalConstants, TypeOK, Bracketed, Claimed, <2>17 DEF RepairWrite, Fault, Spend, store,
       process, health, TypeOK, StoreTypes, DispatchTypes, FlagTypes, HealthTypes, HistoryTypes,
       RowType, Bracketed, Engaged, Kept, Claimed, JournalConstants
  <2>18. CASE TurnFails(p)
    BY JournalConstants, TypeOK, Bracketed, Claimed, <2>18 DEF TurnFails, AtRest, NextAttempt,
       store, process, health, TypeOK, StoreTypes, DispatchTypes, FlagTypes, HealthTypes,
       HistoryTypes, RowType, Bracketed, Engaged, Kept, Claimed, JournalConstants
  <2>19. CASE Complete(p)
    BY JournalConstants, TypeOK, Bracketed, Claimed, <2>19 DEF Complete, AtRest, Fault, Spend,
       LeaveFenced, store, process, health, TypeOK, StoreTypes, DispatchTypes, FlagTypes,
       HealthTypes, HistoryTypes, RowType, Bracketed, Engaged, Kept, Claimed, JournalConstants
  <2>20. CASE Cancel(p)
    BY JournalConstants, TypeOK, Bracketed, Claimed, <2>20 DEF Cancel, store, process, health,
       TypeOK, StoreTypes, DispatchTypes, FlagTypes, HealthTypes, HistoryTypes, RowType,
       Bracketed, Engaged, Kept, Claimed, JournalConstants
  <2>21. CASE Abandon(p)
    BY JournalConstants, TypeOK, Bracketed, Claimed, <2>21 DEF Abandon, store, process, health,
       TypeOK, StoreTypes, DispatchTypes, FlagTypes, HealthTypes, HistoryTypes, RowType,
       Bracketed, Engaged, Kept, Claimed, JournalConstants
  <2>22. CASE Settle(p)
    <3>1. begun' = begun /\ rows' = rows /\ eng[p] = "settling" /\ begun
      BY <2>22, Claimed DEF Settle, store, Claimed
    <3>2. CASE owner = p /\ owner' = NoProc /\ eng' = [eng EXCEPT ![p] = "settled"]
                /\ live' = [live EXCEPT ![p] = FALSE] /\ (spent' = spent \/ Fault)
      BY <3>1, <3>2, JournalConstants, TypeOK, Claimed DEF Fault, Spend, TypeOK, StoreTypes,
         DispatchTypes, FlagTypes, HistoryTypes, Engaged, Kept, Claimed, JournalConstants
    <3>3. CASE owner # p /\ LeaveFenced(p) /\ over' = over /\ owner' = owner /\ spent' = spent
      BY <3>1, <3>3, JournalConstants, TypeOK, Claimed DEF LeaveFenced, TypeOK, StoreTypes,
         DispatchTypes, FlagTypes, HistoryTypes, Engaged, Kept, Claimed, JournalConstants
    <3> QED BY <2>22, <3>2, <3>3 DEF Settle
  <2>23. CASE Notice(p)
    BY JournalConstants, TypeOK, Bracketed, Claimed, <2>23 DEF Notice, LeaveFenced, store,
       process, health, TypeOK, StoreTypes, DispatchTypes, FlagTypes, HealthTypes, HistoryTypes,
       RowType, Bracketed, Engaged, Kept, Claimed, JournalConstants
  <2>24. CASE Depart(p)
    BY JournalConstants, TypeOK, Bracketed, Claimed, <2>24 DEF Depart, NeedsAttention, store,
       process, health, TypeOK, StoreTypes, DispatchTypes, FlagTypes, HealthTypes, HistoryTypes,
       RowType, Bracketed, Engaged, Kept, Claimed, JournalConstants
  <2>25. CASE Crash(p)
    BY JournalConstants, TypeOK, Bracketed, Claimed, <2>25 DEF Crash, Spend, store, process,
       health, TypeOK, StoreTypes, DispatchTypes, FlagTypes, HealthTypes, HistoryTypes, RowType,
       Bracketed, Engaged, Kept, Claimed, JournalConstants
  <2>26. CASE Stall(p)
    BY JournalConstants, TypeOK, Bracketed, Claimed, <2>26 DEF Stall, Spend, store, process,
       health, TypeOK, StoreTypes, DispatchTypes, FlagTypes, HealthTypes, HistoryTypes, RowType,
       Bracketed, Engaged, Kept, Claimed, JournalConstants
  <2>q. QED BY <1>1, <2>1, <2>2, <2>3, <2>4, <2>5, <2>6, <2>7, <2>8, <2>9, <2>10, <2>11,
    <2>12, <2>13, <2>14, <2>15, <2>16, <2>17, <2>18, <2>19, <2>20, <2>21, <2>22, <2>23,
    <2>24, <2>25, <2>26 DEF Dispatch, Drive
<1>2. CASE UNCHANGED vars
  BY JournalConstants, TypeOK, Bracketed, Claimed, <1>2 DEF vars, store, process, health,
     TypeOK, StoreTypes, DispatchTypes, FlagTypes, HealthTypes, HistoryTypes, RowType,
     Bracketed, Engaged, Kept, Claimed, JournalConstants
<1>q. QED BY <1>1, <1>2 DEF Next

(* Every step keeps what a driving process has checked. *)
LEMMA CheckStep ==
    ASSUME JournalConstants, TypeOK, Bracketed, Claimed, Checked, [Next]_vars
    PROVE  Checked'
<1>1. ASSUME NEW p \in Proc, Dispatch(p) \/ Drive(p) PROVE Checked'
  <2>1. ASSUME NEW e \in Effect, NEW a \in Args, PrepareProceeds(p, e, a) PROVE Checked'
    BY JournalConstants, TypeOK, Bracketed, Claimed, Checked, <2>1 DEF PrepareProceeds, MayAsk,
       AtRest, Row, store, process, health, TypeOK, StoreTypes, DispatchTypes, FlagTypes,
       HealthTypes, HistoryTypes, RowType, Bracketed, Engaged, Kept, Claimed, Blocks,
       Unresolved, Checked, NoRow, JournalConstants
  <2>2. ASSUME NEW e \in Effect, NEW a \in Args, PrepareReplays(p, e, a) PROVE Checked'
    BY JournalConstants, TypeOK, Bracketed, Claimed, Checked, <2>2 DEF PrepareReplays, MayAsk,
       AtRest, store, process, health, TypeOK, StoreTypes, DispatchTypes, FlagTypes,
       HealthTypes, HistoryTypes, RowType, Bracketed, Engaged, Kept, Claimed, Blocks,
       Unresolved, Checked, NoRow, JournalConstants
  <2>3. ASSUME NEW e \in Effect, NEW a \in Args, PrepareRefused(p, e, a) PROVE Checked'
    BY JournalConstants, TypeOK, Bracketed, Claimed, Checked, <2>3 DEF PrepareRefused, MayAsk,
       AtRest, EndTurn, store, process, health, TypeOK, StoreTypes, DispatchTypes, FlagTypes,
       HealthTypes, HistoryTypes, RowType, Bracketed, Engaged, Kept, Claimed, Blocks,
       Unresolved, Checked, NoRow, JournalConstants
  <2>4. CASE PrepareFails(p)
    BY JournalConstants, TypeOK, Bracketed, Claimed, Checked, <2>4 DEF PrepareFails, AtRest,
       NextAttempt, Fault, Spend, store, process, health, TypeOK, StoreTypes, DispatchTypes,
       FlagTypes, HealthTypes, HistoryTypes, RowType, Bracketed, Engaged, Kept, Claimed, Blocks,
       Unresolved, Checked, NoRow, JournalConstants
  <2>5. CASE Refuse(p)
    BY JournalConstants, TypeOK, Bracketed, Claimed, Checked, <2>5 DEF Refuse, EndTurn, store,
       process, health, TypeOK, StoreTypes, DispatchTypes, FlagTypes, HealthTypes, HistoryTypes,
       RowType, Bracketed, Engaged, Kept, Claimed, Blocks, Unresolved, Checked, NoRow,
       JournalConstants
  <2>6. CASE Send(p)
    BY JournalConstants, TypeOK, Bracketed, Claimed, Checked, <2>6 DEF Send, store, process,
       health, TypeOK, StoreTypes, DispatchTypes, FlagTypes, HealthTypes, HistoryTypes, RowType,
       Bracketed, Engaged, Kept, Claimed, Blocks, Unresolved, Checked, NoRow, JournalConstants
  <2>7. CASE Unavailable(p)
    <3>1. SUFFICES ASSUME Kept', NEW q \in Proc,
                          ((owner' = q /\ eng'[q] # "gating") \/ over' = q),
                          ~ aborted'[q], ~ sticky'[q],
                          NEW f \in Effect, rows'[f].state \in {"prepared", "ambiguous"}
                   PROVE  rows'[f].by = q
      BY DEF Checked, Blocks
    <3>2. rows'[f] = rows[f]
      BY <2>7, <3>1, TypeOK, Bracketed DEF Unavailable, NoRow, TypeOK, StoreTypes, Bracketed
    <3>3. Kept /\ ~ sticky[q] /\ ~ aborted[q]
      BY <2>7, <3>1, TypeOK DEF Unavailable, Fault, Spend, Kept, TypeOK, FlagTypes, HistoryTypes
    <3>4. (owner = q /\ eng[q] # "gating") \/ over = q
      BY <2>7, <3>1, TypeOK DEF Unavailable, EndTurn, TypeOK, DispatchTypes
    <3> QED BY <3>1, <3>2, <3>3, <3>4, Checked DEF Checked, Blocks
  <2>8. CASE SendFails(p)
    BY JournalConstants, TypeOK, Bracketed, Claimed, Checked, <2>8 DEF SendFails, EndTurn,
       Fault, Spend, store, process, health, TypeOK, StoreTypes, DispatchTypes, FlagTypes,
       HealthTypes, HistoryTypes, RowType, Bracketed, Engaged, Kept, Claimed, Blocks,
       Unresolved, Checked, NoRow, JournalConstants
  <2>9. CASE Answer(p)
    BY JournalConstants, TypeOK, Bracketed, Claimed, Checked, <2>9 DEF Answer, store, process,
       health, TypeOK, StoreTypes, DispatchTypes, FlagTypes, HealthTypes, HistoryTypes, RowType,
       Bracketed, Engaged, Kept, Claimed, Blocks, Unresolved, Checked, NoRow, JournalConstants
  <2>10. CASE Unrecorded(p)
    BY JournalConstants, TypeOK, Bracketed, Claimed, Checked, <2>10 DEF Unrecorded, EndTurn,
       store, process, health, TypeOK, StoreTypes, DispatchTypes, FlagTypes, HealthTypes,
       HistoryTypes, RowType, Bracketed, Engaged, Kept, Claimed, Blocks, Unresolved, Checked,
       NoRow, JournalConstants
  <2>11. CASE Commit(p)
    BY JournalConstants, TypeOK, Bracketed, Claimed, Checked, <2>11 DEF Commit, store, process,
       health, TypeOK, StoreTypes, DispatchTypes, FlagTypes, HealthTypes, HistoryTypes, RowType,
       Bracketed, Engaged, Kept, Claimed, Blocks, Unresolved, Checked, NoRow, JournalConstants
  <2>12. CASE CommitFails(p)
    BY JournalConstants, TypeOK, Bracketed, Claimed, Checked, <2>12 DEF CommitFails, EndTurn,
       Fault, Spend, store, process, health, TypeOK, StoreTypes, DispatchTypes, FlagTypes,
       HealthTypes, HistoryTypes, RowType, Bracketed, Engaged, Kept, Claimed, Blocks,
       Unresolved, Checked, NoRow, JournalConstants
  <2>13. CASE Begin(p)
    BY JournalConstants, TypeOK, Bracketed, Claimed, Checked, <2>13 DEF Begin, store, process,
       health, TypeOK, StoreTypes, DispatchTypes, FlagTypes, HealthTypes, HistoryTypes, RowType,
       Bracketed, Engaged, Kept, Claimed, Blocks, Unresolved, Checked, NoRow, JournalConstants
  <2>14. CASE Resume(p)
    BY JournalConstants, TypeOK, Bracketed, Claimed, Checked, <2>14 DEF Resume, store, process,
       health, TypeOK, StoreTypes, DispatchTypes, FlagTypes, HealthTypes, HistoryTypes, RowType,
       Bracketed, Engaged, Kept, Claimed, Blocks, Unresolved, Checked, NoRow, JournalConstants
  <2>15. CASE ReadGate(p)
    BY JournalConstants, TypeOK, Bracketed, Claimed, Checked, <2>15 DEF ReadGate, Fault, Spend,
       store, process, health, TypeOK, StoreTypes, DispatchTypes, FlagTypes, HealthTypes,
       HistoryTypes, RowType, Bracketed, Engaged, Kept, Claimed, Blocks, Unresolved, Checked,
       NoRow, JournalConstants
  <2>16. CASE RepairRead(p)
    <3>1. SUFFICES ASSUME Kept', NEW q \in Proc,
                          ((owner' = q /\ eng'[q] # "gating") \/ over' = q),
                          ~ aborted'[q], ~ sticky'[q],
                          NEW f \in Effect, rows'[f].state \in {"prepared", "ambiguous"}
                   PROVE  rows'[f].by = q
      BY DEF Checked, Blocks
    <3>2. rows' = rows /\ over' = over /\ over = NoProc /\ owner' = p
      BY <2>16 DEF RepairRead
    <3>3. q = p
      BY <3>1, <3>2, JournalConstants DEF JournalConstants
    <3>4. Unresolved # {} => sticky'[p]
      BY <2>16, TypeOK DEF RepairRead, TypeOK, FlagTypes
    <3>5. Unresolved = {}
      BY <3>1, <3>3, <3>4
    <3> QED BY <3>1, <3>2, <3>5 DEF Unresolved, Blocks
  <2>17. CASE RepairWrite(p)
    BY JournalConstants, TypeOK, Bracketed, Claimed, Checked, <2>17 DEF RepairWrite, Fault,
       Spend, store, process, health, TypeOK, StoreTypes, DispatchTypes, FlagTypes, HealthTypes,
       HistoryTypes, RowType, Bracketed, Engaged, Kept, Claimed, Blocks, Unresolved, Checked,
       NoRow, JournalConstants
  <2>18. CASE TurnFails(p)
    BY JournalConstants, TypeOK, Bracketed, Claimed, Checked, <2>18 DEF TurnFails, AtRest,
       NextAttempt, store, process, health, TypeOK, StoreTypes, DispatchTypes, FlagTypes,
       HealthTypes, HistoryTypes, RowType, Bracketed, Engaged, Kept, Claimed, Blocks,
       Unresolved, Checked, NoRow, JournalConstants
  <2>19. CASE Complete(p)
    BY JournalConstants, TypeOK, Bracketed, Claimed, Checked, <2>19 DEF Complete, AtRest, Fault,
       Spend, LeaveFenced, store, process, health, TypeOK, StoreTypes, DispatchTypes, FlagTypes,
       HealthTypes, HistoryTypes, RowType, Bracketed, Engaged, Kept, Claimed, Blocks,
       Unresolved, Checked, NoRow, JournalConstants
  <2>20. CASE Cancel(p)
    BY JournalConstants, TypeOK, Bracketed, Claimed, Checked, <2>20 DEF Cancel, store, process,
       health, TypeOK, StoreTypes, DispatchTypes, FlagTypes, HealthTypes, HistoryTypes, RowType,
       Bracketed, Engaged, Kept, Claimed, Blocks, Unresolved, Checked, NoRow, JournalConstants
  <2>21. CASE Abandon(p)
    BY JournalConstants, TypeOK, Bracketed, Claimed, Checked, <2>21 DEF Abandon, store, process,
       health, TypeOK, StoreTypes, DispatchTypes, FlagTypes, HealthTypes, HistoryTypes, RowType,
       Bracketed, Engaged, Kept, Claimed, Blocks, Unresolved, Checked, NoRow, JournalConstants
  <2>22. CASE Settle(p)
    BY JournalConstants, TypeOK, Bracketed, Claimed, Checked, <2>22 DEF Settle, Fault, Spend,
       LeaveFenced, store, process, health, TypeOK, StoreTypes, DispatchTypes, FlagTypes,
       HealthTypes, HistoryTypes, RowType, Bracketed, Engaged, Kept, Claimed, Blocks,
       Unresolved, Checked, NoRow, JournalConstants
  <2>23. CASE Notice(p)
    BY JournalConstants, TypeOK, Bracketed, Claimed, Checked, <2>23 DEF Notice, LeaveFenced,
       store, process, health, TypeOK, StoreTypes, DispatchTypes, FlagTypes, HealthTypes,
       HistoryTypes, RowType, Bracketed, Engaged, Kept, Claimed, Blocks, Unresolved, Checked,
       NoRow, JournalConstants
  <2>24. CASE Depart(p)
    <3>1. SUFFICES ASSUME Kept', NEW q \in Proc,
                          ((owner' = q /\ eng'[q] # "gating") \/ over' = q),
                          ~ aborted'[q], ~ sticky'[q],
                          NEW f \in Effect, rows'[f].state \in {"prepared", "ambiguous"}
                   PROVE  rows'[f].by = q
      BY DEF Checked, Blocks
    <3>2. rows'[f] = rows[f]
      BY <2>24, <3>1, TypeOK DEF Depart, NoRow, TypeOK, StoreTypes
    <3>3. Kept /\ ~ sticky[q] /\ ~ aborted[q]
      BY <2>24, <3>1 DEF Depart, Kept
    <3>4. (owner = q /\ eng[q] # "gating") \/ over = q
      BY <2>24, <3>1, TypeOK, Claimed DEF Depart, TypeOK, DispatchTypes, Engaged, Claimed
    <3> QED BY <3>1, <3>2, <3>3, <3>4, Checked DEF Checked, Blocks
  <2>25. CASE Crash(p)
    BY JournalConstants, TypeOK, Bracketed, Claimed, Checked, <2>25 DEF Crash, Spend, store,
       process, health, TypeOK, StoreTypes, DispatchTypes, FlagTypes, HealthTypes, HistoryTypes,
       RowType, Bracketed, Engaged, Kept, Claimed, Blocks, Unresolved, Checked, NoRow,
       JournalConstants
  <2>26. CASE Stall(p)
    BY JournalConstants, TypeOK, Bracketed, Claimed, Checked, <2>26 DEF Stall, Spend, store,
       process, health, TypeOK, StoreTypes, DispatchTypes, FlagTypes, HealthTypes, HistoryTypes,
       RowType, Bracketed, Engaged, Kept, Claimed, Blocks, Unresolved, Checked, NoRow,
       JournalConstants
  <2>q. QED BY <1>1, <2>1, <2>2, <2>3, <2>4, <2>5, <2>6, <2>7, <2>8, <2>9, <2>10, <2>11,
    <2>12, <2>13, <2>14, <2>15, <2>16, <2>17, <2>18, <2>19, <2>20, <2>21, <2>22, <2>23,
    <2>24, <2>25, <2>26 DEF Dispatch, Drive
<1>2. CASE UNCHANGED vars
  BY JournalConstants, TypeOK, Bracketed, Claimed, Checked, <1>2 DEF vars, store, process,
     health, TypeOK, StoreTypes, DispatchTypes, FlagTypes, HealthTypes, HistoryTypes, RowType,
     Bracketed, Engaged, Kept, Claimed, Blocks, Unresolved, Checked, NoRow, JournalConstants
<1>q. QED BY <1>1, <1>2 DEF Next

-----------------------------------------------------------------------------
(* The invariant and what follows from it. *)

(* No process has dispatched anything when the run is created. *)
LEMMA JournalStart ==
    ASSUME JournalConstants, Init
    PROVE  JournalInv
<1>1. StoreTypes
  BY JournalConstants DEF Init, JournalConstants, NoRow, StoreTypes, RowType
<1>2. DispatchTypes
  BY JournalConstants DEF Init, JournalConstants, NoCall, DispatchTypes
<1>3. FlagTypes /\ HealthTypes /\ HistoryTypes
  BY DEF Init, FlagTypes, HealthTypes, HistoryTypes
<1>4. Bracketed
  BY DEF Init, Bracketed
<1>5. Recorded
  BY DEF Init, Recorded
<1>6. Owed
  BY JournalConstants DEF Init, JournalConstants, NoRow, Owed
<1>7. Reported
  BY DEF Init, Reported
<1>8. Claimed
  BY DEF Init, NoRow, Claimed, Engaged
<1>9. Checked
  BY DEF Init, NoRow, Blocks, Checked
<1>q. QED BY <1>1, <1>2, <1>3, <1>4, <1>5, <1>6, <1>7, <1>8, <1>9 DEF JournalInv, TypeOK

(* The inductive invariant holds in every reachable state: a dispatch under way
   holds its prepared row, what left has a row, and what is not committed is
   pending or flagged with the process that prepared it; and, as long as leases
   are kept, one process drives, which has checked what others left (registry.ts,
   effect-journal-store.ts, effect-receipt-health.ts, engine.ts). *)
THEOREM JournalInvariant == Spec => []JournalInv
<1>1. Init => JournalInv
  BY JournalConstants, JournalStart
<1>2. JournalInv /\ [Next]_vars => JournalInv'
  <2> SUFFICES ASSUME JournalInv, [Next]_vars PROVE JournalInv'
    OBVIOUS
  <2>1. TypeOK'
    BY JournalConstants, TypeStep DEF JournalInv
  <2>2. Bracketed'
    BY JournalConstants, BracketStep DEF JournalInv
  <2>3. Recorded'
    BY JournalConstants, RecordStep DEF JournalInv
  <2>4. Owed'
    BY JournalConstants, OwedStep DEF JournalInv
  <2>5. Reported'
    BY JournalConstants, ReportStep DEF JournalInv
  <2>6. Claimed'
    BY JournalConstants, ClaimStep DEF JournalInv
  <2>7. Checked'
    BY JournalConstants, CheckStep DEF JournalInv
  <2>q. QED BY <2>1, <2>2, <2>3, <2>4, <2>5, <2>6, <2>7 DEF JournalInv
<1>q. QED BY <1>1, <1>2, PTL DEF Spec

(* The journal, the dispatches and the health of the receipts keep their types;
   a node never outruns its retry budget (engine.ts, attempt loop). *)
THEOREM JournalTypes == Spec => []TypeOK
<1>1. JournalInv => TypeOK
  BY DEF JournalInv
<1>q. QED BY <1>1, JournalInvariant, PTL

(* However many processes retry, resume, stall or crash, an effect whose row
   was not swept leaves at most once (prepare and settle in registry.ts). *)
THEOREM SentOnce == Spec => []SentOnceWhileRecorded
<1>1. JournalInv => SentOnceWhileRecorded
  BY DEF JournalInv, Recorded, SentOnceWhileRecorded
<1>q. QED BY <1>1, JournalInvariant, PTL

(* A process that reports a clean departure leaves no row of its own that is
   prepared or ambiguous (needsAttention of EffectReceiptHealth). *)
THEOREM HonestDeparture == Spec => []HonestReport
<1>1. JournalInv => HonestReport
  <2> SUFFICES ASSUME JournalInv, NEW p \in Proc, report[p] = "clean",
                      NEW e \in Effect, rows[e].by = p
               PROVE  rows[e].state = "committed"
    BY DEF HonestReport
  <2>1. ~ sticky[p] /\ pending[p] = {}
    BY DEF JournalInv, Reported
  <2>2. rows[e].state # "committed" => e \in pending[p] \/ sticky[p]
    BY DEF JournalInv, Owed
  <2>q. QED BY <2>1, <2>2
<1>q. QED BY <1>1, JournalInvariant, PTL

(* If leases are kept, the process that closes a run that was not cancelled and
   reports a clean departure leaves no unresolved row of any process: not of a
   leg that died, nor of a dispatch that was given up (#effectResumeGateOrFail
   and #reconciledFailure in engine.ts). *)
THEOREM CleanClosure == Spec => []CleanMeansResolved
<1>1. JournalInv => CleanMeansResolved
  <2> SUFFICES ASSUME JournalInv, NEW p \in Proc, spent.stalls = 0, over = p,
                      ~ aborted[p], report[p] = "clean", NEW e \in Effect, Blocks(e)
               PROVE  FALSE
    BY DEF CleanMeansResolved, Unresolved
  <2>1. ~ sticky[p] /\ pending[p] = {}
    BY DEF JournalInv, Reported
  <2>2. rows[e].by = p
    BY <2>1 DEF JournalInv, Checked, Kept
  <2>3. rows[e].state # "committed"
    BY DEF Blocks
  <2>q. QED BY <2>1, <2>2, <2>3 DEF JournalInv, Owed
<1>q. QED BY <1>1, JournalInvariant, PTL

(* If leases are kept, nothing leaves once the run has its terminal: a dispatch
   that still waits for the journal was given up by then, and looks again
   (#fenceEffects in engine.ts). *)
THEOREM SilentAfterTheEnd == Spec => NothingLeavesAfterTheEnd
<1>1. JournalInv /\ [Next]_vars =>
        [spent.stalls = 0 /\ over # NoProc => left' = left]_vars
  <2> SUFFICES ASSUME JournalInv, Next, spent.stalls = 0, over # NoProc
               PROVE  left' = left
    OBVIOUS
  <2>1. ASSUME NEW p \in Proc, Send(p) PROVE FALSE
    <3>1. exec[p] # "idle" /\ live[p]
      BY <2>1 DEF Send, StillAwaited
    <3>2. eng[p] \in {"running", "settling"}
      BY <3>1 DEF JournalInv, TypeOK, DispatchTypes, Bracketed, Claimed
    <3>3. owner = p
      BY <3>2 DEF JournalInv, Claimed, Kept, Engaged
    <3>q. QED BY <3>3, JournalConstants DEF JournalInv, Claimed, JournalConstants
  <2>2. PICK p \in Proc : Dispatch(p) \/ Drive(p)
    BY DEF Next
  <2>3. CASE Dispatch(p)
    BY <2>1, <2>3 DEF Dispatch, PrepareProceeds, PrepareReplays, PrepareRefused,
       PrepareFails, Refuse, Unavailable, SendFails, Answer, Unrecorded, Commit, CommitFails
  <2>4. CASE Drive(p)
    BY <2>4 DEF Drive, Begin, Resume, ReadGate, RepairRead, RepairWrite, TurnFails, Complete,
       Cancel, Abandon, Settle, Notice, Depart, Crash, Stall
  <2>q. QED BY <2>2, <2>3, <2>4
<1>q. QED BY <1>1, JournalInvariant, PTL DEF Spec, NothingLeavesAfterTheEnd

=============================================================================

------------------------ MODULE RunCheckpointProofs ------------------------
(***************************************************************************)
(* The deadline of an open gate outlives the process that armed it; the log *)
(* can always be read back; a process agrees with the log it would be made  *)
(* from; a rejection of money ends the run. For every plan, every retry     *)
(* budget and every number of deaths.                                       *)
(***************************************************************************)
EXTENDS RunCheckpoint, FiniteSetTheorems, TLAPS

-----------------------------------------------------------------------------
(* The fold of the gates and of the jobs.                                    *)

(* A fold of the gates and jobs has its fields, and one place for the job of
   each vertex. *)
IsSuspension(s) ==
    /\ s = [k \in {"gates", "media", "terminalNodes", "terminalRun", "corrupt"} |-> s[k]]
    /\ s.media = [n \in Node |-> s.media[n]]

(* From s to t no vertex but n has got a job. *)
JobsOnly(s, t, n) ==
    IsSuspension(t) /\ \A m \in Node \ {n} : t.media[m] \in {s.media[m], NoJob}

(* No operation of the fold but the one for a submission gives a vertex a job:
   recording a gate does not. *)
LEMMA PutJobs ==
    ASSUME NEW s, IsSuspension(s), NEW g, NEW h, NEW n
    PROVE  JobsOnly(s, PutGate(s, g, h), n)
BY DEF IsSuspension, JobsOnly, PutGate

(* A history that is refused moves no job. *)
LEMMA CorruptJobs ==
    ASSUME NEW s, IsSuspension(s), NEW n, NEW m
    PROVE  JobsOnly(s, Corrupt(s, m).state, n)
BY DEF IsSuspension, JobsOnly, Corrupt, Unmoved, Moved

(* A vertex that is over has no job any more, and no other vertex gets one. *)
LEMMA RetireJobs ==
    ASSUME NEW s, IsSuspension(s), NEW n, NEW m
    PROVE  JobsOnly(s, RetireNode(s, m), n)
<1> DEFINE r == RetireNode(s, m)
<1>1. r.media = [s.media EXCEPT ![m] = NoJob]
  BY DEF IsSuspension, RetireNode
<1>2. r = [k \in {"gates", "media", "terminalNodes", "terminalRun", "corrupt"} |-> r[k]]
  BY DEF IsSuspension, RetireNode
<1> HIDE DEF r
<1>3. JobsOnly(s, r, n)
  BY <1>1, <1>2 DEF IsSuspension, JobsOnly
<1> QED BY <1>3 DEF r

(* Nor does an event that moves nothing. *)
LEMMA StayJobs ==
    ASSUME NEW s, IsSuspension(s), NEW n
    PROVE  JobsOnly(s, s, n)
BY DEF IsSuspension, JobsOnly

(* Two operations in a row give only what one of them gives. *)
LEMMA ChainJobs ==
    ASSUME NEW s, NEW t, NEW u, NEW n, JobsOnly(s, t, n), JobsOnly(t, u, n)
    PROVE  JobsOnly(s, u, n)
BY DEF JobsOnly

(* Opening a gate gives no job (#authority and #pause). *)
LEMMA PausingJobs ==
    ASSUME NEW s, IsSuspension(s), NEW g, NEW h, NEW m, NEW n
    PROVE  JobsOnly(s, Pausing(s, g, h, m).state, n)
BY PutJobs DEF Pausing, Moved, Unmoved

(* No event about a gate gives a vertex a job (#authority, #pause, #resume). *)
LEMMA AuthorityJobs ==
    ASSUME NEW s, IsSuspension(s), NEW e, NEW n
    PROVE  /\ JobsOnly(s, AuthorityPaused(s, e).state, n)
           /\ JobsOnly(s, AuthorityDecided(s, e).state, n)
           /\ JobsOnly(s, PauseAnnounced(s, e).state, n)
           /\ JobsOnly(s, GateAnswered(s, e).state, n)
<1>1. JobsOnly(s, AuthorityPaused(s, e).state, n)
  BY PausingJobs, CorruptJobs, StayJobs DEF AuthorityPaused, Unmoved, Moved
<1>2. JobsOnly(s, AuthorityDecided(s, e).state, n)
  <2> DEFINE t == PutGate(s, e.gate, [Quoted(FoundGate(s, e), e) EXCEPT
                    !.budget = TRUE, !.active = FALSE, !.authorityDecision = e.decision])
             u == IF e.decision = "rejected" THEN RetireNode(t, e.node) ELSE t
  <2>1. JobsOnly(s, t, n)
    BY PutJobs
  <2>2. JobsOnly(t, RetireNode(t, e.node), n)
    BY <2>1, RetireJobs DEF JobsOnly
  <2>3. JobsOnly(s, u, n)
    <3> HIDE DEF t
    <3> QED BY <2>1, <2>2, ChainJobs
  <2>4. AuthorityDecided(s, e).state \in {Corrupt(s, e.node).state, u, s}
    BY DEF AuthorityDecided, Moved, Unmoved
  <2> HIDE DEF u
  <2> QED BY <2>3, <2>4, CorruptJobs, StayJobs
<1>3. JobsOnly(s, PauseAnnounced(s, e).state, n)
  BY PausingJobs, CorruptJobs DEF PauseAnnounced
<1>4. JobsOnly(s, GateAnswered(s, e).state, n)
  <2>1. PICK t : /\ \E g, h : t = PutGate(s, g, h)
                 /\ GateAnswered(s, e).state \in {Corrupt(s, e.node).state, t, RetireNode(t, e.node)}
    <3> DEFINE g == CHOOSE i \in AnsweredGate(s, e) : TRUE
               t == PutGate(s, g, [Quoted(s.gates[g], e) EXCEPT !.humanDecision = e.decision, !.active = FALSE])
    <3>1. GateAnswered(s, e).state \in {Corrupt(s, e.node).state, t, RetireNode(t, e.node)}
      BY DEF GateAnswered, Moved, Unmoved
    <3> QED BY <3>1
  <2>2. JobsOnly(s, t, n)
    BY <2>1, PutJobs
  <2>3. JobsOnly(t, RetireNode(t, e.node), n)
    BY <2>2, RetireJobs DEF JobsOnly
  <2> QED BY <2>1, <2>2, <2>3, CorruptJobs, ChainJobs
<1> QED BY <1>1, <1>2, <1>3, <1>4

(* An event gives a job to its own vertex at most, and only a submission does (apply
   of RunSuspensionReducer). *)
LEMMA SuspensionJobs ==
    ASSUME NEW s, IsSuspension(s), NEW e
    PROVE  /\ JobsOnly(s, ApplySuspension(s, e).state, e.node)
           /\ e.type # "media_job:submitted" => \A n : JobsOnly(s, ApplySuspension(s, e).state, n)
<1>1. CASE e.type = "media_job:submitted"
  <2>1. ApplySuspension(s, e).state \in {s, [s EXCEPT !.media[e.node] = e.job]}
    BY <1>1 DEF ApplySuspension, Unmoved, Moved, NodeTerminals, RunTerminals
  <2>2. JobsOnly(s, [s EXCEPT !.media[e.node] = e.job], e.node)
    BY DEF JobsOnly, IsSuspension
  <2> QED BY <1>1, <2>1, <2>2, StayJobs
<1>2. ASSUME e.type # "media_job:submitted", NEW n
      PROVE  JobsOnly(s, ApplySuspension(s, e).state, n)
  <2>1. JobsOnly(s, [s EXCEPT !.terminalRun = TRUE], n)
    BY DEF IsSuspension, JobsOnly
  <2>2. ApplySuspension(s, e).state \in
            {AuthorityPaused(s, e).state, AuthorityDecided(s, e).state, PauseAnnounced(s, e).state,
             GateAnswered(s, e).state, RetireNode(s, e.node), [s EXCEPT !.terminalRun = TRUE], s}
    BY <1>2 DEF ApplySuspension, Unmoved, Moved
  <2>3. \A t \in {AuthorityPaused(s, e).state, AuthorityDecided(s, e).state, PauseAnnounced(s, e).state,
                  GateAnswered(s, e).state} : JobsOnly(s, t, n)
    BY AuthorityJobs
  <2>4. JobsOnly(s, RetireNode(s, e.node), n) /\ JobsOnly(s, s, n)
    BY RetireJobs, StayJobs
  <2> QED BY ONLY <2>1, <2>2, <2>3, <2>4
<1> QED BY <1>1, <1>2

-----------------------------------------------------------------------------
(* The inductive invariant.                                                  *)

RunStates  == {"running", "paused", "completed", "failed", "cancelled"}
NodeStates == {"none", "paused", "completed", "failed", "skipped"}

(* The fold keeps its fields. *)
IsRecord(r) ==
    /\ r = [k \in {"run", "node", "selected", "dispatches", "suspensions", "lives"} |-> r[k]]
    /\ r.run \in RunStates /\ r.node \in [Node -> NodeStates] /\ r.dispatches \in Nat
    /\ IsSuspension(r.suspensions)

Types == TypeOK /\ IsRecord(rec)

(* Only agents leave jobs behind: no gate has one, has one on record, or has
   one on its way into the log. *)
JobFree(e) == e.type = "media_job:submitted" => e.node \notin Gates

TailFree == \E S : tail \in Seq(S) /\ \A e \in S : JobFree(e)

JobsElsewhere ==
    /\ jobs = [n \in Node |-> jobs[n]]
    /\ \A n \in Gates : jobs[n] = NoJob /\ rec.suspensions.media[n] = NoJob

(* A vertex whose pause is being announced is not up for another start. *)
PublishingWaits == \A n \in Node : Publishing(n) => status[n] # "pending"

(* While a checkpoint waits for its decision, its gates have their own names
   and the decision has its gate. *)
PassiveLeg ==
    leg = "passive" =>
        /\ \A p, q \in pendingGates : p.gate = q.gate => p = q
        /\ \A n \in Node : decision[n] # "none" => \E p \in pendingGates : p.node = n

CheckpointInv == Types /\ TailFree /\ JobsElsewhere /\ PublishingWaits /\ PassiveLeg /\ DeadlinesKept

-----------------------------------------------------------------------------
(* One event keeps the fold whole, and gives no vertex a job but by its own
   submission. *)
LEMMA EventFold ==
    ASSUME NEW r, IsRecord(r), NEW e
    PROVE  /\ IsRecord(ApplyEvent(r, e))
           /\ \A n \in Node :
                ApplyEvent(r, e).suspensions.media[n] \notin {r.suspensions.media[n], NoJob}
                    => e.type = "media_job:submitted" /\ n = e.node
<1> DEFINE a == ApplyRunEvent(r, e)
           b == ApplyNodeEvent(a, e)
           q == ApplyMediaJobEvent(b, e)
           s == ApplySuspension(r.suspensions, e)
           L == [n \in Node |-> IF n = e.node THEN ApplyLife(q.lives[n], e, s.kind, q.dispatches)
                                ELSE q.lives[n]]
           t == [q EXCEPT !.suspensions = s.state, !.lives = L]
<1>1. IsRecord(a) /\ a.suspensions = r.suspensions
  BY DEF ApplyRunEvent, IsRecord, RunStates
<1>2. IsRecord(b) /\ b.suspensions = r.suspensions
  <2> HIDE DEF a
  <2>1. CASE e.type = "node:completed"
    <3>1. b = [a EXCEPT !.node[e.node] = "completed", !.selected[e.node] = e.selected]
      BY <2>1 DEF ApplyNodeEvent
    <3>2. b.node = [a.node EXCEPT ![e.node] = "completed"] /\ b.run = a.run
          /\ b.dispatches = a.dispatches /\ b.suspensions = a.suspensions
      BY <1>1, <3>1 DEF IsRecord
    <3>3. b = [k \in {"run", "node", "selected", "dispatches", "suspensions", "lives"} |-> b[k]]
      BY <1>1, <3>1 DEF IsRecord
    <3> HIDE DEF b
    <3> QED BY <1>1, <3>2, <3>3 DEF IsRecord, NodeStates
  <2>2. CASE e.type = "node:started"
    <3>1. b = [a EXCEPT !.dispatches = a.dispatches + 1]
      BY <2>2 DEF ApplyNodeEvent
    <3> QED BY <1>1, <3>1 DEF IsRecord
  <2>3. ASSUME NEW x \in NodeStates, b = [a EXCEPT !.node[e.node] = x]
        PROVE  IsRecord(b) /\ b.suspensions = r.suspensions
    BY <1>1, <2>3 DEF IsRecord
  <2>4. CASE e.type \notin {"node:completed", "node:started"}
    <3>1. b = a \/ \E x \in NodeStates : b = [a EXCEPT !.node[e.node] = x]
      BY <2>4 DEF ApplyNodeEvent, NodeStates
    <3> QED BY <1>1, <2>3, <3>1
  <2> QED BY <2>1, <2>2, <2>4
<1>3. IsRecord(q)
  <2> HIDE DEF b
  <2> QED BY <1>2 DEF ApplyMediaJobEvent, IsRecord, NodeStates
<1>4. IsSuspension(s.state)
  BY SuspensionJobs DEF IsRecord, JobsOnly
<1>5. IsRecord(t) /\ t.suspensions = s.state
  <2> HIDE DEF q, s, L
  <2>1. t.suspensions = s.state /\ t.run = q.run /\ t.node = q.node /\ t.dispatches = q.dispatches
    BY <1>3 DEF IsRecord
  <2>2. t = [k \in {"run", "node", "selected", "dispatches", "suspensions", "lives"} |-> t[k]]
    BY <1>3 DEF IsRecord
  <2> HIDE DEF t
  <2> QED BY <1>3, <1>4, <2>1, <2>2 DEF IsRecord
<1>6. ApplyEvent(r, e) = IF r.suspensions.corrupt THEN r ELSE ApplyGateEvent(t, s.kind, s.node)
  BY DEF ApplyEvent
<1>7. IsRecord(ApplyGateEvent(t, s.kind, s.node))
      /\ ApplyGateEvent(t, s.kind, s.node).suspensions = s.state
  <2> HIDE DEF t, s
  <2> QED BY <1>5 DEF ApplyGateEvent, IsRecord, NodeStates
<1>8. \A n \in Node : s.state.media[n] \notin {r.suspensions.media[n], NoJob}
                        => e.type = "media_job:submitted" /\ n = e.node
  BY ZenonT(30), SuspensionJobs DEF IsRecord, JobsOnly
<1> HIDE DEF t, s
<1> QED BY <1>6, <1>7, <1>8

(* Only an append changes the fold, and it keeps it whole. *)
LEMMA RecordStep ==
    ASSUME IsRecord(rec), [Next]_vars
    PROVE  IsRecord(rec')
<1>1. rec' = rec \/ \E e : rec' = ApplyEvent(rec, e)
  <2>1. CASE AppendEvent
    BY <2>1 DEF AppendEvent
  <2>2. CASE Reconcile
    BY <2>2 DEF Reconcile
  <2>3. CASE ~ AppendEvent /\ ~ Reconcile
    BY ZenonT(30), <2>3 DEF Next, Execute, Skip, Claim, Enter, Complete, AttemptFails, Redispatch, NodeDeadline,
       PauseAtGate, PauseForBudget, Opens, Publish, Announced, Park, MediaDone, MediaPinned, MediaFails,
       Decide, ClaimHuman, GateTimeout, ClaimBudget, HumanDecided, PinFails, BudgetRecorded,
       BudgetApplied, Cancel, CeilingReached, PauseRun, Stall, Settle, Crash, Resume, Seeded,
       ResumeHuman, ResumeBudget, ResumeAnswered, ResumeMedia, ResumeEnds, ResumeOverdue, Done, vars
  <2> QED BY <2>1, <2>2, <2>3
<1> QED BY <1>1, EventFold

(* Types are kept by every step. *)
LEMMA TypeStep ==
    ASSUME CheckpointConstants, Types, [Next]_vars
    PROVE  TypeOK'
<1>1. ASSUME NEW n \in Node, Execute(n) PROVE TypeOK'
  <2>1. CASE Skip(n)
    BY <2>1, CheckpointConstants, Types, RecordStep DEF Skip, vars, counted, waiting, fate,
       Types, IsRecord, RunStates, NodeStates, TypeOK, Steps, Settled, CheckpointConstants
  <2>2. CASE Claim(n)
    BY <2>2, CheckpointConstants, Types, RecordStep DEF Claim, Dispatch, vars, counted, waiting,
       fate, Types, IsRecord, RunStates, NodeStates, TypeOK, Steps, Settled, CheckpointConstants
  <2>3. CASE Enter(n)
    BY <2>3, CheckpointConstants, Types, RecordStep DEF Enter, SettleFailed, vars, counted,
       waiting, fate, Types, IsRecord, RunStates, NodeStates, TypeOK, Steps, Settled,
       CheckpointConstants
  <2>4. CASE Complete(n)
    BY <2>4, CheckpointConstants, Types, RecordStep DEF Complete, vars, counted, waiting, fate,
       Types, IsRecord, RunStates, NodeStates, TypeOK, Steps, Settled, CheckpointConstants
  <2>5. CASE AttemptFails(n)
    BY <2>5, CheckpointConstants, Types, RecordStep DEF AttemptFails, SettleFailed, vars,
       counted, waiting, fate, Types, IsRecord, RunStates, NodeStates, TypeOK, Steps, Settled,
       CheckpointConstants
  <2>6. CASE Redispatch(n)
    BY <2>6, CheckpointConstants, Types, RecordStep DEF Redispatch, SettleFailed, Dispatch,
       vars, counted, waiting, fate, Types, IsRecord, RunStates, NodeStates, TypeOK, Steps,
       Settled, CheckpointConstants
  <2>7. CASE NodeDeadline(n)
    BY <2>7, CheckpointConstants, Types, RecordStep DEF NodeDeadline, SettleFailed, vars,
       counted, waiting, fate, Types, IsRecord, RunStates, NodeStates, TypeOK, Steps, Settled,
       CheckpointConstants
  <2>8. CASE PauseAtGate(n)
    BY <2>8, CheckpointConstants, Types, RecordStep DEF PauseAtGate, Opens, vars, counted,
       waiting, fate, Types, IsRecord, RunStates, NodeStates, TypeOK, Steps, Settled,
       CheckpointConstants
  <2>9. CASE PauseForBudget(n)
    BY <2>9, CheckpointConstants, Types, RecordStep DEF PauseForBudget, Opens, vars, counted,
       waiting, fate, Types, IsRecord, RunStates, NodeStates, TypeOK, Steps, Settled,
       CheckpointConstants
  <2>10. CASE Publish(n)
    BY <2>10, CheckpointConstants, Types, RecordStep DEF Publish, vars, counted, waiting, fate,
       Types, IsRecord, RunStates, NodeStates, TypeOK, Steps, Settled, CheckpointConstants
  <2>11. CASE Announced(n)
    BY <2>11, CheckpointConstants, Types, RecordStep DEF Announced, vars, counted, waiting,
       fate, Types, IsRecord, RunStates, NodeStates, TypeOK, Steps, Settled, CheckpointConstants
  <2>12. CASE Park(n)
    BY <2>12, CheckpointConstants, Types, RecordStep DEF Park, vars, counted, waiting, fate,
       Types, IsRecord, RunStates, NodeStates, TypeOK, Steps, Settled, CheckpointConstants
  <2>13. CASE MediaDone(n)
    BY <2>13, CheckpointConstants, Types, RecordStep DEF MediaDone, ClearMediaJob, vars,
       counted, waiting, fate, Types, IsRecord, RunStates, NodeStates, TypeOK, Steps, Settled,
       CheckpointConstants
  <2>14. CASE MediaPinned(n)
    BY <2>14, CheckpointConstants, Types, RecordStep DEF MediaPinned, SettleFailed, vars,
       counted, waiting, fate, Types, IsRecord, RunStates, NodeStates, TypeOK, Steps, Settled,
       CheckpointConstants
  <2>15. CASE MediaFails(n)
    BY <2>15, CheckpointConstants, Types, RecordStep DEF MediaFails, ClearMediaJob,
       SettleFailed, vars, counted, waiting, fate, Types, IsRecord, RunStates, NodeStates,
       TypeOK, Steps, Settled, CheckpointConstants
  <2> QED BY <1>1, <2>1, <2>2, <2>3, <2>4, <2>5, <2>6, <2>7, <2>8, <2>9, <2>10, <2>11,
    <2>12, <2>13, <2>14, <2>15 DEF Execute
<1>2. CASE Decide
  <2>1. ASSUME NEW p \in pendingGates, ClaimHuman(p) PROVE TypeOK'
    BY <2>1, CheckpointConstants, Types, RecordStep DEF ClaimHuman, vars, counted, waiting,
       fate, Types, IsRecord, RunStates, NodeStates, TypeOK, Steps, Settled, CheckpointConstants
  <2>2. ASSUME NEW p \in pendingGates, GateTimeout(p) PROVE TypeOK'
    BY <2>2, CheckpointConstants, Types, RecordStep DEF GateTimeout, SettleFailed, vars,
       counted, waiting, fate, Types, IsRecord, RunStates, NodeStates, TypeOK, Steps, Settled,
       CheckpointConstants
  <2>3. ASSUME NEW p \in pendingGates, NEW d \in {"approved", "rejected"}, ClaimBudget(p, d) PROVE TypeOK'
    BY <2>3, CheckpointConstants, Types, RecordStep DEF ClaimBudget, Deciding, vars, counted,
       waiting, fate, Types, IsRecord, RunStates, NodeStates, TypeOK, Steps, Settled,
       CheckpointConstants
  <2>4. ASSUME NEW n \in Node, HumanDecided(n) PROVE TypeOK'
    BY <2>4, CheckpointConstants, Types, RecordStep DEF HumanDecided, vars, counted, waiting,
       fate, Types, IsRecord, RunStates, NodeStates, TypeOK, Steps, Settled, CheckpointConstants
  <2>5. ASSUME NEW n \in Node, PinFails(n) PROVE TypeOK'
    BY <2>5, CheckpointConstants, Types, RecordStep DEF PinFails, vars, counted, waiting, fate,
       Types, IsRecord, RunStates, NodeStates, TypeOK, Steps, Settled, CheckpointConstants
  <2>6. ASSUME NEW n \in Node, BudgetRecorded(n) PROVE TypeOK'
    BY <2>6, CheckpointConstants, Types, RecordStep DEF BudgetRecorded, DecisionOver, Verdict,
       vars, counted, waiting, fate, Types, IsRecord, RunStates, NodeStates, TypeOK, Steps,
       Settled, CheckpointConstants
  <2>7. ASSUME NEW n \in Node, BudgetApplied(n) PROVE TypeOK'
    BY <2>7, CheckpointConstants, Types, RecordStep DEF BudgetApplied, DecisionOver, Verdict,
       vars, counted, waiting, fate, Types, IsRecord, RunStates, NodeStates, TypeOK, Steps,
       Settled, CheckpointConstants
  <2> QED BY <1>2, <2>1, <2>2, <2>3, <2>4, <2>5, <2>6, <2>7 DEF Decide
<1>3. CASE Cancel
  BY <1>3, CheckpointConstants, Types, RecordStep DEF Cancel, vars, counted, waiting, fate,
     Types, IsRecord, RunStates, NodeStates, TypeOK, Steps, Settled, CheckpointConstants
<1>4. CASE CeilingReached
  BY <1>4, CheckpointConstants, Types, RecordStep DEF CeilingReached, vars, counted, waiting,
     fate, Types, IsRecord, RunStates, NodeStates, TypeOK, Steps, Settled, CheckpointConstants
<1>5. CASE PauseRun
  BY <1>5, CheckpointConstants, Types, RecordStep DEF PauseRun, vars, counted, waiting, fate,
     Types, IsRecord, RunStates, NodeStates, TypeOK, Steps, Settled, CheckpointConstants
<1>6. CASE Stall
  BY <1>6, CheckpointConstants, Types, RecordStep DEF Stall, vars, counted, waiting, fate,
     Types, IsRecord, RunStates, NodeStates, TypeOK, Steps, Settled, CheckpointConstants
<1>7. CASE Settle
  BY <1>7, CheckpointConstants, Types, RecordStep DEF Settle, vars, counted, waiting, fate,
     Types, IsRecord, RunStates, NodeStates, TypeOK, Steps, Settled, CheckpointConstants
<1>8. CASE AppendEvent
  BY <1>8, CheckpointConstants, Types, RecordStep DEF AppendEvent, vars, counted, waiting, fate,
     Types, IsRecord, RunStates, NodeStates, TypeOK, Steps, Settled, CheckpointConstants
<1>9. CASE Crash
  BY <1>9, CheckpointConstants, Types, RecordStep DEF Crash, BlankLeg, vars, counted, waiting,
     fate, Types, IsRecord, RunStates, NodeStates, TypeOK, Steps, Settled, CheckpointConstants
<1>10. CASE Reconcile
  BY <1>10, CheckpointConstants, Types, RecordStep DEF Reconcile, vars, counted, waiting, fate,
     Types, IsRecord, RunStates, NodeStates, TypeOK, Steps, Settled, CheckpointConstants
<1>11. CASE Resume
  <2>1. ASSUME NEW q \in Waiting, ResumeHuman(q) PROVE TypeOK'
    BY <2>1, CheckpointConstants, Types, RecordStep DEF ResumeHuman, Seeded, Activated,
       NoDecision, Restored, vars, counted, waiting, fate, Types, IsRecord, RunStates,
       NodeStates, TypeOK, Steps, Settled, CheckpointConstants
  <2>2. ASSUME NEW q \in Waiting, NEW d \in {"approved", "rejected"}, ResumeBudget(q, d) PROVE TypeOK'
    BY <2>2, CheckpointConstants, Types, RecordStep DEF ResumeBudget, Seeded, Deciding,
       NoDecision, Restored, vars, counted, waiting, fate, Types, IsRecord, RunStates,
       NodeStates, TypeOK, Steps, Settled, CheckpointConstants
  <2>3. ASSUME NEW g \in Answered, ResumeAnswered(g) PROVE TypeOK'
    BY <2>3, CheckpointConstants, Types, RecordStep DEF ResumeAnswered, Seeded, Activated,
       NoDecision, Restored, vars, counted, waiting, fate, Types, IsRecord, RunStates,
       NodeStates, TypeOK, Steps, Settled, CheckpointConstants
  <2>4. CASE ResumeMedia
    BY <2>4, CheckpointConstants, Types, RecordStep DEF ResumeMedia, Seeded, Activated,
       NoDecision, Restored, vars, counted, waiting, fate, Types, IsRecord, RunStates,
       NodeStates, TypeOK, Steps, Settled, CheckpointConstants
  <2>5. ASSUME NEW type \in {"run:failed", "run:cancelled"}, ResumeEnds(type) PROVE TypeOK'
    BY <2>5, CheckpointConstants, Types, RecordStep DEF ResumeEnds, Seeded, NoDecision,
       Restored, vars, counted, waiting, fate, Types, IsRecord, RunStates, NodeStates, TypeOK,
       Steps, Settled, CheckpointConstants
  <2>6. ASSUME NEW m \in Node, ResumeOverdue(m) PROVE TypeOK'
    BY <2>6, CheckpointConstants, Types, RecordStep DEF ResumeOverdue, Seeded, NoDecision,
       Restored, vars, counted, waiting, fate, Types, IsRecord, RunStates, NodeStates, TypeOK,
       Steps, Settled, CheckpointConstants
  <2> QED BY <1>11, <2>1, <2>2, <2>3, <2>4, <2>5, <2>6 DEF Resume
<1>12. CASE Done \/ UNCHANGED vars
  BY <1>12, CheckpointConstants, Types, RecordStep DEF Done, vars, counted, waiting, fate,
     Types, IsRecord, RunStates, NodeStates, TypeOK, Steps, Settled, CheckpointConstants
<1> QED BY <1>1, <1>2, <1>3, <1>4, <1>5, <1>6, <1>7, <1>8, <1>9, <1>10, <1>11, <1>12 DEF
  Next

(* What has been asked for stays free of jobs of gates. *)
LEMMA AskKeeps ==
    ASSUME TailFree, NEW e, JobFree(e), tail' = Append(tail, e)
    PROVE  TailFree'
<1>1. PICK S : tail \in Seq(S) /\ \A x \in S : JobFree(x)
  BY DEF TailFree
<1>2. tail' \in Seq(S \cup {e})
  BY <1>1
<1>3. \A x \in S \cup {e} : JobFree(x)
  BY <1>1
<1> QED BY <1>2, <1>3 DEF TailFree

(* A new process starts with an empty tail, or with what it has to say. *)
LEMMA NewTail ==
    ASSUME NEW e, NEW f, JobFree(e), JobFree(f), tail' \in {<<e>>, <<e, f>>}
    PROVE  TailFree'
<1>1. \A x \in {e, f} : JobFree(x)
  OBVIOUS
<1>2. CASE tail' = <<e>>
  <2>1. tail' \in Seq({e, f})
    BY <1>2
  <2> QED BY <1>1, <2>1 DEF TailFree
<1>3. CASE tail' = <<e, f>>
  <2>1. tail' \in Seq({e, f})
    BY <1>3
  <2> QED BY <1>1, <2>1 DEF TailFree
<1> QED BY <1>2, <1>3

(* No gate asks for a job to be recorded. *)
LEMMA TailStep ==
    ASSUME CheckpointConstants, TailFree, [Next]_vars
    PROVE  TailFree'
<1>a. tail' = tail => TailFree'
  BY TailFree DEF TailFree
<1>b. \A e : JobFree(e) /\ tail' = Append(tail, e) => TailFree'
  BY TailFree, AskKeeps
<1>c. \A e, f : JobFree(e) /\ JobFree(f) /\ tail' \in {<<e>>, <<e, f>>} => TailFree'
  BY NewTail
<1>d. tail' = <<>> => TailFree'
  <2>1. <<>> \in Seq({}) /\ \A e \in {} : JobFree(e)
    OBVIOUS
  <2> QED BY <2>1 DEF TailFree
<1>1. ASSUME NEW n \in Node, Execute(n) PROVE TailFree'
  <2>1. CASE Skip(n)
    BY <2>1, <1>a, <1>b, <1>c, <1>d DEF Skip, vars, counted, waiting, fate, JobFree, Ask,
       NodeEvent, RunEvent, Started, Retrying, Completed, Submitted, GateEvent, HumanAnswer
  <2>2. CASE Claim(n)
    BY <2>2, <1>a, <1>b, <1>c, <1>d DEF Claim, Dispatch, vars, counted, waiting, fate, JobFree,
       Ask, NodeEvent, RunEvent, Started, Retrying, Completed, Submitted, GateEvent, HumanAnswer
  <2>3. CASE Enter(n)
    BY <2>3, <1>a, <1>b, <1>c, <1>d DEF Enter, SettleFailed, vars, counted, waiting, fate,
       JobFree, Ask, NodeEvent, RunEvent, Started, Retrying, Completed, Submitted, GateEvent,
       HumanAnswer
  <2>4. CASE Complete(n)
    BY <2>4, <1>a, <1>b, <1>c, <1>d DEF Complete, vars, counted, waiting, fate, JobFree, Ask,
       NodeEvent, RunEvent, Started, Retrying, Completed, Submitted, GateEvent, HumanAnswer
  <2>5. CASE AttemptFails(n)
    BY <2>5, <1>a, <1>b, <1>c, <1>d DEF AttemptFails, SettleFailed, vars, counted, waiting,
       fate, JobFree, Ask, NodeEvent, RunEvent, Started, Retrying, Completed, Submitted,
       GateEvent, HumanAnswer
  <2>6. CASE Redispatch(n)
    BY <2>6, <1>a, <1>b, <1>c, <1>d DEF Redispatch, SettleFailed, Dispatch, vars, counted,
       waiting, fate, JobFree, Ask, NodeEvent, RunEvent, Started, Retrying, Completed,
       Submitted, GateEvent, HumanAnswer
  <2>7. CASE NodeDeadline(n)
    BY <2>7, <1>a, <1>b, <1>c, <1>d DEF NodeDeadline, SettleFailed, vars, counted, waiting,
       fate, JobFree, Ask, NodeEvent, RunEvent, Started, Retrying, Completed, Submitted,
       GateEvent, HumanAnswer
  <2>8. CASE PauseAtGate(n)
    BY <2>8, <1>a, <1>b, <1>c, <1>d DEF PauseAtGate, Opens, vars, counted, waiting, fate,
       JobFree, Ask, NodeEvent, RunEvent, Started, Retrying, Completed, Submitted, GateEvent,
       HumanAnswer
  <2>9. CASE PauseForBudget(n)
    BY <2>9, <1>a, <1>b, <1>c, <1>d DEF PauseForBudget, Opens, vars, counted, waiting, fate,
       JobFree, Ask, NodeEvent, RunEvent, Started, Retrying, Completed, Submitted, GateEvent,
       HumanAnswer
  <2>10. CASE Publish(n)
    BY <2>10, <1>a, <1>b, <1>c, <1>d DEF Publish, vars, counted, waiting, fate, JobFree, Ask,
       NodeEvent, RunEvent, Started, Retrying, Completed, Submitted, GateEvent, HumanAnswer
  <2>11. CASE Announced(n)
    BY <2>11, <1>a, <1>b, <1>c, <1>d DEF Announced, vars, counted, waiting, fate, JobFree, Ask,
       NodeEvent, RunEvent, Started, Retrying, Completed, Submitted, GateEvent, HumanAnswer
  <2>12. CASE Park(n)
    BY <2>12, <1>a, <1>b, <1>c, <1>d DEF Park, Agents, CheckpointConstants, vars, counted,
       waiting, fate, JobFree, Ask, NodeEvent, RunEvent, Started, Retrying, Completed,
       Submitted, GateEvent, HumanAnswer
  <2>13. CASE MediaDone(n)
    BY <2>13, <1>a, <1>b, <1>c, <1>d DEF MediaDone, ClearMediaJob, vars, counted, waiting, fate,
       JobFree, Ask, NodeEvent, RunEvent, Started, Retrying, Completed, Submitted, GateEvent,
       HumanAnswer
  <2>14. CASE MediaPinned(n)
    BY <2>14, <1>a, <1>b, <1>c, <1>d DEF MediaPinned, SettleFailed, vars, counted, waiting,
       fate, JobFree, Ask, NodeEvent, RunEvent, Started, Retrying, Completed, Submitted,
       GateEvent, HumanAnswer
  <2>15. CASE MediaFails(n)
    <3>1. tail' = tail \/ SettleFailed(n)
      BY <2>15 DEF MediaFails
    <3> QED BY <1>a, <1>b, <3>1 DEF SettleFailed, Ask, JobFree, NodeEvent
  <2> QED BY <1>1, <2>1, <2>2, <2>3, <2>4, <2>5, <2>6, <2>7, <2>8, <2>9, <2>10, <2>11,
    <2>12, <2>13, <2>14, <2>15 DEF Execute
<1>2. CASE Decide
  <2>1. ASSUME NEW p \in pendingGates, ClaimHuman(p) PROVE TailFree'
    BY <2>1, <1>a, <1>b, <1>c, <1>d DEF ClaimHuman, vars, counted, waiting, fate, JobFree, Ask,
       NodeEvent, RunEvent, Started, Retrying, Completed, Submitted, GateEvent, HumanAnswer
  <2>2. ASSUME NEW p \in pendingGates, GateTimeout(p) PROVE TailFree'
    BY <2>2, <1>a, <1>b, <1>c, <1>d DEF GateTimeout, SettleFailed, vars, counted, waiting, fate,
       JobFree, Ask, NodeEvent, RunEvent, Started, Retrying, Completed, Submitted, GateEvent,
       HumanAnswer
  <2>3. ASSUME NEW p \in pendingGates, NEW d \in {"approved", "rejected"}, ClaimBudget(p, d) PROVE TailFree'
    BY <2>3, <1>a, <1>b, <1>c, <1>d DEF ClaimBudget, Deciding, vars, counted, waiting, fate,
       JobFree, Ask, NodeEvent, RunEvent, Started, Retrying, Completed, Submitted, GateEvent,
       HumanAnswer
  <2>4. ASSUME NEW n \in Node, HumanDecided(n) PROVE TailFree'
    BY <2>4, <1>a, <1>b, <1>c, <1>d DEF HumanDecided, vars, counted, waiting, fate, JobFree,
       Ask, NodeEvent, RunEvent, Started, Retrying, Completed, Submitted, GateEvent, HumanAnswer
  <2>5. ASSUME NEW n \in Node, PinFails(n) PROVE TailFree'
    BY <2>5, <1>a, <1>b, <1>c, <1>d DEF PinFails, vars, counted, waiting, fate, JobFree, Ask,
       NodeEvent, RunEvent, Started, Retrying, Completed, Submitted, GateEvent, HumanAnswer
  <2>6. ASSUME NEW n \in Node, BudgetRecorded(n) PROVE TailFree'
    BY <2>6, <1>a, <1>b, <1>c, <1>d DEF BudgetRecorded, DecisionOver, Verdict, vars, counted,
       waiting, fate, JobFree, Ask, NodeEvent, RunEvent, Started, Retrying, Completed,
       Submitted, GateEvent, HumanAnswer
  <2>7. ASSUME NEW n \in Node, BudgetApplied(n) PROVE TailFree'
    BY <2>7, <1>a, <1>b, <1>c, <1>d DEF BudgetApplied, DecisionOver, Verdict, vars, counted,
       waiting, fate, JobFree, Ask, NodeEvent, RunEvent, Started, Retrying, Completed,
       Submitted, GateEvent, HumanAnswer
  <2> QED BY <1>2, <2>1, <2>2, <2>3, <2>4, <2>5, <2>6, <2>7 DEF Decide
<1>3. CASE Cancel
  BY <1>3, <1>a, <1>b, <1>c, <1>d DEF Cancel, vars, counted, waiting, fate, JobFree, Ask,
     NodeEvent, RunEvent, Started, Retrying, Completed, Submitted, GateEvent, HumanAnswer
<1>4. CASE CeilingReached
  BY <1>4, <1>a, <1>b, <1>c, <1>d DEF CeilingReached, vars, counted, waiting, fate, JobFree,
     Ask, NodeEvent, RunEvent, Started, Retrying, Completed, Submitted, GateEvent, HumanAnswer
<1>5. CASE PauseRun
  BY <1>5, <1>a, <1>b, <1>c, <1>d DEF PauseRun, vars, counted, waiting, fate, JobFree, Ask,
     NodeEvent, RunEvent, Started, Retrying, Completed, Submitted, GateEvent, HumanAnswer
<1>6. CASE Stall
  BY <1>6, <1>a, <1>b, <1>c, <1>d DEF Stall, vars, counted, waiting, fate, JobFree, Ask,
     NodeEvent, RunEvent, Started, Retrying, Completed, Submitted, GateEvent, HumanAnswer
<1>7. CASE Settle
  BY <1>7, <1>a, <1>b, <1>c, <1>d DEF Settle, Terminal, vars, counted, waiting, fate, JobFree,
     Ask, NodeEvent, RunEvent, Started, Retrying, Completed, Submitted, GateEvent, HumanAnswer
<1>8. CASE AppendEvent
  <2>1. PICK S : tail \in Seq(S) /\ \A e \in S : JobFree(e)
    BY DEF TailFree
  <2>2. tail' \in Seq(S)
    BY <1>8, <2>1 DEF AppendEvent
  <2> QED BY <2>1, <2>2 DEF TailFree
<1>9. CASE Crash
  BY <1>9, <1>a, <1>b, <1>c, <1>d DEF Crash, BlankLeg, vars, counted, waiting, fate, JobFree,
     Ask, NodeEvent, RunEvent, Started, Retrying, Completed, Submitted, GateEvent, HumanAnswer
<1>10. CASE Reconcile
  BY <1>10, <1>a, <1>b, <1>c, <1>d DEF Reconcile, vars, counted, waiting, fate, JobFree, Ask,
     NodeEvent, RunEvent, Started, Retrying, Completed, Submitted, GateEvent, HumanAnswer
<1>11. CASE Resume
  <2>1. ASSUME NEW q \in Waiting, ResumeHuman(q) PROVE TailFree'
    BY <2>1, <1>a, <1>b, <1>c, <1>d DEF ResumeHuman, Seeded, Activated, NoDecision, vars,
       counted, waiting, fate, JobFree, Ask, NodeEvent, RunEvent, Started, Retrying, Completed,
       Submitted, GateEvent, HumanAnswer
  <2>2. ASSUME NEW q \in Waiting, NEW d \in {"approved", "rejected"}, ResumeBudget(q, d) PROVE TailFree'
    BY <2>2, <1>a, <1>b, <1>c, <1>d DEF ResumeBudget, Seeded, Deciding, NoDecision, vars,
       counted, waiting, fate, JobFree, Ask, NodeEvent, RunEvent, Started, Retrying, Completed,
       Submitted, GateEvent, HumanAnswer
  <2>3. ASSUME NEW g \in Answered, ResumeAnswered(g) PROVE TailFree'
    BY <2>3, <1>a, <1>b, <1>c, <1>d DEF ResumeAnswered, Seeded, Activated, NoDecision, vars,
       counted, waiting, fate, JobFree, Ask, NodeEvent, RunEvent, Started, Retrying, Completed,
       Submitted, GateEvent, HumanAnswer
  <2>4. CASE ResumeMedia
    BY <2>4, <1>a, <1>b, <1>c, <1>d DEF ResumeMedia, Seeded, Activated, NoDecision, vars,
       counted, waiting, fate, JobFree, Ask, NodeEvent, RunEvent, Started, Retrying, Completed,
       Submitted, GateEvent, HumanAnswer
  <2>5. ASSUME NEW type \in {"run:failed", "run:cancelled"}, ResumeEnds(type) PROVE TailFree'
    BY <2>5, <1>a, <1>b, <1>c, <1>d DEF ResumeEnds, Seeded, NoDecision, vars, counted, waiting,
       fate, JobFree, Ask, NodeEvent, RunEvent, Started, Retrying, Completed, Submitted,
       GateEvent, HumanAnswer
  <2>6. ASSUME NEW m \in Node, ResumeOverdue(m) PROVE TailFree'
    <3>1. JobFree(NodeEvent("node:failed", m)) /\ JobFree(RunEvent("run:failed"))
      BY DEF JobFree, NodeEvent, RunEvent
    <3>2. tail' \in {<<NodeEvent("node:failed", m)>>, <<NodeEvent("node:failed", m), RunEvent("run:failed")>>}
      BY <2>6 DEF ResumeOverdue
    <3> QED BY <1>c, <3>1, <3>2
  <2> QED BY <1>11, <2>1, <2>2, <2>3, <2>4, <2>5, <2>6 DEF Resume
<1>12. CASE Done \/ UNCHANGED vars
  BY <1>12, <1>a, <1>b, <1>c, <1>d DEF Done, vars, counted, waiting, fate, JobFree, Ask,
     NodeEvent, RunEvent, Started, Retrying, Completed, Submitted, GateEvent, HumanAnswer
<1> QED BY <1>1, <1>2, <1>3, <1>4, <1>5, <1>6, <1>7, <1>8, <1>9, <1>10, <1>11, <1>12 DEF
  Next

(* No step gives a gate a job. *)
LEMMA JobsStep ==
    ASSUME CheckpointConstants, Types, TailFree, JobsElsewhere, [Next]_vars
    PROVE  JobsElsewhere'
<1>1. ASSUME NEW n \in Node, Execute(n) PROVE JobsElsewhere'
  <2>1. CASE Skip(n)
    BY <2>1, CheckpointConstants, Types, JobsElsewhere DEF Skip, vars, counted, waiting, fate,
       JobsElsewhere, CheckpointConstants
  <2>2. CASE Claim(n)
    BY <2>2, CheckpointConstants, Types, JobsElsewhere DEF Claim, Dispatch, vars, counted,
       waiting, fate, JobsElsewhere, CheckpointConstants
  <2>3. CASE Enter(n)
    BY <2>3, CheckpointConstants, Types, JobsElsewhere DEF Enter, SettleFailed, vars, counted,
       waiting, fate, JobsElsewhere, CheckpointConstants
  <2>4. CASE Complete(n)
    BY <2>4, CheckpointConstants, Types, JobsElsewhere DEF Complete, vars, counted, waiting,
       fate, JobsElsewhere, CheckpointConstants
  <2>5. CASE AttemptFails(n)
    BY <2>5, CheckpointConstants, Types, JobsElsewhere DEF AttemptFails, SettleFailed, vars,
       counted, waiting, fate, JobsElsewhere, CheckpointConstants
  <2>6. CASE Redispatch(n)
    BY <2>6, CheckpointConstants, Types, JobsElsewhere DEF Redispatch, SettleFailed, Dispatch,
       vars, counted, waiting, fate, JobsElsewhere, CheckpointConstants
  <2>7. CASE NodeDeadline(n)
    BY <2>7, CheckpointConstants, Types, JobsElsewhere DEF NodeDeadline, SettleFailed, vars,
       counted, waiting, fate, JobsElsewhere, CheckpointConstants
  <2>8. CASE PauseAtGate(n)
    BY <2>8, CheckpointConstants, Types, JobsElsewhere DEF PauseAtGate, Opens, vars, counted,
       waiting, fate, JobsElsewhere, CheckpointConstants
  <2>9. CASE PauseForBudget(n)
    BY <2>9, CheckpointConstants, Types, JobsElsewhere DEF PauseForBudget, Opens, vars, counted,
       waiting, fate, JobsElsewhere, CheckpointConstants
  <2>10. CASE Publish(n)
    BY <2>10, CheckpointConstants, Types, JobsElsewhere DEF Publish, vars, counted, waiting,
       fate, JobsElsewhere, CheckpointConstants
  <2>11. CASE Announced(n)
    BY <2>11, CheckpointConstants, Types, JobsElsewhere DEF Announced, vars, counted, waiting,
       fate, JobsElsewhere, CheckpointConstants
  <2>12. CASE Park(n)
    BY <2>12, CheckpointConstants, Types, JobsElsewhere DEF Park, Agents, vars, counted,
       waiting, fate, JobsElsewhere, CheckpointConstants
  <2>13. CASE MediaDone(n)
    BY <2>13, CheckpointConstants, Types, JobsElsewhere DEF MediaDone, ClearMediaJob, vars,
       counted, waiting, fate, JobsElsewhere, CheckpointConstants
  <2>14. CASE MediaPinned(n)
    BY <2>14, CheckpointConstants, Types, JobsElsewhere DEF MediaPinned, SettleFailed, vars,
       counted, waiting, fate, JobsElsewhere, CheckpointConstants
  <2>15. CASE MediaFails(n)
    BY <2>15, CheckpointConstants, Types, JobsElsewhere DEF MediaFails, ClearMediaJob,
       SettleFailed, vars, counted, waiting, fate, JobsElsewhere, CheckpointConstants
  <2> QED BY <1>1, <2>1, <2>2, <2>3, <2>4, <2>5, <2>6, <2>7, <2>8, <2>9, <2>10, <2>11,
    <2>12, <2>13, <2>14, <2>15 DEF Execute
<1>2. CASE Decide
  <2>1. ASSUME NEW p \in pendingGates, ClaimHuman(p) PROVE JobsElsewhere'
    BY <2>1, CheckpointConstants, Types, JobsElsewhere DEF ClaimHuman, vars, counted, waiting,
       fate, JobsElsewhere, CheckpointConstants
  <2>2. ASSUME NEW p \in pendingGates, GateTimeout(p) PROVE JobsElsewhere'
    BY <2>2, CheckpointConstants, Types, JobsElsewhere DEF GateTimeout, SettleFailed, vars,
       counted, waiting, fate, JobsElsewhere, CheckpointConstants
  <2>3. ASSUME NEW p \in pendingGates, NEW d \in {"approved", "rejected"}, ClaimBudget(p, d) PROVE JobsElsewhere'
    BY <2>3, CheckpointConstants, Types, JobsElsewhere DEF ClaimBudget, Deciding, vars, counted,
       waiting, fate, JobsElsewhere, CheckpointConstants
  <2>4. ASSUME NEW n \in Node, HumanDecided(n) PROVE JobsElsewhere'
    BY <2>4, CheckpointConstants, Types, JobsElsewhere DEF HumanDecided, vars, counted, waiting,
       fate, JobsElsewhere, CheckpointConstants
  <2>5. ASSUME NEW n \in Node, PinFails(n) PROVE JobsElsewhere'
    BY <2>5, CheckpointConstants, Types, JobsElsewhere DEF PinFails, vars, counted, waiting,
       fate, JobsElsewhere, CheckpointConstants
  <2>6. ASSUME NEW n \in Node, BudgetRecorded(n) PROVE JobsElsewhere'
    <3>1. jobs' = jobs \/ jobs' = rec.suspensions.media
      BY <2>6 DEF BudgetRecorded, DecisionOver
    <3>2. rec' = rec
      BY <2>6 DEF BudgetRecorded
    <3> QED BY <3>1, <3>2, Types, JobsElsewhere DEF Types, IsRecord, IsSuspension, JobsElsewhere
  <2>7. ASSUME NEW n \in Node, BudgetApplied(n) PROVE JobsElsewhere'
    <3>1. jobs' = jobs \/ jobs' = rec.suspensions.media
      BY <2>7 DEF BudgetApplied, DecisionOver
    <3>2. rec' = rec
      BY <2>7 DEF BudgetApplied
    <3> QED BY <3>1, <3>2, Types, JobsElsewhere DEF Types, IsRecord, IsSuspension, JobsElsewhere
  <2> QED BY <1>2, <2>1, <2>2, <2>3, <2>4, <2>5, <2>6, <2>7 DEF Decide
<1>3. CASE Cancel
  BY <1>3, CheckpointConstants, Types, JobsElsewhere DEF Cancel, vars, counted, waiting, fate,
     JobsElsewhere, CheckpointConstants
<1>4. CASE CeilingReached
  BY <1>4, CheckpointConstants, Types, JobsElsewhere DEF CeilingReached, vars, counted, waiting,
     fate, JobsElsewhere, CheckpointConstants
<1>5. CASE PauseRun
  BY <1>5, CheckpointConstants, Types, JobsElsewhere DEF PauseRun, vars, counted, waiting, fate,
     JobsElsewhere, CheckpointConstants
<1>6. CASE Stall
  BY <1>6, CheckpointConstants, Types, JobsElsewhere DEF Stall, vars, counted, waiting, fate,
     JobsElsewhere, CheckpointConstants
<1>7. CASE Settle
  BY <1>7, CheckpointConstants, Types, JobsElsewhere DEF Settle, vars, counted, waiting, fate,
     JobsElsewhere, CheckpointConstants
<1>8. CASE AppendEvent
  <2>1. PICK e : JobFree(e) /\ rec' = ApplyEvent(rec, e)
    <3>1. JobFree(Head(tail))
      <4>1. PICK S : tail \in Seq(S) /\ \A e \in S : JobFree(e)
        BY TailFree DEF TailFree
      <4> QED BY <1>8, <4>1 DEF AppendEvent
    <3> QED BY <1>8, <3>1 DEF AppendEvent
  <2>2. \A n \in Gates : rec'.suspensions.media[n] = NoJob
    <3>1. \A n \in Node : ApplyEvent(rec, e).suspensions.media[n] \notin {rec.suspensions.media[n], NoJob}
                            => e.type = "media_job:submitted" /\ n = e.node
      BY EventFold, Types DEF Types
    <3> QED BY <2>1, <3>1, CheckpointConstants, JobsElsewhere
         DEF CheckpointConstants, JobsElsewhere, JobFree
  <2> QED BY <1>8, <2>2, JobsElsewhere DEF AppendEvent, JobsElsewhere
<1>9. CASE Crash
  BY <1>9, CheckpointConstants, Types, JobsElsewhere DEF Crash, BlankLeg, vars, counted,
     waiting, fate, JobsElsewhere, CheckpointConstants
<1>10. CASE Reconcile
  <2>1. PICK e : JobFree(e) /\ rec' = ApplyEvent(rec, e)
    BY <1>10 DEF Reconcile, JobFree, RunEvent
  <2>2. \A n \in Gates : rec'.suspensions.media[n] = NoJob
    <3>1. \A n \in Node : ApplyEvent(rec, e).suspensions.media[n] \notin {rec.suspensions.media[n], NoJob}
                            => e.type = "media_job:submitted" /\ n = e.node
      BY EventFold, Types DEF Types
    <3> QED BY <2>1, <3>1, CheckpointConstants, JobsElsewhere
         DEF CheckpointConstants, JobsElsewhere, JobFree
  <2> QED BY <1>10, <2>2, JobsElsewhere DEF Reconcile, JobsElsewhere
<1>11. CASE Resume
  <2>1. ASSUME NEW q \in Waiting, ResumeHuman(q) PROVE JobsElsewhere'
    BY <2>1, CheckpointConstants, Types, JobsElsewhere DEF ResumeHuman, Seeded, Activated,
       NoDecision, Types, IsRecord, IsSuspension, vars, counted, waiting, fate, JobsElsewhere,
       CheckpointConstants
  <2>2. ASSUME NEW q \in Waiting, NEW d \in {"approved", "rejected"}, ResumeBudget(q, d) PROVE JobsElsewhere'
    BY <2>2, CheckpointConstants, Types, JobsElsewhere DEF ResumeBudget, Seeded, Deciding,
       NoDecision, vars, counted, waiting, fate, JobsElsewhere, CheckpointConstants
  <2>3. ASSUME NEW g \in Answered, ResumeAnswered(g) PROVE JobsElsewhere'
    BY <2>3, CheckpointConstants, Types, JobsElsewhere DEF ResumeAnswered, Seeded, Activated,
       NoDecision, Types, IsRecord, IsSuspension, vars, counted, waiting, fate, JobsElsewhere,
       CheckpointConstants
  <2>4. CASE ResumeMedia
    BY <2>4, CheckpointConstants, Types, JobsElsewhere DEF ResumeMedia, Seeded, Activated,
       NoDecision, Types, IsRecord, IsSuspension, vars, counted, waiting, fate, JobsElsewhere,
       CheckpointConstants
  <2>5. ASSUME NEW type \in {"run:failed", "run:cancelled"}, ResumeEnds(type) PROVE JobsElsewhere'
    BY <2>5, CheckpointConstants, Types, JobsElsewhere DEF ResumeEnds, Seeded, NoDecision, vars,
       counted, waiting, fate, JobsElsewhere, CheckpointConstants
  <2>6. ASSUME NEW m \in Node, ResumeOverdue(m) PROVE JobsElsewhere'
    BY ZenonT(30), <2>6, CheckpointConstants, Types, JobsElsewhere DEF ResumeOverdue, Seeded, NoDecision,
       Types, IsRecord, IsSuspension, vars, counted, waiting, fate, JobsElsewhere,
       CheckpointConstants
  <2> QED BY <1>11, <2>1, <2>2, <2>3, <2>4, <2>5, <2>6 DEF Resume
<1>12. CASE Done \/ UNCHANGED vars
  BY <1>12, CheckpointConstants, Types, JobsElsewhere DEF Done, vars, counted, waiting, fate,
     JobsElsewhere, CheckpointConstants
<1> QED BY <1>1, <1>2, <1>3, <1>4, <1>5, <1>6, <1>7, <1>8, <1>9, <1>10, <1>11, <1>12 DEF
  Next

(* No step makes a vertex pending whose pause is being announced. *)
LEMMA PublishingStep ==
    ASSUME CheckpointConstants, Types, PublishingWaits, [Next]_vars
    PROVE  PublishingWaits'
<1>1. ASSUME NEW n \in Node, Execute(n) PROVE PublishingWaits'
  <2>1. CASE Skip(n)
    BY <2>1, CheckpointConstants, Types, PublishingWaits DEF Skip, vars, counted, waiting, fate,
       Types, TypeOK, Steps, Settled, Publishing, PublishingWaits
  <2>2. CASE Claim(n)
    BY <2>2, CheckpointConstants, Types, PublishingWaits DEF Claim, Dispatch, vars, counted,
       waiting, fate, Types, TypeOK, Steps, Settled, Publishing, PublishingWaits
  <2>3. CASE Enter(n)
    BY <2>3, CheckpointConstants, Types, PublishingWaits DEF Enter, SettleFailed, vars, counted,
       waiting, fate, Types, TypeOK, Steps, Settled, Publishing, PublishingWaits
  <2>4. CASE Complete(n)
    BY <2>4, CheckpointConstants, Types, PublishingWaits DEF Complete, vars, counted, waiting,
       fate, Types, TypeOK, Steps, Settled, Publishing, PublishingWaits
  <2>5. CASE AttemptFails(n)
    BY <2>5, CheckpointConstants, Types, PublishingWaits DEF AttemptFails, SettleFailed, vars,
       counted, waiting, fate, Types, TypeOK, Steps, Settled, Publishing, PublishingWaits
  <2>6. CASE Redispatch(n)
    BY <2>6, CheckpointConstants, Types, PublishingWaits DEF Redispatch, SettleFailed, Dispatch,
       vars, counted, waiting, fate, Types, TypeOK, Steps, Settled, Publishing, PublishingWaits
  <2>7. CASE NodeDeadline(n)
    BY <2>7, CheckpointConstants, Types, PublishingWaits DEF NodeDeadline, SettleFailed, vars,
       counted, waiting, fate, Types, TypeOK, Steps, Settled, Publishing, PublishingWaits
  <2>8. CASE PauseAtGate(n)
    BY <2>8, CheckpointConstants, Types, PublishingWaits DEF PauseAtGate, Opens, vars, counted,
       waiting, fate, Types, TypeOK, Steps, Settled, Publishing, PublishingWaits
  <2>9. CASE PauseForBudget(n)
    BY <2>9, CheckpointConstants, Types, PublishingWaits DEF PauseForBudget, Opens, vars,
       counted, waiting, fate, Types, TypeOK, Steps, Settled, Publishing, PublishingWaits
  <2>10. CASE Publish(n)
    BY <2>10, CheckpointConstants, Types, PublishingWaits DEF Publish, vars, counted, waiting,
       fate, Types, TypeOK, Steps, Settled, Publishing, PublishingWaits
  <2>11. CASE Announced(n)
    BY <2>11, CheckpointConstants, Types, PublishingWaits DEF Announced, vars, counted, waiting,
       fate, Types, TypeOK, Steps, Settled, Publishing, PublishingWaits
  <2>12. CASE Park(n)
    BY <2>12, CheckpointConstants, Types, PublishingWaits DEF Park, vars, counted, waiting,
       fate, Types, TypeOK, Steps, Settled, Publishing, PublishingWaits
  <2>13. CASE MediaDone(n)
    BY <2>13, CheckpointConstants, Types, PublishingWaits DEF MediaDone, ClearMediaJob, vars,
       counted, waiting, fate, Types, TypeOK, Steps, Settled, Publishing, PublishingWaits
  <2>14. CASE MediaPinned(n)
    BY <2>14, CheckpointConstants, Types, PublishingWaits DEF MediaPinned, SettleFailed, vars,
       counted, waiting, fate, Types, TypeOK, Steps, Settled, Publishing, PublishingWaits
  <2>15. CASE MediaFails(n)
    BY <2>15, CheckpointConstants, Types, PublishingWaits DEF MediaFails, ClearMediaJob,
       SettleFailed, vars, counted, waiting, fate, Types, TypeOK, Steps, Settled, Publishing,
       PublishingWaits
  <2> QED BY <1>1, <2>1, <2>2, <2>3, <2>4, <2>5, <2>6, <2>7, <2>8, <2>9, <2>10, <2>11,
    <2>12, <2>13, <2>14, <2>15 DEF Execute
<1>2. CASE Decide
  <2>1. ASSUME NEW p \in pendingGates, ClaimHuman(p) PROVE PublishingWaits'
    BY <2>1, CheckpointConstants, Types, PublishingWaits DEF ClaimHuman, vars, counted, waiting,
       fate, Types, TypeOK, Steps, Settled, Publishing, PublishingWaits
  <2>2. ASSUME NEW p \in pendingGates, GateTimeout(p) PROVE PublishingWaits'
    BY <2>2, CheckpointConstants, Types, PublishingWaits DEF GateTimeout, SettleFailed, vars,
       counted, waiting, fate, Types, TypeOK, Steps, Settled, Publishing, PublishingWaits
  <2>3. ASSUME NEW p \in pendingGates, NEW d \in {"approved", "rejected"}, ClaimBudget(p, d) PROVE PublishingWaits'
    BY <2>3, CheckpointConstants, Types, PublishingWaits DEF ClaimBudget, Deciding, vars,
       counted, waiting, fate, Types, TypeOK, Steps, Settled, Publishing, PublishingWaits
  <2>4. ASSUME NEW n \in Node, HumanDecided(n) PROVE PublishingWaits'
    BY <2>4, CheckpointConstants, Types, PublishingWaits DEF HumanDecided, vars, counted,
       waiting, fate, Types, TypeOK, Steps, Settled, Publishing, PublishingWaits
  <2>5. ASSUME NEW n \in Node, PinFails(n) PROVE PublishingWaits'
    BY <2>5, CheckpointConstants, Types, PublishingWaits DEF PinFails, vars, counted, waiting,
       fate, Types, TypeOK, Steps, Settled, Publishing, PublishingWaits
  <2>6. ASSUME NEW n \in Node, BudgetRecorded(n) PROVE PublishingWaits'
    BY <2>6, CheckpointConstants, Types, PublishingWaits DEF BudgetRecorded, DecisionOver,
       Verdict, vars, counted, waiting, fate, Types, TypeOK, Steps, Settled, Publishing,
       PublishingWaits
  <2>7. ASSUME NEW n \in Node, BudgetApplied(n) PROVE PublishingWaits'
    BY <2>7, CheckpointConstants, Types, PublishingWaits DEF BudgetApplied, DecisionOver,
       Verdict, vars, counted, waiting, fate, Types, TypeOK, Steps, Settled, Publishing,
       PublishingWaits
  <2> QED BY <1>2, <2>1, <2>2, <2>3, <2>4, <2>5, <2>6, <2>7 DEF Decide
<1>3. CASE Cancel
  BY <1>3, CheckpointConstants, Types, PublishingWaits DEF Cancel, vars, counted, waiting, fate,
     Types, TypeOK, Steps, Settled, Publishing, PublishingWaits
<1>4. CASE CeilingReached
  BY <1>4, CheckpointConstants, Types, PublishingWaits DEF CeilingReached, vars, counted,
     waiting, fate, Types, TypeOK, Steps, Settled, Publishing, PublishingWaits
<1>5. CASE PauseRun
  BY <1>5, CheckpointConstants, Types, PublishingWaits DEF PauseRun, vars, counted, waiting,
     fate, Types, TypeOK, Steps, Settled, Publishing, PublishingWaits
<1>6. CASE Stall
  BY <1>6, CheckpointConstants, Types, PublishingWaits DEF Stall, vars, counted, waiting, fate,
     Types, TypeOK, Steps, Settled, Publishing, PublishingWaits
<1>7. CASE Settle
  BY <1>7, CheckpointConstants, Types, PublishingWaits DEF Settle, vars, counted, waiting, fate,
     Types, TypeOK, Steps, Settled, Publishing, PublishingWaits
<1>8. CASE AppendEvent
  BY <1>8, CheckpointConstants, Types, PublishingWaits DEF AppendEvent, vars, counted, waiting,
     fate, Types, TypeOK, Steps, Settled, Publishing, PublishingWaits
<1>9. CASE Crash
  BY <1>9, CheckpointConstants, Types, PublishingWaits DEF Crash, BlankLeg, vars, counted,
     waiting, fate, Types, TypeOK, Steps, Settled, Publishing, PublishingWaits
<1>10. CASE Reconcile
  BY <1>10, CheckpointConstants, Types, PublishingWaits DEF Reconcile, vars, counted, waiting,
     fate, Types, TypeOK, Steps, Settled, Publishing, PublishingWaits
<1>11. CASE Resume
  <2>1. ASSUME NEW q \in Waiting, ResumeHuman(q) PROVE PublishingWaits'
    BY <2>1, CheckpointConstants, Types, PublishingWaits DEF ResumeHuman, Seeded, Activated,
       NoDecision, vars, counted, waiting, fate, Types, TypeOK, Steps, Settled, Publishing,
       PublishingWaits
  <2>2. ASSUME NEW q \in Waiting, NEW d \in {"approved", "rejected"}, ResumeBudget(q, d) PROVE PublishingWaits'
    BY <2>2, CheckpointConstants, Types, PublishingWaits DEF ResumeBudget, Seeded, Deciding,
       NoDecision, vars, counted, waiting, fate, Types, TypeOK, Steps, Settled, Publishing,
       PublishingWaits
  <2>3. ASSUME NEW g \in Answered, ResumeAnswered(g) PROVE PublishingWaits'
    BY <2>3, CheckpointConstants, Types, PublishingWaits DEF ResumeAnswered, Seeded, Activated,
       NoDecision, vars, counted, waiting, fate, Types, TypeOK, Steps, Settled, Publishing,
       PublishingWaits
  <2>4. CASE ResumeMedia
    BY <2>4, CheckpointConstants, Types, PublishingWaits DEF ResumeMedia, Seeded, Activated,
       NoDecision, vars, counted, waiting, fate, Types, TypeOK, Steps, Settled, Publishing,
       PublishingWaits
  <2>5. ASSUME NEW type \in {"run:failed", "run:cancelled"}, ResumeEnds(type) PROVE PublishingWaits'
    BY <2>5, CheckpointConstants, Types, PublishingWaits DEF ResumeEnds, Seeded, NoDecision,
       vars, counted, waiting, fate, Types, TypeOK, Steps, Settled, Publishing, PublishingWaits
  <2>6. ASSUME NEW m \in Node, ResumeOverdue(m) PROVE PublishingWaits'
    BY <2>6, CheckpointConstants, Types, PublishingWaits DEF ResumeOverdue, Seeded, NoDecision,
       vars, counted, waiting, fate, Types, TypeOK, Steps, Settled, Publishing, PublishingWaits
  <2> QED BY <1>11, <2>1, <2>2, <2>3, <2>4, <2>5, <2>6 DEF Resume
<1>12. CASE Done \/ UNCHANGED vars
  BY <1>12, CheckpointConstants, Types, PublishingWaits DEF Done, vars, counted, waiting, fate,
     Types, TypeOK, Steps, Settled, Publishing, PublishingWaits
<1> QED BY <1>1, <1>2, <1>3, <1>4, <1>5, <1>6, <1>7, <1>8, <1>9, <1>10, <1>11, <1>12 DEF
  Next

(* No step takes the gate from the decision a checkpoint waits for. *)
LEMMA PassiveStep ==
    ASSUME CheckpointConstants, Types, PassiveLeg, [Next]_vars
    PROVE  PassiveLeg'
<1>1. ASSUME NEW n \in Node, Execute(n) PROVE PassiveLeg'
  <2>1. CASE Skip(n)
    BY <2>1, CheckpointConstants, Types, PassiveLeg DEF Skip, Pass, vars, counted, waiting,
       fate, Types, TypeOK, PassiveLeg
  <2>2. CASE Claim(n)
    BY <2>2, CheckpointConstants, Types, PassiveLeg DEF Claim, Dispatch, Decides, Pass, vars,
       counted, waiting, fate, Types, TypeOK, PassiveLeg
  <2>3. CASE Enter(n)
    BY <2>3, CheckpointConstants, Types, PassiveLeg DEF Enter, SettleFailed, vars, counted,
       waiting, fate, Types, TypeOK, PassiveLeg
  <2>4. CASE Complete(n)
    BY <2>4, CheckpointConstants, Types, PassiveLeg DEF Complete, vars, counted, waiting, fate,
       Types, TypeOK, PassiveLeg
  <2>5. CASE AttemptFails(n)
    BY <2>5, CheckpointConstants, Types, PassiveLeg DEF AttemptFails, SettleFailed, vars,
       counted, waiting, fate, Types, TypeOK, PassiveLeg
  <2>6. CASE Redispatch(n)
    BY <2>6, CheckpointConstants, Types, PassiveLeg DEF Redispatch, SettleFailed, Dispatch,
       vars, counted, waiting, fate, Types, TypeOK, PassiveLeg
  <2>7. CASE NodeDeadline(n)
    BY <2>7, CheckpointConstants, Types, PassiveLeg DEF NodeDeadline, SettleFailed, vars,
       counted, waiting, fate, Types, TypeOK, PassiveLeg
  <2>8. CASE PauseAtGate(n)
    BY <2>8, CheckpointConstants, Types, PassiveLeg DEF PauseAtGate, Opens, vars, counted,
       waiting, fate, Types, TypeOK, PassiveLeg
  <2>9. CASE PauseForBudget(n)
    BY <2>9, CheckpointConstants, Types, PassiveLeg DEF PauseForBudget, Opens, vars, counted,
       waiting, fate, Types, TypeOK, PassiveLeg
  <2>10. CASE Publish(n)
    BY <2>10, CheckpointConstants, Types, PassiveLeg DEF Publish, vars, counted, waiting, fate,
       Types, TypeOK, PassiveLeg
  <2>11. CASE Announced(n)
    BY <2>11, CheckpointConstants, Types, PassiveLeg DEF Announced, vars, counted, waiting,
       fate, Types, TypeOK, PassiveLeg
  <2>12. CASE Park(n)
    BY <2>12, CheckpointConstants, Types, PassiveLeg DEF Park, vars, counted, waiting, fate,
       Types, TypeOK, PassiveLeg
  <2>13. CASE MediaDone(n)
    BY <2>13, CheckpointConstants, Types, PassiveLeg DEF MediaDone, ClearMediaJob, vars,
       counted, waiting, fate, Types, TypeOK, PassiveLeg
  <2>14. CASE MediaPinned(n)
    BY <2>14, CheckpointConstants, Types, PassiveLeg DEF MediaPinned, SettleFailed, vars,
       counted, waiting, fate, Types, TypeOK, PassiveLeg
  <2>15. CASE MediaFails(n)
    BY <2>15, CheckpointConstants, Types, PassiveLeg DEF MediaFails, ClearMediaJob,
       SettleFailed, vars, counted, waiting, fate, Types, TypeOK, PassiveLeg
  <2> QED BY <1>1, <2>1, <2>2, <2>3, <2>4, <2>5, <2>6, <2>7, <2>8, <2>9, <2>10, <2>11,
    <2>12, <2>13, <2>14, <2>15 DEF Execute
<1>2. CASE Decide
  <2>1. ASSUME NEW p \in pendingGates, ClaimHuman(p) PROVE PassiveLeg'
    BY <2>1, CheckpointConstants, Types, PassiveLeg DEF ClaimHuman, vars, counted, waiting,
       fate, Types, TypeOK, PassiveLeg
  <2>2. ASSUME NEW p \in pendingGates, GateTimeout(p) PROVE PassiveLeg'
    BY <2>2, CheckpointConstants, Types, PassiveLeg DEF GateTimeout, SettleFailed, vars,
       counted, waiting, fate, Types, TypeOK, PassiveLeg
  <2>3. ASSUME NEW p \in pendingGates, NEW d \in {"approved", "rejected"}, ClaimBudget(p, d) PROVE PassiveLeg'
    BY <2>3, CheckpointConstants, Types, PassiveLeg DEF ClaimBudget, Deciding, vars, counted,
       waiting, fate, Types, TypeOK, PassiveLeg
  <2>4. ASSUME NEW n \in Node, HumanDecided(n) PROVE PassiveLeg'
    BY <2>4, CheckpointConstants, Types, PassiveLeg DEF HumanDecided, vars, counted, waiting,
       fate, Types, TypeOK, PassiveLeg
  <2>5. ASSUME NEW n \in Node, PinFails(n) PROVE PassiveLeg'
    BY <2>5, CheckpointConstants, Types, PassiveLeg DEF PinFails, vars, counted, waiting, fate,
       Types, TypeOK, PassiveLeg
  <2>6. ASSUME NEW n \in Node, BudgetRecorded(n) PROVE PassiveLeg'
    BY <2>6, CheckpointConstants, Types, PassiveLeg DEF BudgetRecorded, DecisionOver, Verdict,
       vars, counted, waiting, fate, Types, TypeOK, PassiveLeg
  <2>7. ASSUME NEW n \in Node, BudgetApplied(n) PROVE PassiveLeg'
    BY <2>7, CheckpointConstants, Types, PassiveLeg DEF BudgetApplied, DecisionOver, Verdict,
       vars, counted, waiting, fate, Types, TypeOK, PassiveLeg
  <2> QED BY <1>2, <2>1, <2>2, <2>3, <2>4, <2>5, <2>6, <2>7 DEF Decide
<1>3. CASE Cancel
  BY <1>3, CheckpointConstants, Types, PassiveLeg DEF Cancel, vars, counted, waiting, fate,
     Types, TypeOK, PassiveLeg
<1>4. CASE CeilingReached
  BY <1>4, CheckpointConstants, Types, PassiveLeg DEF CeilingReached, vars, counted, waiting,
     fate, Types, TypeOK, PassiveLeg
<1>5. CASE PauseRun
  BY <1>5, CheckpointConstants, Types, PassiveLeg DEF PauseRun, vars, counted, waiting, fate,
     Types, TypeOK, PassiveLeg
<1>6. CASE Stall
  BY <1>6, CheckpointConstants, Types, PassiveLeg DEF Stall, vars, counted, waiting, fate,
     Types, TypeOK, PassiveLeg
<1>7. CASE Settle
  BY <1>7, CheckpointConstants, Types, PassiveLeg DEF Settle, vars, counted, waiting, fate,
     Types, TypeOK, PassiveLeg
<1>8. CASE AppendEvent
  BY <1>8, CheckpointConstants, Types, PassiveLeg DEF AppendEvent, vars, counted, waiting, fate,
     Types, TypeOK, PassiveLeg
<1>9. CASE Crash
  BY <1>9, CheckpointConstants, Types, PassiveLeg DEF Crash, BlankLeg, vars, counted, waiting,
     fate, Types, TypeOK, PassiveLeg
<1>10. CASE Reconcile
  BY <1>10, CheckpointConstants, Types, PassiveLeg DEF Reconcile, vars, counted, waiting, fate,
     Types, TypeOK, PassiveLeg
<1>11. CASE Resume
  <2>1. ASSUME NEW q \in Waiting, ResumeHuman(q) PROVE PassiveLeg'
    BY <2>1, CheckpointConstants, Types, PassiveLeg DEF ResumeHuman, Seeded, Activated,
       NoDecision, vars, counted, waiting, fate, Types, TypeOK, PassiveLeg
  <2>2. ASSUME NEW q \in Waiting, NEW d \in {"approved", "rejected"}, ResumeBudget(q, d) PROVE PassiveLeg'
    BY SMTT(30), <2>2, CheckpointConstants, Types, PassiveLeg DEF ResumeBudget, Seeded, Deciding,
       NoDecision, Waiting, PendingGates, vars, counted, waiting, fate, Types, TypeOK,
       PassiveLeg
  <2>3. ASSUME NEW g \in Answered, ResumeAnswered(g) PROVE PassiveLeg'
    BY <2>3, CheckpointConstants, Types, PassiveLeg DEF ResumeAnswered, Seeded, Activated,
       NoDecision, vars, counted, waiting, fate, Types, TypeOK, PassiveLeg
  <2>4. CASE ResumeMedia
    BY <2>4, CheckpointConstants, Types, PassiveLeg DEF ResumeMedia, Seeded, Activated,
       NoDecision, vars, counted, waiting, fate, Types, TypeOK, PassiveLeg
  <2>5. ASSUME NEW type \in {"run:failed", "run:cancelled"}, ResumeEnds(type) PROVE PassiveLeg'
    BY <2>5, CheckpointConstants, Types, PassiveLeg DEF ResumeEnds, Seeded, NoDecision, vars,
       counted, waiting, fate, Types, TypeOK, PassiveLeg
  <2>6. ASSUME NEW m \in Node, ResumeOverdue(m) PROVE PassiveLeg'
    BY <2>6, CheckpointConstants, Types, PassiveLeg DEF ResumeOverdue, Seeded, NoDecision, vars,
       counted, waiting, fate, Types, TypeOK, PassiveLeg
  <2> QED BY <1>11, <2>1, <2>2, <2>3, <2>4, <2>5, <2>6 DEF Resume
<1>12. CASE Done \/ UNCHANGED vars
  BY <1>12, CheckpointConstants, Types, PassiveLeg DEF Done, vars, counted, waiting, fate,
     Types, TypeOK, PassiveLeg
<1> QED BY <1>1, <1>2, <1>3, <1>4, <1>5, <1>6, <1>7, <1>8, <1>9, <1>10, <1>11, <1>12 DEF
  Next


(* A vertex that fails stops the run. *)
LEMMA FailureStops ==
    ASSUME NEW n, SettleFailed(n)
    PROVE  Stopping'
BY DEF SettleFailed, Fail, Stopping

(* No step loses the timer of an open gate. *)
LEMMA DeadlineStep ==
    ASSUME CheckpointConstants, Types, JobsElsewhere, PublishingWaits, PassiveLeg,
           DeadlinesKept, [Next]_vars
    PROVE  DeadlinesKept'
<1>1. ASSUME NEW n \in Node, Execute(n) PROVE DeadlinesKept'
  <2>1. CASE Skip(n)
    BY <2>1, CheckpointConstants, Types, DeadlinesKept, FailureStops DEF Skip, vars, counted,
       waiting, fate, CheckpointConstants, Types, TypeOK, Stopping, DeadlinesKept
  <2>2. CASE Claim(n)
    <3>1. ~ Publishing(n)
      BY <2>2, PublishingWaits DEF Claim, Claimable, PublishingWaits
    <3> QED BY <2>2, <3>1, Types, DeadlinesKept DEF Claim, Publishing, waiting, fate, Types, TypeOK,
         Stopping, DeadlinesKept
  <2>3. CASE Enter(n)
    BY <2>3, CheckpointConstants, Types, DeadlinesKept, FailureStops DEF Enter, vars, counted,
       waiting, fate, CheckpointConstants, Types, TypeOK, Stopping, DeadlinesKept
  <2>4. CASE Complete(n)
    BY <2>4, CheckpointConstants, Types, DeadlinesKept, FailureStops DEF Complete, vars,
       counted, waiting, fate, CheckpointConstants, Types, TypeOK, Stopping, DeadlinesKept
  <2>5. CASE AttemptFails(n)
    BY <2>5, CheckpointConstants, Types, DeadlinesKept, FailureStops DEF AttemptFails, vars,
       counted, waiting, fate, CheckpointConstants, Types, TypeOK, Stopping, DeadlinesKept
  <2>6. CASE Redispatch(n)
    BY <2>6, CheckpointConstants, Types, DeadlinesKept, FailureStops DEF Redispatch, Dispatch,
       vars, counted, waiting, fate, CheckpointConstants, Types, TypeOK, Stopping, DeadlinesKept
  <2>7. CASE NodeDeadline(n)
    BY <2>7, CheckpointConstants, Types, DeadlinesKept, FailureStops DEF NodeDeadline, vars,
       counted, waiting, fate, CheckpointConstants, Types, TypeOK, Stopping, DeadlinesKept
  <2>8. CASE PauseAtGate(n)
    BY <2>8, CheckpointConstants, Types, DeadlinesKept, FailureStops DEF PauseAtGate, Opens,
       vars, counted, waiting, fate, CheckpointConstants, Types, TypeOK, Stopping, DeadlinesKept
  <2>9. CASE PauseForBudget(n)
    BY <2>9, CheckpointConstants, Types, DeadlinesKept, FailureStops DEF PauseForBudget, Opens,
       Agents, vars, counted, waiting, fate, CheckpointConstants, Types, TypeOK, Stopping,
       DeadlinesKept
  <2>10. CASE Publish(n)
    BY <2>10, CheckpointConstants, Types, DeadlinesKept, FailureStops DEF Publish, vars,
       counted, waiting, fate, CheckpointConstants, Types, TypeOK, Stopping, DeadlinesKept
  <2>11. CASE Announced(n)
    BY <2>11, CheckpointConstants, Types, DeadlinesKept, FailureStops DEF Announced, vars,
       counted, waiting, fate, CheckpointConstants, Types, TypeOK, Stopping, DeadlinesKept
  <2>12. CASE Park(n)
    BY <2>12, CheckpointConstants, Types, DeadlinesKept, FailureStops DEF Park, vars, counted,
       waiting, fate, CheckpointConstants, Types, TypeOK, Stopping, DeadlinesKept
  <2>13. CASE MediaDone(n)
    <3>1. n \notin Deadlined
      BY <2>13, CheckpointConstants, JobsElsewhere DEF MediaDone, Polled, CheckpointConstants, JobsElsewhere
    <3> QED BY <2>13, <3>1, Types, DeadlinesKept DEF MediaDone, waiting, fate, Types, TypeOK, Stopping,
         DeadlinesKept
  <2>14. CASE MediaPinned(n)
    BY <2>14, CheckpointConstants, Types, DeadlinesKept, FailureStops DEF MediaPinned, vars,
       counted, waiting, fate, CheckpointConstants, Types, TypeOK, Stopping, DeadlinesKept
  <2>15. CASE MediaFails(n)
    BY <2>15, CheckpointConstants, Types, DeadlinesKept, FailureStops DEF MediaFails,
       ClearMediaJob, vars, counted, waiting, fate, CheckpointConstants, Types, TypeOK,
       Stopping, DeadlinesKept
  <2> QED BY <1>1, <2>1, <2>2, <2>3, <2>4, <2>5, <2>6, <2>7, <2>8, <2>9, <2>10, <2>11,
    <2>12, <2>13, <2>14, <2>15 DEF Execute
<1>2. CASE Decide
  <2>1. ASSUME NEW p \in pendingGates, ClaimHuman(p) PROVE DeadlinesKept'
    BY <2>1, CheckpointConstants, Types, DeadlinesKept, FailureStops DEF ClaimHuman, vars,
       counted, waiting, fate, CheckpointConstants, Types, TypeOK, Stopping, DeadlinesKept
  <2>2. ASSUME NEW p \in pendingGates, GateTimeout(p) PROVE DeadlinesKept'
    BY <2>2, CheckpointConstants, Types, DeadlinesKept, FailureStops DEF GateTimeout, vars,
       counted, waiting, fate, CheckpointConstants, Types, TypeOK, Stopping, DeadlinesKept
  <2>3. ASSUME NEW p \in pendingGates, NEW d \in {"approved", "rejected"}, ClaimBudget(p, d) PROVE DeadlinesKept'
    BY <2>3, CheckpointConstants, Types, DeadlinesKept, FailureStops DEF ClaimBudget, Deciding,
       vars, counted, waiting, fate, CheckpointConstants, Types, TypeOK, Stopping, DeadlinesKept
  <2>4. ASSUME NEW n \in Node, HumanDecided(n) PROVE DeadlinesKept'
    BY <2>4, CheckpointConstants, Types, DeadlinesKept, FailureStops DEF HumanDecided, vars,
       counted, waiting, fate, CheckpointConstants, Types, TypeOK, Stopping, DeadlinesKept
  <2>5. ASSUME NEW n \in Node, PinFails(n) PROVE DeadlinesKept'
    BY <2>5, CheckpointConstants, Types, DeadlinesKept, FailureStops DEF PinFails, Fail, vars,
       counted, waiting, fate, CheckpointConstants, Types, TypeOK, Stopping, DeadlinesKept
  <2>6. ASSUME NEW n \in Node, BudgetRecorded(n) PROVE DeadlinesKept'
    <3>1. CASE CanAuthorize
      BY <2>6, <3>1, DeadlinesKept DEF BudgetRecorded, Active, fate, Stopping, DeadlinesKept
    <3>2. CASE ~ CanAuthorize
      BY <2>6, <3>2 DEF BudgetRecorded, CanAuthorize, fate, Stopping, DeadlinesKept
    <3> QED BY <3>1, <3>2
  <2>7. ASSUME NEW n \in Node, BudgetApplied(n) PROVE DeadlinesKept'
    <3>1. CASE Stopping'
      BY <3>1 DEF DeadlinesKept
    <3>2. CASE ~ Stopping' /\ leg = "live"
      <4>1. timers' = timers /\ pendingGates' \subseteq pendingGates /\ ~ Stopping
        BY <2>7, <3>2 DEF BudgetApplied, DecisionOver, Fail, Stopping
      <4> QED BY <2>7, <3>2, <4>1, DeadlinesKept DEF BudgetApplied, DeadlinesKept
    <3>3. CASE ~ Stopping' /\ leg # "live"
      <4>1. leg = "passive" /\ decision[n] # "none" /\ ~ Stopping /\ ~ failure'
        BY <2>7, <3>3 DEF BudgetApplied, Active, Fail, Stopping
      <4>2. GateOf(n) \in pendingGates
        BY <4>1, PassiveLeg DEF PassiveLeg, GateOf
      <4>3. pendingGates' = pendingGates \ {GateOf(n)}
            /\ timers' = ArmedAgain(pendingGates, GateOf(n).gate)
        BY <2>7, <4>1 DEF BudgetApplied, DecisionOver
      <4>4. \A p \in pendingGates' : p.gate # GateOf(n).gate
        BY <4>1, <4>2, <4>3, PassiveLeg DEF PassiveLeg
      <4> QED BY <4>3, <4>4 DEF ArmedAgain, DeadlinesKept
    <3> QED BY <3>1, <3>2, <3>3
  <2> QED BY <1>2, <2>1, <2>2, <2>3, <2>4, <2>5, <2>6, <2>7 DEF Decide
<1>3. CASE Cancel
  BY <1>3, CheckpointConstants, Types, DeadlinesKept, FailureStops DEF Cancel, vars, counted,
     waiting, fate, CheckpointConstants, Types, TypeOK, Stopping, DeadlinesKept
<1>4. CASE CeilingReached
  BY <1>4, CheckpointConstants, Types, DeadlinesKept, FailureStops DEF CeilingReached, vars,
     counted, waiting, fate, CheckpointConstants, Types, TypeOK, Stopping, DeadlinesKept
<1>5. CASE PauseRun
  BY <1>5, CheckpointConstants, Types, DeadlinesKept, FailureStops DEF PauseRun, vars, counted,
     waiting, fate, CheckpointConstants, Types, TypeOK, Stopping, DeadlinesKept
<1>6. CASE Stall
  BY <1>6, CheckpointConstants, Types, DeadlinesKept, FailureStops DEF Stall, vars, counted,
     waiting, fate, CheckpointConstants, Types, TypeOK, Stopping, DeadlinesKept
<1>7. CASE Settle
  BY <1>7, CheckpointConstants, Types, DeadlinesKept, FailureStops DEF Settle, vars, counted,
     waiting, fate, CheckpointConstants, Types, TypeOK, Stopping, DeadlinesKept
<1>8. CASE AppendEvent
  BY <1>8, CheckpointConstants, Types, DeadlinesKept, FailureStops DEF AppendEvent, vars,
     counted, waiting, fate, CheckpointConstants, Types, TypeOK, Stopping, DeadlinesKept
<1>9. CASE Crash
  BY <1>9, CheckpointConstants, Types, DeadlinesKept, FailureStops DEF Crash, BlankLeg, vars,
     counted, waiting, fate, CheckpointConstants, Types, TypeOK, Stopping, DeadlinesKept
<1>10. CASE Reconcile
  BY <1>10, CheckpointConstants, Types, DeadlinesKept, FailureStops DEF Reconcile, vars,
     counted, waiting, fate, CheckpointConstants, Types, TypeOK, Stopping, DeadlinesKept
<1>11. CASE Resume
  <2>1. ASSUME NEW q \in Waiting, ResumeHuman(q) PROVE DeadlinesKept'
    BY <2>1, CheckpointConstants, Types, DeadlinesKept, FailureStops DEF ResumeHuman, Seeded,
       Activated, NoDecision, ArmedAgain, vars, counted, waiting, fate, CheckpointConstants,
       Types, TypeOK, Stopping, DeadlinesKept
  <2>2. ASSUME NEW q \in Waiting, NEW d \in {"approved", "rejected"}, ResumeBudget(q, d) PROVE DeadlinesKept'
    BY <2>2, CheckpointConstants, Types, DeadlinesKept, FailureStops DEF ResumeBudget, Seeded,
       Deciding, NoDecision, vars, counted, waiting, fate, CheckpointConstants, Types, TypeOK,
       Stopping, DeadlinesKept
  <2>3. ASSUME NEW g \in Answered, ResumeAnswered(g) PROVE DeadlinesKept'
    BY <2>3, CheckpointConstants, Types, DeadlinesKept, FailureStops DEF ResumeAnswered, Seeded,
       Activated, NoDecision, ArmedAgain, vars, counted, waiting, fate, CheckpointConstants,
       Types, TypeOK, Stopping, DeadlinesKept
  <2>4. CASE ResumeMedia
    BY <2>4, CheckpointConstants, Types, DeadlinesKept, FailureStops DEF ResumeMedia, Seeded,
       Activated, NoDecision, MediaRequest, vars, counted, waiting, fate, CheckpointConstants,
       Types, TypeOK, Stopping, DeadlinesKept
  <2>5. ASSUME NEW type \in {"run:failed", "run:cancelled"}, ResumeEnds(type) PROVE DeadlinesKept'
    BY <2>5, CheckpointConstants, Types, DeadlinesKept, FailureStops DEF ResumeEnds, Seeded,
       NoDecision, vars, counted, waiting, fate, CheckpointConstants, Types, TypeOK, Stopping,
       DeadlinesKept
  <2>6. ASSUME NEW m \in Node, ResumeOverdue(m) PROVE DeadlinesKept'
    BY <2>6, CheckpointConstants, Types, DeadlinesKept, FailureStops DEF ResumeOverdue, Seeded,
       NoDecision, vars, counted, waiting, fate, CheckpointConstants, Types, TypeOK, Stopping,
       DeadlinesKept
  <2> QED BY <1>11, <2>1, <2>2, <2>3, <2>4, <2>5, <2>6 DEF Resume
<1>12. CASE Done \/ UNCHANGED vars
  BY <1>12, CheckpointConstants, Types, DeadlinesKept, FailureStops DEF Done, vars, counted,
     waiting, fate, CheckpointConstants, Types, TypeOK, Stopping, DeadlinesKept
<1> QED BY <1>1, <1>2, <1>3, <1>4, <1>5, <1>6, <1>7, <1>8, <1>9, <1>10, <1>11, <1>12 DEF
  Next

-----------------------------------------------------------------------------
(* The invariant and what follows from it.                                   *)

(* A run starts with an empty log, in the process that created it. *)
LEMMA CheckpointStart ==
    ASSUME CheckpointConstants, Init
    PROVE  CheckpointInv
<1>1. Types
  <2>1. TypeOK
    BY CheckpointConstants DEF CheckpointConstants, Init, NoRecord, TypeOK, Steps, Settled
  <2>2. IsSuspension(NoSuspension)
    BY DEF NoSuspension, IsSuspension
  <2>3. IsRecord(NoRecord)
    BY <2>2 DEF NoRecord, IsRecord, RunStates, NodeStates
  <2> QED BY <2>1, <2>3 DEF Init, Types
<1>2. TailFree
  <2>1. <<>> \in Seq({}) /\ \A e \in {} : JobFree(e)
    OBVIOUS
  <2> QED BY <2>1 DEF Init, TailFree
<1>3. JobsElsewhere
  BY CheckpointConstants DEF CheckpointConstants, Init, NoRecord, NoSuspension, JobsElsewhere
<1>4. PublishingWaits /\ PassiveLeg /\ DeadlinesKept
  BY DEF Init, Publishing, PublishingWaits, PassiveLeg, DeadlinesKept
<1> QED BY <1>1, <1>2, <1>3, <1>4 DEF CheckpointInv

(* The inductive invariant: the fold of the log stays whole, gates have no jobs,
   a gate that is being announced is not started again, and a process whose
   checkpoint waits for its decision holds the gate of that decision
   (checkpoint.ts, run-suspension.ts, engine.ts). *)
THEOREM CheckpointInvariant == Spec => []CheckpointInv
<1>1. Init => CheckpointInv
  BY CheckpointConstants, CheckpointStart
<1>2. CheckpointInv /\ [Next]_vars => CheckpointInv'
  <2> SUFFICES ASSUME CheckpointInv, [Next]_vars PROVE CheckpointInv'
    OBVIOUS
  <2>1. Types'
    BY CheckpointConstants, TypeStep, RecordStep DEF CheckpointInv, Types
  <2>2. TailFree'
    BY CheckpointConstants, TailStep DEF CheckpointInv
  <2>3. JobsElsewhere'
    BY CheckpointConstants, JobsStep DEF CheckpointInv
  <2>4. PublishingWaits'
    BY CheckpointConstants, PublishingStep DEF CheckpointInv
  <2>5. PassiveLeg'
    BY CheckpointConstants, PassiveStep DEF CheckpointInv
  <2>6. DeadlinesKept'
    BY CheckpointConstants, DeadlineStep DEF CheckpointInv
  <2> QED BY <2>1, <2>2, <2>3, <2>4, <2>5, <2>6 DEF CheckpointInv
<1> QED BY <1>1, <1>2, PTL DEF Spec

(* Everything a process keeps of a run, and the fold of its log, keeps its type
   over any number of deaths (#seedFromCheckpoint in engine.ts). *)
THEOREM CheckpointTypes == Spec => []TypeOK
<1>1. CheckpointInv => TypeOK
  BY DEF CheckpointInv, Types
<1> QED BY <1>1, CheckpointInvariant, PTL

(* For every plan, and over any number of deaths, an announced gate with a
   deadline that nobody has answered has its timer, in the process that opened
   it or in the one that found it (#publishPause and #activateCheckpoint in
   engine.ts). *)
THEOREM DeadlinesRearmed == Spec => []DeadlinesKept
<1>1. CheckpointInv => DeadlinesKept
  BY DEF CheckpointInv
<1> QED BY <1>1, CheckpointInvariant, PTL

-----------------------------------------------------------------------------
(* What an event does to each field of the fold.                             *)

(* The fate of the vertices after an event, before its gate transition; and  *)
(* after it.                                                                  *)
Mark(N, e) ==
    CASE e.type = "node:completed" -> [N EXCEPT ![e.node] = "completed"]
      [] e.type = "node:failed"    -> [N EXCEPT ![e.node] = "failed"]
      [] e.type = "node:skipped"   -> [N EXCEPT ![e.node] = "skipped"]
      [] e.type = "media_job:submitted" /\ N[e.node] \notin Settled -> [N EXCEPT ![e.node] = "paused"]
      [] OTHER -> N

(* What a transition of a gate does to its vertex (#applyGateEvent). *)
GateMark(N, kind, n) ==
    CASE kind = "paused"   -> [N EXCEPT ![n] = "paused"]
      [] kind = "human"    -> [N EXCEPT ![n] = "completed"]
      [] kind = "approved" -> [N EXCEPT ![n] = "none"]
      [] kind = "rejected" -> [N EXCEPT ![n] = "failed"]
      [] OTHER -> N

(* The fate of the run after an event. *)
RunAfter(run, e) ==
    CASE e.type = "run:paused"    -> "paused"
      [] e.type = "run:completed" -> "completed"
      [] e.type = "run:failed"    -> "failed"
      [] e.type = "run:cancelled" -> "cancelled"
      [] OTHER -> run

(* q is r after the event e, which made the transition "kind" of the gate of v. *)
Follows(r, q, e, t, kind, v) ==
    /\ IsRecord(q) /\ q.suspensions = t
    /\ q.run = RunAfter(r.run, e)
    /\ q.dispatches = IF e.type = "node:started" THEN r.dispatches + 1 ELSE r.dispatches
    /\ q.selected = IF e.type = "node:completed" THEN [r.selected EXCEPT ![e.node] = e.selected]
                    ELSE r.selected
    /\ q.lives = [n \in Node |-> q.lives[n]]
    /\ \A n \in Node : q.lives[n] = IF n = e.node THEN ApplyLife(r.lives[n], e, kind, q.dispatches)
                                    ELSE r.lives[n]
    /\ q.node = GateMark(Mark(r.node, e), kind, v)

(* The parts of ApplyEvent, one field at a time. *)
LEMMA EventParts ==
    ASSUME NEW r, IsRecord(r), ~ r.suspensions.corrupt, NEW e,
           NEW t, NEW kind, NEW v, ApplySuspension(r.suspensions, e) = Moved(t, kind, v),
           NEW q, q = ApplyEvent(r, e)
    PROVE  Follows(r, q, e, t, kind, v)
<1> DEFINE a == ApplyRunEvent(r, e)
           b == ApplyNodeEvent(a, e)
           c == ApplyMediaJobEvent(b, e)
           L == [n \in Node |-> IF n = e.node THEN ApplyLife(c.lives[n], e, kind, c.dispatches)
                                ELSE c.lives[n]]
           w == [c EXCEPT !.suspensions = t, !.lives = L]
<1> DEFINE Rest(x, y) == x = [k \in {"run", "node", "selected", "dispatches", "suspensions", "lives"} |-> x[k]]
                         /\ x.lives = y.lives
<1>1. /\ Rest(a, r) /\ a.run = RunAfter(r.run, e) /\ a.node = r.node
      /\ a.dispatches = r.dispatches /\ a.selected = r.selected
  BY DEF ApplyRunEvent, IsRecord, RunAfter
<1>2. /\ Rest(b, r) /\ b.run = a.run
      /\ b.node = CASE e.type = "node:completed" -> [r.node EXCEPT ![e.node] = "completed"]
                    [] e.type = "node:failed"    -> [r.node EXCEPT ![e.node] = "failed"]
                    [] e.type = "node:skipped"   -> [r.node EXCEPT ![e.node] = "skipped"]
                    [] OTHER -> r.node
      /\ b.dispatches = IF e.type = "node:started" THEN r.dispatches + 1 ELSE r.dispatches
      /\ b.selected = IF e.type = "node:completed" THEN [r.selected EXCEPT ![e.node] = e.selected]
                      ELSE r.selected
  <2> HIDE DEF a
  <2>1. CASE e.type = "node:completed"
    <3>1. b = [a EXCEPT !.node[e.node] = "completed", !.selected[e.node] = e.selected]
      BY <2>1 DEF ApplyNodeEvent
    <3> QED BY <1>1, <2>1, <3>1
  <2>2. CASE e.type # "node:completed"
    BY <1>1, <2>2 DEF ApplyNodeEvent
  <2> QED BY <2>1, <2>2
<1>3. /\ Rest(c, r) /\ c.run = b.run /\ c.dispatches = b.dispatches /\ c.selected = b.selected
      /\ c.node = Mark(r.node, e)
  <2> HIDE DEF b
  <2>1. CASE e.type = "media_job:submitted" /\ b.node[e.node] \notin Settled
    <3>1. c = [b EXCEPT !.node[e.node] = "paused"]
      BY <2>1 DEF ApplyMediaJobEvent
    <3>2. b.node = r.node
      BY <1>2, <2>1
    <3>3. Mark(r.node, e) = [r.node EXCEPT ![e.node] = "paused"]
      BY <2>1, <3>2 DEF Mark
    <3> QED BY <1>2, <3>1, <3>2, <3>3
  <2>2. CASE ~ (e.type = "media_job:submitted" /\ b.node[e.node] \notin Settled)
    <3>1. c = b
      BY <2>2 DEF ApplyMediaJobEvent
    <3>2. Mark(r.node, e) = b.node
      BY <1>2, <2>2 DEF Mark
    <3> QED BY <1>2, <3>1, <3>2
  <2> QED BY <2>1, <2>2
<1>4. /\ w = [k \in {"run", "node", "selected", "dispatches", "suspensions", "lives"} |-> w[k]]
      /\ w.suspensions = t /\ w.run = c.run /\ w.node = c.node /\ w.selected = c.selected
      /\ w.dispatches = c.dispatches /\ w.lives = L
  <2> HIDE DEF c, L
  <2> QED BY <1>3
<1>5. q = ApplyGateEvent(w, kind, v)
  <2> DEFINE s == ApplySuspension(r.suspensions, e)
  <2>1. s.state = t /\ s.kind = kind /\ s.node = v
    BY DEF Moved
  <2>2. q = ApplyGateEvent([c EXCEPT !.suspensions = s.state,
                !.lives = [n \in Node |-> IF n = e.node THEN ApplyLife(c.lives[n], e, s.kind, c.dispatches)
                                          ELSE c.lives[n]]], s.kind, s.node)
    BY DEF ApplyEvent
  <2> HIDE DEF s
  <2> QED BY <2>1, <2>2
<1>6. /\ q.suspensions = w.suspensions /\ q.run = w.run /\ q.selected = w.selected
      /\ q.dispatches = w.dispatches /\ q.lives = w.lives
      /\ q.node = GateMark(w.node, kind, v)
  <2> HIDE DEF w
  <2> QED BY <1>4, <1>5 DEF ApplyGateEvent, GateMark
<1>7. L = [n \in Node |-> IF n = e.node THEN ApplyLife(r.lives[n], e, kind, c.dispatches) ELSE r.lives[n]]
  <2> HIDE DEF c
  <2> QED BY <1>3
<1>8. IsRecord(q)
  BY EventFold
<1> HIDE DEF a, b, c, w, L
<1> QED BY <1>1, <1>2, <1>3, <1>4, <1>6, <1>7, <1>8 DEF Follows

-----------------------------------------------------------------------------
(* What every prefix of the log says.                                        *)
Answers == {"none", "approved", "rejected"}
Gate == [node : Node, active : BOOLEAN, budget : BOOLEAN, allowance : {"none", "frozen"},
         authorityPause : BOOLEAN, authorityDecision : Answers, humanDecision : Answers]
Life == [startedAt : Nat, attempt : Nat, nextRetry : Nat, budgetContinuation : BOOLEAN, valid : BOOLEAN]

(* The gates of a record, by the dispatch that announced each. *)
GatesOf(r) == r.suspensions.gates

(* A readable fold: nothing contradicts, every gate was announced by a
   dispatch that began, and only a condition chose branches. *)
Form(r) ==
    /\ IsRecord(r) /\ ~ r.suspensions.corrupt
    /\ GatesOf(r) = [g \in DOMAIN GatesOf(r) |-> GatesOf(r)[g]]
    /\ DOMAIN GatesOf(r) \subseteq 1 .. r.dispatches
    /\ r.lives \in [Node -> Life]
    /\ r.run = "completed" => r.suspensions.terminalRun
    /\ r.selected = [n \in Node |-> r.selected[n]]
    /\ \A n \in Node \ Conditions : r.selected[n] = {}

(* A gate an answer may still come for has its vertex parked there and
   nowhere else; one for money names its frozen allowance, and its two
   answers agree. A rejection of money rules out that the run completes. *)
GateSound(r, g) ==
    LET h == GatesOf(r)[g]
    IN  /\ h \in Gate
        /\ h.active => /\ ~ IsResolved(h) /\ h.node \notin r.suspensions.terminalNodes
                       /\ r.node[h.node] = "paused" /\ r.suspensions.media[h.node] = NoJob
        /\ h.budget => /\ h.node \in Budgeted /\ h.allowance = "frozen" /\ h.authorityPause
                       /\ h.humanDecision \in {"none", h.authorityDecision}
        /\ ~ h.budget => h.node \in Gates /\ h.allowance = "none" /\ h.authorityDecision = "none"
        /\ h.budget /\ h.authorityDecision = "rejected" => r.run # "completed"

(* No vertex waits at two gates. *)
OneGateEach(r) ==
    \A g, k \in DOMAIN GatesOf(r) :
        GatesOf(r)[g].active /\ GatesOf(r)[k].active /\ GatesOf(r)[g].node = GatesOf(r)[k].node => g = k

(* A vertex is parked exactly when it has a job or an open gate, a vertex the
   fold holds to be over is settled, and the clock of its life fits what it
   does. *)
VertexSound(r, n) ==
    LET life == r.lives[n]
        s == r.suspensions
    IN  /\ s.media[n] \in Nat
        /\ s.media[n] # NoJob => r.node[n] = "paused" /\ n \in MediaNodes
        /\ r.node[n] = "paused" =>
              s.media[n] # NoJob \/ \E g \in DOMAIN GatesOf(r) : GatesOf(r)[g].active /\ GatesOf(r)[g].node = n
        /\ n \in s.terminalNodes => r.node[n] \in Settled
        /\ n \notin Agents => life = NoLife
        /\ life.budgetContinuation => life.valid /\ life.nextRetry = 0 /\ r.node[n] = "none"
        /\ r.node[n] = "paused" /\ n \in Agents => life.valid /\ life.nextRetry = 0
        /\ life.valid => life.startedAt # 0

(* A record that every event the engine writes next can be folded into. *)
Sound(r) ==
    /\ Form(r) /\ OneGateEach(r)
    /\ \A g \in DOMAIN GatesOf(r) : GateSound(r, g)
    /\ \A n \in Node : VertexSound(r, n)

(* The event e may follow the record r: the run is not over and its vertex is
   not settled already. *)
Told(r, e) ==
    /\ ~ r.suspensions.terminalRun
    /\ e.type \in {"node:started", "media_job:submitted", "node:completed", "node:skipped"} =>
          r.node[e.node] \notin Settled
    /\ e.type \in {"node:started", "media_job:submitted"} => r.node[e.node] # "paused"
    /\ e.type = "node:failed" => r.node[e.node] \notin {"completed", "skipped"}

(* Every vertex with a budget, a media job or a deadline is an agent: the
   plan gives none to a gate or to a condition. *)
LEMMA SoundAgents == CheckpointConstants => Budgeted \subseteq Agents /\ MediaNodes \subseteq Agents /\ Timed \subseteq Agents
BY DEF CheckpointConstants

(* From r to q nothing changes about a vertex other than n. *)
Spares(r, q, n) ==
    /\ \A m \in Node \ {n} :
         /\ q.node[m] = r.node[m] /\ q.lives[m] = r.lives[m]
         /\ q.suspensions.media[m] = r.suspensions.media[m]
         /\ m \in q.suspensions.terminalNodes => m \in r.suspensions.terminalNodes
    /\ DOMAIN GatesOf(r) \subseteq DOMAIN GatesOf(q)
    /\ \A g \in DOMAIN GatesOf(r) : GatesOf(r)[g].node # n => GatesOf(q)[g] = GatesOf(r)[g]
    /\ \A g \in DOMAIN GatesOf(q) :
         GatesOf(q)[g].node # n => g \in DOMAIN GatesOf(r) /\ GatesOf(q)[g] = GatesOf(r)[g]

(* Then q is sound if it is about n. *)
LEMMA SoundElsewhere ==
    ASSUME NEW r, NEW q, NEW n \in Node, Sound(r), Spares(r, q, n), Form(q), q.run = r.run,
           VertexSound(q, n),
           \A g \in DOMAIN GatesOf(q) : GatesOf(q)[g].node = n => GateSound(q, g),
           \A g, k \in DOMAIN GatesOf(q) :
              GatesOf(q)[g].active /\ GatesOf(q)[k].active /\ GatesOf(q)[g].node = n /\ GatesOf(q)[k].node = n
                 => g = k
    PROVE  Sound(q)
<1>1. ASSUME NEW m \in Node, m # n PROVE VertexSound(q, m)
  <2>1. VertexSound(r, m)
    BY DEF Sound
  <2>2. /\ q.node[m] = r.node[m] /\ q.lives[m] = r.lives[m]
        /\ q.suspensions.media[m] = r.suspensions.media[m]
        /\ m \in q.suspensions.terminalNodes => m \in r.suspensions.terminalNodes
    BY <1>1 DEF Spares
  <2>3. \A g \in DOMAIN GatesOf(r) :
           GatesOf(r)[g].active /\ GatesOf(r)[g].node = m
              => g \in DOMAIN GatesOf(q) /\ GatesOf(q)[g].active /\ GatesOf(q)[g].node = m
    BY <1>1 DEF Spares
  <2> QED BY <2>1, <2>2, <2>3 DEF VertexSound
<1>2. ASSUME NEW g \in DOMAIN GatesOf(q), GatesOf(q)[g].node # n PROVE GateSound(q, g)
  <2> DEFINE h == GatesOf(r)[g]
             m == h.node
  <2>1. g \in DOMAIN GatesOf(r) /\ GatesOf(q)[g] = h
    BY <1>2 DEF Spares
  <2>2. GateSound(r, g)
    BY <2>1 DEF Sound
  <2>3. m \in Node \ {n}
    BY <1>2, <2>1, <2>2 DEF GateSound, Gate
  <2>4. /\ q.node[m] = r.node[m] /\ q.suspensions.media[m] = r.suspensions.media[m]
        /\ m \in q.suspensions.terminalNodes => m \in r.suspensions.terminalNodes
    BY <2>3 DEF Spares
  <2> QED BY <2>1, <2>2, <2>4 DEF GateSound
<1>3. OneGateEach(q)
  BY DEF Sound, OneGateEach, Spares
<1> QED BY <1>1, <1>2, <1>3 DEF Sound

(* An event that is not about gates, jobs or the end of something. *)
LEMMA QuietSuspension ==
    ASSUME NEW s, NEW e, e.type \in {"node:started", "node:retrying", "run:paused"}
    PROVE  ApplySuspension(s, e) = Moved(s, "none", e.node)
BY DEF ApplySuspension, NodeTerminals, RunTerminals, Unmoved

(* A fold that moves no gate and no job spares everything but the life of n. *)
LEMMA LifeOnly ==
    ASSUME NEW r, NEW q, NEW n \in Node, Sound(r), IsRecord(q), q.suspensions = r.suspensions,
           q.run = r.run, q.node = r.node, q.selected = r.selected,
           q.dispatches \in Nat, r.dispatches <= q.dispatches,
           q.lives = [m \in Node |-> q.lives[m]], \A m \in Node : m # n => q.lives[m] = r.lives[m],
           q.lives[n] \in Life, n \notin Agents => q.lives[n] = NoLife,
           LET l == q.lives[n]
           IN  /\ l.budgetContinuation => l.valid /\ l.nextRetry = 0 /\ r.node[n] = "none"
               /\ r.node[n] = "paused" /\ n \in Agents => l.valid /\ l.nextRetry = 0
               /\ l.valid => l.startedAt # 0
    PROVE  Sound(q) /\ Spares(r, q, n)
<1>1. Spares(r, q, n)
  BY DEF Spares, GatesOf
<1>2. Form(q)
  <2>1. \A m \in Node : q.lives[m] \in Life
    BY DEF Sound, Form
  <2> QED BY <2>1 DEF Sound, Form, GatesOf, IsRecord
<1>3. VertexSound(q, n)
  BY DEF Sound, VertexSound, GatesOf
<1>4. \A g \in DOMAIN GatesOf(q) : GateSound(q, g)
  BY DEF Sound, GateSound, GatesOf
<1>5. OneGateEach(q)
  BY DEF Sound, OneGateEach, GatesOf
<1> QED BY <1>1, <1>2, <1>3, <1>4, <1>5, SoundElsewhere DEF OneGateEach

(* The fields of a life. *)
LEMMA LifeFields ==
    ASSUME NEW l \in Life
    PROVE  /\ l = [startedAt |-> l.startedAt, attempt |-> l.attempt, nextRetry |-> l.nextRetry,
                   budgetContinuation |-> l.budgetContinuation, valid |-> l.valid]
           /\ l.startedAt \in Nat /\ l.attempt \in Nat /\ l.nextRetry \in Nat
           /\ l.budgetContinuation \in BOOLEAN /\ l.valid \in BOOLEAN
BY DEF Life

(* A start: one more dispatch, and a life that goes on or begins. *)
LEMMA StartedFold ==
    ASSUME CheckpointConstants, NEW r, Sound(r), NEW n \in Node, NEW a \in Nat \ {0}, r.node[n] = "none",
           n \in Agents /\ a # 1 =>
             r.lives[n].valid /\ r.lives[n].nextRetry = a /\ r.lives[n].attempt = a - 1
             /\ ~ r.lives[n].budgetContinuation,
           NEW e, e = Started(n, a), NEW q, q = ApplyEvent(r, e)
    PROVE  /\ Sound(q) /\ Spares(r, q, n) /\ q.node = r.node /\ q.suspensions = r.suspensions /\ q.run = r.run
           /\ q.selected = r.selected /\ q.dispatches = r.dispatches + 1
           /\ n \in Agents =>
                /\ q.lives[n].valid /\ ~ q.lives[n].budgetContinuation
                /\ q.lives[n].attempt = a /\ q.lives[n].nextRetry = 0
                /\ q.lives[n].startedAt = IF a = 1 /\ ~ r.lives[n].budgetContinuation
                                          THEN r.dispatches + 1 ELSE r.lives[n].startedAt
<1> DEFINE l == r.lives[n]
           at == r.dispatches + 1
           k == q.lives[n]
<1>1. e.type = "node:started" /\ e.node = n /\ e.attempt = a
  BY DEF Started
<1>2. IsRecord(r) /\ l \in Life /\ r.dispatches \in Nat
  BY DEF Sound, Form, IsRecord
<1>3. /\ IsRecord(q) /\ q.suspensions = r.suspensions /\ q.run = r.run /\ q.selected = r.selected
      /\ q.dispatches = at /\ q.node = r.node
      /\ q.lives = [m \in Node |-> q.lives[m]] /\ \A m \in Node : m # n => q.lives[m] = r.lives[m]
      /\ k = ApplyLife(l, e, "none", at)
  <2>1. ApplySuspension(r.suspensions, e) = Moved(r.suspensions, "none", e.node)
    BY <1>1, QuietSuspension
  <2>2. GateMark(Mark(r.node, e), "none", e.node) = r.node /\ RunAfter(r.run, e) = r.run
    BY <1>1 DEF GateMark, Mark, RunAfter
  <2>3. q = ApplyEvent(r, e)
    OBVIOUS
  <2>4. Follows(r, q, e, r.suspensions, "none", e.node)
    BY <2>1, EventParts DEF Sound, Form
  <2>5. \A m \in Node : m # e.node => q.lives[m] = r.lives[m]
    BY <2>4 DEF Follows
  <2> QED BY <1>1, <2>2, <2>4, <2>5 DEF Follows
<1>4. k = IF n \in Agents THEN LifeStarted(l, e, at) ELSE l
  BY <1>1, <1>3 DEF ApplyLife
<1>5. CASE n \notin Agents
  <2>1. k = NoLife /\ NoLife \in Life /\ ~ NoLife.budgetContinuation /\ ~ NoLife.valid
    BY <1>4, <1>5 DEF Sound, VertexSound, NoLife, NewLife, Life
  <2> QED BY <1>2, <1>3, <1>5, <2>1, LifeOnly
<1>6. CASE n \in Agents
  <2> HIDE DEF k, l
  <2>1. /\ k \in Life /\ k.valid /\ ~ k.budgetContinuation /\ k.attempt = a /\ k.nextRetry = 0
        /\ k.startedAt = IF a = 1 /\ ~ l.budgetContinuation THEN at ELSE l.startedAt
        /\ k.startedAt # 0
    <3>1. (l.budgetContinuation => l.valid /\ l.nextRetry = 0) /\ (l.valid => l.startedAt # 0)
      BY DEF Sound, VertexSound, l
    <3>0. /\ l = [startedAt |-> l.startedAt, attempt |-> l.attempt, nextRetry |-> l.nextRetry,
                   budgetContinuation |-> l.budgetContinuation, valid |-> l.valid]
           /\ l.startedAt \in Nat /\ l.attempt \in Nat /\ l.nextRetry \in Nat
           /\ l.budgetContinuation \in BOOLEAN /\ l.valid \in BOOLEAN
      BY <1>2, LifeFields
    <3>2. CASE a = 1 /\ l.budgetContinuation
      <4>1. k = [l EXCEPT !.valid = l.valid /\ l.nextRetry = 0, !.budgetContinuation = FALSE,
                          !.attempt = 1, !.nextRetry = 0]
        BY <1>1, <1>4, <1>6, <3>2 DEF LifeStarted
      <4>2. (l.valid /\ l.nextRetry = 0) = TRUE
        BY <3>1, <3>2
      <4>3. k = [l EXCEPT !.valid = TRUE, !.budgetContinuation = FALSE, !.attempt = 1, !.nextRetry = 0]
        BY <4>1, <4>2
      <4> QED BY <3>0, <3>1, <3>2, <4>3 DEF Life
    <3>3. CASE a = 1 /\ ~ l.budgetContinuation
      <4>1. k = NewLife(at, 1, TRUE)
        BY <1>1, <1>4, <1>6, <3>3 DEF LifeStarted
      <4> QED BY <1>2, <3>3, <4>1 DEF Life, NewLife
    <3>4. CASE a # 1
      <4>0. l.valid /\ l.nextRetry = a /\ l.attempt = a - 1 /\ ~ l.budgetContinuation
        BY <1>6, <3>4 DEF l
      <4>1. l # NoLife
        BY <4>0 DEF NoLife, NewLife
      <4>2. k = [l EXCEPT !.valid = /\ l.valid /\ l.nextRetry = a /\ l.attempt = a - 1
                                    /\ ~ l.budgetContinuation,
                          !.attempt = a, !.nextRetry = 0]
        BY <1>1, <1>4, <1>6, <3>4, <4>1 DEF LifeStarted
      <4>3. (l.valid /\ l.nextRetry = a /\ l.attempt = a - 1 /\ ~ l.budgetContinuation) = TRUE
        BY <4>0
      <4>4. k = [l EXCEPT !.valid = TRUE, !.attempt = a, !.nextRetry = 0]
        BY <4>2, <4>3
      <4> QED BY <3>0, <3>1, <3>4, <4>0, <4>4 DEF Life
    <3> QED BY <3>2, <3>3, <3>4
  <2>2. Sound(q) /\ Spares(r, q, n)
    <3>1. q.lives[n] = k
      BY DEF k
    <3>2. q.dispatches \in Nat /\ r.dispatches <= q.dispatches
      BY <1>2, <1>3
    <3> QED BY <1>3, <1>6, <2>1, <3>1, <3>2, LifeOnly
  <2> QED BY <1>3, <2>1, <2>2 DEF k, l
<1> QED BY <1>5, <1>6

(* A retry is due: the life expects the next attempt. *)
LEMMA RetryingFold ==
    ASSUME CheckpointConstants, NEW r, Sound(r), NEW n \in Node, NEW a \in Nat, r.node[n] = "none",
           n \in Agents => r.lives[n].valid /\ r.lives[n].nextRetry = 0 /\ r.lives[n].attempt = a
                           /\ ~ r.lives[n].budgetContinuation,
           NEW e, e = Retrying(n, a), NEW q, q = ApplyEvent(r, e)
    PROVE  /\ Sound(q) /\ Spares(r, q, n) /\ q.node = r.node /\ q.suspensions = r.suspensions /\ q.run = r.run
           /\ q.selected = r.selected /\ q.dispatches = r.dispatches
           /\ n \in Agents =>
                /\ q.lives[n].valid /\ ~ q.lives[n].budgetContinuation
                /\ q.lives[n].attempt = a /\ q.lives[n].nextRetry = a + 1
                /\ q.lives[n].startedAt = r.lives[n].startedAt
<1> DEFINE l == r.lives[n]
           k == q.lives[n]
<1>1. e.type = "node:retrying" /\ e.node = n /\ e.attempt = a
  BY DEF Retrying
<1>2. IsRecord(r) /\ l \in Life /\ r.dispatches \in Nat
  BY DEF Sound, Form, IsRecord
<1>3. /\ IsRecord(q) /\ q.suspensions = r.suspensions /\ q.run = r.run /\ q.selected = r.selected
      /\ q.dispatches = r.dispatches /\ q.node = r.node
      /\ q.lives = [m \in Node |-> q.lives[m]] /\ \A m \in Node : m # n => q.lives[m] = r.lives[m]
      /\ k = ApplyLife(l, e, "none", q.dispatches)
  <2>1. ApplySuspension(r.suspensions, e) = Moved(r.suspensions, "none", e.node)
    BY <1>1, QuietSuspension
  <2>2. GateMark(Mark(r.node, e), "none", e.node) = r.node /\ RunAfter(r.run, e) = r.run
    BY <1>1 DEF GateMark, Mark, RunAfter
  <2>4. Follows(r, q, e, r.suspensions, "none", e.node)
    BY <2>1, EventParts DEF Sound, Form
  <2>5. \A m \in Node : m # e.node => q.lives[m] = r.lives[m]
    BY <2>4 DEF Follows
  <2> QED BY <1>1, <2>2, <2>4, <2>5 DEF Follows
<1>4. k = LifeRetrying(l, e)
  BY <1>1, <1>3 DEF ApplyLife
<1>5. CASE n \notin Agents
  <2>0. l = NoLife
    BY <1>5 DEF Sound, VertexSound
  <2>1. k = NoLife /\ NoLife \in Life /\ ~ NoLife.budgetContinuation /\ ~ NoLife.valid
    BY <1>4, <2>0 DEF NoLife, NewLife, Life, LifeRetrying
  <2> QED BY <1>2, <1>3, <1>5, <2>1, LifeOnly
<1>6. CASE n \in Agents
  <2> HIDE DEF k, l
  <2>1. /\ k \in Life /\ k.valid /\ ~ k.budgetContinuation /\ k.attempt = a /\ k.nextRetry = a + 1
        /\ k.startedAt = l.startedAt /\ k.startedAt # 0
    <3>1. l.valid /\ l.nextRetry = 0 /\ l.attempt = a /\ ~ l.budgetContinuation /\ l.startedAt # 0
      BY <1>6 DEF Sound, VertexSound, l
    <3>0. /\ l = [startedAt |-> l.startedAt, attempt |-> l.attempt, nextRetry |-> l.nextRetry,
                   budgetContinuation |-> l.budgetContinuation, valid |-> l.valid]
           /\ l.startedAt \in Nat /\ l.attempt \in Nat /\ l.nextRetry \in Nat
           /\ l.budgetContinuation \in BOOLEAN /\ l.valid \in BOOLEAN
      BY <1>2, LifeFields
    <3>2. l # NoLife
      BY <3>1 DEF NoLife, NewLife
    <3>3. k = [l EXCEPT !.valid = /\ l.valid /\ l.attempt = a /\ l.nextRetry = 0 /\ ~ l.budgetContinuation,
                        !.nextRetry = a + 1]
      BY <1>1, <1>4, <3>2 DEF LifeRetrying
    <3>4. (l.valid /\ l.attempt = a /\ l.nextRetry = 0 /\ ~ l.budgetContinuation) = TRUE
      BY <3>1
    <3>5. k = [l EXCEPT !.valid = TRUE, !.nextRetry = a + 1]
      BY <3>3, <3>4
    <3>6. k = [startedAt |-> l.startedAt, attempt |-> a, nextRetry |-> a + 1,
               budgetContinuation |-> FALSE, valid |-> TRUE]
      BY <3>0, <3>1, <3>5
    <3> QED BY <3>0, <3>1, <3>6 DEF Life
  <2>2. Sound(q) /\ Spares(r, q, n)
    <3>1. q.lives[n] = k
      BY DEF k
    <3>2. q.dispatches \in Nat /\ r.dispatches <= q.dispatches
      BY <1>2, <1>3
    <3> QED BY <1>3, <1>6, <2>1, <3>1, <3>2, LifeOnly
  <2> QED BY <1>3, <2>1, <2>2 DEF k, l
<1> QED BY <1>5, <1>6

(* A fold of gates and jobs whose gates have their fields. *)
Gated(s) ==
    /\ IsSuspension(s)
    /\ s.gates = [g \in DOMAIN s.gates |-> s.gates[g]]
    /\ \A g \in DOMAIN s.gates : s.gates[g] \in Gate

(* The gates of a sound record have all their fields. *)
LEMMA SoundGated == ASSUME NEW r, Sound(r) PROVE Gated(r.suspensions)
BY DEF Sound, Form, IsRecord, Gated, GatesOf, GateSound

(* The fields of a gate. *)
LEMMA GateFields ==
    ASSUME NEW h \in Gate
    PROVE  /\ h = [node |-> h.node, active |-> h.active, budget |-> h.budget, allowance |-> h.allowance,
                   authorityPause |-> h.authorityPause, authorityDecision |-> h.authorityDecision,
                   humanDecision |-> h.humanDecision]
           /\ h.node \in Node /\ h.active \in BOOLEAN /\ h.budget \in BOOLEAN /\ h.allowance \in {"none", "frozen"}
           /\ h.authorityPause \in BOOLEAN /\ h.authorityDecision \in Answers /\ h.humanDecision \in Answers
BY DEF Gate

(* t is s when n is over. *)
Retires(s, t, n) ==
    /\ Gated(t) /\ t.terminalRun = s.terminalRun /\ t.corrupt = s.corrupt
    /\ t.terminalNodes = s.terminalNodes \cup {n} /\ t.media = [s.media EXCEPT ![n] = NoJob]
    /\ DOMAIN t.gates = DOMAIN s.gates
    /\ \A g \in DOMAIN s.gates :
         /\ s.gates[g].node # n => t.gates[g] = s.gates[g]
         /\ s.gates[g].node = n => t.gates[g] = [s.gates[g] EXCEPT !.active = FALSE]
         /\ t.gates[g].node = s.gates[g].node

(* #retireNode *)
LEMMA RetireParts ==
    ASSUME NEW s, Gated(s), NEW n \in Node
    PROVE  Retires(s, RetireNode(s, n), n)
<1> DEFINE t == RetireNode(s, n)
           G == [g \in DOMAIN s.gates |-> [s.gates[g] EXCEPT !.active = s.gates[g].active /\ s.gates[g].node # n]]
<1>0. t = [s EXCEPT !.terminalNodes = s.terminalNodes \cup {n}, !.media = [s.media EXCEPT ![n] = NoJob], !.gates = G]
  BY DEF RetireNode
<1> HIDE DEF t, G
<1>1. /\ t.gates = G /\ t.terminalRun = s.terminalRun /\ t.corrupt = s.corrupt
      /\ t.terminalNodes = s.terminalNodes \cup {n} /\ t.media = [s.media EXCEPT ![n] = NoJob]
      /\ t = [k \in {"gates", "media", "terminalNodes", "terminalRun", "corrupt"} |-> t[k]]
  BY <1>0 DEF Gated, IsSuspension
<1>2. IsSuspension(t)
  BY <1>1 DEF IsSuspension, Gated
<1>3. ASSUME NEW g \in DOMAIN s.gates
      PROVE  /\ s.gates[g].node # n => G[g] = s.gates[g]
             /\ s.gates[g].node = n => G[g] = [s.gates[g] EXCEPT !.active = FALSE]
             /\ G[g].node = s.gates[g].node /\ G[g] \in Gate
  <2> DEFINE h == s.gates[g]
  <2>1. h \in Gate
    BY DEF Gated
  <2>2. G[g] = [h EXCEPT !.active = h.active /\ h.node # n]
    BY DEF G
  <2> HIDE DEF h, G
  <2>3. CASE h.node # n
    <3>1. (h.active /\ h.node # n) = h.active
      BY <2>1, <2>3, GateFields
    <3>2. [h EXCEPT !.active = h.active] = h
      BY <2>1, GateFields
    <3> QED BY <2>1, <2>2, <2>3, <3>1, <3>2 DEF h
  <2>4. CASE h.node = n
    <3>1. (h.active /\ h.node # n) = FALSE
      BY <2>4
    <3>2. G[g] = [h EXCEPT !.active = FALSE]
      BY <2>2, <3>1
    <3>3. [h EXCEPT !.active = FALSE] \in Gate /\ [h EXCEPT !.active = FALSE].node = h.node
      BY <2>1 DEF Gate
    <3> QED BY <2>4, <3>2, <3>3 DEF h
  <2> QED BY <2>3, <2>4
<1>4. DOMAIN G = DOMAIN s.gates /\ G = [g \in DOMAIN s.gates |-> G[g]]
  BY DEF G
<1>5. Gated(t)
  BY <1>1, <1>2, <1>3, <1>4 DEF Gated
<1> QED BY <1>1, <1>3, <1>4, <1>5 DEF Retires, t

(* t is s with the gate g become h. *)
Puts(s, t, g, h) ==
    /\ Gated(t) /\ t.terminalRun = s.terminalRun /\ t.corrupt = s.corrupt
    /\ t.terminalNodes = s.terminalNodes /\ t.media = s.media
    /\ DOMAIN t.gates = DOMAIN s.gates \cup {g} /\ t.gates[g] = h
    /\ \A i \in DOMAIN s.gates : i # g => t.gates[i] = s.gates[i]

(* Recording a gate (#putGate) changes that gate and nothing else of the
   fold. *)
LEMMA PutParts ==
    ASSUME NEW s, Gated(s), NEW g, NEW h \in Gate
    PROVE  Puts(s, PutGate(s, g, h), g, h)
<1> DEFINE t == PutGate(s, g, h)
           G == [i \in DOMAIN s.gates \cup {g} |-> IF i = g THEN h ELSE s.gates[i]]
<1>1. /\ t.gates = G /\ t.terminalRun = s.terminalRun /\ t.corrupt = s.corrupt
      /\ t.terminalNodes = s.terminalNodes /\ t.media = s.media
      /\ t = [k \in {"gates", "media", "terminalNodes", "terminalRun", "corrupt"} |-> t[k]]
  BY DEF PutGate, Gated, IsSuspension
<1>2. IsSuspension(t)
  BY <1>1 DEF IsSuspension, Gated
<1>3. /\ DOMAIN G = DOMAIN s.gates \cup {g} /\ G[g] = h
      /\ \A i \in DOMAIN s.gates : i # g => G[i] = s.gates[i]
      /\ \A i \in DOMAIN G : G[i] \in Gate
      /\ G = [i \in DOMAIN G |-> G[i]]
  BY DEF Gated
<1> HIDE DEF G
<1> QED BY <1>1, <1>2, <1>3 DEF Gated, Puts

(* What a gate that has been settled leaves true of the fold. *)
LEMMA GateRest ==
    ASSUME NEW h \in Gate, NEW k, k = [h EXCEPT !.active = FALSE]
    PROVE  /\ k \in Gate /\ k.node = h.node /\ ~ k.active /\ k.budget = h.budget /\ k.allowance = h.allowance
           /\ k.authorityPause = h.authorityPause /\ k.authorityDecision = h.authorityDecision
           /\ k.humanDecision = h.humanDecision
BY GateFields DEF Gate

(* The end of a vertex: it waits for nothing more. *)
OverAs(type) == CASE type = "node:completed" -> "completed" [] type = "node:failed" -> "failed"
                  [] type = "node:skipped" -> "skipped"

(* The end of a vertex (node:completed, node:failed, node:skipped) keeps a
   record sound: its gates close, its job goes, and its life is over. No
   decision on money is touched. *)
LEMMA OverFold ==
    ASSUME CheckpointConstants, NEW r, Sound(r), NEW n \in Node,
           NEW e, e.type \in NodeTerminals, e.node = n,
           e.type = "node:completed" /\ n \notin Conditions => e.selected = {},
           NEW q, q = ApplyEvent(r, e)
    PROVE  /\ Sound(q) /\ Spares(r, q, n) /\ q.node = [r.node EXCEPT ![n] = OverAs(e.type)] /\ q.run = r.run
           /\ q.dispatches = r.dispatches
           /\ q.selected = IF e.type = "node:completed" THEN [r.selected EXCEPT ![n] = e.selected]
                           ELSE r.selected
           /\ q.lives[n] = NoLife /\ q.suspensions.media[n] = NoJob
           /\ q.suspensions.terminalRun = r.suspensions.terminalRun
           /\ DOMAIN GatesOf(q) = DOMAIN GatesOf(r)
           /\ BudgetRejections(q.suspensions) = BudgetRejections(r.suspensions)
<1> DEFINE s == r.suspensions
           t == RetireNode(s, n)
<1>1. ApplySuspension(s, e) = Moved(t, "none", n)
  BY DEF ApplySuspension, NodeTerminals, RunTerminals, Unmoved
<1>2. Follows(r, q, e, t, "none", n)
  BY <1>1, EventParts DEF Sound, Form
<1>3. Gated(s) /\ Retires(s, t, n)
  BY SoundGated, RetireParts
<1> HIDE DEF s, t
<1>4. q.suspensions = t /\ r.suspensions = s
  BY <1>2 DEF Follows, s
<1>5. /\ q.node = [r.node EXCEPT ![n] = OverAs(e.type)] /\ q.run = r.run
      /\ q.dispatches = r.dispatches
      /\ q.selected = IF e.type = "node:completed" THEN [r.selected EXCEPT ![n] = e.selected]
                      ELSE r.selected
  BY <1>2 DEF Follows, GateMark, Mark, RunAfter, OverAs, NodeTerminals
<1>6. q.lives[n] = NoLife /\ q.lives = [m \in Node |-> q.lives[m]]
      /\ \A m \in Node : m # n => q.lives[m] = r.lives[m]
  BY <1>2 DEF Follows, ApplyLife, NodeTerminals
<1>7. OverAs(e.type) \in {"completed", "failed", "skipped"} /\ r.node = [m \in Node |-> r.node[m]]
  BY DEF OverAs, NodeTerminals, Sound, Form, IsRecord
<1>8. Spares(r, q, n)
  <2>1. \A m \in Node \ {n} : q.node[m] = r.node[m]
    BY <1>5, <1>7
  <2>2. \A m \in Node \ {n} : t.media[m] = s.media[m]
    BY <1>3 DEF Gated, IsSuspension, Retires
  <2>3. \A m \in Node \ {n} : m \in t.terminalNodes => m \in s.terminalNodes
    BY <1>3 DEF Retires
  <2>4. /\ DOMAIN s.gates \subseteq DOMAIN t.gates
        /\ \A g \in DOMAIN s.gates : s.gates[g].node # n => t.gates[g] = s.gates[g]
        /\ \A g \in DOMAIN t.gates :
             t.gates[g].node # n => g \in DOMAIN s.gates /\ t.gates[g] = s.gates[g]
    BY <1>3 DEF Retires
  <2> QED BY <1>4, <1>6, <2>1, <2>2, <2>3, <2>4 DEF Spares, GatesOf
<1>9. \A g \in DOMAIN s.gates : s.gates[g] \in Gate
  BY SoundGated DEF Gated, s
<1>10. ASSUME NEW g \in DOMAIN GatesOf(q), GatesOf(q)[g].node = n
       PROVE  GateSound(q, g) /\ ~ GatesOf(q)[g].active
  <2> DEFINE h == s.gates[g]
             k == t.gates[g]
  <2>1. h \in Gate /\ k = [h EXCEPT !.active = FALSE] /\ GateSound(r, g)
    BY <1>3, <1>4, <1>9, <1>10 DEF GatesOf, Sound, Retires
  <2>2. /\ k \in Gate /\ k.node = h.node /\ ~ k.active /\ k.budget = h.budget /\ k.allowance = h.allowance
           /\ k.authorityPause = h.authorityPause /\ k.authorityDecision = h.authorityDecision
           /\ k.humanDecision = h.humanDecision
    BY <2>1, GateRest
  <2>3. GatesOf(q)[g] = k /\ GatesOf(r)[g] = h
    BY <1>4 DEF GatesOf
  <2> HIDE DEF h, k
  <2> QED BY <1>5, <2>1, <2>2, <2>3 DEF GateSound
<1>11. VertexSound(q, n)
  <2>1. NoLife \in Life /\ ~ NoLife.budgetContinuation /\ ~ NoLife.valid
    BY DEF NoLife, NewLife, Life
  <2>2. q.node[n] = OverAs(e.type) /\ q.suspensions.media[n] = NoJob
    BY <1>3, <1>4, <1>5, <1>7 DEF Gated, IsSuspension, Retires
  <2> QED BY <1>6, <1>7, <2>1, <2>2 DEF VertexSound, NoJob, Settled
<1>12. Form(q)
  <2>1. IsRecord(q)
    BY <1>2 DEF Follows
  <2>2. \A m \in Node : q.lives[m] \in Life
    <3>1. NoLife \in Life
      BY DEF NoLife, NewLife, Life
    <3>2. \A m \in Node : r.lives[m] \in Life
      BY DEF Sound, Form
    <3> QED BY <1>6, <3>1, <3>2
  <2>3. q.selected = [m \in Node |-> q.selected[m]]
    <3>1. r.selected = [m \in Node |-> r.selected[m]]
      BY DEF Sound, Form
    <3> QED BY <1>5, <3>1
  <2>4. \A m \in Node \ Conditions : q.selected[m] = {}
    <3>1. /\ r.selected = [m \in Node |-> r.selected[m]]
          /\ \A m \in Node \ Conditions : r.selected[m] = {}
      BY DEF Sound, Form
    <3> QED BY <1>5, <3>1
  <2> QED BY <1>3, <1>4, <1>5, <1>6, <2>1, <2>2, <2>3, <2>4 DEF Sound, Form, GatesOf, Gated, Retires
<1>13. Sound(q)
  BY <1>5, <1>8, <1>10, <1>11, <1>12, SoundElsewhere
<1>14. BudgetRejections(t) = BudgetRejections(s)
  <2>1. \A g \in DOMAIN s.gates :
           /\ t.gates[g].budget = s.gates[g].budget /\ t.gates[g].authorityDecision = s.gates[g].authorityDecision
           /\ t.gates[g].humanDecision = s.gates[g].humanDecision
    BY ZenonT(30), <1>3, <1>9, GateRest DEF Retires
  <2> QED BY <1>3, <2>1 DEF BudgetRejections, Retires
<1>15. DOMAIN GatesOf(q) = DOMAIN GatesOf(r) /\ q.suspensions.media[n] = NoJob
  BY <1>3, <1>4 DEF GatesOf, Gated, IsSuspension, Retires
<1>16. t.terminalRun = s.terminalRun
  BY <1>3 DEF Retires
<1> QED BY <1>4, <1>5, <1>6, <1>8, <1>13, <1>14, <1>15, <1>16

(* The form of a fold after an event about one vertex that is not its end. *)
LEMMA FormAfter ==
    ASSUME NEW r, Sound(r), NEW q, NEW n \in Node, IsRecord(q), Gated(q.suspensions),
           ~ q.suspensions.corrupt, DOMAIN GatesOf(q) \subseteq 1 .. q.dispatches,
           q.lives = [m \in Node |-> q.lives[m]], \A m \in Node : m # n => q.lives[m] = r.lives[m],
           q.lives[n] \in Life, q.run = r.run, q.suspensions.terminalRun = r.suspensions.terminalRun,
           q.selected = r.selected
    PROVE  Form(q)
<1>1. \A m \in Node : q.lives[m] \in Life
  BY DEF Sound, Form
<1> QED BY <1>1 DEF Sound, Form, Gated, GatesOf

(* A media job is submitted: its vertex waits for it. *)
LEMMA SubmittedFold ==
    ASSUME CheckpointConstants, NEW r, Sound(r), NEW n \in MediaNodes, NEW j \in Nat \ {0}, r.node[n] = "none",
           r.lives[n].valid, r.lives[n].nextRetry = 0, ~ r.lives[n].budgetContinuation,
           NEW e, e = Submitted(n, j), NEW q, q = ApplyEvent(r, e)
    PROVE  /\ Sound(q) /\ Spares(r, q, n) /\ q.node = [r.node EXCEPT ![n] = "paused"] /\ q.run = r.run
           /\ q.selected = r.selected /\ q.dispatches = r.dispatches /\ q.lives = r.lives
           /\ GatesOf(q) = GatesOf(r) /\ q.suspensions.media[n] = j
           /\ q.suspensions.terminalRun = r.suspensions.terminalRun
<1> DEFINE s == r.suspensions
           t == [s EXCEPT !.media[n] = j]
<1>1. e.type = "media_job:submitted" /\ e.node = n /\ e.job = j
  BY DEF Submitted
<1>2. n \in Node /\ n \in Agents
  BY SoundAgents DEF Agents
<1>3. Gated(s) /\ n \notin s.terminalNodes
  BY <1>2, SoundGated DEF Sound, VertexSound, Settled
<1>4. ApplySuspension(s, e) = Moved(t, "none", n)
  BY <1>1, <1>3 DEF ApplySuspension, NodeTerminals, RunTerminals, Unmoved
<1>5. Follows(r, q, e, t, "none", n)
  BY <1>4, EventParts DEF Sound, Form
<1>6. /\ t.media = [s.media EXCEPT ![n] = j] /\ t.gates = s.gates /\ t.terminalNodes = s.terminalNodes
      /\ t.terminalRun = s.terminalRun /\ t.corrupt = s.corrupt
  BY <1>3 DEF Gated, IsSuspension
<1> HIDE DEF t
<1>7. /\ IsRecord(q) /\ q.suspensions = t /\ q.run = r.run /\ q.dispatches = r.dispatches
      /\ q.selected = r.selected /\ q.node = [r.node EXCEPT ![n] = "paused"]
  BY <1>1, <1>5 DEF Follows, GateMark, Mark, RunAfter, Settled
<1>8. q.lives = r.lives
  <2>1. \A m \in Node : q.lives[m] = r.lives[m]
    BY <1>1, <1>5 DEF Follows, ApplyLife
  <2>2. q.lives = [m \in Node |-> q.lives[m]] /\ r.lives = [m \in Node |-> r.lives[m]]
    BY <1>5 DEF Follows, Sound, Form
  <2> QED BY <2>1, <2>2
<1>9. Gated(t)
  BY <1>3, <1>6, <1>7 DEF Gated, IsRecord
<1>10. r.node = [m \in Node |-> r.node[m]] /\ t.media[n] = j
       /\ \A m \in Node : m # n => t.media[m] = s.media[m]
  BY <1>2, <1>3, <1>6 DEF Sound, Form, IsRecord, Gated, IsSuspension
<1>11. Form(q)
  <2>1. q.lives[n] \in Life /\ q.lives = [m \in Node |-> q.lives[m]]
    BY <1>2, <1>8 DEF Sound, Form
  <2>2. ~ t.corrupt /\ DOMAIN GatesOf(q) \subseteq 1 .. q.dispatches
    BY <1>6, <1>7 DEF Sound, Form, GatesOf
  <2> QED BY <1>2, <1>6, <1>7, <1>8, <1>9, <2>1, <2>2, FormAfter
<1>12. Spares(r, q, n)
  BY <1>6, <1>7, <1>8, <1>10 DEF Spares, GatesOf
<1>13. \A g \in DOMAIN GatesOf(r) : GatesOf(r)[g].node = n => ~ GatesOf(r)[g].active
  BY DEF Sound, GateSound
<1>14. GatesOf(q) = GatesOf(r)
  BY <1>6, <1>7 DEF GatesOf
<1>15. \A g \in DOMAIN GatesOf(q) : GatesOf(q)[g].node = n => GateSound(q, g)
  BY <1>7, <1>13, <1>14 DEF Sound, GateSound
<1>16. VertexSound(q, n)
  <2>1. VertexSound(r, n)
    BY <1>2 DEF Sound
  <2>2. q.node[n] = "paused" /\ q.suspensions.media[n] = j /\ n \notin q.suspensions.terminalNodes
    BY <1>2, <1>3, <1>6, <1>7, <1>10
  <2> QED BY <1>2, <1>8, <2>1, <2>2 DEF VertexSound, NoJob
<1>17. Sound(q)
  BY <1>2, <1>7, <1>11, <1>12, <1>13, <1>14, <1>15, <1>16, SoundElsewhere
<1> QED BY <1>6, <1>7, <1>8, <1>10, <1>12, <1>14, <1>17

(* Two gates with the same fields are the same. *)
LEMMA SameGate ==
    ASSUME NEW h \in Gate, NEW k \in Gate, h.node = k.node, h.active <=> k.active, h.budget <=> k.budget,
           h.allowance = k.allowance, h.authorityPause <=> k.authorityPause,
           h.authorityDecision = k.authorityDecision, h.humanDecision = k.humanDecision
    PROVE  h = k
BY DEF Gate

(* A new gate, announced by its first event: the authority for money, the gate
   itself for a person. *)
Opening(r, e, n, g, budget) ==
    /\ e.node = n /\ e.gate = g /\ g \in 1 .. r.dispatches /\ g \notin DOMAIN GatesOf(r)
    /\ r.node[n] = "none"
    /\ IF budget
       THEN /\ n \in Budgeted /\ r.lives[n].valid /\ r.lives[n].nextRetry = 0 /\ ~ r.lives[n].budgetContinuation
            /\ e.type = "budget:authorization" /\ e.decision = "paused" /\ e.allowance = "frozen"
       ELSE n \in Gates /\ e.type = "human_gate:paused" /\ e.allowance = "none"

(* The gate an announcement opens. *)
NewGate(n, budget) ==
    [node |-> n, active |-> TRUE, budget |-> budget, allowance |-> IF budget THEN "frozen" ELSE "none",
     authorityPause |-> budget, authorityDecision |-> "none", humanDecision |-> "none"]

(* q is r with the new gate g of the vertex n. *)
Opened(r, q, n, g, budget) ==
    /\ Sound(q) /\ Spares(r, q, n) /\ q.node = [r.node EXCEPT ![n] = "paused"] /\ q.run = r.run
    /\ q.selected = r.selected /\ q.dispatches = r.dispatches /\ q.lives = r.lives
    /\ q.suspensions.media = r.suspensions.media
    /\ q.suspensions.terminalRun = r.suspensions.terminalRun
    /\ DOMAIN GatesOf(q) = DOMAIN GatesOf(r) \cup {g} /\ GatesOf(q)[g] = NewGate(n, budget)
    /\ \A i \in DOMAIN GatesOf(r) : GatesOf(q)[i] = GatesOf(r)[i]
    /\ BudgetRejections(q.suspensions) = BudgetRejections(r.suspensions)

(* The first event of a gate keeps a record sound and parks the vertex at the
   new gate: human_gate:paused for a person, budget:authorization with
   "paused" for money. *)
LEMMA OpenedFold ==
    ASSUME CheckpointConstants, NEW r, Sound(r), NEW n \in Node, NEW g, NEW budget \in BOOLEAN,
           NEW e, Opening(r, e, n, g, budget), NEW q, q = ApplyEvent(r, e)
    PROVE  Opened(r, q, n, g, budget)
<1> DEFINE s == r.suspensions
           h == NewGate(n, budget)
           t == PutGate(s, g, h)
<1>1. /\ Gated(s) /\ n \notin s.terminalNodes /\ e.node = n /\ e.gate = g /\ g \notin DOMAIN s.gates
      /\ r.node[n] = "none" /\ g \in 1 .. r.dispatches
  BY SoundGated DEF Sound, VertexSound, Settled, Opening, GatesOf
<1>2. h \in Gate /\ h.active /\ ~ IsResolved(h) /\ h.node = n /\ h.budget = budget
      /\ h.authorityDecision = "none" /\ h.humanDecision = "none"
  BY DEF NewGate, Gate, IsResolved, Answers
<1>3. FoundGate(s, e) = FreshGate(n) /\ ~ Mistaken(s, e)
  BY <1>1 DEF FoundGate, Mistaken
<1>4. ApplySuspension(s, e) = Moved(t, "paused", n)
  <2>1. Pausing(s, g, h, n) = Moved(t, "paused", n)
    BY <1>2 DEF Pausing
  <2>2. CASE budget
    <3>1. e.type = "budget:authorization" /\ e.decision = "paused" /\ e.allowance = "frozen"
      BY <2>2 DEF Opening
    <3>2. ~ NotBudget(FreshGate(n)) /\ ~ Misquoted(FreshGate(n), e) /\ ~ FreshGate(n).authorityPause
      BY DEF FreshGate, NotBudget, Misquoted
    <3>3. [Quoted(FreshGate(n), e) EXCEPT !.budget = TRUE, !.authorityPause = TRUE] = h
      <4> DEFINE f == FreshGate(n)
                 Q == Quoted(f, e)
                 X == [Q EXCEPT !.budget = TRUE, !.authorityPause = TRUE]
      <4>1. /\ f \in Gate /\ f.node = n /\ f.active /\ f.authorityDecision = "none" /\ f.humanDecision = "none"
        BY DEF FreshGate, Gate, Answers
      <4>2. Q = [f EXCEPT !.allowance = "frozen"]
        BY <3>1 DEF Quoted
      <4> HIDE DEF f, Q
      <4>3. /\ Q \in Gate /\ Q.node = n /\ Q.active /\ Q.authorityDecision = "none" /\ Q.humanDecision = "none"
            /\ Q.allowance = "frozen"
        BY <4>1, <4>2 DEF Gate
      <4>4. /\ X \in Gate /\ X.node = n /\ X.active /\ X.authorityDecision = "none" /\ X.humanDecision = "none"
            /\ X.allowance = "frozen" /\ X.budget /\ X.authorityPause
        BY <4>3 DEF Gate
      <4>5. /\ h.active /\ h.authorityDecision = "none" /\ h.humanDecision = "none"
            /\ h.allowance = "frozen" /\ h.budget /\ h.authorityPause
        BY <2>2 DEF NewGate
      <4> HIDE DEF X, h
      <4>6. X = h
        BY <1>2, <4>4, <4>5, SameGate
      <4> QED BY <4>6 DEF X, Q, f
    <3>4. AuthorityPaused(s, e) = Pausing(s, g, h, n)
      <4> HIDE DEF h
      <4> QED BY <1>1, <1>3, <3>2, <3>3 DEF AuthorityPaused
    <3> QED BY <2>1, <3>1, <3>4 DEF ApplySuspension, NodeTerminals, RunTerminals
  <2>3. CASE ~ budget
    <3>1. e.type = "human_gate:paused" /\ e.allowance = "none"
      BY <2>3 DEF Opening
    <3>2. ~ Misquoted(FreshGate(n), e) /\ Quoted(FreshGate(n), e) = h
      BY <2>3, <3>1 DEF FreshGate, Misquoted, Quoted, NewGate
    <3>4. PauseAnnounced(s, e) = Pausing(s, g, h, n)
      <4> HIDE DEF h
      <4> QED BY <1>1, <1>3, <3>1, <3>2 DEF PauseAnnounced
    <3> QED BY <2>1, <3>1, <3>4 DEF ApplySuspension, NodeTerminals, RunTerminals
  <2> QED BY <2>2, <2>3
<1> HIDE DEF h, t
<1>5. Follows(r, q, e, t, "paused", n)
  BY <1>4, EventParts DEF Sound, Form
<1>6. Puts(s, t, g, h)
  BY <1>1, <1>2, PutParts DEF t
<1>7. e.type \in {"budget:authorization", "human_gate:paused"}
  BY DEF Opening
<1>8. /\ IsRecord(q) /\ q.suspensions = t /\ q.run = r.run /\ q.dispatches = r.dispatches
      /\ q.selected = r.selected /\ q.node = [r.node EXCEPT ![n] = "paused"]
  BY <1>5, <1>7 DEF Follows, GateMark, Mark, RunAfter
<1>9. q.lives = r.lives
  <2>1. \A m \in Node : q.lives[m] = r.lives[m]
    BY <1>5, <1>7 DEF Follows, ApplyLife
  <2>2. q.lives = [m \in Node |-> q.lives[m]] /\ r.lives = [m \in Node |-> r.lives[m]]
    BY <1>5 DEF Follows, Sound, Form
  <2> QED BY <2>1, <2>2
<1>10. /\ t.media = s.media /\ t.terminalNodes = s.terminalNodes /\ t.terminalRun = s.terminalRun
       /\ t.corrupt = s.corrupt /\ DOMAIN t.gates = DOMAIN s.gates \cup {g} /\ t.gates[g] = h
       /\ \A i \in DOMAIN s.gates : t.gates[i] = s.gates[i]
       /\ Gated(t)
  BY <1>1, <1>6 DEF Puts
<1>11. r.node = [m \in Node |-> r.node[m]]
  BY DEF Sound, Form, IsRecord
<1>12. Form(q)
  <2>1. q.lives[n] \in Life /\ q.lives = [m \in Node |-> q.lives[m]]
    BY <1>9 DEF Sound, Form
  <2>2. ~ t.corrupt /\ DOMAIN GatesOf(q) \subseteq 1 .. q.dispatches
    BY <1>1, <1>8, <1>10 DEF Sound, Form, GatesOf
  <2> QED BY <1>8, <1>9, <1>10, <2>1, <2>2, FormAfter
<1>13. Spares(r, q, n)
  <2>1. \A m \in Node \ {n} : q.node[m] = r.node[m]
    BY <1>8, <1>11
  <2> QED BY <1>2, <1>8, <1>9, <1>10, <2>1 DEF Spares, GatesOf
<1>14. \A i \in DOMAIN GatesOf(r) : GatesOf(r)[i].node = n => ~ GatesOf(r)[i].active
  BY <1>1 DEF Sound, GateSound
<1>15. s.media[n] = NoJob
  BY <1>1 DEF Sound, VertexSound
<1>16. ASSUME NEW i \in DOMAIN GatesOf(q), GatesOf(q)[i].node = n PROVE GateSound(q, i)
  <2>1. CASE i = g
    <3>1. q.node[n] = "paused" /\ q.suspensions.media[n] = NoJob /\ n \notin q.suspensions.terminalNodes
          /\ GatesOf(q)[i] = h
      BY <1>1, <1>8, <1>10, <1>11, <1>15, <2>1 DEF GatesOf
    <3>2. h = NewGate(n, budget) /\ (budget => n \in Budgeted) /\ (~ budget => n \in Gates)
      BY DEF h, Opening
    <3> QED BY <1>2, <3>1, <3>2 DEF GateSound, NewGate
  <2>2. CASE i # g
    <3>1. i \in DOMAIN GatesOf(r) /\ GatesOf(q)[i] = GatesOf(r)[i]
      BY <1>8, <1>10, <2>2 DEF GatesOf
    <3>2. ~ GatesOf(r)[i].active
      BY <1>14, <1>16, <3>1
    <3> QED BY <1>8, <3>1, <3>2 DEF Sound, GateSound
  <2> QED BY <2>1, <2>2
<1>17. \A i, k \in DOMAIN GatesOf(q) :
          GatesOf(q)[i].active /\ GatesOf(q)[k].active /\ GatesOf(q)[i].node = n /\ GatesOf(q)[k].node = n => i = k
  BY <1>8, <1>10, <1>14 DEF GatesOf
<1>18. VertexSound(q, n)
  <2>1. VertexSound(r, n)
    BY DEF Sound
  <2>2. q.node[n] = "paused" /\ q.suspensions.media[n] = NoJob /\ n \notin q.suspensions.terminalNodes
    BY <1>1, <1>8, <1>10, <1>11, <1>15
  <2>3. g \in DOMAIN GatesOf(q) /\ GatesOf(q)[g].active /\ GatesOf(q)[g].node = n
    BY <1>2, <1>8, <1>10 DEF GatesOf
  <2>4. n \in Agents => r.lives[n].valid /\ r.lives[n].nextRetry = 0 /\ ~ r.lives[n].budgetContinuation
    BY DEF Opening, CheckpointConstants, Agents
  <2>5. n \notin Agents => ~ r.lives[n].budgetContinuation
    BY <2>1 DEF VertexSound, NoLife, NewLife
  <2> QED BY <1>9, <2>1, <2>2, <2>3, <2>4, <2>5 DEF VertexSound, NoJob
<1>19. Sound(q)
  BY <1>8, <1>12, <1>13, <1>16, <1>17, <1>18, SoundElsewhere
<1>20. BudgetRejections(t) = BudgetRejections(s)
  BY <1>2, <1>10 DEF BudgetRejections
<1> QED BY <1>8, <1>9, <1>10, <1>13, <1>19, <1>20 DEF GatesOf, h, Opened

(* The gate of a person, by its own name for the proofs that follow. *)
LEMMA PersonOpened ==
    ASSUME CheckpointConstants, NEW r, Sound(r), NEW n \in Node, NEW g,
           NEW e, Opening(r, e, n, g, FALSE), NEW q, q = ApplyEvent(r, e)
    PROVE  Opened(r, q, n, g, FALSE)
<1>1. FALSE \in BOOLEAN
  OBVIOUS
<1> QED BY <1>1, OpenedFold, Zenon

(* The gate of a budget, likewise. *)
LEMMA MoneyOpened ==
    ASSUME CheckpointConstants, NEW r, Sound(r), NEW n \in Node, NEW g,
           NEW e, Opening(r, e, n, g, TRUE), NEW q, q = ApplyEvent(r, e)
    PROVE  Opened(r, q, n, g, TRUE)
<1>1. TRUE \in BOOLEAN
  OBVIOUS
<1> QED BY <1>1, OpenedFold, Zenon

(* A fold in which a gate of n has closed, and nothing else has happened to what
   n waits for. *)
Closes(r, q, n, g, k) ==
    /\ IsRecord(q) /\ Gated(q.suspensions)
    /\ DOMAIN q.suspensions.gates = DOMAIN r.suspensions.gates /\ q.suspensions.gates[g] = k
    /\ \A i \in DOMAIN r.suspensions.gates : i # g => q.suspensions.gates[i] = r.suspensions.gates[i]
    /\ q.suspensions.media = r.suspensions.media /\ q.suspensions.terminalRun = r.suspensions.terminalRun
    /\ q.suspensions.corrupt = r.suspensions.corrupt
    /\ q.suspensions.terminalNodes \subseteq r.suspensions.terminalNodes \cup {n}
    /\ q.run = r.run /\ q.selected = r.selected /\ q.dispatches = r.dispatches
    /\ q.lives = [m \in Node |-> q.lives[m]]
    /\ \A m \in Node : m # n => q.lives[m] = r.lives[m] /\ q.node[m] = r.node[m]

(* Whatever closes the only open gate of a vertex and takes it out of
   "paused" keeps the record sound, if it leaves the gate and the life in a
   form of theirs. *)
LEMMA GateClosed ==
    ASSUME NEW r, Sound(r), NEW n \in Node, NEW g \in DOMAIN GatesOf(r), GatesOf(r)[g].node = n,
           \A i \in DOMAIN GatesOf(r) : GatesOf(r)[i].node = n /\ i # g => ~ GatesOf(r)[i].active,
           r.suspensions.media[n] = NoJob,
           NEW k \in Gate, k.node = n, ~ k.active,
           k.budget => n \in Budgeted /\ k.allowance = "frozen" /\ k.authorityPause
                       /\ k.humanDecision \in {"none", k.authorityDecision},
           ~ k.budget => n \in Gates /\ k.allowance = "none" /\ k.authorityDecision = "none",
           k.budget /\ k.authorityDecision = "rejected" => r.run # "completed",
           NEW q, Closes(r, q, n, g, k), q.node[n] # "paused",
           n \in q.suspensions.terminalNodes => q.node[n] \in Settled,
           q.lives[n] \in Life, n \notin Agents => q.lives[n] = NoLife,
           q.lives[n].budgetContinuation => q.lives[n].valid /\ q.lives[n].nextRetry = 0 /\ q.node[n] = "none",
           q.lives[n].valid => q.lives[n].startedAt # 0
    PROVE  Sound(q) /\ Spares(r, q, n)
<1>1. Form(q)
  <2>1. /\ IsRecord(q) /\ Gated(q.suspensions) /\ ~ q.suspensions.corrupt
        /\ DOMAIN GatesOf(q) \subseteq 1 .. q.dispatches
        /\ q.lives = [m \in Node |-> q.lives[m]] /\ \A m \in Node : m # n => q.lives[m] = r.lives[m]
        /\ q.run = r.run /\ q.suspensions.terminalRun = r.suspensions.terminalRun /\ q.selected = r.selected
    BY DEF Closes, Sound, Form, GatesOf
  <2> QED BY <2>1, FormAfter
<1>2. Spares(r, q, n)
  BY DEF Closes, Spares, GatesOf
<1>3. VertexSound(q, n)
  <2>1. q.suspensions.media[n] = NoJob
    BY DEF Closes
  <2> QED BY <2>1 DEF VertexSound, NoJob
<1>4. \A i \in DOMAIN GatesOf(q) : GatesOf(q)[i].node = n => ~ GatesOf(q)[i].active
  BY DEF Closes, GatesOf
<1>5. ASSUME NEW i \in DOMAIN GatesOf(q), GatesOf(q)[i].node = n PROVE GateSound(q, i)
  <2>1. q.run = r.run
    BY DEF Closes
  <2>2. CASE i = g
    <3>1. GatesOf(q)[i] = k
      BY <2>2 DEF Closes, GatesOf
    <3> QED BY <2>1, <3>1 DEF GateSound
  <2>3. CASE i # g
    <3>1. i \in DOMAIN GatesOf(r) /\ GatesOf(q)[i] = GatesOf(r)[i]
      BY <2>3 DEF Closes, GatesOf
    <3> QED BY <1>4, <1>5, <2>1, <3>1 DEF Sound, GateSound
  <2> QED BY <2>2, <2>3
<1>6. q.run = r.run
  BY DEF Closes
<1> QED BY <1>1, <1>2, <1>3, <1>4, <1>5, <1>6, SoundElsewhere

(* The companions of a budget pause say nothing new. *)
LEMMA CompanionFold ==
    ASSUME NEW r, Sound(r), NEW n \in Node, NEW g \in DOMAIN GatesOf(r), GatesOf(r)[g].node = n, GatesOf(r)[g].budget,
           NEW e, e.type \in {"budget:paused", "human_gate:paused"}, e.node = n, e.gate = g, e.allowance = "frozen",
           NEW q, q = ApplyEvent(r, e)
    PROVE  q = r
<1> DEFINE s == r.suspensions
           h == s.gates[g]
<1>1. /\ h \in Gate /\ h.node = n /\ h.budget /\ h.allowance = "frozen" /\ g \in DOMAIN s.gates
      /\ h.active => r.node[n] = "paused"
  BY DEF Sound, GateSound, GatesOf
<1>2. FoundGate(s, e) = h /\ ~ Mistaken(s, e) /\ ~ Misquoted(h, e) /\ ~ NotBudget(h)
  BY <1>1 DEF FoundGate, Mistaken, Misquoted, NotBudget
<1>3. Quoted(h, e) = h
  <2>1. Quoted(h, e) = [h EXCEPT !.allowance = "frozen"]
    BY DEF Quoted
  <2>2. [h EXCEPT !.allowance = h.allowance] = h
    BY <1>1, GateFields
  <2> QED BY <1>1, <2>1, <2>2
<1>4. [h EXCEPT !.budget = TRUE, !.allowance = IF h.allowance = "none" THEN "legacy" ELSE h.allowance] = h
  <2> DEFINE X == [h EXCEPT !.budget = TRUE, !.allowance = h.allowance]
  <2> HIDE DEF h
  <2>1. /\ X \in Gate /\ X.node = h.node /\ X.active = h.active /\ X.budget /\ X.allowance = h.allowance
        /\ X.authorityPause = h.authorityPause /\ X.authorityDecision = h.authorityDecision
        /\ X.humanDecision = h.humanDecision
    BY <1>1 DEF Gate
  <2>2. X = h
    <3> HIDE DEF X
    <3> QED BY <1>1, <2>1, SameGate
  <2> QED BY <1>1, <2>2
<1> HIDE DEF h
<1>5. PauseAnnounced(s, e) = Pausing(s, g, h, n)
  <2> HIDE DEF s
  <2> QED BY <1>2, <1>3, <1>4 DEF PauseAnnounced
<1>6. PutGate(s, g, h) = s
  <2>1. /\ s = [k \in {"gates", "media", "terminalNodes", "terminalRun", "corrupt"} |-> s[k]]
        /\ s.gates = [i \in DOMAIN s.gates |-> s.gates[i]]
    BY SoundGated DEF Gated, IsSuspension
  <2> DEFINE G == [i \in (DOMAIN s.gates) \cup {g} |-> IF i = g THEN h ELSE s.gates[i]]
  <2>2. G = s.gates
    BY <1>1, <2>1 DEF h
  <2>3. PutGate(s, g, h) = [s EXCEPT !.gates = G]
    BY DEF PutGate
  <2> HIDE DEF G, s
  <2> QED BY <2>1, <2>2, <2>3
<1>7. PICK kind \in {"none", "paused"} :
         ApplySuspension(s, e) = Moved(s, kind, n) /\ (kind = "paused" => r.node[n] = "paused")
  <2>1. Pausing(s, g, h, n) = IF h.active /\ ~ IsResolved(h) THEN Moved(s, "paused", n) ELSE Moved(s, "none", n)
    <3> HIDE DEF s
    <3> QED BY <1>6 DEF Pausing, Unmoved
  <2>2. ApplySuspension(s, e) = Pausing(s, g, h, n)
    <3> HIDE DEF s
    <3> QED BY <1>5 DEF ApplySuspension, NodeTerminals, RunTerminals
  <2> HIDE DEF s
  <2> QED BY <1>1, <2>1, <2>2
<1>8. Follows(r, q, e, s, kind, n)
  BY <1>7, EventParts DEF Sound, Form
<1>9. /\ IsRecord(q) /\ q.suspensions = r.suspensions /\ q.run = r.run /\ q.dispatches = r.dispatches
      /\ q.selected = r.selected /\ q.node = GateMark(r.node, kind, n)
  BY <1>8 DEF Follows, Mark, RunAfter
<1>10. q.node = r.node
  BY <1>7, <1>9 DEF GateMark, Sound, Form, IsRecord
<1>11. q.lives = r.lives
  <2>1. \A m \in Node : q.lives[m] = r.lives[m]
    BY <1>8 DEF Follows, ApplyLife
  <2>2. q.lives = [m \in Node |-> q.lives[m]] /\ r.lives = [m \in Node |-> r.lives[m]]
    BY <1>8 DEF Follows, Sound, Form
  <2> QED BY <2>1, <2>2
<1>12. IsRecord(r)
  BY DEF Sound, Form
<1> QED BY <1>9, <1>10, <1>11, <1>12 DEF IsRecord

(* #resume of a gate that is found: what it answers, when the answer fits. *)
AnsweredAs(h, e) == [Quoted(h, e) EXCEPT !.humanDecision = e.decision, !.active = FALSE]

(* e answers the gate g, whose history is h, and fits it. *)
Fits(s, e, g, h) ==
    /\ AnsweredGate(s, e) = {g} /\ h = s.gates[g] /\ ~ Misquoted(h, e)
    /\ h.authorityDecision \in {"none", e.decision} /\ h.humanDecision \in {"none", e.decision}
    /\ IsResolved(h) \/ h.active

(* What the reducer does with human_gate:resumed when it finds the gate and
   the answer fits: it confirms a gate that is resolved, and otherwise
   answers it. *)
LEMMA Answering ==
    ASSUME NEW s, NEW e, NEW g, NEW h, Fits(s, e, g, h)
    PROVE  /\ IsResolved(h) => GateAnswered(s, e) = Moved(PutGate(s, g, AnsweredAs(h, e)), "none", e.node)
           /\ ~ IsResolved(h) /\ ~ h.budget =>
                GateAnswered(s, e) = Moved(PutGate(s, g, AnsweredAs(h, e)), "human", e.node)
<1> DEFINE c == CHOOSE i \in AnsweredGate(s, e) : TRUE
           K(i) == [Quoted(s.gates[i], e) EXCEPT !.humanDecision = e.decision, !.active = FALSE]
           Bad(i) == \/ Misquoted(s.gates[i], e)
                     \/ s.gates[i].authorityDecision \notin {"none", e.decision}
                     \/ s.gates[i].humanDecision \notin {"none", e.decision}
                     \/ ~ IsResolved(s.gates[i]) /\ ~ s.gates[i].active
           B(i) == IF Bad(i) THEN Corrupt(s, e.node)
                   ELSE IF IsResolved(s.gates[i]) THEN Unmoved(PutGate(s, i, K(i)), e.node)
                   ELSE IF ~ s.gates[i].budget THEN Moved(PutGate(s, i, K(i)), "human", e.node)
                   ELSE Moved(IF e.decision = "rejected" THEN RetireNode(PutGate(s, i, K(i)), e.node)
                              ELSE PutGate(s, i, K(i)), e.decision, e.node)
<1>1. GateAnswered(s, e) = IF Cardinality(AnsweredGate(s, e)) # 1 THEN Corrupt(s, e.node) ELSE B(c)
  BY DEF GateAnswered
<1>2. c = g
  BY DEF Fits
<1>3. Cardinality(AnsweredGate(s, e)) = 1
  BY FS_Singleton DEF Fits
<1> HIDE DEF c, B
<1>4. GateAnswered(s, e) = B(g)
  BY <1>1, <1>2, <1>3
<1>5. ~ Bad(g) /\ K(g) = AnsweredAs(h, e) /\ h = s.gates[g]
  BY DEF AnsweredAs, Fits
<1> HIDE DEF Bad, K
<1> QED BY <1>4, <1>5 DEF B, Unmoved

(* The companion of a recorded decision on money. *)
LEMMA ConfirmedFold ==
    ASSUME NEW r, Sound(r), NEW n \in Node, NEW g \in DOMAIN GatesOf(r), NEW h, h = GatesOf(r)[g], h.node = n, h.budget,
           h.authorityDecision # "none", h.humanDecision = "none", r.suspensions.media[n] = NoJob,
           r.node[n] # "paused",
           NEW e, e.type = "human_gate:resumed", e.node = n, e.gate = g, e.allowance = "frozen",
           e.decision = h.authorityDecision, NEW q, q = ApplyEvent(r, e)
    PROVE  /\ Sound(q) /\ Spares(r, q, n) /\ q.node = r.node /\ q.run = r.run /\ q.selected = r.selected
           /\ q.dispatches = r.dispatches /\ q.lives = r.lives /\ q.suspensions.media = r.suspensions.media
           /\ q.suspensions.terminalRun = r.suspensions.terminalRun
           /\ DOMAIN GatesOf(q) = DOMAIN GatesOf(r)
           /\ GatesOf(q)[g].node = n /\ GatesOf(q)[g].budget /\ GatesOf(q)[g].allowance = h.allowance
           /\ GatesOf(q)[g].authorityDecision = h.authorityDecision
           /\ BudgetRejections(q.suspensions) = BudgetRejections(r.suspensions)
<1> DEFINE s == r.suspensions
           k == [h EXCEPT !.humanDecision = e.decision, !.active = FALSE]
           t == PutGate(s, g, k)
<1>1. /\ h \in Gate /\ h.allowance = "frozen" /\ h.authorityPause /\ n \in Budgeted /\ g \in DOMAIN s.gates
      /\ s.gates[g] = h /\ ~ h.active /\ (h.authorityDecision = "rejected" => r.run # "completed")
  BY DEF Sound, GateSound, GatesOf, IsResolved
<1>2. g # NoGate /\ g \in 1 .. r.dispatches /\ r.dispatches \in Nat
  <2>1. r.dispatches \in Nat /\ DOMAIN GatesOf(r) \subseteq 1 .. r.dispatches
    BY DEF Sound, Form, IsRecord
  <2> QED BY <2>1 DEF NoGate
<1>3. AnsweredGate(s, e) = {g}
  BY <1>1, <1>2 DEF AnsweredGate
<1>5. ~ Misquoted(h, e) /\ Quoted(h, e) = h /\ IsResolved(h) /\ e.decision \in Answers
  <2>1. [h EXCEPT !.allowance = "frozen"] = h
    <3>1. [h EXCEPT !.allowance = h.allowance] = h
      BY <1>1, GateFields
    <3> QED BY <1>1, <3>1
  <2> QED BY <1>1, <2>1, GateFields DEF Misquoted, Quoted, IsResolved
<1>6. /\ k \in Gate /\ k.node = n /\ ~ k.active /\ k.budget /\ k.allowance = "frozen" /\ k.authorityPause
      /\ k.authorityDecision = h.authorityDecision /\ k.humanDecision = h.authorityDecision
  BY <1>1, <1>5 DEF Gate
<1>7. ApplySuspension(s, e) = Moved(t, "none", n)
  <2> HIDE DEF s, k
  <2>2. GateAnswered(s, e) = Moved(t, "none", n)
    <3>1. k = AnsweredAs(h, e)
      BY <1>5 DEF k, AnsweredAs
    <3>2. h = s.gates[g]
      BY <1>1
    <3>3. h.authorityDecision \in {"none", e.decision} /\ h.humanDecision \in {"none", e.decision}
      OBVIOUS
    <3>4. Fits(s, e, g, h)
      BY <1>3, <1>5, <3>2, <3>3 DEF Fits
    <3>5. GateAnswered(s, e) = Moved(PutGate(s, g, AnsweredAs(h, e)), "none", e.node)
      BY <1>5, <3>4, Answering
    <3> QED BY <3>1, <3>5 DEF t
  <2>3. ApplySuspension(s, e) = GateAnswered(s, e)
    BY DEF ApplySuspension, NodeTerminals, RunTerminals
  <2> QED BY <2>2, <2>3
<1> HIDE DEF s, k, t
<1>8. Puts(s, t, g, k)
  BY <1>6, SoundGated, PutParts DEF s, t
<1>9. Follows(r, q, e, t, "none", n)
  BY <1>7, EventParts DEF Sound, Form, s
<1>10. /\ IsRecord(q) /\ q.suspensions = t /\ q.run = r.run /\ q.dispatches = r.dispatches
       /\ q.selected = r.selected /\ q.node = r.node
  BY <1>9 DEF Follows, GateMark, Mark, RunAfter
<1>11. q.lives = r.lives
  <2>1. \A m \in Node : q.lives[m] = r.lives[m]
    BY <1>9 DEF Follows, ApplyLife
  <2>2. q.lives = [m \in Node |-> q.lives[m]] /\ r.lives = [m \in Node |-> r.lives[m]]
    BY <1>9 DEF Follows, Sound, Form
  <2> QED BY <2>1, <2>2
<1>12. Closes(r, q, n, g, k)
  <2>1. DOMAIN t.gates = DOMAIN s.gates
    BY <1>1, <1>8 DEF Puts, s
  <2> QED BY <1>8, <1>9, <1>10, <1>11, <2>1 DEF Closes, Puts, s, Follows
<1>13. Sound(q) /\ Spares(r, q, n)
  <2>1. \A i \in DOMAIN GatesOf(r) : GatesOf(r)[i].node = n => ~ GatesOf(r)[i].active
    BY DEF Sound, GateSound
  <2>2. VertexSound(r, n) /\ r.lives[n] \in Life
    BY DEF Sound, Form
  <2>3. t.terminalNodes = s.terminalNodes
    BY <1>8 DEF Puts
  <2>4. /\ n \in q.suspensions.terminalNodes => q.node[n] \in Settled
        /\ n \notin Agents => q.lives[n] = NoLife
        /\ q.lives[n].budgetContinuation => q.lives[n].valid /\ q.lives[n].nextRetry = 0 /\ q.node[n] = "none"
        /\ q.lives[n].valid => q.lives[n].startedAt # 0
        /\ q.lives[n] \in Life /\ q.node[n] # "paused"
    BY <1>10, <1>11, <2>2, <2>3 DEF VertexSound, s
  <2> QED BY <1>1, <1>6, <1>12, <2>1, <2>4, GateClosed
<1>14. BudgetRejections(t) = BudgetRejections(s)
  <2>1. DOMAIN t.gates = DOMAIN s.gates /\ t.gates[g] = k /\ s.gates[g] = h
        /\ \A i \in DOMAIN s.gates : i # g => t.gates[i] = s.gates[i]
    BY <1>1, <1>8 DEF Puts, s
  <2> QED BY <1>1, <1>6, <2>1 DEF BudgetRejections
<1> QED BY <1>1, <1>6, <1>8, <1>10, <1>11, <1>12, <1>13, <1>14 DEF Closes, GatesOf, s

(* What is true of an open gate of the fold. *)
LEMMA OpenGate ==
    ASSUME NEW r, Sound(r), NEW n \in Node, NEW g \in DOMAIN GatesOf(r), NEW h, h = GatesOf(r)[g], h.node = n, h.active
    PROVE  /\ h \in Gate /\ g \in DOMAIN r.suspensions.gates /\ r.suspensions.gates[g] = h /\ ~ IsResolved(h)
           /\ h.authorityDecision = "none" /\ h.humanDecision = "none"
           /\ r.node[n] = "paused" /\ r.suspensions.media[n] = NoJob /\ n \notin r.suspensions.terminalNodes
           /\ h.budget => h.allowance = "frozen" /\ n \in Budgeted /\ h.authorityPause
           /\ ~ h.budget => h.allowance = "none" /\ n \in Gates
           /\ \A i \in DOMAIN GatesOf(r) : GatesOf(r)[i].node = n /\ i # g => ~ GatesOf(r)[i].active
BY DEF Sound, OneGateEach, GateSound, GatesOf, IsResolved

(* A person answers the gate of a vertex: the vertex is over. *)
LEMMA HumanFold ==
    ASSUME CheckpointConstants, NEW r, Sound(r), NEW n \in Node, NEW g \in DOMAIN GatesOf(r), GatesOf(r)[g].node = n,
           GatesOf(r)[g].active, ~ GatesOf(r)[g].budget,
           NEW e, e = HumanAnswer(n, "approved"), NEW q, q = ApplyEvent(r, e)
    PROVE  /\ Sound(q) /\ Spares(r, q, n) /\ q.node = [r.node EXCEPT ![n] = "completed"] /\ q.run = r.run
           /\ q.selected = r.selected /\ q.dispatches = r.dispatches /\ q.suspensions.media = r.suspensions.media
           /\ q.suspensions.terminalRun = r.suspensions.terminalRun
           /\ DOMAIN GatesOf(q) = DOMAIN GatesOf(r)
           /\ BudgetRejections(q.suspensions) = BudgetRejections(r.suspensions)
<1> DEFINE s == r.suspensions
           h == s.gates[g]
           k == AnsweredAs(h, e)
           t == PutGate(s, g, k)
<1>1. /\ e.type = "human_gate:resumed" /\ e.node = n /\ e.gate = NoGate /\ e.allowance = "none"
      /\ e.decision = "approved"
  BY DEF HumanAnswer
<1>2. /\ h \in Gate /\ h.node = n /\ h.active /\ ~ h.budget /\ ~ IsResolved(h) /\ g \in DOMAIN s.gates
      /\ h.authorityDecision = "none" /\ h.humanDecision = "none" /\ h.allowance = "none" /\ n \in Gates
      /\ r.node[n] = "paused" /\ s.media[n] = NoJob /\ n \notin s.terminalNodes
  BY OpenGate DEF GatesOf
<1>3. \A i \in DOMAIN s.gates : s.gates[i].node = n /\ i # g => ~ s.gates[i].active
  BY OpenGate DEF GatesOf
<1>4. AnsweredGate(s, e) = {g}
  BY <1>1, <1>2, <1>3 DEF AnsweredGate, Outstanding
<1>5. /\ k \in Gate /\ k.node = n /\ ~ k.active /\ ~ k.budget /\ k.allowance = "none"
      /\ k.authorityDecision = "none"
  <2>1. k = [h EXCEPT !.humanDecision = "approved", !.active = FALSE]
    BY <1>1 DEF AnsweredAs, Quoted
  <2> HIDE DEF h, k
  <2> QED BY <1>2, <2>1 DEF Gate, Answers
<1> HIDE DEF s, h, k
<1>6. ApplySuspension(s, e) = Moved(t, "human", n)
  <2>1. ~ Misquoted(h, e) /\ h.authorityDecision \in {"none", e.decision} /\ h.humanDecision \in {"none", e.decision}
    BY <1>1, <1>2 DEF Misquoted
  <2>2. h = s.gates[g] /\ k = AnsweredAs(h, e)
    BY DEF h, k
  <2>3. GateAnswered(s, e) = Moved(PutGate(s, g, k), "human", e.node)
    <3>1. Fits(s, e, g, h)
      BY <1>2, <1>4, <2>1, <2>2 DEF Fits
    <3>2. GateAnswered(s, e) = Moved(PutGate(s, g, AnsweredAs(h, e)), "human", e.node)
      BY <1>2, <3>1, Answering
    <3> QED BY <2>2, <3>2
  <2>4. ApplySuspension(s, e) = GateAnswered(s, e)
    BY <1>1 DEF ApplySuspension, NodeTerminals, RunTerminals
  <2> QED BY <1>1, <2>3, <2>4
<1> HIDE DEF t
<1>7. Puts(s, t, g, k)
  BY <1>5, SoundGated, PutParts DEF s, t
<1>8. Follows(r, q, e, t, "human", n)
  BY <1>6, EventParts DEF Sound, Form, s
<1>9. /\ IsRecord(q) /\ q.suspensions = t /\ q.run = r.run /\ q.dispatches = r.dispatches
      /\ q.selected = r.selected /\ q.node = [r.node EXCEPT ![n] = "completed"]
  BY <1>1, <1>8 DEF Follows, GateMark, Mark, RunAfter
<1>10. q.lives[n] = NoLife /\ q.lives = [m \in Node |-> q.lives[m]]
       /\ \A m \in Node : m # n => q.lives[m] = r.lives[m]
  BY <1>1, <1>8 DEF Follows, ApplyLife
<1>11. q.node[n] = "completed" /\ \A m \in Node : m # n => q.node[m] = r.node[m]
  BY <1>9 DEF Sound, Form, IsRecord
<1>12. Closes(r, q, n, g, k)
  <2>1. DOMAIN t.gates = DOMAIN s.gates
    BY <1>2, <1>7 DEF Puts
  <2> QED BY <1>7, <1>9, <1>10, <1>11, <2>1 DEF Closes, Puts, s
<1>13. NoLife \in Life /\ ~ NoLife.budgetContinuation /\ ~ NoLife.valid
  BY DEF NoLife, NewLife, Life
<1>14. Sound(q) /\ Spares(r, q, n)
  <2>1. \A i \in DOMAIN GatesOf(r) : GatesOf(r)[i].node = n /\ i # g => ~ GatesOf(r)[i].active
    BY <1>3 DEF GatesOf, s
  <2>2. r.suspensions.media[n] = NoJob /\ q.node[n] \in Settled
    BY <1>2, <1>11 DEF s, Settled
  <2> QED BY <1>2, <1>5, <1>10, <1>11, <1>12, <1>13, <2>1, <2>2, GateClosed
<1>15. BudgetRejections(t) = BudgetRejections(s)
  <2>1. DOMAIN t.gates = DOMAIN s.gates /\ t.gates[g] = k /\ s.gates[g] = h
        /\ \A i \in DOMAIN s.gates : i # g => t.gates[i] = s.gates[i]
    BY <1>2, <1>7 DEF Puts, h
  <2> QED BY <1>2, <1>5, <2>1 DEF BudgetRejections
<1> QED BY <1>9, <1>12, <1>14, <1>15 DEF Closes, GatesOf, s

(* What a decision on money makes of the fold. *)
Judged(r, q, n, g, d) ==
    /\ Spares(r, q, n)
    /\ q.node = [r.node EXCEPT ![n] = IF d = "approved" THEN "none" ELSE "failed"]
    /\ q.run = r.run /\ q.selected = r.selected /\ q.dispatches = r.dispatches
    /\ q.suspensions.media = r.suspensions.media /\ q.suspensions.terminalRun = r.suspensions.terminalRun
    /\ DOMAIN GatesOf(q) = DOMAIN GatesOf(r)
    /\ GatesOf(q)[g].node = n /\ GatesOf(q)[g].budget /\ GatesOf(q)[g].allowance = "frozen"
    /\ GatesOf(q)[g].authorityDecision = d /\ GatesOf(q)[g].humanDecision = "none"
    /\ d = "approved" => /\ q.lives[n].budgetContinuation /\ q.lives[n].startedAt = r.lives[n].startedAt
                         /\ BudgetRejections(q.suspensions) = BudgetRejections(r.suspensions)

(* #authority with a decision on an open budget gate. *)
LEMMA DecidedSuspension ==
    ASSUME NEW r, Sound(r), NEW n \in Node, NEW g \in DOMAIN GatesOf(r), NEW h, h = GatesOf(r)[g], h.node = n,
           h.active, h.budget, NEW d \in {"approved", "rejected"},
           NEW e, e.type = "budget:authorization", e.decision = d, e.node = n, e.gate = g, e.allowance = "frozen"
    PROVE  \E k, t :
              /\ k \in Gate /\ k.node = n /\ ~ k.active /\ k.budget /\ k.allowance = "frozen" /\ k.authorityPause
              /\ k.authorityDecision = d /\ k.humanDecision = "none"
              /\ ApplySuspension(r.suspensions, e) = Moved(t, d, n)
              /\ Gated(t) /\ DOMAIN t.gates = DOMAIN r.suspensions.gates /\ t.gates[g] = k
              /\ \A i \in DOMAIN r.suspensions.gates : i # g => t.gates[i] = r.suspensions.gates[i]
              /\ t.media = r.suspensions.media /\ t.terminalRun = r.suspensions.terminalRun
              /\ t.corrupt = r.suspensions.corrupt
              /\ t.terminalNodes = r.suspensions.terminalNodes \cup (IF d = "rejected" THEN {n} ELSE {})
<1> DEFINE s == r.suspensions
           k == [Quoted(h, e) EXCEPT !.budget = TRUE, !.active = FALSE, !.authorityDecision = e.decision]
           p == PutGate(s, g, k)
           t == IF d = "rejected" THEN RetireNode(p, n) ELSE p
<1>1. /\ h \in Gate /\ g \in DOMAIN s.gates /\ s.gates[g] = h /\ ~ IsResolved(h) /\ h.allowance = "frozen"
      /\ h.authorityDecision = "none" /\ h.humanDecision = "none" /\ h.authorityPause /\ s.media[n] = NoJob
      /\ \A i \in DOMAIN s.gates : s.gates[i].node = n /\ i # g => ~ s.gates[i].active
  BY OpenGate DEF GatesOf
<1>2. Quoted(h, e) = h
  <2>1. [h EXCEPT !.allowance = h.allowance] = h
    BY <1>1, GateFields
  <2> QED BY <1>1, <2>1 DEF Quoted
<1>3. /\ k \in Gate /\ k.node = n /\ ~ k.active /\ k.budget /\ k.allowance = "frozen" /\ k.authorityPause
      /\ k.authorityDecision = d /\ k.humanDecision = "none"
  <2>1. k = [h EXCEPT !.budget = TRUE, !.active = FALSE, !.authorityDecision = d]
    BY <1>2
  <2> HIDE DEF k
  <2> QED BY <1>1, <2>1 DEF Gate, Answers
<1>4. ApplySuspension(s, e) = Moved(t, d, n)
  <2>1. FoundGate(s, e) = h /\ ~ Mistaken(s, e) /\ ~ NotBudget(h) /\ ~ Misquoted(h, e)
    BY <1>1 DEF FoundGate, Mistaken, NotBudget, Misquoted
  <2> HIDE DEF s, t
  <2>2. AuthorityDecided(s, e) = Moved(t, d, n)
    <3> DEFINE X == IF e.decision = "rejected" THEN RetireNode(PutGate(s, e.gate, k), e.node) ELSE PutGate(s, e.gate, k)
    <3>1. X = t
      BY DEF t
    <3>2. AuthorityDecided(s, e) =
            IF \/ Mistaken(s, e) \/ NotBudget(h) \/ Misquoted(h, e)
               \/ h.authorityDecision \notin {"none", e.decision}
               \/ h.humanDecision \notin {"none", e.decision}
               \/ ~ IsResolved(h) /\ ~ h.active
            THEN Corrupt(s, e.node)
            ELSE IF IsResolved(h) THEN Unmoved(IF h.authorityDecision = "none" THEN X ELSE s, e.node)
            ELSE Moved(X, e.decision, e.node)
      BY <2>1 DEF AuthorityDecided
    <3> HIDE DEF X
    <3> QED BY <1>1, <2>1, <3>1, <3>2
  <2>3. ApplySuspension(s, e) = AuthorityDecided(s, e)
    BY DEF ApplySuspension, NodeTerminals, RunTerminals
  <2> QED BY <2>2, <2>3
<1> HIDE DEF s, k, p
<1>5. Puts(s, p, g, k)
  BY <1>3, SoundGated, PutParts DEF s, p
<1>6. /\ Gated(t) /\ DOMAIN t.gates = DOMAIN s.gates /\ t.gates[g] = k
      /\ \A i \in DOMAIN s.gates : i # g => t.gates[i] = s.gates[i]
      /\ t.media = s.media /\ t.terminalRun = s.terminalRun /\ t.corrupt = s.corrupt
      /\ t.terminalNodes = s.terminalNodes \cup (IF d = "rejected" THEN {n} ELSE {})
  <2>1. /\ Gated(p) /\ DOMAIN p.gates = DOMAIN s.gates /\ p.gates[g] = k
        /\ \A i \in DOMAIN s.gates : i # g => p.gates[i] = s.gates[i]
        /\ p.media = s.media /\ p.terminalRun = s.terminalRun /\ p.corrupt = s.corrupt
        /\ p.terminalNodes = s.terminalNodes
    BY <1>1, <1>5 DEF Puts
  <2>2. CASE d = "approved"
    BY <2>1, <2>2
  <2>3. CASE d = "rejected"
    <3> HIDE DEF t
    <3>1. Retires(p, t, n)
      BY <2>1, <2>3, RetireParts DEF t
    <3>2. ASSUME NEW i \in DOMAIN s.gates PROVE t.gates[i] = p.gates[i]
      <4> DEFINE h0 == p.gates[i]
                 h1 == t.gates[i]
      <4>1. CASE h0.node # n
        BY <2>1, <3>1, <4>1 DEF Retires
      <4>2. CASE h0.node = n
        <5>1. h0 \in Gate /\ ~ h0.active
          BY <1>1, <1>3, <2>1, <4>2 DEF Gated
        <5>2. h1 = [h0 EXCEPT !.active = FALSE]
          BY <2>1, <3>1, <4>2 DEF Retires
        <5> HIDE DEF h0, h1
        <5>3. h1 = h0
          BY <5>1, <5>2, GateRest, SameGate
        <5> QED BY <5>3 DEF h0, h1
      <4> QED BY <4>1, <4>2
    <3>3. t.media = s.media
      <4>1. p.media = [m \in Node |-> p.media[m]] /\ p.media[n] = NoJob
        BY <1>1, <2>1 DEF Gated, IsSuspension
      <4> QED BY <2>1, <3>1, <4>1 DEF Retires
    <3> QED BY <1>1, <2>1, <2>3, <3>1, <3>2, <3>3 DEF Retires
  <2> QED BY <2>2, <2>3
<1> QED BY <1>3, <1>4, <1>6 DEF s

(* A decision on money: the vertex is to run again, or has failed. *)
LEMMA DecidedFold ==
    ASSUME CheckpointConstants, NEW r, Sound(r), ~ r.suspensions.terminalRun,
           NEW n \in Node, NEW g \in DOMAIN GatesOf(r), NEW h, h = GatesOf(r)[g], h.node = n,
           h.active, h.budget, NEW d \in {"approved", "rejected"},
           NEW e, e.type = "budget:authorization", e.decision = d, e.node = n, e.gate = g, e.allowance = "frozen",
           NEW q, q = ApplyEvent(r, e)
    PROVE  Sound(q) /\ Judged(r, q, n, g, d)
<1> DEFINE s == r.suspensions
<1>1. PICK k, t :
              /\ k \in Gate /\ k.node = n /\ ~ k.active /\ k.budget /\ k.allowance = "frozen" /\ k.authorityPause
              /\ k.authorityDecision = d /\ k.humanDecision = "none"
              /\ ApplySuspension(s, e) = Moved(t, d, n)
              /\ Gated(t) /\ DOMAIN t.gates = DOMAIN s.gates /\ t.gates[g] = k
              /\ \A i \in DOMAIN s.gates : i # g => t.gates[i] = s.gates[i]
              /\ t.media = s.media /\ t.terminalRun = s.terminalRun
              /\ t.corrupt = s.corrupt
              /\ t.terminalNodes = s.terminalNodes \cup (IF d = "rejected" THEN {n} ELSE {})
  BY DecidedSuspension
<1>2. Follows(r, q, e, t, d, n)
  BY <1>1, EventParts DEF Sound, Form
<1>3. /\ h \in Gate /\ g \in DOMAIN s.gates /\ s.gates[g] = h /\ ~ IsResolved(h) /\ r.node[n] = "paused"
      /\ h.authorityDecision = "none" /\ h.humanDecision = "none" /\ s.media[n] = NoJob /\ n \in Budgeted
      /\ n \notin s.terminalNodes
      /\ \A i \in DOMAIN GatesOf(r) : GatesOf(r)[i].node = n /\ i # g => ~ GatesOf(r)[i].active
  BY OpenGate
<1>4. n \in Agents /\ r.run # "completed"
  BY <1>3, SoundAgents DEF Sound, Form
<1>5. /\ IsRecord(q) /\ q.suspensions = t /\ q.run = r.run /\ q.dispatches = r.dispatches
      /\ q.selected = r.selected /\ q.node = [r.node EXCEPT ![n] = IF d = "approved" THEN "none" ELSE "failed"]
  BY <1>2 DEF Follows, GateMark, Mark, RunAfter
<1>6. r.lives[n] \in Life /\ r.lives[n].valid /\ r.lives[n].nextRetry = 0 /\ ~ r.lives[n].budgetContinuation
      /\ r.lives[n].startedAt # 0
  BY <1>3, <1>4 DEF Sound, Form, VertexSound
<1>7. /\ q.lives[n] = IF d = "approved" THEN LifeApproved(r.lives[n]) ELSE r.lives[n]
      /\ q.lives = [m \in Node |-> q.lives[m]]
      /\ \A m \in Node : m # n => q.lives[m] = r.lives[m]
  BY <1>2 DEF Follows, ApplyLife
<1>8. /\ q.lives[n] \in Life /\ q.lives[n].valid /\ q.lives[n].nextRetry = 0 /\ q.lives[n].startedAt = r.lives[n].startedAt
      /\ q.lives[n].budgetContinuation <=> d = "approved"
  <2> DEFINE l == r.lives[n]
             k0 == q.lives[n]
  <2>1. l \in Life /\ l.valid /\ l.nextRetry = 0 /\ ~ l.budgetContinuation /\ k0 = IF d = "approved" THEN LifeApproved(l) ELSE l
    BY <1>6, <1>7
  <2> HIDE DEF l, k0
  <2>2. CASE d = "approved"
    <3>1. l # NoLife
      BY <2>1 DEF NoLife, NewLife
    <3>2. k0 = [l EXCEPT !.valid = l.valid /\ ~ l.budgetContinuation /\ l.nextRetry = 0, !.budgetContinuation = TRUE]
      BY <2>1, <2>2, <3>1 DEF LifeApproved
    <3>3. (l.valid /\ ~ l.budgetContinuation /\ l.nextRetry = 0) = TRUE
      BY <2>1
    <3>4. k0 = [l EXCEPT !.valid = TRUE, !.budgetContinuation = TRUE]
      BY <3>2, <3>3
    <3>5. k0 \in Life /\ k0.valid /\ k0.nextRetry = 0 /\ k0.startedAt = l.startedAt /\ k0.budgetContinuation
      BY <2>1, <3>4 DEF Life
    <3> QED BY <2>2, <3>5 DEF l, k0
  <2>3. CASE d = "rejected"
    BY <2>1, <2>3 DEF l, k0
  <2> QED BY <2>2, <2>3
<1>9. /\ q.node[n] = IF d = "approved" THEN "none" ELSE "failed"
      /\ \A m \in Node : m # n => q.node[m] = r.node[m]
  BY <1>5 DEF Sound, Form, IsRecord
<1>10. Closes(r, q, n, g, k)
  <2>1. t.terminalNodes \subseteq s.terminalNodes \cup {n}
    BY <1>1
  <2> QED BY <1>1, <1>5, <1>7, <1>9, <2>1 DEF Closes
<1>11. n \in q.suspensions.terminalNodes => q.node[n] \in Settled
  BY <1>1, <1>3, <1>5, <1>9 DEF Settled
<1>12. Sound(q) /\ Spares(r, q, n)
  <2>1. q.node[n] # "paused" /\ r.suspensions.media[n] = NoJob
    BY <1>3, <1>9
  <2>2. q.lives[n].budgetContinuation => q.lives[n].valid /\ q.lives[n].nextRetry = 0 /\ q.node[n] = "none"
    BY <1>8, <1>9
  <2>3. q.lives[n].valid => q.lives[n].startedAt # 0
    BY <1>6, <1>8
  <2> QED BY <1>1, <1>3, <1>4, <1>8, <1>10, <1>11, <2>1, <2>2, <2>3, GateClosed
<1>13. d = "approved" => BudgetRejections(t) = BudgetRejections(s)
  BY <1>1, <1>3 DEF BudgetRejections
<1> QED BY <1>1, <1>5, <1>8, <1>12, <1>13 DEF Judged, GatesOf

(* The run pauses or ends. *)
LEMMA RunFold ==
    ASSUME CheckpointConstants, NEW r, Sound(r), NEW e, e.type \in RunTerminals \cup {"run:paused"}, e.node = NoNode,
           ~ r.suspensions.terminalRun, e.type = "run:completed" => BudgetRejections(r.suspensions) = {},
           NEW q, q = ApplyEvent(r, e)
    PROVE  /\ Sound(q) /\ q.node = r.node /\ q.selected = r.selected /\ q.dispatches = r.dispatches
           /\ q.lives = r.lives /\ GatesOf(q) = GatesOf(r) /\ q.suspensions.media = r.suspensions.media
           /\ q.suspensions.terminalNodes = r.suspensions.terminalNodes
           /\ BudgetRejections(q.suspensions) = BudgetRejections(r.suspensions)
           /\ e.type = "run:paused" => q.suspensions.terminalRun = r.suspensions.terminalRun
<1> DEFINE s == r.suspensions
           t == IF e.type = "run:paused" THEN s ELSE [s EXCEPT !.terminalRun = TRUE]
<1>1. ApplySuspension(s, e) = Moved(t, "none", NoNode)
  BY DEF ApplySuspension, NodeTerminals, RunTerminals, Unmoved
<1>2. Follows(r, q, e, t, "none", NoNode)
  BY <1>1, EventParts DEF Sound, Form
<1>3. /\ t.gates = s.gates /\ t.media = s.media /\ t.terminalNodes = s.terminalNodes /\ t.corrupt = s.corrupt
      /\ t.terminalRun = IF e.type = "run:paused" THEN s.terminalRun ELSE TRUE
  BY SoundGated DEF Gated, IsSuspension
<1> HIDE DEF t
<1>4. /\ IsRecord(q) /\ q.suspensions = t /\ q.run = RunAfter(r.run, e) /\ q.dispatches = r.dispatches
      /\ q.selected = r.selected /\ q.node = r.node
  BY <1>2 DEF Follows, GateMark, Mark, RunTerminals
<1>5. q.lives = r.lives
  <2>1. \A m \in Node : q.lives[m] = r.lives[m]
    BY <1>2, CheckpointConstants DEF Follows, CheckpointConstants
  <2>2. q.lives = [m \in Node |-> q.lives[m]] /\ r.lives = [m \in Node |-> r.lives[m]]
    BY <1>2 DEF Follows, Sound, Form
  <2> QED BY <2>1, <2>2
<1>6. GatesOf(q) = GatesOf(r)
  BY <1>3, <1>4 DEF GatesOf
<1>7. Form(q)
  <2>1. q.run = "completed" => t.terminalRun
    BY <1>3, <1>4 DEF RunAfter, Sound, Form, RunTerminals
  <2> QED BY <1>3, <1>4, <1>5, <1>6, <2>1 DEF Sound, Form
<1>8. ASSUME NEW g \in DOMAIN GatesOf(q) PROVE GateSound(q, g)
  <2>1. GateSound(r, g)
    BY <1>6 DEF Sound
  <2>2. GatesOf(q)[g].budget /\ GatesOf(q)[g].authorityDecision = "rejected" => q.run # "completed"
    <3>1. CASE e.type = "run:completed"
      BY <1>6, <3>1 DEF BudgetRejections, GatesOf
    <3>2. CASE e.type # "run:completed"
      BY <1>4, <1>6, <2>1, <3>2 DEF RunAfter, RunTerminals, GateSound
    <3> QED BY <3>1, <3>2
  <2> QED BY <1>3, <1>4, <1>6, <2>1, <2>2 DEF GateSound
<1>9. \A n \in Node : VertexSound(q, n)
  BY <1>3, <1>4, <1>5, <1>6 DEF Sound, VertexSound
<1>10. OneGateEach(q)
  BY <1>6 DEF Sound, OneGateEach
<1>11. BudgetRejections(t) = BudgetRejections(s)
  BY <1>3 DEF BudgetRejections
<1> QED BY <1>3, <1>4, <1>5, <1>6, <1>7, <1>8, <1>9, <1>10, <1>11 DEF Sound

-----------------------------------------------------------------------------
(* The story of a run: the record after each event that is still on its way  *)
(* into the log, and what the living process has to do with the last.        *)
Story(h) ==
    /\ h = [i \in 0 .. Len(tail) |-> h[i]]
    /\ h[0] = rec
    /\ \A i \in 1 .. Len(tail) : h[i] = ApplyEvent(h[i - 1], tail[i]) /\ Told(h[i - 1], tail[i])
    /\ \A i \in 0 .. Len(tail) : Sound(h[i])
    /\ leg = "down" => tail = <<>>
    /\ leg = "passive" /\ ~ Stopping =>
         \A i \in 0 .. Len(tail) : h[i].suspensions.media = rec.suspensions.media

(* A dispatch of the vertex is under way. *)
Working == {"starting", "restarting", "exec", "backoff"}

(* a is the record once all that was asked for is stored *)
VertexTied(a, n) ==
    LET life == a.lives[n]
    IN
    /\ status[n] = "pending" => a.node[n] = "none"
    /\ status[n] = "running" <=> task[n] \in Working
    /\ status[n] = "running" =>
        /\ a.node[n] = "none"
        /\ entry[n] \in 1 .. a.dispatches /\ entry[n] \notin DOMAIN GatesOf(a)
        /\ attempt[n] # 0
        /\ n \in Agents => /\ life.valid /\ ~ life.budgetContinuation /\ life.attempt = attempt[n]
                           /\ life.nextRetry = IF task[n] = "backoff" THEN attempt[n] + 1 ELSE 0
    /\ status[n] \in {"paused", "failed"} => a.node[n] \notin {"completed", "skipped"}
    /\ status[n] \in {"completed", "skipped"} => a.node[n] = status[n]
    /\ task[n] = "pinning" => a.node[n] = "paused" /\ status[n] = "paused" /\ decision[n] # "pinning"
    /\ \A p \in pendingGates : p.node = n => status[n] \in {"paused", "failed"} /\ task[n] # "pinning"

(* No two dispatches under way have the same number. *)
EntriesDiffer == \A m, n \in Node : task[m] \in Working /\ task[n] \in Working /\ entry[m] = entry[n] => m = n

(* The vertex n waits at the gate p, and the decision of the process on it is
   the one the record has, or is about to have. *)
PausedForGate(a, n, p) ==
    LET h == GatesOf(a)[p.gate]
    IN  /\ p.gate \in DOMAIN GatesOf(a) /\ h.node = n /\ h.budget = p.budget /\ h.allowance = p.allowance
        /\ p.gate \in resolved <=> decision[n] # "none"
        /\ decision[n] = "none" => h.active
        /\ decision[n] = "pinning" => h.active /\ ~ h.budget
        /\ decision[n] \in {"approving", "approved"} =>
             h.authorityDecision = "approved" /\ a.node[n] = "none" /\ a.lives[n].budgetContinuation
        /\ decision[n] \in {"rejecting", "rejected"} => h.authorityDecision = "rejected" /\ a.node[n] = "failed"
        /\ decision[n] \in {"approving", "approved", "rejecting", "rejected"} => h.budget
        /\ decision[n] \in {"approving", "rejecting"} => h.humanDecision = "none"
        /\ task[n] \in {"idle"} \cup {"authority", "companion", "announcing"}
        /\ task[n] \in {"authority", "companion"} => h.budget
        /\ task[n] = "authority" => decision[n] = "none"

(* The vertex waits for a media job. *)
PausedForJob(a, n) ==
    /\ a.suspensions.media[n] # NoJob /\ decision[n] = "none"
    /\ task[n] \in {"idle", "pinning"}

(* While the run is not ending, the process knows of a vertex exactly what
   the record says: the gate, its decision, the job, the branch and the
   clock. *)
Exact(a, n) ==
    /\ \A p, q \in pendingGates : p.node = n /\ q.node = n => p = q
    /\ status[n] = "paused" =>
        \/ \E p \in pendingGates : p.node = n /\ PausedForGate(a, n, p)
        \/ (\A p \in pendingGates : p.node # n) /\ PausedForJob(a, n)
    /\ status[n] # "paused" => decision[n] = "none" /\ \A p \in pendingGates : p.node # n
    /\ status[n] = "failed" => a.node[n] = "failed"
    /\ task[n] \in {"authority", "companion"} => status[n] = "paused"
    /\ leg = "live" => jobs[n] = IF task[n] = "pinning" THEN NoJob ELSE a.suspensions.media[n]
    /\ leg = "passive" => task[n] = "idle"
    /\ n \in Timed =>
        /\ status[n] = "pending" => startedAt[n] = IF a.lives[n].budgetContinuation THEN a.lives[n].startedAt ELSE 0
        /\ status[n] = "running" =>
            \/ startedAt[n] = a.lives[n].startedAt
            \/ task[n] = "starting" /\ startedAt[n] = 0 /\ entry[n] = a.lives[n].startedAt
        /\ status[n] = "paused" /\ decision[n] \notin {"rejecting", "rejected"} => startedAt[n] = a.lives[n].startedAt

(* The whole process against the record a. While the run ends, only the parts
   that the end still reads are kept. *)
Tied(a) ==
    /\ ~ a.suspensions.terminalRun
    /\ dispatches = a.dispatches /\ chosen = a.selected
    /\ \A n \in Node : VertexTied(a, n)
    /\ EntriesDiffer
    /\ \A p \in pendingGates : p = [gate |-> p.gate, node |-> p.node, budget |-> p.budget, allowance |-> p.allowance] /\ p.node \in Node
    /\ ~ Stopping =>
        /\ \A n \in Node : Exact(a, n)
        /\ resolved \subseteq DOMAIN GatesOf(a)
        /\ BudgetRejections(a.suspensions) # {} =>
              \E n \in Node : decision[n] \in {"rejecting", "rejected"}

-----------------------------------------------------------------------------
(* A step about one vertex.                                                  *)

(* A step leaves what the process holds of m alone, but may drop its gate. *)
Untouched(m) ==
    /\ status'[m] = status[m] /\ task'[m] = task[m] /\ entry'[m] = entry[m] /\ attempt'[m] = attempt[m]
    /\ startedAt'[m] = startedAt[m] /\ decision'[m] = decision[m]
    /\ \A p \in pendingGates' : p.node = m => p \in pendingGates

(* The vertices whose rejected budget is being applied. *)
Deciders == {n \in Node : decision[n] \in {"rejecting", "rejected"}}

(* A gate the process waits at, with the fields #execute gives it. *)
IsGateRecord(p) ==
    /\ p = [gate |-> p.gate, node |-> p.node, budget |-> p.budget, allowance |-> p.allowance]
    /\ p.node \in Node

(* A step about n, of a run that is not ending, keeps the exact part: of n
   anew, of the others because nothing of theirs changes, and every rejection
   of money has a vertex that ends the run. *)
ExactMoves(a, q, n) ==
    /\ ~ Stopping
    /\ n \in Node => Exact(q, n)'
    /\ \A m \in Node \ {n} :
         /\ \A p \in pendingGates : p.node = m => p \in pendingGates' /\ (p.gate \in resolved' <=> p.gate \in resolved)
         /\ leg' = "live" => jobs'[m] = IF leg = "live" THEN jobs[m] ELSE a.suspensions.media[m]
    /\ leg' = "passive" => leg = "passive"
    /\ resolved' \subseteq DOMAIN GatesOf(q)
    /\ \/ BudgetRejections(q.suspensions) = BudgetRejections(a.suspensions) /\ (n \in Deciders => n \in Deciders')
       \/ n \in Deciders'

(* A step about n takes the process from the record a to the record q. *)
Moves(a, q, n) ==
    /\ Sound(q) /\ Spares(a, q, n) /\ \A m \in Node \ {n} : Untouched(m)
    /\ a.dispatches <= q.dispatches /\ dispatches' = q.dispatches /\ chosen' = q.selected
    /\ ~ q.suspensions.terminalRun
    /\ n \in Node => /\ VertexTied(q, n)'
                     /\ task'[n] \in Working => \/ task[n] \in Working /\ entry'[n] = entry[n]
                                                \/ entry'[n] = a.dispatches + 1
    /\ \A g \in DOMAIN GatesOf(q) : g \in DOMAIN GatesOf(a) \/ (n \in Node /\ g = entry[n] /\ task[n] \in Working)
    /\ \A p \in pendingGates' : p \in pendingGates \/ IsGateRecord(p)
    /\ ~ Stopping' => ExactMoves(a, q, n)

(* An event about n leaves what the process holds of another vertex true of
   the record. *)
LEMMA FoldTied ==
    ASSUME NEW a, NEW q, NEW n, NEW m \in Node, m # n, Spares(a, q, n), a.dispatches \in Nat,
           q.dispatches \in Nat, a.dispatches <= q.dispatches, VertexTied(a, m),
           \A g \in DOMAIN GatesOf(q) : g \in DOMAIN GatesOf(a) \/ (task[m] \in Working => g # entry[m])
    PROVE  VertexTied(q, m)
BY DEF VertexTied, Spares, Working

(* So it does with the exact part. *)
LEMMA FoldExact ==
    ASSUME NEW a, NEW q, NEW n, NEW m \in Node, m # n, Spares(a, q, n), Exact(a, m)
    PROVE  Exact(q, m)
<1>1. q.node[m] = a.node[m] /\ q.lives[m] = a.lives[m] /\ q.suspensions.media[m] = a.suspensions.media[m]
  BY DEF Spares
<1>2. ASSUME NEW p, PausedForGate(a, m, p) PROVE PausedForGate(q, m, p)
  <2>1. GatesOf(q)[p.gate] = GatesOf(a)[p.gate] /\ p.gate \in DOMAIN GatesOf(q)
    BY <1>2 DEF PausedForGate, Spares
  <2> QED BY <1>1, <1>2, <2>1 DEF PausedForGate
<1>3. PausedForJob(a, m) => PausedForJob(q, m)
  BY <1>1 DEF PausedForJob
<1> QED BY <1>1, <1>2, <1>3 DEF Exact

(* A step that leaves m alone keeps what the process holds of it. *)
LEMMA KeptTied ==
    ASSUME NEW q, NEW m \in Node, Untouched(m), VertexTied(q, m)
    PROVE  VertexTied(q, m)'
BY DEF VertexTied, Untouched, Working

(* So it does with the exact part, if it neither opens nor decides a gate of
   m and moves no job of it. *)
LEMMA KeptExact ==
    ASSUME NEW q, NEW m \in Node, Untouched(m), Exact(q, m), Active,
           \A p \in pendingGates : p.node = m => p \in pendingGates' /\ (p.gate \in resolved' <=> p.gate \in resolved),
           leg' = "live" => jobs'[m] = IF leg = "live" THEN jobs[m] ELSE q.suspensions.media[m],
           leg' = "passive" => leg = "passive"
    PROVE  Exact(q, m)'
<1>1. ASSUME NEW p \in pendingGates, p.node = m, PausedForGate(q, m, p) PROVE p \in pendingGates' /\ PausedForGate(q, m, p)'
  BY <1>1 DEF PausedForGate, Untouched
<1>2. PausedForJob(q, m) => PausedForJob(q, m)'
  BY DEF PausedForJob, Untouched
<1>3. /\ \A p, k \in pendingGates' : p.node = m /\ k.node = m => p = k
      /\ (\A p \in pendingGates : p.node # m) => (\A p \in pendingGates' : p.node # m)
  BY DEF Exact, Untouched
<1>4. leg' = "live" => jobs'[m] = IF task'[m] = "pinning" THEN NoJob ELSE q.suspensions.media[m]
  BY DEF Exact, Untouched, Active
<1>5. leg' = "passive" => task'[m] = "idle"
  BY DEF Exact, Untouched
<1>6. status'[m] = "paused" =>
        \/ \E p \in pendingGates' : p.node = m /\ PausedForGate(q, m, p)'
        \/ (\A p \in pendingGates' : p.node # m) /\ PausedForJob(q, m)'
  BY <1>1, <1>2, <1>3 DEF Exact, Untouched
<1>7. /\ status'[m] # "paused" => decision'[m] = "none" /\ \A p \in pendingGates' : p.node # m
      /\ status'[m] = "failed" => q.node[m] = "failed"
      /\ task'[m] \in {"authority", "companion"} => status'[m] = "paused"
  BY <1>3 DEF Exact, Untouched
<1>8. m \in Timed =>
        /\ status'[m] = "pending" => startedAt'[m] = IF q.lives[m].budgetContinuation THEN q.lives[m].startedAt ELSE 0
        /\ status'[m] = "running" =>
            \/ startedAt'[m] = q.lives[m].startedAt
            \/ task'[m] = "starting" /\ startedAt'[m] = 0 /\ entry'[m] = q.lives[m].startedAt
        /\ status'[m] = "paused" /\ decision'[m] \notin {"rejecting", "rejected"} => startedAt'[m] = q.lives[m].startedAt
  BY DEF Exact, Untouched
<1> QED BY <1>3, <1>4, <1>5, <1>6, <1>7, <1>8 DEF Exact

(* A step about one vertex keeps the process tied to the record. *)
LEMMA MovesTied ==
    ASSUME NEW a, NEW q, NEW n, Active, Sound(a), Tied(a), Moves(a, q, n)
    PROVE  Tied(q)'
<1>0. a.dispatches \in Nat /\ q.dispatches \in Nat /\ a.dispatches <= q.dispatches
  BY DEF Sound, Form, IsRecord, Moves
<1>1. ASSUME NEW m \in Node PROVE VertexTied(q, m)'
  <2>1. CASE m = n
    BY <2>1 DEF Moves
  <2>2. CASE m # n
    <3>1. \A g \in DOMAIN GatesOf(q) : g \in DOMAIN GatesOf(a) \/ (task[m] \in Working => g # entry[m])
      BY <2>2 DEF Moves, Tied, EntriesDiffer
    <3>2. VertexTied(q, m)
      BY <1>0, <2>2, <3>1, FoldTied DEF Moves, Tied
    <3> QED BY <2>2, <3>2, KeptTied DEF Moves
  <2> QED BY <2>1, <2>2
<1>2. EntriesDiffer'
  <2> SUFFICES ASSUME NEW l \in Node, NEW m \in Node, task'[l] \in Working, task'[m] \in Working,
                      entry'[l] = entry'[m], l # m
               PROVE  FALSE
    BY DEF EntriesDiffer, Working
  <2>1. \A k \in Node : task[k] \in Working => entry[k] \in 1 .. a.dispatches
    BY DEF Tied, VertexTied
  <2>2. \A k \in Node \ {n} : task'[k] = task[k] /\ entry'[k] = entry[k]
    BY DEF Moves, Untouched
  <2>3. n \in Node /\ task'[n] \in Working => \/ task[n] \in Working /\ entry'[n] = entry[n]
                                              \/ entry'[n] = a.dispatches + 1
    BY DEF Moves
  <2> QED BY <1>0, <2>1, <2>2, <2>3 DEF Tied, EntriesDiffer
<1>3. \A p \in pendingGates' : IsGateRecord(p)
  BY DEF Moves, Tied, IsGateRecord
<1>4. ASSUME ~ Stopping'
      PROVE  /\ \A m \in Node : Exact(q, m)'
             /\ resolved' \subseteq DOMAIN GatesOf(q)
             /\ BudgetRejections(q.suspensions) # {} => Deciders' # {}
  <2>1. ExactMoves(a, q, n) /\ ~ Stopping
    BY <1>4 DEF Moves, ExactMoves
  <2>2. ASSUME NEW m \in Node PROVE Exact(q, m)'
    <3>1. CASE m = n
      BY <2>1, <3>1 DEF ExactMoves
    <3>2. CASE m # n
      <4>1. Exact(q, m)
        BY <2>1, <3>2, FoldExact DEF Moves, Tied
      <4>2. q.suspensions.media[m] = a.suspensions.media[m]
        BY <3>2 DEF Moves, Spares
      <4>3. Untouched(m)
        BY <3>2 DEF Moves
      <4>4. /\ \A p \in pendingGates : p.node = m => p \in pendingGates' /\ (p.gate \in resolved' <=> p.gate \in resolved)
            /\ leg' = "live" => jobs'[m] = IF leg = "live" THEN jobs[m] ELSE q.suspensions.media[m]
            /\ leg' = "passive" => leg = "passive"
        BY <2>1, <3>2, <4>2 DEF ExactMoves
      <4> QED BY <4>1, <4>3, <4>4, KeptExact
    <3> QED BY <3>1, <3>2
  <2>3. BudgetRejections(a.suspensions) # {} => Deciders # {}
    BY <2>1 DEF Tied, Deciders
  <2>4. \A m \in Node \ {n} : m \in Deciders => m \in Deciders'
    BY DEF Moves, Untouched, Deciders
  <2>5. Deciders \subseteq Node
    BY DEF Deciders
  <2> QED BY <2>1, <2>2, <2>3, <2>4, <2>5 DEF ExactMoves
<1> QED BY <1>1, <1>2, <1>3, <1>4 DEF Tied, Moves, IsGateRecord, Deciders

(* The clocks and counters of the vertices are numbers. *)
Shapes ==
    /\ attempt \in [Node -> Nat] /\ entry \in [Node -> Nat] /\ startedAt \in [Node -> Nat]

(* The inductive invariant: there is a story of sound records, and a living
   process is tied to its last. *)
History == \E h : Story(h) /\ (Active => Tied(h[Len(tail)]))

(* What a step about the run begins from: a is the record once all is stored. *)
Ready(a) ==
    /\ Active /\ Types /\ Shapes /\ jobs = [n \in Node |-> jobs[n]]
    /\ Sound(a) /\ Tied(a)
    /\ leg = "passive" /\ ~ Stopping => a.suspensions.media = rec.suspensions.media

(* A step that asks for nothing, or for one event. *)
Stays(a, n) == UNCHANGED tail /\ Moves(a, a, n)
Asks(a, e, q, n) ==
    /\ Ask(e) /\ q = ApplyEvent(a, e) /\ Told(a, e) /\ Moves(a, q, n)
    /\ leg' = "passive" /\ ~ Stopping' => q.suspensions.media = a.suspensions.media
Goes(a, n) ==
    /\ UNCHANGED rec /\ leg' \in {leg, "live"}
    /\ Stays(a, n) \/ \E e, q : Asks(a, e, q, n)

(* One more event has been asked for. *)
LEMMA StoryGrows ==
    ASSUME NEW h, Story(h), NEW a, a = h[Len(tail)], NEW S, tail \in Seq(S), NEW e, NEW q,
           UNCHANGED rec, Ask(e), q = ApplyEvent(a, e), Told(a, e), Sound(q), leg # "down",
           leg' # "down",
           leg' = "passive" /\ ~ Stopping' =>
             leg = "passive" /\ ~ Stopping /\ q.suspensions.media = a.suspensions.media
    PROVE  \E k : Story(k)' /\ k[Len(tail')] = q
<1> DEFINE N == Len(tail)
<1>0. PICK k : k = [i \in 0 .. N + 1 |-> IF i <= N THEN h[i] ELSE q]
  OBVIOUS
<1>1. N \in Nat
  OBVIOUS
<1>2. tail' \in Seq(S \cup {e}) /\ Len(tail') = N + 1 /\ tail'[N + 1] = e /\ \A i \in 1 .. N : tail'[i] = tail[i]
  <2>1. tail \in Seq(S \cup {e})
    OBVIOUS
  <2> QED BY <2>1 DEF Ask
<1>3. /\ k = [i \in 0 .. N + 1 |-> k[i]] /\ \A i \in 0 .. N : k[i] = h[i]
      /\ k[N + 1] = q
  BY <1>0, <1>1
<1>4. k = [i \in 0 .. Len(tail') |-> k[i]]
  BY <1>2, <1>3
<1>5. k[0] = rec'
  BY <1>1, <1>3 DEF Story
<1>6. ASSUME NEW i \in 1 .. Len(tail') PROVE k[i] = ApplyEvent(k[i - 1], tail'[i]) /\ Told(k[i - 1], tail'[i])
  <2>1. CASE i = N + 1
    <3>0. i - 1 = N /\ N \in 0 .. N
      BY <1>1, <2>1
    <3>1. k[i - 1] = a /\ k[i] = q
      <4>1. k[N] = h[N]
        BY <1>3, <3>0
      <4> QED BY <1>3, <2>1, <3>0, <4>1
    <3>2. tail'[i] = e
      BY <1>2, <2>1
    <3> QED BY <3>1, <3>2
  <2>2. CASE i # N + 1
    <3>1. i \in 1 .. N /\ i - 1 \in 0 .. N
      BY <1>1, <1>2, <2>2
    <3>2. k[i - 1] = h[i - 1] /\ k[i] = h[i] /\ tail'[i] = tail[i]
      <4>1. i \in 0 .. N
        BY <1>1, <3>1
      <4> QED BY <1>2, <1>3, <3>1, <4>1
    <3> QED BY <3>1, <3>2 DEF Story
  <2> QED BY <2>1, <2>2
<1>7. \A i \in 0 .. Len(tail') : Sound(k[i])
  BY <1>1, <1>2, <1>3 DEF Story
<1>8. leg' = "passive" /\ ~ Stopping' =>
         \A i \in 0 .. Len(tail') : k[i].suspensions.media = rec'.suspensions.media
  BY <1>1, <1>2, <1>3 DEF Story
<1>9. Story(k)'
  <2>1. \A i \in 1 .. Len(tail') : k[i] = ApplyEvent(k[i - 1], tail'[i]) /\ Told(k[i - 1], tail'[i])
    BY <1>6
  <2>2. (leg = "down" => tail = <<>>)'
    OBVIOUS
  <2> QED BY ONLY <1>4, <1>5, <2>1, <1>7, <2>2, <1>8 DEF Story
<1> QED BY <1>2, <1>3, <1>9

(* Nothing has. *)
LEMMA StoryStays ==
    ASSUME NEW h, Story(h), UNCHANGED <<rec, tail>>, leg' = "down" => leg = "down",
           leg' = "passive" /\ ~ Stopping' => leg = "passive" /\ ~ Stopping
    PROVE  Story(h)'
BY DEF Story

(* What begins a step, from the story. *)
LEMMA StoryReady ==
    ASSUME Types, Shapes, JobsElsewhere, TailFree, Active, NEW h, Story(h), NEW a, a = h[Len(tail)], Tied(a)
    PROVE  Ready(a)
<1>1. Len(tail) \in 0 .. Len(tail)
  BY DEF TailFree
<1> QED BY <1>1 DEF Ready, Story, JobsElsewhere

(* A step about one vertex that asks for at most one event keeps the
   invariant. *)
LEMMA GoesHistory ==
    ASSUME TailFree, NEW h, Story(h), NEW a, a = h[Len(tail)], Ready(a), NEW n, Goes(a, n)
    PROVE  History'
<1>1. leg # "down" /\ leg' # "down" /\ Active
  BY DEF Ready, Active, Goes
<1>2. CASE Stays(a, n)
  <2>1. leg' = "passive" /\ ~ Stopping' => leg = "passive" /\ ~ Stopping
    BY <1>2 DEF Stays, Moves, ExactMoves
  <2>2. Story(h)'
    BY <1>1, <1>2, <2>1, StoryStays DEF Goes, Stays
  <2>3. Tied(a)'
    BY <1>2, MovesTied DEF Ready, Stays
  <2>4. a = h[Len(tail')]
    BY <1>2 DEF Stays
  <2> QED BY <2>2, <2>3, <2>4 DEF History
<1>3. CASE \E e, q : Asks(a, e, q, n)
  <2>1. PICK e, q : Asks(a, e, q, n)
    BY <1>3
  <2>2. PICK S : tail \in Seq(S)
    BY DEF TailFree
  <2>3. Tied(q)' /\ Sound(q)
    BY <2>1, MovesTied DEF Ready, Asks, Moves
  <2>4. leg' = "passive" /\ ~ Stopping' =>
             leg = "passive" /\ ~ Stopping /\ q.suspensions.media = a.suspensions.media
    BY <2>1 DEF Asks, Moves, ExactMoves
  <2>5. \E k : Story(k)' /\ k[Len(tail')] = q
    BY <1>1, <2>1, <2>2, <2>3, <2>4, StoryGrows DEF Asks, Goes
  <2>6. PICK k : Story(k)' /\ k[Len(tail')] = q
    BY <2>5
  <2> QED BY <2>3, <2>6 DEF History
<1> QED BY <1>2, <1>3 DEF Goes

(* The store acknowledges the first event. *)
LEMMA StoryShifts ==
    ASSUME NEW h, Story(h), NEW S, tail \in Seq(S), tail # <<>>, rec' = ApplyEvent(rec, Head(tail)), tail' = Tail(tail),
           UNCHANGED <<leg, fate>>
    PROVE  \E k : Story(k)' /\ k[Len(tail')] = h[Len(tail)]
<1> DEFINE N == Len(tail)
<1>0. PICK k : k = [i \in 0 .. N - 1 |-> h[i + 1]]
  OBVIOUS
<1>1. N \in Nat \ {0} /\ Head(tail) = tail[1]
  OBVIOUS
<1>2. tail' \in Seq(S) /\ Len(tail') = N - 1 /\ \A i \in 1 .. N - 1 : tail'[i] = tail[i + 1]
  OBVIOUS
<1>3. k = [i \in 0 .. N - 1 |-> k[i]] /\ \A i \in 0 .. N - 1 : k[i] = h[i + 1]
  BY <1>0, <1>1
<1>4. k[0] = rec'
  <2>1. h[1] = ApplyEvent(h[1 - 1], tail[1]) /\ h[0] = rec
    <3>1. 1 \in 1 .. N
      BY <1>1
    <3> QED BY <3>1 DEF Story
  <2>2. 1 - 1 = 0 /\ k[0] = h[0 + 1]
    BY <1>1, <1>3
  <2> QED BY <1>1, <2>1, <2>2
<1>5. ASSUME NEW i \in 1 .. Len(tail') PROVE k[i] = ApplyEvent(k[i - 1], tail'[i]) /\ Told(k[i - 1], tail'[i])
  <2>1. k[i] = h[i + 1] /\ k[i - 1] = h[(i + 1) - 1] /\ tail'[i] = tail[i + 1] /\ i + 1 \in 1 .. N
    <3>1. i \in 1 .. N - 1 /\ i \in 0 .. N - 1 /\ i - 1 \in 0 .. N - 1 /\ (i - 1) + 1 = (i + 1) - 1
      BY <1>1, <1>2
    <3> QED BY <1>1, <1>2, <1>3, <3>1
  <2> QED BY <2>1 DEF Story
<1>6. \A i \in 0 .. Len(tail') : Sound(k[i])
  BY <1>1, <1>2, <1>3 DEF Story
<1>7. leg # "down"
  BY DEF Story
<1>8. leg' = "passive" /\ ~ Stopping' =>
         \A i \in 0 .. Len(tail') : k[i].suspensions.media = rec'.suspensions.media
  <2>1. Stopping' <=> Stopping
    BY DEF Stopping, fate
  <2> SUFFICES ASSUME leg = "passive", ~ Stopping, NEW i \in 0 .. Len(tail')
               PROVE  k[i].suspensions.media = rec'.suspensions.media
    BY <2>1
  <2>2. \A j \in 0 .. N : h[j].suspensions.media = rec.suspensions.media
    BY DEF Story
  <2>3. k[i] = h[i + 1] /\ rec' = h[0 + 1]
    BY SMTT(30), <1>1, <1>2, <1>3, <1>4
  <2>4. i + 1 \in 0 .. N /\ 0 + 1 \in 0 .. N
    BY <1>1, <1>2
  <2> QED BY <2>2, <2>3, <2>4
<1>9. Story(k)'
  <2>1. \A i \in 1 .. Len(tail') : k[i] = ApplyEvent(k[i - 1], tail'[i]) /\ Told(k[i - 1], tail'[i])
    BY <1>5
  <2>2. (leg = "down" => tail = <<>>)'
    BY <1>7
  <2>3. k = [i \in 0 .. Len(tail') |-> k[i]]
    BY <1>2, <1>3
  <2> QED BY ONLY <2>1, <2>2, <2>3, <1>4, <1>6, <1>8 DEF Story
<1>10. k[Len(tail')] = h[Len(tail)]
  BY <1>1, <1>2, <1>3
<1> QED BY <1>9, <1>10

(* A step that puts the run down, or begins with one event. *)
LEMMA StoryAlone ==
    ASSUME NEW r, Sound(r), rec' = r, tail' = <<>>
    PROVE  Story([i \in 0 .. 0 |-> r])'
<1> DEFINE k == [i \in 0 .. 0 |-> r]
<1>1. Len(tail') = 0 /\ k[0] = r /\ \A i \in 0 .. 0 : i = 0
  OBVIOUS
<1>2. k = [i \in 0 .. Len(tail') |-> k[i]]
  BY <1>1
<1>3. \A i \in 0 .. Len(tail') : k[i] = r
  BY <1>1
<1>4. ~ \E i \in 1 .. Len(tail') : TRUE
  BY <1>1
<1> HIDE DEF k
<1> SUFFICES Story(k)'
  BY DEF k
<1> QED BY <1>1, <1>2, <1>3, <1>4 DEF Story

(* A record spares itself. *)
LEMMA SparesSelf == ASSUME NEW a, NEW n PROVE Spares(a, a, n)
BY DEF Spares

(* What is known before a step. *)
LEMMA ReadyFacts ==
    ASSUME NEW a, Ready(a)
    PROVE  /\ Active /\ Sound(a) /\ Tied(a) /\ ~ a.suspensions.terminalRun
           /\ a.dispatches \in Nat /\ dispatches = a.dispatches /\ chosen = a.selected
           /\ status = [m \in Node |-> status[m]] /\ task = [m \in Node |-> task[m]]
           /\ decision = [m \in Node |-> decision[m]] /\ jobs = [m \in Node |-> jobs[m]]
           /\ attempt = [m \in Node |-> attempt[m]] /\ entry = [m \in Node |-> entry[m]]
           /\ startedAt = [m \in Node |-> startedAt[m]]
           /\ \A m \in Node : VertexTied(a, m)
           /\ ~ Stopping => (\A m \in Node : Exact(a, m)) /\ resolved \subseteq DOMAIN GatesOf(a)
BY DEF Ready, Types, TypeOK, Shapes, Tied, Sound, Form, IsRecord

(* A vertex the process has not completed or skipped is neither in the log. *)
LEMMA NotOver ==
    ASSUME NEW a, Ready(a), NEW n \in Node, status[n] \notin {"completed", "skipped"}
    PROVE  a.node[n] \notin {"completed", "skipped"}
<1>1. status[n] \in {"pending", "running", "paused", "completed", "failed", "skipped"}
  BY DEF Ready, Types, TypeOK, Settled
<1> QED BY <1>1, ReadyFacts DEF VertexTied

(* A step that ends a vertex. *)
Ending(n, e) ==
    /\ e.type \in NodeTerminals /\ e.node = n /\ Ask(e) /\ UNCHANGED <<rec, dispatches>>
    /\ e.type = "node:completed" /\ n \notin Conditions => e.selected = {}
    /\ chosen' = IF e.type = "node:completed" THEN [chosen EXCEPT ![n] = e.selected] ELSE chosen
    /\ \A m \in Node \ {n} : Untouched(m)
    /\ status'[n] = OverAs(e.type) /\ task'[n] \notin Working \cup {"pinning"}
    /\ pendingGates' \subseteq pendingGates
    /\ e.type # "node:failed" => \A p \in pendingGates' : p.node # n
    /\ UNCHANGED leg
    /\ ~ Stopping' =>
         /\ ~ Stopping /\ leg = "live" /\ UNCHANGED resolved /\ decision[n] = "none" /\ decision'[n] = "none"
         /\ jobs'[n] = NoJob /\ (\A m \in Node \ {n} : jobs'[m] = jobs[m])
         /\ task'[n] \in {"idle", "announcing"} /\ (\A p \in pendingGates' : p.node # n)
         /\ \A p \in pendingGates : p.node # n => p \in pendingGates'

(* A step that settles a vertex and asks for its end keeps the process tied. *)
LEMMA EndingGoes ==
    ASSUME CheckpointConstants, NEW a, Ready(a), NEW n \in Node, NEW e, Ending(n, e), Told(a, e)
    PROVE  Goes(a, n)
<1>1. PICK q : q = ApplyEvent(a, e)
  OBVIOUS
<1>2. /\ Active /\ Sound(a) /\ Tied(a) /\ ~ a.suspensions.terminalRun
      /\ a.dispatches \in Nat /\ dispatches = a.dispatches /\ chosen = a.selected
      /\ \A m \in Node : VertexTied(a, m)
      /\ ~ Stopping => (\A m \in Node : Exact(a, m)) /\ resolved \subseteq DOMAIN GatesOf(a)
  BY ReadyFacts
<1>3. /\ Sound(q) /\ Spares(a, q, n) /\ q.node = [a.node EXCEPT ![n] = OverAs(e.type)] /\ q.run = a.run
      /\ q.dispatches = a.dispatches
      /\ q.selected = IF e.type = "node:completed" THEN [a.selected EXCEPT ![n] = e.selected]
                      ELSE a.selected
      /\ q.lives[n] = NoLife /\ q.suspensions.media[n] = NoJob
      /\ q.suspensions.terminalRun = a.suspensions.terminalRun
      /\ DOMAIN GatesOf(q) = DOMAIN GatesOf(a)
      /\ BudgetRejections(q.suspensions) = BudgetRejections(a.suspensions)
  BY <1>1, <1>2, OverFold DEF Ending
<1>4. q.node[n] = OverAs(e.type) /\ status'[n] = OverAs(e.type) /\ OverAs(e.type) \in {"completed", "failed", "skipped"}
      /\ (OverAs(e.type) # "failed" => e.type # "node:failed")
  <2>1. a.node = [m \in Node |-> a.node[m]]
    BY <1>2 DEF Sound, Form, IsRecord
  <2> QED BY <1>3, <2>1 DEF OverAs, NodeTerminals, Ending
<1>5. VertexTied(q, n)'
  BY <1>4 DEF VertexTied, Ending, Working
<1>6. ASSUME ~ Stopping' PROVE ExactMoves(a, q, n)
  <2>1. /\ ~ Stopping /\ leg = "live" /\ UNCHANGED resolved /\ decision[n] = "none" /\ decision'[n] = "none"
        /\ jobs'[n] = NoJob /\ (\A m \in Node \ {n} : jobs'[m] = jobs[m])
        /\ task'[n] \in {"idle", "announcing"} /\ (\A p \in pendingGates' : p.node # n) /\ UNCHANGED leg
        /\ \A p \in pendingGates : p.node # n => p \in pendingGates'
    BY <1>6 DEF Ending
  <2>2. Exact(q, n)'
    BY <1>3, <1>4, <2>1 DEF Exact
  <2> QED BY <1>2, <1>3, <2>1, <2>2 DEF ExactMoves, Deciders
<1>7. Moves(a, q, n)
  BY <1>2, <1>3, <1>5, <1>6 DEF Moves, Ending
<1>8. Asks(a, e, q, n)
  <2>1. ~ (leg' = "passive" /\ ~ Stopping')
    BY DEF Ending
  <2> QED BY <1>1, <1>7, <2>1 DEF Asks, Ending
<1> QED BY <1>8 DEF Goes, Ending

(* #settleFailed *)
LEMMA FailingGoes ==
    ASSUME CheckpointConstants, NEW a, Ready(a), NEW n \in Node, SettleFailed(n),
           UNCHANGED <<rec, leg, chosen, entry, attempt, startedAt, dispatches, decision>>,
           pendingGates' \subseteq pendingGates,
           a.node[n] \notin {"completed", "skipped"}
    PROVE  Goes(a, n)
<1>1. PICK e : e = NodeEvent("node:failed", n)
  OBVIOUS
<1>2. e.type = "node:failed" /\ e.node = n
  BY <1>1 DEF NodeEvent
<1>3. status = [m \in Node |-> status[m]] /\ task = [m \in Node |-> task[m]]
  BY ReadyFacts
<1>4. Stopping'
  BY FailureStops
<1>5. Ask(e) /\ status' = [status EXCEPT ![n] = "failed"] /\ task' = [task EXCEPT ![n] = "idle"]
  BY <1>1 DEF SettleFailed
<1>6. \A m \in Node \ {n} : Untouched(m)
  BY <1>3, <1>5 DEF Untouched
<1>7. status'[n] = "failed" /\ task'[n] = "idle"
  BY <1>3, <1>5
<1>8. Ending(n, e)
  BY <1>2, <1>4, <1>5, <1>6, <1>7 DEF Ending, NodeTerminals, OverAs, Working
<1>9. Told(a, e)
  BY <1>2, ReadyFacts DEF Told
<1> QED BY <1>8, <1>9, EndingGoes

(* #step: a vertex no live edge reaches. *)
LEMMA SkipGoes ==
    ASSUME CheckpointConstants, NEW a, Ready(a), NEW n \in Node, Skip(n)
    PROVE  Goes(a, n)
<1>1. PICK e : e = NodeEvent("node:skipped", n)
  OBVIOUS
<1>2. e.type = "node:skipped" /\ e.node = n
  BY <1>1 DEF NodeEvent
<1>3. /\ status = [m \in Node |-> status[m]] /\ VertexTied(a, n) /\ ~ a.suspensions.terminalRun
      /\ Sound(a)
      /\ ~ Stopping => Exact(a, n)
  BY ReadyFacts
<1>4. status[n] = "pending" /\ a.node[n] = "none" /\ task[n] \notin Working \cup {"pinning"}
      /\ \A p \in pendingGates : p.node # n
  BY <1>3 DEF Skip, Skippable, VertexTied
<1>5. status'[n] = "skipped" /\ \A m \in Node \ {n} : Untouched(m)
  BY <1>3 DEF Skip, Untouched, waiting, counted
<1>6. ASSUME ~ Stopping'
      PROVE  /\ ~ Stopping /\ leg = "live" /\ decision[n] = "none" /\ jobs[n] = NoJob
             /\ task[n] \in {"idle", "announcing"}
  <2>1. ~ Stopping /\ leg = "live"
    BY <1>6 DEF Skip, Pass, Stopping, fate
  <2>2. VertexSound(a, n) /\ Exact(a, n)
    BY <1>3, <2>1 DEF Sound
  <2>3. a.suspensions.media[n] = NoJob
    BY <1>4, <2>2 DEF VertexSound
  <2>4. decision[n] = "none" /\ jobs[n] = NoJob /\ task[n] \notin {"authority", "companion"}
    BY <1>4, <2>1, <2>2, <2>3 DEF Exact
  <2>5. task[n] \in Steps
    BY DEF Ready, Types, TypeOK
  <2> QED BY <1>4, <2>1, <2>4, <2>5 DEF Steps, Working
<1>7. Ask(e) /\ UNCHANGED <<rec, dispatches, chosen, leg, task, decision, pendingGates, jobs, resolved>>
  BY <1>1 DEF Skip, waiting, counted
<1>8. Ending(n, e)
  BY <1>2, <1>4, <1>5, <1>6, <1>7 DEF Ending, NodeTerminals, OverAs
<1>9. Told(a, e)
  BY <1>2, <1>3, <1>4 DEF Told, Settled
<1> QED BY <1>8, <1>9, EndingGoes

(* What is known of a vertex whose dispatch is under way. *)
LEMMA Runs ==
    ASSUME NEW a, Ready(a), NEW n \in Node, task[n] \in Working
    PROVE  /\ status[n] = "running" /\ a.node[n] = "none" /\ a.suspensions.media[n] = NoJob
           /\ entry[n] \in 1 .. a.dispatches /\ entry[n] \notin DOMAIN GatesOf(a) /\ attempt[n] \in Nat \ {0}
           /\ \A p \in pendingGates : p.node # n
           /\ n \in Agents => /\ a.lives[n].valid /\ ~ a.lives[n].budgetContinuation /\ a.lives[n].attempt = attempt[n]
                              /\ a.lives[n].nextRetry = IF task[n] = "backoff" THEN attempt[n] + 1 ELSE 0
           /\ ~ Stopping =>
                /\ decision[n] = "none"
                /\ leg = "live" => jobs[n] = NoJob
                /\ n \in Timed => \/ startedAt[n] = a.lives[n].startedAt
                                  \/ task[n] = "starting" /\ startedAt[n] = 0 /\ entry[n] = a.lives[n].startedAt
<1>1. VertexTied(a, n) /\ Sound(a) /\ (~ Stopping => Exact(a, n))
  BY ReadyFacts
<1>2. status[n] = "running" /\ a.node[n] = "none"
  BY <1>1 DEF VertexTied
<1>3. a.suspensions.media[n] = NoJob
  BY <1>1, <1>2 DEF Sound, VertexSound
<1>4. attempt[n] \in Nat
  BY DEF Ready, Shapes
<1>5. task[n] # "pinning"
  BY DEF Working
<1> QED BY <1>1, <1>2, <1>3, <1>4, <1>5 DEF VertexTied, Exact

(* A vertex whose dispatch goes on or begins. *)
LEMMA RunsOn ==
    ASSUME NEW a, Ready(a), NEW n \in Node, NEW q, Sound(q), Spares(a, q, n), q.node = a.node,
           q.suspensions = a.suspensions, q.selected = a.selected, a.dispatches <= q.dispatches,
           dispatches' = q.dispatches, leg = "live",
           UNCHANGED <<leg, chosen, pendingGates, resolved, decision, jobs, fate>>,
           \A m \in Node \ {n} : Untouched(m),
           a.node[n] = "none", status[n] \in {"pending", "running"}, task[n] # "pinning",
           status'[n] = "running", task'[n] \in Working, attempt'[n] # 0,
           \/ task[n] \in Working /\ entry'[n] = entry[n]
           \/ entry'[n] = a.dispatches + 1 /\ q.dispatches = a.dispatches + 1,
           n \in Agents => /\ q.lives[n].valid /\ ~ q.lives[n].budgetContinuation /\ q.lives[n].attempt = attempt'[n]
                           /\ q.lives[n].nextRetry = IF task'[n] = "backoff" THEN attempt'[n] + 1 ELSE 0,
           n \in Timed /\ ~ Stopping =>
             \/ startedAt'[n] = q.lives[n].startedAt
             \/ task'[n] = "starting" /\ startedAt'[n] = 0 /\ entry'[n] = q.lives[n].startedAt
    PROVE  Moves(a, q, n)
<1>1. /\ Sound(a) /\ ~ a.suspensions.terminalRun /\ VertexTied(a, n) /\ a.dispatches \in Nat /\ chosen = a.selected
      /\ q.dispatches \in Nat
      /\ ~ Stopping => Exact(a, n) /\ resolved \subseteq DOMAIN GatesOf(a)
  BY ReadyFacts DEF Sound, Form, IsRecord
<1>2. GatesOf(q) = GatesOf(a) /\ DOMAIN GatesOf(a) \subseteq 1 .. a.dispatches
  BY <1>1 DEF GatesOf, Sound, Form
<1>3. \A p \in pendingGates : p.node # n
  BY <1>1 DEF VertexTied
<1>4. VertexTied(q, n)'
  <2>1. entry'[n] \in 1 .. q.dispatches /\ entry'[n] \notin DOMAIN GatesOf(q)
    BY <1>1, <1>2 DEF VertexTied
  <2>2. task'[n] # "pinning"
    BY DEF Working
  <2> QED BY <1>3, <2>1, <2>2 DEF VertexTied, Working
<1>5. ASSUME ~ Stopping' PROVE ExactMoves(a, q, n)
  <2>1. ~ Stopping
    BY <1>5 DEF Stopping, fate
  <2>2. task'[n] \notin {"pinning", "authority", "companion"}
    BY DEF Working
  <2>3. decision[n] = "none" /\ jobs[n] = q.suspensions.media[n]
    BY <1>1, <2>1 DEF Exact
  <2>4. Exact(q, n)'
    BY <1>3, <2>1, <2>2, <2>3 DEF Exact
  <2> QED BY <1>1, <1>2, <2>1, <2>3, <2>4 DEF ExactMoves, Deciders
<1> QED BY <1>1, <1>2, <1>4, <1>5 DEF Moves

(* #step: a vertex is dispatched for the first time in its life. *)
LEMMA ClaimGoes ==
    ASSUME CheckpointConstants, NEW a, Ready(a), NEW n \in Node, Claim(n)
    PROVE  Goes(a, n)
<1>1. PICK e, q : e = Started(n, 1) /\ q = ApplyEvent(a, e)
  OBVIOUS
<1>2. /\ Sound(a) /\ ~ a.suspensions.terminalRun /\ VertexTied(a, n) /\ dispatches = a.dispatches
      /\ status = [m \in Node |-> status[m]] /\ task = [m \in Node |-> task[m]]
      /\ attempt = [m \in Node |-> attempt[m]] /\ entry = [m \in Node |-> entry[m]]
      /\ ~ Stopping => Exact(a, n)
  BY ReadyFacts
<1>3. leg = "live" /\ ~ Stopping /\ status[n] = "pending" /\ a.node[n] = "none" /\ task[n] # "pinning"
  BY <1>2 DEF Claim, Decides, Pass, Claimable, VertexTied
<1>4. 1 \in Nat \ {0}
  OBVIOUS
<1>5. /\ Sound(q) /\ Spares(a, q, n) /\ q.node = a.node /\ q.suspensions = a.suspensions /\ q.run = a.run
      /\ q.selected = a.selected /\ q.dispatches = a.dispatches + 1
      /\ n \in Agents =>
           /\ q.lives[n].valid /\ ~ q.lives[n].budgetContinuation
           /\ q.lives[n].attempt = 1 /\ q.lives[n].nextRetry = 0
           /\ q.lives[n].startedAt = IF ~ a.lives[n].budgetContinuation
                                     THEN a.dispatches + 1 ELSE a.lives[n].startedAt
  BY SMTT(30), <1>1, <1>2, <1>3, <1>4, StartedFold
<1>6. /\ Ask(e) /\ UNCHANGED <<rec, leg, chosen, pendingGates, resolved, decision, jobs, fate, startedAt>>
      /\ status' = [status EXCEPT ![n] = "running"] /\ task' = [task EXCEPT ![n] = "starting"]
      /\ dispatches' = dispatches + 1 /\ entry' = [entry EXCEPT ![n] = dispatches + 1]
      /\ attempt' = [attempt EXCEPT ![n] = 1]
  BY <1>1 DEF Claim, Dispatch, waiting
<1>7. /\ \A m \in Node \ {n} : Untouched(m)
      /\ status'[n] = "running" /\ task'[n] = "starting" /\ entry'[n] = a.dispatches + 1 /\ attempt'[n] = 1
  BY <1>2, <1>6 DEF Untouched
<1>8. n \in Timed => \/ startedAt'[n] = q.lives[n].startedAt
                     \/ task'[n] = "starting" /\ startedAt'[n] = 0 /\ entry'[n] = q.lives[n].startedAt
  BY <1>2, <1>3, <1>5, <1>6, <1>7, SoundAgents DEF Exact
<1>9. Moves(a, q, n)
  <2>1. a.dispatches \in Nat /\ a.dispatches <= q.dispatches /\ dispatches' = q.dispatches
    BY <1>2, <1>5, <1>6, ReadyFacts
  <2>2. "starting" \in Working
    BY DEF Working
  <2> QED BY <1>3, <1>5, <1>6, <1>7, <1>8, <2>1, <2>2, RunsOn
<1>10. Told(a, e)
  BY <1>1, <1>2, <1>3 DEF Told, Started, Settled
<1> QED BY <1>1, <1>3, <1>6, <1>9, <1>10 DEF Goes, Asks

(* The start is durable: the executor runs. *)
LEMMA EnterGoes ==
    ASSUME CheckpointConstants, NEW a, Ready(a), NEW n \in Node, Enter(n)
    PROVE  Goes(a, n)
<1>1. task[n] \in Working /\ leg = "live" /\ UNCHANGED <<rec, leg, chosen, attempt, entry, dispatches, waiting, jobs>>
  BY DEF Enter, Working
<1>2. /\ status[n] = "running" /\ a.node[n] = "none" /\ attempt[n] \in Nat \ {0}
      /\ n \in Agents => /\ a.lives[n].valid /\ ~ a.lives[n].budgetContinuation /\ a.lives[n].attempt = attempt[n]
                         /\ a.lives[n].nextRetry = 0
      /\ ~ Stopping /\ n \in Timed =>
            \/ startedAt[n] = a.lives[n].startedAt
            \/ task[n] = "starting" /\ startedAt[n] = 0 /\ entry[n] = a.lives[n].startedAt
  BY <1>1, Runs DEF Enter
<1>3. CASE SettleFailed(n) /\ UNCHANGED startedAt
  BY <1>1, <1>2, <1>3, FailingGoes DEF waiting
<1>4. CASE /\ ~ Stopping
           /\ task' = [task EXCEPT ![n] = "exec"]
           /\ startedAt' = [startedAt EXCEPT ![n] = IF n \in Timed /\ @ = 0 THEN entry[n] ELSE @]
           /\ UNCHANGED <<status, tail, fate>>
  <2>1. /\ Sound(a) /\ task = [m \in Node |-> task[m]] /\ startedAt = [m \in Node |-> startedAt[m]]
        /\ a.dispatches \in Nat /\ dispatches = a.dispatches
    BY ReadyFacts
  <2>2. /\ task'[n] = "exec" /\ startedAt'[n] = IF n \in Timed /\ startedAt[n] = 0 THEN entry[n] ELSE startedAt[n]
        /\ \A m \in Node \ {n} : Untouched(m)
    BY <1>1, <1>4, <2>1 DEF Untouched, waiting
  <2>3. n \in Agents => a.lives[n].startedAt # 0
    BY <1>2, <2>1 DEF Sound, VertexSound
  <2>4. n \in Timed => startedAt'[n] = a.lives[n].startedAt
    BY <1>2, <1>4, <2>2, <2>3, SoundAgents
  <2>5. "exec" \in Working /\ task[n] # "pinning" /\ Spares(a, a, n)
    BY <1>1, SparesSelf DEF Working
  <2>6. Moves(a, a, n)
    BY <1>1, <1>2, <1>4, <2>1, <2>2, <2>4, <2>5, RunsOn DEF waiting
  <2> QED BY <1>1, <1>4, <2>6 DEF Goes, Stays
<1> QED BY <1>3, <1>4 DEF Enter

(* The executor returned: the vertex is completed, and a condition has chosen
   its branches. *)
LEMMA CompleteGoes ==
    ASSUME CheckpointConstants, NEW a, Ready(a), NEW n \in Node, Complete(n)
    PROVE  Goes(a, n)
<1>1. PICK S : /\ n \notin Conditions => S = {}
               /\ chosen' = [chosen EXCEPT ![n] = S] /\ Ask(Completed(n, S))
  BY DEF Complete
<1>2. PICK e : e = Completed(n, S)
  OBVIOUS
<1>3. e.type = "node:completed" /\ e.node = n /\ e.selected = S
  BY <1>2 DEF Completed
<1>4. task[n] \in Working /\ leg = "live"
  BY DEF Complete, Working
<1>5. /\ a.node[n] = "none" /\ (\A p \in pendingGates : p.node # n)
      /\ ~ Stopping => decision[n] = "none" /\ jobs[n] = NoJob
  BY <1>4, Runs
<1>6. /\ UNCHANGED <<rec, leg, dispatches, attempt, entry, startedAt, decision, pendingGates, resolved, jobs, fate>>
      /\ status' = [status EXCEPT ![n] = "completed"] /\ task' = [task EXCEPT ![n] = "idle"]
  BY DEF Complete, counted, waiting
<1>7. status = [m \in Node |-> status[m]] /\ task = [m \in Node |-> task[m]] /\ ~ a.suspensions.terminalRun
  BY ReadyFacts
<1>8. status'[n] = "completed" /\ task'[n] = "idle" /\ \A m \in Node \ {n} : Untouched(m)
  BY <1>6, <1>7 DEF Untouched
<1>9. ~ Stopping' => ~ Stopping
  BY <1>6 DEF Stopping, fate
<1>10. Ending(n, e)
  BY <1>1, <1>2, <1>3, <1>4, <1>5, <1>6, <1>8, <1>9 DEF Ending, NodeTerminals, OverAs, Working
<1>11. Told(a, e)
  BY <1>3, <1>5, <1>7 DEF Told, Settled
<1> QED BY <1>10, <1>11, EndingGoes

(* An attempt failed: the vertex waits for the next, with node:retrying on
   its way, or it has failed. *)
LEMMA AttemptFailsGoes ==
    ASSUME CheckpointConstants, NEW a, Ready(a), NEW n \in Node, AttemptFails(n)
    PROVE  Goes(a, n)
<1>1. task[n] \in Working /\ leg = "live" /\ task[n] # "backoff"
      /\ UNCHANGED <<rec, leg, chosen, attempt, entry, startedAt, dispatches, waiting, jobs>>
  BY DEF AttemptFails, Working, counted
<1>2. /\ status[n] = "running" /\ a.node[n] = "none" /\ attempt[n] \in Nat \ {0}
      /\ n \in Agents => /\ a.lives[n].valid /\ ~ a.lives[n].budgetContinuation /\ a.lives[n].attempt = attempt[n]
                         /\ a.lives[n].nextRetry = 0
  BY <1>1, Runs
<1>0. ~ Stopping /\ n \in Timed => startedAt[n] = a.lives[n].startedAt
  <2>1. task[n] # "starting"
    BY DEF AttemptFails
  <2> QED BY <1>1, <2>1, Runs
<1>3. CASE SettleFailed(n)
  BY <1>1, <1>2, <1>3, FailingGoes DEF waiting
<1>4. CASE /\ ~ Stopping
           /\ task' = [task EXCEPT ![n] = "backoff"]
           /\ Ask(Retrying(n, attempt[n]))
           /\ UNCHANGED <<status, fate>>
  <2>1. PICK k : k = attempt[n]
    OBVIOUS
  <2>2. PICK e, q : e = Retrying(n, k) /\ q = ApplyEvent(a, e)
    OBVIOUS
  <2>3. /\ Sound(a) /\ task = [m \in Node |-> task[m]]
        /\ a.dispatches \in Nat /\ dispatches = a.dispatches /\ ~ a.suspensions.terminalRun
    BY ReadyFacts
  <2>4. k \in Nat
    BY <1>2, <2>1
  <2>5. /\ Sound(q) /\ Spares(a, q, n) /\ q.node = a.node /\ q.suspensions = a.suspensions /\ q.run = a.run
        /\ q.selected = a.selected /\ q.dispatches = a.dispatches
        /\ n \in Agents =>
             /\ q.lives[n].valid /\ ~ q.lives[n].budgetContinuation
             /\ q.lives[n].attempt = k /\ q.lives[n].nextRetry = k + 1
             /\ q.lives[n].startedAt = a.lives[n].startedAt
    BY <1>2, <2>1, <2>2, <2>3, <2>4, RetryingFold
  <2>6. task'[n] = "backoff" /\ \A m \in Node \ {n} : Untouched(m)
    BY <1>1, <1>4, <2>3 DEF Untouched, waiting
  <2>7. "backoff" \in Working /\ task[n] # "pinning"
    BY <1>1 DEF Working
  <2>8. n \in Timed => startedAt'[n] = q.lives[n].startedAt
    BY <1>1, <1>0, <1>4, <2>5, SoundAgents
  <2>9. attempt'[n] = k /\ entry'[n] = entry[n] /\ status'[n] = "running" /\ k # 0
    BY <1>1, <1>2, <1>4, <2>1
  <2>10. Moves(a, q, n)
    BY <1>1, <1>2, <1>4, <2>3, <2>5, <2>6, <2>7, <2>8, <2>9, RunsOn DEF waiting
  <2>11. Told(a, e)
    BY <2>2, <2>3 DEF Told, Retrying
  <2>12. Ask(e)
    BY <1>4, <2>1, <2>2
  <2> QED BY <1>1, <2>2, <2>10, <2>11, <2>12 DEF Goes, Asks
<1> QED BY <1>3, <1>4 DEF AttemptFails

(* The wait for a retry is over: the vertex is dispatched again with the next
   attempt of the same life. *)
LEMMA RedispatchGoes ==
    ASSUME CheckpointConstants, NEW a, Ready(a), NEW n \in Node, Redispatch(n)
    PROVE  Goes(a, n)
<1>1. task[n] \in Working /\ leg = "live" /\ task[n] = "backoff"
      /\ UNCHANGED <<rec, leg, chosen, waiting, jobs>>
  BY DEF Redispatch, Working
<1>2. /\ status[n] = "running" /\ a.node[n] = "none" /\ attempt[n] \in Nat \ {0}
      /\ n \in Agents => /\ a.lives[n].valid /\ ~ a.lives[n].budgetContinuation /\ a.lives[n].attempt = attempt[n]
                         /\ a.lives[n].nextRetry = attempt[n] + 1
      /\ ~ Stopping /\ n \in Timed => startedAt[n] = a.lives[n].startedAt
  BY <1>1, Runs
<1>3. CASE SettleFailed(n) /\ UNCHANGED counted
  BY <1>1, <1>2, <1>3, FailingGoes DEF waiting, counted
<1>4. CASE /\ ~ Stopping
           /\ task' = [task EXCEPT ![n] = "restarting"]
           /\ Dispatch(n, attempt[n] + 1)
           /\ UNCHANGED <<status, fate>>
  <2>1. PICK k : k = attempt[n] + 1
    OBVIOUS
  <2>2. PICK e, q : e = Started(n, k) /\ q = ApplyEvent(a, e)
    OBVIOUS
  <2>3. /\ Sound(a) /\ task = [m \in Node |-> task[m]] /\ attempt = [m \in Node |-> attempt[m]]
        /\ entry = [m \in Node |-> entry[m]]
        /\ a.dispatches \in Nat /\ dispatches = a.dispatches /\ ~ a.suspensions.terminalRun
    BY ReadyFacts
  <2>4. k \in Nat \ {0} /\ k # 1 /\ k - 1 = attempt[n]
    BY <1>2, <2>1
  <2>5. /\ Sound(q) /\ Spares(a, q, n) /\ q.node = a.node /\ q.suspensions = a.suspensions /\ q.run = a.run
        /\ q.selected = a.selected /\ q.dispatches = a.dispatches + 1
        /\ n \in Agents =>
             /\ q.lives[n].valid /\ ~ q.lives[n].budgetContinuation
             /\ q.lives[n].attempt = k /\ q.lives[n].nextRetry = 0
             /\ q.lives[n].startedAt = a.lives[n].startedAt
    <3>1. n \in Agents => a.lives[n].nextRetry = k /\ a.lives[n].attempt = k - 1
      BY <1>2, <2>1, <2>4
    <3> QED BY <1>2, <2>2, <2>3, <2>4, <3>1, StartedFold
  <2>6. /\ Ask(e) /\ dispatches' = dispatches + 1 /\ entry' = [entry EXCEPT ![n] = dispatches + 1]
        /\ attempt' = [attempt EXCEPT ![n] = k] /\ UNCHANGED startedAt
    BY <1>4, <2>1, <2>2 DEF Dispatch
  <2>7. /\ task'[n] = "restarting" /\ entry'[n] = a.dispatches + 1 /\ attempt'[n] = k
        /\ \A m \in Node \ {n} : Untouched(m)
    BY <1>1, <1>4, <2>3, <2>6 DEF Untouched, waiting
  <2>8. "restarting" \in Working /\ task[n] # "pinning"
    BY <1>1 DEF Working
  <2>9. n \in Timed => startedAt'[n] = q.lives[n].startedAt
    BY <1>2, <1>4, <2>5, <2>6, SoundAgents
  <2>10. Moves(a, q, n)
    <3>1. a.dispatches <= q.dispatches /\ dispatches' = q.dispatches
      BY <2>3, <2>5, <2>6
    <3>2. status'[n] = "running"
      BY <1>2, <1>4
    <3> QED BY <1>1, <1>2, <1>4, <2>3, <2>4, <2>5, <2>6, <2>7, <2>8, <2>9, <3>1, <3>2, RunsOn DEF waiting
  <2>11. Told(a, e)
    BY <1>2, <2>2, <2>3 DEF Told, Started, Settled
  <2> QED BY <1>1, <2>2, <2>6, <2>10, <2>11 DEF Goes, Asks
<1> QED BY <1>3, <1>4 DEF Redispatch

(* #onNodeDeadline *)
LEMMA NodeDeadlineGoes ==
    ASSUME CheckpointConstants, NEW a, Ready(a), NEW n \in Node, NodeDeadline(n)
    PROVE  Goes(a, n)
<1>1. a.node[n] \notin {"completed", "skipped"}
  BY NotOver DEF NodeDeadline, Settled
<1> QED BY <1>1, FailingGoes DEF NodeDeadline, counted, waiting

-----------------------------------------------------------------------------
(* A vertex that begins to wait.                                             *)

(* A human gate is reached: the vertex parks and human_gate:paused is asked
   for. *)
LEMMA PauseAtGateGoes ==
    ASSUME CheckpointConstants, NEW a, Ready(a), NEW n \in Node, PauseAtGate(n)
    PROVE  Goes(a, n)
<1>1. PICK g, p, e, q : /\ g = entry[n]
                        /\ p = [gate |-> g, node |-> n, budget |-> FALSE, allowance |-> "none"]
                        /\ e = GateEvent("human_gate:paused", p, "none") /\ q = ApplyEvent(a, e)
  OBVIOUS
<1>0. q = ApplyEvent(a, e)
  BY <1>1
<1>2. /\ task[n] \in Working /\ leg = "live" /\ n \in Gates
      /\ status' = [status EXCEPT ![n] = "paused"] /\ pendingGates' = pendingGates \cup {p}
      /\ task' = [task EXCEPT ![n] = "announcing"] /\ Ask(e)
      /\ UNCHANGED <<rec, leg, chosen, attempt, entry, startedAt, dispatches, resolved, decision, jobs, fate>>
  BY <1>1 DEF PauseAtGate, Opens, Working, counted
<1>3. /\ a.node[n] = "none" /\ a.suspensions.media[n] = NoJob
      /\ g \in 1 .. a.dispatches /\ g \notin DOMAIN GatesOf(a)
      /\ \A k \in pendingGates : k.node # n
      /\ ~ Stopping => decision[n] = "none" /\ jobs[n] = NoJob
  BY <1>1, <1>2, Runs
<1>4. /\ Sound(a) /\ task = [m \in Node |-> task[m]] /\ status = [m \in Node |-> status[m]]
      /\ a.dispatches \in Nat /\ dispatches = a.dispatches /\ ~ a.suspensions.terminalRun /\ chosen = a.selected
      /\ ~ Stopping => resolved \subseteq DOMAIN GatesOf(a)
  BY ReadyFacts
<1>5. p.gate = g /\ p.node = n /\ p.budget = FALSE /\ p.allowance = "none"
  BY <1>1
<1>6. Opening(a, e, n, g, FALSE)
  <2>1. e.type = "human_gate:paused" /\ e.node = n /\ e.gate = g /\ e.allowance = "none"
    BY <1>1, <1>5 DEF GateEvent
  <2> QED BY <1>2, <1>3, <2>1 DEF Opening
<1>7. /\ Sound(q) /\ Spares(a, q, n) /\ q.node = [a.node EXCEPT ![n] = "paused"] /\ q.run = a.run
      /\ q.selected = a.selected /\ q.dispatches = a.dispatches /\ q.lives = a.lives
      /\ q.suspensions.media = a.suspensions.media
      /\ q.suspensions.terminalRun = a.suspensions.terminalRun
      /\ DOMAIN GatesOf(q) = DOMAIN GatesOf(a) \cup {g} /\ GatesOf(q)[g] = NewGate(n, FALSE)
      /\ BudgetRejections(q.suspensions) = BudgetRejections(a.suspensions)
  <2>1. Sound(a)
    BY <1>4
  <2>2. Opened(a, q, n, g, FALSE)
    BY <1>0, <1>6, <2>1, PersonOpened
  <2> QED BY <2>2 DEF Opened
<1>8. /\ status'[n] = "paused" /\ task'[n] = "announcing" /\ q.node[n] = "paused"
      /\ \A m \in Node \ {n} : Untouched(m)
  <2>1. a.node = [m \in Node |-> a.node[m]]
    BY <1>4 DEF Sound, Form, IsRecord
  <2> QED BY <1>2, <1>4, <1>5, <1>7, <2>1 DEF Untouched
<1>9. VertexTied(q, n)'
  BY <1>8 DEF VertexTied, Working
<1>10. ASSUME ~ Stopping' PROVE ExactMoves(a, q, n)
  <2>1. ~ Stopping
    BY <1>2, <1>10 DEF Stopping, fate
  <2>2. \A k \in pendingGates' : k.node = n <=> k = p
    BY <1>2, <1>3, <1>5
  <2>3. /\ GatesOf(q)[g].node = n /\ GatesOf(q)[g].budget = FALSE /\ GatesOf(q)[g].allowance = "none"
        /\ GatesOf(q)[g].active
    BY <1>7 DEF NewGate
  <2>4. decision'[n] = "none" /\ p.gate \notin resolved' /\ jobs'[n] = NoJob
    BY <1>2, <1>3, <1>4, <1>5, <2>1
  <2>5. PausedForGate(q, n, p)'
    BY <1>5, <1>7, <1>8, <2>3, <2>4 DEF PausedForGate
  <2>6. n \notin Timed
    BY <1>2, SoundAgents DEF Agents
  <2>7. p \in pendingGates'
    BY <1>2
  <2>8. Exact(q, n)'
    BY <1>2, <1>3, <1>7, <1>8, <2>2, <2>4, <2>5, <2>6, <2>7 DEF Exact
  <2> QED BY <1>2, <1>4, <1>7, <2>1, <2>4, <2>8 DEF ExactMoves, Deciders
<1>11. Moves(a, q, n)
  <2>1. IsGateRecord(p)
    BY <1>1, <1>5 DEF IsGateRecord
  <2>2. task'[n] \notin Working
    BY <1>8 DEF Working
  <2>3. g = entry[n]
    BY <1>1
  <2>4. a.dispatches <= q.dispatches /\ dispatches' = q.dispatches /\ chosen' = q.selected
    BY <1>2, <1>4, <1>7
  <2>5. \A k \in pendingGates' : k \in pendingGates \/ IsGateRecord(k)
    BY <1>2, <2>1
  <2>6. \A i \in DOMAIN GatesOf(q) : i \in DOMAIN GatesOf(a) \/ (n \in Node /\ i = entry[n] /\ task[n] \in Working)
    BY <1>2, <1>7, <2>3
  <2> QED BY <1>4, <1>7, <1>8, <1>9, <1>10, <2>2, <2>4, <2>5, <2>6 DEF Moves
<1>12. Told(a, e)
  BY <1>4, <1>6 DEF Told, Opening
<1> QED BY <1>1, <1>2, <1>11, <1>12 DEF Goes, Asks

(* A vertex that waits at a gate has one. *)
LEMMA HeldGate ==
    ASSUME NEW a, Ready(a), ~ Stopping, NEW n \in Node, NEW p \in pendingGates, p.node = n
    PROVE  /\ status[n] = "paused" /\ PausedForGate(a, n, p) /\ GateOf(n) = p
           /\ \A k \in pendingGates : k.node = n => k = p
<1>1. Exact(a, n)
  BY ReadyFacts
<1>2. \A k \in pendingGates : k.node = n => k = p
  BY <1>1 DEF Exact
<1>3. status[n] = "paused" /\ PausedForGate(a, n, p)
  BY <1>1, <1>2 DEF Exact
<1>4. GateOf(n) = p
  BY <1>2 DEF GateOf
<1> QED BY <1>2, <1>3, <1>4

(* A vertex with a decision under way, or whose pause is being published, is
   parked at a gate. *)
LEMMA HasGate ==
    ASSUME NEW a, Ready(a), ~ Stopping, NEW n \in Node,
           decision[n] # "none" \/ task[n] \in {"authority", "companion"}
    PROVE  \E p \in pendingGates : p.node = n /\ PausedForGate(a, n, p)
<1>1. Exact(a, n)
  BY ReadyFacts
<1>2. status[n] = "paused"
  BY <1>1 DEF Exact
<1>3. ~ PausedForJob(a, n)
  BY DEF PausedForJob
<1> QED BY <1>1, <1>2, <1>3 DEF Exact

(* The governor stops a dispatch for money: the vertex parks, and the
   authority is asked for before its companions. *)
LEMMA PauseForBudgetGoes ==
    ASSUME CheckpointConstants, NEW a, Ready(a), NEW n \in Node, PauseForBudget(n)
    PROVE  Goes(a, n)
<1>1. PICK g, p, e, q : /\ g = entry[n]
                        /\ p = [gate |-> g, node |-> n, budget |-> TRUE, allowance |-> "frozen"]
                        /\ e = GateEvent("budget:authorization", p, "paused") /\ q = ApplyEvent(a, e)
  OBVIOUS
<1>0. q = ApplyEvent(a, e) /\ g = entry[n]
  BY <1>1
<1>2. /\ task[n] \in Working /\ leg = "live" /\ n \in Budgeted /\ task[n] \notin {"backoff", "starting"}
      /\ status' = [status EXCEPT ![n] = "paused"] /\ pendingGates' = pendingGates \cup {p}
      /\ task' = [task EXCEPT ![n] = IF CanAuthorize THEN "authority" ELSE "idle"]
      /\ IF CanAuthorize THEN Ask(e) ELSE UNCHANGED tail
      /\ UNCHANGED <<rec, leg, chosen, attempt, entry, startedAt, dispatches, resolved, decision, jobs, fate>>
  BY <1>1 DEF PauseForBudget, Opens, Working, counted
<1>3. /\ a.node[n] = "none" /\ a.suspensions.media[n] = NoJob
      /\ g \in 1 .. a.dispatches /\ g \notin DOMAIN GatesOf(a)
      /\ \A k \in pendingGates : k.node # n
      /\ n \in Agents => a.lives[n].valid /\ a.lives[n].nextRetry = 0 /\ ~ a.lives[n].budgetContinuation
      /\ ~ Stopping => /\ decision[n] = "none" /\ jobs[n] = NoJob
                       /\ n \in Timed => startedAt[n] = a.lives[n].startedAt
  BY <1>0, <1>2, Runs
<1>4. /\ Sound(a) /\ task = [m \in Node |-> task[m]] /\ status = [m \in Node |-> status[m]]
      /\ a.dispatches \in Nat /\ dispatches = a.dispatches /\ ~ a.suspensions.terminalRun /\ chosen = a.selected
      /\ ~ Stopping => resolved \subseteq DOMAIN GatesOf(a)
  BY ReadyFacts
<1>5. p.gate = g /\ p.node = n /\ p.budget = TRUE /\ p.allowance = "frozen" /\ IsGateRecord(p)
  BY <1>1 DEF IsGateRecord
<1>6. e.type = "budget:authorization" /\ e.node = n /\ e.gate = g /\ e.allowance = "frozen" /\ e.decision = "paused"
  BY <1>1, <1>5 DEF GateEvent
<1>7. \A m \in Node \ {n} : Untouched(m)
  BY <1>2, <1>4, <1>5 DEF Untouched
<1>8. status'[n] = "paused" /\ task'[n] = IF CanAuthorize THEN "authority" ELSE "idle"
  BY <1>2, <1>4
<1>9. task'[n] \notin Working \cup {"pinning"} /\ status'[n] \in {"paused"}
  BY <1>8 DEF Working
<1>10. CASE ~ CanAuthorize
  <2>1. Stopping'
    BY <1>2, <1>10 DEF CanAuthorize, Active, Stopping, fate
  <2>2. VertexTied(a, n)'
    BY <1>3, <1>9 DEF VertexTied
  <2>3. \A k \in pendingGates' : k \in pendingGates \/ IsGateRecord(k)
    BY <1>2, <1>5
  <2>4. Moves(a, a, n)
    BY <1>2, <1>4, <1>7, <1>9, <2>1, <2>2, <2>3, SparesSelf DEF Moves
  <2> QED BY <1>2, <1>10, <2>4 DEF Goes, Stays
<1>11. CASE CanAuthorize
  <2>1. Opening(a, e, n, g, TRUE)
    BY <1>2, <1>3, <1>6, SoundAgents DEF Opening
  <2>2. Opened(a, q, n, g, TRUE)
    BY <1>0, <1>4, <2>1, MoneyOpened
  <2>3. /\ GatesOf(q)[g].node = n /\ GatesOf(q)[g].budget = TRUE /\ GatesOf(q)[g].allowance = "frozen"
        /\ GatesOf(q)[g].active
    BY <2>2 DEF NewGate, Opened
  <2>4. /\ Sound(q) /\ Spares(a, q, n) /\ q.node = [a.node EXCEPT ![n] = "paused"] /\ q.run = a.run
        /\ q.selected = a.selected /\ q.dispatches = a.dispatches /\ q.lives = a.lives
        /\ q.suspensions.media = a.suspensions.media
        /\ q.suspensions.terminalRun = a.suspensions.terminalRun
        /\ DOMAIN GatesOf(q) = DOMAIN GatesOf(a) \cup {g}
        /\ BudgetRejections(q.suspensions) = BudgetRejections(a.suspensions)
    BY <2>2 DEF Opened
  <2>5. q.node[n] = "paused"
    BY <1>4, <2>4 DEF Sound, Form, IsRecord
  <2>6. VertexTied(q, n)'
    BY <1>9, <2>5 DEF VertexTied
  <2>7. ASSUME ~ Stopping' PROVE ExactMoves(a, q, n)
    <3>1. ~ Stopping
      BY <1>2, <2>7 DEF Stopping, fate
    <3>2. \A k \in pendingGates' : k.node = n <=> k = p
      BY <1>2, <1>3, <1>5
    <3>4. decision'[n] = "none" /\ p.gate \notin resolved' /\ jobs'[n] = NoJob
      BY <1>2, <1>3, <1>4, <1>5, <3>1
    <3>5. PausedForGate(q, n, p)'
      BY <1>5, <1>8, <1>11, <2>3, <2>4, <3>4 DEF PausedForGate
    <3>6. n \in Timed => startedAt'[n] = q.lives[n].startedAt
      BY <1>2, <1>3, <2>4, <3>1
    <3>7. p \in pendingGates' /\ task'[n] = "authority"
      BY <1>2, <1>8, <1>11
    <3>8. Exact(q, n)'
      BY <1>2, <1>3, <1>8, <2>4, <3>2, <3>4, <3>5, <3>6, <3>7 DEF Exact
    <3> QED BY <1>2, <1>4, <2>4, <3>1, <3>4, <3>8 DEF ExactMoves, Deciders
  <2>8. Moves(a, q, n)
    <3>1. a.dispatches <= q.dispatches /\ dispatches' = q.dispatches /\ chosen' = q.selected
      BY <1>2, <1>4, <2>4
    <3>2. \A k \in pendingGates' : k \in pendingGates \/ IsGateRecord(k)
      BY <1>2, <1>5
    <3>3. \A i \in DOMAIN GatesOf(q) : i \in DOMAIN GatesOf(a) \/ (n \in Node /\ i = entry[n] /\ task[n] \in Working)
      BY <1>0, <1>2, <2>4
    <3> QED BY <1>4, <1>7, <1>9, <2>4, <2>6, <2>7, <3>1, <3>2, <3>3 DEF Moves
  <2>9. Told(a, e)
    BY <1>4, <1>6 DEF Told
  <2>10. Ask(e) /\ leg' = "live"
    BY <1>2, <1>11
  <2> QED BY <1>0, <1>2, <2>8, <2>9, <2>10 DEF Goes, Asks
<1> QED BY <1>10, <1>11

(* A media job was submitted: the vertex parks, and its clock goes on. *)
LEMMA ParkGoes ==
    ASSUME CheckpointConstants, NEW a, Ready(a), NEW n \in Node, Park(n)
    PROVE  Goes(a, n)
<1>1. PICK g, e, q : g = entry[n] /\ e = Submitted(n, g) /\ q = ApplyEvent(a, e)
  OBVIOUS
<1>2. /\ task[n] \in Working /\ leg = "live" /\ n \in MediaNodes /\ task[n] \notin {"backoff", "starting"}
      /\ status' = [status EXCEPT ![n] = "paused"] /\ task' = [task EXCEPT ![n] = "idle"] /\ Ask(e)
      /\ jobs' = [jobs EXCEPT ![n] = g]
      /\ UNCHANGED <<rec, leg, chosen, attempt, entry, startedAt, dispatches, pendingGates, resolved, decision, fate>>
  BY <1>1 DEF Park, Working, counted, waiting
<1>3. /\ a.node[n] = "none" /\ g \in Nat \ {0}
      /\ \A k \in pendingGates : k.node # n
      /\ n \in Agents => a.lives[n].valid /\ a.lives[n].nextRetry = 0 /\ ~ a.lives[n].budgetContinuation
      /\ ~ Stopping => /\ decision[n] = "none"
                       /\ n \in Timed => startedAt[n] = a.lives[n].startedAt
  <2>1. entry[n] \in 1 .. a.dispatches /\ a.dispatches \in Nat
    BY <1>2, Runs, ReadyFacts
  <2>2. g \in Nat \ {0}
    BY <1>1, <2>1
  <2> QED BY <1>2, <2>2, Runs
<1>4. /\ Sound(a) /\ task = [m \in Node |-> task[m]] /\ status = [m \in Node |-> status[m]]
      /\ jobs = [m \in Node |-> jobs[m]]
      /\ a.dispatches \in Nat /\ dispatches = a.dispatches /\ ~ a.suspensions.terminalRun /\ chosen = a.selected
      /\ ~ Stopping => resolved \subseteq DOMAIN GatesOf(a)
  BY ReadyFacts
<1>5. /\ Sound(q) /\ Spares(a, q, n) /\ q.node = [a.node EXCEPT ![n] = "paused"] /\ q.run = a.run
      /\ q.selected = a.selected /\ q.dispatches = a.dispatches /\ q.lives = a.lives
      /\ GatesOf(q) = GatesOf(a) /\ q.suspensions.media[n] = g
      /\ q.suspensions.terminalRun = a.suspensions.terminalRun
  BY SMTT(30), <1>1, <1>2, <1>3, <1>4, SoundAgents, SubmittedFold
<1>6. /\ status'[n] = "paused" /\ task'[n] = "idle" /\ q.node[n] = "paused" /\ jobs'[n] = g
      /\ \A m \in Node \ {n} : Untouched(m) /\ jobs'[m] = jobs[m]
  <2>1. a.node = [m \in Node |-> a.node[m]]
    BY <1>4 DEF Sound, Form, IsRecord
  <2> QED BY <1>2, <1>4, <1>5, <2>1 DEF Untouched
<1>7. VertexTied(q, n)'
  BY <1>2, <1>3, <1>6 DEF VertexTied, Working
<1>8. BudgetRejections(q.suspensions) = BudgetRejections(a.suspensions)
  BY <1>5 DEF BudgetRejections, GatesOf
<1>9. ASSUME ~ Stopping' PROVE ExactMoves(a, q, n)
  <2>1. ~ Stopping
    BY <1>2, <1>9 DEF Stopping, fate
  <2>2. decision'[n] = "none" /\ \A k \in pendingGates' : k.node # n
    BY <1>2, <1>3, <2>1
  <2>3. PausedForJob(q, n)'
    BY <1>3, <1>5, <1>6, <2>2 DEF PausedForJob, NoJob
  <2>4. n \in Timed => startedAt'[n] = q.lives[n].startedAt
    BY <1>2, <1>3, <1>5, <2>1
  <2>5. Exact(q, n)'
    BY <1>2, <1>5, <1>6, <2>2, <2>3, <2>4 DEF Exact
  <2> QED BY <1>2, <1>4, <1>5, <1>6, <1>8, <2>1, <2>2, <2>5 DEF ExactMoves, Deciders
<1>10. Moves(a, q, n)
  <2>1. a.dispatches <= q.dispatches /\ dispatches' = q.dispatches /\ chosen' = q.selected
    BY <1>2, <1>4, <1>5
  <2>2. task'[n] \notin Working
    BY <1>6 DEF Working
  <2> QED BY <1>2, <1>4, <1>5, <1>6, <1>7, <1>9, <2>1, <2>2 DEF Moves
<1>11. Told(a, e)
  BY <1>1, <1>3, <1>4 DEF Told, Submitted, Settled
<1> QED BY <1>1, <1>2, <1>10, <1>11 DEF Goes, Asks

(* A step that leaves the record as it is. *)
LEMMA QuietMoves ==
    ASSUME NEW a, Ready(a), NEW n, UNCHANGED <<chosen, dispatches>>,
           \A m \in Node \ {n} : Untouched(m), pendingGates' \subseteq pendingGates,
           n \in Node => /\ VertexTied(a, n)'
                         /\ task'[n] \in Working => task[n] \in Working /\ entry'[n] = entry[n],
           ~ Stopping' => ExactMoves(a, a, n)
    PROVE  Moves(a, a, n)
BY ReadyFacts, SparesSelf DEF Moves

(* So it is a step about one vertex that asks for nothing. *)
LEMMA QuietGoes ==
    ASSUME NEW a, Ready(a), NEW n, UNCHANGED <<rec, tail, chosen, dispatches>>, leg' \in {leg, "live"},
           \A m \in Node \ {n} : Untouched(m), pendingGates' \subseteq pendingGates,
           n \in Node => /\ VertexTied(a, n)'
                         /\ task'[n] \in Working => task[n] \in Working /\ entry'[n] = entry[n],
           ~ Stopping' => ExactMoves(a, a, n)
    PROVE  Goes(a, n)
BY QuietMoves DEF Goes, Stays

-----------------------------------------------------------------------------
(* The publication of a pause.                                               *)

(* The companions of a budget pause go out after its authority is durable,
   and the log learns nothing new from them. *)
LEMMA PublishGoes ==
    ASSUME CheckpointConstants, NEW a, Ready(a), NEW n \in Node, Publish(n)
    PROVE  Goes(a, n)
<1>1. PICK at, asks, next :
         /\ at \in {"authority", "companion"} /\ next \in {"companion", "announcing"} /\ task[n] = at
         /\ asks \in {"budget:paused", "human_gate:paused"} /\ leg = "live"
         /\ at = "authority" => next = "companion"
         /\ task' = [task EXCEPT ![n] = IF CanAuthorize THEN next ELSE "idle"]
         /\ IF CanAuthorize THEN Ask(GateEvent(asks, GateOf(n), "none")) ELSE UNCHANGED tail
         /\ UNCHANGED <<rec, leg, status, chosen, counted, waiting, jobs, pauseEpisode, fate, crashes>>
  <2>1. PICK step \in {[at |-> "authority", after |-> "budget:authorization", asks |-> "budget:paused", next |-> "companion"],
                      [at |-> "companion", after |-> "budget:paused", asks |-> "human_gate:paused", next |-> "announcing"]} :
         /\ task[n] = step.at /\ leg = "live"
         /\ task' = [task EXCEPT ![n] = IF CanAuthorize THEN step.next ELSE "idle"]
         /\ IF CanAuthorize THEN Ask(GateEvent(step.asks, GateOf(n), "none")) ELSE UNCHANGED tail
         /\ UNCHANGED <<rec, leg, status, chosen, counted, waiting, jobs, pauseEpisode, fate, crashes>>
    BY DEF Publish
  <2>2. PICK at, asks, next : at = step.at /\ asks = step.asks /\ next = step.next
    OBVIOUS
  <2>3. /\ at \in {"authority", "companion"} /\ next \in {"companion", "announcing"}
        /\ asks \in {"budget:paused", "human_gate:paused"}
        /\ at = "authority" => next = "companion"
    BY <2>2
  <2> QED BY <2>1, <2>2, <2>3
<1>2. /\ task = [m \in Node |-> task[m]] /\ VertexTied(a, n) /\ Sound(a) /\ ~ a.suspensions.terminalRun
      /\ dispatches = a.dispatches /\ chosen = a.selected
      /\ ~ Stopping => Exact(a, n) /\ resolved \subseteq DOMAIN GatesOf(a)
  BY ReadyFacts
<1>3. /\ UNCHANGED <<rec, leg, status, chosen, dispatches, entry, attempt, startedAt, pendingGates, resolved, decision, jobs, fate>>
      /\ task'[n] = IF CanAuthorize THEN next ELSE "idle"
  BY <1>1, <1>2 DEF counted, waiting
<1>4. task[n] \notin Working /\ task'[n] \notin Working \cup {"pinning"}
  BY <1>1, <1>3 DEF Working
<1>5. \A m \in Node \ {n} : Untouched(m)
  BY <1>1, <1>2, <1>3 DEF Untouched
<1>6. VertexTied(a, n)'
  BY <1>2, <1>3, <1>4 DEF VertexTied
<1>7. CASE ~ CanAuthorize
  <2>1. Stopping'
    BY <1>1, <1>3, <1>7 DEF CanAuthorize, Active, Stopping, fate
  <2> QED BY <1>1, <1>3, <1>4, <1>5, <1>6, <1>7, <2>1, QuietGoes
<1>8. CASE CanAuthorize
  <2>1. ~ Stopping
    BY <1>8 DEF CanAuthorize
  <2>2. PICK p \in pendingGates : p.node = n /\ PausedForGate(a, n, p)
    BY <1>1, <2>1, HasGate
  <2>3. GateOf(n) = p /\ status[n] = "paused" /\ \A k \in pendingGates : k.node = n => k = p
    BY <2>1, <2>2, HeldGate
  <2>4. PICK g, e, q : g = p.gate /\ e = GateEvent(asks, p, "none") /\ q = ApplyEvent(a, e)
    OBVIOUS
  <2>5. g \in DOMAIN GatesOf(a) /\ GatesOf(a)[g].node = n /\ GatesOf(a)[g].budget /\ p.allowance = "frozen"
    BY <1>1, <1>2, <2>2, <2>4 DEF PausedForGate, Sound, GateSound
  <2>6. e.type \in {"budget:paused", "human_gate:paused"} /\ e.node = n /\ e.gate = g /\ e.allowance = "frozen"
    BY <1>1, <2>2, <2>4, <2>5 DEF GateEvent
  <2>7. q = a
    BY <1>2, <2>4, <2>5, <2>6, CompanionFold
  <2>8. PausedForGate(a, n, p)'
    BY <1>1, <1>3, <1>8, <2>2 DEF PausedForGate
  <2>9. Exact(a, n)'
    BY <1>1, <1>2, <1>3, <1>4, <1>8, <2>1, <2>2, <2>3, <2>8 DEF Exact
  <2>10. ExactMoves(a, a, n)
    BY <1>1, <1>2, <1>3, <2>1, <2>9 DEF ExactMoves, Deciders
  <2>11. Moves(a, a, n)
    BY <1>3, <1>4, <1>5, <1>6, <2>10, QuietMoves
  <2>12. Told(a, e)
    BY <1>2, <2>6 DEF Told
  <2>13. Ask(e)
    BY <1>1, <1>8, <2>3, <2>4
  <2> QED BY <1>1, <1>3, <2>4, <2>7, <2>11, <2>12, <2>13 DEF Goes, Asks
<1> QED BY <1>7, <1>8

(* The last event of a pause is durable: the vertex rests. *)
LEMMA AnnouncedGoes ==
    ASSUME NEW a, Ready(a), NEW n \in Node, Announced(n)
    PROVE  Goes(a, n)
<1>1. /\ task[n] = "announcing" /\ leg = "live" /\ task' = [task EXCEPT ![n] = "idle"]
      /\ UNCHANGED <<rec, tail, leg, status, chosen, dispatches, entry, attempt, startedAt, pendingGates, resolved, decision, jobs, fate>>
  BY DEF Announced, counted
<1>2. /\ task = [m \in Node |-> task[m]] /\ VertexTied(a, n)
      /\ ~ Stopping => Exact(a, n) /\ resolved \subseteq DOMAIN GatesOf(a)
  BY ReadyFacts
<1>3. task'[n] = "idle" /\ \A m \in Node \ {n} : Untouched(m)
  BY <1>1, <1>2 DEF Untouched
<1>4. VertexTied(a, n)' /\ task'[n] \notin Working
  BY <1>1, <1>2, <1>3 DEF VertexTied, Working
<1>5. ASSUME ~ Stopping' PROVE ExactMoves(a, a, n)
  <2>1. ~ Stopping
    BY <1>1, <1>5 DEF Stopping, fate
  <2>2. \A p : PausedForGate(a, n, p) => PausedForGate(a, n, p)'
    BY <1>1, <1>3 DEF PausedForGate
  <2>3. ~ PausedForJob(a, n)
    BY <1>1 DEF PausedForJob
  <2>4. Exact(a, n)'
    BY <1>1, <1>2, <1>3, <2>1, <2>2, <2>3 DEF Exact
  <2> QED BY <1>1, <1>2, <2>1, <2>4 DEF ExactMoves, Deciders
<1> QED BY <1>1, <1>3, <1>4, <1>5, QuietGoes

-----------------------------------------------------------------------------
(* A decision on a gate.                                                     *)

(* No two vertices have the same gate. *)
LEMMA GateApart ==
    ASSUME NEW a, Ready(a), ~ Stopping, NEW p \in pendingGates, NEW k \in pendingGates, k.gate = p.gate
    PROVE  k.node = p.node
<1>1. p.node \in Node /\ k.node \in Node
  BY ReadyFacts DEF Tied
<1>2. PausedForGate(a, p.node, p) /\ PausedForGate(a, k.node, k)
  BY <1>1, HeldGate
<1> QED BY <1>2 DEF PausedForGate

(* A person answers (#resumeHumanGate): the gate is claimed before the bytes
   of the answer are pinned, and nothing is written. *)
LEMMA ClaimHumanGoes ==
    ASSUME NEW a, Ready(a), NEW p \in pendingGates, ClaimHuman(p), NEW n, n = p.node
    PROVE  Goes(a, n)
<1>1. /\ leg = "live" /\ ~ p.budget /\ p.gate \notin resolved /\ resolved' = resolved \cup {p.gate}
      /\ decision' = [decision EXCEPT ![n] = "pinning"]
      /\ UNCHANGED <<rec, tail, leg, status, chosen, task, dispatches, entry, attempt, startedAt, pendingGates, jobs, fate>>
  BY DEF ClaimHuman, counted
<1>2. /\ decision = [m \in Node |-> decision[m]] /\ n \in Node /\ VertexTied(a, n)
      /\ ~ Stopping => Exact(a, n) /\ resolved \subseteq DOMAIN GatesOf(a)
  BY ReadyFacts DEF Tied
<1>3. decision'[n] = "pinning" /\ \A m \in Node \ {n} : Untouched(m)
  BY <1>1, <1>2 DEF Untouched
<1>4. VertexTied(a, n)'
  BY <1>1, <1>2 DEF VertexTied
<1>5. ASSUME ~ Stopping' PROVE ExactMoves(a, a, n)
  <2>1. ~ Stopping
    BY <1>1, <1>5 DEF Stopping, fate
  <2>2. status[n] = "paused" /\ PausedForGate(a, n, p) /\ \A k \in pendingGates : k.node = n => k = p
    BY <1>2, <2>1, HeldGate
  <2>3. decision[n] = "none" /\ p.gate \in DOMAIN GatesOf(a)
    BY <1>1, <2>2 DEF PausedForGate
  <2>4. PausedForGate(a, n, p)'
    BY <1>1, <1>3, <2>2, <2>3 DEF PausedForGate
  <2>5. Exact(a, n)'
    BY <1>1, <1>2, <1>3, <2>1, <2>2, <2>3, <2>4 DEF Exact
  <2>6. \A k \in pendingGates : k.node # n => k.gate # p.gate
    BY <2>1, GateApart
  <2>7. resolved' \subseteq DOMAIN GatesOf(a)
    BY <1>1, <1>2, <2>1, <2>3
  <2>8. n \notin Deciders
    BY <2>3 DEF Deciders
  <2> QED BY <1>1, <2>1, <2>5, <2>6, <2>7, <2>8 DEF ExactMoves
<1> QED BY <1>1, <1>3, <1>4, <1>5, QuietGoes

(* #failGateResume *)
LEMMA PinFailsGoes ==
    ASSUME NEW a, Ready(a), NEW n \in Node, PinFails(n)
    PROVE  Goes(a, n)
<1>1. /\ decision[n] = "pinning" /\ decision' = [decision EXCEPT ![n] = "none"]
      /\ status' = [status EXCEPT ![n] = IF @ = "paused" THEN "failed" ELSE @]
      /\ UNCHANGED <<rec, tail, leg, chosen, task, dispatches, entry, attempt, startedAt, pendingGates, resolved, jobs>>
      /\ Stopping'
  BY DEF PinFails, counted, Fail, Stopping
<1>2. decision = [m \in Node |-> decision[m]] /\ status = [m \in Node |-> status[m]] /\ VertexTied(a, n)
  BY ReadyFacts
<1>3. /\ decision'[n] = "none" /\ status'[n] = IF status[n] = "paused" THEN "failed" ELSE status[n]
      /\ \A m \in Node \ {n} : Untouched(m)
  BY <1>1, <1>2 DEF Untouched
<1>4. VertexTied(a, n)'
  BY <1>1, <1>2, <1>3 DEF VertexTied
<1> QED BY <1>1, <1>3, <1>4, QuietGoes

(* The gate was not answered in time: its vertex fails and the run with it. *)
LEMMA GateTimeoutGoes ==
    ASSUME CheckpointConstants, NEW a, Ready(a), NEW p \in pendingGates, GateTimeout(p), NEW n, n = p.node
    PROVE  Goes(a, n)
<1>1. n \in Node /\ VertexTied(a, n)
  BY ReadyFacts DEF Tied
<1>2. a.node[n] \notin {"completed", "skipped"}
  BY <1>1 DEF VertexTied
<1>3. /\ SettleFailed(n) /\ pendingGates' = pendingGates \ {p}
      /\ UNCHANGED <<rec, leg, chosen, entry, attempt, startedAt, dispatches, decision>>
  BY DEF GateTimeout, counted
<1>4. pendingGates' \subseteq pendingGates /\ \A k \in pendingGates : k.node # n => k \in pendingGates'
  BY <1>3
<1> QED BY <1>1, <1>2, <1>3, <1>4, FailingGoes

(* The bytes of the answer are pinned: human_gate:resumed is asked for and
   the vertex is completed; in a run that is ending, the gate is only
   dropped. *)
LEMMA HumanDecidedGoes ==
    ASSUME CheckpointConstants, NEW a, Ready(a), NEW n \in Node, HumanDecided(n)
    PROVE  Goes(a, n)
<1>1. /\ leg = "live" /\ decision[n] = "pinning" /\ decision' = [decision EXCEPT ![n] = "none"]
      /\ UNCHANGED <<rec, leg, chosen, task, dispatches, entry, attempt, startedAt, resolved, jobs, fate>>
  BY DEF HumanDecided, counted
<1>2. /\ decision = [m \in Node |-> decision[m]] /\ status = [m \in Node |-> status[m]] /\ VertexTied(a, n)
      /\ Sound(a) /\ ~ a.suspensions.terminalRun /\ dispatches = a.dispatches /\ chosen = a.selected
      /\ a.dispatches \in Nat
      /\ ~ Stopping => Exact(a, n) /\ resolved \subseteq DOMAIN GatesOf(a)
  BY ReadyFacts
<1>3. decision'[n] = "none"
  BY <1>1, <1>2
<1>4. CASE Stopping \/ status[n] # "paused"
  <2>1. UNCHANGED <<status, pendingGates, tail>>
    BY <1>4 DEF HumanDecided
  <2>2. Stopping'
    BY <1>1, <1>2, <1>4 DEF Exact, Stopping, fate
  <2>3. \A m \in Node \ {n} : Untouched(m)
    BY <1>1, <1>2, <2>1 DEF Untouched
  <2>4. VertexTied(a, n)'
    BY <1>1, <1>2, <1>3, <2>1 DEF VertexTied
  <2> QED BY <1>1, <2>1, <2>2, <2>3, <2>4, QuietGoes
<1>5. CASE ~ Stopping /\ status[n] = "paused"
  <2>1. PICK p \in pendingGates : p.node = n /\ PausedForGate(a, n, p)
    BY <1>1, <1>5, HasGate
  <2>2. GateOf(n) = p /\ \A k \in pendingGates : k.node = n => k = p
    BY <1>5, <2>1, HeldGate
  <2>3. PICK g, e, q : g = p.gate /\ e = HumanAnswer(n, "approved") /\ q = ApplyEvent(a, e)
    OBVIOUS
  <2>4. g \in DOMAIN GatesOf(a) /\ GatesOf(a)[g].node = n /\ GatesOf(a)[g].active /\ ~ GatesOf(a)[g].budget
    BY <1>1, <2>1, <2>3 DEF PausedForGate
  <2>5. /\ Sound(q) /\ Spares(a, q, n) /\ q.node = [a.node EXCEPT ![n] = "completed"] /\ q.run = a.run
        /\ q.selected = a.selected /\ q.dispatches = a.dispatches /\ q.suspensions.media = a.suspensions.media
        /\ q.suspensions.terminalRun = a.suspensions.terminalRun
        /\ DOMAIN GatesOf(q) = DOMAIN GatesOf(a)
        /\ BudgetRejections(q.suspensions) = BudgetRejections(a.suspensions)
    BY <1>2, <2>3, <2>4, HumanFold
  <2>6. /\ status' = [status EXCEPT ![n] = "completed"] /\ pendingGates' = pendingGates \ {p} /\ Ask(e)
    BY <1>5, <2>2, <2>3 DEF HumanDecided
  <2>7. /\ status'[n] = "completed" /\ q.node[n] = "completed" /\ \A k \in pendingGates' : k.node # n
    <3>1. a.node = [m \in Node |-> a.node[m]]
      BY <1>2 DEF Sound, Form, IsRecord
    <3> QED BY <1>2, <2>2, <2>5, <2>6, <3>1
  <2>8. \A m \in Node \ {n} : Untouched(m)
    BY <1>1, <1>2, <2>1, <2>6 DEF Untouched
  <2>9. task[n] \in {"idle", "announcing"}
    BY <1>1, <2>1 DEF PausedForGate
  <2>10. VertexTied(q, n)'
    BY <1>1, <2>7, <2>9 DEF VertexTied, Working
  <2>11. Exact(q, n)'
    BY <1>1, <1>2, <1>3, <1>5, <2>5, <2>7, <2>9 DEF Exact
  <2>12. ExactMoves(a, q, n)
    BY <1>1, <1>2, <1>5, <2>1, <2>5, <2>6, <2>11 DEF ExactMoves, Deciders
  <2>13. Moves(a, q, n)
    <3>1. a.dispatches <= q.dispatches /\ dispatches' = q.dispatches /\ chosen' = q.selected
      BY <1>1, <1>2, <2>5
    <3>2. task'[n] \notin Working
      BY <1>1, <2>9 DEF Working
    <3> QED BY <1>2, <2>5, <2>6, <2>8, <2>10, <2>12, <3>1, <3>2 DEF Moves
  <2>14. Told(a, e)
    BY <1>2, <2>3 DEF Told, HumanAnswer
  <2> QED BY <1>1, <2>3, <2>6, <2>13, <2>14 DEF Goes, Asks
<1> QED BY <1>4, <1>5

-----------------------------------------------------------------------------
(* #resumeBudgetGate *)

(* A person decides on money (#resumeBudgetGate): the decision is asked for
   as budget:authorization, and is applied only once it is durable. *)
LEMMA ClaimBudgetGoes ==
    ASSUME CheckpointConstants, NEW a, Ready(a), NEW p \in pendingGates, NEW d \in {"approved", "rejected"},
           ClaimBudget(p, d), NEW n, n = p.node
    PROVE  Goes(a, n)
<1>1. PICK g, e, q, h : /\ g = p.gate /\ e = GateEvent("budget:authorization", p, d) /\ q = ApplyEvent(a, e)
                        /\ h = GatesOf(a)[g]
  OBVIOUS
<1>2. /\ leg = "live" /\ p.budget /\ g \notin resolved /\ task[n] # "authority" /\ ~ Stopping
      /\ resolved' = resolved \cup {g} /\ decision' = [decision EXCEPT ![n] = Deciding(d)] /\ Ask(e)
      /\ UNCHANGED <<rec, leg, status, chosen, task, dispatches, entry, attempt, startedAt, pendingGates, jobs, fate>>
  BY <1>1 DEF ClaimBudget, counted
<1>3. /\ decision = [m \in Node |-> decision[m]] /\ n \in Node /\ VertexTied(a, n)
      /\ Sound(a) /\ ~ a.suspensions.terminalRun /\ dispatches = a.dispatches /\ chosen = a.selected
      /\ a.dispatches \in Nat
      /\ Exact(a, n) /\ resolved \subseteq DOMAIN GatesOf(a)
  BY <1>2, ReadyFacts DEF Tied
<1>4. status[n] = "paused" /\ PausedForGate(a, n, p) /\ \A k \in pendingGates : k.node = n => k = p
  BY <1>2, <1>3, HeldGate
<1>5. /\ g \in DOMAIN GatesOf(a) /\ h.node = n /\ h.active /\ h.budget /\ h.allowance = p.allowance
      /\ decision[n] = "none"
  BY <1>1, <1>2, <1>4 DEF PausedForGate
<1>6. p.allowance = "frozen"
  BY <1>1, <1>3, <1>5 DEF Sound, GateSound
<1>7. e.type = "budget:authorization" /\ e.decision = d /\ e.node = n /\ e.gate = g /\ e.allowance = "frozen"
  BY <1>1, <1>6 DEF GateEvent
<1>8. Sound(q) /\ Judged(a, q, n, g, d)
  BY <1>1, <1>3, <1>5, <1>7, DecidedFold
<1>9. /\ Spares(a, q, n)
      /\ q.node = [a.node EXCEPT ![n] = IF d = "approved" THEN "none" ELSE "failed"]
      /\ q.run = a.run /\ q.selected = a.selected /\ q.dispatches = a.dispatches
      /\ q.suspensions.media = a.suspensions.media /\ q.suspensions.terminalRun = a.suspensions.terminalRun
      /\ DOMAIN GatesOf(q) = DOMAIN GatesOf(a)
      /\ GatesOf(q)[g].node = n /\ GatesOf(q)[g].budget /\ GatesOf(q)[g].allowance = "frozen"
      /\ GatesOf(q)[g].authorityDecision = d /\ GatesOf(q)[g].humanDecision = "none"
      /\ d = "approved" => /\ q.lives[n].budgetContinuation /\ q.lives[n].startedAt = a.lives[n].startedAt
                           /\ BudgetRejections(q.suspensions) = BudgetRejections(a.suspensions)
  BY <1>8 DEF Judged
<1>10. /\ decision'[n] = Deciding(d) /\ q.node[n] = IF d = "approved" THEN "none" ELSE "failed"
       /\ \A m \in Node \ {n} : Untouched(m)
  <2>1. a.node = [m \in Node |-> a.node[m]]
    BY <1>3 DEF Sound, Form, IsRecord
  <2> QED BY <1>2, <1>3, <1>9, <2>1 DEF Untouched
<1>11. decision'[n] = IF d = "approved" THEN "approving" ELSE "rejecting"
  BY <1>10 DEF Deciding
<1>12. task[n] \in {"idle", "companion", "announcing"}
  BY <1>2, <1>4 DEF PausedForGate
<1>13. VertexTied(q, n)'
  BY <1>2, <1>4, <1>10, <1>12 DEF VertexTied, Working
<1>14. PausedForGate(q, n, p)'
  <2>1. p.gate \in resolved' /\ decision'[n] \in {"approving", "rejecting"} /\ task'[n] \in {"idle", "companion", "announcing"}
    BY <1>1, <1>2, <1>11, <1>12
  <2>2. GatesOf(q)[p.gate].budget = p.budget
    BY <1>1, <1>2, <1>4, <1>5, <1>9, <1>3, <1>8 DEF Sound, GateSound, Gate, PausedForGate
  <2>3. p.gate = g
    BY <1>1
  <2>4. CASE d = "approved"
    BY <1>5, <1>6, <1>9, <1>10, <1>11, <2>1, <2>2, <2>3, <2>4 DEF PausedForGate
  <2>5. CASE d = "rejected"
    BY <1>5, <1>6, <1>9, <1>10, <1>11, <2>1, <2>2, <2>3, <2>5 DEF PausedForGate
  <2> QED BY <2>4, <2>5
<1>15. Exact(q, n)'
  <2>1. \A k \in pendingGates' : k.node = n => k = p
    BY <1>2, <1>4
  <2>2. p \in pendingGates' /\ status'[n] = "paused" /\ task'[n] \notin {"pinning", "authority"}
    BY <1>2, <1>4, <1>12
  <2>3. jobs'[n] = q.suspensions.media[n] /\ leg' = "live"
    BY <1>2, <1>3, <1>9, <1>12 DEF Exact
  <2>4. n \in Timed /\ d = "approved" => startedAt'[n] = q.lives[n].startedAt
    BY <1>2, <1>3, <1>4, <1>5, <1>9 DEF Exact
  <2> QED BY <1>3, <1>11, <1>14, <2>1, <2>2, <2>3, <2>4 DEF Exact
<1>16. ExactMoves(a, q, n)
  <2>1. \A k \in pendingGates : k.node # n => k.gate # g
    BY <1>1, <1>2, GateApart
  <2>2. resolved' \subseteq DOMAIN GatesOf(q)
    BY <1>2, <1>3, <1>5, <1>9
  <2>3. \/ BudgetRejections(q.suspensions) = BudgetRejections(a.suspensions) /\ n \notin Deciders
        \/ n \in Deciders'
    BY <1>3, <1>5, <1>9, <1>11 DEF Deciders
  <2> QED BY <1>2, <1>15, <2>1, <2>2, <2>3 DEF ExactMoves
<1>17. Moves(a, q, n)
  <2>1. a.dispatches <= q.dispatches /\ dispatches' = q.dispatches /\ chosen' = q.selected
    BY <1>2, <1>3, <1>9
  <2>2. task'[n] \notin Working
    BY <1>2, <1>12 DEF Working
  <2> QED BY <1>2, <1>3, <1>8, <1>9, <1>10, <1>13, <1>16, <2>1, <2>2 DEF Moves
<1>18. Told(a, e)
  BY <1>3, <1>7 DEF Told
<1> QED BY <1>1, <1>2, <1>17, <1>18 DEF Goes, Asks

(* Once the run is ending, what follows a decision only drops the gate. *)
LEMMA DroppedGoes ==
    ASSUME NEW a, Ready(a), NEW n \in Node, Stopping', UNCHANGED <<rec, tail, chosen, task, dispatches, entry, attempt, startedAt, resolved>>,
           leg' = "live", decision' = [decision EXCEPT ![n] = "none"], pendingGates' = pendingGates \ {GateOf(n)},
           (UNCHANGED status) \/ (status' = [status EXCEPT ![n] = "failed"] /\ status[n] = "paused" /\ task[n] = "idle")
    PROVE  Goes(a, n)
<1>1. /\ decision = [m \in Node |-> decision[m]] /\ status = [m \in Node |-> status[m]] /\ VertexTied(a, n)
  BY ReadyFacts
<1>2. /\ decision'[n] = "none" /\ status'[n] \in {status[n], IF status[n] = "paused" /\ task[n] = "idle" THEN "failed" ELSE status[n]}
      /\ \A m \in Node \ {n} : decision'[m] = decision[m] /\ status'[m] = status[m]
  BY <1>1
<1>3. \A m \in Node \ {n} : Untouched(m)
  BY <1>2 DEF Untouched
<1>4. pendingGates' \subseteq pendingGates
  OBVIOUS
<1>5. VertexTied(a, n)'
  BY <1>1, <1>2, <1>4 DEF VertexTied, Working
<1> QED BY <1>3, <1>4, <1>5, QuietGoes

(* The decision on money is durable: its companion human_gate:resumed is
   asked for. *)
LEMMA BudgetRecordedGoes ==
    ASSUME CheckpointConstants, NEW a, Ready(a), NEW n \in Node, BudgetRecorded(n)
    PROVE  Goes(a, n)
<1>1. /\ Active /\ decision[n] \in {"approving", "rejecting"}
      /\ UNCHANGED <<rec, status, chosen, task, dispatches, entry, attempt, startedAt, resolved, fate>>
  BY DEF BudgetRecorded, counted
<1>2. CASE ~ CanAuthorize
  <2>1. Stopping'
    BY <1>1, <1>2 DEF CanAuthorize, Stopping, fate
  <2>2. UNCHANGED tail /\ DecisionOver(n)
    BY <1>2 DEF BudgetRecorded
  <2>3. leg' = "live" /\ decision' = [decision EXCEPT ![n] = "none"] /\ pendingGates' = pendingGates \ {GateOf(n)}
    BY <2>2 DEF DecisionOver
  <2>4. UNCHANGED <<rec, tail, chosen, task, dispatches, entry, attempt, startedAt, resolved>>
    BY <1>1, <2>2
  <2>5. (UNCHANGED status) \/ (status' = [status EXCEPT ![n] = "failed"] /\ status[n] = "paused" /\ task[n] = "idle")
    BY <1>1
  <2> QED BY ONLY Ready(a), n \in Node, <2>1, <2>3, <2>4, <2>5, DroppedGoes
<1>3. CASE CanAuthorize
  <2>1. /\ decision = [m \in Node |-> decision[m]] /\ VertexTied(a, n)
        /\ Sound(a) /\ ~ a.suspensions.terminalRun /\ dispatches = a.dispatches /\ chosen = a.selected
        /\ a.dispatches \in Nat /\ ~ Stopping
        /\ Exact(a, n) /\ resolved \subseteq DOMAIN GatesOf(a)
    BY <1>3, ReadyFacts DEF CanAuthorize
  <2>2. PICK p \in pendingGates : p.node = n /\ PausedForGate(a, n, p)
    BY <1>1, <2>1, HasGate
  <2>3. GateOf(n) = p /\ status[n] = "paused" /\ \A k \in pendingGates : k.node = n => k = p
    BY <2>1, <2>2, HeldGate
  <2>4. PICK g, v, e, q, h : /\ g = p.gate /\ v = Verdict(n) /\ e = GateEvent("human_gate:resumed", p, v)
                             /\ q = ApplyEvent(a, e) /\ h = GatesOf(a)[g]
    OBVIOUS
  <2>5. v = IF decision[n] = "approving" THEN "approved" ELSE "rejected"
    BY <1>1, <2>4 DEF Verdict
  <2>6. /\ g \in DOMAIN GatesOf(a) /\ h.node = n /\ h.budget /\ h.allowance = p.allowance /\ h.budget = p.budget
        /\ h.authorityDecision = v /\ h.humanDecision = "none" /\ a.node[n] = IF v = "approved" THEN "none" ELSE "failed"
        /\ v = "approved" => a.lives[n].budgetContinuation
        /\ p.gate \in resolved /\ task[n] \in {"idle", "companion", "announcing"}
    BY <1>1, <2>2, <2>4, <2>5 DEF PausedForGate
  <2>7. h.allowance = "frozen" /\ a.suspensions.media[n] = NoJob
    BY <2>1, <2>4, <2>5, <2>6 DEF Sound, GateSound, VertexSound
  <2>8. e.type = "human_gate:resumed" /\ e.node = n /\ e.gate = g /\ e.allowance = "frozen" /\ e.decision = v
    BY <2>2, <2>4, <2>6, <2>7 DEF GateEvent
  <2>9. /\ Sound(q) /\ Spares(a, q, n) /\ q.node = a.node /\ q.run = a.run /\ q.selected = a.selected
        /\ q.dispatches = a.dispatches /\ q.lives = a.lives /\ q.suspensions.media = a.suspensions.media
        /\ q.suspensions.terminalRun = a.suspensions.terminalRun
        /\ DOMAIN GatesOf(q) = DOMAIN GatesOf(a)
        /\ GatesOf(q)[g].node = n /\ GatesOf(q)[g].budget /\ GatesOf(q)[g].allowance = h.allowance
        /\ GatesOf(q)[g].authorityDecision = h.authorityDecision
        /\ BudgetRejections(q.suspensions) = BudgetRejections(a.suspensions)
    <3>1. h.authorityDecision # "none" /\ e.decision = h.authorityDecision /\ a.node[n] # "paused"
      BY <2>5, <2>6, <2>8
    <3> QED BY <2>1, <2>4, <2>6, <2>7, <2>8, <3>1, ConfirmedFold
  <2>10. /\ decision' = [decision EXCEPT ![n] = v] /\ Ask(e) /\ UNCHANGED <<pendingGates, leg, jobs>>
    BY <1>3, <2>3, <2>4 DEF BudgetRecorded
  <2>11. decision'[n] = v /\ \A m \in Node \ {n} : Untouched(m)
    BY <1>1, <2>1, <2>10 DEF Untouched
  <2>12. VertexTied(q, n)'
    BY <1>1, <2>1, <2>3, <2>5, <2>6, <2>9, <2>10, <2>11 DEF VertexTied, Working
  <2>13. PausedForGate(q, n, p)'
    <3>1. p.gate \in DOMAIN GatesOf(q) /\ p.gate = g /\ p.gate \in resolved'
      BY <1>1, <2>4, <2>6, <2>9
    <3>2. GatesOf(q)[g].budget = p.budget
      BY <2>1, <2>4, <2>6, <2>9 DEF Sound, GateSound, Gate
    <3>3. task'[n] \in {"idle", "companion", "announcing"}
      BY <1>1, <2>6
    <3>4. CASE v = "approved"
      BY <2>6, <2>9, <2>11, <3>1, <3>2, <3>3, <3>4 DEF PausedForGate
    <3>5. CASE v = "rejected"
      BY <2>6, <2>9, <2>11, <3>1, <3>2, <3>3, <3>5 DEF PausedForGate
    <3> QED BY <2>5, <3>4, <3>5
  <2>14. Exact(q, n)'
    <3>1. (\A k \in pendingGates' : k.node = n => k = p) /\ p \in pendingGates'
      BY <2>3, <2>10
    <3>2. status'[n] = "paused" /\ task'[n] \notin {"pinning", "authority"} /\ task'[n] = task[n]
      BY <1>1, <2>3, <2>6
    <3>3. /\ leg' = "live" => jobs'[n] = q.suspensions.media[n]
          /\ leg' = "passive" => task'[n] = "idle"
      BY <2>1, <2>9, <2>10, <3>2 DEF Exact
    <3>4. n \in Timed /\ v = "approved" => startedAt'[n] = q.lives[n].startedAt
      BY <1>1, <2>1, <2>3, <2>5, <2>9 DEF Exact
    <3>5. v \in {"approved", "rejected"}
      BY <2>5
    <3> QED BY <2>2, <2>11, <2>13, <3>1, <3>2, <3>3, <3>4, <3>5 DEF Exact
  <2>15. ExactMoves(a, q, n)
    <3>1. n \in Deciders => n \in Deciders'
      BY <1>1, <2>5, <2>11 DEF Deciders
    <3> QED BY <1>1, <2>1, <2>9, <2>10, <2>14, <3>1 DEF ExactMoves, Active
  <2>16. Moves(a, q, n)
    <3>1. a.dispatches <= q.dispatches /\ dispatches' = q.dispatches /\ chosen' = q.selected
      BY <1>1, <2>1, <2>9
    <3>2. task'[n] \notin Working
      BY <1>1, <2>6 DEF Working
    <3> QED BY <2>1, <2>9, <2>10, <2>11, <2>12, <2>15, <3>1, <3>2 DEF Moves
  <2>17. Told(a, e)
    BY <2>1, <2>8 DEF Told
  <2> QED BY <1>1, <2>4, <2>9, <2>10, <2>16, <2>17 DEF Goes, Asks
<1> QED BY <1>2, <1>3

(* The companion is durable: an approved vertex is to run again with the
   clock it had, a rejected one has failed and ends the run. *)
LEMMA BudgetAppliedGoes ==
    ASSUME NEW a, Ready(a), NEW n \in Node, BudgetApplied(n)
    PROVE  Goes(a, n)
<1>1. /\ Active /\ decision[n] \in {"approved", "rejected"} /\ task[n] = "idle" /\ DecisionOver(n)
      /\ UNCHANGED <<rec, tail, chosen, task, dispatches, entry, attempt, startedAt, resolved, cancelling>>
  BY DEF BudgetApplied, counted
<1>2. /\ decision = [m \in Node |-> decision[m]] /\ status = [m \in Node |-> status[m]] /\ VertexTied(a, n)
      /\ jobs = [m \in Node |-> jobs[m]]
      /\ ~ Stopping => Exact(a, n) /\ resolved \subseteq DOMAIN GatesOf(a)
  BY ReadyFacts
<1>3. CASE ~ CanAuthorize
  <2>1. UNCHANGED <<status, failure>> /\ Stopping'
    BY <1>1, <1>3 DEF BudgetApplied, CanAuthorize, Stopping
  <2>2. leg' = "live" /\ decision' = [decision EXCEPT ![n] = "none"] /\ pendingGates' = pendingGates \ {GateOf(n)}
    BY <1>1 DEF DecisionOver
  <2>3. UNCHANGED <<rec, tail, chosen, task, dispatches, entry, attempt, startedAt, resolved>>
    BY <1>1, <2>1
  <2>4. (UNCHANGED status) \/ (status' = [status EXCEPT ![n] = "failed"] /\ status[n] = "paused" /\ task[n] = "idle")
    BY <2>1
  <2> QED BY ONLY Ready(a), n \in Node, <2>1, <2>2, <2>3, <2>4, DroppedGoes
<1>4. CASE CanAuthorize
  <2>1. ~ Stopping /\ Exact(a, n) /\ resolved \subseteq DOMAIN GatesOf(a)
    BY <1>2, <1>4 DEF CanAuthorize
  <2>2. PICK p \in pendingGates : p.node = n /\ PausedForGate(a, n, p)
    BY <1>1, <2>1, HasGate
  <2>3. GateOf(n) = p /\ status[n] = "paused" /\ \A k \in pendingGates : k.node = n => k = p
    BY <2>1, <2>2, HeldGate
  <2>4. CASE decision[n] = "rejected"
    <3>1. status' = [status EXCEPT ![n] = "failed"] /\ Fail
      BY <1>4, <2>4 DEF BudgetApplied, Verdict
    <3>2. Stopping'
      BY <1>1, <3>1 DEF Fail, Stopping
    <3> QED BY <1>1, <2>3, <3>1, <3>2, DroppedGoes DEF DecisionOver
  <2>5. CASE decision[n] = "approved"
    <3>1. /\ status' = [status EXCEPT ![n] = "pending"] /\ decision' = [decision EXCEPT ![n] = "none"]
          /\ pendingGates' = pendingGates \ {p} /\ leg' = "live"
          /\ jobs' = IF leg = "passive" THEN rec.suspensions.media ELSE jobs
      BY <1>1, <1>4, <2>3, <2>5 DEF BudgetApplied, Verdict, DecisionOver
    <3>2. /\ status'[n] = "pending" /\ decision'[n] = "none" /\ (\A k \in pendingGates' : k.node # n)
          /\ \A m \in Node \ {n} : Untouched(m)
      BY <1>1, <1>2, <2>3, <3>1 DEF Untouched
    <3>3. a.node[n] = "none" /\ a.lives[n].budgetContinuation
      BY <2>2, <2>5 DEF PausedForGate
    <3>4. VertexTied(a, n)' /\ task'[n] \notin Working
      BY <1>1, <3>2, <3>3 DEF VertexTied, Working
    <3>5. \A m \in Node : jobs'[m] = IF leg = "live" THEN jobs[m] ELSE a.suspensions.media[m]
      BY <1>1, <2>1, <3>1 DEF Ready, Active
    <3>6. Exact(a, n)'
      <4>1. jobs'[n] = a.suspensions.media[n]
        BY <1>1, <2>1, <3>5 DEF Exact
      <4>2. n \in Timed => startedAt'[n] = a.lives[n].startedAt
        BY <1>1, <2>1, <2>3, <2>5 DEF Exact
      <4> QED BY <1>1, <3>1, <3>2, <3>3, <4>1, <4>2 DEF Exact
    <3>7. ExactMoves(a, a, n)
      <4>1. n \notin Deciders
        BY <2>5 DEF Deciders
      <4>2. \A m \in Node \ {n} : \A k \in pendingGates : k.node = m => k \in pendingGates'
        BY <2>2, <3>1
      <4> QED BY <1>1, <2>1, <3>1, <3>5, <3>6, <4>1, <4>2 DEF ExactMoves
    <3> QED BY <1>1, <3>1, <3>2, <3>4, <3>7, QuietGoes
  <2> QED BY <1>1, <2>4, <2>5
<1> QED BY <1>3, <1>4

-----------------------------------------------------------------------------
(* A media job in flight. *)

(* A job the process waits for is the job the record has, and its vertex is
   parked. *)
LEMMA HeldJob ==
    ASSUME NEW a, Ready(a), ~ Stopping, leg = "live", NEW n \in Node, jobs[n] # NoJob
    PROVE  /\ status[n] = "paused" /\ a.node[n] = "paused" /\ PausedForJob(a, n) /\ task[n] = "idle"
           /\ \A p \in pendingGates : p.node # n
<1>1. Exact(a, n) /\ VertexTied(a, n) /\ Sound(a)
  BY ReadyFacts
<1>2. task[n] # "pinning" /\ a.suspensions.media[n] # NoJob
  BY <1>1 DEF Exact
<1>3. a.node[n] = "paused"
  BY <1>1, <1>2 DEF Sound, VertexSound
<1>4. status[n] \in {"pending", "running", "paused", "completed", "failed", "skipped"}
  BY DEF Ready, Types, TypeOK, Settled
<1>5. status[n] = "paused"
  BY <1>1, <1>3, <1>4 DEF VertexTied, Exact
<1>6. ASSUME NEW p, PausedForGate(a, n, p) PROVE FALSE
  <2>1. decision[n] \in {"none", "pinning", "approving", "rejecting", "approved", "rejected"}
    BY DEF Ready, Types, TypeOK
  <2>2. decision[n] \in {"none", "pinning"}
    BY <1>3, <1>6, <2>1 DEF PausedForGate
  <2>3. p.gate \in DOMAIN GatesOf(a) /\ GatesOf(a)[p.gate].active /\ GatesOf(a)[p.gate].node = n
    BY <1>6, <2>2 DEF PausedForGate
  <2> QED BY <1>1, <1>2, <2>3 DEF Sound, GateSound
<1> QED BY <1>1, <1>2, <1>3, <1>5, <1>6 DEF Exact, PausedForJob

(* The provider finished: the job stops being pending while its bytes are
   pinned, and the vertex stays parked. *)
LEMMA MediaDoneGoes ==
    ASSUME NEW a, Ready(a), NEW n \in Node, MediaDone(n)
    PROVE  Goes(a, n)
<1>1. /\ leg = "live" /\ jobs[n] # NoJob /\ ~ Stopping
      /\ jobs' = [jobs EXCEPT ![n] = NoJob] /\ task' = [task EXCEPT ![n] = "pinning"]
      /\ UNCHANGED <<rec, tail, leg, status, chosen, dispatches, entry, attempt, startedAt, pendingGates, resolved, decision, fate>>
  BY DEF MediaDone, Polled, ClearMediaJob, counted, waiting
<1>2. /\ jobs = [m \in Node |-> jobs[m]] /\ task = [m \in Node |-> task[m]] /\ VertexTied(a, n)
      /\ Exact(a, n) /\ resolved \subseteq DOMAIN GatesOf(a)
  BY <1>1, ReadyFacts
<1>3. /\ status[n] = "paused" /\ a.node[n] = "paused" /\ PausedForJob(a, n) /\ task[n] = "idle"
      /\ \A p \in pendingGates : p.node # n
  BY <1>1, HeldJob
<1>4. /\ jobs'[n] = NoJob /\ task'[n] = "pinning"
      /\ \A m \in Node \ {n} : Untouched(m) /\ jobs'[m] = jobs[m]
  BY <1>1, <1>2 DEF Untouched
<1>5. decision[n] = "none"
  BY <1>3 DEF PausedForJob
<1>6. VertexTied(a, n)' /\ task'[n] \notin Working
  BY <1>1, <1>3, <1>4, <1>5 DEF VertexTied, Working
<1>7. PausedForJob(a, n)'
  BY <1>1, <1>3, <1>4 DEF PausedForJob
<1>8. Exact(a, n)'
  BY <1>1, <1>2, <1>3, <1>4, <1>5, <1>7 DEF Exact
<1>9. ExactMoves(a, a, n)
  BY <1>1, <1>2, <1>4, <1>8 DEF ExactMoves, Deciders
<1> QED BY <1>1, <1>4, <1>6, <1>9, QuietGoes

(* The bytes are pinned: the vertex is completed. *)
LEMMA MediaPinnedGoes ==
    ASSUME CheckpointConstants, NEW a, Ready(a), NEW n \in Node, MediaPinned(n)
    PROVE  Goes(a, n)
<1>1. /\ leg = "live" /\ task[n] = "pinning"
      /\ UNCHANGED <<rec, leg, chosen, dispatches, entry, attempt, startedAt, pendingGates, resolved, decision, jobs>>
  BY DEF MediaPinned, counted, waiting
<1>2. /\ status = [m \in Node |-> status[m]] /\ task = [m \in Node |-> task[m]] /\ VertexTied(a, n)
      /\ Sound(a) /\ ~ a.suspensions.terminalRun /\ chosen = a.selected
      /\ ~ Stopping => Exact(a, n)
  BY ReadyFacts
<1>3. a.node[n] = "paused" /\ status[n] = "paused" /\ (\A p \in pendingGates : p.node # n)
  BY <1>1, <1>2 DEF VertexTied
<1>4. CASE SettleFailed(n)
  BY <1>1, <1>3, <1>4, FailingGoes
<1>5. CASE /\ status' = [status EXCEPT ![n] = "completed"]
           /\ task' = [task EXCEPT ![n] = "idle"]
           /\ Ask(Completed(n, {}))
           /\ UNCHANGED fate
  <2>1. PICK e : e = Completed(n, {})
    OBVIOUS
  <2>2. e.type = "node:completed" /\ e.node = n /\ e.selected = {} /\ Ask(e)
    BY <1>5, <2>1 DEF Completed
  <2>3. status'[n] = "completed" /\ task'[n] = "idle" /\ \A m \in Node \ {n} : Untouched(m)
    BY <1>1, <1>2, <1>5 DEF Untouched
  <2>4. n \notin Conditions
    <3>1. \/ a.suspensions.media[n] # NoJob /\ n \in MediaNodes
          \/ \E g \in DOMAIN GatesOf(a) : GatesOf(a)[g].active /\ GatesOf(a)[g].node = n
      BY <1>2, <1>3 DEF Sound, VertexSound
    <3>2. n \in Agents \/ n \in Gates
      BY <1>2, <3>1, SoundAgents DEF Sound, GateSound
    <3> QED BY <3>2 DEF Agents, CheckpointConstants
  <2>5. chosen' = [chosen EXCEPT ![n] = e.selected]
    <3>1. a.selected = [m \in Node |-> a.selected[m]] /\ a.selected[n] = {}
      BY <1>2, <2>4 DEF Sound, Form
    <3> QED BY <1>1, <1>2, <2>2, <3>1
  <2>6. ASSUME ~ Stopping' PROVE ~ Stopping /\ decision[n] = "none" /\ jobs[n] = NoJob
    <3>1. ~ Stopping /\ Exact(a, n)
      BY <1>2, <1>5, <2>6 DEF Stopping, fate
    <3>2. \A p : ~ PausedForGate(a, n, p)
      BY <1>1 DEF PausedForGate
    <3> QED BY <1>1, <1>3, <3>1, <3>2 DEF Exact, PausedForJob
  <2>7. Ending(n, e)
    BY <1>1, <1>3, <2>2, <2>3, <2>5, <2>6 DEF Ending, NodeTerminals, OverAs, Working
  <2>8. Told(a, e)
    BY <1>2, <1>3, <2>2 DEF Told, Settled
  <2> QED BY <2>7, <2>8, EndingGoes
<1> QED BY <1>4, <1>5 DEF MediaPinned

(* The job failed or was lost: its vertex has failed. *)
LEMMA MediaFailsGoes ==
    ASSUME CheckpointConstants, NEW a, Ready(a), NEW n \in Node, MediaFails(n)
    PROVE  Goes(a, n)
<1>1. /\ leg = "live" /\ jobs[n] # NoJob
      /\ UNCHANGED <<rec, leg, chosen, dispatches, entry, attempt, startedAt, pendingGates, resolved, decision>>
  BY DEF MediaFails, Polled, ClearMediaJob, counted, waiting
<1>2. CASE status[n] \in Settled
  <2>1. UNCHANGED <<status, task, tail, fate>>
    BY <1>2 DEF MediaFails
  <2>2. Stopping'
    <3>1. Stopping
      BY <1>1, <1>2, HeldJob DEF Settled
    <3> QED BY <2>1, <3>1 DEF Stopping, fate
  <2>3. \A m \in Node \ {n} : Untouched(m)
    BY <1>1, <2>1 DEF Untouched
  <2>4. VertexTied(a, n)'
    BY <1>1, <2>1, ReadyFacts DEF VertexTied
  <2> QED BY <1>1, <2>1, <2>2, <2>3, <2>4, QuietGoes
<1>3. CASE status[n] \notin Settled
  <2>1. SettleFailed(n)
    BY <1>3 DEF MediaFails
  <2>2. a.node[n] \notin {"completed", "skipped"}
    BY <1>3, NotOver DEF Settled
  <2> QED BY <1>1, <2>1, <2>2, FailingGoes
<1> QED BY <1>2, <1>3

-----------------------------------------------------------------------------
(* Steps of the run itself.                                                  *)

(* A cancellation, the ceiling on cost and a run that can make no progress
   begin the end of the run and write nothing yet. *)
LEMMA StoppingGoes ==
    ASSUME CheckpointConstants, NEW a, Ready(a), Cancel \/ CeilingReached \/ Stall
    PROVE  Goes(a, NoNode)
<1>1. UNCHANGED <<rec, tail, chosen, dispatches, leg, status, task, entry, attempt, startedAt, decision, pendingGates>>
  BY DEF Cancel, CeilingReached, Stall, counted, waiting
<1>2. Stopping' /\ NoNode \notin Node
  BY DEF Cancel, CeilingReached, Stall, Stopping, CheckpointConstants
<1>3. \A m \in Node \ {NoNode} : Untouched(m)
  BY <1>1 DEF Untouched
<1> QED BY <1>1, <1>2, <1>3, QuietGoes

(* Every vertex left is parked: the run says run:paused. *)
LEMMA PauseRunGoes ==
    ASSUME CheckpointConstants, NEW a, Ready(a), PauseRun
    PROVE  Goes(a, NoNode)
<1>1. PICK e, q : e = RunEvent("run:paused") /\ q = ApplyEvent(a, e)
  OBVIOUS
<1>2. /\ Ask(e) /\ ~ Stopping /\ leg = "live" /\ NoNode \notin Node
      /\ UNCHANGED <<rec, leg, status, chosen, task, entry, attempt, startedAt, dispatches, pendingGates, resolved,
                     decision, jobs, fate>>
  BY <1>1 DEF PauseRun, Idle, Decides, Pass, counted, waiting, CheckpointConstants
<1>3. /\ Sound(a) /\ ~ a.suspensions.terminalRun /\ a.dispatches \in Nat /\ dispatches = a.dispatches /\ chosen = a.selected
      /\ resolved \subseteq DOMAIN GatesOf(a)
  BY <1>2, ReadyFacts
<1>4. e.type = "run:paused" /\ e.node = NoNode
  BY <1>1 DEF RunEvent
<1>5. /\ Sound(q) /\ q.node = a.node /\ q.selected = a.selected /\ q.dispatches = a.dispatches
      /\ q.lives = a.lives /\ GatesOf(q) = GatesOf(a) /\ q.suspensions.media = a.suspensions.media
      /\ q.suspensions.terminalNodes = a.suspensions.terminalNodes
      /\ BudgetRejections(q.suspensions) = BudgetRejections(a.suspensions)
      /\ q.suspensions.terminalRun = a.suspensions.terminalRun
  BY <1>1, <1>3, <1>4, RunFold
<1>6. Spares(a, q, NoNode)
  BY <1>5 DEF Spares
<1>7. \A m \in Node \ {NoNode} : Untouched(m)
  BY <1>2 DEF Untouched
<1>8. ExactMoves(a, q, NoNode)
  BY <1>2, <1>3, <1>5 DEF ExactMoves, Deciders
<1>9. Moves(a, q, NoNode)
  BY <1>2, <1>3, <1>5, <1>6, <1>7, <1>8 DEF Moves
<1>10. Told(a, e)
  BY <1>3, <1>4 DEF Told
<1> QED BY <1>1, <1>2, <1>9, <1>10 DEF Goes, Asks

(* A run that completes has no decision under way, and so no rejection. *)
LEMMA SettleHistory ==
    ASSUME CheckpointConstants, TailFree, NEW h, Story(h), NEW a, a = h[Len(tail)], Ready(a), Settle
    PROVE  History'
<1>1. PICK e, q : e = RunEvent(Terminal) /\ q = ApplyEvent(a, e)
  OBVIOUS
<1>2. /\ Ask(e) /\ leg' = "settled" /\ leg # "down" /\ UNCHANGED rec
      /\ e.type = Terminal /\ e.node = NoNode /\ e.type \in RunTerminals
  BY <1>1 DEF Settle, Pass, RunEvent, Terminal, RunTerminals
<1>3. e.type = "run:completed" => BudgetRejections(a.suspensions) = {}
  <2> SUFFICES ASSUME e.type = "run:completed" PROVE BudgetRejections(a.suspensions) = {}
    OBVIOUS
  <2>1. ~ Stopping
    BY <1>2 DEF Terminal, Stopping
  <2>2. \A n \in Node : status[n] # "paused"
    BY <2>1 DEF Settle, AllSettled, Settled
  <2>3. \A n \in Node : decision[n] = "none"
    BY <2>1, <2>2, ReadyFacts DEF Exact
  <2> QED BY <2>1, <2>3, ReadyFacts DEF Tied
<1>4. Sound(q) /\ Told(a, e)
  <2>1. Sound(a) /\ ~ a.suspensions.terminalRun
    BY ReadyFacts
  <2>2. Sound(q)
    BY <1>1, <1>2, <1>3, <2>1, RunFold
  <2>3. Told(a, e)
    BY <1>2, <2>1 DEF Told, RunTerminals
  <2> QED BY <2>2, <2>3
<1>5. PICK S : tail \in Seq(S)
  BY DEF TailFree
<1>6. \E k : Story(k)' /\ k[Len(tail')] = q
  BY <1>1, <1>2, <1>4, <1>5, StoryGrows
<1>7. ~ Active'
  BY <1>2 DEF Active
<1> QED BY <1>6, <1>7 DEF History

(* What the process holds is tied to the same record while neither changes. *)
LEMMA TiedKept ==
    ASSUME NEW a, Tied(a), UNCHANGED <<leg, status, chosen, task, dispatches, entry, attempt, startedAt, pendingGates,
                                       resolved, decision, jobs, failure, cancelling>>
    PROVE  Tied(a)'
<1>1. \A n \in Node : VertexTied(a, n)'
  BY DEF Tied, VertexTied
<1>2. EntriesDiffer' /\ (Stopping' <=> Stopping)
  BY DEF Tied, EntriesDiffer, Stopping
<1>3. ASSUME ~ Stopping, NEW n \in Node PROVE Exact(a, n)'
  <2>1. Exact(a, n)
    BY <1>3 DEF Tied
  <2>2. \A p : PausedForGate(a, n, p) => PausedForGate(a, n, p)'
    BY DEF PausedForGate
  <2>3. PausedForJob(a, n) => PausedForJob(a, n)'
    BY DEF PausedForJob
  <2> QED BY <2>1, <2>2, <2>3 DEF Exact
<1> QED BY <1>1, <1>2, <1>3 DEF Tied

(* The store: what the process holds it holds of the same last record. *)
LEMMA AppendHistory ==
    ASSUME TailFree, NEW h, Story(h), Active => Tied(h[Len(tail)]), AppendEvent
    PROVE  History'
<1>1. /\ tail # <<>> /\ rec' = ApplyEvent(rec, Head(tail)) /\ tail' = Tail(tail)
      /\ UNCHANGED <<leg, status, chosen, task, dispatches, entry, attempt, startedAt, pendingGates, resolved, decision,
                     jobs, failure, cancelling>>
  BY DEF AppendEvent, counted, waiting, fate
<1>2. PICK a : a = h[Len(tail)]
  OBVIOUS
<1>3. PICK S : tail \in Seq(S)
  BY DEF TailFree
<1>4. UNCHANGED <<leg, fate>>
  BY <1>1 DEF fate
<1>5. \E k : Story(k)' /\ k[Len(tail')] = a
  BY <1>1, <1>2, <1>3, <1>4, StoryShifts
<1>6. PICK k : Story(k)' /\ k[Len(tail')] = a
  BY <1>5
<1>7. Active' => Tied(a)'
  BY <1>1, <1>2, TiedKept DEF Active
<1> QED BY <1>6, <1>7 DEF History

-----------------------------------------------------------------------------
(* Steps that begin a story anew.                                            *)

(* A step after which nothing is on its way and the process is tied to the
   record it started from keeps the invariant. *)
LEMMA AloneHistory ==
    ASSUME NEW r, Sound(r), rec' = r, tail' = <<>>, Active' => Tied(r)'
    PROVE  History'
<1>1. PICK k : k = [i \in 0 .. 0 |-> r]
  OBVIOUS
<1>2. Story(k)'
  BY <1>1, StoryAlone
<1>3. k[Len(tail')] = r
  BY <1>1
<1> QED BY <1>2, <1>3 DEF History

(* A new process that writes one event: a story of two records. *)
LEMMA StoryOfTwo ==
    ASSUME NEW r, Sound(r), NEW e, NEW q, q = ApplyEvent(r, e), Told(r, e), Sound(q), rec' = r, tail' = <<e>>,
           leg' # "down", leg' = "passive" /\ ~ Stopping' => q.suspensions.media = r.suspensions.media
    PROVE  \E k : Story(k)' /\ k[Len(tail')] = q
<1>1. PICK k : k = [i \in 0 .. 1 |-> IF i = 0 THEN r ELSE q]
  OBVIOUS
<1>2. Len(tail') = 1 /\ tail'[1] = e /\ k[0] = r /\ k[1] = q /\ k = [i \in 0 .. 1 |-> k[i]]
  BY <1>1
<1>3. \A i \in 1 .. Len(tail') : i = 1 /\ i - 1 = 0
  BY <1>2
<1>4. \A i \in 0 .. Len(tail') : i = 0 \/ i = 1
  BY <1>2
<1>5. \A i \in 1 .. Len(tail') : k[i] = ApplyEvent(k[i - 1], tail'[i]) /\ Told(k[i - 1], tail'[i])
  <2> TAKE i \in 1 .. Len(tail')
  <2>1. k[i] = q /\ k[i - 1] = r /\ tail'[i] = e
    BY <1>2, <1>3
  <2> QED BY <2>1
<1>6. \A i \in 0 .. Len(tail') : Sound(k[i])
  BY <1>2, <1>4
<1>7. leg' = "passive" /\ ~ Stopping' =>
         \A i \in 0 .. Len(tail') : k[i].suspensions.media = rec'.suspensions.media
  BY <1>2, <1>4
<1>8. k = [i \in 0 .. Len(tail') |-> k[i]]
  BY <1>2
<1>9. Story(k)'
  BY <1>2, <1>5, <1>6, <1>7, <1>8 DEF Story
<1> QED BY <1>2, <1>9

(* One that writes two, the end of a vertex and of the run: a story of three. *)
LEMMA StoryOfThree ==
    ASSUME NEW r, Sound(r), NEW e, NEW q, q = ApplyEvent(r, e), Told(r, e), Sound(q),
           NEW f, NEW t, t = ApplyEvent(q, f), Told(q, f), Sound(t), rec' = r, tail' = <<e, f>>, leg' = "settled"
    PROVE  \E k : Story(k)'
<1>1. PICK k : k = [i \in 0 .. 2 |-> IF i = 0 THEN r ELSE IF i = 1 THEN q ELSE t]
  OBVIOUS
<1>2. Len(tail') = 2 /\ tail'[1] = e /\ tail'[2] = f /\ k[0] = r /\ k[1] = q /\ k[2] = t /\ k = [i \in 0 .. 2 |-> k[i]]
  BY <1>1
<1>3. \A i \in 1 .. Len(tail') : (i = 1 /\ i - 1 = 0) \/ (i = 2 /\ i - 1 = 1)
  BY <1>2
<1>4. \A i \in 0 .. Len(tail') : i = 0 \/ i = 1 \/ i = 2
  BY <1>2
<1>5. \A i \in 1 .. Len(tail') : k[i] = ApplyEvent(k[i - 1], tail'[i]) /\ Told(k[i - 1], tail'[i])
  <2> TAKE i \in 1 .. Len(tail')
  <2>1. \/ k[i] = q /\ k[i - 1] = r /\ tail'[i] = e
        \/ k[i] = t /\ k[i - 1] = q /\ tail'[i] = f
    BY <1>2, <1>3
  <2> QED BY <2>1
<1>6. \A i \in 0 .. Len(tail') : Sound(k[i])
  BY <1>2, <1>4
<1>8. k = [i \in 0 .. Len(tail') |-> k[i]]
  BY <1>2
<1>9. Story(k)'
  BY <1>2, <1>5, <1>6, <1>8 DEF Story
<1> QED BY <1>9

(* The process dies: what was on its way is lost, and the record of the log
   is sound by itself. *)
LEMMA CrashHistory ==
    ASSUME NEW h, Story(h), Crash, Len(tail) \in Nat
    PROVE  History'
<1>1. PICK r : r = rec
  OBVIOUS
<1>2. rec' = r /\ tail' = <<>> /\ ~ Active'
  BY <1>1 DEF Crash, BlankLeg, Active
<1>3. Sound(r)
  BY <1>1 DEF Story
<1> QED BY <1>2, <1>3, AloneHistory

(* The sweep ends a run that no process holds: one run:failed, into a sound
   record. *)
LEMMA ReconcileHistory ==
    ASSUME CheckpointConstants, NEW h, Story(h), Reconcile
    PROVE  History'
<1>1. PICK r, e, q : r = rec /\ e = RunEvent("run:failed") /\ q = ApplyEvent(r, e)
  OBVIOUS
<1>2. tail = <<>>
  BY DEF Reconcile, Story
<1>3. Sound(r) /\ ~ r.suspensions.terminalRun
  BY <1>1, <1>2 DEF Story, Reconcile, Ended
<1>4. Sound(q)
  BY <1>1, <1>3, RunFold DEF RunEvent, RunTerminals
<1>5. rec' = q /\ tail' = <<>> /\ ~ Active'
  BY <1>1, <1>2 DEF Reconcile, Active
<1> QED BY <1>4, <1>5, AloneHistory

-----------------------------------------------------------------------------
(* A new process, made from the record r.                                    *)
Seeds(r) ==
    /\ rec = r /\ leg = "down" /\ UNCHANGED rec
    /\ Sound(r) /\ ~ r.suspensions.terminalRun
    /\ chosen' = r.selected /\ dispatches' = r.dispatches
    /\ task' = [m \in Node |-> "idle"]
    /\ pendingGates' = PendingGates(r.suspensions)
    /\ \A m \in Node :
        /\ m \in Timed => startedAt'[m] = IF m \in ClockBearers THEN r.lives[m].startedAt ELSE 0
        /\ m \in ClockBearers => m \in Timed /\ r.node[m] \in {"none", "paused"}

(* q says of m what r says. *)
SameAt(r, q, m) ==
    /\ q.node[m] = r.node[m] /\ q.lives[m] = r.lives[m] /\ q.suspensions.media[m] = r.suspensions.media[m]
    /\ \A g \in DOMAIN GatesOf(r) :
         GatesOf(r)[g].node = m => g \in DOMAIN GatesOf(q) /\ GatesOf(q)[g] = GatesOf(r)[g]

(* A record says of a vertex what it says. *)
LEMMA SameSelf == ASSUME NEW r, NEW m PROVE SameAt(r, r, m)
BY DEF SameAt

(* An event about another vertex changes nothing a record says of m. *)
LEMMA SameSpared == ASSUME NEW r, NEW q, NEW n, Spares(r, q, n), NEW m \in Node, m # n PROVE SameAt(r, q, m)
BY DEF SameAt, Spares

(* A gate that waits has its vertex parked. *)
LEMMA WaitingGate ==
    ASSUME CheckpointConstants, NEW r, Sound(r), NEW p \in PendingGates(r.suspensions)
    PROVE  /\ p.gate \in DOMAIN GatesOf(r) /\ GatesOf(r)[p.gate].node = p.node /\ GatesOf(r)[p.gate].active
           /\ GatesOf(r)[p.gate].budget = p.budget /\ GatesOf(r)[p.gate].allowance = p.allowance
           /\ p.node \in Node /\ r.node[p.node] = "paused" /\ p.gate \notin ResolvedGateIds(r.suspensions)
           /\ p = [gate |-> p.gate, node |-> p.node, budget |-> p.budget, allowance |-> p.allowance]
           /\ p.budget \in BOOLEAN
           /\ ~ p.budget => p.node \in Gates
           /\ p.budget => p.allowance = "frozen" /\ p.node \in Budgeted
           /\ r.suspensions.media[p.node] = NoJob
<1> DEFINE s == r.suspensions
<1>1. PICK g \in {i \in DOMAIN s.gates : s.gates[i].active /\ ~ IsResolved(s.gates[i])} :
         p = [gate |-> g, node |-> s.gates[g].node, budget |-> s.gates[g].budget, allowance |-> s.gates[g].allowance]
  BY DEF PendingGates
<1>2. p.gate = g /\ p.node = s.gates[g].node /\ p.budget = s.gates[g].budget /\ p.allowance = s.gates[g].allowance
  BY <1>1
<1>3. GateSound(r, g)
  BY <1>1 DEF Sound, GatesOf
<1>4. g \notin ResolvedGateIds(s)
  BY <1>1 DEF ResolvedGateIds
<1> QED BY <1>1, <1>2, <1>3, <1>4 DEF GateSound, GatesOf, Gate

(* No two gates wait for the same vertex. *)
LEMMA WaitingOnce ==
    ASSUME CheckpointConstants, NEW r, Sound(r), NEW p \in PendingGates(r.suspensions), NEW k \in PendingGates(r.suspensions),
           p.node = k.node \/ p.gate = k.gate
    PROVE  p = k
<1>1. p.gate = k.gate
  <2>1. CASE p.node = k.node
    BY <2>1, WaitingGate DEF Sound, OneGateEach
  <2> QED BY <2>1
<1>2. p.node = k.node /\ p.budget = k.budget /\ p.allowance = k.allowance
  BY <1>1, WaitingGate
<1> QED BY <1>1, <1>2, WaitingGate

(* A process that #seedFromCheckpoint makes starts from a sound record of a
   run that is not over. *)
LEMMA SeedFacts ==
    ASSUME CheckpointConstants, NEW h, Story(h), Types, Shapes, Seeded, NEW r, r = rec
    PROVE  Seeds(r)
<1>1. tail = <<>> /\ leg = "down" /\ UNCHANGED rec
  BY DEF Seeded, Story
<1>2. Sound(r)
  BY <1>1 DEF Story
<1>3. /\ chosen' = r.selected /\ dispatches' = r.dispatches /\ task' = [m \in Node |-> "idle"]
      /\ pendingGates' = PendingGates(r.suspensions) /\ ~ r.suspensions.terminalRun
      /\ startedAt' = [m \in Node |-> IF m \in ClockBearers THEN rec.lives[m].startedAt ELSE 0]
  BY DEF Seeded, Waiting, Ended
<1>4. ASSUME NEW m \in Node, m \in ClockBearers PROVE m \in Timed /\ r.node[m] \in {"none", "paused"}
  <2>1. CASE \E p \in Waiting : p.node = m
    BY <1>2, <1>4, <2>1, WaitingGate DEF ClockBearers, Waiting
  <2>2. CASE m \in PendingMediaJobs(rec.suspensions)
    BY <1>2, <1>4, <2>2 DEF ClockBearers, PendingMediaJobs, Sound, VertexSound
  <2>3. CASE rec.lives[m].budgetContinuation
    BY <1>2, <1>4, <2>3 DEF ClockBearers, Sound, VertexSound
  <2> QED BY <1>4, <2>1, <2>2, <2>3 DEF ClockBearers
<1> QED BY <1>1, <1>2, <1>3, <1>4 DEF Seeds

(* Such a vertex is as its record says. *)
LEMMA SeededVertex ==
    ASSUME CheckpointConstants, NEW r, Seeds(r), NEW m \in Node, NEW q, SameAt(r, q, m),
           status'[m] = IF r.node[m] = "none" THEN "pending" ELSE r.node[m]
    PROVE  VertexTied(q, m)'
<1>1. task'[m] = "idle" /\ q.node[m] = r.node[m] /\ r.node[m] \in {"none", "paused", "completed", "failed", "skipped"}
  BY DEF Seeds, SameAt, Sound, Form, IsRecord, NodeStates
<1>2. \A p \in pendingGates' : p.node = m => r.node[m] = "paused"
  BY WaitingGate DEF Seeds
<1> QED BY <1>1, <1>2 DEF VertexTied, Working

(* The clock of a vertex with a deadline is taken over from its life: by a
   vertex that was parked, and by one that an approved budget sends back. *)
LEMMA SeededClock ==
    ASSUME CheckpointConstants, NEW r, Seeds(r), NEW m \in Timed, m \in Node
    PROVE  /\ r.node[m] = "none" => startedAt'[m] = IF r.lives[m].budgetContinuation THEN r.lives[m].startedAt ELSE 0
           /\ r.node[m] = "paused" => startedAt'[m] = r.lives[m].startedAt
<1>1. startedAt'[m] = IF m \in ClockBearers THEN r.lives[m].startedAt ELSE 0
  BY DEF Seeds
<1>2. /\ VertexSound(r, m) /\ rec = r /\ Sound(r)
  BY DEF Seeds, Sound
<1>3. ASSUME r.node[m] = "none" PROVE m \in ClockBearers <=> r.lives[m].budgetContinuation
  <2>1. m \notin PendingMediaJobs(rec.suspensions)
    BY <1>2, <1>3 DEF PendingMediaJobs, VertexSound
  <2>2. \A p \in Waiting : p.node # m
    BY <1>2, <1>3, WaitingGate DEF Waiting
  <2> QED BY <1>2, <2>1, <2>2 DEF ClockBearers
<1>4. ASSUME r.node[m] = "paused" PROVE m \in ClockBearers
  <2>1. CASE r.suspensions.media[m] # NoJob
    BY <1>2, <2>1 DEF ClockBearers, PendingMediaJobs
  <2>2. CASE r.suspensions.media[m] = NoJob
    <3>1. PICK g \in DOMAIN GatesOf(r) : GatesOf(r)[g].active /\ GatesOf(r)[g].node = m
      BY <1>2, <1>4, <2>2 DEF VertexSound
    <3>2. ~ IsResolved(GatesOf(r)[g]) /\ (~ GatesOf(r)[g].budget => m \in Gates)
      BY <1>2, <3>1 DEF Sound, GateSound
    <3>3. PICK p : p = [gate |-> g, node |-> GatesOf(r)[g].node, budget |-> GatesOf(r)[g].budget,
                        allowance |-> GatesOf(r)[g].allowance]
      OBVIOUS
    <3>4. p \in Waiting
      BY <1>2, <3>1, <3>2, <3>3 DEF Waiting, PendingGates, GatesOf
    <3>5. m \notin Gates
      BY SoundAgents DEF Agents
    <3>6. p.node = m /\ p.budget = GatesOf(r)[g].budget
      BY <3>1, <3>3
    <3>7. p.budget
      BY <3>2, <3>5, <3>6
    <3> QED BY <3>4, <3>6, <3>7 DEF ClockBearers
  <2> QED BY <2>1, <2>2
<1> QED BY <1>1, <1>3, <1>4

(* So the process knows exactly what the record says of a vertex whose gate
   it has not answered, or whose answer it has claimed. *)
LEMMA SeededExact ==
    ASSUME CheckpointConstants, NEW r, Seeds(r), NEW m \in Node, NEW q, SameAt(r, q, m),
           status'[m] = IF r.node[m] = "none" THEN "pending" ELSE r.node[m],
           leg' = "live" => jobs'[m] = r.suspensions.media[m],
           decision'[m] \in {"none", "pinning"},
           decision'[m] = "none" => \A p \in PendingGates(r.suspensions) : p.node = m => p.gate \notin resolved',
           decision'[m] = "pinning" => \E p \in PendingGates(r.suspensions) : p.node = m /\ p.gate \in resolved' /\ ~ p.budget
    PROVE  Exact(q, m)'
<1>1. /\ task'[m] = "idle" /\ q.node[m] = r.node[m] /\ r.node[m] \in {"none", "paused", "completed", "failed", "skipped"}
      /\ q.lives[m] = r.lives[m] /\ q.suspensions.media[m] = r.suspensions.media[m]
      /\ Sound(r) /\ pendingGates' = PendingGates(r.suspensions)
  BY DEF Seeds, SameAt, Sound, Form, IsRecord, NodeStates
<1>2. \A p, k \in pendingGates' : p.node = m /\ k.node = m => p = k
  BY <1>1, WaitingOnce
<1>3. \A p \in pendingGates' : p.node = m => r.node[m] = "paused"
  BY <1>1, WaitingGate
<1>4. ASSUME NEW p \in pendingGates', p.node = m PROVE PausedForGate(q, m, p)'
  <2>1. p \in PendingGates(r.suspensions)
    BY <1>1
  <2>2. /\ p.gate \in DOMAIN GatesOf(r) /\ GatesOf(r)[p.gate].node = m /\ GatesOf(r)[p.gate].active
        /\ GatesOf(r)[p.gate].budget = p.budget /\ GatesOf(r)[p.gate].allowance = p.allowance
    BY <1>1, <1>4, <2>1, WaitingGate
  <2>3. p.gate \in DOMAIN GatesOf(q) /\ GatesOf(q)[p.gate] = GatesOf(r)[p.gate]
    BY <2>2 DEF SameAt
  <2>4. CASE decision'[m] = "none"
    BY <1>1, <1>4, <2>1, <2>2, <2>3, <2>4 DEF PausedForGate
  <2>5. CASE decision'[m] = "pinning"
    <3>1. p.gate \in resolved' /\ ~ p.budget
      BY <1>1, <1>2, <1>4, <2>1, <2>5
    <3>2. ~ GatesOf(q)[p.gate].budget
      BY <2>2, <2>3, <3>1
    <3> QED BY <1>1, <2>2, <2>3, <2>5, <3>1, <3>2 DEF PausedForGate
  <2> QED BY <2>4, <2>5
<1>5. ASSUME r.node[m] = "paused", \A p \in pendingGates' : p.node # m PROVE PausedForJob(q, m)'
  <2>1. r.suspensions.media[m] # NoJob
    <3> SUFFICES ASSUME r.suspensions.media[m] = NoJob PROVE FALSE
      OBVIOUS
    <3>1. PICK g \in DOMAIN GatesOf(r) : GatesOf(r)[g].active /\ GatesOf(r)[g].node = m
      BY <1>1, <1>5 DEF Sound, VertexSound
    <3>2. ~ IsResolved(GatesOf(r)[g])
      BY <1>1, <3>1 DEF Sound, GateSound
    <3>3. PICK p : p = [gate |-> g, node |-> GatesOf(r)[g].node, budget |-> GatesOf(r)[g].budget,
                        allowance |-> GatesOf(r)[g].allowance]
      OBVIOUS
    <3>4. p \in PendingGates(r.suspensions)
      BY <3>1, <3>2, <3>3 DEF PendingGates, GatesOf
    <3> QED BY <1>1, <1>5, <3>1, <3>3, <3>4
  <2>2. decision'[m] = "none"
    BY <1>1, <1>5
  <2> QED BY <1>1, <2>1, <2>2 DEF PausedForJob
<1>6. status'[m] = "paused" <=> r.node[m] = "paused"
  BY <1>1
<1>7. status'[m] = "paused" =>
        \/ \E p \in pendingGates' : p.node = m /\ PausedForGate(q, m, p)'
        \/ (\A p \in pendingGates' : p.node # m) /\ PausedForJob(q, m)'
  BY <1>4, <1>5, <1>6
<1>8. status'[m] # "paused" => decision'[m] = "none" /\ \A p \in pendingGates' : p.node # m
  BY <1>1, <1>3, <1>6
<1>9. leg' = "live" => jobs'[m] = q.suspensions.media[m]
  BY <1>1
<1>10. m \in Timed =>
        /\ status'[m] = "pending" => startedAt'[m] = IF q.lives[m].budgetContinuation THEN q.lives[m].startedAt ELSE 0
        /\ status'[m] = "paused" => startedAt'[m] = q.lives[m].startedAt
  <2>1. status'[m] = "pending" <=> r.node[m] = "none"
    BY <1>1
  <2> QED BY <1>1, <1>6, <2>1, SeededClock
<1>11. status'[m] # "running" /\ (status'[m] = "failed" => q.node[m] = "failed")
  BY <1>1
<1> QED BY <1>1, <1>2, <1>7, <1>8, <1>9, <1>10, <1>11 DEF Exact

(* What a living process made from r is tied to. *)
LEMMA SeededTied ==
    ASSUME CheckpointConstants, NEW r, Seeds(r), NEW q, ~ q.suspensions.terminalRun,
           q.dispatches = r.dispatches, q.selected = r.selected,
           \A m \in Node : VertexTied(q, m)',
           ~ Stopping' => /\ \A m \in Node : Exact(q, m)'
                          /\ resolved' \subseteq DOMAIN GatesOf(q)
                          /\ BudgetRejections(q.suspensions) # {} => Deciders' # {}
    PROVE  Tied(q)'
<1>1. EntriesDiffer'
  BY DEF Seeds, EntriesDiffer, Working
<1>2. \A p \in pendingGates' : IsGateRecord(p)
  BY WaitingGate DEF Seeds, IsGateRecord
<1>3. dispatches' = q.dispatches /\ chosen' = q.selected
  BY DEF Seeds
<1> QED BY <1>1, <1>2, <1>3 DEF Tied, IsGateRecord, Deciders

(* The status of each vertex in the process is its fate in the record. *)
LEMMA RestoredAt ==
    ASSUME NEW r, Sound(r), r = rec
    PROVE  Restored = [m \in Node |-> IF r.node[m] = "none" THEN "pending" ELSE r.node[m]]
BY DEF Restored

(* The gates that are answered are gates of the record. *)
LEMMA AnsweredKnown ==
    ASSUME NEW r, r = rec
    PROVE  Answered \subseteq DOMAIN GatesOf(r) /\ Answered = ResolvedGateIds(r.suspensions)
BY DEF Answered, ResolvedGateIds, GatesOf

(* An answer of a person, a second delivery, or a poll: nothing is written. *)
LEMMA ActivatedHistory ==
    ASSUME CheckpointConstants, NEW r, Seeds(r), NEW except, Activated(except),
           \/ resolved' = Answered /\ decision' = NoDecision
           \/ \E p \in Waiting : /\ ~ p.budget /\ resolved' = Answered \cup {p.gate}
                                 /\ decision' = [NoDecision EXCEPT ![p.node] = "pinning"],
           Stopping' \/ ~ Rejected
    PROVE  History'
<1>1. /\ leg' = "live" /\ tail' = <<>> /\ rec' = r /\ r = rec /\ Sound(r) /\ ~ r.suspensions.terminalRun
      /\ Waiting = PendingGates(r.suspensions)
  BY DEF Activated, Seeds, Waiting
<1>2. \A m \in Node : /\ status'[m] = IF r.node[m] = "none" THEN "pending" ELSE r.node[m]
                      /\ jobs'[m] = r.suspensions.media[m]
  BY <1>1, RestoredAt DEF Activated
<1>3. \A m \in Node : VertexTied(r, m)'
  BY <1>2, SameSelf, SeededVertex
<1>4. ASSUME NEW m \in Node PROVE Exact(r, m)'
  <2>1. CASE resolved' = Answered /\ decision' = NoDecision
    <3>1. decision'[m] = "none"
      BY <2>1 DEF NoDecision
    <3>2. \A p \in PendingGates(r.suspensions) : p.gate \notin resolved'
      BY <1>1, <2>1, WaitingGate, AnsweredKnown
    <3> QED BY <1>2, <3>1, <3>2, SameSelf, SeededExact
  <2>2. CASE \E p \in Waiting : /\ ~ p.budget /\ resolved' = Answered \cup {p.gate}
                                /\ decision' = [NoDecision EXCEPT ![p.node] = "pinning"]
    <3>1. PICK p \in Waiting : /\ ~ p.budget /\ resolved' = Answered \cup {p.gate}
                               /\ decision' = [NoDecision EXCEPT ![p.node] = "pinning"]
      BY <2>2
    <3>2. decision'[m] = IF m = p.node THEN "pinning" ELSE "none"
      BY <3>1 DEF NoDecision
    <3>3. CASE m = p.node
      <4>1. decision'[m] = "pinning" /\ p \in PendingGates(r.suspensions) /\ p.gate \in resolved'
        BY <1>1, <3>1, <3>2, <3>3
      <4> QED BY <1>2, <3>1, <3>3, <4>1, SameSelf, SeededExact
    <3>4. CASE m # p.node
      <4>1. ASSUME NEW k \in PendingGates(r.suspensions), k.node = m PROVE k.gate \notin resolved'
        <5>1. k.gate \notin Answered
          BY <1>1, WaitingGate, AnsweredKnown
        <5>2. k.gate # p.gate
          BY <1>1, <3>4, <4>1, WaitingOnce
        <5> QED BY <3>1, <5>1, <5>2
      <4>2. decision'[m] = "none"
        BY <3>2, <3>4
      <4> QED BY <1>2, <4>1, <4>2, SameSelf, SeededExact
    <3> QED BY <3>3, <3>4
  <2> QED BY <2>1, <2>2
<1>5. resolved' \subseteq DOMAIN GatesOf(r)
  BY <1>1, WaitingGate, AnsweredKnown
<1>6. ~ Stopping' => BudgetRejections(r.suspensions) = {}
  BY <1>1 DEF Rejected
<1>7. Tied(r)'
  BY <1>1, <1>3, <1>4, <1>5, <1>6, SeededTied
<1> QED BY <1>1, <1>7, AloneHistory

(* The process is made to answer a human gate (resumeGate). *)
LEMMA ResumeHumanHistory ==
    ASSUME CheckpointConstants, NEW r, Seeds(r), NEW p \in Waiting, ResumeHuman(p)
    PROVE  History'
BY ActivatedHistory DEF ResumeHuman

(* It is made by a second delivery of an answer the log already has. *)
LEMMA ResumeAnsweredHistory ==
    ASSUME CheckpointConstants, NEW r, Seeds(r), NEW g, ResumeAnswered(g)
    PROVE  History'
BY ActivatedHistory DEF ResumeAnswered

(* It is made to poll the media jobs (resumeMedia). *)
LEMMA ResumeMediaHistory ==
    ASSUME CheckpointConstants, NEW r, Seeds(r), ResumeMedia
    PROVE  History'
<1>1. Stopping' \/ ~ Rejected
  BY DEF ResumeMedia, Stopping
<1> QED BY <1>1, ActivatedHistory DEF ResumeMedia

-----------------------------------------------------------------------------
(* A decision on money: it is written first. *)

(* It is made to decide on money: budget:authorization is written first, and
   the story has two records. *)
LEMMA ResumeBudgetHistory ==
    ASSUME CheckpointConstants, NEW r, Seeds(r), NEW p \in Waiting, NEW d \in {"approved", "rejected"}, ResumeBudget(p, d)
    PROVE  History'
<1>1. PICK g, n, e, q, h : /\ g = p.gate /\ n = p.node /\ e = GateEvent("budget:authorization", p, d)
                           /\ q = ApplyEvent(r, e) /\ h = GatesOf(r)[g]
  OBVIOUS
<1>2. /\ leg' = "passive" /\ tail' = <<e>> /\ rec' = r /\ r = rec /\ Sound(r) /\ ~ r.suspensions.terminalRun
      /\ p.budget /\ ~ Rejected /\ failure' = FALSE /\ cancelling' = FALSE
      /\ resolved' = Answered \cup {g} /\ decision' = [NoDecision EXCEPT ![n] = Deciding(d)]
      /\ p \in PendingGates(r.suspensions) /\ pendingGates' = PendingGates(r.suspensions)
  BY <1>1 DEF ResumeBudget, Seeded, Seeds, Waiting
<1>3. /\ g \in DOMAIN GatesOf(r) /\ h.node = n /\ h.active /\ h.budget = p.budget /\ h.allowance = p.allowance
      /\ n \in Node /\ r.node[n] = "paused" /\ p.allowance = "frozen"
  BY <1>1, <1>2, WaitingGate
<1>4. e.type = "budget:authorization" /\ e.decision = d /\ e.node = n /\ e.gate = g /\ e.allowance = "frozen"
  BY <1>1, <1>3 DEF GateEvent
<1>5. Sound(q) /\ Judged(r, q, n, g, d)
  <2>1. h.budget
    BY <1>2, <1>3
  <2>2. q = ApplyEvent(r, e) /\ h = GatesOf(r)[g]
    BY <1>1
  <2>3. Sound(r) /\ ~ r.suspensions.terminalRun /\ n \in Node /\ g \in DOMAIN GatesOf(r) /\ h.node = n /\ h.active
    BY <1>2, <1>3
  <2> QED BY <1>4, <2>1, <2>2, <2>3, DecidedFold
<1>6. /\ Spares(r, q, n)
      /\ q.node = [r.node EXCEPT ![n] = IF d = "approved" THEN "none" ELSE "failed"]
      /\ q.selected = r.selected /\ q.dispatches = r.dispatches
      /\ q.suspensions.media = r.suspensions.media /\ q.suspensions.terminalRun = r.suspensions.terminalRun
      /\ DOMAIN GatesOf(q) = DOMAIN GatesOf(r)
      /\ GatesOf(q)[g].node = n /\ GatesOf(q)[g].budget /\ GatesOf(q)[g].allowance = "frozen"
      /\ GatesOf(q)[g].authorityDecision = d /\ GatesOf(q)[g].humanDecision = "none"
      /\ d = "approved" => /\ q.lives[n].budgetContinuation /\ q.lives[n].startedAt = r.lives[n].startedAt
                           /\ BudgetRejections(q.suspensions) = BudgetRejections(r.suspensions)
  BY <1>5 DEF Judged
<1>7. \A m \in Node : status'[m] = IF r.node[m] = "none" THEN "pending" ELSE r.node[m]
  BY <1>2, RestoredAt DEF ResumeBudget
<1>8. /\ decision'[n] = IF d = "approved" THEN "approving" ELSE "rejecting"
      /\ \A m \in Node : m # n => decision'[m] = "none"
  BY <1>2, <1>3 DEF NoDecision, Deciding
<1>9. q.node[n] = (IF d = "approved" THEN "none" ELSE "failed") /\ task'[n] = "idle" /\ status'[n] = "paused"
  <2>1. r.node = [m \in Node |-> r.node[m]]
    BY <1>2 DEF Sound, Form, IsRecord
  <2>2. q.node[n] = IF d = "approved" THEN "none" ELSE "failed"
    BY <1>3, <1>6, <2>1
  <2>3. task'[n] = "idle"
    BY <1>3 DEF Seeds
  <2>4. status'[n] = "paused"
    BY <1>3, <1>7
  <2> QED BY <2>2, <2>3, <2>4
<1>10. ASSUME NEW m \in Node PROVE VertexTied(q, m)'
  <2>1. CASE m = n
    BY <1>9, <2>1 DEF VertexTied, Working
  <2>2. CASE m # n
    BY <1>6, <1>7, <2>2, SameSpared, SeededVertex
  <2> QED BY <2>1, <2>2
<1>11. Exact(q, n)'
  <2>1. PausedForGate(q, n, p)'
    <3>1. /\ p.gate = g /\ g \in DOMAIN GatesOf(q) /\ g \in resolved' /\ decision'[n] \in {"approving", "rejecting"}
          /\ GatesOf(q)[g].allowance = p.allowance
      BY <1>1, <1>2, <1>3, <1>6, <1>8
    <3>2. GatesOf(q)[g].budget = p.budget
      BY <1>1, <1>2, <1>3, <1>5, <1>6, WaitingGate DEF Sound, GateSound, Gate
    <3>3. CASE d = "approved"
      BY <1>6, <1>8, <1>9, <3>1, <3>2, <3>3 DEF PausedForGate
    <3>4. CASE d = "rejected"
      BY <1>6, <1>8, <1>9, <3>1, <3>2, <3>4 DEF PausedForGate
    <3> QED BY <3>3, <3>4
  <2>2. \A k \in pendingGates' : k.node = n => k = p
    BY <1>1, <1>2, WaitingOnce
  <2>3. n \in Timed /\ d = "approved" => startedAt'[n] = q.lives[n].startedAt
    BY <1>3, <1>6, SeededClock
  <2> QED BY <1>1, <1>2, <1>8, <1>9, <2>1, <2>2, <2>3 DEF Exact
<1>12. ASSUME NEW m \in Node PROVE Exact(q, m)'
  <2>1. CASE m = n
    BY <1>11, <2>1
  <2>2. CASE m # n
    <3>1. ASSUME NEW k \in PendingGates(r.suspensions), k.node = m PROVE k.gate \notin resolved'
      <4>1. k.gate \notin Answered
        BY <1>2, WaitingGate, AnsweredKnown
      <4>2. k.gate # g
        BY <1>1, <1>2, <2>2, <3>1, WaitingOnce
      <4> QED BY <1>2, <4>1, <4>2
    <3>2. decision'[m] = "none" /\ leg' # "live" /\ SameAt(r, q, m)
      BY <1>2, <1>6, <1>8, <2>2, SameSpared
    <3> QED BY <1>7, <3>1, <3>2, SeededExact
  <2> QED BY <2>1, <2>2
<1>13. resolved' \subseteq DOMAIN GatesOf(q)
  BY <1>2, <1>3, <1>6, AnsweredKnown
<1>14. BudgetRejections(q.suspensions) # {} => Deciders' # {}
  <2>1. CASE d = "approved"
    BY <1>2, <1>6, <2>1 DEF Rejected
  <2>2. CASE d = "rejected"
    <3>1. n \in Deciders'
      BY <1>3, <1>8, <2>2 DEF Deciders
    <3> QED BY <3>1
  <2> QED BY <2>1, <2>2
<1>15. Tied(q)'
  BY <1>2, <1>6, <1>10, <1>12, <1>13, <1>14, SeededTied
<1>16. Told(r, e)
  BY <1>2, <1>4 DEF Told
<1>17. \E k : Story(k)' /\ k[Len(tail')] = q
  BY <1>1, <1>2, <1>5, <1>6, <1>16, StoryOfTwo
<1> QED BY <1>15, <1>17 DEF History

-----------------------------------------------------------------------------
(* Only the end is written. *)

(* The record already rules out that the run goes on: only its end is
   written. *)
LEMMA ResumeEndsHistory ==
    ASSUME CheckpointConstants, NEW r, Seeds(r), NEW type \in {"run:failed", "run:cancelled"}, ResumeEnds(type)
    PROVE  History'
<1>1. PICK e, q : e = RunEvent(type) /\ q = ApplyEvent(r, e)
  OBVIOUS
<1>2. /\ leg' = "settled" /\ tail' = <<e>> /\ rec' = r /\ Sound(r) /\ ~ r.suspensions.terminalRun
      /\ e.type = type /\ e.node = NoNode
  BY <1>1 DEF ResumeEnds, Seeds, RunEvent
<1>3. Sound(q)
  BY <1>1, <1>2, RunFold DEF RunTerminals
<1>4. Told(r, e)
  BY <1>2 DEF Told
<1>5. \E k : Story(k)' /\ k[Len(tail')] = q
  BY <1>1, <1>2, <1>3, <1>4, StoryOfTwo
<1> QED BY <1>2, <1>5 DEF History, Active

(* A clock that ran out while the run was down. *)
LEMMA ResumeOverdueHistory ==
    ASSUME CheckpointConstants, NEW r, Seeds(r), NEW n \in Node, ResumeOverdue(n)
    PROVE  History'
<1>1. PICK e, q : e = NodeEvent("node:failed", n) /\ q = ApplyEvent(r, e)
  OBVIOUS
<1>2. /\ rec' = r /\ r = rec /\ Sound(r) /\ ~ r.suspensions.terminalRun /\ r.node[n] \in {"none", "paused"}
      /\ e.type = "node:failed" /\ e.node = n
  BY <1>1 DEF ResumeOverdue, Seeds, NodeEvent
<1>3. Told(r, e)
  BY <1>2 DEF Told
<1>4. /\ Sound(q) /\ Spares(r, q, n) /\ q.node = [r.node EXCEPT ![n] = OverAs(e.type)]
      /\ q.dispatches = r.dispatches /\ q.selected = r.selected
      /\ q.suspensions.terminalRun = r.suspensions.terminalRun
  <2>1. e.type \in NodeTerminals /\ (e.type = "node:completed" /\ n \notin Conditions => e.selected = {})
    BY <1>2 DEF NodeTerminals
  <2>2. e.type # "node:completed"
    BY <1>2
  <2>3. /\ Sound(q) /\ Spares(r, q, n) /\ q.node = [r.node EXCEPT ![n] = OverAs(e.type)]
        /\ q.dispatches = r.dispatches
        /\ q.selected = IF e.type = "node:completed" THEN [r.selected EXCEPT ![n] = e.selected] ELSE r.selected
        /\ q.suspensions.terminalRun = r.suspensions.terminalRun
    <3>1. e.node = n /\ q = ApplyEvent(r, e) /\ Sound(r)
      BY <1>1, <1>2
    <3> QED BY ONLY CheckpointConstants, n \in Node, <2>1, <3>1, OverFold
  <2> QED BY <2>2, <2>3
<1>5. CASE GateRequest /\ leg' = "settled" /\ tail' = <<NodeEvent("node:failed", n), RunEvent("run:failed")>>
  <2>1. PICK f, t : f = RunEvent("run:failed") /\ t = ApplyEvent(q, f)
    OBVIOUS
  <2>2. f.type = "run:failed" /\ f.node = NoNode
    BY <2>1 DEF RunEvent
  <2>3. Sound(t) /\ Told(q, f)
    <3>1. Sound(t)
      BY <1>2, <1>4, <2>1, <2>2, RunFold DEF RunTerminals
    <3>2. Told(q, f)
      BY <1>2, <1>4, <2>2 DEF Told
    <3> QED BY <3>1, <3>2
  <2>4. \E k : Story(k)'
    BY <1>1, <1>2, <1>3, <1>4, <1>5, <2>1, <2>3, StoryOfThree
  <2> QED BY <1>5, <2>4 DEF History, Active
<1>6. CASE leg' = "live" /\ tail' = <<NodeEvent("node:failed", n)>>
  <2>1. Stopping' /\ status' = [Restored EXCEPT ![n] = "failed"]
    BY DEF ResumeOverdue, Stopping
  <2>2. \A m \in Node : m # n => status'[m] = IF r.node[m] = "none" THEN "pending" ELSE r.node[m]
    BY <1>2, <2>1, RestoredAt
  <2>3. status'[n] = "failed" /\ q.node[n] = "failed" /\ task'[n] = "idle"
    BY <1>2, <1>4, <2>1, RestoredAt DEF Seeds, OverAs, Sound, Form, IsRecord
  <2>4. ASSUME NEW m \in Node PROVE VertexTied(q, m)'
    <3>1. CASE m = n
      BY <2>3, <3>1 DEF VertexTied, Working
    <3>2. CASE m # n
      BY <1>4, <2>2, <3>2, SameSpared, SeededVertex
    <3> QED BY <3>1, <3>2
  <2>5. Tied(q)'
    <3>1. \A m \in Node : VertexTied(q, m)'
      BY <2>4
    <3>2. ~ q.suspensions.terminalRun
      BY <1>2, <1>4
    <3> QED BY <1>4, <2>1, <3>1, <3>2, SeededTied
  <2>6. \E k : Story(k)' /\ k[Len(tail')] = q
    BY <1>1, <1>2, <1>3, <1>4, <1>6, StoryOfTwo
  <2> QED BY <2>5, <2>6 DEF History
<1> QED BY <1>5, <1>6 DEF ResumeOverdue

(* What a new process is made from. *)
LEMMA DownSound ==
    ASSUME NEW h, Story(h), leg = "down"
    PROVE  Sound(rec) /\ tail = <<>>
BY DEF Story

(* Every step keeps the clocks and counters numbers. *)
LEMMA ShapesStep ==
    ASSUME CheckpointConstants, Types, Shapes, NEW h, Story(h), [Next]_vars
    PROVE  Shapes'
<1>1. ASSUME Seeded PROVE Shapes'
  <2>1. Sound(rec)
    BY <1>1, DownSound DEF Seeded
  <2>2. \A m \in Node : rec.lives[m].startedAt \in Nat
    BY <2>1 DEF Sound, Form, Life
  <2>3. /\ attempt' = [m \in Node |-> 0] /\ entry' = [m \in Node |-> 0]
        /\ startedAt' = [m \in Node |-> IF m \in ClockBearers THEN rec.lives[m].startedAt ELSE 0]
    BY <1>1 DEF Seeded
  <2>4. startedAt' \in [Node -> Nat]
    BY <2>2, <2>3
  <2> QED BY <2>3, <2>4 DEF Shapes
<1>2. CASE UNCHANGED counted
  BY <1>2 DEF Shapes, counted
<1>3. ASSUME NEW n \in Node, NEW x \in Nat, Dispatch(n, x) PROVE Shapes'
  BY <1>3 DEF Dispatch, Shapes, Types, TypeOK
<1>4. ASSUME NEW n \in Node, Execute(n) PROVE Shapes'
  <2>1. CASE Claim(n)
    BY <1>3, <2>1 DEF Claim
  <2>2. CASE Enter(n)
    <3>1. UNCHANGED <<attempt, entry>>
      BY <2>2 DEF Enter
    <3>2. startedAt' = startedAt \/ startedAt' = [startedAt EXCEPT ![n] = IF n \in Timed /\ startedAt[n] = 0 THEN entry[n] ELSE startedAt[n]]
      BY <2>2 DEF Enter
    <3> QED BY <3>1, <3>2 DEF Shapes
  <2>3. CASE Redispatch(n)
    <3>1. UNCHANGED counted \/ Dispatch(n, attempt[n] + 1)
      BY <2>3 DEF Redispatch
    <3>2. attempt[n] + 1 \in Nat
      BY DEF Shapes
    <3> QED BY <1>2, <1>3, <3>1, <3>2
  <2>4. CASE Skip(n) \/ Complete(n) \/ AttemptFails(n) \/ NodeDeadline(n) \/ PauseAtGate(n) \/ PauseForBudget(n)
             \/ Publish(n) \/ Announced(n) \/ Park(n) \/ MediaDone(n) \/ MediaPinned(n) \/ MediaFails(n)
    <3>1. UNCHANGED counted
      BY <2>4 DEF Skip, Complete, AttemptFails, NodeDeadline, PauseAtGate, PauseForBudget, Opens, Publish, Announced,
         Park, MediaDone, MediaPinned, MediaFails
    <3> QED BY <1>2, <3>1
  <2> QED BY <1>4, <2>1, <2>2, <2>3, <2>4 DEF Execute
<1>5. CASE Decide
  <2>1. UNCHANGED counted
    BY <1>5 DEF Decide, ClaimHuman, GateTimeout, ClaimBudget, HumanDecided, PinFails, BudgetRecorded, BudgetApplied
  <2> QED BY <1>2, <2>1
<1>6. CASE Cancel \/ CeilingReached \/ PauseRun \/ Stall \/ Settle \/ AppendEvent \/ Reconcile \/ Done \/ UNCHANGED vars
  <2>1. UNCHANGED counted
    BY <1>6 DEF Cancel, CeilingReached, PauseRun, Stall, Settle, AppendEvent, Reconcile, Done, vars
  <2> QED BY <1>2, <2>1
<1>7. CASE Crash
  BY <1>7 DEF Crash, BlankLeg, Shapes
<1>8. CASE Resume
  <2>1. Seeded
    BY <1>8 DEF Resume, ResumeHuman, ResumeBudget, ResumeAnswered, ResumeMedia, ResumeEnds, ResumeOverdue
  <2> QED BY <1>1, <2>1
<1> QED BY <1>4, <1>5, <1>6, <1>7, <1>8 DEF Next

-----------------------------------------------------------------------------
(* Steps about the run that is under way. *)

(* The steps of #execute keep the invariant, one by one. *)
LEMMA ExecuteHistory ==
    ASSUME CheckpointConstants, TailFree, NEW h, Story(h), NEW a, a = h[Len(tail)], Ready(a), NEW n \in Node, Execute(n)
    PROVE  History'
<1>1. Goes(a, n)
  BY SkipGoes, ClaimGoes, EnterGoes, CompleteGoes, AttemptFailsGoes, RedispatchGoes, NodeDeadlineGoes, PauseAtGateGoes,
     PauseForBudgetGoes, PublishGoes, AnnouncedGoes, ParkGoes, MediaDoneGoes, MediaPinnedGoes, MediaFailsGoes DEF Execute
<1> QED BY <1>1, GoesHistory

(* So do the decisions on gates and jobs. *)
LEMMA DecideHistory ==
    ASSUME CheckpointConstants, TailFree, NEW h, Story(h), NEW a, a = h[Len(tail)], Ready(a), Decide
    PROVE  History'
<1>1. ASSUME NEW p \in pendingGates, ClaimHuman(p) \/ GateTimeout(p) \/ \E d \in {"approved", "rejected"} : ClaimBudget(p, d)
      PROVE  Goes(a, p.node)
  <2>1. PICK n : n = p.node
    OBVIOUS
  <2> QED BY <1>1, <2>1, ClaimHumanGoes, GateTimeoutGoes, ClaimBudgetGoes
<1>2. ASSUME NEW n \in Node, HumanDecided(n) \/ PinFails(n) \/ BudgetRecorded(n) \/ BudgetApplied(n)
      PROVE  Goes(a, n)
  BY <1>2, HumanDecidedGoes, PinFailsGoes, BudgetRecordedGoes, BudgetAppliedGoes
<1>3. CASE \E p \in pendingGates : ClaimHuman(p) \/ GateTimeout(p) \/ \E d \in {"approved", "rejected"} : ClaimBudget(p, d)
  <2>1. PICK p \in pendingGates : ClaimHuman(p) \/ GateTimeout(p) \/ \E d \in {"approved", "rejected"} : ClaimBudget(p, d)
    BY <1>3
  <2>2. PICK n : n = p.node
    OBVIOUS
  <2>3. Goes(a, n)
    BY <1>1, <2>1, <2>2
  <2> QED BY <2>3, GoesHistory
<1>4. CASE \E n \in Node : HumanDecided(n) \/ PinFails(n) \/ BudgetRecorded(n) \/ BudgetApplied(n)
  <2>1. PICK n \in Node : Goes(a, n)
    BY <1>2, <1>4
  <2> QED BY <2>1, GoesHistory
<1> QED BY <1>3, <1>4 DEF Decide

(* So does each way a new process takes a run over. *)
LEMMA ResumeHistory ==
    ASSUME CheckpointConstants, Types, Shapes, NEW h, Story(h), Resume
    PROVE  History'
<1>1. Seeded
  BY DEF Resume, ResumeHuman, ResumeBudget, ResumeAnswered, ResumeMedia, ResumeEnds, ResumeOverdue
<1>2. PICK r : r = rec
  OBVIOUS
<1>3. Seeds(r)
  BY <1>1, <1>2, SeedFacts
<1> QED BY <1>3, ResumeHumanHistory, ResumeBudgetHistory, ResumeAnsweredHistory, ResumeMediaHistory, ResumeEndsHistory,
       ResumeOverdueHistory DEF Resume

(* Every step keeps the invariant. *)
LEMMA HistoryStep ==
    ASSUME CheckpointConstants, CheckpointInv, Shapes, History, [Next]_vars
    PROVE  History'
<1>1. PICK h : Story(h) /\ (Active => Tied(h[Len(tail)]))
  BY DEF History
<1>2. PICK a : a = h[Len(tail)]
  OBVIOUS
<1>3. Types /\ TailFree /\ JobsElsewhere /\ Len(tail) \in Nat
  BY DEF CheckpointInv, TailFree
<1>4. Active => Ready(a)
  BY <1>1, <1>2, <1>3, StoryReady
<1>5. ASSUME NEW n \in Node, Execute(n) PROVE History'
  <2>1. Active
    BY <1>5 DEF Execute, Skip, Claim, Enter, Complete, AttemptFails, Redispatch, NodeDeadline, PauseAtGate, PauseForBudget,
       Publish, Announced, Park, MediaDone, MediaPinned, MediaFails, Polled, Decides, Pass, Active
  <2> QED BY <1>1, <1>2, <1>3, <1>4, <1>5, <2>1, ExecuteHistory
<1>6. CASE Decide
  <2>1. Active
    BY <1>6 DEF Decide, ClaimHuman, GateTimeout, ClaimBudget, HumanDecided, PinFails, BudgetRecorded, BudgetApplied, Active
  <2> QED BY <1>1, <1>2, <1>3, <1>4, <1>6, <2>1, DecideHistory
<1>7. CASE Cancel \/ CeilingReached \/ Stall
  <2>1. Active
    BY <1>7 DEF Cancel, CeilingReached, Stall, Idle, Decides, Pass, Active
  <2> QED BY <1>1, <1>2, <1>3, <1>4, <1>7, <2>1, StoppingGoes, GoesHistory
<1>8. CASE PauseRun
  <2>1. Active
    BY <1>8 DEF PauseRun, Idle, Decides, Pass, Active
  <2> QED BY <1>1, <1>2, <1>3, <1>4, <1>8, <2>1, PauseRunGoes, GoesHistory
<1>9. CASE Settle
  <2>1. Active
    BY <1>9 DEF Settle, Pass, Active
  <2> QED BY <1>1, <1>2, <1>3, <1>4, <1>9, <2>1, SettleHistory
<1>10. CASE AppendEvent
  BY <1>1, <1>3, <1>10, AppendHistory
<1>11. CASE Crash
  BY <1>1, <1>3, <1>11, CrashHistory
<1>12. CASE Reconcile
  BY <1>1, <1>12, ReconcileHistory
<1>13. CASE Resume
  BY <1>1, <1>3, <1>13, ResumeHistory
<1>14. CASE Done \/ UNCHANGED vars
  <2>1. UNCHANGED vars
    BY <1>14 DEF Done
  <2>2. /\ UNCHANGED <<rec, tail, leg, status, chosen, task, dispatches, entry, attempt, startedAt, pendingGates, resolved,
                       decision, jobs, failure, cancelling>>
    BY <2>1 DEF vars, counted, waiting, fate
  <2>3. Story(h)'
    BY <1>1, <2>2 DEF Story, Stopping
  <2>4. Active' => Tied(a)'
    BY <1>1, <1>2, <2>2, TiedKept DEF Active
  <2>5. h[Len(tail')] = a
    BY <1>2, <2>2
  <2> QED BY <2>3, <2>4, <2>5 DEF History
<1> QED BY <1>5, <1>6, <1>7, <1>8, <1>9, <1>10, <1>11, <1>12, <1>13, <1>14 DEF Next

(* The record of a run nothing is known of. *)
LEMMA NoRecordSound ==
    ASSUME CheckpointConstants, IsRecord(NoRecord)
    PROVE  Sound(NoRecord) /\ GatesOf(NoRecord) = <<>> /\ DOMAIN GatesOf(NoRecord) = {}
<1> DEFINE r == NoRecord
<1>1. /\ r.run = "running" /\ r.node = [n \in Node |-> "none"] /\ r.selected = [n \in Node |-> {}]
      /\ r.dispatches = 0 /\ r.suspensions = NoSuspension /\ r.lives = [n \in Node |-> NoLife]
  BY DEF NoRecord
<1>2. /\ GatesOf(r) = <<>> /\ r.suspensions.media = [n \in Node |-> NoJob]
      /\ r.suspensions.terminalNodes = {} /\ ~ r.suspensions.terminalRun /\ ~ r.suspensions.corrupt
  BY <1>1 DEF NoSuspension, GatesOf
<1>3. DOMAIN <<>> = {} /\ <<>> = [g \in DOMAIN <<>> |-> <<>>[g]]
  OBVIOUS
<1>4. NoLife \in Life /\ ~ NoLife.valid /\ ~ NoLife.budgetContinuation
  BY DEF NoLife, NewLife, Life
<1> HIDE DEF r
<1>5. Form(r)
  <2>1. r.lives \in [Node -> Life]
    BY <1>1, <1>4
  <2>2. GatesOf(r) = [g \in DOMAIN GatesOf(r) |-> GatesOf(r)[g]] /\ DOMAIN GatesOf(r) = {}
    BY <1>2, <1>3
  <2>3. IsRecord(r)
    BY DEF r
  <2> QED BY <1>1, <1>2, <2>1, <2>2, <2>3 DEF Form
<1>6. OneGateEach(r) /\ \A g \in DOMAIN GatesOf(r) : GateSound(r, g)
  BY <1>2, <1>3 DEF OneGateEach
<1>7. ASSUME NEW n \in Node PROVE VertexSound(r, n)
  <2>1. r.lives[n] = NoLife /\ r.node[n] = "none" /\ r.suspensions.media[n] = NoJob /\ NoJob \in Nat
    BY <1>1, <1>2 DEF NoJob
  <2> QED BY <1>2, <1>4, <2>1 DEF VertexSound
<1> QED BY <1>2, <1>3, <1>5, <1>6, <1>7 DEF Sound, r

(* A run nothing is known of begins its story. *)
LEMMA HistoryStart ==
    ASSUME CheckpointConstants, Init
    PROVE  Shapes /\ History
<1>1. Shapes
  BY DEF Init, Shapes
<1>2. PICK r, k : r = NoRecord /\ k = [i \in 0 .. 0 |-> r]
  OBVIOUS
<1>3. IsRecord(NoRecord)
  BY CheckpointStart DEF CheckpointInv, Types, Init
<1>4. /\ Sound(r) /\ DOMAIN GatesOf(r) = {} /\ rec = r /\ tail = <<>> /\ leg = "live"
      /\ ~ r.suspensions.terminalRun /\ r.dispatches = 0 /\ r.selected = [n \in Node |-> {}]
      /\ \A n \in Node : /\ r.node[n] = "none" /\ r.suspensions.media[n] = NoJob
                         /\ r.lives[n] = NoLife /\ ~ r.lives[n].budgetContinuation
  BY <1>2, <1>3, NoRecordSound DEF Init, NoRecord, NoSuspension, NoLife, NewLife
<1>5. Len(tail) = 0 /\ k[0] = r /\ k = [i \in 0 .. Len(tail) |-> k[i]] /\ (\A i \in 0 .. Len(tail) : k[i] = r)
      /\ ~ \E i \in 1 .. Len(tail) : TRUE
  BY <1>2, <1>4
<1>6. Story(k)
  BY <1>4, <1>5 DEF Story
<1>7. BudgetRejections(r.suspensions) = {}
  BY <1>4 DEF BudgetRejections, GatesOf
<1>8. ASSUME NEW n \in Node PROVE VertexTied(r, n)
  BY <1>4 DEF VertexTied, Init, Working
<1>9. ASSUME NEW n \in Node PROVE Exact(r, n)
  BY <1>4 DEF Exact, Init
<1>10. EntriesDiffer /\ pendingGates = {} /\ resolved = {} /\ dispatches = r.dispatches /\ chosen = r.selected
  BY <1>4 DEF EntriesDiffer, Init, Working
<1>11. Tied(r)
  BY <1>4, <1>7, <1>8, <1>9, <1>10 DEF Tied
<1> QED BY <1>1, <1>5, <1>6, <1>11 DEF History

(* The inductive invariant. *)
StoryInv == CheckpointInv /\ Shapes /\ History

(* The inductive invariant holds in every state of every run, for every plan,
   every retry budget, every number of deaths and every length of the log:
   the records the log goes through are sound, and a living process is tied
   to the last of them. *)
THEOREM StoryInvariant == Spec => []StoryInv
<1>1. Init => Shapes /\ History
  BY CheckpointConstants, HistoryStart
<1>2. CheckpointInv /\ Shapes /\ History /\ [Next]_vars => Shapes' /\ History'
  <2> SUFFICES ASSUME CheckpointInv, Shapes, History, [Next]_vars PROVE Shapes' /\ History'
    OBVIOUS
  <2>1. History'
    BY CheckpointConstants, HistoryStep
  <2>2. PICK h : Story(h)
    BY DEF History
  <2>3. Shapes'
    BY CheckpointConstants, <2>2, ShapesStep DEF CheckpointInv
  <2> QED BY <2>1, <2>3
<1>3. StoryInv <=> CheckpointInv /\ Shapes /\ History
  BY DEF StoryInv
<1> QED BY <1>1, <1>2, <1>3, CheckpointInvariant, PTL DEF Spec

(* What the invariant says of the log. *)
LEMMA HistorySound == ASSUME CheckpointInv, History PROVE Sound(rec)
<1>1. PICK h : Story(h)
  BY DEF History
<1>2. 0 \in 0 .. Len(tail)
  BY DEF CheckpointInv, TailFree
<1> QED BY <1>1, <1>2 DEF Story

(* A sound record can be read back: no contradiction, every gate that waits
   has a vertex parked there, and every vertex parked has what it waits for. *)
LEMMA SoundReadable ==
    ASSUME CheckpointConstants, Sound(rec)
    PROVE  ReadableHistory
<1>1. PICK r : r = rec
  OBVIOUS
<1>2. Sound(r)
  BY <1>1
<1>3. ASSUME NEW n \in ClockBearers PROVE r.lives[n].valid
  <2>1. n \in Timed /\ n \in Agents /\ n \in Node
    BY SoundAgents DEF ClockBearers, Agents
  <2>2. CASE \E p \in Waiting : p.node = n
    <3>1. r.node[n] = "paused"
      BY <1>1, <1>2, <2>2, WaitingGate DEF Waiting
    <3> QED BY <1>2, <2>1, <3>1 DEF Sound, VertexSound
  <2>3. CASE n \in PendingMediaJobs(rec.suspensions)
    BY <1>1, <1>2, <2>1, <2>3 DEF PendingMediaJobs, Sound, VertexSound
  <2>4. CASE rec.lives[n].budgetContinuation
    BY <1>1, <1>2, <2>1, <2>4 DEF Sound, VertexSound
  <2> QED BY <1>3, <2>2, <2>3, <2>4 DEF ClockBearers
<1> QED BY <1>1, <1>2, <1>3 DEF ReadableHistory, Sound, Form

(* Whatever the log holds, after any death and any resumption, the checkpoint
   fold reads it without a contradiction, so that a run is never stranded by
   its own history. *)
THEOREM HistoryReadable == Spec => []ReadableHistory
<1>1. StoryInv => ReadableHistory
  BY CheckpointConstants, HistorySound, SoundReadable DEF StoryInv
<1> QED BY <1>1, StoryInvariant, PTL

(* A run whose log holds a rejection of money never completes, whichever
   process finishes it. *)
THEOREM RejectionEndsRun == Spec => []RejectionIsFatal
<1>1. StoryInv => RejectionIsFatal
  <2> SUFFICES ASSUME StoryInv, NEW g \in BudgetRejections(rec.suspensions) PROVE rec.run # "completed"
    BY DEF RejectionIsFatal
  <2>1. g \in DOMAIN GatesOf(rec) /\ GateSound(rec, g)
    BY HistorySound DEF StoryInv, Sound, BudgetRejections, GatesOf
  <2>2. /\ GatesOf(rec)[g].budget
        /\ "rejected" = IF GatesOf(rec)[g].authorityDecision # "none"
                        THEN GatesOf(rec)[g].authorityDecision ELSE GatesOf(rec)[g].humanDecision
    BY DEF BudgetRejections, GatesOf
  <2> QED BY <2>1, <2>2 DEF GateSound
<1> QED BY <1>1, StoryInvariant, PTL

-----------------------------------------------------------------------------
(* The process and the log. *)

(* What a process waits for at a vertex without a decision is what the log
   waits for. *)
LEMMA TiedWaiting ==
    ASSUME CheckpointConstants, Types, NEW r, r = rec, Sound(r), Tied(r), ~ Stopping, NEW n \in Node, decision[n] = "none"
    PROVE  {p \in pendingGates : p.node = n} = {p \in Waiting : p.node = n}
<1>1. Exact(r, n) /\ Waiting = PendingGates(r.suspensions)
  BY DEF Tied, Waiting
<1>2. ASSUME NEW p \in pendingGates, p.node = n PROVE p \in Waiting
  <2>1. PausedForGate(r, n, p)
    BY <1>1, <1>2 DEF Exact
  <2>2. /\ p.gate \in DOMAIN GatesOf(r) /\ GatesOf(r)[p.gate].active /\ GatesOf(r)[p.gate].node = n
        /\ GatesOf(r)[p.gate].budget = p.budget /\ GatesOf(r)[p.gate].allowance = p.allowance
    BY <2>1 DEF PausedForGate
  <2>3. ~ IsResolved(GatesOf(r)[p.gate])
    BY <2>2 DEF Sound, GateSound
  <2>4. p = [gate |-> p.gate, node |-> p.node, budget |-> p.budget, allowance |-> p.allowance]
    BY DEF Tied
  <2>5. p = [gate |-> p.gate, node |-> GatesOf(r)[p.gate].node, budget |-> GatesOf(r)[p.gate].budget,
             allowance |-> GatesOf(r)[p.gate].allowance]
    BY <1>2, <2>2, <2>4
  <2> QED BY <1>1, <2>2, <2>3, <2>5 DEF PendingGates, GatesOf
<1>3. ASSUME NEW p \in Waiting, p.node = n PROVE p \in pendingGates
  <2>1. r.node[n] = "paused" /\ r.suspensions.media[n] = NoJob
    BY <1>1, <1>3, WaitingGate
  <2>2. status[n] = "paused"
    <3>1. status[n] \in {"pending", "running", "paused", "completed", "failed", "skipped"}
      BY DEF Types, TypeOK, Settled
    <3>2. VertexTied(r, n)
      BY DEF Tied
    <3> QED BY <1>1, <2>1, <3>1, <3>2 DEF VertexTied, Exact
  <2>3. PICK k \in pendingGates : k.node = n
    BY <1>1, <2>1, <2>2 DEF Exact, PausedForJob
  <2>4. k = p
    BY <1>1, <1>2, <1>3, <2>3, WaitingOnce
  <2> QED BY <2>3, <2>4
<1> QED BY <1>2, <1>3

(* A vertex with nothing on its way is in the process as it is in the log. *)
LEMMA TiedAgrees ==
    ASSUME CheckpointConstants, Types, NEW r, r = rec, Sound(r), Tied(r), ~ Stopping, leg = "live",
           NEW n \in Node, ~ Speaking(n)
    PROVE  /\ rec.node[n] = IF status[n] \in {"pending", "running"} THEN "none" ELSE status[n]
           /\ chosen[n] = rec.selected[n]
           /\ jobs[n] = rec.suspensions.media[n]
           /\ {p \in pendingGates : p.node = n} = {p \in Waiting : p.node = n}
           /\ n \in ClockBearers => startedAt[n] = rec.lives[n].startedAt
<1>1. decision[n] = "none" /\ task[n] # "pinning"
  BY DEF Speaking
<1>2. Exact(r, n) /\ VertexTied(r, n) /\ VertexSound(r, n)
  BY DEF Tied, Sound
<1>3. r.node[n] = IF status[n] \in {"pending", "running"} THEN "none" ELSE status[n]
  <2>1. status[n] \in {"pending", "running", "paused", "completed", "failed", "skipped"}
    BY DEF Types, TypeOK, Settled
  <2>2. CASE status[n] = "paused"
    <3>1. CASE \E p \in pendingGates : p.node = n /\ PausedForGate(r, n, p)
      BY <1>1, <2>2, <3>1 DEF PausedForGate, Sound, GateSound
    <3>2. CASE PausedForJob(r, n)
      BY <1>2, <2>2, <3>2 DEF PausedForJob, VertexSound
    <3> QED BY <1>2, <2>2, <3>1, <3>2 DEF Exact
  <2>3. CASE status[n] # "paused"
    BY <1>2, <2>1, <2>3 DEF VertexTied, Exact
  <2> QED BY <2>2, <2>3
<1>4. chosen[n] = r.selected[n] /\ jobs[n] = r.suspensions.media[n]
  BY <1>1, <1>2 DEF Tied, Exact
<1>5. ASSUME n \in ClockBearers PROVE startedAt[n] = r.lives[n].startedAt
  <2>1. n \in Timed /\ n \in Agents
    BY <1>5, SoundAgents DEF ClockBearers
  <2>2. r.node[n] = "paused" \/ r.lives[n].budgetContinuation
    BY <1>2, <1>5, WaitingGate DEF ClockBearers, Waiting, PendingMediaJobs, VertexSound
  <2>3. CASE r.node[n] = "paused"
    BY <1>1, <1>2, <1>3, <2>1, <2>3 DEF Exact
  <2>4. CASE r.lives[n].budgetContinuation
    <3>1. status[n] \in {"pending", "running"}
      <4>1. r.node[n] = "none"
        BY <1>2, <2>4 DEF VertexSound
      <4>2. status[n] # "none"
        BY DEF Types, TypeOK, Settled
      <4> QED BY <1>3, <4>1, <4>2
    <3>2. status[n] = "pending"
      BY <1>2, <2>1, <2>4, <3>1 DEF VertexTied
    <3> QED BY <1>2, <2>1, <2>4, <3>2 DEF Exact
  <2> QED BY <2>2, <2>3, <2>4
<1> QED BY <1>1, <1>3, <1>4, <1>5, TiedWaiting

(* While a run is under way, what the process holds of each vertex with no
   event on its way is what a new process would make from the log: its fate,
   its branches, its job, its gate and its clock. *)
THEOREM LogAgrees == Spec => []CheckpointAgrees
<1>1. StoryInv => CheckpointAgrees
  <2> SUFFICES ASSUME StoryInv, leg = "live", tail = <<>>, ~ Stopping
               PROVE  /\ dispatches = rec.dispatches
                      /\ \A n \in Node : ~ Speaking(n) =>
                          /\ rec.node[n] = IF status[n] \in {"pending", "running"} THEN "none" ELSE status[n]
                          /\ chosen[n] = rec.selected[n]
                          /\ jobs[n] = rec.suspensions.media[n]
                          /\ {p \in pendingGates : p.node = n} = {p \in Waiting : p.node = n}
                          /\ n \in ClockBearers => startedAt[n] = rec.lives[n].startedAt
    BY DEF CheckpointAgrees
  <2>1. PICK h : Story(h) /\ (Active => Tied(h[Len(tail)]))
    BY DEF StoryInv, History
  <2>2. PICK r : r = rec
    OBVIOUS
  <2>3. Len(tail) = 0 /\ h[0] = r
    BY <2>1, <2>2 DEF Story
  <2>4. Tied(r) /\ Sound(r) /\ Types
    BY <2>1, <2>2, <2>3, HistorySound DEF Active, StoryInv, CheckpointInv
  <2>5. dispatches = rec.dispatches
    BY <2>2, <2>4 DEF Tied
  <2> QED BY CheckpointConstants, <2>2, <2>4, <2>5, TiedAgrees
<1> QED BY <1>1, StoryInvariant, PTL

(* Only the store writes. *)
LEMMA OnlyAppends ==
    ASSUME Next, rec' # rec, leg # "down"
    PROVE  AppendEvent
<1>1. ~ Reconcile /\ ~ Resume
  BY DEF Reconcile, Resume, ResumeHuman, ResumeBudget, ResumeAnswered, ResumeMedia, ResumeEnds, ResumeOverdue, Seeded
<1>2. ASSUME NEW n \in Node, Execute(n) PROVE UNCHANGED rec
  BY <1>2 DEF Execute, Skip, Claim, Enter, Complete, AttemptFails, Redispatch, NodeDeadline, PauseAtGate, PauseForBudget,
     Opens, Publish, Announced, Park, MediaDone, MediaPinned, MediaFails
<1>3. Decide => UNCHANGED rec
  BY DEF Decide, ClaimHuman, GateTimeout, ClaimBudget, HumanDecided, PinFails, BudgetRecorded, BudgetApplied
<1>4. Cancel \/ CeilingReached \/ PauseRun \/ Stall \/ Settle \/ Crash \/ Done => UNCHANGED rec
  BY DEF Cancel, CeilingReached, PauseRun, Stall, Settle, Crash, Done, vars
<1> QED BY <1>1, <1>2, <1>3, <1>4 DEF Next

(* No step of the engine, whichever process takes it, tells the log of a
   vertex that is settled already, or anything of a run that is over. *)
THEOREM ToldOnlyOnce == Spec => ToldOnce
<1>1. StoryInv /\ [Next]_vars =>
        [rec' # rec /\ leg # "down" =>
            LET e == Head(tail)
            IN  /\ ~ Ended
                /\ e.type \in {"node:started", "media_job:submitted", "node:completed", "node:skipped"} =>
                    rec.node[e.node] \notin Settled
                /\ e.type \in {"node:started", "media_job:submitted"} => rec.node[e.node] # "paused"
                /\ e.type = "node:failed" => rec.node[e.node] \notin {"completed", "skipped"}]_vars
  <2> SUFFICES ASSUME StoryInv, Next, rec' # rec, leg # "down"
               PROVE  Told(rec, Head(tail))
    BY DEF vars, Told, Ended
  <2>1. AppendEvent
    BY OnlyAppends
  <2>2. PICK h : Story(h)
    BY DEF StoryInv, History
  <2>3. PICK S : tail \in Seq(S)
    BY DEF StoryInv, CheckpointInv, TailFree
  <2>4. 1 \in 1 .. Len(tail) /\ Head(tail) = tail[1]
    BY <2>1, <2>3 DEF AppendEvent
  <2>5. Told(h[1 - 1], tail[1]) /\ h[0] = rec
    BY <2>2, <2>4 DEF Story
  <2>6. 1 - 1 = 0
    OBVIOUS
  <2> QED BY <2>4, <2>5, <2>6
<1> QED BY <1>1, StoryInvariant, PTL DEF ToldOnce, Spec
=============================================================================

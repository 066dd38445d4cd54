# Relavium: verification project

Relavium runs workflows of agents, tools, conditions and human gates as a directed graph of
vertices. A run is driven by one process at a time, recorded as a log of events in SQLite, and may
be parked at a gate, resumed by another process, or repaired after a crash. This project models the
parts of that machinery in which the order of steps, and not the data, decides whether the result is
right: the durable record and who may write it, the scheduling loop, the delivery of events to a
reader, the journal of external effects, the money of provider calls with the chain of providers
behind it, the run that a crash leaves and its next process takes up from the log, chat sessions and
their transcript, the retention of media, and the clients of MCP servers.

The modules are TLA+; TLC checks them on small instances and TLAPS proves the central results for
every value of the constants. `PROJECT.json` lists the runs, the lines of source that each
definition stands for, the hazards and the findings.

    tlc -workers 2 -config own_ledger.cfg MCRunOwnership     # one run
    tlapm RunOwnershipProofs.tla                             # one proof module

## 1. Inventory

### The components and how they interact

| Component (source) | State it keeps | Operations | What is hard |
|---|---|---|---|
| Durable log, leases, outbox (`db/run-history-store.ts`, `core/engine/engine.ts`, `cli/engine/terminal-outbox.ts`) | `run_events` rows, one `run_leases` row, one outbox entry per run; per process: ownership, fence, next and last asked sequence number | start, claim, heartbeat, append, pause, park, resume from checkpoint, settle, drain, reconcile | several processes, expired leases, failed or late writes, crashes between any two steps |
| Run scheduler (`RunExecution` in `core/engine/engine.ts`) | status of each vertex, claims, attempts, gates, media jobs, timers, the stop flags, the terminal | a serialised loop that claims and starts vertices; outcomes, retries, gate decisions, polls, deadlines, cancel and run timeout between its awaits | every handler awaits; each may find on return that another has settled its vertex, stopped the run or asked for a pass |
| Event bus, stream, handle (`core/engine/event-bus.ts`, `event-stream.ts`, `run-handle.ts`) | sequence counter, durable tail, bounded buffer, pull, waiters, delivery counters | number, write, deliver, push, pull, wait for room, close, return, fence | slow appends, a full buffer with several producers, a terminal, a reader that leaves, a fence |
| Effect journal (`db/effect-journal-store.ts`, `core/tools/registry.ts`, `core/engine/effect-receipt-health.ts`) | one row per effect identity; pending receipts and an attention flag per process | prepare, send, settle, discard, replay, the gate of a resumed run, report, sweep | a call that left and was not recorded, dispatches that were given up, retries, a second process |
| Budget governor, allowances, money ledger (`core/engine/budget-governor.ts`, `dispatch-allowance.ts`, `money-durability.ts`) | spent, reserved and conservative amounts, the warning latch, commitments being written, one allowance per dispatch, a ledger of writes with its failure, one usage claim per call | admit, settle, retain, release, warn, begin, claim, enqueue, join | concurrent admissions around awaits, failed ledger writes that only one joiner is told of, receipts that come after the attempt |
| Checkpoint and suspension folds (`core/engine/checkpoint.ts`, `shared/run-suspension.ts`) | a state folded from the log | apply an event, finish | a log that ends anywhere |
| Agent turn and fallback chain (`core/engine/agent-turn.ts`, `llm/fallback-chain.ts`) | the attempt in flight, its entry of the plan, attempts, cooldowns, refreshed credentials, tool rounds | attempt, native retry, advance, refresh, join, tool round, close | failure after partial output, an abort between any two awaits of a call, a dispatch that was given up |
| Chat session (`core/engine/agent-session.ts`, `session-*.ts`, `cli/chat/*`, `db/session-store.ts`) | history, spans, summary and keys in memory; rows and a high-water mark in the store; a writer per process | send, abort, cancel, compact, trim, command, resume | an abort during set-up, a late answer, a write that fails, two processes on one session |
| MCP manager (`packages/mcp`, `cli/engine/mcp-servers.ts`) | connect tasks, registered connections, one shared close, reporters, nested scopes of work | start all, call, close, report, join | one of several fails while others are opening, a close or its reporter that fails, several closers |
| Media store (`db/media-*.ts`, `cli/engine/media-gc.ts`) | files, rows, references; per process the collection it runs | put, verify, admit, reference, reclaim, unlink, sweep orphans | no lock covers files and rows: collection racing another process, a process that dies between the two |
| CLI process and surfaces (`apps/cli`) | invocation budget, owned resources, views | start, signal, depart | deadline of an invocation, signals |
| Parsing, DAG, expressions, schemas | none | pure functions | totality and order |

A surface (`relavium run`, `gate`, Home) builds an engine over one host. The engine's `RunExecution`
owns a run: its loop calls node handlers, which call providers and tools; every outcome becomes a
durable event through one writer, which numbers it on the bus, appends it under the lease and
delivers it to the handle's stream. A tool that changes the world goes through the journal. When the
run ends or parks, the process waits for what it started, reports, and leaves; the next surface that
opens reconciles what was left.

### What makes each part correct

* **Record**: opened once, closed once; only the owner writes; a living run is not repaired; a
  terminal that could not be stored is not relabelled; a started run is eventually settled or parked.
* **Scheduler**: a vertex runs only when its dependencies allow it, settles once, is never overlooked
  and never started after an abort; a run that is told to stop ends even if an executor never
  answers; parallelism and the dispatch ceiling hold.
* **Delivery**: a reader gets exactly what the bus delivered, the terminal last; the counters that
  allow a departure are truthful; nobody waits for room for ever.
* **Effects**: an effect is sent at most once while its row stands; a process that reports a clean
  departure leaves nothing in doubt; nothing is sent after the terminal.
* **Money**: what providers charged or may have charged is counted; calls admitted at once do not pass
  the cap together; reservations and debits come back; before a turn acts on an answer the outcome of
  every earlier call is durable; after a loss nothing new is asked.
* **Chain**: a reader who has seen part of an answer gets no second one; attempts are bounded; every
  turn ends.
* **Session**: what a process holds is what another would resume; a turn is added only by a process
  that holds what is stored; no two tool calls share an identity.
* **Media**: what a row or a living run promises has its bytes.
* **MCP**: an answered close or start left nothing running and hid no fault; everyone is answered.

## 2. Modules and their correspondence to the code

| Module | Models | Composition |
|---|---|---|
| `RunRecord` | what a reader may rely on: who wrote what, opened once, closed once by an outcome that nothing replaces, and only receipts from whoever closed it | abstract |
| `RunOwnership` | leases, fences, guarded appends, outbox, resume and reconcile of one run by several processes | refines `RunRecord` through `Record` |
| `RunOwnershipProofs` | theorems about `RunOwnership` | extends it |
| `GraphRun` | what a run promises about its graph, whoever schedules it: turns, skips, one settlement each, one outcome | abstract |
| `RunScheduler` | `RunExecution` of a fresh run in one process | takes appends as steps that end or fail; refines `GraphRun` through `Graph` |
| `RunSchedulerProofs` | theorems about `RunScheduler` | extends it |
| `RunSuspension` | the fold of gates and media jobs: what the log says a run waits for | |
| `NodeLifeClock` | the fold of agent clocks: since when an agent has been alive | |
| `RunCheckpoint` | the execution that writes the log, its death, the fold of the log, and the execution that goes on from it | composes `RunSuspension` and `NodeLifeClock` |
| `RunCheckpointProofs` | theorems about `RunCheckpoint` | extends it |
| `EventDelivery` | bus, durable tail, bounded stream, handle | takes appends as steps that end |
| `EventDeliveryProofs` | theorems about `EventDelivery` | extends it |
| `EffectJournal` | the calls of one node, the journal, receipts, resume gate, repair and sweep | takes ownership as a claim that is held, lost or free |
| `EffectJournalProofs` | theorems about `EffectJournal` | extends it |
| `Dispatches` | the dispatches of a run and the calls they make | |
| `BudgetGovernor` | the governor's state and the effect of each of its methods; the allowance book | extends `Dispatches` |
| `MoneyDurability` | the ledger: claims, writes, joins | extends `BudgetGovernor` |
| `FallbackChain` | the plan, the attempt budget and the verdict on a failure | extends `Dispatches` |
| `AgentTurn` | the turns that call all three, one action per stretch between two awaits | composes `MoneyDurability` and `FallbackChain` |
| `AgentTurnProofs` | theorems about `AgentTurn` and the three modules it composes | extends it |
| `SessionTranscript` | the rows of a session, the writer of a process, what a resume reads | |
| `AgentSession` | the sessions that processes keep in memory | composes `SessionTranscript` |
| `MediaRetention` | files, rows and references of media, and both collections | |
| `MediaRetentionProofs` | theorem about `MediaRetention` | extends it |
| `McpManager` | the start of several servers, calls, the shared close and the scopes | |
| `McpManagerProofs` | theorem about `McpManager` | extends it |
| `MCRunOwnership`, `MCRunScheduler`, `MCRunCheckpoint`, `MCEffectJournal`, `MCAgentTurn`, `MCAgentSession`, `MCMediaRetention` | clocks, symmetry sets, plans and prices for TLC | |

**RunOwnership.** `lease`, `log` and `outbox` are the stored rows; `own`, `fence`, `nextSeq`,
`lastAsked`, `write`, `failed`, `durability` and `missed` are the fields of `RunExecution` with those
roles. An append is two steps: the ask fixes the number, the fence and the expectation, and the
answer is `Persisted`, `Fenced` or `NotPersisted`, so anything may happen while it is in flight.
`Append1` is the whole transaction of `fold`: expectation, fence, second terminal, duplicate row.
The store writes `expiresAt` by the clock of the process that holds or renews the lease, and compares it with
the clock of whoever asks (`run-history-store.ts:1151-1163`, `apps/cli/src/history/open.ts:58`). So time is
relative to the slowest clock: `lease.ttl` is how long that clock has to go until `expiresAt`, `Ahead[p]` by
how much the clock of `p` is ahead of it, `Life(p)` what `p` writes and `Expired(p)` what `p` reads; the age of
`run:started` is stamped and read the same way. Clocks may differ by any amount. A `Tick` with which the lease of a
living process that is using it runs out on anybody's clock is a stall; how often that happens is bounded. An
execution that parks and departs, settles or dies is discarded with its bus and its counters (`Discard`), and a
process may drive a later leg or reconcile afterwards; only a fence it was granted stays. A reconcile is the code's sequence: read the outbox, list, drain, forget, claim, recheck,
write, release, with every other process free to move between two of them.

**RunScheduler.** Each action is the code between two awaits. `loop` and `rerun` are `#scheduling` and
`#rerun`; `claims` is the batch claimed and not yet started; `task` is what a dispatch awaits;
`landing` holds the settlements being written, each of which ends in `#schedule`; `gate`, `publishing`,
`acked`, `decide` and `callers` follow a gate from its pause to its decision. A pass that was asked for
is a call, so nothing else happens before it (`loop # "awake"` in `Next`). Executors are the
environment: they may complete, fail, fail retryably, pause at the budget, leave a media job, answer
late or never. `GraphRun` is the run as somebody sees it who knows the plan and not the loop: `Fates` forgets
whether a vertex runs or is parked (both are `"active"`), and the outcome is the published one, not the one the
loop has settled on. Skips, claims and the vertices handed back are steps on whole batches, as in the code.

**RunCheckpoint** and the two folds it composes. `rec` is what `reconstructCheckpointState` makes of the
durable log; `tail` is what the living process has asked for and the store has not acknowledged, and a
crash drops it. `RunSuspension` and `NodeLifeClock` are translated case by case, with the refusals that
make a history unreadable. `leg` is where the process stands: a resume is `"passive"` between
`#seedFromCheckpoint` and `#activateCheckpoint`, which only a budget decision stretches over time
(`ResumeBudget`, then `BudgetRecorded`, `BudgetApplied` and `DecisionOver`). Pauses, decisions, starts and
retries are split where the code awaits an acknowledgement (`Acked`); everything else is one step. The
ways to resume are those of `beginResume`, `beginResumeMediaJobs` and `refuseResume`. Time is the place of a
start among the starts of the run; a clock that has run out is one that fires. Left to other modules: who
may append and the lease (`RunOwnership`), the batches, the grace window and the order of a pass
(`RunScheduler`), the refusal of a decision by the effect gate in a living process (`RunScheduler` and
`EffectJournal`), and the sums of money in the fold.

**EventDelivery.** `asks` and `writing` are the durable tail; `buffer`, `pulling`, `waiters`,
`published`, `delivered`, `gap` and `abandoned` are the fields of `BoundedEventStream`. A producer asks
for room (`WhenDrained`) and streams later (`Emit`), so several may have seen the same room. `sent` and
`received` are histories.

**EffectJournal.** A dispatch is `PrepareProceeds`, `PrepareReplays` or `PrepareRefused` (the verdict
of the store), the second look of `#fenceEffects` (`Send` or `Refuse`), the answer, and `Commit` or one
of the ways not to reach it. `Abandon` lets the loop go on while the dispatch is still under way.
`pending` and `sticky` are the fields of `EffectReceiptHealth`; `report` is what the exit code says;
`Depart` includes the sweep of committed rows, keyed, as in the command, on the outcome that was shown.
Arguments are digests; the mapping configuration that a replay also compares is part of the digest.
`left` and `swept` are histories.

**AgentTurn** and the three modules it composes. A call waits, in order, for the ledger (`join`), the
governor (`check`, `held`, `warned`, `told`), the ledger again (`begin`), its pending marker (`marker`)
and a credential (`acked`); then the provider is asked. `stage` is where a call stands, `step` where its
turn does. `BudgetGovernor` and `MoneyDurability` hold the fields of the two classes under their names
and say what each method does to them; a write of the ledger is queued in one step and settles in
another, well or badly, and `observed` counts for each joiner the writes it saw and still waits for. The
verdict on a failed attempt (`AfterFailure`) is the one of `#afterFailure`, from the kind of the error,
whether content was seen and whether a credential could be renewed. Native retries of an adapter are
calls of their own, admitted while their attempt is open. Prices are small naturals, and a model without
a price or with one that is no safe integer is told apart, as the governor tells them.

**AgentSession** and **SessionTranscript**. `live` is the state of a session in one process, `rows` the
`session_messages`, `writer` the persister. A turn of the provider and a summarisation are awaited as a
whole, and what users and tools do meanwhile are actions of their own. Resuming is computed from the rows
as `resumableSessionMessages` and `reconstructSessionState` do, with the boundary of the last trim, the
last summary, and the bare rows an older version left. A process that dies takes no further step.

**MediaRetention.** Each run has a process. It stores, verifies, admits and references media in separate
steps, and after its end collects: it removes the references of the dead, soft-deletes expired rows in
one transaction, unlinks their bytes one by one, and then unlinks aged bytes without a row if no other
run is active. Time is whether a threshold the code compares with has passed. `held`, `raced` and `lost`
are histories; `raced` marks the window that `media-gc.ts` names (lines 124 to 130).

**McpManager.** `task` is the connect task of a server, `conn` its connection, `connections` the map of
the manager. `StartupDone` and `CleanupDone` are the acknowledgements of the scopes `startup` and
`failedCleanup`; `observer` is the rejected `observerFailure`. A budget that is spent, or cannot be
read, leaves a connection `held`, which nothing acknowledges, as `closeAll` intends. `told` and `threw` are what
the reporters were given and which of them threw. A reporter that closes again from within a report
joins the close it is in, and changes nothing.

## 3. Runs

| Run | Question | Properties |
|---|---|---|
| `own_ledger` | two processes over one store, their clocks a tick apart, with a failed call and a crash anywhere, long enough for one to write behind the outcome of the other: does the record stay sound? | `LogInOrder`, `RepairsOnlyTheAbandoned`, `ImplementsRecord` |
| `own_live` | calls fail, a process dies, and one clock is a whole TTL ahead: whom does a recorded claim keep out, who may take it over, and is a started run, over its pauses and resumed legs, always settled or parked? | `EventuallySettledOrParked`, `OwnershipRespected` |
| `sched_plan` | a condition with four branches, a join, retries, a deadline, a run timeout, the ceiling, cancel, a fault: does the loop keep to the graph and to its limits? | `WithinCeilings`, `NothingOverlooked`, `EndsAreFinal`, `ImplementsGraph` |
| `sched_gates` | a human gate with a timer beside a vertex that pauses twice at the budget or leaves a media job, several decisions, cancel, a fault: does the loop always know what to do, and does the run end? | `CompletionIsClean`, `NeverWedged`, `RunEnds` |
| `ckpt` | an agent that retries, stops at the budget or leaves a media job beside a gate with a deadline, behind a condition, over two deaths: does the next process go on with the run that died? | `ReadableHistory`, `CheckpointAgrees`, `RejectionIsFatal`, `DeadlinesKept`, `ToldOnce` |
| `stream` | three producers, a buffer of two, four events | `Lossless`, `CountersCertify`, `ReadInOrder`, `NoStrandedProducer`, `NobodyWaitsForEver` |
| `effects` | two processes, two effects, two attempts, a fault, a stall and a crash | `SentOnceWhileRecorded`, `HonestReport`, `CleanMeansResolved`, `NothingLeavesAfterTheEnd` |
| `turn_money` | two turns under one cap that one estimate fills, warning or pausing, with a failed write: is the money right? | `ChargesAreCounted`, `CapRespected`, `NothingNewAfterLoss` |
| `turn_chain` | one turn with two providers, every kind of error, an allowance, a legacy hold, a native retry, a cancel, a deadline and a failed write: is the protocol of a call right, and does the turn end? | `ReservationsReturned`, `RecordedBeforeActing`, `OneOutcomeEach`, `ChainKeepsItsWord`, `TurnsEnd` |
| `session` | two processes on one session, with aborts, recoveries, trims, a summarisation, a command and failed writes | `ResumeAgrees`, `EffectsDistinct`, `WritesWhatItRead` |
| `media` | four runs that store, pause, end, die and collect one media | `BytesKept` |
| `mcp` | three servers, two callers that close, faults everywhere | `CloseKeepsItsWord`, `EveryoneIsAnswered` |

Several of these are conjunctions of named parts: `LogInOrder` is `OneTerminal` and
`GuardedAppendsInOrder`; `OwnershipRespected` is `OwnerWritesAlone` and `LiveLeaseNotStolen`;
`RepairsOnlyTheAbandoned` is `LivingRunNotRepaired` and `HeldTerminalNotRelabelled`; `WithinCeilings` is
`ParallelismBounded` and `DispatchesNearCeiling`; `NothingOverlooked` is `NoLostWakeup` and
`NoOrphanStart`; `EndsAreFinal` is `SettledIsFinal` and `NoDispatchAfterAbort`; `RunEnds` includes
`StopsWhenTold`; `CountersCertify` is `NoGap` and `CountersAgree`; `ReadInOrder` is `TerminalIsLast` and
`DurableInOrder`; `NobodyWaitsForEver` is `ParkedIsWoken` and `ReaderIsReleased`; `ChainKeepsItsWord` is
`NoSecondVoice` and `AttemptsBounded`.

Each property of a passing run has a mutant: a variant of one definition, written before it, that
changes it the way a plausible slip in the code would, and under which TLC finds the property broken.

### Bounds

* Two processes are enough for a takeover, a takeover back and a repair that races either, which is
  what each ownership property needs; `MaxSeq` bounds the numbers that ordinary events may take.
  `own_live` has `MaxSeq = 3`: a start, the first work, a pause and a resumed leg, which may fail, die or pause
  again. Its clocks differ by a TTL, so the fast process takes over leases that their owners regard as
  live, and `TTL = 1` is enough for that (493 thousand states).
  `own_ledger` needs `MaxSeq = 4`: a start and a pause of one process, the outcome of the other and
  what the first appends behind it. With `TTL = 2` one beat is strictly inside a lease, and a clock that is a tick
  ahead is so by less than a TTL, as `RepairsOnlyTheAbandoned` supposes (903 thousand states).
* `MaxFaults` and `MaxCrashes` of one let each fault happen at every place. Neither run of the ownership has a
  stall: `RepairsOnlyTheAbandoned` speaks of runs without one, and in `own_live` the fast clock takes leases from
  living owners without it. The theorems drop all these bounds, and `OwnershipRespected`, `LogInOrder` and
  `ImplementsRecord` are proved with stalls.
* `sched_plan` takes the smallest plan that has a condition with dead branches, a join behind a
  condition and a branch, more ready vertices than `MaxParallel`, and a ceiling that the retries reach.
  `sched_gates` has two vertices because the interleavings of gates, decisions and media jobs dominate.
  Its gate timer rejects: one that approves does what a decision does.
* Four events and a buffer of two fill the stream, wake waiters with and without room, and close it
  under each of them. The assumption `2 * |Producer| <= Capacity * (Capacity + 1)` is met by far in
  the code: the capacity is 256 and the producers are at most `max_parallel + 1`.
* Two effects and two attempts let the second attempt replay the first effect and send the second.
* `turn_money`: two turns make two calls and one, each estimate fills the cap of two while a bill is one,
  so an admission of one turn meets the reservation, the charge and the pause of the other, and one
  write may fail at any place (2.2 million states).
* `turn_chain`: one turn makes three calls over two providers, the second without a price and with one
  attempt, so that every kind of error is met with and without a provider left, once through an approved
  allowance and once beside a legacy hold (256 thousand states).
* `session`: two processes on one session, of which one may fail, trim, fold and be stopped and the
  other runs a command; three turns and four messages let each of them resume what the other wrote
  (1.7 million states).
* `media`: four runs over one handle, so that two writers meet two collections (361 thousand states up to
  symmetry). Handles meet only where a failed unlink ends a collection, and `PromisedBytes` is proved for
  any number of them.
* `mcp`: three servers let one fail while another is open and a third is opening; of two callers one
  joins the close of the other.

* `ckpt`: one condition, one agent and one gate, four dispatches and two deaths. A retry, a budget stop or a
  media job fits before a death and another after it, and the second process can itself be resumed (1.0
  million states; with five dispatches, 4.0 million, the properties hold too). It checks for deadlock.

`TypeOK` of every module states the types. It is proved where a theorem says so, and TLC checked it while the
other modules were written; it is not kept in the runs, where each property is about a hazard.

The other runs do not check for deadlock: a run that has ended, a parked run and a process that has left really
do nothing more. `NeverWedged`, `RunEnds`, `EventuallySettledOrParked`, `NobodyWaitsForEver`, `TurnsEnd`
and `EveryoneIsAnswered` say what the deadlock check would not: when resting is right.

### Fairness

* `RunOwnership!Fairness`: of each process that is left running, that it goes on (`Proceed`): an append that was
  asked for is answered, what began goes on, a running workflow comes to its end or to a gate
  (`Finish`). At a gate nobody has to decide, unless the run failed there. Time passes; that is
  strong fairness of `Tick`, because the bound on stalls leaves a tick out while a living process uses its
  lease. A surface is opened again and again, whenever its instance is free (`SF` of `ReadOutbox`), and each opening reconciles.
  Nothing is assumed of crashes, and a process that died takes no step. The premise of
  `EventuallySettledOrParked` is that some engine instance is free again and again.
* `RunScheduler!StopFairness`: the loop, the settlements being written, the grace timer and the
  publication of the terminal go on, as promises and timers of one event loop do. Executors, the
  consumer and the people at gates owe nothing. `RunEnds` adds, as its premise, that executors answer.
* `EventDelivery!FairSpec`: appends end, and the reader reads on or leaves.
* `AgentTurn!Fairness`: promises that are settled continue (`CallStep`, `TurnStep`), the store answers
  (`StoreStep`), an attempt ends because it has a deadline (`ProviderStep`), and legacy media jobs
  settle. Nothing is assumed of cancels, of the deadline of the node, of native retries or of receipts
  that come late.
* `McpManager!Fairness`: opening, listing and calling have deadlines, closing a child ends in a kill, and
  promises continue. Nobody has to call or to close.

## 4. What is proved

| Module | Theorems |
|---|---|
| `RunOwnershipProofs` | `TypeCorrect`, `OrderedLog` (from `SingleTerminal` and `OrderedAppends`), `OwnershipKept` (from `OwnerWrites` and `LeaseNotStolen`), `RecordImplemented` (`ImplementsRecord`), `ClaimsAndRepairs`, `AbandonedOnly` (`RepairsOnlyTheAbandoned`, from `LivingRunSpared` and `HeldOutcomeKept`) |
| `RunSchedulerProofs` | `SchedulerInvariant`, `TypeInvariant`, `ReadyWhenRun` (`RanOnlyWhenReady`), `LimitsHold` (`WithinCeilings`), `CleanCompletion` (`CompletionIsClean`), `Wakeful` (`NeverWedged`), `WakeupsKept` (`NoLostWakeup`), `NothingIsOverlooked` (`NothingOverlooked`), `EndsStand` (`EndsAreFinal`), `GraphImplemented` (`ImplementsGraph`) |
| `EventDeliveryProofs` | `StreamTypes`, `LosslessDelivery`, `CertifiedDeparture`, `NobodyStranded`, `OrderInvariant`, `OrderedReading` |
| `EffectJournalProofs` | `JournalInvariant`, `JournalTypes`, `SentOnce`, `HonestDeparture`, `CleanClosure` (`CleanMeansResolved`), `SilentAfterTheEnd` (`NothingLeavesAfterTheEnd`) |
| `AgentTurnProofs` | `Invariance`, `TypesHold`, `ReservationsAreReturned` (`ReservationsReturned`), `EveryChargeIsCounted` (`ChargesAreCounted`), `TheCapIsRespected` (`CapRespected`), `EachCallIsResolvedOnce` (`OneOutcomeEach`), `EarlierCallsAreOnRecord` (`RecordedBeforeActing`), `TheChainKeepsItsWord` (`ChainKeepsItsWord`), `NothingNewIsStarted` (`NothingNewAfterLoss`) |
| `RunCheckpointProofs` | `CheckpointInvariant`, `CheckpointTypes`, `DeadlinesRearmed` (`DeadlinesKept`), `StoryInvariant`, `HistoryReadable` (`ReadableHistory`), `LogAgrees` (`CheckpointAgrees`), `RejectionEndsRun` (`RejectionIsFatal`), `ToldOnlyOnce` (`ToldOnce`) |
| `MediaRetentionProofs` | `PromisedBytes` |
| `McpManagerProofs` | `AnswersAreHonest` |

The assumptions are the named `ASSUME` of each module (`OwnershipConstants`, `SchedulerConstants`, `DeliveryConstants`,
`JournalConstants`, `DispatchAssumption`, `GovernorAssumption`, `MoneyAssumption`, `ChainAssumption`, `TurnAssumption`,
`CheckpointConstants`, `MediaConstants`, `McpConstants`): bounds are natural numbers, the lease and the beat
are positive, the turns of a run are finitely many, a plan of providers is a non-empty sequence (which may name one
twice), prices, bills and the cap are natural numbers, `NoProc`, `NoMedia` and `Host` are none of the things they stand beside, and the capacity
covers the producers. The numbers of processes, events, effects, turns, calls, providers, attempts, faults, stalls, crashes,
runs, handles, servers and callers are arbitrary.

* **RunOwnership.** `OneTerminal` and `GuardedAppendsInOrder` are not inductive: they depend on what is
  in flight. `LogInv` adds `Discipline`: an outbox or snapshot holds a terminal or nothing
  (`IsHeld`, `HeldTerminals`), an append in flight is a real event of
  its own process and is guarded unless it is a terminal (`InFlight`), and a row that a process owns is
  the one its fence names (`Fencing`).
  `LogStep` reduces every step to "the log is unchanged, or one process appended what `Fold` admits";
  the two properties follow from `FoldAdmits`. The two action properties are proved from the same
  invariant, one step per action.
  *The record* (`RecordImplemented`): that whoever closed the run adds only receipts needs to know who has had
  the last word. A process has, once an outcome of its own is in the log (`Spoke`: appended by itself, from the outbox or by a
  repair) or held for it (`Held`: in the outbox or the memory of a drain); then it stands where it appends nothing but a receipt,
  or repairs and drains for others (`LastWord`). `HeldAlong` and `SpokeAlong` say which steps can give a process the
  last word, `LastWordStep` that it stays the last, and `RecordStep` maps what `SayStep` says of a step's append to
  one action of `RunRecord`.
  *Ownership* (`OwnershipKept`) holds for any clocks: the fence is what keeps others out, and it compares no time. The
  row of an owner that does not move is deleted by nobody else (`Released` is scoped to the fence), and
  written by another only through `Acquire`, which asks that other's clock.
  *Repairs* (`AbandonedOnly`): a repair that is persisted was written under the claim on record (`RepairWrites`,
  `RepairIsAlone`), so what has to be shown is that nobody else could hold or be about to take one. The premise is
  `Calm`: any two clocks differ by less than a TTL (`ClocksAgree`), and nobody stalled on any of them. Then `Kept`
  says that the claim a living process holds is the one on record and has run out on nobody's clock, whatever
  beats failed, and that a process between `run:started` and its first claim is younger than a lease on every clock;
  `Repairing` that only older runs are repaired, and that an outbox found empty under the repair's claim is
  filled afterwards only by somebody whose claim was never granted or is lost. `Standing` ties claims to phases;
  both halves need that a terminal is asked for under a claim or with none, never under a parked one. Both parts of
  the premise are needed: with a stall, or with a clock a TTL ahead, TLC finds the living run that is repaired.
* **RunScheduler.** The plan is any finite graph in an order that lists dependencies first, with any width,
  ceiling, retries, gates, media jobs, deadlines and faults; only `NothingIsOverlooked` has a premise, that
  nobody is asked for a decision, because with gates its half about the end does not hold (section 5).
  `SchedulerInv` has four groups. *Who holds a vertex*: claims and the vertex being started exist only
  inside a pass (`LoopShape`, `Distinct`); what is claimed, dispatched, parked at a gate or a media job, or
  being decided is so in one place only and has the status that goes with it (`Claimed`, `Working`,
  `Parking`, `Deciding`, `Polled`); a running vertex has somebody who will report on it (`Attended`). *What
  stops a run*: a failed vertex, a cancel and the abort signal imply each other as far as the code makes
  them (`Aborts`); a sweep leaves nothing behind that was started (`Swept`, `SweptAtStart`); a stalled run
  starts nothing (`Stalled`); what completed is complete (`Complete`). *Turns and limits*: `TurnTaken`, that a
  vertex once activated stays entitled to it, needs that settled vertices and the choice of a condition
  never change (`SettledKept`); `Width` counts a claimed vertex as running before it is, and `Counted` also
  what a backoff will add to the dispatches. *Wake-ups*: `NothingLeft` says that when nobody asked the loop
  for another pass, a claimable vertex is there only for lack of room or while somebody writes who will ask;
  `Wakes` that somebody will ask, or the run rests. For the steps it is enough to tell apart those that ask,
  those that stop the run and those that change nothing a pass looks at (`Minded`, `Minds`).
  What `#claimReady` returns is a recursive function over the plan's order; `BatchFacts` says that the batch
  is without repetition, claimable, no larger than the room, and complete when room is left.

  *The graph*: `ImplementsGraph` is checked where `RanOnlyWhenReady` used to be: in `GraphRun` only a vertex that is due
  becomes active, and nothing that made it due changes again, so no step of it takes a turn back.
  `RanOnlyWhenReady` itself stays proved, as `ReadyWhenRun`. `GraphMoves` says what any step does to the vertices, in the loop's own words: it rests, takes up a
  claimable batch, skips, parks, fails or completes one vertex, or hands a batch back. `GraphMovesStep` goes through
  the actions once; `GraphStep` maps each move to a step of `GraphRun` or to none. A batch is taken up in its
  turn by `Claimable`, and after no failure by `Aborts`; what fails had its turn, although a deadline may
  strike it after it was handed back (`TurnTaken`); nothing settles after the outcome because it is published
  after the run has settled on it (`Published`, `TerminalKept`); and a run published as completed completed or skipped
  everything (`Complete`). One thing `GraphRun` grants on purpose: what was handed back may be so even after the
  outcome, because the `finally` of `#step` resets a batch that was never started without looking at it.
* **EventDelivery.** `StreamInv` joins the types, how the stream ended (`Ends`), the counters
  (`Counters`), `Lossless`, the fact that a producer waits at most once (`WaitsOnce`), and
  `WakesHanded`. The last is the reason nobody is stranded: a full buffer that drains from `Capacity`
  to `b` hands out at least `Handed(b)` wake-ups, a triangular number, so the pulls that empty it wake
  everybody that could have been waiting. `OrderInv` adds what the order rests on: the reader has a
  beginning of what was delivered, even after it left (`ReadPrefix`); durable events are delivered in the
  order of their numbers (`SentInOrder`) because one write is in flight at a time, of a later number than
  all that were delivered (`OneWrite`); a terminal closes the stream (`TerminalCloses`), and nothing but a
  terminal or a fence closes it under a reader that stays (`Closing`).
* **EffectJournal.** `JournalInv` adds to the types that a dispatch under way holds the prepared row of
  its call and is pending (`Bracketed`), that what left has a row and what is only admitted has not
  left (`Recorded`), that a row in doubt is pending or flagged with the process that prepared it
  (`Owed`), and that a report is a process's last word (`Reported`). `SentOnce` follows from `Recorded`
  and `HonestDeparture` from `Owed` and `Reported`. `Claimed` says who drives: as long as leases are kept,
  whoever is at work has the claim, and nobody has it once the terminal is in the log, which is
  `SilentAfterTheEnd`. `Checked` says what the gate of a resume buys: a row in doubt that a driving process
  did not write itself has been settled or asks for attention; `CleanClosure` follows for the process that
  closes the run.
* **AgentTurn.** All its safety properties are proved, and its one liveness property is left to TLC. A step of
  `AgentTurn` does much, and little of it touches any one part of the invariant, so each step is first summarised
  as one of a few moves: what it does to calls, turns and plans (`CallMoves`), to the money (`MoneyMoves`) and to
  the books (`BookMoves`). `CallMovesCover`, `MoneyCover` and `BooksCover` say that every step is such a move, and
  every part of `IInv` is kept by every move.
  *Calls* (`CallsInv`): a turn numbers its calls in order, waits for one at a time, and a call that showed content is
  the last of its round; `Metered` weighs the attempts made and still to come against the places a provider has in
  the plan, which is what `AttemptsBounded` needs.
  *Money* (`MoneyInv`): who holds a reservation (`Reserves`) and a debit (`Debits`), as functions of where the call
  stands; `Accounts`, that the three amounts of the governor are the sums of what was paid, of the estimates of
  unknown outcomes, and of what is reserved; `Foreseen`, that these sums stay under the cap but for what no estimate
  foresaw and for allowances, whose debits and remainder never exceed what was approved. `CapRespected` and
  `ChargesAreCounted` follow by comparing sums term by term (`SumsCompare`).
  *Books* (`BooksInv`): the claim of a call follows its stage (`Claimed`), its marker is written before it is asked
  (`Marking`), what is queued in the ledger belongs to a claim and appears once (`Writing`, `Resolved`); `Tracked`
  says that a resolved call has its outcome and commitment on the log or queued for it, or a write was lost, and
  `Cleared` that a turn past its join has them on the log: a join that saw the tail empty leaves nothing queued.
  *Failures* (`FailInv`): lost money has aborted the run (`LossAborts`), and a call over the cap under "warn" has its
  warning written, in flight or failed (`Warned`).
  `MapThenSumSet` adds the members of a set in an order nobody knows; `TakeOut` shows that any member may be
  taken out first.
* **RunCheckpoint.** `DeadlinesKept` is about a gate that is in the log or on its way there, so
  `CheckpointInv` follows announcements through the tail. `Types` includes the whole fold (`IsRecord`);
  `JobsElsewhere` and `TailFree` keep media jobs off gates, so the end of a job never answers for a gate;
  `PublishingWaits` says that a gate being announced is not started again; `PassiveLeg` that, while a
  checkpoint waits for a budget decision, the decided gate is one it holds and its names are distinct, so
  that decision removes one gate and activation arms the others.
  The other four properties compare the log with the process that writes it, and that process is ahead of the log
  by the tail: what it does is right with respect to a record that does not exist yet. The invariant therefore
  speaks of a *story* `h` (`Story`): the record of the log, and after it the one that each event still on its way
  will make. Every record of the story is sound (`Sound`), and each of its events may follow the record before
  it (`Told`). `Sound` is what the fold needs to accept whatever comes next: an open gate has its vertex parked
  there and at no other place, a budget gate names its frozen allowance and its two answers agree, a parked
  vertex has a gate or a job, and the clock of a life fits what the vertex does. A living process is tied to the
  last record of the story (`Tied`): as a whole while the run goes on (`Exact`), and in what the end still reads once it is
  stopping. A commit takes the first record off the story (`ToldOnce` is `Told` of it), a step that writes
  appends one (`Moves`), a death drops all but the first, and a resume begins a new story at the log (`Seeds`,
  `SameAt`), which is where `CheckpointAgrees` comes back. `RejectionIsFatal` needs `Tied` to say that a rejected
  budget has its vertex ending the run, and `GateSound` that no record of the story completed past it. TLC
  checked the invariant on the 780,058 states of `ckpt` before it was proved.
* **MediaRetention.** `BytesKept` needs to know what a collection under way may still remove. `IInv` adds to
  the types that what a run relies on or is promised has its bytes (`Kept`), that what a collection has
  chosen and no write met in the window the code names is nobody's (`DoomedIsFree`), that the references
  of a run that may go on stand (`ReferencesStand`), and that a write works on fresh bytes and an admitted
  one on a fresh row, never on a candidate of the orphan sweep (`WritesAreFresh`).
* **McpManager.** `IInv` adds to `CloseKeepsItsWord` where the start, the shared close and its callers
  stand (`Phases`), that a connection is registered as long as it is open or its close did not go well, and
  is closed within one shared close (`Connections`), and that whoever waits is an active reporter that
  heard every fault so far (`Reports`).

Induction over numbers is not a theorem these provers can cite, but it follows from the least-element
principle of `WellFoundedInduction` (`Least`, `SetInduction` in `RunSchedulerProofs` and `AgentTurnProofs`), which also
gives a recursive function its values (`BatchDefined`, `PartSumsDefined`).

Only model-checked: the liveness properties (`EventuallySettledOrParked`, `RunEnds`, `NobodyWaitsForEver`, `TurnsEnd`,
`EveryoneIsAnswered`; fairness and `ENABLED` are out of this prover's reach), and the properties of
`AgentSession` (`ResumeAgrees`, `EffectsDistinct`, `WritesWhatItRead`): the first compares what two folds make of histories
of any length, which is induction over data.

The proof of the refinement changed `RunRecord`, which had promised a reader that progress ends with the outcome. With
`MaxSeq = 3` TLC agreed; the proof did not go through, and with `MaxSeq = 4` TLC shows the case of
`TerminalEndsTheLog` (section 5). `RunRecord` now says what the store does promise.

The proofs of `AgentTurn` changed three of its properties. `Exposure` and `Overrun` were a `CASE` with overlapping
guards, of which TLA+ may take any branch and TLC took the first; they are now ordered. `AttemptsBounded` had assumed that
a plan names each provider once, which the chain does not require. `OneOutcomeEach` is stated of any two
outcomes of a call, in the order of the log.

## 5. Where the code and its documents disagree

Met while modelling. Where a definition is named, TLC shows the case when it is stated as the INVARIANT or
PROPERTY of its module's configuration:

* `FailureIsFatal` (`RunCheckpoint`, with `ckpt.cfg`): `node-executor.ts:134` says that a failed node "fails
  the run", and `execution-model.md:29` has "Running --> Failed: node failed". A process that dies after
  `node:failed` is durable and before `run:failed`, while a sibling waits at a gate, leaves a run that
  resumes: `#activateCheckpoint` (`engine.ts:1659`) looks for rejected budgets only, the failed vertex counts
  as settled, and the decision at the gate takes the run to `run:completed`. `RejectionIsFatal` is the
  part that holds.
* `NoFalseStall` (`RunScheduler`, with the constants of `sched_gates.cfg`, but `Gates = {}`
  and `GateAction <- NoGateAction`): the comment at
  `engine.ts:2534` calls the loud stall "an engine-invariant breach". `#settleMediaJobDone` (line 3992) removes
  the job before it awaits the pin of its bytes; if another vertex settles meanwhile, the pass sees nothing
  running, no gate and no job, and fails the run as stalled.

* ADR-0079 (line 118) says a stale owner stays fenced. A process that was parked while another resumed and parked
  the run again re-acquires the free lease. Its next ordinary event is refused as a conflict, but a terminal
  carries no expectation and is stored.
* ADR-0079 (line 151) says every process on the machine compares expiry "against one clock", and so do the comments at
  `run-history-store.ts:362` and `1238`. The store of each process reads its own `Date.now()`
  (`apps/cli/src/history/open.ts:58`), and a lease is written by one and read by another. That is one clock as long
  as the processes read the same system clock and nobody sets it. Where two of them differ by a TTL, a live lease
  is taken over, and a living run may be repaired; hence the premise `ClocksAgree` of `RepairsOnlyTheAbandoned`. (A clock
  that is set forward is, in the model, a stall.) Of those that were granted a fence, only the holder of the claim on
  record appends all the same.
* `TerminalEndsTheLog`: the comments at `engine.ts:5335` and `5340` say a failed ask makes the next ordinary
  append fail closed. If the failed number is the one the successor's terminal took, the next append
  matches the end of the log and is stored after the terminal.
* `CancelWins`, on a plan with gates: the header of `engine.ts` (line 20) and ADR-0036 (line 53) say cancel
  wins. A decision at an open gate that arrives while the run is cancelling settles it as `run:failed`
  (`engine.ts:1956`).
* `AtMostOnceAttempt`: `effect-journal.md` (lines 39 and 321) says a committed row is swept only when its
  run cannot be resumed. The command (`run.ts:539`) sweeps on the outcome it showed; when that outcome was
  not stored, a run with an open gate can be resumed and sends the effect again.
* `UncertainMeansLost`: `money-durability.ts:161` calls its flag "whether a ledger write has ever failed on
  this run". A cancel between the last join of a call and its pending marker makes the engine refuse the
  marker (`engine.ts:825`), and the refusal sets the flag (`money-durability.ts:211`) although nothing was
  written or lost, so the run may end with the exit code for money that is not recorded.
* Of several joins that wait for the money tail together, one is handed a failed write; the others
  go on. `NothingNewAfterLoss` holds because the failed write also aborts the run, and the next pending
  marker is refused.
* The comment at `budget-governor.ts:944` says the barrier of admission is still entered after a failure was
  surfaced; the barrier (line 740) does not look at `#durabilityBroken`, as the comment at line 401 says.
* An `abort()` from a listener of the turn's start, when the turn ends at the turn cap, leaves
  `#abortingTurn` set (`agent-session.ts:1021-1035`). A turn clears it, `compact()` (line 1364) and
  `runUserCommand()` (line 1238) do not, so the next of these is aborted at once.
* `session-history.ts:37` says a trailing legacy user row "still rolls back". It does at the first resume;
  once another turn is written after it, it returns as a prefix of that turn. `ResumeAgrees` fails when
  `OldRows` holds such a row, and `MCAgentSession` starts without one.
* The turn cap of a session counts again from the turns that survived, so a resumed session may take more
  turns than the cap over its life.
* The gap that `media-gc.ts:124-130` names for the collection of references exists for the sweep of
  orphans too, although line 103 says a fresh blob in flight is never swept: a run that begins after
  `hasOtherActiveRuns()` may store the content of an aged orphan again before the unlink.
* A crash or a failed unlink between the soft delete and the unlink leaves the bytes for good: no later
  collection sees a deleted row.
* Terminals carry no expectation, so rows are not always stored in the order of their numbers, unlike
  `docs/decisions` ADR-0078 (line 103) says; this is why `GuardedAppendsInOrder` excludes them.
* A release deletes the lease row, so generations start again at one, unlike the comment at
  `shared/src/run.ts:240`.
* An owner that stalled may put its terminal into the outbox after the reconciler's second look, unlike
  the comment at `engine.ts:6407`; hence the premise of `HeldTerminalNotRelabelled`.
* With gates, a refused decision settles the run where it stands, and a vertex whose start was written may
  still be marked running, unlike ADR-0085 (line 218); `NothingOverlooked`, of which `NoOrphanStart` is a
  part, is checked on a plan without gates.
* A retry is checked against the dispatch ceiling before its backoff and counted after it, so several
  retries together overshoot a ceiling that a test (`engine.test.ts:5603`) takes as exact; hence
  `DispatchesNearCeiling`.
* Streamed events overtake durable ones that are still being written, so the reader does not see all
  numbers in order, unlike `docs/reference/cli/commands.md:70`; hence `DurableInOrder`.
* A cancel that lands while a resumed process reads the journal ends the run before the unresolved rows
  were flagged; hence the premise of `CleanMeansResolved`.

## 6. Not modelled

* Data: parsing, schemas, expressions, bounding of results, wire formats, prices, media verification.
  These are functions of their input without a protocol.
* Terminal interfaces and the operating-system side of tools: presentation and input/output.
* SQLite: a transaction is one atomic step, as `BEGIN IMMEDIATE` makes it; busy retries end in success
  or in a fault.
* Several runs at once, except where they share the media store: runs share no row, lease or stream.
* The request lanes and the shaping of tools of MCP transports and the consent gate: the manager sees a
  connection that opens, answers, fails or closes.
* The migration lock: whether two migrations at once are harmless depends on the migrator, which is a
  library, and not on code of the repository.
* References that sessions hold on media, and temporary files of the media store.
* A sink of a session that throws while a trim is reported (`agent-session.ts:1672-1679`), after the messages were
  dropped from memory: the reporters of `AgentSession` return.
* Two processes on one session overwrite each other's token totals and status; the documents
  (`effect-journal.md:511`) leave concurrent resumes unsupported, and only the transcript is modelled.
* `RunScheduler` starts fresh runs only; what a resumed leg seeds from the log is in `RunCheckpoint`.

## 7. Plan

Done, in the order of importance: the record and its ownership, the scheduler, the delivery of
events, the effects, the turn with its money and its chain of providers, sessions, media, MCP, the run over
crashes. Next:

1. Proofs about sessions: `EffectsDistinct`, and `ResumeAgrees` without the bare rows of an older version.
2. `HostWorkRegistry` (joins), the DAG's order against its reference definition, the deadline of a CLI
   invocation.

Runs are kept few and each asks one question; a finding that is settled in the code gives its place to
the passing form of its property.

# A verification development for ATEP

ATEP (Automotive Test Engineering Platform) is a FastAPI control plane over
PostgreSQL, Redis and RabbitMQ: it schedules and tracks automotive test runs,
keeps a registry of platform modules, delivers commands to vehicles and
simulates ECUs, electric-vehicle aggregates, CAN, diagnostics and ADAS.  Its
logic is mostly short database transactions that run concurrently in several
replicas.  This directory holds TLA+ models of it, the TLC runs that check
them and the TLAPS proofs about them.  `PROJECT.json` lists components, runs,
mutants, the lines each definition models, findings, hazards and theorems.
Paths below are relative to `src/src/atep/`, documents to `src/docs/`.

## The system and its parts

How the parts interact: every endpoint runs in one transaction
(`db/session.py`), which writes the component's rows, an audit record and an
outbox event together.  The outbox worker publishes events to RabbitMQ.  Three
background loops work on tables the endpoints also write: the test scheduler,
the registry reconciler and the outbox worker; every API replica may run them.
Redis carries live updates after the commit, outside the transaction.  Isolation
is READ COMMITTED; rows are locked with FOR UPDATE where the code asks for it;
the ORM keeps attributes it has loaded once and flushes only changed columns.

| Component | State | Operations | What is hard | What makes it correct | Modelled by |
|---|---|---|---|---|---|
| Test jobs and scheduler (`test_jobs`) | job rows, row locks of each replica | create, cancel, dispatch cycle | two tables share one identifier space, replicas race, a batch fails as a whole, crashes | dispatch exactly once, exclusive claims, exact evidence, due jobs leave the backlog | TestExecution |
| Test runs (`test_runs/service.py`) | run, case results, suite snapshot | create, status command, case result | two endpoints move one status; late results | aggregate follows from the cases, finished is final, versions are evidenced | TestExecution (creation), TestRunLifecycle |
| Live stream (`test_runs/realtime.py`) | channel, connections, what viewers show | publish, subscribe, snapshot, forward | publications late, lost, reordered; gap between snapshot and channel | a view never goes back, and catches up if nothing fails | TestRunStream |
| Outbox and worker (`events`) | event rows, batches, broker copies | enqueue, publish batch | crash between publish and mark, several workers, timestamps older than commits | at-least-once, nothing before the commit, nothing lost | Outbox, EventRelay |
| Module registry (`registry`) | modules, leases, credentials | administration, rotation, heartbeat, reconciliation, capabilities | unlocked reads of administrators against heartbeats and the reconciler | only heartbeats activate, only expired modules are marked, leases run out | ModuleRegistry |
| Vehicle commands (`vehicles/service.py`) | command rows, leases, tokens | create, claim, acknowledge | lease expiry races acknowledgement; duplicate acknowledgement | disjoint leases, terminal stays terminal, exact evidence | VehicleCommands |
| Digital vehicles, sessions, telemetry (`vehicles`) | digital state, stored commands, snapshots, catalogue status, readings | register, replace, transition, step, snapshot, restore, ingest | long command sequences; a restore over several locked rows, which transitions and steps need in another order; lost connection of a gateway; duplicated readings | no moving vehicle with its motor off, states change as wholes, no reading announced twice | DigitalVehicle, Vehicles |
| ECU simulator (`ecus/service.py`) | ECU row, commands, snapshots, faults, routes | state, advance, reset, memory, faults, signals, transfers | versions read before the lock, fault life cycle spread over three places, cyclic tasks computed arithmetically, two rows locked by a transfer | one history of commands, latched faults, due instants, every request ends | EcuCommands, EcuTaskSchedule, EcuNetwork, EcuFleet |
| ECU scenarios (`ecus/scenario_service.py`) | scenario executions | run a list of ECU actions | all-or-nothing over several ECUs | whole or not at all, serial among themselves | EcuNetwork |
| Electric vehicle (`electric_vehicle`) | six aggregates, stored steps | battery, range, motor, brake, charging, thermal, scenario | multi-row locks in different orders, retries, contactors and protection moved by several commands | no lost update, every wait cycle is broken, energy is accounted for, charging only into an accepting pack | ElectricVehicle, ElectricEnergy, ElectricDrive |
| CAN network (`can_network`) | network row, frames, error counters, routes, catalogue | frame, arbitrate, fault, route, campaign, codec | one sequence and clock for all services, error-state thresholds, arbitration order | one history, bus-off is silent, highest priority first, codecs round-trip | CanNetwork, CanSignalCodec |
| Diagnostics (`diagnostics`) | session, security, flash, DIDs, routines, DTCs, campaigns | UDS services | duplicated and overtaken commands, logical timers, wrap of the block counter, limits checked without a lock | what security granted belongs to this session, images are in order, clears account for codes | DiagnosticSession, Diagnostics |
| ADAS (`adas`) | scene, sensors, observations, results, evaluations, executions, evidence | advance, context, observe, score, plan, judge, attach | no endpoint locks the scene | everything stored can be computed again from a committed scene; decisions answer their alerts | AdasScene, AdasScenarios |
| Catalogue, profiles (`test_catalog`, `environment_profiles`) | governed resources with versions | create, activate, archive, compose, schedule | archived between a read and the insert that depends on it | compositions name versions that were active; a run is what was scheduled | TestCatalog |
| Fault campaigns, mutation analysis | campaigns, executions, results, coverage | start, report, cancel, cover | results in any order against cancellation | aggregates follow from results, finished is final | CampaignExecutions |
| AI test engineer (`ai_engine`) | requests, attempts, analyses, suggestions, conversations, projections | execute, analyse, review, promote, chat, expire, project | attempt limit, sources that move on, expiry | every stored item can be followed to its governed request | AiEngine, AnalysisRules, QualityEngineering |
| Artifacts; cross-platform and performance tests; identity; dashboard; rate limiting; audit; wiring; tools | | | | | not modelled, see below |

`PROJECT.json` "hazards" names, at its line, what in this code is hard to test
and the properties that would catch it.

## The modules

Conventions: one action per transaction step.  A request that the code rejects
without an effect, or answers from stored data, is left out or is the `Abandon`,
`Begin`, `Refuse`, `DropRequest` or `Conflict` action.  Statements of one
transaction are separate actions exactly where another transaction may commit
between them.  A definition introduced by "Faulty variant" is not used by any
specification: it is the code with a plausible bug, one for each property of a
run, and shows that the property can fail.

Where one run checks several services that share a row but hardly meet, the
module keeps a variable `workload`, chosen in Init from the constant
`Workloads` and never changed: a behaviour serves one workload.  It keeps the
product of unrelated requests out of the instance; the properties hold for each
workload and are silent about mixtures.

**TestExecution.**  `jobs` and `runs` are the two tables, `txn` the transactions
of clients, `batch` the rows each scheduler replica holds FOR UPDATE, `outbox`
a count of events, `now` the clock.  `BeginCreateJob`, `CheckRunOfJob`,
`InsertJob` are the three statements of `create_test_job`; `BeginCreateRun`,
`CheckReservation`, `InsertRun` those of `create_test_run`; `CancelJob` waits for
a replica that holds the row; `SelectDue`, `CommitDispatch`, `FailDispatch`,
`CrashScheduler` are one cycle of `run_test_scheduler`.  Vehicle, catalogue and
profile look-ups are taken as successful here; TestCatalog models them.

**TestRunLifecycle** is a single run and its case results: `UpdateStatus` with
the request validator, `UpdateCase` with the derived aggregate
(`RefreshRunAggregate`).  Every handler locks the run first, so a request is one
step.  **TestRunStream** extends it: `Commit` is any lifecycle step, after which
the request still has to `Publish` (or `LosePublication`); a viewer subscribes,
reads the row, gets its snapshot and then the channel.  `faults` says whether
anything may fail in a behaviour, so that one run checks what holds always and
what holds only while Redis and the processes stay up.  The viewer is not part
of the repository: `Show` models the version check documented for it.

**Outbox** has one transaction per event (`BeginTransaction`, `EndTransaction`)
and the steps of `publish_batch` (`SelectBatch`, `PublishNext`, `CommitBatch`,
`FailBatch`).  `stamp` is created_at, the begin of the transaction and not its
commit.  **EventRelay** is the abstract specification: enqueue atomically,
deliver at least once, mark after delivery.  `ImplementsRelay` is the refinement
(an open or rolled back transaction is an absent event), `DeliversEveryEvent`
the same with the relay's fairness.

**ModuleRegistry.**  A lease is the time left of it.  Administrators `Load` a
module without a lock and `Flush` later; `WriteIfChanged` is what the ORM writes.
Heartbeats and the reconciler lock.  Declaring capabilities and reading the
SPIFFE trust file are left out.

**VehicleCommands**: `SelectClaim`/`CommitClaim` are the claim transaction,
`ReadForAck`/`CommitAck` the acknowledgement, which does not lock; `deliveries`
records every token handed out with the interval of its lease.  **DigitalVehicle**
has the digital states with the rules of their payload
(`EnforceVehicleInvariants`), what transitions and steps do to mode, speed, energy
and contactors, and the snapshots of a session.  A vehicle has two rows (`Rows`),
that of `vehicles` and its digital state, and two kinds of request need both.  A
restore (`BeginRestore`, `LockForRestore`, `RestoreSnapshot`) locks both rows of one
member after the other.  A transition or a step locks the state and computes
(`ExecuteTransition`, `ExecuteStep`); then it inserts a record whose foreign key needs
the row of `vehicles` (`InsertRecord`).  Where they wait for each other the database
ends one of them, which the code does not repeat (`AbandonRestore`,
`AbandonSimulation`).  Catalogue status commands and telemetry look-ups are read steps
and write steps.  Speed and energy are integers in coarse units.  **Vehicles**
composes both: deliveries, simulation, sessions, status and telemetry.

**EcuCommands** models each endpoint as `LoadEcu` (the read without a lock) and
one operation that locks, checks and flushes: what was read first decides, as
the ORM does not refresh loaded attributes.  `overtaken` counts the requests that
were stored over a row other than the one they had read.  Memory is whether its volatile and
non-volatile cells differ from their defaults.  **EcuTaskSchedule** holds the
arithmetic of `_task_run_summary`.  **EcuNetwork** has transactions that lock
several ECUs one after the other: publications, transfers over a route and
scenarios (`ClaimScenario`, `LockRow`, `Perform`, `CommitFleet`); a gateway may
be the source or the target of its route (`create_signal_route`, `ecus/service.py:1051`,
accepts that); it was then read before it is locked, and `LockRow` keeps the older
row.  Disabled routes are left out.  **EcuFleet**
composes the two parts.

**ElectricVehicle** models the seven commands by the order in which they lock
rows (`Locks`), the versions they compare (`Checked`) and what they do to the
battery's contactors, its protection state and the charging state (`Effects`);
the physics that decides between outcomes is a free choice.  **ElectricEnergy**
is that physics for one command after the other: charge, torque, force,
temperatures in units in which a step lasts an hour and one unit of power is
one percent of the pack; voltage and efficiency are constant, the cabin is left
out.  **ElectricDrive** starts one of the two parts and relates them:
`StepsAreCovered` says that every outcome of the physics is one the requests
were allowed, so that the two models of one code cannot drift apart.

**CanNetwork.**  Every command selects the network row FOR UPDATE first, so a
command is one step; a command id is unique in its table.  `SubmitFrame`,
`Arbitrate`, `InjectFault`, `RecoverNode`, `ExecuteRoute`, `RunCampaign` and
`CreateCatalogue` share the row's version, sequence and clock.  Routed frames and
campaigns do not look at the producer's error state, as the code does not.
**CanSignalCodec** is the codec over sets of bits.

**DiagnosticSession** has the session, security and flash rows.  A service locks
the session row and then works on current rows, but with the ECU as the
endpoint had read it (`LoadContext`).  Another ECU command may write the ECU's
version and time from a row that it read earlier (`AdvanceEcu`).  A session change clears the
delay of security access too, as `control_session` does.  Keys and digests are
whether they match.  **Diagnostics** adds identifiers, routines, trouble codes
and read campaigns, whose limits are counted before an insert that no lock
covers: a read step and an insert step.  A command of a catalogue names its
identifier or routine, so that writes and starts are counted per entry.

**TestCatalog** gives definitions, suites, profiles and both kinds of campaigns
one life cycle; what is composed or scheduled from them is a read step and an
insert step; a job is scheduled with a profile or without one.  **CampaignExecutions** adds executions with their results,
aggregate and cancellation, and requirement coverage.  **AiEngine** has the
requests with their attempts, analyses, suggestions, conversations and
projections; the table of adapters is a parameter of `execute_request`, which
is why an external one may be enabled; the local one cites the first `MaxCitations`
references (ten in the code).  **AnalysisRules** are its deterministic
rules for logs and risks.  **QualityEngineering** composes them over one
catalogue: a suggestion that is promoted is a definition.

**AdasScene.**  A request reads the scene (`Load`) and later computes from that
row and commits (`AdvanceScene`, `UpdateSceneContext`, `CaptureObservation`,
`CreatePerceptionResult`); `Flush` writes the columns it changed, and `overtaken`
remembers that it wrote them over a row that another command had committed
meanwhile.  The environment and the traffic controls are two columns
(`visibility`, `light`) of one update.  Actors share
one axis, so that every actor ahead has the same bearing and the nearest hides
the others; positions are integers, without the code's rounding to six digits.
An actor without trajectory may drive out of the range that the schema accepts:
it is stored, and `InWorld` guards the handlers that validate the rows they
read.  **AdasScenarios** has the planner, scenarios with injected faults, and
evidence.  Noise and confidence of detections are left out; no rule reads them.

## The runs

All bounds are constants of the `.cfg` files and `MC` modules.

| Run | Question | Bounds and why they are enough |
|---|---|---|
| execution | exactly-once dispatch, exclusive claims, exact evidence, settled rows, settling of due jobs | 2 jobs, 2 run_ids, 2 job clients, 1 direct client, 2 replicas, batches of 2, clock 0..1: two of everything that races; a batch can hold a poisoned and a good job; jobs may be due now or later (218,842 states) |
| stream | aggregate, marks, versions, finality, and the live view | suites of up to 2 cases in any order and required or not, 1 viewer, at most 2 requests between commit and publish: two publications suffice to overtake one another, viewers do not interact (1,711,694) |
| outbox | batches, gap, duplicates, refinement with liveness | 3 events, batches of 2, 2 workers, 2 failed batches: a batch is cut, overlaps, fails half-way and is repeated (152,203) |
| registry | leases and who changes the status | 2 modules (one by token, one by certificate), 2 administrators, 2 reconcilers, lease 2, 2 heartbeats each, 2 administrative requests (58,133) |
| vehicles | leases and finality of commands; motion, versions, sessions, telemetry | deliveries: 2 commands, 2 pollers, 2 acknowledgements, lease 1, clock 0..2; simulation: 1 vehicle, 2 overlapping transitions or steps, 4 versions, payloads at the edges of the rules, throttle, brake, slope and steering; sessions: 2 vehicles, 2 restores with 2 transitions or steps of one identifier at versions up to 2, so that all four wait for rows of both vehicles; 2 status requests; 3 deliveries of 2 readings (286,809) |
| ecu | one history, task executions, latched and critical faults; transfers and scenarios | one ECU: 2 fault codes, a latched and an unlatched policy, 3 commands, every task of period up to 4, 2 requests that overlap at versions up to 2, until one of them has been overtaken (what follows is `ecu_lost_update`); several: 2 ECUs, opposite routes, one with its source as gateway, 2 overlapping clients, 2 scenario plans (375,082) |
| electric | lost updates, waits, answers; energy, charging, cover of the physics | requests: all 7 kinds, 2 overlapping, 3 commands sent and re-sent at will; the longest wait cycle has two members (`WaitsAreForPackOrMotor`); energy: 3 commands in any order on a pack near either end of its charge, temperatures that jump between both limits (250,795) |
| can | one history, bus-off, arbitration order, codec | 2 nodes, 3 contracts (standard, extended, FD), up to 4 commands, errors of 16 and 32 occurrences that cross warning, passive and bus-off; 3 messages that mix byte orders and signs, 8 physical values, payloads over 8 bit positions (86,736) |
| diagnostics | sessions, security, downloads, catalogues | 2 overlapping requests, up to 8 commands, downloads of 1 and 3 blocks over a counter that wraps at 2, 2 attempts, time 0..1, limits of 1 with 3 entries (1,298,645) |
| quality | compositions, schedules, executions; AI evidence; finality | one resource of each kind and 2 definitions, 2 overlapping requests, executions of 2 steps one of which is required, 3 attempts, 1 citation of the local adapter, 2 exchanges; every batch of 4 lines with gaps around ten seconds and of 3 lines of mixed levels (1,079,739) |
| adas | reproducible evidence, decisions | 3 actors, 2 overlapping requests, revisions to 3, one of each stored item, both lights, fog, lane inside and outside the margin, equal and crossing thresholds (557,618) |
| ecu_lost_update | ecu-simulator.md "A row lock and expected version..." | 2 requests: violated |

Deadlock checking is off in all runs: a system whose bounded identifiers,
requests, clock or versions are used up may stop.  Where the code locks several rows, that no
request waits for ever is a property (`RequestsEnd`, `NetworkRequestsEnd`), or which
requests can deadlock is (`DeadlocksJoinARestoreAndAStep`).  Symmetry is used
only in runs without liveness.

### Fairness

- execution: the clock advances; a replica that can select or commit again and
  again eventually does (strong fairness: it loses races for rows and may be
  killed, but not in every cycle), and a failing batch ends.  Clients,
  cancellations and crashes are owed nothing.  `DueJobsSettle` excuses the case
  that a direct run took the run_id of a scheduled job.
- stream: a committed request goes on to publish and an open connection forwards
  what it holds, unless it fails.  Nobody has to connect or finish the run.
- outbox: the loop of `run` retries after each error (weak fairness of the
  worker).  Failures are bounded by `MaxFailures`; an event the broker refuses
  for ever stays at the head of its batch and stops the worker.
- registry: time passes, the loop keeps selecting, and not every cycle fails
  (strong fairness of its commit).
- electric and ecu: PostgreSQL grants contended row locks in turn (strong
  fairness of `Acquire`, and of `ClaimScenario` or `LockRow`) and finds deadlocks; a
  transaction that holds its rows ends.

The other runs check safety only: their requests are single steps or lock one
row, and nothing in the code promises that a client comes back.

## What is proved

`TestExecutionProofs` (any number of jobs, run identifiers, clients and
replicas, from `TestExecutionAssumption`): `Invariance` proves an inductive
invariant, from which `TypeCorrect`, `DispatchExactlyOnce`, `ExclusiveClaims`,
`UniqueReservations` and the action property `SettledForEver` follow.
`DispatchCreatesItsRun` alone is not inductive: `CommitDispatch` could overwrite
or share a run.  The invariant adds that reservations are unique and that held
rows are scheduled, due and disjoint, so that the jobs of a batch insert different
runs and no step between selection and commit takes a job away.  `ExactEvidence`
proves `EvidenceExact` on top of it: `CountsFollow` reduces one step to the set of
events it counts, and each of `InsertJobCounted`, `InsertRunCounted`,
`CancelCounted`, `CommitCounted` shows that this set is what became true in the
step; for a dispatch that takes the unique reservations and the disjoint claims.

`PlatformProofs`, the outbox (any number of events and workers, from `OutboxAssumption`):
`Invariance`, `TypeCorrect`, `GapIsClosed`, and `Refinement`, that the worker
implements `EventRelay`: `SelectBatch` and a failure without a copy are stutters,
`PublishNext` is a delivery, `CommitBatch` marks the batch.  The invariant is
`BatchesAreOwn`: what a worker holds is pending and nobody else's, and what it
believes it sent has a copy.
`BatchesSound` adds `CopiesComeFromFailures`, that duplicates come from failed
batches only; it is not inductive, because it does not say which copies belong
to batches still open; `CopiesInv` adds that an event no open batch has sent has
at most one copy for every failure.
`CausalPublication`: with one worker, the deployed number, no event reaches the
broker before an event that was committed when its transaction began; a batch
is a prefix in stamp order and is published in that order.

`PlatformProofs`, the registry (any number of modules, administrators and
reconcilers, any lease; `RegistryAssumption`): `ReconciliationIsSafe` and
`ActivationIsByHeartbeat`.  `ReconciledAreExpired` is inductive together with the
way a request came to be: an administrator's request never carries an operational
status, which its later `Flush`, over whatever row it meets, could not tell.

`VehiclesProofs` (any number of commands, pollers, acknowledgements, vehicles,
sessions and restores, any lease; `CommandsAssumption`, `FleetAssumption`,
`RanksAreAnOrder`): `DeliverySafe`, `TerminalForEver`, `SimulationSafe`,
`WholeChanges`.  For the deliveries the invariant adds that locked
rows are open, that a row remembers its last delivery (attempt, token, end of the
lease) and that an acknowledgement read a delivery; leases are then disjoint
because a new one starts where the last has ended.  For the fleet it adds that
updates, commands and records are of registered vehicles; what a request has computed
follows from the state it still holds; a restore locks in the order of the identifiers,
the row of `vehicles` first (`RowRank`, `LocksFollowTheOrder`), and no two requests
share a row (`LocksAreExclusive`).  `DeadlocksAreJoined` takes any set of requests that all wait for one another.  It is
not of restores only: the one with the fewest rows left to lock would wait for one with
fewer.  So there is a transition or step, which waits for a row of `vehicles`; only a
restore holds such a row, and the row it needs next is the state of the same vehicle.

`ElectricDriveProofs` (any requests, commands, identifiers, and any physics within
`EnergyAssumption` and `ElectricVehicleAssumption`): `RequestsSerialised`,
`EnergyAccounted`, `ChargeAccepted`, `StepsCovered`.  The invariant of the requests
(`RequestsInv`) says of each that it holds a prefix of its lock order, read at the
version the row still has, and of each stored step that it lies in the past of the
rows it changed; the one of the energy adds that a missing pack gave none.
`StepsCovered` is proved command by command, from the ranges of the aggregates.

`TestExecutionProofs`, the run and its stream (any suite, viewers and late
publications; `LifecycleAssumption`, `StreamAssumption`): `RunDerived`,
`NewestComing`, `NothingGoesBack`.  `RunIsDerived` is inductive with the progress
bounded by the complete cases; for each viewer, what it shows is up to date unless
the newest row is unpublished or in its queue (`Coming`), and nothing that travels
is ahead of the run.

`AdasProofs` (any actors, scripts, sensors, thresholds and requests, any overlap;
`SceneAssumption`, `ScenarioAssumption`): `Reproducible` and `RisksAreAnswered`.
The invariant (`AdasInv`) is that the present row and every row in flight are committed
ones, that a stored item equals what its inputs compute, and that until a command is
overtaken the present row is the newest and no revision was committed twice
(`OneLine`).  The decisions follow from lemmas about what alerts a scene and a list of
predictions raise; `DecisionsKnown` says what is stored of lists and parameters.

`DiagnosticsProofs` (any requests, command ids, catalogues, limits and timing;
`SessionAssumption`, `DiagnosticsAssumption`): `OneHistory`, `LimitsAndClears` and
the action property `OvertakenStay`.  The image of a download is in order because a
request that has seen the present transfer numbers the next block (`BlocksAreNext`)
and nobody has seen a later one.  The histories and the counts follow from one
statement about all commands (`StoresOne`): a command takes a free id and reports
the versions that it makes.  The limits are not inductive: `RoomFor` counts the
rows and the requests that have found room and not inserted yet; together they
never pass the limit by more than the other requests.  That the clears account for
the codes needs that a clear holds the session row (`OneClear`) and that what it
listed is still there (`ItemsAreKnown`).

`EcuFleetProofs` (`EcuAssumption`, `EcuNetworkAssumption`):
- one ECU, any codes, policies, periods, commands and overlapping requests: `EcuTypes`,
  `LatchedFaultsHold`, and, until a request has been overtaken, `CriticalFaultsHold` and
  the histories of commands; after that `ecu_lost_update` shows versions used twice.
  A request that is stored without being overtaken starts from the stored row, whose state
  agrees with its faults and whose version and time continue the history (`EcuInv`);
  `EcuTypeInv` adds that the fault counters of a row that was read are in range.
- task runs: `MapThenSumSet` is a recursion over a set, so its laws (`SumUnfolds`,
  `SumAdds`,
  `SumOfCardinalities`) are proved by the minimal counterexample of a
  finite family of sets (`MinimalSubset`); `SummaryIsExact` shows that the floor
  divisions count the releases of one advance, and disjoint advances add up.
- the network, any ECUs, plans, executions and clients: `ScenariosStayWhole`,
  `UpdatesAreSerial`, `TransfersStayCurrent`, `HistoriesHold`.  `NetworkInv` says of each
  transaction that its results are a prefix of its plan on rows it has locked, that locks
  are disjoint and one scenario holds the claim.  `SerialInv` adds that what a transfer saw
  of the rows it has locked is stored still (`Current`), and, while only scenarios have
  committed, that the claimed one numbers each row on from the stored version (`Counted`).
  All of it holds for every route: where the gateway is an end, which
  `transfer_signal_route` has read before it waits for its lock, `UpdatesAreSerial` ends
  with the first committed transfer into its own gateway, and `TransfersStayCurrent` says
  of each end what holds of it.

`CanProofs` (any topology, configurations, frames, messages and workloads;
`NetworkAssumption`): `HistoryHolds` and `FramesHold`.  `IInv` has one part for each
history: `RowsOK` (types), `VersionsOK`, `SequencesOK` (the pairs of sequence and end
of `Pairs`, next to the routed sequences), `ClockOK` and `ErrorsOK` (a counter is the sum of
the faults since the last recovery, cut off at 256; a stored frame had a producer below that).
Every action is shown once to be a `Command(E, T)`, which stores the executions E and
transmissions T, uses the next sequences and adds its time; `CommandKeeps` then proves
each part for such a command.  The loops of the services are recursive functions:
`BusExists` and `TraceExists` show that there are such functions, and their invariants
(`ArbitrationServes`, `CampaignIsTraced`) are proved over the rounds by a least
counterexample (`LeastNatural`), as are the laws of sums over commands (`SumAdds`) and
that a winner of a round exists (`WinnerExists`).

`PlatformProofs`, the catalogue, its executions and the AI engine (any resources,
requests, steps, conversations, cards and workloads; `CatalogAssumption`,
`RequiredAreSteps`, `ExecutionAssumption`, `InputAssumption`, `AiAssumption`):
`ExecutionsHold`, `EvidenceHolds` and the action property `DecisionsHold`.
`QualityInv` is the conjunction of three invariants:
- `CatalogInv`: what a request has read before its insert, a job or a run stores was
  active once.  That lasts, as versions are not taken back and references never change
  (`Advances`), so nothing is asked of the moment of the insert.
- `ExecutionInv`: each stored row has the aggregate that a refresh of its results gives, and
  its version counts the changes of its results.  `Changes` is a recursive function over
  sets of steps that picks an element of each; `ChangesAre` relates it to sums in any
  order, by a minimal counterexample.  One report then adds one to the sum and moves one
  element between the sets that are counted.
- `AiInv`, one part for each table: the attempts of a request are numbered 1 to its
  counter, so an execution stores the next one; a conversation's exchanges likewise
  until its purge.  A sorted sequence is a permutation that exists for any finite set
  under a total order (`CanBeSorted`, `SequenceOf`), by the same kind of argument; with
  it `BurstIs` shows that looking at three consecutive events finds every burst, and
  `RiskScoreTyped` that a score is one of 0..100.  A card stays true to its source since every
  table only advances (`SourcesKept`).

Proving changed the models: `PlannedActions` says what a scenario may contain; the
energy of a charging session has no bound of its own; the events of case results are a
set of pairs, which a recorded case extends by exactly one; `overtaken` says when the
motion of an ADAS actor stops being a function of the time; the rows of diagnostic
requests and commands have types, with writes and starts counted per entry; the
loops of arbitration and campaigns are recursive functions, no catalogue stands for
`None`, `GapClosed` became a part of `BatchesAreSound`, what the schemas admit of steps,
log lines and signals is assumed by name, and a timeline is defined as the ordered
permutation of its lines.

What is not proved, and left to TLC:
- liveness under fairness (`DueJobsSettle`, `LiveViewersCatchUp`, `DeliversEveryEvent`,
  `LeasesRunOut`, `RequestsEnd`, `NetworkRequestsEnd`) and anything with ENABLED;
- `CodecsRoundTrip`: the codec shifts by powers of two, and the provers know no law of `^`
  over a variable exponent; proving them needs induction over data;

## Where code and documents disagree

One disagreement is a run with a counterexample (`ecu_lost_update`, `PROJECT.json`
"findings").  Others that showed up while modelling; the models have what the
code does:

- CORE-F-023 (requirements-volume-i.md:29) "automatic reconciliation shall mark
  an expired module inactive": `issue_module_credential` (`registry/service.py:264`)
  reads the module without a lock; if a heartbeat re-activates it in between, the
  flush clears the lease and leaves the status, and a row without lease is never
  selected.  `OnlyHeartbeatsActivate` states it as the only way a module stays
  operational without a lease.
- CORE-F-048: one job whose run_id a direct run has taken makes every batch that
  contains it fail; the good jobs of the batch wait for it to leave the head.
  `test_runs/service.py:68` says a scheduled job "reserves its target run
  identifier until dispatch", but `create_test_run` and `create_test_job` read each
  other's table without a lock.  It is what `DueJobsSettle` has to excuse.
- CORE-F-038 asks for an outbox event of "each effective status transition";
  `test_runs/service.py:458` moves the run on a case result and emits only the
  event of the case.  CORE-F-039 asks for queued, running, terminal; skipping the
  only case of a suite takes a queued run to its verdict in one step.
- VEH-022 (workbook-volume-i.md:1456): two overlapping acknowledgements both emit a
  completion event.  `vehicles/schemas.py:486` "successful commands cannot contain
  error details": a failed and a succeeded acknowledgement that overlap leave a
  succeeded command with the error of the other.  The workbook (line 1855) binds an
  acknowledgement to its "current command attempt"; one read at the end of its
  lease and flushed after the next claim completes the newer attempt.  The workbook
  (line 356) has a claim lock "one available row"; the query locks all.
- ECU-FR-012 "monotonic logical clock": a short advance that overlaps a longer
  one writes an earlier time over it (`ecus/service.py:288`).
- ecu-simulator.md:82 "Seeded corruption flips 1 to 32 bits in selected initialized
  regions and persists its command identity": cells are changed in place in a JSON
  column, which the ORM does not notice; the command is stored and its result reports
  the flips, while the stored memory keeps its content.
- digital-vehicle-state.md:134 "Restore locks matching members in deterministic order"
  keeps restores from deadlocking with one another, but not with a transition or step
  of a member: a restore locks the row of `vehicles` and then the state
  (`simulation_sessions.py:159`), a transition locks the state (`vehicles/service.py:286`)
  and its insert needs the row of `vehicles`.  `DeadlocksJoinARestoreAndAStep` says that
  this is the only way.
- `ecus/schemas.py:210` "a latched fault requires explicit clearing before
  healing": a latched fault that is still pending heals by observation, is stored
  as healed and latched, and no later request can read the faults.  A fault counter
  passes the limit of 1,000,000 of its schema in the same way.
- ECU-FR-007: after a replacement with an inactive confirmed critical fault the
  next observation moves the ECU to degraded; `_apply_fault_operational_state`
  counts active faults only, the payload schema all confirmed ones.
- EV-F-011: a retry that waits for the lock of its first request is answered with
  a version conflict, as the stored result is looked for before the lock only.
- EV-F-008, EV-F-009, EV-F-047, EV-F-056: a thermal step moves the temperature of
  the pack without classifying it again; a battery step moves the charge of a pack
  in protection; starting or resuming a charging session closes the contactors of a
  battery in protection (`electric_vehicle/service.py:1448`), and a battery step
  closes them while a charging fault is not cleared (line 239).
- `diagnostics/service.py:1201`: once another command has moved the ECU, the
  download bound to its older version can neither finish nor be replaced
  (`OvertakenDownloadsStay`).  The limits of 64, 128 and 200 entries can be passed by
  one row for every other request in flight (`CataloguesAreAccounted`).
- fault-campaigns.md:27 "Only active campaigns can" be executed:
  `fault_campaigns/service.py:191` reads the campaign without a lock; it may be
  archived before the execution is inserted.  `ExecutionsAreSound` therefore asks
  that the version it snapshots was an active one.
- AI-F-063 (requirements-volume-ix.md:110) "Make projection retries idempotent":
  the retry is compared with a payload that includes the present state of the
  source (`ai_engine/evidence_projection.py:198`), so a retry after the source
  moved on is a conflict.
- ADAS-F-006, ADAS-T-006 (requirements-volume-vii.md:10, 24) "Require an expected
  revision and return a stable conflict for stale mutations": the scene is not
  locked, two commands that read one revision both commit, and one revision number
  stands for two contents or goes back.  `EvidenceIsReproducible` asks for a
  committed scene of the named revision and not for the newest; ADAS-NF-009 (line
  88) holds in the same sense.  A repeated scenario identifier under another
  perception result answers with the requested result's identifier.  An actor that
  drives out of the coordinate range is stored and makes the scene unreadable
  (`adas/service.py:148`).

## What is not modelled

- Query endpoints, audit records (inserted with the event they accompany),
  authentication, authorisation, rate limits, names and payloads, and database
  failures that lose committed data.
- Registry capabilities and the SPIFFE trust file: an upsert decided by a unique
  constraint, and a configuration file.
- Artifacts, cross-platform automation, performance tests: one insert each, around
  file storage or list arithmetic.
- Identity, dashboard admission and rate limiting: user, role and session tables,
  connection limits and a Redis script, beside the engineering core.
- Audit, alert receiver, process wiring, tools, clients, migrations, deployment:
  append-only writes, start-up and scripts.
- Of modelled components: what each paragraph above says is left out, mixtures of
  workloads, the off-axis geometry of ADAS, wording produced by the AI engine.

## What could follow

1. The capabilities of the registry.
2. Mixtures of the workloads that one run keeps apart.

# Verification of the OT Engineering Demonstrator

The demonstrator is a FastAPI server over two SQLite databases, with a browser
front end. One database holds *scenario runs*: a fault on a small medium-voltage
network, taken through trip, isolation, reclosing and restoration over a tie. The
other holds *validation*: attempts at controlled tests on those runs, their
evidence, results, suspensions, composite results and determinations, the
investigation of a defect, and the packages of evidence exported from all of these.

The modules here model the program in TLA+. TLC checks them on small instances and
TLAPS proves the theorems named below for every value of the constants.
`PROJECT.json` says which lines of the source each definition models, which
properties each run checks, and which faulty form of a definition each property
notices. Source paths below are relative to `app/backend/ot_demo/`.

    tlc -workers 2 -config MCExploration.cfg MCExploration    # a run
    tlapm ScenarioSafetyProofs.tla                            # a proof module

## 1. The system

| Component | State it keeps | Operations | What makes it correct |
|---|---|---|---|
| Topology engine, `modules/topology/service.py` | none | energisation, source paths, radiality, feeder loads, isolation proof | supply is exactly what closed devices connect; radial means no loop and no second source; a proof of isolation rests on trustworthy telemetry of every boundary |
| Restoration service, `modules/restoration/service.py` | none | candidate discovery, permissives, outcome | PERMITTED implies that the network *after* the tie closes is sound |
| Outage service, `modules/outage/service.py` | none | de-energised and restored sections of a revision | agrees with the telemetry it was calculated from |
| Telemetry validity, `modules/telemetry/service.py` | none | freshness at the caller's time | stale evidence never counts |
| Scenario coordinator, `application/scenario_coordinator.py` | the run, its telemetry, snapshots, assessments, invalidations, events | initialise, replace, reset; initiate fault, acknowledge alarm, operate isolation device, restore normal source, assess, execute; offered actions | the faulted section stays dead; one open run; history only grows; the log explains the state |
| Scenario repository, `infrastructure/scenario_repository.py` | the scenario database | one `BEGIN IMMEDIATE` transaction per handler | all or nothing, with the stored result of the command |
| Command results and run-opening endpoints, `api/main.py`, coordinator | `scenario_command_results` | recognise a repeated command, refuse a stale one, open the next run | a command takes effect once; one winner per revision; who opens the next run replaces the one there is |
| Validation execution, `modules/validation/service.py`, `infrastructure/validation_repository.py` | target selections, attempts, executions, evidence, results, baselines | start (also as a repeat), prepare, enter, capture, finalise | one outcome per attempt, final, supported by its evidence |
| Suspension evaluation, `modules/validation/suspension_provenance.py`, service | suspension records | classify, commit, resolve | a record goes on resolving to the attempt and execution it names |
| Composite results, service | composites and their links | assemble, finalise | links stay resolved; the determination is what the cases support |
| Determination, `modules/validation/determination.py` | sources, frozen contexts, procedure executions, findings, review proposals and finalisations, determination results | prepare, bind, evaluate, propose and finalise a review, finalise the result | one context per attempt; one outcome beside the comparison and the suspension; a verdict its findings and sources bear out for good |
| Investigation, `application/investigation_service.py` | the defect, the correction, the links between executions | start a failure, record defect and correction, run the direct repeat, start and run the regression | what is recorded is a chain of evidence for a repair and stays it; no run is overtaken on an answer that no longer holds |
| Evidence export, `modules/evidence_export/` | archives and their records | export, download | a registered package has its archive, says of its source what stays so, and shows of the records around it nothing that was not so |
| Workspace projection, `application/workspace_service.py` | none | views | read-only |
| Runtime and showcase reset, `api/runtime.py`, `api/hosted.py` | the open databases | wiring, reset | no request sees half of a reset |
| Configuration packages, `infrastructure/configuration_loader.py`, `config/network` | immutable files | load, verify, compare | - |
| Front end, scripts, migrations, hashing | - | - | - |

**Interaction.** A client reads a snapshot, which carries the run's revision and
the actions it offers, and sends a command with an identity of its own and the
revision it saw. Each request is served by a thread of the server's pool. The
coordinator opens one write transaction, calls the stateless services on what it
reads there, and commits the change together with the result stored under the
command's identity. The validation service asks the coordinator for snapshots
and writes only its own database; most of its calls read in one or more
connections and write in a later transaction. The determination service decides the
same attempts through tables of its own; an investigation drives both databases, one
transaction at a time; an export reads them and writes a file and a record.

**What is hard.** (1) The scenario has no clock: every request carries its own
scenario time, telemetry is refreshed only by operating the device, so all other
evidence ages with each later request. (2) Decisions are taken on one network and
carried out on the next. (3) Two clients may act on the same snapshot, lose answers
and retry. (4) Validation calls decide on what they read earlier, while other
threads capture, finalise and suspend the same attempt; only `WHERE` clauses,
`UNIQUE` keys and triggers of the writing transaction stand in between. (5) A call
of several transactions may stop between two of them. `PROJECT.json` lists each of
these at its line under `hazards`, with the properties aimed at it.

## 2. Modules

| Module | Models |
|---|---|
| `GridTopology` | the stateless calculations, as operators over a configuration, the closed devices and what telemetry says of them |
| `ScenarioRun` | the coordinator over its database: one variable, `runs`, that maps each run identity to its row and everything stored under it |
| `ScenarioSafety` | EXTENDS `ScenarioRun`: what must hold of every run, and the refinement mapping |
| `SupplyRestoration` | the abstract specification: phases and supplied sections, no devices, telemetry or assessments |
| `CommandLedger` | EXTENDS `ScenarioRun`: clients, requests in flight, stored results |
| `GridReference` | EXTENDS `GridTopology`: a network whose devices are operated at will, and independent definitions of what is calculated for it |
| `ValidationLifecycle` | attempts, executions, evidence, results, suspensions, baselines, and the calls of the request threads |
| `AtomicAttempts` | the abstract specification of `ValidationLifecycle`: selecting, entering, starting, showing, deciding, suspending an attempt, each at once; no threads, calls or crashes |
| `CompositeValidation` | EXTENDS `ValidationLifecycle`: composites over attempts that evolve |
| `EvidenceExport` | EXTENDS `CompositeValidation`: packages of executions, suspensions and composites |
| `Determination` | EXTENDS `ValidationLifecycle`: contexts, findings, reviews and determination results |
| `AtomicDeterminations` | the abstract specification of `Determination`: freezing what is shown, comparing, concluding, determining an attempt, each at once; no threads, roles stored one by one, readings or crashes |
| `SuspensionClassifier` | what `evaluate_suspension` decides before its transaction: functions, without state |
| `Investigation` | the requests of the defect investigation over both databases, transaction by transaction |
| `ZoneSubstation`, `MiniNetwork` | constants: the two controlled packages; a four-section network with every kind of fault |
| `MC...` | instances for TLC |
| `GridProofs`, `GridReferenceProofs`, `ScenarioSafetyProofs`, `ScenarioEvidenceProofs`, `CommandLedgerProofs`, `ValidationProofs`, `DeterminationProofs`, `InvestigationProofs` | theorems |

**Scenario actions.** One action is one *committed* handler, with every statement of
it: `InitiateFault` trips the breaker, raises the alarm, recalculates, stores the
outage of the new revision and appends the events. A handler that raises, or a crash
before the commit, leaves nothing behind and is a stuttering step. The exception in
the code is an exception in the model: an execution whose assessment is no longer
current is rejected *and* commits, moving the run's time and invalidating the
assessment (`InvalidateAssessment`). Guards are named `Can...` and are the handler's
checks in full; `AllowedActions` is the separate set of conditions by which the
snapshot offers actions. The loads, customer counts and hashes stored beside a
derived value are functions of it and are left out; times are small naturals and
`FreshLimit` stands for `MAXIMUM_TELEMETRY_AGE_MS`.

**Energisation.** The code walks breadth first. The model says instead that a section
is reached if it is in every set of sections that contains the start and that no
closed device leads out of. The definition is not recursive, so it can be proved
about; `GridReference` compares it with a bounded walk.

**Ledger actions.** `Send` picks any action a current snapshot offers, or asks for a
run; `Peek` is the separate transaction of `has_mutable_run`; `ReturnDuplicate`,
`Refuse`, `Accept`, `Lapse`, `OpenRun` and `OutOfBounds` are the ways a transaction
ends, each with what it stores. `Lose` stands for a crash before the commit as well
as for a lost answer after it: the client cannot tell them apart, and may `Retry`.

**Validation actions.** A call is a reading action, which leaves what it found in
`calls[t]`, and a writing action, whose conditions are those of the transaction
itself: `CaptureReads`/`CaptureInserts`, `FinaliseReads`/`FinaliseCommits`,
`SuspendReads`/`SuspendCommits`, and for `start_execution` the three steps
`StartSelects`, `StartFreezesBaseline`, `StartBinds`. `SuspendCommits` writes back the
row it read, as the code does. `Crash` drops every call where it stands. Tables that
only grow are functions from keys to rows, as their triggers and keys have it. A
snapshot's content is abstracted to whether its comparison agrees. An attempt carries
`known`: its identity reaches callers only when a call returns it, since no query
lists attempts that were never bound. `assemble_composite` and `finalise_composite` are
one action each: what they put in a link does not change once it is readable, which
`OutcomesAreFinal` shows, and an execution they found unfinished may have finished
meanwhile, which the choice of `unread` allows.

**Refinement.** `AtomicAttempts` has one book of attempts and operations that take place at
once: an open attempt is decided by all its evidence or suspended, and is then history.
`Entry` reads an attempt's entry from the tables alone, whatever calls are under way. Each
writing transaction is one operation; reading, waiting and crashing are stutters; a start
that stops before it binds leaves a selected attempt. Where a write relies on what was read,
the refinement says that it is still so, or that nothing is written. The one exception is in
the abstract specification itself: `Suspend` may take the run of an attempt that was only
entered, because a suspension that read it before writes back that it has none.
`AtomicDeterminations` says the same of determinations: what an attempt's sources show is
fixed at once when they are frozen, a finding is of what is shown, a verdict is of all findings
there are. `CaseOf` reads an attempt's case from the tables of `Determination`; storing a role
of a context that is not frozen yet is a stutter.

**Determination actions.** `PrepareProduces`, `PrepareStores` (one transaction per
context role), `BindsExecution` and `FreezeInserts` are the transactions of
`prepare_context`; `EvaluateReads` and `EvaluateInserts` (one per criterion) those of
`evaluate_machine_criteria`; `DetermineReads` and `DetermineCommits` those of
`finalise_result`. `ProposeReview` and `FinaliseReview` are one action each: what they
read before they write never changes. `work[t]` holds what a call has read, beside
`calls[t]` for the calls of `ValidationLifecycle`, which all go on; a thread serves one
call at a time. What producers, adapters and normalisation make of a stored record is
abstracted to what a source shows of a criterion: `ABSENT`, `AGREES`, `DIFFERS`, or
`UNREADABLE` where the criterion's normalisation refuses the value. The result of
a scenario is inserted twice, in the determination's table and in the one
`finalise_execution` uses, as in the code.

**Suspension classifier.** `SelectedTarget` is what `create_target_selection` makes of a
request; `Gate(n, ...)` is one of the five gates after the trusted target, in order, with the
refusals that end an evaluation; `Selects` is the short-circuit and `Authorised` who may sign.
`Boundary(n, ...)` states DC-005 section 3.1 independently of gates and claims. `MCValidation`
has TLC evaluate, on every call, that on 216 worlds with small targets and requests the first
boundary decides and that each condition arises.

**Investigation actions.** A request is a chain of transactions, one action each:
`Begins` (what it asks of the chain, and `has_mutable_run`), `Opens`,
`FreezesBaseline` (direct repeat), `Binds`, `Faults`, `Captures`, `Finalises`, `Links`;
`run_regression` goes on with the loop `Reads`, `Executes`, `Names`, `Captures`, which
`Resumes` also enters for a regression that was left half-way. `Refused` is a command
rejected for its time, `Crash` ends every request where it stands, and `ClientStep` is
a step of another client of the scenario, validation or determination endpoints: opening
a run, commanding it, starting, capturing, finalising, and determining an execution of either
test (`ClientDetermines`), which is how the program decides a regression. `Opens` calls
`Initialised` or `Replaced` as `has_mutable_run` answered in an earlier transaction; each refuses
for itself if the answer no longer holds (`OpeningAdmitted`), and `Initialised` closes nothing.
Of a determination there is its condition on the row and its verdict, which may be either. A run is
abstracted to how far it has come on `Path`; the states whose outage the direct test
expects (`Agreeing`) are those a run of the `exploration` model shows: N1 and N2 on
1.1, none on 1.0.

**Export actions.** A package is read from records of two sorts. Its *content* is the outcome
and evidence of its source, which no longer change once the source has passed its boundary
(`ExportBoundary`, `CompositeBoundary`, a resolved suspension); `ExportReads` takes it at once.
What it has *seen* are records that go on changing, each read by an action of its own while
everything else goes on: the row of every run a composite or a suspension packs
(`ExportReadsRun`; commands rewrite it, `RunAdvances`), the links of the investigation
(`ExportReadsChain`), and then, of each execution they name, its row (`ExportReadsExecution`)
and its snapshots (`ExportReadsEvidence`). The links are the variable `chain`: `ChainGrows` adds
the original failure with its correction, the direct repeat and the regression, in this order
and under the conditions of module `Investigation`. `ExportWrites` writes the
archive, `ExportRegisters` inserts the record or fails and removes the archive,
`ExportCrash` stops between any two of these, `Downloads` reads record and archive
again.

## 3. Runs

Distinct states in brackets.

| Run | Instance | Shows |
|---|---|---|
| `exploration` [21,338] | the real network, both packages, one run, instants 0..3, freshness limit 2 | a run in every mode and fault section: `FaultedSectionDead`, `RestoredNetworkSound`, `ProcedureWindow`, `ReassessmentNeverPermits`, `OffersAreAccepted`, `EventsExplainTelemetry`, `OutageIsCurrent` |
| `linked_runs` [148,203] | `MiniNetwork`, two interchangeable run identities, instants 0..1, limit 0 | `OneMutableRun`, `InvalidationEvidenced` (of assessments that lapse, and of those a reset or a replacement closes), `HistoryPreserved`, and that the coordinator implements `SupplyRestoration` |
| `grid_reference` [1,024] | the real network: every switching state of both packages | `SupplyIsAWalk`, `RadialMeansOneWay`, `PermittedIsExact`, `IsolationOutlastsOthers` |
| `ledger` [108,630] | two clients, two identities, three run identities, from no run or any stage of a formal run | `ExactlyOnce`, `OneWinnerPerRevision`, `ReplacementFindsARun` |
| `validation` [146,127] | two attempts, two threads, two runs; `CASE` (constituent, one checkpoint) and `TEST` (two checkpoints) | `OneOutcome`, `ResultsRestOnEvidence`, `LinkedSuspensionsResolve`, `RepeatsAreOfFinished`, `OutcomesAreFinal`, and that the calls implement `AtomicAttempts` |
| `determination` [113,333] | one attempt, two threads, two contexts, two roles; a scenario test with one machine criterion, or a procedure with one machine and one review criterion | `DeterminationRowsOK`, `OneContextPerAttempt`, `OneOutcomeOfAll`, `DeterminationRestsOnFindings`, `DeterminationsAreFinal`, and that the calls implement `AtomicDeterminations` |
| `investigation` [783,159] | three runs, three executions, two threads, one step of another client | `InvestigationRowsOK`, `ChainIsEvidence`, `ChainIsPreserved`, `OvertakenRunsStand` |
| `export` [1,207,268] | two cases, two attempts, two threads, one composite, one package, one exporter, one command of each run | `LinksStayResolved`, `DeterminationIsSupported`, `PackagesShowTheirSource` |
| `export_chain` [2,924,991] | three attempts at the direct test (one checkpoint) and the regression (two), one run, one thread, one package, one exporter | `PackagesShowTheInvestigation` |
| `constituent_race`, `entry_suspension`, `late_evidence` | the instances of `validation` and `determination`, or smaller | the findings of section 6: TLC violates the one property of each |

**Why the bounds are enough.** *Instants.* Only the comparison of a request's time with
the run's and with the age limit matters; 0..3 with limit 2 has a time exactly at the
limit, one beyond it, and room for a step on either side. `MiniNetwork` with limit 0
keeps both sides of the limit with two instants. *Run identities.* A step touches at most two
runs; one run closed and one open is every relation there is. The real network has one
run at a time because another adds no new relation to it. *Clients.* Conflicts are
between a request and one other; a third identity (`c0`) marks what happened before.
*Attempts and threads.* Every condition of the tables concerns one attempt, a repeat
with its source, or a run with its two claimants, and every race is between a call
and one other: two attempts and two threads. A second repeat of one source needs a
third attempt; that there is none is proved for any number (`RepeatsStayOfFinished`). The
invariants of `validation` were also checked once with three attempts on one run (4.5
million states), and those of composites with three attempts (1.4 million). A
determination concerns one attempt only: what it reads and writes is keyed by the attempt
or by a context of it. *Roles and criteria.* Two roles are the fewest that can be
stored in part; two contexts the fewest that can compete. *Investigations.* Three runs and three
executions are a failure, its direct repeat and the regression, or a failed attempt at one
of them and what comes of it. `run_regression` sends at most twelve commands in a call, which is
`LoopBound`; a run needs seven, so in the code a call that is not disturbed reaches N5. The
instance has three: a call ends because its commands are spent and the next one (`Resumes`) goes
on where it stood, which reaches every place of the run and has calls end in more places.
*Exports.* A command more on a run is seen or not by the one reading of its row.
Three attempts are the original, its repeat and the regression; `export_chain` has one service
thread because what races there is the one exporter, record by record, with the service: the
regression may be linked, captured and finalised between any two of its readings. *Checkpoints.* The controlled tests with automated
comparison have one each; the schema allows more and the code iterates, so `TEST` has two.

**Deadlock** is checked in `grid_reference` and `ledger`. It is off where the system really may stop: run identities are
finite, and a run that is executed or has aged out with no identity left to reset into
accepts nothing; the other instances run out of attempts, executions or packages.

**Fairness** is assumed nowhere: all properties are of safety. Every handler is a
transaction that waits for no other party, SQLite's write lock is held for the length of one,
and nothing obliges a client to retry or to go on; what remains of liveness, that a thread of
the pool goes on with its request, is the server's and not this code's.

**Faulty forms.** Definitions named `...Mutant` are not part of the model. Each stands
before the definition it is a faulty form of (a dropped guard, a forgotten tie, a
missing trigger), and `PROJECT.json` says which property notices it.

## 4. Properties worth a word

- `FaultedSectionDead` is the reason the system exists. In the formal scenario the
  breaker is reclosed with no look at the network that results. What makes this safe
  is stated as `ProtectionAssumption` and is evaluated on both packages.
- `ProcedureWindow` and `ReassessmentNeverPermits` follow from the ageing of telemetry:
  a procedure begun too late after initialisation cannot be completed, and an
  assessment that lapsed cannot be replaced by one that permits. The only way on is a reset.
- `PermittedIsExact` bridges the network that is judged and the network that results.
- `ExactlyOnce` relates the logs of all runs to the stored results, for any number of copies
  of a request.
- `ResultsRestOnEvidence`: `finalise_execution` reads the snapshots before its
  transaction, and captures may be under way. It holds because a result needs every
  required checkpoint, a capture is only begun for a required one, and a
  checkpoint has one snapshot.
- `ImplementsAtomicAttempts` says of all validation calls at once what the invariants say one
  by one: that decisions taken on an earlier reading cannot be told from decisions taken at the
  moment of the write. Faulty form: the transaction of `finalise_execution` without its
  conditions on the status, with which a suspended attempt becomes executed.
- `LinkedSuspensionsResolve`: the attempt's row is rewritten from a copy, which must not
  undo what the record names.
- `OneContextPerAttempt`: callers that prepare the same attempt store sources role by
  role, each in a transaction of its own. The key of the *first* role is the lock, and the
  caller that has it is the only one that ever reaches the freezing transaction; if it
  stops, the attempt can never have a context.
- `DeterminationRestsOnFindings` spans a dozen transactions: the verdict is computed from
  findings read outside the transaction, which may be stale only in ways that the
  triggers on late findings make harmless.
- `ImplementsAtomicDeterminations`: a context is stored in a transaction per role, its findings
  in one per criterion, and the verdict is computed before its transaction; none of this shows.
  Faulty form: the closure of selectors that lets two roles show one criterion, so that a
  finding depends on which of them is read.
- `OneOutcomeOfAll`: comparison, determination and suspension decide one attempt, and each
  checks tables the others do not.
- `ChainIsEvidence`: nothing in the schema relates a link to the verdict, configuration
  or baseline of what it names; it is the order of the transactions that does.
- `ChainIsPreserved` looks through the link to the execution and the snapshots it cites. A
  regression is linked before it is decided; comparison or determination may decide it later,
  once, and what is preserved of it until then is its run, its test and its snapshots.
- `OvertakenRunsStand`: whether a run is open is found out in one transaction and acted on in
  another, and both calls must ask again. Faulty form: `initialise` relies on the earlier answer,
  and a run that a client opened meanwhile is overtaken, open, and still takes commands.
- `PackagesShowTheirSource`: an archive is put together from many reads while the attempts and
  their runs go on. It may be left without a record, but what a registered package says of its source
  is what it would say today, and each constituent with a run comes with the row of that run, not
  ahead of it. Faulty form: an execution that is not finalised passes the boundary.
- `PackagesShowTheInvestigation`: links and summaries are read one by one while the
  investigation goes on, so a package may be behind it. It is never inconsistent: an outcome never
  comes without all of its evidence although the row is read before the snapshots, the packed execution is
  shown as in the package itself, and no role is shown without the roles before it. Faulty form:
  the related executions without the original.

## 5. Proofs

All obligations are checked by tlapm with Z3, Zenon and LS4. Nothing is assumed but the
named assumptions on constants, which TLC evaluates on every instance:
`NetworkAssumption` (every device touches one or two sections, ranks are distinct),
`DeviceAssumption` (a feeder's breaker is normally closed and no tie, ties are monitored: the
types and normal states both packages give their devices),
`ScenarioAssumption`, `NoRunAssumption`, `ValidationAssumption`, `LedgerAssumption`,
`NoResultAssumption`, `ExportAssumption` (shapes), `HistoryAssumption` (the databases clients find are as the
coordinator leaves them, without commands of these clients),
`DeterminationAssumption` (shapes; a target has at least one context role, as the method's
model demands), `KindAssumption` (the criteria of a method have distinct identities and each
has one kind), `InvestigationAssumption` (a run starts at N0 and the fault takes it to N1),
`FiniteAssumption` (a package lists its sections and devices), `ProtectionAssumption`: opening the breaker of a fault section's feeder de-energises the
section, and that breaker does not bound the formal fault section; and `SupplyAssumption`: each
feeder can carry its normal load, and with a fault's boundaries and its feeder's breaker open
only sections of that feeder are dead. The handlers take the last two for granted and never
check them; both packages satisfy them. `SupplyAssumption` is needed: on a network where a
fault leaves sections of several feeders dead, the capacity permissive compares less than the
alternate feeder will carry. `TieAssumption` says this of a network alone, for every state of
its devices: while a feeder reaches one end of a tie and not the other, the other end hangs
together with sections of one feeder only. A network with a second tie may break it; both
packages have one tie, and TLC evaluates it on every state of their devices.

| Theorem | Argument |
|---|---|
| `EnergisedMonotone`, `OpenBoundariesKill` (`GridProofs`) | fewer closed devices leave more enclosed sets; a section whose boundary devices are open is enclosed by itself and separated from every breaker |
| `IsolationOutlasts` (`GridReferenceProofs`) | the isolation proof reads only the section's boundaries |
| `WalksFindTheSupply` | the recursion of walks has a solution, and only one (two would differ at a least length). Each device more adds a section until the walks lead nowhere new, so after as many devices as there are sections they are enclosed; and every enclosed set holds them |
| `RadialIsOneWay` | a part grown from one section, a device at a time, needs one device fewer than it has sections. If some device is not the only way between its ends, the part can be grown without it and has one too many; if each is, none is left over. A breaker is counted as a node and as an edge and changes neither side; a second injection is the code's other conjunct |
| `PermittedTakesOnlyTheDead`, `ExactForOneFeeder` | `TakesOnlyTheDead` and `FeederLoad` on the permissives behind PERMITTED; the tie is no boundary of the fault, for through a dead section it would supply nothing |
| `PermittedStaysExact` | `ExactForOneFeeder` with `BeyondTheTie`: what a feeder reaches with the tie closed it reached before, or hangs together with the far end. The far end is dead and of the faulted feeder, by the candidate's choice; by `TieAssumption` so is all that hangs together with it, and the other feeders reach nothing new |
| `TypeCorrect` (`ScenarioSafetyProofs`) | `TypeOK` is not inductive: a handler reads the outage stored under the run's revision, which must be there. `TypeInv` adds `Len(outages) = revision + 1`; each handler's run is built in two steps, its values and its log, with a lemma for each |
| `FaultedSectionStaysDead` | the invariant `Contained` says, by label, what keeps the section dead: at N1, that what is closed is less than normal supply without the feeder's breaker, which suffices because opening a device energises nothing; from N2 on, that every boundary is open, and a device that closes after that is not one |
| `AtMostOneMutableRun` | inductive as it stands: a run is opened when none is open or by closing the open one |
| `HistoryIsPreserved` | per handler, from `TypeInv`: logs are appended to, clocks move forward |
| `OutageStaysCurrent` (`ScenarioEvidenceProofs`) | by the part `Shown` of the invariant `Sound`: a handler either operates one device and stores the outage of the new network under the new revision, or leaves devices and revision alone |
| `ProcedureKeepsItsWindow` | by `Dated`: until the fault is isolated a closed device, and until the tie is closed every device but the boundaries and the breaker, was last observed at initialisation; so a gate that finds it FRESH stands within the window |
| `InvalidationsAreEvidenced` | by `Evidenced`: only a run at N4 is assessed, the one assessment outstanding is the last, and whatever ends it records the event first |
| `NoReassessmentPermits` | by `Judged`, with `Dated` and `Staged`: at N4 nothing is operated, so a binding breaks by age alone; trust in an observation is lost and never regained (`ReassessmentNeverPermits` is not inductive: what the last assessment binds must be what the run still shows) |
| `EventsStayExplanatory` | by `Explained`, part by part: each handler appends at most one change of one device, one recalculation of the new revision, and stamps no event before the run's time |
| `OffersStayAccepted` | from `Sound`: the breaker is open where the offer to open boundaries is made, and a tie whose assessment still binds is open, for closed it would supply the candidate already |
| `RestorationIsSound` | `RestoredNetworkSound` is about one moment, its reasons about the steps before. `Kept`: until restoration nothing that is normally closed is open but the boundaries and the breaker, so whatever is dead is of the faulted feeder. `Restored`: the execution asks the permissives again of the telemetry as it is, and nothing is operated afterwards. Between the two, `TakesOnlyTheDead` and `FeederLoad` (`GridProofs`): if the network is radial once the tie is closed, two feeders share nothing, so the others reach nothing new and the alternate feeder only what was dead; and the load of a union is at most the sum of the loads, because `LoadOf`, a fold, is the cardinality of a set with one element per kW |
| `CoordinatorImplements` | under `Sound` each handler of one run maps to a step of `SupplyRestoration`, a handler of another run or a stale execution to a stutter; a new run to an initial state |
| `CommandsTakeEffectOnce` (`CommandLedgerProofs`) | each service is reduced to `Commits`: a result is stored under an identity that has none, together with what the command logs. `Accounted` says that log and result agree on every identity; an identity without a result is in no log, so a command that runs is new to all of them |
| `OneCommandWins` | `OneWinnerPerRevision` is not inductive: `SpentInv` adds that the revision a winner was sent on sight of is past, or its run is closed, and that neither comes back |
| `ReplacementsFindARun` | a step that closes the open run opens another, by type correctness of the calls |
| `ClientsTakeCoordinatorSteps`, `ClientsPreserveHistory` | whatever clients do, the rows take a step of `ScenarioRun` or none, so `HistoryIsPreserved` holds from every database they may find |
| `RowsAreWellFormed` (`ValidationProofs`) | `TypeOK` is inductive because it covers the calls: a call under way names rows that exist, and rows are never deleted |
| `AttemptsHaveOneOutcome` | the conditions of each writing transaction |
| `OutcomesStay` | from type correctness and one outcome, every write leaves an attempt with an outcome alone |
| `ResultsStaySupported` | by `EvidenceInv`: evidence and captures under way are of required checkpoints, so once a finalisation has read a complete set, nothing can be added to it and what it has read stays exact |
| `LinkedSuspensionsStayResolved` | by `BindingInv`: a bound attempt, and a bound copy of one that a suspension carries, names the run of its execution; an attempt with an execution is past NOT_STARTED, so it is never bound or entered again |
| `RepeatsStayOfFinished` | by `RepeatInv`: a start that has frozen a baseline holds it alone, and its source stays finalised |
| `AttemptsAreAtomic` | step by step under the mapping `Entry`. By `AtomicInv`, with the invariants above: an attempt that is still being started is known to its own call only, so it is as that call left it; a suspension's copy has the attempt's run, or none and then there is no execution, unless the attempt is suspended and the copy will not be written. `EvidenceInv` makes what a finalisation has read the evidence itself, `RepeatInv` gives a repeat its source |
| `DeterminationRowsAreWellFormed` (`DeterminationProofs`) | by `RowsInv`: a preparation has stored the roles it has passed, and rows only grow; includes `TypeOK` of the validation tables beside the determination's |
| `AttemptsHaveOneContext` | by `HolderInv`: a preparation past its first role, and a frozen context, each hold the first role's source, and no two hold the same |
| `AttemptsHaveOneOutcomeOfAll` | by `OutcomeInv`: an attempt with an execution of either kind is past NOT_STARTED and has none of the other kind, so the tables one transaction does not check are empty for it |
| `DeterminationsRestOnFindings` | by `FindingsInv`, which covers what the calls under way have read: findings are of the frozen sources, at most one per criterion, and once every criterion has its finding none can be added |
| `DeterminationsStay` | a determined attempt is EXECUTED and its set of findings complete; nothing writes either, and frozen sources are only added to |
| `DeterminationsAreAtomic` | step by step under the mapping `CaseOf`. By `CoherentInv`: the sources a preparation has stored are those of the one reading of its producers, which shows no machine criterion twice, so what is frozen is a function from roles, fixed at once, and its judgement is of all that is shown. `HolderInv`: a freezing finds no context of the attempt. `FindingsInv`: what a determination has read is every finding there is. `OutcomeInv`: an attempt that may still be decided has no outcome of any kind |
| `InvestigationRowsAreWellFormed` (`InvestigationProofs`) | by `InvestigationInv`, which covers rows and requests under way: runs and executions are only added |
| `OvertakenRunsGoOnStanding` | by `OpenIsLatest`: `initialise` adds a run only if none is open, a replacement closes the one that is, so at most the latest run is open; commands ask for an open run |
| `TheChainIsEvidence` | by the same invariant: a request acts on an execution of the test and the version it was begun for, and its preconditions on the chain are never taken back. A repeat is bound under the identity its frozen baseline reserved, so no client can bind it first, and no second request can |
| `TheChainIsPreserved` | every action keeps final executions, snapshots, defect, correction and links; comparison and determination take ACTIVE executions only, so what is final when it is linked stays, and a linked regression is decided at most once, with run, test and snapshots kept |
| `ExportsOnlyRead` (`ValidationProofs`) | each step of composites and exports is a step of the validation service or leaves its tables alone |
| `LinksStayResolvedForGood` | what a link names is executed or suspended, hence untouched (the lemma under `OutcomesStay`); a suspension after entry has its execution, by `BindingInv` |
| `DeterminationsAreSupported` | by `CompositeInv`: a complete draft has every required case, and the verdict of a link is what the tables say of the attempt it names |
| `PackagesGoOnShowing` | by `PackageInv`: a generation has its package's name for itself, holds what its source shows, and its archive is what it holds; what passes a boundary is final. A result's evidence is exact by `EvidenceInv`. The runs read and those still to be read are together those to be packed (`ReadSoFar`), and a run only advances (`RunsInv`) |
| `PackagesGoOnShowingTheInvestigation` | by `ChainInv`: a role is only taken after the ones before it, by an execution that bears it out, and stays taken; and by `SeenHolds`: what has been read holds in one direction for good. A row that showed an outcome was final before its snapshots were read, so these are all there are |
| `FirstBoundaryDecides` (`ValidationProofs`) | a gate that fails is at its boundary and one that lets pass is not. The facts are independent of the claim because a selected target leaves unresolved exactly the role that does not resolve (`SelectedResolves`), so a claimed role fails only where the target's would, and a claimed review is found only where the scope's would be |
| `ClaimsDoNotSelect` | the first boundary is one, and no boundary reads the claim, the cited sources or the actors |
| `FirstBoundaryIsFound` | the claim of a boundary can be refused at its own gate only |

**What `PermittedIsExact` needs.** It is not true of every network. Assessment is a stateless
service and the property speaks of every state of the devices: if a section of the alternate
feeder is itself dead and a second tie joins it to the faulted feeder, closing the first tie
feeds it too, and neither the candidate's sections nor the capacity permissive count it.
`PermittedTakesOnlyTheDead` is what holds on every network, `PermittedStaysExact` what holds
where ties add one feeder's sections, and `RestorationIsSound` says that the coordinator, under
`SupplyAssumption`, never overloads a feeder.

**Only model-checked.** Nothing: every property of a passing run is a theorem.

**Out of the prover's reach.** Liveness under fairness and `ENABLED`, of which there is none here.
Induction principles that take an operator as a parameter cannot be used either; the fold of
loads and the recursion of walks are treated by exhibiting a function that solves them and
taking a least counterexample (`WFMin`).

## 6. Where code and documents part

1. `constituent_race`: "a constituent scenario run may bind to only one validation
   execution". The check and the insertion are separate transactions and no key repeats the
   check, so two requests served at once both bind the run.
2. `entry_suspension`: DC-005 requires a suspension to link an execution that exists.
   `evaluate_suspension` takes the lifecycle position from its caller and for
   `PRE_EXECUTION_ENTRY` clears the links; such a record never resolves.
3. `late_evidence`: the I5 closeout says that a final result's evidence "is verified to
   equal the persisted evidence rows exactly". `finalise_result` lists the evidence of a
   scenario before its transaction and, unlike `finalise_execution`, does not require the
   checkpoints to be complete: a capture that commits in between is left out of a result
   that is then final.

Two more were met while modelling and have no run. `initialise_next_run` looks for an open
run in one transaction and opens its own in another: if a second request opens one in
between, the first is refused although it promises to preserve "any current run first". And
a repeat's baseline is stored in a transaction of its own before the repeat: if the process
stops in between, the baseline has no repeat, and its unique source bars every later one.

## 7. Not modelled

- *Showcase reset*: only the hosted showcase has it, and its data is disposable.
- *The payload of a suspension record*: failure codes, digests and the verifier's reports.
  The gates are functions of what is presented (`SuspensionClassifier`), and the lifecycle is
  modelled for one established condition. What the caller names (reference, field, position)
  is taken as what it presents: naming another reference may lead to another boundary.
- *Validation catalogue, source producers, adapters, normalisation*: tables and conversions
  without state; `Determination` models their result (see section 2) and the closure of
  selectors over roles. `_resolve_suspension_catalogue_source` likewise.
- *A repeat of a procedure, records of earlier application builds*: the first has the
  transactions of a scenario's repeat; the second are read-only.
- *Determinations and suspensions inside `Investigation`*: a determination is its verdict, either
  one, on an active execution with a snapshot; how it comes about is `Determination`. A suspension
  decides an attempt and leaves the execution's row alone. `export_chain` has the
  regression decided by a comparison where the program has it determined; a package shows the
  same of both, an outcome and the evidence beside it. The determination records a
  package adds (context, findings, sources) are frozen before the result exists and are left out.
- *What a package has of the configuration, the catalogue and the last snapshot's own copy of the
  run*: immutable, and functions of the source.
- *Workspace projection, front end*: read-only views; a client is modelled as anyone
  who acts on a snapshot.
- *Loading and verification of packages, migrations, hashing, build identity, scripts*:
  input and output. The keys and triggers the migrations create are modelled where
  they decide something.
- *Callers of `enter_attempt`*: nothing in the source calls it. Its transaction is modelled, and
  `AtomicAttempts` says what a suspension may do to an attempt that was entered meanwhile.

## 8. Plan

Done, in the order of importance: the grid calculations, the coordinator and its
invariants, linked runs and the abstract specification, the ledger, the validation
lifecycle, composites, determinations, the investigation, the export of evidence, the suspension classifier;
proofs of every invariant, action property and refinement that a run checks.

Next, extending the model: the showcase reset under requests in flight.

Everything the passing runs check is proved.

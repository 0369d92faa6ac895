---------------------------- MODULE CommandLedger ----------------------------
(***************************************************************************)
(* Clients, retries and stored command results around the scenario         *)
(* coordinator: execute, initialise, initialise_replacement_run and        *)
(* initialise_next_run, called from the threads that serve api/main.py.    *)
(*                                                                         *)
(* A client sends a command that a snapshot offered it, under an identity  *)
(* of its choice; the request or its answer may be lost, and the client    *)
(* may send the same request again.  Serving a request is one transaction, *)
(* except that initialise_next_run looks for a mutable run in a            *)
(* transaction of its own before the one that opens the run.               *)
(*                                                                         *)
(* Definitions named ...Mutant are faulty forms of the definition that     *)
(* follows them, as in GridTopology.                                       *)
(***************************************************************************)
EXTENDS ScenarioRun

CONSTANTS
  Clients,     \* callers, each with one request to make, as often as it takes
  ClientIds,   \* the command identities they use
  Openings,    \* the runs they ask for: records of mode, config and fault
  Histories,   \* the databases they may find: values of runs
  NoResult     \* nothing is stored under a command identity

ASSUME LedgerAssumption ==
  /\ ClientIds \subseteq CommandIds
  /\ Openings \subseteq [mode : Modes, config : Configs, fault : Sections]
  /\ Histories \subseteq [RunIds -> Run \cup {NoRun}]

\* The databases clients may find: every revision has its stored outage, as the
\* coordinator leaves them, and the commands in the logs are not of these clients.
ASSUME HistoryAssumption ==
  \A rows \in Histories : \A r \in RunIds : rows[r] # NoRun =>
    /\ Len(rows[r].outages) = rows[r].revision + 1
    /\ \A i \in DOMAIN rows[r].events : rows[r].events[i].command \notin ClientIds

RunCommands ==
  {"INITIATE_FAULT", "ACKNOWLEDGE_ALARM", "OPERATE_ISOLATION_DEVICE",
   "RESTORE_NORMAL_SOURCE", "ASSESS_RESTORATION", "EXECUTE_RESTORATION", "RESET_RUN"}
Request ==
  [kind : RunCommands, run : RunIds, target : Switches \cup {NoEntity},
   assessment : Nat, expected : Nat, t : Times]
    \cup [kind : {"INITIALISE", "NEXT_RUN"}, opening : Openings, t : Times]
Answers ==
  {"NONE", "ACCEPTED", "STALE_EXPECTED_REVISION", "SCENARIO_TIME_BEFORE_CURRENT",
   "RUN_CLOSED", "UNAVAILABLE", "RESTORATION_ASSESSMENT_INVALIDATED",
   "COMMAND_CONFLICT", "BOUNDARY_ERROR"}
Result == [request : Request, answer : Answers, events : SUBSET (RunIds \X Nat)]

ASSUME NoResultAssumption == NoResult \notin Result

VARIABLES
  ledger,      \* scenario_command_results: the stored result of an identity
  calls        \* what each client is waiting for

lvars == <<runs, ledger, calls>>

Idle == [phase |-> "IDLE"]

-----------------------------------------------------------------------------
(* Requests.                                                               *)

\* The request content, whose hash a stored result carries.
RunRequest(r, offer, t) ==
  [kind |-> offer.type, run |-> r, target |-> offer.target,
   assessment |-> offer.assessment, expected |-> runs[r].revision, t |-> t]
OpenRequest(kind, opening, t) == [kind |-> kind, opening |-> opening, t |-> t]

\* A client acts on the snapshot it has just read, at any time it likes.
OfferedBy(r) == {RunRequest(r, offer, t) : offer \in AllowedActions(runs[r]), t \in Times}
NewRuns ==
  {OpenRequest(kind, opening, t) :
     kind \in {"INITIALISE", "NEXT_RUN"}, opening \in Openings, t \in Times}
Requests == NewRuns \cup UNION {OfferedBy(r) : r \in {x \in RunIds : Live(x)}}

IsOpening(k) == calls[k].request.kind \in {"INITIALISE", "NEXT_RUN"}

Send(k, c, q) ==
  /\ calls[k] = Idle
  /\ q \in Requests
  /\ calls' = [calls EXCEPT ![k] =
                 [phase |-> "SENT", id |-> c, request |-> q, answer |-> "NONE"]]
  /\ UNCHANGED <<runs, ledger>>

\* has_mutable_run, and the branch initialise_next_run takes on its answer.
Peek(k) ==
  /\ calls[k].phase = "SENT"
  /\ calls[k].request.kind = "NEXT_RUN"
  /\ calls' = [calls EXCEPT ![k].phase =
                 IF \E r \in RunIds : Mutable(r) THEN "REPLACING" ELSE "INITIALISING"]
  /\ UNCHANGED <<runs, ledger>>

Initialising(k) ==
  \/ calls[k].phase = "INITIALISING"
  \/ calls[k].phase = "SENT" /\ calls[k].request.kind = "INITIALISE"
Replacing(k) == calls[k].phase = "REPLACING"
Executing(k) == calls[k].phase = "SENT" /\ ~ IsOpening(k)
Ready(k) == calls[k] # Idle /\ (Initialising(k) \/ Replacing(k) \/ Executing(k))

-----------------------------------------------------------------------------
(* Serving a request.                                                      *)

Answer(k, a) ==
  calls' = [calls EXCEPT ![k].phase = "ANSWERED", ![k].answer = a]

\* Only accepted commands are recognised when they come again.
StoredMutant(k) ==
  ledger[calls[k].id] # NoResult /\ ledger[calls[k].id].answer = "ACCEPTED"

\* _return_duplicate: the stored result, or a conflict if the identity was
\* used for another request.
Stored(k) == ledger[calls[k].id] # NoResult

ReturnDuplicate(k) ==
  /\ Ready(k)
  /\ Stored(k)
  /\ Answer(k, IF ledger[calls[k].id].request = calls[k].request
               THEN ledger[calls[k].id].answer ELSE "COMMAND_CONFLICT")
  /\ UNCHANGED <<runs, ledger>>

LogLength(run) == IF run = NoRun THEN 0 ELSE Len(run.events)

\* new_event_ids: what this transaction appends to the logs of the runs.
NewEvents ==
  UNION {{<<r, i>> : i \in LogLength(runs[r]) + 1 .. LogLength(runs'[r])} : r \in RunIds}

\* insert_command_result, in the transaction of the change itself.
Record(k, a) ==
  /\ ledger' = [ledger EXCEPT ![calls[k].id] =
       [request |-> calls[k].request, answer |-> a, events |-> NewEvents]]
  /\ Answer(k, a)

\* What a handler refuses without effect.
Unavailable(q) ==
  LET run == runs[q.run]
  IN  \/ q.kind = "INITIATE_FAULT" /\ ~ CanInitiateFault(run)
      \/ q.kind = "ACKNOWLEDGE_ALARM" /\ ~ CanAcknowledgeAlarm(run)
      \/ /\ q.kind = "OPERATE_ISOLATION_DEVICE"
         /\ ~ CanOperateIsolationDevice(run, q.target, q.t)
      \/ q.kind = "RESTORE_NORMAL_SOURCE" /\ ~ CanRestoreNormalSource(run, q.t)
      \/ q.kind = "ASSESS_RESTORATION" /\ ~ CanAssessRestoration(run, q.t)
      \/ /\ q.kind = "EXECUTE_RESTORATION"
         /\ ExecutionRequested(run, q.assessment) =>
              /\ BindingMatches(run, q.assessment, q.t)
              /\ ~ CanExecuteRestoration(run, q.assessment, q.t)

\* The expected revision is not compared.
RefusalMutant(q) ==
  IF q.t < runs[q.run].time THEN "SCENARIO_TIME_BEFORE_CURRENT"
  ELSE IF runs[q.run].status = "CLOSED" THEN "RUN_CLOSED"
  ELSE IF Unavailable(q) THEN "UNAVAILABLE"
  ELSE "NONE"

\* The checks of execute, in their order, and then the handler's own.
Refusal(q) ==
  IF q.expected # runs[q.run].revision THEN "STALE_EXPECTED_REVISION"
  ELSE IF q.t < runs[q.run].time THEN "SCENARIO_TIME_BEFORE_CURRENT"
  ELSE IF runs[q.run].status = "CLOSED" THEN "RUN_CLOSED"
  ELSE IF Unavailable(q) THEN "UNAVAILABLE"
  ELSE "NONE"

Refuse(k) ==
  /\ Executing(k) /\ ~ Stored(k)
  /\ Refusal(calls[k].request) # "NONE"
  /\ UNCHANGED runs
  /\ Record(k, Refusal(calls[k].request))

Perform(q, c) ==
  \/ q.kind = "INITIATE_FAULT" /\ InitiateFault(q.run, q.t, c)
  \/ q.kind = "ACKNOWLEDGE_ALARM" /\ AcknowledgeAlarm(q.run, q.t, c)
  \/ /\ q.kind = "OPERATE_ISOLATION_DEVICE"
     /\ OperateIsolationDevice(q.run, q.target, q.t, c)
  \/ q.kind = "RESTORE_NORMAL_SOURCE" /\ RestoreNormalSource(q.run, q.t, c)
  \/ q.kind = "ASSESS_RESTORATION" /\ AssessRestoration(q.run, q.t, c)
  \/ /\ q.kind = "EXECUTE_RESTORATION"
     /\ ExecuteRestoration(q.run, q.assessment, q.t, c)
  \/ q.kind = "RESET_RUN" /\ \E n \in RunIds : ResetRun(q.run, n, q.t, c)

Accept(k) ==
  /\ Executing(k) /\ ~ Stored(k)
  /\ Refusal(calls[k].request) = "NONE"
  /\ Perform(calls[k].request, calls[k].id)
  /\ Record(k, "ACCEPTED")

\* The refusal that changes the run: the assessment is no longer current.
Lapse(k) ==
  LET q == calls[k].request
  IN  /\ Executing(k) /\ ~ Stored(k)
      /\ q.kind = "EXECUTE_RESTORATION"
      /\ Refusal(q) = "NONE"
      /\ InvalidateAssessment(q.run, q.assessment, q.t, calls[k].id)
      /\ Record(k, "RESTORATION_ASSESSMENT_INVALIDATED")

OpenRun(k) ==
  LET q == calls[k].request
      o == q.opening
  IN  /\ Initialising(k) \/ Replacing(k)
      /\ ~ Stored(k)
      /\ \E n \in RunIds :
           \/ /\ Initialising(k)
              /\ Initialise(n, o.mode, o.config, o.fault, q.t, calls[k].id)
           \/ /\ Replacing(k)
              /\ \E r \in RunIds :
                   ReplaceRun(r, n, o.mode, o.config, o.fault, q.t, calls[k].id)
      /\ Record(k, "ACCEPTED")

\* ScenarioBoundaryError, raised when a plain initialisation finds a mutable
\* run, a replacement finds none, or the request is not valid, rolls the
\* transaction back: no result is stored.
OutOfBounds(k) ==
  LET o == calls[k].request.opening
      someMutable == \E r \in RunIds : Mutable(r)
  IN  /\ Initialising(k) \/ Replacing(k)
      /\ ~ Stored(k)
      /\ Replacing(k) = someMutable => ~ ValidInitialisation(o.mode, o.config, o.fault)
      /\ Answer(k, "BOUNDARY_ERROR")
      /\ UNCHANGED <<runs, ledger>>

Serve(k) ==
  \/ Peek(k)
  \/ ReturnDuplicate(k)
  \/ Refuse(k)
  \/ Accept(k)
  \/ Lapse(k)
  \/ OpenRun(k)
  \/ OutOfBounds(k)

-----------------------------------------------------------------------------
(* The client's side of a failure.                                         *)

\* Before the commit a crash or a failing write rolls everything back; after
\* it the answer may still be lost.  The client cannot tell which.
Lose(k) ==
  /\ calls[k].phase \in {"SENT", "REPLACING", "INITIALISING", "ANSWERED"}
  /\ calls' = [calls EXCEPT ![k].phase = "LOST", ![k].answer = "NONE"]
  /\ UNCHANGED <<runs, ledger>>

Retry(k) ==
  /\ calls[k].phase = "LOST"
  /\ calls' = [calls EXCEPT ![k].phase = "SENT"]
  /\ UNCHANGED <<runs, ledger>>

LedgerInit ==
  /\ runs \in Histories
  /\ ledger = [c \in ClientIds |-> NoResult]
  /\ calls = [k \in Clients |-> Idle]

LedgerNext ==
  \E k \in Clients :
    \/ \E c \in ClientIds : \E q \in Requests : Send(k, c, q)
    \/ Serve(k)
    \/ Lose(k)
    \/ Retry(k)

LedgerSpec == LedgerInit /\ [][LedgerNext]_lvars

-----------------------------------------------------------------------------
(* What clients may rely on.                                               *)

Accepted(c) == ledger[c] # NoResult /\ ledger[c].answer = "ACCEPTED"

\* A command takes effect once however often it is sent: the events in the
\* logs that carry its identity are the ones its stored result lists, and
\* there are none if no result is stored.
ExactlyOnce ==
  \A c \in ClientIds :
    {e \in UNION {{<<r, i>> : i \in 1 .. LogLength(runs[r])} : r \in RunIds} :
       runs[e[1]].events[e[2]].command = c}
      = IF ledger[c] = NoResult THEN {} ELSE ledger[c].events

\* Optimistic concurrency: of the commands that operate a device or reset the
\* run and were sent on sight of the same revision of the same run, one wins.
Exclusive ==
  {"INITIATE_FAULT", "OPERATE_ISOLATION_DEVICE", "RESTORE_NORMAL_SOURCE",
   "EXECUTE_RESTORATION", "RESET_RUN"}

OneWinnerPerRevision ==
  \A c, d \in ClientIds :
    /\ Accepted(c) /\ ledger[c].request.kind \in Exclusive
    /\ Accepted(d) /\ ledger[d].request.kind \in Exclusive
    /\ ledger[c].request.run = ledger[d].request.run
    /\ ledger[c].request.expected = ledger[d].request.expected
    => c = d

\* What initialise_next_run saw before its own transaction still stands when
\* it decided to replace: the run it saw may have been closed meanwhile, but
\* then another took its place in the same transaction.
ReplacementFindsARun ==
  \A k \in Clients : Replacing(k) => \E r \in RunIds : Mutable(r)
=============================================================================

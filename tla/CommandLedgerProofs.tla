------------------------- MODULE CommandLedgerProofs -------------------------
(***************************************************************************)
(* What the command ledger promises its clients, for every set of clients  *)
(* and requests: a command takes effect exactly once however often it is   *)
(* sent, one command wins a revision, a replacement finds its run, and what*)
(* clients do to the rows are steps of the coordinator.                    *)
(*                                                                         *)
(* Each service is reduced to what it answers and to what it commits; the  *)
(* invariant says, of every request under way, what the ledger holds of it.*)
(***************************************************************************)
EXTENDS CommandLedger, ScenarioEvidenceProofs

-----------------------------------------------------------------------------
(* Types.                                                                  *)

Call ==
  [phase : {"SENT", "REPLACING", "INITIALISING", "ANSWERED", "LOST"},
   id : ClientIds, request : Request, answer : Answers]

LedgerType ==
  /\ TypeInv
  /\ ledger \in [ClientIds -> Result \cup {NoResult}]
  /\ calls \in [Clients -> Call \cup {Idle}]

\* The fields of a request, by what it asks for.
LEMMA RequestFields ==
  ASSUME NEW q \in Request
  PROVE  /\ q.t \in Times
         /\ q.kind \in RunCommands =>
              /\ q.run \in RunIds /\ q.target \in Switches \cup {NoEntity}
              /\ q.assessment \in Nat /\ q.expected \in Nat
         /\ q.kind \notin RunCommands =>
              q.kind \in {"INITIALISE", "NEXT_RUN"} /\ q.opening \in Openings
BY DEF Request, RunCommands

LEMMA OpeningFields ==
  ASSUME NEW o \in Openings
  PROVE  o.mode \in Modes /\ o.config \in Configs /\ o.fault \in Sections
BY LedgerAssumption DEF LedgerAssumption

\* The fields of a call that is under way.
LEMMA CallFields ==
  ASSUME LedgerType, NEW k \in Clients, calls[k] # Idle
  PROVE  /\ calls[k] \in Call
         /\ calls[k].id \in ClientIds /\ calls[k].id \in CommandIds
         /\ calls[k].request \in Request
BY LedgerAssumption DEF LedgerType, Call, LedgerAssumption

LEMMA IdleIsNoCall == Idle \notin Call /\ Idle.phase = "IDLE"
BY DEF Idle, Call

\* What a snapshot offers can be sent.
LEMMA OffersAreRequests ==
  ASSUME NEW run \in WellFormed, NEW x \in AllowedActions(run)
  PROVE  /\ x.type \in RunCommands /\ x.target \in Switches \cup {NoEntity}
         /\ x.assessment \in Nat
<1>1. LastAssessment(run) \in Nat /\ 0 \in Nat
  BY Fields DEF LastAssessment
<1>2. ASSUME NEW type \in RunCommands, NEW available, x \in Offered(type, available)
      PROVE  x = Action3(type, NoEntity, 0)
  BY <1>2 DEF Offered
<1>3. \/ \E type \in RunCommands : x = Action3(type, NoEntity, 0)
      \/ \E d \in Switches : x = Action3("OPERATE_ISOLATION_DEVICE", d, 0)
      \/ x = Action3("EXECUTE_RESTORATION", NoEntity, LastAssessment(run))
  <2>1. x \in UNION {
    Offered("INITIATE_FAULT", run.label = "N0" /\ ~ run.faultActive),
    Offered("ACKNOWLEDGE_ALARM", run.alarm = "UNACKNOWLEDGED"),
    {Action3("OPERATE_ISOLATION_DEVICE", d, 0) :
       d \in {e \in Switches : CanOperateIsolationDevice(run, e, run.time)}},
    Offered("RESTORE_NORMAL_SOURCE",
      /\ run.label = "N2"
      /\ FaultIsolated(run, run.time)
      /\ run.mode = "FORMAL" \/ RecloseAvailable(run, run.time)),
    Offered("ASSESS_RESTORATION", CanAssessRestoration(run, run.time)),
    {Action3("EXECUTE_RESTORATION", NoEntity, a) :
       a \in {b \in {LastAssessment(run)} :
                run.label = "N4" /\ CurrentExecutable(run)}},
    Offered("RESET_RUN", TRUE)}
    BY DEF AllowedActions
  <2> QED
    BY <2>1 DEF Offered, RunCommands
<1>4. \A type, d, a : LET y == Action3(type, d, a)
                      IN  y.type = type /\ y.target = d /\ y.assessment = a
  BY DEF Action3
<1> QED
  BY <1>1, <1>3, <1>4 DEF RunCommands

LEMMA RequestsType ==
  ASSUME TypeInv PROVE Requests \subseteq Request
<1>1. ASSUME NEW r \in RunIds, Live(r), NEW x \in AllowedActions(runs[r]), NEW t \in Times
      PROVE  RunRequest(r, x, t) \in Request
  <2>1. runs[r] \in WellFormed /\ runs[r].revision \in Nat
    BY <1>1, LiveType, Fields
  <2>2. /\ x.type \in RunCommands /\ x.target \in Switches \cup {NoEntity}
        /\ x.assessment \in Nat
    BY <2>1, OffersAreRequests
  <2> QED
    BY <2>1, <2>2 DEF RunRequest, Request
<1>2. ASSUME NEW kind \in {"INITIALISE", "NEXT_RUN"}, NEW o \in Openings, NEW t \in Times
      PROVE  OpenRequest(kind, o, t) \in Request
  BY DEF OpenRequest, Request
<1>3. ASSUME NEW r \in RunIds, Live(r) PROVE OfferedBy(r) \subseteq Request
  BY <1>1, <1>3 DEF OfferedBy
<1>4. NewRuns \subseteq Request
  BY <1>2 DEF NewRuns
<1> QED
  BY <1>3, <1>4 DEF Requests

-----------------------------------------------------------------------------
(* The coordinator goes on under its clients.                              *)

\* What command c may do to the database.
CommandStep(c) ==
  \E t \in Times :
    \/ \E n \in RunIds, mode \in Modes, g \in Configs, fault \in Sections :
         \/ Initialise(n, mode, g, fault, t, c)
         \/ \E r \in RunIds : ReplaceRun(r, n, mode, g, fault, t, c)
    \/ \E r \in RunIds : \/ Live(r) /\ RunCommand(r, t, c)
                         \/ \E n \in RunIds : ResetRun(r, n, t, c)

LEMMA CommandIsNext ==
  ASSUME NEW c \in CommandIds, CommandStep(c) PROVE Next
BY DEF CommandStep, Next

\* An execution that was asked for names an assessment of the run.
LEMMA RequestedAssessment ==
  ASSUME NEW run \in WellFormed, NEW a, ExecutionRequested(run, a)
  PROVE  a \in DOMAIN run.assessments
BY Fields DEF ExecutionRequested, Outstanding, LastAssessment

LEMMA BoundaryType ==
  ASSUME NEW run, NEW d, Boundary(run, d) PROVE d \in Switches
BY DEF Boundary, Incident

LEMMA PerformCommands ==
  ASSUME TypeInv, NEW c, NEW q \in Request, Perform(q, c)
  PROVE  CommandStep(c)
<1>0. q.t \in Times
  BY RequestFields
<1>1. CASE q.kind = "RESET_RUN" /\ \E n \in RunIds : ResetRun(q.run, n, q.t, c)
  BY <1>0, <1>1, RequestFields DEF CommandStep, RunCommands
<1>2. CASE ~ (q.kind = "RESET_RUN" /\ \E n \in RunIds : ResetRun(q.run, n, q.t, c))
  <2>1. q.run \in RunIds
    BY <1>2, RequestFields DEF Perform, RunCommands
  <2>2. Live(q.run) /\ runs[q.run] \in WellFormed
    <3>1. Current(q.run, q.t)
      BY <1>2 DEF Perform, InitiateFault, AcknowledgeAlarm, OperateIsolationDevice,
                  RestoreNormalSource, AssessRestoration, ExecuteRestoration
    <3> QED
      BY <2>1, <3>1, LiveType DEF Current, Mutable
  <2>3. RunCommand(q.run, q.t, c)
    <3>1. OperateIsolationDevice(q.run, q.target, q.t, c) => q.target \in Switches
      BY BoundaryType DEF OperateIsolationDevice, CanOperateIsolationDevice
    <3>2. ExecuteRestoration(q.run, q.assessment, q.t, c) =>
            q.assessment \in DOMAIN runs[q.run].assessments
      BY <2>2, RequestedAssessment DEF ExecuteRestoration, CanExecuteRestoration
    <3> QED
      BY <1>2, <3>1, <3>2 DEF Perform, RunCommand
  <2> QED
    BY <1>0, <2>1, <2>2, <2>3 DEF CommandStep
<1> QED
  BY <1>1, <1>2

LEMMA LapseCommands ==
  ASSUME TypeInv, NEW q \in Request, NEW c, q.kind = "EXECUTE_RESTORATION",
         InvalidateAssessment(q.run, q.assessment, q.t, c)
  PROVE  CommandStep(c)
<1>1. q.run \in RunIds /\ q.t \in Times
  BY RequestFields DEF RunCommands
<1>2. Live(q.run) /\ runs[q.run] \in WellFormed
  BY <1>1, LiveType DEF InvalidateAssessment, Current, Mutable
<1>3. q.assessment \in DOMAIN runs[q.run].assessments
  BY <1>2, RequestedAssessment DEF InvalidateAssessment
<1>4. RunCommand(q.run, q.t, c)
  BY <1>3 DEF RunCommand
<1> QED
  BY <1>1, <1>2, <1>4 DEF CommandStep

LEMMA OpenCommands ==
  ASSUME NEW q \in Request, q.kind \in {"INITIALISE", "NEXT_RUN"}, NEW c, NEW n \in RunIds,
         \/ Initialise(n, q.opening.mode, q.opening.config, q.opening.fault, q.t, c)
         \/ \E r \in RunIds :
              ReplaceRun(r, n, q.opening.mode, q.opening.config, q.opening.fault, q.t, c)
  PROVE  CommandStep(c)
<1>1. q.t \in Times /\ q.opening \in Openings
  BY RequestFields DEF RunCommands
<1>2. q.opening.mode \in Modes /\ q.opening.config \in Configs /\ q.opening.fault \in Sections
  BY <1>1, OpeningFields
<1> QED
  BY <1>1, <1>2 DEF CommandStep

\* Whoever opens a run asked for that.
OpeningsOK ==
  \A k \in Clients : calls[k] # Idle /\ calls[k].phase \in {"INITIALISING", "REPLACING"} => IsOpening(k)

\* The transaction of client k: its result is stored under an identity that has none,
\* with the answer and the events of what its command did, if it did anything.
Commits(k, a) ==
  /\ calls[k] # Idle /\ ~ Stored(k)
  /\ Record(k, a)
  /\ UNCHANGED runs \/ CommandStep(calls[k].id)
  /\ a = "ACCEPTED" => Accept(k) \/ OpenRun(k)

LEMMA ServedCommits ==
  ASSUME LedgerType, OpeningsOK, NEW k \in Clients,
         Refuse(k) \/ Accept(k) \/ Lapse(k) \/ OpenRun(k)
  PROVE  \E a \in Answers \ {"NONE"} : Commits(k, a)
<1>2. calls[k].phase # "IDLE" => calls[k] # Idle
  BY IdleIsNoCall
<1>3. CASE Refuse(k)
  <2>1. /\ Refusal(calls[k].request) \in Answers \ {"NONE"}
        /\ Refusal(calls[k].request) # "ACCEPTED"
    BY <1>3 DEF Refuse, Refusal, Answers
  <2> QED
    BY <1>2, <1>3, <2>1 DEF Refuse, Executing, Commits
<1>4. CASE Accept(k)
  <2>1. calls[k] # Idle /\ calls[k].request \in Request
    BY <1>2, <1>4, CallFields DEF Accept, Executing
  <2>2. CommandStep(calls[k].id)
    BY <1>4, <2>1, PerformCommands DEF Accept, LedgerType
  <2>3. "ACCEPTED" \in Answers \ {"NONE"}
    BY DEF Answers
  <2> QED
    BY <1>4, <2>1, <2>2, <2>3 DEF Accept, Commits
<1>5. CASE Lapse(k)
  <2>1. calls[k] # Idle /\ calls[k].request \in Request
    BY <1>2, <1>5, CallFields DEF Lapse, Executing
  <2>2. CommandStep(calls[k].id)
    BY <1>5, <2>1, LapseCommands DEF Lapse, LedgerType
  <2>3. "RESTORATION_ASSESSMENT_INVALIDATED" \in Answers \ {"NONE"}
    BY DEF Answers
  <2> QED
    BY <1>5, <2>1, <2>2, <2>3 DEF Lapse, Commits
<1>6. CASE OpenRun(k)
  <2>1. calls[k] # Idle /\ calls[k].request \in Request
    BY <1>2, <1>6, CallFields DEF OpenRun, Initialising, Replacing
  <2>2. calls[k].request.kind \in {"INITIALISE", "NEXT_RUN"}
    BY <1>6, <2>1 DEF OpenRun, Initialising, Replacing, OpeningsOK, IsOpening
  <2>3. CommandStep(calls[k].id)
    <3>1. PICK n \in RunIds :
            LET q == calls[k].request
            IN  \/ Initialise(n, q.opening.mode, q.opening.config, q.opening.fault, q.t,
                              calls[k].id)
                \/ \E r \in RunIds :
                     ReplaceRun(r, n, q.opening.mode, q.opening.config, q.opening.fault,
                                q.t, calls[k].id)
      BY <1>6 DEF OpenRun
    <3> QED
      BY <2>1, <2>2, <3>1, OpenCommands
  <2>4. "ACCEPTED" \in Answers \ {"NONE"}
    BY DEF Answers
  <2> QED
    BY <1>6, <2>1, <2>3, <2>4 DEF OpenRun, Commits
<1> QED
  BY <1>3, <1>4, <1>5, <1>6

-----------------------------------------------------------------------------
(* Types are kept.                                                         *)

LEMMA LogLengthType ==
  ASSUME NEW run \in WellFormed \cup {NoRun} PROVE LogLength(run) \in Nat
BY NotARun, Fields DEF LogLength

\* A step that changes the call of client k alone.
LEMMA CallMoves ==
  ASSUME LedgerType, NEW k \in Clients, calls[k] # Idle,
         NEW p \in {"SENT", "REPLACING", "INITIALISING", "ANSWERED", "LOST"},
         NEW a \in Answers,
         calls' = [calls EXCEPT ![k].phase = p, ![k].answer = a]
  PROVE  /\ calls' \in [Clients -> Call \cup {Idle}]
         /\ calls'[k].phase = p /\ calls'[k].id = calls[k].id
         /\ calls'[k].request = calls[k].request
         /\ \A j \in Clients : j # k => calls'[j] = calls[j]
<1>1. calls \in [Clients -> Call \cup {Idle}] /\ calls[k] \in Call
  BY CallFields DEF LedgerType
<1>2. calls' = [calls EXCEPT ![k] = [[calls[k] EXCEPT !.phase = p] EXCEPT !.answer = a]]
  BY <1>1
<1>3. LET new == [[calls[k] EXCEPT !.phase = p] EXCEPT !.answer = a]
      IN  /\ new \in Call /\ new.phase = p /\ new.id = calls[k].id
          /\ new.request = calls[k].request
  BY <1>1 DEF Call
<1> QED
  BY <1>1, <1>2, <1>3

LEMMA NewEventsType ==
  ASSUME TypeInv, TypeInv' PROVE NewEvents \in SUBSET (RunIds \X Nat)
<1>1. \A r \in RunIds : LogLength(runs[r]) \in Nat /\ LogLength(runs'[r]) \in Nat
  BY LogLengthType DEF TypeInv
<1> QED
  BY <1>1 DEF NewEvents

LEMMA CommitType ==
  ASSUME LedgerType, NEW k \in Clients, NEW a \in Answers, Commits(k, a)
  PROVE  /\ LedgerType'
         /\ calls'[k].phase = "ANSWERED"
         /\ \A j \in Clients : j # k => calls'[j] = calls[j]
         /\ ledger'[calls[k].id] =
              [request |-> calls[k].request, answer |-> a, events |-> NewEvents]
         /\ ledger'[calls[k].id] # NoResult
         /\ \A c \in ClientIds : c # calls[k].id => ledger'[c] = ledger[c]
<1>0. calls[k] # Idle /\ calls[k].id \in ClientIds /\ calls[k].id \in CommandIds
        /\ calls[k].request \in Request /\ ledger \in [ClientIds -> Result \cup {NoResult}]
  BY CallFields DEF Commits, LedgerType
<1>1. TypeInv'
  BY <1>0, CommandIsNext, TypeStep DEF Commits, LedgerType, TypeInv
<1> DEFINE row == [request |-> calls[k].request, answer |-> a, events |-> NewEvents]
<1>2. row \in Result /\ row # NoResult
  <2>1. NewEvents \in SUBSET (RunIds \X Nat)
    BY <1>1, NewEventsType DEF LedgerType
  <2>2. row \in Result
    BY <1>0, <2>1 DEF Result
  <2> QED
    BY <2>2, NoResultAssumption
<1>3. /\ ledger' = [ledger EXCEPT ![calls[k].id] = row]
      /\ calls' = [calls EXCEPT ![k].phase = "ANSWERED", ![k].answer = a]
  BY DEF Commits, Record, Answer
<1> HIDE DEF row
<1>4. /\ ledger' \in [ClientIds -> Result \cup {NoResult}] /\ ledger'[calls[k].id] = row
      /\ \A c \in ClientIds : c # calls[k].id => ledger'[c] = ledger[c]
  BY <1>0, <1>2, <1>3
<1>5. /\ calls' \in [Clients -> Call \cup {Idle}] /\ calls'[k].phase = "ANSWERED"
      /\ \A j \in Clients : j # k => calls'[j] = calls[j]
  BY <1>0, <1>3, CallMoves
<1> QED
  BY <1>1, <1>2, <1>4, <1>5 DEF LedgerType, row

LEMMA SendType ==
  ASSUME LedgerType, OpeningsOK, NEW k \in Clients, NEW c \in ClientIds, NEW q \in Requests,
         Send(k, c, q)
  PROVE  LedgerType' /\ OpeningsOK' /\ UNCHANGED <<runs, ledger>>
<1> DEFINE new == [phase |-> "SENT", id |-> c, request |-> q, answer |-> "NONE"]
<1>1. q \in Request
  BY RequestsType DEF LedgerType
<1>2. new \in Call
  BY <1>1 DEF Call, Answers
<1>3. calls' = [calls EXCEPT ![k] = new] /\ UNCHANGED <<runs, ledger>>
  BY DEF Send
<1>4. new.phase = "SENT"
  OBVIOUS
<1> HIDE DEF new
<1>5. LedgerType'
  BY <1>2, <1>3 DEF LedgerType, TypeInv
<1>6. calls'[k].phase = "SENT" /\ \A j \in Clients : j # k => calls'[j] = calls[j]
  BY <1>3, <1>4 DEF LedgerType
<1>7. OpeningsOK'
  BY <1>6 DEF OpeningsOK, IsOpening
<1> QED
  BY <1>3, <1>5, <1>7

\* A step that moves one call on, to a phase other than those in which a run is opened.
LEMMA PhaseMoves ==
  ASSUME LedgerType, OpeningsOK, NEW k \in Clients, calls[k] # Idle,
         NEW p \in {"SENT", "REPLACING", "INITIALISING", "ANSWERED", "LOST"},
         NEW a \in Answers, p \in {"REPLACING", "INITIALISING"} => IsOpening(k),
         calls' = [calls EXCEPT ![k].phase = p, ![k].answer = a],
         UNCHANGED <<runs, ledger>>
  PROVE  LedgerType' /\ OpeningsOK'
<1>1. /\ calls' \in [Clients -> Call \cup {Idle}]
      /\ calls'[k].phase = p /\ calls'[k].request = calls[k].request
      /\ \A j \in Clients : j # k => calls'[j] = calls[j]
  BY CallMoves
<1>2. LedgerType'
  BY <1>1 DEF LedgerType, TypeInv
<1>3. OpeningsOK'
  BY <1>1 DEF OpeningsOK, IsOpening
<1> QED
  BY <1>2, <1>3

\* The answer stays when only the phase moves.
LEMMA PhaseAlone ==
  ASSUME LedgerType, NEW k \in Clients, calls[k] # Idle, NEW p,
         calls' = [calls EXCEPT ![k].phase = p]
  PROVE  /\ calls[k].answer \in Answers
         /\ calls' = [calls EXCEPT ![k].phase = p, ![k].answer = calls[k].answer]
<1>1. calls \in [Clients -> Call \cup {Idle}] /\ calls[k] \in Call
  BY CallFields DEF LedgerType
<1>2. [calls[k] EXCEPT !.phase = p]
        = [[calls[k] EXCEPT !.phase = p] EXCEPT !.answer = calls[k].answer]
  BY <1>1 DEF Call
<1>3. calls' = [calls EXCEPT ![k] = [calls[k] EXCEPT !.phase = p]]
  BY <1>1
<1> QED
  BY <1>1, <1>2, <1>3 DEF Call

LEMMA LedgerStep ==
  ASSUME LedgerType, OpeningsOK, LedgerNext
  PROVE  /\ LedgerType' /\ OpeningsOK'
         /\ \/ UNCHANGED <<runs, ledger>>
            \/ \E k \in Clients, a \in Answers \ {"NONE"} : Commits(k, a)
<1> DEFINE Effect == \/ UNCHANGED <<runs, ledger>>
                     \/ \E k \in Clients, a \in Answers \ {"NONE"} : Commits(k, a)
<1>1. ASSUME NEW k \in Clients, NEW c \in ClientIds, NEW q \in Requests, Send(k, c, q)
      PROVE  LedgerType' /\ OpeningsOK' /\ Effect
  BY <1>1, SendType
<1>2. ASSUME NEW k \in Clients, NEW a \in Answers \ {"NONE"}, Commits(k, a)
      PROVE  LedgerType' /\ OpeningsOK' /\ Effect
  <2>1. /\ LedgerType' /\ calls'[k].phase = "ANSWERED"
        /\ \A j \in Clients : j # k => calls'[j] = calls[j]
    BY <1>2, CommitType
  <2>2. OpeningsOK'
    BY <2>1 DEF OpeningsOK, IsOpening
  <2> QED
    BY <1>2, <2>1, <2>2
<1>3. ASSUME NEW k \in Clients, Peek(k)
      PROVE  LedgerType' /\ OpeningsOK' /\ Effect
  <2>1. PICK p \in {"REPLACING", "INITIALISING"} : calls' = [calls EXCEPT ![k].phase = p]
    BY <1>3 DEF Peek
  <2>2. calls[k] # Idle /\ IsOpening(k) /\ UNCHANGED <<runs, ledger>>
    BY <1>3, IdleIsNoCall DEF Peek, IsOpening
  <2>3. /\ calls[k].answer \in Answers
        /\ calls' = [calls EXCEPT ![k].phase = p, ![k].answer = calls[k].answer]
    BY <2>1, <2>2, PhaseAlone
  <2>4. LedgerType' /\ OpeningsOK'
    BY <2>2, <2>3, PhaseMoves
  <2> QED
    BY <2>2, <2>4
<1>4. ASSUME NEW k \in Clients, ReturnDuplicate(k)
      PROVE  LedgerType' /\ OpeningsOK' /\ Effect
  <2>1. calls[k] # Idle /\ Stored(k) /\ UNCHANGED <<runs, ledger>>
    BY <1>4 DEF ReturnDuplicate, Ready
  <2>2. ledger[calls[k].id] \in Result
    BY <2>1, CallFields DEF LedgerType, Stored
  <2>3. PICK a \in Answers : calls' = [calls EXCEPT ![k].phase = "ANSWERED", ![k].answer = a]
    BY <1>4, <2>2 DEF ReturnDuplicate, Answer, Answers, Result
  <2> QED
    BY <2>1, <2>3, PhaseMoves
<1>5. ASSUME NEW k \in Clients, OutOfBounds(k)
      PROVE  LedgerType' /\ OpeningsOK' /\ Effect
  <2>1. calls[k] # Idle /\ UNCHANGED <<runs, ledger>>
    BY <1>5, IdleIsNoCall DEF OutOfBounds, Initialising, Replacing
  <2>2. PICK a \in Answers : calls' = [calls EXCEPT ![k].phase = "ANSWERED", ![k].answer = a]
    BY <1>5 DEF OutOfBounds, Answer, Answers
  <2> QED
    BY <2>1, <2>2, PhaseMoves
<1>6. ASSUME NEW k \in Clients, Lose(k)
      PROVE  LedgerType' /\ OpeningsOK' /\ Effect
  <2>1. /\ calls[k] # Idle /\ UNCHANGED <<runs, ledger>> /\ "NONE" \in Answers
        /\ calls' = [calls EXCEPT ![k].phase = "LOST", ![k].answer = "NONE"]
    BY <1>6, IdleIsNoCall DEF Lose, Answers
  <2> QED
    BY <2>1, PhaseMoves
<1>7. ASSUME NEW k \in Clients, Retry(k)
      PROVE  LedgerType' /\ OpeningsOK' /\ Effect
  <2>1. /\ calls[k] # Idle /\ UNCHANGED <<runs, ledger>>
        /\ calls' = [calls EXCEPT ![k].phase = "SENT"]
    BY <1>7, IdleIsNoCall DEF Retry
  <2>2. /\ calls[k].answer \in Answers
        /\ calls' = [calls EXCEPT ![k].phase = "SENT", ![k].answer = calls[k].answer]
    BY <2>1, PhaseAlone
  <2>3. LedgerType' /\ OpeningsOK'
    BY <2>1, <2>2, PhaseMoves
  <2> QED
    BY <2>1, <2>3
<1>8. ASSUME NEW k \in Clients, Serve(k)
      PROVE  LedgerType' /\ OpeningsOK' /\ Effect
  <2>1. CASE Peek(k) \/ ReturnDuplicate(k) \/ OutOfBounds(k)
    BY <1>3, <1>4, <1>5, <2>1
  <2>2. CASE Refuse(k) \/ Accept(k) \/ Lapse(k) \/ OpenRun(k)
    <3>1. \E a \in Answers \ {"NONE"} : Commits(k, a)
      BY <2>2, ServedCommits
    <3> QED
      BY <1>2, <3>1
  <2> QED
    BY <1>8, <2>1, <2>2 DEF Serve
<1> QED
  BY <1>1, <1>6, <1>7, <1>8 DEF LedgerNext

-----------------------------------------------------------------------------
(* Whose events the logs hold.                                             *)

\* Command c appends to the log of a row, and to nothing else of it.
RowWrites(run, new, c) ==
  /\ LogLength(run) <= LogLength(new)
  /\ \A i \in 1 .. LogLength(new) :
       new.events[i].command = IF i <= LogLength(run) THEN run.events[i].command ELSE c

LEMMA RecordedCommand ==
  ASSUME NEW spec, NEW t, NEW revision, NEW c PROVE Recorded(spec, t, revision, c).command = c
BY DEF Recorded

LEMMA WritesRow ==
  ASSUME NEW run \in WellFormed, NEW t, NEW c, NEW specs \in Seq(EventSpec),
         NEW new \in WellFormed, Writes(run, t, c, specs, new)
  PROVE  RowWrites(run, new, c)
<1>1. /\ Len(new.events) = Len(run.events) + Len(specs)
      /\ \A i \in 1 .. Len(run.events) : new.events[i] = run.events[i]
      /\ \A i \in 1 .. Len(specs) :
           new.events[Len(run.events) + i] = Recorded(specs[i], t, new.revision, c)
  BY WrittenEvents
<1>2. /\ LogLength(run) = Len(run.events) /\ LogLength(new) = Len(new.events)
      /\ Len(run.events) \in Nat /\ Len(specs) \in Nat /\ Len(new.events) \in Nat
  BY NotARun, Fields DEF LogLength
<1>3. ASSUME NEW i \in 1 .. Len(specs)
      PROVE  new.events[Len(run.events) + i].command = c
  <2>1. new.events[Len(run.events) + i] = Recorded(specs[i], t, new.revision, c)
    BY <1>1
  <2> QED
    BY <2>1, RecordedCommand
<1>4. ASSUME NEW i \in 1 .. Len(new.events), ~ (i <= Len(run.events))
      PROVE  new.events[i].command = c
  <2>1. i - Len(run.events) \in 1 .. Len(specs)
    BY <1>1, <1>2, <1>4
  <2>2. Len(run.events) + (i - Len(run.events)) = i
    BY <1>2
  <2> QED
    BY <1>3, <2>1, <2>2
<1> QED
  BY <1>1, <1>2, <1>4 DEF RowWrites

LEMMA StartsRow ==
  ASSUME NEW mode, NEW g \in Configs, NEW fault, NEW t, NEW c,
         NEW new \in WellFormed, Starts(mode, g, fault, t, c, new)
  PROVE  RowWrites(NoRun, new, c)
<1> DEFINE specs == StartSpecs(g)
<1>1. specs \in Seq(EventSpec)
  BY SpecsType
<1>2. Inserts(<< >>, new.events, t, 0, c, specs) /\ << >> \in Seq(Event)
  BY DEF Starts, Inserts
<1> HIDE DEF specs
<1>3. Follow(<< >>, new.events, t, 0, c, specs)
  BY <1>1, <1>2, FollowingEvents
<1>4. /\ Len(new.events) = Len(specs) /\ Len(specs) \in Nat
      /\ \A i \in 1 .. Len(specs) : new.events[i] = Recorded(specs[i], t, 0, c)
  <2>1. Len(<< >>) = 0 /\ Len(specs) \in Nat
    BY <1>1
  <2>2. \A i \in 1 .. Len(specs) : Len(<< >>) + i = i
    BY <2>1
  <2>3. Len(<< >>) + Len(specs) = Len(specs)
    BY <2>1
  <2> QED
    BY <1>3, <2>1, <2>2, <2>3 DEF Follow
<1>5. LogLength(NoRun) = 0 /\ LogLength(new) = Len(specs)
  BY <1>4, NotARun DEF LogLength
<1>6. ASSUME NEW i \in 1 .. Len(specs)
      PROVE  new.events[i].command = c /\ ~ (i <= 0)
  <2>1. new.events[i] = Recorded(specs[i], t, 0, c) /\ ~ (i <= 0)
    BY <1>4
  <2> QED
    BY <2>1, RecordedCommand
<1> QED
  BY <1>4, <1>5, <1>6 DEF RowWrites

LEMMA UnchangedRow ==
  ASSUME NEW run \in WellFormed \cup {NoRun}, NEW c PROVE RowWrites(run, run, c)
BY LogLengthType DEF RowWrites

\* What a command writes it writes under its own identity.
Wrote(old, new, c) == \A r \in RunIds : RowWrites(old[r], new[r], c)

LEMMA HandledRow ==
  ASSUME NEW run \in WellFormed, NEW t \in Times, NEW c \in CommandIds,
         NEW new \in WellFormed, Handled(run, t, c, new)
  PROVE  RowWrites(run, new, c)
<1>1. PICK specs \in Seq(EventSpec) : Writes(run, t, c, specs, new)
  BY HandledWrites
<1> QED
  BY <1>1, WritesRow

LEMMA FollowedWrites ==
  ASSUME TypeInv, NEW r \in RunIds, NEW n \in RunIds, Mutable(r), ~ Live(n),
         NEW u \in Times, runs[r].time <= u, NEW c \in CommandIds, NEW mode \in Modes, NEW g \in Configs,
         NEW fault \in Sections, NEW t \in Times,
         runs' = [runs EXCEPT ![r] = Closed(runs[r], u, c),
                              ![n] = NewRun(mode, g, fault, t, c)]
  PROVE  Wrote(runs, runs', c)
<1> DEFINE run == runs[r]
           closed == Closed(run, u, c)
           new == NewRun(mode, g, fault, t, c)
<1>1. run \in WellFormed /\ runs \in [RunIds -> WellFormed \cup {NoRun}] /\ r # n
        /\ runs[n] = NoRun
  BY LiveType DEF Mutable, TypeInv, Live
<1> HIDE DEF run
<1>2. closed \in WellFormed /\ new \in WellFormed
  BY <1>1, ClosedType, NewRunType
<1>3. Closes(run, u, c, closed)
  BY <1>1, ClosedEffect DEF Closes
<1>4. RowWrites(run, closed, c)
  <2>1. Writes(run, u, c, ClosingSpecs(run), closed) /\ ClosingSpecs(run) \in Seq(EventSpec)
    BY <1>1, <1>3, SpecsType DEF Closes
  <2> HIDE DEF closed
  <2> QED
    BY <1>1, <1>2, <2>1, WritesRow
<1>5. RowWrites(NoRun, new, c)
  BY <1>2, NewRunEffect, StartsRow
<1>6. /\ runs'[r] = closed /\ runs'[n] = new
      /\ \A x \in RunIds : x # r /\ x # n => runs'[x] = runs[x]
  <2> HIDE DEF closed, new
  <2>1. runs' = [runs EXCEPT ![r] = closed, ![n] = new]
    BY DEF closed, new, run
  <2> QED
    BY <1>1, <2>1
<1> HIDE DEF closed, new
<1> QED
  BY <1>1, <1>4, <1>5, <1>6, UnchangedRow DEF Wrote, run

LEMMA CommandWrites ==
  ASSUME TypeInv, NEW c \in CommandIds, CommandStep(c)
  PROVE  Wrote(runs, runs', c)
<1>0. runs \in [RunIds -> WellFormed \cup {NoRun}]
  BY DEF TypeInv
<1>1. ASSUME NEW r \in RunIds, NEW new, runs' = [runs EXCEPT ![r] = new],
             RowWrites(runs[r], new, c)
      PROVE  Wrote(runs, runs', c)
  <2>1. runs'[r] = new /\ \A x \in RunIds : x # r => runs'[x] = runs[x]
    BY <1>0, <1>1
  <2> QED
    BY <1>0, <1>1, <2>1, UnchangedRow DEF Wrote
<1>2. PICK t \in Times :
        \/ \E n \in RunIds, mode \in Modes, g \in Configs, fault \in Sections :
             \/ Initialise(n, mode, g, fault, t, c)
             \/ \E r \in RunIds : ReplaceRun(r, n, mode, g, fault, t, c)
        \/ \E r \in RunIds : \/ Live(r) /\ RunCommand(r, t, c)
                             \/ \E n \in RunIds : ResetRun(r, n, t, c)
  BY DEF CommandStep
<1>3. ASSUME NEW n \in RunIds, NEW mode \in Modes, NEW g \in Configs, NEW fault \in Sections,
             Initialise(n, mode, g, fault, t, c)
      PROVE  Wrote(runs, runs', c)
  <2> DEFINE new == NewRun(mode, g, fault, t, c)
  <2>1. runs[n] = NoRun /\ runs' = [runs EXCEPT ![n] = new]
    BY <1>3 DEF Initialise, Live
  <2>2. RowWrites(NoRun, new, c)
    BY NewRunType, NewRunEffect, StartsRow
  <2> HIDE DEF new
  <2> QED
    BY <1>1, <2>1, <2>2
<1>4. ASSUME NEW r \in RunIds, NEW n \in RunIds, NEW mode \in Modes, NEW g \in Configs,
             NEW fault \in Sections, ReplaceRun(r, n, mode, g, fault, t, c)
      PROVE  Wrote(runs, runs', c)
  <2>1. Mutable(r) /\ ~ Live(n) /\ runs[r] \in WellFormed
    BY <1>4, LiveType DEF ReplaceRun, Mutable
  <2>2. runs[r].time \in Times /\ runs[r].time \in Nat
    BY <2>1, Fields, ScenarioAssumption DEF ScenarioAssumption
  <2>3. runs[r].time <= runs[r].time
    BY <2>2
  <2> QED
    BY <1>4, <2>1, <2>2, <2>3, FollowedWrites DEF ReplaceRun
<1>5. ASSUME NEW r \in RunIds, NEW n \in RunIds, ResetRun(r, n, t, c)
      PROVE  Wrote(runs, runs', c)
  <2>1. Mutable(r) /\ ~ Live(n) /\ runs[r] \in WellFormed /\ t >= runs[r].time
    BY <1>5, LiveType DEF ResetRun, Current, Mutable
  <2>2. /\ runs[r].mode \in Modes /\ runs[r].config \in Configs /\ runs[r].fault \in Sections
        /\ runs[r].initial \in Times /\ runs[r].time <= t
    BY <2>1, Fields, ScenarioAssumption DEF ScenarioAssumption
  <2> QED
    BY <1>5, <2>1, <2>2, FollowedWrites DEF ResetRun
<1>6. ASSUME NEW r \in RunIds, Live(r), RunCommand(r, t, c)
      PROVE  Wrote(runs, runs', c)
  <2>1. PICK new \in WellFormed :
          runs' = [runs EXCEPT ![r] = new] /\ Handled(runs[r], t, c, new)
    BY <1>6, CommandHandles
  <2> QED
    BY <1>1, <1>6, <2>1, LiveType, HandledRow
<1> QED
  BY <1>2, <1>3, <1>4, <1>5, <1>6

-----------------------------------------------------------------------------
(* Exactly once.                                                           *)

\* The log carries the identity c where the stored result of c says so, and the
\* result names events that are in the logs.
Accounted(c) ==
  /\ \A r \in RunIds : \A i \in 1 .. LogLength(runs[r]) :
       runs[r].events[i].command = c
         <=> ledger[c] # NoResult /\ <<r, i>> \in ledger[c].events
  /\ ledger[c] # NoResult =>
       \A e \in ledger[c].events : \E r \in RunIds : \E i \in 1 .. LogLength(runs[r]) : e = <<r, i>>

OnceInv == \A c \in ClientIds : Accounted(c)

LEMMA OnceIsExact ==
  ASSUME OnceInv PROVE ExactlyOnce
<1> SUFFICES ASSUME NEW c \in ClientIds
             PROVE  {e \in UNION {{<<r, i>> : i \in 1 .. LogLength(runs[r])} : r \in RunIds} :
                       runs[e[1]].events[e[2]].command = c}
                      = IF ledger[c] = NoResult THEN {} ELSE ledger[c].events
  BY DEF ExactlyOnce
<1> DEFINE logs == UNION {{<<r, i>> : i \in 1 .. LogLength(runs[r])} : r \in RunIds}
           mine == {e \in logs : runs[e[1]].events[e[2]].command = c}
           listed == IF ledger[c] = NoResult THEN {} ELSE ledger[c].events
<1>1. Accounted(c)
  BY DEF OnceInv
<1>2. ASSUME NEW e \in mine PROVE e \in listed
  <2>1. PICK r \in RunIds : \E i \in 1 .. LogLength(runs[r]) : e = <<r, i>>
    OBVIOUS
  <2>2. PICK i \in 1 .. LogLength(runs[r]) : e = <<r, i>>
    BY <2>1
  <2>3. runs[r].events[i].command = c
    BY <2>2
  <2> QED
    BY <1>1, <2>2, <2>3 DEF Accounted
<1>3. ASSUME NEW e \in listed PROVE e \in mine
  <2>1. ledger[c] # NoResult /\ e \in ledger[c].events
    OBVIOUS
  <2>2. PICK r \in RunIds : \E i \in 1 .. LogLength(runs[r]) : e = <<r, i>>
    BY <1>1, <2>1 DEF Accounted
  <2>3. PICK i \in 1 .. LogLength(runs[r]) : e = <<r, i>>
    BY <2>2
  <2>4. runs[r].events[i].command = c
    BY <1>1, <2>1, <2>3 DEF Accounted
  <2>5. e \in logs
    BY <2>3
  <2> QED
    BY <2>3, <2>4, <2>5
<1>4. mine = listed
  BY <1>2, <1>3
<1> QED
  BY <1>4

\* The events that a transaction adds are those past the ends of the old logs.
LEMMA NewEventsAre ==
  ASSUME NEW r \in RunIds, NEW i \in 1 .. LogLength(runs'[r]),
         LogLength(runs[r]) \in Nat, LogLength(runs'[r]) \in Nat
  PROVE  <<r, i>> \in NewEvents <=> ~ (i <= LogLength(runs[r]))
BY DEF NewEvents

LEMMA OnceCommit ==
  ASSUME LedgerType, LedgerType', OnceInv, NEW k \in Clients, NEW a \in Answers, Commits(k, a)
  PROVE  OnceInv'
<1>a. calls[k] # Idle /\ ledger[calls[k].id] = NoResult /\ TypeInv
  BY DEF Commits, Stored, LedgerType
<1>b. calls[k].id \in ClientIds /\ calls[k].id \in CommandIds
  BY <1>a, CallFields
<1>c. PICK c : c = calls[k].id
  OBVIOUS
<1>0. c \in ClientIds /\ c \in CommandIds /\ ledger[c] = NoResult /\ TypeInv
  BY <1>a, <1>b, <1>c
<1>1. /\ ledger'[c].events = NewEvents /\ ledger'[c] # NoResult
      /\ \A d \in ClientIds : d # c => ledger'[d] = ledger[d]
  <2>1. /\ ledger'[calls[k].id] =
             [request |-> calls[k].request, answer |-> a, events |-> NewEvents]
        /\ ledger'[calls[k].id] # NoResult
        /\ \A d \in ClientIds : d # calls[k].id => ledger'[d] = ledger[d]
    BY CommitType
  <2> QED
    BY <1>c, <2>1
<1>2. Wrote(runs, runs', c)
  <2>1. CASE UNCHANGED runs
    <3>1. \A r \in RunIds : runs[r] \in WellFormed \cup {NoRun}
      BY <1>0 DEF TypeInv
    <3> QED
      BY <2>1, <3>1, UnchangedRow DEF Wrote
  <2>2. CASE CommandStep(c)
    BY <1>0, <1>c, <2>2, CommandWrites
  <2> QED
    BY <1>c, <2>1, <2>2 DEF Commits
<1>3. \A r \in RunIds : LogLength(runs[r]) \in Nat /\ LogLength(runs'[r]) \in Nat
  BY LogLengthType DEF LedgerType, TypeInv
<1>4. Accounted(c)
  BY <1>0 DEF OnceInv
<1>5. ASSUME NEW r \in RunIds, NEW i \in 1 .. LogLength(runs'[r])
      PROVE  runs'[r].events[i].command
               = IF i <= LogLength(runs[r]) THEN runs[r].events[i].command ELSE c
  BY <1>2 DEF Wrote, RowWrites
<1>6. ASSUME NEW r \in RunIds, NEW i \in 1 .. LogLength(runs[r])
      PROVE  i \in 1 .. LogLength(runs'[r])
  <2>1. LogLength(runs[r]) <= LogLength(runs'[r])
    BY <1>2 DEF Wrote, RowWrites
  <2> QED
    BY <1>3, <2>1
<1>7. ASSUME NEW r \in RunIds, NEW i \in 1 .. LogLength(runs'[r])
      PROVE  runs'[r].events[i].command = c <=> <<r, i>> \in NewEvents
  <2>1. CASE i <= LogLength(runs[r])
    <3>1. i \in 1 .. LogLength(runs[r])
      BY <1>3, <2>1
    <3>2. runs[r].events[i].command # c
      BY <1>0, <1>4, <3>1 DEF Accounted
    <3> QED
      BY <1>3, <1>5, <2>1, <3>2, NewEventsAre
  <2>2. CASE ~ (i <= LogLength(runs[r]))
    BY <1>3, <1>5, <2>2, NewEventsAre
  <2> QED
    BY <2>1, <2>2
<1>8. Accounted(c)'
  <2>1. ASSUME NEW r \in RunIds, NEW i \in 1 .. LogLength(runs'[r])
        PROVE  runs'[r].events[i].command = c
                 <=> ledger'[c] # NoResult /\ <<r, i>> \in ledger'[c].events
    BY <1>1, <1>7
  <2>2. ASSUME NEW e \in ledger'[c].events
        PROVE  \E r \in RunIds : \E i \in 1 .. LogLength(runs'[r]) : e = <<r, i>>
    <3>1. PICK r \in RunIds : \E i \in LogLength(runs[r]) + 1 .. LogLength(runs'[r]) : e = <<r, i>>
      BY <1>1, <2>2 DEF NewEvents
    <3>2. PICK i \in LogLength(runs[r]) + 1 .. LogLength(runs'[r]) : e = <<r, i>>
      BY <3>1
    <3>3. i \in 1 .. LogLength(runs'[r])
      BY <1>3, <3>2
    <3> QED
      BY <3>2, <3>3
  <2> QED
    BY <2>1, <2>2 DEF Accounted
<1>9. ASSUME NEW d \in ClientIds, d # c PROVE Accounted(d)'
  <2>1. Accounted(d) /\ ledger'[d] = ledger[d]
    BY <1>1, <1>9 DEF OnceInv
  <2>2. ASSUME NEW r \in RunIds, NEW i \in 1 .. LogLength(runs'[r])
        PROVE  runs'[r].events[i].command = d
                 <=> ledger'[d] # NoResult /\ <<r, i>> \in ledger'[d].events
    <3>1. CASE i <= LogLength(runs[r])
      <4>1. i \in 1 .. LogLength(runs[r])
        BY <1>3, <3>1
      <4>2. runs[r].events[i].command = d
              <=> ledger[d] # NoResult /\ <<r, i>> \in ledger[d].events
        BY <2>1, <4>1 DEF Accounted
      <4>3. runs'[r].events[i].command = runs[r].events[i].command
        BY <1>5, <3>1
      <4> QED
        BY <2>1, <4>2, <4>3
    <3>2. CASE ~ (i <= LogLength(runs[r]))
      <4>1. runs'[r].events[i].command = c
        BY <1>5, <3>2
      <4>2. ASSUME ledger[d] # NoResult, <<r, i>> \in ledger[d].events PROVE FALSE
        <5>1. PICK q \in RunIds : \E j \in 1 .. LogLength(runs[q]) : <<r, i>> = <<q, j>>
          BY <2>1, <4>2 DEF Accounted
        <5>2. PICK j \in 1 .. LogLength(runs[q]) : <<r, i>> = <<q, j>>
          BY <5>1
        <5>3. q = r /\ i = j
          BY <5>2
        <5> QED
          BY <1>3, <3>2, <5>2, <5>3
      <4> QED
        BY <1>9, <2>1, <4>1, <4>2
    <3> QED
      BY <3>1, <3>2
  <2>3. ASSUME ledger[d] # NoResult, NEW e \in ledger[d].events
        PROVE  \E r \in RunIds : \E i \in 1 .. LogLength(runs'[r]) : e = <<r, i>>
    <3>1. PICK r \in RunIds : \E i \in 1 .. LogLength(runs[r]) : e = <<r, i>>
      BY <2>1, <2>3 DEF Accounted
    <3>2. PICK i \in 1 .. LogLength(runs[r]) : e = <<r, i>>
      BY <3>1
    <3> QED
      BY <1>6, <3>2
  <2> QED
    BY <2>1, <2>2, <2>3 DEF Accounted
<1> QED
  BY <1>8, <1>9 DEF OnceInv

LedgerInv == LedgerType /\ OpeningsOK

LEMMA LedgerStarts ==
  ASSUME LedgerInit PROVE LedgerInv /\ OnceInv
<1>1. runs \in [RunIds -> Run \cup {NoRun}]
  BY LedgerAssumption DEF LedgerInit, LedgerAssumption
<1>2. TypeInv
  <2>1. ASSUME NEW r \in RunIds PROVE runs[r] \in WellFormed \cup {NoRun}
    BY <1>1, HistoryAssumption DEF LedgerInit, WellFormed
  <2> QED
    BY <1>1, <2>1 DEF TypeInv
<1>3. LedgerInv
  BY <1>2, IdleIsNoCall DEF LedgerInit, LedgerInv, LedgerType, OpeningsOK
<1>4. ASSUME NEW c \in ClientIds, NEW r \in RunIds, NEW i \in 1 .. LogLength(runs[r])
      PROVE  runs[r].events[i].command # c
  <2>1. runs[r] # NoRun /\ runs[r] \in WellFormed
    BY <1>2, <1>4 DEF LogLength, TypeInv
  <2>2. i \in DOMAIN runs[r].events
    BY <1>4, <2>1, Fields DEF LogLength
  <2> QED
    BY <2>1, <2>2, HistoryAssumption DEF LedgerInit
<1>5. OnceInv
  BY <1>4 DEF OnceInv, Accounted, LedgerInit
<1> QED
  BY <1>3, <1>5

LEMMA LedgerStepInv ==
  ASSUME LedgerInv, [LedgerNext]_lvars
  PROVE  /\ LedgerInv'
         /\ \/ UNCHANGED <<runs, ledger>>
            \/ \E k \in Clients, a \in Answers \ {"NONE"} : Commits(k, a)
<1>1. CASE LedgerNext
  BY <1>1, LedgerStep DEF LedgerInv
<1>2. CASE UNCHANGED lvars
  BY <1>2 DEF lvars, LedgerInv, LedgerType, OpeningsOK, TypeInv, IsOpening
<1> QED
  BY <1>1, <1>2

LEMMA LedgerInvariant == LedgerSpec => []LedgerInv
<1>1. LedgerInit => LedgerInv
  BY LedgerStarts
<1>2. LedgerInv /\ [LedgerNext]_lvars => LedgerInv'
  BY LedgerStepInv
<1> QED
  BY <1>1, <1>2, PTL DEF LedgerSpec

\* For any clients, retries and losses: the events in the logs that carry the identity of
\* a command are the ones its stored result lists (_return_duplicate and
\* insert_command_result in one transaction with the change).
THEOREM CommandsTakeEffectOnce == LedgerSpec => []ExactlyOnce
<1>1. LedgerInit => OnceInv
  BY LedgerStarts
<1>2. ASSUME LedgerInv, LedgerInv', OnceInv, [LedgerNext]_lvars PROVE OnceInv'
  <2>1. CASE UNCHANGED <<runs, ledger>>
    BY <1>2, <2>1 DEF OnceInv, Accounted
  <2>2. CASE \E k \in Clients, a \in Answers \ {"NONE"} : Commits(k, a)
    BY <1>2, <2>2, OnceCommit DEF LedgerInv
  <2> QED
    BY <1>2, <2>1, <2>2, LedgerStepInv
<1>3. OnceInv => ExactlyOnce
  BY OnceIsExact
<1> QED
  BY <1>1, <1>2, <1>3, LedgerInvariant, PTL DEF LedgerSpec

-----------------------------------------------------------------------------
(* A run for every replacement.                                            *)

LEMMA HandledStaysOpen ==
  ASSUME NEW run, NEW t, NEW c, NEW new, Handled(run, t, c, new), run.status # "CLOSED"
  PROVE  new.status # "CLOSED"
BY DEF Handled, Trips, Acknowledges, Isolates, Recloses, Assesses, Executes, Lapses

SomeMutable == \E r \in RunIds : Mutable(r)

\* Once there is an open run there always is one.
LEMMA SomeMutableStays ==
  ASSUME TypeInv, NEW c \in CommandIds, CommandStep(c), SomeMutable
  PROVE  SomeMutable'
<1>0. runs \in [RunIds -> WellFormed \cup {NoRun}]
  BY DEF TypeInv
<1>1. ASSUME NEW n \in RunIds, NEW new \in WellFormed, new.status # "CLOSED", runs'[n] = new
      PROVE  SomeMutable'
  BY <1>1, NotARun DEF SomeMutable, Mutable, Live
<1>2. PICK t \in Times :
        \/ \E n \in RunIds, mode \in Modes, g \in Configs, fault \in Sections :
             \/ Initialise(n, mode, g, fault, t, c)
             \/ \E r \in RunIds : ReplaceRun(r, n, mode, g, fault, t, c)
        \/ \E r \in RunIds : \/ Live(r) /\ RunCommand(r, t, c)
                             \/ \E n \in RunIds : ResetRun(r, n, t, c)
  BY DEF CommandStep
<1>3. ASSUME NEW n \in RunIds, NEW mode \in Modes, NEW g \in Configs, NEW fault \in Sections,
             NEW u \in Times, runs'[n] = NewRun(mode, g, fault, u, c)
      PROVE  SomeMutable'
  <2> DEFINE new == NewRun(mode, g, fault, u, c)
  <2>1. new \in WellFormed
    BY NewRunType
  <2>2. new.status # "CLOSED"
    BY NewRunEffect DEF Starts
  <2> HIDE DEF new
  <2>3. runs'[n] = new
    BY <1>3 DEF new
  <2> QED
    BY <1>1, <2>1, <2>2, <2>3
<1>4. ASSUME NEW n \in RunIds, NEW mode \in Modes, NEW g \in Configs, NEW fault \in Sections,
             Initialise(n, mode, g, fault, t, c)
      PROVE  SomeMutable'
  BY <1>4 DEF Initialise, SomeMutable
<1>5. ASSUME NEW r \in RunIds, NEW n \in RunIds, NEW mode \in Modes, NEW g \in Configs,
             NEW fault \in Sections, ReplaceRun(r, n, mode, g, fault, t, c)
      PROVE  SomeMutable'
  <2>1. runs'[n] = NewRun(mode, g, fault, t, c)
    BY <1>0, <1>5 DEF ReplaceRun
  <2> QED
    BY <1>3, <2>1
<1>6. ASSUME NEW r \in RunIds, NEW n \in RunIds, ResetRun(r, n, t, c)
      PROVE  SomeMutable'
  <2>1. runs[r] \in WellFormed
    BY <1>6, LiveType DEF ResetRun, Current, Mutable
  <2>2. /\ runs[r].mode \in Modes /\ runs[r].config \in Configs
        /\ runs[r].fault \in Sections /\ runs[r].initial \in Times
    BY <2>1, Fields
  <2>3. runs'[n] = NewRun(runs[r].mode, runs[r].config, runs[r].fault, runs[r].initial, c)
    BY <1>0, <1>6 DEF ResetRun
  <2> QED
    BY <1>3, <2>2, <2>3
<1>7. ASSUME NEW r \in RunIds, Live(r), RunCommand(r, t, c)
      PROVE  SomeMutable'
  <2>1. /\ Current(r, t)
        /\ \E new \in WellFormed :
             runs' = [runs EXCEPT ![r] = new] /\ Handled(runs[r], t, c, new)
    BY <1>7, CommandHandles
  <2>2. PICK new \in WellFormed :
          runs' = [runs EXCEPT ![r] = new] /\ Handled(runs[r], t, c, new)
    BY <2>1
  <2>3. new.status # "CLOSED"
    BY <2>1, <2>2, HandledStaysOpen DEF Current, Mutable
  <2>4. runs'[r] = new
    BY <1>0, <2>2
  <2> QED
    BY <1>1, <2>3, <2>4
<1> QED
  BY <1>2, <1>4, <1>5, <1>6, <1>7

LEMMA ReplacementStep ==
  ASSUME LedgerInv, LedgerInv', ReplacementFindsARun, [LedgerNext]_lvars
  PROVE  ReplacementFindsARun'
<1>1. SomeMutable => SomeMutable'
  <2>1. CASE UNCHANGED <<runs, ledger>>
    BY <2>1 DEF SomeMutable, Mutable, Live
  <2>2. CASE \E k \in Clients, a \in Answers \ {"NONE"} : Commits(k, a)
    <3>1. PICK k \in Clients, a \in Answers \ {"NONE"} : Commits(k, a)
      BY <2>2
    <3>2. calls[k].id \in CommandIds /\ TypeInv
      BY <3>1, CallFields DEF Commits, LedgerInv, LedgerType
    <3>3. CASE UNCHANGED runs
      BY <3>3 DEF SomeMutable, Mutable, Live
    <3>4. CASE CommandStep(calls[k].id)
      BY <3>2, <3>4, SomeMutableStays
    <3> QED
      BY <3>1, <3>3, <3>4 DEF Commits
  <2> QED
    BY <2>1, <2>2, LedgerStepInv
<1>2. ASSUME NEW k \in Clients, calls'[k].phase = "REPLACING"
      PROVE  SomeMutable
  <2>1. CASE calls'[k] = calls[k]
    BY <1>2, <2>1 DEF ReplacementFindsARun, Replacing, SomeMutable
  <2>2. CASE Peek(k)
    <3>1. calls[k] # Idle
      BY <2>2, IdleIsNoCall DEF Peek
    <3>2. SomeMutable \/ calls'[k].phase = "INITIALISING"
      BY <3>1, <2>2 DEF Peek, SomeMutable, LedgerInv, LedgerType, Call
    <3> QED
      BY <1>2, <3>2
  <2>3. CASE calls'[k] # calls[k] /\ ~ Peek(k)
    <3>1. calls'[k].phase \in {"SENT", "ANSWERED", "LOST"}
      <4>1. PICK j \in Clients :
              \/ \E c \in ClientIds : \E q \in Requests : Send(j, c, q)
              \/ Serve(j) \/ Lose(j) \/ Retry(j)
        BY <2>3 DEF LedgerNext, lvars
      <4>2. calls \in [Clients -> Call \cup {Idle}]
        BY DEF LedgerInv, LedgerType
      <4>3. j = k
        BY <2>3, <4>1, <4>2 DEF Send, Serve, Peek, ReturnDuplicate, Refuse, Accept, Lapse,
             OpenRun, OutOfBounds, Record, Answer, Lose, Retry
      <4>4. CASE \E c \in ClientIds : \E q \in Requests : Send(k, c, q)
        BY <4>2, <4>4 DEF Send
      <4>5. CASE calls[k] # Idle
        <5>1. calls[k] \in Call
          BY <4>5, CallFields DEF LedgerInv
        <5>2. ASSUME NEW p, NEW a, calls' = [calls EXCEPT ![k].phase = p, ![k].answer = a]
              PROVE  calls'[k].phase = p
          BY <4>2, <5>1, <5>2 DEF Call
        <5>3. CASE Serve(k)
          <6>1. \E a : Answer(k, a)
            BY <2>3, <5>3 DEF Serve, ReturnDuplicate, Refuse, Accept, Lapse, OpenRun,
                              OutOfBounds, Record
          <6> QED
            BY <5>2, <6>1 DEF Answer
        <5>4. CASE Lose(k)
          BY <5>2, <5>4 DEF Lose
        <5>5. CASE Retry(k)
          BY <4>2, <5>1, <5>5 DEF Retry, Call
        <5> QED
          BY <4>1, <4>3, <4>4, <5>3, <5>4, <5>5
      <4>6. CASE calls[k] = Idle
        BY <4>1, <4>3, <4>4, <4>6, <2>3, IdleIsNoCall
        DEF Serve, ReturnDuplicate, Refuse, Accept, Lapse, OpenRun, OutOfBounds,
            Lose, Retry, Ready, Executing, Initialising, Replacing
      <4> QED
        BY <4>5, <4>6
    <3> QED
      BY <1>2, <3>1
  <2> QED
    BY <2>1, <2>2, <2>3
<1> QED
  BY <1>1, <1>2 DEF ReplacementFindsARun, Replacing, SomeMutable, Mutable, Live

\* For any clients: a request of initialise_next_run that saw a mutable run still finds one
\* when its own transaction replaces it.
THEOREM ReplacementsFindARun == LedgerSpec => []ReplacementFindsARun
<1>1. LedgerInit => ReplacementFindsARun
  BY IdleIsNoCall DEF LedgerInit, ReplacementFindsARun, Replacing
<1> QED
  BY <1>1, ReplacementStep, LedgerInvariant, PTL DEF LedgerSpec

-----------------------------------------------------------------------------
(* One winner per revision.                                                *)

\* The revision the request was sent on sight of is gone, or the run is.
Spent(q) ==
  /\ q.run \in RunIds /\ Live(q.run)
  /\ q.expected < runs[q.run].revision \/ runs[q.run].status = "CLOSED"

\* Client identity c has won something.
Won(c) == Accepted(c) /\ ledger[c].request.kind \in Exclusive

SpentInv == \A c \in ClientIds : Won(c) => Spent(ledger[c].request)

LEMMA ExclusiveFields ==
  ASSUME NEW q \in Request, q.kind \in Exclusive
  PROVE  q.kind \in RunCommands /\ q.run \in RunIds /\ q.expected \in Nat /\ q.t \in Times
<1>1. q.kind \in RunCommands
  BY DEF Exclusive, RunCommands
<1> QED
  BY <1>1, RequestFields

\* What is gone stays gone.
LEMMA SpentStays ==
  ASSUME TypeInv, Next, NEW q, q.expected \in Nat, Spent(q)
  PROVE  Spent(q)'
<1>1. q.run \in RunIds /\ Live(q.run) /\ runs[q.run] \in WellFormed
  BY LiveType DEF Spent
<1>2. runs'[q.run] # NoRun /\ Preserved(runs[q.run], runs'[q.run])
  BY <1>1, HistoryStep
<1>3. TypeInv'
  BY TypeStep
<1>4. runs'[q.run] \in WellFormed
  BY <1>1, <1>2, <1>3 DEF TypeInv
<1>5. runs[q.run].revision \in Nat /\ runs'[q.run].revision \in Nat
  BY <1>1, <1>4, Fields
<1>6. CASE runs[q.run].status = "CLOSED"
  BY <1>1, <1>2, <1>6 DEF Preserved, Spent, Live
<1>7. CASE q.expected < runs[q.run].revision
  <2>1. runs[q.run].revision <= runs'[q.run].revision
    BY <1>2 DEF Preserved
  <2>2. q.expected < runs'[q.run].revision
    BY <1>5, <1>7, <2>1
  <2> QED
    BY <1>1, <1>2, <2>2 DEF Spent, Live
<1> QED
  BY <1>6, <1>7 DEF Spent

\* An exclusive command that is performed spends the revision of its run.
LEMMA PerformSpends ==
  ASSUME TypeInv, NEW q \in Request, q.kind \in Exclusive, NEW c \in CommandIds,
         Perform(q, c), q.expected = runs[q.run].revision
  PROVE  Spent(q)'
<1>0. /\ q.run \in RunIds /\ q.expected \in Nat /\ q.t \in Times
      /\ runs \in [RunIds -> WellFormed \cup {NoRun}]
  BY ExclusiveFields DEF TypeInv
<1> DEFINE run == runs[q.run]
<1>1. CASE q.kind = "RESET_RUN"
  <2>1. PICK n \in RunIds : ResetRun(q.run, n, q.t, c)
    BY <1>1 DEF Perform
  <2>2. run \in WellFormed /\ q.run # n
    BY <1>0, <2>1, LiveType DEF ResetRun, Current, Mutable, Live
  <2>3. runs'[q.run] = Closed(run, q.t, c)
    BY <1>0, <2>1, <2>2 DEF ResetRun
  <2>4. Closed(run, q.t, c) \in WellFormed /\ Closed(run, q.t, c).status = "CLOSED"
    BY <1>0, <2>2, ClosedType, ClosedEffect
  <2> QED
    BY <1>0, <2>3, <2>4, NotARun DEF Spent, Live
<1>2. CASE q.kind # "RESET_RUN"
  <2>1. \/ InitiateFault(q.run, q.t, c)
        \/ OperateIsolationDevice(q.run, q.target, q.t, c)
        \/ RestoreNormalSource(q.run, q.t, c)
        \/ ExecuteRestoration(q.run, q.assessment, q.t, c)
    BY <1>2 DEF Perform, Exclusive
  <2>2. Live(q.run) /\ run \in WellFormed
    BY <1>0, <2>1, LiveType DEF InitiateFault, OperateIsolationDevice, RestoreNormalSource,
       ExecuteRestoration, Current, Mutable
  <2> HIDE DEF run
  <2>a. runs[q.run] = run /\ run.revision \in Nat
    BY <2>2, Fields DEF run
  <2>3. ASSUME NEW new, runs' = [runs EXCEPT ![q.run] = new], new # NoRun,
               new.revision = run.revision + 1
        PROVE  Spent(q)'
    <3>1. runs'[q.run] = new
      BY <1>0, <2>3
    <3>2. q.expected < new.revision
      BY <2>3, <2>a
    <3> QED
      BY <1>0, <2>3, <3>1, <3>2 DEF Spent, Live
  <2>4. CASE InitiateFault(q.run, q.t, c)
    <3> DEFINE new == FaultInitiated(run, q.t, c)
    <3>1. runs' = [runs EXCEPT ![q.run] = new] /\ CanInitiateFault(run)
      BY <2>4, <2>a DEF InitiateFault
    <3>2. new \in WellFormed
      BY <1>0, <2>2, FaultInitiatedType
    <3>4. Operates(run, AffectedBreaker(run), "OPEN", q.t, new)
      BY <1>0, <2>2, <3>1, FaultInitiatedEffect
    <3> HIDE DEF new
    <3>3. new.revision = run.revision + 1
      BY <3>4 DEF Operates
    <3> QED
      BY <2>3, <3>1, <3>2, <3>3, NotARun
  <2>5. CASE OperateIsolationDevice(q.run, q.target, q.t, c)
    <3> DEFINE new == DeviceIsolated(run, q.target, q.t, c)
    <3>1. /\ runs' = [runs EXCEPT ![q.run] = new]
          /\ CanOperateIsolationDevice(run, q.target, q.t)
      BY <2>5, <2>a DEF OperateIsolationDevice
    <3>0. q.target \in Switches
      BY <3>1, BoundaryType DEF CanOperateIsolationDevice
    <3>2. new \in WellFormed
      BY <1>0, <2>2, <3>0, <3>1, DeviceIsolatedType
    <3>4. Operates(run, q.target, "OPEN", q.t, new)
      BY <1>0, <2>2, <3>0, <3>1, DeviceIsolatedEffect
    <3> HIDE DEF new
    <3>3. new.revision = run.revision + 1
      BY <3>4 DEF Operates
    <3> QED
      BY <2>3, <3>1, <3>2, <3>3, NotARun
  <2>6. CASE RestoreNormalSource(q.run, q.t, c)
    <3> DEFINE new == SourceRestored(run, q.t, c)
    <3>1. runs' = [runs EXCEPT ![q.run] = new] /\ CanRestoreNormalSource(run, q.t)
      BY <2>6, <2>a DEF RestoreNormalSource
    <3>2. new \in WellFormed
      BY <1>0, <2>2, <3>1, SourceRestoredType
    <3>4. Operates(run, AffectedBreaker(run), "CLOSED", q.t, new)
      BY <1>0, <2>2, <3>1, SourceRestoredEffect
    <3> HIDE DEF new
    <3>3. new.revision = run.revision + 1
      BY <3>4 DEF Operates
    <3> QED
      BY <2>3, <3>1, <3>2, <3>3, NotARun
  <2>7. CASE ExecuteRestoration(q.run, q.assessment, q.t, c)
    <3> DEFINE new == RestorationExecuted(run, q.assessment, q.t, c)
    <3>1. /\ runs' = [runs EXCEPT ![q.run] = new]
          /\ CanExecuteRestoration(run, q.assessment, q.t)
      BY <2>7, <2>a DEF ExecuteRestoration
    <3>0. /\ q.assessment \in DOMAIN run.assessments
          /\ CandidateTie(run, q.assessment) \in Switches
      <4>1. q.assessment \in DOMAIN run.assessments
        BY <2>2, <3>1, RequestedAssessment DEF CanExecuteRestoration
      <4>2. /\ CandidateTie(run, q.assessment)
                 = Candidate(run.config, ClosedNow(run), run.fault).tie
            /\ Candidate(run.config, ClosedNow(run), run.fault).tie \in Switches
        BY <1>0, <2>2, <3>1, Executable
      <4> QED
        BY <4>1, <4>2
    <3>2. new \in WellFormed
      BY <1>0, <2>2, <3>0, <3>1, RestorationExecutedType
    <3>4. Operates(run, CandidateTie(run, q.assessment), "CLOSED", q.t, new)
      BY <1>0, <2>2, <3>0, <3>1, RestorationExecutedEffect
    <3> HIDE DEF new
    <3>3. new.revision = run.revision + 1
      BY <3>4 DEF Operates
    <3> QED
      BY <2>3, <3>1, <3>2, <3>3, NotARun
  <2> QED
    BY <2>1, <2>4, <2>5, <2>6, <2>7
<1> QED
  BY <1>1, <1>2

\* A command is accepted on the revision it was sent for, and spends it.
LEMMA AcceptSpends ==
  ASSUME LedgerInv, NEW k \in Clients, NEW a \in Answers, Commits(k, a), a = "ACCEPTED",
         calls[k].request.kind \in Exclusive
  PROVE  LET q == calls[k].request
         IN  /\ q.expected = runs[q.run].revision /\ runs[q.run].status # "CLOSED"
             /\ Spent(q)'
<1>1. calls[k] # Idle /\ TypeInv
  BY DEF Commits, LedgerInv, LedgerType
<1>2. calls[k].id \in CommandIds /\ calls[k].request \in Request
  BY <1>1, CallFields DEF LedgerInv
<1>3. PICK q \in Request : q = calls[k].request
  BY <1>2
<1>4. Accept(k)
  <2>1. OpenRun(k) => IsOpening(k)
    BY <1>1 DEF OpenRun, Initialising, Replacing, IsOpening, LedgerInv, OpeningsOK
  <2>2. ~ IsOpening(k)
    BY DEF IsOpening, Exclusive
  <2> QED
    BY <2>1, <2>2 DEF Commits
<1>5. q.expected = runs[q.run].revision /\ runs[q.run].status # "CLOSED"
        /\ Perform(q, calls[k].id)
  BY <1>3, <1>4 DEF Accept, Refusal
<1>6. Spent(q)'
  BY <1>1, <1>2, <1>3, <1>5, PerformSpends
<1>7. /\ calls[k].request.expected = runs[calls[k].request.run].revision
      /\ runs[calls[k].request.run].status # "CLOSED"
  BY <1>3, <1>5
<1>8. Spent(calls[k].request)'
  <2>1. UNCHANGED calls[k].request
    BY <1>1, <1>2, CallMoves DEF Commits, Record, Answer, LedgerInv
  <2> QED
    BY <1>3, <1>6, <2>1
<1> QED
  BY <1>7, <1>8

WinnerInv == SpentInv /\ OneWinnerPerRevision

LEMMA WinnerStep ==
  ASSUME LedgerInv, LedgerInv', WinnerInv, NEW k \in Clients, NEW a \in Answers, Commits(k, a)
  PROVE  WinnerInv'
<1>1. calls[k] # Idle /\ LedgerType /\ TypeInv
  BY DEF Commits, LedgerInv, LedgerType
<1>2. calls[k].id \in ClientIds /\ calls[k].id \in CommandIds /\ calls[k].request \in Request
  BY <1>1, CallFields
<1>3. PICK c \in ClientIds : c = calls[k].id
  BY <1>2
<1>4. PICK q \in Request : q = calls[k].request
  BY <1>2
<1>5. /\ ledger'[c].request = q /\ ledger'[c].answer = a /\ ledger[c] = NoResult
      /\ \A d \in ClientIds : d # c => ledger'[d] = ledger[d]
  <2>1. /\ ledger'[calls[k].id] =
             [request |-> calls[k].request, answer |-> a, events |-> NewEvents]
        /\ \A d \in ClientIds : d # calls[k].id => ledger'[d] = ledger[d]
    BY <1>1, CommitType
  <2>2. ledger[calls[k].id] = NoResult
    BY DEF Commits, Stored
  <2> QED
    BY <1>3, <1>4, <2>1, <2>2
<1>6. ASSUME NEW d \in ClientIds, d # c
      PROVE  (Won(d)' <=> Won(d)) /\ ledger'[d] = ledger[d]
  BY <1>5, <1>6 DEF Won, Accepted
<1>7. ASSUME NEW d \in ClientIds, Won(d)
      PROVE  ledger[d].request \in Request /\ ledger[d].request.kind \in Exclusive
  BY <1>1, <1>7 DEF Won, Accepted, LedgerType, Result
<1>8. ASSUME NEW x \in Request, x.kind \in Exclusive, Spent(x) PROVE Spent(x)'
  <2>1. CASE UNCHANGED runs
    BY <1>8, <2>1 DEF Spent, Live
  <2>2. CASE CommandStep(calls[k].id)
    BY <1>1, <1>2, <1>8, <2>2, CommandIsNext, ExclusiveFields, SpentStays
  <2> QED
    BY <2>1, <2>2 DEF Commits
<1>9. ASSUME Won(c)'
      PROVE  /\ q.kind \in Exclusive /\ Spent(q)'
             /\ q.expected = runs[q.run].revision /\ runs[q.run].status # "CLOSED"
  <2>1. a = "ACCEPTED" /\ q.kind \in Exclusive
    BY <1>5, <1>9 DEF Won, Accepted
  <2>2. /\ calls[k].request.expected = runs[calls[k].request.run].revision
        /\ runs[calls[k].request.run].status # "CLOSED"
        /\ Spent(calls[k].request)'
    BY <1>4, <2>1, AcceptSpends
  <2>3. UNCHANGED calls[k].request
    BY <1>1, CallMoves DEF Commits, Record, Answer
  <2>4. Spent(q)'
    BY <1>4, <2>2, <2>3
  <2> QED
    BY <1>4, <2>1, <2>2, <2>4
<1>10. SpentInv'
  <2>1. ASSUME NEW d \in ClientIds, Won(d)' PROVE Spent(ledger[d].request)'
    <3>1. CASE d = c
      <4>1. Spent(q)' /\ ledger'[d].request = q
        BY <1>5, <1>9, <2>1, <3>1
      <4> QED
        BY <4>1 DEF Spent, Live
    <3>2. CASE d # c
      <4>1. Won(d) /\ ledger'[d] = ledger[d]
        BY <1>6, <2>1, <3>2
      <4>2. PICK x \in Request : x = ledger[d].request
        BY <1>7, <4>1
      <4>3. x.kind \in Exclusive /\ Spent(x)
        BY <1>7, <4>1, <4>2 DEF WinnerInv, SpentInv
      <4>4. Spent(x)' /\ ledger'[d].request = x
        BY <1>8, <4>1, <4>2, <4>3
      <4> QED
        BY <4>4 DEF Spent, Live
    <3> QED
      BY <3>1, <3>2
  <2> QED
    BY <2>1 DEF SpentInv
<1>11. ASSUME NEW d \in ClientIds, d # c, Won(c)', Won(d),
              ledger[d].request.run = q.run, ledger[d].request.expected = q.expected
       PROVE  FALSE
  <2>1. Spent(ledger[d].request)
    BY <1>11 DEF WinnerInv, SpentInv
  <2>2. q.expected = runs[q.run].revision /\ runs[q.run].status # "CLOSED" /\ q.expected \in Nat
    BY <1>9, <1>11, ExclusiveFields
  <2> QED
    BY <1>11, <2>1, <2>2 DEF Spent
<1>12. OneWinnerPerRevision'
  <2>1. ASSUME NEW b \in ClientIds, NEW d \in ClientIds, Won(b)', Won(d)',
               ledger'[b].request.run = ledger'[d].request.run,
               ledger'[b].request.expected = ledger'[d].request.expected
        PROVE  b = d
    <3>1. CASE b = c /\ d # c
      <4>1. Won(d) /\ ledger'[d] = ledger[d]
        BY <1>6, <2>1, <3>1
      <4> QED
        BY <1>5, <1>11, <2>1, <3>1, <4>1
    <3>2. CASE d = c /\ b # c
      <4>1. Won(b) /\ ledger'[b] = ledger[b]
        BY <1>6, <2>1, <3>2
      <4> QED
        BY <1>5, <1>11, <2>1, <3>2, <4>1
    <3>3. CASE b # c /\ d # c
      <4>1. /\ Won(b) /\ ledger'[b] = ledger[b]
            /\ Won(d) /\ ledger'[d] = ledger[d]
        BY <1>6, <2>1, <3>3
      <4> QED
        BY <2>1, <4>1 DEF WinnerInv, OneWinnerPerRevision, Won
    <3> QED
      BY <3>1, <3>2, <3>3
  <2> QED
    BY <2>1 DEF OneWinnerPerRevision, Won
<1> QED
  BY <1>10, <1>12 DEF WinnerInv

\* For any clients and any interleaving of their requests: of the operating and resetting
\* commands sent on sight of the same revision of the same run, one at most is accepted
\* (execute's comparison of the expected revision, in the transaction of the change).
THEOREM OneCommandWins == LedgerSpec => []OneWinnerPerRevision
<1>1. LedgerInit => WinnerInv
  BY DEF LedgerInit, WinnerInv, SpentInv, OneWinnerPerRevision, Won, Accepted
<1>2. ASSUME LedgerInv, LedgerInv', WinnerInv, [LedgerNext]_lvars PROVE WinnerInv'
  <2>1. CASE UNCHANGED <<runs, ledger>>
    BY <1>2, <2>1 DEF WinnerInv, SpentInv, OneWinnerPerRevision, Won, Accepted, Spent, Live
  <2>2. CASE \E k \in Clients, a \in Answers \ {"NONE"} : Commits(k, a)
    BY <1>2, <2>2, WinnerStep
  <2> QED
    BY <1>2, <2>1, <2>2, LedgerStepInv
<1> QED
  BY <1>1, <1>2, LedgerInvariant, PTL DEF LedgerSpec, WinnerInv

-----------------------------------------------------------------------------
(* The coordinator under its clients.                                      *)

LEMMA LedgerTakesSteps ==
  ASSUME LedgerInv, [LedgerNext]_lvars PROVE [Next]_vars
<1>1. CASE UNCHANGED <<runs, ledger>>
  BY <1>1 DEF vars
<1>2. CASE \E k \in Clients, a \in Answers \ {"NONE"} : Commits(k, a)
  <2>1. PICK k \in Clients, a \in Answers \ {"NONE"} : Commits(k, a)
    BY <1>2
  <2>2. calls[k].id \in CommandIds
    BY <2>1, CallFields DEF Commits, LedgerInv
  <2> QED
    BY <2>1, <2>2, CommandIsNext DEF Commits, vars
<1> QED
  BY <1>1, <1>2, LedgerStepInv

\* What clients do to the runs are steps of the coordinator: no request, retry or loss
\* changes a run in any other way.
THEOREM ClientsTakeCoordinatorSteps == LedgerSpec => [][Next]_vars
<1>1. LedgerInv /\ [LedgerNext]_lvars => [Next]_vars
  BY LedgerTakesSteps
<1> QED
  BY <1>1, LedgerInvariant, PTL DEF LedgerSpec

\* For any clients, retries and losses, and on any database they find: closed runs never
\* change, and open ones only extend their logs.
THEOREM ClientsPreserveHistory == LedgerSpec => HistoryPreserved
<1>1. ASSUME LedgerInv, [LedgerNext]_lvars
      PROVE  [\A r \in RunIds :
                Live(r) => runs[r]' # NoRun /\ Preserved(runs[r], runs[r]')]_vars
  <2>1. TypeInv /\ [Next]_vars
    BY <1>1, LedgerTakesSteps DEF LedgerInv, LedgerType
  <2> QED
    BY <2>1, HistoryStep
<1> QED
  BY <1>1, LedgerInvariant, PTL DEF LedgerSpec, HistoryPreserved
=============================================================================

SPECIFICATION Spec
CONSTANTS
    Attempts = {a1, a2}
    Threads = {t1, t2}
    Targets = {"CASE", "TEST"}
    Runs = {r1, r2}
    Checkpoints = {"POST_TRIP", "RESTORED"}
    NoRun = NoRun
    NoAttempt = NoAttempt
    Constituents <- MCConstituents
    Compared = {"CASE", "TEST"}
    TestOf <- MCTestOf
    RunsFor <- MCRunsFor
    Obligations <- MCObligations
SYMMETRY MCSymmetry
CHECK_DEADLOCK FALSE
INVARIANTS
    TypeOK
    OneOutcome
    ResultsRestOnEvidence
    LinkedSuspensionsResolve
    RepeatsAreOfFinished
PROPERTIES
    OutcomesAreFinal
    ImplementsAtomicAttempts

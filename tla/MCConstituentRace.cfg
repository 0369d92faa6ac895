SPECIFICATION Spec
CONSTANTS
    Attempts = {a1, a2}
    Threads = {t1, t2}
    Targets = {"CASE"}
    Runs = {r1}
    Checkpoints = {"POST_TRIP"}
    NoRun = NoRun
    NoAttempt = NoAttempt
    Constituents <- MCConstituents
    Compared = {"CASE"}
    TestOf <- MCTestOf
    RunsFor <- MCRunsFor
    Obligations <- MCObligations
SYMMETRY MCSymmetry
CHECK_DEADLOCK FALSE
INVARIANTS
    OneExecutionPerConstituentRun

SPECIFICATION ExportSpec
CONSTANTS
    Attempts = {a1, a2}
    Threads = {t1, t2}
    Targets = {"C1", "C2"}
    Constituents = {"C1", "C2"}
    Compared = {"C1", "C2"}
    Runs = {"C1", "C2"}
    Checkpoints = {"POST_TRIP"}
    Composites = {k1}
    Packages = {p1}
    Exporters = {x1}
    Tests = {"TEST"}
    DirectTest = "DIRECT"
    RegressionTest = "REGRESSION"
    RunBound = 1
    NoRun = NoRun
    NoAttempt = NoAttempt
    TestOf <- MCTestOf
    RunsFor <- MCRunsFor
    Obligations <- MCObligations
SYMMETRY MCSymmetry
CHECK_DEADLOCK FALSE
INVARIANTS
    LinksStayResolved
    DeterminationIsSupported
    PackagesShowTheirSource

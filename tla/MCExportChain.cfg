SPECIFICATION ExportSpec
CONSTANTS
    Attempts = {a1, a2, a3}
    Threads = {t1}
    Targets = {"DIRECT", "REGRESSION"}
    Constituents = {}
    Compared = {"DIRECT", "REGRESSION"}
    Runs = {"RUN"}
    Checkpoints = {"POST_TRIP", "N0", "N1"}
    Composites = {}
    Packages = {p1}
    Exporters = {x1}
    Tests = {}
    DirectTest = "DIRECT"
    RegressionTest = "REGRESSION"
    RunBound = 0
    NoRun = NoRun
    NoAttempt = NoAttempt
    TestOf <- MCTestOf
    RunsFor <- MCRunsFor
    Obligations <- MCObligations
SYMMETRY MCSymmetry
CHECK_DEADLOCK FALSE
INVARIANTS
    PackagesShowTheInvestigation

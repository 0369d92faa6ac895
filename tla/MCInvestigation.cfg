SPECIFICATION InvestigationSpec
CONSTANTS
    MaxRuns = 3
    Executions = {e1, e2, e3}
    Threads = {t1, t2}
    NoExecution = NoExecution
    LoopBound = 3
    Interference = 1
    Path <- MCPath
    Agreeing <- MCAgreeing
SYMMETRY MCSymmetry
\* Identities are used up and the last run completed.
CHECK_DEADLOCK FALSE
INVARIANTS
    InvestigationRowsOK
    ChainIsEvidence
PROPERTIES
    ChainIsPreserved
    OvertakenRunsStand

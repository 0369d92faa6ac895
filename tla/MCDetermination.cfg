SPECIFICATION DeterminationSpec
CONSTANTS
    Attempts = {a1}
    Threads = {t1, t2}
    Targets = {"SCENARIO", "PROCEDURE"}
    Procedures = {"PROCEDURE"}
    Constituents = {}
    Compared = {"SCENARIO"}
    Runs = {r1}
    Checkpoints = {"POST_TRIP"}
    Contexts = {k1, k2}
    NoRun = NoRun
    NoAttempt = NoAttempt
    TestOf <- MCTestOf
    RunsFor <- MCRunsFor
    Obligations <- MCObligations
    RolesOf <- MCRolesOf
    MachineCriteria <- MCMachineCriteria
    ReviewCriteria <- MCReviewCriteria
    ActorRole <- MCActorRole
SYMMETRY MCSymmetry
CHECK_DEADLOCK FALSE
INVARIANTS
    DeterminationRowsOK
    OneContextPerAttempt
    OneOutcomeOfAll
    DeterminationRestsOnFindings
PROPERTIES
    DeterminationsAreFinal
    ImplementsAtomicDeterminations

SPECIFICATION DeterminationSpec
CONSTANTS
    Attempts = {a1}
    Threads = {t1, t2}
    Targets = {"SCENARIO"}
    Procedures = {}
    Constituents = {}
    Compared = {}
    Runs = {r1}
    Checkpoints = {"N1", "N2"}
    Contexts = {k1}
    NoRun = NoRun
    NoAttempt = NoAttempt
    TestOf <- MCTestOf
    RunsFor <- MCRunsFor
    Obligations <- MCObligations
    RolesOf <- MCRolesOf
    MachineCriteria <- MCMachineCriteria
    ReviewCriteria <- MCReviewCriteria
    ActorRole <- MCActorRole
CHECK_DEADLOCK FALSE
INVARIANTS
    DeterminedEvidenceIsExact

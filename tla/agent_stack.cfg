\* Every verb, snapshot threads that outlive their verbs, server restarts; the owner acts on the
\* project, its images and the checkout at any time.
SPECIFICATION Spec
CONSTANTS
    Gens = {g1, g2, g3}
    Versions = {v1, v2}
    BudgetLimit = 2
    BudgetWindow = 1
    VerbGroups <- MCVerbGroups
    Mixed = Mixed
    None = None
SYMMETRY StackSymmetry
INVARIANTS
    TypeOK
    SnapshotIsOwn
    SuiteWritesOnlyTest
    MigratesWhatRuns
    StoppedIsRestarted
PROPERTIES
    RefusalIsClean

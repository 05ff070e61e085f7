SPECIFICATION Spec
CONSTANTS
    Hosts = {h1, h2, h3}
    Clients = {c1}
    QDs = {q1, q2, q3}
    None = None
    MaxData = 2
    MaxBacklog = 2
    MaxMigrations = 2
    MaxBounces = 0
    MaxLoss = 0
    MaxDup = 0
    AppCloses = FALSE
SYMMETRY Symmetry
INVARIANTS SingleOwner NoAbort DataKept
PROPERTIES MigrationDropsNothing ImplementsHandoff
CHECK_DEADLOCK FALSE

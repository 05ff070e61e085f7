SPECIFICATION Spec
CONSTANTS
    Hosts = {h1, h2}
    Clients = {c1}
    QDs = {q1, q2}
    None = None
    MaxData = 1
    MaxBacklog = 1
    MaxMigrations = 1
    MaxBounces = 0
    MaxLoss = 0
    MaxDup = 0
    AppCloses = TRUE
INVARIANT QdOutlivesMigration
CHECK_DEADLOCK FALSE

SPECIFICATION FairSpec
CONSTANTS
    Hosts = {h1, h2}
    Clients = {c1}
    QDs = {q1, q2}
    None = None
    MaxData = 1
    MaxBacklog = 1
    MaxMigrations = 2
    MaxBounces = 1
    MaxLoss = 0
    MaxDup = 0
    AppCloses = FALSE
PROPERTIES MigrationsEnd AllDelivered
CHECK_DEADLOCK FALSE

SPECIFICATION Spec
CONSTANTS
    Hosts = {h1, h2}
    Clients = {c1}
    QDs = {q1, q2, q3}
    None = None
    MaxData = 1
    MaxBacklog = 1
    MaxMigrations = 2
    MaxBounces = 0
    MaxLoss = 1
    MaxDup = 1
    AppCloses = TRUE
SYMMETRY Symmetry
INVARIANTS OneControlBlock TablesHold
CHECK_DEADLOCK FALSE

CONSTANTS
    QDs = {0, 1}
    Ephemeral = {1}
    Fixed = {2}
    CorePorts = {2}
    Accepts = {1, 2}
    None = None
    Retries = 1
    Backlog = 1
    MaxIsn = 2
    MaxDup = 1
SPECIFICATION FairSpec
INVARIANTS HandshakeAgrees TablesHold
PROPERTIES OpensEnd
CHECK_DEADLOCK FALSE

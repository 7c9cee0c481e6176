SPECIFICATION DamagedSpec
CONSTANTS
    None = None
    Clients = {c1, c2}
    Processes <- TwoProcesses
    Ids <- MCIds
    EventIds <- MCEventIds
    Runs <- MCRuns
    MaxDamaged = 1
INVARIANTS
    LockBelongsToCall
    TablesAgree
PROPERTIES
    ImplementsArchive
    DamageIsReported

SPECIFICATION ServiceSpec
CONSTANTS
    None = None
    Clients = {c1, c2}
    Processes <- OneProcess
    Ids <- ServedIds
    EventIds <- ServedEvents
    Runs <- ServedRuns
    MaxDamaged = 0
INVARIANTS
    AcknowledgedStays
    AcknowledgedIsServed

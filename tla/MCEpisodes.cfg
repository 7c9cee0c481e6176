SPECIFICATION EpisodeSpec
CONSTANTS
    None = None
    AutonomousLimit = 10000
    ReadRetries = 2
    Suppliers <- MCSuppliers
    PurchaseOrders <- MCPurchaseOrders
    Invoices <- MCInvoices
    DuplicateOf <- MCDuplicateOf
    Policies <- MCPolicies
    Strip <- MCStrip
    Canonical <- MCCanonical
    Orders = {}
    Faults = {}
    Mutations = {}
    MaxRuns = 0
    DecisionIds = {}
    Amendments = {}
    ApprovedScopes = {}
    Tasks <- MCTasks
CHECK_DEADLOCK FALSE
INVARIANTS
    GatedMeetsOracle
    UngatedAsRecorded
    GatesOnlyWithhold
    RetryDiscipline
PROPERTY
    EveryEpisodeScored

SPECIFICATION EnvSpec
CONSTANTS
    None = None
    AutonomousLimit = 10000
    ReadRetries = 2
    Suppliers <- MCSuppliers
    PurchaseOrders <- EnvPurchaseOrders
    Invoices <- EnvInvoices
    DuplicateOf <- MCDuplicateOf
    Policies <- MCPolicies
    Strip <- EnvStrip
    Canonical <- EnvCanonical
    StageCalls <- MCStageCalls
    Approvals <- MCApprovals
    Requesters <- MCRequesters
INVARIANTS
    RecordsArePayable
    LargePaymentsApproved
PROPERTY
    RecordsStand

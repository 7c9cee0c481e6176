SPECIFICATION Spec
CONSTANTS
    None = None
    NonText = NonText
    AutonomousLimit = 10000
    ReadRetries = 1
    Suppliers <- MCSuppliers
    PurchaseOrders <- MCPurchaseOrders
    Invoices <- MCInvoices
    DuplicateOf <- MCDuplicateOf
    Policies <- MCPolicies
    Strip <- MCStrip
    Canonical <- MCCanonical
    Orders <- SharedOrders
    Faults <- TransientFaults
    Mutations <- NoMutations
    MaxRuns = 2
CHECK_DEADLOCK FALSE
INVARIANTS
    ApprovalSuffices
    StagedWithinAuthority
PROPERTY
    StagedOnce
    ImplementsGoverned

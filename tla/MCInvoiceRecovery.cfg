SPECIFICATION Spec
CONSTANTS
    None = None
    NonText = NonText
    AutonomousLimit = 10000
    ReadRetries = 2
    Suppliers <- MCSuppliers
    PurchaseOrders <- MCPurchaseOrders
    Invoices <- MCInvoices
    DuplicateOf <- MCDuplicateOf
    Policies <- MCPolicies
    Strip <- MCStrip
    Canonical <- MCCanonical
    Orders <- AllOrders
    Faults <- ReadFaults
    Mutations <- NoMutations
    MaxRuns = 1
CHECK_DEADLOCK FALSE
INVARIANTS
    TypeOK
    RetryBudget
    NoGraphRecursion
    AuditAgrees
    RetryDiscipline
    TrailReplays
    PaymentAccounted
    FindingsBlock
    DriftNeverLicenses

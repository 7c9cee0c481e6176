SPECIFICATION HumanSpec
CONSTANTS
    None = None
    AutonomousLimit = 10000
    ReadRetries = 0
    Suppliers <- MCSuppliers
    PurchaseOrders <- MCPurchaseOrders
    Invoices <- MCInvoices
    DuplicateOf <- MCDuplicateOf
    Policies <- MCPolicies
    Strip <- MCStrip
    Canonical <- MCCanonical
    Orders <- MCOrders
    Faults <- NoFaults
    Mutations <- MCEarlyCheck
    MaxRuns = 3
    DecisionIds = {d1, d2, d3}
    Amendments <- MCAmendments
    ApprovedScopes <- MCScopes
SYMMETRY DecisionSymmetry
CHECK_DEADLOCK FALSE
INVARIANTS
    AuthorityNarrows
    EscalationAnswered
    ApprovalsAreOrders
    TrailReplays

SPECIFICATION Spec
CONSTANTS
    None = None
    NonText = NonText
    AutonomousLimit = 10000
    ReadRetries = 1
    Suppliers <- MCSuppliers
    PurchaseOrders <- MCPurchaseOrders
    Invoices <- MCInvoices
    DuplicateOf <- MCDuplicateOf
    Policies <- MCPolicies
    Strip <- MCStrip
    Canonical <- MCCanonical
    Orders <- NumberedOrders
    Faults <- TimeoutFaults
    Mutations <- NoMutations
    MaxRuns = 2
CHECK_DEADLOCK FALSE
INVARIANT
    EscapesAreTerminal

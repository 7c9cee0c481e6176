SPECIFICATION Spec
CONSTANTS
    None = None
    NonText = NonText
    AutonomousLimit = 10000
    ReadRetries = 1
    Suppliers <- MCSuppliers
    PurchaseOrders <- MCPurchaseOrders
    Invoices <- MCInvoices
    DuplicateOf <- MCDuplicateOf
    Policies <- MCPolicies
    Strip <- MCStrip
    Canonical <- MCCanonical
    Orders <- AdversaryOrders
    Faults <- ReadFaults
    Mutations <- MCMutations
    MaxRuns = 1
CHECK_DEADLOCK FALSE
INVARIANTS
    OnlyAuthorisedCalls
PROPERTY
    Termination

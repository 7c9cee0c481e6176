SPECIFICATION Spec
CONSTANTS
    None = None
    Callers = {c1}
    Copies = {copy1, copy2}
    Pauses = {"CLARIFICATION_REQUIRED", "ESCALATION_REQUIRED"}
INVARIANTS
    SingleUse
    DecisionEndsTheRun
    ParentClosedFirst

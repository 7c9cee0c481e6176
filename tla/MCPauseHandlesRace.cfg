SPECIFICATION Spec
CONSTANTS
    None = None
    Callers = {c1, c2}
    Copies = {copy1}
    Pauses = {"CLARIFICATION_REQUIRED", "ESCALATION_REQUIRED"}
INVARIANT
    SingleUse

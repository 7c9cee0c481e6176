SPECIFICATION Spec
CONSTANTS
    None = None
    Threads = {t1, t2}
    Edits = {e1}
    Malformed = malformed
    MaxDepth = 2
INVARIANTS
    ScenarioSeesItsConfiguration
    NothingLeaks

SPECIFICATION Spec
CONSTANTS
    Agent = {a1, a2}
    Writer = {a1}
    Timed = {}
    ToolLists <- MCToolLists
INVARIANTS
    ReportedExactlyOnce
    SuccessIsReal

SPECIFICATION Spec
CONSTANTS
    Agent = {a1}
    Writer = {a1}
    Timed = {a1}
    ToolLists <- MCToolLists
PROPERTIES
    WaitEnds
    CancelSettles

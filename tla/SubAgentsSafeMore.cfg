SPECIFICATION Spec
CONSTANTS
    Agent = {a1, a2}
    Writer = {a1, a2}
    Timed = {}
    ToolLists <- MCToolLists
SYMMETRY AgentSymmetry
INVARIANTS
    RoundInv
    TypeOK
    DeadlineIsHard
    OneWriterPerRound

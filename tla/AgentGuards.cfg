SPECIFICATION Spec
CONSTANTS
    Agents = {a1, a2, a3}
    MaxThreads = 2
    MaxSurplus = 2
    NoAgent = NoAgent
SYMMETRY Symmetry
INVARIANTS SlotAccounted LimitHolds SlotsHeld

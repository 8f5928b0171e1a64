SPECIFICATION Spec
CONSTANTS
    MaxUsers = 3
    MaxEvents = 4
    MaxBeside = 1
CHECK_DEADLOCK FALSE
INVARIANTS ReplayMatches PromptPaired TurnsAgree ForkIsPrefix
PROPERTIES OnlyLateLost

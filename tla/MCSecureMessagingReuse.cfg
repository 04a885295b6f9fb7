CONSTANTS
    k1 = k1
    k2 = k2
    insA = insA
    insB = insB
    Keys <- MCKeys
    CardKey = k1
    Cmds <- MCCmds
    Sw2s <- MCSw2s
    CtrBits = 2
    MaxAuth = 2
    MaxCmds = 4
    MaxFaults = 2
    Attacker = TRUE

SPECIFICATION Spec

INVARIANT CommandAnswered



CHECK_DEADLOCK FALSE

SPECIFICATION GraphSpec
CONSTANTS
    a1 = a1
    a2 = a2
    a3 = a3
    a4 = a4
    e1 = e1
    e2 = e2
    NoRequest = NoRequest
    Automations <- FourAutomations
    Editors <- TwoEditors
    MaxStackDepth = 3
    MaxTriggers = 3
INVARIANTS
    GraphTypeOK
    CirclesAreRaced
PROPERTIES
    EditedChainFits
    NoFalseAlarm
SYMMETRY GraphSymmetry

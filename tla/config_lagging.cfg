SPECIFICATION Spec
CONSTANTS
    Field = {"authority", "keeper"}
    Value = {k1, k2}
    k1 = k1
    k2 = k2
    Operator = {k1}
    Lists = {l1}
    l1 = l1
    NodesLag = TRUE
    MaxChanges = 2
    MaxPending = 1
    Idle = Idle
PROPERTY
    NothingUndone

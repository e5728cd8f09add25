CONSTANTS
    User = {u1, u2}
    Proc = {p1, p2, p3}
    Absent = Absent
    Free = Free
    MaxVersion = 3
    RowValue <- Version
    Default = 0
    Fn <- Fns
    Bump <- One
SPECIFICATION Spec
INVARIANTS TypeOK Serialized Isolated
PROPERTIES PassSeesOneTable ImplementsAtomicRows

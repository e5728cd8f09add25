CONSTANTS
    User = {u1}
    Node = {n1, n2}
    Absent = Absent
    DefaultLimit = 2
    MaxReal = 4
    MaxFaults = 2
SPECIFICATION Spec
INVARIANTS TypeOK NeverOvercharged BooksBalance OverLimitIsCut CutIsDeserved
PROPERTY ImplementsMeter

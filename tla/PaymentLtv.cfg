SPECIFICATION Spec
CONSTANTS
    o1 = o1  o2 = o2
    Orders = {o1, o2}
    Txns = {t1, t2}
    Workers = {w1, w2}
    Bank <- None
    Small <- None
    LastPadded = 9999
    Free = free
    Nothing = nothing
INVARIANT LtvIsSumOfInvoices
SYMMETRY Interchangeable
CHECK_DEADLOCK FALSE

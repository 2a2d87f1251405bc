SPECIFICATION Spec
CONSTANTS
    o1 = o1  o2 = o2
    Orders = {o1, o2}
    Txns = {t1, t2, t3, t4}
    Workers = {w1, w2}
    Bank = {o2}
    Small = {o2}
    LastPadded = 2
    Free = free
    Nothing = nothing
INVARIANTS TypeOK PaidIsBacked CreditedOncePerPayment InvoicedOnce InvoicesAreSequential
PROPERTY PaymentStands
SYMMETRY Interchangeable
CHECK_DEADLOCK FALSE

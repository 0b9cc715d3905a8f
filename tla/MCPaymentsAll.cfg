SPECIFICATION Spec
CONSTANTS
    o1 = o1
    o2 = o2
    h1 = h1
    h2 = h2
    c1 = c1
    u1 = u1
    u2 = u2
    Order = {o1, o2}
    Handler = {h1, h2}
    Code = {c1}
    User = {u1, u2}
    OrderTicks = 1
    CodeTicks = {1}
    Limit = {1, 2}
    MaxRedemptions = 3
SYMMETRY MCSymmetry
INVARIANTS
    CreditedOncePerOrder
    CodesNotOverdrawn

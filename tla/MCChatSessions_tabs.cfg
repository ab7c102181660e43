\* Two tabs, two logins, one callback sent again.
CONSTANTS
    alice = alice
    bob = bob
    t1 = t1
    t2 = t2
    l1 = l1
    l2 = l2
    v1 = v1
    v2 = v2
    v3 = v3
    Users = {alice, bob}
    Tabs = {t1, t2}
    Logins = {l1, l2}
    Visits = {v1, v2, v3}
    None = None
SPECIFICATION Spec
SYMMETRY Symmetry
INVARIANTS
    TypeOK
    OneExchangePerState
    SameSubUnlessMoved

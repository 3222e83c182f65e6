SPECIFICATION Spec
CONSTANTS
    v1 = v1
    v2 = v2
    v3 = v3
    g = g
    a1 = a1
    b1 = b1
    a2 = a2
    b2 = b2
    a3 = a3
    Genesis = g
    Account <- MCAccount
    Validators <- MCAccount
    Target <- Chain3
    number <- MCnumber
    parent <- MCparent
    NoTarget = NoTarget
    Redelivery = FALSE
ACTION_CONSTRAINT Lockstep
PROPERTY
    FinalizedNeverReverts

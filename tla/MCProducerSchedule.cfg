CONSTANTS
    Names = {p1, p2, p3, pn}
    Accounts = {p1, p2, p3}
    k1 = k1
    k2 = k2
    k3 = k3
    k4 = k4
    kx = kx
    kr = kr
    Keys = {k1, k2, k3, k4, kx, kr}
    KeyType <- MCKeyType
    ValidKeys = {k1, k2, k3, k4, kr}
    NumSupportedKeyTypes = 1
    KeyWeightBits = 1
    SumBits = 2
    MaxProducers = 2
    Authorities <- MCAuthorities
    NoSchedule = NoSchedule
SPECIFICATION Spec
INVARIANTS
    TypeOK
    ScheduleAcceptedIffValid

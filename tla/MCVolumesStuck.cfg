CONSTANTS
    b1 = b1
    b2 = b2
    t = t
    v = v
    k0 = k0
    k1 = k1
    BaseType = BaseType
    Config = {k0, k1}
    Cache = {t, v}
    Build = {b1}
    ConfigOf <- MCConfigOf
    MadeBy <- MCMadeBy
    Target <- MCTarget
    MaxEvents = 1
    MaxVolumes = 4
SPECIFICATION FairSpec
PROPERTY ContainersGo
CHECK_DEADLOCK FALSE

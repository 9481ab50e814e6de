SPECIFICATION Spec
CONSTANTS
    s1 = s1  s2 = s2
    p1 = p1  p2 = p2  p3 = p3
    k1 = k1  k2 = k2  k3 = k3
    f1 = f1  f2 = f2
    b1 = b1  b2 = b2
    w1 = w1
    Nil = Nil
    Session <- TwoSessions
    Pool <- ThreePools
    Key <- ThreeKeys
    Path <- OnePath
    Bucket <- NoBuckets
    Writer <- NoWriter
    MaxRestart = 0
    Serial = FALSE
INVARIANT DirectoryExclusive
SYMMETRY Symmetry

SPECIFICATION Spec
CONSTANTS
    c1 = c1  c2 = c2
    t1 = t1  t2 = t2
    p1 = p1  p2 = p2
    k1 = k1
    b1 = b1
    d1 = d1  d2 = d2
    Nil = Nil
    Tab <- TwoTabs
    Conn <- TwoConns
    Pool <- TwoPools
    Key <- OneKey
    Bucket <- OneBucket
    Dir <- TwoDirs
    Start <- Beginnings
    MaxClick = 4
INVARIANTS TypeOK RequestNamesItsPool SessionWorks ShownAtRest
SYMMETRY Symmetry
CHECK_DEADLOCK FALSE

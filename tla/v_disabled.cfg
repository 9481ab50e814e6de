SPECIFICATION Spec
CONSTANTS
    usr1 = usr1  usr2 = usr2
    c1 = c1
    p1 = p1  p2 = p2
    k1 = k1
    b1 = b1
    s1 = s1
    r1 = r1
    Nil = Nil
    User <- TwoUsers
    Claim <- OneClaim
    Pool <- TwoPools
    Bucket <- OneBucket
    Key <- OneKey
    Ses <- OneSes
    Req <- OneReq
    Method <- Methods
    Account <- TwoUsers
    Enrollable <- OneUser
    Configurations <- ThreeConfigurations
    Start <- Beginnings
    Days = 1
    MaxTime = 1
    MaxBegun = 3
PROPERTY DisabledStaysDisabled
CHECK_DEADLOCK FALSE

-------------------------- MODULE MC_AccessCheck --------------------------
(* Small instances of AccessCheck.                                         *)
EXTENDS AccessCheck, TLC

CONSTANTS usr1, usr2, c1, p1, p2, k1, b1, s1, r1

OneUser == {usr1}
TwoUsers == {usr1, usr2}
OneClaim == {c1}
TwoPools == {p1, p2}
OneKey == {k1}
OneBucket == {b1}
OneSes == {s1}
OneReq == {r1}
Methods == {"GET", "PUT", "PATCH"}

\* The last one is an error of configuration: no claim is made for a new user.
ThreeConfigurations == {[map |-> TRUE, allow |-> FALSE], [map |-> FALSE, allow |-> TRUE],
                        [map |-> TRUE, allow |-> TRUE]}

Registered == [claim |-> c1, enabled |-> TRUE, eph |-> FALSE, exp |-> Far]
Ephemeral == [claim |-> Nil, enabled |-> TRUE, eph |-> TRUE, exp |-> 1]

\* usr1 is a registered or an enrolled user with a pool that has a bucket and a key.
Table(u, bp, kp) ==
    [uu |-> [x \in User |-> IF x = usr1 THEN u ELSE Nil],
     um |-> [c \in Claim |-> IF u.claim = c THEN usr1 ELSE Nil],
     po |-> [p \in Pool |-> IF p = p1 THEN [owner |-> usr1, enabled |-> TRUE,
                                            inop |-> FALSE, exp |-> Far] ELSE Nil],
     bkt |-> [b \in Bucket |-> [pool |-> p1, policy |-> bp, exp |-> Far]],
     sec |-> [k \in Key |-> [pool |-> p1, policy |-> kp, exp |-> 1]]]

\* ... or one with a bucket only, or two pools, or the key for probing.
Keyless == [Table(Registered, "none", "RO") EXCEPT !.sec = [k \in Key |-> Nil]]
Double == [Table(Ephemeral, "RO", "RW") EXCEPT !.po = [p \in Pool |-> @[p1]]]
Probe == Table(Registered, "WO", "internal")

Beginnings == {Keyless, Double, Probe}
=============================================================================

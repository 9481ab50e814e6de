------------------------------ MODULE MC_WebUI ------------------------------
(* Small instances of WebUI.                                               *)
EXTENDS WebUI, TLC

CONSTANTS c1, c2, t1, t2, p1, p2, k1, b1, d1, d2

TwoConns == {c1, c2}
OneTab == {t1}
TwoTabs == {t1, t2}
TwoPools == {p1, p2}
OneKey == {k1}

OneBucket == {b1}
TwoDirs == {d1, d2}

\* One pool with a bucket and a key, alone or beside an empty one.
First == [dir |-> d1, bkts |-> {b1}, keys |-> {k1}]
Beginnings == {[p \in TwoPools |-> IF p = p1 THEN First ELSE Nil],
               [p \in TwoPools |-> IF p = p1 THEN [First EXCEPT !.keys = {}]
                                            ELSE [dir |-> d2, bkts |-> {}, keys |-> {}]]}

Symmetry == Permutations(TwoConns) \cup Permutations(TwoTabs)
=============================================================================

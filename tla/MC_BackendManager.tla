------------------------ MODULE MC_BackendManager ------------------------
\* Instances of BackendManager for TLC.
EXTENDS BackendManager, TLC

CONSTANTS m1, m2, h1, h2

\* Two request threads, each in a Multiplexer of its own.
TwoMuxes == h1 :> m1 @@ h2 :> m2

\* Two request threads of one Multiplexer.
OneMux == h1 :> m1 @@ h2 :> m1

\* A single request thread.
OneHandler == h1 :> m1

\* With TwoMuxes, the Multiplexers are interchangeable together with their
\* threads; pools, delegates and ports are anyway.
Swap == h1 :> h2 @@ h2 :> h1 @@ m1 :> m2 @@ m2 :> m1

Symmetry ==
    {Swap} \cup Permutations(Backend) \cup Permutations(Port) \cup Permutations(Pool)
==========================================================================

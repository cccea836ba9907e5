------------------------------ MODULE MCClient ------------------------------
(* Model checking of Client: two Clients, what they may share, and two      *)
(* goroutines that use and close them.                                      *)
EXTENDS Client, TLC

Symmetric == Permutations(ClientId) \union Permutations(Proc)

\* An option touches nothing but the configuration under construction, which
\* no other goroutine can see: it is enough to run a NewClient without a break.
UnbrokenNewClient ==
    \A c \in ClientId : phase[c] = "options" => 
        applied'[c] # applied[c] \/ phase'[c] = "ready" \/ UNCHANGED vars
=============================================================================

------------------------------ MODULE MCDepStore ------------------------------
(***************************************************************************)
(* Small instances of DepStore: two urls with a name each, a user's source *)
(* within the manager's directories, and a source and a binary outside.    *)
(***************************************************************************)
EXTENDS DepStoreProofs, TLC

CONSTANTS u1, u2, n1, n2  \* members of Urls and of Names

OneName  == u1 :> n1
OwnNames == u1 :> n1 @@ u2 :> n2

\* The two urls change places with their names.
Swap == u1 :> u2 @@ u2 :> u1 @@ n1 :> n2 @@ n2 :> n1
Symmetry == {[x \in {u1, u2, n1, n2} |-> x], Swap}
=============================================================================

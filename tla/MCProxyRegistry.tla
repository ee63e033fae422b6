---------------------------- MODULE MCProxyRegistry ----------------------------
(***************************************************************************)
(* A small instance of ProxyRegistry: two rules, one of them with a chain  *)
(* and an empty chain that replace each other, and two lists of units.     *)
(***************************************************************************)
EXTENDS ProxyRegistry

CONSTANTS p1, p2, r1, r2  \* members of Proxies and of Rules

SomeChains == {[destination |-> r1, proxies |-> <<p1>>],
               [destination |-> r1, proxies |-> <<>>],
               [destination |-> r2, proxies |-> <<p1, p2>>]}

Lists == {<<>>, <<"unit">>}
=============================================================================

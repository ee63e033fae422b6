---------------------------- MODULE MCProxyHandler ----------------------------
(***************************************************************************)
(* Small instances of ProxyHandler: two proxies, of which one may be slow, *)
(* and chains of two rules, so that a chain is overwritten while proxies   *)
(* of the other still run.                                                 *)
(***************************************************************************)
EXTENDS ProxyHandler, TLC

CONSTANTS p1, p2, r1, r2  \* members of Proxies and of Rules

OneEach == {[destination |-> r1, proxies |-> <<p1>>],
            [destination |-> r2, proxies |-> <<p1, p2>>]}
=============================================================================

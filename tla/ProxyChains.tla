------------------------------ MODULE ProxyChains ------------------------------
(***************************************************************************)
(* What the proxy handler does to its list of proxy chains and to its map  *)
(* of units (proxy_handler/proxy_handler.go): pure operators, used by the  *)
(* modules ProxyRegistry and ProxyHandler.                                 *)
(***************************************************************************)
EXTENDS Naturals, Sequences, SequencesExt

CONSTANTS
  Proxies,   \* ids of proxies
  Rules,     \* valid destination rules
  Chains     \* valid proxy chains

ASSUME ChainsAssumption ==
  Chains \subseteq [destination : Rules, proxies : Seq(Proxies)]

\* (A faulty variant of SetChain: a chain of the same rule is not looked for.)
SetChainAppends(chains, chain) == Append(chains, chain)

\* The parameter of the search's function hides the chain of the request: each
\* stored chain is compared with itself, and the first is overwritten.
SetChain(chains, chain) ==
  IF chains = <<>> THEN <<chain>> ELSE [chains EXCEPT ![1] = chain]

\* (A faulty variant of SetUnits: an entry of an equal rule is not looked for.)
SetUnitsAdds(entries, r, list) == entries \cup {[rule |-> r, units |-> list]}

\* The map has pointers to rules as keys: nothing but this search keeps it from
\* having several entries of equal rules.  The search finds one of them.
SetUnits(entries, r, list) ==
  LET new == [rule |-> r, units |-> list]
  IN  IF \E e \in entries : e.rule = r
      THEN (entries \ {CHOOSE e \in entries : e.rule = r}) \cup {new}
      ELSE entries \cup {new}

\* The chains that end with proxy p.
EndingWith(chains, p) ==
  {chains[i] : i \in {j \in DOMAIN chains : /\ chains[j].proxies # <<>>
                                            /\ Last(chains[j].proxies) = p}}

\* The last proxy of each chain that has one.
LastProxiesOf(chains) ==
  {Last(chains[i].proxies) : i \in {j \in DOMAIN chains : chains[j].proxies # <<>>}}

\* The first chain of rule r, if there is one.
OfRule(chains, r) ==
  {chains[i] : i \in {j \in DOMAIN chains :
                        /\ chains[j].destination = r
                        /\ \A k \in 1..(j - 1) : chains[k].destination # r}}
=============================================================================

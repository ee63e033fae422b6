--------------------------- MODULE ProxyChainsProofs ---------------------------
(***************************************************************************)
(* Lemmas about the operators of ProxyChains, for ProxyRegistryProofs and  *)
(* ProxyHandlerProofs.                                                     *)
(***************************************************************************)
EXTENDS ProxyChains, SequenceTheorems, TLAPS

LEMMA ChainOf ==
  ASSUME NEW c \in Chains
  PROVE  /\ c.destination \in Rules /\ c.proxies \in Seq(Proxies)
         /\ c.proxies # <<>> => Last(c.proxies) \in Proxies
<1>1. c.destination \in Rules /\ c.proxies \in Seq(Proxies) BY ChainsAssumption
<1>2. ASSUME c.proxies # <<>> PROVE Last(c.proxies) \in Proxies
  <2>1. Len(c.proxies) \in 1..Len(c.proxies)
    <3>1. Len(c.proxies) \in Nat \ {0} BY <1>1, <1>2, EmptySeq
    <3> QED BY <3>1
  <2> QED BY <1>1, <2>1, ElementOfSeq DEF Last
<1> QED BY <1>1, <1>2

LEMMA StoredIs ==
  ASSUME NEW chains \in Seq(Chains)
  PROVE  /\ Len(chains) \in Nat /\ DOMAIN chains = 1..Len(chains)
         /\ \A i \in DOMAIN chains : chains[i] \in Chains
<1>1. Len(chains) \in Nat /\ DOMAIN chains = 1..Len(chains) BY LenProperties
<1>2. \A i \in 1..Len(chains) : chains[i] \in Chains BY ElementOfSeq
<1> QED BY <1>1, <1>2

\* A set leaves one chain more only if there was none; otherwise the first chain,
\* of whatever rule, gives way.
LEMMA SetChainIs ==
  ASSUME NEW chains \in Seq(Chains), NEW chain \in Chains
  PROVE  /\ SetChain(chains, chain) \in Seq(Chains)
         /\ Len(SetChain(chains, chain)) = IF chains = <<>> THEN 1 ELSE Len(chains)
         /\ SetChain(chains, chain)[1] = chain
         /\ \A i \in DOMAIN SetChain(chains, chain) :
              i > 1 => i \in DOMAIN chains /\ SetChain(chains, chain)[i] = chains[i]
<1>1. CASE chains = <<>>
  <2>1. SetChain(chains, chain) = <<chain>> BY <1>1 DEF SetChain
  <2>2. <<chain>> \in Seq(Chains) /\ Len(<<chain>>) = 1 /\ <<chain>>[1] = chain
        /\ DOMAIN <<chain>> = {1}
    OBVIOUS
  <2>3. DOMAIN SetChain(chains, chain) = {1} BY <2>1, <2>2
  <2>4. \A i \in {1} : ~ (i > 1) OBVIOUS
  <2>5. \A i \in DOMAIN SetChain(chains, chain) : ~ (i > 1) BY <2>3, <2>4
  <2>6. /\ SetChain(chains, chain) \in Seq(Chains) /\ Len(SetChain(chains, chain)) = 1
        /\ SetChain(chains, chain)[1] = chain
    BY <2>1, <2>2
  <2> QED BY <1>1, <2>5, <2>6
<1>2. CASE chains # <<>>
  <2>1. SetChain(chains, chain) = [chains EXCEPT ![1] = chain] BY <1>2 DEF SetChain
  <2>2. Len(chains) \in Nat \ {0} BY <1>2, EmptySeq
  <2>3. 1 \in 1..Len(chains) BY <2>2
  <2>4. /\ [chains EXCEPT ![1] = chain] \in Seq(Chains)
        /\ Len([chains EXCEPT ![1] = chain]) = Len(chains)
        /\ \A j \in 1..Len(chains) : [chains EXCEPT ![1] = chain][j] = IF j = 1 THEN chain ELSE chains[j]
    BY <2>3, ExceptSeq
  <2>5. DOMAIN [chains EXCEPT ![1] = chain] = 1..Len(chains) BY StoredIs
  <2>6. DOMAIN chains = 1..Len(chains) BY StoredIs
  <2> QED BY <1>2, <2>1, <2>3, <2>4, <2>5, <2>6
<1> QED BY <1>1, <1>2

\* The queries find stored chains, and last proxies of stored chains.
LEMMA FoundIs ==
  ASSUME NEW chains \in Seq(Chains)
  PROVE  /\ \A p : EndingWith(chains, p) \subseteq {chains[i] : i \in DOMAIN chains}
         /\ \A r : OfRule(chains, r) \subseteq {chains[i] : i \in DOMAIN chains}
         /\ \A p \in LastProxiesOf(chains) :
              \E i \in DOMAIN chains : chains[i].proxies # <<>> /\ Last(chains[i].proxies) = p
         /\ LastProxiesOf(chains) \subseteq Proxies
<1>1. \A p : EndingWith(chains, p) \subseteq {chains[i] : i \in DOMAIN chains}
  BY DEF EndingWith
<1>2. \A r : OfRule(chains, r) \subseteq {chains[i] : i \in DOMAIN chains}
  BY DEF OfRule
<1>3. \A p \in LastProxiesOf(chains) :
        \E i \in DOMAIN chains : chains[i].proxies # <<>> /\ Last(chains[i].proxies) = p
  BY DEF LastProxiesOf
<1>4. LastProxiesOf(chains) \subseteq Proxies
  BY <1>3, StoredIs, ChainOf
<1> QED BY <1>1, <1>2, <1>3, <1>4
==============================================================================

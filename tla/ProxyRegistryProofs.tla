-------------------------- MODULE ProxyRegistryProofs --------------------------
(***************************************************************************)
(* Proofs about ProxyRegistry, for any rules, chains, lists and late sets. *)
(***************************************************************************)
EXTENDS ProxyRegistry, ProxyChainsProofs

UnitsTyped ==
  /\ proxyUnits \subseteq UnitSets
  /\ late \subseteq Sets
  /\ mayUnits \in [Rules -> SUBSET UnitLists]

\* Rules are keys by pointer; still no two keys are equal.
OneEntry == \A d, e \in proxyUnits : d.rule = e.rule => d = e

\* What is stored, or on its way, or missing, is what Units may answer.
EntriesInv == \A e \in proxyUnits : e.units \in mayUnits[e.rule]
LateInv    == \A s \in late \cap UnitSets : s.units \in mayUnits[s.rule]
NoEntryInv ==
  \A r \in Rules : (\A e \in proxyUnits : e.rule # r) => <<>> \in mayUnits[r]

IInv == UnitsTyped /\ OneEntry /\ EntriesInv /\ LateInv /\ NoEntryInv /\ UnitsAreLastSet

-----------------------------------------------------------------------------
LEMMA UnitSetOf ==
  ASSUME NEW s \in UnitSets
  PROVE  /\ s.rule \in Rules /\ s.units \in UnitLists
         /\ s = [rule |-> s.rule, units |-> s.units]
         /\ s \notin ChainSets
<1>1. s.rule \in Rules /\ s.units \in UnitLists /\ s = [rule |-> s.rule, units |-> s.units]
  BY DEF UnitSets
<1>2. DOMAIN s = {"rule", "units"} BY <1>1
<1>3. ASSUME NEW t \in ChainSets PROVE DOMAIN t = {"chain"} BY DEF ChainSets
<1>4. "rule" # "chain" OBVIOUS
<1> QED BY <1>1, <1>2, <1>3, <1>4

\* SetUnits leaves one entry of the rule, the new one, and the entries of others.
LEMMA SetUnitsSets ==
  ASSUME OneEntry, NEW r, NEW list
  PROVE  SetUnits(proxyUnits, r, list)
           = {e \in proxyUnits : e.rule # r} \cup {[rule |-> r, units |-> list]}
<1> DEFINE new == [rule |-> r, units |-> list]
<1>1. CASE \E e \in proxyUnits : e.rule = r
  <2> DEFINE old == CHOOSE e \in proxyUnits : e.rule = r
  <2>1. old \in proxyUnits /\ old.rule = r BY <1>1
  <2>2. \A e \in proxyUnits : e.rule = r <=> e = old BY <2>1 DEF OneEntry
  <2>3. proxyUnits \ {old} = {e \in proxyUnits : e.rule # r} BY <2>2
  <2> QED BY <1>1, <2>3 DEF SetUnits
<1>2. CASE ~ \E e \in proxyUnits : e.rule = r
  <2>1. proxyUnits = {e \in proxyUnits : e.rule # r} BY <1>2
  <2> QED BY <1>2, <2>1 DEF SetUnits
<1> QED BY <1>1, <1>2

LEMMA InitIInv == Init => IInv
<1> SUFFICES ASSUME Init PROVE IInv
  OBVIOUS
<1>1. mayUnits \in [Rules -> SUBSET UnitLists]
  BY RegistryAssumption DEF Init
<1>2. ret.call = "none" BY DEF Init, NoCall
<1>3. UnitsAreLastSet BY <1>2 DEF UnitsAreLastSet
<1>4. OneEntry /\ EntriesInv /\ LateInv BY DEF Init, OneEntry, EntriesInv, LateInv
<1>5. NoEntryInv BY DEF Init, NoEntryInv
<1> QED BY <1>1, <1>3, <1>4, <1>5 DEF Init, IInv, UnitsTyped

\* A set of units is served: the entry of its rule is the new list.
LEMMA ServeUnits ==
  ASSUME IInv, NEW s \in UnitSets, Serve(s), mayUnits' \in [Rules -> SUBSET UnitLists],
         s.units \in mayUnits'[s.rule],
         \A r \in Rules : r # s.rule => mayUnits'[r] = mayUnits[r],
         late' \subseteq late \cup {s}
  PROVE  UnitsTyped' /\ OneEntry' /\ EntriesInv' /\ NoEntryInv'
<1>1. proxyUnits' = {e \in proxyUnits : e.rule # s.rule} \cup {s}
  BY SetUnitsSets, UnitSetOf DEF Serve, onSetUnits, IInv
<1>2. s \in Sets BY DEF Sets
<1>3. UnitsTyped' BY <1>1, <1>2 DEF IInv, UnitsTyped
<1>4. OneEntry' BY <1>1 DEF IInv, OneEntry
<1>5. \A e \in proxyUnits : e.rule \in Rules BY UnitSetOf DEF IInv, UnitsTyped
<1>6. EntriesInv' BY <1>1, <1>5 DEF IInv, EntriesInv
<1>7. NoEntryInv'
  <2> SUFFICES ASSUME NEW r \in Rules, \A e \in proxyUnits' : e.rule # r
               PROVE  <<>> \in mayUnits'[r]
    BY DEF NoEntryInv
  <2>1. r # s.rule BY <1>1
  <2>2. \A e \in proxyUnits : e.rule # r BY <1>1, <2>1
  <2> QED BY <2>1, <2>2 DEF IInv, NoEntryInv
<1> QED BY <1>3, <1>4, <1>6, <1>7

\* A set of a chain leaves the units alone.
LEMMA ServeChain ==
  ASSUME NEW s \in Sets, s \notin UnitSets, Serve(s) PROVE UNCHANGED proxyUnits
BY DEF Serve, onSetProxyChain

LEMMA AnsweredStep == ASSUME IInv, NEW s \in Sets, Answered(s) PROVE IInv'
<1>1. /\ Serve(s) /\ Known(s) /\ late' \in {late, late \cup {s}}
      /\ ret'.call = "set" /\ closing' = closing
  BY DEF Answered
<1>2. UnitsAreLastSet' BY <1>1 DEF UnitsAreLastSet
<1>3. CASE s \in UnitSets
  <2>1. s.rule \in Rules /\ s.units \in UnitLists BY <1>3, UnitSetOf
  <2>2. mayUnits' = [mayUnits EXCEPT ![s.rule] = {s.units} \cup LateLists(late', s.rule)]
    BY <1>1, <1>3 DEF Known
  <2>3. LateLists(late', s.rule) \subseteq UnitLists
    BY UnitSetOf DEF LateLists
  <2>4. mayUnits' \in [Rules -> SUBSET UnitLists]
    BY <2>1, <2>2, <2>3 DEF IInv, UnitsTyped
  <2>5. mayUnits'[s.rule] = {s.units} \cup LateLists(late', s.rule)
    BY <2>1, <2>2 DEF IInv, UnitsTyped
  <2>6. \A r \in Rules : r # s.rule => mayUnits'[r] = mayUnits[r]
    BY <2>2 DEF IInv, UnitsTyped
  <2>7. UnitsTyped' /\ OneEntry' /\ EntriesInv' /\ NoEntryInv'
    BY <1>1, <1>3, <2>4, <2>5, <2>6, ServeUnits
  <2>8. LateInv'
    <3> SUFFICES ASSUME NEW t \in late' \cap UnitSets PROVE t.units \in mayUnits'[t.rule]
      BY DEF LateInv
    <3>1. CASE t.rule = s.rule BY <2>5, <3>1 DEF LateLists
    <3>2. CASE t.rule # s.rule
      <4>1. t \in late BY <1>1, <3>2
      <4>2. t.rule \in Rules BY UnitSetOf
      <4> QED BY <2>6, <3>2, <4>1, <4>2 DEF IInv, LateInv
    <3> QED BY <3>1, <3>2
  <2> QED BY <1>2, <2>7, <2>8 DEF IInv
<1>4. CASE s \notin UnitSets
  <2>1. UNCHANGED <<proxyUnits, mayUnits>>
    BY <1>1, <1>4, ServeChain DEF Known
  <2> QED BY <1>1, <1>2, <1>4, <2>1
          DEF IInv, UnitsTyped, OneEntry, EntriesInv, LateInv, NoEntryInv
<1> QED BY <1>3, <1>4

LEMMA TimedOutStep == ASSUME IInv, NEW s \in Sets, TimedOut(s) PROVE IInv'
<1>1. /\ Unknown(s) /\ late' = late \cup {s}
      /\ ret'.call = "timeout" /\ UNCHANGED <<proxyUnits, closing>>
  BY DEF TimedOut, serverVars
<1>2. UnitsAreLastSet' BY <1>1 DEF UnitsAreLastSet
<1>3. CASE s \in UnitSets
  <2>1. s.rule \in Rules /\ s.units \in UnitLists BY <1>3, UnitSetOf
  <2>2. mayUnits' = [mayUnits EXCEPT ![s.rule] = @ \cup {s.units}]
    BY <1>1, <1>3 DEF Unknown
  <2>3. mayUnits' \in [Rules -> SUBSET UnitLists]
    BY <2>1, <2>2 DEF IInv, UnitsTyped
  <2>4. s.units \in mayUnits'[s.rule] /\ \A r \in Rules : mayUnits[r] \subseteq mayUnits'[r]
    BY <2>1, <2>2 DEF IInv, UnitsTyped
  <2>5. \A e \in proxyUnits \cup (late \cap UnitSets) : e.rule \in Rules
    BY UnitSetOf DEF IInv, UnitsTyped
  <2>6. UnitsTyped' /\ OneEntry' BY <1>1, <2>3 DEF IInv, UnitsTyped, OneEntry
  <2>7. EntriesInv' BY <1>1, <2>4, <2>5 DEF IInv, EntriesInv
  <2>8. LateInv' BY <1>1, <2>4, <2>5 DEF IInv, LateInv
  <2>9. NoEntryInv' BY <1>1, <2>4 DEF IInv, NoEntryInv
  <2> QED BY <1>2, <2>6, <2>7, <2>8, <2>9 DEF IInv
<1>4. CASE s \notin UnitSets
  <2>1. UNCHANGED mayUnits BY <1>1, <1>4 DEF Unknown
  <2> QED BY <1>1, <1>2, <1>4, <2>1
          DEF IInv, UnitsTyped, OneEntry, EntriesInv, LateInv, NoEntryInv
<1> QED BY <1>3, <1>4

LEMMA LateStep == ASSUME IInv, NEW s \in late, ServeLate(s) \/ Lost(s) PROVE IInv'
<1>1. s \in Sets BY DEF IInv, UnitsTyped
<1>2. late' \subseteq late /\ UNCHANGED <<closing, ret, mayUnits>>
  BY DEF ServeLate, Lost, historyVars
<1>3. UnitsAreLastSet' BY <1>2 DEF IInv, UnitsAreLastSet
<1>4. LateInv' BY <1>2 DEF IInv, LateInv
<1>5. CASE ServeLate(s) /\ s \in UnitSets
  <2>1. s.units \in mayUnits[s.rule] BY <1>5 DEF IInv, LateInv
  <2>2. Serve(s) BY <1>5 DEF ServeLate
  <2>3. UnitsTyped' /\ OneEntry' /\ EntriesInv' /\ NoEntryInv'
    <3>1. mayUnits' \in [Rules -> SUBSET UnitLists] BY <1>2 DEF IInv, UnitsTyped
    <3> QED BY <1>2, <1>5, <2>1, <2>2, <3>1, ServeUnits
  <2> QED BY <1>3, <1>4, <2>3 DEF IInv
<1>6. CASE UNCHANGED proxyUnits
  BY <1>2, <1>3, <1>4, <1>6 DEF IInv, UnitsTyped, OneEntry, EntriesInv, NoEntryInv
<1>7. CASE ServeLate(s) /\ s \notin UnitSets
  BY <1>1, <1>6, <1>7, ServeChain DEF ServeLate
<1> QED BY <1>5, <1>6, <1>7 DEF Lost, serverVars

LEMMA QueryStep ==
  ASSUME IInv, NEW call, NEW of, NEW value, Returns(call, of, value),
         call = "units" => value \subseteq mayUnits[of]
  PROVE  IInv'
<1>1. /\ ret' = [call |-> call, of |-> of, value |-> value]
      /\ UNCHANGED <<proxyUnits, closing, late, mayUnits>>
  BY DEF Returns, serverVars, historyVars
<1>2. UnitsAreLastSet' BY <1>1 DEF UnitsAreLastSet
<1> QED BY <1>1, <1>2 DEF IInv, UnitsTyped, OneEntry, EntriesInv, LateInv, NoEntryInv

\* Whichever entry the search of the map meets, its list is one that may be found.
LEMMA UnitsStep == ASSUME IInv, NEW r \in Rules, Units(r) PROVE IInv'
<1>1. PICK list \in onUnits(r) : Returns("units", r, {list}) BY DEF Units
<1>2. list \in mayUnits[r]
  <2>1. CASE \E e \in proxyUnits : e.rule = r
    BY <1>1, <2>1 DEF onUnits, IInv, EntriesInv
  <2>2. CASE ~ \E e \in proxyUnits : e.rule = r
    BY <1>1, <2>2 DEF onUnits, IInv, NoEntryInv
  <2> QED BY <2>1, <2>2
<1> QED BY <1>1, <1>2, QueryStep

LEMMA ClientStep == ASSUME IInv, Client PROVE IInv'
<1>1. ASSUME NEW chain \in Chains, Set(chain) PROVE IInv'
  <2>1. [chain |-> chain] \in Sets BY DEF Sets, ChainSets
  <2> QED BY <1>1, <2>1, AnsweredStep, TimedOutStep DEF Set
<1>2. ASSUME NEW r \in Rules, NEW list \in UnitLists, SetUnitsOf(r, list) PROVE IInv'
  <2>1. [rule |-> r, units |-> list] \in Sets BY DEF Sets, UnitSets
  <2> QED BY <1>2, <2>1, AnsweredStep, TimedOutStep DEF SetUnitsOf
<1>3. ASSUME NEW r \in Rules, ProxyChainByRule(r) PROVE IInv'
  BY <1>3, QueryStep DEF ProxyChainByRule
<1>4. ASSUME NEW p \in Proxies, ProxyChainsByLastId(p) PROVE IInv'
  BY <1>4, QueryStep DEF ProxyChainsByLastId
<1>5. CASE LastProxies \/ ProxyChains
  BY <1>5, QueryStep DEF LastProxies, ProxyChains
<1> QED BY <1>1, <1>2, <1>3, <1>4, <1>5, UnitsStep DEF Client

LEMMA ResetUnitsStep == ASSUME IInv, ResetUnits PROVE IInv'
<1>1. /\ proxyUnits' = {} /\ late' = late /\ ret'.call = "none"
      /\ mayUnits' = [r \in Rules |-> {<<>>} \cup LateLists(late, r)]
  BY DEF ResetUnits, NoCall
<1>2. \A r \in Rules : LateLists(late, r) \subseteq UnitLists BY UnitSetOf DEF LateLists
<1>3. mayUnits' \in [Rules -> SUBSET UnitLists] BY <1>1, <1>2, RegistryAssumption
<1>4. UnitsTyped' BY <1>1, <1>3 DEF IInv, UnitsTyped
<1>5. OneEntry' /\ EntriesInv' BY <1>1 DEF OneEntry, EntriesInv
<1>6. LateInv'
  <2> SUFFICES ASSUME NEW t \in late \cap UnitSets PROVE t.units \in mayUnits'[t.rule]
    BY <1>1 DEF LateInv
  <2>1. t.rule \in Rules BY UnitSetOf
  <2>2. t.units \in LateLists(late, t.rule) BY DEF LateLists
  <2> QED BY <1>1, <2>1, <2>2
<1>7. NoEntryInv' BY <1>1 DEF NoEntryInv
<1>8. UnitsAreLastSet' BY <1>1 DEF UnitsAreLastSet
<1> QED BY <1>4, <1>5, <1>6, <1>7, <1>8 DEF IInv

LEMMA OnCloseStep == ASSUME IInv, OnClose PROVE IInv'
<1>1. CASE ResetBegin \/ SetClose
  BY <1>1 DEF ResetBegin, SetClose, IInv, UnitsTyped, OneEntry, EntriesInv, LateInv,
              NoEntryInv, UnitsAreLastSet, serverVars, historyVars
<1>2. CASE ResetChains
  <2>1. UNCHANGED <<proxyUnits, late, mayUnits>> /\ ret'.call = "none"
    BY <1>2 DEF ResetChains, NoCall
  <2> QED BY <2>1 DEF IInv, UnitsTyped, OneEntry, EntriesInv, LateInv, NoEntryInv,
                      UnitsAreLastSet
<1> QED BY <1>1, <1>2, ResetUnitsStep DEF OnClose

LEMMA Inductive == IInv /\ [Next]_vars => IInv'
<1> SUFFICES ASSUME IInv, [Next]_vars PROVE IInv'
  OBVIOUS
<1>1. CASE Next BY <1>1, ClientStep, LateStep, OnCloseStep DEF Next
<1>2. CASE UNCHANGED vars
  BY <1>2 DEF vars, serverVars, historyVars, IInv, UnitsTyped, OneEntry, EntriesInv,
              LateInv, NoEntryInv, UnitsAreLastSet
<1> QED BY <1>1, <1>2

\* IInv holds in every reachable state.
THEOREM Invariant == Spec => []IInv
BY InitIInv, Inductive, PTL DEF Spec

-----------------------------------------------------------------------------
\* Units answers no list that was replaced for good, although the map keeps its
\* rules by pointer, and no empty list but for a rule that has none: it was not set
\* since the handler started or onClose emptied the map, which may be while the
\* handler still serves (proxy_handler.go:72-80, 248-261, 384-386).
THEOREM UnitsAnswerLastSet == Spec => []UnitsAreLastSet
<1>1. IInv => UnitsAreLastSet BY DEF IInv
<1> QED BY <1>1, Invariant, PTL

-----------------------------------------------------------------------------
(***************************************************************************)
(* The chains.                                                             *)
(***************************************************************************)
\* The first chain that is stored is the one that every set overwrites.
OneChain == Len(proxyChains) <= 1

\* What is stored, or on its way, is what ProxyChainByRule may answer.
ChainsInv ==
  \A i \in DOMAIN proxyChains : proxyChains[i] \in mayChain[proxyChains[i].destination]
LateChainsInv ==
  \A s \in late \cap ChainSets : s.chain \in mayChain[s.chain.destination]

ChainInv == TypeOK /\ OneChain /\ ChainsInv /\ LateChainsInv /\ ChainsAreLastSet

\* What the steps below have to show of the types.
ChainsTyped ==
  /\ proxyChains \in Seq(Chains)
  /\ closing \in {"open", "chains", "units", "close", "closed"} /\ panicked \in BOOLEAN
  /\ mayChain \in [Rules -> SUBSET Chains]

RetTyped ==
  \/ ret.call \in {"none", "set", "timeout"} /\ ret.value = {}
  \/ ret.call = "units" /\ ret.value \subseteq UnitLists
  \/ ret.call = "chains" /\ ret.value \subseteq Chains
  \/ ret.call = "proxies" /\ ret.value \subseteq Proxies

LEMMA Types == TypeOK <=> UnitsTyped /\ ChainsTyped /\ RetTyped
BY DEF TypeOK, UnitsTyped, ChainsTyped, RetTyped

LEMMA ChainSetOf ==
  ASSUME NEW s \in ChainSets
  PROVE  /\ s.chain \in Chains /\ s = [chain |-> s.chain]
         /\ s.chain.destination \in Rules
         /\ s \notin UnitSets
<1>1. s.chain \in Chains /\ s = [chain |-> s.chain] BY DEF ChainSets
<1>2. DOMAIN s = {"chain"} BY <1>1
<1>3. ASSUME NEW t \in UnitSets PROVE DOMAIN t = {"rule", "units"} BY DEF UnitSets
<1>4. "rule" # "chain" OBVIOUS
<1>5. s.chain.destination \in Rules BY <1>1, ChainOf
<1> QED BY <1>1, <1>2, <1>3, <1>4, <1>5

LEMMA InitChainInv == Init => ChainInv
<1> SUFFICES ASSUME Init PROVE ChainInv
  OBVIOUS
<1>1. proxyChains \in Seq(Chains) /\ Len(proxyChains) = 0 /\ DOMAIN proxyChains = {}
  BY EmptySeq DEF Init
<1>2. mayChain \in [Rules -> SUBSET Chains] BY DEF Init
<1>3. ChainsTyped BY <1>1, <1>2 DEF ChainsTyped, Init
<1>4. ret.call = "none" /\ ret.value = {} BY DEF Init, NoCall
<1>5. TypeOK BY <1>3, <1>4, InitIInv, Types DEF RetTyped, IInv
<1>6. ChainsAreLastSet BY <1>4 DEF ChainsAreLastSet
<1>7. late = {} BY DEF Init
<1> QED BY <1>1, <1>5, <1>6, <1>7 DEF ChainInv, OneChain, ChainsInv, LateChainsInv

\* A set of a chain is served: its chain is the only one that is stored.
LEMMA ServeChainIs ==
  ASSUME ChainInv, NEW s \in ChainSets, Serve(s), s.chain \in mayChain'[s.chain.destination]
  PROVE  proxyChains' \in Seq(Chains) /\ panicked' \in BOOLEAN /\ OneChain' /\ ChainsInv'
<1>1. ChainsAccess /\ proxyChains' = SetChain(proxyChains, s.chain)
  BY ChainSetOf DEF Serve, onSetProxyChain
<1>2. s.chain \in Chains /\ proxyChains \in Seq(Chains) BY ChainSetOf DEF ChainInv, TypeOK
<1>3. /\ proxyChains' \in Seq(Chains)
      /\ Len(proxyChains') = IF proxyChains = <<>> THEN 1 ELSE Len(proxyChains)
      /\ proxyChains'[1] = s.chain
  BY <1>1, <1>2, SetChainIs
<1>4. Len(proxyChains) \in Nat /\ Len(proxyChains) <= 1 BY <1>2, StoredIs DEF ChainInv, OneChain
<1>5. Len(proxyChains') <= 1 BY <1>3, <1>4
<1>6. DOMAIN proxyChains' = 1..Len(proxyChains') /\ Len(proxyChains') \in Nat
  BY <1>3, StoredIs
<1>7. \A i \in DOMAIN proxyChains' : i = 1 BY <1>5, <1>6
<1>8. panicked' \in BOOLEAN BY <1>1 DEF ChainsAccess
<1> QED BY <1>3, <1>5, <1>7, <1>8 DEF OneChain, ChainsInv

\* A set of units leaves the chains alone.
LEMMA ServeUnitsKeeps ==
  ASSUME NEW s \in UnitSets, Serve(s) PROVE UNCHANGED <<proxyChains, panicked>>
BY UnitSetOf DEF Serve, onSetUnits

\* The steps that change neither the chains nor the sets that may be served.
LEMMA ChainsKept ==
  ASSUME ChainInv, UnitsTyped', RetTyped', ChainsAreLastSet', panicked' \in BOOLEAN,
         UNCHANGED <<proxyChains, closing, mayChain>>,
         late' \cap ChainSets \subseteq late
  PROVE  ChainInv'
<1>1. ChainsTyped' BY DEF ChainInv, TypeOK, ChainsTyped
<1>2. TypeOK' BY <1>1, Types, PTL
<1>3. OneChain' /\ ChainsInv' BY DEF ChainInv, OneChain, ChainsInv
<1>4. LateChainsInv' BY DEF ChainInv, LateChainsInv
<1> QED BY <1>2, <1>3, <1>4 DEF ChainInv

LEMMA AnsweredChain == ASSUME ChainInv, IInv', NEW s \in Sets, Answered(s) PROVE ChainInv'
<1>1. /\ Serve(s) /\ Known(s) /\ late' \in {late, late \cup {s}}
      /\ ret' = [call |-> "set", of |-> NoRule, value |-> {}] /\ closing' = closing
  BY DEF Answered
<1>2. UnitsTyped' BY DEF IInv
<1>3. RetTyped' /\ ChainsAreLastSet' BY <1>1 DEF RetTyped, ChainsAreLastSet
<1>4. CASE s \in UnitSets
  <2>1. UNCHANGED <<proxyChains, panicked, mayChain>>
    BY <1>1, <1>4, ServeUnitsKeeps DEF Known
  <2>2. late' \cap ChainSets \subseteq late BY <1>1, <1>4, ChainSetOf
  <2>3. panicked \in BOOLEAN BY DEF ChainInv, TypeOK
  <2> QED BY <1>1, <1>2, <1>3, <2>1, <2>2, <2>3, ChainsKept
<1>5. CASE s \in ChainSets
  <2> DEFINE r == s.chain.destination
  <2>1. r \in Rules /\ s.chain \in Chains /\ s \notin UnitSets BY <1>5, ChainSetOf
  <2>2. mayChain' = [mayChain EXCEPT ![r] = {s.chain} \cup LateChains(late', r)]
    BY <1>1, <2>1 DEF Known
  <2>3. LateChains(late', r) \subseteq Chains BY ChainSetOf DEF LateChains
  <2>4. mayChain \in [Rules -> SUBSET Chains] BY DEF ChainInv, TypeOK
  <2>5. mayChain' \in [Rules -> SUBSET Chains] BY <2>1, <2>2, <2>3, <2>4
  <2>6. /\ mayChain'[r] = {s.chain} \cup LateChains(late', r)
        /\ \A x \in Rules : x # r => mayChain'[x] = mayChain[x]
    BY <2>1, <2>2, <2>4
  <2>7. proxyChains' \in Seq(Chains) /\ panicked' \in BOOLEAN /\ OneChain' /\ ChainsInv'
    BY <1>1, <1>5, <2>6, ServeChainIs
  <2>8. LateChainsInv'
    <3> SUFFICES ASSUME NEW t \in late' \cap ChainSets
                 PROVE  t.chain \in mayChain'[t.chain.destination]
      BY DEF LateChainsInv
    <3>1. CASE t.chain.destination = r BY <2>6, <3>1 DEF LateChains
    <3>2. CASE t.chain.destination # r
      <4>1. t \in late BY <1>1, <3>2
      <4>2. t.chain.destination \in Rules BY ChainSetOf
      <4> QED BY <2>6, <3>2, <4>1, <4>2 DEF ChainInv, LateChainsInv
    <3> QED BY <3>1, <3>2
  <2>9. ChainsTyped' BY <1>1, <2>5, <2>7 DEF ChainsTyped, ChainInv, TypeOK
  <2>10. TypeOK' BY <1>2, <1>3, <2>9, Types, PTL
  <2> QED BY <1>3, <2>7, <2>8, <2>10 DEF ChainInv
<1> QED BY <1>4, <1>5 DEF Sets

LEMMA TimedOutChain == ASSUME ChainInv, IInv', NEW s \in Sets, TimedOut(s) PROVE ChainInv'
<1>1. /\ Unknown(s) /\ late' = late \cup {s}
      /\ ret' = [call |-> "timeout", of |-> NoRule, value |-> {}]
      /\ UNCHANGED <<proxyChains, closing, panicked>>
  BY DEF TimedOut, serverVars
<1>2. UnitsTyped' BY DEF IInv
<1>3. RetTyped' /\ ChainsAreLastSet' BY <1>1 DEF RetTyped, ChainsAreLastSet
<1>4. panicked \in BOOLEAN BY DEF ChainInv, TypeOK
<1>5. CASE s \in UnitSets
  <2>1. UNCHANGED mayChain BY <1>1, <1>5 DEF Unknown
  <2>2. late' \cap ChainSets \subseteq late BY <1>1, <1>5, ChainSetOf
  <2> QED BY <1>1, <1>2, <1>3, <1>4, <2>1, <2>2, ChainsKept
<1>6. CASE s \in ChainSets
  <2> DEFINE r == s.chain.destination
  <2>1. r \in Rules /\ s.chain \in Chains /\ s \notin UnitSets BY <1>6, ChainSetOf
  <2>2. mayChain' = [mayChain EXCEPT ![r] = mayChain[r] \cup {s.chain}]
    BY <1>1, <2>1 DEF Unknown
  <2>3. mayChain \in [Rules -> SUBSET Chains] BY DEF ChainInv, TypeOK
  <2>4. mayChain' \in [Rules -> SUBSET Chains] BY <2>1, <2>2, <2>3
  <2>5. s.chain \in mayChain'[r] /\ \A x \in Rules : mayChain[x] \subseteq mayChain'[x]
    BY <2>1, <2>2, <2>3
  <2>6. \A i \in DOMAIN proxyChains : proxyChains[i].destination \in Rules
    BY StoredIs, ChainOf DEF ChainInv, TypeOK
  <2>7. ChainsInv' BY <1>1, <2>5, <2>6 DEF ChainInv, ChainsInv
  <2>8. \A t \in late' \cap ChainSets : t.chain.destination \in Rules BY ChainSetOf
  <2>9. LateChainsInv' BY <1>1, <2>5, <2>8 DEF ChainInv, LateChainsInv
  <2>10. ChainsTyped' BY <1>1, <2>4 DEF ChainsTyped, ChainInv, TypeOK
  <2>11. TypeOK' BY <1>2, <1>3, <2>10, Types, PTL
  <2>12. OneChain' BY <1>1 DEF ChainInv, OneChain
  <2> QED BY <1>3, <2>7, <2>9, <2>11, <2>12 DEF ChainInv
<1> QED BY <1>5, <1>6 DEF Sets

LEMMA LateChain == ASSUME ChainInv, IInv', NEW s \in late, ServeLate(s) \/ Lost(s) PROVE ChainInv'
<1>1. late' \subseteq late /\ UNCHANGED <<closing, ret, mayChain>>
  BY DEF ServeLate, Lost, historyVars
<1>2. UnitsTyped' BY DEF IInv
<1>3. RetTyped /\ panicked \in BOOLEAN BY Types DEF ChainInv, TypeOK
<1>4. RetTyped' /\ ChainsAreLastSet' BY <1>1, <1>3 DEF ChainInv, RetTyped, ChainsAreLastSet
<1>5. CASE UNCHANGED <<proxyChains, panicked>>
  BY <1>1, <1>2, <1>3, <1>4, <1>5, ChainsKept
<1>6. CASE ServeLate(s) /\ s \in ChainSets
  <2>1. s.chain \in mayChain[s.chain.destination] BY <1>6 DEF ChainInv, LateChainsInv
  <2>2. proxyChains' \in Seq(Chains) /\ panicked' \in BOOLEAN /\ OneChain' /\ ChainsInv'
    BY <1>1, <1>6, <2>1, ServeChainIs DEF ServeLate
  <2>3. ChainsTyped' BY <1>1, <2>2 DEF ChainsTyped, ChainInv, TypeOK
  <2>4. TypeOK' BY <1>2, <1>4, <2>3, Types, PTL
  <2>5. LateChainsInv' BY <1>1 DEF ChainInv, LateChainsInv
  <2> QED BY <1>4, <2>2, <2>4, <2>5 DEF ChainInv
<1>7. CASE ServeLate(s) /\ s \in UnitSets
  BY <1>5, <1>7, ServeUnitsKeeps DEF ServeLate
<1>8. CASE Lost(s) BY <1>5, <1>8 DEF Lost, serverVars
<1>9. s \in Sets BY DEF ChainInv, TypeOK
<1> QED BY <1>6, <1>7, <1>8, <1>9 DEF Sets

\* What is stored is known to the history.
LEMMA StoredKnown ==
  ASSUME ChainInv
  PROVE  \A c \in {proxyChains[i] : i \in DOMAIN proxyChains} :
           c \in Chains /\ c.destination \in Rules /\ c \in mayChain[c.destination]
<1>1. \A i \in DOMAIN proxyChains : proxyChains[i] \in Chains BY StoredIs DEF ChainInv, TypeOK
<1> QED BY <1>1, ChainOf DEF ChainInv, ChainsInv

LEMMA QueryChain ==
  ASSUME ChainInv, IInv', NEW call, NEW of, NEW value, Returns(call, of, value),
         panicked' \in BOOLEAN,
         \/ call = "units" /\ value \subseteq UnitLists
         \/ call = "chains" /\ value \subseteq {proxyChains[i] : i \in DOMAIN proxyChains}
         \/ call = "proxies" /\ value \subseteq LastProxiesOf(proxyChains)
  PROVE  ChainInv'
<1>1. /\ ret' = [call |-> call, of |-> of, value |-> value]
      /\ UNCHANGED <<proxyChains, closing, late, mayChain>>
  BY DEF Returns, serverVars, historyVars
<1>2. proxyChains \in Seq(Chains) BY DEF ChainInv, TypeOK
<1>3. UnitsTyped' BY DEF IInv
<1>4. CASE call = "units" /\ value \subseteq UnitLists
  <2>1. RetTyped' /\ ChainsAreLastSet' BY <1>1, <1>4 DEF RetTyped, ChainsAreLastSet
  <2> QED BY <1>1, <1>3, <2>1, ChainsKept
<1>5. CASE call = "chains" /\ value \subseteq {proxyChains[i] : i \in DOMAIN proxyChains}
  <2>1. \A c \in value : c \in Chains /\ c \in mayChain[c.destination]
    BY <1>5, StoredKnown
  <2>2. RetTyped' /\ ChainsAreLastSet' BY <1>1, <1>5, <2>1 DEF RetTyped, ChainsAreLastSet
  <2> QED BY <1>1, <1>3, <2>2, ChainsKept
<1>6. CASE call = "proxies" /\ value \subseteq LastProxiesOf(proxyChains)
  <2>1. value \subseteq Proxies BY <1>2, <1>6, FoundIs
  <2>2. \A p \in value : \E r \in Rules : \E c \in mayChain[r] :
          c.proxies # <<>> /\ Last(c.proxies) = p
    <3> SUFFICES ASSUME NEW p \in value
                 PROVE  \E r \in Rules : \E c \in mayChain[r] :
                          c.proxies # <<>> /\ Last(c.proxies) = p
      OBVIOUS
    <3>1. PICK i \in DOMAIN proxyChains :
            proxyChains[i].proxies # <<>> /\ Last(proxyChains[i].proxies) = p
      BY <1>2, <1>6, FoundIs
    <3>2. /\ proxyChains[i].destination \in Rules
          /\ proxyChains[i] \in mayChain[proxyChains[i].destination]
      BY StoredKnown
    <3> QED BY <3>1, <3>2
  <2>3. RetTyped' /\ ChainsAreLastSet' BY <1>1, <1>6, <2>1, <2>2 DEF RetTyped, ChainsAreLastSet
  <2> QED BY <1>1, <1>3, <2>3, ChainsKept
<1> QED BY <1>4, <1>5, <1>6

LEMMA AccessKeeps == ASSUME ChainsAccess PROVE panicked' \in BOOLEAN
BY DEF ChainsAccess

LEMMA ClientChain == ASSUME IInv, ChainInv, IInv', Client PROVE ChainInv'
<1>1. ASSUME NEW chain \in Chains, Set(chain) PROVE ChainInv'
  <2>1. [chain |-> chain] \in Sets BY DEF Sets, ChainSets
  <2> QED BY <1>1, <2>1, AnsweredChain, TimedOutChain DEF Set
<1>2. ASSUME NEW r \in Rules, NEW list \in UnitLists, SetUnitsOf(r, list) PROVE ChainInv'
  <2>1. [rule |-> r, units |-> list] \in Sets BY DEF Sets, UnitSets
  <2> QED BY <1>2, <2>1, AnsweredChain, TimedOutChain DEF SetUnitsOf
<1>3. proxyChains \in Seq(Chains) /\ panicked \in BOOLEAN BY DEF ChainInv, TypeOK
<1>4. ASSUME NEW r \in Rules, Units(r) PROVE ChainInv'
  <2>1. PICK list \in onUnits(r) : Returns("units", r, {list}) /\ UNCHANGED panicked
    BY <1>4 DEF Units
  <2>2. \A e \in proxyUnits : e.units \in UnitLists BY UnitSetOf DEF IInv, UnitsTyped
  <2>3. list \in UnitLists BY <2>1, <2>2, RegistryAssumption DEF onUnits
  <2> QED BY <1>3, <2>1, <2>3, QueryChain
<1>5. ASSUME NEW r \in Rules, ProxyChainByRule(r) PROVE ChainInv'
  <2>1. Returns("chains", r, {c \in onProxyChainByRule(r) : c.destination # NoRule})
        /\ panicked' \in BOOLEAN
    BY <1>5, AccessKeeps DEF ProxyChainByRule
  <2>2. {c \in onProxyChainByRule(r) : c.destination # NoRule}
          \subseteq {proxyChains[i] : i \in DOMAIN proxyChains}
    BY <1>3, FoundIs DEF onProxyChainByRule, EmptyChain
  <2> QED BY <2>1, <2>2, QueryChain
<1>6. ASSUME NEW p \in Proxies, ProxyChainsByLastId(p) PROVE ChainInv'
  <2>1. Returns("chains", p, EndingWith(proxyChains, p)) /\ panicked' \in BOOLEAN
    BY <1>6, AccessKeeps DEF ProxyChainsByLastId, onProxyChainsByLastId
  <2> QED BY <1>3, <2>1, FoundIs, QueryChain
<1>7. CASE LastProxies
  <2>1. Returns("proxies", NoRule, LastProxiesOf(proxyChains)) /\ panicked' \in BOOLEAN
    BY <1>7, AccessKeeps DEF LastProxies, onLastProxies
  <2> QED BY <2>1, QueryChain
<1>8. CASE ProxyChains
  <2>1. Returns("chains", NoRule, {proxyChains[i] : i \in DOMAIN proxyChains})
        /\ panicked' \in BOOLEAN
    BY <1>8, AccessKeeps DEF ProxyChains, onProxyChains, Range
  <2> QED BY <2>1, QueryChain
<1> QED BY <1>1, <1>2, <1>4, <1>5, <1>6, <1>7, <1>8 DEF Client

LEMMA ResetChainsStep == ASSUME ChainInv, UnitsTyped', ResetChains PROVE ChainInv'
<1>1. /\ proxyChains' = <<>> /\ closing' = "units" /\ UNCHANGED <<panicked, late>>
      /\ ret'.call = "none" /\ ret'.value = {}
      /\ mayChain' = [r \in Rules |-> LateChains(late, r)]
  BY DEF ResetChains, NoCall
<1>2. \A r \in Rules : LateChains(late, r) \subseteq Chains BY ChainSetOf DEF LateChains
<1>3. proxyChains' \in Seq(Chains) /\ Len(proxyChains') = 0 /\ DOMAIN proxyChains' = {}
  BY <1>1, EmptySeq
<1>4. ChainsTyped' BY <1>1, <1>2, <1>3 DEF ChainsTyped, ChainInv, TypeOK
<1>5. RetTyped' /\ ChainsAreLastSet' BY <1>1 DEF RetTyped, ChainsAreLastSet
<1>6. TypeOK' BY <1>4, <1>5, Types, PTL
<1>7. OneChain' /\ ChainsInv' BY <1>3 DEF OneChain, ChainsInv
<1>8. LateChainsInv'
  <2> SUFFICES ASSUME NEW s \in late \cap ChainSets
               PROVE  s.chain \in mayChain'[s.chain.destination]
    BY <1>1 DEF LateChainsInv
  <2>1. s.chain.destination \in Rules BY ChainSetOf
  <2>2. s.chain \in LateChains(late, s.chain.destination) BY DEF LateChains
  <2> QED BY <1>1, <2>1, <2>2
<1> QED BY <1>5, <1>6, <1>7, <1>8 DEF ChainInv

LEMMA OnCloseChain == ASSUME ChainInv, IInv', OnClose PROVE ChainInv'
<1>1. UnitsTyped' BY DEF IInv
<1>2. CASE ResetBegin \/ ResetUnits \/ SetClose
  <2>1. /\ UNCHANGED <<proxyChains, panicked, late, mayChain>>
        /\ closing' \in {"chains", "close", "closed"}
        /\ \/ ret' = ret
           \/ ret'.call = "none" /\ ret'.value = {}
    BY <1>2 DEF ResetBegin, ResetUnits, SetClose, serverVars, historyVars, NoCall
  <2>2. RetTyped' /\ ChainsAreLastSet'
    <3>1. RetTyped BY Types DEF ChainInv
    <3>2. CASE ret' = ret BY <2>1, <3>1, <3>2 DEF ChainInv, RetTyped, ChainsAreLastSet
    <3>3. CASE ret'.call = "none" /\ ret'.value = {}
      BY <3>3 DEF RetTyped, ChainsAreLastSet
    <3> QED BY <2>1, <3>2, <3>3
  <2>3. ChainsTyped' BY <2>1 DEF ChainsTyped, ChainInv, TypeOK
  <2>4. TypeOK' BY <1>1, <2>2, <2>3, Types, PTL
  <2> QED BY <2>1, <2>2, <2>4 DEF ChainInv, OneChain, ChainsInv, LateChainsInv
<1> QED BY <1>1, <1>2, ResetChainsStep DEF OnClose

LEMMA ChainStep == IInv /\ IInv' /\ ChainInv /\ [Next]_vars => ChainInv'
<1> SUFFICES ASSUME IInv, IInv', ChainInv, [Next]_vars PROVE ChainInv'
  OBVIOUS
<1>1. CASE Next BY <1>1, ClientChain, LateChain, OnCloseChain DEF Next
<1>2. CASE UNCHANGED vars
  <2>1. UNCHANGED <<proxyChains, closing, panicked, late, ret, mayChain>>
    BY <1>2 DEF vars, serverVars, historyVars
  <2>2. RetTyped' /\ ChainsAreLastSet' /\ panicked' \in BOOLEAN
    BY <2>1 DEF ChainInv, TypeOK, RetTyped, ChainsAreLastSet
  <2> QED BY <2>1, <2>2, ChainsKept DEF IInv
<1> QED BY <1>1, <1>2

\* ChainInv holds in every reachable state: in particular the handler never keeps
\* two chains, as every set overwrites the first (proxy_handler.go:111-118).
THEOREM ChainInvariant == Spec => []ChainInv
BY Invariant, InitChainInv, ChainStep, PTL DEF Spec

\* The types of ProxyRegistry: what is stored, on its way and answered are lists,
\* chains and proxies that were set (proxy_handler.go:33-40, proxy_client.go).
THEOREM TypeCorrect == Spec => []TypeOK
<1>1. ChainInv => TypeOK BY DEF ChainInv
<1> QED BY <1>1, ChainInvariant, PTL

\* No query returns a chain, nor the last proxy of one, that was replaced for good
\* by another of its rule (proxy_handler.go:111-118, 140, 204-213, 271, 362).
THEOREM ChainsAnswerLastSet == Spec => []ChainsAreLastSet
<1>1. ChainInv => ChainsAreLastSet BY DEF ChainInv
<1> QED BY <1>1, ChainInvariant, PTL
==============================================================================

----------------------------- MODULE ProxyRegistry -----------------------------
(***************************************************************************)
(* The chains and units of the proxy handler, as a service sees them       *)
(* through proxy_client.Client (proxy_client/proxy_client.go): two sets    *)
(* and five queries, served by the routes of proxy_handler.ProxyHandler.   *)
(*                                                                         *)
(* A request is sent again after a timeout.  Hence a set may take effect   *)
(* after its call has returned: the call timed out, or an earlier attempt  *)
(* was overtaken by the one that was answered.                             *)
(*                                                                         *)
(* The routes are served one at a time; onClose, in the manager thread,    *)
(* writes both fields without a lock.                                      *)
(***************************************************************************)
EXTENDS ProxyChains, FiniteSets

CONSTANTS
  UnitLists, \* lists of units
  NoRule,    \* the destination of no chain
  MaxLate    \* bounds the sets that are on their way

ASSUME RegistryAssumption ==
  /\ <<>> \in UnitLists
  /\ NoRule \notin Rules
  /\ MaxLate \in Nat

VARIABLES
  proxyChains,  \* sequence of Chains
  proxyUnits,   \* set of [rule, units], the entries of the map
  closing,      \* where onClose is: "open", "chains" and "units" while it writes
                \* the field, "close" when both are written, "closed"
  panicked,     \* did the program panic on a torn read of proxyChains?
  late,         \* sets that were sent and may still be served
  ret,          \* the last call of the client since the fields were last reset
  mayUnits,     \* history: [Rules -> SUBSET UnitLists], what Units may answer
  mayChain      \* history: [Rules -> SUBSET Chains], what ProxyChainByRule may

serverVars  == <<proxyChains, proxyUnits>>
historyVars == <<mayUnits, mayChain>>
vars == <<serverVars, closing, panicked, late, ret, historyVars>>

ChainSets == [chain : Chains]
UnitSets  == [rule : Rules, units : UnitLists]
Sets      == ChainSets \cup UnitSets

\* The client has called nothing.
NoCall == [call |-> "none", of |-> NoRule, value |-> {}]

TypeOK ==
  /\ proxyChains \in Seq(Chains)
  /\ proxyUnits \subseteq UnitSets
  /\ closing \in {"open", "chains", "units", "close", "closed"} /\ panicked \in BOOLEAN
  /\ late \subseteq Sets
  /\ \/ ret.call \in {"none", "set", "timeout"} /\ ret.value = {}
     \/ ret.call = "units" /\ ret.value \subseteq UnitLists
     \/ ret.call = "chains" /\ ret.value \subseteq Chains
     \/ ret.call = "proxies" /\ ret.value \subseteq Proxies
  /\ mayUnits \in [Rules -> SUBSET UnitLists] /\ mayChain \in [Rules -> SUBSET Chains]

Init ==
  /\ proxyChains = <<>> /\ proxyUnits = {}
  /\ closing = "open" /\ panicked = FALSE
  /\ late = {} /\ ret = NoCall
  /\ mayUnits = [r \in Rules |-> {<<>>}] /\ mayChain = [r \in Rules |-> {}]

-----------------------------------------------------------------------------
(***************************************************************************)
(* The routes.                                                             *)
(***************************************************************************)
Ready == closing # "closed"

\* The slice header of proxyChains is read while the manager thread writes it:
\* the new array with the old length holds no chain.
ChainsAccess ==
  panicked' \in {FALSE} \cup (IF closing = "chains" /\ proxyChains # <<>> THEN {TRUE} ELSE {})

\* The query finds nothing.
EmptyChain == [destination |-> NoRule, proxies |-> <<>>]

onSetProxyChain(chain) ==
  /\ ChainsAccess
  /\ proxyChains' = SetChain(proxyChains, chain)
  /\ UNCHANGED proxyUnits

onSetUnits(r, list) ==
  /\ proxyUnits' = SetUnits(proxyUnits, r, list)
  /\ UNCHANGED <<proxyChains, panicked>>

onProxyChainByRule(r) ==
  IF OfRule(proxyChains, r) = {} THEN {EmptyChain} ELSE OfRule(proxyChains, r)

\* (A faulty variant of onUnits: the reply has no list when there is no entry.)
onUnitsNil(r) ==
  IF \E e \in proxyUnits : e.rule = r
  THEN {e.units : e \in {f \in proxyUnits : f.rule = r}}
  ELSE {NoRule}

\* The lists that may be found: the map is searched in random order.
onUnits(r) ==
  IF \E e \in proxyUnits : e.rule = r
  THEN {e.units : e \in {f \in proxyUnits : f.rule = r}}
  ELSE {<<>>}

onProxyChainsByLastId(p) == EndingWith(proxyChains, p)
onLastProxies == LastProxiesOf(proxyChains)
onProxyChains == Range(proxyChains)

-----------------------------------------------------------------------------
(***************************************************************************)
(* The client: sets.                                                       *)
(***************************************************************************)
\* The route that serves set s.
Serve(s) ==
  \/ s \in ChainSets /\ onSetProxyChain(s.chain)
  \/ s \in UnitSets /\ onSetUnits(s.rule, s.units)

LateLists(sets, r)  == {s.units : s \in {t \in sets \cap UnitSets : t.rule = r}}
LateChains(sets, r) == {s.chain : s \in {t \in sets \cap ChainSets : t.chain.destination = r}}

\* After an answered set nothing but it, and what is on its way, may be found.
Known(s) ==
  IF s \in UnitSets
  THEN /\ mayUnits' = [mayUnits EXCEPT ![s.rule] = {s.units} \cup LateLists(late', s.rule)]
       /\ UNCHANGED mayChain
  ELSE /\ mayChain' = [mayChain EXCEPT ![s.chain.destination] =
                         {s.chain} \cup LateChains(late', s.chain.destination)]
       /\ UNCHANGED mayUnits

\* After a timeout the set may be found as well.
Unknown(s) ==
  IF s \in UnitSets
  THEN mayUnits' = [mayUnits EXCEPT ![s.rule] = @ \cup {s.units}] /\ UNCHANGED mayChain
  ELSE /\ mayChain' = [mayChain EXCEPT ![s.chain.destination] = @ \cup {s.chain}]
       /\ UNCHANGED mayUnits

\* A set is answered; attempts of it before the answered one may be on their way.
Answered(s) ==
  /\ Ready
  /\ Serve(s)
  /\ late' \in {late, late \cup {s}} /\ Cardinality(late') <= MaxLate
  /\ Known(s)
  /\ ret' = [call |-> "set", of |-> NoRule, value |-> {}]
  /\ UNCHANGED closing

TimedOut(s) ==
  /\ Ready
  /\ late' = late \cup {s} /\ Cardinality(late') <= MaxLate
  /\ Unknown(s)
  /\ ret' = [call |-> "timeout", of |-> NoRule, value |-> {}]
  /\ UNCHANGED <<serverVars, closing, panicked>>

Set(chain) == Answered([chain |-> chain]) \/ TimedOut([chain |-> chain])

SetUnitsOf(r, list) ==
  Answered([rule |-> r, units |-> list]) \/ TimedOut([rule |-> r, units |-> list])

\* A late set is served; another attempt of it may follow.
ServeLate(s) ==
  /\ Ready
  /\ s \in late
  /\ Serve(s)
  /\ late' \in {late, late \ {s}}
  /\ UNCHANGED <<closing, ret, historyVars>>

\* It is never served.
Lost(s) ==
  /\ s \in late
  /\ late' = late \ {s}
  /\ UNCHANGED <<serverVars, closing, panicked, ret, historyVars>>

-----------------------------------------------------------------------------
(***************************************************************************)
(* The client: queries.  A query that times out tells nothing.             *)
(***************************************************************************)
Returns(call, of, value) ==
  /\ Ready
  /\ ret' = [call |-> call, of |-> of, value |-> value]
  /\ UNCHANGED <<serverVars, closing, late, historyVars>>

Units(r) == UNCHANGED panicked /\ \E list \in onUnits(r) : Returns("units", r, {list})

\* The client takes a chain with an empty destination for none.
ProxyChainByRule(r) ==
  /\ ChainsAccess
  /\ Returns("chains", r, {c \in onProxyChainByRule(r) : c.destination # NoRule})

ProxyChainsByLastId(p) == ChainsAccess /\ Returns("chains", p, onProxyChainsByLastId(p))
LastProxies == ChainsAccess /\ Returns("proxies", NoRule, onLastProxies)
ProxyChains == ChainsAccess /\ Returns("chains", NoRule, onProxyChains)

-----------------------------------------------------------------------------
(***************************************************************************)
(* onClose, after it has closed the proxies.  It writes one field after    *)
(* the other; the routes are served until the handler is told to close.    *)
(* A reset is like a set of nothing for every rule, which no client sent:  *)
(* what may be found after it was set after it, or was on its way.         *)
(***************************************************************************)
ResetBegin ==
  /\ closing = "open"
  /\ closing' = "chains"
  /\ UNCHANGED <<serverVars, panicked, late, ret, historyVars>>

ResetChains ==
  /\ closing = "chains"
  /\ proxyChains' = <<>>
  /\ closing' = "units"
  /\ ret' = NoCall /\ mayChain' = [r \in Rules |-> LateChains(late, r)]
  /\ UNCHANGED <<proxyUnits, panicked, late, mayUnits>>

ResetUnits ==
  /\ closing = "units"
  /\ proxyUnits' = {}
  /\ closing' = "close"
  /\ ret' = NoCall /\ mayUnits' = [r \in Rules |-> {<<>>} \cup LateLists(late, r)]
  /\ UNCHANGED <<proxyChains, panicked, late, mayChain>>

SetClose ==
  /\ closing = "close"
  /\ closing' = "closed"
  /\ UNCHANGED <<serverVars, panicked, late, ret, historyVars>>

OnClose == ResetBegin \/ ResetChains \/ ResetUnits \/ SetClose

Client ==
  \/ \E chain \in Chains : Set(chain)
  \/ \E r \in Rules : Units(r) \/ ProxyChainByRule(r) \/ \E list \in UnitLists : SetUnitsOf(r, list)
  \/ \E p \in Proxies : ProxyChainsByLastId(p)
  \/ LastProxies \/ ProxyChains

Next ==
  /\ ~panicked
  /\ Client \/ (\E s \in late : ServeLate(s) \/ Lost(s)) \/ OnClose

Spec == Init /\ [][Next]_vars

-----------------------------------------------------------------------------
(***************************************************************************)
(* Properties.                                                             *)
(***************************************************************************)
\* Units answers the list that was set last for the rule, or one whose set timed
\* out or was sent several times, and no list that was replaced for good: the map
\* keeps rules by pointer, and any entry of an equal rule may be found.  It answers
\* the empty list only for a rule that was set to it, or not set at all since the
\* handler started or onClose emptied the map, which it does while the handler still
\* serves (proxy_handler.go:72-80, 248-261, 384-386, proxy_client.go:98-115, 151-181).
UnitsAreLastSet == ret.call = "units" => ret.value \subseteq mayUnits[ret.of]

\* No query returns a chain that was replaced for good by another of its rule, or
\* that onClose threw away, nor a proxy of such a chain (proxy_handler.go:111-118,
\* 140, 204-213, 271, 362, 383).
ChainsAreLastSet ==
  /\ ret.call = "chains" => \A c \in ret.value : c \in mayChain[c.destination]
  /\ ret.call = "proxies" =>
       \A p \in ret.value : \E r \in Rules : \E c \in mayChain[r] :
         c.proxies # <<>> /\ Last(c.proxies) = p

-----------------------------------------------------------------------------
(***************************************************************************)
(* What the documentation of the repository says of this code, and the     *)
(* code does not do: the subject of a run that refutes it.                 *)
(***************************************************************************)
\* "Set sets or over-write the proxy chain" (proxy_client.go:16) and "set of the
\* same proxy rule must over-write the previous proxy chains"
\* (proxy_handler_test.go:233): a chain of another rule stays.
OtherChainsKept ==
  [][\A chain \in Chains : Set(chain) =>
       \A i \in DOMAIN proxyChains :
         proxyChains[i].destination # chain.destination =>
           \E j \in DOMAIN proxyChains' : proxyChains'[j] = proxyChains[i]]_vars
=============================================================================

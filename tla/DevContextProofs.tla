--------------------------- MODULE DevContextProofs ---------------------------
(***************************************************************************)
(* Proofs about DevContext, for any number of refused closes.              *)
(***************************************************************************)
EXTENDS DevContext, TLAPS

\* What the position of Close tells: the parts before it are forgotten.
OrderInv ==
  /\ pc \in {"dep", "engine"} => "proxy" \notin known
  /\ pc = "engine" => "dep" \notin known

\* A thread that is up is known or was left behind, and one whose close was not
\* answered is not up any more.
ThreadInv ==
  /\ \A p \in Parts : thread[p] = "up" => p \in known \cup half
  /\ \A p \in unanswered : thread[p] # "up"

\* HandlersHaveEngine of the parts that the context knows: Close turns to the
\* engine only when it has forgotten the handlers.
KnownHaveEngine ==
  known \cap {"dep", "proxy"} # {} =>
    "engine" \in known /\ (thread["engine"] = "up" \/ "engine" \in unanswered)

IInv == TypeOK /\ KnownIsUp /\ KnownHaveEngine /\ OrderInv /\ ThreadInv

-----------------------------------------------------------------------------
LEMMA InitIInv == Init => IInv
<1> SUFFICES ASSUME Init PROVE IInv
  OBVIOUS
<1>1. NoPath \in Paths
  BY DEF NoPath, Paths, Keys, Origin
<1>2. dirs \in [src : Paths, bin : Paths]
  BY <1>1 DEF Init
<1>3. config \in [Keys -> Origin]
  BY DEF Init, Origin
<1>4. TypeOK
  <2>1. thread \in [Parts -> {"down", "up", "closing"}]
    BY DEF Init
  <2>2. faults \in 0..MaxFaults
    BY FaultsAssumption DEF Init
  <2> QED BY <1>2, <1>3, <2>1, <2>2 DEF Init, TypeOK
<1>5. KnownIsUp /\ KnownHaveEngine /\ OrderInv /\ ThreadInv
  BY DEF Init, KnownIsUp, IsRunning, KnownHaveEngine, OrderInv, ThreadInv, Parts
<1> QED BY <1>4, <1>5 DEF IInv

\* The configuration and the paths keep their types.
LEMMA PathsTyped ==
  ASSUME TypeOK
  PROVE  /\ \A ks \in SUBSET Keys : Defaulted(ks) \in [Keys -> Origin]
         /\ config' \in [Keys -> Origin] => \A k \in Keys : Path(k)' \in Paths
BY DEF TypeOK, Defaulted, Path, Paths, Keys, Origin

\* Calls that start no thread.
LEMMA QuietStep ==
  ASSUME IInv, UNCHANGED <<thread, known, pc, half, unanswered>>, TypeOK'
  PROVE  IInv'
BY DEF IInv, KnownIsUp, IsRunning, KnownHaveEngine, OrderInv, ThreadInv

LEMMA StartStep == ASSUME IInv, Start PROVE IInv'
<1> USE DEF IInv
<1>1. CASE SetService
  <2>1. TypeOK' BY <1>1 DEF SetService, TypeOK, pathVars, historyVars
  <2> QED BY <1>1, <2>1, QuietStep DEF SetService, historyVars
<1>2. ASSUME Fails, Call PROVE IInv'
  <2>1. TypeOK' BY <1>2 DEF Fails, Returns, TypeOK, fieldVars, pathVars, historyVars
  <2> QED BY <1>2, <2>1, QuietStep DEF Fails, Returns, fieldVars, historyVars
<1>3. CASE StartConfig
  <2>1. CASE Fails BY <1>2, <1>3, <2>1 DEF StartConfig
  <2>2. CASE ~Fails
    <3>1. /\ Call /\ "engine" \notin known
          /\ thread' = [thread EXCEPT !["engine"] = "up"]
          /\ known' = known \cup {"engine"}
          /\ config' \in [Keys -> Origin] /\ ret' = "ok"
          /\ UNCHANGED <<service, dirs, half, unanswered, pc, quitting, faults>>
      BY <1>3, <2>2 DEF StartConfig, Started, Returns, historyVars, Origin
    <3>2. TypeOK' BY <3>1 DEF TypeOK, Parts
    <3>3. KnownIsUp' /\ KnownHaveEngine' /\ OrderInv' /\ ThreadInv'
      BY <3>1 DEF TypeOK, KnownIsUp, IsRunning, KnownHaveEngine, OrderInv, ThreadInv, Parts, Call
    <3> QED BY <3>2, <3>3
  <2> QED BY <2>1, <2>2
<1>4. ASSUME NEW p \in {"dep", "proxy"}, Call, p \notin known, "engine" \in known,
             Started(p), Tracked(p) \/ LeftBehind(p), UNCHANGED service,
             config' \in [Keys -> Origin], dirs' \in [src : Paths, bin : Paths]
      PROVE  IInv'
  <2>1. /\ thread' = [thread EXCEPT ![p] = "up"]
        /\ \/ known' = known \cup {p} /\ half' = half
           \/ known' = known /\ half' = half \cup {p}
        /\ ret' \in {"ok", "error"}
        /\ UNCHANGED <<unanswered, pc, quitting, faults>>
    BY <1>4 DEF Started, Tracked, LeftBehind, Returns, historyVars
  <2>2. TypeOK' BY <1>4, <2>1 DEF TypeOK, Parts
  <2>3. KnownIsUp' BY <1>4, <2>1 DEF TypeOK, KnownIsUp, IsRunning, Parts
  <2>4. KnownHaveEngine'
    BY <1>4, <2>1 DEF TypeOK, KnownIsUp, IsRunning, KnownHaveEngine, Parts
  <2>5. OrderInv' BY <1>4, <2>1 DEF OrderInv, Call
  <2>6. ThreadInv' BY <1>4, <2>1 DEF TypeOK, ThreadInv, Parts
  <2> QED BY <2>2, <2>3, <2>4, <2>5, <2>6
<1>5. CASE StartDepManager
  <2>1. CASE Fails BY <1>2, <1>5, <2>1 DEF StartDepManager
  <2>2. CASE ~Fails
    <3>1. config' \in [Keys -> Origin]
      BY <1>5, <2>2, PathsTyped DEF StartDepManager, SetDevDefaults
    <3>2. dirs' \in [src : Paths, bin : Paths]
      BY <1>5, <2>2, <3>1, PathsTyped DEF StartDepManager, SetPaths, Keys
    <3> QED BY <1>4, <1>5, <2>2, <3>1, <3>2 DEF StartDepManager
  <2> QED BY <2>1, <2>2
<1>6. CASE StartDepManagerFails
  <2>1. TypeOK'
    BY <1>6, PathsTyped
    DEF StartDepManagerFails, Returns, TypeOK, fieldVars, historyVars, Keys
  <2> QED BY <1>6, <2>1, QuietStep
          DEF StartDepManagerFails, Returns, fieldVars, historyVars
<1>7. CASE StartProxyHandler
  <2>1. CASE Fails BY <1>2, <1>7, <2>1 DEF StartProxyHandler
  <2>2. CASE ~Fails BY <1>4, <1>7, <2>2 DEF StartProxyHandler, pathVars, TypeOK
  <2> QED BY <2>1, <2>2
<1> QED BY <1>1, <1>3, <1>5, <1>6, <1>7 DEF Start

LEMMA CloseLemma == ASSUME IInv, CloseStep PROVE IInv'
<1> USE DEF IInv
<1>1. CASE Close
  <2>1. TypeOK' BY <1>1 DEF Close, TypeOK, fieldVars, pathVars, historyVars, Parts
  <2>2. KnownIsUp' /\ KnownHaveEngine' /\ OrderInv' /\ ThreadInv'
    BY <1>1 DEF Close, KnownIsUp, IsRunning, KnownHaveEngine, OrderInv, ThreadInv, fieldVars,
                historyVars
  <2> QED BY <2>1, <2>2
<1>2. ASSUME NEW p \in Parts, ClosePart(p) PROVE IInv'
  <2>1. pc = p BY <1>2 DEF ClosePart, CloseUnknown, CloseKnown, CloseRefused, CloseUnanswered, CloseGone
  <2>2. /\ After("proxy") = "dep" /\ After("dep") = "engine" /\ After("engine") = "idle"
        /\ After(p) \in {"idle"} \cup Parts
    BY DEF After, Parts
  <2>3. CASE CloseUnknown(p)
    <3>1. TypeOK'
      BY <2>2, <2>3 DEF CloseUnknown, Proceed, TypeOK, fieldVars, pathVars, historyVars
    <3>2. OrderInv'
      BY <2>1, <2>2, <2>3 DEF CloseUnknown, Proceed, OrderInv, fieldVars, Parts
    <3>3. KnownIsUp' /\ KnownHaveEngine' /\ ThreadInv'
      BY <2>3 DEF CloseUnknown, KnownIsUp, IsRunning, KnownHaveEngine, ThreadInv, fieldVars,
                  historyVars
    <3> QED BY <3>1, <3>2, <3>3
  <2>4. CASE CloseKnown(p)
    <3>1. /\ thread[p] = "up" /\ thread' = [thread EXCEPT ![p] = "closing"]
          /\ known' = known \ {p}
          /\ pc' = After(p) /\ ret' \in {"closed", ret}
          /\ UNCHANGED <<service, config, dirs, quitting, faults, half, unanswered>>
      BY <2>4 DEF CloseKnown, Cleared, Proceed, pathVars, historyVars
    <3>2. TypeOK' BY <2>2, <3>1 DEF TypeOK, ThreadInv, Parts
    <3>3. OrderInv' BY <2>1, <2>2, <3>1 DEF OrderInv, Parts
    <3>4. KnownIsUp' /\ ThreadInv' BY <3>1 DEF TypeOK, KnownIsUp, IsRunning, ThreadInv, Parts
    <3>5. KnownHaveEngine'
      BY <2>1, <3>1 DEF TypeOK, KnownHaveEngine, OrderInv, Parts
    <3> QED BY <3>2, <3>3, <3>4, <3>5
  <2>5. CASE CloseRefused(p)
    <3>1. TypeOK'
      BY <2>5, FaultsAssumption
      DEF CloseRefused, TypeOK, fieldVars, pathVars, historyVars
    <3>2. KnownIsUp' /\ KnownHaveEngine' /\ OrderInv' /\ ThreadInv'
      BY <2>5 DEF CloseRefused, KnownIsUp, IsRunning, KnownHaveEngine, OrderInv, ThreadInv,
                  fieldVars, historyVars
    <3> QED BY <3>1, <3>2
  <2>6. CASE CloseUnanswered(p)
    <3>1. /\ p \in known /\ thread' = [thread EXCEPT ![p] = "closing"]
          /\ unanswered' = unanswered \cup {p}
          /\ pc' = "idle" /\ ret' = "error"
          /\ UNCHANGED <<known, service, config, dirs, quitting, faults, half>>
      BY <2>6 DEF CloseUnanswered, fieldVars, pathVars
    <3>2. TypeOK' BY <3>1 DEF TypeOK, Parts
    <3>3. KnownIsUp' /\ ThreadInv' BY <3>1 DEF TypeOK, KnownIsUp, IsRunning, ThreadInv, Parts
    <3>4. OrderInv' /\ KnownHaveEngine'
      BY <3>1 DEF TypeOK, KnownHaveEngine, OrderInv, Parts
    <3> QED BY <3>2, <3>3, <3>4
  <2>7. CASE CloseGone(p)
    <3>1. TypeOK' BY <2>7 DEF CloseGone, TypeOK, fieldVars, pathVars, historyVars
    <3>2. KnownIsUp' /\ KnownHaveEngine' /\ OrderInv' /\ ThreadInv'
      BY <2>7 DEF CloseGone, KnownIsUp, IsRunning, KnownHaveEngine, OrderInv, ThreadInv,
                  fieldVars, historyVars
    <3> QED BY <3>1, <3>2
  <2> QED BY <1>2, <2>3, <2>4, <2>5, <2>6, <2>7 DEF ClosePart
<1> QED BY <1>1, <1>2 DEF CloseStep

LEMMA EndStep == ASSUME IInv, NEW p \in Parts, ThreadEnds(p) PROVE IInv'
<1>1. /\ thread[p] = "closing" /\ thread' = [thread EXCEPT ![p] = "down"]
      /\ UNCHANGED <<known, service, config, dirs, pc, ret, quitting, faults, half, unanswered>>
  BY DEF ThreadEnds, fieldVars, pathVars, historyVars
<1>2. TypeOK' BY <1>1 DEF IInv, TypeOK, Parts
<1>3. KnownIsUp' /\ ThreadInv' BY <1>1 DEF IInv, TypeOK, KnownIsUp, IsRunning, ThreadInv, Parts
<1>4. KnownHaveEngine' /\ OrderInv'
  BY <1>1 DEF IInv, TypeOK, KnownIsUp, IsRunning, KnownHaveEngine, OrderInv, Parts
<1> QED BY <1>2, <1>3, <1>4 DEF IInv

LEMMA Inductive == IInv /\ [Next]_vars => IInv'
<1> SUFFICES ASSUME IInv, [Next]_vars PROVE IInv'
  OBVIOUS
<1>1. CASE Next BY <1>1, StartStep, CloseLemma, EndStep DEF Next
<1>2. CASE UNCHANGED vars
  BY <1>2 DEF vars, fieldVars, pathVars, historyVars, IInv, TypeOK, KnownIsUp, IsRunning,
              KnownHaveEngine, OrderInv, ThreadInv
<1> QED BY <1>1, <1>2

\* IInv holds in every reachable state.
THEOREM Invariant == Spec => []IInv
BY InitIInv, Inductive, PTL DEF Spec

-----------------------------------------------------------------------------
\* Fields and threads keep their types.
THEOREM TypeCorrect == Spec => []TypeOK
<1>1. IInv => TypeOK BY DEF IInv
<1> QED BY <1>1, Invariant, PTL

\* What the queries of the context answer is true (dev.go:45-59, 107-133).
THEOREM QueriesAreTrue == Spec => []KnownIsUp
<1>1. IInv => KnownIsUp BY DEF IInv
<1> QED BY <1>1, Invariant, PTL

\* No handler serves without the engine it reads from, unless a failed start left
\* it behind or the close of the engine was not answered (dev.go:107-133, 167, 221).
THEOREM EngineOutlives == Spec => []HandlersHaveEngine
<1>1. IInv => HandlersHaveEngine
  BY DEF IInv, ThreadInv, KnownHaveEngine, HandlersHaveEngine, Parts
<1> QED BY <1>1, Invariant, PTL

\* The dependency handler is closed after the proxy handler (dev.go:108-122).
THEOREM ProxyFirst == Spec => DepOutlivesProxy
<1>1. ASSUME IInv, Next, thread["dep"] = "up", thread'["dep"] # "up"
      PROVE  thread["proxy"] # "up" \/ "proxy" \in half
  <2>1. pc = "dep"
    BY <1>1
    DEF IInv, TypeOK, Parts, Next, Start, SetService, StartConfig, Fails, Started,
        StartDepManager, StartDepManagerFails, StartProxyHandler, CloseStep, Close,
        ClosePart, CloseUnknown, CloseKnown, Cleared, CloseRefused, CloseUnanswered,
        CloseGone, ThreadEnds
  <2> QED BY <1>1, <2>1 DEF IInv, OrderInv, ThreadInv, Parts
<1>2. IInv /\ [Next]_vars =>
        [thread["dep"] = "up" /\ thread'["dep"] # "up" =>
           thread["proxy"] # "up" \/ "proxy" \in half]_vars
  BY <1>1
<1> QED BY <1>2, Invariant, PTL DEF Spec, DepOutlivesProxy

\* A successful Close loses no thread and forgets every part, whatever failed
\* before (dev.go:107-133).
THEOREM NothingIsLost == Spec => OnlyHalfStartedRemain
<1>1. ASSUME IInv, Next, ret' = "closed", ret # "closed"
      PROVE  known' = {}
  <2>1. PICK p \in Parts : pc = p /\ After(p) = "idle" /\ (CloseUnknown(p) \/ CloseKnown(p))
    BY <1>1
    DEF Next, Start, SetService, StartConfig, Fails, Returns, Tracked, LeftBehind,
        StartDepManager, StartDepManagerFails, StartProxyHandler, CloseStep, Close,
        ClosePart, CloseUnknown, CloseKnown, Proceed, CloseRefused, CloseUnanswered,
        CloseGone, ThreadEnds
  <2>2. pc = "engine" BY <2>1 DEF After, Parts
  <2>3. known \subseteq {"engine"} BY <1>1, <2>2 DEF IInv, TypeOK, OrderInv, Parts
  <2> QED BY <2>1, <2>2, <2>3 DEF CloseUnknown, CloseKnown, Cleared, fieldVars
<1>2. IInv /\ IInv' /\ [Next]_vars =>
        [ret' = "closed" /\ ret # "closed" =>
           /\ \A p \in Parts : thread'[p] = "up" => p \in half
           /\ \A p \in Parts : ~IsRunning(p)' /\ p \notin unanswered']_vars
  <2> SUFFICES ASSUME IInv, IInv', Next, ret' = "closed", ret # "closed",
                      NEW p \in Parts
               PROVE  /\ thread'[p] = "up" => p \in half
                      /\ ~IsRunning(p)' /\ p \notin unanswered'
    OBVIOUS
  <2>1. known' = {} BY <1>1
  <2>2. half' = half
    BY <1>1
    DEF Next, Start, SetService, StartConfig, Fails, Returns, Tracked, LeftBehind,
        StartDepManager, StartDepManagerFails, StartProxyHandler, CloseStep, Close,
        ClosePart, CloseUnknown, CloseKnown, CloseRefused, CloseUnanswered, CloseGone,
        ThreadEnds, historyVars
  <2>3. thread'[p] = "up" => p \in half BY <2>1, <2>2 DEF IInv, ThreadInv
  <2>4. ~IsRunning(p)' /\ p \notin unanswered' BY <2>1 DEF IInv, TypeOK, IsRunning
  <2> QED BY <2>3, <2>4
<1> QED BY <1>2, Invariant, PTL DEF Spec, OnlyHalfStartedRemain
=============================================================================

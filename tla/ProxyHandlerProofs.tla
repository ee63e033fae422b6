-------------------------- MODULE ProxyHandlerProofs --------------------------
(***************************************************************************)
(* Proofs about ProxyHandler: what the answer of StartLastProxies and the  *)
(* end of onClose say of the proxies, for any proxies, chains and faults.  *)
(***************************************************************************)
EXTENDS ProxyHandler, ProxyChainsProofs

\* A proxy that the loop has left behind was up, or cannot be managed.
LoopInv ==
  /\ pc = "idle" => current = {}
  /\ pc = "config" => todo = proxies
  /\ pc \in {"next", "install", "run"} =>
       \A p \in proxies \ todo : p \in wasUp \/ seen[p] = "no manager"

\* A proxy that onClose has left behind does not serve on, unless it is slow.
CloseInv ==
  /\ closing # "idle" => (managers \ left) \cap lasting \subseteq Slow
  /\ closing = "close" => left = {}

IInv == TypeOK /\ LoopInv /\ CloseInv

-----------------------------------------------------------------------------
\* What the steps below have to show of the types.
FieldsTyped == proxyChains \in Seq(Chains) /\ wired \in BOOLEAN /\ panicked \in BOOLEAN

RouteTyped ==
  /\ pc \in {"idle", "config", "next", "install", "run"}
  /\ proxies \subseteq Proxies /\ todo \subseteq proxies /\ current \subseteq todo
  /\ seen \in [Proxies -> Registration]
  /\ started \in BOOLEAN

CloserTyped ==
  /\ closing \in {"idle", "proxies", "close"}
  /\ left \subseteq managers /\ managers \subseteq Proxies
  /\ faults \in 0..MaxFaults
  /\ closed \in BOOLEAN

WorldTyped ==
  /\ sources \in [Proxies -> Registration]
  /\ installed \subseteq Proxies /\ queued \subseteq Proxies
  /\ child \in [Proxies -> ChildStates]

HistoryTyped == wasUp \subseteq Proxies /\ lasting \subseteq Proxies

LEMMA Types ==
  TypeOK <=> FieldsTyped /\ RouteTyped /\ CloserTyped /\ WorldTyped /\ HistoryTyped
BY DEF TypeOK, FieldsTyped, RouteTyped, CloserTyped, WorldTyped, HistoryTyped

LEMMA InitIInv == Init => IInv
<1> SUFFICES ASSUME Init PROVE IInv
  OBVIOUS
<1>1. FieldsTyped BY EmptySeq DEF Init, FieldsTyped
<1>2. RouteTyped BY DEF Init, RouteTyped, Nothing, Registration
<1>3. CloserTyped
  <2>1. 0 \in 0..MaxFaults BY FaultsAssumption
  <2> QED BY <2>1 DEF Init, CloserTyped
<1>4. WorldTyped BY DEF Init, WorldTyped, ChildStates
<1>5. HistoryTyped BY DEF Init, HistoryTyped
<1>6. TypeOK BY <1>1, <1>2, <1>3, <1>4, <1>5, Types
<1> QED BY <1>6 DEF Init, IInv, LoopInv, CloseInv

\* What was up stays in the history of the call, and only what serves on is lasting.
LEMMA HistoryStep ==
  ASSUME TypeOK, History
  PROVE  /\ HistoryTyped'
         /\ pc # "idle" => wasUp \cup Up' \subseteq wasUp'
         /\ closing # "idle" => lasting' \subseteq lasting \cap Serving'
<1>1. Up' \subseteq Proxies /\ Serving' \subseteq Proxies BY DEF Up, Serving
<1> QED BY <1>1 DEF History, HistoryTyped, TypeOK

\* A thread that does not step keeps its part.
LEMMA RouteKept ==
  ASSUME IInv, UNCHANGED routeVars, wasUp \subseteq wasUp' \/ pc = "idle"
  PROVE  RouteTyped' /\ LoopInv'
BY DEF IInv, TypeOK, RouteTyped, LoopInv, routeVars

LEMMA CloserKept ==
  ASSUME IInv, UNCHANGED closerVars, lasting' \subseteq lasting \/ closing = "idle"
  PROVE  CloserTyped' /\ CloseInv'
BY DEF IInv, TypeOK, CloserTyped, CloseInv, closerVars

-----------------------------------------------------------------------------
(***************************************************************************)
(* The route thread.                                                       *)
(***************************************************************************)
LEMMA AnswerStep ==
  ASSUME NEW outcome, Answer(outcome) PROVE RouteTyped' /\ LoopInv'
<1>1. Nothing \in [Proxies -> Registration] BY DEF Nothing, Registration
<1>2. (outcome = "ok") \in BOOLEAN OBVIOUS
<1> QED BY <1>1, <1>2 DEF Answer, RouteTyped, LoopInv

LEMMA ProceedStep ==
  ASSUME IInv, NEW p \in todo, Proceed(p), pc \in {"next", "install", "run"},
         wasUp \subseteq wasUp', p \in wasUp' \/ seen[p] = "no manager"
  PROVE  RouteTyped' /\ LoopInv'
<1>1. RouteTyped' BY DEF IInv, TypeOK, Proceed, RouteTyped
<1>2. LoopInv' BY DEF IInv, Proceed, LoopInv
<1> QED BY <1>1, <1>2

LEMMA StepStep ==
  ASSUME IInv, NEW p \in todo, NEW next \in {"install", "run"}, Step(next, p),
         pc \in {"next", "install", "run"}, wasUp \subseteq wasUp'
  PROVE  RouteTyped' /\ LoopInv'
<1>1. RouteTyped' BY DEF IInv, TypeOK, Step, RouteTyped
<1>2. LoopInv' BY DEF IInv, Step, LoopInv
<1> QED BY <1>1, <1>2

LEMMA LaunchedTyped ==
  ASSUME WorldTyped, NEW p, NEW outcome \in {"booting", "stuck"}, Launched(p, outcome)
  PROVE  child' \in [Proxies -> ChildStates]
BY DEF WorldTyped, Launched, ChildStates

\* A chain is set, or a call of StartLastProxies begins.
LEMMA RequestStep ==
  ASSUME IInv, History, onStartLastProxies \/ \E chain \in Chains : onSetProxyChain(chain)
  PROVE  FieldsTyped' /\ RouteTyped' /\ LoopInv' /\ WorldTyped'
<1>1. pc = "idle" /\ current = {} BY DEF onStartLastProxies, onSetProxyChain, Ready, IInv, LoopInv
<1>2. FieldsTyped /\ RouteTyped /\ WorldTyped BY Types DEF IInv
<1>3. panicked' \in BOOLEAN BY DEF onStartLastProxies, onSetProxyChain, ChainsAccess
<1>4. CASE \E chain \in Chains : onSetProxyChain(chain)
  <2>1. PICK chain \in Chains : onSetProxyChain(chain) BY <1>4
  <2>2. proxyChains' \in Seq(Chains) BY <1>2, <2>1, SetChainIs DEF onSetProxyChain, FieldsTyped
  <2>3. RouteTyped' /\ LoopInv' BY <1>1, <2>1, RouteKept DEF onSetProxyChain
  <2> QED BY <1>2, <1>3, <2>1, <2>2, <2>3 DEF onSetProxyChain, FieldsTyped, WorldTyped, worldVars
<1>5. CASE onStartLastProxies
  <2>1. FieldsTyped' /\ WorldTyped'
    BY <1>2, <1>3, <1>5 DEF onStartLastProxies, FieldsTyped, WorldTyped, worldVars
  <2>2. CASE \E outcome \in {"ok", "failed"} : Answer(outcome)
    BY <2>1, <2>2, AnswerStep
  <2>3. CASE /\ proxies' = LastProxies /\ todo' = LastProxies /\ pc' = "config"
             /\ started' = FALSE /\ UNCHANGED <<current, seen>>
    <3>1. LastProxies \subseteq Proxies BY <1>2, FoundIs DEF LastProxies, FieldsTyped
    <3> QED BY <1>1, <1>2, <2>1, <2>3, <3>1 DEF RouteTyped, LoopInv
  <2> QED BY <1>5, <2>2, <2>3 DEF onStartLastProxies
<1> QED BY <1>4, <1>5

\* The steps of a call that has begun.
LEMMA CallStep ==
  ASSUME IInv, History,
         \/ ReadConfig \/ CallFails \/ AllStarted
         \/ \E p \in Proxies : \/ SkipUnmanaged(p) \/ AskRunning(p) \/ AskInstalled(p)
                               \/ Install(p) \/ Run(p) \/ RunFails(p)
  PROVE  FieldsTyped' /\ RouteTyped' /\ LoopInv' /\ WorldTyped'
<1>1. FieldsTyped /\ RouteTyped /\ WorldTyped BY Types DEF IInv
<1>2. pc # "idle" => wasUp \cup Up' \subseteq wasUp' BY HistoryStep DEF IInv
<1>3. FieldsTyped'
  <2>1. UNCHANGED fieldVars
    BY DEF ReadConfig, CallFails, AllStarted, SkipUnmanaged, AskRunning, AskInstalled,
           Install, Run, RunFails
  <2> QED BY <1>1, <2>1 DEF FieldsTyped, fieldVars
<1>4. CASE ReadConfig
  BY <1>1, <1>3, <1>4 DEF ReadConfig, RouteTyped, WorldTyped, worldVars, IInv, LoopInv
<1>5. CASE CallFails \/ AllStarted
  BY <1>1, <1>3, <1>5, AnswerStep DEF CallFails, AllStarted, WorldTyped, worldVars
<1>6. ASSUME NEW p \in Proxies, SkipUnmanaged(p) PROVE RouteTyped' /\ LoopInv' /\ WorldTyped'
  <2>1. RouteTyped' /\ LoopInv' BY <1>2, <1>6, ProceedStep DEF SkipUnmanaged
  <2> QED BY <1>1, <1>6, <2>1 DEF SkipUnmanaged, WorldTyped, worldVars
<1>7. ASSUME NEW p \in Proxies, AskRunning(p) PROVE RouteTyped' /\ LoopInv' /\ WorldTyped'
  <2>1. WorldTyped' /\ child' = child BY <1>1, <1>7 DEF AskRunning, WorldTyped, worldVars
  <2>2. pc = "next" /\ p \in todo BY <1>7 DEF AskRunning
  <2>3. CASE p \in Serving /\ Proceed(p)
    <3>1. p \in Up' BY <2>1, <2>3 DEF Up, Serving
    <3> QED BY <1>2, <2>1, <2>2, <2>3, <3>1, ProceedStep
  <2>4. CASE Step("run", p) BY <1>2, <2>1, <2>2, <2>4, StepStep
  <2> QED BY <1>7, <2>3, <2>4 DEF AskRunning
<1>8. ASSUME NEW p \in Proxies, AskInstalled(p) PROVE RouteTyped' /\ LoopInv' /\ WorldTyped'
  <2>1. RouteTyped' /\ LoopInv' BY <1>2, <1>8, StepStep DEF AskInstalled
  <2> QED BY <1>1, <1>8, <2>1 DEF AskInstalled, WorldTyped, worldVars
<1>9. ASSUME NEW p \in Proxies, Install(p) PROVE RouteTyped' /\ LoopInv' /\ WorldTyped'
  <2>1. p \in todo /\ pc = "install" BY <1>1, <1>9 DEF Install, RouteTyped
  <2>2. Step("run", p) \/ Answer("failed") BY <1>9 DEF Install
  <2>3. RouteTyped' /\ LoopInv' BY <1>2, <2>1, <2>2, StepStep, AnswerStep
  <2> QED BY <1>1, <1>9, <2>3 DEF Install, WorldTyped
<1>10. ASSUME NEW p \in Proxies, Run(p) PROVE RouteTyped' /\ LoopInv' /\ WorldTyped'
  <2>1. p \in todo /\ pc = "run" /\ Launched(p, "booting") BY <1>1, <1>10 DEF Run, RouteTyped
  <2>2. WorldTyped' BY <1>1, <1>10, <2>1, LaunchedTyped DEF Run, WorldTyped
  <2>3. p \in Up' BY <1>1, <2>1 DEF Launched, Up, WorldTyped
  <2>4. CASE Proceed(p) BY <1>2, <2>1, <2>2, <2>3, <2>4, ProceedStep
  <2>5. CASE Answer("failed") BY <2>2, <2>5, AnswerStep
  <2> QED BY <1>10, <2>4, <2>5 DEF Run
<1>11. ASSUME NEW p \in Proxies, RunFails(p) PROVE RouteTyped' /\ LoopInv' /\ WorldTyped'
  <2>1. child' \in [Proxies -> ChildStates]
    BY <1>1, <1>11, LaunchedTyped DEF RunFails, WorldTyped
  <2>2. WorldTyped' BY <1>1, <1>11, <2>1 DEF RunFails, WorldTyped
  <2> QED BY <1>11, <2>2, AnswerStep DEF RunFails
<1> QED BY <1>3, <1>4, <1>5, <1>6, <1>7, <1>8, <1>9, <1>10, <1>11

LEMMA RouteStep == ASSUME IInv, History, Route PROVE IInv'
<1>1. FieldsTyped' /\ RouteTyped' /\ LoopInv' /\ WorldTyped'
  BY RequestStep, CallStep DEF Route
<1>2. UNCHANGED closerVars
  BY DEF Route, onSetProxyChain, onStartLastProxies, ReadConfig, CallFails, AllStarted,
         SkipUnmanaged, AskRunning, AskInstalled, Install, Run, RunFails
<1>3. HistoryTyped' /\ (closing # "idle" => lasting' \subseteq lasting)
  BY HistoryStep DEF IInv
<1>4. CloserTyped' /\ CloseInv' BY <1>2, <1>3, CloserKept
<1>5. TypeOK' BY <1>1, <1>3, <1>4, Types, PTL
<1> QED BY <1>1, <1>4, <1>5 DEF IInv

-----------------------------------------------------------------------------
(***************************************************************************)
(* The manager thread.                                                     *)
(***************************************************************************)
LEMMA ExitTyped ==
  ASSUME WorldTyped, NEW p \in Proxies
  PROVE  /\ [child EXCEPT ![p] = "exited"] \in [Proxies -> ChildStates]
         /\ [child EXCEPT ![p] = IF @ = "serving" THEN "exited" ELSE @] \in [Proxies -> ChildStates]
BY DEF WorldTyped, ChildStates

LEMMA CloserStep == ASSUME IInv, History, Closer PROVE IInv'
<1>1. FieldsTyped /\ CloserTyped /\ WorldTyped BY Types DEF IInv
<1>2. HistoryTyped' /\ (pc # "idle" => wasUp \subseteq wasUp')
      /\ (closing # "idle" => lasting' \subseteq lasting \cap Serving')
  BY HistoryStep DEF IInv
<1>3. UNCHANGED routeVars
  BY DEF Closer, onClose, CloseDep, CloseDepFails, ResetChains, SetClose
<1>4. RouteTyped' /\ LoopInv' BY <1>2, <1>3, RouteKept
<1>5. SUFFICES FieldsTyped' /\ CloserTyped' /\ WorldTyped' /\ CloseInv'
  <2>1. ASSUME FieldsTyped', CloserTyped', WorldTyped' PROVE TypeOK'
    BY <1>2, <1>4, <2>1, Types, PTL
  <2> QED BY <1>4, <2>1 DEF IInv
<1>6. CASE onClose
  BY <1>1, <1>6
  DEF onClose, FieldsTyped, CloserTyped, WorldTyped, CloseInv, fieldVars, worldVars
<1>7. ASSUME NEW p \in Proxies, CloseDep(p)
      PROVE  FieldsTyped' /\ CloserTyped' /\ WorldTyped' /\ CloseInv'
  <2>1. child' \in [Proxies -> ChildStates] BY <1>1, <1>7, ExitTyped DEF CloseDep, WorldTyped
  <2>2. FieldsTyped' /\ CloserTyped' /\ WorldTyped'
    BY <1>1, <1>7, <2>1 DEF CloseDep, FieldsTyped, CloserTyped, WorldTyped, fieldVars
  <2>3. p \notin Serving' \/ p \in Slow
    <3>1. CASE child' = [child EXCEPT ![p] = "exited"]
      BY <1>1, <3>1 DEF WorldTyped, Serving
    <3>2. CASE p \notin Serving \ Slow /\ UNCHANGED child BY <3>2 DEF Serving
    <3> QED BY <1>7, <3>1, <3>2 DEF CloseDep
  <2>4. CloseInv' BY <1>2, <1>7, <2>3 DEF CloseDep, IInv, CloseInv
  <2> QED BY <2>2, <2>4
<1>8. ASSUME NEW p \in Proxies, CloseDepFails(p)
      PROVE  FieldsTyped' /\ CloserTyped' /\ WorldTyped' /\ CloseInv'
  <2>1. child' \in [Proxies -> ChildStates]
    <3>1. child \in [Proxies -> ChildStates] BY <1>1 DEF WorldTyped
    <3> QED BY <1>1, <1>8, <3>1, ExitTyped DEF CloseDepFails
  <2>2. faults' \in 0..MaxFaults
    BY <1>1, <1>8, FaultsAssumption DEF CloseDepFails, CloserTyped
  <2> QED BY <1>1, <1>8, <2>1, <2>2
          DEF CloseDepFails, FieldsTyped, CloserTyped, WorldTyped, CloseInv, fieldVars
<1>9. CASE ResetChains
  <2>1. <<>> \in Seq(Chains) BY EmptySeq
  <2>2. FieldsTyped' /\ CloserTyped' /\ WorldTyped'
    BY <1>1, <1>9, <2>1 DEF ResetChains, FieldsTyped, CloserTyped, WorldTyped, worldVars
  <2>3. CloseInv' BY <1>2, <1>9 DEF ResetChains, Resetting, IInv, CloseInv
  <2> QED BY <2>2, <2>3
<1>10. CASE SetClose
  <2>1. left = {} BY <1>10 DEF SetClose, IInv, CloseInv
  <2> QED BY <1>1, <1>10, <2>1
          DEF SetClose, FieldsTyped, CloserTyped, WorldTyped, CloseInv, fieldVars, worldVars
<1> QED BY <1>6, <1>7, <1>8, <1>9, <1>10 DEF Closer

-----------------------------------------------------------------------------
(***************************************************************************)
(* The proxies.                                                            *)
(***************************************************************************)
LEMMA WorldStep == ASSUME IInv, History, World PROVE IInv'
<1>1. FieldsTyped /\ CloserTyped /\ WorldTyped BY Types DEF IInv
<1>2. HistoryTyped' /\ (pc # "idle" => wasUp \subseteq wasUp')
      /\ (closing # "idle" => lasting' \subseteq lasting \cap Serving')
  BY HistoryStep DEF IInv
<1>3. PICK p \in Proxies : \/ Boot(p) \/ Register(p) \/ Exit(p) \/ Reap(p)
                           \/ LateRun(p) \/ BinariesChange(p)
  BY DEF World
<1>4. UNCHANGED <<fieldVars, routeVars, closerVars>>
  BY <1>3 DEF Boot, Register, Exit, Reap, LateRun, BinariesChange
<1>5. RouteTyped' /\ LoopInv' /\ CloserTyped' /\ CloseInv'
  BY <1>2, <1>4, RouteKept, CloserKept
<1>6. FieldsTyped' BY <1>1, <1>4 DEF FieldsTyped, fieldVars
<1>7. WorldTyped'
  <2>1. CASE Boot(p) \/ Exit(p) \/ Reap(p)
    BY <1>1, <2>1 DEF Boot, Exit, Reap, WorldTyped, ChildStates
  <2>2. CASE Register(p) BY <1>1, <2>2 DEF Register, WorldTyped, Registration
  <2>3. CASE LateRun(p)
    <3>1. child' \in [Proxies -> ChildStates]
      BY <1>1, <2>3, LaunchedTyped DEF LateRun, WorldTyped
    <3> QED BY <1>1, <2>3, <3>1 DEF LateRun, WorldTyped
  <2>4. CASE BinariesChange(p) BY <1>1, <2>4 DEF BinariesChange, WorldTyped
  <2> QED BY <1>3, <2>1, <2>2, <2>3, <2>4
<1>8. TypeOK' BY <1>2, <1>5, <1>6, <1>7, Types, PTL
<1> QED BY <1>5, <1>8 DEF IInv

LEMMA Inductive == IInv /\ [Next]_vars => IInv'
<1> SUFFICES ASSUME IInv, [Next]_vars PROVE IInv'
  OBVIOUS
<1>1. CASE Next BY <1>1, RouteStep, CloserStep, WorldStep DEF Next
<1>2. CASE UNCHANGED vars
  BY <1>2 DEF vars, fieldVars, routeVars, closerVars, worldVars, IInv, TypeOK, LoopInv, CloseInv
<1> QED BY <1>1, <1>2

\* IInv holds in every reachable state.
THEOREM Invariant == Spec => []IInv
BY InitIInv, Inductive, PTL DEF Spec

-----------------------------------------------------------------------------
\* The types of ProxyHandler: the loop and onClose only ever work on proxies of
\* their own copy (proxy_handler.go:312, 442).
THEOREM TypeCorrect == Spec => []TypeOK
<1>1. IInv => TypeOK BY DEF IInv
<1> QED BY <1>1, Invariant, PTL

\* An ok of StartLastProxies means that every last proxy, except those whose
\* registration has no manager, was up at some time of the call
\* (proxy_handler.go:312-356).
THEOREM AllWereStarted == Spec => StartedWereUp
<1> DEFINE Ok == pc = "next" /\ started' /\ pc' = "idle" =>
                   \A p \in proxies : p \in wasUp \/ seen[p] = "no manager"
<1>1. IInv /\ [Next]_vars => [Ok]_vars
  <2> SUFFICES ASSUME IInv, Next, pc = "next", started', pc' = "idle"
               PROVE  \A p \in proxies : p \in wasUp \/ seen[p] = "no manager"
    OBVIOUS
  <2>1. Route
    BY DEF Next, Closer, World, onClose, CloseDep, CloseDepFails, ResetChains, SetClose, Boot,
           Register, Exit, Reap, LateRun, BinariesChange, routeVars
  <2>2. AllStarted
    BY <2>1 DEF Route, onSetProxyChain, onStartLastProxies, Ready, ReadConfig, CallFails, Answer,
                SkipUnmanaged, AskRunning, AskInstalled, Install, Run, RunFails, Proceed, Step
  <2> QED BY <2>2 DEF AllStarted, IInv, LoopInv
<1>2. StartedWereUp <=> [][Ok]_vars BY DEF StartedWereUp
<1> QED BY <1>1, <1>2, Invariant, PTL DEF Spec

\* When onClose is through, no proxy with a manager in its configuration has been
\* serving all the time since it began, unless it is slow to answer
\* (proxy_handler.go:378-387, 442-459).
THEOREM AllWereClosed == Spec => ClosedWereStopped
<1> DEFINE Through == ~closed /\ closed' => managers \cap lasting \subseteq Slow
<1>1. IInv /\ [Next]_vars => [Through]_vars
  <2> SUFFICES ASSUME IInv, Next, ~closed, closed'
               PROVE  managers \cap lasting \subseteq Slow
    OBVIOUS
  <2>1. Closer
    BY DEF Next, Route, World, onSetProxyChain, onStartLastProxies, ReadConfig, CallFails,
           AllStarted, SkipUnmanaged, AskRunning, AskInstalled, Install, Run, RunFails, Boot,
           Register, Exit, Reap, LateRun, BinariesChange, closerVars
  <2>2. SetClose
    BY <2>1 DEF Closer, onClose, CloseDep, CloseDepFails, ResetChains
  <2> QED BY <2>2 DEF SetClose, IInv, CloseInv
<1>2. ClosedWereStopped <=> [][Through]_vars BY DEF ClosedWereStopped
<1> QED BY <1>1, <1>2, Invariant, PTL DEF Spec

-----------------------------------------------------------------------------
(***************************************************************************)
(* The proxies start and end as module Lifecycle says.                     *)
(***************************************************************************)
LEMMA StatusMoves ==
  ASSUME child \in [Proxies -> ChildStates], NEW p \in Proxies, NEW state,
         child' = [child EXCEPT ![p] = state],
         NEW from, NEW to, StatusOf(p) = from, StatusOf(p)' = to
  PROVE  Children!Becomes(p, from, to)
<1>1. \A q \in Proxies \ {p} : child'[q] = child[q] OBVIOUS
<1>2. \A q \in Proxies \ {p} : StatusOf(q)' = StatusOf(q) BY <1>1 DEF StatusOf
<1> QED BY <1>2 DEF Children!Becomes

LEMMA StatusKept ==
  ASSUME UNCHANGED child PROVE UNCHANGED [p \in Proxies |-> StatusOf(p)]
BY DEF StatusOf

LEMMA LaunchLives ==
  ASSUME TypeOK, NEW p \in Proxies, NEW outcome \in {"booting", "stuck"}, Launched(p, outcome)
  PROVE  Children!Next
<1>1. /\ child \in [Proxies -> ChildStates]
      /\ child[p] = "none" /\ child' = [child EXCEPT ![p] = outcome]
  BY DEF TypeOK, Launched
<1>2. StatusOf(p) = "free" BY <1>1 DEF StatusOf
<1>3. CASE outcome = "booting"
  <2>1. StatusOf(p)' = "alive" BY <1>1, <1>3 DEF StatusOf
  <2> QED BY <1>1, <1>2, <2>1, StatusMoves DEF Children!Next, Children!Start
<1>4. CASE outcome = "stuck"
  <2>1. StatusOf(p)' = "lost" BY <1>1, <1>4 DEF StatusOf
  <2> QED BY <1>1, <1>2, <2>1, StatusMoves DEF Children!Next, Children!StartFails
<1> QED BY <1>3, <1>4

\* A proxy ends when it is closed or by itself.
LEMMA EndLives ==
  ASSUME TypeOK, NEW p \in Up, child' = [child EXCEPT ![p] = "exited"]
  PROVE  Children!Next
<1>1. p \in Proxies /\ child[p] \in {"booting", "serving"} /\ child \in [Proxies -> ChildStates]
  BY DEF Up, TypeOK
<1>2. StatusOf(p) = "alive" BY <1>1 DEF StatusOf
<1>3. StatusOf(p)' = "ended" BY <1>1 DEF StatusOf
<1> QED BY <1>1, <1>2, <1>3, StatusMoves DEF Children!Next, Children!End

LEMMA RouteLives ==
  ASSUME TypeOK, Route PROVE Children!Next \/ UNCHANGED child
<1>1. CASE \E p \in Proxies : Run(p) \/ RunFails(p)
  BY <1>1, LaunchLives DEF Run, RunFails
<1>2. CASE \/ \E chain \in Chains : onSetProxyChain(chain)
           \/ onStartLastProxies \/ ReadConfig \/ CallFails \/ AllStarted
           \/ \E p \in Proxies : SkipUnmanaged(p) \/ AskRunning(p) \/ AskInstalled(p) \/ Install(p)
  BY <1>2 DEF onSetProxyChain, onStartLastProxies, ReadConfig, CallFails, AllStarted,
     SkipUnmanaged, AskRunning, AskInstalled, Install, worldVars
<1> QED BY <1>1, <1>2 DEF Route

LEMMA CloserLives ==
  ASSUME TypeOK, Closer PROVE Children!Next \/ UNCHANGED child
<1>1. CASE \E p \in Proxies : CloseDep(p) \/ CloseDepFails(p)
  <2>1. PICK p \in Proxies : CloseDep(p) \/ CloseDepFails(p) BY <1>1
  <2>2. \/ UNCHANGED child
        \/ child[p] = "serving" /\ child' = [child EXCEPT ![p] = "exited"]
    BY <2>1 DEF CloseDep, CloseDepFails, Serving, TypeOK
  <2> QED BY <2>2, EndLives DEF Up
<1>2. CASE onClose \/ ResetChains \/ SetClose
  BY <1>2 DEF onClose, ResetChains, SetClose, worldVars
<1> QED BY <1>1, <1>2 DEF Closer

LEMMA WorldLives ==
  ASSUME TypeOK, World
  PROVE  Children!Next \/ UNCHANGED [p \in Proxies |-> StatusOf(p)]
<1>1. PICK p \in Proxies : \/ Boot(p) \/ Register(p) \/ Exit(p) \/ Reap(p)
                           \/ LateRun(p) \/ BinariesChange(p)
  BY DEF World
<1>2. child \in [Proxies -> ChildStates] BY DEF TypeOK
<1>3. CASE Boot(p)
  <2>1. child[p] = "booting" /\ child' = [child EXCEPT ![p] = "serving"] BY <1>3 DEF Boot
  <2>2. \A q \in Proxies \ {p} : child'[q] = child[q] BY <1>2, <2>1
  <2>3. child'[p] = "serving" BY <1>2, <2>1
  <2>4. \A q \in Proxies : StatusOf(q)' = StatusOf(q) BY <2>1, <2>2, <2>3 DEF StatusOf
  <2> QED BY <2>4
<1>4. CASE Exit(p) BY <1>4, EndLives DEF Exit, Up
<1>5. CASE Reap(p)
  <2>1. child[p] = "exited" /\ child' = [child EXCEPT ![p] = "none"] BY <1>5 DEF Reap
  <2>2. StatusOf(p) = "ended" BY <2>1 DEF StatusOf
  <2>3. StatusOf(p)' = "free" BY <1>2, <2>1 DEF StatusOf
  <2> QED BY <1>2, <2>1, <2>2, <2>3, StatusMoves DEF Children!Next, Children!Note
<1>6. CASE LateRun(p)
  BY <1>6, LaunchLives, StatusKept DEF LateRun
<1>7. CASE Register(p) \/ BinariesChange(p)
  BY <1>7, StatusKept DEF Register, BinariesChange
<1> QED BY <1>1, <1>3, <1>4, <1>5, <1>6, <1>7

\* However the two threads, late Runs and the ends of the proxies interleave, a proxy
\* is started only when there is none and the end of the last was handled
\* (dep_manager/dev.go:364-428): the handlers' manager implements Lifecycle.
THEOREM ProxiesLive == Spec => ImplementsLifecycle
<1>1. Init => Children!Init
  BY DEF Init, StatusOf, Children!Init
<1>2. TypeOK /\ [Next]_vars => [Children!Next]_[p \in Proxies |-> StatusOf(p)]
  BY RouteLives, CloserLives, WorldLives, StatusKept DEF Next, vars, worldVars
<1> QED BY <1>1, <1>2, TypeCorrect, PTL DEF Spec, ImplementsLifecycle, Children!Spec
==============================================================================

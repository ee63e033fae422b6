------------------------------ MODULE ProxyHandler ----------------------------
(***************************************************************************)
(* proxy_handler.ProxyHandler (proxy_handler/proxy_handler.go): starting   *)
(* the last proxies of the chains and closing the proxies.  (The units and *)
(* the queries are in module ProxyRegistry.)                               *)
(*                                                                         *)
(* Two threads of the handler share its fields without a lock.             *)
(*   - The route thread serves SetProxyChain and StartLastProxies, one     *)
(*     request at a time.                                                  *)
(*   - The manager thread serves onClose.                                  *)
(* Both call the dependency manager, whose promises are those of module    *)
(* Lifecycle and DepHandler: here each call of it is one step, which may   *)
(* also report an error (a timeout of the socket) after it took effect, or *)
(* take effect later.  Proxies are processes; those that serve register in *)
(* the service configuration.                                              *)
(***************************************************************************)
EXTENDS ProxyChains

CONSTANTS
  Slow,      \* proxies that may miss the heartbeat's timeout while they serve
  MaxFaults  \* bounds the failed attempts to close a proxy

ASSUME FaultsAssumption == Slow \subseteq Proxies /\ MaxFaults \in Nat

VARIABLES
  proxyChains,  \* sequence of Chains
  wired,        \* were an engine and a depClient given to New?
  panicked,     \* did the program panic on a torn read of proxyChains?
  pc,           \* where the route thread is in onStartLastProxies
  proxies,      \* the proxies that call starts
  todo,         \* those its loop has not reached or finished
  current,      \* the proxy it installs or runs, as a set
  seen,         \* [Proxies -> ...], the call's copy of serviceConfig.Sources
  started,      \* did the last StartLastProxies reply ok?
  closing,      \* where the manager thread is in onClose
  managers,     \* the proxies with a manager in its copy of serviceConfig
  left,         \* those it has not closed yet
  faults,       \* failed attempts to close so far
  closed,       \* was SetClose called?
  sources,      \* [Proxies -> ...], the service configuration in the engine
  installed,    \* proxies whose binary exists
  queued,       \* proxies with a Run that timed out and may still be served
  child,        \* [Proxies -> ...], the manager's entry and process of a proxy
  wasUp,        \* history: proxies up at some time of the route thread's call
  lasting       \* history: proxies serving ever since onClose began

fieldVars  == <<proxyChains, wired, panicked>>
routeVars  == <<pc, proxies, todo, current, seen, started>>
closerVars == <<closing, managers, left, faults, closed>>
worldVars  == <<sources, installed, queued, child>>
vars == <<fieldVars, routeVars, closerVars, worldVars, wasUp, lasting>>

Nothing      == [p \in Proxies |-> "none"]
Registration == {"none", "no manager", "manager"}
ChildStates  == {"none", "stuck", "booting", "serving", "exited"}

TypeOK ==
  /\ proxyChains \in Seq(Chains)
  /\ wired \in BOOLEAN /\ panicked \in BOOLEAN
  /\ pc \in {"idle", "config", "next", "install", "run"}
  /\ proxies \subseteq Proxies /\ todo \subseteq proxies /\ current \subseteq todo
  /\ seen \in [Proxies -> Registration]
  /\ started \in BOOLEAN
  /\ closing \in {"idle", "proxies", "close"}
  /\ left \subseteq managers /\ managers \subseteq Proxies
  /\ faults \in 0..MaxFaults
  /\ closed \in BOOLEAN
  /\ sources \in [Proxies -> Registration]
  /\ installed \subseteq Proxies /\ queued \subseteq Proxies
  /\ child \in [Proxies -> ChildStates]
  /\ wasUp \subseteq Proxies /\ lasting \subseteq Proxies

Init ==
  /\ proxyChains = <<>>
  /\ wired \in BOOLEAN /\ panicked = FALSE
  /\ pc = "idle" /\ proxies = {} /\ todo = {} /\ current = {} /\ started = FALSE
  /\ sources \in [Proxies -> Registration] /\ seen = Nothing
  /\ closing = "idle" /\ managers = {} /\ left = {} /\ faults = 0 /\ closed = FALSE
  /\ installed \in SUBSET Proxies /\ queued = {}
  /\ child = [p \in Proxies |-> "none"]
  /\ wasUp = {} /\ lasting = {}

-----------------------------------------------------------------------------
(***************************************************************************)
(* Helpers.                                                                *)
(***************************************************************************)
Up      == {p \in Proxies : child[p] \in {"booting", "serving"}}
Serving == {p \in Proxies : child[p] = "serving"}

LastProxies == LastProxiesOf(proxyChains)

\* The manager thread has closed the proxies and goes on to write proxyChains.
Resetting == closing = "proxies" /\ left = {}

\* The slice header of proxyChains is read while the manager thread writes it:
\* the new array with the old length holds no chain.
ChainsAccess ==
  panicked' \in {FALSE} \cup (IF Resetting /\ proxyChains # <<>> THEN {TRUE} ELSE {})

Answer(outcome) ==
  /\ pc' = "idle" /\ started' = (outcome = "ok")
  /\ proxies' = {} /\ todo' = {} /\ current' = {} /\ seen' = Nothing

\* (A faulty variant of Proceed: the proxy is not left behind.)
ProceedKeepsCurrent(p) ==
  /\ pc' = "next" /\ todo' = todo \ {p} /\ UNCHANGED current
  /\ UNCHANGED <<proxies, seen, started>>

\* The loop goes on after proxy p.
Proceed(p) ==
  /\ pc' = "next" /\ todo' = todo \ {p} /\ current' = {}
  /\ UNCHANGED <<proxies, seen, started>>

\* The loop goes on with proxy p.
Step(next, p) ==
  /\ pc' = next /\ current' = {p}
  /\ UNCHANGED <<proxies, todo, seen, started>>

-----------------------------------------------------------------------------
(***************************************************************************)
(* Faulty variants of definitions below, to show that the properties of    *)
(* this module notice them (they are not part of the specification).       *)
(***************************************************************************)
\* A registered proxy is taken for a running one.
AskRunningUnheeded(p) ==
  /\ pc = "next" /\ p \in todo
  /\ seen[p] = "manager"
  /\ Proceed(p)
  /\ UNCHANGED <<fieldVars, closerVars, worldVars>>

\* closeProxies goes on with the next proxy after a failure.
CloseDepFailsUnheeded(p) ==
  /\ closing = "proxies" /\ p \in left
  /\ faults < MaxFaults
  /\ child' \in {child, [child EXCEPT ![p] = IF @ = "serving" THEN "exited" ELSE @]}
  /\ faults' = faults + 1
  /\ left' = left \ {p}
  /\ UNCHANGED <<fieldVars, routeVars, closing, managers, closed, sources, installed, queued>>

\* CloseDep of a proxy that does not run is no success.
CloseDepIfServing(p) ==
  /\ closing = "proxies" /\ p \in left
  /\ child[p] = "serving"
  /\ child' = [child EXCEPT ![p] = "exited"]
  /\ left' = left \ {p}
  /\ UNCHANGED <<fieldVars, routeVars, closing, managers, faults, closed, sources, installed, queued>>

-----------------------------------------------------------------------------
(***************************************************************************)
(* The route thread.                                                       *)
(***************************************************************************)
\* Every request but a started one waits for the thread; none after SetClose.
Ready == pc = "idle" /\ ~closed

onSetProxyChain(chain) ==
  /\ Ready
  /\ ChainsAccess
  /\ proxyChains' = SetChain(proxyChains, chain)
  /\ UNCHANGED <<wired, routeVars, closerVars, worldVars>>

onStartLastProxies ==
  /\ Ready
  /\ ChainsAccess
  /\ \/ ~wired /\ Answer("failed")
     \/ wired /\ LastProxies = {} /\ Answer("ok")
     \/ /\ wired /\ LastProxies # {}
        /\ proxies' = LastProxies /\ todo' = LastProxies
        /\ pc' = "config" /\ started' = FALSE
        /\ UNCHANGED <<current, seen>>
  /\ UNCHANGED <<proxyChains, wired, closerVars, worldVars>>

\* engine.Service: a copy of the configuration.
ReadConfig ==
  /\ pc = "config"
  /\ seen' = sources /\ pc' = "next"
  /\ UNCHANGED <<proxies, todo, current, started, fieldVars, closerVars, worldVars>>

SkipUnmanaged(p) ==
  /\ pc = "next" /\ p \in todo
  /\ seen[p] = "no manager"
  /\ Proceed(p)
  /\ UNCHANGED <<fieldVars, closerVars, worldVars>>

AskRunning(p) ==
  /\ pc = "next" /\ p \in todo
  /\ seen[p] = "manager"
  /\ \/ p \in Serving /\ Proceed(p)
     \/ p \notin Serving \ Slow /\ Step("run", p)
  /\ UNCHANGED <<fieldVars, closerVars, worldVars>>

AskInstalled(p) ==
  /\ pc = "next" /\ p \in todo
  /\ seen[p] = "none"
  /\ Step(IF p \in installed THEN "run" ELSE "install", p)
  /\ UNCHANGED <<fieldVars, closerVars, worldVars>>

\* An Install that timed out may be over later (BinariesChange).
Install(p) ==
  /\ pc = "install" /\ p \in current
  /\ \/ installed' = installed \cup {p} /\ (Step("run", p) \/ Answer("failed"))
     \/ UNCHANGED installed /\ Answer("failed")
  /\ UNCHANGED <<fieldVars, closerVars, sources, queued, child>>

\* What Run makes of p: it enters the dependency before it starts the process,
\* and leaves it entered when the start fails.
Launched(p, outcome) ==
  /\ child[p] = "none" /\ p \in installed
  /\ child' = [child EXCEPT ![p] = outcome]

Run(p) ==
  /\ pc = "run" /\ p \in current
  /\ Launched(p, "booting")
  /\ Proceed(p) \/ Answer("failed")
  /\ UNCHANGED <<fieldVars, closerVars, sources, installed, queued>>

RunFails(p) ==
  /\ pc = "run" /\ p \in current
  /\ \/ Launched(p, "stuck") /\ UNCHANGED queued
     \/ UNCHANGED child /\ queued' \in {queued, queued \cup {p}}
  /\ Answer("failed")
  /\ UNCHANGED <<fieldVars, closerVars, sources, installed>>

\* engine.Service, Running, Installed or Install failed, or was not answered.
CallFails ==
  /\ pc \in {"config", "install"} \/ (pc = "next" /\ \E p \in todo : seen[p] # "no manager")
  /\ Answer("failed")
  /\ UNCHANGED <<fieldVars, closerVars, worldVars>>

AllStarted ==
  /\ pc = "next" /\ todo = {}
  /\ Answer("ok")
  /\ UNCHANGED <<fieldVars, closerVars, worldVars>>

-----------------------------------------------------------------------------
(***************************************************************************)
(* The manager thread.                                                     *)
(***************************************************************************)
\* Without an engine, a depClient or a configuration there is nothing to close.
onClose ==
  /\ closing = "idle" /\ ~closed
  /\ \/ wired /\ managers' = {p \in Proxies : sources[p] = "manager"}
     \/ managers' = {}
  /\ left' = managers' /\ closing' = "proxies"
  /\ UNCHANGED <<fieldVars, routeVars, faults, closed, worldVars>>

\* A proxy that serves is asked to close, and gone when CloseDep succeeds; one
\* that does not answer the heartbeat is taken for closed.
CloseDep(p) ==
  /\ closing = "proxies" /\ p \in left
  /\ \/ p \in Serving /\ child' = [child EXCEPT ![p] = "exited"]
     \/ p \notin Serving \ Slow /\ UNCHANGED child
  /\ left' = left \ {p}
  /\ UNCHANGED <<fieldVars, routeVars, closing, managers, faults, closed, sources, installed, queued>>

\* The first failure ends onClose; the proxy may have closed nevertheless.
CloseDepFails(p) ==
  /\ closing = "proxies" /\ p \in left
  /\ faults < MaxFaults
  /\ child' \in {child, [child EXCEPT ![p] = IF @ = "serving" THEN "exited" ELSE @]}
  /\ faults' = faults + 1
  /\ closing' = "idle" /\ left' = {} /\ managers' = {}
  /\ UNCHANGED <<fieldVars, routeVars, closed, sources, installed, queued>>

\* The route thread serves on until the handler is told to close.
ResetChains ==
  /\ Resetting
  /\ proxyChains' = <<>>
  /\ closing' = "close"
  /\ UNCHANGED <<wired, panicked, routeVars, managers, left, faults, closed, worldVars>>

SetClose ==
  /\ closing = "close"
  /\ closing' = "idle" /\ managers' = {} /\ closed' = TRUE
  /\ UNCHANGED <<fieldVars, routeVars, left, faults, worldVars>>

-----------------------------------------------------------------------------
(***************************************************************************)
(* The proxies: processes that come up, register themselves in the         *)
(* configuration, and end; and the manager's wait for their end.           *)
(***************************************************************************)
Boot(p) ==
  /\ child[p] = "booting"
  /\ child' = [child EXCEPT ![p] = "serving"]
  /\ UNCHANGED <<fieldVars, routeVars, closerVars, sources, installed, queued>>

Register(p) ==
  /\ child[p] = "serving" /\ sources[p] # "manager"
  /\ sources' = [sources EXCEPT ![p] = "manager"]
  /\ UNCHANGED <<fieldVars, routeVars, closerVars, installed, queued, child>>

Exit(p) ==
  /\ child[p] \in {"booting", "serving"}
  /\ child' = [child EXCEPT ![p] = "exited"]
  /\ UNCHANGED <<fieldVars, routeVars, closerVars, sources, installed, queued>>

Reap(p) ==
  /\ child[p] = "exited"
  /\ child' = [child EXCEPT ![p] = "none"]
  /\ UNCHANGED <<fieldVars, routeVars, closerVars, sources, installed, queued>>

\* The dependency handler serves a Run that timed out, or refuses it.
LateRun(p) ==
  /\ p \in queued
  /\ queued' = queued \ {p}
  /\ Launched(p, "booting") \/ Launched(p, "stuck") \/ UNCHANGED child
  /\ UNCHANGED <<fieldVars, routeVars, closerVars, sources, installed>>

\* A late Install, or the service, which installs and uninstalls as well.
BinariesChange(p) ==
  /\ installed' = IF p \in installed THEN installed \ {p} ELSE installed \cup {p}
  /\ UNCHANGED <<fieldVars, routeVars, closerVars, sources, queued, child>>

-----------------------------------------------------------------------------
Route ==
  \/ \E chain \in Chains : onSetProxyChain(chain)
  \/ onStartLastProxies
  \/ ReadConfig \/ CallFails \/ AllStarted
  \/ \E p \in Proxies : \/ SkipUnmanaged(p) \/ AskRunning(p) \/ AskInstalled(p)
                        \/ Install(p) \/ Run(p) \/ RunFails(p)

Closer ==
  \/ onClose \/ ResetChains \/ SetClose
  \/ \E p \in Proxies : CloseDep(p) \/ CloseDepFails(p)

World == \E p \in Proxies : \/ Boot(p) \/ Register(p) \/ Exit(p) \/ Reap(p)
                            \/ LateRun(p) \/ BinariesChange(p)

History ==
  /\ wasUp' = (IF pc = "idle" THEN Up' ELSE wasUp \cup Up')
  /\ lasting' = (IF closing = "idle" THEN Serving' ELSE lasting \cap Serving')

Next == ~panicked /\ (Route \/ Closer \/ World) /\ History

Spec == Init /\ [][Next]_vars

\* The manager thread goes on, and its caller tries again after a failure.
FairSpec == Spec /\ WF_vars(~panicked /\ Closer /\ History)

-----------------------------------------------------------------------------
(***************************************************************************)
(* Properties.                                                             *)
(***************************************************************************)
\* StartLastProxies replies ok only if every last proxy, except those whose
\* registration has no manager, was up at some time of the call, whatever the
\* proxies and onClose did meanwhile (proxy_handler.go:312-356).
StartedWereUp ==
  [][pc = "next" /\ started' /\ pc' = "idle" =>
       \A p \in proxies : p \in wasUp \/ seen[p] = "no manager"]_vars

\* When onClose is through, no proxy with a manager in its configuration has been
\* serving all the time since onClose began, unless it is slow to answer
\* (proxy_handler.go:378-387, 442-459).
ClosedWereStopped ==
  [][~closed /\ closed' => managers \cap lasting \subseteq Slow]_vars

\* The status of a proxy in module Lifecycle.
StatusOf(p) ==
  CASE child[p] = "none"                     -> "free"
    [] child[p] = "stuck"                    -> "lost"
    [] child[p] \in {"booting", "serving"}   -> "alive"
    [] child[p] = "exited"                   -> "ended"

Children == INSTANCE Lifecycle WITH Ids <- Proxies, status <- [p \in Proxies |-> StatusOf(p)]

\* Proxies start and end as the manager promises in module Lifecycle, however the
\* two threads, late Runs and their own exits interleave: this module's manager is
\* the one of DepProcess (dep_manager/dev.go:364-428).
ImplementsLifecycle == Children!Spec

\* A close that failed half way can be tried again until it succeeds: proxies
\* that are closed already are no failure (proxy_handler.go:455-457).
CloseSucceeds == <>(closed \/ panicked)
=============================================================================

------------------------------ MODULE DevContext ------------------------------
(***************************************************************************)
(* The development context (dev.go, config.go): a service starts with it   *)
(* the configuration engine, the dependency handler and the proxy handler, *)
(* each a thread, and closes them again.                                   *)
(*                                                                         *)
(* The context is used by one goroutine.  What is hard is failure: a start *)
(* that fails after its thread was started, a close that fails half way,   *)
(* a close that took effect and was not answered, and threads that end     *)
(* later than their close is answered and occupy their address until then. *)
(***************************************************************************)
EXTENDS Naturals

CONSTANT MaxFaults  \* bounds the closes that the threads refuse

ASSUME FaultsAssumption == MaxFaults \in Nat

VARIABLES
  thread,     \* [Parts -> ...], the threads themselves
  known,      \* the parts whose field is set: engineStarted, depHandlerManager,
              \* proxyHandlerManager
  service,    \* did SetService set an id and a url?
  config,     \* [{SrcKey, BinKey} -> ...], what the engine says of the paths
  dirs,       \* [src, bin], the paths that the dependency manager was given
  pc,         \* where Close is
  ret,        \* what the last call returned
  quitting,   \* has the service begun to close for good?
  faults,     \* closes refused so far
  half,       \* history: parts that a failed start left up and unknown
  unanswered  \* history: parts that closed without their close being answered

fieldVars   == <<known, service>>
pathVars    == <<config, dirs>>
historyVars == <<half, unanswered>>
vars == <<thread, fieldVars, pathVars, pc, ret, quitting, faults, historyVars>>

Parts  == {"engine", "dep", "proxy"}
SrcKey == "SERVICE_DEPS_SRC"
BinKey == "SERVICE_DEPS_BIN"
Keys   == {SrcKey, BinKey}
Origin == {"none", "default", "user"}
Paths  == Keys \X Origin
NoPath == <<SrcKey, "none">>

TypeOK ==
  /\ thread \in [Parts -> {"down", "up", "closing"}]
  /\ known \subseteq Parts /\ service \in BOOLEAN
  /\ config \in [Keys -> Origin]
  /\ dirs \in [src : Paths, bin : Paths]
  /\ pc \in {"idle"} \cup Parts
  /\ ret \in {"none", "ok", "error", "closed"}
  /\ quitting \in BOOLEAN
  /\ faults \in 0..MaxFaults
  /\ half \subseteq Parts /\ unanswered \subseteq known

Init ==
  /\ thread = [p \in Parts |-> "down"]
  /\ known = {} /\ service = FALSE
  /\ config = [k \in Keys |-> "none"] /\ dirs = [src |-> NoPath, bin |-> NoPath]
  /\ pc = "idle" /\ ret = "none" /\ quitting = FALSE /\ faults = 0
  /\ half = {} /\ unanswered = {}

-----------------------------------------------------------------------------
(***************************************************************************)
(* Helpers.                                                                *)
(***************************************************************************)
\* The service calls the context; a call that returns at once.
Call == pc = "idle" /\ ~quitting

Returns(outcome) == ret' = outcome /\ UNCHANGED <<pc, quitting, faults>>

Fails == Returns("error") /\ UNCHANGED <<thread, fieldVars, pathVars, historyVars>>

\* A handler can be started when nobody holds its address.
Started(p) ==
  /\ thread[p] = "down"
  /\ thread' = [thread EXCEPT ![p] = "up"]

\* The thread of p runs, and the client of its manager could not be made:
\* the context does not know of it.
LeftBehind(p) ==
  /\ half' = half \cup {p}
  /\ Returns("error") /\ UNCHANGED <<known, unanswered>>

\* The thread of p runs and the context knows it; the client that is made
\* after that may still fail.
Tracked(p) ==
  /\ known' = known \cup {p}
  /\ Returns("ok") \/ Returns("error")
  /\ UNCHANGED historyVars

\* What the context answers when it is asked whether p runs.
IsRunning(p) == p \in known

-----------------------------------------------------------------------------
(***************************************************************************)
(* Starting.                                                               *)
(***************************************************************************)
SetService ==
  /\ Call
  /\ service' = TRUE
  /\ UNCHANGED <<thread, known, pathVars, historyVars, pc, ret, quitting, faults>>

\* The engine reads what the user configured.
StartConfig ==
  /\ Call
  /\ \/ Fails
     \/ /\ "engine" \notin known
        /\ Started("engine")
        /\ known' = known \cup {"engine"}
        /\ config' \in [Keys -> {"none", "user"}]
        /\ Returns("ok")
        /\ UNCHANGED <<service, dirs, historyVars>>

\* What the engine says of path k.
Path(k) == <<k, config[k]>>

\* SetDefault for each of keys: it counts where the user configured nothing.
Defaulted(keys) ==
  [k \in Keys |-> IF k \in keys /\ config[k] = "none" THEN "default" ELSE config[k]]

SetDevDefaults == config' = Defaulted(Keys)

\* DepManager.SetPaths(srcPath, binPath).
SetPaths(srcPath, binPath) == dirs' = [src |-> srcPath, bin |-> binPath]

StartDepManager ==
  /\ Call
  /\ \/ Fails
     \/ /\ "engine" \in known /\ thread["engine"] = "up"
        /\ "dep" \notin known
        /\ SetDevDefaults
        /\ SetPaths(Path(BinKey)', Path(SrcKey)')
        /\ Started("dep")
        /\ Tracked("dep") \/ LeftBehind("dep")
        /\ UNCHANGED service

\* The defaults are set, all or one of them, before something else fails.
StartDepManagerFails ==
  /\ Call
  /\ "engine" \in known /\ thread["engine"] = "up"
  /\ "dep" \notin known
  /\ config' \in {Defaulted({SrcKey}), Defaulted(Keys)}
  /\ Returns("error")
  /\ UNCHANGED <<thread, fieldVars, dirs, historyVars>>

StartProxyHandler ==
  /\ Call
  /\ \/ Fails
     \/ /\ service
        /\ "engine" \in known
        /\ "proxy" \notin known
        /\ Started("proxy")
        /\ Tracked("proxy") \/ LeftBehind("proxy")
        /\ UNCHANGED <<service, pathVars>>

-----------------------------------------------------------------------------
(***************************************************************************)
(* Closing.                                                                *)
(***************************************************************************)
\* The service closes, once or until it succeeds.
Close ==
  /\ pc = "idle"
  /\ pc' = "proxy"
  /\ quitting' \in {quitting, TRUE}
  /\ ret' = "none"
  /\ UNCHANGED <<thread, fieldVars, pathVars, faults, historyVars>>

\* (A faulty variant of After: the engine is closed before the handlers.)
AfterEngineFirst(p) ==
  CASE p = "proxy" -> "engine" [] p = "engine" -> "dep" [] p = "dep" -> "idle"

\* What Close turns to after part p.
After(p) == CASE p = "proxy" -> "dep" [] p = "dep" -> "engine" [] p = "engine" -> "idle"

Proceed(p) ==
  /\ pc' = After(p)
  /\ ret' = IF After(p) = "idle" THEN "closed" ELSE ret

\* (A faulty variant of Cleared: the field of the part is kept.)
ClearedNot(p) ==
  /\ thread' = [thread EXCEPT ![p] = "closing"]
  /\ UNCHANGED known

\* The close of p returned without an error, and its field is cleared.
Cleared(p) ==
  /\ thread' = [thread EXCEPT ![p] = "closing"]
  /\ known' = known \ {p}

CloseUnknown(p) ==
  /\ pc = p /\ p \notin known
  /\ Proceed(p)
  /\ UNCHANGED <<thread, fieldVars, pathVars, quitting, faults, historyVars>>

CloseKnown(p) ==
  /\ pc = p /\ p \in known
  /\ thread[p] = "up"
  /\ Cleared(p)
  /\ Proceed(p)
  /\ UNCHANGED <<service, pathVars, quitting, faults, historyVars>>

\* (A faulty variant of CloseRefused: Close goes on with the next part.)
CloseRefusedUnheeded(p) ==
  /\ pc = p /\ p \in known
  /\ thread[p] = "up"
  /\ faults < MaxFaults
  /\ faults' = faults + 1
  /\ Proceed(p)
  /\ UNCHANGED <<thread, fieldVars, pathVars, quitting, historyVars>>

\* The thread refuses to close, as the proxy handler does when a proxy cannot
\* be closed, or the request does not reach it.
CloseRefused(p) ==
  /\ pc = p /\ p \in known
  /\ thread[p] = "up"
  /\ faults < MaxFaults
  /\ faults' = faults + 1
  /\ pc' = "idle" /\ ret' = "error"
  /\ UNCHANGED <<thread, fieldVars, pathVars, quitting, historyVars>>

\* (A faulty variant of CloseUnanswered: the field is cleared all the same.)
CloseUnansweredClears(p) ==
  /\ pc = p /\ p \in known
  /\ thread[p] = "up"
  /\ thread' = [thread EXCEPT ![p] = "closing"]
  /\ unanswered' = unanswered \cup {p} /\ known' = known \ {p}
  /\ pc' = "idle" /\ ret' = "error"
  /\ UNCHANGED <<service, pathVars, quitting, faults, half>>

\* The thread closes and the answer comes after the timeout.
CloseUnanswered(p) ==
  /\ pc = p /\ p \in known
  /\ thread[p] = "up"
  /\ thread' = [thread EXCEPT ![p] = "closing"]
  /\ unanswered' = unanswered \cup {p}
  /\ pc' = "idle" /\ ret' = "error"
  /\ UNCHANGED <<fieldVars, pathVars, quitting, faults, half>>

\* Nobody is left to answer.
CloseGone(p) ==
  /\ pc = p /\ p \in known
  /\ thread[p] # "up"
  /\ pc' = "idle" /\ ret' = "error"
  /\ UNCHANGED <<thread, fieldVars, pathVars, quitting, faults, historyVars>>

\* A thread ends some time after it answered its close.
ThreadEnds(p) ==
  /\ thread[p] = "closing"
  /\ thread' = [thread EXCEPT ![p] = "down"]
  /\ UNCHANGED <<fieldVars, pathVars, pc, ret, quitting, faults, historyVars>>

-----------------------------------------------------------------------------
Start ==
  SetService \/ StartConfig \/ StartDepManager \/ StartDepManagerFails \/ StartProxyHandler

ClosePart(p) ==
  CloseUnknown(p) \/ CloseKnown(p) \/ CloseRefused(p) \/ CloseUnanswered(p) \/ CloseGone(p)

CloseStep == Close \/ \E p \in Parts : ClosePart(p)

Next == Start \/ CloseStep \/ \E p \in Parts : ThreadEnds(p)

Spec == Init /\ [][Next]_vars

\* A call of Close goes on, and a service that quits calls it again and again.
FairSpec == Spec /\ WF_vars(quitting /\ CloseStep)

-----------------------------------------------------------------------------
(***************************************************************************)
(* Properties.                                                             *)
(***************************************************************************)
\* What IsRunning and the other queries answer is true: a part that the context
\* takes for running does run, whatever starts and closes failed before, unless
\* its close took effect without being answered (dev.go:45-59, 107-133).
KnownIsUp == \A p \in Parts \ unanswered : IsRunning(p) => thread[p] = "up"

\* No handler serves without the engine it reads its configuration from, also
\* where Close fails half way and is called again or starts come in between.
\* Three cases are excepted: a handler that a failed start left behind, which
\* nobody closes; a handler that was told to close and has not ended, which does
\* not count as serving; and an engine whose close was not answered, which the
\* context still takes for running (dev.go:107-133, 167, 221).
HandlersHaveEngine ==
  \A p \in {"dep", "proxy"} :
    thread[p] = "up" /\ p \notin half =>
      thread["engine"] = "up" \/ "engine" \in unanswered

\* The dependency handler is told to close only when the proxy handler was,
\* whose proxies can be closed through it alone, unless a failed start hides
\* the proxy handler from the context (dev.go:108-122).
DepOutlivesProxy ==
  [][thread["dep"] = "up" /\ thread'["dep"] # "up" =>
       thread["proxy"] # "up" \/ "proxy" \in half]_vars

\* When Close returns without an error, only threads that a failed start has
\* left behind are still up: no sequence of failures of Close and of starts
\* loses another.  The context takes no part for running then, so Close never
\* returns without an error once a close was not answered: the part whose field
\* is still set is asked again and cannot answer (dev.go:107-133, 201-204,
\* 254-257).
OnlyHalfStartedRemain ==
  [][ret' = "closed" /\ ret # "closed" =>
       /\ \A p \in Parts : thread'[p] = "up" => p \in half
       /\ \A p \in Parts : ~IsRunning(p)' /\ p \notin unanswered']_vars

\* A service that calls Close until it succeeds gets there, although parts refuse
\* for a while, unless a close took effect without being answered: nobody is left
\* then to answer the next one (dev.go:107-133).
CloseSucceeds == quitting ~> (ret = "closed" \/ unanswered # {})

-----------------------------------------------------------------------------
(***************************************************************************)
(* What a comment of the repository says of this code, and the code does   *)
(* not do: the subject of a run that refutes it.                           *)
(***************************************************************************)
\* "SrcKey is the path of source directory from the configuration", and BinKey
\* the one of the binaries (config.go:12-15).
PathsAsConfigured ==
  ret = "ok" /\ "dep" \in known => dirs = [src |-> Path(SrcKey), bin |-> Path(BinKey)]
=============================================================================

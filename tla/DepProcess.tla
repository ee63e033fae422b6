------------------------------ MODULE DepProcess ------------------------------
(***************************************************************************)
(* The process side of dep_manager.DepManager (dep_manager/dev.go): Run,   *)
(* the goroutine that wait starts for each child, OnStop, Running, Close.  *)
(*                                                                         *)
(* Three kinds of threads interleave.                                      *)
(*   - The handler: the thread that calls Run, Running and Close one call  *)
(*     at a time (dep_handler serves its requests one after another).      *)
(*   - One wait goroutine per child process that was started.  It looks    *)
(*     the child up again BY ID at each use of the runningDeps map.        *)
(*   - Listeners: goroutines that call OnStop and receive on the channel.  *)
(* The children themselves and the binaries on disk are the environment.   *)
(*                                                                         *)
(* runningDeps is a plain Go map without a lock.  A write of it is a pair  *)
(* of steps (begin, end); an access that overlaps somebody else's write    *)
(* may be noticed by the Go runtime, which then kills the whole program,   *)
(* or may go unnoticed and take effect.                                    *)
(***************************************************************************)
EXTENDS Integers

CONSTANTS
  Ids,        \* ids under which dependencies are run
  Instances,  \* the *Dep objects that Dep.copy may allocate (bounds the Runs)
  Listeners,  \* goroutines that call OnStop
  Handler,    \* the thread that calls the manager
  None        \* nil: no entry in the map, no channel

ASSUME ThreadsAssumption ==
  /\ Handler \notin Instances \cup Listeners
  /\ Instances \cap Listeners = {}
  /\ None \notin Ids \cup Instances

VARIABLES
  runningDeps,  \* [Ids -> Instances or None], the manager's map
  mapWriters,   \* threads in the middle of a write of runningDeps
  crash,        \* why the Go program died: "no", "map race" or "nil"
  key,          \* [Instances -> Ids or None], the id a *Dep was stored under
  cmd,          \* [Instances -> BOOLEAN], is instance.cmd set?
  done,         \* [Instances -> Nat], values buffered in instance.done
  process,      \* [Instances -> ...], the operating system's child process
  waiter,       \* [Instances -> ...], where the child's wait goroutine is
  awaited,      \* [Instances -> Instances or None], whose cmd it waits on
  pc,           \* where the handler is
  arg,          \* the id of its current or last call
  self,         \* the *Dep its call works on (Run), or the child it asked (Close)
  ret,          \* what its last call returned
  asked,        \* children with an unanswered "close" request in their socket
  binaries,     \* ids whose binary file exists
  listening,    \* [Listeners -> {"idle", "blocked", "signalled"}]
  channel       \* [Listeners -> Instances or None], what OnStop returned

mapVars      == <<runningDeps, mapWriters>>
instanceVars == <<key, cmd, done>>
childVars    == <<process, asked>>
waiterVars   == <<waiter, awaited>>
handlerVars  == <<pc, arg, self, ret>>
listenerVars == <<listening, channel>>
vars == <<mapVars, crash, instanceVars, childVars, waiterVars, handlerVars,
          listenerVars, binaries>>

-----------------------------------------------------------------------------
ProcessStates == {"none", "booting", "serving", "exited"}
WaiterStates  == {"none", "wait", "waiting", "send", "delete", "deleting", "ended"}
RunStates     == {"installed", "insert", "inserting", "start", "track"}
CloseStates   == {"request", "reply", "answered", "verify"}
Outcomes      == {"none", "started", "already running", "no binary",
                  "not started", "closed", "answered", "still running",
                  "running", "not running", "socket error"}

TypeOK ==
  /\ runningDeps \in [Ids -> Instances \cup {None}]
  /\ mapWriters \subseteq Instances \cup {Handler}
  /\ crash \in {"no", "map race", "nil"}
  /\ key \in [Instances -> Ids \cup {None}]
  /\ cmd \in [Instances -> BOOLEAN]
  /\ done \in [Instances -> Nat]
  /\ process \in [Instances -> ProcessStates]
  /\ waiter \in [Instances -> WaiterStates]
  /\ awaited \in [Instances -> Instances \cup {None}]
  /\ pc \in {"idle"} \cup RunStates \cup CloseStates
  /\ arg \in Ids \cup {None}
  /\ self \in Instances \cup {None}
  /\ ret \in Outcomes
  /\ asked \subseteq Instances
  /\ binaries \subseteq Ids
  /\ listening \in [Listeners -> {"idle", "blocked", "signalled"}]
  /\ channel \in [Listeners -> Instances \cup {None}]

Init ==
  /\ runningDeps = [id \in Ids |-> None]
  /\ mapWriters = {}
  /\ crash = "no"
  /\ key = [i \in Instances |-> None]
  /\ cmd = [i \in Instances |-> FALSE]
  /\ done = [i \in Instances |-> 0]
  /\ process = [i \in Instances |-> "none"]
  /\ waiter = [i \in Instances |-> "none"]
  /\ awaited = [i \in Instances |-> None]
  /\ pc = "idle" /\ arg = None /\ self = None /\ ret = "none"
  /\ asked = {}
  /\ binaries \in SUBSET Ids
  /\ listening = [l \in Listeners |-> "idle"]
  /\ channel = [l \in Listeners |-> None]

-----------------------------------------------------------------------------
(***************************************************************************)
(* Helpers.                                                                *)
(***************************************************************************)
\* Thread t touches runningDeps: the runtime may detect an overlapping write.
MapAccess(t) ==
  crash' \in {"no"} \cup (IF mapWriters \ {t} = {} THEN {} ELSE {"map race"})

Alive(i) == process[i] \in {"booting", "serving"}

\* make(chan error, 1)
Unbuffered   == 0
DoneCapacity == 1

\* The child that listens at the address of the client config of id.
Server(id) == {i \in Instances : key[i] = id /\ process[i] = "serving"}

\* What Running may find: a serving child that answers before the timeout is
\* running, though it may also be too slow; nobody else can answer; opening
\* and closing the socket may fail.
Heartbeat(id) ==
  {"not running", "socket error"} \cup (IF Server(id) = {} THEN {} ELSE {"running"})

Return(outcome) == pc' = "idle" /\ ret' = outcome /\ self' = None

-----------------------------------------------------------------------------
(***************************************************************************)
(* Faulty variants of the actions below, to show that the properties of    *)
(* this module notice them (they are not part of the specification).       *)
(***************************************************************************)
\* Run does not look for an entry of the id.
RunLookupUnchecked(id) ==
  /\ pc = "idle"
  /\ MapAccess(Handler)
  /\ \E i \in Instances : key[i] = None
  /\ arg' = id /\ pc' = "installed" /\ ret' = "none"
  /\ UNCHANGED <<mapVars, instanceVars, childVars, waiterVars, listenerVars, binaries,
                 self>>

\* Run starts the goroutine without instance.cmd being set.
RunTrackTooEarly ==
  /\ pc = "track"
  /\ waiter' = [waiter EXCEPT ![self] = "wait"]
  /\ Return("started")
  /\ UNCHANGED <<mapVars, crash, instanceVars, childVars, awaited, listenerVars,
                 binaries, arg>>

\* The goroutine does not wait for the end of the process.
WaitReturnsAtOnce(i) ==
  /\ waiter[i] = "waiting"
  /\ waiter' = [waiter EXCEPT ![i] = "send"]
  /\ awaited' = [awaited EXCEPT ![i] = None]
  /\ UNCHANGED <<mapVars, crash, instanceVars, childVars, handlerVars, listenerVars,
                 binaries>>

\* The goroutine drops the result of cmd.Wait.
WaitSendsNothing(i) ==
  /\ waiter[i] = "send"
  /\ waiter' = [waiter EXCEPT ![i] = "delete"]
  /\ UNCHANGED <<mapVars, crash, instanceVars, childVars, awaited, handlerVars,
                 listenerVars, binaries>>

\* The receive does not block on an empty channel.
ReceiveAnything(l) ==
  /\ listening[l] = "blocked"
  /\ channel[l] # None
  /\ done' = [done EXCEPT ![channel[l]] = @ - 1]
  /\ listening' = [listening EXCEPT ![l] = "signalled"]
  /\ UNCHANGED <<mapVars, crash, key, cmd, childVars, waiterVars, handlerVars,
                 channel, binaries>>

-----------------------------------------------------------------------------
(***************************************************************************)
(* DepManager.Run, by the handler.                                         *)
(***************************************************************************)
RunLookup(id) ==
  /\ pc = "idle"
  /\ MapAccess(Handler)
  /\ arg' = id
  /\ \/ /\ runningDeps[id] = None
        /\ \E i \in Instances : key[i] = None   \* the bound on Runs
        /\ pc' = "installed" /\ ret' = "none"
        /\ UNCHANGED self
     \/ /\ runningDeps[id] # None
        /\ Return("already running")
  /\ UNCHANGED <<mapVars, instanceVars, childVars, waiterVars, listenerVars, binaries>>

RunNoBinary ==
  /\ pc = "installed"
  /\ arg \notin binaries
  /\ Return("no binary")
  /\ UNCHANGED <<mapVars, crash, instanceVars, childVars, waiterVars, listenerVars,
                 binaries, arg>>

\* instance := dep.copy()
RunCopy(i) ==
  /\ pc = "installed"
  /\ arg \in binaries
  /\ key[i] = None
  /\ self' = i
  /\ pc' = "insert"
  /\ UNCHANGED <<mapVars, crash, instanceVars, childVars, waiterVars, listenerVars,
                 binaries, arg, ret>>

RunInsertBegin ==
  /\ pc = "insert"
  /\ MapAccess(Handler)
  /\ mapWriters' = mapWriters \cup {Handler}
  /\ pc' = "inserting"
  /\ UNCHANGED <<runningDeps, instanceVars, childVars, waiterVars, listenerVars,
                 binaries, arg, self, ret>>

RunInsertEnd ==
  /\ pc = "inserting"
  /\ runningDeps' = [runningDeps EXCEPT ![arg] = self]
  /\ key' = [key EXCEPT ![self] = arg]
  /\ mapWriters' = mapWriters \ {Handler}
  /\ pc' = "start"
  /\ UNCHANGED <<crash, cmd, done, childVars, waiterVars, listenerVars, binaries,
                 arg, self, ret>>

\* cmd.Start succeeded: the child exists, instance.cmd is not set yet.
RunStart ==
  /\ pc = "start"
  /\ arg \in binaries
  /\ process' = [process EXCEPT ![self] = "booting"]
  /\ pc' = "track"
  /\ UNCHANGED <<mapVars, crash, instanceVars, asked, waiterVars,
                 listenerVars, binaries, arg, self, ret>>

\* log.New or cmd.Start failed; the entry made by RunInsertEnd stays.
RunStartFails ==
  /\ pc = "start"
  /\ Return("not started")
  /\ UNCHANGED <<mapVars, crash, instanceVars, childVars, waiterVars, listenerVars,
                 binaries, arg>>

\* instance.cmd = cmd; manager.wait(id)
RunTrack ==
  /\ pc = "track"
  /\ cmd' = [cmd EXCEPT ![self] = TRUE]
  /\ waiter' = [waiter EXCEPT ![self] = "wait"]
  /\ Return("started")
  /\ UNCHANGED <<mapVars, crash, key, done, childVars, awaited, listenerVars,
                 binaries, arg>>

-----------------------------------------------------------------------------
(***************************************************************************)
(* The goroutine of DepManager.wait for the child of instance i.           *)
(***************************************************************************)
\* manager.runningDeps[id].cmd.Wait(): a missing entry or an entry without
\* a cmd is a nil dereference, which kills the program.
WaitLookup(i) ==
  /\ waiter[i] = "wait"
  /\ LET found == runningDeps[key[i]] IN
       IF found # None /\ cmd[found]
         THEN /\ MapAccess(i)
              /\ awaited' = [awaited EXCEPT ![i] = found]
              /\ waiter' = [waiter EXCEPT ![i] = "waiting"]
         ELSE /\ crash' = "nil"
              /\ UNCHANGED <<awaited, waiter>>
  /\ UNCHANGED <<mapVars, instanceVars, childVars, handlerVars, listenerVars, binaries>>

WaitReturns(i) ==
  /\ waiter[i] = "waiting"
  /\ process[awaited[i]] = "exited"
  /\ waiter' = [waiter EXCEPT ![i] = "send"]
  /\ awaited' = [awaited EXCEPT ![i] = None]
  /\ UNCHANGED <<mapVars, crash, instanceVars, childVars, handlerVars, listenerVars,
                 binaries>>

\* manager.runningDeps[id].done <- err blocks while the buffer is full.
WaitSend(i) ==
  /\ waiter[i] = "send"
  /\ LET found == runningDeps[key[i]] IN
       \/ /\ found = None
          /\ crash' = "nil"
          /\ UNCHANGED <<done, waiter>>
       \/ /\ found # None
          /\ done[found] < DoneCapacity
          /\ MapAccess(i)
          /\ done' = [done EXCEPT ![found] = @ + 1]
          /\ waiter' = [waiter EXCEPT ![i] = "delete"]
  /\ UNCHANGED <<mapVars, key, cmd, childVars, awaited, handlerVars, listenerVars,
                 binaries>>

WaitDeleteBegin(i) ==
  /\ waiter[i] = "delete"
  /\ MapAccess(i)
  /\ mapWriters' = mapWriters \cup {i}
  /\ waiter' = [waiter EXCEPT ![i] = "deleting"]
  /\ UNCHANGED <<runningDeps, instanceVars, childVars, awaited, handlerVars,
                 listenerVars, binaries>>

WaitDeleteEnd(i) ==
  /\ waiter[i] = "deleting"
  /\ runningDeps' = [runningDeps EXCEPT ![key[i]] = None]
  /\ mapWriters' = mapWriters \ {i}
  /\ waiter' = [waiter EXCEPT ![i] = "ended"]
  /\ UNCHANGED <<crash, instanceVars, childVars, awaited, handlerVars, listenerVars,
                 binaries>>

-----------------------------------------------------------------------------
(***************************************************************************)
(* DepManager.OnStop and the receive its caller blocks in.                 *)
(***************************************************************************)
OnStop(l, id) ==
  /\ listening[l] # "blocked"
  /\ MapAccess(l)
  /\ LET found == runningDeps[id] IN
       channel' = [channel EXCEPT ![l] =
                     IF found # None /\ cmd[found] THEN found ELSE None]
  /\ listening' = [listening EXCEPT ![l] = "blocked"]
  /\ UNCHANGED <<mapVars, instanceVars, childVars, waiterVars, handlerVars, binaries>>

\* Receiving from a nil channel blocks forever.
Receive(l) ==
  /\ listening[l] = "blocked"
  /\ channel[l] # None
  /\ done[channel[l]] > 0
  /\ done' = [done EXCEPT ![channel[l]] = @ - 1]
  /\ listening' = [listening EXCEPT ![l] = "signalled"]
  /\ UNCHANGED <<mapVars, crash, key, cmd, childVars, waiterVars, handlerVars,
                 channel, binaries>>

-----------------------------------------------------------------------------
(***************************************************************************)
(* DepManager.Running and DepManager.Close, by the handler.                *)
(***************************************************************************)
Running(id) ==
  /\ pc = "idle"
  /\ ret' \in Heartbeat(id)
  /\ arg' = id
  /\ UNCHANGED <<mapVars, crash, instanceVars, childVars, waiterVars, listenerVars,
                 binaries, pc, self>>

CloseCheck(id) ==
  /\ pc = "idle"
  /\ arg' = id
  /\ \/ "running" \in Heartbeat(id) /\ pc' = "request" /\ ret' = "none" /\ UNCHANGED self
     \/ Return("closed")
     \/ Return("socket error")
  /\ UNCHANGED <<mapVars, crash, instanceVars, childVars, waiterVars, listenerVars,
                 binaries>>

\* sock.Request(closeRequest): nobody may be left to receive it.
CloseRequest ==
  /\ pc = "request"
  /\ \/ \E i \in Server(arg) : self' = i /\ asked' = asked \cup {i}
     \/ Server(arg) = {} /\ UNCHANGED <<self, asked>>
  /\ pc' = "reply"
  /\ UNCHANGED <<mapVars, crash, instanceVars, process, waiterVars,
                 listenerVars, binaries, arg, ret>>

CloseNoSocket ==
  /\ pc = "request"
  /\ Return("socket error")
  /\ UNCHANGED <<mapVars, crash, instanceVars, childVars, waiterVars, listenerVars,
                 binaries, arg>>

\* A reply is an error to Close: the service should have stopped before.
CloseAnswered ==
  /\ pc = "answered"
  /\ Return("answered")
  /\ UNCHANGED <<mapVars, crash, instanceVars, childVars, waiterVars, listenerVars,
                 binaries, arg>>

\* The timeout may fire before the child has come to answer.
CloseTimeout ==
  /\ pc = "reply"
  /\ pc' = "verify"
  /\ UNCHANGED <<mapVars, crash, instanceVars, childVars, waiterVars, listenerVars,
                 binaries, arg, self, ret>>

CloseVerify ==
  /\ pc = "verify"
  /\ \/ "running" \in Heartbeat(arg) /\ Return("still running")
     \/ Return("closed")
     \/ Return("socket error")
  /\ UNCHANGED <<mapVars, crash, instanceVars, childVars, waiterVars, listenerVars,
                 binaries, arg>>

-----------------------------------------------------------------------------
(***************************************************************************)
(* The environment: the children and the directory of binaries.            *)
(***************************************************************************)
ChildServes(i) ==
  /\ process[i] = "booting"
  /\ process' = [process EXCEPT ![i] = "serving"]
  /\ UNCHANGED <<mapVars, crash, instanceVars, asked, waiterVars,
                 handlerVars, listenerVars, binaries>>

\* An answer that comes after the timeout is dropped.
ChildReplies(i) ==
  /\ process[i] = "serving"
  /\ i \in asked
  /\ asked' = asked \ {i}
  /\ pc' = IF pc = "reply" /\ self = i THEN "answered" ELSE pc
  /\ UNCHANGED <<mapVars, crash, instanceVars, process, waiterVars, listenerVars,
                 binaries, arg, self, ret>>

\* On request, on its own, or by a crash, also during the initialization.
ChildExits(i) ==
  /\ Alive(i)
  /\ process' = [process EXCEPT ![i] = "exited"]
  /\ asked' = asked \ {i}
  /\ UNCHANGED <<mapVars, crash, instanceVars, waiterVars, handlerVars, listenerVars,
                 binaries>>

\* Install and Uninstall, or the user, create and remove binaries.
BinaryChanges(id) ==
  /\ binaries' = IF id \in binaries THEN binaries \ {id} ELSE binaries \cup {id}
  /\ UNCHANGED <<mapVars, crash, instanceVars, childVars, waiterVars, handlerVars,
                 listenerVars>>

-----------------------------------------------------------------------------
Run == \/ \E id \in Ids : RunLookup(id)
       \/ RunNoBinary
       \/ \E i \in Instances : RunCopy(i)
       \/ RunInsertBegin \/ RunInsertEnd
       \/ RunStart \/ RunStartFails \/ RunTrack

Close == \/ \E id \in Ids : CloseCheck(id)
         \/ CloseRequest \/ CloseNoSocket \/ CloseAnswered \/ CloseTimeout \/ CloseVerify

Wait(i) == \/ WaitLookup(i) \/ WaitReturns(i) \/ WaitSend(i)
           \/ WaitDeleteBegin(i) \/ WaitDeleteEnd(i)

Listen(l) == (\E id \in Ids : OnStop(l, id)) \/ Receive(l)

Child(i) == ChildServes(i) \/ ChildReplies(i) \/ ChildExits(i)

\* A crashed program takes no step any more.
Next ==
  /\ crash = "no"
  /\ \/ Run
     \/ Close
     \/ \E id \in Ids : Running(id) \/ BinaryChanges(id)
     \/ \E i \in Instances : Wait(i) \/ Child(i)
     \/ \E l \in Listeners : Listen(l)

\* The calls of Run and Close that have begun, the goroutines and the
\* receives are scheduled; nobody is obliged to make a call, and no child to
\* boot or to stop.
RunContinues ==
  \/ RunNoBinary \/ (\E i \in Instances : RunCopy(i))
  \/ RunInsertBegin \/ RunInsertEnd \/ RunStart \/ RunStartFails \/ RunTrack
CloseContinues ==
  CloseRequest \/ CloseNoSocket \/ CloseAnswered \/ CloseTimeout \/ CloseVerify

Fairness ==
  /\ WF_vars(crash = "no" /\ (RunContinues \/ CloseContinues))
  /\ \A i \in Instances : WF_vars(crash = "no" /\ Wait(i))
  /\ \A l \in Listeners : WF_vars(crash = "no" /\ Receive(l))

Spec == Init /\ [][Next]_vars
FairSpec == Spec /\ Fairness
-----------------------------------------------------------------------------
(***************************************************************************)
(* Safety.                                                                 *)
(***************************************************************************)
\* The wait goroutine never dereferences nil: whenever it looks its child up
\* by id the entry is still there and has a cmd (dev.go:424-425).
NoNilDereference == crash # "nil"

\* Looking up by id is looking up itself: from its start until its delete is
\* done, the goroutine of a child finds that very child under the id, and so
\* waits on, signals and removes no other (dev.go:422-427).
WaitsOnItsOwn ==
  \A i \in Instances :
    /\ waiter[i] \notin {"none", "ended"} => runningDeps[key[i]] = i
    /\ awaited[i] \in {i, None}

\* No orphan: a child process that is alive is in the map under its id, so
\* its end will be noticed and a second Run of the id is refused; hence no
\* two children of one id are alive at once (dev.go:364-412).
LiveChildIsRegistered ==
  \A i \in Instances : Alive(i) => runningDeps[key[i]] = i

\* A stop signal is only ever in a channel whose child has exited, and the
\* buffer of one is never exceeded, so the goroutine's send cannot block
\* (dev.go:104, 424-425).
SignalMeansExited ==
  \A i \in Instances :
    /\ done[i] > 0 => process[i] = "exited" /\ waiter[i] \in {"delete", "deleting", "ended"}
    /\ waiter[i] = "send" => done[runningDeps[key[i]]] < DoneCapacity

(***************************************************************************)
(* Action properties.                                                      *)
(***************************************************************************)
\* An entry of the map is never replaced, and is only removed after its child
\* has exited: a new Run of an id cannot take over the entry of a child that
\* the manager still supervises (dev.go:364-367, 392, 426).
EntryOutlivesChild ==
  [][\A id \in Ids :
       LET i == runningDeps[id] IN
         i # None /\ runningDeps'[id] # i =>
           runningDeps'[id] = None /\ process[i] = "exited"]_vars

(***************************************************************************)
(* Liveness.                                                               *)
(***************************************************************************)
\* A child that exits is reaped: its goroutine ends and its id can be run
\* again, whether or not anybody listens (dev.go:418-427).
ExitedChildIsReaped ==
  \A i \in Instances :
    process[i] = "exited" ~> (crash # "no" \/ waiter[i] = "ended")

\* When a child exits while somebody waits on its channel, then a listener of
\* that child gets the signal, whichever calls and exits of other children
\* come in between (dev.go:328-341, 424-425).
ListenerIsSignalled ==
  \A i \in Instances :
    (/\ process[i] = "exited" /\ waiter[i] \in {"wait", "waiting", "send"}
     /\ \E l \in Listeners : listening[l] = "blocked" /\ channel[l] = i)
      ~> (crash # "no" \/ \E l \in Listeners : listening[l] = "signalled" /\ channel[l] = i)
-----------------------------------------------------------------------------
(***************************************************************************)
(* DepProcess implements Supervision: an attempt owns its id from the end  *)
(* of the insertion into the map to the end of the deletion.               *)
(***************************************************************************)
StageOf(i) ==
  CASE key[i] = None -> "fresh"
    [] key[i] # None /\ process[i] = "none" ->
         IF pc = "start" /\ self = i THEN "claimed" ELSE "failed"
    [] key[i] # None /\ Alive(i) -> "live"
    [] key[i] # None /\ process[i] = "exited" ->
         IF waiter[i] = "ended" THEN "reaped"
         ELSE IF waiter[i] \in {"delete", "deleting"} THEN "reported"
         ELSE "dead"

stage == [i \in Instances |-> StageOf(i)]

Abstract == INSTANCE Supervision WITH owner <- runningDeps, stage <- stage

\* Every behaviour of the manager, its goroutines and the children is one of
\* Supervision: whatever interleaves, an id has one owner, which gives it up
\* only after its child has exited and its end was put into the done channel
\* (dev.go:356-428).
Implements == Abstract!Spec

\* To those who run dependencies under an id nothing else is visible than its status
\* in module Lifecycle, which DepHandler and ProxyHandler build on: a child starts
\* only when there is none and the end of the last was handled (dev.go:356-428).
ImplementsLifecycle == Abstract!ImplementsLifecycle
-----------------------------------------------------------------------------
(***************************************************************************)
(* What a comment of the repository says of this code, and the code does   *)
(* not do: the subject of a run that refutes it.                           *)
(***************************************************************************)
\* "onCloseDep stops the dependency" (dep_handler/dev.go:234): when Close
\* returns without an error, no child of the id is alive.
CloseStopsChild ==
  [][ret' = "closed" /\ ret # "closed" =>
       \A i \in Instances : key[i] = arg' => ~Alive(i)]_vars
=============================================================================

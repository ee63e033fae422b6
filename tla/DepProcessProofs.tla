--------------------------- MODULE DepProcessProofs ---------------------------
(***************************************************************************)
(* Proofs about DepProcess, for every set of ids, instances and listeners. *)
(***************************************************************************)
EXTENDS DepProcess, TLAPS

-----------------------------------------------------------------------------
(***************************************************************************)
(* The inductive invariant, in parts.  It holds whatever the interleaving  *)
(* of the handler, the goroutines, the listeners and the children.         *)
(***************************************************************************)
\* Where the handler is in Run tells what is known of its id and its copy.
HandlerInv ==
  /\ pc = "installed" => arg \in Ids /\ runningDeps[arg] = None
  /\ pc \in {"insert", "inserting"} =>
       /\ arg \in Ids /\ self \in Instances
       /\ runningDeps[arg] = None /\ key[self] = None
  /\ pc \in {"start", "track"} =>
       /\ arg \in Ids /\ self \in Instances
       /\ runningDeps[arg] = self /\ waiter[self] = "none"
       /\ (pc = "start") <=> (process[self] = "none")

\* The map and the ids the instances were stored under agree.
KeyInv ==
  /\ \A id \in Ids : runningDeps[id] # None => key[runningDeps[id]] = id
  /\ \A i \in Instances :
       key[i] = None => process[i] = "none" /\ waiter[i] = "none"

\* A child without a goroutine is the one Run is about to track; cmd is set
\* together with the start of the goroutine.
TrackInv ==
  \A i \in Instances :
    /\ cmd[i] <=> waiter[i] # "none"
    /\ process[i] # "none" /\ waiter[i] = "none" => pc = "track" /\ self = i
    /\ waiter[i] # "none" => process[i] # "none"

\* What a goroutine has done so far.
WaiterOK(i) ==
  /\ waiter[i] \notin {"none", "ended"} => runningDeps[key[i]] = i
  /\ awaited[i] \in {i, None}
  /\ waiter[i] = "waiting" => awaited[i] = i
  /\ waiter[i] \in {"send", "delete", "deleting", "ended"} => process[i] = "exited"
  /\ done[i] <= DoneCapacity
  /\ done[i] > 0 => waiter[i] \in {"delete", "deleting", "ended"}

WaiterInv == \A i \in Instances : WaiterOK(i)

IInv == TypeOK /\ HandlerInv /\ KeyInv /\ TrackInv /\ WaiterInv /\ crash # "nil"

\* The part of TypeOK that the steps below reason with.
FunctionsOK ==
  /\ runningDeps \in [Ids -> Instances \cup {None}]
  /\ key \in [Instances -> Ids \cup {None}]
  /\ cmd \in [Instances -> BOOLEAN]
  /\ done \in [Instances -> Nat]
  /\ process \in [Instances -> ProcessStates]
  /\ waiter \in [Instances -> WaiterStates]
  /\ awaited \in [Instances -> Instances \cup {None}]

USE DEF mapVars, instanceVars, childVars, waiterVars, handlerVars, listenerVars

-----------------------------------------------------------------------------
(***************************************************************************)
(* Facts the steps share.                                                  *)
(***************************************************************************)
LEMMA FunctionsAreOK == ASSUME TypeOK PROVE FunctionsOK
BY DEF TypeOK, FunctionsOK

\* A goroutine runs for a child that was started under an id.
LEMMA GoroutineHasChild ==
  ASSUME IInv, NEW i \in Instances, waiter[i] # "none"
  PROVE  key[i] \in Ids /\ i # None /\ cmd[i] /\ process[i] # "none"
<1>1. process[i] # "none"
  BY DEF IInv, TrackInv
<1>2. key[i] \in Ids
  BY <1>1 DEF IInv, KeyInv, TypeOK
<1>3. cmd[i]
  BY DEF IInv, TrackInv
<1> QED BY <1>1, <1>2, <1>3, ThreadsAssumption

\* From the insertion on, Run holds an id and an instance.
LEMMA RunHoldsInstance ==
  ASSUME IInv, pc \in {"insert", "inserting", "start", "track"}
  PROVE  arg \in Ids /\ self \in Instances /\ arg # None /\ self # None
BY ThreadsAssumption DEF IInv, HandlerInv

\* An access of the map never is a nil dereference.
LEMMA AccessIsNotNil ==
  ASSUME NEW t, MapAccess(t) PROVE crash' \in {"no", "map race"}
BY DEF MapAccess

-----------------------------------------------------------------------------
(***************************************************************************)
(* Every step keeps the invariant: the steps of Run.                       *)
(***************************************************************************)
LEMMA RunKeepsInvariant == ASSUME IInv, Run PROVE IInv'
<1>1. ASSUME NEW id \in Ids, RunLookup(id) PROVE IInv'
  <2>1. FunctionsOK
    BY FunctionsAreOK DEF IInv
  <2>2. crash' \in {"no", "map race"} /\ arg' = id
    BY <1>1, AccessIsNotNil DEF RunLookup
  <2>3. \/ pc' = "installed" /\ self' = self /\ ret' = "none" /\ runningDeps[id] = None
        \/ pc' = "idle" /\ self' = None /\ ret' = "already running"
    BY <1>1 DEF RunLookup, Return
  <2>4. pc = "idle" /\ UNCHANGED <<runningDeps, key, cmd, done, process, waiter, awaited>>
    BY <1>1 DEF RunLookup
  <2>5. TypeOK'
    BY <1>1, <2>1, <2>2, <2>3, <2>4 DEF IInv, TypeOK, WaiterStates, ProcessStates,
       RunStates, CloseStates, Outcomes, RunLookup
  <2>6. HandlerInv'
    BY <2>1, <2>2, <2>3, <2>4, ThreadsAssumption DEF IInv, FunctionsOK, HandlerInv
  <2>7. KeyInv'
    BY <2>1, <2>2, <2>3, <2>4, ThreadsAssumption DEF IInv, FunctionsOK, KeyInv
  <2>8. TrackInv'
    BY <2>1, <2>2, <2>3, <2>4, ThreadsAssumption DEF IInv, FunctionsOK, TrackInv
  <2>9. WaiterInv'
    BY <2>1, <2>2, <2>3, <2>4, ThreadsAssumption DEF IInv, FunctionsOK, WaiterInv,
       WaiterOK, DoneCapacity
  <2> QED BY <2>1, <2>2, <2>3, <2>4, <2>5, <2>6, <2>7, <2>8, <2>9 DEF IInv
<1>2. ASSUME RunNoBinary PROVE IInv'
  BY <1>2, ThreadsAssumption DEF IInv, TypeOK, WaiterStates, ProcessStates,
     RunStates, CloseStates, Outcomes, HandlerInv, KeyInv, TrackInv,
     WaiterInv, WaiterOK, DoneCapacity, MapAccess, Return, RunNoBinary
<1>3. ASSUME NEW i \in Instances, RunCopy(i) PROVE IInv'
  BY <1>3, ThreadsAssumption DEF IInv, TypeOK, WaiterStates, ProcessStates,
     RunStates, CloseStates, Outcomes, HandlerInv, KeyInv, TrackInv,
     WaiterInv, WaiterOK, DoneCapacity, MapAccess, Return, RunCopy
<1>4. ASSUME RunInsertBegin PROVE IInv'
  BY <1>4, ThreadsAssumption DEF IInv, TypeOK, WaiterStates, ProcessStates,
     RunStates, CloseStates, Outcomes, HandlerInv, KeyInv, TrackInv,
     WaiterInv, WaiterOK, DoneCapacity, MapAccess, Return, RunInsertBegin
<1>5. ASSUME RunInsertEnd PROVE IInv'
  <2>1. FunctionsOK
    BY FunctionsAreOK DEF IInv
  <2>2. arg \in Ids /\ self \in Instances /\ arg # None /\ self # None
    BY <1>5, RunHoldsInstance DEF RunInsertEnd
  <2>3. /\ runningDeps[arg] = None /\ key[self] = None
        /\ process[self] = "none" /\ waiter[self] = "none"
    BY <1>5, <2>2 DEF IInv, HandlerInv, KeyInv, TrackInv, RunInsertEnd
  <2>4. /\ runningDeps' = [runningDeps EXCEPT ![arg] = self]
        /\ key' = [key EXCEPT ![self] = arg]
        /\ pc' = "start" /\ mapWriters' \subseteq mapWriters
    BY <1>5 DEF RunInsertEnd
  <2>5. UNCHANGED <<crash, cmd, done, process, waiter, awaited, arg, self>>
    BY <1>5 DEF RunInsertEnd
  <2>6. /\ runningDeps' \in [Ids -> Instances \cup {None}]
        /\ key' \in [Instances -> Ids \cup {None}]
        /\ mapWriters' \subseteq Instances \cup {Handler}
    BY <2>1, <2>2, <2>4 DEF FunctionsOK, IInv, TypeOK
  <2>7. TypeOK'
    BY <1>5, <2>1, <2>2, <2>3, <2>4, <2>5, <2>6 DEF IInv, TypeOK, WaiterStates,
       ProcessStates, RunStates, CloseStates, Outcomes, RunInsertEnd
  <2>8. HandlerInv'
    BY <2>1, <2>2, <2>3, <2>4, <2>5, <2>6, ThreadsAssumption
    DEF IInv, FunctionsOK, HandlerInv
  <2>9. KeyInv'
    BY <2>1, <2>2, <2>3, <2>4, <2>5, <2>6, ThreadsAssumption
    DEF IInv, FunctionsOK, KeyInv
  <2>10. TrackInv'
    BY <2>1, <2>2, <2>3, <2>4, <2>5, <2>6, ThreadsAssumption
    DEF IInv, FunctionsOK, TrackInv
  <2>11. WaiterInv'
    BY <2>1, <2>2, <2>3, <2>4, <2>5, <2>6, ThreadsAssumption
    DEF IInv, FunctionsOK, WaiterInv, WaiterOK, DoneCapacity
  <2> QED
    BY <2>1, <2>2, <2>3, <2>4, <2>5, <2>6, <2>7, <2>8, <2>9, <2>10, <2>11 DEF IInv
<1>6. ASSUME RunStart PROVE IInv'
  <2>1. FunctionsOK
    BY FunctionsAreOK DEF IInv
  <2>2. arg \in Ids /\ self \in Instances /\ arg # None /\ self # None
    BY <1>6, RunHoldsInstance DEF RunStart
  <2>3. /\ runningDeps[arg] = self /\ key[self] = arg
        /\ process[self] = "none" /\ waiter[self] = "none"
    BY <1>6, <2>2 DEF IInv, HandlerInv, KeyInv, TrackInv, RunStart
  <2>4. /\ process' = [process EXCEPT ![self] = "booting"]
        /\ pc = "start" /\ pc' = "track"
    BY <1>6 DEF RunStart
  <2>5. UNCHANGED <<crash, runningDeps, key, cmd, done, waiter, awaited, arg, self>>
    BY <1>6 DEF RunStart
  <2>6. TypeOK'
    BY <1>6, <2>1, <2>2, <2>3, <2>4, <2>5 DEF IInv, TypeOK, WaiterStates,
       ProcessStates, RunStates, CloseStates, Outcomes, RunStart
  <2>7. HandlerInv'
    BY <2>1, <2>2, <2>3, <2>4, <2>5, ThreadsAssumption
    DEF IInv, FunctionsOK, HandlerInv
  <2>8. KeyInv'
    BY <2>1, <2>2, <2>3, <2>4, <2>5, ThreadsAssumption DEF IInv, FunctionsOK, KeyInv
  <2>9. TrackInv'
    BY <2>1, <2>2, <2>3, <2>4, <2>5, ThreadsAssumption
    DEF IInv, FunctionsOK, TrackInv
  <2>10. WaiterInv'
    BY <2>1, <2>2, <2>3, <2>4, <2>5, ThreadsAssumption
    DEF IInv, FunctionsOK, WaiterInv, WaiterOK, DoneCapacity
  <2> QED BY <2>1, <2>2, <2>3, <2>4, <2>5, <2>6, <2>7, <2>8, <2>9, <2>10 DEF IInv
<1>7. ASSUME RunStartFails PROVE IInv'
  BY <1>7, ThreadsAssumption DEF IInv, TypeOK, WaiterStates, ProcessStates,
     RunStates, CloseStates, Outcomes, HandlerInv, KeyInv, TrackInv,
     WaiterInv, WaiterOK, DoneCapacity, MapAccess, Return, RunStartFails
<1>8. ASSUME RunTrack PROVE IInv'
  <2>1. FunctionsOK
    BY FunctionsAreOK DEF IInv
  <2>2. arg \in Ids /\ self \in Instances /\ arg # None /\ self # None
    BY <1>8, RunHoldsInstance DEF RunTrack
  <2>3. /\ runningDeps[arg] = self /\ key[self] = arg
        /\ process[self] # "none" /\ waiter[self] = "none"
    BY <1>8, <2>2 DEF IInv, HandlerInv, KeyInv, TrackInv, RunTrack
  <2>4. /\ waiter' = [waiter EXCEPT ![self] = "wait"]
        /\ cmd' = [cmd EXCEPT ![self] = TRUE]
        /\ pc = "track" /\ pc' = "idle" /\ self' = None
    BY <1>8 DEF RunTrack, Return
  <2>5. UNCHANGED <<crash, runningDeps, key, done, process, awaited, arg>>
    BY <1>8 DEF RunTrack
  <2>6. TypeOK'
    BY <1>8, <2>1, <2>2, <2>3, <2>4, <2>5 DEF IInv, TypeOK, WaiterStates,
       ProcessStates, RunStates, CloseStates, Outcomes, RunTrack, Return
  <2>7. HandlerInv'
    BY <2>1, <2>2, <2>3, <2>4, <2>5, ThreadsAssumption
    DEF IInv, FunctionsOK, HandlerInv
  <2>8. KeyInv'
    BY <2>1, <2>2, <2>3, <2>4, <2>5, ThreadsAssumption DEF IInv, FunctionsOK, KeyInv
  <2>9. TrackInv'
    BY <2>1, <2>2, <2>3, <2>4, <2>5, ThreadsAssumption
    DEF IInv, FunctionsOK, TrackInv
  <2>10. WaiterInv'
    BY <2>1, <2>2, <2>3, <2>4, <2>5, ThreadsAssumption
    DEF IInv, FunctionsOK, WaiterInv, WaiterOK, DoneCapacity
  <2> QED BY <2>1, <2>2, <2>3, <2>4, <2>5, <2>6, <2>7, <2>8, <2>9, <2>10 DEF IInv
<1> QED BY <1>1, <1>2, <1>3, <1>4, <1>5, <1>6, <1>7, <1>8 DEF Run

\* The steps of Close and Running touch neither the map nor the children.
LEMMA CloseKeepsInvariant == ASSUME IInv, Close PROVE IInv'
<1>1. ASSUME NEW id \in Ids, CloseCheck(id) PROVE IInv'
  <2>1. /\ arg' = id /\ pc' \in {"idle", "request"} /\ self' \in {self, None}
        /\ ret' \in {"none", "closed", "socket error"}
    BY <1>1 DEF CloseCheck, Return
  <2>2. /\ pc = "idle"
        /\ UNCHANGED <<mapVars, crash, instanceVars, childVars, waiterVars, listenerVars, binaries>>
    BY <1>1 DEF CloseCheck
  <2> QED
    BY <2>1, <2>2 DEF IInv, TypeOK, CloseStates, RunStates, Outcomes, HandlerInv,
       KeyInv, TrackInv, WaiterInv, WaiterOK
<1>2. ASSUME CloseRequest PROVE IInv'
  <2>1. self' \in Instances \cup {None} /\ asked' \subseteq Instances
    BY <1>2 DEF CloseRequest, Server, IInv, TypeOK
  <2> QED
    BY <1>2, <2>1 DEF IInv, TypeOK, CloseStates, RunStates, HandlerInv, KeyInv,
       TrackInv, WaiterInv, WaiterOK, CloseRequest
<1>3. ASSUME CloseNoSocket PROVE IInv'
  BY <1>3, ThreadsAssumption DEF IInv, TypeOK, WaiterStates, ProcessStates,
     RunStates, CloseStates, Outcomes, HandlerInv, KeyInv, TrackInv,
     WaiterInv, WaiterOK, DoneCapacity, MapAccess, Return, CloseNoSocket
<1>4. ASSUME CloseAnswered PROVE IInv'
  BY <1>4, ThreadsAssumption DEF IInv, TypeOK, WaiterStates, ProcessStates,
     RunStates, CloseStates, Outcomes, HandlerInv, KeyInv, TrackInv,
     WaiterInv, WaiterOK, DoneCapacity, MapAccess, Return, CloseAnswered
<1>5. ASSUME CloseTimeout PROVE IInv'
  BY <1>5, ThreadsAssumption DEF IInv, TypeOK, WaiterStates, ProcessStates,
     RunStates, CloseStates, Outcomes, HandlerInv, KeyInv, TrackInv,
     WaiterInv, WaiterOK, DoneCapacity, MapAccess, Return, CloseTimeout
<1>6. ASSUME CloseVerify PROVE IInv'
  BY <1>6, ThreadsAssumption DEF IInv, TypeOK, WaiterStates, ProcessStates,
     RunStates, CloseStates, Outcomes, HandlerInv, KeyInv, TrackInv,
     WaiterInv, WaiterOK, DoneCapacity, MapAccess, Return, CloseVerify
<1> QED BY <1>1, <1>2, <1>3, <1>4, <1>5, <1>6 DEF Close

\* The steps of a goroutine.  That it finds itself under its id (WaiterInv)
\* is what makes each of its lookups and its delete harmless.
LEMMA WaitKeepsInvariant == ASSUME IInv, NEW i \in Instances, Wait(i) PROVE IInv'
<1>1. ASSUME WaitLookup(i) PROVE IInv'
  <2>1. FunctionsOK
    BY FunctionsAreOK DEF IInv
  <2>2. key[i] \in Ids /\ i # None /\ cmd[i] /\ process[i] # "none"
    BY <1>1, GoroutineHasChild DEF WaitLookup
  <2>3. waiter[i] = "wait" /\ runningDeps[key[i]] = i
    BY <1>1 DEF IInv, WaiterInv, WaiterOK, WaitLookup
  <2>4. MapAccess(i) /\ awaited' = [awaited EXCEPT ![i] = i]
        /\ waiter' = [waiter EXCEPT ![i] = "waiting"]
    BY <1>1, <2>2, <2>3 DEF WaitLookup
  <2>5. crash' \in {"no", "map race"}
    BY <2>4, AccessIsNotNil
  <2>6. UNCHANGED <<runningDeps, key, cmd, done, process, pc, arg, self>>
    BY <1>1 DEF WaitLookup
  <2>7. TypeOK'
    BY <1>1, <2>1, <2>2, <2>3, <2>4, <2>5, <2>6 DEF IInv, TypeOK, WaiterStates,
       ProcessStates, RunStates, CloseStates, Outcomes, WaitLookup
  <2>8. HandlerInv'
    BY <2>1, <2>2, <2>3, <2>4, <2>5, <2>6, ThreadsAssumption
    DEF IInv, FunctionsOK, HandlerInv
  <2>9. KeyInv'
    BY <2>1, <2>2, <2>3, <2>4, <2>5, <2>6, ThreadsAssumption
    DEF IInv, FunctionsOK, KeyInv
  <2>10. TrackInv'
    BY <2>1, <2>2, <2>3, <2>4, <2>5, <2>6, ThreadsAssumption
    DEF IInv, FunctionsOK, TrackInv
  <2>11. WaiterInv'
    BY <2>1, <2>2, <2>3, <2>4, <2>5, <2>6, ThreadsAssumption
    DEF IInv, FunctionsOK, WaiterInv, WaiterOK, DoneCapacity
  <2> QED
    BY <2>1, <2>2, <2>3, <2>4, <2>5, <2>6, <2>7, <2>8, <2>9, <2>10, <2>11 DEF IInv
<1>2. ASSUME WaitReturns(i) PROVE IInv'
  <2>1. FunctionsOK
    BY FunctionsAreOK DEF IInv
  <2>2. key[i] \in Ids /\ i # None /\ cmd[i] /\ process[i] # "none"
    BY <1>2, GoroutineHasChild DEF WaitReturns
  <2>3. waiter[i] = "waiting" /\ process[i] = "exited"
    BY <1>2 DEF IInv, WaiterInv, WaiterOK, WaitReturns
  <2>4. /\ awaited' = [awaited EXCEPT ![i] = None]
        /\ waiter' = [waiter EXCEPT ![i] = "send"]
    BY <1>2 DEF WaitReturns
  <2>5. UNCHANGED <<crash, runningDeps, key, cmd, done, process, pc, arg, self>>
    BY <1>2 DEF WaitReturns
  <2>6. TypeOK'
    BY <1>2, <2>1, <2>2, <2>3, <2>4, <2>5 DEF IInv, TypeOK, WaiterStates,
       ProcessStates, RunStates, CloseStates, Outcomes, WaitReturns
  <2>7. HandlerInv'
    BY <2>1, <2>2, <2>3, <2>4, <2>5, ThreadsAssumption
    DEF IInv, FunctionsOK, HandlerInv
  <2>8. KeyInv'
    BY <2>1, <2>2, <2>3, <2>4, <2>5, ThreadsAssumption DEF IInv, FunctionsOK, KeyInv
  <2>9. TrackInv'
    BY <2>1, <2>2, <2>3, <2>4, <2>5, ThreadsAssumption
    DEF IInv, FunctionsOK, TrackInv
  <2>10. WaiterInv'
    BY <2>1, <2>2, <2>3, <2>4, <2>5, ThreadsAssumption
    DEF IInv, FunctionsOK, WaiterInv, WaiterOK, DoneCapacity
  <2> QED BY <2>1, <2>2, <2>3, <2>4, <2>5, <2>6, <2>7, <2>8, <2>9, <2>10 DEF IInv
<1>3. ASSUME WaitSend(i) PROVE IInv'
  <2>1. FunctionsOK
    BY FunctionsAreOK DEF IInv
  <2>2. key[i] \in Ids /\ i # None /\ cmd[i] /\ process[i] # "none"
    BY <1>3, GoroutineHasChild DEF WaitSend
  <2>3. /\ waiter[i] = "send" /\ runningDeps[key[i]] = i
        /\ process[i] = "exited"
    BY <1>3 DEF IInv, WaiterInv, WaiterOK, WaitSend
  <2>4. done[i] = 0
    BY <2>1, <2>3 DEF FunctionsOK, IInv, WaiterInv, WaiterOK
  <2>5. /\ MapAccess(i) /\ done' = [done EXCEPT ![i] = 1]
        /\ waiter' = [waiter EXCEPT ![i] = "delete"]
    BY <1>3, <2>1, <2>2, <2>3, <2>4 DEF WaitSend, FunctionsOK
  <2>6. crash' \in {"no", "map race"}
    BY <2>5, AccessIsNotNil
  <2>7. UNCHANGED <<runningDeps, key, cmd, process, awaited, pc, arg, self>>
    BY <1>3 DEF WaitSend
  <2>8. done' \in [Instances -> Nat] /\ waiter' \in [Instances -> WaiterStates]
    BY <2>1, <2>5 DEF FunctionsOK, WaiterStates
  <2>9. TypeOK'
    BY <1>3, <2>1, <2>2, <2>3, <2>4, <2>5, <2>6, <2>7, <2>8
    DEF IInv, TypeOK, WaiterStates, ProcessStates, RunStates, CloseStates, Outcomes,
        WaitSend
  <2>10. HandlerInv'
    BY <2>1, <2>2, <2>3, <2>4, <2>5, <2>6, <2>7, <2>8, ThreadsAssumption
    DEF IInv, FunctionsOK, HandlerInv
  <2>11. KeyInv'
    BY <2>1, <2>2, <2>3, <2>4, <2>5, <2>6, <2>7, <2>8, ThreadsAssumption
    DEF IInv, FunctionsOK, KeyInv
  <2>12. TrackInv'
    BY <2>1, <2>2, <2>3, <2>4, <2>5, <2>6, <2>7, <2>8, ThreadsAssumption
    DEF IInv, FunctionsOK, TrackInv
  <2>13. WaiterInv'
    <3> SUFFICES ASSUME NEW j \in Instances
                 PROVE  WaiterOK(j)'
      BY DEF WaiterInv
    <3>1. CASE j = i
      BY <3>1, <2>1, <2>2, <2>3, <2>4, <2>5, <2>7 DEF IInv, FunctionsOK, WaiterInv,
         WaiterOK, DoneCapacity
    <3>2. CASE j # i
      BY <3>2, <2>1, <2>5, <2>7 DEF IInv, FunctionsOK, WaiterInv, WaiterOK
    <3> QED BY <3>1, <3>2
  <2> QED
    BY <2>1, <2>2, <2>3, <2>4, <2>5, <2>6, <2>7, <2>8, <2>9, <2>10, <2>11, <2>12,
       <2>13
    DEF IInv
<1>4. ASSUME WaitDeleteBegin(i) PROVE IInv'
  <2>1. FunctionsOK
    BY FunctionsAreOK DEF IInv
  <2>2. key[i] \in Ids /\ i # None /\ cmd[i] /\ process[i] # "none"
    BY <1>4, GoroutineHasChild DEF WaitDeleteBegin
  <2>3. waiter[i] = "delete" /\ runningDeps[key[i]] = i /\ process[i] = "exited"
    BY <1>4 DEF IInv, WaiterInv, WaiterOK, WaitDeleteBegin
  <2>4. /\ crash' \in {"no", "map race"}
        /\ waiter' = [waiter EXCEPT ![i] = "deleting"]
    BY <1>4, AccessIsNotNil DEF WaitDeleteBegin
  <2>5. UNCHANGED <<runningDeps, key, cmd, done, process, awaited, pc, arg, self>>
    BY <1>4 DEF WaitDeleteBegin
  <2>6. TypeOK'
    BY <1>4, <2>1, <2>2, <2>3, <2>4, <2>5 DEF IInv, TypeOK, WaiterStates,
       ProcessStates, RunStates, CloseStates, Outcomes, WaitDeleteBegin
  <2>7. HandlerInv'
    BY <2>1, <2>2, <2>3, <2>4, <2>5, ThreadsAssumption
    DEF IInv, FunctionsOK, HandlerInv
  <2>8. KeyInv'
    BY <2>1, <2>2, <2>3, <2>4, <2>5, ThreadsAssumption DEF IInv, FunctionsOK, KeyInv
  <2>9. TrackInv'
    BY <2>1, <2>2, <2>3, <2>4, <2>5, ThreadsAssumption
    DEF IInv, FunctionsOK, TrackInv
  <2>10. WaiterInv'
    BY <2>1, <2>2, <2>3, <2>4, <2>5, ThreadsAssumption
    DEF IInv, FunctionsOK, WaiterInv, WaiterOK, DoneCapacity
  <2> QED BY <2>1, <2>2, <2>3, <2>4, <2>5, <2>6, <2>7, <2>8, <2>9, <2>10 DEF IInv
<1>5. ASSUME WaitDeleteEnd(i) PROVE IInv'
  <2>1. FunctionsOK
    BY FunctionsAreOK DEF IInv
  <2>2. key[i] \in Ids /\ i # None /\ cmd[i] /\ process[i] # "none"
    BY <1>5, GoroutineHasChild DEF WaitDeleteEnd
  <2>3. waiter[i] = "deleting" /\ runningDeps[key[i]] = i /\ process[i] = "exited"
    BY <1>5 DEF IInv, WaiterInv, WaiterOK, WaitDeleteEnd
  <2>4. /\ runningDeps' = [runningDeps EXCEPT ![key[i]] = None]
        /\ waiter' = [waiter EXCEPT ![i] = "ended"]
    BY <1>5 DEF WaitDeleteEnd
  <2>5. UNCHANGED <<crash, key, cmd, done, process, awaited, pc, arg, self>>
    BY <1>5 DEF WaitDeleteEnd
  <2>6. TypeOK'
    BY <1>5, <2>1, <2>2, <2>3, <2>4, <2>5 DEF IInv, TypeOK, WaiterStates,
       ProcessStates, RunStates, CloseStates, Outcomes, WaitDeleteEnd
  <2>7. HandlerInv'
    BY <2>1, <2>2, <2>3, <2>4, <2>5, ThreadsAssumption
    DEF IInv, FunctionsOK, HandlerInv
  <2>8. KeyInv'
    BY <2>1, <2>2, <2>3, <2>4, <2>5, ThreadsAssumption DEF IInv, FunctionsOK, KeyInv
  <2>9. TrackInv'
    BY <2>1, <2>2, <2>3, <2>4, <2>5, ThreadsAssumption
    DEF IInv, FunctionsOK, TrackInv
  <2>10. WaiterInv'
    BY <2>1, <2>2, <2>3, <2>4, <2>5, ThreadsAssumption
    DEF IInv, FunctionsOK, WaiterInv, WaiterOK, DoneCapacity
  <2> QED BY <2>1, <2>2, <2>3, <2>4, <2>5, <2>6, <2>7, <2>8, <2>9, <2>10 DEF IInv
<1> QED BY <1>1, <1>2, <1>3, <1>4, <1>5 DEF Wait

\* The steps of a listener.
LEMMA ListenKeepsInvariant == ASSUME IInv, NEW l \in Listeners, Listen(l) PROVE IInv'
<1>1. ASSUME NEW id \in Ids, OnStop(l, id) PROVE IInv'
  <2>1. crash' \in {"no", "map race"}
    BY <1>1, AccessIsNotNil DEF OnStop
  <2>2. channel' \in [Listeners -> Instances \cup {None}]
    BY <1>1 DEF OnStop, IInv, TypeOK
  <2>3. /\ listening' \in [Listeners -> {"idle", "blocked", "signalled"}]
        /\ UNCHANGED <<mapVars, instanceVars, childVars, waiterVars, handlerVars, binaries>>
    BY <1>1 DEF OnStop, IInv, TypeOK
  <2> QED
    BY <2>1, <2>2, <2>3 DEF IInv, TypeOK, HandlerInv, KeyInv, TrackInv, WaiterInv,
       WaiterOK
<1>2. ASSUME Receive(l) PROVE IInv'
  <2>1. FunctionsOK
    BY FunctionsAreOK DEF IInv
  <2>2. channel[l] \in Instances /\ done[channel[l]] > 0
    BY <1>2 DEF Receive, IInv, TypeOK
  <2>3. done' = [done EXCEPT ![channel[l]] = @ - 1]
    BY <1>2 DEF Receive
  <2>4. done' \in [Instances -> Nat]
    BY <2>1, <2>2, <2>3 DEF FunctionsOK
  <2>5. UNCHANGED <<crash, runningDeps, key, cmd, process, waiter, awaited, pc, arg, self>>
    BY <1>2 DEF Receive
  <2>6. TypeOK'
    BY <1>2, <2>1, <2>2, <2>3, <2>4, <2>5 DEF IInv, TypeOK, WaiterStates,
       ProcessStates, RunStates, CloseStates, Outcomes, Receive
  <2>7. HandlerInv'
    BY <2>1, <2>2, <2>3, <2>4, <2>5, ThreadsAssumption
    DEF IInv, FunctionsOK, HandlerInv
  <2>8. KeyInv'
    BY <2>1, <2>2, <2>3, <2>4, <2>5, ThreadsAssumption DEF IInv, FunctionsOK, KeyInv
  <2>9. TrackInv'
    BY <2>1, <2>2, <2>3, <2>4, <2>5, ThreadsAssumption
    DEF IInv, FunctionsOK, TrackInv
  <2>10. WaiterInv'
    BY <2>1, <2>2, <2>3, <2>4, <2>5, ThreadsAssumption
    DEF IInv, FunctionsOK, WaiterInv, WaiterOK, DoneCapacity
  <2> QED BY <2>1, <2>2, <2>3, <2>4, <2>5, <2>6, <2>7, <2>8, <2>9, <2>10 DEF IInv
<1> QED BY <1>1, <1>2 DEF Listen

\* The steps of a child.
LEMMA ChildKeepsInvariant == ASSUME IInv, NEW i \in Instances, Child(i) PROVE IInv'
<1>1. ASSUME ChildServes(i) PROVE IInv'
  <2>1. FunctionsOK
    BY FunctionsAreOK DEF IInv
  <2>2. /\ process[i] = "booting"
        /\ process' = [process EXCEPT ![i] = "serving"]
    BY <1>1 DEF ChildServes
  <2>3. UNCHANGED <<crash, runningDeps, key, cmd, done, waiter, awaited, pc, arg, self>>
    BY <1>1 DEF ChildServes
  <2>4. TypeOK'
    BY <1>1, <2>1, <2>2, <2>3 DEF IInv, TypeOK, WaiterStates, ProcessStates,
       RunStates, CloseStates, Outcomes, ChildServes
  <2>5. HandlerInv'
    BY <2>1, <2>2, <2>3, ThreadsAssumption DEF IInv, FunctionsOK, HandlerInv
  <2>6. KeyInv'
    BY <2>1, <2>2, <2>3, ThreadsAssumption DEF IInv, FunctionsOK, KeyInv
  <2>7. TrackInv'
    BY <2>1, <2>2, <2>3, ThreadsAssumption DEF IInv, FunctionsOK, TrackInv
  <2>8. WaiterInv'
    BY <2>1, <2>2, <2>3, ThreadsAssumption DEF IInv, FunctionsOK, WaiterInv,
       WaiterOK, DoneCapacity
  <2> QED BY <2>1, <2>2, <2>3, <2>4, <2>5, <2>6, <2>7, <2>8 DEF IInv
<1>2. ASSUME ChildReplies(i) PROVE IInv'
  <2>1. pc' = pc \/ (pc = "reply" /\ pc' = "answered")
    BY <1>2 DEF ChildReplies
  <2>2. /\ asked' = asked \ {i}
        /\ UNCHANGED <<mapVars, crash, instanceVars, process, waiterVars, listenerVars,
                       binaries, arg, self, ret>>
    BY <1>2 DEF ChildReplies
  <2> QED
    BY <2>1, <2>2 DEF IInv, TypeOK, CloseStates, RunStates, HandlerInv, KeyInv,
       TrackInv, WaiterInv, WaiterOK
<1>3. ASSUME ChildExits(i) PROVE IInv'
  <2>1. FunctionsOK
    BY FunctionsAreOK DEF IInv
  <2>2. /\ process[i] \in {"booting", "serving"}
        /\ process' = [process EXCEPT ![i] = "exited"]
    BY <1>3 DEF ChildExits, Alive
  <2>3. UNCHANGED <<crash, runningDeps, key, cmd, done, waiter, awaited, pc, arg, self>>
    BY <1>3 DEF ChildExits
  <2>4. TypeOK'
    BY <1>3, <2>1, <2>2, <2>3 DEF IInv, TypeOK, WaiterStates, ProcessStates,
       RunStates, CloseStates, Outcomes, ChildExits
  <2>5. HandlerInv'
    BY <2>1, <2>2, <2>3, ThreadsAssumption DEF IInv, FunctionsOK, HandlerInv
  <2>6. KeyInv'
    BY <2>1, <2>2, <2>3, ThreadsAssumption DEF IInv, FunctionsOK, KeyInv
  <2>7. TrackInv'
    BY <2>1, <2>2, <2>3, ThreadsAssumption DEF IInv, FunctionsOK, TrackInv
  <2>8. WaiterInv'
    BY <2>1, <2>2, <2>3, ThreadsAssumption DEF IInv, FunctionsOK, WaiterInv,
       WaiterOK, DoneCapacity
  <2> QED BY <2>1, <2>2, <2>3, <2>4, <2>5, <2>6, <2>7, <2>8 DEF IInv
<1> QED BY <1>1, <1>2, <1>3 DEF Child

-----------------------------------------------------------------------------
\* IInv holds initially and is kept by every step, also by stuttering ones.
LEMMA Initialization == Init => IInv
BY ThreadsAssumption DEF Init, IInv, TypeOK, ProcessStates, WaiterStates, RunStates,
   CloseStates, Outcomes, HandlerInv, KeyInv, TrackInv, WaiterInv, WaiterOK, DoneCapacity

LEMMA Consecution == IInv /\ [Next]_vars => IInv'
<1> SUFFICES ASSUME IInv, [Next]_vars PROVE IInv'
  OBVIOUS
<1>1. ASSUME NEW id \in Ids, Running(id) PROVE IInv'
  BY <1>1, ThreadsAssumption DEF IInv, TypeOK, WaiterStates, ProcessStates,
     RunStates, CloseStates, Outcomes, HandlerInv, KeyInv, TrackInv,
     WaiterInv, WaiterOK, DoneCapacity, MapAccess, Return, Running, Heartbeat
<1>2. ASSUME NEW id \in Ids, BinaryChanges(id) PROVE IInv'
  <2>1. binaries' \subseteq Ids
    BY <1>2 DEF BinaryChanges, IInv, TypeOK
  <2> QED
    BY <1>2, <2>1 DEF BinaryChanges, IInv, TypeOK, HandlerInv, KeyInv, TrackInv,
       WaiterInv, WaiterOK
<1>3. CASE UNCHANGED vars
  BY <1>3 DEF vars, IInv, TypeOK, HandlerInv, KeyInv, TrackInv, WaiterInv, WaiterOK
<1> QED
  BY <1>1, <1>2, <1>3, RunKeepsInvariant, CloseKeepsInvariant, WaitKeepsInvariant,
     ListenKeepsInvariant, ChildKeepsInvariant DEF Next

\* However the handler, the goroutines, the listeners and the children interleave, what
\* each of them will still do agrees with the map and the channels (dev.go:291-428).
THEOREM Invariance == Spec => []IInv
BY Initialization, Consecution, PTL DEF Spec

-----------------------------------------------------------------------------
(***************************************************************************)
(* The properties of DepProcess that follow.                               *)
(***************************************************************************)
\* Every variable keeps its type, for any number of ids, runs and listeners
\* (dep_manager/dev.go:27-45).
THEOREM TypeCorrect == Spec => []TypeOK
<1>1. IInv => TypeOK
  BY DEF IInv
<1> QED BY <1>1, Invariance, PTL

\* A wait goroutine finds its child, with a cmd, at each of its lookups by id
\* (dev.go:424-425), whatever Runs, Closes and exits interleave with it.
THEOREM NeverNil == Spec => []NoNilDereference
<1>1. IInv => NoNilDereference
  BY DEF IInv, NoNilDereference
<1> QED BY <1>1, Invariance, PTL

\* A wait goroutine waits on, signals and deletes its own child only
\* (dev.go:422-427).
THEOREM OnItsOwn == Spec => []WaitsOnItsOwn
<1>1. IInv => WaitsOnItsOwn
  BY DEF IInv, WaiterInv, WaiterOK, WaitsOnItsOwn
<1> QED BY <1>1, Invariance, PTL

\* A child that is alive is in the map under its id (dev.go:364-412).
THEOREM NoOrphan == Spec => []LiveChildIsRegistered
<1>1. IInv => LiveChildIsRegistered
  <2> SUFFICES ASSUME IInv, NEW i \in Instances, Alive(i)
               PROVE  runningDeps[key[i]] = i
    BY DEF LiveChildIsRegistered
  <2>1. process[i] # "none" /\ process[i] # "exited"
    BY DEF Alive
  <2>2. CASE waiter[i] = "none"
    <3>1. pc = "track" /\ self = i /\ runningDeps[arg] = i /\ arg \in Ids
      BY <2>1, <2>2 DEF IInv, TrackInv, HandlerInv
    <3>2. key[i] = arg
      BY <3>1, ThreadsAssumption DEF IInv, KeyInv
    <3> QED BY <3>1, <3>2
  <2>3. CASE waiter[i] # "none"
    BY <2>1, <2>3 DEF IInv, WaiterInv, WaiterOK
  <2> QED BY <2>2, <2>3
<1> QED BY <1>1, Invariance, PTL

\* A signal in a done channel tells of a child that has exited, and a send
\* never finds the channel full (dev.go:104, 424-425).
THEOREM SignalsAreTrue == Spec => []SignalMeansExited
<1>1. IInv => SignalMeansExited
  <2> SUFFICES ASSUME IInv, NEW i \in Instances
               PROVE  /\ done[i] > 0 => /\ process[i] = "exited"
                                        /\ waiter[i] \in {"delete", "deleting", "ended"}
                      /\ waiter[i] = "send" => done[runningDeps[key[i]]] < DoneCapacity
    BY DEF SignalMeansExited
  <2>1. WaiterOK(i) /\ done[i] \in Nat
    BY DEF IInv, WaiterInv, TypeOK
  <2> QED BY <2>1 DEF WaiterOK, DoneCapacity
<1> QED BY <1>1, Invariance, PTL

-----------------------------------------------------------------------------
(***************************************************************************)
(* The steps that change the map, and the refinement of Supervision.       *)
(***************************************************************************)
\* Steps that do not change what StageOf looks at, and steps between places of
\* the goroutine that are the same to it, leave every attempt in its stage.
LEMMA StageIsKept ==
  (/\ UNCHANGED <<key, process>>
   /\ (pc = "start") <=> (pc' = "start")
   /\ pc = "start" => self' = self
   /\ \A i \in Instances : \/ waiter'[i] = waiter[i]
                           \/ waiter[i] = "none" /\ waiter'[i] = "wait"
                           \/ waiter[i] = "wait" /\ waiter'[i] = "waiting"
                           \/ waiter[i] = "waiting" /\ waiter'[i] = "send"
                           \/ waiter[i] = "delete" /\ waiter'[i] = "deleting")
  => stage' = stage
BY DEF stage, StageOf, Alive

\* One attempt moves to another stage.
LEMMA StageMoves ==
  ASSUME NEW i \in Instances, NEW to, StageOf(i)' = to,
         \A j \in Instances \ {i} : StageOf(j)' = StageOf(j)
  PROVE  stage' = [stage EXCEPT ![i] = to]
BY DEF stage

\* The insertion of Run claims the id, and its end decides the attempt.
LEMMA RunRefines == ASSUME IInv, Run PROVE [Abstract!Next]_(Abstract!vars)
<1>t. FunctionsOK
  BY FunctionsAreOK DEF IInv
<1>1. ASSUME NEW id \in Ids, RunLookup(id) PROVE UNCHANGED <<runningDeps, stage>>
  <2>1. pc = "idle" /\ pc' \in {"idle", "installed"} /\ UNCHANGED <<runningDeps, key, process, waiter>>
    BY <1>1 DEF RunLookup, Return
  <2> QED BY <2>1, StageIsKept
<1>2. ASSUME RunNoBinary \/ (\E i \in Instances : RunCopy(i)) \/ RunInsertBegin
      PROVE UNCHANGED <<runningDeps, stage>>
  <2>1. /\ pc \in {"installed", "insert"} /\ pc' \in {"idle", "insert", "inserting"}
        /\ UNCHANGED <<runningDeps, key, process, waiter>>
    BY <1>2 DEF RunNoBinary, RunCopy, RunInsertBegin, Return
  <2> QED BY <2>1, StageIsKept
<1>3. ASSUME RunInsertEnd PROVE Abstract!Claim(arg, self) /\ arg \in Ids /\ self \in Instances
  <2>1. arg \in Ids /\ self \in Instances /\ arg # None /\ self # None
    BY <1>3, RunHoldsInstance DEF RunInsertEnd
  <2>2. /\ runningDeps[arg] = None /\ key[self] = None /\ process[self] = "none"
        /\ pc = "inserting"
    BY <1>3, <2>1 DEF IInv, HandlerInv, KeyInv, RunInsertEnd
  <2>3. /\ runningDeps' = [runningDeps EXCEPT ![arg] = self]
        /\ key' = [key EXCEPT ![self] = arg] /\ pc' = "start"
        /\ UNCHANGED <<process, waiter, self>>
    BY <1>3 DEF RunInsertEnd
  <2>4. stage[self] = "fresh"
    BY <2>1, <2>2 DEF stage, StageOf
  <2>i. PICK i \in Instances : i = self
    BY <2>1
  <2>5. stage' = [stage EXCEPT ![i] = "claimed"]
    <3>1. StageOf(i)' = "claimed"
      BY <1>t, <2>i, <2>1, <2>2, <2>3 DEF StageOf, Alive, FunctionsOK
    <3>2. \A j \in Instances \ {i} : StageOf(j)' = StageOf(j)
      BY <1>t, <2>i, <2>1, <2>2, <2>3 DEF StageOf, Alive, FunctionsOK
    <3> QED BY <2>1, <3>1, <3>2, StageMoves
  <2> QED BY <2>i, <2>1, <2>2, <2>3, <2>4, <2>5 DEF Abstract!Claim, Abstract!Advance
<1>4. ASSUME RunStart PROVE Abstract!Launch(self) /\ self \in Instances
  <2>1. self \in Instances /\ key[self] # None /\ process[self] = "none" /\ pc = "start"
    BY <1>4, ThreadsAssumption DEF IInv, HandlerInv, KeyInv, RunStart
  <2>2. /\ process' = [process EXCEPT ![self] = "booting"] /\ pc' = "track"
        /\ UNCHANGED <<runningDeps, key, waiter, self>>
    BY <1>4 DEF RunStart
  <2>3. stage[self] = "claimed"
    BY <2>1 DEF stage, StageOf, Alive
  <2>i. PICK i \in Instances : i = self
    BY <2>1
  <2>4. stage' = [stage EXCEPT ![i] = "live"]
    <3>1. StageOf(i)' = "live"
      BY <1>t, <2>i, <2>1, <2>2 DEF StageOf, Alive, FunctionsOK
    <3>2. \A j \in Instances \ {i} : StageOf(j)' = StageOf(j)
      BY <1>t, <2>i, <2>1, <2>2 DEF StageOf, Alive, FunctionsOK
    <3> QED BY <2>1, <3>1, <3>2, StageMoves
  <2> QED BY <2>i, <2>1, <2>2, <2>3, <2>4 DEF Abstract!Launch, Abstract!Advance
<1>5. ASSUME RunStartFails PROVE Abstract!Abort(self) /\ self \in Instances
  <2>1. self \in Instances /\ key[self] # None /\ process[self] = "none" /\ pc = "start"
    BY <1>5, ThreadsAssumption DEF IInv, HandlerInv, KeyInv, RunStartFails
  <2>2. pc' = "idle" /\ UNCHANGED <<runningDeps, key, process, waiter>>
    BY <1>5 DEF RunStartFails, Return
  <2>3. stage[self] = "claimed"
    BY <2>1 DEF stage, StageOf, Alive
  <2>i. PICK i \in Instances : i = self
    BY <2>1
  <2>4. stage' = [stage EXCEPT ![i] = "failed"]
    <3>1. StageOf(i)' = "failed"
      BY <1>t, <2>i, <2>1, <2>2 DEF StageOf, Alive, FunctionsOK
    <3>2. \A j \in Instances \ {i} : StageOf(j)' = StageOf(j)
      BY <1>t, <2>i, <2>1, <2>2 DEF StageOf, Alive, FunctionsOK
    <3> QED BY <2>1, <3>1, <3>2, StageMoves
  <2> QED BY <2>i, <2>1, <2>2, <2>3, <2>4 DEF Abstract!Abort, Abstract!Advance
<1>6. ASSUME RunTrack PROVE UNCHANGED <<runningDeps, stage>>
  <2>1. self \in Instances /\ waiter[self] = "none"
    BY <1>6, ThreadsAssumption DEF IInv, HandlerInv, RunTrack
  <2>2. /\ pc = "track" /\ pc' = "idle" /\ waiter' = [waiter EXCEPT ![self] = "wait"]
        /\ UNCHANGED <<runningDeps, key, process>>
    BY <1>6 DEF RunTrack, Return
  <2>3. \A i \in Instances : \/ waiter'[i] = waiter[i]
                             \/ waiter[i] = "none" /\ waiter'[i] = "wait"
    BY <1>t, <2>1, <2>2 DEF FunctionsOK
  <2> QED BY <2>2, <2>3, StageIsKept
<1> QED BY <1>1, <1>2, <1>3, <1>4, <1>5, <1>6 DEF Run, Abstract!Next, Abstract!vars

\* A goroutine reports and reaps its own attempt.
LEMMA WaitRefines ==
  ASSUME IInv, NEW i \in Instances, Wait(i) PROVE [Abstract!Next]_(Abstract!vars)
<1>t. FunctionsOK /\ WaiterOK(i)
  BY FunctionsAreOK DEF IInv, WaiterInv
<1>g. key[i] \in Ids /\ i # None /\ cmd[i]
  BY GoroutineHasChild DEF Wait, WaitLookup, WaitReturns, WaitSend, WaitDeleteBegin,
     WaitDeleteEnd
<1>k. key[i] # None
  BY <1>g, ThreadsAssumption
<1>1. ASSUME WaitLookup(i) \/ WaitReturns(i) \/ WaitDeleteBegin(i)
      PROVE UNCHANGED <<runningDeps, stage>>
  <2>1. /\ UNCHANGED <<runningDeps, key, process, pc, self>>
        /\ \/ waiter[i] = "wait" /\ waiter' = [waiter EXCEPT ![i] = "waiting"]
           \/ waiter[i] = "waiting" /\ waiter' = [waiter EXCEPT ![i] = "send"]
           \/ waiter[i] = "delete" /\ waiter' = [waiter EXCEPT ![i] = "deleting"]
    BY <1>1, <1>t, <1>g DEF WaitLookup, WaitReturns, WaitDeleteBegin, WaiterOK
  <2>2. \A j \in Instances : \/ waiter'[j] = waiter[j]
                             \/ waiter[j] = "wait" /\ waiter'[j] = "waiting"
                             \/ waiter[j] = "waiting" /\ waiter'[j] = "send"
                             \/ waiter[j] = "delete" /\ waiter'[j] = "deleting"
    BY <1>t, <2>1 DEF FunctionsOK
  <2> QED BY <2>1, <2>2, StageIsKept
<1>2. ASSUME WaitSend(i) PROVE Abstract!Report(i)
  <2>1. /\ waiter[i] = "send" /\ process[i] = "exited" /\ runningDeps[key[i]] = i
        /\ waiter' = [waiter EXCEPT ![i] = "delete"]
        /\ UNCHANGED <<runningDeps, key, process, pc, self>>
    BY <1>2, <1>t, <1>g DEF WaitSend, WaiterOK
  <2>2. stage[i] = "dead"
    BY <1>k, <2>1 DEF stage, StageOf, Alive
  <2>3. stage' = [stage EXCEPT ![i] = "reported"]
    <3>1. StageOf(i)' = "reported"
      BY <1>t, <1>k, <2>1 DEF StageOf, Alive, FunctionsOK
    <3>2. \A j \in Instances \ {i} : StageOf(j)' = StageOf(j)
      BY <1>t, <1>k, <2>1 DEF StageOf, Alive, FunctionsOK
    <3> QED BY <2>1, <3>1, <3>2, StageMoves
  <2> QED BY <2>1, <2>2, <2>3 DEF Abstract!Report, Abstract!Advance
<1>3. ASSUME WaitDeleteEnd(i) PROVE Abstract!Reap(key[i], i)
  <2>1. /\ waiter[i] = "deleting" /\ process[i] = "exited" /\ runningDeps[key[i]] = i
        /\ runningDeps' = [runningDeps EXCEPT ![key[i]] = None]
        /\ waiter' = [waiter EXCEPT ![i] = "ended"]
        /\ UNCHANGED <<key, process, pc, self>>
    BY <1>3, <1>t DEF WaitDeleteEnd, WaiterOK
  <2>2. stage[i] = "reported"
    BY <1>k, <2>1 DEF stage, StageOf, Alive
  <2>3. stage' = [stage EXCEPT ![i] = "reaped"]
    <3>1. StageOf(i)' = "reaped"
      BY <1>t, <1>k, <2>1 DEF StageOf, Alive, FunctionsOK
    <3>2. \A j \in Instances \ {i} : StageOf(j)' = StageOf(j)
      BY <1>t, <1>k, <2>1 DEF StageOf, Alive, FunctionsOK
    <3> QED BY <2>1, <3>1, <3>2, StageMoves
  <2> QED BY <2>1, <2>2, <2>3 DEF Abstract!Reap, Abstract!Advance
<1> QED BY <1>1, <1>2, <1>3, <1>g DEF Wait, Abstract!Next, Abstract!vars

\* A child dies once; everything else it does is invisible.
LEMMA ChildRefines ==
  ASSUME IInv, NEW i \in Instances, Child(i) PROVE [Abstract!Next]_(Abstract!vars)
<1>t. FunctionsOK /\ WaiterOK(i)
  BY FunctionsAreOK DEF IInv, WaiterInv
<1>1. ASSUME ChildReplies(i) PROVE UNCHANGED <<runningDeps, stage>>
  <2>1. /\ UNCHANGED <<runningDeps, key, process, waiter, self>>
        /\ (pc = "start") <=> (pc' = "start")
    BY <1>1 DEF ChildReplies
  <2> QED BY <2>1, StageIsKept
<1>2. ASSUME ChildServes(i) PROVE UNCHANGED <<runningDeps, stage>>
  <2>1. /\ process[i] = "booting" /\ process' = [process EXCEPT ![i] = "serving"]
        /\ UNCHANGED <<runningDeps, key, waiter, pc, self>>
    BY <1>2 DEF ChildServes
  <2> QED BY <1>t, <2>1 DEF stage, StageOf, Alive, FunctionsOK
<1>3. ASSUME ChildExits(i) PROVE Abstract!Die(i)
  <2>1. /\ Alive(i) /\ process' = [process EXCEPT ![i] = "exited"]
        /\ UNCHANGED <<runningDeps, key, waiter, pc, self>>
    BY <1>3 DEF ChildExits
  <2>2. key[i] # None /\ waiter[i] \notin {"delete", "deleting", "ended"}
    BY <1>t, <2>1 DEF IInv, KeyInv, WaiterOK, Alive
  <2>3. stage[i] = "live"
    BY <2>1, <2>2 DEF stage, StageOf, Alive
  <2>4. stage' = [stage EXCEPT ![i] = "dead"]
    <3>1. StageOf(i)' = "dead"
      BY <1>t, <2>1, <2>2 DEF StageOf, Alive, FunctionsOK
    <3>2. \A j \in Instances \ {i} : StageOf(j)' = StageOf(j)
      BY <1>t, <2>1, <2>2 DEF StageOf, Alive, FunctionsOK
    <3> QED BY <2>1, <3>1, <3>2, StageMoves
  <2> QED BY <2>1, <2>3, <2>4 DEF Abstract!Die, Abstract!Advance
<1> QED BY <1>1, <1>2, <1>3 DEF Child, Abstract!Next, Abstract!vars

\* Close, Running, the listeners and the changes of the binaries are invisible.
LEMMA OthersRefine ==
  ASSUME \/ Close
         \/ \E id \in Ids : Running(id) \/ BinaryChanges(id)
         \/ \E l \in Listeners : Listen(l)
  PROVE  UNCHANGED <<runningDeps, stage>>
<1>1. /\ UNCHANGED <<runningDeps, key, process, waiter>>
      /\ (pc = "start") <=> (pc' = "start")
      /\ pc = "start" => self' = self
  BY DEF Close, CloseCheck, CloseRequest, CloseNoSocket, CloseAnswered,
     CloseTimeout,
     CloseVerify, Running, BinaryChanges, Listen, OnStop, Receive, Return
<1> QED BY <1>1, StageIsKept

LEMMA NextRefines == IInv /\ [Next]_vars => [Abstract!Next]_(Abstract!vars)
<1> SUFFICES ASSUME IInv, [Next]_vars PROVE [Abstract!Next]_(Abstract!vars)
  OBVIOUS
<1>1. CASE UNCHANGED vars
  BY <1>1 DEF vars, stage, StageOf, Alive, Abstract!vars
<1>2. CASE Next
  BY <1>2, RunRefines, WaitRefines, ChildRefines, OthersRefine
  DEF Next, Abstract!vars
<1> QED BY <1>1, <1>2

\* The manager with its goroutines implements Supervision (dev.go:356-428).
THEOREM ImplementsSupervision == Spec => Implements
<1>1. Init => Abstract!Init
  BY DEF Init, stage, StageOf, Abstract!Init
<1> QED BY <1>1, NextRefines, Invariance, PTL DEF Spec, Implements, Abstract!Spec

-----------------------------------------------------------------------------
(***************************************************************************)
(* Supervision implements Lifecycle (module SupervisionProofs); hence      *)
(* DepProcess does.  The two instances of Supervision say the same.        *)
(***************************************************************************)
Promises == INSTANCE SupervisionProofs WITH owner <- runningDeps, stage <- stage

LEMMA SameSupervision == Abstract!Spec => Promises!Spec
BY DEF Abstract!Spec, Abstract!Init, Abstract!Next, Abstract!vars, Abstract!Claim,
   Abstract!Abort, Abstract!Launch, Abstract!Die, Abstract!Report, Abstract!Reap,
   Abstract!Advance,
   Promises!Spec, Promises!Init, Promises!Next, Promises!vars, Promises!Claim,
   Promises!Abort, Promises!Launch, Promises!Die, Promises!Report, Promises!Reap,
   Promises!Advance

LEMMA SameLifecycle == Promises!Children!Spec => Abstract!Children!Spec
BY DEF Promises!Children!Spec, Promises!Children!Init, Promises!Children!Next,
   Promises!Children!Start, Promises!Children!StartFails, Promises!Children!End,
   Promises!Children!Note, Promises!Children!Becomes, Promises!StatusOf,
   Abstract!Children!Spec, Abstract!Children!Init, Abstract!Children!Next,
   Abstract!Children!Start, Abstract!Children!StartFails, Abstract!Children!End,
   Abstract!Children!Note, Abstract!Children!Becomes, Abstract!StatusOf

\* All that the callers of the manager see of an id is its status in Lifecycle, with
\* one child at a time (dev.go:356-428).
THEOREM ChildrenLive == Spec => ImplementsLifecycle
<1>1. Promises!Spec => Promises!ImplementsLifecycle
  BY Promises!SupervisionLives
<1>2. Promises!ImplementsLifecycle => Abstract!ImplementsLifecycle
  BY SameLifecycle DEF Promises!ImplementsLifecycle, Abstract!ImplementsLifecycle
<1> QED
  BY <1>1, <1>2, ImplementsSupervision, SameSupervision DEF Implements, ImplementsLifecycle

\* The entry of a child in the map is neither replaced nor removed before the
\* child has exited (dev.go:364-367, 392, 426): a step that changes an entry
\* is a claim of a free id or a reap, as in Supervision.
THEOREM EntriesOutliveChildren == Spec => EntryOutlivesChild
<1> DEFINE Kept(id) ==
      LET i == runningDeps[id] IN
        i # None /\ runningDeps'[id] # i =>
          runningDeps'[id] = None /\ process[i] = "exited"
<1>1. ASSUME IInv, [Next]_vars, NEW id \in Ids PROVE Kept(id)
  <2>f. FunctionsOK
    BY <1>1, FunctionsAreOK DEF IInv
  <2>1. CASE \E j \in Instances, x \in Ids : Abstract!Claim(x, j)
    BY <2>f, <2>1 DEF Abstract!Claim, FunctionsOK
  <2>2. CASE \E j \in Instances, x \in Ids : Abstract!Reap(x, j)
    <3> PICK j \in Instances, x \in Ids : Abstract!Reap(x, j)
      BY <2>2
    <3>1. runningDeps[x] = j /\ runningDeps' = [runningDeps EXCEPT ![x] = None]
      BY DEF Abstract!Reap
    <3>2. StageOf(j) = "reported"
      BY DEF Abstract!Reap, Abstract!Advance, stage
    <3>3. process[j] = "exited"
      BY <2>f, <3>2 DEF StageOf, Alive, FunctionsOK, ProcessStates
    <3> QED BY <2>f, <3>1, <3>3 DEF FunctionsOK
  <2>3. CASE UNCHANGED runningDeps
    BY <2>3
  <2> QED
    BY <1>1, <2>1, <2>2, <2>3, NextRefines
    DEF Abstract!Next, Abstract!vars, Abstract!Abort, Abstract!Launch, Abstract!Die,
        Abstract!Report
<1>2. IInv /\ [Next]_vars => [\A id \in Ids : Kept(id)]_vars
  BY <1>1
<1> QED BY <1>2, Invariance, PTL DEF Spec, EntryOutlivesChild
=============================================================================

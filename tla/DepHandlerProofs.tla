--------------------------- MODULE DepHandlerProofs ---------------------------
(***************************************************************************)
(* Proofs about DepHandler, for any clients, calls, attempts and           *)
(* dependencies.                                                           *)
(***************************************************************************)
EXTENDS DepHandler, SequenceTheorems, TLAPS

WorldTyped ==
  /\ entry \in [Deps -> {"none", "made", "tracked"}]
  /\ live \in [Deps -> Nat] /\ ended \in [Deps -> Nat]

\* One request at a time is served.
OneServed ==
  /\ halfway \subseteq serving
  /\ \A m, n \in serving : m = n

\* A dependency has an entry that is tracked exactly while it has one child,
\* alive or ended and not handled.
EntryInv ==
  \A d \in Deps :
    \/ entry[d] = "tracked" /\ live[d] + ended[d] = 1
    \/ entry[d] # "tracked" /\ live[d] = 0 /\ ended[d] = 0

\* What Run has looked up is still so when it makes the entry.
LookupInv == \A m \in halfway : m.op = "run" => entry[m.dep] = "none"

IInv == WorldTyped /\ OneServed /\ EntryInv /\ LookupInv

-----------------------------------------------------------------------------
LEMMA InitIInv == Init => IInv
<1> SUFFICES ASSUME Init PROVE IInv
  OBVIOUS
<1>1. WorldTyped BY DEF Init, WorldTyped
<1>2. OneServed /\ LookupInv BY DEF Init, OneServed, LookupInv
<1>3. EntryInv BY DEF Init, EntryInv
<1> QED BY <1>1, <1>2, <1>3 DEF IInv

\* The steps that change neither the children nor what is served.
LEMMA OutsideStep ==
  ASSUME IInv, UNCHANGED <<serving, halfway, entry, live, ended>>
  PROVE  IInv'
BY DEF IInv, WorldTyped, OneServed, EntryInv, LookupInv

LEMMA ClientStep == ASSUME IInv, NEW c \in Clients, Client(c) PROVE IInv'
<1>1. UNCHANGED <<serving, halfway, entry, live, ended>>
  BY DEF Client, Submit, Request, Resend, GiveUp, worldVars, handlerVars
<1> QED BY <1>1, OutsideStep

LEMMA TakeStep ==
  ASSUME IInv, NEW c \in Clients, NEW k \in DOMAIN inbox[c], Take(c, k)
  PROVE  IInv'
BY DEF Take, IInv, WorldTyped, OneServed, EntryInv, LookupInv, worldVars

\* The handler is through with a request that changed no child.
LEMMA ReplyStep ==
  ASSUME IInv, NEW m \in serving, NEW outcome, Reply(m, outcome),
         UNCHANGED <<entry, live, ended>>
  PROVE  IInv'
<1>1. serving' = serving \ {m} /\ halfway' = halfway \ {m}
  BY DEF Reply
<1> QED BY <1>1 DEF IInv, WorldTyped, OneServed, EntryInv, LookupInv

LEMMA LaunchStep == ASSUME IInv, NEW m \in serving, Launch(m) PROVE IInv'
<1>1. /\ m \in halfway /\ m.op = "run"
      /\ entry' = [entry EXCEPT ![m.dep] = "tracked"]
      /\ live' = [live EXCEPT ![m.dep] = @ + 1]
      /\ ended' = ended
      /\ serving' = serving \ {m} /\ halfway' = halfway \ {m}
  BY DEF Launch, Reply
<1>2. entry[m.dep] = "none" BY <1>1 DEF IInv, LookupInv
<1>3. halfway' = {} BY <1>1 DEF IInv, OneServed
<1>4. WorldTyped'
  <2>1. live' \in [Deps -> Nat]
    <3>1. CASE m.dep \in Deps
      <4>1. live[m.dep] + 1 \in Nat BY <3>1 DEF IInv, WorldTyped
      <4> QED BY <1>1, <4>1 DEF IInv, WorldTyped
    <3>2. CASE m.dep \notin Deps
      BY <1>1, <3>2 DEF IInv, WorldTyped
    <3> QED BY <3>1, <3>2
  <2> QED BY <1>1, <2>1 DEF IInv, WorldTyped
<1>5. OneServed' BY <1>1 DEF IInv, OneServed
<1>6. EntryInv'
  <2> SUFFICES ASSUME NEW d \in Deps
               PROVE  \/ entry'[d] = "tracked" /\ live'[d] + ended'[d] = 1
                      \/ entry'[d] # "tracked" /\ live'[d] = 0 /\ ended'[d] = 0
    BY DEF EntryInv
  <2>1. CASE d = m.dep
    <3>1. live[d] = 0 /\ ended[d] = 0 BY <1>2, <2>1 DEF IInv, EntryInv
    <3> QED BY <1>1, <2>1, <3>1 DEF IInv, WorldTyped
  <2>2. CASE d # m.dep
    BY <1>1, <2>2 DEF IInv, WorldTyped, EntryInv
  <2> QED BY <2>1, <2>2
<1>7. LookupInv' BY <1>3 DEF LookupInv
<1> QED BY <1>4, <1>5, <1>6, <1>7 DEF IInv

LEMMA LaunchFailsStep == ASSUME IInv, NEW m \in serving, LaunchFails(m) PROVE IInv'
<1>1. /\ m \in halfway /\ m.op = "run"
      /\ entry' = [entry EXCEPT ![m.dep] = "made"]
      /\ live' = live /\ ended' = ended
      /\ serving' = serving \ {m} /\ halfway' = halfway \ {m}
  BY DEF LaunchFails, Reply
<1>2. entry[m.dep] = "none" BY <1>1 DEF IInv, LookupInv
<1>3. halfway' = {} BY <1>1 DEF IInv, OneServed
<1>4. WorldTyped' BY <1>1 DEF IInv, WorldTyped
<1>5. OneServed' BY <1>1 DEF IInv, OneServed
<1>6. EntryInv' BY <1>1, <1>2 DEF IInv, WorldTyped, EntryInv
<1>7. LookupInv' BY <1>3 DEF LookupInv
<1> QED BY <1>4, <1>5, <1>6, <1>7 DEF IInv

LEMMA ServeStep == ASSUME IInv, NEW m \in serving, Serve(m) PROVE IInv'
<1>1. CASE onRunDep(m)
  BY <1>1 DEF onRunDep, IInv, WorldTyped, OneServed, EntryInv, LookupInv, worldVars
<1>2. CASE Launch(m) BY <1>2, LaunchStep
<1>3. CASE LaunchFails(m) BY <1>3, LaunchFailsStep
<1>4. CASE onCloseDep(m)
  <2>1. CASE Reply(m, "ok")
    BY <1>4, <2>1, ReplyStep DEF onCloseDep, worldVars
  <2>2. CASE halfway' = halfway \cup {m} /\ UNCHANGED serving
    BY <1>4, <2>2
    DEF onCloseDep, IInv, WorldTyped, OneServed, EntryInv, LookupInv, worldVars
  <2> QED BY <1>4, <2>1, <2>2 DEF onCloseDep
<1>5. CASE CloseEnds(m)
  BY <1>5, ReplyStep DEF CloseEnds, worldVars
<1>6. CASE onDepInstalled(m)
  BY <1>6, ReplyStep DEF onDepInstalled, worldVars
<1>7. CASE onDepRunning(m)
  BY <1>7, ReplyStep DEF onDepRunning, worldVars
<1>8. CASE onInstallDep(m) \/ onUninstallDep(m)
  BY <1>8, ReplyStep DEF onInstallDep, onUninstallDep
<1>9. CASE Refuse(m)
  BY <1>9, ReplyStep DEF Refuse, worldVars
<1> QED BY <1>1, <1>2, <1>3, <1>4, <1>5, <1>6, <1>7, <1>8, <1>9 DEF Serve

LEMMA WorldStep == ASSUME IInv, World PROVE IInv'
<1>1. PICK d \in Deps : ChildEnds(d) \/ EndHandled(d) BY DEF World
<1>2. UNCHANGED <<serving, halfway>>
  BY <1>1 DEF ChildEnds, EndHandled, handlerVars
<1>3. CASE ChildEnds(d)
  <2>1. /\ live[d] > 0 /\ entry' = entry
        /\ live' = [live EXCEPT ![d] = @ - 1] /\ ended' = [ended EXCEPT ![d] = @ + 1]
    BY <1>3 DEF ChildEnds
  <2>2. WorldTyped' BY <2>1 DEF IInv, WorldTyped
  <2>3. EntryInv' BY <2>1 DEF IInv, WorldTyped, EntryInv
  <2> QED BY <1>2, <2>1, <2>2, <2>3 DEF IInv, OneServed, LookupInv
<1>4. CASE EndHandled(d)
  <2>1. /\ ended[d] > 0 /\ live' = live
        /\ ended' = [ended EXCEPT ![d] = @ - 1] /\ entry' = [entry EXCEPT ![d] = "none"]
    BY <1>4 DEF EndHandled
  <2>2. WorldTyped' BY <2>1 DEF IInv, WorldTyped
  <2>3. EntryInv'
    <3> SUFFICES ASSUME NEW x \in Deps
                 PROVE  \/ entry'[x] = "tracked" /\ live'[x] + ended'[x] = 1
                        \/ entry'[x] # "tracked" /\ live'[x] = 0 /\ ended'[x] = 0
      BY DEF EntryInv
    <3>1. live[d] \in Nat /\ ended[d] \in Nat BY DEF IInv, WorldTyped
    <3>2. live[d] = 0 /\ ended[d] = 1 BY <2>1, <3>1 DEF IInv, EntryInv
    <3>3. CASE x = d BY <2>1, <3>2, <3>3 DEF IInv, WorldTyped
    <3>4. CASE x # d BY <2>1, <3>4 DEF IInv, WorldTyped, EntryInv
    <3> QED BY <3>3, <3>4
  <2>4. LookupInv'
    <3> SUFFICES ASSUME NEW m \in halfway, m.op = "run" PROVE entry'[m.dep] = "none"
      BY <1>2 DEF LookupInv
    <3>1. entry[m.dep] = "none" BY DEF IInv, LookupInv
    <3>2. entry \in [Deps -> {"none", "made", "tracked"}] BY DEF IInv, WorldTyped
    <3> QED BY <2>1, <3>1, <3>2
  <2> QED BY <1>2, <2>2, <2>3, <2>4 DEF IInv, OneServed
<1> QED BY <1>1, <1>3, <1>4

LEMMA Inductive == IInv /\ [Next]_vars => IInv'
<1> SUFFICES ASSUME IInv, [Next]_vars PROVE IInv'
  OBVIOUS
<1>1. CASE Next
  BY <1>1, ClientStep, TakeStep, ServeStep, WorldStep DEF Next, Handler
<1>2. CASE UNCHANGED vars
  BY <1>2, OutsideStep DEF vars, handlerVars, worldVars
<1> QED BY <1>1, <1>2

\* IInv holds in every reachable state.
THEOREM Invariant == Spec => []IInv
BY InitIInv, Inductive, PTL DEF Spec

-----------------------------------------------------------------------------
\* However many clients send Run, and however often, a dependency has at most one
\* child, and an entry as long as it has (dep_handler/dev.go:34).
THEOREM AtMostOneChild == Spec => []OneChild
<1>1. IInv => OneChild
  <2> SUFFICES ASSUME IInv, NEW d \in Deps
               PROVE  live[d] <= 1 /\ (live[d] = 1 => entry[d] = "tracked")
    BY DEF OneChild
  <2>1. live[d] \in Nat /\ ended[d] \in Nat BY DEF IInv, WorldTyped
  <2> QED BY <2>1 DEF IInv, EntryInv
<1> QED BY <1>1, Invariant, PTL

-----------------------------------------------------------------------------
(***************************************************************************)
(* The children live as module Lifecycle says.                             *)
(***************************************************************************)
\* The status is read off the entry and the children, of which there is one.
LEMMA StatusIs ==
  ASSUME IInv, NEW d \in Deps
  PROVE  /\ entry[d] = "none" => StatusOf(d) = "free"
         /\ entry[d] = "made" => StatusOf(d) = "lost"
         /\ live[d] = 1 => StatusOf(d) = "alive"
         /\ ended[d] = 1 => StatusOf(d) = "ended"
<1>1. live[d] \in Nat /\ ended[d] \in Nat BY DEF IInv, WorldTyped
<1> QED BY <1>1 DEF IInv, EntryInv, StatusOf

\* One dependency moves from a status to another, and no other does.
LEMMA StatusMoves ==
  ASSUME NEW d \in Deps, NEW from, NEW to, StatusOf(d) = from, StatusOf(d)' = to,
         \A x \in Deps \ {d} : StatusOf(x)' = StatusOf(x)
  PROVE  Children!Becomes(d, from, to)
BY DEF Children!Becomes

LEMMA StatusKept ==
  ASSUME UNCHANGED <<entry, live, ended>>
  PROVE  UNCHANGED [d \in Deps |-> StatusOf(d)]
BY DEF StatusOf

\* The end of a Run starts a child of a dependency that had none, or loses it.
LEMMA RunLives ==
  ASSUME IInv, IInv', NEW m \in serving, Launch(m) \/ LaunchFails(m)
  PROVE  [Children!Next]_[d \in Deps |-> StatusOf(d)]
<1>1. m.op = "run" /\ m \in halfway BY DEF Launch, LaunchFails
<1>2. entry[m.dep] = "none" BY <1>1 DEF IInv, LookupInv
<1>3. CASE m.dep \notin Deps
  <2>1. UNCHANGED <<entry, live, ended>>
    BY <1>3 DEF Launch, LaunchFails, IInv, WorldTyped
  <2> QED BY <2>1, StatusKept
<1>4. CASE m.dep \in Deps
  <2>1. live[m.dep] = 0 /\ ended[m.dep] = 0 /\ StatusOf(m.dep) = "free"
    BY <1>2, <1>4, StatusIs DEF IInv, EntryInv
  <2>2. \A x \in Deps \ {m.dep} : StatusOf(x)' = StatusOf(x)
    BY DEF Launch, LaunchFails, StatusOf, IInv, WorldTyped
  <2>3. CASE Launch(m)
    <3>1. live'[m.dep] = 1 BY <1>4, <2>1, <2>3 DEF Launch, IInv, WorldTyped
    <3>2. StatusOf(m.dep)' = "alive" BY <3>1 DEF StatusOf
    <3> QED BY <1>4, <2>1, <2>2, <3>2, StatusMoves DEF Children!Next, Children!Start
  <2>4. CASE LaunchFails(m)
    <3>1. entry'[m.dep] = "made" /\ live'[m.dep] = 0 /\ ended'[m.dep] = 0
      BY <1>4, <2>1, <2>4 DEF LaunchFails, IInv, WorldTyped
    <3>2. StatusOf(m.dep)' = "lost" BY <3>1 DEF StatusOf
    <3> QED BY <1>4, <2>1, <2>2, <3>2, StatusMoves DEF Children!Next, Children!StartFails
  <2> QED BY <2>3, <2>4
<1> QED BY <1>3, <1>4

\* A child ends, and its end is handled.
LEMMA WorldLives ==
  ASSUME IInv, World PROVE [Children!Next]_[d \in Deps |-> StatusOf(d)]
<1>1. PICK d \in Deps : ChildEnds(d) \/ EndHandled(d) BY DEF World
<1>2. /\ live \in [Deps -> Nat] /\ ended \in [Deps -> Nat]
      /\ entry \in [Deps -> {"none", "made", "tracked"}]
  BY DEF IInv, WorldTyped
<1>3. \A x \in Deps \ {d} : StatusOf(x)' = StatusOf(x)
  BY <1>1, <1>2 DEF ChildEnds, EndHandled, StatusOf
<1>4. CASE ChildEnds(d)
  <2>1. live[d] = 1 /\ ended[d] = 0 BY <1>2, <1>4 DEF ChildEnds, IInv, EntryInv
  <2>2. live'[d] = 0 /\ ended'[d] = 1 BY <1>2, <1>4, <2>1 DEF ChildEnds
  <2>3. StatusOf(d) = "alive" /\ StatusOf(d)' = "ended" BY <2>1, <2>2 DEF StatusOf
  <2> QED BY <1>3, <2>3, StatusMoves DEF Children!Next, Children!End
<1>5. CASE EndHandled(d)
  <2>1. live[d] = 0 /\ ended[d] = 1 BY <1>2, <1>5 DEF EndHandled, IInv, EntryInv
  <2>2. live'[d] = 0 /\ ended'[d] = 0 /\ entry'[d] = "none"
    BY <1>2, <1>5, <2>1 DEF EndHandled
  <2>3. StatusOf(d) = "ended" /\ StatusOf(d)' = "free" BY <2>1, <2>2 DEF StatusOf
  <2> QED BY <1>3, <2>3, StatusMoves DEF Children!Next, Children!Note
<1> QED BY <1>1, <1>4, <1>5

LEMMA NextLives ==
  ASSUME IInv, IInv', [Next]_vars PROVE [Children!Next]_[d \in Deps |-> StatusOf(d)]
<1>1. CASE UNCHANGED vars BY <1>1, StatusKept DEF vars, worldVars
<1>2. CASE \E c \in Clients : Client(c)
  <2>1. UNCHANGED <<entry, live, ended>>
    BY <1>2 DEF Client, Submit, Request, Resend, GiveUp, worldVars
  <2> QED BY <2>1, StatusKept
<1>3. CASE \E c \in Clients : \E k \in DOMAIN inbox[c] : Take(c, k)
  <2>1. UNCHANGED <<entry, live, ended>> BY <1>3 DEF Take, worldVars
  <2> QED BY <2>1, StatusKept
<1>4. CASE \E m \in serving : Serve(m)
  <2>1. PICK m \in serving : Serve(m) BY <1>4
  <2>2. CASE Launch(m) \/ LaunchFails(m) BY <2>2, RunLives
  <2>3. CASE ~(Launch(m) \/ LaunchFails(m))
    <3>1. UNCHANGED <<entry, live, ended>>
      BY <2>1, <2>3 DEF Serve, onDepInstalled, onDepRunning, onInstallDep, onUninstallDep,
         onRunDep, onCloseDep, CloseEnds, Refuse, worldVars
    <3> QED BY <3>1, StatusKept
  <2> QED BY <2>2, <2>3
<1>5. CASE World BY <1>5, WorldLives
<1> QED BY <1>1, <1>2, <1>3, <1>4, <1>5 DEF Next, Handler

\* However requests are repeated, late or overtaken, a child is started only when
\* there is none and the end of the last was handled (dep_manager/dev.go:364-428):
\* the handler over its manager implements Lifecycle.
THEOREM ChildrenLive == Spec => ImplementsLifecycle
<1>1. Init => Children!Init
  <2> SUFFICES ASSUME Init, NEW d \in Deps PROVE StatusOf(d) \in {"free", "alive"}
    BY DEF Children!Init
  <2>1. live[d] \in 0..1 /\ ended[d] = 0 /\ entry[d] = (IF live[d] = 1 THEN "tracked" ELSE "none")
    BY DEF Init
  <2> QED BY <2>1 DEF StatusOf
<1>2. IInv /\ IInv' /\ [Next]_vars => [Children!Next]_[d \in Deps |-> StatusOf(d)]
  BY NextLives
<1> QED BY <1>1, <1>2, Invariant, PTL DEF Spec, ImplementsLifecycle, Children!Spec

-----------------------------------------------------------------------------
(***************************************************************************)
(* The requests: their types, which of them a client still waits for, and  *)
(* what an answer tells it.                                                *)
(***************************************************************************)
\* A message whose reply c takes if it waits: it came from the socket c uses.
Heeded(c, m) == m.client = c /\ m.socket = socket[c] /\ m.op # "uninstall"

\* Each client has an inbox of its own, and messages from sockets it has opened.
SocketInv ==
  /\ \A c \in Clients : \A k \in DOMAIN inbox[c] :
       inbox[c][k].client = c /\ inbox[c][k].socket <= socket[c]
  /\ \A m \in serving : m.socket <= socket[m.client]

\* A reply that would be taken is waited for, and is the reply of the call.
Asked(m) ==
  m.client \in waiting /\ call[m.client].op = m.op /\ call[m.client].dep = m.dep

RequestInv ==
  /\ \A c \in Clients : \A k \in DOMAIN inbox[c] : Heeded(c, inbox[c][k]) => Asked(inbox[c][k])
  /\ \A m \in serving : Heeded(m.client, m) => Asked(m)

\* While a client waits it submits nothing: the request is the last on its socket.
OrderInv ==
  /\ \A c \in Clients : \A j, k \in DOMAIN inbox[c] :
       Heeded(c, inbox[c][k]) /\ j > k => inbox[c][j].socket # socket[c]
  /\ \A m \in serving : Heeded(m.client, m) =>
       \A j \in DOMAIN inbox[m.client] : inbox[m.client][j].socket # socket[m.client]

CallInv == TypeOK /\ SocketInv /\ RequestInv /\ OrderInv

-----------------------------------------------------------------------------
\* RemoveAt closes the gap: what came before it stays, what came after moves up.
LEMMA RemoveAtIs ==
  ASSUME NEW S, NEW s \in Seq(S), NEW k \in DOMAIN s
  PROVE  /\ RemoveAt(s, k) \in Seq(S)
         /\ DOMAIN RemoveAt(s, k) = 1..(Len(s) - 1)
         /\ \A i \in 1..(Len(s) - 1) : RemoveAt(s, k)[i] = IF i < k THEN s[i] ELSE s[i + 1]
<1> DEFINE front == SubSeq(s, 1, k - 1)
           back  == SubSeq(s, k + 1, Len(s))
<1>1. Len(s) \in Nat /\ k \in 1..Len(s) BY LenProperties
<1>2. \A i \in 1..Len(s) : s[i] \in S BY ElementOfSeq
<1>3. /\ front \in Seq(S) /\ Len(front) = k - 1
      /\ \A i \in 1..(k - 1) : front[i] = s[i]
  <2>1. 1 \in Int /\ k - 1 \in Int /\ \A i \in 1..(k - 1) : s[i] \in S BY <1>1, <1>2
  <2>2. /\ front \in Seq(S) /\ Len(front) = (IF 1 <= k - 1 THEN (k - 1) - 1 + 1 ELSE 0)
        /\ \A i \in 1..((k - 1) - 1 + 1) : front[i] = s[1 + i - 1]
    BY <2>1, SubSeqProperties
  <2> HIDE DEF front
  <2>3. \A i \in 1..(k - 1) : 1 + i - 1 = i /\ i \in 1..((k - 1) - 1 + 1) BY <1>1
  <2> QED BY <1>1, <2>2, <2>3
<1>4. /\ back \in Seq(S) /\ Len(back) = Len(s) - k
      /\ \A i \in 1..(Len(s) - k) : back[i] = s[k + i]
  <2>1. k + 1 \in Int /\ Len(s) \in Int /\ \A i \in (k + 1)..Len(s) : s[i] \in S BY <1>1, <1>2
  <2>2. /\ back \in Seq(S) /\ Len(back) = (IF k + 1 <= Len(s) THEN Len(s) - (k + 1) + 1 ELSE 0)
        /\ \A i \in 1..(Len(s) - (k + 1) + 1) : back[i] = s[(k + 1) + i - 1]
    BY <2>1, SubSeqProperties
  <2> HIDE DEF back
  <2>3. \A i \in 1..(Len(s) - k) : (k + 1) + i - 1 = k + i /\ i \in 1..(Len(s) - (k + 1) + 1)
    BY <1>1
  <2> QED BY <1>1, <2>2, <2>3
<1>5. /\ RemoveAt(s, k) \in Seq(S) /\ Len(RemoveAt(s, k)) = Len(front) + Len(back)
      /\ \A i \in 1..(Len(front) + Len(back)) :
           RemoveAt(s, k)[i] = IF i <= Len(front) THEN front[i] ELSE back[i - Len(front)]
  <2>1. RemoveAt(s, k) = front \o back BY DEF RemoveAt
  <2>2. front \in Seq(S) /\ back \in Seq(S) BY <1>3, <1>4
  <2> HIDE DEF front, back
  <2>3. /\ front \o back \in Seq(S) /\ Len(front \o back) = Len(front) + Len(back)
        /\ \A i \in 1..(Len(front) + Len(back)) :
             (front \o back)[i] = IF i <= Len(front) THEN front[i] ELSE back[i - Len(front)]
    BY <2>2, ConcatProperties, Zenon
  <2> QED BY <2>1, <2>3
<1> HIDE DEF front, back
<1>6. Len(RemoveAt(s, k)) = Len(s) - 1 BY <1>1, <1>3, <1>4, <1>5
<1>7. ASSUME NEW i \in 1..(Len(s) - 1)
      PROVE  RemoveAt(s, k)[i] = IF i < k THEN s[i] ELSE s[i + 1]
  <2>1. RemoveAt(s, k)[i] = IF i <= k - 1 THEN front[i] ELSE back[i - (k - 1)]
    <3>1. i \in 1..(Len(front) + Len(back)) BY <1>1, <1>3, <1>4
    <3>2. RemoveAt(s, k)[i] = IF i <= Len(front) THEN front[i] ELSE back[i - Len(front)]
      BY <1>5, <3>1
    <3> QED BY <1>3, <3>2
  <2>2. CASE i < k BY <1>1, <1>3, <2>1, <2>2
  <2>3. CASE ~ (i < k)
    <3>1. i - (k - 1) \in 1..(Len(s) - k) /\ k + (i - (k - 1)) = i + 1 BY <1>1, <2>3
    <3>2. back[i - (k - 1)] = s[i + 1] BY <1>4, <3>1
    <3> QED BY <1>1, <2>1, <2>3, <3>2
  <2> QED BY <2>2, <2>3
<1>8. DOMAIN RemoveAt(s, k) = 1..(Len(s) - 1) BY <1>5, <1>6, LenProperties
<1> QED BY <1>5, <1>7, <1>8

\* An inbox with one more message.
LEMMA AppendIs ==
  ASSUME NEW S, NEW s \in Seq(S), NEW e \in S
  PROVE  /\ Append(s, e) \in Seq(S)
         /\ DOMAIN s = 1..Len(s) /\ Len(s) \in Nat
         /\ DOMAIN Append(s, e) = 1..(Len(s) + 1)
         /\ \A i \in 1..Len(s) : Append(s, e)[i] = s[i]
         /\ Append(s, e)[Len(s) + 1] = e
<1>1. /\ Append(s, e) \in Seq(S) /\ Len(Append(s, e)) = Len(s) + 1
      /\ \A i \in 1..Len(s) : Append(s, e)[i] = s[i]
      /\ Append(s, e)[Len(s) + 1] = e
  BY AppendProperties
<1>2. DOMAIN s = 1..Len(s) /\ Len(s) \in Nat BY LenProperties
<1>3. DOMAIN Append(s, e) = 1..(Len(s) + 1) BY <1>1, LenProperties
<1> QED BY <1>1, <1>2, <1>3

-----------------------------------------------------------------------------
\* What the steps below have to show of the types.
ClientsTyped ==
  /\ call \in [Clients -> [op : Operations, dep : Deps]]
  /\ waiting \subseteq Clients
  /\ left \in [Clients -> 0..Attempts]
  /\ socket \in [Clients -> Nat]
  /\ calls \in 0..MaxCalls
  /\ answer \in [Clients -> {"none", "ok", "failed", "true", "false", "timeout"}]

MessagesTyped == inbox \in [Clients -> Seq(Messages)] /\ serving \subseteq Messages

OtherTyped == installed \subseteq Deps /\ held \in [Clients -> SUBSET Facts]

LEMMA Types ==
  IInv => (TypeOK <=> ClientsTyped /\ MessagesTyped /\ OtherTyped)
BY DEF TypeOK, ClientsTyped, MessagesTyped, OtherTyped, IInv, WorldTyped, OneServed

LEMMA MessageOf ==
  /\ \A c \in Clients, n \in Nat, op \in Operations, d \in Deps :
       /\ Message(c, n, op, d) \in Messages
       /\ Message(c, n, op, d).client = c /\ Message(c, n, op, d).socket = n
       /\ Message(c, n, op, d).op = op /\ Message(c, n, op, d).dep = d
  /\ \A m \in Messages :
       m.client \in Clients /\ m.socket \in Nat /\ m.op \in Operations /\ m.dep \in Deps
BY DEF Message, Messages

LEMMA InboxOf ==
  ASSUME MessagesTyped, NEW c \in Clients
  PROVE  /\ inbox[c] \in Seq(Messages)
         /\ Len(inbox[c]) \in Nat /\ DOMAIN inbox[c] = 1..Len(inbox[c])
         /\ \A k \in DOMAIN inbox[c] : inbox[c][k] \in Messages
<1>1. inbox[c] \in Seq(Messages) BY DEF MessagesTyped
<1>2. Len(inbox[c]) \in Nat /\ DOMAIN inbox[c] = 1..Len(inbox[c]) BY <1>1, LenProperties
<1>3. \A k \in 1..Len(inbox[c]) : inbox[c][k] \in Messages BY <1>1, ElementOfSeq
<1> QED BY <1>1, <1>2, <1>3

LEMMA SentIs ==
  ASSUME MessagesTyped, NEW m \in Messages, inbox' = Sent(m)
  PROVE  /\ inbox' \in [Clients -> Seq(Messages)]
         /\ \A x \in Clients : x # m.client => inbox'[x] = inbox[x]
         /\ DOMAIN inbox'[m.client] = 1..(Len(inbox[m.client]) + 1)
         /\ \A k \in DOMAIN inbox[m.client] : inbox'[m.client][k] = inbox[m.client][k]
         /\ inbox'[m.client][Len(inbox[m.client]) + 1] = m
<1>1. m.client \in Clients BY MessageOf
<1>2. inbox[m.client] \in Seq(Messages) BY <1>1, InboxOf
<1>3. /\ inbox' = [inbox EXCEPT ![m.client] = Append(inbox[m.client], m)]
      /\ inbox'[m.client] = Append(inbox[m.client], m)
      /\ \A x \in Clients : x # m.client => inbox'[x] = inbox[x]
  BY <1>1 DEF Sent, MessagesTyped
<1>4. Append(inbox[m.client], m) \in Seq(Messages) BY <1>2, AppendIs
<1>5. inbox' \in [Clients -> Seq(Messages)] BY <1>1, <1>3, <1>4 DEF MessagesTyped
<1> QED BY <1>2, <1>3, <1>5, AppendIs

LEMMA TakenIs ==
  ASSUME MessagesTyped, NEW c \in Clients, NEW k \in DOMAIN inbox[c], inbox' = Taken(c, k)
  PROVE  /\ inbox' \in [Clients -> Seq(Messages)]
         /\ \A x \in Clients : x # c => inbox'[x] = inbox[x]
         /\ DOMAIN inbox'[c] = 1..(Len(inbox[c]) - 1)
         /\ \A i \in 1..(Len(inbox[c]) - 1) :
              inbox'[c][i] = IF i < k THEN inbox[c][i] ELSE inbox[c][i + 1]
<1>1. inbox[c] \in Seq(Messages) BY InboxOf
<1>2. /\ inbox' = [inbox EXCEPT ![c] = RemoveAt(inbox[c], k)]
      /\ inbox'[c] = RemoveAt(inbox[c], k)
      /\ \A x \in Clients : x # c => inbox'[x] = inbox[x]
  BY DEF Taken, MessagesTyped
<1>3. RemoveAt(inbox[c], k) \in Seq(Messages) BY <1>1, RemoveAtIs
<1>4. inbox' \in [Clients -> Seq(Messages)] BY <1>2, <1>3 DEF MessagesTyped
<1> QED BY <1>1, <1>2, <1>4, RemoveAtIs

LEMMA HeldStep == ASSUME TypeOK, History PROVE held' \in [Clients -> SUBSET Facts]
<1>1. ASSUME NEW c \in Clients
      PROVE  ((IF c \in waiting THEN held[c] ELSE {})
               \cup {f \in Facts : /\ c \in waiting \cup waiting'
                                  /\ \E d \in Deps : d = call'[c].dep /\ f \in FactsOf(d)'})
             \in SUBSET Facts
  BY DEF TypeOK
<1> QED BY <1>1 DEF History

-----------------------------------------------------------------------------
LEMMA InitCallInv == Init => CallInv
<1> SUFFICES ASSUME Init PROVE CallInv
  OBVIOUS
<1>1. ClientsTyped BY CallsAssumption DEF Init, ClientsTyped, Operations
<1>2. MessagesTyped BY EmptySeq DEF Init, MessagesTyped
<1>3. OtherTyped BY DEF Init, OtherTyped
<1>4. TypeOK BY <1>1, <1>2, <1>3, InitIInv, Types
<1>5. serving = {} /\ \A c \in Clients : DOMAIN inbox[c] = {}
  BY DEF Init
<1> QED BY <1>4, <1>5 DEF CallInv, SocketInv, RequestInv, OrderInv

\* The steps that neither send nor take nor answer a message.
LEMMA QuietStep ==
  ASSUME CallInv, IInv', UNCHANGED <<clientVars, inbox, serving>>, OtherTyped'
  PROVE  CallInv'
<1>1. ClientsTyped' /\ MessagesTyped'
  BY DEF CallInv, TypeOK, ClientsTyped, MessagesTyped, clientVars
<1>2. TypeOK' BY <1>1, Types, PTL
<1>3. SocketInv' BY DEF CallInv, SocketInv, clientVars
<1>4. RequestInv' BY DEF CallInv, RequestInv, Heeded, Asked, clientVars
<1>5. OrderInv' BY DEF CallInv, OrderInv, Heeded, clientVars
<1> QED BY <1>2, <1>3, <1>4, <1>5 DEF CallInv

\* A client sends m, as it begins a call or on a socket of its own: it heeds none
\* of the messages it sent before.
LEMMA SendStep ==
  ASSUME CallInv, IInv', ClientsTyped', OtherTyped', UNCHANGED serving,
         NEW m \in Messages, inbox' = Sent(m), m.socket = socket'[m.client],
         \A x \in Clients \ {m.client} : /\ call'[x] = call[x] /\ socket'[x] = socket[x]
                                         /\ x \in waiting' <=> x \in waiting,
         \/ m.client \notin waiting /\ socket'[m.client] = socket[m.client]
         \/ socket'[m.client] > socket[m.client],
         m.op # "uninstall" => Asked(m)'
  PROVE  CallInv'
<1> DEFINE c == m.client
<1>1. MessagesTyped /\ ClientsTyped BY DEF CallInv, TypeOK, MessagesTyped, ClientsTyped
<1>2. c \in Clients BY MessageOf
<1>3. /\ inbox' \in [Clients -> Seq(Messages)]
      /\ \A x \in Clients : x # c => inbox'[x] = inbox[x]
      /\ DOMAIN inbox'[c] = 1..(Len(inbox[c]) + 1)
      /\ \A k \in DOMAIN inbox[c] : inbox'[c][k] = inbox[c][k]
      /\ inbox'[c][Len(inbox[c]) + 1] = m
  BY <1>1, SentIs
<1>4. Len(inbox[c]) \in Nat /\ DOMAIN inbox[c] = 1..Len(inbox[c]) BY <1>1, <1>2, InboxOf
<1>5. /\ socket \in [Clients -> Nat] /\ socket' \in [Clients -> Nat]
      /\ \A x \in Clients : socket[x] <= socket'[x]
  BY <1>1 DEF ClientsTyped
<1>6. /\ \A x \in Clients : \A k \in DOMAIN inbox[x] :
             inbox[x][k].socket \in Nat /\ inbox[x][k].client = x /\ inbox[x][k].socket <= socket[x]
      /\ \A n \in serving : /\ n.client \in Clients /\ n.socket \in Nat
                            /\ n.socket <= socket[n.client]
  <2>1. \A x \in Clients : \A k \in DOMAIN inbox[x] : inbox[x][k] \in Messages
    BY <1>1, InboxOf
  <2> QED BY <1>1, <2>1, MessageOf DEF CallInv, SocketInv, MessagesTyped
<1>7. /\ \A k \in DOMAIN inbox[c] : ~ Heeded(c, inbox[c][k])'
      /\ \A n \in serving : n.client = c => ~ Heeded(c, n)'
  <2>1. CASE c \notin waiting /\ socket'[c] = socket[c]
    BY <1>2, <1>3, <1>6, <2>1 DEF CallInv, RequestInv, Heeded, Asked
  <2>2. CASE socket'[c] > socket[c]
    <3>1. \A i \in Nat : i <= socket[c] => i # socket'[c] BY <1>2, <1>5, <2>2
    <3> QED BY <1>2, <1>3, <1>6, <3>1 DEF Heeded
  <2> QED BY <2>1, <2>2
<1>8. TypeOK'
  <2>1. MessagesTyped' BY <1>1, <1>3 DEF MessagesTyped
  <2> QED BY <2>1, Types, PTL
<1>9. SocketInv'
  <2>1. ASSUME NEW x \in Clients, NEW k \in DOMAIN inbox'[x]
        PROVE  inbox'[x][k].client = x /\ inbox'[x][k].socket <= socket'[x]
    <3>1. CASE x # c BY <1>3, <1>6, <3>1
    <3>2. CASE x = c /\ k \in DOMAIN inbox[c] BY <1>2, <1>3, <1>5, <1>6, <3>2
    <3>3. CASE x = c /\ k = Len(inbox[c]) + 1 BY <1>3, <1>5, <3>3
    <3> QED BY <1>3, <1>4, <3>1, <3>2, <3>3
  <2>2. ASSUME NEW n \in serving PROVE n.socket <= socket'[n.client]
    BY <1>5, <1>6
  <2> QED BY <2>1, <2>2 DEF SocketInv
<1>10. RequestInv'
  <2>1. ASSUME NEW x \in Clients, NEW k \in DOMAIN inbox'[x], Heeded(x, inbox[x][k])'
        PROVE  Asked(inbox[x][k])'
    <3>1. CASE x # c
      <4>1. inbox'[x] = inbox[x] /\ socket'[x] = socket[x] BY <1>3, <3>1
      <4>2. Heeded(x, inbox[x][k]) BY <2>1, <4>1 DEF Heeded
      <4>3. Asked(inbox[x][k]) /\ inbox[x][k].client = x
        BY <1>6, <4>1, <4>2 DEF CallInv, RequestInv
      <4> QED BY <3>1, <4>1, <4>3 DEF Asked
    <3>2. CASE x = c /\ k \in DOMAIN inbox[c] BY <1>3, <1>7, <2>1, <3>2 DEF Heeded
    <3>3. CASE x = c /\ k = Len(inbox[c]) + 1 BY <1>3, <2>1, <3>3 DEF Heeded, Asked
    <3> QED BY <1>3, <1>4, <3>1, <3>2, <3>3
  <2>2. ASSUME NEW n \in serving, Heeded(n.client, n)' PROVE Asked(n)'
    <3>1. n.client # c BY <1>7, <2>2
    <3>2. Heeded(n.client, n) BY <1>6, <2>2, <3>1 DEF Heeded
    <3>3. Asked(n) BY <3>2 DEF CallInv, RequestInv
    <3> QED BY <1>6, <3>1, <3>3 DEF Asked
  <2> QED BY <2>1, <2>2 DEF RequestInv
<1>11. OrderInv'
  <2>1. ASSUME NEW x \in Clients, NEW j \in DOMAIN inbox'[x], NEW k \in DOMAIN inbox'[x],
               Heeded(x, inbox[x][k])', j > k
        PROVE  inbox'[x][j].socket # socket'[x]
    <3>1. CASE x # c
      <4>1. inbox'[x] = inbox[x] /\ socket'[x] = socket[x] BY <1>3, <3>1
      <4>2. Heeded(x, inbox[x][k]) BY <2>1, <4>1 DEF Heeded
      <4> QED BY <2>1, <4>1, <4>2 DEF CallInv, OrderInv
    <3>2. CASE x = c
      <4>1. k \notin DOMAIN inbox[c] BY <1>3, <1>7, <2>1, <3>2 DEF Heeded
      <4> QED BY <1>3, <1>4, <2>1, <3>2, <4>1
    <3> QED BY <3>1, <3>2
  <2>2. ASSUME NEW n \in serving, Heeded(n.client, n)', NEW j \in DOMAIN inbox'[n.client]
        PROVE  inbox'[n.client][j].socket # socket'[n.client]
    <3>1. n.client # c BY <1>7, <2>2
    <3>2. /\ inbox'[n.client] = inbox[n.client] /\ socket'[n.client] = socket[n.client]
          /\ n \in serving
      BY <1>3, <1>6, <3>1
    <3>3. Heeded(n.client, n) BY <2>2, <3>2 DEF Heeded
    <3> QED BY <2>2, <3>2, <3>3 DEF CallInv, OrderInv
  <2> QED BY <2>1, <2>2 DEF OrderInv
<1> QED BY <1>8, <1>9, <1>10, <1>11 DEF CallInv

LEMMA ClientCallStep ==
  ASSUME CallInv, IInv', NEW c \in Clients, Client(c), OtherTyped'
  PROVE  CallInv'
<1>1. ClientsTyped /\ MessagesTyped BY DEF CallInv, TypeOK, ClientsTyped, MessagesTyped
<1>2. ASSUME NEW d \in Deps, NEW op \in Operations, Request(c, op, d) PROVE CallInv'
  <2>1. socket[c] \in Nat BY <1>1 DEF ClientsTyped
  <2>2. PICK m \in Messages : /\ m = Message(c, socket[c], op, d)
                              /\ m.client = c /\ m.socket = socket[c] /\ m.op = op /\ m.dep = d
    BY <2>1, MessageOf
  <2>3. /\ c \notin waiting /\ inbox' = Sent(m)
        /\ call' = [call EXCEPT ![c] = [op |-> op, dep |-> d]]
        /\ waiting' = waiting \cup {c} /\ UNCHANGED <<socket, serving>>
    BY <1>2, <2>2 DEF Request
  <2>4. ClientsTyped'
    BY <1>1, <1>2, CallsAssumption DEF Request, ClientsTyped
  <2>5. call'[c].op = op /\ call'[c].dep = d BY <1>1, <2>3 DEF ClientsTyped
  <2>6. Asked(m)' BY <2>2, <2>3, <2>5 DEF Asked
  <2>7. \A x \in Clients \ {c} : /\ call'[x] = call[x] /\ socket'[x] = socket[x]
                                 /\ x \in waiting' <=> x \in waiting
    BY <1>1, <2>3 DEF ClientsTyped
  <2> QED BY <2>2, <2>3, <2>4, <2>6, <2>7, SendStep
<1>3. ASSUME NEW d \in Deps, Submit(c, d) PROVE CallInv'
  <2>1. socket[c] \in Nat /\ "uninstall" \in Operations BY <1>1 DEF ClientsTyped, Operations
  <2>2. PICK m \in Messages : /\ m = Message(c, socket[c], "uninstall", d)
                              /\ m.client = c /\ m.socket = socket[c] /\ m.op = "uninstall"
    BY <2>1, MessageOf
  <2>3. /\ c \notin waiting /\ inbox' = Sent(m)
        /\ call' = [call EXCEPT ![c] = [op |-> "uninstall", dep |-> d]]
        /\ UNCHANGED <<socket, serving, waiting>>
    BY <1>3, <2>2 DEF Submit
  <2>4. ClientsTyped'
    BY <1>1, <1>3, <2>1, CallsAssumption DEF Submit, ClientsTyped
  <2>5. \A x \in Clients \ {c} : /\ call'[x] = call[x] /\ socket'[x] = socket[x]
                                 /\ x \in waiting' <=> x \in waiting
    BY <1>1, <2>3 DEF ClientsTyped
  <2> QED BY <2>2, <2>3, <2>4, <2>5, SendStep
<1>4. CASE Resend(c)
  <2>1. /\ c \in waiting /\ inbox' = Sent(Message(c, socket'[c], call[c].op, call[c].dep))
        /\ socket' = [socket EXCEPT ![c] = @ + 1]
        /\ UNCHANGED <<call, serving, waiting>>
    BY <1>4 DEF Resend
  <2>2. ClientsTyped'
    BY <1>1, <1>4, CallsAssumption DEF Resend, ClientsTyped
  <2>3. /\ socket[c] \in Nat /\ socket'[c] \in Nat /\ socket'[c] > socket[c]
        /\ call[c].op \in Operations /\ call[c].dep \in Deps
    BY <1>1, <2>1 DEF ClientsTyped
  <2>4. PICK m \in Messages : /\ m = Message(c, socket'[c], call[c].op, call[c].dep)
                              /\ m.client = c /\ m.socket = socket'[c]
                              /\ m.op = call[c].op /\ m.dep = call[c].dep
    BY <2>3, MessageOf
  <2>5. Asked(m)' BY <2>1, <2>4 DEF Asked
  <2>6. \A x \in Clients \ {c} : /\ call'[x] = call[x] /\ socket'[x] = socket[x]
                                 /\ x \in waiting' <=> x \in waiting
    BY <1>1, <2>1 DEF ClientsTyped
  <2> QED BY <2>1, <2>2, <2>3, <2>4, <2>5, <2>6, SendStep
<1>5. CASE GiveUp(c)
  <2>1. /\ socket' = [socket EXCEPT ![c] = @ + 1] /\ waiting' = waiting \ {c}
        /\ UNCHANGED <<call, inbox, serving>>
    BY <1>5 DEF GiveUp, handlerVars
  <2>2. ClientsTyped' BY <1>1, <1>5 DEF GiveUp, ClientsTyped
  <2>3. TypeOK'
    <3>1. MessagesTyped' BY <1>1, <2>1 DEF MessagesTyped
    <3> QED BY <2>2, <3>1, Types, PTL
  <2>4. /\ socket[c] \in Nat /\ socket'[c] = socket[c] + 1
        /\ \A x \in Clients : x # c => socket'[x] = socket[x] /\ (x \in waiting' <=> x \in waiting)
    BY <1>1, <2>1 DEF ClientsTyped
  <2>5. /\ \A x \in Clients : \A k \in DOMAIN inbox[x] :
               inbox[x][k].socket \in Nat /\ inbox[x][k].client = x /\ inbox[x][k].socket <= socket[x]
        /\ \A n \in serving : /\ n.client \in Clients /\ n.socket \in Nat
                              /\ n.socket <= socket[n.client]
    <3>1. \A x \in Clients : \A k \in DOMAIN inbox[x] : inbox[x][k] \in Messages
      BY <1>1, InboxOf
    <3> QED BY <1>1, <3>1, MessageOf DEF CallInv, SocketInv, MessagesTyped
  <2>6. /\ \A x \in Clients : \A k \in DOMAIN inbox[x] :
             Heeded(x, inbox[x][k])' => x # c /\ Heeded(x, inbox[x][k])
        /\ \A n \in serving : Heeded(n.client, n)' => n.client # c /\ Heeded(n.client, n)
    <3>1. \A i \in Nat : i <= socket[c] => i # socket'[c] BY <2>4
    <3> QED BY <2>1, <2>4, <2>5, <3>1 DEF Heeded
  <2>7. SocketInv'
    <3>1. \A x \in Clients : \A i \in Nat : i <= socket[x] => i <= socket'[x]
      BY <1>1, <2>4 DEF ClientsTyped
    <3> QED BY <2>1, <2>5, <3>1 DEF SocketInv
  <2>8. RequestInv'
    BY <2>1, <2>4, <2>5, <2>6 DEF CallInv, RequestInv, Asked
  <2>9. OrderInv'
    BY <2>1, <2>4, <2>5, <2>6 DEF CallInv, OrderInv
  <2> QED BY <2>3, <2>7, <2>8, <2>9 DEF CallInv
<1> QED BY <1>2, <1>3, <1>4, <1>5 DEF Client

\* The handler takes the first message of a socket: none on that socket follows a
\* request that is heeded.
LEMMA TakeCallStep ==
  ASSUME CallInv, IInv', NEW c \in Clients, NEW k \in DOMAIN inbox[c], Take(c, k), OtherTyped'
  PROVE  CallInv'
<1>1. ClientsTyped /\ MessagesTyped BY DEF CallInv, TypeOK, ClientsTyped, MessagesTyped
<1>2. /\ serving = {} /\ Arrived(c, k) /\ serving' = {inbox[c][k]} /\ inbox' = Taken(c, k)
      /\ UNCHANGED <<call, waiting, left, socket, calls, answer>>
  BY DEF Take, clientVars
<1>3. /\ Len(inbox[c]) \in Nat /\ DOMAIN inbox[c] = 1..Len(inbox[c])
      /\ \A i \in DOMAIN inbox[c] : inbox[c][i] \in Messages
  BY <1>1, InboxOf
<1>4. /\ inbox' \in [Clients -> Seq(Messages)]
      /\ \A x \in Clients : x # c => inbox'[x] = inbox[x]
      /\ DOMAIN inbox'[c] = 1..(Len(inbox[c]) - 1)
      /\ \A i \in 1..(Len(inbox[c]) - 1) :
           inbox'[c][i] = IF i < k THEN inbox[c][i] ELSE inbox[c][i + 1]
  BY <1>1, <1>2, TakenIs
\* Each message that stays was there, and the order is kept.
<1>5. PICK old \in [DOMAIN inbox'[c] -> DOMAIN inbox[c]] :
        /\ \A i \in DOMAIN inbox'[c] : inbox'[c][i] = inbox[c][old[i]] /\ old[i] # k
        /\ \A i, j \in DOMAIN inbox'[c] : i < j => old[i] < old[j]
  <2> DEFINE old == [i \in DOMAIN inbox'[c] |-> IF i < k THEN i ELSE i + 1]
  <2>1. \A i \in DOMAIN inbox'[c] : (IF i < k THEN i ELSE i + 1) \in DOMAIN inbox[c]
    BY <1>3, <1>4
  <2>2. old \in [DOMAIN inbox'[c] -> DOMAIN inbox[c]] BY <2>1
  <2>3. \A i \in DOMAIN inbox'[c] : inbox'[c][i] = inbox[c][old[i]] /\ old[i] # k
    BY <1>3, <1>4
  <2>4. \A i, j \in DOMAIN inbox'[c] : i < j => old[i] < old[j]
    BY <1>3, <1>4
  <2> HIDE DEF old
  <2> QED BY <2>2, <2>3, <2>4
<1>6. inbox[c][k] \in Messages /\ inbox[c][k].client = c BY <1>3 DEF CallInv, SocketInv
<1>7. TypeOK'
  <2>1. ClientsTyped' /\ MessagesTyped' BY <1>1, <1>2, <1>4, <1>6 DEF ClientsTyped, MessagesTyped
  <2> QED BY <2>1, Types, PTL
<1>8. SocketInv'
  <2>1. ASSUME NEW x \in Clients, NEW i \in DOMAIN inbox'[x]
        PROVE  inbox'[x][i].client = x /\ inbox'[x][i].socket <= socket[x]
    <3>1. CASE x = c BY <1>5, <3>1 DEF CallInv, SocketInv
    <3>2. CASE x # c BY <1>4, <3>2 DEF CallInv, SocketInv
    <3> QED BY <3>1, <3>2
  <2>2. inbox[c][k].socket <= socket[c] BY DEF CallInv, SocketInv
  <2> QED BY <1>2, <1>6, <2>1, <2>2 DEF SocketInv
<1>9. RequestInv'
  <2>1. ASSUME NEW x \in Clients, NEW i \in DOMAIN inbox'[x], Heeded(x, inbox'[x][i])
        PROVE  Asked(inbox'[x][i])
    <3>1. CASE x = c BY <1>5, <2>1, <3>1 DEF CallInv, RequestInv
    <3>2. CASE x # c BY <1>4, <2>1, <3>2 DEF CallInv, RequestInv
    <3> QED BY <3>1, <3>2
  <2>2. Heeded(c, inbox[c][k]) => Asked(inbox[c][k]) BY DEF CallInv, RequestInv
  <2> QED BY <1>2, <1>6, <2>1, <2>2 DEF RequestInv, Heeded, Asked
<1>10. OrderInv'
  <2>1. ASSUME NEW x \in Clients, NEW j \in DOMAIN inbox'[x], NEW i \in DOMAIN inbox'[x],
               Heeded(x, inbox'[x][i]), j > i
        PROVE  inbox'[x][j].socket # socket[x]
    <3>1. CASE x = c
      <4>1. old[j] > old[i]
        <5>1. i < j BY <1>3, <1>4, <2>1, <3>1
        <5>2. old[i] < old[j] BY <1>5, <3>1, <5>1
        <5> QED BY <1>3, <1>5, <3>1, <5>2
      <4> QED BY <1>5, <2>1, <3>1, <4>1 DEF CallInv, OrderInv
    <3>2. CASE x # c
      <4>1. inbox'[x] = inbox[x] BY <1>4, <3>2
      <4> QED BY <2>1, <4>1 DEF CallInv, OrderInv
    <3> QED BY <3>1, <3>2
  <2>2. ASSUME Heeded(c, inbox[c][k]), NEW i \in DOMAIN inbox'[c]
        PROVE  inbox'[c][i].socket # socket[c]
    <3>1. inbox[c][k].socket = socket[c] BY <2>2 DEF Heeded
    <3>2. CASE old[i] > k BY <1>5, <2>2, <3>2 DEF CallInv, OrderInv
    <3>3. CASE ~ (old[i] > k)
      <4>1. old[i] \in 1..(k - 1) BY <1>3, <1>5, <3>3
      <4> QED BY <1>2, <1>5, <3>1, <4>1 DEF Arrived
    <3> QED BY <3>2, <3>3
  <2> QED BY <1>2, <1>6, <2>1, <2>2 DEF OrderInv, Heeded
<1> QED BY <1>7, <1>8, <1>9, <1>10 DEF CallInv

Outcomes == {"ok", "failed", "true", "false"}

\* The handler is through with a message; nothing of its client's call is left.
LEMMA ReplyCallStep ==
  ASSUME CallInv, IInv, IInv', NEW m \in serving, NEW outcome \in Outcomes, Reply(m, outcome),
         OtherTyped'
  PROVE  CallInv'
<1>1. ClientsTyped /\ MessagesTyped BY DEF CallInv, TypeOK, ClientsTyped, MessagesTyped
<1>2. /\ serving' = {} /\ UNCHANGED <<call, socket, calls, inbox>>
  BY DEF Reply, IInv, OneServed
<1>3. m.client \in Clients BY <1>1, MessageOf DEF MessagesTyped
<1>4. ClientsTyped'
  <2>1. CASE UNCHANGED <<waiting, left, answer>> BY <1>1, <1>2, <2>1 DEF ClientsTyped
  <2>2. CASE /\ waiting' = waiting \ {m.client}
             /\ left' = [left EXCEPT ![m.client] = 0]
             /\ answer' = [answer EXCEPT ![m.client] = outcome]
    <3>1. 0 \in 0..Attempts BY CallsAssumption
    <3>2. outcome \in {"none", "ok", "failed", "true", "false", "timeout"} BY DEF Outcomes
    <3>3. left' \in [Clients -> 0..Attempts] BY <1>1, <2>2, <3>1 DEF ClientsTyped
    <3>4. answer' \in [Clients -> {"none", "ok", "failed", "true", "false", "timeout"}]
      BY <1>1, <2>2, <3>2 DEF ClientsTyped
    <3> QED BY <1>1, <1>2, <2>2, <3>3, <3>4 DEF ClientsTyped
  <2> QED BY <2>1, <2>2 DEF Reply
<1>5. TypeOK'
  <2>1. MessagesTyped' BY <1>1, <1>2 DEF MessagesTyped
  <2> QED BY <1>4, <2>1, Types, PTL
<1>6. SocketInv' BY <1>2 DEF CallInv, SocketInv
<1>7. RequestInv'
  <2>1. ASSUME NEW c \in Clients, NEW k \in DOMAIN inbox[c], Heeded(c, inbox[c][k])
        PROVE  inbox[c][k].client = c /\ c \in waiting' /\ Asked(inbox[c][k])
    <3>1. inbox[c][k].client = c /\ inbox[c][k].socket = socket[c] /\ Asked(inbox[c][k])
      BY <2>1 DEF CallInv, RequestInv, Heeded
    <3>2. c \in waiting BY <3>1 DEF Asked
    <3>3. CASE c \notin waiting'
      <4>1. /\ m.op # "uninstall" /\ m.socket = socket[m.client] /\ c = m.client
        BY <3>2, <3>3 DEF Reply
      <4>2. Heeded(m.client, m) BY <4>1 DEF Heeded
      <4> QED BY <3>1, <4>1, <4>2 DEF CallInv, OrderInv
    <3> QED BY <3>1, <3>3
  <2> QED BY <1>2, <2>1 DEF RequestInv, Heeded, Asked
<1>8. OrderInv' BY <1>2 DEF CallInv, OrderInv, Heeded
<1> QED BY <1>5, <1>6, <1>7, <1>8 DEF CallInv

\* How each route ends, if it does.
LEMMA ServeIs ==
  ASSUME NEW m \in serving, Serve(m)
  PROVE  \/ \E outcome \in Outcomes : Reply(m, outcome)
         \/ UNCHANGED <<clientVars, inbox, serving>>
<1>1. \A outcome \in {"ok", "failed", "true", "false"} : outcome \in Outcomes BY DEF Outcomes
<1>2. CASE onDepInstalled(m) BY <1>1, <1>2 DEF onDepInstalled
<1>3. CASE onDepRunning(m) BY <1>1, <1>3 DEF onDepRunning
<1>4. CASE onInstallDep(m) \/ onUninstallDep(m) BY <1>1, <1>4 DEF onInstallDep, onUninstallDep
<1>5. CASE onRunDep(m) BY <1>5 DEF onRunDep
<1>6. CASE Launch(m) \/ LaunchFails(m) BY <1>1, <1>6 DEF Launch, LaunchFails
<1>7. CASE onCloseDep(m) BY <1>1, <1>7 DEF onCloseDep
<1>8. CASE CloseEnds(m) BY <1>1, <1>8 DEF CloseEnds
<1>9. CASE Refuse(m) BY <1>1, <1>9 DEF Refuse
<1> QED BY <1>2, <1>3, <1>4, <1>5, <1>6, <1>7, <1>8, <1>9 DEF Serve

LEMMA ServeInstalled ==
  ASSUME TypeOK, NEW m \in serving, Serve(m)
  PROVE  installed' \subseteq Deps
<1>1. m.dep \in Deps BY MessageOf DEF TypeOK
<1> QED BY <1>1 DEF TypeOK, Serve, onDepInstalled, onDepRunning, onInstallDep, onUninstallDep,
                    onRunDep, Launch, LaunchFails, onCloseDep, CloseEnds, Refuse, worldVars

LEMMA CallInvStep == IInv /\ IInv' /\ CallInv /\ [Next]_vars => CallInv'
<1> SUFFICES ASSUME IInv, IInv', CallInv, [Next]_vars PROVE CallInv'
  OBVIOUS
<1>1. TypeOK BY DEF CallInv
<1>2. CASE Next
  <2>1. held' \in [Clients -> SUBSET Facts] BY <1>1, <1>2, HeldStep DEF Next
  <2>2. ASSUME NEW c \in Clients, Client(c) PROVE CallInv'
    <3>1. installed' = installed
      BY <2>2 DEF Client, Submit, Request, Resend, GiveUp, worldVars
    <3>2. OtherTyped' BY <1>1, <2>1, <3>1 DEF OtherTyped, TypeOK
    <3> QED BY <2>2, <3>2, ClientCallStep
  <2>3. ASSUME NEW c \in Clients, NEW k \in DOMAIN inbox[c], Take(c, k) PROVE CallInv'
    <3>1. installed' = installed BY <2>3 DEF Take, worldVars
    <3>2. OtherTyped' BY <1>1, <2>1, <3>1 DEF OtherTyped, TypeOK
    <3> QED BY <2>3, <3>2, TakeCallStep
  <2>4. ASSUME NEW m \in serving, Serve(m) PROVE CallInv'
    <3>1. OtherTyped' BY <1>1, <2>1, <2>4, ServeInstalled DEF OtherTyped
    <3> QED BY <2>4, <3>1, ServeIs, ReplyCallStep, QuietStep
  <2>5. CASE World
    <3>1. UNCHANGED <<clientVars, inbox, serving, installed>>
      BY <2>5 DEF World, ChildEnds, EndHandled, handlerVars
    <3>2. OtherTyped' BY <1>1, <2>1, <3>1 DEF OtherTyped, TypeOK
    <3> QED BY <3>1, <3>2, QuietStep
  <2> QED BY <1>2, <2>2, <2>3, <2>4, <2>5 DEF Next, Handler
<1>3. CASE UNCHANGED vars
  <2>1. UNCHANGED <<clientVars, inbox, serving, installed, held>>
    BY <1>3 DEF vars, handlerVars, worldVars
  <2>2. OtherTyped' BY <1>1, <2>1 DEF OtherTyped, TypeOK
  <2> QED BY <2>1, <2>2, QuietStep
<1> QED BY <1>2, <1>3

\* CallInv holds in every reachable state.
THEOREM CallInvariant == Spec => []CallInv
BY Invariant, InitCallInv, CallInvStep, PTL DEF Spec

\* The types of DepHandler: in particular every inbox stays a sequence of messages
\* of its client, and no counter leaves its range (dep_client/dev.go, dep_handler/dev.go).
THEOREM TypeCorrect == Spec => []TypeOK
<1>1. CallInv => TypeOK BY DEF CallInv
<1> QED BY <1>1, CallInvariant, PTL

-----------------------------------------------------------------------------
\* Who leaves off waiting with an answer has the reply to the call it waits in,
\* which is done.
LEMMA AnswerStep ==
  ASSUME CallInv, Next, NEW c \in waiting, c \notin waiting', answer'[c] # "timeout"
  PROVE  \E m \in serving : \E outcome \in Outcomes :
           /\ Serve(m) /\ Reply(m, outcome)
           /\ Heeded(c, m) /\ m.dep \in Deps
           /\ call[c].op = m.op /\ call'[c] = call[c] /\ call[c].dep = m.dep
           /\ answer'[c] = outcome
<1>1. ClientsTyped /\ c \in Clients BY DEF CallInv, TypeOK, ClientsTyped
<1>2. ASSUME NEW x \in Clients, Client(x) PROVE FALSE
  <2>1. CASE GiveUp(x)
    <3>1. x = c BY <2>1 DEF GiveUp
    <3> QED BY <1>1, <2>1, <3>1 DEF GiveUp, ClientsTyped
  <2>2. CASE ~ GiveUp(x) BY <1>2, <2>2 DEF Client, Submit, Request, Resend
  <2> QED BY <2>1, <2>2
<1>3. ASSUME NEW x \in Clients, NEW k \in DOMAIN inbox[x], Take(x, k) PROVE FALSE
  BY <1>3 DEF Take, clientVars
<1>4. CASE World BY <1>4 DEF World, ChildEnds, EndHandled, clientVars
<1>5. PICK m \in serving : Serve(m) BY <1>2, <1>3, <1>4 DEF Next, Handler
<1>6. PICK outcome \in Outcomes : Reply(m, outcome) BY <1>5, ServeIs DEF clientVars
<1>7. /\ m.client = c /\ Heeded(c, m) /\ call' = call
      /\ answer' = [answer EXCEPT ![c] = outcome]
  BY <1>6 DEF Reply, Heeded
<1>8. Asked(m) BY <1>7 DEF CallInv, RequestInv
<1>9. m.dep \in Deps BY MessageOf DEF CallInv, TypeOK
<1>10. answer'[c] = outcome BY <1>1, <1>7 DEF ClientsTyped
<1> QED BY <1>5, <1>6, <1>7, <1>8, <1>9, <1>10 DEF Asked

\* What is so when the answer is given is kept in the history of the call.
LEMMA HeldNow ==
  ASSUME History, NEW c \in Clients, c \in waiting, NEW d \in Deps, d = call'[c].dep,
         NEW f \in Facts, f \in FactsOf(d)'
  PROVE  f \in held'[c]
BY DEF History

LEMMA AnswerIs ==
  ASSUME TypeOK, NEW c \in waiting, NEW m, Heeded(c, m), NEW outcome, Reply(m, outcome)
  PROVE  answer'[c] = outcome
BY DEF TypeOK, Heeded, Reply

\* What the routes have done when they answer.
LEMMA AnswerMeans ==
  ASSUME TypeOK, NEW m \in serving, Serve(m), NEW c \in waiting, c \notin waiting', Heeded(c, m)
  PROVE  /\ m.op = "run" /\ answer'[c] = "ok" => live'[m.dep] > 0
         /\ m.op = "install" /\ answer'[c] = "ok" => m.dep \in installed'
         /\ m.op = "running" /\ answer'[c] = "true" => live'[m.dep] > 0
         /\ m.op = "installed" /\ answer'[c] = "true" => m.dep \in installed'
         /\ m.op = "installed" /\ answer'[c] = "false" => m.dep \notin installed'
<1>1. m.dep \in Deps /\ live[m.dep] \in Nat BY MessageOf DEF TypeOK
<1>2. \A outcome : Reply(m, outcome) => answer'[c] = outcome BY AnswerIs
<1>3. CASE onDepInstalled(m) BY <1>2, <1>3 DEF onDepInstalled, worldVars
<1>4. CASE onDepRunning(m) BY <1>2, <1>4 DEF onDepRunning, worldVars
<1>5. CASE onInstallDep(m) \/ onUninstallDep(m) BY <1>2, <1>5 DEF onInstallDep, onUninstallDep
<1>6. CASE onRunDep(m) BY <1>6 DEF onRunDep, clientVars
<1>7. CASE Launch(m)
  <2>1. live'[m.dep] = live[m.dep] + 1 BY <1>1, <1>7 DEF Launch, TypeOK
  <2> QED BY <1>1, <1>7, <2>1 DEF Launch
<1>8. CASE LaunchFails(m) BY <1>2, <1>8 DEF LaunchFails
<1>9. CASE onCloseDep(m) \/ CloseEnds(m) BY <1>9 DEF onCloseDep, CloseEnds
<1>10. CASE Refuse(m) BY <1>2, <1>10 DEF Refuse
<1> QED BY <1>3, <1>4, <1>5, <1>6, <1>7, <1>8, <1>9, <1>10 DEF Serve

LEMMA AnswerWasTrue ==
  ASSUME CallInv, Next, NEW c \in waiting, c \notin waiting'
  PROVE  /\ answer'[c] = "ok" /\ call[c].op = "run" => "live" \in held'[c]
         /\ answer'[c] = "ok" /\ call[c].op = "install" => "installed" \in held'[c]
         /\ answer'[c] = "true" /\ call[c].op = "running" => "live" \in held'[c]
         /\ answer'[c] = "true" /\ call[c].op = "installed" => "installed" \in held'[c]
         /\ answer'[c] = "false" /\ call[c].op = "installed" => "not installed" \in held'[c]
<1>1. CASE answer'[c] = "timeout" BY <1>1
<1>2. CASE answer'[c] # "timeout"
  <2>1. PICK m \in serving : /\ Serve(m) /\ Heeded(c, m) /\ m.dep \in Deps
                             /\ call[c].op = m.op /\ call'[c] = call[c] /\ call[c].dep = m.dep
    BY <1>2, AnswerStep
  <2>2. TypeOK /\ c \in Clients BY DEF CallInv, TypeOK
  <2>3. History BY DEF Next
  <2>4. \A f \in Facts : f \in FactsOf(m.dep)' => f \in held'[c]
    BY <2>1, <2>2, <2>3, HeldNow
  <2>5. "live" \in Facts /\ "installed" \in Facts /\ "not installed" \in Facts BY DEF Facts
  <2>6. /\ live'[m.dep] > 0 => "live" \in FactsOf(m.dep)'
        /\ m.dep \in installed' => "installed" \in FactsOf(m.dep)'
        /\ m.dep \notin installed' => "not installed" \in FactsOf(m.dep)'
    BY DEF FactsOf
  <2>7. /\ live'[m.dep] > 0 => "live" \in held'[c]
        /\ m.dep \in installed' => "installed" \in held'[c]
        /\ m.dep \notin installed' => "not installed" \in held'[c]
    BY <2>4, <2>5, <2>6
  <2> QED BY <2>1, <2>2, <2>7, AnswerMeans
<1> QED BY <1>1, <1>2

\* A positive answer was true at some time of the call, and "not installed" was,
\* whatever the other clients do and whichever attempt is answered
\* (dep_client/dev.go:121-205).
THEOREM AnswersHold == Spec => AnswersWereTrue
<1> DEFINE Step == \A c \in waiting \ waiting' :
       /\ answer'[c] = "ok" /\ call[c].op = "run" => "live" \in held'[c]
       /\ answer'[c] = "ok" /\ call[c].op = "install" => "installed" \in held'[c]
       /\ answer'[c] = "true" /\ call[c].op = "running" => "live" \in held'[c]
       /\ answer'[c] = "true" /\ call[c].op = "installed" => "installed" \in held'[c]
       /\ answer'[c] = "false" /\ call[c].op = "installed" => "not installed" \in held'[c]
<1>1. CallInv /\ [Next]_vars => [Step]_vars BY AnswerWasTrue
<1>2. AnswersWereTrue <=> [][Step]_vars BY DEF AnswersWereTrue
<1> QED BY <1>1, <1>2, CallInvariant, PTL DEF Spec

\* A client that is answered knows that what it submitted before on that socket
\* was done: an Install that follows an Uninstall is not overtaken by it
\* (dep_client/dev.go:100, 143).
THEOREM SubmittedServed == Spec => SubmittedIsServed
<1> DEFINE Step == \A c \in waiting \ waiting' : answer'[c] # "timeout" =>
                     \A m \in PendingOf(c)' : m.socket # socket[c]
<1>1. IInv /\ CallInv /\ [Next]_vars => [Step]_vars
  <2> SUFFICES ASSUME IInv, CallInv, Next, NEW c \in waiting, c \notin waiting',
                      answer'[c] # "timeout", NEW n \in PendingOf(c)'
               PROVE  n.socket # socket[c]
    OBVIOUS
  <2>1. PICK m \in serving : \E outcome \in Outcomes : Reply(m, outcome) /\ Heeded(c, m)
    BY AnswerStep
  <2>2. serving' = {} /\ inbox' = inbox BY <2>1 DEF Reply, IInv, OneServed
  <2>3. PICK k \in DOMAIN inbox[c] : n = inbox[c][k]
    BY <2>2 DEF PendingOf, Range
  <2>4. m.client = c BY <2>1 DEF Heeded
  <2> QED BY <2>1, <2>3, <2>4 DEF CallInv, OrderInv
<1>2. SubmittedIsServed <=> [][Step]_vars BY DEF SubmittedIsServed
<1> QED BY <1>1, <1>2, Invariant, CallInvariant, PTL DEF Spec
==============================================================================

------------------------------ MODULE DepHandler ------------------------------
(***************************************************************************)
(* dep_client.Client (dep_client/dev.go), the routes of                    *)
(* dep_handler.DepHandler (dep_handler/dev.go) and the requests between    *)
(* them, over the dependency manager.                                      *)
(*                                                                         *)
(* A client sends a request and waits for the reply.  After a timeout it   *)
(* opens a new socket and sends the request again, a limited number of     *)
(* times; what arrives for an old socket is dropped.  The handler serves   *)
(* every request it receives, also those whose client gave up, one at a    *)
(* time.  Uninstall is submitted: its client does not wait.                *)
(*                                                                         *)
(* Of the manager (modules DepProcess and DepStore) there is what its      *)
(* callers can tell apart: the binary, the entry of a dependency and its   *)
(* children.                                                               *)
(***************************************************************************)
EXTENDS Integers, Sequences, SequencesExt

CONSTANTS
  Deps,      \* dependencies, each with one url and one id
  Clients,   \* sockets: the service's and the proxy handler's dep_client
  Attempts,  \* how often a client sends a request
  MaxCalls   \* bounds the calls of all clients together

ASSUME CallsAssumption ==
  /\ Attempts \in Nat \ {0}
  /\ MaxCalls \in Nat

VARIABLES
  call,      \* [Clients -> ...], the call a client waits in, or its last one
  waiting,   \* clients that wait for a reply
  left,      \* [Clients -> 0..Attempts], sends its call may still make
  socket,    \* [Clients -> Nat], the sockets it opened so far
  calls,     \* 0..MaxCalls, the calls so far
  answer,    \* [Clients -> ...], what its last call returned
  inbox,     \* [Clients -> Seq(Messages)], sent to the handler and not taken
  serving,   \* the messages the handler has taken and not finished
  halfway,   \* those of them whose Run or Close in the manager has begun
  installed, \* dependencies whose binary exists
  entry,     \* [Deps -> ...], the entry in runningDeps
  live,      \* [Deps -> Nat], children alive
  ended,     \* [Deps -> Nat], children whose end the manager has not handled
  held       \* history: [Clients -> SUBSET Facts], what was so in its call

clientVars  == <<call, waiting, left, socket, calls, answer>>
handlerVars == <<inbox, serving, halfway>>
worldVars   == <<installed, entry, live, ended>>
vars == <<clientVars, handlerVars, worldVars, held>>

Operations == {"installed", "running", "install", "run", "uninstall", "close"}
Facts      == {"installed", "not installed", "live"}
Messages   == [client : Clients, socket : Nat, op : Operations, dep : Deps]

TypeOK ==
  /\ call \in [Clients -> [op : Operations, dep : Deps]]
  /\ waiting \subseteq Clients
  /\ left \in [Clients -> 0..Attempts]
  /\ socket \in [Clients -> Nat]
  /\ calls \in 0..MaxCalls
  /\ answer \in [Clients -> {"none", "ok", "failed", "true", "false", "timeout"}]
  /\ inbox \in [Clients -> Seq(Messages)]
  /\ serving \subseteq Messages /\ halfway \subseteq serving
  /\ installed \subseteq Deps
  /\ entry \in [Deps -> {"none", "made", "tracked"}]
  /\ live \in [Deps -> Nat] /\ ended \in [Deps -> Nat]
  /\ held \in [Clients -> SUBSET Facts]

\* Nothing is asked yet; dependencies may run and be installed by earlier calls.
Init ==
  /\ call \in [Clients -> [op : {"installed"}, dep : Deps]]
  /\ waiting = {}
  /\ left = [c \in Clients |-> 0] /\ socket = [c \in Clients |-> 0]
  /\ calls = 0 /\ answer = [c \in Clients |-> "none"]
  /\ inbox = [c \in Clients |-> <<>>] /\ serving = {} /\ halfway = {}
  /\ installed \in SUBSET Deps
  /\ live \in [Deps -> 0..1] /\ ended = [d \in Deps |-> 0]
  /\ entry = [d \in Deps |-> IF live[d] = 1 THEN "tracked" ELSE "none"]
  /\ held = [c \in Clients |-> {}]

-----------------------------------------------------------------------------
(***************************************************************************)
(* The clients.                                                            *)
(***************************************************************************)
Message(c, s, op, d) == [client |-> c, socket |-> s, op |-> op, dep |-> d]

Sent(m) == [inbox EXCEPT ![m.client] = Append(@, m)]

\* The calls that wait for a reply.
Request(c, op, d) ==
  /\ c \notin waiting /\ calls < MaxCalls
  /\ op # "uninstall"
  /\ call' = [call EXCEPT ![c] = [op |-> op, dep |-> d]]
  /\ waiting' = waiting \cup {c}
  /\ left' = [left EXCEPT ![c] = Attempts - 1]
  /\ calls' = calls + 1
  /\ answer' = [answer EXCEPT ![c] = "none"]
  /\ inbox' = Sent(Message(c, socket[c], op, d))
  /\ UNCHANGED <<socket, serving, halfway, worldVars>>

\* Uninstall returns when its message is sent.
Submit(c, d) ==
  /\ c \notin waiting /\ calls < MaxCalls
  /\ call' = [call EXCEPT ![c] = [op |-> "uninstall", dep |-> d]]
  /\ calls' = calls + 1
  /\ answer' = [answer EXCEPT ![c] = "ok"]
  /\ inbox' = Sent(Message(c, socket[c], "uninstall", d))
  /\ UNCHANGED <<waiting, left, socket, serving, halfway, worldVars>>

\* (A faulty variant of Resend: it goes on for ever.)
ResendAlways(c) ==
  /\ c \in waiting
  /\ socket' = [socket EXCEPT ![c] = @ + 1]
  /\ left' = [left EXCEPT ![c] = @ - 1]
  /\ inbox' = Sent(Message(c, socket'[c], call[c].op, call[c].dep))
  /\ UNCHANGED <<call, waiting, calls, answer, serving, halfway, worldVars>>

Resend(c) ==
  /\ c \in waiting /\ left[c] > 0
  /\ socket' = [socket EXCEPT ![c] = @ + 1]
  /\ left' = [left EXCEPT ![c] = @ - 1]
  /\ inbox' = Sent(Message(c, socket'[c], call[c].op, call[c].dep))
  /\ UNCHANGED <<call, waiting, calls, answer, serving, halfway, worldVars>>

\* (A faulty variant of GiveUp: the next call uses the socket of this one.)
GiveUpKeepsSocket(c) ==
  /\ c \in waiting /\ left[c] = 0
  /\ waiting' = waiting \ {c}
  /\ answer' = [answer EXCEPT ![c] = "timeout"]
  /\ UNCHANGED <<call, left, calls, socket, handlerVars, worldVars>>

GiveUp(c) ==
  /\ c \in waiting /\ left[c] = 0
  /\ socket' = [socket EXCEPT ![c] = @ + 1]
  /\ waiting' = waiting \ {c}
  /\ answer' = [answer EXCEPT ![c] = "timeout"]
  /\ UNCHANGED <<call, left, calls, handlerVars, worldVars>>

-----------------------------------------------------------------------------
(***************************************************************************)
(* The handler.                                                            *)
(***************************************************************************)
\* The messages of one socket come in order; those of several are mixed.
Arrived(c, k) == \A j \in 1..(k - 1) : inbox[c][j].socket # inbox[c][k].socket

Taken(c, k) == [inbox EXCEPT ![c] = RemoveAt(@, k)]

\* (A faulty variant of Take: requests are served side by side.)
TakeMore(c, k) ==
  /\ Arrived(c, k)
  /\ serving' = serving \cup {inbox[c][k]}
  /\ inbox' = Taken(c, k)
  /\ UNCHANGED <<clientVars, halfway, worldVars>>

Take(c, k) ==
  /\ serving = {}
  /\ Arrived(c, k)
  /\ serving' = {inbox[c][k]}
  /\ inbox' = Taken(c, k)
  /\ UNCHANGED <<clientVars, halfway, worldVars>>

\* The handler is through with m; whoever still waits for the reply gets it.
Reply(m, outcome) ==
  /\ serving' = serving \ {m} /\ halfway' = halfway \ {m}
  /\ IF m.op # "uninstall" /\ m.client \in waiting /\ m.socket = socket[m.client]
       THEN /\ waiting' = waiting \ {m.client}
            /\ left' = [left EXCEPT ![m.client] = 0]
            /\ answer' = [answer EXCEPT ![m.client] = outcome]
       ELSE UNCHANGED <<waiting, left, answer>>
  /\ UNCHANGED <<call, socket, calls, inbox>>

\* A parameter is missing or wrong, or the manager fails before it did anything.
Refuse(m) ==
  /\ m \in serving
  /\ m \notin halfway
  /\ Reply(m, "failed")
  /\ UNCHANGED worldVars

onDepInstalled(m) ==
  /\ m \in serving /\ m.op = "installed"
  /\ Reply(m, IF m.dep \in installed THEN "true" ELSE "false")
  /\ UNCHANGED worldVars

\* A child that boots or is slow does not answer in time.
onDepRunning(m) ==
  /\ m \in serving /\ m.op = "running"
  /\ \/ live[m.dep] > 0 /\ Reply(m, "true")
     \/ Reply(m, "false")
  /\ UNCHANGED worldVars

onInstallDep(m) ==
  /\ m \in serving /\ m.op = "install"
  /\ installed' = installed \cup {m.dep}
  /\ Reply(m, "ok")
  /\ UNCHANGED <<entry, live, ended>>

\* Uninstall does not ask whether the dependency runs.
onUninstallDep(m) ==
  /\ m \in serving /\ m.op = "uninstall"
  /\ installed' = installed \ {m.dep}
  /\ Reply(m, "ok")
  /\ UNCHANGED <<entry, live, ended>>

\* Run looks for the entry and the binary ...
onRunDep(m) ==
  /\ m \in serving \ halfway /\ m.op = "run"
  /\ entry[m.dep] = "none" /\ m.dep \in installed
  /\ halfway' = halfway \cup {m}
  /\ UNCHANGED <<clientVars, inbox, serving, worldVars>>

\* ... then makes the entry and starts the child.
Launch(m) ==
  /\ m \in halfway /\ m.op = "run"
  /\ entry' = [entry EXCEPT ![m.dep] = "tracked"]
  /\ live' = [live EXCEPT ![m.dep] = @ + 1]
  /\ Reply(m, "ok")
  /\ UNCHANGED <<installed, ended>>

\* The entry stays when the child cannot be started.
LaunchFails(m) ==
  /\ m \in halfway /\ m.op = "run"
  /\ entry' = [entry EXCEPT ![m.dep] = "made"]
  /\ Reply(m, "failed")
  /\ UNCHANGED <<installed, live, ended>>

\* Nobody answers the heartbeat in time, or a child does and is asked to close ...
onCloseDep(m) ==
  /\ m \in serving \ halfway /\ m.op = "close"
  /\ \/ Reply(m, "ok")
     \/ /\ live[m.dep] > 0
        /\ halfway' = halfway \cup {m}
        /\ UNCHANGED <<clientVars, inbox, serving>>
  /\ UNCHANGED worldVars

\* (A faulty variant of CloseEnds: it waits for the child without a timeout.)
CloseEndsWaits(m) ==
  /\ m \in halfway /\ m.op = "close"
  /\ live[m.dep] = 0
  /\ Reply(m, "ok")
  /\ UNCHANGED worldVars

\* ... which ends on its own (ChildEnds), in time or not.
CloseEnds(m) ==
  /\ m \in halfway /\ m.op = "close"
  /\ Reply(m, "ok") \/ Reply(m, "failed")
  /\ UNCHANGED worldVars

-----------------------------------------------------------------------------
(***************************************************************************)
(* The children, and the goroutines that wait for them.                    *)
(***************************************************************************)
ChildEnds(d) ==
  /\ live[d] > 0
  /\ live' = [live EXCEPT ![d] = @ - 1]
  /\ ended' = [ended EXCEPT ![d] = @ + 1]
  /\ UNCHANGED <<clientVars, handlerVars, installed, entry>>

EndHandled(d) ==
  /\ ended[d] > 0
  /\ ended' = [ended EXCEPT ![d] = @ - 1]
  /\ entry' = [entry EXCEPT ![d] = "none"]
  /\ UNCHANGED <<clientVars, handlerVars, installed, live>>

-----------------------------------------------------------------------------
Client(c) ==
  \/ \E d \in Deps : Submit(c, d) \/ \E op \in Operations : Request(c, op, d)
  \/ Resend(c) \/ GiveUp(c)

Serve(m) ==
  \/ onDepInstalled(m) \/ onDepRunning(m) \/ onInstallDep(m) \/ onUninstallDep(m)
  \/ onRunDep(m) \/ Launch(m) \/ LaunchFails(m) \/ onCloseDep(m)
  \/ CloseEnds(m) \/ Refuse(m)

Handler == (\E c \in Clients : \E k \in DOMAIN inbox[c] : Take(c, k)) \/ (\E m \in serving : Serve(m))

World == \E d \in Deps : ChildEnds(d) \/ EndHandled(d)

\* What is so of d.
FactsOf(d) ==
  {IF d \in installed THEN "installed" ELSE "not installed"}
    \cup (IF live[d] > 0 THEN {"live"} ELSE {})

\* Kept from the begin to the end of each call.
History ==
  held' = [c \in Clients |->
    (IF c \in waiting THEN held[c] ELSE {})
      \cup {f \in Facts : /\ c \in waiting \cup waiting'
                         /\ \E d \in Deps : d = call'[c].dep /\ f \in FactsOf(d)'}]

Next == ((\E c \in Clients : Client(c)) \/ Handler \/ World) /\ History

Spec == Init /\ [][Next]_vars

\* The handler goes on, and the timeouts of the clients expire.
FairSpec ==
  /\ Spec
  /\ WF_vars(Handler /\ History)
  /\ \A c \in Clients : WF_vars((Resend(c) \/ GiveUp(c)) /\ History)

-----------------------------------------------------------------------------
(***************************************************************************)
(* Properties.                                                             *)
(***************************************************************************)
\* The messages of a client that are not served yet.
PendingOf(c) == {m \in serving : m.client = c} \cup Range(inbox[c])

\* A dependency has at most one child, and an entry as long as it has, however
\* often clients time out, send Run again or close: Run's lookup and its entry
\* are two steps, between which no other request is served
\* (dep_handler/dev.go:34, dep_manager/dev.go:364-412).
OneChild == \A d \in Deps : live[d] <= 1 /\ (live[d] = 1 => entry[d] = "tracked")

\* The status of a dependency in module Lifecycle.
StatusOf(d) ==
  CASE live[d] > 0 -> "alive"
    [] live[d] = 0 /\ ended[d] > 0 -> "ended"
    [] live[d] = 0 /\ ended[d] = 0 -> IF entry[d] = "none" THEN "free" ELSE "lost"

Children == INSTANCE Lifecycle WITH Ids <- Deps, status <- [d \in Deps |-> StatusOf(d)]

\* The requests start, and the children end, as the manager promises in module
\* Lifecycle: also a Run that is sent again, comes late or overtakes a Close starts
\* no child before the end of the last was handled (dep_manager/dev.go:364-428).
ImplementsLifecycle == Children!Spec

\* A positive answer was true at some time of the call, and "not installed" was,
\* whatever the other clients do and which attempt is answered
\* (dep_client/dev.go:121-205).
AnswersWereTrue ==
  [][\A c \in waiting \ waiting' :
       /\ answer'[c] = "ok" /\ call[c].op = "run" => "live" \in held'[c]
       /\ answer'[c] = "ok" /\ call[c].op = "install" => "installed" \in held'[c]
       /\ answer'[c] = "true" /\ call[c].op = "running" => "live" \in held'[c]
       /\ answer'[c] = "true" /\ call[c].op = "installed" => "installed" \in held'[c]
       /\ answer'[c] = "false" /\ call[c].op = "installed" => "not installed" \in held'[c]]_vars

\* A client that is answered knows that what it submitted before on that socket
\* was done: an Install that follows an Uninstall cannot be overtaken by it,
\* unless a timeout came in between (dep_client/dev.go:100, 143).
SubmittedIsServed ==
  [][\A c \in waiting \ waiting' : answer'[c] # "timeout" =>
       \A m \in PendingOf(c)' : m.socket # socket[c]]_vars

\* An Uninstall nobody waits for is served in the end, whatever dependencies do
\* that other clients run and close (dep_client/dev.go:88-106).
UninstallIsServed ==
  \A c \in Clients :
    LET Pending == \E m \in PendingOf(c) : m.op = "uninstall"
    IN  Pending ~> ~Pending

-----------------------------------------------------------------------------
(***************************************************************************)
(* What the documentation of the repository says of this code, and the     *)
(* code does not do: the subject of a run that refutes it.                 *)
(***************************************************************************)
\* "Trying to uninstall already running application will fail"
\* (dep_manager/dev.go:493): the binary of a live child stays.
RunningStaysInstalled ==
  [][\A d \in installed \ installed' : live[d] = 0]_vars
=============================================================================

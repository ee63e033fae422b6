# Verification of dev-lib

TLA+ models of [dev-lib](../src), the library with which a service installs,
runs and stops the services it depends on, the TLC configurations that check
them on small instances, and proofs that TLAPS checks for instances of any
size.  Paths below are relative to `src/`.

    tlc -workers 2 -config DepProcess_safety.cfg MCDepProcess   # a run
    tlapm DepProcessProofs.tla                                  # the proofs

`PROJECT.json` lists the runs, what each definition models (`map`), the
hazards with the properties that cover them, the findings, and for each property
a faulty variant of the code (`mutants`) that the property notices.

## 1. The system

| Component | State | Operations | Talks to |
|---|---|---|---|
| `source` (`source/dep.go`) | a `Src`: url, git url, branch, local directory | `New`, `SetBranch` | file system (does the local source exist?) |
| `dep_manager` (`dep_manager/dev.go`) | `runningDeps`: id to `*Dep`; `Src`, `Bin`; per `*Dep` paths, flags, `cmd`, `done` | storage: `NewDep`, `Lint`, `Installed`, `Install`, `Uninstall`; processes: `Run`, `wait`, `OnStop`, `Running`, `Close` | git, the go tool, the file system, child processes and their sockets |
| `dep_handler` (`dep_handler/dev.go`) | the manager | six routes, one per operation of the manager | called by `dep_client` over a socket |
| `dep_client` (`dep_client/dev.go`) | a socket, with a timeout and a number of attempts | one request per route; `Uninstall` is submitted without a reply | `dep_handler` |
| `proxy_handler` (`proxy_handler/proxy_handler.go`) | `proxyChains`, `proxyUnits` | `SetProxyChain`, `SetUnits`, `StartLastProxies`, five queries; `onClose` in the manager thread | configuration engine, `dep_client` |
| `proxy_client` (`proxy_client/proxy_client.go`) | a socket | one request per route | `proxy_handler` |
| context (`dev.go`, `context.go`, `type.go`) | which threads were started, clients | `StartConfig`, `StartDepManager`, `StartProxyHandler`, `Close` | starts and closes all of the above |
| `config.go` | none | two default paths | configuration engine |
| `dep_manager/interface.go` | none | declarations | |

A service makes a `Context`, which starts three threads: the configuration
engine (of config-lib), the dependency handler and the proxy handler.  The
proxy handler asks the dependency handler, through a `dep_client`, to install
and run proxies.  The dependency handler spawns them as child processes; one
goroutine per child waits for its end.  A child that is up answers on its own
socket, by which `Running` and `Close` reach it.

What is hard here, and what makes each part correct:

- **Processes.** `runningDeps` has no lock although the goroutine of each child
  uses it, and that goroutine looks its child up *by id* three times, with
  other calls in between.  Correct means: an id has one live child; a goroutine
  waits on, signals and removes its own child only; nobody dereferences nil; an
  entry goes only after its child; each exit is reaped and signalled.
- **Storage.** Install and Uninstall are sequences of steps on files, each of
  which may fail or be the last before the program is killed; users share the
  file system.  Correct means: nothing of the user is replaced or deleted; the
  source directory of a url holds that url's code; what Install built is what
  was asked for; Uninstall leaves nothing.
- **Proxies.** Starting and closing run in two threads, over proxies that boot,
  register, exit, answer late, and over calls that report an error after they
  took effect, or take effect after they reported one.  Correct means: an ok of
  StartLastProxies or of a close is truthful; a failed close can be repeated.
- **Chains and units.** Sets are sent again after a timeout, so that they arrive
  late or twice, and units are kept by *pointer* to a rule.  Correct means: no
  query returns what was replaced for good.
- **Messages.** A client that times out sends again on a new socket, while the
  handler still serves the first attempt; `Uninstall` is submitted without a
  reply.  Correct means: an answer was true in the call that got it, whichever
  attempt it answers; repeated Runs do not make two children; a submission is
  not overtaken and not lost.
- **Context.** A start or a close that fails half way, or that was done and not
  answered.  Correct means: the context knows what runs; parts close in order,
  also when Close is repeated; nothing that could be closed is forgotten.

## 2. Modules

| Module | What it is |
|---|---|
| `Lifecycle` | abstract, for the callers of the manager: under an id there is one child at a time |
| `Supervision` | abstract, for the manager: an id has one owner, from before the launch of a child until its end was reported; implements `Lifecycle` |
| `SupervisionProofs` | theorems about `Supervision` |
| `DepProcess` | `Run`, `wait`, `OnStop`, `Running`, `Close`; implements `Supervision`, hence `Lifecycle` |
| `DepProcessProofs` | theorems about `DepProcess` |
| `MCDepProcess` | symmetry for its runs |
| `DepStore` | `NewDep`, `Lint`, `Installed`, `Install`, `Uninstall` over the file system |
| `DepStoreProofs` | theorems about `DepStore` |
| `MCDepStore` | urls and names for its runs |
| `DepHandler` | `dep_client` and `dep_handler`: requests, timeouts, attempts, submissions, the six routes, over an abstract manager |
| `DepHandlerProofs` | theorems about `DepHandler` |
| `ProxyChains` | pure operators on chains and units, shared by `ProxyHandler` and `ProxyRegistry` |
| `ProxyChainsProofs` | lemmas about them |
| `ProxyHandler` | `SetProxyChain`, `StartLastProxies`, `onClose`, with the proxies as processes |
| `ProxyHandlerProofs` | theorems about `ProxyHandler` |
| `MCProxyHandler` | chains for its run |
| `ProxyRegistry` | `proxy_client` and the routes that set and query chains and units |
| `ProxyRegistryProofs` | theorems about `ProxyRegistry` |
| `MCProxyRegistry` | chains and lists for its runs |
| `DevContext` | the context: starts, `Close`, queries, default paths |
| `DevContextProofs` | theorems about `DevContext` |

Each layer sees the one below by its promises: `DevContext` has threads that are
up or down, `ProxyHandler` calls of the dependency handler that may fail, take
effect without being answered or take effect late (what `DepHandler` allows),
`DepHandler` a manager with one entry per dependency, and of the binaries whether
they exist (`DepStore`).  What the layers suppose of the children is one
specification, `Lifecycle`: the status of an id is `free`, `alive`, `ended`, or
`lost` after a start that failed.  `DepProcess` implements it by way of
`Supervision`, `DepHandler` and `ProxyHandler` with the manager they are modelled
over, each under a refinement mapping `StatusOf`.

### DepProcess

`pc`, `arg`, `self` and `ret` are the program counter and the locals of the
handler thread, in a call of `Run` (steps `installed` ... `track`) or `Close`
(`request` ... `verify`).  `waiter[i]` is the program counter of the goroutine
of instance `i`; `listening[l]` and `channel[l]` a goroutine that received
`OnStop`'s channel.  `key[i]` is the id under which the `*Dep` was stored, which
the closure of `wait` captures; `cmd[i]` and `done[i]` are its fields.

A write of the map is a pair of actions (`RunInsertBegin`/`End`,
`WaitDeleteBegin`/`End`) with the writer in `mapWriters` between them.  An
access that overlaps such a window may have two outcomes, as in a Go build: the
runtime notices and the program ends (`crash = "map race"`), or the access
takes effect.  Nothing moves after a crash.

### DepStore

A path is a name in the manager's directories or a user's own path; `src` and
`bin` say what is there: `None`, or the url and branch it came from and whether
it is all of it (`whole`) or the part that an unfinished clone or deletion leaves.
`phase` is the step of the call.  `Crash` ends the program in a call; the files
stay.  Users change their own files at any time.  Whether a user's path begins
with a directory of the manager (the test in `Lint`) is a constant (`OwnedSrcs`,
`OwnedBins`).

Nothing in the code tells a part of a source from all of it: `Install` takes any
directory for the source (`SrcExist`), and `Tidy` and `Build` may succeed on a
part, or fail, as the go tool finds it (`BuildFails`). So a binary of a part is
in the model: a clone that is killed, or a deletion that is killed or fails,
leaves a source that the next Install may build and call installed, in line with
`README.md:160` ("if the source exists, then it will call `go build`"). `torn`
is history, read by no action: the names where a clone was killed, or a deletion
killed or broken off by an error, and that were not deleted since.
`InstalledIsWhole` says that a part is built nowhere else.

### DepHandler

`call`, `waiting`, `left` and `answer` are the call a client is in, and its
result; `inbox[c]` has what `c` sent and the handler has not taken.  A timeout
makes the client open a new socket (`socket[c]` counts them) and send again
(`Resend`), or give up; a reply for an old socket is dropped (`Reply`).
Messages of one socket arrive in order, those of different sockets in any
(`Arrived`).  The handler takes one message and serves it, also when nobody
waits any more.  `onRunDep` and `onCloseDep` take two steps (`halfway`), as `Run`
and `Close` of the manager look first and act later; the others are one, since
what is between their steps is in `DepStore`.  `entry`, `live` and `ended` are
the manager's entry of a dependency, its children alive, and those whose end the
goroutine has not handled: counters, so that a second child could be told.
`held` is history: what was so at some time of the current call.  At the start a
child may already run.

### ProxyHandler

`pc`, `proxies`, `todo`, `current` and `seen` are the locals of
`onStartLastProxies` (`seen` is the configuration it read once), `closing`,
`managers` and `left` those of `onClose` and `closeProxies`.  The route thread
serves until `SetClose`, also after `ResetChains` has cleared the chains.  Each call of the
dependency handler is one step; it may report an error with or without its
effect, and a Run that timed out may be served later (`queued`, `LateRun`).
`child[p]` combines the entry and the process of a proxy: `stuck` is an entry
whose start failed, `exited` one whose goroutine has not removed it yet.
Binaries come and go by other callers (`BinariesChange`).  Proxies in `Slow` may
miss a heartbeat while they serve.  `wasUp` and `lasting` are history, kept by
`Next` for every step and read by no action.

The order in which a loop takes its proxies is left open.  With the chains as
the code keeps them (see the finding about `OtherChainsKept`) the list of last
proxies never has more than one element, so that loop's failure between two
proxies does not arise; closing does go over several.

### ProxyRegistry

`proxyChains` and `proxyUnits` are the fields of the handler; the map of units
is a set of entries, since its keys are pointers and two entries of equal rules
are possible for all the type says. A set is answered (`Answered`) or not
(`TimedOut`); either may leave attempts in `late`, which are served at any later
time, also more than once (`ServeLate`), or never (`Lost`). A query is one step:
it reads what the route finds. `onClose` clears the chains (`ResetBegin`,
`ResetChains`), then the units (`ResetUnits`), and only then ends the service
(`SetClose`), in the manager thread; the routes are served all the while. One
that reads `proxyChains` while it is written may read a torn slice header and
panic (`ChainsAccess`), and between the resets and `SetClose` queries find less
than was set and answered, or what is set in between. `mayUnits` and `mayChain`
are history: what a query may return, which an answered set narrows to what it
set and what is still on its way, and a reset to the empty list, or no chain,
and what is still on its way.

### DevContext

`thread[p]` is the thread of the engine, the dependency handler or the proxy
handler; `known` the parts whose field in `Context` is set, which is what
`IsRunning` and the other queries answer. The two differ when a client for the
manager of a thread that was started could not be made (`LeftBehind`, kept in
`half`), and when a close was done and its answer came too late
(`CloseUnanswered`, kept in `unanswered`). A thread ends some time after it
answered its close, and its address is taken until then, so that a restart may
fail. `Close` goes part by part (`pc`), and ends at the first failure. `config`
and `dirs` are the two paths in the engine and those that `SetPaths` was given.

## 3. Assumptions about code outside of this repository

- handler-lib: a replier serves one request at a time, and its handler manager is
  a thread of its own.  **The dependency handler asks for `ReplierType`
  (`dep_handler/dev.go:34`).** Where handler-lib serves such a handler by several
  instances at once, the lookup and the insertion of `Run` are not atomic:
  `DepHandler` shows it with the variant `TakeMore`, under which a dependency gets
  two children (`OneChild`) and an Install is answered before the Uninstall in
  front of it (`SubmittedIsServed`).
- client-lib: after a timeout a socket is closed and opened anew before the next
  attempt and before the next call, so that a late reply is never taken for
  another's; messages of one socket keep their order.  `GiveUpKeepsSocket` shows
  what breaks otherwise (`AnswersWereTrue`).  One socket serves one call at a time.
- handler-lib: the constructor of a manager client returns nil with its error;
  a thread that is closing answers nobody.
- go-git removes what it created when a clone fails (not when it is killed).
- config-lib: `IsEqualRule` is true of a rule and itself (the test at
  `proxy_handler_test.go:233` needs it); `LastProxies` returns the last proxy of
  each chain, without duplicates; `engine.Service` returns a copy; `SetDefault`
  counts only where nothing is configured.
- The go tool replaces a binary at once, when a build has succeeded; whether it
  builds a source that is not all there is left open.  What `go mod tidy` writes
  into the `go.mod` of a source before a build is not modelled: the properties speak
  of directories replaced and removed.
- The file system tells whether a binary exists.  Where it does not, `Installed`
  takes the error for "no" (`dep_manager/dev.go:217`), and `Uninstall` returns ok
  without deleting the binary: `UninstallRemovesAll` does not cover this.  An error
  about the source is reported, and modelled ("check failed").
- The operating system starts a process only if its binary exists, and
  `cmd.Wait` returns when that process has exited.

## 4. Runs

Passing runs:

| Run | Instance | Shows |
|---|---|---|
| `process_safety` | 2 ids, 3 Runs, 1 listener, symmetry | the safety of processes, and that `IInv` of the proofs is an invariant |
| `process_liveness` | 1 id, 2 Runs, 2 listeners | exits are reaped and signalled; `DepProcess` implements `Supervision` and `Lifecycle` |
| `store_safety` | 2 urls; a source of a user inside the manager's directories, a source and a binary outside; symmetry | files of users are kept, sources are not mixed up, Install builds what was asked for, all of it unless a clone or a deletion was broken off, Uninstall is complete; `IInv` of the proofs is an invariant |
| `handler_safety` | 1 dependency, 2 clients, 2 attempts, 2 calls | one child whatever is sent twice, as in `Lifecycle`; answers were true; submissions are served, in order |
| `proxies_safety` | 2 proxies, one slow; 2 chains of 2 rules; 1 fault | an ok of a start or of a close is truthful; a repeated close succeeds |
| `registry_safety` | 2 rules, 3 chains (one empty), 2 lists of units, 2 late sets | queries return nothing that was replaced or cleared for good, up to the end of serving |
| `context_safety` | 2 refused closes | queries are true; no handler serves without the engine; the dependency handler is closed after the proxy handler; nothing is forgotten; a repeated Close succeeds; each but for the exceptions it names |

Bounds.  `Instances` bounds the number of Runs that get past the lookup: three
are enough for an id to be run, to end and to be run again while another id is
in use, which is what a goroutine that looks up by id could confuse.
`MaxFaults` bounds the failed attempts of a close, without which a user could be
refused for ever; one is enough for `ProxyHandler`, whose repetition only begins
anew, and two for `DevContext`, where two different parts may refuse.
`MaxCalls` bounds the calls of `DepHandler`: each is sent up to twice, and a
dependency may run at the start, so that a late Run, a repeated one and a Close or
an Uninstall of the other client meet.  `MaxLate` bounds the sets that are on
their way at one time, not how often they are served: two can overtake each
other.  `process_liveness` has one id, run twice, so that the goroutine of
the first child and the second Run meet at every step; ids share nothing but the
map, whose races `process_safety` covers with two.  `store_safety` has no
branch: a branch changes only which content is cloned (`store_branch`).  Its two
urls, each with its name, are interchangeable (`MCDepStore`).  It has no binary of a
user inside the manager's directories: it is built and deleted as those of the
names are, and the proofs cover it.
The rest is bounded by the sets of the instance.  Two urls are enough to mix up
sources, which involves a writer and a victim; two proxies are enough to fail
between two.  Deadlock is not checked in the runs of `DepProcess` (the program
may end, and the Runs be used up), of `DepHandler` (the calls are used up) and of
`ProxyHandler` and `ProxyRegistry` (a closed handler may stop); it is in those of
`DepStore` and `DevContext`.

Fairness.  `DepProcess`: a call that has begun, each goroutine and each receive
are scheduled (the Go scheduler and the operating system); nobody has to call
anything, and no child has to boot, answer or exit.  `DepHandler`: the handler
goes on while there are messages, and timeouts expire; no client has to call and
no child has to end.  `ProxyHandler`: the manager thread is scheduled and the
caller tries a close again after a failure, as `Context.Close` allows.
`DevContext`: a service that has decided to quit calls `Close` until it succeeds
(one that gives up has lost its threads anyhow), and no thread has to end.  The
consequents of liveness properties admit the death of the program, and in
`DevContext` a close that was done and not answered: the context then believes a
dead thread to be up, and every later Close fails on it.

Runs that refute what the repository says of itself, one property each:

| Run | What is said | What happens |
|---|---|---|
| `process_close` | stops the dependency (`dep_handler/dev.go:234`) | a booting or slow child survives an ok |
| `store_branch` | checks the branch out (`source/dep.go:14`) | an existing source is built, whatever branch |
| `handler_uninstall` | uninstalling what runs fails (`dep_manager/dev.go:493`) | the binary of a live child is removed |
| `registry_overwritten` | overwrites the chain of the same rule (`proxy_handler_test.go:233`, `proxy_client.go:16`) | overwrites the first chain of any rule |
| `context_paths` | which path is which (`config.go:12`, `14`) | `SetPaths` gets them swapped (`dev.go:188`) |

More disagreements can be read off the models, and no run states them:

- the stop signal is sent before the entry is deleted (`WaitSend`, against
  "the closed service is removed", `dep_manager/dev_test.go:651`);
- after a start that failed, every Run of the id is "already running"
  (`RunStartFails`, `dep_manager/dev.go:366`);
- the end of a child races on the map and may kill the parent (`MapAccess`,
  against `README.md:118`);
- `OnStop` of an id without an entry, or whose start failed, returns a nil
  channel, and a receive from it, or from one whose signal another receiver took,
  blocks for ever (`Receive`, against "it will simply return error",
  `dep_manager/dev.go:329`);
- a binary of a user below the manager's directory can be deleted (`Lint`,
  against `dep_manager/dev.go:33`);
- `StartLastProxies` says ok without the proxies that were set but have no manager
  yet (against "starts all proxies", `proxy_client/proxy_client.go:22`), and one
  in progress, or a Run of it that comes late, starts proxies after `onClose` has
  passed them (against `proxy_handler/proxy_handler.go:418`);
- a `Close` without an error leaves the threads of a start that failed half way
  (`LeftBehind`, against "Close the dep handler and config handler",
  `dev.go:109`).

## 5. Proofs

All theorems are of the form `Spec => ...` and hold for every value of the
constants that satisfies the module's named assumption (`ThreadsAssumption`:
threads have different names and nil is none; `PathsAssumption`: names are not
users' paths, owned paths are users' paths, and nil is none of them;
`CallsAssumption`: a call has at least one attempt; `ChainsAssumption` and
`RegistryAssumption`: chains are of rules and proxies, the empty list of units is
a list, and no rule is the empty one; `FaultsAssumption`: a bound is a number).

**DepProcess.**  The safety properties are not inductive: that a goroutine finds
its own child depends on where `Run` is.  `IInv` adds to the types

- `HandlerInv`: what the position of the handler in `Run` says of its id (free
  until the insertion, its own after it) and of the instance it works on;
- `KeyInv`: the map and the ids the instances were stored under agree;
- `TrackInv`: `cmd` is set exactly when the goroutine was started, and a child
  without a goroutine is the one `Run` is about to track;
- `WaiterInv`, one `WaiterOK(i)` per goroutine: from its start to the end of its
  delete, the entry of its id is itself, its `cmd` is set, its channel is empty
  until it sends, and its process has exited from then on.

The step that carries the argument is `RunLookup`: a second Run of an id is
refused as long as the entry is there, and only the goroutine itself removes it,
so no goroutine can meet another's entry.  `Implements` follows from `IInv`: each
action of `DepProcess` is a step of `Supervision` or a stutter.

**Lifecycle.**  `SupervisionProofs` shows that an attempt that has begun and
whose end was not handled has exactly one id (`OwnedInv`), hence that its launch,
failure and death move the status of one id, and claims and reports of none.
`DepProcessProofs` takes this theorem over through the refinement mapping and so
gets from the code's steps to `Lifecycle` (`ChildrenLive`).  `DepHandlerProofs`
and `ProxyHandlerProofs` show the same of the managers they are modelled over, in
`DepHandler` from `EntryInv` and `LookupInv`.  `ProxyHandler` has no run for it:
a step of its manager is one step of `Lifecycle`, and the theorem says it of any
number of proxies.  `Supervision` needs no assumption on its constants.

**DepStore.**  `PhaseInv` says what the position in a call implies: the `*Dep` is
known, sources are written only if manageable, binaries built only if
manageable, and a source that was to be deleted is gone when the binary's turn
comes.  With it, each step writes where `Lint` says (`WritesOwnSource`), which
is a name of the url or an owned path, never another path of a user.  What is built
is then of the url that was asked for, be it a part (`InstallsWhatIsAsked`).
`WholeInv` says that a part lies only where a clone or a deletion is at work or was
broken off: each step that leaves one before its end makes the name `torn`
(`BrokenIsTorn`), and only the end of a deletion mends it.  Hence
`InstallsAllOfIt`, which assumes nothing of the go tool.

**DepHandler.**  `OneChild` counts children, so its strengthening counts too:
`EntryInv` says that the children of a dependency, alive or ended and not
handled, are one exactly if the entry is tracked.  A Run adds a child after a
lookup made earlier; `LookupInv`, that the lookup still holds, follows because
only `Launch` and `LaunchFails` make entries and `OneServed` leaves no other Run
in progress.  For this nothing is needed of the messages: whatever is sent,
dropped or repeated, the handler is safe.

What an answer means is another matter (`CallInv`).  A reply is taken if it comes
from the socket that the client uses now.  `SocketInv` says that every message
comes from a socket its client has opened, so that a new socket
has none; `RequestInv` that a message from the current socket which has a reply is
the request of the call its client is in, which is why `GiveUp` has to leave its
socket behind; `OrderInv` that nothing was sent on that socket after it.  Then
the answer, given when the handler is through, tells what is so while the client
waits (`AnswersHold`, with the history `held`), and a client with an answer has
nothing more on its socket: messages of one socket are taken in order, so what it
submitted before was done (`SubmittedServed`).

**ProxyRegistry.**  `UnitsAreLastSet` needs that no two entries have equal rules
(`OneEntry`; the lemma `SetUnitsSets` says what the search of `setUnits` achieves
then), that each entry and each late set is among what may be answered
(`EntriesInv`, `LateInv`), and that the empty list is, while a rule has no entry
(`NoEntryInv`).  The last holds throughout the reset: `ResetUnits` takes the entries
away and admits the empty answer in one step, and a set that is served before
`SetClose` makes an entry again.  Since a set in `late` may be served at any time, `LateInv` is
what makes an answered set narrow the answers to itself and the late ones only.
Chains (`ChainInv`): at most one is stored (`OneChain`, for the reason that
`registry_overwritten` shows), and it and the late sets are among what may be
answered (`ChainsInv`, `LateChainsInv`), also while `ResetChains` clears them.  `ChainsAreLastSet` for the five queries
follows with the lemmas of `ProxyChainsProofs`, which say where a search of the
chains can end.

**ProxyHandler.**  `LoopInv` says that whatever the loop of `onStartLastProxies`
has left behind was up since it began (`wasUp`), or has no manager in the copy of
the configuration; it holds because each way to go on (`AskRunning`, `Run`,
`SkipUnmanaged`) ends with that proxy up or skipped, and `wasUp` only grows in a
call.  `CloseInv` says the same of `onClose`: none that it has left behind has been
serving ever since (`lasting`), except slow ones, and when it comes to the reset
and to `SetClose` none is left.  Neither needs to know what the other thread, late Runs and the
proxies do.

**DevContext.**  `OrderInv` says which parts a Close in progress has cleared, and
`ThreadInv` that every thread that is up is known or was left behind, and none
that closed unanswered is up.  With `KnownIsUp` and `KnownHaveEngine`, that the
context knows no handler without the engine, they are inductive.
`HandlersHaveEngine` speaks of threads: by `ThreadInv` one that is up and was not
left behind is known, and `KnownHaveEngine` applies.  The action properties follow;
a Close that returns ok comes from the engine's part with `OrderInv`, so that
nothing is known afterwards.

Model-checked only: liveness (`ExitedChildIsReaped`, `ListenerIsSignalled`,
`UninstallIsServed`, both `CloseSucceeds`), which is beyond the prover, and the
counterexamples.  Every invariant and action property of a passing run is stated
by a theorem.

## 6. Not modelled, and the plan

Not modelled: the conversion of urls (`source/dep.go`), messages and their
encoding, logging, arguments passed to children; sockets that leak after a
heartbeat that failed (`dep_manager/dev.go:296`) or when a client of the context
is replaced; the setters and getters of the context, which keep a pointer
(`SetConfig`, `SetDepClient`, `SetProxyClient`); `dep_manager/interface.go`,
which only declares; the services that the tests install, whose directories are
empty here.

What is left, in this order:

1. `DepProcess` with several handler threads, for a dependency handler served by
   several instances: which of its properties survive, step by step.
2. `DepStore` and `DepProcess` composed, with a binary that is built anew or
   removed while it starts; of the binary an abstract specification, as
   `Lifecycle` is of the children.

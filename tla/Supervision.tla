------------------------------ MODULE Supervision -----------------------------
(***************************************************************************)
(* What DepManager promises to those who run dependencies through it: an   *)
(* id belongs to one child at a time, from before the child is launched    *)
(* until its end was reported.  No map, no locks, no goroutines: each      *)
(* action is one atomic step.                                              *)
(***************************************************************************)
CONSTANTS
  Ids,        \* ids under which dependencies are run
  Instances,  \* attempts to run one
  None        \* nobody

VARIABLES
  owner,  \* [Ids -> Instances or None], the attempt an id belongs to
  stage   \* [Instances -> Stages], how far an attempt came

vars == <<owner, stage>>

Stages == {"fresh",     \* not begun
           "claimed",   \* has its id, no child yet
           "failed",    \* could not launch a child; the id is lost to it
           "live",      \* the child is alive
           "dead",      \* the child has exited, nobody was told
           "reported",  \* its end is in the done channel
           "reaped"}    \* the id is free again

TypeOK == owner \in [Ids -> Instances \cup {None}] /\ stage \in [Instances -> Stages]

Init == owner = [id \in Ids |-> None] /\ stage = [i \in Instances |-> "fresh"]

Advance(i, from, to) == stage[i] = from /\ stage' = [stage EXCEPT ![i] = to]

Claim(id, i) ==
  /\ owner[id] = None
  /\ owner' = [owner EXCEPT ![id] = i]
  /\ Advance(i, "fresh", "claimed")

Abort(i)  == Advance(i, "claimed", "failed") /\ UNCHANGED owner
Launch(i) == Advance(i, "claimed", "live")   /\ UNCHANGED owner
Die(i)    == Advance(i, "live", "dead")      /\ UNCHANGED owner
Report(i) == Advance(i, "dead", "reported")  /\ UNCHANGED owner

Reap(id, i) ==
  /\ owner[id] = i
  /\ owner' = [owner EXCEPT ![id] = None]
  /\ Advance(i, "reported", "reaped")

Next == \E i \in Instances :
          \/ \E id \in Ids : Claim(id, i) \/ Reap(id, i)
          \/ Abort(i) \/ Launch(i) \/ Die(i) \/ Report(i)

Spec == Init /\ [][Next]_vars

-----------------------------------------------------------------------------
(***************************************************************************)
(* An id as the callers of the manager see it: module Lifecycle.           *)
(***************************************************************************)
StatusOf(id) ==
  CASE owner[id] = None -> "free"
    [] owner[id] # None ->
         CASE stage[owner[id]] \in {"fresh", "claimed", "reaped"} -> "free"
           [] stage[owner[id]] = "failed"                         -> "lost"
           [] stage[owner[id]] = "live"                           -> "alive"
           [] stage[owner[id]] \in {"dead", "reported"}           -> "ended"

Children == INSTANCE Lifecycle WITH status <- [id \in Ids |-> StatusOf(id)]

\* Who runs dependencies under an id needs to know no more of it than Lifecycle says
\* (dep_manager/dev.go:356-428).
ImplementsLifecycle == Children!Spec
==============================================================================

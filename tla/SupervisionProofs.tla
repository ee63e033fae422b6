--------------------------- MODULE SupervisionProofs ---------------------------
(***************************************************************************)
(* Supervision implements Lifecycle, for any ids and attempts.             *)
(***************************************************************************)
EXTENDS Supervision, TLAPS

\* An id belongs to an attempt that has begun and whose end was not handled, and no
\* attempt has two ids.
OwnedInv ==
  \A id \in Ids : owner[id] # None =>
    /\ stage[owner[id]] \in {"claimed", "failed", "live", "dead", "reported"}
    /\ \A other \in Ids \ {id} : owner[other] # owner[id]

IInv == TypeOK /\ OwnedInv

-----------------------------------------------------------------------------
LEMMA InitIInv == Init => IInv
BY DEF Init, IInv, TypeOK, OwnedInv, Stages

\* An attempt that advances keeps its id.
LEMMA AdvanceStep ==
  ASSUME IInv, NEW i \in Instances, NEW from,
         NEW to \in {"claimed", "failed", "live", "dead", "reported"},
         Advance(i, from, to), UNCHANGED owner
  PROVE  IInv'
BY DEF IInv, TypeOK, OwnedInv, Stages, Advance

LEMMA ClaimStep ==
  ASSUME IInv, NEW i \in Instances, NEW id \in Ids, Claim(id, i) PROVE IInv'
<1>1. /\ owner[id] = None /\ owner' = [owner EXCEPT ![id] = i]
      /\ stage[i] = "fresh" /\ stage' = [stage EXCEPT ![i] = "claimed"]
  BY DEF Claim, Advance
<1>2. TypeOK' BY <1>1 DEF IInv, TypeOK, Stages
<1>3. \A x \in Ids : owner[x] # None => owner[x] # i
  BY <1>1 DEF IInv, OwnedInv
<1>4. OwnedInv'
  <2> SUFFICES ASSUME NEW x \in Ids, owner'[x] # None
               PROVE  /\ stage'[owner'[x]] \in {"claimed", "failed", "live", "dead", "reported"}
                      /\ \A y \in Ids \ {x} : owner'[y] # owner'[x]
    BY DEF OwnedInv
  <2>1. CASE x = id BY <1>1, <1>3, <2>1 DEF IInv, TypeOK
  <2>2. CASE x # id BY <1>1, <1>3, <2>2 DEF IInv, TypeOK, OwnedInv
  <2> QED BY <2>1, <2>2
<1> QED BY <1>2, <1>4 DEF IInv

LEMMA ReapStep ==
  ASSUME IInv, NEW i \in Instances, NEW id \in Ids, Reap(id, i) PROVE IInv'
<1>1. /\ owner[id] = i /\ owner' = [owner EXCEPT ![id] = None]
      /\ stage' = [stage EXCEPT ![i] = "reaped"]
  BY DEF Reap, Advance
<1>2. TypeOK' BY <1>1 DEF IInv, TypeOK, Stages
<1>3. OwnedInv'
  <2> SUFFICES ASSUME NEW x \in Ids, owner'[x] # None
               PROVE  /\ stage'[owner'[x]] \in {"claimed", "failed", "live", "dead", "reported"}
                      /\ \A y \in Ids \ {x} : owner'[y] # owner'[x]
    BY DEF OwnedInv
  <2>1. x # id /\ owner'[x] = owner[x] BY <1>1 DEF IInv, TypeOK
  <2>2. owner[x] # i BY <1>1, <2>1 DEF IInv, OwnedInv
  <2>3. stage'[owner[x]] = stage[owner[x]] BY <1>1, <2>1, <2>2 DEF IInv, TypeOK
  <2>4. \A y \in Ids \ {x} : owner'[y] # owner'[x]
    BY <1>1, <2>1 DEF IInv, TypeOK, OwnedInv
  <2> QED BY <2>1, <2>3, <2>4 DEF IInv, OwnedInv
<1> QED BY <1>2, <1>3 DEF IInv

LEMMA Inductive == IInv /\ [Next]_vars => IInv'
<1> SUFFICES ASSUME IInv, [Next]_vars PROVE IInv'
  OBVIOUS
<1>1. CASE UNCHANGED vars BY <1>1 DEF vars, IInv, TypeOK, OwnedInv
<1>2. CASE Next
  BY <1>2, AdvanceStep, ClaimStep, ReapStep DEF Next, Abort, Launch, Die, Report
<1> QED BY <1>1, <1>2

\* An id belongs to one attempt, from its claim until its end was handled, and an
\* attempt to one id (dep_manager/dev.go:364-428).
THEOREM Ownership == Spec => []IInv
BY InitIInv, Inductive, PTL DEF Spec

-----------------------------------------------------------------------------
\* The status of an id depends on its owner and how far that came; the attempt of one
\* id is not that of another.
LEMMA StatusMoves ==
  ASSUME NEW id \in Ids, NEW from, NEW to, StatusOf(id) = from, StatusOf(id)' = to,
         \A x \in Ids \ {id} : StatusOf(x)' = StatusOf(x)
  PROVE  Children!Becomes(id, from, to)
BY DEF Children!Becomes

\* An attempt advances: its id moves with it, and no other does.
LEMMA AdvanceLives ==
  ASSUME IInv, NEW i \in Instances, NEW from, NEW to, Advance(i, from, to), UNCHANGED owner,
         \/ from = "claimed" /\ to \in {"failed", "live"}
         \/ from = "live" /\ to = "dead"
         \/ from = "dead" /\ to = "reported"
  PROVE  [Children!Next]_[id \in Ids |-> StatusOf(id)]
<1>1. stage[i] = from /\ stage' = [stage EXCEPT ![i] = to] /\ stage'[i] = to
  BY DEF Advance, IInv, TypeOK
<1>2. \A x \in Ids : owner[x] # i \/ owner[x] = None => StatusOf(x)' = StatusOf(x)
  <2> SUFFICES ASSUME NEW x \in Ids, owner[x] # i \/ owner[x] = None
               PROVE  StatusOf(x)' = StatusOf(x)
    OBVIOUS
  <2>1. CASE owner[x] = None BY <2>1 DEF StatusOf
  <2>2. CASE owner[x] # None
    <3>1. stage'[owner[x]] = stage[owner[x]] BY <1>1, <2>2 DEF IInv, TypeOK
    <3> QED BY <3>1 DEF StatusOf
  <2> QED BY <2>1, <2>2
<1>3. CASE \A x \in Ids : owner[x] # i \/ owner[x] = None
  BY <1>2, <1>3
<1>4. CASE \E x \in Ids : owner[x] = i /\ owner[x] # None
  <2>1. PICK id \in Ids : owner[id] = i /\ owner[id] # None BY <1>4
  <2>2. \A x \in Ids \ {id} : StatusOf(x)' = StatusOf(x)
    BY <1>2, <2>1 DEF IInv, OwnedInv
  <2>3. CASE to = "failed"
    <3>1. StatusOf(id) = "free" BY <1>1, <2>1, <2>3 DEF StatusOf
    <3>2. StatusOf(id)' = "lost" BY <1>1, <2>1, <2>3 DEF StatusOf
    <3> QED BY <2>2, <3>1, <3>2, StatusMoves DEF Children!Next, Children!StartFails
  <2>4. CASE to = "live"
    <3>1. StatusOf(id) = "free" BY <1>1, <2>1, <2>4 DEF StatusOf
    <3>2. StatusOf(id)' = "alive" BY <1>1, <2>1, <2>4 DEF StatusOf
    <3> QED BY <2>2, <3>1, <3>2, StatusMoves DEF Children!Next, Children!Start
  <2>5. CASE to = "dead"
    <3>1. StatusOf(id) = "alive" BY <1>1, <2>1, <2>5 DEF StatusOf
    <3>2. StatusOf(id)' = "ended" BY <1>1, <2>1, <2>5 DEF StatusOf
    <3> QED BY <2>2, <3>1, <3>2, StatusMoves DEF Children!Next, Children!End
  <2>6. CASE to = "reported"
    <3>1. StatusOf(id) = "ended" BY <1>1, <2>1, <2>6 DEF StatusOf
    <3>2. StatusOf(id)' = "ended" BY <1>1, <2>1, <2>6 DEF StatusOf
    <3>3. \A x \in Ids : StatusOf(x)' = StatusOf(x) BY <2>2, <3>1, <3>2
    <3> QED BY <3>3
  <2> QED BY <2>3, <2>4, <2>5, <2>6
<1> QED BY <1>3, <1>4

\* A claim is not seen: the id is free until the child is launched.
LEMMA ClaimLives ==
  ASSUME IInv, NEW i \in Instances, NEW id \in Ids, Claim(id, i)
  PROVE  [Children!Next]_[x \in Ids |-> StatusOf(x)]
<1>1. /\ owner[id] = None /\ owner' = [owner EXCEPT ![id] = i]
      /\ stage[i] = "fresh" /\ stage' = [stage EXCEPT ![i] = "claimed"]
  BY DEF Claim, Advance
<1>2. owner'[id] = i /\ stage'[i] = "claimed" BY <1>1 DEF IInv, TypeOK
<1>3. StatusOf(id) = "free" /\ StatusOf(id)' = "free"
  <2>1. StatusOf(id) = "free" BY <1>1 DEF StatusOf
  <2>2. StatusOf(id)' = "free" BY <1>2 DEF StatusOf
  <2> QED BY <2>1, <2>2
<1>4. \A x \in Ids \ {id} : StatusOf(x)' = StatusOf(x)
  <2> SUFFICES ASSUME NEW x \in Ids \ {id} PROVE StatusOf(x)' = StatusOf(x)
    OBVIOUS
  <2>1. owner'[x] = owner[x] BY <1>1 DEF IInv, TypeOK
  <2>2. owner[x] # None => stage'[owner[x]] = stage[owner[x]]
    BY <1>1 DEF IInv, TypeOK, OwnedInv
  <2> QED BY <2>1, <2>2 DEF StatusOf
<1>5. \A x \in Ids : StatusOf(x)' = StatusOf(x) BY <1>3, <1>4
<1> QED BY <1>5

LEMMA ReapLives ==
  ASSUME IInv, NEW i \in Instances, NEW id \in Ids, Reap(id, i)
  PROVE  [Children!Next]_[x \in Ids |-> StatusOf(x)]
<1>1. /\ owner[id] = i /\ owner' = [owner EXCEPT ![id] = None]
      /\ stage[i] = "reported" /\ stage' = [stage EXCEPT ![i] = "reaped"]
  BY DEF Reap, Advance
<1>2. owner'[id] = None BY <1>1 DEF IInv, TypeOK
<1>3. \A x \in Ids \ {id} : StatusOf(x)' = StatusOf(x)
  <2> SUFFICES ASSUME NEW x \in Ids \ {id} PROVE StatusOf(x)' = StatusOf(x)
    OBVIOUS
  <2>1. owner'[x] = owner[x] BY <1>1 DEF IInv, TypeOK
  <2>2. CASE owner[x] = None BY <2>1, <2>2 DEF StatusOf
  <2>3. CASE owner[x] # None
    <3>1. owner[x] # i BY <1>1, <2>3 DEF IInv, OwnedInv
    <3>2. stage'[owner[x]] = stage[owner[x]] BY <1>1, <2>3, <3>1 DEF IInv, TypeOK
    <3> QED BY <2>1, <3>2 DEF StatusOf
  <2> QED BY <2>2, <2>3
<1>4. StatusOf(id)' = "free" BY <1>2 DEF StatusOf
<1>5. CASE i = None
  <2>1. StatusOf(id) = "free" BY <1>1, <1>5 DEF StatusOf
  <2>2. \A x \in Ids : StatusOf(x)' = StatusOf(x) BY <1>3, <1>4, <2>1
  <2> QED BY <2>2
<1>6. CASE i # None
  <2>1. StatusOf(id) = "ended" BY <1>1, <1>6 DEF StatusOf
  <2> QED BY <1>3, <1>4, <2>1, StatusMoves DEF Children!Next, Children!Note
<1> QED BY <1>5, <1>6

LEMMA NextLives ==
  ASSUME IInv, [Next]_vars PROVE [Children!Next]_[id \in Ids |-> StatusOf(id)]
<1>1. CASE UNCHANGED vars BY <1>1 DEF vars, StatusOf
<1>2. ASSUME NEW i \in Instances, Abort(i) \/ Launch(i) \/ Die(i) \/ Report(i)
      PROVE  [Children!Next]_[id \in Ids |-> StatusOf(id)]
  BY <1>2, AdvanceLives DEF Abort, Launch, Die, Report
<1> QED BY <1>1, <1>2, ClaimLives, ReapLives DEF Next

\* The manager's claims, launches, goroutines and channels come down to this: an id has
\* one child at a time (dep_manager/dev.go:356-428).
THEOREM SupervisionLives == Spec => ImplementsLifecycle
<1>1. Init => Children!Init
  BY DEF Init, StatusOf, Children!Init
<1> QED BY <1>1, NextLives, Ownership, PTL DEF Spec, ImplementsLifecycle, Children!Spec
================================================================================

------------------------------- MODULE Lifecycle -------------------------------
(***************************************************************************)
(* The life of the child of a dependency, as the callers of DepManager may *)
(* take it for granted: there is one at a time, and another is not started *)
(* before the end of the last was handled.  Supervision implements it; so  *)
(* do the models of the manager that DepHandler and ProxyHandler use in    *)
(* place of DepProcess.                                                    *)
(***************************************************************************)
CONSTANT Ids   \* ids under which dependencies are run

VARIABLE status  \* [Ids -> Statuses]

Statuses == {"free",   \* may be run
             "lost",   \* its start failed; it cannot be run any more
             "alive",  \* its child is alive
             "ended"}  \* its child has ended, and the manager is yet to note it

TypeOK == status \in [Ids -> Statuses]

\* A child may have been started before.
Init == status \in [Ids -> {"free", "alive"}]

Becomes(id, from, to) == status[id] = from /\ status' = [status EXCEPT ![id] = to]

Start(id)      == Becomes(id, "free", "alive")
StartFails(id) == Becomes(id, "free", "lost")
End(id)        == Becomes(id, "alive", "ended")
Note(id)       == Becomes(id, "ended", "free")

Next == \E id \in Ids : Start(id) \/ StartFails(id) \/ End(id) \/ Note(id)

Spec == Init /\ [][Next]_status
=============================================================================

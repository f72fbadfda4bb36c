----------------------------- MODULE AtomicStore -----------------------------
(***************************************************************************)
(* What the MLS database promises its callers: every operation on a group  *)
(* happens at once and as a whole, on the state the operations before it   *)
(* have left.  GroupStore implements this over SQLite connections.         *)
(***************************************************************************)
EXTENDS StoreTables

VARIABLE
    store   \* the database

Init == store = Empty

\* One operation that changes group g.
Operate(g, op) ==
    /\ store.gen[g] < MaxGen
    /\ store' = Result(store, g, op)

\* A new key package is stored; it belongs to no group.
Publish == store' = Stored(store)

Next == (\E g \in Groups, op \in WriteOps : Operate(g, op)) \/ Publish

Spec == Init /\ [][Next]_store
=============================================================================

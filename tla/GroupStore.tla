----------------------------- MODULE GroupStore -----------------------------
(***************************************************************************)
(* The MLS database as the calls of several threads use it: a pool of      *)
(* SQLite connections (SqliteConnectionPool), one deferred transaction per *)
(* operation (SqliteProvider::transaction), the group load that starts     *)
(* most of them, the deletion of a group whose pages are damaged, and the  *)
(* single statements that run without a transaction.                       *)
(*                                                                         *)
(* Of SQLite the model has what the code relies on, in WAL mode: a         *)
(* transaction reads the snapshot of its first read; there is one writer;  *)
(* a transaction that has read may write only if it need not wait and its  *)
(* snapshot is still the newest, and gets SQLITE_BUSY at once otherwise; a *)
(* transaction that starts with a write waits for the lock up to the busy  *)
(* timeout; a commit is atomic.                                            *)
(***************************************************************************)
EXTENDS StoreTables

CONSTANTS
    Threads,
    Conns,      \* the places of the pool
    Calls,      \* the operations that are called; create_group starts with "check"
    Fragile,    \* groups whose pages may get damaged
    None,       \* no thread, no connection
    Fresh       \* a connection that delete_group opens outside the pool

ASSUME StoreAssumption ==
    /\ None \notin Threads \cup Conns
    /\ Fresh \notin Conns \cup {None}
    /\ Fragile \subseteq Groups

VARIABLES
    db,         \* the committed database
    images,     \* history: every state a group's rows have been committed in
    damaged,    \* groups with rows on damaged pages
    locker,     \* the thread whose transaction holds the write lock
    broken,     \* pooled connections that a failed page read has left unusable
    pc,         \* where each thread is in its call
    call,       \* the call: operation and group
    lease,      \* the connection it uses
    view,       \* its transaction's view of the database
    loaded,     \* the tables its group load has read
    left        \* the statements it has yet to execute

vars == <<db, images, damaged, locker, broken, pc, call, lease, view, loaded,
          left>>

-----------------------------------------------------------------------------
(* Calls.                                                                  *)

\* load_group of members, pending_commit, pending_proposals, export_group_info
ReadOps == {"members"}

\* create_group first tries to load the group.
LoadingOps == GroupOps \cup ReadOps \cup {"check"}
PooledOps == {"group_context", "generate_key_package"}
ASSUME CallsAssumption == Calls \subseteq (WriteOps \ {"create"}) \cup LoadingOps \cup PooledOps

\* Which tables a group load reads, in this order.
LoadOrder == <<"group_data", "group_epoch_message_secrets", "own_leaf_nodes", "proposals">>

NotLoaded == [t \in {} |-> {}]

\* What has been read, and the rows of one more table.
With(read, table, rows) ==
    [t \in DOMAIN read \cup {table} |-> IF t = table THEN rows ELSE read[t]]

Init ==
    /\ db = Empty
    /\ images = [g \in Groups |-> {Empty.rows[g]}]
    /\ damaged = {}
    /\ locker = None
    /\ broken = {}
    /\ pc = [t \in Threads |-> "ready"]
    /\ call = [t \in Threads |-> None]
    /\ lease = [t \in Threads |-> None]
    /\ view = [t \in Threads |-> None]
    /\ loaded = [t \in Threads |-> NotLoaded]
    /\ left = [t \in Threads |-> <<>>]

Call(t, op, g) ==
    /\ pc[t] = "ready"
    /\ call' = [call EXCEPT ![t] = [op |-> op, group |-> g]]
    /\ pc' = [pc EXCEPT ![t] = "checkout"]
    /\ UNCHANGED <<db, images, damaged, locker, broken, lease, view, loaded, left>>

-----------------------------------------------------------------------------
(* The end of a transaction: the connection goes back to the pool, and the *)
(* lock with it.                                                           *)

Release(t) ==
    /\ lease' = [lease EXCEPT ![t] = None]
    /\ view' = [view EXCEPT ![t] = None]
    /\ loaded' = [loaded EXCEPT ![t] = NotLoaded]
    /\ left' = [left EXCEPT ![t] = <<>>]
    /\ locker' = IF locker = t THEN None ELSE locker

\* The call is over, with success or an error.
Return(t) ==
    /\ Release(t)
    /\ pc' = [pc EXCEPT ![t] = "ready"]
    /\ call' = [call EXCEPT ![t] = None]

\* create_group goes on to create the group if the load has failed, whatever
\* the reason.
CreateAfterCheck(t) ==
    /\ Release(t)
    /\ pc' = [pc EXCEPT ![t] = "checkout"]
    /\ call' = [call EXCEPT ![t].op = "create"]

\* SQLITE_ERROR and SQLITE_CORRUPT: delete_group tries again on a connection of
\* its own.
Recoverable(how) == how \in {"sql_error", "corrupt"}

Fallback(t) ==
    /\ Release(t)
    /\ pc' = [pc EXCEPT ![t] = "fallback"]
    /\ UNCHANGED call

\* An error rolls the transaction back.
Fail(t, how) ==
    \/ /\ call[t].op = "check"
       /\ CreateAfterCheck(t)
    \/ /\ call[t].op = "delete"
       /\ Recoverable(how)
       /\ lease[t] # Fresh
       /\ Fallback(t)
    \/ /\ call[t].op # "check"
       /\ call[t].op = "delete" => lease[t] = Fresh \/ ~Recoverable(how)
       /\ Return(t)

-----------------------------------------------------------------------------
(* The pool.                                                               *)

Leased == {lease[t] : t \in Threads}

\* Wrong version: an empty batch for a check, which never touches the pager.
CheckoutUnchecked(t, c) ==
    /\ pc[t] = "checkout"
    /\ c \notin Leased
    /\ lease' = [lease EXCEPT ![t] = c]
    /\ pc' = [pc EXCEPT ![t] = "begin"]
    /\ UNCHANGED <<db, images, damaged, locker, broken, call, view, loaded, left>>

\* is_valid asks for the schema version: a broken connection fails that and is
\* replaced by a new one.
Checkout(t, c) ==
    /\ pc[t] = "checkout"
    /\ c \notin Leased
    /\ lease' = [lease EXCEPT ![t] = c]
    /\ broken' = broken \ {c}
    /\ pc' = [pc EXCEPT ![t] = "begin"]
    /\ UNCHANGED <<db, images, damaged, locker, call, view, loaded, left>>

\* POOL_ACQUIRE_TIMEOUT: every connection is in use, or none can be opened.
CheckoutTimeout(t) ==
    /\ pc[t] = "checkout"
    /\ Fail(t, "pool_timeout")
    /\ UNCHANGED <<db, images, damaged, broken>>

\* open_fresh_connection; it may fail.
OpenFresh(t) ==
    /\ pc[t] = "fallback"
    /\ \/ /\ lease' = [lease EXCEPT ![t] = Fresh]
          /\ pc' = [pc EXCEPT ![t] = "begin"]
          /\ UNCHANGED <<locker, call, view, loaded, left>>
       \/ Return(t)
    /\ UNCHANGED <<db, images, damaged, broken>>

\* A page of a damaged group cannot be read: the statement fails, and so may
\* every later one on that connection.
PageFault(t) ==
    /\ pc[t] \in {"begin", "loading", "writing"}
    /\ \/ call[t].op \notin PooledOps \cup {"create", "join"}
       \/ pc[t] = "writing" \/ call[t].op = "group_context"
    /\ call[t].group \in damaged
    /\ Fail(t, "corrupt")
    /\ \E b \in SUBSET ({lease[t]} \ {Fresh}) : broken' = broken \cup b
    /\ UNCHANGED <<db, images, damaged>>

-----------------------------------------------------------------------------
(* The transaction.                                                        *)

\* The first read fixes the snapshot.  create_group reads the signature key
\* first and process_welcome the key package, which must be there.
Begin(t) ==
    /\ pc[t] = "begin"
    /\ call[t].op \in LoadingOps \cup {"create", "join"}
    /\ IF call[t].op = "join" /\ ~db.key_package
       THEN Fail(t, "no_matching_key_package")
       ELSE /\ view' = [view EXCEPT ![t] = db]
            /\ pc' = [pc EXCEPT ![t] = IF call[t].op \in LoadingOps THEN "loading" ELSE "writing"]
            /\ left' = [left EXCEPT ![t] =
                  IF call[t].op \in WriteOps THEN Program(call[t].op) ELSE <<>>]
            /\ UNCHANGED <<locker, call, lease, loaded>>
    /\ UNCHANGED <<db, images, damaged, broken>>

\* Wrong version: every read of the load is a statement of its own.
LoadTableUntransacted(t) ==
    /\ pc[t] = "loading"
    /\ Cardinality(DOMAIN loaded[t]) < Len(LoadOrder)
    /\ LET table == LoadOrder[Cardinality(DOMAIN loaded[t]) + 1]
           rows == Select(db, call[t].group, table)
       IN  loaded' = [loaded EXCEPT ![t] = With(@, table, rows)]
    /\ UNCHANGED <<db, images, damaged, locker, broken, pc, call, lease, view, left>>

\* core::group reads one table after the other.
LoadTable(t) ==
    /\ pc[t] = "loading"
    /\ Cardinality(DOMAIN loaded[t]) < Len(LoadOrder)
    /\ LET table == LoadOrder[Cardinality(DOMAIN loaded[t]) + 1]
           rows == Select(view[t], call[t].group, table)
       IN  loaded' = [loaded EXCEPT ![t] = With(@, table, rows)]
    /\ UNCHANGED <<db, images, damaged, locker, broken, pc, call, lease, view, left>>

Found(t) == Keyed(loaded[t]["group_data"], "context") # {}

\* The load is over.
Loaded(t) ==
    /\ pc[t] = "loading"
    /\ Cardinality(DOMAIN loaded[t]) = Len(LoadOrder)
    /\ \/ /\ ~Found(t)
          /\ Fail(t, "group_is_not_existed")
       \/ /\ Found(t)
          /\ call[t].op = "check"
          /\ Return(t)
       \/ /\ Found(t)
          /\ call[t].op \in ReadOps
          /\ Return(t)
       \/ /\ Found(t)
          /\ call[t].op \in GroupOps
          /\ pc' = [pc EXCEPT ![t] = "writing"]
          /\ UNCHANGED <<locker, call, lease, view, loaded, left>>
    /\ UNCHANGED <<db, images, damaged, broken>>

\* Wrong version: the group is loaded in one transaction and written in
\* another, from the state that was loaded.
UpgradeReopened(t) ==
    /\ pc[t] = "writing"
    /\ locker = None
    /\ db.gen[call[t].group] < MaxGen
    /\ locker' = t
    /\ view' = [view EXCEPT ![t] =
          [db EXCEPT !.gen[call[t].group] = view[t].gen[call[t].group]]]
    /\ UNCHANGED <<db, images, damaged, broken, pc, call, lease, loaded, left>>

\* The first write of a transaction that has read.
Upgrade(t) ==
    /\ pc[t] = "writing"
    /\ locker = None
    /\ view[t] = db
    /\ db.gen[call[t].group] < MaxGen
    /\ locker' = t
    /\ UNCHANGED <<db, images, damaged, broken, pc, call, lease, view, loaded, left>>

\* SQLITE_BUSY: another writer is at work, or has been since the snapshot.
Busy(t) ==
    /\ pc[t] = "writing"
    /\ locker # t
    /\ locker # None \/ view[t] # db
    /\ Fail(t, "busy")
    /\ UNCHANGED <<db, images, damaged, broken>>

\* delete_group's first statement is a write: it waits for the lock.
BeginDelete(t) ==
    /\ pc[t] = "begin"
    /\ call[t].op = "delete"
    /\ locker = None
    /\ db.gen[call[t].group] < MaxGen
    /\ locker' = t
    /\ view' = [view EXCEPT ![t] = db]
    /\ left' = [left EXCEPT ![t] = Program("delete")]
    /\ pc' = [pc EXCEPT ![t] = "writing"]
    /\ UNCHANGED <<db, images, damaged, broken, call, lease, loaded>>

\* busy_timeout
BusyTimeout(t) ==
    /\ pc[t] = "begin"
    /\ call[t].op \in {"delete", "generate_key_package"}
    /\ locker # None
    /\ Fail(t, "busy")
    /\ UNCHANGED <<db, images, damaged, broken>>

\* Wrong version: statements outside a transaction commit one by one.
ExecuteAutocommit(t) ==
    /\ pc[t] = "writing"
    /\ locker = t
    /\ left[t] # <<>>
    /\ view' = [view EXCEPT ![t] = Apply(@, call[t].group, Head(left[t]))]
    /\ left' = [left EXCEPT ![t] = Tail(@)]
    /\ db' = view'[t]
    /\ UNCHANGED <<images, damaged, locker, broken, pc, call, lease, loaded>>

\* One statement inside the transaction.
ExecuteStatement(t) ==
    /\ pc[t] = "writing"
    /\ locker = t
    /\ left[t] # <<>>
    /\ view' = [view EXCEPT ![t] = Apply(@, call[t].group, Head(left[t]))]
    /\ left' = [left EXCEPT ![t] = Tail(@)]
    /\ UNCHANGED <<db, images, damaged, locker, broken, pc, call, lease, loaded>>

\* The closure has succeeded.  The pages of a deleted group are free again.
Commit(t) ==
    /\ pc[t] = "writing"
    /\ locker = t
    /\ left[t] = <<>>
    /\ LET g == call[t].group IN
          /\ db' = [view[t] EXCEPT !.gen[g] = @ + 1]
          /\ images' = [images EXCEPT ![g] = @ \cup {view[t].rows[g]}]
          /\ damaged' = IF call[t].op = "delete" THEN damaged \ {g} ELSE damaged
    /\ Return(t)
    /\ UNCHANGED broken

\* OpenMLS refuses the operation, or a statement or the commit fails for a
\* reason that has nothing to do with damaged pages.
OperationFails(t) ==
    /\ pc[t] \in {"begin", "loading", "writing"}
    /\ \E how \in {"failed", "sql_error"} : Fail(t, how)
    /\ UNCHANGED <<db, images, damaged, broken>>

-----------------------------------------------------------------------------
(* Single statements on a pooled connection.                               *)

\* core::group_context
ReadContext(t) ==
    /\ pc[t] = "begin"
    /\ call[t].op = "group_context"
    /\ Return(t)
    /\ UNCHANGED <<db, images, damaged, broken>>

\* KeyPackageBuilder::build ends with write_key_package.
WriteKeyPackage(t) ==
    /\ pc[t] = "begin"
    /\ call[t].op = "generate_key_package"
    /\ locker = None
    /\ db' = Stored(db)
    /\ Return(t)
    /\ UNCHANGED <<images, damaged, broken>>

-----------------------------------------------------------------------------
(* What happens to the process and the file.                               *)

Damage(g) ==
    /\ g \notin damaged
    /\ Exists(db, g)
    /\ damaged' = damaged \cup {g}
    /\ UNCHANGED <<db, images, locker, broken, pc, call, lease, view, loaded, left>>

\* The process dies and is started again: open transactions are gone.
Crash ==
    /\ locker' = None
    /\ broken' = {}
    /\ pc' = [t \in Threads |-> "ready"]
    /\ call' = [t \in Threads |-> None]
    /\ lease' = [t \in Threads |-> None]
    /\ view' = [t \in Threads |-> None]
    /\ loaded' = [t \in Threads |-> NotLoaded]
    /\ left' = [t \in Threads |-> <<>>]
    /\ UNCHANGED <<db, images, damaged>>

Step(t) ==
    \/ \E c \in Conns : Checkout(t, c)
    \/ CheckoutTimeout(t) \/ OpenFresh(t)
    \/ PageFault(t) \/ OperationFails(t)
    \/ Begin(t) \/ LoadTable(t) \/ Loaded(t)
    \/ Upgrade(t) \/ Busy(t) \/ BeginDelete(t) \/ BusyTimeout(t)
    \/ ExecuteStatement(t) \/ Commit(t)
    \/ ReadContext(t) \/ WriteKeyPackage(t)

Next ==
    \/ \E t \in Threads : (\E op \in Calls, g \in Groups : Call(t, op, g)) \/ Step(t)
    \/ \E g \in Fragile : Damage(g)
    \/ Crash

Spec == Init /\ [][Next]_vars

-----------------------------------------------------------------------------
(* Properties.                                                             *)

\* What callers see of the database is AtomicStore: an operation on a group
\* happens as a whole or not at all, on the state that the operations before it
\* left, whatever the other threads do and wherever the process dies.  This is
\* what SqliteProvider::transaction is for: "a crash or error mid-sequence will
\* not leave the database in a partially-updated state".
Atomic == INSTANCE AtomicStore WITH store <- db
ImplementsAtomicStore == Atomic!Spec

\* A group load, complete or in progress, has read its tables from one
\* committed state of the group, although other threads commit between its
\* reads: "all reads in a group load must therefore share the same transaction".
LoadedIsWhole ==
    \A t \in Threads : pc[t] = "loading" =>
        \E rows \in images[call[t].group] :
            \A table \in DOMAIN loaded[t] : loaded[t][table] = rows[table]

\* A call works on a connection of its own, and never on one that a failed page
\* read of an earlier call has left unusable, although nothing marks such a
\* connection when it goes back to the pool (has_broken answers no).  Damage to
\* one group therefore does not fail calls on another.
LeaseIsSound ==
    \A t \in Threads :
        /\ lease[t] \notin broken
        /\ \A u \in Threads \ {t} : lease[t] \in Conns => lease[u] # lease[t]

=============================================================================

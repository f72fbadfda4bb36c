-------------------------- MODULE GroupStoreProof --------------------------
(***************************************************************************)
(* Proofs about GroupStore, for any threads, connections, groups and       *)
(* crashes: a group load is one committed state, a call has a usable       *)
(* connection of its own, and what callers see is AtomicStore.             *)
(*                                                                         *)
(* The invariant ties what the owner of the write lock sees to the         *)
(* committed state: it has executed a beginning of its operation on the    *)
(* database as it still is (Executed), so its commit is the whole          *)
(* operation (Result).  What a recursive function over the naturals        *)
(* computes is shown with a least counterexample (LeastNat).               *)
(***************************************************************************)
EXTENDS GroupStore, SequenceTheorems, WellFoundedInduction, TLAPS

\* Every non-empty set of naturals has a least element.
LEMMA LeastNat ==
    ASSUME NEW T, T \subseteq Nat, T # {}
    PROVE  \E x \in T : \A y \in T : x <= y
<1> DEFINE R == {ss \in Nat \X Nat : ss[1] < ss[2]}
<1>1. IsWellFoundedOn(R, Nat)
  BY NatLessThanWellFounded DEF OpToRel
<1>2. PICK x \in T : \A y \in T : ~ (<<y, x>> \in R)
  <2> HIDE DEF R
  <2> QED BY <1>1, WFMin
<1>3. ASSUME NEW y \in T PROVE x <= y
  <2>1. x \in Nat /\ y \in Nat
    OBVIOUS
  <2>2. ~(y < x)
    BY <1>2, <2>1
  <2> QED
    BY <2>1, <2>2
<1> QED
  BY <1>3

\* The statements of a program, executed one after the other.
IsRun(f, n, d, g, program) ==
    f = [i \in 0 .. n |-> IF i = 0 THEN d ELSE Apply(f[i - 1], g, program[i])]

\* Executing a program is well defined: there is such a function, for every
\* number of statements.
LEMMA RunExists ==
    ASSUME NEW d, NEW g, NEW program, NEW n \in Nat
    PROVE  \E f : IsRun(f, n, d, g, program)
<1> DEFINE T == {m \in Nat : ~ \E f : IsRun(f, m, d, g, program)}
<1>1. SUFFICES ASSUME T # {} PROVE FALSE
  OBVIOUS
<1>2. PICK m \in T : \A k \in T : m <= k
  <2> HIDE DEF T
  <2>1. T \subseteq Nat
    BY DEF T
  <2> QED
    BY <1>1, <2>1, LeastNat
<1>3. m # 0
  <2>1. IsRun([i \in 0 .. 0 |-> d], 0, d, g, program)
    BY DEF IsRun
  <2> QED
    BY <2>1
<1>4. PICK f : IsRun(f, m - 1, d, g, program)
  BY <1>2, <1>3
<1> DEFINE h == [i \in 0 .. m |-> IF i = m THEN Apply(f[m - 1], g, program[m]) ELSE f[i]]
<1>5. ASSUME NEW i \in 0 .. m
      PROVE  h[i] = IF i = 0 THEN d ELSE Apply(h[i - 1], g, program[i])
  <2>1. \A j \in 0 .. m - 1 : f[j] = IF j = 0 THEN d ELSE Apply(f[j - 1], g, program[j])
    BY <1>4 DEF IsRun
  <2>2. CASE i = m
    BY <2>2, <1>3
  <2>3. CASE i # m
    <3>1. i \in 0 .. m - 1 /\ h[i] = f[i] /\ (i # 0 => h[i - 1] = f[i - 1])
      BY <2>3
    <3> QED
      BY <2>1, <3>1
  <2> QED
    BY <2>2, <2>3
<1>6. IsRun(h, m, d, g, program)
  BY <1>5 DEF IsRun
<1> QED
  BY <1>2, <1>6

\* What Run computes.
LEMMA RunSteps ==
    ASSUME NEW d, NEW g, NEW program, Len(program) \in Nat
    PROVE  /\ Run(d, g, program)[0] = d
           /\ \A i \in 1 .. Len(program) :
                Run(d, g, program)[i] = Apply(Run(d, g, program)[i - 1], g, program[i])
<1>1. \E f : f = [i \in 0 .. Len(program) |-> IF i = 0 THEN d ELSE Apply(f[i - 1], g, program[i])]
  <2>1. PICK f : IsRun(f, Len(program), d, g, program)
    BY RunExists
  <2> QED
    BY <2>1 DEF IsRun
<1>2. Run(d, g, program) = [i \in 0 .. Len(program) |->
         IF i = 0 THEN d ELSE Apply(Run(d, g, program)[i - 1], g, program[i])]
  BY <1>1 DEF Run
<1> HIDE DEF Run
<1> QED
  BY <1>2

-----------------------------------------------------------------------------
(* The inductive invariant.                                                *)

CallSet == [op : Calls \cup {"create"}, group : Groups]

\* A database as far as the argument needs its type.
Shape(d) ==
    /\ d = [rows |-> d.rows, gen |-> d.gen, key_package |-> d.key_package]
    /\ d.rows = [g \in Groups |-> d.rows[g]]
    /\ d.gen \in [Groups -> Nat]

TypeInv ==
    /\ Shape(db)
    /\ images = [g \in Groups |-> images[g]]
    /\ locker \in Threads \cup {None}
    /\ broken \subseteq Conns
    /\ pc \in [Threads -> {"ready", "checkout", "fallback", "begin", "loading", "writing"}]
    /\ call = [t \in Threads |-> call[t]]
    /\ lease \in [Threads -> Conns \cup {None, Fresh}]
    /\ view = [t \in Threads |-> view[t]]
    /\ loaded = [t \in Threads |-> loaded[t]]
    /\ left = [t \in Threads |-> left[t]]

\* What a thread has at each point of its call.
CallOK(t) ==
    /\ pc[t] # "ready" => call[t] \in CallSet
    /\ pc[t] \in {"begin", "loading", "writing"} => lease[t] # None
    /\ pc[t] \notin {"loading", "writing"} => loaded[t] = NotLoaded
    /\ pc[t] = "writing" => call[t].op \in WriteOps
    /\ pc[t] \in {"loading", "writing"} /\ call[t].op \in WriteOps /\ locker # t =>
          left[t] = Program(call[t].op)

\* A load reads the snapshot of its transaction, which was committed.
LoadOK(t) ==
    pc[t] = "loading" =>
        /\ view[t].rows[call[t].group] \in images[call[t].group]
        /\ \A table \in DOMAIN loaded[t] :
              loaded[t][table] = view[t].rows[call[t].group][table]

CallInv == \A t \in Threads : CallOK(t)
LoadInv == \A t \in Threads : LoadOK(t)

\* The state of every group has been committed.
ImagesInv == \A g \in Groups : db.rows[g] \in images[g]

\* Thread t has executed the first n statements of its operation on the
\* database as it still is.
Executed(t, n) ==
    LET program == Program(call[t].op)
    IN  /\ n \in 0 .. Len(program)
        /\ left[t] = SubSeq(program, n + 1, Len(program))
        /\ view[t] = Run(db, call[t].group, program)[n]

\* What the owner of the write lock sees is its own work on the newest state.
Locked(t) ==
    /\ pc[t] = "writing"
    /\ db.gen[call[t].group] < MaxGen
    /\ \E n \in Nat : Executed(t, n)
    /\ Shape(view[t])
    /\ view[t].gen = db.gen
    /\ \A h \in Groups : h # call[t].group => view[t].rows[h] = db.rows[h]

LockInv == \A t \in Threads : locker = t => Locked(t)

IInv == TypeInv /\ CallInv /\ LoadInv /\ ImagesInv /\ LockInv /\ LeaseIsSound

-----------------------------------------------------------------------------
(* Operators of StoreTables.                                               *)

Kinds == {"replace", "ignore", "append", "delete", "clear", "take"}
Tables ==
    {"group_data", "epoch_keys_pairs", "own_leaf_nodes", "proposals",
     "group_epoch_message_secrets", "decrypted_application_messages", "key_packages"}
Keys == {"context", "group_state", "epoch", "id", "ref", "message", "all"}
Statements == [kind : Kinds, table : Tables, key : Keys]

\* What OpenMLS executes in one operation is a sequence of statements.
LEMMA ProgramIsSeq == \A op \in WriteOps : Program(op) \in Seq(Statements)
<1> USE DEF Statement, Statements, Kinds, Tables, Keys
<1>1. NewEpoch \in Seq(Statements)
  BY DEF NewEpoch, write_group_data, write_encryption_epoch_key_pairs,
         write_group_epoch_message_secrets
<1>2. \A i \in DOMAIN TableOrder : TableOrder[i] \in Tables
  BY DEF TableOrder
<1>3. TableOrder \in Seq(Tables)
  BY DEF TableOrder
<1>4. Program("delete") \in Seq(Statements)
  <2>1. Program("delete") = [i \in DOMAIN TableOrder |-> delete_from(TableOrder[i])]
    BY DEF Program
  <2>2. \A i \in DOMAIN TableOrder : delete_from(TableOrder[i]) \in Statements
    BY <1>2 DEF delete_from
  <2> HIDE DEF Statements
  <2>3. DOMAIN TableOrder = 1 .. Len(TableOrder) /\ Len(TableOrder) \in Nat
    BY <1>3
  <2> QED
    BY <2>1, <2>2, <2>3
<1>5. Program("create") \in Seq(Statements)
  BY <1>1 DEF Program
<1>6. Program("join") \in Seq(Statements)
  <2>1. <<delete_key_package>> \in Seq(Statements)
    BY DEF delete_key_package
  <2>2. Program("join") = NewEpoch \o <<delete_key_package>>
    BY DEF Program
  <2> HIDE DEF Statements
  <2> QED
    BY <1>1, <2>1, <2>2
<1>7. Program("merge") \in Seq(Statements)
  <2> DEFINE cleanup == <<clear_proposal_queue, delete_own_leaf_nodes>>
  <2>1. cleanup \in Seq(Statements)
    BY DEF clear_proposal_queue, delete_own_leaf_nodes
  <2>2. Program("merge") = NewEpoch \o cleanup
    BY DEF Program
  <2> HIDE DEF Statements, cleanup
  <2> QED
    BY <1>1, <2>1, <2>2, ConcatProperties
<1>8. Program("propose") \in Seq(Statements)
  BY DEF Program, queue_proposal
<1>9. Program("commit") \in Seq(Statements)
  BY DEF Program, append_own_leaf_node, write_group_data
<1>10. Program("decrypt") \in Seq(Statements)
  BY DEF Program, write_group_epoch_message_secrets, insert_decrypted_application_message
<1>11. Program("forget") \in Seq(Statements)
  BY DEF Program, delete_group_data, delete_own_leaf_nodes, clear_proposal_queue,
         delete_encryption_epoch_key_pairs, delete_group_epoch_message_secrets
<1> QED
  BY <1>4, <1>5, <1>6, <1>7, <1>8, <1>9, <1>10, <1>11 DEF WriteOps, GroupOps

\* A statement on group g leaves the other groups and the counters alone.
LEMMA ApplyShape ==
    ASSUME NEW d, Shape(d), NEW g \in Groups, NEW s
    PROVE  /\ Shape(Apply(d, g, s))
           /\ Apply(d, g, s).gen = d.gen
           /\ \A h \in Groups : h # g => Apply(d, g, s).rows[h] = d.rows[h]
<1>1. CASE s.table = "key_packages"
  BY <1>1 DEF Shape, Apply
<1>2. CASE s.table # "key_packages"
  <2> DEFINE new == [d.rows EXCEPT ![g] =
                    [d.rows[g] EXCEPT ![s.table] = Execute(d.rows[g][s.table], s, d.gen[g] + 1)]]
  <2>1. Apply(d, g, s) = [rows |-> new, gen |-> d.gen, key_package |-> d.key_package]
    BY <1>2 DEF Shape, Apply
  <2>2. new = [h \in Groups |-> new[h]] /\ \A h \in Groups : h # g => new[h] = d.rows[h]
    <3>1. DOMAIN d.rows = Groups
      BY DEF Shape
    <3> QED
      BY <3>1
  <2> HIDE DEF new
  <2> QED
    BY <2>1, <2>2 DEF Shape
<1> QED
  BY <1>1, <1>2

-----------------------------------------------------------------------------
(* The steps.                                                              *)

\* No database has a group yet, and no thread a call.
LEMMA InitIInv == Init => IInv
<1> SUFFICES ASSUME Init PROVE IInv
  OBVIOUS
<1> USE DEF Init
<1>1. Shape(db) /\ \A g \in Groups : db.rows[g] \in images[g]
  BY DEF Shape, Empty
<1>2. TypeInv
  BY <1>1 DEF TypeInv
<1>3. CallInv /\ LoadInv /\ ImagesInv
  BY <1>1 DEF CallInv, LoadInv, CallOK, LoadOK, ImagesInv
<1>4. LockInv /\ LeaseIsSound
  BY StoreAssumption DEF LockInv, LeaseIsSound
<1> QED
  BY <1>2, <1>3, <1>4 DEF IInv

\* The transaction of t is over without effect, whatever t does next.
Ends(t) ==
    /\ Release(t)
    /\ \E p \in {"ready", "checkout", "fallback"}, c \in CallSet \cup {None} :
          /\ pc' = [pc EXCEPT ![t] = p]
          /\ call' = [call EXCEPT ![t] = c]
          /\ p # "ready" => c \in CallSet

\* Every way a call can fail ends its transaction.
LEMMA FailEnds ==
    ASSUME IInv, NEW t \in Threads, NEW how, pc[t] # "ready", Fail(t, how)
    PROVE  Ends(t)
<1>1. call[t] \in CallSet /\ call = [u \in Threads |-> call[u]]
  BY DEF IInv, CallInv, CallOK, TypeInv
<1>2. CASE CreateAfterCheck(t)
  <2>1. [call[t] EXCEPT !.op = "create"] \in CallSet
    BY <1>1 DEF CallSet
  <2>2. call' = [call EXCEPT ![t] = [call[t] EXCEPT !.op = "create"]]
    BY <1>1, <1>2 DEF CreateAfterCheck
  <2> QED
    BY <1>2, <2>1, <2>2 DEF CreateAfterCheck, Ends
<1>3. CASE Fallback(t)
  <2>1. call' = [call EXCEPT ![t] = call[t]]
    BY <1>1, <1>3 DEF Fallback
  <2> QED
    BY <1>1, <1>3, <2>1 DEF Fallback, Ends
<1>4. CASE Return(t)
  BY <1>4 DEF Return, Ends
<1> QED
  BY <1>2, <1>3, <1>4 DEF Fail

\* A step of another thread that leaves the database alone leaves the owner of
\* the lock where it was.
LEMMA LockFrame ==
    ASSUME NEW u \in Threads, Locked(u), db' = db, pc'[u] = pc[u], call'[u] = call[u],
           view'[u] = view[u], left'[u] = left[u]
    PROVE  Locked(u)'
<1>1. PICK n \in Nat : Executed(u, n)
  BY DEF Locked
<1>2. Executed(u, n)'
  BY <1>1 DEF Executed
<1>3. Shape(view[u])'
  BY DEF Locked, Shape
<1> QED
  BY <1>2, <1>3 DEF Locked

\* Thread u is where it was.
Same(u) ==
    /\ pc'[u] = pc[u] /\ call'[u] = call[u] /\ lease'[u] = lease[u]
    /\ view'[u] = view[u] /\ loaded'[u] = loaded[u] /\ left'[u] = left[u]
    /\ (locker' = u) = (locker = u)

\* A step of t alone, which leaves the database as it is, preserves IInv if t
\* itself is in order after it.
LEMMA OwnStep ==
    ASSUME IInv, NEW t \in Threads, UNCHANGED <<db, images>>,
           \A u \in Threads \ {t} : Same(u),
           TypeInv', CallOK(t)', LoadOK(t)', locker' = t => Locked(t)', LeaseIsSound'
    PROVE  IInv'
<1>1. CallInv'
  <2> SUFFICES ASSUME NEW u \in Threads \ {t} PROVE CallOK(u)'
    BY DEF CallInv
  <2>1. CallOK(u) /\ Same(u)
    BY DEF IInv, CallInv
  <2> QED
    BY <2>1 DEF CallOK, Same
<1>2. LoadInv'
  <2> SUFFICES ASSUME NEW u \in Threads \ {t} PROVE LoadOK(u)'
    BY DEF LoadInv
  <2>1. LoadOK(u) /\ Same(u)
    BY DEF IInv, LoadInv
  <2> QED
    BY <2>1 DEF LoadOK, Same
<1>3. LockInv'
  <2> SUFFICES ASSUME NEW u \in Threads \ {t}, locker' = u PROVE Locked(u)'
    BY DEF LockInv
  <2>1. Same(u) /\ Locked(u)
    BY DEF IInv, LockInv, Same
  <2> QED
    BY <2>1, LockFrame DEF Same
<1>4. ImagesInv'
  BY DEF IInv, ImagesInv
<1> QED
  BY <1>1, <1>2, <1>3, <1>4 DEF IInv

\* The effect of Ends, field by field.
LEMMA EndEffect ==
    ASSUME TypeInv, NEW t \in Threads, Ends(t)
    PROVE  /\ \A u \in Threads \ {t} : Same(u)
           /\ lease'[t] = None /\ loaded'[t] = NotLoaded /\ locker' # t
           /\ pc'[t] \in {"ready", "checkout", "fallback"}
           /\ pc'[t] # "ready" => call'[t] \in CallSet
           /\ Shape(db)' /\ images' = [g \in Groups |-> images'[g]] /\ broken' \subseteq Conns
              => TypeInv'
<1>1. PICK p \in {"ready", "checkout", "fallback"}, c \in CallSet \cup {None} :
          /\ pc' = [pc EXCEPT ![t] = p]
          /\ call' = [call EXCEPT ![t] = c]
          /\ p # "ready" => c \in CallSet
  BY DEF Ends
<1>2. /\ lease' = [lease EXCEPT ![t] = None]
      /\ view' = [view EXCEPT ![t] = None]
      /\ loaded' = [loaded EXCEPT ![t] = NotLoaded]
      /\ left' = [left EXCEPT ![t] = <<>>]
      /\ locker' = IF locker = t THEN None ELSE locker
  BY DEF Ends, Release
<1>3. \A u \in Threads \ {t} : Same(u)
  BY <1>1, <1>2, StoreAssumption DEF TypeInv, Same
<1>4. /\ pc'[t] = p /\ call'[t] = c /\ lease'[t] = None /\ loaded'[t] = NotLoaded
      /\ locker' # t
  BY <1>1, <1>2, StoreAssumption DEF TypeInv
<1>5. Shape(db)' /\ images' = [g \in Groups |-> images'[g]] /\ broken' \subseteq Conns => TypeInv'
  BY <1>1, <1>2, StoreAssumption DEF TypeInv
<1> QED
  BY <1>1, <1>3, <1>4, <1>5

\* A connection that goes back to the pool, usable or not, is nobody's.
LEMMA EndLease ==
    ASSUME IInv, NEW t \in Threads, Ends(t),
           broken' \subseteq Conns, broken' \subseteq broken \cup {lease[t]}
    PROVE  LeaseIsSound'
<1>1. lease'[t] = None /\ \A u \in Threads \ {t} : lease'[u] = lease[u]
  BY EndEffect DEF IInv, Same
<1> QED
  BY <1>1, StoreAssumption DEF IInv, LeaseIsSound, TypeInv

\* The end of a transaction without effect preserves IInv.
LEMMA EndIInv ==
    ASSUME IInv, NEW t \in Threads, Ends(t), UNCHANGED <<db, images>>,
           broken' \subseteq Conns, broken' \subseteq broken \cup {lease[t]}
    PROVE  IInv'
<1>1. TypeInv'
  BY EndEffect DEF IInv, TypeInv, Shape
<1>2. CallOK(t)' /\ LoadOK(t)'
  BY EndEffect DEF IInv, CallOK, LoadOK
<1> QED
  BY <1>1, <1>2, EndEffect, EndLease, OwnStep DEF IInv

-----------------------------------------------------------------------------
(* One lemma per group of actions.                                         *)

\* A call is made, and gets a connection that no other call has.
LEMMA PoolIInv ==
    ASSUME IInv, NEW t \in Threads,
           \/ \E op \in Calls, g \in Groups : Call(t, op, g)
           \/ \E c \in Conns : Checkout(t, c)
           \/ OpenFresh(t)
    PROVE  IInv'
<1>1. ASSUME NEW op \in Calls, NEW g \in Groups, Call(t, op, g) PROVE IInv'
  <2> USE <1>1 DEF Call
  <2>1. TypeInv' /\ LeaseIsSound' /\ \A u \in Threads \ {t} : Same(u)
    BY DEF IInv, TypeInv, Shape, LeaseIsSound, Same
  <2>2. CallOK(t)' /\ LoadOK(t)'
    BY DEF IInv, TypeInv, CallInv, CallOK, LoadOK, CallSet
  <2>3. locker' # t
    BY DEF IInv, LockInv, Locked
  <2> QED
    BY <2>1, <2>2, <2>3, OwnStep
<1>2. ASSUME NEW c \in Conns, Checkout(t, c) PROVE IInv'
  <2> USE <1>2 DEF Checkout
  <2>1. TypeInv' /\ \A u \in Threads \ {t} : Same(u)
    BY DEF IInv, TypeInv, Shape, Same
  <2>2. CallOK(t)' /\ LoadOK(t)'
    BY StoreAssumption DEF IInv, TypeInv, CallInv, CallOK, LoadOK
  <2>3. locker' # t
    BY DEF IInv, LockInv, Locked
  <2>4. LeaseIsSound'
    BY DEF IInv, TypeInv, LeaseIsSound, Leased
  <2> QED
    BY <2>1, <2>2, <2>3, <2>4, OwnStep
<1>3. ASSUME OpenFresh(t), ~Return(t) PROVE IInv'
  <2> USE <1>3 DEF OpenFresh
  <2>1. TypeInv' /\ \A u \in Threads \ {t} : Same(u)
    BY DEF IInv, TypeInv, Shape, Same
  <2>2. CallOK(t)' /\ LoadOK(t)'
    BY StoreAssumption DEF IInv, TypeInv, CallInv, CallOK, LoadOK
  <2>3. locker' # t
    BY DEF IInv, LockInv, Locked
  <2>4. LeaseIsSound'
    BY StoreAssumption DEF IInv, TypeInv, LeaseIsSound
  <2> QED
    BY <2>1, <2>2, <2>3, <2>4, OwnStep
<1>4. ASSUME OpenFresh(t), Return(t) PROVE IInv'
  <2>1. Ends(t)
    BY <1>4 DEF Return, Ends
  <2> QED
    BY <1>4, <2>1, EndIInv DEF OpenFresh, IInv, TypeInv
<1> QED
  BY <1>1, <1>2, <1>3, <1>4

\* Every error, wherever it occurs.
LEMMA FailIInv ==
    ASSUME IInv, NEW t \in Threads,
           \/ CheckoutTimeout(t) \/ PageFault(t) \/ OperationFails(t) \/ Busy(t)
           \/ BusyTimeout(t) \/ ReadContext(t)
    PROVE  IInv'
<1>1. ASSUME NEW how, Fail(t, how), pc[t] # "ready", UNCHANGED <<db, images>>,
             broken' \subseteq Conns, broken' \subseteq broken \cup {lease[t]}
      PROVE  IInv'
  BY <1>1, FailEnds, EndIInv
<1>2. CASE PageFault(t)
  <2>1. /\ Fail(t, "corrupt") /\ pc[t] \in {"begin", "loading", "writing"}
        /\ UNCHANGED <<db, images>>
        /\ \E b \in SUBSET ({lease[t]} \ {Fresh}) : broken' = broken \cup b
    BY <1>2 DEF PageFault
  <2>2. lease[t] \in Conns \cup {Fresh}
    BY <2>1 DEF IInv, TypeInv, CallInv, CallOK
  <2> QED
    BY <1>1, <2>1, <2>2 DEF IInv, TypeInv
<1>3. CASE CheckoutTimeout(t) \/ OperationFails(t) \/ Busy(t) \/ BusyTimeout(t)
  BY <1>1, <1>3 DEF CheckoutTimeout, OperationFails, Busy, BusyTimeout, IInv, TypeInv
<1>4. CASE ReadContext(t)
  <2>1. Ends(t)
    BY <1>4 DEF ReadContext, Return, Ends
  <2> QED
    BY <1>4, <2>1, EndIInv DEF ReadContext, IInv, TypeInv
<1> QED
  BY <1>2, <1>3, <1>4

\* The snapshot is taken, and the load reads from it.
LEMMA LoadIInv ==
    ASSUME IInv, NEW t \in Threads, Begin(t) \/ LoadTable(t) \/ Loaded(t)
    PROVE  IInv'
<1>1. ASSUME NEW how, Fail(t, how) \/ Return(t), pc[t] # "ready", UNCHANGED <<db, images, broken>>
      PROVE  IInv'
  <2>1. Ends(t)
    BY <1>1, FailEnds DEF Return, Ends
  <2> QED
    BY <1>1, <2>1, EndIInv DEF IInv, TypeInv
<1>2. ASSUME Begin(t), ~Fail(t, "no_matching_key_package") PROVE IInv'
  <2> USE <1>2 DEF Begin
  <2>0. call[t] \in CallSet /\ lease[t] # None /\ loaded[t] = NotLoaded
    BY DEF IInv, CallInv, CallOK
  <2>1. TypeInv' /\ LeaseIsSound' /\ \A u \in Threads \ {t} : Same(u)
    BY DEF IInv, TypeInv, Shape, LeaseIsSound, Same
  <2>2. /\ view'[t] = db /\ call' = call /\ loaded' = loaded /\ lease' = lease
        /\ left'[t] = IF call[t].op \in WriteOps THEN Program(call[t].op) ELSE <<>>
        /\ pc'[t] = IF call[t].op \in LoadingOps THEN "loading" ELSE "writing"
    BY DEF IInv, TypeInv
  <2>3. CallOK(t)'
    BY <2>0, <2>2 DEF CallOK, WriteOps
  <2>4. LoadOK(t)'
    BY <2>0, <2>2 DEF IInv, ImagesInv, LoadOK, CallSet, NotLoaded
  <2>5. locker' # t
    BY DEF IInv, LockInv, Locked
  <2> QED
    BY <2>1, <2>3, <2>4, <2>5, OwnStep
<1>3. ASSUME LoadTable(t) PROVE IInv'
  <2> USE <1>3 DEF LoadTable
  <2> DEFINE table == LoadOrder[Cardinality(DOMAIN loaded[t]) + 1]
             rows == Select(view[t], call[t].group, table)
  <2>1. TypeInv' /\ LeaseIsSound' /\ \A u \in Threads \ {t} : Same(u)
    BY DEF IInv, TypeInv, Shape, LeaseIsSound, Same
  <2>2. CallOK(t)'
    BY DEF IInv, TypeInv, CallInv, CallOK
  <2>3. LoadOK(t)'
    <3>1. loaded'[t] = With(loaded[t], table, rows)
      BY DEF IInv, TypeInv
    <3>2. rows = view[t].rows[call[t].group][table]
      BY DEF Select
    <3> HIDE DEF table, rows
    <3>3. \A x \in DOMAIN loaded'[t] :
              \/ x \in DOMAIN loaded[t] /\ loaded'[t][x] = loaded[t][x]
              \/ x = table /\ loaded'[t][x] = rows
      BY <3>1 DEF With
    <3>4. LoadOK(t)
      BY DEF IInv, LoadInv
    <3> QED
      BY <3>2, <3>3, <3>4 DEF LoadOK
  <2>4. locker' # t
    BY DEF IInv, LockInv, Locked
  <2> QED
    BY <2>1, <2>2, <2>3, <2>4, OwnStep
<1>4. ASSUME Loaded(t), ~(\E how : Fail(t, how)), ~Return(t) PROVE IInv'
  <2> USE <1>4 DEF Loaded
  <2>1. TypeInv' /\ LeaseIsSound' /\ \A u \in Threads \ {t} : Same(u)
    <3>1. TypeInv'
      BY DEF IInv, TypeInv, Shape
    <3>2. LeaseIsSound'
      BY DEF IInv, TypeInv, LeaseIsSound
    <3>3. \A u \in Threads \ {t} : Same(u)
      BY DEF IInv, TypeInv, Same
    <3> QED
      BY <3>1, <3>2, <3>3
  <2>2. CallOK(t)' /\ LoadOK(t)'
    BY DEF IInv, TypeInv, CallInv, CallOK, LoadOK, WriteOps
  <2>3. locker' # t
    BY DEF IInv, LockInv, Locked
  <2> QED
    BY <2>1, <2>2, <2>3, OwnStep
<1>5. CASE Begin(t)
  BY <1>1, <1>2, <1>5 DEF Begin
<1>6. CASE LoadTable(t)
  BY <1>3, <1>6
<1>7. CASE Loaded(t)
  BY <1>1, <1>4, <1>7 DEF Loaded
<1> QED
  BY <1>5, <1>6, <1>7

-----------------------------------------------------------------------------
(* The work of the owner of the write lock.                                *)

\* Before the first statement.
LEMMA NothingExecuted ==
    ASSUME NEW op \in WriteOps, NEW d, NEW g
    PROVE  /\ 0 \in 0 .. Len(Program(op))
           /\ Program(op) = SubSeq(Program(op), 0 + 1, Len(Program(op)))
           /\ Run(d, g, Program(op))[0] = d
<1> DEFINE P == Program(op)
<1>1. P \in Seq(Statements)
  BY ProgramIsSeq
<1> HIDE DEF P
<1>2. Len(P) \in Nat
  BY <1>1, LenProperties
<1>3. Run(d, g, P)[0] = d
  BY <1>2, RunSteps
<1>4. P = SubSeq(P, 1, Len(P))
  BY <1>1
<1> QED
  BY <1>2, <1>3, <1>4 DEF P

\* rest has the statements of a program after the first n, and is not empty.
Unfinished(program, n, rest) ==
    /\ n \in 0 .. Len(program)
    /\ rest = SubSeq(program, n + 1, Len(program))
    /\ rest # <<>>

\* One more statement.
LEMMA NextStatement ==
    ASSUME NEW op \in WriteOps, NEW n, NEW rest,
           Unfinished(Program(op), n, rest)
    PROVE  /\ n + 1 \in 0 .. Len(Program(op))
           /\ Tail(rest) = SubSeq(Program(op), (n + 1) + 1, Len(Program(op)))
           /\ Head(rest) = Program(op)[n + 1]
<1> DEFINE P == Program(op)
<1>1. P \in Seq(Statements)
  BY ProgramIsSeq
<1>2. rest = SubSeq(P, n + 1, Len(P)) /\ n \in 0 .. Len(P) /\ rest # <<>>
  BY DEF Unfinished
<1> HIDE DEF P
<1>3. Len(P) \in Nat /\ n \in Nat
  BY <1>1, <1>2, LenProperties
<1>4. n < Len(P)
  <2> SUFFICES ASSUME n = Len(P) PROVE FALSE
    BY <1>2, <1>3
  <2>1. rest = <<>>
    BY <1>1, <1>2, <1>3, SubSeqProperties
  <2> QED
    BY <1>2, <2>1
<1>5. Head(rest) = P[n + 1] /\ Tail(rest) = SubSeq(P, (n + 1) + 1, Len(P))
  BY <1>1, <1>2, <1>3, <1>4
<1> QED
  BY <1>3, <1>4, <1>5 DEF P

\* After the last statement.
LEMMA AllExecuted ==
    ASSUME NEW op \in WriteOps, NEW n \in 0 .. Len(Program(op)),
           SubSeq(Program(op), n + 1, Len(Program(op))) = <<>>
    PROVE  n = Len(Program(op))
<1> DEFINE P == Program(op)
<1>1. P \in Seq(Statements)
  BY ProgramIsSeq
<1>2. SubSeq(P, n + 1, Len(P)) = <<>> /\ n \in 0 .. Len(P)
  OBVIOUS
<1> HIDE DEF P
<1>3. Len(P) \in Nat /\ n \in Nat
  BY <1>1, <1>2, LenProperties
<1>4. ~(n < Len(P))
  <2> SUFFICES ASSUME n < Len(P) PROVE FALSE
    OBVIOUS
  <2>1. Len(SubSeq(P, n + 1, Len(P))) = Len(P) - n
    BY <1>1, <1>3
  <2>2. Len(SubSeq(P, n + 1, Len(P))) = 0
    BY <1>2, EmptySeq
  <2> QED
    BY <1>3, <2>1, <2>2
<1> QED
  BY <1>2, <1>3, <1>4 DEF P

\* The lock is taken on the newest state.
LEMMA LockTaken ==
    ASSUME IInv, NEW t \in Threads, call[t] \in CallSet, call[t].op \in WriteOps,
           db.gen[call[t].group] < MaxGen,
           pc'[t] = "writing", db' = db, call'[t] = call[t], view'[t] = db,
           left'[t] = Program(call[t].op)
    PROVE  Locked(t)'
<1>1. Executed(t, 0)'
  BY NothingExecuted DEF Executed
<1>2. Shape(view[t])'
  BY DEF IInv, TypeInv, Shape
<1> QED
  BY <1>1, <1>2 DEF Locked

\* The first write, by a transaction that has read or by delete_group.
LEMMA LockIInv ==
    ASSUME IInv, NEW t \in Threads, Upgrade(t) \/ BeginDelete(t)
    PROVE  IInv'
<1>1. CASE Upgrade(t)
  <2> USE <1>1 DEF Upgrade
  <2>0. /\ call[t] \in CallSet /\ call[t].op \in WriteOps
        /\ left[t] = Program(call[t].op)
    BY StoreAssumption DEF IInv, CallInv, CallOK
  <2>1. TypeInv' /\ LeaseIsSound' /\ \A u \in Threads \ {t} : Same(u)
    <3>1. TypeInv'
      BY StoreAssumption DEF IInv, TypeInv, Shape
    <3>2. LeaseIsSound'
      BY StoreAssumption DEF IInv, TypeInv, LeaseIsSound
    <3>3. \A u \in Threads \ {t} : Same(u)
      BY StoreAssumption DEF IInv, TypeInv, Same
    <3> QED
      BY <3>1, <3>2, <3>3
  <2>2. CallOK(t)' /\ LoadOK(t)'
    BY DEF IInv, CallInv, CallOK, LoadOK
  <2>3. Locked(t)'
    BY <2>0, LockTaken
  <2> QED
    BY <2>1, <2>2, <2>3, OwnStep
<1>2. CASE BeginDelete(t)
  <2> USE <1>2 DEF BeginDelete
  <2>0. /\ call[t] \in CallSet /\ call[t].op \in WriteOps
    BY DEF IInv, CallInv, CallOK, WriteOps
  <2>1. TypeInv' /\ LeaseIsSound' /\ \A u \in Threads \ {t} : Same(u)
    <3>1. TypeInv'
      BY StoreAssumption DEF IInv, TypeInv, Shape
    <3>2. LeaseIsSound'
      BY StoreAssumption DEF IInv, TypeInv, LeaseIsSound
    <3>3. \A u \in Threads \ {t} : Same(u)
      BY StoreAssumption DEF IInv, TypeInv, Same
    <3> QED
      BY <3>1, <3>2, <3>3
  <2>2. /\ pc'[t] = "writing" /\ view'[t] = db /\ left'[t] = Program(call[t].op)
    BY DEF IInv, TypeInv
  <2>3. CallOK(t)' /\ LoadOK(t)'
    BY <2>0, <2>2 DEF IInv, CallInv, CallOK, LoadOK
  <2>4. Locked(t)'
    BY <2>0, <2>2, LockTaken
  <2> QED
    BY <2>1, <2>3, <2>4, OwnStep
<1> QED
  BY <1>1, <1>2

\* A statement changes only what its own transaction sees.
LEMMA StatementIInv ==
    ASSUME IInv, NEW t \in Threads, ExecuteStatement(t)
    PROVE  IInv'
<1>0. call[t] \in CallSet /\ call[t].op \in WriteOps /\ Locked(t) /\ call[t].group \in Groups
  BY DEF ExecuteStatement, IInv, CallInv, CallOK, LockInv, CallSet
<1>1. TypeInv' /\ LeaseIsSound' /\ \A u \in Threads \ {t} : Same(u)
  BY DEF ExecuteStatement, IInv, TypeInv, Shape, LeaseIsSound, Same
<1>2. /\ view'[t] = Apply(view[t], call[t].group, Head(left[t])) /\ left'[t] = Tail(left[t])
  BY DEF ExecuteStatement, IInv, TypeInv
<1>3. CallOK(t)' /\ LoadOK(t)'
  BY DEF ExecuteStatement, IInv, CallInv, CallOK, LoadOK
<1>4. PICK n \in Nat : Executed(t, n)
  BY <1>0 DEF Locked
<1>5. Executed(t, n + 1)'
  <2> DEFINE P == Program(call[t].op)
             g == call[t].group
  <2>0. Unfinished(Program(call[t].op), n, left[t])
    BY <1>4 DEF Executed, ExecuteStatement, Unfinished
  <2>1. /\ n + 1 \in 0 .. Len(P)
        /\ Tail(left[t]) = SubSeq(P, (n + 1) + 1, Len(P))
        /\ Run(db, g, P)[n + 1] = Apply(Run(db, g, P)[n], g, Head(left[t]))
    <3>1. call[t].op \in WriteOps
      BY <1>0
    <3>2. n + 1 \in 0 .. Len(P)
      BY <3>1, <2>0, NextStatement
    <3>3. Tail(left[t]) = SubSeq(P, (n + 1) + 1, Len(P))
      BY <3>1, <2>0, NextStatement
    <3>4. Run(db, g, P)[n + 1] = Apply(Run(db, g, P)[n], g, Head(left[t]))
      <4>1. Head(left[t]) = P[n + 1]
        BY <3>1, <2>0, NextStatement
      <4>2. Len(P) \in Nat
        BY <3>1, ProgramIsSeq, LenProperties
      <4> HIDE DEF P, g
      <4>3. \A i \in 1 .. Len(P) : Run(db, g, P)[i] = Apply(Run(db, g, P)[i - 1], g, P[i])
        BY <4>2, RunSteps
      <4>4. n + 1 \in 1 .. Len(P) /\ (n + 1) - 1 = n
        BY <3>2, <4>2
      <4>5. Run(db, g, P)[n + 1] = Apply(Run(db, g, P)[n], g, P[n + 1])
        BY <4>3, <4>4
      <4> QED
        BY <4>1, <4>5
    <3> QED
      BY <3>2, <3>3, <3>4
  <2>2. Run(db, g, P)[n + 1] = Apply(view[t], g, Head(left[t]))
    BY <1>4, <2>1 DEF Executed
  <2> QED
    BY <1>2, <2>1, <2>2 DEF Executed, ExecuteStatement
<1>6. Locked(t)'
  <2>1. /\ Shape(view'[t])
        /\ view'[t].gen = view[t].gen
        /\ \A h \in Groups : h # call[t].group => view'[t].rows[h] = view[t].rows[h]
    BY <1>0, <1>2, ApplyShape DEF Locked
  <2>2. Shape(view[t])'
    BY <2>1 DEF Shape
  <2> QED
    BY <1>0, <1>5, <2>1, <2>2 DEF ExecuteStatement, Locked
<1> QED
  BY <1>1, <1>3, <1>6, OwnStep DEF ExecuteStatement

\* A transaction that ends with a new committed state preserves IInv if the
\* history has that state and nobody else holds the lock.
LEMMA EndWithWrite ==
    ASSUME IInv, NEW t \in Threads, Ends(t), locker' = None, broken' = broken,
           Shape(db)', images' = [g \in Groups |-> images'[g]], ImagesInv',
           \A g \in Groups : images[g] \subseteq images'[g]
    PROVE  IInv'
<1>1. TypeInv'
  BY EndEffect DEF IInv, TypeInv
<1>2. CallInv'
  <2> SUFFICES ASSUME NEW u \in Threads PROVE CallOK(u)'
    BY DEF CallInv
  <2>1. CASE u = t
    BY <2>1, EndEffect DEF IInv, CallOK
  <2>2. CASE u # t
    <3>1. Same(u) /\ CallOK(u)
      BY <2>2, EndEffect DEF IInv, CallInv
    <3> QED
      BY <3>1 DEF Same, CallOK
  <2> QED
    BY <2>1, <2>2
<1>3. LoadInv'
  <2> SUFFICES ASSUME NEW u \in Threads, pc'[u] = "loading" PROVE LoadOK(u)'
    BY DEF LoadInv, LoadOK
  <2>1. u # t
    BY EndEffect DEF IInv
  <2>2. Same(u) /\ LoadOK(u) /\ call[u].group \in Groups
    BY <2>1, EndEffect DEF IInv, LoadInv, CallInv, CallOK, CallSet, Same
  <2> QED
    BY <2>2 DEF Same, LoadOK
<1>4. LockInv'
  BY StoreAssumption DEF LockInv
<1>5. LeaseIsSound'
  BY EndLease DEF IInv, TypeInv
<1> QED
  BY <1>1, <1>2, <1>3, <1>4, <1>5 DEF IInv

\* A commit, and a single statement that writes.
LEMMA CommitIInv ==
    ASSUME IInv, NEW t \in Threads, Commit(t) \/ WriteKeyPackage(t)
    PROVE  IInv'
<1>0. Ends(t)
  BY DEF Commit, WriteKeyPackage, Return, Ends
<1>1. CASE Commit(t)
  <2> DEFINE g == call[t].group
  <2>1. Locked(t) /\ g \in Groups /\ locker = t
    BY <1>1 DEF Commit, IInv, CallInv, CallOK, LockInv, CallSet
  <2>2. /\ db' = [view[t] EXCEPT !.gen[g] = @ + 1]
        /\ images' = [images EXCEPT ![g] = @ \cup {view[t].rows[g]}]
        /\ locker' = None /\ broken' = broken
    BY <1>1, <2>1 DEF Commit, Return, Release
  <2>3. Shape(view[t])
    BY <2>1 DEF Locked
  <2>4. /\ db' = [rows |-> view[t].rows, gen |-> [view[t].gen EXCEPT ![g] = @ + 1],
                  key_package |-> view[t].key_package]
    BY <2>2, <2>3 DEF Shape
  <2>5. [view[t].gen EXCEPT ![g] = @ + 1] \in [Groups -> Nat]
    BY <2>1, <2>3 DEF Shape
  <2>6. Shape(db)'
    <3>1. db'.rows = view[t].rows /\ db'.gen \in [Groups -> Nat]
      BY <2>4, <2>5
    <3> QED
      BY <2>3, <2>4, <3>1 DEF Shape
  <2>7. /\ images' = [h \in Groups |-> images'[h]]
        /\ \A h \in Groups : images[h] \subseteq images'[h]
        /\ view[t].rows[g] \in images'[g]
    <3>1. DOMAIN images = Groups
      BY DEF IInv, TypeInv
    <3> QED
      BY <2>1, <2>2, <3>1
  <2>8. ImagesInv'
    <3> SUFFICES ASSUME NEW h \in Groups PROVE db'.rows[h] \in images'[h]
      BY DEF ImagesInv
    <3>1. db'.rows[h] = view[t].rows[h]
      BY <2>4
    <3>2. CASE h = g
      BY <2>7, <3>1, <3>2
    <3>3. CASE h # g
      <4>1. view[t].rows[h] = db.rows[h] /\ db.rows[h] \in images[h]
        BY <2>1, <3>3 DEF Locked, IInv, ImagesInv
      <4> QED
        BY <2>7, <3>1, <4>1
    <3> QED
      BY <3>2, <3>3
  <2> QED
    BY <1>0, <2>2, <2>6, <2>7, <2>8, EndWithWrite
<1>2. CASE WriteKeyPackage(t)
  <2>1. /\ db' = Stored(db) /\ images' = images /\ broken' = broken
        /\ locker = None
    BY <1>2 DEF WriteKeyPackage
  <2>2. locker' = None
    BY <1>2, <2>1 DEF WriteKeyPackage, Return, Release
  <2>3. /\ db' = [rows |-> db.rows, gen |-> db.gen, key_package |-> TRUE]
    BY <2>1 DEF Stored, IInv, TypeInv, Shape
  <2>4. Shape(db)' /\ ImagesInv'
    BY <2>1, <2>3 DEF IInv, TypeInv, Shape, ImagesInv
  <2> QED
    BY <1>0, <2>1, <2>2, <2>4, EndWithWrite DEF IInv, TypeInv
<1> QED
  BY <1>1, <1>2

\* Damage to a page, and the death of the process.
LEMMA FaultIInv ==
    ASSUME IInv, (\E g \in Fragile : Damage(g)) \/ Crash
    PROVE  IInv'
<1>1. CASE \E g \in Fragile : Damage(g)
  <2>1. UNCHANGED <<db, images, locker, broken, pc, call, lease, view, loaded, left>>
    BY <1>1 DEF Damage
  <2>2. TypeInv' /\ ImagesInv' /\ LeaseIsSound'
    BY <2>1 DEF IInv, TypeInv, Shape, ImagesInv, LeaseIsSound
  <2>3. CallInv' /\ LoadInv'
    BY <2>1 DEF IInv, CallInv, CallOK, LoadInv, LoadOK
  <2>4. LockInv'
    BY <2>1, LockFrame DEF IInv, LockInv
  <2> QED
    BY <2>2, <2>3, <2>4 DEF IInv
<1>2. CASE Crash
  <2> USE <1>2 DEF Crash
  <2>1. TypeInv' /\ ImagesInv'
    BY DEF IInv, TypeInv, Shape, ImagesInv
  <2>2. CallInv' /\ LoadInv'
    BY DEF CallInv, CallOK, LoadInv, LoadOK
  <2>3. LockInv' /\ LeaseIsSound'
    BY StoreAssumption DEF LockInv, LeaseIsSound
  <2> QED
    BY <2>1, <2>2, <2>3 DEF IInv
<1> QED
  BY <1>1, <1>2

\* No step at all.
LEMMA StutterIInv == IInv /\ UNCHANGED vars => IInv'
<1> SUFFICES ASSUME IInv, UNCHANGED vars PROVE IInv'
  OBVIOUS
<1> USE DEF vars
<1>1. TypeInv' /\ ImagesInv' /\ LeaseIsSound'
  BY DEF IInv, TypeInv, Shape, ImagesInv, LeaseIsSound
<1>2. CallInv' /\ LoadInv'
  BY DEF IInv, CallInv, CallOK, LoadInv, LoadOK
<1>3. LockInv'
  BY LockFrame DEF IInv, LockInv
<1> QED
  BY <1>1, <1>2, <1>3 DEF IInv

\* The invariant is inductive: it holds of every state of every behaviour,
\* whatever the threads, the groups and the connections.
THEOREM Inductive == Spec => []IInv
<1>1. Init => IInv
  BY InitIInv
<1>2. IInv /\ [Next]_vars => IInv'
  <2> SUFFICES ASSUME IInv, Next PROVE IInv'
    BY StutterIInv
  <2>1. ASSUME NEW t \in Threads, NEW op \in Calls, NEW g \in Groups, Call(t, op, g)
        PROVE  IInv'
    BY <2>1, PoolIInv
  <2>2. ASSUME NEW t \in Threads, Step(t) PROVE IInv'
    BY <2>2, PoolIInv, FailIInv, LoadIInv, LockIInv, StatementIInv, CommitIInv DEF Step
  <2> QED
    BY <2>1, <2>2, FaultIInv DEF Next
<1> QED
  BY <1>1, <1>2, PTL DEF Spec

\* A group load has read its tables from one committed state of the group.
THEOREM LoadsAreWhole == Spec => []LoadedIsWhole
<1>1. IInv => LoadedIsWhole
  BY DEF IInv, LoadInv, LoadOK, LoadedIsWhole
<1> QED
  BY <1>1, Inductive, PTL

\* Every call has a usable connection of its own.
THEOREM LeasesAreSound == Spec => []LeaseIsSound
<1>1. IInv => LeaseIsSound
  BY DEF IInv
<1> QED
  BY <1>1, Inductive, PTL

-----------------------------------------------------------------------------
(* The refinement.  AtomicStore has the same tables and statements, so its *)
(* operators are those of GroupStore.                                      *)

\* One statement, and the statements of an operation.
LEMMA SameOperators ==
    /\ Atomic!Empty = Empty
    /\ Atomic!WriteOps = WriteOps
    /\ \A d : Atomic!Stored(d) = Stored(d)
    /\ \A d, g, s : Atomic!Apply(d, g, s) = Apply(d, g, s)
    /\ \A op : Atomic!Program(op) = Program(op)
<1>1. Atomic!GroupTables = GroupTables /\ Atomic!TableOrder = TableOrder
  BY DEF Atomic!GroupTables, GroupTables, Atomic!TableOrder, TableOrder, Atomic!ToSet, ToSet
<1>2. Atomic!Empty = Empty
  BY <1>1 DEF Atomic!Empty, Empty
<1>3. Atomic!WriteOps = WriteOps /\ \A d : Atomic!Stored(d) = Stored(d)
  BY DEF Atomic!WriteOps, WriteOps, Atomic!GroupOps, GroupOps, Atomic!Stored, Stored
<1>4. \A d, g, s : Atomic!Apply(d, g, s) = Apply(d, g, s)
  <2>1. \A rows, s, v : Atomic!Execute(rows, s, v) = Execute(rows, s, v)
    BY DEF Atomic!Execute, Execute, Atomic!Keyed, Keyed
  <2> QED
    BY <2>1 DEF Atomic!Apply, Apply
<1>5. \A op : Atomic!Program(op) = Program(op)
  <2>1. Atomic!NewEpoch = NewEpoch
    BY DEF Atomic!NewEpoch, NewEpoch, Atomic!Statement, Statement,
           Atomic!write_group_data, write_group_data,
           Atomic!write_encryption_epoch_key_pairs, write_encryption_epoch_key_pairs,
           Atomic!write_group_epoch_message_secrets, write_group_epoch_message_secrets
  <2> QED
    BY <1>1, <2>1
    DEF Atomic!Program, Program, Atomic!Statement, Statement,
        Atomic!write_group_data, write_group_data,
        Atomic!delete_group_data, delete_group_data,
        Atomic!append_own_leaf_node, append_own_leaf_node,
        Atomic!delete_own_leaf_nodes, delete_own_leaf_nodes,
        Atomic!queue_proposal, queue_proposal,
        Atomic!clear_proposal_queue, clear_proposal_queue,
        Atomic!delete_encryption_epoch_key_pairs, delete_encryption_epoch_key_pairs,
        Atomic!write_group_epoch_message_secrets, write_group_epoch_message_secrets,
        Atomic!delete_group_epoch_message_secrets, delete_group_epoch_message_secrets,
        Atomic!insert_decrypted_application_message, insert_decrypted_application_message,
        Atomic!delete_key_package, delete_key_package,
        Atomic!delete_from, delete_from
<1> QED
  BY <1>2, <1>3, <1>4, <1>5

\* The whole operation.
LEMMA SameResult == \A d, g, op : Atomic!Result(d, g, op) = Result(d, g, op)
<1>1. \A d, g, program : Atomic!Run(d, g, program) = Run(d, g, program)
  BY SameOperators DEF Atomic!Run, Run
<1> QED
  BY <1>1, SameOperators DEF Atomic!Result, Result

\* A commit is the whole operation on the state it finds committed.
LEMMA CommitRefines ==
    ASSUME IInv, NEW t \in Threads, Commit(t)
    PROVE  Atomic!Next
<1> DEFINE g == call[t].group
           op == call[t].op
<1>1. Locked(t) /\ g \in Groups /\ op \in WriteOps
  BY DEF Commit, IInv, CallInv, CallOK, LockInv, CallSet
<1>2. PICK n \in Nat : Executed(t, n)
  BY <1>1 DEF Locked
<1>3. n = Len(Program(op))
  <2>1. n \in 0 .. Len(Program(op)) /\ SubSeq(Program(op), n + 1, Len(Program(op))) = <<>>
    BY <1>2 DEF Executed, Commit
  <2> QED
    BY <1>1, <2>1, AllExecuted, ZenonT(30)
<1>4. db' = Result(db, g, op)
  BY <1>2, <1>3 DEF Executed, Commit, Result
<1>5. Atomic!Operate(g, op)
  BY <1>1, <1>4, SameResult DEF Locked, Atomic!Operate
<1> QED
  BY <1>1, <1>5, SameOperators DEF Atomic!Next

\* What the callers see of the database is AtomicStore: an operation on a group
\* happens as a whole or not at all, on the state the operations before it left,
\* for any number of threads, connections, groups and crashes.
THEOREM StoreIsAtomic == Spec => ImplementsAtomicStore
<1>1. Init => Atomic!Init
  BY SameOperators DEF Init, Atomic!Init
<1>2. IInv /\ [Next]_vars => [Atomic!Next]_db
  <2> SUFFICES ASSUME IInv, Next, db' # db PROVE Atomic!Next
    BY DEF vars
  <2>1. ASSUME NEW t \in Threads, Step(t) PROVE Atomic!Next
    <3>1. Commit(t) \/ WriteKeyPackage(t)
      BY <2>1 DEF Step, Checkout, CheckoutTimeout, OpenFresh, PageFault, OperationFails,
         Begin, LoadTable, Loaded, Upgrade, Busy, BeginDelete, BusyTimeout,
         ExecuteStatement, ReadContext
    <3>2. CASE WriteKeyPackage(t)
      BY <3>2, SameOperators DEF WriteKeyPackage, Atomic!Next, Atomic!Publish
    <3> QED
      BY <3>1, <3>2, CommitRefines
  <2> QED
    BY <2>1 DEF Next, Call, Damage, Crash
<1> QED
  BY <1>1, <1>2, Inductive, PTL DEF Spec, ImplementsAtomicStore, Atomic!Spec
=============================================================================

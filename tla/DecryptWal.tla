----------------------------- MODULE DecryptWal -----------------------------
(***************************************************************************)
(* Decryption of application messages with the decrypted-message cache,    *)
(* UqMls::process_application_message_with_wal of kchat-uniffi.            *)
(*                                                                         *)
(* Decrypting an MLS ciphertext consumes its ratchet secret, so a message  *)
(* whose plaintext is lost after the secret is gone can never be read      *)
(* again.  The call therefore stores the plaintext under the caller's      *)
(* message id in the transaction that consumes the secret, and a retry is  *)
(* answered from that cache until the entry's time to live is over.        *)
(*                                                                         *)
(* Calls run on several threads over pooled SQLite connections in WAL      *)
(* journal mode.  A transaction is DEFERRED: it reads the snapshot of its  *)
(* first SELECT, and its first write fails with "database is locked" if    *)
(* another connection holds the write lock or has committed since.         *)
(***************************************************************************)
EXTENDS Integers, FiniteSets

CONSTANTS
    Threads,        \* application threads calling into the SDK
    NoThread,       \* nobody holds the write lock
    Groups,         \* group ids
    MsgIds,         \* message ids chosen by the caller
    Ciphertexts,    \* application messages received from the server
    GroupOf,        \* the group a ciphertext was encrypted for
    Ttl,            \* decrypted_message_ttl_seconds
    MaxClock,       \* bound on the system clock (unix seconds)
    MaxI64,         \* largest i64
    MaxFaults       \* bound on crashes and storage errors

ASSUME ConstantsAssumption ==
    /\ Groups # {} /\ MsgIds # {} /\ Ciphertexts # {}
    /\ NoThread \notin Threads
    /\ GroupOf \in [Ciphertexts -> Groups]
    /\ Ttl \in Nat \ {0}
    /\ MaxClock \in Nat /\ MaxI64 \in Nat /\ MaxFaults \in Nat

VARIABLES
    clock,      \* SystemTime::now, which may be stepped either way
    db,         \* the committed database
    writer,     \* the thread holding SQLite's write lock, or NoThread
    stale,      \* threads whose snapshot another commit has outdated
    pc,         \* where each thread is in its call
    req,        \* each thread's arguments and the time it read
    view,       \* each open transaction's snapshot with its own writes
    resp,       \* what each thread's last call returned
    up,         \* is the SDK instance open
    faults,     \* crashes and storage errors so far
    horizon,    \* (history) the latest time any call has read
    taken,      \* (history) under which id, until when, a WAL call took a secret
    uses        \* (history) how often a ciphertext's secret was consumed

vars == <<clock, db, writer, stale, pc, req, view, resp, up, faults,
          horizon, taken, uses>>

hist == <<horizon, taken, uses>>

None == [none |-> TRUE]

Plaintext(c) == <<"plaintext of", c>>

\* Sha256::digest of the ciphertext, assumed collision free.
Digest(c) == <<"sha256 of", c>>

Entries == [ciphertext_digest : {Digest(c) : c \in Ciphertexts},
            plaintext : {Plaintext(c) : c \in Ciphertexts},
            created_at : Nat, expires_at : 0 .. MaxI64]

Databases == [exists : [Groups -> BOOLEAN],
              secrets : SUBSET Ciphertexts,
              cache : [Groups \X MsgIds -> Entries \cup {None}]]

Requests == [kind : {"wal", "plain", "prune"}, group : Groups,
             id : MsgIds, msg : Ciphertexts, now : Nat]

Responses == [kind : {"none", "error", "locked", "conflict", "ttl"}]
                \cup [kind : {"ok"}, msg : Ciphertexts,
                      plaintext : {Plaintext(c) : c \in Ciphertexts}]

\* Transactions that hold a snapshot, and those that have written to it.
InTx(t) == pc[t] \in {"miss", "decrypted", "stored"}
Wrote(t) == pc[t] \in {"decrypted", "stored"}

\* The database d with another cache, or with other ratchet secrets.
WithCache(d, cache) == [exists |-> d.exists, secrets |-> d.secrets, cache |-> cache]
WithSecrets(d, secrets) == [exists |-> d.exists, secrets |-> secrets, cache |-> d.cache]

\* What a reader at time `now` finds: rows whose expires_at is later.
Live(entry, now) == entry # None /\ entry.expires_at > now

load_decrypted_application_message(d, g, m, now) ==
    IF Live(d.cache[<<g, m>>], now) THEN d.cache[<<g, m>>] ELSE None

\* INSERT ... ON CONFLICT DO UPDATE only over a row already expired.
insert_decrypted_application_message(d, g, m, entry) ==
    IF d.cache[<<g, m>>] = None \/ d.cache[<<g, m>>].expires_at <= entry.created_at
    THEN WithCache(d, [d.cache EXCEPT ![<<g, m>>] = entry])
    ELSE d

\* Wrong version: an entry goes one second before it expires.
PruneEarly(d, now) ==
    WithCache(d, [k \in Groups \X MsgIds |->
        IF d.cache[k] # None /\ d.cache[k].expires_at <= now + 1
        THEN None ELSE d.cache[k]])

\* DELETE .. WHERE expires_at <= now.
prune_decrypted_application_messages(d, now) ==
    WithCache(d, [k \in Groups \X MsgIds |->
        IF d.cache[k] # None /\ d.cache[k].expires_at <= now
        THEN None ELSE d.cache[k]])

\* delete_group_by_id: group state, epoch secrets and cached plaintexts go.
delete_group_by_id(d, g) ==
    [exists  |-> [d.exists EXCEPT ![g] = FALSE],
     secrets |-> {c \in d.secrets : GroupOf[c] # g},
     cache   |-> [k \in Groups \X MsgIds |->
                    IF k[1] = g THEN None ELSE d.cache[k]]]

\* A ciphertext decrypts when its group is stored and its secret still is.
Decryptable(d, g, c) == d.exists[g] /\ GroupOf[c] = g /\ c \in d.secrets

\* Publish d: transactions that still read the former state become stale.
Publish(d) ==
    /\ db' = d
    /\ stale' = IF d = db THEN stale ELSE stale \cup {t \in Threads : InTx(t)}

Later(s, t) == IF s > t THEN s ELSE t

Error(k) == [kind |-> k]
Ok(c, p) == [kind |-> "ok", msg |-> c, plaintext |-> p]

Request(kind, g, m, c, now) ==
    [kind |-> kind, group |-> g, id |-> m, msg |-> c, now |-> now]

\* Arguments an operation does not take.
AnyGroup == CHOOSE g \in Groups : TRUE
AnyId == CHOOSE m \in MsgIds : TRUE
AnyMsg == CHOOSE c \in Ciphertexts : TRUE

NoRequest == Request("prune", AnyGroup, AnyId, AnyMsg, 0)

\* A call ends with r.
Finish(t, r) ==
    /\ req' = [req EXCEPT ![t] = NoRequest]
    /\ pc' = [pc EXCEPT ![t] = "idle"]
    /\ resp' = [resp EXCEPT ![t] = r]

\* The transaction is dropped: its writes are discarded, its lock released.
Rollback(t) ==
    /\ writer' = IF writer = t THEN NoThread ELSE writer
    /\ view' = [view EXCEPT ![t] = None]
    /\ stale' = stale \ {t}
    /\ UNCHANGED db

-----------------------------------------------------------------------------

Init ==
    /\ clock = 0
    /\ db = [exists |-> [g \in Groups |-> TRUE], secrets |-> Ciphertexts,
             cache |-> [k \in Groups \X MsgIds |-> None]]
    /\ writer = NoThread
    /\ stale = {}
    /\ pc = [t \in Threads |-> "idle"]
    /\ req = [t \in Threads |-> NoRequest]
    /\ view = [t \in Threads |-> None]
    /\ resp = [t \in Threads |-> Error("none")]
    /\ up = TRUE
    /\ faults = 0
    /\ horizon = 0
    /\ taken = [c \in Ciphertexts |-> None]
    /\ uses = [c \in Ciphertexts |-> 0]

\* A call enters; the clock is read before the transaction begins.
Enter(t, r, at) ==
    /\ up /\ pc[t] = "idle"
    /\ req' = [req EXCEPT ![t] = r]
    /\ pc' = [pc EXCEPT ![t] = at]
    /\ resp' = [resp EXCEPT ![t] = Error("none")]
    /\ UNCHANGED <<clock, db, writer, stale, view, up, faults, taken, uses>>

\* Wrong version: now + ttl without checked_add.
CallWalUnchecked(t, g, m, c) ==
    /\ Enter(t, Request("wal", g, m, c, clock), "begin")
    /\ horizon' = Later(clock, horizon)

CallWal(t, g, m, c) ==
    /\ clock + Ttl <= MaxI64
    /\ Enter(t, Request("wal", g, m, c, clock), "begin")
    /\ horizon' = Later(clock, horizon)

\* now.checked_add(ttl) overflows: InvalidDecryptedMessageTtl.
CallWalOverflow(t) ==
    /\ up /\ pc[t] = "idle"
    /\ clock + Ttl > MaxI64
    /\ resp' = [resp EXCEPT ![t] = Error("ttl")]
    /\ UNCHANGED <<clock, db, writer, stale, pc, req, view, up, faults, hist>>

\* process_application_message neither reads the clock nor takes an id.
CallPlain(t, g, c) ==
    /\ Enter(t, Request("plain", g, AnyId, c, 0), "begin")
    /\ UNCHANGED horizon

CallPrune(t) ==
    /\ Enter(t, Request("prune", AnyGroup, AnyId, AnyMsg, clock), "prune")
    /\ horizon' = Later(clock, horizon)

\* Wrong version: the cached digest is not compared.
LoadCacheUnchecked(t) ==
    /\ pc[t] = "begin" /\ req[t].kind = "wal"
    /\ LET entry == load_decrypted_application_message(
                        db, req[t].group, req[t].id, req[t].now)
       IN  IF entry = None
           THEN /\ pc' = [pc EXCEPT ![t] = "miss"]
                /\ view' = [view EXCEPT ![t] = db]
                /\ UNCHANGED <<req, resp>>
           ELSE Finish(t, Ok(req[t].msg, entry.plaintext)) /\ UNCHANGED view
    /\ UNCHANGED <<clock, db, writer, stale, up, faults, hist>>

\* BEGIN DEFERRED and the cache lookup, which fixes the snapshot.
LoadCache(t) ==
    /\ pc[t] = "begin" /\ req[t].kind = "wal"
    /\ LET entry == load_decrypted_application_message(
                        db, req[t].group, req[t].id, req[t].now)
       IN  IF entry = None
           THEN /\ pc' = [pc EXCEPT ![t] = "miss"]
                /\ view' = [view EXCEPT ![t] = db]
                /\ UNCHANGED <<req, resp>>
           ELSE /\ Finish(t, IF entry.ciphertext_digest # Digest(req[t].msg)
                             THEN Error("conflict") ELSE Ok(req[t].msg, entry.plaintext))
                /\ UNCHANGED view
    /\ UNCHANGED <<clock, db, writer, stale, up, faults, hist>>

\* process_application_message has no cache: its snapshot is the group load.
LoadGroupOnly(t) ==
    /\ pc[t] = "begin" /\ req[t].kind = "plain"
    /\ pc' = [pc EXCEPT ![t] = "miss"]
    /\ view' = [view EXCEPT ![t] = db]
    /\ UNCHANGED <<clock, db, writer, stale, req, resp, up, faults, hist>>

\* Wrong version: the group was loaded outside the writing transaction.
DecryptStale(t) ==
    /\ pc[t] = "miss"
    /\ Decryptable(view[t], req[t].group, req[t].msg)
    /\ writer = NoThread
    /\ writer' = t
    /\ view' = [view EXCEPT ![t] = WithSecrets(view[t], view[t].secrets \ {req[t].msg})]
    /\ pc' = [pc EXCEPT ![t] = IF req[t].kind = "wal" THEN "decrypted" ELSE "stored"]
    /\ UNCHANGED <<clock, db, stale, req, resp, up, faults, hist>>

\* core::group and process_message: the secret leaves the stored ratchet.
Decrypt(t) ==
    /\ pc[t] = "miss"
    /\ Decryptable(view[t], req[t].group, req[t].msg)
    /\ writer = NoThread /\ t \notin stale
    /\ writer' = t
    /\ view' = [view EXCEPT ![t] = WithSecrets(view[t], view[t].secrets \ {req[t].msg})]
    /\ pc' = [pc EXCEPT ![t] = IF req[t].kind = "wal" THEN "decrypted" ELSE "stored"]
    /\ UNCHANGED <<clock, db, stale, req, resp, up, faults, hist>>

\* The group is gone or the secret already used: the closure's ? rolls back.
DecryptFails(t) ==
    /\ pc[t] = "miss"
    /\ ~Decryptable(view[t], req[t].group, req[t].msg)
    /\ Finish(t, Error("error"))
    /\ Rollback(t)
    /\ UNCHANGED <<clock, up, faults, hist>>

\* The first write meets another writer, or a commit after the snapshot.
DecryptLocked(t) ==
    /\ pc[t] = "miss"
    /\ Decryptable(view[t], req[t].group, req[t].msg)
    /\ writer # NoThread \/ t \in stale
    /\ Finish(t, Error("locked"))
    /\ Rollback(t)
    /\ UNCHANGED <<clock, up, faults, hist>>

\* Wrong version: the plaintext is not stored with the consumed secret.
StoreNothing(t) ==
    /\ pc[t] = "decrypted"
    /\ pc' = [pc EXCEPT ![t] = "stored"]
    /\ UNCHANGED <<clock, db, writer, stale, req, view, resp, up, faults, hist>>

StoreCache(t) ==
    /\ pc[t] = "decrypted"
    /\ view' = [view EXCEPT ![t] = insert_decrypted_application_message(
                    view[t], req[t].group, req[t].id,
                    [ciphertext_digest |-> Digest(req[t].msg),
                     plaintext |-> Plaintext(req[t].msg),
                     created_at |-> req[t].now,
                     expires_at |-> req[t].now + Ttl])]
    /\ pc' = [pc EXCEPT ![t] = "stored"]
    /\ UNCHANGED <<clock, db, writer, stale, req, resp, up, faults, hist>>

\* tx.commit() makes the writes durable; the plaintext has yet to be returned.
Commit(t) ==
    /\ pc[t] = "stored"
    /\ db' = view[t]
    /\ stale' = stale \cup {s \in Threads \ {t} : InTx(s)}
    /\ writer' = NoThread
    /\ view' = [view EXCEPT ![t] = None]
    /\ pc' = [pc EXCEPT ![t] = "committed"]
    /\ uses' = [uses EXCEPT ![req[t].msg] = @ + 1]
    /\ taken' = IF req[t].kind = "wal"
                THEN [taken EXCEPT ![req[t].msg] =
                        [id |-> req[t].id, expires |-> req[t].now + Ttl]]
                ELSE taken
    /\ UNCHANGED <<clock, req, resp, up, faults, horizon>>

Return(t) ==
    /\ pc[t] = "committed"
    /\ Finish(t, Ok(req[t].msg, Plaintext(req[t].msg)))
    /\ UNCHANGED <<clock, db, writer, stale, view, up, faults, hist>>

\* Any statement, the checkout or the commit may fail: the drop rolls back.
StorageError(t) ==
    /\ pc[t] \in {"begin", "miss", "decrypted", "stored", "prune"}
    /\ faults < MaxFaults
    /\ faults' = faults + 1
    /\ Finish(t, Error("error"))
    /\ Rollback(t)
    /\ UNCHANGED <<clock, up, hist>>

\* prune_decrypted_application_messages: one auto-committed DELETE.
Prune(t) ==
    /\ pc[t] = "prune"
    /\ writer = NoThread
    /\ Publish(prune_decrypted_application_messages(db, req[t].now))
    /\ Finish(t, Error("none"))
    /\ UNCHANGED <<clock, writer, view, up, faults, hist>>

PruneLocked(t) ==
    /\ pc[t] = "prune" /\ writer # NoThread
    /\ Finish(t, Error("locked"))
    /\ UNCHANGED <<clock, db, writer, stale, view, up, faults, hist>>

\* delete_group by any thread: its first statement already takes the lock.
DeleteGroup(g) ==
    /\ up /\ writer = NoThread /\ db.exists[g]
    /\ Publish(delete_group_by_id(db, g))
    /\ taken' = [c \in Ciphertexts |-> IF GroupOf[c] = g THEN None ELSE taken[c]]
    /\ UNCHANGED <<clock, writer, pc, req, view, resp, up, faults, horizon, uses>>

\* Merging a commit drops the secrets of epochs beyond max_past_epochs.
RetireSecret(c) ==
    /\ up /\ writer = NoThread /\ c \in db.secrets
    /\ Publish(WithSecrets(db, db.secrets \ {c}))
    /\ UNCHANGED <<clock, writer, pc, req, view, resp, up, faults, hist>>

\* The process dies: open transactions are rolled back, the rest is durable.
Crash ==
    /\ up /\ faults < MaxFaults
    /\ up' = FALSE
    /\ faults' = faults + 1
    /\ pc' = [t \in Threads |-> "idle"]
    /\ req' = [t \in Threads |-> NoRequest]
    /\ resp' = [t \in Threads |-> Error("none")]
    /\ writer' = NoThread
    /\ view' = [t \in Threads |-> None]
    /\ stale' = {}
    /\ UNCHANGED <<clock, db, hist>>

\* UqMls::new prunes expired rows; a failing cleanup is only logged.
Open ==
    /\ ~up /\ up' = TRUE
    /\ \/ Publish(prune_decrypted_application_messages(db, clock))
       \/ UNCHANGED <<db, stale>>
    /\ horizon' = Later(clock, horizon)
    /\ UNCHANGED <<clock, writer, pc, req, view, resp, faults, taken, uses>>

SetClock(n) ==
    /\ clock' = n
    /\ UNCHANGED <<db, writer, stale, pc, req, view, resp, up, faults, hist>>

ThreadStep(t) ==
    \/ LoadCache(t) \/ LoadGroupOnly(t)
    \/ Decrypt(t) \/ DecryptFails(t) \/ DecryptLocked(t)
    \/ StoreCache(t) \/ Commit(t) \/ Return(t)
    \/ Prune(t) \/ PruneLocked(t)

Next ==
    \/ \E t \in Threads :
        \/ ThreadStep(t)
        \/ StorageError(t)
        \/ \E g \in Groups, m \in MsgIds, c \in Ciphertexts :
            CallWal(t, g, m, c)
        \/ CallWalOverflow(t)
        \/ \E g \in Groups, c \in Ciphertexts : CallPlain(t, g, c)
        \/ CallPrune(t)
    \/ \E g \in Groups : DeleteGroup(g)
    \/ \E c \in Ciphertexts : RetireSecret(c)
    \/ Crash \/ Open
    \/ \E n \in 0..MaxClock : SetClock(n)

Spec == Init /\ [][Next]_vars

-----------------------------------------------------------------------------
\* Every variable keeps the shape the code gives it.
TypeOK ==
    /\ clock \in Nat
    /\ db \in Databases
    /\ writer \in Threads \cup {NoThread}
    /\ stale \subseteq Threads
    /\ pc \in [Threads -> {"idle", "begin", "miss", "decrypted", "stored",
                           "committed", "prune"}]
    /\ req \in [Threads -> Requests]
    /\ view \in [Threads -> Databases \cup {None}]
    /\ resp \in [Threads -> Responses]
    /\ up \in BOOLEAN
    /\ faults \in Nat
    /\ horizon \in Nat
    /\ taken \in [Ciphertexts -> [id : MsgIds, expires : Nat] \cup {None}]
    /\ uses \in [Ciphertexts -> Nat]

\* A secret a committed WAL call consumed is never lost with its plaintext:
\* until some call has read a clock at or past the entry's expiry, the cache
\* still answers a retry with that plaintext, whatever crashes, conflicting
\* calls and prunes came in between.
Recoverable ==
    \A c \in Ciphertexts :
        taken[c] # None /\ taken[c].expires > horizon =>
            LET entry == db.cache[<<GroupOf[c], taken[c].id>>]
            IN  /\ entry # None
                /\ entry.ciphertext_digest = Digest(c)
                /\ entry.plaintext = Plaintext(c)
                /\ entry.expires_at = taken[c].expires

\* A call never returns the plaintext of a ciphertext it was not given, even
\* when two messages are submitted under one id, concurrently or after a
\* crash.
RightPlaintext ==
    \A t \in Threads :
        resp[t].kind = "ok" => resp[t].plaintext = Plaintext(resp[t].msg)

\* No ratchet secret is consumed by two committed transactions: the snapshot
\* a decryption read is still current when it writes.
ConsumedOnce == \A c \in Ciphertexts : uses[c] <= 1

-----------------------------------------------------------------------------
(* The parts of the inductive invariant behind the three properties.       *)

\* The entry a WAL call stores.
EntryOf(r) == [ciphertext_digest |-> Digest(r.msg), plaintext |-> Plaintext(r.msg),
               created_at |-> r.now, expires_at |-> r.now + Ttl]

\* Exactly the transaction that has written holds the lock, and it is current.
LockInv ==
    /\ writer # NoThread => Wrote(writer)
    /\ \A t \in Threads : Wrote(t) => writer = t /\ t \notin stale

\* What each call is doing: its kind, and a time it has really read.
CallInv ==
    \A t \in Threads :
        /\ pc[t] \in {"begin", "miss", "stored", "committed"} => req[t].kind \in {"wal", "plain"}
        /\ pc[t] = "decrypted" => req[t].kind = "wal"
        /\ req[t].now <= horizon
        /\ req[t].kind = "wal" => req[t].now + Ttl <= MaxI64
        /\ InTx(t) => view[t] # None
        /\ ~up => pc[t] = "idle"

\* A transaction that may still write differs from the committed database by
\* its own writes only.
SnapshotInv ==
    \A t \in Threads :
        /\ pc[t] = "miss" /\ t \notin stale => view[t] = db
        /\ Wrote(t) => /\ req[t].msg \in db.secrets
                       /\ GroupOf[req[t].msg] = req[t].group
                       /\ view[t].exists = db.exists
                       /\ view[t].secrets = db.secrets \ {req[t].msg}
        /\ pc[t] = "decrypted" => view[t].cache = db.cache
        /\ pc[t] = "stored" =>
            view[t].cache = IF req[t].kind = "wal"
                            THEN [db.cache EXCEPT ![<<req[t].group, req[t].id>>] = EntryOf(req[t])]
                            ELSE db.cache

\* The miss a WAL transaction saw is still a miss when it writes.
MissInv ==
    \A t \in Threads :
        InTx(t) /\ req[t].kind = "wal" /\ t \notin stale =>
            ~Live(db.cache[<<req[t].group, req[t].id>>], req[t].now)

\* A cached plaintext belongs to the ciphertext whose digest is beside it.
CacheSound ==
    \A k \in Groups \X MsgIds :
        db.cache[k] # None =>
            \E c \in Ciphertexts : /\ db.cache[k].ciphertext_digest = Digest(c)
                                   /\ db.cache[k].plaintext = Plaintext(c)

\* A consumed secret is gone from the committed ratchet.
UsesInv == \A c \in Ciphertexts : uses[c] <= 1 /\ (uses[c] = 1 => c \notin db.secrets)

\* The inductive invariant of the proofs: every transaction that can still
\* commit rests on the committed database, so the properties survive its commit.
IInv ==
    /\ TypeOK /\ LockInv /\ CallInv /\ SnapshotInv /\ MissInv
    /\ CacheSound /\ UsesInv /\ Recoverable /\ RightPlaintext

-----------------------------------------------------------------------------
(* Progress.  Threads that have entered a call run on, a closed instance   *)
(* is opened again, and the application keeps submitting a message.        *)

Fairness ==
    /\ \A t \in Threads : WF_vars(ThreadStep(t))
    /\ WF_vars(Open)
    /\ \A c \in Ciphertexts, m \in MsgIds :
        SF_vars(\E t \in Threads : CallWal(t, GroupOf[c], m, c))

FairSpec == Spec /\ Fairness

Answered(c) == \E t \in Threads : resp[t] = Ok(c, Plaintext(c))

\* The plaintext is out of reach: the secret was taken by no WAL call, or by
\* one whose entry has expired.
OutOfReach(c) ==
    c \notin db.secrets /\ (taken[c] = None \/ taken[c].expires <= horizon)

\* A message the application keeps submitting is answered again and again,
\* after every crash, conflict or storage error, until its plaintext has
\* expired or its secret was retired without the cache.
RetryAnswered == \A c \in Ciphertexts : []<>(Answered(c) \/ OutOfReach(c))
=============================================================================

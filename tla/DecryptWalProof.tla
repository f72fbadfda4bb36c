--------------------------- MODULE DecryptWalProof ---------------------------
(***************************************************************************)
(* Machine-checked proofs about DecryptWal, for any threads, groups,       *)
(* message ids, ciphertexts, time to live and number of crashes.           *)
(***************************************************************************)
EXTENDS DecryptWal, TLAPS

\* The arguments an operation does not take are still of their types.
LEMMA NoRequestType == NoRequest \in Requests /\ NoRequest.now = 0 /\ NoRequest.kind = "prune"
BY ConstantsAssumption DEF NoRequest, Request, Requests, AnyGroup, AnyId, AnyMsg

\* An entry stored by a WAL call is an entry, and is not the absent one.
LEMMA EntryType ==
    ASSUME NEW r \in Requests, r.now + Ttl <= MaxI64
    PROVE  EntryOf(r) \in Entries /\ EntryOf(r) # None
BY ConstantsAssumption DEF EntryOf, Entries, Requests, None

\* No entry, database or history record is the absent value.
LEMMA NotNone ==
    /\ \A e \in Entries : e # None
    /\ \A d \in Databases : d # None
    /\ \A h \in [id : MsgIds, expires : Nat] : h # None
BY DEF Entries, Databases, None

\* Digests and plaintexts of different ciphertexts differ.
LEMMA Injective ==
    \A c, d : (Digest(c) = Digest(d) => c = d) /\ (Plaintext(c) = Plaintext(d) => c = d)
BY DEF Digest, Plaintext

\* Pruning touches only the cache, and only rows expired at `now`.
LEMMA PruneLemma ==
    ASSUME NEW d \in Databases, NEW now \in Nat
    PROVE  LET p == prune_decrypted_application_messages(d, now)
           IN  /\ p \in Databases
               /\ p.exists = d.exists /\ p.secrets = d.secrets
               /\ \A k \in Groups \X MsgIds :
                    \/ p.cache[k] = d.cache[k]
                    \/ p.cache[k] = None /\ d.cache[k] # None /\ d.cache[k].expires_at <= now
BY DEF prune_decrypted_application_messages, WithCache, Databases

\* Deleting a group clears its rows and leaves those of the others.
LEMMA DeleteLemma ==
    ASSUME NEW d \in Databases, NEW g \in Groups
    PROVE  LET p == delete_group_by_id(d, g)
           IN  /\ p \in Databases
               /\ p.secrets \subseteq d.secrets
               /\ \A k \in Groups \X MsgIds :
                    p.cache[k] = IF k[1] = g THEN None ELSE d.cache[k]
BY DEF delete_group_by_id, Databases

\* Where the lookup missed, the upsert takes effect: its WHERE clause is the
\* complement of the lookup's.
LEMMA InsertLemma ==
    ASSUME NEW d \in Databases, NEW r \in Requests,
           ~Live(d.cache[<<r.group, r.id>>], r.now), r.now + Ttl <= MaxI64
    PROVE  LET p == insert_decrypted_application_message(d, r.group, r.id, EntryOf(r))
           IN  /\ p \in Databases
               /\ p.exists = d.exists /\ p.secrets = d.secrets
               /\ p.cache = [d.cache EXCEPT ![<<r.group, r.id>>] = EntryOf(r)]
<1>1. r.group \in Groups /\ r.id \in MsgIds /\ r.now \in Nat
  BY DEF Requests
<1>2. <<r.group, r.id>> \in Groups \X MsgIds
  BY <1>1
<1>3. d.cache[<<r.group, r.id>>] \in Entries \cup {None}
  BY <1>2 DEF Databases
<1>4. d.cache[<<r.group, r.id>>] = None \/ d.cache[<<r.group, r.id>>].expires_at <= EntryOf(r).created_at
  BY <1>1, <1>3 DEF Live, Entries, EntryOf
<1>5. EntryOf(r) \in Entries
  BY EntryType
<1>6. QED
  BY <1>2, <1>4, <1>5 DEF insert_decrypted_application_message, WithCache, Databases

-----------------------------------------------------------------------------
\* The initial state satisfies the inductive invariant.
LEMMA InitIInv == Init => IInv
<1> SUFFICES ASSUME Init PROVE IInv
  OBVIOUS
<1> USE DEF Init
<1>1. TypeOK
  BY NoRequestType, ConstantsAssumption DEF TypeOK, Databases, Responses, Error
<1>2. LockInv /\ CallInv /\ SnapshotInv /\ MissInv
  BY NoRequestType DEF LockInv, CallInv, SnapshotInv, MissInv, InTx, Wrote
<1>3. CacheSound /\ UsesInv /\ Recoverable /\ RightPlaintext
  BY DEF CacheSound, UsesInv, Recoverable, RightPlaintext, Error
<1>4. QED
  BY <1>1, <1>2, <1>3 DEF IInv

-----------------------------------------------------------------------------
(* One lemma per group of actions: IInv is preserved.                      *)

\* Steps that touch neither a transaction nor the database.
LEMMA FrameIInv ==
    ASSUME IInv, UNCHANGED <<db, writer, stale, pc, req, view, resp, hist>>,
           UNCHANGED up, clock' \in Nat, faults' \in Nat
    PROVE  IInv'
<1>1. TypeOK'
  BY DEF IInv, TypeOK, hist
<1>2. (LockInv /\ CallInv /\ SnapshotInv /\ MissInv)'
  BY DEF IInv, LockInv, CallInv, SnapshotInv, MissInv, InTx, Wrote, hist
<1>3. (CacheSound /\ UsesInv /\ Recoverable /\ RightPlaintext)'
  BY DEF IInv, CacheSound, UsesInv, Recoverable, RightPlaintext, hist
<1>4. QED
  BY <1>1, <1>2, <1>3 DEF IInv

\* A thread that is in no transaction starts a call at a time it has read.
LEMMA EnterIInv ==
    ASSUME IInv, NEW t \in Threads, NEW r \in Requests, NEW at,
           Enter(t, r, at), horizon' \in Nat, horizon <= horizon', r.now <= horizon',
           r.kind = "wal" => r.now + Ttl <= MaxI64,
           \/ at = "begin" /\ r.kind \in {"wal", "plain"}
           \/ at = "prune"
    PROVE  IInv'
<1> USE DEF Enter
<1>1. TypeOK'
  BY DEF IInv, TypeOK, Responses, Error
<1>2. \A s \in Threads : InTx(s)' = InTx(s) /\ Wrote(s)' = Wrote(s)
                         /\ (InTx(s) => s # t /\ pc'[s] = pc[s] /\ req'[s] = req[s])
  BY DEF IInv, TypeOK, InTx, Wrote
<1>3. LockInv'
  BY <1>2 DEF IInv, LockInv, TypeOK
<1>4. CallInv'
  BY <1>2, <1>1 DEF IInv, CallInv, TypeOK, InTx, Requests
<1>5. SnapshotInv'
  BY <1>2 DEF IInv, SnapshotInv, TypeOK, InTx, Wrote
<1>6. MissInv'
  BY <1>2 DEF IInv, MissInv, InTx
<1>7. CacheSound' /\ UsesInv'
  BY DEF IInv, CacheSound, UsesInv
<1>8. Recoverable'
  <2>1. \A c \in Ciphertexts : taken[c] # None /\ taken[c].expires > horizon' => taken[c].expires > horizon
    BY DEF IInv, TypeOK
  <2>2. UNCHANGED <<db, taken>>
    OBVIOUS
  <2> HIDE DEF Enter
  <2>3. QED
    BY <2>1, <2>2 DEF IInv, Recoverable
<1>9. RightPlaintext'
  BY DEF IInv, RightPlaintext, TypeOK, Error
<1>10. QED
  BY <1>1, <1>3, <1>4, <1>5, <1>6, <1>7, <1>8, <1>9 DEF IInv

\* A call that ends with an error, its transaction dropped.
LEMMA RollbackIInv ==
    ASSUME IInv, NEW t \in Threads, NEW k \in {"none", "error", "locked", "conflict", "ttl"},
           Finish(t, Error(k)), Rollback(t),
           UNCHANGED <<clock, up, hist>>, faults' \in Nat
    PROVE  IInv'
<1> USE DEF Finish, Rollback, hist
<1>1. TypeOK'
  BY NoRequestType, ConstantsAssumption DEF IInv, TypeOK, Responses, Error
<1>2. \A s \in Threads : InTx(s)' => s # t /\ pc'[s] = pc[s] /\ req'[s] = req[s] /\ view'[s] = view[s]
                                     /\ InTx(s) /\ (s \in stale' <=> s \in stale)
  BY DEF IInv, TypeOK, InTx
<1>3. \A s \in Threads : Wrote(s)' => Wrote(s) /\ InTx(s)'
  BY DEF IInv, TypeOK, InTx, Wrote
<1>4. LockInv'
  <2>1. \A s \in Threads : Wrote(s)' => writer' = s /\ s \notin stale'
    BY <1>2, <1>3 DEF IInv, LockInv
  <2>2. writer' # NoThread => writer # t /\ writer' = writer /\ Wrote(writer) /\ writer \in Threads
    BY ConstantsAssumption DEF IInv, LockInv, TypeOK
  <2>3. writer' # NoThread => Wrote(writer)'
    BY <2>2 DEF IInv, TypeOK, Wrote
  <2>4. QED
    BY <2>1, <2>3 DEF LockInv
<1>5. CallInv'
  BY <1>2, NoRequestType DEF IInv, CallInv, TypeOK, InTx
<1>6. SnapshotInv'
  BY SMTT(30), <1>2, <1>3 DEF IInv, SnapshotInv, InTx, Wrote
<1>7. MissInv'
  BY <1>2 DEF IInv, MissInv
<1>8. CacheSound' /\ UsesInv' /\ Recoverable'
  BY DEF IInv, CacheSound, UsesInv, Recoverable
<1>9. RightPlaintext'
  BY DEF IInv, RightPlaintext, TypeOK, Error
<1>10. QED
  BY <1>1, <1>4, <1>5, <1>6, <1>7, <1>8, <1>9 DEF IInv

\* A transaction begins: its snapshot is the committed database.
LEMMA BeginIInv ==
    ASSUME IInv, NEW t \in Threads, pc[t] = "begin",
           req[t].kind = "wal" => ~Live(db.cache[<<req[t].group, req[t].id>>], req[t].now),
           pc' = [pc EXCEPT ![t] = "miss"], view' = [view EXCEPT ![t] = db],
           UNCHANGED <<clock, db, writer, stale, req, resp, up, faults, hist>>
    PROVE  IInv'
<1>1. TypeOK'
  BY DEF IInv, TypeOK, hist
<1>2. \A s \in Threads : s # t => pc'[s] = pc[s] /\ view'[s] = view[s]
  BY DEF IInv, TypeOK
<1>3. pc'[t] = "miss" /\ view'[t] = db
  BY DEF IInv, TypeOK
<1>4. LockInv'
  BY <1>2, <1>3 DEF IInv, LockInv, TypeOK, Wrote
<1>5. CallInv'
  BY <1>2, <1>3, NotNone DEF IInv, CallInv, TypeOK, InTx, hist
<1>6. SnapshotInv'
  BY <1>2, <1>3 DEF IInv, SnapshotInv, Wrote
<1>7. MissInv'
  BY <1>2, <1>3 DEF IInv, MissInv, InTx
<1>8. (CacheSound /\ UsesInv /\ Recoverable /\ RightPlaintext)'
  BY DEF IInv, CacheSound, UsesInv, Recoverable, RightPlaintext, hist
<1>9. QED
  BY <1>1, <1>4, <1>5, <1>6, <1>7, <1>8 DEF IInv

\* A call outside any transaction that ends leaves the database alone.
LEMMA FinishIInv ==
    ASSUME IInv, NEW t \in Threads, ~InTx(t),
           NEW r \in Responses, r.kind = "ok" => r.plaintext = Plaintext(r.msg),
           Finish(t, r),
           UNCHANGED <<clock, db, writer, stale, view, up, faults, hist>>
    PROVE  IInv'
<1> USE DEF Finish, hist
<1>1. TypeOK'
  BY NoRequestType DEF IInv, TypeOK
<1>2. \A s \in Threads : InTx(s)' => InTx(s) /\ s # t /\ pc'[s] = pc[s] /\ req'[s] = req[s]
  BY DEF IInv, TypeOK, InTx
<1>3. \A s \in Threads : (Wrote(s)' <=> Wrote(s)) /\ (Wrote(s) => InTx(s)')
  BY DEF IInv, TypeOK, InTx, Wrote
<1>4. LockInv'
  BY <1>3 DEF IInv, LockInv, TypeOK
<1>5. CallInv'
  BY <1>2, NoRequestType DEF IInv, CallInv, TypeOK, InTx
<1>6. SnapshotInv'
  BY SMTT(30), <1>2, <1>3 DEF IInv, SnapshotInv, InTx, Wrote
<1>7. MissInv'
  BY <1>2 DEF IInv, MissInv
<1>8. (CacheSound /\ UsesInv /\ Recoverable)'
  BY DEF IInv, CacheSound, UsesInv, Recoverable
<1>9. RightPlaintext'
  BY DEF IInv, RightPlaintext, TypeOK
<1>10. QED
  BY <1>1, <1>4, <1>5, <1>6, <1>7, <1>8, <1>9 DEF IInv

\* The cache lookup: a hit with the right digest answers with the plaintext
\* of the very ciphertext submitted.
LEMMA LoadCacheIInv ==
    ASSUME IInv, NEW t \in Threads, LoadCache(t)
    PROVE  IInv'
<1> DEFINE row == db.cache[<<req[t].group, req[t].id>>]
<1>1. /\ req[t] \in Requests /\ <<req[t].group, req[t].id>> \in Groups \X MsgIds
      /\ row \in Entries \cup {None}
  BY DEF IInv, TypeOK, Requests, Databases
<1>2. ~InTx(t) /\ pc[t] = "begin" /\ req[t].kind = "wal"
  BY DEF LoadCache, InTx
<1>3. CASE ~Live(row, req[t].now)
  BY <1>1, <1>2, <1>3, BeginIInv
     DEF LoadCache, load_decrypted_application_message
<1>4. CASE Live(row, req[t].now)
  <2>1. row \in Entries /\ row # None
    BY <1>1, <1>4 DEF Live
  <2>2. PICK c \in Ciphertexts :
            row.ciphertext_digest = Digest(c) /\ row.plaintext = Plaintext(c)
    BY <1>1, <2>1 DEF IInv, CacheSound
  <2> DEFINE r == IF row.ciphertext_digest # Digest(req[t].msg)
                  THEN Error("conflict") ELSE Ok(req[t].msg, row.plaintext)
  <2>3. r \in Responses /\ (r.kind = "ok" => r.plaintext = Plaintext(r.msg))
    <3>1. CASE row.ciphertext_digest # Digest(req[t].msg)
      BY <3>1 DEF Error, Responses
    <3>2. CASE row.ciphertext_digest = Digest(req[t].msg)
      <4>1. c = req[t].msg
        BY <2>2, <3>2, Injective
      <4>2. QED
        BY <4>1, <2>2, <3>2, <1>1 DEF Ok, Responses, Requests
    <3>3. QED
      BY <3>1, <3>2
  <2>4. Finish(t, r) /\ UNCHANGED <<clock, db, writer, stale, view, up, faults, hist>>
    BY <1>4, <2>1 DEF LoadCache, load_decrypted_application_message
  <2> HIDE DEF r
  <2>5. QED
    BY <1>2, <2>3, <2>4, FinishIInv
<1>5. QED
  BY <1>3, <1>4

\* Decryption: the write lock is taken on a snapshot that is still current.
LEMMA DecryptIInv ==
    ASSUME IInv, NEW t \in Threads, Decrypt(t)
    PROVE  IInv'
<1> USE DEF Decrypt, hist
<1>1. /\ view[t] = db /\ db \in Databases /\ t \notin stale /\ writer = NoThread
      /\ req[t].msg \in db.secrets /\ GroupOf[req[t].msg] = req[t].group
  BY DEF IInv, SnapshotInv, TypeOK, Decryptable
<1>2. view'[t] = WithSecrets(db, db.secrets \ {req[t].msg})
  BY <1>1 DEF IInv, TypeOK
<1>3. /\ view'[t] \in Databases /\ view'[t].exists = db.exists /\ view'[t].cache = db.cache
      /\ view'[t].secrets = db.secrets \ {req[t].msg}
  BY <1>1, <1>2 DEF Databases, WithSecrets
<1>4. \A s \in Threads : s # t => pc'[s] = pc[s] /\ view'[s] = view[s]
  BY DEF IInv, TypeOK
<1>5. /\ pc'[t] = IF req[t].kind = "wal" THEN "decrypted" ELSE "stored"
      /\ req[t].kind \in {"wal", "plain"}
  BY DEF IInv, TypeOK, CallInv
<1>6. TypeOK'
  <2>1. view' \in [Threads -> Databases \cup {None}]
    BY <1>3, <1>4 DEF IInv, TypeOK
  <2>2. QED
    BY <2>1 DEF IInv, TypeOK
<1>7. LockInv'
  <2>1. \A s \in Threads : ~Wrote(s)
    BY <1>1, ConstantsAssumption DEF IInv, LockInv
  <2>2. QED
    BY <2>1, <1>1, <1>4, <1>5 DEF LockInv, Wrote
<1> HIDE DEF Decrypt
<1>u. UNCHANGED <<db, stale, req, horizon, up>> /\ pc[t] = "miss"
  BY DEF Decrypt
<1>8. CallInv'
  <2> SUFFICES ASSUME NEW s \in Threads
               PROVE  /\ pc'[s] \in {"begin", "miss", "stored", "committed"} => req[s].kind \in {"wal", "plain"}
                      /\ pc'[s] = "decrypted" => req[s].kind = "wal"
                      /\ req[s].now <= horizon
                      /\ req[s].kind = "wal" => req[s].now + Ttl <= MaxI64
                      /\ InTx(s)' => view'[s] # None
                      /\ ~up => pc'[s] = "idle"
    BY <1>u DEF CallInv
  <2>1. CASE s = t
    BY <2>1, <1>3, <1>5, <1>u, NotNone DEF IInv, CallInv
  <2>2. CASE s # t
    BY <2>2, <1>4 DEF IInv, CallInv, InTx
  <2>3. QED
    BY <2>1, <2>2
<1>9. SnapshotInv'
  <2>1. \A s \in Threads : s # t => (Wrote(s)' <=> Wrote(s))
    BY <1>4 DEF Wrote
  <2>2. QED
    BY <1>1, <1>3, <1>4, <1>5, <1>u, <2>1 DEF IInv, SnapshotInv
<1> USE DEF Decrypt
<1>10. MissInv'
  BY <1>4, <1>5 DEF IInv, MissInv, InTx
<1>11. (CacheSound /\ UsesInv /\ Recoverable /\ RightPlaintext)'
  BY DEF IInv, CacheSound, UsesInv, Recoverable, RightPlaintext
<1>12. QED
  BY <1>6, <1>7, <1>8, <1>9, <1>10, <1>11 DEF IInv

\* Storing the plaintext: the lookup missed, so the upsert takes effect.
LEMMA StoreCacheIInv ==
    ASSUME IInv, NEW t \in Threads, StoreCache(t)
    PROVE  IInv'
<1> USE DEF StoreCache, hist
<1>1. /\ view[t] \in Databases /\ req[t] \in Requests /\ req[t].kind = "wal"
      /\ Wrote(t) /\ t \notin stale
  BY DEF IInv, TypeOK, CallInv, InTx, Wrote, LockInv
<1>2. ~Live(view[t].cache[<<req[t].group, req[t].id>>], req[t].now)
  BY <1>1 DEF IInv, SnapshotInv, MissInv, InTx
<1>3. view'[t] = insert_decrypted_application_message(
                    view[t], req[t].group, req[t].id, EntryOf(req[t]))
  BY DEF IInv, TypeOK, EntryOf
<1>4. /\ view'[t] \in Databases
      /\ view'[t].exists = view[t].exists /\ view'[t].secrets = view[t].secrets
      /\ view'[t].cache = [view[t].cache EXCEPT ![<<req[t].group, req[t].id>>] = EntryOf(req[t])]
  <2>1. req[t].now + Ttl <= MaxI64
    BY <1>1 DEF IInv, CallInv
  <2>2. QED
    BY <1>1, <1>2, <1>3, <2>1, InsertLemma
<1>5. \A s \in Threads : s # t => pc'[s] = pc[s] /\ view'[s] = view[s]
  BY DEF IInv, TypeOK
<1>6. pc'[t] = "stored"
  BY DEF IInv, TypeOK
<1>7. TypeOK'
  <2>1. view' \in [Threads -> Databases \cup {None}]
    BY <1>4, <1>5 DEF IInv, TypeOK
  <2>2. QED
    BY <2>1 DEF IInv, TypeOK
<1>8. LockInv'
  BY <1>5, <1>6, <1>1 DEF IInv, LockInv, Wrote, TypeOK
<1>9. CallInv'
  BY <1>4, <1>5, <1>6, <1>1, NotNone DEF IInv, CallInv, InTx
<1>10. SnapshotInv'
  BY SMTT(30), <1>1, <1>4, <1>5, <1>6 DEF IInv, SnapshotInv, Wrote
<1>11. MissInv'
  BY <1>5, <1>6 DEF IInv, MissInv, InTx
<1>12. (CacheSound /\ UsesInv /\ Recoverable /\ RightPlaintext)'
  BY DEF IInv, CacheSound, UsesInv, Recoverable, RightPlaintext
<1>13. QED
  BY <1>7, <1>8, <1>9, <1>10, <1>11, <1>12 DEF IInv

\* The commit: what it publishes is the committed database with the secret
\* consumed and, for a WAL call, the plaintext cached; it replaces only a row
\* that had expired at a time already read.
LEMMA CommitIInv ==
    ASSUME IInv, NEW t \in Threads, Commit(t)
    PROVE  IInv'
<1> DEFINE r == req[t]
           key == <<r.group, r.id>>
<1>1. /\ Wrote(t) /\ InTx(t) /\ t \notin stale /\ writer = t /\ pc[t] = "stored"
      /\ r \in Requests /\ r.kind \in {"wal", "plain"} /\ r.now <= horizon
      /\ db \in Databases /\ view[t] \in Databases /\ key \in Groups \X MsgIds
  BY DEF IInv, TypeOK, CallInv, InTx, Wrote, LockInv, Commit, Requests
<1>2. /\ r.msg \in Ciphertexts /\ r.msg \in db.secrets /\ GroupOf[r.msg] = r.group
      /\ db'.secrets = db.secrets \ {r.msg} /\ db' \in Databases
      /\ db'.cache = IF r.kind = "wal" THEN [db.cache EXCEPT ![key] = EntryOf(r)] ELSE db.cache
  BY <1>1 DEF IInv, SnapshotInv, Commit, Requests
<1>3. /\ pc'[t] = "committed" /\ writer' = NoThread
      /\ \A s \in Threads : s # t => pc'[s] = pc[s] /\ view'[s] = view[s] /\ ~Wrote(s)
                                     /\ (InTx(s) => s \in stale')
      /\ UNCHANGED <<clock, req, resp, up, faults, horizon>>
  BY <1>1 DEF IInv, TypeOK, LockInv, Commit
<1>4. TypeOK'
  <2>1. view' \in [Threads -> Databases \cup {None}] /\ pc' \in [Threads -> {"idle", "begin",
            "miss", "decrypted", "stored", "committed", "prune"}]
        /\ stale' \subseteq Threads /\ uses' \in [Ciphertexts -> Nat]
    BY <1>1, <1>2 DEF IInv, TypeOK, Commit
  <2>2. taken' \in [Ciphertexts -> [id : MsgIds, expires : Nat] \cup {None}]
    BY <1>1, ConstantsAssumption DEF IInv, TypeOK, Commit, Requests
  <2>3. QED
    BY <1>2, <1>3, <2>1, <2>2 DEF IInv, TypeOK
<1>5. \A s \in Threads : ~Wrote(s)' /\ (InTx(s)' => s # t /\ InTx(s) /\ s \in stale')
  BY <1>3 DEF InTx, Wrote
<1>6. LockInv'
  BY <1>3, <1>5 DEF LockInv
<1>7. CallInv'
  <2> SUFFICES ASSUME NEW s \in Threads
               PROVE  /\ pc'[s] \in {"begin", "miss", "stored", "committed"} => req[s].kind \in {"wal", "plain"}
                      /\ pc'[s] = "decrypted" => req[s].kind = "wal"
                      /\ req[s].now <= horizon
                      /\ req[s].kind = "wal" => req[s].now + Ttl <= MaxI64
                      /\ InTx(s)' => view'[s] # None
                      /\ ~up => pc'[s] = "idle"
    BY <1>3 DEF CallInv
  <2>1. CASE s = t
    BY <2>1, <1>1, <1>3, <1>5 DEF IInv, CallInv
  <2>2. CASE s # t
    BY <2>2, <1>3, <1>5 DEF IInv, CallInv
  <2>3. QED
    BY <2>1, <2>2
<1>8. SnapshotInv'
  BY <1>5 DEF SnapshotInv, InTx, Wrote
<1>9. MissInv'
  BY <1>5 DEF MissInv
<1>10. CacheSound'
  <2>1. EntryOf(r).ciphertext_digest = Digest(r.msg) /\ EntryOf(r).plaintext = Plaintext(r.msg)
    BY DEF EntryOf
  <2>2. \A k \in Groups \X MsgIds : db'.cache[k] = db.cache[k] \/ db'.cache[k] = EntryOf(r)
    BY <1>1, <1>2 DEF Databases
  <2>3. QED
    BY <2>1, <2>2, <1>2 DEF IInv, CacheSound
<1>11. UsesInv'
  <2>1. /\ uses \in [Ciphertexts -> Nat]
        /\ uses' = [uses EXCEPT ![r.msg] = @ + 1]
    BY DEF IInv, TypeOK, Commit
  <2>2. uses[r.msg] = 0
    BY <1>2, <2>1 DEF IInv, UsesInv
  <2> HIDE DEF r
  <2>3. \A c \in Ciphertexts : uses'[c] = IF c = r.msg THEN 1 ELSE uses[c]
    BY <1>2, <2>1, <2>2
  <2>4. QED
    BY <1>2, <2>3 DEF IInv, UsesInv
<1>12. Recoverable'
  <2> SUFFICES ASSUME NEW c \in Ciphertexts, taken'[c] # None, taken'[c].expires > horizon
               PROVE  LET e == db'.cache[<<GroupOf[c], taken'[c].id>>]
                      IN  /\ e # None
                          /\ e.ciphertext_digest = Digest(c)
                          /\ e.plaintext = Plaintext(c)
                          /\ e.expires_at = taken'[c].expires
    BY <1>3 DEF Recoverable
  <2>1. CASE r.kind = "wal" /\ c = r.msg
    <3>1. taken'[c] = [id |-> r.id, expires |-> r.now + Ttl]
      BY <2>1 DEF IInv, TypeOK, Commit
    <3>2. db'.cache[<<GroupOf[c], taken'[c].id>>] = EntryOf(r)
      BY <1>1, <1>2, <2>1, <3>1 DEF Databases
    <3>3. EntryOf(r) # None
      <4>1. r.now + Ttl <= MaxI64
        BY <2>1 DEF IInv, CallInv
      <4>2. QED
        BY <1>1, <4>1, EntryType
    <3>4. QED
      BY <2>1, <3>1, <3>2, <3>3 DEF EntryOf
  <2>2. CASE ~(r.kind = "wal" /\ c = r.msg)
    <3>1. taken'[c] = taken[c]
      BY <2>2 DEF IInv, TypeOK, Commit
    <3> DEFINE old == <<GroupOf[c], taken[c].id>>
    <3>2. /\ taken[c] # None /\ taken[c].expires > horizon
          /\ db.cache[old] # None
          /\ db.cache[old].expires_at = taken[c].expires
          /\ db.cache[old].ciphertext_digest = Digest(c)
          /\ db.cache[old].plaintext = Plaintext(c)
      BY <3>1 DEF IInv, Recoverable
    <3>3. old \in Groups \X MsgIds /\ taken[c].expires \in Nat /\ horizon \in Nat /\ r.now \in Nat
      BY <3>2, <1>1, ConstantsAssumption DEF IInv, TypeOK, Requests
    <3>4. CASE r.kind = "wal" /\ old = key
      <4>1. Live(db.cache[key], r.now)
        BY <3>2, <3>3, <3>4, <1>1 DEF Live
      <4>2. ~Live(db.cache[key], r.now)
        BY <3>4, <1>1 DEF IInv, MissInv
      <4>3. QED
        BY <4>1, <4>2
    <3>5. CASE ~(r.kind = "wal" /\ old = key)
      <4>1. db'.cache[old] = db.cache[old]
        BY <1>1, <1>2, <3>3, <3>5 DEF Databases
      <4>2. QED
        BY <4>1, <3>1, <3>2
    <3>6. QED
      BY <3>4, <3>5
  <2>3. QED
    BY <2>1, <2>2
<1>13. RightPlaintext'
  BY <1>3 DEF IInv, RightPlaintext
<1>14. QED
  BY <1>4, <1>6, <1>7, <1>8, <1>9, <1>10, <1>11, <1>12, <1>13 DEF IInv

\* A write outside the decrypting transactions: it may remove secrets and
\* rows, never change one, and outdates every open snapshot.
LEMMA PublishIInv ==
    ASSUME IInv, NEW d \in Databases, Publish(d), writer = NoThread, TypeOK',
           d.secrets \subseteq db.secrets,
           \A k \in Groups \X MsgIds : d.cache[k] \in {db.cache[k], None},
           Recoverable', RightPlaintext', CallInv', UNCHANGED <<writer, view, uses>>,
           \A s \in Threads : InTx(s)' => InTx(s) /\ pc'[s] = pc[s] /\ req'[s] = req[s]
    PROVE  IInv'
<1>1. \A s \in Threads : ~Wrote(s)
  BY ConstantsAssumption DEF IInv, LockInv
<1>2. \A s \in Threads : ~Wrote(s)'
  BY <1>1 DEF InTx, Wrote
<1>3. LockInv'
  BY <1>2 DEF LockInv
<1>4. \A s \in Threads : InTx(s)' /\ s \notin stale' => d = db /\ s \notin stale
  BY DEF Publish
<1>5. SnapshotInv'
  <2>1. \A s \in Threads : pc'[s] = "miss" /\ s \notin stale' => view'[s] = db'
    BY <1>4 DEF IInv, SnapshotInv, InTx, Publish
  <2>2. QED
    BY <1>2, <2>1 DEF SnapshotInv, Wrote
<1>6. MissInv'
  BY <1>4 DEF IInv, MissInv, Publish
<1>7. CacheSound'
  BY DEF IInv, CacheSound, Publish
<1>8. UsesInv'
  BY DEF IInv, UsesInv, Publish
<1>9. QED
  BY <1>3, <1>5, <1>6, <1>7, <1>8 DEF IInv

\* Pruning never takes a row that has not expired at a time some call read.
LEMMA PruneRecoverable ==
    ASSUME IInv, NEW now \in Nat, now <= horizon', horizon <= horizon', horizon' \in Nat,
           db' = prune_decrypted_application_messages(db, now), UNCHANGED taken
    PROVE  Recoverable'
<1> SUFFICES ASSUME NEW c \in Ciphertexts, taken[c] # None, taken[c].expires > horizon'
             PROVE  LET e == db'.cache[<<GroupOf[c], taken[c].id>>]
                    IN  /\ e # None
                        /\ e.ciphertext_digest = Digest(c)
                        /\ e.plaintext = Plaintext(c)
                        /\ e.expires_at = taken[c].expires
  BY DEF Recoverable
<1> DEFINE k == <<GroupOf[c], taken[c].id>>
<1>1. k \in Groups \X MsgIds /\ taken[c].expires \in Nat /\ horizon \in Nat
  BY ConstantsAssumption DEF IInv, TypeOK
<1>2. /\ db.cache[k] # None /\ db.cache[k].ciphertext_digest = Digest(c)
      /\ db.cache[k].plaintext = Plaintext(c) /\ db.cache[k].expires_at = taken[c].expires
  BY <1>1 DEF IInv, Recoverable
<1>3. db'.cache[k] = db.cache[k]
  <2>1. ~(db.cache[k].expires_at <= now)
    BY <1>1, <1>2
  <2>2. \/ db'.cache[k] = db.cache[k]
        \/ db.cache[k].expires_at <= now
    <3>1. db \in Databases
      BY DEF IInv, TypeOK
    <3> HIDE DEF k
    <3>2. QED
      BY <1>1, <3>1, PruneLemma
  <2>3. QED
    BY <2>1, <2>2
<1>4. QED
  BY <1>2, <1>3

\* Pruning drops expired entries only, and outdates the open snapshots.
LEMMA PruneIInv ==
    ASSUME IInv, NEW t \in Threads, Prune(t)
    PROVE  IInv'
<1> DEFINE d == prune_decrypted_application_messages(db, req[t].now)
<1>1. /\ req[t] \in Requests /\ req[t].now \in Nat /\ req[t].now <= horizon /\ db \in Databases
      /\ horizon \in Nat /\ pc[t] = "prune" /\ writer = NoThread
  BY DEF IInv, TypeOK, CallInv, Prune, Requests
<1>2. /\ d \in Databases /\ d.secrets = db.secrets
      /\ \A k \in Groups \X MsgIds : d.cache[k] \in {db.cache[k], None}
  BY <1>1, PruneLemma
<1>3. Publish(d) /\ db' = d /\ UNCHANGED <<clock, writer, view, up, faults, horizon, taken, uses>>
  BY DEF Prune, Publish, hist
<1>4. \A s \in Threads : (s # t => pc'[s] = pc[s] /\ req'[s] = req[s] /\ resp'[s] = resp[s])
                         /\ pc'[t] = "idle" /\ req'[t] = NoRequest /\ resp'[t] = Error("none")
  BY DEF IInv, TypeOK, Prune, Finish
<1> HIDE DEF d
<1>5. TypeOK'
  <2>1. stale' \subseteq Threads
    BY <1>3 DEF IInv, TypeOK, Publish
  <2>2. /\ pc' \in [Threads -> {"idle", "begin", "miss", "decrypted", "stored", "committed", "prune"}]
        /\ req' \in [Threads -> Requests] /\ resp' \in [Threads -> Responses]
    BY NoRequestType DEF IInv, TypeOK, Prune, Finish, Error, Responses
  <2>3. QED
    BY <1>2, <1>3, <2>1, <2>2 DEF IInv, TypeOK
<1>6. Recoverable'
  BY <1>1, <1>3, PruneRecoverable DEF d
<1>7. RightPlaintext'
  BY <1>4 DEF IInv, RightPlaintext, Error
<1>8. CallInv'
  BY <1>1, <1>3, <1>4, NoRequestType DEF IInv, CallInv, InTx
<1>9. \A s \in Threads : InTx(s)' => InTx(s) /\ pc'[s] = pc[s] /\ req'[s] = req[s]
  BY <1>4 DEF InTx
<1>10. QED
  BY <1>1, <1>2, <1>3, <1>5, <1>6, <1>7, <1>8, <1>9, PublishIInv

\* Deleting a group takes its secrets, its cache and their history along.
LEMMA DeleteGroupIInv ==
    ASSUME IInv, NEW g \in Groups, DeleteGroup(g)
    PROVE  IInv'
<1> DEFINE d == delete_group_by_id(db, g)
<1>1. db \in Databases /\ writer = NoThread /\ Publish(d) /\ db' = d
      /\ UNCHANGED <<clock, writer, pc, req, view, resp, up, faults, horizon, uses>>
      /\ taken' = [c \in Ciphertexts |-> IF GroupOf[c] = g THEN None ELSE taken[c]]
  BY DEF IInv, TypeOK, DeleteGroup, Publish
<1>2. /\ d \in Databases /\ d.secrets \subseteq db.secrets
      /\ \A k \in Groups \X MsgIds : d.cache[k] = IF k[1] = g THEN None ELSE db.cache[k]
  BY <1>1, DeleteLemma
<1> HIDE DEF d
<1>3. TypeOK'
  <2>1. stale' \subseteq Threads
    BY <1>1 DEF IInv, TypeOK, Publish
  <2>2. QED
    BY <1>1, <1>2, <2>1 DEF IInv, TypeOK
<1>4. Recoverable'
  <2> SUFFICES ASSUME NEW c \in Ciphertexts, taken'[c] # None, taken'[c].expires > horizon
               PROVE  LET e == db'.cache[<<GroupOf[c], taken'[c].id>>]
                      IN  /\ e # None
                          /\ e.ciphertext_digest = Digest(c)
                          /\ e.plaintext = Plaintext(c)
                          /\ e.expires_at = taken'[c].expires
    BY <1>1 DEF Recoverable
  <2>1. GroupOf[c] # g /\ taken'[c] = taken[c]
    BY <1>1
  <2> DEFINE k == <<GroupOf[c], taken[c].id>>
  <2>2. k \in Groups \X MsgIds /\ k[1] # g
    BY <2>1, ConstantsAssumption DEF IInv, TypeOK
  <2>3. db'.cache[k] = db.cache[k]
    BY <1>1, <1>2, <2>2
  <2>4. QED
    BY <2>1, <2>3 DEF IInv, Recoverable
<1>5. RightPlaintext' /\ CallInv'
  BY <1>1 DEF IInv, RightPlaintext, CallInv, InTx
<1>6. \A s \in Threads : InTx(s)' => InTx(s) /\ pc'[s] = pc[s] /\ req'[s] = req[s]
  BY <1>1 DEF InTx
<1>7. \A k \in Groups \X MsgIds : d.cache[k] \in {db.cache[k], None}
  BY <1>2
<1>8. QED
  BY <1>1, <1>2, <1>3, <1>4, <1>5, <1>6, <1>7, PublishIInv

\* Retiring a past epoch's secret leaves the cache alone.
LEMMA RetireSecretIInv ==
    ASSUME IInv, NEW c \in Ciphertexts, RetireSecret(c)
    PROVE  IInv'
<1> DEFINE d == WithSecrets(db, db.secrets \ {c})
<1>1. db \in Databases /\ writer = NoThread /\ Publish(d) /\ db' = d
      /\ UNCHANGED <<clock, writer, pc, req, view, resp, up, faults, horizon, taken, uses>>
  BY DEF IInv, TypeOK, RetireSecret, Publish, hist
<1>2. d \in Databases /\ d.secrets \subseteq db.secrets /\ d.cache = db.cache
  BY <1>1 DEF WithSecrets, Databases
<1> HIDE DEF d
<1>3. TypeOK'
  <2>1. stale' \subseteq Threads
    BY <1>1 DEF IInv, TypeOK, Publish
  <2>2. QED
    BY <1>1, <1>2, <2>1 DEF IInv, TypeOK
<1>4. Recoverable'
  BY <1>1, <1>2 DEF IInv, Recoverable
<1>5. RightPlaintext' /\ CallInv'
  BY <1>1 DEF IInv, RightPlaintext, CallInv, InTx
<1>6. \A s \in Threads : InTx(s)' => InTx(s) /\ pc'[s] = pc[s] /\ req'[s] = req[s]
  BY <1>1 DEF InTx
<1>7. QED
  BY <1>1, <1>2, <1>3, <1>4, <1>5, <1>6, PublishIInv

\* A crash drops every transaction; what was committed stays.
LEMMA CrashIInv ==
    ASSUME IInv, Crash
    PROVE  IInv'
<1> USE DEF Crash, hist
<1>1. TypeOK'
  <2>1. /\ req' \in [Threads -> Requests] /\ resp' \in [Threads -> Responses]
        /\ view' \in [Threads -> Databases \cup {None}]
    BY NoRequestType DEF Responses, Error
  <2>2. up' \in BOOLEAN
    OBVIOUS
  <2>3. faults' \in Nat /\ writer' \in Threads \cup {NoThread} /\ stale' \subseteq Threads
        /\ pc' \in [Threads -> {"idle", "begin", "miss", "decrypted", "stored", "committed", "prune"}]
    BY DEF IInv, TypeOK
  <2>4. UNCHANGED <<clock, db, horizon, taken, uses>>
    OBVIOUS
  <2> HIDE DEF Crash
  <2>5. QED
    BY <2>1, <2>2, <2>3, <2>4 DEF IInv, TypeOK
<1>2. (LockInv /\ CallInv /\ SnapshotInv /\ MissInv)'
  BY NoRequestType DEF IInv, TypeOK, LockInv, CallInv, SnapshotInv, MissInv, InTx, Wrote
<1>3. (CacheSound /\ UsesInv /\ Recoverable)'
  BY DEF IInv, CacheSound, UsesInv, Recoverable
<1>4. RightPlaintext'
  BY DEF RightPlaintext, Error
<1>5. QED
  BY <1>1, <1>2, <1>3, <1>4 DEF IInv

\* Opening the SDK prunes like a prune call, or leaves all as it was.
LEMMA OpenIInv ==
    ASSUME IInv, Open
    PROVE  IInv'
<1>0. writer = NoThread
  BY DEF IInv, TypeOK, LockInv, CallInv, Wrote, Open
<1> DEFINE d == IF UNCHANGED <<db, stale>> THEN db
                ELSE prune_decrypted_application_messages(db, clock)
<1>1. /\ db \in Databases /\ clock \in Nat /\ horizon \in Nat
      /\ UNCHANGED <<clock, writer, pc, req, view, resp, faults, taken, uses>>
      /\ horizon' = Later(clock, horizon) /\ up' = TRUE
      /\ Publish(d) /\ db' = d
  BY DEF IInv, TypeOK, Open, Publish
<1>2. horizon' \in Nat /\ horizon <= horizon' /\ clock <= horizon'
  BY <1>1 DEF Later
<1>3. /\ d \in Databases /\ d.secrets = db.secrets
      /\ \A k \in Groups \X MsgIds : d.cache[k] \in {db.cache[k], None}
  BY <1>1, PruneLemma
<1>4. Recoverable'
  <2>1. CASE db' = prune_decrypted_application_messages(db, clock)
    BY <1>1, <1>2, <2>1, PruneRecoverable
  <2>2. CASE db' = db
    BY SMTT(30), <1>1, <1>2, <2>2 DEF IInv, Recoverable, TypeOK
  <2>3. QED
    BY <2>1, <2>2, <1>1
<1> HIDE DEF d
<1>5. TypeOK'
  <2>1. stale' \subseteq Threads
    BY <1>1 DEF IInv, TypeOK, Publish
  <2>2. QED
    BY <1>1, <1>2, <1>3, <2>1 DEF IInv, TypeOK
<1>6. RightPlaintext'
  BY <1>1 DEF IInv, RightPlaintext
<1>7. CallInv'
  <2>1. \A s \in Threads : req[s].now \in Nat
    BY DEF IInv, TypeOK, Requests
  <2>2. QED
    BY <1>1, <1>2, <2>1 DEF IInv, CallInv, InTx
<1>8. \A s \in Threads : InTx(s)' => InTx(s) /\ pc'[s] = pc[s] /\ req'[s] = req[s]
  BY <1>1 DEF InTx
<1>9. QED
  BY <1>0, <1>1, <1>3, <1>4, <1>5, <1>6, <1>7, <1>8, PublishIInv

-----------------------------------------------------------------------------
\* Every step of the specification preserves the inductive invariant.
LEMMA NextIInv == IInv /\ [Next]_vars => IInv'
<1> SUFFICES ASSUME IInv, [Next]_vars PROVE IInv'
  OBVIOUS
<1>0. /\ clock \in Nat /\ horizon \in Nat /\ faults \in Nat /\ up \in BOOLEAN
      /\ Later(clock, horizon) \in Nat /\ horizon <= Later(clock, horizon)
      /\ clock <= Later(clock, horizon) /\ 0 <= horizon
  BY DEF IInv, TypeOK, Later
<1>1. ASSUME NEW t \in Threads, LoadCache(t) PROVE IInv'
  BY <1>1, LoadCacheIInv
<1>2. ASSUME NEW t \in Threads, LoadGroupOnly(t) PROVE IInv'
  BY <1>2, BeginIInv DEF LoadGroupOnly
<1>3. ASSUME NEW t \in Threads, Decrypt(t) PROVE IInv'
  BY <1>3, DecryptIInv
<1>4. ASSUME NEW t \in Threads, DecryptFails(t) \/ DecryptLocked(t) \/ StorageError(t) PROVE IInv'
  BY <1>4, <1>0, RollbackIInv DEF DecryptFails, DecryptLocked, StorageError
<1>5. ASSUME NEW t \in Threads, StoreCache(t) PROVE IInv'
  BY <1>5, StoreCacheIInv
<1>6. ASSUME NEW t \in Threads, Commit(t) PROVE IInv'
  BY <1>6, CommitIInv
<1>7. ASSUME NEW t \in Threads, Return(t) PROVE IInv'
  <2>1. Ok(req[t].msg, Plaintext(req[t].msg)) \in Responses /\ ~InTx(t)
    BY <1>7 DEF IInv, TypeOK, Requests, Responses, Ok, Return, InTx
  <2>2. QED
    BY <1>7, <2>1, FinishIInv DEF Return, Ok
<1>8. ASSUME NEW t \in Threads, Prune(t) PROVE IInv'
  BY <1>8, PruneIInv
<1>9. ASSUME NEW t \in Threads, PruneLocked(t) PROVE IInv'
  <2>1. Error("locked") \in Responses /\ Error("locked").kind # "ok" /\ ~InTx(t)
    BY <1>9 DEF Responses, Error, PruneLocked, InTx
  <2>2. QED
    BY <1>9, <2>1, FinishIInv DEF PruneLocked
<1>10. ASSUME NEW t \in Threads, NEW g \in Groups, NEW m \in MsgIds, NEW c \in Ciphertexts,
              CallWal(t, g, m, c)
       PROVE IInv'
  <2>1. Request("wal", g, m, c, clock) \in Requests /\ Request("wal", g, m, c, clock).now = clock
        /\ Request("wal", g, m, c, clock).kind = "wal"
    BY <1>0 DEF Request, Requests
  <2>2. QED
    BY <1>10, <1>0, <2>1, EnterIInv DEF CallWal
<1>11. ASSUME NEW t \in Threads, CallWalOverflow(t) PROVE IInv'
  <2>1. TypeOK'
    BY <1>11 DEF IInv, TypeOK, CallWalOverflow, Error, Responses, hist
  <2>2. (LockInv /\ CallInv /\ SnapshotInv /\ MissInv)'
    BY <1>11 DEF IInv, LockInv, CallInv, SnapshotInv, MissInv, InTx, Wrote, CallWalOverflow, hist
  <2>3. (CacheSound /\ UsesInv /\ Recoverable)'
    BY <1>11 DEF IInv, CacheSound, UsesInv, Recoverable, CallWalOverflow, hist
  <2>4. RightPlaintext'
    BY <1>11 DEF IInv, TypeOK, RightPlaintext, CallWalOverflow, Error
  <2>5. QED
    BY <2>1, <2>2, <2>3, <2>4 DEF IInv
<1>12. ASSUME NEW t \in Threads, NEW g \in Groups, NEW c \in Ciphertexts, CallPlain(t, g, c)
       PROVE IInv'
  <2>1. Request("plain", g, AnyId, c, 0) \in Requests /\ Request("plain", g, AnyId, c, 0).now = 0
        /\ Request("plain", g, AnyId, c, 0).kind = "plain"
    BY ConstantsAssumption DEF Request, Requests, AnyId
  <2>2. QED
    BY <1>12, <1>0, <2>1, EnterIInv DEF CallPlain
<1>13. ASSUME NEW t \in Threads, CallPrune(t) PROVE IInv'
  <2> DEFINE r == Request("prune", AnyGroup, AnyId, AnyMsg, clock)
  <2>1. r \in Requests /\ r.now = clock /\ r.kind = "prune"
    BY <1>0, ConstantsAssumption DEF Request, Requests, AnyGroup, AnyId, AnyMsg
  <2>2. QED
    BY <1>13, <1>0, <2>1, EnterIInv DEF CallPrune
<1>14. CASE \E g \in Groups : DeleteGroup(g)
  BY <1>14, DeleteGroupIInv
<1>15. CASE \E c \in Ciphertexts : RetireSecret(c)
  BY <1>15, RetireSecretIInv
<1>16. CASE Crash
  BY <1>16, CrashIInv
<1>17. CASE Open
  BY <1>17, OpenIInv
<1>18. CASE \E n \in 0..MaxClock : SetClock(n)
  BY <1>18, <1>0, FrameIInv DEF SetClock
<1>19. CASE UNCHANGED vars
  BY <1>19, <1>0, FrameIInv DEF vars, hist
<1>20. QED
  BY <1>1, <1>2, <1>3, <1>4, <1>5, <1>6, <1>7, <1>8, <1>9, <1>10, <1>11, <1>12, <1>13,
     <1>14, <1>15, <1>16, <1>17, <1>18, <1>19
     DEF Next, ThreadStep

\* The inductive invariant holds in every reachable state.
THEOREM Inductive == Spec => []IInv
BY InitIInv, NextIInv, PTL DEF Spec

\* Type correctness of the decryption calls, the cache and the ratchet.
THEOREM TypeCorrect == Spec => []TypeOK
<1>1. IInv => TypeOK
  BY DEF IInv
<1>2. QED
  BY <1>1, Inductive, PTL

\* A secret consumed through the cache never takes its plaintext with it:
\* process_application_message_with_wal can be retried until the entry has
\* expired at a time some call has read.
THEOREM PlaintextRecoverable == Spec => []Recoverable
<1>1. IInv => Recoverable
  BY DEF IInv
<1>2. QED
  BY <1>1, Inductive, PTL

\* A call only ever returns the plaintext of the ciphertext it was given.
THEOREM PlaintextIsRight == Spec => []RightPlaintext
<1>1. IInv => RightPlaintext
  BY DEF IInv
<1>2. QED
  BY <1>1, Inductive, PTL

\* No two committed transactions consume the same ratchet secret.
THEOREM SecretConsumedOnce == Spec => []ConsumedOnce
<1>1. IInv => ConsumedOnce
  BY DEF IInv, UsesInv, ConsumedOnce
<1>2. QED
  BY <1>1, Inductive, PTL
=============================================================================

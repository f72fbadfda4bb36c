----------------------------- MODULE ClientOpen -----------------------------
(***************************************************************************)
(* Opening a client: UqMls::new of the mobile bindings and of the Node     *)
(* bindings, from the first look at the group-status file to the last      *)
(* schema migration of the keystore, by several processes at once and with *)
(* crashes anywhere.                                                       *)
(*                                                                         *)
(* A file is known by its format: "none" (missing or empty), "plain", or   *)
(* "keyed" with the application's password.  Its first write fixes the     *)
(* format for good.  The two paths may name the same file.  Of the         *)
(* keystore's contents the model keeps the tables it has and the two       *)
(* migration histories: sets of <<version, author>> pairs, where the       *)
(* author stands for the name and the checksum of the script that ran.     *)
(***************************************************************************)
EXTENDS Naturals, Sequences

CONSTANTS Processes,     \* processes that open the client
          MaxOpens,      \* constructor calls of one process
          MaxCrashes     \* crashes altogether

VARIABLES binding,       \* process -> the binding it uses
          password,      \* whether the application passes a password
          shared,        \* whether both paths name the same file
          format,        \* file -> its format
          tables,        \* tables of the keystore
          kchat,         \* kchat_openmls_sqlite_storage_migrations, or NoTable
          legacy,        \* openmls_sqlite_storage_migrations, or NoTable
          statuses,      \* whether group_statuses exists
          pc,            \* process -> its next step
          key,           \* process -> the key chosen for the status file
          todo,          \* process -> migrations the runner is to apply
          alone,         \* process -> no other open overlapped this one
          opens, crashes

config == <<binding, password, shared, legacy>>
vars == <<config, format, tables, kchat, statuses, pc, key, todo, alone, opens,
          crashes>>

Formats == {"none", "plain", "keyed"}
NoTable == {<<0, "nobody">>}
LEGACY_KCHAT_MIGRATION_VERSION == 5
Versions == 1..6

\* The scripts embedded in this build, up to version n.
Ours(n) == {<<v, "kchat">> : v \in 1..n}
VersionsOf(h) == {m[1] : m \in h}

\* The format a connection gives to a new file and expects of an old one: with
\* a secret it sets PRAGMA key, without one it does not.
Secret == IF password THEN "keyed" ELSE "plain"

File(path) == IF shared THEN "keystore" ELSE path

-----------------------------------------------------------------------------
(* The migration scripts, each the change it makes to the tables.          *)

\* Every CREATE is IF NOT EXISTS: running V1 again changes nothing.
V1_initial(t) == t \cup {"base", "group_data"}

\* V2 rebuilds openmls_group_data with a wider CHECK: it fills a new table,
\* drops the old one and renames the new one.
V2_constraint_addition(t) == t \cup {"export_tree_check"}

V3_epoch_message_secrets_storage(t) == t \cup {"epoch_meta", "epoch_secrets"}
V4_epoch_message_secrets_migration_state(t) == t \cup {"migration_state"}
V5_drop_group_epoch_meta(t) == t \ {"epoch_meta"}
V6_decrypted_application_messages(t) == t \cup {"decrypted_messages"}

Script(v, t) ==
  CASE v = 1 -> V1_initial(t)
    [] v = 2 -> V2_constraint_addition(t)
    [] v = 3 -> V3_epoch_message_secrets_storage(t)
    [] v = 4 -> V4_epoch_message_secrets_migration_state(t)
    [] v = 5 -> V5_drop_group_epoch_meta(t)
    [] v = 6 -> V6_decrypted_application_messages(t)

\* The tables after this build's scripts 1..n, in order.
TablesAt[n \in 0..6] == IF n = 0 THEN {} ELSE Script(n, TablesAt[n - 1])

-----------------------------------------------------------------------------
(* What earlier builds can have left: no keystore, or one whose history    *)
(* stops after any script (an older build, or a crash of one).  The table  *)
(* openmls_sqlite_storage_migrations is also the upstream provider's own,  *)
(* whose third script is not ours.  A keystore has the format of the       *)
(* password; a status file of its own may have either format.              *)

Installations ==
  {[format |-> "none", tables |-> {}, kchat |-> NoTable, legacy |-> NoTable]}
    \cup
  {[format |-> Secret, tables |-> TablesAt[n], kchat |-> NoTable,
    legacy |-> Ours(n)] : n \in 0..LEGACY_KCHAT_MIGRATION_VERSION}
    \cup
  {[format |-> Secret, tables |-> TablesAt[2], kchat |-> NoTable,
    legacy |-> Ours(2) \cup {<<3, "upstream">>}]}
    \cup
  {[format |-> Secret, tables |-> TablesAt[n], kchat |-> Ours(n),
    legacy |-> NoTable] : n \in 0..6}

Init ==
  /\ binding \in [Processes -> {"uniffi", "napi"}]
  /\ password \in BOOLEAN
  /\ shared \in BOOLEAN
  /\ \E i \in Installations, s \in Formats :
       /\ s = "keyed" => password
       /\ shared => s = "none"
       /\ format = [keystore |-> i.format, status |-> s]
       /\ tables = i.tables
       /\ kchat = i.kchat
       /\ legacy = i.legacy
       /\ statuses = (s # "none")
  /\ pc = [p \in Processes |-> "closed"]
  /\ key = [p \in Processes |-> "plain"]
  /\ todo = [p \in Processes |-> {}]
  /\ alone = [p \in Processes |-> TRUE]
  /\ opens = [p \in Processes |-> 0]
  /\ crashes = 0

Opening(p) == pc[p] \notin {"closed", "open", "failed"}

GoTo(p, step) == pc' = [pc EXCEPT ![p] = step]

\* The first step of opening each storage.
Entry(storage) == IF storage = "status" THEN "inspect" ELSE "keystore"

\* The Node constructor with its two statements swapped.
StatusFirst(p) == <<"status", "keystore">>

\* The mobile constructor opens the status storage first, the Node one the
\* keystore, so that a shared file has its keyed format when it is inspected.
StorageOrder(p) ==
  IF binding[p] = "uniffi" THEN <<"status", "keystore">> ELSE <<"keystore", "status">>

\* The step after a storage is ready.
After(p, storage) ==
  IF StorageOrder(p)[1] = storage THEN Entry(StorageOrder(p)[2]) ELSE "open"

\* The application calls the constructor.
New(p) ==
  /\ ~Opening(p)
  /\ opens[p] < MaxOpens
  /\ opens' = [opens EXCEPT ![p] = @ + 1]
  /\ GoTo(p, Entry(StorageOrder(p)[1]))
  /\ LET others == {q \in Processes \ {p} : Opening(q)}
     IN  alone' = [q \in Processes |->
                     CASE q = p -> others = {}
                       [] q \in others -> FALSE
                       [] OTHER -> alone[q]]
  /\ UNCHANGED <<config, format, tables, kchat, statuses, key, todo, crashes>>

-----------------------------------------------------------------------------
(* Status storage.                                                         *)

\* open_group_status_connection: an existing plaintext file is opened without
\* a key, any other with the secret.
open_group_status_connection(f) == IF f = "plain" THEN "plain" ELSE Secret

\* open_compatible_group_status_connection: an existing encrypted file is
\* opened with the secret, any other without a key.
open_compatible_group_status_connection(f) ==
  IF f = "keyed" THEN Secret ELSE "plain"

\* group_status_file_is_encrypted reads the header through a plain file
\* handle: another process may write the first page right after.
Inspect(p) ==
  /\ pc[p] = "inspect"
  /\ LET f == format[File("status")]
     IN  key' = [key EXCEPT ![p] = IF binding[p] = "uniffi"
                                   THEN open_group_status_connection(f)
                                   ELSE open_compatible_group_status_connection(f)]
  /\ GoTo(p, "status")
  /\ UNCHANGED <<config, format, tables, kchat, statuses, todo, alone, opens, crashes>>

\* Opening a connection and setting journal_mode: the first write of a new
\* file, or a read of page 1 that fails when the key does not fit.  A failed
\* open is an error of the constructor, never tried again with another key.
Connect(p, path, k, next) ==
  LET f == format[File(path)]
  IN  \/ /\ f \in {"none", k}
         /\ format' = [format EXCEPT ![File(path)] = k]
         /\ GoTo(p, next)
      \/ /\ f \notin {"none", k}
         /\ GoTo(p, "failed")
         /\ UNCHANGED format

ConnectStatus(p) ==
  /\ pc[p] = "status"
  /\ Connect(p, "status", key[p], "initialize")
  /\ UNCHANGED <<config, tables, kchat, statuses, key, todo, alone, opens, crashes>>

Initialize(p) ==
  /\ pc[p] = "initialize"
  /\ statuses' = TRUE
  /\ GoTo(p, After(p, "status"))
  /\ UNCHANGED <<config, format, tables, kchat, key, todo, alone, opens, crashes>>

-----------------------------------------------------------------------------
(* The keystore.                                                           *)

ConnectKeystore(p) ==
  /\ pc[p] = "keystore"
  /\ Connect(p, "keystore", Secret, "bootstrap")
  /\ UNCHANGED <<config, tables, kchat, statuses, key, todo, alone, opens, crashes>>

\* Any history of that name is taken over.
AdoptsAny(h) == TRUE

\* Only a history that is exactly this build's scripts 1..5 is taken over.
Adopts(h) == h = Ours(LEGACY_KCHAT_MIGRATION_VERSION)

\* bootstrap_legacy_kchat_migration_history, one transaction.
Bootstrap(p) ==
  /\ pc[p] = "bootstrap"
  /\ kchat' = IF kchat = NoTable /\ legacy # NoTable /\ Adopts(legacy)
              THEN legacy ELSE kchat
  /\ GoTo(p, "history")
  /\ UNCHANGED <<config, format, tables, statuses, key, todo, alone, opens, crashes>>

\* The runner creates its history table where there is none, then reads it.
CreateHistory(p) ==
  /\ pc[p] = "history"
  /\ kchat' = IF kchat = NoTable THEN {} ELSE kchat
  /\ GoTo(p, "applied")
  /\ UNCHANGED <<config, format, tables, statuses, key, todo, alone, opens, crashes>>

\* Recorded versions are passed over, whatever their checksum
\* (set_abort_divergent(false)).
ReadApplied(p) ==
  /\ pc[p] = "applied"
  /\ todo' = [todo EXCEPT ![p] = Versions \ VersionsOf(kchat)]
  /\ GoTo(p, "migrate")
  /\ UNCHANGED <<config, format, tables, kchat, statuses, key, alone, opens, crashes>>

\* One script and its history row, in one transaction.  The version is the
\* primary key of the history: when another process has recorded it since
\* ReadApplied, the transaction is rolled back and the open fails.
Migrate(p) ==
  /\ pc[p] = "migrate"
  /\ todo[p] # {}
  /\ LET v == CHOOSE n \in todo[p] : \A k \in todo[p] : n <= k
     IN  \/ /\ v \notin VersionsOf(kchat)
            /\ tables' = Script(v, tables)
            /\ kchat' = kchat \cup {<<v, "kchat">>}
            /\ todo' = [todo EXCEPT ![p] = @ \ {v}]
            /\ UNCHANGED pc
         \/ /\ v \in VersionsOf(kchat)
            /\ GoTo(p, "failed")
            /\ UNCHANGED <<tables, kchat, todo>>
  /\ UNCHANGED <<config, format, statuses, key, alone, opens, crashes>>

Migrated(p) ==
  /\ pc[p] = "migrate"
  /\ todo[p] = {}
  /\ GoTo(p, After(p, "keystore"))
  /\ UNCHANGED <<config, format, tables, kchat, statuses, key, todo, alone, opens, crashes>>

-----------------------------------------------------------------------------
(* Faults.                                                                 *)

\* Another process holds the write lock beyond the busy timeout.
Busy(p) ==
  /\ pc[p] \in {"status", "initialize", "keystore", "bootstrap", "history", "migrate"}
  /\ \E q \in Processes \ {p} : Opening(q)
  /\ GoTo(p, "failed")
  /\ UNCHANGED <<config, format, tables, kchat, statuses, key, todo, alone, opens, crashes>>

\* The process ends: SQLite's journal undoes an unfinished transaction.
Crash(p) ==
  /\ Opening(p)
  /\ crashes < MaxCrashes
  /\ crashes' = crashes + 1
  /\ GoTo(p, "closed")
  /\ UNCHANGED <<config, format, tables, kchat, statuses, key, todo, alone, opens>>

Next ==
  \E p \in Processes :
    \/ New(p)
    \/ Inspect(p)
    \/ ConnectStatus(p)
    \/ Initialize(p)
    \/ ConnectKeystore(p)
    \/ Bootstrap(p)
    \/ CreateHistory(p)
    \/ ReadApplied(p)
    \/ Migrate(p)
    \/ Migrated(p)
    \/ Busy(p)
    \/ Crash(p)

Spec == Init /\ [][Next]_vars

-----------------------------------------------------------------------------

\* An open that no other open overlapped succeeds, whatever crashes and
\* failed opens came before it, with either binding, with one file or two,
\* and whatever an earlier build left: no sequence of opens locks the
\* application out of its own files.  (Constructors: kchat-uniffi
\* src/mls/mod.rs UqMls::new, kchat-napi src/mls/mod.rs UqMls::new.)
AloneItOpens == \A p \in Processes : pc[p] = "failed" => ~alone[p]

\* A client that was opened has every table its statements use and a history
\* that says so, although an upstream history may claim versions that are not
\* this build's and two processes may have run the migrations at once.
\* (run_migrations, bootstrap_legacy_kchat_migration_history, initialize.)
OpenedIsComplete ==
  \A p \in Processes : pc[p] = "open" =>
    /\ tables = TablesAt[6]
    /\ VersionsOf(kchat) = Versions
    /\ statuses
    /\ format[File("keystore")] = Secret
=============================================================================

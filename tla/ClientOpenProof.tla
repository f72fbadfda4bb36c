-------------------------- MODULE ClientOpenProof --------------------------
(***************************************************************************)
(* Proofs about ClientOpen, for any processes, opens and crashes: an       *)
(* opened client is complete, and an open that overlaps no other succeeds. *)
(*                                                                         *)
(* The invariant says how far the scripts have come: the history, once     *)
(* there is one, is a beginning of this build's scripts, and the tables    *)
(* are what those need (Built), whatever an earlier build had run before   *)
(* the history was started.                                                *)
(***************************************************************************)
EXTENDS ClientOpen, TLAPS

AllTables ==
    {"base", "group_data", "export_tree_check", "epoch_meta", "epoch_secrets",
     "migration_state", "decrypted_messages"}

\* What the scripts 1..m have made of the tables, whatever was there before.
Built(m, t) ==
    /\ t \subseteq AllTables
    /\ m >= 1 => "base" \in t /\ "group_data" \in t
    /\ m >= 2 => "export_tree_check" \in t
    /\ m >= 3 => "epoch_secrets" \in t
    /\ m >= 4 => "migration_state" \in t
    /\ m >= 5 => "epoch_meta" \notin t
    /\ m >= 6 => "decrypted_messages" \in t

-----------------------------------------------------------------------------
(* The scripts.                                                            *)

\* The next script brings the tables one version further.
LEMMA ScriptBuilds ==
    ASSUME NEW m \in 0 .. 5, NEW t, Built(m, t)
    PROVE  Built(m + 1, Script(m + 1, t))
<1>1. CASE m = 0
  <2>1. m + 1 = 1 /\ Script(m + 1, t) = t \cup {"base", "group_data"}
    <3>1. m + 1 = 1
      BY <1>1
    <3> QED
      BY <3>1 DEF Script, V1_initial
  <2>2. Built(1, t \cup {"base", "group_data"})
    BY <1>1 DEF Built, AllTables
  <2> QED
    BY <2>1, <2>2
<1>2. CASE m = 1
  <2>1. m + 1 = 2 /\ Script(m + 1, t) = t \cup {"export_tree_check"}
    <3>1. m + 1 = 2
      BY <1>2
    <3> QED
      BY <3>1 DEF Script, V2_constraint_addition
  <2>2. Built(2, t \cup {"export_tree_check"})
    BY <1>2 DEF Built, AllTables
  <2> QED
    BY <2>1, <2>2
<1>3. CASE m = 2
  <2>1. m + 1 = 3 /\ Script(m + 1, t) = t \cup {"epoch_meta", "epoch_secrets"}
    <3>1. m + 1 = 3
      BY <1>3
    <3> QED
      BY <3>1 DEF Script, V3_epoch_message_secrets_storage
  <2>2. Built(3, t \cup {"epoch_meta", "epoch_secrets"})
    BY <1>3 DEF Built, AllTables
  <2> QED
    BY <2>1, <2>2
<1>4. CASE m = 3
  <2>1. m + 1 = 4 /\ Script(m + 1, t) = t \cup {"migration_state"}
    <3>1. m + 1 = 4
      BY <1>4
    <3> QED
      BY <3>1 DEF Script, V4_epoch_message_secrets_migration_state
  <2>2. Built(4, t \cup {"migration_state"})
    BY <1>4 DEF Built, AllTables
  <2> QED
    BY <2>1, <2>2
<1>5. CASE m = 4
  <2>1. m + 1 = 5 /\ Script(m + 1, t) = t \ {"epoch_meta"}
    <3>1. m + 1 = 5
      BY <1>5
    <3> QED
      BY <3>1 DEF Script, V5_drop_group_epoch_meta
  <2>2. Built(5, t \ {"epoch_meta"})
    BY <1>5 DEF Built, AllTables
  <2> QED
    BY <2>1, <2>2
<1>6. CASE m = 5
  <2>1. m + 1 = 6 /\ Script(m + 1, t) = t \cup {"decrypted_messages"}
    <3>1. m + 1 = 6
      BY <1>6
    <3> QED
      BY <3>1 DEF Script, V6_decrypted_application_messages
  <2>2. Built(6, t \cup {"decrypted_messages"})
    BY <1>6 DEF Built, AllTables
  <2> QED
    BY <2>1, <2>2
<1> QED
  BY <1>1, <1>2, <1>3, <1>4, <1>5, <1>6

\* The tables after the scripts 1..n, one by one.
Tables1 == {"base", "group_data"}
Tables2 == Tables1 \cup {"export_tree_check"}
Tables3 == Tables2 \cup {"epoch_meta", "epoch_secrets"}
Tables4 == Tables3 \cup {"migration_state"}
Tables5 == Tables4 \ {"epoch_meta"}
Tables6 == Tables5 \cup {"decrypted_messages"}

LEMMA ScriptValues ==
    /\ Script(1, {}) = Tables1
    /\ Script(2, Tables1) = Tables2
    /\ Script(3, Tables2) = Tables3
    /\ Script(4, Tables3) = Tables4
    /\ Script(5, Tables4) = Tables5
    /\ Script(6, Tables5) = Tables6
<1>1. Script(1, {}) = Tables1
  BY DEF Script, V1_initial, Tables1
<1>2. Script(2, Tables1) = Tables2
  BY DEF Script, V2_constraint_addition, Tables2
<1>3. Script(3, Tables2) = Tables3
  BY DEF Script, V3_epoch_message_secrets_storage, Tables3
<1>4. Script(4, Tables3) = Tables4
  BY DEF Script, V4_epoch_message_secrets_migration_state, Tables4
<1>5. Script(5, Tables4) = Tables5
  BY DEF Script, V5_drop_group_epoch_meta, Tables5
<1>6. Script(6, Tables5) = Tables6
  BY DEF Script, V6_decrypted_application_messages, Tables6
<1> QED
  BY <1>1, <1>2, <1>3, <1>4, <1>5, <1>6

LEMMA TablesAtSteps ==
    /\ TablesAt[0] = {}
    /\ \A n \in 1 .. 6 : TablesAt[n] = Script(n, TablesAt[n - 1])
<1> DEFINE f == [n \in 0 .. 6 |->
                  IF n = 0 THEN {} ELSE IF n = 1 THEN Tables1 ELSE IF n = 2 THEN Tables2
                  ELSE IF n = 3 THEN Tables3 ELSE IF n = 4 THEN Tables4
                  ELSE IF n = 5 THEN Tables5 ELSE Tables6]
<1>1. \A n \in 0 .. 6 : f[n] = IF n = 0 THEN {} ELSE Script(n, f[n - 1])
  <2> SUFFICES ASSUME NEW n \in 0 .. 6
               PROVE  f[n] = IF n = 0 THEN {} ELSE Script(n, f[n - 1])
    OBVIOUS
  <2>1. n = 0 \/ n = 1 \/ n = 2 \/ n = 3 \/ n = 4 \/ n = 5 \/ n = 6
    OBVIOUS
  <2> QED
    BY <2>1, ScriptValues
<1>2. f = [n \in 0 .. 6 |-> IF n = 0 THEN {} ELSE Script(n, f[n - 1])]
  BY <1>1
<1>3. \E h : h = [n \in 0 .. 6 |-> IF n = 0 THEN {} ELSE Script(n, h[n - 1])]
  BY <1>2
<1>4. TablesAt = [n \in 0 .. 6 |-> IF n = 0 THEN {} ELSE Script(n, TablesAt[n - 1])]
  BY <1>3 DEF TablesAt
<1> HIDE DEF TablesAt
<1> QED
  BY <1>4

LEMMA TablesAtValues ==
    /\ TablesAt[0] = {} /\ TablesAt[1] = Tables1 /\ TablesAt[2] = Tables2
    /\ TablesAt[3] = Tables3 /\ TablesAt[4] = Tables4 /\ TablesAt[5] = Tables5
    /\ TablesAt[6] = Tables6
BY TablesAtSteps, ScriptValues

\* The tables of every release are built, and six scripts determine them.
LEMMA TablesAtBuilt ==
    /\ \A n \in 0 .. 6 : Built(n, TablesAt[n])
    /\ \A t : Built(6, t) => t = TablesAt[6]
<1>1. Built(0, TablesAt[0])
  BY TablesAtValues DEF Built
<1>2. \A n \in 0 .. 5 : Built(n, TablesAt[n]) => Built(n + 1, TablesAt[n + 1])
  <2> SUFFICES ASSUME NEW n \in 0 .. 5, Built(n, TablesAt[n])
               PROVE  Built(n + 1, TablesAt[n + 1])
    OBVIOUS
  <2>1. TablesAt[n + 1] = Script(n + 1, TablesAt[n])
    BY TablesAtSteps
  <2> QED
    BY <2>1, ScriptBuilds
<1>3. \A n \in 0 .. 6 : Built(n, TablesAt[n])
  <2>1. Built(1, TablesAt[1]) /\ Built(2, TablesAt[2]) /\ Built(3, TablesAt[3])
    BY <1>1, <1>2
  <2>2. Built(4, TablesAt[4]) /\ Built(5, TablesAt[5]) /\ Built(6, TablesAt[6])
    BY <1>2, <2>1
  <2> QED
    BY <1>1, <2>1, <2>2
<1>4. ASSUME NEW t, Built(6, t) PROVE t = TablesAt[6]
  <2>1. t = {"base", "group_data", "export_tree_check", "epoch_secrets", "migration_state",
             "decrypted_messages"}
    <3>1. /\ t \subseteq AllTables /\ "base" \in t /\ "group_data" \in t
          /\ "export_tree_check" \in t /\ "epoch_secrets" \in t /\ "migration_state" \in t
          /\ "epoch_meta" \notin t /\ "decrypted_messages" \in t
      BY <1>4 DEF Built
    <3>2. t \subseteq AllTables \ {"epoch_meta"}
      BY <3>1
    <3> QED
      BY <3>1, <3>2 DEF AllTables
  <2>2. Tables6 = {"base", "group_data", "export_tree_check", "epoch_secrets",
                   "migration_state", "decrypted_messages"}
    BY DEF Tables1, Tables2, Tables3, Tables4, Tables5, Tables6
  <2> QED
    BY <2>1, <2>2, TablesAtValues
<1> QED
  BY <1>3, <1>4

\* The history of this build's scripts.
LEMMA OursFacts ==
    /\ \A m \in 0 .. 6 : Ours(m) # NoTable /\ VersionsOf(Ours(m)) = 1 .. m
    /\ \A m, n \in 0 .. 6 : Ours(m) = Ours(n) => m = n
    /\ \A m \in 0 .. 5 : Ours(m) \cup {<<m + 1, "kchat">>} = Ours(m + 1)
    /\ Ours(0) = {}
<1>1. ASSUME NEW m \in 0 .. 6 PROVE VersionsOf(Ours(m)) = 1 .. m
  <2>1. \A v : v \in VersionsOf(Ours(m)) => v \in 1 .. m
    BY DEF Ours, VersionsOf
  <2>2. ASSUME NEW v \in 1 .. m PROVE v \in VersionsOf(Ours(m))
    <3>1. <<v, "kchat">> \in Ours(m) /\ v = <<v, "kchat">>[1]
      BY DEF Ours
    <3> HIDE DEF Ours
    <3> QED
      BY <3>1 DEF VersionsOf
  <2> QED
    BY <2>1, <2>2
<1>2. ASSUME NEW m \in 0 .. 6 PROVE Ours(m) # NoTable
  <2>1. VersionsOf(NoTable) = {0}
    BY DEF VersionsOf, NoTable
  <2> QED
    BY <1>1, <2>1
<1>3. ASSUME NEW m \in 0 .. 6, NEW n \in 0 .. 6, Ours(m) = Ours(n) PROVE m = n
  <2>1. 1 .. m = 1 .. n
    BY <1>1, <1>3
  <2> QED
    BY <2>1
<1>4. ASSUME NEW m \in 0 .. 5 PROVE Ours(m) \cup {<<m + 1, "kchat">>} = Ours(m + 1)
  <2>1. 1 .. (m + 1) = (1 .. m) \cup {m + 1}
    OBVIOUS
  <2> QED
    BY <2>1 DEF Ours
<1>5. Ours(0) = {}
  BY DEF Ours
<1> QED
  BY <1>1, <1>2, <1>3, <1>4, <1>5

-----------------------------------------------------------------------------
(* The inductive invariant.                                                *)

KeystoreSteps == {"keystore", "bootstrap", "history", "applied", "migrate"}
StatusSteps == {"inspect", "status", "initialize"}
Steps == KeystoreSteps \cup StatusSteps \cup {"closed", "open", "failed"}

TypeInv ==
    /\ binding \in [Processes -> {"uniffi", "napi"}]
    /\ password \in BOOLEAN
    /\ shared \in BOOLEAN
    /\ statuses \in BOOLEAN
    /\ format \in [{"keystore", "status"} -> Formats]
    /\ pc \in [Processes -> Steps]
    /\ key \in [Processes -> {"plain", Secret}]
    /\ todo = [p \in Processes |-> todo[p]]
    /\ alone \in [Processes -> BOOLEAN]

\* The keystore has the format of the secret, and without a password nothing
\* is keyed.
FormatInv ==
    /\ format["keystore"] \in {"none", Secret}
    /\ format["status"] = "keyed" => password

\* Before there is a history no script has run; from then on the history is
\* this build's scripts up to some version.
HistoryInv ==
    \/ /\ kchat = NoTable
       /\ tables \subseteq AllTables
       /\ legacy = Ours(LEGACY_KCHAT_MIGRATION_VERSION) => Built(5, tables)
    \/ \E m \in 0 .. 6 : kchat = Ours(m) /\ Built(m, tables)

\* Process p has its keystore, or its status storage.
HasKeystore(p) == pc[p] = "open" \/ (binding[p] = "napi" /\ pc[p] \in StatusSteps)
HasStatuses(p) == pc[p] = "open" \/ (binding[p] = "uniffi" /\ pc[p] \in KeystoreSteps)

\* Process p is to run the scripts after k.
Remaining(p, k) ==
    /\ todo[p] = (k + 1) .. 6
    /\ \A m \in 0 .. 6 : kchat = Ours(m) => k <= m
    /\ alone[p] => kchat = Ours(k)

ProcessOK(p) ==
    /\ HasKeystore(p) => format["keystore"] = Secret /\ kchat = Ours(6)
    /\ HasStatuses(p) => statuses
    /\ pc[p] \in KeystoreSteps \ {"keystore"} => format["keystore"] = Secret
    /\ pc[p] \in {"applied", "migrate"} => kchat # NoTable
    /\ pc[p] = "migrate" => \E k \in 0 .. 6 : Remaining(p, k)
    /\ pc[p] = "status" => /\ shared => key[p] = Secret
                           /\ alone[p] => format[File("status")] \in {"none", key[p]}
    /\ pc[p] = "failed" => ~alone[p]

\* Two opens at once: neither is alone.
OverlapInv ==
    \A p, q \in Processes : p # q /\ Opening(p) /\ Opening(q) => ~alone[p]

IInv ==
    /\ TypeInv
    /\ FormatInv
    /\ HistoryInv
    /\ \A p \in Processes : ProcessOK(p)
    /\ OverlapInv

-----------------------------------------------------------------------------
(* The steps.                                                              *)

\* Every installation an earlier build can have left is in order.
LEMMA InitIInv == Init => IInv
<1> SUFFICES ASSUME Init PROVE IInv
  OBVIOUS
<1>1. PICK i \in Installations, s \in Formats :
         /\ s = "keyed" => password
         /\ shared => s = "none"
         /\ format = [keystore |-> i.format, status |-> s]
         /\ tables = i.tables
         /\ kchat = i.kchat
         /\ legacy = i.legacy
         /\ statuses = (s # "none")
  BY DEF Init
<1>2. password \in BOOLEAN
  BY DEF Init
<1>3. /\ i.format \in {"none", Secret}
      /\ \/ /\ i.kchat = NoTable
            /\ i.tables \subseteq AllTables
            /\ i.legacy = Ours(5) => Built(5, i.tables)
         \/ \E m \in 0 .. 6 : i.kchat = Ours(m) /\ Built(m, i.tables)
  <2>1. CASE i = [format |-> "none", tables |-> {}, kchat |-> NoTable, legacy |-> NoTable]
    BY <2>1, OursFacts
  <2>2. CASE \E n \in 0 .. 5 : i = [format |-> Secret, tables |-> TablesAt[n],
                                    kchat |-> NoTable, legacy |-> Ours(n)]
    <3>1. PICK n \in 0 .. 5 : i = [format |-> Secret, tables |-> TablesAt[n],
                                   kchat |-> NoTable, legacy |-> Ours(n)]
      BY <2>2
    <3>2. Built(n, TablesAt[n]) /\ (Ours(n) = Ours(5) => n = 5)
      BY TablesAtBuilt, OursFacts
    <3> QED
      BY <3>1, <3>2 DEF Built
  <2>3. CASE i = [format |-> Secret, tables |-> TablesAt[2], kchat |-> NoTable,
                  legacy |-> Ours(2) \cup {<<3, "upstream">>}]
    <3>1. <<3, "upstream">> \notin Ours(5)
      BY DEF Ours
    <3>2. Built(2, TablesAt[2])
      BY TablesAtBuilt
    <3> QED
      BY <2>3, <3>1, <3>2 DEF Built
  <2>4. CASE \E n \in 0 .. 6 : i = [format |-> Secret, tables |-> TablesAt[n],
                                    kchat |-> Ours(n), legacy |-> NoTable]
    BY <2>4, TablesAtBuilt
  <2> QED
    BY <2>1, <2>2, <2>3, <2>4 DEF Installations, LEGACY_KCHAT_MIGRATION_VERSION
<1>4. Secret \in Formats
  BY DEF Secret, Formats
<1>5. format \in [{"keystore", "status"} -> Formats] /\ format["keystore"] = i.format
      /\ format["status"] = s
  BY <1>1, <1>3, <1>4 DEF Formats
<1>6. TypeInv
  BY <1>1, <1>2, <1>5 DEF TypeInv, Init, Steps
<1>7. FormatInv /\ HistoryInv
  BY <1>1, <1>3, <1>5 DEF FormatInv, HistoryInv, LEGACY_KCHAT_MIGRATION_VERSION
<1>8. \A p \in Processes : ProcessOK(p)
  BY DEF Init, ProcessOK, HasKeystore, HasStatuses, KeystoreSteps, StatusSteps
<1>9. OverlapInv
  BY DEF Init, OverlapInv, Opening
<1> QED
  BY <1>6, <1>7, <1>8, <1>9 DEF IInv

\* A history never goes back.
Grows ==
    /\ kchat # NoTable => kchat' # NoTable
    /\ \A m \in 0 .. 6 : kchat = Ours(m) => \E n \in m .. 6 : kchat' = Ours(n)

\* A step of p that leaves process q alone leaves it in order, if q is not
\* alone or nothing q has looked at has changed.
LEMMA ProcessFrame ==
    ASSUME IInv, NEW q \in Processes, ProcessOK(q), Grows, UNCHANGED <<config>>,
           pc'[q] = pc[q], key'[q] = key[q], todo'[q] = todo[q],
           statuses => statuses',
           format["keystore"] = Secret => format'["keystore"] = Secret,
           alone'[q] => alone[q],
           Opening(q) /\ alone'[q] => format' = format /\ kchat' = kchat
    PROVE  ProcessOK(q)'
<1> USE DEF config
<1>1. Secret' = Secret /\ File("status")' = File("status") /\ Opening(q)' = Opening(q)
  BY DEF Secret, File, Opening
<1>2. HasKeystore(q)' = HasKeystore(q) /\ HasStatuses(q)' = HasStatuses(q)
  BY DEF HasKeystore, HasStatuses
<1>3. kchat = Ours(6) => kchat' = Ours(6)
  <2> SUFFICES ASSUME kchat = Ours(6) PROVE kchat' = Ours(6)
    OBVIOUS
  <2>1. PICK n \in 6 .. 6 : kchat' = Ours(n)
    BY DEF Grows
  <2> QED
    BY <2>1
<1>4. ASSUME pc[q] = "migrate" PROVE \E k \in 0 .. 6 : Remaining(q, k)'
  <2>1. PICK k \in 0 .. 6 : Remaining(q, k)
    BY <1>4 DEF ProcessOK
  <2>2. kchat # NoTable /\ Opening(q)
    BY <1>4 DEF ProcessOK, Opening
  <2>3. PICK m \in 0 .. 6 : kchat = Ours(m)
    BY <2>2 DEF IInv, HistoryInv
  <2>4. PICK n \in m .. 6 : kchat' = Ours(n)
    BY <2>3 DEF Grows
  <2>5. k <= m /\ m <= n /\ n \in 0 .. 6
    BY <2>1, <2>3, <2>4 DEF Remaining
  <2>6. ASSUME NEW j \in 0 .. 6, kchat' = Ours(j) PROVE k <= j
    <3>1. n = j
      BY <2>4, <2>5, <2>6, OursFacts
    <3> QED
      BY <2>5, <3>1
  <2>7. alone'[q] => kchat' = Ours(k)
    BY <2>1, <2>2 DEF Remaining
  <2> QED
    BY <2>1, <2>6, <2>7 DEF Remaining
<1>5. pc[q] = "status" => /\ shared' => key'[q] = Secret'
                          /\ alone'[q] => format'[File("status")'] \in {"none", key'[q]}
  BY <1>1 DEF ProcessOK, Opening
<1> QED
  BY <1>1, <1>2, <1>3, <1>4, <1>5 DEF ProcessOK, Grows

\* A step of an open preserves IInv if it leaves p itself in order.
LEMMA OwnStep ==
    ASSUME IInv, NEW p \in Processes, NEW s \in Steps, Opening(p), GoTo(p, s),
           UNCHANGED <<config, alone>>, Grows,
           \A q \in Processes \ {p} : key'[q] = key[q] /\ todo'[q] = todo[q],
           statuses => statuses',
           format["keystore"] = Secret => format'["keystore"] = Secret,
           TypeInv', FormatInv', HistoryInv', ProcessOK(p)'
    PROVE  IInv'
<1>1. \A q \in Processes \ {p} : pc'[q] = pc[q]
  BY DEF GoTo, IInv, TypeInv
<1>2. ASSUME NEW q \in Processes \ {p} PROVE ProcessOK(q)'
  <2>1. Opening(q) => ~alone'[q]
    BY DEF IInv, OverlapInv
  <2> QED
    BY <1>1, <2>1, ProcessFrame DEF IInv, config
<1>3. \A q \in Processes : Opening(q)' => Opening(q)
  BY <1>1 DEF Opening
<1>4. OverlapInv'
  BY <1>3 DEF IInv, OverlapInv
<1> QED
  BY <1>2, <1>4 DEF IInv

\* Where each constructor starts and goes on.
LEMMA Order ==
    ASSUME TypeInv, NEW p \in Processes
    PROVE  /\ Entry(StorageOrder(p)[1]) = IF binding[p] = "uniffi" THEN "inspect" ELSE "keystore"
           /\ After(p, "status") = IF binding[p] = "uniffi" THEN "keystore" ELSE "open"
           /\ After(p, "keystore") = IF binding[p] = "uniffi" THEN "open" ELSE "inspect"
BY DEF TypeInv, Entry, StorageOrder, After

\* The constructor is called.
LEMMA NewIInv == ASSUME IInv, NEW p \in Processes, New(p) PROVE IInv'
<1> USE DEF config
<1>1. UNCHANGED <<config, format, tables, kchat, statuses, key, todo>>
  BY DEF New
<1> DEFINE s == IF binding[p] = "uniffi" THEN "inspect" ELSE "keystore"
<1>2. pc' = [pc EXCEPT ![p] = s]
  BY Order DEF New, GoTo, IInv
<1>3. /\ \A q \in Processes \ {p} : Opening(q) => ~alone'[q]
      /\ \A q \in Processes \ {p} : ~Opening(q) => alone'[q] = alone[q]
      /\ (\E q \in Processes \ {p} : Opening(q)) => ~alone'[p]
      /\ alone' \in [Processes -> BOOLEAN]
  <2> DEFINE others == {q \in Processes \ {p} : Opening(q)}
  <2>1. alone' = [q \in Processes |->
                     CASE q = p -> others = {}
                       [] q \in others -> FALSE
                       [] OTHER -> alone[q]]
    BY DEF New
  <2>2. alone'[p] = (others = {})
    BY <2>1
  <2>3. \A q \in others : alone'[q] = FALSE
    BY <2>1
  <2>4. \A q \in Processes \ {p} : q \notin others => alone'[q] = alone[q]
    BY <2>1
  <2>5. alone' \in [Processes -> BOOLEAN]
    <3>1. \A q \in Processes : alone[q] \in BOOLEAN
      BY DEF IInv, TypeInv
    <3> HIDE DEF others
    <3> QED
      BY <2>1, <2>2, <2>3, <2>4, <3>1, Zenon
  <2> QED
    BY <2>2, <2>3, <2>4, <2>5
<1>4. TypeInv'
  <2>1. s \in Steps /\ Secret' = Secret
    BY <1>1 DEF Steps, KeystoreSteps, StatusSteps, Secret
  <2> QED
    BY <1>1, <1>2, <1>3, <2>1 DEF IInv, TypeInv
<1>5. FormatInv' /\ HistoryInv'
  BY <1>1 DEF IInv, FormatInv, HistoryInv, Secret
<1>6. pc'[p] = s /\ \A q \in Processes \ {p} : pc'[q] = pc[q]
  BY <1>2 DEF IInv, TypeInv
<1>7. ProcessOK(p)'
  BY <1>1, <1>6 DEF IInv, TypeInv, ProcessOK, HasKeystore, HasStatuses, KeystoreSteps, StatusSteps
<1>8. ASSUME NEW q \in Processes \ {p} PROVE ProcessOK(q)'
  <2>1. Grows
    BY <1>1 DEF Grows
  <2>2. ProcessOK(q) /\ (alone'[q] => alone[q])
    BY <1>3 DEF IInv
  <2> QED
    BY <1>1, <1>6, <2>1, <2>2, ProcessFrame
<1>9. OverlapInv'
  <2> SUFFICES ASSUME NEW a \in Processes, NEW b \in Processes, a # b, Opening(a)', Opening(b)'
               PROVE  ~alone'[a]
    BY DEF OverlapInv
  <2>1. \A q \in Processes \ {p} : Opening(q)' = Opening(q)
    BY <1>6 DEF Opening
  <2>2. CASE a = p
    BY <1>3, <2>1, <2>2
  <2>3. CASE a # p
    BY <1>3, <2>1, <2>3
  <2> QED
    BY <2>2, <2>3
<1> QED
  BY <1>4, <1>5, <1>7, <1>8, <1>9 DEF IInv

\* The status file is inspected: the key chosen fits what is there.
LEMMA InspectIInv == ASSUME IInv, NEW p \in Processes, Inspect(p) PROVE IInv'
<1> USE DEF config
<1> DEFINE f == format[File("status")]
           k == IF binding[p] = "uniffi" THEN open_group_status_connection(f)
                ELSE open_compatible_group_status_connection(f)
<1>1. /\ pc[p] = "inspect" /\ pc' = [pc EXCEPT ![p] = "status"] /\ key' = [key EXCEPT ![p] = k]
      /\ UNCHANGED <<config, format, tables, kchat, statuses, todo, alone>>
  BY DEF Inspect, GoTo
<1>2. /\ k \in {"plain", Secret} /\ f \in {"none", "plain", "keyed"} /\ (f # "none" => k = f)
      /\ Secret' = Secret
  <2>1. f \in {"none", "plain", "keyed"} /\ (f = "keyed" => password)
    BY DEF IInv, TypeInv, FormatInv, File, Formats, Secret
  <2> QED
    BY <1>1, <2>1 DEF open_group_status_connection, open_compatible_group_status_connection, Secret
<1>3. shared => k = Secret
  <2> SUFFICES ASSUME shared PROVE k = Secret
    OBVIOUS
  <2>1. f \in {"none", Secret}
    BY DEF File, IInv, FormatInv
  <2>2. CASE binding[p] = "uniffi"
    BY <2>1, <2>2 DEF open_group_status_connection, Secret
  <2>3. CASE binding[p] # "uniffi"
    <3>1. HasKeystore(p)
      BY <1>1, <2>3 DEF IInv, TypeInv, HasKeystore, StatusSteps
    <3>2. f = Secret
      BY <3>1 DEF IInv, ProcessOK, File
    <3> QED
      BY <2>3, <3>2 DEF open_compatible_group_status_connection, Secret
  <2> QED
    BY <2>2, <2>3
<1> HIDE DEF k
<1>4. TypeInv'
  BY <1>1, <1>2 DEF IInv, TypeInv, Steps, StatusSteps
<1>5. FormatInv' /\ HistoryInv' /\ Grows
  BY <1>1, <1>2 DEF IInv, FormatInv, HistoryInv, Grows
<1>6. pc'[p] = "status" /\ key'[p] = k /\ \A q \in Processes \ {p} : key'[q] = key[q]
  BY <1>1 DEF IInv, TypeInv
<1>7. ProcessOK(p)'
  <2>1. format'[File("status")'] = f /\ (shared' => k = Secret')
    BY <1>1, <1>2, <1>3 DEF File
  <2>2. HasKeystore(p)' = HasKeystore(p) /\ ~HasStatuses(p)'
    BY <1>1, <1>6 DEF HasKeystore, HasStatuses, StatusSteps, KeystoreSteps
  <2> QED
    BY <1>1, <1>2, <1>6, <2>1, <2>2 DEF IInv, ProcessOK, KeystoreSteps
<1> QED
  BY <1>1, <1>4, <1>5, <1>6, <1>7, OwnStep DEF GoTo, Opening, Steps, StatusSteps

\* An open that fails or ends early leaves everything as it is; it fails only
\* where another one overlaps it.
LEMMA StopIInv ==
    ASSUME IInv, NEW p \in Processes, Opening(p), NEW s \in {"failed", "closed"}, GoTo(p, s),
           s = "failed" => ~alone[p],
           UNCHANGED <<config, format, tables, kchat, statuses, key, todo, alone>>
    PROVE  IInv'
<1> USE DEF config
<1>1. pc' = [pc EXCEPT ![p] = s] /\ Secret' = Secret
  BY DEF GoTo, Secret
<1>2. TypeInv' /\ FormatInv' /\ HistoryInv' /\ Grows
  BY <1>1 DEF IInv, TypeInv, Steps, FormatInv, HistoryInv, Grows
<1>3. ProcessOK(p)'
  <2>1. pc'[p] = s
    BY <1>1 DEF IInv, TypeInv
  <2> QED
    BY <2>1 DEF ProcessOK, HasKeystore, HasStatuses, KeystoreSteps, StatusSteps
<1> QED
  BY <1>2, <1>3, OwnStep DEF Steps

\* The lock is held too long, or the process ends.
LEMMA FaultIInv == ASSUME IInv, NEW p \in Processes, Busy(p) \/ Crash(p) PROVE IInv'
<1>1. CASE Busy(p)
  <2>1. Opening(p) /\ GoTo(p, "failed")
    BY <1>1 DEF Busy, Opening
  <2>2. ~alone[p]
    BY <1>1, <2>1 DEF Busy, IInv, OverlapInv
  <2> QED
    BY <1>1, <2>1, <2>2, StopIInv DEF Busy, config
<1>2. CASE Crash(p)
  BY <1>2, StopIInv DEF Crash, config
<1> QED
  BY <1>1, <1>2

\* A connection to the status file.
LEMMA ConnectStatusIInv == ASSUME IInv, NEW p \in Processes, ConnectStatus(p) PROVE IInv'
<1> USE DEF config
<1> DEFINE file == File("status")
<1>1. /\ pc[p] = "status" /\ Opening(p)
      /\ UNCHANGED <<config, tables, kchat, statuses, key, todo, alone>>
  BY DEF ConnectStatus, Opening
<1>2. CASE format[file] \notin {"none", key[p]}
  <2>1. GoTo(p, "failed") /\ format' = format
    BY <1>2 DEF ConnectStatus, Connect
  <2>2. ~alone[p]
    BY <1>1, <1>2 DEF IInv, ProcessOK
  <2> QED
    BY <1>1, <2>1, <2>2, StopIInv
<1>3. CASE format[file] \in {"none", key[p]}
  <2>1. GoTo(p, "initialize") /\ format' = [format EXCEPT ![file] = key[p]]
    BY <1>3 DEF ConnectStatus, Connect
  <2>2. /\ file \in {"keystore", "status"} /\ key[p] \in {"plain", Secret} /\ Secret \in Formats
        /\ Secret' = Secret /\ (file = "keystore" => key[p] = Secret)
        /\ (Secret = "keyed" => password) /\ "plain" \in Formats
    BY <1>1 DEF IInv, TypeInv, ProcessOK, File, Secret, Formats
  <2> HIDE DEF file
  <2>3. TypeInv'
    BY <1>1, <2>1, <2>2 DEF GoTo, IInv, TypeInv, Steps, StatusSteps
  <2>4. FormatInv' /\ (format["keystore"] = Secret => format'["keystore"] = Secret)
    BY <1>1, <2>1, <2>2 DEF IInv, TypeInv, FormatInv
  <2>5. HistoryInv' /\ Grows
    BY <1>1 DEF IInv, HistoryInv, Grows
  <2>6. ProcessOK(p)'
    <3>1. pc'[p] = "initialize"
      BY <2>1 DEF GoTo, IInv, TypeInv
    <3>2. HasKeystore(p)' = HasKeystore(p) /\ ~HasStatuses(p)'
      BY <1>1, <3>1 DEF HasKeystore, HasStatuses, StatusSteps, KeystoreSteps
    <3> QED
      BY <1>1, <2>2, <2>4, <3>1, <3>2 DEF IInv, ProcessOK, KeystoreSteps
  <2> QED
    BY <1>1, <2>1, <2>3, <2>4, <2>5, <2>6, OwnStep DEF Steps, StatusSteps
<1> QED
  BY <1>2, <1>3

\* The status storage is ready.
LEMMA InitializeIInv == ASSUME IInv, NEW p \in Processes, Initialize(p) PROVE IInv'
<1> USE DEF config
<1> DEFINE s == IF binding[p] = "uniffi" THEN "keystore" ELSE "open"
<1>1. /\ pc[p] = "initialize" /\ GoTo(p, s) /\ statuses' = TRUE /\ Opening(p)
      /\ UNCHANGED <<config, format, tables, kchat, key, todo, alone>>
  BY Order DEF Initialize, IInv, Opening
<1>2. Secret' = Secret /\ s \in Steps
  BY <1>1 DEF Secret, Steps, KeystoreSteps
<1>3. TypeInv' /\ FormatInv' /\ HistoryInv' /\ Grows
  BY <1>1, <1>2 DEF GoTo, IInv, TypeInv, FormatInv, HistoryInv, Grows
<1>4. ProcessOK(p)'
  <2>1. pc'[p] = s
    BY <1>1 DEF GoTo, IInv, TypeInv
  <2>2. HasKeystore(p)' => HasKeystore(p)
    BY <1>1, <2>1 DEF IInv, TypeInv, HasKeystore, StatusSteps
  <2> QED
    BY <1>1, <1>2, <2>1, <2>2 DEF IInv, ProcessOK, KeystoreSteps
<1> QED
  BY <1>1, <1>2, <1>3, <1>4, OwnStep

\* A connection to the keystore always fits.
LEMMA ConnectKeystoreIInv == ASSUME IInv, NEW p \in Processes, ConnectKeystore(p) PROVE IInv'
<1> USE DEF config
<1>1. /\ pc[p] = "keystore" /\ Opening(p)
      /\ UNCHANGED <<config, tables, kchat, statuses, key, todo, alone>>
      /\ GoTo(p, "bootstrap") /\ format' = [format EXCEPT !["keystore"] = Secret]
  BY DEF ConnectKeystore, Connect, Opening, IInv, FormatInv, File
<1>2. Secret' = Secret /\ Secret \in Formats
  BY <1>1 DEF Secret, Formats
<1>3. TypeInv' /\ FormatInv' /\ HistoryInv' /\ Grows /\ format'["keystore"] = Secret
  BY <1>1, <1>2 DEF GoTo, IInv, TypeInv, FormatInv, HistoryInv, Grows, Steps, KeystoreSteps
<1>4. ProcessOK(p)'
  <2>1. pc'[p] = "bootstrap"
    BY <1>1 DEF GoTo, IInv, TypeInv
  <2>2. ~HasKeystore(p)' /\ (HasStatuses(p)' => HasStatuses(p))
    BY <1>1, <2>1 DEF HasKeystore, HasStatuses, StatusSteps, KeystoreSteps
  <2> QED
    BY <1>1, <1>2, <1>3, <2>1, <2>2 DEF IInv, ProcessOK
<1> QED
  BY <1>1, <1>3, <1>4, OwnStep DEF Steps, KeystoreSteps

\* The history is taken over, started or read.
LEMMA HistoryIInv ==
    ASSUME IInv, NEW p \in Processes, Bootstrap(p) \/ CreateHistory(p) \/ ReadApplied(p)
    PROVE  IInv'
<1> USE DEF config
<1>1. PICK s \in {"history", "applied", "migrate"} : GoTo(p, s) /\ (s = "migrate" => ReadApplied(p))
         /\ (s = "applied" => CreateHistory(p))
  BY DEF Bootstrap, CreateHistory, ReadApplied
<1>2. /\ pc[p] \in KeystoreSteps \ {"keystore"} /\ Opening(p) /\ pc'[p] = s
      /\ UNCHANGED <<config, format, tables, statuses, key, alone>>
      /\ \A q \in Processes \ {p} : todo'[q] = todo[q]
      /\ Secret' = Secret
  BY <1>1 DEF Bootstrap, CreateHistory, ReadApplied, GoTo, IInv, TypeInv, KeystoreSteps, Opening, Secret
<1>3. TypeInv' /\ FormatInv'
  BY <1>1, <1>2 DEF Bootstrap, CreateHistory, ReadApplied, GoTo, IInv, TypeInv, FormatInv, Steps, KeystoreSteps
<1>4. Grows /\ HistoryInv'
  <2>1. CASE kchat' = kchat
    BY <1>2, <2>1 DEF IInv, HistoryInv, Grows
  <2>2. CASE kchat' # kchat
    <3>1. kchat = NoTable /\ (kchat' = {} \/ (kchat' = Ours(5) /\ legacy = Ours(5)))
      BY <2>2 DEF Bootstrap, CreateHistory, ReadApplied, Adopts, LEGACY_KCHAT_MIGRATION_VERSION
    <3>2. \A m \in 0 .. 6 : kchat # Ours(m)
      BY <3>1, OursFacts
    <3>3. tables \subseteq AllTables /\ (legacy = Ours(5) => Built(5, tables))
      BY <3>2 DEF IInv, HistoryInv, LEGACY_KCHAT_MIGRATION_VERSION
    <3>4. CASE kchat' = {}
      <4>1. kchat' = Ours(0) /\ Built(0, tables)
        BY <3>3, <3>4, OursFacts DEF Built
      <4> QED
        BY <1>2, <3>1, <3>2, <4>1 DEF HistoryInv, Grows
    <3>5. CASE kchat' = Ours(5) /\ legacy = Ours(5)
      BY <1>2, <3>1, <3>2, <3>3, <3>5 DEF HistoryInv, Grows
    <3> QED
      BY <3>1, <3>4, <3>5
  <2> QED
    BY <2>1, <2>2
<1>5. ProcessOK(p)'
  <2>1. ~HasKeystore(p)' /\ (HasStatuses(p)' => HasStatuses(p))
    BY <1>2 DEF HasKeystore, HasStatuses, StatusSteps, KeystoreSteps
  <2>2. s \in {"applied", "migrate"} => kchat' # NoTable
    <3>1. CASE s = "applied"
      BY <1>1, <3>1 DEF CreateHistory, NoTable
    <3>2. CASE s = "migrate"
      BY <1>1, <3>2 DEF ReadApplied, IInv, ProcessOK
    <3> QED
      BY <3>1, <3>2
  <2>3. ASSUME s = "migrate" PROVE \E k \in 0 .. 6 : Remaining(p, k)'
    <3>1. /\ ReadApplied(p) /\ kchat' = kchat /\ kchat # NoTable
          /\ todo'[p] = Versions \ VersionsOf(kchat)
      BY <1>1, <2>3 DEF ReadApplied, IInv, TypeInv, ProcessOK
    <3>2. PICK k \in 0 .. 6 : kchat = Ours(k)
      BY <3>1 DEF IInv, HistoryInv
    <3>3. todo'[p] = (k + 1) .. 6
      <4>1. todo'[p] = (1 .. 6) \ (1 .. k)
        BY <3>1, <3>2, OursFacts DEF Versions
      <4> QED
        BY <4>1
    <3>4. ASSUME NEW m \in 0 .. 6, kchat' = Ours(m) PROVE k <= m
      <4>1. k = m
        BY <3>1, <3>2, <3>4, OursFacts
      <4> QED
        BY <4>1
    <3> QED
      BY <3>1, <3>2, <3>3, <3>4 DEF Remaining
  <2> QED
    BY <1>2, <2>1, <2>2, <2>3 DEF IInv, ProcessOK
<1> QED
  BY <1>1, <1>2, <1>3, <1>4, <1>5, OwnStep DEF Steps, KeystoreSteps

\* One script: the process whose turn it is has read the newest history, or it
\* fails.
LEMMA MigrateIInv == ASSUME IInv, NEW p \in Processes, Migrate(p) PROVE IInv'
<1> USE DEF config
<1> DEFINE v == CHOOSE n \in todo[p] : \A j \in todo[p] : n <= j
<1>1. /\ pc[p] = "migrate" /\ Opening(p) /\ todo[p] # {}
      /\ UNCHANGED <<config, format, statuses, key, alone>>
      /\ Secret' = Secret
  BY DEF Migrate, Opening, Secret
<1>2. PICK k \in 0 .. 6 : Remaining(p, k)
  BY <1>1 DEF IInv, ProcessOK
<1>3. PICK m \in 0 .. 6 : kchat = Ours(m) /\ Built(m, tables)
  BY <1>1 DEF IInv, ProcessOK, HistoryInv
<1>4. k <= m /\ k \in 0 .. 5 /\ v = k + 1 /\ VersionsOf(kchat) = 1 .. m
  <2>1. todo[p] = (k + 1) .. 6 /\ k <= m
    BY <1>2, <1>3 DEF Remaining
  <2>2. k \in 0 .. 5
    BY <1>1, <2>1
  <2>3. k + 1 \in todo[p] /\ \A j \in todo[p] : k + 1 <= j
    BY <2>1, <2>2
  <2>4. \A n \in todo[p] : (\A j \in todo[p] : n <= j) => n = k + 1
    BY <2>1, <2>3
  <2>5. v = k + 1
    BY <2>3, <2>4
  <2> QED
    BY <1>3, <2>1, <2>2, <2>5, OursFacts
<1>5. \/ /\ v \notin VersionsOf(kchat)
         /\ tables' = Script(v, tables)
         /\ kchat' = kchat \cup {<<v, "kchat">>}
         /\ todo' = [todo EXCEPT ![p] = @ \ {v}]
         /\ UNCHANGED pc
      \/ /\ v \in VersionsOf(kchat)
         /\ GoTo(p, "failed")
         /\ UNCHANGED <<tables, kchat, todo>>
  BY DEF Migrate
<1> HIDE DEF v
<1>6. CASE v \in VersionsOf(kchat)
  <2>1. kchat # Ours(k)
    <3> SUFFICES ASSUME kchat = Ours(k) PROVE FALSE
      OBVIOUS
    <3>1. VersionsOf(kchat) = 1 .. k
      BY OursFacts
    <3> QED
      BY <1>4, <1>6, <3>1
  <2>2. ~alone[p]
    BY <1>2, <2>1 DEF Remaining
  <2> QED
    BY <1>1, <1>5, <1>6, <2>2, StopIInv
<1>7. CASE v \notin VersionsOf(kchat)
  <2>1. k = m
    BY <1>4, <1>7
  <2>2. /\ tables' = Script(k + 1, tables) /\ kchat' = Ours(k) \cup {<<k + 1, "kchat">>}
        /\ todo' = [todo EXCEPT ![p] = todo[p] \ {k + 1}] /\ pc' = pc
    BY <1>3, <1>4, <1>5, <1>7, <2>1
  <2>3. kchat' = Ours(k + 1) /\ Built(k + 1, tables')
    BY <1>3, <1>4, <2>1, <2>2, OursFacts, ScriptBuilds
  <2>4. HistoryInv' /\ Grows
    <3>1. k + 1 \in 0 .. 6 /\ k + 1 \in k .. 6
      BY <1>4
    <3>2. HistoryInv'
      BY <2>3, <3>1 DEF HistoryInv
    <3>3. kchat' # NoTable
      BY <2>3, <3>1, OursFacts
    <3>4. ASSUME NEW j \in 0 .. 6, kchat = Ours(j) PROVE \E n \in j .. 6 : kchat' = Ours(n)
      <4>1. j = k
        BY <1>3, <2>1, <3>4, OursFacts
      <4> QED
        BY <2>3, <3>1, <4>1
    <3> QED
      BY <3>2, <3>3, <3>4 DEF Grows
  <2>5. TypeInv' /\ FormatInv'
    BY <1>1, <2>2 DEF IInv, TypeInv, FormatInv
  <2>6. todo'[p] = ((k + 1) + 1) .. 6 /\ \A q \in Processes \ {p} : todo'[q] = todo[q]
    <3>1. todo'[p] = ((k + 1) .. 6) \ {k + 1}
      BY <1>2, <2>2 DEF Remaining, IInv, TypeInv
    <3> QED
      BY <1>4, <2>2, <3>1 DEF IInv, TypeInv
  <2>7. Remaining(p, k + 1)'
    <3>1. ASSUME NEW j \in 0 .. 6, kchat' = Ours(j) PROVE k + 1 <= j
      <4>1. k + 1 \in 0 .. 6 /\ Ours(k + 1) = Ours(j)
        BY <1>4, <2>3, <3>1
      <4>2. k + 1 = j
        BY <4>1, OursFacts
      <4> QED
        BY <4>1, <4>2
    <3> QED
      BY <2>3, <2>6, <3>1 DEF Remaining
  <2>8. ProcessOK(p)'
    <3>1. HasKeystore(p)' = HasKeystore(p) /\ HasStatuses(p)' = HasStatuses(p) /\ ~HasKeystore(p)
      BY <1>1, <2>2 DEF HasKeystore, HasStatuses, StatusSteps
    <3>2. kchat' # NoTable /\ k + 1 \in 0 .. 6
      BY <1>1, <1>4, <2>4 DEF Grows, IInv, ProcessOK
    <3> QED
      BY <1>1, <2>2, <2>7, <3>1, <3>2 DEF IInv, ProcessOK
  <2>9. GoTo(p, "migrate") /\ "migrate" \in Steps
    BY <1>1, <2>2 DEF GoTo, IInv, TypeInv, Steps, KeystoreSteps
  <2> QED
    BY <1>1, <2>4, <2>5, <2>6, <2>8, <2>9, OwnStep
<1> QED
  BY <1>6, <1>7

\* Nothing is left to run: the keystore is complete.
LEMMA MigratedIInv == ASSUME IInv, NEW p \in Processes, Migrated(p) PROVE IInv'
<1> USE DEF config
<1> DEFINE s == IF binding[p] = "uniffi" THEN "open" ELSE "inspect"
<1>1. /\ pc[p] = "migrate" /\ Opening(p) /\ todo[p] = {} /\ GoTo(p, s)
      /\ UNCHANGED <<config, format, tables, kchat, statuses, key, todo, alone>>
      /\ Secret' = Secret
  BY Order DEF Migrated, Opening, IInv, Secret
<1>2. kchat = Ours(6) /\ format["keystore"] = Secret
  <2>1. PICK k \in 0 .. 6 : Remaining(p, k)
    BY <1>1 DEF IInv, ProcessOK
  <2>2. PICK m \in 0 .. 6 : kchat = Ours(m)
    BY <1>1 DEF IInv, ProcessOK, HistoryInv
  <2>3. k = 6 /\ k <= m
    <3>1. (k + 1) .. 6 = {} /\ k <= m
      BY <1>1, <2>1, <2>2 DEF Remaining
    <3>2. 6 \notin (k + 1) .. 6
      BY <3>1
    <3> QED
      BY <3>1, <3>2
  <2>4. m = 6
    BY <2>3
  <2> QED
    BY <1>1, <2>2, <2>4 DEF IInv, ProcessOK, KeystoreSteps
<1>3. s \in Steps
  BY DEF Steps, StatusSteps
<1>4. TypeInv' /\ FormatInv' /\ HistoryInv' /\ Grows
  BY <1>1, <1>3 DEF GoTo, IInv, TypeInv, FormatInv, HistoryInv, Grows
<1>5. ProcessOK(p)'
  <2>1. pc'[p] = s
    BY <1>1 DEF GoTo, IInv, TypeInv
  <2>2. HasStatuses(p)' => HasStatuses(p)
    BY <1>1, <2>1 DEF IInv, TypeInv, HasStatuses, KeystoreSteps
  <2> QED
    BY <1>1, <1>2, <2>1, <2>2 DEF IInv, ProcessOK, KeystoreSteps
<1> QED
  BY <1>1, <1>3, <1>4, <1>5, OwnStep

\* The invariant is inductive.
THEOREM Inductive == Spec => []IInv
<1>1. Init => IInv
  BY InitIInv
<1>2. IInv /\ [Next]_vars => IInv'
  <2>1. ASSUME IInv, NEW p \in Processes,
               \/ New(p) \/ Inspect(p) \/ ConnectStatus(p) \/ Initialize(p)
               \/ ConnectKeystore(p) \/ Bootstrap(p) \/ CreateHistory(p) \/ ReadApplied(p)
               \/ Migrate(p) \/ Migrated(p) \/ Busy(p) \/ Crash(p)
        PROVE  IInv'
    BY <2>1, NewIInv, InspectIInv, ConnectStatusIInv, InitializeIInv, ConnectKeystoreIInv,
       HistoryIInv, MigrateIInv, MigratedIInv, FaultIInv
  <2>2. ASSUME IInv, UNCHANGED vars PROVE IInv'
    <3> USE <2>2 DEF vars, config
    <3>1. TypeInv' /\ FormatInv' /\ HistoryInv' /\ OverlapInv'
      BY DEF IInv, TypeInv, FormatInv, HistoryInv, OverlapInv, Opening, Secret
    <3>2. ASSUME NEW p \in Processes PROVE ProcessOK(p)'
      <4>1. Grows /\ ProcessOK(p)
        BY DEF Grows, IInv
      <4> QED
        BY <4>1, ProcessFrame
    <3> QED
      BY <3>1, <3>2 DEF IInv
  <2> QED
    BY <2>1, <2>2 DEF Next
<1> QED
  BY <1>1, <1>2, PTL DEF Spec

\* An open that no other open overlapped succeeds, whatever came before it, for
\* any number of processes, opens and crashes.
THEOREM AloneOpens == Spec => []AloneItOpens
<1>1. IInv => AloneItOpens
  BY DEF IInv, ProcessOK, AloneItOpens
<1> QED
  BY <1>1, Inductive, PTL

\* A client that was opened has every table its statements use and a history
\* that says so, for any number of processes, opens and crashes.
THEOREM OpenedComplete == Spec => []OpenedIsComplete
<1>1. ASSUME IInv, NEW p \in Processes, pc[p] = "open"
      PROVE  /\ tables = TablesAt[6]
             /\ VersionsOf(kchat) = Versions
             /\ statuses
             /\ format[File("keystore")] = Secret
  <2>1. kchat = Ours(6) /\ format["keystore"] = Secret /\ statuses
    BY <1>1 DEF IInv, ProcessOK, HasKeystore, HasStatuses
  <2>2. PICK m \in 0 .. 6 : kchat = Ours(m) /\ Built(m, tables)
    <3>1. kchat # NoTable
      BY <2>1, OursFacts
    <3> QED
      BY <1>1, <3>1 DEF IInv, HistoryInv
  <2>3. m = 6
    <3>1. Ours(m) = Ours(6) /\ 6 \in 0 .. 6
      BY <2>1, <2>2
    <3> QED
      BY <3>1, OursFacts
  <2>4. tables = TablesAt[6] /\ VersionsOf(kchat) = 1 .. 6
    BY <2>1, <2>2, <2>3, TablesAtBuilt, OursFacts
  <2> QED
    BY <2>1, <2>4 DEF Versions, File
<1>2. IInv => OpenedIsComplete
  BY <1>1 DEF OpenedIsComplete
<1> QED
  BY <1>2, Inductive, PTL
=============================================================================

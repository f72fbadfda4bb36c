------------------------ MODULE EpochMigrationProof ------------------------
(***************************************************************************)
(* Proofs about EpochMigration for every set of groups and providers,      *)
(* every batch size and every retention window.  IInv is inductive; the    *)
(* step that needs an argument is ListBatch, where an empty batch must     *)
(* mean that no legacy row is left at all (EmptyBatch).                    *)
(***************************************************************************)
EXTENDS EpochMigration, FiniteSetTheorems, WellFoundedInduction, TLAPS

\* Every non-empty set of naturals has a least element.
LEMMA LeastNat ==
    ASSUME NEW T, T \subseteq Nat, T # {}
    PROVE  \E x \in T : \A y \in T : x <= y
<1> DEFINE R == {ss \in Nat \X Nat : ss[1] < ss[2]}
<1>1. IsWellFoundedOn(R, Nat)
    BY NatLessThanWellFounded DEF OpToRel
<1>2. PICK x \in T : \A y \in T : ~ (<<y, x>> \in R)
    <2> HIDE DEF R
    <2> QED BY <1>1, WFMin
<1>3. ASSUME NEW y \in T PROVE x <= y
    <2>1. x \in Nat /\ y \in Nat
        OBVIOUS
    <2>2. ~(y < x)
        BY <1>2, <2>1
    <2>3. QED
        BY <2>1, <2>2
<1>4. QED
    BY <1>3

\* A batch is empty only when no group has a legacy row: the row with the
\* greatest rowid is always within the LIMIT.
LEMMA EmptyBatch ==
    ASSUME TypeOK, RowidInv, list_group_ids_with_message_secrets = {}
    PROVE  ~has_legacy_message_secrets
<1> DEFINE T == {n \in Nat : \E g \in Groups : HasLegacy(g) /\ n = nextrow - legacy[g].rowid}
<1>1. SUFFICES ASSUME has_legacy_message_secrets PROVE FALSE
    OBVIOUS
<1>2. PICK g0 \in Groups : HasLegacy(g0)
    BY <1>1 DEF has_legacy_message_secrets
<1>3. \A g \in Groups : HasLegacy(g) => legacy[g].rowid \in Nat /\ nextrow - legacy[g].rowid \in Nat
    BY DEF TypeOK, RowidInv, HasLegacy
<1>4. T # {} /\ T \subseteq Nat
    BY <1>2, <1>3
<1>5. PICK x \in T : \A y \in T : x <= y
    <2> HIDE DEF T
    <2> QED BY <1>4, LeastNat
<1>6. PICK g \in Groups : HasLegacy(g) /\ x = nextrow - legacy[g].rowid
    BY <1>5
<1>7. \A h \in Groups : HasLegacy(h) => legacy[h].rowid <= legacy[g].rowid
    BY <1>3, <1>5, <1>6 DEF TypeOK
<1>8. Newer(g) = {}
    BY <1>3, <1>6, <1>7 DEF Newer
<1>9. Cardinality(Newer(g)) < BatchSize
    BY <1>8, FS_EmptySet, ConstantsAssumption
<1>10. QED
    BY <1>6, <1>9 DEF list_group_ids_with_message_secrets

\* Pruning after a merge leaves exactly the retention window of the new epoch.
LEMMA PruneWindow ==
    ASSUME NEW n \in Nat
    PROVE  prune_group_epoch_message_secrets(
               Retained(n) \cup {n + 1}, n + 1 - MaxPastEpochs, n + 1) = Retained(n + 1)
BY ConstantsAssumption DEF prune_group_epoch_message_secrets, Retained

\* A group without legacy row is not a corrupt record: the row types differ.
LEMMA RowTypes == \A r, e : LegacyRow(r, e) # NoRow
<1>1. SUFFICES ASSUME NEW r, NEW e, LegacyRow(r, e) = NoRow PROVE FALSE
    OBVIOUS
<1>2. DOMAIN LegacyRow(r, e) = {"rowid", "epochs"}
    BY DEF LegacyRow
<1>3. DOMAIN NoRow = {"norow"}
    BY DEF NoRow
<1>4. QED
    BY <1>1, <1>2, <1>3

\* Retained windows consist of naturals; a fresh group keeps epoch 0.
LEMMA RetainedType == (\A n \in Nat : Retained(n) \subseteq Nat) /\ Retained(0) = {0}
BY ConstantsAssumption DEF Retained

\* The databases of a former version satisfy the invariant.
LEMMA InitIInv == Init => IInv
<1> SUFFICES ASSUME Init PROVE IInv
    OBVIOUS
<1> USE RetainedType, RowTypes
<1>1. Cardinality(Groups) \in Nat
    BY FS_CardinalityType, ConstantsAssumption
<1>2. PICK old \in SUBSET Groups, rowid \in [Groups -> 1 .. Cardinality(Groups)] :
        /\ epoch = [g \in Groups |-> IF g \in old THEN 0 ELSE NoGroup]
        /\ legacy = [g \in Groups |-> IF g \in old
                                      THEN LegacyRow(rowid[g], Retained(0)) ELSE NoRow]
    BY DEF Init
<1>3. \A g \in Groups : rowid[g] \in Nat /\ rowid[g] < Cardinality(Groups) + 1
    BY <1>1, <1>2
<1>4. TypeOK
    <2>1. legacy \in [Groups -> [rowid : Nat, epochs : SUBSET Nat] \cup {NoRow}]
        <3>1. ASSUME NEW g \in Groups PROVE LegacyRow(rowid[g], Retained(0)) \in [rowid : Nat, epochs : SUBSET Nat]
            BY <1>3 DEF LegacyRow
        <3>2. QED
            BY <1>2, <3>1
    <2>2. epoch \in [Groups -> Nat \cup {NoGroup}]
        BY <1>2
    <2>3. nextrow \in Nat /\ faults \in Nat /\ rows \in [Groups -> SUBSET Nat]
        BY <1>1 DEF Init
    <2>4. done \in BOOLEAN
        BY DEF Init
    <2>5. /\ pc \in [Providers -> {"closed", "list", "groups", "mark", "open"}]
          /\ todo \in [Providers -> SUBSET Groups]
        BY DEF Init
    <2>6. QED
        BY <2>1, <2>2, <2>3, <2>4, <2>5 DEF TypeOK
<1>5. RowidInv
    BY <1>1, <1>2, <1>3 DEF Init, RowidInv, HasLegacy, LegacyRow
<1>6. SecretsKept
    BY <1>2 DEF Init, SecretsKept, HasLegacy, LegacyRow, NoGroup
<1>7. DoneIsFinal
    BY DEF Init, DoneIsFinal
<1>8. QED
    BY <1>4, <1>5, <1>6, <1>7 DEF IInv

-----------------------------------------------------------------------------
(* The steps of a provider.                                                *)

\* Steps that leave the database alone and do not decide to set the flag.
LEMMA FrameIInv ==
    ASSUME IInv, NEW p \in Providers, NEW l \in {"closed", "list", "groups", "open"},
           UNCHANGED <<epoch, legacy, rows, nextrow, done>>,
           Goto(p, l) \/ UNCHANGED pc,
           todo' \in [Providers -> SUBSET Groups],
           faults' \in Nat
    PROVE  IInv'
<1> USE DEF IInv
<1>1. TypeOK'
    BY DEF TypeOK, Goto
<1>2. RowidInv'
    BY DEF RowidInv, HasLegacy
<1>3. SecretsKept'
    BY DEF SecretsKept, HasLegacy
<1>4. DoneIsFinal'
    BY DEF TypeOK, DoneIsFinal, has_legacy_message_secrets, HasLegacy, Goto
<1>5. QED
    BY <1>1, <1>2, <1>3, <1>4

\* Deciding to set the flag, which needs that no legacy row is left.
LEMMA ToMarkIInv ==
    ASSUME IInv, NEW p \in Providers, ~has_legacy_message_secrets,
           UNCHANGED <<epoch, legacy, rows, nextrow, done, faults>>,
           Goto(p, "mark"),
           todo' \in [Providers -> SUBSET Groups]
    PROVE  IInv'
<1> USE DEF IInv
<1>1. TypeOK'
    BY DEF TypeOK, Goto
<1>2. RowidInv'
    BY DEF RowidInv, HasLegacy
<1>3. SecretsKept'
    BY DEF SecretsKept, HasLegacy
<1>4. DoneIsFinal'
    BY DEF DoneIsFinal, has_legacy_message_secrets, HasLegacy
<1>5. QED
    BY <1>1, <1>2, <1>3, <1>4

\* One group is migrated: what it retains moves from one table to the other.
LEMMA MigrateIInv ==
    ASSUME IInv, NEW p \in Providers, NEW g \in Groups,
           migrate_group_epoch_message_secrets(p, g)
    PROVE  IInv'
<1> USE DEF IInv
<1>1. CASE HasLegacy(g)
    <2>1. /\ rows' = [rows EXCEPT ![g] = legacy[g].epochs]
          /\ legacy' = [legacy EXCEPT ![g] = NoRow]
          /\ UNCHANGED <<epoch, nextrow, done, pc, faults>>
          /\ todo' = [todo EXCEPT ![p] = @ \ {g}]
        BY <1>1 DEF migrate_group_epoch_message_secrets, Skip
    <2>2. legacy[g].epochs \in SUBSET Nat
        BY <1>1 DEF TypeOK, HasLegacy
    <2>3. TypeOK'
        BY <2>1, <2>2 DEF TypeOK
    <2>4. RowidInv'
        BY <2>1 DEF TypeOK, RowidInv, HasLegacy
    <2>5. SecretsKept'
        BY <1>1, <2>1 DEF TypeOK, SecretsKept, HasLegacy
    <2>6. DoneIsFinal'
        BY <2>1 DEF TypeOK, DoneIsFinal, has_legacy_message_secrets, HasLegacy
    <2>7. QED
        BY <2>3, <2>4, <2>5, <2>6
<1>2. CASE ~HasLegacy(g)
    <2>1. UNCHANGED <<epoch, legacy, rows, nextrow, done, pc, faults>>
        BY <1>2 DEF migrate_group_epoch_message_secrets
    <2>2. todo' \in [Providers -> SUBSET Groups]
        BY DEF migrate_group_epoch_message_secrets, Skip, TypeOK
    <2>3. faults' \in Nat
        BY <2>1 DEF TypeOK
    <2>4. QED
        BY <2>1, <2>2, <2>3, FrameIInv
<1>3. QED
    BY <1>1, <1>2

\* The remaining steps of a provider, one by one.
LEMMA ProviderIInv ==
    ASSUME IInv, NEW p \in Providers,
           \/ Open(p) \/ MigrationStep(p) \/ Close(p) \/ MigrationFails(p) \/ Crash(p)
           \/ \E g \in Groups : MigrateGroupFails(p, g)
    PROVE  IInv'
<1> USE DEF IInv
<1>1. CASE Open(p)
    BY <1>1, FrameIInv DEF Open, TypeOK
<1>2. CASE ListBatch(p)
    <2>1. todo' \in [Providers -> SUBSET Groups]
        BY <1>2 DEF ListBatch, TypeOK, list_group_ids_with_message_secrets
    <2>2. CASE list_group_ids_with_message_secrets = {}
        BY <1>2, <2>1, <2>2, EmptyBatch, ToMarkIInv DEF ListBatch
    <2>3. CASE list_group_ids_with_message_secrets # {}
        BY <1>2, <2>1, <2>3, FrameIInv DEF ListBatch, TypeOK
    <2>4. QED
        BY <2>2, <2>3
<1>3. CASE CheckRemaining(p)
    BY <1>3, FrameIInv, ToMarkIInv DEF CheckRemaining, TypeOK
<1>4. CASE mark_legacy_message_secrets_migration_done(p)
    <2>1. ~has_legacy_message_secrets
        BY <1>4 DEF mark_legacy_message_secrets_migration_done, DoneIsFinal
    <2>2. TypeOK'
        BY <1>4 DEF mark_legacy_message_secrets_migration_done, TypeOK, Goto
    <2>3. DoneIsFinal'
        BY <1>4, <2>1 DEF mark_legacy_message_secrets_migration_done, DoneIsFinal,
            has_legacy_message_secrets, HasLegacy
    <2>4. RowidInv' /\ SecretsKept'
        BY <1>4 DEF mark_legacy_message_secrets_migration_done, RowidInv, SecretsKept, HasLegacy
    <2>5. QED
        BY <2>2, <2>3, <2>4
<1>5. CASE \E g \in Groups : migrate_group_epoch_message_secrets(p, g)
    BY <1>5, MigrateIInv
<1>6. CASE \E g \in Groups : MigrateCorrupt(p, g)
    BY <1>6, FrameIInv DEF MigrateCorrupt, Skip, TypeOK
<1>7. CASE Close(p)
    BY <1>7, FrameIInv DEF Close, TypeOK
<1>8. CASE MigrationFails(p)
    BY <1>8, FrameIInv DEF MigrationFails, TypeOK
<1>9. CASE Crash(p)
    BY <1>9, FrameIInv DEF Crash, TypeOK
<1>10. CASE \E g \in Groups : MigrateGroupFails(p, g)
    BY <1>10, FrameIInv DEF MigrateGroupFails, Skip, TypeOK
<1>11. QED
    BY <1>1, <1>2, <1>3, <1>4, <1>5, <1>6, <1>7, <1>8, <1>9, <1>10 DEF MigrationStep

-----------------------------------------------------------------------------
(* The operations of an open provider.                                     *)

\* A new group has one epoch row and no legacy row.
LEMMA CreateGroupIInv ==
    ASSUME IInv, NEW g \in Groups, CreateGroup(g)
    PROVE  IInv'
<1> USE DEF IInv, CreateGroup
<1>1. TypeOK'
    BY DEF TypeOK
<1>2. RowidInv' /\ DoneIsFinal'
    BY DEF RowidInv, DoneIsFinal, has_legacy_message_secrets, HasLegacy
<1>3. SecretsKept'
    <2>1. rows[g] = {} /\ legacy[g] = NoRow
        BY DEF SecretsKept, HasLegacy
    <2>2. rows' = [rows EXCEPT ![g] = {0}] /\ epoch' = [epoch EXCEPT ![g] = 0] /\ legacy' = legacy
        BY <2>1
    <2>3. ASSUME NEW h \in Groups, h # g
          PROVE  epoch'[h] = epoch[h] /\ rows'[h] = rows[h] /\ legacy'[h] = legacy[h]
        BY <2>2, <2>3 DEF TypeOK
    <2>4. epoch'[g] = 0 /\ rows'[g] = Retained(0) /\ legacy'[g] = NoRow
        BY <2>1, <2>2, RetainedType DEF TypeOK
    <2>5. QED
        BY <2>3, <2>4 DEF SecretsKept, HasLegacy, NoGroup
<1>4. QED
    BY <1>1, <1>2, <1>3

\* A commit merged in the legacy format keeps that format.
LEMMA MergeCommitLegacyIInv ==
    ASSUME IInv, NEW g \in Groups, MergeCommitLegacy(g)
    PROVE  IInv'
<1> USE DEF IInv, MergeCommitLegacy
<1>1. epoch[g] \in Nat
    BY DEF TypeOK, SecretsKept, NoGroup
<1>2. LegacyRow(nextrow, Retained(epoch[g] + 1)) \in [rowid : Nat, epochs : SUBSET Nat]
    BY <1>1, RetainedType DEF TypeOK, LegacyRow
<1>3. TypeOK'
    <2>1. legacy' \in [Groups -> [rowid : Nat, epochs : SUBSET Nat] \cup {NoRow}]
        BY <1>2 DEF TypeOK
    <2>2. epoch' \in [Groups -> Nat \cup {NoGroup}]
        BY <1>1 DEF TypeOK
    <2>3. QED
        BY <2>1, <2>2 DEF TypeOK
<1>4. RowidInv'
    BY DEF TypeOK, RowidInv, HasLegacy, LegacyRow
<1>5. DoneIsFinal'
    BY DEF TypeOK, DoneIsFinal, has_legacy_message_secrets
<1>6. SecretsKept'
    BY <1>1, RowTypes DEF TypeOK, SecretsKept, HasLegacy, LegacyRow, NoGroup
<1>7. QED
    BY <1>3, <1>4, <1>5, <1>6

\* A commit merged in the new format shifts the retention window by one.
LEMMA MergeCommitIInv ==
    ASSUME IInv, NEW g \in Groups, MergeCommit(g)
    PROVE  IInv'
<1> USE DEF IInv, MergeCommit
<1>1. epoch[g] \in Nat /\ rows[g] = Retained(epoch[g])
    BY DEF TypeOK, SecretsKept
<1>2. rows' = [rows EXCEPT ![g] = Retained(epoch[g] + 1)]
    BY <1>1, PruneWindow
<1>3. TypeOK'
    BY <1>1, <1>2, RetainedType DEF TypeOK
<1>4. RowidInv' /\ DoneIsFinal'
    BY DEF RowidInv, DoneIsFinal, has_legacy_message_secrets, HasLegacy
<1>5. SecretsKept'
    BY <1>1, <1>2 DEF TypeOK, SecretsKept, HasLegacy, NoGroup
<1>6. QED
    BY <1>3, <1>4, <1>5

\* Deletion leaves nothing of a group in either table.
LEMMA DeleteGroupIInv ==
    ASSUME IInv, NEW g \in Groups, DeleteGroup(g)
    PROVE  IInv'
<1> USE DEF IInv, DeleteGroup
<1>1. TypeOK'
    BY DEF TypeOK
<1>2. RowidInv' /\ DoneIsFinal'
    BY DEF TypeOK, RowidInv, DoneIsFinal, has_legacy_message_secrets, HasLegacy
<1>3. SecretsKept'
    BY DEF TypeOK, SecretsKept, HasLegacy, NoGroup
<1>4. QED
    BY <1>1, <1>2, <1>3

\* Every step keeps the invariant.
LEMMA NextIInv == IInv /\ [Next]_vars => IInv'
<1> SUFFICES ASSUME IInv, [Next]_vars PROVE IInv'
    OBVIOUS
<1>1. CASE UNCHANGED vars
    BY <1>1 DEF vars, IInv, TypeOK, RowidInv, SecretsKept, DoneIsFinal,
        has_legacy_message_secrets, HasLegacy
<1>2. CASE Next
    BY <1>2, ProviderIInv, CreateGroupIInv, MergeCommitLegacyIInv, MergeCommitIInv,
        DeleteGroupIInv DEF Next
<1>3. QED
    BY <1>1, <1>2

-----------------------------------------------------------------------------
\* IInv is an invariant of the migration, with any number of groups and of
\* providers that open the database, crash and use it concurrently.
THEOREM Inductive == Spec => []IInv
<1>1. QED
    BY InitIInv, NextIInv, PTL DEF Spec

\* The type invariant of the two tables, the flag and the providers' states.
THEOREM TypeCorrect == Spec => []TypeOK
<1>1. IInv => TypeOK
    BY DEF IInv
<1>2. QED
    BY Inductive, <1>1, PTL

\* replace_group_epoch_message_secrets with the deletion of the legacy row in
\* one transaction never loses, doubles or outdates a group's secrets.
THEOREM SecretsAreKept == Spec => []SecretsKept
<1>1. IInv => SecretsKept
    BY DEF IInv
<1>2. QED
    BY Inductive, <1>1, PTL

\* mark_legacy_message_secrets_migration_done leaves no legacy row behind.
THEOREM FlagIsFinal == Spec => []DoneIsFinal
<1>1. IInv => DoneIsFinal
    BY DEF IInv
<1>2. QED
    BY Inductive, <1>1, PTL
=============================================================================

--------------------------- MODULE EpochMigration ---------------------------
(***************************************************************************)
(* The move of message secrets from one legacy row per group to one row    *)
(* per group and epoch, which SqliteProvider::new_with_log continues       *)
(* every time a database is opened.                                        *)
(*                                                                         *)
(* A batch of the newest legacy rows is listed, each group is migrated in  *)
(* a transaction of its own, and a flag ends the migration for good once   *)
(* no legacy row is left.  Several providers, of several processes, may    *)
(* have the database open; a process may die between any two steps, and    *)
(* groups that another provider already serves are used meanwhile.         *)
(***************************************************************************)
EXTENDS Integers, FiniteSets

CONSTANTS
    Groups,         \* group ids
    Providers,      \* SqliteProvider instances over the same database file
    Corrupt,        \* groups whose legacy row does not decode
    BatchSize,      \* DEFAULT_MIGRATION_BATCH_SIZE
    MaxPastEpochs,  \* max_past_epochs of the group configuration
    MaxEpoch,       \* bound on the epochs of a group
    MaxFaults       \* bound on storage errors and on crashes while opening

ASSUME ConstantsAssumption ==
    /\ IsFiniteSet(Groups)
    /\ Corrupt \subseteq Groups
    /\ BatchSize \in Nat \ {0} /\ MaxPastEpochs \in Nat
    /\ MaxEpoch \in Nat /\ MaxFaults \in Nat

VARIABLES
    epoch,      \* the epoch in each group's context row, or NoGroup
    legacy,     \* the legacy message_secrets row of each group, or NoRow
    rows,       \* epochs with a row in openmls_group_epoch_message_secrets
    nextrow,    \* the next rowid of openmls_group_data
    done,       \* legacy_message_secrets_migration_done
    pc,         \* where each provider is in new_with_log
    todo,       \* the rest of the batch each provider has listed
    faults      \* faults so far

vars == <<epoch, legacy, rows, nextrow, done, pc, todo, faults>>

NoGroup == -1
NoRow == [norow |-> TRUE]
LegacyRow(rowid, epochs) == [rowid |-> rowid, epochs |-> epochs]

\* Wrong version: the subtraction does not saturate at epoch 0.
RetainedUnsaturated(n) == (n - MaxPastEpochs) .. n

\* The epochs whose secrets a group at epoch n keeps.
Retained(n) == {e \in 0 .. n : e >= n - MaxPastEpochs}

HasLegacy(g) == legacy[g] # NoRow

\* SELECT .. ORDER BY rowid DESC LIMIT ..: the newest legacy rows.
Newer(g) == {h \in Groups : HasLegacy(h) /\ legacy[h].rowid > legacy[g].rowid}

list_group_ids_with_message_secrets ==
    {g \in Groups : HasLegacy(g) /\ Cardinality(Newer(g)) < BatchSize}

has_legacy_message_secrets == \E g \in Groups : HasLegacy(g)

\* DELETE .. WHERE epoch < keep_from_epoch OR epoch > current_epoch.
prune_group_epoch_message_secrets(epochs, keep_from_epoch, current_epoch) ==
    {e \in epochs : ~(e < keep_from_epoch \/ e > current_epoch)}

-----------------------------------------------------------------------------
\* A database of a former version: some groups, all with legacy rows.
Init ==
    /\ \E old \in SUBSET Groups, rowid \in [Groups -> 1 .. Cardinality(Groups)] :
        /\ \A g, h \in Groups : rowid[g] = rowid[h] => g = h
        /\ epoch = [g \in Groups |-> IF g \in old THEN 0 ELSE NoGroup]
        /\ legacy = [g \in Groups |-> IF g \in old
                                      THEN LegacyRow(rowid[g], Retained(0)) ELSE NoRow]
    /\ rows = [g \in Groups |-> {}]
    /\ nextrow = Cardinality(Groups) + 1
    /\ done = FALSE
    /\ pc = [p \in Providers |-> "closed"]
    /\ todo = [p \in Providers |-> {}]
    /\ faults = 0

Goto(p, l) == pc' = [pc EXCEPT ![p] = l]

\* new_with_log: the flag decides whether there is anything to do.
Open(p) ==
    /\ pc[p] = "closed"
    /\ Goto(p, IF done THEN "open" ELSE "list")
    /\ UNCHANGED <<epoch, legacy, rows, nextrow, done, todo, faults>>

ListBatch(p) ==
    /\ pc[p] = "list"
    /\ todo' = [todo EXCEPT ![p] = list_group_ids_with_message_secrets]
    /\ Goto(p, IF list_group_ids_with_message_secrets = {} THEN "mark" ELSE "groups")
    /\ UNCHANGED <<epoch, legacy, rows, nextrow, done, faults>>

Skip(p, g) == todo' = [todo EXCEPT ![p] = @ \ {g}]

\* Wrong version: a group without legacy row is replaced by nothing.
MigrateAlways(p, g) ==
    /\ pc[p] = "groups" /\ g \in todo[p]
    /\ HasLegacy(g) => g \notin Corrupt
    /\ Skip(p, g)
    /\ rows' = [rows EXCEPT ![g] = IF HasLegacy(g) THEN legacy[g].epochs ELSE {}]
    /\ legacy' = [legacy EXCEPT ![g] = NoRow]
    /\ UNCHANGED <<epoch, nextrow, done, pc, faults>>

\* One group's transaction: without a legacy row nothing is exported and
\* nothing changes, otherwise the epoch rows are replaced by what the legacy
\* row holds and that row is deleted.
migrate_group_epoch_message_secrets(p, g) ==
    /\ pc[p] = "groups" /\ g \in todo[p]
    /\ HasLegacy(g) => g \notin Corrupt
    /\ Skip(p, g)
    /\ IF HasLegacy(g)
       THEN /\ rows' = [rows EXCEPT ![g] = legacy[g].epochs]
            /\ legacy' = [legacy EXCEPT ![g] = NoRow]
       ELSE UNCHANGED <<rows, legacy>>
    /\ UNCHANGED <<epoch, nextrow, done, pc, faults>>

\* Wrong version: the first undecodable row ends the batch.
AbortBatch(p, g) ==
    /\ pc[p] = "groups" /\ g \in todo[p]
    /\ HasLegacy(g) /\ g \in Corrupt
    /\ todo' = [todo EXCEPT ![p] = {}]
    /\ Goto(p, "open")
    /\ UNCHANGED <<epoch, legacy, rows, nextrow, done, faults>>

\* The row does not decode: the transaction rolls back, the loop goes on.
MigrateCorrupt(p, g) ==
    /\ pc[p] = "groups" /\ g \in todo[p]
    /\ HasLegacy(g) /\ g \in Corrupt
    /\ Skip(p, g)
    /\ UNCHANGED <<epoch, legacy, rows, nextrow, done, pc, faults>>

\* Wrong version: the end of one batch is taken for the end of all.
MarkAfterBatch(p) ==
    /\ pc[p] = "groups" /\ todo[p] = {}
    /\ Goto(p, "mark")
    /\ UNCHANGED <<epoch, legacy, rows, nextrow, done, todo, faults>>

\* !has_legacy_message_secrets(): all groups of all batches are migrated.
CheckRemaining(p) ==
    /\ pc[p] = "groups" /\ todo[p] = {}
    /\ Goto(p, IF has_legacy_message_secrets THEN "open" ELSE "mark")
    /\ UNCHANGED <<epoch, legacy, rows, nextrow, done, todo, faults>>

mark_legacy_message_secrets_migration_done(p) ==
    /\ pc[p] = "mark"
    /\ done' = TRUE
    /\ Goto(p, "open")
    /\ UNCHANGED <<epoch, legacy, rows, nextrow, todo, faults>>

\* A storage error ends the migration, is logged, and the provider opens.
MigrationFails(p) ==
    /\ pc[p] \in {"list", "mark"} \/ (pc[p] = "groups" /\ todo[p] = {})
    /\ faults < MaxFaults
    /\ faults' = faults + 1
    /\ Goto(p, "open")
    /\ UNCHANGED <<epoch, legacy, rows, nextrow, done, todo>>

\* One group's transaction meets another writer, or fails otherwise.
MigrateGroupFails(p, g) ==
    /\ pc[p] = "groups" /\ g \in todo[p] /\ faults < MaxFaults
    /\ faults' = faults + 1
    /\ Skip(p, g)
    /\ UNCHANGED <<epoch, legacy, rows, nextrow, done, pc>>

Crash(p) ==
    /\ pc[p] \in {"list", "groups", "mark"} /\ faults < MaxFaults
    /\ faults' = faults + 1
    /\ Goto(p, "closed")
    /\ todo' = [todo EXCEPT ![p] = {}]
    /\ UNCHANGED <<epoch, legacy, rows, nextrow, done>>

Close(p) ==
    /\ pc[p] = "open"
    /\ Goto(p, "closed")
    /\ UNCHANGED <<epoch, legacy, rows, nextrow, done, todo, faults>>

-----------------------------------------------------------------------------
(* Operations of an open provider, each one transaction.                   *)

InUse == \E p \in Providers : pc[p] = "open"

\* New groups are written in the new format only.
CreateGroup(g) ==
    /\ InUse /\ epoch[g] = NoGroup
    /\ epoch' = [epoch EXCEPT ![g] = 0]
    /\ rows' = [rows EXCEPT ![g] = @ \cup {0}]
    /\ UNCHANGED <<legacy, nextrow, done, pc, todo, faults>>

\* A commit is merged in a group whose legacy row is still there: OpenMLS
\* falls back to that row, and INSERT OR REPLACE gives it a new rowid.
MergeCommitLegacy(g) ==
    /\ InUse /\ HasLegacy(g) /\ g \notin Corrupt /\ epoch[g] < MaxEpoch
    /\ epoch' = [epoch EXCEPT ![g] = @ + 1]
    /\ legacy' = [legacy EXCEPT ![g] = LegacyRow(nextrow, Retained(epoch[g] + 1))]
    /\ nextrow' = nextrow + 1
    /\ UNCHANGED <<rows, done, pc, todo, faults>>

\* A commit is merged in a migrated group: the row of the new epoch is
\* written and the rows outside the retention window are pruned.
MergeCommit(g) ==
    /\ InUse /\ ~HasLegacy(g) /\ epoch[g] # NoGroup /\ epoch[g] < MaxEpoch
    /\ epoch' = [epoch EXCEPT ![g] = @ + 1]
    /\ rows' = [rows EXCEPT ![g] = prune_group_epoch_message_secrets(
                    @ \cup {epoch[g] + 1}, epoch[g] + 1 - MaxPastEpochs, epoch[g] + 1)]
    /\ UNCHANGED <<legacy, nextrow, done, pc, todo, faults>>

\* delete_group_by_id works without decoding, on corrupt groups too.
DeleteGroup(g) ==
    /\ InUse /\ epoch[g] # NoGroup
    /\ epoch' = [epoch EXCEPT ![g] = NoGroup]
    /\ legacy' = [legacy EXCEPT ![g] = NoRow]
    /\ rows' = [rows EXCEPT ![g] = {}]
    /\ UNCHANGED <<nextrow, done, pc, todo, faults>>

MigrationStep(p) ==
    \/ ListBatch(p) \/ CheckRemaining(p)
    \/ mark_legacy_message_secrets_migration_done(p)
    \/ \E g \in Groups : migrate_group_epoch_message_secrets(p, g) \/ MigrateCorrupt(p, g)

Next ==
    \/ \E p \in Providers :
        \/ Open(p) \/ MigrationStep(p) \/ Close(p)
        \/ MigrationFails(p) \/ Crash(p)
        \/ \E g \in Groups : MigrateGroupFails(p, g)
    \/ \E g \in Groups :
        CreateGroup(g) \/ MergeCommitLegacy(g) \/ MergeCommit(g) \/ DeleteGroup(g)

Spec == Init /\ [][Next]_vars

-----------------------------------------------------------------------------
\* Every variable keeps the shape the code gives it.
TypeOK ==
    /\ epoch \in [Groups -> Nat \cup {NoGroup}]
    /\ legacy \in [Groups -> [rowid : Nat, epochs : SUBSET Nat] \cup {NoRow}]
    /\ rows \in [Groups -> SUBSET Nat]
    /\ nextrow \in Nat
    /\ done \in BOOLEAN
    /\ pc \in [Providers -> {"closed", "list", "groups", "mark", "open"}]
    /\ todo \in [Providers -> SUBSET Groups]
    /\ faults \in Nat

\* The secrets of exactly the retained epochs of every group are stored, in
\* one of the two formats and never in both: no crash between two groups, no
\* second provider working through the same batch, and no commit merged in
\* between loses them, doubles them or brings back an outdated snapshot.
SecretsKept ==
    \A g \in Groups :
        IF epoch[g] = NoGroup THEN ~HasLegacy(g) /\ rows[g] = {}
        ELSE IF HasLegacy(g) THEN legacy[g].epochs = Retained(epoch[g]) /\ rows[g] = {}
        ELSE rows[g] = Retained(epoch[g])

\* The flag that ends the migration for good is only ever set, and a provider
\* only ever about to set it, when no legacy row is left behind.
DoneIsFinal ==
    done \/ (\E p \in Providers : pc[p] = "mark") => ~has_legacy_message_secrets

\* Rowids are handed out in increasing order.
RowidInv == \A g \in Groups : HasLegacy(g) => legacy[g].rowid < nextrow

\* The inductive invariant of the proofs.
IInv == TypeOK /\ RowidInv /\ SecretsKept /\ DoneIsFinal

-----------------------------------------------------------------------------
\* The application is started again and again; opening runs to its end.
Fairness ==
    \A p \in Providers : WF_vars(Open(p)) /\ WF_vars(MigrationStep(p)) /\ WF_vars(Close(p))

FairSpec == Spec /\ Fairness

\* As long as the undecodable rows do not fill a batch, every other group is
\* migrated in the end, and the flag is set when no row remains.
Migrated ==
    Cardinality(Corrupt) < BatchSize =>
        /\ <>[](\A g \in Groups \ Corrupt : ~HasLegacy(g))
        /\ <>[](done \/ has_legacy_message_secrets)
=============================================================================

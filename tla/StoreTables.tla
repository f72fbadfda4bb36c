----------------------------- MODULE StoreTables -----------------------------
(***************************************************************************)
(* The tables of the MLS database and the statements of the storage        *)
(* provider, as far as they change rows.                                   *)
(*                                                                         *)
(* A row is known by its key and by the operation that wrote it: gen       *)
(* counts the operations on a group, and an operation writes its number    *)
(* into every row.  Two operations that start from the same state          *)
(* therefore write the same number, and a lost one shows.                  *)
(***************************************************************************)
EXTENDS Integers, Sequences, FiniteSets, SequencesExt

CONSTANTS
    Groups,
    MaxGen      \* bound on the operations on one group

ASSUME GenAssumption == MaxGen \in Nat

\* The group-scoped tables, in the order delete_group_by_id goes through them.
TableOrder ==
    <<"group_data", "epoch_keys_pairs", "own_leaf_nodes", "proposals",
      "group_epoch_message_secrets", "decrypted_application_messages">>
GroupTables == ToSet(TableOrder)

\* The group-scoped rows, and is the account's key package stored.
Empty ==
    [rows |-> [g \in Groups |-> [t \in GroupTables |-> {}]],
     gen |-> [g \in Groups |-> 0],
     key_package |-> FALSE]

Statement(kind, table, key) == [kind |-> kind, table |-> table, key |-> key]

-----------------------------------------------------------------------------
(* The statements.                                                         *)

write_group_data(data_type) == Statement("replace", "group_data", data_type)
delete_group_data(data_type) == Statement("delete", "group_data", data_type)
append_own_leaf_node == Statement("append", "own_leaf_nodes", "id")
delete_own_leaf_nodes == Statement("clear", "own_leaf_nodes", "all")
queue_proposal(proposal_ref) == Statement("ignore", "proposals", proposal_ref)
clear_proposal_queue == Statement("clear", "proposals", "all")
write_encryption_epoch_key_pairs == Statement("replace", "epoch_keys_pairs", "epoch")
delete_encryption_epoch_key_pairs == Statement("delete", "epoch_keys_pairs", "epoch")
write_group_epoch_message_secrets ==
    Statement("replace", "group_epoch_message_secrets", "epoch")
delete_group_epoch_message_secrets ==
    Statement("clear", "group_epoch_message_secrets", "all")
\* The row of a message id that is new; DecryptWal has the others.
insert_decrypted_application_message ==
    Statement("append", "decrypted_application_messages", "message")
delete_key_package == Statement("take", "key_packages", "ref")
delete_from(table) == Statement("clear", table, "all")

Keyed(rows, key) == {r \in rows : r[1] = key}

\* A table's rows for one group after statement s, which writes v.
Execute(rows, s, v) ==
    CASE s.kind = "replace" -> (rows \ Keyed(rows, s.key)) \cup {<<s.key, v>>}
      [] s.kind = "ignore" ->
            IF Keyed(rows, s.key) = {} THEN rows \cup {<<s.key, v>>} ELSE rows
      [] s.kind = "append" -> rows \cup {<<Cardinality(rows) + 1, v>>}
      [] s.kind = "delete" -> rows \ Keyed(rows, s.key)
      [] s.kind = "clear" -> {}

\* Database d after statement s of the next operation on group g.
Apply(d, g, s) ==
    IF s.table = "key_packages" THEN [d EXCEPT !.key_package = FALSE]
    ELSE [d EXCEPT !.rows[g][s.table] = Execute(@, s, d.gen[g] + 1)]

\* The rows of one table that a group load reads.
Select(d, g, table) == d.rows[g][table]

\* write_key_package
Stored(d) == [d EXCEPT !.key_package = TRUE]

\* MlsGroup::load finds a group if its context is stored.
Exists(d, g) == Keyed(d.rows[g]["group_data"], "context") # {}

-----------------------------------------------------------------------------
(* What OpenMLS writes in one operation.                                   *)

NewEpoch ==
    <<write_group_data("context"), write_group_data("group_state"),
      write_encryption_epoch_key_pairs, write_group_epoch_message_secrets>>

Program(op) ==
    CASE op = "create" -> NewEpoch
      [] op = "join" -> NewEpoch \o <<delete_key_package>>
      [] op = "propose" -> <<queue_proposal("ref")>>
      [] op = "commit" -> <<append_own_leaf_node, write_group_data("group_state")>>
      [] op = "merge" -> NewEpoch \o <<clear_proposal_queue, delete_own_leaf_nodes>>
      [] op = "decrypt" ->
            <<write_group_epoch_message_secrets, insert_decrypted_application_message>>
      [] op = "forget" ->
            <<delete_group_data("context"), delete_group_data("group_state"),
              delete_own_leaf_nodes, clear_proposal_queue,
              delete_encryption_epoch_key_pairs, delete_group_epoch_message_secrets>>
      [] op = "delete" -> [i \in DOMAIN TableOrder |-> delete_from(TableOrder[i])]

\* Operations that start by loading the group, and those that need not.
GroupOps == {"propose", "commit", "merge", "decrypt", "forget"}
WriteOps == GroupOps \cup {"create", "join", "delete"}

\* The database after the first i statements of a program on group g.
Run(d, g, program) ==
    LET after[i \in 0 .. Len(program)] ==
            IF i = 0 THEN d ELSE Apply(after[i - 1], g, program[i])
    IN  after

\* The whole operation at once.
Result(d, g, op) ==
    [Run(d, g, Program(op))[Len(Program(op))] EXCEPT !.gen[g] = @ + 1]
=============================================================================

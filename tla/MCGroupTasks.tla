---------------------------- MODULE MCGroupTasks ----------------------------
(* Two workers: one for what the application does, one for the rest.       *)
EXTENDS GroupTasks

CONSTANT MaxRaces   \* kinds of interference after which a behaviour is not followed

FewRaces == Cardinality(races) <= MaxRaces

\* The batch after a reconnect, and live calls.
BatchLane ==
    [w \in {"app", "sync"} |->
        CASE w = "app" ->
                {"create_group", "batch_join_by_external_commit", "remove_members",
                 "update_leaf_node", "merge_pending_commit", "clear_pending_commit",
                 "delete_group", "process_operation_message",
                 "group_epochs", "group_context"}
          [] w = "sync" -> {"process_all_messages"}]

\* Live calls on both sides.
LiveLane ==
    [w \in {"app", "sync"} |->
        CASE w = "app" ->
                {"create_group", "join_by_external_commit", "add_members", "readd",
                 "merge_pending_commit", "clear_pending_commit", "clear_pending_proposals",
                 "encrypt_message"}
          [] w = "sync" ->
                {"process_operation_message", "process_many_operation_messages",
                 "process_application_message", "process_proposal_message", "leave_group",
                 "update_group_config", "process_welcome", "encrypt_message", "group_epoch", "group_contexts"}]
=============================================================================

----------------------------- MODULE GroupTasks -----------------------------
(***************************************************************************)
(* The Node bindings: every exported method of UqMls hands a task to the   *)
(* libuv thread pool, and tasks on the same group run side by side without *)
(* a lock of the SDK's own.  GroupSync has one call at a time, with        *)
(* crashes and lost answers; this module has several calls at a time and   *)
(* none of those.                                                          *)
(*                                                                         *)
(* A task is a transaction on the MLS database, before and after which it  *)
(* may read or write the row of the group-status database: two databases,  *)
(* and no transaction over both.  By GroupStore a transaction either takes *)
(* effect on the state it has read or fails.  process_all_messages alone   *)
(* keeps a group in memory from one transaction to the next.               *)
(*                                                                         *)
(* A group is the sequence of commits that led to it, the first of which   *)
(* stands for its creation.                                                *)
(***************************************************************************)
EXTENDS Integers, Sequences, FiniteSets, SequencesExt

CONSTANTS
    Workers,    \* threads of the pool
    Lane,       \* the tasks a worker may run
    MaxEpoch,   \* bound on the server's sequence for other members' commits
    MaxOwn,     \* bound on the groups and commits this client creates
    MaxSent     \* bound on the messages sent in one epoch

ASSUME TasksAssumption ==
    /\ MaxEpoch \in Nat /\ MaxOwn \in Nat /\ MaxSent \in Nat
    /\ \A w \in Workers : Lane[w] \subseteq STRING

VARIABLES
    server,     \* the commits the server has accepted
    mls,        \* the stored group, or Absent
    keys,       \* the epochs (as groups) whose key pairs are stored
    status,     \* the row of group_statuses
    opened,     \* positions of Welcomes whose key package has been used
    job,        \* what each worker is doing
    requests,   \* commits handed to the network
    answers,    \* the server's answers, not yet settled
    own,        \* counter that makes this client's commits distinct
    used,       \* history: epoch and generation of every message sent
    twice,      \* history: some message repeated an epoch and generation
    races       \* history: the kinds of interference that have happened

vars == <<server, mls, keys, status, opened, job, requests, answers, own,
          used, twice, races>>

Absent == [absent |-> TRUE]
NoCommit == [by |-> "nobody", n |-> 0, adds |-> FALSE]
Own(n) == [by |-> "self", n |-> n, adds |-> FALSE]
Peer(n, adds) == [by |-> "peer", n |-> n, adds |-> adds]

CreateGroup == "create_group"
JoinByExternalCommit == "join_by_external_commit"
UpdateTree == "update_tree"
OpNone == "none"
GroupPendingOperation == {CreateGroup, JoinByExternalCommit, UpdateTree, OpNone}

\* sent counts the messages of this epoch: it is the generation of the next.
MlsGroup(hist, pending, sent) == [hist |-> hist, pending |-> pending, sent |-> sent]

NewGroup(hist) == MlsGroup(hist, NoCommit, 0)
Epoch(g) == Len(g.hist) - 1

SelfIsMember == \E i \in DOMAIN server : server[i].by = "self" \/ server[i].adds

Settled == requests = {} /\ answers = {}

-----------------------------------------------------------------------------
(* The operations of uq-openmls on a loaded group.  Each gives the set of  *)
(* its results; none means that it fails.                                  *)

Result(g, commit) == {[group |-> g, commit |-> commit]}
Unchanged(g) == IF g = Absent THEN {} ELSE Result(g, NoCommit)

\* OpenMLS makes a commit only while none is pending.
StageCommit(g) ==
    IF g = Absent \/ own = MaxOwn THEN {}
    ELSE IF g.pending # NoCommit THEN {}
    ELSE Result([g EXCEPT !.pending = Own(own + 1)], Own(own + 1))

add_members(g) == StageCommit(g)
remove_members(g) == StageCommit(g)
update_leaf_node(g) == StageCommit(g)
readd(g) == StageCommit(g)

merge_pending_commit(g) ==
    IF g = Absent THEN {}
    ELSE IF g.pending = NoCommit THEN Result(g, NoCommit)
    ELSE Result(NewGroup(Append(g.hist, g.pending)), NoCommit)

clear_pending_commit(g) ==
    IF g = Absent THEN {} ELSE Result([g EXCEPT !.pending = NoCommit], NoCommit)

\* The queue of proposals is not in the model: a pending commit stays.
clear_pending_proposals(g) == Unchanged(g)
leave_group(g) == Unchanged(g)
update_group_config(g) == Unchanged(g)
process_application_message(g) == Unchanged(g)
process_proposal_message(g) == Unchanged(g)

create_group == IF own = MaxOwn THEN {} ELSE Result(NewGroup(<<Own(own + 1)>>), NoCommit)

\* The membership check is on the server's group, not on a stored one.
join_by_external_commit ==
    IF server = <<>> \/ SelfIsMember \/ own = MaxOwn THEN {}
    ELSE Result(NewGroup(Append(server, Own(own + 1))), Own(own + 1))

encrypt_message(g) ==
    IF g = Absent THEN {}
    ELSE IF g.sent = MaxSent THEN {}
    ELSE Result([g EXCEPT !.sent = @ + 1], NoCommit)

\* Commit i applies to the state it was made for; its path is decrypted with
\* that epoch's stored key pairs.  One that re-adds this client does not apply.
Applies(g, ks, i) ==
    /\ g.hist = SubSeq(server, 1, i - 1) /\ g.hist \in ks
    /\ server[i].by = "peer" /\ ~server[i].adds

ProcessCommit(g, ks, i) ==
    IF g # Absent /\ Applies(g, ks, i) THEN Result(NewGroup(Append(g.hist, server[i])), NoCommit)
    ELSE {}

process_operation_message(g, ks) == UNION {ProcessCommit(g, ks, i) : i \in DOMAIN server}

\* One or two commits in one transaction: all or none.
process_many_operation_messages(g, ks) ==
    LET first == process_operation_message(g, ks)
    IN  first \cup UNION {process_operation_message(r.group, {r.group.hist}) : r \in first}

\* A proposal of another member is stored and committed to at once.
commit_to_proposal(g) == StageCommit(g)

\* The Welcome at position i.
process_welcome(i) == Result(NewGroup(SubSeq(server, 1, i)), NoCommit)
Welcomes == {i \in DOMAIN server : server[i].adds} \ opened

-----------------------------------------------------------------------------
(* The key pairs of an epoch.                                              *)

\* Wrong version: the statement does not find the row.
KeepEpochKeyPairs(ks, g) == ks

delete_encryption_epoch_key_pairs(ks, g) == IF g = Absent THEN ks ELSE ks \ {g.hist}

write_encryption_epoch_key_pairs(ks, g) == ks \cup {g.hist}

\* A merged commit replaces the key pairs of its epoch.
NextEpochKeys(ks, old, new) ==
    IF old.hist = new.hist THEN ks
    ELSE write_encryption_epoch_key_pairs(delete_encryption_epoch_key_pairs(ks, old), new)

-----------------------------------------------------------------------------
(* Jobs.  A task's name is that of the exported method.                    *)

OwnOperations ==
    {"create_group", "join_by_external_commit", "batch_join_by_external_commit",
     "add_members", "remove_members", "update_leaf_node", "readd"}
Messages ==
    {"encrypt_message", "process_operation_message", "process_many_operation_messages",
     "process_application_message", "process_proposal_message", "process_welcome",
     "leave_group", "update_group_config"}
Queries == {"group_epoch", "group_epochs", "group_context", "group_contexts"}

Idle == [task |-> "idle", pc |-> "idle", view |-> Absent, op |-> OpNone, mem |-> Absent,
         pos |-> 0, end |-> 0, loaded |-> FALSE, plan |-> "keep", result |-> {},
         seen |-> {}]

At(w, pc) == job[w].pc = pc
View(w) == job[w].view
Working(w, task) == At(w, "work") /\ job[w].task = task
Goto(w, pc) == job' = [job EXCEPT ![w].pc = pc]
Return(w) == job' = [job EXCEPT ![w] = Idle]

\* What every step but those of the MLS database leaves alone.
KeepsData == UNCHANGED <<server, mls, keys, opened, answers, own, used, twice>>
KeepsAll == KeepsData /\ UNCHANGED <<status, requests, races>>

Init ==
    /\ server = <<>>
    /\ mls = Absent
    /\ keys = {}
    /\ status = OpNone
    /\ opened = {}
    /\ job = [w \in Workers |-> Idle]
    /\ requests = {}
    /\ answers = {}
    /\ own = 0
    /\ used = {}
    /\ twice = FALSE
    /\ races = {}

\* An exported method: AsyncTask::new(..), and a thread takes it up.
Start(w, task, pc) ==
    /\ At(w, "idle") /\ task \in Lane[w]
    /\ job' = [job EXCEPT ![w] = [Idle EXCEPT !.task = task, !.pc = pc]]
    /\ KeepsAll

\* The first read of a transaction fixes its snapshot.
StartTransaction(w, task) ==
    /\ At(w, "idle") /\ task \in Lane[w]
    /\ job' = [job EXCEPT ![w] = [Idle EXCEPT !.task = task, !.pc = "work", !.view = mls]]
    /\ KeepsAll

\* The application starts an operation of its own only when the one before is
\* settled, and settles what the server has answered.
SubmitCreate(w) == Settled /\ Start(w, "create_group", "check")

SubmitReadd(w) == Settled /\ Start(w, "readd", "status")

SubmitOperation(w, task) ==
    /\ task \in OwnOperations \ {"create_group", "readd"} /\ Settled
    /\ StartTransaction(w, task)

SubmitSettlement(w, task) ==
    /\ \/ task = "merge_pending_commit" /\ \E a \in answers : a.ok
       \/ task = "clear_pending_commit" /\ \E a \in answers : ~a.ok /\ a.kind = "update"
       \/ task = "clear_pending_proposals"
       \/ task = "delete_group" /\ (Settled \/ \E a \in answers : ~a.ok /\ a.kind # "update")
    /\ StartTransaction(w, task)

SubmitMessage(w, task) == task \in Messages /\ StartTransaction(w, task)

SubmitQuery(w, task) == task \in Queries /\ Start(w, task, "status")

\* The batch is what the server had when it was fetched.
SubmitBatch(w) ==
    /\ At(w, "idle") /\ "process_all_messages" \in Lane[w] /\ server # <<>>
    /\ job' = [job EXCEPT ![w] = [Idle EXCEPT !.task = "process_all_messages", !.pc = "load",
                                              !.pos = 2, !.end = Len(server)]]
    /\ KeepsAll

-----------------------------------------------------------------------------
(* Transactions.                                                           *)

\* Wrong version: the statements go to the pool, each in a transaction of its own.
AnySnapshot(w) == TRUE

\* SQLite lets a transaction write only on the newest snapshot.
SnapshotIsCurrent(w) == View(w) = mls

\* The request that the application sends when the task returns its commit.
Requests(g, commit, join) ==
    IF commit = NoCommit THEN {}
    ELSE {[kind |-> IF join THEN "join" ELSE IF Len(g.hist) = 1 THEN "create" ELSE "update",
           base |-> IF join THEN Front(g.hist) ELSE g.hist,
           commit |-> commit]}

\* provider.transaction(..) on the group it has loaded.
Transaction(w, results) ==
    /\ SnapshotIsCurrent(w)
    /\ \E r \in results :
        /\ mls' = r.group
        /\ keys' = NextEpochKeys(keys, View(w), r.group)
        /\ own' = IF r.commit = NoCommit THEN own ELSE r.commit.n
    /\ UNCHANGED <<server, status, opened, used, twice>>

\* One that stores a group of its own making, whatever is stored.
Replacement(w, results) ==
    /\ SnapshotIsCurrent(w)
    /\ \E r \in results :
        /\ mls' = r.group
        /\ keys' = write_encryption_epoch_key_pairs(keys, r.group)
    /\ races' = IF mls = Absent THEN races ELSE races \cup {"replaced"}
    /\ UNCHANGED <<server, status, answers, used, twice>>

\* The task goes on to the status row, with the commit it will return.
ThenRecord(w, join) ==
    /\ job' = [job EXCEPT ![w] = [Idle EXCEPT !.task = job[w].task, !.pc = "record",
                  !.result = Requests(mls', IF own' = own THEN NoCommit ELSE Own(own'), join)]]
    /\ UNCHANGED requests

\* It returns its result to the application at once.
ThenReturn(w) == Return(w) /\ UNCHANGED requests

\* SQLITE_BUSY, an expired key package, a missing group, no pooled connection:
\* the promise is rejected and the database is as it was.
TaskFails(w) ==
    /\ At(w, "begin") \/ At(w, "work")
    /\ Return(w)
    /\ KeepsAll

-----------------------------------------------------------------------------
(* Tasks that start an operation.                                          *)

\* Wrong version: the group is not looked for.
CheckNothing(w) ==
    /\ At(w, "check")
    /\ job' = [job EXCEPT ![w].pc = "begin", ![w].seen = opened]
    /\ KeepsAll

\* CreateGroupTask: load_group(..).is_ok()
CheckAbsent(w) ==
    /\ At(w, "check")
    /\ IF mls = Absent THEN job' = [job EXCEPT ![w].pc = "begin", ![w].seen = opened]
       ELSE Return(w)
    /\ KeepsAll

\* The transaction that follows a check.
Begin(w) ==
    /\ At(w, "begin")
    /\ job' = [job EXCEPT ![w].pc = "work", ![w].view = mls]
    /\ KeepsAll

CreateGroupTask(w) ==
    /\ Working(w, "create_group")
    /\ Replacement(w, create_group)
    /\ own' = own + 1
    /\ job' = [job EXCEPT ![w] = [Idle EXCEPT !.task = "create_group", !.pc = "record"]]
    /\ UNCHANGED <<opened, requests>>

ExternalCommit(w) ==
    /\ Replacement(w, join_by_external_commit)
    /\ own' = own + 1
    /\ ThenRecord(w, TRUE)
    /\ UNCHANGED opened

JoinByExternalCommitTask(w) ==
    Working(w, "join_by_external_commit") /\ ExternalCommit(w)

\* The element of the batch that is about this group.
BatchJoinByExternalCommitTask(w) ==
    Working(w, "batch_join_by_external_commit") /\ ExternalCommit(w)

Stages(w, results) ==
    /\ Transaction(w, results)
    /\ ThenRecord(w, FALSE)
    /\ UNCHANGED <<answers, races>>

AddMembersTask(w) == Working(w, "add_members") /\ Stages(w, add_members(View(w)))

RemoveMembersTask(w) == Working(w, "remove_members") /\ Stages(w, remove_members(View(w)))

UpdateLeafNodeTask(w) == Working(w, "update_leaf_node") /\ Stages(w, update_leaf_node(View(w)))

ReaddTask(w) == Working(w, "readd") /\ Stages(w, readd(View(w)))

\* ReaddTask refuses to start over another operation, before its transaction.
ReaddChecks(w) ==
    /\ At(w, "status") /\ job[w].task = "readd"
    /\ IF status = OpNone THEN Goto(w, "begin") ELSE Return(w)
    /\ KeepsAll

-----------------------------------------------------------------------------
(* Tasks that end one.                                                     *)

Ends(w, results) ==
    /\ Transaction(w, results)
    /\ ThenRecord(w, FALSE)

MergePendingCommitTask(w) ==
    /\ Working(w, "merge_pending_commit")
    /\ Ends(w, merge_pending_commit(View(w)))
    /\ answers' = {a \in answers : ~a.ok}
    /\ UNCHANGED races

ClearPendingCommitTask(w) ==
    /\ Working(w, "clear_pending_commit")
    /\ Ends(w, clear_pending_commit(View(w)))
    /\ answers' = {a \in answers : a.ok \/ a.kind # "update"}
    /\ UNCHANGED races

\* The row is reset although an operation may be unsettled.
ClearPendingProposalsTask(w) ==
    /\ Working(w, "clear_pending_proposals")
    /\ Ends(w, clear_pending_proposals(View(w)))
    /\ races' = races \cup {r \in {"cleared"} : View(w).pending # NoCommit \/ ~Settled}
    /\ UNCHANGED answers

\* All rows of the group, then the status row.
DeleteGroupTask(w) ==
    /\ Working(w, "delete_group")
    /\ mls' = Absent
    /\ keys' = {}
    /\ answers' = {}
    /\ job' = [job EXCEPT ![w] = [Idle EXCEPT !.task = "delete_group", !.pc = "record"]]
    /\ UNCHANGED <<server, status, opened, requests, own, used, twice, races>>

\* The row that a task leaves behind.
StatusAfter(task) ==
    CASE task = "create_group" -> CreateGroup
      [] task \in {"join_by_external_commit", "batch_join_by_external_commit"} ->
            JoinByExternalCommit
      [] task \in {"add_members", "remove_members", "update_leaf_node", "readd"} -> UpdateTree
      [] OTHER -> OpNone

\* Wrong version: AddMembersTask leaves every row alone.
RecordUnlessAdd(w) ==
    /\ At(w, "record")
    /\ status' = IF job[w].task = "add_members" THEN status ELSE StatusAfter(job[w].task)
    /\ requests' = requests \cup job[w].result
    /\ Return(w)
    /\ KeepsData /\ UNCHANGED races

\* let _ = insert_or_update_group_status(..); AddMembersTask looks first and
\* leaves another operation's row alone.
Record(w) ==
    /\ At(w, "record")
    /\ status' = IF job[w].task = "add_members" /\ status # OpNone THEN status
                 ELSE StatusAfter(job[w].task)
    /\ requests' = requests \cup job[w].result
    /\ Return(w)
    /\ KeepsData /\ UNCHANGED races

-----------------------------------------------------------------------------
(* Tasks that leave the status row alone.                                  *)

EncryptMessageTask(w) ==
    /\ Working(w, "encrypt_message")
    /\ SnapshotIsCurrent(w)
    /\ \E r \in encrypt_message(View(w)) : mls' = r.group
    /\ LET generation == <<View(w).hist, View(w).sent>>
       IN  used' = used \cup {generation} /\ twice' = (twice \/ generation \in used)
    /\ ThenReturn(w)
    /\ UNCHANGED <<server, keys, status, opened, answers, own, races>>

Receives(w, results) ==
    /\ Transaction(w, results)
    /\ ThenReturn(w)
    /\ UNCHANGED <<answers, races>>

\* A commit of another member.
ProcessOperationMessageTask(w) ==
    /\ Working(w, "process_operation_message")
    /\ Receives(w, process_operation_message(View(w), keys))

\* A proposal of another member: the commit to it is returned, and no row is
\* written for it.
CommitToProposal(w) ==
    /\ Working(w, "process_operation_message")
    /\ Transaction(w, commit_to_proposal(View(w)))
    /\ Return(w)
    /\ requests' = requests \cup Requests(mls', Own(own'), FALSE)
    /\ races' = races \cup {"proposal"}
    /\ UNCHANGED answers

ProcessManyOperationMessagesTask(w) ==
    /\ Working(w, "process_many_operation_messages")
    /\ Receives(w, process_many_operation_messages(View(w), keys))

ProcessApplicationMessageTask(w) ==
    /\ Working(w, "process_application_message")
    /\ Receives(w, process_application_message(View(w)))

ProcessProposalMessageTask(w) ==
    /\ Working(w, "process_proposal_message")
    /\ Receives(w, process_proposal_message(View(w)))

LeaveGroupTask(w) == Working(w, "leave_group") /\ Receives(w, leave_group(View(w)))

UpdateGroupConfigTask(w) ==
    Working(w, "update_group_config") /\ Receives(w, update_group_config(View(w)))

ProcessWelcomeTask(w) ==
    /\ Working(w, "process_welcome")
    /\ \E i \in Welcomes :
        Replacement(w, process_welcome(i)) /\ opened' = opened \cup {i}
    /\ ThenReturn(w)
    /\ UNCHANGED own

-----------------------------------------------------------------------------
(* Queries: the status row first, then the group.  The two reads are of    *)
(* two databases.                                                          *)

ReadStatus(w) ==
    /\ At(w, "status") /\ job[w].task \in Queries
    /\ job' = [job EXCEPT ![w].pc = "context", ![w].op = status]
    /\ KeepsAll

\* Wrong version: the row is not looked at.
StoredEpoch(op, epoch) == epoch

\* An unsettled join counts for one epoch less; saturating_sub
PendingEpoch(op, epoch) ==
    IF op = JoinByExternalCommit /\ epoch > 0 THEN epoch - 1 ELSE epoch

\* The result, with -1 for a group that cannot be read.
Answers(w, result) ==
    /\ At(w, "context")
    /\ job' = [job EXCEPT ![w].pc = "answer", ![w].pos = result]
    /\ KeepsAll

PendingEpochOf(w) == IF mls = Absent THEN -1 ELSE PendingEpoch(job[w].op, Epoch(mls))

GroupEpochTask(w) == job[w].task = "group_epoch" /\ Answers(w, PendingEpochOf(w))

\* The element of the batch that is about this group: all rows are read
\* before the first group.
GroupEpochsTask(w) == job[w].task = "group_epochs" /\ Answers(w, PendingEpochOf(w))

GroupContextTask(w) == job[w].task = "group_context" /\ Answers(w, PendingEpochOf(w))

GroupContextsTask(w) == job[w].task = "group_contexts" /\ Answers(w, PendingEpochOf(w))

\* fn resolve, on the thread of the event loop.
Resolve(w) == At(w, "answer") /\ Return(w) /\ KeepsAll

-----------------------------------------------------------------------------
(* ProcessAllMessagesTask                                                  *)

\* load_group_with_epoch_message_secrets(..).ok()
Load(w) ==
    /\ At(w, "load")
    /\ job' = [job EXCEPT ![w].mem = mls, ![w].pc = IF mls = Absent THEN "messages" ELSE "decide"]
    /\ KeepsAll

\* Wrong version: the sender is not compared.
FirstIsThere(g, op, end) ==
    (IF op = JoinByExternalCommit THEN Len(g.hist) ELSE Len(g.hist) + 1) \in 2..end

\* get_first_message on the batch: the commits up to end.
FirstIsOwn(g, op, end) ==
    LET i == IF op = JoinByExternalCommit THEN Len(g.hist) ELSE Len(g.hist) + 1
    IN  i \in 2..end /\ server[i].by = "self"

\* What the desync check decides from the loaded group and the status row.
Decisions(g, op, end) ==
    CASE op = CreateGroup /\ Epoch(g) = 0 ->
            {"keep", IF g.hist[1] = server[1] THEN "merge" ELSE "delete"}
      [] op = JoinByExternalCommit \/ (op = CreateGroup /\ Epoch(g) > 0) ->
            {IF FirstIsOwn(g, op, end) THEN "merge" ELSE "delete"}
      [] op = UpdateTree -> {IF FirstIsOwn(g, op, end) THEN "merge" ELSE "clear"}
      [] OTHER -> {"keep"}

Decide(w) ==
    /\ At(w, "decide")
    /\ \E d \in Decisions(job[w].mem, status, job[w].end) :
        job' = [job EXCEPT ![w].plan = d, ![w].pc = IF d = "keep" THEN "proposals" ELSE "settle"]
    /\ KeepsAll

SameState(g, h) ==
    /\ (g = Absent) = (h = Absent)
    /\ g # Absent => g.hist = h.hist /\ g.pending = h.pending

\* The server may still accept this commit, or has done so after the batch
\* was fetched.
InFlight(commit, end) ==
    \/ \E r \in requests \cup UNION {job[v].result : v \in Workers} : r.commit = commit
    \/ \E i \in DOMAIN server : i > end /\ server[i] = commit

\* The group is loaded again in the transaction that settles it; what was
\* decided is carried out on whatever is stored by then.
Settle(w) ==
    /\ At(w, "settle") /\ mls # Absent
    /\ \E r \in CASE job[w].plan = "merge" -> merge_pending_commit(mls)
                  [] job[w].plan = "clear" -> clear_pending_commit(mls)
                  [] job[w].plan = "delete" -> Result(Absent, NoCommit) :
        /\ mls' = r.group
        /\ keys' = IF r.group = Absent THEN delete_encryption_epoch_key_pairs(keys, mls)
                   ELSE NextEpochKeys(keys, mls, r.group)
        /\ job' = [job EXCEPT ![w].mem = r.group, ![w].pc = "reset"]
    /\ races' = races
            \cup {r \in {"changed"} : ~SameState(mls, job[w].mem)}
            \cup {r \in {"inflight"} :
                    /\ job[w].plan # "merge"
                    /\ \E c \in {mls.pending, Last(mls.hist)} : InFlight(c, job[w].end)}
    /\ UNCHANGED <<server, status, opened, requests, answers, own, used, twice>>

\* The status row is reset: delete_group_status, insert_or_update_group_status.
Reset(w) ==
    /\ At(w, "reset")
    /\ status' = OpNone
    /\ races' = races \cup {r \in {"changed"} : ~SameState(mls, job[w].mem)}
    /\ Goto(w, "proposals")
    /\ UNCHANGED requests /\ KeepsData

\* A failed load or transaction of the desync check ends the call.
SettleFails(w) == At(w, "settle") /\ Return(w) /\ KeepsAll

\* The first loop: decrypting a proposal stores the message secrets of the
\* group in memory, outside any transaction.
ReadProposals(w) ==
    /\ At(w, "proposals")
    /\ job[w].mem # Absent /\ mls # Absent
    /\ job[w].mem.hist = mls.hist
    /\ mls' = [mls EXCEPT !.sent = job[w].mem.sent]
    /\ races' = races \cup {r \in {"secrets"} : mls.sent # job[w].mem.sent}
    /\ Goto(w, "messages")
    /\ UNCHANGED <<server, keys, status, opened, requests, answers, own, used, twice>>

\* No proposal, or none that the group can decrypt.
NoProposals(w) == At(w, "proposals") /\ Goto(w, "messages") /\ KeepsAll

AtMessage(w) == At(w, "messages") /\ job[w].pos <= job[w].end
IsWelcome(w) == server[job[w].pos].adds /\ job[w].pos \notin opened

OpenWelcome(w) ==
    /\ AtMessage(w) /\ IsWelcome(w)
    /\ \E r \in process_welcome(job[w].pos) :
        /\ mls' = r.group
        /\ keys' = write_encryption_epoch_key_pairs(keys, r.group)
        /\ job' = [job EXCEPT ![w].mem = r.group, ![w].pos = @ + 1]
    /\ opened' = opened \cup {job[w].pos}
    /\ races' = IF mls = Absent THEN races ELSE races \cup {"replaced"}
    /\ UNCHANGED <<server, status, requests, answers, own, used, twice>>

\* A commit: without a group it is skipped, and the first one reloads it.  A
\* group that is gone keeps the one in memory.
Reload(w) ==
    /\ AtMessage(w) /\ ~IsWelcome(w)
    /\ IF job[w].mem = Absent
       THEN job' = [job EXCEPT ![w].pos = @ + 1]
       ELSE job' = [job EXCEPT ![w].pc = "apply",
                               ![w].mem = IF job[w].loaded \/ mls = Absent THEN @ ELSE mls,
                               ![w].loaded = @ \/ mls # Absent]
    /\ KeepsAll

\* process_operation_message in a transaction of its own, on the group in
\* memory.
Apply(w) ==
    /\ At(w, "apply")
    /\ \E r \in ProcessCommit(job[w].mem, keys, job[w].pos) :
        /\ mls' = r.group
        /\ keys' = NextEpochKeys(keys, job[w].mem, r.group)
        /\ job' = [job EXCEPT ![w].mem = r.group, ![w].pos = @ + 1, ![w].pc = "messages"]
    /\ UNCHANGED <<server, status, opened, requests, answers, own, used, twice, races>>

\* The commit does not apply, or its transaction fails.  The loop goes on, and
\* the group in memory may have advanced, or it ends with a GroupError.
ApplyFails(w) ==
    /\ At(w, "apply")
    /\ LET skipped == [job[w] EXCEPT !.pc = "messages", !.pos = @ + 1]
       IN  \/ job' = [job EXCEPT ![w] = skipped]
           \/ \E r \in ProcessCommit(job[w].mem, keys, job[w].pos) :
                  job' = [job EXCEPT ![w] = [skipped EXCEPT !.mem = r.group]]
           \/ job' = [job EXCEPT ![w] = [skipped EXCEPT !.pos = job[w].end + 1]]
    /\ KeepsAll

ProcessAllReturns(w) ==
    /\ At(w, "messages") /\ job[w].pos > job[w].end
    /\ Return(w)
    /\ KeepsAll

-----------------------------------------------------------------------------
(* The server and the other members.                                       *)

\* A commit is accepted on top of the sequence it was made for.
ServerHandles(r) ==
    /\ r \in requests
    /\ LET ok == IF r.kind = "create" THEN server = <<>> ELSE r.base = server
       IN  /\ server' = IF ok THEN Append(r.base, r.commit) ELSE server
           /\ answers' = answers \cup {[kind |-> r.kind, ok |-> ok, commit |-> r.commit]}
    /\ requests' = requests \ {r}
    /\ UNCHANGED <<mls, keys, status, opened, job, own, used, twice, races>>

PeerCommits(adds) ==
    /\ Len(server) < MaxEpoch
    /\ server' = IF server = <<>> THEN <<Peer(1, FALSE), Peer(2, adds)>>
                 ELSE Append(server, Peer(Len(server) + 1, adds))
    /\ UNCHANGED <<mls, keys, status, opened, job, requests, answers, own, used,
                   twice, races>>

ProcessAllMessages(w) ==
    \/ Load(w) \/ Decide(w) \/ Settle(w) \/ Reset(w) \/ SettleFails(w)
    \/ ReadProposals(w) \/ NoProposals(w) \/ OpenWelcome(w) \/ Reload(w)
    \/ Apply(w) \/ ApplyFails(w) \/ ProcessAllReturns(w)

Operation(w) ==
    \/ CheckAbsent(w) \/ ReaddChecks(w) \/ Begin(w) \/ TaskFails(w) \/ Record(w)
    \/ CreateGroupTask(w) \/ JoinByExternalCommitTask(w) \/ BatchJoinByExternalCommitTask(w)
    \/ AddMembersTask(w) \/ RemoveMembersTask(w) \/ UpdateLeafNodeTask(w) \/ ReaddTask(w)
    \/ MergePendingCommitTask(w) \/ ClearPendingCommitTask(w)
    \/ ClearPendingProposalsTask(w) \/ DeleteGroupTask(w)

Message(w) ==
    \/ EncryptMessageTask(w) \/ ProcessOperationMessageTask(w) \/ CommitToProposal(w)
    \/ ProcessManyOperationMessagesTask(w) \/ ProcessApplicationMessageTask(w)
    \/ ProcessProposalMessageTask(w) \/ LeaveGroupTask(w) \/ UpdateGroupConfigTask(w)
    \/ ProcessWelcomeTask(w)

Query(w) ==
    \/ ReadStatus(w) \/ GroupEpochTask(w) \/ GroupEpochsTask(w)
    \/ GroupContextTask(w) \/ GroupContextsTask(w) \/ Resolve(w)

Submit(w) ==
    \/ SubmitCreate(w) \/ SubmitReadd(w) \/ SubmitBatch(w)
    \/ \E task \in Lane[w] :
          \/ SubmitOperation(w, task) \/ SubmitSettlement(w, task)
          \/ SubmitMessage(w, task) \/ SubmitQuery(w, task)

Next ==
    \/ \E w \in Workers : Operation(w) \/ Message(w) \/ Query(w) \/ ProcessAllMessages(w)
    \/ \E w \in Workers : Submit(w)
    \/ \E r \in requests : ServerHandles(r)
    \/ \E adds \in BOOLEAN : PeerCommits(adds)

Spec == Init /\ [][Next]_vars

-----------------------------------------------------------------------------
(* Properties.  Each names the kinds of interference after which it may    *)
(* fail; every other order of the tasks' steps keeps it.                   *)

\* process_all_messages applies commits to a group it read earlier, outside the
\* transaction that stores the result.  Still, no step takes a commit away from
\* the stored group, short of a Welcome or an external commit that replaces it,
\* and the copy in memory does not bring back a group deleted meanwhile: the
\* epoch key pairs that the path of a commit needs are read from the database.
\* A replacement leaves those of the group it replaces behind, and with them a
\* second batch that still has this group in memory can store it again.
CommitExtends ==
    []["replaced" \notin races' =>
        /\ mls # Absent /\ mls' # Absent => IsPrefix(mls.hist, mls'.hist)
        /\ mls = Absent /\ mls' # Absent =>
             \A w \in Workers : At(w, "apply") => job'[w] = job[w]]_vars

\* CreateGroupTask looks for the group in one transaction and creates it in
\* another.  It overwrites a group only when a Welcome was opened in between,
\* or an earlier replacement let a batch store an old group again.
CreateKeepsGroup ==
    [][\A w \in Workers :
        /\ Working(w, "create_group") /\ own' # own /\ mls # Absent
        /\ "replaced" \notin races
        => opened # job[w].seen]_vars

\* Two calls of encrypt_message, or one beside any other task, never use one
\* generation of an epoch's ratchet for two messages, unless the proposal loop
\* of process_all_messages has written back the secrets of an older copy.
GenerationsUnique == twice => "secrets" \in races

\* A commit that waits for the server's answer has its row in group_statuses,
\* or the task that made it is about to write it: so a restart or a batch
\* settles it.  clear_pending_proposals, a commit to a received proposal, and a
\* batch whose group has changed under it leave one without a row.
PendingIsRecorded ==
    mls # Absent /\ races \cap {"cleared", "proposal", "changed"} = {} =>
        \/ mls.pending = NoCommit
        \/ status # OpNone
        \/ \E w \in Workers : At(w, "record") /\ StatusAfter(job[w].task) # OpNone

\* The last commit of the stored group is an external commit not yet settled.
JoinIsOpen ==
    \/ status = JoinByExternalCommit
    \/ \E w \in Workers : At(w, "record") /\ StatusAfter(job[w].task) = JoinByExternalCommit

\* The stored group and the server's are two groups that this client has made.
CreatedAgain ==
    /\ server # <<>> /\ mls.hist[1] # server[1]
    /\ mls.hist[1].by = "self" /\ server[1].by = "self"

\* Whichever of merge_pending_commit and the desync check of a batch settles an
\* own commit, the stored group has it only where the server accepted it.  The
\* check compares the sender of the commit in the batch, not the commit: it
\* goes wrong when the batch is older than the request, or is of a group that
\* the application has since deleted and created again.
MergedIsAccepted ==
    /\ mls # Absent /\ ~CreatedAgain
    /\ races \cap {"changed", "inflight", "proposal", "cleared"} = {}
    => \A i \in 2..Len(mls.hist) :
        mls.hist[i].by = "self" => IsPrefix(SubSeq(mls.hist, 1, i), server) \/ JoinIsOpen

\* The epoch that group_epoch and its relatives report is one the server has,
\* or that of a new group, or the status row was read before an external commit
\* wrote it.
AnswerIsSettled ==
    [][\A w \in Workers :
        /\ At(w, "context") /\ mls # Absent /\ ~CreatedAgain
        /\ races \cap {"changed", "inflight", "proposal", "cleared"} = {}
        => \/ job'[w].pos = 0
           \/ IsPrefix(SubSeq(mls.hist, 1, job'[w].pos + 1), server)
           \/ job[w].op # JoinByExternalCommit /\ JoinIsOpen]_vars
=============================================================================

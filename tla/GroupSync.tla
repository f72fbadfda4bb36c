------------------------------ MODULE GroupSync ------------------------------
(***************************************************************************)
(* One MLS group of one client: the group stored in the MLS database, the  *)
(* pending operation stored in the separate group-status database, and the *)
(* reconciliation of the two with the server's commits in                  *)
(* kchat_mls::process_all_messages.                                        *)
(*                                                                         *)
(* A commit the client creates only counts once the server has accepted    *)
(* it, and the client may crash, or lose the server's answer, at any       *)
(* moment.  The bindings therefore record which kind of operation is       *)
(* pending, in a second SQLite file and in a write of its own, and         *)
(* process_all_messages later merges, clears or deletes by that record and *)
(* by the commits the server delivers.                                     *)
(*                                                                         *)
(* A group's state is the sequence of commits applied to it: two states    *)
(* agree exactly when their origin and history do.                         *)
(***************************************************************************)
EXTENDS Integers, Sequences, SequencesExt

CONSTANTS
    MaxEpoch,   \* epoch at the server up to which other members commit
    MaxOwn,     \* bound on the groups and commits this client creates
    MaxFaults   \* bound on crashes, storage errors and lost answers

ASSUME ConstantsAssumption == MaxEpoch \in Nat /\ MaxOwn \in Nat /\ MaxFaults \in Nat

VARIABLES
    server,     \* the group at the server: its origin and accepted commits
    mls,        \* the group in the MLS database, or Absent
    status,     \* the row of group_statuses ("none" also when there is none)
    opened,     \* positions of Welcomes whose key package has been used
    pc,         \* where the client's current SDK call is
    call,       \* the status that call has to write, and its result
    outbox,     \* a commit handed to the network, or NoRequest
    answer,     \* the server's answer on its way to the application
    batch,      \* the messages process_all_messages was called with
    mem,        \* the in-memory group of process_all_messages
    pos,        \* the message it handles next
    loaded,     \* its commit_group_loaded
    clean,      \* (history) no storage error so far in this call
    own,        \* counter that makes this client's commits distinct
    faults,     \* faults so far
    misled      \* (history) the status row does not describe the group

client == <<pc, call, outbox, answer, batch, mem, pos, loaded, clean>>
vars == <<server, mls, status, opened, client, own, faults, misled>>

Absent == [absent |-> TRUE]
NoCommit == [by |-> "nobody", n |-> 0, adds |-> FALSE]
NoRequest == [norequest |-> TRUE]

Own(n) == [by |-> "self", n |-> n, adds |-> FALSE]
Peer(n, adds) == [by |-> "peer", n |-> n, adds |-> adds]

Commits == [by : {"self", "peer"}, n : Nat, adds : BOOLEAN]

CreateGroup == "create_group"
JoinByExternalCommit == "join_by_external_commit"
UpdateTree == "update_tree"
OpNone == "none"
GroupPendingOperation == {CreateGroup, JoinByExternalCommit, UpdateTree, OpNone}

MlsGroup(origin, commits, pending) ==
    [origin |-> origin, commits |-> commits, pending |-> pending]

Request(kind, origin, base, commit) ==
    [kind |-> kind, origin |-> origin, base |-> base, commit |-> commit]

Epoch(g) == Len(g.commits)

\* The group's state is one the server's group has been in.
OnServer(g) == g.origin = server.origin /\ IsPrefix(g.commits, server.log)

\* The server's tree has a leaf for this client.
SelfIsMember ==
    \/ server.origin.by = "self"
    \/ \E i \in DOMAIN server.log : server.log[i].by = "self" \/ server.log[i].adds

Exists == server.origin # NoCommit

\* Everything the application has sent has been answered or given up.
Settled == outbox = NoRequest /\ answer = "none"

Idle == pc = "idle"

\* A create or join is recorded whose outcome is not known yet.
Unsettled == status \in {CreateGroup, JoinByExternalCommit}

-----------------------------------------------------------------------------
(* merge, clear: what OpenMLS does to the pending commit.                  *)

merge_pending_commit(g) ==
    IF g.pending = NoCommit THEN g
    ELSE MlsGroup(g.origin, Append(g.commits, g.pending), NoCommit)

clear_pending_commit(g) == MlsGroup(g.origin, g.commits, NoCommit)

\* A commit applies to the state it was made for, if another member made it;
\* merging it drops this client's own pending commit.
Applies(g, origin, log, i) ==
    /\ g.origin = origin /\ g.commits = SubSeq(log, 1, i - 1)
    /\ log[i].by # "self"

process_operation_message(g, origin, log, i) ==
    IF Applies(g, origin, log, i)
    THEN MlsGroup(g.origin, Append(g.commits, log[i]), NoCommit)
    ELSE g

\* Wrong version: the epoch of a join is not stepped back.
FirstAfterEpoch(g, op, log) ==
    IF Epoch(g) + 1 \in DOMAIN log THEN log[Epoch(g) + 1] ELSE NoCommit

\* get_first_message: the first commit past the settled state of the group.
first_message(g, op, log) ==
    LET base == IF op = JoinByExternalCommit THEN Epoch(g) - 1 ELSE Epoch(g)
    IN  IF base + 1 \in DOMAIN log THEN log[base + 1] ELSE NoCommit

-----------------------------------------------------------------------------

NoBatch == [origin |-> NoCommit, log |-> <<>>, pending_epoch |-> 0]

Init ==
    /\ server = [origin |-> NoCommit, log |-> <<>>]
    /\ mls = Absent
    /\ status = OpNone
    /\ opened = {}
    /\ pc = "idle"
    /\ call = [write |-> OpNone, result |-> NoRequest]
    /\ outbox = NoRequest
    /\ answer = "none"
    /\ batch = NoBatch
    /\ mem = Absent
    /\ pos = 0
    /\ loaded = FALSE
    /\ clean = TRUE
    /\ own = 0
    /\ faults = 0
    /\ misled = FALSE

(* The bindings.  An operation commits its MLS transaction, then writes    *)
(* the status row; its result reaches the application after that.          *)

\* The MLS transaction of an operation has committed.
Transact(g, write, result) ==
    /\ mls' = g
    /\ pc' = "status"
    /\ call' = [write |-> write, result |-> result]
    /\ UNCHANGED <<server, status, opened, outbox, answer, batch, mem, pos,
                   loaded, clean, faults>>

create_group ==
    /\ Idle /\ Settled /\ own < MaxOwn
    /\ mls = Absent
    /\ own' = own + 1
    /\ UNCHANGED misled
    /\ Transact(MlsGroup(Own(own + 1), <<>>, NoCommit), CreateGroup, NoRequest)

\* The commit for a group that is still at epoch 0 founds it at the server.
CommitRequest(g, c) ==
    Request(IF g.commits = <<>> THEN "create" ELSE "update", g.origin, g.commits, c)

\* Wrong version: the status is left as it is.
AddMembersUnrecorded ==
    /\ Idle /\ Settled /\ own < MaxOwn
    /\ mls # Absent /\ mls.pending = NoCommit
    /\ own' = own + 1
    /\ misled' = (misled \/ status = JoinByExternalCommit)
    /\ Transact([mls EXCEPT !.pending = Own(own + 1)], status,
                CommitRequest(mls, Own(own + 1)))

\* add_members keeps an existing status and writes UpdateTree over None.
add_members ==
    /\ Idle /\ Settled /\ own < MaxOwn
    /\ mls # Absent /\ mls.pending = NoCommit
    /\ own' = own + 1
    /\ misled' = (misled \/ status = JoinByExternalCommit)
    /\ Transact([mls EXCEPT !.pending = Own(own + 1)],
                IF status = OpNone THEN UpdateTree ELSE status,
                CommitRequest(mls, Own(own + 1)))

\* remove_members and update_leaf_node write UpdateTree over any status.
update_tree ==
    /\ Idle /\ Settled /\ own < MaxOwn
    /\ mls # Absent /\ mls.pending = NoCommit
    /\ own' = own + 1
    /\ misled' = (misled \/ Unsettled)
    /\ Transact([mls EXCEPT !.pending = Own(own + 1)], UpdateTree,
                CommitRequest(mls, Own(own + 1)))

\* readd does the same, but only starts when no operation is recorded.
readd == status = OpNone /\ update_tree

\* Wrong version: the join is recorded like any other commit.
JoinAsUpdate ==
    /\ Idle /\ Settled /\ own < MaxOwn
    /\ Exists /\ ~SelfIsMember
    /\ mls = Absent
    /\ own' = own + 1
    /\ UNCHANGED misled
    /\ Transact(MlsGroup(server.origin, Append(server.log, Own(own + 1)), NoCommit),
                UpdateTree,
                Request("join", server.origin, server.log, Own(own + 1)))

\* The external commit is merged at once, on top of the fetched group info.
join_by_external_commit ==
    /\ Idle /\ Settled /\ own < MaxOwn
    /\ Exists /\ ~SelfIsMember
    /\ mls = Absent
    /\ own' = own + 1
    /\ UNCHANGED misled
    /\ Transact(MlsGroup(server.origin, Append(server.log, Own(own + 1)), NoCommit),
                JoinByExternalCommit,
                Request("join", server.origin, server.log, Own(own + 1)))

\* The application settles the server's answer.
merge_on_accept ==
    /\ Idle /\ answer = "accepted"
    /\ mls # Absent
    /\ mls' = merge_pending_commit(mls)
    /\ answer' = "none"
    /\ pc' = "status"
    /\ call' = [write |-> OpNone, result |-> NoRequest]
    /\ UNCHANGED <<server, status, opened, outbox, batch, mem, pos, loaded,
                   clean, own, faults, misled>>

clear_on_reject ==
    /\ Idle /\ answer = "rejected_update"
    /\ mls # Absent
    /\ mls' = clear_pending_commit(mls)
    /\ answer' = "none"
    /\ pc' = "status"
    /\ call' = [write |-> OpNone, result |-> NoRequest]
    /\ UNCHANGED <<server, status, opened, outbox, batch, mem, pos, loaded,
                   clean, own, faults, misled>>

\* delete_group: the MLS rows go first, then the status row.
delete_group ==
    /\ Idle
    /\ mls' = Absent
    /\ answer' = "none"
    /\ pc' = "delete_status"
    /\ call' = [write |-> OpNone, result |-> NoRequest]
    /\ UNCHANGED <<server, status, opened, outbox, batch, mem, pos, loaded,
                   clean, own, faults, misled>>

\* After a rejected create or join the application drops the group.
delete_on_reject == answer = "rejected" /\ delete_group

\* The user deletes it, or deletes again when the status cleanup failed.
delete_by_user == Settled /\ (mls # Absent \/ status # OpNone) /\ delete_group

\* The status row is written; the operation returns its commit.
WriteStatus ==
    /\ pc \in {"status", "delete_status"}
    /\ status' = call.write
    /\ misled' = (misled /\ pc # "delete_status")
    /\ outbox' = IF call.result = NoRequest THEN outbox ELSE call.result
    /\ pc' = "idle"
    /\ call' = [write |-> OpNone, result |-> NoRequest]
    /\ UNCHANGED <<server, mls, opened, answer, batch, mem, pos, loaded, clean,
                   own, faults>>

\* let _ = insert_or_update_group_status(..): the failure is swallowed.
\* delete_group reports it, and may be called again.
WriteStatusFails ==
    /\ pc \in {"status", "delete_status"} /\ faults < MaxFaults
    /\ faults' = faults + 1
    /\ misled' = (misled \/ status # call.write)
    /\ outbox' = IF call.result = NoRequest THEN outbox ELSE call.result
    /\ pc' = "idle"
    /\ call' = [write |-> OpNone, result |-> NoRequest]
    /\ UNCHANGED <<server, mls, status, opened, answer, batch, mem, pos, loaded,
                   clean, own>>

\* process_operation_message on a commit delivered while online.
process_live_commit ==
    /\ Idle /\ mls # Absent
    /\ misled' = (misled \/ Unsettled)
    /\ \E i \in DOMAIN server.log :
        /\ Applies(mls, server.origin, server.log, i)
        /\ mls' = process_operation_message(mls, server.origin, server.log, i)
    /\ UNCHANGED <<server, status, opened, client, own, faults>>

\* process_welcome: the group replaces whatever was stored under its id.
process_live_welcome ==
    /\ Idle /\ Settled
    /\ misled' = (misled \/ status # OpNone)
    /\ \E i \in DOMAIN server.log \ opened :
        /\ server.log[i].adds
        /\ mls' = MlsGroup(server.origin, SubSeq(server.log, 1, i), NoCommit)
        /\ opened' = opened \cup {i}
    /\ UNCHANGED <<server, status, client, own, faults>>

\* clear_pending_proposals leaves a pending commit, and resets the row.
clear_pending_proposals ==
    /\ Idle /\ mls # Absent /\ status # OpNone
    /\ misled' = (misled \/ Unsettled \/ mls.pending # NoCommit)
    /\ pc' = "status"
    /\ call' = [write |-> OpNone, result |-> NoRequest]
    /\ UNCHANGED <<server, mls, status, opened, outbox, answer, batch, mem, pos,
                   loaded, clean, own, faults>>

-----------------------------------------------------------------------------
(* process_all_messages                                                    *)

\* The application fetches every commit the server has and calls in.
\* pending_epoch is that of the group's founding or of its latest commit.
FetchMessages ==
    /\ Idle /\ Exists
    /\ misled' = (misled \/ outbox # NoRequest)
    /\ \E e \in {0, Len(server.log) - 1} :
        batch' = [origin |-> server.origin, log |-> server.log, pending_epoch |-> e]
    /\ pc' = "load"
    /\ mem' = Absent /\ pos' = 1 /\ loaded' = FALSE /\ clean' = TRUE
    /\ UNCHANGED <<server, mls, status, opened, call, outbox, answer, own, faults>>

\* The call is over: its locals are gone.
Forget == batch' = NoBatch /\ mem' = Absent /\ pos' = 0 /\ loaded' = FALSE /\ clean' = TRUE

\* What the desync check does to the stored group: the new group, and whether
\* the status row is reset after it.
Keep(g) == [group |-> g, reset |-> FALSE]
Settle(g) == [group |-> g, reset |-> TRUE]

\* Wrong version: a commit the server did not take is not cleared.
ReconcileKeeps(g, op) ==
    LET mine == first_message(g, op, batch.log).by = "self"
    IN  CASE op = CreateGroup /\ Epoch(g) = 0 ->
                IF batch.pending_epoch # 0 THEN Keep(g)
                ELSE IF g.origin = batch.origin THEN Settle(merge_pending_commit(g))
                ELSE Settle(Absent)
          [] op = JoinByExternalCommit \/ (op = CreateGroup /\ Epoch(g) > 0) ->
                IF mine THEN Settle(merge_pending_commit(g)) ELSE Settle(Absent)
          [] op = UpdateTree -> IF mine THEN Settle(merge_pending_commit(g)) ELSE Settle(g)
          [] OTHER -> Keep(g)

Reconcile(g, op) ==
    LET first == first_message(g, op, batch.log)
        mine == first.by = "self"
    IN  CASE op = CreateGroup /\ Epoch(g) = 0 ->
                IF batch.pending_epoch # 0 THEN Keep(g)
                ELSE IF g.origin = batch.origin       \* the tree hashes agree
                     THEN Settle(merge_pending_commit(g))
                     ELSE Settle(Absent)
          [] op = JoinByExternalCommit \/ (op = CreateGroup /\ Epoch(g) > 0) ->
                IF mine THEN Settle(merge_pending_commit(g)) ELSE Settle(Absent)
          [] op = UpdateTree ->
                IF mine THEN Settle(merge_pending_commit(g))
                ELSE Settle(clear_pending_commit(g))
          [] OTHER -> Keep(g)

\* Load the group, read its status, and settle the pending operation.
DesyncCheck ==
    /\ pc = "load"
    /\ IF mls = Absent
       THEN pc' = "messages" /\ UNCHANGED <<mls, mem>>
       ELSE LET r == Reconcile(mls, status)
            IN  /\ mls' = r.group
                /\ mem' = r.group
                /\ pc' = IF r.reset THEN "reset" ELSE "messages"
    /\ UNCHANGED <<server, status, opened, call, outbox, answer, batch, pos,
                   loaded, clean, own, faults, misled>>

\* load_group_with_epoch_message_secrets(..).ok(): an error reads as absent.
LoadFails ==
    /\ pc = "load" /\ faults < MaxFaults
    /\ faults' = faults + 1
    /\ clean' = FALSE
    /\ mem' = Absent
    /\ pc' = "messages"
    /\ UNCHANGED <<server, mls, status, opened, call, outbox, answer, batch, pos,
                   loaded, own, misled>>

\* A failed status read or transaction ends the whole call through `?`.
DesyncCheckFails ==
    /\ pc = "load" /\ mls # Absent /\ faults < MaxFaults
    /\ faults' = faults + 1
    /\ pc' = "idle"
    /\ Forget
    /\ UNCHANGED <<server, mls, status, opened, call, outbox, answer, own, misled>>

ResetStatus ==
    /\ pc = "reset"
    /\ status' = OpNone
    /\ pc' = "messages"
    /\ UNCHANGED <<server, mls, opened, call, outbox, answer, batch, mem, pos,
                   loaded, clean, own, faults, misled>>

ResetStatusFails ==
    /\ pc = "reset" /\ faults < MaxFaults
    /\ faults' = faults + 1
    /\ misled' = TRUE
    /\ clean' = FALSE
    /\ pc' = "messages"
    /\ UNCHANGED <<server, mls, status, opened, call, outbox, answer, batch, mem,
                   pos, loaded, own>>

AtMessage == pc = "messages" /\ pos \in DOMAIN batch.log

\* Wrong version: a Welcome can be opened twice.
IsAnyWelcome(i) == batch.log[i].adds

\* The Welcome that came with a commit adding this client: its key package is
\* deleted when it is opened.
IsWelcome(i) == batch.log[i].adds /\ i \notin opened

ProcessWelcome ==
    /\ AtMessage /\ IsWelcome(pos)
    /\ mls' = MlsGroup(batch.origin, SubSeq(batch.log, 1, pos), NoCommit)
    /\ mem' = mls'
    /\ opened' = opened \cup {pos}
    /\ pos' = pos + 1
    /\ misled' = (misled \/ status # OpNone)
    /\ UNCHANGED <<server, status, pc, call, outbox, answer, batch, loaded, clean,
                   own, faults>>

\* The in-memory group a commit is applied to: reloaded for the first one.
CurrentGroup == IF loaded THEN mem ELSE mls

ProcessCommit ==
    /\ AtMessage /\ ~IsWelcome(pos)
    /\ pos' = pos + 1
    /\ IF mem = Absent
       THEN UNCHANGED <<mls, mem, loaded>>
       ELSE LET g == process_operation_message(CurrentGroup, batch.origin, batch.log, pos)
            IN  /\ mem' = g
                /\ mls' = IF g = CurrentGroup THEN mls ELSE g
                /\ loaded' = TRUE
    /\ UNCHANGED <<server, status, opened, pc, call, outbox, answer, batch, clean,
                   own, faults, misled>>

\* The Welcome's transaction fails: logged, and the loop goes on.
ProcessWelcomeFails ==
    /\ AtMessage /\ IsWelcome(pos) /\ faults < MaxFaults
    /\ faults' = faults + 1
    /\ clean' = FALSE
    /\ pos' = pos + 1
    /\ UNCHANGED <<server, mls, status, opened, pc, call, outbox, answer, batch,
                   mem, loaded, own, misled>>

\* A storage error of the known kinds ends the loop with a GroupError.
ProcessCommitBreaks ==
    /\ AtMessage /\ ~IsWelcome(pos) /\ mem # Absent /\ faults < MaxFaults
    /\ faults' = faults + 1
    /\ clean' = FALSE
    /\ pos' = Len(batch.log) + 1
    /\ UNCHANGED <<server, mls, status, opened, pc, call, outbox, answer, batch,
                   mem, loaded, own, misled>>

\* Any other error at the commit: the transaction is rolled back, the
\* in-memory group has advanced all the same, and the loop goes on with it.
ProcessCommitRollsBack ==
    /\ AtMessage /\ ~IsWelcome(pos) /\ mem # Absent /\ faults < MaxFaults
    /\ faults' = faults + 1
    /\ clean' = FALSE
    /\ mem' = process_operation_message(CurrentGroup, batch.origin, batch.log, pos)
    /\ loaded' = TRUE
    /\ pos' = pos + 1
    /\ UNCHANGED <<server, mls, status, opened, pc, call, outbox, answer, batch,
                   own, misled>>

ProcessAllReturns ==
    /\ pc = "messages" /\ pos \notin DOMAIN batch.log
    /\ pc' = "idle"
    /\ Forget
    /\ UNCHANGED <<server, mls, status, opened, call, outbox, answer, own, faults, misled>>

-----------------------------------------------------------------------------
(* The server, the network and the other members.                          *)

\* The server accepts a commit made for its current state, and no other.
ServerHandles ==
    /\ outbox # NoRequest
    /\ LET ok == IF outbox.kind = "create" THEN ~Exists
                 ELSE outbox.origin = server.origin /\ outbox.base = server.log
       IN  /\ server' = IF ok THEN [origin |-> outbox.origin,
                                    log |-> Append(outbox.base, outbox.commit)]
                        ELSE server
           /\ answer' = IF ok THEN "accepted"
                        ELSE IF outbox.kind = "update" THEN "rejected_update"
                        ELSE "rejected"
    /\ outbox' = NoRequest
    /\ UNCHANGED <<mls, status, opened, pc, call, batch, mem, pos, loaded, clean,
                   own, faults, misled>>

\* The request, or the answer to it, never arrives.
ConnectionLost ==
    /\ ~Settled /\ faults < MaxFaults
    /\ faults' = faults + 1
    /\ outbox' = NoRequest
    /\ answer' = "none"
    /\ UNCHANGED <<server, mls, status, opened, pc, call, batch, mem, pos, loaded,
                   clean, own, misled>>

PeerCreates ==
    /\ ~Exists /\ MaxEpoch > 0
    /\ server' = [origin |-> Peer(0, FALSE), log |-> <<Peer(1, FALSE)>>]
    /\ UNCHANGED <<mls, status, opened, client, own, faults, misled>>

PeerCommits(adds) ==
    /\ Exists /\ Len(server.log) < MaxEpoch
    /\ adds => ~SelfIsMember
    /\ server' = [server EXCEPT !.log = Append(@, Peer(Len(@) + 1, adds))]
    /\ UNCHANGED <<mls, status, opened, client, own, faults, misled>>

\* The process dies and is started again: both databases keep what they had.
Crash ==
    /\ faults < MaxFaults
    /\ faults' = faults + 1
    /\ misled' = (misled \/ (pc \in {"status", "delete_status"} /\ status # call.write)
                     \/ (pc = "reset" /\ status # OpNone))
    /\ pc' = "idle"
    /\ call' = [write |-> OpNone, result |-> NoRequest]
    /\ outbox' = NoRequest /\ answer' = "none"
    /\ Forget
    /\ UNCHANGED <<server, mls, status, opened, own>>

ProcessAllStep ==
    \/ DesyncCheck \/ ResetStatus
    \/ ProcessWelcome \/ ProcessCommit \/ ProcessAllReturns

Fault ==
    \/ WriteStatusFails \/ LoadFails \/ DesyncCheckFails \/ ResetStatusFails
    \/ ProcessWelcomeFails \/ ProcessCommitBreaks \/ ProcessCommitRollsBack
    \/ ConnectionLost \/ Crash

Next ==
    \/ create_group \/ add_members \/ update_tree \/ readd
    \/ join_by_external_commit
    \/ merge_on_accept \/ clear_on_reject \/ delete_on_reject
    \/ delete_by_user \/ WriteStatus
    \/ process_live_commit \/ process_live_welcome \/ clear_pending_proposals
    \/ FetchMessages \/ ProcessAllStep
    \/ ServerHandles \/ PeerCreates
    \/ \E adds \in BOOLEAN : PeerCommits(adds)
    \/ Fault

Spec == Init /\ [][Next]_vars

-----------------------------------------------------------------------------
\* A stored group that the server's group has never been in is always known
\* as a pending create or join, so that reconciliation can still undo it.
ForkIsRecorded ==
    mls # Absent /\ ~misled =>
        \/ OnServer(mls)
        \/ status \in {CreateGroup, JoinByExternalCommit}
        \/ pc = "status" /\ call.write \in {CreateGroup, JoinByExternalCommit}

\* Every pending commit is covered by a recorded operation: no own commit the
\* server may have accepted is invisible to the desync check.
PendingIsRecorded ==
    mls # Absent /\ ~misled /\ pc \notin {"status", "reset"} =>
        (mls.pending # NoCommit => status \in {CreateGroup, UpdateTree})

\* The desync check deletes only groups the server never accepted.
DeletesOnlyForks ==
    [][pc = "load" /\ mls # Absent /\ mls' = Absent => misled \/ ~OnServer(mls)]_vars

\* When process_all_messages has gone through a batch without a storage
\* error, the group is gone, still being created, or at the batch's last
\* epoch with nothing pending.
CaughtUp ==
    pc = "messages" /\ pos \notin DOMAIN batch.log /\ clean /\ ~misled =>
        \/ mls = Absent
        \/ status = CreateGroup
        \/ mls.origin = batch.origin /\ mls.commits = batch.log /\ mls.pending = NoCommit

\* No step takes a stored group back to an earlier epoch of its history.
NeverRollsBack ==
    [][mls # Absent /\ mls' # Absent /\ OnServer(mls) =>
        mls'.origin = mls.origin /\ IsPrefix(mls.commits, mls'.commits)]_vars

-----------------------------------------------------------------------------
\* A call that has begun goes on, the network delivers, the application
\* settles answers and keeps synchronising.
Fairness ==
    /\ WF_vars(ProcessAllStep) /\ WF_vars(WriteStatus)
    /\ WF_vars(ServerHandles)
    /\ WF_vars(merge_on_accept \/ clear_on_reject \/ delete_on_reject)
    /\ SF_vars(FetchMessages)

FairSpec == Spec /\ Fairness

\* After the last fault and the last commit the client agrees with the server:
\* the group is gone, or is the server's with nothing pending.
Converges ==
    <>[](misled \/ mls = Absent \/ status = CreateGroup
         \/ (OnServer(mls) /\ mls.commits = server.log /\ mls.pending = NoCommit))
=============================================================================

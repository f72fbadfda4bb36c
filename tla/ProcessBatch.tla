---------------------------- MODULE ProcessBatch ----------------------------
(***************************************************************************)
(* What process_all_messages tells the application: which members to       *)
(* remove, which to add again, which groups it has deleted.  One call goes *)
(* through the batches of several groups; an error of the desync check     *)
(* ends the whole call, an error of a commit only ends its group.          *)
(*                                                                         *)
(* Whether a pending operation is settled the right way is the subject of  *)
(* GroupSync, and calls side by side that of GroupTasks: here one call     *)
(* runs at a time, and a group is its epoch and its members.               *)
(***************************************************************************)
EXTENDS Integers, Sequences, FiniteSets, SequencesExt

CONSTANTS
    Groups,         \* sequence of group ids, in the order of the argument
    Members,        \* member ids: user and device
    Self,           \* this client's
    Jid,            \* user of a member id: the part before the slash
    Moving,         \* members that come and go, and whom proposals name
    MaxMessages,    \* bound on the messages of each group
    MaxCalls        \* bound on the calls

ASSUME BatchAssumption ==
    /\ Groups \in Seq(Range(Groups))
    /\ MaxMessages \in [Range(Groups) -> Nat] /\ MaxCalls \in Nat
    /\ Moving \subseteq Members /\ Self \in Moving /\ DOMAIN Jid = Members

VARIABLES
    log,        \* the server's messages of each group
    server,     \* the server's state of each group
    stored,     \* the group in the MLS database, or Absent
    status,     \* the row of group_statuses
    consumed,   \* MLS proposals whose ratchet secret is used up
    opened,     \* Welcomes whose key package is used up
    call,       \* the call of process_all_messages
    calls,      \* number of calls so far
    told,       \* history: groups reported as deleted
    gone,       \* history: groups the SDK has deleted
    failed      \* history: some call has returned an error

vars == <<log, server, stored, status, consumed, opened, call, calls, told, gone, failed>>

Ids == Range(Groups)
Absent == [absent |-> TRUE]
Group(epoch, members) == [epoch |-> epoch, members |-> members]
Jids(members) == {Jid[m] : m \in members}

OpJoin == "join_by_external_commit"
OpUpdate == "update_tree"
OpNone == "none"

\* A message carries the epoch that follows its sender's.
Message(type, epoch, about, members) ==
    [type |-> type, epoch |-> epoch, about |-> about, members |-> members]
Commit(epoch, by, members) == Message("commit", epoch, by, members)
Welcome(epoch, members) == Message("welcome", epoch, Self, members)
Proposals == {"remove", "custom_remove", "custom_readd"}

\* MemberInfo: of a proposal of MLS the member, of a custom one the user.
OfMember(m) == [jid |-> Jid[m], id |-> m]
OfUser(jid) == [jid |-> jid, id |-> "unknown"]
Present(info, members) ==
    IF info.id = "unknown" THEN info.jid \in Jids(members) ELSE info.id \in members

-----------------------------------------------------------------------------
(* The call.                                                               *)

\* start and spent are history: what the loop over the proposals found.
NoCall == [pc |-> "idle", at |-> 0, batch |-> <<>>, group |-> Absent, pos |-> 0,
           start |-> Absent, spent |-> {},
           loaded |-> FALSE, removals |-> {}, readds |-> {}, error |-> FALSE,
           results |-> {}, deleted |-> {}]

At(pc) == call.pc = pc
Id == Groups[call.at]
Msg == call.batch[call.pos]

KeepsData == UNCHANGED <<log, server, stored, status, consumed, opened, gone>>
KeepsRest == UNCHANGED <<log, server, calls, told, failed>>

\* The application asks for what follows the epoch that group_epoch reports.
Batch(g) ==
    LET from == IF stored[g] = Absent THEN -1
                ELSE IF status[g] = OpJoin THEN stored[g].epoch - 1 ELSE stored[g].epoch
        known == {i \in DOMAIN log[g] : log[g][i].epoch <= from}
    IN  SubSeq(log[g], Cardinality(known) + 1, Len(log[g]))

Init ==
    /\ log = [g \in Ids |-> <<>>]
    /\ server \in [Ids -> {Group(1, Members), Group(1, Members \ {Self})}]
    /\ stored = [g \in Ids |-> IF Self \in server[g].members THEN server[g] ELSE Absent]
    /\ status = [g \in Ids |-> OpNone]
    /\ consumed = {}
    /\ opened = {}
    /\ call = NoCall
    /\ calls = 0
    /\ told = {}
    /\ gone = {}
    /\ failed = FALSE

process_all_messages ==
    /\ At("idle") /\ calls < MaxCalls
    /\ call' = [NoCall EXCEPT !.pc = "load", !.at = 1]
    /\ calls' = calls + 1
    /\ KeepsData /\ UNCHANGED <<told, failed>>

\* load_group_with_epoch_message_secrets(..).ok(): an error counts as absence.
\* A group without an own leaf is passed over.
Load ==
    /\ At("load") /\ call.at <= Len(Groups)
    /\ \E g \in {stored[Id], Absent} :
        call' = [call EXCEPT !.group = g, !.batch = Batch(Id), !.pos = 1, !.loaded = FALSE,
                             !.removals = {}, !.readds = {}, !.error = FALSE,
                             !.pc = IF g = Absent THEN "proposals" ELSE "desync"]
    /\ KeepsData /\ UNCHANGED <<calls, told, failed>>

OwnLeafGone ==
    /\ At("desync") /\ Self \notin call.group.members
    /\ call' = [call EXCEPT !.pc = "load", !.at = @ + 1]
    /\ KeepsData /\ UNCHANGED <<calls, told, failed>>

\* get_first_message, and whether its sender is this client.
FirstIsOwn ==
    LET epoch == IF status[Id] = OpJoin THEN call.group.epoch ELSE call.group.epoch + 1
    IN  \E i \in DOMAIN call.batch :
            /\ call.batch[i].type = "commit" /\ call.batch[i].epoch = epoch
            /\ call.batch[i].about = Self
            /\ \A j \in 1..(i - 1) : call.batch[j].type = "commit" => call.batch[j].epoch # epoch

\* The group after merge_pending_commit: the update changes no member, and an
\* external commit has been merged when it was made.
Merged(g) == IF status[Id] = OpUpdate THEN Group(g.epoch + 1, g.members) ELSE g

\* Wrong version: the deletion is not reported.
SettleUnreported ==
    LET delete == status[Id] = OpJoin /\ ~FirstIsOwn
        settled == IF delete THEN Absent ELSE IF FirstIsOwn THEN Merged(call.group) ELSE call.group
    IN  /\ At("desync") /\ Self \in call.group.members /\ status[Id] # OpNone
        /\ stored' = [stored EXCEPT ![Id] = settled]
        /\ status' = [status EXCEPT ![Id] = OpNone]
        /\ gone' = IF delete THEN gone \cup {Id} ELSE gone
        /\ call' = [call EXCEPT !.group = settled, !.pc = "proposals"]
        /\ KeepsRest /\ UNCHANGED <<consumed, opened>>

\* The desync check: merge, clear or delete, in a transaction, then the row.
Settle ==
    LET delete == status[Id] = OpJoin /\ ~FirstIsOwn
        settled == IF delete THEN Absent ELSE IF FirstIsOwn THEN Merged(call.group) ELSE call.group
    IN  /\ At("desync") /\ Self \in call.group.members /\ status[Id] # OpNone
        /\ stored' = [stored EXCEPT ![Id] = settled]
        /\ status' = [status EXCEPT ![Id] = OpNone]
        /\ gone' = IF delete THEN gone \cup {Id} ELSE gone
        /\ call' = [call EXCEPT !.group = settled, !.pc = "proposals",
                                !.deleted = IF delete THEN @ \cup {Id} ELSE @]
        /\ KeepsRest /\ UNCHANGED <<consumed, opened>>

NothingPending ==
    /\ At("desync") /\ Self \in call.group.members /\ status[Id] = OpNone
    /\ call' = [call EXCEPT !.pc = "proposals"]
    /\ KeepsData /\ UNCHANGED <<calls, told, failed>>

\* get_group_pending_operation(..)? and the transactions' ?: the results of the
\* groups before are dropped with the error.
CallFails ==
    /\ At("desync") /\ Self \in call.group.members
    /\ call' = NoCall
    /\ failed' = TRUE
    /\ KeepsData /\ UNCHANGED <<calls, told>>

-----------------------------------------------------------------------------
(* The loop over the proposals.                                            *)

\* A proposal of MLS is decrypted in its epoch, and once.
Decrypts(i) ==
    LET msg == call.batch[i]
    IN  msg.type = "remove" /\ msg.epoch = call.group.epoch + 1 /\ <<Id, msg>> \notin consumed

Entry(i) ==
    LET msg == call.batch[i]
    IN  [info |-> IF msg.type = "remove" THEN OfMember(msg.about) ELSE OfUser(msg.about),
         epoch |-> msg.epoch]

\* The sender, or a device of the user, is in the group that was loaded.
Counts(i) ==
    LET msg == call.batch[i]
    IN  \/ Decrypts(i) /\ msg.about \in call.group.members
        \/ msg.type = "custom_remove" /\ msg.about \in Jids(call.group.members)

\* The map keeps the last epoch inserted for a member.
Removals ==
    {Entry(i) : i \in {i \in DOMAIN call.batch :
        Counts(i) /\ \A j \in (i + 1)..Len(call.batch) :
            Counts(j) => Entry(j).info # Entry(i).info}}

ReadProposals ==
    /\ At("proposals")
    /\ IF call.group = Absent
       THEN call' = [call EXCEPT !.pc = "messages", !.start = Absent] /\ UNCHANGED consumed
       ELSE /\ call' = [call EXCEPT !.pc = "messages", !.removals = Removals,
                                    !.start = call.group, !.spent = consumed]
            /\ consumed' = consumed \cup
                  {<<Id, call.batch[i]>> : i \in {i \in DOMAIN call.batch : Decrypts(i)}}
    /\ KeepsRest /\ UNCHANGED <<stored, status, opened, gone>>

LatestEpoch ==
    LET commits == {i \in DOMAIN call.batch : call.batch[i].type = "commit"}
        epochs == {call.batch[i].epoch : i \in commits} \cup {0}
    IN  CHOOSE e \in epochs : \A f \in epochs : f <= e

-----------------------------------------------------------------------------
(* The loop over all messages.                                             *)

AtMessage(type) == At("messages") /\ call.pos <= Len(call.batch) /\ Msg.type = type

OpenWelcome ==
    /\ AtMessage("welcome") /\ <<Id, Msg>> \notin opened
    /\ stored' = [stored EXCEPT ![Id] = Group(Msg.epoch, Msg.members)]
    /\ opened' = opened \cup {<<Id, Msg>>}
    /\ call' = [call EXCEPT !.group = Group(Msg.epoch, Msg.members), !.pos = @ + 1]
    /\ KeepsRest /\ UNCHANGED <<status, consumed, gone>>

\* No key package, or its transaction failed: the loop goes on.
WelcomeFails ==
    /\ AtMessage("welcome")
    /\ call' = [call EXCEPT !.pos = @ + 1]
    /\ KeepsData /\ UNCHANGED <<calls, told, failed>>

Applies(g) == Self \in g.members /\ Msg.about # Self /\ Msg.epoch = g.epoch + 1

\* Wrong version: the epoch of the entry is not looked at.
PruneAny(entries, g, epoch) == {e \in entries : Present(e.info, g.members)}

\* Wrong version: a removal is dropped with the commit of its own epoch only.
PruneOnce(entries, g, epoch) ==
    {e \in entries : epoch # e.epoch \/ Present(e.info, g.members)}

\* What is left of the removals after a commit of that epoch.
Prune(entries, g, epoch) ==
    {e \in entries : epoch < e.epoch \/ Present(e.info, g.members)}

\* The first commit loads the group again; an error other than the storage's
\* keeps the one in memory.
Reloads ==
    IF call.loaded \/ stored[Id] = Absent THEN {call.group} ELSE {stored[Id], call.group}

\* The commit in its transaction, and the removals it has made pointless.  It
\* may not apply, or be rolled back and still have changed the group in memory.
ProcessCommit ==
    /\ AtMessage("commit") /\ call.group # Absent
    /\ \E fresh \in Reloads :
        LET applied == IF Applies(fresh) THEN Group(Msg.epoch, Msg.members) ELSE fresh
        IN  \E g \in {fresh, applied} :
                /\ stored' \in {stored} \cup {[stored EXCEPT ![Id] = h] : h \in {g} \ {fresh}}
                /\ call' = [call EXCEPT !.group = g, !.pos = @ + 1,
                                        !.loaded = @ \/ fresh = stored[Id],
                                        !.removals = Prune(@, g, Msg.epoch)]
    /\ KeepsRest /\ UNCHANGED <<status, consumed, opened, gone>>

SkipCommit ==
    /\ AtMessage("commit") /\ call.group = Absent
    /\ call' = [call EXCEPT !.pos = @ + 1]
    /\ KeepsData /\ UNCHANGED <<calls, told, failed>>

\* A storage error at the load or in the transaction: members_to_remove is
\* cleared and the group's loop ends.
CommitFails ==
    /\ AtMessage("commit") /\ call.group # Absent
    /\ call' = [call EXCEPT !.removals = {}, !.error = TRUE, !.pos = Len(call.batch) + 1]
    /\ KeepsData /\ UNCHANGED <<calls, told, failed>>

\* Wrong version: a request is dropped only for a newer commit.
ReaddFrom(epoch) == epoch >= LatestEpoch

\* A request to be added again counts if no commit of the batch came after it.
Requested(epoch) == epoch > LatestEpoch

PassProposal ==
    /\ \E type \in Proposals : AtMessage(type)
    /\ call' = [call EXCEPT !.pos = @ + 1,
                            !.readds = IF Msg.type = "custom_readd" /\ Requested(Msg.epoch)
                                       THEN @ \cup {OfMember(Msg.about)} ELSE @]
    /\ KeepsData /\ UNCHANGED <<calls, told, failed>>

PushResult ==
    /\ At("messages") /\ call.pos > Len(call.batch)
    /\ call' = [call EXCEPT !.pc = "load", !.at = @ + 1,
                   !.results = @ \cup {[group |-> Id, error |-> call.error, batch |-> call.batch,
                                        removals |-> {e.info : e \in call.removals},
                                        readds |-> call.readds, left |-> call.group,
                                        start |-> call.start, spent |-> call.spent]}]
    /\ KeepsData /\ UNCHANGED <<calls, told, failed>>

\* Ok(result)
CallReturns ==
    /\ At("load") /\ call.at > Len(Groups)
    /\ told' = told \cup call.deleted
    /\ call' = NoCall
    /\ KeepsData /\ UNCHANGED <<calls, failed>>

-----------------------------------------------------------------------------
(* The application and the server, between two calls.                      *)

Room(g) == Len(log[g]) < MaxMessages[g]
Send(g, messages) == log' = [log EXCEPT ![g] = @ \o messages]
BetweenCalls == UNCHANGED <<consumed, opened, call, calls, told, gone, failed>>

\* A member commits: one member or one user leaves, or a member is added.
MemberCommits(g) ==
    /\ At("idle") /\ Room(g)
    /\ \E m \in Moving :
        \E members \in {server[g].members \ {m}, server[g].members \cup {m},
                        {n \in server[g].members : Jid[n] # Jid[m]}} :
            LET by == CHOOSE by \in Members \ Moving : by \in server[g].members
                commit == Commit(server[g].epoch + 1, by, members)
                welcome == Welcome(server[g].epoch + 1, members)
            IN  /\ members # server[g].members
                /\ server' = [server EXCEPT ![g] = Group(@.epoch + 1, members)]
                /\ IF Self \in members \ server[g].members
                   THEN Send(g, <<commit, welcome>>) \/ Send(g, <<welcome, commit>>)
                   ELSE Send(g, <<commit>>)
    /\ UNCHANGED <<stored, status>> /\ BetweenCalls

\* A member proposes its removal; the server announces that a user has left, or
\* a member asks to be added again, in a custom proposal.
Propose(g) ==
    /\ At("idle") /\ Room(g)
    /\ \E m \in Moving \ {Self} :
        \/ /\ m \in server[g].members
           /\ Send(g, <<Message("remove", server[g].epoch + 1, m, {})>>)
        \/ Send(g, <<Message("custom_remove", server[g].epoch + 1, Jid[m], {})>>)
        \/ Send(g, <<Message("custom_readd", server[g].epoch + 1, m, {})>>)
    /\ UNCHANGED <<server, stored, status>> /\ BetweenCalls

\* update_leaf_node
StartUpdate(g) ==
    /\ At("idle") /\ stored[g] # Absent /\ status[g] = OpNone
    /\ Self \in stored[g].members
    /\ status' = [status EXCEPT ![g] = OpUpdate]
    /\ UNCHANGED <<log, server, stored>> /\ BetweenCalls

join_by_external_commit(g) ==
    /\ At("idle") /\ stored[g] = Absent /\ status[g] = OpNone /\ Self \notin server[g].members
    /\ stored' = [stored EXCEPT ![g] = Group(server[g].epoch + 1, server[g].members \cup {Self})]
    /\ status' = [status EXCEPT ![g] = OpJoin]
    /\ UNCHANGED <<log, server>> /\ BetweenCalls

\* The server takes this client's commit, and the answer is lost.
ServerAccepts(g) ==
    /\ At("idle") /\ Room(g)
    /\ \/ status[g] = OpUpdate /\ stored[g] = server[g]
       \/ status[g] = OpJoin /\ stored[g].epoch = server[g].epoch + 1
    /\ server' = [server EXCEPT ![g] = Group(@.epoch + 1, stored[g].members)]
    /\ Send(g, <<Commit(server[g].epoch + 1, Self, stored[g].members)>>)
    /\ UNCHANGED <<stored, status>> /\ BetweenCalls

Next ==
    \/ process_all_messages \/ Load \/ OwnLeafGone \/ Settle \/ NothingPending \/ CallFails
    \/ ReadProposals \/ OpenWelcome \/ WelcomeFails \/ ProcessCommit \/ SkipCommit
    \/ CommitFails \/ PassProposal \/ PushResult \/ CallReturns
    \/ \E g \in Ids : MemberCommits(g)
    \/ \E g \in Ids : Propose(g)
    \/ \E g \in Ids : StartUpdate(g)
    \/ \E g \in Ids : join_by_external_commit(g)
    \/ \E g \in Ids : ServerAccepts(g)

Spec == Init /\ [][Next]_vars

-----------------------------------------------------------------------------
(* Properties.                                                             *)

CommitsOf(r) == {r.batch[i] : i \in {i \in DOMAIN r.batch : r.batch[i].type = "commit"}}

\* A group that the desync check has deleted is in deleted_groups of a call
\* that returned, unless an error of a later group ended the call: then the
\* next call finds no group, and the deletion is never reported.
GoneIsReported == At("idle") /\ ~failed => gone \subseteq told

\* A Welcome that no commit of the batch follows.
EndsWithWelcome(r) ==
    \E i \in DOMAIN r.batch :
        r.batch[i].type = "welcome" /\ \A j \in i..Len(r.batch) : r.batch[j].type # "commit"

\* members_to_remove asks for no member that the commits of the batch have
\* removed already: one that is not in the group any more was named by a
\* proposal later than every commit, or the group was replaced by a Welcome
\* after the last one, where the list is not gone through again.
RemovalsSound ==
    \A r \in call.results : \A info \in r.removals :
        \/ r.left # Absent /\ Present(info, r.left.members)
        \/ EndsWithWelcome(r)
        \/ \A c \in CommitsOf(r) : \E i \in DOMAIN r.batch :
              /\ r.batch[i].epoch > c.epoch
              /\ \/ r.batch[i].type = "custom_remove" /\ info = OfUser(r.batch[i].about)
                 \/ r.batch[i].type = "remove" /\ info = OfMember(r.batch[i].about)

\* The proposal at i names a member of the group that was loaded, and can be
\* read there.
Readable(r, i) ==
    /\ r.start # Absent
    /\ \/ r.batch[i].type = "custom_remove" /\ r.batch[i].about \in Jids(r.start.members)
       \/ /\ r.batch[i].type = "remove" /\ r.batch[i].about \in r.start.members
          /\ r.batch[i].epoch = r.start.epoch + 1 /\ <<r.group, r.batch[i]>> \notin r.spent

\* The client has come to the server's epoch commit by commit.
Followed(r) ==
    /\ r.left = server[r.group]
    /\ \A i \in DOMAIN r.batch : r.batch[i].type # "welcome"

Named(msg) == IF msg.type = "remove" THEN OfMember(msg.about) ELSE OfUser(msg.about)

\* The states of the group in the batch; those from the proposal at i on, if
\* the client has followed the group.
Stays(r, i, followed) ==
    \A j \in DOMAIN r.batch :
        /\ r.batch[j].type \in {"commit", "welcome"}
        /\ followed => r.batch[j].epoch >= r.batch[i].epoch
        => Present(Named(r.batch[i]), r.batch[j].members)

\* A proposed removal of a member that the batch leaves in the group is
\* reported, unless a storage error is: in whatever order proposals, commits and
\* Welcomes come, whichever commits fail, and however often a member is
\* proposed.  The list is gone through with the group in memory: when a commit
\* failed and a Welcome came later, that group may be one from before the
\* member was added again.
RemovalsComplete ==
    \A r \in call.results : ~r.error =>
        \A i \in DOMAIN r.batch :
            Readable(r, i) /\ Stays(r, i, Followed(r)) => Named(r.batch[i]) \in r.removals

\* members_to_readd has exactly the members whose request the server passed on
\* after the last commit: the code compares epochs, this compares positions.
ReaddsExact ==
    \A r \in call.results : ~r.error =>
        r.readds = {OfMember(r.batch[i].about) : i \in {i \in DOMAIN r.batch :
            /\ r.batch[i].type = "custom_readd"
            /\ \A j \in i..Len(r.batch) : r.batch[j].type # "commit"}}
=============================================================================

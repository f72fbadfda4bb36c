--------------------------- MODULE GroupSyncProof ---------------------------
(***************************************************************************)
(* Proofs about GroupSync, for any number of epochs, own commits and       *)
(* faults: the stored group never goes back, a group that the server never *)
(* had and a pending commit always have their row, the desync check        *)
(* deletes only such groups, and a batch brings the group to its end.      *)
(*                                                                         *)
(* The invariant says what the row means (RowInv): no row, that the server *)
(* has the group and no commit of this client past it (Level); an update,  *)
(* the same but for the pending commit; a create, a group at epoch 0; a    *)
(* join, a group on top of this client's external commit.  Behind it is    *)
(* what the server's sequence of commits can look like (ServerOK).         *)
(***************************************************************************)
EXTENDS GroupSync, SequenceTheorems, TLAPS

-----------------------------------------------------------------------------
(* Groups, requests and the server's group.                                *)

Groups == [origin : Commits, commits : Seq(Commits), pending : Commits \cup {NoCommit}]
Requests == [kind : {"create", "join", "update"}, origin : Commits, base : Seq(Commits),
             commit : Commits]
Servers == [origin : Commits \cup {NoCommit}, log : Seq(Commits)]

\* IsPrefix, element by element.
Begins(s, t) == Len(s) <= Len(t) /\ \A i \in 1 .. Len(s) : s[i] = t[i]

\* The server's group: a commit that adds this client comes before any of its
\* own, and it makes one only after the Welcome.
ServerOK(srv, used, n) ==
    /\ srv.origin = NoCommit <=> srv.log = <<>>
    /\ srv.origin.by = "self" => srv.log[1].by = "self" /\ srv.origin.n <= n
    /\ \A i \in 1 .. Len(srv.log) : srv.log[i].adds =>
          /\ srv.origin.by # "self"
          /\ \A k \in 1 .. Len(srv.log) : k < i => srv.log[k].by # "self" /\ ~srv.log[k].adds
          /\ i \notin used => \A k \in 1 .. Len(srv.log) : k > i => srv.log[k].by # "self"

\* A group this client has is one it is a member of.
GroupOK(g, used, n) ==
    /\ g.origin.by = "self" => g.origin.n <= n
    /\ \/ g.origin.by = "self"
       \/ \E i \in 1 .. Len(g.commits) : g.commits[i].by = "self" \/ g.commits[i].adds
    /\ \A i \in 1 .. Len(g.commits) : g.commits[i].adds => i \in used
    /\ g.pending = NoCommit \/ (g.pending.by = "self" /\ ~g.pending.adds)

RequestOK(r, used, n) ==
    /\ r.origin.by = "self" => r.origin.n <= n
    /\ r.commit.by = "self" /\ ~r.commit.adds
    /\ \A i \in 1 .. Len(r.base) : r.base[i].adds => i \in used
    /\ r.kind = "create" <=> r.base = <<>>
    /\ r.kind = "create" => r.origin.by = "self"

\* The server has g.
Has(srv, g) == g.origin = srv.origin /\ Begins(g.commits, srv.log)

\* No commit of this client past epoch n.
NoOwnPast(srv, n) == \A k \in 1 .. Len(srv.log) : k > n => srv.log[k].by # "self"

\* The server has g, and no commit of this client past it.
Level(g, srv) ==
    g.commits # <<>> /\ Has(srv, g) /\ NoOwnPast(srv, Len(g.commits))

\* The server has g, and past it at most the commit that is pending.
LevelButPending(g, srv) ==
    /\ g.commits # <<>> /\ Has(srv, g) /\ NoOwnPast(srv, Len(g.commits) + 1)
    /\ Len(g.commits) < Len(srv.log) /\ srv.log[Len(g.commits) + 1].by = "self" =>
          srv.log[Len(g.commits) + 1] = g.pending

\* A group at epoch 0: the server does not have it, or has its pending commit.
Founding(g, srv) ==
    /\ g.commits = <<>>
    /\ g.origin = srv.origin => g.pending = srv.log[1] /\ NoOwnPast(srv, 1)

\* A group on top of an external commit of this client, which is the only own
\* commit the server may have there.
Joining(g, srv) ==
    /\ g.commits # <<>> /\ g.pending = NoCommit
    /\ g.origin = srv.origin
    /\ g.commits[Len(g.commits)].by = "self"
    /\ Len(g.commits) <= Len(srv.log) + 1
    /\ \A i \in 1 .. Len(srv.log) : i < Len(g.commits) => srv.log[i] = g.commits[i]
    /\ NoOwnPast(srv, Len(g.commits))
    /\ Len(g.commits) <= Len(srv.log) /\ srv.log[Len(g.commits)].by = "self" =>
          srv.log[Len(g.commits)] = g.commits[Len(g.commits)]

\* Request r is the pending commit of group g, or can no longer be accepted;
\* the server has not seen it.
Matches(r, g, srv) ==
    \/ /\ r.kind = "create" /\ r.origin # srv.origin
       /\ g.origin = r.origin /\ g.commits = r.base /\ g.pending = r.commit
    \/ /\ r.kind = "update" /\ Level(g, srv)
       /\ g.origin = r.origin /\ g.commits = r.base /\ g.pending = r.commit
    \/ /\ r.kind = "join"
       /\ g.origin = r.origin /\ g.commits = Append(r.base, r.commit) /\ g.pending = NoCommit
       /\ r.origin = srv.origin /\ Begins(r.base, srv.log) /\ NoOwnPast(srv, Len(r.base))
    \/ r.kind = "update" /\ Level(g, srv) /\ Len(r.base) < Len(g.commits)

-----------------------------------------------------------------------------
(* The inductive invariant.                                                *)

TypeInv ==
    /\ server \in Servers
    /\ mls \in Groups \cup {Absent}
    /\ mem \in Groups \cup {Absent}
    /\ status \in GroupPendingOperation
    /\ pc \in {"idle", "status", "delete_status", "load", "reset", "messages"}
    /\ call \in [write : GroupPendingOperation, result : Requests \cup {NoRequest}]
    /\ outbox \in Requests \cup {NoRequest}
    /\ answer \in {"none", "accepted", "rejected", "rejected_update"}
    /\ batch \in [origin : Commits \cup {NoCommit}, log : Seq(Commits), pending_epoch : Int]
    /\ pos \in Nat /\ own \in Nat
    /\ loaded \in BOOLEAN /\ clean \in BOOLEAN /\ misled \in BOOLEAN

DataInv ==
    /\ ServerOK(server, opened, own)
    /\ mls # Absent => GroupOK(mls, opened, own)
    /\ mem # Absent => GroupOK(mem, opened, own)
    /\ call.result # NoRequest => RequestOK(call.result, opened, own)
    /\ outbox # NoRequest => RequestOK(outbox, opened, own)

\* One request or answer at a time.
FlightInv ==
    /\ call.result # NoRequest => pc = "status" /\ Settled
    /\ outbox # NoRequest => answer = "none"
    /\ pc = "delete_status" => mls = Absent /\ Settled /\ call.write = OpNone

Processing == pc \in {"load", "reset", "messages"}

\* What process_all_messages works with.
BatchInv ==
    Processing =>
        /\ batch.origin = server.origin /\ Begins(batch.log, server.log) /\ batch.log # <<>>
        /\ pos > 0
        /\ pc # "messages" => pos = 1 /\ clean /\ ~loaded
        /\ pc = "load" => mem = Absent
        /\ pc = "reset" => mem = mls
        /\ mem # Absent => /\ mls # Absent
                           /\ mls.origin = mem.origin /\ Begins(mls.commits, mem.commits)
        /\ ~loaded /\ mem # Absent => mem = mls
        /\ clean /\ pc = "messages" => mem = mls

\* The row as it will be once the call has written it.
Row ==
    IF pc \in {"status", "delete_status"} THEN call.write
    ELSE IF pc = "reset" THEN OpNone ELSE status

\* The row describes the stored group.
Describes(row, g, srv) ==
    IF g = Absent THEN row = OpNone
    ELSE /\ row = CreateGroup => Founding(g, srv)
         /\ row = JoinByExternalCommit => Joining(g, srv)
         /\ row = UpdateTree => LevelButPending(g, srv)
         /\ row = OpNone => Level(g, srv) /\ g.pending = NoCommit

RowInv == Describes(Row, mls, server)

\* What requests and answers say about the stored group.
AnswerInv ==
    mls # Absent =>
        /\ call.result # NoRequest => Matches(call.result, mls, server)
        /\ outbox # NoRequest => Matches(outbox, mls, server)
        /\ answer = "accepted" => Level(merge_pending_commit(mls), server)
        /\ answer = "rejected_update" => Level(mls, server)

\* How far process_all_messages has come, while its row is right.
ProgressInv ==
    Processing =>
        /\ outbox = NoRequest
        /\ NoOwnPast(server, Len(batch.log))
        /\ mls # Absent /\ clean /\ Row \in {OpNone, UpdateTree} =>
              /\ Begins(mls.commits, batch.log)
              /\ Len(mls.commits) >= pos - 1
        /\ pc = "messages" /\ mem # Absent =>
              /\ status \in {OpNone, CreateGroup}
              /\ status = CreateGroup => mem.commits = <<>>
        /\ pc = "messages" /\ clean /\ mls # Absent => status \in {OpNone, CreateGroup}

Facts == TypeInv /\ DataInv /\ FlightInv /\ BatchInv

IInv == Facts /\ (~misled => RowInv /\ AnswerInv /\ ProgressInv)

-----------------------------------------------------------------------------
(* Sequences.                                                              *)

\* A sequence is empty exactly when its length is 0.
LEMMA Empty ==
    ASSUME NEW S, NEW s \in Seq(S)
    PROVE  s = <<>> <=> Len(s) = 0
BY EmptySeq

\* IsPrefix says that the first sequence begins the second.
LEMMA PrefixBegins ==
    ASSUME NEW S, NEW s \in Seq(S), NEW t \in Seq(S)
    PROVE  IsPrefix(s, t) <=> Begins(s, t)
<1>1. CASE Len(s) <= Len(t)
    <2>1. Len(s) \in Nat /\ Len(t) \in Nat
      OBVIOUS
    <2>2. /\ SubSeq(s, 1, Len(s)) \in Seq(S) /\ Len(SubSeq(s, 1, Len(s))) = Len(s)
          /\ \A i \in 1 .. Len(s) : SubSeq(s, 1, Len(s))[i] = s[i]
      BY <2>1
    <2>3. /\ SubSeq(t, 1, Len(s)) \in Seq(S) /\ Len(SubSeq(t, 1, Len(s))) = Len(s)
          /\ \A i \in 1 .. Len(s) : SubSeq(t, 1, Len(s))[i] = t[i]
      BY <1>1, <2>1
    <2>4. SubSeq(s, 1, Len(s)) = SubSeq(t, 1, Len(s)) <=> \A i \in 1 .. Len(s) : s[i] = t[i]
      BY <2>2, <2>3, SeqEqual
    <2> QED  BY <1>1, <2>4 DEF IsPrefix, Begins
<1>2. CASE ~(Len(s) <= Len(t))
  BY <1>2 DEF IsPrefix, Begins
<1> QED  BY <1>1, <1>2

\* Two sequences of one length that begin each other are one.
LEMMA BeginsEqual ==
    ASSUME NEW S, NEW s \in Seq(S), NEW t \in Seq(S), Begins(s, t), Len(t) <= Len(s)
    PROVE  s = t
<1>1. Len(s) = Len(t)
  BY DEF Begins
<1> QED  BY <1>1, SeqEqual DEF Begins

\* Begins is transitive.
LEMMA BeginsThrough ==
    ASSUME NEW S, NEW s \in Seq(S), NEW t \in Seq(S), NEW u \in Seq(S),
           Begins(s, t), Begins(t, u)
    PROVE  Begins(s, u)
BY DEF Begins

\* Two beginnings of one sequence: the shorter begins the longer.
LEMMA BeginsLonger ==
    ASSUME NEW S, NEW s \in Seq(S), NEW t \in Seq(S), NEW u \in Seq(S),
           Begins(s, u), Begins(t, u), Len(s) <= Len(t)
    PROVE  Begins(s, t)
BY DEF Begins

\* What Append adds is at the end.
LEMMA AppendAt ==
    ASSUME NEW S, NEW s \in Seq(S), NEW e \in S
    PROVE  /\ Append(s, e) \in Seq(S) /\ Append(s, e) # <<>>
           /\ Len(Append(s, e)) = Len(s) + 1
           /\ \A i \in 1 .. Len(s) : Append(s, e)[i] = s[i]
           /\ Append(s, e)[Len(s) + 1] = e
           /\ Begins(s, Append(s, e))
<1>1. /\ Append(s, e) \in Seq(S)
      /\ Len(Append(s, e)) = Len(s) + 1
      /\ \A i \in 1 .. Len(s) : Append(s, e)[i] = s[i]
      /\ Append(s, e)[Len(s) + 1] = e
  OBVIOUS
<1> QED  BY <1>1, Empty DEF Begins

\* The beginning of a sequence up to i.
LEMMA SubSeqAt ==
    ASSUME NEW S, NEW t \in Seq(S), NEW i \in 0 .. Len(t)
    PROVE  /\ SubSeq(t, 1, i) \in Seq(S) /\ Len(SubSeq(t, 1, i)) = i
           /\ \A k \in 1 .. i : SubSeq(t, 1, i)[k] = t[k]
           /\ Begins(SubSeq(t, 1, i), t)
<1>1. Len(t) \in Nat /\ i \in Nat /\ i <= Len(t)
  OBVIOUS
<1>2. SubSeq(t, 1, i) \in Seq(S) /\ Len(SubSeq(t, 1, i)) = i
  BY <1>1
<1>3. \A k \in 1 .. i : SubSeq(t, 1, i)[k] = t[k]
  BY <1>1
<1> QED  BY <1>1, <1>2, <1>3 DEF Begins

\* A beginning of a sequence is its SubSeq.
LEMMA BeginsSubSeq ==
    ASSUME NEW S, NEW s \in Seq(S), NEW t \in Seq(S), Begins(s, t)
    PROVE  s = SubSeq(t, 1, Len(s))
<1>1. Len(s) \in 0 .. Len(t)
  BY DEF Begins
<1>2. /\ SubSeq(t, 1, Len(s)) \in Seq(S) /\ Len(SubSeq(t, 1, Len(s))) = Len(s)
      /\ \A k \in 1 .. Len(s) : SubSeq(t, 1, Len(s))[k] = t[k]
  BY <1>1, SubSeqAt
<1> QED  BY <1>2, SeqEqual DEF Begins

-----------------------------------------------------------------------------
(* Groups.                                                                 *)

\* Commits, groups and requests are told from their absence.
LEMMA Kinds ==
    /\ NoCommit \notin Commits
    /\ Absent \notin Groups
    /\ NoRequest \notin Requests
<1>1. \A g \in Groups : DOMAIN g = {"origin", "commits", "pending"}
  BY DEF Groups
<1>2. \A r \in Requests : DOMAIN r = {"kind", "origin", "base", "commit"}
  BY DEF Requests
<1>3. DOMAIN Absent = {"absent"} /\ DOMAIN NoRequest = {"norequest"}
  BY DEF Absent, NoRequest
<1>4. Absent \notin Groups
  BY <1>1, <1>3
<1>5. NoRequest \notin Requests
  BY <1>2, <1>3
<1>6. \A c \in Commits : c.by \in {"self", "peer"}
  BY DEF Commits
<1>7. NoCommit.by = "nobody"
  BY DEF NoCommit
<1> QED  BY <1>4, <1>5, <1>6, <1>7

\* A group made of its parts.
LEMMA MlsGroupIs ==
    ASSUME NEW o \in Commits, NEW s \in Seq(Commits), NEW p \in Commits \cup {NoCommit}
    PROVE  /\ MlsGroup(o, s, p) \in Groups /\ MlsGroup(o, s, p) # Absent
           /\ MlsGroup(o, s, p).origin = o
           /\ MlsGroup(o, s, p).commits = s
           /\ MlsGroup(o, s, p).pending = p
BY Kinds DEF MlsGroup, Groups

LEMMA GroupIs ==
    ASSUME NEW g \in Groups
    PROVE  /\ g.origin \in Commits /\ g.commits \in Seq(Commits)
           /\ g.pending \in Commits \cup {NoCommit}
           /\ g # Absent /\ Len(g.commits) \in Nat
BY Kinds DEF Groups

LEMMA ServerIs ==
    ASSUME NEW s \in Servers
    PROVE  /\ s.origin \in Commits \cup {NoCommit} /\ s.log \in Seq(Commits)
           /\ Len(s.log) \in Nat
           /\ \A i \in 1 .. Len(s.log) : s.log[i] \in Commits
BY DEF Servers

LEMMA OwnIs ==
    ASSUME NEW n \in Nat
    PROVE  /\ Own(n) \in Commits /\ Own(n) # NoCommit
           /\ Own(n).by = "self" /\ Own(n).n = n /\ ~Own(n).adds
<1>1. Own(n) \in Commits
  BY DEF Own, Commits
<1> QED  BY <1>1, Kinds DEF Own

LEMMA PeerIs ==
    ASSUME NEW n \in Nat, NEW adds \in BOOLEAN
    PROVE  /\ Peer(n, adds) \in Commits /\ Peer(n, adds) # NoCommit
           /\ Peer(n, adds).by = "peer" /\ Peer(n, adds).adds = adds
<1>1. Peer(n, adds) \in Commits
  BY DEF Peer, Commits
<1> QED  BY <1>1, Kinds DEF Peer

\* What a group or a request is bound to stays true as more Welcomes are
\* opened and more commits are made.
LEMMA Later ==
    ASSUME NEW used, NEW used2, used \subseteq used2,
           NEW n \in Nat, NEW m \in Nat, n <= m
    PROVE  /\ \A g \in Groups : GroupOK(g, used, n) => GroupOK(g, used2, m)
           /\ \A r \in Requests : RequestOK(r, used, n) => RequestOK(r, used2, m)
           /\ \A s \in Servers : ServerOK(s, used, n) => ServerOK(s, used2, m)
<1>0. \A c \in Commits : c.n \in Nat
  BY DEF Commits
<1>1. ASSUME NEW g \in Groups, GroupOK(g, used, n)  PROVE GroupOK(g, used2, m)
    <2>1. g.origin.n \in Nat
      BY <1>0, GroupIs
    <2> QED  BY <1>1, <2>1 DEF GroupOK
<1>2. ASSUME NEW r \in Requests, RequestOK(r, used, n)  PROVE RequestOK(r, used2, m)
    <2>1. r.origin.n \in Nat
      BY <1>0 DEF Requests
    <2> QED  BY <1>2, <2>1 DEF RequestOK
<1>3. ASSUME NEW s \in Servers, ServerOK(s, used, n)  PROVE ServerOK(s, used2, m)
    <2>1. s.origin.by = "self" => s.origin.n \in Nat
      BY <1>0, ServerIs DEF NoCommit
    <2> QED  BY <1>3, <2>1 DEF ServerOK
<1> QED  BY <1>1, <1>2, <1>3

\* Merging keeps the history and adds the pending commit to it.
LEMMA Merged ==
    ASSUME NEW g \in Groups, NEW used, NEW n, GroupOK(g, used, n)
    PROVE  /\ merge_pending_commit(g) \in Groups
           /\ GroupOK(merge_pending_commit(g), used, n)
           /\ merge_pending_commit(g).origin = g.origin
           /\ merge_pending_commit(g).pending = NoCommit
           /\ Begins(g.commits, merge_pending_commit(g).commits)
           /\ g.pending = NoCommit => merge_pending_commit(g) = g
           /\ g.pending # NoCommit =>
                merge_pending_commit(g).commits = Append(g.commits, g.pending)
<1> DEFINE h == merge_pending_commit(g)
<1>0. /\ g.origin \in Commits /\ g.commits \in Seq(Commits)
      /\ g.pending \in Commits \cup {NoCommit} /\ Len(g.commits) \in Nat
  BY GroupIs
<1>1. CASE g.pending = NoCommit
    <2>1. h = g
      BY <1>1 DEF merge_pending_commit
    <2>2. Begins(g.commits, g.commits)
      BY <1>0 DEF Begins
    <2> QED  BY <1>1, <2>1, <2>2
<1>2. CASE g.pending # NoCommit
    <2> DEFINE s == Append(g.commits, g.pending)
    <2>1. h = MlsGroup(g.origin, s, NoCommit)
      BY <1>2 DEF merge_pending_commit
    <2>2. g.pending \in Commits /\ g.pending.by = "self" /\ ~g.pending.adds
      BY <1>0, <1>2 DEF GroupOK
    <2>3. /\ s \in Seq(Commits) /\ Len(s) = Len(g.commits) + 1
          /\ \A i \in 1 .. Len(g.commits) : s[i] = g.commits[i]
          /\ s[Len(g.commits) + 1] = g.pending
          /\ Begins(g.commits, s)
      BY <1>0, <2>2, AppendAt
    <2> HIDE DEF s
    <2>4. h \in Groups /\ h.origin = g.origin /\ h.commits = s /\ h.pending = NoCommit
      BY <1>0, <2>1, <2>3, MlsGroupIs
    <2> HIDE DEF h
    <2>5. GroupOK(h, used, n)
        <3>1. Len(g.commits) + 1 \in 1 .. Len(s) /\ s[Len(g.commits) + 1].by = "self"
          BY <1>0, <2>2, <2>3
        <3>2. \A i \in 1 .. Len(s) : s[i].adds => i \in used
          BY <1>0, <2>2, <2>3 DEF GroupOK
        <3> QED  BY <2>4, <3>1, <3>2 DEF GroupOK
    <2> QED  BY <1>2, <2>3, <2>4, <2>5 DEF h, s
<1> QED  BY <1>1, <1>2

LEMMA Cleared ==
    ASSUME NEW g \in Groups, NEW used, NEW n, GroupOK(g, used, n)
    PROVE  /\ clear_pending_commit(g) \in Groups
           /\ GroupOK(clear_pending_commit(g), used, n)
           /\ clear_pending_commit(g).origin = g.origin
           /\ clear_pending_commit(g).commits = g.commits
           /\ clear_pending_commit(g).pending = NoCommit
<1>1. /\ clear_pending_commit(g) \in Groups
      /\ clear_pending_commit(g).origin = g.origin
      /\ clear_pending_commit(g).commits = g.commits
      /\ clear_pending_commit(g).pending = NoCommit
  BY GroupIs, MlsGroupIs DEF clear_pending_commit
<1> QED  BY <1>1 DEF GroupOK

\* A commit that is not yet opened adds this client only where it is no
\* member: no group the server has, and this client is a member of, sees it.
LEMMA NotAMember ==
    ASSUME NEW s \in Servers, NEW g \in Groups, NEW used, NEW n,
           ServerOK(s, used, n), GroupOK(g, used, n), Has(s, g),
           NEW i \in 1 .. Len(s.log), s.log[i].adds
    PROVE  i \in 1 .. Len(g.commits) /\ i \in used
<1>1. s.origin.by # "self" /\ \A k \in 1 .. Len(s.log) : k < i => s.log[k].by # "self" /\ ~s.log[k].adds
  BY DEF ServerOK
<1>2. PICK k \in 1 .. Len(g.commits) : g.commits[k].by = "self" \/ g.commits[k].adds
  BY <1>1 DEF GroupOK, Has
<1>3. k \in 1 .. Len(s.log) /\ s.log[k] = g.commits[k]
  BY GroupIs, ServerIs DEF Has, Begins
<1>4. i <= k
  BY <1>1, <1>2, <1>3
<1>5. i \in 1 .. Len(g.commits)
  BY <1>4, GroupIs, ServerIs
<1>6. g.commits[i] = s.log[i]
  BY <1>5 DEF Has, Begins
<1> QED  BY <1>5, <1>6 DEF GroupOK

-----------------------------------------------------------------------------
(* Settling a group that its row describes.                                *)

\* A level group stays level whatever is pending.
LEMMA LevelOf ==
    ASSUME NEW s \in Servers, NEW g \in Groups, NEW h \in Groups,
           Level(g, s), h.origin = g.origin, h.commits = g.commits
    PROVE  Level(h, s)
BY DEF Level, Has

LEMMA LevelIsButPending ==
    ASSUME NEW s \in Servers, NEW g \in Groups, Level(g, s)
    PROVE  LevelButPending(g, s)
<1>1. Len(g.commits) \in Nat /\ Len(s.log) \in Nat
  BY GroupIs, ServerIs
<1> QED  BY <1>1 DEF Level, LevelButPending, NoOwnPast

\* The server's next commit is this client's: merging the pending one levels.
LEMMA MergeLevels ==
    ASSUME NEW s \in Servers, NEW g \in Groups, NEW used, NEW n, GroupOK(g, used, n),
           LevelButPending(g, s),
           Len(g.commits) + 1 \in 1 .. Len(s.log), s.log[Len(g.commits) + 1].by = "self"
    PROVE  /\ Level(merge_pending_commit(g), s)
           /\ Len(merge_pending_commit(g).commits) = Len(g.commits) + 1
<1>0. /\ g.commits \in Seq(Commits) /\ Len(g.commits) \in Nat /\ Len(s.log) \in Nat
      /\ g.pending \in Commits \cup {NoCommit}
  BY GroupIs, ServerIs
<1>1. g.pending = s.log[Len(g.commits) + 1]
  BY <1>0 DEF LevelButPending
<1>2. g.pending \in Commits /\ g.pending # NoCommit
  BY <1>1, ServerIs, Kinds
<1> DEFINE t == Append(g.commits, g.pending)
<1>3. /\ t # <<>> /\ Len(t) = Len(g.commits) + 1 /\ t \in Seq(Commits)
      /\ \A i \in 1 .. Len(g.commits) : t[i] = g.commits[i]
      /\ t[Len(g.commits) + 1] = g.pending
  BY <1>0, <1>2, AppendAt
<1> HIDE DEF t
<1>4. merge_pending_commit(g).commits = t /\ merge_pending_commit(g).origin = g.origin
  BY <1>2, Merged DEF t
<1>5. g.origin = s.origin /\ Begins(g.commits, s.log) /\ NoOwnPast(s, Len(t))
  BY <1>3 DEF LevelButPending, Has
<1>6. \A i \in 1 .. Len(t) : t[i] = s.log[i]
  BY <1>0, <1>1, <1>3, <1>5 DEF Begins
<1>7. Begins(t, s.log)
  BY <1>0, <1>3, <1>6 DEF Begins
<1> QED  BY <1>3, <1>4, <1>5, <1>7 DEF Level, Has

\* It is not: no commit of this client is past the group.
LEMMA IsLevel ==
    ASSUME NEW s \in Servers, NEW g \in Groups, LevelButPending(g, s),
           ~(Len(g.commits) + 1 \in 1 .. Len(s.log) /\ s.log[Len(g.commits) + 1].by = "self")
    PROVE  Level(g, s)
<1>1. Len(g.commits) \in Nat /\ Len(s.log) \in Nat
  BY GroupIs, ServerIs
<1>2. NoOwnPast(s, Len(g.commits))
  BY <1>1 DEF LevelButPending, NoOwnPast
<1> QED  BY <1>2 DEF LevelButPending, Level

\* Nothing is pending, so nothing of this client's is past the group.
LEMMA NothingPending ==
    ASSUME NEW s \in Servers, NEW g \in Groups, LevelButPending(g, s), g.pending = NoCommit
    PROVE  Level(g, s)
<1>1. Len(g.commits) \in Nat /\ Len(s.log) \in Nat
  BY GroupIs, ServerIs
<1>2. ~(Len(g.commits) + 1 \in 1 .. Len(s.log) /\ s.log[Len(g.commits) + 1].by = "self")
    <2>1. SUFFICES ASSUME Len(g.commits) + 1 \in 1 .. Len(s.log),
                          s.log[Len(g.commits) + 1].by = "self"
                   PROVE  FALSE
      OBVIOUS
    <2>2. s.log[Len(g.commits) + 1] = NoCommit
      BY <1>1, <2>1 DEF LevelButPending
    <2> QED  BY <2>1, <2>2, ServerIs, Kinds
<1> QED  BY <1>2, IsLevel

\* The server has the group that was founded: merging its first commit levels.
LEMMA FoundingLevels ==
    ASSUME NEW s \in Servers, NEW g \in Groups, NEW used, NEW n,
           GroupOK(g, used, n), ServerOK(s, used, n), Founding(g, s), g.origin = s.origin
    PROVE  /\ Level(merge_pending_commit(g), s)
           /\ Len(merge_pending_commit(g).commits) = 1
           /\ g.pending # NoCommit
<1>0. g.origin \in Commits /\ g.commits \in Seq(Commits) /\ g.commits = <<>> /\ Len(g.commits) = 0
  BY GroupIs, Empty DEF Founding
<1>1. Len(s.log) \in Nat /\ s.log # <<>> /\ s.log \in Seq(Commits)
  BY <1>0, ServerIs, Kinds DEF ServerOK
<1>2. Len(s.log) >= 1
  BY <1>1, Empty
<1>3. s.log[1] \in Commits
  BY <1>1, <1>2, ServerIs
<1>4. g.pending = s.log[1] /\ NoOwnPast(s, 1) /\ g.pending # NoCommit /\ g.pending \in Commits
  BY <1>3, Kinds DEF Founding
<1> DEFINE t == Append(g.commits, g.pending)
<1>5. /\ t # <<>> /\ Len(t) = 1 /\ t \in Seq(Commits) /\ t[1] = g.pending
  BY <1>0, <1>4, AppendAt
<1> HIDE DEF t
<1>6. merge_pending_commit(g).commits = t /\ merge_pending_commit(g).origin = g.origin
  BY <1>4, Merged DEF t
<1>7. Begins(t, s.log)
  BY <1>2, <1>4, <1>5 DEF Begins
<1> QED  BY <1>4, <1>5, <1>6, <1>7 DEF Level, Has

\* No commit in the server's group applies to a group at epoch 0: it was made
\* by this client, and so was the first commit.
LEMMA FoundingIsOwn ==
    ASSUME NEW s \in Servers, NEW g \in Groups, NEW used, NEW n,
           GroupOK(g, used, n), ServerOK(s, used, n), g.commits = <<>>, g.origin = s.origin
    PROVE  s.log[1].by = "self"
<1>1. Len(g.commits) = 0
  BY Empty, GroupIs
<1> QED  BY <1>1 DEF GroupOK, ServerOK

\* A join the server took is level; one it did not take is a fork.
LEMMA JoiningLevels ==
    ASSUME NEW s \in Servers, NEW g \in Groups, Joining(g, s)
    PROVE  /\ Len(g.commits) \in 1 .. Len(s.log) /\ s.log[Len(g.commits)].by = "self" => Level(g, s)
           /\ ~(Len(g.commits) \in 1 .. Len(s.log) /\ s.log[Len(g.commits)].by = "self") => ~Has(s, g)
<1>1. /\ Len(g.commits) \in Nat /\ Len(s.log) \in Nat /\ Len(g.commits) # 0
      /\ g.commits \in Seq(Commits)
  BY GroupIs, ServerIs, Empty DEF Joining
<1>2. ASSUME Len(g.commits) \in 1 .. Len(s.log), s.log[Len(g.commits)].by = "self"
      PROVE  Level(g, s)
    <2>1. s.log[Len(g.commits)] = g.commits[Len(g.commits)]
      BY <1>1, <1>2 DEF Joining
    <2>2. \A i \in 1 .. Len(g.commits) : g.commits[i] = s.log[i]
      BY <1>1, <1>2, <2>1 DEF Joining
    <2>3. Begins(g.commits, s.log)
      BY <1>1, <1>2, <2>2 DEF Begins
    <2> QED  BY <2>3 DEF Level, Has, Joining
<1>3. ASSUME Has(s, g)
      PROVE  Len(g.commits) \in 1 .. Len(s.log) /\ s.log[Len(g.commits)].by = "self"
  BY <1>1, <1>3 DEF Has, Begins, Joining
<1> QED  BY <1>2, <1>3

\* A commit of another member that applies takes a level group along.
LEMMA ApplyIs ==
    ASSUME NEW s \in Servers, NEW g \in Groups, NEW used, NEW n,
           GroupOK(g, used, n), ServerOK(s, used, n),
           NEW log \in Seq(Commits), Begins(log, s.log),
           NEW i \in 1 .. Len(log), Applies(g, s.origin, log, i)
    PROVE  LET h == process_operation_message(g, s.origin, log, i) IN
           /\ h \in Groups /\ GroupOK(h, used, n) /\ h # g
           /\ h.origin = g.origin /\ h.pending = NoCommit
           /\ Len(g.commits) = i - 1 /\ Len(h.commits) = i
           /\ h.commits = Append(g.commits, log[i])
           /\ Begins(g.commits, h.commits) /\ Begins(h.commits, log) /\ Has(s, h)
           /\ log[i] = s.log[i] /\ log[i].by # "self"
<1> DEFINE h == process_operation_message(g, s.origin, log, i)
           t == Append(g.commits, log[i])
<1>0. /\ g.origin \in Commits /\ g.commits \in Seq(Commits) /\ Len(g.commits) \in Nat
      /\ s.log \in Seq(Commits) /\ Len(log) \in Nat /\ i \in Nat /\ log[i] \in Commits
  BY GroupIs, ServerIs
<1>1. g.origin = s.origin /\ g.commits = SubSeq(log, 1, i - 1) /\ log[i].by # "self"
  BY DEF Applies
<1>2. i - 1 \in 0 .. Len(log)
  BY <1>0
<1>3. /\ Len(g.commits) = i - 1 /\ Begins(g.commits, log)
  BY <1>1, <1>2, SubSeqAt
<1>4. h = MlsGroup(g.origin, t, NoCommit)
  BY DEF process_operation_message
<1>5. /\ t \in Seq(Commits) /\ Len(t) = i /\ Begins(g.commits, t)
      /\ \A k \in 1 .. Len(g.commits) : t[k] = g.commits[k]
      /\ t[i] = log[i] /\ t # <<>>
    <2>1. Len(g.commits) + 1 = i
      BY <1>0, <1>3
    <2> QED  BY <1>0, <1>3, <2>1, AppendAt
<1> HIDE DEF t
<1>6. h \in Groups /\ h.origin = g.origin /\ h.commits = t /\ h.pending = NoCommit
  BY <1>0, <1>4, <1>5, MlsGroupIs
<1> HIDE DEF h
<1>7. Begins(t, log)
  BY <1>0, <1>3, <1>5 DEF Begins
<1>8. Begins(t, s.log) /\ Begins(g.commits, s.log)
  BY <1>0, <1>3, <1>5, <1>7, BeginsThrough
<1>9. i \in 1 .. Len(s.log) /\ log[i] = s.log[i]
  BY <1>0 DEF Begins
<1>10. ~log[i].adds
    <2>1. ASSUME s.log[i].adds  PROVE i \in 1 .. Len(g.commits)
      BY <1>1, <1>8, <1>9, <2>1, NotAMember DEF Has
    <2> QED  BY <1>0, <1>3, <1>9, <2>1
<1>11. GroupOK(h, used, n)
    <2>1. \A k \in 1 .. Len(t) : t[k].adds => k \in used
      BY <1>0, <1>3, <1>5, <1>10 DEF GroupOK
    <2>2. g.origin.by = "self" \/ \E k \in 1 .. Len(t) : t[k].by = "self" \/ t[k].adds
        <3>1. \A k \in 1 .. Len(g.commits) : k \in 1 .. Len(t) /\ t[k] = g.commits[k]
          BY <1>0, <1>3, <1>5
        <3> QED  BY <3>1 DEF GroupOK
    <2> QED  BY <1>6, <2>1, <2>2 DEF GroupOK
<1>12. h # g
  BY <1>0, <1>3, <1>5, <1>6
<1> QED  BY <1>1, <1>3, <1>5, <1>6, <1>7, <1>8, <1>9, <1>11, <1>12 DEF Has, h, t

\* A commit that does not apply leaves the group.
LEMMA ApplyNot ==
    ASSUME NEW g, NEW o, NEW log, NEW i, ~Applies(g, o, log, i)
    PROVE  process_operation_message(g, o, log, i) = g
BY DEF process_operation_message

\* The group a Welcome gives is level: this client has made no commit since.
LEMMA WelcomeIs ==
    ASSUME NEW s \in Servers, NEW used, NEW n, ServerOK(s, used, n),
           NEW log \in Seq(Commits), Begins(log, s.log),
           NEW i \in 1 .. Len(log), log[i].adds, i \notin used
    PROVE  LET h == MlsGroup(s.origin, SubSeq(log, 1, i), NoCommit) IN
           /\ h \in Groups /\ GroupOK(h, used \cup {i}, n)
           /\ h.pending = NoCommit /\ h.origin = s.origin
           /\ Len(h.commits) = i /\ Begins(h.commits, log) /\ Level(h, s)
<1> DEFINE t == SubSeq(log, 1, i)
           h == MlsGroup(s.origin, t, NoCommit)
<1>0. /\ s.log \in Seq(Commits) /\ Len(s.log) \in Nat /\ Len(log) \in Nat /\ i \in Nat
      /\ i \in 1 .. Len(s.log) /\ s.log[i] = log[i] /\ i \in 0 .. Len(log)
  BY ServerIs DEF Begins
<1>1. /\ t \in Seq(Commits) /\ Len(t) = i /\ \A k \in 1 .. i : t[k] = log[k]
      /\ Begins(t, log)
  BY <1>0, SubSeqAt
<1> HIDE DEF t
<1>2. s.origin \in Commits
    <2>1. s.log # <<>>
      BY <1>0, Empty
    <2> QED  BY <2>1, ServerIs DEF ServerOK
<1>3. h \in Groups /\ h.origin = s.origin /\ h.commits = t /\ h.pending = NoCommit
  BY <1>1, <1>2, MlsGroupIs
<1> HIDE DEF h
<1>4. /\ s.origin.by # "self"
      /\ \A k \in 1 .. Len(s.log) : k < i => s.log[k].by # "self" /\ ~s.log[k].adds
      /\ \A k \in 1 .. Len(s.log) : k > i => s.log[k].by # "self"
  BY <1>0 DEF ServerOK
<1>5. Begins(t, s.log)
  BY <1>0, <1>1, BeginsThrough
<1>6. \A k \in 1 .. Len(t) : t[k].adds => k \in used \cup {i}
  BY <1>0, <1>1, <1>4, <1>5 DEF Begins
<1>7. i \in 1 .. Len(t) /\ t[i].adds
  BY <1>0, <1>1
<1>8. GroupOK(h, used \cup {i}, n)
  BY <1>3, <1>4, <1>6, <1>7 DEF GroupOK
<1>9. Level(h, s)
    <2>1. t # <<>>
      BY <1>0, <1>1, Empty
    <2> QED  BY <1>1, <1>3, <1>4, <1>5, <2>1 DEF Level, Has, NoOwnPast
<1> QED  BY <1>1, <1>3, <1>8, <1>9 DEF h, t

-----------------------------------------------------------------------------
(* The server's group grows by another member's commit.                    *)

LEMMA NoOwnPastGrows ==
    ASSUME NEW s \in Servers, NEW s2 \in Servers, NEW c \in Commits, c.by # "self",
           s2.log = Append(s.log, c), NEW n \in Int, NoOwnPast(s, n)
    PROVE  NoOwnPast(s2, n)
<1>1. /\ s.log \in Seq(Commits) /\ Len(s.log) \in Nat /\ Len(s2.log) = Len(s.log) + 1
      /\ \A i \in 1 .. Len(s.log) : s2.log[i] = s.log[i]
      /\ s2.log[Len(s.log) + 1] = c
  BY ServerIs, AppendAt
<1> QED  BY <1>1 DEF NoOwnPast

LEMMA DescribesGrows ==
    ASSUME NEW s \in Servers, NEW s2 \in Servers, NEW c \in Commits, c.by # "self",
           s2.log = Append(s.log, c), s2.origin = s.origin, s.log # <<>>,
           NEW g \in Groups
    PROVE  /\ Level(g, s) => Level(g, s2)
           /\ LevelButPending(g, s) => LevelButPending(g, s2)
           /\ Founding(g, s) => Founding(g, s2)
           /\ Joining(g, s) => Joining(g, s2)
           /\ \A row : Describes(row, g, s) => Describes(row, g, s2)
           /\ \A r \in Requests : Matches(r, g, s) => Matches(r, g, s2)
<1>1. /\ s.log \in Seq(Commits) /\ Len(s.log) \in Nat /\ Len(s2.log) = Len(s.log) + 1
      /\ \A i \in 1 .. Len(s.log) : s2.log[i] = s.log[i]
      /\ s2.log[Len(s.log) + 1] = c /\ s2.log \in Seq(Commits)
      /\ Begins(s.log, s2.log)
  BY ServerIs, AppendAt
<1>2. /\ g.commits \in Seq(Commits) /\ Len(g.commits) \in Nat
      /\ (g.commits = <<>> <=> Len(g.commits) = 0)
  BY GroupIs, Empty
<1>3. \A n \in Int : NoOwnPast(s, n) => NoOwnPast(s2, n)
  BY NoOwnPastGrows
<1>4. Has(s, g) => Has(s2, g)
  BY <1>1, <1>2, BeginsThrough DEF Has
<1>5. Level(g, s) => Level(g, s2)
  BY <1>2, <1>3, <1>4 DEF Level
<1>6. LevelButPending(g, s) => LevelButPending(g, s2)
    <2>1. SUFFICES ASSUME LevelButPending(g, s)  PROVE LevelButPending(g, s2)
      OBVIOUS
    <2>2. NoOwnPast(s2, Len(g.commits) + 1) /\ Has(s2, g) /\ g.commits # <<>>
      BY <1>2, <1>3, <1>4, <2>1 DEF LevelButPending
    <2>3. ASSUME Len(g.commits) < Len(s2.log), s2.log[Len(g.commits) + 1].by = "self"
          PROVE  s2.log[Len(g.commits) + 1] = g.pending
        <3>1. Len(g.commits) < Len(s.log)
          BY <1>1, <1>2, <2>3
        <3>2. s2.log[Len(g.commits) + 1] = s.log[Len(g.commits) + 1]
          BY <1>1, <1>2, <3>1
        <3> QED  BY <2>1, <2>3, <3>1, <3>2 DEF LevelButPending
    <2> QED  BY <2>2, <2>3 DEF LevelButPending
<1>7. Founding(g, s) => Founding(g, s2)
    <2>1. Len(s.log) # 0
      BY <1>1, Empty
    <2>2. s2.log[1] = s.log[1]
      BY <1>1, <2>1
    <2> QED  BY <1>3, <2>2 DEF Founding
<1>8. Joining(g, s) => Joining(g, s2)
    <2>1. SUFFICES ASSUME Joining(g, s)  PROVE Joining(g, s2)
      OBVIOUS
    <2>2. NoOwnPast(s2, Len(g.commits)) /\ Len(g.commits) <= Len(s2.log) + 1
      BY <1>1, <1>2, <1>3, <2>1 DEF Joining
    <2>3. \A i \in 1 .. Len(s2.log) : i < Len(g.commits) => s2.log[i] = g.commits[i]
      BY <1>1, <1>2, <2>1 DEF Joining
    <2>4. ASSUME Len(g.commits) <= Len(s2.log), s2.log[Len(g.commits)].by = "self"
          PROVE  s2.log[Len(g.commits)] = g.commits[Len(g.commits)]
        <3>1. Len(g.commits) <= Len(s.log)
          BY <1>1, <1>2, <2>4
        <3>2. s2.log[Len(g.commits)] = s.log[Len(g.commits)]
          BY <1>1, <1>2, <2>1, <3>1 DEF Joining
        <3> QED  BY <2>1, <2>4, <3>1, <3>2 DEF Joining
    <2> QED  BY <2>1, <2>2, <2>3, <2>4 DEF Joining
<1>9. \A row : Describes(row, g, s) => Describes(row, g, s2)
  BY <1>5, <1>6, <1>7, <1>8 DEF Describes
<1>10. ASSUME NEW r \in Requests, Matches(r, g, s)  PROVE Matches(r, g, s2)
    <2>1. r.base \in Seq(Commits) /\ Len(r.base) \in Nat
      BY DEF Requests
    <2>2. Begins(r.base, s.log) => Begins(r.base, s2.log)
      BY <1>1, <2>1, BeginsThrough
    <2>3. NoOwnPast(s, Len(r.base)) => NoOwnPast(s2, Len(r.base))
      BY <1>3, <2>1
    <2> QED  BY <1>5, <1>10, <2>2, <2>3 DEF Matches
<1> QED  BY <1>5, <1>6, <1>7, <1>8, <1>9, <1>10

\* Another member founds the group: only a create can be under way here.
LEMMA DescribesFounded ==
    ASSUME NEW s \in Servers, NEW s2 \in Servers, s.origin = NoCommit, s.log = <<>>,
           s2.origin \in Commits, s2.origin.by # "self",
           NEW g \in Groups, NEW used, NEW n, GroupOK(g, used, n)
    PROVE  /\ ~Level(g, s)
           /\ \A row : Describes(row, g, s) => Describes(row, g, s2)
           /\ \A r \in Requests :
                RequestOK(r, used, n) /\ Matches(r, g, s) => Matches(r, g, s2)
<1>1. /\ g.commits \in Seq(Commits) /\ Len(g.commits) \in Nat /\ Len(s.log) = 0
      /\ (g.commits = <<>> <=> Len(g.commits) = 0) /\ g.origin # NoCommit
  BY GroupIs, ServerIs, Empty, Kinds
<1>2. ~Level(g, s) /\ ~LevelButPending(g, s) /\ ~Joining(g, s)
  BY <1>1 DEF Level, LevelButPending, Joining, Has, Begins
<1>3. Founding(g, s) => Founding(g, s2)
    <2>1. g.commits = <<>> => g.origin.by = "self"
      BY <1>1 DEF GroupOK
    <2> QED  BY <2>1 DEF Founding
<1>4. ASSUME NEW r \in Requests, RequestOK(r, used, n), Matches(r, g, s)
      PROVE  Matches(r, g, s2)
    <2>1. r.origin # NoCommit
      BY Kinds DEF Requests
    <2>2. r.kind = "create" /\ g.origin = r.origin /\ g.commits = r.base /\ g.pending = r.commit
      BY <1>2, <1>4, <2>1 DEF Matches
    <2>3. r.origin # s2.origin
      BY <1>4, <2>2 DEF RequestOK
    <2> QED  BY <2>2, <2>3 DEF Matches
<1> QED  BY <1>2, <1>3, <1>4 DEF Describes

\* What the server's group may look like, after a commit of another member.
LEMMA ServerGrows ==
    ASSUME NEW s \in Servers, NEW s2 \in Servers, NEW c \in Commits, c.by # "self",
           NEW used, NEW n, ServerOK(s, used, n),
           s2.log = Append(s.log, c), s2.origin = s.origin, s.origin # NoCommit,
           c.adds => /\ s.origin.by # "self"
                     /\ \A k \in 1 .. Len(s.log) : s.log[k].by # "self" /\ ~s.log[k].adds
    PROVE  ServerOK(s2, used, n)
<1>1. /\ s.log \in Seq(Commits) /\ Len(s.log) \in Nat /\ Len(s2.log) = Len(s.log) + 1
      /\ \A i \in 1 .. Len(s.log) : s2.log[i] = s.log[i]
      /\ s2.log[Len(s.log) + 1] = c /\ s2.log # <<>>
  BY ServerIs, AppendAt
<1>2. s.log # <<>> /\ Len(s.log) # 0
  BY <1>1, Empty DEF ServerOK
<1>3. s2.log[1] = s.log[1]
  BY <1>1, <1>2
<1>4. ASSUME NEW i \in 1 .. Len(s2.log), s2.log[i].adds
      PROVE  /\ s2.origin.by # "self"
             /\ \A k \in 1 .. Len(s2.log) : k < i => s2.log[k].by # "self" /\ ~s2.log[k].adds
             /\ i \notin used => \A k \in 1 .. Len(s2.log) : k > i => s2.log[k].by # "self"
    <2>1. CASE i = Len(s.log) + 1
      BY <1>1, <1>4, <2>1
    <2>2. CASE i # Len(s.log) + 1
        <3>1. i \in 1 .. Len(s.log) /\ s.log[i].adds
          BY <1>1, <1>4, <2>2
        <3>2. /\ s.origin.by # "self"
              /\ \A k \in 1 .. Len(s.log) : k < i => s.log[k].by # "self" /\ ~s.log[k].adds
              /\ i \notin used => \A k \in 1 .. Len(s.log) : k > i => s.log[k].by # "self"
          BY <3>1 DEF ServerOK
        <3> QED  BY <1>1, <3>1, <3>2
    <2> QED  BY <2>1, <2>2
<1> QED  BY <1>1, <1>2, <1>3, <1>4 DEF ServerOK

\* The server takes a commit of this client.
LEMMA ServerTakes ==
    ASSUME NEW s \in Servers, NEW used, NEW n, ServerOK(s, used, n),
           NEW r \in Requests, RequestOK(r, used, n),
           r.kind = "create" => s.origin = NoCommit,
           r.kind # "create" => r.origin = s.origin /\ r.base = s.log
    PROVE  LET s2 == [origin |-> r.origin, log |-> Append(r.base, r.commit)] IN
           s2 \in Servers /\ ServerOK(s2, used, n)
<1> DEFINE t == Append(r.base, r.commit)
           s2 == [origin |-> r.origin, log |-> t]
<1>0. /\ r.origin \in Commits /\ r.base \in Seq(Commits) /\ r.commit \in Commits
      /\ Len(r.base) \in Nat /\ r.origin # NoCommit
  BY Kinds DEF Requests
<1>1. /\ t \in Seq(Commits) /\ Len(t) = Len(r.base) + 1 /\ t # <<>>
      /\ \A i \in 1 .. Len(r.base) : t[i] = r.base[i]
      /\ t[Len(r.base) + 1] = r.commit
  BY <1>0, AppendAt
<1> HIDE DEF t
<1>2. s2 \in Servers /\ s2.origin = r.origin /\ s2.log = t
  BY <1>0, <1>1 DEF Servers
<1>3. r.commit.by = "self" /\ ~r.commit.adds
  BY DEF RequestOK
<1> HIDE DEF s2
<1>4. CASE r.kind = "create"
    <2>1. Len(r.base) = 0
      BY <1>0, <1>4, Empty DEF RequestOK
    <2>2. Len(t) = 1 /\ t[1] = r.commit
      BY <1>1, <2>1
    <2>3. ~t[1].adds
      BY <1>3, <2>2
    <2>4. s2.origin.by = "self" => s2.origin.n <= n
      BY <1>2 DEF RequestOK
    <2>5. \A i \in 1 .. Len(t) : ~t[i].adds
      BY <2>2, <2>3
    <2>6. ServerOK(s2, used, n)
      BY <1>0, <1>1, <1>2, <1>3, <2>2, <2>4, <2>5 DEF ServerOK
    <2> QED  BY <1>2, <2>6 DEF s2, t
<1>5. CASE r.kind # "create"
    <2>1. r.origin = s.origin /\ r.base = s.log /\ Len(r.base) # 0
      BY <1>0, <1>5, Empty DEF RequestOK
    <2>2. t[1] = s.log[1]
      BY <1>0, <1>1, <2>1
    <2>3. ASSUME NEW i \in 1 .. Len(t), t[i].adds
          PROVE  /\ s2.origin.by # "self" /\ i \in used
                 /\ \A k \in 1 .. Len(t) : k < i => t[k].by # "self" /\ ~t[k].adds
        <3>1. i \in 1 .. Len(s.log) /\ s.log[i].adds /\ t[i] = s.log[i]
          BY <1>0, <1>1, <1>3, <2>1, <2>3
        <3>2. /\ s.origin.by # "self"
              /\ \A k \in 1 .. Len(s.log) : k < i => s.log[k].by # "self" /\ ~s.log[k].adds
          BY <3>1 DEF ServerOK
        <3>3. i \in used
          BY <2>1, <3>1 DEF RequestOK
        <3>4. \A k \in 1 .. Len(t) : k < i => k \in 1 .. Len(s.log) /\ t[k] = s.log[k]
          BY <1>0, <1>1, <2>1, <3>1
        <3> QED  BY <1>2, <2>1, <3>2, <3>3, <3>4
    <2>4. s2.origin.by = "self" => t[1].by = "self" /\ s2.origin.n <= n
      BY <1>2, <2>1, <2>2 DEF ServerOK
    <2>5. ServerOK(s2, used, n)
      BY <1>0, <1>1, <1>2, <2>3, <2>4 DEF ServerOK
    <2> QED  BY <1>2, <2>5 DEF s2, t
<1> QED  BY <1>4, <1>5

-----------------------------------------------------------------------------
(* The bindings' operations.                                               *)

LEMMA InitHolds == Init => IInv
<1>1. SUFFICES ASSUME Init  PROVE IInv
  OBVIOUS
<1>2. /\ server.origin = NoCommit /\ server.log = <<>> /\ server \in Servers
  BY <1>1 DEF Init, Servers
<1>3. call.write = OpNone /\ call.result = NoRequest
  BY <1>1 DEF Init
<1>4. TypeInv
    <2>1. call \in [write : GroupPendingOperation, result : Requests \cup {NoRequest}]
      BY <1>1 DEF Init, GroupPendingOperation
    <2>2. batch \in [origin : Commits \cup {NoCommit}, log : Seq(Commits), pending_epoch : Int]
      BY <1>1 DEF Init, NoBatch
    <2> QED  BY <1>1, <1>2, <2>1, <2>2 DEF Init, TypeInv, GroupPendingOperation
<1>5. ServerOK(server, opened, own)
  BY <1>2, EmptySeq DEF ServerOK, NoCommit
<1>6. DataInv
  BY <1>1, <1>3, <1>5 DEF Init, DataInv
<1>7. FlightInv /\ BatchInv
  BY <1>1, <1>3 DEF Init, FlightInv, BatchInv, Processing
<1>8. RowInv /\ AnswerInv /\ ProgressInv
  BY <1>1, <1>3 DEF Init, RowInv, Describes, Row, AnswerInv, ProgressInv, Processing
<1> QED  BY <1>4, <1>6, <1>7, <1>8 DEF IInv, Facts

LEMMA StutterKeeps == ASSUME IInv, UNCHANGED vars  PROVE IInv'
BY DEF IInv, Facts, TypeInv, DataInv, FlightInv, BatchInv, RowInv, Row, AnswerInv, ProgressInv,
       Processing, Settled, vars, client

\* An operation whose transaction has committed: the row it is going to write
\* describes the new group, and its commit is that group's.
LEMMA TransactKeeps ==
    ASSUME IInv, Idle, Settled, own' = own + 1, misled' \in BOOLEAN,
           NEW g \in Groups, NEW write \in GroupPendingOperation,
           NEW result \in Requests \cup {NoRequest},
           Transact(g, write, result),
           GroupOK(g, opened, own + 1),
           result # NoRequest => RequestOK(result, opened, own + 1),
           ~misled' => Describes(write, g, server),
           ~misled' /\ result # NoRequest => Matches(result, g, server)
    PROVE  IInv'
<1>0. own \in Nat /\ own + 1 \in Nat /\ own <= own + 1
  BY DEF IInv, Facts, TypeInv
<1>1. /\ mls' = g /\ pc' = "status" /\ call' = [write |-> write, result |-> result]
      /\ UNCHANGED <<server, status, opened, outbox, answer, batch, mem, pos, loaded, clean>>
  BY DEF Transact
<1>2. call'.write = write /\ call'.result = result
  BY <1>1
<1>3. call' \in [write : GroupPendingOperation, result : Requests \cup {NoRequest}]
  BY <1>1
<1>4. outbox = NoRequest /\ answer = "none" /\ g # Absent
  BY GroupIs DEF Settled
<1>5. TypeInv'
  BY <1>0, <1>1, <1>3 DEF IInv, Facts, TypeInv
<1>6. DataInv'
    <2>1. /\ ServerOK(server, opened, own + 1)
          /\ mem # Absent => GroupOK(mem, opened, own + 1)
      BY <1>0, Later DEF IInv, Facts, TypeInv, DataInv
    <2> QED  BY <1>1, <1>2, <1>4, <2>1 DEF DataInv
<1>7. FlightInv' /\ BatchInv'
  BY <1>1, <1>4 DEF FlightInv, Settled, BatchInv, Processing
<1>8. ASSUME ~misled'  PROVE RowInv' /\ AnswerInv' /\ ProgressInv'
    <2>1. Row' = write
      BY <1>1, <1>2 DEF Row
    <2>2. RowInv'
      BY <1>1, <1>8, <2>1 DEF RowInv
    <2>3. AnswerInv'
      BY <1>1, <1>2, <1>4, <1>8 DEF AnswerInv
    <2> QED  BY <1>1, <2>2, <2>3 DEF ProgressInv, Processing
<1> QED  BY <1>5, <1>6, <1>7, <1>8 DEF IInv, Facts

LEMMA CreateKeeps == ASSUME IInv, create_group  PROVE IInv'
<1> DEFINE c == Own(own + 1)
           e == <<>>
           g == MlsGroup(c, e, NoCommit)
<1>0. own \in Nat /\ own + 1 \in Nat /\ server \in Servers /\ misled \in BOOLEAN
  BY DEF IInv, Facts, TypeInv
<1>1. c \in Commits /\ e \in Seq(Commits)
  BY <1>0, OwnIs
<1>1a. c.by = "self" /\ c.n = own + 1 /\ e = <<>>
  BY <1>0, OwnIs
<1> HIDE DEF c, e
<1>2. g \in Groups /\ g # Absent /\ g.origin = c /\ g.commits = e /\ g.pending = NoCommit
  BY <1>1, MlsGroupIs
<1> HIDE DEF g
<1>3. GroupOK(g, opened, own + 1)
  BY <1>0, <1>1a, <1>2, EmptySeq DEF GroupOK
<1>4. g.origin # server.origin
  BY <1>0, <1>1a, <1>2 DEF IInv, Facts, DataInv, ServerOK
<1>5. Describes(CreateGroup, g, server)
  BY <1>1a, <1>2, <1>4 DEF Describes, Founding, CreateGroup, JoinByExternalCommit, UpdateTree, OpNone
<1>6. CreateGroup \in GroupPendingOperation
  BY DEF GroupPendingOperation
<1>7. Idle /\ Settled /\ own' = own + 1 /\ misled' = misled /\ Transact(g, CreateGroup, NoRequest)
  BY DEF create_group, g, c, e
<1> QED  BY <1>0, <1>2, <1>3, <1>5, <1>6, <1>7, TransactKeeps

\* A commit on top of a group the row describes, when nothing else is pending
\* and no join is recorded.
LEMMA CommitKeeps ==
    ASSUME IInv, Idle, Settled, own' = own + 1, misled' \in BOOLEAN,
           mls # Absent, mls.pending = NoCommit,
           NEW write \in GroupPendingOperation,
           Transact([mls EXCEPT !.pending = Own(own + 1)], write,
                    CommitRequest(mls, Own(own + 1))),
           ~misled' => ~misled /\ \/ status \in {OpNone, UpdateTree} /\ write = UpdateTree
                                  \/ status = CreateGroup /\ write = CreateGroup
    PROVE  IInv'
<1> DEFINE c == Own(own + 1)
           g == [mls EXCEPT !.pending = c]
           r == CommitRequest(mls, c)
<1>0. /\ own \in Nat /\ own + 1 \in Nat /\ server \in Servers /\ mls \in Groups
      /\ GroupOK(mls, opened, own) /\ ServerOK(server, opened, own)
  BY DEF IInv, Facts, TypeInv, DataInv
<1>1. c \in Commits /\ c.by = "self" /\ ~c.adds
  BY <1>0, OwnIs
<1> HIDE DEF c
<1>2. /\ mls.origin \in Commits /\ mls.commits \in Seq(Commits) /\ Len(mls.commits) \in Nat
      /\ (mls.commits = <<>> <=> Len(mls.commits) = 0)
  BY <1>0, GroupIs, Empty
<1>3. g \in Groups /\ g.origin = mls.origin /\ g.commits = mls.commits /\ g.pending = c
  BY <1>0, <1>1 DEF Groups
<1>4. /\ r \in Requests /\ r.origin = mls.origin /\ r.base = mls.commits /\ r.commit = c
      /\ r.kind = IF mls.commits = <<>> THEN "create" ELSE "update"
  BY <1>1, <1>2 DEF CommitRequest, Request, Requests
<1> HIDE DEF g, r
<1>5. GroupOK(mls, opened, own + 1)
    <2>1. own <= own + 1 /\ opened \subseteq opened
      BY <1>0
    <2> QED  BY <1>0, <2>1, Later
<1>6. GroupOK(g, opened, own + 1)
  BY <1>1, <1>3, <1>5 DEF GroupOK
<1>7. RequestOK(r, opened, own + 1)
    <2>1. mls.commits = <<>> => mls.origin.by = "self"
      BY <1>2, <1>5 DEF GroupOK
    <2>2. r.kind = "create" <=> r.base = <<>>
      BY <1>4
    <2>3. r.origin.by = "self" => r.origin.n <= own + 1
      BY <1>4, <1>5 DEF GroupOK
    <2>4. \A i \in 1 .. Len(r.base) : r.base[i].adds => i \in opened
      BY <1>4, <1>5 DEF GroupOK
    <2> QED  BY <1>1, <1>4, <2>1, <2>2, <2>3, <2>4 DEF RequestOK
<1>8. ASSUME ~misled'  PROVE Describes(write, g, server) /\ Matches(r, g, server)
    <2>1. Describes(status, mls, server)
      BY <1>8 DEF IInv, RowInv, Row, Idle
    <2>2. CASE status \in {OpNone, UpdateTree} /\ write = UpdateTree
        <3>1. Level(mls, server)
            <4>1. CASE status = OpNone
              BY <1>0, <2>1, <4>1 DEF Describes
            <4>2. CASE status = UpdateTree
                <5>1. LevelButPending(mls, server)
                  BY <1>0, <2>1, <4>2 DEF Describes
                <5> QED  BY <1>0, <5>1, NothingPending
            <4> QED  BY <2>2, <4>1, <4>2
        <3>2. Level(g, server)
          BY <1>0, <1>3, <3>1, LevelOf
        <3>3. LevelButPending(g, server) /\ g # Absent
          BY <1>0, <1>3, <3>2, LevelIsButPending, GroupIs
        <3>4. Describes(write, g, server)
          BY <2>2, <3>3 DEF Describes, CreateGroup, JoinByExternalCommit, UpdateTree, OpNone
        <3>5. r.kind = "update"
          BY <1>4, <3>1 DEF Level
        <3> QED  BY <1>3, <1>4, <3>2, <3>4, <3>5 DEF Matches
    <2>3. CASE status = CreateGroup /\ write = CreateGroup
        <3>1. Founding(mls, server)
          BY <1>0, <2>1, <2>3 DEF Describes
        <3>2. mls.origin # server.origin
          BY <1>0, <3>1, FoundingLevels
        <3>3. Founding(g, server) /\ g # Absent
          BY <1>3, <3>1, <3>2, GroupIs DEF Founding
        <3>4. Describes(write, g, server)
          BY <2>3, <3>3 DEF Describes, CreateGroup, JoinByExternalCommit, UpdateTree, OpNone
        <3>5. r.kind = "create"
          BY <1>4, <3>1 DEF Founding
        <3> QED  BY <1>3, <1>4, <3>2, <3>4, <3>5 DEF Matches
    <2> QED  BY <1>8, <2>2, <2>3
<1>9. Transact(g, write, r)
  BY DEF g, r, c
<1> QED  BY <1>3, <1>4, <1>6, <1>7, <1>8, <1>9, TransactKeeps

LEMMA AddMembersKeeps == ASSUME IInv, add_members  PROVE IInv'
<1> DEFINE write == IF status = OpNone THEN UpdateTree ELSE status
<1>1. status \in GroupPendingOperation /\ misled \in BOOLEAN
  BY DEF IInv, Facts, TypeInv
<1>2. write \in GroupPendingOperation
  BY <1>1 DEF GroupPendingOperation
<1>3. misled' \in BOOLEAN /\ (~misled' => ~misled /\ status # JoinByExternalCommit)
  BY <1>1 DEF add_members
<1>4. ~misled' => \/ status \in {OpNone, UpdateTree} /\ write = UpdateTree
                  \/ status = CreateGroup /\ write = CreateGroup
  BY <1>1, <1>3 DEF GroupPendingOperation, OpNone, UpdateTree, CreateGroup
<1>5. /\ Idle /\ Settled /\ own' = own + 1 /\ mls # Absent /\ mls.pending = NoCommit
      /\ Transact([mls EXCEPT !.pending = Own(own + 1)], write, CommitRequest(mls, Own(own + 1)))
  BY DEF add_members
<1> QED  BY <1>2, <1>3, <1>4, <1>5, CommitKeeps

LEMMA UpdateTreeKeeps == ASSUME IInv, update_tree  PROVE IInv'
<1>1. status \in GroupPendingOperation /\ misled \in BOOLEAN
  BY DEF IInv, Facts, TypeInv
<1>2. UpdateTree \in GroupPendingOperation
  BY DEF GroupPendingOperation
<1>3. misled' \in BOOLEAN /\ (~misled' => ~misled /\ status \in {OpNone, UpdateTree})
  BY <1>1 DEF update_tree, Unsettled, GroupPendingOperation
<1>4. /\ Idle /\ Settled /\ own' = own + 1 /\ mls # Absent /\ mls.pending = NoCommit
      /\ Transact([mls EXCEPT !.pending = Own(own + 1)], UpdateTree,
                  CommitRequest(mls, Own(own + 1)))
  BY DEF update_tree
<1> QED  BY <1>2, <1>3, <1>4, CommitKeeps

LEMMA JoinKeeps == ASSUME IInv, join_by_external_commit  PROVE IInv'
<1> DEFINE c == Own(own + 1)
           s == Append(server.log, c)
           g == MlsGroup(server.origin, s, NoCommit)
           r == Request("join", server.origin, server.log, c)
<1>0. /\ own \in Nat /\ own + 1 \in Nat /\ server \in Servers /\ misled \in BOOLEAN
      /\ ServerOK(server, opened, own)
  BY DEF IInv, Facts, TypeInv, DataInv
<1>1. c \in Commits /\ c.by = "self" /\ ~c.adds
  BY <1>0, OwnIs
<1> HIDE DEF c
<1>2. /\ server.log \in Seq(Commits) /\ Len(server.log) \in Nat /\ server.origin \in Commits
      /\ server.origin # NoCommit /\ server.log # <<>>
  BY <1>0, ServerIs DEF join_by_external_commit, Exists, ServerOK
<1>3. /\ server.origin.by # "self"
      /\ \A i \in 1 .. Len(server.log) : server.log[i].by # "self" /\ ~server.log[i].adds
    <2>1. DOMAIN server.log = 1 .. Len(server.log)
      BY <1>2
    <2> QED  BY <2>1 DEF join_by_external_commit, SelfIsMember
<1>4. /\ s \in Seq(Commits) /\ Len(s) = Len(server.log) + 1 /\ s # <<>>
      /\ \A i \in 1 .. Len(server.log) : s[i] = server.log[i]
      /\ s[Len(server.log) + 1] = c
  BY <1>1, <1>2, AppendAt
<1> HIDE DEF s
<1>5. g \in Groups /\ g # Absent /\ g.origin = server.origin /\ g.commits = s /\ g.pending = NoCommit
  BY <1>2, <1>4, MlsGroupIs
<1>6. /\ r \in Requests /\ r.kind = "join" /\ r.origin = server.origin /\ r.base = server.log
      /\ r.commit = c
  BY <1>1, <1>2 DEF Request, Requests
<1> HIDE DEF g, r
<1>7. GroupOK(g, opened, own + 1)
    <2>1. Len(server.log) + 1 \in 1 .. Len(s) /\ s[Len(server.log) + 1].by = "self"
      BY <1>1, <1>2, <1>4
    <2>2. \A i \in 1 .. Len(s) : ~s[i].adds
      BY <1>1, <1>2, <1>3, <1>4
    <2> QED  BY <1>3, <1>5, <2>1, <2>2 DEF GroupOK
<1>8. RequestOK(r, opened, own + 1)
  BY <1>1, <1>2, <1>3, <1>6 DEF RequestOK
<1>9. NoOwnPast(server, Len(g.commits)) /\ NoOwnPast(server, Len(server.log))
  BY <1>2, <1>3 DEF NoOwnPast
<1>10. Joining(g, server)
    <2>1. g.commits[Len(g.commits)] = c
      BY <1>4, <1>5
    <2>2. \A i \in 1 .. Len(server.log) : i < Len(g.commits) => server.log[i] = g.commits[i]
      BY <1>4, <1>5
    <2> QED  BY <1>1, <1>2, <1>4, <1>5, <1>9, <2>1, <2>2 DEF Joining
<1>11. Describes(JoinByExternalCommit, g, server)
  BY <1>5, <1>10 DEF Describes, CreateGroup, JoinByExternalCommit, UpdateTree, OpNone
<1>12. Matches(r, g, server)
    <2>1. Begins(server.log, server.log)
      BY <1>2 DEF Begins
    <2> QED  BY <1>5, <1>6, <1>9, <2>1 DEF Matches, s
<1>13. JoinByExternalCommit \in GroupPendingOperation
  BY DEF GroupPendingOperation
<1>14. Idle /\ Settled /\ own' = own + 1 /\ misled' = misled /\ Transact(g, JoinByExternalCommit, r)
  BY DEF join_by_external_commit, g, r, s, c
<1> QED  BY <1>0, <1>5, <1>6, <1>7, <1>8, <1>11, <1>12, <1>13, <1>14, TransactKeeps

\* Outside a call there is no request that is still to be returned.
LEMMA NoResult == ASSUME IInv, pc # "status"  PROVE call.result = NoRequest
BY DEF IInv, Facts, FlightInv

\* The server's answer is settled: the group becomes g, with its row to reset.
LEMMA SettleKeeps ==
    ASSUME IInv, Idle, answer # "none", mls # Absent,
           NEW g \in Groups, GroupOK(g, opened, own),
           mls' = g, answer' = "none", pc' = "status",
           call' = [write |-> OpNone, result |-> NoRequest],
           UNCHANGED <<server, status, opened, outbox, batch, mem, pos, loaded, clean, own, misled>>,
           ~misled => Level(g, server) /\ g.pending = NoCommit
    PROVE  IInv'
<1>1. call'.write = OpNone /\ call'.result = NoRequest /\ g # Absent
  BY GroupIs
<1>2. call' \in [write : GroupPendingOperation, result : Requests \cup {NoRequest}]
  BY DEF GroupPendingOperation
<1>3. outbox = NoRequest
  BY DEF IInv, Facts, FlightInv
<1>4. TypeInv'
  BY <1>2 DEF IInv, Facts, TypeInv
<1>5. DataInv'
  BY <1>1, <1>3 DEF IInv, Facts, DataInv
<1>6. FlightInv' /\ BatchInv'
  BY <1>1, <1>3 DEF FlightInv, Settled, BatchInv, Processing
<1>7. ASSUME ~misled'  PROVE RowInv' /\ AnswerInv' /\ ProgressInv'
    <2>1. Row' = OpNone
      BY <1>1 DEF Row
    <2>2. Describes(OpNone, g, server)
      BY <1>1, <1>7 DEF Describes, CreateGroup, JoinByExternalCommit, UpdateTree, OpNone
    <2>3. RowInv'
      BY <2>1, <2>2 DEF RowInv
    <2>4. AnswerInv'
      BY <1>1, <1>3 DEF AnswerInv
    <2> QED  BY <2>3, <2>4 DEF ProgressInv, Processing
<1> QED  BY <1>4, <1>5, <1>6, <1>7 DEF IInv, Facts

LEMMA MergeKeeps == ASSUME IInv, merge_on_accept  PROVE IInv'
<1> DEFINE g == merge_pending_commit(mls)
<1>1. mls # Absent /\ mls \in Groups /\ GroupOK(mls, opened, own)
  BY DEF IInv, Facts, TypeInv, DataInv, merge_on_accept
<1>2. g \in Groups /\ GroupOK(g, opened, own) /\ g.pending = NoCommit
  BY <1>1, Merged
<1>3. ~misled => Level(g, server)
  BY <1>1 DEF IInv, AnswerInv, merge_on_accept
<1>4. /\ Idle /\ answer # "none" /\ mls' = g /\ answer' = "none" /\ pc' = "status"
      /\ call' = [write |-> OpNone, result |-> NoRequest]
      /\ UNCHANGED <<server, status, opened, outbox, batch, mem, pos, loaded, clean, own, misled>>
  BY DEF merge_on_accept
<1> QED  BY <1>1, <1>2, <1>3, <1>4, SettleKeeps

LEMMA ClearKeeps == ASSUME IInv, clear_on_reject  PROVE IInv'
<1> DEFINE g == clear_pending_commit(mls)
<1>1. mls # Absent /\ mls \in Groups /\ GroupOK(mls, opened, own) /\ server \in Servers
  BY DEF IInv, Facts, TypeInv, DataInv, clear_on_reject
<1>2. /\ g \in Groups /\ GroupOK(g, opened, own) /\ g.pending = NoCommit
      /\ g.origin = mls.origin /\ g.commits = mls.commits
  BY <1>1, Cleared
<1> HIDE DEF g
<1>3. ~misled => Level(mls, server)
  BY <1>1 DEF IInv, AnswerInv, clear_on_reject
<1>4. ~misled => Level(g, server)
  BY <1>1, <1>2, <1>3, LevelOf
<1>5. /\ Idle /\ answer # "none" /\ mls' = g /\ answer' = "none" /\ pc' = "status"
      /\ call' = [write |-> OpNone, result |-> NoRequest]
      /\ UNCHANGED <<server, status, opened, outbox, batch, mem, pos, loaded, clean, own, misled>>
  BY DEF clear_on_reject, g
<1> QED  BY <1>1, <1>2, <1>4, <1>5, SettleKeeps

LEMMA DeleteKeeps ==
    ASSUME IInv, delete_on_reject \/ delete_by_user
    PROVE  IInv'
<1>1. /\ Idle /\ mls' = Absent /\ answer' = "none" /\ pc' = "delete_status"
      /\ call' = [write |-> OpNone, result |-> NoRequest]
      /\ UNCHANGED <<server, status, opened, outbox, batch, mem, pos, loaded, clean, own, misled>>
  BY DEF delete_on_reject, delete_by_user, delete_group
<1>2. call'.write = OpNone /\ call'.result = NoRequest
  BY <1>1
<1>3. call' \in [write : GroupPendingOperation, result : Requests \cup {NoRequest}]
  BY <1>1 DEF GroupPendingOperation
<1>4. outbox = NoRequest
  BY DEF IInv, Facts, FlightInv, delete_on_reject, delete_by_user, Settled
<1>5. TypeInv'
  BY <1>1, <1>3 DEF IInv, Facts, TypeInv
<1>6. DataInv'
  BY <1>1, <1>2, <1>4 DEF IInv, Facts, DataInv
<1>7. FlightInv' /\ BatchInv'
  BY <1>1, <1>2, <1>4 DEF FlightInv, Settled, BatchInv, Processing
<1>8. Row' = OpNone
  BY <1>1, <1>2 DEF Row
<1>9. RowInv' /\ AnswerInv' /\ ProgressInv'
  BY <1>1, <1>8 DEF RowInv, Describes, AnswerInv, ProgressInv, Processing
<1> QED  BY <1>5, <1>6, <1>7, <1>9 DEF IInv, Facts

\* The call ends; its commit, if it made one, goes to the network.
LEMMA WriteKeeps ==
    ASSUME IInv, WriteStatus \/ WriteStatusFails
    PROVE  IInv'
<1>1. /\ pc \in {"status", "delete_status"} /\ pc' = "idle"
      /\ call' = [write |-> OpNone, result |-> NoRequest]
      /\ outbox' = IF call.result = NoRequest THEN outbox ELSE call.result
      /\ UNCHANGED <<server, mls, opened, answer, batch, mem, pos, loaded, clean, own>>
  BY DEF WriteStatus, WriteStatusFails
<1>2. call'.write = OpNone /\ call'.result = NoRequest
  BY <1>1
<1>3. call' \in [write : GroupPendingOperation, result : Requests \cup {NoRequest}]
  BY <1>1 DEF GroupPendingOperation
<1>4. /\ call.write \in GroupPendingOperation /\ call.result \in Requests \cup {NoRequest}
      /\ misled \in BOOLEAN /\ status \in GroupPendingOperation
  BY DEF IInv, Facts, TypeInv
<1>5. misled' \in BOOLEAN /\ status' \in GroupPendingOperation
  BY <1>4 DEF WriteStatus, WriteStatusFails
<1>6. TypeInv'
  BY <1>1, <1>3, <1>4, <1>5 DEF IInv, Facts, TypeInv
<1>7. DataInv'
  BY <1>1, <1>2 DEF IInv, Facts, DataInv
<1>8. FlightInv' /\ BatchInv'
  BY <1>1, <1>2 DEF IInv, Facts, FlightInv, Settled, BatchInv, Processing
<1>9. ASSUME ~misled'  PROVE RowInv' /\ AnswerInv' /\ ProgressInv'
    <2>1. status' = call.write /\ Row' = call.write
      BY <1>1, <1>9 DEF WriteStatus, WriteStatusFails, Row
    <2>2. CASE pc = "delete_status"
        <3>1. mls' = Absent /\ call.write = OpNone
          BY <1>1, <2>2 DEF IInv, Facts, FlightInv
        <3> QED
          BY <1>1, <2>1, <3>1 DEF RowInv, Describes, AnswerInv, ProgressInv, Processing
    <2>3. CASE pc # "delete_status"
        <3>1. ~misled
          BY <1>4, <1>9, <2>3 DEF WriteStatus, WriteStatusFails
        <3>2. Row = call.write
          BY <1>1 DEF Row
        <3>3. RowInv'
          BY <1>1, <2>1, <3>1, <3>2 DEF IInv, RowInv
        <3>4. AnswerInv'
          BY <1>1, <1>2, <3>1 DEF IInv, AnswerInv
        <3> QED  BY <1>1, <3>3, <3>4 DEF ProgressInv, Processing
    <2> QED  BY <2>2, <2>3
<1> QED  BY <1>6, <1>7, <1>8, <1>9 DEF IInv, Facts

\* A pending commit of this client can no longer be accepted once another
\* member's commit has been applied.
LEMMA LiveCommitKeeps == ASSUME IInv, process_live_commit  PROVE IInv'
<1>0. /\ server \in Servers /\ mls \in Groups /\ mls # Absent /\ misled \in BOOLEAN
      /\ GroupOK(mls, opened, own) /\ ServerOK(server, opened, own)
      /\ status \in GroupPendingOperation
  BY DEF IInv, Facts, TypeInv, DataInv, process_live_commit
<1>1. /\ server.log \in Seq(Commits) /\ Len(server.log) \in Nat
      /\ DOMAIN server.log = 1 .. Len(server.log) /\ Begins(server.log, server.log)
  BY <1>0, ServerIs DEF Begins
<1>2. PICK i \in 1 .. Len(server.log) :
          /\ Applies(mls, server.origin, server.log, i)
          /\ mls' = process_operation_message(mls, server.origin, server.log, i)
  BY <1>1 DEF process_live_commit
<1> DEFINE h == process_operation_message(mls, server.origin, server.log, i)
<1>3. /\ h \in Groups /\ GroupOK(h, opened, own) /\ h.pending = NoCommit
      /\ Len(mls.commits) = i - 1 /\ Len(h.commits) = i /\ Has(server, h)
      /\ Begins(mls.commits, h.commits)
  BY <1>0, <1>1, <1>2, ApplyIs
<1>4. mls' = h
  BY <1>2
<1> HIDE DEF h
<1>5. /\ pc = "idle" /\ UNCHANGED <<server, status, opened, client, own>>
      /\ misled' = (misled \/ Unsettled)
  BY DEF process_live_commit, Idle
<1>6. /\ UNCHANGED <<pc, call, outbox, answer, batch, mem, pos, loaded, clean>>
      /\ h # Absent
  BY <1>3, <1>5, GroupIs DEF client
<1>7. TypeInv'
  BY <1>3, <1>4, <1>5, <1>6 DEF IInv, Facts, TypeInv
<1>8. DataInv'
  BY <1>3, <1>4, <1>5, <1>6 DEF IInv, Facts, DataInv
<1>9. FlightInv' /\ BatchInv'
  BY <1>5, <1>6 DEF IInv, Facts, FlightInv, Settled, BatchInv, Processing
<1>10. ASSUME ~misled'  PROVE RowInv' /\ AnswerInv' /\ ProgressInv'
    <2>1. ~misled /\ status \in {OpNone, UpdateTree}
      BY <1>0, <1>5, <1>10 DEF Unsettled, GroupPendingOperation
    <2>2. Row = status /\ Row' = status /\ Describes(status, mls, server)
      BY <1>5, <1>6, <2>1 DEF IInv, RowInv, Row
    <2>3. LevelButPending(mls, server)
        <3>1. CASE status = OpNone
          BY <1>0, <2>2, <3>1, LevelIsButPending DEF Describes
        <3>2. CASE status = UpdateTree
          BY <1>0, <2>2, <3>2 DEF Describes
        <3> QED  BY <2>1, <3>1, <3>2
    <2>4. Level(h, server)
        <3>1. h.commits # <<>>
          BY <1>1, <1>3, Empty, GroupIs
        <3>2. Len(mls.commits) + 1 = i
          BY <1>1, <1>3
        <3>3. NoOwnPast(server, i)
          BY <2>3, <3>2 DEF LevelButPending
        <3> QED  BY <1>3, <3>1, <3>3 DEF Level
    <2>5. LevelButPending(h, server)
      BY <1>0, <1>3, <2>4, LevelIsButPending
    <2>6. RowInv'
        <3>1. Describes(status, h, server)
          BY <1>3, <1>6, <2>1, <2>4, <2>5
          DEF Describes, CreateGroup, JoinByExternalCommit, UpdateTree, OpNone
        <3> QED  BY <1>4, <1>5, <2>2, <3>1 DEF RowInv
    <2>7. merge_pending_commit(h) = h
      BY <1>3 DEF merge_pending_commit
    <2>8. ASSUME outbox # NoRequest  PROVE Matches(outbox, h, server)
        <3>1. /\ outbox \in Requests /\ RequestOK(outbox, opened, own)
              /\ outbox.base \in Seq(Commits) /\ outbox.commit \in Commits
              /\ Len(outbox.base) \in Nat
          BY <2>8 DEF IInv, Facts, TypeInv, DataInv, Requests
        <3>2. Matches(outbox, mls, server)
          BY <1>0, <2>1, <2>8 DEF IInv, AnswerInv
        <3>3. outbox.kind # "create"
            <4>1. ASSUME outbox.kind = "create"  PROVE FALSE
                <5>1. mls.commits = outbox.base
                  BY <3>2, <4>1 DEF Matches
                <5> QED  BY <2>3, <3>1, <4>1, <5>1 DEF RequestOK, LevelButPending
            <4> QED  BY <4>1
        <3>4. outbox.kind # "join"
            <4>1. SUFFICES ASSUME outbox.kind = "join"  PROVE FALSE
              OBVIOUS
            <4>2. mls.commits = Append(outbox.base, outbox.commit) /\ NoOwnPast(server, Len(outbox.base))
              BY <3>2, <4>1 DEF Matches
            <4>3. /\ Len(mls.commits) = Len(outbox.base) + 1
                  /\ mls.commits[Len(outbox.base) + 1] = outbox.commit
              BY <3>1, <4>2, AppendAt
            <4>4. Len(mls.commits) <= Len(server.log) /\ \A k \in 1 .. Len(mls.commits) : mls.commits[k] = server.log[k]
              BY <2>3 DEF LevelButPending, Has, Begins
            <4>5. server.log[Len(outbox.base) + 1].by # "self" /\ Len(outbox.base) + 1 \in 1 .. Len(mls.commits)
              BY <1>1, <3>1, <4>2, <4>3, <4>4 DEF NoOwnPast
            <4> QED  BY <3>1, <4>3, <4>4, <4>5 DEF RequestOK
        <3>5. outbox.kind = "update" /\ Len(outbox.base) <= Len(mls.commits)
          BY <1>0, <3>1, <3>2, <3>3, <3>4, GroupIs DEF Matches
        <3>6. Len(outbox.base) < Len(h.commits)
          BY <1>1, <1>3, <3>1, <3>5
        <3> QED  BY <2>4, <3>5, <3>6 DEF Matches
    <2>9. call.result = NoRequest
      BY <1>5, NoResult
    <2>10. AnswerInv'
      BY <1>4, <1>5, <1>6, <2>4, <2>7, <2>8, <2>9 DEF AnswerInv
    <2> QED  BY <1>5, <1>6, <2>6, <2>10 DEF ProgressInv, Processing
<1> QED  BY <1>7, <1>8, <1>9, <1>10 DEF IInv, Facts

LEMMA LiveWelcomeKeeps == ASSUME IInv, process_live_welcome  PROVE IInv'
<1>0. /\ server \in Servers /\ misled \in BOOLEAN /\ ServerOK(server, opened, own)
      /\ own \in Nat
  BY DEF IInv, Facts, TypeInv, DataInv
<1>1. /\ server.log \in Seq(Commits) /\ Len(server.log) \in Nat
      /\ DOMAIN server.log = 1 .. Len(server.log) /\ Begins(server.log, server.log)
  BY <1>0, ServerIs DEF Begins
<1>2. PICK i \in 1 .. Len(server.log) :
          /\ i \notin opened /\ server.log[i].adds
          /\ mls' = MlsGroup(server.origin, SubSeq(server.log, 1, i), NoCommit)
          /\ opened' = opened \cup {i}
  BY <1>1 DEF process_live_welcome
<1> DEFINE h == MlsGroup(server.origin, SubSeq(server.log, 1, i), NoCommit)
<1>3. h \in Groups /\ GroupOK(h, opened \cup {i}, own) /\ h.pending = NoCommit /\ Level(h, server)
  BY <1>0, <1>1, <1>2, WelcomeIs
<1>4. mls' = h
  BY <1>2
<1> HIDE DEF h
<1>5. /\ pc = "idle" /\ outbox = NoRequest /\ answer = "none"
      /\ UNCHANGED <<server, status, client, own>>
      /\ misled' = (misled \/ status # OpNone)
  BY DEF process_live_welcome, Idle, Settled
<1>6. /\ UNCHANGED <<pc, call, outbox, answer, batch, mem, pos, loaded, clean>>
      /\ h # Absent /\ call.result = NoRequest
  BY <1>3, <1>5, GroupIs, NoResult DEF client
<1>7. TypeInv'
  BY <1>3, <1>4, <1>5, <1>6 DEF IInv, Facts, TypeInv
<1>8. DataInv'
    <2>1. opened \subseteq opened' /\ opened' = opened \cup {i} /\ own <= own
      BY <1>0, <1>2
    <2>2. /\ ServerOK(server, opened', own)
          /\ mem # Absent => GroupOK(mem, opened', own)
      BY <1>0, <2>1, Later DEF IInv, Facts, TypeInv, DataInv
    <2> QED  BY <1>3, <1>4, <1>5, <1>6, <2>1, <2>2 DEF DataInv
<1>9. FlightInv' /\ BatchInv'
  BY <1>5, <1>6 DEF IInv, Facts, FlightInv, Settled, BatchInv, Processing
<1>10. ASSUME ~misled'  PROVE RowInv' /\ AnswerInv' /\ ProgressInv'
    <2>1. status = OpNone /\ Row' = OpNone
      BY <1>5, <1>6, <1>10 DEF Row
    <2>2. Describes(OpNone, h, server)
      BY <1>3, <1>6 DEF Describes, CreateGroup, JoinByExternalCommit, UpdateTree, OpNone
    <2>3. RowInv'
      BY <1>4, <1>5, <2>1, <2>2 DEF RowInv
    <2>4. AnswerInv'
      BY <1>5, <1>6 DEF AnswerInv
    <2> QED  BY <1>5, <1>6, <2>3, <2>4 DEF ProgressInv, Processing
<1> QED  BY <1>7, <1>8, <1>9, <1>10 DEF IInv, Facts

LEMMA ClearProposalsKeeps == ASSUME IInv, clear_pending_proposals  PROVE IInv'
<1>0. /\ server \in Servers /\ mls \in Groups /\ mls # Absent /\ misled \in BOOLEAN
      /\ status \in GroupPendingOperation
  BY DEF IInv, Facts, TypeInv, clear_pending_proposals
<1>1. /\ pc = "idle" /\ pc' = "status" /\ status # OpNone
      /\ call' = [write |-> OpNone, result |-> NoRequest]
      /\ misled' = (misled \/ Unsettled \/ mls.pending # NoCommit)
      /\ UNCHANGED <<server, mls, status, opened, outbox, answer, batch, mem, pos, loaded, clean, own>>
  BY DEF clear_pending_proposals, Idle
<1>2. call'.write = OpNone /\ call'.result = NoRequest
  BY <1>1
<1>3. call' \in [write : GroupPendingOperation, result : Requests \cup {NoRequest}]
  BY <1>1 DEF GroupPendingOperation
<1>4. TypeInv'
  BY <1>0, <1>1, <1>3 DEF IInv, Facts, TypeInv, Unsettled
<1>5. DataInv'
  BY <1>1, <1>2 DEF IInv, Facts, DataInv
<1>6. FlightInv' /\ BatchInv'
  BY <1>1, <1>2 DEF IInv, Facts, FlightInv, Settled, BatchInv, Processing
<1>7. ASSUME ~misled'  PROVE RowInv' /\ AnswerInv' /\ ProgressInv'
    <2>1. ~misled /\ status = UpdateTree /\ mls.pending = NoCommit
      BY <1>0, <1>1, <1>7 DEF Unsettled, GroupPendingOperation
    <2>2. Describes(status, mls, server)
      BY <1>1, <2>1 DEF IInv, RowInv, Row
    <2>3. LevelButPending(mls, server)
      BY <1>0, <2>1, <2>2 DEF Describes
    <2>4. Level(mls, server)
      BY <1>0, <2>1, <2>3, NothingPending
    <2>5. Describes(OpNone, mls, server)
      BY <1>0, <2>1, <2>4 DEF Describes, CreateGroup, JoinByExternalCommit, UpdateTree, OpNone
    <2>6. Row' = OpNone
      BY <1>1, <1>2 DEF Row
    <2>7. RowInv'
      BY <1>1, <2>5, <2>6 DEF RowInv
    <2>8. AnswerInv'
      BY <1>1, <1>2, <2>1 DEF IInv, AnswerInv
    <2> QED  BY <1>1, <2>7, <2>8 DEF ProgressInv, Processing
<1> QED  BY <1>4, <1>5, <1>6, <1>7 DEF IInv, Facts

-----------------------------------------------------------------------------
(* process_all_messages                                                    *)

LEMMA FetchKeeps == ASSUME IInv, FetchMessages  PROVE IInv'
<1>0. /\ server \in Servers /\ misled \in BOOLEAN /\ ServerOK(server, opened, own)
      /\ status \in GroupPendingOperation /\ mls \in Groups \cup {Absent}
  BY DEF IInv, Facts, TypeInv, DataInv
<1>1. /\ server.log \in Seq(Commits) /\ Len(server.log) \in Nat /\ server.log # <<>>
      /\ Begins(server.log, server.log) /\ server.origin \in Commits \cup {NoCommit}
  BY <1>0, ServerIs DEF Begins, FetchMessages, Exists, ServerOK
<1>2. PICK e \in {0, Len(server.log) - 1} :
          batch' = [origin |-> server.origin, log |-> server.log, pending_epoch |-> e]
  BY DEF FetchMessages
<1>3. /\ batch'.origin = server.origin /\ batch'.log = server.log
      /\ batch' \in [origin : Commits \cup {NoCommit}, log : Seq(Commits), pending_epoch : Int]
  BY <1>1, <1>2
<1>4. /\ pc = "idle" /\ pc' = "load" /\ mem' = Absent /\ pos' = 1 /\ ~loaded' /\ clean'
      /\ loaded' \in BOOLEAN /\ clean' \in BOOLEAN
      /\ misled' = (misled \/ outbox # NoRequest)
      /\ UNCHANGED <<server, mls, status, opened, call, outbox, answer, own>>
  BY DEF FetchMessages, Idle
<1>5. TypeInv'
  BY <1>0, <1>3, <1>4 DEF IInv, Facts, TypeInv
<1>6. DataInv'
  BY <1>4 DEF IInv, Facts, DataInv
<1>7. FlightInv'
  BY <1>4 DEF IInv, Facts, FlightInv, Settled
<1>8. BatchInv'
  BY <1>1, <1>3, <1>4 DEF BatchInv
<1>9. ASSUME ~misled'  PROVE RowInv' /\ AnswerInv' /\ ProgressInv'
    <2>1. ~misled /\ outbox = NoRequest
      BY <1>0, <1>4, <1>9
    <2>2. Row = status /\ Row' = status
      BY <1>4 DEF Row
    <2>3. Describes(status, mls, server)
      BY <2>1, <2>2 DEF IInv, RowInv
    <2>4. RowInv'
      BY <1>4, <2>2, <2>3 DEF RowInv
    <2>5. AnswerInv'
      BY <1>4, <2>1 DEF IInv, AnswerInv
    <2>6. NoOwnPast(server, Len(server.log))
      BY <1>1 DEF NoOwnPast
    <2>7. ASSUME mls # Absent, status \in {OpNone, UpdateTree}
          PROVE  Begins(mls.commits, server.log) /\ Len(mls.commits) >= 0
        <3>1. mls \in Groups /\ Len(mls.commits) \in Nat
          BY <1>0, <2>7, GroupIs
        <3>2. Begins(mls.commits, server.log)
          BY <2>3, <2>7 DEF Describes, Level, LevelButPending, Has
        <3> QED  BY <3>1, <3>2
    <2>8. ProgressInv'
      BY <1>3, <1>4, <2>1, <2>2, <2>6, <2>7 DEF ProgressInv
    <2> QED  BY <2>4, <2>5, <2>8
<1> QED  BY <1>5, <1>6, <1>7, <1>8, <1>9 DEF IInv, Facts

\* The first commit past the group is the server's, where it has one of its
\* own there.
LEMMA FirstIs ==
    ASSUME NEW s \in Servers, NEW log \in Seq(Commits), Begins(log, s.log),
           NoOwnPast(s, Len(log)), NEW g \in Groups, g.commits # <<>>
    PROVE  /\ first_message(g, UpdateTree, log).by = "self" <=>
                Len(g.commits) + 1 \in 1 .. Len(s.log) /\ s.log[Len(g.commits) + 1].by = "self"
           /\ first_message(g, UpdateTree, log).by = "self" => Len(g.commits) + 1 <= Len(log)
           /\ first_message(g, JoinByExternalCommit, log).by = "self" <=>
                Len(g.commits) \in 1 .. Len(s.log) /\ s.log[Len(g.commits)].by = "self"
           /\ first_message(g, JoinByExternalCommit, log).by = "self" => Len(g.commits) <= Len(log)
<1>1. /\ Len(g.commits) \in Nat /\ Len(g.commits) # 0 /\ Len(log) \in Nat /\ Len(s.log) \in Nat
      /\ DOMAIN log = 1 .. Len(log) /\ Len(log) <= Len(s.log)
      /\ \A i \in 1 .. Len(log) : log[i] = s.log[i]
  BY GroupIs, ServerIs, Empty DEF Begins
<1>2. NoCommit.by # "self"
  BY DEF NoCommit
<1>3. ASSUME NEW m \in Nat, m # 0
      PROVE  LET f == IF m \in DOMAIN log THEN log[m] ELSE NoCommit IN
             /\ f.by = "self" <=> m \in 1 .. Len(s.log) /\ s.log[m].by = "self"
             /\ f.by = "self" => m <= Len(log)
    <2>1. CASE m \in 1 .. Len(log)
      BY <1>1, <2>1
    <2>2. CASE m \notin 1 .. Len(log)
      BY <1>1, <1>2, <1>3, <2>2 DEF NoOwnPast
    <2> QED  BY <2>1, <2>2
<1>4. /\ Len(g.commits) + 1 \in Nat /\ Len(g.commits) + 1 # 0
      /\ Len(g.commits) - 1 + 1 = Len(g.commits)
  BY <1>1
<1>5. first_message(g, UpdateTree, log) =
        IF Len(g.commits) + 1 \in DOMAIN log THEN log[Len(g.commits) + 1] ELSE NoCommit
  BY DEF first_message, Epoch, UpdateTree, JoinByExternalCommit
<1>6. first_message(g, JoinByExternalCommit, log) =
        IF Len(g.commits) \in DOMAIN log THEN log[Len(g.commits)] ELSE NoCommit
  BY <1>4 DEF first_message, Epoch
<1>7. /\ first_message(g, UpdateTree, log).by = "self" <=>
                Len(g.commits) + 1 \in 1 .. Len(s.log) /\ s.log[Len(g.commits) + 1].by = "self"
      /\ first_message(g, UpdateTree, log).by = "self" => Len(g.commits) + 1 <= Len(log)
  BY <1>3, <1>4, <1>5
<1>8. /\ first_message(g, JoinByExternalCommit, log).by = "self" <=>
                Len(g.commits) \in 1 .. Len(s.log) /\ s.log[Len(g.commits)].by = "self"
      /\ first_message(g, JoinByExternalCommit, log).by = "self" => Len(g.commits) <= Len(log)
  BY <1>1, <1>3, <1>6
<1> QED  BY <1>7, <1>8

\* What the desync check makes of a group: nothing, the merged or the cleared
\* one, or none.
LEMMA ReconcileIs ==
    ASSUME NEW g \in Groups, NEW op \in GroupPendingOperation
    PROVE  /\ Reconcile(g, op).reset \in BOOLEAN
           /\ \/ Reconcile(g, op) = Keep(g)
              \/ Reconcile(g, op) = Settle(merge_pending_commit(g))
              \/ Reconcile(g, op) = Settle(clear_pending_commit(g))
              \/ Reconcile(g, op) = Settle(Absent)
<1>0. Epoch(g) \in Nat
  BY GroupIs DEF Epoch
<1>1. CASE op = CreateGroup /\ Epoch(g) = 0
  BY <1>1 DEF Reconcile, Keep, Settle
<1>2. CASE op = JoinByExternalCommit \/ (op = CreateGroup /\ Epoch(g) > 0)
  BY <1>0, <1>2 DEF Reconcile, Keep, Settle, CreateGroup, JoinByExternalCommit
<1>3. CASE op = UpdateTree
  BY <1>3 DEF Reconcile, Keep, Settle, CreateGroup, JoinByExternalCommit, UpdateTree
<1>4. CASE op = OpNone
  BY <1>4 DEF Reconcile, Keep, Settle, CreateGroup, JoinByExternalCommit, UpdateTree, OpNone
<1> QED  BY <1>0, <1>1, <1>2, <1>3, <1>4 DEF GroupPendingOperation

\* The desync check of a group that its row describes: it is kept if nothing
\* is pending or its creation is not decided, deleted only if the server does
\* not have it, and level with the server otherwise.
LEMMA ReconcileRight ==
    ASSUME NEW s \in Servers, NEW g \in Groups, NEW op \in GroupPendingOperation,
           NEW used, NEW n, GroupOK(g, used, n), ServerOK(s, used, n), Describes(op, g, s),
           batch.origin = s.origin, batch.log \in Seq(Commits), Begins(batch.log, s.log),
           batch.log # <<>>, NoOwnPast(s, Len(batch.log)),
           op \in {OpNone, UpdateTree} => Begins(g.commits, batch.log)
    PROVE  \/ Reconcile(g, op) = Keep(g) /\ op \in {OpNone, CreateGroup}
           \/ Reconcile(g, op) = Settle(Absent) /\ ~Has(s, g)
           \/ \E h \in Groups :
                /\ Reconcile(g, op) = Settle(h)
                /\ Level(h, s) /\ h.pending = NoCommit /\ Begins(h.commits, batch.log)
<1>0. /\ Len(g.commits) \in Nat /\ Epoch(g) = Len(g.commits) /\ g # Absent
      /\ g.commits \in Seq(Commits) /\ (g.commits = <<>> <=> Len(g.commits) = 0)
      /\ s.log \in Seq(Commits) /\ Len(s.log) \in Nat
      /\ Len(batch.log) \in Nat /\ Len(batch.log) # 0
  BY GroupIs, ServerIs, Empty DEF Epoch
<1>1. CASE op = CreateGroup
    <2>1. Founding(g, s) /\ Epoch(g) = 0
      BY <1>0, <1>1 DEF Describes, Founding
    <2>2. Reconcile(g, op) =
            IF batch.pending_epoch # 0 THEN Keep(g)
            ELSE IF g.origin = batch.origin THEN Settle(merge_pending_commit(g))
            ELSE Settle(Absent)
      BY <1>1, <2>1 DEF Reconcile, CreateGroup, JoinByExternalCommit, UpdateTree
    <2>3. CASE batch.pending_epoch # 0
      BY <1>1, <2>2, <2>3
    <2>4. CASE batch.pending_epoch = 0 /\ g.origin # batch.origin
      BY <2>2, <2>4 DEF Has
    <2>5. CASE batch.pending_epoch = 0 /\ g.origin = batch.origin
        <3> DEFINE h == merge_pending_commit(g)
        <3>1. h \in Groups /\ h.pending = NoCommit /\ Level(h, s) /\ Len(h.commits) = 1
          BY <2>1, <2>5, Merged, FoundingLevels
        <3>2. Begins(h.commits, s.log) /\ h.commits \in Seq(Commits) /\ Len(h.commits) <= Len(batch.log)
          BY <1>0, <3>1, GroupIs DEF Level, Has
        <3>3. Begins(h.commits, batch.log)
          BY <1>0, <3>2, BeginsLonger
        <3>4. Reconcile(g, op) = Settle(h)
          BY <2>2, <2>5
        <3> HIDE DEF h
        <3> QED  BY <3>1, <3>3, <3>4
    <2> QED  BY <2>3, <2>4, <2>5
<1>2. CASE op = JoinByExternalCommit
    <2>1. Joining(g, s) /\ g.commits # <<>> /\ g.pending = NoCommit
      BY <1>0, <1>2 DEF Describes, Joining
    <2> DEFINE mine == first_message(g, JoinByExternalCommit, batch.log).by = "self"
    <2>2. Reconcile(g, op) = IF mine THEN Settle(merge_pending_commit(g)) ELSE Settle(Absent)
      BY <1>0, <1>2 DEF Reconcile, CreateGroup, JoinByExternalCommit, UpdateTree
    <2>3. /\ mine <=> Len(g.commits) \in 1 .. Len(s.log) /\ s.log[Len(g.commits)].by = "self"
          /\ mine => Len(g.commits) <= Len(batch.log)
      BY <2>1, FirstIs
    <2> HIDE DEF mine
    <2>4. CASE mine
        <3>1. Level(g, s)
          BY <2>1, <2>3, <2>4, JoiningLevels
        <3>2. merge_pending_commit(g) = g
          BY <2>1 DEF merge_pending_commit
        <3>3. Begins(g.commits, s.log)
          BY <3>1 DEF Level, Has
        <3>4. Begins(g.commits, batch.log)
          BY <1>0, <2>3, <2>4, <3>3, BeginsLonger
        <3> QED  BY <2>1, <2>2, <2>4, <3>1, <3>2, <3>4
    <2>5. CASE ~mine
        <3>1. ~Has(s, g)
          BY <2>1, <2>3, <2>5, JoiningLevels
        <3> QED  BY <2>2, <2>5, <3>1
    <2> QED  BY <2>4, <2>5
<1>3. CASE op = UpdateTree
    <2>1. LevelButPending(g, s) /\ g.commits # <<>> /\ Begins(g.commits, batch.log)
      BY <1>0, <1>3 DEF Describes, LevelButPending
    <2> DEFINE mine == first_message(g, UpdateTree, batch.log).by = "self"
    <2>2. Reconcile(g, op) = IF mine THEN Settle(merge_pending_commit(g))
                             ELSE Settle(clear_pending_commit(g))
      BY <1>3 DEF Reconcile, CreateGroup, JoinByExternalCommit, UpdateTree
    <2>3. /\ mine <=> Len(g.commits) + 1 \in 1 .. Len(s.log) /\ s.log[Len(g.commits) + 1].by = "self"
          /\ mine => Len(g.commits) + 1 <= Len(batch.log)
      BY <2>1, FirstIs
    <2> HIDE DEF mine
    <2>4. CASE mine
        <3> DEFINE h == merge_pending_commit(g)
        <3>1. h \in Groups /\ h.pending = NoCommit
          BY Merged
        <3>2. Level(h, s) /\ Len(h.commits) = Len(g.commits) + 1
          BY <2>1, <2>3, <2>4, MergeLevels
        <3>3. Reconcile(g, op) = Settle(h)
          BY <2>2, <2>4
        <3> HIDE DEF h
        <3>4. Begins(h.commits, s.log) /\ h.commits \in Seq(Commits) /\ Len(h.commits) <= Len(batch.log)
          BY <2>3, <2>4, <3>1, <3>2, GroupIs DEF Level, Has
        <3>5. Begins(h.commits, batch.log)
          BY <1>0, <3>4, BeginsLonger
        <3> QED  BY <3>1, <3>2, <3>3, <3>5
    <2>5. CASE ~mine
        <3> DEFINE h == clear_pending_commit(g)
        <3>1. h \in Groups /\ h.pending = NoCommit /\ h.origin = g.origin /\ h.commits = g.commits
          BY Cleared
        <3>2. Reconcile(g, op) = Settle(h)
          BY <2>2, <2>5
        <3> HIDE DEF h
        <3>3. Level(g, s)
          BY <2>1, <2>3, <2>5, IsLevel
        <3>4. Level(h, s)
          BY <3>1, <3>3, LevelOf
        <3> QED  BY <2>1, <3>1, <3>2, <3>4
    <2> QED  BY <2>4, <2>5
<1>4. CASE op = OpNone
  BY <1>4 DEF Reconcile, CreateGroup, JoinByExternalCommit, UpdateTree, OpNone
<1> QED  BY <1>1, <1>2, <1>3, <1>4 DEF GroupPendingOperation

\* What is known of the batch while a call is under way.
LEMMA BatchIs ==
    ASSUME IInv, Processing
    PROVE  /\ batch.origin = server.origin /\ batch.log \in Seq(Commits) /\ batch.log # <<>>
           /\ Begins(batch.log, server.log) /\ Len(batch.log) \in Nat
           /\ DOMAIN batch.log = 1 .. Len(batch.log)
           /\ server \in Servers /\ ServerOK(server, opened, own)
           /\ ~misled => outbox = NoRequest /\ NoOwnPast(server, Len(batch.log))
BY DEF IInv, Facts, TypeInv, DataInv, BatchInv, ProgressInv

LEMMA DesyncKeeps == ASSUME IInv, DesyncCheck  PROVE IInv'
<1>0. /\ pc = "load" /\ Processing /\ call.result = NoRequest /\ mem = Absent
      /\ status \in GroupPendingOperation /\ mls \in Groups \cup {Absent}
      /\ pos = 1 /\ clean /\ ~loaded
      /\ UNCHANGED <<server, status, opened, call, outbox, answer, batch, pos, loaded, clean,
                     own, misled>>
  BY NoResult DEF DesyncCheck, Processing, IInv, Facts, TypeInv, BatchInv
<1>1. CASE mls = Absent
    <2>1. pc' = "messages" /\ UNCHANGED <<mls, mem>>
      BY <1>1 DEF DesyncCheck
    <2>2. TypeInv' /\ DataInv' /\ FlightInv'
      BY <1>0, <2>1 DEF IInv, Facts, TypeInv, DataInv, FlightInv, Settled
    <2>3. BatchInv'
      BY <1>0, <1>1, <2>1, BatchIs DEF BatchInv
    <2>4. Row = status /\ Row' = status
      BY <1>0, <2>1 DEF Row
    <2>5. ~misled => RowInv' /\ AnswerInv'
      BY <1>0, <1>1, <2>1, <2>4 DEF IInv, RowInv, AnswerInv
    <2>6. ~misled => ProgressInv'
      BY <1>0, <1>1, <2>1, BatchIs DEF ProgressInv
    <2> QED  BY <1>0, <2>2, <2>3, <2>5, <2>6 DEF IInv, Facts
<1>2. CASE mls # Absent
    <2> DEFINE r == Reconcile(mls, status)
    <2>1. /\ mls' = r.group /\ mem' = r.group
          /\ pc' = IF r.reset THEN "reset" ELSE "messages"
      BY <1>2 DEF DesyncCheck
    <2>2. mls \in Groups /\ GroupOK(mls, opened, own)
      BY <1>0, <1>2 DEF IInv, Facts, DataInv
    <2>3. /\ r.reset \in BOOLEAN
          /\ \/ r = Keep(mls) \/ r = Settle(merge_pending_commit(mls))
             \/ r = Settle(clear_pending_commit(mls)) \/ r = Settle(Absent)
      BY <1>0, <2>2, ReconcileIs
    <2>4. r.group # Absent => r.group \in Groups /\ GroupOK(r.group, opened, own)
        <3>1. CASE r = Keep(mls)
          BY <2>2, <3>1 DEF Keep
        <3>2. CASE r = Settle(merge_pending_commit(mls))
          BY <2>2, <3>2, Merged DEF Settle
        <3>3. CASE r = Settle(clear_pending_commit(mls))
          BY <2>2, <3>3, Cleared DEF Settle
        <3>4. CASE r = Settle(Absent)
          BY <3>4 DEF Settle
        <3> QED  BY <2>3, <3>1, <3>2, <3>3, <3>4
    <2>5. ASSUME ~misled
          PROVE  \/ r = Keep(mls) /\ status \in {OpNone, CreateGroup}
                 \/ r = Settle(Absent)
                 \/ \E h \in Groups :
                      /\ r = Settle(h)
                      /\ Level(h, server) /\ h.pending = NoCommit /\ Begins(h.commits, batch.log)
        <3>1. Describes(status, mls, server)
          BY <1>0, <2>5 DEF IInv, RowInv, Row
        <3>2. status \in {OpNone, UpdateTree} => Begins(mls.commits, batch.log)
          BY <1>0, <1>2, <2>5 DEF IInv, ProgressInv, Row
        <3> QED  BY <1>0, <2>2, <2>5, <3>1, <3>2, BatchIs, ReconcileRight
    <2> HIDE DEF r
    <2>6. TypeInv'
      BY <1>0, <2>1, <2>3, <2>4 DEF IInv, Facts, TypeInv
    <2>7. DataInv' /\ FlightInv'
      BY <1>0, <2>1, <2>4 DEF IInv, Facts, DataInv, FlightInv, Settled
    <2>8. BatchInv'
        <3>1. mem' = mls' /\ pc' \in {"reset", "messages"}
          BY <2>1
        <3>2. mem' # Absent => Begins(mls'.commits, mem'.commits)
          BY <2>1, <2>4, GroupIs DEF Begins
        <3> QED  BY <1>0, <3>1, <3>2, BatchIs DEF BatchInv
    <2>9. ASSUME ~misled  PROVE RowInv' /\ AnswerInv' /\ ProgressInv'
        <3>0. Describes(status, mls, server) /\ outbox = NoRequest
          BY <1>0, <2>9, BatchIs DEF IInv, RowInv, Row
        <3>1. CASE r = Keep(mls) /\ status \in {OpNone, CreateGroup}
            <4>1. pc' = "messages" /\ mls' = mls /\ mem' = mls /\ Row' = status
              BY <1>0, <2>1, <3>1 DEF Keep, Row
            <4>2. RowInv' /\ AnswerInv'
              BY <1>0, <2>9, <3>0, <4>1 DEF IInv, RowInv, AnswerInv
            <4>3. status = CreateGroup => mls.commits = <<>>
              BY <1>2, <3>0 DEF Describes, Founding
            <4>4. status = OpNone => Begins(mls.commits, batch.log) /\ Len(mls.commits) >= pos - 1
              BY <1>0, <1>2, <2>9 DEF IInv, ProgressInv, Row
            <4>5. ProgressInv'
              BY <1>0, <2>9, <3>0, <3>1, <4>1, <4>3, <4>4, BatchIs
              DEF ProgressInv, OpNone, CreateGroup, UpdateTree
            <4> QED  BY <4>2, <4>5
        <3>2. CASE r = Settle(Absent)
            <4>1. pc' = "reset" /\ mls' = Absent /\ mem' = Absent /\ Row' = OpNone
              BY <1>0, <2>1, <3>2 DEF Settle, Row
            <4>2. RowInv' /\ AnswerInv'
              BY <4>1 DEF RowInv, Describes, AnswerInv
            <4>3. ProgressInv'
              BY <1>0, <2>9, <4>1, BatchIs DEF ProgressInv
            <4> QED  BY <4>2, <4>3
        <3>3. CASE \E h \in Groups :
                      /\ r = Settle(h)
                      /\ Level(h, server) /\ h.pending = NoCommit /\ Begins(h.commits, batch.log)
            <4>1. PICK h \in Groups :
                      /\ r = Settle(h)
                      /\ Level(h, server) /\ h.pending = NoCommit /\ Begins(h.commits, batch.log)
              BY <3>3
            <4>2. pc' = "reset" /\ mls' = h /\ mem' = h /\ Row' = OpNone
              BY <1>0, <2>1, <4>1 DEF Settle, Row
            <4>3. h # Absent /\ Len(h.commits) \in Nat /\ merge_pending_commit(h) = h
              BY <4>1, GroupIs DEF merge_pending_commit
            <4>4. Describes(OpNone, h, server)
              BY <4>1, <4>3 DEF Describes, CreateGroup, JoinByExternalCommit, UpdateTree, OpNone
            <4>5. RowInv'
              BY <1>0, <4>2, <4>4 DEF RowInv
            <4>6. AnswerInv'
              BY <1>0, <3>0, <4>1, <4>2, <4>3 DEF AnswerInv
            <4>7. ProgressInv'
              BY <1>0, <2>9, <4>1, <4>2, <4>3, BatchIs DEF ProgressInv
            <4> QED  BY <4>5, <4>6, <4>7
        <3> QED  BY <2>5, <2>9, <3>1, <3>2, <3>3
    <2> QED  BY <1>0, <2>6, <2>7, <2>8, <2>9 DEF IInv, Facts
<1> QED  BY <1>1, <1>2

LEMMA LoadFailsKeeps == ASSUME IInv, LoadFails  PROVE IInv'
<1>1. /\ pc = "load" /\ Processing /\ pc' = "messages" /\ ~clean' /\ clean' \in BOOLEAN
      /\ mem' = Absent /\ pos = 1 /\ ~loaded
      /\ UNCHANGED <<server, mls, status, opened, call, outbox, answer, batch, pos, loaded, own,
                     misled>>
  BY DEF LoadFails, Processing, IInv, Facts, BatchInv
<1>2. TypeInv' /\ DataInv' /\ FlightInv'
  BY <1>1 DEF IInv, Facts, TypeInv, DataInv, FlightInv, Settled
<1>3. BatchInv'
  BY <1>1, BatchIs DEF BatchInv
<1>4. Row = status /\ Row' = status
  BY <1>1 DEF Row
<1>5. ~misled => RowInv' /\ AnswerInv'
  BY <1>1, <1>4 DEF IInv, RowInv, AnswerInv
<1>6. ~misled => ProgressInv'
  BY <1>1, BatchIs DEF ProgressInv
<1> QED  BY <1>1, <1>2, <1>3, <1>5, <1>6 DEF IInv, Facts

\* The call is over, at its end or through an error; the row is as stored.
LEMMA EndKeeps ==
    ASSUME IInv, pc \in {"load", "messages"}, pc' = "idle", Forget,
           UNCHANGED <<server, mls, status, opened, call, outbox, answer, own, misled>>
    PROVE  IInv'
<1>0. NoBatch \in [origin : Commits \cup {NoCommit}, log : Seq(Commits), pending_epoch : Int]
  BY DEF NoBatch
<1>1. /\ batch' = NoBatch /\ mem' = Absent /\ pos' = 0 /\ loaded' \in BOOLEAN /\ clean' \in BOOLEAN
  BY DEF Forget
<1>2. TypeInv' /\ DataInv' /\ FlightInv'
  BY <1>0, <1>1 DEF IInv, Facts, TypeInv, DataInv, FlightInv, Settled
<1>3. Row = status /\ Row' = status
  BY DEF Row
<1>4. ~misled => RowInv' /\ AnswerInv'
  BY <1>3 DEF IInv, RowInv, AnswerInv
<1>5. BatchInv' /\ ProgressInv'
  BY DEF BatchInv, ProgressInv, Processing
<1> QED  BY <1>2, <1>4, <1>5 DEF IInv, Facts

LEMMA ResetKeeps ==
    ASSUME IInv, ResetStatus \/ ResetStatusFails
    PROVE  IInv'
<1>1. /\ pc = "reset" /\ Processing /\ pc' = "messages" /\ call.result = NoRequest
      /\ mem = mls /\ pos = 1 /\ ~loaded /\ clean /\ mls \in Groups \cup {Absent}
      /\ UNCHANGED <<server, mls, opened, call, outbox, answer, batch, mem, pos, loaded, own>>
  BY NoResult DEF ResetStatus, ResetStatusFails, Processing, IInv, Facts, TypeInv, BatchInv
<1>2. /\ status' \in GroupPendingOperation /\ misled' \in BOOLEAN /\ clean' \in BOOLEAN
      /\ ~misled' => status' = OpNone /\ clean' = clean /\ ~misled
  BY DEF ResetStatus, ResetStatusFails, IInv, Facts, TypeInv, GroupPendingOperation
<1>3. TypeInv' /\ DataInv' /\ FlightInv'
  BY <1>1, <1>2 DEF IInv, Facts, TypeInv, DataInv, FlightInv, Settled
<1>4. BatchInv'
    <2>1. mem # Absent => Begins(mls.commits, mem.commits)
      BY <1>1, GroupIs DEF Begins
    <2> QED  BY <1>1, <2>1, BatchIs DEF BatchInv
<1>5. ASSUME ~misled'  PROVE RowInv' /\ AnswerInv' /\ ProgressInv'
    <2>1. Row = OpNone /\ Row' = OpNone /\ status' = OpNone /\ ~misled
      BY <1>1, <1>2, <1>5 DEF Row
    <2>2. RowInv' /\ AnswerInv'
      BY <1>1, <2>1 DEF IInv, RowInv, AnswerInv
    <2>3. mls # Absent => Begins(mls.commits, batch.log) /\ Len(mls.commits) >= pos - 1
      BY <1>1, <2>1 DEF IInv, ProgressInv
    <2>4. ProgressInv'
      BY <1>1, <2>1, <2>3, BatchIs DEF ProgressInv, OpNone, CreateGroup
    <2> QED  BY <2>2, <2>4
<1> QED  BY <1>3, <1>4, <1>5 DEF IInv, Facts

LEMMA WelcomeKeeps == ASSUME IInv, ProcessWelcome  PROVE IInv'
<1> DEFINE h == MlsGroup(server.origin, SubSeq(batch.log, 1, pos), NoCommit)
<1>0. /\ pc = "messages" /\ Processing /\ call.result = NoRequest
      /\ own \in Nat /\ pos \in Nat /\ misled \in BOOLEAN
  BY NoResult DEF ProcessWelcome, AtMessage, Processing, IInv, Facts, TypeInv
<1>1. pos \in 1 .. Len(batch.log) /\ batch.log[pos].adds /\ pos \notin opened
  BY <1>0, BatchIs DEF ProcessWelcome, AtMessage, IsWelcome
<1>2. /\ h \in Groups /\ GroupOK(h, opened \cup {pos}, own) /\ h.pending = NoCommit
      /\ Level(h, server) /\ Len(h.commits) = pos /\ Begins(h.commits, batch.log)
    <2>1. /\ batch.log \in Seq(Commits) /\ Begins(batch.log, server.log)
          /\ server \in Servers /\ ServerOK(server, opened, own)
      BY <1>0, BatchIs
    <2> QED  BY <1>1, <2>1, WelcomeIs
<1>3. /\ mls' = h /\ mem' = h /\ opened' = opened \cup {pos} /\ pos' = pos + 1
      /\ misled' = (misled \/ status # OpNone)
      /\ UNCHANGED <<server, status, pc, call, outbox, answer, batch, loaded, clean, own>>
  BY <1>0, BatchIs DEF ProcessWelcome
<1> HIDE DEF h
<1>4. h # Absent /\ h.commits \in Seq(Commits) /\ Begins(h.commits, h.commits)
  BY <1>2, GroupIs DEF Begins
<1>5. TypeInv'
  BY <1>0, <1>2, <1>3 DEF IInv, Facts, TypeInv
<1>6. DataInv' /\ FlightInv'
    <2>1. opened \subseteq opened' /\ own <= own
      BY <1>0, <1>3
    <2>2. /\ ServerOK(server, opened', own)
          /\ outbox # NoRequest => RequestOK(outbox, opened', own)
      BY <1>0, <2>1, Later DEF IInv, Facts, TypeInv, DataInv
    <2> QED  BY <1>0, <1>2, <1>3, <2>2 DEF IInv, Facts, DataInv, FlightInv, Settled
<1>7. BatchInv'
  BY <1>0, <1>3, <1>4, BatchIs DEF BatchInv
<1>8. ASSUME ~misled'  PROVE RowInv' /\ AnswerInv' /\ ProgressInv'
    <2>1. status = OpNone /\ Row' = OpNone /\ ~misled
      BY <1>0, <1>3, <1>8 DEF Row
    <2>2. Describes(OpNone, h, server)
      BY <1>2, <1>4 DEF Describes, CreateGroup, JoinByExternalCommit, UpdateTree, OpNone
    <2>3. RowInv'
      BY <1>3, <2>1, <2>2 DEF RowInv
    <2>4. outbox = NoRequest /\ merge_pending_commit(h) = h
      BY <1>0, <1>2, <2>1, BatchIs DEF merge_pending_commit
    <2>5. AnswerInv'
      BY <1>0, <1>2, <1>3, <2>4 DEF AnswerInv
    <2>6. ProgressInv'
      BY <1>0, <1>2, <1>3, <2>1, <2>4, BatchIs DEF ProgressInv, OpNone, CreateGroup
    <2> QED  BY <2>3, <2>5, <2>6
<1> QED  BY <1>5, <1>6, <1>7, <1>8 DEF IInv, Facts

\* A failed Welcome, or a storage error that ends the loop: the batch goes on
\* with the groups as they are.
LEMMA SkipKeeps ==
    ASSUME IInv, ProcessWelcomeFails \/ ProcessCommitBreaks
    PROVE  IInv'
<1>0. /\ pc = "messages" /\ Processing /\ pos \in Nat /\ ~clean' /\ clean' \in BOOLEAN
      /\ UNCHANGED <<server, mls, status, opened, pc, call, outbox, answer, batch, mem, loaded,
                     own, misled>>
  BY DEF ProcessWelcomeFails, ProcessCommitBreaks, AtMessage, Processing, IInv, Facts, TypeInv
<1>1. pos' \in Nat /\ pos' > 0
  BY <1>0, BatchIs DEF ProcessWelcomeFails, ProcessCommitBreaks
<1>2. TypeInv' /\ DataInv' /\ FlightInv'
  BY <1>0, <1>1 DEF IInv, Facts, TypeInv, DataInv, FlightInv, Settled
<1>3. BatchInv'
  BY <1>0, <1>1 DEF IInv, Facts, BatchInv, Processing
<1>4. ~misled => RowInv' /\ AnswerInv'
  BY <1>0 DEF IInv, RowInv, Row, AnswerInv
<1>5. ~misled => ProgressInv'
  BY <1>0 DEF IInv, ProgressInv, Processing
<1> QED  BY <1>0, <1>2, <1>3, <1>4, <1>5 DEF IInv, Facts

\* What a commit of the batch is applied to, and what comes of it.
LEMMA CurrentIs ==
    ASSUME IInv, AtMessage, ~IsWelcome(pos), mem # Absent
    PROVE  LET cur == CurrentGroup
               h == process_operation_message(cur, batch.origin, batch.log, pos) IN
           /\ cur \in Groups /\ GroupOK(cur, opened, own)
           /\ mls \in Groups /\ mls.origin = cur.origin /\ Begins(mls.commits, cur.commits)
           /\ h \in Groups /\ GroupOK(h, opened, own)
           /\ h.origin = cur.origin /\ Begins(cur.commits, h.commits)
           /\ clean => cur = mls
           /\ \/ h = cur /\ ~Applies(cur, batch.origin, batch.log, pos)
              \/ /\ h # cur /\ Applies(cur, batch.origin, batch.log, pos)
                 /\ h.pending = NoCommit /\ Has(server, h)
                 /\ Len(cur.commits) = pos - 1 /\ Len(h.commits) = pos
                 /\ Begins(h.commits, batch.log) /\ batch.log[pos] = server.log[pos]
                 /\ batch.log[pos].by # "self"
<1> DEFINE cur == CurrentGroup
           h == process_operation_message(cur, batch.origin, batch.log, pos)
<1>0. /\ pc = "messages" /\ Processing /\ mem \in Groups /\ GroupOK(mem, opened, own)
      /\ mls # Absent /\ mls \in Groups /\ GroupOK(mls, opened, own)
      /\ mls.origin = mem.origin /\ Begins(mls.commits, mem.commits)
      /\ clean => mem = mls
  BY DEF AtMessage, Processing, IInv, Facts, TypeInv, DataInv, BatchInv
<1>1. mls.commits \in Seq(Commits) /\ Begins(mls.commits, mls.commits)
  BY <1>0, GroupIs DEF Begins
<1>2. /\ cur \in Groups /\ GroupOK(cur, opened, own)
      /\ mls.origin = cur.origin /\ Begins(mls.commits, cur.commits) /\ (clean => cur = mls)
  BY <1>0, <1>1 DEF CurrentGroup
<1> HIDE DEF cur
<1>3. pos \in 1 .. Len(batch.log)
  BY <1>0, BatchIs DEF AtMessage
<1>4. CASE Applies(cur, batch.origin, batch.log, pos)
  BY <1>0, <1>2, <1>3, <1>4, BatchIs, ApplyIs DEF cur
<1>5. CASE ~Applies(cur, batch.origin, batch.log, pos)
    <2>1. h = cur
      BY <1>5, ApplyNot
    <2>2. Begins(cur.commits, cur.commits)
      BY <1>2, GroupIs DEF Begins
    <2> QED  BY <1>0, <1>2, <1>5, <2>1, <2>2 DEF cur
<1> QED  BY <1>4, <1>5

\* While a creation is recorded, no commit of the batch applies: the server's
\* group is another, or begins with this client's commit.
LEMMA FoundingStays ==
    ASSUME IInv, ~misled, AtMessage, ~IsWelcome(pos), mem # Absent, status = CreateGroup
    PROVE  /\ CurrentGroup.commits = <<>>
           /\ ~Applies(CurrentGroup, batch.origin, batch.log, pos)
<1> DEFINE cur == CurrentGroup
<1>0. /\ pc = "messages" /\ Processing /\ mem \in Groups /\ mem.commits = <<>>
      /\ mls \in Groups /\ Begins(mls.commits, mem.commits)
  BY DEF AtMessage, Processing, IInv, Facts, TypeInv, BatchInv, ProgressInv
<1>1. mls.commits = <<>>
    <2>1. Len(mem.commits) = 0 /\ Len(mls.commits) \in Nat /\ mls.commits \in Seq(Commits)
      BY <1>0, GroupIs, EmptySeq
    <2>2. Len(mls.commits) = 0
      BY <1>0, <2>1 DEF Begins
    <2> QED  BY <2>1, <2>2, Empty
<1>2. cur.commits = <<>> /\ cur \in Groups /\ GroupOK(cur, opened, own)
  BY <1>0, <1>1, CurrentIs DEF CurrentGroup
<1> HIDE DEF cur
<1>3. ASSUME Applies(cur, batch.origin, batch.log, pos)  PROVE FALSE
    <2>1. pos \in 1 .. Len(batch.log) /\ pos \in Nat
      BY <1>0, BatchIs DEF AtMessage
    <2>2. Len(cur.commits) = pos - 1 /\ batch.log[pos].by # "self" /\ batch.log[pos] = server.log[pos]
      BY <1>0, <1>2, <1>3, <2>1, BatchIs, ApplyIs
    <2>3. pos = 1
      BY <1>2, <2>1, <2>2, EmptySeq
    <2>4. cur.origin = server.origin
      BY <1>0, <1>3, BatchIs DEF Applies
    <2>5. server.log[1].by = "self"
      BY <1>0, <1>2, <2>4, BatchIs, FoundingIsOwn
    <2> QED  BY <2>2, <2>3, <2>5
<1> QED  BY <1>2, <1>3 DEF cur

LEMMA CommitAppliedKeeps == ASSUME IInv, ProcessCommit  PROVE IInv'
<1>0. /\ pc = "messages" /\ Processing /\ call.result = NoRequest /\ AtMessage /\ ~IsWelcome(pos)
      /\ pos \in Nat /\ pos' = pos + 1 /\ mls \in Groups \cup {Absent} /\ loaded \in BOOLEAN
      /\ UNCHANGED <<server, status, opened, pc, call, outbox, answer, batch, clean, own, misled>>
  BY NoResult DEF ProcessCommit, AtMessage, Processing, IInv, Facts, TypeInv
<1>1. CASE mem = Absent
    <2>1. UNCHANGED <<mls, mem, loaded>>
      BY <1>1 DEF ProcessCommit
    <2>2. TypeInv' /\ DataInv' /\ FlightInv'
      BY <1>0, <2>1 DEF IInv, Facts, TypeInv, DataInv, FlightInv, Settled
    <2>3. BatchInv'
      BY <1>0, <2>1 DEF IInv, Facts, BatchInv, Processing
    <2>4. ~misled => RowInv' /\ AnswerInv'
      BY <1>0, <2>1 DEF IInv, RowInv, Row, AnswerInv
    <2>5. clean => mls = Absent
      BY <1>0, <1>1 DEF IInv, Facts, BatchInv
    <2>6. ~misled => ProgressInv'
      BY <1>0, <1>1, <2>1, <2>5, BatchIs DEF ProgressInv
    <2> QED  BY <1>0, <2>2, <2>3, <2>4, <2>6 DEF IInv, Facts
<1>2. CASE mem # Absent
    <2> DEFINE cur == CurrentGroup
               h == process_operation_message(cur, batch.origin, batch.log, pos)
    <2>1. mem' = h /\ mls' = (IF h = cur THEN mls ELSE h) /\ loaded'
          /\ loaded' \in BOOLEAN
      BY <1>2 DEF ProcessCommit
    <2>2. /\ cur \in Groups /\ GroupOK(cur, opened, own)
          /\ mls \in Groups /\ mls.origin = cur.origin /\ Begins(mls.commits, cur.commits)
          /\ h \in Groups /\ GroupOK(h, opened, own)
          /\ h.origin = cur.origin /\ Begins(cur.commits, h.commits)
          /\ clean => cur = mls
          /\ \/ h = cur /\ ~Applies(cur, batch.origin, batch.log, pos)
             \/ /\ h # cur /\ Applies(cur, batch.origin, batch.log, pos)
                /\ h.pending = NoCommit /\ Has(server, h)
                /\ Len(cur.commits) = pos - 1 /\ Len(h.commits) = pos
                /\ Begins(h.commits, batch.log) /\ batch.log[pos] = server.log[pos]
                /\ batch.log[pos].by # "self"
      BY <1>0, <1>2, CurrentIs
    <2>3. ~misled /\ status = CreateGroup => cur.commits = <<>> /\ ~Applies(cur, batch.origin, batch.log, pos)
      BY <1>0, <1>2, FoundingStays
    <2> HIDE DEF h, cur
    <2>4. /\ mls # Absent /\ h # Absent /\ mls' # Absent /\ mem' # Absent
          /\ Len(mls.commits) \in Nat /\ Len(cur.commits) \in Nat /\ Len(h.commits) \in Nat
          /\ mls.commits \in Seq(Commits) /\ cur.commits \in Seq(Commits)
          /\ h.commits \in Seq(Commits)
      BY <2>1, <2>2, GroupIs
    <2>5. TypeInv'
      BY <1>0, <2>1, <2>2 DEF IInv, Facts, TypeInv
    <2>6. DataInv' /\ FlightInv'
      BY <1>0, <2>1, <2>2 DEF IInv, Facts, DataInv, FlightInv, Settled
    <2>7. BatchInv'
        <3>1. mls'.origin = mem'.origin /\ Begins(mls'.commits, mem'.commits)
            <4>1. CASE h = cur
              BY <2>1, <2>2, <4>1
            <4>2. CASE h # cur
                <5>1. Begins(h.commits, h.commits)
                  BY <2>4 DEF Begins
                <5> QED  BY <2>1, <4>2, <5>1
            <4> QED  BY <4>1, <4>2
        <3>2. clean => mem' = mls'
          BY <2>1, <2>2
        <3> QED  BY <1>0, <2>1, <2>4, <3>1, <3>2, BatchIs DEF BatchInv
    <2>8. ASSUME ~misled  PROVE RowInv' /\ AnswerInv' /\ ProgressInv'
        <3>0. /\ Row = status /\ Row' = status /\ Describes(status, mls, server)
              /\ status \in {OpNone, CreateGroup} /\ outbox = NoRequest
          BY <1>0, <1>2, <2>8, BatchIs DEF Row, IInv, RowInv, ProgressInv
        <3>1. CASE h = cur
            <4>1. mls' = mls /\ mem' = cur
              BY <2>1, <3>1
            <4>2. RowInv' /\ AnswerInv'
              BY <1>0, <2>8, <3>0, <4>1 DEF IInv, RowInv, AnswerInv
            <4>3. ASSUME clean, status = OpNone
                  PROVE  Begins(mls.commits, batch.log) /\ Len(mls.commits) >= pos
                <5>1. Begins(mls.commits, batch.log) /\ Len(mls.commits) >= pos - 1
                  BY <1>0, <2>4, <2>8, <3>0, <4>3 DEF IInv, ProgressInv
                <5>2. ASSUME Len(mls.commits) = pos - 1  PROVE FALSE
                    <6>1. mls.commits = SubSeq(batch.log, 1, pos - 1)
                      BY <1>0, <2>4, <5>1, <5>2, BeginsSubSeq, BatchIs
                    <6>2. /\ pos \in 1 .. Len(server.log) /\ pos > Len(mls.commits)
                          /\ batch.log[pos] = server.log[pos]
                      BY <1>0, <5>2, BatchIs, ServerIs DEF AtMessage, Begins
                    <6>3. Level(mls, server)
                      BY <2>4, <3>0, <4>3 DEF Describes
                    <6>4. batch.log[pos].by # "self" /\ mls.origin = batch.origin
                      BY <1>0, <6>2, <6>3, BatchIs DEF Level, Has, NoOwnPast
                    <6>5. Applies(mls, batch.origin, batch.log, pos)
                      BY <6>1, <6>4 DEF Applies
                    <6> QED  BY <2>2, <3>1, <4>3, <6>5
                <5> QED  BY <1>0, <2>4, <5>1, <5>2
            <4>4. pos' - 1 = pos
              BY <1>0
            <4>5. /\ outbox' = NoRequest /\ NoOwnPast(server', Len(batch'.log))
              BY <1>0, <2>8, <3>0, BatchIs
            <4>6. mls' # Absent /\ clean' /\ Row' \in {OpNone, UpdateTree} =>
                      Begins(mls'.commits, batch'.log) /\ Len(mls'.commits) >= pos' - 1
              BY <1>0, <3>0, <4>1, <4>3, <4>4 DEF OpNone, CreateGroup, UpdateTree
            <4>7. status' \in {OpNone, CreateGroup} /\ (status' = CreateGroup => mem'.commits = <<>>)
              BY <1>0, <2>3, <2>8, <3>0, <4>1
            <4>8. ProgressInv'
              BY <4>5, <4>6, <4>7 DEF ProgressInv
            <4> QED  BY <4>2, <4>8
        <3>2. CASE h # cur
            <4>1. mls' = h /\ mem' = h /\ status = OpNone
              BY <2>1, <2>2, <2>3, <2>8, <3>0, <3>2
            <4>2. Level(mls, server)
              BY <2>4, <3>0, <4>1 DEF Describes
            <4>3. Len(mls.commits) <= pos /\ pos # 0
              BY <1>0, <2>2, <2>4, <3>2 DEF Begins
            <4>4. NoOwnPast(server, pos)
              BY <1>0, <2>4, <4>2, <4>3, BatchIs, ServerIs DEF Level, NoOwnPast
            <4>5. Level(h, server)
              BY <2>2, <2>4, <3>2, <4>3, <4>4, Empty DEF Level
            <4>6. Describes(OpNone, h, server)
              BY <2>2, <2>4, <3>2, <4>5 DEF Describes, CreateGroup, JoinByExternalCommit, UpdateTree, OpNone
            <4>7. RowInv'
              BY <1>0, <3>0, <4>1, <4>6 DEF RowInv
            <4>8. merge_pending_commit(h) = h
              BY <2>2, <3>2 DEF merge_pending_commit
            <4>9. AnswerInv'
              BY <1>0, <3>0, <4>1, <4>5, <4>8 DEF AnswerInv
            <4>10. Begins(h.commits, batch.log) /\ Len(h.commits) >= pos' - 1
              BY <1>0, <2>2, <3>2
            <4>11. ProgressInv'
              BY <1>0, <2>8, <3>0, <4>1, <4>10, BatchIs DEF ProgressInv, OpNone, CreateGroup
            <4> QED  BY <4>7, <4>9, <4>11
        <3> QED  BY <3>1, <3>2
    <2> QED  BY <1>0, <2>5, <2>6, <2>7, <2>8 DEF IInv, Facts
<1> QED  BY <1>1, <1>2

\* The in-memory group runs ahead of the stored one.
LEMMA RollsBackKeeps == ASSUME IInv, ProcessCommitRollsBack  PROVE IInv'
<1> DEFINE cur == CurrentGroup
           h == process_operation_message(cur, batch.origin, batch.log, pos)
<1>0. /\ pc = "messages" /\ Processing /\ AtMessage /\ ~IsWelcome(pos) /\ mem # Absent
      /\ pos \in Nat /\ pos' = pos + 1 /\ mem' = h /\ loaded' /\ ~clean'
      /\ loaded' \in BOOLEAN /\ clean' \in BOOLEAN
      /\ UNCHANGED <<server, mls, status, opened, pc, call, outbox, answer, batch, own, misled>>
  BY DEF ProcessCommitRollsBack, AtMessage, Processing, IInv, Facts, TypeInv
<1>1. /\ cur \in Groups /\ h \in Groups /\ mls \in Groups /\ GroupOK(h, opened, own)
      /\ mls.origin = cur.origin /\ h.origin = cur.origin
      /\ Begins(mls.commits, cur.commits) /\ Begins(cur.commits, h.commits)
  BY <1>0, CurrentIs
<1>2. ~misled /\ status = CreateGroup => h.commits = <<>>
    <2>1. ASSUME ~misled, status = CreateGroup
          PROVE  cur.commits = <<>> /\ ~Applies(cur, batch.origin, batch.log, pos)
      BY <1>0, <2>1, FoundingStays
    <2> QED  BY <2>1, ApplyNot
<1> HIDE DEF h, cur
<1>3. /\ mls # Absent /\ h # Absent /\ mls.commits \in Seq(Commits)
      /\ cur.commits \in Seq(Commits) /\ h.commits \in Seq(Commits)
  BY <1>1, GroupIs
<1>4. Begins(mls.commits, h.commits)
  BY <1>1, <1>3, BeginsThrough
<1>5. TypeInv' /\ DataInv' /\ FlightInv'
  BY <1>0, <1>1 DEF IInv, Facts, TypeInv, DataInv, FlightInv, Settled
<1>6. BatchInv'
  BY <1>0, <1>1, <1>3, <1>4, BatchIs DEF BatchInv
<1>7. ~misled => RowInv' /\ AnswerInv'
  BY <1>0 DEF IInv, RowInv, Row, AnswerInv
<1>8. ~misled => ProgressInv'
  BY <1>0, <1>2 DEF IInv, ProgressInv, Processing
<1> QED  BY <1>0, <1>5, <1>6, <1>7, <1>8 DEF IInv, Facts

-----------------------------------------------------------------------------
(* The server, the network and the other members.                          *)

LEMMA LostKeeps == ASSUME IInv, ConnectionLost  PROVE IInv'
<1>1. /\ outbox' = NoRequest /\ answer' = "none"
      /\ UNCHANGED <<server, mls, status, opened, pc, call, batch, mem, pos, loaded, clean, own,
                     misled>>
  BY DEF ConnectionLost
<1>2. TypeInv' /\ DataInv' /\ FlightInv'
  BY <1>1 DEF IInv, Facts, TypeInv, DataInv, FlightInv, Settled
<1>3. BatchInv'
  BY <1>1 DEF IInv, Facts, BatchInv, Processing
<1>4. ~misled => RowInv' /\ AnswerInv'
  BY <1>1 DEF IInv, RowInv, Row, AnswerInv
<1>5. ~misled => ProgressInv'
  BY <1>1 DEF IInv, ProgressInv, Processing, Row
<1> QED  BY <1>1, <1>2, <1>3, <1>4, <1>5 DEF IInv, Facts

LEMMA CrashKeeps == ASSUME IInv, Crash  PROVE IInv'
<1>1. /\ pc' = "idle" /\ call' = [write |-> OpNone, result |-> NoRequest]
      /\ outbox' = NoRequest /\ answer' = "none"
      /\ batch' = NoBatch /\ mem' = Absent /\ pos' = 0 /\ loaded' \in BOOLEAN /\ clean' \in BOOLEAN
      /\ UNCHANGED <<server, mls, status, opened, own>>
  BY DEF Crash, Forget
<1>2. NoBatch \in [origin : Commits \cup {NoCommit}, log : Seq(Commits), pending_epoch : Int]
  BY DEF NoBatch
<1>3. /\ call'.write = OpNone /\ call'.result = NoRequest
      /\ call' \in [write : GroupPendingOperation, result : Requests \cup {NoRequest}]
  BY <1>1 DEF GroupPendingOperation
<1>4. misled \in BOOLEAN
  BY DEF IInv, Facts, TypeInv
<1>5. /\ misled' \in BOOLEAN
      /\ ~misled' => /\ ~misled
                     /\ pc \in {"status", "delete_status"} => status = call.write
                     /\ pc = "reset" => status = OpNone
  BY <1>4 DEF Crash
<1>6. TypeInv' /\ DataInv' /\ FlightInv'
  BY <1>1, <1>2, <1>3, <1>5 DEF IInv, Facts, TypeInv, DataInv, FlightInv, Settled
<1>7. BatchInv' /\ ProgressInv'
  BY <1>1 DEF BatchInv, ProgressInv, Processing
<1>8. ASSUME ~misled'  PROVE RowInv' /\ AnswerInv'
    <2>1. Row = status /\ Row' = status
      BY <1>1, <1>5, <1>8 DEF Row
    <2> QED  BY <1>1, <1>3, <1>5, <1>8, <2>1 DEF IInv, RowInv, AnswerInv
<1> QED  BY <1>6, <1>7, <1>8 DEF IInv, Facts

LEMMA PeerCommitsKeeps == ASSUME IInv, NEW adds \in BOOLEAN, PeerCommits(adds)  PROVE IInv'
<1> DEFINE c == Peer(Len(server.log) + 1, adds)
<1>0. server \in Servers /\ ServerOK(server, opened, own) /\ mls \in Groups \cup {Absent}
  BY DEF IInv, Facts, TypeInv, DataInv
<1>1. /\ server.log \in Seq(Commits) /\ Len(server.log) \in Nat /\ server.origin # NoCommit
      /\ server.log # <<>> /\ server.origin \in Commits /\ Len(server.log) + 1 \in Nat
  BY <1>0, ServerIs DEF PeerCommits, Exists, ServerOK
<1>2. c \in Commits /\ c.by # "self" /\ c.adds = adds
  BY <1>1, PeerIs
<1>3. server' = [server EXCEPT !.log = Append(@, c)]
  BY DEF PeerCommits
<1>4. /\ UNCHANGED <<pc, call, outbox, answer, batch, mem, pos, loaded, clean>>
      /\ UNCHANGED <<mls, status, opened, own, misled>>
  BY DEF PeerCommits, client
<1> HIDE DEF c
<1>5. server'.origin = server.origin /\ server'.log = Append(server.log, c)
  BY <1>0, <1>3 DEF Servers
<1>6. server' \in Servers
    <2>1. Append(server.log, c) \in Seq(Commits)
      BY <1>1, <1>2
    <2> QED  BY <1>0, <1>3, <2>1 DEF Servers
<1>7. c.adds => /\ server.origin.by # "self"
                /\ \A k \in 1 .. Len(server.log) : server.log[k].by # "self" /\ ~server.log[k].adds
    <2>1. DOMAIN server.log = 1 .. Len(server.log)
      BY <1>1
    <2> QED  BY <1>2, <2>1 DEF PeerCommits, SelfIsMember
<1>8. ServerOK(server', opened, own)
  BY <1>0, <1>1, <1>2, <1>5, <1>6, <1>7, ServerGrows
<1>9. TypeInv' /\ DataInv' /\ FlightInv'
  BY <1>4, <1>6, <1>8 DEF IInv, Facts, TypeInv, DataInv, FlightInv, Settled
<1>10. Processing => Begins(batch.log, server'.log)
    <2>1. Begins(server.log, server'.log) /\ server'.log \in Seq(Commits)
      BY <1>1, <1>2, <1>5, AppendAt
    <2> QED  BY <1>1, <2>1, BatchIs, BeginsThrough
<1>11. BatchInv'
  BY <1>4, <1>5, <1>10 DEF IInv, Facts, BatchInv, Processing
<1>12. ASSUME ~misled  PROVE RowInv' /\ AnswerInv' /\ ProgressInv'
    <2>1. ASSUME mls # Absent
          PROVE  /\ \A row : Describes(row, mls, server) => Describes(row, mls, server')
                 /\ \A g \in Groups : Level(g, server) => Level(g, server')
                 /\ \A r \in Requests : Matches(r, mls, server) => Matches(r, mls, server')
      BY <1>0, <1>1, <1>2, <1>5, <1>6, <2>1, DescribesGrows
    <2>2. Row' = Row /\ Describes(Row, mls, server)
      BY <1>4, <1>12 DEF Row, IInv, RowInv
    <2>3. RowInv'
        <3>1. CASE mls = Absent
          BY <1>4, <2>2, <3>1 DEF RowInv, Describes
        <3>2. CASE mls # Absent
          BY <1>4, <2>1, <2>2, <3>2 DEF RowInv
        <3> QED  BY <3>1, <3>2
    <2>4. mls # Absent => mls \in Groups /\ merge_pending_commit(mls) \in Groups
      BY <1>0, Merged DEF IInv, Facts, DataInv
    <2>5. call.result \in Requests \cup {NoRequest} /\ outbox \in Requests \cup {NoRequest}
      BY DEF IInv, Facts, TypeInv
    <2>6. AnswerInv'
        <3>1. SUFFICES ASSUME mls # Absent  PROVE AnswerInv'
          BY <1>4 DEF AnswerInv
        <3>2. /\ call.result # NoRequest => Matches(call.result, mls, server')
              /\ outbox # NoRequest => Matches(outbox, mls, server')
          BY <1>12, <2>1, <2>5, <3>1 DEF IInv, AnswerInv
        <3>3. /\ answer = "accepted" => Level(merge_pending_commit(mls), server')
              /\ answer = "rejected_update" => Level(mls, server')
          BY <1>12, <2>1, <2>4, <3>1 DEF IInv, AnswerInv
        <3> QED  BY <1>4, <3>2, <3>3 DEF AnswerInv
    <2>7. Processing => NoOwnPast(server', Len(batch.log))
      BY <1>0, <1>2, <1>5, <1>6, <1>12, BatchIs, NoOwnPastGrows
    <2>8. ProgressInv'
      BY <1>4, <1>12, <2>2, <2>7 DEF IInv, ProgressInv, Processing
    <2> QED  BY <2>3, <2>6, <2>8
<1> QED  BY <1>4, <1>9, <1>11, <1>12 DEF IInv, Facts

LEMMA PeerCreatesKeeps == ASSUME IInv, PeerCreates  PROVE IInv'
<1> DEFINE o == Peer(0, FALSE)
           c == Peer(1, FALSE)
<1>0. server \in Servers /\ ServerOK(server, opened, own) /\ mls \in Groups \cup {Absent}
  BY DEF IInv, Facts, TypeInv, DataInv
<1>1. server.origin = NoCommit /\ server.log = <<>>
  BY <1>0 DEF PeerCreates, Exists, ServerOK
<1>2. o \in Commits /\ o # NoCommit /\ o.by = "peer" /\ c \in Commits /\ c.by = "peer" /\ ~c.adds
  BY PeerIs
<1>3. /\ server' = [origin |-> o, log |-> <<c>>]
      /\ UNCHANGED <<pc, call, outbox, answer, batch, mem, pos, loaded, clean>>
      /\ UNCHANGED <<mls, status, opened, own, misled>>
  BY DEF PeerCreates, client
<1> HIDE DEF o, c
<1>4. <<c>> \in Seq(Commits) /\ Len(<<c>>) = 1 /\ <<c>>[1] = c /\ <<c>> # <<>>
  BY <1>2
<1>5. server' \in Servers /\ server'.origin = o /\ server'.log = <<c>>
  BY <1>2, <1>3, <1>4 DEF Servers
<1>6. ServerOK(server', opened, own)
    <2>1. \A i \in 1 .. Len(server'.log) : ~server'.log[i].adds
      BY <1>2, <1>4, <1>5
    <2> QED  BY <1>2, <1>4, <1>5, <2>1 DEF ServerOK
<1>7. TypeInv' /\ DataInv' /\ FlightInv'
  BY <1>3, <1>5, <1>6 DEF IInv, Facts, TypeInv, DataInv, FlightInv, Settled
<1>8. ~Processing
    <2>1. ASSUME Processing  PROVE FALSE
        <3>1. Len(server.log) = 0
          BY <1>1, EmptySeq
        <3>2. Len(batch.log) = 0 /\ batch.log # <<>> /\ batch.log \in Seq(Commits)
          BY <2>1, <3>1, BatchIs DEF Begins
        <3> QED  BY <3>2, Empty
    <2> QED  BY <2>1
<1>9. BatchInv' /\ ProgressInv'
  BY <1>3, <1>8 DEF BatchInv, ProgressInv, Processing
<1>10. ASSUME ~misled  PROVE RowInv' /\ AnswerInv'
    <2>1. ASSUME mls # Absent
          PROVE  /\ \A row : Describes(row, mls, server) => Describes(row, mls, server')
                 /\ \A r \in Requests : RequestOK(r, opened, own) /\ Matches(r, mls, server) =>
                        Matches(r, mls, server')
                 /\ answer # "accepted" /\ answer # "rejected_update"
        <3>1. mls \in Groups /\ GroupOK(mls, opened, own)
          BY <1>0, <2>1 DEF IInv, Facts, DataInv
        <3>2. /\ \A row : Describes(row, mls, server) => Describes(row, mls, server')
              /\ \A r \in Requests : RequestOK(r, opened, own) /\ Matches(r, mls, server) =>
                        Matches(r, mls, server')
          BY <1>0, <1>1, <1>2, <1>5, <3>1, DescribesFounded
        <3>3. ~Level(mls, server)
          BY <1>0, <1>1, <1>2, <1>5, <3>1, DescribesFounded
        <3>4. ~Level(merge_pending_commit(mls), server)
          BY <1>0, <1>1, <1>2, <1>5, <3>1, DescribesFounded, Merged
        <3>5. answer # "accepted" /\ answer # "rejected_update"
          BY <1>10, <2>1, <3>3, <3>4 DEF IInv, AnswerInv
        <3> QED  BY <3>2, <3>5
    <2>2. Row' = Row /\ Describes(Row, mls, server)
      BY <1>3, <1>10 DEF Row, IInv, RowInv
    <2>3. RowInv'
        <3>1. CASE mls = Absent
          BY <1>3, <2>2, <3>1 DEF RowInv, Describes
        <3>2. CASE mls # Absent
          BY <1>3, <2>1, <2>2, <3>2 DEF RowInv
        <3> QED  BY <3>1, <3>2
    <2>4. /\ call.result \in Requests \cup {NoRequest} /\ outbox \in Requests \cup {NoRequest}
          /\ call.result # NoRequest => RequestOK(call.result, opened, own)
          /\ outbox # NoRequest => RequestOK(outbox, opened, own)
      BY DEF IInv, Facts, TypeInv, DataInv
    <2>5. AnswerInv'
        <3>1. SUFFICES ASSUME mls # Absent  PROVE AnswerInv'
          BY <1>3 DEF AnswerInv
        <3>2. /\ call.result # NoRequest => Matches(call.result, mls, server')
              /\ outbox # NoRequest => Matches(outbox, mls, server')
          BY <1>10, <2>1, <2>4, <3>1 DEF IInv, AnswerInv
        <3> QED  BY <1>3, <2>1, <3>1, <3>2 DEF AnswerInv
    <2> QED  BY <2>3, <2>5
<1> QED  BY <1>3, <1>7, <1>9, <1>10 DEF IInv, Facts

\* What acceptance of the request makes of the group whose commit it is.
LEMMA AcceptedIs ==
    ASSUME NEW s \in Servers, NEW g \in Groups, NEW r \in Requests, NEW used, NEW n,
           GroupOK(g, used, n), ServerOK(s, used, n), RequestOK(r, used, n), Matches(r, g, s),
           r.kind = "create" => s.origin = NoCommit,
           r.kind # "create" => r.origin = s.origin /\ r.base = s.log,
           NEW s2 \in Servers, s2.origin = r.origin, s2.log = Append(r.base, r.commit)
    PROVE  /\ Level(merge_pending_commit(g), s2)
           /\ \A row \in GroupPendingOperation : Describes(row, g, s) => Describes(row, g, s2)
<1>0. /\ r.base \in Seq(Commits) /\ r.commit \in Commits /\ Len(r.base) \in Nat
      /\ r.commit # NoCommit /\ g.commits \in Seq(Commits) /\ Len(g.commits) \in Nat
      /\ g # Absent /\ s.log \in Seq(Commits) /\ Len(s.log) \in Nat
      /\ (g.commits = <<>> <=> Len(g.commits) = 0)
  BY GroupIs, ServerIs, Kinds, Empty DEF Requests
<1>1. /\ s2.log \in Seq(Commits) /\ Len(s2.log) = Len(r.base) + 1 /\ s2.log # <<>>
      /\ \A i \in 1 .. Len(r.base) : s2.log[i] = r.base[i]
      /\ s2.log[Len(r.base) + 1] = r.commit
      /\ Begins(r.base, s2.log)
  BY <1>0, AppendAt
<1>2. NoOwnPast(s2, Len(s2.log)) /\ Begins(s2.log, s2.log)
  BY <1>1, ServerIs DEF NoOwnPast, Begins
<1>3. CASE r.kind = "create" \/ (r.kind = "update" /\ g.commits = r.base)
    <2>1. g.origin = r.origin /\ g.commits = r.base /\ g.pending = r.commit
        <3>1. ASSUME r.kind = "update", g.commits = r.base  PROVE ~(Len(r.base) < Len(g.commits))
          BY <1>0, <3>1
        <3> QED  BY <1>3, <3>1 DEF Matches
    <2>2. merge_pending_commit(g).commits = s2.log /\ merge_pending_commit(g).origin = s2.origin
      BY <1>0, <2>1, Merged
    <2>3. Level(merge_pending_commit(g), s2)
      BY <1>1, <1>2, <2>2 DEF Level, Has
    <2>4. CASE r.kind = "create"
        <3>1. g.commits = <<>> /\ Len(r.base) = 0
          BY <1>0, <2>1, <2>4 DEF RequestOK
        <3>2. Founding(g, s2)
          BY <1>1, <1>2, <2>1, <3>1 DEF Founding
        <3>3. ~Level(g, s) /\ ~LevelButPending(g, s) /\ ~Joining(g, s)
          BY <3>1 DEF Level, LevelButPending, Joining
        <3> QED  BY <1>0, <2>3, <3>2, <3>3 DEF Describes, GroupPendingOperation
    <2>5. CASE r.kind = "update"
        <3>1. g.commits # <<>> /\ g.pending # NoCommit
          BY <1>0, <2>1, <2>5 DEF RequestOK
        <3>2. LevelButPending(g, s2)
            <4>1. NoOwnPast(s2, Len(g.commits) + 1)
              BY <1>1, <1>2, <2>1
            <4>2. Has(s2, g)
              BY <1>1, <2>1 DEF Has
            <4>3. s2.log[Len(g.commits) + 1] = g.pending
              BY <1>1, <2>1
            <4> QED  BY <3>1, <4>1, <4>2, <4>3 DEF LevelButPending
        <3>3. ~Founding(g, s) /\ ~Joining(g, s)
          BY <3>1 DEF Founding, Joining
        <3> QED  BY <1>0, <2>3, <3>1, <3>2, <3>3 DEF Describes, GroupPendingOperation
    <2> QED  BY <1>3, <2>4, <2>5
<1>4. CASE r.kind = "update" /\ g.commits # r.base
    <2>1. Level(g, s) /\ Len(r.base) < Len(g.commits)
      BY <1>4 DEF Matches
    <2>2. r.base = s.log
      BY <1>4
    <2>3. Len(g.commits) <= Len(s.log)
      BY <2>1 DEF Level, Has, Begins
    <2> QED  BY <1>0, <2>1, <2>2, <2>3
<1>5. CASE r.kind = "join"
    <2>1. /\ g.origin = r.origin /\ g.commits = s2.log /\ g.pending = NoCommit /\ r.base = s.log
          /\ g.commits[Len(g.commits)] = r.commit
      BY <1>0, <1>1, <1>5 DEF Matches
    <2>2. merge_pending_commit(g) = g
      BY <2>1 DEF merge_pending_commit
    <2>3. Level(g, s2)
      BY <1>1, <1>2, <2>1 DEF Level, Has
    <2>4. Joining(g, s2)
        <3>1. g.commits[Len(g.commits)].by = "self"
          BY <2>1 DEF RequestOK
        <3>2. g.commits # <<>> /\ Len(g.commits) = Len(s2.log) /\ g.origin = s2.origin
          BY <1>1, <2>1
        <3>3. NoOwnPast(s2, Len(g.commits))
          BY <1>2, <2>1
        <3>4. Len(g.commits) <= Len(s2.log) + 1
          BY <1>0, <3>2
        <3>5. \A i \in 1 .. Len(s2.log) : s2.log[i] = g.commits[i]
          BY <2>1
        <3>6. s2.log[Len(g.commits)] = g.commits[Len(g.commits)]
          BY <2>1
        <3> QED  BY <2>1, <3>1, <3>2, <3>3, <3>4, <3>5, <3>6 DEF Joining
    <2>5. ~Has(s, g) /\ ~Founding(g, s)
      BY <1>0, <1>1, <2>1 DEF Has, Begins, Founding
    <2>6. ~Level(g, s) /\ ~LevelButPending(g, s)
      BY <2>5 DEF Level, LevelButPending
    <2> QED  BY <1>0, <2>2, <2>3, <2>4, <2>5, <2>6 DEF Describes, GroupPendingOperation
<1> QED  BY <1>3, <1>4, <1>5 DEF Requests

LEMMA ServerKeeps == ASSUME IInv, ServerHandles  PROVE IInv'
<1> DEFINE ok == IF outbox.kind = "create" THEN ~Exists
                 ELSE outbox.origin = server.origin /\ outbox.base = server.log
           s2 == [origin |-> outbox.origin, log |-> Append(outbox.base, outbox.commit)]
<1>0. /\ server \in Servers /\ ServerOK(server, opened, own) /\ mls \in Groups \cup {Absent}
      /\ outbox # NoRequest /\ outbox \in Requests /\ RequestOK(outbox, opened, own)
      /\ call.result = NoRequest /\ answer = "none"
      /\ mls # Absent => GroupOK(mls, opened, own)
  BY DEF ServerHandles, IInv, Facts, TypeInv, DataInv, FlightInv, Settled
<1>1. /\ server' = (IF ok THEN s2 ELSE server) /\ outbox' = NoRequest
      /\ answer' = (IF ok THEN "accepted"
                    ELSE IF outbox.kind = "update" THEN "rejected_update" ELSE "rejected")
      /\ UNCHANGED <<mls, status, opened, pc, call, batch, mem, pos, loaded, clean, own, misled>>
  BY DEF ServerHandles
<1>2. ok => /\ outbox.kind = "create" => server.origin = NoCommit
            /\ outbox.kind # "create" => outbox.origin = server.origin /\ outbox.base = server.log
  BY DEF Exists
<1>3. ok => s2 \in Servers /\ ServerOK(s2, opened, own)
  BY <1>0, <1>2, ServerTakes
<1>4. s2.origin = outbox.origin /\ s2.log = Append(outbox.base, outbox.commit)
  OBVIOUS
<1> HIDE DEF ok, s2
<1>5. answer' \in {"none", "accepted", "rejected", "rejected_update"}
  BY <1>1
<1>6. TypeInv' /\ DataInv'
  BY <1>0, <1>1, <1>3, <1>5 DEF IInv, Facts, TypeInv, DataInv
<1>7. FlightInv'
  BY <1>0, <1>1 DEF IInv, Facts, FlightInv, Settled
<1>8. Processing => batch.origin = server'.origin /\ Begins(batch.log, server'.log)
    <2>1. CASE ok
        <3>1. SUFFICES ASSUME Processing
                       PROVE  batch.origin = s2.origin /\ Begins(batch.log, s2.log)
          BY <1>1, <2>1
        <3>2. outbox.kind # "create"
            <4>1. ASSUME outbox.kind = "create"  PROVE FALSE
                <5>1. server.log = <<>>
                  BY <1>0, <1>2, <2>1, <4>1 DEF ServerOK
                <5>2. Len(batch.log) = 0
                  BY <3>1, <5>1, BatchIs, EmptySeq DEF Begins
                <5> QED  BY <3>1, <5>2, BatchIs, Empty
            <4> QED  BY <4>1
        <3>3. outbox.origin = server.origin /\ outbox.base = server.log
          BY <1>2, <2>1, <3>2
        <3>4. Begins(server.log, s2.log) /\ server.log \in Seq(Commits) /\ s2.log \in Seq(Commits)
          BY <1>0, <1>3, <1>4, <2>1, <3>3, AppendAt, ServerIs DEF Requests
        <3> QED  BY <1>4, <3>1, <3>3, <3>4, BatchIs, BeginsThrough
    <2>2. CASE ~ok
      BY <1>1, <2>2, BatchIs
    <2> QED  BY <2>1, <2>2
<1>9. BatchInv'
  BY <1>1, <1>8 DEF IInv, Facts, BatchInv, Processing
<1>10. ASSUME ~misled  PROVE RowInv' /\ AnswerInv' /\ ProgressInv'
    <2>1. ~Processing
      BY <1>0, <1>10, BatchIs
    <2>2. ProgressInv'
      BY <1>1, <2>1 DEF ProgressInv, Processing
    <2>3. Row' = Row /\ Describes(Row, mls, server)
      BY <1>1, <1>10 DEF Row, IInv, RowInv
    <2>4. CASE mls = Absent
      BY <1>1, <2>2, <2>3, <2>4 DEF RowInv, Describes, AnswerInv
    <2>5. CASE mls # Absent
        <3>1. Matches(outbox, mls, server) /\ mls \in Groups
          BY <1>0, <1>10, <2>5 DEF IInv, AnswerInv
        <3>2. CASE ok
            <4>1. Row \in GroupPendingOperation
              BY DEF Row, IInv, Facts, TypeInv, GroupPendingOperation
            <4>2. /\ Level(merge_pending_commit(mls), s2)
                  /\ \A row \in GroupPendingOperation :
                        Describes(row, mls, server) => Describes(row, mls, s2)
              BY <1>0, <1>2, <1>3, <1>4, <2>5, <3>1, <3>2, AcceptedIs
            <4>3. server' = s2 /\ answer' = "accepted"
              BY <1>1, <3>2
            <4>4. RowInv'
              BY <1>1, <2>3, <4>1, <4>2, <4>3 DEF RowInv
            <4>5. AnswerInv'
              BY <1>0, <1>1, <4>2, <4>3 DEF AnswerInv
            <4> QED  BY <2>2, <4>4, <4>5
        <3>3. CASE ~ok
            <4>1. server' = server /\ answer' # "accepted"
              BY <1>1, <3>3
            <4>2. answer' = "rejected_update" => Level(mls, server)
              BY <1>1, <3>1, <3>3 DEF Matches
            <4>3. RowInv'
              BY <1>1, <2>3, <4>1 DEF RowInv
            <4>4. AnswerInv'
              BY <1>0, <1>1, <4>1, <4>2 DEF AnswerInv
            <4> QED  BY <2>2, <4>3, <4>4
        <3> QED  BY <3>2, <3>3
    <2> QED  BY <2>4, <2>5
<1> QED  BY <1>1, <1>6, <1>7, <1>9, <1>10 DEF IInv, Facts

-----------------------------------------------------------------------------
(* The theorems.                                                           *)

\* The invariant is inductive: every operation, every step of
\* process_all_messages, every message of the server and every fault keeps it.
LEMMA NextKeeps == ASSUME IInv, [Next]_vars  PROVE IInv'
<1>1. CASE create_group  BY <1>1, CreateKeeps
<1>2. CASE add_members  BY <1>2, AddMembersKeeps
<1>3. CASE update_tree  BY <1>3, UpdateTreeKeeps
<1>4. CASE readd  BY <1>4, UpdateTreeKeeps DEF readd
<1>5. CASE join_by_external_commit  BY <1>5, JoinKeeps
<1>6. CASE merge_on_accept  BY <1>6, MergeKeeps
<1>7. CASE clear_on_reject  BY <1>7, ClearKeeps
<1>8. CASE delete_on_reject \/ delete_by_user  BY <1>8, DeleteKeeps
<1>9. CASE WriteStatus \/ WriteStatusFails  BY <1>9, WriteKeeps
<1>10. CASE process_live_commit  BY <1>10, LiveCommitKeeps
<1>11. CASE process_live_welcome  BY <1>11, LiveWelcomeKeeps
<1>12. CASE clear_pending_proposals  BY <1>12, ClearProposalsKeeps
<1>13. CASE FetchMessages  BY <1>13, FetchKeeps
<1>14. CASE DesyncCheck  BY <1>14, DesyncKeeps
<1>15. CASE LoadFails  BY <1>15, LoadFailsKeeps
<1>16. CASE DesyncCheckFails  BY <1>16, EndKeeps DEF DesyncCheckFails
<1>17. CASE ResetStatus \/ ResetStatusFails  BY <1>17, ResetKeeps
<1>18. CASE ProcessWelcome  BY <1>18, WelcomeKeeps
<1>19. CASE ProcessCommit  BY <1>19, CommitAppliedKeeps
<1>20. CASE ProcessWelcomeFails \/ ProcessCommitBreaks  BY <1>20, SkipKeeps
<1>21. CASE ProcessCommitRollsBack  BY <1>21, RollsBackKeeps
<1>22. CASE ProcessAllReturns  BY <1>22, EndKeeps DEF ProcessAllReturns
<1>23. CASE ServerHandles  BY <1>23, ServerKeeps
<1>24. CASE ConnectionLost  BY <1>24, LostKeeps
<1>25. CASE PeerCreates  BY <1>25, PeerCreatesKeeps
<1>26. CASE \E adds \in BOOLEAN : PeerCommits(adds)  BY <1>26, PeerCommitsKeeps
<1>27. CASE Crash  BY <1>27, CrashKeeps
<1>28. CASE UNCHANGED vars  BY <1>28, StutterKeeps
<1> QED  BY <1>1, <1>2, <1>3, <1>4, <1>5, <1>6, <1>7, <1>8, <1>9, <1>10, <1>11, <1>12, <1>13,
            <1>14, <1>15, <1>16, <1>17, <1>18, <1>19, <1>20, <1>21, <1>22, <1>23, <1>24, <1>25,
            <1>26, <1>27, <1>28 DEF Next, ProcessAllStep, Fault

\* Every step of the SDK, the application, the server and the other members keeps
\* what the row says of the group, unless the row was misled.
THEOREM Inductive == Spec => []IInv
<1>1. IInv /\ [Next]_vars => IInv'
  BY NextKeeps
<1> QED  BY InitHolds, <1>1, PTL DEF Spec

\* The server's group has been in g's state, as a prefix or element by element.
LEMMA OnServerIsHas ==
    ASSUME IInv, mls # Absent
    PROVE  OnServer(mls) <=> Has(server, mls)
<1>1. mls \in Groups /\ server \in Servers
  BY DEF IInv, Facts, TypeInv
<1>2. mls.commits \in Seq(Commits) /\ server.log \in Seq(Commits)
  BY <1>1, GroupIs, ServerIs
<1>3. IsPrefix(mls.commits, server.log) <=> Begins(mls.commits, server.log)
  BY <1>2, PrefixBegins
<1> QED  BY <1>3 DEF OnServer, Has

\* Whatever crashes, lost answers and storage errors there were: as long as
\* the row was not misled, a stored group that the server never had is
\* recorded as a pending create or join, or is being recorded.
THEOREM ForksAreRecorded == Spec => []ForkIsRecorded
<1>1. ASSUME IInv  PROVE ForkIsRecorded
    <2>1. SUFFICES ASSUME mls # Absent, ~misled, ~OnServer(mls)
                   PROVE  \/ status \in {CreateGroup, JoinByExternalCommit}
                          \/ pc = "status" /\ call.write \in {CreateGroup, JoinByExternalCommit}
      BY DEF ForkIsRecorded
    <2>2. ~Has(server, mls) /\ Describes(Row, mls, server)
      BY <1>1, <2>1, OnServerIsHas DEF IInv, RowInv
    <2>3. Row # OpNone /\ Row # UpdateTree
      BY <2>1, <2>2 DEF Describes, Level, LevelButPending
    <2>4. Row \in {CreateGroup, JoinByExternalCommit}
      BY <1>1, <2>3 DEF Row, IInv, Facts, TypeInv, GroupPendingOperation
    <2>5. pc # "delete_status"
      BY <1>1, <2>1 DEF IInv, Facts, FlightInv
    <2> QED  BY <2>3, <2>4, <2>5 DEF Row
<1> QED  BY Inductive, <1>1, PTL

\* Outside the write of the row, a pending commit has its row: the desync
\* check knows of every commit the server may have accepted.
THEOREM PendingsAreRecorded == Spec => []PendingIsRecorded
<1>1. ASSUME IInv  PROVE PendingIsRecorded
    <2>1. SUFFICES ASSUME mls # Absent, ~misled, pc \notin {"status", "reset"},
                          mls.pending # NoCommit
                   PROVE  status \in {CreateGroup, UpdateTree}
      BY DEF PendingIsRecorded
    <2>2. pc # "delete_status" /\ status \in GroupPendingOperation
      BY <1>1, <2>1 DEF IInv, Facts, TypeInv, FlightInv
    <2>3. Describes(status, mls, server)
      BY <1>1, <2>1, <2>2 DEF IInv, RowInv, Row
    <2>4. status # OpNone /\ status # JoinByExternalCommit
      BY <2>1, <2>3 DEF Describes, Joining
    <2> QED  BY <2>2, <2>4 DEF GroupPendingOperation
<1> QED  BY Inductive, <1>1, PTL

\* A batch handled without a storage error leaves no group, one still being
\* created, or the group at the batch's last epoch with nothing pending.
THEOREM BatchCatchesUp == Spec => []CaughtUp
<1>1. ASSUME IInv  PROVE CaughtUp
    <2>1. SUFFICES ASSUME pc = "messages", pos \notin DOMAIN batch.log, clean, ~misled,
                          mls # Absent, status # CreateGroup
                   PROVE  /\ mls.origin = batch.origin /\ mls.commits = batch.log
                          /\ mls.pending = NoCommit
      BY DEF CaughtUp
    <2>2. Processing /\ mls \in Groups /\ pos \in Nat /\ pos > 0
      BY <1>1, <2>1 DEF Processing, IInv, Facts, TypeInv, BatchInv
    <2>3. status = OpNone /\ Row = OpNone
      BY <1>1, <2>1, <2>2 DEF IInv, ProgressInv, Row
    <2>4. Level(mls, server) /\ mls.pending = NoCommit
      BY <1>1, <2>1, <2>3 DEF IInv, RowInv, Describes
    <2>5. Begins(mls.commits, batch.log) /\ Len(mls.commits) >= pos - 1
      BY <1>1, <2>1, <2>2, <2>3 DEF IInv, ProgressInv
    <2>6. Len(batch.log) <= pos - 1 /\ Len(batch.log) \in Nat /\ batch.log \in Seq(Commits)
      BY <1>1, <2>1, <2>2, BatchIs
    <2>7. mls.commits \in Seq(Commits) /\ Len(mls.commits) \in Nat
      BY <2>2, GroupIs
    <2>8. Len(batch.log) <= Len(mls.commits)
      BY <2>2, <2>5, <2>6, <2>7
    <2>9. mls.commits = batch.log
      BY <2>5, <2>6, <2>7, <2>8, BeginsEqual
    <2>10. mls.origin = batch.origin
      BY <1>1, <2>2, <2>4, BatchIs DEF Level, Has
    <2> QED  BY <2>4, <2>9, <2>10
<1> QED  BY Inductive, <1>1, PTL

\* The desync check deletes no group the server has had, unless the row was
\* misled.
THEOREM OnlyForksAreDeleted == Spec => DeletesOnlyForks
<1> DEFINE A == pc = "load" /\ mls # Absent /\ mls' = Absent => misled \/ ~OnServer(mls)
<1>1. ASSUME IInv, [Next]_vars  PROVE [A]_vars
    <2>1. SUFFICES ASSUME pc = "load", mls # Absent, mls' = Absent, ~misled
                   PROVE  ~OnServer(mls)
      OBVIOUS
    <2>2. mls' # mls /\ ~Idle
      BY <2>1 DEF Idle
    <2>3. CASE DesyncCheck
        <3>1. Processing /\ mls \in Groups /\ GroupOK(mls, opened, own)
              /\ status \in GroupPendingOperation
          BY <1>1, <2>1 DEF Processing, IInv, Facts, TypeInv, DataInv
        <3>2. Describes(status, mls, server)
          BY <1>1, <2>1 DEF IInv, RowInv, Row
        <3>3. clean
          BY <1>1, <2>1, <3>1 DEF IInv, Facts, BatchInv
        <3>4. status \in {OpNone, UpdateTree} => Begins(mls.commits, batch.log)
          BY <1>1, <2>1, <3>1, <3>3 DEF IInv, ProgressInv, Row
        <3>5. \/ Reconcile(mls, status) = Keep(mls) /\ status \in {OpNone, CreateGroup}
              \/ Reconcile(mls, status) = Settle(Absent) /\ ~Has(server, mls)
              \/ \E h \in Groups :
                   /\ Reconcile(mls, status) = Settle(h)
                   /\ Level(h, server) /\ h.pending = NoCommit /\ Begins(h.commits, batch.log)
          BY <1>1, <2>1, <3>1, <3>2, <3>4, BatchIs, ReconcileRight
        <3>6. Reconcile(mls, status).group = Absent
          BY <2>1, <2>3 DEF DesyncCheck
        <3>7. ~Has(server, mls)
          BY <2>1, <3>5, <3>6, GroupIs DEF Keep, Settle
        <3> QED  BY <1>1, <2>1, <3>7, OnServerIsHas
    <2>4. CASE ~DesyncCheck
        <3>1. /\ ~create_group /\ ~add_members /\ ~update_tree /\ ~readd
              /\ ~join_by_external_commit /\ ~merge_on_accept /\ ~clear_on_reject
          BY <2>2 DEF create_group, add_members, update_tree, readd, join_by_external_commit,
                      merge_on_accept, clear_on_reject
        <3>2. /\ ~delete_on_reject /\ ~delete_by_user /\ ~WriteStatus /\ ~WriteStatusFails
              /\ ~process_live_commit /\ ~process_live_welcome /\ ~clear_pending_proposals
              /\ ~FetchMessages
          BY <2>1, <2>2 DEF delete_on_reject, delete_by_user, delete_group, WriteStatus,
                WriteStatusFails, process_live_commit, process_live_welcome,
                clear_pending_proposals, FetchMessages
        <3>3. /\ ~ResetStatus /\ ~ResetStatusFails /\ ~ProcessWelcome /\ ~ProcessCommit
              /\ ~ProcessAllReturns /\ ~LoadFails /\ ~DesyncCheckFails
              /\ ~ProcessWelcomeFails /\ ~ProcessCommitBreaks /\ ~ProcessCommitRollsBack
          BY <2>1, <2>2 DEF ResetStatus, ResetStatusFails, ProcessWelcome, ProcessCommit,
                AtMessage, ProcessAllReturns, LoadFails, DesyncCheckFails, ProcessWelcomeFails,
                ProcessCommitBreaks, ProcessCommitRollsBack
        <3>4. /\ ~ServerHandles /\ ~PeerCreates /\ ~ConnectionLost /\ ~Crash
              /\ ~(\E adds \in BOOLEAN : PeerCommits(adds)) /\ ~UNCHANGED vars
          BY <2>2 DEF ServerHandles, PeerCreates, ConnectionLost, Crash, PeerCommits, vars
        <3> QED  BY <1>1, <2>4, <3>1, <3>2, <3>3, <3>4 DEF Next, ProcessAllStep, Fault
    <2> QED  BY <2>3, <2>4
<1>2. IInv /\ [Next]_vars => [A]_vars
  BY <1>1
<1>3. DeletesOnlyForks <=> [][A]_vars
  BY DEF DeletesOnlyForks
<1> QED  BY Inductive, <1>2, <1>3, PTL DEF Spec

\* Every step leaves a stored group that the server has had with its history,
\* or with one that goes on from it: also where the row was misled.
LEMMA GoesOn ==
    ASSUME IInv, [Next]_vars, mls # Absent, mls' # Absent, Has(server, mls)
    PROVE  mls'.origin = mls.origin /\ Begins(mls.commits, mls'.commits)
<1>0. /\ mls \in Groups /\ server \in Servers /\ GroupOK(mls, opened, own)
      /\ ServerOK(server, opened, own) /\ own \in Nat /\ status \in GroupPendingOperation
  BY DEF IInv, Facts, TypeInv, DataInv
<1>1. Begins(mls.commits, mls.commits) /\ mls.commits \in Seq(Commits)
  BY <1>0, GroupIs DEF Begins
<1>2. /\ server.log \in Seq(Commits) /\ DOMAIN server.log = 1 .. Len(server.log)
      /\ Begins(server.log, server.log)
  BY <1>0, ServerIs DEF Begins
<1>3. CASE mls' = mls
  BY <1>1, <1>3
<1>4. CASE add_members \/ update_tree \/ readd
    <2>1. mls' = [mls EXCEPT !.pending = Own(own + 1)]
      BY <1>4 DEF add_members, update_tree, readd, Transact
    <2>2. mls'.origin = mls.origin /\ mls'.commits = mls.commits
      BY <1>0, <2>1 DEF Groups
    <2> QED  BY <1>1, <2>2
<1>5. CASE merge_on_accept
  BY <1>0, <1>5, Merged DEF merge_on_accept
<1>6. CASE clear_on_reject
  BY <1>0, <1>1, <1>6, Cleared DEF clear_on_reject
<1>7. CASE process_live_commit
    <2>1. PICK i \in 1 .. Len(server.log) :
              /\ Applies(mls, server.origin, server.log, i)
              /\ mls' = process_operation_message(mls, server.origin, server.log, i)
      BY <1>2, <1>7 DEF process_live_commit
    <2> QED  BY <1>0, <1>2, <2>1, ApplyIs
<1>8. CASE process_live_welcome
    <2>1. PICK i \in 1 .. Len(server.log) : i \notin opened /\ server.log[i].adds
      BY <1>2, <1>8 DEF process_live_welcome
    <2> QED  BY <1>0, <2>1, NotAMember
<1>9. CASE DesyncCheck
    <2>1. mls' = Reconcile(mls, status).group
      BY <1>9 DEF DesyncCheck
    <2>2. mls' \in {mls, merge_pending_commit(mls), clear_pending_commit(mls), Absent}
      BY <1>0, <2>1, ReconcileIs DEF Keep, Settle
    <2> QED  BY <1>0, <1>1, <2>2, Merged, Cleared
<1>10. CASE ProcessWelcome
    <2>1. Processing /\ pos \in 1 .. Len(batch.log) /\ batch.log[pos].adds /\ pos \notin opened
      BY <1>10, BatchIs DEF ProcessWelcome, AtMessage, Processing, IsWelcome
    <2>2. pos \in 1 .. Len(server.log) /\ server.log[pos].adds
      BY <1>0, <2>1, BatchIs, ServerIs DEF Begins
    <2> QED  BY <1>0, <2>1, <2>2, NotAMember
<1>11. CASE ProcessCommit /\ mls' # mls
    <2> DEFINE cur == CurrentGroup
               h == process_operation_message(cur, batch.origin, batch.log, pos)
    <2>1. mem # Absent /\ mls' = h /\ AtMessage /\ ~IsWelcome(pos)
      BY <1>11 DEF ProcessCommit
    <2>2. /\ cur \in Groups /\ h \in Groups /\ mls.origin = cur.origin /\ h.origin = cur.origin
          /\ Begins(mls.commits, cur.commits) /\ Begins(cur.commits, h.commits)
      BY <2>1, CurrentIs
    <2> HIDE DEF h, cur
    <2>3. cur.commits \in Seq(Commits) /\ h.commits \in Seq(Commits)
      BY <2>2, GroupIs
    <2>4. Begins(mls.commits, h.commits)
      BY <1>1, <2>2, <2>3, BeginsThrough
    <2> QED  BY <2>1, <2>2, <2>4
<1>12. CASE create_group \/ join_by_external_commit \/ delete_on_reject \/ delete_by_user
  BY <1>12 DEF create_group, join_by_external_commit, delete_on_reject, delete_by_user, delete_group
<1>13. ASSUME \/ WriteStatus \/ WriteStatusFails \/ clear_pending_proposals \/ FetchMessages
              \/ LoadFails \/ DesyncCheckFails \/ ResetStatus \/ ResetStatusFails
              \/ ProcessWelcomeFails \/ ProcessCommitBreaks \/ ProcessCommitRollsBack
       PROVE  mls' = mls
  BY <1>13 DEF WriteStatus, WriteStatusFails, clear_pending_proposals, FetchMessages, LoadFails,
               DesyncCheckFails, ResetStatus, ResetStatusFails, ProcessWelcomeFails,
               ProcessCommitBreaks, ProcessCommitRollsBack
<1>14. ASSUME \/ ProcessAllReturns \/ ServerHandles \/ ConnectionLost \/ PeerCreates \/ Crash
              \/ (\E adds \in BOOLEAN : PeerCommits(adds)) \/ UNCHANGED vars
       PROVE  mls' = mls
  BY <1>14 DEF ProcessAllReturns, ServerHandles, ConnectionLost, PeerCreates, Crash, PeerCommits, vars
<1> QED  BY <1>3, <1>4, <1>5, <1>6, <1>7, <1>8, <1>9, <1>10, <1>11, <1>12, <1>13, <1>14
         DEF Next, ProcessAllStep, Fault

\* No step takes a stored group back to an earlier epoch of the server's
\* history: no crash, no rolled back transaction and no Welcome.
THEOREM NothingRollsBack == Spec => NeverRollsBack
<1> DEFINE A == mls # Absent /\ mls' # Absent /\ OnServer(mls) =>
                    mls'.origin = mls.origin /\ IsPrefix(mls.commits, mls'.commits)
<1>1. ASSUME IInv, IInv', [Next]_vars  PROVE [A]_vars
    <2>1. SUFFICES ASSUME mls # Absent, mls' # Absent, OnServer(mls)
                   PROVE  mls'.origin = mls.origin /\ IsPrefix(mls.commits, mls'.commits)
      OBVIOUS
    <2>2. Has(server, mls)
      BY <1>1, <2>1, OnServerIsHas
    <2>3. mls'.origin = mls.origin /\ Begins(mls.commits, mls'.commits)
      BY <1>1, <2>1, <2>2, GoesOn
    <2>4. mls \in Groups /\ mls' \in Groups
      BY <1>1, <2>1 DEF IInv, Facts, TypeInv
    <2>5. mls.commits \in Seq(Commits) /\ mls'.commits \in Seq(Commits)
      BY <2>4 DEF Groups
    <2> QED  BY <2>3, <2>5, PrefixBegins
<1>2. IInv /\ IInv' /\ [Next]_vars => [A]_vars
  BY <1>1
<1>3. NeverRollsBack <=> [][A]_vars
  BY DEF NeverRollsBack
<1> QED  BY Inductive, <1>2, <1>3, PTL DEF Spec
=============================================================================

-------------------------- MODULE GroupTasksProof --------------------------
(***************************************************************************)
(* Proofs about GroupTasks, for any workers, tasks and bounds: no message  *)
(* generation is used twice, no task takes a commit away from the stored   *)
(* group, a group is created over another only after a Welcome, a pending  *)
(* commit has its row, an own commit is merged only where the server has   *)
(* accepted it, and a query reports an epoch that the server has.          *)
(*                                                                         *)
(* The key pairs carry the first argument.  An epoch is left by a commit that    *)
(* deletes its key pairs, so it is left only once; and it is entered by a  *)
(* commit from the epoch before, by a Welcome, which is opened once, or by *)
(* a commit of this client's that is new.  So no epoch is entered twice.   *)
(*                                                                         *)
(* The server's answers carry the second.  The server accepts one commit   *)
(* of an epoch, and the stored group is in no epoch again that it has      *)
(* left: so where the sequence in a batch goes on with an own commit, it   *)
(* is the one that is pending.                                             *)
(***************************************************************************)
EXTENDS GroupTasks, SequenceTheorems, TLAPS

Commits == [by : {"self", "peer"}, n : Nat, adds : BOOLEAN]
Groups == [hist : Seq(Commits), pending : Commits \cup {NoCommit}, sent : Nat]

\* IsPrefix, element by element; and the same for a proper one.
Begins(s, t) == Len(s) <= Len(t) /\ \A i \in 1 .. Len(s) : s[i] = t[i]
Before(s, t) == Len(s) < Len(t) /\ \A i \in 1 .. Len(s) : s[i] = t[i]

Member(h) == \E i \in 1 .. Len(h) : h[i].by = "self" \/ h[i].adds

\* This client's commits in h are among the first n.
Known(h, n) == \A i \in 1 .. Len(h) : h[i].by = "self" => h[i].n <= n

\* A commit after the first k adds this client.
AddedAfter(h, k) == \E i \in 1 .. Len(h) : i > k /\ h[i].adds

\* An epoch that this client has been in: it is a member, and has opened the
\* last Welcome.
EpochOK(h, welcomes, n) ==
    /\ h \in Seq(Commits) /\ Member(h) /\ Known(h, n)
    /\ \A i \in 1 .. Len(h) : h[i].adds => i \in welcomes \/ AddedAfter(h, i)

\* A group as a worker has it in memory.
GroupOK(g) == g \in Groups /\ g # Absent

\* A commit of this client's.
OwnOK(c, n) == c \in Commits /\ c.by = "self" /\ c.n <= n /\ ~c.adds

RequestOK(r, n) == r.base \in Seq(Commits) /\ Known(r.base, n) /\ OwnOK(r.commit, n)

-----------------------------------------------------------------------------
(* The inductive invariant.                                                *)

Plans == {"merge", "clear", "delete"}
Creating == {"create_group", "join_by_external_commit", "batch_join_by_external_commit"}

Fields == {"task", "pc", "view", "op", "mem", "pos", "end", "loaded", "plan", "result", "seen"}
Processing == {"load", "decide", "settle", "reset", "proposals", "messages", "apply"}

\* A job of worker w has its fields, a task the worker may run, and a position
\* in a batch of the server's commits.
JobOK(w, j, n, length) ==
    /\ DOMAIN j = Fields
    /\ j.mem = Absent \/ GroupOK(j.mem)
    /\ \A r \in j.result : RequestOK(r, n)
    /\ j.pc = "settle" => j.plan \in Plans
    /\ j.pc # "idle" => j.task \in Lane[w]
    /\ j.pc \in Processing => j.pos \in Nat \ {0} /\ j.end \in Nat /\ j.end <= length
    /\ j.pc = "apply" => j.pos <= j.end

JobsInv ==
    /\ job = [w \in Workers |-> job[w]]
    /\ \A w \in Workers : JobOK(w, job[w], own, Len(server))

NetworkInv ==
    /\ server \in Seq(Commits) /\ Known(server, own)
    /\ \A r \in requests : RequestOK(r, own)

\* The stored group, and the epochs whose key pairs are stored.
StoreInv ==
    /\ own \in Nat
    /\ mls # Absent =>
          /\ GroupOK(mls) /\ mls.hist \in keys
          /\ mls.pending = NoCommit \/ OwnOK(mls.pending, own)
    /\ \A h \in keys : EpochOK(h, opened, own)
    /\ "replaced" \notin races => keys = IF mls = Absent THEN {} ELSE {mls.hist}

\* Where messages were sent.
UsedInv ==
    \A x \in used : x = <<x[1], x[2]>> /\ x[2] \in Nat /\ EpochOK(x[1], opened, own)

\* An epoch whose key pairs are stored has been left for none, unless a
\* Welcome led to this one.
LeftOnce(h, u) == Before(h, u) => AddedAfter(u, Len(h))

EpochsInv ==
    /\ \A h \in keys, u \in keys : LeftOnce(h, u)
    /\ \A h \in keys, x \in used : LeftOnce(h, x[1])

\* The ratchet of the stored group is past what was used of it.
RatchetInv ==
    mls # Absent /\ "secrets" \notin races =>
        \A x \in used : x[1] = mls.hist => x[2] < mls.sent

\* A group that appeared after the check of create_group came by a Welcome, as
\* long as one worker has the application's calls that make groups.
OneApplication ==
    \A v, w \in Workers : Lane[v] \cap Creating # {} /\ Lane[w] \cap Creating # {} => v = w

Checking(j) == j.task = "create_group" /\ j.pc \in {"begin", "work"}

CheckedInv ==
    \A w \in Workers : Checking(job[w]) =>
        /\ job[w].seen \subseteq opened
        /\ "replaced" \notin races /\ job[w].seen = opened => mls = Absent

CoreInv == StoreInv /\ UsedInv /\ EpochsInv /\ RatchetInv /\ GenerationsUnique

IInv == CoreInv /\ JobsInv /\ NetworkInv /\ (OneApplication => CheckedInv)

-----------------------------------------------------------------------------
(* Epochs.                                                                 *)

\* IsPrefix says that the first sequence begins the second.
LEMMA PrefixBegins ==
    ASSUME NEW S, NEW s \in Seq(S), NEW t \in Seq(S), Begins(s, t)
    PROVE  IsPrefix(s, t)
<1>1. Len(s) \in Nat /\ Len(t) \in Nat /\ Len(s) <= Len(t)
  BY DEF Begins
<1>2. /\ SubSeq(s, 1, Len(s)) \in Seq(S) /\ Len(SubSeq(s, 1, Len(s))) = Len(s)
      /\ \A i \in 1 .. Len(s) : SubSeq(s, 1, Len(s))[i] = s[i]
  BY <1>1
<1>3. /\ SubSeq(t, 1, Len(s)) \in Seq(S) /\ Len(SubSeq(t, 1, Len(s))) = Len(s)
      /\ \A i \in 1 .. Len(s) : SubSeq(t, 1, Len(s))[i] = t[i]
  BY <1>1
<1>4. SubSeq(s, 1, Len(s)) = SubSeq(t, 1, Len(s))
  BY <1>2, <1>3, SeqEqual DEF Begins
<1> QED  BY <1>1, <1>4 DEF IsPrefix

\* Commits and groups are told from their absence.
LEMMA Kinds == NoCommit \notin Commits /\ Absent \notin Groups
<1>1. \A g \in Groups : DOMAIN g = {"hist", "pending", "sent"}
  BY DEF Groups
<1>2. DOMAIN Absent = {"absent"}
  BY DEF Absent
<1>3. \A c \in Commits : c.by \in {"self", "peer"}
  BY DEF Commits
<1>4. NoCommit.by = "nobody"
  BY DEF NoCommit
<1> QED  BY <1>1, <1>2, <1>3, <1>4

LEMMA OwnIs ==
    ASSUME NEW n \in Nat
    PROVE  Own(n) # NoCommit /\ Own(n).n = n /\ OwnOK(Own(n), n)
<1>1. Own(n) \in Commits
  BY DEF Own, Commits
<1>2. Own(n).by = "self" /\ Own(n).n = n /\ ~Own(n).adds
  BY DEF Own
<1>3. Own(n) # NoCommit
  BY <1>1, Kinds
<1> QED  BY <1>1, <1>2, <1>3 DEF OwnOK

LEMMA PeerIs ==
    ASSUME NEW n \in Nat, NEW adds \in BOOLEAN
    PROVE  Peer(n, adds) \in Commits /\ Peer(n, adds).by = "peer"
BY DEF Peer, Commits

LEMMA NewGroupIs ==
    ASSUME NEW h \in Seq(Commits)
    PROVE  /\ GroupOK(NewGroup(h)) /\ NewGroup(h).hist = h
           /\ NewGroup(h).pending = NoCommit /\ NewGroup(h).sent = 0
<1>1. NewGroup(h) \in Groups
  BY DEF NewGroup, MlsGroup, Groups
<1> QED  BY <1>1, Kinds DEF NewGroup, MlsGroup, GroupOK

\* What Append adds is at the end.
LEMMA AppendAt ==
    ASSUME NEW S, NEW s \in Seq(S), NEW e \in S
    PROVE  /\ Append(s, e) \in Seq(S) /\ Len(Append(s, e)) = Len(s) + 1
           /\ \A i \in 1 .. Len(s) : Append(s, e)[i] = s[i]
           /\ Append(s, e)[Len(s) + 1] = e
           /\ Before(s, Append(s, e))
<1>1. /\ Append(s, e) \in Seq(S)
      /\ Len(Append(s, e)) = Len(s) + 1
      /\ \A i \in 1 .. Len(s) : Append(s, e)[i] = s[i]
      /\ Append(s, e)[Len(s) + 1] = e
  OBVIOUS
<1>2. Len(s) \in Nat
  OBVIOUS
<1> QED  BY <1>1, <1>2 DEF Before

\* The beginning of a sequence up to i.
LEMMA SubSeqAt ==
    ASSUME NEW S, NEW t \in Seq(S), NEW i \in 0 .. Len(t)
    PROVE  /\ SubSeq(t, 1, i) \in Seq(S) /\ Len(SubSeq(t, 1, i)) = i
           /\ \A k \in 1 .. i : SubSeq(t, 1, i)[k] = t[k]
<1>1. Len(t) \in Nat /\ i \in Nat /\ i <= Len(t)
  OBVIOUS
<1> QED  BY <1>1

\* More Welcomes and more own commits leave an epoch what it is.
LEMMA EpochStays ==
    ASSUME NEW h, NEW W, NEW V, NEW n \in Nat, NEW m \in Nat,
           EpochOK(h, W, n), W \subseteq V, n <= m
    PROVE  EpochOK(h, V, m)
<1>1. \A i \in 1 .. Len(h) : h[i].by = "self" => h[i].n <= m
  <2>1. \A i \in 1 .. Len(h) : h[i] \in Commits
    BY DEF EpochOK
  <2>2. \A i \in 1 .. Len(h) : h[i].n \in Nat
    BY <2>1 DEF Commits
  <2> QED  BY <2>2 DEF EpochOK, Known
<1> QED  BY <1>1 DEF EpochOK, Known

\* Epoch t follows epoch s by commits that do not add this client.
Advances(s, t, n) == t \in Seq(Commits) /\ Before(s, t) /\ ~AddedAfter(t, Len(s)) /\ Known(t, n)

LEMMA AdvanceIsEpoch ==
    ASSUME NEW h, NEW t, NEW W, NEW n, EpochOK(h, W, n), Advances(h, t, n)
    PROVE  EpochOK(t, W, n)
<1>1. /\ h \in Seq(Commits) /\ t \in Seq(Commits) /\ Len(h) \in Nat /\ Len(t) \in Nat
      /\ Len(h) < Len(t) /\ \A i \in 1 .. Len(h) : h[i] = t[i]
  BY DEF EpochOK, Advances, Before
<1>2. Member(t)
  <2>1. PICK i \in 1 .. Len(h) : h[i].by = "self" \/ h[i].adds
    BY DEF EpochOK, Member
  <2>2. i \in 1 .. Len(t) /\ t[i] = h[i]
    BY <1>1
  <2> QED  BY <2>1, <2>2 DEF Member
<1>3. ASSUME NEW i \in 1 .. Len(t), t[i].adds PROVE i \in W \/ AddedAfter(t, i)
  <2>1. i \in 1 .. Len(h) /\ h[i].adds
    BY <1>1, <1>3 DEF Advances, AddedAfter
  <2>2. CASE i \in W
    BY <2>2
  <2>3. CASE AddedAfter(h, i)
    <3>1. PICK k \in 1 .. Len(h) : k > i /\ h[k].adds
      BY <2>3 DEF AddedAfter
    <3>2. k \in 1 .. Len(t) /\ t[k] = h[k]
      BY <1>1
    <3> QED  BY <3>1, <3>2 DEF AddedAfter
  <2> QED  BY <2>1, <2>2, <2>3 DEF EpochOK
<1> QED  BY <1>1, <1>2, <1>3 DEF EpochOK, Advances

\* An epoch that follows one whose key pairs are stored has not been seen.
LEMMA AdvanceIsNew ==
    ASSUME NEW h \in Seq(Commits), NEW t, NEW u \in Seq(Commits), NEW n,
           Advances(h, t, n), LeftOnce(h, u)
    PROVE  u # t /\ LeftOnce(t, u)
<1>1. /\ t \in Seq(Commits) /\ Len(h) \in Nat /\ Len(t) \in Nat /\ Len(u) \in Nat
      /\ Len(h) < Len(t) /\ \A i \in 1 .. Len(h) : h[i] = t[i]
  BY DEF Advances, Before
<1>2. u # t
  BY DEF Advances, LeftOnce
<1>3. ASSUME Before(t, u) PROVE AddedAfter(u, Len(t))
  <2>1. Len(t) < Len(u) /\ \A i \in 1 .. Len(t) : t[i] = u[i]
    BY <1>3 DEF Before
  <2>2. Before(h, u)
    BY <1>1, <2>1 DEF Before
  <2>3. PICK i \in 1 .. Len(u) : i > Len(h) /\ u[i].adds
    BY <2>2 DEF LeftOnce, AddedAfter
  <2>4. i > Len(t)
    <3> SUFFICES ASSUME ~(i > Len(t)) PROVE FALSE
      OBVIOUS
    <3>1. i \in 1 .. Len(t) /\ t[i] = u[i]
      BY <1>1, <2>1, <2>3
    <3> QED  BY <2>3, <3>1 DEF Advances, AddedAfter
  <2> QED  BY <2>3, <2>4 DEF AddedAfter
<1> QED  BY <1>2, <1>3 DEF LeftOnce

\* Another epoch whose key pairs are stored has not been left for it either.
LEMMA OthersNotLeft ==
    ASSUME NEW h \in Seq(Commits), NEW t, NEW g \in Seq(Commits), NEW n,
           Advances(h, t, n), g # h, LeftOnce(g, h), LeftOnce(h, g)
    PROVE  LeftOnce(g, t)
<1>1. /\ t \in Seq(Commits) /\ Len(h) \in Nat /\ Len(t) \in Nat /\ Len(g) \in Nat
      /\ Len(h) < Len(t) /\ \A i \in 1 .. Len(h) : h[i] = t[i]
  BY DEF Advances, Before
<1> SUFFICES ASSUME Before(g, t) PROVE AddedAfter(t, Len(g))
  BY DEF LeftOnce
<1>2. Len(g) < Len(t) /\ \A i \in 1 .. Len(g) : g[i] = t[i]
  BY DEF Before
<1>3. CASE Len(g) < Len(h)
  <2>1. Before(g, h)
    BY <1>1, <1>2, <1>3 DEF Before
  <2>2. PICK i \in 1 .. Len(h) : i > Len(g) /\ h[i].adds
    BY <2>1 DEF LeftOnce, AddedAfter
  <2>3. i \in 1 .. Len(t) /\ t[i] = h[i]
    BY <1>1
  <2> QED  BY <2>2, <2>3 DEF AddedAfter
<1>4. CASE Len(g) = Len(h)
  <2>1. g = h
    BY <1>1, <1>2, <1>4, SeqEqual
  <2> QED  BY <2>1
<1>5. CASE Len(g) > Len(h)
  <2>1. Before(h, g)
    BY <1>1, <1>2, <1>5 DEF Before
  <2>2. PICK i \in 1 .. Len(g) : i > Len(h) /\ g[i].adds
    BY <2>1 DEF LeftOnce, AddedAfter
  <2>3. i \in 1 .. Len(t) /\ t[i] = g[i]
    BY <1>1, <1>2
  <2> QED  BY <2>2, <2>3 DEF Advances, AddedAfter
<1> QED  BY <1>1, <1>3, <1>4, <1>5
-----------------------------------------------------------------------------
(* What a step does to the stored group: nothing, a change within the      *)
(* epoch, the next epoch, a group from elsewhere, or its deletion.         *)

\* Epochs stay what they are.
LEMMA EpochsStay ==
    ASSUME CoreInv, opened \subseteq opened', own' \in Nat, own <= own'
    PROVE  /\ \A h \in keys : EpochOK(h, opened', own')
           /\ \A x \in used : x = <<x[1], x[2]>> /\ x[2] \in Nat /\ EpochOK(x[1], opened', own')
<1>1. own \in Nat
  BY DEF CoreInv, StoreInv
<1>2. ASSUME NEW h \in keys PROVE EpochOK(h, opened', own')
  BY <1>1, EpochStays DEF CoreInv, StoreInv
<1>3. ASSUME NEW x \in used PROVE x = <<x[1], x[2]>> /\ x[2] \in Nat /\ EpochOK(x[1], opened', own')
  <2>1. x = <<x[1], x[2]>> /\ x[2] \in Nat /\ EpochOK(x[1], opened, own)
    BY DEF CoreInv, UsedInv
  <2> HIDE DEF CoreInv
  <2>2. EpochOK(x[1], opened', own')
    BY <1>1, <2>1, EpochStays
  <2> QED  BY <2>1, <2>2
<1> QED  BY <1>2, <1>3

LEMMA NothingStored ==
    ASSUME CoreInv, UNCHANGED <<mls, keys, opened, own, used, twice>>, races \subseteq races'
    PROVE  CoreInv'
<1>1. StoreInv'
  BY DEF CoreInv, StoreInv
<1>2. UsedInv' /\ EpochsInv'
  BY DEF CoreInv, UsedInv, EpochsInv
<1>3. RatchetInv' /\ GenerationsUnique'
  BY DEF CoreInv, RatchetInv, GenerationsUnique
<1> QED  BY <1>1, <1>2, <1>3 DEF CoreInv

LEMMA SameEpoch ==
    ASSUME CoreInv, mls # Absent, GroupOK(mls'), mls'.hist = mls.hist,
           mls'.pending = NoCommit \/ OwnOK(mls'.pending, own'),
           own' \in Nat, own <= own', races \subseteq races',
           mls'.sent = mls.sent \/ "secrets" \in races',
           UNCHANGED <<keys, opened, used, twice>>
    PROVE  CoreInv'
<1>1. /\ \A h \in keys : EpochOK(h, opened', own')
      /\ \A x \in used : x = <<x[1], x[2]>> /\ x[2] \in Nat /\ EpochOK(x[1], opened', own')
  BY EpochsStay
<1>2. StoreInv'
  BY <1>1 DEF CoreInv, StoreInv, GroupOK
<1>3. UsedInv'
  BY <1>1 DEF UsedInv
<1>4. EpochsInv'
  BY DEF CoreInv, EpochsInv
<1>5. RatchetInv' /\ GenerationsUnique'
  BY DEF CoreInv, RatchetInv, GenerationsUnique
<1> QED  BY <1>2, <1>3, <1>4, <1>5 DEF CoreInv

\* A message is encrypted with the next generation of the ratchet.
LEMMA NextGeneration ==
    ASSUME CoreInv, mls # Absent, GroupOK(mls'), mls'.hist = mls.hist,
           mls'.pending = mls.pending, mls'.sent = mls.sent + 1,
           used' = used \cup {<<mls.hist, mls.sent>>},
           twice' = (twice \/ <<mls.hist, mls.sent>> \in used),
           UNCHANGED <<keys, opened, own, races>>
    PROVE  CoreInv'
<1>1. mls.sent \in Nat /\ mls.hist \in keys /\ EpochOK(mls.hist, opened, own)
  BY DEF CoreInv, StoreInv, GroupOK, Groups
<1>2. StoreInv'
  BY DEF CoreInv, StoreInv, GroupOK
<1> DEFINE y == <<mls.hist, mls.sent>>
<1>3. y = <<y[1], y[2]>> /\ y[1] = mls.hist /\ y[2] = mls.sent
  OBVIOUS
<1>4. \A x \in used' : x \in used \/ x = y
  OBVIOUS
<1> HIDE DEF y
<1>5. UsedInv'
  BY <1>1, <1>3, <1>4 DEF CoreInv, UsedInv
<1>6. EpochsInv'
  BY <1>1, <1>3, <1>4 DEF CoreInv, EpochsInv
<1>7. ASSUME "secrets" \notin races
      PROVE  /\ \A x \in used' : x[1] = mls.hist => x[2] < mls.sent + 1
             /\ ~twice'
  <2>1. \A x \in used : x[1] = mls.hist => x[2] < mls.sent
    BY <1>7 DEF CoreInv, RatchetInv
  <2>2. y \notin used
    BY <1>1, <1>3, <2>1
  <2>3. ~twice'
    BY <1>7, <2>2 DEF CoreInv, GenerationsUnique, y
  <2>4. ASSUME NEW x \in used', x[1] = mls.hist PROVE x[2] < mls.sent + 1
    <3>1. CASE x = y
      BY <1>1, <1>3, <3>1
    <3>2. CASE x \in used
      <4>1. x[2] \in Nat /\ x[2] < mls.sent
        BY <2>1, <2>4, <3>2 DEF CoreInv, UsedInv
      <4> QED  BY <1>1, <4>1
    <3> QED  BY <1>4, <3>1, <3>2
  <2> QED  BY <2>3, <2>4
<1> QED  BY <1>2, <1>5, <1>6, <1>7 DEF CoreInv, RatchetInv, GenerationsUnique

\* The group goes on to an epoch that follows one whose key pairs are stored.
LEMMA NextEpoch ==
    ASSUME CoreInv, NEW h \in keys, NEW t, Advances(h, t, own),
           mls' = NewGroup(t), keys' = (keys \ {h}) \cup {t},
           UNCHANGED <<opened, own, used, twice>>, races \subseteq races'
    PROVE  CoreInv'
<1>1. EpochOK(h, opened, own) /\ h \in Seq(Commits) /\ t \in Seq(Commits)
  BY DEF CoreInv, StoreInv, EpochOK, Advances
<1>2. EpochOK(t, opened, own)
  BY <1>1, AdvanceIsEpoch
<1>3. GroupOK(mls') /\ mls'.hist = t /\ mls'.pending = NoCommit /\ mls'.sent = 0
  BY <1>1, NewGroupIs
<1>4. StoreInv'
  <2>1. mls' # Absent /\ GroupOK(mls') /\ mls'.hist \in keys'
    BY <1>3 DEF GroupOK
  <2>2. "replaced" \notin races' => keys' = {mls'.hist}
    BY <1>3 DEF CoreInv, StoreInv
  <2> QED  BY <1>2, <1>3, <2>1, <2>2 DEF CoreInv, StoreInv
<1>5. UsedInv'
  BY DEF CoreInv, UsedInv
<1>6. ASSUME NEW u \in Seq(Commits), u \in keys \/ \E x \in used : u = x[1]
      PROVE  u # t /\ LeftOnce(t, u)
  <2>1. LeftOnce(h, u)
    BY <1>6 DEF CoreInv, EpochsInv
  <2> QED  BY <1>1, <2>1, AdvanceIsNew
<1>7. \A u \in keys : u \in Seq(Commits)
  BY DEF CoreInv, StoreInv, EpochOK
<1>8. \A x \in used : x[1] \in Seq(Commits)
  BY DEF CoreInv, UsedInv, EpochOK
<1>9. ASSUME NEW g \in keys, g # h PROVE LeftOnce(g, t)
  <2>1. LeftOnce(g, h) /\ LeftOnce(h, g)
    BY DEF CoreInv, EpochsInv
  <2> QED  BY <1>1, <1>7, <1>9, <2>1, OthersNotLeft
<1>10. LeftOnce(t, t)
  <2>1. Len(t) \in Nat
    BY <1>1
  <2> QED  BY <2>1 DEF LeftOnce, Before
<1>11. EpochsInv'
  <2>1. ASSUME NEW g \in keys', NEW u \in keys' PROVE LeftOnce(g, u)
    BY <1>6, <1>7, <1>9, <1>10 DEF CoreInv, EpochsInv
  <2>2. ASSUME NEW g \in keys', NEW x \in used PROVE LeftOnce(g, x[1])
    BY <1>6, <1>8 DEF CoreInv, EpochsInv
  <2> QED  BY <2>1, <2>2 DEF EpochsInv
<1>12. RatchetInv'
  <2>1. \A x \in used : x[1] # t
    BY <1>6, <1>8
  <2> QED  BY <1>3, <2>1 DEF RatchetInv
<1>13. GenerationsUnique'
  BY DEF CoreInv, GenerationsUnique
<1> QED  BY <1>4, <1>5, <1>11, <1>12, <1>13 DEF CoreInv

\* A group of the client's own making, or from a Welcome: an epoch that none
\* whose key pairs are stored has led to, and not seen before.
LEMMA NewEpoch ==
    ASSUME CoreInv, NEW t, own' \in Nat, own <= own', opened \subseteq opened',
           EpochOK(t, opened', own'),
           \A h \in keys : LeftOnce(h, t),
           \A u : EpochOK(u, opened, own) => u # t /\ LeftOnce(t, u),
           mls' = NewGroup(t), keys' = keys \cup {t},
           races' = IF mls = Absent THEN races ELSE races \cup {"replaced"},
           UNCHANGED <<used, twice>>
    PROVE  CoreInv'
<1>1. t \in Seq(Commits)
  BY DEF EpochOK
<1>2. GroupOK(mls') /\ mls'.hist = t /\ mls'.pending = NoCommit /\ mls'.sent = 0
  BY <1>1, NewGroupIs
<1>3. /\ \A h \in keys : EpochOK(h, opened', own')
      /\ \A x \in used : x = <<x[1], x[2]>> /\ x[2] \in Nat /\ EpochOK(x[1], opened', own')
  BY EpochsStay
<1>4. StoreInv'
  <2>1. mls' # Absent /\ GroupOK(mls') /\ mls'.hist \in keys'
    BY <1>2 DEF GroupOK
  <2>2. "replaced" \notin races' => keys' = {mls'.hist}
    BY <1>2 DEF CoreInv, StoreInv
  <2> QED  BY <1>2, <1>3, <2>1, <2>2 DEF CoreInv, StoreInv
<1>5. UsedInv'
  BY <1>3 DEF UsedInv
<1>6. \A u \in keys : LeftOnce(t, u)
  BY DEF CoreInv, StoreInv
<1>7. \A x \in used : x[1] # t /\ LeftOnce(t, x[1])
  BY DEF CoreInv, UsedInv
<1>8. LeftOnce(t, t)
  <2>1. Len(t) \in Nat
    BY <1>1
  <2> QED  BY <2>1 DEF LeftOnce, Before
<1>9. EpochsInv'
  <2>1. ASSUME NEW g \in keys', NEW u \in keys' PROVE LeftOnce(g, u)
    BY <1>6, <1>8 DEF CoreInv, EpochsInv
  <2>2. ASSUME NEW g \in keys', NEW x \in used PROVE LeftOnce(g, x[1])
    BY <1>7 DEF CoreInv, EpochsInv
  <2> QED  BY <2>1, <2>2 DEF EpochsInv
<1>10. RatchetInv'
  BY <1>2, <1>7 DEF RatchetInv
<1>11. GenerationsUnique'
  BY DEF CoreInv, GenerationsUnique
<1> QED  BY <1>4, <1>5, <1>9, <1>10, <1>11 DEF CoreInv

LEMMA GroupGone ==
    ASSUME CoreInv, mls' = Absent, keys' \subseteq keys, races \subseteq races',
           "replaced" \notin races => keys' = {},
           UNCHANGED <<opened, own, used, twice>>
    PROVE  CoreInv'
<1>1. StoreInv'
  BY DEF CoreInv, StoreInv
<1>2. UsedInv' /\ EpochsInv'
  BY DEF CoreInv, UsedInv, EpochsInv
<1>3. RatchetInv' /\ GenerationsUnique'
  BY DEF CoreInv, RatchetInv, GenerationsUnique
<1> QED  BY <1>1, <1>2, <1>3 DEF CoreInv
-----------------------------------------------------------------------------
(* Jobs.                                                                   *)

\* Requests stay what they are while the server has more and this client makes more.
LEMMA RequestStays ==
    ASSUME NEW r, NEW n \in Nat, NEW m \in Nat, n <= m, RequestOK(r, n)
    PROVE  RequestOK(r, m)
<1>1. \A i \in 1 .. Len(r.base) : r.base[i] \in Commits
  BY DEF RequestOK
<1>2. \A i \in 1 .. Len(r.base) : r.base[i].n \in Nat
  BY <1>1 DEF Commits
<1>3. Known(r.base, m)
  BY <1>2 DEF RequestOK, Known
<1>4. OwnOK(r.commit, m)
  BY DEF RequestOK, OwnOK, Commits
<1> QED  BY <1>3, <1>4 DEF RequestOK

LEMMA KnownStays ==
    ASSUME NEW h \in Seq(Commits), NEW n \in Nat, NEW m \in Nat, n <= m, Known(h, n)
    PROVE  Known(h, m)
<1>1. \A i \in 1 .. Len(h) : h[i] \in Commits
  OBVIOUS
<1>2. \A i \in 1 .. Len(h) : h[i].n \in Nat
  BY <1>1 DEF Commits
<1> QED  BY <1>2 DEF Known

LEMMA JobStays ==
    ASSUME NEW w, NEW j, NEW n \in Nat, NEW m \in Nat, n <= m, NEW k \in Nat, NEW l \in Nat,
           k <= l, JobOK(w, j, n, k)
    PROVE  JobOK(w, j, m, l)
<1>1. \A r \in j.result : RequestOK(r, m)
  BY RequestStays DEF JobOK
<1>2. j.pc \in Processing => j.pos \in Nat \ {0} /\ j.end \in Nat /\ j.end <= l
  BY DEF JobOK
<1> QED  BY <1>1, <1>2 DEF JobOK

\* A step of one worker.
LEMMA WorkerStep ==
    ASSUME IInv, NEW w \in Workers, NEW j, CoreInv', JobOK(w, j, own', Len(server)),
           job' = [job EXCEPT ![w] = j], server' = server,
           \A r \in requests' : r \in requests \/ RequestOK(r, own'),
           opened \subseteq opened', races \subseteq races', own <= own',
           /\ mls = Absent /\ mls' # Absent
           /\ "replaced" \notin races' /\ opened' = opened
           => job[w].task \in Creating /\ job[w].pc # "idle",
           Checking(j) => /\ UNCHANGED <<mls, opened>>
                          /\ \/ Checking(job[w]) /\ j.seen = job[w].seen
                             \/ mls = Absent /\ j.seen = opened
    PROVE  IInv'
<1>1. /\ own \in Nat /\ own' \in Nat /\ Len(server) \in Nat /\ server \in Seq(Commits)
      /\ Known(server, own)
  BY DEF IInv, CoreInv, StoreInv, NetworkInv
<1>2. /\ job = [v \in Workers |-> job[v]]
      /\ \A v \in Workers : JobOK(v, job[v], own, Len(server))
  BY DEF IInv, JobsInv
<1>3. job'[w] = j /\ \A v \in Workers : v # w => job'[v] = job[v]
  BY <1>2
<1>4. JobsInv'
  <2>1. job' = [v \in Workers |-> job'[v]]
    BY <1>2
  <2>2. ASSUME NEW v \in Workers PROVE JobOK(v, job'[v], own', Len(server'))
    <3>1. CASE v = w
      BY <1>3, <3>1
    <3>2. CASE v # w
      <4>1. job'[v] = job[v] /\ JobOK(v, job[v], own, Len(server)) /\ Len(server) <= Len(server)
        BY <1>1, <1>2, <1>3, <3>2
      <4>2. JobOK(v, job[v], own', Len(server))
        BY <1>1, <4>1, JobStays
      <4> QED  BY <4>1, <4>2
    <3> QED  BY <3>1, <3>2
  <2> QED  BY <2>1, <2>2 DEF JobsInv
<1>5. NetworkInv'
  <2>1. Known(server, own')
    BY <1>1, KnownStays
  <2>2. ASSUME NEW r \in requests' PROVE RequestOK(r, own')
    <3>1. CASE r \in requests
      <4>1. RequestOK(r, own)
        BY <3>1 DEF IInv, NetworkInv
      <4> QED  BY <1>1, <4>1, RequestStays
    <3> QED  BY <3>1
  <2> QED  BY <1>1, <2>1, <2>2 DEF NetworkInv
<1>6. ASSUME OneApplication PROVE CheckedInv'
  <2> SUFFICES ASSUME NEW v \in Workers, Checking(job'[v])
               PROVE  /\ job'[v].seen \subseteq opened'
                      /\ "replaced" \notin races' /\ job'[v].seen = opened' => mls' = Absent
    BY DEF CheckedInv, Checking
  <2>1. CASE v = w
    BY <1>3, <1>6, <2>1 DEF IInv, CheckedInv
  <2>2. CASE v # w
    <3>1. /\ job'[v] = job[v] /\ Checking(job[v])
          /\ job[v].seen \subseteq opened
          /\ "replaced" \notin races /\ job[v].seen = opened => mls = Absent
      BY <1>3, <1>6, <2>2 DEF IInv, CheckedInv
    <3>2. ASSUME "replaced" \notin races', job[v].seen = opened', mls' # Absent PROVE FALSE
      <4>1. opened' = opened /\ mls = Absent
        BY <3>1, <3>2
      <4>2. job[w].task \in Creating /\ job[w].pc # "idle"
        BY <3>2, <4>1
      <4>3. job[w].task \in Lane[w] /\ job[v].task \in Lane[v] /\ job[v].task \in Creating
        BY <1>2, <3>1, <4>2 DEF JobOK, Checking, Creating
      <4> QED  BY <1>6, <2>2, <4>2, <4>3 DEF OneApplication
    <3> QED  BY <3>1, <3>2
  <2> QED  BY <2>1, <2>2
<1> QED  BY <1>4, <1>5, <1>6 DEF IInv

\* A step that changes no data but the job.
LEMMA QuietStep ==
    ASSUME IInv, NEW w \in Workers, NEW j, JobOK(w, j, own, Len(server)),
           job' = [job EXCEPT ![w] = j], KeepsAll,
           Checking(j) => \/ Checking(job[w]) /\ j.seen = job[w].seen
                          \/ mls = Absent /\ j.seen = opened
    PROVE  IInv'
<1>1. own \in Nat
  BY DEF IInv, CoreInv, StoreInv
<1>2. CoreInv'
  BY NothingStored DEF IInv, KeepsAll, KeepsData
<1>3. /\ server' = server /\ requests' = requests /\ mls' = mls /\ own' = own
      /\ opened' = opened /\ races' = races
  BY DEF KeepsAll, KeepsData
<1>4. /\ JobOK(w, j, own', Len(server)) /\ own <= own'
      /\ opened \subseteq opened' /\ races \subseteq races'
      /\ \A r \in requests' : r \in requests \/ RequestOK(r, own')
  BY <1>1, <1>3
<1>5. Checking(j) => /\ UNCHANGED <<mls, opened>>
                     /\ \/ Checking(job[w]) /\ j.seen = job[w].seen
                        \/ mls = Absent /\ j.seen = opened
  BY <1>3
<1>6. ~(mls = Absent /\ mls' # Absent)
  BY <1>3
<1> QED  BY <1>2, <1>3, <1>4, <1>5, <1>6, WorkerStep
LEMMA IdleIs ==
    /\ DOMAIN Idle = Fields /\ Idle.pc = "idle" /\ Idle.task = "idle"
    /\ Idle.result = {} /\ Idle.mem = Absent
BY DEF Idle, Fields

LEMMA IdleJob == \A w, n, l : JobOK(w, Idle, n, l) /\ ~Checking(Idle)
BY IdleIs DEF JobOK, Processing, Checking

\* A job that has just begun.
LEMMA NewJob ==
    ASSUME NEW w, NEW n, NEW l, NEW j, DOMAIN j = Fields, j.task \in Lane[w],
           j.pc \notin Processing, \A r \in j.result : RequestOK(r, n), j.mem = Absent
    PROVE  JobOK(w, j, n, l)
BY DEF JobOK, Fields, Processing

LEMMA ReturnIInv ==
    ASSUME IInv, NEW w \in Workers, Return(w), KeepsAll
    PROVE  IInv'
<1>1. JobOK(w, Idle, own, Len(server)) /\ ~Checking(Idle)
  BY IdleJob
<1>2. job' = [job EXCEPT ![w] = Idle]
  BY DEF Return
<1> QED  BY <1>1, <1>2, QuietStep

LEMMA StartIInv ==
    ASSUME IInv, NEW w \in Workers, NEW task, NEW pc, Start(w, task, pc),
           pc \in {"check", "status"}
    PROVE  IInv'
<1> DEFINE j == [Idle EXCEPT !.task = task, !.pc = pc]
<1>1. /\ DOMAIN j = Fields /\ j.task = task /\ j.pc = pc /\ j.result = {} /\ j.mem = Absent
  BY IdleIs DEF Fields
<1> HIDE DEF j
<1>2. JobOK(w, j, own, Len(server)) /\ ~Checking(j)
  <2>1. task \in Lane[w] /\ pc \notin Processing /\ pc \notin {"begin", "work"}
    BY DEF Start, Processing
  <2> QED  BY <1>1, <2>1, NewJob DEF Checking
<1>3. job' = [job EXCEPT ![w] = j] /\ KeepsAll
  BY DEF Start, j
<1> HIDE DEF j
<1> QED  BY <1>2, <1>3, QuietStep

LEMMA StartTransactionIInv ==
    ASSUME IInv, NEW w \in Workers, NEW task, StartTransaction(w, task), task # "create_group"
    PROVE  IInv'
<1> DEFINE j == [Idle EXCEPT !.task = task, !.pc = "work", !.view = mls]
<1>1. /\ DOMAIN j = Fields /\ j.task = task /\ j.pc = "work" /\ j.result = {} /\ j.mem = Absent
  BY IdleIs DEF Fields
<1> HIDE DEF j
<1>2. JobOK(w, j, own, Len(server)) /\ ~Checking(j)
  <2>1. task \in Lane[w] /\ "work" \notin Processing
    BY DEF StartTransaction, Processing
  <2> QED  BY <1>1, <2>1, NewJob DEF Checking
<1>3. job' = [job EXCEPT ![w] = j] /\ KeepsAll
  BY DEF StartTransaction, j
<1> HIDE DEF j
<1> QED  BY <1>2, <1>3, QuietStep

LEMMA SubmitIInv ==
    ASSUME IInv, NEW w \in Workers, Submit(w)
    PROVE  IInv'
<1>1. CASE SubmitCreate(w) \/ SubmitReadd(w) \/ \E task \in Lane[w] : SubmitQuery(w, task)
  BY <1>1, StartIInv DEF SubmitCreate, SubmitReadd, SubmitQuery
<1>2. CASE \E task \in Lane[w] :
              \/ SubmitOperation(w, task) \/ SubmitSettlement(w, task) \/ SubmitMessage(w, task)
  <2>1. PICK task : task # "create_group" /\ StartTransaction(w, task)
    BY <1>2 DEF SubmitOperation, SubmitSettlement, SubmitMessage, Messages
  <2> QED  BY <2>1, StartTransactionIInv
<1>3. CASE SubmitBatch(w)
  <2> DEFINE j == [Idle EXCEPT !.task = "process_all_messages", !.pc = "load", !.pos = 2,
                               !.end = Len(server)]
  <2>1. /\ job' = [job EXCEPT ![w] = j] /\ KeepsAll
        /\ "process_all_messages" \in Lane[w]
    BY <1>3 DEF SubmitBatch
  <2>2. /\ j.pc = "load" /\ j.task = "process_all_messages" /\ j.result = {} /\ j.mem = Absent
        /\ j.pos = 2 /\ j.end = Len(server) /\ DOMAIN j = Fields
    BY IdleIs DEF Fields
  <2>3. Len(server) \in Nat
    BY DEF IInv, NetworkInv
  <2> HIDE DEF j
  <2>4. JobOK(w, j, own, Len(server)) /\ ~Checking(j)
    BY <2>1, <2>2, <2>3 DEF JobOK, Checking, Processing
  <2> QED  BY <2>1, <2>4, QuietStep
<1> QED  BY <1>1, <1>2, <1>3 DEF Submit

\* The steps before a task's transaction.
LEMMA BeforeIInv ==
    ASSUME IInv, NEW w \in Workers,
           CheckAbsent(w) \/ Begin(w) \/ TaskFails(w) \/ ReaddChecks(w) \/ Query(w)
    PROVE  IInv'
<1>1. JobOK(w, job[w], own, Len(server))
  BY DEF IInv, JobsInv
<1>2. CASE CheckAbsent(w)
  <2>1. CASE mls # Absent
    BY <1>2, <2>1, ReturnIInv DEF CheckAbsent
  <2>2. CASE mls = Absent
    <3> DEFINE j == [job[w] EXCEPT !.pc = "begin", !.seen = opened]
    <3>1. job' = [job EXCEPT ![w] = j] /\ KeepsAll /\ job[w].pc = "check"
      BY <1>2, <2>2 DEF CheckAbsent, At
    <3>2. JobOK(w, j, own, Len(server)) /\ j.seen = opened
      BY <1>1, <3>1 DEF JobOK, Fields, Processing
    <3> HIDE DEF j
    <3> QED  BY <2>2, <3>1, <3>2, QuietStep
  <2> QED  BY <2>1, <2>2
<1>3. CASE Begin(w)
  <2> DEFINE j == [job[w] EXCEPT !.pc = "work", !.view = mls]
  <2>1. job' = [job EXCEPT ![w] = j] /\ KeepsAll /\ job[w].pc = "begin"
    BY <1>3 DEF Begin, At
  <2>2. JobOK(w, j, own, Len(server)) /\ j.seen = job[w].seen /\ j.task = job[w].task
    BY <1>1, <2>1 DEF JobOK, Fields, Processing
  <2>3. Checking(j) => Checking(job[w])
    BY <2>1, <2>2 DEF Checking
  <2> HIDE DEF j
  <2> QED  BY <2>1, <2>2, <2>3, QuietStep
<1>4. CASE TaskFails(w) \/ Resolve(w)
  BY <1>4, ReturnIInv DEF TaskFails, Resolve
<1>5. CASE ReaddChecks(w)
  <2>1. CASE status # OpNone
    BY <1>5, <2>1, ReturnIInv DEF ReaddChecks
  <2>2. CASE status = OpNone
    <3> DEFINE j == [job[w] EXCEPT !.pc = "begin"]
    <3>1. /\ job' = [job EXCEPT ![w] = j] /\ KeepsAll
          /\ job[w].pc = "status" /\ job[w].task = "readd"
      BY <1>5, <2>2 DEF ReaddChecks, At, Goto
    <3>2. JobOK(w, j, own, Len(server)) /\ j.task = "readd"
      BY <1>1, <3>1 DEF JobOK, Fields, Processing
    <3>3. ~Checking(j)
      BY <3>2 DEF Checking
    <3> HIDE DEF j
    <3> QED  BY <3>1, <3>2, <3>3, QuietStep
  <2> QED  BY <2>1, <2>2
<1>6. CASE ReadStatus(w)
  <2> DEFINE j == [job[w] EXCEPT !.pc = "context", !.op = status]
  <2>1. job' = [job EXCEPT ![w] = j] /\ KeepsAll /\ job[w].pc = "status"
    BY <1>6 DEF ReadStatus, At
  <2>2. JobOK(w, j, own, Len(server)) /\ j.pc = "context"
    BY <1>1, <2>1 DEF JobOK, Fields, Processing
  <2>3. ~Checking(j)
    BY <2>2 DEF Checking
  <2> HIDE DEF j
  <2> QED  BY <2>1, <2>2, <2>3, QuietStep
<1>7. ASSUME NEW result, Answers(w, result) PROVE IInv'
  <2> DEFINE j == [job[w] EXCEPT !.pc = "answer", !.pos = result]
  <2>1. job' = [job EXCEPT ![w] = j] /\ KeepsAll /\ job[w].pc = "context"
    BY <1>7 DEF Answers, At
  <2>2. JobOK(w, j, own, Len(server)) /\ j.pc = "answer"
    BY <1>1, <2>1 DEF JobOK, Fields, Processing
  <2>3. ~Checking(j)
    BY <2>2 DEF Checking
  <2> HIDE DEF j
  <2> QED  BY <2>1, <2>2, <2>3, QuietStep
<1> QED
  BY <1>2, <1>3, <1>4, <1>5, <1>6, <1>7
  DEF Query, GroupEpochTask, GroupEpochsTask, GroupContextTask, GroupContextsTask
-----------------------------------------------------------------------------
(* The operations on a group.                                              *)

LEMMA GroupIs ==
    ASSUME NEW g, GroupOK(g)
    PROVE  /\ g.hist \in Seq(Commits) /\ g.sent \in Nat /\ g # Absent
           /\ g.pending \in Commits \cup {NoCommit} /\ DOMAIN g = {"hist", "pending", "sent"}
BY DEF GroupOK, Groups

\* One more commit, of another member or of this client, that adds nobody.
LEMMA AppendAdvances ==
    ASSUME NEW h \in Seq(Commits), NEW c \in Commits, NEW n, Known(h, n), ~c.adds,
           c.by = "self" => c.n <= n
    PROVE  Advances(h, Append(h, c), n)
<1> DEFINE t == Append(h, c)
<1>1. /\ t \in Seq(Commits) /\ Len(t) = Len(h) + 1 /\ Before(h, t) /\ Len(h) \in Nat
      /\ \A i \in 1 .. Len(h) : t[i] = h[i]
      /\ t[Len(h) + 1] = c
  BY AppendAt
<1> HIDE DEF t
<1>2. ~AddedAfter(t, Len(h))
  BY <1>1 DEF AddedAfter
<1>3. Known(t, n)
  BY <1>1 DEF Known
<1> QED  BY <1>1, <1>2, <1>3 DEF Advances, t

LEMMA AdvanceTwice ==
    ASSUME NEW h \in Seq(Commits), NEW t, NEW u, NEW n, Advances(h, t, n), Advances(t, u, n)
    PROVE  Advances(h, u, n)
<1>1. /\ t \in Seq(Commits) /\ u \in Seq(Commits) /\ Len(h) \in Nat /\ Len(t) \in Nat
      /\ Len(u) \in Nat /\ Len(h) < Len(t) /\ Len(t) < Len(u)
      /\ \A i \in 1 .. Len(h) : h[i] = t[i]
      /\ \A i \in 1 .. Len(t) : t[i] = u[i]
      /\ Known(u, n)
  BY DEF Advances, Before
<1>2. Before(h, u)
  BY <1>1 DEF Before
<1>3. ~AddedAfter(u, Len(h))
  <2> SUFFICES ASSUME NEW i \in 1 .. Len(u), i > Len(h), u[i].adds PROVE FALSE
    BY DEF AddedAfter
  <2>1. CASE i > Len(t)
    BY <2>1 DEF Advances, AddedAfter
  <2>2. CASE ~(i > Len(t))
    <3>1. i \in 1 .. Len(t) /\ t[i] = u[i]
      BY <1>1, <2>2
    <3> QED  BY <3>1 DEF Advances, AddedAfter
  <2> QED  BY <2>1, <2>2
<1> QED  BY <1>1, <1>2, <1>3 DEF Advances

\* A commit of another member takes a group to the next epoch, which the server has.
LEMMA ProcessCommitIs ==
    ASSUME NEW g, GroupOK(g), NEW ks, NEW i \in 1 .. Len(server), NEW n,
           server \in Seq(Commits), Known(g.hist, n), NEW r \in ProcessCommit(g, ks, i)
    PROVE  /\ g.hist \in ks /\ r.commit = NoCommit
           /\ \E t : Advances(g.hist, t, n) /\ Begins(t, server) /\ r.group = NewGroup(t)
<1> DEFINE t == Append(g.hist, server[i])
<1>1. /\ g.hist = SubSeq(server, 1, i - 1) /\ g.hist \in ks /\ server[i].by = "peer"
      /\ ~server[i].adds /\ r \in Result(NewGroup(t), NoCommit)
  BY DEF ProcessCommit, Applies
<1>2. r.group = NewGroup(t) /\ r.commit = NoCommit
  BY <1>1 DEF Result
<1>3. g.hist \in Seq(Commits) /\ server[i] \in Commits
  BY GroupIs
<1>4. Advances(g.hist, t, n)
  BY <1>1, <1>3, AppendAdvances
<1>5. /\ Len(t) = Len(g.hist) + 1 /\ t[Len(g.hist) + 1] = server[i]
      /\ \A k \in 1 .. Len(g.hist) : t[k] = g.hist[k]
  BY <1>3, AppendAt
<1> HIDE DEF t
<1>6. Begins(t, server)
  <2>1. i - 1 \in 0 .. Len(server) /\ Len(server) \in Nat
    OBVIOUS
  <2>2. Len(g.hist) = i - 1 /\ \A k \in 1 .. i - 1 : g.hist[k] = server[k]
    BY <1>1, <2>1, SubSeqAt
  <2>3. Len(t) = i /\ t[i] = server[i] /\ \A k \in 1 .. i - 1 : t[k] = g.hist[k]
    BY <1>5, <2>2
  <2> QED  BY <2>1, <2>2, <2>3 DEF Begins
<1> QED  BY <1>1, <1>2, <1>4, <1>6

\* What an operation may make of the stored group.
Follows(r) ==
    \/ /\ GroupOK(r.group) /\ r.group.hist = mls.hist /\ r.group.sent = mls.sent
       /\ \/ r.commit = NoCommit /\ r.group.pending \in {NoCommit, mls.pending}
          \/ r.commit = Own(own + 1) /\ r.group.pending = Own(own + 1)
    \/ /\ r.commit = NoCommit
       /\ \E t : Advances(mls.hist, t, own) /\ r.group = NewGroup(t)

LEMMA StoredIs ==
    ASSUME IInv, mls # Absent
    PROVE  /\ GroupOK(mls) /\ mls.hist \in keys /\ mls.hist \in Seq(Commits)
           /\ EpochOK(mls.hist, opened, own) /\ Known(mls.hist, own) /\ own \in Nat
           /\ mls.pending = NoCommit \/ OwnOK(mls.pending, own)
<1>1. /\ GroupOK(mls) /\ mls.hist \in keys /\ own \in Nat /\ EpochOK(mls.hist, opened, own)
      /\ mls.pending = NoCommit \/ OwnOK(mls.pending, own)
  BY DEF IInv, CoreInv, StoreInv
<1> QED  BY <1>1 DEF EpochOK

LEMMA StagedFollows ==
    ASSUME IInv, NEW r \in StageCommit(mls)
    PROVE  mls # Absent /\ Follows(r)
<1>1. /\ mls # Absent
      /\ r \in Result([mls EXCEPT !.pending = Own(own + 1)], Own(own + 1))
  BY DEF StageCommit
<1>2. GroupOK(mls) /\ own \in Nat
  BY <1>1, StoredIs
<1>3. Own(own + 1) \in Commits
  BY <1>2, OwnIs DEF OwnOK
<1> DEFINE g == [mls EXCEPT !.pending = Own(own + 1)]
<1>4. r.group = g /\ r.commit = Own(own + 1)
  BY <1>1 DEF Result
<1>5. g \in Groups /\ g.hist = mls.hist /\ g.sent = mls.sent /\ g.pending = Own(own + 1)
  BY <1>2, <1>3 DEF GroupOK, Groups
<1> HIDE DEF g
<1>6. GroupOK(g)
  BY <1>5, Kinds DEF GroupOK
<1> QED  BY <1>1, <1>4, <1>5, <1>6 DEF Follows

LEMMA UnchangedFollows ==
    ASSUME IInv, NEW r \in Unchanged(mls)
    PROVE  mls # Absent /\ Follows(r)
<1>1. mls # Absent /\ r.group = mls /\ r.commit = NoCommit
  BY DEF Unchanged, Result
<1>2. GroupOK(mls)
  BY <1>1, StoredIs
<1> QED  BY <1>1, <1>2 DEF Follows

LEMMA MergeFollows ==
    ASSUME IInv, NEW r \in merge_pending_commit(mls)
    PROVE  mls # Absent /\ Follows(r)
<1>1. mls # Absent
  BY DEF merge_pending_commit
<1>2. /\ GroupOK(mls) /\ mls.hist \in Seq(Commits) /\ Known(mls.hist, own)
      /\ mls.pending = NoCommit \/ OwnOK(mls.pending, own)
  BY <1>1, StoredIs
<1>3. CASE mls.pending = NoCommit
  <2>1. r.group = mls /\ r.commit = NoCommit
    BY <1>1, <1>3 DEF merge_pending_commit, Result
  <2> QED  BY <1>1, <1>2, <2>1 DEF Follows
<1>4. CASE mls.pending # NoCommit
  <2>1. r.group = NewGroup(Append(mls.hist, mls.pending)) /\ r.commit = NoCommit
    BY <1>1, <1>4 DEF merge_pending_commit, Result
  <2>2. Advances(mls.hist, Append(mls.hist, mls.pending), own)
    BY <1>2, <1>4, AppendAdvances DEF OwnOK
  <2> QED  BY <1>1, <2>1, <2>2 DEF Follows
<1> QED  BY <1>3, <1>4

LEMMA ClearFollows ==
    ASSUME IInv, NEW r \in clear_pending_commit(mls)
    PROVE  mls # Absent /\ Follows(r)
<1>1. mls # Absent /\ r \in Result([mls EXCEPT !.pending = NoCommit], NoCommit)
  BY DEF clear_pending_commit
<1>2. GroupOK(mls)
  BY <1>1, StoredIs
<1> DEFINE g == [mls EXCEPT !.pending = NoCommit]
<1>3. r.group = g /\ r.commit = NoCommit
  BY <1>1 DEF Result
<1>4. g \in Groups /\ g.hist = mls.hist /\ g.sent = mls.sent /\ g.pending = NoCommit
  BY <1>2 DEF GroupOK, Groups
<1> HIDE DEF g
<1>5. GroupOK(g)
  BY <1>4, Kinds DEF GroupOK
<1> QED  BY <1>1, <1>3, <1>4, <1>5 DEF Follows

\* One commit, or two in one transaction.
LEMMA ReceivedIs ==
    ASSUME IInv, NEW r, r \in process_operation_message(mls, keys)
                        \/ r \in process_many_operation_messages(mls, keys)
    PROVE  /\ mls # Absent /\ r.commit = NoCommit
           /\ \E t : Advances(mls.hist, t, own) /\ Begins(t, server) /\ r.group = NewGroup(t)
<1>1. server \in Seq(Commits) /\ DOMAIN server = 1 .. Len(server)
  BY DEF IInv, NetworkInv
<1>2. ASSUME NEW f \in process_operation_message(mls, keys)
      PROVE  /\ mls # Absent /\ f.commit = NoCommit
             /\ \E t : Advances(mls.hist, t, own) /\ Begins(t, server) /\ f.group = NewGroup(t)
  <2>1. PICK i \in 1 .. Len(server) : f \in ProcessCommit(mls, keys, i)
    BY <1>1 DEF process_operation_message
  <2>2. mls # Absent
    BY <2>1 DEF ProcessCommit
  <2>3. GroupOK(mls) /\ Known(mls.hist, own)
    BY <2>2, StoredIs
  <2> QED  BY <1>1, <2>1, <2>2, <2>3, ProcessCommitIs
<1>3. CASE r \in process_operation_message(mls, keys)
  BY <1>2, <1>3
<1>4. CASE r \notin process_operation_message(mls, keys)
  <2>1. PICK f \in process_operation_message(mls, keys) :
               r \in process_operation_message(f.group, {f.group.hist})
    BY <1>4 DEF process_many_operation_messages
  <2>2. PICK t : Advances(mls.hist, t, own) /\ f.group = NewGroup(t)
    BY <1>2, <2>1
  <2>3. mls # Absent /\ mls.hist \in Seq(Commits)
    <3>1. mls # Absent
      BY <1>2, <2>1
    <3> QED  BY <3>1, StoredIs
  <2>4. t \in Seq(Commits) /\ Known(t, own)
    BY <2>2 DEF Advances
  <2>5. GroupOK(f.group) /\ f.group.hist = t
    BY <2>2, <2>4, NewGroupIs
  <2>6. PICK i \in 1 .. Len(server) : r \in ProcessCommit(f.group, {f.group.hist}, i)
    BY <1>1, <2>1 DEF process_operation_message
  <2>7. /\ r.commit = NoCommit
        /\ \E u : Advances(t, u, own) /\ Begins(u, server) /\ r.group = NewGroup(u)
    <3>1. Known(f.group.hist, own)
      BY <2>4, <2>5
    <3> QED  BY <1>1, <2>5, <2>6, <3>1, ProcessCommitIs
  <2> QED  BY <2>2, <2>3, <2>7, AdvanceTwice
<1> QED  BY <1>3, <1>4

LEMMA ReceivedFollows ==
    ASSUME IInv, NEW r, r \in process_operation_message(mls, keys)
                        \/ r \in process_many_operation_messages(mls, keys)
    PROVE  mls # Absent /\ Follows(r)
BY ReceivedIs DEF Follows

-----------------------------------------------------------------------------
(* Transactions.                                                           *)

LEMMA FollowCore ==
    ASSUME IInv, mls # Absent, NEW r, Follows(r), mls' = r.group,
           keys' = NextEpochKeys(keys, mls, r.group),
           own' = IF r.commit = NoCommit THEN own ELSE r.commit.n,
           UNCHANGED <<opened, used, twice>>, races \subseteq races'
    PROVE  CoreInv' /\ own' \in Nat /\ own <= own'
<1>1. /\ GroupOK(mls) /\ mls.hist \in keys /\ mls.hist \in Seq(Commits)
      /\ EpochOK(mls.hist, opened, own) /\ own \in Nat
      /\ mls.pending = NoCommit \/ OwnOK(mls.pending, own)
  BY StoredIs
<1>2. CASE r.group.hist = mls.hist
  <2>1. /\ GroupOK(r.group) /\ r.group.sent = mls.sent
        /\ \/ r.commit = NoCommit /\ r.group.pending \in {NoCommit, mls.pending}
           \/ r.commit = Own(own + 1) /\ r.group.pending = Own(own + 1)
    <3> SUFFICES ASSUME NEW t, Advances(mls.hist, t, own), r.group = NewGroup(t) PROVE FALSE
      BY DEF Follows
    <3>1. t = mls.hist
      BY <1>2, NewGroupIs DEF Advances
    <3>2. Len(mls.hist) \in Nat
      BY <1>1
    <3> QED  BY <3>1, <3>2 DEF Advances, Before
  <2>2. UNCHANGED keys
    BY <1>2 DEF NextEpochKeys
  <2>3. /\ own' \in Nat /\ own <= own'
        /\ mls'.pending = NoCommit \/ OwnOK(mls'.pending, own')
    <3>1. CASE r.commit = NoCommit
      BY <1>1, <2>1, <3>1, OwnIs
    <3>2. CASE r.commit # NoCommit
      <4>1. r.commit = Own(own + 1) /\ r.group.pending = Own(own + 1) /\ own + 1 \in Nat
        BY <1>1, <2>1, <3>2
      <4>2. own' = own + 1
        BY <3>2, <4>1, OwnIs
      <4> QED  BY <1>1, <4>1, <4>2, OwnIs
    <3> QED  BY <3>1, <3>2
  <2> QED  BY <1>2, <2>1, <2>2, <2>3, SameEpoch DEF IInv
<1>3. CASE r.group.hist # mls.hist
  <2>1. r.commit = NoCommit /\ \E t : Advances(mls.hist, t, own) /\ r.group = NewGroup(t)
    BY <1>3 DEF Follows
  <2>2. PICK t : Advances(mls.hist, t, own) /\ r.group = NewGroup(t)
    BY <2>1
  <2>3. r.group.hist = t
    BY <2>2, NewGroupIs DEF Advances
  <2>4. keys' = (keys \ {mls.hist}) \cup {t}
    BY <1>3, <2>3
    DEF NextEpochKeys, delete_encryption_epoch_key_pairs, write_encryption_epoch_key_pairs
  <2>5. own' = own
    BY <2>1
  <2>6. CoreInv'
    BY <1>1, <2>2, <2>4, <2>5, NextEpoch DEF IInv
  <2> QED  BY <1>1, <2>5, <2>6
<1> QED  BY <1>2, <1>3

\* What a task hands to the application.
LEMMA RequestsAre ==
    ASSUME NEW g, GroupOK(g), NEW n \in Nat, Known(g.hist, n), Member(g.hist), NEW c,
           c = NoCommit \/ OwnOK(c, n), NEW join, NEW r \in Requests(g, c, join)
    PROVE  RequestOK(r, n)
<1>1. /\ g.hist \in Seq(Commits) /\ Len(g.hist) \in Nat
      /\ OwnOK(c, n) /\ r.commit = c
      /\ r.base = IF join THEN Front(g.hist) ELSE g.hist
  BY GroupIs DEF Requests
<1>2. CASE join
  <2>1. Len(g.hist) > 0
    BY <1>1 DEF Member
  <2>2. Len(g.hist) - 1 \in 0 .. Len(g.hist)
    BY <1>1, <2>1
  <2> DEFINE b == SubSeq(g.hist, 1, Len(g.hist) - 1)
  <2>3. /\ b \in Seq(Commits) /\ Len(b) = Len(g.hist) - 1
        /\ \A k \in 1 .. Len(g.hist) - 1 : b[k] = g.hist[k]
    BY <1>1, <2>2, SubSeqAt
  <2>4. r.base = b
    BY <1>1, <1>2 DEF Front
  <2> HIDE DEF b
  <2>5. Known(b, n)
    BY <1>1, <2>3 DEF Known
  <2> QED  BY <1>1, <2>3, <2>4, <2>5 DEF RequestOK
<1>3. CASE ~join
  BY <1>1, <1>3 DEF RequestOK
<1> QED  BY <1>2, <1>3

\* What the application gets at the end of a transaction, or after the row.
Handed(S) == \E c \in {NoCommit, Own(own')}, join \in BOOLEAN : S \subseteq Requests(mls', c, join)

LEMMA HandedIs ==
    ASSUME CoreInv', mls' # Absent, NEW S, Handed(S), NEW r \in S
    PROVE  RequestOK(r, own')
<1>1. /\ GroupOK(mls') /\ own' \in Nat /\ EpochOK(mls'.hist, opened', own')
  BY DEF CoreInv, StoreInv
<1>2. Known(mls'.hist, own') /\ Member(mls'.hist)
  BY <1>1 DEF EpochOK
<1>3. PICK c \in {NoCommit, Own(own')}, join \in BOOLEAN : r \in Requests(mls', c, join)
  BY DEF Handed
<1>4. c = NoCommit \/ OwnOK(c, own')
  BY <1>1, OwnIs
<1> QED  BY <1>1, <1>2, <1>3, <1>4, RequestsAre

\* A task's job after its transaction.
Ended(w, j) ==
    \/ j = Idle
    \/ /\ DOMAIN j = Fields /\ j.task = job[w].task /\ j.pc = "record" /\ j.mem = Absent
       /\ Handed(j.result)

LEMMA EndedIs ==
    ASSUME IInv, NEW w \in Workers, NEW j, Ended(w, j), CoreInv', mls' # Absent, job[w].pc # "idle"
    PROVE  JobOK(w, j, own', Len(server)) /\ ~Checking(j)
<1>1. CASE j = Idle
  BY <1>1, IdleJob
<1>2. CASE j # Idle
  <2>1. /\ DOMAIN j = Fields /\ j.task = job[w].task /\ j.pc = "record" /\ j.mem = Absent
        /\ Handed(j.result)
    BY <1>2 DEF Ended
  <2>2. job[w].task \in Lane[w]
    BY DEF IInv, JobsInv, JobOK
  <2>3. \A r \in j.result : RequestOK(r, own')
    BY <2>1, HandedIs
  <2>4. "record" \notin Processing
    BY DEF Processing
  <2> QED  BY <2>1, <2>2, <2>3, <2>4, NewJob DEF Checking
<1> QED  BY <1>1, <1>2

LEMMA TransactionIInv ==
    ASSUME IInv, NEW w \in Workers, NEW results, Transaction(w, results), At(w, "work"),
           \A r \in results : mls # Absent /\ Follows(r),
           NEW j, job' = [job EXCEPT ![w] = j], Ended(w, j),
           NEW S, requests' = requests \cup S, Handed(S), races \subseteq races'
    PROVE  IInv'
<1>1. View(w) = mls
  BY DEF Transaction, SnapshotIsCurrent
<1>2. PICK r \in results : /\ mls' = r.group
                           /\ keys' = NextEpochKeys(keys, mls, r.group)
                           /\ own' = IF r.commit = NoCommit THEN own ELSE r.commit.n
  BY <1>1 DEF Transaction
<1>3. UNCHANGED <<server, opened, used, twice>>
  BY DEF Transaction
<1>4. CoreInv' /\ own' \in Nat /\ own <= own'
  BY <1>2, <1>3, FollowCore
<1>5. mls # Absent /\ mls' # Absent
  <2>1. mls # Absent /\ Follows(r)
    OBVIOUS
  <2> QED  BY <1>2, <2>1, NewGroupIs DEF Follows, Advances, GroupOK
<1>6. JobOK(w, j, own', Len(server)) /\ ~Checking(j)
  BY <1>4, <1>5, EndedIs DEF At
<1>7. \A q \in requests' : q \in requests \/ RequestOK(q, own')
  BY <1>4, <1>5, HandedIs
<1>8. opened \subseteq opened' /\ server' = server
  BY <1>3
<1> QED  BY <1>4, <1>5, <1>6, <1>7, <1>8, WorkerStep

\* The transactions of a task that records its row afterwards, or returns.
LEMMA RecordedIInv ==
    ASSUME IInv, NEW w \in Workers, NEW results, Transaction(w, results), At(w, "work"),
           \A r \in results : mls # Absent /\ Follows(r),
           NEW join \in BOOLEAN, ThenRecord(w, join) \/ ThenReturn(w), races \subseteq races'
    PROVE  IInv'
<1>1. Handed({})
  BY DEF Handed
<1>2. requests' = requests \cup {}
  BY DEF ThenRecord, ThenReturn
<1>3. CASE ThenReturn(w)
  <2>1. Ended(w, Idle) /\ job' = [job EXCEPT ![w] = Idle]
    BY <1>3 DEF ThenReturn, Return, Ended
  <2> QED  BY <1>1, <1>2, <2>1, TransactionIInv
<1>4. CASE ThenRecord(w, join)
  <2> DEFINE S == Requests(mls', IF own' = own THEN NoCommit ELSE Own(own'), join)
             j == [Idle EXCEPT !.task = job[w].task, !.pc = "record", !.result = S]
  <2>1. job' = [job EXCEPT ![w] = j]
    BY <1>4 DEF ThenRecord
  <2>2. Handed(S)
    BY DEF Handed
  <2> HIDE DEF S
  <2>3. /\ DOMAIN j = Fields /\ j.task = job[w].task /\ j.pc = "record" /\ j.mem = Absent
        /\ j.result = S
    BY IdleIs DEF Fields
  <2> HIDE DEF j
  <2>4. Ended(w, j)
    BY <2>2, <2>3 DEF Ended
  <2> QED  BY <1>1, <1>2, <2>1, <2>4, TransactionIInv
<1> QED  BY <1>3, <1>4
LEMMA TaskIInv ==
    ASSUME IInv, NEW w \in Workers,
           \/ AddMembersTask(w) \/ RemoveMembersTask(w) \/ UpdateLeafNodeTask(w) \/ ReaddTask(w)
           \/ MergePendingCommitTask(w) \/ ClearPendingCommitTask(w)
           \/ ClearPendingProposalsTask(w)
    PROVE  IInv'
<1>1. PICK results : /\ Transaction(w, results) /\ At(w, "work") /\ ThenRecord(w, FALSE)
                     /\ races \subseteq races'
                     /\ \/ results = StageCommit(View(w))
                        \/ results = merge_pending_commit(View(w))
                        \/ results = clear_pending_commit(View(w))
                        \/ results = Unchanged(View(w))
  BY DEF AddMembersTask, RemoveMembersTask, UpdateLeafNodeTask, ReaddTask, Stages, Ends,
         MergePendingCommitTask, ClearPendingCommitTask, ClearPendingProposalsTask, Working,
         add_members, remove_members, update_leaf_node, readd, clear_pending_proposals
<1>2. View(w) = mls
  BY <1>1 DEF Transaction, SnapshotIsCurrent
<1>3. \A r \in results : mls # Absent /\ Follows(r)
  BY <1>1, <1>2, StagedFollows, MergeFollows, ClearFollows, UnchangedFollows
<1> QED  BY <1>1, <1>3, RecordedIInv

LEMMA ReceiveIInv ==
    ASSUME IInv, NEW w \in Workers,
           \/ ProcessOperationMessageTask(w) \/ ProcessManyOperationMessagesTask(w)
           \/ ProcessApplicationMessageTask(w) \/ ProcessProposalMessageTask(w)
           \/ LeaveGroupTask(w) \/ UpdateGroupConfigTask(w)
    PROVE  IInv'
<1>1. PICK results : /\ Transaction(w, results) /\ At(w, "work") /\ ThenReturn(w)
                     /\ races \subseteq races'
                     /\ \/ results = process_operation_message(View(w), keys)
                        \/ results = process_many_operation_messages(View(w), keys)
                        \/ results = Unchanged(View(w))
  BY DEF ProcessOperationMessageTask, ProcessManyOperationMessagesTask,
         ProcessApplicationMessageTask, ProcessProposalMessageTask, LeaveGroupTask,
         UpdateGroupConfigTask, Receives, Working, process_application_message,
         process_proposal_message, leave_group, update_group_config
<1>2. View(w) = mls
  BY <1>1 DEF Transaction, SnapshotIsCurrent
<1>3. \A r \in results : mls # Absent /\ Follows(r)
  BY <1>1, <1>2, ReceivedFollows, UnchangedFollows
<1> QED  BY <1>1, <1>3, RecordedIInv

LEMMA CommitToProposalIInv ==
    ASSUME IInv, NEW w \in Workers, CommitToProposal(w)
    PROVE  IInv'
<1>1. /\ Transaction(w, commit_to_proposal(View(w))) /\ At(w, "work")
      /\ job' = [job EXCEPT ![w] = Idle] /\ races \subseteq races'
      /\ requests' = requests \cup Requests(mls', Own(own'), FALSE)
  BY DEF CommitToProposal, Working, Return
<1>2. View(w) = mls
  BY <1>1 DEF Transaction, SnapshotIsCurrent
<1>3. \A r \in commit_to_proposal(View(w)) : mls # Absent /\ Follows(r)
  BY <1>2, StagedFollows DEF commit_to_proposal
<1>4. Ended(w, Idle) /\ Handed(Requests(mls', Own(own'), FALSE))
  BY DEF Ended, Handed
<1> QED  BY <1>1, <1>3, <1>4, TransactionIInv

LEMMA EncryptIInv ==
    ASSUME IInv, NEW w \in Workers, EncryptMessageTask(w)
    PROVE  IInv'
<1>1. /\ View(w) = mls /\ \E r \in encrypt_message(mls) : mls' = r.group
      /\ used' = used \cup {<<mls.hist, mls.sent>>}
      /\ twice' = (twice \/ <<mls.hist, mls.sent>> \in used)
      /\ job' = [job EXCEPT ![w] = Idle]
      /\ UNCHANGED <<server, keys, opened, own, races, requests>>
  BY DEF EncryptMessageTask, SnapshotIsCurrent, ThenReturn, Return
<1>2. mls # Absent /\ mls' = [mls EXCEPT !.sent = @ + 1]
  BY <1>1 DEF encrypt_message, Result
<1>3. GroupOK(mls) /\ own \in Nat
  BY <1>2, StoredIs
<1>4. /\ GroupOK(mls') /\ mls'.hist = mls.hist /\ mls'.pending = mls.pending
      /\ mls'.sent = mls.sent + 1
  <2>1. /\ mls' \in Groups /\ mls'.hist = mls.hist /\ mls'.pending = mls.pending
        /\ mls'.sent = mls.sent + 1
    BY <1>2, <1>3 DEF GroupOK, Groups
  <2> QED  BY <2>1, Kinds DEF GroupOK
<1>5. CoreInv'
  BY <1>1, <1>2, <1>4, NextGeneration DEF IInv
<1>6. JobOK(w, Idle, own', Len(server)) /\ ~Checking(Idle)
  BY IdleJob
<1>7. /\ server' = server /\ opened \subseteq opened' /\ races \subseteq races' /\ own <= own'
      /\ \A r \in requests' : r \in requests \/ RequestOK(r, own')
  BY <1>1, <1>3
<1> QED  BY <1>1, <1>2, <1>5, <1>6, <1>7, WorkerStep

-----------------------------------------------------------------------------
(* Groups from elsewhere.                                                  *)

\* A commit of this client's that is new: no epoch with it has been seen.
LEMMA OwnEpochIsNew ==
    ASSUME NEW t \in Seq(Commits), NEW k \in 1 .. Len(t), NEW n \in Nat, NEW W,
           t[k] = Own(n + 1), NEW u, EpochOK(u, W, n)
    PROVE  u # t /\ LeftOnce(t, u)
<1>1. n + 1 \in Nat /\ t[k].by = "self" /\ t[k].n = n + 1
  BY OwnIs DEF OwnOK
<1>2. Known(u, n) /\ Len(t) \in Nat
  BY DEF EpochOK
<1>3. u # t
  BY <1>1, <1>2 DEF Known
<1>4. ~Before(t, u)
  <2> SUFFICES ASSUME Before(t, u) PROVE FALSE
    OBVIOUS
  <2>1. u \in Seq(Commits) /\ Len(u) \in Nat
    BY DEF EpochOK
  <2>2. k \in 1 .. Len(u) /\ u[k] = t[k]
    BY <1>2, <2>1 DEF Before
  <2> QED  BY <1>1, <1>2, <2>2 DEF Known
<1> QED  BY <1>3, <1>4 DEF LeftOnce

\* Nor has the epoch of a Welcome that has not been opened.
LEMMA WelcomeIsNew ==
    ASSUME NEW t \in Seq(Commits), Len(t) > 0, t[Len(t)].adds, NEW W, Len(t) \notin W,
           NEW n, NEW u, EpochOK(u, W, n)
    PROVE  u # t /\ LeftOnce(t, u)
<1>1. u \in Seq(Commits) /\ Len(u) \in Nat /\ Len(t) \in Nat
  BY DEF EpochOK
<1>2. u # t
  BY <1>1 DEF EpochOK, AddedAfter
<1>3. ASSUME Before(t, u) PROVE AddedAfter(u, Len(t))
  <2>1. Len(t) \in 1 .. Len(u) /\ u[Len(t)] = t[Len(t)]
    BY <1>1, <1>3 DEF Before
  <2> QED  BY <2>1 DEF EpochOK
<1> QED  BY <1>2, <1>3 DEF LeftOnce

LEMMA WelcomeCore ==
    ASSUME IInv, NEW i \in 1 .. Len(server), server[i].adds, i \notin opened,
           NEW r \in process_welcome(i), mls' = r.group,
           keys' = write_encryption_epoch_key_pairs(keys, r.group),
           opened' = opened \cup {i}, own' = own,
           races' = IF mls = Absent THEN races ELSE races \cup {"replaced"},
           UNCHANGED <<used, twice>>
    PROVE  CoreInv' /\ GroupOK(mls')
<1> DEFINE t == SubSeq(server, 1, i)
<1>1. server \in Seq(Commits) /\ Known(server, own) /\ own \in Nat /\ Len(server) \in Nat
  BY DEF IInv, NetworkInv, CoreInv, StoreInv
<1>2. /\ t \in Seq(Commits) /\ Len(t) = i
      /\ \A k \in 1 .. i : t[k] = server[k]
  BY <1>1, SubSeqAt
<1>3. mls' = NewGroup(t)
  BY DEF process_welcome, Result
<1> HIDE DEF t
<1>4. GroupOK(mls') /\ mls'.hist = t
  BY <1>2, <1>3, NewGroupIs
<1>5. keys' = keys \cup {t}
  BY <1>4 DEF write_encryption_epoch_key_pairs
<1>6. EpochOK(t, opened', own')
  <2>1. Known(t, own)
    BY <1>1, <1>2 DEF Known
  <2>2. Member(t)
    BY <1>2 DEF Member
  <2>3. ASSUME NEW k \in 1 .. i, t[k].adds PROVE k \in opened' \/ AddedAfter(t, k)
    <3>1. CASE k = i
      BY <3>1
    <3>2. CASE k # i
      <4>1. i \in 1 .. Len(t) /\ i > k /\ t[i].adds
        BY <1>2, <3>2
      <4> QED  BY <4>1 DEF AddedAfter
    <3> QED  BY <3>1, <3>2
  <2> QED  BY <1>2, <2>1, <2>2, <2>3 DEF EpochOK
<1>7. ASSUME NEW h \in keys PROVE LeftOnce(h, t)
  <2> SUFFICES ASSUME Before(h, t) PROVE AddedAfter(t, Len(h))
    BY DEF LeftOnce
  <2>1. i \in 1 .. Len(t) /\ i > Len(h) /\ t[i].adds
    BY <1>2 DEF Before
  <2> QED  BY <2>1 DEF AddedAfter
<1>8. \A u : EpochOK(u, opened, own) => u # t /\ LeftOnce(t, u)
  BY <1>2, WelcomeIsNew
<1>9. own' \in Nat /\ own <= own' /\ opened \subseteq opened'
  BY <1>1
<1>10. CoreInv'
  BY <1>3, <1>5, <1>6, <1>7, <1>8, <1>9, NewEpoch DEF IInv
<1> QED  BY <1>4, <1>10
\* A group of this client's own: created, or on top of the server's.
LEMMA OwnGroupCore ==
    ASSUME IInv, NEW s \in Seq(Commits), Known(s, own), ~Member(s), NEW t,
           t = Append(s, Own(own + 1)), mls' = NewGroup(t), keys' = keys \cup {t},
           own' = own + 1, opened' = opened,
           races' = IF mls = Absent THEN races ELSE races \cup {"replaced"},
           UNCHANGED <<used, twice>>
    PROVE  CoreInv'
<1>1. own \in Nat /\ own + 1 \in Nat /\ Len(s) \in Nat
  BY DEF IInv, CoreInv, StoreInv
<1>2. Own(own + 1) \in Commits /\ Own(own + 1).by = "self" /\ ~Own(own + 1).adds
      /\ Own(own + 1).n = own + 1
  BY <1>1, OwnIs DEF OwnOK
<1>3. /\ t \in Seq(Commits) /\ Len(t) = Len(s) + 1
      /\ \A i \in 1 .. Len(s) : t[i] = s[i]
      /\ t[Len(s) + 1] = Own(own + 1)
  BY <1>2, AppendAt
<1>4. EpochOK(t, opened, own + 1)
  <2>1. Known(s, own + 1)
    BY <1>1, KnownStays
  <2>2. Known(t, own + 1)
    BY <1>2, <1>3, <2>1 DEF Known
  <2>3. Member(t)
    <3>1. Len(s) + 1 \in 1 .. Len(t)
      BY <1>1, <1>3
    <3> QED  BY <1>2, <1>3, <3>1 DEF Member
  <2>4. \A i \in 1 .. Len(t) : ~t[i].adds
    BY <1>2, <1>3 DEF Member
  <2> QED  BY <1>3, <2>2, <2>3, <2>4 DEF EpochOK
<1>5. ASSUME NEW h \in keys PROVE LeftOnce(h, t)
  <2>1. Member(h) /\ h \in Seq(Commits) /\ Len(h) \in Nat
    BY DEF IInv, CoreInv, StoreInv, EpochOK
  <2>2. PICK i \in 1 .. Len(h) : h[i].by = "self" \/ h[i].adds
    BY <2>1 DEF Member
  <2>3. ASSUME Before(h, t) PROVE FALSE
    <3>1. i \in 1 .. Len(s) /\ s[i] = h[i]
      BY <1>1, <1>3, <2>1, <2>3 DEF Before
    <3> QED  BY <2>2, <3>1 DEF Member
  <2> QED  BY <2>3 DEF LeftOnce
<1>6. ASSUME NEW u, EpochOK(u, opened, own) PROVE u # t /\ LeftOnce(t, u)
  <2>1. Len(s) + 1 \in 1 .. Len(t)
    BY <1>1, <1>3
  <2> QED  BY <1>1, <1>3, <1>6, <2>1, OwnEpochIsNew
<1>7. own' \in Nat /\ own <= own' /\ opened \subseteq opened' /\ EpochOK(t, opened', own')
  BY <1>1, <1>4
<1> QED  BY <1>5, <1>6, <1>7, NewEpoch DEF IInv

LEMMA CreateIInv ==
    ASSUME IInv, NEW w \in Workers, CreateGroupTask(w)
    PROVE  IInv'
<1> DEFINE t == <<Own(own + 1)>>
           j == [Idle EXCEPT !.task = "create_group", !.pc = "record"]
<1>1. /\ job[w].pc = "work" /\ job[w].task = "create_group"
      /\ \E r \in create_group : /\ mls' = r.group
                                 /\ keys' = write_encryption_epoch_key_pairs(keys, r.group)
      /\ races' = IF mls = Absent THEN races ELSE races \cup {"replaced"}
      /\ own' = own + 1 /\ job' = [job EXCEPT ![w] = j]
      /\ UNCHANGED <<server, opened, used, twice, requests>>
  BY DEF CreateGroupTask, Working, At, Replacement
<1>2. own \in Nat /\ own + 1 \in Nat
  BY DEF IInv, CoreInv, StoreInv
<1>3. Own(own + 1) \in Commits
  BY <1>2, OwnIs DEF OwnOK
<1>4. t \in Seq(Commits) /\ t = Append(<<>>, Own(own + 1))
  BY <1>3
<1>5. mls' = NewGroup(t) /\ keys' = keys \cup {NewGroup(t).hist}
  BY <1>1 DEF create_group, Result, write_encryption_epoch_key_pairs
<1> HIDE DEF t
<1>6. keys' = keys \cup {t}
  BY <1>4, <1>5, NewGroupIs
<1>7. <<>> \in Seq(Commits) /\ Known(<<>>, own) /\ ~Member(<<>>)
  BY DEF Known, Member
<1>8. CoreInv'
  BY <1>1, <1>4, <1>5, <1>6, <1>7, OwnGroupCore
<1>9. JobOK(w, j, own', Len(server)) /\ ~Checking(j)
  <2>1. /\ DOMAIN j = Fields /\ j.task = "create_group" /\ j.pc = "record" /\ j.mem = Absent
        /\ j.result = {}
    BY IdleIs DEF Fields
  <2> HIDE DEF j
  <2>2. "create_group" \in Lane[w] /\ "record" \notin Processing
    BY <1>1 DEF IInv, JobsInv, JobOK, Processing
  <2> QED  BY <2>1, <2>2, NewJob DEF Checking
<1> HIDE DEF j
<1>10. /\ opened \subseteq opened' /\ races \subseteq races' /\ own <= own' /\ server' = server
       /\ \A r \in requests' : r \in requests \/ RequestOK(r, own')
  BY <1>1, <1>2
<1>11. job[w].task \in Creating /\ job[w].pc # "idle" /\ job' = [job EXCEPT ![w] = j]
  BY <1>1 DEF Creating
<1> QED  BY <1>8, <1>9, <1>10, <1>11, WorkerStep

LEMMA ExternalCommitIInv ==
    ASSUME IInv, NEW w \in Workers,
           JoinByExternalCommitTask(w) \/ BatchJoinByExternalCommitTask(w)
    PROVE  IInv'
<1> DEFINE t == Append(server, Own(own + 1))
           S == Requests(mls', IF own' = own THEN NoCommit ELSE Own(own'), TRUE)
           j == [Idle EXCEPT !.task = job[w].task, !.pc = "record", !.result = S]
<1>1. /\ job[w].pc = "work" /\ job[w].task \in Creating
      /\ \E r \in join_by_external_commit :
            mls' = r.group /\ keys' = write_encryption_epoch_key_pairs(keys, r.group)
      /\ races' = IF mls = Absent THEN races ELSE races \cup {"replaced"}
      /\ own' = own + 1 /\ job' = [job EXCEPT ![w] = j]
      /\ UNCHANGED <<server, opened, used, twice, requests>>
  BY DEF JoinByExternalCommitTask, BatchJoinByExternalCommitTask, ExternalCommit, Working, At,
         Replacement, ThenRecord, Creating
<1>2. own \in Nat /\ own + 1 \in Nat /\ server \in Seq(Commits) /\ Known(server, own)
      /\ DOMAIN server = 1 .. Len(server)
  BY DEF IInv, CoreInv, StoreInv, NetworkInv
<1>3. Own(own + 1) \in Commits
  BY <1>2, OwnIs DEF OwnOK
<1>4. t \in Seq(Commits)
  BY <1>2, <1>3
<1>5. ~SelfIsMember /\ mls' = NewGroup(t) /\ keys' = keys \cup {NewGroup(t).hist}
  BY <1>1 DEF join_by_external_commit, Result, write_encryption_epoch_key_pairs
<1>6. keys' = keys \cup {t} /\ mls' # Absent
  BY <1>4, <1>5, NewGroupIs DEF GroupOK
<1>7. ~Member(server)
  BY <1>2, <1>5 DEF SelfIsMember, Member
<1>8. CoreInv'
  <2>1. t = Append(server, Own(own + 1))
    OBVIOUS
  <2> HIDE DEF t
  <2> QED  BY <1>1, <1>2, <1>5, <1>6, <1>7, <2>1, OwnGroupCore
<1>9. Handed(S)
  BY DEF Handed
<1> HIDE DEF S
<1>10. JobOK(w, j, own', Len(server)) /\ ~Checking(j)
  <2>1. /\ DOMAIN j = Fields /\ j.task = job[w].task /\ j.pc = "record" /\ j.mem = Absent
        /\ j.result = S
    BY IdleIs DEF Fields
  <2> HIDE DEF j
  <2>2. Ended(w, j) /\ job[w].pc # "idle"
    BY <1>1, <1>9, <2>1 DEF Ended
  <2> QED  BY <1>6, <1>8, <2>2, EndedIs
<1> HIDE DEF j
<1>11. /\ opened \subseteq opened' /\ races \subseteq races' /\ own <= own' /\ server' = server
       /\ \A r \in requests' : r \in requests \/ RequestOK(r, own')
  BY <1>1, <1>2
<1>12. job[w].task \in Creating /\ job[w].pc # "idle" /\ job' = [job EXCEPT ![w] = j]
  BY <1>1
<1> QED  BY <1>8, <1>10, <1>11, <1>12, WorkerStep

LEMMA ProcessWelcomeIInv ==
    ASSUME IInv, NEW w \in Workers, ProcessWelcomeTask(w)
    PROVE  IInv'
<1>1. PICK i \in Welcomes : Replacement(w, process_welcome(i)) /\ opened' = opened \cup {i}
  BY DEF ProcessWelcomeTask
<1>2. /\ i \in 1 .. Len(server) /\ server[i].adds /\ i \notin opened
  BY DEF Welcomes, IInv, NetworkInv
<1>3. PICK r \in process_welcome(i) :
             mls' = r.group /\ keys' = write_encryption_epoch_key_pairs(keys, r.group)
  BY <1>1 DEF Replacement
<1>4. /\ races' = IF mls = Absent THEN races ELSE races \cup {"replaced"}
      /\ UNCHANGED <<server, own, used, twice, requests>>
      /\ job' = [job EXCEPT ![w] = Idle]
  BY <1>1 DEF Replacement, ProcessWelcomeTask, ThenReturn, Return
<1>5. CoreInv'
  BY <1>1, <1>2, <1>3, <1>4, WelcomeCore
<1>6. JobOK(w, Idle, own', Len(server)) /\ ~Checking(Idle)
  BY IdleJob
<1>7. own \in Nat
  BY DEF IInv, CoreInv, StoreInv
<1>8. /\ opened \subseteq opened' /\ opened' # opened /\ races \subseteq races' /\ own <= own'
      /\ server' = server /\ \A q \in requests' : q \in requests \/ RequestOK(q, own')
  BY <1>1, <1>2, <1>4, <1>7
<1> QED  BY <1>4, <1>5, <1>6, <1>8, WorkerStep

LEMMA DeleteIInv ==
    ASSUME IInv, NEW w \in Workers, DeleteGroupTask(w)
    PROVE  IInv'
<1> DEFINE j == [Idle EXCEPT !.task = "delete_group", !.pc = "record"]
<1>1. /\ job[w].pc = "work" /\ job[w].task = "delete_group" /\ mls' = Absent /\ keys' = {}
      /\ job' = [job EXCEPT ![w] = j]
      /\ UNCHANGED <<server, opened, own, used, twice, races, requests>>
  BY DEF DeleteGroupTask, Working, At
<1>2. CoreInv'
  BY <1>1, GroupGone DEF IInv
<1>3. JobOK(w, j, own', Len(server)) /\ ~Checking(j)
  <2>1. /\ DOMAIN j = Fields /\ j.task = "delete_group" /\ j.pc = "record" /\ j.mem = Absent
        /\ j.result = {}
    BY IdleIs DEF Fields
  <2> HIDE DEF j
  <2>2. "delete_group" \in Lane[w] /\ "record" \notin Processing
    BY <1>1 DEF IInv, JobsInv, JobOK, Processing
  <2> QED  BY <2>1, <2>2, NewJob DEF Checking
<1> HIDE DEF j
<1>4. own \in Nat
  BY DEF IInv, CoreInv, StoreInv
<1>5. /\ opened \subseteq opened' /\ races \subseteq races' /\ own <= own' /\ server' = server
      /\ \A r \in requests' : r \in requests \/ RequestOK(r, own')
  BY <1>1, <1>4
<1> QED  BY <1>1, <1>2, <1>3, <1>5, WorkerStep

LEMMA RecordIInv ==
    ASSUME IInv, NEW w \in Workers, Record(w)
    PROVE  IInv'
<1>1. /\ job' = [job EXCEPT ![w] = Idle] /\ requests' = requests \cup job[w].result
      /\ UNCHANGED <<server, mls, keys, opened, own, used, twice, races>>
  BY DEF Record, Return, KeepsData
<1>2. CoreInv'
  BY <1>1, NothingStored DEF IInv
<1>3. JobOK(w, Idle, own', Len(server)) /\ ~Checking(Idle)
  BY IdleJob
<1>4. own \in Nat /\ \A r \in job[w].result : RequestOK(r, own)
  BY DEF IInv, CoreInv, StoreInv, JobsInv, JobOK
<1>5. /\ opened \subseteq opened' /\ races \subseteq races' /\ own <= own' /\ server' = server
      /\ \A r \in requests' : r \in requests \/ RequestOK(r, own')
  BY <1>1, <1>4
<1> QED  BY <1>1, <1>2, <1>3, <1>5, WorkerStep
-----------------------------------------------------------------------------
(* process_all_messages.                                                   *)

\* A step of a batch leaves a job of a batch.
LEMMA BatchJob ==
    ASSUME IInv, NEW w \in Workers, job[w].pc \in Processing, NEW j,
           DOMAIN j = Fields, j.task = job[w].task, j.result = job[w].result,
           j.pc \in Processing, j.pc = "settle" => j.plan \in Plans,
           j.mem = Absent \/ GroupOK(j.mem),
           j.pos \in {job[w].pos, job[w].pos + 1, job[w].end + 1}, j.end = job[w].end,
           j.pc = "apply" => j.pos <= j.end
    PROVE  JobOK(w, j, own, Len(server)) /\ ~Checking(j)
<1>1. JobOK(w, job[w], own, Len(server))
  BY DEF IInv, JobsInv
<1>2. /\ job[w].pos \in Nat \ {0} /\ job[w].end \in Nat /\ job[w].end <= Len(server)
      /\ job[w].task \in Lane[w] /\ \A r \in job[w].result : RequestOK(r, own)
  BY <1>1 DEF JobOK, Processing
<1>3. j.pos \in Nat \ {0}
  BY <1>2
<1>4. JobOK(w, j, own, Len(server))
  BY <1>2, <1>3 DEF JobOK
<1>5. ~Checking(j)
  BY DEF Checking, Processing
<1> QED  BY <1>4, <1>5

LEMMA DecisionsAre ==
    ASSUME NEW g, NEW op, NEW end, NEW d \in Decisions(g, op, end), d # "keep"
    PROVE  d \in Plans
<1>1. Decisions(g, op, end) \subseteq {"keep", "merge", "clear", "delete"}
  <2>1. CASE op = CreateGroup /\ Epoch(g) = 0
    BY <2>1 DEF Decisions, CreateGroup, JoinByExternalCommit, UpdateTree
  <2>2. CASE op = JoinByExternalCommit \/ (op = CreateGroup /\ Epoch(g) > 0)
    <3> DEFINE first == IF g.hist[1] = server[1] THEN "merge" ELSE "delete"
    <3>1. \/ Decisions(g, op, end) = {IF FirstIsOwn(g, op, end) THEN "merge" ELSE "delete"}
          \/ Decisions(g, op, end) = {"keep", first}
      BY <2>2 DEF Decisions, CreateGroup, JoinByExternalCommit, UpdateTree
    <3> QED  BY <3>1
  <2>3. CASE op = UpdateTree
    <3>1. Decisions(g, op, end) = {IF FirstIsOwn(g, op, end) THEN "merge" ELSE "clear"}
      BY <2>3 DEF Decisions, CreateGroup, JoinByExternalCommit, UpdateTree
    <3> QED  BY <3>1
  <2>4. CASE /\ ~(op = CreateGroup /\ Epoch(g) = 0) /\ op # UpdateTree
             /\ ~(op = JoinByExternalCommit \/ (op = CreateGroup /\ Epoch(g) > 0))
    BY <2>4 DEF Decisions
  <2> QED  BY <2>1, <2>2, <2>3, <2>4
<1> QED  BY <1>1 DEF Plans

LEMMA JobIs ==
    ASSUME IInv, NEW w \in Workers
    PROVE  /\ JobOK(w, job[w], own, Len(server)) /\ DOMAIN job[w] = Fields
           /\ job[w].mem = Absent \/ GroupOK(job[w].mem)
           /\ mls = Absent \/ GroupOK(mls)
BY DEF IInv, JobsInv, JobOK, CoreInv, StoreInv

\* The steps that only change the job.
LEMMA BatchQuietIInv ==
    ASSUME IInv, NEW w \in Workers,
           \/ Load(w) \/ Decide(w) \/ SettleFails(w) \/ NoProposals(w) \/ Reload(w)
           \/ ProcessAllReturns(w)
    PROVE  IInv'
<1>1. CASE SettleFails(w) \/ ProcessAllReturns(w)
  BY <1>1, ReturnIInv DEF SettleFails, ProcessAllReturns
<1>2. CASE Load(w)
  <2> DEFINE j == [job[w] EXCEPT !.mem = mls, !.pc = IF mls = Absent THEN "messages" ELSE "decide"]
  <2>1. job' = [job EXCEPT ![w] = j] /\ KeepsAll /\ job[w].pc = "load"
    BY <1>2 DEF Load, At
  <2>2. /\ DOMAIN j = Fields /\ j.task = job[w].task /\ j.result = job[w].result
        /\ j.pc \in {"messages", "decide"} /\ j.mem = mls /\ j.pos = job[w].pos
        /\ j.end = job[w].end
    BY JobIs DEF Fields
  <2> HIDE DEF j
  <2>3. JobOK(w, j, own, Len(server)) /\ ~Checking(j)
    <3>1. j.pc \in Processing /\ job[w].pc \in Processing /\ j.pc # "settle" /\ j.pc # "apply"
      BY <2>1, <2>2 DEF Processing
    <3> QED  BY <2>2, <3>1, JobIs, BatchJob
  <2> QED  BY <2>1, <2>3, QuietStep
<1>3. CASE Decide(w)
  <2>1. PICK d \in Decisions(job[w].mem, status, job[w].end) :
               job' = [job EXCEPT ![w].plan = d,
                                  ![w].pc = IF d = "keep" THEN "proposals" ELSE "settle"]
    BY <1>3 DEF Decide
  <2> DEFINE j == [job[w] EXCEPT !.plan = d, !.pc = IF d = "keep" THEN "proposals" ELSE "settle"]
  <2>2. job' = [job EXCEPT ![w] = j] /\ KeepsAll /\ job[w].pc = "decide"
    BY <1>3, <2>1 DEF Decide, At
  <2>3. /\ DOMAIN j = Fields /\ j.task = job[w].task /\ j.result = job[w].result
        /\ j.pc = IF d = "keep" THEN "proposals" ELSE "settle"
        /\ j.plan = d /\ j.mem = job[w].mem /\ j.pos = job[w].pos /\ j.end = job[w].end
    BY JobIs DEF Fields
  <2> HIDE DEF j
  <2>4. JobOK(w, j, own, Len(server)) /\ ~Checking(j)
    <3>1. j.pc \in Processing /\ job[w].pc \in Processing /\ j.pc # "apply"
      BY <2>2, <2>3 DEF Processing
    <3>2. j.pc = "settle" => j.plan \in Plans
      BY <2>3, DecisionsAre
    <3> QED  BY <2>3, <3>1, <3>2, JobIs, BatchJob
  <2> QED  BY <2>2, <2>4, QuietStep
<1>4. CASE NoProposals(w)
  <2> DEFINE j == [job[w] EXCEPT !.pc = "messages"]
  <2>1. job' = [job EXCEPT ![w] = j] /\ KeepsAll /\ job[w].pc = "proposals"
    BY <1>4 DEF NoProposals, Goto, At
  <2>2. /\ DOMAIN j = Fields /\ j.task = job[w].task /\ j.result = job[w].result
        /\ j.pc = "messages" /\ j.mem = job[w].mem /\ j.pos = job[w].pos /\ j.end = job[w].end
    BY JobIs DEF Fields
  <2> HIDE DEF j
  <2>3. JobOK(w, j, own, Len(server)) /\ ~Checking(j)
    <3>1. j.pc \in Processing /\ job[w].pc \in Processing /\ j.pc # "settle" /\ j.pc # "apply"
      BY <2>1, <2>2 DEF Processing
    <3> QED  BY <2>2, <3>1, JobIs, BatchJob
  <2> QED  BY <2>1, <2>3, QuietStep
<1>5. CASE Reload(w) /\ job[w].mem = Absent
  <2> DEFINE j == [job[w] EXCEPT !.pos = @ + 1]
  <2>1. job' = [job EXCEPT ![w] = j] /\ KeepsAll /\ job[w].pc = "messages"
    BY <1>5 DEF Reload, AtMessage, At
  <2>2. /\ DOMAIN j = Fields /\ j.task = job[w].task /\ j.result = job[w].result
        /\ j.pc = "messages" /\ j.mem = job[w].mem /\ j.pos = job[w].pos + 1
        /\ j.end = job[w].end
    BY <2>1, JobIs DEF Fields
  <2> HIDE DEF j
  <2>3. JobOK(w, j, own, Len(server)) /\ ~Checking(j)
    <3>1. j.pc \in Processing /\ job[w].pc \in Processing /\ j.pc # "settle" /\ j.pc # "apply"
      BY <2>1, <2>2 DEF Processing
    <3> QED  BY <2>2, <3>1, JobIs, BatchJob
  <2> QED  BY <2>1, <2>3, QuietStep
<1>6. CASE Reload(w) /\ job[w].mem # Absent
  <2> DEFINE j == [job[w] EXCEPT !.pc = "apply",
                                 !.mem = IF job[w].loaded \/ mls = Absent THEN @ ELSE mls,
                                 !.loaded = @ \/ mls # Absent]
  <2>1. /\ job' = [job EXCEPT ![w] = j] /\ KeepsAll /\ job[w].pc = "messages"
        /\ job[w].pos <= job[w].end
    BY <1>6 DEF Reload, AtMessage, At
  <2>2. /\ DOMAIN j = Fields /\ j.task = job[w].task /\ j.result = job[w].result
        /\ j.pc = "apply" /\ j.mem = (IF job[w].loaded \/ mls = Absent THEN job[w].mem ELSE mls)
        /\ j.pos = job[w].pos /\ j.end = job[w].end
    BY JobIs DEF Fields
  <2> HIDE DEF j
  <2>3. JobOK(w, j, own, Len(server)) /\ ~Checking(j)
    <3>1. j.pc \in Processing /\ job[w].pc \in Processing /\ j.pc # "settle"
      BY <2>1, <2>2 DEF Processing
    <3> QED  BY <2>1, <2>2, <3>1, JobIs, BatchJob
  <2> QED  BY <2>1, <2>3, QuietStep
<1> QED  BY <1>1, <1>2, <1>3, <1>4, <1>5, <1>6

\* What ProcessCommit makes of the group in memory.
LEMMA MemoryIs ==
    ASSUME IInv, NEW w \in Workers, job[w].pc = "apply",
           NEW ks, NEW r \in ProcessCommit(job[w].mem, ks, job[w].pos), ks \subseteq keys
    PROVE  /\ job[w].mem.hist \in keys /\ GroupOK(r.group)
           /\ \E t : /\ Advances(job[w].mem.hist, t, own) /\ Begins(t, server)
                     /\ r.group = NewGroup(t)
<1>1. JobOK(w, job[w], own, Len(server)) /\ server \in Seq(Commits)
  BY DEF IInv, JobsInv, NetworkInv
<1>2. job[w].pos \in 1 .. Len(server)
  BY <1>1 DEF JobOK, Processing
<1>3. job[w].mem # Absent /\ job[w].mem.hist \in ks
  BY DEF ProcessCommit, Applies
<1>4. GroupOK(job[w].mem) /\ Known(job[w].mem.hist, own)
  BY <1>1, <1>3 DEF JobOK, IInv, CoreInv, StoreInv, EpochOK
<1>5. PICK t : Advances(job[w].mem.hist, t, own) /\ Begins(t, server) /\ r.group = NewGroup(t)
  <2> DEFINE g == job[w].mem
             i == job[w].pos
  <2>1. /\ GroupOK(g) /\ Known(g.hist, own) /\ i \in 1 .. Len(server)
        /\ r \in ProcessCommit(g, ks, i) /\ server \in Seq(Commits)
    BY <1>1, <1>2, <1>4
  <2> HIDE DEF g, i
  <2>2. \E t : Advances(g.hist, t, own) /\ Begins(t, server) /\ r.group = NewGroup(t)
    BY <2>1, ProcessCommitIs
  <2> QED  BY <2>2 DEF g
<1>6. GroupOK(r.group)
  BY <1>5, NewGroupIs DEF Advances
<1> QED  BY <1>3, <1>5, <1>6

LEMMA ApplyFailsIInv ==
    ASSUME IInv, NEW w \in Workers, ApplyFails(w)
    PROVE  IInv'
<1> DEFINE skipped == [job[w] EXCEPT !.pc = "messages", !.pos = @ + 1]
<1>1. PICK j : /\ job' = [job EXCEPT ![w] = j]
               /\ \/ j = skipped
                  \/ \E r \in ProcessCommit(job[w].mem, keys, job[w].pos) :
                        j = [skipped EXCEPT !.mem = r.group]
                  \/ j = [skipped EXCEPT !.pos = job[w].end + 1]
  BY DEF ApplyFails
<1>2. job[w].pc = "apply" /\ KeepsAll
  BY DEF ApplyFails, At
<1>3. \A r \in ProcessCommit(job[w].mem, keys, job[w].pos) : GroupOK(r.group)
  BY <1>2, MemoryIs
<1>4. /\ DOMAIN j = Fields /\ j.task = job[w].task /\ j.result = job[w].result
      /\ j.pc = "messages"
      /\ j.mem = Absent \/ GroupOK(j.mem)
      /\ j.pos \in {job[w].pos, job[w].pos + 1, job[w].end + 1} /\ j.end = job[w].end
  BY <1>1, <1>3, JobIs DEF Fields
<1>5. JobOK(w, j, own, Len(server)) /\ ~Checking(j)
  <2>1. j.pc \in Processing /\ job[w].pc \in Processing /\ j.pc # "settle" /\ j.pc # "apply"
    BY <1>2, <1>4 DEF Processing
  <2> QED  BY <1>4, <2>1, BatchJob
<1> QED  BY <1>1, <1>2, <1>5, QuietStep

\* A step of a batch that changes the group, within what this client has.
LEMMA BatchStep ==
    ASSUME IInv, NEW w \in Workers, job[w].pc \in Processing, NEW j, CoreInv',
           job' = [job EXCEPT ![w] = j],
           DOMAIN j = Fields, j.task = job[w].task, j.result = job[w].result,
           j.pc \in {"reset", "proposals", "messages"}, j.mem = Absent \/ GroupOK(j.mem),
           j.pos \in {job[w].pos, job[w].pos + 1}, j.end = job[w].end,
           UNCHANGED <<server, own, requests>>, opened \subseteq opened', races \subseteq races',
           ~(/\ mls = Absent /\ mls' # Absent
             /\ "replaced" \notin races' /\ opened' = opened)
    PROVE  IInv'
<1>1. j.pc \in Processing /\ j.pc # "settle" /\ j.pc # "apply"
  BY DEF Processing
<1>2. JobOK(w, j, own, Len(server)) /\ ~Checking(j)
  BY <1>1, BatchJob
<1>3. own \in Nat
  BY DEF IInv, CoreInv, StoreInv
<1>4. /\ JobOK(w, j, own', Len(server)) /\ own <= own' /\ server' = server
      /\ \A r \in requests' : r \in requests \/ RequestOK(r, own')
  BY <1>2, <1>3
<1> QED  BY <1>2, <1>4, WorkerStep

LEMMA SettleIInv ==
    ASSUME IInv, NEW w \in Workers, Settle(w)
    PROVE  IInv'
<1>1. /\ job[w].pc = "settle" /\ mls # Absent /\ races \subseteq races'
      /\ UNCHANGED <<server, opened, requests, own, used, twice>>
  BY DEF Settle, At
<1>2. job[w].plan \in Plans
  BY <1>1 DEF IInv, JobsInv, JobOK
<1>3. PICK r :
        /\ \/ job[w].plan = "merge" /\ r \in merge_pending_commit(mls)
           \/ job[w].plan = "clear" /\ r \in clear_pending_commit(mls)
           \/ job[w].plan = "delete" /\ r \in Result(Absent, NoCommit)
        /\ mls' = r.group
        /\ keys' = IF r.group = Absent THEN delete_encryption_epoch_key_pairs(keys, mls)
                   ELSE NextEpochKeys(keys, mls, r.group)
        /\ job' = [job EXCEPT ![w].mem = r.group, ![w].pc = "reset"]
  <2>1. CASE job[w].plan = "merge"
    BY <2>1 DEF Settle
  <2>2. CASE job[w].plan = "clear"
    BY <2>2 DEF Settle
  <2>3. CASE job[w].plan = "delete"
    BY <2>3 DEF Settle
  <2> QED  BY <1>2, <2>1, <2>2, <2>3 DEF Plans
<1>4. ASSUME job[w].plan # "delete" PROVE CoreInv' /\ GroupOK(r.group)
  <2>1. Follows(r)
    BY <1>3, <1>4, MergeFollows, ClearFollows
  <2>2. r.commit = NoCommit
    BY <1>3, <1>4 DEF merge_pending_commit, clear_pending_commit, Result
  <2>3. GroupOK(r.group) /\ r.group # Absent
    BY <2>1, NewGroupIs DEF Follows, Advances, GroupOK
  <2>4. keys' = NextEpochKeys(keys, mls, r.group)
    BY <1>3, <2>3
  <2> QED  BY <1>1, <1>3, <2>1, <2>2, <2>3, <2>4, FollowCore
<1>5. ASSUME job[w].plan = "delete" PROVE CoreInv' /\ r.group = Absent
  <2>1. r.group = Absent
    BY <1>3, <1>5 DEF Result
  <2>2. keys' = keys \ {mls.hist}
    BY <1>1, <1>3, <2>1 DEF delete_encryption_epoch_key_pairs
  <2>3. "replaced" \notin races => keys' = {}
    BY <1>1, <2>2 DEF IInv, CoreInv, StoreInv
  <2> QED  BY <1>1, <1>3, <2>1, <2>2, <2>3, GroupGone DEF IInv
<1> DEFINE j == [job[w] EXCEPT !.mem = r.group, !.pc = "reset"]
<1>6. job' = [job EXCEPT ![w] = j]
  BY <1>3
<1>7. /\ DOMAIN j = Fields /\ j.task = job[w].task /\ j.result = job[w].result
      /\ j.pc = "reset" /\ j.mem = r.group /\ j.pos = job[w].pos /\ j.end = job[w].end
  BY JobIs DEF Fields
<1> HIDE DEF j
<1>8. job[w].pc \in Processing
  BY <1>1 DEF Processing
<1> QED  BY <1>1, <1>4, <1>5, <1>6, <1>7, <1>8, BatchStep

LEMMA ResetIInv ==
    ASSUME IInv, NEW w \in Workers, Reset(w)
    PROVE  IInv'
<1> DEFINE j == [job[w] EXCEPT !.pc = "proposals"]
<1>1. /\ job[w].pc = "reset" /\ races \subseteq races' /\ job' = [job EXCEPT ![w] = j]
      /\ UNCHANGED <<server, mls, keys, opened, requests, own, used, twice>>
  BY DEF Reset, At, Goto, KeepsData
<1>2. CoreInv'
  BY <1>1, NothingStored DEF IInv
<1>3. /\ DOMAIN j = Fields /\ j.task = job[w].task /\ j.result = job[w].result
      /\ j.pc = "proposals" /\ j.mem = job[w].mem /\ j.pos = job[w].pos /\ j.end = job[w].end
  BY JobIs DEF Fields
<1> HIDE DEF j
<1>4. job[w].pc \in Processing
  BY <1>1 DEF Processing
<1> QED  BY <1>1, <1>2, <1>3, <1>4, JobIs, BatchStep

LEMMA ReadProposalsIInv ==
    ASSUME IInv, NEW w \in Workers, ReadProposals(w)
    PROVE  IInv'
<1> DEFINE j == [job[w] EXCEPT !.pc = "messages"]
<1>1. /\ job[w].pc = "proposals" /\ job[w].mem # Absent /\ mls # Absent
      /\ mls' = [mls EXCEPT !.sent = job[w].mem.sent]
      /\ races' = races \cup {r \in {"secrets"} : mls.sent # job[w].mem.sent}
      /\ job' = [job EXCEPT ![w] = j]
      /\ UNCHANGED <<server, keys, opened, requests, own, used, twice>>
  BY DEF ReadProposals, At, Goto
<1>2. GroupOK(mls) /\ own \in Nat /\ (mls.pending = NoCommit \/ OwnOK(mls.pending, own))
  BY <1>1, StoredIs
<1>3. GroupOK(job[w].mem) /\ job[w].mem.sent \in Nat
  BY <1>1, JobIs DEF GroupOK, Groups
<1>4. /\ mls' \in Groups /\ mls'.hist = mls.hist /\ mls'.pending = mls.pending
      /\ mls'.sent = job[w].mem.sent
  BY <1>1, <1>2, <1>3 DEF GroupOK, Groups
<1>5. CoreInv'
  <2>1. GroupOK(mls')
    BY <1>4, Kinds DEF GroupOK
  <2>2. mls'.sent = mls.sent \/ "secrets" \in races'
    BY <1>1, <1>4
  <2>3. mls'.pending = NoCommit \/ OwnOK(mls'.pending, own')
    BY <1>1, <1>2, <1>4
  <2>4. own' \in Nat /\ own <= own' /\ races \subseteq races'
    BY <1>1, <1>2
  <2> QED  BY <1>1, <1>4, <2>1, <2>2, <2>3, <2>4, SameEpoch DEF IInv
<1>6. /\ DOMAIN j = Fields /\ j.task = job[w].task /\ j.result = job[w].result
      /\ j.pc = "messages" /\ j.mem = job[w].mem /\ j.pos = job[w].pos /\ j.end = job[w].end
  BY JobIs DEF Fields
<1> HIDE DEF j
<1>7. job[w].pc \in Processing
  BY <1>1 DEF Processing
<1> QED  BY <1>1, <1>5, <1>6, <1>7, JobIs, BatchStep

LEMMA OpenWelcomeIInv ==
    ASSUME IInv, NEW w \in Workers, OpenWelcome(w)
    PROVE  IInv'
<1>1. /\ job[w].pc = "messages" /\ job[w].pos <= job[w].end
      /\ server[job[w].pos].adds /\ job[w].pos \notin opened
      /\ opened' = opened \cup {job[w].pos}
      /\ races' = IF mls = Absent THEN races ELSE races \cup {"replaced"}
      /\ UNCHANGED <<server, requests, own, used, twice>>
  BY DEF OpenWelcome, AtMessage, IsWelcome, At
<1>2. PICK r \in process_welcome(job[w].pos) :
        /\ mls' = r.group
        /\ keys' = write_encryption_epoch_key_pairs(keys, r.group)
        /\ job' = [job EXCEPT ![w].mem = r.group, ![w].pos = @ + 1]
  BY DEF OpenWelcome
<1>3. job[w].pos \in 1 .. Len(server)
  <2>1. JobOK(w, job[w], own, Len(server)) /\ Len(server) \in Nat
    BY DEF IInv, JobsInv, NetworkInv
  <2> QED  BY <1>1, <2>1 DEF JobOK, Processing
<1>4. CoreInv' /\ GroupOK(r.group)
  <2> DEFINE i == job[w].pos
  <2>1. /\ i \in 1 .. Len(server) /\ server[i].adds /\ i \notin opened
        /\ r \in process_welcome(i) /\ opened' = opened \cup {i}
    BY <1>1, <1>2, <1>3
  <2> HIDE DEF i
  <2>2. CoreInv' /\ GroupOK(mls')
    BY <1>1, <1>2, <2>1, WelcomeCore
  <2> QED  BY <1>2, <2>2
<1> DEFINE j == [job[w] EXCEPT !.mem = r.group, !.pos = @ + 1]
<1>5. job' = [job EXCEPT ![w] = j]
  BY <1>2
<1>6. /\ DOMAIN j = Fields /\ j.task = job[w].task /\ j.result = job[w].result
      /\ j.pc = "messages" /\ j.mem = r.group /\ j.pos = job[w].pos + 1 /\ j.end = job[w].end
  BY <1>1, JobIs DEF Fields
<1> HIDE DEF j
<1>7. /\ job[w].pc \in Processing /\ opened \subseteq opened' /\ opened' # opened
      /\ races \subseteq races'
  BY <1>1 DEF Processing
<1> QED  BY <1>1, <1>4, <1>5, <1>6, <1>7, BatchStep

LEMMA ApplyIInv ==
    ASSUME IInv, NEW w \in Workers, Apply(w)
    PROVE  IInv'
<1>1. /\ job[w].pc = "apply"
      /\ UNCHANGED <<server, opened, requests, own, used, twice, races>>
  BY DEF Apply, At
<1>2. PICK r \in ProcessCommit(job[w].mem, keys, job[w].pos) :
        /\ mls' = r.group
        /\ keys' = NextEpochKeys(keys, job[w].mem, r.group)
        /\ job' = [job EXCEPT ![w].mem = r.group, ![w].pos = @ + 1, ![w].pc = "messages"]
  BY DEF Apply
<1> DEFINE h == job[w].mem.hist
<1>3. /\ h \in keys /\ GroupOK(r.group)
      /\ \E t : Advances(h, t, own) /\ r.group = NewGroup(t)
  BY <1>1, <1>2, MemoryIs
<1>4. PICK t : Advances(h, t, own) /\ r.group = NewGroup(t)
  BY <1>3
<1>5. r.group.hist = t /\ t # h
  <2>1. h \in Seq(Commits) /\ Len(h) \in Nat
    BY <1>3 DEF IInv, CoreInv, StoreInv, EpochOK
  <2>2. t # h
    BY <1>4, <2>1 DEF Advances, Before
  <2> QED  BY <1>4, <2>2, NewGroupIs DEF Advances
<1>6. job[w].mem # Absent
  BY <1>2 DEF ProcessCommit
<1>7. keys' = (keys \ {h}) \cup {t}
  BY <1>2, <1>5, <1>6
  DEF NextEpochKeys, delete_encryption_epoch_key_pairs, write_encryption_epoch_key_pairs
<1> HIDE DEF h
<1>8. CoreInv'
  <2>1. races \subseteq races' /\ mls' = NewGroup(t)
    BY <1>1, <1>2, <1>4
  <2> QED  BY <1>1, <1>3, <1>4, <1>7, <2>1, NextEpoch DEF IInv
<1>9. "replaced" \notin races => mls # Absent
  BY <1>3 DEF IInv, CoreInv, StoreInv
<1> DEFINE j == [job[w] EXCEPT !.mem = r.group, !.pos = @ + 1, !.pc = "messages"]
<1>10. job' = [job EXCEPT ![w] = j]
  BY <1>2
<1>11. /\ DOMAIN j = Fields /\ j.task = job[w].task /\ j.result = job[w].result
       /\ j.pc = "messages" /\ j.mem = r.group /\ j.pos = job[w].pos + 1 /\ j.end = job[w].end
  BY JobIs DEF Fields
<1> HIDE DEF j
<1>12. job[w].pc \in Processing /\ opened \subseteq opened' /\ races \subseteq races'
  BY <1>1 DEF Processing
<1> QED  BY <1>1, <1>3, <1>8, <1>9, <1>10, <1>11, <1>12, BatchStep

-----------------------------------------------------------------------------
(* The server and the other members.                                       *)

LEMMA ServerIInv ==
    ASSUME IInv, (\E r \in requests : ServerHandles(r)) \/ (\E adds \in BOOLEAN : PeerCommits(adds))
    PROVE  IInv'
<1>1. /\ server \in Seq(Commits) /\ Known(server, own) /\ own \in Nat /\ Len(server) \in Nat
      /\ \A r \in requests : RequestOK(r, own)
  BY DEF IInv, NetworkInv, CoreInv, StoreInv
<1>2. /\ UNCHANGED <<mls, keys, opened, job, own, used, twice, races>>
      /\ requests' \subseteq requests
  BY DEF ServerHandles, PeerCommits
<1>3. server' \in Seq(Commits) /\ Known(server', own) /\ Len(server) <= Len(server')
  <2>1. ASSUME NEW s \in Seq(Commits), Known(s, own), NEW c \in Commits,
               c.by = "self" => c.n <= own, Len(server) <= Len(s)
        PROVE  /\ Append(s, c) \in Seq(Commits) /\ Known(Append(s, c), own)
               /\ Len(server) <= Len(Append(s, c))
    <3>1. /\ Append(s, c) \in Seq(Commits) /\ Len(Append(s, c)) = Len(s) + 1
          /\ \A i \in 1 .. Len(s) : Append(s, c)[i] = s[i]
          /\ Append(s, c)[Len(s) + 1] = c /\ Len(s) \in Nat
      BY AppendAt
    <3>2. Known(Append(s, c), own)
      BY <2>1, <3>1 DEF Known
    <3> QED  BY <1>1, <2>1, <3>1, <3>2
  <2>2. ASSUME NEW r \in requests, ServerHandles(r)
        PROVE  server' \in Seq(Commits) /\ Known(server', own) /\ Len(server) <= Len(server')
    <3>1. r.base \in Seq(Commits) /\ Known(r.base, own) /\ OwnOK(r.commit, own)
      BY <1>1 DEF RequestOK
    <3>2. \/ server' = server
          \/ server' = Append(r.base, r.commit) /\ (server = <<>> \/ r.base = server)
      BY <2>2 DEF ServerHandles
    <3>3. server = <<>> \/ r.base = server => Len(server) <= Len(r.base)
      BY <1>1, <3>1
    <3>4. CASE server' = server
      BY <1>1, <3>4
    <3>5. CASE server' # server
      BY <2>1, <3>1, <3>2, <3>3, <3>5 DEF OwnOK
    <3> QED  BY <3>4, <3>5
  <2>3. ASSUME NEW adds \in BOOLEAN, PeerCommits(adds)
        PROVE  server' \in Seq(Commits) /\ Known(server', own) /\ Len(server) <= Len(server')
    <3>1. CASE server # <<>>
      <4>1. server' = Append(server, Peer(Len(server) + 1, adds))
        BY <2>3, <3>1 DEF PeerCommits
      <4>2. /\ Peer(Len(server) + 1, adds) \in Commits
            /\ Peer(Len(server) + 1, adds).by # "self" /\ Len(server) <= Len(server)
        BY <1>1, PeerIs
      <4> QED  BY <1>1, <2>1, <4>1, <4>2
    <3>2. CASE server = <<>>
      <4>1. server' = <<Peer(1, FALSE), Peer(2, adds)>>
        BY <2>3, <3>2 DEF PeerCommits
      <4>2. /\ Peer(1, FALSE) \in Commits /\ Peer(1, FALSE).by = "peer"
            /\ Peer(2, adds) \in Commits /\ Peer(2, adds).by = "peer"
        <5>1. 1 \in Nat /\ 2 \in Nat /\ FALSE \in BOOLEAN
          OBVIOUS
        <5> QED  BY <5>1, PeerIs
      <4>3. /\ server' \in Seq(Commits) /\ Len(server') = 2
            /\ server'[1] = Peer(1, FALSE) /\ server'[2] = Peer(2, adds)
        <5> DEFINE p1 == Peer(1, FALSE)
        <5> DEFINE p2 == Peer(2, adds)
        <5>1. p1 \in Commits /\ p2 \in Commits /\ server' = <<p1, p2>>
          BY <4>1, <4>2
        <5> HIDE DEF p1, p2
        <5>2. server' \in Seq(Commits) /\ Len(server') = 2 /\ server'[1] = p1 /\ server'[2] = p2
          BY <5>1
        <5> QED  BY <5>2 DEF p1, p2
      <4>4. Known(server', own)
        <5>1. \A i \in 1 .. Len(server') : i = 1 \/ i = 2
          BY <4>3
        <5> QED  BY <4>2, <4>3, <5>1 DEF Known
      <4> QED  BY <3>2, <4>3, <4>4
    <3> QED  BY <3>1, <3>2
  <2> QED  BY <2>2, <2>3
<1>4. Len(server') \in Nat
  BY <1>3
<1>5. JobsInv'
  <2>1. ASSUME NEW w \in Workers PROVE JobOK(w, job[w], own, Len(server'))
    <3>1. JobOK(w, job[w], own, Len(server)) /\ own <= own
      BY <1>1 DEF IInv, JobsInv
    <3> QED  BY <1>1, <1>3, <1>4, <3>1, JobStays
  <2> QED  BY <1>2, <2>1 DEF IInv, JobsInv
<1>6. CoreInv'
  BY <1>2, NothingStored DEF IInv
<1>7. NetworkInv'
  BY <1>1, <1>2, <1>3 DEF NetworkInv
<1>8. OneApplication => CheckedInv'
  BY <1>2 DEF IInv, CheckedInv
<1> QED  BY <1>5, <1>6, <1>7, <1>8 DEF IInv

-----------------------------------------------------------------------------
(* Every reachable state satisfies the invariant.                          *)

LEMMA InitIInv == Init => IInv
<1> SUFFICES ASSUME Init PROVE IInv
  OBVIOUS
<1>1. /\ mls = Absent /\ keys = {} /\ own = 0 /\ used = {} /\ ~twice
      /\ server = <<>> /\ requests = {} /\ Len(server) = 0
      /\ job = [w \in Workers |-> Idle]
  BY DEF Init
<1>2. CoreInv
  BY <1>1 DEF CoreInv, StoreInv, UsedInv, EpochsInv, RatchetInv, GenerationsUnique
<1>3. JobsInv
  BY <1>1, IdleJob DEF JobsInv
<1>4. NetworkInv
  BY <1>1 DEF NetworkInv, Known
<1>5. CheckedInv
  BY <1>1, IdleJob DEF CheckedInv
<1> QED  BY <1>2, <1>3, <1>4, <1>5 DEF IInv

LEMMA NextIInv ==
    ASSUME IInv, [Next]_vars
    PROVE  IInv'
<1>1. CASE UNCHANGED vars
  BY <1>1 DEF vars, IInv, CoreInv, StoreInv, UsedInv, EpochsInv, RatchetInv, GenerationsUnique,
              JobsInv, NetworkInv, CheckedInv
<1>2. ASSUME NEW w \in Workers, Operation(w) PROVE IInv'
  BY <1>2, BeforeIInv, RecordIInv, CreateIInv, ExternalCommitIInv, TaskIInv, DeleteIInv
  DEF Operation
<1>3. ASSUME NEW w \in Workers, Message(w) PROVE IInv'
  BY <1>3, EncryptIInv, ReceiveIInv, CommitToProposalIInv, ProcessWelcomeIInv DEF Message
<1>4. ASSUME NEW w \in Workers, ProcessAllMessages(w) PROVE IInv'
  BY <1>4, BatchQuietIInv, SettleIInv, ResetIInv, ReadProposalsIInv, OpenWelcomeIInv, ApplyIInv,
     ApplyFailsIInv DEF ProcessAllMessages
<1>5. ASSUME NEW w \in Workers, Query(w) \/ Submit(w) PROVE IInv'
  BY <1>5, BeforeIInv, SubmitIInv
<1> QED  BY <1>1, <1>2, <1>3, <1>4, <1>5, ServerIInv DEF Next

\* Whatever the tasks, the workers and the application do: the stored group is
\* in an epoch whose key pairs are stored; an epoch whose key pairs have been
\* deleted is not entered again; and the ratchet is past every message sent.
THEOREM Inductive == Spec => []IInv
<1>1. Init => IInv
  BY InitIInv
<1>2. IInv /\ [Next]_vars => IInv'
  BY NextIInv
<1> QED  BY <1>1, <1>2, PTL DEF Spec

\* No two messages are encrypted with the same generation of an epoch's
\* ratchet, as long as no proposal loop has written back an older copy of the
\* group's secrets.
THEOREM GenerationsAreUnique == Spec => []GenerationsUnique
<1>1. IInv => GenerationsUnique
  BY DEF IInv, CoreInv
<1> QED  BY <1>1, Inductive, PTL

-----------------------------------------------------------------------------
(* What a step does to the commits of the stored group.                    *)

Extends ==
    "replaced" \notin races' =>
        /\ mls # Absent /\ mls' # Absent => IsPrefix(mls.hist, mls'.hist)
        /\ mls = Absent /\ mls' # Absent =>
             \A w \in Workers : At(w, "apply") => job'[w] = job[w]

LEMMA HistoryExtends ==
    ASSUME IInv, mls # Absent,
           mls'.hist = mls.hist \/ \E t : Advances(mls.hist, t, own) /\ mls'.hist = t
    PROVE  Extends
<1>1. mls.hist \in Seq(Commits)
  BY StoredIs
<1>2. mls'.hist \in Seq(Commits) /\ Begins(mls.hist, mls'.hist)
  BY <1>1 DEF Advances, Before, Begins
<1> QED  BY <1>1, <1>2, PrefixBegins DEF Extends

LEMMA UnchangedExtends ==
    ASSUME IInv, mls' = mls
    PROVE  Extends
BY HistoryExtends DEF Extends

LEMMA TransactionExtends ==
    ASSUME IInv, NEW r, mls # Absent, Follows(r), mls' = r.group
    PROVE  Extends
BY HistoryExtends, NewGroupIs DEF Follows, Advances

\* Where no group was stored, the step of a worker that is not applying a
\* commit leaves those that are alone.
LEMMA ReplacementExtends ==
    ASSUME NEW w \in Workers, job[w].pc # "apply", NEW j, job' = [job EXCEPT ![w] = j], IInv,
           races' = IF mls = Absent THEN races ELSE races \cup {"replaced"}
    PROVE  Extends
BY DEF Extends, At, IInv, JobsInv

LEMMA TaskExtends ==
    ASSUME IInv, NEW w \in Workers,
           \/ AddMembersTask(w) \/ RemoveMembersTask(w) \/ UpdateLeafNodeTask(w) \/ ReaddTask(w)
           \/ MergePendingCommitTask(w) \/ ClearPendingCommitTask(w)
           \/ ClearPendingProposalsTask(w)
           \/ ProcessOperationMessageTask(w) \/ ProcessManyOperationMessagesTask(w)
           \/ ProcessApplicationMessageTask(w) \/ ProcessProposalMessageTask(w)
           \/ LeaveGroupTask(w) \/ UpdateGroupConfigTask(w) \/ CommitToProposal(w)
    PROVE  Extends
<1>1. PICK results : /\ Transaction(w, results)
                     /\ \/ results = StageCommit(View(w))
                        \/ results = merge_pending_commit(View(w))
                        \/ results = clear_pending_commit(View(w))
                        \/ results = Unchanged(View(w))
                        \/ results = process_operation_message(View(w), keys)
                        \/ results = process_many_operation_messages(View(w), keys)
  BY DEF AddMembersTask, RemoveMembersTask, UpdateLeafNodeTask, ReaddTask, Stages, Ends,
         MergePendingCommitTask, ClearPendingCommitTask, ClearPendingProposalsTask,
         add_members, remove_members, update_leaf_node, readd, clear_pending_proposals,
         ProcessOperationMessageTask, ProcessManyOperationMessagesTask,
         ProcessApplicationMessageTask, ProcessProposalMessageTask, LeaveGroupTask,
         UpdateGroupConfigTask, Receives, process_application_message,
         process_proposal_message, leave_group, update_group_config,
         CommitToProposal, commit_to_proposal
<1>2. View(w) = mls
  BY <1>1 DEF Transaction, SnapshotIsCurrent
<1>3. PICK r \in results : mls' = r.group
  BY <1>1 DEF Transaction
<1>4. mls # Absent /\ Follows(r)
  BY <1>1, <1>2, StagedFollows, MergeFollows, ClearFollows, UnchangedFollows, ReceivedFollows
<1> QED  BY <1>3, <1>4, TransactionExtends

LEMMA OperationExtends ==
    ASSUME IInv, NEW w \in Workers, Operation(w)
    PROVE  Extends
<1>1. CASE CheckAbsent(w) \/ ReaddChecks(w) \/ Begin(w) \/ TaskFails(w) \/ Record(w)
  <2>1. mls' = mls
    BY <1>1 DEF CheckAbsent, ReaddChecks, Begin, TaskFails, Record, KeepsAll, KeepsData
  <2> QED  BY <2>1, UnchangedExtends
<1>2. CASE CreateGroupTask(w)
  BY <1>2, ReplacementExtends DEF CreateGroupTask, Working, At, Replacement
<1>3. CASE JoinByExternalCommitTask(w) \/ BatchJoinByExternalCommitTask(w)
  BY <1>3, ReplacementExtends
  DEF JoinByExternalCommitTask, BatchJoinByExternalCommitTask, ExternalCommit, Working, At,
      Replacement, ThenRecord
<1>4. CASE DeleteGroupTask(w)
  BY <1>4 DEF DeleteGroupTask, Extends
<1> QED  BY <1>1, <1>2, <1>3, <1>4, TaskExtends DEF Operation

LEMMA MessageExtends ==
    ASSUME IInv, NEW w \in Workers, Message(w)
    PROVE  Extends
<1>1. CASE EncryptMessageTask(w)
  <2>1. mls # Absent /\ mls' = [mls EXCEPT !.sent = @ + 1]
    BY <1>1 DEF EncryptMessageTask, SnapshotIsCurrent, encrypt_message, Result
  <2>2. DOMAIN mls = {"hist", "pending", "sent"}
    BY <2>1, StoredIs, GroupIs
  <2>3. mls'.hist = mls.hist
    BY <2>1, <2>2
  <2> QED  BY <2>1, <2>3, HistoryExtends
<1>2. CASE ProcessWelcomeTask(w)
  BY <1>2, ReplacementExtends
  DEF ProcessWelcomeTask, Working, At, Replacement, ThenReturn, Return
<1> QED  BY <1>1, <1>2, TaskExtends DEF Message

\* A batch stores what it has made of the group in memory where the key pairs
\* of that group's epoch are stored: without a replacement, those of the stored
\* group.
LEMMA ApplyExtends ==
    ASSUME IInv, NEW w \in Workers, Apply(w)
    PROVE  Extends
<1> SUFFICES ASSUME "replaced" \notin races PROVE Extends
  BY DEF Extends, Apply
<1>1. PICK r \in ProcessCommit(job[w].mem, keys, job[w].pos) : mls' = r.group
  BY DEF Apply
<1>2. /\ job[w].mem.hist \in keys
      /\ \E t : Advances(job[w].mem.hist, t, own) /\ r.group = NewGroup(t)
  <2>1. job[w].pc = "apply"
    BY DEF Apply, At
  <2>2. /\ job[w].mem.hist \in keys
        /\ \E t : /\ Advances(job[w].mem.hist, t, own) /\ Begins(t, server)
                  /\ r.group = NewGroup(t)
    BY <1>1, <2>1, MemoryIs
  <2> QED  BY <2>2
<1>3. mls # Absent /\ job[w].mem.hist = mls.hist
  BY <1>2 DEF IInv, CoreInv, StoreInv
<1>4. PICK t : Advances(mls.hist, t, own) /\ mls' = NewGroup(t)
  BY <1>1, <1>2, <1>3
<1>5. mls'.hist = t
  BY <1>4, NewGroupIs DEF Advances
<1> QED  BY <1>3, <1>4, <1>5, HistoryExtends

LEMMA BatchExtends ==
    ASSUME IInv, NEW w \in Workers, ProcessAllMessages(w)
    PROVE  Extends
<1>1. CASE \/ Load(w) \/ Decide(w) \/ Reset(w) \/ SettleFails(w) \/ NoProposals(w)
           \/ Reload(w) \/ ApplyFails(w) \/ ProcessAllReturns(w)
  <2>1. mls' = mls
    BY <1>1 DEF Load, Decide, Reset, SettleFails, NoProposals, Reload, ApplyFails,
                ProcessAllReturns, KeepsAll, KeepsData
  <2> QED  BY <2>1, UnchangedExtends
<1>2. CASE Settle(w)
  <2>1. mls # Absent /\ job[w].plan \in Plans
    BY <1>2 DEF Settle, At, IInv, JobsInv, JobOK
  <2>2. CASE job[w].plan = "merge"
    <3>1. PICK r \in merge_pending_commit(mls) : mls' = r.group
      BY <1>2, <2>2 DEF Settle
    <3> QED  BY <2>1, <3>1, MergeFollows, TransactionExtends
  <2>3. CASE job[w].plan = "clear"
    <3>1. PICK r \in clear_pending_commit(mls) : mls' = r.group
      BY <1>2, <2>3 DEF Settle
    <3> QED  BY <2>1, <3>1, ClearFollows, TransactionExtends
  <2>4. CASE job[w].plan = "delete"
    BY <1>2, <2>4 DEF Settle, Result, Extends
  <2> QED  BY <2>1, <2>2, <2>3, <2>4 DEF Plans
<1>3. CASE ReadProposals(w)
  <2>1. mls # Absent /\ mls' = [mls EXCEPT !.sent = job[w].mem.sent]
    BY <1>3 DEF ReadProposals
  <2>2. DOMAIN mls = {"hist", "pending", "sent"}
    BY <2>1, StoredIs, GroupIs
  <2>3. mls'.hist = mls.hist
    BY <2>1, <2>2
  <2> QED  BY <2>1, <2>3, HistoryExtends
<1>4. CASE OpenWelcome(w)
  <2>1. /\ job[w].pc # "apply"
        /\ races' = IF mls = Absent THEN races ELSE races \cup {"replaced"}
        /\ \E j : job' = [job EXCEPT ![w] = j]
    BY <1>4 DEF OpenWelcome, AtMessage, At
  <2> QED  BY <2>1, ReplacementExtends
<1> QED  BY <1>1, <1>2, <1>3, <1>4, ApplyExtends DEF ProcessAllMessages

LEMMA NextExtends ==
    ASSUME IInv, [Next]_vars
    PROVE  Extends
<1>1. ASSUME NEW w \in Workers, Query(w) PROVE mls' = mls
  BY <1>1 DEF Query, ReadStatus, GroupEpochTask, GroupEpochsTask, GroupContextTask,
              GroupContextsTask, Answers, Resolve, KeepsAll, KeepsData
<1>2. ASSUME NEW w \in Workers, Submit(w) PROVE mls' = mls
  BY <1>2 DEF Submit, SubmitCreate, SubmitReadd, SubmitBatch, SubmitOperation, SubmitSettlement,
              SubmitMessage, SubmitQuery, Start, StartTransaction, KeepsAll, KeepsData
<1>3. ASSUME \/ \E r \in requests : ServerHandles(r)
             \/ \E adds \in BOOLEAN : PeerCommits(adds)
             \/ UNCHANGED vars
      PROVE  mls' = mls
  BY <1>3 DEF ServerHandles, PeerCommits, vars
<1> QED  BY <1>1, <1>2, <1>3, UnchangedExtends, OperationExtends, MessageExtends, BatchExtends
         DEF Next

\* Although a batch applies commits to a group it has read outside the
\* transaction that stores the result, no step takes a commit away from the
\* stored group, and none brings a deleted group back, where no Welcome and no
\* external commit has replaced one.
THEOREM CommitsExtend == Spec => CommitExtends
<1>1. IInv /\ [Next]_vars => Extends
  BY NextExtends
<1>2. IInv /\ [Next]_vars =>
        ["replaced" \notin races' =>
            /\ mls # Absent /\ mls' # Absent => IsPrefix(mls.hist, mls'.hist)
            /\ mls = Absent /\ mls' # Absent =>
                 \A w \in Workers : At(w, "apply") => job'[w] = job[w]]_vars
  BY <1>1 DEF Extends
<1> QED  BY <1>2, Inductive, PTL DEF Spec, CommitExtends

\* create_group overwrites a group only after a Welcome that arrived between its
\* check and its transaction, or after an earlier replacement, where one worker
\* has the application's calls that make groups.
THEOREM CreatesKeepGroup == ASSUME OneApplication PROVE Spec => CreateKeepsGroup
<1>1. IInv /\ [Next]_vars =>
        [\A w \in Workers :
            /\ Working(w, "create_group") /\ own' # own /\ mls # Absent
            /\ "replaced" \notin races
            => opened # job[w].seen]_vars
  BY DEF IInv, CheckedInv, Checking, Working, At
<1> QED  BY <1>1, Inductive, PTL DEF Spec, CreateKeepsGroup

-----------------------------------------------------------------------------
(* The row of a pending commit.                                            *)

\* The tasks of an external commit.
Joins == {"join_by_external_commit", "batch_join_by_external_commit"}

\* The tasks that write the row, and those of them that reset it.
Recorders ==
    OwnOperations \cup {"merge_pending_commit", "clear_pending_commit",
                        "clear_pending_proposals", "delete_group"}

\* One worker has the application's calls that write the row.
OneRecorder ==
    \A v, w \in Workers : Lane[v] \cap Recorders # {} /\ Lane[w] \cap Recorders # {} => v = w

Clean == races \cap {"cleared", "proposal", "changed"} = {}

Quiet == mls # Absent => mls.pending = NoCommit

\* The row names an operation, or a task is about to make it so.
Starting(j) == j.pc = "record" /\ j.task \in OwnOperations
Recorded == status # OpNone \/ \E w \in Workers : Starting(job[w])

Resetting(j) == j.pc = "record" /\ j.task \notin OwnOperations

\* A batch resets the row after it has settled the group.
RowJobOK(j) ==
    /\ j.pc = "record" => j.task \in Recorders
    /\ j.pc = "reset" /\ j.mem # Absent => j.mem.pending = NoCommit

RowInv ==
    /\ \A w \in Workers : RowJobOK(job[w])
    /\ Clean => Quiet \/ Recorded
    /\ Clean => Quiet \/ \A w \in Workers : ~Resetting(job[w])

LEMMA StatusAfterOwn ==
    ASSUME NEW task \in OwnOperations
    PROVE  /\ task = "create_group" => StatusAfter(task) = CreateGroup
           /\ task \in Joins => StatusAfter(task) = JoinByExternalCommit
           /\ task \notin Joins \cup {"create_group"} => StatusAfter(task) = UpdateTree
<1>1. CASE task = "create_group"
  <2>1. StatusAfter(task) = CreateGroup
    BY <1>1 DEF StatusAfter
  <2> QED  BY <1>1, <2>1 DEF Joins
<1>2. CASE task \in Joins
  <2>1. task # "create_group"
    BY <1>2 DEF Joins
  <2>2. StatusAfter(task) = JoinByExternalCommit
    BY <1>2, <2>1 DEF StatusAfter, Joins
  <2> QED  BY <1>2, <2>1, <2>2
<1>3. CASE task \notin Joins \cup {"create_group"}
  <2>1. task \in {"add_members", "remove_members", "update_leaf_node", "readd"}
    BY <1>3 DEF OwnOperations, Joins
  <2>2. StatusAfter(task) = UpdateTree
    BY <2>1 DEF StatusAfter
  <2> QED  BY <1>3, <2>2
<1> QED  BY <1>1, <1>2, <1>3

LEMMA StatusAfterIs ==
    ASSUME NEW task \in Recorders
    PROVE  StatusAfter(task) # OpNone <=> task \in OwnOperations
<1>1. CASE task \in OwnOperations
  <2>1. StatusAfter(task) \in {CreateGroup, JoinByExternalCommit, UpdateTree}
    BY <1>1, StatusAfterOwn
  <2> QED  BY <1>1, <2>1 DEF CreateGroup, JoinByExternalCommit, UpdateTree, OpNone
<1>2. CASE task \notin OwnOperations
  <2>1. /\ task # "create_group"
        /\ task \notin {"join_by_external_commit", "batch_join_by_external_commit"}
        /\ task \notin {"add_members", "remove_members", "update_leaf_node", "readd"}
    BY <1>2 DEF OwnOperations
  <2>2. StatusAfter(task) = OpNone
    BY <2>1 DEF StatusAfter
  <2> QED  BY <1>2, <2>2
<1> QED  BY <1>1, <1>2

\* A step that leaves a group without a pending commit.
LEMMA QuietRow ==
    ASSUME IInv, RowInv, NEW w \in Workers, NEW j, job' = [job EXCEPT ![w] = j], RowJobOK(j),
           Clean' => Quiet'
    PROVE  RowInv'
<1>1. \A v \in Workers : job'[v] = IF v = w THEN j ELSE job[v]
  BY DEF IInv, JobsInv
<1>2. \A v \in Workers : RowJobOK(job'[v])
  BY <1>1 DEF RowInv
<1> QED  BY <1>2 DEF RowInv

\* A step that makes no pending commit, by a task that does not write the row.
LEMMA PlainRow ==
    ASSUME IInv, RowInv, NEW w \in Workers, NEW j, job' = [job EXCEPT ![w] = j],
           job[w].pc # "record", j.pc \notin {"record", "reset"},
           Quiet => Quiet', status' = status, races \subseteq races'
    PROVE  RowInv'
<1>1. \A v \in Workers : job'[v] = IF v = w THEN j ELSE job[v]
  BY DEF IInv, JobsInv
<1>2. \A v \in Workers : RowJobOK(job'[v])
  BY <1>1 DEF RowInv, RowJobOK
<1>3. Clean' => Clean
  BY DEF Clean
<1>4. Recorded => Recorded'
  <2>1. \A v \in Workers : Starting(job[v]) => Starting(job'[v])
    BY <1>1 DEF Starting
  <2> QED  BY <2>1 DEF Recorded
<1>5. \A v \in Workers : Resetting(job'[v]) => Resetting(job[v])
  BY <1>1 DEF Resetting
<1> QED  BY <1>2, <1>3, <1>4, <1>5 DEF RowInv

\* A task that may have made a pending commit goes on to write its row, and no
\* other task is about to reset it.
LEMMA StartingRow ==
    ASSUME OneRecorder, IInv, RowInv, NEW w \in Workers, NEW j, job' = [job EXCEPT ![w] = j],
           job[w].pc = "work", job[w].task \in OwnOperations,
           j.pc = "record", j.task = job[w].task
    PROVE  RowInv'
<1>1. \A v \in Workers : job'[v] = IF v = w THEN j ELSE job[v]
  BY DEF IInv, JobsInv
<1>2. \A v \in Workers : RowJobOK(job'[v])
  BY <1>1 DEF RowInv, RowJobOK, Recorders
<1>3. Recorded'
  <2>1. Starting(job'[w])
    BY <1>1 DEF Starting
  <2> QED  BY <2>1 DEF Recorded
<1>4. ASSUME NEW v \in Workers, Resetting(job'[v]) PROVE FALSE
  <2>1. v # w /\ job[v].pc = "record" /\ job[v].task \in Recorders
    BY <1>1, <1>2, <1>4 DEF Resetting, RowJobOK
  <2>2. job[v].task \in Lane[v] /\ job[w].task \in Lane[w]
    BY <2>1 DEF IInv, JobsInv, JobOK
  <2>3. job[w].task \in Recorders
    BY DEF Recorders
  <2> QED  BY <2>1, <2>2, <2>3 DEF OneRecorder
<1> QED  BY <1>2, <1>3, <1>4 DEF RowInv

LEMMA RecordRow ==
    ASSUME IInv, RowInv, NEW w \in Workers, Record(w)
    PROVE  RowInv'
<1>1. /\ job[w].pc = "record" /\ job' = [job EXCEPT ![w] = Idle]
      /\ mls' = mls /\ races' = races
      /\ status' = IF job[w].task = "add_members" /\ status # OpNone THEN status
                   ELSE StatusAfter(job[w].task)
  BY DEF Record, At, Return, KeepsData
<1>2. RowJobOK(Idle)
  BY IdleIs DEF RowJobOK
<1>3. CASE job[w].task \in OwnOperations
  <2>1. status' # OpNone
    <3>1. job[w].task \in Recorders
      BY <1>3 DEF Recorders
    <3> QED  BY <1>1, <1>3, <3>1, StatusAfterIs
  <2>2. \A v \in Workers : job'[v] = IF v = w THEN Idle ELSE job[v]
    BY <1>1 DEF IInv, JobsInv
  <2>3. \A v \in Workers : RowJobOK(job'[v])
    BY <1>2, <2>2 DEF RowInv
  <2>4. \A v \in Workers : Resetting(job'[v]) => Resetting(job[v])
    BY <2>2, IdleIs DEF Resetting
  <2>5. Recorded' /\ (Clean' <=> Clean) /\ (Quiet' <=> Quiet)
    BY <1>1, <2>1 DEF Recorded, Clean, Quiet
  <2> QED  BY <2>3, <2>4, <2>5 DEF RowInv
<1>4. CASE job[w].task \notin OwnOperations
  <2>1. Resetting(job[w])
    BY <1>1, <1>4 DEF Resetting
  <2>2. Clean' => Quiet'
    BY <1>1, <2>1 DEF RowInv, Clean, Quiet
  <2> QED  BY <1>1, <1>2, <2>2, QuietRow
<1> QED  BY <1>3, <1>4

\* A task that goes on to the row, or returns.
LEMMA RecordJob ==
    ASSUME IInv, NEW w \in Workers, NEW join, ThenRecord(w, join)
    PROVE  \E j : job' = [job EXCEPT ![w] = j] /\ j.pc = "record" /\ j.task = job[w].task
<1> DEFINE S == Requests(mls', IF own' = own THEN NoCommit ELSE Own(own'), join)
           j == [Idle EXCEPT !.task = job[w].task, !.pc = "record", !.result = S]
<1>1. job' = [job EXCEPT ![w] = j]
  BY DEF ThenRecord
<1> HIDE DEF S
<1>2. j.pc = "record" /\ j.task = job[w].task
  BY IdleIs DEF Fields
<1> QED  BY <1>1, <1>2

LEMMA IdleRow == RowJobOK(Idle) /\ Idle.pc \notin {"record", "reset"}
BY IdleIs DEF RowJobOK

LEMMA NewGroupQuiet ==
    ASSUME NEW t
    PROVE  NewGroup(t).pending = NoCommit
BY DEF NewGroup, MlsGroup

\* The tasks that make a commit of this client's, or a group.
LEMMA OwnOperationRow ==
    ASSUME OneRecorder, IInv, RowInv, NEW w \in Workers,
           \/ CreateGroupTask(w) \/ JoinByExternalCommitTask(w) \/ BatchJoinByExternalCommitTask(w)
           \/ AddMembersTask(w) \/ RemoveMembersTask(w) \/ UpdateLeafNodeTask(w) \/ ReaddTask(w)
    PROVE  RowInv'
<1>1. job[w].pc = "work" /\ job[w].task \in OwnOperations
  BY DEF CreateGroupTask, JoinByExternalCommitTask, BatchJoinByExternalCommitTask,
         AddMembersTask, RemoveMembersTask, UpdateLeafNodeTask, ReaddTask, Working, At,
         OwnOperations
<1>2. \E j : job' = [job EXCEPT ![w] = j] /\ j.pc = "record" /\ j.task = job[w].task
  <2>1. CASE CreateGroupTask(w)
    <3> DEFINE j == [Idle EXCEPT !.task = "create_group", !.pc = "record"]
    <3>1. job' = [job EXCEPT ![w] = j] /\ job[w].task = "create_group"
      BY <2>1 DEF CreateGroupTask, Working
    <3>2. j.pc = "record" /\ j.task = "create_group"
      BY IdleIs DEF Fields
    <3> QED  BY <3>1, <3>2
  <2>2. CASE ~CreateGroupTask(w)
    <3>1. ThenRecord(w, TRUE) \/ ThenRecord(w, FALSE)
      BY <2>2 DEF JoinByExternalCommitTask, BatchJoinByExternalCommitTask, ExternalCommit,
                  AddMembersTask, RemoveMembersTask, UpdateLeafNodeTask, ReaddTask, Stages
    <3> QED  BY <3>1, RecordJob
  <2> QED  BY <2>1, <2>2
<1> QED  BY <1>1, <1>2, StartingRow

\* The tasks that settle one: what they leave has no pending commit.
LEMMA SettlementRow ==
    ASSUME IInv, RowInv, NEW w \in Workers,
           \/ MergePendingCommitTask(w) \/ ClearPendingCommitTask(w)
           \/ ClearPendingProposalsTask(w) \/ DeleteGroupTask(w)
    PROVE  RowInv'
<1>1. job[w].task \in Recorders
  BY DEF MergePendingCommitTask, ClearPendingCommitTask, ClearPendingProposalsTask,
         DeleteGroupTask, Working, Recorders
<1>2. CASE DeleteGroupTask(w)
  <2> DEFINE j == [Idle EXCEPT !.task = "delete_group", !.pc = "record"]
  <2>1. job' = [job EXCEPT ![w] = j] /\ mls' = Absent /\ job[w].task = "delete_group"
    BY <1>2 DEF DeleteGroupTask, Working
  <2>2. j.pc = "record" /\ j.task = "delete_group"
    BY IdleIs DEF Fields
  <2> HIDE DEF j
  <2>3. RowJobOK(j) /\ Quiet'
    BY <1>1, <2>1, <2>2 DEF RowJobOK, Quiet
  <2> QED  BY <2>1, <2>3, QuietRow
<1>3. CASE ~DeleteGroupTask(w)
  <2>1. /\ ThenRecord(w, FALSE)
        /\ \/ Transaction(w, merge_pending_commit(View(w)))
           \/ Transaction(w, clear_pending_commit(View(w)))
           \/ /\ Transaction(w, Unchanged(View(w)))
              /\ races' = races \cup {r \in {"cleared"} : View(w).pending # NoCommit \/ ~Settled}
    BY <1>3 DEF MergePendingCommitTask, ClearPendingCommitTask, ClearPendingProposalsTask, Ends,
                clear_pending_proposals
  <2>2. View(w) = mls
    BY <2>1 DEF Transaction, SnapshotIsCurrent
  <2>3. Clean' => Quiet'
    <3>1. CASE Transaction(w, merge_pending_commit(View(w)))
      <4>1. PICK r \in merge_pending_commit(mls) : mls' = r.group
        BY <2>2, <3>1 DEF Transaction
      <4>2. mls # Absent
        BY <4>1 DEF merge_pending_commit
      <4>3. CASE mls.pending = NoCommit
        BY <4>1, <4>2, <4>3 DEF merge_pending_commit, Result, Quiet
      <4>4. CASE mls.pending # NoCommit
        BY <4>1, <4>2, <4>4, NewGroupQuiet DEF merge_pending_commit, Result, Quiet
      <4> QED  BY <4>3, <4>4
    <3>2. CASE Transaction(w, clear_pending_commit(View(w)))
      <4>1. PICK r \in clear_pending_commit(mls) : mls' = r.group
        BY <2>2, <3>2 DEF Transaction
      <4>2. mls # Absent /\ mls' = [mls EXCEPT !.pending = NoCommit]
        BY <4>1 DEF clear_pending_commit, Result
      <4>3. DOMAIN mls = {"hist", "pending", "sent"}
        BY <4>2, StoredIs, GroupIs
      <4> QED  BY <4>2, <4>3 DEF Quiet
    <3>3. CASE /\ Transaction(w, Unchanged(View(w)))
               /\ races' = races \cup {r \in {"cleared"} :
                                        View(w).pending # NoCommit \/ ~Settled}
      <4>1. mls # Absent /\ mls' = mls
        BY <2>2, <3>3 DEF Transaction, Unchanged, Result
      <4>2. mls.pending # NoCommit => "cleared" \in races'
        BY <2>2, <3>3
      <4> QED  BY <4>1, <4>2 DEF Clean, Quiet
    <3> QED  BY <2>1, <3>1, <3>2, <3>3
  <2>4. PICK j : job' = [job EXCEPT ![w] = j] /\ j.pc = "record" /\ j.task = job[w].task
    BY <2>1, RecordJob
  <2>5. RowJobOK(j)
    BY <1>1, <2>4 DEF RowJobOK
  <2> QED  BY <2>3, <2>4, <2>5, QuietRow
<1> QED  BY <1>2, <1>3

\* A step that changes no data but the job.
LEMMA JobOnlyRow ==
    ASSUME IInv, RowInv, NEW w \in Workers, NEW j, job' = [job EXCEPT ![w] = j], KeepsAll,
           job[w].pc # "record", j.pc \notin {"record", "reset"}
    PROVE  RowInv'
<1>1. mls' = mls /\ status' = status /\ races' = races
  BY DEF KeepsAll, KeepsData
<1>2. Quiet => Quiet'
  BY <1>1 DEF Quiet
<1> QED  BY <1>1, <1>2, PlainRow

LEMMA ReturnRow ==
    ASSUME IInv, RowInv, NEW w \in Workers, Return(w), KeepsAll, job[w].pc # "record"
    PROVE  RowInv'
BY IdleRow, JobOnlyRow DEF Return

\* The steps before a transaction, and those of a query.
LEMMA BeforeRow ==
    ASSUME IInv, RowInv, NEW w \in Workers,
           \/ CheckAbsent(w) \/ Begin(w) \/ TaskFails(w) \/ ReaddChecks(w) \/ Query(w)
           \/ Submit(w)
    PROVE  RowInv'
<1>1. CASE \/ TaskFails(w) \/ Resolve(w)
           \/ CheckAbsent(w) /\ mls # Absent
           \/ ReaddChecks(w) /\ status # OpNone
  <2>1. Return(w) /\ KeepsAll /\ job[w].pc # "record"
    BY <1>1 DEF TaskFails, Resolve, CheckAbsent, ReaddChecks, At
  <2> QED  BY <2>1, ReturnRow
<1>2. ASSUME NEW j, job' = [job EXCEPT ![w] = j], KeepsAll,
             job[w].pc \in {"idle", "check", "begin", "status", "context"},
             j.pc \in {"check", "begin", "status", "work", "context", "answer", "load"}
      PROVE  RowInv'
  BY <1>2, JobOnlyRow
<1>3. DOMAIN job[w] = Fields /\ DOMAIN Idle = Fields
  BY JobIs, IdleIs
<1>4. CASE CheckAbsent(w) /\ mls = Absent
  <2> DEFINE j == [job[w] EXCEPT !.pc = "begin", !.seen = opened]
  <2>1. job' = [job EXCEPT ![w] = j] /\ KeepsAll /\ job[w].pc = "check"
    BY <1>4 DEF CheckAbsent, At
  <2>2. j.pc = "begin"
    BY <1>3 DEF Fields
  <2> QED  BY <1>2, <2>1, <2>2
<1>5. CASE Begin(w)
  <2> DEFINE j == [job[w] EXCEPT !.pc = "work", !.view = mls]
  <2>1. job' = [job EXCEPT ![w] = j] /\ KeepsAll /\ job[w].pc = "begin"
    BY <1>5 DEF Begin, At
  <2>2. j.pc = "work"
    BY <1>3 DEF Fields
  <2> QED  BY <1>2, <2>1, <2>2
<1>6. CASE ReaddChecks(w) /\ status = OpNone
  <2> DEFINE j == [job[w] EXCEPT !.pc = "begin"]
  <2>1. job' = [job EXCEPT ![w] = j] /\ KeepsAll /\ job[w].pc = "status"
    BY <1>6 DEF ReaddChecks, At, Goto
  <2>2. j.pc = "begin"
    BY <1>3 DEF Fields
  <2> QED  BY <1>2, <2>1, <2>2
<1>7. CASE ReadStatus(w)
  <2> DEFINE j == [job[w] EXCEPT !.pc = "context", !.op = status]
  <2>1. job' = [job EXCEPT ![w] = j] /\ KeepsAll /\ job[w].pc = "status"
    BY <1>7 DEF ReadStatus, At
  <2>2. j.pc = "context"
    BY <1>3 DEF Fields
  <2> QED  BY <1>2, <2>1, <2>2
<1>8. ASSUME NEW result, Answers(w, result) PROVE RowInv'
  <2> DEFINE j == [job[w] EXCEPT !.pc = "answer", !.pos = result]
  <2>1. job' = [job EXCEPT ![w] = j] /\ KeepsAll /\ job[w].pc = "context"
    BY <1>8 DEF Answers, At
  <2>2. j.pc = "answer"
    BY <1>3 DEF Fields
  <2> QED  BY <1>2, <2>1, <2>2
<1>9. ASSUME NEW task, NEW pc \in {"check", "status"}, Start(w, task, pc) PROVE RowInv'
  <2> DEFINE j == [Idle EXCEPT !.task = task, !.pc = pc]
  <2>1. job' = [job EXCEPT ![w] = j] /\ KeepsAll /\ job[w].pc = "idle"
    BY <1>9 DEF Start, At
  <2>2. j.pc = pc
    BY <1>3 DEF Fields
  <2> QED  BY <1>2, <2>1, <2>2
<1>10. ASSUME NEW task, StartTransaction(w, task) PROVE RowInv'
  <2> DEFINE j == [Idle EXCEPT !.task = task, !.pc = "work", !.view = mls]
  <2>1. job' = [job EXCEPT ![w] = j] /\ KeepsAll /\ job[w].pc = "idle"
    BY <1>10 DEF StartTransaction, At
  <2>2. j.pc = "work"
    BY <1>3 DEF Fields
  <2> QED  BY <1>2, <2>1, <2>2
<1>11. CASE SubmitBatch(w)
  <2> DEFINE j == [Idle EXCEPT !.task = "process_all_messages", !.pc = "load", !.pos = 2,
                               !.end = Len(server)]
  <2>1. job' = [job EXCEPT ![w] = j] /\ KeepsAll /\ job[w].pc = "idle"
    BY <1>11 DEF SubmitBatch, At
  <2>2. j.pc = "load"
    BY <1>3 DEF Fields
  <2> QED  BY <1>2, <2>1, <2>2
<1>12. CASE Submit(w)
  BY <1>9, <1>10, <1>11, <1>12
  DEF Submit, SubmitCreate, SubmitReadd, SubmitOperation, SubmitSettlement, SubmitMessage,
      SubmitQuery
<1>13. CASE Query(w)
  BY <1>1, <1>7, <1>8, <1>13
  DEF Query, GroupEpochTask, GroupEpochsTask, GroupContextTask, GroupContextsTask
<1> QED  BY <1>1, <1>4, <1>5, <1>6, <1>12, <1>13

\* The tasks that leave the row alone.
LEMMA MessageRow ==
    ASSUME IInv, RowInv, NEW w \in Workers, Message(w)
    PROVE  RowInv'
<1>1. job[w].pc = "work" /\ job' = [job EXCEPT ![w] = Idle] /\ races \subseteq races'
  BY DEF Message, EncryptMessageTask, ProcessOperationMessageTask, CommitToProposal,
         ProcessManyOperationMessagesTask, ProcessApplicationMessageTask,
         ProcessProposalMessageTask, LeaveGroupTask, UpdateGroupConfigTask, ProcessWelcomeTask,
         Receives, Replacement, Working, At, ThenReturn, Return
<1>2. CASE EncryptMessageTask(w)
  <2>1. mls # Absent /\ mls' = [mls EXCEPT !.sent = @ + 1] /\ status' = status
    BY <1>2 DEF EncryptMessageTask, SnapshotIsCurrent, encrypt_message, Result
  <2>2. DOMAIN mls = {"hist", "pending", "sent"}
    BY <2>1, StoredIs, GroupIs
  <2>3. mls'.pending = mls.pending
    BY <2>1, <2>2
  <2>4. Quiet => Quiet'
    BY <2>1, <2>3 DEF Quiet
  <2> QED  BY <1>1, <2>1, <2>4, IdleRow, PlainRow
<1>3. CASE CommitToProposal(w)
  <2>1. ~Clean'
    BY <1>3 DEF CommitToProposal, Clean
  <2> QED  BY <1>1, <2>1, IdleRow, QuietRow
<1>4. CASE ProcessOperationMessageTask(w) \/ ProcessManyOperationMessagesTask(w)
  <2>1. PICK r : /\ mls' = r.group
                 /\ \/ r \in process_operation_message(View(w), keys)
                    \/ r \in process_many_operation_messages(View(w), keys)
    BY <1>4 DEF ProcessOperationMessageTask, ProcessManyOperationMessagesTask, Receives,
                Transaction
  <2>2. ASSUME NEW g, NEW ks, NEW f \in process_operation_message(g, ks)
        PROVE  f.group.pending = NoCommit
    <3>1. PICK i \in DOMAIN server : f \in ProcessCommit(g, ks, i)
      BY DEF process_operation_message
    <3>2. f.group = NewGroup(Append(g.hist, server[i]))
      BY <3>1 DEF ProcessCommit, Result
    <3> QED  BY <3>2, NewGroupQuiet
  <2>3. r.group.pending = NoCommit
    <3>1. CASE r \in process_operation_message(View(w), keys)
      BY <2>2, <3>1
    <3>2. CASE r \notin process_operation_message(View(w), keys)
      <4>1. PICK f \in process_operation_message(View(w), keys) :
                   r \in process_operation_message(f.group, {f.group.hist})
        BY <2>1, <3>2 DEF process_many_operation_messages
      <4> QED  BY <2>2, <4>1
    <3> QED  BY <3>1, <3>2
  <2>4. Quiet'
    BY <2>1, <2>3 DEF Quiet
  <2> QED  BY <1>1, <2>4, IdleRow, QuietRow
<1>5. CASE \/ ProcessApplicationMessageTask(w) \/ ProcessProposalMessageTask(w)
           \/ LeaveGroupTask(w) \/ UpdateGroupConfigTask(w)
  <2>1. Transaction(w, Unchanged(View(w)))
    BY <1>5 DEF ProcessApplicationMessageTask, ProcessProposalMessageTask, LeaveGroupTask,
                UpdateGroupConfigTask, Receives, process_application_message,
                process_proposal_message, leave_group, update_group_config
  <2>2. mls' = mls /\ status' = status
    BY <2>1 DEF Transaction, SnapshotIsCurrent, Unchanged, Result
  <2>3. Quiet => Quiet'
    BY <2>2 DEF Quiet
  <2> QED  BY <1>1, <2>2, <2>3, IdleRow, PlainRow
<1>6. CASE ProcessWelcomeTask(w)
  <2>1. PICK i \in Welcomes : Replacement(w, process_welcome(i))
    BY <1>6 DEF ProcessWelcomeTask
  <2>2. mls' = NewGroup(SubSeq(server, 1, i))
    BY <2>1 DEF Replacement, process_welcome, Result
  <2>3. Quiet'
    BY <2>2, NewGroupQuiet DEF Quiet
  <2> QED  BY <1>1, <2>3, IdleRow, QuietRow
<1> QED  BY <1>2, <1>3, <1>4, <1>5, <1>6 DEF Message

\* A batch settles a group into one without a pending commit, and resets the
\* row of that group only.
LEMMA BatchRow ==
    ASSUME IInv, RowInv, NEW w \in Workers, ProcessAllMessages(w)
    PROVE  RowInv'
<1>1. DOMAIN job[w] = Fields
  BY JobIs
<1>2. ASSUME NEW j, job' = [job EXCEPT ![w] = j], KeepsAll,
             job[w].pc \in {"load", "decide", "proposals", "messages", "apply"},
             j.pc \in {"decide", "settle", "proposals", "messages", "apply"}
      PROVE  RowInv'
  BY <1>2, JobOnlyRow
<1>3. CASE SettleFails(w) \/ ProcessAllReturns(w)
  <2>1. Return(w) /\ KeepsAll /\ job[w].pc # "record"
    BY <1>3 DEF SettleFails, ProcessAllReturns, At
  <2> QED  BY <2>1, ReturnRow
<1>4. CASE Load(w)
  <2> DEFINE j == [job[w] EXCEPT !.mem = mls, !.pc = IF mls = Absent THEN "messages" ELSE "decide"]
  <2>1. job' = [job EXCEPT ![w] = j] /\ KeepsAll /\ job[w].pc = "load"
    BY <1>4 DEF Load, At
  <2>2. j.pc \in {"messages", "decide"}
    BY <1>1 DEF Fields
  <2> QED  BY <1>2, <2>1, <2>2
<1>5. CASE Decide(w)
  <2>1. PICK d \in Decisions(job[w].mem, status, job[w].end) :
               job' = [job EXCEPT ![w].plan = d,
                                  ![w].pc = IF d = "keep" THEN "proposals" ELSE "settle"]
    BY <1>5 DEF Decide
  <2> DEFINE j == [job[w] EXCEPT !.plan = d, !.pc = IF d = "keep" THEN "proposals" ELSE "settle"]
  <2>2. job' = [job EXCEPT ![w] = j] /\ KeepsAll /\ job[w].pc = "decide"
    BY <1>5, <2>1 DEF Decide, At
  <2>3. j.pc \in {"proposals", "settle"}
    BY <1>1 DEF Fields
  <2> QED  BY <1>2, <2>2, <2>3
<1>6. CASE NoProposals(w)
  <2> DEFINE j == [job[w] EXCEPT !.pc = "messages"]
  <2>1. job' = [job EXCEPT ![w] = j] /\ KeepsAll /\ job[w].pc = "proposals"
    BY <1>6 DEF NoProposals, Goto, At
  <2>2. j.pc = "messages"
    BY <1>1 DEF Fields
  <2> QED  BY <1>2, <2>1, <2>2
<1>7. CASE Reload(w)
  <2>1. CASE job[w].mem = Absent
    <3> DEFINE j == [job[w] EXCEPT !.pos = @ + 1]
    <3>1. job' = [job EXCEPT ![w] = j] /\ KeepsAll /\ job[w].pc = "messages"
      BY <1>7, <2>1 DEF Reload, AtMessage, At
    <3>2. j.pc = "messages"
      BY <1>1, <3>1 DEF Fields
    <3> QED  BY <1>2, <3>1, <3>2
  <2>2. CASE job[w].mem # Absent
    <3> DEFINE j == [job[w] EXCEPT !.pc = "apply",
                                   !.mem = IF job[w].loaded \/ mls = Absent THEN @ ELSE mls,
                                   !.loaded = @ \/ mls # Absent]
    <3>1. job' = [job EXCEPT ![w] = j] /\ KeepsAll /\ job[w].pc = "messages"
      BY <1>7, <2>2 DEF Reload, AtMessage, At
    <3>2. j.pc = "apply"
      BY <1>1 DEF Fields
    <3> QED  BY <1>2, <3>1, <3>2
  <2> QED  BY <2>1, <2>2
<1>8. CASE ApplyFails(w)
  <2> DEFINE skipped == [job[w] EXCEPT !.pc = "messages", !.pos = @ + 1]
  <2>1. PICK j : /\ job' = [job EXCEPT ![w] = j]
                 /\ \/ j = skipped
                    \/ \E r \in ProcessCommit(job[w].mem, keys, job[w].pos) :
                          j = [skipped EXCEPT !.mem = r.group]
                    \/ j = [skipped EXCEPT !.pos = job[w].end + 1]
    BY <1>8 DEF ApplyFails
  <2>2. job[w].pc = "apply" /\ KeepsAll
    BY <1>8 DEF ApplyFails, At
  <2>3. j.pc = "messages"
    BY <1>1, <2>1 DEF Fields
  <2> QED  BY <1>2, <2>1, <2>2, <2>3
<1>9. CASE Settle(w)
  <2>1. mls # Absent /\ job[w].plan \in Plans
    BY <1>9 DEF Settle, At, IInv, JobsInv, JobOK
  <2>2. PICK r :
          /\ \/ r \in merge_pending_commit(mls)
             \/ r \in clear_pending_commit(mls)
             \/ r \in Result(Absent, NoCommit)
          /\ mls' = r.group
          /\ job' = [job EXCEPT ![w].mem = r.group, ![w].pc = "reset"]
    <3>1. CASE job[w].plan = "merge"
      BY <1>9, <3>1 DEF Settle
    <3>2. CASE job[w].plan = "clear"
      BY <1>9, <3>2 DEF Settle
    <3>3. CASE job[w].plan = "delete"
      BY <1>9, <3>3 DEF Settle
    <3> QED  BY <2>1, <3>1, <3>2, <3>3 DEF Plans
  <2>3. r.group = Absent \/ r.group.pending = NoCommit
    <3>1. CASE r \in merge_pending_commit(mls)
      <4>1. CASE mls.pending = NoCommit
        BY <2>1, <3>1, <4>1 DEF merge_pending_commit, Result
      <4>2. CASE mls.pending # NoCommit
        BY <2>1, <3>1, <4>2, NewGroupQuiet DEF merge_pending_commit, Result
      <4> QED  BY <4>1, <4>2
    <3>2. CASE r \in clear_pending_commit(mls)
      <4>1. r.group = [mls EXCEPT !.pending = NoCommit]
        BY <2>1, <3>2 DEF clear_pending_commit, Result
      <4>2. DOMAIN mls = {"hist", "pending", "sent"}
        BY <2>1, StoredIs, GroupIs
      <4> QED  BY <4>1, <4>2
    <3>3. CASE r \in Result(Absent, NoCommit)
      BY <3>3 DEF Result
    <3> QED  BY <2>2, <3>1, <3>2, <3>3
  <2> DEFINE j == [job[w] EXCEPT !.mem = r.group, !.pc = "reset"]
  <2>4. job' = [job EXCEPT ![w] = j]
    BY <2>2
  <2>5. j.pc = "reset" /\ j.mem = r.group
    BY <1>1 DEF Fields
  <2> HIDE DEF j
  <2>6. RowJobOK(j) /\ Quiet'
    BY <2>2, <2>3, <2>5 DEF RowJobOK, Quiet
  <2> QED  BY <2>4, <2>6, QuietRow
<1>10. CASE Reset(w)
  <2> DEFINE j == [job[w] EXCEPT !.pc = "proposals"]
  <2>1. /\ job[w].pc = "reset" /\ job' = [job EXCEPT ![w] = j] /\ mls' = mls
        /\ races' = races \cup {r \in {"changed"} : ~SameState(mls, job[w].mem)}
    BY <1>10 DEF Reset, At, Goto, KeepsData
  <2>2. j.pc = "proposals"
    BY <1>1 DEF Fields
  <2> HIDE DEF j
  <2>3. job[w].mem # Absent => job[w].mem.pending = NoCommit
    BY <2>1 DEF RowInv, RowJobOK
  <2>4. Clean' => SameState(mls, job[w].mem)
    BY <2>1 DEF Clean
  <2>5. Clean' => Quiet'
    BY <2>1, <2>3, <2>4 DEF SameState, Quiet
  <2>6. RowJobOK(j)
    BY <2>2 DEF RowJobOK
  <2> QED  BY <2>1, <2>5, <2>6, QuietRow
<1>11. CASE ReadProposals(w)
  <2> DEFINE j == [job[w] EXCEPT !.pc = "messages"]
  <2>1. /\ job[w].pc = "proposals" /\ job' = [job EXCEPT ![w] = j] /\ status' = status
        /\ mls # Absent /\ mls' = [mls EXCEPT !.sent = job[w].mem.sent]
        /\ races \subseteq races'
    BY <1>11 DEF ReadProposals, At, Goto
  <2>2. j.pc = "messages"
    BY <1>1 DEF Fields
  <2> HIDE DEF j
  <2>3. DOMAIN mls = {"hist", "pending", "sent"}
    BY <2>1, StoredIs, GroupIs
  <2>4. mls'.pending = mls.pending
    BY <2>1, <2>3
  <2>5. Quiet => Quiet'
    BY <2>1, <2>4 DEF Quiet
  <2> QED  BY <2>1, <2>2, <2>5, PlainRow
<1>12. CASE OpenWelcome(w) \/ Apply(w)
  <2>1. PICK r : /\ mls' = r.group
                 /\ \/ /\ r \in process_welcome(job[w].pos)
                       /\ job' = [job EXCEPT ![w].mem = r.group, ![w].pos = @ + 1]
                    \/ /\ r \in ProcessCommit(job[w].mem, keys, job[w].pos)
                       /\ job' = [job EXCEPT ![w].mem = r.group, ![w].pos = @ + 1,
                                             ![w].pc = "messages"]
    BY <1>12 DEF OpenWelcome, Apply
  <2>2. r.group.pending = NoCommit
    BY <2>1, NewGroupQuiet DEF process_welcome, ProcessCommit, Result
  <2>3. job[w].pc \in {"messages", "apply"}
    BY <1>12 DEF OpenWelcome, Apply, AtMessage, At
  <2>4. PICK j : /\ job' = [job EXCEPT ![w] = j]
                 /\ \/ j = [job[w] EXCEPT !.mem = r.group, !.pos = @ + 1]
                    \/ j = [job[w] EXCEPT !.mem = r.group, !.pos = @ + 1, !.pc = "messages"]
    <3>1. CASE job' = [job EXCEPT ![w].mem = r.group, ![w].pos = @ + 1]
      BY <3>1
    <3>2. CASE job' = [job EXCEPT ![w].mem = r.group, ![w].pos = @ + 1, ![w].pc = "messages"]
      BY <3>2
    <3> QED  BY <2>1, <3>1, <3>2
  <2>5. j.pc \in {"messages", "apply"}
    BY <1>1, <2>3, <2>4 DEF Fields
  <2>6. RowJobOK(j) /\ Quiet'
    BY <2>1, <2>2, <2>5 DEF RowJobOK, Quiet
  <2> QED  BY <2>4, <2>6, QuietRow
<1> QED
  BY <1>3, <1>4, <1>5, <1>6, <1>7, <1>8, <1>9, <1>10, <1>11, <1>12 DEF ProcessAllMessages

LEMMA InitRow == Init => RowInv
<1> SUFFICES ASSUME Init PROVE RowInv
  OBVIOUS
<1>1. mls = Absent /\ \A w \in Workers : job[w] = Idle
  BY DEF Init
<1>2. \A w \in Workers : RowJobOK(job[w])
  BY <1>1, IdleRow
<1> QED  BY <1>1, <1>2 DEF RowInv, Quiet

LEMMA NextRow ==
    ASSUME OneRecorder, IInv, RowInv, [Next]_vars
    PROVE  RowInv'
<1>1. CASE \/ UNCHANGED vars \/ \E r \in requests : ServerHandles(r)
           \/ \E adds \in BOOLEAN : PeerCommits(adds)
  <2>1. UNCHANGED <<mls, job, status, races>>
    BY <1>1 DEF vars, ServerHandles, PeerCommits
  <2> QED  BY <2>1 DEF RowInv, Clean, Quiet, Recorded
<1>2. ASSUME NEW w \in Workers, Operation(w) PROVE RowInv'
  BY <1>2, BeforeRow, RecordRow, OwnOperationRow, SettlementRow DEF Operation
<1>3. ASSUME NEW w \in Workers, Message(w) \/ Query(w) \/ ProcessAllMessages(w) \/ Submit(w)
      PROVE  RowInv'
  BY <1>3, MessageRow, BeforeRow, BatchRow
<1> QED  BY <1>1, <1>2, <1>3 DEF Next

\* A commit that waits for the server's answer has its row, or the task that
\* made it is about to write it, where one worker has the application's calls
\* that write rows: in spite of the batches and received messages that other
\* workers process meanwhile.
THEOREM PendingsAreRecorded == ASSUME OneRecorder PROVE Spec => []PendingIsRecorded
<1>1. Init => RowInv
  BY InitRow
<1>2. IInv /\ RowInv /\ [Next]_vars => RowInv'
  BY NextRow
<1>3. RowInv => PendingIsRecorded
  <2> SUFFICES ASSUME RowInv, mls # Absent, Clean, mls.pending # NoCommit, status = OpNone
               PROVE  \E w \in Workers : At(w, "record") /\ StatusAfter(job[w].task) # OpNone
    BY DEF PendingIsRecorded, Clean
  <2>1. PICK w \in Workers : Starting(job[w])
    BY DEF RowInv, Quiet, Recorded
  <2>2. job[w].task \in Recorders /\ job[w].task \in OwnOperations
    BY <2>1 DEF Starting, Recorders
  <2> QED  BY <2>1, <2>2, StatusAfterIs DEF Starting, At
<1> QED  BY <1>1, <1>2, <1>3, Inductive, PTL DEF Spec

-----------------------------------------------------------------------------
(* What the server has accepted.  The inductive invariant relates the      *)
(* stored group, the commits on their way, and the server's sequence.      *)

\* Nothing has happened after which the properties on the server's answers say
\* nothing.
Undisturbed == races \cap {"changed", "inflight", "proposal", "cleared"} = {}

\* Commits that are on their way to the server, and those not settled.
Sents == requests \cup UNION {job[w].result : w \in Workers}
Items == Sents \cup answers
AllJoins == \A x \in Items : x.kind = "join"

InServer(c) == \E k \in 2 .. Len(server) : server[k] = c
OwnAt(k) == k \in 2 .. Len(server) /\ server[k].by = "self"

\* An epoch that the stored group has left, or is in.
Past(u) == EpochOK(u, opened, own) /\ \A h \in keys : LeftOnce(h, u)
BaseOK(b) == Member(b) => Past(b)

\* A sequence begins with a creation and a commit, of the same member.
FirstInv ==
    server # <<>> =>
        /\ Len(server) >= 2 /\ ~server[1].adds
        /\ server[1].by = "self" <=> server[2].by = "self"

\* A commit on its way was made for an epoch the stored group has been in, and
\* is pending exactly while that group is in it.
SentInv ==
    \A r \in Sents :
        /\ Len(r.base) >= 1
        /\ r.kind = "create" => Len(r.base) = 1 /\ r.base[1].by = "self" /\ ~r.base[1].adds
        /\ BaseOK(r.base) /\ ~InServer(r.commit)
        /\ mls # Absent => (mls.hist = r.base <=> mls.pending = r.commit)

\* So is one that the server has accepted.
AcceptedInv ==
    \A b \in Seq(Commits) :
        Len(b) >= 1 /\ Begins(b, server) /\ OwnAt(Len(b) + 1) =>
            /\ BaseOK(b)
            /\ mls # Absent /\ mls.hist = b => mls.pending = server[Len(b) + 1]

\* A pending commit is on its way, or answered; the server has it only where
\* it has the epoch it was made for.
PendingInv ==
    mls # Absent /\ mls.pending # NoCommit =>
        /\ \E x \in Items : x.commit = mls.pending /\ x.kind # "join"
        /\ \A k \in 2 .. Len(server) :
              server[k] = mls.pending => Begins(mls.hist, server) /\ Len(mls.hist) = k - 1

\* The stored group is one that the server has had; or one this client has
\* created, which the server does not have yet or of which it has another; or
\* one with an external commit that the server has not accepted.
Single(h) == Len(h) = 1 /\ h[1].by = "self" /\ ~h[1].adds
Again(h, s) ==
    /\ s # <<>> /\ h[1] # s[1]
    /\ h[1].by = "self" /\ ~h[1].adds /\ s[1].by = "self"
Open(h, s) ==
    /\ Len(h) >= 2 /\ h[Len(h)].by = "self"
    /\ \A i \in 1 .. Len(h) - 1 : i <= Len(s) /\ h[i] = s[i]
    /\ \A k \in 1 .. Len(s) : s[k].by # "self"
HistOK(h, s) == Begins(h, s) \/ Single(h) \/ Again(h, s) \/ Open(h, s)
HistInv == mls # Absent => HistOK(mls.hist, server)

Limbo == mls # Absent /\ Open(mls.hist, server)
\* While an external commit is open it is the only commit there is.
LimboInv ==
    Limbo => /\ mls.pending = NoCommit /\ Items # {} /\ AllJoins
             /\ \A r \in Sents : mls.hist = Append(r.base, r.commit)

DataInv ==
    FirstInv /\ SentInv /\ AcceptedInv /\ PendingInv /\ HistInv /\ LimboInv

\* There is one commit at a time, and its answer says what the server did.
FlightInv ==
    /\ \A x, y \in Sents : x = y
    /\ \A x, y \in answers : x = y
    /\ Sents = {} \/ answers = {}
    /\ \A a \in answers : a.commit.by = "self" /\ (a.ok <=> InServer(a.commit))

\* A task's result is the commit it will return, of its kind.
ResultOK(j) ==
    /\ j.result # {} => requests = {} /\ j.pc = "record" /\ j.task \in OwnOperations
    /\ j.pc = "record" /\ j.task \in OwnOperations \ {"create_group"} => j.result # {}
    /\ \A r \in j.result : r.kind = "join" <=> j.task \in Joins

\* What the application has seen before it called holds until the call ends.
AppOK(j) ==
    /\ j.task \in OwnOperations /\ j.pc \notin {"idle", "record"} => requests = {} /\ answers = {}
    /\ j.pc \in {"check", "begin", "work"} /\ j.task = "merge_pending_commit" =>
          \E a \in answers : a.ok
    /\ j.pc \in {"check", "begin", "work"} /\ j.task = "clear_pending_commit" =>
          \E a \in answers : ~a.ok /\ a.kind = "update"

Joining(j) == j.pc = "record" /\ j.task \in Joins

\* An open external commit has its row, or its task is about to write it.
LimboRowInv ==
    Limbo => /\ \A w \in Workers : job[w].pc = "record" => job[w].task \in Joins
             /\ status = JoinByExternalCommit \/ \E w \in Workers : Joining(job[w])

\* Short of a reset that is on its way, the row is of the commit there is.
StatusInv ==
    (\E w \in Workers : Resetting(job[w])) \/
        /\ status = JoinByExternalCommit => Items # {} /\ AllJoins
        /\ status = UpdateTree => Items # {} /\ \A x \in Items : x.kind # "join"

\* The group is not the stored one, where that has an open external commit.
Elsewhere(g) == g # Absent /\ Limbo => g.hist # mls.hist

\* A batch merges only where the server goes on with an own commit, or where
\* the group in memory has the last one, and no commit is pending.
MergeOK(g) ==
    \/ Len(g.hist) = 1 /\ g.hist[1] = server[1]
    \/ OwnAt(Len(g.hist) + 1)
    \/ /\ OwnAt(Len(g.hist))
       /\ mls # Absent /\ g.pending # NoCommit => mls.pending # g.pending

\* What a batch has in memory, and what it has decided to do with it.
BatchOK(j) ==
    /\ j.mem # Absent =>
          Known(j.mem.hist, own) /\ (j.mem.pending = NoCommit \/ OwnOK(j.mem.pending, own))
    /\ j.pc \in {"status", "context"} => j.pos = 0
    /\ j.pc \in {"load", "decide", "settle"} => server # <<>>
    /\ j.pc \in {"decide", "settle"} => j.mem # Absent
    /\ j.pc = "settle" /\ j.plan = "merge" => MergeOK(j.mem)
    /\ j.pc = "settle" /\ j.plan = "clear" =>
          /\ Elsewhere(j.mem)
          /\ ~(Len(j.mem.hist) + 1 <= j.end /\ OwnAt(Len(j.mem.hist) + 1))
    /\ j.pc = "reset" => Elsewhere(j.mem)

FlowInv ==
    /\ FlightInv /\ LimboRowInv /\ StatusInv
    /\ \A w \in Workers : ResultOK(job[w]) /\ AppOK(job[w]) /\ BatchOK(job[w])

\* The inductive invariant.
AnswersInv == Undisturbed => DataInv /\ FlowInv

\* A commit on its way is with the network, or in the result of a task.
LEMMA SentsAre ==
    ASSUME NEW r
    PROVE  r \in Sents <=> r \in requests \/ \E w \in Workers : r \in job[w].result
BY DEF Sents

LEMMA SentIs ==
    ASSUME IInv, NEW r \in Sents
    PROVE  /\ r.base \in Seq(Commits) /\ Known(r.base, own) /\ r.commit \in Commits
           /\ r.commit # NoCommit /\ r.commit.by = "self" /\ r.commit.n <= own
           /\ ~r.commit.adds
<1>1. RequestOK(r, own)
  BY SentsAre DEF IInv, NetworkInv, JobsInv, JobOK
<1> QED  BY <1>1, Kinds DEF RequestOK, OwnOK

LEMMA ServerIs ==
    ASSUME IInv
    PROVE  /\ server \in Seq(Commits) /\ Len(server) \in Nat /\ Known(server, own) /\ own \in Nat
           /\ \A i \in 1 .. Len(server) : server[i] \in Commits
BY DEF IInv, NetworkInv, CoreInv, StoreInv

\* An epoch that has been entered stays so.
LEMMA PastKept ==
    ASSUME NEW u, Past(u), keys' \subseteq keys, opened \subseteq opened',
           own \in Nat, own' \in Nat, own <= own'
    PROVE  Past(u)'
<1>1. EpochOK(u, opened', own')
  BY EpochStays DEF Past
<1> QED  BY <1>1 DEF Past

LEMMA PastStays ==
    ASSUME NEW u, Past(u), NEW t, LeftOnce(t, u), keys' \subseteq keys \cup {t},
           opened \subseteq opened', own \in Nat, own' \in Nat, own <= own'
    PROVE  Past(u)'
<1>1. EpochOK(u, opened', own')
  BY EpochStays DEF Past
<1>2. \A h \in keys' : LeftOnce(h, u)
  BY DEF Past
<1> QED  BY <1>1, <1>2 DEF Past

\* No step enters an epoch again: the stored group goes on to the next one ..
LEMMA PastAdvance ==
    ASSUME IInv, NEW h \in keys, NEW t, Advances(h, t, own), keys' \subseteq keys \cup {t},
           UNCHANGED <<opened, own>>
    PROVE  Member(t) /\ \A u : Past(u) => u # t /\ Past(u)'
<1>1. h \in Seq(Commits) /\ own \in Nat /\ EpochOK(h, opened, own)
  BY DEF IInv, CoreInv, StoreInv, EpochOK
<1>2. EpochOK(t, opened, own)
  BY <1>1, AdvanceIsEpoch
<1>3. ASSUME NEW u, Past(u) PROVE u # t /\ Past(u)'
  <2>1. u \in Seq(Commits) /\ LeftOnce(h, u)
    BY <1>3 DEF Past, EpochOK
  <2>2. u # t /\ LeftOnce(t, u)
    BY <1>1, <2>1, AdvanceIsNew
  <2> QED  BY <1>1, <1>3, <2>2, PastStays
<1> QED  BY <1>2, <1>3 DEF EpochOK

\* .. or a new one is stored.
LEMMA PastNew ==
    ASSUME IInv, NEW t, \A u : EpochOK(u, opened, own) => u # t /\ LeftOnce(t, u),
           keys' \subseteq keys \cup {t}, opened \subseteq opened', own' \in Nat, own <= own'
    PROVE  \A u : Past(u) => u # t /\ Past(u)'
<1>1. own \in Nat
  BY DEF IInv, CoreInv, StoreInv
<1> SUFFICES ASSUME NEW u, Past(u) PROVE u # t /\ Past(u)'
  OBVIOUS
<1>2. u # t /\ LeftOnce(t, u)
  BY DEF Past
<1> QED  BY <1>1, <1>2, PastStays

\* A group that the server has had has no open external commit.
LEMMA BeginsNotOpen ==
    ASSUME NEW h \in Seq(Commits), NEW s \in Seq(Commits), Begins(h, s)
    PROVE  ~Open(h, s)
<1> SUFFICES ASSUME Open(h, s) PROVE FALSE
  OBVIOUS
<1>1. Len(h) \in Nat /\ Len(s) \in Nat /\ Len(h) >= 2 /\ Len(h) <= Len(s)
  BY DEF Begins, Open
<1>2. Len(h) \in 1 .. Len(h) /\ Len(h) \in 1 .. Len(s)
  BY <1>1
<1>3. h[Len(h)] = s[Len(h)] /\ h[Len(h)].by = "self" /\ s[Len(h)].by # "self"
  BY <1>2 DEF Begins, Open
<1> QED  BY <1>3

LEMMA StoredLength ==
    ASSUME IInv, mls # Absent
    PROVE  /\ mls.hist \in Seq(Commits) /\ Len(mls.hist) \in Nat /\ Len(mls.hist) >= 1
           /\ Member(mls.hist)
<1>1. mls.hist \in Seq(Commits) /\ Member(mls.hist) /\ Len(mls.hist) \in Nat
  BY StoredIs DEF EpochOK
<1> QED  BY <1>1 DEF Member
-----------------------------------------------------------------------------
(* The stored group and the commits, by what a step does to the group.     *)

Same ==
    /\ mls' = Absent <=> mls = Absent
    /\ mls # Absent => mls'.hist = mls.hist /\ mls'.pending = mls.pending

LEMMA SameData ==
    ASSUME DataInv, Same, Sents' = Sents, UNCHANGED <<server, keys, opened, own, answers>>
    PROVE  DataInv'
<1>1. \A b : BaseOK(b) => BaseOK(b)'
  BY DEF BaseOK, Past
<1>2. \A c : InServer(c)' <=> InServer(c)
  BY DEF InServer
<1>3. FirstInv'
  BY DEF DataInv, FirstInv
<1>4. SentInv'
  BY <1>1, <1>2 DEF DataInv, SentInv, Same
<1>5. AcceptedInv'
  <2> SUFFICES ASSUME NEW b \in Seq(Commits), Len(b) >= 1, Begins(b, server), OwnAt(Len(b) + 1)
               PROVE  BaseOK(b)'
                      /\ (mls' # Absent /\ mls'.hist = b => mls'.pending = server[Len(b) + 1])
    BY DEF AcceptedInv, OwnAt
  <2>1. BaseOK(b) /\ (mls # Absent /\ mls.hist = b => mls.pending = server[Len(b) + 1])
    BY DEF DataInv, AcceptedInv
  <2> QED  BY <1>1, <2>1 DEF Same
<1>6. PendingInv'
  BY DEF DataInv, PendingInv, Same, Items
<1>7. HistInv'
  BY DEF DataInv, HistInv, Same
<1>8. LimboInv'
  <2>1. Limbo' => Limbo
    BY DEF Limbo, Same
  <2>2. Items' = Items
    BY DEF Items
  <2> QED  BY <2>1, <2>2 DEF DataInv, LimboInv, Limbo, Same, AllJoins
<1> QED  BY <1>3, <1>4, <1>5, <1>6, <1>7, <1>8 DEF DataInv

\* The group goes on to an epoch not entered before.
LEMMA GainData ==
    ASSUME IInv, DataInv, NEW t, Member(t), HistOK(t, server), ~Open(t, server),
           mls' # Absent, mls'.hist = t, mls'.pending = NoCommit,
           \A u : Past(u) => u # t /\ Past(u)', Sents' = Sents, server' = server
    PROVE  DataInv'
<1>1. \A b : BaseOK(b) => BaseOK(b)' /\ b # t
  BY DEF BaseOK
<1>2. \A c : InServer(c)' <=> InServer(c)
  BY DEF InServer
<1>3. FirstInv'
  BY DEF DataInv, FirstInv
<1>4. SentInv'
  <2> SUFFICES ASSUME NEW r \in Sents
               PROVE  /\ Len(r.base) >= 1
                      /\ r.kind = "create" =>
                            Len(r.base) = 1 /\ r.base[1].by = "self" /\ ~r.base[1].adds
                      /\ BaseOK(r.base)' /\ ~InServer(r.commit)'
                      /\ mls'.hist = r.base <=> mls'.pending = r.commit
    BY DEF SentInv
  <2>1. r.commit # NoCommit
    BY SentIs
  <2>2. BaseOK(r.base) /\ ~InServer(r.commit)
    BY DEF DataInv, SentInv
  <2>3. BaseOK(r.base)' /\ r.base # t
    BY <1>1, <2>2
  <2> QED  BY <1>2, <2>1, <2>2, <2>3 DEF DataInv, SentInv
<1>5. AcceptedInv'
  <2> SUFFICES ASSUME NEW b \in Seq(Commits), Len(b) >= 1, Begins(b, server), OwnAt(Len(b) + 1)
               PROVE  BaseOK(b)' /\ mls'.hist # b
    BY DEF AcceptedInv, OwnAt
  <2>1. BaseOK(b)
    BY DEF DataInv, AcceptedInv
  <2> QED  BY <1>1, <2>1
<1>6. PendingInv' /\ HistInv'
  BY DEF PendingInv, HistInv
<1>7. LimboInv'
  BY DEF LimboInv, Limbo
<1> QED  BY <1>3, <1>4, <1>5, <1>6, <1>7 DEF DataInv

\* A pending commit that the server will not accept is dropped.
LEMMA DropData ==
    ASSUME IInv, DataInv, mls # Absent, mls' # Absent, mls'.hist = mls.hist,
           mls'.pending = NoCommit, Sents' = Sents, UNCHANGED <<server, keys, opened, own>>,
           \A r \in Sents : mls.pending # r.commit, ~InServer(mls.pending),
           answers' = answers \/ ~Limbo
    PROVE  DataInv'
<1>1. \A b : BaseOK(b) => BaseOK(b)'
  BY DEF BaseOK, Past
<1>2. \A c : InServer(c)' <=> InServer(c)
  BY DEF InServer
<1>3. FirstInv'
  BY DEF DataInv, FirstInv
<1>4. SentInv'
  <2> SUFFICES ASSUME NEW r \in Sents
               PROVE  /\ Len(r.base) >= 1
                      /\ r.kind = "create" =>
                            Len(r.base) = 1 /\ r.base[1].by = "self" /\ ~r.base[1].adds
                      /\ BaseOK(r.base)' /\ ~InServer(r.commit)'
                      /\ mls'.hist = r.base <=> mls'.pending = r.commit
    BY DEF SentInv
  <2>1. r.commit # NoCommit
    BY SentIs
  <2>2. BaseOK(r.base) /\ ~InServer(r.commit) /\ mls.hist # r.base
    BY DEF DataInv, SentInv
  <2> QED  BY <1>1, <1>2, <2>1, <2>2 DEF DataInv, SentInv
<1>5. AcceptedInv'
  <2> SUFFICES ASSUME NEW b \in Seq(Commits), Len(b) >= 1, Begins(b, server), OwnAt(Len(b) + 1)
               PROVE  BaseOK(b)' /\ mls'.hist # b
    BY DEF AcceptedInv, OwnAt
  <2>1. BaseOK(b) /\ (mls.hist = b => mls.pending = server[Len(b) + 1])
    BY DEF DataInv, AcceptedInv
  <2>2. InServer(server[Len(b) + 1])
    BY DEF InServer, OwnAt
  <2> QED  BY <1>1, <2>1, <2>2
<1>6. PendingInv' /\ HistInv'
  BY DEF PendingInv, DataInv, HistInv
<1>7. LimboInv'
  <2> SUFFICES ASSUME Limbo' PROVE LimboInv'
    BY DEF LimboInv
  <2>1. Limbo /\ Items' = Items
    BY DEF Limbo, Items
  <2> QED  BY <2>1 DEF DataInv, LimboInv, AllJoins
<1> QED  BY <1>3, <1>4, <1>5, <1>6, <1>7 DEF DataInv

LEMMA GoneData ==
    ASSUME IInv, DataInv, mls' = Absent, keys' \subseteq keys, Sents' = Sents,
           UNCHANGED <<server, opened, own>>
    PROVE  DataInv'
<1>1. \A b : BaseOK(b) => BaseOK(b)'
  BY DEF BaseOK, Past
<1>2. \A c : InServer(c)' <=> InServer(c)
  BY DEF InServer
<1>3. FirstInv'
  BY DEF DataInv, FirstInv
<1>4. SentInv'
  BY <1>1, <1>2 DEF DataInv, SentInv
<1>5. AcceptedInv'
  <2> SUFFICES ASSUME NEW b \in Seq(Commits), Len(b) >= 1, Begins(b, server), OwnAt(Len(b) + 1)
               PROVE  BaseOK(b)'
    BY DEF AcceptedInv, OwnAt
  <2>1. BaseOK(b)
    BY DEF DataInv, AcceptedInv
  <2> QED  BY <1>1, <2>1
<1>6. PendingInv' /\ HistInv' /\ LimboInv'
  BY DEF PendingInv, HistInv, LimboInv, Limbo
<1> QED  BY <1>3, <1>4, <1>5, <1>6 DEF DataInv

LEMMA NotStored ==
    ASSUME IInv, NEW n \in Nat, n > own
    PROVE  ~InServer(Own(n))
<1> SUFFICES ASSUME NEW k \in 2 .. Len(server), server[k] = Own(n) PROVE FALSE
  BY DEF InServer
<1>1. k \in 1 .. Len(server) /\ Own(n).by = "self" /\ Own(n).n = n /\ own \in Nat
  BY ServerIs, OwnIs DEF OwnOK
<1> QED  BY <1>1, ServerIs DEF Known

\* The stored group makes a commit, once there is nothing to settle.
LEMMA StageData ==
    ASSUME IInv, DataInv, Items = {}, mls # Absent, mls.pending = NoCommit,
           mls' # Absent, mls'.hist = mls.hist, mls'.pending = Own(own + 1), own' = own + 1,
           NEW r0, r0.base = mls.hist, r0.commit = Own(own + 1), r0.kind # "join",
           r0.kind = "create" => Len(mls.hist) = 1,
           Sents' = {r0}, UNCHANGED <<server, keys, opened, answers>>
    PROVE  DataInv' /\ ~Limbo'
<1>1. /\ own \in Nat /\ own' \in Nat /\ own <= own' /\ own + 1 \in Nat /\ own + 1 > own
      /\ mls.hist \in Seq(Commits) /\ mls.hist \in keys
  BY ServerIs, StoredIs
<1>2. ~InServer(Own(own + 1)) /\ Own(own + 1).by = "self" /\ Own(own + 1) # NoCommit
  BY <1>1, NotStored, OwnIs DEF OwnOK
<1>3. \A k \in 2 .. Len(server') : server'[k] # Own(own + 1)
  BY <1>2 DEF InServer
<1>4. ~Limbo /\ ~Limbo'
  BY DEF DataInv, LimboInv, Limbo
<1>5. \A u : Past(u) => Past(u)'
  BY <1>1, PastKept
<1>6. FirstInv' /\ HistInv' /\ LimboInv'
  BY <1>4 DEF DataInv, FirstInv, HistInv, LimboInv
<1>7. SentInv'
  <2>1. BaseOK(mls.hist)'
    <3>1. EpochOK(mls.hist, opened, own) /\ \A h \in keys : LeftOnce(h, mls.hist)
      BY <1>1, StoredIs DEF IInv, CoreInv, EpochsInv
    <3>2. Past(mls.hist)
      BY <3>1 DEF Past
    <3>3. Past(mls.hist)'
      BY <1>1, <3>2, PastKept
    <3> QED  BY <3>3 DEF BaseOK, Past
  <2>2. r0.kind = "create" => mls.hist[1].by = "self" /\ ~mls.hist[1].adds
    <3> SUFFICES ASSUME r0.kind = "create" PROVE mls.hist[1].by = "self" /\ ~mls.hist[1].adds
      OBVIOUS
    <3>1. Len(mls.hist) = 1 /\ (mls.hist[1].by = "self" \/ mls.hist[1].adds)
      BY StoredLength DEF Member
    <3>2. HistOK(mls.hist, server)
      BY DEF DataInv, HistInv
    <3>3. CASE Begins(mls.hist, server)
      <4>1. 1 \in 1 .. Len(mls.hist) /\ Len(server) \in Nat /\ Len(mls.hist) = 1
        BY <3>1, ServerIs
      <4>2. mls.hist[1] = server[1] /\ server # <<>>
        BY <3>3, <4>1 DEF Begins
      <4> QED  BY <3>1, <4>2 DEF DataInv, FirstInv
    <3>4. CASE Single(mls.hist) \/ Again(mls.hist, server)
      BY <3>4 DEF Single, Again
    <3>5. CASE Open(mls.hist, server)
      BY <3>5 DEF Open
    <3> QED  BY <3>2, <3>3, <3>4, <3>5 DEF HistOK
  <2>3. Len(mls.hist) >= 1
    BY StoredLength
  <2> QED  BY <1>3, <2>1, <2>2, <2>3 DEF SentInv, InServer
<1>8. AcceptedInv'
  <2> SUFFICES ASSUME NEW b \in Seq(Commits), Len(b) >= 1, Begins(b, server), OwnAt(Len(b) + 1)
               PROVE  BaseOK(b)' /\ mls'.hist # b
    BY DEF AcceptedInv, OwnAt
  <2>1. BaseOK(b) /\ (mls.hist = b => mls.pending = server[Len(b) + 1])
    BY DEF DataInv, AcceptedInv
  <2>2. server[Len(b) + 1] # NoCommit
    BY Kinds, ServerIs DEF OwnAt, NoCommit
  <2> QED  BY <1>5, <2>1, <2>2 DEF BaseOK
<1>9. PendingInv'
  BY <1>3 DEF PendingInv, Items, InServer
<1> QED  BY <1>4, <1>6, <1>7, <1>8, <1>9 DEF DataInv

\* An external commit, on the server's group.
LEMMA JoinData ==
    ASSUME IInv, DataInv, Items = {}, server # <<>>, ~SelfIsMember,
           NEW t, t = Append(server, Own(own + 1)), own' = own + 1,
           mls' # Absent, mls'.hist = t, mls'.pending = NoCommit,
           NEW r0, r0.base = server, r0.commit = Own(own + 1), r0.kind = "join",
           Sents' = {r0}, UNCHANGED <<server, answers>>
    PROVE  DataInv'
<1>1. /\ own + 1 \in Nat /\ own + 1 > own /\ server \in Seq(Commits)
      /\ Own(own + 1) \in Commits /\ Own(own + 1).by = "self" /\ Own(own + 1) # NoCommit
  BY ServerIs, OwnIs DEF OwnOK
<1>2. ~InServer(Own(own + 1))
  BY <1>1, NotStored
<1>3. /\ t \in Seq(Commits) /\ Len(t) = Len(server) + 1 /\ t[Len(server) + 1] = Own(own + 1)
      /\ \A i \in 1 .. Len(server) : t[i] = server[i]
  BY <1>1, AppendAt
<1>4. Len(server) \in Nat /\ Len(server) >= 1 /\ t # server
  BY <1>1, <1>3
<1>5. \A k \in 1 .. Len(server) : server[k].by # "self" /\ ~server[k].adds
  BY <1>1 DEF SelfIsMember
<1>6. FirstInv' /\ PendingInv' /\ AcceptedInv'
  BY <1>5 DEF DataInv, FirstInv, PendingInv, AcceptedInv, OwnAt
<1>7. SentInv'
  <2>1. ~Member(server)
    BY <1>5 DEF Member
  <2> QED  BY <1>1, <1>2, <1>4, <2>1 DEF SentInv, BaseOK, InServer, Member
<1>8. Open(t, server)
  BY <1>1, <1>3, <1>4, <1>5 DEF Open
<1>9. HistInv'
  BY <1>8 DEF HistInv, HistOK
<1>10. LimboInv'
  <2>1. Items' = {r0}
    BY DEF Items
  <2> QED  BY <2>1 DEF LimboInv, AllJoins
<1> QED  BY <1>6, <1>7, <1>9, <1>10 DEF DataInv

LEMMA OwnNotOpen ==
    ASSUME IInv, NEW k, OwnAt(k), NEW h
    PROVE  ~Open(h, server)
<1>1. k \in 1 .. Len(server) /\ server[k].by = "self"
  BY ServerIs DEF OwnAt
<1> QED  BY <1>1 DEF Open

LEMMA GrownBegins ==
    ASSUME NEW h \in Seq(Commits), NEW s \in Seq(Commits), NEW t \in Seq(Commits),
           Begins(h, s), Begins(s, t)
    PROVE  Begins(h, t)
<1>1. Len(h) \in Nat /\ Len(s) \in Nat /\ Len(t) \in Nat /\ Len(h) <= Len(s) /\ Len(s) <= Len(t)
  BY DEF Begins
<1> QED  BY <1>1 DEF Begins

\* A pending commit is merged: one that the server has, or one of a group that
\* it has another of.
LEMMA MergeData ==
    ASSUME IInv, DataInv, mls # Absent, mls.pending # NoCommit,
           InServer(mls.pending) \/ Again(mls.hist, server),
           NEW t, t = Append(mls.hist, mls.pending), mls' # Absent, mls'.hist = t,
           mls'.pending = NoCommit, keys' \subseteq keys \cup {t}, Sents' = Sents,
           UNCHANGED <<server, opened, own>>
    PROVE  DataInv' /\ ~Limbo'
<1>1. /\ mls.hist \in Seq(Commits) /\ Len(mls.hist) \in Nat /\ Len(mls.hist) >= 1
      /\ mls.hist \in keys /\ Known(mls.hist, own) /\ OwnOK(mls.pending, own)
  BY StoredIs, StoredLength
<1>2. /\ t \in Seq(Commits) /\ Len(t) = Len(mls.hist) + 1 /\ t[Len(mls.hist) + 1] = mls.pending
      /\ \A i \in 1 .. Len(mls.hist) : t[i] = mls.hist[i]
  BY <1>1, AppendAt DEF OwnOK
<1>3. Advances(mls.hist, t, own)
  BY <1>1, AppendAdvances DEF OwnOK
<1>4. Member(t) /\ \A u : Past(u) => u # t /\ Past(u)'
  BY <1>1, <1>3, PastAdvance
<1>5. HistOK(t, server) /\ ~Open(t, server)
  <2>1. CASE InServer(mls.pending)
    <3>1. PICK k \in 2 .. Len(server) : server[k] = mls.pending
      BY <2>1 DEF InServer
    <3>2. Begins(mls.hist, server) /\ Len(mls.hist) = k - 1
      BY <3>1 DEF DataInv, PendingInv
    <3>3. Begins(t, server)
      BY <1>1, <1>2, <3>1, <3>2, ServerIs DEF Begins
    <3> QED  BY <1>2, <3>3, ServerIs, BeginsNotOpen DEF HistOK
  <2>2. CASE Again(mls.hist, server)
    <3>1. t[1] = mls.hist[1] /\ 1 \in 1 .. Len(t) - 1
      BY <1>1, <1>2
    <3>2. Again(t, server)
      BY <2>2, <3>1 DEF Again
    <3> QED  BY <3>1, <3>2 DEF HistOK, Again, Open
  <2> QED  BY <2>1, <2>2
<1>6. DataInv'
  BY <1>4, <1>5, GainData
<1> QED  BY <1>5, <1>6 DEF Limbo
-----------------------------------------------------------------------------
(* The server.                                                             *)

LEMMA SentsOfOne ==
    ASSUME FlowInv, NEW r \in requests
    PROVE  /\ Sents = {r} /\ answers = {} /\ Items = {r}
           /\ \A w \in Workers : job[w].result = {}
<1>1. r \in Sents
  BY SentsAre
<1>2. Sents = {r} /\ answers = {}
  BY <1>1 DEF FlowInv, FlightInv
<1>3. \A w \in Workers : job[w].result = {}
  BY DEF FlowInv, ResultOK
<1> QED  BY <1>2, <1>3 DEF Items

\* What the server makes of a commit: its answer, and the sequence.
LEMMA HandlesIs ==
    ASSUME IInv, DataInv, FlowInv, NEW r \in requests, ServerHandles(r)
    PROVE  /\ Sents' = {} /\ Items' = answers'
           /\ \E a : /\ answers' = {a} /\ a.kind = r.kind /\ a.commit = r.commit
                     /\ \/ a.ok /\ server' = Append(r.base, r.commit)
                           /\ IF r.kind = "create" THEN server = <<>> ELSE r.base = server
                        \/ ~a.ok /\ server' = server
<1>1. /\ Sents = {r} /\ answers = {} /\ \A w \in Workers : job[w].result = {}
  BY SentsOfOne
<1>2. requests' = requests \ {r} /\ job' = job
  BY DEF ServerHandles
<1>3. requests \subseteq {r}
  BY <1>1 DEF Sents
<1>4. requests' = {}
  BY <1>2, <1>3
<1>5. Sents' = {}
  BY <1>1, <1>2, <1>4 DEF Sents
<1>6. Items' = answers'
  BY <1>5 DEF Items
<1> DEFINE ok == IF r.kind = "create" THEN server = <<>> ELSE r.base = server
           a == [kind |-> r.kind, ok |-> ok, commit |-> r.commit]
<1>7. /\ server' = IF ok THEN Append(r.base, r.commit) ELSE server
      /\ answers' = answers \cup {a}
  BY DEF ServerHandles
<1>8. a.kind = r.kind /\ a.commit = r.commit /\ (a.ok <=> ok)
  OBVIOUS
<1> HIDE DEF a
<1>9. answers' = {a}
  BY <1>1, <1>7
<1> QED  BY <1>5, <1>6, <1>7, <1>8, <1>9

LEMMA HandlesData ==
    ASSUME IInv, DataInv, FlowInv, NEW r \in requests, ServerHandles(r)
    PROVE  /\ DataInv' /\ (Limbo' => Limbo /\ server' = server)
           /\ Begins(server, server') /\ server' \in Seq(Commits)
           /\ \A a \in answers' : a.ok <=> InServer(a.commit)'
<1>1. /\ Sents = {r} /\ answers = {} /\ Items = {r}
  BY SentsOfOne
<1>2. /\ Sents' = {} /\ Items' = answers' /\ UNCHANGED <<mls, keys, opened, own>>
  BY HandlesIs DEF ServerHandles
<1>3. PICK a : /\ answers' = {a} /\ a.kind = r.kind /\ a.commit = r.commit
               /\ \/ a.ok /\ server' = Append(r.base, r.commit)
                     /\ IF r.kind = "create" THEN server = <<>> ELSE r.base = server
                  \/ ~a.ok /\ server' = server
  BY HandlesIs
<1>4. /\ r.base \in Seq(Commits) /\ Len(r.base) >= 1 /\ Len(r.base) \in Nat
      /\ r.kind = "create" => Len(r.base) = 1 /\ r.base[1].by = "self" /\ ~r.base[1].adds
      /\ BaseOK(r.base) /\ ~InServer(r.commit)
      /\ mls # Absent => (mls.hist = r.base <=> mls.pending = r.commit)
      /\ r.commit \in Commits /\ r.commit.by = "self" /\ ~r.commit.adds
  <2>1. r \in Sents
    BY <1>1
  <2> QED  BY <2>1, SentIs DEF DataInv, SentInv
<1>5. SentInv'
  BY <1>2 DEF SentInv
<1>6. \A b : BaseOK(b) => BaseOK(b)'
  BY <1>2 DEF BaseOK, Past
<1>7. server \in Seq(Commits) /\ Len(server) \in Nat
  BY ServerIs
<1>8. mls # Absent => mls.hist \in Seq(Commits) /\ Len(mls.hist) \in Nat /\ Len(mls.hist) >= 1
  BY StoredLength
<1>9. mls # Absent /\ mls.pending # NoCommit => r.commit = mls.pending /\ r.kind # "join"
  BY <1>1 DEF DataInv, PendingInv
<1>10. CASE ~a.ok /\ server' = server
  <2>1. \A c : InServer(c)' <=> InServer(c)
    BY <1>10 DEF InServer
  <2>2. FirstInv' /\ HistInv'
    BY <1>2, <1>10 DEF DataInv, FirstInv, HistInv
  <2>3. AcceptedInv'
    <3> SUFFICES ASSUME NEW b \in Seq(Commits), Len(b) >= 1, Begins(b, server), OwnAt(Len(b) + 1)
                 PROVE  BaseOK(b)'
                        /\ (mls # Absent /\ mls.hist = b => mls.pending = server[Len(b) + 1])
      BY <1>2, <1>10 DEF AcceptedInv, OwnAt
    <3> QED  BY <1>6 DEF DataInv, AcceptedInv
  <2>4. PendingInv'
    BY <1>2, <1>3, <1>9, <1>10 DEF DataInv, PendingInv
  <2>5. Limbo' <=> Limbo
    BY <1>2, <1>10 DEF Limbo
  <2>6. LimboInv'
    BY <1>1, <1>2, <1>3, <2>5 DEF DataInv, LimboInv, AllJoins
  <2>7. Begins(server, server)
    BY <1>7 DEF Begins
  <2>8. \A x \in answers' : x.ok <=> InServer(x.commit)'
    BY <1>3, <1>4, <1>10, <2>1
  <2> QED  BY <1>5, <1>7, <1>10, <2>2, <2>3, <2>4, <2>5, <2>6, <2>7, <2>8 DEF DataInv
<1>11. CASE /\ a.ok /\ server' = Append(r.base, r.commit)
            /\ IF r.kind = "create" THEN server = <<>> ELSE r.base = server
  <2> DEFINE n == Len(r.base)
  <2>1. /\ server' \in Seq(Commits) /\ Len(server') = n + 1 /\ server'[n + 1] = r.commit
        /\ \A i \in 1 .. n : server'[i] = r.base[i]
    BY <1>4, <1>11, AppendAt
  <2>2. Begins(server, server') /\ Begins(r.base, server') /\ Len(server') \in Nat /\ n + 1 \in Nat
    BY <1>4, <1>7, <1>11, <2>1 DEF Begins
  <2>3. n + 1 \in 2 .. Len(server') /\ server' # <<>> /\ Len(server') >= 2
    BY <1>4, <2>1
  <2>4. \A k \in 2 .. n : k \in 2 .. Len(server) /\ server'[k] = server[k] /\ r.base = server
    BY <1>4, <1>7, <1>11, <2>1
  <2>5. InServer(r.commit)'
    BY <1>2, <2>1, <2>3 DEF InServer
  <2>6. ~Limbo'
    BY <1>4, <2>1, <2>3 DEF Limbo, Open
  <2>7. FirstInv'
    <3>1. CASE r.kind = "create"
      <4>1. server'[1] = r.base[1] /\ n = 1 /\ server'[2] = r.commit
        BY <1>4, <2>1, <3>1
      <4> QED  BY <1>4, <2>3, <3>1, <4>1 DEF FirstInv
    <3>2. CASE r.kind # "create"
      <4>1. server # <<>> /\ n = Len(server)
        BY <1>4, <1>11, <3>2
      <4>2. n >= 2 /\ ~server[1].adds /\ (server[1].by = "self" <=> server[2].by = "self")
        BY <4>1 DEF DataInv, FirstInv
      <4>3. server'[1] = server[1] /\ server'[2] = server[2]
        BY <1>4, <1>11, <2>1, <3>2, <4>2
      <4> QED  BY <2>3, <4>2, <4>3 DEF FirstInv
    <3> QED  BY <3>1, <3>2
  <2>8. AcceptedInv'
    <3> SUFFICES ASSUME NEW b \in Seq(Commits), Len(b) >= 1, Begins(b, server'), OwnAt(Len(b) + 1)'
                 PROVE  BaseOK(b)'
                        /\ (mls # Absent /\ mls.hist = b => mls.pending = server'[Len(b) + 1])
      BY <1>2 DEF AcceptedInv, OwnAt
    <3>1. Len(b) \in Nat /\ Len(b) + 1 <= n + 1
      BY <2>1 DEF OwnAt
    <3>2. CASE Len(b) = n
      <4>1. b = r.base
        <5>1. \A i \in 1 .. n : b[i] = r.base[i]
          BY <2>1, <3>2 DEF Begins
        <5> QED  BY <1>4, <3>2, <5>1, SeqEqual
      <4> QED  BY <1>4, <1>6, <2>1, <4>1
    <3>3. CASE Len(b) # n
      <4>1. Len(b) + 1 \in 2 .. n
        BY <1>4, <3>1, <3>3
      <4>2. Begins(b, server)
        BY <1>11, <2>1, <2>4, <3>1, <4>1 DEF Begins
      <4>3. OwnAt(Len(b) + 1)
        BY <2>4, <4>1 DEF OwnAt
      <4>4. BaseOK(b) /\ (mls # Absent /\ mls.hist = b => mls.pending = server[Len(b) + 1])
        BY <4>2, <4>3 DEF DataInv, AcceptedInv
      <4> QED  BY <1>6, <2>4, <4>1, <4>4
    <3> QED  BY <3>2, <3>3
  <2>9. PendingInv'
    <3> SUFFICES ASSUME mls # Absent, mls.pending # NoCommit
                 PROVE  /\ \E x \in answers' : x.commit = mls.pending /\ x.kind # "join"
                        /\ \A k \in 2 .. Len(server') : server'[k] = mls.pending =>
                              Begins(mls.hist, server') /\ Len(mls.hist) = k - 1
      BY <1>2 DEF PendingInv
    <3>1. mls.hist = r.base /\ mls.pending = r.commit
      BY <1>4, <1>9
    <3>2. ASSUME NEW k \in 2 .. Len(server'), server'[k] = mls.pending PROVE k = n + 1
      <4> SUFFICES ASSUME k # n + 1 PROVE FALSE
        OBVIOUS
      <4>1. k \in 2 .. n
        BY <2>1, <2>2
      <4>2. InServer(r.commit)
        BY <2>4, <3>1, <3>2, <4>1 DEF InServer
      <4> QED  BY <1>4, <4>2
    <3> QED  BY <1>3, <1>4, <1>9, <2>2, <3>1, <3>2
  <2>10. HistInv'
    <3> SUFFICES ASSUME mls # Absent PROVE HistOK(mls.hist, server')
      BY <1>2 DEF HistInv
    <3>1. HistOK(mls.hist, server)
      BY DEF DataInv, HistInv
    <3>2. CASE Begins(mls.hist, server)
      BY <1>7, <1>8, <2>1, <2>2, <3>2, GrownBegins DEF HistOK
    <3>3. CASE Single(mls.hist)
      BY <3>3 DEF HistOK
    <3>4. CASE Again(mls.hist, server)
      <4>1. server'[1] = server[1]
        BY <1>4, <1>11, <2>1, <3>4 DEF Again
      <4> QED  BY <2>3, <3>4, <4>1 DEF Again, HistOK
    <3>5. CASE Open(mls.hist, server)
      <4>1. mls.hist = Append(r.base, r.commit)
        BY <1>1, <3>5 DEF DataInv, LimboInv, Limbo
      <4>2. Begins(mls.hist, server')
        BY <1>11, <2>1, <4>1 DEF Begins
      <4> QED  BY <4>2 DEF HistOK
    <3> QED  BY <3>1, <3>2, <3>3, <3>4, <3>5 DEF HistOK
  <2>11. LimboInv'
    BY <2>6 DEF LimboInv
  <2>12. \A x \in answers' : x.ok <=> InServer(x.commit)'
    BY <1>3, <1>11, <2>1, <2>3 DEF InServer
  <2> QED  BY <1>5, <2>1, <2>2, <2>6, <2>7, <2>8, <2>9, <2>10, <2>11, <2>12 DEF DataInv
<1> QED  BY <1>3, <1>10, <1>11

\* The server's sequence grows by commits of others.
LEMMA PeerHist ==
    ASSUME NEW h \in Seq(Commits), NEW s \in Seq(Commits), NEW t \in Seq(Commits), Len(h) >= 1,
           HistOK(h, s), Begins(s, t), \A k \in 1 .. Len(t) : t[k].by = "self" => k \in 1 .. Len(s)
    PROVE  HistOK(h, t) /\ (Open(h, t) => Open(h, s))
<1>1. /\ Len(h) \in Nat /\ Len(s) \in Nat /\ Len(t) \in Nat /\ Len(s) <= Len(t)
      /\ \A i \in 1 .. Len(s) : i \in 1 .. Len(t) /\ s[i] = t[i]
  BY DEF Begins
<1>2. CASE Begins(h, s)
  <2>1. Begins(h, t)
    BY <1>2, GrownBegins
  <2> QED  BY <2>1, BeginsNotOpen DEF HistOK
<1>3. CASE Single(h)
  BY <1>1, <1>3 DEF HistOK, Single, Open
<1>4. CASE Again(h, s)
  <2>1. 1 \in 1 .. Len(s) /\ t[1] = s[1] /\ t # <<>>
    <3>1. Len(s) >= 1
      BY <1>1, <1>4 DEF Again
    <3> QED  BY <1>1, <3>1
  <2>2. Again(h, t)
    BY <1>4, <2>1 DEF Again
  <2>3. ~Open(h, t)
    <3> SUFFICES ASSUME Open(h, t) PROVE FALSE
      OBVIOUS
    <3>1. 1 \in 1 .. Len(h) - 1
      BY <1>1 DEF Open
    <3> QED  BY <2>2, <3>1 DEF Open, Again
  <2> QED  BY <2>2, <2>3 DEF HistOK
<1>5. CASE Open(h, s)
  <2>1. \A k \in 1 .. Len(t) : t[k].by # "self"
    BY <1>1, <1>5 DEF Open
  <2>2. \A i \in 1 .. Len(h) - 1 : i <= Len(t) /\ h[i] = t[i]
    BY <1>1, <1>5 DEF Open
  <2> QED  BY <1>5, <2>1, <2>2 DEF HistOK, Open
<1> QED  BY <1>2, <1>3, <1>4, <1>5 DEF HistOK

\* A commit of another member.
LEMMA PeerData ==
    ASSUME IInv, DataInv, NEW adds \in BOOLEAN, PeerCommits(adds)
    PROVE  /\ DataInv' /\ (Limbo' => Limbo)
           /\ Begins(server, server') /\ server' \in Seq(Commits)
           /\ \A c : c.by = "self" => (InServer(c)' <=> InServer(c))
<1>1. UNCHANGED <<mls, keys, opened, own, job, requests, answers>>
  BY DEF PeerCommits
<1>2. server \in Seq(Commits) /\ Len(server) \in Nat
  BY ServerIs
<1>3. /\ server' \in Seq(Commits) /\ Begins(server, server') /\ Len(server') \in Nat
      /\ server # <<>> <=> Len(server) >= 1
      /\ \A k \in 1 .. Len(server') : k > Len(server) => server'[k].by = "peer"
      /\ server = <<>> => Len(server') = 2 /\ ~server'[1].adds
  <2>1. CASE server = <<>>
    <3>1. server' = <<Peer(1, FALSE), Peer(2, adds)>>
      BY <2>1 DEF PeerCommits
    <3>2. /\ Peer(1, FALSE) \in Commits /\ Peer(1, FALSE).by = "peer" /\ ~Peer(1, FALSE).adds
          /\ Peer(2, adds) \in Commits /\ Peer(2, adds).by = "peer"
      BY PeerIs DEF Peer
    <3> DEFINE p1 == Peer(1, FALSE)
               p2 == Peer(2, adds)
    <3>3. /\ server' = <<p1, p2>> /\ p1 \in Commits /\ p1.by = "peer" /\ ~p1.adds
          /\ p2 \in Commits /\ p2.by = "peer"
      BY <3>1, <3>2
    <3> HIDE DEF p1, p2
    <3>4. server' \in Seq(Commits) /\ Len(server') = 2 /\ server'[1] = p1 /\ server'[2] = p2
      BY <3>3
    <3>5. Begins(server, server')
      BY <2>1, <3>4 DEF Begins
    <3> QED  BY <2>1, <3>3, <3>4, <3>5
  <2>2. CASE server # <<>>
    <3> DEFINE c == Peer(Len(server) + 1, adds)
    <3>1. server' = Append(server, c)
      BY <2>2 DEF PeerCommits
    <3>2. c \in Commits /\ c.by = "peer"
      BY <1>2, PeerIs
    <3> HIDE DEF c
    <3>3. /\ server' \in Seq(Commits) /\ Len(server') = Len(server) + 1
          /\ \A i \in 1 .. Len(server) : server'[i] = server[i]
          /\ server'[Len(server) + 1] = c
      BY <1>2, <3>1, <3>2, AppendAt
    <3>4. Begins(server, server')
      BY <1>2, <3>3 DEF Begins
    <3>5. Len(server) >= 1
      BY <1>2, <2>2
    <3>6. ASSUME NEW k \in 1 .. Len(server'), k > Len(server) PROVE server'[k].by = "peer"
      <4>1. k = Len(server) + 1
        BY <1>2, <3>3, <3>6
      <4> QED  BY <3>2, <3>3, <4>1
    <3> QED  BY <1>2, <2>2, <3>3, <3>4, <3>5, <3>6
  <2> QED  BY <2>1, <2>2
<1>4. \A i \in 1 .. Len(server) : i \in 1 .. Len(server') /\ server'[i] = server[i]
  BY <1>2, <1>3 DEF Begins
<1>5. \A k \in 1 .. Len(server') : server'[k].by = "self" =>
         k \in 1 .. Len(server) /\ server'[k] = server[k]
  BY <1>2, <1>3, <1>4
<1>6. ASSUME NEW c, c.by = "self" PROVE InServer(c)' <=> InServer(c)
  <2>1. InServer(c)' => InServer(c)
    <3> SUFFICES ASSUME NEW k \in 2 .. Len(server'), server'[k] = c PROVE InServer(c)
      BY DEF InServer
    <3>1. k \in 2 .. Len(server) /\ server[k] = c
      BY <1>2, <1>3, <1>5, <1>6
    <3> QED  BY <3>1 DEF InServer
  <2>2. InServer(c) => InServer(c)'
    <3> SUFFICES ASSUME NEW k \in 2 .. Len(server), server[k] = c PROVE InServer(c)'
      BY DEF InServer
    <3>1. k \in 2 .. Len(server') /\ server'[k] = c
      BY <1>2, <1>3, <1>4
    <3> QED  BY <3>1 DEF InServer
  <2> QED  BY <2>1, <2>2
<1>7. \A b : BaseOK(b) => BaseOK(b)'
  BY <1>1 DEF BaseOK, Past
<1>8. Sents' = Sents /\ Items' = Items
  BY <1>1 DEF Sents, Items
<1>9. FirstInv'
  <2>1. CASE server = <<>>
    BY <1>3, <2>1 DEF FirstInv
  <2>2. CASE server # <<>>
    BY <1>2, <1>3, <1>4, <2>2 DEF DataInv, FirstInv
  <2> QED  BY <2>1, <2>2
<1>10. SentInv'
  BY <1>1, <1>6, <1>7, <1>8, SentIs DEF DataInv, SentInv
<1>11. AcceptedInv'
  <2> SUFFICES ASSUME NEW b \in Seq(Commits), Len(b) >= 1, Begins(b, server'), OwnAt(Len(b) + 1)'
               PROVE  BaseOK(b)'
                      /\ (mls # Absent /\ mls.hist = b => mls.pending = server'[Len(b) + 1])
    BY <1>1 DEF AcceptedInv, OwnAt
  <2>1. Len(b) \in Nat /\ Len(b) + 1 \in 2 .. Len(server)
        /\ server'[Len(b) + 1] = server[Len(b) + 1]
    BY <1>2, <1>3, <1>5 DEF OwnAt
  <2>2. Begins(b, server)
    BY <1>2, <1>4, <2>1 DEF Begins
  <2>3. OwnAt(Len(b) + 1)
    BY <2>1 DEF OwnAt
  <2>4. BaseOK(b) /\ (mls # Absent /\ mls.hist = b => mls.pending = server[Len(b) + 1])
    BY <2>2, <2>3 DEF DataInv, AcceptedInv
  <2> QED  BY <1>7, <2>1, <2>4
<1>12. PendingInv'
  <2> SUFFICES ASSUME mls # Absent, mls.pending # NoCommit
               PROVE  /\ \E x \in Items : x.commit = mls.pending /\ x.kind # "join"
                      /\ \A k \in 2 .. Len(server') : server'[k] = mls.pending =>
                            Begins(mls.hist, server') /\ Len(mls.hist) = k - 1
    BY <1>1, <1>8 DEF PendingInv
  <2>1. \E x \in Items : x.commit = mls.pending /\ x.kind # "join"
    BY DEF DataInv, PendingInv
  <2>2. mls.pending.by = "self" /\ mls.hist \in Seq(Commits)
    BY StoredIs DEF OwnOK
  <2>3. ASSUME NEW k \in 2 .. Len(server'), server'[k] = mls.pending
        PROVE  Begins(mls.hist, server') /\ Len(mls.hist) = k - 1
    <3>1. k \in 2 .. Len(server) /\ server[k] = mls.pending
      BY <1>2, <1>3, <1>5, <2>2, <2>3
    <3>2. Begins(mls.hist, server) /\ Len(mls.hist) = k - 1
      BY <3>1 DEF DataInv, PendingInv
    <3> QED  BY <1>2, <1>3, <2>2, <3>2, GrownBegins
  <2> QED  BY <2>1, <2>3
<1>13. ASSUME mls # Absent
       PROVE  HistOK(mls.hist, server') /\ (Open(mls.hist, server') => Open(mls.hist, server))
  <2>1. mls.hist \in Seq(Commits) /\ Len(mls.hist) >= 1 /\ HistOK(mls.hist, server)
    BY <1>13, StoredLength DEF DataInv, HistInv
  <2> QED  BY <1>2, <1>3, <1>5, <2>1, PeerHist
<1>14. HistInv' /\ (Limbo' => Limbo)
  BY <1>1, <1>13 DEF HistInv, Limbo
<1>15. LimboInv'
  BY <1>1, <1>8, <1>14 DEF DataInv, LimboInv, AllJoins
<1> QED  BY <1>3, <1>6, <1>9, <1>10, <1>11, <1>12, <1>14, <1>15 DEF DataInv
-----------------------------------------------------------------------------
(* The tasks and the application.                                          *)

\* What a step may do while a batch has an earlier group in memory.
Later ==
    /\ own' \in Nat /\ own <= own'
    /\ server' \in Seq(Commits) /\ Begins(server, server')
    /\ mls' # Absent =>
          \/ mls'.pending = NoCommit
          \/ mls'.pending = Own(own + 1)
          \/ mls # Absent /\ mls'.pending = mls.pending
    /\ Limbo' => (Limbo /\ mls'.hist = mls.hist) \/ ~Known(mls'.hist, own)

LEMMA OwnAtStays ==
    ASSUME IInv, Later, NEW k, OwnAt(k)
    PROVE  k \in 2 .. Len(server') /\ server'[k].by = "self"
<1>1. k \in 1 .. Len(server) /\ Len(server) \in Nat /\ Len(server') \in Nat
  BY ServerIs DEF OwnAt, Later
<1>2. Len(server) <= Len(server') /\ server'[k] = server[k]
  BY <1>1 DEF Later, Begins
<1> QED  BY <1>1, <1>2 DEF OwnAt

LEMMA BatchStays ==
    ASSUME IInv, Later, NEW v \in Workers, BatchOK(job[v]), job'[v] = job[v]
    PROVE  BatchOK(job[v])'
<1>1. PICK j : j = job[v] /\ j = job'[v]
  OBVIOUS
<1>2. BatchOK(j) /\ JobOK(v, j, own, Len(server))
  BY <1>1 DEF IInv, JobsInv
<1>3. own \in Nat /\ server \in Seq(Commits) /\ Len(server) \in Nat /\ Len(server') \in Nat
      /\ own' \in Nat /\ own <= own'
  BY ServerIs DEF Later
<1>4. /\ Len(server) <= Len(server')
      /\ \A i \in 1 .. Len(server) : i \in 1 .. Len(server') /\ server'[i] = server[i]
  BY <1>3 DEF Later, Begins
<1>5. j.mem # Absent =>
         Known(j.mem.hist, own') /\ (j.mem.pending = NoCommit \/ OwnOK(j.mem.pending, own'))
  <2> SUFFICES ASSUME j.mem # Absent
               PROVE  Known(j.mem.hist, own')
                      /\ (j.mem.pending = NoCommit \/ OwnOK(j.mem.pending, own'))
    OBVIOUS
  <2>1. /\ j.mem.hist \in Seq(Commits) /\ Known(j.mem.hist, own)
        /\ j.mem.pending = NoCommit \/ OwnOK(j.mem.pending, own)
    BY <1>2, GroupIs DEF BatchOK, JobOK
  <2>2. Known(j.mem.hist, own')
    BY <1>3, <2>1, KnownStays
  <2>3. OwnOK(j.mem.pending, own) => OwnOK(j.mem.pending, own')
    <3>1. j.mem.pending \in Commits => j.mem.pending.n \in Nat
      BY DEF Commits
    <3> QED  BY <1>3, <3>1 DEF OwnOK
  <2> QED  BY <2>1, <2>2, <2>3
<1>6. j.pc \in {"load", "decide", "settle"} => server' # <<>>
  <2>1. j.pc \in {"load", "decide", "settle"} => Len(server) >= 1
    BY <1>2, <1>3 DEF BatchOK
  <2> QED  BY <1>3, <1>4, <2>1
<1>7. ASSUME j.mem # Absent, Elsewhere(j.mem) PROVE Elsewhere(j.mem)'
  <2> SUFFICES ASSUME Limbo' PROVE j.mem.hist # mls'.hist
    BY DEF Elsewhere
  <2>1. CASE Limbo /\ mls'.hist = mls.hist
    BY <1>7, <2>1 DEF Elsewhere
  <2>2. CASE ~Known(mls'.hist, own)
    BY <1>2, <1>7, <2>2 DEF BatchOK
  <2> QED  BY <2>1, <2>2 DEF Later
<1>8. Elsewhere(j.mem) => Elsewhere(j.mem)'
  BY <1>7 DEF Elsewhere
<1>9. j.pc = "settle" /\ j.plan = "merge" => MergeOK(j.mem)'
  <2> SUFFICES ASSUME j.pc = "settle", j.plan = "merge" PROVE MergeOK(j.mem)'
    OBVIOUS
  <2>1. MergeOK(j.mem) /\ server # <<>>
    BY <1>2 DEF BatchOK
  <2>2. CASE Len(j.mem.hist) = 1 /\ j.mem.hist[1] = server[1]
    <3>1. 1 \in 1 .. Len(server)
      <4>1. Len(server) >= 1
        BY <1>3, <2>1
      <4> QED  BY <1>3, <4>1
    <3> QED  BY <1>4, <2>2, <3>1 DEF MergeOK
  <2>3. CASE OwnAt(Len(j.mem.hist) + 1)
    BY <2>3, OwnAtStays DEF MergeOK, OwnAt
  <2>4. CASE /\ OwnAt(Len(j.mem.hist))
             /\ mls # Absent /\ j.mem.pending # NoCommit => mls.pending # j.mem.pending
    <3>1. mls' # Absent /\ j.mem.pending # NoCommit => mls'.pending # j.mem.pending
      <4> SUFFICES ASSUME mls' # Absent, j.mem.pending # NoCommit PROVE mls'.pending # j.mem.pending
        OBVIOUS
      <4>1. j.mem # Absent /\ OwnOK(j.mem.pending, own)
        BY <1>2 DEF BatchOK
      <4>2. j.mem.pending # Own(own + 1)
        BY <1>3, <4>1, OwnIs DEF OwnOK
      <4> QED  BY <2>4, <4>2 DEF Later
    <3> QED  BY <2>4, <3>1, OwnAtStays DEF MergeOK, OwnAt
  <2> QED  BY <2>1, <2>2, <2>3, <2>4 DEF MergeOK
<1>10. j.pc = "settle" /\ j.plan = "clear" =>
          ~(Len(j.mem.hist) + 1 <= j.end /\ OwnAt(Len(j.mem.hist) + 1))'
  <2> SUFFICES ASSUME j.pc = "settle", j.plan = "clear", Len(j.mem.hist) + 1 <= j.end,
                      OwnAt(Len(j.mem.hist) + 1)'
               PROVE  FALSE
    OBVIOUS
  <2>1. j.end \in Nat /\ j.end <= Len(server)
    BY <1>2 DEF JobOK, Processing
  <2>2. PICK k \in 2 .. Len(server') : k = Len(j.mem.hist) + 1 /\ server'[k].by = "self"
    BY DEF OwnAt
  <2>3. k \in 2 .. Len(server) /\ server[k].by = "self"
    BY <1>3, <1>4, <2>1, <2>2
  <2>4. OwnAt(Len(j.mem.hist) + 1)
    BY <2>2, <2>3 DEF OwnAt
  <2> QED  BY <1>2, <2>4 DEF BatchOK
<1>11. BatchOK(j)'
  BY <1>2, <1>5, <1>6, <1>8, <1>9, <1>10 DEF BatchOK
<1> QED  BY <1>1, <1>11

LEMMA SentsKept ==
    ASSUME IInv, NEW w \in Workers, NEW j, job' = [job EXCEPT ![w] = j],
           requests' \cup j.result = requests \cup job[w].result
    PROVE  Sents' = Sents
<1>1. \A v \in Workers : job'[v] = IF v = w THEN j ELSE job[v]
  BY DEF IInv, JobsInv
<1>2. ASSUME NEW r PROVE r \in Sents' <=> r \in Sents
  <2>1. r \in Sents' <=> r \in requests' \/ \E v \in Workers : r \in job'[v].result
    BY DEF Sents
  <2>2. r \in requests' \/ r \in j.result <=> r \in requests \/ r \in job[w].result
    OBVIOUS
  <2> QED  BY <1>1, <2>1, <2>2, SentsAre
<1> QED  BY <1>2

\* One worker's tasks write the row.
LEMMA OnlyRecorder ==
    ASSUME OneRecorder, IInv, NEW v \in Workers, NEW w \in Workers,
           job[v].pc # "idle", job[v].task \in Recorders,
           job[w].pc # "idle", job[w].task \in Recorders
    PROVE  v = w
<1>1. job[v].task \in Lane[v] /\ job[w].task \in Lane[w]
  BY DEF IInv, JobsInv, JobOK
<1> QED  BY <1>1 DEF OneRecorder

\* A step that starts no operation and settles none.
LEMMA QuietFlow ==
    ASSUME IInv, FlowInv, Later, NEW w \in Workers, NEW j, job' = [job EXCEPT ![w] = j],
           job[w].pc # "record", j.pc # "record", j.result = {}, AppOK(j), BatchOK(j)',
           UNCHANGED <<server, requests, answers>>, Limbo' => Limbo,
           status' = status \/ (status' = OpNone /\ ~Limbo')
    PROVE  FlowInv' /\ Sents' = Sents
<1>1. \A v \in Workers : job'[v] = IF v = w THEN j ELSE job[v]
  BY DEF IInv, JobsInv
<1>2. job[w].result = {}
  BY DEF FlowInv, ResultOK
<1>3. Sents' = Sents
  BY <1>2, SentsKept
<1>4. Items' = Items
  BY <1>3 DEF Items
<1>5. FlightInv'
  BY <1>3 DEF FlowInv, FlightInv, InServer
<1>6. LimboRowInv'
  <2> SUFFICES ASSUME Limbo'
               PROVE  /\ \A v \in Workers : job'[v].pc = "record" => job'[v].task \in Joins
                      /\ status' = JoinByExternalCommit \/ \E v \in Workers : Joining(job'[v])
    BY DEF LimboRowInv
  <2>1. /\ \A v \in Workers : job[v].pc = "record" => job[v].task \in Joins
        /\ status = JoinByExternalCommit \/ \E v \in Workers : Joining(job[v])
    BY DEF FlowInv, LimboRowInv
  <2>2. \A v \in Workers : Joining(job[v]) => Joining(job'[v])
    BY <1>1 DEF Joining
  <2> QED  BY <1>1, <2>1, <2>2
<1>7. StatusInv'
  <2>1. \A v \in Workers : Resetting(job[v]) => Resetting(job'[v])
    BY <1>1 DEF Resetting
  <2>2. AllJoins' <=> AllJoins
    BY <1>4 DEF AllJoins
  <2>3. CASE status' = status
    BY <1>4, <2>1, <2>2, <2>3 DEF FlowInv, StatusInv
  <2>4. CASE status' = OpNone
    BY <2>4 DEF StatusInv, OpNone, JoinByExternalCommit, UpdateTree
  <2> QED  BY <2>3, <2>4
<1>8. ASSUME NEW v \in Workers PROVE ResultOK(job[v])' /\ AppOK(job[v])' /\ BatchOK(job[v])'
  <2>1. CASE v = w
    <3>1. job'[v] = j
      BY <1>1, <2>1
    <3>2. ResultOK(job[v])' /\ AppOK(job[v])'
      BY <3>1 DEF ResultOK, AppOK
    <3>3. BatchOK(job[v])'
      BY <3>1 DEF BatchOK
    <3> QED  BY <3>2, <3>3
  <2>2. CASE v # w
    <3>1. job'[v] = job[v]
      BY <1>1, <2>2
    <3>2. ResultOK(job[v]) /\ AppOK(job[v]) /\ BatchOK(job[v])
      BY DEF FlowInv
    <3>3. ResultOK(job[v])' /\ AppOK(job[v])'
      BY <3>1, <3>2 DEF ResultOK, AppOK
    <3>4. BatchOK(job[v])'
      BY <3>1, <3>2, BatchStays
    <3> QED  BY <3>3, <3>4
  <2> QED  BY <2>1, <2>2
<1> QED  BY <1>3, <1>5, <1>6, <1>7, <1>8 DEF FlowInv

\* The application starts an operation when none is under way.
LEMMA NothingSent ==
    ASSUME OneRecorder, IInv, RowInv, FlowInv, NEW w \in Workers,
           job[w].pc = "work", job[w].task \in OwnOperations
    PROVE  /\ Sents = {} /\ Items = {} /\ requests = {} /\ answers = {}
           /\ \A v \in Workers : job[v].pc # "record" /\ job[v].result = {}
<1>1. requests = {} /\ answers = {}
  BY DEF FlowInv, AppOK
<1>2. job[w].task \in Recorders
  BY DEF Recorders
<1>3. \A v \in Workers : job[v].pc # "record"
  BY <1>2, OnlyRecorder DEF RowInv, RowJobOK
<1>4. \A v \in Workers : job[v].result = {}
  BY <1>3 DEF FlowInv, ResultOK
<1> QED  BY <1>1, <1>3, <1>4 DEF Sents, Items

\* A task that has made a commit of this client's goes on to write the row.
LEMMA OwnOperationFlow ==
    ASSUME OneRecorder, IInv, RowInv, FlowInv, Later, NEW w \in Workers, NEW j,
           job' = [job EXCEPT ![w] = j], job[w].pc = "work", job[w].task \in OwnOperations,
           j.pc = "record", j.task = job[w].task, BatchOK(j)',
           \A x, y \in j.result : x = y,
           \A r \in j.result : r.kind = "join" <=> j.task \in Joins,
           j.task # "create_group" => j.result # {},
           UNCHANGED <<status, requests, answers>>, Limbo' => j.task \in Joins
    PROVE  FlowInv' /\ Items = {} /\ Sents' = j.result
<1>1. \A v \in Workers : job'[v] = IF v = w THEN j ELSE job[v]
  BY DEF IInv, JobsInv
<1>2. requests = {} /\ answers = {}
  BY NothingSent
<1>5. \A v \in Workers : job[v].pc # "record" /\ job[v].result = {}
  BY NothingSent
<1>7. Items = {}
  BY NothingSent
<1>8. Sents' = j.result
  BY <1>1, <1>2, <1>5 DEF Sents
<1>9. FlightInv'
  BY <1>2, <1>8 DEF FlightInv
<1>10. LimboRowInv'
  <2> SUFFICES ASSUME Limbo'
               PROVE  /\ \A v \in Workers : job'[v].pc = "record" => job'[v].task \in Joins
                      /\ \E v \in Workers : Joining(job'[v])
    BY DEF LimboRowInv
  <2>1. Joining(job'[w])
    BY <1>1 DEF Joining
  <2> QED  BY <1>1, <1>5, <2>1
<1>11. StatusInv'
  <2>1. ~\E v \in Workers : Resetting(job[v])
    BY <1>5 DEF Resetting
  <2>2. status # JoinByExternalCommit /\ status # UpdateTree
    BY <1>7, <2>1 DEF FlowInv, StatusInv
  <2> QED  BY <2>2 DEF StatusInv
<1>12. ASSUME NEW v \in Workers PROVE ResultOK(job[v])' /\ AppOK(job[v])' /\ BatchOK(job[v])'
  <2>1. CASE v = w
    <3>1. job'[v] = j /\ requests' = {} /\ j.task \in OwnOperations /\ j.pc = "record"
      BY <1>1, <1>2, <2>1
    <3>2. ResultOK(job[v])' /\ AppOK(job[v])'
      BY <3>1 DEF ResultOK, AppOK
    <3>3. BatchOK(job[v])'
      BY <3>1 DEF BatchOK
    <3> QED  BY <3>2, <3>3
  <2>2. CASE v # w
    <3>1. job'[v] = job[v]
      BY <1>1, <2>2
    <3>2. ResultOK(job[v]) /\ AppOK(job[v]) /\ BatchOK(job[v])
      BY DEF FlowInv
    <3>3. ResultOK(job[v])' /\ AppOK(job[v])'
      BY <3>1, <3>2 DEF ResultOK, AppOK
    <3>4. BatchOK(job[v])'
      BY <3>1, <3>2, BatchStays
    <3> QED  BY <3>3, <3>4
  <2> QED  BY <2>1, <2>2
<1> QED  BY <1>7, <1>8, <1>9, <1>10, <1>11, <1>12 DEF FlowInv

\* A task that has settled one goes on to reset the row.
LEMMA SettlementFlow ==
    ASSUME OneRecorder, IInv, RowInv, FlowInv, Later, NEW w \in Workers, NEW j,
           job' = [job EXCEPT ![w] = j], job[w].pc = "work",
           job[w].task \in Recorders \ OwnOperations,
           j.pc = "record", j.task = job[w].task, BatchOK(j)', j.result = {},
           UNCHANGED <<server, status, requests>>, answers' \subseteq answers, ~Limbo'
    PROVE  FlowInv' /\ Sents' = Sents
<1>1. \A v \in Workers : job'[v] = IF v = w THEN j ELSE job[v]
  BY DEF IInv, JobsInv
<1>2. \A v \in Workers : job[v].pc # "idle" /\ job[v].task \in Recorders => v = w
  BY OnlyRecorder
<1>3. job[w].result = {}
  BY DEF FlowInv, ResultOK
<1>4. Sents' = Sents
  BY <1>3, SentsKept
<1>5. FlightInv'
  BY <1>4 DEF FlowInv, FlightInv, InServer
<1>6. LimboRowInv'
  BY DEF LimboRowInv
<1>7. StatusInv'
  <2>1. Resetting(job'[w])
    BY <1>1 DEF Resetting
  <2> QED  BY <2>1 DEF StatusInv
<1>8. ASSUME NEW v \in Workers PROVE ResultOK(job[v])' /\ AppOK(job[v])' /\ BatchOK(job[v])'
  <2>1. CASE v = w
    <3>1. job'[v] = j /\ j.task \notin OwnOperations /\ j.pc = "record"
      BY <1>1, <2>1
    <3>2. ResultOK(job[v])' /\ AppOK(job[v])'
      <4>1. j.task \notin Joins
        BY <3>1 DEF Joins, OwnOperations
      <4> QED  BY <3>1, <4>1 DEF ResultOK, AppOK
    <3>3. BatchOK(job[v])'
      BY <3>1 DEF BatchOK
    <3> QED  BY <3>2, <3>3
  <2>2. CASE v # w
    <3>1. job'[v] = job[v] /\ (job[v].pc = "idle" \/ job[v].task \notin Recorders)
      BY <1>1, <1>2, <2>2
    <3>2. ResultOK(job[v]) /\ AppOK(job[v]) /\ BatchOK(job[v])
      BY DEF FlowInv
    <3>3. ResultOK(job[v])'
      BY <3>1, <3>2 DEF ResultOK
    <3>4. AppOK(job[v])'
      BY <3>1 DEF AppOK, Recorders
    <3>5. BatchOK(job[v])'
      BY <3>1, <3>2, BatchStays
    <3> QED  BY <3>3, <3>4, <3>5
  <2> QED  BY <2>1, <2>2
<1> QED  BY <1>4, <1>5, <1>6, <1>7, <1>8 DEF FlowInv

\* A job that is in no batch.
LEMMA PlainBatch ==
    ASSUME NEW j, j.mem = Absent, j.pc \notin {"load", "decide", "settle"},
           j.pc \in {"status", "context"} => j.pos = 0
    PROVE  BatchOK(j) /\ BatchOK(j)'
BY DEF BatchOK, Elsewhere

\* The row is written, and the application sends the commit.
LEMMA RecordFlow ==
    ASSUME OneRecorder, IInv, RowInv, FlowInv, NEW w \in Workers, Record(w)
    PROVE  FlowInv' /\ Sents' = Sents
<1>1. /\ job[w].pc = "record" /\ job' = [job EXCEPT ![w] = Idle]
      /\ requests' = requests \cup job[w].result
      /\ UNCHANGED <<server, mls, keys, opened, answers, own, races>>
      /\ status' = IF job[w].task = "add_members" /\ status # OpNone THEN status
                   ELSE StatusAfter(job[w].task)
  BY DEF Record, At, Return, KeepsData
<1>2. \A v \in Workers : job'[v] = IF v = w THEN Idle ELSE job[v]
  BY <1>1 DEF IInv, JobsInv
<1>3. job[w].task \in Recorders
  BY <1>1 DEF RowInv, RowJobOK
<1>4. \A v \in Workers : job[v].pc # "idle" /\ job[v].task \in Recorders => v = w
  BY <1>1, <1>3, OnlyRecorder
<1>5. Idle.result = {} /\ Idle.pc = "idle" /\ Idle.mem = Absent
  BY DEF Idle
<1>6. Sents' = Sents /\ Items' = Items
  <2>1. requests' \cup Idle.result = requests \cup job[w].result
    BY <1>1, <1>5
  <2>2. Sents' = Sents
    BY <1>1, <2>1, SentsKept
  <2> QED  BY <1>1, <2>2 DEF Items
<1>7. FlightInv'
  BY <1>1, <1>6 DEF FlowInv, FlightInv, InServer
<1>8. LimboRowInv'
  <2> SUFFICES ASSUME Limbo'
               PROVE  /\ \A v \in Workers : job'[v].pc = "record" => job'[v].task \in Joins
                      /\ status' = JoinByExternalCommit
    BY DEF LimboRowInv
  <2>1. Limbo
    BY <1>1 DEF Limbo
  <2>2. \A v \in Workers : job[v].pc = "record" => job[v].task \in Joins
    BY <2>1 DEF FlowInv, LimboRowInv
  <2>3. job[w].task \in Joins /\ job[w].task \in OwnOperations /\ job[w].task # "add_members"
    BY <1>1, <2>2 DEF Joins, OwnOperations
  <2> QED  BY <1>1, <1>2, <1>5, <2>2, <2>3, StatusAfterOwn
<1>9. StatusInv'
  <2>1. AllJoins' <=> AllJoins
    BY <1>6 DEF AllJoins
  <2>2. CASE job[w].task \notin OwnOperations
    <3>1. StatusAfter(job[w].task) = OpNone
      BY <1>3, <2>2, StatusAfterIs
    <3>2. status' = OpNone
      <4>1. job[w].task # "add_members"
        BY <2>2 DEF OwnOperations
      <4> QED  BY <1>1, <3>1, <4>1
    <3> QED  BY <3>2 DEF StatusInv, OpNone, JoinByExternalCommit, UpdateTree
  <2>3. CASE job[w].task \in OwnOperations
    <3>1. ~\E v \in Workers : Resetting(job[v])
      BY <1>4, <2>3 DEF RowInv, RowJobOK, Resetting
    <3>2. ASSUME job[w].task # "create_group"
          PROVE  /\ Items # {}
                 /\ \A x \in Items : x.kind = "join" <=> job[w].task \in Joins
      <4>1. PICK r : r \in job[w].result
        BY <1>1, <2>3, <3>2 DEF FlowInv, ResultOK
      <4>2. r \in Sents /\ (r.kind = "join" <=> job[w].task \in Joins)
        BY <4>1, SentsAre DEF FlowInv, ResultOK
      <4>3. Items = {r}
        BY <4>2 DEF Items, FlowInv, FlightInv
      <4> QED  BY <4>2, <4>3
    <3>3. CASE job[w].task = "add_members" /\ status # OpNone
      BY <1>1, <1>6, <2>1, <3>1, <3>3 DEF FlowInv, StatusInv
    <3>4. CASE ~(job[w].task = "add_members" /\ status # OpNone)
      <4>1. status' = StatusAfter(job[w].task)
        BY <1>1, <3>4
      <4>2. CASE job[w].task = "create_group"
        <5>1. status' = CreateGroup
          BY <2>3, <4>1, <4>2, StatusAfterOwn
        <5> QED  BY <5>1 DEF StatusInv, CreateGroup, JoinByExternalCommit, UpdateTree
      <4>3. CASE job[w].task \in Joins
        <5>1. status' = JoinByExternalCommit /\ job[w].task # "create_group"
          BY <2>3, <4>1, <4>3, StatusAfterOwn DEF Joins
        <5>2. Items' # {} /\ AllJoins'
          BY <1>6, <3>2, <4>3, <5>1 DEF AllJoins
        <5> QED  BY <5>1, <5>2 DEF StatusInv, JoinByExternalCommit, UpdateTree
      <4>4. CASE job[w].task \notin Joins \cup {"create_group"}
        <5>1. status' = UpdateTree
          BY <2>3, <4>1, <4>4, StatusAfterOwn
        <5>2. Items' # {} /\ \A x \in Items' : x.kind # "join"
          BY <1>6, <3>2, <4>4
        <5> QED  BY <5>1, <5>2 DEF StatusInv, JoinByExternalCommit, UpdateTree
      <4> QED  BY <4>2, <4>3, <4>4
    <3> QED  BY <3>3, <3>4
  <2> QED  BY <2>2, <2>3
<1>10. Later
  <2>1. own \in Nat /\ server \in Seq(Commits) /\ Len(server) \in Nat
    BY ServerIs
  <2>2. Begins(server, server)
    BY <2>1 DEF Begins
  <2> QED  BY <1>1, <2>1, <2>2 DEF Later, Limbo
<1>11. ASSUME NEW v \in Workers PROVE ResultOK(job[v])' /\ AppOK(job[v])' /\ BatchOK(job[v])'
  <2>1. CASE v = w
    <3>1. job'[v] = Idle
      BY <1>2, <2>1
    <3>2. ResultOK(job[v])' /\ AppOK(job[v])'
      BY <1>5, <3>1 DEF ResultOK, AppOK
    <3>3. BatchOK(Idle)'
      BY <1>5, PlainBatch
    <3>4. BatchOK(job[v])'
      BY <3>1, <3>3 DEF BatchOK
    <3> QED  BY <3>2, <3>4
  <2>2. CASE v # w
    <3>1. job'[v] = job[v] /\ (job[v].pc = "idle" \/ job[v].task \notin Recorders)
      BY <1>2, <1>4, <2>2
    <3>2. ResultOK(job[v]) /\ AppOK(job[v]) /\ BatchOK(job[v])
      BY DEF FlowInv
    <3>3. ResultOK(job[v])'
      BY <3>1, <3>2 DEF ResultOK, Recorders
    <3>4. AppOK(job[v])'
      BY <3>1 DEF AppOK, Recorders
    <3>5. BatchOK(job[v])'
      BY <1>10, <3>1, <3>2, BatchStays
    <3> QED  BY <3>3, <3>4, <3>5
  <2> QED  BY <2>1, <2>2
<1> QED  BY <1>6, <1>7, <1>8, <1>9, <1>11 DEF FlowInv

\* The server and the other members.
LEMMA ServerFlow ==
    ASSUME IInv, DataInv, FlowInv,
           \/ \E r \in requests : ServerHandles(r)
           \/ \E adds \in BOOLEAN : PeerCommits(adds)
    PROVE  DataInv' /\ FlowInv'
<1>1. UNCHANGED <<mls, keys, status, opened, job, own>>
  BY DEF ServerHandles, PeerCommits
<1>2. own \in Nat
  BY ServerIs
<1>3. CASE \E r \in requests : ServerHandles(r)
  <2>1. PICK r \in requests : ServerHandles(r)
    BY <1>3
  <2>2. /\ DataInv' /\ (Limbo' => Limbo) /\ Begins(server, server') /\ server' \in Seq(Commits)
        /\ \A a \in answers' : a.ok <=> InServer(a.commit)'
    BY <2>1, HandlesData
  <2>3. Sents' = {} /\ Items' = answers'
    BY <2>1, HandlesIs
  <2>4. PICK a : answers' = {a} /\ a.kind = r.kind /\ a.commit = r.commit
    BY <2>1, HandlesIs
  <2>5. Items = {r} /\ answers = {} /\ r \in Sents /\ \A v \in Workers : job[v].result = {}
    BY <2>1, SentsOfOne
  <2>6. a.commit.by = "self"
    BY <2>4, <2>5, SentIs
  <2>7. FlightInv'
    BY <2>2, <2>3, <2>4, <2>6 DEF FlightInv, InServer
  <2>8. LimboRowInv'
    BY <1>1, <2>2 DEF FlowInv, LimboRowInv
  <2>9. StatusInv'
    <3>1. Items' = {a}
      BY <2>3, <2>4
    <3>2. AllJoins' <=> AllJoins
      BY <2>4, <2>5, <3>1 DEF AllJoins
    <3> QED  BY <1>1, <2>4, <2>5, <3>1, <3>2 DEF FlowInv, StatusInv
  <2>10. Later
    BY <1>1, <1>2, <2>2 DEF Later
  <2>11. ASSUME NEW v \in Workers PROVE ResultOK(job[v])' /\ AppOK(job[v])' /\ BatchOK(job[v])'
    <3>1. ResultOK(job[v]) /\ AppOK(job[v]) /\ BatchOK(job[v]) /\ job'[v] = job[v]
      BY <1>1 DEF FlowInv
    <3>2. ResultOK(job[v])'
      BY <2>5, <3>1 DEF ResultOK
    <3>3. AppOK(job[v])'
      BY <2>1, <2>5, <3>1 DEF AppOK
    <3>4. BatchOK(job[v])'
      BY <2>10, <3>1, BatchStays
    <3> QED  BY <3>2, <3>3, <3>4
  <2> QED  BY <2>2, <2>7, <2>8, <2>9, <2>11 DEF FlowInv
<1>4. CASE \E adds \in BOOLEAN : PeerCommits(adds)
  <2>1. PICK adds \in BOOLEAN : PeerCommits(adds)
    BY <1>4
  <2>2. /\ DataInv' /\ (Limbo' => Limbo) /\ Begins(server, server') /\ server' \in Seq(Commits)
        /\ \A c : c.by = "self" => (InServer(c)' <=> InServer(c))
    BY <2>1, PeerData
  <2>3. requests' = requests /\ answers' = answers
    BY <2>1 DEF PeerCommits
  <2>4. Sents' = Sents /\ Items' = Items
    BY <1>1, <2>3 DEF Sents, Items
  <2>5. FlightInv'
    <3>1. \A a \in answers : a.commit.by = "self" /\ (a.ok <=> InServer(a.commit))
      BY DEF FlowInv, FlightInv
    <3>2. \A a \in answers : a.ok <=> InServer(a.commit)'
      BY <2>2, <3>1
    <3>3. \A a \in answers' : a.commit.by = "self" /\ (a.ok <=> InServer(a.commit)')
      BY <2>3, <3>1, <3>2
    <3> QED  BY <2>3, <2>4, <3>3 DEF FlowInv, FlightInv, InServer
  <2>6. LimboRowInv'
    BY <1>1, <2>2 DEF FlowInv, LimboRowInv
  <2>7. StatusInv'
    BY <1>1, <2>4 DEF FlowInv, StatusInv, AllJoins
  <2>8. Later
    BY <1>1, <1>2, <2>2 DEF Later
  <2>9. ASSUME NEW v \in Workers PROVE ResultOK(job[v])' /\ AppOK(job[v])' /\ BatchOK(job[v])'
    <3>1. ResultOK(job[v]) /\ AppOK(job[v]) /\ BatchOK(job[v]) /\ job'[v] = job[v]
      BY <1>1 DEF FlowInv
    <3>2. ResultOK(job[v])' /\ AppOK(job[v])'
      BY <2>3, <3>1 DEF ResultOK, AppOK
    <3>3. BatchOK(job[v])'
      BY <2>8, <3>1, BatchStays
    <3> QED  BY <3>2, <3>3
  <2> QED  BY <2>2, <2>5, <2>6, <2>7, <2>9 DEF FlowInv
<1> QED  BY <1>3, <1>4

\* A step that leaves the group what it is.
LEMMA Steady ==
    ASSUME IInv, Same, UNCHANGED <<server, own>>
    PROVE  Later /\ (Limbo' <=> Limbo)
<1>1. Limbo' <=> Limbo
  BY DEF Same, Limbo
<1>2. Begins(server, server)
  BY ServerIs DEF Begins
<1> QED  BY <1>1, <1>2, ServerIs DEF Later, Same, Limbo

\* Where a batch has nothing to settle, what it has in memory is a group of
\* its own.
LEMMA MemoryBatch ==
    ASSUME NEW j, j.pc \notin {"load", "decide", "settle", "reset"},
           j.pc \in {"status", "context"} => j.pos = 0,
           j.mem # Absent =>
              Known(j.mem.hist, own) /\ (j.mem.pending = NoCommit \/ OwnOK(j.mem.pending, own))
    PROVE  BatchOK(j) /\ (own' = own => BatchOK(j)')
BY DEF BatchOK

LEMMA SameTrust ==
    ASSUME IInv, DataInv, FlowInv, Same, NEW w \in Workers, NEW j, job' = [job EXCEPT ![w] = j],
           job[w].pc # "record", j.pc # "record", j.result = {}, AppOK(j), BatchOK(j),
           UNCHANGED <<server, keys, opened, own, requests, answers>>,
           status' = status \/ (status' = OpNone /\ ~Limbo)
    PROVE  DataInv' /\ FlowInv'
<1>1. Later /\ (Limbo' <=> Limbo)
  BY Steady
<1>2. BatchOK(j)'
  <2>1. Elsewhere(j.mem) => Elsewhere(j.mem)'
    BY <1>1 DEF Elsewhere, Same, Limbo
  <2>2. MergeOK(j.mem) => MergeOK(j.mem)'
    BY DEF MergeOK, Same, OwnAt
  <2> QED  BY <2>1, <2>2 DEF BatchOK, OwnAt
<1>3. FlowInv' /\ Sents' = Sents
  BY <1>1, <1>2, QuietFlow
<1> QED  BY <1>3, SameData

LEMMA JobOnlyTrust ==
    ASSUME IInv, DataInv, FlowInv, NEW w \in Workers, NEW j, job' = [job EXCEPT ![w] = j],
           KeepsAll, job[w].pc # "record", j.pc # "record", j.result = {}, AppOK(j), BatchOK(j)
    PROVE  DataInv' /\ FlowInv'
<1>1. UNCHANGED <<server, mls, keys, opened, own, requests, answers, status>>
  BY DEF KeepsAll, KeepsData
<1>2. Same
  BY <1>1 DEF Same
<1> QED  BY <1>1, <1>2, SameTrust

LEMMA IdleTrust == AppOK(Idle) /\ BatchOK(Idle) /\ Idle.pc = "idle" /\ Idle.result = {}
<1>1. Idle.pc = "idle" /\ Idle.result = {} /\ Idle.mem = Absent
  BY DEF Idle
<1> QED  BY <1>1, MemoryBatch DEF AppOK

LEMMA ReturnTrust ==
    ASSUME IInv, DataInv, FlowInv, NEW w \in Workers, Return(w), KeepsAll, job[w].pc # "record"
    PROVE  DataInv' /\ FlowInv'
BY IdleTrust, JobOnlyTrust DEF Return

\* The steps before a transaction, and those of a query.
LEMMA BeforeTrust ==
    ASSUME IInv, DataInv, FlowInv, NEW w \in Workers,
           \/ CheckAbsent(w) \/ Begin(w) \/ TaskFails(w) \/ ReaddChecks(w) \/ Query(w)
           \/ Submit(w)
    PROVE  DataInv' /\ FlowInv'
<1>1. CASE \/ TaskFails(w) \/ Resolve(w)
           \/ CheckAbsent(w) /\ mls # Absent
           \/ ReaddChecks(w) /\ status # OpNone
  <2>1. Return(w) /\ KeepsAll /\ job[w].pc # "record"
    BY <1>1 DEF TaskFails, Resolve, CheckAbsent, ReaddChecks, At
  <2> QED  BY <2>1, ReturnTrust
<1>2. ASSUME NEW j, job' = [job EXCEPT ![w] = j], KeepsAll,
             job[w].pc \in {"check", "begin", "status", "context"},
             j.pc \in {"begin", "work", "context", "answer"},
             j.task = job[w].task, j.mem = job[w].mem, j.result = job[w].result,
             j.pos = job[w].pos \/ j.pc = "answer",
             j.pc = "context" => job[w].pc = "status",
             j.pc \in {"begin", "work"} =>
                 job[w].pc \in {"check", "begin"} \/ job[w].task \in OwnOperations
      PROVE  DataInv' /\ FlowInv'
  <2>1. BatchOK(job[w]) /\ ResultOK(job[w]) /\ AppOK(job[w])
    BY DEF FlowInv
  <2>2. j.result = {}
    BY <1>2, <2>1 DEF ResultOK
  <2>3. BatchOK(j)
    BY <1>2, <2>1 DEF BatchOK
  <2>4. AppOK(j)
    BY <1>2, <2>1 DEF AppOK, OwnOperations
  <2> QED  BY <1>2, <2>2, <2>3, <2>4, JobOnlyTrust
<1>3. DOMAIN job[w] = Fields /\ DOMAIN Idle = Fields
  BY JobIs, IdleIs
<1>4. CASE CheckAbsent(w) /\ mls = Absent
  <2> DEFINE j == [job[w] EXCEPT !.pc = "begin", !.seen = opened]
  <2>1. job' = [job EXCEPT ![w] = j] /\ KeepsAll /\ job[w].pc = "check"
    BY <1>4 DEF CheckAbsent, At
  <2>2. /\ j.pc = "begin" /\ j.task = job[w].task /\ j.mem = job[w].mem
        /\ j.result = job[w].result /\ j.pos = job[w].pos
    BY <1>3 DEF Fields
  <2> HIDE DEF j
  <2> QED  BY <1>2, <2>1, <2>2
<1>5. CASE Begin(w)
  <2> DEFINE j == [job[w] EXCEPT !.pc = "work", !.view = mls]
  <2>1. job' = [job EXCEPT ![w] = j] /\ KeepsAll /\ job[w].pc = "begin"
    BY <1>5 DEF Begin, At
  <2>2. /\ j.pc = "work" /\ j.task = job[w].task /\ j.mem = job[w].mem
        /\ j.result = job[w].result /\ j.pos = job[w].pos
    BY <1>3 DEF Fields
  <2> HIDE DEF j
  <2> QED  BY <1>2, <2>1, <2>2
<1>6. CASE ReaddChecks(w) /\ status = OpNone
  <2> DEFINE j == [job[w] EXCEPT !.pc = "begin"]
  <2>1. job' = [job EXCEPT ![w] = j] /\ KeepsAll /\ job[w].pc = "status" /\ job[w].task = "readd"
    BY <1>6 DEF ReaddChecks, At, Goto
  <2>2. /\ j.pc = "begin" /\ j.task = job[w].task /\ j.mem = job[w].mem
        /\ j.result = job[w].result /\ j.pos = job[w].pos
    BY <1>3 DEF Fields
  <2> HIDE DEF j
  <2>3. job[w].task \in OwnOperations
    BY <2>1 DEF OwnOperations
  <2> QED  BY <1>2, <2>1, <2>2, <2>3
<1>7. CASE ReadStatus(w)
  <2> DEFINE j == [job[w] EXCEPT !.pc = "context", !.op = status]
  <2>1. job' = [job EXCEPT ![w] = j] /\ KeepsAll /\ job[w].pc = "status"
    BY <1>7 DEF ReadStatus, At
  <2>2. /\ j.pc = "context" /\ j.task = job[w].task /\ j.mem = job[w].mem
        /\ j.result = job[w].result /\ j.pos = job[w].pos
    BY <1>3 DEF Fields
  <2> HIDE DEF j
  <2> QED  BY <1>2, <2>1, <2>2
<1>8. ASSUME NEW result, Answers(w, result) PROVE DataInv' /\ FlowInv'
  <2> DEFINE j == [job[w] EXCEPT !.pc = "answer", !.pos = result]
  <2>1. job' = [job EXCEPT ![w] = j] /\ KeepsAll /\ job[w].pc = "context"
    BY <1>8 DEF Answers, At
  <2>2. /\ j.pc = "answer" /\ j.task = job[w].task /\ j.mem = job[w].mem
        /\ j.result = job[w].result
    BY <1>3 DEF Fields
  <2> HIDE DEF j
  <2> QED  BY <1>2, <2>1, <2>2
<1>9. ASSUME NEW j, job' = [job EXCEPT ![w] = j], KeepsAll, job[w].pc = "idle",
             j.pc \in {"check", "status", "work"}, j.mem = Absent, j.pos = 0, j.result = {},
             j.task \in OwnOperations => Settled,
             j.pc # "status" /\ j.task = "merge_pending_commit" => \E a \in answers : a.ok,
             j.pc # "status" /\ j.task = "clear_pending_commit" =>
                 \E a \in answers : ~a.ok /\ a.kind = "update"
      PROVE  DataInv' /\ FlowInv'
  <2>1. AppOK(j)
    BY <1>9 DEF AppOK, Settled
  <2>2. BatchOK(j)
    BY <1>9, MemoryBatch
  <2> QED  BY <1>9, <2>1, <2>2, JobOnlyTrust
<1>10. Idle.mem = Absent /\ Idle.pos = 0 /\ Idle.result = {}
  BY DEF Idle
<1>11. ASSUME NEW task, NEW pc \in {"check", "status"}, Start(w, task, pc),
              task \in OwnOperations => Settled,
              task \notin {"merge_pending_commit", "clear_pending_commit"}
       PROVE  DataInv' /\ FlowInv'
  <2> DEFINE j == [Idle EXCEPT !.task = task, !.pc = pc]
  <2>1. job' = [job EXCEPT ![w] = j] /\ KeepsAll /\ job[w].pc = "idle"
    BY <1>11 DEF Start, At
  <2>2. /\ j.pc = pc /\ j.task = task /\ j.mem = Idle.mem /\ j.pos = Idle.pos
        /\ j.result = Idle.result
    BY <1>3 DEF Fields
  <2> HIDE DEF j
  <2> QED  BY <1>9, <1>10, <1>11, <2>1, <2>2
<1>12. ASSUME NEW task, StartTransaction(w, task), task \in OwnOperations => Settled,
              task = "merge_pending_commit" => \E a \in answers : a.ok,
              task = "clear_pending_commit" => \E a \in answers : ~a.ok /\ a.kind = "update"
       PROVE  DataInv' /\ FlowInv'
  <2> DEFINE j == [Idle EXCEPT !.task = task, !.pc = "work", !.view = mls]
  <2>1. job' = [job EXCEPT ![w] = j] /\ KeepsAll /\ job[w].pc = "idle"
    BY <1>12 DEF StartTransaction, At
  <2>2. /\ j.pc = "work" /\ j.task = task /\ j.mem = Idle.mem /\ j.pos = Idle.pos
        /\ j.result = Idle.result
    BY <1>3 DEF Fields
  <2> HIDE DEF j
  <2> QED  BY <1>9, <1>10, <1>12, <2>1, <2>2
<1>13. CASE SubmitBatch(w)
  <2> DEFINE j == [Idle EXCEPT !.task = "process_all_messages", !.pc = "load", !.pos = 2,
                               !.end = Len(server)]
  <2>1. job' = [job EXCEPT ![w] = j] /\ KeepsAll /\ job[w].pc = "idle" /\ server # <<>>
    BY <1>13 DEF SubmitBatch, At
  <2>2. /\ j.pc = "load" /\ j.task = "process_all_messages" /\ j.mem = Idle.mem
        /\ j.result = Idle.result
    BY <1>3 DEF Fields
  <2> HIDE DEF j
  <2>3. AppOK(j)
    BY <2>2 DEF AppOK, OwnOperations
  <2>4. BatchOK(j)
    BY <1>10, <2>1, <2>2 DEF BatchOK
  <2> QED  BY <1>10, <2>1, <2>2, <2>3, <2>4, JobOnlyTrust
<1>14. CASE Submit(w)
  <2>1. CASE SubmitCreate(w)
    BY <1>11, <2>1 DEF SubmitCreate
  <2>2. CASE SubmitReadd(w)
    BY <1>11, <2>2 DEF SubmitReadd
  <2>3. ASSUME NEW task, SubmitOperation(w, task) PROVE DataInv' /\ FlowInv'
    BY <1>12, <2>3 DEF SubmitOperation, OwnOperations
  <2>4. ASSUME NEW task, SubmitSettlement(w, task) PROVE DataInv' /\ FlowInv'
    <3>1. /\ StartTransaction(w, task) /\ task \notin OwnOperations
          /\ task = "merge_pending_commit" => \E a \in answers : a.ok
          /\ task = "clear_pending_commit" => \E a \in answers : ~a.ok /\ a.kind = "update"
      BY <2>4 DEF SubmitSettlement, OwnOperations
    <3> QED  BY <1>12, <3>1
  <2>5. ASSUME NEW task, SubmitMessage(w, task) PROVE DataInv' /\ FlowInv'
    <3>1. /\ StartTransaction(w, task) /\ task \notin OwnOperations
          /\ task # "merge_pending_commit" /\ task # "clear_pending_commit"
      BY <2>5 DEF SubmitMessage, Messages, OwnOperations
    <3> QED  BY <1>12, <3>1
  <2>6. ASSUME NEW task, SubmitQuery(w, task) PROVE DataInv' /\ FlowInv'
    <3>1. /\ Start(w, task, "status") /\ task \notin OwnOperations
          /\ task # "merge_pending_commit" /\ task # "clear_pending_commit"
      BY <2>6 DEF SubmitQuery, Queries, OwnOperations
    <3> QED  BY <1>11, <3>1
  <2> QED  BY <1>13, <1>14, <2>1, <2>2, <2>3, <2>4, <2>5, <2>6 DEF Submit
<1>15. CASE Query(w)
  BY <1>1, <1>7, <1>8, <1>15
  DEF Query, GroupEpochTask, GroupEpochsTask, GroupContextTask, GroupContextsTask
<1> QED  BY <1>1, <1>4, <1>5, <1>6, <1>14, <1>15

\* The group goes on to one that the server has had.
LEMMA GainTrust ==
    ASSUME IInv, DataInv, FlowInv, NEW w \in Workers, NEW j, job' = [job EXCEPT ![w] = j],
           job[w].pc # "record", j.pc # "record", j.result = {}, AppOK(j), BatchOK(j)',
           NEW t \in Seq(Commits), Member(t), Begins(t, server), mls' = NewGroup(t),
           \A u : Past(u) => u # t /\ Past(u)',
           UNCHANGED <<server, own, requests, answers, status>>
    PROVE  DataInv' /\ FlowInv'
<1>1. mls' # Absent /\ mls'.hist = t /\ mls'.pending = NoCommit
  BY NewGroupIs DEF GroupOK
<1>2. server \in Seq(Commits) /\ Begins(server, server) /\ own \in Nat
  BY ServerIs DEF Begins
<1>3. ~Open(t, server) /\ ~Limbo'
  BY <1>1, <1>2, BeginsNotOpen DEF Limbo
<1>4. Later
  BY <1>1, <1>2, <1>3 DEF Later
<1>5. FlowInv' /\ Sents' = Sents
  BY <1>3, <1>4, QuietFlow
<1>6. HistOK(t, server)
  BY DEF HistOK
<1> QED  BY <1>1, <1>3, <1>5, <1>6, GainData

\* The epoch of a Welcome.
LEMMA WelcomeGains ==
    ASSUME IInv, NEW i \in 1 .. Len(server), server[i].adds, i \notin opened,
           NEW r \in process_welcome(i), mls' = r.group,
           keys' = write_encryption_epoch_key_pairs(keys, r.group),
           opened' = opened \cup {i}, own' = own
    PROVE  \E t \in Seq(Commits) :
               /\ Member(t) /\ Begins(t, server) /\ Known(t, own) /\ mls' = NewGroup(t)
               /\ \A u : Past(u) => u # t /\ Past(u)'
<1> DEFINE t == SubSeq(server, 1, i)
<1>1. server \in Seq(Commits) /\ Known(server, own) /\ own \in Nat /\ Len(server) \in Nat
  BY ServerIs
<1>2. /\ t \in Seq(Commits) /\ Len(t) = i
      /\ \A k \in 1 .. i : t[k] = server[k]
  BY <1>1, SubSeqAt
<1>3. mls' = NewGroup(t)
  BY DEF process_welcome, Result
<1> HIDE DEF t
<1>4. keys' = keys \cup {t}
  BY <1>2, <1>3, NewGroupIs DEF write_encryption_epoch_key_pairs
<1>5. Member(t) /\ Known(t, own) /\ Begins(t, server)
  BY <1>1, <1>2 DEF Member, Known, Begins
<1>6. \A u : EpochOK(u, opened, own) => u # t /\ LeftOnce(t, u)
  BY <1>2, WelcomeIsNew
<1>7. \A u : Past(u) => u # t /\ Past(u)'
  BY <1>1, <1>4, <1>6, PastNew
<1> QED  BY <1>2, <1>3, <1>5, <1>7

LEMMA MessageTrust ==
    ASSUME IInv, DataInv, FlowInv, NEW w \in Workers, Message(w), Undisturbed'
    PROVE  DataInv' /\ FlowInv'
<1>1. job[w].pc = "work" /\ job' = [job EXCEPT ![w] = Idle]
  BY DEF Message, EncryptMessageTask, ProcessOperationMessageTask, CommitToProposal,
         ProcessManyOperationMessagesTask, ProcessApplicationMessageTask,
         ProcessProposalMessageTask, LeaveGroupTask, UpdateGroupConfigTask, ProcessWelcomeTask,
         Receives, Working, At, ThenReturn, Return
<1>2. AppOK(Idle) /\ BatchOK(Idle) /\ Idle.pc = "idle" /\ Idle.result = {}
  BY IdleTrust
<1>3. own' = own => BatchOK(Idle)'
  BY MemoryBatch DEF Idle
<1>4. CASE EncryptMessageTask(w)
  <2>1. /\ mls # Absent /\ mls' = [mls EXCEPT !.sent = @ + 1]
        /\ UNCHANGED <<server, keys, opened, own, requests, answers, status>>
    BY <1>4 DEF EncryptMessageTask, SnapshotIsCurrent, encrypt_message, Result, ThenReturn
  <2>2. GroupOK(mls)
    BY <2>1, StoredIs
  <2>3. mls'.hist = mls.hist /\ mls'.pending = mls.pending
        /\ DOMAIN mls' = {"hist", "pending", "sent"}
    BY <2>1, <2>2, GroupIs
  <2>4. DOMAIN Absent = {"absent"}
    BY DEF Absent
  <2>5. Same
    BY <2>1, <2>3, <2>4 DEF Same
  <2> QED  BY <1>1, <1>2, <2>1, <2>5, SameTrust
<1>5. CASE CommitToProposal(w)
  BY <1>5 DEF CommitToProposal, Undisturbed
<1>6. CASE ProcessOperationMessageTask(w) \/ ProcessManyOperationMessagesTask(w)
  <2>1. PICK r : /\ mls' = r.group
                 /\ \/ r \in process_operation_message(mls, keys)
                    \/ r \in process_many_operation_messages(mls, keys)
                 /\ keys' = NextEpochKeys(keys, mls, r.group)
                 /\ own' = IF r.commit = NoCommit THEN own ELSE r.commit.n
    BY <1>6 DEF ProcessOperationMessageTask, ProcessManyOperationMessagesTask, Receives,
                Transaction, SnapshotIsCurrent
  <2>2. UNCHANGED <<server, opened, requests, answers, status>>
    BY <1>6 DEF ProcessOperationMessageTask, ProcessManyOperationMessagesTask, Receives,
                Transaction, ThenReturn
  <2>3. /\ mls # Absent /\ r.commit = NoCommit
        /\ \E t : Advances(mls.hist, t, own) /\ Begins(t, server) /\ r.group = NewGroup(t)
    BY <2>1, ReceivedIs
  <2>4. PICK t : Advances(mls.hist, t, own) /\ Begins(t, server) /\ r.group = NewGroup(t)
    BY <2>3
  <2>5. own' = own
    BY <2>1, <2>3
  <2>6. t \in Seq(Commits) /\ mls.hist \in keys
    BY <2>3, <2>4, StoredIs DEF Advances
  <2>7. keys' \subseteq keys \cup {t}
    BY <2>1, <2>4, <2>6, NewGroupIs
    DEF NextEpochKeys, delete_encryption_epoch_key_pairs, write_encryption_epoch_key_pairs
  <2>8. Member(t) /\ \A u : Past(u) => u # t /\ Past(u)'
    BY <2>2, <2>4, <2>5, <2>6, <2>7, PastAdvance
  <2>9. mls' = NewGroup(t)
    BY <2>1, <2>4
  <2> QED  BY <1>1, <1>2, <1>3, <2>2, <2>4, <2>5, <2>6, <2>8, <2>9, GainTrust
<1>7. CASE \/ ProcessApplicationMessageTask(w) \/ ProcessProposalMessageTask(w)
           \/ LeaveGroupTask(w) \/ UpdateGroupConfigTask(w)
  <2>1. Receives(w, Unchanged(View(w)))
    BY <1>7 DEF ProcessApplicationMessageTask, ProcessProposalMessageTask, LeaveGroupTask,
                UpdateGroupConfigTask, process_application_message,
                process_proposal_message, leave_group, update_group_config
  <2>2. Transaction(w, Unchanged(mls)) /\ UNCHANGED <<requests, answers>>
    BY <2>1 DEF Receives, Transaction, SnapshotIsCurrent, ThenReturn
  <2>3. PICK r \in Unchanged(mls) : /\ mls' = r.group
                                    /\ keys' = NextEpochKeys(keys, View(w), r.group)
                                    /\ own' = IF r.commit = NoCommit THEN own ELSE r.commit.n
    BY <2>2 DEF Transaction
  <2>4. r.group = mls /\ r.commit = NoCommit /\ View(w) = mls
    BY <2>2 DEF Unchanged, Result, Transaction, SnapshotIsCurrent
  <2>5. UNCHANGED <<server, mls, keys, opened, own, requests, answers, status>>
    BY <2>2, <2>3, <2>4 DEF Transaction, NextEpochKeys
  <2>6. Same
    BY <2>5 DEF Same
  <2> QED  BY <1>1, <1>2, <2>5, <2>6, SameTrust
<1>8. CASE ProcessWelcomeTask(w)
  <2>1. PICK i \in Welcomes : Replacement(w, process_welcome(i)) /\ opened' = opened \cup {i}
    BY <1>8 DEF ProcessWelcomeTask
  <2>2. i \in 1 .. Len(server) /\ server[i].adds /\ i \notin opened
    BY DEF Welcomes, IInv, NetworkInv
  <2>3. PICK r \in process_welcome(i) :
               mls' = r.group /\ keys' = write_encryption_epoch_key_pairs(keys, r.group)
    BY <2>1 DEF Replacement
  <2>4. UNCHANGED <<server, own, requests, answers, status>>
    BY <1>8, <2>1 DEF Replacement, ProcessWelcomeTask, ThenReturn
  <2>5. PICK t \in Seq(Commits) : /\ Member(t) /\ Begins(t, server) /\ mls' = NewGroup(t)
                                  /\ \A u : Past(u) => u # t /\ Past(u)'
    BY <2>1, <2>2, <2>3, <2>4, WelcomeGains
  <2> QED  BY <1>1, <1>2, <1>3, <2>4, <2>5, GainTrust
<1> QED  BY <1>4, <1>5, <1>6, <1>7, <1>8 DEF Message

\* What a task returns of a commit.
Staged(g, c) ==
    [kind |-> IF Len(g.hist) = 1 THEN "create" ELSE "update", base |-> g.hist, commit |-> c]

LEMMA StagedRequest ==
    ASSUME NEW g, NEW c
    PROVE  /\ c # NoCommit => Requests(g, c, FALSE) = {Staged(g, c)}
           /\ Staged(g, c).commit = c /\ Staged(g, c).kind # "join" /\ Staged(g, c).base = g.hist
           /\ Staged(g, c).kind = "create" => Len(g.hist) = 1
BY DEF Requests, Staged

LEMMA JoinRequest ==
    ASSUME NEW g, NEW c, c # NoCommit
    PROVE  \E r : /\ Requests(g, c, TRUE) = {r} /\ r.commit = c /\ r.kind = "join"
                  /\ r.base = Front(g.hist)
<1> DEFINE r == [kind |-> "join", base |-> Front(g.hist), commit |-> c]
<1>1. Requests(g, c, TRUE) = {r}
  BY DEF Requests
<1>2. r.kind = "join" /\ r.base = Front(g.hist) /\ r.commit = c
  OBVIOUS
<1> HIDE DEF r
<1> QED  BY <1>1, <1>2

\* The job that goes on to the row.
LEMMA RecordingJob ==
    ASSUME IInv, NEW w \in Workers, NEW join \in BOOLEAN, ThenRecord(w, join)
    PROVE  \E j : /\ job' = [job EXCEPT ![w] = j] /\ j.pc = "record" /\ j.task = job[w].task
                  /\ j.mem = Absent
                  /\ j.result = Requests(mls', IF own' = own THEN NoCommit ELSE Own(own'), join)
<1> DEFINE S == Requests(mls', IF own' = own THEN NoCommit ELSE Own(own'), join)
           j == [Idle EXCEPT !.task = job[w].task, !.pc = "record", !.result = S]
<1>1. job' = [job EXCEPT ![w] = j]
  BY DEF ThenRecord
<1> HIDE DEF S
<1>2. j.pc = "record" /\ j.task = job[w].task /\ j.mem = Idle.mem /\ j.result = S
  BY IdleIs DEF Fields
<1>3. Idle.mem = Absent
  BY DEF Idle
<1> HIDE DEF j
<1>4. j.pc = "record" /\ j.task = job[w].task /\ j.mem = Absent /\ j.result = S
  BY <1>2, <1>3
<1> QED  BY <1>1, <1>4 DEF S

LEMMA RecordingBatch ==
    ASSUME NEW j, j.pc = "record", j.mem = Absent
    PROVE  BatchOK(j)'
BY DEF BatchOK

LEMMA StageTrust ==
    ASSUME OneRecorder, IInv, RowInv, DataInv, FlowInv, NEW w \in Workers,
           job[w].pc = "work", job[w].task \in OwnOperations \ (Joins \cup {"create_group"}),
           Stages(w, StageCommit(View(w)))
    PROVE  DataInv' /\ FlowInv'
<1>1. Sents = {} /\ Items = {}
  BY NothingSent
<1>2. PICK r \in StageCommit(mls) : mls' = r.group /\ keys' = NextEpochKeys(keys, mls, r.group)
                                    /\ own' = IF r.commit = NoCommit THEN own ELSE r.commit.n
  BY DEF Stages, Transaction, SnapshotIsCurrent
<1>3. UNCHANGED <<server, status, opened, answers, requests>>
  BY DEF Stages, Transaction, ThenRecord
<1>4. /\ mls # Absent /\ mls.pending = NoCommit
      /\ r.group = [mls EXCEPT !.pending = Own(own + 1)] /\ r.commit = Own(own + 1)
  BY <1>2 DEF StageCommit, Result
<1>5. /\ GroupOK(mls) /\ own \in Nat /\ own + 1 \in Nat
      /\ Own(own + 1) # NoCommit /\ Own(own + 1).n = own + 1
  <2>1. GroupOK(mls) /\ own \in Nat /\ own + 1 \in Nat
    BY <1>4, StoredIs
  <2> QED  BY <2>1, OwnIs
<1>6. own' = own + 1 /\ own' # own
  BY <1>2, <1>4, <1>5
<1>7. /\ mls'.hist = mls.hist /\ mls'.pending = Own(own + 1)
      /\ DOMAIN mls' = {"hist", "pending", "sent"}
  BY <1>2, <1>4, <1>5, GroupIs
<1>8. mls' # Absent
  <2>1. DOMAIN Absent = {"absent"}
    BY DEF Absent
  <2> QED  BY <1>7, <2>1
<1>9. keys' = keys
  BY <1>2, <1>7 DEF NextEpochKeys
<1>10. PICK j : /\ job' = [job EXCEPT ![w] = j] /\ j.pc = "record" /\ j.task = job[w].task
                /\ j.mem = Absent
                /\ j.result = Requests(mls', IF own' = own THEN NoCommit ELSE Own(own'), FALSE)
  BY RecordingJob DEF Stages
<1>11. j.result = Requests(mls', Own(own + 1), FALSE)
  BY <1>6, <1>10
<1>12. PICK r0 : r0 = Staged(mls', Own(own + 1))
  OBVIOUS
<1>13. /\ j.result = {r0} /\ r0.commit = Own(own + 1) /\ r0.kind # "join"
       /\ r0.base = mls'.hist /\ (r0.kind = "create" => Len(mls'.hist) = 1)
  <2>1. Requests(mls', Own(own + 1), FALSE) = {Staged(mls', Own(own + 1))}
    BY <1>5, StagedRequest, Zenon
  <2>2. PICK g, c : g = mls' /\ c = Own(own + 1)
    OBVIOUS
  <2>3. /\ Staged(g, c).commit = c /\ Staged(g, c).kind # "join" /\ Staged(g, c).base = g.hist
        /\ Staged(g, c).kind = "create" => Len(g.hist) = 1
    BY StagedRequest
  <2>4. r0 = Staged(g, c)
    BY <1>12, <2>2
  <2> QED  BY <1>11, <1>12, <2>1, <2>2, <2>3, <2>4
<1>14. Sents' = {r0}
  <2>1. \A v \in Workers : job'[v] = IF v = w THEN j ELSE job[v]
    BY <1>10 DEF IInv, JobsInv
  <2>2. requests = {} /\ \A v \in Workers : job[v].result = {}
    BY NothingSent
  <2> QED  BY <1>3, <1>13, <2>1, <2>2 DEF Sents
<1>15. DataInv' /\ ~Limbo'
  BY <1>1, <1>3, <1>4, <1>6, <1>7, <1>8, <1>9, <1>13, <1>14, StageData
<1>16. Later
  <2>1. Begins(server, server) /\ server \in Seq(Commits)
    BY ServerIs DEF Begins
  <2> QED  BY <1>3, <1>5, <1>6, <1>7, <1>15, <2>1 DEF Later
<1>17. BatchOK(j)'
  BY <1>10, RecordingBatch
<1>18. /\ \A x, y \in j.result : x = y
       /\ \A x \in j.result : x.kind = "join" <=> j.task \in Joins
       /\ j.task # "create_group" => j.result # {}
  BY <1>10, <1>13
<1>19. FlowInv'
  BY <1>3, <1>10, <1>15, <1>16, <1>17, <1>18, OwnOperationFlow
<1> QED  BY <1>15, <1>19

LEMMA CreateTrust ==
    ASSUME OneRecorder, IInv, RowInv, DataInv, FlowInv, NEW w \in Workers, CreateGroupTask(w)
    PROVE  DataInv' /\ FlowInv'
<1> DEFINE t == <<Own(own + 1)>>
           j == [Idle EXCEPT !.task = "create_group", !.pc = "record"]
<1>1. /\ job[w].pc = "work" /\ job[w].task = "create_group"
      /\ \E r \in create_group : /\ mls' = r.group
                                 /\ keys' = write_encryption_epoch_key_pairs(keys, r.group)
      /\ own' = own + 1 /\ job' = [job EXCEPT ![w] = j]
      /\ UNCHANGED <<server, opened, requests, answers, status>>
  BY DEF CreateGroupTask, Working, At, Replacement
<1>2. own \in Nat /\ own + 1 \in Nat /\ server \in Seq(Commits) /\ Begins(server, server)
  BY ServerIs DEF Begins
<1>3. Own(own + 1) \in Commits /\ Own(own + 1).by = "self" /\ ~Own(own + 1).adds
  BY <1>2, OwnIs DEF OwnOK
<1>4. t \in Seq(Commits) /\ Len(t) = 1 /\ t[1] = Own(own + 1)
  BY <1>3
<1>5. mls' = NewGroup(t) /\ keys' = keys \cup {NewGroup(t).hist}
  BY <1>1 DEF create_group, Result, write_encryption_epoch_key_pairs
<1>6. t = t
  OBVIOUS
<1> HIDE DEF t
<1>7. mls' # Absent /\ mls'.hist = t /\ mls'.pending = NoCommit /\ keys' = keys \cup {t}
  BY <1>4, <1>5, NewGroupIs DEF GroupOK
<1>8. Member(t) /\ HistOK(t, server) /\ ~Open(t, server)
  <2>1. Member(t)
    BY <1>3, <1>4 DEF Member
  <2>2. Single(t)
    BY <1>3, <1>4 DEF Single
  <2>3. ~Open(t, server)
    BY <1>4 DEF Open
  <2> QED  BY <2>1, <2>2, <2>3 DEF HistOK
<1>9. \A u : Past(u) => u # t /\ Past(u)'
  <2>1. ASSUME NEW u, EpochOK(u, opened, own) PROVE u # t /\ LeftOnce(t, u)
    <3>1. 1 \in 1 .. Len(t) /\ t[1] = Own(own + 1)
      BY <1>4
    <3> QED  BY <1>2, <1>4, <2>1, <3>1, OwnEpochIsNew
  <2>2. opened \subseteq opened' /\ own' \in Nat /\ own <= own' /\ keys' \subseteq keys \cup {t}
    BY <1>1, <1>2, <1>7
  <2> QED  BY <2>1, <2>2, PastNew
<1>10. j.pc = "record" /\ j.task = "create_group" /\ j.mem = Absent /\ j.result = {}
  <2>1. Idle.mem = Absent /\ Idle.result = {}
    BY DEF Idle
  <2>2. j.pc = "record" /\ j.task = "create_group" /\ j.mem = Idle.mem /\ j.result = Idle.result
    BY IdleIs DEF Fields
  <2> QED  BY <2>1, <2>2
<1>11. job' = [job EXCEPT ![w] = j]
  BY <1>1
<1> HIDE DEF j
<1>12. ~Limbo'
  BY <1>1, <1>7, <1>8 DEF Limbo
<1>13. Later
  BY <1>1, <1>2, <1>7, <1>12 DEF Later
<1>14. BatchOK(j)'
  BY <1>10, RecordingBatch
<1>15. job[w].task \in OwnOperations
  BY <1>1 DEF OwnOperations
<1>16. FlowInv' /\ Sents' = {} /\ Sents = {}
  <2>1. FlowInv' /\ Sents' = {}
    BY <1>1, <1>10, <1>11, <1>12, <1>13, <1>14, <1>15, OwnOperationFlow
  <2> QED  BY <1>1, <1>15, <2>1, NothingSent
<1>17. DataInv'
  BY <1>1, <1>7, <1>8, <1>9, <1>16, GainData
<1> QED  BY <1>16, <1>17

LEMMA FrontAppend ==
    ASSUME NEW S, NEW s \in Seq(S), NEW e \in S
    PROVE  Front(Append(s, e)) = s
<1> DEFINE t == Append(s, e)
<1>1. /\ t \in Seq(S) /\ Len(t) = Len(s) + 1 /\ Len(s) \in Nat
      /\ \A i \in 1 .. Len(s) : t[i] = s[i]
  BY AppendAt
<1> HIDE DEF t
<1>2. Len(t) - 1 \in 0 .. Len(t) /\ Len(t) - 1 = Len(s)
  BY <1>1
<1>3. /\ SubSeq(t, 1, Len(t) - 1) \in Seq(S) /\ Len(SubSeq(t, 1, Len(t) - 1)) = Len(s)
      /\ \A k \in 1 .. Len(s) : SubSeq(t, 1, Len(t) - 1)[k] = t[k]
  BY <1>1, <1>2, SubSeqAt
<1>4. SubSeq(t, 1, Len(t) - 1) = s
  BY <1>1, <1>3, SeqEqual
<1> QED  BY <1>4 DEF Front, t

LEMMA ExternalCommitTrust ==
    ASSUME OneRecorder, IInv, RowInv, DataInv, FlowInv, NEW w \in Workers,
           JoinByExternalCommitTask(w) \/ BatchJoinByExternalCommitTask(w)
    PROVE  DataInv' /\ FlowInv'
<1> DEFINE t == Append(server, Own(own + 1))
<1>1. /\ job[w].pc = "work" /\ job[w].task \in Joins
      /\ \E r \in join_by_external_commit :
            mls' = r.group /\ keys' = write_encryption_epoch_key_pairs(keys, r.group)
      /\ own' = own + 1 /\ ThenRecord(w, TRUE)
      /\ UNCHANGED <<server, opened, requests, answers, status>>
  BY DEF JoinByExternalCommitTask, BatchJoinByExternalCommitTask, ExternalCommit, Working, At,
         Replacement, ThenRecord, Joins
<1>2. own \in Nat /\ own + 1 \in Nat /\ server \in Seq(Commits) /\ Begins(server, server)
      /\ Len(server) \in Nat
  BY ServerIs DEF Begins
<1>3. /\ Own(own + 1) \in Commits /\ Own(own + 1).by = "self" /\ Own(own + 1).n = own + 1
      /\ Own(own + 1) # NoCommit
  BY <1>2, OwnIs DEF OwnOK
<1>4. /\ t \in Seq(Commits) /\ Len(t) = Len(server) + 1 /\ t[Len(server) + 1] = Own(own + 1)
  BY <1>2, <1>3, AppendAt
<1>5. server # <<>> /\ ~SelfIsMember /\ mls' = NewGroup(t)
  BY <1>1 DEF join_by_external_commit, Result
<1>6. t = Append(server, Own(own + 1))
  OBVIOUS
<1> HIDE DEF t
<1>7. mls' # Absent /\ mls'.hist = t /\ mls'.pending = NoCommit
  BY <1>4, <1>5, NewGroupIs DEF GroupOK
<1>8. PICK j : /\ job' = [job EXCEPT ![w] = j] /\ j.pc = "record" /\ j.task = job[w].task
               /\ j.mem = Absent
               /\ j.result = Requests(mls', IF own' = own THEN NoCommit ELSE Own(own'), TRUE)
  BY <1>1, RecordingJob
<1>9. j.result = Requests(mls', Own(own + 1), TRUE)
  <2>1. own' = own + 1 /\ own' # own
    BY <1>1, <1>2
  <2> QED  BY <1>8, <2>1
<1>10. PICK r0 : /\ Requests(mls', Own(own + 1), TRUE) = {r0} /\ r0.commit = Own(own + 1)
                 /\ r0.kind = "join" /\ r0.base = Front(mls'.hist)
  <2>1. PICK g, c : g = mls' /\ c = Own(own + 1)
    OBVIOUS
  <2>2. \E r0 : /\ Requests(g, c, TRUE) = {r0} /\ r0.commit = c /\ r0.kind = "join"
                /\ r0.base = Front(g.hist)
    <3>1. c # NoCommit
      BY <1>3, <2>1
    <3> QED  BY <3>1, JoinRequest
  <2> QED  BY <2>1, <2>2
<1>11. r0.base = server
  BY <1>2, <1>3, <1>6, <1>7, <1>10, FrontAppend
<1>12. j.result = {r0}
  BY <1>9, <1>10
<1>13. ~Known(mls'.hist, own)
  <2>1. Len(server) + 1 \in 1 .. Len(t)
    BY <1>2, <1>4
  <2> QED  BY <1>2, <1>3, <1>4, <1>7, <2>1 DEF Known
<1>14. Later
  BY <1>1, <1>2, <1>7, <1>13 DEF Later
<1>15. BatchOK(j)'
  BY <1>8, RecordingBatch
<1>16. job[w].task \in OwnOperations /\ j.task \in Joins
  BY <1>1, <1>8 DEF OwnOperations, Joins
<1>17. /\ \A x, y \in j.result : x = y
       /\ \A x \in j.result : x.kind = "join" <=> j.task \in Joins
       /\ j.task # "create_group" => j.result # {}
  BY <1>10, <1>12, <1>16
<1>18. FlowInv' /\ Items = {} /\ Sents' = {r0}
  BY <1>1, <1>8, <1>12, <1>14, <1>15, <1>16, <1>17, OwnOperationFlow
<1>19. DataInv'
  BY <1>1, <1>5, <1>6, <1>7, <1>10, <1>11, <1>18, JoinData
<1> QED  BY <1>18, <1>19

LEMMA OwnOperationTrust ==
    ASSUME OneRecorder, IInv, RowInv, DataInv, FlowInv, NEW w \in Workers,
           \/ CreateGroupTask(w) \/ JoinByExternalCommitTask(w) \/ BatchJoinByExternalCommitTask(w)
           \/ AddMembersTask(w) \/ RemoveMembersTask(w) \/ UpdateLeafNodeTask(w) \/ ReaddTask(w)
    PROVE  DataInv' /\ FlowInv'
<1>1. CASE AddMembersTask(w) \/ RemoveMembersTask(w) \/ UpdateLeafNodeTask(w) \/ ReaddTask(w)
  <2>1. Stages(w, StageCommit(View(w)))
    BY <1>1 DEF AddMembersTask, RemoveMembersTask, UpdateLeafNodeTask, ReaddTask, add_members,
                remove_members, update_leaf_node, readd
  <2>2. job[w].pc = "work" /\ job[w].task \in OwnOperations \ (Joins \cup {"create_group"})
    BY <1>1 DEF AddMembersTask, RemoveMembersTask, UpdateLeafNodeTask, ReaddTask, Working, At,
                OwnOperations, Joins
  <2> QED  BY <2>1, <2>2, StageTrust
<1> QED  BY <1>1, CreateTrust, ExternalCommitTrust

\* What a settlement does to the job: the commit it returns is none.
LEMMA SettlementJob ==
    ASSUME IInv, NEW w \in Workers, ThenRecord(w, FALSE), own' = own
    PROVE  \E j : /\ job' = [job EXCEPT ![w] = j] /\ j.pc = "record" /\ j.task = job[w].task
                  /\ j.mem = Absent /\ j.result = {}
<1>1. PICK j : /\ job' = [job EXCEPT ![w] = j] /\ j.pc = "record" /\ j.task = job[w].task
               /\ j.mem = Absent
               /\ j.result = Requests(mls', IF own' = own THEN NoCommit ELSE Own(own'), FALSE)
  BY RecordingJob
<1>2. (IF own' = own THEN NoCommit ELSE Own(own')) = NoCommit
  OBVIOUS
<1>3. j.result = {}
  BY <1>1, <1>2 DEF Requests
<1> QED  BY <1>1, <1>3

LEMMA MergeTrust ==
    ASSUME OneRecorder, IInv, RowInv, DataInv, FlowInv, NEW w \in Workers,
           MergePendingCommitTask(w)
    PROVE  DataInv' /\ FlowInv'
<1>1. PICK r \in merge_pending_commit(mls) :
             /\ mls' = r.group /\ keys' = NextEpochKeys(keys, mls, r.group)
             /\ own' = IF r.commit = NoCommit THEN own ELSE r.commit.n
  BY DEF MergePendingCommitTask, Ends, Transaction, SnapshotIsCurrent
<1>2. /\ job[w].pc = "work" /\ job[w].task = "merge_pending_commit" /\ ThenRecord(w, FALSE)
      /\ UNCHANGED <<server, status, opened, requests>> /\ answers' \subseteq answers
  BY DEF MergePendingCommitTask, Ends, Transaction, ThenRecord, Working, At
<1>3. mls # Absent
  BY <1>1 DEF merge_pending_commit
<1>4. /\ GroupOK(mls) /\ mls.hist \in keys /\ mls.hist \in Seq(Commits) /\ Known(mls.hist, own)
      /\ mls.pending = NoCommit \/ OwnOK(mls.pending, own)
  BY <1>3, StoredIs
<1>5. PICK a \in answers : a.ok
  <2>1. AppOK(job[w])
    BY DEF FlowInv
  <2> QED  BY <1>2, <2>1 DEF AppOK
<1>6. Items = {a} /\ Sents = {} /\ a.commit.by = "self" /\ InServer(a.commit)
  BY <1>5 DEF FlowInv, FlightInv, Items
<1>7. ~Limbo
  <2>1. PICK k \in 2 .. Len(server) : server[k] = a.commit
    BY <1>6 DEF InServer
  <2>2. OwnAt(k)
    BY <1>6, <2>1 DEF OwnAt
  <2> QED  BY <2>2, OwnNotOpen DEF Limbo
<1>8. server \in Seq(Commits) /\ Begins(server, server) /\ own \in Nat
      /\ \A k \in 1 .. Len(server) : server[k] \in Commits
  BY ServerIs DEF Begins
<1>9. ASSUME own' = own, mls' # Absent, mls'.pending = NoCommit, ~Limbo',
             Sents' = Sents => DataInv'
      PROVE  DataInv' /\ FlowInv'
  <2>1. PICK j : /\ job' = [job EXCEPT ![w] = j] /\ j.pc = "record" /\ j.task = job[w].task
                 /\ j.mem = Absent /\ j.result = {}
    BY <1>2, <1>9, SettlementJob
  <2>2. Later
    BY <1>2, <1>8, <1>9 DEF Later
  <2>3. BatchOK(j)'
    BY <2>1, RecordingBatch
  <2>4. job[w].task \in Recorders \ OwnOperations
    BY <1>2 DEF Recorders, OwnOperations
  <2>5. FlowInv' /\ Sents' = Sents
    BY <1>2, <1>9, <2>1, <2>2, <2>3, <2>4, SettlementFlow
  <2> QED  BY <1>9, <2>5
<1>10. CASE mls.pending = NoCommit
  <2>1. mls' = mls /\ own' = own /\ keys' = keys
    BY <1>1, <1>3, <1>10 DEF merge_pending_commit, Result, NextEpochKeys
  <2>2. ~InServer(mls.pending)
    BY <1>8, <1>10, Kinds DEF InServer
  <2>3. ~Limbo'
    BY <1>2, <1>7, <2>1 DEF Limbo
  <2>4. Sents' = Sents => DataInv'
    BY <1>2, <1>3, <1>6, <1>7, <1>10, <2>1, <2>2, DropData
  <2> QED  BY <1>3, <1>9, <1>10, <2>1, <2>3, <2>4
<1>11. CASE mls.pending # NoCommit
  <2> DEFINE t == Append(mls.hist, mls.pending)
  <2>1. mls' = NewGroup(t) /\ own' = own
    BY <1>1, <1>3, <1>11 DEF merge_pending_commit, Result
  <2>2. t \in Seq(Commits) /\ t = Append(mls.hist, mls.pending)
    BY <1>4, <1>11 DEF OwnOK
  <2> HIDE DEF t
  <2>3. mls' # Absent /\ mls'.hist = t /\ mls'.pending = NoCommit
    BY <2>1, <2>2, NewGroupIs DEF GroupOK
  <2>4. keys' \subseteq keys \cup {t}
    BY <1>1, <2>3
    DEF NextEpochKeys, delete_encryption_epoch_key_pairs, write_encryption_epoch_key_pairs
  <2>5. InServer(mls.pending)
    BY <1>3, <1>6, <1>11 DEF DataInv, PendingInv
  <2>6. Sents' = Sents => DataInv' /\ ~Limbo'
    BY <1>2, <1>3, <1>11, <2>1, <2>2, <2>3, <2>4, <2>5, MergeData
  <2>7. ~Limbo'
    <3>1. PICK k \in 2 .. Len(server) : server[k] = a.commit
      BY <1>6 DEF InServer
    <3>2. OwnAt(k)
      BY <1>6, <3>1 DEF OwnAt
    <3> QED  BY <1>2, <3>2, OwnNotOpen DEF Limbo
  <2> QED  BY <1>9, <2>1, <2>3, <2>6, <2>7
<1> QED  BY <1>10, <1>11

LEMMA ClearTrust ==
    ASSUME OneRecorder, IInv, RowInv, DataInv, FlowInv, NEW w \in Workers,
           ClearPendingCommitTask(w)
    PROVE  DataInv' /\ FlowInv'
<1>1. PICK r \in clear_pending_commit(mls) :
             /\ mls' = r.group /\ keys' = NextEpochKeys(keys, mls, r.group)
             /\ own' = IF r.commit = NoCommit THEN own ELSE r.commit.n
  BY DEF ClearPendingCommitTask, Ends, Transaction, SnapshotIsCurrent
<1>2. /\ job[w].pc = "work" /\ job[w].task = "clear_pending_commit" /\ ThenRecord(w, FALSE)
      /\ UNCHANGED <<server, status, opened, requests>> /\ answers' \subseteq answers
  BY DEF ClearPendingCommitTask, Ends, Transaction, ThenRecord, Working, At
<1>3. mls # Absent /\ r.group = [mls EXCEPT !.pending = NoCommit] /\ r.commit = NoCommit
  BY <1>1 DEF clear_pending_commit, Result
<1>4. DOMAIN mls = {"hist", "pending", "sent"}
  BY <1>3, StoredIs, GroupIs
<1>5. mls'.hist = mls.hist /\ mls'.pending = NoCommit /\ DOMAIN mls' = {"hist", "pending", "sent"}
      /\ own' = own
  BY <1>1, <1>3, <1>4
<1>6. mls' # Absent /\ keys' = keys
  <2>1. DOMAIN Absent = {"absent"}
    BY DEF Absent
  <2> QED  BY <1>1, <1>5, <2>1 DEF NextEpochKeys
<1>7. PICK a \in answers : ~a.ok /\ a.kind = "update"
  <2>1. AppOK(job[w])
    BY DEF FlowInv
  <2> QED  BY <1>2, <2>1 DEF AppOK
<1>8. Items = {a} /\ Sents = {} /\ ~InServer(a.commit)
  BY <1>7 DEF FlowInv, FlightInv, Items
<1>9. ~Limbo
  BY <1>7, <1>8 DEF DataInv, LimboInv, AllJoins
<1>10. ~InServer(mls.pending)
  <2>1. CASE mls.pending = NoCommit
    <3>1. \A k \in 1 .. Len(server) : server[k] \in Commits
      BY ServerIs
    <3> QED  BY <2>1, <3>1, Kinds, ServerIs DEF InServer
  <2>2. CASE mls.pending # NoCommit
    BY <1>3, <1>8, <2>2 DEF DataInv, PendingInv
  <2> QED  BY <2>1, <2>2
<1>11. PICK j : /\ job' = [job EXCEPT ![w] = j] /\ j.pc = "record" /\ j.task = job[w].task
                /\ j.mem = Absent /\ j.result = {}
  BY <1>2, <1>5, SettlementJob
<1>12. ~Limbo'
  BY <1>2, <1>3, <1>5, <1>9 DEF Limbo
<1>13. Later
  <2>1. server \in Seq(Commits) /\ Begins(server, server) /\ own \in Nat
    BY ServerIs DEF Begins
  <2> QED  BY <1>2, <1>5, <1>12, <2>1 DEF Later
<1>14. BatchOK(j)'
  BY <1>11, RecordingBatch
<1>15. job[w].task \in Recorders \ OwnOperations
  BY <1>2 DEF Recorders, OwnOperations
<1>16. FlowInv' /\ Sents' = Sents
  BY <1>2, <1>11, <1>12, <1>13, <1>14, <1>15, SettlementFlow
<1>17. DataInv'
  BY <1>2, <1>3, <1>5, <1>6, <1>8, <1>9, <1>10, <1>16, DropData
<1> QED  BY <1>16, <1>17

LEMMA ClearProposalsTrust ==
    ASSUME OneRecorder, IInv, RowInv, DataInv, FlowInv, NEW w \in Workers,
           ClearPendingProposalsTask(w), Undisturbed'
    PROVE  DataInv' /\ FlowInv'
<1>1. PICK r \in Unchanged(mls) :
             /\ mls' = r.group /\ keys' = NextEpochKeys(keys, mls, r.group)
             /\ own' = IF r.commit = NoCommit THEN own ELSE r.commit.n
  BY DEF ClearPendingProposalsTask, Ends, Transaction, SnapshotIsCurrent, clear_pending_proposals
<1>2. /\ job[w].pc = "work" /\ job[w].task = "clear_pending_proposals" /\ ThenRecord(w, FALSE)
      /\ UNCHANGED <<server, status, opened, requests, answers>>
  BY DEF ClearPendingProposalsTask, Ends, Transaction, ThenRecord, Working, At
<1>3. UNCHANGED <<mls, keys, own>>
  BY <1>1 DEF Unchanged, Result, NextEpochKeys
<1>4. Settled
  BY DEF ClearPendingProposalsTask, Undisturbed
<1>5. job[w].task \in Recorders \ OwnOperations
  BY <1>2 DEF Recorders, OwnOperations
<1>6. Items = {}
  <2>1. \A v \in Workers : job[v].pc # "record"
    BY <1>2, <1>5, OnlyRecorder DEF RowInv, RowJobOK
  <2>2. \A v \in Workers : job[v].result = {}
    BY <2>1 DEF FlowInv, ResultOK
  <2> QED  BY <1>4, <2>2 DEF Items, Sents, Settled
<1>7. ~Limbo
  BY <1>6 DEF DataInv, LimboInv
<1>8. Same
  BY <1>3 DEF Same
<1>9. Later /\ ~Limbo'
  BY <1>2, <1>3, <1>7, <1>8, Steady
<1>10. PICK j : /\ job' = [job EXCEPT ![w] = j] /\ j.pc = "record" /\ j.task = job[w].task
                /\ j.mem = Absent /\ j.result = {}
  BY <1>2, <1>3, SettlementJob
<1>11. BatchOK(j)'
  BY <1>10, RecordingBatch
<1>12. FlowInv' /\ Sents' = Sents
  BY <1>2, <1>5, <1>9, <1>10, <1>11, SettlementFlow
<1> QED  BY <1>2, <1>3, <1>8, <1>12, SameData

LEMMA DeleteTrust ==
    ASSUME OneRecorder, IInv, RowInv, DataInv, FlowInv, NEW w \in Workers, DeleteGroupTask(w)
    PROVE  DataInv' /\ FlowInv'
<1> DEFINE j == [Idle EXCEPT !.task = "delete_group", !.pc = "record"]
<1>1. /\ job[w].pc = "work" /\ job[w].task = "delete_group" /\ mls' = Absent /\ keys' = {}
      /\ job' = [job EXCEPT ![w] = j] /\ answers' \subseteq answers
      /\ UNCHANGED <<server, status, opened, requests, own>>
  BY DEF DeleteGroupTask, Working, At
<1>2. j.pc = "record" /\ j.task = "delete_group" /\ j.mem = Absent /\ j.result = {}
  <2>1. Idle.mem = Absent /\ Idle.result = {}
    BY DEF Idle
  <2>2. j.pc = "record" /\ j.task = "delete_group" /\ j.mem = Idle.mem /\ j.result = Idle.result
    BY IdleIs DEF Fields
  <2> QED  BY <2>1, <2>2
<1> HIDE DEF j
<1>3. ~Limbo'
  BY <1>1 DEF Limbo
<1>4. Later
  <2>1. server \in Seq(Commits) /\ Begins(server, server) /\ own \in Nat
    BY ServerIs DEF Begins
  <2> QED  BY <1>1, <1>3, <2>1 DEF Later
<1>5. BatchOK(j)'
  BY <1>2, RecordingBatch
<1>6. job[w].task \in Recorders \ OwnOperations
  BY <1>1 DEF Recorders, OwnOperations
<1>7. FlowInv' /\ Sents' = Sents
  BY <1>1, <1>2, <1>3, <1>4, <1>5, <1>6, SettlementFlow
<1>8. keys' \subseteq keys
  BY <1>1
<1> QED  BY <1>1, <1>7, <1>8, GoneData
-----------------------------------------------------------------------------
(* Batches.                                                                *)

LEMMA BatchApp ==
    ASSUME FlowInv, NEW w \in Workers, job[w].pc \in Processing, NEW j, j.pc \in Processing,
           j.task = job[w].task, j.result = job[w].result
    PROVE  AppOK(j) /\ j.result = {} /\ job[w].pc # "record" /\ j.pc # "record"
<1>1. AppOK(job[w]) /\ ResultOK(job[w])
  BY DEF FlowInv
<1>2. AppOK(j)
  BY <1>1 DEF AppOK, Processing
<1>3. j.result = {} /\ job[w].pc # "record" /\ j.pc # "record"
  BY <1>1 DEF ResultOK, Processing
<1> QED  BY <1>2, <1>3

\* Where an external commit is recorded, no commit is pending.
LEMMA JoinRowQuiet ==
    ASSUME RowInv, DataInv, FlowInv, Undisturbed, status = JoinByExternalCommit
    PROVE  Quiet
<1>1. Clean
  BY DEF Undisturbed, Clean
<1>2. CASE \E v \in Workers : Resetting(job[v])
  BY <1>1, <1>2 DEF RowInv
<1>3. CASE ~\E v \in Workers : Resetting(job[v])
  <2>1. AllJoins
    BY <1>3 DEF FlowInv, StatusInv
  <2> QED  BY <2>1 DEF DataInv, PendingInv, AllJoins, Quiet
<1> QED  BY <1>2, <1>3

\* Where a commit is recorded, the group has no external commit.
LEMMA UpdateRowNoLimbo ==
    ASSUME DataInv, FlowInv, status = UpdateTree
    PROVE  ~Limbo
<1> SUFFICES ASSUME Limbo PROVE FALSE
  OBVIOUS
<1>1. \A v \in Workers : ~Resetting(job[v])
  BY DEF FlowInv, LimboRowInv, Resetting, Joins, OwnOperations
<1>2. Items # {} /\ \A x \in Items : x.kind # "join"
  BY <1>1 DEF FlowInv, StatusInv
<1>3. AllJoins
  BY DEF DataInv, LimboInv
<1> QED  BY <1>2, <1>3 DEF AllJoins

LEMMA DecideTrust ==
    ASSUME IInv, RowInv, DataInv, FlowInv, NEW w \in Workers, Decide(w), Undisturbed
    PROVE  DataInv' /\ FlowInv'
<1>1. PICK d \in Decisions(job[w].mem, status, job[w].end) :
             job' = [job EXCEPT ![w].plan = d,
                                ![w].pc = IF d = "keep" THEN "proposals" ELSE "settle"]
  BY DEF Decide
<1> DEFINE j == [job[w] EXCEPT !.plan = d, !.pc = IF d = "keep" THEN "proposals" ELSE "settle"]
<1>2. job' = [job EXCEPT ![w] = j] /\ KeepsAll /\ job[w].pc = "decide"
  BY <1>1 DEF Decide, At
<1>3. /\ j.pc = (IF d = "keep" THEN "proposals" ELSE "settle") /\ j.plan = d
      /\ j.task = job[w].task /\ j.mem = job[w].mem /\ j.end = job[w].end
      /\ j.result = job[w].result
  BY JobIs DEF Fields
<1> HIDE DEF j
<1>4. BatchOK(job[w]) /\ JobOK(w, job[w], own, Len(server))
  BY DEF FlowInv, IInv, JobsInv
<1>5. PICK g : g = job[w].mem /\ GroupOK(g) /\ g # Absent
  BY <1>2, <1>4, GroupIs DEF BatchOK, JobOK
<1>6. PICK e : e = job[w].end /\ e \in Nat /\ e <= Len(server) /\ server # <<>>
  BY <1>2, <1>4 DEF BatchOK, JobOK, Processing
<1>7. g.hist \in Seq(Commits) /\ Len(g.hist) \in Nat /\ Len(server) \in Nat
  BY <1>5, GroupIs, ServerIs
<1>8. d \in Decisions(g, status, e)
  BY <1>5, <1>6
<1>9. FirstIsOwn(g, status, e) /\ status = JoinByExternalCommit => OwnAt(Len(g.hist))
  BY <1>6, <1>7 DEF FirstIsOwn, OwnAt
<1>10. FirstIsOwn(g, status, e) /\ status # JoinByExternalCommit => OwnAt(Len(g.hist) + 1)
  BY <1>6, <1>7 DEF FirstIsOwn, OwnAt
<1>11. CreateGroup # JoinByExternalCommit /\ UpdateTree # JoinByExternalCommit
       /\ UpdateTree # CreateGroup
  BY DEF CreateGroup, UpdateTree, JoinByExternalCommit
<1>12. \/ d = "keep" \/ d = "delete"
       \/ d = "merge" /\ MergeOK(g)
       \/ /\ d = "clear" /\ status = UpdateTree /\ ~FirstIsOwn(g, status, e)
  <2>1. CASE status = CreateGroup /\ Epoch(g) = 0
    <3>1. d \in {"keep", IF g.hist[1] = server[1] THEN "merge" ELSE "delete"}
      BY <1>8, <1>11, <2>1 DEF Decisions
    <3>2. Len(g.hist) = 1
      BY <1>7, <2>1 DEF Epoch
    <3> QED  BY <3>1, <3>2 DEF MergeOK
  <2>2. CASE status = JoinByExternalCommit
    <3>1. d \in {IF FirstIsOwn(g, status, e) THEN "merge" ELSE "delete"}
      BY <1>8, <1>11, <2>2 DEF Decisions
    <3>2. mls # Absent => mls.pending = NoCommit
      BY <2>2, JoinRowQuiet DEF Quiet
    <3> QED  BY <1>9, <2>2, <3>1, <3>2 DEF MergeOK
  <2>3. CASE status = CreateGroup /\ Epoch(g) > 0
    <3>1. d \in {IF FirstIsOwn(g, status, e) THEN "merge" ELSE "delete"}
      <4>1. Epoch(g) # 0
        <5>1. Epoch(g) \in Int
          BY <1>7 DEF Epoch
        <5> QED  BY <2>3, <5>1
      <4> QED  BY <1>8, <1>11, <2>3, <4>1 DEF Decisions
    <3> QED  BY <1>10, <1>11, <2>3, <3>1 DEF MergeOK
  <2>4. CASE status = UpdateTree
    <3>1. d \in {IF FirstIsOwn(g, status, e) THEN "merge" ELSE "clear"}
      BY <1>8, <1>11, <2>4 DEF Decisions
    <3> QED  BY <1>10, <1>11, <2>4, <3>1 DEF MergeOK
  <2>5. CASE /\ ~(status = CreateGroup /\ Epoch(g) = 0) /\ status # JoinByExternalCommit
             /\ ~(status = CreateGroup /\ Epoch(g) > 0) /\ status # UpdateTree
    <3>1. d \in {"keep"}
      BY <1>8, <2>5 DEF Decisions
    <3> QED  BY <3>1
  <2> QED  BY <2>1, <2>2, <2>3, <2>4, <2>5
<1>13. BatchOK(j)
  <2>1. /\ j.mem = g /\ j.end = e /\ server # <<>>
        /\ Known(g.hist, own) /\ (g.pending = NoCommit \/ OwnOK(g.pending, own))
    BY <1>3, <1>4, <1>5, <1>6 DEF BatchOK
  <2>2. CASE d = "keep"
    BY <1>3, <2>1, <2>2, MemoryBatch
  <2>3. CASE d = "delete"
    BY <1>3, <1>5, <2>1, <2>3 DEF BatchOK
  <2>4. CASE d = "merge" /\ MergeOK(g)
    BY <1>3, <1>5, <2>1, <2>4 DEF BatchOK
  <2>5. CASE d = "clear" /\ status = UpdateTree /\ ~FirstIsOwn(g, status, e)
    <3>1. Elsewhere(g)
      BY <2>5, UpdateRowNoLimbo DEF Elsewhere
    <3>2. ~(Len(g.hist) + 1 <= e /\ OwnAt(Len(g.hist) + 1))
      BY <1>6, <1>7, <1>11, <2>5 DEF FirstIsOwn, OwnAt
    <3> QED  BY <1>3, <1>5, <2>1, <2>5, <3>1, <3>2 DEF BatchOK
  <2> QED  BY <1>12, <2>2, <2>3, <2>4, <2>5
<1>14. AppOK(j) /\ j.result = {} /\ job[w].pc # "record" /\ j.pc # "record"
  <2>1. job[w].pc \in Processing /\ j.pc \in Processing
    BY <1>2, <1>3 DEF Processing
  <2> QED  BY <1>3, <2>1, BatchApp
<1> QED  BY <1>2, <1>13, <1>14, JobOnlyTrust

\* A batch settles what the server has answered, where nothing has changed
\* meanwhile.
LEMMA SettleTrust ==
    ASSUME IInv, RowInv, DataInv, FlowInv, NEW w \in Workers, Settle(w), Undisturbed'
    PROVE  DataInv' /\ FlowInv'
<1>1. /\ job[w].pc = "settle" /\ mls # Absent /\ job[w].plan \in Plans
      /\ BatchOK(job[w]) /\ JobOK(w, job[w], own, Len(server)) /\ job[w].pc \in Processing
  BY DEF Settle, At, IInv, JobsInv, JobOK, FlowInv, Processing
<1>2. PICK g : g = job[w].mem
  OBVIOUS
<1>3. g # Absent /\ g.hist = mls.hist /\ g.pending = mls.pending
  BY <1>1, <1>2 DEF Settle, Undisturbed, SameState
<1>4. UNCHANGED <<server, status, opened, requests, answers, own>>
  BY DEF Settle
<1>5. /\ GroupOK(mls) /\ mls.hist \in keys /\ mls.hist \in Seq(Commits) /\ Known(mls.hist, own)
      /\ mls.pending = NoCommit \/ OwnOK(mls.pending, own)
  BY <1>1, StoredIs
<1>6. /\ server \in Seq(Commits) /\ Len(server) \in Nat /\ Begins(server, server) /\ own \in Nat
      /\ Len(mls.hist) \in Nat /\ Len(mls.hist) >= 1 /\ Member(mls.hist)
      /\ \A k \in 1 .. Len(server) : server[k] \in Commits
  BY <1>1, ServerIs, StoredLength DEF Begins
<1>7. server # <<>> /\ Len(server) >= 1
  BY <1>1, <1>6 DEF BatchOK
\* What a step that leaves no open external commit does.
<1>8. ASSUME NEW r, mls' = r.group,
             job' = [job EXCEPT ![w].mem = r.group, ![w].pc = "reset"],
             mls' # Absent => mls'.pending = NoCommit /\ Known(mls'.hist, own),
             ~Limbo', Sents' = Sents => DataInv'
      PROVE  DataInv' /\ FlowInv'
  <2>a. PICK j : j = [job[w] EXCEPT !.mem = r.group, !.pc = "reset"]
    OBVIOUS
  <2>1. job' = [job EXCEPT ![w] = j]
    BY <1>8, <2>a
  <2>2. j.mem = mls' /\ j.pc = "reset" /\ j.task = job[w].task /\ j.result = job[w].result
    BY <1>8, <2>a, JobIs DEF Fields
  <2>3. AppOK(j) /\ j.result = {} /\ job[w].pc # "record" /\ j.pc # "record"
    <3>1. j.pc \in Processing
      BY <2>2 DEF Processing
    <3> QED  BY <1>1, <2>2, <3>1, BatchApp
  <2>4. BatchOK(j)'
    <3>1. j.mem # Absent => Known(j.mem.hist, own') /\ j.mem.pending = NoCommit
      BY <1>4, <1>8, <2>2
    <3>2. Elsewhere(j.mem)'
      BY <1>8 DEF Elsewhere
    <3>3. j.pc = "reset"
      BY <2>2
    <3> QED  BY <3>1, <3>2, <3>3 DEF BatchOK
  <2>5. Later
    BY <1>4, <1>6, <1>8 DEF Later
  <2>6. FlowInv' /\ Sents' = Sents
    <3>1. status' = status /\ (Limbo' => Limbo) /\ UNCHANGED <<server, requests, answers>>
      BY <1>4, <1>8
    <3> QED  BY <2>1, <2>3, <2>4, <2>5, <3>1, QuietFlow
  <2> QED  BY <1>8, <2>6
<1>9. CASE job[w].plan = "merge"
  <2>1. PICK r \in merge_pending_commit(mls) :
               /\ mls' = r.group /\ job' = [job EXCEPT ![w].mem = r.group, ![w].pc = "reset"]
               /\ keys' = IF r.group = Absent THEN delete_encryption_epoch_key_pairs(keys, mls)
                          ELSE NextEpochKeys(keys, mls, r.group)
    BY <1>9 DEF Settle
  <2>2. MergeOK(g)
    BY <1>1, <1>2, <1>9 DEF BatchOK
  <2>3. FirstInv /\ Len(server) >= 2 /\ ~server[1].adds
        /\ (server[1].by = "self" <=> server[2].by = "self")
    BY <1>7 DEF DataInv, FirstInv
  <2>4. ~Limbo
    <3>1. CASE Len(g.hist) = 1
      BY <1>3, <3>1 DEF Limbo, Open
    <3>2. CASE OwnAt(Len(g.hist) + 1) \/ OwnAt(Len(g.hist))
      BY <3>2, OwnNotOpen DEF Limbo
    <3> QED  BY <2>2, <3>1, <3>2 DEF MergeOK
  <2>5. CASE mls.pending = NoCommit
    <3>1. mls' = mls /\ keys' = keys
      BY <1>1, <2>1, <2>5 DEF merge_pending_commit, Result, NextEpochKeys
    <3>2. ~Limbo'
      BY <1>4, <2>4, <3>1 DEF Limbo
    <3>3. Sents' = Sents => DataInv'
      <4>1. Same
        BY <3>1 DEF Same
      <4> QED  BY <1>4, <3>1, <4>1, SameData
    <3> QED  BY <1>5, <1>8, <2>1, <2>5, <3>1, <3>2, <3>3
  <2>6. CASE mls.pending # NoCommit
    <3> DEFINE t == Append(mls.hist, mls.pending)
    <3>1. r.group = NewGroup(t)
      BY <1>1, <2>1, <2>6 DEF merge_pending_commit, Result
    <3>2. Advances(mls.hist, t, own)
      BY <1>5, <2>6, AppendAdvances DEF OwnOK
    <3>3. t \in Seq(Commits) /\ t = Append(mls.hist, mls.pending) /\ Known(t, own)
      BY <3>2 DEF Advances
    <3> HIDE DEF t
    <3>4. mls' # Absent /\ mls'.hist = t /\ mls'.pending = NoCommit /\ r.group # Absent
          /\ r.group.hist = t
      BY <2>1, <3>1, <3>3, NewGroupIs DEF GroupOK
    <3>5. keys' \subseteq keys \cup {t}
      BY <2>1, <3>4
      DEF NextEpochKeys, delete_encryption_epoch_key_pairs, write_encryption_epoch_key_pairs
    <3>6. InServer(mls.pending) \/ Again(mls.hist, server)
      <4>1. OwnAt(Len(mls.hist) + 1)
        <5>1. CASE Len(g.hist) = 1 /\ g.hist[1] = server[1]
          <6>1. mls.hist[1].by = "self" \/ mls.hist[1].adds
            BY <1>3, <1>6, <5>1 DEF Member
          <6>2. server[2].by = "self"
            BY <1>3, <2>3, <5>1, <6>1
          <6> QED  BY <1>3, <1>6, <2>3, <5>1, <6>2 DEF OwnAt
        <5>2. CASE OwnAt(Len(g.hist) + 1)
          BY <1>3, <5>2
        <5> QED  BY <1>1, <1>3, <2>2, <2>6, <5>1, <5>2 DEF MergeOK
      <4>2. HistOK(mls.hist, server) /\ ~Open(mls.hist, server)
        BY <1>1, <2>4 DEF DataInv, HistInv, Limbo
      <4>3. CASE Begins(mls.hist, server)
        <5>1. mls.pending = server[Len(mls.hist) + 1]
          BY <1>1, <1>5, <1>6, <4>1, <4>3 DEF DataInv, AcceptedInv
        <5> QED  BY <4>1, <5>1 DEF InServer, OwnAt
      <4>4. CASE Single(mls.hist) /\ ~Begins(mls.hist, server)
        <5>1. Len(mls.hist) = 1 /\ mls.hist[1].by = "self" /\ ~mls.hist[1].adds
          BY <4>4 DEF Single
        <5>2. mls.hist[1] # server[1]
          BY <1>6, <1>7, <4>4, <5>1 DEF Begins
        <5>3. server[2].by = "self"
          BY <4>1, <5>1 DEF OwnAt
        <5> QED  BY <1>7, <2>3, <5>1, <5>2, <5>3 DEF Again
      <4> QED  BY <4>2, <4>3, <4>4 DEF HistOK
    <3>7. Sents' = Sents => DataInv'
      BY <1>1, <1>4, <2>6, <3>3, <3>4, <3>5, <3>6, MergeData
    <3>8. ~Limbo'
      <4>1. \/ OwnAt(Len(g.hist) + 1) \/ OwnAt(Len(g.hist))
            \/ (Len(g.hist) = 1 /\ g.hist[1] = server[1])
        BY <2>2 DEF MergeOK
      <4>2. \E k : OwnAt(k)
        <5>1. CASE Len(g.hist) = 1 /\ g.hist[1] = server[1]
          <6>1. mls.hist[1].by = "self" \/ mls.hist[1].adds
            BY <1>3, <1>6, <5>1 DEF Member
          <6>2. OwnAt(2)
            BY <1>3, <1>6, <2>3, <5>1, <6>1 DEF OwnAt
          <6> QED  BY <6>2
        <5> QED  BY <4>1, <5>1
      <4> QED  BY <1>4, <4>2, OwnNotOpen DEF Limbo
    <3> QED  BY <1>8, <2>1, <3>3, <3>4, <3>7, <3>8
  <2> QED  BY <2>5, <2>6
<1>10. CASE job[w].plan = "clear"
  <2>1. PICK r \in clear_pending_commit(mls) :
               /\ mls' = r.group /\ job' = [job EXCEPT ![w].mem = r.group, ![w].pc = "reset"]
               /\ keys' = IF r.group = Absent THEN delete_encryption_epoch_key_pairs(keys, mls)
                          ELSE NextEpochKeys(keys, mls, r.group)
    BY <1>10 DEF Settle
  <2>2. r.group = [mls EXCEPT !.pending = NoCommit]
    BY <1>1, <2>1 DEF clear_pending_commit, Result
  <2>3. /\ r.group.hist = mls.hist /\ r.group.pending = NoCommit
        /\ DOMAIN r.group = {"hist", "pending", "sent"}
    BY <1>5, <2>2, GroupIs
  <2>4. r.group # Absent
    <3>1. DOMAIN Absent = {"absent"}
      BY DEF Absent
    <3> QED  BY <2>3, <3>1
  <2>5. keys' = keys
    BY <2>1, <2>3, <2>4 DEF NextEpochKeys
  <2>6. ~Limbo /\ ~Limbo'
    <3>1. ~Limbo
      BY <1>1, <1>2, <1>3, <1>10 DEF BatchOK, Elsewhere
    <3> QED  BY <1>1, <1>4, <2>1, <2>3, <3>1 DEF Limbo
  <2>7. ~InFlight(mls.pending, job[w].end)
    BY <1>10 DEF Settle, Undisturbed
  <2>8. \A x \in Sents : mls.pending # x.commit
    BY <2>7 DEF InFlight, Sents
  <2>9. ~InServer(mls.pending)
    <3>1. CASE mls.pending = NoCommit
      BY <1>6, <3>1, Kinds DEF InServer
    <3>2. CASE mls.pending # NoCommit
      <4> SUFFICES ASSUME NEW k \in 2 .. Len(server), server[k] = mls.pending PROVE FALSE
        BY DEF InServer
      <4>1. Len(mls.hist) = k - 1
        BY <1>1, <3>2 DEF DataInv, PendingInv
      <4>2. OwnAt(k) /\ k = Len(g.hist) + 1
        BY <1>3, <1>5, <1>6, <3>2, <4>1 DEF OwnAt, OwnOK
      <4>3. ~(k <= job[w].end)
        BY <1>1, <1>2, <1>10, <4>2 DEF BatchOK
      <4>4. k \in DOMAIN server /\ job[w].end \in Nat
        BY <1>1, <1>6 DEF JobOK
      <4>5. k > job[w].end
        BY <4>3, <4>4
      <4> QED  BY <2>7, <4>4, <4>5 DEF InFlight
    <3> QED  BY <3>1, <3>2
  <2>10. Sents' = Sents => DataInv'
    BY <1>1, <1>4, <2>1, <2>3, <2>4, <2>5, <2>8, <2>9, DropData
  <2> QED  BY <1>5, <1>8, <2>1, <2>3, <2>6, <2>10
<1>11. CASE job[w].plan = "delete"
  <2>1. PICK r \in Result(Absent, NoCommit) :
               /\ mls' = r.group /\ job' = [job EXCEPT ![w].mem = r.group, ![w].pc = "reset"]
               /\ keys' = IF r.group = Absent THEN delete_encryption_epoch_key_pairs(keys, mls)
                          ELSE NextEpochKeys(keys, mls, r.group)
    BY <1>11 DEF Settle
  <2>2. mls' = Absent /\ keys' \subseteq keys
    BY <2>1 DEF Result, delete_encryption_epoch_key_pairs
  <2>3. ~Limbo'
    BY <2>2 DEF Limbo
  <2>4. Sents' = Sents => DataInv'
    BY <1>4, <2>2, GoneData
  <2> QED  BY <1>8, <2>1, <2>2, <2>3, <2>4
<1> QED  BY <1>1, <1>9, <1>10, <1>11 DEF Plans

\* The steps of a batch that leave the group alone.
LEMMA BatchQuietTrust ==
    ASSUME IInv, DataInv, FlowInv, NEW w \in Workers,
           \/ Load(w) \/ SettleFails(w) \/ NoProposals(w) \/ Reload(w) \/ ApplyFails(w)
           \/ ProcessAllReturns(w)
    PROVE  DataInv' /\ FlowInv'
<1>1. DOMAIN job[w] = Fields /\ BatchOK(job[w])
  BY JobIs DEF FlowInv
<1>2. job[w].mem # Absent =>
        /\ Known(job[w].mem.hist, own)
        /\ job[w].mem.pending = NoCommit \/ OwnOK(job[w].mem.pending, own)
  BY <1>1 DEF BatchOK
<1>3. mls # Absent => Known(mls.hist, own) /\ (mls.pending = NoCommit \/ OwnOK(mls.pending, own))
  BY StoredIs
<1>4. ASSUME NEW j, job' = [job EXCEPT ![w] = j], KeepsAll, job[w].pc \in Processing,
             j.pc \in {"messages", "apply"}, j.task = job[w].task, j.result = job[w].result,
             j.mem # Absent =>
                Known(j.mem.hist, own) /\ (j.mem.pending = NoCommit \/ OwnOK(j.mem.pending, own))
      PROVE  DataInv' /\ FlowInv'
  <2>1. j.pc \in Processing
    BY <1>4 DEF Processing
  <2>2. AppOK(j) /\ j.result = {} /\ job[w].pc # "record" /\ j.pc # "record"
    BY <1>4, <2>1, BatchApp
  <2>3. BatchOK(j)
    BY <1>4, MemoryBatch
  <2> QED  BY <1>4, <2>2, <2>3, JobOnlyTrust
<1>5. CASE SettleFails(w) \/ ProcessAllReturns(w)
  <2>1. Return(w) /\ KeepsAll /\ job[w].pc # "record"
    BY <1>5 DEF SettleFails, ProcessAllReturns, At
  <2> QED  BY <2>1, ReturnTrust
<1>6. CASE Load(w) /\ mls = Absent
  <2> DEFINE j == [job[w] EXCEPT !.mem = mls, !.pc = "messages"]
  <2>1. job' = [job EXCEPT ![w] = j] /\ KeepsAll /\ job[w].pc \in Processing
    BY <1>6 DEF Load, At, Processing
  <2>2. j.pc = "messages" /\ j.task = job[w].task /\ j.result = job[w].result /\ j.mem = Absent
    BY <1>1, <1>6 DEF Fields
  <2> HIDE DEF j
  <2> QED  BY <1>4, <2>1, <2>2
<1>7. CASE Load(w) /\ mls # Absent
  <2> DEFINE j == [job[w] EXCEPT !.mem = mls, !.pc = "decide"]
  <2>1. job' = [job EXCEPT ![w] = j] /\ KeepsAll /\ job[w].pc = "load"
    BY <1>7 DEF Load, At
  <2>2. j.pc = "decide" /\ j.task = job[w].task /\ j.result = job[w].result /\ j.mem = mls
    BY <1>1 DEF Fields
  <2> HIDE DEF j
  <2>3. AppOK(j) /\ j.result = {} /\ job[w].pc # "record" /\ j.pc # "record"
    <3>1. job[w].pc \in Processing /\ j.pc \in Processing
      BY <2>1, <2>2 DEF Processing
    <3> QED  BY <2>2, <3>1, BatchApp
  <2>4. server # <<>>
    BY <1>1, <2>1 DEF BatchOK
  <2>5. BatchOK(j)
    BY <1>3, <1>7, <2>2, <2>4 DEF BatchOK
  <2> QED  BY <2>1, <2>3, <2>5, JobOnlyTrust
<1>8. CASE NoProposals(w)
  <2> DEFINE j == [job[w] EXCEPT !.pc = "messages"]
  <2>1. job' = [job EXCEPT ![w] = j] /\ KeepsAll /\ job[w].pc \in Processing
    BY <1>8 DEF NoProposals, Goto, At, Processing
  <2>2. j.pc = "messages" /\ j.task = job[w].task /\ j.result = job[w].result
        /\ j.mem = job[w].mem
    BY <1>1 DEF Fields
  <2> HIDE DEF j
  <2> QED  BY <1>2, <1>4, <2>1, <2>2
<1>9. CASE Reload(w) /\ job[w].mem = Absent
  <2> DEFINE j == [job[w] EXCEPT !.pos = @ + 1]
  <2>1. job' = [job EXCEPT ![w] = j] /\ KeepsAll /\ job[w].pc = "messages"
    BY <1>9 DEF Reload, AtMessage, At
  <2>2. j.pc = "messages" /\ j.task = job[w].task /\ j.result = job[w].result
        /\ j.mem = job[w].mem
    BY <1>1, <2>1 DEF Fields
  <2> HIDE DEF j
  <2>3. job[w].pc \in Processing
    BY <2>1 DEF Processing
  <2> QED  BY <1>2, <1>4, <2>1, <2>2, <2>3
<1>10. CASE Reload(w) /\ job[w].mem # Absent
  <2> DEFINE j == [job[w] EXCEPT !.pc = "apply",
                                 !.mem = IF job[w].loaded \/ mls = Absent THEN @ ELSE mls,
                                 !.loaded = @ \/ mls # Absent]
  <2>1. job' = [job EXCEPT ![w] = j] /\ KeepsAll /\ job[w].pc \in Processing
    BY <1>10 DEF Reload, AtMessage, At, Processing
  <2>2. j.pc = "apply" /\ j.task = job[w].task /\ j.result = job[w].result
        /\ j.mem = (IF job[w].loaded \/ mls = Absent THEN job[w].mem ELSE mls)
    BY <1>1 DEF Fields
  <2> HIDE DEF j
  <2>3. j.mem = job[w].mem \/ (j.mem = mls /\ mls # Absent)
    BY <2>2
  <2>4. j.mem # Absent =>
          Known(j.mem.hist, own) /\ (j.mem.pending = NoCommit \/ OwnOK(j.mem.pending, own))
    BY <1>2, <1>3, <2>3
  <2> QED  BY <1>4, <2>1, <2>2, <2>4
<1>11. CASE ApplyFails(w)
  <2> DEFINE skipped == [job[w] EXCEPT !.pc = "messages", !.pos = @ + 1]
  <2>1. PICK j : /\ job' = [job EXCEPT ![w] = j]
                 /\ \/ j = skipped
                    \/ \E r \in ProcessCommit(job[w].mem, keys, job[w].pos) :
                          j = [skipped EXCEPT !.mem = r.group]
                    \/ j = [skipped EXCEPT !.pos = job[w].end + 1]
    BY <1>11 DEF ApplyFails
  <2>2. job[w].pc = "apply" /\ KeepsAll /\ job[w].pc \in Processing
    BY <1>11 DEF ApplyFails, At, Processing
  <2>3. /\ j.pc = "messages" /\ j.task = job[w].task /\ j.result = job[w].result
        /\ \/ j.mem = job[w].mem
           \/ \E r \in ProcessCommit(job[w].mem, keys, job[w].pos) : j.mem = r.group
    BY <1>1, <2>1 DEF Fields
  <2>4. ASSUME NEW r \in ProcessCommit(job[w].mem, keys, job[w].pos)
        PROVE  Known(r.group.hist, own) /\ r.group.pending = NoCommit
    <3>1. PICK t : Advances(job[w].mem.hist, t, own) /\ r.group = NewGroup(t)
      BY <2>2, MemoryIs
    <3> QED  BY <3>1, NewGroupIs DEF Advances
  <2>5. j.mem # Absent =>
          Known(j.mem.hist, own) /\ (j.mem.pending = NoCommit \/ OwnOK(j.mem.pending, own))
    BY <1>2, <2>3, <2>4
  <2> QED  BY <1>4, <2>1, <2>2, <2>3, <2>5
<1> QED  BY <1>5, <1>6, <1>7, <1>8, <1>9, <1>10, <1>11

\* The batch takes a commit of another member, or opens a Welcome.
LEMMA BatchGains ==
    ASSUME IInv, DataInv, FlowInv, NEW w \in Workers, OpenWelcome(w) \/ Apply(w)
    PROVE  DataInv' /\ FlowInv'
<1>1. DOMAIN job[w] = Fields /\ JobOK(w, job[w], own, Len(server))
  BY JobIs DEF IInv, JobsInv
<1>2. UNCHANGED <<server, status, requests, answers, own>>
  BY DEF OpenWelcome, Apply
<1>3. ASSUME NEW j, job' = [job EXCEPT ![w] = j], job[w].pc \in Processing, j.pc = "messages",
             j.task = job[w].task, j.result = job[w].result, j.mem = mls',
             \E t \in Seq(Commits) : /\ Member(t) /\ Begins(t, server) /\ Known(t, own)
                                     /\ mls' = NewGroup(t)
                                     /\ \A u : Past(u) => u # t /\ Past(u)'
      PROVE  DataInv' /\ FlowInv'
  <2>1. PICK t \in Seq(Commits) : /\ Member(t) /\ Begins(t, server) /\ Known(t, own)
                                  /\ mls' = NewGroup(t)
                                  /\ \A u : Past(u) => u # t /\ Past(u)'
    BY <1>3
  <2>2. j.pc \in Processing
    BY <1>3 DEF Processing
  <2>3. AppOK(j) /\ j.result = {} /\ job[w].pc # "record" /\ j.pc # "record"
    BY <1>3, <2>2, BatchApp
  <2>4. Known(j.mem.hist, own) /\ j.mem.pending = NoCommit
    BY <1>3, <2>1, NewGroupIs
  <2>5. BatchOK(j)'
    BY <1>2, <1>3, <2>4, MemoryBatch
  <2> QED  BY <1>2, <1>3, <2>1, <2>3, <2>5, GainTrust
<1>4. CASE OpenWelcome(w)
  <2>1. PICK r \in process_welcome(job[w].pos) :
          /\ mls' = r.group
          /\ keys' = write_encryption_epoch_key_pairs(keys, r.group)
          /\ job' = [job EXCEPT ![w].mem = r.group, ![w].pos = @ + 1]
    BY <1>4 DEF OpenWelcome
  <2>2. /\ job[w].pc = "messages" /\ job[w].pc \in Processing /\ job[w].pos <= job[w].end
        /\ server[job[w].pos].adds /\ job[w].pos \notin opened
        /\ opened' = opened \cup {job[w].pos}
    BY <1>4 DEF OpenWelcome, AtMessage, IsWelcome, At, Processing
  <2>3. PICK i : i = job[w].pos
    OBVIOUS
  <2>4. /\ i \in 1 .. Len(server) /\ server[i].adds /\ i \notin opened
        /\ opened' = opened \cup {i} /\ r \in process_welcome(i)
    <3>1. Len(server) \in Nat
      BY ServerIs
    <3> QED  BY <1>1, <2>1, <2>2, <2>3, <3>1 DEF JobOK
  <2>5. \E t \in Seq(Commits) :
               /\ Member(t) /\ Begins(t, server) /\ Known(t, own) /\ mls' = NewGroup(t)
               /\ \A u : Past(u) => u # t /\ Past(u)'
    BY <1>2, <2>1, <2>4, WelcomeGains
  <2> DEFINE j == [job[w] EXCEPT !.mem = r.group, !.pos = @ + 1]
  <2>6. job' = [job EXCEPT ![w] = j]
    BY <2>1
  <2>7. j.pc = "messages" /\ j.task = job[w].task /\ j.result = job[w].result /\ j.mem = mls'
    BY <1>1, <2>1, <2>2 DEF Fields
  <2> HIDE DEF j
  <2> QED  BY <1>3, <2>2, <2>5, <2>6, <2>7
<1>5. CASE Apply(w)
  <2>1. PICK r \in ProcessCommit(job[w].mem, keys, job[w].pos) :
          /\ mls' = r.group
          /\ keys' = NextEpochKeys(keys, job[w].mem, r.group)
          /\ job' = [job EXCEPT ![w].mem = r.group, ![w].pos = @ + 1, ![w].pc = "messages"]
    BY <1>5 DEF Apply
  <2>2. job[w].pc = "apply" /\ job[w].pc \in Processing /\ UNCHANGED opened
    BY <1>5 DEF Apply, At, Processing
  <2>3. PICK h : h = job[w].mem.hist
    OBVIOUS
  <2>4. PICK t : Advances(h, t, own) /\ Begins(t, server) /\ r.group = NewGroup(t)
    BY <2>2, <2>3, MemoryIs
  <2>5. h \in keys /\ t \in Seq(Commits) /\ Known(t, own)
    BY <2>2, <2>3, <2>4, MemoryIs DEF Advances
  <2>6. keys' \subseteq keys \cup {t}
    BY <2>1, <2>4, <2>5, NewGroupIs
    DEF NextEpochKeys, delete_encryption_epoch_key_pairs, write_encryption_epoch_key_pairs
  <2>7. Member(t) /\ \A u : Past(u) => u # t /\ Past(u)'
    BY <1>2, <2>2, <2>4, <2>5, <2>6, PastAdvance
  <2> DEFINE j == [job[w] EXCEPT !.mem = r.group, !.pos = @ + 1, !.pc = "messages"]
  <2>8. job' = [job EXCEPT ![w] = j]
    BY <2>1
  <2>9. j.pc = "messages" /\ j.task = job[w].task /\ j.result = job[w].result /\ j.mem = mls'
    BY <1>1, <2>1 DEF Fields
  <2> HIDE DEF j
  <2>10. mls' = NewGroup(t)
    BY <2>1, <2>4
  <2> QED  BY <1>3, <2>2, <2>4, <2>5, <2>7, <2>8, <2>9, <2>10
<1> QED  BY <1>4, <1>5

\* The rest of a batch's desync check.
LEMMA ResetTrust ==
    ASSUME IInv, DataInv, FlowInv, NEW w \in Workers, Reset(w) \/ ReadProposals(w), Undisturbed'
    PROVE  DataInv' /\ FlowInv'
<1>1. DOMAIN job[w] = Fields /\ BatchOK(job[w])
  BY JobIs DEF FlowInv
<1>2. job[w].mem # Absent =>
        /\ Known(job[w].mem.hist, own)
        /\ job[w].mem.pending = NoCommit \/ OwnOK(job[w].mem.pending, own)
  BY <1>1 DEF BatchOK
<1>3. ASSUME NEW j, job' = [job EXCEPT ![w] = j], job[w].pc \in Processing,
             j.pc \in {"proposals", "messages"}, j.task = job[w].task, j.result = job[w].result,
             j.mem = job[w].mem, Same,
             UNCHANGED <<server, keys, opened, own, requests, answers>>,
             status' = status \/ (status' = OpNone /\ ~Limbo)
      PROVE  DataInv' /\ FlowInv'
  <2>1. j.pc \in Processing
    BY <1>3 DEF Processing
  <2>2. AppOK(j) /\ j.result = {} /\ job[w].pc # "record" /\ j.pc # "record"
    BY <1>3, <2>1, BatchApp
  <2>3. BatchOK(j)
    BY <1>2, <1>3, MemoryBatch
  <2> QED  BY <1>3, <2>2, <2>3, SameTrust
<1>4. CASE Reset(w)
  <2> DEFINE j == [job[w] EXCEPT !.pc = "proposals"]
  <2>1. /\ job[w].pc = "reset" /\ job' = [job EXCEPT ![w] = j] /\ status' = OpNone
        /\ races' = races \cup {r \in {"changed"} : ~SameState(mls, job[w].mem)}
        /\ UNCHANGED <<server, mls, keys, opened, own, requests, answers>>
    BY <1>4 DEF Reset, At, Goto, KeepsData
  <2>2. j.pc = "proposals" /\ j.task = job[w].task /\ j.result = job[w].result
        /\ j.mem = job[w].mem
    BY <1>1 DEF Fields
  <2> HIDE DEF j
  <2>3. SameState(mls, job[w].mem)
    BY <2>1 DEF Undisturbed
  <2>4. Elsewhere(job[w].mem)
    BY <1>1, <2>1 DEF BatchOK
  <2>5. ~Limbo
    <3>1. mls # Absent => job[w].mem # Absent /\ job[w].mem.hist = mls.hist
      BY <2>3 DEF SameState
    <3>2. Limbo => mls # Absent
      BY DEF Limbo
    <3> QED  BY <2>4, <3>1, <3>2 DEF Elsewhere
  <2>6. Same /\ job[w].pc \in Processing
    BY <2>1 DEF Same, Processing
  <2> QED  BY <1>3, <2>1, <2>2, <2>5, <2>6
<1>5. CASE ReadProposals(w)
  <2> DEFINE j == [job[w] EXCEPT !.pc = "messages"]
  <2>1. /\ job[w].pc = "proposals" /\ job' = [job EXCEPT ![w] = j] /\ status' = status
        /\ mls # Absent /\ mls' = [mls EXCEPT !.sent = job[w].mem.sent]
        /\ UNCHANGED <<server, keys, opened, own, requests, answers>>
    BY <1>5 DEF ReadProposals, At, Goto
  <2>2. j.pc = "messages" /\ j.task = job[w].task /\ j.result = job[w].result
        /\ j.mem = job[w].mem
    BY <1>1 DEF Fields
  <2> HIDE DEF j
  <2>3. mls'.hist = mls.hist /\ mls'.pending = mls.pending
        /\ DOMAIN mls' = {"hist", "pending", "sent"}
    <3>1. GroupOK(mls)
      BY <2>1, StoredIs
    <3> QED  BY <2>1, <3>1, GroupIs
  <2>4. Same
    <3>1. DOMAIN Absent = {"absent"}
      BY DEF Absent
    <3> QED  BY <2>1, <2>3, <3>1 DEF Same
  <2>5. job[w].pc \in Processing
    BY <2>1 DEF Processing
  <2> QED  BY <1>3, <2>1, <2>2, <2>4, <2>5
<1> QED  BY <1>4, <1>5

LEMMA BatchTrust ==
    ASSUME IInv, RowInv, DataInv, FlowInv, NEW w \in Workers, ProcessAllMessages(w), Undisturbed'
    PROVE  DataInv' /\ FlowInv'
<1>1. CASE Decide(w)
  <2>1. Undisturbed
    BY <1>1 DEF Decide, KeepsAll, Undisturbed
  <2> QED  BY <1>1, <2>1, DecideTrust
<1>2. CASE ~Decide(w)
  BY <1>2, BatchQuietTrust, SettleTrust, ResetTrust, BatchGains DEF ProcessAllMessages
<1> QED  BY <1>1, <1>2

LEMMA RecordTrust ==
    ASSUME OneRecorder, IInv, RowInv, DataInv, FlowInv, NEW w \in Workers, Record(w)
    PROVE  DataInv' /\ FlowInv'
<1>1. UNCHANGED <<server, mls, keys, opened, own, answers>>
  BY DEF Record, KeepsData
<1>2. Same
  BY <1>1 DEF Same
<1>3. FlowInv' /\ Sents' = Sents
  BY RecordFlow
<1> QED  BY <1>1, <1>2, <1>3, SameData

-----------------------------------------------------------------------------
(* Every step.                                                             *)

\* What has disturbed a group stays known.
LEMMA RacesGrow ==
    ASSUME [Next]_vars
    PROVE  races \subseteq races'
<1>1. CASE \/ UNCHANGED vars \/ \E r \in requests : ServerHandles(r)
           \/ \E adds \in BOOLEAN : PeerCommits(adds)
  BY <1>1 DEF vars, ServerHandles, PeerCommits
<1>2. ASSUME NEW w \in Workers, Operation(w) PROVE races \subseteq races'
  BY <1>2
  DEF Operation, CheckAbsent, ReaddChecks, Begin, TaskFails, Record, CreateGroupTask,
      JoinByExternalCommitTask, BatchJoinByExternalCommitTask, ExternalCommit, Replacement,
      AddMembersTask, RemoveMembersTask, UpdateLeafNodeTask, ReaddTask, Stages,
      MergePendingCommitTask, ClearPendingCommitTask, ClearPendingProposalsTask,
      DeleteGroupTask, KeepsAll
<1>3. ASSUME NEW w \in Workers, Message(w) PROVE races \subseteq races'
  BY <1>3
  DEF Message, EncryptMessageTask, ProcessOperationMessageTask, CommitToProposal,
      ProcessManyOperationMessagesTask, ProcessApplicationMessageTask,
      ProcessProposalMessageTask, LeaveGroupTask, UpdateGroupConfigTask, ProcessWelcomeTask,
      Receives, Replacement
<1>4. ASSUME NEW w \in Workers, Query(w) \/ Submit(w) PROVE races \subseteq races'
  BY <1>4
  DEF Query, ReadStatus, GroupEpochTask, GroupEpochsTask, GroupContextTask,
      GroupContextsTask, Answers, Resolve, Submit, SubmitCreate, SubmitReadd, SubmitBatch,
      SubmitOperation, SubmitSettlement, SubmitMessage, SubmitQuery, Start, StartTransaction,
      KeepsAll
<1>5. ASSUME NEW w \in Workers, ProcessAllMessages(w) PROVE races \subseteq races'
  BY <1>5
  DEF ProcessAllMessages, Load, Decide, Settle, Reset, SettleFails, ReadProposals,
      NoProposals, OpenWelcome, Reload, Apply, ApplyFails, ProcessAllReturns, KeepsAll
<1> QED  BY <1>1, <1>2, <1>3, <1>4, <1>5 DEF Next

LEMMA NextAnswers ==
    ASSUME OneRecorder, IInv, RowInv, AnswersInv, [Next]_vars
    PROVE  AnswersInv'
<1> SUFFICES ASSUME Undisturbed' PROVE DataInv' /\ FlowInv'
  BY DEF AnswersInv
<1>1. DataInv /\ FlowInv
  <2>1. Undisturbed
    BY RacesGrow DEF Undisturbed
  <2> QED  BY <2>1 DEF AnswersInv
<1>2. CASE UNCHANGED vars
  <2>1. UNCHANGED <<server, mls, keys, status, opened, job, requests, answers, own>>
    BY <1>2 DEF vars
  <2>2. Same /\ (Limbo' <=> Limbo) /\ Sents' = Sents /\ Items' = Items
    BY <2>1 DEF Same, Limbo, Sents, Items
  <2>3. DataInv'
    BY <1>1, <2>1, <2>2, SameData
  <2>4. FlightInv' /\ LimboRowInv' /\ StatusInv'
    BY <1>1, <2>1, <2>2
    DEF FlowInv, FlightInv, LimboRowInv, StatusInv, InServer, AllJoins
  <2>5. ASSUME NEW w \in Workers
        PROVE  ResultOK(job[w])' /\ AppOK(job[w])' /\ BatchOK(job[w])'
    <3>1. ResultOK(job[w]) /\ AppOK(job[w]) /\ BatchOK(job[w])
      BY <1>1 DEF FlowInv
    <3>2. ResultOK(job[w])' /\ AppOK(job[w])'
      BY <2>1, <3>1 DEF ResultOK, AppOK
    <3>3. BatchOK(job[w])'
      BY <2>1, <2>2, <3>1 DEF BatchOK, MergeOK, Elsewhere, OwnAt
    <3> QED  BY <3>2, <3>3
  <2> QED  BY <2>1, <2>3, <2>4, <2>5 DEF FlowInv
<1>3. CASE \/ \E r \in requests : ServerHandles(r)
           \/ \E adds \in BOOLEAN : PeerCommits(adds)
  BY <1>1, <1>3, ServerFlow
<1>4. ASSUME NEW w \in Workers, Operation(w) PROVE DataInv' /\ FlowInv'
  BY <1>1, <1>4, BeforeTrust, RecordTrust, OwnOperationTrust, MergeTrust, ClearTrust,
     ClearProposalsTrust, DeleteTrust DEF Operation
<1>5. ASSUME NEW w \in Workers, Message(w) \/ Query(w) \/ ProcessAllMessages(w) \/ Submit(w)
      PROVE  DataInv' /\ FlowInv'
  BY <1>1, <1>5, MessageTrust, BeforeTrust, BatchTrust
<1> QED  BY <1>2, <1>3, <1>4, <1>5 DEF Next

LEMMA InitAnswers == Init => AnswersInv
<1> SUFFICES ASSUME Init PROVE DataInv /\ FlowInv
  BY DEF AnswersInv
<1>1. /\ server = <<>> /\ mls = Absent /\ status = OpNone /\ requests = {} /\ answers = {}
      /\ \A w \in Workers : job[w] = Idle
  BY DEF Init
<1>2. Idle.pc = "idle" /\ Idle.result = {} /\ AppOK(Idle) /\ BatchOK(Idle)
  BY IdleTrust
<1>3. Sents = {} /\ Items = {}
  BY <1>1, <1>2 DEF Sents, Items
<1>4. ~Limbo
  BY <1>1 DEF Limbo
<1>5. DataInv
  <2>1. FirstInv /\ SentInv /\ PendingInv /\ HistInv /\ LimboInv
    BY <1>1, <1>3, <1>4 DEF FirstInv, SentInv, PendingInv, HistInv, LimboInv
  <2>2. AcceptedInv
    <3>1. Len(server) = 0
      BY <1>1
    <3> QED  BY <3>1 DEF AcceptedInv, OwnAt
  <2> QED  BY <2>1, <2>2 DEF DataInv
<1>6. FlowInv
  <2>1. FlightInv /\ LimboRowInv
    BY <1>1, <1>3, <1>4 DEF FlightInv, LimboRowInv
  <2>2. StatusInv
    BY <1>1 DEF StatusInv, OpNone, JoinByExternalCommit, UpdateTree
  <2>3. \A w \in Workers : ResultOK(job[w]) /\ AppOK(job[w]) /\ BatchOK(job[w])
    BY <1>1, <1>2 DEF ResultOK
  <2> QED  BY <2>1, <2>2, <2>3 DEF FlowInv
<1> QED  BY <1>5, <1>6

\* The inductive invariant holds in every state: the stored group, the commits
\* on their way and the rows of group_statuses agree with what the server has
\* accepted, until something disturbs them that the properties name.
THEOREM AnswersAreKept == ASSUME OneRecorder PROVE Spec => [](IInv /\ RowInv /\ AnswersInv)
<1>1. Init => RowInv /\ AnswersInv
  BY InitRow, InitAnswers
<1>2. IInv /\ RowInv /\ AnswersInv /\ [Next]_vars => RowInv' /\ AnswersInv'
  BY NextRow, NextAnswers
<1> QED  BY <1>1, <1>2, Inductive, PTL DEF Spec

\* An external commit that is not settled has its row, or is about to.
LEMMA LimboIsOpen ==
    ASSUME FlowInv, Limbo
    PROVE  JoinIsOpen
<1>1. CASE status = JoinByExternalCommit
  BY <1>1 DEF JoinIsOpen
<1>2. CASE status # JoinByExternalCommit
  <2>1. PICK w \in Workers : Joining(job[w])
    BY <1>2 DEF FlowInv, LimboRowInv
  <2>2. job[w].task \in OwnOperations /\ job[w].task \in Joins /\ At(w, "record")
    BY <2>1 DEF Joining, Joins, OwnOperations, At
  <2> QED  BY <2>2, StatusAfterOwn DEF JoinIsOpen
<1> QED  BY <1>1, <1>2

\* The stored group is the server's up to k, where its commits up to k are.
LEMMA StoredIsPrefix ==
    ASSUME IInv, mls # Absent, NEW k \in 1 .. Len(mls.hist),
           \A i \in 1 .. k : i \in 1 .. Len(server) /\ mls.hist[i] = server[i]
    PROVE  IsPrefix(SubSeq(mls.hist, 1, k), server)
<1>1. mls.hist \in Seq(Commits) /\ Len(mls.hist) \in Nat
  BY StoredLength
<1>2. server \in Seq(Commits) /\ Len(server) \in Nat
  BY ServerIs
<1>3. PICK s : s = SubSeq(mls.hist, 1, k)
  OBVIOUS
<1>4. s \in Seq(Commits) /\ Len(s) = k /\ \A i \in 1 .. k : s[i] = mls.hist[i]
  BY <1>1, <1>3, SubSeqAt
<1>5. k \in 1 .. Len(server)
  OBVIOUS
<1>6. Begins(s, server)
  BY <1>2, <1>4, <1>5 DEF Begins
<1> QED  BY <1>2, <1>3, <1>4, <1>6, PrefixBegins

\* Where one worker has the application's calls that write rows, neither
\* merge_pending_commit nor the desync check of a batch merges an own commit
\* that the server has not accepted: in spite of all batches, queries and
\* received messages that other workers process meanwhile, short of the four
\* kinds of interference and the one order of calls that the property names.
THEOREM MergesAreAccepted == ASSUME OneRecorder PROVE Spec => []MergedIsAccepted
<1>1. IInv /\ AnswersInv => MergedIsAccepted
  <2> SUFFICES ASSUME IInv, AnswersInv, mls # Absent, ~CreatedAgain, Undisturbed,
                      NEW i \in 2 .. Len(mls.hist), mls.hist[i].by = "self", ~JoinIsOpen
               PROVE  IsPrefix(SubSeq(mls.hist, 1, i), server)
    BY DEF MergedIsAccepted, Undisturbed
  <2>1. DataInv /\ FlowInv
    BY DEF AnswersInv
  <2>2. mls.hist \in Seq(Commits) /\ Len(mls.hist) \in Nat /\ Len(server) \in Nat
    BY StoredLength, ServerIs
  <2>3. ~Open(mls.hist, server)
    BY <2>1, LimboIsOpen DEF Limbo
  <2>4. ~Single(mls.hist)
    BY <2>2 DEF Single
  <2>5. ~Again(mls.hist, server)
    BY DEF Again, CreatedAgain
  <2>6. Begins(mls.hist, server)
    BY <2>1, <2>3, <2>4, <2>5 DEF DataInv, HistInv, HistOK
  <2>7. /\ i \in 1 .. Len(mls.hist)
        /\ \A k \in 1 .. i : k \in 1 .. Len(server) /\ mls.hist[k] = server[k]
    BY <2>2, <2>6 DEF Begins
  <2> QED  BY <2>7, StoredIsPrefix
<1> QED  BY <1>1, AnswersAreKept, PTL

-----------------------------------------------------------------------------
(* The answers of the queries.                                             *)

\* A worker that has read the row gives its answer, whatever the others do.
LEMMA AnswerStep ==
    ASSUME IInv, [Next]_vars, NEW w \in Workers, At(w, "context")
    PROVE  job'[w] = job[w] \/ job'[w].pos = PendingEpochOf(w)
<1>1. job[w].pc = "context" /\ w \in DOMAIN job /\ DOMAIN job[w] = Fields
  BY JobIs DEF At, IInv, JobsInv
<1>2. CASE \/ UNCHANGED vars \/ \E r \in requests : ServerHandles(r)
           \/ \E adds \in BOOLEAN : PeerCommits(adds)
  BY <1>2 DEF vars, ServerHandles, PeerCommits
<1>3. ASSUME NEW v \in Workers, Operation(v) PROVE job'[w] = job[w]
  <2>1. v # w
    BY <1>1, <1>3
    DEF Operation, CheckAbsent, ReaddChecks, Begin, TaskFails, Record, CreateGroupTask,
        JoinByExternalCommitTask, BatchJoinByExternalCommitTask,
        AddMembersTask, RemoveMembersTask, UpdateLeafNodeTask, ReaddTask,
        MergePendingCommitTask, ClearPendingCommitTask, ClearPendingProposalsTask,
        DeleteGroupTask, Working, At
  <2> QED
    BY <1>1, <1>3, <2>1
    DEF Operation, CheckAbsent, ReaddChecks, Begin, TaskFails, Record, CreateGroupTask,
        JoinByExternalCommitTask, BatchJoinByExternalCommitTask, ExternalCommit,
        AddMembersTask, RemoveMembersTask, UpdateLeafNodeTask, ReaddTask, Stages,
        MergePendingCommitTask, ClearPendingCommitTask, ClearPendingProposalsTask,
        DeleteGroupTask, Ends, ThenRecord, Return, Goto
<1>4. ASSUME NEW v \in Workers, Message(v) PROVE job'[w] = job[w]
  <2>1. v # w /\ Return(v)
    BY <1>1, <1>4
    DEF Message, EncryptMessageTask, ProcessOperationMessageTask, CommitToProposal,
        ProcessManyOperationMessagesTask, ProcessApplicationMessageTask,
        ProcessProposalMessageTask, LeaveGroupTask, UpdateGroupConfigTask,
        ProcessWelcomeTask, Receives, ThenReturn, Working, At
  <2> QED  BY <1>1, <2>1 DEF Return
<1>5. ASSUME NEW v \in Workers, Submit(v) PROVE job'[w] = job[w]
  <2>1. v # w
    BY <1>1, <1>5
    DEF Submit, SubmitCreate, SubmitReadd, SubmitBatch, SubmitOperation, SubmitSettlement,
        SubmitMessage, SubmitQuery, Start, StartTransaction, At
  <2> QED
    BY <1>1, <1>5, <2>1
    DEF Submit, SubmitCreate, SubmitReadd, SubmitBatch, SubmitOperation, SubmitSettlement,
        SubmitMessage, SubmitQuery, Start, StartTransaction
<1>6. ASSUME NEW v \in Workers, ProcessAllMessages(v) PROVE job'[w] = job[w]
  <2>1. v # w
    BY <1>1, <1>6
    DEF ProcessAllMessages, Load, Decide, Settle, Reset, SettleFails, ReadProposals,
        NoProposals, OpenWelcome, Reload, Apply, ApplyFails, ProcessAllReturns, AtMessage, At
  <2> QED
    BY <1>1, <1>6, <2>1
    DEF ProcessAllMessages, Load, Decide, Settle, Reset, SettleFails, ReadProposals,
        NoProposals, OpenWelcome, Reload, Apply, ApplyFails, ProcessAllReturns, Return, Goto
<1>7. ASSUME NEW v \in Workers, Query(v)
      PROVE  job'[w] = job[w] \/ job'[w].pos = PendingEpochOf(w)
  <2>1. CASE v # w
    BY <1>1, <1>7, <2>1
    DEF Query, ReadStatus, GroupEpochTask, GroupEpochsTask, GroupContextTask,
        GroupContextsTask, Answers, Resolve, Return
  <2>2. CASE v = w
    <3>1. Answers(w, PendingEpochOf(w))
      BY <1>1, <1>7, <2>2
      DEF Query, ReadStatus, GroupEpochTask, GroupEpochsTask, GroupContextTask,
          GroupContextsTask, Resolve, At
    <3>2. job' = [job EXCEPT ![w].pc = "answer", ![w].pos = PendingEpochOf(w)]
      BY <3>1 DEF Answers
    <3> HIDE DEF PendingEpochOf
    <3>3. job'[w].pos = PendingEpochOf(w)
      BY <1>1, <3>2 DEF Fields
    <3> QED  BY <3>3
  <2> QED  BY <2>1, <2>2
<1> QED  BY <1>2, <1>3, <1>4, <1>5, <1>6, <1>7 DEF Next

\* The epoch that a query reports.
LEMMA ReportedEpoch ==
    ASSUME IInv, AnswersInv, Undisturbed, mls # Absent, ~CreatedAgain, NEW op, NEW n,
           n = PendingEpoch(op, Epoch(mls))
    PROVE  \/ n = 0
           \/ IsPrefix(SubSeq(mls.hist, 1, n + 1), server)
           \/ op # JoinByExternalCommit /\ JoinIsOpen
<1>1. DataInv /\ FlowInv
  BY DEF AnswersInv
<1>2. mls.hist \in Seq(Commits) /\ Len(mls.hist) \in Nat /\ Len(mls.hist) >= 1
      /\ Len(server) \in Nat
  BY StoredLength, ServerIs
<1>3. PICK e : e = Len(mls.hist) - 1
  OBVIOUS
<1>4. e \in Nat /\ n = (IF op = JoinByExternalCommit /\ e > 0 THEN e - 1 ELSE e)
  BY <1>2, <1>3 DEF PendingEpoch, Epoch
<1>5. CASE Begins(mls.hist, server)
  <2>1. n \in Nat /\ n + 1 \in 1 .. Len(mls.hist)
    BY <1>2, <1>3, <1>4
  <2>2. \A i \in 1 .. n + 1 : i \in 1 .. Len(server) /\ mls.hist[i] = server[i]
    BY <1>2, <1>5, <2>1 DEF Begins
  <2> QED  BY <2>1, <2>2, StoredIsPrefix
<1>6. CASE Single(mls.hist)
  BY <1>3, <1>4, <1>6 DEF Single
<1>7. CASE Open(mls.hist, server) /\ op # JoinByExternalCommit
  BY <1>1, <1>7, LimboIsOpen DEF Limbo
<1>8. CASE Open(mls.hist, server) /\ op = JoinByExternalCommit
  <2>1. e >= 1
    BY <1>2, <1>3, <1>8 DEF Open
  <2>2. n \in Nat /\ n + 1 \in 1 .. Len(mls.hist) /\ n + 1 = Len(mls.hist) - 1
    BY <1>2, <1>3, <1>4, <1>8, <2>1
  <2>3. \A i \in 1 .. n + 1 : i \in 1 .. Len(server) /\ mls.hist[i] = server[i]
    BY <1>2, <1>8, <2>2 DEF Open
  <2> QED  BY <2>2, <2>3, StoredIsPrefix
<1>9. ~Again(mls.hist, server)
  BY DEF Again, CreatedAgain
<1> QED  BY <1>1, <1>5, <1>6, <1>7, <1>8, <1>9 DEF DataInv, HistInv, HistOK

\* Under the same assumption the epoch that group_epoch and its relatives report
\* is one the server has, or the first; or the row was read before an external
\* commit was made.
THEOREM AnswersAreSettled == ASSUME OneRecorder PROVE Spec => AnswerIsSettled
<1>1. ASSUME IInv, AnswersInv, [Next]_vars, NEW w \in Workers,
             At(w, "context"), mls # Absent, ~CreatedAgain, Undisturbed
      PROVE  \/ job'[w].pos = 0
             \/ IsPrefix(SubSeq(mls.hist, 1, job'[w].pos + 1), server)
             \/ job[w].op # JoinByExternalCommit /\ JoinIsOpen
  <2>1. CASE job'[w] = job[w]
    <3>1. job[w].pos = 0
      BY <1>1 DEF AnswersInv, FlowInv, BatchOK, At
    <3> QED  BY <2>1, <3>1
  <2>2. CASE job'[w].pos = PendingEpochOf(w)
    <3>1. job'[w].pos = PendingEpoch(job[w].op, Epoch(mls))
      BY <1>1, <2>2 DEF PendingEpochOf
    <3> QED  BY <1>1, <3>1, ReportedEpoch
  <2> QED  BY <1>1, <2>1, <2>2, AnswerStep
<1>2. IInv /\ AnswersInv /\ [Next]_vars =>
        [\A w \in Workers :
            /\ At(w, "context") /\ mls # Absent /\ ~CreatedAgain
            /\ races \cap {"changed", "inflight", "proposal", "cleared"} = {}
            => \/ job'[w].pos = 0
               \/ IsPrefix(SubSeq(mls.hist, 1, job'[w].pos + 1), server)
               \/ job[w].op # JoinByExternalCommit /\ JoinIsOpen]_vars
  BY <1>1 DEF Undisturbed
<1> QED  BY <1>2, AnswersAreKept, PTL DEF Spec, AnswerIsSettled
=============================================================================

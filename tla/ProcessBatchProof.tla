------------------------- MODULE ProcessBatchProof -------------------------
(***************************************************************************)
(* What process_all_messages answers is right for any groups, members,     *)
(* messages and calls.  The server's messages are in the order of their    *)
(* epochs, and after a commit only its Welcome has the same one (Ordered); *)
(* so is a batch of them.  From there on the answer for one group is a     *)
(* matter of the loop over its messages: Loop says what the list of        *)
(* removals, the list of re-adds and the group in memory are after the     *)
(* messages before call.pos, and an answer once pushed (Right) does not    *)
(* depend on the state any more, but for the server's state, which stays   *)
(* while the call runs.                                                    *)
(***************************************************************************)
EXTENDS ProcessBatch, SequenceTheorems, FiniteSetTheorems, WellFoundedInduction, TLAPS

CallFields == DOMAIN NoCall

\* Messages of a group whose server is in epoch n.
Ordered(s, n) ==
    /\ s \in Seq(Range(s))
    /\ \A i \in 1 .. Len(s) :
          /\ s[i].epoch \in Nat \ {0} /\ s[i].epoch <= n + 1
          /\ s[i].type = "commit" => s[i].epoch <= n
    /\ \A i, j \in 1 .. Len(s) : i < j =>
          /\ s[i].epoch <= s[j].epoch
          /\ s[i].type = "commit" /\ s[j].type # "welcome" => s[i].epoch < s[j].epoch

ServerInv ==
    /\ DOMAIN server = Ids /\ DOMAIN log = Ids
    /\ \A g \in Ids : server[g].epoch \in Nat \ {0} /\ Ordered(log[g], server[g].epoch)

StoredInv ==
    /\ DOMAIN stored = Ids
    /\ \A g \in Ids : stored[g] # Absent => stored[g].epoch \in Nat

\* What the application learns of the groups that were deleted.
GoneInv == ~failed => gone \subseteq told \cup call.deleted

-----------------------------------------------------------------------------
(* One group.                                                              *)

InGroup == call.pc \in {"desync", "proposals", "messages"}

\* The answer that PushResult would give of call c.
Answer(c) ==
    [group |-> Groups[c.at], error |-> c.error, batch |-> c.batch,
     removals |-> {e.info : e \in c.removals}, readds |-> c.readds,
     left |-> c.group, start |-> c.start, spent |-> c.spent]

\* Before the loop.
Fresh ==
    /\ call.pos = 1 /\ call.removals = {} /\ call.readds = {} /\ ~call.error
    /\ call.group \in {Absent, stored[Id]}

\* An entry of the list is a proposal of the batch.
NamedBy(e, c, i) ==
    /\ c.batch[i].type \in {"remove", "custom_remove"}
    /\ e.info = Named(c.batch[i]) /\ e.epoch = c.batch[i].epoch

\* A Welcome has come, and no commit since.
WelcomeLast(c) ==
    \E k \in 1 .. c.pos - 1 :
        c.batch[k].type = "welcome" /\ \A j \in k .. c.pos - 1 : c.batch[j].type # "commit"

\* An entry is newer than every commit so far.
Newer(e, c) ==
    \A j \in 1 .. c.pos - 1 : c.batch[j].type = "commit" => c.batch[j].epoch < e.epoch

\* An entry is in the list for a member of the group, or a Welcome has come
\* since the list was gone through, or it is newer than every commit so far.
Sound(c) ==
    \A e \in c.removals :
        /\ \E i \in 1 .. Len(c.batch) : NamedBy(e, c, i)
        /\ Present(e.info, c.group.members) \/ WelcomeLast(c) \/ Newer(e, c)

ReaddInv ==
    ~call.error =>
        call.readds =
            {OfMember(call.batch[i].about) : i \in {i \in 1 .. call.pos - 1 :
                call.batch[i].type = "custom_readd" /\ Requested(call.batch[i].epoch)}}

\* A state that the group had when it was loaded, or has in the messages so far.
Seen(g, c) ==
    /\ g # Absent
    /\ \/ g.members = c.start.members
       \/ \E j \in 1 .. c.pos - 1 :
             /\ c.batch[j].type \in {"commit", "welcome"}
             /\ g.members = c.batch[j].members /\ g.epoch = c.batch[j].epoch

NoWelcome(c) == \A i \in 1 .. Len(c.batch) : c.batch[i].type # "welcome"

\* The group in memory has come as far as the messages.
Level(c) ==
    \A j \in 1 .. c.pos - 1 : c.batch[j].type = "commit" => c.batch[j].epoch <= c.group.epoch

Listed(c, i) ==
    \E e \in c.removals : e.info = Named(c.batch[i]) /\ c.batch[i].epoch <= e.epoch

\* What must be in the list: where the group has followed the messages, the
\* states before the proposal do not matter.
Expected(c, i) ==
    /\ Readable(Answer(c), i)
    /\ \E followed \in BOOLEAN :
          Stays(Answer(c), i, followed) /\ (followed => NoWelcome(c) /\ Level(c))

\* g is the stored group.
Complete(c, g) ==
    c.start # Absent =>
        /\ Seen(c.group, c) /\ Seen(g, c)
        /\ NoWelcome(c) => c.loaded \/ c.group = g
        /\ ~c.error => \A i \in 1 .. Len(c.batch) : Expected(c, i) => Listed(c, i)

Loop ==
    /\ call.pos \in 1 .. Len(call.batch) + 1
    /\ call.group # Absent => call.group.epoch \in Nat
    /\ call.group = Absent => call.removals = {}
    /\ Sound(call) /\ ReaddInv /\ Complete(call, stored[Id])

-----------------------------------------------------------------------------
(* The inductive invariant.                                                *)

SoundAnswer(r) ==
    \A info \in r.removals :
        \/ r.left # Absent /\ Present(info, r.left.members)
        \/ EndsWithWelcome(r)
        \/ \A c \in CommitsOf(r) : \E i \in DOMAIN r.batch :
              /\ r.batch[i].epoch > c.epoch
              /\ \/ r.batch[i].type = "custom_remove" /\ info = OfUser(r.batch[i].about)
                 \/ r.batch[i].type = "remove" /\ info = OfMember(r.batch[i].about)

ExactAnswer(r) ==
    ~r.error =>
        r.readds = {OfMember(r.batch[i].about) : i \in {i \in DOMAIN r.batch :
            /\ r.batch[i].type = "custom_readd"
            /\ \A j \in i..Len(r.batch) : r.batch[j].type # "commit"}}

CompleteAnswer(r) ==
    ~r.error =>
        \A i \in DOMAIN r.batch :
            Readable(r, i) /\ Stays(r, i, Followed(r)) => Named(r.batch[i]) \in r.removals

Right(r) == SoundAnswer(r) /\ ExactAnswer(r) /\ CompleteAnswer(r)

CallInv ==
    /\ DOMAIN call = CallFields
    /\ call.pc \in {"idle", "load", "desync", "proposals", "messages"}
    /\ call.pc = "idle" => call.results = {} /\ call.deleted = {}
    /\ call.pc # "idle" => call.at \in Nat \ {0}
    /\ InGroup => Id \in Ids /\ Ordered(call.batch, server[Id].epoch)
    /\ call.pc = "desync" => Fresh /\ call.group # Absent
    /\ call.pc = "proposals" => Fresh
    /\ call.pc = "messages" => Loop

ResultsInv == \A r \in call.results : Right(r)

IInv == ServerInv /\ StoredInv /\ GoneInv /\ CallInv /\ ResultsInv

-----------------------------------------------------------------------------
(* Messages in the order of their epochs.                                  *)

LEMMA SeqIs ==
    ASSUME NEW S, NEW s \in Seq(S)
    PROVE  s \in Seq(Range(s)) /\ Len(s) \in Nat /\ DOMAIN s = 1 .. Len(s)
<1>1. Len(s) \in Nat /\ DOMAIN s = 1 .. Len(s) /\ s = [i \in 1 .. Len(s) |-> s[i]]
  OBVIOUS
<1>2. \A i \in 1 .. Len(s) : s[i] \in Range(s)
  BY <1>1 DEF Range
<1>3. s \in [1 .. Len(s) -> Range(s)]
  BY <1>1, <1>2
<1>4. s \in Seq(Range(s))
  BY <1>1, <1>3, SeqDef
<1> QED  BY <1>1, <1>4

LEMMA OrderedIs ==
    ASSUME NEW s, NEW n, Ordered(s, n)
    PROVE  s \in Seq(Range(s)) /\ Len(s) \in Nat /\ DOMAIN s = 1 .. Len(s)
BY SeqIs DEF Ordered

\* What follows the first m messages.
LEMMA SuffixOrdered ==
    ASSUME NEW s, NEW n, Ordered(s, n), NEW m \in Nat
    PROVE  Ordered(SubSeq(s, m + 1, Len(s)), n)
<1> DEFINE t == SubSeq(s, m + 1, Len(s))
<1>1. s \in Seq(Range(s)) /\ Len(s) \in Nat
  BY OrderedIs
<1>2. /\ t \in Seq(Range(s)) /\ Len(t) \in Nat
      /\ \A i \in 1 .. Len(t) : i + m \in 1 .. Len(s) /\ t[i] = s[i + m]
  <2>1. \A i \in m + 1 .. Len(s) : s[i] \in Range(s)
    BY <1>1
  <2>2. /\ t \in Seq(Range(s))
        /\ Len(t) = IF m + 1 <= Len(s) THEN Len(s) - (m + 1) + 1 ELSE 0
        /\ \A i \in 1 .. Len(s) - (m + 1) + 1 : t[i] = s[m + 1 + i - 1]
    BY <1>1, <2>1, SubSeqProperties
  <2> HIDE DEF t
  <2> QED  BY <1>1, <2>2
<1> HIDE DEF t
<1>3. t \in Seq(Range(t))
  BY <1>2, SeqIs
<1>4. \A i \in 1 .. Len(t) : /\ t[i].epoch \in Nat \ {0} /\ t[i].epoch <= n + 1
                             /\ t[i].type = "commit" => t[i].epoch <= n
  BY <1>2 DEF Ordered
<1>5. \A i, j \in 1 .. Len(t) : i < j =>
          /\ t[i].epoch <= t[j].epoch
          /\ t[i].type = "commit" /\ t[j].type # "welcome" => t[i].epoch < t[j].epoch
  <2> SUFFICES ASSUME NEW i \in 1 .. Len(t), NEW j \in 1 .. Len(t), i < j
               PROVE  /\ t[i].epoch <= t[j].epoch
                      /\ t[i].type = "commit" /\ t[j].type # "welcome" => t[i].epoch < t[j].epoch
    OBVIOUS
  <2>1. i + m \in 1 .. Len(s) /\ j + m \in 1 .. Len(s) /\ i + m < j + m
    BY <1>2
  <2> QED  BY <1>2, <2>1 DEF Ordered
<1>6. Ordered(t, n)
  BY <1>3, <1>4, <1>5 DEF Ordered
<1> QED  BY <1>6 DEF t

LEMMA BatchOrdered ==
    ASSUME ServerInv, NEW g \in Ids
    PROVE  Ordered(Batch(g), server[g].epoch)
<1>1. Ordered(log[g], server[g].epoch)
  BY DEF ServerInv
<1> DEFINE from == IF stored[g] = Absent THEN -1
                   ELSE IF status[g] = OpJoin THEN stored[g].epoch - 1 ELSE stored[g].epoch
           known == {i \in DOMAIN log[g] : log[g][i].epoch <= from}
<1>2. Cardinality(known) \in Nat
  <2>1. DOMAIN log[g] = 1 .. Len(log[g]) /\ Len(log[g]) \in Nat
    BY <1>1, OrderedIs
  <2>2. IsFiniteSet(1 .. Len(log[g]))
    BY <2>1, FS_Interval
  <2> QED  BY <2>1, <2>2, FS_Subset, FS_CardinalityType
<1>3. Batch(g) = SubSeq(log[g], Cardinality(known) + 1, Len(log[g]))
  BY DEF Batch
<1> HIDE DEF known
<1> QED  BY <1>1, <1>2, <1>3, SuffixOrdered

\* A message of the server's epoch, or a commit that makes the next.
LEMMA JoinOrdered ==
    ASSUME NEW s, NEW n \in Nat, Ordered(s, n), NEW T, NEW t \in Seq(T), NEW m \in {n, n + 1},
           \A i \in 1 .. Len(t) : t[i].epoch = n + 1 /\ (t[i].type = "commit" => m = n + 1),
           \A i, j \in 1 .. Len(t) : i < j /\ t[i].type = "commit" => t[j].type = "welcome"
    PROVE  Ordered(s \o t, m)
<1> DEFINE S == Range(s) \cup T
           u == s \o t
<1>1. s \in Seq(Range(s)) /\ Len(s) \in Nat /\ Len(t) \in Nat
  BY OrderedIs
<1>2. s \in Seq(S) /\ t \in Seq(S)
  BY <1>1
<1>3. /\ u \in Seq(S) /\ Len(u) = Len(s) + Len(t)
      /\ \A i \in 1 .. Len(s) + Len(t) : u[i] = IF i <= Len(s) THEN s[i] ELSE t[i - Len(s)]
  <2> HIDE DEF S
  <2> QED  BY <1>2, ConcatProperties
<1> HIDE DEF u
<1>4. u \in Seq(Range(u))
  BY <1>3, SeqIs
<1>5. ASSUME NEW i \in 1 .. Len(u)
      PROVE  \/ i \in 1 .. Len(s) /\ u[i] = s[i]
             \/ ~(i <= Len(s)) /\ i - Len(s) \in 1 .. Len(t) /\ u[i] = t[i - Len(s)]
  BY <1>1, <1>3
<1>6. \A i \in 1 .. Len(s) : /\ s[i].epoch \in Nat \ {0} /\ s[i].epoch <= n + 1
                             /\ s[i].type = "commit" => s[i].epoch <= n
  BY DEF Ordered
<1>7. \A i \in 1 .. Len(u) : /\ u[i].epoch \in Nat \ {0} /\ u[i].epoch <= m + 1
                             /\ u[i].type = "commit" => u[i].epoch <= m
  <2> SUFFICES ASSUME NEW i \in 1 .. Len(u)
               PROVE  /\ u[i].epoch \in Nat \ {0} /\ u[i].epoch <= m + 1
                      /\ u[i].type = "commit" => u[i].epoch <= m
    OBVIOUS
  <2>1. CASE i \in 1 .. Len(s) /\ u[i] = s[i]
    BY <1>6, <2>1
  <2>2. CASE i - Len(s) \in 1 .. Len(t) /\ u[i] = t[i - Len(s)]
    <3>1. u[i].epoch = n + 1 /\ (u[i].type = "commit" => m = n + 1)
      BY <2>2
    <3> QED  BY <3>1
  <2> QED  BY <1>5, <2>1, <2>2
<1>8. \A i, j \in 1 .. Len(u) : i < j =>
          /\ u[i].epoch <= u[j].epoch
          /\ u[i].type = "commit" /\ u[j].type # "welcome" => u[i].epoch < u[j].epoch
  <2> SUFFICES ASSUME NEW i \in 1 .. Len(u), NEW j \in 1 .. Len(u), i < j
               PROVE  /\ u[i].epoch <= u[j].epoch
                      /\ u[i].type = "commit" /\ u[j].type # "welcome" => u[i].epoch < u[j].epoch
    OBVIOUS
  <2>1. CASE i \in 1 .. Len(s) /\ u[i] = s[i] /\ j \in 1 .. Len(s) /\ u[j] = s[j]
    BY <2>1 DEF Ordered
  <2>2. CASE i \in 1 .. Len(s) /\ u[i] = s[i] /\ j - Len(s) \in 1 .. Len(t) /\ u[j] = t[j - Len(s)]
    <3>1. u[j].epoch = n + 1
      BY <2>2
    <3>2. /\ u[i].epoch \in Nat \ {0} /\ u[i].epoch <= n + 1
          /\ u[i].type = "commit" => u[i].epoch <= n
      BY <1>6, <2>2
    <3> QED  BY <3>1, <3>2
  <2>3. CASE /\ i - Len(s) \in 1 .. Len(t) /\ u[i] = t[i - Len(s)]
             /\ j - Len(s) \in 1 .. Len(t) /\ u[j] = t[j - Len(s)]
    <3>1. u[i].epoch = n + 1 /\ u[j].epoch = n + 1
      BY <2>3
    <3>2. i - Len(s) < j - Len(s)
      BY <1>1
    <3>3. u[i].type = "commit" => u[j].type = "welcome"
      BY <2>3, <3>2
    <3> QED  BY <3>1, <3>3
  <2>4. ~(~(i <= Len(s)) /\ j \in 1 .. Len(s))
    BY <1>1
  <2> QED  BY <1>5, <2>1, <2>2, <2>3, <2>4
<1>9. Ordered(u, m)
  BY <1>4, <1>7, <1>8 DEF Ordered
<1> QED  BY <1>9 DEF u

-----------------------------------------------------------------------------
(* Between the calls.                                                      *)

LEMMA GroupIs ==
    ASSUME NEW epoch, NEW members
    PROVE  /\ Group(epoch, members).epoch = epoch /\ Group(epoch, members).members = members
           /\ Group(epoch, members) # Absent
<1>1. /\ DOMAIN Group(epoch, members) = {"epoch", "members"} /\ DOMAIN Absent = {"absent"}
      /\ Group(epoch, members).epoch = epoch /\ Group(epoch, members).members = members
  BY DEF Group, Absent
<1> QED  BY <1>1

LEMMA MessageIs ==
    ASSUME NEW type, NEW epoch, NEW about, NEW members
    PROVE  /\ Message(type, epoch, about, members).type = type
           /\ Message(type, epoch, about, members).epoch = epoch
BY DEF Message

LEMMA IdleStep ==
    ASSUME IInv, call.pc = "idle", UNCHANGED <<call, told, gone, failed>>, ServerInv', StoredInv'
    PROVE  IInv'
<1>1. GoneInv'
  BY DEF IInv, GoneInv
<1>2. DOMAIN call = CallFields /\ call.results = {} /\ call.deleted = {}
  BY DEF IInv, CallInv
<1>3. CallInv'
  BY <1>2 DEF CallInv, InGroup, CallFields
<1>4. ResultsInv'
  BY <1>2 DEF ResultsInv
<1> QED  BY <1>1, <1>3, <1>4 DEF IInv

\* Sending messages that come with this epoch of the server.
LEMMA SendOrdered ==
    ASSUME ServerInv, NEW g \in Ids, NEW t, NEW T, t \in Seq(T), Send(g, t), NEW h,
           DOMAIN server' = Ids,
           \A k \in Ids : server'[k] = IF k = g THEN h ELSE server[k],
           h.epoch \in {server[g].epoch, server[g].epoch + 1},
           \A i \in 1 .. Len(t) : /\ t[i].epoch = server[g].epoch + 1
                                  /\ t[i].type = "commit" => h.epoch = server[g].epoch + 1,
           \A i, j \in 1 .. Len(t) : i < j /\ t[i].type = "commit" => t[j].type = "welcome"
    PROVE  ServerInv'
<1>1. DOMAIN log' = Ids /\ \A k \in Ids : log'[k] = IF k = g THEN log[g] \o t ELSE log[k]
  BY DEF Send, ServerInv
<1>2. /\ server[g].epoch \in Nat \ {0} /\ Ordered(log[g], server[g].epoch)
      /\ h.epoch \in Nat \ {0}
  BY DEF ServerInv
<1> DEFINE n == server[g].epoch
           s == log[g]
           m == h.epoch
<1>3. Ordered(s \o t, m)
  <2>1. /\ n \in Nat /\ Ordered(s, n) /\ m \in {n, n + 1}
        /\ \A i \in 1 .. Len(t) : t[i].epoch = n + 1 /\ (t[i].type = "commit" => m = n + 1)
    BY <1>2
  <2> HIDE DEF n, s, m
  <2> QED  BY <2>1, JoinOrdered
<1>4. ASSUME NEW k \in Ids PROVE server'[k].epoch \in Nat \ {0} /\ Ordered(log'[k], server'[k].epoch)
  <2>1. CASE k = g
    BY <1>1, <1>2, <1>3, <2>1
  <2>2. CASE k # g
    BY <1>1, <2>2 DEF ServerInv
  <2> QED  BY <2>1, <2>2
<1> QED  BY <1>1, <1>4 DEF ServerInv

LEMMA MemberCommitsIInv ==
    ASSUME IInv, NEW g \in Ids, MemberCommits(g)
    PROVE  IInv'
<1>1. /\ call.pc = "idle" /\ ServerInv /\ StoredInv
      /\ UNCHANGED <<stored, call, told, gone, failed>>
  BY DEF MemberCommits, At, BetweenCalls, IInv
<1>2. StoredInv'
  BY <1>1 DEF StoredInv
<1> DEFINE n == server[g].epoch
<1>3. PICK members, by, t :
        /\ server' = [server EXCEPT ![g] = Group(n + 1, members)]
        /\ t \in { <<Commit(n + 1, by, members)>>,
                   <<Commit(n + 1, by, members), Welcome(n + 1, members)>>,
                   <<Welcome(n + 1, members), Commit(n + 1, by, members)>> }
        /\ Send(g, t)
  BY DEF MemberCommits
<1> DEFINE c == Commit(n + 1, by, members)
           w == Welcome(n + 1, members)
           h == Group(n + 1, members)
<1>4. /\ c.type = "commit" /\ w.type = "welcome" /\ c.epoch = n + 1 /\ w.epoch = n + 1
      /\ h.epoch = n + 1
  BY MessageIs, GroupIs DEF Commit, Welcome
<1>5. /\ t \in {<<c>>, <<c, w>>, <<w, c>>}
      /\ DOMAIN server' = Ids /\ \A k \in Ids : server'[k] = IF k = g THEN h ELSE server[k]
  BY <1>1, <1>3 DEF ServerInv
<1> HIDE DEF c, w, h
<1>6. /\ t \in Seq({c, w})
      /\ \A i \in 1 .. Len(t) : t[i] \in {c, w}
      /\ \A i, j \in 1 .. Len(t) : i < j /\ t[i].type = "commit" => t[j].type = "welcome"
  <2>1. CASE t = <<c>>
    BY <2>1
  <2>2. CASE t = <<c, w>>
    BY <1>4, <2>2
  <2>3. CASE t = <<w, c>>
    BY <1>4, <2>3
  <2> QED  BY <1>5, <2>1, <2>2, <2>3
<1>7. ServerInv'
  BY <1>1, <1>3, <1>4, <1>5, <1>6, SendOrdered
<1> QED  BY <1>1, <1>2, <1>7, IdleStep

LEMMA ProposeIInv ==
    ASSUME IInv, NEW g \in Ids, Propose(g)
    PROVE  IInv'
<1>1. /\ call.pc = "idle" /\ ServerInv /\ StoredInv
      /\ UNCHANGED <<server, stored, call, told, gone, failed>>
  BY DEF Propose, At, BetweenCalls, IInv
<1>2. StoredInv'
  BY <1>1 DEF StoredInv
<1>3. PICK type, about :
        type \in Proposals /\ Send(g, <<Message(type, server[g].epoch + 1, about, {})>>)
  BY DEF Propose, Proposals
<1> DEFINE c == Message(type, server[g].epoch + 1, about, {})
<1>4. c.type # "commit" /\ c.epoch = server[g].epoch + 1
  BY <1>3, MessageIs DEF Proposals
<1> HIDE DEF c
<1> DEFINE t == <<c>>
<1>5. /\ t \in Seq({c}) /\ Len(t) = 1 /\ t[1] = c
      /\ \A i \in 1 .. Len(t) : i = 1
  OBVIOUS
<1>6. Send(g, t)
  BY <1>3 DEF c
<1> HIDE DEF t
<1>7. /\ \A i \in 1 .. Len(t) : t[i].epoch = server[g].epoch + 1 /\ t[i].type # "commit"
      /\ \A i, j \in 1 .. Len(t) : ~(i < j)
  BY <1>4, <1>5
<1>8. /\ DOMAIN server' = Ids
      /\ \A k \in Ids : server'[k] = IF k = g THEN server[g] ELSE server[k]
  BY <1>1 DEF ServerInv
<1>9. ServerInv'
  BY <1>1, <1>5, <1>6, <1>7, <1>8, SendOrdered
<1> QED  BY <1>1, <1>2, <1>9, IdleStep

LEMMA ServerAcceptsIInv ==
    ASSUME IInv, NEW g \in Ids, ServerAccepts(g)
    PROVE  IInv'
<1> DEFINE n == server[g].epoch
           c == Commit(n + 1, Self, stored[g].members)
           h == Group(n + 1, stored[g].members)
<1>1. /\ call.pc = "idle" /\ ServerInv /\ StoredInv
      /\ server' = [server EXCEPT ![g] = h] /\ Send(g, <<c>>)
      /\ UNCHANGED <<stored, call, told, gone, failed>>
  BY DEF ServerAccepts, At, BetweenCalls, IInv
<1>2. StoredInv'
  BY <1>1 DEF StoredInv
<1>3. c.type = "commit" /\ c.epoch = n + 1 /\ h.epoch = n + 1
  BY MessageIs, GroupIs DEF Commit
<1>4. DOMAIN server' = Ids /\ \A k \in Ids : server'[k] = IF k = g THEN h ELSE server[k]
  BY <1>1 DEF ServerInv
<1> HIDE DEF c, h
<1> DEFINE t == <<c>>
<1>5. /\ t \in Seq({c}) /\ Len(t) = 1 /\ t[1] = c
      /\ \A i \in 1 .. Len(t) : i = 1
  OBVIOUS
<1>6. Send(g, t)
  BY <1>1
<1> HIDE DEF t
<1>7. /\ \A i \in 1 .. Len(t) : t[i].epoch = n + 1
      /\ \A i, j \in 1 .. Len(t) : ~(i < j)
  BY <1>3, <1>5
<1>8. ServerInv'
  BY <1>1, <1>3, <1>4, <1>5, <1>6, <1>7, SendOrdered
<1> QED  BY <1>1, <1>2, <1>8, IdleStep

LEMMA StartIInv ==
    ASSUME IInv, NEW g \in Ids, StartUpdate(g) \/ join_by_external_commit(g)
    PROVE  IInv'
<1>1. /\ call.pc = "idle" /\ ServerInv /\ StoredInv
      /\ UNCHANGED <<log, server, call, told, gone, failed>>
  BY DEF StartUpdate, join_by_external_commit, At, BetweenCalls, IInv
<1>2. ServerInv'
  BY <1>1 DEF ServerInv
<1>3. StoredInv'
  <2>1. CASE StartUpdate(g)
    BY <1>1, <2>1 DEF StartUpdate, StoredInv
  <2>2. CASE join_by_external_commit(g)
    <3> DEFINE h == Group(server[g].epoch + 1, server[g].members \cup {Self})
    <3>1. h.epoch \in Nat /\ stored' = [stored EXCEPT ![g] = h]
      BY <1>1, <2>2, GroupIs DEF ServerInv, join_by_external_commit
    <3> HIDE DEF h
    <3> QED  BY <1>1, <3>1 DEF StoredInv
  <2> QED  BY <2>1, <2>2
<1> QED  BY <1>1, <1>2, <1>3, IdleStep

-----------------------------------------------------------------------------
(* The call, but for the loop over the messages.                           *)

LEMMA NoCallIs ==
    /\ CallFields = {"pc", "at", "batch", "group", "pos", "start", "spent", "loaded",
                     "removals", "readds", "error", "results", "deleted"}
    /\ NoCall.pc = "idle" /\ NoCall.results = {} /\ NoCall.deleted = {}
BY DEF CallFields, NoCall

\* An answer stays right: it does not depend on the call, and the server's
\* state stays.
LEMMA RightStays ==
    ASSUME NEW r, Right(r), UNCHANGED server
    PROVE  Right(r)'
<1>1. SoundAnswer(r)' /\ ExactAnswer(r)'
  BY DEF Right, SoundAnswer, ExactAnswer
<1>2. Followed(r)' = Followed(r)
  BY DEF Followed
<1>3. CompleteAnswer(r)'
  BY <1>2 DEF Right, CompleteAnswer
<1> QED  BY <1>1, <1>3 DEF Right

LEMMA CallStep ==
    ASSUME IInv, UNCHANGED <<log, server>>, StoredInv', GoneInv', CallInv',
           call'.results \subseteq call.results
    PROVE  IInv'
<1>1. ServerInv'
  BY DEF IInv, ServerInv
<1>2. ResultsInv'
  BY RightStays DEF IInv, ResultsInv
<1> QED  BY <1>1, <1>2 DEF IInv

LEMMA CallReturnsIInv ==
    ASSUME IInv, CallFails \/ CallReturns
    PROVE  IInv'
<1>1. /\ call' = NoCall /\ UNCHANGED <<log, server, stored, gone>>
      /\ told \subseteq told' /\ (failed => failed') /\ (failed' \/ told' = told \cup call.deleted)
  BY DEF CallFails, CallReturns, KeepsData
<1>2. StoredInv' /\ GoneInv'
  BY <1>1, NoCallIs DEF IInv, StoredInv, GoneInv
<1>3. CallInv'
  BY <1>1, NoCallIs DEF CallInv, InGroup, CallFields
<1> QED  BY <1>1, <1>2, <1>3, NoCallIs, CallStep

LEMMA StartsIInv ==
    ASSUME IInv, process_all_messages
    PROVE  IInv'
<1> DEFINE c == [NoCall EXCEPT !.pc = "load", !.at = 1]
<1>1. /\ call' = c /\ call.pc = "idle" /\ UNCHANGED <<log, server, stored, told, gone, failed>>
  BY DEF process_all_messages, At, KeepsData
<1>2. DOMAIN c = CallFields /\ c.pc = "load" /\ c.at = 1 /\ c.results = {} /\ c.deleted = {}
  BY NoCallIs DEF CallFields, NoCall
<1> HIDE DEF c
<1>3. StoredInv' /\ GoneInv'
  BY <1>1, <1>2 DEF IInv, StoredInv, GoneInv, CallInv
<1>4. CallInv'
  BY <1>1, <1>2 DEF CallInv, InGroup, CallFields
<1> QED  BY <1>1, <1>2, <1>3, <1>4, CallStep

\* A step of the call that deletes nothing.
LEMMA KeptStep ==
    ASSUME IInv, UNCHANGED <<log, server, gone, told, failed>>, StoredInv', CallInv',
           call'.results = call.results, call'.deleted = call.deleted
    PROVE  IInv'
<1>1. GoneInv'
  BY DEF IInv, GoneInv
<1> QED  BY <1>1, CallStep

LEMMA IdIs ==
    ASSUME call.at \in Nat \ {0}, call.at <= Len(Groups)
    PROVE  Id \in Ids
<1>1. Groups \in Seq(Ids)
  BY BatchAssumption DEF Ids
<1> QED  BY <1>1 DEF Id

LEMMA LoadIInv ==
    ASSUME IInv, Load
    PROVE  IInv'
<1>1. /\ call.pc = "load" /\ UNCHANGED <<log, server, stored, told, gone, failed>>
      /\ DOMAIN call = CallFields /\ call.at \in Nat \ {0} /\ Id \in Ids
  BY IdIs DEF Load, At, KeepsData, IInv, CallInv
<1>2. PICK g \in {stored[Id], Absent} :
        call' = [call EXCEPT !.group = g, !.batch = Batch(Id), !.pos = 1, !.loaded = FALSE,
                             !.removals = {}, !.readds = {}, !.error = FALSE,
                             !.pc = IF g = Absent THEN "proposals" ELSE "desync"]
  BY DEF Load
<1>3. /\ DOMAIN call' = CallFields /\ call'.at = call.at /\ call'.group = g
      /\ call'.batch = Batch(Id) /\ call'.pos = 1 /\ call'.removals = {} /\ call'.readds = {}
      /\ ~call'.error /\ call'.pc = IF g = Absent THEN "proposals" ELSE "desync"
      /\ call'.results = call.results /\ call'.deleted = call.deleted
  <2>1. DOMAIN call = {"pc", "at", "batch", "group", "pos", "start", "spent", "loaded",
                       "removals", "readds", "error", "results", "deleted"}
    BY <1>1, NoCallIs
  <2> QED  BY <1>1, <1>2, <2>1
<1>4. Id' = Id
  BY <1>3 DEF Id
<1>5. StoredInv'
  BY <1>1 DEF IInv, StoredInv
<1>6. Ordered(call'.batch, server[Id].epoch)
  BY <1>1, <1>3, BatchOrdered DEF IInv
<1>7. CallInv'
  <2>1. Fresh'
    BY <1>1, <1>3, <1>4 DEF Fresh
  <2> QED  BY <1>1, <1>3, <1>4, <1>6, <2>1 DEF CallInv, CallFields, InGroup, Ids
<1> QED  BY <1>1, <1>3, <1>5, <1>7, KeptStep

LEMMA DesyncPassIInv ==
    ASSUME IInv, OwnLeafGone \/ NothingPending
    PROVE  IInv'
<1>1. /\ call.pc = "desync" /\ UNCHANGED <<log, server, stored, told, gone, failed>>
      /\ DOMAIN call = CallFields /\ call.at \in Nat \ {0} /\ Id \in Ids /\ Fresh
      /\ Ordered(call.batch, server[Id].epoch)
  BY DEF OwnLeafGone, NothingPending, At, KeepsData, IInv, CallInv, InGroup
<1>2. DOMAIN call = {"pc", "at", "batch", "group", "pos", "start", "spent", "loaded",
                     "removals", "readds", "error", "results", "deleted"}
  BY <1>1, NoCallIs
<1>3. StoredInv'
  BY <1>1 DEF IInv, StoredInv
<1>4. CASE OwnLeafGone
  <2>1. /\ DOMAIN call' = CallFields /\ call'.pc = "load" /\ call'.at = call.at + 1
        /\ call'.results = call.results /\ call'.deleted = call.deleted
    BY <1>1, <1>2, <1>4 DEF OwnLeafGone
  <2>2. CallInv'
    BY <1>1, <2>1 DEF CallInv, InGroup, CallFields
  <2> QED  BY <1>1, <1>3, <2>1, <2>2, KeptStep
<1>5. CASE NothingPending
  <2>1. /\ DOMAIN call' = CallFields /\ call'.pc = "proposals" /\ call'.at = call.at
        /\ call'.group = call.group /\ call'.batch = call.batch /\ call'.pos = call.pos
        /\ call'.removals = call.removals /\ call'.readds = call.readds
        /\ call'.error = call.error
        /\ call'.results = call.results /\ call'.deleted = call.deleted
    BY <1>1, <1>2, <1>5 DEF NothingPending
  <2>2. Id' = Id
    BY <2>1 DEF Id
  <2>3. Fresh'
    BY <1>1, <2>1, <2>2 DEF Fresh
  <2>4. CallInv'
    BY <1>1, <2>1, <2>2, <2>3 DEF CallInv, InGroup, CallFields, Ids
  <2> QED  BY <1>1, <1>3, <2>1, <2>4, KeptStep
<1> QED  BY <1>4, <1>5

\* The desync check reports what it deletes.
LEMMA SettleIInv ==
    ASSUME IInv, Settle
    PROVE  IInv'
<1> DEFINE delete == status[Id] = OpJoin /\ ~FirstIsOwn
           h == IF delete THEN Absent ELSE IF FirstIsOwn THEN Merged(call.group) ELSE call.group
<1>1. /\ call.pc = "desync" /\ UNCHANGED <<log, server, told, failed>>
      /\ DOMAIN call = CallFields /\ call.at \in Nat \ {0} /\ Id \in Ids /\ Fresh
      /\ Ordered(call.batch, server[Id].epoch) /\ call.group # Absent
  BY DEF Settle, At, KeepsRest, IInv, CallInv, InGroup
<1>2. /\ stored' = [stored EXCEPT ![Id] = h]
      /\ gone' = IF delete THEN gone \cup {Id} ELSE gone
      /\ call' = [call EXCEPT !.group = h, !.pc = "proposals",
                              !.deleted = IF delete THEN @ \cup {Id} ELSE @]
  BY DEF Settle
<1>3. h # Absent => h.epoch \in Nat
  <2>1. call.group = stored[Id] /\ call.group.epoch \in Nat
    BY <1>1 DEF Fresh, IInv, StoredInv
  <2> QED  BY <2>1, GroupIs DEF Merged
<1> HIDE DEF h, delete
<1>4. /\ DOMAIN call' = CallFields /\ call'.pc = "proposals" /\ call'.at = call.at
      /\ call'.group = h /\ call'.batch = call.batch /\ call'.pos = call.pos
      /\ call'.removals = call.removals /\ call'.readds = call.readds
      /\ call'.error = call.error /\ call'.results = call.results
      /\ call'.deleted = IF delete THEN call.deleted \cup {Id} ELSE call.deleted
  <2>1. DOMAIN call = {"pc", "at", "batch", "group", "pos", "start", "spent", "loaded",
                       "removals", "readds", "error", "results", "deleted"}
    BY <1>1, NoCallIs
  <2> QED  BY <1>1, <1>2, <2>1
<1>5. Id' = Id
  BY <1>4 DEF Id
<1>6. StoredInv' /\ stored'[Id] = h
  BY <1>1, <1>2, <1>3 DEF IInv, StoredInv
<1>7. GoneInv'
  BY <1>1, <1>2, <1>4 DEF IInv, GoneInv
<1>8. CallInv'
  <2>1. Fresh'
    BY <1>1, <1>4, <1>5, <1>6 DEF Fresh
  <2> QED  BY <1>1, <1>4, <1>5, <2>1 DEF CallInv, InGroup, CallFields, Ids
<1> QED  BY <1>1, <1>4, <1>6, <1>7, <1>8, CallStep

-----------------------------------------------------------------------------
(* The loop over the proposals.                                            *)

LEMMA LeastNat ==
    ASSUME NEW T, T \subseteq Nat, T # {}
    PROVE  \E x \in T : \A y \in T : x <= y
<1> DEFINE R == {ss \in Nat \X Nat : ss[1] < ss[2]}
<1>1. IsWellFoundedOn(R, Nat)
  BY NatLessThanWellFounded DEF OpToRel
<1>2. PICK x \in T : \A y \in T : ~ (<<y, x>> \in R)
  <2> HIDE DEF R
  <2> QED  BY <1>1, WFMin
<1>3. \A y \in T : ~(y < x)
  BY <1>2
<1> QED  BY <1>3

\* A set of positions that is not empty has a last one.
LEMMA LastPosition ==
    ASSUME NEW n \in Nat, NEW T, T \subseteq 1 .. n, T # {}
    PROVE  \E x \in T : \A y \in T : y <= x
<1> DEFINE U == {k \in Nat : \A y \in T : y <= k}
<1>1. n \in U
  OBVIOUS
<1>2. PICK x \in U : \A y \in U : x <= y
  <2>1. U \subseteq Nat /\ U # {}
    BY <1>1
  <2> HIDE DEF U
  <2> QED  BY <2>1, LeastNat
<1>3. x \in T
  <2> SUFFICES ASSUME x \notin T PROVE FALSE
    OBVIOUS
  <2>1. PICK y \in T : TRUE
    OBVIOUS
  <2>2. x \in Nat \ {0}
    BY <1>2, <2>1
  <2>3. \A z \in T : z <= x - 1
    BY <1>2
  <2>4. x - 1 \in U
    BY <2>2, <2>3
  <2> QED  BY <1>2, <2>2, <2>4
<1> QED  BY <1>2, <1>3

\* The members that a proposal names are those of its entry.
LEMMA EntryIs ==
    ASSUME NEW i
    PROVE  Entry(i).info = Named(call.batch[i]) /\ Entry(i).epoch = call.batch[i].epoch
BY DEF Entry, Named

\* Of the proposals that name one member the list has the last.
LEMMA RemovalsList ==
    ASSUME NEW n, Ordered(call.batch, n), NEW i \in 1 .. Len(call.batch), Counts(i)
    PROVE  \E e \in Removals : e.info = Named(call.batch[i]) /\ call.batch[i].epoch <= e.epoch
<1>1. Len(call.batch) \in Nat /\ DOMAIN call.batch = 1 .. Len(call.batch)
  BY OrderedIs
<1> DEFINE T == {j \in 1 .. Len(call.batch) : Counts(j) /\ Entry(j).info = Entry(i).info}
<1>2. PICK x \in T : \A y \in T : y <= x
  <2>1. i \in T /\ T \subseteq 1 .. Len(call.batch)
    OBVIOUS
  <2> HIDE DEF T
  <2> QED  BY <1>1, <2>1, LastPosition
<1>3. Entry(x) \in Removals
  <2>1. \A j \in (x + 1) .. Len(call.batch) : j \in 1 .. Len(call.batch) /\ ~(j <= x)
    BY <1>1
  <2>2. \A j \in (x + 1) .. Len(call.batch) : Counts(j) => Entry(j).info # Entry(x).info
    BY <1>2, <2>1
  <2> QED  BY <1>1, <2>2 DEF Removals
<1>4. i \in T
  OBVIOUS
<1>5. call.batch[i].epoch <= call.batch[x].epoch
  <2>1. i = x \/ i < x
    BY <1>2, <1>4
  <2> QED  BY <2>1 DEF Ordered
<1> QED  BY <1>3, <1>5, EntryIs

LEMMA RemovalsAre ==
    ASSUME DOMAIN call.batch = 1 .. Len(call.batch), NEW e \in Removals
    PROVE  \E i \in 1 .. Len(call.batch) : NamedBy(e, call, i)
<1>1. PICK i \in 1 .. Len(call.batch) : e = Entry(i) /\ Counts(i)
  BY DEF Removals
<1>2. call.batch[i].type \in {"remove", "custom_remove"}
  BY <1>1 DEF Counts, Decrypts
<1> QED  BY <1>1, <1>2, EntryIs DEF NamedBy

LEMMA ReadProposalsIInv ==
    ASSUME IInv, ReadProposals
    PROVE  IInv'
<1>1. /\ call.pc = "proposals" /\ UNCHANGED <<log, server, stored, told, gone, failed>>
      /\ DOMAIN call = CallFields /\ call.at \in Nat \ {0} /\ Id \in Ids /\ Fresh
      /\ Ordered(call.batch, server[Id].epoch)
  BY DEF ReadProposals, At, KeepsRest, IInv, CallInv, InGroup
<1>2. DOMAIN call = {"pc", "at", "batch", "group", "pos", "start", "spent", "loaded",
                     "removals", "readds", "error", "results", "deleted"}
  BY <1>1, NoCallIs
<1>3. /\ DOMAIN call' = CallFields /\ call'.pc = "messages" /\ call'.at = call.at
      /\ call'.group = call.group /\ call'.batch = call.batch /\ call'.pos = 1
      /\ call'.removals = IF call.group = Absent THEN {} ELSE Removals
      /\ call'.start = call.group
      /\ call.group # Absent => call'.spent = consumed
      /\ call'.readds = {} /\ ~call'.error
      /\ call'.results = call.results /\ call'.deleted = call.deleted
  <2>1. CASE call.group = Absent
    <3>1. call' = [call EXCEPT !.pc = "messages", !.start = Absent]
      BY <2>1 DEF ReadProposals
    <3>2. call.pos = 1 /\ call.removals = {} /\ call.readds = {} /\ ~call.error
      BY <1>1 DEF Fresh
    <3> QED  BY <1>1, <1>2, <2>1, <3>1, <3>2
  <2>2. CASE call.group # Absent
    <3>1. call' = [call EXCEPT !.pc = "messages", !.removals = Removals,
                               !.start = call.group, !.spent = consumed]
      BY <2>2 DEF ReadProposals
    <3>2. call.pos = 1 /\ call.readds = {} /\ ~call.error
      BY <1>1 DEF Fresh
    <3> HIDE DEF Removals
    <3> QED  BY <1>1, <1>2, <2>2, <3>1, <3>2
  <2> QED  BY <2>1, <2>2
<1>4. Id' = Id
  BY <1>3 DEF Id
<1>5. StoredInv'
  BY <1>1 DEF IInv, StoredInv
<1>6. DOMAIN call.batch = 1 .. Len(call.batch) /\ Len(call.batch) \in Nat
  BY <1>1, OrderedIs
<1>7. 1 .. call'.pos - 1 = {}
  BY <1>3
<1>8. Sound(call')
  <2>1. \A e \in call'.removals : \E i \in 1 .. Len(call.batch) : NamedBy(e, call, i)
    BY <1>3, <1>6, RemovalsAre
  <2>2. \A e \in call'.removals : \E i \in 1 .. Len(call'.batch) : NamedBy(e, call', i)
    BY <1>3, <2>1 DEF NamedBy
  <2>3. \A j \in 1 .. call'.pos - 1 : FALSE
    BY <1>7
  <2> QED  BY <2>2, <2>3 DEF Sound, Newer
<1>9. ReaddInv'
  BY <1>3, <1>7 DEF ReaddInv
<1>10. ASSUME call.group # Absent, NEW i \in 1 .. Len(call.batch), Readable(Answer(call'), i)
       PROVE  Listed(call', i)
  <2>1. Groups[call'.at] = Id
    BY <1>3 DEF Id
  <2>2. Counts(i)
    BY <1>3, <1>10, <2>1 DEF Readable, Answer, Counts, Decrypts
  <2> QED  BY <1>1, <1>3, <1>10, <2>2, RemovalsList DEF Listed
<1>11. Complete(call', stored[Id])
  <2> SUFFICES ASSUME call.group # Absent PROVE Complete(call', stored[Id])
    BY <1>3 DEF Complete
  <2>1. call.group = stored[Id]
    BY <1>1 DEF Fresh
  <2>2. Seen(call'.group, call') /\ Seen(stored[Id], call')
    BY <1>3, <2>1 DEF Seen
  <2> QED  BY <1>3, <1>10, <2>1, <2>2 DEF Complete, Expected
<1>12. call'.group # Absent => call'.group.epoch \in Nat
  BY <1>1, <1>3 DEF Fresh, IInv, StoredInv
<1>13. Loop'
  BY <1>1, <1>3, <1>4, <1>6, <1>8, <1>9, <1>11, <1>12 DEF Loop
<1>14. CallInv'
  BY <1>1, <1>3, <1>4, <1>13 DEF CallInv, InGroup, CallFields, Ids
<1> QED  BY <1>3, <1>1, <1>5, <1>14, KeptStep

-----------------------------------------------------------------------------
(* One message of the loop.  c is the call before it, d after it, g and h  *)
(* are the stored group before and after.                                  *)

Step(c, d) ==
    /\ d.at = c.at /\ d.batch = c.batch /\ d.start = c.start /\ d.spent = c.spent
    /\ d.pos = c.pos + 1 /\ c.pos \in 1 .. Len(c.batch)

LEMMA Positions ==
    ASSUME NEW c, NEW d, Step(c, d), NEW n, Ordered(c.batch, n)
    PROVE  /\ Len(c.batch) \in Nat /\ c.pos \in Nat \ {0} /\ d.pos - 1 = c.pos
           /\ \A j \in 1 .. c.pos : j \in 1 .. Len(c.batch) /\ (j = c.pos \/ j \in 1 .. c.pos - 1)
           /\ \A j \in 1 .. c.pos - 1 : j \in 1 .. c.pos /\ j < c.pos
           /\ c.pos \in 1 .. c.pos
BY OrderedIs DEF Step

LEMMA SoundStep ==
    ASSUME NEW c, NEW d, Step(c, d), NEW n, Ordered(c.batch, n), Sound(c),
           d.removals \subseteq c.removals,
           \/ c.batch[c.pos].type = "welcome"
           \/ \A e \in d.removals :
                 Present(e.info, d.group.members) \/ c.batch[c.pos].epoch < e.epoch
           \/ c.batch[c.pos].type \notin {"commit", "welcome"} /\ d.group = c.group
    PROVE  Sound(d)
<1> SUFFICES ASSUME NEW e \in d.removals
             PROVE  /\ \E i \in 1 .. Len(d.batch) : NamedBy(e, d, i)
                    /\ Present(e.info, d.group.members) \/ WelcomeLast(d) \/ Newer(e, d)
  BY DEF Sound
<1>0. /\ Len(c.batch) \in Nat /\ c.pos \in Nat \ {0} /\ d.pos - 1 = c.pos
      /\ c.pos \in 1 .. Len(c.batch)
  BY Positions DEF Step
<1>1. PICK i \in 1 .. Len(c.batch) : NamedBy(e, c, i)
  BY DEF Sound
<1>2. NamedBy(e, d, i) /\ i \in 1 .. Len(d.batch) /\ e.epoch \in Nat
  BY <1>1 DEF NamedBy, Step, Ordered
<1>3. Present(e.info, c.group.members) \/ WelcomeLast(c) \/ Newer(e, c)
  BY DEF Sound
<1>4. CASE c.batch[c.pos].type = "welcome"
  <2>1. d.batch[c.pos].type = "welcome" /\ c.pos \in 1 .. d.pos - 1 /\ d.pos - 1 = c.pos
    BY <1>4, Positions DEF Step
  <2>2. \A j \in c.pos .. d.pos - 1 : j = c.pos
    BY <2>1, Positions
  <2>3. \A j \in c.pos .. d.pos - 1 : d.batch[j].type # "commit"
    BY <2>1, <2>2
  <2>4. WelcomeLast(d)
    BY <2>1, <2>3 DEF WelcomeLast
  <2> QED  BY <1>2, <2>4
<1>5. CASE c.batch[c.pos].epoch < e.epoch
  <2>1. ASSUME NEW j \in 1 .. c.pos PROVE c.batch[j].epoch < e.epoch
    <3>1. j \in 1 .. Len(c.batch) /\ (j = c.pos \/ j < c.pos)
      BY <1>0
    <3>2. c.batch[j].epoch \in Nat /\ c.batch[c.pos].epoch \in Nat
      BY <1>0, <3>1 DEF Ordered
    <3>3. c.batch[j].epoch <= c.batch[c.pos].epoch
      BY <1>0, <3>1, <3>2 DEF Ordered
    <3> QED  BY <1>2, <1>5, <3>3, <3>2
  <2> QED  BY <1>2, <2>1, Positions DEF Newer, Step
<1>6. CASE c.batch[c.pos].type \notin {"commit", "welcome"} /\ d.group = c.group
  <2>1. CASE Present(e.info, c.group.members)
    BY <1>2, <1>6, <2>1
  <2>2. CASE Newer(e, c)
    BY <1>2, <1>6, <2>2, Positions DEF Newer, Step
  <2>3. CASE WelcomeLast(c)
    <3>1. PICK k \in 1 .. c.pos - 1 :
                c.batch[k].type = "welcome" /\ \A j \in k .. c.pos - 1 : c.batch[j].type # "commit"
      BY <2>3 DEF WelcomeLast
    <3>2. \A j \in k .. c.pos : j = c.pos \/ j \in k .. c.pos - 1
      BY <1>0, <3>1
    <3>3. k \in 1 .. c.pos
      BY <3>1, Positions
    <3>4. \A j \in k .. c.pos : d.batch[j].type # "commit"
      BY <1>6, <3>1, <3>2 DEF Step
    <3>5. d.batch[k].type = "welcome" /\ d.pos - 1 = c.pos
      BY <3>1, Positions DEF Step
    <3>6. WelcomeLast(d)
      BY <3>3, <3>4, <3>5 DEF WelcomeLast
    <3> QED  BY <1>2, <3>6
  <2> QED  BY <1>3, <2>1, <2>2, <2>3
<1> QED  BY <1>2, <1>4, <1>5, <1>6

LEMMA SeenStays ==
    ASSUME NEW c, NEW d, Step(c, d), NEW n, Ordered(c.batch, n), NEW g, Seen(g, c)
    PROVE  Seen(g, d)
BY Positions DEF Seen, Step

\* The state that the message at hand brings.
LEMMA SeenNow ==
    ASSUME NEW c, NEW d, Step(c, d), NEW n, Ordered(c.batch, n),
           c.batch[c.pos].type \in {"commit", "welcome"}
    PROVE  Seen(Group(c.batch[c.pos].epoch, c.batch[c.pos].members), d)
<1> DEFINE g == Group(c.batch[c.pos].epoch, c.batch[c.pos].members)
<1>1. g # Absent /\ g.members = c.batch[c.pos].members /\ g.epoch = c.batch[c.pos].epoch
  BY GroupIs
<1> HIDE DEF g
<1>2. Seen(g, d)
  BY <1>1, Positions DEF Seen, Step
<1> QED  BY <1>2 DEF g

\* What is expected does not depend on the position, but for Level.
LEMMA ExpectedStep ==
    ASSUME NEW c, NEW d, Step(c, d), NEW i, Expected(d, i),
           NoWelcome(d) /\ Level(d) => Level(c)
    PROVE  Expected(c, i)
<1>1. Readable(Answer(c), i)
  BY DEF Expected, Readable, Answer, Step
<1>2. PICK followed \in BOOLEAN :
        Stays(Answer(d), i, followed) /\ (followed => NoWelcome(d) /\ Level(d))
  BY DEF Expected
<1>3. Stays(Answer(c), i, followed)
  BY <1>2 DEF Stays, Answer, Step
<1>4. followed => NoWelcome(c) /\ Level(c)
  BY <1>2 DEF NoWelcome, Step
<1> QED  BY <1>1, <1>3, <1>4 DEF Expected

\* A proposal, or a Welcome that cannot be opened.
LEMMA PassStep ==
    ASSUME NEW c, NEW d, Step(c, d), NEW n, Ordered(c.batch, n), NEW g, Complete(c, g),
           c.batch[c.pos].type # "commit",
           d.group = c.group, d.loaded = c.loaded, d.removals = c.removals, d.error = c.error
    PROVE  Complete(d, g)
<1> SUFFICES ASSUME c.start # Absent PROVE Complete(d, g)
  BY DEF Complete, Step
<1>1. Seen(d.group, d) /\ Seen(g, d)
  BY SeenStays DEF Complete
<1>2. NoWelcome(d) => d.loaded \/ d.group = g
  BY DEF Complete, NoWelcome, Step
<1>3. Level(d) => Level(c)
  BY Positions DEF Level, Step
<1>4. ASSUME ~d.error, NEW i \in 1 .. Len(d.batch), Expected(d, i) PROVE Listed(d, i)
  <2>1. Listed(c, i)
    BY <1>3, <1>4, ExpectedStep DEF Complete, Step
  <2> QED  BY <2>1 DEF Listed, Step
<1> QED  BY <1>1, <1>2, <1>4 DEF Complete

\* A Welcome that is opened.
LEMMA OpenStep ==
    ASSUME NEW c, NEW d, Step(c, d), NEW n, Ordered(c.batch, n), NEW g, Complete(c, g),
           c.batch[c.pos].type = "welcome",
           NEW h, h = Group(c.batch[c.pos].epoch, c.batch[c.pos].members), d.group = h,
           d.removals = c.removals, d.error = c.error
    PROVE  Complete(d, h)
<1> SUFFICES ASSUME c.start # Absent PROVE Complete(d, h)
  BY DEF Complete, Step
<1>1. Seen(d.group, d) /\ Seen(h, d)
  BY SeenNow
<1>2. ~NoWelcome(d)
  BY Positions DEF NoWelcome, Step
<1>3. ASSUME ~d.error, NEW i \in 1 .. Len(d.batch), Expected(d, i) PROVE Listed(d, i)
  <2>1. Expected(c, i)
    <3>1. Readable(Answer(c), i)
      BY <1>3 DEF Expected, Readable, Answer, Step
    <3>2. Stays(Answer(d), i, FALSE)
      BY <1>2, <1>3 DEF Expected
    <3>3. Stays(Answer(c), i, FALSE)
      BY <3>2 DEF Stays, Answer, Step
    <3> QED  BY <3>1, <3>3 DEF Expected
  <2>2. Listed(c, i)
    BY <1>3, <2>1 DEF Complete, Step
  <2> QED  BY <2>2 DEF Listed, Step
<1> QED  BY <1>1, <1>2, <1>3 DEF Complete

\* A proposal that can be read names a member of the group that was loaded.
LEMMA ReadableIsPresent ==
    ASSUME NEW c, NEW i, Readable(Answer(c), i)
    PROVE  Present(Named(c.batch[i]), c.start.members)
<1>1. Answer(c).start = c.start /\ Answer(c).batch = c.batch
  BY DEF Answer
<1>2. CASE c.batch[i].type = "custom_remove" /\ c.batch[i].about \in Jids(c.start.members)
  BY <1>2 DEF Named, OfUser, Present
<1>3. CASE c.batch[i].type = "remove" /\ c.batch[i].about \in c.start.members
  <2>1. Jid[c.batch[i].about] \in Jids(c.start.members)
    BY <1>3 DEF Jids
  <2>2. Named(c.batch[i]) = [jid |-> Jid[c.batch[i].about], id |-> c.batch[i].about]
    BY <1>3 DEF Named, OfMember
  <2> QED  BY <1>3, <2>1, <2>2 DEF Present
<1> QED  BY <1>1, <1>2, <1>3 DEF Readable

\* A commit.  fresh is the group it is tried on.
LEMMA CommitStep ==
    ASSUME NEW c, NEW d, Step(c, d), NEW n, Ordered(c.batch, n), NEW g, Complete(c, g), Sound(c),
           c.batch[c.pos].type = "commit",
           NEW fresh \in {c.group, g}, c.loaded => fresh = c.group, fresh.epoch \in Nat,
           \/ d.group = fresh
           \/ /\ d.group = Group(c.batch[c.pos].epoch, c.batch[c.pos].members)
              /\ c.batch[c.pos].epoch = fresh.epoch + 1,
           NEW h \in {g, d.group}, fresh = g => d.loaded, c.loaded => d.loaded,
           d.removals = Prune(c.removals, d.group, c.batch[c.pos].epoch), d.error = c.error
    PROVE  Complete(d, h)
<1> SUFFICES ASSUME c.start # Absent PROVE Complete(d, h)
  BY DEF Complete, Step
<1> DEFINE m == c.batch[c.pos]
<1>0. /\ Len(c.batch) \in Nat /\ c.pos \in Nat \ {0} /\ d.pos - 1 = c.pos
      /\ c.pos \in 1 .. Len(c.batch) /\ m.epoch \in Nat /\ m.type = "commit"
  BY Positions DEF Step, Ordered
<1>1. Seen(fresh, c) /\ Seen(g, c)
  BY DEF Complete
<1>2. \/ d.group = fresh
      \/ /\ d.group.members = m.members /\ d.group.epoch = m.epoch /\ m.epoch = fresh.epoch + 1
         /\ Seen(d.group, d)
  BY SeenNow, GroupIs
<1>3. Seen(d.group, d) /\ Seen(h, d)
  BY <1>1, <1>2, SeenStays
<1>4. NoWelcome(d) => d.loaded \/ d.group = h
  BY DEF Complete, NoWelcome, Step
<1>5. NoWelcome(d) => fresh = c.group
  BY DEF Complete, NoWelcome, Step
<1> HIDE DEF m
<1>6. ASSUME NoWelcome(d), Level(d) PROVE Level(c)
  <2> SUFFICES ASSUME NEW j \in 1 .. c.pos - 1, c.batch[j].type = "commit"
               PROVE  c.batch[j].epoch <= c.group.epoch
    BY DEF Level
  <2>1. j \in 1 .. d.pos - 1 /\ j \in 1 .. Len(c.batch) /\ j < c.pos
    BY <1>0
  <2>2. c.batch[j].epoch < m.epoch /\ c.batch[j].epoch \in Nat
    BY <1>0, <2>1 DEF Ordered, m
  <2>3. c.batch[j].epoch <= d.group.epoch
    BY <1>6, <2>1 DEF Level, Step
  <2> QED  BY <1>2, <1>5, <1>6, <2>2, <2>3, <1>0
<1>7. ASSUME ~d.error, NEW i \in 1 .. Len(d.batch), Expected(d, i) PROVE Listed(d, i)
  <2>1. Expected(c, i) /\ i \in 1 .. Len(c.batch)
    BY <1>6, <1>7, ExpectedStep DEF Step
  <2>2. PICK e \in c.removals : e.info = Named(c.batch[i]) /\ c.batch[i].epoch <= e.epoch
    BY <1>7, <2>1 DEF Complete, Listed
  <2>3. e.epoch \in Nat /\ c.batch[i].epoch \in Nat
    BY <2>1 DEF Sound, NamedBy, Ordered
  <2>4. PICK followed \in BOOLEAN :
          Stays(Answer(d), i, followed) /\ (followed => NoWelcome(d) /\ Level(d))
    BY <1>7 DEF Expected
  <2>5. ASSUME NEW j \in 1 .. Len(c.batch), c.batch[j].type \in {"commit", "welcome"},
               followed => c.batch[i].epoch <= c.batch[j].epoch
        PROVE  Present(e.info, c.batch[j].members)
    <3>1. Answer(d).batch = c.batch
      BY DEF Answer, Step
    <3>2. DOMAIN c.batch = 1 .. Len(c.batch) /\ c.batch[j].epoch \in Nat
      BY OrderedIs DEF Ordered
    <3> QED  BY <2>2, <2>3, <2>4, <2>5, <3>1, <3>2 DEF Stays
  <2>6. m.epoch < e.epoch \/ Present(e.info, d.group.members)
    <3> SUFFICES ASSUME e.epoch <= m.epoch PROVE Present(e.info, d.group.members)
      BY <1>0, <2>3
    <3>1. c.batch[i].epoch <= m.epoch
      BY <1>0, <2>2, <2>3
    <3>2. CASE d.group.members = m.members
      BY <1>0, <2>5, <3>1, <3>2 DEF m
    <3>3. CASE d.group = fresh
      <4>1. CASE fresh.members = c.start.members
        BY <2>1, <2>2, <3>3, <4>1, ReadableIsPresent DEF Expected
      <4>2. CASE \E j \in 1 .. c.pos - 1 :
                    /\ c.batch[j].type \in {"commit", "welcome"}
                    /\ fresh.members = c.batch[j].members /\ fresh.epoch = c.batch[j].epoch
        <5>1. PICK j \in 1 .. c.pos - 1 :
                    /\ c.batch[j].type \in {"commit", "welcome"}
                    /\ fresh.members = c.batch[j].members /\ fresh.epoch = c.batch[j].epoch
          BY <4>2
        <5>2. j \in 1 .. Len(c.batch)
          BY <1>0
        <5>3. ASSUME followed PROVE c.batch[i].epoch <= c.batch[j].epoch
          <6>1. c.pos \in 1 .. d.pos - 1 /\ d.batch[c.pos] = m
            BY <1>0 DEF Step, m
          <6>2. m.epoch <= fresh.epoch
            BY <1>0, <2>4, <3>3, <5>3, <6>1 DEF Level
          <6>3. c.batch[j].epoch \in Nat
            BY <5>2 DEF Ordered
          <6>4. fresh.epoch = c.batch[j].epoch /\ m.epoch \in Nat
            BY <1>0, <5>1
          <6> QED  BY <2>3, <3>1, <6>2, <6>3, <6>4
        <5> QED  BY <2>5, <3>3, <5>1, <5>2, <5>3
      <4> QED  BY <1>1, <4>1, <4>2 DEF Seen
    <3> QED  BY <1>2, <3>2, <3>3
  <2>7. e \in d.removals
    BY <2>6 DEF Prune, m
  <2> QED  BY <2>2, <2>7 DEF Listed, Step
<1> QED  BY <1>3, <1>4, <1>7 DEF Complete

\* At a message.
LEMMA AtMessageIs ==
    ASSUME IInv, NEW type, AtMessage(type)
    PROVE  /\ call.pc = "messages" /\ DOMAIN call = CallFields /\ call.at \in Nat \ {0}
           /\ Id \in Ids /\ Ordered(call.batch, server[Id].epoch) /\ Loop
           /\ call.pos \in 1 .. Len(call.batch) /\ Msg.type = type /\ Msg.epoch \in Nat
<1>1. /\ call.pc = "messages" /\ DOMAIN call = CallFields /\ call.at \in Nat \ {0}
      /\ Id \in Ids /\ Ordered(call.batch, server[Id].epoch) /\ Loop
      /\ call.pos <= Len(call.batch) /\ Msg.type = type
  BY DEF AtMessage, At, IInv, CallInv, InGroup
<1>2. Len(call.batch) \in Nat
  BY <1>1, OrderedIs
<1>3. call.pos \in 1 .. Len(call.batch)
  BY <1>1, <1>2 DEF Loop
<1>4. Msg.epoch \in Nat
  BY <1>1, <1>3 DEF Ordered, Msg
<1> QED  BY <1>1, <1>3, <1>4

\* The list of those to add again.
LEMMA ReaddStep ==
    ASSUME ReaddInv, Step(call, call'), NEW n, Ordered(call.batch, n), call'.error = call.error,
           call'.readds = IF Msg.type = "custom_readd" /\ Requested(Msg.epoch)
                          THEN call.readds \cup {OfMember(Msg.about)} ELSE call.readds
    PROVE  ReaddInv'
<1>1. \A e : Requested(e)' <=> Requested(e)
  BY DEF Requested, LatestEpoch, Step
<1> SUFFICES ASSUME ~call.error
             PROVE  call'.readds =
                      {OfMember(call.batch[i].about) : i \in {i \in 1 .. call'.pos - 1 :
                          call.batch[i].type = "custom_readd" /\ Requested(call.batch[i].epoch)}}
  BY <1>1 DEF ReaddInv, Step
<1>2. call.readds =
         {OfMember(call.batch[i].about) : i \in {i \in 1 .. call.pos - 1 :
             call.batch[i].type = "custom_readd" /\ Requested(call.batch[i].epoch)}}
  BY DEF ReaddInv
<1>3. /\ 1 .. call'.pos - 1 = (1 .. call.pos - 1) \cup {call.pos}
      /\ Msg = call.batch[call.pos]
  BY Positions DEF Msg
<1> HIDE DEF ReaddInv, Requested
<1>4. CASE Msg.type = "custom_readd" /\ Requested(Msg.epoch)
  BY <1>2, <1>3, <1>4
<1>5. CASE ~(Msg.type = "custom_readd" /\ Requested(Msg.epoch))
  BY <1>2, <1>3, <1>5
<1> QED  BY <1>4, <1>5

\* The whole of it.
LEMMA LoopStep ==
    ASSUME IInv, NEW type, AtMessage(type), UNCHANGED <<log, server, gone, told, failed>>,
           Step(call, call'), DOMAIN call' = CallFields, call'.pc = call.pc,
           call'.results = call.results, call'.deleted = call.deleted,
           StoredInv', Sound(call'), ReaddInv', Complete(call', stored'[Id]),
           call'.group # Absent => call'.group.epoch \in Nat,
           call'.group = Absent => call'.removals = {}
    PROVE  IInv'
<1>1. /\ call.pc = "messages" /\ call.at \in Nat \ {0} /\ Id \in Ids
      /\ Ordered(call.batch, server[Id].epoch)
  BY AtMessageIs
<1>2. Id' = Id
  BY DEF Id, Step
<1>3. call'.pos \in 1 .. Len(call'.batch) + 1
  BY <1>1, Positions DEF Step
<1>4. Loop'
  BY <1>2, <1>3 DEF Loop
<1>5. CallInv'
  BY <1>1, <1>2, <1>4 DEF CallInv, InGroup, CallFields, Ids, Step
<1> QED  BY <1>5, KeptStep

LEMMA PassIInv ==
    ASSUME IInv, WelcomeFails \/ SkipCommit \/ PassProposal
    PROVE  IInv'
<1> DEFINE readds == IF Msg.type = "custom_readd" /\ Requested(Msg.epoch)
                     THEN call.readds \cup {OfMember(Msg.about)} ELSE call.readds
<1>1. PICK type : /\ AtMessage(type)
                  /\ type = "commit" => call.group = Absent
  BY DEF WelcomeFails, SkipCommit, PassProposal, Proposals
<1>2. /\ call' = [call EXCEPT !.pos = @ + 1] \/ call' = [call EXCEPT !.pos = @ + 1, !.readds = readds]
      /\ Msg.type \notin {"welcome", "commit"} =>
            call' = [call EXCEPT !.pos = @ + 1, !.readds = readds]
      /\ UNCHANGED <<log, server, stored, gone, told, failed>>
  BY DEF WelcomeFails, SkipCommit, PassProposal, KeepsData, AtMessage, Proposals
<1>3. /\ DOMAIN call = {"pc", "at", "batch", "group", "pos", "start", "spent", "loaded",
                        "removals", "readds", "error", "results", "deleted"}
      /\ Ordered(call.batch, server[Id].epoch) /\ Loop
      /\ call.pos \in 1 .. Len(call.batch) /\ Msg.type = type /\ Id \in Ids
  BY <1>1, AtMessageIs, NoCallIs
<1> HIDE DEF readds
<1>4. Step(call, call')
  BY <1>2, <1>3 DEF Step
<1>5. /\ DOMAIN call' = CallFields /\ call'.pc = call.pc /\ call'.results = call.results
      /\ call'.deleted = call.deleted /\ call'.group = call.group /\ call'.loaded = call.loaded
      /\ call'.removals = call.removals /\ call'.error = call.error
      /\ call'.readds = IF Msg.type \in {"welcome", "commit"} THEN call.readds ELSE readds
  <2>1. call'.readds = IF Msg.type \in {"welcome", "commit"} THEN call.readds ELSE readds
    BY <1>2, <1>3 DEF readds
  <2> QED  BY <1>2, <1>3, <2>1, NoCallIs
<1>6. StoredInv' /\ stored'[Id] = stored[Id]
  BY <1>2 DEF IInv, StoredInv
<1>7. ReaddInv'
  BY <1>3, <1>4, <1>5, ReaddStep DEF Loop, readds
<1>8. Sound(call')
  <2>1. CASE Msg.type = "commit"
    BY <1>1, <1>3, <1>4, <1>5, <2>1, SoundStep DEF Loop
  <2>2. CASE Msg.type # "commit"
    BY <1>3, <1>4, <1>5, <2>2, SoundStep DEF Loop, Msg
  <2> QED  BY <2>1, <2>2
<1>9. Complete(call', stored[Id])
  <2>1. CASE Msg.type = "commit"
    <3>1. call.start = Absent
      BY <1>1, <1>3, <2>1 DEF Loop, Complete, Seen
    <3> QED  BY <1>4, <3>1 DEF Complete, Step
  <2>2. CASE Msg.type # "commit"
    BY <1>3, <1>4, <1>5, <2>2, PassStep DEF Loop, Msg
  <2> QED  BY <2>1, <2>2
<1>10. /\ call'.group # Absent => call'.group.epoch \in Nat
       /\ call'.group = Absent => call'.removals = {}
  BY <1>3, <1>5 DEF Loop
<1> QED  BY <1>1, <1>2, <1>4, <1>5, <1>6, <1>7, <1>8, <1>9, <1>10, LoopStep

LEMMA OpenWelcomeIInv ==
    ASSUME IInv, OpenWelcome
    PROVE  IInv'
<1> DEFINE h == Group(Msg.epoch, Msg.members)
<1>1. /\ AtMessage("welcome") /\ UNCHANGED <<log, server, gone, told, failed>>
      /\ stored' = [stored EXCEPT ![Id] = h]
      /\ call' = [call EXCEPT !.group = h, !.pos = @ + 1]
  BY DEF OpenWelcome, KeepsRest
<1>2. /\ DOMAIN call = {"pc", "at", "batch", "group", "pos", "start", "spent", "loaded",
                        "removals", "readds", "error", "results", "deleted"}
      /\ Ordered(call.batch, server[Id].epoch) /\ Loop
      /\ call.pos \in 1 .. Len(call.batch) /\ Msg.type = "welcome" /\ Id \in Ids
  BY <1>1, AtMessageIs, NoCallIs
<1>3. h # Absent /\ h.epoch \in Nat
  BY <1>1, AtMessageIs, GroupIs
<1>4. h = Group(call.batch[call.pos].epoch, call.batch[call.pos].members)
  BY DEF Msg
<1> HIDE DEF h
<1>5. /\ DOMAIN call' = CallFields /\ call'.pc = call.pc /\ call'.results = call.results
      /\ call'.deleted = call.deleted /\ call'.group = h
      /\ call'.removals = call.removals /\ call'.error = call.error
      /\ call'.readds = call.readds
  BY <1>1, <1>2, NoCallIs
<1>6. Step(call, call')
  BY <1>1, <1>2 DEF Step
<1>7. StoredInv' /\ stored'[Id] = h
  BY <1>1, <1>2, <1>3 DEF IInv, StoredInv
<1>8. ReaddInv'
  BY <1>2, <1>5, <1>6, ReaddStep DEF Loop
<1>9. Sound(call')
  BY <1>2, <1>5, <1>6, SoundStep DEF Loop, Msg
<1>10. Complete(call', h)
  BY <1>2, <1>4, <1>5, <1>6, OpenStep DEF Loop, Msg
<1> QED  BY <1>1, <1>3, <1>5, <1>6, <1>7, <1>8, <1>9, <1>10, LoopStep

LEMMA ProcessCommitIInv ==
    ASSUME IInv, ProcessCommit
    PROVE  IInv'
<1> DEFINE now == Group(Msg.epoch, Msg.members)
<1>1. AtMessage("commit") /\ call.group # Absent /\ UNCHANGED <<log, server, gone, told, failed>>
  BY DEF ProcessCommit, KeepsRest
<1>2. PICK fresh \in Reloads : \E g :
        /\ g = fresh \/ (g = now /\ Msg.epoch = fresh.epoch + 1)
        /\ stored' \in {stored, [stored EXCEPT ![Id] = g]}
        /\ call' = [call EXCEPT !.group = g, !.pos = @ + 1,
                                !.loaded = @ \/ fresh = stored[Id],
                                !.removals = Prune(@, g, Msg.epoch)]
  BY DEF ProcessCommit, Applies
<1>3. PICK g :
        /\ g = fresh \/ (g = now /\ Msg.epoch = fresh.epoch + 1)
        /\ stored' \in {stored, [stored EXCEPT ![Id] = g]}
        /\ call' = [call EXCEPT !.group = g, !.pos = @ + 1,
                                !.loaded = @ \/ fresh = stored[Id],
                                !.removals = Prune(@, g, Msg.epoch)]
  BY <1>2
<1>4. /\ DOMAIN call = {"pc", "at", "batch", "group", "pos", "start", "spent", "loaded",
                        "removals", "readds", "error", "results", "deleted"}
      /\ Ordered(call.batch, server[Id].epoch) /\ Loop
      /\ call.pos \in 1 .. Len(call.batch) /\ Msg.type = "commit" /\ Id \in Ids
      /\ Msg.epoch \in Nat
  BY <1>1, AtMessageIs, NoCallIs
<1>5. /\ fresh \in {call.group, stored[Id]} /\ (call.loaded => fresh = call.group)
      /\ fresh # Absent /\ fresh.epoch \in Nat
  <2>1. /\ fresh \in {call.group, stored[Id]} /\ (call.loaded => fresh = call.group)
        /\ fresh # Absent
    BY <1>1, <1>2 DEF Reloads
  <2> QED  BY <1>1, <1>4, <2>1 DEF Loop, IInv, StoredInv
<1>6. g # Absent /\ g.epoch \in Nat
  BY <1>3, <1>4, <1>5, GroupIs
<1>7. now = Group(call.batch[call.pos].epoch, call.batch[call.pos].members)
  BY DEF Msg
<1> HIDE DEF now
<1>8. /\ DOMAIN call' = CallFields /\ call'.pc = call.pc /\ call'.results = call.results
      /\ call'.deleted = call.deleted /\ call'.group = g
      /\ call'.loaded = (call.loaded \/ fresh = stored[Id])
      /\ call'.removals = Prune(call.removals, g, Msg.epoch)
      /\ call'.error = call.error /\ call'.readds = call.readds
  BY <1>3, <1>4, NoCallIs
<1>9. Step(call, call')
  BY <1>3, <1>4 DEF Step
<1>10. StoredInv' /\ stored'[Id] \in {stored[Id], g}
  <2>1. CASE stored' = stored
    BY <2>1 DEF IInv, StoredInv
  <2>2. CASE stored' = [stored EXCEPT ![Id] = g]
    BY <1>4, <1>6, <2>2 DEF IInv, StoredInv
  <2> QED  BY <1>3, <2>1, <2>2
<1>11. ReaddInv'
  BY <1>4, <1>8, <1>9, ReaddStep DEF Loop
<1>12. Sound(call')
  <2>1. /\ call'.removals \subseteq call.removals
        /\ \A e \in call'.removals :
              Present(e.info, call'.group.members) \/ call.batch[call.pos].epoch < e.epoch
    BY <1>8 DEF Prune, Msg
  <2> QED  BY <1>4, <1>9, <2>1, SoundStep DEF Loop
<1>13. Complete(call', stored'[Id])
  <2>1. \/ call'.group = fresh
        \/ /\ call'.group = Group(call.batch[call.pos].epoch, call.batch[call.pos].members)
           /\ call.batch[call.pos].epoch = fresh.epoch + 1
    BY <1>3, <1>7, <1>8 DEF Msg
  <2>2. /\ fresh = stored[Id] => call'.loaded
        /\ call.loaded => call'.loaded
        /\ call'.removals = Prune(call.removals, call'.group, call.batch[call.pos].epoch)
        /\ call.batch[call.pos].type = "commit"
        /\ stored'[Id] \in {stored[Id], call'.group}
        /\ Sound(call) /\ Complete(call, stored[Id])
    BY <1>4, <1>8, <1>10 DEF Msg, Loop
  <2> DEFINE c == call
             d == call'
             s == stored[Id]
             h == stored'[Id]
             n == server[Id].epoch
  <2>3. /\ Step(c, d) /\ Ordered(c.batch, n) /\ Complete(c, s) /\ Sound(c)
        /\ c.batch[c.pos].type = "commit"
        /\ fresh \in {c.group, s} /\ (c.loaded => fresh = c.group) /\ fresh.epoch \in Nat
        /\ \/ d.group = fresh
           \/ /\ d.group = Group(c.batch[c.pos].epoch, c.batch[c.pos].members)
              /\ c.batch[c.pos].epoch = fresh.epoch + 1
        /\ h \in {s, d.group} /\ (fresh = s => d.loaded) /\ (c.loaded => d.loaded)
        /\ d.removals = Prune(c.removals, d.group, c.batch[c.pos].epoch) /\ d.error = c.error
    BY <1>4, <1>5, <1>8, <1>9, <2>1, <2>2
  <2>4. Complete(d, h)
    <3> HIDE DEF c, d, s, h, n
    <3> QED  BY <2>3, CommitStep
  <2> QED  BY <2>4
<1> QED  BY <1>1, <1>6, <1>8, <1>9, <1>10, <1>11, <1>12, <1>13, LoopStep

LEMMA CommitFailsIInv ==
    ASSUME IInv, CommitFails
    PROVE  IInv'
<1>1. /\ AtMessage("commit") /\ UNCHANGED <<log, server, stored, gone, told, failed>>
      /\ call' = [call EXCEPT !.removals = {}, !.error = TRUE, !.pos = Len(call.batch) + 1]
  BY DEF CommitFails, KeepsData
<1>2. /\ DOMAIN call = {"pc", "at", "batch", "group", "pos", "start", "spent", "loaded",
                        "removals", "readds", "error", "results", "deleted"}
      /\ Ordered(call.batch, server[Id].epoch) /\ Loop /\ call.pc = "messages"
      /\ call.pos \in 1 .. Len(call.batch) /\ Id \in Ids /\ call.at \in Nat \ {0}
      /\ Len(call.batch) \in Nat
  BY <1>1, AtMessageIs, NoCallIs, OrderedIs
<1>3. /\ DOMAIN call' = CallFields /\ call'.pc = call.pc /\ call'.results = call.results
      /\ call'.deleted = call.deleted /\ call'.group = call.group /\ call'.at = call.at
      /\ call'.batch = call.batch /\ call'.start = call.start
      /\ call'.loaded = call.loaded /\ call'.removals = {} /\ call'.error
      /\ call'.pos = Len(call.batch) + 1
  BY <1>1, <1>2, NoCallIs
<1>4. Id' = Id
  BY <1>3 DEF Id
<1>5. StoredInv'
  BY <1>1 DEF IInv, StoredInv
<1>6. \A j \in 1 .. call.pos - 1 : j \in 1 .. call'.pos - 1
  BY <1>2, <1>3
<1>7. Complete(call', stored[Id])
  <2>1. \A g : Seen(g, call) => Seen(g, call')
    BY <1>3, <1>6 DEF Seen
  <2>2. NoWelcome(call') <=> NoWelcome(call)
    BY <1>3 DEF NoWelcome
  <2> QED  BY <1>2, <1>3, <2>1, <2>2 DEF Loop, Complete
<1>8. Loop'
  <2>1. Sound(call') /\ ReaddInv'
    BY <1>3 DEF Sound, ReaddInv
  <2> QED  BY <1>1, <1>2, <1>3, <1>4, <1>7, <2>1 DEF Loop
<1>9. CallInv'
  BY <1>1, <1>2, <1>3, <1>4, <1>8 DEF CallInv, InGroup, CallFields, Ids
<1> QED  BY <1>1, <1>3, <1>5, <1>9, KeptStep

-----------------------------------------------------------------------------
(* The answer for a group.                                                 *)

\* The latest epoch of the commits is that of the last commit.
LEMMA LatestIs ==
    ASSUME NEW n, Ordered(call.batch, n)
    PROVE  /\ LatestEpoch = 0 \/ \E i \in 1 .. Len(call.batch) :
                 call.batch[i].type = "commit" /\ LatestEpoch = call.batch[i].epoch
           /\ \A i \in 1 .. Len(call.batch) :
                 call.batch[i].type = "commit" => call.batch[i].epoch <= LatestEpoch
<1> DEFINE commits == {i \in DOMAIN call.batch : call.batch[i].type = "commit"}
           epochs == {call.batch[i].epoch : i \in commits} \cup {0}
<1>1. Len(call.batch) \in Nat /\ DOMAIN call.batch = 1 .. Len(call.batch)
  BY OrderedIs
<1>2. \E e \in epochs : \A f \in epochs : f <= e
  <2>1. CASE commits = {}
    <3>1. epochs = {0}
      BY <2>1
    <3> QED  BY <3>1
  <2>2. CASE commits # {}
    <3>1. PICK x \in commits : \A y \in commits : y <= x
      <4>1. commits \subseteq 1 .. Len(call.batch)
        BY <1>1
      <4> HIDE DEF commits
      <4> QED  BY <1>1, <2>2, <4>1, LastPosition
    <3>2. ASSUME NEW y \in commits PROVE call.batch[y].epoch <= call.batch[x].epoch
      <4>1. x \in 1 .. Len(call.batch) /\ y \in 1 .. Len(call.batch) /\ (y < x \/ y = x)
        BY <1>1, <3>1
      <4> QED  BY <4>1 DEF Ordered
    <3>3. call.batch[x].epoch \in Nat /\ 0 <= call.batch[x].epoch
      BY <1>1 DEF Ordered
    <3>4. \A f \in epochs : f <= call.batch[x].epoch
      BY <3>2, <3>3
    <3> QED  BY <3>4
  <2> QED  BY <2>1, <2>2
<1>3. LatestEpoch = CHOOSE e \in epochs : \A f \in epochs : f <= e
  BY DEF LatestEpoch
<1>4. LatestEpoch \in epochs /\ \A f \in epochs : f <= LatestEpoch
  <2> HIDE DEF epochs
  <2> QED  BY <1>2, <1>3
<1> QED  BY <1>1, <1>4

\* Comparing epochs is comparing positions.
LEMMA RequestedIs ==
    ASSUME NEW n, Ordered(call.batch, n), NEW i \in 1 .. Len(call.batch),
           call.batch[i].type = "custom_readd"
    PROVE  Requested(call.batch[i].epoch)
               <=> \A j \in i .. Len(call.batch) : call.batch[j].type # "commit"
<1> DEFINE e == call.batch[i].epoch
<1>1. Len(call.batch) \in Nat /\ e \in Nat \ {0}
  BY OrderedIs DEF Ordered
<1>2. ASSUME Requested(e), NEW j \in i .. Len(call.batch), call.batch[j].type = "commit"
      PROVE  FALSE
  <2>1. i < j /\ j \in 1 .. Len(call.batch)
    BY <1>1, <1>2
  <2>2. e <= call.batch[j].epoch /\ call.batch[j].epoch \in Nat
    BY <2>1 DEF Ordered
  <2>3. call.batch[j].epoch <= LatestEpoch /\ (LatestEpoch = 0 \/ LatestEpoch \in Nat)
    BY <1>2, <2>1, LatestIs DEF Ordered
  <2> HIDE DEF e
  <2> QED  BY <1>1, <1>2, <2>2, <2>3 DEF Requested
<1>3. ASSUME \A j \in i .. Len(call.batch) : call.batch[j].type # "commit"
      PROVE  e > LatestEpoch
  <2>1. CASE LatestEpoch = 0
    BY <1>1, <2>1
  <2>2. ASSUME NEW j \in 1 .. Len(call.batch), call.batch[j].type = "commit",
               LatestEpoch = call.batch[j].epoch
        PROVE  e > LatestEpoch
    <3>1. j < i
      BY <1>1, <1>3, <2>2
    <3>2. call.batch[j].epoch < e /\ call.batch[j].epoch \in Nat
      BY <2>2, <3>1 DEF Ordered
    <3> HIDE DEF e
    <3> QED  BY <1>1, <2>2, <3>2
  <2> QED  BY <2>1, <2>2, LatestIs
<1> QED  BY <1>2, <1>3 DEF Requested

LEMMA AnswerIs ==
    ASSUME NEW c
    PROVE  /\ Answer(c).batch = c.batch /\ Answer(c).left = c.group /\ Answer(c).start = c.start
           /\ Answer(c).error = c.error /\ Answer(c).readds = c.readds
           /\ Answer(c).removals = {e.info : e \in c.removals} /\ Answer(c).group = Groups[c.at]
BY DEF Answer

LEMMA AnswerIsSound ==
    ASSUME NEW c, NEW n, Ordered(c.batch, n), c.pos = Len(c.batch) + 1, Sound(c),
           c.group = Absent => c.removals = {}
    PROVE  SoundAnswer(Answer(c))
<1> DEFINE r == Answer(c)
<1>1. /\ r.batch = c.batch /\ r.left = c.group /\ r.removals = {e.info : e \in c.removals}
      /\ DOMAIN c.batch = 1 .. Len(c.batch) /\ Len(c.batch) \in Nat /\ c.pos - 1 = Len(c.batch)
  BY OrderedIs, AnswerIs
<1> HIDE DEF r
<1> SUFFICES ASSUME NEW e \in c.removals
             PROVE  \/ r.left # Absent /\ Present(e.info, r.left.members)
                    \/ EndsWithWelcome(r)
                    \/ \A m \in CommitsOf(r) : \E i \in DOMAIN r.batch :
                          /\ r.batch[i].epoch > m.epoch
                          /\ \/ r.batch[i].type = "custom_remove" /\ e.info = OfUser(r.batch[i].about)
                             \/ r.batch[i].type = "remove" /\ e.info = OfMember(r.batch[i].about)
  BY <1>1 DEF SoundAnswer, r
<1>2. PICK i \in 1 .. Len(c.batch) : NamedBy(e, c, i)
  BY DEF Sound
<1>3. CASE Present(e.info, c.group.members)
  BY <1>1, <1>3
<1>4. CASE WelcomeLast(c)
  BY <1>1, <1>4 DEF WelcomeLast, EndsWithWelcome
<1>5. CASE Newer(e, c)
  <2> SUFFICES ASSUME NEW m \in CommitsOf(r)
               PROVE  /\ r.batch[i].epoch > m.epoch
                      /\ \/ r.batch[i].type = "custom_remove" /\ e.info = OfUser(r.batch[i].about)
                         \/ r.batch[i].type = "remove" /\ e.info = OfMember(r.batch[i].about)
    BY <1>1, <1>2
  <2>1. PICK j \in 1 .. Len(c.batch) : c.batch[j].type = "commit" /\ m = c.batch[j]
    BY <1>1 DEF CommitsOf
  <2>2. m.epoch < e.epoch /\ e.epoch = c.batch[i].epoch /\ m.epoch \in Nat /\ e.epoch \in Nat
    BY <1>1, <1>2, <1>5, <2>1 DEF Newer, NamedBy, Ordered
  <2> QED  BY <1>1, <1>2, <2>2 DEF NamedBy, Named
<1> QED  BY <1>3, <1>4, <1>5 DEF Sound

LEMMA AnswerIsExact ==
    ASSUME NEW n, Ordered(call.batch, n), call.pos = Len(call.batch) + 1, ReaddInv
    PROVE  ExactAnswer(Answer(call))
<1> DEFINE r == Answer(call)
<1>1. /\ DOMAIN call.batch = 1 .. Len(call.batch) /\ call.pos - 1 = Len(call.batch)
      /\ r.batch = call.batch /\ r.error = call.error /\ r.readds = call.readds
  BY OrderedIs, AnswerIs
<1> SUFFICES ExactAnswer(r)
  OBVIOUS
<1> HIDE DEF r
<1> SUFFICES ASSUME ~call.error
             PROVE  call.readds = {OfMember(call.batch[i].about) : i \in {i \in 1 .. Len(call.batch) :
                        /\ call.batch[i].type = "custom_readd"
                        /\ \A j \in i .. Len(call.batch) : call.batch[j].type # "commit"}}
  BY <1>1 DEF ExactAnswer
<1>2. call.readds =
         {OfMember(call.batch[i].about) : i \in {i \in 1 .. Len(call.batch) :
             call.batch[i].type = "custom_readd" /\ Requested(call.batch[i].epoch)}}
  BY <1>1 DEF ReaddInv
<1>3. \A i \in 1 .. Len(call.batch) : call.batch[i].type = "custom_readd" =>
         (Requested(call.batch[i].epoch)
             <=> \A j \in i .. Len(call.batch) : call.batch[j].type # "commit")
  BY RequestedIs
<1> HIDE DEF Requested
<1> QED  BY <1>2, <1>3

LEMMA AnswerIsComplete ==
    ASSUME NEW c, Ordered(c.batch, server[Groups[c.at]].epoch), c.pos = Len(c.batch) + 1,
           NEW g, Complete(c, g)
    PROVE  CompleteAnswer(Answer(c))
<1> DEFINE r == Answer(c)
<1>1. /\ r.batch = c.batch /\ r.left = c.group /\ r.start = c.start /\ r.group = Groups[c.at]
      /\ r.error = c.error /\ r.removals = {e.info : e \in c.removals}
      /\ DOMAIN c.batch = 1 .. Len(c.batch) /\ c.pos - 1 = Len(c.batch)
  BY OrderedIs, AnswerIs
<1> SUFFICES CompleteAnswer(r)
  OBVIOUS
<1> HIDE DEF r
<1> SUFFICES ASSUME ~c.error, NEW i \in 1 .. Len(c.batch), Readable(r, i), Stays(r, i, Followed(r))
             PROVE  \E e \in c.removals : e.info = Named(c.batch[i])
  BY <1>1 DEF CompleteAnswer
<1>2. c.start # Absent
  BY <1>1 DEF Readable
<1>3. CASE Followed(r)
  <2>1. NoWelcome(c)
    BY <1>1, <1>3 DEF NoWelcome, Followed
  <2>2. Level(c)
    BY <1>1, <1>3 DEF Level, Followed, Ordered
  <2>3. Stays(r, i, TRUE)
    BY <1>3 DEF Stays
  <2>4. Expected(c, i)
    BY <2>1, <2>2, <2>3 DEF Expected, r
  <2> QED  BY <1>2, <2>4 DEF Complete, Listed
<1>4. CASE ~Followed(r)
  <2>1. Stays(r, i, FALSE)
    BY <1>4 DEF Stays
  <2>2. Expected(c, i)
    BY <2>1 DEF Expected, r
  <2> QED  BY <1>2, <2>2 DEF Complete, Listed
<1> QED  BY <1>3, <1>4

LEMMA PushResultIInv ==
    ASSUME IInv, PushResult
    PROVE  IInv'
<1> DEFINE r == Answer(call)
<1>1. /\ call.pc = "messages" /\ UNCHANGED <<log, server, stored, told, gone, failed>>
      /\ DOMAIN call = CallFields /\ call.at \in Nat \ {0} /\ Id \in Ids /\ Loop
      /\ Ordered(call.batch, server[Id].epoch) /\ call.pos > Len(call.batch)
  BY DEF PushResult, At, KeepsData, IInv, CallInv, InGroup
<1>2. call.pos = Len(call.batch) + 1
  BY <1>1, OrderedIs DEF Loop
<1>3. call' = [call EXCEPT !.pc = "load", !.at = @ + 1, !.results = @ \cup {r}]
  BY DEF PushResult, Answer, Id
<1>4. Right(r)
  <2>1. SoundAnswer(r) /\ ExactAnswer(r)
    BY <1>1, <1>2, AnswerIsSound, AnswerIsExact DEF Loop
  <2>2. CompleteAnswer(r)
    BY <1>1, <1>2, AnswerIsComplete DEF Loop, Id
  <2> QED  BY <2>1, <2>2 DEF Right
<1> HIDE DEF r
<1>5. /\ DOMAIN call' = CallFields /\ call'.pc = "load" /\ call'.at = call.at + 1
      /\ call'.results = call.results \cup {r} /\ call'.deleted = call.deleted
  <2>1. DOMAIN call = {"pc", "at", "batch", "group", "pos", "start", "spent", "loaded",
                       "removals", "readds", "error", "results", "deleted"}
    BY <1>1, NoCallIs
  <2> QED  BY <1>1, <1>3, <2>1
<1>6. ServerInv' /\ StoredInv' /\ GoneInv'
  BY <1>1, <1>5 DEF IInv, ServerInv, StoredInv, GoneInv
<1>7. CallInv'
  BY <1>1, <1>5 DEF CallInv, InGroup, CallFields
<1>8. ResultsInv'
  <2> SUFFICES ASSUME NEW a \in call'.results PROVE Right(a)'
    BY DEF ResultsInv
  <2>1. Right(a)
    BY <1>4, <1>5 DEF IInv, ResultsInv
  <2> QED  BY <1>1, <2>1, RightStays
<1> QED  BY <1>6, <1>7, <1>8 DEF IInv

-----------------------------------------------------------------------------
(* The theorems.                                                           *)

LEMMA EmptyOrdered ==
    ASSUME NEW n
    PROVE  Ordered(<<>>, n)
<1> DEFINE s == <<>>
<1>1. Len(s) = 0 /\ s \in Seq(Range(s))
  OBVIOUS
<1>2. 1 .. Len(s) = {}
  BY <1>1
<1> HIDE DEF s
<1>3. Ordered(s, n)
  BY <1>1, <1>2 DEF Ordered
<1> QED  BY <1>3 DEF s

LEMMA InitIInv ==
    ASSUME Init
    PROVE  IInv
<1>1. \A g \in Ids : server[g].epoch = 1 /\ DOMAIN server = Ids
  <2>1. server \in [Ids -> {Group(1, Members), Group(1, Members \ {Self})}]
    BY DEF Init
  <2> QED  BY <2>1, GroupIs
<1>2. ServerInv
  <2>1. DOMAIN server = Ids /\ DOMAIN log = Ids /\ \A g \in Ids : log[g] = <<>>
    BY DEF Init
  <2> QED  BY <1>1, <2>1, EmptyOrdered DEF ServerInv
<1>3. StoredInv
  <2>1. DOMAIN stored = Ids /\ \A g \in Ids : stored[g] \in {server[g], Absent}
    BY DEF Init
  <2> QED  BY <1>1, <2>1 DEF StoredInv
<1>4. call = NoCall /\ gone = {}
  BY DEF Init
<1>5. GoneInv /\ CallInv /\ ResultsInv
  BY <1>4, NoCallIs DEF GoneInv, CallInv, ResultsInv, InGroup, CallFields
<1> QED  BY <1>2, <1>3, <1>5 DEF IInv

LEMMA NextIInv ==
    ASSUME IInv, [Next]_vars
    PROVE  IInv'
<1>1. CASE UNCHANGED vars
  <2>1. UNCHANGED <<log, server, stored, told, gone, failed, call>>
    BY <1>1 DEF vars
  <2>2. ServerInv' /\ StoredInv' /\ GoneInv'
    BY <2>1 DEF IInv, ServerInv, StoredInv, GoneInv
  <2>3. Loop' <=> Loop
    BY <2>1 DEF Loop, ReaddInv, Requested, LatestEpoch, Id
  <2>4. CallInv'
    BY <2>1, <2>3 DEF IInv, CallInv, InGroup, Fresh, Id
  <2> QED  BY <2>1, <2>2, <2>4, CallStep
<1>2. CASE process_all_messages
  BY <1>2, StartsIInv
<1>3. CASE Load
  BY <1>3, LoadIInv
<1>4. CASE OwnLeafGone \/ NothingPending
  BY <1>4, DesyncPassIInv
<1>5. CASE Settle
  BY <1>5, SettleIInv
<1>6. CASE CallFails \/ CallReturns
  BY <1>6, CallReturnsIInv
<1>7. CASE ReadProposals
  BY <1>7, ReadProposalsIInv
<1>8. CASE OpenWelcome
  BY <1>8, OpenWelcomeIInv
<1>9. CASE WelcomeFails \/ SkipCommit \/ PassProposal
  BY <1>9, PassIInv
<1>10. CASE ProcessCommit
  BY <1>10, ProcessCommitIInv
<1>11. CASE CommitFails
  BY <1>11, CommitFailsIInv
<1>12. CASE PushResult
  BY <1>12, PushResultIInv
<1>13. CASE \E g \in Ids : MemberCommits(g)
  BY <1>13, MemberCommitsIInv
<1>14. CASE \E g \in Ids : Propose(g)
  BY <1>14, ProposeIInv
<1>15. CASE \E g \in Ids : StartUpdate(g) \/ join_by_external_commit(g)
  BY <1>15, StartIInv
<1>16. CASE \E g \in Ids : ServerAccepts(g)
  BY <1>16, ServerAcceptsIInv
<1> QED  BY <1>1, <1>2, <1>3, <1>4, <1>5, <1>6, <1>7, <1>8, <1>9, <1>10, <1>11, <1>12,
            <1>13, <1>14, <1>15, <1>16 DEF Next

\* The server's messages stay in order, the loop keeps its lists as they have
\* to be, and an answer that has been pushed is right.
THEOREM Inductive == Spec => []IInv
<1>1. Init => IInv
  BY InitIInv
<1>2. IInv /\ [Next]_vars => IInv'
  BY NextIInv
<1> QED  BY <1>1, <1>2, PTL DEF Spec

\* deleted_groups of process_all_messages: as long as no call has ended with an
\* error, the application is told of every group that the desync check deletes.
THEOREM DeletionsAreReported == Spec => []GoneIsReported
<1>1. IInv => GoneIsReported
  BY DEF IInv, GoneInv, CallInv, GoneIsReported, At
<1> QED  BY <1>1, Inductive, PTL

\* members_to_remove names no member that the commits of the batch have removed
\* already, but for a Welcome that no commit follows: the loop over the
\* messages drops such a member at every commit.
THEOREM RemovalsAreSound == Spec => []RemovalsSound
<1>1. IInv => RemovalsSound
  BY DEF IInv, ResultsInv, Right, SoundAnswer, RemovalsSound
<1> QED  BY <1>1, Inductive, PTL

\* members_to_remove names every member that a proposal read in the batch names
\* and that all states of the group in the batch have, or those since the
\* proposal where the client has followed the group, however many commits and
\* Welcomes there are and whichever of them fail, short of a storage error.
THEOREM RemovalsAreComplete == Spec => []RemovalsComplete
<1>1. IInv => RemovalsComplete
  BY DEF IInv, ResultsInv, Right, CompleteAnswer, RemovalsComplete
<1> QED  BY <1>1, Inductive, PTL

\* members_to_readd: the comparison of epochs in the loop over the messages
\* finds exactly the requests that no commit of the batch follows.
THEOREM ReaddsAreExact == Spec => []ReaddsExact
<1>1. IInv => ReaddsExact
  BY DEF IInv, ResultsInv, Right, ExactAnswer, ReaddsExact
<1> QED  BY <1>1, Inductive, PTL
=============================================================================

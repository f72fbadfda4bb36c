---------------------------- MODULE BackupProof ----------------------------
(***************************************************************************)
(* Safety of backups: of the objects that are sealed and opened, for any   *)
(* sizes and limits, and of the Node operation that seals or opens one,    *)
(* for any number of callbacks.                                            *)
(*                                                                         *)
(* The argument about objects is about one sequence of bytes, S: what the  *)
(* compressor has emitted so far.  Every frame of the object that is       *)
(* stored is the part of S that its index says, whatever damage was done   *)
(* and however often; a last frame ends where a finished S ends.  The      *)
(* reader has taken frames 0, 1, ... in turn, for a frame authenticates    *)
(* under its own index only; so what it decrypted is a beginning of S,     *)
(* what it decompressed is the plaintext of a beginning of S, and when it  *)
(* is done that beginning is all of S.  The same holds of the stream of    *)
(* the other version when the file has that one's header.                  *)
(***************************************************************************)
EXTENDS BackupObject, BackupIo, SequenceTheorems, WellFoundedInduction, TLAPS

PlainBytes == {"mine", "other"} \X Nat
Bytes == [units : Seq(PlainBytes), end : BOOLEAN]
AnyFrame == [obj : {"mine", "other", "garbage"}, index : Nat, final : BOOLEAN, body : Seq(Bytes)]

\* Concatenation as an operator that the provers do not take apart.
Cat(s, t) == s \o t

\* t is the beginning of an object of n bytes.
Begins(t, obj, n) ==
    /\ t \in Seq(PlainBytes) /\ Len(t) <= n
    /\ \A i \in 1 .. Len(t) : t[i] = <<obj, i>>

\* A byte that ends the Zstd frame is among the first n.
EndBy(S, n) == \E i \in 1 .. n : S[i].end

\* S is a compressed stream of an object of n bytes, or the beginning of one:
\* the Zstd header completes no plaintext, and only the last byte is the end.
StreamOf(S, obj, n) ==
    /\ S \in Seq(Bytes) /\ (S # <<>> => ZstdHeader <= Len(S))
    /\ \A i \in 1 .. Len(S) : i <= ZstdHeader => S[i].units = <<>> /\ ~S[i].end
    /\ \A i \in 1 .. Len(S) : S[i].end => i = Len(S)
    /\ Begins(Units(S), obj, n)
    /\ EndBy(S, Len(S)) => Len(Units(S)) = n

\* f is a frame of the object whose stream is S.
FrameOf(f, obj, S) ==
    /\ f \in AnyFrame /\ f.obj = obj
    /\ f.index * BlockBytes <= Len(S)
    /\ IF f.final
       THEN /\ Len(S) < f.index * BlockBytes + BlockBytes
            /\ f.body = SubSeq(S, f.index * BlockBytes + 1, Len(S))
       ELSE /\ f.index * BlockBytes + BlockBytes <= Len(S)
            /\ f.body = SubSeq(S, f.index * BlockBytes + 1, f.index * BlockBytes + BlockBytes)

-----------------------------------------------------------------------------
(* The inductive invariant.  S is the compressed stream that the writer    *)
(* has got so far.                                                         *)

BeforeEnd == wpc \in {"start", "read", "compress", "blocks", "finish"}
AfterEnd == wpc \in {"last_blocks", "last", "finished"}

WriterInv(S) ==
    /\ wpc \in {"start", "read", "compress", "blocks", "finish", "last_blocks", "last",
                "finished", "failed"}
    /\ left \in Nat /\ plaintext_bytes \in 0 .. MaxPlaintext
    /\ ciphertext_bytes \in 0 .. MaxCiphertext /\ block_count \in Nat
    /\ absorbed \in Seq(PlainBytes)
    /\ StreamOf(S, "mine", plaintext_bytes) /\ compressed_bytes = Len(S)
    /\ wpc # "failed" => Cat(Units(S), absorbed) = Plaintext("mine", plaintext_bytes)
    /\ BeforeEnd => ~EndBy(S, Len(S))
    /\ AfterEnd => EndBy(S, Len(S)) /\ absorbed = <<>>
    /\ wpc = "finished" => pending = <<>>
    /\ wpc # "finished" =>
          /\ block_count * BlockBytes <= Len(S)
          /\ pending = SubSeq(S, block_count * BlockBytes + 1, Len(S))
    /\ wpc = "last" => Len(pending) < BlockBytes

\* A last frame of this object is whole only where the writer has finished.
FileInv(S) ==
    /\ file = Stored(file.header, file.frames, file.cut)
    /\ file.header \in {"mine", "other", "bad"}
    /\ file.frames \in Seq(AnyFrame)
    /\ file.cut \in 0 .. Ends(file.frames)[Len(file.frames)]
    /\ \A i \in 1 .. Len(file.frames) :
          \/ FrameOf(file.frames[i], "mine", S)
          \/ FrameOf(file.frames[i], "other", OtherStream)
          \/ file.frames[i] = GarbageFrame
    /\ \A i \in 1 .. Len(file.frames) :
          file.frames[i].obj = "mine" /\ file.frames[i].final =>
              \/ wpc = "finished"
              \/ wpc = "failed" /\ Ends(file.frames)[i] > Size(file)

\* What the writer leaves behind, a failed one with part of a frame.
UndamagedInv ==
    damages = 0 =>
        /\ file.header = "mine"
        /\ wpc = "start" => file.frames = <<>> /\ block_count = 0
        /\ wpc # "failed" =>
              /\ Len(file.frames) = block_count
              /\ wpc # "start" => file.cut = 0 /\ ciphertext_bytes = Size(file)
              /\ \A i \in 1 .. Len(file.frames) :
                    /\ file.frames[i].obj = "mine" /\ file.frames[i].index = i - 1
                    /\ file.frames[i].final = (wpc = "finished" /\ i = Len(file.frames))
        /\ wpc = "finished" => block_count > 0 /\ descriptor = ciphertext_bytes

EndOf(i) == Ends(file.frames)[i]
Held == {"decrypt", "decode", "pushed"}
Over == {"end", "ok"}

\* Where the reader is in the file.
PlaceInv ==
    /\ rpc \in {"idle", "header", "first_length", "length_rest", "frame", "decrypt", "decode",
                "pushed", "end", "ok", "failed"}
    /\ rpc # "idle" => SealEnded
    /\ ~SealEnded => damages = 0
    /\ damages \in Nat
    /\ bytes \in Nat /\ need \in Nat /\ idx \in 0 .. Len(file.frames) /\ next \in BOOLEAN
    /\ rpc = "idle" => bytes = 0 /\ idx = 0 /\ ~next
    /\ rpc # "failed" => bytes <= MaxCiphertext /\ bytes <= Size(file)
    /\ rpc = "header" => idx = 0 /\ ~next /\ bytes + need = HeaderBytes
    /\ rpc = "first_length" => need <= 1 /\ bytes + need = EndOf(idx) + 1
    /\ rpc = "length_rest" => bytes + need = EndOf(idx) + LengthBytes /\ need < LengthBytes
    /\ rpc = "frame" => idx > 0 /\ bytes + need = EndOf(idx)
    /\ rpc \in Held =>
          /\ idx > 0
          /\ IF next THEN idx < Len(file.frames) /\ bytes = EndOf(idx) + LengthBytes
             ELSE bytes = EndOf(idx) /\ bytes = Size(file)
    /\ rpc \in Over => idx > 0 /\ ~next /\ bytes = EndOf(idx) /\ bytes = Size(file)

\* The stream and the size of the object whose header the file has.
StreamHere(S) == IF file.header = "mine" THEN S ELSE OtherStream
SizeHere == IF file.header = "mine" THEN plaintext_bytes ELSE OtherSize

\* How much of the stream has been decrypted.
SeenInv(S) ==
    LET T == StreamHere(S)
    IN  /\ seen \in Nat
        /\ rpc \notin {"idle", "header", "failed"} => file.header # "bad" /\ seen <= Len(T)
        /\ rpc \in {"idle", "header"} => seen = 0
        /\ rpc \in {"first_length", "length_rest"} /\ idx = 0 => seen = 0
        /\ rpc \in {"first_length", "length_rest", "frame", "decrypt"} /\ idx > 0 =>
              seen = (idx - 1) * BlockBytes
        /\ rpc \in {"decode", "pushed"} /\ next => seen = idx * BlockBytes
        /\ \/ rpc \in {"decode", "pushed"} /\ ~next
           \/ rpc \in Over
           => seen = Len(T) /\ (file.header = "mine" => wpc = "finished")

\* What of it has been decompressed, written out and is still held.
DecodedInv(S) ==
    LET T == StreamHere(S)
        n == IF rpc = "decode" THEN seen - Len(inflow) ELSE seen
    IN  /\ Begins(out, file.header, SizeHere)
        /\ total = Len(out) /\ total <= MaxPlaintext
        /\ held \in Seq(PlainBytes) /\ inflow \in Seq(Bytes)
        /\ ended \in BOOLEAN /\ complete \in BOOLEAN
        /\ rpc = "decode" =>
              /\ Len(inflow) <= seen /\ inflow = SubSeq(T, n + 1, seen)
              /\ ~complete /\ ended = EndBy(T, n)
              /\ Cat(out, held) = Units(SubSeq(T, 1, n))
        /\ rpc \notin {"decode", "failed"} =>
              /\ held = <<>> /\ out = Units(SubSeq(T, 1, seen))
              /\ ended = EndBy(T, seen) /\ complete = ended /\ (rpc = "ok" => ended)

Inv(S) ==
    /\ WriterInv(S) /\ FileInv(S) /\ UndamagedInv
    /\ PlaceInv /\ SeenInv(S) /\ DecodedInv(S) /\ SealedOpens

IInv == \E S \in Seq(Bytes) : Inv(S)
-----------------------------------------------------------------------------
(* Concatenation.                                                          *)

\* What Cat returns.
LEMMA CatIs ==
    ASSUME NEW X, NEW s \in Seq(X), NEW t \in Seq(X)
    PROVE  /\ Cat(s, t) \in Seq(X) /\ Len(Cat(s, t)) = Len(s) + Len(t)
           /\ \A i \in 1 .. Len(s) : Cat(s, t)[i] = s[i]
           /\ \A i \in 1 .. Len(t) : Cat(s, t)[Len(s) + i] = t[i]
<1>1. Len(s) \in Nat /\ Len(t) \in Nat
  OBVIOUS
<1>2. /\ s \o t \in Seq(X) /\ Len(s \o t) = Len(s) + Len(t)
      /\ \A i \in 1 .. Len(s) : (s \o t)[i] = s[i]
  BY <1>1
<1>3. ASSUME NEW i \in 1 .. Len(t) PROVE (s \o t)[Len(s) + i] = t[i]
  BY <1>1
<1> QED  BY <1>2, <1>3 DEF Cat

\* Its second part, one element.
LEMMA CatSecond ==
    ASSUME NEW X, NEW s \in Seq(X), NEW t \in Seq(X), NEW i \in 1 .. Len(t)
    PROVE  Cat(s, t)[Len(s) + i] = t[i]
<1>1. \A j \in 1 .. Len(t) : Cat(s, t)[Len(s) + j] = t[j]
  BY CatIs
<1> QED  BY <1>1

LEMMA CatAssociative ==
    ASSUME NEW X, NEW s \in Seq(X), NEW t \in Seq(X), NEW r \in Seq(X)
    PROVE  Cat(Cat(s, t), r) = Cat(s, Cat(t, r))
<1>1. (s \o t) \o r = s \o (t \o r)
  BY ConcatAssociative
<1> QED  BY <1>1, Zenon DEF Cat

LEMMA CatEmpty ==
    ASSUME NEW X, NEW s \in Seq(X)
    PROVE  Cat(s, <<>>) = s /\ Cat(<<>>, s) = s
<1>1. s \o <<>> = s /\ <<>> \o s = s
  BY ConcatEmptySeq
<1> QED  BY <1>1, Zenon DEF Cat

-----------------------------------------------------------------------------
(* Recursive functions over the naturals.                                  *)

\* Every non-empty set of naturals has a least element.
LEMMA LeastNat ==
    ASSUME NEW T, T \subseteq Nat, T # {}
    PROVE  \E x \in T : \A y \in T : x <= y
<1> DEFINE R == {ss \in Nat \X Nat : ss[1] < ss[2]}
<1>1. IsWellFoundedOn(R, Nat)
  BY NatLessThanWellFounded DEF OpToRel
<1>2. PICK x \in T : \A y \in T : ~ (<<y, x>> \in R)
  <2> HIDE DEF R
  <2> QED  BY <1>1, WFMin
<1>3. ASSUME NEW y \in T PROVE x <= y
  <2>1. x \in Nat /\ y \in Nat
    OBVIOUS
  <2>2. ~(y < x)
    BY <1>2, <2>1
  <2> QED  BY <2>1, <2>2
<1> QED  BY <1>3

\* Induction up to N.
LEMMA UpTo ==
    ASSUME NEW N \in Nat, NEW T, 0 \in T, \A n \in 0 .. N - 1 : n \in T => n + 1 \in T
    PROVE  \A n \in 0 .. N : n \in T
<1> DEFINE M == {n \in 0 .. N : n \notin T}
<1>1. SUFFICES ASSUME M # {} PROVE FALSE
  OBVIOUS
<1>2. PICK m \in M : \A k \in M : m <= k
  <2> HIDE DEF M
  <2>1. M \subseteq Nat
    BY DEF M
  <2> QED  BY <1>1, <2>1, LeastNat
<1>3. m # 0
  OBVIOUS
<1>4. m - 1 \in 0 .. N - 1 /\ m - 1 \notin M
  BY <1>2, <1>3
<1>5. m - 1 \in T
  BY <1>4
<1>6. (m - 1) + 1 \in T
  BY <1>4, <1>5
<1>7. (m - 1) + 1 = m
  OBVIOUS
<1> QED  BY <1>6, <1>7

IsJoined(f, n, ss) ==
    f = [i \in 0 .. n |-> IF i = 0 THEN <<>> ELSE f[i - 1] \o ss[i]]

\* The recursive definition of Joined has a solution up to any length.
LEMMA JoinedExists ==
    ASSUME NEW ss, NEW N \in Nat
    PROVE  \E f : IsJoined(f, N, ss)
<1> DEFINE T == {n \in Nat : \E f : IsJoined(f, n, ss)}
<1>1. 0 \in T
  <2>1. IsJoined([i \in 0 .. 0 |-> <<>>], 0, ss)
    BY DEF IsJoined
  <2> QED  BY <2>1
<1>2. ASSUME NEW n \in 0 .. N - 1, n \in T PROVE n + 1 \in T
  <2>1. PICK f : IsJoined(f, n, ss)
    BY <1>2
  <2> DEFINE h == [i \in 0 .. n + 1 |-> IF i = n + 1 THEN f[n] \o ss[n + 1] ELSE f[i]]
  <2>2. ASSUME NEW i \in 0 .. n + 1
        PROVE  h[i] = IF i = 0 THEN <<>> ELSE h[i - 1] \o ss[i]
    <3>1. \A j \in 0 .. n : f[j] = IF j = 0 THEN <<>> ELSE f[j - 1] \o ss[j]
      BY <2>1 DEF IsJoined
    <3>2. CASE i = n + 1
      <4>1. h[i] = f[n] \o ss[n + 1] /\ i # 0 /\ h[i - 1] = f[n] /\ ss[i] = ss[n + 1]
        BY <3>2
      <4> QED  BY <4>1, Zenon
    <3>3. CASE i # n + 1
      <4>1. i \in 0 .. n /\ h[i] = f[i] /\ (i # 0 => h[i - 1] = f[i - 1])
        BY <3>3
      <4> QED  BY <3>1, <4>1
    <3> QED  BY <3>2, <3>3
  <2>3. IsJoined(h, n + 1, ss)
    BY <2>2 DEF IsJoined
  <2> QED  BY <2>3
<1> HIDE DEF T
<1>3. N \in T
  BY <1>1, <1>2, UpTo
<1> QED  BY <1>3 DEF T

\* So Joined is what its definition says, step by step.
LEMMA JoinedSteps ==
    ASSUME NEW ss, Len(ss) \in Nat
    PROVE  /\ Joined(ss)[0] = <<>>
           /\ \A i \in 1 .. Len(ss) : Joined(ss)[i] = Cat(Joined(ss)[i - 1], ss[i])
<1> DEFINE P(f) == f = [i \in 0 .. Len(ss) |-> IF i = 0 THEN <<>> ELSE f[i - 1] \o ss[i]]
<1>1. \E f : P(f)
  BY JoinedExists DEF IsJoined
<1>2. Joined(ss) = CHOOSE f : P(f)
  BY DEF Joined
<1>3. P(Joined(ss))
  <2> HIDE DEF P, Joined
  <2> QED  BY <1>1, <1>2
<1> DEFINE J == Joined(ss)
<1>4. J = [i \in 0 .. Len(ss) |-> IF i = 0 THEN <<>> ELSE J[i - 1] \o ss[i]]
  BY <1>3
<1> HIDE DEF J
<1>5. \A i \in 0 .. Len(ss) : J[i] = IF i = 0 THEN <<>> ELSE J[i - 1] \o ss[i]
  BY <1>4, Zenon
<1>6. ASSUME NEW i \in 1 .. Len(ss) PROVE J[i] = Cat(J[i - 1], ss[i])
  <2>1. i \in 0 .. Len(ss) /\ i # 0
    OBVIOUS
  <2> QED  BY <1>5, <2>1, Zenon DEF Cat
<1>7. J[0] = <<>>
  <2>1. 0 \in 0 .. Len(ss)
    OBVIOUS
  <2> QED  BY <1>5, <2>1, Zenon
<1> QED  BY <1>6, <1>7 DEF J

IsEnds(f, n, frames) ==
    f = [i \in 0 .. n |-> IF i = 0 THEN HeaderBytes ELSE f[i - 1] + FrameBytes(frames[i])]

\* The same for Ends.
LEMMA EndsExist ==
    ASSUME NEW frames, NEW N \in Nat
    PROVE  \E f : IsEnds(f, N, frames)
<1> DEFINE T == {n \in Nat : \E f : IsEnds(f, n, frames)}
<1>1. 0 \in T
  <2>1. IsEnds([i \in 0 .. 0 |-> HeaderBytes], 0, frames)
    BY DEF IsEnds
  <2> QED  BY <2>1
<1>2. ASSUME NEW n \in 0 .. N - 1, n \in T PROVE n + 1 \in T
  <2>1. PICK f : IsEnds(f, n, frames)
    BY <1>2
  <2> DEFINE h == [i \in 0 .. n + 1 |->
                      IF i = n + 1 THEN f[n] + FrameBytes(frames[n + 1]) ELSE f[i]]
  <2>2. ASSUME NEW i \in 0 .. n + 1
        PROVE  h[i] = IF i = 0 THEN HeaderBytes ELSE h[i - 1] + FrameBytes(frames[i])
    <3>1. \A j \in 0 .. n : f[j] = IF j = 0 THEN HeaderBytes ELSE f[j - 1] + FrameBytes(frames[j])
      BY <2>1 DEF IsEnds
    <3>2. CASE i = n + 1
      BY <3>2
    <3>3. CASE i # n + 1
      <4>1. i \in 0 .. n /\ h[i] = f[i] /\ (i # 0 => h[i - 1] = f[i - 1])
        BY <3>3
      <4> QED  BY <3>1, <4>1
    <3> QED  BY <3>2, <3>3
  <2>3. IsEnds(h, n + 1, frames)
    BY <2>2 DEF IsEnds
  <2> QED  BY <2>3
<1> HIDE DEF T
<1>3. N \in T
  BY <1>1, <1>2, UpTo
<1> QED  BY <1>3 DEF T

LEMMA EndsSteps ==
    ASSUME NEW frames, Len(frames) \in Nat
    PROVE  /\ Ends(frames)[0] = HeaderBytes
           /\ \A i \in 1 .. Len(frames) :
                Ends(frames)[i] = Ends(frames)[i - 1] + FrameBytes(frames[i])
<1>1. \E f : f = [i \in 0 .. Len(frames) |->
                     IF i = 0 THEN HeaderBytes ELSE f[i - 1] + FrameBytes(frames[i])]
  <2>1. PICK f : IsEnds(f, Len(frames), frames)
    BY EndsExist
  <2> QED  BY <2>1 DEF IsEnds
<1>2. Ends(frames) = [i \in 0 .. Len(frames) |->
                         IF i = 0 THEN HeaderBytes ELSE Ends(frames)[i - 1] + FrameBytes(frames[i])]
  BY <1>1 DEF Ends
<1> HIDE DEF Ends
<1> QED  BY <1>2

-----------------------------------------------------------------------------
(* Sequences of sequences, and the plaintext of compressed bytes.          *)

\* Joined gives sequences over the same set,
LEMMA JoinedType ==
    ASSUME NEW X, NEW ss, Len(ss) \in Nat, \A i \in 1 .. Len(ss) : ss[i] \in Seq(X)
    PROVE  \A i \in 0 .. Len(ss) : Joined(ss)[i] \in Seq(X)
<1> DEFINE T == {n \in Nat : Joined(ss)[n] \in Seq(X)}
<1>1. 0 \in T
  <2>1. Joined(ss)[0] = <<>>
    BY JoinedSteps
  <2>2. <<>> \in Seq(X)
    OBVIOUS
  <2> QED  BY <2>1, <2>2
<1>2. ASSUME NEW n \in 0 .. Len(ss) - 1, n \in T PROVE n + 1 \in T
  <2>1. n + 1 \in 1 .. Len(ss) /\ (n + 1) - 1 = n
    OBVIOUS
  <2>2. Joined(ss)[n + 1] = Cat(Joined(ss)[n], ss[n + 1])
    BY <2>1, JoinedSteps
  <2>3. Joined(ss)[n] \in Seq(X) /\ ss[n + 1] \in Seq(X)
    BY <1>2, <2>1
  <2>4. Cat(Joined(ss)[n], ss[n + 1]) \in Seq(X)
    BY <2>3, CatIs
  <2> QED  BY <2>1, <2>2, <2>4
<1> HIDE DEF T
<1>3. \A n \in 0 .. Len(ss) : n \in T
  BY <1>1, <1>2, UpTo
<1> QED  BY <1>3 DEF T

\* which depend only on the sequences joined so far.
LEMMA JoinedSame ==
    ASSUME NEW ss, NEW tt, NEW N \in Nat, Len(ss) \in Nat, Len(tt) \in Nat,
           N <= Len(ss), N <= Len(tt), \A i \in 1 .. N : ss[i] = tt[i]
    PROVE  Joined(ss)[N] = Joined(tt)[N]
<1> DEFINE T == {n \in Nat : Joined(ss)[n] = Joined(tt)[n]}
<1>1. 0 \in T
  <2>1. Joined(ss)[0] = <<>> /\ Joined(tt)[0] = <<>>
    BY JoinedSteps
  <2> QED  BY <2>1
<1>2. ASSUME NEW n \in 0 .. N - 1, n \in T PROVE n + 1 \in T
  <2>1. n + 1 \in 1 .. Len(ss) /\ n + 1 \in 1 .. Len(tt) /\ n + 1 \in 1 .. N /\ (n + 1) - 1 = n
    OBVIOUS
  <2>2. /\ Joined(ss)[n + 1] = Cat(Joined(ss)[n], ss[n + 1])
        /\ Joined(tt)[n + 1] = Cat(Joined(tt)[n], tt[n + 1])
    BY <2>1, JoinedSteps
  <2>3. Joined(ss)[n] = Joined(tt)[n] /\ ss[n + 1] = tt[n + 1]
    BY <1>2, <2>1
  <2>4. Joined(ss)[n + 1] = Joined(tt)[n + 1]
    BY <2>2, <2>3, Zenon
  <2> QED  BY <2>1, <2>4
<1> HIDE DEF T
<1>3. \A n \in 0 .. N : n \in T
  BY <1>1, <1>2, UpTo
<1> QED  BY <1>3 DEF T

\* One sequence more.
LEMMA ConcatAppend ==
    ASSUME NEW X, NEW ss, NEW tt, NEW t \in Seq(X), Len(ss) \in Nat,
           \A i \in 1 .. Len(ss) : ss[i] \in Seq(X), Len(tt) = Len(ss) + 1,
           \A i \in 1 .. Len(ss) : tt[i] = ss[i], tt[Len(ss) + 1] = t
    PROVE  Concat(tt) = Cat(Concat(ss), t) /\ Concat(ss) \in Seq(X)
<1>1. Len(ss) <= Len(ss) /\ Len(ss) <= Len(tt) /\ Len(tt) \in Nat
  OBVIOUS
<1>2. Joined(ss)[Len(ss)] = Joined(tt)[Len(ss)]
  BY <1>1, JoinedSame
<1>3. Len(ss) + 1 \in 1 .. Len(tt) /\ (Len(ss) + 1) - 1 = Len(ss)
  OBVIOUS
<1>4. Joined(tt)[Len(ss) + 1] = Cat(Joined(tt)[Len(ss)], tt[Len(ss) + 1])
  BY <1>1, <1>3, JoinedSteps
<1>5. Joined(ss)[Len(ss)] \in Seq(X)
  BY JoinedType
<1> QED  BY <1>2, <1>4, <1>5, Zenon DEF Concat

\* The sequences of two sequences.
LEMMA ConcatBoth ==
    ASSUME NEW X, NEW ss, NEW tt, NEW uu, Len(ss) \in Nat, Len(tt) \in Nat,
           \A i \in 1 .. Len(ss) : ss[i] \in Seq(X) /\ uu[i] = ss[i],
           \A i \in 1 .. Len(tt) : tt[i] \in Seq(X) /\ uu[Len(ss) + i] = tt[i],
           Len(uu) = Len(ss) + Len(tt)
    PROVE  Concat(uu) = Cat(Concat(ss), Concat(tt))
<1> DEFINE T == {n \in Nat : Joined(uu)[Len(ss) + n] = Cat(Concat(ss), Joined(tt)[n])}
<1>1. Concat(ss) \in Seq(X)
  BY JoinedType DEF Concat
<1>2. 0 \in T
  <2>1. Len(ss) <= Len(ss) /\ Len(ss) <= Len(uu) /\ Len(uu) \in Nat
    OBVIOUS
  <2>2. Joined(uu)[Len(ss)] = Concat(ss)
    BY <2>1, JoinedSame DEF Concat
  <2>3. Joined(tt)[0] = <<>>
    BY JoinedSteps
  <2>4. Cat(Concat(ss), <<>>) = Concat(ss)
    BY <1>1, CatEmpty
  <2>5. Len(ss) + 0 = Len(ss)
    OBVIOUS
  <2>6. Joined(uu)[Len(ss) + 0] = Cat(Concat(ss), Joined(tt)[0])
    BY <2>2, <2>3, <2>4, <2>5, Zenon
  <2> QED  BY <2>6
<1>3. ASSUME NEW n \in 0 .. Len(tt) - 1, n \in T PROVE n + 1 \in T
  <2>1. /\ n + 1 \in 1 .. Len(tt) /\ (n + 1) - 1 = n /\ n \in 0 .. Len(tt)
        /\ Len(ss) + (n + 1) \in 1 .. Len(uu) /\ (Len(ss) + (n + 1)) - 1 = Len(ss) + n
        /\ Len(uu) \in Nat
    OBVIOUS
  <2>2. Joined(uu)[Len(ss) + (n + 1)] = Cat(Joined(uu)[Len(ss) + n], uu[Len(ss) + (n + 1)])
    <3>1. \A i \in 1 .. Len(uu) : Joined(uu)[i] = Cat(Joined(uu)[i - 1], uu[i])
      BY <2>1, JoinedSteps, Zenon
    <3> QED  BY <2>1, <3>1, Zenon
  <2>3. Joined(tt)[n + 1] = Cat(Joined(tt)[n], tt[n + 1])
    <3>1. \A i \in 1 .. Len(tt) : Joined(tt)[i] = Cat(Joined(tt)[i - 1], tt[i])
      BY JoinedSteps, Zenon
    <3> QED  BY <2>1, <3>1, Zenon
  <2>4. /\ Joined(uu)[Len(ss) + n] = Cat(Concat(ss), Joined(tt)[n])
        /\ uu[Len(ss) + (n + 1)] = tt[n + 1]
    BY <1>3, <2>1
  <2>5. Joined(tt)[n] \in Seq(X) /\ tt[n + 1] \in Seq(X)
    BY <2>1, JoinedType
  <2>6. Cat(Cat(Concat(ss), Joined(tt)[n]), tt[n + 1]) = Cat(Concat(ss), Cat(Joined(tt)[n], tt[n + 1]))
    BY <1>1, <2>5, CatAssociative
  <2>7. Joined(uu)[Len(ss) + (n + 1)] = Cat(Concat(ss), Joined(tt)[n + 1])
    BY <2>2, <2>3, <2>4, <2>6, Zenon
  <2>8. n + 1 \in Nat
    BY <2>1
  <2> QED  BY <2>7, <2>8
<1> HIDE DEF T
<1>4. \A n \in 0 .. Len(tt) : n \in T
  BY <1>2, <1>3, UpTo
<1>5. Joined(uu)[Len(ss) + Len(tt)] = Cat(Concat(ss), Joined(tt)[Len(tt)])
  BY <1>4 DEF T
<1> QED  BY <1>5 DEF Concat

\* Units are the plaintext of the bytes, byte by byte.
UnitList(S) == [i \in 1 .. Len(S) |-> S[i].units]

LEMMA UnitListIs ==
    ASSUME NEW S \in Seq(Bytes)
    PROVE  /\ Len(UnitList(S)) = Len(S) /\ Len(S) \in Nat
           /\ \A i \in 1 .. Len(S) : UnitList(S)[i] = S[i].units /\ S[i].units \in Seq(PlainBytes)
           /\ Units(S) = Concat(UnitList(S))
<1>1. Len(S) \in Nat /\ \A i \in 1 .. Len(S) : S[i] \in Bytes
  OBVIOUS
<1>2. \A i \in 1 .. Len(S) : S[i].units \in Seq(PlainBytes)
  BY <1>1 DEF Bytes
<1>3. Len(UnitList(S)) = Len(S)
  BY <1>1 DEF UnitList
<1>4. \A i \in 1 .. Len(S) : UnitList(S)[i] = S[i].units
  BY <1>1 DEF UnitList
<1>5. Units(S) = Concat(UnitList(S))
  BY DEF Units, UnitList
<1> QED  BY <1>1, <1>2, <1>3, <1>4, <1>5

LEMMA UnitsType ==
    ASSUME NEW S \in Seq(Bytes)
    PROVE  Units(S) \in Seq(PlainBytes)
<1> DEFINE u == UnitList(S)
<1>1. Len(u) \in Nat /\ Units(S) = Concat(u) /\ \A i \in 1 .. Len(u) : u[i] \in Seq(PlainBytes)
  BY UnitListIs
<1> HIDE DEF u
<1>2. Joined(u)[Len(u)] \in Seq(PlainBytes)
  BY <1>1, JoinedType
<1> QED  BY <1>1, <1>2 DEF Concat

\* The plaintext of two streams one after the other.
LEMMA UnitsConcat ==
    ASSUME NEW S \in Seq(Bytes), NEW T \in Seq(Bytes)
    PROVE  Units(Cat(S, T)) = Cat(Units(S), Units(T))
<1>1. /\ Cat(S, T) \in Seq(Bytes) /\ Len(Cat(S, T)) = Len(S) + Len(T) /\ Len(S) \in Nat /\ Len(T) \in Nat
      /\ \A i \in 1 .. Len(S) : Cat(S, T)[i] = S[i]
      /\ \A i \in 1 .. Len(T) : Cat(S, T)[Len(S) + i] = T[i]
  <2>1. Len(S) \in Nat /\ Len(T) \in Nat
    OBVIOUS
  <2>2. Cat(S, T) \in Seq(Bytes) /\ Len(Cat(S, T)) = Len(S) + Len(T)
    BY CatIs
  <2>3. \A i \in 1 .. Len(S) : Cat(S, T)[i] = S[i]
    BY CatIs
  <2>4. \A i \in 1 .. Len(T) : Cat(S, T)[Len(S) + i] = T[i]
    BY CatIs
  <2> QED  BY <2>1, <2>2, <2>3, <2>4
<1> DEFINE V == Cat(S, T)
<1> HIDE DEF V
<1>2. /\ V \in Seq(Bytes) /\ Len(V) = Len(S) + Len(T)
      /\ \A i \in 1 .. Len(S) : V[i] = S[i]
      /\ \A i \in 1 .. Len(T) : V[Len(S) + i] = T[i]
  BY <1>1 DEF V
<1> DEFINE u == UnitList(S)
           v == UnitList(T)
           x == UnitList(V)
<1>3. /\ Len(u) = Len(S) /\ \A i \in 1 .. Len(S) : u[i] = S[i].units /\ u[i] \in Seq(PlainBytes)
      /\ Len(v) = Len(T) /\ \A i \in 1 .. Len(T) : v[i] = T[i].units /\ v[i] \in Seq(PlainBytes)
      /\ Len(x) = Len(V) /\ \A i \in 1 .. Len(V) : x[i] = V[i].units
      /\ Units(S) = Concat(u) /\ Units(T) = Concat(v) /\ Units(V) = Concat(x)
  BY <1>2, UnitListIs
<1> HIDE DEF u, v, x
<1>4. \A i \in 1 .. Len(T) : Len(S) + i \in 1 .. Len(V)
  BY <1>1, <1>2
<1>5. \A i \in 1 .. Len(S) : i \in 1 .. Len(V)
  BY <1>1, <1>2
<1>6. Concat(x) = Cat(Concat(u), Concat(v))
  <2>1. \A i \in 1 .. Len(u) : u[i] \in Seq(PlainBytes) /\ x[i] = u[i]
    BY <1>2, <1>3, <1>5
  <2>2. ASSUME NEW i \in 1 .. Len(v) PROVE v[i] \in Seq(PlainBytes) /\ x[Len(u) + i] = v[i]
    <3>1. i \in 1 .. Len(T) /\ Len(S) + i \in 1 .. Len(V)
      BY <1>3, <1>4
    <3>2. x[Len(S) + i] = V[Len(S) + i].units /\ V[Len(S) + i] = T[i] /\ v[i] = T[i].units
      BY <1>2, <1>3, <3>1
    <3> QED  BY <1>3, <3>1, <3>2
  <2>3. Len(u) \in Nat /\ Len(v) \in Nat /\ Len(x) = Len(u) + Len(v)
    BY <1>1, <1>2, <1>3
  <2>4. /\ \A i \in 1 .. Len(u) : u[i] \in Seq(PlainBytes) /\ x[i] = u[i]
        /\ \A i \in 1 .. Len(v) : v[i] \in Seq(PlainBytes) /\ x[Len(u) + i] = v[i]
    BY <2>1, <2>2, Zenon
  <2> QED  BY <2>3, <2>4, ConcatBoth, SMTT(30)
<1> QED  BY <1>3, <1>6 DEF V

\* Bytes that complete nothing.
LEMMA UnitsNone ==
    ASSUME NEW S \in Seq(Bytes), \A i \in 1 .. Len(S) : S[i].units = <<>>
    PROVE  Units(S) = <<>>
<1> DEFINE u == UnitList(S)
           T == {n \in Nat : Joined(u)[n] = <<>>}
<1>1. Len(u) = Len(S) /\ Len(u) \in Nat /\ \A i \in 1 .. Len(u) : u[i] = <<>>
  BY UnitListIs
<1>2. Units(S) = Joined(u)[Len(u)]
  BY UnitListIs DEF Concat
<1> HIDE DEF u
<1>3. 0 \in T
  <2>1. Joined(u)[0] = <<>>
    BY <1>1, JoinedSteps
  <2> QED  BY <2>1
<1>4. ASSUME NEW n \in 0 .. Len(u) - 1, n \in T PROVE n + 1 \in T
  <2>1. n + 1 \in 1 .. Len(u) /\ (n + 1) - 1 = n /\ n + 1 \in Nat
    BY <1>1
  <2>2. Joined(u)[n + 1] = Cat(Joined(u)[n], u[n + 1])
    BY <1>1, <2>1, JoinedSteps
  <2>3. Joined(u)[n] = <<>> /\ u[n + 1] = <<>>
    BY <1>1, <1>4, <2>1
  <2>4. Cat(<<>>, <<>>) = <<>>
    BY CatEmpty, EmptySeq
  <2>5. Joined(u)[n + 1] = <<>>
    BY <2>2, <2>3, <2>4, Zenon
  <2> QED  BY <2>1, <2>5
<1> HIDE DEF T
<1>5. \A n \in 0 .. Len(u) : n \in T
  BY <1>1, <1>3, <1>4, UpTo
<1> QED  BY <1>1, <1>2, <1>5 DEF T

\* Of bytes that complete nothing but the last.
LEMMA UnitsLast ==
    ASSUME NEW S \in Seq(Bytes), S # <<>>, \A i \in 1 .. Len(S) - 1 : S[i].units = <<>>
    PROVE  Units(S) = S[Len(S)].units
<1> DEFINE u == UnitList(S)
           R == SubSeq(S, 1, Len(S) - 1)
           v == UnitList(R)
<1>1. Len(S) \in Nat /\ Len(S) > 0
  BY EmptySeq
<1>2. /\ R \in Seq(Bytes) /\ Len(R) = Len(S) - 1
      /\ \A i \in 1 .. Len(S) - 1 : R[i] = S[i]
  <2> DEFINE k == Len(S) - 1
  <2>1. k \in Nat /\ k <= Len(S)
    BY <1>1
  <2> HIDE DEF k
  <2>2. /\ SubSeq(S, 1, k) \in Seq(Bytes) /\ Len(SubSeq(S, 1, k)) = k
        /\ \A i \in 1 .. k : SubSeq(S, 1, k)[i] = S[i]
    BY <1>1, <2>1
  <2> QED  BY <2>2 DEF k
<1>3. Units(R) = <<>>
  BY <1>2, UnitsNone
<1>4. /\ Len(u) = Len(S) /\ \A i \in 1 .. Len(S) : u[i] = S[i].units /\ u[i] \in Seq(PlainBytes)
      /\ Units(S) = Concat(u)
  BY UnitListIs
<1>5. /\ Len(v) = Len(R) /\ \A i \in 1 .. Len(R) : v[i] = R[i].units /\ v[i] \in Seq(PlainBytes)
      /\ Units(R) = Concat(v)
  BY <1>2, UnitListIs
<1> DEFINE t == S[Len(S)].units
<1>6. t \in Seq(PlainBytes) /\ u[Len(S)] = t
  BY <1>1, <1>4
<1> HIDE DEF u, v, R, t
<1>7. Concat(u) = Cat(Concat(v), t)
  <2>1. Len(v) \in Nat /\ Len(u) = Len(v) + 1 /\ Len(v) + 1 = Len(S)
    BY <1>1, <1>2, <1>4, <1>5
  <2>2. ASSUME NEW i \in 1 .. Len(v) PROVE v[i] \in Seq(PlainBytes) /\ u[i] = v[i]
    <3>1. i \in 1 .. Len(R) /\ i \in 1 .. Len(S) - 1 /\ i \in 1 .. Len(S)
      BY <1>1, <1>2, <1>5
    <3>2. R[i] = S[i] /\ u[i] = S[i].units
      BY <1>2, <1>4, <3>1
    <3>3. v[i] = R[i].units /\ v[i] \in Seq(PlainBytes)
      BY <1>5, <3>1, Zenon
    <3> QED  BY <3>2, <3>3, Zenon
  <2>3. u[Len(v) + 1] = t
    BY <1>6, <2>1
  <2>4. /\ \A i \in 1 .. Len(v) : v[i] \in Seq(PlainBytes)
        /\ \A i \in 1 .. Len(v) : u[i] = v[i]
    BY <2>2, Zenon
  <2> QED  BY <1>6, <2>1, <2>3, <2>4, ConcatAppend, ZenonT(60)
<1>8. Cat(<<>>, t) = t
  BY <1>6, CatEmpty
<1>9. Concat(v) = <<>> /\ Units(S) = Concat(u)
  BY <1>3, <1>4, <1>5
<1> QED  BY <1>7, <1>8, <1>9, Zenon DEF t

\* The bytes up to n, and those after them up to m.
LEMMA SubSeqSplit ==
    ASSUME NEW X, NEW S \in Seq(X), NEW n \in Nat, NEW m \in Nat, n <= m, m <= Len(S)
    PROVE  /\ SubSeq(S, 1, m) = Cat(SubSeq(S, 1, n), SubSeq(S, n + 1, m))
           /\ SubSeq(S, 1, m) \in Seq(X) /\ SubSeq(S, 1, n) \in Seq(X)
           /\ SubSeq(S, n + 1, m) \in Seq(X) /\ Len(SubSeq(S, n + 1, m)) = m - n
           /\ Len(SubSeq(S, 1, n)) = n
           /\ \A i \in 1 .. m - n : SubSeq(S, n + 1, m)[i] = S[n + i]
           /\ \A i \in 1 .. n : SubSeq(S, 1, n)[i] = S[i]
<1> DEFINE a == SubSeq(S, 1, n)
           b == SubSeq(S, n + 1, m)
           c == SubSeq(S, 1, m)
<1>1. Len(S) \in Nat
  OBVIOUS
<1>2. a \in Seq(X) /\ Len(a) = n /\ \A i \in 1 .. n : a[i] = S[i]
  BY <1>1
<1>3. c \in Seq(X) /\ Len(c) = m /\ \A i \in 1 .. m : c[i] = S[i]
  BY <1>1
<1>4. b \in Seq(X) /\ Len(b) = m - n /\ \A i \in 1 .. m - n : b[i] = S[n + i]
  BY <1>1
<1> HIDE DEF a, b, c
<1>5. /\ Cat(a, b) \in Seq(X) /\ Len(Cat(a, b)) = m
      /\ \A i \in 1 .. n : Cat(a, b)[i] = a[i]
      /\ \A i \in 1 .. m - n : Cat(a, b)[n + i] = b[i]
  <2>1. n + (m - n) = m
    OBVIOUS
  <2>2. a \in Seq(X) /\ b \in Seq(X)
    BY <1>2, <1>4
  <2>3. Cat(a, b) \in Seq(X) /\ Len(Cat(a, b)) = Len(a) + Len(b)
    BY <2>2, CatIs, Zenon
  <2>4. \A i \in 1 .. Len(a) : Cat(a, b)[i] = a[i]
    BY <2>2, CatIs, Zenon
  <2>5. \A i \in 1 .. Len(b) : Cat(a, b)[Len(a) + i] = b[i]
    <3> SUFFICES ASSUME NEW i \in 1 .. Len(b) PROVE Cat(a, b)[Len(a) + i] = b[i]
      OBVIOUS
    <3> QED  BY <2>2, CatSecond, Zenon
  <2>6. Len(Cat(a, b)) = m
    BY <1>2, <1>4, <2>1, <2>3
  <2>7. \A i \in 1 .. n : Cat(a, b)[i] = a[i]
    BY <1>2, <2>4, Zenon
  <2>8. \A i \in 1 .. m - n : Cat(a, b)[n + i] = b[i]
    BY <1>2, <1>4, <2>5, Zenon
  <2> QED  BY <2>3, <2>6, <2>7, <2>8
<1>6. \A i \in 1 .. m : Cat(a, b)[i] = c[i]
  <2> SUFFICES ASSUME NEW i \in 1 .. m PROVE Cat(a, b)[i] = c[i]
    OBVIOUS
  <2>1. CASE i <= n
    BY <1>2, <1>3, <1>5, <2>1
  <2>2. CASE ~(i <= n)
    <3>1. i - n \in 1 .. m - n /\ n + (i - n) = i
      BY <2>2
    <3>2. Cat(a, b)[n + (i - n)] = b[i - n] /\ b[i - n] = S[n + (i - n)]
      BY <1>4, <1>5, <3>1
    <3> QED  BY <1>3, <3>1, <3>2
  <2> QED  BY <2>1, <2>2
<1>7. c = Cat(a, b)
  BY <1>3, <1>5, <1>6, SeqEqual
<1> QED  BY <1>2, <1>3, <1>4, <1>7 DEF a, b, c

\* The plaintext of the first m bytes, split after the first n.
LEMMA UnitsSplit ==
    ASSUME NEW S \in Seq(Bytes), NEW n \in Nat, NEW m \in Nat, n <= m, m <= Len(S)
    PROVE  /\ Units(SubSeq(S, 1, m)) = Cat(Units(SubSeq(S, 1, n)), Units(SubSeq(S, n + 1, m)))
           /\ Units(SubSeq(S, 1, m)) \in Seq(PlainBytes)
           /\ Units(SubSeq(S, 1, n)) \in Seq(PlainBytes)
           /\ Units(SubSeq(S, n + 1, m)) \in Seq(PlainBytes)
<1> DEFINE a == SubSeq(S, 1, n)
           b == SubSeq(S, n + 1, m)
           c == SubSeq(S, 1, m)
<1>1. c = Cat(a, b) /\ a \in Seq(Bytes) /\ b \in Seq(Bytes) /\ c \in Seq(Bytes)
  BY SubSeqSplit
<1> HIDE DEF a, b, c
<1>2. Units(Cat(a, b)) = Cat(Units(a), Units(b))
  BY <1>1, UnitsConcat
<1>3. Units(a) \in Seq(PlainBytes) /\ Units(b) \in Seq(PlainBytes) /\ Units(c) \in Seq(PlainBytes)
  BY <1>1, UnitsType
<1>4. Units(c) = Cat(Units(a), Units(b))
  BY <1>1, <1>2, Zenon
<1> QED  BY <1>3, <1>4 DEF a, b, c

-----------------------------------------------------------------------------
(* Where frames end.                                                       *)

\* The fields and sizes of a frame.
LEMMA FrameIs ==
    ASSUME NEW f \in AnyFrame
    PROVE  /\ Len(f.body) \in Nat /\ f.body \in Seq(Bytes) /\ f.index \in Nat /\ f.final \in BOOLEAN
           /\ FrameLength(f) \in Nat /\ FrameLength(f) = Len(f.body) + TagBytes
           /\ FrameBytes(f) \in Nat /\ FrameBytes(f) = LengthBytes + FrameLength(f)
           /\ FrameBytes(f) > LengthBytes
           /\ f = Frame(f.obj, f.index, f.final, f.body)
<1>1. f.body \in Seq(Bytes) /\ f.index \in Nat /\ f.final \in BOOLEAN
  BY DEF AnyFrame
<1>2. Len(f.body) \in Nat
  BY <1>1
<1>3. f = Frame(f.obj, f.index, f.final, f.body)
  BY DEF AnyFrame, Frame
<1>4. TagBytes \in Nat /\ TagBytes > 0 /\ LengthBytes \in Nat
  BY ConstantsAssumption
<1> QED  BY <1>1, <1>2, <1>3, <1>4 DEF FrameLength, FrameBytes

LEMMA FramesAre ==
    ASSUME NEW fs \in Seq(AnyFrame)
    PROVE  /\ Len(fs) \in Nat
           /\ \A i \in 1 .. Len(fs) :
                fs[i] \in AnyFrame /\ FrameBytes(fs[i]) \in Nat /\ FrameBytes(fs[i]) > LengthBytes
<1>1. Len(fs) \in Nat /\ \A i \in 1 .. Len(fs) : fs[i] \in AnyFrame
  OBVIOUS
<1> QED  BY <1>1, FrameIs

\* Each frame ends its own bytes after the one before it.
LEMMA EndsStep ==
    ASSUME NEW fs \in Seq(AnyFrame)
    PROVE  /\ Ends(fs)[0] = HeaderBytes
           /\ \A i \in 0 .. Len(fs) - 1 : Ends(fs)[i + 1] = Ends(fs)[i] + FrameBytes(fs[i + 1])
<1>1. Len(fs) \in Nat
  OBVIOUS
<1>2. /\ Ends(fs)[0] = HeaderBytes
      /\ \A i \in 1 .. Len(fs) : Ends(fs)[i] = Ends(fs)[i - 1] + FrameBytes(fs[i])
  BY <1>1, EndsSteps
<1>3. ASSUME NEW i \in 0 .. Len(fs) - 1
      PROVE  Ends(fs)[i + 1] = Ends(fs)[i] + FrameBytes(fs[i + 1])
  <2>1. i + 1 \in 1 .. Len(fs) /\ (i + 1) - 1 = i
    BY <1>1
  <2> QED  BY <1>2, <2>1
<1> QED  BY <1>2, <1>3

\* Every frame ends at a byte behind the header.
LEMMA EndsType ==
    ASSUME NEW fs \in Seq(AnyFrame)
    PROVE  \A i \in 0 .. Len(fs) : Ends(fs)[i] \in Nat /\ HeaderBytes <= Ends(fs)[i]
<1> DEFINE T == {n \in Nat : Ends(fs)[n] \in Nat /\ HeaderBytes <= Ends(fs)[n]}
<1>1. Len(fs) \in Nat /\ HeaderBytes \in Nat /\ LengthBytes \in Nat
  BY ConstantsAssumption
<1>2. 0 \in T
  <2>1. Ends(fs)[0] = HeaderBytes
    BY EndsStep
  <2> QED  BY <1>1, <2>1
<1>3. ASSUME NEW n \in 0 .. Len(fs) - 1, n \in T PROVE n + 1 \in T
  <2>1. n + 1 \in 1 .. Len(fs) /\ n + 1 \in Nat
    BY <1>1
  <2>2. Ends(fs)[n + 1] = Ends(fs)[n] + FrameBytes(fs[n + 1])
    BY EndsStep
  <2>3. FrameBytes(fs[n + 1]) \in Nat
    BY <2>1, FramesAre
  <2>4. Ends(fs)[n] \in Nat /\ HeaderBytes <= Ends(fs)[n]
    BY <1>3
  <2> QED  BY <1>1, <2>1, <2>2, <2>3, <2>4
<1> HIDE DEF T
<1>4. \A n \in 0 .. Len(fs) : n \in T
  BY <1>1, <1>2, <1>3, UpTo
<1> QED  BY <1>4 DEF T

\* A frame that comes before another ends before that one begins.
LEMMA EndsOrder ==
    ASSUME NEW fs \in Seq(AnyFrame), NEW i \in 0 .. Len(fs), NEW j \in 0 .. Len(fs), i < j
    PROVE  Ends(fs)[i] + FrameBytes(fs[i + 1]) <= Ends(fs)[j]
<1> DEFINE T == {n \in Nat : i < n => Ends(fs)[i] + FrameBytes(fs[i + 1]) <= Ends(fs)[n]}
<1>1. Len(fs) \in Nat /\ LengthBytes \in Nat
  BY ConstantsAssumption
<1>2. 0 \in T
  BY <1>1
<1>3. ASSUME NEW n \in 0 .. Len(fs) - 1, n \in T PROVE n + 1 \in T
  <2>1. n + 1 \in 1 .. Len(fs) /\ n + 1 \in Nat /\ n \in 0 .. Len(fs) /\ i + 1 \in 1 .. Len(fs)
    BY <1>1
  <2>2. Ends(fs)[n + 1] = Ends(fs)[n] + FrameBytes(fs[n + 1])
    BY EndsStep
  <2>3. FrameBytes(fs[n + 1]) \in Nat /\ FrameBytes(fs[i + 1]) \in Nat
    BY <2>1, FramesAre
  <2>4. Ends(fs)[n] \in Nat /\ Ends(fs)[i] \in Nat
    BY <2>1, EndsType
  <2>5. CASE i < n
    <3>1. Ends(fs)[i] + FrameBytes(fs[i + 1]) <= Ends(fs)[n]
      BY <1>3, <2>5
    <3> QED  BY <2>1, <2>2, <2>3, <2>4, <3>1
  <2>6. CASE i = n
    BY <2>1, <2>2, <2>3, <2>4, <2>6
  <2>7. CASE n < i
    BY <1>1, <2>1, <2>7
  <2> QED  BY <1>1, <2>1, <2>5, <2>6, <2>7
<1> HIDE DEF T
<1>4. j \in T
  <2>1. \A n \in 0 .. Len(fs) : n \in T
    BY <1>1, <1>2, <1>3, UpTo
  <2> QED  BY <2>1
<1> QED  BY <1>4 DEF T

\* Frames that agree up to N end at the same places up to N.
LEMMA EndsSame ==
    ASSUME NEW fs \in Seq(AnyFrame), NEW gs \in Seq(AnyFrame), NEW N \in Nat,
           N <= Len(fs), N <= Len(gs), \A i \in 1 .. N : fs[i] = gs[i]
    PROVE  \A i \in 0 .. N : Ends(fs)[i] = Ends(gs)[i]
<1> DEFINE T == {n \in Nat : Ends(fs)[n] = Ends(gs)[n]}
<1>1. Len(fs) \in Nat /\ Len(gs) \in Nat
  OBVIOUS
<1>2. 0 \in T
  BY EndsStep
<1>3. ASSUME NEW n \in 0 .. N - 1, n \in T PROVE n + 1 \in T
  <2>1. n \in 0 .. Len(fs) - 1 /\ n \in 0 .. Len(gs) - 1 /\ n + 1 \in 1 .. N /\ n + 1 \in Nat
    BY <1>1
  <2>2. /\ Ends(fs)[n + 1] = Ends(fs)[n] + FrameBytes(fs[n + 1])
        /\ Ends(gs)[n + 1] = Ends(gs)[n] + FrameBytes(gs[n + 1])
    BY <2>1, EndsStep
  <2>3. fs[n + 1] = gs[n + 1] /\ Ends(fs)[n] = Ends(gs)[n]
    BY <1>3, <2>1
  <2>4. Ends(fs)[n + 1] = Ends(gs)[n + 1]
    BY <2>2, <2>3, Zenon
  <2> QED  BY <2>1, <2>4
<1> HIDE DEF T
<1>4. \A n \in 0 .. N : n \in T
  BY <1>2, <1>3, UpTo
<1> QED  BY <1>4 DEF T

\* One frame more.
LEMMA EndsAppend ==
    ASSUME NEW fs \in Seq(AnyFrame), NEW f \in AnyFrame
    PROVE  /\ Append(fs, f) \in Seq(AnyFrame) /\ Len(Append(fs, f)) = Len(fs) + 1
           /\ Append(fs, f)[Len(fs) + 1] = f
           /\ \A i \in 1 .. Len(fs) : Append(fs, f)[i] = fs[i]
           /\ \A i \in 0 .. Len(fs) : Ends(Append(fs, f))[i] = Ends(fs)[i]
           /\ Ends(Append(fs, f))[Len(fs) + 1] = Ends(fs)[Len(fs)] + FrameBytes(f)
<1> DEFINE gs == Append(fs, f)
<1>1. Len(fs) \in Nat
  OBVIOUS
<1>2. /\ gs \in Seq(AnyFrame) /\ Len(gs) = Len(fs) + 1 /\ gs[Len(fs) + 1] = f
      /\ \A i \in 1 .. Len(fs) : gs[i] = fs[i]
  BY <1>1
<1> HIDE DEF gs
<1>3. \A i \in 0 .. Len(fs) : Ends(fs)[i] = Ends(gs)[i]
  <2>1. Len(fs) <= Len(fs) /\ Len(fs) <= Len(gs)
    BY <1>1, <1>2
  <2> QED  BY <1>1, <1>2, <2>1, EndsSame
<1>4. Len(fs) \in 0 .. Len(gs) - 1 /\ Len(fs) \in 0 .. Len(fs)
  BY <1>1, <1>2
<1>5. Ends(gs)[Len(fs) + 1] = Ends(gs)[Len(fs)] + FrameBytes(gs[Len(fs) + 1])
  BY <1>2, <1>4, EndsStep
<1>6. Ends(gs)[Len(fs)] = Ends(fs)[Len(fs)]
  BY <1>3, <1>4
<1>7. Ends(gs)[Len(fs) + 1] = Ends(fs)[Len(fs)] + FrameBytes(f)
  BY <1>2, <1>5, <1>6, Zenon
<1> QED  BY <1>2, <1>3, <1>7 DEF gs

\* One frame instead of another.
Replaced(gs, fs, k, g) ==
    /\ gs \in Seq(AnyFrame) /\ Len(gs) = Len(fs) /\ gs[k] = g
    /\ \A i \in 1 .. Len(fs) : i # k => gs[i] = fs[i]
    /\ \A i \in 0 .. Len(fs) :
          Ends(gs)[i] = IF i < k THEN Ends(fs)[i]
                        ELSE Ends(fs)[i] + FrameBytes(g) - FrameBytes(fs[k])

\* One frame replaced by another: those behind it move by the difference.
LEMMA EndsReplace ==
    ASSUME NEW fs \in Seq(AnyFrame), NEW k \in 1 .. Len(fs), NEW g \in AnyFrame, NEW gs,
           gs = ReplaceAt(fs, k, g)
    PROVE  Replaced(gs, fs, k, g)
<1>1. Len(fs) \in Nat /\ FrameBytes(g) \in Nat /\ FrameBytes(fs[k]) \in Nat
  BY FramesAre, FrameIs
<1>2. /\ gs \in Seq(AnyFrame) /\ Len(gs) = Len(fs) /\ gs[k] = g
      /\ \A i \in 1 .. Len(fs) : i # k => gs[i] = fs[i]
  BY DEF ReplaceAt
<1> DEFINE D(i) == IF i < k THEN Ends(fs)[i] ELSE Ends(fs)[i] + FrameBytes(g) - FrameBytes(fs[k])
           T == {n \in Nat : Ends(gs)[n] = D(n)}
<1>3. 0 \in T
  <2>1. Ends(gs)[0] = HeaderBytes /\ Ends(fs)[0] = HeaderBytes
    BY <1>2, EndsStep
  <2> QED  BY <2>1
<1>4. ASSUME NEW n \in 0 .. Len(fs) - 1, n \in T PROVE n + 1 \in T
  <2>1. n \in 0 .. Len(gs) - 1 /\ n + 1 \in 1 .. Len(fs) /\ n + 1 \in Nat /\ n \in 0 .. Len(fs)
    BY <1>1, <1>2
  <2>2. /\ Ends(fs)[n + 1] = Ends(fs)[n] + FrameBytes(fs[n + 1])
        /\ Ends(gs)[n + 1] = Ends(gs)[n] + FrameBytes(gs[n + 1])
    BY <1>2, <2>1, EndsStep
  <2>3. Ends(gs)[n] = D(n)
    BY <1>4
  <2>4. Ends(fs)[n] \in Nat /\ FrameBytes(fs[n + 1]) \in Nat
    BY <2>1, EndsType, FramesAre
  <2>5. CASE n + 1 < k
    <3>1. gs[n + 1] = fs[n + 1]
      BY <1>2, <2>1, <2>5
    <3>2. Ends(gs)[n + 1] = Ends(fs)[n] + FrameBytes(fs[n + 1])
      BY <2>1, <2>2, <2>3, <2>5, <3>1
    <3> QED  BY <2>1, <2>2, <2>5, <3>2
  <2>6. CASE n + 1 = k
    BY <1>1, <1>2, <2>1, <2>2, <2>3, <2>4, <2>6
  <2>7. CASE n + 1 > k
    <3>1. gs[n + 1] = fs[n + 1]
      BY <1>2, <2>1, <2>7
    <3>2. Ends(gs)[n + 1] = Ends(fs)[n] + FrameBytes(g) - FrameBytes(fs[k]) + FrameBytes(fs[n + 1])
      BY <2>1, <2>2, <2>3, <2>7, <3>1
    <3>3. Ends(gs)[n + 1] = Ends(fs)[n + 1] + FrameBytes(g) - FrameBytes(fs[k])
      BY <1>1, <2>2, <2>4, <3>2
    <3> QED  BY <2>1, <2>7, <3>3
  <2> QED  BY <2>1, <2>5, <2>6, <2>7
<1> HIDE DEF T
<1>5. \A n \in 0 .. Len(fs) : n \in T
  BY <1>1, <1>3, <1>4, UpTo
<1> QED  BY <1>2, <1>5 DEF T, Replaced

\* One frame less.
Removed(gs, fs, k) ==
    /\ gs \in Seq(AnyFrame) /\ Len(gs) = Len(fs) - 1
    /\ \A i \in 1 .. Len(fs) - 1 : gs[i] = IF i < k THEN fs[i] ELSE fs[i + 1]
    /\ \A i \in 0 .. Len(fs) - 1 :
          Ends(gs)[i] = IF i < k THEN Ends(fs)[i]
                        ELSE Ends(fs)[i + 1] - FrameBytes(fs[k])

\* One frame removed: those behind it move up.
LEMMA EndsRemove ==
    ASSUME NEW fs \in Seq(AnyFrame), NEW k \in 1 .. Len(fs), NEW gs,
           gs = RemoveAt(fs, k)
    PROVE  Removed(gs, fs, k)
<1> DEFINE a == SubSeq(fs, 1, k - 1)
           b == SubSeq(fs, k + 1, Len(fs))
<1>1. Len(fs) \in Nat /\ FrameBytes(fs[k]) \in Nat /\ k \in Nat
  BY FramesAre
<1>2. a \in Seq(AnyFrame) /\ Len(a) = k - 1 /\ \A i \in 1 .. k - 1 : a[i] = fs[i]
  BY <1>1
<1>3. b \in Seq(AnyFrame) /\ Len(b) = Len(fs) - k /\ \A i \in 1 .. Len(fs) - k : b[i] = fs[k + i]
  BY <1>1
<1>4. gs = Cat(a, b)
  BY Zenon DEF RemoveAt, Cat
<1> HIDE DEF a, b
<1>5. gs \in Seq(AnyFrame) /\ Len(gs) = Len(fs) - 1
  <2>1. Cat(a, b) \in Seq(AnyFrame) /\ Len(Cat(a, b)) = Len(a) + Len(b)
    BY <1>2, <1>3, CatIs
  <2> QED  BY <1>1, <1>2, <1>3, <1>4, <2>1
<1>6. ASSUME NEW i \in 1 .. Len(fs) - 1 PROVE gs[i] = IF i < k THEN fs[i] ELSE fs[i + 1]
  <2>1. a \in Seq(AnyFrame) /\ b \in Seq(AnyFrame)
    BY <1>2, <1>3
  <2>2. \A j \in 1 .. Len(a) : Cat(a, b)[j] = a[j]
    BY <2>1, CatIs
  <2>3. \A j \in 1 .. Len(b) : Cat(a, b)[Len(a) + j] = b[j]
    BY <2>1, CatIs
  <2>4. CASE i < k
    BY <1>2, <1>4, <2>2, <2>4
  <2>5. CASE ~(i < k)
    <3> DEFINE j == i - (k - 1)
    <3>1. j \in 1 .. Len(b) /\ Len(a) + j = i /\ k + j = i + 1
      BY <1>1, <1>2, <1>3, <2>5
    <3> HIDE DEF j
    <3>2. Cat(a, b)[Len(a) + j] = b[j] /\ b[j] = fs[k + j]
      BY <1>3, <2>3, <3>1
    <3> QED  BY <1>4, <2>5, <3>1, <3>2
  <2> QED  BY <2>4, <2>5
<1> DEFINE D(i) == IF i < k THEN Ends(fs)[i] ELSE Ends(fs)[i + 1] - FrameBytes(fs[k])
           T == {n \in Nat : Ends(gs)[n] = D(n)}
<1>7. 0 \in T
  <2>1. Ends(gs)[0] = HeaderBytes /\ Ends(fs)[0] = HeaderBytes
    BY <1>5, EndsStep
  <2> QED  BY <2>1
<1>8. ASSUME NEW n \in 0 .. (Len(fs) - 1) - 1, n \in T PROVE n + 1 \in T
  <2>1. /\ n \in 0 .. Len(gs) - 1 /\ n \in 0 .. Len(fs) - 1 /\ n + 1 \in 0 .. Len(fs) - 1
        /\ n + 1 \in 1 .. Len(fs) - 1 /\ n + 1 \in Nat /\ n \in 0 .. Len(fs) /\ n + 1 \in 0 .. Len(fs)
        /\ n + 1 \in 1 .. Len(fs) /\ (n + 1) + 1 \in 1 .. Len(fs)
    BY <1>1, <1>5
  <2>2. /\ Ends(fs)[n + 1] = Ends(fs)[n] + FrameBytes(fs[n + 1])
        /\ Ends(fs)[(n + 1) + 1] = Ends(fs)[n + 1] + FrameBytes(fs[(n + 1) + 1])
        /\ Ends(gs)[n + 1] = Ends(gs)[n] + FrameBytes(gs[n + 1])
    BY <1>5, <2>1, EndsStep
  <2>3. Ends(gs)[n] = D(n)
    BY <1>8
  <2>4. /\ Ends(fs)[n] \in Nat /\ Ends(fs)[n + 1] \in Nat
        /\ FrameBytes(fs[n + 1]) \in Nat /\ FrameBytes(fs[(n + 1) + 1]) \in Nat
    BY <2>1, EndsType, FramesAre
  <2>5. CASE n + 1 < k
    <3>1. gs[n + 1] = fs[n + 1]
      BY <1>6, <2>1, <2>5
    <3>2. Ends(gs)[n + 1] = Ends(fs)[n] + FrameBytes(fs[n + 1])
      BY <2>1, <2>2, <2>3, <2>5, <3>1
    <3> QED  BY <2>1, <2>2, <2>5, <3>2
  <2>6. CASE n + 1 = k
    <3>1. gs[n + 1] = fs[(n + 1) + 1]
      BY <1>6, <2>1, <2>6
    <3>2. Ends(gs)[n + 1] = Ends(fs)[n] + FrameBytes(fs[(n + 1) + 1])
      BY <2>1, <2>2, <2>3, <2>6, <3>1
    <3>3. FrameBytes(fs[n + 1]) = FrameBytes(fs[k]) /\ ~(n + 1 < k)
      BY <2>6
    <3>4. Ends(fs)[(n + 1) + 1] - FrameBytes(fs[n + 1]) = Ends(fs)[n] + FrameBytes(fs[(n + 1) + 1])
      BY <2>2, <2>4
    <3>5. Ends(gs)[n + 1] = Ends(fs)[(n + 1) + 1] - FrameBytes(fs[k])
      BY <3>2, <3>3, <3>4, Zenon
    <3> QED  BY <2>1, <3>3, <3>5
  <2>7. CASE n + 1 > k
    <3>1. gs[n + 1] = fs[(n + 1) + 1]
      BY <1>6, <2>1, <2>7
    <3>2. Ends(gs)[n + 1] = Ends(fs)[n + 1] - FrameBytes(fs[k]) + FrameBytes(fs[(n + 1) + 1])
      BY <2>1, <2>2, <2>3, <2>7, <3>1
    <3>3. Ends(gs)[n + 1] = Ends(fs)[(n + 1) + 1] - FrameBytes(fs[k])
      BY <1>1, <2>2, <2>4, <3>2
    <3> QED  BY <2>1, <2>7, <3>3
  <2> QED  BY <2>1, <2>5, <2>6, <2>7
<1> HIDE DEF T
<1>9. \A n \in 0 .. Len(fs) - 1 : n \in T
  <2>1. Len(fs) - 1 \in Nat
    BY <1>1
  <2> QED  BY <1>7, <1>8, <2>1, UpTo
<1> QED  BY <1>5, <1>6, <1>9 DEF T, Removed

\* The frames of another object after these.
Both(hs, fs, gs) ==
    /\ hs \in Seq(AnyFrame) /\ Len(hs) = Len(fs) + Len(gs) /\ Len(gs) \in Nat
    /\ \A i \in 1 .. Len(fs) : hs[i] = fs[i]
    /\ \A i \in 1 .. Len(gs) : hs[Len(fs) + i] = gs[i]

LEMMA FramesBoth ==
    ASSUME NEW fs \in Seq(AnyFrame), NEW gs \in Seq(AnyFrame), NEW hs, hs = Cat(fs, gs)
    PROVE  Both(hs, fs, gs)
<1>1. Len(fs) \in Nat /\ Len(gs) \in Nat
  OBVIOUS
<1>2. hs \in Seq(AnyFrame) /\ Len(hs) = Len(fs) + Len(gs)
  BY CatIs
<1>3. \A i \in 1 .. Len(fs) : hs[i] = fs[i]
  BY CatIs
<1>4. \A i \in 1 .. Len(gs) : hs[Len(fs) + i] = gs[i]
  <2>1. ASSUME NEW i \in 1 .. Len(gs) PROVE Cat(fs, gs)[Len(fs) + i] = gs[i]
    BY CatSecond
  <2> QED  BY <2>1, Zenon
<1> QED  BY <1>1, <1>2, <1>3, <1>4 DEF Both
-----------------------------------------------------------------------------
(* The frames of a stream.                                                 *)

\* The constants, as the provers need them.
LEMMA Sizes ==
    /\ BlockBytes \in Nat /\ BlockBytes > 0 /\ TagBytes \in Nat /\ TagBytes > 0
    /\ HeaderBytes \in Nat /\ HeaderBytes > 0 /\ ChunkBytes \in Nat /\ ChunkBytes > 0
    /\ ZstdHeader \in Nat /\ ZstdHeader > 0 /\ LengthBytes \in Nat /\ LengthBytes > 1
    /\ MaxCiphertext \in Nat /\ HeaderBytes <= MaxCiphertext /\ MaxPlaintext \in Nat
    /\ MaxCompressed \in Nat /\ MaxBlocks \in Nat /\ MaxSource \in Nat /\ MaxEmit \in Nat
    /\ MaxDamage \in Nat
BY ConstantsAssumption

\* Block k of a stream, counted from 0.
LEMMA Blocks ==
    ASSUME NEW k \in Nat
    PROVE  /\ k * BlockBytes \in Nat /\ (k + 1) * BlockBytes = k * BlockBytes + BlockBytes
           /\ \A n \in Nat : k * BlockBytes <= n /\ n < k * BlockBytes + BlockBytes
                <=> n \div BlockBytes = k
BY Sizes

\* Bytes i to j of a stream.
LEMMA PartIs ==
    ASSUME NEW X, NEW S \in Seq(X), NEW i \in Nat, NEW j \in Nat, i <= j, j <= Len(S)
    PROVE  /\ SubSeq(S, i + 1, j) \in Seq(X) /\ Len(SubSeq(S, i + 1, j)) = j - i
           /\ \A k \in 1 .. j - i : SubSeq(S, i + 1, j)[k] = S[i + k]
<1>1. Len(S) \in Nat
  OBVIOUS
<1> QED  BY <1>1

\* Each frame of a stream is a frame of its object.
LEMMA FramesOf ==
    ASSUME NEW obj \in {"mine", "other", "garbage"}, NEW S \in Seq(Bytes)
    PROVE  /\ Frames(obj, S) \in Seq(AnyFrame)
           /\ Len(Frames(obj, S)) = Len(S) \div BlockBytes + 1
           /\ \A i \in 1 .. Len(S) \div BlockBytes + 1 :
                 /\ Frames(obj, S)[i].index = i - 1
                 /\ Frames(obj, S)[i].final = (i = Len(S) \div BlockBytes + 1)
                 /\ FrameOf(Frames(obj, S)[i], obj, S)
<1> DEFINE full == Len(S) \div BlockBytes
<1>1. Len(S) \in Nat /\ full \in Nat
  BY Sizes
<1>2. full * BlockBytes <= Len(S) /\ Len(S) < full * BlockBytes + BlockBytes
  BY Sizes
<1> HIDE DEF full
<1>3. ASSUME NEW i \in 1 .. full + 1
      PROVE  /\ Frames(obj, S)[i] \in AnyFrame
             /\ Frames(obj, S)[i].index = i - 1 /\ Frames(obj, S)[i].final = (i = full + 1)
             /\ FrameOf(Frames(obj, S)[i], obj, S)
  <2> DEFINE k == i - 1
             m == IF i > full THEN Len(S) ELSE i * BlockBytes
             f == Frame(obj, k, i = full + 1, SubSeq(S, k * BlockBytes + 1, m))
  <2>1. Frames(obj, S)[i] = f
    BY DEF Frames, full
  <2>2. k \in Nat /\ k + 1 = i
    BY <1>1
  <2>3. k * BlockBytes \in Nat /\ i * BlockBytes = k * BlockBytes + BlockBytes
    BY <2>2, Blocks
  <2>4. k * BlockBytes <= m /\ m <= Len(S) /\ m \in Nat
        /\ (i # full + 1 => m = k * BlockBytes + BlockBytes)
        /\ (i = full + 1 => m = Len(S) /\ Len(S) < k * BlockBytes + BlockBytes)
    <3>1. CASE i = full + 1
      <4>1. k = full /\ m = Len(S)
        BY <1>1, <3>1
      <4> QED  BY <1>1, <1>2, <3>1, <4>1
    <3>2. CASE i # full + 1
      <4>1. i <= full /\ m = i * BlockBytes /\ i \in Nat
        BY <1>1, <3>2
      <4>2. i * BlockBytes <= full * BlockBytes
        BY <1>1, <4>1, Sizes
      <4>3. full * BlockBytes \in Nat
        BY <1>1, Blocks
      <4> QED  BY <1>1, <1>2, <2>3, <3>2, <4>1, <4>2, <4>3, Sizes
    <3> QED  BY <3>1, <3>2
  <2> HIDE DEF m, k
  <2>5. SubSeq(S, k * BlockBytes + 1, m) \in Seq(Bytes)
    BY <1>1, <2>3, <2>4, PartIs
  <2>6. f \in AnyFrame /\ f.obj = obj /\ f.index = k /\ f.final = (i = full + 1)
        /\ f.body = SubSeq(S, k * BlockBytes + 1, m)
    BY <2>2, <2>5 DEF AnyFrame, Frame
  <2> HIDE DEF f
  <2>7. k * BlockBytes <= Len(S)
    BY <1>1, <2>3, <2>4
  <2>8. CASE i = full + 1
    <3>1. f.final = TRUE /\ m = Len(S) /\ Len(S) < k * BlockBytes + BlockBytes
      BY <2>4, <2>6, <2>8
    <3>2. FrameOf(f, obj, S)
      BY <2>6, <2>7, <3>1 DEF FrameOf
    <3> QED  BY <2>1, <2>6, <3>2 DEF k
  <2>9. CASE i # full + 1
    <3>1. f.final = FALSE /\ m = k * BlockBytes + BlockBytes
      BY <2>4, <2>6, <2>9
    <3>2. FrameOf(f, obj, S)
      BY <1>1, <2>4, <2>6, <2>7, <3>1 DEF FrameOf
    <3> QED  BY <2>1, <2>6, <3>2 DEF k
  <2> QED  BY <2>8, <2>9
<1>4. /\ Frames(obj, S) \in Seq(AnyFrame) /\ Len(Frames(obj, S)) = full + 1
  <2>1. Frames(obj, S) = [i \in 1 .. full + 1 |-> Frames(obj, S)[i]]
    BY DEF Frames, full
  <2> DEFINE F == Frames(obj, S)
  <2> HIDE DEF F
  <2>2. F = [i \in 1 .. full + 1 |-> F[i]] /\ \A i \in 1 .. full + 1 : F[i] \in AnyFrame
    BY <1>3, <2>1 DEF F
  <2>3. full + 1 \in Nat
    BY <1>1
  <2>4. F \in Seq(AnyFrame) /\ Len(F) = full + 1
    BY <2>2, <2>3
  <2> QED  BY <2>4 DEF F
<1> QED  BY <1>3, <1>4 DEF full

\* A frame that is not the last stays one when the stream goes on.
LEMMA FrameStays ==
    ASSUME NEW obj, NEW f, NEW S \in Seq(Bytes), NEW E \in Seq(Bytes),
           FrameOf(f, obj, S), ~f.final
    PROVE  FrameOf(f, obj, Cat(S, E))
<1> DEFINE T == Cat(S, E)
           a == f.index * BlockBytes
           b == f.index * BlockBytes + BlockBytes
<1>1. Len(S) \in Nat /\ Len(E) \in Nat /\ T \in Seq(Bytes) /\ Len(T) = Len(S) + Len(E)
  <2>1. T \in Seq(Bytes) /\ Len(T) = Len(S) + Len(E)
    BY CatIs
  <2> QED  BY <2>1
<1>2. \A i \in 1 .. Len(S) : T[i] = S[i]
  BY CatIs
<1>3. a \in Nat /\ b \in Nat /\ a <= b /\ b <= Len(S) /\ f \in AnyFrame /\ f.obj = obj
      /\ a <= Len(S) /\ f.body = SubSeq(S, a + 1, b)
  <2>1. f.index \in Nat
    BY DEF FrameOf, AnyFrame
  <2>2. a \in Nat
    BY <2>1, Blocks
  <2> QED  BY <2>2, Sizes DEF FrameOf
<1> HIDE DEF T, a, b
<1>4. SubSeq(S, a + 1, b) = SubSeq(T, a + 1, b)
  <2>1. b <= Len(T)
    BY <1>1, <1>3
  <2>2. /\ SubSeq(S, a + 1, b) \in Seq(Bytes) /\ Len(SubSeq(S, a + 1, b)) = b - a
        /\ \A k \in 1 .. b - a : SubSeq(S, a + 1, b)[k] = S[a + k]
    BY <1>3, PartIs
  <2>3. /\ SubSeq(T, a + 1, b) \in Seq(Bytes) /\ Len(SubSeq(T, a + 1, b)) = b - a
        /\ \A k \in 1 .. b - a : SubSeq(T, a + 1, b)[k] = T[a + k]
    BY <1>1, <1>3, <2>1, PartIs
  <2>4. \A k \in 1 .. b - a : SubSeq(S, a + 1, b)[k] = SubSeq(T, a + 1, b)[k]
    <3>1. \A k \in 1 .. b - a : a + k \in 1 .. Len(S)
      BY <1>1, <1>3
    <3> QED  BY <1>2, <2>2, <2>3, <3>1
  <2> QED  BY <2>2, <2>3, <2>4, SeqEqual
<1>5. a <= Len(T) /\ b <= Len(T)
  BY <1>1, <1>3
<1> QED  BY <1>3, <1>4, <1>5 DEF FrameOf, T, a, b

-----------------------------------------------------------------------------
(* The other version.                                                      *)

LEMMA PlaintextIs ==
    ASSUME NEW obj \in {"mine", "other"}, NEW n \in Nat
    PROVE  /\ Plaintext(obj, n) \in Seq(PlainBytes) /\ Len(Plaintext(obj, n)) = n
           /\ \A i \in 1 .. n : Plaintext(obj, n)[i] = <<obj, i>>
BY DEF Plaintext, PlainBytes

LEMMA ByteIs ==
    ASSUME NEW u \in Seq(PlainBytes), NEW e \in BOOLEAN
    PROVE  Byte(u, e) \in Bytes /\ Byte(u, e).units = u /\ Byte(u, e).end = e
BY DEF Byte, Bytes

\* What the compressor emits: its header if it is the first, and bytes of which
\* the last completes u and, if e, ends the Zstd frame.
Output(first, n, u, e) ==
    Cat(IF first THEN [i \in 1 .. ZstdHeader |-> Byte(<<>>, FALSE)] ELSE <<>>,
        [i \in 1 .. n |-> IF i = n THEN Byte(u, e) ELSE Byte(<<>>, FALSE)])

OutputOf(E, first, n, u, e) ==
    /\ E \in Seq(Bytes) /\ Len(E) \in Nat /\ Len(E) > 0
    /\ first => Len(E) = ZstdHeader + n
    /\ E[Len(E)] = Byte(u, e)
    /\ \A i \in 1 .. Len(E) - 1 : E[i] = Byte(<<>>, FALSE)
    /\ Units(E) = u

LEMMA OutputIs ==
    ASSUME NEW first \in BOOLEAN, NEW n \in Nat, n > 0, NEW u \in Seq(PlainBytes), NEW e \in BOOLEAN
    PROVE  OutputOf(Output(first, n, u, e), first, n, u, e)
<1> DEFINE h == IF first THEN [i \in 1 .. ZstdHeader |-> Byte(<<>>, FALSE)] ELSE <<>>
           t == [i \in 1 .. n |-> IF i = n THEN Byte(u, e) ELSE Byte(<<>>, FALSE)]
           E == Output(first, n, u, e)
           nothing == Byte(<<>>, FALSE)
           last == Byte(u, e)
<1>1. nothing \in Bytes /\ last \in Bytes /\ nothing.units = <<>> /\ last.units = u
  BY ByteIs, EmptySeq
<1> HIDE DEF nothing, last
<1>2. t \in Seq(Bytes) /\ Len(t) = n /\ t[n] = last /\ \A i \in 1 .. n - 1 : t[i] = nothing
  <2>1. t = [i \in 1 .. n |-> IF i = n THEN last ELSE nothing]
    BY Zenon DEF nothing, last
  <2> HIDE DEF t
  <2> QED  BY <1>1, <2>1
<1>3. /\ h \in Seq(Bytes) /\ Len(h) \in Nat /\ (first => Len(h) = ZstdHeader)
      /\ \A i \in 1 .. Len(h) : h[i] = nothing
  <2>1. h = IF first THEN [i \in 1 .. ZstdHeader |-> nothing] ELSE <<>>
    BY Zenon DEF nothing
  <2> HIDE DEF h
  <2>2. CASE first
    BY <1>1, <2>1, <2>2, Sizes
  <2>3. CASE ~first
    BY <2>1, <2>3, EmptySeq
  <2> QED  BY <2>2, <2>3
<1>4. E = Cat(h, t)
  BY Zenon DEF Output
<1> HIDE DEF h, t, E
<1>5. E \in Seq(Bytes) /\ Len(E) = Len(h) + n /\ Len(E) \in Nat /\ Len(E) > 0
  <2>1. Cat(h, t) \in Seq(Bytes) /\ Len(Cat(h, t)) = Len(h) + Len(t)
    BY <1>2, <1>3, CatIs
  <2> QED  BY <1>2, <1>3, <1>4, <2>1
<1>6. \A i \in 1 .. Len(h) : E[i] = nothing
  <2>1. h \in Seq(Bytes) /\ t \in Seq(Bytes)
    BY <1>2, <1>3
  <2>2. \A i \in 1 .. Len(h) : Cat(h, t)[i] = h[i]
    BY <2>1, CatIs
  <2> QED  BY <1>3, <1>4, <2>2
<1>7. \A i \in 1 .. n : E[Len(h) + i] = t[i]
  <2>1. h \in Seq(Bytes) /\ t \in Seq(Bytes)
    BY <1>2, <1>3
  <2>2. \A i \in 1 .. Len(t) : Cat(h, t)[Len(h) + i] = t[i]
    BY <2>1, CatIs
  <2> QED  BY <1>2, <1>4, <2>2, Zenon
<1>8. E[Len(E)] = last
  <2>1. n \in 1 .. n
    OBVIOUS
  <2> QED  BY <1>2, <1>5, <1>7, <2>1
<1>9. ASSUME NEW i \in 1 .. Len(E) - 1 PROVE E[i] = nothing
  <2>1. CASE i <= Len(h)
    BY <1>3, <1>5, <1>6, <2>1
  <2>2. CASE i > Len(h)
    <3> DEFINE j == i - Len(h)
    <3>1. j \in 1 .. n - 1 /\ j \in 1 .. n /\ Len(h) + j = i
      BY <1>3, <1>5, <2>2
    <3> HIDE DEF j
    <3> QED  BY <1>2, <1>7, <3>1
  <2> QED  BY <1>3, <1>5, <2>1, <2>2
<1>10. Units(E) = u
  <2>1. E # <<>>
    BY <1>5
  <2>2. \A i \in 1 .. Len(E) - 1 : E[i].units = <<>>
    BY <1>1, <1>9
  <2>3. Units(E) = E[Len(E)].units
    BY <1>5, <2>1, <2>2, UnitsLast
  <2> QED  BY <1>1, <1>8, <2>3
<1>11. first => Len(E) = ZstdHeader + n
  BY <1>3, <1>5
<1> QED  BY <1>5, <1>8, <1>9, <1>10, <1>11, Zenon DEF OutputOf, E, nothing, last
\* The stream of the other version, byte by byte.
LEMMA OtherBytes ==
    LET N == ZstdHeader + 2
    IN  /\ OtherStream \in Seq(Bytes) /\ Len(OtherStream) = N
        /\ \A i \in 1 .. ZstdHeader : OtherStream[i] = Byte(<<>>, FALSE)
        /\ OtherStream[ZstdHeader + 1] = Byte(Plaintext("other", OtherSize), FALSE)
        /\ OtherStream[N] = Byte(<<>>, TRUE)
<1> DEFINE nothing == Byte(<<>>, FALSE)
           all == Byte(Plaintext("other", OtherSize), FALSE)
           last == Byte(<<>>, TRUE)
           z == ZstdHeader
           h == [i \in 1 .. ZstdHeader |-> nothing]
           t == <<all, last>>
<1>1. Plaintext("other", OtherSize) \in Seq(PlainBytes) /\ z \in Nat
  BY PlaintextIs, Sizes DEF OtherSize
<1>2. nothing \in Bytes /\ all \in Bytes /\ last \in Bytes
  BY <1>1, ByteIs, EmptySeq
<1>3. OtherStream = Cat(h, t)
  BY Zenon DEF OtherStream, Cat
<1> HIDE DEF nothing, all, last
<1>4. h \in Seq(Bytes) /\ Len(h) = z /\ \A i \in 1 .. z : h[i] = nothing
  BY <1>1, <1>2
<1>5. t \in Seq(Bytes) /\ Len(t) = 2 /\ t[1] = all /\ t[2] = last
  BY <1>2
<1> HIDE DEF h, t
<1>6. Cat(h, t) \in Seq(Bytes) /\ Len(Cat(h, t)) = Len(h) + Len(t)
  BY <1>4, <1>5, CatIs
<1>7. \A i \in 1 .. Len(h) : Cat(h, t)[i] = h[i]
  <2>1. h \in Seq(Bytes) /\ t \in Seq(Bytes)
    BY <1>4, <1>5
  <2> QED  BY <2>1, CatIs
<1>8. \A i \in 1 .. 2 : Cat(h, t)[z + i] = t[i]
  <2>1. h \in Seq(Bytes) /\ t \in Seq(Bytes)
    BY <1>4, <1>5
  <2>2. ASSUME NEW i \in 1 .. Len(t) PROVE Cat(h, t)[Len(h) + i] = t[i]
    BY <2>1, CatSecond
  <2> QED  BY <1>4, <1>5, <2>2
<1>9. Cat(h, t)[z + 1] = all /\ Cat(h, t)[z + 2] = last
  BY <1>5, <1>8
<1>10. \A i \in 1 .. z : Cat(h, t)[i] = nothing
  BY <1>4, <1>7
<1>11. Len(Cat(h, t)) = z + 2
  BY <1>4, <1>5, <1>6
<1> QED  BY <1>3, <1>6, <1>9, <1>10, <1>11, Zenon DEF nothing, all, last, z

\* It is the whole stream of an object of OtherSize bytes.
LEMMA OtherIs ==
    /\ OtherStream \in Seq(Bytes) /\ Len(OtherStream) \in Nat /\ OtherSize \in Nat
    /\ StreamOf(OtherStream, "other", OtherSize)
    /\ EndBy(OtherStream, Len(OtherStream))
    /\ OtherFrames \in Seq(AnyFrame)
    /\ \A i \in 1 .. Len(OtherFrames) : FrameOf(OtherFrames[i], "other", OtherStream)
<1> DEFINE S == OtherStream
           P == Plaintext("other", OtherSize)
           m == ZstdHeader + 1
<1>1. P \in Seq(PlainBytes) /\ Len(P) = OtherSize /\ OtherSize \in Nat
      /\ (\A i \in 1 .. Len(P) : P[i] = <<"other", i>>) /\ m \in Nat /\ ZstdHeader \in Nat
  <2>1. OtherSize \in Nat
    BY DEF OtherSize
  <2>2. P \in Seq(PlainBytes) /\ Len(P) = OtherSize /\ \A i \in 1 .. OtherSize : P[i] = <<"other", i>>
    BY <2>1, PlaintextIs, Zenon
  <2>3. ZstdHeader \in Nat /\ m \in Nat
    BY Sizes
  <2> HIDE DEF P, m
  <2>4. \A i \in 1 .. Len(P) : P[i] = <<"other", i>>
    BY <2>2, Zenon
  <2> QED  BY <2>1, <2>2, <2>3, <2>4, Zenon
<1>2. /\ S \in Seq(Bytes) /\ Len(S) = m + 1 /\ S # <<>>
      /\ \A i \in 1 .. ZstdHeader : S[i] = Byte(<<>>, FALSE)
      /\ S[m] = Byte(P, FALSE) /\ S[m + 1] = Byte(<<>>, TRUE)
  <2>1. ZstdHeader + 2 = m + 1
    BY <1>1
  <2>2. Len(S) = m + 1
    BY <2>1, OtherBytes
  <2>3. S # <<>>
    BY <1>1, <2>2
  <2> QED  BY <2>1, <2>2, <2>3, OtherBytes
<1> HIDE DEF S, P
<1>3. \A i \in 1 .. ZstdHeader : S[i].units = <<>> /\ S[i].end = FALSE
  BY <1>2, ByteIs, EmptySeq
<1>4. /\ S[m].units = P /\ S[m].end = FALSE
      /\ S[m + 1].units = <<>> /\ S[m + 1].end = TRUE
  BY <1>1, <1>2, ByteIs, EmptySeq
<1> DEFINE a == SubSeq(S, 1, m)
           b == SubSeq(S, m + 1, m + 1)
<1>5. Units(SubSeq(S, 1, m + 1)) = Cat(Units(a), Units(b))
  BY <1>1, <1>2, UnitsSplit
<1>6. SubSeq(S, 1, m + 1) = S
  BY <1>2, SubSeqFull
<1>7. /\ a \in Seq(Bytes) /\ Len(a) = m /\ \A i \in 1 .. m : a[i] = S[i]
      /\ b \in Seq(Bytes) /\ Len(b) = 1 /\ b[1] = S[m + 1]
  <2>1. m <= m + 1 /\ m + 1 <= Len(S) /\ m + 1 \in Nat /\ (m + 1) - m = 1 /\ 1 \in 1 .. 1
    BY <1>1, <1>2
  <2>2. /\ a \in Seq(Bytes) /\ Len(a) = m /\ \A i \in 1 .. m : a[i] = S[i]
        /\ b \in Seq(Bytes) /\ Len(b) = (m + 1) - m /\ \A i \in 1 .. (m + 1) - m : b[i] = S[m + i]
    BY <1>1, <1>2, <2>1, SubSeqSplit
  <2> QED  BY <2>1, <2>2
<1> HIDE DEF a, b
<1>8. Units(a) = P
  <2>1. a # <<>> /\ \A i \in 1 .. Len(a) - 1 : i \in 1 .. ZstdHeader /\ i \in 1 .. m
    BY <1>1, <1>7
  <2>2. \A i \in 1 .. Len(a) - 1 : a[i].units = <<>>
    BY <1>3, <1>7, <2>1
  <2>3. Units(a) = a[Len(a)].units
    BY <1>7, <2>1, <2>2, UnitsLast
  <2>4. a[m] = S[m]
    BY <1>1, <1>7
  <2> QED  BY <1>4, <1>7, <2>3, <2>4
<1>9. Units(b) = <<>>
  <2>1. \A i \in 1 .. Len(b) : b[i].units = <<>>
    BY <1>4, <1>7
  <2> QED  BY <1>7, <2>1, UnitsNone
<1>10. Units(S) = P
  <2>1. Cat(P, <<>>) = P
    BY <1>1, CatEmpty
  <2> QED  BY <1>5, <1>6, <1>8, <1>9, <2>1, Zenon
<1>11. StreamOf(S, "other", OtherSize)
  <2>1. \A i \in 1 .. Len(S) : i <= ZstdHeader => S[i].units = <<>> /\ ~S[i].end
    <3>1. \A i \in 1 .. Len(S) : i <= ZstdHeader => i \in 1 .. ZstdHeader
      BY <1>1, <1>2
    <3> QED  BY <1>3, <3>1
  <2>2. \A i \in 1 .. Len(S) : S[i].end => i = Len(S)
    <3>1. \A i \in 1 .. Len(S) : i \in 1 .. ZstdHeader \/ i = m \/ i = Len(S)
      BY <1>1, <1>2
    <3> QED  BY <1>3, <1>4, <3>1
  <2>3. Begins(Units(S), "other", OtherSize)
    BY <1>1, <1>10 DEF Begins
  <2>4. ZstdHeader <= Len(S)
    BY <1>1, <1>2
  <2> QED  BY <1>1, <1>2, <1>10, <2>1, <2>2, <2>3, <2>4 DEF StreamOf
<1>12. EndBy(S, Len(S))
  <2>1. m + 1 \in 1 .. Len(S)
    BY <1>1, <1>2
  <2> QED  BY <1>4, <2>1 DEF EndBy
<1>13. /\ OtherFrames \in Seq(AnyFrame)
       /\ \A i \in 1 .. Len(OtherFrames) : FrameOf(OtherFrames[i], "other", S)
  <2>1. /\ Frames("other", S) \in Seq(AnyFrame)
        /\ Len(Frames("other", S)) = Len(S) \div BlockBytes + 1
        /\ \A i \in 1 .. Len(S) \div BlockBytes + 1 : FrameOf(Frames("other", S)[i], "other", S)
    BY <1>2, FramesOf
  <2>2. OtherFrames = Frames("other", S)
    BY DEF OtherFrames, S
  <2> QED  BY <2>1, <2>2
<1>14. Len(S) \in Nat
  BY <1>1, <1>2
<1> QED  BY <1>1, <1>2, <1>11, <1>12, <1>13, <1>14 DEF S

LEMMA GarbageIs ==
    GarbageFrame \in AnyFrame /\ GarbageFrame.obj = "garbage"
<1> DEFINE nothing == Byte(<<>>, FALSE)
           b == [i \in 1 .. BlockBytes + 1 |-> nothing]
<1>1. nothing \in Bytes
  BY ByteIs, EmptySeq
<1> HIDE DEF nothing
<1>2. b \in Seq(Bytes)
  BY <1>1, Sizes
<1>3. GarbageFrame = Frame("garbage", 0, FALSE, b)
  BY Zenon DEF GarbageFrame, nothing
<1> HIDE DEF b
<1> QED  BY <1>2, <1>3 DEF Frame, AnyFrame

-----------------------------------------------------------------------------
(* The beginning of a stream.                                              *)

\* What comes before something in the beginning of an object is one as well.
LEMMA BeginsPart ==
    ASSUME NEW a \in Seq(PlainBytes), NEW b \in Seq(PlainBytes), NEW obj, NEW n \in Nat,
           Begins(Cat(a, b), obj, n)
    PROVE  Begins(a, obj, n)
<1>1. Len(a) \in Nat /\ Len(b) \in Nat
  OBVIOUS
<1>2. Len(Cat(a, b)) = Len(a) + Len(b)
  BY CatIs
<1>3. \A i \in 1 .. Len(a) : Cat(a, b)[i] = a[i]
  BY CatIs
<1>4. Len(Cat(a, b)) <= n /\ \A i \in 1 .. Len(Cat(a, b)) : Cat(a, b)[i] = <<obj, i>>
  BY DEF Begins
<1>5. \A i \in 1 .. Len(a) : a[i] = <<obj, i>>
  <2>1. \A i \in 1 .. Len(a) : i \in 1 .. Len(Cat(a, b))
    BY <1>1, <1>2
  <2> QED  BY <1>3, <1>4, <2>1
<1>6. Len(a) <= n
  BY <1>1, <1>2, <1>4
<1> QED  BY <1>5, <1>6 DEF Begins

\* The plaintext of the beginning of a stream is the beginning of its plaintext.
LEMMA PartBegins ==
    ASSUME NEW S, NEW obj, NEW n \in Nat, StreamOf(S, obj, n), NEW m \in Nat, m <= Len(S)
    PROVE  /\ Begins(Units(SubSeq(S, 1, m)), obj, n) /\ S \in Seq(Bytes)
           /\ Units(SubSeq(S, 1, m)) \in Seq(PlainBytes)
<1>1. S \in Seq(Bytes) /\ Begins(Units(S), obj, n)
  BY DEF StreamOf
<1>2. Len(S) \in Nat /\ Len(S) <= Len(S) /\ SubSeq(S, 1, Len(S)) = S
  BY <1>1, SubSeqFull
<1> DEFINE a == Units(SubSeq(S, 1, m))
           b == Units(SubSeq(S, m + 1, Len(S)))
<1>3. Units(SubSeq(S, 1, Len(S))) = Cat(a, b) /\ a \in Seq(PlainBytes) /\ b \in Seq(PlainBytes)
  BY <1>1, <1>2, UnitsSplit
<1> HIDE DEF a, b
<1>4. Begins(Cat(a, b), obj, n)
  BY <1>1, <1>2, <1>3, Zenon
<1>5. Begins(a, obj, n)
  BY <1>3, <1>4, BeginsPart
<1> QED  BY <1>1, <1>3, <1>5 DEF a

\* An end among the first m bytes is the last byte.
LEMMA EndIsLast ==
    ASSUME NEW S, NEW obj, NEW n, StreamOf(S, obj, n), NEW m \in Nat, m <= Len(S), EndBy(S, m)
    PROVE  m = Len(S) /\ m > ZstdHeader /\ Len(Units(S)) = n
<1>1. S \in Seq(Bytes) /\ Len(S) \in Nat
  BY DEF StreamOf
<1>2. PICK i \in 1 .. m : S[i].end
  BY DEF EndBy
<1>3. i \in 1 .. Len(S)
  BY <1>1
<1>4. i = Len(S) /\ ~(i <= ZstdHeader)
  BY <1>2, <1>3 DEF StreamOf
<1>5. m = Len(S)
  BY <1>1, <1>4
<1>6. Len(Units(S)) = n
  BY <1>5 DEF StreamOf
<1> QED  BY <1>1, <1>4, <1>5, <1>6, Sizes

\* The Zstd header completes nothing.
LEMMA HeaderOnly ==
    ASSUME NEW S, NEW obj, NEW n, StreamOf(S, obj, n), NEW m \in Nat, m <= Len(S), m <= ZstdHeader
    PROVE  Units(SubSeq(S, 1, m)) = <<>> /\ ~EndBy(S, m)
<1>1. S \in Seq(Bytes) /\ Len(S) \in Nat
  BY DEF StreamOf
<1>2. \A i \in 1 .. m : i \in 1 .. Len(S) /\ i <= ZstdHeader
  BY <1>1, Sizes
<1>3. \A i \in 1 .. m : S[i].units = <<>> /\ ~S[i].end
  BY <1>2 DEF StreamOf
<1>4. /\ SubSeq(S, 1, m) \in Seq(Bytes) /\ Len(SubSeq(S, 1, m)) = m
      /\ \A i \in 1 .. m : SubSeq(S, 1, m)[i] = S[i]
  <2>1. m <= m
    OBVIOUS
  <2> QED  BY <1>1, <2>1, SubSeqSplit
<1>5. Units(SubSeq(S, 1, m)) = <<>>
  BY <1>3, <1>4, UnitsNone
<1> QED  BY <1>3, <1>5 DEF EndBy

\* A frame's body is the part of the stream at its place.
LEMMA BodyOf ==
    ASSUME NEW obj, NEW S \in Seq(Bytes), NEW f, FrameOf(f, obj, S)
    PROVE  LET n == f.index * BlockBytes
               m == n + Len(f.body)
           IN  /\ n \in Nat /\ m \in Nat /\ m <= Len(S)
               /\ f.body = SubSeq(S, n + 1, m)
               /\ f.final => m = Len(S) /\ Len(f.body) < BlockBytes
               /\ ~f.final => Len(f.body) = BlockBytes
<1> DEFINE n == f.index * BlockBytes
<1>1. Len(S) \in Nat /\ BlockBytes \in Nat /\ f \in AnyFrame
  BY Sizes DEF FrameOf
<1>2. n \in Nat /\ n <= Len(S) /\ f.final \in BOOLEAN
  <2>1. f.index \in Nat /\ f.final \in BOOLEAN
    BY <1>1 DEF AnyFrame
  <2> QED  BY <2>1, Blocks DEF FrameOf
<1>3. /\ f.final => Len(S) < n + BlockBytes /\ f.body = SubSeq(S, n + 1, Len(S))
      /\ ~f.final => n + BlockBytes <= Len(S) /\ f.body = SubSeq(S, n + 1, n + BlockBytes)
  BY DEF FrameOf
<1> HIDE DEF n
<1>4. CASE f.final
  <2>1. Len(SubSeq(S, n + 1, Len(S))) = Len(S) - n
    BY <1>1, <1>2, PartIs
  <2>2. Len(f.body) = Len(S) - n /\ n + Len(f.body) = Len(S)
    BY <1>1, <1>2, <1>3, <1>4, <2>1
  <2> QED  BY <1>1, <1>2, <1>3, <1>4, <2>2 DEF n
<1>5. CASE ~f.final
  <2>1. Len(SubSeq(S, n + 1, n + BlockBytes)) = (n + BlockBytes) - n
    <3>1. n + BlockBytes \in Nat /\ n <= n + BlockBytes /\ n + BlockBytes <= Len(S)
      BY <1>1, <1>2, <1>3, <1>5
    <3> QED  BY <1>2, <3>1, PartIs
  <2>2. Len(f.body) = BlockBytes
    BY <1>1, <1>2, <1>3, <1>5, <2>1
  <2> QED  BY <1>1, <1>2, <1>3, <1>5, <2>2 DEF n
<1> QED  BY <1>4, <1>5
-----------------------------------------------------------------------------
(* Parts of the invariant that a step leaves alone.                        *)

\* The groups of variables that the actions leave alone.
LEMMA Unchanged ==
    /\ UNCHANGED writer =>
          UNCHANGED <<wpc, left, plaintext_bytes, compressed_bytes, ciphertext_bytes,
                      block_count, absorbed, pending, descriptor>>
    /\ UNCHANGED storage => UNCHANGED <<file, damages>>
    /\ UNCHANGED decoder => UNCHANGED <<inflow, held, seen, ended, complete, total, out>>
    /\ UNCHANGED reader =>
          UNCHANGED <<rpc, why, bytes, need, eof, idx, next, inflow, held, seen, ended,
                      complete, total, out>>
BY DEF writer, storage, reader, decoder

\* The reader leaves the writer and the file alone.
LEMMA ReaderFrame ==
    ASSUME NEW S, Inv(S), UNCHANGED writer, UNCHANGED storage
    PROVE  WriterInv(S)' /\ FileInv(S)' /\ UndamagedInv'
<1>1. UNCHANGED <<wpc, left, plaintext_bytes, compressed_bytes, ciphertext_bytes,
                  block_count, absorbed, pending, descriptor, file, damages>>
  BY Unchanged, Zenon
<1>2. WriterInv(S) /\ FileInv(S) /\ UndamagedInv
  BY DEF Inv
<1>3. WriterInv(S)'
  BY <1>1, <1>2 DEF WriterInv, BeforeEnd, AfterEnd
<1>4. FileInv(S)'
  BY <1>1, <1>2 DEF FileInv
<1>5. UndamagedInv'
  BY <1>1, <1>2 DEF UndamagedInv
<1> QED  BY <1>3, <1>4, <1>5

\* Before the first byte.
LEMMA EmptyBeginning ==
    ASSUME NEW S \in Seq(Bytes)
    PROVE  Units(SubSeq(S, 1, 0)) = <<>> /\ EndBy(S, 0) = FALSE
<1>1. SubSeq(S, 1, 0) = <<>>
  BY SubSeqEmpty
<1>2. <<>> \in Seq(Bytes) /\ \A i \in 1 .. Len(<<>>) : <<>>[i].units = <<>>
  BY EmptySeq
<1>3. Units(<<>>) = <<>>
  BY <1>2, UnitsNone
<1>4. EndBy(S, 0) = FALSE
  BY DEF EndBy
<1> QED  BY <1>1, <1>3, <1>4, Zenon

\* Before the first call of open_object_v1 its state says nothing of the file.
LEMMA ReaderIdle ==
    ASSUME NEW S \in Seq(Bytes), Inv(S), rpc = "idle", UNCHANGED reader, NEW T \in Seq(Bytes),
           file'.frames \in Seq(AnyFrame),
           file'.cut \in 0 .. Ends(file'.frames)[Len(file'.frames)],
           plaintext_bytes' \in Nat, damages' \in Nat, ~SealEnded' => damages' = 0
    PROVE  PlaceInv' /\ SeenInv(T)' /\ DecodedInv(T)' /\ SealedOpens'
<1>1. UNCHANGED <<rpc, why, bytes, need, eof, idx, next, inflow, held, seen, ended,
                  complete, total, out>>
  BY Unchanged, Zenon
<1>2. Len(file'.frames) \in Nat /\ 0 <= Size(file') /\ Size(file') \in Int
  <2>1. Len(file'.frames) \in Nat /\ Len(file'.frames) \in 0 .. Len(file'.frames)
    OBVIOUS
  <2>2. Ends(file'.frames)[Len(file'.frames)] \in Nat
    BY <2>1, EndsType
  <2> QED  BY <2>1, <2>2 DEF Size
<1>3. PlaceInv /\ SeenInv(S) /\ DecodedInv(S) /\ StreamHere(S) \in Seq(Bytes)
  BY OtherIs DEF Inv, StreamHere
<1>4. PlaceInv'
  <2>1. rpc = "idle" /\ bytes = 0 /\ need \in Nat /\ idx = 0 /\ ~next /\ next \in BOOLEAN
    BY <1>3 DEF PlaceInv
  <2> QED  BY <1>1, <1>2, <2>1, Sizes DEF PlaceInv, Held, Over
<1>5. /\ seen = 0 /\ out = <<>> /\ total = 0 /\ held = <<>> /\ inflow \in Seq(Bytes)
      /\ ended = FALSE /\ complete = FALSE
  <2>1. seen = 0
    BY <1>3 DEF SeenInv
  <2>2. /\ held = <<>> /\ out = Units(SubSeq(StreamHere(S), 1, 0))
        /\ ended = EndBy(StreamHere(S), 0) /\ complete = ended /\ total = Len(out)
        /\ inflow \in Seq(Bytes) /\ ended \in BOOLEAN
    BY <1>3, <2>1 DEF DecodedInv
  <2>3. out = <<>> /\ ended = FALSE
    BY <1>3, <2>2, EmptyBeginning
  <2> QED  BY <2>1, <2>2, <2>3, EmptySeq
<1>6. SeenInv(T)'
  BY <1>1, <1>5 DEF SeenInv, Over
<1>7. DecodedInv(T)'
  <2>1. StreamHere(T)' \in Seq(Bytes) /\ SizeHere' \in Nat
    BY OtherIs DEF StreamHere, SizeHere
  <2>2. Units(SubSeq(StreamHere(T)', 1, 0)) = <<>> /\ EndBy(StreamHere(T)', 0) = FALSE
    BY <2>1, EmptyBeginning
  <2>3. Begins(<<>>, file'.header, SizeHere')
    BY <2>1, EmptySeq DEF Begins
  <2>4. <<>> \in Seq(PlainBytes) /\ Len(<<>>) = 0
    BY EmptySeq
  <2>5. /\ rpc' = "idle" /\ seen' = 0 /\ out' = <<>> /\ total' = 0 /\ held' = <<>>
        /\ inflow' \in Seq(Bytes) /\ ended' = FALSE /\ complete' = FALSE
    BY <1>1, <1>5
  <2>6. ended' = EndBy(StreamHere(T)', seen')
    BY <2>2, <2>5, Zenon
  <2>7. out' = Units(SubSeq(StreamHere(T)', 1, seen'))
    BY <2>2, <2>5
  <2>8. Begins(out', file'.header, SizeHere') /\ total' = Len(out') /\ total' <= MaxPlaintext
    BY <2>3, <2>4, <2>5, Sizes
  <2> QED  BY <2>4, <2>5, <2>6, <2>7, <2>8 DEF DecodedInv
<1>8. SealedOpens'
  BY <1>1 DEF SealedOpens
<1> QED  BY <1>4, <1>6, <1>7, <1>8

\* Facts of a writer that has not ended.
LEMMA Writing ==
    ASSUME NEW S \in Seq(Bytes), Inv(S), ~SealEnded
    PROVE  /\ rpc = "idle" /\ damages = 0 /\ file.header = "mine" /\ plaintext_bytes \in Nat
           /\ Len(file.frames) = block_count /\ block_count \in Nat
           /\ file.frames \in Seq(AnyFrame)
           /\ Ends(file.frames)[Len(file.frames)] \in Nat
           /\ file.cut \in 0 .. Ends(file.frames)[Len(file.frames)]
           /\ \A i \in 1 .. Len(file.frames) :
                 /\ FrameOf(file.frames[i], "mine", S) /\ file.frames[i].final = FALSE
                 /\ file.frames[i].obj = "mine" /\ file.frames[i].index = i - 1
           /\ wpc # "start" => file.cut = 0 /\ ciphertext_bytes = Size(file)
           /\ wpc # "start" => ciphertext_bytes = Ends(file.frames)[Len(file.frames)]
           /\ Len(S) \in Nat /\ Len(pending) \in Nat /\ pending \in Seq(Bytes)
<1>1. rpc = "idle" /\ damages = 0
  BY DEF Inv, PlaceInv
<1>2. wpc # "finished" /\ wpc # "failed"
  BY DEF SealEnded
<1>3. /\ file.header = "mine" /\ Len(file.frames) = block_count
      /\ wpc # "start" => file.cut = 0 /\ ciphertext_bytes = Size(file)
      /\ \A i \in 1 .. Len(file.frames) :
            /\ file.frames[i].final = FALSE
            /\ file.frames[i].obj = "mine" /\ file.frames[i].index = i - 1
  BY <1>1, <1>2 DEF Inv, UndamagedInv
<1>4. /\ file.frames \in Seq(AnyFrame)
      /\ file.cut \in 0 .. Ends(file.frames)[Len(file.frames)]
      /\ \A i \in 1 .. Len(file.frames) :
            \/ FrameOf(file.frames[i], "mine", S)
            \/ FrameOf(file.frames[i], "other", OtherStream)
            \/ file.frames[i] = GarbageFrame
  BY DEF Inv, FileInv
<1>5. Ends(file.frames)[Len(file.frames)] \in Nat
  <2>1. Len(file.frames) \in 0 .. Len(file.frames)
    BY <1>4
  <2> QED  BY <1>4, <2>1, EndsType
<1>6. \A i \in 1 .. Len(file.frames) : FrameOf(file.frames[i], "mine", S)
  BY <1>3, <1>4, GarbageIs DEF FrameOf
<1>7. wpc # "start" => ciphertext_bytes = Ends(file.frames)[Len(file.frames)]
  BY <1>3, <1>5 DEF Size
<1>8. plaintext_bytes \in Nat /\ block_count \in Nat /\ Len(S) \in Nat
  BY Sizes DEF Inv, WriterInv
<1>9. pending \in Seq(Bytes)
  <2>1. block_count * BlockBytes <= Len(S)
        /\ pending = SubSeq(S, block_count * BlockBytes + 1, Len(S))
    BY <1>2 DEF Inv, WriterInv
  <2>2. block_count * BlockBytes \in Nat
    BY <1>8, Blocks
  <2> QED  BY <1>8, <2>1, <2>2, PartIs
<1> QED  BY <1>1, <1>3, <1>4, <1>5, <1>6, <1>7, <1>8, <1>9
-----------------------------------------------------------------------------
(* The stream that the writer gets.                                        *)

\* The next n bytes of the plaintext.
LEMMA PlaintextMore ==
    ASSUME NEW m \in Nat, NEW n \in Nat, NEW P, P = [i \in 1 .. n |-> <<"mine", m + i>>]
    PROVE  P \in Seq(PlainBytes) /\ Cat(Plaintext("mine", m), P) = Plaintext("mine", m + n)
<1> DEFINE a == Plaintext("mine", m)
           c == Plaintext("mine", m + n)
<1>1. a \in Seq(PlainBytes) /\ Len(a) = m /\ \A i \in 1 .. m : a[i] = <<"mine", i>>
  BY PlaintextIs
<1>2. c \in Seq(PlainBytes) /\ Len(c) = m + n /\ \A i \in 1 .. m + n : c[i] = <<"mine", i>>
  <2>1. m + n \in Nat
    OBVIOUS
  <2> QED  BY <2>1, PlaintextIs
<1>3. P \in Seq(PlainBytes) /\ Len(P) = n /\ \A i \in 1 .. n : P[i] = <<"mine", m + i>>
  BY DEF PlainBytes
<1> HIDE DEF a, c
<1>4. Cat(a, P) \in Seq(PlainBytes) /\ Len(Cat(a, P)) = m + n
  <2>1. a \in Seq(PlainBytes) /\ P \in Seq(PlainBytes)
    BY <1>1, <1>3
  <2>2. Cat(a, P) \in Seq(PlainBytes) /\ Len(Cat(a, P)) = Len(a) + Len(P)
    BY <2>1, CatIs
  <2> QED  BY <1>1, <1>3, <2>2
<1>5. ASSUME NEW i \in 1 .. m + n PROVE Cat(a, P)[i] = c[i]
  <2>1. a \in Seq(PlainBytes) /\ P \in Seq(PlainBytes)
    BY <1>1, <1>3
  <2>2. CASE i <= m
    <3>1. \A j \in 1 .. Len(a) : Cat(a, P)[j] = a[j]
      BY <2>1, CatIs, ZenonT(60)
    <3>2. i \in 1 .. m
      BY <2>2
    <3> QED  BY <1>1, <1>2, <3>1, <3>2
  <2>3. CASE i > m
    <3> DEFINE j == i - m
    <3>1. j \in 1 .. n /\ m + j = i
      BY <2>3
    <3> HIDE DEF j
    <3>2. j \in 1 .. Len(P)
      BY <1>3, <3>1
    <3>3. Cat(a, P)[Len(a) + j] = P[j]
      BY <2>1, <3>2, CatSecond, ZenonT(40)
    <3>4. Cat(a, P)[m + j] = <<"mine", m + j>>
      BY <1>1, <1>3, <3>1, <3>3, Zenon
    <3> QED  BY <1>2, <3>1, <3>4, Zenon
  <2> QED  BY <2>2, <2>3
<1>6. Cat(a, P) = c
  BY <1>2, <1>4, <1>5, SeqEqual
<1> QED  BY <1>3, <1>6 DEF a, c

\* A stream that has not ended is one of an object that goes on.
LEMMA StreamGrows ==
    ASSUME NEW S, NEW obj, NEW n \in Nat, NEW m \in Nat, n <= m,
           StreamOf(S, obj, n), ~EndBy(S, Len(S))
    PROVE  StreamOf(S, obj, m)
<1>1. Begins(Units(S), obj, m)
  <2>1. Begins(Units(S), obj, n) /\ Len(Units(S)) \in Nat
    BY DEF StreamOf, Begins
  <2> QED  BY <2>1 DEF Begins
<1> QED  BY <1>1 DEF StreamOf

\* What the compressor emits continues the stream: E after S makes T.
LEMMA StreamJoined ==
    ASSUME NEW S \in Seq(Bytes), NEW n \in Nat, StreamOf(S, "mine", n), ~EndBy(S, Len(S)),
           NEW E \in Seq(Bytes), Len(E) > 0, E[Len(E)].end \in BOOLEAN,
           \A i \in 1 .. Len(E) - 1 : E[i].units = <<>> /\ ~E[i].end,
           Len(S) = 0 => ZstdHeader < Len(E),
           NEW T \in Seq(Bytes), Len(T) = Len(S) + Len(E),
           \A i \in 1 .. Len(S) : T[i] = S[i], \A i \in 1 .. Len(E) : T[Len(S) + i] = E[i],
           Units(T) = Plaintext("mine", n)
    PROVE  StreamOf(T, "mine", n) /\ (EndBy(T, Len(T)) <=> E[Len(E)].end)
<1>1. Len(S) \in Nat /\ Len(E) \in Nat /\ Len(T) \in Nat /\ Len(T) > 0
  <2>1. Len(S) \in Nat /\ Len(E) \in Nat
    OBVIOUS
  <2> QED  BY <2>1
<1>2. T[Len(T)] = E[Len(E)] /\ Len(T) \in 1 .. Len(T)
  <2>1. Len(E) \in 1 .. Len(E)
    BY <1>1
  <2>2. T[Len(S) + Len(E)] = E[Len(E)]
    BY <2>1
  <2> QED  BY <1>1, <2>2
<1>3. ASSUME NEW i \in 1 .. Len(T), i # Len(T) PROVE ~T[i].end
  <2>1. CASE i <= Len(S)
    <3>1. i \in 1 .. Len(S)
      BY <1>1, <2>1
    <3>2. ~S[i].end
      BY <3>1 DEF EndBy
    <3> QED  BY <3>1, <3>2
  <2>2. CASE i > Len(S)
    <3>1. PICK j \in 1 .. Len(E) : Len(S) + j = i
      <4>1. i - Len(S) \in 1 .. Len(E) /\ Len(S) + (i - Len(S)) = i
        BY <1>1, <2>2
      <4> QED  BY <4>1
    <3>2. j \in 1 .. Len(E) - 1
      <4>1. j # Len(E)
        BY <1>3, <3>1
      <4> QED  BY <1>1, <4>1
    <3>3. T[Len(S) + j] = E[j] /\ ~E[j].end
      BY <3>1, <3>2
    <3> QED  BY <3>1, <3>3
  <2> QED  BY <1>1, <2>1, <2>2
<1>4. EndBy(T, Len(T)) <=> E[Len(E)].end
  <2>1. CASE E[Len(E)].end
    <3>1. T[Len(T)].end
      BY <1>2, <2>1
    <3> QED  BY <1>2, <2>1, <3>1 DEF EndBy
  <2>2. CASE ~E[Len(E)].end
    <3>1. ~T[Len(T)].end
      BY <1>2, <2>2
    <3>2. \A i \in 1 .. Len(T) : ~T[i].end
      BY <1>3, <3>1
    <3> QED  BY <2>2, <3>2 DEF EndBy
  <2> QED  BY <2>1, <2>2
<1>5. ZstdHeader <= Len(T)
  <2>1. CASE Len(S) = 0
    <3>1. ZstdHeader < Len(E)
      BY <2>1
    <3> QED  BY <1>1, <2>1, <3>1, Sizes
  <2>2. CASE Len(S) # 0
    <3>1. ZstdHeader <= Len(S)
      <4>1. S # <<>>
        BY <2>2, EmptySeq
      <4> QED  BY <4>1 DEF StreamOf
    <3> QED  BY <1>1, <3>1, Sizes
  <2> QED  BY <2>1, <2>2
<1>6. ASSUME NEW i \in 1 .. Len(T), i <= ZstdHeader PROVE T[i].units = <<>> /\ ~T[i].end
  <2>1. CASE Len(S) = 0
    <3>1. i \in 1 .. Len(E) - 1 /\ i \in 1 .. Len(E) /\ Len(S) + i = i
      <4>1. ZstdHeader < Len(E)
        BY <2>1
      <4> QED  BY <1>1, <1>6, <2>1, <4>1, Sizes
    <3>2. T[Len(S) + i] = E[i] /\ E[i].units = <<>> /\ ~E[i].end
      BY <3>1
    <3> QED  BY <3>1, <3>2
  <2>2. CASE Len(S) # 0
    <3>1. S # <<>>
      BY <2>2, EmptySeq
    <3>2. ZstdHeader <= Len(S)
      BY <3>1 DEF StreamOf
    <3>3. i \in 1 .. Len(S)
      BY <1>1, <1>6, <3>2, Sizes
    <3>4. S[i].units = <<>> /\ ~S[i].end
      BY <1>6, <3>3 DEF StreamOf
    <3> QED  BY <3>3, <3>4
  <2> QED  BY <2>1, <2>2
<1>7. Begins(Units(T), "mine", n) /\ Len(Units(T)) = n
  <2>1. /\ Plaintext("mine", n) \in Seq(PlainBytes) /\ Len(Plaintext("mine", n)) = n
        /\ \A i \in 1 .. n : Plaintext("mine", n)[i] = <<"mine", i>>
    BY PlaintextIs
  <2>2. n <= n
    OBVIOUS
  <2> DEFINE P == Plaintext("mine", n)
  <2> HIDE DEF P
  <2>3. Begins(P, "mine", n) /\ Len(P) = n
    BY <2>1, <2>2 DEF P, Begins
  <2> QED  BY <2>3 DEF P
<1>8. \A i \in 1 .. Len(T) : T[i].end => i = Len(T)
  BY <1>3
<1>9. StreamOf(T, "mine", n)
  BY <1>5, <1>6, <1>7, <1>8 DEF StreamOf
<1> QED  BY <1>4, <1>9

\* Output of the compressor that completes u: all that it had absorbed.
LEMMA StreamMore ==
    ASSUME NEW S \in Seq(Bytes), NEW n \in Nat, StreamOf(S, "mine", n), ~EndBy(S, Len(S)),
           NEW u \in Seq(PlainBytes), Cat(Units(S), u) = Plaintext("mine", n),
           NEW e \in BOOLEAN, NEW k \in Nat, k > 0, NEW first \in BOOLEAN, Len(S) = 0 => first
    PROVE  LET E == Output(first, k, u, e)
               T == Cat(S, E)
           IN  /\ E \in Seq(Bytes) /\ T \in Seq(Bytes) /\ Len(T) = Len(S) + Len(E)
               /\ StreamOf(T, "mine", n) /\ Units(T) = Plaintext("mine", n)
               /\ EndBy(T, Len(T)) <=> e
<1> DEFINE E == Output(first, k, u, e)
           T == Cat(S, E)
           nothing == Byte(<<>>, FALSE)
           last == Byte(u, e)
<1>1. /\ E \in Seq(Bytes) /\ Len(E) \in Nat /\ Len(E) > 0
      /\ first => Len(E) = ZstdHeader + k
      /\ E[Len(E)] = last
      /\ \A i \in 1 .. Len(E) - 1 : E[i] = nothing
      /\ Units(E) = u
  <2>1. OutputOf(E, first, k, u, e)
    BY OutputIs
  <2> HIDE DEF E
  <2> QED  BY <2>1 DEF OutputOf
<1>2. nothing.units = <<>> /\ nothing.end = FALSE /\ last.end = e
  BY ByteIs, EmptySeq
<1> HIDE DEF E, nothing, last
<1>3. T \in Seq(Bytes) /\ Len(T) = Len(S) + Len(E)
  BY <1>1, CatIs
<1>4. \A i \in 1 .. Len(S) : T[i] = S[i]
  BY <1>1, CatIs
<1>5. ASSUME NEW i \in 1 .. Len(E) PROVE T[Len(S) + i] = E[i]
  BY <1>1, CatSecond
<1>6. Units(T) = Plaintext("mine", n)
  <2>1. Units(T) = Cat(Units(S), Units(E))
    BY <1>1, UnitsConcat
  <2> QED  BY <1>1, <2>1, Zenon
<1> HIDE DEF T
<1>7. Len(S) = 0 => ZstdHeader < Len(E)
  BY <1>1, Sizes
<1>8. E[Len(E)].end = e /\ \A i \in 1 .. Len(E) - 1 : E[i].units = <<>> /\ ~E[i].end
  BY <1>1, <1>2
<1>9. E[Len(E)].end \in BOOLEAN
  BY <1>8
<1>10. StreamOf(T, "mine", n) /\ (EndBy(T, Len(T)) <=> E[Len(E)].end)
  BY <1>1, <1>3, <1>4, <1>5, <1>6, <1>7, <1>8, <1>9, StreamJoined
<1> QED  BY <1>1, <1>3, <1>6, <1>8, <1>10 DEF E, T

\* The end of a stream that goes on.
LEMMA RestMore ==
    ASSUME NEW S \in Seq(Bytes), NEW E \in Seq(Bytes), NEW a \in Nat, a <= Len(S)
    PROVE  LET T == Cat(S, E)
           IN  Cat(SubSeq(S, a + 1, Len(S)), E) = SubSeq(T, a + 1, Len(T))
<1> DEFINE T == Cat(S, E)
           r == SubSeq(S, a + 1, Len(S))
           q == SubSeq(T, a + 1, Len(T))
<1>1. Len(S) \in Nat /\ Len(E) \in Nat
  OBVIOUS
<1>2. T \in Seq(Bytes) /\ Len(T) = Len(S) + Len(E)
  BY CatIs
<1>3. \A i \in 1 .. Len(S) : T[i] = S[i]
  BY CatIs
<1>4. ASSUME NEW i \in 1 .. Len(E) PROVE T[Len(S) + i] = E[i]
  BY CatSecond
<1> HIDE DEF T
<1>5. r \in Seq(Bytes) /\ Len(r) = Len(S) - a /\ \A i \in 1 .. Len(S) - a : r[i] = S[a + i]
  <2>1. Len(S) <= Len(S)
    BY <1>1
  <2> QED  BY <1>1, <2>1, PartIs
<1>6. q \in Seq(Bytes) /\ Len(q) = Len(T) - a /\ \A i \in 1 .. Len(T) - a : q[i] = T[a + i]
  <2>1. Len(T) <= Len(T) /\ a <= Len(T) /\ Len(T) \in Nat
    BY <1>1, <1>2
  <2> QED  BY <1>2, <2>1, PartIs
<1> HIDE DEF r, q
<1>7. Cat(r, E) \in Seq(Bytes) /\ Len(Cat(r, E)) = Len(q)
  <2>1. r \in Seq(Bytes)
    BY <1>5
  <2>2. Cat(r, E) \in Seq(Bytes) /\ Len(Cat(r, E)) = Len(r) + Len(E)
    BY <2>1, CatIs
  <2> QED  BY <1>1, <1>2, <1>5, <1>6, <2>2
<1>8. ASSUME NEW i \in 1 .. Len(q) PROVE Cat(r, E)[i] = q[i]
  <2>1. r \in Seq(Bytes)
    BY <1>5
  <2>2. CASE i <= Len(S) - a
    <3>1. \A j \in 1 .. Len(r) : Cat(r, E)[j] = r[j]
      BY <2>1, CatIs
    <3>2. i \in 1 .. Len(S) - a /\ i \in 1 .. Len(T) - a /\ a + i \in 1 .. Len(S)
      BY <1>1, <1>2, <1>6, <2>2
    <3> QED  BY <1>3, <1>5, <1>6, <3>1, <3>2
  <2>3. CASE i > Len(S) - a
    <3> DEFINE j == i - (Len(S) - a)
    <3>1. j \in 1 .. Len(E) /\ Len(r) + j = i /\ Len(S) + j = a + i /\ i \in 1 .. Len(T) - a
      BY <1>1, <1>2, <1>5, <1>6, <2>3
    <3> HIDE DEF j
    <3>2. Cat(r, E)[Len(r) + j] = E[j]
      BY <2>1, <3>1, CatSecond
    <3>3. T[Len(S) + j] = E[j]
      BY <1>4, <3>1
    <3> QED  BY <1>6, <3>1, <3>2, <3>3
  <2> QED  BY <1>1, <1>2, <1>6, <2>2, <2>3
<1>9. Cat(r, E) = q
  BY <1>6, <1>7, <1>8, SeqEqual
<1> QED  BY <1>9 DEF T, r, q

\* What is left after one block.
LEMMA RestOf ==
    ASSUME NEW S \in Seq(Bytes), NEW a \in Nat, a <= Len(S), NEW p \in Seq(Bytes),
           Len(p) = Len(S) - a, \A i \in 1 .. Len(S) - a : p[i] = S[a + i],
           BlockBytes <= Len(p)
    PROVE  /\ a + BlockBytes <= Len(S)
           /\ SubSeq(p, 1, BlockBytes) = SubSeq(S, a + 1, a + BlockBytes)
           /\ SubSeq(p, BlockBytes + 1, Len(p)) = SubSeq(S, a + BlockBytes + 1, Len(S))
<1> DEFINE b == a + BlockBytes
<1>1. Len(S) \in Nat /\ Len(S) <= Len(S) /\ BlockBytes \in Nat
  BY Sizes
<1>2. \A i \in 1 .. Len(S) - a : p[i] = S[a + i]
  OBVIOUS
<1>3. b \in Nat /\ b <= Len(S) /\ a <= b /\ Len(p) \in Nat /\ Len(p) <= Len(p)
      /\ b - a = BlockBytes
  BY <1>1, <1>2
<1> HIDE DEF b
<1>4. SubSeq(p, 1, BlockBytes) = SubSeq(S, a + 1, b)
  <2> DEFINE x == SubSeq(p, 1, BlockBytes)
             y == SubSeq(S, a + 1, b)
  <2>1. x \in Seq(Bytes) /\ Len(x) = BlockBytes /\ \A i \in 1 .. BlockBytes : x[i] = p[i]
    BY <1>1, <1>2, SubSeqSplit
  <2>2. y \in Seq(Bytes) /\ Len(y) = b - a /\ \A i \in 1 .. b - a : y[i] = S[a + i]
    BY <1>1, <1>3, PartIs
  <2> HIDE DEF x, y
  <2>3. \A i \in 1 .. BlockBytes : x[i] = y[i]
    <3>1. \A i \in 1 .. BlockBytes : i \in 1 .. Len(S) - a /\ i \in 1 .. b - a
      BY <1>1, <1>3
    <3> QED  BY <1>2, <2>1, <2>2, <3>1
  <2>4. x = y
    BY <1>3, <2>1, <2>2, <2>3, SeqEqual
  <2> QED  BY <2>4 DEF x, y
<1>5. SubSeq(p, BlockBytes + 1, Len(p)) = SubSeq(S, b + 1, Len(S))
  <2> DEFINE x == SubSeq(p, BlockBytes + 1, Len(p))
             y == SubSeq(S, b + 1, Len(S))
             m == Len(S) - b
  <2>1. /\ x \in Seq(Bytes) /\ Len(x) = Len(p) - BlockBytes
        /\ \A i \in 1 .. Len(p) - BlockBytes : x[i] = p[BlockBytes + i]
    BY <1>1, <1>2, <1>3, PartIs
  <2>2. /\ y \in Seq(Bytes) /\ Len(y) = m /\ \A i \in 1 .. m : y[i] = S[b + i]
    BY <1>1, <1>3, PartIs
  <2>3. Len(p) - BlockBytes = m /\ \A i \in 1 .. m : /\ BlockBytes + i \in 1 .. Len(S) - a
                                                     /\ a + (BlockBytes + i) = b + i
    BY <1>1, <1>2, <1>3
  <2> HIDE DEF x, y, m
  <2>4. \A i \in 1 .. m : x[i] = y[i]
    BY <1>2, <2>1, <2>2, <2>3
  <2>5. x = y
    BY <2>1, <2>2, <2>3, <2>4, SeqEqual
  <2> QED  BY <2>5 DEF x, y
<1> QED  BY <1>2, <1>3, <1>4, <1>5 DEF b
-----------------------------------------------------------------------------
(* seal_object_v1 preserves the invariant.                                 *)

\* The initial states satisfy the invariant, with an empty stream.
LEMMA InitInv ==
    Init => IInv
<1> SUFFICES ASSUME Init PROVE Inv(<<>>)
  <2>1. <<>> \in Seq(Bytes)
    BY EmptySeq
  <2> QED  BY <2>1 DEF IInv
<1> DEFINE S == <<>>
<1>1. /\ S \in Seq(Bytes) /\ Len(S) = 0 /\ <<>> \in Seq(PlainBytes) /\ <<>> \in Seq(AnyFrame)
      /\ <<>> \in Seq(Bytes) /\ Len(<<>>) = 0
  BY EmptySeq
<1> HIDE DEF S
<1>2. Units(S) = <<>> /\ EndBy(S, 0) = FALSE /\ Units(SubSeq(S, 1, 0)) = <<>>
  <2>1. Units(S) = <<>>
    <3>1. \A i \in 1 .. Len(S) : S[i].units = <<>>
      BY <1>1
    <3> QED  BY <1>1, <3>1, UnitsNone
  <2> QED  BY <1>1, <2>1, EmptyBeginning
<1>3. StreamOf(S, "mine", 0)
  <2>1. Begins(Units(S), "mine", 0)
    BY <1>1, <1>2 DEF Begins
  <2> QED  BY <1>1, <1>2, <2>1 DEF StreamOf
<1>4. Cat(Units(S), <<>>) = Plaintext("mine", 0)
  <2>1. Cat(<<>>, <<>>) = <<>>
    BY <1>1, CatEmpty
  <2>2. Plaintext("mine", 0) = <<>>
    <3>1. Plaintext("mine", 0) \in Seq(PlainBytes) /\ Len(Plaintext("mine", 0)) = 0
      BY PlaintextIs
    <3> QED  BY <3>1, EmptySeq
  <2> QED  BY <1>2, <2>1, <2>2, Zenon
<1>5. SubSeq(S, 0 * BlockBytes + 1, 0) = <<>>
  <2>1. 0 * BlockBytes + 1 = 1
    BY Sizes
  <2>2. SubSeq(S, 1, 0) = <<>>
    BY SubSeqEmpty
  <2> QED  BY <2>1, <2>2
<1>6. Ends(<<>>)[0] = HeaderBytes
  BY <1>1, EndsStep
<1>7. WriterInv(S)
  <2>1. /\ wpc = "start" /\ left \in Nat /\ plaintext_bytes = 0 /\ compressed_bytes = 0
        /\ ciphertext_bytes = 0 /\ block_count = 0 /\ absorbed = <<>> /\ pending = <<>>
    BY Sizes DEF Init
  <2>2. 0 * BlockBytes <= 0
    BY Sizes
  <2> QED  BY <1>1, <1>2, <1>3, <1>4, <1>5, <2>1, <2>2, Sizes
           DEF WriterInv, BeforeEnd, AfterEnd
<1>8. file.header = "mine" /\ file.frames = <<>> /\ file.cut = HeaderBytes
      /\ file = Stored(file.header, file.frames, file.cut)
  BY DEF Init, Stored
<1>9. FileInv(S)
  BY <1>1, <1>6, <1>8, Sizes DEF FileInv
<1>10. UndamagedInv
  BY <1>1, <1>8 DEF UndamagedInv, Init
<1>11. Size(file) = 0
  BY <1>1, <1>6, <1>8, Sizes DEF Size
<1>12. PlaceInv
  <2>1. /\ rpc = "idle" /\ bytes = 0 /\ need = 0 /\ idx = 0 /\ ~next
        /\ next \in BOOLEAN /\ damages = 0
    BY DEF Init
  <2>2. idx \in 0 .. Len(file.frames)
    BY <1>1, <1>8, <2>1
  <2> QED  BY <1>11, <2>1, <2>2, Sizes DEF PlaceInv, Held, Over
<1>13. SeenInv(S)
  BY DEF SeenInv, Init, Over
<1>14. DecodedInv(S)
  <2>1. /\ rpc = "idle" /\ seen = 0 /\ out = <<>> /\ total = 0 /\ held = <<>>
        /\ inflow = <<>> /\ ended = FALSE /\ complete = FALSE
    BY DEF Init
  <2>2. StreamHere(S) = S /\ SizeHere = 0
    BY <1>8 DEF StreamHere, SizeHere, Init
  <2>3. Begins(out, file.header, SizeHere)
    BY <1>1, <2>1, <2>2 DEF Begins
  <2>4. out = Units(SubSeq(StreamHere(S), 1, seen)) /\ ended = EndBy(StreamHere(S), seen)
    BY <1>2, <2>1, <2>2, Zenon
  <2>5. total = Len(out) /\ held \in Seq(PlainBytes) /\ inflow \in Seq(Bytes) /\ total <= MaxPlaintext
    BY <1>1, <2>1, Sizes
  <2> QED  BY <2>1, <2>3, <2>4, <2>5 DEF DecodedInv
<1>15. SealedOpens
  BY DEF SealedOpens, Init
<1> QED  BY <1>7, <1>9, <1>10, <1>12, <1>13, <1>14, <1>15 DEF Inv, S

\* While the writer works the reader has not begun.
LEMMA WriterKeeps ==
    ASSUME NEW S \in Seq(Bytes), Inv(S), ~SealEnded, UNCHANGED reader, UNCHANGED damages,
           NEW T \in Seq(Bytes), WriterInv(T)', FileInv(T)', UndamagedInv'
    PROVE  Inv(T)'
<1>1. rpc = "idle" /\ damages = 0
  BY Writing
<1>2. /\ file'.frames \in Seq(AnyFrame)
      /\ file'.cut \in 0 .. Ends(file'.frames)[Len(file'.frames)]
  BY DEF FileInv
<1>3. plaintext_bytes' \in Nat
  BY Sizes DEF WriterInv
<1>4. damages' \in Nat /\ (~SealEnded' => damages' = 0)
  BY <1>1
<1>5. PlaceInv' /\ SeenInv(T)' /\ DecodedInv(T)' /\ SealedOpens'
  BY <1>1, <1>2, <1>3, <1>4, ReaderIdle
<1> QED  BY <1>5 DEF Inv

\* The writer takes in bytes and leaves the file alone.
LEMMA FileKeeps ==
    ASSUME NEW S \in Seq(Bytes), Inv(S), ~SealEnded, UNCHANGED storage,
           UNCHANGED <<block_count, ciphertext_bytes>>,
           wpc' = "failed" \/ (wpc # "start" /\ wpc' \notin {"start", "finished"}),
           NEW E \in Seq(Bytes)
    PROVE  FileInv(Cat(S, E))' /\ UndamagedInv'
<1>1. UNCHANGED <<file, damages>>
  BY Unchanged
<1>2. /\ damages = 0 /\ file.header = "mine" /\ file.frames \in Seq(AnyFrame)
      /\ Len(file.frames) = block_count
      /\ \A i \in 1 .. Len(file.frames) :
            /\ FrameOf(file.frames[i], "mine", S) /\ file.frames[i].final = FALSE
            /\ file.frames[i].obj = "mine" /\ file.frames[i].index = i - 1
      /\ wpc # "start" => file.cut = 0 /\ ciphertext_bytes = Size(file)
  BY Writing
<1>3. \A i \in 1 .. Len(file.frames) : FrameOf(file.frames[i], "mine", Cat(S, E))
  BY <1>2, FrameStays
<1>4. FileInv(Cat(S, E))'
  <2>1. /\ file = Stored(file.header, file.frames, file.cut)
        /\ file.header \in {"mine", "other", "bad"} /\ file.frames \in Seq(AnyFrame)
        /\ file.cut \in 0 .. Ends(file.frames)[Len(file.frames)]
    BY DEF Inv, FileInv
  <2> QED  BY <1>1, <1>2, <1>3, <2>1 DEF FileInv
<1>5. UndamagedInv'
  BY <1>1, <1>2 DEF UndamagedInv
<1> QED  BY <1>4, <1>5

\* A frame is written after the others, but for what is cut off it.
LEMMA FrameWritten ==
    ASSUME NEW S \in Seq(Bytes), Inv(S), ~SealEnded, wpc # "start",
           NEW f, FrameOf(f, "mine", S), f.index = block_count,
           NEW cut \in 0 .. FrameBytes(f), file' = Stored("mine", Append(file.frames, f), cut),
           f.final => wpc' = "finished" \/ (wpc' = "failed" /\ cut > 0)
    PROVE  /\ FileInv(S)'
           /\ Size(file') = ciphertext_bytes + FrameBytes(f) - cut
           /\ file'.header = "mine" /\ file'.cut = cut
           /\ Len(file'.frames) = block_count + 1
           /\ \A i \in 1 .. Len(file'.frames) :
                 /\ file'.frames[i].obj = "mine" /\ file'.frames[i].index = i - 1
                 /\ file'.frames[i].final = (f.final /\ i = Len(file'.frames))
<1> DEFINE fs == file.frames
           gs == Append(fs, f)
<1>1. /\ file'.header = "mine" /\ file'.frames = gs /\ file'.cut = cut
      /\ file' = Stored(file'.header, file'.frames, file'.cut)
  BY DEF Stored
<1>2. /\ fs \in Seq(AnyFrame) /\ Len(fs) = block_count /\ Len(fs) \in Nat
      /\ \A i \in 1 .. Len(fs) :
            /\ FrameOf(fs[i], "mine", S) /\ fs[i].final = FALSE
            /\ fs[i].obj = "mine" /\ fs[i].index = i - 1
      /\ ciphertext_bytes = Ends(fs)[Len(fs)] /\ Ends(fs)[Len(fs)] \in Nat
  BY Writing
<1>3. f \in AnyFrame /\ f.obj = "mine" /\ FrameBytes(f) \in Nat /\ f.final \in BOOLEAN
  BY FrameIs DEF FrameOf
<1> HIDE DEF fs
<1>4. /\ gs \in Seq(AnyFrame) /\ Len(gs) = Len(fs) + 1 /\ gs[Len(fs) + 1] = f
      /\ \A i \in 1 .. Len(fs) : gs[i] = fs[i]
      /\ Ends(gs)[Len(fs) + 1] = Ends(fs)[Len(fs)] + FrameBytes(f)
  BY <1>2, <1>3, EndsAppend
<1> HIDE DEF gs
<1>5. Size(file') = ciphertext_bytes + FrameBytes(f) - cut
  <2>1. Size(file') = Ends(file'.frames)[Len(file'.frames)] - file'.cut
    BY DEF Size
  <2>2. Ends(gs)[Len(gs)] = ciphertext_bytes + FrameBytes(f)
    BY <1>2, <1>4
  <2>3. Ends(file'.frames)[Len(file'.frames)] = ciphertext_bytes + FrameBytes(f)
    BY <1>1, <2>2, Zenon
  <2>4. file'.cut = cut
    BY <1>1
  <2> DEFINE g == file'
  <2>5. Size(g) = Ends(g.frames)[Len(g.frames)] - g.cut
    BY DEF Size
  <2>6. Ends(g.frames)[Len(g.frames)] = ciphertext_bytes + FrameBytes(f) /\ g.cut = cut
    BY <2>3, <2>4
  <2> HIDE DEF g
  <2>7. Size(g) = ciphertext_bytes + FrameBytes(f) - cut
    BY <1>2, <1>3, <2>5, <2>6
  <2> QED  BY <2>7 DEF g
<1>6. \A i \in 1 .. Len(gs) : i \in 1 .. Len(fs) \/ i = Len(fs) + 1
  BY <1>2, <1>4
<1>7. \A i \in 1 .. Len(gs) : FrameOf(gs[i], "mine", S) /\ gs[i].obj = "mine" /\ gs[i].index = i - 1
  BY <1>2, <1>3, <1>4, <1>6
<1>8. ASSUME NEW i \in 1 .. Len(gs) PROVE gs[i].final = (f.final /\ i = Len(gs))
  <2>1. CASE i \in 1 .. Len(fs)
    <3>1. gs[i].final = FALSE /\ i # Len(gs)
      BY <1>2, <1>4, <2>1
    <3> QED  BY <1>3, <3>1
  <2>2. CASE i = Len(fs) + 1
    <3>1. gs[i] = f /\ i = Len(gs)
      BY <1>4, <2>2
    <3> QED  BY <1>3, <3>1
  <2> QED  BY <1>6, <2>1, <2>2
<1>9. FileInv(S)'
  <2>1. cut \in 0 .. Ends(gs)[Len(gs)]
    BY <1>2, <1>3, <1>4
  <2>2. ASSUME NEW i \in 1 .. Len(gs), gs[i].final
        PROVE  wpc' = "finished" \/ (wpc' = "failed" /\ Ends(gs)[i] > Size(file'))
    <3>1. f.final /\ i = Len(gs)
      BY <1>8, <2>2
    <3>2. Ends(gs)[i] = ciphertext_bytes + FrameBytes(f)
      BY <1>2, <1>4, <3>1
    <3>3. cut > 0 => Ends(gs)[i] > Size(file')
      BY <1>2, <1>3, <1>5, <3>2
    <3> QED  BY <3>1, <3>3
  <2> QED  BY <1>1, <1>4, <1>7, <2>1, <2>2 DEF FileInv
<1> QED  BY <1>1, <1>2, <1>4, <1>5, <1>7, <1>8, <1>9
\* The header is written before any frame.
LEMMA WriteHeaderKeeps ==
    ASSUME NEW S \in Seq(Bytes), Inv(S), WriteHeader
    PROVE  Inv(S)'
<1>1. /\ wpc = "start" /\ wpc' = "read" /\ file' = Stored("mine", <<>>, 0)
      /\ ciphertext_bytes' = HeaderBytes
      /\ UNCHANGED <<left, plaintext_bytes, compressed_bytes, block_count, absorbed,
                     pending, descriptor, damages>>
      /\ UNCHANGED reader
  BY DEF WriteHeader
<1>2. ~SealEnded
  BY <1>1 DEF SealEnded
<1>3. damages = 0 /\ file.frames = <<>> /\ block_count = 0
  BY <1>1, <1>2, Writing DEF Inv, UndamagedInv
<1>4. file'.header = "mine" /\ file'.frames = <<>> /\ file'.cut = 0
      /\ file' = Stored(file'.header, file'.frames, file'.cut)
  BY <1>1 DEF Stored
<1>5. <<>> \in Seq(AnyFrame) /\ Len(<<>>) = 0
  BY EmptySeq
<1>6. Ends(<<>>)[0] = HeaderBytes
  BY <1>5, EndsStep
<1>7. WriterInv(S)'
  <2>1. WriterInv(S)
    BY DEF Inv
  <2> QED  BY <1>1, <2>1, Sizes DEF WriterInv, BeforeEnd, AfterEnd
<1>8. FileInv(S)'
  BY <1>4, <1>5, <1>6, Sizes DEF FileInv
<1>9. UndamagedInv'
  <2> DEFINE g == file'
  <2>1. Size(g) = Ends(g.frames)[Len(g.frames)] - g.cut
    BY DEF Size
  <2>2. Ends(g.frames)[Len(g.frames)] = HeaderBytes /\ g.cut = 0
    BY <1>4, <1>5, <1>6
  <2> HIDE DEF g
  <2>3. Size(g) = HeaderBytes
    BY <2>1, <2>2, Sizes
  <2>4. Size(file') = HeaderBytes
    BY <2>3 DEF g
  <2> QED  BY <1>1, <1>3, <1>4, <1>5, <2>4 DEF UndamagedInv
<1> QED  BY <1>1, <1>2, <1>7, <1>8, <1>9, WriterKeeps

\* The end of the plaintext changes only what the writer does next.
LEMMA SourceEndsKeeps ==
    ASSUME NEW S \in Seq(Bytes), Inv(S), SourceEnds
    PROVE  Inv(S)'
<1>1. /\ wpc = "read" /\ wpc' = "finish"
      /\ UNCHANGED <<left, plaintext_bytes, compressed_bytes, ciphertext_bytes,
                     block_count, absorbed, pending, descriptor>>
      /\ UNCHANGED storage /\ UNCHANGED reader
  BY DEF SourceEnds
<1>2. ~SealEnded /\ <<>> \in Seq(Bytes) /\ Cat(S, <<>>) = S /\ UNCHANGED damages
  BY <1>1, CatEmpty, EmptySeq, Unchanged DEF SealEnded
<1>3. WriterInv(S)'
  <2>1. WriterInv(S)
    BY DEF Inv
  <2> QED  BY <1>1, <2>1 DEF WriterInv, BeforeEnd, AfterEnd
<1>4. FileInv(Cat(S, <<>>))' /\ UndamagedInv'
  BY <1>1, <1>2, FileKeeps
<1>5. FileInv(S)'
  BY <1>2, <1>4, Zenon DEF FileInv
<1> QED  BY <1>1, <1>2, <1>3, <1>4, <1>5, WriterKeeps

\* A chunk read is absorbed: units and absorbed still make the plaintext.
LEMMA PlaintextKeeps ==
    ASSUME NEW S \in Seq(Bytes), Inv(S), NEW n \in 1 .. ChunkBytes, write_plaintext(n)
    PROVE  Inv(S)'
<1>1. /\ wpc = "read" /\ n <= left /\ left' = left - n
      /\ UNCHANGED <<compressed_bytes, ciphertext_bytes, block_count, pending, descriptor>>
      /\ UNCHANGED storage /\ UNCHANGED reader
  BY DEF write_plaintext
<1>2. ~SealEnded /\ <<>> \in Seq(Bytes) /\ Cat(S, <<>>) = S /\ UNCHANGED damages
  BY <1>1, CatEmpty, EmptySeq, Unchanged DEF SealEnded
<1>3. WriterInv(S) /\ left' \in Nat /\ n \in Nat
  BY <1>1, Sizes DEF Inv, WriterInv
<1>4. wpc' \in {"failed", "compress"}
  BY DEF write_plaintext
<1>5. WriterInv(S)'
  <2>1. CASE plaintext_bytes + n > MaxPlaintext
    <3>1. wpc' = "failed" /\ UNCHANGED <<plaintext_bytes, absorbed>>
      BY <2>1 DEF write_plaintext
    <3> QED  BY <1>1, <1>3, <3>1 DEF WriterInv, BeforeEnd, AfterEnd
  <2>2. CASE ~(plaintext_bytes + n > MaxPlaintext)
    <3> DEFINE P == [i \in 1 .. n |-> <<"mine", plaintext_bytes + i>>]
    <3>1. /\ wpc' = "compress" /\ plaintext_bytes' = plaintext_bytes + n
          /\ absorbed' = absorbed \o P
      BY <2>2 DEF write_plaintext
    <3>2. absorbed' = Cat(absorbed, P)
      BY <3>1, Zenon DEF Cat
    <3>3. plaintext_bytes \in Nat /\ absorbed \in Seq(PlainBytes) /\ plaintext_bytes' \in 0 .. MaxPlaintext
      BY <1>3, <2>2, <3>1, Sizes DEF WriterInv
    <3>4. P \in Seq(PlainBytes) /\ Cat(Plaintext("mine", plaintext_bytes), P) = Plaintext("mine", plaintext_bytes + n)
      BY <1>3, <3>3, PlaintextMore
    <3>5. Units(S) \in Seq(PlainBytes)
      BY UnitsType
    <3>6. Cat(Units(S), absorbed) = Plaintext("mine", plaintext_bytes)
      BY <1>1, <1>3 DEF WriterInv
    <3> HIDE DEF P
    <3>7. absorbed' \in Seq(PlainBytes)
      BY <3>2, <3>3, <3>4, CatIs
    <3>8. Cat(Units(S), absorbed') = Plaintext("mine", plaintext_bytes')
      <4>1. Cat(Cat(Units(S), absorbed), P) = Cat(Units(S), Cat(absorbed, P))
        BY <3>3, <3>4, <3>5, CatAssociative
      <4> QED  BY <3>1, <3>2, <3>4, <3>6, <4>1, Zenon
    <3>9. StreamOf(S, "mine", plaintext_bytes')
      <4>1. StreamOf(S, "mine", plaintext_bytes) /\ ~EndBy(S, Len(S))
        BY <1>1, <1>3 DEF WriterInv, BeforeEnd
      <4>2. plaintext_bytes' \in Nat /\ plaintext_bytes <= plaintext_bytes'
        BY <1>3, <3>1, <3>3
      <4> QED  BY <3>3, <4>1, <4>2, StreamGrows
    <3> QED  BY <1>1, <1>3, <3>1, <3>3, <3>7, <3>8, <3>9 DEF WriterInv, BeforeEnd, AfterEnd
  <2> QED  BY <2>1, <2>2
<1>6. FileInv(Cat(S, <<>>))' /\ UndamagedInv'
  BY <1>1, <1>2, <1>4, FileKeeps
<1>7. FileInv(S)'
  BY <1>2, <1>6, Zenon DEF FileInv
<1> QED  BY <1>1, <1>2, <1>5, <1>6, <1>7, WriterKeeps

\* What the compressor emits joins the pending bytes, or nothing does.
LEMMA CompressedKeeps ==
    ASSUME NEW S \in Seq(Bytes), Inv(S), NEW n \in 1 .. MaxEmit,
           wpc \in {"compress", "finish"},
           \/ write_compressed(Emitted(n, TRUE), "last_blocks")
           \/ write_compressed(Emitted(n, FALSE), "blocks")
    PROVE  \E T \in Seq(Bytes) : Inv(T)'
<1>1. PICK e \in BOOLEAN, then \in {"last_blocks", "blocks"} :
         then = (IF e THEN "last_blocks" ELSE "blocks") /\ write_compressed(Emitted(n, e), then)
  <2>1. CASE write_compressed(Emitted(n, TRUE), "last_blocks")
    <3> WITNESS TRUE \in BOOLEAN, "last_blocks" \in {"last_blocks", "blocks"}
    <3> QED  BY <2>1
  <2>2. CASE write_compressed(Emitted(n, FALSE), "blocks")
    <3> WITNESS FALSE \in BOOLEAN, "blocks" \in {"last_blocks", "blocks"}
    <3> QED  BY <2>2
  <2> QED  BY <2>1, <2>2
<1> DEFINE first == compressed_bytes = 0
           E0 == Output(first, n, absorbed, e)
<1>2. Emitted(n, e) = E0
  BY Zenon DEF Emitted, Output, Cat
<1>3. /\ UNCHANGED <<left, plaintext_bytes, ciphertext_bytes, block_count, descriptor>>
      /\ UNCHANGED storage /\ UNCHANGED reader /\ absorbed' = <<>>
  BY <1>1 DEF write_compressed
<1>4. ~SealEnded /\ <<>> \in Seq(Bytes) /\ Cat(S, <<>>) = S /\ UNCHANGED damages /\ wpc # "start"
  BY <1>3, CatEmpty, EmptySeq, Unchanged DEF SealEnded
<1>5. WriterInv(S) /\ n \in Nat /\ n > 0 /\ Len(S) \in Nat
  BY Sizes DEF Inv
<1>6. /\ absorbed \in Seq(PlainBytes) /\ plaintext_bytes \in Nat /\ block_count \in Nat
      /\ StreamOf(S, "mine", plaintext_bytes) /\ ~EndBy(S, Len(S)) /\ compressed_bytes = Len(S)
      /\ Cat(Units(S), absorbed) = Plaintext("mine", plaintext_bytes)
      /\ block_count * BlockBytes <= Len(S)
      /\ pending = SubSeq(S, block_count * BlockBytes + 1, Len(S))
  BY <1>5 DEF WriterInv, BeforeEnd
<1>7. first \in BOOLEAN /\ (Len(S) = 0 => first)
  BY <1>6
<1> HIDE DEF first
<1>8. /\ E0 \in Seq(Bytes) /\ Cat(S, E0) \in Seq(Bytes) /\ Len(Cat(S, E0)) = Len(S) + Len(E0)
      /\ StreamOf(Cat(S, E0), "mine", plaintext_bytes)
      /\ Units(Cat(S, E0)) = Plaintext("mine", plaintext_bytes)
      /\ EndBy(Cat(S, E0), Len(Cat(S, E0))) <=> e
  BY <1>5, <1>6, <1>7, StreamMore
<1> HIDE DEF E0
<1>9. PICK E \in Seq(Bytes) : E = E0
  BY <1>8
<1>10. PICK T \in Seq(Bytes) : T = Cat(S, E)
  BY <1>8, <1>9
<1>11. /\ E \in Seq(Bytes) /\ T \in Seq(Bytes) /\ Len(T) = Len(S) + Len(E)
       /\ StreamOf(T, "mine", plaintext_bytes) /\ Units(T) = Plaintext("mine", plaintext_bytes)
       /\ EndBy(T, Len(T)) <=> e
  BY <1>8, <1>9, <1>10, Zenon
<1>12. /\ IF compressed_bytes + Len(E) > MaxCompressed
          THEN wpc' = "failed" /\ UNCHANGED <<compressed_bytes, pending>>
          ELSE wpc' = then /\ compressed_bytes' = compressed_bytes + Len(E) /\ pending' = Cat(pending, E)
  BY <1>1, <1>2, <1>9, Zenon DEF write_compressed, Cat
<1>13. wpc' \in {"failed", "blocks", "last_blocks"}
  BY <1>1, <1>12
<1>14. <<>> \in Seq(PlainBytes)
  BY EmptySeq
<1>15. CASE compressed_bytes + Len(E) > MaxCompressed
  <2>1. wpc' = "failed" /\ UNCHANGED <<compressed_bytes, pending>>
    BY <1>12, <1>15
  <2>2. WriterInv(S)'
    BY <1>3, <1>5, <1>14, <2>1 DEF WriterInv, BeforeEnd, AfterEnd
  <2>3. FileInv(Cat(S, <<>>))' /\ UndamagedInv'
    BY <1>3, <1>4, <2>1, FileKeeps
  <2>4. FileInv(S)'
    BY <1>4, <2>3, Zenon DEF FileInv
  <2>5. Inv(S)'
    BY <1>3, <1>4, <2>2, <2>3, <2>4, WriterKeeps
  <2> QED  BY <2>5
<1>16. CASE ~(compressed_bytes + Len(E) > MaxCompressed)
  <2>1. wpc' = then /\ compressed_bytes' = Len(T) /\ pending' = Cat(pending, E)
    BY <1>6, <1>11, <1>12, <1>16
  <2>2. then = IF e THEN "last_blocks" ELSE "blocks"
    BY <1>1
  <2>3. block_count * BlockBytes \in Nat /\ block_count * BlockBytes <= Len(T)
    <3>1. block_count * BlockBytes \in Nat /\ Len(E) \in Nat
      BY <1>6, <1>11, Blocks
    <3> QED  BY <1>5, <1>6, <1>11, <3>1
  <2>4. pending' = SubSeq(T, block_count * BlockBytes + 1, Len(T))
    <3>1. Cat(SubSeq(S, block_count * BlockBytes + 1, Len(S)), E) = SubSeq(T, block_count * BlockBytes + 1, Len(T))
      BY <1>6, <1>11, <1>10, <2>3, RestMore
    <3> QED  BY <1>6, <2>1, <3>1, Zenon
  <2>5. Cat(Units(T), <<>>) = Plaintext("mine", plaintext_bytes)
    <3>1. Units(T) \in Seq(PlainBytes)
      BY <1>11, UnitsType
    <3>2. Cat(Units(T), <<>>) = Units(T)
      BY <3>1, CatEmpty
    <3> QED  BY <1>11, <3>2, Zenon
  <2>6. WriterInv(T)'
    <3>1. /\ left \in Nat /\ plaintext_bytes \in 0 .. MaxPlaintext
          /\ ciphertext_bytes \in 0 .. MaxCiphertext
      BY <1>5 DEF WriterInv
    <3>2. CASE e
      <4>1. wpc' = "last_blocks" /\ EndBy(T, Len(T))
        BY <1>11, <2>1, <2>2, <3>2
      <4> QED  BY <1>3, <1>6, <1>11, <1>14, <2>1, <2>3, <2>4, <2>5, <3>1, <4>1 DEF WriterInv, BeforeEnd, AfterEnd
    <3>3. CASE ~e
      <4>1. wpc' = "blocks" /\ ~EndBy(T, Len(T))
        BY <1>11, <2>1, <2>2, <3>3
      <4> QED  BY <1>3, <1>6, <1>11, <1>14, <2>1, <2>3, <2>4, <2>5, <3>1, <4>1 DEF WriterInv, BeforeEnd, AfterEnd
    <3> QED  BY <3>2, <3>3
  <2>7. FileInv(Cat(S, E))' /\ UndamagedInv'
    BY <1>3, <1>4, <1>11, <1>13, FileKeeps
  <2>8. FileInv(T)'
    BY <1>10, <2>7, Zenon DEF FileInv
  <2>9. Inv(T)'
    BY <1>3, <1>4, <1>11, <2>6, <2>7, <2>8, WriterKeeps
  <2> QED  BY <1>11, <2>9
<1> QED  BY <1>15, <1>16

\* The compressor emits while the source has more,
LEMMA CompressKeeps ==
    ASSUME NEW S \in Seq(Bytes), Inv(S), Compress
    PROVE  \E T \in Seq(Bytes) : Inv(T)'
<1>1. wpc = "compress"
  BY DEF Compress
<1>2. ASSUME NEW n \in 1 .. MaxEmit, write_compressed(Emitted(n, FALSE), "blocks")
      PROVE  \E T \in Seq(Bytes) : Inv(T)'
  BY <1>1, <1>2, CompressedKeeps
<1>3. ASSUME wpc' = "read",
             UNCHANGED <<left, plaintext_bytes, compressed_bytes, ciphertext_bytes,
                         block_count, absorbed, pending, descriptor>>,
             UNCHANGED storage, UNCHANGED reader
      PROVE  Inv(S)'
  <2>1. ~SealEnded /\ <<>> \in Seq(Bytes) /\ Cat(S, <<>>) = S /\ UNCHANGED damages
    BY <1>1, <1>3, CatEmpty, EmptySeq, Unchanged DEF SealEnded
  <2>2. WriterInv(S)'
    <3>1. WriterInv(S)
      BY DEF Inv
    <3> QED  BY <1>1, <1>3, <3>1 DEF WriterInv, BeforeEnd, AfterEnd
  <2>3. FileInv(Cat(S, <<>>))' /\ UndamagedInv'
    BY <1>1, <1>3, <2>1, FileKeeps
  <2>4. FileInv(S)'
    BY <2>1, <2>3, Zenon DEF FileInv
  <2> QED  BY <1>3, <2>1, <2>2, <2>3, <2>4, WriterKeeps
<1>4. \/ \E n \in 1 .. MaxEmit : write_compressed(Emitted(n, FALSE), "blocks")
      \/ /\ wpc' = "read"
         /\ UNCHANGED <<left, plaintext_bytes, compressed_bytes, ciphertext_bytes,
                        block_count, absorbed, pending, descriptor>>
         /\ UNCHANGED storage /\ UNCHANGED reader
  BY DEF Compress
<1> QED  BY <1>2, <1>3, <1>4

\* and at the end all that is left, with the end of the frame.
LEMMA FinishCompressKeeps ==
    ASSUME NEW S \in Seq(Bytes), Inv(S), FinishCompress
    PROVE  \E T \in Seq(Bytes) : Inv(T)'
<1>1. wpc = "finish"
  BY DEF FinishCompress
<1>2. PICK n \in 1 .. MaxEmit : write_compressed(Emitted(n, TRUE), "last_blocks")
  BY DEF FinishCompress
<1> QED  BY <1>1, <1>2, CompressedKeeps
\* The frame the writer would write next.
LEMMA NextFrameIs ==
    ASSUME NEW S \in Seq(Bytes), Inv(S), ~SealEnded
    PROVE  /\ block_count * BlockBytes \in Nat /\ block_count * BlockBytes <= Len(S)
           /\ (block_count + 1) * BlockBytes = block_count * BlockBytes + BlockBytes
           /\ Len(pending) = Len(S) - block_count * BlockBytes
           /\ Len(pending) >= BlockBytes =>
                 /\ FrameOf(NextFrame, "mine", S) /\ NextFrame.index = block_count
                 /\ NextFrame.final = FALSE
                 /\ block_count * BlockBytes + BlockBytes <= Len(S)
                 /\ SubSeq(pending, BlockBytes + 1, Len(pending)) =
                       SubSeq(S, block_count * BlockBytes + BlockBytes + 1, Len(S))
           /\ Len(pending) < BlockBytes =>
                 /\ FrameOf(LastFrame, "mine", S) /\ LastFrame.index = block_count
                 /\ LastFrame.final = TRUE
<1> DEFINE a == block_count * BlockBytes
<1>1. WriterInv(S) /\ wpc # "finished" /\ Len(S) \in Nat /\ Len(S) <= Len(S) /\ block_count \in Nat
  BY DEF Inv, WriterInv, SealEnded
<1>2. a <= Len(S) /\ pending = SubSeq(S, a + 1, Len(S))
  BY <1>1 DEF WriterInv
<1>3. a \in Nat /\ (block_count + 1) * BlockBytes = a + BlockBytes
  BY <1>1, Blocks
<1> HIDE DEF a
<1>4. pending \in Seq(Bytes) /\ Len(pending) = Len(S) - a /\ \A i \in 1 .. Len(S) - a : pending[i] = S[a + i]
  BY <1>1, <1>2, <1>3, PartIs
<1>5. ASSUME Len(pending) >= BlockBytes
      PROVE  /\ FrameOf(NextFrame, "mine", S) /\ NextFrame.index = block_count
             /\ NextFrame.final = FALSE
             /\ a + BlockBytes <= Len(S)
             /\ SubSeq(pending, BlockBytes + 1, Len(pending)) = SubSeq(S, a + BlockBytes + 1, Len(S))
  <2>1. /\ a + BlockBytes <= Len(S)
        /\ SubSeq(pending, 1, BlockBytes) = SubSeq(S, a + 1, a + BlockBytes)
        /\ SubSeq(pending, BlockBytes + 1, Len(pending)) = SubSeq(S, a + BlockBytes + 1, Len(S))
    <3>1. BlockBytes <= Len(pending)
      BY <1>1, <1>3, <1>4, <1>5, Sizes
    <3> QED  BY <1>2, <1>3, <1>4, <3>1, RestOf
  <2> DEFINE b == SubSeq(pending, 1, BlockBytes)
  <2>2. b \in Seq(Bytes)
    <3>1. a + BlockBytes \in Nat /\ a <= a + BlockBytes
      BY <1>3, Sizes
    <3>2. SubSeq(S, a + 1, a + BlockBytes) \in Seq(Bytes)
      BY <1>3, <2>1, <3>1, PartIs
    <3> QED  BY <2>1, <3>2
  <2>3. NextFrame = Frame("mine", block_count, FALSE, b)
    BY DEF NextFrame
  <2> HIDE DEF b
  <2>4. NextFrame \in AnyFrame /\ NextFrame.obj = "mine" /\ NextFrame.index = block_count
        /\ NextFrame.final = FALSE /\ NextFrame.body = b
    BY <1>1, <2>2, <2>3 DEF AnyFrame, Frame
  <2>5. FrameOf(NextFrame, "mine", S)
    BY <1>2, <2>1, <2>4 DEF FrameOf, a, b
  <2> QED  BY <2>1, <2>4, <2>5
<1>6. ASSUME Len(pending) < BlockBytes
      PROVE  /\ FrameOf(LastFrame, "mine", S) /\ LastFrame.index = block_count
             /\ LastFrame.final = TRUE
  <2>1. LastFrame = Frame("mine", block_count, TRUE, pending)
    BY DEF LastFrame
  <2>2. LastFrame \in AnyFrame /\ LastFrame.obj = "mine" /\ LastFrame.index = block_count
        /\ LastFrame.final = TRUE /\ LastFrame.body = pending
    BY <1>1, <1>4, <2>1 DEF AnyFrame, Frame
  <2>3. Len(S) < a + BlockBytes
    BY <1>1, <1>3, <1>4, <1>6, Sizes
  <2>4. FrameOf(LastFrame, "mine", S)
    BY <1>2, <2>2, <2>3 DEF FrameOf, a
  <2> QED  BY <2>2, <2>4
<1> QED  BY <1>2, <1>3, <1>4, <1>5, <1>6 DEF a

\* A full block is written: the next frame of the stream.
LEMMA WriteBlockKeeps ==
    ASSUME NEW S \in Seq(Bytes), Inv(S), WriteBlock
    PROVE  Inv(S)'
<1>1. /\ wpc \in {"blocks", "last_blocks"} /\ Len(pending) >= BlockBytes
      /\ block_count' = block_count + 1
      /\ ciphertext_bytes + FrameBytes(NextFrame) <= MaxCiphertext
      /\ ciphertext_bytes' = ciphertext_bytes + FrameBytes(NextFrame)
      /\ file' = Stored("mine", Append(file.frames, NextFrame), 0)
      /\ pending' = SubSeq(pending, BlockBytes + 1, Len(pending))
      /\ UNCHANGED <<wpc, left, plaintext_bytes, compressed_bytes, absorbed, descriptor, damages>>
      /\ UNCHANGED reader
  BY DEF WriteBlock, FullBlock, Write, Fits
<1>2. ~SealEnded /\ wpc # "start"
  BY <1>1 DEF SealEnded
<1> DEFINE a == block_count * BlockBytes
<1>3. /\ FrameOf(NextFrame, "mine", S) /\ NextFrame.index = block_count
      /\ NextFrame.final = FALSE /\ a + BlockBytes <= Len(S)
      /\ pending' = SubSeq(S, a + BlockBytes + 1, Len(S))
      /\ (block_count + 1) * BlockBytes = a + BlockBytes
  BY <1>1, <1>2, NextFrameIs
<1>4. PICK f \in AnyFrame : f = NextFrame
  BY <1>3 DEF FrameOf
<1>5. FrameBytes(f) \in Nat /\ 0 \in 0 .. FrameBytes(f)
  BY FrameIs
<1>6. FrameOf(f, "mine", S) /\ f.index = block_count /\ f.final = FALSE
      /\ file' = Stored("mine", Append(file.frames, f), 0)
      /\ ciphertext_bytes' = ciphertext_bytes + FrameBytes(f) /\ ciphertext_bytes' <= MaxCiphertext
  BY <1>1, <1>3, <1>4
<1>7. /\ FileInv(S)'
      /\ Size(file') = ciphertext_bytes + FrameBytes(f) - 0
      /\ file'.header = "mine" /\ file'.cut = 0
      /\ Len(file'.frames) = block_count + 1
      /\ \A i \in 1 .. Len(file'.frames) :
            /\ file'.frames[i].obj = "mine" /\ file'.frames[i].index = i - 1
            /\ file'.frames[i].final = (f.final /\ i = Len(file'.frames))
  BY <1>2, <1>5, <1>6, FrameWritten
<1>8. WriterInv(S) /\ block_count \in Nat /\ ciphertext_bytes \in Nat /\ MaxCiphertext \in Nat
  BY Sizes DEF Inv, WriterInv
<1>9. WriterInv(S)'
  <2>1. block_count' * BlockBytes <= Len(S)
        /\ pending' = SubSeq(S, block_count' * BlockBytes + 1, Len(S))
    BY <1>1, <1>3
  <2>2. ciphertext_bytes' \in 0 .. MaxCiphertext /\ block_count' \in Nat
    BY <1>1, <1>5, <1>6, <1>8
  <2>3. /\ left' \in Nat /\ plaintext_bytes' \in 0 .. MaxPlaintext /\ absorbed' \in Seq(PlainBytes)
        /\ StreamOf(S, "mine", plaintext_bytes') /\ compressed_bytes' = Len(S)
        /\ Cat(Units(S), absorbed') = Plaintext("mine", plaintext_bytes')
        /\ (BeforeEnd' => ~EndBy(S, Len(S)))
        /\ (AfterEnd' => EndBy(S, Len(S)) /\ absorbed' = <<>>)
    BY <1>1, <1>8 DEF WriterInv, BeforeEnd, AfterEnd
  <2> QED  BY <1>1, <2>1, <2>2, <2>3 DEF WriterInv
<1>10. UndamagedInv'
  <2>1. ciphertext_bytes' = Size(file')
    BY <1>5, <1>6, <1>7, <1>8
  <2>2. \A i \in 1 .. Len(file'.frames) : file'.frames[i].final = FALSE
    BY <1>6, <1>7
  <2>3. Len(file'.frames) = block_count'
    BY <1>1, <1>7
  <2> QED  BY <1>1, <1>7, <2>1, <2>2, <2>3 DEF UndamagedInv
<1> QED  BY <1>1, <1>2, <1>7, <1>9, <1>10, WriterKeeps

\* Less than a block is pending, so it waits for more or becomes the last.
LEMMA BlocksWrittenKeeps ==
    ASSUME NEW S \in Seq(Bytes), Inv(S), BlocksWritten
    PROVE  Inv(S)'
<1>1. /\ wpc \in {"blocks", "last_blocks"} /\ Len(pending) < BlockBytes
      /\ wpc' = IF wpc = "blocks" THEN "read" ELSE "last"
      /\ UNCHANGED <<left, plaintext_bytes, compressed_bytes, ciphertext_bytes,
                     block_count, absorbed, pending, descriptor>>
      /\ UNCHANGED storage /\ UNCHANGED reader
  BY DEF BlocksWritten
<1>2. ~SealEnded /\ <<>> \in Seq(Bytes) /\ Cat(S, <<>>) = S /\ UNCHANGED damages
  BY <1>1, CatEmpty, EmptySeq, Unchanged DEF SealEnded
<1>3. WriterInv(S)'
  <2>1. WriterInv(S)
    BY DEF Inv
  <2> QED  BY <1>1, <2>1 DEF WriterInv, BeforeEnd, AfterEnd
<1>4. FileInv(Cat(S, <<>>))' /\ UndamagedInv'
  BY <1>1, <1>2, FileKeeps
<1>5. FileInv(S)'
  BY <1>2, <1>4, Zenon DEF FileInv
<1> QED  BY <1>1, <1>2, <1>3, <1>4, <1>5, WriterKeeps

\* The last frame is written, and ends where the stream does.
LEMMA WriteLastKeeps ==
    ASSUME NEW S \in Seq(Bytes), Inv(S), WriteLast
    PROVE  Inv(S)'
<1>1. /\ wpc = "last" /\ wpc' = "finished" /\ block_count' = block_count + 1
      /\ ciphertext_bytes + FrameBytes(LastFrame) <= MaxCiphertext
      /\ ciphertext_bytes' = ciphertext_bytes + FrameBytes(LastFrame)
      /\ file' = Stored("mine", Append(file.frames, LastFrame), 0)
      /\ pending' = <<>> /\ descriptor' = ciphertext_bytes'
      /\ UNCHANGED <<left, plaintext_bytes, compressed_bytes, absorbed, damages>>
      /\ UNCHANGED reader
  BY DEF WriteLast, Write, Fits
<1>2. ~SealEnded /\ wpc # "start"
  BY <1>1 DEF SealEnded
<1>3. WriterInv(S) /\ block_count \in Nat /\ ciphertext_bytes \in Nat /\ MaxCiphertext \in Nat
  BY Sizes DEF Inv, WriterInv
<1>4. /\ FrameOf(LastFrame, "mine", S) /\ LastFrame.index = block_count /\ LastFrame.final = TRUE
  <2>1. Len(pending) < BlockBytes
    BY <1>1, <1>3 DEF WriterInv
  <2> QED  BY <1>2, <2>1, NextFrameIs
<1>5. PICK f \in AnyFrame : f = LastFrame
  BY <1>4 DEF FrameOf
<1>6. FrameBytes(f) \in Nat /\ 0 \in 0 .. FrameBytes(f)
  BY FrameIs
<1>7. FrameOf(f, "mine", S) /\ f.index = block_count /\ f.final = TRUE
      /\ file' = Stored("mine", Append(file.frames, f), 0)
      /\ ciphertext_bytes' = ciphertext_bytes + FrameBytes(f) /\ ciphertext_bytes' <= MaxCiphertext
  BY <1>1, <1>4, <1>5
<1>8. /\ FileInv(S)'
      /\ Size(file') = ciphertext_bytes + FrameBytes(f) - 0
      /\ file'.header = "mine" /\ file'.cut = 0
      /\ Len(file'.frames) = block_count + 1
      /\ \A i \in 1 .. Len(file'.frames) :
            /\ file'.frames[i].obj = "mine" /\ file'.frames[i].index = i - 1
            /\ file'.frames[i].final = (f.final /\ i = Len(file'.frames))
  BY <1>1, <1>2, <1>6, <1>7, FrameWritten
<1>9. WriterInv(S)'
  <2>1. ciphertext_bytes' \in 0 .. MaxCiphertext /\ block_count' \in Nat
    BY <1>1, <1>3, <1>6, <1>7
  <2>2. /\ left' \in Nat /\ plaintext_bytes' \in 0 .. MaxPlaintext /\ absorbed' \in Seq(PlainBytes)
        /\ StreamOf(S, "mine", plaintext_bytes') /\ compressed_bytes' = Len(S)
        /\ Cat(Units(S), absorbed') = Plaintext("mine", plaintext_bytes')
        /\ EndBy(S, Len(S)) /\ absorbed' = <<>>
    BY <1>1, <1>3 DEF WriterInv, AfterEnd
  <2> QED  BY <1>1, <2>1, <2>2 DEF WriterInv, BeforeEnd, AfterEnd
<1>10. UndamagedInv'
  <2>1. ciphertext_bytes' = Size(file')
    BY <1>6, <1>7, <1>8, <1>3
  <2>2. \A i \in 1 .. Len(file'.frames) : file'.frames[i].final = (wpc' = "finished" /\ i = Len(file'.frames))
    BY <1>1, <1>7, <1>8
  <2>3. Len(file'.frames) = block_count' /\ block_count' > 0
    BY <1>1, <1>3, <1>8
  <2> QED  BY <1>1, <1>8, <2>1, <2>2, <2>3 DEF UndamagedInv
<1> QED  BY <1>1, <1>2, <1>8, <1>9, <1>10, WriterKeeps

\* A writer that fails keeps its invariant.
LEMMA WriterFails ==
    ASSUME NEW S \in Seq(Bytes), Inv(S), ~SealEnded, wpc' = "failed",
           UNCHANGED <<left, plaintext_bytes, compressed_bytes, ciphertext_bytes,
                       block_count, absorbed, pending>>
    PROVE  WriterInv(S)'
<1>1. WriterInv(S) /\ wpc # "finished"
  BY DEF Inv, SealEnded
<1> QED  BY <1>1 DEF WriterInv, BeforeEnd, AfterEnd

\* A write that fails leaves at most a part of a frame.
LEMMA WriteFailsKeeps ==
    ASSUME NEW S \in Seq(Bytes), Inv(S), WriteFails
    PROVE  Inv(S)'
<1>1. /\ wpc' = "failed"
      /\ UNCHANGED <<left, plaintext_bytes, compressed_bytes, ciphertext_bytes,
                     block_count, absorbed, pending, descriptor, damages>>
      /\ UNCHANGED reader
  BY DEF WriteFails
<1>2. wpc \in {"start", "blocks", "last_blocks", "last"}
  BY DEF WriteFails, FullBlock
<1>3. ~SealEnded
  BY <1>2 DEF SealEnded
<1>4. WriterInv(S)'
  BY <1>1, <1>3, WriterFails
<1>5. FileInv(S)' /\ file'.header = "mine"
  <2>1. ASSUME NEW cut \in 1 .. HeaderBytes, file' = Stored("mine", <<>>, cut)
        PROVE  FileInv(S)' /\ file'.header = "mine"
    <3>1. file'.header = "mine" /\ file'.frames = <<>> /\ file'.cut = cut
          /\ file' = Stored(file'.header, file'.frames, file'.cut)
      BY <2>1 DEF Stored
    <3>2. <<>> \in Seq(AnyFrame) /\ Len(<<>>) = 0
      BY EmptySeq
    <3>3. Ends(<<>>)[0] = HeaderBytes
      BY <3>2, EndsStep
    <3> QED  BY <3>1, <3>2, <3>3, Sizes DEF FileInv
  <2>2. ASSUME wpc # "start", NEW f, f = IF FullBlock THEN NextFrame ELSE LastFrame, FullBlock \/ wpc = "last",
               NEW cut \in 1 .. FrameBytes(f), file' = Stored("mine", Append(file.frames, f), cut)
        PROVE  FileInv(S)' /\ file'.header = "mine"
    <3>1. FrameOf(f, "mine", S) /\ f.index = block_count
      <4>1. CASE FullBlock
        <5>1. f = NextFrame /\ Len(pending) >= BlockBytes
          BY <2>2, <4>1 DEF FullBlock
        <5> QED  BY <1>3, <5>1, NextFrameIs
      <4>2. CASE ~FullBlock
        <5>1. f = LastFrame /\ wpc = "last"
          BY <2>2, <4>2
        <5>2. Len(pending) < BlockBytes
          BY <5>1 DEF Inv, WriterInv
        <5> QED  BY <1>3, <5>1, <5>2, NextFrameIs
      <4> QED  BY <4>1, <4>2
    <3>2. FrameBytes(f) \in Nat
      BY <3>1, FrameIs DEF FrameOf
    <3>3. cut \in 0 .. FrameBytes(f) /\ cut > 0
      BY <3>2
    <3> QED  BY <1>1, <1>3, <2>2, <3>1, <3>3, FrameWritten
  <2>3. \/ /\ wpc = "start"
           /\ \E cut \in 1 .. HeaderBytes : file' = Stored("mine", <<>>, cut)
        \/ /\ FullBlock \/ wpc = "last"
           /\ LET f == IF FullBlock THEN NextFrame ELSE LastFrame
              IN  \E cut \in 1 .. FrameBytes(f) :
                     file' = Stored("mine", Append(file.frames, f), cut)
    BY DEF WriteFails
  <2>4. FullBlock \/ wpc = "last" => wpc # "start"
    BY DEF FullBlock
  <2> QED  BY <2>1, <2>2, <2>3, <2>4
<1>6. UndamagedInv'
  BY <1>1, <1>5 DEF UndamagedInv
<1> QED  BY <1>1, <1>3, <1>4, <1>5, <1>6, WriterKeeps

LEMMA SealInterruptedKeeps ==
    ASSUME NEW S \in Seq(Bytes), Inv(S), SealInterrupted
    PROVE  Inv(S)'
<1>1. /\ wpc' = "failed"
      /\ wpc \in {"start", "read", "compress", "blocks", "finish", "last_blocks", "last"}
      /\ UNCHANGED <<left, plaintext_bytes, compressed_bytes, ciphertext_bytes,
                     block_count, absorbed, pending, descriptor>>
      /\ UNCHANGED storage /\ UNCHANGED reader
  BY DEF SealInterrupted
<1>2. ~SealEnded /\ <<>> \in Seq(Bytes) /\ Cat(S, <<>>) = S /\ UNCHANGED damages
  BY <1>1, CatEmpty, EmptySeq, Unchanged DEF SealEnded
<1>3. WriterInv(S)'
  BY <1>1, <1>2, WriterFails
<1>4. FileInv(Cat(S, <<>>))' /\ UndamagedInv'
  BY <1>1, <1>2, FileKeeps
<1>5. FileInv(S)'
  BY <1>2, <1>4, Zenon DEF FileInv
<1> QED  BY <1>1, <1>2, <1>3, <1>4, <1>5, WriterKeeps
-----------------------------------------------------------------------------
(* Damage preserves the invariant.                                         *)

Kind(f, S) ==
    FrameOf(f, "mine", S) \/ FrameOf(f, "other", OtherStream) \/ f = GarbageFrame

\* A file made of frames that may be there is one the invariant allows.
LEMMA FileFrom ==
    ASSUME NEW S, NEW h \in {"mine", "other", "bad"}, NEW gs \in Seq(AnyFrame),
           NEW cut \in 0 .. Ends(gs)[Len(gs)], file' = Stored(h, gs, cut),
           \A i \in 1 .. Len(gs) : Kind(gs[i], S),
           \A i \in 1 .. Len(gs) : gs[i].obj = "mine" /\ gs[i].final =>
               \/ wpc' = "finished"
               \/ wpc' = "failed" /\ Ends(gs)[i] > Ends(gs)[Len(gs)] - cut
    PROVE  FileInv(S)'
<1>1. file'.header = h /\ file'.frames = gs /\ file'.cut = cut
      /\ file' = Stored(file'.header, file'.frames, file'.cut)
  BY DEF Stored
<1>2. Size(file') = Ends(gs)[Len(gs)] - cut
  BY <1>1 DEF Size
<1>3. \A i \in 1 .. Len(gs) :
         \/ FrameOf(gs[i], "mine", S) \/ FrameOf(gs[i], "other", OtherStream)
         \/ gs[i] = GarbageFrame
  BY DEF Kind
<1> QED  BY <1>1, <1>2, <1>3 DEF FileInv

\* What is there before the damage.
LEMMA Before ==
    ASSUME NEW S \in Seq(Bytes), Inv(S), SealEnded, NEW fs, fs = file.frames, NEW c, c = file.cut
    PROVE  /\ fs \in Seq(AnyFrame) /\ Len(fs) \in Nat /\ Ends(fs)[Len(fs)] \in Nat
           /\ c \in 0 .. Ends(fs)[Len(fs)] /\ Size(file) = Ends(fs)[Len(fs)] - c
           /\ \A i \in 1 .. Len(fs) : Kind(fs[i], S)
           /\ \A i \in 1 .. Len(fs) : fs[i].obj = "mine" /\ fs[i].final =>
                \/ wpc = "finished"
                \/ wpc = "failed" /\ Ends(fs)[i] > Size(file)
           /\ Standing(file) = {i \in 1 .. Len(fs) : Ends(fs)[i] <= Size(file)}
           /\ wpc \in {"finished", "failed"}
<1>1. FileInv(S)
  BY DEF Inv
<1>2. fs \in Seq(AnyFrame) /\ c \in 0 .. Ends(fs)[Len(fs)]
      /\ (\A i \in 1 .. Len(fs) : Kind(fs[i], S))
      /\ (\A i \in 1 .. Len(fs) : fs[i].obj = "mine" /\ fs[i].final =>
            \/ wpc = "finished"
            \/ wpc = "failed" /\ Ends(fs)[i] > Size(file))
  BY <1>1 DEF FileInv, Kind
<1>3. Len(fs) \in Nat /\ DOMAIN fs = 1 .. Len(fs) /\ Len(fs) \in 0 .. Len(fs)
  BY <1>2
<1>4. Ends(fs)[Len(fs)] \in Nat
  BY <1>2, <1>3, EndsType
<1>5. Size(file) = Ends(fs)[Len(fs)] - c
  BY DEF Size
<1>6. Standing(file) = {i \in 1 .. Len(fs) : Ends(fs)[i] <= Size(file)}
  BY <1>3 DEF Standing
<1> QED  BY <1>2, <1>3, <1>4, <1>5, <1>6 DEF SealEnded

\* The frames of the other version may be in the file.
LEMMA OthersKind ==
    ASSUME NEW S, NEW i \in 1 .. Len(OtherFrames)
    PROVE  Kind(OtherFrames[i], S) /\ OtherFrames[i] \in AnyFrame /\ OtherFrames[i].obj = "other"
BY OtherIs DEF Kind, FrameOf

\* Of n bytes of which c are cut off, b bytes that are there give way to a.
LEMMA Room ==
    ASSUME NEW n \in Nat, NEW c \in 0 .. n, NEW a \in Nat, NEW b \in Nat, NEW x \in Nat,
           NEW size \in Int, size = n - c, b <= x, x <= size, NEW m, m = n + a - b
    PROVE  /\ m \in Nat /\ c \in 0 .. m
           /\ \A y \in Nat : y > size => y + a - b > m - c
OBVIOUS

\* Of n bytes of which c are cut off, b bytes that are there are lost.
LEMMA LessRoom ==
    ASSUME NEW n \in Nat, NEW c \in 0 .. n, NEW b \in Nat, NEW x \in Nat,
           NEW size \in Int, size = n - c, b <= x, x <= size, NEW m, m = n - b
    PROVE  c \in 0 .. m /\ \A y \in Nat : y > size => y - b > m - c
OBVIOUS

\* A frame overwritten.
LEMMA ReplacedFile ==
    ASSUME NEW S \in Seq(Bytes), Inv(S), SealEnded, wpc' = wpc, NEW k \in Standing(file),
           NEW g \in {file.frames[j] : j \in Standing(file)} \cup ToSet(OtherFrames) \cup {GarbageFrame},
           file' = Stored(file.header, ReplaceAt(file.frames, k, g), file.cut)
    PROVE  FileInv(S)'
<1>1. PICK fs \in Seq(AnyFrame), c \in 0 .. Ends(file.frames)[Len(file.frames)] : fs = file.frames /\ c = file.cut
  BY Before
<1>2. /\ fs \in Seq(AnyFrame) /\ Len(fs) \in Nat /\ Ends(fs)[Len(fs)] \in Nat
      /\ c \in 0 .. Ends(fs)[Len(fs)] /\ Size(file) = Ends(fs)[Len(fs)] - c
      /\ \A i \in 1 .. Len(fs) : Kind(fs[i], S)
      /\ \A i \in 1 .. Len(fs) : fs[i].obj = "mine" /\ fs[i].final =>
           \/ wpc = "finished"
           \/ wpc = "failed" /\ Ends(fs)[i] > Size(file)
      /\ Standing(file) = {i \in 1 .. Len(fs) : Ends(fs)[i] <= Size(file)}
      /\ wpc \in {"finished", "failed"}
  BY <1>1, Before
<1>3. PICK size \in Int : size = Size(file)
  BY <1>2
<1>4. k \in 1 .. Len(fs) /\ Ends(fs)[k] <= size
  BY <1>2, <1>3
<1>5. g \in AnyFrame /\ Kind(g, S) /\ (g.obj = "mine" /\ g.final => wpc = "finished")
  <2>1. CASE g \in {file.frames[j] : j \in Standing(file)}
    <3>1. PICK j \in 1 .. Len(fs) : Ends(fs)[j] <= size /\ g = fs[j]
      BY <1>1, <1>2, <1>3, <2>1
    <3>2. ~(Ends(fs)[j] > size)
      <4>1. Ends(fs)[j] \in Nat
        <5>1. j \in 0 .. Len(fs)
          OBVIOUS
        <5> QED  BY <1>2, <5>1, EndsType
      <4> QED  BY <3>1, <4>1
    <3> QED  BY <1>2, <1>3, <3>1, <3>2
  <2>2. CASE g \in ToSet(OtherFrames)
    <3>1. PICK j \in 1 .. Len(OtherFrames) : g = OtherFrames[j]
      BY <2>2, OtherIs DEF ToSet
    <3> QED  BY <3>1, OthersKind
  <2>3. CASE g = GarbageFrame
    BY <2>3, GarbageIs DEF Kind
  <2> QED  BY <2>1, <2>2, <2>3
<1>6. PICK gs \in Seq(AnyFrame) : gs = ReplaceAt(fs, k, g)
  BY <1>2, <1>4, <1>5, EndsReplace DEF Replaced
<1>7. Replaced(gs, fs, k, g)
  BY <1>2, <1>4, <1>5, <1>6, EndsReplace
<1>8. /\ Len(gs) = Len(fs) /\ gs[k] = g
      /\ \A i \in 1 .. Len(fs) : i # k => gs[i] = fs[i]
      /\ \A i \in 0 .. Len(fs) :
            Ends(gs)[i] = IF i < k THEN Ends(fs)[i]
                          ELSE Ends(fs)[i] + FrameBytes(g) - FrameBytes(fs[k])
  BY <1>7 DEF Replaced
<1>9. FrameBytes(g) \in Nat /\ FrameBytes(fs[k]) \in Nat
  BY <1>2, <1>4, <1>5, FrameIs, FramesAre
<1>10. \A i \in 0 .. Len(fs) : Ends(fs)[i] \in Nat
  BY <1>2, EndsType
<1>11. Ends(gs)[Len(gs)] = Ends(fs)[Len(fs)] + FrameBytes(g) - FrameBytes(fs[k])
  <2>1. Len(fs) \in 0 .. Len(fs) /\ ~(Len(fs) < k)
    BY <1>2, <1>4
  <2> QED  BY <1>8, <2>1
<1>12. FrameBytes(fs[k]) <= Ends(fs)[k]
  <2>1. k - 1 \in 0 .. Len(fs) - 1 /\ k - 1 \in 0 .. Len(fs) /\ (k - 1) + 1 = k /\ k \in 0 .. Len(fs)
    BY <1>2, <1>4
  <2>2. Ends(fs)[k] = Ends(fs)[k - 1] + FrameBytes(fs[k])
    BY <1>2, <2>1, EndsStep
  <2>3. Ends(fs)[k - 1] \in Nat /\ Ends(fs)[k] \in Nat
    BY <1>10, <2>1
  <2> QED  BY <1>9, <2>2, <2>3
<1>13. /\ c \in 0 .. Ends(gs)[Len(gs)]
       /\ \A y \in Nat : y > size => y + FrameBytes(g) - FrameBytes(fs[k]) > Ends(gs)[Len(gs)] - c
  <2>1. Ends(fs)[k] \in Nat
    BY <1>4, <1>10
  <2> QED  BY <1>2, <1>3, <1>4, <1>9, <1>11, <1>12, <2>1, Room
<1>14. ASSUME NEW i \in 1 .. Len(gs), gs[i].obj = "mine", gs[i].final
       PROVE  wpc' = "finished" \/ (wpc' = "failed" /\ Ends(gs)[i] > Ends(gs)[Len(gs)] - c)
  <2>1. i \in 1 .. Len(fs) /\ i \in 0 .. Len(fs) /\ k \in 0 .. Len(fs)
    BY <1>2, <1>4, <1>8
  <2>2. CASE i = k
    BY <1>5, <1>8, <1>14, <2>2
  <2>3. CASE i # k /\ wpc = "failed"
    <3>1. Ends(fs)[i] > size /\ Ends(fs)[i] \in Nat
      BY <1>2, <1>3, <1>8, <1>10, <1>14, <2>1, <2>3
    <3>2. ~(i < k)
      <4>1. SUFFICES ASSUME i < k PROVE FALSE
        OBVIOUS
      <4>2. Ends(fs)[i] + FrameBytes(fs[i + 1]) <= Ends(fs)[k]
        BY <1>2, <2>1, <4>1, EndsOrder
      <4>3. FrameBytes(fs[i + 1]) \in Nat
        <5>1. i + 1 \in 1 .. Len(fs)
          BY <1>2, <1>4, <2>1, <4>1
        <5> QED  BY <1>2, <5>1, FramesAre
      <4> QED  BY <1>3, <1>4, <1>10, <2>1, <3>1, <4>2, <4>3
    <3>3. Ends(gs)[i] = Ends(fs)[i] + FrameBytes(g) - FrameBytes(fs[k])
      BY <1>8, <2>1, <3>2
    <3> QED  BY <1>13, <2>3, <3>1, <3>3
  <2> QED  BY <1>2, <2>2, <2>3
<1>15. \A i \in 1 .. Len(gs) : Kind(gs[i], S)
  BY <1>2, <1>5, <1>8
<1>16. file' = Stored(file.header, gs, c)
  BY <1>1, <1>6, Zenon
<1>17. file.header \in {"mine", "other", "bad"}
  BY DEF Inv, FileInv
<1>18. PICK h \in {"mine", "other", "bad"} : h = file.header
  BY <1>17
<1>19. file' = Stored(h, gs, c)
  BY <1>16, <1>18
<1> QED  BY <1>13, <1>14, <1>15, <1>19, FileFrom

\* A frame lost.
LEMMA RemovedFile ==
    ASSUME NEW S \in Seq(Bytes), Inv(S), SealEnded, wpc' = wpc, NEW k \in Standing(file),
           file' = Stored(file.header, RemoveAt(file.frames, k), file.cut)
    PROVE  FileInv(S)'
<1>1. PICK fs \in Seq(AnyFrame), c \in 0 .. Ends(file.frames)[Len(file.frames)] : fs = file.frames /\ c = file.cut
  BY Before
<1>2. /\ fs \in Seq(AnyFrame) /\ Len(fs) \in Nat /\ Ends(fs)[Len(fs)] \in Nat
      /\ c \in 0 .. Ends(fs)[Len(fs)] /\ Size(file) = Ends(fs)[Len(fs)] - c
      /\ \A i \in 1 .. Len(fs) : Kind(fs[i], S)
      /\ \A i \in 1 .. Len(fs) : fs[i].obj = "mine" /\ fs[i].final =>
           \/ wpc = "finished"
           \/ wpc = "failed" /\ Ends(fs)[i] > Size(file)
      /\ Standing(file) = {i \in 1 .. Len(fs) : Ends(fs)[i] <= Size(file)}
      /\ wpc \in {"finished", "failed"}
  BY <1>1, Before
<1>3. PICK size \in Int : size = Size(file)
  BY <1>2
<1>4. k \in 1 .. Len(fs) /\ Ends(fs)[k] <= size
  BY <1>2, <1>3
<1>5. PICK gs \in Seq(AnyFrame) : gs = RemoveAt(fs, k)
  BY <1>2, <1>4, EndsRemove DEF Removed
<1>6. Removed(gs, fs, k)
  BY <1>2, <1>4, <1>5, EndsRemove
<1>7. /\ Len(gs) = Len(fs) - 1
      /\ \A i \in 1 .. Len(fs) - 1 : gs[i] = IF i < k THEN fs[i] ELSE fs[i + 1]
      /\ \A i \in 0 .. Len(fs) - 1 :
           Ends(gs)[i] = IF i < k THEN Ends(fs)[i] ELSE Ends(fs)[i + 1] - FrameBytes(fs[k])
  BY <1>6 DEF Removed
<1>8. FrameBytes(fs[k]) \in Nat /\ \A i \in 0 .. Len(fs) : Ends(fs)[i] \in Nat
  BY <1>2, <1>4, FramesAre, EndsType
<1>9. FrameBytes(fs[k]) <= Ends(fs)[k] /\ Ends(fs)[k] = Ends(fs)[k - 1] + FrameBytes(fs[k])
  <2>1. k - 1 \in 0 .. Len(fs) - 1 /\ k - 1 \in 0 .. Len(fs) /\ (k - 1) + 1 = k /\ k \in 0 .. Len(fs)
    BY <1>2, <1>4
  <2>2. Ends(fs)[k] = Ends(fs)[k - 1] + FrameBytes(fs[k])
    BY <1>2, <2>1, EndsStep
  <2>3. Ends(fs)[k - 1] \in Nat /\ Ends(fs)[k] \in Nat
    BY <1>8, <2>1
  <2> QED  BY <1>8, <2>2, <2>3
<1>10. Ends(gs)[Len(gs)] = Ends(fs)[Len(fs)] - FrameBytes(fs[k])
  <2>1. Len(gs) \in 0 .. Len(fs) - 1 /\ k - 1 \in 0 .. Len(fs) /\ Len(gs) + 1 = Len(fs)
    BY <1>2, <1>4, <1>7
  <2>2. CASE Len(gs) < k
    <3>1. k = Len(fs) /\ Len(gs) = k - 1
      BY <1>2, <1>4, <1>7, <2>2
    <3>2. Ends(gs)[Len(gs)] = Ends(fs)[k - 1]
      BY <1>7, <2>1, <2>2, <3>1
    <3>3. Ends(fs)[k - 1] \in Nat
      BY <1>8, <2>1
    <3>4. Ends(fs)[k - 1] = Ends(fs)[k] - FrameBytes(fs[k])
      BY <1>8, <1>9, <3>3
    <3> QED  BY <3>1, <3>2, <3>4, Zenon
  <2>3. CASE ~(Len(gs) < k)
    BY <1>7, <2>1, <2>3
  <2> QED  BY <2>2, <2>3
<1>11. /\ c \in 0 .. Ends(gs)[Len(gs)]
       /\ \A y \in Nat : y > size => y - FrameBytes(fs[k]) > Ends(gs)[Len(gs)] - c
  <2>1. k \in 0 .. Len(fs)
    BY <1>4
  <2>2. Ends(fs)[k] \in Nat
    BY <1>8, <2>1
  <2>3. size = Ends(fs)[Len(fs)] - c /\ FrameBytes(fs[k]) <= Ends(fs)[k]
    BY <1>2, <1>3, <1>9, Zenon
  <2> QED  BY <1>2, <1>4, <1>8, <1>10, <2>2, <2>3, LessRoom
<1>12. \A i \in 1 .. Len(gs) : Kind(gs[i], S)
  <2> SUFFICES ASSUME NEW i \in 1 .. Len(gs) PROVE Kind(gs[i], S)
    OBVIOUS
  <2>1. i \in 1 .. Len(fs) /\ i + 1 \in 1 .. Len(fs) /\ i \in 1 .. Len(fs) - 1
    BY <1>2, <1>7
  <2>2. gs[i] = fs[i] \/ gs[i] = fs[i + 1]
    BY <1>7, <2>1
  <2> QED  BY <1>2, <2>1, <2>2
<1>13. ASSUME NEW i \in 1 .. Len(gs), gs[i].obj = "mine", gs[i].final
       PROVE  wpc' = "finished" \/ (wpc' = "failed" /\ Ends(gs)[i] > Ends(gs)[Len(gs)] - c)
  <2>1. i \in 1 .. Len(fs) /\ i + 1 \in 1 .. Len(fs) /\ i \in 1 .. Len(fs) - 1 /\ i \in 0 .. Len(fs) - 1
        /\ i \in 0 .. Len(fs) /\ i + 1 \in 0 .. Len(fs) /\ k \in 0 .. Len(fs)
    BY <1>2, <1>4, <1>7
  <2>2. CASE wpc = "failed" /\ i < k
    <3>1. Ends(fs)[i] > size
      BY <1>2, <1>3, <1>7, <1>13, <2>1, <2>2
    <3>2. Ends(fs)[i] + FrameBytes(fs[i + 1]) <= Ends(fs)[k]
      BY <1>2, <2>1, <2>2, EndsOrder
    <3>3. FrameBytes(fs[i + 1]) \in Nat
      BY <1>2, <2>1, FramesAre
    <3>4. Ends(fs)[i] \in Nat /\ Ends(fs)[k] \in Nat /\ Ends(fs)[k] <= size
      BY <1>4, <1>8, <2>1
    <3> QED  BY <3>1, <3>2, <3>3, <3>4
  <2>3. CASE wpc = "failed" /\ ~(i < k)
    <3>1. Ends(fs)[i + 1] > size
      BY <1>2, <1>3, <1>7, <1>13, <2>1, <2>3
    <3>2. Ends(gs)[i] = Ends(fs)[i + 1] - FrameBytes(fs[k])
      BY <1>7, <2>1, <2>3
    <3>3. Ends(fs)[i + 1] \in Nat
      BY <1>8, <2>1
    <3>4. Ends(fs)[i + 1] - FrameBytes(fs[k]) > Ends(gs)[Len(gs)] - c
      BY <1>11, <3>1, <3>3
    <3> QED  BY <2>3, <3>2, <3>4
  <2> QED  BY <1>2, <2>2, <2>3
<1>14. file' = Stored(file.header, gs, c)
  BY <1>1, <1>5, Zenon
<1>15. file.header \in {"mine", "other", "bad"}
  BY DEF Inv, FileInv
<1>16. PICK h \in {"mine", "other", "bad"} : h = file.header
  BY <1>15
<1>17. file' = Stored(h, gs, c)
  BY <1>14, <1>16
<1> QED  BY <1>11, <1>12, <1>13, <1>17, FileFrom

\* The other version appended.
LEMMA AppendedFile ==
    ASSUME NEW S \in Seq(Bytes), Inv(S), SealEnded, wpc' = wpc, file.cut = 0,
           file' = Stored(file.header, file.frames \o OtherFrames, 0)
    PROVE  FileInv(S)'
<1>1. PICK fs \in Seq(AnyFrame), c \in 0 .. Ends(file.frames)[Len(file.frames)] : fs = file.frames /\ c = file.cut
  BY Before
<1>2. /\ fs \in Seq(AnyFrame) /\ Len(fs) \in Nat /\ Ends(fs)[Len(fs)] \in Nat
      /\ Size(file) = Ends(fs)[Len(fs)] - c
      /\ \A i \in 1 .. Len(fs) : Kind(fs[i], S)
      /\ \A i \in 1 .. Len(fs) : fs[i].obj = "mine" /\ fs[i].final =>
           \/ wpc = "finished"
           \/ wpc = "failed" /\ Ends(fs)[i] > Size(file)
      /\ wpc \in {"finished", "failed"}
  BY <1>1, Before
<1>3. Size(file) = Ends(fs)[Len(fs)]
  BY <1>1, <1>2
<1>4. PICK os \in Seq(AnyFrame) : os = OtherFrames
  BY OtherIs
<1>5. PICK gs \in Seq(AnyFrame) : gs = Cat(fs, os)
  BY <1>2, CatIs
<1>6. Both(gs, fs, os)
  BY <1>2, <1>5, FramesBoth
<1>7. /\ Len(gs) = Len(fs) + Len(os) /\ Len(os) \in Nat
      /\ \A i \in 1 .. Len(fs) : gs[i] = fs[i]
      /\ \A i \in 1 .. Len(os) : gs[Len(fs) + i] = os[i]
  BY <1>6 DEF Both
<1>8. 0 \in 0 .. Ends(gs)[Len(gs)]
  <2>1. Len(gs) \in 0 .. Len(gs)
    BY <1>2, <1>7
  <2>2. Ends(gs)[Len(gs)] \in Nat
    BY <2>1, EndsType
  <2> QED  BY <2>2
<1>9. \A i \in 1 .. Len(fs) : fs[i].obj = "mine" /\ fs[i].final => wpc = "finished"
  <2> SUFFICES ASSUME NEW i \in 1 .. Len(fs), fs[i].obj = "mine", fs[i].final, wpc = "failed"
               PROVE  FALSE
    BY <1>2
  <2>1. Ends(fs)[i] > Ends(fs)[Len(fs)]
    BY <1>2, <1>3
  <2>2. i \in 0 .. Len(fs) /\ Len(fs) \in 0 .. Len(fs)
    BY <1>2
  <2>3. Ends(fs)[i] \in Nat
    BY <1>2, <2>2, EndsType
  <2>4. CASE i < Len(fs)
    <3>1. Ends(fs)[i] + FrameBytes(fs[i + 1]) <= Ends(fs)[Len(fs)]
      BY <1>2, <2>2, <2>4, EndsOrder
    <3>2. i + 1 \in 1 .. Len(fs)
      BY <1>2, <2>4
    <3>3. FrameBytes(fs[i + 1]) \in Nat
      BY <1>2, <3>2, FramesAre
    <3> QED  BY <1>2, <2>1, <2>3, <3>1, <3>3
  <2>5. CASE i = Len(fs)
    BY <1>2, <2>1, <2>5
  <2> QED  BY <1>2, <2>4, <2>5
<1>10. ASSUME NEW i \in 1 .. Len(gs)
       PROVE  Kind(gs[i], S) /\ (gs[i].obj = "mine" /\ gs[i].final => wpc' = "finished")
  <2>1. CASE i <= Len(fs)
    <3>1. i \in 1 .. Len(fs)
      BY <1>2, <2>1
    <3> QED  BY <1>2, <1>7, <1>9, <3>1
  <2>2. CASE i > Len(fs)
    <3>1. i - Len(fs) \in 1 .. Len(os) /\ Len(fs) + (i - Len(fs)) = i
      BY <1>2, <1>7, <2>2
    <3>2. PICK j \in 1 .. Len(os) : Len(fs) + j = i
      BY <3>1
    <3>3. gs[i] = os[j]
      BY <1>7, <3>2
    <3>4. Kind(os[j], S) /\ os[j].obj = "other"
      BY <1>4, OthersKind
    <3> QED  BY <3>3, <3>4
  <2> QED  BY <1>2, <1>7, <2>1, <2>2
<1>11. file' = Stored(file.header, gs, 0)
  BY <1>1, <1>4, <1>5, Zenon DEF Cat
<1>12. file.header \in {"mine", "other", "bad"}
  BY DEF Inv, FileInv
<1>13. PICK h \in {"mine", "other", "bad"} : h = file.header
  BY <1>12
<1>14. file' = Stored(h, gs, 0)
  BY <1>11, <1>13
<1> QED  BY <1>8, <1>10, <1>14, FileFrom
\* Bytes lost at the end.
LEMMA CutFile ==
    ASSUME NEW S \in Seq(Bytes), Inv(S), SealEnded, wpc' = wpc, NEW n \in 1 .. Size(file),
           file' = Stored(file.header, file.frames, file.cut + n)
    PROVE  FileInv(S)'
<1>1. PICK fs \in Seq(AnyFrame), c \in 0 .. Ends(file.frames)[Len(file.frames)] : fs = file.frames /\ c = file.cut
  BY Before
<1>2. /\ Ends(fs)[Len(fs)] \in Nat /\ c \in 0 .. Ends(fs)[Len(fs)]
      /\ Size(file) = Ends(fs)[Len(fs)] - c /\ Len(fs) \in Nat
      /\ \A i \in 1 .. Len(fs) : Kind(fs[i], S)
      /\ \A i \in 1 .. Len(fs) : fs[i].obj = "mine" /\ fs[i].final =>
           \/ wpc = "finished"
           \/ wpc = "failed" /\ Ends(fs)[i] > Size(file)
  BY <1>1, Before
<1>3. PICK d \in Int : d = c + n
  BY <1>2
<1>4. d \in 0 .. Ends(fs)[Len(fs)] /\ Ends(fs)[Len(fs)] - d < Size(file)
      /\ Size(file) \in Int /\ Ends(fs)[Len(fs)] - d \in Int
  BY <1>2, <1>3
<1>5. \A i \in 1 .. Len(fs) : fs[i].obj = "mine" /\ fs[i].final =>
         \/ wpc = "finished"
         \/ wpc = "failed" /\ Ends(fs)[i] > Ends(fs)[Len(fs)] - d
  <2>1. \A i \in 1 .. Len(fs) : Ends(fs)[i] \in Nat
    <3>1. \A i \in 1 .. Len(fs) : i \in 0 .. Len(fs)
      BY <1>2
    <3> QED  BY <3>1, EndsType
  <2> SUFFICES ASSUME NEW i \in 1 .. Len(fs), fs[i].obj = "mine", fs[i].final
               PROVE  wpc = "finished" \/ (wpc = "failed" /\ Ends(fs)[i] > Ends(fs)[Len(fs)] - d)
    OBVIOUS
  <2>2. wpc = "finished" \/ (wpc = "failed" /\ Ends(fs)[i] > Size(file))
    <3>1. \A k \in 1 .. Len(fs) : fs[k].obj = "mine" /\ fs[k].final =>
             wpc = "finished" \/ (wpc = "failed" /\ Ends(fs)[k] > Size(file))
      BY <1>2
    <3> QED  BY <3>1
  <2> QED  BY <1>4, <2>1, <2>2
<1>6. PICK h \in {"mine", "other", "bad"} : h = file.header
  BY DEF Inv, FileInv
<1>7. file' = Stored(h, fs, d)
  BY <1>1, <1>3, <1>6, Zenon
<1> QED  BY <1>2, <1>4, <1>5, <1>7, FileFrom

\* Another header.
LEMMA HeaderFile ==
    ASSUME NEW S \in Seq(Bytes), Inv(S), SealEnded, wpc' = wpc, NEW h \in {"other", "bad"},
           file' = Stored(h, file.frames, file.cut)
    PROVE  FileInv(S)'
<1>1. PICK fs \in Seq(AnyFrame), c \in 0 .. Ends(file.frames)[Len(file.frames)] : fs = file.frames /\ c = file.cut
  BY Before
<1>2. /\ c \in 0 .. Ends(fs)[Len(fs)]
      /\ Size(file) = Ends(fs)[Len(fs)] - c
      /\ \A i \in 1 .. Len(fs) : Kind(fs[i], S)
      /\ \A i \in 1 .. Len(fs) : fs[i].obj = "mine" /\ fs[i].final =>
           \/ wpc = "finished"
           \/ wpc = "failed" /\ Ends(fs)[i] > Size(file)
  BY <1>1, Before
<1>3. file' = Stored(h, fs, c) /\ h \in {"mine", "other", "bad"}
  BY <1>1
<1>4. \A i \in 1 .. Len(fs) : fs[i].obj = "mine" /\ fs[i].final =>
         \/ wpc' = "finished"
         \/ wpc' = "failed" /\ Ends(fs)[i] > Ends(fs)[Len(fs)] - c
  BY <1>2
<1> QED  BY <1>2, <1>3, <1>4, FileFrom

\* The other version in its place.
LEMMA OtherFile ==
    ASSUME NEW S \in Seq(Bytes), wpc' = wpc, file' = Stored("other", OtherFrames, 0)
    PROVE  FileInv(S)'
<1>1. PICK os \in Seq(AnyFrame) : os = OtherFrames
  BY OtherIs
<1>2. 0 \in 0 .. Ends(os)[Len(os)]
  <2>1. Len(os) \in 0 .. Len(os)
    BY <1>1
  <2>2. Ends(os)[Len(os)] \in Nat
    BY <2>1, EndsType
  <2> QED  BY <2>2
<1>3. \A i \in 1 .. Len(os) : Kind(os[i], S) /\ os[i].obj = "other"
  BY <1>1, OthersKind
<1>4. file' = Stored("other", os, 0) /\ "other" \in {"mine", "other", "bad"}
  BY <1>1
<1> QED  BY <1>2, <1>3, <1>4, FileFrom

\* Every damage preserves the invariant.
LEMMA DamageKeeps ==
    ASSUME NEW S \in Seq(Bytes), Inv(S), Damage
    PROVE  Inv(S)'
<1>1. /\ SealEnded /\ rpc = "idle" /\ damages' = damages + 1 /\ file' \in Damaged(file)
      /\ UNCHANGED writer /\ UNCHANGED reader
  BY DEF Damage
<1>2. UNCHANGED <<wpc, left, plaintext_bytes, compressed_bytes, ciphertext_bytes,
                  block_count, absorbed, pending, descriptor>>
  BY <1>1, Unchanged, Zenon
<1>3. damages \in Nat /\ damages' \in Nat /\ damages' # 0 /\ SealEnded'
  <2>1. damages \in Nat
    BY DEF Inv, PlaceInv
  <2> QED  BY <1>1, <1>2, <2>1 DEF SealEnded
<1>4. WriterInv(S)'
  <2>1. WriterInv(S)
    BY DEF Inv
  <2> QED  BY <1>2, <2>1 DEF WriterInv, BeforeEnd, AfterEnd
<1>5. UndamagedInv'
  BY <1>3 DEF UndamagedInv
<1>6. FileInv(S)'
  <2>1. CASE \E n \in 1 .. Size(file) : file' = Stored(file.header, file.frames, file.cut + n)
    BY <1>1, <1>2, <2>1, CutFile
  <2>2. CASE \E h \in {"other", "bad"} : file' = Stored(h, file.frames, file.cut)
    BY <1>1, <1>2, <2>2, HeaderFile
  <2>3. CASE \E i \in Standing(file),
                g \in {file.frames[j] : j \in Standing(file)} \cup ToSet(OtherFrames) \cup {GarbageFrame} :
                   file' = Stored(file.header, ReplaceAt(file.frames, i, g), file.cut)
    BY <1>1, <1>2, <2>3, ReplacedFile
  <2>4. CASE \E i \in Standing(file) : file' = Stored(file.header, RemoveAt(file.frames, i), file.cut)
    BY <1>1, <1>2, <2>4, RemovedFile
  <2>5. CASE \E cut \in {file.cut} \cap {0} : file' = Stored(file.header, file.frames \o OtherFrames, cut)
    <3>1. file.cut = 0 /\ file' = Stored(file.header, file.frames \o OtherFrames, 0)
      BY <2>5, Zenon
    <3> QED  BY <1>1, <1>2, <3>1, AppendedFile
  <2>6. CASE file' = Stored("other", OtherFrames, 0)
    BY <1>2, <2>6, OtherFile
  <2>7. \/ \E n \in 1 .. Size(file) : file' = Stored(file.header, file.frames, file.cut + n)
        \/ \E h \in {"other", "bad"} : file' = Stored(h, file.frames, file.cut)
        \/ \E i \in Standing(file),
                g \in {file.frames[j] : j \in Standing(file)} \cup ToSet(OtherFrames) \cup {GarbageFrame} :
                   file' = Stored(file.header, ReplaceAt(file.frames, i, g), file.cut)
        \/ \E i \in Standing(file) : file' = Stored(file.header, RemoveAt(file.frames, i), file.cut)
        \/ \E cut \in {file.cut} \cap {0} : file' = Stored(file.header, file.frames \o OtherFrames, cut)
        \/ file' = Stored("other", OtherFrames, 0)
    <3> DEFINE A == {Stored(file.header, file.frames, file.cut + n) : n \in 1 .. Size(file)}
               B == {Stored(h, file.frames, file.cut) : h \in {"other", "bad"}}
               G == {file.frames[j] : j \in Standing(file)} \cup ToSet(OtherFrames) \cup {GarbageFrame}
               C == {Stored(file.header, ReplaceAt(file.frames, i, g), file.cut) : i \in Standing(file), g \in G}
               D == {Stored(file.header, RemoveAt(file.frames, i), file.cut) : i \in Standing(file)}
               E == {Stored(file.header, file.frames \o OtherFrames, cut) : cut \in {file.cut} \cap {0}}
    <3>1. file' \in A \cup B \cup C \cup D \cup E \cup {Stored("other", OtherFrames, 0)}
      BY <1>1 DEF Damaged
    <3>2. file' \in A => \E n \in 1 .. Size(file) : file' = Stored(file.header, file.frames, file.cut + n)
      BY Zenon
    <3>3. file' \in B => \E h \in {"other", "bad"} : file' = Stored(h, file.frames, file.cut)
      BY Zenon
    <3>4. file' \in C => \E i \in Standing(file), g \in G :
             file' = Stored(file.header, ReplaceAt(file.frames, i, g), file.cut)
      OBVIOUS
    <3>5. file' \in D => \E i \in Standing(file) :
             file' = Stored(file.header, RemoveAt(file.frames, i), file.cut)
      BY Zenon
    <3>6. file' \in E => \E cut \in {file.cut} \cap {0} :
             file' = Stored(file.header, file.frames \o OtherFrames, cut)
      BY Zenon
    <3> HIDE DEF A, B, C, D, E
    <3> QED  BY <3>1, <3>2, <3>3, <3>4, <3>5, <3>6
  <2> QED  BY <2>1, <2>2, <2>3, <2>4, <2>5, <2>6, <2>7
<1>7. /\ file'.frames \in Seq(AnyFrame) /\ plaintext_bytes' \in Nat
      /\ file'.cut \in 0 .. Ends(file'.frames)[Len(file'.frames)]
  BY <1>4, <1>6, Sizes DEF FileInv, WriterInv
<1>8. PlaceInv' /\ SeenInv(S)' /\ DecodedInv(S)' /\ SealedOpens'
  BY <1>1, <1>3, <1>7, ReaderIdle
<1> QED  BY <1>4, <1>5, <1>6, <1>8 DEF Inv
-----------------------------------------------------------------------------
(* The reader.                                                             *)

\* The file and the stream that the reader is in.
LEMMA FileHere ==
    ASSUME NEW S \in Seq(Bytes), Inv(S)
    PROVE  /\ file.frames \in Seq(AnyFrame) /\ Len(file.frames) \in Nat
           /\ \A i \in 0 .. Len(file.frames) : EndOf(i) \in Nat /\ HeaderBytes <= EndOf(i)
           /\ \A i \in 0 .. Len(file.frames) - 1 :
                 EndOf(i + 1) = EndOf(i) + FrameBytes(file.frames[i + 1])
           /\ \A i \in 1 .. Len(file.frames) : file.frames[i] \in AnyFrame
           /\ EndOf(0) = HeaderBytes
           /\ Size(file) \in Nat /\ Size(file) <= EndOf(Len(file.frames))
<1>1. file.frames \in Seq(AnyFrame) /\ file.cut \in 0 .. Ends(file.frames)[Len(file.frames)]
  BY DEF Inv, FileInv
<1>2. Len(file.frames) \in Nat /\ Len(file.frames) \in 0 .. Len(file.frames)
      /\ \A i \in 1 .. Len(file.frames) : file.frames[i] \in AnyFrame
  BY <1>1
<1>3. \A i \in 0 .. Len(file.frames) : EndOf(i) \in Nat /\ HeaderBytes <= EndOf(i)
  BY <1>1, EndsType DEF EndOf
<1>4. /\ EndOf(0) = HeaderBytes
      /\ \A i \in 0 .. Len(file.frames) - 1 :
            EndOf(i + 1) = EndOf(i) + FrameBytes(file.frames[i + 1])
  BY <1>1, EndsStep DEF EndOf
<1>5. Size(file) = EndOf(Len(file.frames)) - file.cut
  BY DEF Size, EndOf
<1>6. EndOf(Len(file.frames)) \in Nat /\ file.cut \in 0 .. EndOf(Len(file.frames))
  BY <1>1, <1>2, <1>3 DEF EndOf
<1>7. Size(file) \in Nat /\ Size(file) <= EndOf(Len(file.frames))
  BY <1>5, <1>6
<1> QED  BY <1>1, <1>2, <1>3, <1>4, <1>7

\* A byte after the end of frame i is one of another frame.
LEMMA NotLast ==
    ASSUME NEW S \in Seq(Bytes), Inv(S), NEW i \in 0 .. Len(file.frames),
           NEW n \in Nat, n <= Size(file), EndOf(i) < n
    PROVE  i \in 0 .. Len(file.frames) - 1 /\ i + 1 \in 1 .. Len(file.frames)
<1>1. Len(file.frames) \in Nat /\ EndOf(i) \in Nat /\ Size(file) \in Nat
      /\ Size(file) <= EndOf(Len(file.frames))
  BY FileHere
<1>2. i # Len(file.frames)
  <2>1. CASE i = Len(file.frames)
    <3>1. Size(file) <= EndOf(i)
      BY <1>1, <2>1
    <3> QED  BY <1>1, <3>1
  <2> QED  BY <2>1
<1> QED  BY <1>1, <1>2

\* The stream that the header of the file promises.
LEMMA StreamHereIs ==
    ASSUME NEW S \in Seq(Bytes), Inv(S)
    PROVE  /\ StreamHere(S) \in Seq(Bytes) /\ Len(StreamHere(S)) \in Nat /\ SizeHere \in Nat
           /\ file.header \in {"mine", "other", "bad"}
           /\ file.header # "bad" => StreamOf(StreamHere(S), file.header, SizeHere)
           /\ file.header = "mine" => StreamHere(S) = S /\ SizeHere = plaintext_bytes
                                      /\ plaintext_bytes <= MaxPlaintext
<1>1. /\ StreamOf(S, "mine", plaintext_bytes) /\ plaintext_bytes \in Nat
      /\ plaintext_bytes <= MaxPlaintext
  BY Sizes DEF Inv, WriterInv
<1>2. StreamOf(OtherStream, "other", OtherSize) /\ OtherStream \in Seq(Bytes) /\ OtherSize \in Nat
  BY OtherIs
<1>3. file.header \in {"mine", "other", "bad"}
  BY DEF Inv, FileInv
<1>4. CASE file.header = "mine"
  BY <1>1, <1>4 DEF StreamHere, SizeHere
<1>5. CASE file.header = "other"
  BY <1>2, <1>5 DEF StreamHere, SizeHere
<1>6. CASE file.header = "bad"
  BY <1>2, <1>6 DEF StreamHere, SizeHere
<1> QED  BY <1>3, <1>4, <1>5, <1>6

\* A file as the writer finished it.
LEMMA Sealed ==
    ASSUME NEW S \in Seq(Bytes), Inv(S), wpc = "finished", damages = 0
    PROVE  /\ file.header = "mine" /\ Len(file.frames) > 0
           /\ Size(file) = EndOf(Len(file.frames)) /\ Size(file) <= MaxCiphertext
           /\ descriptor = Size(file)
           /\ EndBy(S, Len(S))
           /\ \A i \in 1 .. Len(file.frames) :
                 /\ FrameOf(file.frames[i], "mine", S)
                 /\ file.frames[i].obj = "mine" /\ file.frames[i].index = i - 1
                 /\ file.frames[i].final = (i = Len(file.frames))
<1>1. /\ file.header = "mine" /\ file.cut = 0 /\ ciphertext_bytes = Size(file)
      /\ Len(file.frames) = block_count /\ block_count > 0 /\ descriptor = ciphertext_bytes
      /\ \A i \in 1 .. Len(file.frames) :
            /\ file.frames[i].obj = "mine" /\ file.frames[i].index = i - 1
            /\ file.frames[i].final = (wpc = "finished" /\ i = Len(file.frames))
  BY DEF Inv, UndamagedInv
<1>2. ciphertext_bytes <= MaxCiphertext /\ EndBy(S, Len(S))
  BY Sizes DEF Inv, WriterInv, AfterEnd
<1>3. Size(file) = EndOf(Len(file.frames))
  <2>1. Len(file.frames) \in 0 .. Len(file.frames)
    BY FileHere
  <2>2. EndOf(Len(file.frames)) \in Nat
    BY <2>1, FileHere
  <2> QED  BY <1>1, <2>2 DEF Size, EndOf
<1>4. \A i \in 1 .. Len(file.frames) : FrameOf(file.frames[i], "mine", S)
  <2>1. \A i \in 1 .. Len(file.frames) :
          \/ FrameOf(file.frames[i], "mine", S)
          \/ FrameOf(file.frames[i], "other", OtherStream)
          \/ file.frames[i] = GarbageFrame
    BY DEF Inv, FileInv
  <2> QED  BY <1>1, <2>1, GarbageIs DEF FrameOf
<1>5. \A i \in 1 .. Len(file.frames) : file.frames[i].final = (i = Len(file.frames))
  BY <1>1
<1> QED  BY <1>1, <1>2, <1>3, <1>4, <1>5

\* A step of the reader that rejects the object.
LEMMA Fails ==
    ASSUME NEW S \in Seq(Bytes), Inv(S), UNCHANGED writer, UNCHANGED storage, SealEnded,
           rpc' = "failed", bytes' \in Nat, need' \in Nat, idx' = idx, next' \in BOOLEAN,
           seen' \in Nat, out' = out, total' = total, held' \in Seq(PlainBytes),
           inflow' \in Seq(Bytes), ended' \in BOOLEAN, complete' \in BOOLEAN,
           wpc = "finished" /\ damages = 0 => why' = "interrupted"
    PROVE  Inv(S)'
<1>1. UNCHANGED <<wpc, left, plaintext_bytes, compressed_bytes, ciphertext_bytes,
                  block_count, absorbed, pending, descriptor, file, damages>>
  BY Unchanged, Zenon
<1>2. WriterInv(S)' /\ FileInv(S)' /\ UndamagedInv'
  BY ReaderFrame
<1>3. PlaceInv /\ DecodedInv(S)
  BY DEF Inv
<1>4. PlaceInv'
  <2>1. damages \in Nat /\ idx \in 0 .. Len(file.frames)
    BY <1>3 DEF PlaceInv
  <2> QED  BY <1>1, <2>1 DEF PlaceInv, Held, Over, SealEnded
<1>5. SeenInv(S)'
  BY DEF SeenInv, Over
<1>6. DecodedInv(S)'
  <2>1. Begins(out, file.header, SizeHere) /\ total = Len(out) /\ total <= MaxPlaintext
    BY <1>3 DEF DecodedInv
  <2>2. SizeHere' = SizeHere
    BY <1>1 DEF SizeHere
  <2> QED  BY <1>1, <2>1, <2>2 DEF DecodedInv
<1>7. SealedOpens'
  BY <1>1 DEF SealedOpens
<1> QED  BY <1>2, <1>4, <1>5, <1>6, <1>7 DEF Inv

\* A step of the reader outside the decoder that does not.
LEMMA Goes ==
    ASSUME NEW S \in Seq(Bytes), Inv(S), UNCHANGED writer, UNCHANGED storage, UNCHANGED decoder,
           rpc \notin {"decode", "failed"}, rpc' \notin {"decode", "failed"},
           rpc' = "ok" => ended, PlaceInv', SeenInv(S)'
    PROVE  Inv(S)'
<1>1. UNCHANGED <<wpc, left, plaintext_bytes, compressed_bytes, ciphertext_bytes,
                  block_count, absorbed, pending, descriptor, file, damages,
                  inflow, held, seen, ended, complete, total, out>>
  BY Unchanged, Zenon
<1>2. WriterInv(S)' /\ FileInv(S)' /\ UndamagedInv'
  BY ReaderFrame
<1>3. DecodedInv(S)'
  <2>1. DecodedInv(S)
    BY DEF Inv
  <2>2. SizeHere' = SizeHere /\ StreamHere(S)' = StreamHere(S)
    BY <1>1 DEF SizeHere, StreamHere
  <2> QED  BY <1>1, <2>1, <2>2 DEF DecodedInv
<1>4. SealedOpens'
  BY DEF SealedOpens
<1> QED  BY <1>2, <1>3, <1>4 DEF Inv
\* Opening starts at the beginning.
LEMMA OpenObjectKeeps ==
    ASSUME NEW S \in Seq(Bytes), Inv(S), OpenObject
    PROVE  Inv(S)'
<1>1. /\ SealEnded /\ rpc = "idle" /\ rpc' = "header" /\ need' = HeaderBytes
      /\ bytes' = bytes /\ idx' = idx /\ next' = next
      /\ UNCHANGED writer /\ UNCHANGED storage /\ UNCHANGED decoder
  BY DEF OpenObject
<1>2. UNCHANGED <<wpc, file, damages, seen>>
  BY <1>1, Unchanged, Zenon
<1>3. PlaceInv /\ SeenInv(S) /\ StreamHere(S)' = StreamHere(S)
  BY <1>2 DEF Inv, StreamHere
<1>4. PlaceInv'
  <2>1. bytes = 0 /\ idx = 0 /\ ~next /\ next \in BOOLEAN /\ damages \in Nat /\ Len(file.frames) \in Nat
    BY <1>1, <1>3, FileHere DEF PlaceInv
  <2>2. Size(file') \in Nat /\ Size(file') = Size(file)
    BY <1>2, FileHere
  <2>3. /\ rpc' = "header" /\ bytes' = 0 /\ need' \in Nat /\ bytes' + need' = HeaderBytes
        /\ idx' = 0 /\ ~next' /\ next' \in BOOLEAN /\ damages' \in Nat
        /\ bytes' <= MaxCiphertext /\ bytes' <= Size(file')
    BY <1>1, <1>2, <2>1, <2>2, Sizes
  <2>4. idx' \in 0 .. Len(file'.frames) /\ SealEnded'
    BY <1>1, <1>2, <2>1, <2>3 DEF SealEnded
  <2> QED  BY <2>3, <2>4 DEF PlaceInv, Held, Over
<1>5. SeenInv(S)'
  <2>1. seen = 0
    BY <1>1, <1>3 DEF SeenInv
  <2> QED  BY <1>1, <1>2, <2>1 DEF SeenInv, Over
<1> QED  BY <1>1, <1>4, <1>5, Goes

\* Bytes of the file arrive.
LEMMA ReadKeeps ==
    ASSUME NEW S \in Seq(Bytes), Inv(S), Read
    PROVE  Inv(S)'
<1>1. /\ Reading /\ need > 0 /\ idx' = idx /\ next' = next
      /\ UNCHANGED writer /\ UNCHANGED storage /\ UNCHANGED decoder
  BY DEF Read
<1>2. PICK n \in 1 .. Least(Capacity, Size(file) - bytes) :
        /\ bytes' = bytes + n
        /\ need' = need - n
        /\ IF bytes + n > MaxCiphertext THEN Fail("limit") ELSE UNCHANGED <<rpc, why>>
  BY DEF Read
<1>3. UNCHANGED <<wpc, file, damages, inflow, held, seen, ended, complete, total, out>>
  BY <1>1, Unchanged, Zenon
<1>4. rpc \in {"header", "first_length", "length_rest", "frame"}
  BY <1>1 DEF Reading
<1>5. /\ PlaceInv /\ SeenInv(S) /\ DecodedInv(S) /\ StreamHere(S)' = StreamHere(S)
      /\ Size(file) \in Nat /\ Len(file.frames) \in Nat
      /\ \A i \in 0 .. Len(file.frames) : EndOf(i) \in Nat
  BY <1>3, FileHere DEF Inv, StreamHere
<1>6. /\ SealEnded /\ bytes \in Nat /\ need \in Nat /\ bytes <= MaxCiphertext
      /\ bytes <= Size(file) /\ idx \in 0 .. Len(file.frames) /\ next \in BOOLEAN /\ damages \in Nat
      /\ EndOf(idx) \in Nat
  BY <1>4, <1>5 DEF PlaceInv
<1>7. n \in Nat /\ n <= need /\ bytes + n <= Size(file)
  <2>1. Capacity \in Int /\ Capacity <= need
    BY <1>6, Sizes DEF Capacity, Least
  <2>2. Size(file) - bytes \in Int
    BY <1>5, <1>6
  <2> QED  BY <1>5, <1>6, <2>1, <2>2 DEF Least
<1>8. bytes' \in Nat /\ need' \in Nat /\ bytes' + need' = bytes + need /\ need' <= need
  BY <1>2, <1>6, <1>7
<1>9. CASE bytes + n > MaxCiphertext
  <2>1. rpc' = "failed"
    BY <1>2, <1>9 DEF Fail
  <2>2. ~(wpc = "finished" /\ damages = 0)
    <3>1. SUFFICES ASSUME wpc = "finished", damages = 0 PROVE FALSE
      OBVIOUS
    <3>2. Size(file) <= MaxCiphertext
      BY <3>1, Sealed
    <3> QED  BY <1>5, <1>6, <1>7, <1>9, <3>2, Sizes
  <2>3. /\ seen \in Nat /\ held \in Seq(PlainBytes) /\ inflow \in Seq(Bytes) /\ ended \in BOOLEAN
        /\ complete \in BOOLEAN
    BY <1>5 DEF SeenInv, DecodedInv
  <2> QED  BY <1>1, <1>3, <1>6, <1>8, <2>1, <2>2, <2>3, Fails
<1>10. CASE ~(bytes + n > MaxCiphertext)
  <2>1. rpc' = rpc
    BY <1>2, <1>10
  <2>2. PlaceInv'
    <3>1. bytes' <= MaxCiphertext /\ bytes' <= Size(file)
      BY <1>2, <1>6, <1>7, <1>10, Sizes
    <3>2. /\ rpc = "header" => idx = 0 /\ ~next /\ bytes' + need' = HeaderBytes
          /\ rpc = "first_length" => need' <= 1 /\ bytes' + need' = EndOf(idx) + 1
          /\ rpc = "length_rest" => bytes' + need' = EndOf(idx) + LengthBytes /\ need' < LengthBytes
          /\ rpc = "frame" => idx > 0 /\ bytes' + need' = EndOf(idx)
      <4>1. /\ rpc = "first_length" => need <= 1 /\ bytes + need = EndOf(idx) + 1
            /\ rpc = "length_rest" => bytes + need = EndOf(idx) + LengthBytes /\ need < LengthBytes
        BY <1>5 DEF PlaceInv
      <4>2. rpc = "header" => idx = 0 /\ ~next /\ bytes' + need' = HeaderBytes
        BY <1>5, <1>8 DEF PlaceInv
      <4>3. rpc = "first_length" => need' <= 1 /\ bytes' + need' = EndOf(idx) + 1
        <5>1. CASE rpc = "first_length"
          <6>1. need <= 1 /\ bytes + need = EndOf(idx) + 1
            BY <4>1, <5>1
          <6>2. need' <= 1
            BY <1>6, <1>8, <6>1
          <6>3. bytes' + need' = EndOf(idx) + 1
            BY <1>8, <6>1
          <6> QED  BY <6>2, <6>3
        <5> QED  BY <5>1
      <4>4. rpc = "length_rest" => bytes' + need' = EndOf(idx) + LengthBytes /\ need' < LengthBytes
        <5>1. CASE rpc = "length_rest"
          <6>1. need < LengthBytes /\ bytes + need = EndOf(idx) + LengthBytes
            BY <4>1, <5>1
          <6>2. need' < LengthBytes
            BY <1>6, <1>8, <6>1, Sizes
          <6>3. bytes' + need' = EndOf(idx) + LengthBytes
            BY <1>8, <6>1
          <6> QED  BY <6>2, <6>3
        <5> QED  BY <5>1
      <4>5. rpc = "frame" => idx > 0 /\ bytes' + need' = EndOf(idx)
        BY <1>5, <1>8 DEF PlaceInv
      <4> QED  BY <4>2, <4>3, <4>4, <4>5
    <3> QED  BY <1>1, <1>3, <1>4, <1>6, <1>8, <2>1, <3>1, <3>2
             DEF PlaceInv, Held, Over, SealEnded, EndOf
  <2>3. SeenInv(S)'
    BY <1>1, <1>3, <1>5, <2>1 DEF SeenInv, Over
  <2> QED  BY <1>1, <1>4, <2>1, <2>2, <2>3, Goes
<1> QED  BY <1>9, <1>10

\* At the end of the file the bytes that are asked for are not there.
LEMMA NothingLeft ==
    ASSUME NEW S \in Seq(Bytes), Inv(S), Reading, bytes = Size(file) \/ Capacity = 0, need > 0
    PROVE  bytes = Size(file)
<1>1. bytes \in Nat /\ need \in Nat /\ bytes <= MaxCiphertext
  BY DEF Reading, Inv, PlaceInv
<1>2. Capacity > 0
  BY <1>1, Sizes DEF Capacity, Least
<1> QED  BY <1>2

\* The source is at its end: a whole sealed file is not cut short.
LEMMA ReadEofKeeps ==
    ASSUME NEW S \in Seq(Bytes), Inv(S), ReadEof
    PROVE  Inv(S)'
<1>1. /\ Reading /\ need > 0 /\ idx' = idx /\ bytes' = bytes /\ need' = need
      /\ bytes = Size(file) \/ Capacity = 0
      /\ UNCHANGED writer /\ UNCHANGED storage /\ UNCHANGED decoder
      /\ IF rpc = "first_length" /\ idx > 0
         THEN rpc' = "decrypt" /\ next' = FALSE /\ UNCHANGED why
         ELSE Fail("malformed") /\ UNCHANGED next
  BY DEF ReadEof
<1>2. UNCHANGED <<wpc, file, damages, inflow, held, seen, ended, complete, total, out>>
  BY <1>1, Unchanged, Zenon
<1>3. rpc \in {"header", "first_length", "length_rest", "frame"}
  BY <1>1 DEF Reading
<1>4. /\ PlaceInv /\ SeenInv(S) /\ DecodedInv(S) /\ StreamHere(S)' = StreamHere(S)
      /\ Size(file) \in Nat /\ Len(file.frames) \in Nat
      /\ \A i \in 0 .. Len(file.frames) : EndOf(i) \in Nat
      /\ bytes = Size(file)
  BY <1>1, <1>2, FileHere, NothingLeft DEF Inv, StreamHere
<1>5. /\ SealEnded /\ bytes \in Nat /\ need \in Nat /\ bytes <= MaxCiphertext
      /\ idx \in 0 .. Len(file.frames) /\ next \in BOOLEAN /\ damages \in Nat
      /\ EndOf(idx) \in Nat
  BY <1>3, <1>4 DEF PlaceInv
<1>6. CASE rpc = "first_length" /\ idx > 0
  <2>1. rpc' = "decrypt" /\ next' = FALSE
    BY <1>1, <1>6
  <2>2. bytes = EndOf(idx)
    BY <1>1, <1>4, <1>5, <1>6 DEF PlaceInv
  <2>3. PlaceInv'
    BY <1>1, <1>2, <1>4, <1>5, <1>6, <2>1, <2>2 DEF PlaceInv, Held, Over, SealEnded, EndOf
  <2>4. SeenInv(S)'
    BY <1>1, <1>2, <1>4, <1>6, <2>1 DEF SeenInv, Over
  <2> QED  BY <1>1, <1>3, <2>1, <2>3, <2>4, Goes
<1>7. CASE ~(rpc = "first_length" /\ idx > 0)
  <2>1. rpc' = "failed" /\ next' = next
    BY <1>1, <1>7 DEF Fail
  <2>2. ~(wpc = "finished" /\ damages = 0)
    <3>1. SUFFICES ASSUME wpc = "finished", damages = 0 PROVE FALSE
      OBVIOUS
    <3>2. bytes = EndOf(Len(file.frames)) /\ Len(file.frames) > 0
      BY <1>4, <3>1, Sealed
    <3>3. \A i \in 0 .. Len(file.frames) - 1 :
             EndOf(i) + FrameBytes(file.frames[i + 1]) <= bytes
             /\ FrameBytes(file.frames[i + 1]) \in Nat
             /\ FrameBytes(file.frames[i + 1]) > LengthBytes
      <4>1. TAKE i \in 0 .. Len(file.frames) - 1
      <4>2. i \in 0 .. Len(file.frames) /\ Len(file.frames) \in 0 .. Len(file.frames)
            /\ i < Len(file.frames) /\ i + 1 \in 1 .. Len(file.frames)
        BY <1>4
      <4>3. file.frames \in Seq(AnyFrame) /\ file.frames[i + 1] \in AnyFrame
        BY <4>2, FileHere
      <4> QED  BY <3>2, <4>2, <4>3, EndsOrder, FrameIs DEF EndOf
    <3>4. CASE rpc = "header"
      <4>1. bytes + need = HeaderBytes /\ HeaderBytes <= EndOf(Len(file.frames))
        <5>1. Len(file.frames) \in 0 .. Len(file.frames)
          BY <1>4
        <5> QED  BY <1>4, <3>4, <5>1, FileHere DEF PlaceInv
      <4> QED  BY <1>1, <1>5, <3>2, <4>1, Sizes
    <3>5. CASE idx = Len(file.frames)
      <4>1. rpc # "first_length"
        BY <1>7, <3>2, <3>5
      <4> QED  BY <1>1, <1>3, <1>4, <1>5, <3>2, <3>4, <3>5, <4>1, Sizes DEF PlaceInv
    <3>6. CASE idx # Len(file.frames) /\ rpc # "header"
      <4>1. idx \in 0 .. Len(file.frames) - 1
        BY <1>4, <1>5, <3>6
      <4>2. EndOf(idx) + LengthBytes < bytes
        BY <1>5, <3>3, <4>1, Sizes
      <4> QED  BY <1>1, <1>3, <1>4, <1>5, <3>6, <4>2, Sizes DEF PlaceInv
    <3> QED  BY <3>4, <3>5, <3>6
  <2>3. /\ seen \in Nat /\ held \in Seq(PlainBytes) /\ inflow \in Seq(Bytes) /\ ended \in BOOLEAN
        /\ complete \in BOOLEAN
    BY <1>4 DEF SeenInv, DecodedInv
  <2> QED  BY <1>1, <1>2, <1>5, <2>1, <2>2, <2>3, Fails
<1> QED  BY <1>6, <1>7

\* A sealed file has a good header.
LEMMA ParseHeaderKeeps ==
    ASSUME NEW S \in Seq(Bytes), Inv(S), ParseHeader
    PROVE  Inv(S)'
<1>1. /\ rpc = "header" /\ need = 0 /\ idx' = idx /\ bytes' = bytes /\ next' = next
      /\ UNCHANGED writer /\ UNCHANGED storage /\ UNCHANGED decoder
      /\ IF file.header = "bad" THEN Fail("unsupported") /\ UNCHANGED need
         ELSE rpc' = "first_length" /\ need' = 1 /\ UNCHANGED why
  BY DEF ParseHeader
<1>2. UNCHANGED <<wpc, file, damages, inflow, held, seen, ended, complete, total, out>>
  BY <1>1, Unchanged, Zenon
<1>3. /\ PlaceInv /\ SeenInv(S) /\ DecodedInv(S) /\ StreamHere(S)' = StreamHere(S)
      /\ Size(file) \in Nat /\ Len(file.frames) \in Nat /\ EndOf(0) = HeaderBytes
      /\ Len(StreamHere(S)) \in Nat
  BY <1>2, FileHere, StreamHereIs DEF Inv, StreamHere
<1>4. /\ SealEnded /\ bytes \in Nat /\ bytes <= MaxCiphertext /\ bytes <= Size(file)
      /\ idx = 0 /\ ~next /\ next \in BOOLEAN /\ damages \in Nat /\ bytes = HeaderBytes
  BY <1>1, <1>3, Sizes DEF PlaceInv
<1>5. seen = 0
  BY <1>1, <1>3 DEF SeenInv
<1>6. CASE file.header = "bad"
  <2>1. rpc' = "failed" /\ need' = need
    BY <1>1, <1>6 DEF Fail
  <2>2. ~(wpc = "finished" /\ damages = 0)
    BY <1>6, Sealed
  <2>3. /\ held \in Seq(PlainBytes) /\ inflow \in Seq(Bytes) /\ ended \in BOOLEAN
        /\ complete \in BOOLEAN
    BY <1>3 DEF DecodedInv
  <2> QED  BY <1>1, <1>2, <1>4, <1>5, <2>1, <2>2, <2>3, Fails
<1>7. CASE file.header # "bad"
  <2>1. rpc' = "first_length" /\ need' = 1
    BY <1>1, <1>7
  <2>2. PlaceInv'
    BY <1>1, <1>2, <1>3, <1>4, <2>1, Sizes DEF PlaceInv, Held, Over, SealEnded, EndOf
  <2>3. SeenInv(S)'
    BY <1>1, <1>2, <1>3, <1>4, <1>5, <1>7, <2>1 DEF SeenInv, Over
  <2> QED  BY <1>1, <2>1, <2>2, <2>3, Goes
<1> QED  BY <1>6, <1>7

\* One byte of a length is there, so the others are wanted.
LEMMA ReadLengthRestKeeps ==
    ASSUME NEW S \in Seq(Bytes), Inv(S), ReadLengthRest
    PROVE  Inv(S)'
<1>1. /\ rpc = "first_length" /\ need = 0 /\ rpc' = "length_rest" /\ need' = LengthBytes - 1
      /\ idx' = idx /\ bytes' = bytes /\ next' = next
      /\ UNCHANGED writer /\ UNCHANGED storage /\ UNCHANGED decoder
  BY DEF ReadLengthRest
<1>2. UNCHANGED <<wpc, file, damages, seen>>
  BY <1>1, Unchanged, Zenon
<1>3. /\ PlaceInv /\ SeenInv(S) /\ StreamHere(S)' = StreamHere(S)
      /\ Len(file.frames) \in Nat /\ \A i \in 0 .. Len(file.frames) : EndOf(i) \in Nat
  BY <1>2, FileHere DEF Inv, StreamHere
<1>4. PlaceInv'
  <2>1. need' \in Nat /\ need' < LengthBytes
    BY <1>1, Sizes
  <2>2. /\ SealEnded /\ bytes \in Nat /\ bytes <= MaxCiphertext /\ bytes <= Size(file)
        /\ idx \in 0 .. Len(file.frames) /\ next \in BOOLEAN /\ damages \in Nat
        /\ EndOf(idx) \in Nat /\ bytes = EndOf(idx) + 1
    BY <1>1, <1>3 DEF PlaceInv
  <2>3. bytes + need' = EndOf(idx) + LengthBytes
    BY <1>1, <2>2, Sizes
  <2> QED  BY <1>1, <1>2, <2>1, <2>2, <2>3 DEF PlaceInv, Held, Over, SealEnded, EndOf
<1>5. SeenInv(S)'
  BY <1>1, <1>2, <1>3 DEF SeenInv, Over
<1> QED  BY <1>1, <1>4, <1>5, Goes
\* The length is the one of the next frame, and good if the file was sealed.
LEMMA ParseLengthKeeps ==
    ASSUME NEW S \in Seq(Bytes), Inv(S), ParseLength
    PROVE  Inv(S)'
<1> DEFINE f == file.frames[idx + 1]
           length == FrameLength(f)
<1>1. /\ rpc = "length_rest" /\ need = 0 /\ bytes' = bytes
      /\ UNCHANGED writer /\ UNCHANGED storage /\ UNCHANGED decoder
      /\ IF length \notin TagBytes .. BlockBytes + TagBytes
         THEN Fail("malformed") /\ UNCHANGED <<idx, need, next>>
         ELSE IF idx = 0
         THEN rpc' = "frame" /\ idx' = 1 /\ need' = length /\ UNCHANGED <<why, next>>
         ELSE rpc' = "decrypt" /\ next' = TRUE /\ UNCHANGED <<why, idx, need>>
  BY DEF ParseLength
<1> HIDE DEF length
<1>2. UNCHANGED <<wpc, file, damages, inflow, held, seen, ended, complete, total, out>>
  BY <1>1, Unchanged, Zenon
<1>3. /\ PlaceInv /\ SeenInv(S) /\ DecodedInv(S) /\ StreamHere(S)' = StreamHere(S)
      /\ Size(file) \in Nat /\ Len(file.frames) \in Nat /\ EndOf(0) = HeaderBytes
      /\ \A i \in 0 .. Len(file.frames) : EndOf(i) \in Nat
      /\ \A i \in 0 .. Len(file.frames) - 1 :
            EndOf(i + 1) = EndOf(i) + FrameBytes(file.frames[i + 1])
      /\ \A i \in 1 .. Len(file.frames) : file.frames[i] \in AnyFrame
  BY <1>2, FileHere DEF Inv, StreamHere
<1>4. /\ SealEnded /\ bytes \in Nat /\ bytes <= MaxCiphertext /\ bytes <= Size(file)
      /\ idx \in 0 .. Len(file.frames) /\ next \in BOOLEAN /\ damages \in Nat
      /\ EndOf(idx) \in Nat /\ bytes + need = EndOf(idx) + LengthBytes /\ need \in Nat
  BY <1>1, <1>3 DEF PlaceInv
<1>5. bytes = EndOf(idx) + LengthBytes /\ EndOf(idx) < bytes
  BY <1>1, <1>4, Sizes
<1>6. idx \in 0 .. Len(file.frames) - 1 /\ idx + 1 \in 1 .. Len(file.frames)
  BY <1>4, <1>5, NotLast
<1>7. f \in AnyFrame
  BY <1>3, <1>6
<1>8. /\ length \in Nat /\ EndOf(idx + 1) = EndOf(idx) + FrameBytes(f)
      /\ FrameBytes(f) = LengthBytes + length
  BY <1>3, <1>6, <1>7, FrameIs DEF length
<1>9. EndOf(idx + 1) = bytes + length
  <2>1. EndOf(idx + 1) = EndOf(idx) + (LengthBytes + length)
    BY <1>8, Zenon
  <2>2. EndOf(idx) \in Nat /\ LengthBytes \in Nat /\ length \in Nat
    BY <1>4, <1>8, Sizes, Zenon
  <2>3. EndOf(idx) + (LengthBytes + length) = (EndOf(idx) + LengthBytes) + length
    BY <2>2
  <2> QED  BY <1>5, <2>1, <2>3, Zenon
<1>10. CASE length \notin TagBytes .. BlockBytes + TagBytes
  <2>1. rpc' = "failed" /\ idx' = idx /\ need' = need /\ next' = next
    BY <1>1, <1>10 DEF Fail
  <2>2. ~(wpc = "finished" /\ damages = 0)
    <3>1. SUFFICES ASSUME wpc = "finished", damages = 0 PROVE FALSE
      OBVIOUS
    <3>2. FrameOf(f, "mine", S)
      BY <1>6, <3>1, Sealed
    <3>3. Len(f.body) \in Nat /\ Len(f.body) <= BlockBytes /\ length = Len(f.body) + TagBytes
      <4>1. f.final \in BOOLEAN /\ Len(f.body) \in Nat /\ length = Len(f.body) + TagBytes
        BY <1>7, FrameIs DEF length
      <4> HIDE DEF f
      <4>2. f.final => Len(f.body) < BlockBytes
        BY <3>2, BodyOf
      <4>3. ~f.final => Len(f.body) = BlockBytes
        BY <3>2, BodyOf
      <4> QED  BY <4>1, <4>2, <4>3, Sizes
    <3> QED  BY <1>10, <3>3, Sizes
  <2>3. /\ seen \in Nat /\ held \in Seq(PlainBytes) /\ inflow \in Seq(Bytes) /\ ended \in BOOLEAN
        /\ complete \in BOOLEAN
    BY <1>3 DEF SeenInv, DecodedInv
  <2> QED  BY <1>1, <1>2, <1>4, <2>1, <2>2, <2>3, Fails
<1>11. CASE length \in TagBytes .. BlockBytes + TagBytes /\ idx = 0
  <2>1. rpc' = "frame" /\ idx' = 1 /\ need' = length /\ next' = next
    BY <1>1, <1>11
  <2>2. idx' \in 0 .. Len(file.frames) /\ bytes + length = EndOf(1)
    BY <1>6, <1>9, <1>11, <2>1
  <2>3. PlaceInv'
    BY <1>1, <1>2, <1>4, <1>8, <2>1, <2>2 DEF PlaceInv, Held, Over, SealEnded, EndOf
  <2>4. SeenInv(S)'
    <3>1. /\ seen = 0 /\ file.header # "bad" /\ seen <= Len(StreamHere(S))
      BY <1>1, <1>3, <1>11 DEF SeenInv
    <3>2. (1 - 1) * BlockBytes = 0
      BY Sizes
    <3> QED  BY <1>2, <1>3, <2>1, <3>1, <3>2 DEF SeenInv, Over
  <2> QED  BY <1>1, <2>1, <2>3, <2>4, Goes
<1>12. CASE length \in TagBytes .. BlockBytes + TagBytes /\ idx # 0
  <2>1. rpc' = "decrypt" /\ idx' = idx /\ need' = need /\ next' = TRUE
    BY <1>1, <1>12
  <2>2. idx > 0 /\ idx < Len(file.frames)
    BY <1>3, <1>6, <1>12
  <2>3. PlaceInv'
    BY <1>1, <1>2, <1>4, <1>5, <2>1, <2>2 DEF PlaceInv, Held, Over, SealEnded, EndOf
  <2>4. SeenInv(S)'
    BY <1>1, <1>2, <1>3, <2>1, <2>2 DEF SeenInv, Over
  <2> QED  BY <1>1, <2>1, <2>3, <2>4, Goes
<1> QED  BY <1>10, <1>11, <1>12

\* The whole frame is held; the next length comes before it is decrypted.
LEMMA FrameReadKeeps ==
    ASSUME NEW S \in Seq(Bytes), Inv(S), FrameRead
    PROVE  Inv(S)'
<1>1. /\ rpc = "frame" /\ need = 0 /\ rpc' = "first_length" /\ need' = 1
      /\ idx' = idx /\ bytes' = bytes /\ next' = next
      /\ UNCHANGED writer /\ UNCHANGED storage /\ UNCHANGED decoder
  BY DEF FrameRead
<1>2. UNCHANGED <<wpc, file, damages, seen>>
  BY <1>1, Unchanged, Zenon
<1>3. /\ PlaceInv /\ SeenInv(S) /\ StreamHere(S)' = StreamHere(S)
      /\ Len(file.frames) \in Nat /\ \A i \in 0 .. Len(file.frames) : EndOf(i) \in Nat
  BY <1>2, FileHere DEF Inv, StreamHere
<1>4. PlaceInv'
  <2>1. /\ SealEnded /\ bytes \in Nat /\ bytes <= MaxCiphertext /\ bytes <= Size(file)
        /\ idx \in 0 .. Len(file.frames) /\ next \in BOOLEAN /\ damages \in Nat
        /\ EndOf(idx) \in Nat /\ bytes = EndOf(idx)
    BY <1>1, <1>3 DEF PlaceInv
  <2> QED  BY <1>1, <1>2, <2>1 DEF PlaceInv, Held, Over, SealEnded, EndOf
<1>5. SeenInv(S)'
  <2>1. idx > 0
    BY <1>1, <1>3 DEF PlaceInv
  <2> QED  BY <1>1, <1>2, <1>3, <2>1 DEF SeenInv, Over
<1> QED  BY <1>1, <1>4, <1>5, Goes

\* A block has been decoded: there is another frame, or the file ends.
LEMMA NextOrEndKeeps ==
    ASSUME NEW S \in Seq(Bytes), Inv(S), NextOrEnd
    PROVE  Inv(S)'
<1> DEFINE f == file.frames[idx + 1]
<1>1. /\ rpc = "pushed" /\ bytes' = bytes /\ next' = next
      /\ UNCHANGED writer /\ UNCHANGED storage /\ UNCHANGED decoder
      /\ IF next
         THEN rpc' = "frame" /\ idx' = idx + 1 /\ need' = FrameLength(f)
         ELSE rpc' = "end" /\ UNCHANGED <<idx, need>>
  BY DEF NextOrEnd
<1>2. UNCHANGED <<wpc, file, damages, seen>>
  BY <1>1, Unchanged, Zenon
<1>3. /\ PlaceInv /\ SeenInv(S) /\ StreamHere(S)' = StreamHere(S)
      /\ Len(file.frames) \in Nat /\ \A i \in 0 .. Len(file.frames) : EndOf(i) \in Nat
      /\ \A i \in 0 .. Len(file.frames) - 1 :
            EndOf(i + 1) = EndOf(i) + FrameBytes(file.frames[i + 1])
      /\ \A i \in 1 .. Len(file.frames) : file.frames[i] \in AnyFrame
  BY <1>2, FileHere DEF Inv, StreamHere
<1>4. /\ SealEnded /\ bytes \in Nat /\ need \in Nat /\ bytes <= MaxCiphertext /\ bytes <= Size(file)
      /\ idx \in 0 .. Len(file.frames) /\ next \in BOOLEAN /\ damages \in Nat /\ idx > 0
      /\ EndOf(idx) \in Nat
  BY <1>1, <1>3 DEF PlaceInv, Held
<1>5. CASE next
  <2>1. rpc' = "frame" /\ idx' = idx + 1 /\ need' = FrameLength(f)
    BY <1>1, <1>5
  <2>2. idx < Len(file.frames) /\ bytes = EndOf(idx) + LengthBytes
    BY <1>1, <1>3, <1>5 DEF PlaceInv, Held
  <2>3. idx \in 0 .. Len(file.frames) - 1 /\ idx + 1 \in 1 .. Len(file.frames)
        /\ idx + 1 \in 0 .. Len(file.frames) /\ idx + 1 > 0
    BY <1>3, <1>4, <2>2
  <2>4. f \in AnyFrame /\ EndOf(idx + 1) = EndOf(idx) + FrameBytes(f)
    BY <1>3, <2>3
  <2>5. FrameLength(f) \in Nat /\ FrameBytes(f) = LengthBytes + FrameLength(f)
    BY <2>4, FrameIs
  <2>6. bytes + FrameLength(f) = EndOf(idx + 1)
    BY <1>4, <2>2, <2>4, <2>5, Sizes
  <2>7. PlaceInv'
    BY <1>1, <1>2, <1>4, <2>1, <2>3, <2>5, <2>6 DEF PlaceInv, Held, Over, SealEnded, EndOf
  <2>8. SeenInv(S)'
    <3>1. seen = idx * BlockBytes /\ (idx + 1) - 1 = idx
      BY <1>1, <1>3, <1>4, <1>5 DEF SeenInv
    <3>2. seen \in Nat /\ file.header # "bad" /\ seen <= Len(StreamHere(S))
      BY <1>1, <1>3 DEF SeenInv
    <3>3. /\ rpc' = "frame" /\ seen' = (idx' - 1) * BlockBytes /\ seen' \in Nat
          /\ file'.header # "bad" /\ seen' <= Len(StreamHere(S)')
      BY <1>2, <1>3, <2>1, <3>1, <3>2
    <3> QED  BY <3>3 DEF SeenInv, Over
  <2> QED  BY <1>1, <2>1, <2>7, <2>8, Goes
<1>6. CASE ~next
  <2>1. rpc' = "end" /\ idx' = idx /\ need' = need
    BY <1>1, <1>6
  <2>2. bytes = EndOf(idx) /\ bytes = Size(file)
    BY <1>1, <1>3, <1>6 DEF PlaceInv, Held
  <2>3. PlaceInv'
    BY <1>1, <1>2, <1>4, <1>6, <2>1, <2>2 DEF PlaceInv, Held, Over, SealEnded, EndOf
  <2>4. SeenInv(S)'
    <3>1. /\ seen \in Nat /\ file.header # "bad" /\ seen = Len(StreamHere(S))
          /\ file.header = "mine" => wpc = "finished"
      BY <1>1, <1>3, <1>6 DEF SeenInv
    <3> QED  BY <1>2, <1>3, <2>1, <3>1 DEF SeenInv, Over
  <2> QED  BY <1>1, <2>1, <2>3, <2>4, Goes
<1> QED  BY <1>5, <1>6

\* Success is returned only after the end of the Zstd frame.
LEMMA FinishOpenKeeps ==
    ASSUME NEW S \in Seq(Bytes), Inv(S), FinishOpen
    PROVE  Inv(S)'
<1>1. /\ rpc = "end" /\ bytes' = bytes /\ need' = need /\ idx' = idx /\ next' = next
      /\ UNCHANGED writer /\ UNCHANGED storage /\ UNCHANGED decoder
      /\ IF HeaderChecked(seen) /\ complete THEN rpc' = "ok" /\ UNCHANGED why
         ELSE Fail("compressed_data")
  BY DEF FinishOpen
<1>2. UNCHANGED <<wpc, file, damages, inflow, held, seen, ended, complete, total, out>>
  BY <1>1, Unchanged, Zenon
<1>3. /\ PlaceInv /\ SeenInv(S) /\ DecodedInv(S) /\ StreamHere(S)' = StreamHere(S)
      /\ Len(StreamHere(S)) \in Nat
  BY <1>2, StreamHereIs DEF Inv, StreamHere
<1>4. /\ SealEnded /\ bytes \in Nat /\ need \in Nat /\ bytes <= MaxCiphertext
      /\ idx \in 0 .. Len(file.frames) /\ ~next /\ next \in BOOLEAN /\ damages \in Nat /\ idx > 0
      /\ bytes = EndOf(idx) /\ bytes = Size(file)
  BY <1>1, <1>3 DEF PlaceInv, Over
<1>5. /\ seen \in Nat /\ file.header # "bad" /\ seen = Len(StreamHere(S))
      /\ file.header = "mine" => wpc = "finished"
  BY <1>1, <1>3 DEF SeenInv, Over
<1>6. /\ ended = EndBy(StreamHere(S), seen) /\ complete = ended /\ ended \in BOOLEAN
      /\ held \in Seq(PlainBytes) /\ inflow \in Seq(Bytes) /\ complete \in BOOLEAN
  BY <1>1, <1>3 DEF DecodedInv
<1>7. CASE HeaderChecked(seen) /\ complete
  <2>1. rpc' = "ok"
    BY <1>1, <1>7
  <2>2. PlaceInv'
    BY <1>1, <1>2, <1>4, <2>1 DEF PlaceInv, Held, Over, SealEnded, EndOf
  <2>3. SeenInv(S)'
    BY <1>2, <1>3, <1>5, <2>1 DEF SeenInv, Over
  <2>4. ended
    BY <1>6, <1>7
  <2> QED  BY <1>1, <2>1, <2>2, <2>3, <2>4, Goes
<1>8. CASE ~(HeaderChecked(seen) /\ complete)
  <2>1. rpc' = "failed"
    BY <1>1, <1>8 DEF Fail
  <2>2. ~(wpc = "finished" /\ damages = 0)
    <3>1. SUFFICES ASSUME wpc = "finished", damages = 0 PROVE FALSE
      OBVIOUS
    <3>2. EndBy(S, Len(S)) /\ StreamHere(S) = S /\ StreamOf(S, "mine", plaintext_bytes)
          /\ Len(S) \in Nat /\ Len(S) <= Len(S)
      BY <3>1, Sealed, StreamHereIs
    <3>3. Len(S) > ZstdHeader
      BY <3>2, EndIsLast
    <3>4. complete
      BY <1>5, <1>6, <3>2
    <3> QED  BY <1>5, <1>8, <3>2, <3>3, <3>4, Sizes DEF HeaderChecked
  <2> QED  BY <1>1, <1>2, <1>4, <1>5, <1>6, <2>1, <2>2, Fails
<1> QED  BY <1>7, <1>8

LEMMA OpenInterruptedKeeps ==
    ASSUME NEW S \in Seq(Bytes), Inv(S), OpenInterrupted
    PROVE  Inv(S)'
<1>1. /\ rpc # "idle" /\ rpc' = "failed" /\ why' = "interrupted"
      /\ bytes' = bytes /\ need' = need /\ idx' = idx /\ next' = next
      /\ UNCHANGED writer /\ UNCHANGED storage /\ UNCHANGED decoder
  BY DEF OpenInterrupted, Fail
<1>2. UNCHANGED <<inflow, held, seen, ended, complete, total, out>>
  BY <1>1, Unchanged, Zenon
<1>3. SealEnded /\ bytes \in Nat /\ need \in Nat /\ next \in BOOLEAN
  BY <1>1 DEF Inv, PlaceInv
<1>4. /\ seen \in Nat /\ held \in Seq(PlainBytes) /\ inflow \in Seq(Bytes) /\ ended \in BOOLEAN
      /\ complete \in BOOLEAN
  BY DEF Inv, SeenInv, DecodedInv
<1> QED  BY <1>1, <1>2, <1>3, <1>4, Fails
\* The frame held belongs to the stream at the place the reader has come to.
LEMMA FrameHeld ==
    ASSUME NEW S \in Seq(Bytes), Inv(S), rpc = "decrypt", Authentic(file.frames[idx])
    PROVE  LET f == file.frames[idx]
               T == StreamHere(S)
               m == seen + Len(f.body)
           IN  /\ file.header # "bad" /\ Len(f.body) \in Nat /\ f.body \in Seq(Bytes)
               /\ m \in Nat /\ m <= Len(T) /\ f.body = SubSeq(T, seen + 1, m)
               /\ next => m = idx * BlockBytes
               /\ ~next => m = Len(T) /\ (file.header = "mine" => wpc = "finished")
<1> DEFINE f == file.frames[idx]
           T == StreamHere(S)
<1>1. f.obj = file.header /\ f.index = idx - 1 /\ f.final = ~next
  BY DEF Authentic
<1>2. /\ file.header # "bad" /\ seen \in Nat /\ idx > 0 /\ idx \in 0 .. Len(file.frames)
      /\ SealEnded /\ next \in BOOLEAN /\ bytes \in Nat
      /\ ~next => bytes = EndOf(idx) /\ bytes = Size(file)
  BY DEF Inv, PlaceInv, SeenInv, Held
<1>3. seen = (idx - 1) * BlockBytes
  BY <1>2 DEF Inv, SeenInv
<1>4. idx \in 1 .. Len(file.frames)
  BY <1>2, FileHere
<1>5. FrameOf(f, file.header, T)
  <2>1. \/ FrameOf(f, "mine", S)
        \/ FrameOf(f, "other", OtherStream)
        \/ f = GarbageFrame
    BY <1>4 DEF Inv, FileInv
  <2>2. file.header \in {"mine", "other"}
    BY <1>2, StreamHereIs
  <2>3. CASE file.header = "mine"
    <3>1. FrameOf(f, "mine", S)
      BY <1>1, <2>1, <2>3, GarbageIs DEF FrameOf
    <3> QED  BY <2>3, <3>1 DEF StreamHere
  <2>4. CASE file.header = "other"
    <3>1. FrameOf(f, "other", OtherStream)
      BY <1>1, <2>1, <2>4, GarbageIs DEF FrameOf
    <3> QED  BY <2>4, <3>1 DEF StreamHere
  <2> QED  BY <2>2, <2>3, <2>4
<1>6. file.header = "mine" /\ ~next => wpc = "finished"
  <2>1. SUFFICES ASSUME file.header = "mine", ~next PROVE wpc = "finished"
    OBVIOUS
  <2>2. f.obj = "mine" /\ f.final
    BY <1>1, <2>1
  <2>3. \/ wpc = "finished"
        \/ wpc = "failed" /\ Ends(file.frames)[idx] > Size(file)
    BY <1>4, <2>2 DEF Inv, FileInv
  <2>4. Ends(file.frames)[idx] = bytes /\ Size(file) = bytes
    BY <1>2, <2>1 DEF EndOf
  <2> QED  BY <1>2, <2>3, <2>4
<1>7. f \in AnyFrame /\ T \in Seq(Bytes) /\ Len(T) \in Nat
  BY <1>4, FileHere, StreamHereIs
<1>8. Len(f.body) \in Nat /\ f.body \in Seq(Bytes)
  BY <1>7, FrameIs
<1>9. f.index * BlockBytes = seen
  BY <1>1, <1>3
<1> HIDE DEF f, T
<1>10. LET n == f.index * BlockBytes
           m == n + Len(f.body)
       IN  /\ n \in Nat /\ m \in Nat /\ m <= Len(T)
           /\ f.body = SubSeq(T, n + 1, m)
           /\ f.final => m = Len(T) /\ Len(f.body) < BlockBytes
           /\ ~f.final => Len(f.body) = BlockBytes
  BY <1>5, <1>7, BodyOf
<1>11. LET m == seen + Len(f.body)
       IN  /\ m \in Nat /\ m <= Len(T)
           /\ f.body = SubSeq(T, seen + 1, m)
           /\ f.final => m = Len(T)
           /\ ~f.final => Len(f.body) = BlockBytes
  BY <1>9, <1>10
<1>12. next => seen + Len(f.body) = idx * BlockBytes
  <2>1. SUFFICES ASSUME next PROVE seen + Len(f.body) = idx * BlockBytes
    OBVIOUS
  <2>2. Len(f.body) = BlockBytes
    BY <1>1, <1>11, <2>1
  <2>3. idx - 1 \in Nat /\ (idx - 1) + 1 = idx
    BY <1>2, <1>4
  <2>4. ((idx - 1) + 1) * BlockBytes = (idx - 1) * BlockBytes + BlockBytes
    BY <2>3, Blocks
  <2> QED  BY <1>3, <2>2, <2>3, <2>4
<1>13. ~next => seen + Len(f.body) = Len(T)
  BY <1>1, <1>11
<1> QED  BY <1>2, <1>6, <1>8, <1>11, <1>12, <1>13 DEF f, T

\* A frame that authenticates is the next part of the stream.
LEMMA DecryptFrameKeeps ==
    ASSUME NEW S \in Seq(Bytes), Inv(S), DecryptFrame
    PROVE  Inv(S)'
<1> DEFINE f == file.frames[idx]
           T == StreamHere(S)
<1>1. /\ rpc = "decrypt"
      /\ IF next /\ FrameLength(f) # BlockBytes + TagBytes
         THEN Fail("malformed") /\ UNCHANGED <<inflow, seen>>
         ELSE IF ~Authentic(f)
         THEN Fail("authentication") /\ UNCHANGED <<inflow, seen>>
         ELSE IF complete /\ f.body # <<>>
         THEN Fail("compressed_data") /\ UNCHANGED <<inflow, seen>>
         ELSE /\ seen' = seen + Len(f.body)
              /\ inflow' = f.body
              /\ rpc' = IF complete \/ ~HeaderChecked(seen') THEN "pushed" ELSE "decode"
      /\ bytes' = bytes /\ need' = need /\ idx' = idx /\ next' = next /\ held' = held
      /\ ended' = ended /\ complete' = complete /\ total' = total /\ out' = out
      /\ UNCHANGED writer /\ UNCHANGED storage
  BY DEF DecryptFrame
<1>2. UNCHANGED <<wpc, left, plaintext_bytes, compressed_bytes, ciphertext_bytes,
                  block_count, absorbed, pending, descriptor, file, damages>>
  BY <1>1, Unchanged, Zenon
<1>3. /\ PlaceInv /\ SeenInv(S) /\ DecodedInv(S) /\ StreamHere(S)' = T /\ SizeHere' = SizeHere
      /\ T \in Seq(Bytes) /\ Len(T) \in Nat /\ SizeHere \in Nat
  BY <1>2, StreamHereIs DEF Inv, StreamHere, SizeHere
<1>4. /\ SealEnded /\ bytes \in Nat /\ need \in Nat /\ bytes <= MaxCiphertext /\ bytes <= Size(file)
      /\ idx \in 0 .. Len(file.frames) /\ next \in BOOLEAN /\ damages \in Nat /\ idx > 0
      /\ IF next THEN idx < Len(file.frames) /\ bytes = EndOf(idx) + LengthBytes
         ELSE bytes = EndOf(idx) /\ bytes = Size(file)
  BY <1>1, <1>3 DEF PlaceInv, Held
<1>5. seen \in Nat /\ file.header # "bad" /\ seen <= Len(T)
  BY <1>1, <1>3 DEF SeenInv
<1>6. /\ Begins(out, file.header, SizeHere) /\ total = Len(out) /\ total <= MaxPlaintext
      /\ held = <<>> /\ out = Units(SubSeq(T, 1, seen))
      /\ ended = EndBy(T, seen) /\ complete = ended /\ ended \in BOOLEAN
      /\ held \in Seq(PlainBytes) /\ inflow \in Seq(Bytes) /\ complete \in BOOLEAN
  BY <1>1, <1>3 DEF DecodedInv
<1>7. StreamOf(T, file.header, SizeHere)
  BY <1>5, StreamHereIs
<1>8. ASSUME Authentic(f)
      PROVE  /\ Len(f.body) \in Nat /\ f.body \in Seq(Bytes)
             /\ seen + Len(f.body) \in Nat /\ seen + Len(f.body) <= Len(T)
             /\ f.body = SubSeq(T, seen + 1, seen + Len(f.body))
             /\ next => seen + Len(f.body) = idx * BlockBytes
             /\ ~next => seen + Len(f.body) = Len(T) /\ (file.header = "mine" => wpc = "finished")
  BY <1>1, <1>8, FrameHeld
<1>9. ASSUME Authentic(f), complete PROVE seen = Len(T) /\ f.body = <<>>
  <2>1. seen = Len(T)
    BY <1>5, <1>6, <1>7, <1>9, EndIsLast
  <2>2. Len(f.body) \in Nat /\ f.body \in Seq(Bytes) /\ seen + Len(f.body) <= Len(T)
    BY <1>8, <1>9
  <2>3. Len(f.body) = 0
    BY <1>3, <2>1, <2>2
  <2> QED  BY <2>1, <2>2, <2>3, EmptySeq
<1>10. CASE rpc' = "failed" /\ inflow' = inflow /\ seen' = seen /\ ~(wpc = "finished" /\ damages = 0)
  BY <1>1, <1>4, <1>5, <1>6, <1>10, Fails
<1>11. CASE /\ seen' = seen + Len(f.body) /\ inflow' = f.body /\ Authentic(f)
            /\ complete \/ ~HeaderChecked(seen')
            /\ rpc' = "pushed"
  <2>1. rpc' = "pushed"
    BY <1>11
  <2>2. /\ seen' \in Nat /\ seen' <= Len(T) /\ inflow' \in Seq(Bytes)
        /\ next => seen' = idx * BlockBytes
        /\ ~next => seen' = Len(T) /\ (file.header = "mine" => wpc = "finished")
    BY <1>8, <1>11
  <2>3. out = Units(SubSeq(T, 1, seen')) /\ ended = EndBy(T, seen')
    <3>1. CASE complete
      <4>1. seen' = seen
        <5>1. Len(f.body) = 0
          BY <1>9, <1>11, <3>1, EmptySeq
        <5> QED  BY <1>5, <1>11, <5>1
      <4> QED  BY <1>6, <4>1
    <3>2. CASE ~complete
      <4>1. seen' < ZstdHeader /\ seen <= seen'
        <5>1. ~HeaderChecked(seen')
          BY <1>11, <3>2
        <5>2. seen' < ZstdHeader
          BY <2>2, <5>1, Sizes DEF HeaderChecked
        <5>3. Len(f.body) \in Nat /\ seen' = seen + Len(f.body)
          BY <1>8, <1>11
        <5>4. seen \in Nat
          BY <1>5
        <5> QED  BY <5>2, <5>3, <5>4
      <4>2. seen <= ZstdHeader /\ seen' <= ZstdHeader
        BY <1>5, <2>2, <4>1, Sizes
      <4>3. Units(SubSeq(T, 1, seen')) = <<>> /\ ~EndBy(T, seen')
        BY <1>7, <2>2, <4>2, HeaderOnly
      <4>4. Units(SubSeq(T, 1, seen)) = <<>>
        BY <1>5, <1>7, <4>2, HeaderOnly
      <4>5. EndBy(T, seen') = FALSE
        BY <4>3 DEF EndBy
      <4>6. ended = FALSE
        BY <1>6, <3>2
      <4> QED  BY <1>6, <4>3, <4>4, <4>5, <4>6
    <3> QED  BY <3>1, <3>2
  <2>4. PlaceInv'
    BY <1>1, <1>2, <1>4, <2>1 DEF PlaceInv, Held, Over, SealEnded, EndOf
  <2>5. SeenInv(S)'
    <3>1. rpc' = "pushed" /\ next' = next /\ idx' = idx /\ file' = file /\ wpc' = wpc
      BY <1>1, <1>2, <2>1
    <3> QED  BY <1>3, <1>5, <2>2, <3>1 DEF SeenInv, Over
  <2>6. DecodedInv(S)'
    BY <1>1, <1>2, <1>3, <1>6, <2>1, <2>2, <2>3 DEF DecodedInv
  <2>7. SealedOpens'
    BY <2>1 DEF SealedOpens
  <2>8. WriterInv(S)' /\ FileInv(S)' /\ UndamagedInv'
    BY <1>1, ReaderFrame
  <2> QED  BY <2>4, <2>5, <2>6, <2>7, <2>8 DEF Inv
<1>12. CASE /\ seen' = seen + Len(f.body) /\ inflow' = f.body /\ Authentic(f)
            /\ ~complete /\ rpc' = "decode"
  <2>1. /\ seen' \in Nat /\ seen' <= Len(T) /\ inflow' \in Seq(Bytes)
        /\ next => seen' = idx * BlockBytes
        /\ ~next => seen' = Len(T) /\ (file.header = "mine" => wpc = "finished")
        /\ inflow' = SubSeq(T, seen + 1, seen') /\ Len(inflow') \in Nat
        /\ seen' - Len(inflow') = seen /\ Len(inflow') <= seen'
    <3>1. /\ seen' = seen + Len(f.body) /\ inflow' = f.body
          /\ Len(f.body) \in Nat /\ f.body \in Seq(Bytes)
          /\ seen + Len(f.body) \in Nat /\ seen + Len(f.body) <= Len(T)
          /\ f.body = SubSeq(T, seen + 1, seen + Len(f.body))
          /\ next => seen + Len(f.body) = idx * BlockBytes
          /\ ~next => seen + Len(f.body) = Len(T) /\ (file.header = "mine" => wpc = "finished")
      BY <1>8, <1>12, ZenonT(60)
    <3>2. seen \in Nat
      BY <1>5
    <3>3. seen' = seen + Len(inflow') /\ Len(inflow') \in Nat
      BY <3>1, ZenonT(60)
    <3>4. seen' - Len(inflow') = seen /\ Len(inflow') <= seen'
      <4>1. \A a, b, c \in Nat : c = a + b => c - b = a /\ b <= c
        OBVIOUS
      <4>2. seen' \in Nat
        BY <3>1, ZenonT(60)
      <4> QED  BY <3>2, <3>3, <4>1, <4>2, ZenonT(60)
    <3> QED  BY <3>1, <3>3, <3>4, ZenonT(60)
  <2>2. PlaceInv'
    BY <1>1, <1>2, <1>4, <1>12 DEF PlaceInv, Held, Over, SealEnded, EndOf
  <2>3. SeenInv(S)'
    <3>1. rpc' = "decode" /\ next' = next /\ idx' = idx /\ file' = file /\ wpc' = wpc
      BY <1>1, <1>2, <1>12
    <3> QED  BY <1>3, <1>5, <2>1, <3>1 DEF SeenInv, Over
  <2>4. DecodedInv(S)'
    <3>1. Cat(out, held) = Units(SubSeq(T, 1, seen))
      <4>1. out \in Seq(PlainBytes)
        BY <1>6 DEF Begins
      <4>2. Cat(out, <<>>) = out
        BY <4>1, CatEmpty
      <4> QED  BY <1>6, <4>2
    <3> HIDE DEF T
    <3>2. Begins(out', file'.header, SizeHere') /\ total' = Len(out') /\ total' <= MaxPlaintext
      BY <1>1, <1>2, <1>3, <1>6
    <3>3. /\ held' \in Seq(PlainBytes) /\ inflow' \in Seq(Bytes) /\ ended' \in BOOLEAN
          /\ complete' \in BOOLEAN /\ ~complete'
      BY <1>1, <1>6, <1>12, <2>1
    <3>4. /\ ended' = EndBy(T, seen) /\ Cat(out', held') = Units(SubSeq(T, 1, seen))
      BY <1>1, <1>6, <3>1
    <3> QED  BY <1>3, <1>12, <2>1, <3>2, <3>3, <3>4 DEF DecodedInv
  <2>5. SealedOpens'
    BY <1>12 DEF SealedOpens
  <2>6. WriterInv(S)' /\ FileInv(S)' /\ UndamagedInv'
    BY <1>1, ReaderFrame
  <2> QED  BY <2>2, <2>3, <2>4, <2>5, <2>6 DEF Inv
<1>13. ASSUME wpc = "finished", damages = 0
       PROVE  Authentic(f) /\ (next => FrameLength(f) = BlockBytes + TagBytes)
  <2>1. /\ file.header = "mine" /\ Size(file) = EndOf(Len(file.frames)) /\ Len(file.frames) \in Nat
        /\ \A i \in 1 .. Len(file.frames) :
              /\ FrameOf(file.frames[i], "mine", S) /\ file.frames[i] \in AnyFrame
              /\ file.frames[i].obj = "mine" /\ file.frames[i].index = i - 1
              /\ file.frames[i].final = (i = Len(file.frames))
    BY <1>13, Sealed, FileHere
  <2>2. idx \in 1 .. Len(file.frames)
    BY <1>4, <2>1
  <2>3. ~next => idx = Len(file.frames)
    <3>1. SUFFICES ASSUME ~next, idx # Len(file.frames) PROVE FALSE
      OBVIOUS
    <3>2. /\ idx \in 0 .. Len(file.frames) /\ Len(file.frames) \in 0 .. Len(file.frames)
          /\ idx < Len(file.frames) /\ idx + 1 \in 1 .. Len(file.frames)
      BY <2>1, <2>2, <3>1
    <3>3. file.frames \in Seq(AnyFrame) /\ file.frames[idx + 1] \in AnyFrame
      BY <2>1, <3>2, FileHere
    <3>4. FrameBytes(file.frames[idx + 1]) \in Nat /\ FrameBytes(file.frames[idx + 1]) > LengthBytes
      BY <3>3, FrameIs
    <3>5. EndOf(idx) + FrameBytes(file.frames[idx + 1]) <= EndOf(Len(file.frames))
      BY <3>2, <3>3, EndsOrder DEF EndOf
    <3> QED  BY <1>4, <2>1, <3>1, <3>4, <3>5, Sizes
  <2>4. f.final = (idx = Len(file.frames)) /\ f.obj = "mine" /\ f.index = idx - 1
        /\ FrameOf(f, "mine", S) /\ f \in AnyFrame
    BY <2>1, <2>2
  <2>5. f.final = ~next
    BY <1>4, <2>1, <2>3, <2>4
  <2> HIDE DEF f
  <2>6. next => Len(f.body) = BlockBytes
    <3>1. ~f.final => Len(f.body) = BlockBytes
      BY <2>4, BodyOf
    <3> QED  BY <2>5, <3>1
  <2> QED  BY <2>1, <2>4, <2>5, <2>6, FrameIs DEF Authentic
<1>14. CASE next /\ FrameLength(f) # BlockBytes + TagBytes
  <2>1. ~(wpc = "finished" /\ damages = 0)
    BY <1>13, <1>14
  <2> QED  BY <1>1, <1>10, <1>14, <2>1 DEF Fail
<1>15. CASE ~(next /\ FrameLength(f) # BlockBytes + TagBytes) /\ ~Authentic(f)
  <2>1. ~(wpc = "finished" /\ damages = 0)
    BY <1>13, <1>15
  <2> QED  BY <1>1, <1>10, <1>15, <2>1 DEF Fail
<1>16. CASE /\ ~(next /\ FrameLength(f) # BlockBytes + TagBytes) /\ Authentic(f)
  <2>1. ~(complete /\ f.body # <<>>)
    BY <1>9, <1>16
  <2>2. /\ seen' = seen + Len(f.body) /\ inflow' = f.body
        /\ rpc' = IF complete \/ ~HeaderChecked(seen') THEN "pushed" ELSE "decode"
    BY <1>1, <1>16, <2>1
  <2>3. CASE complete \/ ~HeaderChecked(seen')
    BY <1>11, <1>16, <2>2, <2>3
  <2>4. CASE ~complete /\ HeaderChecked(seen')
    BY <1>12, <1>16, <2>2, <2>4
  <2> QED  BY <2>3, <2>4
<1> QED  BY <1>14, <1>15, <1>16
LEMMA BeginningIs ==
    ASSUME NEW X, NEW S \in Seq(X), NEW n \in Nat, n <= Len(S)
    PROVE  /\ SubSeq(S, 1, n) \in Seq(X) /\ Len(SubSeq(S, 1, n)) = n
           /\ \A i \in 1 .. n : SubSeq(S, 1, n)[i] = S[i]
<1>1. n <= n
  OBVIOUS
<1> QED  BY <1>1, SubSeqSplit

\* The whole of a sequence.
LEMMA WholeSeq ==
    ASSUME NEW X, NEW D \in Seq(X)
    PROVE  SubSeq(D, 1, Len(D)) = D
<1> DEFINE d == SubSeq(D, 1, Len(D))
<1>1. Len(D) \in Nat /\ Len(D) <= Len(D)
  OBVIOUS
<1>2. d \in Seq(X) /\ Len(d) = Len(D) /\ \A i \in 1 .. Len(D) : d[i] = D[i]
  BY <1>1, BeginningIs
<1> HIDE DEF d
<1>3. d = D
  BY <1>2, SeqEqual
<1> QED  BY <1>3 DEF d

\* A sequence is its first w elements and the rest.
LEMMA Halves ==
    ASSUME NEW D \in Seq(PlainBytes), NEW w \in Nat, w <= Len(D)
    PROVE  /\ SubSeq(D, 1, w) \in Seq(PlainBytes) /\ SubSeq(D, w + 1, Len(D)) \in Seq(PlainBytes)
           /\ Len(SubSeq(D, 1, w)) = w
           /\ D = Cat(SubSeq(D, 1, w), SubSeq(D, w + 1, Len(D)))
<1>1. Len(D) \in Nat /\ Len(D) <= Len(D)
  OBVIOUS
<1>2. /\ SubSeq(D, 1, Len(D)) = Cat(SubSeq(D, 1, w), SubSeq(D, w + 1, Len(D)))
      /\ SubSeq(D, 1, w) \in Seq(PlainBytes) /\ SubSeq(D, w + 1, Len(D)) \in Seq(PlainBytes)
      /\ Len(SubSeq(D, 1, w)) = w
  BY <1>1, SubSeqSplit
<1>3. SubSeq(D, 1, Len(D)) = D
  BY WholeSeq
<1> QED  BY <1>2, <1>3, Zenon

\* The first k bytes of what is still to be decompressed, and the rest: P is
\* that part of the stream T between n and m.
Parts(T, n, m, P, k) ==
    /\ Len(P) = m - n /\ n + k \in Nat /\ n + k <= m
    /\ SubSeq(P, 1, k) = SubSeq(T, n + 1, n + k)
    /\ SubSeq(P, k + 1, Len(P)) = SubSeq(T, n + k + 1, m)
    /\ SubSeq(P, k + 1, Len(P)) \in Seq(Bytes)
    /\ Len(SubSeq(P, k + 1, Len(P))) = m - (n + k)
    /\ EndBy(T, n + k) = (EndBy(T, n) \/ \E i \in 1 .. k : P[i].end)

\* Bytes taken from the front of a part of a stream.
LEMMA PartsOf ==
    ASSUME NEW T \in Seq(Bytes), NEW n \in Nat, NEW m \in Nat, n <= m, m <= Len(T),
           NEW P \in Seq(Bytes), P = SubSeq(T, n + 1, m), NEW k \in 0 .. Len(P)
    PROVE  Parts(T, n, m, P, k)
<1>1. Len(P) = m - n /\ Len(P) \in Nat /\ Len(T) \in Nat /\ \A i \in 1 .. m - n : P[i] = T[n + i]
  <2>1. Len(P) = m - n /\ \A i \in 1 .. m - n : P[i] = T[n + i]
    BY PartIs
  <2>2. Len(P) \in Nat /\ Len(T) \in Nat
    OBVIOUS
  <2> QED  BY <2>1, <2>2, Zenon
<1>2. PICK q \in Nat : q = n + k
  BY <1>1
<1>3. /\ q <= m /\ n <= q /\ q <= Len(T) /\ k <= Len(P) /\ k \in Nat /\ q - n = k
      /\ m - q = Len(P) - k /\ Len(P) <= Len(P)
  BY <1>1, <1>2
<1>4. SubSeq(P, 1, k) = SubSeq(T, n + 1, q)
  <2> DEFINE x == SubSeq(P, 1, k)
             y == SubSeq(T, n + 1, q)
  <2>1. x \in Seq(Bytes) /\ Len(x) = k /\ \A i \in 1 .. k : x[i] = P[i]
    BY <1>1, <1>3, BeginningIs
  <2>2. y \in Seq(Bytes) /\ Len(y) = q - n /\ \A i \in 1 .. q - n : y[i] = T[n + i]
    BY <1>3, PartIs
  <2> HIDE DEF x, y
  <2>3. \A i \in 1 .. k : x[i] = y[i]
    <3>1. \A i \in 1 .. k : i \in 1 .. m - n /\ i \in 1 .. q - n
      BY <1>1, <1>3
    <3> QED  BY <1>1, <2>1, <2>2, <3>1
  <2>4. Len(y) = k
    BY <1>3, <2>2
  <2>5. x = y
    BY <2>1, <2>2, <2>3, <2>4, SeqEqual
  <2> QED  BY <2>5 DEF x, y
<1>5. /\ SubSeq(P, k + 1, Len(P)) = SubSeq(T, q + 1, m)
      /\ SubSeq(P, k + 1, Len(P)) \in Seq(Bytes) /\ Len(SubSeq(P, k + 1, Len(P))) = m - q
  <2> DEFINE x == SubSeq(P, k + 1, Len(P))
             y == SubSeq(T, q + 1, m)
             d == m - q
  <2>1. x \in Seq(Bytes) /\ Len(x) = Len(P) - k /\ \A i \in 1 .. Len(P) - k : x[i] = P[k + i]
    BY <1>1, <1>3, PartIs
  <2>2. y \in Seq(Bytes) /\ Len(y) = d /\ \A i \in 1 .. d : y[i] = T[q + i]
    BY <1>1, <1>3, PartIs
  <2>3. Len(P) - k = d /\ \A i \in 1 .. d : k + i \in 1 .. m - n /\ n + (k + i) = q + i
    BY <1>1, <1>2, <1>3
  <2> HIDE DEF x, y, d
  <2>4. \A i \in 1 .. d : x[i] = y[i]
    BY <1>1, <2>1, <2>2, <2>3
  <2>5. x = y
    BY <2>1, <2>2, <2>3, <2>4, SeqEqual
  <2> QED  BY <2>1, <2>3, <2>5 DEF x, y, d
<1>6. EndBy(T, q) = (EndBy(T, n) \/ \E i \in 1 .. k : P[i].end)
  <2>1. ASSUME EndBy(T, q) PROVE EndBy(T, n) \/ \E i \in 1 .. k : P[i].end
    <3>1. PICK i \in 1 .. q : T[i].end
      BY <2>1 DEF EndBy
    <3>2. CASE i <= n
      <4>1. i \in 1 .. n
        BY <3>2
      <4> QED  BY <3>1, <4>1 DEF EndBy
    <3>3. CASE i > n
      <4>1. PICK j \in 1 .. k : n + j = i
        <5>1. i - n \in 1 .. k /\ n + (i - n) = i
          BY <1>2, <1>3, <3>3
        <5> QED  BY <5>1
      <4>2. j \in 1 .. m - n
        BY <1>1, <1>3
      <4>3. P[j] = T[i]
        BY <1>1, <4>1, <4>2
      <4> QED  BY <3>1, <4>1, <4>3
    <3>4. i <= n \/ i > n
      BY <3>1
    <3> QED  BY <3>2, <3>3, <3>4, Zenon
  <2>2. ASSUME EndBy(T, n) PROVE EndBy(T, q)
    <3>1. PICK i \in 1 .. n : T[i].end
      BY <2>2 DEF EndBy
    <3>2. i \in 1 .. q
      BY <1>3
    <3> QED  BY <3>1, <3>2 DEF EndBy
  <2>3. ASSUME NEW j \in 1 .. k, P[j].end PROVE EndBy(T, q)
    <3>1. j \in 1 .. m - n /\ n + j \in 1 .. q
      BY <1>1, <1>2, <1>3
    <3>2. T[n + j].end
      BY <1>1, <2>3, <3>1
    <3> QED  BY <3>1, <3>2 DEF EndBy
  <2>4. EndBy(T, q) \in BOOLEAN /\ (EndBy(T, n) \/ \E i \in 1 .. k : P[i].end) \in BOOLEAN
    BY DEF EndBy
  <2>5. EndBy(T, q) <=> (EndBy(T, n) \/ \E i \in 1 .. k : P[i].end)
    BY <2>1, <2>2, <2>3, Zenon
  <2> QED  BY <2>4, <2>5, Zenon
<1> QED  BY <1>1, <1>2, <1>3, <1>4, <1>5, <1>6 DEF Parts

\* One turn of the decoder: it writes the first w bytes of D and holds the rest.
TurnOf(T, obj, z, m, o, D, w) ==
    LET a == Cat(o, SubSeq(D, 1, w))
        b == SubSeq(D, w + 1, Len(D))
    IN  /\ a \in Seq(PlainBytes) /\ b \in Seq(PlainBytes)
        /\ Cat(a, b) = Units(SubSeq(T, 1, m))
        /\ Begins(a, obj, z) /\ Len(a) = Len(o) + w /\ Len(a) <= z

\* One turn of the decoder: k bytes taken in, w plaintext bytes handed out.
LEMMA Turn ==
    ASSUME NEW T \in Seq(Bytes), NEW obj, NEW z \in Nat, StreamOf(T, obj, z),
           NEW n \in Nat, NEW k \in Nat, n + k <= Len(T),
           NEW o \in Seq(PlainBytes), NEW h \in Seq(PlainBytes),
           Cat(o, h) = Units(SubSeq(T, 1, n)),
           NEW D \in Seq(PlainBytes), D = Cat(h, Units(SubSeq(T, n + 1, n + k))),
           NEW w \in Nat, w <= Len(D)
    PROVE  TurnOf(T, obj, z, n + k, o, D, w)
<1> DEFINE U == Units(SubSeq(T, n + 1, n + k))
           x == SubSeq(D, 1, w)
           b == SubSeq(D, w + 1, Len(D))
           a == Cat(o, x)
           V == Units(SubSeq(T, 1, n + k))
<1>1. n + k \in Nat /\ n <= n + k
  OBVIOUS
<1>2. U \in Seq(PlainBytes) /\ V = Cat(Units(SubSeq(T, 1, n)), U)
  BY <1>1, UnitsSplit
<1>3. x \in Seq(PlainBytes) /\ b \in Seq(PlainBytes) /\ Len(x) = w /\ D = Cat(x, b)
  BY Halves
<1>4. D = Cat(h, U)
  OBVIOUS
<1> HIDE DEF U, x, b
<1>5. a \in Seq(PlainBytes) /\ Len(a) = Len(o) + w
  <2>1. o \in Seq(PlainBytes) /\ x \in Seq(PlainBytes)
    BY <1>3
  <2>2. Cat(o, x) \in Seq(PlainBytes) /\ Len(Cat(o, x)) = Len(o) + Len(x)
    BY <2>1, CatIs
  <2> QED  BY <1>3, <2>2
<1>6. Cat(a, b) = V
  <2>1. Cat(Cat(o, x), b) = Cat(o, Cat(x, b))
    BY <1>3, CatAssociative
  <2>2. Cat(Cat(o, h), U) = Cat(o, Cat(h, U))
    BY <1>2, CatAssociative
  <2>3. Cat(x, b) = Cat(h, U)
    BY <1>3, <1>4, Zenon
  <2> QED  BY <1>2, <2>1, <2>2, <2>3, Zenon
<1>7. Begins(V, obj, z)
  BY <1>1, PartBegins
<1> HIDE DEF a, V
<1>8. Begins(a, obj, z)
  <2>1. Begins(Cat(a, b), obj, z) /\ a \in Seq(PlainBytes) /\ b \in Seq(PlainBytes)
    BY <1>3, <1>5, <1>6, <1>7
  <2> QED  BY <2>1, BeginsPart
<1>9. Len(a) <= z
  BY <1>8 DEF Begins
<1> QED  BY <1>3, <1>5, <1>6, <1>8, <1>9 DEF a, b, x, V, TurnOf

\* What the decoder hands out is the plaintext of what it took in.
LEMMA DecodeKeeps ==
    ASSUME NEW S \in Seq(Bytes), Inv(S), Decode
    PROVE  Inv(S)'
<1>1. PICK k \in 0 .. Len(inflow) :
        LET room == Least(ChunkBytes, MaxPlaintext - total + 1)
            w == Least(room, Len(Decoded(k)))
        IN  /\ k + w > 0 \/ (inflow = <<>> /\ held = <<>>)
            /\ ended' = (ended \/ \E i \in 1 .. k : inflow[i].end)
            /\ inflow' = SubSeq(inflow, k + 1, Len(inflow))
            /\ held' = SubSeq(Decoded(k), w + 1, Len(Decoded(k)))
            /\ IF total + w > MaxPlaintext
               THEN Fail("limit") /\ UNCHANGED <<total, out, complete>>
               ELSE /\ total' = total + w
                    /\ out' = out \o SubSeq(Decoded(k), 1, w)
                    /\ complete' = (ended' /\ held' = <<>>)
                    /\ IF complete' /\ inflow' # <<>> THEN Fail("compressed_data")
                       ELSE /\ rpc' = IF PushReturns THEN "pushed" ELSE "decode"
                            /\ UNCHANGED why
  BY Zenon DEF Decode
<1> DEFINE T == StreamHere(S)
           n == seen - Len(inflow)
           D == Decoded(k)
           w == Least(Least(ChunkBytes, MaxPlaintext - total + 1), Len(D))
<1>2. /\ rpc = "decode" /\ bytes' = bytes /\ need' = need /\ idx' = idx /\ next' = next
      /\ seen' = seen /\ UNCHANGED writer /\ UNCHANGED storage
  BY DEF Decode
<1>3. /\ ended' = (ended \/ \E i \in 1 .. k : inflow[i].end)
      /\ inflow' = SubSeq(inflow, k + 1, Len(inflow))
      /\ held' = SubSeq(D, w + 1, Len(D))
      /\ IF total + w > MaxPlaintext
         THEN rpc' = "failed" /\ total' = total /\ out' = out /\ complete' = complete
         ELSE /\ total' = total + w
              /\ out' = Cat(out, SubSeq(D, 1, w))
              /\ complete' = (ended' /\ held' = <<>>)
              /\ IF complete' /\ inflow' # <<>> THEN rpc' = "failed"
                 ELSE rpc' = IF PushReturns THEN "pushed" ELSE "decode"
  BY <1>1, Zenon DEF Fail, Cat
<1>4. UNCHANGED <<wpc, left, plaintext_bytes, compressed_bytes, ciphertext_bytes,
                  block_count, absorbed, pending, descriptor, file, damages>>
  BY <1>2, Unchanged, Zenon
<1>5. /\ PlaceInv /\ SeenInv(S) /\ DecodedInv(S) /\ StreamHere(S)' = T /\ SizeHere' = SizeHere
      /\ T \in Seq(Bytes) /\ Len(T) \in Nat /\ SizeHere \in Nat
  BY <1>4, StreamHereIs DEF Inv, StreamHere, SizeHere
<1>6. /\ SealEnded /\ bytes \in Nat /\ need \in Nat /\ bytes <= MaxCiphertext /\ bytes <= Size(file)
      /\ idx \in 0 .. Len(file.frames) /\ next \in BOOLEAN /\ damages \in Nat /\ idx > 0
      /\ IF next THEN idx < Len(file.frames) /\ bytes = EndOf(idx) + LengthBytes
         ELSE bytes = EndOf(idx) /\ bytes = Size(file)
  BY <1>2, <1>5 DEF PlaceInv, Held
<1>7. /\ seen \in Nat /\ file.header # "bad" /\ seen <= Len(T)
      /\ next => seen = idx * BlockBytes
      /\ ~next => seen = Len(T) /\ (file.header = "mine" => wpc = "finished")
  BY <1>2, <1>5 DEF SeenInv
<1>8. /\ Begins(out, file.header, SizeHere) /\ total = Len(out) /\ total <= MaxPlaintext
      /\ held \in Seq(PlainBytes) /\ inflow \in Seq(Bytes)
      /\ ended \in BOOLEAN /\ complete \in BOOLEAN
      /\ Len(inflow) <= seen /\ inflow = SubSeq(T, n + 1, seen)
      /\ ~complete /\ ended = EndBy(T, n)
      /\ Cat(out, held) = Units(SubSeq(T, 1, n))
  BY <1>2, <1>5 DEF DecodedInv
<1>9. StreamOf(T, file.header, SizeHere)
  BY <1>7, StreamHereIs
<1>10. out \in Seq(PlainBytes) /\ total \in Nat /\ Len(inflow) \in Nat /\ n \in Nat /\ n <= seen
  <2>1. out \in Seq(PlainBytes)
    BY <1>8 DEF Begins
  <2> QED  BY <1>7, <1>8, <2>1
<1>11. D = Cat(held, Units(SubSeq(inflow, 1, k)))
  BY Zenon DEF Decoded, Cat
<1> HIDE DEF T, D, n
<1>12. /\ Len(inflow) = seen - n /\ n + k \in Nat /\ n + k <= seen
       /\ SubSeq(inflow, 1, k) = SubSeq(T, n + 1, n + k)
       /\ SubSeq(inflow, k + 1, Len(inflow)) = SubSeq(T, n + k + 1, seen)
       /\ SubSeq(inflow, k + 1, Len(inflow)) \in Seq(Bytes)
       /\ Len(SubSeq(inflow, k + 1, Len(inflow))) = seen - (n + k)
       /\ EndBy(T, n + k) = (EndBy(T, n) \/ \E i \in 1 .. k : inflow[i].end)
  <2>1. Parts(T, n, seen, inflow, k)
    BY <1>5, <1>7, <1>8, <1>10, PartsOf
  <2> QED  BY <2>1 DEF Parts
<1>13. k \in Nat /\ n + k <= Len(T)
  BY <1>5, <1>7, <1>10, <1>12
<1>14. D \in Seq(PlainBytes) /\ D = Cat(held, Units(SubSeq(T, n + 1, n + k)))
  <2>1. n <= n + k
    BY <1>10, <1>13
  <2>2. Units(SubSeq(T, n + 1, n + k)) \in Seq(PlainBytes)
    BY <1>5, <1>10, <1>12, <1>13, <2>1, UnitsSplit
  <2>3. held \in Seq(PlainBytes)
    BY <1>8
  <2>4. Cat(held, Units(SubSeq(T, n + 1, n + k))) \in Seq(PlainBytes)
    BY <2>2, <2>3, CatIs
  <2> QED  BY <1>11, <1>12, <2>4
<1>15. w \in Nat /\ w <= Len(D) /\ Len(D) \in Nat
  <2>1. Len(D) \in Nat
    BY <1>14
  <2>2. MaxPlaintext - total + 1 \in Nat
    BY <1>8, <1>10, Sizes
  <2> QED  BY <2>1, <2>2, Sizes DEF Least
<1> HIDE DEF w
<1> DEFINE a == Cat(out, SubSeq(D, 1, w))
           b == SubSeq(D, w + 1, Len(D))
<1>16. /\ a \in Seq(PlainBytes) /\ b \in Seq(PlainBytes)
       /\ Cat(a, b) = Units(SubSeq(T, 1, n + k))
       /\ Begins(a, file.header, SizeHere) /\ Len(a) = Len(out) + w /\ Len(a) <= SizeHere
  <2>1. TurnOf(T, file.header, SizeHere, n + k, out, D, w)
    BY <1>5, <1>8, <1>9, <1>10, <1>13, <1>14, <1>15, Turn
  <2> QED  BY <2>1 DEF TurnOf
<1> HIDE DEF a, b
<1>17. held' = b /\ (~(total + w > MaxPlaintext) => out' = a)
  BY <1>3 DEF a, b
<1>18. /\ inflow' = SubSeq(T, n + k + 1, seen) /\ inflow' \in Seq(Bytes)
       /\ Len(inflow') = seen - (n + k) /\ ended' = EndBy(T, n + k) /\ ended' \in BOOLEAN
  <2>1. ended' = EndBy(T, n + k)
    BY <1>3, <1>8, <1>12
  <2>2. ended' \in BOOLEAN
    BY <1>3, <1>8
  <2> QED  BY <1>3, <1>12, <2>1, <2>2
<1>19. ended' => n + k = Len(T) /\ inflow' = <<>> /\ seen = Len(T)
  <2>1. SUFFICES ASSUME ended' PROVE n + k = Len(T) /\ inflow' = <<>> /\ seen = Len(T)
    OBVIOUS
  <2>2. EndBy(T, n + k)
    BY <1>18, <2>1
  <2>3. n + k = Len(T)
    BY <1>9, <1>12, <1>13, <2>2, EndIsLast
  <2>4. seen = Len(T) /\ Len(inflow') = 0
    BY <1>5, <1>7, <1>12, <1>18, <2>3
  <2> QED  BY <1>18, <2>3, <2>4, EmptySeq
<1>20. WriterInv(S)' /\ FileInv(S)' /\ UndamagedInv'
  BY <1>2, ReaderFrame
<1>21. CASE total + w > MaxPlaintext
  <2>1. rpc' = "failed" /\ total' = total /\ out' = out /\ complete' = complete
    BY <1>3, <1>21
  <2>2. ~(wpc = "finished" /\ damages = 0)
    <3>1. SUFFICES ASSUME wpc = "finished", damages = 0 PROVE FALSE
      OBVIOUS
    <3>2. SizeHere <= MaxPlaintext
      BY <3>1, Sealed, StreamHereIs
    <3>3. total + w <= SizeHere
      BY <1>8, <1>16
    <3> QED  BY <1>5, <1>10, <1>15, <1>21, <3>2, <3>3, Sizes
  <2>3. held' \in Seq(PlainBytes)
    BY <1>16, <1>17
  <2> QED  BY <1>2, <1>6, <1>7, <1>8, <1>18, <2>1, <2>2, <2>3, Fails
<1>22. CASE ~(total + w > MaxPlaintext)
  <2>1. /\ total' = total + w /\ out' = a /\ complete' = (ended' /\ held' = <<>>)
        /\ rpc' = IF PushReturns THEN "pushed" ELSE "decode"
    <3>1. /\ total' = total + w /\ complete' = (ended' /\ held' = <<>>)
          /\ IF complete' /\ inflow' # <<>> THEN rpc' = "failed"
             ELSE rpc' = IF PushReturns THEN "pushed" ELSE "decode"
      BY <1>3, <1>22
    <3>2. ~(complete' /\ inflow' # <<>>)
      BY <1>19, <3>1
    <3> QED  BY <1>17, <1>22, <3>1, <3>2
  <2>2. rpc' \in {"pushed", "decode"} /\ (complete' => rpc' = "pushed")
    <3>1. complete' => PushReturns
      BY <2>1 DEF PushReturns
    <3> QED  BY <2>1, <3>1
  <2>3. PlaceInv'
    BY <1>2, <1>4, <1>6, <2>2 DEF PlaceInv, Held, Over, SealEnded, EndOf
  <2>4. SeenInv(S)'
    BY <1>2, <1>4, <1>5, <1>7, <2>2 DEF SeenInv, Over, T
  <2>5. SealedOpens'
    BY <2>2 DEF SealedOpens
  <2>6. /\ Begins(out', file'.header, SizeHere') /\ total' = Len(out') /\ total' <= MaxPlaintext
        /\ held' \in Seq(PlainBytes) /\ inflow' \in Seq(Bytes)
        /\ ended' \in BOOLEAN /\ complete' \in BOOLEAN /\ StreamHere(S)' = T
    <3>1. total' <= MaxPlaintext
      BY <1>10, <1>15, <1>22, <2>1, Sizes
    <3>2. complete' \in BOOLEAN
      BY <2>1
    <3> QED  BY <1>4, <1>5, <1>8, <1>16, <1>17, <1>18, <2>1, <3>1, <3>2
  <2>7. DecodedInv(S)'
    <3>1. CASE rpc' = "decode"
      <4>1. seen' - Len(inflow') = n + k /\ Len(inflow') <= seen'
        BY <1>2, <1>7, <1>12, <1>18
      <4>2. ~complete'
        BY <2>2, <3>1
      <4>3. Cat(out', held') = Units(SubSeq(T, 1, n + k))
        BY <1>16, <1>17, <2>1
      <4>4. inflow' = SubSeq(T, (n + k) + 1, seen')
        BY <1>2, <1>18
      <4> QED  BY <1>18, <2>6, <3>1, <4>1, <4>2, <4>3, <4>4 DEF DecodedInv
    <3>2. CASE rpc' = "pushed"
      <4>1. PushReturns
        BY <2>1, <3>2
      <4>2. held' = <<>> /\ n + k = seen
        <5>1. CASE ended' /\ held' = <<>>
          BY <1>19, <5>1
        <5>2. CASE inflow = <<>> /\ held = <<>>
          <6>1. Len(inflow) = 0
            BY <5>2, EmptySeq
          <6>2. k = 0 /\ n + k = seen
            BY <1>7, <1>10, <1>12, <1>13, <6>1
          <6>3. D = <<>>
            <7>1. Units(SubSeq(inflow, 1, 0)) = <<>>
              BY <1>8, EmptyBeginning
            <7>2. held \in Seq(PlainBytes) /\ Cat(held, <<>>) = held
              BY <1>8, CatEmpty
            <7> QED  BY <1>11, <5>2, <6>2, <7>1, <7>2
          <6>4. Len(D) = 0 /\ w = 0
            BY <1>15, <6>3, EmptySeq
          <6>5. b = <<>>
            <7>1. b = SubSeq(D, 1, 0)
              BY <6>4 DEF b
            <7> QED  BY <7>1, SubSeqEmpty
          <6> QED  BY <1>17, <6>2, <6>5
        <5> QED  BY <4>1, <5>1, <5>2 DEF PushReturns
      <4>3. out' = Units(SubSeq(T, 1, seen'))
        <5>1. Cat(a, <<>>) = a
          BY <1>16, CatEmpty
        <5> QED  BY <1>2, <1>16, <1>17, <2>1, <4>2, <5>1
      <4>4. ended' = EndBy(T, seen') /\ complete' = ended'
        BY <1>2, <1>18, <2>1, <4>2
      <4> QED  BY <2>6, <3>2, <4>2, <4>3, <4>4 DEF DecodedInv
    <3> QED  BY <2>2, <3>1, <3>2
  <2> QED  BY <1>20, <2>3, <2>4, <2>5, <2>7 DEF Inv
<1> QED  BY <1>21, <1>22
-----------------------------------------------------------------------------
(* Every step preserves the invariant.                                     *)

\* The steps of the writer, which may lengthen the stream,
LEMMA SealKeeps ==
    ASSUME NEW S \in Seq(Bytes), Inv(S), SealStep
    PROVE  \E T \in Seq(Bytes) : Inv(T)'
<1>1. CASE WriteHeader
  BY <1>1, WriteHeaderKeeps
<1>2. CASE SourceEnds
  BY <1>2, SourceEndsKeeps
<1>3. CASE Compress
  BY <1>3, CompressKeeps
<1>4. CASE FinishCompress
  BY <1>4, FinishCompressKeeps
<1>5. CASE WriteBlock
  BY <1>5, WriteBlockKeeps
<1>6. CASE BlocksWritten
  BY <1>6, BlocksWrittenKeeps
<1>7. CASE WriteLast
  BY <1>7, WriteLastKeeps
<1>8. CASE WriteFails
  BY <1>8, WriteFailsKeeps
<1>9. CASE \E n \in 1 .. ChunkBytes : write_plaintext(n)
  BY <1>9, PlaintextKeeps
<1> QED  BY <1>1, <1>2, <1>3, <1>4, <1>5, <1>6, <1>7, <1>8, <1>9 DEF SealStep

\* and those of the reader, which do not.
LEMMA OpenKeeps ==
    ASSUME NEW S \in Seq(Bytes), Inv(S), OpenStep
    PROVE  Inv(S)'
<1>1. CASE OpenObject
  BY <1>1, OpenObjectKeeps
<1>2. CASE Read
  BY <1>2, ReadKeeps
<1>3. CASE ReadEof
  BY <1>3, ReadEofKeeps
<1>4. CASE ParseHeader
  BY <1>4, ParseHeaderKeeps
<1>5. CASE ReadLengthRest
  BY <1>5, ReadLengthRestKeeps
<1>6. CASE ParseLength
  BY <1>6, ParseLengthKeeps
<1>7. CASE FrameRead
  BY <1>7, FrameReadKeeps
<1>8. CASE DecryptFrame
  BY <1>8, DecryptFrameKeeps
<1>9. CASE Decode
  BY <1>9, DecodeKeeps
<1>10. CASE NextOrEnd
  BY <1>10, NextOrEndKeeps
<1>11. CASE FinishOpen
  BY <1>11, FinishOpenKeeps
<1> QED  BY <1>1, <1>2, <1>3, <1>4, <1>5, <1>6, <1>7, <1>8, <1>9, <1>10, <1>11 DEF OpenStep

\* A step of neither call.
LEMMA StutterKeeps ==
    ASSUME NEW S \in Seq(Bytes), Inv(S), UNCHANGED vars
    PROVE  Inv(S)'
<1>1. UNCHANGED writer /\ UNCHANGED storage /\ UNCHANGED reader
  BY DEF vars
<1>2. UNCHANGED <<wpc, left, plaintext_bytes, compressed_bytes, ciphertext_bytes,
                  block_count, absorbed, pending, descriptor, file, damages,
                  rpc, why, bytes, need, eof, idx, next, inflow, held, seen, ended,
                  complete, total, out>>
  BY <1>1, Unchanged, Zenon
<1>3. WriterInv(S)' /\ FileInv(S)' /\ UndamagedInv'
  BY <1>1, ReaderFrame
<1>4. PlaceInv /\ SeenInv(S) /\ DecodedInv(S) /\ SealedOpens
  BY DEF Inv
<1>5. PlaceInv'
  BY <1>2, <1>4 DEF PlaceInv, Held, Over, SealEnded, EndOf
<1>6. SeenInv(S)'
  BY <1>2, <1>4 DEF SeenInv, Over, StreamHere
<1>7. DecodedInv(S)'
  BY <1>2, <1>4 DEF DecodedInv, StreamHere, SizeHere
<1>8. SealedOpens'
  BY <1>2, <1>4 DEF SealedOpens
<1> QED  BY <1>3, <1>5, <1>6, <1>7, <1>8 DEF Inv

\* Every step preserves IInv.
LEMMA StepInv ==
    IInv /\ [Next]_vars => IInv'
<1> SUFFICES ASSUME NEW S \in Seq(Bytes), Inv(S), [Next]_vars
             PROVE  \E T \in Seq(Bytes) : Inv(T)'
  BY DEF IInv
<1>1. CASE SealStep
  BY <1>1, SealKeeps
<1>2. CASE SealInterrupted
  BY <1>2, SealInterruptedKeeps
<1>3. CASE Damage
  BY <1>3, DamageKeeps
<1>4. CASE OpenStep
  BY <1>4, OpenKeeps
<1>5. CASE OpenInterrupted
  BY <1>5, OpenInterruptedKeeps
<1>6. CASE UNCHANGED vars
  BY <1>6, StutterKeeps
<1> QED  BY <1>1, <1>2, <1>3, <1>4, <1>5, <1>6 DEF Next

-----------------------------------------------------------------------------
\* The inductive invariant: the writer, the file and the reader agree on one
\* compressed stream.
THEOREM Inductive == Spec => []IInv
<1>1. IInv /\ [Next]_vars => IInv'
  BY StepInv
<1>2. Init => IInv
  BY InitInv
<1> QED  BY <1>1, <1>2, PTL DEF Spec

\* Whatever seal_object_v1 finished, open_object_v1 accepts, with any limits,
\* block, chunk and header sizes: it fails only if it is interrupted.
THEOREM SealedAreOpened == Spec => []SealedOpens
<1>1. IInv => SealedOpens
  BY DEF IInv, Inv
<1> QED  BY <1>1, Inductive, PTL

\* The plaintext of the object whose header the file has, as a sequence.
LEMMA WholeIs ==
    ASSUME NEW S \in Seq(Bytes), Inv(S)
    PROVE  /\ Whole \in Seq(PlainBytes) /\ Len(Whole) = SizeHere /\ SizeHere \in Nat
           /\ file.header # "bad" => \A i \in 1 .. SizeHere : Whole[i] = <<file.header, i>>
<1>1. file.header \in {"mine", "other", "bad"} /\ plaintext_bytes \in Nat /\ OtherSize \in Nat
  BY Sizes, OtherIs DEF Inv, FileInv, WriterInv
<1>2. CASE file.header = "mine"
  <2>1. Whole = Plaintext("mine", plaintext_bytes) /\ SizeHere = plaintext_bytes
    BY <1>2 DEF Whole, SizeHere
  <2> QED  BY <1>1, <1>2, <2>1, PlaintextIs
<1>3. CASE file.header # "mine"
  <2>1. Whole = Plaintext("other", OtherSize) /\ SizeHere = OtherSize
    BY <1>3 DEF Whole, SizeHere
  <2>2. file.header # "bad" => file.header = "other"
    BY <1>1, <1>3
  <2> QED  BY <1>1, <2>1, <2>2, PlaintextIs
<1> QED  BY <1>2, <1>3

\* Even the output of an object that open_object_v1 rejects in the end is the
\* beginning of the plaintext that was sealed.
THEOREM OutputIsBeginning == Spec => []OutputIsPrefix
<1>1. IInv => OutputIsPrefix
  <2> SUFFICES ASSUME NEW S \in Seq(Bytes), Inv(S) PROVE OutputIsPrefix
    BY DEF IInv
  <2>1. Begins(out, file.header, SizeHere) /\ DecodedInv(S) /\ SeenInv(S)
    BY DEF Inv, DecodedInv
  <2>2. out \in Seq(PlainBytes) /\ Len(out) <= SizeHere
        /\ \A i \in 1 .. Len(out) : out[i] = <<file.header, i>>
    BY <2>1 DEF Begins
  <2>3. /\ Whole \in Seq(PlainBytes) /\ Len(Whole) = SizeHere /\ SizeHere \in Nat
        /\ file.header # "bad" => \A i \in 1 .. SizeHere : Whole[i] = <<file.header, i>>
    BY WholeIs
  <2>4. file.header # "bad" \/ out = <<>>
    <3>1. SUFFICES ASSUME file.header = "bad", out # <<>> PROVE FALSE
      OBVIOUS
    <3>2. Len(out) # 0 /\ Len(out) \in Nat
      BY <2>2, <3>1, EmptySeq
    <3>3. 1 \in 1 .. Len(out) /\ out[1] = <<"bad", 1>>
      BY <2>2, <3>1, <3>2
    <3>4. out[1] \in PlainBytes
      BY <2>2, <3>3
    <3>5. out[1][1] \in {"mine", "other"}
      BY <3>4 DEF PlainBytes
    <3>6. out[1][1] = "bad"
      BY <3>3
    <3> QED  BY <3>5, <3>6
  <2>5. \A i \in 1 .. Len(out) : out[i] = Whole[i]
    <3>1. CASE file.header # "bad"
      <4>1. \A i \in 1 .. Len(out) : i \in 1 .. SizeHere
        BY <2>2, <2>3
      <4>2. \A i \in 1 .. SizeHere : Whole[i] = <<file.header, i>>
        BY <2>3, <3>1, Zenon
      <4> QED  BY <2>2, <4>1, <4>2, Zenon
    <3>2. CASE out = <<>>
      BY <3>2, EmptySeq
    <3> QED  BY <2>4, <3>1, <3>2
  <2> HIDE DEF Whole
  <2>6. IsPrefix(out, Whole)
    <3>1. Len(out) <= Len(Whole) /\ Len(out) \in Nat
      BY <2>2, <2>3
    <3>2. SubSeq(out, 1, Len(out)) = out
      BY <2>2, WholeSeq
    <3> DEFINE d == SubSeq(Whole, 1, Len(out))
    <3>3. d \in Seq(PlainBytes) /\ Len(d) = Len(out) /\ \A i \in 1 .. Len(out) : d[i] = Whole[i]
      BY <2>3, <3>1, BeginningIs
    <3> HIDE DEF d
    <3>4. d = out
      BY <2>2, <2>5, <3>3, SeqEqual
    <3>5. SubSeq(out, 1, Len(out)) = SubSeq(Whole, 1, Len(out))
      BY <3>2, <3>4 DEF d
    <3> QED  BY <3>1, <3>5 DEF IsPrefix
  <2> QED  BY <2>6 DEF OutputIsPrefix
<1> QED  BY <1>1, Inductive, PTL

\* open_object_v1 succeeds only with one whole sealed object, whatever
\* happened to the file before.
THEOREM OpenedAreWhole == Spec => []OpenedIsWhole
<1>1. IInv => OpenedIsWhole
  <2> SUFFICES ASSUME NEW S \in Seq(Bytes), Inv(S), rpc = "ok"
               PROVE  out = Whole /\ (file.header = "mine" => wpc = "finished")
    BY DEF IInv, OpenedIsWhole
  <2>1. /\ file.header # "bad" /\ seen = Len(StreamHere(S))
        /\ file.header = "mine" => wpc = "finished"
    BY DEF Inv, SeenInv, Over
  <2>2. /\ Begins(out, file.header, SizeHere)
        /\ out = Units(SubSeq(StreamHere(S), 1, seen)) /\ EndBy(StreamHere(S), seen)
    BY DEF Inv, DecodedInv
  <2>3. /\ StreamHere(S) \in Seq(Bytes) /\ Len(StreamHere(S)) \in Nat
        /\ StreamOf(StreamHere(S), file.header, SizeHere)
    BY <2>1, StreamHereIs
  <2>4. SubSeq(StreamHere(S), 1, seen) = StreamHere(S)
    BY <2>1, <2>3, WholeSeq
  <2>5. Len(out) = SizeHere
    <3>1. Len(Units(StreamHere(S))) = SizeHere
      BY <2>1, <2>2, <2>3 DEF StreamOf
    <3> QED  BY <2>2, <2>4, <3>1
  <2>6. /\ Whole \in Seq(PlainBytes) /\ Len(Whole) = SizeHere /\ SizeHere \in Nat
        /\ file.header # "bad" => \A i \in 1 .. SizeHere : Whole[i] = <<file.header, i>>
    BY WholeIs
  <2>7. out \in Seq(PlainBytes) /\ \A i \in 1 .. Len(out) : out[i] = Whole[i]
    BY <2>1, <2>2, <2>5, <2>6 DEF Begins
  <2>8. out = Whole
    BY <2>5, <2>6, <2>7, SeqEqual
  <2> QED  BY <2>1, <2>8
<1> QED  BY <1>1, Inductive, PTL

\* b is the part of the stream that frame k has, counted from 0.
Body(S, b, k) ==
    LET n == k * BlockBytes
    IN  /\ n \in Nat /\ Len(b) \in Nat /\ n + Len(b) <= Len(S)
        /\ b = SubSeq(S, n + 1, n + Len(b))

\* The body of a frame of a finished object.
LEMMA BodyAt ==
    ASSUME NEW S \in Seq(Bytes), NEW f \in AnyFrame, FrameOf(f, "mine", S)
    PROVE  /\ Body(S, f.body, f.index)
           /\ f.final => f.index * BlockBytes + Len(f.body) = Len(S)
           /\ ~f.final => Len(f.body) = BlockBytes
<1>1. LET n == f.index * BlockBytes
          m == n + Len(f.body)
      IN  /\ n \in Nat /\ m \in Nat /\ m <= Len(S)
          /\ f.body = SubSeq(S, n + 1, m)
          /\ f.final => m = Len(S) /\ Len(f.body) < BlockBytes
          /\ ~f.final => Len(f.body) = BlockBytes
  BY BodyOf
<1>2. Len(f.body) \in Nat
  BY FrameIs
<1> QED  BY <1>1, <1>2 DEF Body

\* The first m bytes of a stream are the first n and those after them.
LEMMA Longer ==
    ASSUME NEW S \in Seq(Bytes), NEW n \in Nat, NEW m \in Nat, n <= m, m <= Len(S)
    PROVE  SubSeq(S, 1, m) = Cat(SubSeq(S, 1, n), SubSeq(S, n + 1, m))
BY SubSeqSplit

\* Full parts and a last one make the stream.
LEMMA BodiesJoined ==
    ASSUME NEW S \in Seq(Bytes), NEW L \in Nat, NEW bs, Len(bs) = L + 1,
           \A k \in 0 .. L : Body(S, bs[k + 1], k),
           \A k \in 0 .. L : k < L => Len(bs[k + 1]) = BlockBytes,
           L * BlockBytes + Len(bs[L + 1]) = Len(S)
    PROVE  Concat(bs) = S
<1>1. PICK J : J = Joined(bs)
  OBVIOUS
<1>2. J[0] = <<>> /\ \A k \in 0 .. L : J[k + 1] = Cat(J[k], bs[k + 1])
  <2>1. /\ Joined(bs)[0] = <<>>
        /\ \A i \in 1 .. Len(bs) : Joined(bs)[i] = Cat(Joined(bs)[i - 1], bs[i])
    <3>1. Len(bs) \in Nat
      OBVIOUS
    <3> QED  BY <3>1, JoinedSteps
  <2>2. \A k \in 0 .. L : k + 1 \in 1 .. Len(bs) /\ (k + 1) - 1 = k
    OBVIOUS
  <2> QED  BY <1>1, <2>1, <2>2
<1> DEFINE At(k) == J[k] = SubSeq(S, 1, k * BlockBytes)
<1>3. \A k \in 0 .. L : At(k)
  <2> DEFINE G == {k \in 0 .. L : At(k)}
  <2>1. 0 \in G
    <3>1. SubSeq(S, 1, 0) = <<>>
      BY SubSeqEmpty
    <3>2. 0 * BlockBytes = 0
      BY Sizes
    <3>3. At(0)
      BY <1>2, <3>1, <3>2
    <3> QED  BY <3>3
  <2> HIDE DEF G
  <2>2. ASSUME NEW k \in 0 .. L - 1, k \in G PROVE k + 1 \in G
    <3>1. k \in 0 .. L /\ k + 1 \in 0 .. L /\ k < L /\ k \in Nat
      OBVIOUS
    <3>2. At(k)
      BY <2>2 DEF G
    <3>3. Body(S, bs[k + 1], k) /\ Len(bs[k + 1]) = BlockBytes
      BY <3>1
    <3>4. PICK n \in Nat : n = k * BlockBytes
      BY <3>1, Blocks
    <3>5. PICK m \in Nat : m = n + BlockBytes
      BY Sizes
    <3>6. bs[k + 1] = SubSeq(S, n + 1, m)
      BY <3>3, <3>4, <3>5 DEF Body
    <3>7. n <= m /\ m <= Len(S)
      BY <3>3, <3>4, <3>5, Sizes DEF Body
    <3>8. SubSeq(S, 1, m) = Cat(SubSeq(S, 1, n), SubSeq(S, n + 1, m))
      BY <3>7, Longer
    <3>9. J[k] = SubSeq(S, 1, n)
      BY <3>2, <3>4
    <3>10. J[k + 1] = Cat(J[k], bs[k + 1])
      BY <1>2, <3>1
    <3>11. J[k + 1] = SubSeq(S, 1, m)
      BY <3>6, <3>8, <3>9, <3>10
    <3>12. m = (k + 1) * BlockBytes
      BY <3>1, <3>4, <3>5, Blocks
    <3>13. At(k + 1)
      BY <3>11, <3>12
    <3> QED  BY <3>1, <3>13 DEF G
  <2>3. \A k \in 0 .. L : k \in G
    BY <2>1, <2>2, UpTo
  <2> QED  BY <2>3 DEF G
<1>4. L \in 0 .. L /\ Len(S) \in Nat /\ Len(S) <= Len(S)
  OBVIOUS
<1>5. At(L) /\ Body(S, bs[L + 1], L) /\ J[L + 1] = Cat(J[L], bs[L + 1])
  BY <1>2, <1>3, <1>4
<1>6. PICK n \in Nat : n = L * BlockBytes
  BY Blocks
<1>7. n + Len(bs[L + 1]) = Len(S) /\ Len(bs[L + 1]) \in Nat
      /\ bs[L + 1] = SubSeq(S, n + 1, n + Len(bs[L + 1]))
  BY <1>5, <1>6 DEF Body
<1>8. n <= Len(S) /\ bs[L + 1] = SubSeq(S, n + 1, Len(S)) /\ J[L] = SubSeq(S, 1, n)
  <2>1. bs[L + 1] = SubSeq(S, n + 1, Len(S))
    BY <1>7
  <2>2. n <= Len(S)
    BY <1>4, <1>7
  <2>3. J[L] = SubSeq(S, 1, n)
    BY <1>5, <1>6
  <2> QED  BY <2>1, <2>2, <2>3
<1> HIDE DEF At
<1>9. SubSeq(S, 1, Len(S)) = Cat(SubSeq(S, 1, n), SubSeq(S, n + 1, Len(S)))
  <2>1. PICK m \in Nat : m = Len(S)
    BY <1>4
  <2>2. m <= Len(S) /\ n <= m
    BY <1>8, <2>1
  <2>3. SubSeq(S, 1, m) = Cat(SubSeq(S, 1, n), SubSeq(S, n + 1, m))
    BY <2>2, Longer
  <2> QED  BY <2>1, <2>3
<1>10. J[L + 1] = S
  BY <1>5, <1>8, <1>9, WholeSeq
<1> QED  BY <1>1, <1>10 DEF Concat

\* A finished object is what its descriptor says: all the plaintext, in full
\* blocks but for the last one, which alone is marked last.
THEOREM SealedAreComplete == Spec => []SealedIsComplete
<1>1. IInv => SealedIsComplete
  <2> SUFFICES ASSUME NEW S \in Seq(Bytes), Inv(S), wpc = "finished", damages = 0
               PROVE  LET stream == Concat([i \in 1 .. Len(file.frames) |-> file.frames[i].body])
                      IN  /\ descriptor = Size(file)
                          /\ file.frames = Frames("mine", stream)
                          /\ Units(stream) = Plaintext("mine", plaintext_bytes)
    BY DEF IInv, SealedIsComplete
  <2>1. PICK fs \in Seq(AnyFrame) : fs = file.frames
    BY FileHere
  <2>2. /\ Len(fs) > 0 /\ descriptor = Size(file) /\ Len(fs) \in Nat
        /\ \A i \in 1 .. Len(fs) :
              /\ FrameOf(fs[i], "mine", S) /\ fs[i].obj = "mine" /\ fs[i].index = i - 1
              /\ fs[i].final = (i = Len(fs)) /\ fs[i] \in AnyFrame
    BY <2>1, Sealed
  <2>3. Concat([i \in 1 .. Len(fs) |-> fs[i].body]) = S
    <3>1. PICK bs : bs = [i \in 1 .. Len(fs) |-> fs[i].body]
      OBVIOUS
    <3>2. PICK L \in Nat : L + 1 = Len(fs)
      <4>1. Len(fs) - 1 \in Nat /\ (Len(fs) - 1) + 1 = Len(fs)
        BY <2>2
      <4> QED  BY <4>1
    <3>3. Len(bs) = L + 1 /\ \A k \in 0 .. L : bs[k + 1] = fs[k + 1].body
      BY <2>2, <3>1, <3>2
    <3>4. ASSUME NEW k \in 0 .. L
          PROVE  /\ Body(S, bs[k + 1], k)
                 /\ k < L => Len(bs[k + 1]) = BlockBytes
                 /\ k = L => k * BlockBytes + Len(bs[k + 1]) = Len(S)
      <4>1. k + 1 \in 1 .. Len(fs) /\ (k + 1) - 1 = k
        BY <3>2
      <4>2. PICK f \in AnyFrame : f = fs[k + 1]
        BY <2>2, <4>1
      <4>3. FrameOf(f, "mine", S) /\ f.index = k
        BY <2>2, <4>1, <4>2
      <4>4. bs[k + 1] = f.body
        BY <3>3, <4>2
      <4>5. /\ Body(S, f.body, f.index)
            /\ f.final => f.index * BlockBytes + Len(f.body) = Len(S)
            /\ ~f.final => Len(f.body) = BlockBytes
        BY <4>3, BodyAt
      <4>6. k < L => ~f.final
        <5>1. fs[k + 1].final = (k + 1 = Len(fs)) /\ k + 1 \in Nat /\ Len(fs) \in Nat
          BY <2>2, <4>1
        <5>2. k < L => k + 1 # Len(fs)
          BY <3>2
        <5> QED  BY <4>2, <5>1, <5>2, Zenon
      <4>7. k = L => f.final
        <5>1. fs[k + 1].final = (k + 1 = Len(fs))
          BY <2>2, <4>1
        <5> QED  BY <3>2, <4>2, <5>1
      <4> QED  BY <4>3, <4>4, <4>5, <4>6, <4>7
    <3>5. L * BlockBytes + Len(bs[L + 1]) = Len(S)
      <4>1. L \in 0 .. L
        OBVIOUS
      <4> QED  BY <3>4, <4>1
    <3>6. Concat(bs) = S
      BY <3>3, <3>4, <3>5, BodiesJoined
    <3> QED  BY <3>1, <3>6
  <2>4. Units(S) = Plaintext("mine", plaintext_bytes)
    <3>1. Cat(Units(S), <<>>) = Plaintext("mine", plaintext_bytes) /\ Units(S) \in Seq(PlainBytes)
      BY UnitsType DEF Inv, WriterInv, AfterEnd
    <3>2. Cat(Units(S), <<>>) = Units(S)
      BY <3>1, CatEmpty
    <3> QED  BY <3>1, <3>2
  <2>5. fs = Frames("mine", S)
    <3>1. PICK gs \in Seq(AnyFrame) : gs = Frames("mine", S)
      BY FramesOf
    <3>2. PICK full \in Nat : full = Len(S) \div BlockBytes
      BY Sizes
    <3>3. /\ Len(gs) = full + 1
          /\ \A i \in 1 .. full + 1 :
                /\ gs[i].index = i - 1 /\ gs[i].final = (i = full + 1)
                /\ FrameOf(gs[i], "mine", S) /\ gs[i] \in AnyFrame
      <4>1. /\ Len(Frames("mine", S)) = Len(S) \div BlockBytes + 1
            /\ \A i \in 1 .. Len(S) \div BlockBytes + 1 :
                  /\ Frames("mine", S)[i].index = i - 1
                  /\ Frames("mine", S)[i].final = (i = Len(S) \div BlockBytes + 1)
                  /\ FrameOf(Frames("mine", S)[i], "mine", S)
        BY FramesOf
      <4> QED  BY <3>1, <3>2, <4>1
    <3>4. Len(fs) = full + 1
      <4>1. PICK f \in AnyFrame : f = fs[Len(fs)]
        BY <2>2
      <4>2. FrameOf(f, "mine", S) /\ f.index = Len(fs) - 1 /\ f.final
        <5>1. Len(fs) \in 1 .. Len(fs)
          BY <2>2
        <5>2. /\ FrameOf(fs[Len(fs)], "mine", S) /\ fs[Len(fs)].index = Len(fs) - 1
              /\ fs[Len(fs)].final = (Len(fs) = Len(fs))
          BY <2>2, <5>1
        <5> QED  BY <4>1, <5>2
      <4>3. /\ (Len(fs) - 1) * BlockBytes <= Len(S)
            /\ Len(S) < (Len(fs) - 1) * BlockBytes + BlockBytes
        BY <4>2 DEF FrameOf
      <4>4. Len(S) \in Nat /\ Len(fs) - 1 \in Nat
        BY <2>2
      <4>5. Len(S) \div BlockBytes = Len(fs) - 1
        BY <4>3, <4>4, Blocks
      <4> QED  BY <2>2, <3>2, <4>5
    <3>5. ASSUME NEW i \in 1 .. Len(fs) PROVE fs[i] = gs[i]
      <4>1. PICK f \in AnyFrame : f = fs[i]
        BY <2>2
      <4>2. PICK g \in AnyFrame : g = gs[i]
        BY <3>3, <3>4
      <4>3. /\ FrameOf(f, "mine", S) /\ FrameOf(g, "mine", S)
            /\ f.index = g.index /\ f.final = g.final
        BY <2>2, <3>3, <3>4, <4>1, <4>2
      <4>4. f.obj = g.obj /\ f.body = g.body
        BY <4>3 DEF FrameOf
      <4>5. f = Frame(f.obj, f.index, f.final, f.body) /\ g = Frame(g.obj, g.index, g.final, g.body)
        BY FrameIs
      <4> QED  BY <4>1, <4>2, <4>3, <4>4, <4>5
    <3> QED  BY <3>1, <3>3, <3>4, <3>5, SeqEqual
  <2> QED  BY <2>1, <2>2, <2>3, <2>4, <2>5
<1> QED  BY <1>1, Inductive, PTL

-----------------------------------------------------------------------------
(* A Node operation.  None of its properties is inductive: that the        *)
(* promise describes acknowledged writes rests on every earlier call       *)
(* having been answered whenever the thread is not waiting, and that in    *)
(* turn on a call leaving the queue before it can be answered.             *)

\* The calls 1 .. n were all answered with success.
Answered(n) == \A c \in 1 .. n : answers[c] = "ok"

\* The thread goes on only past answered calls, and so does a good result.
AnsweredInv ==
    /\ tpc = "none" => made = 0
    /\ tpc = "run" => Answered(made)
    /\ tpc = "wait" => made > 0 /\ Answered(made - 1)
    /\ result = "ok" => Answered(made)
    /\ tpc \in {"none", "run", "wait"} => result = "none"

\* A queued call is the last one made and has no answer yet; a call not made
\* yet has left no trace.
QueueInv ==
    /\ \A c \in queue : c = made /\ answers[c] = NoAnswer /\ c \notin unsettled
    /\ \A c \in unsettled : c <= made
    /\ \A c \in Calls : c > made => answers[c] = NoAnswer

\* The promise is resolved by a good result only, after the last step.
PromiseInv ==
    /\ promise = "resolved" => result = "ok" /\ tpc = "ended"
    /\ writes \subseteq 1 .. made

\* A cancel during a wait is still ahead of the thread, or has ended it.
StruckInv == struck => cancelled /\ result # "ok" /\ tpc \in {"wait", "settle", "ended"}

IoIInv == TypeOK /\ AnsweredInv /\ QueueInv /\ PromiseInv /\ StruckInv

-----------------------------------------------------------------------------
\* IoIInv holds before the operation is started.
LEMMA InitIoIInv == IoInit => IoIInv
<1> SUFFICES ASSUME IoInit PROVE IoIInv
  OBVIOUS
<1>1. TypeOK
  <2>1. answers \in [Calls -> {NoAnswer, "ok", "io_error", "invalid_state"}]
    BY DEF IoInit
  <2>2. made \in 0 .. MaxCalls
    BY CallsAssumption DEF IoInit
  <2> QED
    BY <2>1, <2>2 DEF IoInit, TypeOK
<1>2. AnsweredInv /\ StruckInv
  BY DEF IoInit, AnsweredInv, StruckInv, Answered
<1>3. QueueInv /\ PromiseInv
  BY DEF IoInit, QueueInv, PromiseInv
<1> QED
  BY <1>1, <1>2, <1>3 DEF IoIInv

\* The thread's steps preserve IoIInv: a call is queued only when the queue is
\* empty, and the thread resumes only with the answer to its last call.
LEMMA ThreadKeeps == ASSUME IoIInv, ThreadStep PROVE IoIInv'
<1> USE CallsAssumption DEF IoIInv, TypeOK, Calls, NoAnswer
<1>1. ASSUME NEW write \in BOOLEAN, CallBack(write) PROVE IoIInv'
  <2>1. CASE cancelled \/ closed \/ queue # {}
    BY <1>1, <2>1 DEF CallBack, End, AnsweredInv, QueueInv, PromiseInv, StruckInv, Answered
  <2>2. CASE ~(cancelled \/ closed \/ queue # {})
    <3>1. /\ ~cancelled /\ queue = {} /\ tpc = "run" /\ tpc' = "wait" /\ made' = made + 1
          /\ made < MaxCalls /\ queue' = {made + 1}
          /\ writes' \subseteq writes \cup {made + 1}
          /\ UNCHANGED <<unsettled, answers, cancelled, closed, result, promise, struck>>
      BY <1>1, <2>2 DEF CallBack
    <3>2. TypeOK'
      BY <3>1
    <3>3. AnsweredInv'
      BY <3>1 DEF AnsweredInv, Answered
    <3>4. QueueInv'
      BY <3>1 DEF QueueInv
    <3>5. PromiseInv'
      BY <3>1 DEF PromiseInv
    <3>6. StruckInv'
      BY <3>1 DEF StruckInv
    <3> QED
      BY <3>2, <3>3, <3>4, <3>5, <3>6
  <2> QED
    BY <2>1, <2>2
<1>2. ASSUME wait_for_callback PROVE IoIInv'
  <2>1. /\ tpc = "wait" /\ UNCHANGED <<made, writes, queue, unsettled, answers,
                                       cancelled, closed, promise, struck>>
        /\ \/ tpc' = "settle" /\ result' \in {"cancelled", "io_error", "invalid_state"}
           \/ tpc' = "run" /\ result' = result /\ ~cancelled /\ answers[made] = "ok"
    <3>1. tpc = "wait" /\ made \in Calls
      BY <1>2 DEF wait_for_callback, AnsweredInv
    <3>2. answers[made] \in {NoAnswer, "ok", "io_error", "invalid_state"}
      BY <3>1
    <3> QED
      BY <1>2, <3>1, <3>2 DEF wait_for_callback, End
  <2>2. TypeOK'
    BY <2>1
  <2>3. AnsweredInv'
    <3>1. CASE tpc' = "settle"
      BY <2>1, <3>1 DEF AnsweredInv
    <3>2. CASE tpc' = "run"
      <4>1. made > 0 /\ Answered(made - 1) /\ answers[made] = "ok" /\ result' = "none"
        BY <2>1, <3>2 DEF AnsweredInv
      <4>2. ASSUME NEW d \in 1 .. made PROVE answers[d] = "ok"
        <5>1. d = made \/ d \in 1 .. made - 1
          OBVIOUS
        <5> QED
          BY <4>1, <5>1 DEF Answered
      <4> QED
        BY <2>1, <3>2, <4>1, <4>2 DEF AnsweredInv, Answered
    <3> QED
      BY <2>1, <3>1, <3>2
  <2>4. QueueInv' /\ PromiseInv' /\ StruckInv'
    BY <2>1 DEF QueueInv, PromiseInv, StruckInv
  <2> QED
    BY <2>2, <2>3, <2>4
<1>3. ASSUME CoreReturns \/ CoreSeesCancel PROVE IoIInv'
  <2>1. /\ tpc = "run" /\ tpc' = "settle"
        /\ result' \in {"ok", "core_error", "invalid_state", "cancelled"}
        /\ UNCHANGED <<made, writes, queue, unsettled, answers, cancelled, closed,
                       promise, struck>>
    BY <1>3 DEF CoreReturns, CoreSeesCancel, End
  <2>2. TypeOK'
    BY <2>1
  <2>3. AnsweredInv'
    BY <2>1 DEF AnsweredInv, Answered
  <2>4. QueueInv' /\ PromiseInv' /\ StruckInv'
    BY <2>1 DEF QueueInv, PromiseInv, StruckInv
  <2> QED
    BY <2>2, <2>3, <2>4
<1> QED
  BY <1>1, <1>2, <1>3 DEF ThreadStep

\* The JavaScript thread's steps preserve IoIInv: an answer never changes and
\* only a call that has left the queue gets one.
LEMMA CallbackKeeps ==
    ASSUME IoIInv, NEW c \in Calls, Invoke(c) \/ SettleCall(c)
    PROVE  IoIInv'
<1> USE CallsAssumption DEF IoIInv, TypeOK, Calls, NoAnswer
<1>1. /\ c <= made
      /\ UNCHANGED <<tpc, made, writes, cancelled, closed, result, promise, struck>>
      /\ queue' = queue \ {c} /\ unsettled' \subseteq unsettled \cup {c}
  <2>1. CASE Invoke(c)
    BY <2>1 DEF Invoke, QueueInv
  <2>2. CASE SettleCall(c)
    BY <2>2 DEF SettleCall, QueueInv
  <2> QED
    BY <2>1, <2>2
<1>2. /\ answers' \in [Calls -> {NoAnswer, "ok", "io_error", "invalid_state"}]
      /\ \A d \in Calls : d # c => answers'[d] = answers[d]
      /\ answers[c] # NoAnswer => answers'[c] = answers[c]
  BY DEF Invoke, SettleCall, Answer
<1>3. TypeOK'
  BY <1>1, <1>2
<1>4. ASSUME NEW n \in 0 .. made, Answered(n) PROVE Answered(n)'
  <2>1. ASSUME NEW d \in 1 .. n PROVE answers'[d] = "ok"
    <3>1. d \in Calls /\ answers[d] = "ok"
      BY <1>4 DEF Answered
    <3> QED
      BY <1>2, <3>1
  <2> QED
    BY <2>1 DEF Answered
<1>5. AnsweredInv'
  <2>1. made \in 0 .. made /\ (made > 0 => made - 1 \in 0 .. made)
    OBVIOUS
  <2>2. (Answered(made) => Answered(made)') /\ (made > 0 /\ Answered(made - 1) => Answered(made - 1)')
    BY <1>1, <1>4, <2>1 DEF Answered
  <2> QED
    BY <1>1, <2>2 DEF AnsweredInv
<1>6. QueueInv'
  <2>1. ASSUME NEW d \in queue'
        PROVE  d = made /\ answers'[d] = NoAnswer /\ d \notin unsettled'
    <3>1. d \in queue /\ d # c
      BY <1>1
    <3> QED
      BY <1>1, <1>2, <3>1 DEF QueueInv
  <2>2. \A d \in unsettled' : d <= made
    BY <1>1 DEF QueueInv
  <2>3. ASSUME NEW d \in Calls, d > made PROVE answers'[d] = NoAnswer
    BY <1>1, <1>2, <2>3 DEF QueueInv
  <2> QED
    BY <1>1, <2>1, <2>2, <2>3 DEF QueueInv
<1>7. PromiseInv' /\ StruckInv'
  BY <1>1 DEF PromiseInv, StruckInv
<1> QED
  BY <1>3, <1>5, <1>6, <1>7

\* Every step preserves IoIInv.
LEMMA StepIoIInv == IoIInv /\ [IoNext]_ioVars => IoIInv'
<1> SUFFICES ASSUME IoIInv, [IoNext]_ioVars PROVE IoIInv'
  OBVIOUS
<1> USE DEF IoIInv, TypeOK, AnsweredInv, QueueInv, PromiseInv, StruckInv, Answered, NoAnswer
<1>1. CASE Start
  BY <1>1, CallsAssumption DEF Start, Calls
<1>2. CASE ThreadStep
  BY <1>2, ThreadKeeps
<1>3. CASE Settle
  BY <1>3 DEF Settle
<1>4. ASSUME NEW c \in Calls, Invoke(c) \/ SettleCall(c) PROVE IoIInv'
  BY <1>4, CallbackKeeps
<1>5. CASE cancel
  BY <1>5 DEF cancel
<1>6. CASE CloseEnvironment
  BY <1>6 DEF CloseEnvironment
<1>7. CASE UNCHANGED ioVars
  BY <1>7 DEF ioVars
<1> QED
  BY <1>1, <1>2, <1>3, <1>4, <1>5, <1>6, <1>7 DEF IoNext

\* IoIInv is an invariant of every behaviour of the operation.
THEOREM IoInductive == IoSpec => []IoIInv
  BY InitIoIInv, StepIoIInv, PTL DEF IoSpec

\* A resolved promise describes acknowledged writes only.
THEOREM ResolvedWasWritten == IoSpec => []ResolvedIsWritten
<1>1. IoIInv => ResolvedIsWritten
  BY DEF IoIInv, TypeOK, AnsweredInv, PromiseInv, Answered, ResolvedIsWritten
<1> QED
  BY <1>1, IoInductive, PTL

\* The queue of one call is free whenever the thread makes its next call.
THEOREM QueueNeverFull == IoSpec => []QueueHasRoom
<1>1. IoIInv => QueueHasRoom
  <2> SUFFICES ASSUME IoIInv, tpc = "run", NEW c \in queue PROVE FALSE
    BY DEF QueueHasRoom
  <2>1. c = made /\ answers[c] = NoAnswer /\ c \in 1 .. made
    BY CallsAssumption DEF IoIInv, TypeOK, QueueInv, Calls
  <2> QED
    BY <2>1 DEF IoIInv, AnsweredInv, Answered, NoAnswer
<1> QED
  BY <1>1, IoInductive, PTL

\* An operation cancelled during a callback does not succeed.
THEOREM CancelPrevails == IoSpec => []CancelWins
<1>1. IoIInv => CancelWins
  BY DEF IoIInv, StruckInv, CancelWins
<1> QED
  BY <1>1, IoInductive, PTL
=============================================================================

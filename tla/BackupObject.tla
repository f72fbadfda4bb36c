---------------------------- MODULE BackupObject ----------------------------
(***************************************************************************)
(* A backup object from seal_object_v1 through storage to open_object_v1:  *)
(* plaintext is compressed, cut into blocks, and each block encrypted and  *)
(* framed; the reader takes the frames in one pass and hands out plaintext *)
(* while it goes.                                                          *)
(*                                                                         *)
(* Sizes are counted in bytes.  A plaintext byte is known by the object it *)
(* belongs to and its place; a compressed byte by the plaintext it         *)
(* completes; a frame by the object, counter and last flag it is           *)
(* authenticated with and by its compressed bytes.  Between the two calls  *)
(* the object may be damaged, or mixed with another version of itself      *)
(* sealed under the same context.                                          *)
(***************************************************************************)
EXTENDS Integers, Sequences, SequencesExt

CONSTANTS
    HeaderBytes,    \* ENVELOPE_HEADER_BYTES
    LengthBytes,    \* bytes of a frame's length
    TagBytes,       \* AEAD_TAG_BYTES
    BlockBytes,     \* COMPRESSED_BLOCK_BYTES
    ChunkBytes,     \* MAX_IO_CHUNK_BYTES_V1
    ZstdHeader,     \* bytes of the Zstd frame header
    MaxPlaintext,   \* MAX_PLAINTEXT_OBJECT_BYTES_V1
    MaxCompressed,  \* MAX_COMPRESSED_OBJECT_BYTES_V1
    MaxCiphertext,  \* MAX_CIPHERTEXT_OBJECT_BYTES_V1
    MaxBlocks,      \* MAX_ENCRYPTED_BLOCKS_PER_OBJECT_V1
    MaxSource,      \* bound on the plaintext offered
    MaxEmit,        \* bound on the bytes the compressor emits at once
    MaxDamage       \* bound on the damages to one object

ASSUME ConstantsAssumption ==
    /\ {HeaderBytes, TagBytes, BlockBytes, ChunkBytes, ZstdHeader} \subseteq Nat \ {0}
    /\ LengthBytes \in Nat /\ LengthBytes > 1
    /\ {MaxPlaintext, MaxCompressed, MaxBlocks, MaxSource, MaxEmit, MaxDamage} \subseteq Nat
    /\ MaxCiphertext \in Nat /\ HeaderBytes <= MaxCiphertext

VARIABLES
    wpc,        \* where seal_object_v1 is
    left,       \* plaintext bytes the source has still to give
    plaintext_bytes, compressed_bytes, ciphertext_bytes, block_count,
    absorbed,   \* plaintext the compressor has taken in and not yet emitted
    pending,    \* compressed bytes that do not fill a block yet
    descriptor, \* the size seal_object_v1 reported, or NoDescriptor
    file,       \* the stored object
    damages,    \* damages so far
    rpc,        \* where open_object_v1 is
    why,        \* its error
    bytes, need, eof,                       \* CheckedSource
    idx, next,                              \* the frame held, and is one after it
    inflow, held, seen, ended, complete,    \* BoundedDecoder
    total,
    out         \* the plaintext handed to the sink

writer == <<wpc, left, plaintext_bytes, compressed_bytes, ciphertext_bytes,
            block_count, absorbed, pending, descriptor>>
storage == <<file, damages>>
decoder == <<inflow, held, seen, ended, complete, total, out>>
reader == <<rpc, why, bytes, need, eof, idx, next, decoder>>
vars == <<writer, storage, reader>>

NoDescriptor == -1

\* A compressed byte: the plaintext it completes, and is it the frame's end.
Byte(units, end) == [units |-> units, end |-> end]

\* The first n plaintext bytes of an object.
Plaintext(obj, n) == [i \in 1 .. n |-> <<obj, i>>]

Frame(obj, index, final, body) ==
    [obj |-> obj, index |-> index, final |-> final, body |-> body]

FrameLength(f) == Len(f.body) + TagBytes
FrameBytes(f) == LengthBytes + FrameLength(f)

\* The frames of a whole compressed stream: full blocks, then the last one.
Frames(obj, stream) ==
    LET full == Len(stream) \div BlockBytes
    IN  [i \in 1 .. full + 1 |->
            Frame(obj, i - 1, i = full + 1,
                  SubSeq(stream, (i - 1) * BlockBytes + 1,
                         IF i > full THEN Len(stream) ELSE i * BlockBytes))]

\* Another version of the object, sealed under the same context and key.
OtherSize == 2
OtherStream ==
    [i \in 1 .. ZstdHeader |-> Byte(<<>>, FALSE)]
        \o <<Byte(Plaintext("other", OtherSize), FALSE), Byte(<<>>, TRUE)>>
OtherFrames == Frames("other", OtherStream)

\* Bytes that are no frame of any object, under a length no block has.
GarbageFrame == Frame("garbage", 0, FALSE, [i \in 1 .. BlockBytes + 1 |-> Byte(<<>>, FALSE)])

\* Header, frames, and how many bytes are missing at the end.
Stored(header, frames, cut) == [header |-> header, frames |-> frames, cut |-> cut]

\* Where each frame ends, and before the first the header.
Ends(frames) ==
    LET end[n \in 0 .. Len(frames)] ==
            IF n = 0 THEN HeaderBytes ELSE end[n - 1] + FrameBytes(frames[n])
    IN  end

Size(f) == Ends(f.frames)[Len(f.frames)] - f.cut

\* The sequences of a sequence, one after the other.
Joined(ss) ==
    LET first[n \in 0 .. Len(ss)] == IF n = 0 THEN <<>> ELSE first[n - 1] \o ss[n]
    IN  first
Concat(ss) == Joined(ss)[Len(ss)]

\* The plaintext that compressed bytes complete.
Units(stream) == Concat([i \in 1 .. Len(stream) |-> stream[i].units])

Least(a, b) == IF a < b THEN a ELSE b

-----------------------------------------------------------------------------

Init ==
    /\ wpc = "start"
    /\ left \in 0 .. MaxSource
    /\ plaintext_bytes = 0 /\ compressed_bytes = 0
    /\ ciphertext_bytes = 0 /\ block_count = 0
    /\ absorbed = <<>> /\ pending = <<>>
    /\ descriptor = NoDescriptor
    /\ file = Stored("mine", <<>>, HeaderBytes)
    /\ damages = 0
    /\ rpc = "idle" /\ why = "none"
    /\ bytes = 0 /\ need = 0 /\ eof = FALSE
    /\ idx = 0 /\ next = FALSE
    /\ inflow = <<>> /\ held = <<>> /\ seen = 0 /\ ended = FALSE /\ complete = FALSE
    /\ total = 0
    /\ out = <<>>

(* seal_object_v1                                                          *)

\* EnvelopeWriter::new writes the header.
WriteHeader ==
    /\ wpc = "start"
    /\ file' = Stored("mine", <<>>, 0)
    /\ ciphertext_bytes' = HeaderBytes
    /\ wpc' = "read"
    /\ UNCHANGED <<left, plaintext_bytes, compressed_bytes, block_count, absorbed,
                   pending, descriptor, damages, reader>>

\* One chunk is read, counted against the limit, and given to the compressor.
write_plaintext(n) ==
    /\ wpc = "read" /\ n <= left
    /\ left' = left - n
    /\ IF plaintext_bytes + n > MaxPlaintext
       THEN wpc' = "failed" /\ UNCHANGED <<plaintext_bytes, absorbed>>
       ELSE /\ wpc' = "compress"
            /\ plaintext_bytes' = plaintext_bytes + n
            /\ absorbed' = absorbed \o [i \in 1 .. n |-> <<"mine", plaintext_bytes + i>>]
    /\ UNCHANGED <<compressed_bytes, ciphertext_bytes, block_count, pending,
                   descriptor, storage, reader>>

SourceEnds ==
    /\ wpc = "read" /\ left = 0
    /\ wpc' = "finish"
    /\ UNCHANGED <<left, plaintext_bytes, compressed_bytes, ciphertext_bytes,
                   block_count, absorbed, pending, descriptor, storage, reader>>

\* The compressor's output: its header once, then n bytes of which the last
\* completes everything taken in so far.
Emitted(n, end) ==
    (IF compressed_bytes = 0 THEN [i \in 1 .. ZstdHeader |-> Byte(<<>>, FALSE)] ELSE <<>>)
        \o [i \in 1 .. n |-> IF i = n THEN Byte(absorbed, end) ELSE Byte(<<>>, FALSE)]

\* EnvelopeWriter::write: the bytes are counted and join the pending block.
write_compressed(emitted, then) ==
    /\ IF compressed_bytes + Len(emitted) > MaxCompressed
       THEN wpc' = "failed" /\ UNCHANGED <<compressed_bytes, pending>>
       ELSE /\ wpc' = then
            /\ compressed_bytes' = compressed_bytes + Len(emitted)
            /\ pending' = pending \o emitted
    /\ absorbed' = <<>>
    /\ UNCHANGED <<left, plaintext_bytes, ciphertext_bytes, block_count, descriptor,
                   storage, reader>>

\* The compressor may keep what it was given, or emit it.
Compress ==
    /\ wpc = "compress"
    /\ \/ \E n \in 1 .. MaxEmit : write_compressed(Emitted(n, FALSE), "blocks")
       \/ /\ wpc' = "read"
          /\ UNCHANGED <<left, plaintext_bytes, compressed_bytes, ciphertext_bytes,
                         block_count, absorbed, pending, descriptor, storage, reader>>

\* encoder.try_finish() ends the Zstd frame.
FinishCompress ==
    /\ wpc = "finish"
    /\ \E n \in 1 .. MaxEmit : write_compressed(Emitted(n, TRUE), "last_blocks")

\* The frame written next.
NextFrame == Frame("mine", block_count, FALSE, SubSeq(pending, 1, BlockBytes))
LastFrame == Frame("mine", block_count, TRUE, pending)

\* checked_add_limited of the block count and of the envelope's bytes.
Fits(f) ==
    /\ block_count + 1 <= MaxBlocks
    /\ ciphertext_bytes + FrameBytes(f) <= MaxCiphertext

Write(f) ==
    /\ Fits(f)
    /\ block_count' = block_count + 1
    /\ ciphertext_bytes' = ciphertext_bytes + FrameBytes(f)
    /\ file' = Stored("mine", Append(file.frames, f), 0)

FullBlock == wpc \in {"blocks", "last_blocks"} /\ Len(pending) >= BlockBytes

\* Wrong version: what is left after the block is dropped.
WriteBlockOnly ==
    /\ FullBlock
    /\ Write(NextFrame)
    /\ pending' = <<>>
    /\ UNCHANGED <<wpc, left, plaintext_bytes, compressed_bytes, absorbed,
                   descriptor, damages, reader>>

WriteBlock ==
    /\ FullBlock
    /\ Write(NextFrame)
    /\ pending' = SubSeq(pending, BlockBytes + 1, Len(pending))
    /\ UNCHANGED <<wpc, left, plaintext_bytes, compressed_bytes, absorbed,
                   descriptor, damages, reader>>

BlocksWritten ==
    /\ wpc \in {"blocks", "last_blocks"} /\ Len(pending) < BlockBytes
    /\ wpc' = IF wpc = "blocks" THEN "read" ELSE "last"
    /\ UNCHANGED <<left, plaintext_bytes, compressed_bytes, ciphertext_bytes,
                   block_count, absorbed, pending, descriptor, storage, reader>>

\* Wrong version: an empty last block is left out.
WriteLastUnlessEmpty ==
    /\ wpc = "last"
    /\ IF pending = <<>>
       THEN UNCHANGED <<block_count, ciphertext_bytes, file>>
       ELSE Write(LastFrame)
    /\ pending' = <<>>
    /\ wpc' = "finished"
    /\ descriptor' = ciphertext_bytes'
    /\ UNCHANGED <<left, plaintext_bytes, compressed_bytes, absorbed, damages, reader>>

\* EnvelopeWriter::finish: the descriptor exists only after the last block.
WriteLast ==
    /\ wpc = "last"
    /\ Write(LastFrame)
    /\ pending' = <<>>
    /\ wpc' = "finished"
    /\ descriptor' = ciphertext_bytes'
    /\ UNCHANGED <<left, plaintext_bytes, compressed_bytes, absorbed, damages, reader>>

\* A block exceeds a limit or the sink fails: part of the frame may have been
\* written, and no descriptor is returned.
WriteFails ==
    /\ \/ /\ wpc = "start"
          /\ \E cut \in 1 .. HeaderBytes : file' = Stored("mine", <<>>, cut)
       \/ /\ FullBlock \/ wpc = "last"
          /\ LET f == IF FullBlock THEN NextFrame ELSE LastFrame
             IN  \E cut \in 1 .. FrameBytes(f) :
                    file' = Stored("mine", Append(file.frames, f), cut)
    /\ wpc' = "failed"
    /\ UNCHANGED <<left, plaintext_bytes, compressed_bytes, ciphertext_bytes,
                   block_count, absorbed, pending, descriptor, damages, reader>>

\* The source fails or is cancelled, or the process dies.
SealInterrupted ==
    /\ wpc \in {"start", "read", "compress", "blocks", "finish", "last_blocks", "last"}
    /\ wpc' = "failed"
    /\ UNCHANGED <<left, plaintext_bytes, compressed_bytes, ciphertext_bytes,
                   block_count, absorbed, pending, descriptor, storage, reader>>

SealEnded == wpc \in {"finished", "failed"}

-----------------------------------------------------------------------------
(* Storage between the two calls.                                          *)

\* The frames that are there to the last byte.
Standing(f) == {i \in DOMAIN f.frames : Ends(f.frames)[i] <= Size(f)}

\* A cut, another header, a frame repeated, lost, overwritten or taken from the
\* other version, the other version appended, or that version in its place.
Damaged(f) ==
    {Stored(f.header, f.frames, f.cut + n) : n \in 1 .. Size(f)}
    \cup {Stored(h, f.frames, f.cut) : h \in {"other", "bad"}}
    \cup {Stored(f.header, ReplaceAt(f.frames, i, g), f.cut) :
            i \in Standing(f),
            g \in {f.frames[j] : j \in Standing(f)} \cup ToSet(OtherFrames) \cup {GarbageFrame}}
    \cup {Stored(f.header, RemoveAt(f.frames, i), f.cut) : i \in Standing(f)}
    \cup {Stored(f.header, f.frames \o OtherFrames, cut) : cut \in {f.cut} \cap {0}}
    \cup {Stored("other", OtherFrames, 0)}

Damage ==
    /\ SealEnded /\ rpc = "idle" /\ damages < MaxDamage
    /\ damages' = damages + 1
    /\ file' \in Damaged(file)
    /\ UNCHANGED <<writer, reader>>

-----------------------------------------------------------------------------
(* open_object_v1                                                          *)

Fail(e) == rpc' = "failed" /\ why' = e

Reading == rpc \in {"header", "first_length", "length_rest", "frame"}

OpenObject ==
    /\ SealEnded /\ rpc = "idle"
    /\ rpc' = "header" /\ need' = HeaderBytes
    /\ UNCHANGED <<writer, storage, why, bytes, eof, idx, next, decoder>>

\* The room CheckedSource::read offers: one byte past the limit at most.
Capacity == Least(Least(need, ChunkBytes), MaxCiphertext - bytes + 1)

\* One read_chunk, which may be short.
Read ==
    /\ Reading /\ need > 0
    /\ \E n \in 1 .. Least(Capacity, Size(file) - bytes) :
        /\ bytes' = bytes + n
        /\ need' = need - n
        /\ IF bytes + n > MaxCiphertext THEN Fail("limit") ELSE UNCHANGED <<rpc, why>>
    /\ UNCHANGED <<writer, storage, eof, idx, next, decoder>>

\* read_chunk returns 0: right after a frame the object is over, anywhere
\* else, and before the first frame, it is malformed.
ReadEof ==
    /\ Reading /\ need > 0
    /\ bytes = Size(file) \/ Capacity = 0
    /\ eof' = TRUE
    /\ IF rpc = "first_length" /\ idx > 0
       THEN rpc' = "decrypt" /\ next' = FALSE /\ UNCHANGED why
       ELSE Fail("malformed") /\ UNCHANGED next
    /\ UNCHANGED <<writer, storage, bytes, need, idx, decoder>>

ParseHeader ==
    /\ rpc = "header" /\ need = 0
    /\ IF file.header = "bad" THEN Fail("unsupported") /\ UNCHANGED need
       ELSE rpc' = "first_length" /\ need' = 1 /\ UNCHANGED why
    /\ UNCHANGED <<writer, storage, bytes, eof, idx, next, decoder>>

ReadLengthRest ==
    /\ rpc = "first_length" /\ need = 0
    /\ rpc' = "length_rest" /\ need' = LengthBytes - 1
    /\ UNCHANGED <<writer, storage, why, bytes, eof, idx, next, decoder>>

\* A length out of range is malformed.  The length of the first frame is
\* followed by the frame; a later one is read ahead of decrypting the frame
\* before it.
ParseLength ==
    /\ rpc = "length_rest" /\ need = 0
    /\ LET length == FrameLength(file.frames[idx + 1])
       IN  IF length \notin TagBytes .. BlockBytes + TagBytes
           THEN Fail("malformed") /\ UNCHANGED <<idx, need, next>>
           ELSE IF idx = 0
           THEN rpc' = "frame" /\ idx' = 1 /\ need' = length /\ UNCHANGED <<why, next>>
           ELSE rpc' = "decrypt" /\ next' = TRUE /\ UNCHANGED <<why, idx, need>>
    /\ UNCHANGED <<writer, storage, bytes, eof, decoder>>

FrameRead ==
    /\ rpc = "frame" /\ need = 0
    /\ rpc' = "first_length" /\ need' = 1
    /\ UNCHANGED <<writer, storage, why, bytes, eof, idx, next, decoder>>

\* Wrong version: the nonce does not count the frames.
AuthenticAnywhere(f) == f.obj = file.header /\ f.final = ~next

\* Wrong version: the last frame is decrypted like any other.
AuthenticAnyFrame(f) == f.obj = file.header /\ f.index = idx - 1

\* STREAM: object key and nonce, the frame's place, and is it the last one.
Authentic(f) ==
    /\ f.obj = file.header /\ f.index = idx - 1
    /\ f.final = ~next

\* check_header has the whole Zstd header among the first n bytes; the headers
\* of sealed objects pass it.
HeaderChecked(n) == n >= ZstdHeader

\* Decrypt the frame held and push its bytes into the decoder.
DecryptFrame ==
    /\ rpc = "decrypt"
    /\ LET f == file.frames[idx]
       IN  IF next /\ FrameLength(f) # BlockBytes + TagBytes
           THEN Fail("malformed") /\ UNCHANGED <<inflow, seen>>
           ELSE IF ~Authentic(f)
           THEN Fail("authentication") /\ UNCHANGED <<inflow, seen>>
           ELSE IF complete /\ f.body # <<>>
           THEN Fail("compressed_data") /\ UNCHANGED <<inflow, seen>>
           ELSE /\ seen' = seen + Len(f.body)
                /\ inflow' = f.body
                /\ rpc' = IF complete \/ ~HeaderChecked(seen') THEN "pushed" ELSE "decode"
                /\ UNCHANGED why
    /\ UNCHANGED <<writer, storage, bytes, need, eof, idx, next, held, ended,
                   complete, total, out>>

\* What the first k bytes of the input make available to write out.
Decoded(k) == held \o Units(SubSeq(inflow, 1, k))

\* Wrong version: the loop only ends with the Zstd frame.
PushReturnsAtEnd == ended' /\ held' = <<>>

\* One block's input is used up: nothing was read and nothing written, or the
\* Zstd frame is over.
PushReturns == (ended' /\ held' = <<>>) \/ (inflow = <<>> /\ held = <<>>)

\* One turn of BoundedDecoder::decode: the decoder reads k bytes and writes
\* what fits; it makes progress while it has input or output.
Decode ==
    /\ rpc = "decode"
    /\ \E k \in 0 .. Len(inflow) :
        LET room == Least(ChunkBytes, MaxPlaintext - total + 1)
            w == Least(room, Len(Decoded(k)))
        IN  /\ k + w > 0 \/ (inflow = <<>> /\ held = <<>>)
            /\ ended' = (ended \/ \E i \in 1 .. k : inflow[i].end)
            /\ inflow' = SubSeq(inflow, k + 1, Len(inflow))
            /\ held' = SubSeq(Decoded(k), w + 1, Len(Decoded(k)))
            /\ IF total + w > MaxPlaintext
               THEN Fail("limit") /\ UNCHANGED <<total, out, complete>>
               ELSE /\ total' = total + w
                    /\ out' = out \o SubSeq(Decoded(k), 1, w)
                    /\ complete' = (ended' /\ held' = <<>>)
                    /\ IF complete' /\ inflow' # <<>> THEN Fail("compressed_data")
                       ELSE /\ rpc' = IF PushReturns THEN "pushed" ELSE "decode"
                            /\ UNCHANGED why
    /\ UNCHANGED <<writer, storage, bytes, need, eof, idx, next, seen>>

\* The next frame's bytes are read, or the object is over.
NextOrEnd ==
    /\ rpc = "pushed"
    /\ IF next
       THEN /\ rpc' = "frame" /\ idx' = idx + 1
            /\ need' = FrameLength(file.frames[idx + 1])
       ELSE rpc' = "end" /\ UNCHANGED <<idx, need>>
    /\ UNCHANGED <<writer, storage, why, bytes, eof, next, decoder>>

\* decoder.finish()
FinishOpen ==
    /\ rpc = "end"
    /\ IF HeaderChecked(seen) /\ complete THEN rpc' = "ok" /\ UNCHANGED why
       ELSE Fail("compressed_data")
    /\ UNCHANGED <<writer, storage, bytes, need, eof, idx, next, decoder>>

OpenEnded == rpc \in {"ok", "failed"}

\* A callback fails, or the caller has cancelled.
OpenInterrupted ==
    /\ rpc # "idle" /\ ~OpenEnded
    /\ Fail("interrupted")
    /\ UNCHANGED <<writer, storage, bytes, need, eof, idx, next, decoder>>

SealStep ==
    \/ WriteHeader \/ SourceEnds \/ Compress \/ FinishCompress
    \/ WriteBlock \/ BlocksWritten \/ WriteLast \/ WriteFails
    \/ \E n \in 1 .. ChunkBytes : write_plaintext(n)

OpenStep ==
    \/ OpenObject \/ Read \/ ReadEof \/ ParseHeader \/ ReadLengthRest \/ ParseLength
    \/ FrameRead \/ DecryptFrame \/ Decode \/ NextOrEnd \/ FinishOpen

Next == SealStep \/ SealInterrupted \/ Damage \/ OpenStep \/ OpenInterrupted

Spec == Init /\ [][Next]_vars

\* Sealing and opening go on while the callbacks answer.
FairSpec == Spec /\ WF_vars(SealStep) /\ WF_vars(OpenStep)

-----------------------------------------------------------------------------
\* A finished object is what its descriptor says: all the plaintext, in full
\* blocks but for the last, which alone is marked last.
SealedIsComplete ==
    wpc = "finished" /\ damages = 0 =>
        LET stream == Concat([i \in 1 .. Len(file.frames) |-> file.frames[i].body])
        IN  /\ descriptor = Size(file)
            /\ file.frames = Frames("mine", stream)
            /\ Units(stream) = Plaintext("mine", plaintext_bytes)

\* The plaintext of the object whose header the file has.
Whole == IF file.header = "mine" THEN Plaintext("mine", plaintext_bytes)
         ELSE Plaintext("other", OtherSize)

\* open_object_v1 succeeds only with one whole sealed object: nothing is
\* missing, whether the end was lost in storage or never written, and two
\* versions are not mixed.
OpenedIsWhole ==
    rpc = "ok" => out = Whole /\ (file.header = "mine" => wpc = "finished")

\* Even the provisional output of an object that is rejected in the end is
\* the beginning of the sealed plaintext.
OutputIsPrefix == IsPrefix(out, Whole)

\* Whatever the writer finished, the reader accepts: their limits agree, also
\* for an object that exactly meets them, with short reads and blocks that
\* end anywhere in the compressed stream.
SealedOpens ==
    wpc = "finished" /\ damages = 0 /\ rpc = "failed" => why = "interrupted"

\* Opening comes to an end: each turn of its loops reads, writes or returns.
OpenEnds == <>OpenEnded
=============================================================================

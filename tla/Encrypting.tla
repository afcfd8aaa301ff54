----------------------------- MODULE Encrypting -----------------------------
(* Encryption at rest (src/storage/encrypting.rs, and how the engine builds   *)
(* the wrapper from the configuration: src/deltaglider/engine/mod.rs) for one *)
(* object.  A body is plain, one sealed blob, or a header and frames of W     *)
(* plaintext bytes, each sealed with its index and whether it is the last.    *)
(* Sealing is ideal: a frame opens only with its key, IV, index and flag.     *)
(* The i-th plaintext byte of write v is <<v, i>>.  A request works with the  *)
(* engine, hence the keys, that were current when it began.                   *)
EXTENDS Naturals, Sequences, SequencesExt

CONSTANTS None, Error, Panic, Ciphertext,
          W,             \* CHUNK_PLAINTEXT_SIZE
          Sizes,         \* sizes of the objects written
          Keys,          \* key material
          Modes,         \* encryption modes the operator chooses among
          LegacyIds,     \* how legacy_key_id is filled in: "stamped" or "derived"
          Writers, Readers,
          MaxWrites, MaxSwaps, MaxReads

VARIABLES isDelta,       \* whether the name is a delta's (or reference's): one sealed blob
          obj,           \* the object: body and metadata, or None
          conf,          \* the wrapper's EncryptionConfig in the current engine
          clean,         \* nothing is stored under the legacy key, as a re-encrypt job found
          writer, reader,
          remark,        \* the markers a metadata rewrite has read, or None
          writes, swaps, reads

vars == <<isDelta, obj, conf, clean, writer, remark, reader, writes, swaps, reads>>

-----------------------------------------------------------------------------
\* The key id: pinned by the operator or derived from the backend's name and the key; the
\* derived id of a legacy key mixes in another name.
derive_key_id(name, k) == <<name, k>>

\* wrap_backend_with_encryption: what the configured mode makes of the wrapper.
Wrapper(mode, k, pinned, lk, lid) ==
    [key |-> IF mode = "aes" THEN k ELSE None,
     kid |-> IF mode # "aes" THEN None
             ELSE IF pinned THEN <<"pinned", k>> ELSE derive_key_id("backend", k),
     write |-> IF mode = "native" THEN "PassThrough" ELSE "Encrypt",
     lkey |-> lk, lkid |-> lid]

\* resolve_legacy_shim: the id the operator copied from the objects, or a derived one.
LegacyId(how, c) == IF how = "stamped" THEN c.kid ELSE derive_key_id("backend::legacy", c.key)

pick_decrypt_key(c, kid) ==
    IF kid = None \/ c.kid = kid THEN c.key
    ELSE IF c.lkey # None /\ c.lkid = kid THEN c.lkey ELSE None

-----------------------------------------------------------------------------
\* Wire formats.  A write is [v, size]; its frames are cut every W bytes, an empty object
\* is one empty frame (ChunkFramer, put_passthrough_chunked, put_passthrough_file).
Bytes(v, lo, n) == [i \in 1..n |-> <<v, lo + i>>]

\* Mutant: an object whose size is a multiple of W gets an empty frame at the end.
LastBySize(size) == size \div W

final_chunk_index_for_plaintext_size(size) == IF size = 0 THEN 0 ELSE (size - 1) \div W

ChunkFramer(k, v, size) ==
    LET last == IF size = 0 THEN 0 ELSE (size - 1) \div W IN
    [i \in 1..(last + 1) |->
        [key |-> k, iv |-> v, index |-> i - 1, final |-> i - 1 = last,
         text |-> Bytes(v, (i - 1) * W, IF i - 1 < last THEN W ELSE size - last * W)]]

Plain(v, size) == [form |-> "plain", key |-> None, v |-> v, text |-> Bytes(v, 0, size)]
Sealed(k, v, size) == [form |-> "single", key |-> k, v |-> v, text |-> Bytes(v, 0, size)]
Framed(k, v, size) == [form |-> "chunked", key |-> k, v |-> v, text |-> ChunkFramer(k, v, size)]

\* What a write stores, with the marker and the key id it stamps.
encrypt_if_enabled(c, v, size) ==
    IF c.write = "PassThrough" \/ c.key = None
    THEN [body |-> Plain(v, size), mark |-> None, kid |-> None, size |-> size]
    ELSE [body |-> Sealed(c.key, v, size), mark |-> "single", kid |-> c.kid, size |-> size]

put_passthrough_chunked(c, v, size) ==
    IF c.write = "PassThrough" \/ c.key = None
    THEN [body |-> Plain(v, size), mark |-> None, kid |-> None, size |-> size]
    ELSE [body |-> Framed(c.key, v, size), mark |-> "chunked", kid |-> c.kid, size |-> size]

-----------------------------------------------------------------------------
\* Decoding.  Frames are opened in order until the final one, or until skip + take bytes
\* are out; one that does not open, or is missing, ends the stream with an error.
decrypt(k, body) == IF body.form = "single" /\ body.key = k THEN body.text ELSE Error

decrypt_chunk(f, k, iv, index, final) ==
    f.key = k /\ f.iv = iv /\ f.index = index /\ f.final = final

Least(S) == CHOOSE x \in S : \A y \in S : x <= y

\* The first m frames open in order, each under its own index, the last of the object as
\* the last.
FramesOpen(frames, m, k, iv, first, fin) ==
    \A i \in 1..m : decrypt_chunk(frames[i], k, iv, first + i - 1, first + i - 1 = fin)

\* skip bytes are dropped from the head, and at most take go out.
Trimmed(text, skip, take) ==
    SubSeq(text, skip + 1, IF Len(text) < skip + take THEN Len(text) ELSE skip + take)

decrypt_stream_from_state(frames, k, iv, first, fin, skip, take) ==
    LET Text(m) == FlattenSeq([i \in 1..m |-> frames[i].text])
        stops == {m \in 1..Len(frames) : first + m - 1 = fin \/ Len(Text(m)) >= skip + take}
        m == Least(stops)
    IN IF stops # {} /\ FramesOpen(frames, m, k, iv, first, fin)
       THEN Trimmed(Text(m), skip, take)
       ELSE Error

\* get_passthrough_stream, once metadata and body have been read: frames, one blob, or the
\* bytes as they are, unless they begin like a framed object (sniff_dge1_magic).
get_passthrough_stream(c, mark, kid, size, body) ==
    LET k == pick_decrypt_key(c, kid) IN
    IF mark = None THEN IF body.form = "chunked" THEN Error
                        ELSE IF body.form = "single" THEN Ciphertext ELSE body.text
    ELSE IF k = None THEN Error
    ELSE IF mark = "single" THEN decrypt(k, body)
    ELSE IF body.form # "chunked" THEN Error
    ELSE decrypt_stream_from_state(body.text, k, body.v, 0,
                                   final_chunk_index_for_plaintext_size(size), 0, 1000)

\* get_delta reads the bytes before the metadata and decrypts the whole blob.
decrypt_if_needed(c, mark, kid, body) ==
    IF mark = None THEN IF body.form = "plain" THEN body.text ELSE Ciphertext
    ELSE IF pick_decrypt_key(c, kid) = None THEN Error
    ELSE decrypt(pick_decrypt_key(c, kid), body)

\* The wire range the second fetch of a range read asks for: whole frames, the last ones
\* to the end of the object.
RangeFrames(text, first, last, fin) ==
    IF Len(text) <= first THEN <<>>
    ELSE SubSeq(text, first + 1, IF last < fin /\ last + 1 <= Len(text) THEN last + 1 ELSE Len(text))

\* A range of an object that is not framed: slices of the plaintext, or of the bytes.
SliceRange(text, s, e) ==
    IF text \in {Error, Ciphertext} THEN text
    ELSE IF s > Len(text) THEN Panic
    ELSE SubSeq(text, s + 1, IF e + 1 < Len(text) THEN e + 1 ELSE Len(text))

-----------------------------------------------------------------------------
\* A PUT: the engine is fixed when it begins, the object appears when the inner backend
\* has it.
Put(w) ==
    /\ writer[w] = None /\ remark = None /\ writes < MaxWrites
    /\ writes' = writes + 1
    /\ \E size \in Sizes, api \in IF isDelta THEN {"single"} ELSE {"single", "chunked"} :
          writer' = [writer EXCEPT ![w] =
              IF api = "single" THEN encrypt_if_enabled(conf, writes + 1, size)
              ELSE put_passthrough_chunked(conf, writes + 1, size)]
    /\ UNCHANGED <<isDelta, obj, conf, clean, remark, reader, swaps, reads>>

\* The GETs under way have seen another object, or another form of it.
Disturb == [r \in Readers |-> IF reader[r] = None \/ reader[r].pc = "done" THEN reader[r]
                              ELSE [reader[r] EXCEPT !.of.same = FALSE]]

Land(w) ==
    /\ writer[w] # None /\ reader' = Disturb
    /\ obj' = writer[w] /\ writer' = [writer EXCEPT ![w] = None]
    /\ UNCHANGED <<isDelta, conf, clean, remark, writes, swaps, reads>>

\* A metadata rewrite by its one caller, the backfill job, whose write gate has drained its
\* node's PUTs and refuses new ones: the markers of the raw object are read and put into the
\* metadata that are written then.  When that read fails the caller's copy counts, which is
\* of the same object, read under the same gate.
ReadMarkers ==
    /\ obj # None /\ remark = None /\ \A w \in Writers : writer[w] = None
    /\ remark' = [mark |-> obj.mark, kid |-> obj.kid]
    /\ UNCHANGED <<isDelta, obj, conf, clean, writer, reader, writes, swaps, reads>>

put_passthrough_metadata ==
    /\ remark # None
    /\ obj' = [obj EXCEPT !.mark = remark.mark, !.kid = remark.kid]
    /\ remark' = None
    /\ UNCHANGED <<isDelta, conf, clean, writer, reader, writes, swaps, reads>>

-----------------------------------------------------------------------------
\* The operator, as the how-to on key rotation says: the key in use moves to the legacy
\* slot, which must be free; it is cleared once a re-encrypt job has rewritten the rest.
Rotate ==
    /\ swaps < MaxSwaps /\ conf.lkey = None
    /\ \E mode \in Modes, k \in Keys, pinned \in BOOLEAN, how \in LegacyIds :
          /\ conf' = Wrapper(mode, k, pinned, conf.key,
                             IF conf.key = None THEN None ELSE LegacyId(how, conf))
          /\ conf' # conf /\ (conf'.kid = conf.kid => conf'.key = conf.key)
          /\ ~(mode = "aes" /\ k = conf.key)
    /\ clean' = FALSE /\ swaps' = swaps + 1
    /\ UNCHANGED <<isDelta, obj, writer, remark, reader, writes, reads>>

\* A re-encrypt job: the write gate has drained the PUTs before it rewrites the object.
Reencrypt ==
    /\ remark = None /\ \A w \in Writers : writer[w] = None
    /\ conf.lkey # None /\ ~clean
    /\ clean' = TRUE /\ reader' = Disturb
    /\ obj' = IF obj = None \/ obj.kid = conf.kid THEN obj
              ELSE encrypt_if_enabled(conf, obj.body.v, obj.size)
    /\ UNCHANGED <<isDelta, conf, writer, remark, writes, swaps, reads>>

ClearShim ==
    /\ clean /\ conf.lkey # None
    /\ conf' = [conf EXCEPT !.lkey = None, !.lkid = None]
    /\ UNCHANGED <<isDelta, obj, clean, writer, remark, reader, writes, swaps, reads>>

-----------------------------------------------------------------------------
\* A GET, of the whole object, of a range the handler resolved against the object's size,
\* or of a delta.
Get(r) ==
    /\ reader[r] = None /\ obj # None /\ reads < MaxReads
    /\ reads' = reads + 1
    /\ \E kind \in IF isDelta THEN {"delta"} ELSE {"full", "range"}, s \in 0..5, e \in 0..5 :
          /\ IF kind = "range" THEN s <= e /\ e < obj.size ELSE s = 0 /\ e = 0
          /\ reader' = [reader EXCEPT ![r] =
                [pc |-> IF kind = "delta" THEN "body" ELSE "meta", kind |-> kind, s |-> s, e |-> e,
                 conf |-> conf, of |-> [v |-> obj.body.v, size |-> obj.size, same |-> TRUE], mark |-> None, kid |-> None, size |-> 0,
                 body |-> None, out |-> None]]
    /\ UNCHANGED <<isDelta, obj, conf, clean, writer, remark, writes, swaps>>

Become(r, rec) ==
    /\ reader' = [reader EXCEPT ![r] = rec]
    /\ UNCHANGED <<isDelta, obj, conf, clean, writer, remark, writes, swaps, reads>>

Answer(rec, out) == [rec EXCEPT !.pc = "done", !.out = out, !.body = None]

ReadMeta(r) ==
    /\ reader[r] # None /\ reader[r].pc = "meta"
    /\ \E m \in {[reader[r] EXCEPT !.mark = obj.mark, !.kid = obj.kid, !.size = obj.size]} :
          Become(r, IF m.kind = "delta"
                    THEN Answer(m, decrypt_if_needed(m.conf, m.mark, m.kid, m.body))
                    ELSE [m EXCEPT !.pc = IF m.kind = "range" /\ m.mark = "chunked"
                                          THEN "header" ELSE "body"])

ReadBody(r) ==
    /\ reader[r] # None /\ reader[r].pc = "body"
    /\ \E q \in {reader[r]}, b \in {obj.body} :
          CASE q.kind = "delta" -> Become(r, [q EXCEPT !.body = b, !.pc = "meta"])
            [] q.kind = "full" ->
                 Become(r, Answer(q, get_passthrough_stream(q.conf, q.mark, q.kid, q.size, b)))
            [] q.kind = "range" ->
                 Become(r, Answer(q, IF q.mark = None
                     THEN IF b.form = "plain" THEN SliceRange(b.text, q.s, q.e) ELSE Ciphertext
                     ELSE SliceRange(decrypt_if_needed(q.conf, q.mark, q.kid, b), q.s, q.e)))

\* get_passthrough_stream_range on a framed object: the key, the clamped range and the
\* frames it needs; the header first, the frames in a fetch of their own.
fetch_chunked_header(r) ==
    /\ reader[r] # None /\ reader[r].pc = "header"
    /\ \E q \in {reader[r]} :
          IF pick_decrypt_key(q.conf, q.kid) = None \/ q.size <= q.s \/ obj.body.form # "chunked"
          THEN Become(r, Answer(q, Error))
          ELSE Become(r, [q EXCEPT !.pc = "frames", !.body = obj.body.v])

get_passthrough_stream_range(r) ==
    /\ reader[r] # None /\ reader[r].pc = "frames"
    /\ \E q \in {reader[r]}, e \in {IF reader[r].e < reader[r].size THEN reader[r].e
                                    ELSE reader[r].size - 1},
          fin \in {final_chunk_index_for_plaintext_size(reader[r].size)} :
          Become(r, Answer(q,
             IF obj.body.form # "chunked" THEN Error
             ELSE decrypt_stream_from_state(RangeFrames(obj.body.text, q.s \div W, e \div W, fin),
                      pick_decrypt_key(q.conf, q.kid), q.body, q.s \div W, fin,
                      q.s - (q.s \div W) * W, e - q.s + 1)))

Forget(r) ==
    /\ reader[r] # None /\ reader[r].pc = "done"
    /\ Become(r, None)

Init == /\ isDelta \in BOOLEAN /\ obj = None /\ clean = FALSE
        /\ \E mode \in Modes, k \in Keys, pinned \in BOOLEAN :
              conf = Wrapper(mode, k, pinned, None, None)
        /\ writer = [w \in Writers |-> None] /\ reader = [r \in Readers |-> None]
        /\ remark = None
        /\ writes = 0 /\ swaps = 0 /\ reads = 0

Next == \/ \E w \in Writers : Put(w) \/ Land(w)
        \/ \E r \in Readers : \/ Get(r) \/ ReadMeta(r) \/ ReadBody(r) \/ Forget(r)
                              \/ fetch_chunked_header(r) \/ get_passthrough_stream_range(r)
        \/ ReadMarkers \/ put_passthrough_metadata \/ Rotate \/ Reencrypt \/ ClearShim

Spec == Init /\ [][Next]_vars

-----------------------------------------------------------------------------
\* A GET answers with exactly the bytes asked for, of one version of the object, or fails;
\* and it does not fail while the object stays as it was when the GET began.
Exact(q, v, size) == IF q.kind = "range" THEN Bytes(v, q.s, IF q.e < size THEN q.e - q.s + 1 ELSE size - q.s)
                     ELSE Bytes(v, 0, size)
ReadExact ==
    \A r \in Readers : reader[r] # None /\ reader[r].pc = "done" =>
       \E q \in {reader[r]} :
          /\ q.out \in {Error, Panic} \/ \E v \in 1..writes, size \in Sizes : q.out = Exact(q, v, size)
          /\ q.of.same => q.out = Exact(q, q.of.v, q.of.size)

\* An operator who follows the how-to can read, with the current configuration, every
\* object that was stored with an earlier one, by requests that were still running too.
Readable ==
    \A o \in {obj} \cup {writer[w] : w \in Writers} :
       o # None /\ o.mark # None => pick_decrypt_key(conf, o.kid) = o.body.key

\* The bytes a client is sent are never ciphertext: an object read while it is overwritten,
\* or while a re-encrypt job rewrites it, is served as it was or as it is now.
NeverCiphertext ==
    \A r \in Readers : reader[r] # None /\ reader[r].kind # "delta" => reader[r].out # Ciphertext

\* A range read never runs off the end of the object (plain[s..e] would panic).
NoPanic == \A r \in Readers : reader[r] # None => reader[r].out # Panic
=============================================================================

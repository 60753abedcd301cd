-------------------------------- MODULE Gzip --------------------------------
(***************************************************************************)
(* as_gzip.cpp: gzdecode, which inflates a raw deflate stream into buffers *)
(* of growing size, with the part of AS_OBJECT that calls it, and          *)
(* compress_gzip.  zlib and the allocator are external: what they return   *)
(* is a choice, and either may run out of memory.                          *)
(*                                                                         *)
(* A byte string to inflate is its length, how it reads as a deflate       *)
(* stream, and the size of what comes out before it ends.                  *)
(***************************************************************************)
EXTENDS Integers, Sequences

CONSTANTS
    Lens,      \* the lengths of the byte strings to inflate
    Sizes,     \* the sizes of what they inflate to
    UInt,      \* the number of values of zlib's uInt, 2^32
    Block,     \* sizeof(outbuffer), 32768
    MaxStream  \* bound: the size of a compressed stream

ASSUME SourcesAssumption == Lens \subseteq Nat \ {0} /\ Sizes \subseteq Nat
ASSUME WidthAssumption   == UInt \in Nat \ {0} /\ Block \in Nat \ {0}
ASSUME StreamAssumption  == MaxStream \in Nat

VARIABLES
    stage,   \* where the functions are
    src,     \* data and len of gzdecode
    factor,  \* how often a buffer was doubled
    s1, s2,  \* the buffers, 0 for NULL
    avail,   \* stream.avail_out
    opened,  \* the inflate states that zlib has allocated
    len,     \* the length that gzdecode returns
    blocks,  \* the size of every block that realloc has returned
    heap,    \* the blocks that are allocated
    oom,     \* history: an allocation has failed
    result,  \* what AS_OBJECT makes of it: the text inflated, the bytes as
             \* they were, or nothing
    stream,  \* what deflate makes of the argument of compress_gzip
    total,   \* zs.total_out
    outbuffer, outstring

inflating  == <<src, factor, s1, s2, avail, opened, len, blocks, heap, result>>
deflating  == <<stream, total, outbuffer, outstring>>
gzipVars   == <<stage, inflating, oom, deflating>>

\* zlib: a stream inflates to at most 1032 times its length.
Ratio == 1032

Sources ==
    {s \in [len : Lens, kind : {"whole", "cut", "corrupt"}, size : Sizes] :
        s.size <= Ratio * s.len}

GzipInit ==
    /\ stage = "idle" /\ src = [len |-> 0, kind |-> "cut", size |-> 0]
    /\ factor = 4 /\ s1 = 0 /\ s2 = 0 /\ avail = 0 /\ opened = 0 /\ len = 0
    /\ blocks = << >> /\ heap = {} /\ oom = FALSE /\ result = "unset"
    /\ stream = << >> /\ total = 0
    /\ outbuffer = [i \in 1 .. Block |-> 0] /\ outstring = << >>

-----------------------------------------------------------------------------
(* gzdecode *)

Gunzip ==
    /\ stage = "idle" /\ stage' = "grow"
    /\ src' \in Sources
    /\ UNCHANGED <<factor, s1, s2, avail, opened, len, blocks, heap, result,
                   oom, deflating>>

\* realloc: a block of that size in place of b.
Realloc(b, size) ==
    /\ blocks' = Append(blocks, size)
    /\ heap' = (heap \ {b}) \cup {Len(blocks) + 1}
    /\ s2' = Len(blocks) + 1

\* Variant: the last buffer is forgotten when no larger one can be had.
Forgotten(b) == heap
\* if (s1) free(s1)
Freed(b) == heap \ {b}

Length == src.len * 2^factor

Grow ==
    /\ stage = "grow" /\ factor' = factor + 1
    /\ \/ /\ Realloc(s1, Length) /\ s1' = s2'
          /\ avail' = Length % UInt
          /\ stage' = "open" /\ UNCHANGED oom
       \/ /\ heap' = Freed(s1) /\ s1' = 0 /\ s2' = 0
          /\ stage' = "read" /\ oom' = TRUE /\ UNCHANGED <<blocks, avail>>
    /\ UNCHANGED <<src, opened, len, result, deflating>>

\* while (status == Z_BUF_ERROR && ...); any other error frees the buffer.
Tested(status) ==
    \/ /\ status = "buf" /\ factor < 16
       /\ stage' = "grow" /\ UNCHANGED <<s2, heap>>
    \/ /\ status = "ok"
       /\ stage' = "shrink" /\ UNCHANGED <<s2, heap>>
    \/ /\ status # "ok" /\ (status = "buf" => factor >= 16)
       /\ stage' = "read" /\ s2' = 0 /\ heap' = heap \ {s2}

Open ==
    /\ stage = "open"
    /\ \/ stage' = "inflate" /\ opened' = opened + 1 /\ UNCHANGED <<s2, heap, oom>>
       \/ oom' = TRUE /\ Tested("mem") /\ UNCHANGED opened
    /\ UNCHANGED <<src, factor, s1, avail, len, blocks, result, deflating>>

\* What inflate(&stream, Z_FINISH) returns when memory suffices.
Inflated == CASE src.size > avail \/ src.kind = "cut"          -> "buf"
              [] src.size <= avail /\ src.kind = "corrupt"    -> "data"
              [] OTHER                                        -> "end"

\* Variant: bad data is tried again.
AnyError(status) == IF status = "end" THEN "ok" ELSE "buf"
\* status = inflateEnd(&stream) after Z_STREAM_END
Ended(status) == IF status = "end" THEN "ok" ELSE status

Inflate ==
    /\ stage = "inflate"
    /\ opened' = opened - 1
    /\ \/ Tested(Ended(Inflated)) /\ UNCHANGED oom
       \/ Tested("mem") /\ oom' = TRUE
    /\ UNCHANGED <<src, factor, s1, avail, len, blocks, result, deflating>>

\* total_out, which avail_out bounds, as an int.
AsInt(n) == IF n >= UInt \div 2 THEN n - UInt ELSE n

\* Variant: no room for the terminator.
NoTerminator(n) == n
\* realloc(s2, len + 1)
WithTerminator(n) == n + 1

\* What realloc returned is not tested before the terminator is written.
Shrink ==
    /\ stage = "shrink" /\ len' = AsInt(src.size)
    /\ \/ /\ len' >= 0
          /\ Realloc(s2, WithTerminator(len'))
          /\ stage' = "read" /\ UNCHANGED oom
       \/ stage' = "crashed" /\ oom' = TRUE /\ UNCHANGED <<s2, blocks, heap>>
    /\ UNCHANGED <<src, factor, s1, avail, opened, result, deflating>>

\* AS_OBJECT: sResult = gzencode or base64dec, free(gzencode).
Read ==
    /\ stage = "read" /\ stage' = "done"
    /\ \/ /\ result' = IF s2 = 0 THEN "plain" ELSE "inflated"
          /\ heap' = heap \ {s2} /\ UNCHANGED oom
       \* The copy has thrown: the rest of the block is skipped.
       \/ result' = "nothing" /\ oom' = TRUE /\ UNCHANGED heap
    /\ UNCHANGED <<src, factor, s1, s2, avail, opened, len, blocks, deflating>>

-----------------------------------------------------------------------------
(* compress_gzip *)

Compress ==
    /\ stage = "idle"
    /\ \/ stage' = "deflate" /\ \E n \in 1 .. MaxStream : stream' = [i \in 1 .. n |-> i]
       \* deflateInit2 fails: return ""
       \/ stage' = "failed" /\ UNCHANGED stream
    /\ UNCHANGED <<inflating, oom, total, outbuffer, outstring>>

\* Variant: a block is always full.
WholeBlock(n) == Block
\* zs.total_out - outstring.size()
NewBytes(n) == n - Len(outstring)

Deflate ==
    LET n == IF Len(stream) - total > Block THEN Block ELSE Len(stream) - total
    IN  /\ stage = "deflate"
        /\ total' = total + n
        /\ outbuffer' = [i \in 1 .. Block |-> IF i <= n THEN stream[total + i]
                                              ELSE outbuffer[i]]
        /\ outstring' = IF Len(outstring) < total'
                        THEN outstring \o SubSeq(outbuffer', 1, NewBytes(total'))
                        ELSE outstring
        /\ stage' = IF total' < Len(stream) THEN "deflate" ELSE "compressed"
        /\ UNCHANGED <<inflating, oom, stream>>

GzipNext == Gunzip \/ Grow \/ Open \/ Inflate \/ Shrink \/ Read \/ Compress \/ Deflate

GzipSpec == GzipInit /\ [][GzipNext]_gzipVars

-----------------------------------------------------------------------------
(* Properties *)

\* Some buffer among the first that the loop tries holds the whole output.
Held(n) == \E f \in 4 .. n : src.size <= (src.len * 2^f) % UInt

\* Unless memory runs out, AS_OBJECT gets the text of exactly the streams that
\* are whole, whose text a buffer of the loop holds and whose size is an int.
\* The buffer is doubled only for want of room: bytes that are not a deflate
\* stream cost one buffer, except for those that end too early
\* (as_gzip.cpp:35-75, as_object.hpp:202-214).
WholeIsRead ==
    /\ stage = "done" /\ ~oom =>
           (result = "inflated" <=> src.kind = "whole" /\ Held(15)
                                    /\ src.size < UInt \div 2)
    /\ stage = "open" /\ factor > 5 => src.kind = "cut" \/ ~Held(factor - 2)

\* inflate is never given more room than the block has, and neither the text
\* nor its terminator is outside of the block that AS_OBJECT reads
\* (as_gzip.cpp:42-50, 68-73, as_object.hpp:204).
InBlock ==
    /\ stage \in {"open", "inflate"} => s2 \in heap /\ avail <= blocks[s2]
    /\ stage = "read" /\ s2 # 0 => s2 \in heap /\ 0 <= len /\ len < blocks[s2]

\* Whatever fails on the way, every buffer and every state of zlib is released,
\* unless it is the copy of the text that fails
\* (as_gzip.cpp:43-46, 56-63, 77, as_object.hpp:206-211).
AllReleased ==
    stage = "done" /\ result # "nothing" => heap = {} /\ opened = 0

\* compress_gzip returns the blocks of the whole stream in their order
\* (as_gzip.cpp:98-119).
WholeStream == stage = "compressed" => outstring = stream
=============================================================================

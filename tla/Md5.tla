-------------------------------- MODULE Md5 ---------------------------------
(***************************************************************************)
(* The MD5 stream (src/src/myfcp/genmd5.c) and its two users in            *)
(* genstring.c, gen_string_md5 and gen_file_md5.  A context counts the     *)
(* bits it was given in two words that wrap, keeps the bytes of an         *)
(* unfinished block in a buffer whose older bytes stay behind, and         *)
(* compresses a block whenever it is full.  Bytes are named by the message *)
(* they belong to and their place in it, so nothing but lengths is         *)
(* enumerated; the compression function is free, see Hash.                 *)
(***************************************************************************)
EXTENDS Naturals, Sequences

CONSTANTS
  B,          \* bytes of a block: 64
  L,          \* bytes of the encoded bit count: 8
  W,          \* bits of an unsigned int: 32
  ReadSize,   \* bytes asked of one read() by gen_file_md5: 256
  MaxChunk,   \* bound: bytes given to one md5_update
  MaxLen,     \* bound: bytes of one message
  Messages    \* bound: messages hashed one after the other with one context

ASSUME SizesAssumption ==
  /\ {B, L, W, ReadSize, MaxChunk, MaxLen, Messages} \subseteq Nat
  /\ L < B
  /\ L % 2 = 0
  /\ L > 0
  /\ W > 3
  /\ 2^(W - 3) % B = 0
  /\ ReadSize + B < 2^W

VARIABLES
  ctx,      \* struct md5_ctx: count, state, buffer
  msg,      \* which message the context is hashing
  fed,      \* bytes of it given so far
  phase,    \* "idle", "open", "reading" (inside gen_file_md5), "done", or
            \* "filed" when the digest is the one of a file
  digest,   \* the digest written last
  file      \* gen_file_md5: size of the file, and whether a read was short

vars == <<ctx, msg, fed, phase, digest, file>>

-----------------------------------------------------------------------------
(* The bytes of a message, the padding, and the two unsigned int words.    *)

Message(m, n) == [i \in 1 .. n |-> <<"byte", m, i>>]
PADDING ==
  [i \in 1 .. B |-> IF i = 1 THEN <<"mark", 0, 0>> ELSE <<"zero", 0, 0>>]
NoFile == [size |-> 0, short |-> FALSE]

md5_encode(words) ==
  [j \in 1 .. L |->
     <<"bits", 0, (words[1 + (j - 1) \div (L \div 2)]
                  \div 256^((j - 1) % (L \div 2))) % 256>>]

md5_transform(state, blocks) == state \o blocks

Cleared(c) == [c EXCEPT !.count = <<0, 0>>, !.state = <<>>]

Index(c) == (c.count[1] \div 8) % B

(* Mutant: the carry into the upper word is left out.                      *)
CarryDropped(low, shifted) == 0

Carry(low, shifted) == IF low < shifted THEN 1 ELSE 0

(* Mutant: a message that ends where the length field begins gets no mark. *)
PadLenOffByOne(index) ==
  IF index <= B - L THEN B - L - index ELSE 2 * B - L - index

PadLen(index) ==
  IF index < B - L THEN B - L - index ELSE 2 * B - L - index

(* Mutant: a full read is taken for the last one.                          *)
LastReadOffByOne(n) == n <= ReadSize

LastRead(n) == n = 0 \/ n < ReadSize

(* md5_update.  "filled" is the buffer after the first memcpy, "from" the  *)
(* byte of the input the last memcpy starts at, "at" where it writes.      *)
Updated(c, input) ==
  LET n == Len(input)
      index == Index(c)
      partlen == B - index
      shifted == (8 * n) % 2^W
      low == (c.count[1] + shifted) % 2^W
      full == n >= partlen
      filled == IF full
                THEN SubSeq(c.buffer, 1, index) \o SubSeq(input, 1, partlen)
                ELSE c.buffer
      direct == IF full THEN (n - partlen) \div B ELSE 0
      from == IF full THEN partlen + B * direct ELSE 0
      at == IF full THEN 0 ELSE index
      blocks == IF full
                THEN <<filled>> \o
                     [k \in 1 .. direct |->
                        SubSeq(input, partlen + B * (k - 1) + 1, partlen + B * k)]
                ELSE <<>>
  IN [count |-> <<low, (c.count[2] + Carry(low, shifted) + n \div 2^(W - 3)) % 2^W>>,
      state |-> md5_transform(c.state, blocks),
      buffer |-> [k \in 1 .. B |->
                    IF k \in at + 1 .. at + n - from
                    THEN input[from + k - at] ELSE filled[k]]]

(* md5_final: the count is encoded before the padding is counted too.      *)
Finalised(c) ==
  Updated(Updated(c, SubSeq(PADDING, 1, PadLen(Index(c)))), md5_encode(c.count))

-----------------------------------------------------------------------------
Init ==
  /\ ctx = [count |-> <<2^W - 1, 2^W - 1>>, state |-> <<>>,
            buffer |-> [i \in 1 .. B |-> <<"junk", 0, i>>]]
  /\ msg = 0
  /\ fed = 0
  /\ phase = "idle"
  /\ digest = <<>>
  /\ file = NoFile

NextMessage ==
  /\ phase \in {"idle", "done", "filed"}
  /\ msg < Messages
  /\ msg' = msg + 1

md5_init ==
  /\ NextMessage
  /\ ctx' = Cleared(ctx)
  /\ fed' = 0
  /\ phase' = "open"
  /\ file' = NoFile
  /\ UNCHANGED digest

(* The context after the next n bytes of the message.                      *)
Fed(n) == Updated(ctx, SubSeq(Message(msg, fed + n), fed + 1, fed + n))

md5_update(n) ==
  /\ phase = "open"
  /\ fed + n <= MaxLen
  /\ fed' = fed + n
  /\ ctx' = Fed(n)
  /\ UNCHANGED <<msg, phase, digest, file>>

md5_final ==
  /\ phase = "open"
  /\ ctx' = Finalised(ctx)
  /\ digest' = ctx'.state
  /\ phase' = "done"
  /\ UNCHANGED <<msg, fed, file>>

(* gen_string_md5 has a context of its own on its stack: init, one update, *)
(* final.                                                                  *)
gen_string_md5(n) ==
  /\ NextMessage
  /\ ctx' = Finalised(Updated(Cleared(ctx), Message(msg', n)))
  /\ digest' = ctx'.state
  /\ fed' = n
  /\ phase' = "done"
  /\ file' = NoFile

(* gen_file_md5: open() gave a descriptor for a file of n bytes.           *)
FileOpened(n) ==
  /\ NextMessage
  /\ ctx' = Cleared(ctx)
  /\ fed' = 0
  /\ phase' = "reading"
  /\ file' = [size |-> n, short |-> FALSE]
  /\ UNCHANGED digest

(* One turn of the loop in which read() gave n bytes.  A regular file      *)
(* gives all that was asked or all that is left; a pipe, or a file of      *)
(* /proc, may give less.  Less than was asked ends the loop in any case.   *)
FileRead(n) ==
  /\ phase = "reading"
  /\ n <= file.size - fed
  /\ n = 0 => fed = file.size
  /\ fed' = fed + n
  /\ file' = [file EXCEPT !.short = n < ReadSize /\ fed' < file.size]
  /\ IF LastRead(n)
     THEN /\ ctx' = Finalised(Fed(n))
          /\ digest' = ctx'.state
          /\ phase' = "filed"
     ELSE /\ ctx' = Fed(n)
          /\ UNCHANGED <<digest, phase>>
  /\ UNCHANGED msg

(* read() failed: the file is closed and no digest is written.             *)
FileError ==
  /\ phase = "reading"
  /\ phase' = "idle"
  /\ UNCHANGED <<ctx, msg, fed, digest, file>>

(* The loop of md5_update adds a block to its index before it compares,    *)
(* in an unsigned int: for an input that ends less than a block below 2^W  *)
(* the sum wraps and the loop has no end.  Inputs that long, close to      *)
(* 4 GiB in one call, are not given.                                       *)
Inputs == {n \in 0 .. MaxLen : n + B < 2^W}

Next ==
  \/ md5_init
  \/ \E n \in Inputs : n <= MaxChunk /\ md5_update(n)
  \/ md5_final
  \/ \E n \in Inputs : gen_string_md5(n)
  \/ \E n \in 0 .. MaxLen : FileOpened(n)
  \/ \E n \in 0 .. ReadSize : FileRead(n)
  \/ FileError

Spec == Init /\ [][Next]_vars

-----------------------------------------------------------------------------
H == INSTANCE Hash WITH
       message <- Message(msg, fed),
       phase <- CASE phase = "reading" -> "open"
                  [] phase = "filed" -> "done"
                  [] OTHER -> phase

(* Whatever the pieces, the digest is the one of the padded message        *)
(* (genmd5.c:183-226).                                                     *)
ImplementsHash == H!Spec

(* Between two calls the context stands for exactly the bytes given so     *)
(* far: the whole blocks are compressed in order, the rest is at the start *)
(* of the buffer, and the two words are the bit count even after the lower *)
(* one wrapped (genmd5.c:189-211).                                         *)
ContextHoldsMessage ==
  phase \in {"open", "reading"} =>
    LET m == Message(msg, fed)
        rest == fed % B
    IN /\ ctx.state = H!Blocks(m)
       /\ SubSeq(ctx.buffer, 1, rest) = SubSeq(m, fed - rest + 1, fed)
       /\ ctx.count[1] + 2^W * ctx.count[2] = (8 * fed) % 2^(2 * W)

(* gen_file_md5 answers with the digest of the whole file, whatever its    *)
(* size is to the 256 bytes of a read, unless a read gave less than was    *)
(* asked before the end of the file (genstring.c:312-327).                 *)
WholeFileDigested ==
  phase = "filed" =>
    \/ digest = H!Blocks(H!Padded(Message(msg, file.size)))
    \/ file.short
=============================================================================

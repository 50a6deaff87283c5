-------------------------------- MODULE Hash --------------------------------
(***************************************************************************)
(* What the MD5 stream of genmd5.c promises, without a context: the digest *)
(* of a message is the compression of its padded blocks, whatever pieces   *)
(* the message arrived in.  The compression function is left free, so a    *)
(* digest is named by the sequence of blocks that were compressed; two     *)
(* digests are equal exactly when those sequences are.                     *)
(***************************************************************************)
EXTENDS Naturals, Sequences

CONSTANTS
  B,   \* bytes of a block                               (64 in the code)
  L,   \* bytes of the length field that ends a message  (8)
  W    \* bits of one of the two words of that field     (32)

VARIABLES
  message,   \* the bytes absorbed so far
  phase,     \* "idle", "open" while bytes may still come, "done"
  digest     \* the blocks of the digest returned last

vars == <<message, phase, digest>>

Mark == <<"mark", 0, 0>>  \* the byte 0x80 that ends a message
Zero == <<"zero", 0, 0>>

Blocks(s) == [k \in 1 .. (Len(s) \div B) |-> SubSeq(s, B * (k - 1) + 1, B * k)]

(* The bit length of an n byte message as L bytes, low word first.         *)
LengthField(n) ==
  LET bits == (8 * n) % 2^(2 * W)
      word(j) == IF j < L \div 2 THEN bits % 2^W ELSE bits \div 2^W
  IN [j \in 1 .. L |->
        <<"bits", 0, (word(j - 1) \div 256^((j - 1) % (L \div 2))) % 256>>]

Padded(m) ==
  LET zeros == (B - ((Len(m) + 1 + L) % B)) % B
  IN m \o <<Mark>> \o [i \in 1 .. zeros |-> Zero] \o LengthField(Len(m))

Init ==
  /\ message = <<>>
  /\ phase = "idle"
  /\ digest = <<>>

Begin ==
  /\ message' = <<>>
  /\ phase' = "open"
  /\ UNCHANGED digest

(* Bytes are only ever added at the end.                                   *)
Absorb ==
  /\ phase = "open"
  /\ Len(message') >= Len(message)
  /\ SubSeq(message', 1, Len(message)) = message
  /\ UNCHANGED <<phase, digest>>

Finish ==
  /\ phase = "open"
  /\ phase' = "done"
  /\ digest' = Blocks(Padded(message))
  /\ UNCHANGED message

Whole ==
  /\ phase' = "done"
  /\ digest' = Blocks(Padded(message'))

Abandon ==
  /\ phase = "open"
  /\ phase' = "idle"
  /\ UNCHANGED <<message, digest>>

Next == Begin \/ Absorb \/ Finish \/ Whole \/ Abandon

Spec == Init /\ [][Next]_vars
=============================================================================

----------------------------- MODULE Md5Stream -----------------------------
(***************************************************************************)
(* What the client feeds to the transformation of MD5 when it computes the *)
(* name of a content: the bytes of a file, read piece by piece and cut     *)
(* into blocks through a buffer, and the padding with the length.  The     *)
(* same file must give the same blocks on every client, or it is stored    *)
(* twice, and another file other blocks.                                   *)
(*                                                                         *)
(*   client/src/md5.c    Compute_file_md5, MD5Init, MD5Update, MD5Final    *)
(*                                                                         *)
(* The transformation is left out: the state of MD5 is the sequence of the *)
(* bytes it has been given.  The length is two words; here a word is       *)
(* encoded as one byte, not four.                                          *)
(***************************************************************************)
EXTENDS Integers, Sequences

CONSTANTS
    Block,      \* 64: the bytes of a block
    Bits,       \* 8: the bits of a byte
    Word,       \* 2^32: the values of an unsigned int
    Piece,      \* READ_DATA_SIZE
    MaxSize,    \* bound: the bytes of a file
    ShortReads  \* whether read may return less than there is

ASSUME SizesAssumption ==
    /\ {Bits, Word, Piece} \subseteq Nat \ {0} /\ Block \in Nat /\ Block > 2
    /\ MaxSize \in Nat /\ ShortReads \in BOOLEAN
    /\ Word % (Bits * Block) = 0 /\ Bits * Piece < Word * Word

VARIABLES
    size,       \* the bytes of the file
    pos,        \* the bytes read
    ctx,        \* MD5_CTX: count[0], count[1], the buffer, and what has been transformed
    pc

vars == <<size, pos, ctx, pc>>

Byte(i)   == <<"byte", i>>
Bytes(i, j) == [k \in 1..(j - i + 1) |-> Byte(i + k - 1)]
Length(c) == <<"length", c>>
Zero      == <<"padding", 0>>

\* PADDING: one bit, and zeros.
Padding(n) == [k \in 1..n |-> IF k = 1 THEN <<"padding", 1>> ELSE Zero]

\* MD5Init; nothing is known of the buffer.
MD5Init == [count0 |-> 0, count1 |-> 0, buffer |-> [k \in 1..Block |-> <<"junk", 0>>],
            blocks |-> <<>>]

Init ==
    /\ size \in 0..MaxSize
    /\ pos = 0 /\ pc = "read" /\ ctx = MD5Init

-----------------------------------------------------------------------------
\* Faulty: a sum is wider than an unsigned int.
WrapNothing(n) == n

\* Unsigned arithmetic.
Wrap(n) == n % Word

\* How much of the buffer is filled.
Index(c) == (c.count0 \div Bits) % Block

\* memcpy(&buffer[at], bytes)
Copied(buffer, at, bytes) ==
    [k \in 1..Block |-> IF k - at \in DOMAIN bytes THEN bytes[k - at] ELSE buffer[k]]

\* The count of bits, in two words.
Add(c, n) ==
    LET low == Wrap(c.count0 + Wrap(n * Bits))
        carry == IF low < Wrap(n * Bits) THEN 1 ELSE 0
    IN  [c EXCEPT !.count0 = low, !.count1 = Wrap(@ + carry + (n * Bits) \div Word)]

\* Faulty: what is left goes where the input began.
MD5UpdateKeepingIndex(c, input) ==
    LET index == Index(c)
        part == Block - index
        n == Len(input)
        whole == part + Block * ((n - part) \div Block)
        rest == SubSeq(input, whole + 1, n)
    IN  IF n < part
        THEN [Add(c, n) EXCEPT !.buffer = Copied(@, index, input)]
        ELSE [Add(c, n) EXCEPT
                !.blocks = @ \o SubSeq(c.buffer, 1, index) \o SubSeq(input, 1, whole),
                !.buffer = Copied(Copied(@, index, SubSeq(input, 1, part)), index, rest)]

\* Fills the buffer, transforms it and every whole block after it, and keeps the rest.
MD5Update(c, input) ==
    LET index == Index(c)
        part == Block - index
        n == Len(input)
        whole == part + Block * ((n - part) \div Block)
        rest == SubSeq(input, whole + 1, n)
    IN  IF n < part
        THEN [Add(c, n) EXCEPT !.buffer = Copied(@, index, input)]
        ELSE [Add(c, n) EXCEPT
                !.blocks = @ \o SubSeq(c.buffer, 1, index) \o SubSeq(input, 1, whole),
                !.buffer = Copied(Copied(@, index, SubSeq(input, 1, part)), 0, rest)]

\* Faulty: a full block of padding is forgotten at the boundary.
PadLenShort(index) == IF index <= Block - 2 THEN Block - 2 - index ELSE 2 * Block - 2 - index

\* Up to the place of the length, at least one byte.
PadLen(index) == IF index < Block - 2 THEN Block - 2 - index ELSE 2 * Block - 2 - index

-----------------------------------------------------------------------------
\* One turn of Compute_file_md5: a piece that is not full is the last one.
Read ==
    /\ pc = "read"
    /\ LET there == IF size - pos < Piece THEN size - pos ELSE Piece
       IN  \E n \in {there} \cup (IF ShortReads THEN 1..there ELSE {}) :
              /\ ctx' = MD5Update(ctx, Bytes(pos + 1, pos + n))
              /\ pos' = pos + n
              /\ pc' = IF n < Piece THEN "final" ELSE "read"
    /\ UNCHANGED size

\* The length is that of the file, taken before the padding is counted.
MD5Final ==
    /\ pc = "final"
    /\ ctx' = MD5Update(MD5Update(ctx, Padding(PadLen(Index(ctx)))),
                        <<Length(ctx.count0), Length(ctx.count1)>>)
    /\ pc' = "done"
    /\ UNCHANGED <<size, pos>>

ReadError ==
    /\ pc = "read"
    /\ pc' = "failed"
    /\ UNCHANGED <<size, pos, ctx>>

Next == Read \/ MD5Final \/ ReadError

Spec == Init /\ [][Next]_vars

-----------------------------------------------------------------------------
(***************************************************************************)
(* Properties.                                                             *)
(***************************************************************************)
Units == {"byte", "length", "padding", "junk"} \X Nat

\* Every variable holds a value of its type; the counts are unsigned ints.
TypeOK ==
    /\ size \in 0..MaxSize /\ pos \in 0..size /\ pc \in {"read", "final", "done", "failed"}
    /\ ctx \in [count0 : 0..(Word - 1), count1 : 0..(Word - 1), buffer : [1..Block -> Units],
                blocks : Seq(Units)]

\* Whatever the pieces are, shorter or longer than a block or across its end: what has been
\* transformed and what waits in the buffer are the bytes read so far, each one once.
NothingLost ==
    pc \in {"read", "final"} =>
        ctx.blocks \o SubSeq(ctx.buffer, 1, Index(ctx)) = Bytes(1, pos)

\* The definition of MD5 (RFC 1321): the message, a one, the least number of zeros up to the
\* place of the length, and the length in bits modulo the square of a word.
Padded(n) ==
    LET z == CHOOSE k \in 0..(Block - 1) : (n + 1 + k + 2) % Block = 0
        length == (n * Bits) % (Word * Word)
    IN  Bytes(1, n) \o Padding(1 + z) \o <<Length(length % Word), Length(length \div Word)>>

\* When the digest is taken, exactly the padded file has been transformed, and it ends with a
\* block: also when the file fills its last block, leaves no place for the length, or
\* has more bits than one word counts.
DigestOfFile == pc = "done" => ctx.blocks = Padded(size)
=============================================================================

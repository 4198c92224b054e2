-------------------------- MODULE Md5StreamProofs --------------------------
(***************************************************************************)
(* Proofs about Md5Stream, for any size of a block, a byte, a word, a      *)
(* piece and a file: however the file is cut into pieces, MD5 is given its *)
(* bytes, each one once, and in the end the padded file.                   *)
(***************************************************************************)
EXTENDS Md5Stream, SequenceTheorems, TLAPS

-----------------------------------------------------------------------------
(***************************************************************************)
(* Division.                                                               *)
(***************************************************************************)
\* What % and \div give is the quotient and the rest.
LEMMA Division ==
    ASSUME NEW a \in Nat, NEW b \in Nat \ {0}
    PROVE  /\ a \div b \in Nat /\ a % b \in 0..(b - 1)
           /\ a = b * (a \div b) + (a % b)
OBVIOUS

\* And there is only one quotient with a rest.
LEMMA QuotientUnique ==
    ASSUME NEW a \in Nat, NEW b \in Nat \ {0}, NEW q \in Nat, NEW r \in 0..(b - 1), a = b * q + r
    PROVE  a \div b = q /\ a % b = r
<1>2. PICK p \in Nat, t \in 0..(b - 1) : p = a \div b /\ t = a % b /\ a = b * p + t
  BY Division
<1>3. b * (p - q) = r - t BY <1>2
<1>4. ~(p - q >= 1)
  <2>1. SUFFICES ASSUME p - q >= 1 PROVE FALSE OBVIOUS
  <2>2. b * (p - q) >= b BY <2>1
  <2>3. QED BY <1>3, <2>2
<1>5. ~(p - q <= -1)
  <2>1. SUFFICES ASSUME p - q <= -1 PROVE FALSE OBVIOUS
  <2>2. b * (p - q) <= -b BY <2>1
  <2>3. QED BY <1>3, <2>2
<1>6. p = q BY <1>4, <1>5
<1>7. r = t BY <1>2, <1>6
<1>8. QED BY <1>2, <1>6, <1>7

\* How the carry of a sum shows.
LEMMA SumCarries ==
    ASSUME NEW w \in Nat \ {0}, NEW a \in Nat, NEW b \in Nat
    PROVE  LET low == ((a % w) + (b % w)) % w
               carry == IF low < b % w THEN 1 ELSE 0
           IN  /\ (a + b) % w = low
               /\ (a + b) \div w = (a \div w) + (b \div w) + carry
<1> DEFINE p == a \div w
           q == b \div w
           r == a % w
           t == b % w
           low == (r + t) % w
           carry == IF low < t THEN 1 ELSE 0
<1>1. /\ p \in Nat /\ q \in Nat /\ a + b \in Nat /\ r \in 0..(w - 1) /\ t \in 0..(w - 1)
      /\ a = w * p + r /\ b = w * q + t
  BY Division
<1> HIDE DEF p, q, r, t
<1>2. CASE r + t < w
  <2>1. low = r + t
    <3>1. r + t \in 0..(w - 1) /\ r + t \in Nat /\ r + t = w * 0 + (r + t) BY <1>1, <1>2
    <3>2. QED BY <3>1, QuotientUnique
  <2>2. carry = 0 BY <1>1, <2>1
  <2>3. a + b = w * (p + q) + (r + t) BY <1>1
  <2>4. p + q \in Nat /\ r + t \in 0..(w - 1) BY <1>1, <1>2
  <2>5. (a + b) % w = r + t /\ (a + b) \div w = p + q BY ZenonT(60), <1>1, <2>3, <2>4, QuotientUnique
  <2>6. QED BY <1>1, <2>1, <2>2, <2>5 DEF p, q, r, t
<1>3. CASE r + t >= w
  <2>1. r + t - w \in 0..(w - 1) BY <1>1, <1>3
  <2>2. low = r + t - w
    <3>1. 1 \in Nat /\ r + t \in Nat /\ r + t = w * 1 + (r + t - w) BY <1>1
    <3>2. QED BY <2>1, <3>1, QuotientUnique
  <2>3. carry = 1 BY <1>1, <2>2
  <2>4. a + b = w * (p + q + 1) + (r + t - w) BY <1>1
  <2>5. p + q + 1 \in Nat BY <1>1
  <2>6. (a + b) % w = r + t - w /\ (a + b) \div w = p + q + 1
    <3> DEFINE x == a + b
               y == p + q + 1
               z == r + t - w
    <3>1. x \in Nat /\ y \in Nat /\ z \in 0..(w - 1) /\ x = w * y + z BY <1>1, <2>1, <2>4, <2>5
    <3> HIDE DEF x, y, z
    <3>2. x % w = z /\ x \div w = y BY <3>1, QuotientUnique
    <3>3. QED BY <3>2 DEF x, y, z
  <2>7. QED BY <1>1, <2>2, <2>3, <2>6 DEF p, q, r, t
<1>4. QED BY <1>1, <1>2, <1>3

\* The low word of a number does not change when it is taken twice, nor by multiples.
LEMMA RestOfSum ==
    ASSUME NEW w \in Nat \ {0}, NEW a \in Nat, NEW k \in Nat
    PROVE  (a + w * k) % w = a % w /\ (a + w * k) \div w = (a \div w) + k
<1> DEFINE p == a \div w
           r == a % w
<1>1. p \in Nat /\ r \in 0..(w - 1) /\ a = w * p + r BY Division
<1>2. a + w * k = w * (p + k) + r BY <1>1
<1>3. p + k \in Nat BY <1>1
<1>4. a + w * k \in Nat OBVIOUS
<1> HIDE DEF p, r
<1>5. (a + w * k) % w = r /\ (a + w * k) \div w = p + k
  BY <1>1, <1>2, <1>3, <1>4, QuotientUnique
<1>6. QED BY <1>5 DEF p, r

\* A number modulo the square of a word is its two lowest words.
LEMMA TwoWords ==
    ASSUME NEW w \in Nat \ {0}, NEW a \in Nat
    PROVE  /\ (a % (w * w)) % w = a % w
           /\ (a % (w * w)) \div w = (a \div w) % w
<1> DEFINE m == a % (w * w)
           k == a \div (w * w)
<1>1. w * w \in Nat \ {0} OBVIOUS
<1>2. k \in Nat /\ m \in 0..(w * w - 1) /\ a = (w * w) * k + m BY <1>1, Division
<1>3. w * k \in Nat /\ a = m + w * (w * k) BY <1>2
<1>4. m \in Nat BY <1>2
<1> HIDE DEF m, k
<1>5. a % w = m % w /\ a \div w = (m \div w) + w * k BY <1>3, <1>4, RestOfSum
<1>6. m \div w \in 0..(w - 1)
  <2>1. m \div w \in Nat /\ m % w \in 0..(w - 1) /\ m = w * (m \div w) + (m % w)
    BY <1>4, Division
  <2>2. SUFFICES ASSUME m \div w >= w PROVE FALSE BY <2>1
  <2> DEFINE q == m \div w
  <2>3. q \in Nat /\ q >= w BY <2>1, <2>2
  <2> HIDE DEF q
  <2>4. w * q >= w * w BY <2>3
  <2>5. QED BY <1>2, <2>1, <2>4 DEF q
<1>7. (w * k + (m \div w)) % w = m \div w
  <2>1. w * k + (m \div w) \in Nat BY <1>3, <1>6
  <2>2. QED BY <1>2, <1>6, <2>1, QuotientUnique
<1>8. (a \div w) % w = m \div w BY <1>2, <1>5, <1>6, <1>7
<1>9. QED BY <1>5, <1>8 DEF m

\* Since a word is a whole number of blocks of bits, the low word alone tells how much of
\* the last block there is.
LEMMA LowWordKnowsIndex ==
    ASSUME NEW n \in Nat
    PROVE  (((n * Bits) % Word) \div Bits) % Block = n % Block
<1>1. /\ Bits \in Nat \ {0} /\ Word \in Nat \ {0} /\ Block \in Nat \ {0}
      /\ Word % (Bits * Block) = 0
  BY SizesAssumption
<1>2. Bits * Block \in Nat \ {0} BY <1>1
<1>3. PICK j \in Nat : Word = (Bits * Block) * j
  BY <1>1, <1>2, Division
<1>4. PICK q \in Nat, low \in 0..(Word - 1) : low = (n * Bits) % Word /\ n * Bits = Word * q + low
  <2> DEFINE x == n * Bits
  <2>1. x \in Nat BY <1>1
  <2> HIDE DEF x
  <2>2. x \div Word \in Nat /\ x % Word \in 0..(Word - 1) /\ x = Word * (x \div Word) + (x % Word)
    BY <1>1, <2>1, Division
  <2>3. QED BY <2>2 DEF x
<1> DEFINE k == j * q
           e == n - Block * k
<1>5. k \in Nat BY <1>3, <1>4
<1>6. low = Bits * e
  <2>1. Word * q = Bits * (Block * k) BY <1>1, <1>3, <1>4
  <2>2. low = n * Bits - Bits * (Block * k) BY <1>1, <1>4, <2>1
  <2>3. QED BY <1>1, <1>5, <2>2
<1>7. e \in Nat
  <2>1. e \in Int BY <1>1, <1>5
  <2>2. SUFFICES ASSUME e <= -1 PROVE FALSE BY <2>1
  <2>3. Bits * e <= -Bits BY <1>1, <2>1, <2>2
  <2>4. QED BY <1>1, <1>4, <1>6, <2>3
<1> HIDE DEF k
<1>8. low \div Bits = e
  <2>1. low \in Nat /\ 0 \in 0..(Bits - 1) /\ low = Bits * e + 0 BY <1>1, <1>4, <1>6, <1>7
  <2>2. QED BY <1>1, <1>7, <2>1, QuotientUnique
<1>9. n = e + Block * k BY <1>1, <1>5
<1>10. (e + Block * k) % Block = e % Block BY <1>1, <1>5, <1>7, RestOfSum
<1>11. QED BY <1>4, <1>8, <1>9, <1>10

-----------------------------------------------------------------------------
(***************************************************************************)
(* The counts.                                                             *)
(***************************************************************************)
Contexts == [count0 : 0..(Word - 1), count1 : 0..(Word - 1), buffer : [1..Block -> Units],
             blocks : Seq(Units)]

\* The two words hold the bits of n bytes, modulo the square of a word.
Counted(c, n) ==
    /\ c.count0 = (n * Bits) % Word
    /\ c.count1 = ((n * Bits) \div Word) % Word

\* Only low words that are added can carry, so a word may be reduced before it is added.
LEMMA ReducedFirst ==
    ASSUME NEW w \in Nat \ {0}, NEW a \in Nat, NEW b \in Nat
    PROVE  ((a % w) + b) % w = (a + b) % w
<1> DEFINE p == a \div w
           r == a % w
<1>1. p \in Nat /\ r \in 0..(w - 1) /\ a = w * p + r BY Division
<1> HIDE DEF p, r
<1>2. r + b \in Nat /\ a + b = (r + b) + w * p BY <1>1
<1>3. ((r + b) + w * p) % w = (r + b) % w BY <1>1, <1>2, RestOfSum
<1>4. QED BY <1>2, <1>3 DEF r

LEMMA AddCounts ==
    ASSUME NEW c \in Contexts, NEW n \in Nat, NEW k \in Nat, Counted(c, n)
    PROVE  /\ Add(c, k) \in Contexts
           /\ Counted(Add(c, k), n + k)
           /\ Add(c, k).buffer = c.buffer /\ Add(c, k).blocks = c.blocks
<1>1. Bits \in Nat \ {0} /\ Word \in Nat \ {0} BY SizesAssumption
<1> DEFINE a == n * Bits
           b == k * Bits
           low == ((a % Word) + (b % Word)) % Word
           carry == IF low < b % Word THEN 1 ELSE 0
           high == (((a \div Word) % Word) + carry + (b \div Word)) % Word
<1>2. a \in Nat /\ b \in Nat /\ (n + k) * Bits = a + b BY <1>1
<1>3. Add(c, k) = [c EXCEPT !.count0 = low, !.count1 = high]
  BY DEF Add, Wrap, Counted, Contexts
<1> HIDE DEF a, b
<1>4. (a + b) % Word = low /\ (a + b) \div Word = (a \div Word) + (b \div Word) + carry
  BY <1>1, <1>2, SumCarries
<1>5. a \div Word \in Nat /\ b \div Word \in Nat /\ carry \in Nat
  <2>1. a \div Word \in Nat /\ b \div Word \in Nat BY <1>1, <1>2, Division
  <2> HIDE DEF low
  <2>2. QED BY <2>1
<1>6. high = ((a + b) \div Word) % Word
  <2> DEFINE x == a \div Word
             y == carry + (b \div Word)
  <2>1. x \in Nat /\ y \in Nat BY <1>5
  <2>2. high = ((x % Word) + y) % Word
    <3>1. x % Word \in Nat BY <1>1, <2>1, Division
    <3>2. ((x % Word) + carry) + (b \div Word) = (x % Word) + y BY <1>5, <3>1
    <3>3. QED BY <3>2
  <2>3. (a + b) \div Word = x + y BY <1>4, <1>5
  <2> HIDE DEF x, y, high
  <2>4. ((x % Word) + y) % Word = (x + y) % Word BY <1>1, <2>1, ReducedFirst
  <2>5. QED BY <2>2, <2>3, <2>4
<1>7. low \in 0..(Word - 1) /\ high \in 0..(Word - 1)
  <2>1. (a + b) \in Nat /\ (a + b) \div Word \in Nat BY <1>1, <1>2, Division
  <2>2. QED BY <1>1, <1>4, <1>6, <2>1, Division
<1> HIDE DEF low, high
<1>8. Counted(Add(c, k), n + k)
  <2>1. Add(c, k).count0 = low /\ Add(c, k).count1 = high BY <1>3 DEF Contexts
  <2>2. QED BY <1>2, <1>4, <1>6, <2>1 DEF Counted
<1>9. QED BY <1>3, <1>7, <1>8 DEF Contexts

LEMMA IndexCounts ==
    ASSUME NEW c, NEW n \in Nat, Counted(c, n)
    PROVE  Index(c) = n % Block
BY LowWordKnowsIndex DEF Index, Counted

-----------------------------------------------------------------------------
(***************************************************************************)
(* The buffer.                                                             *)
(***************************************************************************)
LEMMA BlockType == Block \in Nat /\ Block > 2
BY SizesAssumption

LEMMA CopiedPrefix ==
    ASSUME NEW buffer \in [1..Block -> Units], NEW at \in 0..Block, NEW bytes \in Seq(Units),
           at + Len(bytes) <= Block
    PROVE  /\ Copied(buffer, at, bytes) \in [1..Block -> Units]
           /\ SubSeq(Copied(buffer, at, bytes), 1, at + Len(bytes)) = SubSeq(buffer, 1, at) \o bytes
<1> DEFINE new == Copied(buffer, at, bytes)
           n == Len(bytes)
<1>1. n \in Nat /\ DOMAIN bytes = 1..n /\ \A i \in 1..n : bytes[i] \in Units
  BY LenProperties, ElementOfSeq
<1>2. new \in [1..Block -> Units] BY <1>1 DEF Copied
<1>3. \A k \in 1..Block : new[k] = IF k - at \in 1..n THEN bytes[k - at] ELSE buffer[k]
  BY <1>1 DEF Copied
<1> HIDE DEF new
<1>4. /\ SubSeq(new, 1, at + n) \in Seq(Units) /\ Len(SubSeq(new, 1, at + n)) = at + n
      /\ \A i \in 1..(at + n) : SubSeq(new, 1, at + n)[i] = new[i]
  <2>1. \A i \in 1..(at + n) : new[i] \in Units BY <1>1, <1>2, BlockType
  <2>2. QED BY <1>1, <2>1, SubSeqProperties
<1>5. /\ SubSeq(buffer, 1, at) \in Seq(Units) /\ Len(SubSeq(buffer, 1, at)) = at
      /\ \A i \in 1..at : SubSeq(buffer, 1, at)[i] = buffer[i]
  <2>1. \A i \in 1..at : buffer[i] \in Units BY BlockType
  <2>2. QED BY <2>1, SubSeqProperties
<1> DEFINE both == SubSeq(buffer, 1, at) \o bytes
<1>6. /\ both \in Seq(Units) /\ Len(both) = at + n
      /\ \A i \in 1..(at + n) : both[i] = IF i <= at THEN buffer[i] ELSE bytes[i - at]
  BY <1>1, <1>5, ConcatProperties
<1>7. \A i \in 1..(at + n) : new[i] = both[i] BY <1>1, <1>3, <1>6, BlockType
<1> HIDE DEF both
<1>8. SubSeq(new, 1, at + n) = both BY <1>4, <1>6, <1>7, SeqEqual
<1>9. QED BY <1>2, <1>8 DEF new, both

\* c is what MD5 holds when it has been given the sequence d: what it has transformed and what
\* waits in the buffer are d, and the counts are its length.
Given(c, d) ==
    /\ c \in Contexts /\ d \in Seq(Units) /\ Counted(c, Len(d))
    /\ c.blocks \o SubSeq(c.buffer, 1, Index(c)) = d

\* The parts MD5Update cuts its input into.
LEMMA Parts ==
    ASSUME NEW index \in 0..(Block - 1), NEW n \in Nat, n >= Block - index
    PROVE  LET part == Block - index
               whole == part + Block * ((n - part) \div Block)
           IN  /\ part \in 1..n /\ whole \in part..n /\ n - whole \in 0..(Block - 1)
               /\ (index + n) % Block = n - whole
<1> DEFINE part == Block - index
           q == (n - part) \div Block
           r == (n - part) % Block
<1>1. part \in 1..n /\ n - part \in Nat BY BlockType
<1>2. q \in Nat /\ r \in 0..(Block - 1) /\ n - part = Block * q + r
  BY <1>1, BlockType, Division
<1> HIDE DEF q, r
<1>3. Block * q \in Nat BY <1>2, BlockType
<1>4. index + n = Block * (1 + q) + r BY <1>2, BlockType
<1>5. (index + n) % Block = r
  <2> DEFINE x == index + n
             y == 1 + q
  <2>1. x \in Nat /\ y \in Nat /\ x = Block * y + r BY <1>2, <1>4, BlockType
  <2> HIDE DEF x, y
  <2>2. Block \in Nat \ {0} BY BlockType
  <2>3. x % Block = r BY <1>2, <2>1, <2>2, QuotientUnique
  <2>4. QED BY <2>3 DEF x
<1>6. n - (part + Block * q) = r BY <1>2, <1>3, BlockType
<1>7. part + Block * q \in part..n BY <1>1, <1>2, <1>3, <1>6, BlockType
<1>8. QED BY <1>1, <1>2, <1>5, <1>6, <1>7 DEF q

LEMMA Associative ==
    ASSUME NEW s \in Seq(Units), NEW t \in Seq(Units), NEW u \in Seq(Units)
    PROVE  (s \o t) \o u = s \o (t \o u)
BY ConcatAssociative

\* A slice of a sequence and what it joins up with.
LEMMA Slices ==
    ASSUME NEW S, NEW input \in Seq(S), NEW k \in 0..Len(input)
    PROVE  /\ SubSeq(input, 1, k) \in Seq(S) /\ Len(SubSeq(input, 1, k)) = k
           /\ SubSeq(input, k + 1, Len(input)) \in Seq(S)
           /\ Len(SubSeq(input, k + 1, Len(input))) = Len(input) - k
           /\ SubSeq(input, 1, k) \o SubSeq(input, k + 1, Len(input)) = input
<1>1. Len(input) \in Nat /\ \A i \in 1..Len(input) : input[i] \in S BY LenProperties, ElementOfSeq
<1>2. SubSeq(input, 1, k) \in Seq(S) /\ Len(SubSeq(input, 1, k)) = k
  BY <1>1, SubSeqProperties
<1>3. /\ SubSeq(input, k + 1, Len(input)) \in Seq(S)
      /\ Len(SubSeq(input, k + 1, Len(input))) = Len(input) - k
  BY <1>1, SubSeqProperties
<1>4. SubSeq(input, 1, k) \o SubSeq(input, k + 1, Len(input)) = SubSeq(input, 1, Len(input))
  <2>1. 1 \in 1..(Len(input) + 1) /\ k \in (1 - 1)..Len(input) /\ Len(input) \in k..Len(input)
    BY <1>1
  <2>2. QED BY <2>1, ConcatAdjacentSubSeq
<1>5. QED BY <1>2, <1>3, <1>4, SubSeqFull

\* MD5Update gives MD5 its whole input, after what it has been given, and nothing else.
LEMMA UpdateGives ==
    ASSUME NEW c, NEW d, Given(c, d), NEW input \in Seq(Units)
    PROVE  Given(MD5Update(c, input), d \o input)
<1> DEFINE n == Len(input)
           index == Index(c)
           part == Block - index
           whole == part + Block * ((n - part) \div Block)
           rest == SubSeq(input, whole + 1, n)
           new == MD5Update(c, input)
           added == Add(c, n)
           waits == SubSeq(c.buffer, 1, index)
<1>1. n \in Nat /\ Len(d) \in Nat /\ d \o input \in Seq(Units) /\ Len(d \o input) = Len(d) + n
  BY LenProperties, ConcatProperties DEF Given
<1>2. index = Len(d) % Block BY <1>1, IndexCounts DEF Given
<1>3. index \in 0..(Block - 1) BY <1>1, <1>2, BlockType, Division
<1>4. /\ added \in Contexts /\ Counted(added, Len(d) + n)
      /\ added.buffer = c.buffer /\ added.blocks = c.blocks
  BY <1>1, AddCounts DEF Given
<1>5. /\ c.buffer \in [1..Block -> Units] /\ c.blocks \in Seq(Units)
      /\ c.blocks \o waits = d
  BY DEF Given, Contexts
<1>6. waits \in Seq(Units) /\ Len(waits) = index
  <2>1. \A i \in 1..index : c.buffer[i] \in Units BY <1>3, <1>5, BlockType
  <2>2. QED BY <1>3, <2>1, SubSeqProperties
<1>7. (Len(d) + n) % Block = (index + n) % Block
  <2>1. Block \in Nat \ {0} BY BlockType
  <2>2. ((Len(d) % Block) + n) % Block = (Len(d) + n) % Block BY <1>1, <2>1, ReducedFirst
  <2>3. QED BY <1>2, <2>2
<1>8. ASSUME NEW x, Counted(x, Len(d) + n)
      PROVE  Index(x) = (index + n) % Block
  <2>1. Len(d) + n \in Nat BY <1>1
  <2>2. QED BY <1>7, <1>8, <2>1, IndexCounts
<1> HIDE DEF index, n, waits, added, part, whole, rest
<1>9. CASE n < part
  <2>1. new = [added EXCEPT !.buffer = Copied(@, index, input)]
    BY <1>9 DEF MD5Update, n, index, part, added
  <2>2. /\ new.buffer = Copied(c.buffer, index, input) /\ new.blocks = c.blocks
        /\ new.count0 = added.count0 /\ new.count1 = added.count1
    BY <1>4, <2>1 DEF Contexts
  <2>3. index + n < Block /\ index \in 0..Block BY <1>1, <1>3, <1>9, BlockType DEF part
  <2>4. /\ Copied(c.buffer, index, input) \in [1..Block -> Units]
        /\ SubSeq(Copied(c.buffer, index, input), 1, index + n) = waits \o input
    <3>1. index + Len(input) <= Block BY <1>1, <2>3, BlockType DEF n
    <3>2. QED BY <1>5, <2>3, <3>1, CopiedPrefix DEF n, waits
  <2>5. new \in Contexts BY <1>4, <2>1, <2>4 DEF Contexts
  <2>6. Counted(new, Len(d) + n) BY <1>4, <2>2 DEF Counted
  <2>7. Index(new) = index + n
    <3>1. (index + n) % Block = index + n
      <4>1. index + n \in Nat /\ index + n \in 0..(Block - 1) BY <1>1, <1>3, <2>3, BlockType
      <4>2. QED BY <4>1, BlockType
    <3>2. QED BY <1>8, <2>6, <3>1
  <2>8. c.blocks \o (waits \o input) = (c.blocks \o waits) \o input
    <3>1. c.blocks \in Seq(Units) /\ waits \in Seq(Units) /\ input \in Seq(Units) BY <1>5, <1>6
    <3>2. QED BY <3>1, Associative
  <2>9. new.blocks \o SubSeq(new.buffer, 1, Index(new)) = d \o input
    BY <1>5, <2>2, <2>4, <2>7, <2>8
  <2>10. QED BY <1>1, <2>5, <2>6, <2>9 DEF Given
<1>10. CASE n >= part
  <2> DEFINE first == SubSeq(input, 1, part)
             blocks == SubSeq(input, 1, whole)
             filled == Copied(c.buffer, index, first)
             left == Copied(filled, 0, rest)
  <2>1. /\ part \in 1..n /\ whole \in part..n /\ n - whole \in 0..(Block - 1)
        /\ (index + n) % Block = n - whole
    BY <1>1, <1>3, <1>10, Parts DEF part, whole
  <2>2. /\ blocks \in Seq(Units) /\ Len(blocks) = whole /\ rest \in Seq(Units)
        /\ Len(rest) = n - whole /\ blocks \o rest = input
    <3>1. whole \in 0..Len(input) BY <1>1, <2>1 DEF n
    <3>2. QED BY <3>1, Slices DEF rest, n
  <2>3. first \in Seq(Units) /\ Len(first) = part
    <3>1. part \in 0..Len(input) BY <1>1, <2>1 DEF n
    <3>2. QED BY <3>1, Slices
  <2>4. filled \in [1..Block -> Units]
    <3>1. index \in 0..Block /\ index + Len(first) <= Block BY <1>3, <2>3, BlockType DEF part
    <3>2. QED BY <1>5, <2>3, <3>1, CopiedPrefix
  <2> HIDE DEF first, blocks, filled
  <2>5. left \in [1..Block -> Units] /\ SubSeq(left, 1, n - whole) = rest
    <3>1. 0 \in 0..Block /\ 0 + Len(rest) <= Block /\ 0 + Len(rest) = n - whole
      BY <1>1, <2>1, <2>2, BlockType
    <3>2. /\ left \in [1..Block -> Units]
          /\ SubSeq(left, 1, 0 + Len(rest)) = SubSeq(filled, 1, 0) \o rest
      BY <2>2, <2>4, <3>1, CopiedPrefix
    <3>3. SubSeq(filled, 1, 0) = <<>> BY SubSeqEmpty
    <3>4. <<>> \o rest = rest BY <2>2, ConcatEmptySeq
    <3>5. QED BY <3>1, <3>2, <3>3, <3>4
  <2>6. new = [added EXCEPT !.blocks = @ \o waits \o blocks, !.buffer = Copied(Copied(@, index, first), 0, rest)]
    BY <1>1, <1>10, <2>1 DEF MD5Update, n, index, part, added, whole, rest, waits, first, blocks
  <2>7. /\ new.buffer = left /\ new.blocks = (c.blocks \o waits) \o blocks
        /\ new.count0 = added.count0 /\ new.count1 = added.count1
    BY <1>4, <2>6 DEF Contexts, filled
  <2>8. (c.blocks \o waits) \o blocks \in Seq(Units)
    BY <1>5, <2>2, ConcatProperties DEF Given
  <2>9. new \in Contexts
    <3>1. new = [added EXCEPT !.blocks = (c.blocks \o waits) \o blocks, !.buffer = left]
      BY <1>4, <2>6 DEF Contexts, filled
    <3> HIDE DEF new, left
    <3>2. QED BY <1>4, <2>5, <2>8, <3>1 DEF Contexts
  <2>10. Counted(new, Len(d) + n) BY <1>4, <2>7 DEF Counted
  <2>11. Index(new) = n - whole BY <1>8, <2>1, <2>10
  <2>12. (d \o blocks) \o rest = d \o (blocks \o rest)
    <3>1. d \in Seq(Units) /\ blocks \in Seq(Units) /\ rest \in Seq(Units) BY <2>2 DEF Given
    <3>2. QED BY SMTT(30), <3>1, Associative
  <2>13. new.blocks \o SubSeq(new.buffer, 1, Index(new)) = d \o input
    BY <1>5, <2>2, <2>5, <2>7, <2>11, <2>12
  <2>14. QED BY <1>1, <2>9, <2>10, <2>13 DEF Given
<1>11. QED BY <1>1, <1>3, <1>9, <1>10, BlockType DEF part

-----------------------------------------------------------------------------
(***************************************************************************)
(* The bytes of the file, and the padding.                                 *)
(***************************************************************************)
LEMMA BytesRead ==
    ASSUME NEW n \in Nat, NEW k \in Nat
    PROVE  /\ Bytes(n + 1, n + k) \in Seq(Units) /\ Len(Bytes(n + 1, n + k)) = k
           /\ \A i \in 1..k : Bytes(n + 1, n + k)[i] = Byte(n + i)
<1>1. (n + k) - (n + 1) + 1 = k OBVIOUS
<1>2. Bytes(n + 1, n + k) = [i \in 1..k |-> Byte((n + 1) + i - 1)] BY <1>1 DEF Bytes
<1>3. \A i \in 1..k : (n + 1) + i - 1 = n + i /\ n + i \in Nat OBVIOUS
<1>4. \A i \in 1..k : Byte((n + 1) + i - 1) = Byte(n + i) /\ Byte(n + i) \in Units
  BY <1>3 DEF Byte, Units
<1>5. Bytes(n + 1, n + k) \in [1..k -> Units] BY <1>2, <1>4
<1>6. QED BY <1>2, <1>4, <1>5

\* The next piece joins up with what has been read.
LEMMA BytesJoin ==
    ASSUME NEW n \in Nat, NEW k \in Nat
    PROVE  Bytes(1, n) \o Bytes(n + 1, n + k) = Bytes(1, n + k)
<1> DEFINE read == Bytes(1, n)
           piece == Bytes(n + 1, n + k)
           both == read \o piece
<1>1. n + k \in Nat /\ 0 \in Nat /\ 0 + 1 = 1 /\ 0 + n = n /\ 0 + (n + k) = n + k OBVIOUS
<1>2. read \in Seq(Units) /\ Len(read) = n /\ \A i \in 1..n : read[i] = Byte(0 + i)
  BY <1>1, BytesRead
<1>3. /\ Bytes(1, n + k) \in Seq(Units) /\ Len(Bytes(1, n + k)) = n + k
      /\ \A i \in 1..(n + k) : Bytes(1, n + k)[i] = Byte(0 + i)
  BY <1>1, BytesRead
<1>4. piece \in Seq(Units) /\ Len(piece) = k /\ \A i \in 1..k : piece[i] = Byte(n + i)
  BY BytesRead
<1> HIDE DEF read, piece
<1>5. /\ both \in Seq(Units) /\ Len(both) = n + k
      /\ \A i \in 1..(n + k) : both[i] = IF i <= n THEN read[i] ELSE piece[i - n]
  BY <1>2, <1>4, ConcatProperties
<1> HIDE DEF both
<1>6. ASSUME NEW i \in 1..(n + k)
      PROVE  both[i] = Bytes(1, n + k)[i]
  <2>1. CASE i <= n
    <3>1. i \in 1..n /\ 0 + i = i BY <2>1
    <3>2. QED BY <1>2, <1>3, <1>5, <2>1, <3>1
  <2>2. CASE i > n
    <3>1. i - n \in 1..k /\ n + (i - n) = i /\ 0 + i = i /\ ~(i <= n) BY <2>2
    <3>2. both[i] = piece[i - n] BY <1>5, <3>1
    <3>3. piece[i - n] = Byte(n + (i - n)) BY <1>4, <3>1
    <3>4. QED BY <1>3, <3>1, <3>2, <3>3
  <2>3. i <= n \/ i > n OBVIOUS
  <2>4. QED BY <2>1, <2>2, <2>3
<1>7. both = Bytes(1, n + k) BY <1>3, <1>5, <1>6, SeqEqual
<1>8. QED BY <1>7 DEF both, read, piece

LEMMA PaddingType ==
    ASSUME NEW n \in Nat
    PROVE  Padding(n) \in Seq(Units) /\ Len(Padding(n)) = n
<1>1. Padding(n) \in [1..n -> Units] BY DEF Padding, Zero, Units
<1>2. QED BY <1>1

\* PadLen is the one and the least number of zeros that end a block with the length.
LEMMA PadLenLeast ==
    ASSUME NEW n \in Nat
    PROVE  LET z == PadLen(n % Block) - 1
           IN  /\ z \in 0..(Block - 1) /\ (n + 1 + z + 2) % Block = 0
               /\ \A k \in 0..(Block - 1) : (n + 1 + k + 2) % Block = 0 => k = z
<1> DEFINE index == n % Block
           q == n \div Block
           z == PadLen(index) - 1
<1>1. q \in Nat /\ index \in 0..(Block - 1) /\ n = Block * q + index
  <2>1. Block \in Nat \ {0} BY BlockType
  <2>2. QED BY <2>1, Division
<1> HIDE DEF index, q
<1>2. z \in 0..(Block - 1) BY <1>1, BlockType DEF PadLen
<1>3. PICK p \in Nat : n + 1 + z + 2 = Block * p
  <2>1. CASE index < Block - 2
    <3>1. z = Block - 3 - index BY <1>1, <2>1, BlockType DEF PadLen
    <3>2. n + 1 + z + 2 = Block * (q + 1) BY <1>1, <3>1, BlockType
    <3>3. q + 1 \in Nat BY <1>1
    <3>4. QED BY <3>2, <3>3
  <2>2. CASE index >= Block - 2
    <3>1. z = 2 * Block - 3 - index BY <1>1, <2>2, BlockType DEF PadLen
    <3>2. n + 1 + z + 2 = Block * (q + 2) BY <1>1, <3>1, BlockType
    <3>3. q + 2 \in Nat BY <1>1
    <3>4. QED BY <3>2, <3>3
  <2>3. QED BY <1>1, <2>1, <2>2, BlockType
<1> HIDE DEF z
<1>4. (n + 1 + z + 2) % Block = 0
  <2> DEFINE x == n + 1 + z + 2
  <2>1. x \in Nat /\ x = Block * p + 0 /\ 0 \in 0..(Block - 1) /\ Block \in Nat \ {0}
    BY <1>2, <1>3, BlockType
  <2> HIDE DEF x
  <2>2. x % Block = 0 BY <1>3, <2>1, QuotientUnique
  <2>3. QED BY <2>2 DEF x
<1>5. ASSUME NEW k \in 0..(Block - 1), (n + 1 + k + 2) % Block = 0
      PROVE  k = z
  <2> DEFINE x == n + 1 + k + 2
  <2>1. x \in Nat /\ x % Block = 0 /\ Block \in Nat \ {0} BY <1>5, BlockType
  <2> HIDE DEF x
  <2>2. PICK j \in Nat : x = Block * j + 0 BY <2>1, Division
  <2>3. x = z + 3 + n + (k - z) /\ Block * (j - p) = k - z BY <1>2, <1>3, <2>2, BlockType DEF x
  <2>4. ~(j - p >= 1)
    <3>1. SUFFICES ASSUME j - p >= 1 PROVE FALSE OBVIOUS
    <3>2. Block * (j - p) >= Block BY <3>1, BlockType
    <3>3. QED BY <1>2, <2>3, <3>2, BlockType
  <2>5. ~(j - p <= -1)
    <3>1. SUFFICES ASSUME j - p <= -1 PROVE FALSE OBVIOUS
    <3>2. Block * (j - p) <= -Block BY <3>1, BlockType
    <3>3. QED BY <1>2, <2>3, <3>2, BlockType
  <2>6. j - p = 0 BY <2>4, <2>5
  <2>7. QED BY <1>2, <2>3, <2>6, BlockType
<1>6. QED BY <1>2, <1>4, <1>5 DEF z, index

-----------------------------------------------------------------------------
(***************************************************************************)
(* The inductive invariant.  The counts are part of it: the place in the   *)
(* buffer and the length at the end are computed from them, and nothing    *)
(* else in the program knows how much of the file has been read.           *)
(***************************************************************************)
Types ==
    /\ size \in 0..MaxSize /\ pos \in 0..size /\ pc \in {"read", "final", "done", "failed"}
    /\ ctx \in Contexts

\* A read that is not full is the last one, unless reads may be short.
ReadToEnd == pc \in {"final", "done"} /\ ~ShortReads => pos = size

ReadGiven == pc \in {"read", "final"} => Given(ctx, Bytes(1, pos))

DigestOfRead == pc = "done" => ctx.blocks = Padded(pos)

IInv == Types /\ ReadToEnd /\ ReadGiven /\ DigestOfRead

LEMMA Initially == Init => IInv
<1>1. SUFFICES ASSUME Init PROVE IInv OBVIOUS
<1>2. Bits \in Nat \ {0} /\ Word \in Nat \ {0} /\ MaxSize \in Nat BY SizesAssumption
<1>3. size \in 0..MaxSize /\ pos = 0 /\ pc = "read" /\ ctx = MD5Init BY <1>1 DEF Init
<1>4. ctx.count0 = 0 /\ ctx.count1 = 0 /\ ctx.blocks = <<>>
  BY <1>3 DEF MD5Init
<1>5. ctx \in Contexts
  <2>1. <<"junk", 0>> \in Units BY DEF Units
  <2>2. [k \in 1..Block |-> <<"junk", 0>>] \in [1..Block -> Units] BY <2>1
  <2>3. <<>> \in Seq(Units) BY EmptySeq
  <2>4. QED BY <1>2, <1>3, <2>2, <2>3 DEF MD5Init, Contexts
<1>6. Bytes(1, 0) = <<>>
  <2>1. 0 \in Nat /\ 0 + 1 = 1 /\ 0 + 0 = 0 OBVIOUS
  <2>2. Bytes(1, 0) \in Seq(Units) /\ Len(Bytes(1, 0)) = 0 BY <2>1, BytesRead
  <2>3. QED BY <2>2, EmptySeq
<1>7. Counted(ctx, 0)
  <2>1. 0 \in Nat /\ 0 \in 0..(Word - 1) /\ 0 = Word * 0 + 0 BY <1>2
  <2>2. 0 \div Word = 0 /\ 0 % Word = 0 BY <1>2, <2>1, QuotientUnique
  <2>3. 0 * Bits = 0 BY <1>2
  <2>4. QED BY <1>4, <2>2, <2>3 DEF Counted
<1>8. Given(ctx, <<>>)
  <2>1. Index(ctx) = 0 % Block BY <1>7, IndexCounts
  <2>2. Block \in Nat \ {0} BY BlockType
  <2>3. 0 % Block = 0
    <3>1. 0 \in Nat /\ 0 \in 0..(Block - 1) /\ 0 = Block * 0 + 0 BY <2>2
    <3>2. QED BY <2>2, <3>1, QuotientUnique
  <2>4. SubSeq(ctx.buffer, 1, 0) = <<>> BY SubSeqEmpty
  <2>5. <<>> \in Seq(Units) /\ Len(<<>>) = 0 BY EmptySeq
  <2>6. <<>> \o <<>> = <<>> BY <2>5, ConcatEmptySeq
  <2>7. QED BY <1>4, <1>5, <1>7, <2>1, <2>3, <2>4, <2>5, <2>6 DEF Given
<1>9. QED BY <1>2, <1>3, <1>5, <1>6, <1>8 DEF IInv, Types, ReadToEnd, ReadGiven, DigestOfRead

LEMMA ReadKeeps ==
    ASSUME IInv, Read
    PROVE  IInv'
<1>1. pc = "read" /\ size \in 0..MaxSize /\ pos \in 0..size /\ Given(ctx, Bytes(1, pos))
  BY DEF IInv, Types, ReadGiven, Read
<1>2. Piece \in Nat \ {0} /\ MaxSize \in Nat /\ ShortReads \in BOOLEAN BY SizesAssumption
<1> DEFINE there == IF size - pos < Piece THEN size - pos ELSE Piece
<1>3. PICK n \in {there} \cup (IF ShortReads THEN 1..there ELSE {}) :
         /\ ctx' = MD5Update(ctx, Bytes(pos + 1, pos + n))
         /\ pos' = pos + n
         /\ pc' = IF n < Piece THEN "final" ELSE "read"
         /\ size' = size
  BY DEF Read
<1>4. n \in Nat /\ n <= there /\ (~ShortReads => n = there) BY <1>1, <1>2, <1>3
<1>5. Given(ctx', Bytes(1, pos'))
  <2>1. pos \in Nat BY <1>1
  <2>2. Bytes(pos + 1, pos + n) \in Seq(Units) BY <1>4, <2>1, BytesRead
  <2>3. Given(MD5Update(ctx, Bytes(pos + 1, pos + n)), Bytes(1, pos) \o Bytes(pos + 1, pos + n))
    BY <1>1, <2>2, UpdateGives
  <2>4. Bytes(1, pos) \o Bytes(pos + 1, pos + n) = Bytes(1, pos + n) BY <1>4, <2>1, BytesJoin
  <2>5. QED BY <1>3, <2>3, <2>4
<1>6. Types'
  <2>1. ctx' \in Contexts BY <1>5 DEF Given
  <2>2. pos' \in 0..size' BY <1>1, <1>2, <1>3, <1>4
  <2>3. QED BY <1>1, <1>3, <2>1, <2>2 DEF Types
<1>7. ReadToEnd'
  <2>1. SUFFICES ASSUME n < Piece, ~ShortReads PROVE pos' = size' BY <1>3 DEF ReadToEnd
  <2>2. n = size - pos BY <1>1, <1>2, <1>4, <2>1
  <2>3. QED BY <1>1, <1>3, <2>2
<1>8. ReadGiven' BY <1>5 DEF ReadGiven, Given, Counted, Index
<1>9. DigestOfRead' BY <1>3 DEF DigestOfRead
<1>10. QED BY <1>6, <1>7, <1>8, <1>9 DEF IInv

LEMMA FinalKeeps ==
    ASSUME IInv, MD5Final
    PROVE  IInv'
<1> DEFINE d == Bytes(1, pos)
           pad == PadLen(Index(ctx))
           z == pad - 1
           length == <<Length(ctx.count0), Length(ctx.count1)>>
           all == (d \o Padding(pad)) \o length
<1>1. /\ pc = "final" /\ size \in 0..MaxSize /\ pos \in 0..size /\ pos \in Nat
      /\ Given(ctx, d) /\ ctx \in Contexts
  BY DEF IInv, Types, ReadGiven, MD5Final
<1>2. Bits \in Nat \ {0} /\ Word \in Nat \ {0} /\ Block \in Nat \ {0} BY SizesAssumption, BlockType
<1>3. d \in Seq(Units) /\ Len(d) = pos
  <2>1. 0 \in Nat /\ 0 + 1 = 1 /\ 0 + pos = pos BY <1>1
  <2>2. QED BY <1>1, <2>1, BytesRead
<1>4. Index(ctx) = pos % Block
  <2>1. Counted(ctx, pos) BY <1>1, <1>3 DEF Given
  <2>2. QED BY <1>1, <2>1, IndexCounts
<1> HIDE DEF d
<1>5. /\ z \in 0..(Block - 1) /\ (pos + 1 + z + 2) % Block = 0
      /\ \A k \in 0..(Block - 1) : (pos + 1 + k + 2) % Block = 0 => k = z
  BY <1>1, <1>4, PadLenLeast
<1>6. pad \in Int BY <1>1, <1>4, <1>2, Division DEF PadLen
<1>7. pad \in Nat /\ pad = 1 + z BY <1>2, <1>5, <1>6
<1> HIDE DEF pad
<1>8. Padding(pad) \in Seq(Units) /\ Len(Padding(pad)) = pad BY <1>7, PaddingType
<1>9. length \in Seq(Units) /\ Len(length) = 2
  <2>1. ctx.count0 \in Nat /\ ctx.count1 \in Nat BY <1>1, <1>2 DEF Contexts
  <2>2. Length(ctx.count0) \in Units /\ Length(ctx.count1) \in Units
    BY <2>1 DEF Length, Units
  <2> DEFINE x == Length(ctx.count0)
             y == Length(ctx.count1)
  <2>3. x \in Units /\ y \in Units BY <2>2
  <2> HIDE DEF x, y
  <2>4. <<x, y>> \in Seq(Units) /\ Len(<<x, y>>) = 2 BY <2>3
  <2>5. QED BY <2>4 DEF x, y
<1> HIDE DEF length
<1>10. Given(ctx', all)
  <2>1. Given(MD5Update(ctx, Padding(pad)), d \o Padding(pad)) BY <1>1, <1>8, UpdateGives
  <2>2. Given(MD5Update(MD5Update(ctx, Padding(pad)), length), all) BY <1>9, <2>1, UpdateGives
  <2>3. ctx' = MD5Update(MD5Update(ctx, Padding(pad)), length) BY DEF MD5Final, pad, length
  <2>4. QED BY <2>2, <2>3
<1>11. Len(all) = pos + 1 + z + 2
  <2>1. d \o Padding(pad) \in Seq(Units) /\ Len(d \o Padding(pad)) = pos + pad
    BY <1>3, <1>8, ConcatProperties
  <2> DEFINE before == d \o Padding(pad)
  <2>2. before \in Seq(Units) /\ Len(before) = pos + pad BY <2>1
  <2> HIDE DEF before
  <2>3. Len(before \o length) = Len(before) + Len(length) BY <1>9, <2>2, ConcatProperties
  <2>4. Len(all) = (pos + pad) + 2 BY <1>9, <2>2, <2>3 DEF before
  <2>5. QED BY <1>1, <1>5, <1>7, <2>4
<1>12. ctx'.blocks = all
  <2>1. Len(all) \in Nat BY <1>1, <1>2, <1>5, <1>11
  <2>2. Index(ctx') = 0 BY <1>5, <1>10, <1>11, <2>1, IndexCounts DEF Given
  <2>3. SubSeq(ctx'.buffer, 1, 0) = <<>> BY SubSeqEmpty
  <2>4. ctx'.blocks \in Seq(Units) /\ ctx'.blocks \o SubSeq(ctx'.buffer, 1, Index(ctx')) = all
    BY <1>10 DEF Given, Contexts
  <2>5. ctx'.blocks \o <<>> = ctx'.blocks BY <2>4, ConcatEmptySeq
  <2>6. QED BY <2>2, <2>3, <2>4, <2>5
<1>13. all = Padded(pos)
  <2> DEFINE w == (CHOOSE k \in 0..(Block - 1) : (pos + 1 + k + 2) % Block = 0)
             bits == (pos * Bits) % (Word * Word)
  <2>1. w = z BY <1>5
  <2>2. ctx.count0 = bits % Word /\ ctx.count1 = bits \div Word
    <3>1. Counted(ctx, pos) BY <1>1, <1>3 DEF Given
    <3> DEFINE a == pos * Bits
    <3>2. a \in Nat BY <1>1, <1>2
    <3> HIDE DEF a
    <3>3. (a % (Word * Word)) % Word = a % Word
          /\ (a % (Word * Word)) \div Word = (a \div Word) % Word
      BY <1>2, <3>2, TwoWords
    <3>4. QED BY <3>1, <3>3 DEF Counted, a
  <2>3. Padded(pos) = Bytes(1, pos) \o Padding(1 + w) \o <<Length(bits % Word), Length(bits \div Word)>>
    BY DEF Padded
  <2> HIDE DEF w, bits
  <2>4. QED BY <1>7, <2>1, <2>2, <2>3 DEF d, length
<1>14. ctx' \in Contexts BY <1>10 DEF Given
<1>15. Types' BY <1>1, <1>14 DEF Types, MD5Final
<1>16. ReadToEnd' BY DEF IInv, ReadToEnd, MD5Final
<1>17. pc' = "done" /\ pos' = pos BY DEF MD5Final
<1>18. ReadGiven' BY <1>17 DEF ReadGiven
<1>19. DigestOfRead' BY <1>12, <1>13, <1>17 DEF DigestOfRead, Padded
<1>20. QED BY <1>15, <1>16, <1>18, <1>19 DEF IInv

LEMMA Inductive == IInv /\ [Next]_vars => IInv'
<1>1. SUFFICES ASSUME IInv, [Next]_vars PROVE IInv' OBVIOUS
<1>2. CASE Read BY <1>1, <1>2, ReadKeeps
<1>3. CASE MD5Final BY <1>1, <1>3, FinalKeeps
<1>4. CASE ReadError
  BY <1>1, <1>4 DEF ReadError, IInv, Types, ReadToEnd, ReadGiven, DigestOfRead
<1>5. CASE UNCHANGED vars
  <2>1. UNCHANGED <<size, pos, ctx, pc>> BY <1>5 DEF vars
  <2>2. Given(ctx, Bytes(1, pos)) => Given(ctx', Bytes(1, pos')) BY <2>1
  <2>3. ReadGiven' BY <1>1, <2>1, <2>2 DEF IInv, ReadGiven
  <2>4. DigestOfRead' BY <1>1, <2>1 DEF IInv, DigestOfRead, Padded
  <2>5. QED BY <1>1, <2>1, <2>3, <2>4 DEF IInv, Types, ReadToEnd
<1>6. QED BY <1>1, <1>2, <1>3, <1>4, <1>5 DEF Next

LEMMA Always == Spec => []IInv
<1>1. Init => IInv BY Initially
<1>2. IInv /\ [Next]_vars => IInv' BY Inductive
<1>3. QED BY <1>1, <1>2, PTL DEF Spec

\* Type correctness.
THEOREM TypeCorrect == Spec => []TypeOK
<1>1. IInv => TypeOK BY DEF IInv, Types, TypeOK, Contexts
<1>2. QED BY <1>1, Always, PTL

\* Whatever the sizes of the pieces, whether they end at the end of a block or across it,
\* and however short the reads are, no byte of the file is lost, repeated or moved between
\* Compute_file_md5 and the transformation.
THEOREM EveryByteIsGiven == Spec => []NothingLost
<1>1. IInv => NothingLost BY DEF IInv, ReadGiven, Given, NothingLost
<1>2. QED BY <1>1, Always, PTL

\* If read returns less than a piece only at the end of the file, the digest of every file, of any
\* length, is that of the padded file as RFC 1321 defines it, also where the padding needs a
\* block of its own and where the length does not fit in one word.
THEOREM DigestIsOfFile ==
    ASSUME ~ShortReads
    PROVE  Spec => []DigestOfFile
<1>1. IInv => DigestOfFile BY DEF IInv, ReadToEnd, DigestOfRead, DigestOfFile, Padded
<1>2. QED BY <1>1, Always, PTL
=============================================================================

------------------------------ MODULE BytesProofs -----------------------------
(***************************************************************************)
(* What the reads of a cursor return, for every buffer and every position, *)
(* and what FlattenSeq returns, one element at a time: the parsers read a  *)
(* list item by item, and the encoders write it as the concatenation of    *)
(* what they write for its items.                                          *)
(***************************************************************************)
EXTENDS Cursor, SequencesExt, ParseErrorsProofs, SequenceTheorems

CursorOK == buf \in Seq(U8Values) /\ position \in 0..Len(buf)

\* A byte is a byte, there or not.
LEMMA ByteRange ==
    ASSUME CursorOK, NEW o \in Nat
    PROVE  U8(o) \in U8Values
<1>1. buf \in Seq(U8Values) /\ position \in Nat /\ Len(buf) \in Nat
  BY DEF CursorOK
<1>2. CASE position + o < Len(buf)
  <2>1. position + o + 1 \in 1..Len(buf)
    BY <1>1, <1>2
  <2>. QED
    BY <1>1, <1>2, <2>1 DEF U8
<1>3. CASE ~(position + o < Len(buf))
  BY <1>3 DEF U8, U8Values
<1>. QED
  BY <1>2, <1>3

\* A u16 has sixteen bits.
LEMMA U16Range ==
    ASSUME CursorOK, NEW o \in Nat
    PROVE  U16(o) \in Nat /\ U16(o) < 256 * 256
<1> DEFINE a == U8(o)
           b == U8(o + 1)
<1>1. a \in 0..255 /\ b \in 0..255
  BY ByteRange DEF U8Values
<1> HIDE DEF a, b
<1>2. a + 256 * b \in Nat /\ a + 256 * b < 256 * 256
  BY <1>1
<1>. QED
  BY <1>2 DEF U16, a, b

\* A u32 is a natural, and below TOO_LARGE exactly when its fourth byte is 0.
LEMMA U32Range ==
    ASSUME CursorOK, NEW o \in Nat
    PROVE  /\ U32(o) \in Nat
           /\ U32(o) <= TOO_LARGE
           /\ U32(o) < TOO_LARGE <=> U8(o + 3) = 0
<1> DEFINE a == U8(o)
           b == U8(o + 1)
           c == U8(o + 2)
           n == a + 256 * (b + 256 * c)
<1>1. a \in 0..255 /\ b \in 0..255 /\ c \in 0..255
  BY ByteRange DEF U8Values
<1> HIDE DEF a, b, c
<1>2. n \in Nat /\ n < 256 * 256 * 256 /\ 256 * 256 * 256 \in Nat
  BY <1>1
<1>. QED
  BY <1>2 DEF U32, TOO_LARGE, a, b, c

\* The row of a read passes exactly when the bytes are there.
LEMMA ReadRow ==
    ASSUME CursorOK, NEW n \in Int
    PROVE  /\ remaining_len \in Nat
           /\ Read(n) = "ok" <=> position + n <= Len(buf)
           /\ Read(n) \in Outcomes
BY DEF CursorOK, Read, Check, remaining_len, Outcomes, ErrorKinds

\* Bytes that are there are read in full.
LEMMA BytesRead ==
    ASSUME CursorOK, NEW o \in Nat, NEW n \in Nat, position + o + n <= Len(buf)
    PROVE  /\ Bytes(o, n) = SubSeq(buf, position + o + 1, position + o + n)
           /\ Bytes(o, n) \in Seq(U8Values)
           /\ Len(Bytes(o, n)) = n
<1>1. position \in Nat /\ Len(buf) \in Nat /\ buf \in Seq(U8Values)
  BY DEF CursorOK
<1>2. Bytes(o, n) = SubSeq(buf, position + o + 1, position + o + n)
  BY <1>1 DEF Bytes, remaining_len
<1>. QED
  BY <1>1, <1>2

-----------------------------------------------------------------------------
\* The bytes an item was read from, put together again from what was read.

LEMMA BytesJoin ==
    ASSUME CursorOK, NEW o \in Nat, NEW m \in Nat, NEW n \in Nat, position + o + m + n <= Len(buf)
    PROVE  Bytes(o, m) \o Bytes(o + m, n) = Bytes(o, m + n)
<1> DEFINE i == position + o
<1>1. position \in Nat /\ Len(buf) \in Nat /\ buf \in Seq(U8Values) /\ i \in Nat
  BY DEF CursorOK
<1>2. /\ Bytes(o, m) = SubSeq(buf, i + 1, i + m)
      /\ Bytes(o + m, n) = SubSeq(buf, i + m + 1, i + m + n)
      /\ Bytes(o, m + n) = SubSeq(buf, i + 1, i + m + n)
  BY <1>1 DEF Bytes, remaining_len
<1> HIDE DEF i
<1>3. SubSeq(buf, i + 1, i + m) \o SubSeq(buf, i + m + 1, i + m + n) = SubSeq(buf, i + 1, i + m + n)
  <2>1. i + m + n <= Len(buf)
    BY <1>1 DEF i
  <2>2. i + 1 \in 1..(Len(buf) + 1) /\ i + m \in ((i + 1) - 1)..Len(buf) /\ i + m + n \in (i + m)..Len(buf)
    BY <1>1, <2>1
  <2>. QED
    BY <1>1, <2>2, ConcatAdjacentSubSeq
<1>. QED
  BY <1>2, <1>3

\* The same from the beginning of the item.
LEMMA BytesGrow ==
    ASSUME CursorOK, NEW m \in Nat, NEW n \in Nat, position + m + n <= Len(buf)
    PROVE  Bytes(0, m) \o Bytes(m, n) = Bytes(0, m + n)
<1>1. position \in Nat /\ Len(buf) \in Nat
  BY DEF CursorOK
<1>2. position + 0 + m + n <= Len(buf) /\ 0 \in Nat /\ 0 + m = m
  BY <1>1
<1>3. Bytes(0, m) \o Bytes(0 + m, n) = Bytes(0, m + n)
  BY <1>2, BytesJoin
<1>. QED
  BY <1>2, <1>3

\* What has been read so far, and the next n bytes.
LEMMA NextBytes ==
    ASSUME CursorOK, NEW n \in Nat, position + n <= Len(buf)
    PROVE  SubSeq(buf, 1, position) \o Bytes(0, n) = SubSeq(buf, 1, position + n)
<1>1. position \in Nat /\ Len(buf) \in Nat /\ buf \in Seq(U8Values)
  BY DEF CursorOK
<1>2. Bytes(0, n) = SubSeq(buf, position + 1, position + n)
  BY <1>1 DEF Bytes, remaining_len
<1>. QED
  BY <1>1, <1>2

\* One byte of those read.
LEMMA ByteOf ==
    ASSUME CursorOK, NEW o \in Nat, NEW n \in Nat, position + o + n <= Len(buf), NEW j \in 1..n
    PROVE  Bytes(o, n)[j] = U8(o + j - 1)
<1>1. position \in Nat /\ Len(buf) \in Nat /\ buf \in Seq(U8Values)
  BY DEF CursorOK
<1>2. Bytes(o, n)[j] = buf[position + o + j]
  BY <1>1 DEF Bytes, remaining_len
<1>3. U8(o + j - 1) = buf[position + (o + j - 1) + 1]
  BY <1>1 DEF U8
<1>. QED
  BY <1>1, <1>2, <1>3

LEMMA ByteAgain ==
    ASSUME CursorOK, NEW o \in Nat, position + o + 1 <= Len(buf)
    PROVE  <<U8(o)>> = Bytes(o, 1)
<1> DEFINE t == Bytes(o, 1)
<1>1. t \in Seq(U8Values) /\ Len(t) = 1
  BY BytesRead
<1>2. t[1] = U8(o)
  BY ByteOf
<1> HIDE DEF t
<1>3. t = <<t[1]>>
  BY <1>1
<1>. QED
  BY <1>2, <1>3 DEF t

\* A u16 and a u32, packed again, are the bytes they were read from.
LEMMA U16Again ==
    ASSUME CursorOK, NEW o \in Nat, position + o + 2 <= Len(buf)
    PROVE  <<U16(o) % 256, U16(o) \div 256>> = Bytes(o, 2)
<1> DEFINE a == U8(o)
           b == U8(o + 1)
           t == Bytes(o, 2)
<1>1. a \in 0..255 /\ b \in 0..255
  BY ByteRange DEF U8Values
<1>2. t \in Seq(U8Values) /\ Len(t) = 2
  BY BytesRead
<1>3. t[1] = a /\ t[2] = b
  BY ByteOf
<1>4. U16(o) = a + 256 * b
  BY DEF U16
<1> HIDE DEF a, b, t
<1>5. (a + 256 * b) % 256 = a /\ (a + 256 * b) \div 256 = b
  BY <1>1
<1>6. t = <<a, b>>
  BY <1>2, <1>3
<1>. QED
  BY <1>4, <1>5, <1>6 DEF t

LEMMA U32Again ==
    ASSUME CursorOK, NEW o \in Nat, position + o + 4 <= Len(buf), U32(o) < TOO_LARGE
    PROVE  <<U32(o) % 256, (U32(o) \div 256) % 256, U32(o) \div 65536, 0>> = Bytes(o, 4)
<1> DEFINE a == U8(o)
           b == U8(o + 1)
           c == U8(o + 2)
           d == U8(o + 3)
           t == Bytes(o, 4)
           n == a + 256 * (b + 256 * c)
<1>1. a \in 0..255 /\ b \in 0..255 /\ c \in 0..255
  BY ByteRange DEF U8Values
<1>2. d = 0
  BY U32Range
<1>3. t \in Seq(U8Values) /\ Len(t) = 4
  BY BytesRead
<1>4. t[1] = a /\ t[2] = b /\ t[3] = c /\ t[4] = d
  BY ByteOf
<1>5. U32(o) = n
  BY <1>2 DEF U32
<1> HIDE DEF a, b, c, d, t
<1>6. t = <<a, b, c, d>>
  BY <1>3, <1>4
<1>7. n % 256 = a /\ n \div 256 = b + 256 * c
  BY <1>1
<1>8. (b + 256 * c) % 256 = b
  BY <1>1
<1>9. n \div 65536 = c
  BY <1>1
<1> HIDE DEF n
<1>. QED
  BY <1>2, <1>5, <1>6, <1>7, <1>8, <1>9 DEF t

\* A count, packed, is numbers.
LEMMA PackedTyped ==
    ASSUME NEW n \in Nat
    PROVE  <<n % 256, (n \div 256) % 256, n \div 65536, 0>> \in Seq(Nat)
<1>1. n \div 256 \in Nat /\ n \div 65536 \in Nat /\ n % 256 \in Nat
  OBVIOUS
<1> DEFINE a == n \div 256
           b == n \div 65536
           c == n % 256
           d == a % 256
<1>2. a \in Nat /\ b \in Nat /\ c \in Nat
  BY <1>1
<1> HIDE DEF a, b, c
<1>3. d \in Nat
  BY <1>2
<1> HIDE DEF d
<1>4. <<c, d, b, 0>> \in Seq(Nat)
  BY <1>2, <1>3
<1>. QED
  BY <1>4 DEF a, b, c, d

-----------------------------------------------------------------------------
\* What a writer wrote, met by the reader.  It may have been cut short.

\* As far as the buffer goes, e lies at the cursor.
LiesHere(e) == \A j \in 1..Len(e) : j <= remaining_len => U8(j - 1) = e[j]

LEMMA HereBytes ==
    ASSUME CursorOK, NEW e \in Seq(U8Values), LiesHere(e),
           NEW o \in Nat, NEW n \in Nat, o + n <= Len(e), o + n <= remaining_len
    PROVE  Bytes(o, n) = SubSeq(e, o + 1, o + n)
<1>1. position \in Nat /\ Len(buf) \in Nat /\ Len(e) \in Nat
  BY DEF CursorOK
<1>2. position + o + n <= Len(buf) /\ remaining_len \in Nat
  BY <1>1 DEF CursorOK, remaining_len
<1>3. Bytes(o, n) \in Seq(U8Values) /\ Len(Bytes(o, n)) = n
  BY <1>2, BytesRead
<1>4. SubSeq(e, o + 1, o + n) \in Seq(U8Values) /\ Len(SubSeq(e, o + 1, o + n)) = n
  BY <1>1
<1>5. ASSUME NEW j \in 1..n
      PROVE  Bytes(o, n)[j] = SubSeq(e, o + 1, o + n)[j]
  <2>1. Bytes(o, n)[j] = U8(o + j - 1)
    BY <1>2, ByteOf
  <2>2. o + j \in 1..Len(e) /\ o + j <= remaining_len
    BY <1>1, <1>2
  <2>3. U8((o + j) - 1) = e[o + j]
    BY <2>2 DEF LiesHere
  <2>4. SubSeq(e, o + 1, o + n)[j] = e[o + j]
    BY <1>1
  <2>. QED
    BY <2>1, <2>3, <2>4
<1>. QED
  BY <1>3, <1>4, <1>5, SeqEqual

\* A part of e that starts after its first o bytes is what the read at offset o returns.
LEMMA HerePart ==
    ASSUME CursorOK, NEW e \in Seq(U8Values), LiesHere(e), NEW o \in Nat, NEW part \in Seq(U8Values),
           o + Len(part) <= Len(e), o + Len(part) <= remaining_len,
           \A j \in 1..Len(part) : e[o + j] = part[j]
    PROVE  Bytes(o, Len(part)) = part
<1> DEFINE n == Len(part)
<1>1. n \in Nat /\ Len(e) \in Nat
  OBVIOUS
<1>2. Bytes(o, n) = SubSeq(e, o + 1, o + n)
  BY <1>1, HereBytes
<1>3. Len(SubSeq(e, o + 1, o + n)) = n /\ SubSeq(e, o + 1, o + n) \in Seq(U8Values)
  BY <1>1
<1>4. \A j \in 1..n : SubSeq(e, o + 1, o + n)[j] = part[j]
  BY <1>1
<1>. QED
  BY <1>2, <1>3, <1>4, SeqEqual

\* A count below 2^24, packed, is read back.
PackedAt(o, n) ==
    /\ U8(o) = n % 256
    /\ U8(o + 1) = (n \div 256) % 256
    /\ U8(o + 2) = n \div 65536
    /\ U8(o + 3) = 0

LEMMA U32Unpacked ==
    ASSUME CursorOK, NEW o \in Nat, NEW n \in Nat, PackedAt(o, n)
    PROVE  U32(o) = n
<1> DEFINE a == n % 256
           q == n \div 256
           b == q % 256
           c == n \div 65536
<1>2. q \in Nat /\ n = a + 256 * q
  OBVIOUS
<1>3. c = q \div 256
  OBVIOUS
<1>4. q = b + 256 * (q \div 256)
  BY <1>2
<1>5. U32(o) = a + 256 * (b + 256 * c)
  BY DEF U32, PackedAt
<1> HIDE DEF a, q, b, c
<1>. QED
  BY <1>2, <1>3, <1>4, <1>5

-----------------------------------------------------------------------------
\* The encoding of a list.

\* f[i] is the concatenation of the first i members of seqs.
Flattens(f, seqs, n) ==
    f = [i \in 1..n |-> IF i = 1 THEN seqs[i] ELSE f[i - 1] \o seqs[i]]

LEMMA FlattenDef ==
    ASSUME NEW seqs
    PROVE  FlattenSeq(seqs) = IF Len(seqs) = 0 THEN seqs
                              ELSE (CHOOSE f : Flattens(f, seqs, Len(seqs)))[Len(seqs)]
BY DEF FlattenSeq, Flattens

\* The function that FlattenSeq chooses is there to be chosen.
LEMMA FlattenExists ==
    ASSUME NEW seqs, NEW n \in Nat
    PROVE  \E f : Flattens(f, seqs, n)
<1> DEFINE None == {m \in Nat : ~\E f : Flattens(f, seqs, m)}
<1> SUFFICES ASSUME None # {}
             PROVE  FALSE
  OBVIOUS
<1>1. PICK m \in None : \A k \in None : m <= k
  <2>1. None \subseteq Nat
    OBVIOUS
  <2>. QED
    BY <2>1, LeastNatural
<1>2. m # 0
  <2>1. Flattens([i \in 1..0 |-> i], seqs, 0)
    BY DEF Flattens
  <2>. QED
    BY <1>1, <2>1
<1>3. m \in Nat /\ m - 1 \in Nat /\ m - 1 \notin None
  BY <1>1, <1>2
<1>4. PICK f : Flattens(f, seqs, m - 1)
  BY <1>3
<1> DEFINE g == [i \in 1..m |-> IF i = m THEN (IF m = 1 THEN seqs[m] ELSE f[m - 1] \o seqs[m])
                                ELSE f[i]]
<1>5. ASSUME NEW i \in 1..m
      PROVE  g[i] = IF i = 1 THEN seqs[i] ELSE g[i - 1] \o seqs[i]
  <2>1. CASE i = m
    BY <1>3, <2>1
  <2>2. CASE i # m
    <3>1. i \in 1..(m - 1) /\ g[i] = f[i]
      BY <1>3, <2>2
    <3>2. f[i] = IF i = 1 THEN seqs[i] ELSE f[i - 1] \o seqs[i]
      BY <1>4, <3>1 DEF Flattens
    <3>3. i # 1 => i - 1 \in 1..m /\ i - 1 # m
      BY <1>3, <2>2
    <3>. QED
      BY <3>1, <3>2, <3>3
  <2>. QED
    BY <2>1, <2>2
<1>6. Flattens(g, seqs, m)
  <2>1. g = [i \in 1..m |-> g[i]]
    OBVIOUS
  <2> HIDE DEF g
  <2>. QED
    BY <1>5, <2>1 DEF Flattens
<1>. QED
  BY <1>1, <1>6

\* No members, no bytes.
LEMMA FlattenEmpty == FlattenSeq(<<>>) = <<>>
BY FlattenDef

\* One member more, its bytes more.
LEMMA FlattenAppend ==
    ASSUME NEW T, NEW seqs \in Seq(Seq(T)), NEW x \in Seq(T)
    PROVE  FlattenSeq(Append(seqs, x)) = FlattenSeq(seqs) \o x
<1> DEFINE n == Len(seqs)
           longer == Append(seqs, x)
<1>1. /\ n \in Nat /\ n + 1 \in Nat /\ Len(longer) = n + 1 /\ longer[n + 1] = x
      /\ \A i \in 1..n : longer[i] = seqs[i]
      /\ n + 1 # 0
  OBVIOUS
<1> HIDE DEF n, longer
<1> DEFINE f == CHOOSE h : Flattens(h, seqs, n)
           g == CHOOSE h : Flattens(h, longer, n + 1)
<1>2. Flattens(f, seqs, n) /\ Flattens(g, longer, n + 1)
  <2>1. (\E h : Flattens(h, seqs, n)) /\ (\E h : Flattens(h, longer, n + 1))
    BY <1>1, FlattenExists
  <2>. QED
    BY <2>1, Zenon
<1>3. FlattenSeq(longer) = g[n + 1] /\ FlattenSeq(seqs) = IF n = 0 THEN seqs ELSE f[n]
  BY <1>1, FlattenDef DEF n
<1> HIDE DEF f, g
<1>4. g[n + 1] = IF n + 1 = 1 THEN x ELSE g[(n + 1) - 1] \o x
  <2>1. n + 1 \in 1..(n + 1)
    BY <1>1
  <2>. QED
    BY <1>1, <1>2, <2>1 DEF Flattens
<1>5. CASE n = 0
  <2>1. seqs = <<>>
    BY <1>5 DEF n
  <2>. QED
    BY <1>3, <1>4, <1>5, <2>1 DEF longer
<1>6. CASE n # 0
  <2>1. n \in 1..n /\ n <= n + 1 /\ (n + 1) - 1 = n /\ n + 1 # 1
    BY <1>1, <1>6
  <2>2. g[n] = f[n]
    <3> DEFINE Differ == {i \in 1..n : f[i] # g[i]}
    <3> SUFFICES ASSUME Differ # {}
                 PROVE  FALSE
      BY <2>1
    <3>1. PICK i \in Differ : \A j \in Differ : i <= j
      <4>1. Differ \subseteq Nat
        BY <1>1
      <4>. QED
        BY <4>1, LeastNatural
    <3>2. /\ i \in 1..n /\ i \in 1..(n + 1)
          /\ i # 1 => i - 1 \in 1..n /\ i - 1 \notin Differ
      BY <1>1, <3>1
    <3>3. /\ f[i] = IF i = 1 THEN seqs[i] ELSE f[i - 1] \o seqs[i]
          /\ g[i] = IF i = 1 THEN longer[i] ELSE g[i - 1] \o longer[i]
      BY <1>2, <3>2 DEF Flattens
    <3>. QED
      BY <1>1, <3>1, <3>2, <3>3
  <2>. QED
    BY <1>3, <1>4, <1>6, <2>1, <2>2 DEF longer
<1>. QED
  BY <1>5, <1>6

\* What is written is bytes, as its parts are.
LEMMA FlattenTyped ==
    ASSUME NEW T, NEW seqs \in Seq(Seq(T))
    PROVE  FlattenSeq(seqs) \in Seq(T)
<1> DEFINE n == Len(seqs)
           f == CHOOSE h : Flattens(h, seqs, n)
           Odd == {i \in 1..n : f[i] \notin Seq(T)}
<1>1. n \in Nat /\ \A i \in 1..n : seqs[i] \in Seq(T)
  OBVIOUS
<1>2. Flattens(f, seqs, n)
  <2>1. \E h : Flattens(h, seqs, n)
    BY <1>1, FlattenExists
  <2>. QED
    BY <2>1, Zenon
<1>3. FlattenSeq(seqs) = IF n = 0 THEN seqs ELSE f[n]
  BY FlattenDef
<1> HIDE DEF f, n
<1>4. Odd = {}
  <2> SUFFICES ASSUME Odd # {}
               PROVE  FALSE
    OBVIOUS
  <2>1. PICK i \in Odd : \A j \in Odd : i <= j
    <3>1. Odd \subseteq Nat
      BY <1>1
    <3>. QED
      BY <3>1, LeastNatural
  <2>2. i \in 1..n /\ (i # 1 => i - 1 \in 1..n /\ i - 1 \notin Odd)
    BY <1>1, <2>1
  <2>3. f[i] = IF i = 1 THEN seqs[i] ELSE f[i - 1] \o seqs[i]
    BY <1>2, <2>2 DEF Flattens
  <2>4. f[i] \in Seq(T)
    BY <1>1, <2>2, <2>3
  <2>. QED
    BY <2>1, <2>4
<1>5. CASE n = 0
  <2>1. seqs = <<>>
    BY <1>5 DEF n
  <2>. QED
    BY <1>3, <1>5, <2>1
<1>6. CASE n # 0
  <2>1. n \in 1..n
    BY <1>1, <1>6
  <2>. QED
    BY <1>3, <1>4, <1>6, <2>1
<1>. QED
  BY <1>5, <1>6

\* What is written of the first members comes first.
LEMMA FlattenPrefix ==
    ASSUME NEW T, NEW seqs \in Seq(Seq(T)), NEW k \in 0..Len(seqs)
    PROVE  \E rest \in Seq(T) : FlattenSeq(seqs) = FlattenSeq(SubSeq(seqs, 1, k)) \o rest
<1> DEFINE n == Len(seqs)
           First(m) == SubSeq(seqs, 1, m)
           Rest(m) == \E rest \in Seq(T) : FlattenSeq(seqs) = FlattenSeq(First(m)) \o rest
           Bad == {d \in 0..n : ~Rest(n - d)}
<1>1. n \in Nat /\ First(n) = seqs
  OBVIOUS
<1>2. ASSUME NEW m \in 0..n
      PROVE  First(m) \in Seq(Seq(T)) /\ FlattenSeq(First(m)) \in Seq(T)
  <2>1. First(m) \in Seq(Seq(T))
    OBVIOUS
  <2>. QED
    BY <2>1, FlattenTyped
<1>3. \A m \in 0..(n - 1) : First(m + 1) = Append(First(m), seqs[m + 1]) /\ seqs[m + 1] \in Seq(T)
  BY <1>1
<1> HIDE DEF n, First
<1>4. Rest(n)
  <2>1. FlattenSeq(seqs) \in Seq(T) /\ <<>> \in Seq(T)
    BY FlattenTyped
  <2>2. FlattenSeq(seqs) = FlattenSeq(seqs) \o <<>>
    BY <2>1, ConcatEmptySeq
  <2>. QED
    BY <1>1, <2>1, <2>2
<1>5. ASSUME NEW m \in 0..(n - 1), Rest(m + 1)
      PROVE  Rest(m)
  <2>1. PICK rest \in Seq(T) : FlattenSeq(seqs) = FlattenSeq(First(m + 1)) \o rest
    BY <1>5
  <2>2. /\ First(m) \in Seq(Seq(T)) /\ seqs[m + 1] \in Seq(T) /\ FlattenSeq(First(m)) \in Seq(T)
        /\ First(m + 1) = Append(First(m), seqs[m + 1])
    <3>1. m \in 0..n
      BY <1>1
    <3>. QED
      BY <1>2, <1>3, <3>1
  <2>3. FlattenSeq(First(m + 1)) = FlattenSeq(First(m)) \o seqs[m + 1]
    BY <2>2, FlattenAppend
  <2>4. \A s, t, u \in Seq(T) : (s \o t) \o u = s \o (t \o u)
    BY ConcatAssociative
  <2>5. FlattenSeq(seqs) = FlattenSeq(First(m)) \o (seqs[m + 1] \o rest)
    <3>1. (FlattenSeq(First(m)) \o seqs[m + 1]) \o rest = FlattenSeq(First(m)) \o (seqs[m + 1] \o rest)
      BY <2>2, <2>4
    <3>. QED
      BY <2>1, <2>3, <3>1
  <2>6. seqs[m + 1] \o rest \in Seq(T)
    BY <2>2
  <2>. QED
    BY <2>5, <2>6
<1> HIDE DEF Rest
<1>6. Bad = {}
  <2> SUFFICES ASSUME Bad # {}
               PROVE  FALSE
    OBVIOUS
  <2>1. PICK d \in Bad : \A e \in Bad : d <= e
    <3>1. Bad \subseteq Nat
      BY <1>1
    <3>. QED
      BY <3>1, LeastNatural
  <2>2. d # 0 /\ d \in 0..n /\ ~Rest(n - d)
    BY <1>1, <1>4, <2>1
  <2>3. d - 1 \in 0..n /\ d - 1 \notin Bad /\ n - (d - 1) = (n - d) + 1 /\ n - d \in 0..(n - 1)
    <3>1. d - 1 \in 0..n /\ ~(d <= d - 1) /\ n - (d - 1) = (n - d) + 1 /\ n - d \in 0..(n - 1)
      BY <1>1, <2>2
    <3>. QED
      BY <2>1, <3>1
  <2>4. Rest((n - d) + 1)
    BY <2>3
  <2>. QED
    BY <1>5, <2>2, <2>3, <2>4
<1>7. n - k \in 0..n /\ n - (n - k) = k
  BY <1>1 DEF n
<1>8. Rest(k)
  BY <1>6, <1>7
<1>. QED
  BY <1>8 DEF Rest, First

\* Members of at least this many bytes, so many bytes at least.
LEMMA FlattenLong ==
    ASSUME NEW T, NEW seqs \in Seq(Seq(T)), NEW m \in Nat,
           \A i \in 1..Len(seqs) : Len(seqs[i]) >= m
    PROVE  Len(FlattenSeq(seqs)) \in Nat /\ Len(FlattenSeq(seqs)) >= m * Len(seqs)
<1> DEFINE n == Len(seqs)
           First(k) == SubSeq(seqs, 1, k)
           Size(k) == Len(FlattenSeq(First(k)))
           Bad == {k \in 0..n : ~(Size(k) >= m * k)}
<1>1. n \in Nat /\ First(n) = seqs /\ First(0) = <<>>
  OBVIOUS
<1>2. ASSUME NEW k \in 0..n
      PROVE  First(k) \in Seq(Seq(T)) /\ FlattenSeq(First(k)) \in Seq(T) /\ Size(k) \in Nat
  <2>1. First(k) \in Seq(Seq(T))
    OBVIOUS
  <2>2. FlattenSeq(First(k)) \in Seq(T)
    BY <2>1, FlattenTyped
  <2>. QED
    BY <2>1, <2>2
<1>3. \A k \in 0..(n - 1) : First(k + 1) = Append(First(k), seqs[k + 1]) /\ seqs[k + 1] \in Seq(T)
  BY <1>1
<1>4. Size(0) = 0
  <2> HIDE DEF First
  <2>1. FlattenSeq(First(0)) = <<>>
    BY <1>1, FlattenEmpty
  <2>. QED
    BY <2>1
<1>5. ASSUME NEW k \in 0..(n - 1)
      PROVE  Size(k + 1) = Size(k) + Len(seqs[k + 1]) /\ Len(seqs[k + 1]) >= m /\ Len(seqs[k + 1]) \in Nat
  <2> HIDE DEF First
  <2>1. k \in 0..n /\ k + 1 \in 1..n
    BY <1>1
  <2>2. /\ First(k) \in Seq(Seq(T)) /\ FlattenSeq(First(k)) \in Seq(T) /\ seqs[k + 1] \in Seq(T)
        /\ First(k + 1) = Append(First(k), seqs[k + 1])
    BY <1>2, <1>3, <2>1
  <2>3. FlattenSeq(First(k + 1)) = FlattenSeq(First(k)) \o seqs[k + 1]
    BY <2>2, FlattenAppend
  <2>4. Len(FlattenSeq(First(k)) \o seqs[k + 1]) = Len(FlattenSeq(First(k))) + Len(seqs[k + 1])
    BY <2>2
  <2>. QED
    BY <2>1, <2>2, <2>3, <2>4
<1>6. \A k \in 0..n : Size(k) \in Nat
  BY <1>2
<1> HIDE DEF Size, First, n
<1>7. Bad = {}
  <2> SUFFICES ASSUME Bad # {}
               PROVE  FALSE
    OBVIOUS
  <2>1. PICK k \in Bad : \A l \in Bad : k <= l
    <3>1. Bad \subseteq Nat
      BY <1>1
    <3>. QED
      BY <3>1, LeastNatural
  <2>2. k \in 0..n /\ k # 0 /\ k - 1 \in 0..(n - 1) /\ k - 1 \in 0..n /\ (k - 1) + 1 = k
    BY <1>1, <1>4, <2>1
  <2>3. PICK j \in 0..(n - 1) : j = k - 1 /\ j + 1 = k /\ j \in 0..n
    BY <2>2
  <2>4. Size(j) >= m * j
    BY <2>1, <2>3
  <2>5. Size(k) = Size(j) + Len(seqs[k]) /\ Len(seqs[k]) >= m /\ Len(seqs[k]) \in Nat
    BY <1>5, <2>3
  <2>6. m * k = m * j + m /\ m * j \in Nat /\ m * k \in Nat
    BY <2>2, <2>3
  <2>7. Size(k) >= m * k
    BY <1>6, <2>2, <2>3, <2>4, <2>5, <2>6
  <2>. QED
    BY <2>1, <2>7
<1>8. n \in 0..n
  BY <1>1
<1>9. Size(n) \in Nat /\ Size(n) >= m * n
  BY <1>6, <1>7, <1>8
<1>. QED
  BY <1>1, <1>9 DEF Size, n

-----------------------------------------------------------------------------
\* The parts of what is written, found in it again.

LEMMA SeqOfParts ==
    ASSUME NEW S, NEW T, NEW s \in Seq(S), \A i \in 1..Len(s) : s[i] \in T
    PROVE  s \in Seq(T)
OBVIOUS

Joined(x, y, z) ==
    /\ Len(z) = Len(x) + Len(y)
    /\ \A j \in 1..Len(x) : z[j] = x[j]
    /\ \A j \in 1..Len(y) : z[Len(x) + j] = y[j]

LEMMA TwoParts ==
    ASSUME NEW T
    PROVE  \A x, y \in Seq(T) : x \o y \in Seq(T) /\ Joined(x, y, x \o y)
BY DEF Joined

JoinedThree(x, y, z, e) ==
    /\ Len(e) = Len(x) + Len(y) + Len(z)
    /\ \A j \in 1..Len(x) : e[j] = x[j]
    /\ \A j \in 1..Len(y) : e[Len(x) + j] = y[j]
    /\ \A j \in 1..Len(z) : e[Len(x) + Len(y) + j] = z[j]

\* The same for numbers, and that how parts are grouped makes no difference.
LEMMA OneAfterTheOther == \A x, y \in Seq(Nat) : x \o y \in Seq(Nat)
BY SMTT(30)

LEMMA GroupedAtWill == \A x, y, z \in Seq(Nat) : (x \o y) \o z = x \o (y \o z)
BY SMTT(30)

LEMMA ThreeParts ==
    ASSUME NEW T
    PROVE  \A x, y, z \in Seq(T) : x \o y \o z \in Seq(T) /\ JoinedThree(x, y, z, x \o y \o z)
<1> SUFFICES ASSUME NEW a \in Seq(T), NEW b \in Seq(T), NEW c \in Seq(T)
             PROVE  a \o b \o c \in Seq(T) /\ JoinedThree(a, b, c, a \o b \o c)
  OBVIOUS
<1> DEFINE s == a \o b
           t == s \o c
<1>1. s \in Seq(T) /\ Joined(a, b, s)
  BY TwoParts, Zenon
<1> HIDE DEF s
<1>2. t \in Seq(T) /\ Joined(s, c, t)
  BY <1>1, TwoParts, Zenon
<1>3. Len(a) \in Nat /\ Len(b) \in Nat /\ Len(c) \in Nat
  OBVIOUS
<1> HIDE DEF t
<1>4. \A j \in 1..Len(a) : t[j] = a[j]
  <2> TAKE j \in 1..Len(a)
  <2>1. j \in 1..Len(s) /\ s[j] = a[j]
    BY <1>1, <1>3 DEF Joined
  <2>. QED
    BY <1>2, <2>1 DEF Joined
<1>5. \A j \in 1..Len(b) : t[Len(a) + j] = b[j]
  <2> TAKE j \in 1..Len(b)
  <2>1. Len(a) + j \in 1..Len(s) /\ s[Len(a) + j] = b[j]
    BY <1>1, <1>3 DEF Joined
  <2>. QED
    BY <1>2, <2>1 DEF Joined
<1>6. \A j \in 1..Len(c) : t[Len(a) + Len(b) + j] = c[j]
  BY <1>1, <1>2, <1>3 DEF Joined
<1>7. Len(t) = Len(a) + Len(b) + Len(c)
  BY <1>1, <1>2, <1>3 DEF Joined
<1>. QED
  BY <1>2, <1>4, <1>5, <1>6, <1>7 DEF JoinedThree, t, s

-----------------------------------------------------------------------------
\* Where the parts of what was written lie in it, and what the reads return there.

\* f is a part of e that starts after its first p bytes.
Lies(e, p, f) == p + Len(f) <= Len(e) /\ \A j \in 1..Len(f) : e[p + j] = f[j]

\* The file and e agree as far as both go.
Agrees(e) == \A j \in 1..Len(buf) : j <= Len(e) => buf[j] = e[j]

SplitAt(e, p, a, b) ==
    /\ Lies(e, p, a) /\ Lies(e, p + Len(a), b) /\ Len(a) \in Nat /\ Len(b) \in Nat
    /\ Len(a \o b) = Len(a) + Len(b) /\ p + Len(a) \in Nat

LEMMA LiesSplit ==
    ASSUME NEW e \in Seq(Nat), NEW p \in Nat, NEW a \in Seq(Nat), NEW b \in Seq(Nat),
           Lies(e, p, a \o b)
    PROVE  SplitAt(e, p, a, b)
<1> DEFINE c == a \o b
<1>1. c \in Seq(Nat) /\ Joined(a, b, c)
  BY TwoParts, Zenon
<1>2. Lies(e, p, c)
  OBVIOUS
<1> HIDE DEF c
<1>3. Len(a) \in Nat /\ Len(b) \in Nat /\ Len(e) \in Nat /\ Len(c) = Len(a) + Len(b)
  BY <1>1 DEF Joined
<1>4. Lies(e, p, a)
  <2>1. ASSUME NEW j \in 1..Len(a)
        PROVE  e[p + j] = a[j]
    <3>1. j \in 1..Len(c) /\ c[j] = a[j]
      BY <1>1, <1>3 DEF Joined
    <3>. QED
      BY <1>2, <3>1 DEF Lies
  <2>2. p + Len(a) <= Len(e)
    BY <1>2, <1>3 DEF Lies
  <2>. QED
    BY <2>1, <2>2 DEF Lies
<1>5. Lies(e, p + Len(a), b)
  <2>1. ASSUME NEW j \in 1..Len(b)
        PROVE  e[(p + Len(a)) + j] = b[j]
    <3>1. Len(a) + j \in 1..Len(c) /\ c[Len(a) + j] = b[j] /\ p + (Len(a) + j) = (p + Len(a)) + j
      BY <1>1, <1>3 DEF Joined
    <3>. QED
      BY <1>2, <3>1 DEF Lies
  <2>2. (p + Len(a)) + Len(b) <= Len(e)
    BY <1>2, <1>3 DEF Lies
  <2>. QED
    BY <2>1, <2>2 DEF Lies
<1>. QED
  BY <1>3, <1>4, <1>5 DEF c, SplitAt

\* How far the first k members of a list reach.
Reach(items, k) == Len(FlattenSeq(SubSeq(items, 1, k)))

LEMMA LiesItem ==
    ASSUME NEW e \in Seq(Nat), NEW p \in Nat, NEW items \in Seq(Seq(Nat)),
           Lies(e, p, FlattenSeq(items)),
           NEW k \in 0..(Len(items) - 1)
    PROVE  /\ Reach(items, k) \in Nat /\ items[k + 1] \in Seq(Nat) /\ Len(items[k + 1]) \in Nat
           /\ Lies(e, p + Reach(items, k), items[k + 1])
           /\ Reach(items, k + 1) = Reach(items, k) + Len(items[k + 1])
<1> DEFINE before == SubSeq(items, 1, k)
           upto == SubSeq(items, 1, k + 1)
           item == items[k + 1]
<1>1. /\ before \in Seq(Seq(Nat)) /\ upto \in Seq(Seq(Nat)) /\ item \in Seq(Nat)
      /\ upto = Append(before, item) /\ k + 1 \in 0..Len(items)
  OBVIOUS
<1>2. PICK rest \in Seq(Nat) : FlattenSeq(items) = FlattenSeq(upto) \o rest
  BY <1>1, FlattenPrefix
<1> HIDE DEF before, upto, item
<1>3. FlattenSeq(before) \in Seq(Nat) /\ FlattenSeq(upto) \in Seq(Nat)
  BY <1>1, FlattenTyped
<1>4. FlattenSeq(upto) = FlattenSeq(before) \o item
  BY <1>1, FlattenAppend
<1>5. Lies(e, p, FlattenSeq(upto))
  <2>1. Lies(e, p, FlattenSeq(upto) \o rest)
    BY <1>2
  <2>. QED
    BY <1>3, <2>1, LiesSplit DEF SplitAt
<1>6. /\ Lies(e, p + Len(FlattenSeq(before)), item)
      /\ Len(FlattenSeq(upto)) = Len(FlattenSeq(before)) + Len(item)
      /\ Len(FlattenSeq(before)) \in Nat
  <2>1. Lies(e, p, FlattenSeq(before) \o item)
    BY <1>4, <1>5
  <2>. QED
    BY <1>1, <1>3, <1>4, <2>1, LiesSplit DEF SplitAt
<1>7. Reach(items, k) = Len(FlattenSeq(before)) /\ Reach(items, k + 1) = Len(FlattenSeq(upto))
  BY DEF Reach, before, upto
<1>8. Len(item) \in Nat
  BY <1>1
<1>9. Reach(items, k + 1) = Reach(items, k) + Len(item) /\ Reach(items, k) \in Nat
      /\ Lies(e, p + Reach(items, k), item)
  BY <1>6, <1>7, Zenon
<1>. QED
  BY <1>1, <1>8, <1>9, Zenon DEF item

\* All of them, and none of them.
LEMMA ReachEnds ==
    ASSUME NEW items \in Seq(Seq(Nat))
    PROVE  Reach(items, Len(items)) = Len(FlattenSeq(items)) /\ Reach(items, 0) = 0
<1>1. SubSeq(items, 1, Len(items)) = items /\ SubSeq(items, 1, 0) = <<>>
  OBVIOUS
<1>2. FlattenSeq(SubSeq(items, 1, 0)) = <<>>
  BY <1>1, FlattenEmpty
<1>. QED
  BY <1>1, <1>2 DEF Reach

\* What the reads return there.

\* As far as the file goes, f is what it has from offset o on.
HereAt(o, f) == \A j \in 1..Len(f) : o + j <= remaining_len => U8(o + j - 1) = f[j]

LEMMA Faced ==
    ASSUME CursorOK, NEW e \in Seq(Nat), Agrees(e), NEW f \in Seq(Nat), Lies(e, position, f)
    PROVE  HereAt(0, f)
<1>1. position \in Nat /\ Len(buf) \in Nat /\ Len(e) \in Nat /\ Len(f) \in Nat
  BY DEF CursorOK
<1>2. ASSUME NEW j \in 1..Len(f), 0 + j <= remaining_len
      PROVE  U8(0 + j - 1) = f[j]
  <2>1. position + j \in 1..Len(buf) /\ position + j <= Len(e) /\ e[position + j] = f[j]
    <3>1. position + Len(f) <= Len(e) /\ \A i \in 1..Len(f) : e[position + i] = f[i]
      BY Zenon DEF Lies
    <3>2. e[position + j] = f[j]
      BY <3>1, Zenon
    <3>3. position + j \in 1..Len(buf) /\ position + j <= Len(e)
      BY <1>1, <1>2, <3>1 DEF remaining_len
    <3>. QED
      BY <3>2, <3>3
  <2>2. buf[position + j] = f[j]
    BY <2>1 DEF Agrees
  <2>3. position + (0 + j - 1) < Len(buf) /\ position + (0 + j - 1) + 1 = position + j
    BY <1>1, <2>1
  <2>. QED
    BY <2>2, <2>3 DEF U8
<1>. QED
  BY <1>2 DEF HereAt

HereBoth(o, a, b) ==
    /\ HereAt(o, a) /\ HereAt(o + Len(a), b) /\ Len(a) \in Nat /\ Len(b) \in Nat
    /\ Len(a \o b) = Len(a) + Len(b) /\ o + Len(a) \in Nat /\ a \o b \in Seq(Nat)

LEMMA HereSplit ==
    ASSUME NEW o \in Nat, NEW a \in Seq(Nat), NEW b \in Seq(Nat), HereAt(o, a \o b)
    PROVE  HereBoth(o, a, b)
<1> DEFINE c == a \o b
<1>1. c \in Seq(Nat) /\ Joined(a, b, c)
  BY TwoParts, Zenon
<1>2. HereAt(o, c)
  OBVIOUS
<1> HIDE DEF c
<1>3. Len(a) \in Nat /\ Len(b) \in Nat /\ Len(c) = Len(a) + Len(b)
  BY <1>1 DEF Joined
<1>4. ASSUME NEW j \in 1..Len(a), o + j <= remaining_len
      PROVE  U8(o + j - 1) = a[j]
  <2>1. j \in 1..Len(c) /\ c[j] = a[j]
    BY <1>1, <1>3 DEF Joined
  <2>. QED
    BY <1>2, <1>4, <2>1 DEF HereAt
<1>5. ASSUME NEW j \in 1..Len(b), (o + Len(a)) + j <= remaining_len
      PROVE  U8((o + Len(a)) + j - 1) = b[j]
  <2>1. Len(a) + j \in 1..Len(c) /\ c[Len(a) + j] = b[j] /\ o + (Len(a) + j) = (o + Len(a)) + j
    BY <1>1, <1>3 DEF Joined
  <2>. QED
    BY <1>2, <1>5, <2>1 DEF HereAt
<1>. QED
  BY <1>1, <1>3, <1>4, <1>5 DEF c, HereAt, HereBoth

-----------------------------------------------------------------------------
\* Rows of checks that fail for want of bytes only.

\* Row i passes, or raises "Truncated" with fewer than n bytes there, the rows before it having passed.
OnlyShort(checks, n) ==
    \A i \in DOMAIN checks :
        (\A j \in DOMAIN checks : j < i => checks[j] = "ok") =>
            \/ checks[i] = "ok"
            \/ checks[i] = "Truncated" /\ remaining_len < n

LEMMA FailsShort ==
    ASSUME NEW checks \in Seq(Outcomes), NEW n, OnlyShort(checks, n), ~Passes(checks)
    PROVE  FirstFailure(checks) = "Truncated" /\ remaining_len < n
<1>1. PICK i \in DOMAIN checks : /\ FirstFailure(checks) = checks[i] /\ checks[i] \in ErrorKinds
                                 /\ \A j \in DOMAIN checks : j < i => checks[j] = "ok"
  BY FirstFailureIsFirst
<1>2. checks[i] # "ok"
  BY <1>1 DEF ErrorKinds
<1>. QED
  BY <1>1, <1>2 DEF OnlyShort

\* A row that passes, or finds fewer than n bytes.
Short(row, n) == row = "ok" \/ (row = "Truncated" /\ remaining_len < n)


\* A read of no more than n bytes, and a check that holds.
LEMMA ReadShort ==
    ASSUME remaining_len \in Int, NEW n \in Int, NEW k \in Int, k <= n
    PROVE  Short(Read(k), n) /\ (Read(k) = "ok" => k <= remaining_len)
BY DEF Short, Read, Check

LEMMA CheckShort ==
    ASSUME NEW c \in BOOLEAN, NEW kind, NEW n, c
    PROVE  Short(Check(c, kind), n)
BY DEF Short, Check

LEMMA Short3 ==
    ASSUME NEW a, NEW b, NEW c, NEW n,
           Short(a, n),
           a = "ok" => Short(b, n),
           a = "ok" /\ b = "ok" => Short(c, n)
    PROVE  OnlyShort(<<a, b, c>>, n)
<1>1. PICK rows : rows = <<a, b, c>>
  OBVIOUS
<1>2. DOMAIN rows = 1..3 /\ rows[1] = a /\ rows[2] = b /\ rows[3] = c
  BY <1>1
<1>3. ASSUME NEW i \in 1..3, \A j \in 1..3 : j < i => rows[j] = "ok"
      PROVE  Short(rows[i], n)
  <2>1. CASE i = 1
    BY <1>2, <1>3, <2>1
  <2>2. CASE i = 2
    BY <1>2, <1>3, <2>2
  <2>3. CASE i = 3
    BY <1>2, <1>3, <2>3
  <2>. QED
    BY <2>1, <2>2, <2>3
<1>4. OnlyShort(rows, n)
  BY <1>2, <1>3 DEF OnlyShort, Short
<1>. QED
  BY <1>1, <1>4

LEMMA Short4 ==
    ASSUME NEW a, NEW b, NEW c, NEW d, NEW n,
           Short(a, n),
           a = "ok" => Short(b, n),
           a = "ok" /\ b = "ok" => Short(c, n),
           a = "ok" /\ b = "ok" /\ c = "ok" => Short(d, n)
    PROVE  OnlyShort(<<a, b, c, d>>, n)
<1>1. PICK rows : rows = <<a, b, c, d>>
  OBVIOUS
<1>2. DOMAIN rows = 1..4 /\ rows[1] = a /\ rows[2] = b /\ rows[3] = c /\ rows[4] = d
  BY <1>1
<1>3. ASSUME NEW i \in 1..4, \A j \in 1..4 : j < i => rows[j] = "ok"
      PROVE  Short(rows[i], n)
  <2>1. CASE i = 1
    BY <1>2, <1>3, <2>1
  <2>2. CASE i = 2
    BY <1>2, <1>3, <2>2
  <2>3. CASE i = 3
    BY <1>2, <1>3, <2>3
  <2>4. CASE i = 4
    BY <1>2, <1>3, <2>4
  <2>. QED
    BY <2>1, <2>2, <2>3, <2>4
<1>4. OnlyShort(rows, n)
  BY <1>2, <1>3 DEF OnlyShort, Short
<1>. QED
  BY <1>1, <1>4

LEMMA Short5 ==
    ASSUME NEW a, NEW b, NEW c, NEW d, NEW e, NEW n,
           Short(a, n),
           a = "ok" => Short(b, n),
           a = "ok" /\ b = "ok" => Short(c, n),
           a = "ok" /\ b = "ok" /\ c = "ok" => Short(d, n),
           a = "ok" /\ b = "ok" /\ c = "ok" /\ d = "ok" => Short(e, n)
    PROVE  OnlyShort(<<a, b, c, d, e>>, n)
<1>1. PICK rows : rows = <<a, b, c, d, e>>
  OBVIOUS
<1>2. DOMAIN rows = 1..5 /\ rows[1] = a /\ rows[2] = b /\ rows[3] = c /\ rows[4] = d /\ rows[5] = e
  BY <1>1
<1>3. ASSUME NEW i \in 1..5, \A j \in 1..5 : j < i => rows[j] = "ok"
      PROVE  Short(rows[i], n)
  <2>1. CASE i = 1
    BY <1>2, <1>3, <2>1
  <2>2. CASE i = 2
    BY <1>2, <1>3, <2>2
  <2>3. CASE i = 3
    BY <1>2, <1>3, <2>3
  <2>4. CASE i = 4
    BY <1>2, <1>3, <2>4
  <2>5. CASE i = 5
    BY <1>2, <1>3, <2>5
  <2>. QED
    BY <2>1, <2>2, <2>3, <2>4, <2>5
<1>4. OnlyShort(rows, n)
  BY <1>2, <1>3 DEF OnlyShort, Short
<1>. QED
  BY <1>1, <1>4

LEMMA Short6 ==
    ASSUME NEW a, NEW b, NEW c, NEW d, NEW e, NEW f, NEW n,
           Short(a, n),
           a = "ok" => Short(b, n),
           a = "ok" /\ b = "ok" => Short(c, n),
           a = "ok" /\ b = "ok" /\ c = "ok" => Short(d, n),
           a = "ok" /\ b = "ok" /\ c = "ok" /\ d = "ok" => Short(e, n),
           a = "ok" /\ b = "ok" /\ c = "ok" /\ d = "ok" /\ e = "ok" => Short(f, n)
    PROVE  OnlyShort(<<a, b, c, d, e, f>>, n)
<1>1. PICK rows : rows = <<a, b, c, d, e, f>>
  OBVIOUS
<1>2. DOMAIN rows = 1..6 /\ rows[1] = a /\ rows[2] = b /\ rows[3] = c /\ rows[4] = d /\ rows[5] = e /\ rows[6] = f
  BY <1>1
<1>3. ASSUME NEW i \in 1..6, \A j \in 1..6 : j < i => rows[j] = "ok"
      PROVE  Short(rows[i], n)
  <2>1. CASE i = 1
    BY <1>2, <1>3, <2>1
  <2>2. CASE i = 2
    BY <1>2, <1>3, <2>2
  <2>3. CASE i = 3
    BY <1>2, <1>3, <2>3
  <2>4. CASE i = 4
    BY <1>2, <1>3, <2>4
  <2>5. CASE i = 5
    BY <1>2, <1>3, <2>5
  <2>6. CASE i = 6
    BY <1>2, <1>3, <2>6
  <2>. QED
    BY <2>1, <2>2, <2>3, <2>4, <2>5, <2>6
<1>4. OnlyShort(rows, n)
  BY <1>2, <1>3 DEF OnlyShort, Short
<1>. QED
  BY <1>1, <1>4

LEMMA Short7 ==
    ASSUME NEW a, NEW b, NEW c, NEW d, NEW e, NEW f, NEW g, NEW n,
           Short(a, n),
           a = "ok" => Short(b, n),
           a = "ok" /\ b = "ok" => Short(c, n),
           a = "ok" /\ b = "ok" /\ c = "ok" => Short(d, n),
           a = "ok" /\ b = "ok" /\ c = "ok" /\ d = "ok" => Short(e, n),
           a = "ok" /\ b = "ok" /\ c = "ok" /\ d = "ok" /\ e = "ok" => Short(f, n),
           a = "ok" /\ b = "ok" /\ c = "ok" /\ d = "ok" /\ e = "ok" /\ f = "ok" => Short(g, n)
    PROVE  OnlyShort(<<a, b, c, d, e, f, g>>, n)
<1>1. PICK rows : rows = <<a, b, c, d, e, f, g>>
  OBVIOUS
<1>2. DOMAIN rows = 1..7 /\ rows[1] = a /\ rows[2] = b /\ rows[3] = c /\ rows[4] = d /\ rows[5] = e /\ rows[6] = f /\ rows[7] = g
  BY <1>1
<1>3. ASSUME NEW i \in 1..7, \A j \in 1..7 : j < i => rows[j] = "ok"
      PROVE  Short(rows[i], n)
  <2>1. CASE i = 1
    BY <1>2, <1>3, <2>1
  <2>2. CASE i = 2
    BY <1>2, <1>3, <2>2
  <2>3. CASE i = 3
    BY <1>2, <1>3, <2>3
  <2>4. CASE i = 4
    BY <1>2, <1>3, <2>4
  <2>5. CASE i = 5
    BY <1>2, <1>3, <2>5
  <2>6. CASE i = 6
    BY <1>2, <1>3, <2>6
  <2>7. CASE i = 7
    BY <1>2, <1>3, <2>7
  <2>. QED
    BY <2>1, <2>2, <2>3, <2>4, <2>5, <2>6, <2>7
<1>4. OnlyShort(rows, n)
  BY <1>2, <1>3 DEF OnlyShort, Short
<1>. QED
  BY <1>1, <1>4

LEMMA Short8 ==
    ASSUME NEW a, NEW b, NEW c, NEW d, NEW e, NEW f, NEW g, NEW h, NEW n,
           Short(a, n),
           a = "ok" => Short(b, n),
           a = "ok" /\ b = "ok" => Short(c, n),
           a = "ok" /\ b = "ok" /\ c = "ok" => Short(d, n),
           a = "ok" /\ b = "ok" /\ c = "ok" /\ d = "ok" => Short(e, n),
           a = "ok" /\ b = "ok" /\ c = "ok" /\ d = "ok" /\ e = "ok" => Short(f, n),
           a = "ok" /\ b = "ok" /\ c = "ok" /\ d = "ok" /\ e = "ok" /\ f = "ok" => Short(g, n),
           a = "ok" /\ b = "ok" /\ c = "ok" /\ d = "ok" /\ e = "ok" /\ f = "ok" /\ g = "ok" => Short(h, n)
    PROVE  OnlyShort(<<a, b, c, d, e, f, g, h>>, n)
<1>1. PICK rows : rows = <<a, b, c, d, e, f, g, h>>
  OBVIOUS
<1>2. DOMAIN rows = 1..8 /\ rows[1] = a /\ rows[2] = b /\ rows[3] = c /\ rows[4] = d /\ rows[5] = e /\ rows[6] = f /\ rows[7] = g /\ rows[8] = h
  BY <1>1
<1>3. ASSUME NEW i \in 1..8, \A j \in 1..8 : j < i => rows[j] = "ok"
      PROVE  Short(rows[i], n)
  <2>1. CASE i = 1
    BY <1>2, <1>3, <2>1
  <2>2. CASE i = 2
    BY <1>2, <1>3, <2>2
  <2>3. CASE i = 3
    BY <1>2, <1>3, <2>3
  <2>4. CASE i = 4
    BY <1>2, <1>3, <2>4
  <2>5. CASE i = 5
    BY <1>2, <1>3, <2>5
  <2>6. CASE i = 6
    BY <1>2, <1>3, <2>6
  <2>7. CASE i = 7
    BY <1>2, <1>3, <2>7
  <2>8. CASE i = 8
    BY <1>2, <1>3, <2>8
  <2>. QED
    BY <2>1, <2>2, <2>3, <2>4, <2>5, <2>6, <2>7, <2>8
<1>4. OnlyShort(rows, n)
  BY <1>2, <1>3 DEF OnlyShort, Short
<1>. QED
  BY <1>1, <1>4

LEMMA Short9 ==
    ASSUME NEW a, NEW b, NEW c, NEW d, NEW e, NEW f, NEW g, NEW h, NEW z, NEW n,
           Short(a, n),
           a = "ok" => Short(b, n),
           a = "ok" /\ b = "ok" => Short(c, n),
           a = "ok" /\ b = "ok" /\ c = "ok" => Short(d, n),
           a = "ok" /\ b = "ok" /\ c = "ok" /\ d = "ok" => Short(e, n),
           a = "ok" /\ b = "ok" /\ c = "ok" /\ d = "ok" /\ e = "ok" => Short(f, n),
           a = "ok" /\ b = "ok" /\ c = "ok" /\ d = "ok" /\ e = "ok" /\ f = "ok" => Short(g, n),
           a = "ok" /\ b = "ok" /\ c = "ok" /\ d = "ok" /\ e = "ok" /\ f = "ok" /\ g = "ok" => Short(h, n),
           a = "ok" /\ b = "ok" /\ c = "ok" /\ d = "ok" /\ e = "ok" /\ f = "ok" /\ g = "ok" /\ h = "ok" => Short(z, n)
    PROVE  OnlyShort(<<a, b, c, d, e, f, g, h, z>>, n)
<1>1. PICK rows : rows = <<a, b, c, d, e, f, g, h, z>>
  OBVIOUS
<1>2. DOMAIN rows = 1..9 /\ rows[1] = a /\ rows[2] = b /\ rows[3] = c /\ rows[4] = d /\ rows[5] = e /\ rows[6] = f /\ rows[7] = g /\ rows[8] = h /\ rows[9] = z
  BY <1>1
<1>3. ASSUME NEW i \in 1..9, \A j \in 1..9 : j < i => rows[j] = "ok"
      PROVE  Short(rows[i], n)
  <2>1. CASE i = 1
    BY <1>2, <1>3, <2>1
  <2>2. CASE i = 2
    BY <1>2, <1>3, <2>2
  <2>3. CASE i = 3
    BY <1>2, <1>3, <2>3
  <2>4. CASE i = 4
    BY <1>2, <1>3, <2>4
  <2>5. CASE i = 5
    BY <1>2, <1>3, <2>5
  <2>6. CASE i = 6
    BY <1>2, <1>3, <2>6
  <2>7. CASE i = 7
    BY <1>2, <1>3, <2>7
  <2>8. CASE i = 8
    BY <1>2, <1>3, <2>8
  <2>9. CASE i = 9
    BY <1>2, <1>3, <2>9
  <2>. QED
    BY <2>1, <2>2, <2>3, <2>4, <2>5, <2>6, <2>7, <2>8, <2>9
<1>4. OnlyShort(rows, n)
  BY <1>2, <1>3 DEF OnlyShort, Short
<1>. QED
  BY <1>1, <1>4

-----------------------------------------------------------------------------
\* What the reads return of what was written.

LEMMA ReadsBytes ==
    ASSUME CursorOK, NEW o \in Nat, NEW f \in Seq(Nat), HereAt(o, f), o + Len(f) <= remaining_len
    PROVE  Bytes(o, Len(f)) = f
<1> DEFINE n == Len(f)
<1>1. position \in Nat /\ Len(buf) \in Nat /\ n \in Nat
  BY DEF CursorOK
<1>2. position + o + n <= Len(buf)
  BY <1>1 DEF remaining_len
<1>3. Bytes(o, n) \in Seq(U8Values) /\ Len(Bytes(o, n)) = n
  BY <1>1, <1>2, BytesRead
<1>4. ASSUME NEW j \in 1..n
      PROVE  Bytes(o, n)[j] = f[j]
  <2>1. Bytes(o, n)[j] = U8(o + j - 1)
    BY <1>1, <1>2, ByteOf
  <2>2. o + j <= remaining_len
    BY <1>1, <1>2 DEF remaining_len
  <2>. QED
    BY <2>1, <2>2 DEF HereAt
<1>5. Bytes(o, n) \in Seq(Nat)
  <2>1. U8Values \subseteq Nat
    BY DEF U8Values
  <2>. QED
    BY <1>3, <2>1, SeqMonotonic
<1>. QED
  BY <1>3, <1>4, <1>5, SeqEqual

LEMMA ReadsU8 ==
    ASSUME CursorOK, NEW o \in Nat, NEW b \in Nat, HereAt(o, <<b>>), o + 1 <= remaining_len
    PROVE  U8(o) = b
<1>1. 1 \in 1..Len(<<b>>) /\ <<b>>[1] = b /\ o + 1 - 1 = o
  OBVIOUS
<1>. QED
  BY <1>1 DEF HereAt

-----------------------------------------------------------------------------
\* How much of a list that was written has been parsed.

Part(list, more, whole) == Len(list) + more = Len(whole) /\ list = SubSeq(whole, 1, Len(list))

LEMMA PartBegins ==
    ASSUME NEW T, NEW whole \in Seq(T)
    PROVE  Part(<<>>, Len(whole), whole)
<1>1. SubSeq(whole, 1, 0) = <<>> /\ Len(<<>>) = 0 /\ Len(whole) \in Nat
  OBVIOUS
<1>. QED
  BY <1>1 DEF Part

LEMMA PartEnds ==
    ASSUME NEW T, NEW whole \in Seq(T), NEW list, Len(list) \in Nat, Part(list, 0, whole)
    PROVE  list = whole
<1>1. Len(list) = Len(whole) /\ list = SubSeq(whole, 1, Len(list))
  BY DEF Part
<1>2. SubSeq(whole, 1, Len(whole)) = whole
  OBVIOUS
<1>. QED
  BY <1>1, <1>2, Zenon

\* What comes next, and what it makes of the part.
NextInList(list, more, whole) ==
    LET k == Len(list)
    IN  /\ k \in Nat /\ k + 1 \in 1..Len(whole) /\ Len(whole) \in Nat
        /\ DOMAIN list = 1..k /\ DOMAIN whole = 1..Len(whole)
        /\ \A i \in 1..k : list[i] = whole[i] /\ i # k + 1 /\ i \in 1..Len(whole)
        /\ Part(Append(list, whole[k + 1]), more - 1, whole)
        /\ Len(Append(list, whole[k + 1])) = k + 1

LEMMA PartGrows ==
    ASSUME NEW T, NEW whole \in Seq(T), NEW list, NEW more \in Nat, more # 0, Len(list) \in Nat,
           Part(list, more, whole)
    PROVE  NextInList(list, more, whole) /\ whole[Len(list) + 1] \in T
<1>1. PICK k \in Nat : k = Len(list)
  OBVIOUS
<1>2. k + more = Len(whole) /\ list = SubSeq(whole, 1, k) /\ Len(whole) \in Nat
  BY <1>1 DEF Part
<1>3. k + 1 \in 1..Len(whole) /\ k \in 0..Len(whole)
  BY <1>2
<1>4. list \in Seq(T) /\ DOMAIN list = 1..k
  BY <1>2, <1>3
<1>5. \A i \in 1..k : list[i] = whole[i] /\ i # k + 1 /\ i \in 1..Len(whole)
  BY <1>2, <1>3
<1>6. whole[k + 1] \in T /\ DOMAIN whole = 1..Len(whole)
  BY <1>3
<1>7. Append(list, whole[k + 1]) = SubSeq(whole, 1, k + 1) /\ Len(Append(list, whole[k + 1])) = k + 1
  <2>1. Append(SubSeq(whole, 1, k), whole[k + 1]) = SubSeq(whole, 1, k + 1)
    BY <1>3
  <2>2. Len(SubSeq(whole, 1, k + 1)) = k + 1
    BY <1>3
  <2>. QED
    BY <1>2, <2>1, <2>2
<1>8. Part(Append(list, whole[k + 1]), more - 1, whole)
  <2>1. (k + 1) + (more - 1) = Len(whole)
    BY <1>2
  <2>. QED
    BY <1>7, <2>1 DEF Part
<1>. QED
  BY <1>1, <1>2, <1>3, <1>4, <1>5, <1>6, <1>7, <1>8 DEF NextInList

\* A buffer that begins with e, or that e begins with, agrees with it.
LEMMA PrefixAgrees ==
    ASSUME NEW e \in Seq(Nat), buf \in Seq(Nat)
    PROVE  /\ IsPrefix(e, buf) \/ IsPrefix(buf, e) => Agrees(e)
           /\ IsPrefix(e, buf) => Len(e) <= Len(buf)
           /\ IsStrictPrefix(buf, e) => Len(buf) < Len(e)
<1>1. PICK b : b = buf /\ b \in Seq(Nat) /\ Len(b) \in Nat /\ Len(e) \in Nat
  OBVIOUS
<1>2. ASSUME NEW x \in Seq(Nat), NEW y \in Seq(Nat), IsPrefix(x, y)
      PROVE  Len(x) <= Len(y) /\ \A j \in 1..Len(x) : x[j] = y[j]
  <2>1. Len(x) <= Len(y) /\ SubSeq(x, 1, Len(x)) = SubSeq(y, 1, Len(x)) /\ Len(x) \in Nat /\ Len(y) \in Nat
    BY <1>2 DEF IsPrefix
  <2>2. ASSUME NEW j \in 1..Len(x)
        PROVE  x[j] = y[j]
    <3>1. SubSeq(x, 1, Len(x))[j] = x[j] /\ SubSeq(y, 1, Len(x))[j] = y[j]
      BY <2>1
    <3>. QED
      BY <2>1, <3>1
  <2>. QED
    BY <2>1, <2>2
<1>3. ASSUME IsPrefix(e, buf)
      PROVE  Agrees(e) /\ Len(e) <= Len(buf)
  <2>1. Len(e) <= Len(b) /\ \A j \in 1..Len(e) : e[j] = b[j]
    BY <1>1, <1>2, <1>3
  <2>. QED
    BY <1>1, <2>1 DEF Agrees
<1>4. ASSUME IsPrefix(buf, e)
      PROVE  Agrees(e) /\ (buf # e => Len(buf) < Len(e))
  <2>1. Len(b) <= Len(e) /\ \A j \in 1..Len(b) : b[j] = e[j]
    BY <1>1, <1>2, <1>4
  <2>2. ASSUME Len(b) = Len(e)
        PROVE  b = e
    <3>1. b = [j \in 1..Len(b) |-> b[j]] /\ e = [j \in 1..Len(e) |-> e[j]]
      BY <1>1
    <3>2. [j \in 1..Len(b) |-> b[j]] = [j \in 1..Len(e) |-> e[j]]
      BY <2>1, <2>2
    <3>. QED
      BY <3>1, <3>2, Zenon
  <2>. QED
    BY <1>1, <2>1, <2>2 DEF Agrees
<1>. QED
  BY <1>3, <1>4 DEF IsStrictPrefix
=============================================================================

------------------------------- MODULE PowProofs -------------------------------
(***************************************************************************)
(* Proofs about the proof of work a header asks for: the counts of         *)
(* SecondAlgoCount and the nBits of DualAlgoDifficulty, for every tree of  *)
(* blocks, activation height, half-life and spacing, with the lemmas on    *)
(* the numbers of ArithUint they rest on.                                  *)
(***************************************************************************)
EXTENDS DualAlgoDifficulty, BlockTreeProofs, FiniteSetTheorems

-----------------------------------------------------------------------------
(* ArithUint *)

LEMMA Highest ==
  ASSUME NEW n \in Nat, NEW S \in SUBSET (1..n), S # {}
  PROVE  \E i \in S : \A j \in S : j <= i
<1> DEFINE T == {n - i : i \in S}
<1>0. PICK e \in S : TRUE BY Zenon
<1>1. T \subseteq Nat /\ T # {}
  <2>1. n - e \in T BY <1>0
  <2>2. \A i \in S : n - i \in Nat OBVIOUS
  <2> QED BY <2>1, <2>2
<1>2. PICK x \in T : \A y \in T : ~ (<<y, x>> \in OpToRel(<, Nat))
  BY Zenon, <1>1, WFMin, NatLessThanWellFounded
<1>3. \A y \in T : ~(y < x) BY Zenon, <1>1, <1>2 DEF OpToRel
<1>4. PICK i \in S : x = n - i OBVIOUS
<1>5. ASSUME NEW j \in S PROVE j <= i
  <2>1. n - j \in T OBVIOUS
  <2>2. ~(n - j < n - i) BY <1>3, <1>4, <2>1
  <2> QED BY <2>2
<1> QED BY <1>5

(* A function on 1..w, made a sequence *)
LEMMA SubSeqIs ==
  ASSUME NEW S, NEW a \in Seq(S), NEW n \in 0..Len(a)
  PROVE  /\ SubSeq(a, 1, n) \in Seq(S) /\ Len(SubSeq(a, 1, n)) = n
         /\ \A i \in 1..n : SubSeq(a, 1, n)[i] = a[i]
  OBVIOUS

LEMMA Tabulated ==
  ASSUME NEW w \in Nat, NEW S, NEW f \in [1..w -> S]
  PROVE  SubSeq(f, 1, w) = f /\ Len(f) = w
<1>1. f \in Seq(S) /\ Len(f) = w OBVIOUS
<1>2. /\ SubSeq(f, 1, w) \in Seq(S) /\ Len(SubSeq(f, 1, w)) = w
      /\ \A i \in 1..w : SubSeq(f, 1, w)[i] = f[i]
  BY <1>1, SubSeqIs
<1> QED BY <1>1, <1>2

(* A byte on its own *)
LEMMA ByteRange == ASSUME NEW x \in Byte PROVE x \in Nat /\ x < 256 BY DEF Byte

LEMMA RangeByte == ASSUME NEW x \in Nat, x < 256 PROVE x \in Byte BY DEF Byte

LEMMA ModByte == ASSUME NEW x \in Nat PROVE x % 256 \in Byte
<1>1. x % 256 \in Nat /\ x % 256 < 256 OBVIOUS
<1> QED BY <1>1, RangeByte

LEMMA OfByte ==
  ASSUME NEW x \in Nat, x < 256
  PROVE  /\ x % 256 = x /\ x \div 256 = 0
         /\ (x \div 256^0) % 256 = x /\ (x \div 256^1) % 256 = 0
         /\ (x \div 256^2) % 256 = 0 /\ (x \div 256^3) % 256 = 0
<1>1. x % 256 = x /\ x \div 256 = 0 BY SMTT(30)
<1>2. (x \div 256^0) % 256 = x BY SMTT(30)
<1>3. (x \div 256^1) % 256 = 0 BY SMTT(30)
<1>4. (x \div 256^2) % 256 = 0 BY SMTT(30)
<1>5. (x \div 256^3) % 256 = 0 BY SMTT(30)
<1> QED BY SMTT(30), <1>1, <1>2, <1>3, <1>4, <1>5

LEMMA ByteIs ==
  /\ \A x \in Byte : x \in Nat /\ x < 256 /\ x % 256 = x /\ x \div 256 = 0
  /\ \A x \in Nat : x % 256 \in Byte
  /\ 0 \in Byte
<1>1. \A x \in Byte : x \in Nat /\ x < 256 /\ x % 256 = x /\ x \div 256 = 0
  <2> SUFFICES ASSUME NEW x \in Byte
               PROVE  x \in Nat /\ x < 256 /\ x % 256 = x /\ x \div 256 = 0
    OBVIOUS
  <2>1. x \in Nat /\ x < 256 BY ByteRange
  <2> QED BY <2>1, OfByte
<1>2. 0 \in Byte BY RangeByte
<1> QED BY <1>1, <1>2, ModByte

LEMMA BytesAre ==
  ASSUME NEW w \in Nat, NEW a \in Bytes(w)
  PROVE  a \in [1..w -> Nat] /\ Len(a) = w /\ \A i \in 1..w : a[i] \in Byte
<1>1. a \in [1..w -> Byte] BY DEF Bytes
<1>2. Len(a) = w BY <1>1, Tabulated
<1>3. a \in [1..w -> Nat] BY <1>1, ByteIs
<1> QED BY <1>1, <1>2, <1>3

LEMMA FromIs ==
  ASSUME NEW v \in Nat, NEW a \in Bytes(v), NEW w \in Nat
  PROVE  /\ From(a, w) \in Bytes(w)
         /\ From(a, w) = [i \in 1..w |-> IF i <= v THEN a[i] ELSE 0]
<1> DEFINE f == [i \in 1..w |-> IF i <= v THEN a[i] ELSE 0]
<1>1. Len(a) = v BY Tabulated DEF Bytes
<1>2. f \in Bytes(w) BY BytesAre, ByteIs DEF Bytes
<1>3. From(a, w) = SubSeq(f, 1, w) BY <1>1 DEF From
<1> HIDE DEF f
<1>4. From(a, w) = f BY <1>2, <1>3, Tabulated DEF Bytes
<1> QED BY <1>2, <1>4 DEF f

Words == {n \in Nat : n < 16777216}

LEMMA SmallIs ==
  ASSUME NEW n \in Words, NEW w \in Nat
  PROVE  /\ Small(n, w) \in Bytes(w)
         /\ \A i \in 1..w : /\ i = 1 => Small(n, w)[i] = n % 256
                            /\ i = 2 => Small(n, w)[i] = (n \div 256) % 256
                            /\ i = 3 => Small(n, w)[i] = (n \div 65536) % 256
                            /\ i > 3 => Small(n, w)[i] = 0
<1> DEFINE a == <<n % 256, (n \div 256) % 256, (n \div 65536) % 256, n \div 16777216>>
<1>0. n \in Nat /\ n < 16777216 BY SMTT(30) DEF Words
<1>1. n \in Nat /\ n \div 16777216 = 0 BY SMTT(30), <1>0
<1>2. n % 256 \in Byte /\ (n \div 256) % 256 \in Byte /\ (n \div 65536) % 256 \in Byte
  <2>1. n \div 256 \in Nat /\ n \div 65536 \in Nat BY SMTT(30), <1>1
  <2> QED BY <1>1, <2>1, ModByte
<1>3. a \in Bytes(4) /\ a[1] = n % 256 /\ a[2] = (n \div 256) % 256
      /\ a[3] = (n \div 65536) % 256 /\ a[4] = 0
  BY SMTT(30), <1>1, <1>2, ByteIs DEF Bytes
<1>4. Small(n, w) = From(a, w) BY SMTT(30) DEF Small
<1> HIDE DEF a
<1>5. Small(n, w) \in Bytes(w) /\ Small(n, w) = [i \in 1..w |-> IF i <= 4 THEN a[i] ELSE 0]
  BY <1>3, <1>4, FromIs
<1> QED BY SMTT(30), <1>3, <1>5

LEMMA SumType ==
  ASSUME NEW w \in Nat, NEW digits \in [1..w -> Nat], NEW i \in 1..w
  PROVE  Sum(digits, i) \in Nat
<1> DEFINE Part(k) == IF k < i THEN (digits[i - k] \div 256^k) % 256 ELSE 0
<1>1. /\ digits[i] \in Nat /\ (1 < i => digits[i - 1] \in Nat)
      /\ (2 < i => digits[i - 2] \in Nat) /\ (3 < i => digits[i - 3] \in Nat)
  OBVIOUS
<1>2. i - 0 = i OBVIOUS
<1>3. Part(0) \in Nat BY <1>1, <1>2
<1>4. Part(1) \in Nat BY <1>1
<1>5. Part(2) \in Nat BY <1>1
<1>6. Part(3) \in Nat BY <1>1
<1>7. Sum(digits, i) = Part(0) + Part(1) + Part(2) + Part(3) BY DEF Sum
<1> HIDE DEF Part
<1> QED BY <1>3, <1>4, <1>5, <1>6, <1>7

LEMMA SumsIs ==
  ASSUME NEW w \in Nat, NEW digits \in [1..w -> Nat]
  PROVE  /\ Sums(digits) \in [1..w -> Nat]
         /\ Sums(digits) = [i \in 1..w |-> Sum(digits, i)]
<1> DEFINE f == [i \in 1..w |-> Sum(digits, i)]
<1>1. Len(digits) = w BY Tabulated
<1>2. f \in [1..w -> Nat] BY SumType
<1>3. Sums(digits) = SubSeq(f, 1, w) BY <1>1 DEF Sums
<1> HIDE DEF f
<1>4. Sums(digits) = f BY <1>2, <1>3, Tabulated
<1> QED BY <1>2, <1>4 DEF f

Handed(sums, i) == (sums[i] % 256) + IF i = 1 THEN 0 ELSE sums[i - 1] \div 256

LEMMA HandedOnIs ==
  ASSUME NEW w \in Nat, NEW sums \in [1..w -> Nat]
  PROVE  /\ HandedOn(sums) \in [1..w -> Nat]
         /\ \A i \in 1..w : HandedOn(sums)[i] = Handed(sums, i)
<1> DEFINE g == [i \in 1..w |-> Handed(sums, i)]
<1>1. Len(sums) = w BY Tabulated
<1>2. g \in [1..w -> Nat]
  <2> SUFFICES ASSUME NEW i \in 1..w PROVE Handed(sums, i) \in Nat OBVIOUS
  <2>1. sums[i] \in Nat /\ (i # 1 => sums[i - 1] \in Nat) OBVIOUS
  <2> QED BY <2>1 DEF Handed
<1>3. HandedOn(sums) = SubSeq(g, 1, w) BY <1>1, Zenon DEF HandedOn, Handed
<1> HIDE DEF g
<1>4. HandedOn(sums) = g BY <1>2, <1>3, Tabulated
<1> QED BY <1>2, <1>4 DEF g

LEMMA CarriedIs ==
  ASSUME NEW w \in Nat, NEW digits \in [1..w -> Nat]
  PROVE  LET d    == HandedOn(Sums(digits))
             full == {i \in 1..w : d[i] > 255}
         IN  /\ Carried(digits) \in Bytes(w)
             /\ Carried(digits) = [i \in 1..w |-> (d[i] + Carry(d, full, i)) % 256]
<1> DEFINE d == HandedOn(Sums(digits))
           full == {i \in 1..w : d[i] > 255}
           h == [i \in 1..w |-> (d[i] + Carry(d, full, i)) % 256]
<1>1. Len(digits) = w BY Tabulated
<1>2. d \in [1..w -> Nat] BY SumsIs, HandedOnIs
<1>3. Carried(digits) = SubSeq(h, 1, w) BY <1>1 DEF Carried
<1> HIDE DEF d, full
<1>4. \A i \in 1..w : Carry(d, full, i) \in 0..1 BY DEF Carry
<1>5. h \in Bytes(w)
  <2> SUFFICES ASSUME NEW i \in 1..w PROVE (d[i] + Carry(d, full, i)) % 256 \in Byte
    BY DEF Bytes
  <2>1. d[i] \in Nat /\ Carry(d, full, i) \in Nat BY <1>2, <1>4
  <2>2. d[i] + Carry(d, full, i) \in Nat BY <2>1
  <2> QED BY <2>2, ModByte
<1> HIDE DEF h
<1>6. Carried(digits) = h BY <1>3, <1>5, Tabulated DEF Bytes
<1> QED BY <1>5, <1>6 DEF h, d, full

(* Digits that are bytes are left alone. *)
LEMMA CarriedBytes ==
  ASSUME NEW w \in Nat, NEW a \in Bytes(w) PROVE Carried(a) = a
<1>0. a \in [1..w -> Nat] /\ \A i \in 1..w : a[i] \in Byte BY BytesAre
<1>1. ASSUME NEW i \in 1..w PROVE Sum(a, i) = a[i]
  <2> DEFINE Part(k) == IF k < i THEN (a[i - k] \div 256^k) % 256 ELSE 0
  <2>0. \A j \in 1..w : a[j] \in Nat /\ a[j] < 256 BY <1>0, ByteIs
  <2>1. /\ a[i - 0] = a[i] /\ 0 < i /\ a[i] \in Nat /\ a[i] < 256
        /\ (1 < i => a[i - 1] \in Nat /\ a[i - 1] < 256)
        /\ (2 < i => a[i - 2] \in Nat /\ a[i - 2] < 256)
        /\ (3 < i => a[i - 3] \in Nat /\ a[i - 3] < 256)
    BY <2>0
  <2>2. Part(0) = a[i] BY SMTT(30), <2>1, OfByte
  <2>3. Part(1) = 0 BY SMTT(30), <2>1, OfByte
  <2>4. Part(2) = 0 BY SMTT(30), <2>1, OfByte
  <2>5. Part(3) = 0 BY SMTT(30), <2>1, OfByte
  <2>6. Sum(a, i) = Part(0) + Part(1) + Part(2) + Part(3) BY SMTT(30) DEF Sum
  <2> HIDE DEF Part
  <2> QED BY <1>0, <2>2, <2>3, <2>4, <2>5, <2>6
<1>2. Sums(a) = a BY <1>0, <1>1, SumsIs
<1>3. HandedOn(a) = a
  <2>1. ASSUME NEW i \in 1..w PROVE Handed(a, i) = a[i]
    <3>1. a[i] \in Byte /\ (i # 1 => a[i - 1] \in Byte) BY <1>0
    <3>2. a[i] \in Nat /\ a[i] % 256 = a[i] /\ (i # 1 => a[i - 1] \div 256 = 0)
      BY <3>1, ByteIs
    <3> QED BY <3>2 DEF Handed
  <2> QED BY <1>0, <2>1, HandedOnIs
<1> DEFINE full == {i \in 1..w : a[i] > 255}
<1>4. full = {} BY <1>0, ByteIs
<1>5. Carried(a) = [i \in 1..w |-> (a[i] + Carry(a, full, i)) % 256]
  BY <1>0, <1>2, <1>3, CarriedIs
<1>6. \A i \in 1..w : Carry(a, full, i) = 0 BY <1>4 DEF Carry
<1> HIDE DEF full
<1>7. ASSUME NEW i \in 1..w PROVE (a[i] + Carry(a, full, i)) % 256 = a[i]
  <2>1. a[i] \in Nat /\ a[i] % 256 = a[i] /\ Carry(a, full, i) = 0 BY <1>0, <1>6, ByteIs
  <2>2. a[i] + 0 = a[i] BY <2>1
  <2> QED BY <2>1, <2>2
<1> QED BY <1>0, <1>5, <1>7

LEMMA TimesType ==
  ASSUME NEW w \in Nat, NEW a \in Bytes(w), NEW m \in Nat
  PROVE  Times(a, m) \in Bytes(w) /\ (m = 1 => Times(a, m) = a)
<1> DEFINE f == [i \in 1..w |-> a[i] * m]
<1>0. \A i \in 1..w : a[i] \in Nat BY BytesAre
<1>1. Len(a) = w BY BytesAre
<1>2. f \in [1..w -> Nat]
  <2>1. \A x \in Nat : x * m \in Nat OBVIOUS
  <2> QED BY <1>0, <2>1
<1>3. Times(a, m) = Carried(f) BY <1>1 DEF Times
<1>4. m = 1 => f = a
  <2>1. \A x \in Nat : x * 1 = x OBVIOUS
  <2> QED BY <1>0, <2>1, BytesAre
<1> HIDE DEF f
<1>5. Times(a, m) \in Bytes(w) BY <1>2, <1>3, CarriedIs
<1> QED BY <1>3, <1>4, <1>5, CarriedBytes

LEMMA Powers == ASSUME NEW r \in 0..7 PROVE 2^r \in Nat /\ 2^(8 - r) \in Nat
<1>1. CASE r = 0
  <2>1. 2^0 \in Nat /\ 2^8 \in Nat BY SMTT(30)
  <2>2. 8 - r = 8 BY <1>1
  <2> QED BY <1>1, <2>1, <2>2
<1>2. CASE r = 1
  <2>1. 2^1 \in Nat /\ 2^7 \in Nat BY SMTT(30)
  <2>2. 8 - r = 7 BY <1>2
  <2> QED BY <1>2, <2>1, <2>2
<1>3. CASE r = 2
  <2>1. 2^2 \in Nat /\ 2^6 \in Nat BY SMTT(30)
  <2>2. 8 - r = 6 BY <1>3
  <2> QED BY <1>3, <2>1, <2>2
<1>4. CASE r = 3
  <2>1. 2^3 \in Nat /\ 2^5 \in Nat BY SMTT(30)
  <2>2. 8 - r = 5 BY <1>4
  <2> QED BY <1>4, <2>1, <2>2
<1>5. CASE r = 4
  <2>1. 2^4 \in Nat /\ 2^4 \in Nat BY SMTT(30)
  <2>2. 8 - r = 4 BY <1>5
  <2> QED BY <1>5, <2>1, <2>2
<1>6. CASE r = 5
  <2>1. 2^5 \in Nat /\ 2^3 \in Nat BY SMTT(30)
  <2>2. 8 - r = 3 BY <1>6
  <2> QED BY <1>6, <2>1, <2>2
<1>7. CASE r = 6
  <2>1. 2^6 \in Nat /\ 2^2 \in Nat BY SMTT(30)
  <2>2. 8 - r = 2 BY <1>7
  <2> QED BY <1>7, <2>1, <2>2
<1>8. CASE r = 7
  <2>1. 2^7 \in Nat /\ 2^1 \in Nat BY SMTT(30)
  <2>2. 8 - r = 1 BY <1>8
  <2> QED BY <1>8, <2>1, <2>2
<1> QED BY <1>1, <1>2, <1>3, <1>4, <1>5, <1>6, <1>7, <1>8

LEMMA PowerType == ASSUME NEW s \in Nat PROVE 2^(s % 8) \in Nat /\ 2^(8 - (s % 8)) \in Nat
<1> DEFINE r == s % 8
<1>1. r \in 0..7 OBVIOUS
<1> HIDE DEF r
<1>2. 2^r \in Nat /\ 2^(8 - r) \in Nat BY Zenon, <1>1, Powers
<1> QED BY <1>2 DEF r

LEMMA ShiftLeftType ==
  ASSUME NEW w \in Nat, NEW a \in Bytes(w), NEW s \in Nat
  PROVE  ShiftLeft(a, s) \in Bytes(w)
<1> DEFINE k == s \div 8
           t == Times(a, 2^(s % 8))
           f == [i \in 1..w |-> IF i <= k THEN 0 ELSE t[i - k]]
<1>1. Len(a) = w BY BytesAre
<1>2. k \in Nat OBVIOUS
<1>3. t \in Bytes(w) BY PowerType, TimesType
<1>4. ShiftLeft(a, s) = SubSeq(f, 1, w) BY <1>1 DEF ShiftLeft
<1> HIDE DEF k, t
<1>5. f \in Bytes(w) BY <1>2, <1>3, ByteIs DEF Bytes
<1> HIDE DEF f
<1> QED BY Zenon, <1>4, <1>5, Tabulated DEF Bytes

(* A shift by whole bytes *)
LEMMA ShiftLeftBytes ==
  ASSUME NEW w \in Nat, NEW a \in Bytes(w), NEW k \in Nat
  PROVE  /\ ShiftLeft(a, 8 * k) \in Bytes(w)
         /\ \A i \in 1..w : /\ i <= k => ShiftLeft(a, 8 * k)[i] = 0
                            /\ i > k => ShiftLeft(a, 8 * k)[i] = a[i - k]
<1> DEFINE f == [i \in 1..w |-> IF i <= k THEN 0 ELSE a[i - k]]
<1>1. Len(a) = w BY BytesAre
<1>2. (8 * k) \div 8 = k /\ 2^((8 * k) % 8) = 1
  <2>1. (8 * k) \div 8 = k /\ (8 * k) % 8 = 0 OBVIOUS
  <2>2. 2^0 = 1 OBVIOUS
  <2> QED BY ZenonT(40), <2>1, <2>2
<1>3. Times(a, 1) = a BY TimesType
<1>4. ShiftLeft(a, 8 * k) = SubSeq(f, 1, w) BY <1>1, <1>2, <1>3 DEF ShiftLeft
<1>5. f \in [1..w -> Byte] BY ByteIs, BytesAre
<1> HIDE DEF f
<1>6. ShiftLeft(a, 8 * k) = f BY <1>4, <1>5, Tabulated
<1>7. \A i \in 1..w : (i <= k => f[i] = 0) /\ (i > k => f[i] = a[i - k]) BY DEF f
<1> QED BY <1>5, <1>6, <1>7 DEF Bytes

LEMMA ShiftRightType ==
  ASSUME NEW w \in Nat, NEW a \in Bytes(w), NEW s \in Nat
  PROVE  ShiftRight(a, s) \in Bytes(w)
<1> DEFINE k == s \div 8
           t == Times(From(a, w + 1), 2^(8 - (s % 8)))
           f == [i \in 1..w |-> IF i + k <= w THEN t[i + k + 1] ELSE 0]
<1>1. Len(a) = w BY BytesAre
<1>2. k \in Nat OBVIOUS
<1>3. w + 1 \in Nat /\ From(a, w + 1) \in Bytes(w + 1) BY FromIs
<1>4. t \in Bytes(w + 1) BY <1>3, PowerType, TimesType
<1>5. ShiftRight(a, s) = SubSeq(f, 1, w) BY <1>1 DEF ShiftRight
<1> HIDE DEF k, t
<1>6. f \in Bytes(w) BY <1>2, <1>4, ByteIs DEF Bytes
<1> HIDE DEF f
<1> QED BY Zenon, <1>5, <1>6, Tabulated DEF Bytes

(* bits() of a number that is not zero *)
LEMMA SizeIs ==
  ASSUME NEW w \in Nat, NEW a \in Bytes(w), ~IsZero(a)
  PROVE  Size(a) \in 1..w /\ a[Size(a)] # 0 /\ \A j \in (Size(a) + 1)..w : a[j] = 0
<1> DEFINE S == {i \in 1..w : a[i] # 0}
<1>1. Len(a) = w /\ \A i \in 1..w : a[i] \in Nat BY BytesAre, ByteIs
<1>2. S # {} /\ S \subseteq 1..w BY <1>1 DEF IsZero
<1>3. PICK n \in S : \A j \in S : j <= n BY Zenon, <1>2, Highest
<1>4. n \in 0..w /\ (n > 0 => a[n] # 0) /\ \A j \in (n + 1)..w : a[j] = 0 BY <1>3
<1>5. /\ Size(a) \in 0..w /\ (Size(a) > 0 => a[Size(a)] # 0)
      /\ \A j \in (Size(a) + 1)..w : a[j] = 0
  BY <1>1, <1>4 DEF Size
<1>6. Size(a) # 0
  <2> SUFFICES ASSUME Size(a) = 0 PROVE FALSE OBVIOUS
  <2>1. \A j \in 1..w : a[j] = 0 BY <1>5
  <2> QED BY <1>1, <2>1 DEF IsZero
<1>7. Size(a) \in 1..w BY <1>5, <1>6
<1> QED BY <1>5, <1>7

(* Three bytes as a number, and back *)
Packed(x, y, z) == x * 65536 + y * 256 + z

LEMMA PackedIs ==
  ASSUME NEW x \in Nat, NEW y \in Nat, NEW z \in Nat, x < 256, y < 256, z < 256
  PROVE  /\ Packed(x, y, z) \in Words
         /\ Packed(x, y, z) % 256 = z /\ (Packed(x, y, z) \div 256) % 256 = y
         /\ (Packed(x, y, z) \div 65536) % 256 = x
         /\ Packed(x, y, z) \div 256 = Packed(0, x, y)
         /\ Packed(x, y, z) \div 65536 = Packed(0, 0, x)
<1> USE DEF Packed
<1>1. Packed(x, y, z) \in Words BY SMTT(30) DEF Words
<1>2. Packed(x, y, z) % 256 = z BY SMTT(30)
<1>3. Packed(x, y, z) \div 256 = Packed(0, x, y) BY SMTT(30)
<1>4. Packed(x, y, z) \div 65536 = Packed(0, 0, x) BY SMTT(30)
<1>5. (x * 256 + y) % 256 = y /\ x % 256 = x BY SMTT(30)
<1> QED BY SMTT(30), <1>1, <1>2, <1>3, <1>4, <1>5

HasOnly(s, x, y, z, k) ==
  \A i \in 1..32 : /\ (i <= k => s[i] = 0) /\ (i = k + 1 => s[i] = z)
                   /\ (i = k + 2 => s[i] = y) /\ (i = k + 3 => s[i] = x)
                   /\ (i > k + 3 => s[i] = 0)

LEMMA Placed ==
  ASSUME NEW x \in Byte, NEW y \in Byte, NEW z \in Byte, NEW k \in 0..30,
         NEW s, s = ShiftLeft(Small(Packed(x, y, z), 32), 8 * k)
  PROVE  s \in Bytes(32) /\ HasOnly(s, x, y, z, k)
<1> DEFINE W == Packed(x, y, z)
           a == Small(W, 32)
<1>1. x \in Nat /\ y \in Nat /\ z \in Nat /\ x < 256 /\ y < 256 /\ z < 256 BY ByteIs
<1>2. W \in Words /\ W % 256 = z /\ (W \div 256) % 256 = y /\ (W \div 65536) % 256 = x
  BY <1>1, PackedIs
<1> HIDE DEF W
<1>3. a \in Bytes(32) /\ a[1] = z /\ a[2] = y /\ a[3] = x /\ \A i \in 4..32 : a[i] = 0
  BY SMTT(30), <1>2, SmallIs
<1>4. s = ShiftLeft(a, 8 * k) BY DEF W
<1> HIDE DEF a
<1>5. 32 \in Nat /\ k \in Nat OBVIOUS
<1>6. /\ s \in Bytes(32)
      /\ \A i \in 1..32 : (i <= k => s[i] = 0) /\ (i > k => s[i] = a[i - k])
  BY <1>3, <1>4, <1>5, ShiftLeftBytes
<1>7. ASSUME NEW i \in 1..32
      PROVE  /\ (i <= k => s[i] = 0) /\ (i = k + 1 => s[i] = z)
             /\ (i = k + 2 => s[i] = y) /\ (i = k + 3 => s[i] = x)
             /\ (i > k + 3 => s[i] = 0)
  <2>2. CASE i <= k BY <1>6, <2>2
  <2>3. CASE i > k
    <3>1. s[i] = a[i - k] /\ i - k \in 1..32 BY <1>6, <2>3
    <3> QED BY <1>3, <2>3, <3>1
  <2> QED BY <2>2, <2>3
<1> QED BY ZenonT(40), <1>6, <1>7 DEF HasOnly

(* What SetCompact returns for the three cases of a size. *)
LEMMA SetCompactIs ==
  ASSUME NEW c, NEW n \in 1..33, NEW W \in Words, c.nSize = n, c.nWord = W
  PROVE  /\ n >= 3 => /\ Word(c) = W
                      /\ SetCompact(c) = ShiftLeft(Small(W, 32), 8 * (n - 3))
         /\ n = 2 => /\ Word(c) = W \div 256
                     /\ SetCompact(c) = ShiftLeft(Small(W \div 256, 32), 8 * 0)
         /\ n = 1 => /\ Word(c) = W \div 65536
                     /\ SetCompact(c) = ShiftLeft(Small(W \div 65536, 32), 8 * 0)
         /\ SetCompact(c) \in Bytes(32)
<1>0. c.nSize = n /\ c.nWord = W /\ W \in Nat BY SMTT(30) DEF Words
<1> DEFINE V == W \div 256
           U == W \div 65536
<1>t. W \in Words /\ V \in Words /\ U \in Words BY SMTT(30) DEF Words
<1> HIDE DEF U, V
<1>s. /\ 32 \in Nat /\ 8 * 0 \in Nat /\ (n >= 3 => 8 * (n - 3) \in Nat)
      /\ Small(W, 32) \in Bytes(32) /\ Small(V, 32) \in Bytes(32) /\ Small(U, 32) \in Bytes(32)
  BY <1>t, SmallIs
<1>1. CASE n > 3
  <2>1. Word(c) = W BY SMTT(30), <1>0, <1>1 DEF Word
  <2>2. SetCompact(c) = ShiftLeft(Small(W, 32), 8 * (n - 3))
    BY SMTT(30), <1>0, <1>1, <2>1 DEF SetCompact
  <2>3. SetCompact(c) \in Bytes(32) BY <1>s, <1>1, <2>2, ShiftLeftType
  <2> QED BY SMTT(30), <1>1, <2>1, <2>2, <2>3
<1>2. CASE n = 3
  <2>1. W \div 256^0 = W BY SMTT(30), <1>0
  <2>2. Word(c) = W BY SMTT(30), <1>0, <1>2, <2>1 DEF Word
  <2>3. SetCompact(c) = ShiftLeft(Small(W, 32), 8 * (n - 3))
    BY SMTT(30), <1>0, <1>2, <2>2 DEF SetCompact
  <2>4. SetCompact(c) \in Bytes(32) BY <1>s, <1>2, <2>3, ShiftLeftType
  <2> QED BY SMTT(30), <1>2, <2>2, <2>3, <2>4
<1>3. CASE n = 2
  <2>1. W \div 256^1 = W \div 256 BY SMTT(30), <1>0
  <2>2. Word(c) = W \div 256 BY SMTT(30), <1>0, <1>3, <2>1 DEF Word
  <2>3. SetCompact(c) = ShiftLeft(Small(W \div 256, 32), 8 * 0)
    BY SMTT(30), <1>0, <1>3, <2>2 DEF SetCompact
  <2>4. SetCompact(c) \in Bytes(32) BY <1>s, <2>3, ShiftLeftType DEF V
  <2> QED BY SMTT(30), <1>3, <2>2, <2>3, <2>4
<1>4. CASE n = 1
  <2>1. W \div 256^2 = W \div 65536 BY SMTT(30), <1>0
  <2>2. Word(c) = W \div 65536 BY SMTT(30), <1>0, <1>4, <2>1 DEF Word
  <2>3. SetCompact(c) = ShiftLeft(Small(W \div 65536, 32), 8 * 0)
    BY SMTT(30), <1>0, <1>4, <2>2 DEF SetCompact
  <2>4. SetCompact(c) \in Bytes(32) BY <1>s, <2>3, ShiftLeftType DEF U
  <2> QED BY SMTT(30), <1>4, <2>2, <2>3, <2>4
<1>5. n > 3 \/ n = 3 \/ n = 2 \/ n = 1 OBVIOUS
<1> QED BY SMTT(60), <1>1, <1>2, <1>3, <1>4, <1>5

(* s is a without its lower bytes *)
Truncated(s, a) ==
  \E k \in 0..30 : /\ \A i \in 1..32 : (i <= k => s[i] = 0) /\ (i > k => s[i] = a[i])
                   /\ k < Size(a)

PlacedIn(a, x, y, z, k) ==
  /\ z = a[k + 1] /\ y = a[k + 2] /\ (k < 30 => x = a[k + 3]) /\ (k = 30 => x = 0)
  /\ (\A i \in (k + 4)..32 : a[i] = 0) /\ k < Size(a)

(* The five cases of a compact number *)
LEMMA CompactCases ==
  ASSUME NEW a \in Bytes(32), ~IsZero(a), NEW c, c = GetCompact(a)
  PROVE  /\ c \in Compacts /\ ~Overflows(c)
         /\ \E x, y, z \in Byte, k \in 0..30 :
              /\ SetCompact(c) = ShiftLeft(Small(Packed(x, y, z), 32), 8 * k)
              /\ PlacedIn(a, x, y, z, k)
<1> DEFINE n == Size(a)
           At(i) == IF i > 0 THEN a[i] ELSE 0
           x == At(n)
           y == At(n - 1)
           z == At(n - 2)
           W == Packed(x, y, z)
<1>0. n \in 1..32 /\ a[n] # 0 /\ \A j \in (n + 1)..32 : a[j] = 0 BY SizeIs
<1>1. \A i \in 1..32 : a[i] \in Byte BY BytesAre
<1>2. x = a[n] /\ (n > 1 => y = a[n - 1]) /\ (n > 2 => z = a[n - 2])
      /\ (n = 1 => y = 0) /\ (n <= 2 => z = 0)
  BY <1>0
<1>3. c = IF W >= 8388608 THEN [nSize |-> n + 1, nWord |-> W \div 256]
          ELSE [nSize |-> n, nWord |-> W]
  BY SMTT(30) DEF GetCompact, Packed
<1> HIDE DEF n, x, y, z
<1>4. x \in Byte /\ y \in Byte /\ z \in Byte /\ 0 \in Byte
  <2>1. 0 \in Byte BY ByteIs
  <2>2. x \in Byte BY <1>0, <1>1, <1>2
  <2>3. y \in Byte
    <3>1. CASE n = 1 BY <1>2, <2>1, <3>1
    <3>2. CASE n > 1 BY <1>0, <1>1, <1>2, <3>2
    <3> QED BY <1>0, <3>1, <3>2
  <2>4. z \in Byte
    <3>1. CASE n <= 2 BY <1>2, <2>1, <3>1
    <3>2. CASE n > 2 BY <1>0, <1>1, <1>2, <3>2
    <3> QED BY <1>0, <3>1, <3>2
  <2> QED BY <2>1, <2>2, <2>3, <2>4
<1>5. /\ x \in Nat /\ x < 256 /\ y \in Nat /\ y < 256 /\ z \in Nat /\ z < 256
      /\ 0 \in Nat /\ 0 < 256
  BY <1>4, ByteIs
<1>6. /\ W \in Words /\ W \div 256 = Packed(0, x, y) /\ W \div 65536 = Packed(0, 0, x)
      /\ Packed(0, x, y) \in Words /\ Packed(0, 0, x) \in Words
      /\ Packed(0, x, y) \div 256 = Packed(0, 0, x)
  BY SMTT(30), <1>5, PackedIs
<1>7. Packed(0, x, y) < 65536 /\ Packed(0, x, y) \in Nat /\ Packed(0, 0, x) \in Nat
      /\ Packed(0, 0, x) < 256
  BY SMTT(30), <1>5 DEF Packed
<1> HIDE DEF W
<1>8. CASE W < 8388608
  <2>1. c = [nSize |-> n, nWord |-> W] BY SMTT(30), <1>3, <1>6, <1>8 DEF Words
  <2>f. c.nSize = n /\ c.nWord = W BY <2>1
  <2>2. c \in Compacts /\ ~Overflows(c)
    BY SMTT(30), <1>0, <1>6, <1>8, <2>1 DEF Compacts, Mantissas, Overflows, Words
  <2>3. CASE n >= 3
    <3>1. SetCompact(c) = ShiftLeft(Small(W, 32), 8 * (n - 3))
      BY <1>0, <1>6, <2>f, <2>3, SetCompactIs
    <3>2. PlacedIn(a, x, y, z, n - 3) /\ n - 3 \in 0..30
      BY <1>0, <1>2, <2>3 DEF PlacedIn, n
    <3> QED BY <1>4, <2>2, <3>1, <3>2 DEF W
  <2>4. CASE n = 2
    <3>1. SetCompact(c) = ShiftLeft(Small(Packed(0, x, y), 32), 8 * 0)
      BY <1>0, <1>6, <2>f, <2>4, SetCompactIs
    <3>2. PlacedIn(a, 0, x, y, 0) /\ 0 \in 0..30 BY <1>0, <1>2, <2>4 DEF PlacedIn, n
    <3> QED BY <1>4, <2>2, <3>1, <3>2
  <2>5. CASE n = 1
    <3>1. SetCompact(c) = ShiftLeft(Small(Packed(0, 0, x), 32), 8 * 0)
      BY <1>0, <1>6, <2>f, <2>5, SetCompactIs
    <3>2. PlacedIn(a, 0, 0, x, 0) /\ 0 \in 0..30 BY <1>0, <1>2, <2>5 DEF PlacedIn, n
    <3> QED BY <1>4, <2>2, <3>1, <3>2
  <2> QED BY <1>0, <2>3, <2>4, <2>5
<1>9. CASE ~(W < 8388608)
  <2> DEFINE V == Packed(0, x, y)
  <2>1. c = [nSize |-> n + 1, nWord |-> V] BY SMTT(30), <1>3, <1>6, <1>9 DEF Words
  <2>2. V < 65536 /\ V \in Nat /\ V \in Words /\ V \div 256 = Packed(0, 0, x)
    BY <1>6, <1>7
  <2> HIDE DEF V
  <2>3. n + 1 \in 2..33 BY <1>0
  <2>f. c.nSize = n + 1 /\ c.nWord = V BY <2>1
  <2>4. c \in Compacts BY SMTT(30), <2>1, <2>2, <2>3 DEF Compacts, Mantissas
  <2>5. CASE n >= 2
    <3> DEFINE m == n + 1
    <3>0. m \in 1..33 /\ m >= 3 /\ m - 3 = n - 2 BY <1>0, <2>5
    <3>1. Word(c) = V /\ SetCompact(c) = ShiftLeft(Small(V, 32), 8 * (m - 3))
      <4>1. c.nSize = m /\ c.nWord = V BY <2>f
      <4> HIDE DEF m
      <4> QED BY <2>2, <3>0, <4>1, SetCompactIs
    <3>2. SetCompact(c) = ShiftLeft(Small(V, 32), 8 * (n - 2)) BY <3>0, <3>1
    <3>3. ~Overflows(c) BY SMTT(30), <2>1, <2>2, <2>3, <3>1 DEF Overflows
    <3>4. PlacedIn(a, 0, x, y, n - 2) /\ n - 2 \in 0..30
      BY <1>0, <1>2, <2>5 DEF PlacedIn, n
    <3> QED BY <1>4, <2>4, <3>1, <3>2, <3>3, <3>4 DEF V
  <2>6. CASE n = 1
    <3>1. SetCompact(c) = ShiftLeft(Small(Packed(0, 0, x), 32), 8 * 0)
      BY <2>f, <2>2, <2>3, <2>6, SetCompactIs
    <3>2. ~Overflows(c) BY SMTT(30), <2>1, <2>6 DEF Overflows
    <3>3. PlacedIn(a, 0, 0, x, 0) /\ 0 \in 0..30 BY <1>0, <1>2, <2>6 DEF PlacedIn, n
    <3> QED BY <1>4, <2>4, <3>1, <3>2, <3>3
  <2> QED BY <1>0, <2>5, <2>6
<1> QED BY <1>8, <1>9

(* A number that is not zero, made compact and back, loses its lower bytes *)
(* and nothing else.                                                       *)
LEMMA CompactKeeps ==
  ASSUME NEW a \in Bytes(32), ~IsZero(a), NEW s, s = SetCompact(GetCompact(a))
  PROVE  /\ GetCompact(a) \in Compacts /\ ~Overflows(GetCompact(a))
         /\ s \in Bytes(32) /\ ~IsZero(s) /\ Truncated(s, a)
<1>1. PICK x, y, z \in Byte, k \in 0..30 :
         /\ s = ShiftLeft(Small(Packed(x, y, z), 32), 8 * k) /\ PlacedIn(a, x, y, z, k)
  BY CompactCases
<1>2. s \in Bytes(32) /\ HasOnly(s, x, y, z, k) BY <1>1, Placed
<1>3. ASSUME NEW i \in 1..32 PROVE (i <= k => s[i] = 0) /\ (i > k => s[i] = a[i])
  <2>1. i <= k \/ i = k + 1 \/ i = k + 2 \/ (i = k + 3 /\ k < 30) \/ i \in (k + 4)..32
    OBVIOUS
  <2>2. CASE i <= k BY <1>2, <2>2 DEF HasOnly
  <2>3. CASE i = k + 1 BY ZenonT(40), <1>1, <1>2, <2>3 DEF PlacedIn, HasOnly
  <2>4. CASE i = k + 2 BY ZenonT(40), <1>1, <1>2, <2>4 DEF PlacedIn, HasOnly
  <2>5. CASE i = k + 3 /\ k < 30 BY ZenonT(40), <1>1, <1>2, <2>5 DEF PlacedIn, HasOnly
  <2>6. CASE i \in (k + 4)..32
    <3>1. i > k + 3 /\ ~(i <= k) BY <2>6
    <3>2. s[i] = 0 BY <1>2, <3>1 DEF HasOnly
    <3>3. a[i] = 0 BY <1>1, <2>6 DEF PlacedIn
    <3> QED BY <3>1, <3>2, <3>3
  <2> QED BY <2>1, <2>2, <2>3, <2>4, <2>5, <2>6
<1>4. Truncated(s, a) BY ZenonT(40), <1>1, <1>3 DEF Truncated, PlacedIn
<1>5. Size(a) \in 1..32 /\ a[Size(a)] # 0 /\ k < Size(a) BY <1>1, SizeIs DEF PlacedIn
<1>6. s[Size(a)] # 0 /\ Len(s) = 32 BY Zenon, <1>2, <1>3, <1>5, BytesAre
<1>7. ~IsZero(s) BY ZenonT(40), <1>5, <1>6 DEF IsZero
<1> QED BY <1>2, <1>4, <1>7, CompactCases

-----------------------------------------------------------------------------
(* CompareTo *)

LEMMA LessAt ==
  ASSUME NEW w \in Nat, NEW a \in Bytes(w), NEW b \in Bytes(w), NEW i \in 1..w, a[i] < b[i],
         \A j \in (i + 1)..w : a[j] = b[j]
  PROVE  Less(a, b)
<1>1. Len(a) = w BY BytesAre
<1> QED BY <1>1 DEF Less

(* Truncation makes no number larger. *)
LEMMA TruncatedAtMost ==
  ASSUME NEW a \in Bytes(32), NEW s \in Bytes(32), Truncated(s, a),
         NEW limit \in Bytes(32), AtMost(a, limit)
  PROVE  AtMost(s, limit)
<1> SUFFICES ASSUME Less(limit, s) PROVE Less(limit, a) BY DEF AtMost
<1>1. PICK i \in 1..32 : limit[i] < s[i] /\ \A j \in (i + 1)..32 : limit[j] = s[j]
  <2>1. Len(limit) = 32 BY Zenon, BytesAre
  <2> QED BY <2>1 DEF Less
<1>2. PICK k \in 0..30 : \A j \in 1..32 : (j <= k => s[j] = 0) /\ (j > k => s[j] = a[j])
  BY DEF Truncated
<1>3. limit[i] \in Nat BY ZenonT(40), BytesAre, ByteIs
<1>4. i > k BY <1>1, <1>2, <1>3
<1>5. limit[i] < a[i] BY <1>1, <1>2, <1>4
<1>6. \A j \in (i + 1)..32 : limit[j] = a[j] BY <1>1, <1>2, <1>4
<1>7. 32 \in Nat OBVIOUS
<1> QED BY <1>5, <1>6, <1>7, LessAt

LEMMA SetCompactType == ASSUME NEW c \in Compacts PROVE SetCompact(c) \in Bytes(32)
<1> DEFINE n == c.nSize
           W == c.nWord
<1>1. n \in 1..33 /\ W \in Mantissas BY Zenon DEF Compacts
<1>2. W \in Words BY SMTT(30), <1>1 DEF Words, Mantissas
<1> QED BY <1>1, <1>2, SetCompactIs

LEMMA PlusType ==
  ASSUME NEW w \in Nat, NEW a \in Bytes(w), NEW b \in Bytes(w) PROVE Plus(a, b) \in Bytes(w)
<1> DEFINE f == [i \in 1..w |-> a[i] + b[i]]
<1>1. Len(a) = w /\ \A i \in 1..w : a[i] \in Nat /\ b[i] \in Nat BY BytesAre
<1>2. f \in [1..w -> Nat] BY <1>1
<1>3. Plus(a, b) = Carried(f) BY <1>1 DEF Plus
<1> HIDE DEF f
<1> QED BY <1>2, <1>3, CarriedIs

(* From here on a leaf that names no prover is left to Zenon. *)
USE ZenonT(30)

-----------------------------------------------------------------------------
(* SecondAlgoCount *)

(* The walk down the chain: one more block to look at for every block. *)
LEMMA WalkedBelowActivation ==
  ASSUME NEW b \in Blocks, nHeight[b] < nDualAlgoActivationHeight
  PROVE  CountedBlocks(b) = {} /\ Cardinality(CountedBlocks(b)) = 0
<1>1. ASSUME NEW x \in Ancestors[b] PROVE ~(nHeight[x] >= nDualAlgoActivationHeight)
  <2>1. x \in Blocks /\ (x = b \/ nHeight[x] < nHeight[b])
    BY AncestorsAreBlocks, AncestorsHeight
  <2>2. nHeight[x] \in Nat /\ nHeight[b] \in Nat /\ nDualAlgoActivationHeight \in Nat
    BY <2>1, TreeAssumption, SecondAlgoAssumption
  <2> QED BY SMTT(30), <2>1, <2>2
<1>2. CountedBlocks(b) = {} BY <1>1 DEF CountedBlocks
<1> QED BY <1>2, FS_EmptySet

LEMMA WalkedType ==
  ASSUME NEW b \in Blocks
  PROVE  IsFiniteSet(CountedBlocks(b)) /\ Cardinality(CountedBlocks(b)) \in Nat
<1>1. CountedBlocks(b) \subseteq Blocks BY AncestorsAreBlocks DEF CountedBlocks
<1>2. IsFiniteSet(CountedBlocks(b)) BY <1>1, TreeAssumption, FS_Subset
<1> QED BY <1>2, FS_CardinalityType

LEMMA WalkedUnfold ==
  ASSUME NEW b \in Blocks \ {Genesis}, nHeight[b] >= nDualAlgoActivationHeight
  PROVE  /\ pprev[b] \in Blocks
         /\ Cardinality(CountedBlocks(b)) =
              Cardinality(CountedBlocks(pprev[b])) + IsSecondAlgo(b)
<1>1. pprev[b] \in Blocks /\ Ancestors[b] = {b} \cup Ancestors[pprev[b]]
  BY AncestorsUnfold
<1>2. b \notin Ancestors[pprev[b]]
  <2>1. nHeight[b] = nHeight[pprev[b]] + 1 /\ nHeight[pprev[b]] \in Nat
    BY <1>1, TreeAssumption
  <2>2. b # pprev[b] /\ ~(nHeight[b] < nHeight[pprev[b]]) BY SMTT(30), <2>1
  <2> QED BY <1>1, <2>2, AncestorsHeight
<1>3. IsFiniteSet(CountedBlocks(pprev[b])) /\ Cardinality(CountedBlocks(pprev[b])) \in Nat
  BY <1>1, WalkedType
<1>4. CASE b \in SecondAlgo
  <2>1. CountedBlocks(b) = CountedBlocks(pprev[b]) \cup {b} /\ b \notin CountedBlocks(pprev[b])
    BY <1>1, <1>2, <1>4 DEF CountedBlocks
  <2>2. Cardinality(CountedBlocks(b)) = Cardinality(CountedBlocks(pprev[b])) + 1
    BY <1>3, <2>1, FS_AddElement
  <2> QED BY <1>1, <1>4, <2>2 DEF IsSecondAlgo
<1>5. CASE b \notin SecondAlgo
  <2>1. CountedBlocks(b) = CountedBlocks(pprev[b])
    BY <1>1, <1>5 DEF CountedBlocks
  <2> QED BY SMTT(30), <1>1, <1>3, <1>5, <2>1 DEF IsSecondAlgo
<1> QED BY <1>4, <1>5

(* ComputeSecondAlgoCount continues the walk of the parent. *)
LEMMA ComputedIsWalked ==
  ASSUME NEW b \in Blocks,
         b # Genesis => nSecondAlgoCount[pprev[b]] = Cardinality(CountedBlocks(pprev[b]))
  PROVE  ComputeSecondAlgoCount(b) = Cardinality(CountedBlocks(b))
<1>1. nHeight[b] \in Nat /\ nHeight[Genesis] = 0 /\ nDualAlgoActivationHeight \in Nat \ {0}
  BY TreeAssumption, SecondAlgoAssumption
<1>2. CASE nHeight[b] < nDualAlgoActivationHeight
  BY <1>2, WalkedBelowActivation DEF ComputeSecondAlgoCount
<1>3. CASE ~(nHeight[b] < nDualAlgoActivationHeight)
  <2>1. b # Genesis /\ nHeight[b] >= nDualAlgoActivationHeight BY SMTT(30), <1>1, <1>3
  <2>2. /\ pprev[b] \in Blocks
        /\ Cardinality(CountedBlocks(b)) =
             Cardinality(CountedBlocks(pprev[b])) + IsSecondAlgo(b)
    BY <2>1, WalkedUnfold
  <2>3. Cardinality(CountedBlocks(pprev[b])) \in Nat BY <2>2, WalkedType
  <2>4. ~(nSecondAlgoCount[pprev[b]] < 0) BY SMTT(30), <2>1, <2>3
  <2> QED BY <1>3, <2>1, <2>2, <2>4 DEF ComputeSecondAlgoCount
<1> QED BY <1>2, <1>3

-----------------------------------------------------------------------------
LEMMA InitIInv == Init => IInv
  BY SMTT(30) DEF Init, IInv, TypeOK, ClosedUnderParent, Unknown

LEMMA AddStep == ASSUME IInv, NEW b \in Blocks, AddToBlockIndex(b) PROVE IInv'
<1>0. /\ toLoad = {} /\ b \notin index /\ (b # Genesis => pprev[b] \in index)
      /\ index' = index \cup {b} /\ UNCHANGED <<disk, toLoad>>
      /\ nSecondAlgoCount' = [nSecondAlgoCount EXCEPT ![b] = ComputeSecondAlgoCount(b)]
  BY DEF AddToBlockIndex
<1>1. ComputeSecondAlgoCount(b) = Cardinality(CountedBlocks(b))
  BY <1>0, ComputedIsWalked DEF IInv
<1>2. Cardinality(CountedBlocks(b)) \in Nat BY WalkedType
<1>3. TypeOK' BY SMTT(30), <1>0, <1>1, <1>2 DEF IInv, TypeOK
<1>4. /\ ClosedUnderParent(index)' /\ ClosedUnderParent(disk)'
      /\ ClosedUnderParent(index \ toLoad)'
  BY <1>0 DEF IInv, ClosedUnderParent
<1>5. \A c \in (index \ toLoad)' : nSecondAlgoCount'[c] = Cardinality(CountedBlocks(c))
  BY <1>0, <1>1 DEF IInv, TypeOK
<1> QED BY <1>0, <1>3, <1>4, <1>5 DEF IInv, CountedBlocks

(* The parent of the lowest block that is left has been loaded. *)
LEMMA LoadStep == ASSUME IInv, NEW b \in Blocks, LoadBlockIndex(b) PROVE IInv'
<1>0. /\ b \in toLoad /\ (\A c \in toLoad : nHeight[b] <= nHeight[c])
      /\ toLoad' = toLoad \ {b} /\ UNCHANGED <<index, disk>>
      /\ nSecondAlgoCount' = [nSecondAlgoCount EXCEPT ![b] = ComputeSecondAlgoCount(b)]
  BY DEF LoadBlockIndex, SortedFirst
<1>1. b # Genesis => pprev[b] \in index \ toLoad
  <2> SUFFICES ASSUME b # Genesis PROVE pprev[b] \in index /\ pprev[b] \notin toLoad
    OBVIOUS
  <2>1. pprev[b] \in index BY <1>0 DEF IInv, TypeOK, ClosedUnderParent
  <2>2. nHeight[b] = nHeight[pprev[b]] + 1 /\ nHeight[pprev[b]] \in Nat BY TreeAssumption
  <2>3. ~(nHeight[b] <= nHeight[pprev[b]]) BY SMTT(30), <2>2
  <2> QED BY <1>0, <2>1, <2>3
<1>2. ComputeSecondAlgoCount(b) = Cardinality(CountedBlocks(b))
  BY <1>1, ComputedIsWalked DEF IInv
<1>3. Cardinality(CountedBlocks(b)) \in Nat BY WalkedType
<1>4. TypeOK' BY SMTT(30), <1>0, <1>2, <1>3 DEF IInv, TypeOK
<1>5. /\ ClosedUnderParent(index)' /\ ClosedUnderParent(disk)'
      /\ ClosedUnderParent(index \ toLoad)'
  BY <1>0, <1>1 DEF IInv, ClosedUnderParent
<1>6. \A c \in (index \ toLoad)' : nSecondAlgoCount'[c] = Cardinality(CountedBlocks(c))
  BY <1>0, <1>2 DEF IInv, TypeOK
<1>7. \A c \in toLoad' : nSecondAlgoCount'[c] = Unknown
  BY <1>0 DEF IInv, TypeOK
<1> QED BY <1>4, <1>5, <1>6, <1>7 DEF IInv, CountedBlocks

LEMMA RestartStep == IInv /\ Restart => IInv'
<1> SUFFICES ASSUME IInv, Restart PROVE IInv' OBVIOUS
<1>0. /\ index' = disk /\ toLoad' = disk /\ disk' = disk
      /\ nSecondAlgoCount' = [b \in Blocks |-> Unknown]
  BY DEF Restart
<1>1. TypeOK' BY SMTT(30), <1>0 DEF IInv, TypeOK, Unknown
<1>2. /\ ClosedUnderParent(index)' /\ ClosedUnderParent(disk)'
      /\ ClosedUnderParent(index \ toLoad)'
  BY <1>0 DEF IInv, ClosedUnderParent
<1>3. (index \ toLoad)' = {} /\ \A b \in toLoad' : nSecondAlgoCount'[b] = Unknown
  BY <1>0 DEF IInv, TypeOK
<1> QED BY <1>1, <1>2, <1>3 DEF IInv

LEMMA IInvStep == IInv /\ [Next]_vars => IInv'
<1> SUFFICES ASSUME IInv, [Next]_vars PROVE IInv' OBVIOUS
<1>1. CASE \E b \in Blocks : AddToBlockIndex(b) \/ LoadBlockIndex(b)
  BY <1>1, AddStep, LoadStep
<1>2. CASE WriteBlockIndexDB
  <2>1. disk' = index /\ UNCHANGED <<index, nSecondAlgoCount, toLoad>>
    BY <1>2 DEF WriteBlockIndexDB
  <2> QED BY <2>1 DEF IInv, TypeOK, ClosedUnderParent, CountedBlocks
<1>3. CASE Restart BY <1>3, RestartStep
<1>4. CASE UNCHANGED vars
  BY <1>4 DEF vars, IInv, TypeOK, ClosedUnderParent, CountedBlocks
<1> QED BY <1>1, <1>2, <1>3, <1>4 DEF Next

(* The inductive invariant holds in every state of the node. *)
THEOREM Invariance == Spec => []IInv
<1> QED BY InitIInv, IInvStep, PTL DEF Spec

(* A count in the index is never stale or short: it is what the walk down  *)
(* the chain yields, after any number of stops and whatever was written.   *)
THEOREM CountIsTheWalk == Spec => []CachedIsWalked
<1>1. IInv => CachedIsWalked
  BY DEF IInv, CachedIsWalked
<1> QED BY <1>1, Invariance, PTL

(* After LoadBlockIndex no count is unknown. *)
THEOREM CountsAreKnown == Spec => []KnownWhenLoaded
<1>1. IInv => KnownWhenLoaded
  <2> SUFFICES ASSUME IInv, toLoad = {}, NEW b \in index
               PROVE  nSecondAlgoCount[b] # Unknown
    BY DEF KnownWhenLoaded
  <2>1. b \in Blocks /\ nSecondAlgoCount[b] = Cardinality(CountedBlocks(b))
    BY DEF IInv, TypeOK
  <2>2. Cardinality(CountedBlocks(b)) \in Nat BY <2>1, WalkedType
  <2> QED BY SMTT(30), <2>1, <2>2 DEF Unknown
<1> QED BY <1>1, Invariance, PTL

(* The two algorithms' schedules are independent: a block moves its own by *)
(* one and leaves the other alone, also while the index is being loaded.   *)
THEOREM SchedulesAreIndependent == Spec => []ScheduleCountsOwnBlocks
<1>1. ASSUME IInv, NEW b \in index
      PROVE  b \in Blocks /\ QhashCount(b) = Cardinality(CountedBlocks(b))
  <2>1. b \in Blocks BY <1>1 DEF IInv, TypeOK
  <2>2. Cardinality(CountedBlocks(b)) \in Nat BY <2>1, WalkedType
  <2>3. nSecondAlgoCount[b] \in {Unknown, Cardinality(CountedBlocks(b))}
    BY <1>1 DEF IInv
  <2> QED BY SMTT(30), <2>1, <2>2, <2>3 DEF QhashCount, Unknown
<1>2. IInv => ScheduleCountsOwnBlocks
  <2> SUFFICES ASSUME IInv, NEW b \in index \ {Genesis},
                      nHeight[b] >= nDualAlgoActivationHeight, NEW fQhash \in BOOLEAN
               PROVE  nHeightDiff(b, fQhash) = nHeightDiff(pprev[b], fQhash)
                        + IF (b \in SecondAlgo) = fQhash THEN 1 ELSE 0
    BY DEF ScheduleCountsOwnBlocks
  <2>1. b \in Blocks /\ pprev[b] \in index BY <1>1 DEF IInv, ClosedUnderParent
  <2>2. QhashCount(b) = QhashCount(pprev[b]) + IsSecondAlgo(b)
    BY <1>1, <2>1, WalkedUnfold
  <2>3. QhashCount(pprev[b]) \in Nat
    BY <1>1, <2>1, WalkedType
  <2>4. nTotal(b) = nTotal(pprev[b]) + 1 /\ nTotal(pprev[b]) \in Int
    BY SMTT(30), <1>1, <2>1, TreeAssumption, SecondAlgoAssumption DEF nTotal
  <2>5. CASE fQhash = TRUE
    <3>1. nHeightDiff(b, fQhash) = QhashCount(b) /\ nHeightDiff(pprev[b], fQhash) = QhashCount(pprev[b])
      BY <2>5 DEF nHeightDiff
    <3> QED BY Zenon, <2>2, <2>5, <3>1 DEF IsSecondAlgo
  <2>6. CASE fQhash = FALSE
    <3>1. /\ nHeightDiff(b, fQhash) = nTotal(b) - QhashCount(b)
          /\ nHeightDiff(pprev[b], fQhash) = nTotal(pprev[b]) - QhashCount(pprev[b])
      BY <2>6 DEF nHeightDiff
    <3> QED BY SMTT(30), <2>2, <2>3, <2>4, <2>6, <3>1 DEF IsSecondAlgo
  <2> QED BY ZenonT(40), <2>5, <2>6
<1> QED BY <1>2, Invariance, PTL

-----------------------------------------------------------------------------
(* DualAlgoDifficulty *)

(* Whether the count is cached or walked, the schedule is that of the walk. *)
LEMMA ScheduleIsWalked ==
  ASSUME IInv, NEW b \in index
  PROVE  b \in Blocks /\ QhashCount(b) = Cardinality(CountedBlocks(b))
<1>1. b \in Blocks BY DEF IInv, TypeOK
<1>2. Cardinality(CountedBlocks(b)) \in Nat BY <1>1, WalkedType
<1>3. nSecondAlgoCount[b] \in {Unknown, Cardinality(CountedBlocks(b))} BY DEF IInv
<1> QED BY SMTT(30), <1>1, <1>2, <1>3 DEF QhashCount, Unknown

LEMMA AnchorIs ==
  ASSUME NEW p \in Blocks, nHeight[p] + 1 >= nDualAlgoActivationHeight
  PROVE  Anchor(p) \in Ancestors[p]
<1>1. nDualAlgoActivationHeight - 1 \in 0..nHeight[p] BY SMTT(30), TreeAssumption, SecondAlgoAssumption
<1>2. \E a \in Ancestors[p] : nHeight[a] = nDualAlgoActivationHeight - 1
  BY <1>1, AncestorAtHeight
<1> QED BY <1>2 DEF Anchor

(* What a header is asked for depends on its chain alone. *)
LEMMA RequiredSame ==
  ASSUME IInv, IInv', NEW b \in Blocks \ {Genesis}, pprev[b] \in index, pprev[b] \in index',
         UNCHANGED <<nTime, params>>, \A a \in Ancestors[pprev[b]] : nBits'[a] = nBits[a]
  PROVE  Required(b)' = Required(b)
<1> DEFINE p == pprev[b]
           walked == Cardinality(CountedBlocks(p))
<1>1. p \in Blocks /\ QhashCount(p) = walked BY ScheduleIsWalked
<1>2. walked \in Nat BY <1>1, WalkedType
<1>3. nSecondAlgoCount'[p] \in {Unknown, walked} BY DEF IInv, Unknown, CountedBlocks
<1>4. QhashCount(p)' = walked BY SMTT(30), <1>2, <1>3 DEF QhashCount, Unknown, CountedBlocks
<1>5. nHeightDiff(p, b \in SecondAlgo)' = nHeightDiff(p, b \in SecondAlgo)
  BY <1>1, <1>4 DEF nHeightDiff, nTotal
<1>6. MinDifficultyAllowed(p, nTime[b])' <=> MinDifficultyAllowed(p, nTime[b])
  BY DEF MinDifficultyAllowed, params
<1>7. CASE nHeight[p] + 1 >= nDualAlgoActivationHeight
  <2>1. Anchor(p) \in Ancestors[p] BY <1>1, <1>7, AnchorIs
  <2>2. RefTarget(Anchor(p))' = RefTarget(Anchor(p)) BY SMTT(30), <2>1 DEF RefTarget, Anchor
  <2>3. GetDualAlgoWorkRequired(p, nTime[b], b \in SecondAlgo)'
          = GetDualAlgoWorkRequired(p, nTime[b], b \in SecondAlgo)
    <3>1. PICK r, d, k : /\ r = RefTarget(Anchor(p)) /\ d = nTime[p] - nTime[Anchor(p)]
                         /\ k = nHeightDiff(p, b \in SecondAlgo)
      OBVIOUS
    <3>2. /\ r = RefTarget(Anchor(p))' /\ d = (nTime[p] - nTime[Anchor(p)])'
          /\ k = nHeightDiff(p, b \in SecondAlgo)'
      BY ZenonT(40), <1>5, <2>2, <3>1 DEF Anchor
    <3>3. CASE MinDifficultyAllowed(p, nTime[b])
      BY ZenonT(40), <1>6, <3>3 DEF GetDualAlgoWorkRequired
    <3>4. CASE ~MinDifficultyAllowed(p, nTime[b])
      <4>1. GetDualAlgoWorkRequired(p, nTime[b], b \in SecondAlgo)
              = GetCompact(CalculateASERT(r, nDualAlgoTargetSpacing, d, k))
        BY ZenonT(40), <3>1, <3>4 DEF GetDualAlgoWorkRequired
      <4>2. GetDualAlgoWorkRequired(p, nTime[b], b \in SecondAlgo)'
              = GetCompact(CalculateASERT(r, nDualAlgoTargetSpacing, d, k))
        BY ZenonT(40), <1>6, <3>2, <3>4 DEF GetDualAlgoWorkRequired
      <4> QED BY ZenonT(40), <4>1, <4>2
    <3> QED BY <3>3, <3>4
  <2> QED BY <1>7, <2>3 DEF Required, GetNextWorkRequired
<1>8. CASE ~(nHeight[p] + 1 >= nDualAlgoActivationHeight)
  BY ZenonT(40), <1>6, <1>8 DEF Required, GetNextWorkRequired, GetNextASERTWorkRequired, params
<1> QED BY <1>7, <1>8

LEMMA ChainInIndex ==
  ASSUME IInv, NEW S \in {index, disk}, NEW b \in S \ {Genesis}
  PROVE  b \in Blocks /\ pprev[b] \in S /\ Ancestors[pprev[b]] \subseteq S
<1>1. S \subseteq Blocks /\ ClosedUnderParent(S) BY DEF IInv, TypeOK
<1>2. pprev[b] \in S /\ pprev[b] \in Blocks BY <1>1 DEF ClosedUnderParent
<1> QED BY <1>1, <1>2, AncestorsLeast

LEMMA BitsStep == BitsInv /\ [DifficultyNext]_difficultyVars => BitsInv'
<1> SUFFICES ASSUME BitsInv, [DifficultyNext]_difficultyVars PROVE BitsInv' OBVIOUS
<1>0. IInv /\ disk \subseteq index /\ DOMAIN nBits = Blocks /\ index \subseteq Blocks
      /\ \A b \in index \ {Genesis} : nBits[b] = Required(b)
  BY DEF BitsInv, BitsAreReproducible, Headers, IInv, TypeOK
<1>1. IInv'
  <2>1. [Next]_vars
    BY DEF DifficultyNext, AcceptBlockHeader, DifficultyRestart, Next, difficultyVars, vars
  <2> QED BY <1>0, <2>1, IInvStep
<1>2. UNCHANGED <<nTime, params>>
  BY DEF DifficultyNext, AcceptBlockHeader, DifficultyRestart, difficultyVars
(* A header that was in the index keeps its nBits and is asked for them. *)
<1>3. ASSUME NEW b \in Blocks \ {Genesis}, b \in index, b \in index', nBits'[b] = nBits[b],
             \A a \in Ancestors[pprev[b]] : nBits'[a] = nBits[a]
      PROVE  nBits'[b] = Required(b)'
  <2>1. pprev[b] \in index BY <1>0, <1>3, ChainInIndex
  <2>2. pprev[b] \in index' BY <1>1, <1>3 DEF IInv, ClosedUnderParent
  <2> QED BY <1>0, <1>1, <1>2, <1>3, <2>1, <2>2, RequiredSame
<1>4. ASSUME NEW c \in Blocks, AcceptBlockHeader(c) PROVE BitsInv'
  <2>1. /\ c \notin index /\ index' = index \cup {c} /\ disk' = disk /\ (c # Genesis => pprev[c] \in index)
        /\ nBits' = [nBits EXCEPT ![c] = IF c = Genesis THEN asertAnchorParams ELSE Required(c)]
    BY <1>4 DEF AcceptBlockHeader, AddToBlockIndex
  <2>2. DOMAIN nBits' = Blocks /\ \A a \in index : nBits'[a] = nBits[a] BY <1>0, <2>1
  <2>3. ASSUME NEW b \in index' \ {Genesis} PROVE nBits'[b] = Required(b)'
    <3>1. CASE b \in index
      <4>1. b \in Blocks /\ Ancestors[pprev[b]] \subseteq index BY <1>0, <2>3, <3>1, ChainInIndex
      <4> QED BY <1>3, <2>2, <2>3, <3>1, <4>1
    <3>2. CASE b = c
      <4>1. pprev[c] \in index /\ pprev[c] \in index' BY <2>1, <2>3, <3>2
      <4>2. Ancestors[pprev[c]] \subseteq index BY <1>0, <4>1, AncestorsLeast DEF IInv, TypeOK
      <4>3. Required(c)' = Required(c) BY <1>0, <1>1, <1>2, <2>2, <2>3, <3>2, <4>1, <4>2, RequiredSame
      <4> QED BY <1>0, <2>1, <2>3, <3>2, <4>3
    <3> QED BY <2>1, <2>3, <3>1, <3>2
  <2> QED BY <1>0, <1>1, <2>1, <2>2, <2>3 DEF BitsInv, BitsAreReproducible, Headers
<1>5. CASE DifficultyRestart
  <2>1. /\ index' = disk /\ disk' = disk
        /\ nBits' = [b \in Blocks |-> IF b \in disk THEN nBits[b] ELSE NoBits]
    BY <1>5 DEF DifficultyRestart, Restart
  <2>2. ASSUME NEW b \in index' \ {Genesis} PROVE nBits'[b] = Required(b)'
    <3>1. b \in Blocks /\ b \in index /\ Ancestors[pprev[b]] \subseteq disk
      BY <1>0, <2>1, <2>2, ChainInIndex
    <3>2. \A a \in disk : nBits'[a] = nBits[a] BY <1>0, <2>1
    <3> QED BY <1>3, <2>1, <2>2, <3>1, <3>2
  <2> QED BY <1>1, <2>1, <2>2 DEF BitsInv, BitsAreReproducible, Headers
<1>6. CASE UNCHANGED <<nBits, index>> /\ (disk' = disk \/ disk' = index)
  <2>1. ASSUME NEW b \in index' \ {Genesis} PROVE nBits'[b] = Required(b)'
    <3>1. b \in Blocks BY <1>0, <1>6, <2>1
    <3> QED BY <1>3, <1>6, <2>1, <3>1
  <2> QED BY <1>0, <1>1, <1>6, <2>1 DEF BitsInv, BitsAreReproducible, Headers
<1> QED BY <1>4, <1>5, <1>6
  DEF DifficultyNext, WriteBlockIndexDB, LoadBlockIndex, difficultyVars, vars

(* GetNextWorkRequired asks for the same nBits at any later moment, for    *)
(* every tree, timeline, activation height and anchor, whether the counts  *)
(* come from AddToBlockIndex, LoadBlockIndex or the walk.                  *)
THEOREM BitsReproducible == DifficultySpec => []BitsAreReproducible
<1>1. DifficultyInit => BitsInv
  <2> SUFFICES ASSUME DifficultyInit PROVE BitsInv OBVIOUS
  <2>1. index = {} /\ disk = {} /\ nBits = [b \in Blocks |-> NoBits] /\ Init
    BY DEF DifficultyInit, Init
  <2> QED BY <2>1, InitIInv DEF BitsInv, BitsAreReproducible, Headers
<1>2. BitsInv => BitsAreReproducible BY DEF BitsInv
<1> QED BY <1>1, <1>2, BitsStep, PTL DEF DifficultySpec

-----------------------------------------------------------------------------
(* The targets of DualAlgoDifficulty *)

LEMMA ExponentType ==
  ASSUME NEW t \in Int PROVE Exponent(t).shifts \in Int /\ Exponent(t).frac \in Nat
<1> DEFINE H == nASERTHalfLife
           abs == IF t < 0 THEN -t ELSE t
           q == abs \div H
           r == abs % H
           r1 == r * 256
           f1 == r1 \div H
           r2 == (r1 % H) * 256
           f2 == r2 \div H
           f == f1 * 256 + f2
<1>1. H \in Nat /\ H > 0 BY SMTT(30), DifficultyAssumption
<1>2. abs \in Nat BY SMTT(30)
<1> HIDE DEF H, abs
<1>3. q \in Nat /\ r \in Nat /\ r < H BY SMTT(30), <1>1, <1>2
<1> HIDE DEF q, r
<1>4. r1 \in Nat /\ r1 < 256 * H BY SMTT(30), <1>1, <1>3
<1> HIDE DEF r1
<1>5. f1 \in Nat /\ f1 < 256 BY SMTT(30), <1>1, <1>4
<1>6. r1 % H \in Nat /\ r1 % H < H BY SMTT(30), <1>1, <1>4
<1>7. r2 \in Nat /\ r2 < 256 * H BY SMTT(30), <1>1, <1>6
<1> HIDE DEF r2
<1>8. f2 \in Nat /\ f2 < 256 BY SMTT(30), <1>1, <1>7
<1> HIDE DEF f1, f2
<1>9. f \in Nat /\ f < 65536 BY SMTT(30), <1>5, <1>8
<1> HIDE DEF f
<1>10. Exponent(t) = IF t >= 0 THEN [shifts |-> q, frac |-> f]
                     ELSE IF f = 0 THEN [shifts |-> -q, frac |-> 0]
                     ELSE [shifts |-> -q - 1, frac |-> 65536 - f]
  BY SMTT(60) DEF Exponent, f, f1, f2, r1, r2, q, r, abs, H
<1> QED BY SMTT(30), <1>3, <1>9, <1>10

LEMMA FactorType == ASSUME NEW frac \in Nat PROVE Factor(frac) \in Nat
<1>0. 8 \in Nat /\ 47 \in Nat /\ 1 \in Words /\ 5127 \in Words BY SMTT(30) DEF Words
<1>1. Coefficient1 \in Bytes(8)
  <2>1. <<249, 208, 29, 108, 12, 178>> \in Bytes(6) BY SMTT(30) DEF Bytes, Byte
  <2> QED BY SMTT(30), <2>1, FromIs DEF Coefficient1
<1>2. Coefficient2 \in Bytes(8)
  <2>1. <<64, 209, 236, 57>> \in Bytes(4) BY SMTT(30) DEF Bytes, Byte
  <2> QED BY <2>1, FromIs DEF Coefficient2
<1>3. Coefficient3 \in Bytes(8) BY SMTT(30), <1>0, SmallIs DEF Coefficient3
<1>4. Half \in Bytes(8) BY SMTT(30), <1>0, SmallIs, ShiftLeftType DEF Half
<1> DEFINE x == Times(Coefficient1, frac)
           xx == Times(Times(Coefficient2, frac), frac)
           xxx == Times(Times(Times(Coefficient3, frac), frac), frac)
           sum == Plus(Plus(x, xx), Plus(xxx, Half))
<1>5. x \in Bytes(8) /\ xx \in Bytes(8) /\ xxx \in Bytes(8)
  BY SMTT(30), <1>0, <1>1, <1>2, <1>3, TimesType
<1> HIDE DEF x, xx, xxx
<1>6. sum \in Bytes(8) BY SMTT(30), <1>0, <1>4, <1>5, PlusType
<1>7. Factor(frac) = 65536 + sum[7] + 256 * sum[8] BY SMTT(30) DEF Factor, x, xx, xxx
<1> HIDE DEF sum
<1>8. sum[7] \in Nat /\ sum[8] \in Nat BY SMTT(30), <1>0, <1>6, BytesAre
<1> QED BY SMTT(30), <1>7, <1>8

LEMMA PowLimitType == powLimit \in Bytes(32) /\ ~IsZero(powLimit)
  BY DifficultyAssumption, SetCompactType DEF powLimit

LEMMA ShiftedType ==
  ASSUME NEW n \in Bytes(64), NEW shifts \in Int PROVE Shifted(n, shifts) \in Bytes(64)
<1>0. 64 \in Nat /\ 32 \in Nat /\ 1 \in Words BY SMTT(30) DEF Words
<1>1. From(powLimit, 64) \in Bytes(64) BY <1>0, PowLimitType, FromIs
<1>2. Small(1, 64) \in Bytes(64) BY SMTT(30), <1>0, SmallIs
<1>3. CASE shifts <= 0
  <2>1. -shifts \in Nat BY SMTT(30), <1>3
  <2>2. ShiftRight(n, -shifts) \in Bytes(64) BY <1>0, <2>1, ShiftRightType
  <2> QED BY <1>1, <1>2, <1>3, <2>2 DEF Shifted
<1>4. CASE shifts > 0
  <2>1. shifts \in Nat BY SMTT(30), <1>4
  <2>2. ShiftLeft(n, shifts) \in Bytes(64) BY <1>0, <2>1, ShiftLeftType
  <2> QED BY SMTT(30), <1>1, <1>2, <1>4, <2>2 DEF Shifted
<1> QED BY SMTT(30), <1>3, <1>4

LEMMA Digits32 ==
  ASSUME NEW a \in Bytes(32) PROVE Len(a) = 32 /\ \A i \in 1..32 : a[i] \in Nat
<1>1. 32 \in Nat OBVIOUS
<1>2. a \in [1..32 -> Nat] /\ Len(a) = 32 BY Zenon, <1>1, BytesAre
<1> QED BY <1>2

LEMMA Digits64 ==
  ASSUME NEW a \in Bytes(64) PROVE Len(a) = 64 /\ \A i \in 1..64 : a[i] \in Nat
<1>1. 64 \in Nat OBVIOUS
<1>2. a \in [1..64 -> Nat] /\ Len(a) = 64 BY ZenonT(40), <1>1, BytesAre
<1> QED BY <1>2

(* What CheckProofOfWork accepts as a target. *)
InRange(t) == t \in Bytes(32) /\ ~IsZero(t) /\ AtMost(t, powLimit)

LEMMA PowLimitInRange == InRange(powLimit)
<1>1. Len(powLimit) = 32 /\ \A i \in 1..32 : powLimit[i] \in Nat BY PowLimitType, Digits32
<1>2. ~Less(powLimit, powLimit) BY SMTT(30), <1>1 DEF Less
<1> QED BY <1>2, PowLimitType DEF InRange, AtMost

(* One is the smallest target. *)
LEMMA OneIs ==
  ASSUME NEW n \in Words, n = 1, NEW t, t = Small(n, 32)
  PROVE  t \in Bytes(32) /\ t[1] = 1 /\ \A i \in 2..32 : t[i] = 0
<1>1. /\ t \in Bytes(32)
      /\ \A i \in 1..32 : /\ i = 1 => t[i] = n % 256
                          /\ i = 2 => t[i] = (n \div 256) % 256
                          /\ i = 3 => t[i] = (n \div 65536) % 256
                          /\ i > 3 => t[i] = 0
  BY SMTT(30), SmallIs
<1>2. n % 256 = 1 /\ (n \div 256) % 256 = 0 /\ (n \div 65536) % 256 = 0 BY SMTT(30)
<1> QED BY SMTT(30), <1>1, <1>2

LEMMA FromAt ==
  ASSUME NEW v \in Nat, NEW a \in Bytes(v), NEW w \in Nat, NEW i \in 1..w
  PROVE  (i <= v => From(a, w)[i] = a[i]) /\ (i > v => From(a, w)[i] = 0)
<1>1. From(a, w) = [j \in 1..w |-> IF j <= v THEN a[j] ELSE 0] BY FromIs
<1> QED BY SMTT(30), <1>1

LEMMA OneInRange == InRange(Small(1, 32))
<1> DEFINE t == Small(1, 32)
<1>1. 1 \in Words /\ 32 \in Nat BY SMTT(30) DEF Words
<1>2. t \in Bytes(32) BY <1>1, OneIs
<1>3. t[1] = 1 /\ \A i \in 2..32 : t[i] = 0 BY <1>1, OneIs
<1> HIDE DEF t
<1>4. Len(t) = 32 /\ Len(powLimit) = 32 /\ \A i \in 1..32 : powLimit[i] \in Nat
  BY <1>2, PowLimitType, Digits32
<1>5. ~IsZero(t) BY SMTT(30), <1>3, <1>4 DEF IsZero
<1>6. ASSUME Less(powLimit, t) PROVE FALSE
  <2>1. PICK i \in 1..32 : powLimit[i] < t[i] /\ \A j \in (i + 1)..32 : powLimit[j] = t[j]
    BY <1>4, <1>6 DEF Less
  <2>2. i = 1 /\ powLimit[1] = 0 BY SMTT(30), <1>3, <1>4, <2>1
  <2>3. \A j \in 1..32 : powLimit[j] = 0 BY SMTT(30), <1>3, <2>1, <2>2
  <2> QED BY <1>4, <2>3, PowLimitType DEF IsZero
<1> QED BY <1>2, <1>5, <1>6 DEF InRange, AtMost, t

(* "Clamp to range": the upper half of a number that is not above powLimit *)
(* is zero, so that the conversion to 256 bits loses nothing.              *)
LEMMA ClampedInRange == ASSUME NEW n \in Bytes(64) PROVE InRange(Clamped(n))
<1> DEFINE P == From(powLimit, 64)
           t == From(n, 32)
<1>0. 64 \in Nat /\ 32 \in Nat OBVIOUS
<1>1. P \in Bytes(64) BY <1>0, PowLimitType, FromIs
<1>2. t \in Bytes(32) BY <1>0, FromIs
<1>3. /\ \A i \in 1..32 : P[i] = powLimit[i] /\ t[i] = n[i]
      /\ \A i \in 33..64 : P[i] = 0
  <2>1. ASSUME NEW i \in 1..64
        PROVE  (i <= 32 => P[i] = powLimit[i]) /\ (i > 32 => P[i] = 0)
    BY SMTT(30), <1>0, PowLimitType, FromAt
  <2>2. ASSUME NEW i \in 1..32 PROVE t[i] = n[i]
    <3>1. i <= 64 BY SMTT(30)
    <3> QED BY <1>0, <3>1, FromAt
  <2> HIDE DEF P, t
  <2> QED BY SMTT(30), <2>1, <2>2
<1> HIDE DEF P, t
<1>4. /\ Len(P) = 64 /\ Len(n) = 64 /\ Len(t) = 32 /\ Len(powLimit) = 32
      /\ \A i \in 1..64 : n[i] \in Nat
  BY <1>1, <1>2, PowLimitType, Digits32, Digits64
<1>5. CASE Less(P, n) BY <1>5, PowLimitInRange DEF Clamped, P
<1>6. CASE ~Less(P, n) /\ IsZero(n) BY <1>6, OneInRange DEF Clamped, P
<1>7. CASE ~Less(P, n) /\ ~IsZero(n)
  <2>1. Clamped(n) = t BY <1>7 DEF Clamped, P, t
  <2>2. ASSUME NEW i \in 33..64 PROVE n[i] = 0
    <3> SUFFICES ASSUME n[i] # 0 PROVE FALSE OBVIOUS
    <3> DEFINE S == {j \in 1..64 : j > 32 /\ n[j] # 0}
    <3>1. PICK h \in S : \A j \in S : j <= h
      <4>1. i \in S /\ S \in SUBSET (1..64) BY SMTT(30)
      <4> HIDE DEF S
      <4> QED BY <1>0, <4>1, Highest
    <3>2. h \in 33..64 /\ n[h] # 0 /\ n[h] \in Nat BY SMTT(30), <1>4, <3>1
    <3>3. ASSUME NEW j \in (h + 1)..64 PROVE P[j] = n[j]
      <4>1. j \notin S BY SMTT(30), <3>1, <3>2
      <4>2. j \in 33..64 BY SMTT(30), <3>2
      <4> QED BY SMTT(30), <1>3, <4>1, <4>2
    <3>4. P[h] < n[h] BY SMTT(30), <1>3, <3>2
    <3>5. h \in 1..64 BY <3>2
    <3>6. \A j \in (h + 1)..64 : P[j] = n[j] BY <3>3
    <3>7. Less(P, n) BY <1>0, <1>1, <3>4, <3>5, <3>6, LessAt
    <3> QED BY <1>7, <3>7
  <2>3. ~IsZero(t)
    <3> SUFFICES ASSUME IsZero(t) PROVE FALSE OBVIOUS
    <3>1. \A j \in 1..32 : n[j] = 0 BY <1>3, <1>4 DEF IsZero
    <3>2. \A j \in 1..64 : n[j] = 0 BY SMTT(30), <2>2, <3>1
    <3> QED BY <1>4, <1>7, <3>2 DEF IsZero
  <2>4. ASSUME Less(powLimit, t) PROVE FALSE
    <3>1. PICK i \in 1..32 : powLimit[i] < t[i] /\ \A j \in (i + 1)..32 : powLimit[j] = t[j]
      BY SMTT(30), <1>4, <2>4 DEF Less
    <3>2. P[i] < n[i] BY <1>3, <3>1
    <3>3. ASSUME NEW j \in (i + 1)..64 PROVE P[j] = n[j]
      <4>1. CASE j <= 32 BY SMTT(30), <1>3, <3>1, <4>1
      <4>2. CASE j > 32 BY SMTT(30), <1>3, <2>2, <4>2
      <4> QED BY SMTT(30), <4>1, <4>2
    <3>4. i \in 1..64 BY SMTT(30)
    <3>5. \A j \in (i + 1)..64 : P[j] = n[j] BY <3>3
    <3>6. Less(P, n) BY <1>0, <1>1, <3>2, <3>4, <3>5, LessAt
    <3> QED BY <1>7, <3>6
  <2> QED BY <1>2, <2>1, <2>3, <2>4 DEF InRange, AtMost
<1> QED BY <1>5, <1>6, <1>7

LEMMA ASERTInRange ==
  ASSUME NEW refTarget \in Bytes(32), NEW spacing \in Nat, NEW diff \in Int, NEW k \in Int
  PROVE  InRange(CalculateASERT(refTarget, spacing, diff, k))
<1> DEFINE e == Exponent(diff - spacing * (k + 1))
           n == Times(From(refTarget, 64), Factor(e.frac))
<1>0. 64 \in Nat /\ 32 \in Nat OBVIOUS
<1>1. diff - spacing * (k + 1) \in Int BY SMTT(30)
<1>2. e.shifts \in Int /\ e.frac \in Nat BY <1>1, ExponentType
<1> HIDE DEF e
<1>3. n \in Bytes(64) BY ZenonT(40), <1>0, <1>2, FactorType, FromIs, TimesType
<1> HIDE DEF n
<1>4. Shifted(n, e.shifts - 16) \in Bytes(64) BY SMTT(30), <1>2, <1>3, ShiftedType
<1>5. InRange(Clamped(Shifted(n, e.shifts - 16))) BY <1>4, ClampedInRange
<1> QED BY <1>5 DEF CalculateASERT, e, n

(* The nBits that CheckProofOfWork accepts. *)
GoodBits(c) == c \in Compacts /\ ~Overflows(c) /\ InRange(SetCompact(c))

LEMMA CompactInRange == ASSUME NEW t, InRange(t) PROVE GoodBits(GetCompact(t))
<1> DEFINE s == SetCompact(GetCompact(t))
<1>1. /\ GetCompact(t) \in Compacts /\ ~Overflows(GetCompact(t))
      /\ s \in Bytes(32) /\ ~IsZero(s) /\ Truncated(s, t)
  BY CompactKeeps DEF InRange
<1> HIDE DEF s
<1>2. AtMost(s, powLimit) BY <1>1, PowLimitType, TruncatedAtMost DEF InRange
<1> QED BY <1>1, <1>2 DEF GoodBits, InRange, s

(* The new reference target after the activation is a number, too. *)
LEMMA RefTargetType ==
  ASSUME NEW a, nBits[a] \in Compacts PROVE RefTarget(a) \in Bytes(32)
<1> DEFINE half == ShiftRight(SetCompact(nBits[a]), 1)
<1>1. 32 \in Nat /\ 1 \in Nat OBVIOUS
<1>2. half \in Bytes(32) BY <1>1, SetCompactType, ShiftRightType
<1> HIDE DEF half
<1>3. Small(1, 32) \in Bytes(32) /\ powLimit \in Bytes(32)
  BY OneInRange, PowLimitType DEF InRange
<1> QED BY <1>2, <1>3 DEF RefTarget, half

(* Whatever the times, the branch and the algorithm of a header are, it is *)
(* asked for nBits that CheckProofOfWork accepts.                          *)
LEMMA RequiredIsGood ==
  ASSUME RangeInv, NEW b \in Blocks \ {Genesis}, pprev[b] \in index
  PROVE  GoodBits(Required(b))
<1> DEFINE p == pprev[b]
<1>0. /\ IInv /\ index \subseteq Blocks /\ ClosedUnderParent(index)
      /\ nTime \in [Blocks -> Nat] /\ asertAnchorParams \in Compacts
  BY ZenonT(40), DifficultyAssumption DEF RangeInv, BitsInv, IInv, TypeOK
<1>1. /\ p \in Blocks /\ p \in index /\ Ancestors[p] \subseteq index
      /\ nHeight[p] \in Nat /\ nTime[p] \in Nat /\ nDualAlgoActivationHeight \in Nat
      /\ nPowTargetSpacing \in Nat /\ nDualAlgoTargetSpacing \in Nat
  BY ZenonT(40), <1>0, AncestorsLeast, TreeAssumption, SecondAlgoAssumption, DifficultyAssumption
<1>2. nHeightDiff(p, b \in SecondAlgo) \in Int
  <2>1. QhashCount(p) = Cardinality(CountedBlocks(p)) BY ZenonT(40), <1>0, <1>1, ScheduleIsWalked
  <2>2. QhashCount(p) \in Nat BY <1>1, <2>1, WalkedType
  <2> QED BY SMTT(30), <1>1, <2>2 DEF nHeightDiff, nTotal
<1> HIDE DEF p
<1>3. GoodBits(GetCompact(powLimit)) BY PowLimitInRange, CompactInRange
<1>4. CASE nHeight[p] + 1 >= nDualAlgoActivationHeight
  <2>1. Anchor(p) \in index BY <1>1, <1>4, AnchorIs
  <2> DEFINE a == Anchor(p)
             diff == nTime[p] - nTime[a]
             k == nHeightDiff(p, b \in SecondAlgo)
  <2>2. RefTarget(a) \in Bytes(32) BY ZenonT(40), <2>1, RefTargetType DEF RangeInv
  <2>3. diff \in Int BY SMTT(30), <1>0, <1>1, <2>1
  <2> HIDE DEF a, diff, k
  <2>4. GoodBits(GetCompact(CalculateASERT(RefTarget(a), nDualAlgoTargetSpacing, diff, k)))
    BY <1>1, <1>2, <2>2, <2>3, ASERTInRange, CompactInRange DEF k
  <2>5. GoodBits(GetDualAlgoWorkRequired(p, nTime[b], b \in SecondAlgo))
    BY ZenonT(40), <1>3, <2>4 DEF GetDualAlgoWorkRequired, a, diff, k
  <2> QED BY ZenonT(40), <1>4, <2>5 DEF Required, GetNextWorkRequired, p
<1>5. CASE ~(nHeight[p] + 1 >= nDualAlgoActivationHeight)
  <2>1. SetCompact(asertAnchorParams) \in Bytes(32) BY <1>0, SetCompactType
  <2>2. GoodBits(GetCompact(CalculateASERT(SetCompact(asertAnchorParams), nPowTargetSpacing,
                                           nTime[p], nHeight[p])))
    <3> DEFINE r == SetCompact(asertAnchorParams)
    <3>1. nTime[p] \in Int /\ nHeight[p] \in Int BY SMTT(30), <1>1
    <3> HIDE DEF r
    <3>2. InRange(CalculateASERT(r, nPowTargetSpacing, nTime[p], nHeight[p]))
      BY ZenonT(40), <1>1, <2>1, <3>1, ASERTInRange DEF r
    <3> QED BY <3>2, CompactInRange DEF r
  <2>3. GoodBits(GetNextASERTWorkRequired(p, nTime[b]))
    BY ZenonT(40), <1>3, <2>2 DEF GetNextASERTWorkRequired
  <2> QED BY ZenonT(40), <1>5, <2>3 DEF Required, GetNextWorkRequired, p
<1> QED BY <1>4, <1>5

LEMMA RangeInit == DifficultyInit => RangeInv
<1> SUFFICES ASSUME DifficultyInit PROVE RangeInv OBVIOUS
<1>1. BitsInv BY InitIInv DEF DifficultyInit, Init, BitsInv, BitsAreReproducible, Headers
<1> QED BY <1>1 DEF DifficultyInit, Init, RangeInv

LEMMA RangeStep == RangeInv /\ [DifficultyNext]_difficultyVars => RangeInv'
<1> SUFFICES ASSUME RangeInv, [DifficultyNext]_difficultyVars PROVE RangeInv' OBVIOUS
<1>1. BitsInv' BY BitsStep DEF RangeInv
<1>2. UNCHANGED <<nTime, params>>
  BY DEF DifficultyNext, AcceptBlockHeader, DifficultyRestart, difficultyVars
<1>3. (nTime \in Timelines /\ asertAnchorParams \in AnchorBits)'
  BY <1>2 DEF RangeInv, params
<1>4. /\ DOMAIN nBits = Blocks /\ disk \subseteq index /\ index \subseteq Blocks
      /\ \A b \in index : nBits[b] \in Compacts
  BY DEF RangeInv, BitsInv, IInv, TypeOK
<1>5. ASSUME NEW c \in Blocks, AcceptBlockHeader(c) PROVE \A b \in index' : nBits'[b] \in Compacts
  <2>1. /\ index' = index \cup {c} /\ (c # Genesis => pprev[c] \in index)
        /\ nBits' = [nBits EXCEPT ![c] = IF c = Genesis THEN asertAnchorParams ELSE Required(c)]
    BY ZenonT(40), <1>5 DEF AcceptBlockHeader, AddToBlockIndex
  <2>2. asertAnchorParams \in Compacts BY DifficultyAssumption DEF RangeInv
  <2>3. c # Genesis => Required(c) \in Compacts BY <2>1, RequiredIsGood DEF GoodBits
  <2> QED BY <1>4, <2>1, <2>2, <2>3
<1>6. CASE DifficultyRestart
  BY <1>1, <1>3, <1>4, <1>6 DEF DifficultyRestart, Restart, RangeInv
<1>7. CASE UNCHANGED <<nBits, index>> BY <1>1, <1>3, <1>4, <1>7 DEF RangeInv
<1> QED BY <1>1, <1>3, <1>5, <1>6, <1>7
  DEF RangeInv, DifficultyNext, WriteBlockIndexDB, LoadBlockIndex, difficultyVars, vars

(* GetNextWorkRequired never asks for a target that CheckProofOfWork       *)
(* refuses: on every tree of blocks, with any times, version bits and      *)
(* anchor, and whatever half-life and spacings the network has.            *)
THEOREM TargetsStayInRange == DifficultySpec => []TargetsInRange
<1>1. RangeInv => TargetsInRange
  <2> SUFFICES ASSUME RangeInv, NEW b \in index \ {Genesis} PROVE GoodBits(nBits[b])
    BY DEF TargetsInRange, Headers, target, GoodBits, InRange
  <2>1. b \in Blocks /\ pprev[b] \in index BY ChainInIndex DEF RangeInv, BitsInv
  <2>2. nBits[b] = Required(b) BY DEF RangeInv, BitsInv, BitsAreReproducible, Headers
  <2> QED BY <2>1, <2>2, RequiredIsGood
<1> QED BY <1>1, RangeInit, RangeStep, PTL DEF DifficultySpec

=============================================================================

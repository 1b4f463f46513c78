------------------------------ MODULE ArithUint ------------------------------
(***************************************************************************)
(* base_uint<BITS> as far as the difficulty code uses it.  A number is the *)
(* sequence of its bytes, the least significant first, 8 of them for       *)
(* uint64_t, 32 for arith_uint256 and 64 for arith_uint512; what does not  *)
(* fit is lost, as in the code.  A compact target is the pair of its size  *)
(* and its mantissa, which the code packs into the upper 8 and the lower   *)
(* 24 bits of a uint32_t.                                                  *)
(***************************************************************************)
EXTENDS Integers, Sequences

Byte == 0..255
Bytes(w) == [1..w -> Byte]

(* base_uint::from: zeros are added or the upper bytes are dropped. *)
From(a, w) == SubSeq([i \in 1..w |-> IF i <= Len(a) THEN a[i] ELSE 0], 1, w)

(* base_uint(uint64_t) *)
Small(n, w) ==
  From(<<n % 256, (n \div 256) % 256, (n \div 65536) % 256, n \div 16777216>>, w)

(* The bytes of a number whose digits may be larger than a byte, but not   *)
(* larger than 2^26.  The four bytes of every digit are added in place,    *)
(* which leaves sums of at most 768, and what exceeds a byte is handed to  *)
(* the next one.  A sum of now at most 258 carries one at most, and so do  *)
(* the sums of 255 that follow it.                                         *)
Sum(digits, i) ==
  LET Part(k) == IF k < i THEN (digits[i - k] \div 256^k) % 256 ELSE 0
  IN  Part(0) + Part(1) + Part(2) + Part(3)

Sums(digits) ==
  SubSeq([i \in 1..Len(digits) |-> Sum(digits, i)], 1, Len(digits))

HandedOn(sums) ==
  SubSeq([i \in 1..Len(sums) |->
            (sums[i] % 256) + IF i = 1 THEN 0 ELSE sums[i - 1] \div 256], 1, Len(sums))

Carry(d, full, i) ==
  IF \E j \in full : j < i /\ \A k \in (j + 1)..(i - 1) : d[k] >= 255 THEN 1 ELSE 0

Carried(digits) ==
  LET sums == Sums(digits)
      d    == HandedOn(sums)
      full == {i \in 1..Len(digits) : d[i] > 255}
  IN  SubSeq([i \in 1..Len(digits) |-> (d[i] + Carry(d, full, i)) % 256], 1, Len(digits))

(* operator*= with a factor of at most 17 bits, and operator+=. *)
Times(a, m) == Carried([i \in 1..Len(a) |-> a[i] * m])
Plus(a, b) == Carried([i \in 1..Len(a) |-> a[i] + b[i]])

(* operator<<= and operator>>= by at most the width: bits, then bytes. *)
ShiftLeft(a, s) ==
  LET k == s \div 8
      t == Times(a, 2^(s % 8))
  IN  SubSeq([i \in 1..Len(a) |-> IF i <= k THEN 0 ELSE t[i - k]], 1, Len(a))

ShiftRight(a, s) ==
  LET k == s \div 8
      t == Times(From(a, Len(a) + 1), 2^(8 - (s % 8)))
  IN  SubSeq([i \in 1..Len(a) |-> IF i + k <= Len(a) THEN t[i + k + 1] ELSE 0], 1, Len(a))

(* CompareTo *)
Less(a, b) ==
  \E i \in 1..Len(a) : a[i] < b[i] /\ \A j \in (i + 1)..Len(a) : a[j] = b[j]
AtMost(a, b) == ~ Less(b, a)
IsZero(a) == \A i \in 1..Len(a) : a[i] = 0

(* (bits() + 7) / 8 *)
Size(a) == CHOOSE n \in 0..Len(a) : /\ n > 0 => a[n] # 0
                                    /\ \A j \in (n + 1)..Len(a) : a[j] = 0

(* The three leading bytes; the mantissa has a sign bit, so one more byte  *)
(* is dropped when it would be set.                                        *)
GetCompact(a) ==
  LET nSize == Size(a)
      At(i) == IF i > 0 THEN a[i] ELSE 0
      nWord == At(nSize) * 65536 + At(nSize - 1) * 256 + At(nSize - 2)
  IN  IF nWord >= 8388608 THEN [nSize |-> nSize + 1, nWord |-> nWord \div 256]
      ELSE [nSize |-> nSize, nWord |-> nWord]

(* The compact numbers whose sign bit is not set, up to 256 bits. *)
Mantissas == {n \in Nat : n < 8388608}
Compacts == [nSize : 1..33, nWord : Mantissas]

(* nWord after the shift to the right. *)
Word(c) == IF c.nSize <= 3 THEN c.nWord \div 256^(3 - c.nSize) ELSE c.nWord

SetCompact(c) ==
  ShiftLeft(Small(Word(c), 32), IF c.nSize <= 3 THEN 0 ELSE 8 * (c.nSize - 3))

(* pfOverflow; GetCompact never sets the sign bit, so pfNegative is false. *)
Overflows(c) ==
  Word(c) # 0 /\ (c.nSize > 34 \/ (Word(c) > 255 /\ c.nSize > 33)
                               \/ (Word(c) > 65535 /\ c.nSize > 32))
===============================================================================

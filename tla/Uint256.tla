------------------------------ MODULE Uint256 ------------------------------
(***************************************************************************)
(* The arithmetic of uint256.c: a number is two numbers of half its size,  *)
(* down to words, and every operation is put together from operations on   *)
(* words that wrap.  A word has WordBits bits, 64 in the code; the names   *)
(* of the operations keep the sizes of the code.                           *)
(*                                                                         *)
(* The special cases of the shifts by 0 and by a whole half are there for  *)
(* C, where a shift by the size of a word is undefined; a power of two has *)
(* no such gap, and the general case stands for them.                      *)
(***************************************************************************)
EXTENDS Integers

CONSTANT WordBits

ASSUME WordAssumption == WordBits \in Nat \ {0}

\* b^n
Power(b, n) ==
  LET power[k \in Nat] == IF k = 0 THEN 1 ELSE b * power[k - 1]
  IN power[n]

(***************************************************************************)
(* Words: uint64_t                                                         *)
(***************************************************************************)
Word == Power(2, WordBits)
Shl(w, n) == (w * Power(2, n)) % Word
Shr(w, n) == w \div Power(2, n)

\* The bits of w up to the highest that is set
Bits(w) ==
  CHOOSE n \in 0..WordBits : w < Power(2, n) /\ (n > 0 => w >= Power(2, n - 1))

Bit(w, i) == Shr(w, i) % 2
OrWord(v, w) ==
  LET low[i \in 0..WordBits] ==
        IF i = 0 THEN 0
        ELSE low[i - 1] + Power(2, i - 1) * (IF Bit(v, i - 1) + Bit(w, i - 1) > 0 THEN 1 ELSE 0)
  IN low[WordBits]

(***************************************************************************)
(* Pairs: uint128_t has words for halves, uint256_t has uint128_t          *)
(***************************************************************************)
Pair(upper, lower) == [upper |-> upper, lower |-> lower]

Value128(n) == n.upper * Word + n.lower
Value256(n) == Value128(n.upper) * Word * Word + Value128(n.lower)

\* readu128BE and readu256BE of a buffer that holds k
Read128(k) == Pair(k \div Word, k % Word)
Read256(k) == Pair(Read128(k \div (Word * Word)), Read128(k % (Word * Word)))

Clear128 == Pair(0, 0)
Clear256 == Pair(Clear128, Clear128)
Small(w) == Pair(Clear128, Pair(0, w))

Zero256(n) == n = Clear256

Gt128(m, n) ==
  IF m.upper = n.upper THEN m.lower > n.lower ELSE m.upper > n.upper
Gt256(m, n) ==
  IF m.upper = n.upper THEN Gt128(m.lower, n.lower) ELSE Gt128(m.upper, n.upper)
Gte256(m, n) == Gt256(m, n) \/ m = n

Or128(m, n) == Pair(OrWord(m.upper, n.upper), OrWord(m.lower, n.lower))
Or256(m, n) == Pair(Or128(m.upper, n.upper), Or128(m.lower, n.lower))

(***************************************************************************)
(* Sums and differences: a carry shows in a sum that is less than a term   *)
(***************************************************************************)
Add128(m, n) ==
  LET lower == (m.lower + n.lower) % Word
      carry == IF lower < m.lower THEN 1 ELSE 0
  IN Pair((m.upper + n.upper + carry) % Word, lower)

Minus128(m, n) ==
  LET lower == (m.lower - n.lower) % Word
      borrow == IF lower > m.lower THEN 1 ELSE 0
  IN Pair((m.upper - n.upper - borrow) % Word, lower)

Minus256(m, n) ==
  LET upper == Minus128(m.upper, n.upper)
      lower == Minus128(m.lower, n.lower)
  IN Pair(IF Gt128(lower, m.lower) THEN Minus128(upper, Pair(0, 1)) ELSE upper, lower)

(***************************************************************************)
(* Shifts                                                                  *)
(***************************************************************************)
Shiftl128(n, value) ==
  IF value < WordBits
  THEN Pair((Shl(n.upper, value) + Shr(n.lower, WordBits - value)) % Word,
            Shl(n.lower, value))
  ELSE Pair(Shl(n.lower, value - WordBits), 0)

Shiftr128(n, value) ==
  IF value < WordBits
  THEN Pair(Shr(n.upper, value),
            (Shl(n.upper, WordBits - value) + Shr(n.lower, value)) % Word)
  ELSE Pair(0, Shr(n.upper, value - WordBits))

Shiftl256(n, value) ==
  IF value < 2 * WordBits
  THEN Pair(Add128(Shiftl128(n.upper, value), Shiftr128(n.lower, 2 * WordBits - value)),
            Shiftl128(n.lower, value))
  ELSE Pair(Shiftl128(n.lower, value - 2 * WordBits), Clear128)

\* A slip: the bits that leave the upper half are dropped.
Shiftr256Dropping(n, value) ==
  Pair(Shiftr128(n.upper, value), Shiftr128(n.lower, value))

Shiftr256(n, value) ==
  IF value < 2 * WordBits
  THEN Pair(Shiftr128(n.upper, value),
            Add128(Shiftr128(n.lower, value), Shiftl128(n.upper, 2 * WordBits - value)))
  ELSE Pair(Clear128, Shiftr128(n.upper, value - 2 * WordBits))

Bits128(n) == IF n.upper # 0 THEN WordBits + Bits(n.upper) ELSE Bits(n.lower)
Bits256(n) ==
  IF n.upper # Clear128 THEN 2 * WordBits + Bits128(n.upper) ELSE Bits128(n.lower)
=============================================================================

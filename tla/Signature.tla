----------------------------- MODULE Signature -----------------------------
(***************************************************************************)
(* deriveAndSign: the signing call of the device's SDK leaves r and s in   *)
(* DER, each with a length of its own, and convert_signature_to_RSV lays   *)
(* them out in Size bytes each, 32 in the code, followed by the recovery   *)
(* id.  The offsets are computed from the two lengths alone.               *)
(*                                                                         *)
(* A byte of r or s is a record of where it comes from; the bytes of the   *)
(* DER header are numbers.  The SDK is modelled by the form of what it     *)
(* returns: the value is as long as it needs to be, with a zero before a   *)
(* value whose highest bit is set.                                         *)
(***************************************************************************)
EXTENDS Integers, Sequences

CONSTANTS
  Size,    \* bytes of r and of s in a signature, 32
  Lengths, \* of r and s in DER
  TlvSize  \* sizeof(tlv_sig), 80

\* Below Size - 4 the code would read before tlv_sig; of the signatures made
\* at random this is none that will be seen.
ASSUME SignatureAssumption ==
  /\ Size \in Nat \ 0..4
  /\ Lengths \subseteq (Size - 4)..(Size + 1)
  /\ TlvSize \in Nat /\ TlvSize >= 2 * Size + 8

VARIABLES
  tlv,  \* tlv_sig of deriveAndSign, <<>> before the signature
  info, \* what the signing call says of the point: parity and overflow
  dst   \* the bytes the host gets, <<>> before

signatureVars == <<tlv, info, dst>>

Zero == [of |-> "zero", place |-> 0]

\* The bytes of a value that takes length bytes in DER: place 1 is the last
\* of its bytes.
Integer(of, length) ==
  [n \in 1..length |->
     IF n = 1 /\ length = Size + 1 THEN Zero ELSE [of |-> of, place |-> length + 1 - n]]

Header(n) == [of |-> "header", place |-> n]

\* tlv_sig is not initialized: what the signature does not fill
LeftOver == [of |-> "left over", place |-> 0]

\* cx_ecdsa_sign: 0x30, the length of the rest, and twice 0x02, a length and
\* a value.
Der(rLength, sLength) ==
  <<Header(48), Header(4 + rLength + sLength), Header(2), Header(rLength)>>
  \o Integer("r", rLength) \o <<Header(2), Header(sLength)>> \o Integer("s", sLength)

Sign ==
  /\ tlv = <<>>
  /\ \E rLength, sLength \in Lengths :
       LET der == Der(rLength, sLength)
       IN tlv' = der \o [n \in 1..(TlvSize - Len(der)) |-> LeftOver]
  /\ info' \in [odd : BOOLEAN, over : BOOLEAN]
  /\ UNCHANGED dst

\* Bytes from..from+Size-1 of tlv, counted from 0 as the code does
Move(from) == SubSeq(tlv, from + 1, from + Size)

\* A slip: the offset of s does not count the zero before r.
RSVWithoutRLength ==
  LET rSize == tlv[4].place
      sSize == tlv[3 + rSize + 2 + 1].place
  IN Move(4 + rSize - Size) \o Move(4 + Size + 2 + (sSize - Size))

\* convert_signature_to_RSV
RSV ==
  LET rSize == tlv[4].place
      sSize == tlv[3 + rSize + 2 + 1].place
  IN Move(4 + rSize - Size) \o Move(4 + Size + 2 + (rSize - Size) + (sSize - Size))

RecoveryId == (IF info.odd THEN 1 ELSE 0) + (IF info.over THEN 2 ELSE 0)

Convert ==
  /\ tlv # <<>> /\ dst = <<>>
  /\ dst' = RSV \o <<Header(RecoveryId)>>
  /\ UNCHANGED <<tlv, info>>

SignatureInit ==
  /\ tlv = <<>>
  /\ info = [odd |-> FALSE, over |-> FALSE]
  /\ dst = <<>>

SignatureNext == Sign \/ Convert

SignatureSpec == SignatureInit /\ [][SignatureNext]_signatureVars

(***************************************************************************)
(* Correctness                                                             *)
(***************************************************************************)
\* The place of the byte n of a part of dst, from the right
Part(of) == [n \in 1..Size |-> dst[IF of = "r" THEN Size + 1 - n ELSE 2 * Size + 1 - n]]
LengthOf(of) == IF of = "r" THEN tlv[4].place ELSE tlv[tlv[4].place + 6].place

\* Whatever the lengths, every byte of r and of s arrives at its place from
\* the right; and if both take Size bytes, or one more with the zero that
\* DER adds, there is nothing else in the signature.  In front of a value
\* that takes less than Size bytes the code leaves the bytes that precede it
\* in DER, of which the property does not speak (harmony.c:60-73).
PartsAreInPlace ==
  dst # <<>> =>
    /\ Len(dst) = 2 * Size + 1
    /\ \A of \in {"r", "s"} : \A n \in 1..Size :
         n <= LengthOf(of) => Part(of)[n] = [of |-> of, place |-> n]

(***************************************************************************)
(* Why it holds                                                            *)
(***************************************************************************)
Byte == [of : {"header", "zero", "r", "s", "left over"}, place : Nat]

\* What the offsets are computed from, and where r and s end in tlv_sig;
\* nothing is delivered before the signature.
DerInv ==
  IF tlv = <<>> THEN dst = <<>> ELSE
    /\ tlv \in Seq(Byte) /\ Len(tlv) = TlvSize
    /\ \E rLength, sLength \in Lengths :
         /\ tlv[4] = Header(rLength) /\ tlv[6 + rLength] = Header(sLength)
         /\ \A n \in 1..rLength :
              n <= Size => tlv[5 + rLength - n] = [of |-> "r", place |-> n]
         /\ \A n \in 1..sLength :
              n <= Size => tlv[7 + rLength + sLength - n] = [of |-> "s", place |-> n]

\* The inductive invariant
SignatureInv == DerInv /\ PartsAreInPlace
=============================================================================

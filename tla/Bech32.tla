------------------------------- MODULE Bech32 -------------------------------
(***************************************************************************)
(* bech32_get_address and base32_encode_raw: the 20 bytes of an address    *)
(* become a text of the prefix "one", the separator, the bytes in groups   *)
(* of five bits, a character each, and six characters of checksum.  An     *)
(* action is a turn of one of the loops, of two that are nested together.  *)
(*                                                                         *)
(* A number is given by the places of its ones: {0, 2} is 5.  A byte has   *)
(* the places 0..7, a group 0..4, and the checksum 0..29.  A character     *)
(* after the separator is given by its group, its place in code_string,    *)
(* which Characters is; the prefix is given by its ASCII codes.            *)
(***************************************************************************)
EXTENDS Integers, Sequences, SequencesExt

CONSTANTS
  AddressBytes,   \* the addresses to encode
  KnownAddresses  \* texts of addresses, of 42 characters

\* 20 bytes fill 32 groups: no bit is left over.
ASSUME AddressAssumption ==
  \A bytes \in AddressBytes : bytes \in Seq(SUBSET (0..7)) /\ Len(bytes) % 5 = 0

VARIABLES
  data,   \* what to encode, or <<>>
  at,     \* "idle", "bits", "groups", "zeros", "checksum" or "encoded"
  turn,   \* the loop's counter, of the bits k
  group,  \* the group that is not yet full
  raw,    \* the groups that are
  chk,
  text    \* the characters after the separator

addressVars == <<data, at, turn, group, raw, chk, text>>

Places(n) == {p \in 0..29 : (n \div 2^p) % 2 = 1}

\* v ^ w, w << n, w >> n and w & (2^n - 1)
Xor(v, w) == (v \ w) \cup (w \ v)
Up(w, n) == {p + n : p \in w}
Down(w, n) == {p - n : p \in w \ (0..(n - 1))}
Low(w, n) == w \cap (0..(n - 1))

Characters == "qpzry9x8gf2tvdw0s3jn54khce6mua7l"

\* base32_get_char and base32_get_raw
GetChar(g) ==
  LET c == CHOOSE n \in 0..31 : Places(n) = g
  IN SubSeq(Characters, c + 1, c + 1)
GetRaw(char) == Places(CHOOSE n \in 0..31 : SubSeq(Characters, n + 1, n + 1) = char)

Hrp == <<111, 110, 101>>
CHECKSUM_LENGTH == 6

Gen == <<Places(996825010), Places(642813549), Places(513874426),
         Places(1027748829), Places(705979059)>>

\* A slip: the last of the five generators is never added.
PolymodStepFour(value, chk0) ==
  LET b == Down(chk0, 25)
      sum[n \in 0..5] ==
        IF n = 0 THEN Xor(Up(Low(chk0, 25), 5), value)
        ELSE IF n - 1 \in b \ {4} THEN Xor(sum[n - 1], Gen[n]) ELSE sum[n - 1]
  IN sum[5]

\* bech32_polymod_step
PolymodStep(value, chk0) ==
  LET b == Down(chk0, 25)
      sum[n \in 0..5] ==
        IF n = 0 THEN Xor(Up(Low(chk0, 25), 5), value)
        ELSE IF n - 1 \in b THEN Xor(sum[n - 1], Gen[n]) ELSE sum[n - 1]
  IN sum[5]

Polymod(values, chk0) ==
  LET run[n \in 0..Len(values)] == IF n = 0 THEN chk0 ELSE PolymodStep(values[n], run[n - 1])
  IN run[Len(values)]

HrpExpanded ==
  [n \in 1..3 |-> Places(Hrp[n] \div 32)] \o <<{}>> \o [n \in 1..3 |-> Places(Hrp[n] % 32)]

(***************************************************************************)
(* base32_encode_raw                                                       *)
(***************************************************************************)
\* Bit k of numbers of size bits each, the highest first
BitAt(numbers, size, k) == size - 1 - (k % size) \in numbers[(k \div size) + 1]

\* The bit enters the group from below; a full group is put out.
EncodeBit ==
  /\ at = "bits" /\ turn < 8 * Len(data)
  /\ LET next == Up(group, 1) \cup (IF BitAt(data, 8, turn) THEN {0} ELSE {})
     IN IF (turn + 1) % 5 = 0
        THEN raw' = Append(raw, next) /\ group' = {}
        ELSE group' = next /\ UNCHANGED raw
  /\ turn' = turn + 1
  /\ UNCHANGED <<data, at, chk, text>>

\* r = ++k / 5: of the bits that fill no group, only four count as one.
GroupsOf(k) == (k + 1) \div 5

\* base32_encode writes the characters of the groups that are counted, and
\* the prefix enters the checksum before the first of them.
BitsEncoded ==
  /\ at = "bits" /\ turn = 8 * Len(data)
  /\ at' = "groups"
  /\ text' = SubSeq(Append(raw, group), 1, GroupsOf(turn))
  /\ turn' = 0
  /\ UNCHANGED <<data, group, raw, chk>>

(***************************************************************************)
(* bech32_get_address                                                      *)
(***************************************************************************)
StartAddress(bytes) ==
  /\ at = "idle"
  /\ data' = bytes
  /\ at' = "bits"
  /\ chk' = Polymod(HrpExpanded, {0})
  /\ UNCHANGED <<turn, group, raw, text>>

AddGroup ==
  /\ at = "groups"
  /\ IF turn < Len(text)
     THEN /\ chk' = PolymodStep(text[turn + 1], chk)
          /\ turn' = turn + 1
          /\ UNCHANGED at
     ELSE /\ at' = "zeros" /\ turn' = 0
          /\ UNCHANGED chk
  /\ UNCHANGED <<data, group, raw, text>>

AddZero ==
  /\ at = "zeros"
  /\ IF turn < CHECKSUM_LENGTH
     THEN /\ chk' = PolymodStep({}, chk)
          /\ turn' = turn + 1
          /\ UNCHANGED at
     ELSE /\ chk' = Xor(chk, {0})
          /\ at' = "checksum" /\ turn' = 0
  /\ UNCHANGED <<data, group, raw, text>>

\* A slip: the group of the lowest bits comes first.
AppendChecksumLowFirst ==
  /\ at = "checksum"
  /\ IF turn < CHECKSUM_LENGTH
     THEN /\ text' = Append(text, Low(Down(chk, 5 * turn), 5))
          /\ turn' = turn + 1
          /\ UNCHANGED at
     ELSE at' = "encoded" /\ UNCHANGED <<turn, text>>
  /\ UNCHANGED <<data, group, raw, chk>>

AppendChecksum ==
  /\ at = "checksum"
  /\ IF turn < CHECKSUM_LENGTH
     THEN /\ text' = Append(text, Low(Down(chk, 5 * (5 - turn)), 5))
          /\ turn' = turn + 1
          /\ UNCHANGED at
     ELSE at' = "encoded" /\ UNCHANGED <<turn, text>>
  /\ UNCHANGED <<data, group, raw, chk>>

AddressInit ==
  /\ data = <<>> /\ at = "idle" /\ turn = 0
  /\ group = {} /\ raw = <<>> /\ chk = {0} /\ text = <<>>

AddressNext ==
  \/ \E bytes \in AddressBytes : StartAddress(bytes)
  \/ EncodeBit \/ BitsEncoded
  \/ AddGroup \/ AddZero \/ AppendChecksum

AddressSpec == AddressInit /\ [][AddressNext]_addressVars

(***************************************************************************)
(* Correctness                                                             *)
(***************************************************************************)
\* The bytes that a wallet reads from groups of five bits
ReadBack(groups) ==
  [n \in 1..((5 * Len(groups)) \div 8) |-> {p \in 0..7 : BitAt(groups, 5, 8 * n - 1 - p)}]

\* The address on the screen
Shown == FoldLeft(LAMBDA shown, g : shown \o GetChar(g), "one1", text)

\* The bytes an address of 42 characters stands for
Decode(address) == ReadBack([n \in 1..32 |-> GetRaw(SubSeq(address, 4 + n, 4 + n))])

\* The text of an address reads back as the address, all of its bytes, and
\* its checksum is one that a wallet accepts: the polynomial of prefix, text
\* and checksum is 1 (base32.c:35-57, bech32.c:21-89).
AddressReadsBack ==
  at = "encoded" =>
    /\ ReadBack(SubSeq(text, 1, Len(text) - CHECKSUM_LENGTH)) = data
    /\ Polymod(HrpExpanded \o text, {0}) = {0}

\* An address that another program of the network wrote is written in the
\* same way here: the generators and the characters are the ones agreed on
\* (bech32.c:91-105, base32.c:13, tests_zemu/tests/test.js:45-107).
AddressIsAgreedOn ==
  at = "encoded" => \A address \in KnownAddresses : Decode(address) = data => Shown = address
=============================================================================

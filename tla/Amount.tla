------------------------------- MODULE Amount -------------------------------
(***************************************************************************)
(* How uint256.c writes numbers: convertU256ToString an amount of the      *)
(* smallest unit in ONE, to NanoDigits decimals, and                       *)
(* convertNumericDecimalToString a rate with twice as many.  Both are      *)
(* chains of divisions, of which a loop turn is an action here, and put    *)
(* digits together that the divisions by Base leave over.                  *)
(*                                                                         *)
(* Sizes are constants.  In the code: WordBits 64, Base 10, NanoDigits 9,  *)
(* BufferSize 78, and SizeLimit 78.  A character is a digit or Point.      *)
(***************************************************************************)
EXTENDS Uint256, Sequences, SequencesExt

CONSTANTS
  Base,
  NanoDigits,
  BufferSize,  \* sizeof(stringBuf)
  SizeLimit,   \* sizeLimit of the callers of convertU256ToString
  Amounts,     \* the amounts to write
  Rates        \* the rates to write

ASSUME AmountAssumption ==
  /\ Base \in 2..16
  /\ NanoDigits \in Nat \ {0}
  /\ Power(Base, NanoDigits) < Word
  /\ BufferSize \in Nat \ {0}
  /\ SizeLimit \in Nat
  /\ Amounts \cup Rates \subseteq 0..(Power(Word, 4) - 1)

\* A number of 256 bits has at most 78 digits (uint256.c:519), and an amount
\* 18 fewer before its point and at most 9 after it.
ASSUME RoomAssumption ==
  /\ Power(Word, 4) <= Power(Base, BufferSize)
  /\ 2 * NanoDigits < BufferSize
  /\ BufferSize + 1 < SizeLimit + NanoDigits

VARIABLES
  job,     \* [of |-> "amount" or "rate", number |-> what to write], or Idle
  stage,   \* what the division that runs is for
  d,       \* divmod256: l, r, copyd, adder, resDiv, resMod
  rMod,    \* the remainder of the division that gave whole ONEs
  digits,  \* tostring256: out, lowest digit first
  output

amountVars == <<job, stage, d, rMod, digits, output>>

Point == Base
Nano == Small(Power(Base, NanoDigits))
Decimals == 2 * NanoDigits
IdleJob == [of |-> "none", number |-> 0]

(***************************************************************************)
(* divmod256                                                               *)
(***************************************************************************)
Division(l, r, copyd, adder) ==
  [l |-> l, r |-> r, copyd |-> copyd, adder |-> adder,
   resDiv |-> Clear256, resMod |-> l]

\* Up to the loop: the divisor is aligned with the highest bit of l.  A
\* divisor greater than l leaves l over, as the loop would in no turn.
Divide(l, r) ==
  LET shift == Bits256(l) - Bits256(r)
      copyd == Shiftl256(r, shift)
      adder == Shiftl256(Small(1), shift)
  IN IF Gt256(r, l) THEN Division(l, r, Clear256, Clear256)
     ELSE IF Gt256(copyd, l)
     THEN Division(l, r, Shiftr256(copyd, 1), Shiftr256(adder, 1))
     ELSE Division(l, r, copyd, adder)

Running == stage \in {"nano", "one", "whole", "fraction", "rate"}
Dividing == Running /\ Gte256(d.resMod, d.r)
Divided == Running /\ ~Gte256(d.resMod, d.r)

\* A slip: after a turn that takes nothing the divisor is not shifted.
DivisionTurnStuck ==
  /\ Dividing
  /\ LET fits == Gte256(d.resMod, d.copyd)
     IN d' = [d EXCEPT !.resMod = IF fits THEN Minus256(@, d.copyd) ELSE @,
                       !.resDiv = IF fits THEN Or256(@, d.adder) ELSE @,
                       !.copyd = IF fits THEN Shiftr256(@, 1) ELSE @,
                       !.adder = IF fits THEN Shiftr256(@, 1) ELSE @]
  /\ UNCHANGED <<job, stage, rMod, digits, output>>

DivisionTurn ==
  /\ Dividing
  /\ LET fits == Gte256(d.resMod, d.copyd)
     IN d' = [d EXCEPT !.resMod = IF fits THEN Minus256(@, d.copyd) ELSE @,
                       !.resDiv = IF fits THEN Or256(@, d.adder) ELSE @,
                       !.copyd = Shiftr256(@, 1),
                       !.adder = Shiftr256(@, 1)]
  /\ UNCHANGED <<job, stage, rMod, digits, output>>

(***************************************************************************)
(* tostring256                                                             *)
(***************************************************************************)
\* Enter the conversion of number in the stage next.
Write(next, number) ==
  /\ stage' = next
  /\ digits' = <<>>
  /\ d' = Divide(number, Small(Base))

OutOfRoom == Len(digits') > BufferSize - 1

InString == stage \in {"whole", "fraction", "rate"}

\* A digit that is not the last one, and the check before the next
Digit ==
  /\ Divided /\ InString /\ ~Zero256(d.resDiv)
  /\ digits' = Append(digits, d.resMod.lower.lower)
  /\ IF OutOfRoom
     THEN stage' = "refused" /\ UNCHANGED d
     ELSE d' = Divide(d.resDiv, Small(Base)) /\ UNCHANGED stage
  /\ UNCHANGED <<job, rMod, output>>

\* The text when its last digit has been added, and reversed
LastDigit == Divided /\ InString /\ Zero256(d.resDiv)
Text == Reverse(Append(digits, d.resMod.lower.lower))

(***************************************************************************)
(* convertU256ToString                                                     *)
(***************************************************************************)
StartAmount(n) ==
  /\ job' = [of |-> "amount", number |-> n]
  /\ stage' = "nano"
  /\ d' = Divide(Read256(n), Nano)
  /\ UNCHANGED <<rMod, digits, output>>

\* A slip: the amount is not brought from the smallest unit to ONE.
ToOneUndivided ==
  /\ Divided /\ stage = "nano"
  /\ stage' = "one"
  /\ d' = Divide(d.l, Nano)
  /\ UNCHANGED <<job, rMod, digits, output>>

ToOne ==
  /\ Divided /\ stage = "nano"
  /\ stage' = "one"
  /\ d' = Divide(d.resDiv, Nano)
  /\ UNCHANGED <<job, rMod, digits, output>>

Whole ==
  /\ Divided /\ stage = "one"
  /\ rMod' = d.resMod
  /\ Write("whole", d.resDiv)
  /\ UNCHANGED <<job, output>>

WholeWritten ==
  /\ LastDigit /\ stage = "whole"
  /\ output' = Text
  /\ IF Zero256(rMod)
     THEN stage' = "done" /\ UNCHANGED <<digits, d>>
     ELSE Write("fraction", rMod)
  /\ UNCHANGED <<job, rMod>>

Zeros(n) == [i \in 1..n |-> 0]

\* text up to its last digit that is not 0
Stripped(text) ==
  SubSeq(text, 1, CHOOSE n \in 0..Len(text) :
    /\ n > 0 => text[n] # 0
    /\ \A i \in (n + 1)..Len(text) : text[i] = 0)

\* A slip: the zeros to pad are counted after the stripping.
FractionWrittenLate ==
  /\ LastDigit /\ stage = "fraction"
  /\ LET kept == Stripped(Text)
     IN output' = output \o <<Point>> \o Zeros(NanoDigits - Len(kept)) \o kept
  /\ stage' = "done"
  /\ UNCHANGED <<job, d, rMod, digits>>

\* The decimals are padded to NanoDigits, counted before the stripping.
FractionWritten ==
  /\ LastDigit /\ stage = "fraction"
  /\ IF \/ Len(Text) > NanoDigits
        \/ Len(output) + 1 + NanoDigits > SizeLimit
     THEN stage' = "refused" /\ output' = Append(output, Point)
     ELSE /\ stage' = "done"
          /\ output' = output \o <<Point>> \o Zeros(NanoDigits - Len(Text))
                              \o Stripped(Text)
  /\ UNCHANGED <<job, d, rMod, digits>>

(***************************************************************************)
(* convertNumericDecimalToString                                           *)
(***************************************************************************)
StartRate(n) ==
  /\ job' = [of |-> "rate", number |-> n]
  /\ Write("rate", Read256(n))
  /\ UNCHANGED <<rMod, output>>

\* convertU256ToDecimalString: the point goes before the last Decimals
\* digits, and zeros at the end are left out; a whole number keeps its
\* point.
DecimalString(text) ==
  LET whole == Len(text) - Decimals
  IN IF whole > 0
     THEN SubSeq(text, 1, whole) \o <<Point>>
          \o SubSeq(text, whole + 1, Len(Stripped(text)))
     ELSE <<0, Point>> \o Zeros(-whole) \o Stripped(text)

RateWritten ==
  /\ LastDigit /\ stage = "rate"
  /\ stage' = "done"
  /\ output' = DecimalString(Text)
  /\ UNCHANGED <<job, d, rMod, digits>>

(***************************************************************************)
(* The calls                                                               *)
(***************************************************************************)
AmountInit ==
  /\ job = IdleJob
  /\ stage = "idle"
  /\ d = Division(Clear256, Small(Base), Clear256, Clear256)
  /\ rMod = Clear256
  /\ digits = <<>>
  /\ output = <<>>

Call ==
  /\ stage = "idle"
  /\ \/ \E n \in Amounts : StartAmount(n)
     \/ \E n \in Rates : StartRate(n)

AmountNext ==
  \/ Call
  \/ DivisionTurn \/ Digit
  \/ ToOne \/ Whole \/ WholeWritten \/ FractionWritten
  \/ RateWritten

AmountSpec == AmountInit /\ [][AmountNext]_amountVars

(***************************************************************************)
(* Correctness                                                             *)
(***************************************************************************)
\* The number that digits make, highest first
NumberOf(text) ==
  LET sum[n \in 0..Len(text)] == IF n = 0 THEN 0 ELSE Base * sum[n - 1] + text[n]
  IN sum[Len(text)]

\* The place of the first Point, or the one after the end
PointOf(text) ==
  CHOOSE n \in 1..(Len(text) + 1) :
    /\ n <= Len(text) => text[n] = Point
    /\ \A i \in 1..(n - 1) : text[i] # Point

\* What a text says, in units of Base^(-decimals)
ReadText(text, decimals) ==
  LET whole == SubSeq(text, 1, PointOf(text) - 1)
      fraction == SubSeq(text, PointOf(text) + 1, Len(text))
  IN NumberOf(whole) * Power(Base, decimals)
     + NumberOf(fraction) * Power(Base, decimals - Len(fraction))

\* A number on the screen is the number of the transaction: an amount down
\* to the last of its NanoDigits decimals, where what is less is dropped and
\* never rounded up (uint256.c:493-569), a rate exactly (571-636).
NumbersAreExact ==
  stage = "done" =>
    IF job.of = "amount"
    THEN ReadText(output, NanoDigits) = job.number \div Power(Base, NanoDigits)
    ELSE ReadText(output, Decimals) = job.number

\* No amount is refused for its length, and each leaves room for the NUL
\* after it, in the buffer for the digits and in the output.
AmountHasRoom ==
  /\ stage # "refused"
  /\ job.of = "amount" /\ stage \in {"whole", "fraction"} => Len(digits) + 1 < BufferSize
  /\ job.of = "amount" => Len(output) < SizeLimit

\* In every turn of divmod256, for any words: what is left and what was
\* taken make up l, and twice the shifted divisor exceeds what is left, so
\* that no bit of the quotient is set twice.
DivisionKeepsTheSum ==
  Running =>
    /\ Value256(d.l) = Value256(d.r) * Value256(d.resDiv) + Value256(d.resMod)
    /\ Dividing => /\ Value256(d.copyd) = Value256(d.r) * Value256(d.adder)
                   /\ Value256(d.resMod) < 2 * Value256(d.copyd)

\* Each conversion that is called returns.
ConversionReturns == stage # "idle" ~> stage \in {"done", "refused"}
=============================================================================

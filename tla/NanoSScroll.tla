---------------------------- MODULE NanoSScroll ----------------------------
(***************************************************************************)
(* The Nano S screens that scroll: partialStr shows 12 characters of a     *)
(* longer string, from displayIndex on, and a button held or pressed moves *)
(* displayIndex.  Both buttons go on to the next screen; its handler fills *)
(* fullStr anew and shows its first 12 characters, but not every handler   *)
(* also resets displayIndex.                                               *)
(*                                                                         *)
(* The numbers are those of the code; only the lengths of the strings that *)
(* depend on the transaction are sampled, by the constants.                *)
(***************************************************************************)
EXTENDS Integers

CONSTANTS
  ScrolledFlows,  \* the flows to look at, of those of NanoS
  NameLengths,    \* strlen of the name of a validator
  AmountLengths,  \* of the amounts with a screen of their own: more than 12
                  \* characters, and no more than amountStr has room for
  TextLengths,    \* lengths of the strings made of rates and delegations
  KeyCounts       \* blsPubKeySize; a list without keys is never parsed to its end

ASSUME ScrollAssumption ==
  /\ ScrolledFlows \subseteq {"address", "tx", "create", "edit", "delegate", "collect"}
  /\ NameLengths \subseteq 0..30
  /\ AmountLengths \subseteq 13..78
  /\ TextLengths \subseteq Nat
  /\ KeyCounts \subseteq Nat \ {0}

VARIABLES
  flow,
  name,           \* strlen of the name of the validator
  screen,
  displayIndex,   \* uint8_t
  fullStrLength,  \* amountLength, or the size of a fixed string, where those are used
  shown,          \* the offset in fullStr of the 12 characters in partialStr
  fits            \* history: no string was shorter than the window, or longer
                  \* than fullStr

vars == <<flow, name, screen, displayIndex, fullStrLength, shown, fits>>

Window == 12
MAX_ONE_ADDRESS == 42

\* The first screen of each flow that scrolls
First(f) ==
  CASE f = "address" -> "compare"
    [] f = "tx" -> "toaddr"
    [] f \in {"create", "edit"} -> "validator"
    [] f \in {"delegate", "collect"} -> "delegator"

Init ==
  /\ flow \in ScrolledFlows
  /\ name \in NameLengths
  /\ screen = First(flow)
  /\ displayIndex = 0
  /\ fullStrLength = MAX_ONE_ADDRESS
  /\ shown = 0
  /\ fits = TRUE

(***************************************************************************)
(* Seeking                                                                 *)
(***************************************************************************)
SeekLeft ==
  /\ screen # "confirm"
  /\ displayIndex' = IF displayIndex > 0 THEN displayIndex - 1 ELSE displayIndex
  /\ shown' = displayIndex'
  /\ UNCHANGED <<flow, name, screen, fullStrLength, fits>>

\* A slip: the comparison is off by one.
FurtherPastEnd ==
  IF displayIndex <= fullStrLength - Window
  THEN (displayIndex + 1) % 256 ELSE displayIndex

\* A slip: the last character is out of reach.
FurtherShort ==
  IF displayIndex < fullStrLength - Window - 1
  THEN displayIndex + 1 ELSE displayIndex

\* fullStrLength - 12 is of type uint32_t: below zero it is larger than any
\* displayIndex, which then grows and wraps.
Further ==
  IF fullStrLength < Window \/ displayIndex < fullStrLength - Window
  THEN (displayIndex + 1) % 256 ELSE displayIndex

SeekRight ==
  /\ screen # "confirm"
  /\ displayIndex' = Further
  /\ shown' = Further
  /\ UNCHANGED <<flow, name, screen, fullStrLength, fits>>

(***************************************************************************)
(* Going on: both buttons                                                  *)
(***************************************************************************)
\* The handlers that show an address or an amount reset displayIndex.
Fresh(next, length) ==
  /\ screen' = next
  /\ displayIndex' = 0
  /\ fullStrLength' = length
  /\ shown' = 0
  /\ UNCHANGED <<flow, name, fits>>

\* Those of the screens of creating and editing a validator do not.
Kept(next, length) ==
  /\ screen' = next
  /\ fullStrLength' = length
  /\ shown' = 0
  /\ fits' = (fits /\ length \in Window..132)
  /\ UNCHANGED <<flow, name, displayIndex>>

\* The last screen that scrolls is followed by one that does not.
Leave == Kept("confirm", fullStrLength)

\* A slip: displayIndex is kept from the address before.
AddressKept ==
  /\ screen \in {"toaddr", "validator"} /\ flow \in {"tx", "delegate"}
  /\ (\E n \in AmountLengths : Kept("amountlarge", n)) \/ Leave

\* The amount has a screen that scrolls only if it is longer than 12.
Address ==
  /\ screen \in {"toaddr", "validator"} /\ flow \in {"tx", "delegate"}
  /\ (\E n \in AmountLengths : Fresh("amountlarge", n)) \/ Leave

Delegator ==
  /\ screen = "delegator"
  /\ IF flow = "collect" THEN Leave ELSE Fresh("validator", fullStrLength)

Validator ==
  /\ screen = "validator" /\ flow \in {"create", "edit"}
  /\ Kept("name", name)

Name == screen = "name" /\ \E n \in TextLengths : Kept("rates", n)

Rates == screen = "rates" /\ \E n \in TextLengths : Kept("delegation", n)

\* Each BLS key takes 13 characters and at most ten are shown; an edit shows
\* the key it removes and the key it adds.
Delegation ==
  /\ screen = "delegation"
  /\ IF flow = "edit"
     THEN Kept("bls", 38)
     ELSE \E n \in KeyCounts : Kept("bls", 13 * (IF n > 10 THEN 10 ELSE n))

Last == screen \in {"compare", "amountlarge", "bls"} /\ Leave

Proceed ==
  Address \/ Delegator \/ Validator \/ Name \/ Rates \/ Delegation \/ Last

Next == SeekLeft \/ SeekRight \/ Proceed

Spec == Init /\ [][Next]_vars

(***************************************************************************)
(* Correctness                                                             *)
(***************************************************************************)
\* ui.h:46-47: "partialStr contains 12 characters of a longer string": the
\* window never leaves the string.
WindowInString ==
  screen # "confirm" => shown + Window <= fullStrLength

ResetFlows == {"address", "tx", "delegate", "collect"}

\* It does so in the flows that reset displayIndex for each screen.
AddressesAndAmountsStayInWindow == flow \in ResetFlows => WindowInString

\* There, seeking right stops only when the last character is shown: no part
\* of an address or of an amount is out of the user's reach
\* (getTxnSig.c:317-323, staking.c:601-607).
NothingIsOutOfReach ==
  flow \in ResetFlows /\ screen # "confirm" /\ Further = displayIndex
    => displayIndex + Window = fullStrLength

\* The array the window reads: fullStr of either context, toAddr, amountStr
Room ==
  CASE flow = "address" -> 77
    [] screen = "toaddr" -> MAX_ONE_ADDRESS
    [] flow = "tx" /\ screen = "amountlarge" -> 78
    [] OTHER -> 132

\* Unless a string was shorter than 12 characters, so that fullStrLength - 12
\* wrapped on its screen, or longer than fullStr, the window stays inside of
\* the array even with a displayIndex that was not reset, on every screen
\* (ui.h:39-101, staking.c:248-255).
WindowInRoom == screen # "confirm" /\ fits => shown + Window <= Room

(***************************************************************************)
(* Why it holds                                                            *)
(***************************************************************************)
\* The screens of each flow that scroll
Screens(f) ==
  CASE f = "address" -> {"compare"}
    [] f = "tx" -> {"toaddr", "amountlarge"}
    [] f \in {"create", "edit"} -> {"validator", "name", "rates", "delegation", "bls"}
    [] f = "delegate" -> {"delegator", "validator", "amountlarge"}
    [] f = "collect" -> {"delegator"}

ScrollTypeOK ==
  /\ flow \in ScrolledFlows /\ name \in NameLengths
  /\ screen \in Screens(flow) \cup {"confirm"}
  /\ displayIndex \in 0..255 /\ fullStrLength \in Nat /\ shown \in Nat
  /\ fits \in BOOLEAN

\* Where displayIndex is reset it stays in the string of the screen, which
\* fits into its array; elsewhere it stays in the array as long as all strings
\* did, also where it is beyond the end of the string of the screen.
IndexInv ==
  screen # "confirm" =>
    /\ shown <= displayIndex
    /\ flow \in ResetFlows =>
         displayIndex + Window <= fullStrLength /\ fullStrLength <= Room
    /\ flow \notin ResetFlows /\ fits =>
         fullStrLength \in Window..132 /\ displayIndex + Window <= 132

AddressInv ==
  screen \in {"compare", "toaddr", "delegator", "validator"} =>
    fullStrLength = MAX_ONE_ADDRESS

\* The inductive invariant
ScrollInv == ScrollTypeOK /\ IndexInv /\ AddressInv
=============================================================================

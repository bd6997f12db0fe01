------------------------- MODULE NanoSScrollProofs -------------------------
(***************************************************************************)
(* Theorems about the Nano S screens that scroll, for strings of all       *)
(* lengths: where displayIndex is reset the window never leaves the string *)
(* and reaches its end, and elsewhere it stays in fullStr as long as all   *)
(* strings do and none is shorter than the window.                         *)
(***************************************************************************)
EXTENDS NanoSScroll, TLAPS

LEMMA ScrollInit == Init => ScrollInv
<1> SUFFICES ASSUME Init PROVE ScrollInv
  OBVIOUS
<1>1. /\ flow \in {"address", "tx", "create", "edit", "delegate", "collect"}
      /\ screen = First(flow) /\ screen \in Screens(flow)
  BY ScrollAssumption DEF Init, First, Screens
<1>2. ScrollTypeOK
  BY <1>1 DEF Init, ScrollTypeOK, MAX_ONE_ADDRESS
<1>3. MAX_ONE_ADDRESS <= Room /\ MAX_ONE_ADDRESS \in Window..132
  BY DEF Room, MAX_ONE_ADDRESS, Window
<1> QED  BY <1>2, <1>3 DEF Init, ScrollInv, IndexInv, AddressInv, Window, MAX_ONE_ADDRESS

\* Both buttons that seek leave the string alone, and stay before its end
\* if they were.
LEMMA SeekStep ==
  ASSUME ScrollTypeOK, SeekLeft \/ SeekRight
  PROVE  /\ displayIndex' \in 0..255
         /\ \/ displayIndex' <= displayIndex
            \/ fullStrLength < Window
            \/ displayIndex' + Window <= fullStrLength
<1>1. displayIndex \in 0..255 /\ fullStrLength \in Nat
  BY DEF ScrollTypeOK
<1>2. CASE SeekLeft
  BY <1>1, <1>2 DEF SeekLeft
<1>3. CASE SeekRight
  <2>1. (displayIndex + 1) % 256 \in 0..255 /\ (displayIndex + 1) % 256 <= displayIndex + 1
    BY <1>1
  <2> QED  BY <1>1, <1>3, <2>1 DEF SeekRight, Further, Window
<1> QED  BY <1>2, <1>3

\* An index that moves on in its string stays below what bounds both.
LEMMA StepStays ==
  ASSUME NEW d \in Int, NEW e \in Int, NEW length \in Int, NEW bound \in Int,
         e <= d \/ length < 12 \/ e + 12 <= length,
         d + 12 <= bound, 12 <= length, length <= bound
  PROVE  e + 12 <= bound
  OBVIOUS

LEMMA SeekKeeps ==
  ASSUME ScrollInv, SeekLeft \/ SeekRight
  PROVE  ScrollInv'
<1>1. /\ screen # "confirm" /\ shown' = displayIndex' /\ Room' = Room
      /\ UNCHANGED <<flow, name, screen, fullStrLength, fits>>
  BY DEF SeekLeft, SeekRight, Room
<1>2. /\ displayIndex' \in 0..255
      /\ \/ displayIndex' <= displayIndex
         \/ fullStrLength < Window
         \/ displayIndex' + Window <= fullStrLength
  BY SeekStep DEF ScrollInv
<1>3. ScrollTypeOK' /\ AddressInv'
  BY <1>1, <1>2 DEF ScrollInv, ScrollTypeOK, AddressInv
<1>4. IndexInv'
  <2>1. /\ displayIndex \in 0..255 /\ fullStrLength \in Nat
        /\ flow \in ResetFlows =>
             displayIndex + Window <= fullStrLength /\ fullStrLength <= Room
        /\ flow \notin ResetFlows /\ fits =>
             fullStrLength \in Window..132 /\ displayIndex + Window <= 132
    BY <1>1 DEF ScrollInv, ScrollTypeOK, IndexInv
  <2>a. displayIndex \in Int /\ fullStrLength \in Int /\ displayIndex' \in Int
    BY <1>2, <2>1
  <2>b. \/ displayIndex' <= displayIndex
        \/ fullStrLength < 12
        \/ displayIndex' + 12 <= fullStrLength
    BY <1>2 DEF Window
  <2>c. 0 <= displayIndex /\ 132 \in Int
    BY <2>1
  <2>2. displayIndex + 12 <= fullStrLength => displayIndex' + 12 <= fullStrLength
    <3> SUFFICES ASSUME displayIndex + 12 <= fullStrLength
                 PROVE  displayIndex' + 12 <= fullStrLength
      OBVIOUS
    <3>1. 12 <= fullStrLength /\ fullStrLength <= fullStrLength
      BY <2>a, <2>c
    <3> QED  BY <2>a, <2>b, <3>1, StepStays
  <2>3. fullStrLength \in 12..132 /\ displayIndex + 12 <= 132 => displayIndex' + 12 <= 132
    <3> SUFFICES ASSUME fullStrLength \in 12..132, displayIndex + 12 <= 132
                 PROVE  displayIndex' + 12 <= 132
      OBVIOUS
    <3>1. 12 <= fullStrLength /\ fullStrLength <= 132
      OBVIOUS
    <3>2. \A bound \in Int : displayIndex + 12 <= bound /\ fullStrLength <= bound =>
                               displayIndex' + 12 <= bound
      BY <2>a, <2>b, <3>1, StepStays
    <3> QED  BY <2>c, <3>1, <3>2
  <2>4. shown' <= displayIndex'
    BY <1>1, <1>2
  <2>5. flow \in ResetFlows =>
          displayIndex' + Window <= fullStrLength /\ fullStrLength <= Room
    BY <2>1, <2>2 DEF Window
  <2>6. flow \notin ResetFlows /\ fits =>
          fullStrLength \in Window..132 /\ displayIndex' + Window <= 132
    BY <2>1, <2>3 DEF Window
  <2> QED  BY <1>1, <2>4, <2>5, <2>6 DEF IndexInv
<1> QED  BY <1>3, <1>4 DEF ScrollInv

\* A screen that resets displayIndex shows an address or an amount.
LEMMA FreshKeeps ==
  ASSUME ScrollInv, NEW next, NEW length \in 13..78, Fresh(next, length),
         flow \in ResetFlows, next \in Screens(flow),
         length = MAX_ONE_ADDRESS \/ next = "amountlarge"
  PROVE  ScrollInv'
<1>1. /\ screen' = next /\ displayIndex' = 0 /\ fullStrLength' = length /\ shown' = 0
      /\ UNCHANGED <<flow, name, fits>>
  BY DEF Fresh
<1>2. ScrollTypeOK' /\ AddressInv'
  BY <1>1 DEF ScrollInv, ScrollTypeOK, AddressInv
<1>3. length <= Room'
  <2>1. CASE length = MAX_ONE_ADDRESS
    BY <1>1, <2>1 DEF Room, MAX_ONE_ADDRESS
  <2>2. CASE next = "amountlarge"
    <3>1. flow \in {"tx", "delegate"}
      BY <2>2 DEF Screens, ResetFlows
    <3>2. Room' \in {78, 132}
      BY <1>1, <2>2, <3>1 DEF Room
    <3> QED  BY <3>2
  <2> QED  BY <2>1, <2>2
<1>4. IndexInv'
  BY <1>1, <1>3 DEF IndexInv, Window
<1> QED  BY <1>2, <1>4 DEF ScrollInv

\* A screen of a flow that keeps displayIndex, or one that does not scroll
LEMMA KeptKeeps ==
  ASSUME ScrollInv, screen # "confirm", NEW next, NEW length \in Nat, Kept(next, length),
         next = "confirm" \/ (flow \in {"create", "edit"} /\ next \in Screens(flow)),
         next # "validator"
  PROVE  ScrollInv'
<1>1. /\ screen' = next /\ fullStrLength' = length /\ shown' = 0
      /\ fits' = (fits /\ length \in Window..132)
      /\ UNCHANGED <<flow, name, displayIndex>>
  BY DEF Kept
<1>2. ScrollTypeOK' /\ AddressInv'
  <2>1. fits' \in BOOLEAN
    BY <1>1
  <2>2. next \notin {"compare", "toaddr", "delegator", "validator"}
    BY DEF Screens
  <2> QED  BY <1>1, <2>1, <2>2 DEF ScrollInv, ScrollTypeOK, AddressInv
<1>3. IndexInv'
  <2>1. CASE next = "confirm"
    BY <1>1, <2>1 DEF IndexInv
  <2>2. CASE next # "confirm"
    <3>1. flow \notin ResetFlows
      BY <2>2 DEF ResetFlows
    <3>2. displayIndex \in 0..255 /\ (fits => displayIndex + Window <= 132)
      BY <3>1 DEF ScrollInv, ScrollTypeOK, IndexInv
    <3>3. fits' => fits /\ length \in Window..132
      BY <1>1
    <3>4. 0 <= displayIndex
      BY <3>2
    <3> QED  BY <1>1, <3>1, <3>2, <3>3, <3>4 DEF IndexInv
  <2> QED  BY <2>1, <2>2
<1> QED  BY <1>2, <1>3 DEF ScrollInv

LEMMA ProceedKeeps ==
  ASSUME ScrollInv, Proceed
  PROVE  ScrollInv'
<1>1. /\ flow \in {"address", "tx", "create", "edit", "delegate", "collect"}
      /\ screen \in Screens(flow) \cup {"confirm"} /\ fullStrLength \in Nat
      /\ name \in Nat
  BY ScrollAssumption DEF ScrollInv, ScrollTypeOK
<1>2. CASE Leave /\ screen # "confirm"
  BY <1>1, <1>2, KeptKeeps DEF Leave
<1>3. CASE Address
  <2>1. CASE Leave
    BY <1>2, <1>3, <2>1 DEF Address
  <2>2. CASE \E n \in AmountLengths : Fresh("amountlarge", n)
    <3>1. PICK n \in AmountLengths : Fresh("amountlarge", n)
      BY <2>2
    <3>2. n \in 13..78 /\ flow \in ResetFlows /\ "amountlarge" \in Screens(flow)
      BY <1>3, ScrollAssumption DEF Address, ResetFlows, Screens
    <3> QED  BY <3>1, <3>2, FreshKeeps
  <2> QED  BY <1>3, <2>1, <2>2 DEF Address
<1>4. CASE Delegator
  <2>1. CASE flow = "collect"
    BY <1>2, <1>4, <2>1 DEF Delegator
  <2>2. CASE flow # "collect"
    <3>1. flow = "delegate"
      BY <1>1, <1>4, <2>2 DEF Delegator, Screens
    <3>2. /\ flow \in ResetFlows /\ "validator" \in Screens(flow)
          /\ fullStrLength = MAX_ONE_ADDRESS /\ fullStrLength \in 13..78
      BY <1>4, <3>1 DEF ResetFlows, Screens, Delegator, ScrollInv, AddressInv, MAX_ONE_ADDRESS
    <3>3. Fresh("validator", fullStrLength)
      BY <1>4, <2>2 DEF Delegator
    <3> QED  BY <3>2, <3>3, FreshKeeps
  <2> QED  BY <2>1, <2>2
<1>5. CASE Validator
  <2>1. "name" \in Screens(flow) /\ screen # "confirm"
    BY <1>5 DEF Validator, Screens
  <2> QED  BY <1>1, <1>5, <2>1, KeptKeeps DEF Validator
<1>6. ASSUME screen \in {"name", "rates", "delegation"}
      PROVE  /\ flow \in {"create", "edit"}
             /\ {"rates", "delegation", "bls"} \subseteq Screens(flow)
  BY <1>1, <1>6 DEF Screens
<1>7. CASE Name \/ Rates
  <2>1. PICK n \in TextLengths, next \in {"rates", "delegation"} : Kept(next, n)
    BY <1>7 DEF Name, Rates
  <2>2. n \in Nat /\ screen # "confirm"
    BY <1>7, ScrollAssumption DEF Name, Rates
  <2> QED  BY <1>6, <1>7, <2>1, <2>2, KeptKeeps DEF Name, Rates
<1>8. CASE Delegation
  <2>1. PICK n \in Nat : Kept("bls", n)
    <3>1. \A n \in KeyCounts : 13 * (IF n > 10 THEN 10 ELSE n) \in Nat
      BY ScrollAssumption
    <3> QED  BY <1>8, <3>1 DEF Delegation
  <2> QED  BY <1>6, <1>8, <2>1, KeptKeeps DEF Delegation
<1>9. CASE Last
  BY <1>2, <1>9 DEF Last
<1> QED  BY <1>3, <1>4, <1>5, <1>7, <1>8, <1>9 DEF Proceed

LEMMA ScrollNext == ScrollInv /\ [Next]_vars => ScrollInv'
<1> SUFFICES ASSUME ScrollInv, [Next]_vars PROVE ScrollInv'
  OBVIOUS
<1>1. CASE UNCHANGED vars
  <2>1. UNCHANGED <<flow, name, screen, displayIndex, fullStrLength, shown, fits, Room>>
    BY <1>1 DEF vars, Room
  <2> QED  BY <2>1 DEF ScrollInv, ScrollTypeOK, IndexInv, AddressInv
<1> QED  BY <1>1, SeekKeeps, ProceedKeeps DEF Next

\* What the button handlers rely on is an invariant: ScrollInv.
THEOREM ScrollInvariance == Spec => []ScrollInv
  BY ScrollInit, ScrollNext, PTL DEF Spec

\* The screens of addresses and amounts reset displayIndex: their window
\* never leaves the string, whatever its length.
THEOREM WindowStays == Spec => []AddressesAndAmountsStayInWindow
<1>1. ScrollInv => AddressesAndAmountsStayInWindow
  BY DEF ScrollInv, ScrollTypeOK, IndexInv, AddressesAndAmountsStayInWindow, WindowInString, Window
<1> QED  BY <1>1, ScrollInvariance, PTL

\* Seeking right stops there only with the last character on the screen, so
\* that the user can read an address or an amount of any length to its end.
THEOREM AllIsInReach == Spec => []NothingIsOutOfReach
<1>1. ScrollInv => NothingIsOutOfReach
  <2> SUFFICES ASSUME ScrollInv, flow \in ResetFlows, screen # "confirm",
                      Further = displayIndex
               PROVE  displayIndex + Window = fullStrLength
    BY DEF NothingIsOutOfReach
  <2>1. /\ displayIndex \in 0..255 /\ fullStrLength \in Nat
        /\ displayIndex + Window <= fullStrLength
    BY DEF ScrollInv, ScrollTypeOK, IndexInv
  <2>2. (displayIndex + 1) % 256 # displayIndex
    BY <2>1
  <2> QED  BY <2>1, <2>2 DEF Further, Window
<1> QED  BY <1>1, ScrollInvariance, PTL

\* The handlers that do not reset displayIndex keep the window inside of the
\* array as long as every string filled it once and none left it.
THEOREM WindowStaysInRoom == Spec => []WindowInRoom
<1>1. ScrollInv => WindowInRoom
  <2> SUFFICES ASSUME ScrollInv, screen # "confirm", fits
               PROVE  shown + Window <= Room
    BY DEF WindowInRoom
  <2>1. /\ shown \in Nat /\ displayIndex \in 0..255 /\ fullStrLength \in Nat
        /\ shown <= displayIndex
    BY DEF ScrollInv, ScrollTypeOK, IndexInv
  <2>2. CASE flow \in ResetFlows
    <3>1. displayIndex + Window <= fullStrLength /\ fullStrLength <= Room
      BY <2>2 DEF ScrollInv, IndexInv
    <3>2. Room \in Nat
      BY DEF Room, MAX_ONE_ADDRESS
    <3> QED  BY <2>1, <3>1, <3>2 DEF Window
  <2>3. CASE flow \notin ResetFlows
    <3>1. flow \in {"create", "edit"}
      BY <2>3, ScrollAssumption DEF ScrollInv, ScrollTypeOK, ResetFlows
    <3>2. screen \in {"validator", "name", "rates", "delegation", "bls"}
      BY <3>1 DEF ScrollInv, ScrollTypeOK, Screens
    <3>3. Room = 132 /\ displayIndex + Window <= 132
      BY <2>3, <3>1, <3>2 DEF Room, ScrollInv, IndexInv
    <3> QED  BY <2>1, <3>3 DEF Window
  <2> QED  BY <2>2, <2>3
<1> QED  BY <1>1, ScrollInvariance, PTL
=============================================================================

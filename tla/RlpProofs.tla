----------------------------- MODULE RlpProofs -----------------------------
(***************************************************************************)
(* Theorems about the parsers, for documents whose items fit the members   *)
(* they are copied to (ItemsHaveRoom), with headers of any length and any  *)
(* number of keys, cut anywhere.                                           *)
(***************************************************************************)
EXTENDS Rlp, FiniteSetTheorems, SequenceTheorems, TLAPS

(***************************************************************************)
(* Induction, and the offsets of items                                     *)
(***************************************************************************)
\* A set that holds 0 and the successor of each number in it holds all.
LEMMA SetInduction ==
  ASSUME NEW S, 0 \in S, \A n \in Nat : n \in S => n + 1 \in S
  PROVE  \A n \in Nat : n \in S
<1> DEFINE R == OpToRel(<, Nat)
           T == Nat \ S
<1>1. SUFFICES ASSUME T # {} PROVE FALSE
  OBVIOUS
<1>2. PICK n \in T : \A m \in T : ~(<<m, n>> \in R)
  BY <1>1, NatLessThanWellFounded, WFMin
<1>3. n \in Nat /\ n # 0
  BY <1>2
<1>4. n - 1 \in Nat /\ n - 1 < n /\ n - 1 + 1 = n
  BY <1>3
<1>5. <<n - 1, n>> \in R
  BY <1>3, <1>4, Zenon DEF OpToRel
<1>6. n - 1 \in S
  BY <1>2, <1>4, <1>5
<1> QED  BY <1>2, <1>4, <1>6

\* The sums of a sequence of numbers, as a function that is defined from its
\* own values, exist.
Sums(w, o, n) ==
  /\ o \in [0..n -> Nat] /\ o[0] = 0
  /\ \A k \in 1..n : o[k] = o[k - 1] + w[k]

LEMMA SumsExist ==
  ASSUME NEW l \in Nat, NEW w, \A k \in 1..l : w[k] \in Nat
  PROVE  \E o : Sums(w, o, l)
<1> DEFINE S == {n \in Nat : n <= l => \E o : Sums(w, o, n)}
<1>1. 0 \in S
  <2> DEFINE o == [k \in 0..0 |-> 0]
  <2>1. Sums(w, o, 0)
    BY DEF Sums
  <2> HIDE DEF o
  <2> QED  BY <2>1
<1>2. ASSUME NEW n \in Nat, n \in S PROVE n + 1 \in S
  <2> SUFFICES ASSUME n + 1 <= l PROVE \E o : Sums(w, o, n + 1)
    OBVIOUS
  <2>1. PICK o : Sums(w, o, n)
    BY <1>2
  <2> DEFINE q == [k \in 0..(n + 1) |-> IF k = n + 1 THEN o[n] + w[n + 1] ELSE o[k]]
  <2>2. w[n + 1] \in Nat /\ o[n] \in Nat
    BY <2>1 DEF Sums
  <2>3. q \in [0..(n + 1) -> Nat] /\ q[0] = 0
    BY <2>1, <2>2 DEF Sums
  <2>4. ASSUME NEW k \in 1..(n + 1) PROVE q[k] = q[k - 1] + w[k]
    <3>1. CASE k = n + 1
      BY <3>1
    <3>2. CASE k # n + 1
      <4>1. k \in 1..n /\ k - 1 \in 0..n /\ k - 1 # n + 1 /\ k \in 0..n
        BY <3>2
      <4> QED  BY <2>1, <3>2, <4>1 DEF Sums
    <3> QED  BY <3>1, <3>2
  <2> HIDE DEF q
  <2>5. Sums(w, q, n + 1)
    BY <2>3, <2>4 DEF Sums
  <2> QED  BY <2>5
<1> HIDE DEF S
<1>3. l \in S
  BY <1>1, <1>2, SetInduction
<1> QED  BY <1>3 DEF S

\* The bytes of an item that are read with it
Span(item) == IF item.enter THEN item.head ELSE Bytes(item)

\* Sums do not decrease.
LEMMA SumsGrow ==
  ASSUME NEW l \in Nat, NEW w, \A k \in 1..l : w[k] \in Nat, NEW o, Sums(w, o, l),
         NEW j \in 0..l, NEW m \in j..l
  PROVE  o[j] <= o[m]
<1> DEFINE S == {n \in Nat : j + n <= l => o[j] <= o[j + n]}
<1>1. 0 \in S
  BY DEF Sums
<1>2. ASSUME NEW n \in Nat, n \in S PROVE n + 1 \in S
  <2> SUFFICES ASSUME j + (n + 1) <= l PROVE o[j] <= o[j + (n + 1)]
    OBVIOUS
  <2>1. j + n \in 0..l /\ j + (n + 1) \in 1..l /\ j + (n + 1) - 1 = j + n
    OBVIOUS
  <2>2. o[j + (n + 1)] = o[j + n] + w[j + (n + 1)] /\ w[j + (n + 1)] \in Nat
    BY <2>1 DEF Sums
  <2>3. o[j] \in Nat /\ o[j + n] \in Nat /\ o[j] <= o[j + n]
    BY <1>2, <2>1 DEF Sums
  <2> QED  BY <2>2, <2>3
<1> HIDE DEF S
<1>3. m - j \in Nat /\ m - j \in S /\ j + (m - j) = m
  BY <1>1, <1>2, SetInduction
<1> QED  BY <1>3 DEF S

LEMMA OffsetsShape ==
  ASSUME NEW d \in Documents
  PROVE  LET l == Len(d.items)
             o == Offsets(d.items)
         IN  /\ l \in Nat
             /\ o \in [0..l -> Nat] /\ o[0] = 0
             /\ \A n \in 0..(l - 1) : o[n + 1] = o[n] + Span(d.items[n + 1])
             /\ \A j \in 0..l : \A m \in j..l : o[j] <= o[m]
<1> DEFINE items == d.items
           l == Len(items)
           w == [n \in 1..l |-> Span(items[n])]
<1>1. items \in Seq(ItemType) /\ l \in Nat
  BY RlpAssumption
<1>2. \A n \in 1..l : w[n] \in Nat
  <2>1. \A n \in 1..l : items[n] \in ItemType
    BY <1>1
  <2> QED  BY <2>1 DEF Span, Bytes, ItemType
<1>3. PICK s : Sums(w, s, l)
  BY <1>1, <1>2, SumsExist
<1> DEFINE Defines(o) ==
             o = [n \in 0..l |->
                    IF n = 0 THEN 0
                    ELSE o[n - 1] + (IF items[n].enter THEN items[n].head ELSE Bytes(items[n]))]
<1>w. \A n \in 1..l : w[n] = Span(items[n])
  OBVIOUS
<1>4. Defines(s)
  <2> HIDE DEF w, items, l
  <2>1. s = [n \in 0..l |-> s[n]]
    BY <1>3 DEF Sums
  <2>2. s[0] = 0
    BY <1>3 DEF Sums
  <2>3. ASSUME NEW n \in 0..l, n # 0
        PROVE  s[n] = s[n - 1] + (IF items[n].enter THEN items[n].head ELSE Bytes(items[n]))
    <3>1. n \in 1..l
      BY <1>1, <2>3
    <3> QED  BY <1>3, <1>w, <3>1 DEF Sums, Span
  <2>4. \A n \in 0..l :
          s[n] = IF n = 0 THEN 0
                 ELSE s[n - 1] + (IF items[n].enter THEN items[n].head ELSE Bytes(items[n]))
    BY <2>2, <2>3
  <2> QED  BY <2>1, <2>4
<1>5. Offsets(items) = CHOOSE o : Defines(o)
  BY DEF Offsets
<1> HIDE DEF Defines
<1>6. Defines(Offsets(items))
  BY <1>4, <1>5
<1> DEFINE o == Offsets(items)
<1>7. o = [n \in 0..l |-> IF n = 0 THEN 0 ELSE o[n - 1] + Span(items[n])]
  BY <1>6, Zenon DEF Defines, Span
<1> HIDE DEF o
<1>8. o[0] = 0 /\ \A n \in 1..l : o[n] = o[n - 1] + w[n]
  <2>1. o[0] = 0
    BY <1>1, <1>7
  <2>2. ASSUME NEW n \in 1..l PROVE o[n] = o[n - 1] + Span(items[n])
    <3>1. n \in 0..l /\ n # 0
      BY <1>1
    <3> QED  BY <1>7, <3>1
  <2> QED  BY <2>1, <2>2
<1> HIDE DEF w, items
<1>9. o \in [0..l -> Nat]
  <2> HIDE DEF l
  <2> DEFINE S == {n \in Nat : n <= l => o[n] \in Nat}
  <2>1. 0 \in S
    BY <1>8
  <2>2. ASSUME NEW n \in Nat, n \in S PROVE n + 1 \in S
    <3> SUFFICES ASSUME n + 1 <= l PROVE o[n + 1] \in Nat
      OBVIOUS
    <3>1. n + 1 \in 1..l /\ n + 1 - 1 = n /\ o[n] \in Nat
      BY <1>1, <2>2
    <3> QED  BY <1>2, <1>8, <3>1
  <2> HIDE DEF S
  <2>3. \A n \in Nat : n \in S
    BY <2>1, <2>2, SetInduction
  <2>4. \A n \in 0..l : o[n] \in Nat
    BY <1>1, <2>3 DEF S
  <2>5. o = [n \in 0..l |-> o[n]]
    BY <1>7
  <2> QED  BY <2>4, <2>5
<1>10. Sums(w, o, l)
  BY <1>8, <1>9 DEF Sums
<1>11. \A j \in 0..l : \A m \in j..l : o[j] <= o[m]
  <2> HIDE DEF l
  <2> QED  BY <1>1, <1>2, <1>10, SumsGrow
<1>12. \A n \in 0..(l - 1) : o[n + 1] = o[n] + Span(items[n + 1])
  <2>1. ASSUME NEW n \in 0..(l - 1) PROVE o[n + 1] = o[n] + w[n + 1]
    <3>1. n + 1 \in 1..l /\ n + 1 - 1 = n
      BY <1>1
    <3> QED  BY <1>8, <3>1
  <2>2. ASSUME NEW n \in 0..(l - 1) PROVE w[n + 1] = Span(items[n + 1])
    <3>1. n + 1 \in 1..l
      BY <1>1
    <3> HIDE DEF l
    <3> QED  BY <1>w, <3>1
  <2> QED  BY <2>1, <2>2
<1> QED  BY <1>1, <1>8, <1>9, <1>11, <1>12 DEF o, items

(***************************************************************************)
(* Fields and layouts                                                      *)
(***************************************************************************)
\* The field after another one, of a document that is there as a whole
After(d, f) ==
  IF d.kind = "tx" THEN
    CASE f = "CONTENT" -> "NONCE"
      [] f = "NONCE" -> "GASPRICE"
      [] f = "GASPRICE" -> "GASLIMIT"
      [] f = "GASLIMIT" -> "FROMSHARD"
      [] f = "FROMSHARD" -> "TOSHARD"
      [] f = "TOSHARD" -> "TO"
      [] f = "TO" -> "AMOUNT"
  ELSE
    CASE f = "CONTENT" -> "DIRECTIVE"
      [] f = "DIRECTIVE" -> "STAKEMESSAGE"
      [] f = "STAKEMESSAGE" ->
           IF d.directive \in {"create", "edit"} THEN "VALIDATORADDR" ELSE "DELEGATORADDR"
      [] f = "DELEGATORADDR" -> "VALIDATORADDR"
      [] f = "VALIDATORADDR" ->
           IF d.directive \in {"delegate", "undelegate"} THEN "AMOUNT" ELSE "DESCRIPTION"
      [] f = "DESCRIPTION" -> "NAME"
      [] f = "NAME" -> "IDENTITY"
      [] f = "IDENTITY" -> "WEBSITE"
      [] f = "WEBSITE" -> "SECURITYCONTACT"
      [] f = "SECURITYCONTACT" -> "DETAILS"
      [] f = "DETAILS" -> IF d.directive = "edit" THEN "RATE" ELSE "COMMISSIONRATES"
      [] f = "COMMISSIONRATES" -> "RATE"
      [] f = "RATE" ->
           IF d.directive = "edit" /\ d.items[RateOfEdit].size = 0
           THEN "MINSELFDELEGATION" ELSE "RATE_VALUE"
      [] f = "RATE_VALUE" ->
           IF d.directive = "edit" THEN "MINSELFDELEGATION" ELSE "MAXRATE"
      [] f = "MAXRATE" -> "MAXRATE_VALUE"
      [] f = "MAXRATE_VALUE" -> "MAXCHANGERATE"
      [] f = "MAXCHANGERATE" -> "MAXCHANGERATE_VALUE"
      [] f = "MAXCHANGERATE_VALUE" -> "MINSELFDELEGATION"
      [] f = "MINSELFDELEGATION" -> "MAXTOTALDELEGATION"
      [] f = "MAXTOTALDELEGATION" ->
           IF d.directive = "create" THEN "SLOTPUBKEYS" ELSE "SLOTKEYTOREMOVE"
      [] f = "SLOTKEYTOREMOVE" -> "SLOTKEYTOADD"
      [] f = "SLOTKEYTOADD" -> "SLOTKEYTOADDSIGNATURE"
      [] f = "SLOTKEYTOADDSIGNATURE" -> "EDITACTIVE"

LEMMA SuccAt ==
  ASSUME NEW F, NEW n \in DOMAIN F, field = F[n], \A m \in DOMAIN F : F[m] = F[n] => m = n
  PROVE  Succ(F) = F[n + 1]
<1>1. (CHOOSE m \in DOMAIN F : F[m] = field) = n
  OBVIOUS
<1> QED  BY <1>1 DEF Succ

LEMMA SuccTx ==
  ASSUME NEW n \in 1..8, field = TxFields[n]
  PROVE  Succ(TxFields) = TxFields[n + 1]
<1>1. \A m \in 1..9 : TxFields[m] = TxFields[n] => m = n
  BY DEF TxFields
<1>2. DOMAIN TxFields = 1..9
  BY DEF TxFields
<1> QED  BY <1>1, <1>2, SuccAt

LEMMA SuccStake ==
  ASSUME NEW n \in 1..32, field = StakeFields[n]
  PROVE  Succ(StakeFields) = StakeFields[n + 1]
<1>1. \A m \in 1..33 : StakeFields[m] = StakeFields[n] => m = n
  BY DEF StakeFields
<1>2. DOMAIN StakeFields = 1..33
  BY DEF StakeFields
<1> QED  BY <1>1, <1>2, SuccAt

\* The item after which the parser is done, refuses, or comes to keys
LastOf(d) ==
  IF d.kind = "tx" \/ d.directive \in {"delegate", "undelegate"} THEN "AMOUNT"
  ELSE IF d.directive = "collect" THEN "DELEGATORADDR"
  ELSE IF d.directive = "create" THEN "SLOTPUBKEYS"
  ELSE IF d.directive = "edit" THEN "EDITACTIVE"
  ELSE "MAXTOTALDELEGATION"

KeyFields == {"BLSPUBKEY", "BLSSIGS", "BLSSIGNATURE"}

Shape(d, L, l) ==
  /\ DOMAIN L = 1..l /\ Len(L) = l /\ l >= 4
  /\ \A n \in 1..(l - 1) : L[n + 1] = After(d, L[n])
  /\ \A n \in 1..l : L[n] = LastOf(d) <=> n = l
  /\ \A n \in 1..l : L[n] = "CONTENT" <=> n = 1
  /\ \A n \in 1..l : L[n] \notin KeyFields \cup {"DONE"}
  /\ \A n \in 1..l : L[n] \in {"SLOTPUBKEYS", "EDITACTIVE", "AMOUNT"} => L[n] = LastOf(d)
  /\ d.kind = "stake" => \A n \in 1..l : L[n] = "DIRECTIVE" <=> n = 2
  /\ d.kind = "stake" /\ d.directive \in {"collect", "delegate", "undelegate"} =>
       \A n \in 1..l : L[n] # "MAXTOTALDELEGATION"
  /\ Edits(d) => \A n \in 1..l : L[n] = "RATE" => n = RateOfEdit

LEMMA TxShape ==
  ASSUME NEW d, d.kind = "tx"
  PROVE  Shape(d, TxLayout, 8)
BY DEF Shape, TxLayout, After, LastOf, KeyFields, Edits

LEMMA CollectShape ==
  ASSUME NEW d, d.kind = "stake", d.directive = "collect"
  PROVE  Shape(d, CollectLayout, 4)
BY DEF Shape, CollectLayout, After, LastOf, KeyFields, Edits

LEMMA DelegateShape ==
  ASSUME NEW d, d.kind = "stake", d.directive \in {"delegate", "undelegate"}
  PROVE  Shape(d, DelegateLayout, 6)
BY DEF Shape, DelegateLayout, After, LastOf, KeyFields, Edits

LEMMA CreateShape ==
  ASSUME NEW d, d.kind = "stake", d.directive = "create"
  PROVE  Shape(d, CreateLayout, 20)
BY DEF Shape, CreateLayout, After, LastOf, KeyFields, Edits

LEMMA EditShape ==
  ASSUME NEW d, d.kind = "stake", d.directive = "edit", d.items[RateOfEdit].size # 0
  PROVE  Shape(d, EditLayout, 18)
BY DEF Shape, EditLayout, After, LastOf, KeyFields, Edits, RateOfEdit

LEMMA EditWithoutRateShape ==
  ASSUME NEW d, d.kind = "stake", d.directive = "edit", d.items[RateOfEdit].size = 0
  PROVE  Shape(d, EditWithoutRate, 17)
BY DEF Shape, EditWithoutRate, After, LastOf, KeyFields, Edits, RateOfEdit

LEMMA OtherShape ==
  ASSUME NEW d, d.kind = "stake", d.directive = "other"
  PROVE  Shape(d, OtherLayout, 20)
BY DEF Shape, OtherLayout, After, LastOf, KeyFields, Edits

LEMMA LayoutShape ==
  ASSUME NEW d \in Documents
  PROVE  /\ \E l \in Nat : Shape(d, Layout(d), l)
         /\ Len(Layout(d)) <= Len(d.items)
         /\ \A n \in DOMAIN Layout(d) : d.items[n].role = Layout(d)[n]
<1>1. /\ d.kind \in {"tx", "stake"} /\ IsLaidOut(d)
      /\ d.kind = "stake" =>
            d.directive \in {"collect", "delegate", "undelegate", "create", "edit", "other"}
  BY RlpAssumption
<1>2. \E l \in Nat : Shape(d, Layout(d), l)
  <2>1. CASE d.kind = "tx"
    BY <2>1, TxShape DEF Layout
  <2>2. CASE d.kind = "stake" /\ d.directive = "collect"
    BY <2>2, CollectShape DEF Layout
  <2>3. CASE d.kind = "stake" /\ d.directive \in {"delegate", "undelegate"}
    BY <2>3, DelegateShape DEF Layout
  <2>4. CASE d.kind = "stake" /\ d.directive = "create"
    BY <2>4, CreateShape DEF Layout
  <2>5. CASE d.kind = "stake" /\ d.directive = "edit" /\ d.items[RateOfEdit].size # 0
    BY <2>5, EditShape DEF Layout
  <2>6. CASE d.kind = "stake" /\ d.directive = "edit" /\ d.items[RateOfEdit].size = 0
    BY <2>6, EditWithoutRateShape DEF Layout
  <2>7. CASE d.kind = "stake" /\ d.directive = "other"
    BY <2>7, OtherShape DEF Layout
  <2> QED  BY <1>1, <2>1, <2>2, <2>3, <2>4, <2>5, <2>6, <2>7
<1> QED  BY <1>1, <1>2 DEF IsLaidOut

(***************************************************************************)
(* Reading one item                                                        *)
(***************************************************************************)
\* The keys of a validator are of the type of items, and so is their number.
LEMMA KeysOf ==
  ASSUME NEW d \in Documents, Creates(d)
  PROVE  LET n == KeyCount(d)
         IN  /\ n \in Nat /\ KeysAreLaidOut(d)
             /\ Len(CreateLayout) = 20 /\ Layout(d) = CreateLayout
             /\ Len(d.items) >= 22 + 2 * n
             /\ d.items[20].size = n * (MAX_BLS_ADDRESS + 1)
             /\ \A m \in 1..Len(d.items) : d.items[m].role = "BLSPUBKEY" <=> m \in 21..(20 + n)
             /\ d.items[21 + n].role = "BLSSIGS"
             /\ d.items[21 + n].size = n * (MAX_SIG_ADDRESS + 2)
             /\ \A m \in 1..n : d.items[21 + n + m].role = "BLSSIGNATURE"
             /\ d.items[22 + 2 * n].role = "AMOUNT"
<1>1. IsLaidOut(d) /\ d.items \in Seq(ItemType)
  BY RlpAssumption
<1>2. Len(CreateLayout) = 20
  BY DEF CreateLayout
<1>3. Layout(d) = CreateLayout
  BY DEF Creates, Layout
<1>4. KeysAreLaidOut(d)
  BY <1>1 DEF IsLaidOut
<1>5. 20 <= Len(d.items) /\ DOMAIN d.items = 1..Len(d.items)
  <2>1. Len(Layout(d)) = 20
    BY <1>2, <1>3
  <2>2. Len(Layout(d)) <= Len(d.items)
    BY <1>1 DEF IsLaidOut
  <2> QED  BY <1>1, <2>1, <2>2
<1>6. d.items[20] \in ItemType
  BY <1>1, <1>5
<1>7. KeyCount(d) \in Nat
  <2>1. d.items[20].size \in Nat
    BY <1>6 DEF ItemType
  <2>2. MAX_BLS_ADDRESS + 1 \in Nat /\ MAX_BLS_ADDRESS + 1 > 0
    BY RlpAssumption
  <2>3. \A a \in Nat : \A b \in Nat : b > 0 => a \div b \in Nat
    OBVIOUS
  <2> QED  BY <1>2, <2>1, <2>2, <2>3 DEF KeyCount
<1> DEFINE n == KeyCount(d)
           before == Len(CreateLayout)
<1>8. /\ Len(d.items) >= before + 2 * n + 2
      /\ d.items[before].size = n * (MAX_BLS_ADDRESS + 1)
      /\ \A m \in DOMAIN d.items :
           d.items[m].role = "BLSPUBKEY" <=> m \in (before + 1)..(before + n)
      /\ d.items[before + n + 1].role = "BLSSIGS"
      /\ d.items[before + n + 1].size = n * (MAX_SIG_ADDRESS + 2)
      /\ \A m \in 1..n : d.items[before + n + 1 + m].role = "BLSSIGNATURE"
      /\ d.items[before + 2 * n + 2].role = "AMOUNT"
  BY <1>4, Zenon DEF KeysAreLaidOut
<1>9. n \in Nat /\ before = 20
  BY <1>2, <1>7
<1> HIDE DEF n, before
<1>10. /\ before + 1 = 21 /\ before + n = 20 + n /\ before + n + 1 = 21 + n
       /\ before + 2 * n + 2 = 22 + 2 * n
  BY <1>9
<1>11. /\ d.items[20].size = n * (MAX_BLS_ADDRESS + 1)
       /\ \A m \in 1..Len(d.items) : d.items[m].role = "BLSPUBKEY" <=> m \in 21..(20 + n)
       /\ Len(d.items) >= 22 + 2 * n
  <2>1. d.items[20].size = n * (MAX_BLS_ADDRESS + 1)
    BY <1>8, <1>9
  <2>2. \A m \in 1..Len(d.items) : d.items[m].role = "BLSPUBKEY" <=> m \in 21..(20 + n)
    BY <1>5, <1>8, <1>10, Zenon
  <2>3. Len(d.items) >= 22 + 2 * n
    BY <1>8, <1>10
  <2> QED  BY <2>1, <2>2, <2>3
<1>12. /\ d.items[21 + n].role = "BLSSIGS"
       /\ d.items[21 + n].size = n * (MAX_SIG_ADDRESS + 2)
       /\ \A m \in 1..n : d.items[21 + n + m].role = "BLSSIGNATURE"
       /\ d.items[22 + 2 * n].role = "AMOUNT"
  BY <1>8, <1>10, Zenon
<1>13. n = KeyCount(d) /\ before = Len(CreateLayout)
  BY DEF n, before
<1> QED  BY <1>3, <1>4, <1>9, <1>11, <1>12, <1>13, Zenon

\* The next item is there, has the role of the field, and ends where the one
\* after it begins.
LEMMA SteadyItem ==
  ASSUME doc \in Documents, Steady
  PROVE  /\ Item \in ItemType /\ IsItem(Item) /\ Item.role = field
         /\ read \in Nat /\ read + 1 \in 1..Len(doc.items)
         /\ Offsets(doc.items)[read] \in Nat /\ Total \in Nat
         /\ Offsets(doc.items)[read + 1] = Offsets(doc.items)[read] + Span(Item)
         /\ Offsets(doc.items)[read + 1] <= Total
<1> DEFINE l == Len(doc.items)
           o == Offsets(doc.items)
<1>1. /\ l \in Nat /\ o \in [0..l -> Nat]
      /\ \A n \in 0..(l - 1) : o[n + 1] = o[n] + Span(doc.items[n + 1])
      /\ \A j \in 0..l : \A m \in j..l : o[j] <= o[m]
  BY OffsetsShape
<1>2. read \in 0..(l - 1)
  BY DEF Steady
<1>3. read \in Nat /\ read + 1 \in 1..l /\ read \in 0..l /\ read + 1 \in 0..l /\ l \in (read + 1)..l
  BY <1>1, <1>2
<1>4. Item \in ItemType /\ IsItem(Item)
  <2>1. doc.items \in Seq(ItemType) /\ \A n \in DOMAIN doc.items : IsItem(doc.items[n])
    BY RlpAssumption
  <2> QED  BY <1>3, <2>1 DEF Item
<1>5. Item.role = field
  <2>1. CASE read < Len(Layout(doc)) /\ field = Layout(doc)[read + 1]
    <3>1. PICK k \in Nat : Shape(doc, Layout(doc), k)
      BY LayoutShape
    <3>2. read + 1 \in DOMAIN Layout(doc)
      BY <1>3, <2>1, <3>1 DEF Shape
    <3> QED  BY <2>1, <3>2, LayoutShape DEF Item
  <2>2. CASE Creates(doc) /\ KeyCount(doc) > 0 /\
             ~(read < Len(Layout(doc)) /\ field = Layout(doc)[read + 1])
    <3> DEFINE n == KeyCount(doc)
    <3>1. /\ n \in Nat
          /\ Len(CreateLayout) = 20
          /\ Len(doc.items) >= 22 + 2 * n
          /\ \A m \in 1..Len(doc.items) : doc.items[m].role = "BLSPUBKEY" <=> m \in 21..(20 + n)
          /\ doc.items[21 + n].role = "BLSSIGS"
          /\ \A m \in 1..n : doc.items[21 + n + m].role = "BLSSIGNATURE"
          /\ doc.items[22 + 2 * n].role = "AMOUNT"
      BY <2>2, KeysOf
    <3>2. \/ /\ field = "BLSPUBKEY"
             /\ keyIndex \in 0..(n - 1) /\ read = 20 + keyIndex
          \/ field = "BLSSIGS" /\ read = 20 + n
          \/ /\ field = "BLSSIGNATURE"
             /\ keyIndex \in 0..(n - 1) /\ read = 20 + n + 1 + keyIndex
          \/ field = "AMOUNT" /\ read = 20 + 2 * n + 1
      BY <2>2, <3>1 DEF Steady, Standing
    <3> HIDE DEF n, l
    <3>3. CASE field = "BLSPUBKEY" /\ keyIndex \in 0..(n - 1) /\ read = 20 + keyIndex
      <4>1. read + 1 \in 21..(20 + n)
        BY <3>1, <3>3
      <4> QED  BY <1>3, <3>1, <3>3, <4>1 DEF Item, l
    <3>4. CASE field = "BLSSIGS" /\ read = 20 + n
      <4>1. read + 1 = 21 + n
        BY <3>1, <3>4
      <4> QED  BY <3>1, <3>4, <4>1 DEF Item
    <3>5. CASE field = "BLSSIGNATURE" /\ keyIndex \in 0..(n - 1) /\ read = 20 + n + 1 + keyIndex
      <4>1. keyIndex + 1 \in 1..n /\ read + 1 = 21 + n + (keyIndex + 1)
        BY <3>1, <3>5
      <4> QED  BY <3>1, <3>5, <4>1 DEF Item
    <3>6. CASE field = "AMOUNT" /\ read = 20 + 2 * n + 1
      <4>1. read + 1 = 22 + 2 * n
        BY <3>1, <3>6
      <4> QED  BY <3>1, <3>6, <4>1 DEF Item
    <3> QED  BY <3>2, <3>3, <3>4, <3>5, <3>6
  <2> QED  BY <2>1, <2>2 DEF Steady, Standing
<1>t. Total = o[l]
  BY DEF Total
<1>6. o[read] \in Nat /\ Total \in Nat
  <2> HIDE DEF o, l
  <2> QED  BY <1>1, <1>3, <1>t
<1>7. o[read + 1] = o[read] + Span(Item)
  BY <1>1, <1>2 DEF Item
<1>8. o[read + 1] <= Total
  <2> HIDE DEF o, l
  <2> QED  BY <1>1, <1>3, <1>t
<1> QED  BY <1>3, <1>4, <1>5, <1>6, <1>7, <1>8

\* An item was read to its end.
OneMore ==
  /\ doc' = doc /\ cut' = cut /\ read' = read + 1
  /\ left' \in Nat /\ cut = Offsets(doc.items)[read + 1] + left'
  /\ landed' = landed \cup {[field |-> field, role |-> field, whole |-> TRUE]}

\* The input ended within an item.
CutShort ==
  /\ doc' = doc /\ cut' = cut /\ left' = 0 /\ cut < Total
  /\ landed' = landed \cup {[field |-> field, role |-> field, whole |-> FALSE]}

LEMMA EnterReads ==
  ASSUME doc \in Documents, Steady, Decodes, field \in Lists, NEW next, Enter(next)
  PROVE  OneMore /\ field' = next /\ result' = result
<1>1. Item.enter /\ Item.head \in Nat /\ Item.head # 0 /\ Item.role = field
  BY SteadyItem DEF ItemType, IsItem
<1>2. left - Item.head \in Nat
  BY <1>1 DEF Decodes, Feeds, Needs, IsTooLong, RlpBuffer, Smaller, Steady
<1>3. Offsets(doc.items)[read + 1] = Offsets(doc.items)[read] + Item.head
  BY <1>1, SteadyItem DEF Span
<1>4. cut = Offsets(doc.items)[read] + left /\ left \in Nat
  BY DEF Steady
<1>5. Offsets(doc.items)[read] \in Nat
  BY SteadyItem
<1>6. cut = Offsets(doc.items)[read + 1] + (left - Item.head)
  BY <1>1, <1>3, <1>4, <1>5
<1> QED  BY <1>1, <1>2, <1>6 DEF OneMore, Enter, Land

LEMMA ConsumeReads ==
  ASSUME doc \in Documents, Steady, Decodes, field \notin Lists, NEW next, Consume(next)
  PROVE  /\ field' = next
         /\ Whole => OneMore
         /\ ~Whole => CutShort
<1>1. /\ ~Item.enter /\ Item.head \in Nat /\ Item.size \in Nat /\ Item.role = field
      /\ Item.head = 0 => Item.size = 1
  BY SteadyItem DEF ItemType, IsItem
<1>2. left \in Nat /\ left - Item.head \in Nat /\ (Item.head = 0 => left - Item.head >= 1)
  BY <1>1 DEF Decodes, Feeds, Needs, IsTooLong, RlpBuffer, Smaller, Steady
<1>3. Offsets(doc.items)[read + 1] = Offsets(doc.items)[read] + Item.head + Item.size
  BY <1>1, SteadyItem DEF Span, Bytes, ItemType
<1>4. cut = Offsets(doc.items)[read] + left
  BY DEF Steady
<1>5. Offsets(doc.items)[read] \in Nat /\ Offsets(doc.items)[read + 1] <= Total /\ Total \in Nat
  BY SteadyItem
<1>6. landed' = landed \cup {[field |-> field, role |-> field, whole |-> Whole]}
  BY <1>1 DEF Consume, Land
<1>7. field' = next /\ doc' = doc /\ cut' = cut /\ read' = read + 1
      /\ left' = left - Item.head - Copied
  BY DEF Consume
<1>8. CASE Whole
  <2>1. Copied = Item.size /\ left - Item.head >= Item.size
    BY <1>1, <1>2, <1>8 DEF Whole, Copied, Smaller
  <2>2. left' \in Nat /\ cut = Offsets(doc.items)[read + 1] + left'
    BY <1>1, <1>2, <1>3, <1>4, <1>5, <1>7, <2>1
  <2>3. Whole = TRUE
    BY <1>8 DEF Whole
  <2> QED  BY <1>6, <1>7, <1>8, <2>2, <2>3 DEF OneMore
<1>9. CASE ~Whole
  <2>1. Copied = left - Item.head /\ left - Item.head < Item.size
    BY <1>1, <1>2, <1>9 DEF Whole, Copied, Smaller
  <2>2. left' = 0 /\ cut < Total
    BY <1>1, <1>2, <1>3, <1>4, <1>5, <1>7, <2>1
  <2>3. Whole = FALSE
    BY <1>9 DEF Whole
  <2> QED  BY <1>6, <1>7, <1>9, <2>2, <2>3 DEF CutShort
<1> QED  BY <1>7, <1>8, <1>9

\* What is left when no header can be decoded
LEMMA SteadyEnds ==
  ASSUME doc \in Documents, Steady, IF left = 0 THEN TRUE ELSE left < Needs
  PROVE  cut < Total
<1>1. /\ Item.head \in Nat /\ Item.size \in Nat /\ Item.enter \in BOOLEAN
      /\ Item.head = 0 => Item.size = 1 /\ ~Item.enter
  BY SteadyItem DEF ItemType, IsItem
<1>2. Needs \in Nat /\ 0 < Needs /\ Needs <= Span(Item) /\ Span(Item) \in Nat
  BY <1>1 DEF Needs, Smaller, RlpBuffer, Span, Bytes
<1>3. left \in Nat /\ left < Needs /\ cut = Offsets(doc.items)[read] + left
  BY <1>2 DEF Steady
<1> QED  BY <1>2, <1>3, SteadyItem

(***************************************************************************)
(* What a step keeps                                                       *)
(***************************************************************************)
\* What landed of the items that were read, when nothing was missing
LEMMA MoreLanded ==
  ASSUME doc \in Documents, Steady, OneMore
  PROVE  /\ \A l \in landed' : l.whole /\ l.field = l.role
         /\ \A n \in 1..(read + 1) : \E l \in landed' : l.field = doc.items[n].role
<1>1. \A l \in landed' : l.whole /\ l.field = l.role
  BY DEF Steady, OneMore
<1>2. ASSUME NEW n \in 1..(read + 1) PROVE \E l \in landed' : l.field = doc.items[n].role
  <2>1. CASE n = read + 1
    <3>1. doc.items[n].role = field
      BY <2>1, SteadyItem DEF Item
    <3> DEFINE l == [field |-> field, role |-> field, whole |-> TRUE]
    <3>2. l \in landed' /\ l.field = field
      BY DEF OneMore
    <3> QED  BY <3>1, <3>2
  <2>2. CASE n # read + 1
    <3>1. n \in 1..read
      BY <2>2, SteadyItem
    <3>2. PICK l \in landed : l.field = doc.items[n].role
      BY <3>1 DEF Steady
    <3> QED  BY <3>2 DEF OneMore
  <2> QED  BY <2>1, <2>2
<1> QED  BY <1>1, <1>2

\* The parser stands at the next item of a layout.
LEMMA SteadyAgain ==
  ASSUME doc \in Documents, Steady, OneMore, cut \in 0..Total,
         result' = "running",
         Standing', read + 1 <= Len(doc.items) - 1,
         doc.kind = "stake" /\ read + 1 >= 2 => directive' = doc.directive
  PROVE  RlpInv'
<1>1. /\ doc' = doc /\ cut' = cut /\ read' = read + 1
      /\ left' \in Nat /\ cut = Offsets(doc.items)[read + 1] + left'
  BY DEF OneMore
<1>2. read \in Nat /\ Len(doc.items) \in Nat
  BY SteadyItem, OffsetsShape
<1>3. (read \in 0..(Len(doc.items) - 1))'
  BY <1>1, <1>2
<1>4. (left \in Nat /\ cut = Offsets(doc.items)[read] + left)'
  BY <1>1
<1>5. (doc.kind = "stake" /\ read >= 2 => directive = doc.directive)'
  BY <1>1
<1>6. (/\ \A l \in landed : l.whole /\ l.field = l.role
       /\ \A n \in 1..read : \E l \in landed : l.field = doc.items[n].role)'
  BY <1>1, MoreLanded
<1>7. Steady'
  BY <1>3, <1>4, <1>5, <1>6 DEF Steady
<1>8. (doc \in Documents /\ cut \in 0..Total)'
  BY <1>1 DEF Total
<1> QED  BY <1>7, <1>8 DEF RlpInv

LEMMA WholeStep ==
  ASSUME doc \in Documents, Steady, OneMore, cut \in 0..Total, result' = "running",
         read < Len(Layout(doc)), field = Layout(doc)[read + 1],
         field # LastOf(doc), field' = After(doc, field),
         doc.kind = "stake" /\ read + 1 >= 2 => directive' = doc.directive
  PROVE  RlpInv'
<1> DEFINE L == Layout(doc)
<1>1. PICK k \in Nat : Shape(doc, L, k)
  BY LayoutShape
<1>2. read \in Nat /\ Len(doc.items) \in Nat /\ Len(L) = k /\ k <= Len(doc.items)
  BY <1>1, SteadyItem, OffsetsShape, LayoutShape DEF Shape
<1> HIDE DEF L
<1>3. read + 1 \in 1..k /\ L[read + 1] = field
  BY <1>2 DEF L
<1>4. read + 1 # k
  BY <1>1, <1>3 DEF Shape
<1>5. read + 1 \in 1..(k - 1) /\ read + 1 < k
  BY <1>3, <1>4
<1>6. field' = L[read + 1 + 1]
  BY <1>1, <1>3, <1>5 DEF Shape
<1>7. (read < Len(Layout(doc)) /\ field = Layout(doc)[read + 1])'
  BY <1>2, <1>5, <1>6 DEF L, OneMore
<1>8. Standing'
  BY <1>7 DEF Standing
<1>9. read + 1 <= Len(doc.items) - 1
  BY <1>2, <1>5
<1> QED  BY <1>8, <1>9, SteadyAgain

\* The input ended within an item, and the parser did not notice yet.
LEMMA ShortStep ==
  ASSUME doc \in Documents, cut \in 0..Total, CutShort, result' = "running", field' # "DONE"
  PROVE  RlpInv'
<1>1. doc' = doc /\ cut' = cut /\ left' = 0 /\ cut < Total
  BY DEF CutShort
<1>2. (doc \in Documents /\ cut \in 0..Total)' /\ Excused'
  BY <1>1 DEF Total, Excused
<1> QED  BY <1>1, <1>2 DEF RlpInv

\* The document is turned down.
LEMMA RefusedStep ==
  ASSUME doc \in Documents, cut \in 0..Total, doc' = doc, cut' = cut,
         result' \in {"exhausted", "refused"}, Excused'
  PROVE  RlpInv'
BY DEF RlpInv, Total

(***************************************************************************)
(* The last item                                                           *)
(***************************************************************************)
\* All that a transaction is made of is among its first n items.
Covered(n) == Expected \subseteq {doc.items[m].role : m \in 1..n}

LEMMA CoveredByLayout ==
  ASSUME doc \in Documents, ~Creates(doc), doc.directive # "other" \/ doc.kind = "tx"
  PROVE  Covered(Len(Layout(doc)))
<1> DEFINE L == Layout(doc)
<1>1. /\ doc.kind \in {"tx", "stake"}
      /\ doc.kind = "stake" => doc.directive \in {"collect", "delegate", "undelegate", "edit"}
  BY RlpAssumption DEF Creates
<1>2. PICK k \in Nat : Shape(doc, L, k)
  BY LayoutShape
<1>3. \A n \in 1..k : doc.items[n].role = L[n]
  BY <1>2, LayoutShape DEF Shape
<1>4. Len(L) = k /\ DOMAIN L = 1..k
  BY <1>2 DEF Shape
<1>5. \A f \in Expected : \E n \in 1..k : L[n] = f
  <2>1. CASE doc.kind = "tx"
    <3>1. L = TxLayout /\ k = 8
      BY <1>4, <2>1 DEF Layout, TxLayout
    <3>2. /\ TxLayout[1] = "CONTENT" /\ TxLayout[2] = "NONCE" /\ TxLayout[3] = "GASPRICE"
          /\ TxLayout[4] = "GASLIMIT" /\ TxLayout[5] = "FROMSHARD" /\ TxLayout[6] = "TOSHARD"
          /\ TxLayout[7] = "TO" /\ TxLayout[8] = "AMOUNT"
      BY DEF TxLayout
    <3>3. Expected = {"CONTENT", "NONCE", "GASPRICE", "GASLIMIT", "FROMSHARD", "TOSHARD",
                      "TO", "AMOUNT"}
      BY <2>1 DEF Expected
    <3> HIDE DEF L
    <3> QED  BY <3>1, <3>2, <3>3
  <2>2. CASE doc.kind = "stake" /\ doc.directive = "collect"
    <3>1. L = CollectLayout /\ k = 4
      BY <1>4, <2>2 DEF Layout, CollectLayout
    <3>2. /\ CollectLayout[1] = "CONTENT" /\ CollectLayout[2] = "DIRECTIVE"
          /\ CollectLayout[3] = "STAKEMESSAGE" /\ CollectLayout[4] = "DELEGATORADDR"
      BY DEF CollectLayout
    <3>3. Expected = {"CONTENT", "DIRECTIVE", "STAKEMESSAGE", "DELEGATORADDR"}
      BY <2>2 DEF Expected
    <3> HIDE DEF L
    <3> QED  BY <3>1, <3>2, <3>3
  <2>3. CASE doc.kind = "stake" /\ doc.directive \in {"delegate", "undelegate"}
    <3>1. L = DelegateLayout /\ k = 6
      BY <1>4, <2>3 DEF Layout, DelegateLayout
    <3>2. /\ DelegateLayout[1] = "CONTENT" /\ DelegateLayout[2] = "DIRECTIVE"
          /\ DelegateLayout[3] = "STAKEMESSAGE" /\ DelegateLayout[4] = "DELEGATORADDR"
          /\ DelegateLayout[5] = "VALIDATORADDR" /\ DelegateLayout[6] = "AMOUNT"
      BY DEF DelegateLayout
    <3>3. Expected = {"CONTENT", "DIRECTIVE", "STAKEMESSAGE", "DELEGATORADDR",
                      "VALIDATORADDR", "AMOUNT"}
      BY <2>3 DEF Expected
    <3> HIDE DEF L
    <3> QED  BY <3>1, <3>2, <3>3
  <2>4. CASE doc.kind = "stake" /\ doc.directive = "edit"
    <3>3. Expected = {"CONTENT", "DIRECTIVE", "STAKEMESSAGE", "VALIDATORADDR", "NAME",
                      "MINSELFDELEGATION", "MAXTOTALDELEGATION", "SLOTKEYTOREMOVE",
                      "SLOTKEYTOADD", "EDITACTIVE"}
      BY <2>4 DEF Expected
    <3>1. CASE doc.items[RateOfEdit].size = 0
      <4>1. L = EditWithoutRate /\ k = 17
        BY <1>4, <2>4, <3>1 DEF Layout, EditWithoutRate
      <4>2. /\ EditWithoutRate[1] = "CONTENT" /\ EditWithoutRate[2] = "DIRECTIVE"
            /\ EditWithoutRate[3] = "STAKEMESSAGE" /\ EditWithoutRate[4] = "VALIDATORADDR"
            /\ EditWithoutRate[6] = "NAME" /\ EditWithoutRate[12] = "MINSELFDELEGATION"
            /\ EditWithoutRate[13] = "MAXTOTALDELEGATION"
            /\ EditWithoutRate[14] = "SLOTKEYTOREMOVE" /\ EditWithoutRate[15] = "SLOTKEYTOADD"
            /\ EditWithoutRate[17] = "EDITACTIVE"
        BY DEF EditWithoutRate
      <4> HIDE DEF L
      <4> QED  BY <3>3, <4>1, <4>2
    <3>2. CASE doc.items[RateOfEdit].size # 0
      <4>1. L = EditLayout /\ k = 18
        BY <1>4, <2>4, <3>2 DEF Layout, EditLayout
      <4>2. /\ EditLayout[1] = "CONTENT" /\ EditLayout[2] = "DIRECTIVE"
            /\ EditLayout[3] = "STAKEMESSAGE" /\ EditLayout[4] = "VALIDATORADDR"
            /\ EditLayout[6] = "NAME" /\ EditLayout[13] = "MINSELFDELEGATION"
            /\ EditLayout[14] = "MAXTOTALDELEGATION"
            /\ EditLayout[15] = "SLOTKEYTOREMOVE" /\ EditLayout[16] = "SLOTKEYTOADD"
            /\ EditLayout[18] = "EDITACTIVE"
        BY DEF EditLayout
      <4> HIDE DEF L
      <4> QED  BY <3>3, <4>1, <4>2
    <3> QED  BY <3>1, <3>2
  <2> QED  BY <1>1, <2>1, <2>2, <2>3, <2>4
<1> HIDE DEF L
<1>6. \A f \in Expected : \E n \in 1..k : doc.items[n].role = f
  BY <1>3, <1>5
<1>7. Covered(k)
  BY <1>6 DEF Covered
<1> QED  BY <1>4, <1>7 DEF L

LEMMA CoveredByCreate ==
  ASSUME doc \in Documents, Creates(doc), KeyCount(doc) > 0
  PROVE  Covered(22 + 2 * KeyCount(doc))
<1> DEFINE n == KeyCount(doc)
<1>1. /\ n \in Nat /\ n > 0 /\ Layout(doc) = CreateLayout
      /\ Len(doc.items) >= 22 + 2 * n /\ Len(doc.items) \in Nat
      /\ \A m \in 1..Len(doc.items) : doc.items[m].role = "BLSPUBKEY" <=> m \in 21..(20 + n)
      /\ doc.items[22 + 2 * n].role = "AMOUNT"
  BY KeysOf, OffsetsShape
<1>2. /\ CreateLayout[1] = "CONTENT" /\ CreateLayout[2] = "DIRECTIVE"
      /\ CreateLayout[3] = "STAKEMESSAGE" /\ CreateLayout[4] = "VALIDATORADDR"
      /\ CreateLayout[6] = "NAME" /\ CreateLayout[13] = "RATE_VALUE"
      /\ CreateLayout[15] = "MAXRATE_VALUE" /\ CreateLayout[17] = "MAXCHANGERATE_VALUE"
      /\ CreateLayout[18] = "MINSELFDELEGATION" /\ CreateLayout[19] = "MAXTOTALDELEGATION"
      /\ DOMAIN CreateLayout = 1..20
  BY DEF CreateLayout
<1>3. Expected = {"CONTENT", "DIRECTIVE", "STAKEMESSAGE", "VALIDATORADDR", "NAME",
                  "RATE_VALUE", "MAXRATE_VALUE", "MAXCHANGERATE_VALUE", "MINSELFDELEGATION",
                  "MAXTOTALDELEGATION", "BLSPUBKEY", "AMOUNT"}
  BY DEF Expected, Creates
<1>4. \A m \in 1..20 : doc.items[m].role = CreateLayout[m]
  BY <1>1, <1>2, LayoutShape
<1> HIDE DEF n
<1>5. doc.items[21].role = "BLSPUBKEY"
  BY <1>1
<1>6. 1..21 \subseteq 1..(22 + 2 * n) /\ 22 + 2 * n \in 1..(22 + 2 * n)
  BY <1>1
<1>7. \A f \in Expected : \E m \in 1..(22 + 2 * n) : doc.items[m].role = f
  <2>1. ASSUME NEW f \in Expected, f = "AMOUNT"
        PROVE  \E m \in 1..(22 + 2 * n) : doc.items[m].role = f
    BY <1>1, <1>6, <2>1
  <2>2. ASSUME NEW f \in Expected, f # "AMOUNT"
        PROVE  \E m \in 1..21 : doc.items[m].role = f
    BY <1>2, <1>3, <1>4, <1>5, <2>2
  <2> QED  BY <1>6, <2>1, <2>2
<1> QED  BY <1>7 DEF Covered, n

\* The item that ends a transaction was read, or what there was of it.
LEMMA LastStep ==
  ASSUME doc \in Documents, Steady, cut \in 0..Total,
         (Whole => OneMore) /\ (~Whole => CutShort),
         Covered(read + 1), field = LastField,
         result' = "complete" \/ (result' = "running" /\ field' = "DONE")
  PROVE  RlpInv'
<1>1. doc' = doc /\ cut' = cut
  BY DEF OneMore, CutShort
<1>2. PICK w \in BOOLEAN :
        landed' = landed \cup {[field |-> field, role |-> field, whole |-> w]}
  BY DEF OneMore, CutShort
<1> DEFINE last == [field |-> field, role |-> field, whole |-> w]
<1>3. LastField' = LastField /\ Expected' = Expected
  BY <1>1 DEF LastField, Expected
<1>4. \A l \in landed' : l.field = l.role /\ (l.whole \/ l.field = LastField')
  BY <1>2, <1>3 DEF Steady
<1>5. ASSUME NEW f \in Expected PROVE \E l \in landed' : l.field = f
  <2>1. PICK n \in 1..(read + 1) : doc.items[n].role = f
    BY <1>5 DEF Covered
  <2>2. CASE n = read + 1
    <3>1. f = field
      BY <2>1, <2>2, SteadyItem DEF Item
    <3>2. last \in landed' /\ last.field = field
      BY <1>2
    <3> QED  BY <3>1, <3>2
  <2>3. CASE n # read + 1
    <3>1. n \in 1..read
      BY <2>3, SteadyItem
    <3>2. PICK l \in landed : l.field = doc.items[n].role
      BY <3>1 DEF Steady
    <3> QED  BY <1>2, <2>1, <3>2
  <2> QED  BY <2>2, <2>3
<1>6. Right'
  BY <1>3, <1>4, <1>5 DEF Right
<1>7. (doc \in Documents /\ cut \in 0..Total)'
  BY <1>1 DEF Total
<1> QED  BY <1>6, <1>7 DEF RlpInv

(***************************************************************************)
(* Every step of a parser that missed nothing                              *)
(***************************************************************************)
LEMMA Place ==
  ASSUME doc \in Documents, Steady, field \notin KeyFields, field # "AMOUNT" \/ ~Creates(doc)
  PROVE  /\ read < Len(Layout(doc)) /\ field = Layout(doc)[read + 1]
         /\ field = LastOf(doc) => read + 1 = Len(Layout(doc))
         /\ doc.kind = "stake" /\ field \notin {"CONTENT", "DIRECTIVE"} =>
              directive = doc.directive
         /\ doc.kind = "stake" /\ field = "CONTENT" => read + 1 < 2
         /\ Edits(doc) /\ field = "RATE" => Item = doc.items[RateOfEdit]
         /\ field = "MAXTOTALDELEGATION" =>
              doc.kind = "tx" \/ doc.directive \in {"create", "edit", "other"}
         /\ field \in {"SLOTPUBKEYS", "EDITACTIVE", "AMOUNT"} => field = LastOf(doc)
<1> DEFINE L == Layout(doc)
<1>1. PICK k \in Nat : Shape(doc, L, k)
  BY LayoutShape
<1>2. read < Len(L) /\ field = L[read + 1]
  BY DEF Steady, Standing, KeyFields
<1>3. read \in Nat
  BY SteadyItem
<1>4. Len(L) = k
  BY <1>1 DEF Shape
<1> HIDE DEF L
<1>5. read + 1 \in 1..k
  BY <1>2, <1>3, <1>4
<1>6. field = LastOf(doc) => read + 1 = k
  BY <1>1, <1>2, <1>5 DEF Shape
<1>7. ASSUME doc.kind = "stake", field \notin {"CONTENT", "DIRECTIVE"}
      PROVE  directive = doc.directive
  <2>1. read + 1 # 1 /\ read + 1 # 2
    BY <1>1, <1>2, <1>5, <1>7 DEF Shape
  <2>2. read >= 2
    BY <1>3, <2>1
  <2> QED  BY <1>7, <2>2 DEF Steady
<1>8. field = "CONTENT" => read + 1 = 1
  BY <1>1, <1>2, <1>5 DEF Shape
<1>9. Edits(doc) /\ field = "RATE" => read + 1 = RateOfEdit
  BY <1>1, <1>2, <1>5 DEF Shape
<1>10. field = "MAXTOTALDELEGATION" =>
         doc.kind = "tx" \/ doc.directive \in {"create", "edit", "other"}
  <2>1. /\ doc.kind \in {"tx", "stake"}
        /\ doc.kind = "stake" =>
            doc.directive \in {"collect", "delegate", "undelegate", "create", "edit", "other"}
    BY RlpAssumption
  <2> QED  BY <1>1, <1>2, <1>5, <2>1 DEF Shape
<1>11. field \in {"SLOTPUBKEYS", "EDITACTIVE", "AMOUNT"} => field = LastOf(doc)
  BY <1>1, <1>2, <1>5 DEF Shape
<1> QED  BY <1>2, <1>4, <1>6, <1>7, <1>8, <1>9, <1>10, <1>11 DEF L, Item

LEMMA KindsAndDirectives ==
  ASSUME doc \in Documents
  PROVE  /\ doc.kind \in {"tx", "stake"}
         /\ doc.kind = "stake" =>
              doc.directive \in {"collect", "delegate", "undelegate", "create", "edit", "other"}
BY RlpAssumption

\* A list is entered.
LEMMA EnterSteady ==
  ASSUME doc \in Documents, cut \in 0..Total, Steady, Decodes,
         field \in Lists, field \notin KeyFields, field # LastOf(doc), NEW next, Enter(next),
         next = After(doc, field),
         doc.kind = "stake" /\ field # "CONTENT" => directive' = doc.directive
  PROVE  RlpInv'
<1>1. OneMore /\ field' = next /\ result' = "running"
  BY EnterReads DEF Decodes, Feeds
<1>2. read < Len(Layout(doc)) /\ field = Layout(doc)[read + 1]
      /\ (doc.kind = "stake" /\ field = "CONTENT" => read + 1 < 2)
  BY Place DEF Lists
<1>3. doc.kind = "stake" /\ read + 1 >= 2 => directive' = doc.directive
  BY <1>2, SteadyItem
<1> QED  BY <1>1, <1>2, <1>3, WholeStep

\* An item other than the last one is consumed.
LEMMA ConsumeSteady ==
  ASSUME doc \in Documents, cut \in 0..Total, Steady, Decodes,
         field \notin Lists, field \notin KeyFields, field # LastOf(doc),
         NEW next, Consume(next), result' = result,
         Whole => next = After(doc, field), next # "DONE",
         Whole /\ doc.kind = "stake" => directive' = doc.directive,
         field # "AMOUNT" \/ ~Creates(doc)
  PROVE  RlpInv'
<1>1. field' = next /\ (Whole => OneMore) /\ (~Whole => CutShort) /\ result' = "running"
  BY ConsumeReads DEF Decodes, Feeds
<1>2. read < Len(Layout(doc)) /\ field = Layout(doc)[read + 1]
  BY Place
<1>3. CASE Whole
  BY <1>1, <1>2, <1>3, WholeStep
<1>4. CASE ~Whole
  BY <1>1, <1>4, ShortStep
<1> QED  BY <1>3, <1>4

\* The last item of a transaction that has no list of keys is consumed.
LEMMA ConsumeLast ==
  ASSUME doc \in Documents, cut \in 0..Total, Steady, Decodes,
         field \notin Lists, field \notin KeyFields, field = LastOf(doc),
         ~Creates(doc), doc.directive # "other" \/ doc.kind = "tx",
         NEW next, Consume(next),
         result' = "complete" \/ (result' = "running" /\ next = "DONE")
  PROVE  RlpInv'
<1>1. field' = next /\ (Whole => OneMore) /\ (~Whole => CutShort)
  BY ConsumeReads
<1>2. read + 1 = Len(Layout(doc))
  BY Place
<1>3. Covered(read + 1)
  BY <1>2, CoveredByLayout
<1>4. field = LastField
  BY KindsAndDirectives DEF LastField, LastOf, Creates
<1> QED  BY <1>1, <1>3, <1>4, LastStep

LEMMA SteadyExhausted ==
  ASSUME doc \in Documents, cut \in 0..Total, Steady, Exhausted
  PROVE  RlpInv'
<1>1. Excused'
  BY SteadyEnds DEF Exhausted, Excused, Total
<1> QED  BY <1>1, RefusedStep DEF Exhausted

LEMMA SteadyBadHeader ==
  ASSUME doc \in Documents, cut \in 0..Total, Steady, BadHeader
  PROVE  RlpInv'
<1>1. read < Len(doc.items) /\ IsTooLong(Item) /\ doc' = doc /\ read' = read
  BY SteadyItem, OffsetsShape DEF BadHeader
<1>2. Excused'
  BY <1>1 DEF Excused, Item
<1> QED  BY <1>2, RefusedStep DEF BadHeader

LEMMA SteadyTxContent ==
  ASSUME doc \in Documents, cut \in 0..Total, Steady, TxContent
  PROVE  RlpInv'
<1>1. Decodes /\ doc.kind = "tx" /\ field = "CONTENT" /\ Enter("NONCE")
  BY DEF TxContent, At
<1>2. "NONCE" = After(doc, field) /\ field # LastOf(doc)
  BY <1>1 DEF After, LastOf
<1> QED  BY <1>1, <1>2, EnterSteady DEF Lists, KeyFields

LEMMA SteadyTxField ==
  ASSUME doc \in Documents, cut \in 0..Total, Steady, TxField
  PROVE  RlpInv'
<1>1. /\ Decodes /\ doc.kind = "tx" /\ result' = result
      /\ field \in {"NONCE", "GASPRICE", "GASLIMIT", "FROMSHARD", "TOSHARD", "TO"}
      /\ Consume(IF Whole THEN Succ(TxFields) ELSE field)
  BY DEF TxField, At, Advance
<1>2. \E n \in 1..8 : field = TxFields[n] /\ TxFields[n + 1] = After(doc, field)
                      /\ TxFields[n + 1] # "DONE"
  <2>1. /\ TxFields[2] = "NONCE" /\ TxFields[3] = "GASPRICE" /\ TxFields[4] = "GASLIMIT"
        /\ TxFields[5] = "FROMSHARD" /\ TxFields[6] = "TOSHARD" /\ TxFields[7] = "TO"
        /\ TxFields[8] = "AMOUNT"
    BY DEF TxFields
  <2>2. /\ field = "NONCE" => After(doc, field) = TxFields[2 + 1]
        /\ field = "GASPRICE" => After(doc, field) = TxFields[3 + 1]
        /\ field = "GASLIMIT" => After(doc, field) = TxFields[4 + 1]
        /\ field = "FROMSHARD" => After(doc, field) = TxFields[5 + 1]
        /\ field = "TOSHARD" => After(doc, field) = TxFields[6 + 1]
        /\ field = "TO" => After(doc, field) = TxFields[7 + 1]
    BY <1>1, <2>1 DEF After
  <2>3. \A n \in 2..7 : TxFields[n + 1] # "DONE"
    BY DEF TxFields
  <2> QED  BY <1>1, <2>1, <2>2, <2>3
<1>3. Succ(TxFields) = After(doc, field) /\ Succ(TxFields) # "DONE"
  BY <1>2, SuccTx
<1>4. field # LastOf(doc) /\ field # "DONE"
  BY <1>1 DEF LastOf
<1> DEFINE next == IF Whole THEN Succ(TxFields) ELSE field
<1>5. Consume(next) /\ (Whole => next = After(doc, field)) /\ next # "DONE"
  BY <1>1, <1>3, <1>4
<1> HIDE DEF next
<1> QED  BY <1>1, <1>4, <1>5, ConsumeSteady DEF Lists, KeyFields

LEMMA SteadyTxAmount ==
  ASSUME doc \in Documents, cut \in 0..Total, Steady, TxAmount
  PROVE  RlpInv'
<1>1. /\ Decodes /\ doc.kind = "tx" /\ result' = "complete" /\ field = "AMOUNT"
      /\ Consume(IF Whole THEN "DONE" ELSE "AMOUNT")
  BY DEF TxAmount, At
<1>2. field = LastOf(doc) /\ ~Creates(doc)
  BY <1>1 DEF LastOf, Creates
<1> DEFINE next == IF Whole THEN "DONE" ELSE "AMOUNT"
<1>3. Consume(next)
  BY <1>1
<1> HIDE DEF next
<1> QED  BY <1>1, <1>2, <1>3, ConsumeLast DEF Lists, KeyFields

LEMMA SuccOf ==
  /\ field = "DIRECTIVE" => Succ(StakeFields) = "STAKEMESSAGE"
  /\ field = "DELEGATORADDR" => Succ(StakeFields) = "VALIDATORADDR"
  /\ field = "NAME" => Succ(StakeFields) = "IDENTITY"
  /\ field = "IDENTITY" => Succ(StakeFields) = "WEBSITE"
  /\ field = "WEBSITE" => Succ(StakeFields) = "SECURITYCONTACT"
  /\ field = "SECURITYCONTACT" => Succ(StakeFields) = "DETAILS"
  /\ field = "DETAILS" => Succ(StakeFields) = "COMMISSIONRATES"
  /\ field = "RATE" => Succ(StakeFields) = "RATE_VALUE"
  /\ field = "RATE_VALUE" => Succ(StakeFields) = "MAXRATE"
  /\ field = "MAXRATE" => Succ(StakeFields) = "MAXRATE_VALUE"
  /\ field = "MAXRATE_VALUE" => Succ(StakeFields) = "MAXCHANGERATE"
  /\ field = "MAXCHANGERATE" => Succ(StakeFields) = "MAXCHANGERATE_VALUE"
  /\ field = "MAXCHANGERATE_VALUE" => Succ(StakeFields) = "MINSELFDELEGATION"
  /\ field = "MINSELFDELEGATION" => Succ(StakeFields) = "MAXTOTALDELEGATION"
  /\ field = "SLOTKEYTOREMOVE" => Succ(StakeFields) = "SLOTKEYTOADD"
<1>1. /\ StakeFields[2] = "DIRECTIVE" /\ StakeFields[2 + 1] = "STAKEMESSAGE"
      /\ StakeFields[4] = "DELEGATORADDR" /\ StakeFields[4 + 1] = "VALIDATORADDR"
      /\ StakeFields[11] = "NAME" /\ StakeFields[11 + 1] = "IDENTITY"
      /\ StakeFields[12] = "IDENTITY" /\ StakeFields[12 + 1] = "WEBSITE"
      /\ StakeFields[13] = "WEBSITE" /\ StakeFields[13 + 1] = "SECURITYCONTACT"
      /\ StakeFields[14] = "SECURITYCONTACT" /\ StakeFields[14 + 1] = "DETAILS"
      /\ StakeFields[15] = "DETAILS" /\ StakeFields[15 + 1] = "COMMISSIONRATES"
      /\ StakeFields[17] = "RATE" /\ StakeFields[17 + 1] = "RATE_VALUE"
      /\ StakeFields[18] = "RATE_VALUE" /\ StakeFields[18 + 1] = "MAXRATE"
      /\ StakeFields[19] = "MAXRATE" /\ StakeFields[19 + 1] = "MAXRATE_VALUE"
      /\ StakeFields[20] = "MAXRATE_VALUE" /\ StakeFields[20 + 1] = "MAXCHANGERATE"
      /\ StakeFields[21] = "MAXCHANGERATE" /\ StakeFields[21 + 1] = "MAXCHANGERATE_VALUE"
      /\ StakeFields[22] = "MAXCHANGERATE_VALUE" /\ StakeFields[22 + 1] = "MINSELFDELEGATION"
      /\ StakeFields[23] = "MINSELFDELEGATION" /\ StakeFields[23 + 1] = "MAXTOTALDELEGATION"
      /\ StakeFields[27] = "SLOTKEYTOREMOVE" /\ StakeFields[27 + 1] = "SLOTKEYTOADD"
  BY DEF StakeFields
<1>2. \A n \in 1..32 : field = StakeFields[n] => Succ(StakeFields) = StakeFields[n + 1]
  BY SuccStake
<1> HIDE DEF StakeFields
<1> QED  BY <1>1, <1>2

LEMMA SteadyStakeContent ==
  ASSUME doc \in Documents, cut \in 0..Total, Steady, StakeContent
  PROVE  RlpInv'
<1>1. Decodes /\ doc.kind = "stake" /\ field = "CONTENT" /\ Enter("DIRECTIVE")
  BY DEF StakeContent, At
<1>2. "DIRECTIVE" = After(doc, field) /\ field # LastOf(doc)
  BY <1>1 DEF After, LastOf
<1> QED  BY <1>1, <1>2, EnterSteady DEF Lists, KeyFields

LEMMA SteadyDirective ==
  ASSUME doc \in Documents, cut \in 0..Total, Steady, Directive
  PROVE  RlpInv'
<1> DEFINE next == IF Whole THEN Succ(StakeFields) ELSE field
<1>1. /\ Decodes /\ doc.kind = "stake" /\ field = "DIRECTIVE" /\ result' = result
      /\ Consume(next) /\ (Whole => directive' = doc.directive)
  BY DEF Directive, At, Advance
<1>2. /\ "STAKEMESSAGE" = After(doc, field) /\ field # LastOf(doc)
      /\ Succ(StakeFields) = "STAKEMESSAGE"
  BY <1>1, SuccOf DEF After, LastOf
<1>3. (Whole => next = After(doc, field)) /\ next # "DONE"
  BY <1>1, <1>2
<1> HIDE DEF next
<1> QED  BY <1>1, <1>2, <1>3, ConsumeSteady DEF Lists, KeyFields

LEMMA SteadyStakeMessage ==
  ASSUME doc \in Documents, cut \in 0..Total, Steady, StakeMessage
  PROVE  RlpInv'
<1> DEFINE next == IF directive \in {"create", "edit"} THEN "VALIDATORADDR" ELSE "DELEGATORADDR"
<1>1. /\ Decodes /\ doc.kind = "stake" /\ field = "STAKEMESSAGE" /\ Enter(next)
      /\ directive' = directive
  BY DEF StakeMessage, At, Rest
<1>2. directive = doc.directive
  BY <1>1, Place DEF KeyFields
<1>3. next = After(doc, field) /\ field # LastOf(doc)
  BY <1>1, <1>2 DEF After, LastOf
<1> HIDE DEF next
<1> QED  BY <1>1, <1>2, <1>3, EnterSteady DEF Lists, KeyFields

LEMMA SteadyDelegatorAddr ==
  ASSUME doc \in Documents, cut \in 0..Total, Steady, DelegatorAddr
  PROVE  RlpInv'
<1>1. /\ Decodes /\ doc.kind = "stake" /\ field = "DELEGATORADDR" /\ result' = result
      /\ directive' = directive
      /\ IF directive = "collect" THEN Consume("DONE")
         ELSE Consume(IF Whole THEN Succ(StakeFields) ELSE field)
  BY DEF DelegatorAddr, At, Rest, Advance, Jump
<1>2. directive = doc.directive
  BY <1>1, Place DEF KeyFields
<1>3. CASE directive = "collect"
  <2>1. field = LastOf(doc) /\ ~Creates(doc) /\ doc.directive # "other" /\ result' = "running"
    BY <1>1, <1>2, <1>3 DEF LastOf, Creates, Decodes, Feeds
  <2> QED  BY <1>1, <1>3, <2>1, ConsumeLast DEF Lists, KeyFields
<1>4. CASE directive # "collect"
  <2> DEFINE next == IF Whole THEN Succ(StakeFields) ELSE field
  <2>1. field # LastOf(doc)
    BY <1>1, <1>2, <1>4 DEF LastOf
  <2>2. (Whole => next = After(doc, field)) /\ next # "DONE" /\ Consume(next)
    BY <1>1, <1>4, SuccOf DEF After
  <2> HIDE DEF next
  <2> QED  BY <1>1, <1>2, <2>1, <2>2, ConsumeSteady DEF Lists, KeyFields
<1> QED  BY <1>3, <1>4

LEMMA SteadyValidatorAddr ==
  ASSUME doc \in Documents, cut \in 0..Total, Steady, ValidatorAddr
  PROVE  RlpInv'
<1> DEFINE next == IF directive \in {"delegate", "undelegate"} THEN "AMOUNT" ELSE "DESCRIPTION"
<1>1. /\ Decodes /\ doc.kind = "stake" /\ field = "VALIDATORADDR" /\ result' = result
      /\ directive' = directive /\ Consume(next)
  BY DEF ValidatorAddr, At, Rest, Jump
<1>2. directive = doc.directive
  BY <1>1, Place DEF KeyFields
<1>3. next = After(doc, field) /\ field # LastOf(doc) /\ next # "DONE"
  BY <1>1, <1>2 DEF After, LastOf
<1> HIDE DEF next
<1> QED  BY <1>1, <1>2, <1>3, ConsumeSteady DEF Lists, KeyFields

LEMMA SteadyDescription ==
  ASSUME doc \in Documents, cut \in 0..Total, Steady, Description
  PROVE  RlpInv'
<1>1. /\ Decodes /\ doc.kind = "stake" /\ field = "DESCRIPTION" /\ Enter("NAME")
      /\ directive' = directive
  BY DEF Description, At, Rest
<1>2. directive = doc.directive
  BY <1>1, Place DEF KeyFields
<1>3. "NAME" = After(doc, field) /\ field # LastOf(doc)
  BY <1>1 DEF After, LastOf
<1> QED  BY <1>1, <1>2, <1>3, EnterSteady DEF Lists, KeyFields

LEMMA SteadyString ==
  ASSUME doc \in Documents, cut \in 0..Total, Steady, String
  PROVE  RlpInv'
<1> DEFINE next == IF field = "DETAILS" /\ directive = "edit" THEN "RATE"
                   ELSE IF Whole THEN Succ(StakeFields) ELSE field
<1>1. /\ Decodes /\ doc.kind = "stake" /\ result' = result
      /\ field \in {"NAME", "IDENTITY", "WEBSITE", "SECURITYCONTACT", "DETAILS"}
      /\ directive' = directive
  BY DEF String, At, Rest, Advance, Jump
<1>2. Consume(next)
  <2>1. IF field = "DETAILS" /\ directive = "edit" THEN Consume("RATE")
        ELSE Consume(IF Whole THEN Succ(StakeFields) ELSE field)
    BY DEF String, Advance, Jump
  <2>2. CASE field = "DETAILS" /\ directive = "edit"
    BY <2>1, <2>2
  <2>3. CASE ~(field = "DETAILS" /\ directive = "edit")
    BY <2>1, <2>3
  <2> QED  BY <2>2, <2>3
<1>3. directive = doc.directive
  BY <1>1, Place DEF KeyFields
<1>4. field # LastOf(doc) /\ (Whole => next = After(doc, field)) /\ next # "DONE"
  BY <1>1, <1>3, SuccOf DEF After, LastOf
<1> HIDE DEF next
<1> QED  BY <1>1, <1>2, <1>3, <1>4, ConsumeSteady DEF Lists, KeyFields

LEMMA SteadyCommissionRates ==
  ASSUME doc \in Documents, cut \in 0..Total, Steady, CommissionRates
  PROVE  RlpInv'
<1>1. /\ Decodes /\ doc.kind = "stake" /\ field = "COMMISSIONRATES" /\ Enter("RATE")
      /\ directive' = directive
  BY DEF CommissionRates, At, Rest
<1>2. directive = doc.directive
  BY <1>1, Place DEF KeyFields
<1>3. "RATE" = After(doc, field) /\ field # LastOf(doc)
  BY <1>1 DEF After, LastOf
<1> QED  BY <1>1, <1>2, <1>3, EnterSteady DEF Lists, KeyFields

LEMMA SteadyDecimal ==
  ASSUME doc \in Documents, cut \in 0..Total, Steady, Decimal
  PROVE  RlpInv'
<1> DEFINE next == IF field = "RATE" /\ directive = "edit" /\ Item.size = 0
                   THEN "MINSELFDELEGATION" ELSE Succ(StakeFields)
<1>1. /\ Decodes /\ doc.kind = "stake" /\ field \in {"RATE", "MAXRATE", "MAXCHANGERATE"}
      /\ Enter(next) /\ directive' = directive
  BY DEF Decimal, At, Rest
<1>2. directive = doc.directive
  BY <1>1, Place DEF KeyFields
<1>3. doc.directive = "edit" /\ field = "RATE" => Item = doc.items[RateOfEdit]
  BY <1>1, Place DEF KeyFields, Edits
<1>4. next = After(doc, field) /\ field # LastOf(doc)
  BY <1>1, <1>2, <1>3, SuccOf DEF After, LastOf
<1> HIDE DEF next
<1> QED  BY <1>1, <1>2, <1>4, EnterSteady DEF Lists, KeyFields

LEMMA SteadyValue ==
  ASSUME doc \in Documents, cut \in 0..Total, Steady, Value
  PROVE  RlpInv'
<1> DEFINE next == IF field = "RATE_VALUE" /\ directive = "edit" THEN "MINSELFDELEGATION"
                   ELSE IF Whole THEN Succ(StakeFields) ELSE field
<1>1. /\ Decodes /\ doc.kind = "stake" /\ result' = result
      /\ field \in {"RATE_VALUE", "MAXRATE_VALUE", "MAXCHANGERATE_VALUE", "MINSELFDELEGATION"}
      /\ directive' = directive
  BY DEF Value, At, Rest, Advance, Jump
<1>2. Consume(next)
  <2>1. IF field = "RATE_VALUE" /\ directive = "edit" THEN Consume("MINSELFDELEGATION")
        ELSE Consume(IF Whole THEN Succ(StakeFields) ELSE field)
    BY DEF Value, Advance, Jump
  <2>2. CASE field = "RATE_VALUE" /\ directive = "edit"
    BY <2>1, <2>2
  <2>3. CASE ~(field = "RATE_VALUE" /\ directive = "edit")
    BY <2>1, <2>3
  <2> QED  BY <2>2, <2>3
<1>3. directive = doc.directive
  BY <1>1, Place DEF KeyFields
<1>4. field # LastOf(doc) /\ (Whole => next = After(doc, field)) /\ next # "DONE"
  BY <1>1, <1>3, SuccOf DEF After, LastOf
<1> HIDE DEF next
<1> QED  BY <1>1, <1>2, <1>3, <1>4, ConsumeSteady DEF Lists, KeyFields

LEMMA SteadyMaxTotalDelegation ==
  ASSUME doc \in Documents, cut \in 0..Total, Steady, MaxTotalDelegation
  PROVE  RlpInv'
<1> DEFINE next == CASE directive = "create" -> "SLOTPUBKEYS"
                     [] directive = "edit" -> "SLOTKEYTOREMOVE"
                     [] OTHER -> IF Whole THEN "SLOTPUBKEYS" ELSE field
<1>1. /\ Decodes /\ doc.kind = "stake" /\ field = "MAXTOTALDELEGATION" /\ directive' = directive
      /\ Consume(next)
      /\ result' = IF directive \in {"create", "edit"} THEN "running" ELSE "refused"
  BY DEF MaxTotalDelegation, At, Rest
<1>2. directive = doc.directive /\ doc.directive \in {"create", "edit", "other"}
  BY <1>1, Place DEF KeyFields
<1>3. CASE directive = "other"
  <2>1. doc' = doc /\ cut' = cut
    BY <1>1 DEF Consume
  <2>2. Excused'
    BY <1>2, <1>3, <2>1 DEF Excused
  <2> QED  BY <1>1, <1>2, <1>3, <2>1, <2>2, RefusedStep
<1>4. CASE directive \in {"create", "edit"}
  <2>1. field # LastOf(doc) /\ next = After(doc, field) /\ next # "DONE" /\ result' = result
    BY <1>1, <1>2, <1>4 DEF After, LastOf, Decodes, Feeds
  <2> HIDE DEF next
  <2> QED  BY <1>1, <1>2, <2>1, ConsumeSteady DEF Lists, KeyFields
<1> QED  BY <1>2, <1>3, <1>4

LEMMA SteadyEditedKey ==
  ASSUME doc \in Documents, cut \in 0..Total, Steady, EditedKey
  PROVE  RlpInv'
<1> DEFINE next == CASE field = "SLOTKEYTOREMOVE" -> IF Whole THEN Succ(StakeFields) ELSE field
                     [] field = "SLOTKEYTOADD" -> "SLOTKEYTOADDSIGNATURE"
                     [] field = "SLOTKEYTOADDSIGNATURE" -> "EDITACTIVE"
<1>1. /\ Decodes /\ doc.kind = "stake" /\ directive' = directive /\ result' = result
      /\ field \in {"SLOTKEYTOREMOVE", "SLOTKEYTOADD", "SLOTKEYTOADDSIGNATURE"}
  BY DEF EditedKey, At, Rest, Advance, Jump
<1>2. Consume(next)
  <2>1. CASE field = "SLOTKEYTOREMOVE"
    BY <2>1 DEF EditedKey, Advance
  <2>2. CASE field = "SLOTKEYTOADD"
    BY <2>2 DEF EditedKey, Jump
  <2>3. CASE field = "SLOTKEYTOADDSIGNATURE"
    BY <2>3 DEF EditedKey, Jump
  <2> QED  BY <1>1, <2>1, <2>2, <2>3
<1>3. directive = doc.directive
  BY <1>1, Place DEF KeyFields
<1>4. field # LastOf(doc) /\ (Whole => next = After(doc, field)) /\ next # "DONE"
  BY <1>1, SuccOf DEF After, LastOf
<1> HIDE DEF next
<1> QED  BY <1>1, <1>2, <1>3, <1>4, ConsumeSteady DEF Lists, KeyFields

LEMMA SteadyEditActive ==
  ASSUME doc \in Documents, cut \in 0..Total, Steady, EditActive
  PROVE  RlpInv'
<1>1. /\ Decodes /\ doc.kind = "stake" /\ field = "EDITACTIVE" /\ result' = result
      /\ Consume("DONE")
  BY DEF EditActive, At, Jump
<1>2. field = LastOf(doc)
  BY <1>1, Place DEF KeyFields
<1>3. ~Creates(doc) /\ doc.directive # "other" /\ result' = "running"
  BY <1>1, <1>2 DEF LastOf, Creates, Decodes, Feeds
<1> QED  BY <1>1, <1>2, <1>3, ConsumeLast DEF Lists, KeyFields

(***************************************************************************)
(* The keys of a new validator                                             *)
(***************************************************************************)
LEMMA DivisionUndoes ==
  ASSUME NEW a \in Nat, NEW b \in Nat, b > 0
  PROVE  (a * b) \div b = a
<1> QED  OBVIOUS

\* Where the parser is in the lists of keys and signatures
InKeys(n) ==
  \/ /\ field = "BLSPUBKEY" /\ keys = n
     /\ keyIndex \in 0..(n - 1) /\ read = 20 + keyIndex
  \/ field = "BLSSIGS" /\ read = 20 + n
  \/ /\ field = "BLSSIGNATURE" /\ keys = n
     /\ keyIndex \in 0..(n - 1) /\ read = 21 + n + keyIndex
  \/ field = "AMOUNT" /\ read = 21 + 2 * n

LEMMA PlaceInKeys ==
  ASSUME doc \in Documents, Steady, field \in KeyFields \/ (Creates(doc) /\ field = "AMOUNT")
  PROVE  /\ Creates(doc) /\ KeyCount(doc) > 0 /\ KeyCount(doc) \in Nat
         /\ directive = doc.directive
         /\ InKeys(KeyCount(doc))
<1> DEFINE n == KeyCount(doc)
<1>1. ~(read < Len(Layout(doc)) /\ field = Layout(doc)[read + 1])
  <2> DEFINE L == Layout(doc)
  <2> SUFFICES ASSUME read < Len(L), field = L[read + 1] PROVE FALSE
    OBVIOUS
  <2>1. PICK k \in Nat : Shape(doc, L, k)
    BY LayoutShape
  <2>2. Len(L) = k
    BY <2>1 DEF Shape
  <2> HIDE DEF L
  <2>3. read + 1 \in 1..k
    BY <2>2, SteadyItem
  <2>4. field \notin KeyFields
    BY <2>1, <2>3 DEF Shape
  <2>5. field = "AMOUNT" => LastOf(doc) = "AMOUNT"
    BY <2>1, <2>3 DEF Shape
  <2>6. Creates(doc) => LastOf(doc) = "SLOTPUBKEYS"
    BY DEF Creates, LastOf
  <2> QED  BY <2>4, <2>5, <2>6
<1>2. Creates(doc) /\ n > 0
  BY <1>1 DEF Steady, Standing
<1>3. n \in Nat /\ Len(CreateLayout) = 20
  BY <1>2, KeysOf
<1>4. \/ /\ field = "BLSPUBKEY" /\ keys = n
         /\ keyIndex \in 0..(n - 1) /\ read = 20 + keyIndex
      \/ field = "BLSSIGS" /\ read = 20 + n
      \/ /\ field = "BLSSIGNATURE" /\ keys = n
         /\ keyIndex \in 0..(n - 1) /\ read = 20 + n + 1 + keyIndex
      \/ field = "AMOUNT" /\ read = 20 + 2 * n + 1
  BY <1>1, <1>3 DEF Steady, Standing
<1> HIDE DEF n
<1>5. InKeys(n)
  <2>1. 20 + n + 1 = 21 + n /\ 20 + 2 * n + 1 = 21 + 2 * n
    BY <1>3
  <2> QED  BY <1>4, <2>1 DEF InKeys
<1>6. read >= 2
  BY <1>3, <1>4
<1> QED  BY <1>2, <1>3, <1>5, <1>6 DEF n, Steady, Creates

\* The parser stays in the lists of a new validator.
LEMMA KeysStep ==
  ASSUME doc \in Documents, cut \in 0..Total, Steady, OneMore, Creates(doc),
         KeyCount(doc) > 0, InKeys(KeyCount(doc))', result' = "running",
         directive' = doc.directive
  PROVE  RlpInv'
<1> DEFINE n == KeyCount(doc)
<1>1. n \in Nat /\ n > 0 /\ Len(CreateLayout) = 20 /\ Len(doc.items) >= 22 + 2 * n
      /\ Len(doc.items) \in Nat
  BY KeysOf, OffsetsShape
<1>2. doc' = doc /\ n' = n /\ read' = read + 1
  BY DEF OneMore
<1>3. \/ /\ field' = "BLSPUBKEY" /\ keys' = n
         /\ keyIndex' \in 0..(n - 1) /\ read' = 20 + keyIndex'
      \/ field' = "BLSSIGS" /\ read' = 20 + n
      \/ /\ field' = "BLSSIGNATURE" /\ keys' = n
         /\ keyIndex' \in 0..(n - 1) /\ read' = 21 + n + keyIndex'
      \/ field' = "AMOUNT" /\ read' = 21 + 2 * n
  BY <1>2 DEF InKeys
<1> HIDE DEF n
<1>4. \/ /\ field' = "BLSPUBKEY" /\ keys' = n
         /\ keyIndex' \in 0..(n - 1) /\ read' = 20 + keyIndex'
      \/ field' = "BLSSIGS" /\ read' = 20 + n
      \/ /\ field' = "BLSSIGNATURE" /\ keys' = n
         /\ keyIndex' \in 0..(n - 1) /\ read' = 20 + n + 1 + keyIndex'
      \/ field' = "AMOUNT" /\ read' = 20 + 2 * n + 1
  <2>1. 20 + n + 1 = 21 + n /\ 20 + 2 * n + 1 = 21 + 2 * n
    BY <1>1
  <2> QED  BY <1>3, <2>1
<1>5. read' <= Len(doc.items) - 1
  BY <1>1, <1>4
<1>6. Standing'
  BY <1>1, <1>2, <1>4 DEF n, Standing, Creates
<1> QED  BY <1>2, <1>5, <1>6, SteadyAgain

LEMMA SteadyKeyList ==
  ASSUME doc \in Documents, cut \in 0..Total, Steady, KeyList
  PROVE  RlpInv'
<1> DEFINE n == KeyCount(doc)
<1>1. CASE field = "SLOTPUBKEYS"
  <2>1. Decodes /\ doc.kind = "stake" /\ Enter("BLSPUBKEY") /\ directive' = directive
        /\ keys' = Item.size \div (MAX_BLS_ADDRESS + 1) /\ keyIndex' = 0
    BY <1>1 DEF KeyList, At
  <2>2. field = LastOf(doc) /\ directive = doc.directive /\ read + 1 = Len(Layout(doc))
    BY <1>1, <2>1, Place DEF KeyFields
  <2>3. Creates(doc)
    BY <1>1, <2>1, <2>2 DEF LastOf, Creates
  <2>4. n \in Nat /\ Len(CreateLayout) = 20 /\ Layout(doc) = CreateLayout
    BY <2>3, KeysOf
  <2>5. read = 19 /\ read + 1 = 20
    <3>1. Len(Layout(doc)) = 20
      BY <2>4
    <3>2. read \in Nat /\ read + 1 = 20
      BY <2>2, <3>1, SteadyItem
    <3> QED  BY <3>2
  <2>6. keys' = n
    BY <2>1, <2>4, <2>5 DEF Item, KeyCount
  <2>7. OneMore /\ field' = "BLSPUBKEY" /\ result' = "running"
    BY <1>1, <2>1, EnterReads DEF Lists, Decodes, Feeds
  <2> HIDE DEF n
  <2>8. CASE n = 0
    <3>1. doc' = doc /\ cut' = cut
      BY <2>7 DEF OneMore
    <3>2. (doc \in Documents /\ cut \in 0..Total)'
      BY <3>1 DEF Total
    <3>3. Lost'
      BY <2>1, <2>3, <2>6, <2>7, <2>8, <3>1 DEF Lost, n, Creates
    <3> QED  BY <2>7, <3>2, <3>3 DEF RlpInv
  <2>9. CASE n > 0
    <3>1. doc' = doc /\ read' = 20 + 0
      BY <2>5, <2>7 DEF OneMore
    <3>2. n' = n
      BY <3>1 DEF n
    <3>3. 0 \in 0..(n - 1)
      BY <2>4, <2>9
    <3>4. InKeys(n)'
      BY <2>1, <2>6, <2>7, <3>1, <3>2, <3>3 DEF InKeys
    <3> QED  BY <2>1, <2>2, <2>3, <2>7, <2>9, <3>4, KeysStep DEF n
  <2> QED  BY <2>4, <2>8, <2>9
<1>2. CASE field = "BLSSIGS"
  <2>1. Decodes /\ doc.kind = "stake" /\ Enter("BLSSIGNATURE") /\ directive' = directive
        /\ keys' = Item.size \div (MAX_SIG_ADDRESS + 2) /\ keyIndex' = 0
    BY <1>2 DEF KeyList, At
  <2>2. /\ Creates(doc) /\ n > 0 /\ n \in Nat /\ directive = doc.directive
        /\ InKeys(n)
    BY <1>2, PlaceInKeys DEF KeyFields
  <2> HIDE DEF n
  <2>3. read = 20 + n /\ read + 1 = 21 + n
    BY <1>2, <2>2 DEF InKeys
  <2>4. Item.size = n * (MAX_SIG_ADDRESS + 2)
    BY <2>2, <2>3, KeysOf DEF n, Item
  <2>5. MAX_SIG_ADDRESS + 2 \in Nat /\ MAX_SIG_ADDRESS + 2 > 0
    BY RlpAssumption
  <2>6. keys' = n
    <3> DEFINE b == MAX_SIG_ADDRESS + 2
    <3>1. (n * b) \div b = n
      <4> HIDE DEF b
      <4>1. b \in Nat /\ b > 0
        BY <2>5 DEF b
      <4> QED  BY <2>2, <4>1, DivisionUndoes
    <3> QED  BY <2>1, <2>4, <3>1
  <2>7. OneMore /\ field' = "BLSSIGNATURE" /\ result' = "running"
    BY <1>2, <2>1, EnterReads DEF Lists, Decodes, Feeds
  <2>8. doc' = doc /\ read' = 21 + n + 0 /\ 0 \in 0..(n - 1)
    BY <2>2, <2>3, <2>7 DEF OneMore
  <2>9. n' = n
    BY <2>8 DEF n
  <2>10. InKeys(n)'
    BY <2>1, <2>6, <2>7, <2>8, <2>9 DEF InKeys
  <2> QED  BY <2>1, <2>2, <2>7, <2>10, KeysStep DEF n
<1> QED  BY <1>1, <1>2 DEF KeyList, At

LEMMA SteadyKey ==
  ASSUME doc \in Documents, cut \in 0..Total, Steady, Key
  PROVE  RlpInv'
<1> DEFINE n == KeyCount(doc)
           next == IF keyIndex' # keys THEN field
                   ELSE IF field = "BLSPUBKEY" THEN "BLSSIGS" ELSE "AMOUNT"
<1>1. /\ Decodes /\ doc.kind = "stake" /\ field \in {"BLSPUBKEY", "BLSSIGNATURE"}
      /\ keyIndex' = keyIndex + 1 /\ Consume(next) /\ result' = result
      /\ directive' = directive /\ keys' = keys
  BY DEF Key, At, Jump
<1>2. next # "DONE"
  BY <1>1
<1>3. field' = next /\ (Whole => OneMore) /\ (~Whole => CutShort) /\ result' = "running"
  BY <1>1, ConsumeReads DEF Lists, Decodes, Feeds
<1>4. CASE ~Whole
  BY <1>2, <1>3, <1>4, ShortStep
<1>5. CASE Whole
  <2>1. /\ Creates(doc) /\ n > 0 /\ n \in Nat /\ directive = doc.directive
        /\ InKeys(n)
    BY <1>1, PlaceInKeys DEF KeyFields
  <2>2. doc' = doc /\ read' = read + 1
    BY <1>3, <1>5 DEF OneMore
  <2>3. n' = n
    BY <2>2
  <2> HIDE DEF n
  <2>4. keys = n /\ keyIndex \in 0..(n - 1) /\ keys' = n /\ keyIndex' = keyIndex + 1
    BY <1>1, <2>1 DEF InKeys
  <2>5. ASSUME keyIndex + 1 # n PROVE InKeys(n)'
    <3>1. keyIndex' \in 0..(n - 1) /\ field' = field
      BY <1>3, <2>1, <2>4, <2>5
    <3>2. /\ field = "BLSPUBKEY" => read' = 20 + keyIndex'
          /\ field = "BLSSIGNATURE" => read' = 21 + n + keyIndex'
      BY <2>1, <2>2, <2>4 DEF InKeys
    <3> QED  BY <1>1, <2>3, <2>4, <3>1, <3>2 DEF InKeys
  <2>6. ASSUME keyIndex + 1 = n PROVE InKeys(n)'
    <3>1. field' = IF field = "BLSPUBKEY" THEN "BLSSIGS" ELSE "AMOUNT"
      BY <1>3, <2>4, <2>6
    <3>2. /\ field = "BLSPUBKEY" => read' = 20 + n
          /\ field = "BLSSIGNATURE" => read' = 21 + 2 * n
      BY <2>1, <2>2, <2>4, <2>6 DEF InKeys
    <3> QED  BY <1>1, <2>3, <3>1, <3>2 DEF InKeys
  <2>7. InKeys(n)'
    BY <2>5, <2>6
  <2> QED  BY <1>1, <1>3, <1>5, <2>1, <2>3, <2>7, KeysStep DEF n
<1> QED  BY <1>4, <1>5

LEMMA SteadyAmount ==
  ASSUME doc \in Documents, cut \in 0..Total, Steady, Amount
  PROVE  RlpInv'
<1>1. /\ Decodes /\ doc.kind = "stake" /\ field = "AMOUNT" /\ result' = result
      /\ Consume("DONE")
  BY DEF Amount, At, Jump
<1>2. CASE ~Creates(doc)
  <2>1. field = LastOf(doc)
    BY <1>1, <1>2, Place DEF KeyFields
  <2>2. doc.directive # "other" /\ result' = "running"
    BY <1>1, <2>1 DEF LastOf, Decodes, Feeds
  <2> QED  BY <1>1, <1>2, <2>1, <2>2, ConsumeLast DEF Lists, KeyFields
<1>3. CASE Creates(doc)
  <2> DEFINE n == KeyCount(doc)
  <2>1. n > 0 /\ n \in Nat /\ InKeys(n)
    BY <1>1, <1>3, PlaceInKeys
  <2>2. Covered(22 + 2 * n)
    BY <1>3, <2>1, CoveredByCreate
  <2> HIDE DEF n
  <2>3. read + 1 = 22 + 2 * n
    BY <1>1, <2>1 DEF InKeys
  <2>4. Covered(read + 1)
    BY <2>2, <2>3
  <2>5. field = LastField
    BY <1>1, <1>3 DEF LastField, Creates
  <2>6. field' = "DONE" /\ (Whole => OneMore) /\ (~Whole => CutShort) /\ result' = "running"
    BY <1>1, ConsumeReads DEF Lists, Decodes, Feeds
  <2> QED  BY <2>4, <2>5, <2>6, LastStep
<1> QED  BY <1>2, <1>3

(***************************************************************************)
(* Theorems                                                                *)
(***************************************************************************)
LEMMA RlpStarts == Init => RlpInv
<1> SUFFICES ASSUME Init PROVE RlpInv
  OBVIOUS
<1>1. doc \in Documents /\ field = "CONTENT" /\ read = 0 /\ left = cut /\ landed = {}
      /\ result = "running" /\ cut \in 0..Total
  BY DEF Init, Total
<1> DEFINE L == Layout(doc)
<1>2. PICK k \in Nat : Shape(doc, L, k)
  BY <1>1, LayoutShape
<1>3. Len(L) = k /\ k >= 4 /\ k <= Len(doc.items) /\ L[1] = "CONTENT" /\ Len(doc.items) \in Nat
  <2>1. Len(L) = k /\ k >= 4 /\ Len(doc.items) \in Nat
    BY <1>1, <1>2, OffsetsShape DEF Shape
  <2>2. Len(L) <= Len(doc.items)
    BY <1>1, LayoutShape
  <2> HIDE DEF L
  <2>3. 1 \in 1..k
    BY <2>1
  <2> QED  BY <1>2, <2>1, <2>2, <2>3 DEF Shape
<1> HIDE DEF L
<1>4. read < Len(L) /\ field = L[read + 1]
  BY <1>1, <1>3
<1>5. Standing
  BY <1>4 DEF Standing, L
<1>6. Offsets(doc.items)[0] = 0 /\ Total \in Nat
  BY <1>1, <1>3, OffsetsShape DEF Total
<1>7. left \in Nat /\ cut = Offsets(doc.items)[read] + left
  BY <1>1, <1>6
<1>8. Steady
  BY <1>1, <1>3, <1>5, <1>7 DEF Steady
<1> QED  BY <1>1, <1>8 DEF RlpInv

\* While a parser runs, it misses nothing, or it is lost among keys that are
\* not there, or it has used up an input that ends too early, or it is done;
\* what it returns is accounted for.
LEMMA RlpSteps == RlpInv /\ [Next]_vars => RlpInv'
<1> SUFFICES ASSUME RlpInv, [Next]_vars PROVE RlpInv'
  OBVIOUS
<1>1. doc \in Documents /\ cut \in 0..Total
  BY DEF RlpInv
<1>2. CASE UNCHANGED vars
  BY <1>2 DEF vars, RlpInv, Steady, Standing, Lost, Right, Excused, Item, Total, Expected, LastField
<1>3. ASSUME Next, result # "running" PROVE FALSE
  BY <1>3 DEF Next, Done, Exhausted, BadHeader, TxContent, TxField, TxAmount, StakeContent, Directive,
    StakeMessage, DelegatorAddr, ValidatorAddr, Amount, Description, String, CommissionRates,
    Decimal, Value, MaxTotalDelegation, KeyList, Key, EditedKey, EditActive, At, Decodes, Feeds
<1>4. CASE Next /\ Steady
  <2>1. field # "DONE"
    <3> SUFFICES ASSUME field = "DONE" PROVE FALSE
      OBVIOUS
    <3> DEFINE L == Layout(doc)
    <3>1. PICK k \in Nat : Shape(doc, L, k)
      BY <1>1, LayoutShape
    <3>2. read < Len(L) /\ field = L[read + 1]
      BY <1>1, <1>4, Place DEF KeyFields
    <3> HIDE DEF L
    <3>3. read + 1 \in 1..k
      BY <1>1, <1>4, <3>1, <3>2, SteadyItem DEF Shape
    <3> QED  BY <3>1, <3>2, <3>3 DEF Shape
  <2>2. ~Done
    BY <2>1 DEF Done
  <2> QED
    BY <1>1, <1>4, <2>2, SteadyExhausted, SteadyBadHeader, SteadyTxContent, SteadyTxField, SteadyTxAmount,
      SteadyStakeContent, SteadyDirective, SteadyStakeMessage, SteadyDelegatorAddr,
      SteadyValidatorAddr, SteadyAmount, SteadyDescription, SteadyString,
      SteadyCommissionRates, SteadyDecimal, SteadyValue, SteadyMaxTotalDelegation,
      SteadyKeyList, SteadyKey, SteadyEditedKey, SteadyEditActive
    DEF Next
<1>5. CASE Next /\ Lost /\ result = "running"
  <2>1. Excused /\ field = "BLSPUBKEY" /\ keys = 0 /\ keyIndex \in Nat
        /\ Creates(doc) /\ KeyCount(doc) = 0 /\ doc.kind = "stake"
    BY <1>5 DEF Lost, Excused, Creates
  <2>2. Exhausted \/ BadHeader \/ Key
    BY <1>5, <2>1 DEF Next, Done, TxContent, TxField, TxAmount, StakeContent, Directive,
      StakeMessage, DelegatorAddr, ValidatorAddr, Amount, Description, String, CommissionRates,
      Decimal, Value, MaxTotalDelegation, KeyList, EditedKey, EditActive, At
  <2>3. CASE Exhausted \/ BadHeader
    <3>1. doc' = doc /\ cut' = cut /\ result' \in {"exhausted", "refused"}
      BY <2>3 DEF Exhausted, BadHeader
    <3>2. Excused'
      BY <2>1, <3>1 DEF Excused, Creates
    <3> QED  BY <1>1, <3>1, <3>2, RefusedStep
  <2>4. CASE Key
    <3>1. keyIndex' = keyIndex + 1 /\ keys' = keys /\ result' = result /\ doc' = doc /\ cut' = cut
          /\ field' = (IF keyIndex' # keys THEN field
                       ELSE IF field = "BLSPUBKEY" THEN "BLSSIGS" ELSE "AMOUNT")
      BY <2>4 DEF Key, Jump, Consume
    <3>2. keyIndex' \in Nat /\ keyIndex' # 0
      BY <2>1, <3>1
    <3>3. Lost'
      BY <2>1, <3>1, <3>2 DEF Lost
    <3> QED  BY <1>1, <1>5, <3>1, <3>3 DEF RlpInv, Total
  <2> QED  BY <2>2, <2>3, <2>4
<1>6. CASE Next /\ result = "running" /\ field # "DONE" /\ left = 0 /\ Excused
  <2>1. Exhausted
    BY <1>6 DEF Next, Done, BadHeader, TxContent, TxField, TxAmount, StakeContent, Directive,
      StakeMessage, DelegatorAddr, ValidatorAddr, Amount, Description, String, CommissionRates,
      Decimal, Value, MaxTotalDelegation, KeyList, Key, EditedKey, EditActive, At, Decodes, Feeds
  <2>2. Excused'
    BY <1>6, <2>1 DEF Exhausted, Excused, Total, Item
  <2> QED  BY <1>1, <2>1, <2>2, RefusedStep DEF Exhausted
<1>7. CASE Next /\ result = "running" /\ field = "DONE" /\ Right
  <2>1. Done
    BY <1>7 DEF Next, Exhausted, BadHeader, TxContent, TxField, TxAmount, StakeContent, Directive,
      StakeMessage, DelegatorAddr, ValidatorAddr, Amount, Description, String, CommissionRates,
      Decimal, Value, MaxTotalDelegation, KeyList, Key, EditedKey, EditActive, At, Decodes, Feeds
  <2>2. result' = "complete" /\ doc' = doc /\ cut' = cut /\ landed' = landed
    BY <2>1 DEF Done
  <2>3. Right'
    BY <1>7, <2>2 DEF Right, Expected, LastField
  <2> QED  BY <1>1, <2>2, <2>3 DEF RlpInv, Total
<1> QED  BY <1>2, <1>3, <1>4, <1>5, <1>6, <1>7 DEF RlpInv

\* The inductive invariant holds for every document whose items fit the
\* members they are copied to, cut at any byte: no item that the parser cannot
\* decode, skip or keep leaves its field and the document out of step.
THEOREM RlpInvariance == Spec => []RlpInv
BY RlpStarts, RlpSteps, PTL DEF Spec

\* Nothing that a parser reports complete was taken for another item or left
\* out, in a document with any number of keys whose items fit their members.
THEOREM NothingMistaken == Spec => []NothingIsMistaken
<1>1. RlpInv => NothingIsMistaken
  BY DEF RlpInv, NothingIsMistaken, Right
<1> QED  BY <1>1, RlpInvariance, PTL

\* Only the item that ends a transaction can have been cut short when the
\* parser reports it complete, again in documents whose items fit.
THEOREM OnlyLastShort == Spec => []OnlyTheLastIsShort
<1>1. RlpInv => OnlyTheLastIsShort
  BY DEF RlpInv, OnlyTheLastIsShort, Right
<1> QED  BY <1>1, RlpInvariance, PTL

\* A document whose items fit and that was uploaded as a whole is turned down
\* only for having no keys, an unknown directive, or a header that encodes a
\* length of more than 32 bits.
THEOREM WholeAccepted == Spec => []WholeIsAccepted
<1>1. RlpInv => WholeIsAccepted
  <2> SUFFICES ASSUME RlpInv, result \in {"exhausted", "refused"} PROVE WholeIsAccepted
    BY DEF WholeIsAccepted
  <2>1. doc \in Documents /\ Excused
    BY DEF RlpInv
  <2>2. CASE Creates(doc) /\ KeyCount(doc) = 0
    <3> DEFINE n == KeyCount(doc)
    <3>k. \A m \in 1..Len(doc.items) : doc.items[m].role = "BLSPUBKEY" <=> m \in 21..(20 + n)
      BY <2>1, <2>2, KeysOf
    <3>1. \A m \in 1..Len(doc.items) : doc.items[m].role # "BLSPUBKEY"
      <4>1. n = 0
        BY <2>2
      <4> HIDE DEF n
      <4> QED  BY <3>k, <4>1
    <3>2. DOMAIN doc.items = 1..Len(doc.items)
      BY <2>1, RlpAssumption
    <3> QED  BY <2>2, <3>1, <3>2 DEF WholeIsAccepted, Creates
  <2> QED  BY <2>1, <2>2 DEF Excused, WholeIsAccepted, Total
<1> QED  BY <1>1, RlpInvariance, PTL
=============================================================================

-------------------------------- MODULE Rlp --------------------------------
(***************************************************************************)
(* processTx and processStaking of rlp.c on a fresh context: the parser    *)
(* reads one item after another from the first commandLength bytes of      *)
(* buf[], and its current field decides what the item is taken for.        *)
(*                                                                         *)
(* A document is a sequence of items, each with the role its sender gave   *)
(* it, the number of its header bytes (none for a byte below 0x80, which   *)
(* encodes itself) and the number of its payload bytes.  Of a list that    *)
(* the parser enters only the header is an item here, and its payload are  *)
(* the items that follow; its size is kept where the parser looks at it,   *)
(* and enter tells such items apart.                                       *)
(* The upload may end anywhere: cut is how many bytes of the document the  *)
(* parser is given.                                                        *)
(*                                                                         *)
(* One action is one turn of the parser's loop: it decodes a header and    *)
(* handles the item.  An item that is cut short uses up the input, so that *)
(* a turn never starts inside of an item.                                  *)
(***************************************************************************)
EXTENDS Integers, Sequences

CONSTANTS
  Documents,       \* records [kind, directive, items]
  MAX_BLS_ADDRESS, \* bytes of a BLS key, 48 in the code
  MAX_SIG_ADDRESS  \* bytes of a BLS signature, 96 in the code

TxFields ==
  <<"CONTENT", "NONCE", "GASPRICE", "GASLIMIT", "FROMSHARD", "TOSHARD", "TO", "AMOUNT",
    "DONE">>

StakeFields ==
  <<"CONTENT", "DIRECTIVE", "STAKEMESSAGE", "DELEGATORADDR", "VALIDATORADDR", "AMOUNT",
    "NONCE", "GASPRICE", "GASLIMIT", "DESCRIPTION", "NAME", "IDENTITY", "WEBSITE",
    "SECURITYCONTACT", "DETAILS", "COMMISSIONRATES", "RATE", "RATE_VALUE", "MAXRATE",
    "MAXRATE_VALUE", "MAXCHANGERATE", "MAXCHANGERATE_VALUE", "MINSELFDELEGATION",
    "MAXTOTALDELEGATION", "SLOTPUBKEYS", "BLSPUBKEY", "SLOTKEYTOREMOVE", "SLOTKEYTOADD",
    "BLSSIGS", "BLSSIGNATURE", "SLOTKEYTOADDSIGNATURE", "EDITACTIVE", "DONE">>

(***************************************************************************)
(* Documents, as the encoders of the network lay them out                  *)
(***************************************************************************)
\* What encloses other items
Lists ==
  {"CONTENT", "STAKEMESSAGE", "DESCRIPTION", "COMMISSIONRATES", "RATE", "MAXRATE",
   "MAXCHANGERATE", "SLOTPUBKEYS", "BLSSIGS"}

ItemType == [role : STRING, head : Nat, size : Nat, enter : BOOLEAN]

\* The first byte of an item tells of up to eight more that hold its length.
IsItem(item) ==
  /\ item.enter <=> item.role \in Lists
  /\ item.head \in 0..9
  /\ item.head = 0 => item.size = 1 /\ ~item.enter

TxLayout ==
  <<"CONTENT", "NONCE", "GASPRICE", "GASLIMIT", "FROMSHARD", "TOSHARD", "TO", "AMOUNT">>

CollectLayout == <<"CONTENT", "DIRECTIVE", "STAKEMESSAGE", "DELEGATORADDR">>

DelegateLayout ==
  <<"CONTENT", "DIRECTIVE", "STAKEMESSAGE", "DELEGATORADDR", "VALIDATORADDR", "AMOUNT">>

\* What follows the list of keys is in KeysAreLaidOut.
CreateLayout ==
  <<"CONTENT", "DIRECTIVE", "STAKEMESSAGE", "VALIDATORADDR", "DESCRIPTION", "NAME",
    "IDENTITY", "WEBSITE", "SECURITYCONTACT", "DETAILS", "COMMISSIONRATES", "RATE",
    "RATE_VALUE", "MAXRATE", "MAXRATE_VALUE", "MAXCHANGERATE", "MAXCHANGERATE_VALUE",
    "MINSELFDELEGATION", "MAXTOTALDELEGATION", "SLOTPUBKEYS">>

EditLayout ==
  <<"CONTENT", "DIRECTIVE", "STAKEMESSAGE", "VALIDATORADDR", "DESCRIPTION", "NAME",
    "IDENTITY", "WEBSITE", "SECURITYCONTACT", "DETAILS", "RATE", "RATE_VALUE",
    "MINSELFDELEGATION", "MAXTOTALDELEGATION", "SLOTKEYTOREMOVE", "SLOTKEYTOADD",
    "SLOTKEYTOADDSIGNATURE", "EDITACTIVE">>

\* An edit may leave the rate as it is.
EditWithoutRate ==
  <<"CONTENT", "DIRECTIVE", "STAKEMESSAGE", "VALIDATORADDR", "DESCRIPTION", "NAME",
    "IDENTITY", "WEBSITE", "SECURITYCONTACT", "DETAILS", "RATE", "MINSELFDELEGATION",
    "MAXTOTALDELEGATION", "SLOTKEYTOREMOVE", "SLOTKEYTOADD", "SLOTKEYTOADDSIGNATURE",
    "EDITACTIVE">>

\* A directive of none of the kinds, up to where the parser gives up
OtherLayout ==
  <<"CONTENT", "DIRECTIVE", "STAKEMESSAGE", "DELEGATORADDR", "VALIDATORADDR",
    "DESCRIPTION", "NAME", "IDENTITY", "WEBSITE", "SECURITYCONTACT", "DETAILS",
    "COMMISSIONRATES", "RATE", "RATE_VALUE", "MAXRATE", "MAXRATE_VALUE", "MAXCHANGERATE",
    "MAXCHANGERATE_VALUE", "MINSELFDELEGATION", "MAXTOTALDELEGATION">>

Edits(d) == d.kind = "stake" /\ d.directive = "edit"
Creates(d) == d.kind = "stake" /\ d.directive = "create"

\* The items of an edit that come before its rate, and it
RateOfEdit == 11

Layout(d) ==
  IF d.kind = "tx" THEN TxLayout
  ELSE IF d.directive = "collect" THEN CollectLayout
  ELSE IF d.directive \in {"delegate", "undelegate"} THEN DelegateLayout
  ELSE IF d.directive = "create" THEN CreateLayout
  ELSE IF d.directive # "edit" THEN OtherLayout
  ELSE IF d.items[RateOfEdit].size = 0 THEN EditWithoutRate
  ELSE EditLayout

\* The keys of a new validator, as many signatures, and the amount.  The
\* sizes of the two lists are those of their items.
KeyCount(d) == d.items[Len(CreateLayout)].size \div (MAX_BLS_ADDRESS + 1)

KeysAreLaidOut(d) ==
  LET n == KeyCount(d)
      before == Len(CreateLayout)
  IN /\ Len(d.items) >= before + 2 * n + 2
     /\ d.items[before].size = n * (MAX_BLS_ADDRESS + 1)
     /\ \A m \in DOMAIN d.items :
          d.items[m].role = "BLSPUBKEY" <=> m \in (before + 1)..(before + n)
     /\ d.items[before + n + 1].role = "BLSSIGS"
     /\ d.items[before + n + 1].size = n * (MAX_SIG_ADDRESS + 2)
     /\ \A m \in 1..n : d.items[before + n + 1 + m].role = "BLSSIGNATURE"
     /\ d.items[before + 2 * n + 2].role = "AMOUNT"

IsLaidOut(d) ==
  /\ Len(Layout(d)) <= Len(d.items)
  /\ \A n \in DOMAIN Layout(d) : d.items[n].role = Layout(d)[n]
  /\ Creates(d) => KeysAreLaidOut(d)

\* The sizes of the members of txContent_t that items are copied to: a
\* uint32_t, MAX_INT256, MAX_ECC_ADDRESS, MAX_BLS_ADDRESS and MAX_NAME_LEN.
\* Of the other items nothing is kept.
Numbers ==
  {"GASPRICE", "GASLIMIT", "AMOUNT", "RATE_VALUE", "MAXRATE_VALUE", "MAXCHANGERATE_VALUE",
   "MINSELFDELEGATION", "MAXTOTALDELEGATION"}

HasRoom(role, size) ==
  /\ role \in {"DIRECTIVE", "FROMSHARD", "TOSHARD", "EDITACTIVE"} => size <= 4
  /\ role \in Numbers => size <= 32
  /\ role \in {"TO", "DELEGATORADDR", "VALIDATORADDR"} => size <= 20
  /\ role \in {"BLSPUBKEY", "SLOTKEYTOREMOVE", "SLOTKEYTOADD"} => size <= MAX_BLS_ADDRESS
  /\ role = "NAME" => size <= 30

\* Every item has room in the member it is copied to.  The parsers do not
\* check that: a larger item runs over the members behind it, and this module
\* says nothing of documents with such items.  Behind an empty list of keys
\* every item is taken for a key.
ItemsHaveRoom(d) ==
  /\ \A n \in DOMAIN d.items : HasRoom(d.items[n].role, d.items[n].size)
  /\ Creates(d) /\ KeyCount(d) = 0 =>
       \A n \in DOMAIN d.items :
         n > Len(CreateLayout) => HasRoom("BLSPUBKEY", d.items[n].size)

ASSUME RlpAssumption ==
  /\ MAX_BLS_ADDRESS \in Nat \ {0}
  /\ MAX_SIG_ADDRESS \in Nat \ {0}
  /\ \A d \in Documents :
       /\ d.kind \in {"tx", "stake"}
       /\ d.kind = "stake" =>
            d.directive \in {"collect", "delegate", "undelegate", "create", "edit", "other"}
       /\ d.items \in Seq(ItemType) /\ \A n \in DOMAIN d.items : IsItem(d.items[n])
       /\ IsLaidOut(d)
       /\ ItemsHaveRoom(d)

VARIABLES
  doc,       \* the document
  cut,       \* how many of its bytes were uploaded
  field,     \* txCurrentField or stakeCurrentField
  read,      \* how many items were begun
  left,      \* commandLength
  directive, \* content->directive, which a cleared context has as DirectiveCreateValidator
  keys,      \* blsPubKeySize
  keyIndex,  \* currentBlsKeyIndex
  result,    \* "running", or what the parser returned: "complete" (0),
             \* "exhausted" (1) or "refused" (-1)
  landed     \* history: what was taken for what, and whether all of it was there

vars == <<doc, cut, field, read, left, directive, keys, keyIndex, result, landed>>

Bytes(item) == item.head + item.size

\* offset[n] is the number of bytes of the first n items that are read one
\* after the other: all but the payloads of the lists that are entered.
Offsets(items) ==
  LET offset[n \in 0..Len(items)] ==
        IF n = 0 THEN 0
        ELSE offset[n - 1]
             + (IF items[n].enter THEN items[n].head ELSE Bytes(items[n]))
  IN  offset

Init ==
  /\ doc \in Documents
  /\ cut \in 0..Offsets(doc.items)[Len(doc.items)]
  /\ field = "CONTENT"
  /\ read = 0
  /\ left = cut
  /\ directive = "create"
  /\ keys = 0
  /\ keyIndex = 0
  /\ result = "running"
  /\ landed = {}

(***************************************************************************)
(* Reading an item                                                         *)
(***************************************************************************)
Item == doc.items[read + 1]

Smaller(m, n) == IF m < n THEN m ELSE n

\* sizeof rlpBuffer: a length of more than 32 bits has no room there.
RlpBuffer == 5
IsTooLong(item) == item.head > RlpBuffer

\* The bytes that are read before the header is decoded or given up
Needs == IF Item.head = 0 THEN 1 ELSE Smaller(Item.head, RlpBuffer)

\* The loop goes on and there is enough of a header.
Feeds == result = "running" /\ field # "DONE" /\ left > 0 /\ left >= Needs

\* The header can be decoded.
Decodes == Feeds /\ ~IsTooLong(Item)

At(kind, fields) == Decodes /\ doc.kind = kind /\ field \in fields

Copied == Smaller(left - Item.head, Item.size)
Whole == Copied = Item.size

Succ(fields) == fields[(CHOOSE n \in DOMAIN fields : fields[n] = field) + 1]

Land(whole) ==
  landed' = landed \cup {[field |-> field, role |-> Item.role, whole |-> whole]}

\* A list is entered: its payload is read as items.
Enter(next) ==
  /\ field' = next
  /\ read' = read + 1
  /\ left' = left - Item.head
  /\ Land(TRUE)
  /\ UNCHANGED <<doc, cut, result>>

\* The payload, or what there is of it, is skipped or copied to the content,
\* where it has room (ItemsHaveRoom).
Consume(next) ==
  /\ field' = next
  /\ read' = read + 1
  /\ left' = left - Item.head - Copied
  /\ Land(Whole)
  /\ UNCHANGED <<doc, cut>>

\* A field advances only when its payload is complete.
Advance(fields) == Consume(IF Whole THEN Succ(fields) ELSE field) /\ UNCHANGED result

Jump(next) == Consume(next) /\ UNCHANGED result

Rest == UNCHANGED <<directive, keys, keyIndex>>

(***************************************************************************)
(* What both parsers do between items                                      *)
(***************************************************************************)
Done ==
  /\ result = "running" /\ field = "DONE"
  /\ result' = "complete"
  /\ UNCHANGED <<doc, cut, field, read, left, landed>> /\ Rest

\* A slip: an upload that ends between two items is not noticed.
ExhaustedInHeader ==
  /\ result = "running" /\ field # "DONE"
  /\ left > 0 /\ left < Needs
  /\ result' = "exhausted" /\ left' = 0
  /\ UNCHANGED <<doc, cut, field, read, landed>> /\ Rest

\* A slip: the end of the upload is taken for the end of the transaction.
ExhaustedIsComplete ==
  /\ result = "running" /\ field # "DONE"
  /\ IF left = 0 THEN TRUE ELSE left < Needs
  /\ result' = "complete" /\ left' = 0
  /\ UNCHANGED <<doc, cut, field, read, landed>> /\ Rest

\* There is no byte left, or too few for the header.
Exhausted ==
  /\ result = "running" /\ field # "DONE"
  /\ IF left = 0 THEN TRUE ELSE left < Needs
  /\ result' = "exhausted" /\ left' = 0
  /\ UNCHANGED <<doc, cut, field, read, landed>> /\ Rest

\* A header whose length has more than 32 bits is refused.
BadHeader ==
  /\ Feeds /\ IsTooLong(Item)
  /\ result' = "refused" /\ left' = left - RlpBuffer
  /\ UNCHANGED <<doc, cut, field, read, landed>> /\ Rest

(***************************************************************************)
(* processTx                                                               *)
(***************************************************************************)
TxContent == At("tx", {"CONTENT"}) /\ Enter("NONCE") /\ Rest

\* processNonce, processGas, processShard and processAddress
TxField ==
  /\ At("tx", {"NONCE", "GASPRICE", "GASLIMIT", "FROMSHARD", "TOSHARD", "TO"})
  /\ Advance(TxFields) /\ Rest

\* The last field: the parser returns 0 whether or not all of it is there.
TxAmount ==
  /\ At("tx", {"AMOUNT"})
  /\ Consume(IF Whole THEN "DONE" ELSE "AMOUNT")
  /\ result' = "complete" /\ Rest

(***************************************************************************)
(* processStaking                                                          *)
(***************************************************************************)
StakeContent == At("stake", {"CONTENT"}) /\ Enter("DIRECTIVE") /\ Rest

\* processDirective
Directive ==
  /\ At("stake", {"DIRECTIVE"})
  /\ Advance(StakeFields)
  /\ directive' = IF Whole THEN doc.directive ELSE directive
  /\ UNCHANGED <<keys, keyIndex>>

\* processStakingMessage
StakeMessage ==
  /\ At("stake", {"STAKEMESSAGE"})
  /\ Enter(IF directive \in {"create", "edit"} THEN "VALIDATORADDR" ELSE "DELEGATORADDR")
  /\ Rest

DelegatorAddr ==
  /\ At("stake", {"DELEGATORADDR"})
  /\ IF directive = "collect" THEN Jump("DONE") ELSE Advance(StakeFields)
  /\ Rest

ValidatorAddr ==
  /\ At("stake", {"VALIDATORADDR"})
  /\ Jump(IF directive \in {"delegate", "undelegate"} THEN "AMOUNT" ELSE "DESCRIPTION")
  /\ Rest

\* Only delegating, undelegating and creating lead here.
Amount == At("stake", {"AMOUNT"}) /\ Jump("DONE") /\ Rest

Description == At("stake", {"DESCRIPTION"}) /\ Enter("NAME") /\ Rest

\* processString
String ==
  /\ At("stake", {"NAME", "IDENTITY", "WEBSITE", "SECURITYCONTACT", "DETAILS"})
  /\ IF field = "DETAILS" /\ directive = "edit" THEN Jump("RATE") ELSE Advance(StakeFields)
  /\ Rest

CommissionRates == At("stake", {"COMMISSIONRATES"}) /\ Enter("RATE") /\ Rest

\* A slip: an edit that leaves the rate as it is is not provided for.
DecimalPresent ==
  /\ At("stake", {"RATE", "MAXRATE", "MAXCHANGERATE"})
  /\ Enter(Succ(StakeFields))
  /\ Rest

\* processDecimal: an edit may leave the rate as it is.
Decimal ==
  /\ At("stake", {"RATE", "MAXRATE", "MAXCHANGERATE"})
  /\ Enter(IF field = "RATE" /\ directive = "edit" /\ Item.size = 0
           THEN "MINSELFDELEGATION" ELSE Succ(StakeFields))
  /\ Rest

\* processValue of a rate or of the first bound
Value ==
  /\ At("stake", {"RATE_VALUE", "MAXRATE_VALUE", "MAXCHANGERATE_VALUE", "MINSELFDELEGATION"})
  /\ IF field = "RATE_VALUE" /\ directive = "edit"
     THEN Jump("MINSELFDELEGATION") ELSE Advance(StakeFields)
  /\ Rest

\* A directive that is neither creating nor editing came here by mistake.
MaxTotalDelegation ==
  /\ At("stake", {"MAXTOTALDELEGATION"})
  /\ Consume(CASE directive = "create" -> "SLOTPUBKEYS"
               [] directive = "edit" -> "SLOTKEYTOREMOVE"
               [] OTHER -> IF Whole THEN "SLOTPUBKEYS" ELSE field)
  /\ result' = IF directive \in {"create", "edit"} THEN "running" ELSE "refused"
  /\ Rest

\* A slip: the signatures are counted on from the keys.
KeyListCountingOn ==
  /\ \/ /\ At("stake", {"SLOTPUBKEYS"})
        /\ Enter("BLSPUBKEY")
        /\ keys' = Item.size \div (MAX_BLS_ADDRESS + 1)
     \/ /\ At("stake", {"BLSSIGS"})
        /\ Enter("BLSSIGNATURE")
        /\ keys' = Item.size \div (MAX_SIG_ADDRESS + 2)
  /\ UNCHANGED <<directive, keyIndex>>

\* The number of keys, and then of signatures, is taken from the size of
\* their list.
KeyList ==
  /\ \/ /\ At("stake", {"SLOTPUBKEYS"})
        /\ Enter("BLSPUBKEY")
        /\ keys' = Item.size \div (MAX_BLS_ADDRESS + 1)
     \/ /\ At("stake", {"BLSSIGS"})
        /\ Enter("BLSSIGNATURE")
        /\ keys' = Item.size \div (MAX_SIG_ADDRESS + 2)
  /\ keyIndex' = 0
  /\ UNCHANGED directive

\* processBlsData of a list: it is left when the index has met the number of
\* keys, which it never does if there are none.
Key ==
  /\ At("stake", {"BLSPUBKEY", "BLSSIGNATURE"})
  /\ keyIndex' = keyIndex + 1
  /\ Jump(IF keyIndex' # keys THEN field
          ELSE IF field = "BLSPUBKEY" THEN "BLSSIGS" ELSE "AMOUNT")
  /\ UNCHANGED <<directive, keys>>

\* processBlsData of the keys an edit removes and adds
EditedKey ==
  /\ At("stake", {"SLOTKEYTOREMOVE", "SLOTKEYTOADD", "SLOTKEYTOADDSIGNATURE"})
  /\ CASE field = "SLOTKEYTOREMOVE" -> Advance(StakeFields)
       [] field = "SLOTKEYTOADD" -> Jump("SLOTKEYTOADDSIGNATURE")
       [] field = "SLOTKEYTOADDSIGNATURE" -> Jump("EDITACTIVE")
  /\ Rest

\* processShard of the status an edit sets
EditActive == At("stake", {"EDITACTIVE"}) /\ Jump("DONE") /\ Rest

Next ==
  \/ Done \/ Exhausted \/ BadHeader
  \/ TxContent \/ TxField \/ TxAmount
  \/ StakeContent \/ Directive \/ StakeMessage \/ DelegatorAddr \/ ValidatorAddr
  \/ Amount \/ Description \/ String \/ CommissionRates \/ Decimal \/ Value
  \/ MaxTotalDelegation \/ KeyList \/ Key \/ EditedKey \/ EditActive

Spec == Init /\ [][Next]_vars /\ WF_vars(Next)

(***************************************************************************)
(* Correctness                                                             *)
(***************************************************************************)
\* The items a transaction or a staking transaction is made of, by the field
\* of the content that keeps or skips them.
Expected ==
  IF doc.kind = "tx"
  THEN {"CONTENT", "NONCE", "GASPRICE", "GASLIMIT", "FROMSHARD", "TOSHARD", "TO", "AMOUNT"}
  ELSE {"CONTENT", "DIRECTIVE", "STAKEMESSAGE"} \cup
    CASE doc.directive = "collect" -> {"DELEGATORADDR"}
      [] doc.directive \in {"delegate", "undelegate"} ->
           {"DELEGATORADDR", "VALIDATORADDR", "AMOUNT"}
      [] doc.directive = "create" ->
           {"VALIDATORADDR", "NAME", "RATE_VALUE", "MAXRATE_VALUE", "MAXCHANGERATE_VALUE",
            "MINSELFDELEGATION", "MAXTOTALDELEGATION", "BLSPUBKEY", "AMOUNT"}
      [] doc.directive = "edit" ->
           {"VALIDATORADDR", "NAME", "MINSELFDELEGATION", "MAXTOTALDELEGATION",
            "SLOTKEYTOREMOVE", "SLOTKEYTOADD", "EDITACTIVE"}
      [] OTHER -> {}

\* When a parser reports a complete transaction, no item was taken for
\* another one and none was left out: optional parts, lists of any length and
\* the jumps between the fields of the directives included (rlp.c:472-651).
NothingIsMistaken ==
  result = "complete" =>
    /\ \A l \in landed : l.field = l.role
    /\ Expected \subseteq {l.field : l \in landed}

\* The field that ends a transaction
LastField ==
  IF doc.kind = "stake" /\ doc.directive = "collect" THEN "DELEGATORADDR"
  ELSE IF doc.kind = "stake" /\ doc.directive = "edit" THEN "EDITACTIVE" ELSE "AMOUNT"

\* Of a transaction reported complete, only the field that ends it can be cut
\* short: every other item is there to its last byte (rlp.c:383-410, 472-651).
OnlyTheLastIsShort ==
  result = "complete" => \A l \in landed : l.whole \/ l.field = LastField

\* A document that was uploaded as a whole is not turned down, unless it
\* creates a validator without keys, has an unknown directive, or the parser
\* came to an item whose length takes more than 32 bits (rlp.c:26-49, 336-358).
WholeIsAccepted ==
  result \in {"exhausted", "refused"} =>
    \/ cut < Offsets(doc.items)[Len(doc.items)]
    \/ doc.directive = "other"
    \/ read < Len(doc.items) /\ IsTooLong(Item)
    \/ /\ doc.directive = "create"
       /\ \A n \in DOMAIN doc.items : doc.items[n].role # "BLSPUBKEY"

\* The parser returns on every input.
Returns == <>(result # "running")

(***************************************************************************)
(* Why it holds                                                            *)
(***************************************************************************)
Total == Offsets(doc.items)[Len(doc.items)]

\* What NothingIsMistaken and OnlyTheLastIsShort say of a complete transaction
Right ==
  /\ \A l \in landed : l.field = l.role /\ (l.whole \/ l.field = LastField)
  /\ Expected \subseteq {l.field : l \in landed}

\* What may turn a document down
Excused ==
  \/ cut < Total
  \/ doc.directive = "other"
  \/ read < Len(doc.items) /\ IsTooLong(Item)
  \/ Creates(doc) /\ KeyCount(doc) = 0

\* The field of the parser is the role of the item that is next.
Standing ==
  \/ read < Len(Layout(doc)) /\ field = Layout(doc)[read + 1]
  \/ /\ Creates(doc) /\ KeyCount(doc) > 0
     /\ LET n == KeyCount(doc)
            before == Len(CreateLayout)
        IN \/ /\ field = "BLSPUBKEY" /\ keys = n
              /\ keyIndex \in 0..(n - 1) /\ read = before + keyIndex
           \/ field = "BLSSIGS" /\ read = before + n
           \/ /\ field = "BLSSIGNATURE" /\ keys = n
              /\ keyIndex \in 0..(n - 1) /\ read = before + n + 1 + keyIndex
           \/ field = "AMOUNT" /\ read = before + 2 * n + 1

\* Nothing was missing so far.
Steady ==
  /\ read \in 0..(Len(doc.items) - 1) /\ Standing
  /\ left \in Nat /\ cut = Offsets(doc.items)[read] + left
  /\ doc.kind = "stake" /\ read >= 2 => directive = doc.directive
  /\ \A l \in landed : l.whole /\ l.field = l.role
  /\ \A n \in 1..read : \E l \in landed : l.field = doc.items[n].role

\* In the list of keys of a validator that has none, the parser takes what
\* follows for keys until the input ends.
Lost ==
  /\ Creates(doc) /\ KeyCount(doc) = 0
  /\ field = "BLSPUBKEY" /\ keys = 0 /\ keyIndex \in Nat

\* The inductive invariant
RlpInv ==
  /\ doc \in Documents /\ cut \in 0..Total
  /\ \/ result = "running" /\ (Steady \/ Lost \/ (field = "DONE" /\ Right))
     \/ result = "running" /\ field # "DONE" /\ left = 0 /\ Excused
     \/ result = "complete" /\ Right
     \/ result \in {"exhausted", "refused"} /\ Excused
=============================================================================

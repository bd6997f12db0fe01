------------------------------- MODULE MCRlp -------------------------------
(***************************************************************************)
(* Rlp for TLC: documents of every kind, in the layout the encoders of the *)
(* network use.  In each document all items of variable size are of one    *)
(* size class, but for one of another class or with a header that is too   *)
(* long; keys and signatures have two and three bytes, addresses two.      *)
(***************************************************************************)
EXTENDS Rlp

Classes == {"empty", "byte", "short"}

\* An item of a size class: 0x80, a byte that encodes itself, or two bytes
\* after a header of one byte, of five, or of six
Sized(role, class) ==
  CASE class = "empty" -> [role |-> role, head |-> 1, size |-> 0, enter |-> FALSE]
    [] class = "byte" -> [role |-> role, head |-> 0, size |-> 1, enter |-> FALSE]
    [] class = "short" -> [role |-> role, head |-> 1, size |-> 2, enter |-> FALSE]
    [] class = "long" -> [role |-> role, head |-> 5, size |-> 2, enter |-> FALSE]
    [] class = "toolong" -> [role |-> role, head |-> 6, size |-> 2, enter |-> FALSE]

\* The header of a list whose payload has size bytes
List(role, size) == [role |-> role, head |-> 1, size |-> size, enter |-> TRUE]
LongList(role) == [role |-> role, head |-> 2, size |-> 60, enter |-> TRUE]

Addr(role) == [role |-> role, head |-> 1, size |-> 2, enter |-> FALSE]
BlsKey(role) == [role |-> role, head |-> 1, size |-> MAX_BLS_ADDRESS, enter |-> FALSE]
BlsSig(role) == [role |-> role, head |-> 2, size |-> MAX_SIG_ADDRESS, enter |-> FALSE]

Times(item, n) == [m \in 1..n |-> item]

\* The class of the item of a role: odd in the document's odd role
Class(odd, role) == IF role = odd.role THEN odd.class ELSE odd.rest
Var(odd, role) == Sized(role, Class(odd, role))

Odds(roles) ==
  [role : roles, class : Classes, rest : Classes]
  \cup [role : roles, class : {"long", "toolong"}, rest : {"byte"}]

TxRoles == {"NONCE", "GASPRICE", "GASLIMIT", "FROMSHARD", "TOSHARD", "AMOUNT"}
TxDoc(odd) ==
  [kind |-> "tx", directive |-> "none",
   items |-> <<LongList("CONTENT"), Var(odd, "NONCE"), Var(odd, "GASPRICE"),
               Var(odd, "GASLIMIT"), Var(odd, "FROMSHARD"), Var(odd, "TOSHARD"),
               Addr("TO"), Var(odd, "AMOUNT"), Sized("data", "short")>>]

\* Creating has directive 0, which is encoded as the empty item.
Front(d) ==
  <<LongList("CONTENT"),
    Sized("DIRECTIVE", IF d = "create" THEN "empty" ELSE "byte"),
    LongList("STAKEMESSAGE")>>

Back == <<Sized("nonce", "byte"), Sized("gasprice", "short"), Sized("gaslimit", "short")>>

StakeDoc(d, message) ==
  [kind |-> "stake", directive |-> d, items |-> Front(d) \o message \o Back]

CollectDoc == StakeDoc("collect", <<Addr("DELEGATORADDR")>>)

DelegateDoc(d, class) ==
  StakeDoc(d, <<Addr("DELEGATORADDR"), Addr("VALIDATORADDR"), Sized("AMOUNT", class)>>)

DescriptionRoles == {"NAME", "IDENTITY", "WEBSITE", "SECURITYCONTACT", "DETAILS"}
DescriptionOf(odd) ==
  <<LongList("DESCRIPTION"), Var(odd, "NAME"), Var(odd, "IDENTITY"), Var(odd, "WEBSITE"),
    Var(odd, "SECURITYCONTACT"), Var(odd, "DETAILS")>>

\* A rate is a list of one number.
Rate(list, role, odd) == <<List(list, Bytes(Var(odd, role))), Var(odd, role)>>

CreateRoles ==
  DescriptionRoles \cup {"RATE_VALUE", "MAXRATE_VALUE", "MAXCHANGERATE_VALUE",
                         "MINSELFDELEGATION", "MAXTOTALDELEGATION", "AMOUNT"}
CreateMessage(odd, n) ==
  <<Addr("VALIDATORADDR")>> \o DescriptionOf(odd) \o <<LongList("COMMISSIONRATES")>>
  \o Rate("RATE", "RATE_VALUE", odd) \o Rate("MAXRATE", "MAXRATE_VALUE", odd)
  \o Rate("MAXCHANGERATE", "MAXCHANGERATE_VALUE", odd)
  \o <<Var(odd, "MINSELFDELEGATION"), Var(odd, "MAXTOTALDELEGATION"),
       List("SLOTPUBKEYS", n * (MAX_BLS_ADDRESS + 1))>>
  \o Times(BlsKey("BLSPUBKEY"), n) \o <<List("BLSSIGS", n * (MAX_SIG_ADDRESS + 2))>>
  \o Times(BlsSig("BLSSIGNATURE"), n) \o <<Var(odd, "AMOUNT")>>

EditRoles == DescriptionRoles \cup
  {"RATE_VALUE", "MINSELFDELEGATION", "MAXTOTALDELEGATION", "EDITACTIVE"}
EditMessage(odd, withRate) ==
  <<Addr("VALIDATORADDR")>> \o DescriptionOf(odd)
  \o (IF withRate THEN Rate("RATE", "RATE_VALUE", odd) ELSE <<List("RATE", 0)>>)
  \o <<Var(odd, "MINSELFDELEGATION"), Var(odd, "MAXTOTALDELEGATION"),
       BlsKey("SLOTKEYTOREMOVE"), BlsKey("SLOTKEYTOADD"), BlsSig("SLOTKEYTOADDSIGNATURE"),
       Var(odd, "EDITACTIVE")>>

\* A directive of none of the kinds, before the longest message
OtherDoc(odd) == StakeDoc("other", <<Addr("DELEGATORADDR")>> \o CreateMessage(odd, 1))

MCDocuments ==
  {TxDoc(odd) : odd \in Odds(TxRoles)}
  \cup {CollectDoc}
  \cup {DelegateDoc(d, class) : d \in {"delegate", "undelegate"},
                                        class \in Classes}
  \cup {StakeDoc("create", CreateMessage(odd, n)) : odd \in Odds(CreateRoles), n \in 0..2}
  \cup {StakeDoc("edit", EditMessage(odd, withRate)) :
          odd \in Odds(EditRoles), withRate \in BOOLEAN}
  \cup {OtherDoc(odd) : odd \in Odds({"AMOUNT"})}
=============================================================================

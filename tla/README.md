# A TLA+ model of the Harmony ONE application for the Ledger Nano

The repository holds the firmware application (`src/src/*.c`) that keeps a key
on a Ledger Nano S or Nano X, shows transactions of the Harmony network and
signs them, and the host programs that talk to it. This directory holds TLA+
modules of the application, TLC runs that check them on small instances, and
proofs that TLAPS checks for all values of the constants. File names below are
those of `src/src/` unless a path is given.

## The system and its parts

| Part | State it keeps | Operations | What makes it correct |
|---|---|---|---|
| Command loop, `main.c` | `flags`, `tx`, the staged status word, `G_io_apdu_buffer` | `one_main` takes a command, calls its handler, turns exceptions into status words; reset; exit | each command gets exactly one reply, and every reply ends in a valid word |
| Command contexts, `ui.h` | the union `global` | written by every handler | commands that share memory do not disturb a review |
| getVersion | – | replies | |
| getPublicKey | address strings | silent, or after the user approved | the reply carries the address; the screen shows it |
| signTx, signStaking | `buf[]`, `length`, `txContext`, `txContent`, strings | upload in packets, parse, review, sign | what is signed is what was uploaded and shown, all of it |
| Screens | UX flow and page (Nano X), bagl screen and `displayIndex` (Nano S) | buttons | no way to a signature past a field; every character can be reached |
| Parsers, `rlp.c` | `txContext`, `txContent` | `processTx`, `processStaking` | no item is taken for another; truncated input is noticed |
| Conversions, `uint256.c` | – | amounts and rates to strings | the string is the number |
| Keys, `harmony.c` | – | derive, sign, lay out r, s, v | exceptions do not leave the device stuck |
| Encodings, `bech32.c`, `base32.c` | – | address to string | the text reads back as the address, and wallets accept its checksum |
| JavaScript host, `tests_zemu/ledger_sdk.js`, `ledger.js` | the API lock, the transport, the chunk that is next | `publicKey`, `signTx`, `signStake`, and the two calls made of them | calls that run concurrently do not mix; every call ends; no lock outlives its call |
| Go hosts, `oneledger.go`, `wallet/nano_S_driver.go` | the packet that is read, its sequence number and position | cut into packets, put a reply together, check word and size | what is returned is one reply, and the reader never loops without reading |

The parts meet in one thread. `one_main` sits in `io_exchange`, which returns
when a command arrives and calls `io_event`, and through it the button
handlers, while it waits. A handler runs to its end: there is no preemption,
so that one handler is one atomic action here. What makes the program hard is
the *order* of handlers: any command may follow any other, each leaves its
bytes in the shared union and its flags in the loop, button handlers reply in
the place of the command handler that has long returned, exceptions cut
handlers short after some of their effects, and a reset of the transport
clears the loop's variables and the screen but not the union.

On the other side of the cable, calls of the JavaScript host interleave at
every `await`. Two things keep them apart: `publicKey` and `signTx` are locked
against each other (`signStake` is not), and the transport refuses a second
`send` while a reply is awaited. The Go programs are sequential, but they end
with their first error or a signal, and the device goes on with what it has:
its reply may meet the next program.

## Modules

| Module | Models | Checked by | Proved in |
|---|---|---|---|
| `Firmware` | loop, exceptions, union, upload, getVersion, silent getPublicKey, reset, exit and start: what both builds share | through the two below | `FirmwareProofs` has the lemmas; through the two below |
| `NanoX` | the Nano X build: UX flows and callbacks | `nanox`, `nanox_faults`, `nanox_menu`, `nanox_initialized` | `NanoXProofs` |
| `NanoS` | the Nano S build: one action per button handler | `nanos`, `nanos_compare` | `NanoSProofs` |
| `NanoSScroll` | the window over long strings on the Nano S | `scroll`, `scroll_name` | `NanoSScrollProofs` |
| `Rlp` | the control of both parsers | `rlp` | `RlpProofs` |
| `Uint256`, `Amount` | numbers of four words; amounts and rates as text | `conversions` | `ConversionProofs` |
| `Bech32` | addresses as text | `conversions` | `ConversionProofs` |
| `Signature` | the layout of r, s and v | `conversions` | `ConversionProofs` |
| `Host` | concurrent calls of `ledger_sdk.js`, composed with `NanoX` | `host` | `HostProofs` |
| `HidFraming` | the packets of the Go hosts | `hid` | `HidFramingProofs` |
| `SigningService` | the abstract service both builds implement | property `ImplementsService` of `nanox`, `nanox_faults`, `nanos` | `NanoXProofs`, `NanoSProofs` |
| `MC...` | an instance of each for TLC | | |

A definition introduced by "A slip:" is a plausible mistake in the definition
that follows it. It is never part of a specification: putting it in the place
of the definition shows that a property notices the mistake.

### Firmware, NanoX and NanoS

State and code correspond as follows.

- `pending` is the command that `io_exchange` delivered and that has no reply
  yet; `staged` the word that `CATCH_OTHER` left in `G_io_apdu_buffer` for the
  next turn of the loop; `asynch` the flag `IO_ASYNCH_REPLY`.
- `buf` is the first `length` bytes of `buf[]`, which lie at the same place in
  both signing contexts. `Clobber` is what the `memset` and the strings of
  getPublicKey do to them: the first `PkOverlay` bytes change (171 in the
  code), `length` and `txContext` stay.
- `parser` is what matters of `txContext` between commands: cleared by a
  `P1_FIRST` (`"fresh"`), used by an earlier parse, or never set up. Only a
  fresh one reads `buf[]` from its first byte, because `workBuffer` is set by
  `P1_FIRST` alone.
- `ui` is the flow and the page or screen. As history it holds which fields
  were shown, which bytes the parser was given, whether from the first one,
  and whether it reported the end.
- `unbroken` and `sent` are history too: whether the bytes in `buf` come from
  one transfer that `P1_FIRST` opened and nothing disturbed, and these bytes.
  Another command's strings, a button on the screen to compare (below), or a
  packet that goes on after a `P2_FINISH` ends `unbroken`.
- A byte of `buf` stands for a stretch of bytes of the upload, so that a full
  upload has four.

Every command handler, callback and button handler is an action; `Refuse`,
`GetPublicKeyBadP2`, `RefuseUpload` and the exceptional branches of the
`Finish...` actions are its early exits. The result of a parse or of a
conversion is a nondeterministic choice among the results the code
distinguishes, but for what was not read (`Unread`): an empty upload makes the
parsers return 1 at once (`rlp.c:420-422`), and an upload without any
`P1_FIRST` since the start has a `workBuffer` that is null, where no transaction
lies. Neither is ever complete, so that signStaking refuses both.
`GetPublicKeyFault`, `SignFault` and `DeriveFault` are exceptions of the system
calls; `SyscallFaults` says which can occur.

The transport, the screen library and the cryptography belong to the device's
SDK, which is not in the repository. They are modelled from their use: one
command is outstanding at a time, replying when none is raises
`INVALID_STATE`, right and left move one page in a flow.

Two differences between the builds are worth knowing. The Nano X derives the
address when the command arrives and parses at the end of the upload; the Nano
S derives and replies after the approval and shows the address only then, and
parses a transaction when its first screen is left. And on the Nano S the
conversions of amounts run in button handlers, where an exception answers the
host and leaves the screen.

The Nano S has one more way for two commands to meet in the union. Its screen
to compare the address comes up after the reply has left and stays as long as
the user likes. Its left and right buttons (`Seek`, `getPublicKey.c:143-161`)
write `displayIndex` and `partialStr`, and where these lie (`SeekOverlay`,
part of what getPublicKey overlays) there may by then be bytes of the next
upload. `Seek` changes them, and the transfer counts as disturbed.

### NanoSScroll

Every screen that scrolls shows 12 characters from `displayIndex` on. The
handlers of addresses and amounts start the next screen with `displayIndex = 0`
(`Fresh`); those of creating and editing a validator do not (`Kept`).
`shown` is the offset of the characters on the screen, which differs from
`displayIndex` after `Kept` until a button is pressed. The numbers are those of
the code; `fullStrLength - 12` is unsigned and `displayIndex` has eight bits.
`fits` is history: whether every string had at least the 12 characters of the
window and fitted in `fullStr`. A short name does not, nor do the `rate:0` and
`min:0,max:0` of an edit that sets neither.

### Rlp

A document is a sequence of items with the role the sender gave each; an
action is one turn of the parser's loop, which decodes a header, handles the
item in the current field and goes to the next field. `landed` records which
item was taken for which field and whether all of it was there, which is what
the properties speak of. Contents of fields are left out, except the directive,
on which the jumps depend. `RlpAssumption` says what a document is: its items
follow the layout of its kind (`Layout`, and `KeysAreLaidOut` for the keys of a
new validator), lists are entered and other items are not, and a byte that
encodes itself has no header. Every item fits the member of `txContent_t` it is
copied to (`ItemsHaveRoom`): `copyTxData` does not look at the size of the
member (`rlp.c:58-67`), a larger item runs over the members behind it,
`directive` and `blsPubKeySize` among them, and nothing is said here of such
documents. Sizes up to that, the length of headers, the number of keys, what
follows the last field, and the end of the upload are free.

A header may have nine bytes and `rlpBuffer` has five: a header that tells of
more is refused (`BadHeader`, `rlp.c:33-36, 42-45, 348-358`), which happens when
the buffer is full and the header still not all there. An upload that ends
before that is only exhausted.

### Uint256, Amount, Bech32 and Signature

These are pure computations, and the loops in them are where they can go
wrong; an action is a turn of a loop, and operators stand for the rest.

- `Uint256` has the structure of the code: two halves of two words, words that
  wrap, a carry seen in a sum that is less than a term. The width of a word is
  a constant. `Amount` is `divmod256` turn by turn (`DivisionTurn`),
  `tostring256` digit by digit, and around them `convertU256ToString` and
  `convertNumericDecimalToString` with their refusals. The references are
  division and products of integers. `DivisionKeepsTheSum` is the invariant of
  the loop and explains why the division is right; `NumbersAreExact` is about
  the texts.
- `Bech32` has the numbers of the code: 20 bytes, groups of five bits, the five
  generators, six characters of checksum. A number is the set of the places of
  its ones, so that `^` is the difference of two sets both ways and a shift
  moves the places; `EncodeBit` is one turn of the two loops over bytes and
  their bits. `AddressReadsBack` reads the groups again with an operator that
  is written the other way round, and checks the checksum as a wallet does.
  That holds for any five generators; that they are those of the network is
  `AddressIsAgreedOn`, which compares the texts with addresses that the
  repository's tests and other programs hold.
- `Signature` tracks where each byte of the signature comes from, so that a
  byte of r in the place of one of s shows.

### Host

`Host` extends `NanoX`: each step of a call that sends something is a step of
the device as well, with the same guards, and the user, resets and exits of
the device act in between. `call[c].at` is the `await` at which the call
`c` stands, `lock` is `_appAPIlock`, `exchanging` the call whose reply the
transport awaits, `connected` whether the device of `getHarmonyApp`'s one
transport is still there. `Begin` is `publicKey(true)` up to its `await`;
`Nonce` and `NonceFails` are the two outcomes of the network; `Send` and
`Receive` one turn of the loop over chunks; `Throws` every error path, which
`processErrorResponse` makes alike. Sending decides at once what the device
does with the command, as the device is always in `io_exchange` when no
command is outstanding. The transport, the network and the scheduling of
promises are external.

### HidFraming

One program after the other opens the device and exchanges commands. A step is
a packet written, a packet read, a copy out of the packet that is read, or a
check of the reply. Every byte of a reply says whose reply it is from and at
which place it stands there, beside its value, which decides what the reader
takes for a length or a status word. Packets wait in the handle while it is
open and are gone when it is closed. `Answer` and `SendPacket` are the device,
which goes on if the program has ended (`Abandon`, and `End` after an error).

## Runs

All bounds are in the `.cfg` files. `CHECK_DEADLOCK` is off in `scroll`,
`rlp`, `conversions` and `hid`: the screens end, the parser and the
conversions return, and exchanges are bounded.

| Run | Instance | Shows |
|---|---|---|
| `nanox` | 2 byte values, packets of 0 or 1 byte, limit 4 bytes, overlay 1 byte, no faults; 29,062 states | All promises of the Nano X build, and liveness |
| `nanox_faults` | 1 byte value, derivation and signing may raise exception 5; 601,177 states | What holds when an exception left a flow behind: `RepliesOnlyWhenAsked` is not among it. `TypeOK` and `CommandIsServed` are proved for every set of faults and not repeated |
| `nanos` | 1 byte value, faults, 1 byte that seeking writes over; 235,956 states | The same promises for the Nano S, and liveness |
| `scroll` | names of 5, 12, 13 and 30 characters, amounts of 13, 20 and 78, texts of 6, 12, 20 and 132, 1, 10 and 11 keys; 44,144 states | Addresses and amounts stay in the window and can be read to the end; the window stays in its array |
| `rlp` | documents of all kinds, headers of 0 to 6 bytes, cut at every byte; 314,081 states | The parsers assign items correctly, return, and notice what is missing but for the last field |
| `conversions` | words of 4 bits, base 3 with 2 decimals, numbers up to 2^16 - 1, six addresses, r and s of 2 to 7 bytes where 6 is the full size; 76,680 states | What the user reads is the number and the address, what the host gets is r and s, and the divisions end |
| `host` | a transfer of two chunks, one that is a byte too long, two staking transactions, chunks of 2 bytes; 319,731 states | Calls do not mix or block one another, and end |
| `hid` | packets of 7 bytes, replies of 5, 7 and 16 with length and word, commands of one and two packets, 4 exchanges, 1 lost packet; 27,843 states | What an exchange returns, and that it ends |
| `nanox_menu`, `nanox_initialized`, `nanos_compare`, `scroll_name` | as their modules | Expected violations: a comment says what the code does not keep (`findings` in `PROJECT.json`) |

Why the bounds are enough. Packets of at most one byte and a limit of four
make the fifth packet the one that is refused, as in the code with packets of
255 and a limit of 1020; all that the code does with lengths is to add and
compare them. One overlaid byte of up to four tells overlaid from spared bytes;
seeking writes over the same byte.
In `scroll`, a text of 6 characters is the `rate:0` of an edit; no create has less
than 24. `scroll_name` has one length of each text, those of a create: its run
moves the window nine places into the validator's address, goes on, and seeks
in the name of 20, whose end the window then reaches past.
A second byte value tells transfers apart that differ in content. With faults
one value suffices, because what they add is flows that outlive their command,
and `Foreign` still tells changed bytes. In `Rlp`, items are empty, one byte
that encodes itself, or a header with a payload: the parser distinguishes no
more, but for the long forms. Lists and signatures have headers of two bytes,
and every item of variable size in turn has one of five, the longest that is
decoded, and one of six, the shortest that is refused; an upload may end at
every byte of them. Keys
and signatures have 2 and 3 bytes, and their number comes from the size of
their list by the same divisions; lists of none, one and two keys meet every
branch of the counter.

In `conversions` the sizes are small and keep the relations that the code
depends on: a whole ONE and its decimals fit in a word (3^2 < 2^4, as
10^9 < 2^64), a number needs all four words, and the largest has as many digits
as the buffer (11 in base 3 of 16 bits, 78 in base 10 of 256). The numbers are
all below 901, all above 65,279, and those around the powers of the base and of
two, which is where digits, carries and borrows change. Addresses have the
numbers of the code, and with them the bits that are left over in no group.
r and s take every length from four bytes short to the leading zero.
In `host`, the call that is too long is refused at its fifth chunk after four
were taken; of the other three, one has two chunks with `signTx`, one has two
and one has one with `signStake`, so that every pair of locked and unlocked
calls meets. In `hid`, 5, 7 and 16 bytes are a reply that ends inside of a
packet, one that ends exactly with it, and one of three packets; the second
packet of the longest, taken for a first one, reads as a reply of its own with
the word 0x9000. The fourth exchange is the first that can come after two
programs that ended early and one that succeeded.

### The properties

- `CommandIsServed`: while a command is outstanding, either its word is staged
  and will be sent (`~asynch`) or the screen is the one that answers this very
  command. With fairness it gives `EveryCommandIsAnswered`.
- `RepliesOnlyWhenAsked`: a flow or staged word exists only for an outstanding
  command. It needs system calls that succeed: after a failing signature the
  flow stays, and pressing approve again with no command outstanding stages
  `INVALID_STATE`, whose sending raises it again, over and over: neither the
  next command nor a reset of the transport is looked at in that loop.
- `SignedIsReviewed`: in every case the signature covers the bytes that `buf[]`
  held when the screens were made. If moreover the transfer was not disturbed,
  these are exactly the accepted bytes, and the parser read them from the first
  one. The premise is what the code needs: a getPublicKey between two packets,
  a button on the Nano S's screen to compare, or a second `P2_FINISH` without
  `P1_FIRST` ends `unbroken`. Then the signature is still over the bytes under
  review, but these need not be the upload, and after a second `P2_FINISH` the
  screens show what the parser made of a part of them.
- `ContentIsSeenBeforeSigning`: every text that the handlers make of a
  transaction of the kind was on the screen before its signature left. That is
  not all that the parser keeps: `gasprice` and `startgas` of a transfer
  (`rlp.c:390-395`, `rlp.h:84-85`) go into `txContent`, no handler of either
  build makes a text of them, and the user signs them unseen.
- `StakingIsCompleteWhenSigned`: signStaking, unlike signTx, signs only what
  the parser read to the end.
- `AddressIsDelivered`, `StatusWordsAreValid`: about the replies.
- `ImplementsService`: every behaviour is one of `SigningService`, in which
  a signature ends a review and covers the document of that review, one per
  review, and no other reply gives anything away but the public address.
- `AddressesAndAmountsStayInWindow`, `NothingIsOutOfReach`, `WindowInRoom`:
  about scrolling. With a string of less than 12 characters `fullStrLength - 12`
  wraps and the window leaves the array, on its screen and with the
  `displayIndex` that is kept after it; `fits`, the premise of `WindowInRoom`,
  excludes exactly that, and the run has such strings among its instances.
  `NothingIsOutOfReach` says of addresses and amounts that seeking right stops
  (`Further`) only when the last character is on the screen.
- `NothingIsMistaken`, `OnlyTheLastIsShort`, `WholeIsAccepted`, `Returns`:
  about the parsers, for documents whose items fit. `OnlyTheLastIsShort` states
  exactly what the code gives: the last field of a transaction may be cut.
  `WholeIsAccepted` excludes a validator created without keys: the loop over keys is left when the counter
  meets their number, which it then never does. It also excludes unknown
  directives and headers that are too long.
- `NumbersAreExact`, `DivisionKeepsTheSum`, `AmountHasRoom`: about amounts and
  rates. An amount is cut at the ninth decimal and never rounded up. No amount
  has more than 60 digits, so that the missing byte for the NUL in
  `tostring256` is never needed; a rate may have 78, and `AmountHasRoom` does
  not speak of rates.
- `AddressReadsBack`, `AddressIsAgreedOn`, `PartsAreInPlace`: about addresses,
  what they stand for and how they are written, and about signatures. If r or
  s has less than 32 bytes, what precedes it in DER stays in front of it;
  `PartsAreInPlace` says which bytes are right.
- `SignaturesAreOwn`: although `signStake` takes no lock, the signature a call
  returns is of its own transaction: the transport refuses other calls while
  the reply to a chunk is awaited, and the next chunk leaves before any other
  event is looked at.
- `TurnedAwayOnlyByOthers`: no error path keeps the lock or the transport busy.
- `EveryCallReturns`: with the liveness of the device, through refusals,
  rejections, resets and unplugging.
- `ReturnedIsOneReply`: the bytes an exchange returns are those of one reply,
  from its first on, without a gap. That it is the reply to *this* command holds
  for programs that found the device free (`clean`). After a program that ended
  in an exchange the next one may get its reply, and each exchange after that
  the reply before its own: nothing in a packet tells them apart.
- `ExchangeEnds`: in every exchange the reader reaches a result or an error,
  unless a packet was lost or a program ended between two packets of a command;
  then the Go reader, which has no timeout, waits for ever.

### Fairness

`Spec` has none. `FairSpec` assumes that the loop turns when it can
(`SendStaged`: `one_main` has no exit but an exception) and that the user goes
on: on the Nano X reads to the approve page, does not go back for ever and
then decides; on the Nano S presses on or decides. The device cannot make the
user decide, so that without the latter a command may stay on the screen for
ever. Nothing is assumed of the host, resets, or system calls.
`Rlp` and `conversions` assume that a loop that runs goes on.
`Host` assumes the fairness of `NanoX` for the device and its user, that the
network answers or fails, and that a promise that is ready runs; nothing of
when calls are made, of resets or of unplugging. `HidFraming` assumes that the
program runs (`Progress`), that the device, with its user, decides (`Answer`)
and sends (`SendPacket`); nothing of programs that start or end.

## Proofs

Every theorem holds for all values of the constants that the named `ASSUME` of
its module admits. The proof modules state every safety property that a run
checks and finds true, but for `AddressIsAgreedOn`. Hardly any of these
invariants is inductive as it stands: a strengthening is, and TLC has checked
it too on the instances of the runs (those of `ConversionProofs` with the range
of j and of the words in them bounded). First comes that the initial states
satisfy it, then one lemma for each action, then the theorem.

**`FirmwareProofs`** has the lemmas on what both builds share: storing,
clobbering, answering and the exceptional exits, with the types they keep.
Its assumption is `FirmwareAssumption`: any packet size `CmdBufferSize`, any
overlay up to it, any set of exceptions, and a `Foreign` that is not a byte of
the upload. The latter names what other code writes and not a byte value;
`unbroken` ends with it, so that of such bytes it is claimed only that they are
signed as they were reviewed. `SeekAssumption` asks that `SeekOverlay` is part of
the overlay.

**`NanoXProofs`**: `TypeCorrect`, `Invariance == Spec => []IndInv`, the safety
properties, `Refinement` and `AskedOnly`. `IndInv` adds to the properties:

- `LoopInv`: a staged word has `asynch` off (otherwise `SendStaged` would drop
  it and `CommandIsServed` fail), and a device that is off has no command;
- `ReviewInv`: in an unbroken transfer `buf` is what was sent, and during a
  review the screens were made from `buf`, since no packet is taken while a
  command is outstanding;
- `ScreenInv`: the pages up to the current one were seen, because a flow is
  entered on its first page and pages are turned one at a time; and a staking
  flow is complete;
- `ReplyInv`: while getPublicKey is outstanding the address is in
  `G_io_apdu_buffer`, and `SW_OK` is staged for signing commands only, whose
  reply carries no address.

The action properties follow from `IndInv` in the state before the signature.
`Refinement` shows that each step is a step of `SigningService` or a stutter;
`AskedOnly` is `RepliesOnlyWhenAsked` if no system call fails.

**`NanoSProofs`** proves the same theorems of the Nano S but for `AskedOnly`.
The screens there are no list of pages: a handler may lead to one of two
screens for the amount, and the parse comes after the upload. `Way(flow)`
gives the sets of screens in the order in which they can be reached, and
`ScreenInv` says that on the k-th of them a screen of each earlier set was
seen (`Reached`); every handler leads from one set to the next one only.
`Unparsed` is what is known while a transaction waits for its parse: `buf`
holds the upload, and the parser is still the one `P1_FIRST` set up.

**`NanoSScrollProofs`**: the three scroll properties for names, texts and
amounts of all lengths that the arrays can hold. `AddressInv` gives the length
on the screens of addresses. `IndexInv` bounds `displayIndex`: by the string
where each screen resets it; where it is kept from screen to screen, by the
132 characters of `fullStr`, as long as `fits`.

**`RlpProofs`**: `NothingMistaken`, `OnlyLastShort` and `WholeAccepted` for
documents whose items fit their members, with headers of any length, any number
of keys, and any `cut`. `RlpInv` has a disjunct for each thing a parser can be
at. `Steady`: nothing was
missing, the field is the role of the next item (`Standing`), the bytes that
are left are those from its offset to the cut, and all items before it landed.
Or the input ended in an item and none is left; or a header was refused; or the
transaction is done; or `Lost`, the endless list of keys of a validator that has none. `After` is the
successor of each field for each directive, and the layouts are shown to
follow it (`LayoutShape`); whether a field is the last one of its layout
separates steps that go on from those that end. That offsets of items are sums
of their sizes is proved by induction: `SetInduction` takes a set in place of a
predicate, and needs no operator as parameter.

**`ConversionProofs`** is about the computations: `Amount` with `Uint256`,
`Bech32`, and `Signature`. The theorems are about the behaviours of each by
itself; the run interleaves nothing with it.

*Arithmetic.* From `Power` up, one lemma for each operator says what it does to
values: comparisons compare, `Add128` and `Minus256` add and subtract where
nothing overflows, shifts multiply and divide, `Bits256` is the place of the
highest one. `Or256` is a sum where the two numbers have no one in common; it is
used only to enter a bit below all the bits of a quotient, and `Or256Power`
says that.

*Divisions.* `DivisionsKeepTheSum` is the invariant of the loop in `divmod256`.
It needs `Kept`: while there is something to take, `adder` is 2^j, the shifted
divisor is the divisor times that, the rest is less than twice the shifted
divisor, and the quotient so far has only bits above j. Without the last part
`or256` could not be an addition; without the bound on the rest, the quotient
could end a bit short. `DivideKeeps` shows that the alignment by the number of
bits, with its one correction, starts there. `DivisionsGoDown` says that each
turn halves `adder`, which is not zero while the loop runs: that bounds the
turns, and is what `ConversionReturns` rests on.

*Texts.* `WritingInvariance`: the number of the digits so far, plus the number
that is left to divide times the power they have reached, is the number that is
written, and the digits always have room; `OnesOf` and `FractionOf` say which part of the amount
each stage writes. From it follow `ScreenIsExact` and `NumbersFit`. The
assumptions are `AmountAssumption` and `RoomAssumption`, which hold of the
numbers of the code: a power of the base fits in a word, the buffer has room for
the digits of 2^256 - 1, and a whole part that is shorter by two such powers,
with its point and decimals, for what the callers allow.

*Addresses.* `AddressInv` says which bits each group holds (`IsFilled`,
`IsGrouped`) and of what the checksum is. That the final polynomial is 1 has
its reason in one lemma, `PolymodStepAdds`: a step adds its group and nothing
else to what the step with the empty group gives. Thus the six groups of the
checksum, brought in one per step, arrive at their places just as the six empty
ones did, and cancel (`ChecksumCloses`). `EveryAddressReadsBack` holds for
every sequence of bytes whose length is a multiple of five (`AddressAssumption`;
the code has 20), so that no bit is left over.

*Signatures.* `PartsInPlace` for all sizes and pairs of lengths. `DerInv`
says where the signing call leaves the length bytes and, from the right, the
bytes of r and s; the two moves of `convert_signature_to_RSV` are then followed
byte by byte.

**`HostProofs`**: `OwnSignatures` and `TurnedAway` for any set of calls and
messages. `HostDrivesDevice` is `HostSpec => Spec`: composed with the host, the
device behaves as `NanoX`, so that `NanoX`'s theorems hold there. `HostInv` says
what the device has of the message of the call whose turn it is (`Sent`,
`UploadInv`): while a chunk is outstanding or was acknowledged, `buf` is the
prefix of its message up to this chunk, and from its reply to the next chunk no
other call can send (`CallInv`).
`HostAssumption` includes that `Nobody`, who holds a free lock, is no call.

**`HidFramingProofs`**: packets in the line are described by a *history*: a
function from the number of a command to its kind and its status word. `HidInv`
says that some history explains everything in `line`, `out`, `hbuf` and `p`:
each packet is one of the reply to its command, packets are in the order in
which they were sent, and `p` is a piece of the reply the current packet is
from, as far as the sequence number says. A gap in a reply needs a lost packet, and passes
unnoticed only if the reader meets the rest of another reply at the same
sequence number, for which a second packet must be missing as well. `OneReply`
therefore has the premise `Trusted`: the program found the device free, or at
most one packet was lost. With two losses and an earlier program that ended in
an exchange, bytes of two replies can be joined; TLC finds that with
`MaxLost = 3`. `OneReplyOneLoss` is the property of the run, without a premise,
for `MaxLost <= 1`, all sizes, and any number of exchanges. `HidAssumption` asks
for packets with room for two bytes at least and commands of one packet or
more.

Model-checked only, and why:

- `EveryCommandIsAnswered`, `EveryCallReturns`, `ExchangeEnds`, `Returns`,
  `ConversionReturns`: liveness under fairness needs `ENABLED`, which this
  version of TLAPS does not handle.
  Of the divisions, `DivisionsGoDown` is the part of it that is safety.
- `AddressIsAgreedOn`: it is about the characters of strings and about
  addresses that are known, which is a comparison of data.

## Not modelled, and why

- Items that are larger than the member they are copied to (`rlp.c:58-67,
  113-130, 205-222, 275-297`): `RlpAssumption` excludes them.
- The values of the fields the parsers read, and with them `to_hex` and the
  formatting of keys: no property tells their bytes apart.
- A parse that goes on from an earlier one. `NanoX` and `NanoS` allow it any
  result and any bytes; `Rlp` starts from a cleared context.
- A parser result that `processTx` does not report: signTx ignores the result,
  and `NanoX` and `NanoS` carry it in `complete` without a promise.
- `signHashContext_t`: no command uses it.
- `mul128`, `mul256` and `add256` outside of it: nothing calls them. (Line 412
  of `uint256.c` adds the upper half of a partial sum one word too high.)
- The NUL after a text of 78 digits, which `tostring256` would put behind its
  buffer: only a rate of 10^77 or more has them.
- In the JavaScript host: `getVersion` and the address that is shown, which take
  the same path as `publicKey(true)`; what is computed from the signature after
  the call; failing signatures of the device (`SyscallFaults` is empty in
  `host`; `nanox_faults` is about them).
- In the Go hosts: the decoding of the command line. `SignTxn` of
  `wallet/nano_S_driver.go` sends `P1_MORE` with P2 `0x01`, a packet that this
  firmware stores and acknowledges without a signature; `HidFraming` has the
  exchange and its size check, and not what the parameters mean.
- Build files, loading scripts, icons.

## What could be added

The components are modelled, and their safety is proved. What would come next:

1. Measures that go down for the loops of `Rlp` and `HidFraming`, as
   `DivisionsGoDown` is for divisions. For the parser, `RlpInv` would have to
   say more of a validator without keys, whose list never ends.
2. The values of fields in `Rlp`, so that what a screen shows is tied to the
   bytes of the upload through parser and conversions. `NanoX` and `NanoS`
   speak of fields as shown or not.
3. A parse that goes on from an earlier one, in `Rlp`, in place of the free
   choice that the builds make of its result.

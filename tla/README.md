# libpeios in TLA+

libpeios is the userspace library of the Peios kernel interfaces: a C ABI written
in Rust, one thread per call, no background threads. Most of it marshals arguments
into system calls. What is hard in it is where it shares state with somebody else:
the event ring it reads while the kernel overwrites it, the futex it sleeps on, the
registry that changes while it walks it, the control buffer the kernel fills. And it
holds the two sides of many formats: the bytes one call writes, another reads back.

Paths below are relative to the repository (`src/` is its root in PROJECT.json).

## The system and its parts

| part | state | operations | what is hard |
|---|---|---|---|
| event reader (`event/consume.rs`) | mapping, descriptor, `read_pos`, `last_seq`, `lost`, `generation` | open, next, wait, close, lost | lock-free reads of a ring the kernel overwrites, damages and replaces |
| notification wait (`event/consume.rs`) | `need_wake`, futex counter, `write_pos`, all shared | wait | store buffering, lost wake-ups, timeouts, the counter's wrap |
| low-level ring (`event/consume.rs`) | a caller-owned `Ring` | map, positions, event_at, wait, unmap | the same code under the caller's own loop |
| emission policy (`event/policy.rs`) | two watched keys, a cache, a retry time | open, enabled, close | a cache kept coherent by watch records; keys that appear and vanish between calls |
| event emit (`event/emit.rs`) | none | emit, emit_batch | partial batches |
| MessagePack (`msgpack.rs`) | writer: output, latched error; reader: a cursor | encoders, writer, reader, skip, validate | nesting limits, counts, truncated input |
| token builder (`token/builder.rs`) | fields, latched error, materialised bytes | setters, bytes, create | bytes that outlive a later setter |
| socket messages (`token/message.rs`) | descriptors in flight | send, recv | every received descriptor delivered or closed |
| token calls (`token/{ops,query,actions,sessions}.rs`) | none | wrappers, size probes | a value that grows between probe and read |
| access check (`access.rs`) | none | check, check_list, audit-context encode and validate | a context walked in two ways, a denial that has outputs |
| descriptors, ACLs, SIDs (`security/*.rs`) | builders: parts, latched error, bytes | setters, bytes, views | 16-bit sizes, stale bytes |
| SDDL, inheritance (`security/sddl/`) | none | parse, format, inherit, re-inherit, strip | text that must mean its bytes; flags and order of inherited ACEs |
| registry client (`registry/*.rs`) | none | keys, values, watches, transactions | enumeration during change, repeated commits |
| files, processes (`file.rs`, `kfile.rs`, `process.rs`) | none | wrappers | size probes |

The reader and the wait share the ring's metadata page: `peios_event_reader_wait`
first does the reader's generation check, then the futex protocol. The policy uses
the registry client for every key it opens, and nothing else of the library. The
builders feed each other (an ACL's bytes go into a descriptor or a token) and the
token, file and access calls. An audit context is MessagePack.

PROJECT.json lists each part, with the hazards at the line where they bite.

## Modules

**KmesRing** is the kernel's producer (external). A ring is `write_pos`, `tail_pos`,
`generation` and a data region addressed modulo its capacity. An emit takes three
steps a consumer can run between: `Reserve` moves the tail past what will be
overwritten, `Overwrite` destroys the bytes, `Publish` puts the header in place and
moves `write_pos`. `Publish(TRUE)` publishes an event whose header does not parse.
`Drop` spends a sequence number on an event that never reaches the ring. `Resize`
gives the CPU a new, empty ring and changes the generation word of the old page.

**EventReader** is the high-level reader. Each load of a shared word is its own step:
`CheckGeneration`, `CheckEmpty`, `CheckLapped`, `ParseEvent` and `ReadFields` (the
two halves of `parse_event`), `TornReadGuard` (with the delivery), `Resync`; and for
`attach_and_map`, `Attach`, `MapRing`, `LoadStart`, then `OpenDone` or
`ReattachDone`, whose `TakeRing` loads the generation. `AttachFails`,
`MapRingFails` and `OpenNoMemory` are the error paths. Bytes that are not the header
of the event at `read_pos` read as anything, a header that parses included. The
contents of an event are abstracted to its size and sequence number.

**EventStream** is what the reader promises: sequence numbers given in increasing
order, none twice, and a lost counter that is exactly the numbers skipped since the
first. EventReader implements it (`StreamSpec`).

**EventWait** is `Ring::wait` in a consumer that loops next()/wait(). Positions count
events. The stores to `need_wake` pass through a store buffer, as on x86-64, the
only target; loads are in order; the futex system call empties the buffer.

**PolicyRegistry** is the registry under `Machine\Generic` (external), with the watch
records that changes put on the handle's descriptors. `env`, chosen from `Envs` at the
start, is what may happen:
keys created and deleted, settings changed, access changed, and the handle's own calls
failing: arming a watch, reading one, opening or querying a key of the walk.

**EventPolicy** is the policy handle: `Establish`/`OpenRoot`/`ArmRoot`/`ArmGeneric`/
`ArmMachine`/`Established` are establish(), `Refresh` and `RefreshUnwatched` are
refresh(), `Lookup`/`Walk`/`Remember` are setting(), resolve() and remember(). Any open
and any query may fail on a key that is there (no memory, no descriptor, no access): the
open ends the walk, the query leaves the key unset, and what the walk has so far is cached
like a full answer. So a watched handle may keep the outcome of a call that failed once
until the next record, which is what the code does; `doubted`, a history variable, holds
the types this may be so for. The reference the walk is compared with is `Deepest`, stated
without a walk, and for a doubted type any setting on its path as it is now (`Allows`).

**Msgpack** is the structure of MessagePack buffers: `validate` with its stack, `skip`
with its counter, both over `value_step`; the writer (`Write`, `WriteInvalid`,
`WriteNoMemory`, `Reset`, `Bytes`), where a failed write may leave half a value behind;
and a caller of the reader that follows the counts it is given (`ReadValue`,
`SkipValue`). A buffer is a sequence of values without their children. The reference is
the grammar (`Ends`), by recursive descent, with neither stack nor counter.

**MsgpackForms** is the bytes of one value: the encoders, the typed readers, the
`value_step` the walkers use instead of them, `classify`, and the second set of
encoders and readers in access.rs. 64-bit integers are eight bytes.

**AuditContext** is access.rs over Msgpack's values with text beside them: the
validator (`audit_context_shape`, `mp_skip_value`, then Msgpack's `validate`), the
encoder, and `AccessCheck`/`AccessCheckList`, which the kernel answers. A request has its
five arguments, each a pointer that may be NULL and a length; `validate_request` and
`build_args` decide what reaches the kernel, and the outputs are copied to the buffers the
caller has. The reference (`Rules`) restates the kernel's rules, access.rs:155-162, by the
grammar, and `Sound` says which requests are to reach it.

**Bytes** is byte buffers in which a read at a wrong offset or width yields no value.
**Wire** is the parsers of kacs_core (external) the builders call. **SecurityViews** is
`security/view.rs`. **AclBuilder**, **SdBuilder**, **TokenClaims** and **TokenBuilder**
are the builders: every setter, the latched error, the rendering with its offsets.
**Builders** is a caller of all three that passes bytes from one to the next and records
what it asked for.

**SocketMessage** is `peios_socket_send_message` and `peios_socket_recv_message`. The
kernel (external) puts control messages into a buffer of `ControlLen` in either order,
after credentials if the socket asked for them, cuts what does not fit and says so.
`DeliverToken`, `DeliverRights`, `DeliverOther` walk them one descriptor at a time.
Descriptors have names of their own, so that closing the wrong one shows. The buffer is a
list of control messages with their sizes; the headers' bytes, which push_cmsg writes and
parse_control reads, are not modelled.

**Inherit** is `inherit.rs` over the record a descriptor's bytes hold: `inherited_aces`,
`reinherit_with`, `strip_inherited_aces`. **Propagation** is a caller that walks a tree
with them, parents first, while descriptors are edited. The reference is stated from the
ancestors' explicit ACEs, without the lists in between.

**Vocab**, **SdCodec**, **Condition**, **CondText**, **Claim** and **Sddl** are the SDDL
code: its tables; the bytes of SIDs, ACEs, ACLs and descriptors; conditions and their
bytecode; their text; claims; descriptors' text. A text is a sequence of tokens, with
strings and names as characters, because what splits a text does not look at quotation
marks and what writes one escapes nothing. Numbers have the widths the parser gives them,
and a SID's authority and count are cut where they are encoded. **SddlTrips** is a program that converts back and forth, from a
text in any of the spellings the grammar allows, possibly with one token edited, or from
bytes of another origin.

**MCEncoders** and **MCDescriptors** put several of these into one run: the initial
state says which one a behaviour is about, the others stand still.

**EventReaderProofs**, **EventWaitProofs**, **EventPolicyProofs**, **MsgpackProofs**,
**AuditContextProofs**, **SocketMessageProofs**, **PropagationProofs** and
**BuildersProofs** hold the theorems.
The **MC** modules give constants their values. Definitions whose comment begins with "Mutant:" are plausible
wrong versions of the definition after them. None is used by a specification. Each
shows that a property depends on the code it is about.

## Runs

| run | instance | shows |
|---|---|---|
| `reader` | three rings of 4, 2 and 2 units, 3 sequence numbers, sizes 1 and 2, one damaged event, fair | `NeverTorn`, `ReadPosAtEvent`, `LostExact`, `HandlesBalanced`, `CorruptIsReal`, `StreamSpec`, `NextReturns`, `Drains`, `StaleReaderMoves` |
| `reader_resize` | one event, one resize, fair | finding: `ResizeHandled` is violated |
| `wait` | timeout, 3 events, counter modulo 2, fair | `AsleepArmed`, `AwakeDisarmed`, `WaitReturns`, `AllRead` |
| `wait_forever` | no timeout, 1 event, fair | finding: `RaceClosed` is violated |
| `policy` | three environments, 3 changes: every change to Generic, Events and access, with opens, arming and reads failing; Events created, deleted, re-created, settings change, reads fail; settings change, opens, arming and calls of the walk fail | `CacheCoherent`, `WatchedFresh`, `SettledWhereNoticed` |
| `policy_missed` | Generic and Events created, 2 changes | finding: `CreationNoticed` is violated |
| `policy_denied` | Events created unreadable, 4 changes | finding: `SettledFresh` is violated |
| `encoders` | see Bounds | buffers: `ValidateExact`, `SkipExact`, `NothingDropped`, `DrainExact`; values: `WrittenExact`, `ReadersAgree`; builders: `RenderedExact`, `SidArrayExact`, `RefusedForCause`, `StickyFirstError`; access checks: `ContextExact`, `CheckExact`; socket messages: `NothingLeaks`, `CompleteUnlessFlagged`, `InOrder` |
| `descriptors` | see Bounds | SDDL: `MeaningKept`, `Settled`, `DecodeExact`; inheritance: `ReachExact`, `StripFirst`, `VisitKeeps` |
| `sddl_quoted` | conditions with a parenthesis in a string | finding: `WrappedOrNot` is violated |
| `audit_long` | a kind one letter short of the limit | finding: `EncodedFits` is violated |
| `message_pidfd` | one message, a socket that asks for a pidfd | finding: `NothingLeaks` is violated |

`SettledFresh` does not hold under every environment; the two findings are the two ways
it fails. `SettledWhereNoticed` states it for the environments without these ways:
Generic always there and Events readable, or Events always there.

The builders' properties compare what the kernel's or the library's own readers find in
the bytes with a record of what the caller asked for, kept beside the builder and never
read by it. `RefusedForCause` is the other direction: nothing but a bad argument or a
size over its limit makes a builder refuse.

`MeaningKept` and `Settled` name what SDDL text cannot carry, since the code writes and
splits texts without escapes. A SID keeps 48 bits of its authority, and one with more
sub-authorities than eight bits count is not read back (`Countable`). A text may be
refused if it is longer than `MAX_SDDL_TEXT`, builds an ACL past its size field, or has a
string with a parenthesis that is not matched inside it, the smallest 64-bit integer, or
a number too wide for its type (`Unspeakable`). A string or claim with a quotation mark or
a NUL, or an attribute name outside the parser's alphabet, which only bytes of another
origin can hold, is written as it is and read as something else (`Writable`). Nothing
else is refused or changes its meaning, and each of these exceptions is needed: the run
fails without it.

### Bounds

The reader's rings hold 4 and 2 units and events take 1 or 2, so an event wraps past
the end of the data region, one overwrite destroys one or several events, and a reader
is lapped with 3 sequence numbers. Three rings give two resizes, the second during the
re-attachment after the first. The futex counter counts modulo 2 so that it wraps while
the consumer is between two loads. Two types, one below the other, make inheritance of a
setting, a missing inner key and a full cache (`CacheMax` 1) happen. `TTL` is one tick of
the clock and `MaxTime` leaves a tick after the last expiry. Three changes allow a key to
be deleted, created and set within one call.

Five values (`MaxLen`) with a depth limit of three nest one deeper than the limit, and
put empty and filled containers beside each other at it; every limit from 0 to one past
the ceiling is tried on each buffer. MsgpackForms tries every lead byte with tails at and
around each boundary of each width, and lengths around every change of form; the bytes
behind a header are a number, so that 32-bit lengths cost nothing. Integers are 64 bits.

A caller makes three calls of setters, adders and resets (`MaxCalls`) and takes the
bytes as often as it likes between them: a value, an error and a reset in any order, or
an ACL passed on and changed again. Sizes that are 16 bits in the code end at `U16Max` =
95, descriptors at `SD_MAX` = 130 and token specs at `SPEC_MAX` = 300, so that two or
three entries pass them. SIDs, names and lists include NULL, malformed and too long
ones. SIDs are of two lengths and groups have two attribute words, so that the entries of
a SID array differ in size and place. Claims are of every type, with values inside the
entry, behind it and empty.

An audit context is put together from up to three pieces (`MaxPieces`) of up to five
values, or encoded from up to two fields (`MaxFields`); lengths count letters, and
the limits are 16 (4096 in the code) and a depth of 3 (31), so that a long payload, a
long kind and one level too many are met. Each argument of a request is in turn NULL,
empty, given without its pointer, and one longer than `U32_MAX` = 40 (2^32 - 1). A message
carries up to `ScmMaxFd` = 3 descriptors (253), and callers have room for none to four and
try to send four, so that the clamp of the buffer, the refusal to send and both ways of
losing a descriptor (cut by the kernel, closed by the walk) happen.

Descriptors have one ACE of each of the shapes the grammar tells apart, two ACEs, and
NULL, empty and absent lists; conditions nest two deep; bytecode is every program of up
to four chunks (`MaxChunks`), among them integers with odd sign and base bytes and SIDs
with bytes behind them; strings have single and paired parentheses and quotation marks;
texts of up to `MaxEditLen` = 13 tokens also occur with
one token left out or doubled, or a section of another letter. `U16Max` = 127 lets an
ACL be too large, `IntMax` = 7 bounds signed integers, `U8Max` = 3 revisions and counts
of sub-authorities, `U48Max` = 31 and `U64Max` = 127 the authority as it is stored and as
it is parsed, `U32Max` = 20000 sub-authorities; there are SIDs past each of them. A text
has at most `MAX_SDDL_TEXT` = 44 tokens (65536 bytes). The tree is a container in a
container in the root with an object at the bottom: enough for an ACE that passes,
stops, takes effect below only, and passes once. Every set of inheritance flags is on
the root; inner descriptors protect, inherit from somebody else, have NULL lists or a
missing owner; one edit (`MaxChanges`) happens before, during or after a walk; `MaxAcl`
= 30 words lets a child's list overflow.

### Fairness

The reader's thread and the consumer's thread keep running, the application keeps
calling next() (event.h: "Just loop next()/wait()"), and attaching and mapping do
not fail for ever (strong fairness on `Attach` and `MapRing`: without it a caller that
always gets an error proves nothing). In EventWait an emit once begun goes on, store
buffers drain, and a timer that is set fires. The kernel need never publish anything,
and signals are not relied on. The other modules state safety only: their calls return
without waiting for anybody.

## Proofs

EventReaderProofs proves, for all capacities, sizes and bounds: `TypeCorrect`,
`NoTornEvent`, `AlwaysAtEvent`, `ExactLoss`, `BalancedHandles`, `EinvalIsReal` and
`ReaderIsStream` (the refinement). Assumptions: only those named in KmesRing (an event
fits in every ring, capacities are positive).

None of these is inductive. `IInv` adds:

* `RingInv`, `LogInv`, `StoreInv`: events lie one after another in sequence order, the
  tail is at an event, and the header of every surviving event is in place. This needs
  that an emit reserves before it overwrites, and that two positions less than a
  capacity apart have different offsets (`ModApart`).
* `PlaceInv`: an open reader stands on an event of an existing ring.
* `GuardInv`: what the parse saw is the event at `read_pos` unless the tail has passed
  it. With the guard's re-check of the tail this gives `NeverTorn`, and at a failed
  parse it gives `CorruptIsReal`.
* `AttachInv`, `HandleInv`: the ring being attached is newer than the reader's, and the
  descriptors held are exactly these two.
* `AheadInv`, `CountInv`: everything still to be read was stamped after what was
  delivered, so a gap in the numbers is a loss.

EventWaitProofs proves `TypeCorrect`, `SleeperIsArmed` and `DrainerIsDisarmed`. The
strengthening follows the flag through the store buffer: the last store issued, in
the buffer or in memory, is what the thread's place in wait() says.

EventPolicyProofs proves `HandleTyped`, `CacheIsRegistry`, `WatchedDecidesByRegistry` and
`SettledDecidesByRegistry`, for every set of types and environments, every number of
changes, every cache limit and retry time (`RegistryAssumption`, `PolicyAssumption`: the
two numbers of the code are positive). The properties speak of a handle at rest or of a
call that returns, while any number of changes can fall between two of its registry
calls. `IInv` adds what holds in the middle: `Watching` (the watched key is the Events
key there is, or its end is recorded); `Coherent` (where the watch would have told, or
nothing changed since establish() began, the cache holds the deepest settings, and so does
a walk for the part of the path it has gone: `Exact`, or for a doubted type `Sighted`, a
setting of a key it has passed); `NewsRead` (a decision made while nothing
changes has read what the watch recorded); `Noticed`, `Settled`, `Clocks`, `Serving` and
`Informed` (why a handle that watches an ancestor or nothing starts, one retry time after
the last change, from what is there); `Environment` (what may not change does not).

MsgpackProofs proves `ValidateDecidesGrammar`, `SkipFindsEnd`, `PayloadIsComplete` and
`PayloadIsConsumed`, for every buffer, count, depth and ceiling. validate (a stack), skip
(a counter) and the grammar (recursive descent) are three recursive functions of a place
in the buffer; that they agree goes by induction from the end of the buffer to its start.
For the writer and the draining caller the invariant says that, without a latched error,
the buffer is the values written, and that what the reader still expects is what the
grammar finds from its place on.

AuditContextProofs proves `ContextsAreExact` and `ChecksAreExact`, for every name, field,
piece and request, and every limit on length, depth and the width of a length
(`AuditAssumption` types the constants). The validator's walk and the encoder's pieces are
compared with the grammar by the inductions of MsgpackProofs: a walk of n entries is where
the grammar says the n-th ends, and a context written field by field has one value for
each. `AuditInv` says that the context is a buffer of values, and what the last check says
of the request it was given.

SocketMessageProofs proves `NoDescriptorLeaks`, `MissingIsFlagged` and `DeliveredInOrder`,
for every `ScmMaxFd`, capacity and number of messages. `NoDescriptorLeaks` assumes a socket
that does not ask for a pidfd: with one the property is false (finding 5). `IInv` says
which descriptors wait in the control buffer in the middle of the walk, that they follow
those handed out, and that every open descriptor is the caller's or waits.

PropagationProofs proves `StripFirstIsNothing`, `VisitKeepsExplicit` and `OnePassSettles`,
for every tree whose order puts parents first, all descriptors and edits over any SIDs and
rights, and every size limit (`PropagationAssumption` types these constants). The operators
come first: what is passed down is marked inherited, so filtering out inherited ACEs takes
exactly that away again, doing a list twice is doing it once, and no list is written that
its size field cannot say. `OnePassEnough`, which
says that after an undisturbed walk another visit changes nothing, needs `WalkInv`: the
objects still to visit are the end of the order, and those before it are as a visit would
leave them. A parent is not visited after its children, so they stay so.

BuildersProofs proves `FirstErrorSticks` and `WhatIsGiven`. `BuildInv` relates each
builder's struct to the history of the calls since the last reset while no error is
latched: fields are equal, the bodies that grow by appending are the concatenation of the
entries asked for, counts are their lengths. After an error nothing is claimed of the
struct, which may hold part of an entry, but nothing is given out either. `GivenAsAsked`
is then exact about the ACL's bytes, sizes uncut; the descriptor is rendered from the
fields asked for and parses; each section of a token spec is its entries.
`AclBuilderAssumption` and `TokenBuilderAssumption` type the arguments (numbers and byte
strings; a claim's encoding is a byte string).

Induction over data. The library's induction theorems take an operator the provers cannot
instantiate, so the modules derive induction over a *set* of numbers from the
well-foundedness of < (`LeastNumber`, `Induction`), and show for each recursive function
that it exists and that whatever satisfies its equation is equal to it (`FlatExists`,
`ConcatBy` and their like). Functions of several arguments are nested functions of one in
Msgpack for that reason.

Only model-checked:

* the liveness properties `NextReturns`, `Drains`, `StaleReaderMoves`, `WaitReturns`,
  `AllRead`: fairness is not in the prover's reach;
* `MeaningKept`, `DecodeExact`, `Settled`: the grammar of SDDL is in RECURSIVE operators,
  which the prover does not take;
* `WrittenExact`, `ReadersAgree`: a case analysis over lead bytes and widths in which
  nothing is left to a constant but the bytes behind a header;
* `RenderedExact`, `SidArrayExact`, `RefusedForCause`: that the readers find again what
  `WhatIsGiven` says was written; reading bytes at offsets would take a theory of slices;
* `ReachExact`: it relates a list to the explicit ACEs of all ancestors.

## Findings

1. `reader_resize`, consume.rs:635. The generation is loaded from the page just
   mapped. A resize between the attach and that load is recorded as already seen, and
   the reader stays on the retired ring.
2. `wait_forever`, consume.rs:276. The counter is loaded after `write_pos` is
   re-checked. An event published, counted and signalled between the loads is missed
   by both. Loading the counter before the re-check would close it. With a timeout
   the loop recovers (`AllRead`).
3. `policy_missed`, policy.rs:384. Generic is found missing, appears, and Machine is
   watched: the creation of Events under Generic raises no record there.
4. `policy_denied`, policy.rs:396. The second open of Events fails with something other
   than ENOENT: the ancestor's watch is kept and no retry time is set.
5. `message_pidfd`, token/message.rs:202. Control messages of other kinds are passed
   over. On a socket with SO_PASSPIDFD one of them carries a descriptor, which is
   neither given to the caller nor closed.
6. `sddl_quoted`, grammar/cond.rs:491. Parentheses inside string literals count when the
   outer pair is looked for, so a condition that starts and ends with a parenthesis may
   lose two that are no pair and be refused, and is accepted inside another pair.
7. `audit_long`, access.rs:494. Without fields the encoder returns before it checks the
   length, and a long kind gives a context the kernel refuses.

Read but not made into runs, because a comment rather than behaviour is at stake:
grammar/mod.rs:121 says a payload on a type that takes none is refused, which is done for
plain object ACEs only; grammar/mod.rs:1089 writes stray ACE flags as a number "to keep
round-trip fidelity", which the parser does not read; grammar/cond.rs:84 calls decode the
inverse of encode, but it accepts padding, sign and base bytes and bytes behind a SID that
encode does not write; the smallest 64-bit integer is written as a text that
grammar/mod.rs:1245 refuses; inherit.rs:82 says a malformed ACE is skipped, where all
that follows it is dropped as well;
token.h:237 says the bytes stay valid until reset or free, while a setter followed by
another rendering also replaces them; event.h:64 says `emitted_out` is set when
`peios_event_emit_batch` fails, and it is not when the arguments are refused locally.

## What is assumed of the kernel

Nothing under `src/` says these; they are how the code uses it. A new ring starts
empty. A resize changes the generation word of the old page and no other. The
producer bumps the futex counter for every event after publishing it, and then wakes
if `need_wake` is set; finding 2 does not depend on the order. A watch has a record
for every change under it from the moment it is armed. Arming a watch on a deleted
key fails, and so do reads and relative opens through one. A change of a security
descriptor raises no record. recvmsg installs as many descriptors as the rest of the
control buffer has whole places for, and sets MSG_CTRUNC if that is not all of them. A
second token in a message is against the kernel's contract (message.rs:183), but the
code provides for it and so does the model.

## Not modelled

Left out of the modelled parts: the payload and the pointers given to the caller,
which event.h says may be overwritten after delivery; several readers sharing one
ring's `need_wake`; whether the kernel wakes the sleepers of a retired ring, on which a
consumer whose ring is resized while it sleeps without a timeout depends (consume.rs:799);
losses before the first delivery, which `last_seq == 0` cannot count; the byte layout of
watch records; failure of the clock; raw bytes that only together with a later write make
a MessagePack value; the overflow of skip's 64-bit counter, which takes 2^31 container
headers in one buffer; in SDDL everything below tokens (letter case, white space, the
digits of a number); the byte layout of control messages; the display names of rights and ACE types; calls that fail before they change anything.

Not modelled at all: `event/emit.rs`, `token/{ops,query,actions,sessions}.rs`,
`registry/*.rs` but for the watches, `file.rs`, `kfile.rs`, `process.rs`,
`security/{sid,mapping}.rs`. Each call there checks its arguments, marshals them, makes
one system call and passes the answer on; no state is kept from one call to the next. What
two calls mean together (a compare-and-set at registry/value.rs:191, a commit that is
repeated, an enumeration while values come and go, a size probe and the read after it)
is decided by the kernel, whose source is not here: a model would restate one guess about
it and check that guess against itself.

What remains worth proving: `RenderedExact` from `WhatIsGiven`.

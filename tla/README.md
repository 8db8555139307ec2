# vlmcsd-rs in TLA+

TLA+ models of the KMS server `vlmcsd`, its C library `libvlmcsd` and its client
`vlmcs`, with TLC configurations that check them on small instances and TLAPS proofs
of the properties that matter most. Line numbers refer to the repository; `PROJECT.json`
lists, for every definition that models code, the lines it stands for.

    tlc -config RpcSession_service.cfg MCRpcSession.tla     # one run
    tlapm RpcSession_proofs.tla                             # one proof module

## 1. The system

| component | source | state | operations | modelled by |
|---|---|---|---|---|
| RPC session | `vlmcsd-rpc` `lib.rs`, `bind.rs`, `header.rs` | per connection: `ndr_ctx`, `ndr64_ctx`, position in the PDU loop | read header, read payload, bind / alter-context, request, write reply | `RpcBind`, `RpcSession`; promise in `RpcService` |
| TCP server | `vlmcsd-network` `lib.rs` | listener, handler threads, shutdown flag | accept loop, one thread per connection, timeouts | `NetworkServer` |
| daemon | `vlmcsd-server` `main.rs` | PID file, signal mask, signal thread, shutdown flag | daemonize, write / remove PID file, wait for signals, bind, serve, exit | `ServerProcess` (and `NetworkServer` for the signal thread and the exit) |
| C library | `vlmcsd-ffi` `lib.rs` | `SERVER_HANDLE`, `ERROR_MSG`, detached background threads | start, stop, process request, get error message, pure queries, free | `FfiLibrary` |
| client | `vlmcsd-client` `main.rs`, `rpc_client.rs` | options, one stream, request number | parse options, choose a product, build the request, bind, send, read the answer, exit status | `KmsActivation` (options, request, answer), `KmsExchange` (the stream), `KmsV6` (encryption) |
| KMS protocol | `vlmcsd-protocol` | none | V4 and V5/V6 answers, counts, ePID, time slots | `KmsV6`, `KmsActivation`, `KmsEpid`, `KmsTime`; by outcome in `RpcSession!KmsResults` |
| cryptography | `vlmcsd-crypto` | SHA-256 block buffer | AES, CBC, CMAC, SHA-256, HMAC | CBC and padding in `KmsV6`, updates, padding and HMAC in `Sha256` |
| database | `vlmcsd-kmsdata` | constant after loading | parse, lookups | `KmsData`, `KmsEpid` |
| wire types | `vlmcsd-types` | none | byte layout, FILETIME | `KmsWire`, `KmsTime` |

How they interact. `main` of `vlmcsd` runs the accept loop in the main thread; every
accepted stream is moved into a handler thread that runs one RPC session and ends with
it. The shutdown flag is the only thing the main thread shares with the signal thread;
handlers share nothing with anybody except the process: when `main` returns they end
with it. The C library runs the same accept loop in a background thread, without a
flag. The client is the peer of one session. KMS protocol, cryptography and database
are called by the session, synchronously, and keep nothing.

What is hard in it, and is what the properties are about:

* the NDR64 context id, remembered across binds, decides how later requests are read;
* a header and its body arrive separately, and end of file, reset, timeout, a bad length
  or a full socket can come between any two steps;
* the shutdown flag is read before `accept` and set by another thread at any time;
  descriptors and threads run out; silent peers hold both;
* the PID file, the signal mask and the bind are three steps that signals, crashes and
  other instances interleave with;
* two statics behind separate mutexes are shared by the threads of the host program, and
  a raw pointer outlives the lock it was read under;
* client and server run the same cipher loops, in place, with the IV in different places, and
  the padding depends on the length of the ePID;
* the client sends its requests on one stream and ties an answer to a request by its
  position only, and timeouts shift that position;
* a product becomes an ePID through four indices into four tables, with a silent default
  for each that is out of range; two lookups rely on an order of a table nothing checks;
* the layout of a request is written down twice, as two lists of offsets, and that of an
  answer twice more;
* a calendar loop, a 64-bit time in halves, the last block of a hash and the end of a table
  each hang on one comparison.

`PROJECT.json` lists these one by one under "hazards", with their lines.

## 2. The modules

### RpcBind: context negotiation

The pure part of `handle_bind` and the syntax decision of `handle_request`. An offered
item keeps what the code compares: context id, "is it the KMS interface", transfer syntax.
`HasNdr64` is the first loop, `AcceptedNdr32`/`AcceptedNdr64` the conditions of the second,
`LastOf` its assignments (the last accepted item wins, none leaves the variable),
`DecodedAs` the comparison with `ndr64_ctx`. `RPC_INVALID_CTX` is 65535, a value a peer may
choose: accepted under NDR64 it is still read as NDR32, as in the code.

### RpcService: what a connection promises

Packets are taken one at a time; while the connection is open each is answered once, in
order, with the acknowledgement type of its type and its own call id; a closed connection
is silent. `RpcSession!ServiceSpec` is this specification under a refinement mapping.

### RpcSession: one connection

| action | code |
|---|---|
| `ReadHeader` | `RpcHeader::read_from` and the match on its error: end of file is `Ok`, also inside a header |
| `ReadPayload` | `frag_length - 16`, `read_exact`; a length below 16 panics in both builds (underflow, or an allocation that cannot be made) |
| `HandleBind` | `handle_bind` as a whole: length checks, negotiation, acknowledgement |
| `HandleRequest` | `handle_request` as a whole: length checks, NDR decision, version dispatch, KMS result |
| `HandleOther` | the `_ => return Ok(())` arm |
| `WriteReply` | header and payload in one `write_all`, which blocks on a full socket |
| `Timeout` | the read and write timeouts that `handle_client` sets; with 0 seconds the call that sets them fails, the failure is ignored, and none is in force |
| `Peer...` | the other end: sends headers and bodies, reads, closes, resets |

The peer chooses freely what to send except that it encodes a request as the last
acknowledgement it has read says, as a DCE client does. A KMS body keeps its version,
whether it is long enough, and whether a number computed from it leaves its width (`wide`:
`n_policy * 2` in 32 bits, protocol lib.rs:23, or in version 6 the time slot in 64, v6.rs:161),
which a debug build panics on. A body read at the other syntax's offset is `MisreadResults`:
which version the bytes there can show follows from the two layouts. `consumed` and
`replies` are history variables.

### NetworkServer: accept loop, handlers, shutdown

`CheckFlag`, `Accept`, `WouldBlock`, `Wake`, `AcceptError` are the paths through one round of
the loop, `SpawnPanic` the panic of `thread::spawn`, `ProcessExit` the return of `main`, which
takes every handler with it. A connection is `queued` (completed by the system, not
accepted), `reading` or `working`; `ReadRequest`, `Finish`, `HangUp` are RpcSession seen from
outside. `accept` without a free descriptor fails at once, whether or not a connection
waits, and a thread's end and the release of its descriptor are one step. `watched` says
whether a shutdown flag was passed in: `vlmcsd` does, the C library does not (then the
listener blocks and nobody signals). Every run covers both, since `Init` leaves it open. The
system may refuse a thread at any `accept`: in `vlmcsd` the panic ends the process, in the
library only the accept loop, and the handlers go on.

### ServerProcess: from the command line to the exit status

`main` in the order of its statements, for several starts of the program that share the
PID file and the port: `Start`, `Fork` (twice), `OpenPid`, `WritePid`, `InstallHandlers`, `Bind`,
`StopServing`, `Cleanup`, and `SigWait` for the signal thread. The PID file is written in two
steps, since `fs::write` empties it first: another instance may remove it between them, and what
is written then is seen by nobody (`opened`). `Bind` may fail for any reason. The operator's `Kill` goes to
the process the file names; `Crash` is SIGKILL, a power cut or a panic. A process id is the
instance and the number of forks it went through; the reuse of process ids is left out.
Three settings are variables that `Init` leaves open and no step changes: `solo` (instances
never overlap, as under a supervisor), `daemon` (`-D`) and `writable` (the PID file can be
opened and written; otherwise either may fail), so one run covers the eight combinations.

### FfiLibrary: the C interface

A call is two steps, as in the code: `Call` is `clear_error` (which takes and releases the
error mutex), the operation itself holds the handle mutex to its end. Another thread may
run between the two. A `CString` is a number: every replacement of `ERROR_MSG` makes a new one
and frees the old one; pointer 0 is none. `live` is the set of the host's threads that call
the library, left open by `Init`: some properties are promised to a host with one such thread
only. `BindServer` is the background thread's `TcpListener::bind`.

### KmsExchange: a run of the client

One bind and `n` requests on one stream against a server that answers in order and may
close at any time; with `OtherServer` it may also refuse or fault. Of a header the client
checks the packet type: the bind takes an acknowledgement only, a request an answer or a
refusal (`Responses`). Which request an answer belongs to is known to the model and not to
the client: every request has call id 2 and nothing is compared. `in_step` is the model's as well: it
tells whether the stream was ever left inside an answer, and after that what the client reads
is arbitrary (`ReadGarbage`). No property has it in its statement: what the client prints up to
its first failure is right (`OwnUntilFailure`), after a failure only the order is
(`AnswersInOrder`), and after a stream left inside an answer not even that is more than garbage.
The few hundred bytes of a request are taken to fit the socket's buffer.

### KmsV6: one V5 or V6 activation

Request, answer and the four runs of the CBC loops between them, one block per step, since
they work in place and the order of the blocks is the point. `EncryptBlock` and `DecryptBlock` are
`aes_encrypt_cbc` and `aes_decrypt_cbc`, `Chained` the two XORs of each. Each message is built
in the step before its loop: `Init` (`create_request_v6`), `AnswerRequest`
(`create_response_v6` between its two loops); `SendRequest` puts the IV in front, `ReadAnswer`
is the end of `decrypt_response_v6` with `process_response` and `parse_and_display_response`.
The version in clear is the variable `v6`. Sizes, cipher, hash and MAC are constants; only
that decryption inverts encryption is assumed of the cipher. What the server answers is any
member of `Answers`. The messages arrive as they were sent: transport is RpcSession's, and so
is a message that is too short. `plain` is a history variable. `vlmcs` itself does not check
hashes or IVs; `AnswerVerifiable` says that a client that does finds them right.

### Sha256: updates, padding, HMAC

`ShortUpdate`, `FillBuffer`, `ProcessBlock`, `KeepTail` are the paths through
`Sha256Ctx::update`, one block per step; `Finish` is `finish`, `LastBlocks` the one or two
blocks it adds. `stage` walks through `sha256` and `sha256_hmac`: key, inner and outer
context. What the rounds make of a block is left open: the state of a context is the
bytes it has processed, and `Hash` is any function of them. `sha256` passes its data
in one update; `NextPiece` is a caller that divides it, which the type allows. `Padded` and
`Hmac` are the definitions of FIPS 180-4 and RFC 2104, written from the standards.

### KmsData, KmsTime, KmsWire, KmsEpid, KmsActivation: from two command lines to one line of output

`KmsData` is the parser and the lookups: a file is its size, its magic number, counts and
offsets, and the tables; `ParseResults` says whether `parse` may return a database or none, panic or
abort. A row is checked as in the code (`RowResult`), in a `usize` that wraps: the end of a row
that begins within 32 bytes of 2^64 passes the check, and the slice panics. A count becomes
the capacity of a vector, a negative one by its two's complement: past half of the address
space it panics (`CapacityOverflows`), below that an allocation of more than `SafeRows` rows may
be refused, which aborts. `KmsTime` is FILETIME in its two halves, with its width, and the time slot of the V6 MAC.

`KmsWire` is `wire.rs`: what a request and the end of an answer look like as bytes. Field lists
are data (`RequestFields`, `TailFields`), bytes have `Byte` values, and integers are two or
three of them wide, so that every carry between bytes happens. `Encode` writes the fields one
behind the other, `Decode` reads each at the sum of the sizes in front of it, `Units` and
`UnitsAt` do the same for UTF-16.

`KmsEpid` is the start of `vlmcsd`: `Load`, then for each CSVLK `Generate`
(`generate_random_epid`), `NextYear` and `FoundYear` (`unix_to_day_year`, one year per step) and
`NextCsvlk`. Numbers have the widths of the code: keys are `u32` and their range is a difference that
goes round when it is reversed (`KeyRange`), the window of the time is one of `i64` (`HasWindow`,
`WindowSize`), days are an `i32`. `checked` is the build: with overflow checks the two differences
panic (`DrawPanics`), without them the daemon goes on with what is left. The clock may show a time
before 1970, where `duration_since(..).unwrap()` panics. The ePIDs generated there are logged and dropped; what is served is the one of the
database, and the model keeps the two apart as the code does. The rows are taken to be of
the types of the file format (`DatabaseAssumption`) and the builds sorted newest first
(`NewestFirst`), as in the embedded file; what the lookups do on another order is not claimed.

`KmsActivation` adds the client: `ParseArg` is one round of the loop of `parse_args`,
`BuildRequest` is `resolve_product` and `build_request`, `SendRequest` and `Answer` the byte
layouts (`RequestToBytes`, `RequestFromBytes`, `ResponseToWire`) and `create_response_base`, `Show`
what `parse_and_display_response` reads of the answer. `Connect` and the transport of messages are
KmsExchange's, the encryption KmsV6's: here a message arrives as it was sent. Left out:
the port that is appended to the host, the locale of an ePID, verbose printing. The guards of
`Answer` and `Show` are the length checks of the code; that the run never deadlocks in front
of them shows that the messages of this client and server always pass.

Its assumptions are what the types of the code and the embedded database say, and TLC evaluates
them on the instance of the run. `WidthAssumption`: the 32-bit integers of a message are the
halves of a FILETIME. `FieldAssumption`: constants and clocks fit the fields they are put into.
`ArgumentAssumption`: an argument is a string of UTF-16 units, and an option begins with `-`.
`RowAssumption`: rows have the types of `VlmcsdItem` and `CsvlkData`; versions and policies are
bytes there, so that twice a policy is no overflow. `ReferenceAssumption`: a product's KMS item and an
item's CSVLK are in their tables and no two KMS items share a GUID. The last one is about
data and not about types: it holds for the embedded `vlmcsd.kmd` (29 KMS items, all GUIDs different, all
indices in range, no ePID with a NUL in it), and nothing in the code checks it.

## 3. The runs

| run | instance | shows |
|---|---|---|
| session_lockstep | 4 PDUs, 3 offers, one id for NDR64 | `DecodeAgrees`, `NoGarbledReply`: a client that reserves an id for NDR64 and waits for each answer is decoded as it was told |
| session_service | 2 PDUs in flight on a socket for one reply; all lengths, bodies, resets, timeouts | `TypeOK`, `NoSilentDrop`, `AcceptsIfPossible`, that a session implements `RpcService`, and `SessionEnds`: the handler ends whatever the peer stops doing |
| session_reused_context | one id, offered under NDR64 and then NDR32 | finding: `DecodeAgrees` fails |
| server_signals | 3 clients, 2 descriptors, with and without a flag | `TypeOK`, `BacklogOnce`, `OneLateAccept`, `SignalEndsProcess`, `WaitingIsServed` |
| server_cuts_requests | 1 client | finding: `NoRequestCut` fails |
| process_instances | 3 starts, alone or overlapping, all settings | `TypeOK`, `NoStalePid`, `SolePidNamesServer`, `ServingIsGraceful`, `SignalEnds` |
| library_threads | 1 or 2 host threads, 2 ports, 4 calls | `StartsAndStopsAlternate`, `OwnErrorKept`, `SoleErrorPointerValid` |
| library_stop | 1 thread, 2 calls | finding: `StopStops` fails |
| exchange | up to 3 requests, timeouts, refusals, faults | `AnswersInOrder`, `OwnUntilFailure`, `HonestExit`, `ClientEnds` |
| v6_exchange | blocks of 2 bytes, bytes of 2 bits, 2 requests, 3 answers, 4 IVs, V5 and V6 | `BlocksRestored`, `RequestUnderstood`, `AnswerUnderstood`, `AnswerVerifiable` |
| digest | blocks of 4 bytes, a length field of 2, keys of 0 to 6 bytes, messages of 0 to 13 in every division | `NothingLost`, `PaddedAsStandard`, `DigestAsStandard` |
| activation | a database of 3 CSVLKs, 3 builds and 4 products, whole and in 19 other forms of its header, 9 small ones at the edges of their ranges; both builds; 4 clocks, 3 random numbers, 17 command lines | `TypeOK`, `CutFileRefused`, `DateIsCalendar`, `EpidPlausible`, `RequestArrives`, `CommandLineRead`, `ShownIsProduct`, `TimeArrives`, and `StartEnds` |

Why the bounds are enough. A session remembers one id per syntax between PDUs, so a
disagreement needs at most a bind, another bind and a request; four PDUs give one more.
Answers and PDUs are matched by position, so two in flight show any swap or loss, and two
unread answers overfill a one-reply socket. In the server, three clients on two descriptors
fill both, with one waiting, and any of them reconnecting. Of the daemon two instances show
an overlap, three a restart after a crash while another instance is alive.
In the library a conflict needs one call of each of two threads and the start they disagree
about. For the client one late answer shifts the second request, a second one the third.
In the V6 exchange messages of two to six blocks have a first, a middle and a last block;
the ePIDs of 0, 1 and 2 bytes give every padding, a whole block included; IVs and random
blocks take equal and different values.
In `digest` the block boundary, the last place a mark and a length fit and one byte more are
met by keys, messages and updates; the hash is two weak sums to which each byte and its
place contribute. In `activation` the files end in the header, in the first and the second table and one byte before
their end; tables begin at the last place where the end of a row does not wrap, at the first where it
does and at the last of all, and counts are on both sides of what fits the file, of `SafeRows` and
of what a vector can have; key ranges are reversed and empty; products are released when the clock
shows, a second later, before 1970, too late for a day to be an `i32`, and more than an `i64` ago. For
this the widths are scaled: 65536 values of `usize`, 42000 of an `i32`, 500000 of an `i64`, and days of 10
seconds. They keep what matters of the code's: an `i32` holds the days of the times a clock shows and
not those of every `i64` time, and a window may be larger than an `i64`. The ePIDs are shorter than, as long as and longer than the buffer of a PID; indices are
in and out of range; the clock shows a time before 1970, 1970 itself, and two after the releases of the large database, the
dates drawn reach from before 1970 to 2024 and lie on the first, the last and other days of leap years
and of others; and the
client's clock gives halves with and without a carry. Its command lines have each option alone,
repeated, as the value of another and without its value.
Where a theorem covers the property (section 5) the bound does not matter.

No run uses symmetry. No run switches deadlock checking off: the places where a system may
really stop have a stuttering action (`Finished`, `Exited`, `Quiet`, `HostDone`) whose guard
says when.

## 4. Fairness

Weak fairness is asked of what the operating system schedules, and of nothing else:
`WF(Handler)` for the handler thread and its timers, `WF(Main)` and `WF(SigWait)` for the
main thread (whose sleep of 100 ms ends) and the signal thread, the handlers of every
connection, the processes of ServerProcess, the client of KmsExchange and its timers.
Peers, clients, operators and the server the client talks to owe nothing. The liveness
runs therefore rest on the timeouts, and have `TimeoutSecs > 0`. Each group is one
disjunction under one WF since a thread is at one statement at a time; the timeout is
part of it as the other way a blocking call can end. `StartEnds` asks for the
main thread of the daemon, which waits for nobody while it starts.

## 5. What is proved

| theorem | assumption beyond the module's ASSUME | argument |
|---|---|---|
| `RpcSession_proofs!SessionType` | | `TypeOK` is inductive |
| `DecodingAgrees` | `DedicatedNdr64(c)`: offers name NDR64 for id `c` only, `c` for nothing else, and `c` is not 65535 | `MemoryInv` |
| `NothingDroppedSilently` | | `AnswerInv` |
| `ImplementsService` | | `AnswerInv`; every step is a step or a stutter of `RpcService` |
| `WhatCanBeIsAccepted` | `Ndr64IsOurs`: no offer names NDR64 for another interface | `AcceptInv` with `AnswerInv`; proves `AcceptsIfPossible` |
| `WaitingClientIsUnderstood` | `DedicatedNdr64(c)` and `Window = 1` | `TalkInv` with `MemoryInv`; proves `NoGarbledReply` |
| `NetworkServer_proofs!ServerType` | | inductive |
| `BacklogAgrees` | | `BacklogOnce` is inductive with `TypeOK` |
| `AtMostOneLateAccept` | | `LateInv` |
| `ServerProcess_proofs!ProcessType` | | inductive |
| `NoPidLeftBehind` | | `FileInv` |
| `PidFileNamesServer` | | `AloneInv`; proves `SolePidNamesServer` |
| `ServerStopsGracefully` | | `MaskInv`; proves `ServingIsGraceful` |
| `FfiLibrary_proofs!Alternation` | | `CountInv` |
| `SoleHostReadsItsError` | | `ErrorInv`; proves `OwnErrorKept` |
| `SoleHostPointerValid` | | `ErrorInv`; proves `SoleErrorPointerValid` |
| `TypesHold` | | inductive |
| `KmsExchange_proofs!ExchangeType` | | inductive; every request that is done has left one result |
| `AnswersComeInOrder` | | `AnswersInOrder` is inductive with `WireInv` |
| `AnswersAreOwn` | | `OwnUntilFailure` is inductive with `WireInv` and `LostByFailure` |
| `ExitIsHonest` | | `Sole` with both; proves `HonestExit` |
| `KmsV6_proofs!CbcRestores` | `HmacIsABlock`: the MAC of a sequence of bytes is a block | `ChainInv` |
| `ServerReadsRequest` | `HmacIsABlock` | `ReadInv`, `RecoveredRequest` |
| `V6Type`, `ClientReadsAnswer`, `AnswerCanBeVerified` | `HmacIsABlock` | `AnswerInv`, `MessageReads`; prove `TypeOK`, `AnswerUnderstood`, `AnswerVerifiable` |
| `Sha256_proofs!TypeCorrect` | `HashFits`: a digest is a sequence of bytes no longer than a block | `StreamInv` |
| `UpdatesLoseNothing` | `HashFits` | `StreamInv`; proves `NothingLost` |
| `PaddingIsStandard`, `DigestIsStandard` | `HashFits` | `StageInv`, `FinishedIsPadded` |
| `KmsActivation_proofs!DatesAreRight` | | `StartInv`, `YearAdds` |
| `EpidsArePlausible` | | `StartInv`, `KeyDrawn`, `PanicExplained` |
| `CutFilesAreRefused` | | `RowIs`, `RowsAre`, `TableIs`, `ParseIs` |
| `SlotFits`, `UnixRoundTrip` | | arithmetic of `KmsTime`, for any width |
| `FieldRoundTrip`, `RequestRoundTrip`, `ResponseRoundTrip` | | `Flattened`, `EncodedAt`, `DecodeAt`: what `Encode` writes stands where `Decode` reads, for any list of fields with different names |
| `ActivationTypes` | `MacIsBytes`: a MAC is a sequence of bytes | `StartInv` and `ClientInv`; proves `TypeOK` |
| `RequestsArrive` | `MacIsBytes` | `ClientInv`, `RequestRoundTrip`; proves `RequestArrives` |
| `CommandLinesAreRead` | `MacIsBytes` | `ClientInv` (`ReadSoFar`), `Owned`, `NextOwn`; proves `CommandLineRead` |
| `ProductsAreShown` | `MacIsBytes` | `ClientInv`, `ResponseOf`, `PidRead`, `ResponseRoundTrip`; proves `ShownIsProduct` |
| `TimesArrive` | `MacIsBytes` | `ClientInv`, `UnixRoundTrip`, `SlotFits`; proves `TimeArrives` |
| `SlotOfTheCode` | | the same with the numbers of `v6.rs`: no overflow before the year 30828 |

The inductive invariants. `MemoryInv`: once an acknowledgement has accepted `c` under NDR64,
`ndr64_ctx` is `c`, and until then it is unset; `DecodeAgrees` alone says nothing of the
moments between two requests. `AnswerInv`: outside `dispatch` and `write` there are as many
replies as PDUs consumed, inside them one fewer, and the PDU in hand is the last
one consumed; this is also what the refinement needs. `AcceptInv` pairs each reply, the one being
written included, with the PDU it answers. `TalkInv`: with one PDU at a time nothing of it is on
its way once it is dispatched (`OneAtATime`), so that the handler's memory cannot change under a request
that has been encoded (`Matched`), and what it remembers the peer has been told or is being told
(`Known`). `LateInv`: a late connection exists
only when the flag is set and the loop stands where it will read it. `FileInv`: an instance
that has not written the file yet, or has left through `Cleanup`, is not in it under any of
its process ids. `AloneInv`: at most one instance is alive, and from the
writing of the file to the end of serving the file names it; between its opening and its writing nobody
has removed it. `MaskInv`: the signals are blocked
from the bind on. `CountInv` adds the types of
the counters to the property. `ErrorInv`: a thread inside a call holds no pointer and owes no
message, and a thread that does not use the library never holds one; every step is an
instance of one lemma, `ErrorStep`. `ChainInv`: up to `offset` the buffer holds cipher, each block
chained to the cipher before it, above `offset` plain text; encryption and decryption go through
the same states in opposite directions, and the IV in front of a request is such a block too:
the cipher of its own decryption. `ReadInv` adds that what is encrypted on the way to the server
is the padded request, and `RecoveredRequest` that the server cuts it out at the right
place, which is arithmetic of indices (`NextBlock`, `ChunkIndex`, `PadFacts`). `AnswerInv` says the
same of the way back: what is encrypted is the padded plain text of an answer to this request;
`PadUnpad` that the client takes the padding off again, and `MessageReads` that what a client
parses and verifies stands where it looks for it, whatever is behind it and however long the
ePID is (`SealedParts`, `HmacParts`, `ParsedAnswer`).

`WireInv`: as long as the client has not left the stream inside an answer, the chunks on it
and the requests the server has still to answer are in the order of the requests (`Ordered`), none
of them belongs to a request that has a result or to one not sent (`Within`, `Used`), the
stream stands at a header exactly when the client waits for one (`Position`), and a body in hand belongs to
its header (`InHand`). `AnswersInOrder` alone does not say what is still on its way. `LostByFailure`: a
stream is left inside an answer only by a request whose failure has been printed; and while
nothing has failed, order leaves an answer no place but that of its request. `Sole`: with one request every failure leads to
exit status 1. `StreamInv` adds to `NothingLost` what holds between the blocks of
one update; `StageInv` says for each of the contexts of `sha256` and `sha256_hmac` what it is being
given, and `FinishedIsPadded` that the one or two last blocks are the standard's padding.
`StartInv`: days left and days before the year in hand add up to the day drawn, with `YearAdds`
for the step from one year to the next, and what has been drawn is plausible from the draw on:
`KeyDrawn` follows a key through the two operations modulo 2^32, `TimeDrawn` a time through the remainder of a
window that may have wrapped, and `PanicExplained` gives for every panic of a draw its reason in the
database, the clock or the build. Of the parser nothing is inductive: `CutAt` finds the first row of
a table that ends past the file, and with it `RowsAre` says what the loop over the rows returns, for
any number of them; `TableIs` and `ParseIs` put the count and the five tables around it.

`ClientInv` follows one activation from the command line to the line printed; each of the five
properties above looks at one moment of it and says nothing of the moments between.
`ReadSoFar`: inside the loop the next argument speaks for itself (it is no option's
value), and the configuration is what the arguments in front of it mean; `NextOwn` says that
this goes on with two arguments after an option that takes a value and with one after any
other, `FlagRead`, `HostRead` and `ValueRead` that each round adds one argument's meaning.
`Built`: the request is the one for the product chosen at a time the clock showed. `Sent` and
`Answered`: what is under way is the bytes of that request, and of the answer to it, with or
without a MAC behind them (`Sealed`). The rest is about messages: `RequestRoundTrip` takes the request to
the server, `ResponseOf` follows the indices from its KMS item to the ePID, `PidRead` says that the
NUL put behind an ePID, when there is room for it, is what the client ends it at, and when there
is none the client takes the whole buffer, and `ResponseRoundTrip` takes the answer back.

Several of these definitions are recursive functions or folds over lists: the value of bytes, the
places of fields, the flattening of parts, which arguments are values. Their proofs need that such
functions exist and what they compute. `Induction` is proved once from `WFMin`, for sets of
numbers and not for predicates, and `Recursion` from it: for every base and every sequence of
steps there is a function that goes through them, so that the `CHOOSE` behind a recursive
definition denotes it. Each recursive definition is then an instance with a step of its own
(`Powers`, `Sums`, `Sizes`, `Flattens`, `Owned`).

`DecodingAgrees` is proved under `DedicatedNdr64` because it is false without: that is what
session_reused_context shows, `WhatCanBeIsAccepted` under `Ndr64IsOurs` for the same reason
(section 6), and `WaitingClientIsUnderstood` for clients that wait, since a request sent before an
acknowledgement is read may be encoded as the last one said. `SolePidNamesServer`, `OwnErrorKept` and `SoleErrorPointerValid` state
their condition (one instance at a time, one calling thread) themselves, because
without it a second instance and a second thread's call (section 6) break them. The type
invariants of FfiLibrary, KmsExchange, KmsV6 and Sha256 are proved and have no run.

Every safety invariant and action property that a passing run checks is stated by a theorem. Only
model-checked: the liveness properties `SessionEnds`, `SignalEndsProcess`, `WaitingIsServed`,
`SignalEnds`, `ClientEnds` and `StartEnds`, since fairness is stated with ENABLED, which is out of
the prover's reach.

## 6. Disagreements with the documentation

Each has a run that shows it; PROJECT.json quotes the lines.

1. A context id accepted under NDR64 and again under NDR32 goes on being read as NDR64.
2. Shutdown is not graceful for requests being handled: handlers are not joined.
3. `vlmcsd_stop_server` does not stop the server.

Seen while modelling and left without a run of its own:

* NDR64 offered for another interface than KMS's makes the server reject its own interface
  under NDR32 (bind.rs:50-55 looks at the syntax only, bind.rs:96 at both). With such an
  offer among the constants `AcceptsIfPossible` fails.
* A second start with the same options empties and overwrites the PID file of the serving daemon
  (main.rs:83) and removes it when its bind fails (main.rs:97): `PidNamesServer`, the form of
  `SolePidNamesServer` without its condition, fails with two starts.
* `parse` returns an `Option`, and still not every defective database is refused by it. A cut
  header panics (the check asks for 16 bytes, kmsdata lib.rs:68, and 64 are read); so do a table that begins
  within 32 bytes of 2^64 (lib.rs:120 and 223: `off + item_size` wraps, passes the check, and the slice
  does not exist) and a count whose vector cannot be (a negative one is such a count,
  lib.rs:117 and 220). A count that is large and possible may abort the process in the same
  `with_capacity`. `CutFileRefused` says that it is these and no others. The build embeds a whole file.
* An ePID is drawn from a range of keys by an unsigned difference (epid.rs:26-27). An empty range
  panics in every build. A reversed one panics in a debug build; a release build takes the
  difference modulo 2^32 and draws a key from what lies outside the two ends. `EpidPlausible` says so
  (`KeyInRange`), and that there is such a line only in a build without checks. The embedded file has
  no such range.
* A release date more than an `i64` before the clock makes the window wrap: a panic in a debug build, a
  smaller window in a release build (`WindowSize`). A time beyond the year 5.8 million has a day that is
  cut to an `i32` (epid.rs:70), and one before 1970 a day of the year that has gone round:
  `DateIsCalendar` leaves both out. A clock before 1970 panics (main.rs:60-63, epid.rs:38-41).
* `vlmcs -l 0` means the first product, and `-4 -6` the last version while `a b` is the first host:
  `Meant` in KmsActivation says so.
* The pointer returned by `vlmcsd_get_error_message` is freed by the next call of any thread, a
  background thread's included: TLC refutes `ErrorPointerValid`, the form of
  `SoleErrorPointerValid` without its condition, in three calls of two threads.
* Between the PID file and the signal mask SIGTERM kills the process by default action and
  leaves the file (`Kill` while `~blocked[p]`); `ServingIsGraceful` therefore begins at the bind.
* `vlmcsd_start_server` returns 0 before its thread binds, and after a stop it returns 0 for
  a thread that cannot bind, since the first one still listens (`BindServer`).
* After a read timeout `vlmcs -n` reports the late answer of one request as the success of the
  next: `AnswersInOrder` promises no more than that answers stay in order, `OwnUntilFailure` that there is
  no such success before the first failure, and the exit status reports failures for `-n 1` only.

## 7. Not modelled

* AES rounds, key schedule and tables, SHA-256 rounds and tables, CMAC: constant data flow with no
  state between calls, pinned by the test vectors in the sources. The loops and paddings
  around them are modelled; KmsV6, KmsActivation and Sha256 hold for any such functions.
* The text forms of GUIDs, ePIDs and times, usage texts, the list of products, verbose output,
  and the option parser of the server: they change no state any property speaks of.
* The locale of an ePID and the port that is appended to a host name.
* The random number generator: what it returns is left open.
* Targets with 32-bit `usize`, where `num_ctx_items * 44` may wrap (bind.rs:46) and offsets of a
  database are cut.
* Windows: the daemon and signal code is Unix only.

## 8. Plan

Done: `RpcBind`, `RpcService`, `RpcSession` with its proofs (the core); `NetworkServer`,
`ServerProcess`, `FfiLibrary` with theirs; `KmsExchange` and `KmsV6` with theirs; `Sha256`; `KmsData`,
`KmsTime`, `KmsWire`, `KmsEpid` and `KmsActivation` with theirs.

Left, in order of value:

1. A refinement for `NetworkServer`: an abstract server that serves connections in order
   and stops once.
2. CMAC of V4 over an abstract cipher, whose last block is another case of a padded boundary.
3. The option parser of the server, in the manner of `ParseArg`.

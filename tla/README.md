# PR6 in TLA+

PR6 ("Protocol 6") is a remote method invocation protocol between peers that
share secrets: `modules/core` is the protocol in C, `modules/rcore` a Ruby
implementation of a whole node (gem *wrangle*) around that C code.  These modules
model the code, not the documents; `PROJECT.json` names the source lines of every
definition, the runs, the theorems, the findings and the hazards.

## 1. The system

| Component | State | Operations | Meets the others by |
|---|---|---|---|
| encoder/decoder (`pr6_encoder_decoder.c`) | none | GetVint, PutVint, SizeofVint, CastTag | calls |
| client (`pr6_client.c`) | `struct pr6_client`: state, list of invocations, flags, reqLen, counter | Init, AddMethod, Init_FromOutput, PeekOutputPoolSize, Output, OutputConfirm, Input, Timeout, Cancel, PeekCounter | callback with the results; its message goes to the peer, the counter of the transmission comes back |
| server (`pr6_server.c`) | `struct pr6_server`: state, position in the list, flags | ServerInput, ServerResume | callback per method, which may yield |
| peer (`pr6_peer.c`) | four function pointers | PeerOutput (counter, then encryption), PeerInput (decryption, then counter) | callbacks into the associations |
| association (`association.rb`, `association_record.rb`) | a database row: secret, invocation counter, window of remote counters | create, read, update, delete, outputCounter, inputCounter, encryptGCM, decryptGCM | called by the peer, and by the administrator of the node |
| Wrangle::Peer, ClientJob (`peer.rb`, `client_job.rb`) | jobs, preJobs, timeoutList, ids, two queues, three threads | request, input, output, start, stop; one handler per kind of item | queues |
| UDP node (`udp_node.rb`) | a socket | receive, send | the peer's queues |
| object dispatch (`pr6_server_object.c`, `object_class.rb`) | object list, methods, roles | search, role check, handler | callback of the server |
| EUI64, pairing (`eui64.rb`, `eui64_pair.rb`) | none | assocID of two addresses | key of the rows, index of the jobs |

What is hard: responses name their request by 16 bits of a counter, over a network
that loses, repeats and reorders; counters live in a database that is written
between decryption and use, and by an administrator; the server's callback may
yield, and its buffer may end anywhere; the job thread and the worker share no
state but talk through queues, so each acts on what the other knew some time ago;
timeouts come together with late answers.

What makes each part right:

- *codec*: what is put is got back; one encoding per value.
- *client*: an answer is taken by its own request and latest transmission, whole
  or not at all; results and invocations stay aligned.
- *server*: the response tells what the methods did, in order; never past the
  buffer; short only when full; nothing after an error if so asked; an end to every request.
- *peer and association*: one use of every initialisation vector; every datagram
  taken at most once; refused is refused for good; and what a re-creation of the record
  between two readings of it breaks, and nothing else.
- *client and server together*: whatever becomes of the datagrams, a transmission is
  carried out at most once and in order, and what a caller is shown is one whole answer
  to its own request, final when it is shown.
- *message wrapper*: a datagram is unpacked whole or not at all.
- *object dispatch*: both dispatchers give one verdict.
- *pairing*: different pairs of addresses, different identifiers.
- *Wrangle::Peer*: a waiting request can always be found by its answer; every
  notice of the worker finds its job; timeouts in order; no thread ends; every request ends.

## 2. Modules

| Module | Models | Checked by | Proved in |
|---|---|---|---|
| `PR6Codec` | the variable length integers, byte by byte | `MCPR6Server` | `AlgorithmsProofs` |
| `PeerWrapper` | lengths, header and recipient of a datagram, `packMessage`, `unpackMessage`, `recvfrom` | `MCPR6Server` | `AlgorithmsProofs` |
| `ObjectDispatch` | the two dispatchers of objects and methods | `MCPR6Server` | `AlgorithmsProofs` |
| `Algorithms` | no code: what the three above promise, over sets of inputs | `MCPR6Server` | `AlgorithmsProofs` |
| `EUI64Pair` | the identifier of two addresses, in floating point | itself (violation) | |
| `PR6ClientOps` | one client structure: each function as an operator on a record | through the three below | |
| `PR6Client` | client instances, the application, the peer and the servers that answer | `MCPR6Client` | `PR6ClientProofs` |
| `PR6Server` | one server instance, one action per iteration of its loop | `MCPR6Server` | `PR6ServerProofs` |
| `PR6Exchange` | the instances of `PR6Client` and the server of `PR6Server`, over datagrams | `MCPR6Exchange` | `PR6ExchangeProofs` |
| `RemoteInvocation` | the promise of client and server, abstractly | as a property of `PR6Exchange` | `RemoteInvocationProofs` |
| `AtMostOnce` | the promise of the counters, abstractly | as a property of `Association` | `AssociationProofs` |
| `Association` | rows, counters and windows; PR6_PeerOutput and PR6_PeerInput in two steps each; crashes; administration | `MCAssociation` | `AssociationProofs` |
| `WranglePeer` | the three threads, the queues, the jobs (clients of `PR6ClientOps`), over an association | `MCWranglePeer` | `WranglePeerProofs`, `WranglePeerSteadyProofs` |

`PR6Exchange` composes `PR6Client` and `PR6Server`; that a transmission is taken at most
once is what `Association` promises it.  `WranglePeer` composes the same clients with
threads, queues and clock.  Definitions called `X_...` after a definition `X` are faulty
variants of `X`: each shows that a property can fail.

### PR6Codec, PeerWrapper, ObjectDispatch, Algorithms, EUI64Pair

Algorithms without state.  `Algorithms` states what the first three promise of one `input`, out
of sets given by its constants (`Given`).  `MCPR6Server` checks them in one run with the server, which
calls the codec and the objects: an initial state has either the server at rest or an input, and
only the server takes steps.

`Encoded` and `GetVint` produce and read sequences of bytes.  A buffer longer than
what is read is a longer sequence; the return value 0 of the C functions is
`Nothing`, or the empty sequence.  `ReadsOn` is what the server relies on where it
passes a wrong, too large, length (`pr6_server.c:243`).

In `PeerWrapper` a datagram is its header, the payload length written in it, its tag and the
number of bytes there are.  Encryption is in `Association`: `PeerInput` is given what
decrypts and is let through.

`Found` is the binary search of the C module, `serverObjectInterface` with `invoke` the
hash of rcore.

`EUI64Pair` makes associations of any two addresses.  `Rounded` is the rounding of a Float to a
mantissa of `PRECISION` values (2^53 in the code, smaller in the run, where every product is exact).

### PR6ClientOps, PR6Client

A record stands for `struct pr6_client`; an invocation is a model value with the
length of its argument, a return value is left out.  `UNUSED` stands for memory no
init function has accepted.  `sent` numbers the transmissions (the full invocation
counter); a response carries `n % RES_MOD`.  Responses may come at any instance, at
any time, any number of times: `ClientInput(c, n)` is enabled for ever.  An
instance may be rebuilt from its message with or without a counter.

Environment: a structure is used for a new request only when complete or unused; an
instance has one message on its way to the confirmation; a transmission that someone
still waits for is less than `RES_MOD` transmissions old (`Fresh`).  The last one is
what 16 bits need; section 3 names a place where the code itself relies on more.

### PR6Server

Positions count methods, not bytes; a return value is a length.  `running` is the
time inside PR6_ServerInput or PR6_ServerResume.  `outcomes` and `firstCalls` are
history: what the methods did and how many were called for the first time.  Everything
that happens at the end of a buffer is in bytes, as in the code.

Environment: ServerResume is called with the buffer and length of the first call; no
empty message is given to a yielding server (it clears the response and leaves the
state); a method writes at most `adapter.outMax` bytes.

### PR6Exchange, RemoteInvocation

The state is that of the two modules, and `log`, which says of each transmission whether
the server took it and what it did for it.  `sent` of `PR6Client` is the network: the server
may take any transmission, in any order, each once (`AtMostOnce`), or never; what it leaves in its
buffer when it no longer yields becomes the `answer` of the transmission it works for (`Respond`), which
`ClientInput` may be given at any time and again.  One server serves all clients, as one structure
does in the code: a new request ends the one whose method yields.

`RemoteInvocation` knows attempts and what callers were shown, nothing of tags, counters,
buffers or states.  `Attempts` and `Shown` are the refinement mapping: an attempt is a
transmission with its log; it runs while the server works for it; a caller is shown what
is in the list of a complete instance.  An attempt that is sent again is another attempt
and is carried out as well: the code has no memory that would prevent it.

### Association, AtMostOnce

`record[k]` is the row of entity, local and remote address.  `gen` numbers the
creations of a row: every creation uses a new secret, the two ends in step.
`OutputCounter` and `InputCounter` are the two transactions; `Encrypt` and
`Decrypt` are what the peer does before and after; a crash loses what was between
them.  Whatever was encrypted may be decrypted at any time and any number of times.
Rows are created and deleted at any time, also between the two readings of a row for
one message: a counter taken from the old row then encrypts under the new secret
(`pr6_peer.c:224`, `:238`), and a datagram decrypted under the old secret is tested against the new,
empty window (`:142`, `:144`).  Nothing in the code prevents either, and both do harm: with
`reused = {}`, or with the datagrams of `late` included, `UniqueIV` and `AcceptedOnce` fail in
`Association_pair`.  `crossed` and `late` remember these datagrams; the properties say that no
others are concerned.

`Concurrent` says whether an older copy of a row is written back while messages are processed.
Where it is FALSE the administrator is taken not to: with TRUE in `Association_pair.cfg` `AcceptedOnce`
and `UniqueIV` fail, because `update` writes the counters of its copy back too.  Rows are
addressed by the addresses themselves; what the code uses instead is in `EUI64Pair`.

`Sendings` and `Takings` map the state to `AtMostOnce`: what was encrypted, what was
let through, and how often.

### WranglePeer

A step is one item a thread takes from its queue, with everything up to the next
item: only the job thread touches the jobs, only the worker packs and unpacks, so no
finer step is visible to the other.  The worker shares the database with the application, which
may delete and create the record between the readings for one item: `SendAcross`,
`ReceiveAcross` and `ReceiveRequestAcross` are an item with that in its middle.  What the job thread,
the clock or the network does meanwhile touches neither the record nor the head of the
worker's queue and commutes with it; a deletion alone, before the last reading, has the
outcome of a deletion before the item.

Jobs are named by their uuid, which is fresh.  A thread that raises is `"dead"`, its queue stays.
`outputQueue` collects the requests handed to the network.  `Input` brings the worker any datagram:
an answer to one of these requests, at any time and any number of times, packed under the record
it was asked under or a later one; a request of the remote peer; and what no association made
(`Strays`: no PR6 message at all, one that carries the addresses of the association, one whose addresses
have no record).  An answer is *unpacked* once per record (`Unpacks`): that is what
`Association` shows, and `ReceiveAcross` is the exception it leaves.  `crossed` becomes TRUE when a
re-creation fell between two readings, here or at the remote peer; then `AnswerIsOwn` no longer
holds, since a counter, or the window, is carried over to the new record.  `timeout = Nil` is Ruby's nil,
with the exception its comparison raises.  What does nothing in the code does nothing
here: the deletion by a wrong key in a tick, the deletion of `j` after a response, the
count of retries (never increased, hence no back-off either).

Bounds on the environment only: the length of the worker's queue when a datagram is
added, one waiting tick, one or two requests.  `stop` terminates the threads
between two items; in the middle of one is not modelled.

## 3. Runs

| Run | Bounds, and why they are enough |
|---|---|
| `PR6Client_answers` | one instance used for two requests, three transmissions under two residues of the counter, lists of one and two invocations, pools too small, answers complete, short, empty, too long and unreadable: the smallest instance in which an answer can meet another request, another transmission, or an invocation it is not for. Several instances are covered by the theorems |
| `PR6Exchange_pair` | one client with two requests, two transmissions under two residues, lists of one and two methods, a server buffer for no, one or more results, one yield, failures: a request overtakes a yielding one, a retransmission is carried out as well, a response is cut. More clients and transmissions are covered by the theorems |
| `Association_pair` | two ends created twice, windows 1 and 2 exchanged at run time, three counters: enough to push the oldest out and to reach the last; crashes, deletions and creations at every step |
| `PR6Server_requests` | up to three methods, every buffer length at which a branch changes (header, one result, the change of the length determinant at 127/128), two messages, two yields; fairness. With them: every buffer of up to four bytes over the bytes at which the encoding changes, payload lengths around both ends with bytes lost or added, every ascending list of up to six objects |
| `WranglePeer_jobs` | two requests, both periods, retries on and off, unreadable answers, malformed and forged datagrams, two counters: a retransmission, an answer to the earlier attempt and an exhausted counter |
| `WranglePeer_admin` | the same without a clock, with a second creation of the association, between or during the messages of either peer, one stop, requests without response, an incoming request, datagrams without a record; explored up to the first crossing (`NotCrossed`), after which its property says nothing |
| `WranglePeer_ends` | fairness; one request |

All of these pass.  Deadlock checking is off where it is bounded counters, or the end
of all requests, that stop the model.

Fairness. `PR6Server`: the loop goes on by itself (weak fairness), the application
resumes a server that says it yields, and a method does not yield for ever (strong
fairness of `Return`; the interface promises no less, or the loop could not end).
`WranglePeer`: a live thread whose queue has an item is scheduled, and the ticker
ticks.  No fairness of the network is assumed.

### Disagreements between code and text

Each is a run that TLC ends with a counterexample; `PROJECT.json` quotes the text.

| Run | What it shows |
|---|---|
| `EUI64_pair` | associations of {0,3} and {1,2} have one identifier |
| `Association_group` | counters of datagrams to a group are never saved |
| `WranglePeer_listed` | a second request with default options is not in the list of timeouts |
| `WranglePeer_finished` | a request that was answered stays in it, and gets TIMEOUT after its answer (or CANCEL, if it may retry) |
| `WranglePeer_unconfirmed` | a request without response ends the job thread at the next tick |

`WranglePeer_ends` holds with one request only: with two, `WranglePeer_listed` leaves
the second without a timeout.

The models follow the code in these points too, which have no run of their own:

- `PR6_ClientCancel` and `PR6_ClientTimeout` do not look for COMPLETE: a completed
  request can get new results and a second callback (`CanAbandon`, `GiveUp`).
- `reqLen` wraps at 16 bits (`LEN_MOD`); the runs keep arguments below that.
- `PR6_ClientPeekOutputPoolSize` increments its pointer, not the pool size: `FromOutput`
  takes any pool size.
- A server buffer that ends before the first result leaves a header, or nothing, and the
  client drops a header without results (`pr6_client.c:424`): it waits on, although
  `pr6_client.h:56` has the code MISSING for a result it was not given.  `AnswerIsTaken`
  speaks of answers with at least one result.
- The assertion of `PR05_ServerObjectInit` (`pr6_server_object.c:43`) demands the descending order;
  header and search need the ascending one (`Ascending`).
- An index given to `ObjectClass.m` is looked up among the methods of the class object,
  not among those defined (`object_class.rb:195`): used indices are taken, low ones refused.
  The definition of classes is not modelled.
- `EUI64.pair` rounds: beyond sums of about 2^26 its product does not fit a Float, so with real
  addresses even pairs with different sums may share an identifier, which with the entity is the key
  of the table.
- A datagram with the right form whose addresses have no record ends the worker: `decryptGCM` is
  called on nil (`association_record.rb:120`).  `NoThreadDies` is checked and proved without such
  datagrams, and fails with `"unknown"` in `Strays` of `WranglePeer_jobs.cfg`; the run
  `WranglePeer_admin` has them.
- A re-creation of a record between two readings of it carries a counter to the new secret, or lets
  a datagram in again (section 2, `Association`).
- Datagrams of 65536 bytes or more, which `packMessage` makes, are never unpacked
  (`ext_pr6_peer.c:94`), and the UDP node cuts those above 1200 (`udp_node.rb:46`).
- An address read from text keeps its spelling (`eui64.rb:75`): a row stored under one
  spelling is not found under another.
- A job that timed out stays among the jobs: it is deleted by a key of its uuid, the
  keys are made of the association's id (`peer.rb:300`, `:248`).
- An incoming request without response ends the worker (`peer.rb:475`).
- `stop` with an active job raises, and leaves the jobs alone (`peer.rb:109`).
- Jobs are indexed by 32 bits and looked up by 16 (`peer.rb:342`): `SentIsRouted`
  fails with `RES_MOD = 2` in `WranglePeer_jobs.cfg`.

## 4. Proofs

For every value of the constants, under the assumptions the modules state:

- `AlgorithmsProofs`: the five properties of `Algorithms`, for every `Given` input, each from a lemma about the operators
  alone, for all inputs: `PutThenGet`, `GetThenPut` and `ReadAgain` for lengths, `UnpackedAlwaysWhole` for
  datagrams, `DispatchersAgree` for every ascending list of objects.  The last one is an induction.
  Since a theorem about induction cannot be instantiated, the binary search is led to a
  contradiction: if it missed an object there would be a least width of the part it still looks
  at for which it does (`LeastNumber`, from the well-foundedness of the naturals), and its half
  is smaller.
- `PR6ClientProofs`: all five invariants of the run.  `AnswerIsOwn` is not
  inductive: that an instance in SENT holds the counter of *its own* last confirmed
  transmission, that what is waiting to be confirmed was sent for the request the
  instance holds, and that everything waited for is fresh is added (`AnswerInv`); then
  equal residues mean equal counters.  `NoPartialResult` needs that nothing but a
  completion touches a result (`Untouched`), `TransmissionsAgree` that a request number belongs
  to one instance and its stored message (`RequestInv`).  `ListInv` (a pool
  bounds its list, which is not empty) is for `RemoteInvocationProofs`.
- `PR6ServerProofs`: all seven invariants of the server, for lists, buffers and return values
  of every length.  `IInv` says where the loop is (`Flow`: what each state of the loop
  means for `running` and what a request not yet begun holds) and that while a request is
  under way its results are the outcomes (`Reported`); `StopsAtError` and
  `CalledInOrder` need each other.  `ShortOnlyIfFull` is proved as a property of the steps that
  end a request and carried along.
- `PR6ExchangeProofs`: `ClientsSeeAnyServer`: every step of the composition is a step of
  `PR6Client`, whose server answers what it likes, so the theorems about the clients (`AnswerIsOwn` and
  the others) hold here; and `AnswerIsAlwaysTaken`.  The invariant is that of the clients, that of the
  server, and `Serving`, which joins them: the server works for a transmission it
  took, with its list and its mode, and every answer has results a client can read and not too many.
- `RemoteInvocationProofs`: `Implements`, the refinement.  `RInv` adds that the log agrees with the
  server (`Logged`) and what an answer tells of the attempt it answers (`Tells`); then each
  action of a client or of the server is one action of `RemoteInvocation` or none.
- `AssociationProofs`: `TypeCorrect` for both values of `Concurrent`; for
  `~Concurrent`, records being created and deleted at any time, `IVsAreUnique`,
  `AcceptedAtMostOnce`, `WindowsAreGenuine`, `RefusedForGood` and `Implements`.  The inductive
  invariant (`RecordInv`) says on the sending side that what was encrypted under the present secret
  with a counter of its own record, or is reserved of it, has a counter not above the
  row's, and on the receiving side that every accepted datagram of the present secret
  is in the window or at or below its least element, so that the window refuses it; `crossed` and
  `late` are where neither holds.
- `WranglePeerProofs`: `TypeCorrect`, `TimeoutsAlwaysInOrder` and, for `MAX_COUNTER < RES_MOD`,
  `AnswersAlwaysOwn`: for any number of requests, retries, stops and re-creations, until one falls
  between two readings of the record for one message (`crossed`).  The
  invariant has two halves.  `Books`: one message at a time is under way about a job, none
  about a listed job, and a job whose message is under way takes no answer.  `Order`:
  packed messages wait in the order of their counters (`Counted`); an answer is acted on before
  any message of a later creation (`Accepted`); the counter of a job that waits leads to the
  last message it sent (`Routes`); so an answer that is accepted belongs to that message.
  The code has 32-bit counters and 16-bit residues: the assumption holds for the first 65535
  messages of an association, and beyond them the property fails with `SentIsRouted`.
- `WranglePeerSteadyProofs`: `PreJobHasMessage`, `SentIsRouted` and `NoThreadDies` as long as the
  peer is `Steady`: until the first stop and the first deletion of its association.  The condition
  is needed: `stop` empties `preJobs` while messages are under way, and a message whose association
  was deleted is dropped without a notice; with `MaxStops = 1` or with `MaxCreated = 2` in
  `WranglePeer_jobs.cfg` TLC finds each of the three violated.  On top of `Books` the invariant says that a job
  is among the `preJobs` exactly if a message about it is under way (`Kept`), so that a notice finds its job;
  that every counter in the queue is above those already listed and below the next one (`Numbered`), so that
  the worker's index is free; that `jobs` is never made an array (`NeverArray`); and, for
  requests that want a response (`Answerable`), that a listed job has a time to compare and a
  packed message is of a job that will wait (`Expecting`) and that the pack thread has a
  message for every item it takes (`NoneFatal`).  `SentAlwaysRouted` holds while the counter is below
  `RES_MOD`; `NoThreadEverDies` needs `Answerable` (run `WranglePeer_unconfirmed`, and `peer.rb:475`
  for a received one) for a received request a counter left for its response, and `Acquainted`: no
  datagram comes from addresses without a record (`association_record.rb:120`).

Every invariant of a passing run is proved, and so are the action properties and the refinements.  Only
model-checked are the two liveness properties, the two `EveryRequestEnds`: fairness and
`ENABLED` are outside the prover's reach.

## 5. Not modelled

Encryption itself (a datagram is authentic if it was encrypted), the byte layout of
messages beyond lengths, roles of associations, the content of arguments and return values,
the two socket threads of the UDP node, parsing and formatting of addresses, the definition of
object classes (names, versions, indices of methods), a thread stopped in the middle of an item, logging, the conversion of values between Ruby and C, tests,
examples and vendored code.  The callbacks of the C modules are enumerated, not
implemented; `PR6_ServerResume` with another buffer than the first one is excluded.

## 6. Plan

1. Done: the algorithms, `PR6Client`, `PR6Server`, their composition and its refinement,
   `Association` with `AtMostOnce`, `WranglePeer`.
2. Done: proofs of all invariants and action properties of the runs, and of the
   refinements.
3. A composition of `WranglePeer` with `Association`, so that `Unpacks` is shown and not
   stated; it needs a smaller abstraction of the threads to stay in reach of TLC.

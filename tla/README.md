# Distributed Cache Directory: TLA+ model and proofs

This directory holds a TLA+ model of the Distributed Cache Directory, the TLC
configurations that check it on small instances, and TLAPS proofs of its main
safety properties for every value of the constants. `PROJECT.json` lists the
components, the runs, the source lines each definition models, the mutants that
show the properties are sensitive to the code, the findings and the hazards.

## 1. The system

A *coordinator* process owns one `Directory` and serves framed-TCP requests.
*Workers* connect, say HELLO under a `WorkerBootId` (one incarnation of a
process), register caches, locations and replicas, and publish *records*: one
record describes one copy of a reusable state, at one generation. Clients query
for a copy. Every connection has a detached thread; the read of a request happens
outside `dir_mutex_` and the handler runs under it, so handlers are atomic and
the system is the interleaving of handlers. A connection that closes loses its
worker. SAVE and RECOVER, and the start of the coordinator, tie the directory to
a file.

| component | state it keeps | operations | what makes it correct |
| --- | --- | --- | --- |
| canonical directory (`directory.cpp`) | epoch, records, descriptor maps, tombstones, generation fences, sessions, id counter | sessions, registration, controlled updates, leases, invalidation, tombstones | one current generation per state; no resurrection; no duplicate; history only grows; authority is fenced by incarnation |
| derived indexes | multimaps over record positions, a dirty flag | `ensure_indexes` | agree with the records whenever they are used |
| accounting | gauges and event counters | `recompute_accounting` at the end of each mutation | gauges equal what the records give |
| query and ranking | none | `query`, `query_scan` | offers only newest, unburied copies; index and scan agree; ranking is stable |
| persistence (`persistence.cpp`) | a file and its temporary | `save`, `recover`, start | atomic saves; tombstones stay authoritative; recovery confers nothing |
| coordinator server (`server.cpp`) | for each connection a thread and the boot it announced; `dir_mutex_` | accept, dispatch, respond, loss on close | every request answered; a closed connection loses exactly its worker |
| client and worker process (`client.cpp`, `worker.cpp`) | its boot and the epoch it learnt | HELLO, one request at a time | reads the answer to what it asked |
| protocol and transport (`protocol.cpp`, `serde.hpp`, `transport.cpp`) | the stream | encode, send, receive, decode | what is decoded is what was sent; damaged frames are refused |
| command line, digests, explanations, CUDA proof | none that lasts | | |

What is hard here: requests of different incarnations in any order; requests sent
before a loss, an invalidation or a restart and handled after it; repeated
requests; updates that fail half-way; a worker killed while it waits, sends or is
served; a response that waits for its reader while the mutex is held; two writers
and two readers of one format (wire and file) that have to agree field by field;
crashes inside a save; what a restart forgets (sessions, fences, the id counter).
There are no timers: leases never
expire by themselves, and clock fields are only displayed. `PROJECT.json`
("hazards") lists each at its line, with the property that watches it.

## 2. Modules

| module | models |
| --- | --- |
| `DirectoryTypes` | the enumerations, which domains are process-local, `can_lifecycle`, `derive_lifecycle`, the marking of lost records |
| `Directory` | class `Directory`: one action per mutating member function |
| `ReplicaCatalog` | the abstract specification: a catalogue that publishes, withdraws and buries copies |
| `DirectoryRefinement` | the refinement mapping from `Directory` to `ReplicaCatalog` |
| `DurableCatalog` | the abstract specification across crashes: a catalogue in memory and one snapshot of it on disk |
| `PersistenceRefinement` | the refinement mapping from `Persistence`, and so from `Server`, to `DurableCatalog` |
| `Query` | filters, rejections, ranking and outcomes as operators on the directory's state |
| `Persistence` | the directory with its file: save steps, failures, crash, start, RECOVER |
| `Protocol` | the message kinds, their codes, and which kinds a receiver lets through |
| `Server` | the coordinator with its connections, handler threads, mutex and workers; composes `Persistence` |
| `Codec` | byte writer and reader: layouts, how an object becomes cells and cells an object |
| `Layouts` | the fields every writer and reader of `protocol.cpp` and `persistence.cpp` lists |
| `Channel` | one direction of a frame channel with a stream that breaks or is altered, for any messages and codecs |
| `Wire` | the channel with the codecs of `Layouts`, and the image of what was received |
| `MCDirectory`, `MCQuery`, `MCPersistence`, `MCServer`, `MCWire` | small instances for TLC |
| `DirectoryProofs` | type correctness |
| `DirectorySafety` | the safety theorems |
| `DirectoryAuthority` | ownership and fencing of descriptors, what records refer to, indexes and gauges |
| `RefinementProofs` | the directory implements the catalogue |
| `QueryProofs` | what every query offers, index against scan, stability of the ranking |
| `PersistenceProofs` | atomic saves, recovery, the directory's safety across restarts, the durable catalogue |
| `ServerProofs` | sessions, answers, quarantine, and the directory's safety and the durable catalogue behind any number of connections |
| `ChannelProofs` | delivery of messages as they were sent, in order and without gaps, whatever the stream does |

`Persistence` and `Query` extend `Directory`, so the proofs about the directory
are reused for both; `Server` extends `Persistence`, and its handlers are the
actions of `Directory` and `Persistence` themselves. The proof modules follow the
same line: `DirectoryProofs`, `DirectorySafety`, `DirectoryAuthority`,
`PersistenceProofs` (with `RefinementProofs`) and `ServerProofs` extend one another in
this order. `ChannelProofs` stands beside them: it extends `Channel`, which takes
messages, payloads and readers as constants, because `Wire` gives them by recursive
operators, about which the prover cannot reason.

### How the model corresponds to the code

Variables carry the names of the members without the trailing underscore.
`records` is the vector `records_`; a map is a function to a descriptor or `Null`.
`indexes` is `Null` while `indexes_dirty_`, and otherwise the records the indexes
were last built from. An action is a whole handler, including its tail
`indexes_dirty_ = true; recompute_accounting();` (`MarkDirty`). A handler that
refuses a request changes nothing and is a stuttering step, with one exception
that the model keeps: the four evidence updates assign the field before they check
the lifecycle transition, and a refused one leaves the assignment behind
(`ApplyEvidence`).

Abstractions:

* a record's identifying and describing fields are its `copy`, which no handler
  changes; (node, worker, worker boot) are one owner, the boot; sizes and digests
  are one payload, and kinds, namespaces, compatibility, provenance and estimates
  are left out;
* a record's embedded lease is reduced to its state, as nothing updates it;
* lease clock fields, timestamps, event counters, semantic digests, explanations
  and messages are left out: no guard reads them;
* a tombstone target is a kind, a subject and a floor; the kind is one of the
  enumeration or any code above it (`TombstoneCode`), because the reader casts the byte
  without a check;
* a duplicate registration is refused whether benign or conflicting, so the two
  errors are one guard (`IsDuplicate`);
* an image is what `save_to_buffer` writes; a file is absent, torn or a whole image,
  which the CRC and the SHA-256 tell apart. Recovery refuses a repeated identity, an
  unknown kind of tombstone and a regression of generations (`IsRecoverable`).
  Identities in an image are never null because registration refused them;
  `observations_` is never filled; the count limit of 10^8 is out of reach. One path is
  modelled;
* a crash is of the process: a completed rename persists, and `next_obj`,
  sessions and all of memory are lost. A rename that fails leaves both files: where
  `MoveFileExA` is used the failure is reported and the temporary stays, which is a
  failed save; `std::filesystem::rename` throws out of the detached thread and ends
  the process, which is a crash before the rename;
* in `Query`, ranking scores are exact (in twelfths, under the default policy)
  where the code adds doubles; factors fed by estimates and devices are equal for
  all copies; candidates with equal score and equal id are left unordered.

**Server.** A connection `c` has a worker at one end (`peer`, `identity`, `sent`)
and a handler thread at the other. `pc` is where `handle_connection` is: `READ` in
`ch.receive`, `LOCK` before the `lock_guard`, `RESPOND` while it writes, `LOSE` after
the loop, `DONE` when it returned; `session` is its local `boot` (`Null` while
`have_boot` is false). Dispatch is one step because it runs under the mutex; its
responses are further steps of the same critical section, because each is a blocking
`send` while the `lock_guard` lives. A small response always fits the socket buffers;
a query result (`large`) waits until its peer reads or is gone. The members of
`Suspended` are workers that stop running with a request outstanding, for which
`worker.cpp` has a command. A worker sends one request and waits for one response
(`send_recv`); the process may be killed in any state, and a request that was not read
then may or may not arrive. `accept` fires when a handler of the directory takes the
request and `refuse` when none does (`~ENABLED`), which is how an error response
arises. A SAVE is the whole of `save` in one step: the mutex is held, and `Persistence`
examines its interior. Workers say HELLO once, as `worker.cpp` does. A crash of the
coordinator ends every connection, so `Server` starts at a file and does not repeat
`Persistence`'s restarts; RECOVER, which clears sessions under open connections, is
in. `LeaseInputs` and lifecycle updates are calls no request reaches.

**Channel and Wire.** A frame is a header cell (magic, version, kind, length, checksum)
and the cells of the payload; the receiver sees nothing but cells, takes as many as the
header says, and can therefore lose its place when the length is altered. `Channel` is
the framing of `FrameChannel` for any codec; `Wire` gives it the codecs and adds what
the handler stores (`handle`). Every step of `Wire` is a step of `Channel` or leaves it
alone, as each disjunct of `WireNext` says. A layout is the list of fields a function
writes or reads, with the width of each, what it depends on (a presence flag, a count)
and, for readers, the cap on a string or count and whether the value is assigned. The
order and widths come from the function's own lines; where writer and reader list the
same fields they share the list. `Encode` gives one cell per write; `Read` consumes
cells in order and fails on a wrong width, a value above the cap, a missing cell or a
leftover one, as `ByteReader` does. Values are opaque (a cell carries the field it was
written for, so that a shift or a swap shows), except flags, counts and lengths, and
what the readers of the image tell apart: the identity of a descriptor and whether the
kind of a tombstone is a known one. String lengths have the classes that the caps of 1,
16 and 64 MiB tell apart, and `CountCap` stands for the caps on counts. CRC-32 and
SHA-256 are taken to tell any two contents apart. The kind byte is not covered by the
checksum: `alter_kind` changes it, an altered kind that is still a kind is dispatched to
another reader, and the history variable `rekinded` notes which frames that happened to,
so that the properties can say what still holds of them (their place and order) and that
the other frames are untouched. A frame is altered in one place. `receive` is
`FrameChannel::receive`, `decode_frame` and the payload's reader; a frame that fails the
checks, like the end of the stream, ends the connection, and a payload its reader
refuses is answered with an error. What is registered is stored as the directory does:
caches, locations, replicas and leases under their identity, a later one in the place of
an earlier, and records and tombstones appended whatever their identity (`Store`); that
the directory may refuse for reasons that are not in the bytes is a choice of `handle`.
`recover_from_buffer` is all of the function's refusals but two: null identities, which
registration does not let in, and the regression of generations, which is a matter of
`Persistence`. The observations section of the image is always empty, since nothing
creates one; a query result's explanation and summary are not sent. `embed` stands for a
program that uses the library without a channel and stores what the file's readers
admit: writers are uncapped, so a program that stores a string above 1 MiB writes an
image recovery refuses.

Definitions whose name ends in a fault (`..._AllowsStale`, `..._InPlace`) are
faulty variants that stand next to the definition they vary. No specification
uses them; `PROJECT.json` ("mutants") pairs each with the property that must fail
when it takes the definition's place.

## 3. Runs

Run one with `tlc -workers 2 -config <cfg> <module>`.

| run | instance | properties | states |
| --- | --- | --- | --- |
| `history` | 1 state, 2 generations, 2 replicas at 2 locations, 2 caches, 3 records, 1 tombstone | `TypeOK`, `CurrentIsNewest`, `BuriedNeverCurrent`, `UniqueCurrentCopy`, `HistoryIsAppendOnly`, `ImplementsCatalog` | 58 thousand |
| `authority` | 2 incarnations, one cache, location, replica and lease, fences 0 and 1; 1 record under every update | `BuriedNeverCurrent`, `RecordsAreOwned`, `StateIndexAgrees`, `CountsExact`, `GaugesLagOnRetired`, `HistoryIsAppendOnly`, `AuthorityIsFenced` | 215 thousand |
| `query` | 2 owners, copies in a memory and at a remote tier, 2 records under updates and a tombstone or 3 that are retired and lost, 4 queries | `QueryMatchesScan`, `CandidatesAreNewest`, `SelectionIsStable` | 81 thousand |
| `persistence` | 1 worker, 2 records, 2 saves, 1 restart or RECOVER, crash anywhere | `CurrentIsNewest`, `UniqueCurrentCopy`, `DurableBurial`, `SavesAreAtomic`, `RecoveryConfersNothing`, `ImplementsDurableCatalog` | 615 thousand |
| `server` | 2 connections, 2 incarnations (both may be claimed on either connection), a file with a record and a lease of an earlier life | `SessionIsConnection`, `AnswersMatch`, `QuarantineHolds`, `RequestsAnswered`, `LossIsObserved` | 130 thousand |
| `wire` | every payload, 5 profiles of identities, flags, lengths and counts (caps met and exceeded), 2 messages, streams cut and altered; images of up to 3 descriptors | `CodecRoundTrips`, `DeliveredAsSent`, `TakenIsDecoded`, `StoredReadsBack` | 251 thousand |

Bounds. `MaxRecords`, `MaxTombstones`, `MaxLeaseGeneration`, `MaxSaves` and
`MaxRestarts` cap what would grow for ever. Two generations and three records are
enough for a publication to supersede a copy at another place while a copy of the
same place under another cache remains; one record suffices where the question is
what a sequence of updates does to it; two fences and two incarnations are what a
comparison of fences or owners can tell apart; two saves make the file older than
the directory and one restart makes memory older than the file. Some descriptors
are registered with the evidence a loss would leave on them (`DimCacheOf`,
`DimLocationOf`) so that instances about records do not multiply their states by
evidence no record property reads; `authority` also registers them in full health. Two runs
explore two instances side by side, under a state constraint that ends a path where it
would mix them: in `authority` descriptors or a lease are contended for while there is
neither record nor tombstone, and a record has descriptors of the second instance
(`EvidenceOrContention`); in `query` two copies meet updates and a tombstone, and three
copies of one generation are retired and lost (`QueriedOrRanked`).

In `server`, `MaxRequests` (`FewRequests`) bounds the requests after HELLO: two on one
connection and one on the other, enough for a request of a worker whose connection is
being lost, for a publication followed by its update, and for a RECOVER, a tombstone or
an invalidation of the owner between another worker's requests. The requests include the
registration of a location, whose frame is refused, so that the server also closes the
connection of a worker that runs: `RequestsAnswered` says that no running worker waits
for ever, answered or disconnected. In `query`, three copies are what the count of
copies in the score needs: a third can disturb the order of two. In `wire`, two messages
make a cut or altered frame followed or preceded by a whole one, `LostTails` cuts a
frame inside its last fields and at its boundary, `LengthErrors` makes a length one too
large or too small, `AlteredKinds` turns any frame into an ACK (an ERROR is then read as
one, the others are unreadable), two profiles share an identity so that it is
overwritten or repeated, `CountCap = 2` with counts 0 to 3 is empty, below, at and above
the cap, and `MaxStored = 3` mixes descriptors of several sections in one image.

Deadlock is checked in `history`, `authority` and `query`. It is not in
`persistence` (a coordinator whose file is refused exits, and the bounds on saves and
restarts end a behaviour), `server` (all workers may be gone) and `wire` (a closed
stream ends). That nobody waits for ever is what `RequestsAnswered` and
`LossIsObserved` say.

Fairness. Only `Server` has liveness properties, under weak fairness of two things:
each handler thread, since the operating system runs a thread that can proceed, and
the reading of a response by a worker that runs and waits for it. Nothing obliges a
worker to connect, to ask or to stop. `dir_mutex_` is not assumed to be fair: with
finitely many requests a handler that waits finds the mutex free in the end; with
unboundedly many a `std::mutex` promises no such thing, and the property would need
strong fairness of taking the lock.

### Claims the runs refute

| run | claim | what the code does |
| --- | --- | --- |
| `lost_source` (`AvailableSourceIsLive`) | README: availability requires liveness; `directory.hpp`: a stale incarnation is never a live source | a live worker may publish a copy held by a lost incarnation, and it is born AVAILABLE |
| `repeated_id` (`SavedIsRecoverable`) | `test_persistence.cpp`: what is saved is recovered | the id counter restarts at 1; a repeated id makes the next file unrecoverable |
| `answered_twice` (`AnswersMatch`) | `client.cpp`, `test_multiprocess.cpp`: the response read is that of the request sent | an invalidation with an unknown code is answered at `server.cpp:132` and again at `134`; every later answer on the connection is the one before |
| `dropped_registration` (`ServedWhileOpen`) | `test_multiprocess.cpp`: a worker registers location and replica and goes on; README: loss is observed when the connection closes | `decode_frame` refuses kinds 17 and 18, closes the connection and loses the worker that sent one |
| `blocked` (`RequestsAnswered`) | `server.hpp`: socket I/O happens outside the lock | responses are written under `dir_mutex_`; a worker that does not read stops all others |
| `lost_estimate` (`RecordRoundTrip`) | `test_protocol.cpp`: record round trip with all fields | `rd_rec` reads four estimate fields and assigns none |

Further differences between a text and the code, read while modelling and kept in
the model as the code has them:

* only STATE tombstones have an effect (`directory.cpp:686`); the other kinds are
  stored and saved, and nothing consults them;
* recovery rebuilds the generation fence from current records only, though
  `persistence.hpp:16` lists generation counters among what is stored;
* the epoch recovery advances (`persistence.cpp:416`) is not written back, so a second
  restart from the same file reuses it;
* UNKNOWN evidence is rejected only if the query states a requirement (`README:94`);
* `accounting.hpp:8` promises exact accounting, but an evidence update is refused after
  it has changed the record and before the gauges are recomputed (`directory.cpp:379`):
  gauges of evidence are then wrong until the next mutation. `CountsExact` names the
  totals this cannot disturb, and `GaugesLagOnRetired` says it takes a retired record;
* `directory.cpp:680` calls tombstoning again harmless, but a TOMBSTONE sent twice is
  stored twice under one id, and recovery refuses the image (`persistence.cpp:358`); a
  kind above 12 is accepted (`protocol.cpp:261`) and refused on recovery
  (`persistence.cpp:368`). `StoredReadsBack` says that these two and a repeated record id
  are the only reasons for which an image of what was stored is not read;
* a second HELLO on a connection would replace the boot its handler remembers and
  leave the first live for ever; the worker program never sends one.

The run `server` keeps to the invalidation codes 0 to 4, for which `AnswersMatch` holds.

`AuthorityIsFenced` says nothing of lease fences, because `expire_lease` may lower
one, and `HistoryIsAppendOnly` is a property of one life of the coordinator, since
a RECOVER replaces the history by the file's.

## 4. Proofs

Checked with `tlapm <module>.tla`. Assumptions, all named in the modules that
declare the constants and evaluated by TLC in every run: inputs are well typed
(`InputAssumption`), a STATE tombstone targets a state (`SubjectAssumption`),
identity sets are finite (`FiniteAssumption`, needed for the gauges), `Null` is
no identity and no descriptor (`NullAssumption`), a file that was not written to its
end differs from one that does not exist, and neither is an image (`TornAssumption`).
For the channel: a payload is a non-empty sequence (`PayloadAssumption`; every layout
writes at least one field), and the faults of the stream count cells and change a length
by something other than zero (`StreamAssumption`). For the coordinator:
`Null` is no connection, HELLO is not among the requests that follow HELLO, and the
file it starts from is an image, torn or absent (`ServerAssumption`); an
invalidation of a cache or of a location names one (`InvalidateAssumption`).

The lemmas about handlers are stated for `AnyStep`, the handlers under any envelope
of natural epoch and fence and any target of an invalidation. `Next`, whose envelopes
come from sets TLC can enumerate, is an instance of it (`NextIsAny`), and so is every
request the coordinator accepts (`MutateIsAny`): the same lemmas serve both.

**The directory.**

* `TypeCorrect` (`TypeOK`): one lemma per handler for the canonical part. Gauges
  are naturals because each counts a finite set, and indexes are records because
  every handler either drops them or leaves them alone.
* `NewestOnly`, `NoDuplicateCopy`, `NoResurrection`: consequences of the inductive
  invariant `SafetyInv == TypeOK /\ CurrentIsNewest /\ UniqueCurrentCopy /\
  BuriedNeverCurrent`. The argument (`StepShape`): a step either keeps the vector,
  at most retiring records (`KeepsHistory`), or is a registration that appends one
  record to a vector in which some were superseded (`RegisterShape`). The first
  kind can only make the three invariants easier to satisfy, except that a
  tombstone adds a floor, and `BuriedBy` retires exactly what that floor covers.
  For the second, `check_registration` gives what is needed. `CurrentIsNewest` is
  needed in its strong form (the current generation *equals* the fence): with
  "at most the fence" a publication at the fence's generation could leave an older
  generation current, since it supersedes nothing.
* `HistoryPreserved` (`HistoryIsAppendOnly`) from the same case split.
* `DirectoryImplementsCatalog`: initial states map to initial states, and each
  step maps to `Publish`, `Bury`, `Withdraw` or a stutter. `Publish` needs
  `CurrentIsNewest` (so that displaced copies are of an older generation or of the
  same place) and `UniqueCurrentCopy` (so that the copy is new to the catalogue).
* `AuthorityFenced` (`AuthorityIsFenced`): one lemma per descriptor map
  (`CachesKept`, `LocationsKept`, `ReplicasKept`, `LeasesKept`), each over the
  handlers that write it at all (`DescriptorFrame`).
* `RecordsStayOwned`, `IndexAgrees`, `GaugesExact` (`RecordsAreOwned`,
  `StateIndexAgrees`, `CountsExact`): the inductive invariant
  `OwnershipInv == TypeOK /\ RecordsAreOwned /\ StateIndexAgrees /\ CountsExact`.
  A record keeps its descriptors because registration checked them and the four
  lemmas above say that none is taken away. The index and the gauges need the case
  of a refused evidence update, which rewrites a record and derives nothing anew:
  what the index and the counted totals depend on is untouched by it
  (`RefusedIsCounted`).
* `GaugesLag` (`GaugesLagOnRetired`): every handler recounts, or leaves alone what is
  counted, or is a refused evidence update (`RecountShape`); and `can_lifecycle` refuses
  only what is SUPERSEDED or TOMBSTONED, which the refusal leaves so
  (`RefusedIsRetired`).

**Queries.**

* `QueriesOfferNewest` (`CandidatesAreNewest`): `SafetyInv` read through the
  candidates of any query.
* `IndexedQueryIsScan` (`QueryMatchesScan`): from `StateIndexAgrees`, the matches
  reached through `by_state` are those of a pass over the records, and the result is
  a function of the matches.
* `StableSelection` (`SelectionIsStable`): a copy's score does not grow when its
  evidence worsens (`EvidenceOrder`), and what its place is worth to a requester
  never changes, because a location keeps its owner (`PlaceKept`, which needs
  `RecordsAreOwned`); so an untouched copy that was selected stays before every rival
  that is left.

**Persistence.**

* `NewestOnlyAcrossRestarts`: `PersistentInv == CanonicalTypeOK /\
  CurrentIsNewest /\ StorageInv`. Across a restart `CurrentIsNewest` does not rest
  on the saved state but on recovery's own check for a generation regression,
  which makes the rebuilt fence the one generation that is current
  (`RebuiltFence`).
* `AtomicSave` (`SavesAreAtomic`): `StorageInv` says that a temporary file that was
  written to its end is the image of the directory, which cannot change while
  `dir_mutex_` is held.
* `RecoveryIsQuarantine` (`RecoveryConfersNothing`).
* `BurialIsDurable` (`DurableBurial`) and `SafeAcrossRestarts` (`UniqueCurrentCopy`,
  `BuriedNeverCurrent`, `RecordsAreOwned`, `StateIndexAgrees` and `CountsExact` across
  saves, crashes, restarts and recoveries): the inductive invariant `DurableInv`. To
  the directory's own invariants it adds `FileInv`: the file is the image of a safe
  directory (`SafeImage`), and while the coordinator runs every tombstone in the file
  is in memory too. The second half is what makes a burial durable; it holds because
  a running directory only adds tombstones and a recovery takes those of the file.

* `PersistenceImplementsDurableCatalog` (`ImplementsDurableCatalog`): a rename that
  succeeds is `Save`, a crash `Crash`, a start `Restart` (of an empty snapshot, when
  there is no file) and a RECOVER request `Recover`; the other steps of a save are
  invisible, and a file that is refused leaves the coordinator down; a request is a step
  of the catalogue, by the lemmas of `RefinementProofs`. `StorageInv` is what makes the
  rename a save of the catalogue *as it is* (the temporary was written from memory that
  has not changed since), and `FileInv` what makes the snapshot consistent, so that
  recovery, whose own checks are the ones `IsConsistent` states, brings back all of it.
  It covers the refinement of one life (`DirectoryImplementsCatalog`) and says what a
  restart may do to a catalogue: replace it by the last snapshot and forget the newest
  generation of a state that the snapshot does not publish.

**The coordinator.** Three hypotheses stand in the theorems that need them, because
the code does not keep the promise without them:

* `KnownCodes`: no worker names an invalidation code the switch does not know
  (such a request is answered twice, section 3);
* `StartsOwned`: in the file the coordinator starts from, a record is asserted by the
  incarnation it names, as workers that speak for themselves leave it;
* `StartsSafe`: that file is the image of a safe directory, which `DurableInv`
  establishes for every file the coordinator writes.

The instance of the run `server` satisfies all three. Fairness plays no part.

* `ServerInvHolds`: the inductive invariant `ServerInv`. For one connection
  (`ConnectionInv`) it says that at most one of a request, an unwritten and an unread
  response exists, which of them is told by `pc` and `peer`, that a request carries
  its worker's identity and is the HELLO of a worker without a session or a request of
  one with, that `dir_mutex_` is held exactly by the handler that writes, and that
  only an accepted HELLO tells a worker an epoch. A step of one connection leaves the
  others' alone (`OnlyOne`), so the number of connections does not matter.
* `AnswersAreMatched` (`AnswersMatch`): `ServerInv` without its bookkeeping.
* `SessionsFollowConnections` (`SessionIsConnection`): inductive with `ServerInv`. A
  HELLO is accepted only for an incarnation that is not live, so that no other handler
  serves it; the loss ends the one session the handler remembers. The property is
  needed with its uniqueness: a second handler of the same incarnation would go on
  serving a lost worker.
* `QuarantineIsKept` (`QuarantineHolds`): strengthened by `OwnRecords` (a record is
  asserted by the incarnation it names). By `SessionIsConnection` a handler that holds
  a request speaks for a live incarnation, and a request can make available only a
  record its own incarnation asserts (`SpeaksForItself`).
* `ServedSafely`: `CurrentIsNewest`, `UniqueCurrentCopy`, `BuriedNeverCurrent`,
  `RecordsAreOwned`, `StateIndexAgrees`, `CountsExact` and `DurableBurial` behind
  concurrent connections. Every step of the coordinator is a step of the directory,
  a save, a start or a recovery (`StepServed`), and each of those keeps `DurableInv`.
* `ServerImplementsDurableCatalog` (`ImplementsDurableCatalog`), under `KnownCodes` and
  `StartsSafe`: the same decomposition (`ServedCatalogStep`) maps every step of any
  connection to a step of the durable catalogue. What readers are promised of one
  directory holds behind concurrent workers, losses and RECOVER requests.

**The channel.** For every set of messages, payloads and readers, and every fault the
constants allow:

* `ChannelStaysAligned`: the inductive invariant `ChannelInv`. `AlignedInv` says where
  the frames under way end (`off`, a ghost the receiver does not see) and that the
  header of each is at its place, with the checksum it was sent with and, unless the
  frame is in `rekinded`, the kind, while magic, version, length and payload may be
  altered. It is kept by `receive` for one
  reason: a header whose length was altered makes the receiver cut a payload that is
  not the one summed up in the checksum, so it gives up, and an accepted frame has the
  length that was sent (`ReceiveKeeps`). When the receiver gave up nothing is claimed of
  the rest of the stream.
* `ChannelDeliversAsSent` (`DeliveredAsSent`) and `ChannelDecodesTaken`
  (`TakenIsDecoded`) under the hypothesis `[]CodecRoundTrips` (what was sent can be read
  back), which the run `wire` checks for every codec of the protocol: `ReceivedInv` and
  `TakenInv` say that what was received is exactly the reading of what was taken, by the
  reader of its own kind unless that was altered. An altered kind misleads the reader of
  that frame alone: the next header is still found, since the length is vouched for by
  the checksum.

Only model-checked: liveness under fairness (`RequestsAnswered`, `LossIsObserved`),
which is out of the prover's reach, like everything that needs ENABLED (`refuse` is
proved about as a step that changes nothing, whatever it requires); and what the codecs
compute (`CodecRoundTrips`, `StoredReadsBack`), since encoder and decoder are recursive
operators over layouts, about which nothing can be proved by induction over the data.

## 5. Not modelled

* Explanations: text built from results, without state.
* Digests, strong types, the clock: pure value helpers. A digest's role, to tell
  contents apart, is assumed in `Wire` and `Persistence`.
* Command line and the mains of the tools: argument parsing and loops around what is
  modelled. In `coordinator.cpp` SIGINT sets a flag that is tested only after `run()`
  returns, and `run()` returns only after `stop()`, which nothing calls: the
  coordinator ends only by being killed, which is why `Server` has no orderly stop.
* Sockets, Winsock, the receive timeout (no caller sets one): a connection is a
  reliable ordered stream until it breaks.
* Factors of the ranking fed by estimates and devices, the event counters, and the
  indexes other than `by_state`, which are built and never read.
* The CUDA proof, examples and benchmarks.

Reasons are also in `PROJECT.json` ("components").

## 6. State of the development

Done: `DirectoryTypes`, `Directory`, `ReplicaCatalog` and its refinement, `Query`,
`Persistence`, `DurableCatalog` and its refinement, `Server` with its fairness and
liveness, `Codec`, `Layouts`, `Channel` and `Wire`, and their runs; as theorems, every
invariant, action property and refinement that the passing runs check, except the two
about the codecs and the two liveness properties named at the end of section 4.

Worth doing next: an abstract specification of sessions (an incarnation is claimed,
served and lost) that `Server` implements, from `SessionsFollowConnections`; a server
whose requests travel over two instances of `Channel` instead of one slot for each
connection; the lease rules under `register_lease` and `expire_lease`, should the code
come to enforce them (their hazards have no property today).

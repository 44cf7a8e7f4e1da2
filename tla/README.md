# A verification of jqf's runtime

jqf is a jq in Rust: a compiler and an executor for jq programs, a dozen
codecs, and a runtime that runs one request on several threads, under one
memory ledger, with an answer that must be byte for byte the serial one. These
TLA+ modules model the parts where that promise is hard to keep: the worker
threads and the ordered coordinator, the relay that falls back to serial, the
scan that cuts one JSON input into shards, the ledgers that bound memory, the
emergency slab they fall back on, the resident feed a host pushes a stream
through, the live routes that follow a file, the ways output reaches a file, and
the machine of frames that runs a filter. TLC checks them on small instances;
TLAPS proves what matters most of each for every instance.

Everything below is relative to the repository; `src/` is its root.

    tlc -workers 2 -config MCOrderedRecords.cfg MCOrderedRecords.tla   # any run
    tlapm RecordStreamProofs.tla                                       # any proof module

`PROJECT.json` lists the runs, the mutants that break each property, the source
lines of every definition, the hazards, and the theorems.

## 1. The system

| component | state it keeps | operations | talks to |
|---|---|---|---|
| worker scope (`jqf-runtime/src/workers/{native,budget}.rs`) | session permits, one cancel flag, one wake flag, threads | acquire a permit, spawn, `is_finished`, join, park, wake on drop | the coordinator (handles), worker bodies (flags) |
| ordered coordinator (`workers/ordered.rs`) | task slots, a ring of results by ordinal, four window counters, the slot on offer | `try_dispatch`, `finish_dispatch`, `poll_next`, `acknowledge_ready`, `cancel_and_drain`, `park_frontier` | its client, the scope, the parent's ledger |
| parallel relay (`parallel/relay.rs`) | the morsel held back, bytes published, `SkippingSink`'s remainder | `relay_morsels`, `give_up`, the redrive | the coordinator, the caller's sink, the host's control |
| record route, adjacent-value route (`records/`, `values/`) | none of their own | choose a lane; run the relay; redrive serially | the relay, the SDK's drives |
| adjacent-value scan (`values/boundary.rs`) | offset, depth, start of the open shard | `next`: one shard, decline, malformed, exhausted | the route that proves two cuts, the relay that pulls |
| request ledger (`jqf-resource/src/{account,limits}.rs`) | bytes per category, total | charge, release, open a child | the allocator, task grants |
| task grants (`jqf-resource/src/task.rs`) | an envelope held on the parent, a child ledger, one result buffer | reserve, open, make output, detach, adopt, drop | the coordinator's thread and the worker's |
| ambient scopes, emergency slab (`ambient.rs`, `slab.rs`, `counting_alloc.rs`) | the thread's account, a process-wide scope word, a spin lock, a bump | install, drop, charge, release, claim, allocate, grow, free, rewind | every thread's allocator |
| resident feed (`jqf-runtime/src/feed.rs`, `jqf-sdk-ffi/src/lib.rs`) | retained bytes and two cuts in them, a staged batch, stream-wide bases | push, poll, finish, close | the host, the record drive, the diagnostic buffer |
| diagnostics (`jqf-resource/src/diag.rs`, `jqf-sdk/src/diagnostics.rs`) | a capped buffer, one mark | record, mark terminal, clear | every drive, the C interface |
| record drive, JSON framing and reading (`jqf-sdk/src/drive`, `jqf-codec/json`) | cursor | frame, decode, run, publish | codecs, engine, sinks |
| engine (`jqf-engine/src/exec`) | a stack of frames, one pending task, the binders, the error in flight, a suppression depth | evaluate a node, route a value, fire or pop a frame, catch a raise | builtins, the drive's sink |
| live routes (`jqf-cli/src/routes/{follow,stream}.rs`) | descriptor, offset, held bytes, stream bases, the exit class so far | poll, drain, reopen, read, drive a prefix, finish | a file others write and rotate; the record drive; the governor |
| file output (`jqf-cli/src/output.rs`, `routes/edit.rs`) | a temporary name, a buffered writer, the item's number | create, write, flush, fsync, rename, sync the directory, abandon | the file system; other processes |
| rest of the command line | arguments, a governor, served sessions | plan a route, serve | everything above |
| builtins, data, syntax, other codecs | none of their own | parse, lower, compute, print | the engine, the drives |
| spill store, planning, worker grants' arithmetic | temp-directory runs; none | write and merge runs; widths and partitions | external sort; routes |
| bindings, tools, packaging | - | marshalling | the C interface |

What is hard here, and what makes each part correct:

* **Interleaving.** Workers finish in any order and set two flags in two steps;
  the coordinator joins them in slot order and releases in dispatch order. It
  must never lose a wake, collide in the ring, or publish out of turn.
* **Leaving early.** The relay has a dozen exits. After each of them no thread,
  permit or byte of the lane may be left, and a redrive must skip exactly what
  the caller's sink has already taken.
* **Resources in motion.** An envelope moves from coordinator to worker to ring
  slot to result and is given back in pieces, on every failure path too; no
  thread sees another's ledger, and their sum must stay below one ceiling.
* **Lock-free state.** The slab's claim, its reset and its regions are three
  atomics and one spin lock, changed by threads at any point of a scope's life.
* **Cutting a stream.** Shards and feed batches cut one input at places decided
  from part of it. What comes out must not depend on where.
* **A host in the loop.** It may stop, push too much, poll with a buffer too
  small, free the program, finish twice.
* **A file others write.** Between any two system calls the followed file may
  grow, be cut or be renamed; no byte may be skipped, shown twice, or shown at
  another's place.
* **Crashes.** A file that is being replaced must be whole at every moment, after
  a kill or a loss of power too; and whatever fails, the run must say so and take
  its temporary file with it.
* **A stack that is cut.** The machine trims spent frames, cuts a countdown's
  source out of the middle, and unwinds past operands that have already run; the
  outputs must still be those the filter means.

## 2. The modules

| module | models | extends |
|---|---|---|
| `WorkerScope` | threads, permits, flags, the wake | |
| `OrderedRecords` | the coordinator under any client that keeps its contract | `WorkerScope` |
| `SerialStream` | abstract: what a request promises its caller | |
| `MorselRelay` | one parallel request: the relay as the coordinator's client, the route and the redrive; refines `SerialStream` | `OrderedRecords` |
| `AdjacentReader` | what the serial drive reads in a run of adjacent JSON values: the reference for the scan | |
| `ValueShards` | the scan and its two callers | `AdjacentReader` |
| `RequestLedger` | one ledger: open, admit, charge, release | |
| `TaskGrants` | the request and its workers' ledgers, envelopes, results | `RequestLedger` |
| `EmergencySlab` | scopes, claims, regions, rewinds, by atomic step | |
| `DiagnosticBuffer` | the capped buffer | |
| `RecordDrive` | one drive of the NDJSON record route over a range of bytes: the reference for the feed and the live routes | |
| `ResidentFeed` | the feed behind its C interface | `RecordDrive`, `DiagnosticBuffer` |
| `FollowTail` | `--follow` and a framed stdin, with the writer and the rotation beside them | `RecordDrive` |
| `FilePublication` | `--output`, `--in-place`, `--edit` and `--split-exp` onto a disk that forgets | |
| `FilterNodes` | values, operators and the tree of a filter's nodes | |
| `FilterMeaning` | what a filter means, with no frame in sight: the reference for the machine | `FilterNodes` |
| `FrameMachine` | the engine's eighteen core frames | `FilterNodes` |
| `MachineMeaning` | the machine against the reference | `FrameMachine`, `FilterMeaning` |
| `FoldLemmas` | lemmas on sums over a finite set, concatenated sequences and folds | |
| `...Proofs` | theorems about the module they are named for; `MorselRelayProofs` begins with those about `OrderedRecords`, and `RecordStreamProofs` is about `RecordDrive`, `ResidentFeed` and `FollowTail` | |
| `MC...` | the instances TLC checks | |

Variables keep the source's names (`in_flight_records`, `offered_slot`,
`owns_slab` as `owns`, `stream_base` as `base`). An action is named for the
function or the branch it is; an operator whose comment begins with "Mutant:"
is a bug that the code does not have, kept to show that a property would see it.

### 2.1 Workers and coordinator

A call of the coordinator's client is one step unless it reads the workers more
than once: `poll_next` looks at one task slot per step (`ScanSkip`,
`JoinOutcome`, `JoinFault`), and a drain joins one task or drops one result per
step, because workers run in between. A worker ends in two steps, as in
`NotifyOnDrop`: it sets its flag, and then signals and exits; `is_finished` is
true after the first, `join` returns after the second. Which calls a client may
make is its last answer's business (`Dispatch` needs no offer outstanding, and
so on); beyond that the client is arbitrary, and `MorselRelay` is one of them.

What a worker's drive computes is not modelled: a unit has a set of ways to end
(`CanEnd`), an input size and a result size. Bodies end with a clean record, a
terminal (diagnostics, a failed drive, an unavailable worker), or a fault
(memory, control, panic, a child ledger left dirty, cancellation).

### 2.2 The relay

`MorselRelay` runs one request: sources of zero to five morsels, among them one
that publishes nothing, one whose worker may be refused or panic, one that
serial itself fails in, and one longer than the window. The caller's sink may
take part of a morsel, fail, or stop; the host may stop; the redrive repeats the
request behind `SkippingSink`. A byte is the pair of its morsel and its place in
it. `CleanMorselLaw` is an assumption, stated as one: a worker that ends cleanly
has staged exactly the bytes serial writes over its range. It is the fact that
the record lane gets from one record per line, and the value lane from
`ValueShards`.

### 2.3 The scan

`AdjacentReader` reads bytes by role (bracket, quote, escape, digit, space,
feed, other): where a value begins and ends, never what it is. `ValueShards`
takes one round of `ValueShardScan::next` per step, with `partition_request`
proving two cuts and the relay pulling the rest. `LaneReadsSerial` is the
argument in `boundary.rs` ("The soundness argument") as a formula: if the drive
reads every shard to its end, it has read what serial reads of the whole.

### 2.4 Ledgers and envelopes

No ledger is shared by two threads, so a call is one step and the interleavings
are those of calls. `Allocate`, `Deallocate` and `DeallocateForeign` are the
allocator's hooks on the thread whose slot holds the account; the last frees a
block that was charged elsewhere or never (a block older than the scope), which
the code books, clamped, against the current account. A result remembers whether
its charge died with the child ledger (`died`) and what is kept for it after
adoption (`kept`). Frees of that kind are what `foreign` remembers: an account
that was given back bytes it never charged promises soundness and cover, and no
longer exact books.

### 2.5 The slab

Each atomic operation on `LIVE_SCOPES`, `BUMP` and `LIVE_BLOCKS` is a step. A
load and the compare-exchange that succeeds on it are one step, because a failed
exchange changes nothing and is tried again; so are taking and leaving
`QUIESCE` with the operation beside it. Scopes nest and are dropped last in,
first out; a guard may be dropped under a view that is still live, which leaves
its account in the slot for good, as in the code. Two history
variables guard nothing and mark the race of finding 3: `late` is set while a reset
is at work that found no claim to give back, and `spoiled` from a claim made under
such a reset to the end of the next reset that finds its claim standing.

### 2.6 The feed

A byte is its role and its place in the stream, and the place stands for its
content: output and reports can be traced to the byte they came from. A value is
two bytes, so that a push can cut it. The reference is `Drive` over everything
accepted so far; the feed runs the same `Drive` over one batch at a time and adds
its bases. A poll with a buffer that is too small leaves the batch staged.

### 2.7 The live routes

The environment is part of `FollowTail`: a writer that appends a record in
several writes, a truncation, a rename, a new file under the old name, a writer
that reopens it, a pipe that closes. They act between any two steps of the loop,
and a step of the loop is one system call (`PollPath`, `Drain`, `ReopenPath`, `Size`,
`Read`, `ReadPipe`) or the computation behind it (`Cycle`, `RefuseHeld`,
`Rotated`, `Eof`). `offset`, `buffer` (the code's `retained`), `baseOffset`, `baseRecord`, `issues` and
`lastFailed` are the loop's own variables; `cursor` is the kernel's position of the descriptor, which
`offset` follows only where the code seeks or adds. A cycle drives the whole
records it holds with the same `Drive` the feed is compared with, and memory may
be refused in any cycle, before the drive or after any of its records. `history` and
`ended` are histories: what was read of the stream, what was shown for it, and
whether a refusal made part of it be dropped (`torn`). `ShownIsWholeRun` claims nothing
of a stream that was torn, since the code then gives what follows no true place, nor
of one with a byte order mark past its first byte (`MarkedOnce`): each cycle is framed
from its own beginning, and the one that begins with the mark skips it (section 5).

### 2.8 File output

`FilePublication` has two disks. `disk[i]` is a file's bytes in the page cache and
on the platter; `journal` is the sequence of directory states since the last sync,
and a loss of power picks any of them, and the platter's bytes for any files it
likes. A write goes to the cache, possibly a chunk late, since `BufWriter` stands
before it; `Sync` copies cache to platter; `SyncParent` cuts the journal to its
last state, or fails in silence, as `sync_parent` does. A writing is the pair of
its process and its item, and a file's contents are a writing and the number of
its chunks, or a mixture. A system call may fail anywhere (`Fails`), and what the
failure unwinds is in `Abandon`: `CliWriter::drop` and `write_atomic`'s
cleanups. The three routes differ in where the drive stands: before the file is
opened (`edit`), after it (`whole`), or between files (`split`), where an item may
also be given up after its file was opened (`Skip`).

### 2.9 The frame machine

A filter is a tree; a node is named by its path, which stands for the arena index
and, for a binder or a label, for its slot. `FrameMachine` holds what `Machine`
holds: the frames, the pending task with its continuation, the binders, the error
in flight with the continuation it was raised at, and the suppression depth. There
is one action for each evaluator (`EvalBinary`, `EvalTry`, `EvalCounted`...) and
one for each way the top frame moves (`FireChoice`, `NextChild`, `Publish`...);
`Route`, `TrimSpent`, `CutCountedSource`, `RaiseClamp` and `PopTo` are the functions
of those names. `Route` calls itself, in the code, from a consumer that hands its
value on: a value's way down the stack is one walk, so the model carries the walk's
state (`Sent`, `Visit`) past each frame, and makes the cuts of the countdowns it
spent on the way back (`CutAll`). `FilterMeaning` gives the same filter its ordered
outputs and its end by structural recursion; it was written from the node families'
documents and the semantics of jq, and shares only values, operators and the tree
with the machine (`FilterNodes`).

## 3. What is checked

| run | instance | distinct states | shows |
|---|---|---|---|
| `ordered_records` | 3 slots, 2 permits, 4 units of 3 kinds, any client | 573 289 | every ordinal is in one place, the ledger and the permits agree with what is in flight; no `InternalContract`; no lost wake; nothing after a stop; calls return |
| `morsel_relay` | 2 workers, 4 slots, 5 sources of up to 5 morsels, both tails | 71 484 | the request implements `SerialStream`; every exit is clean; it ends |
| `value_shards` | every input of up to 4 pieces and every one of up to 4 bytes | 120 567 | shards tile, a decline is first, nothing is dropped, the lane reads what serial reads |
| `emergency_slab` | 3 threads, 2 regions, 4 bytes at an odd address | 344 471 | the counts are exact; a reset that found its claim standing is alone; nothing but the race of finding 3 takes single ownership, disjoint regions or a fresh slab away |
| `one_owner` | the same | violation | finding 3 |
| `task_grants` | 2 envelopes of 5 bytes under a ceiling of 11, foreign frees of 1 and 3 bytes | 293 308 | ledgers stay sound and workers covered, whatever is freed; the parent's books are exact on every path; the quiescence check is exact; the ceiling binds the sum |
| `resident_feed` | 2 profiles, streams of up to 8 bytes, pushes of up to 4, buffers of 1 and 6, 6 bytes retained | 74 335 | the host gets what one drive would give it; no record leaves the window early; finishing ends |
| `follow_tail` | a file, a pipe and a stdin, 2 inodes, 5 bytes written, 2 events, reads of 2 bytes, 2 bytes held at most; marks in the pipe's and the stdin's | 394 954 | what is shown is one run over the file; what is read is a file from its beginning; a drain is whole; the held bytes are bounded; the loop catches up |
| `malformed_is_told` | the same | violation | finding 1 |
| `file_publication` | 2 processes, 2 destinations, 5 pairs of plans, 2 chunks, 1 failure, 1 crash | 725 795 | destinations are whole; what was synced stays; nothing is left behind; success means published; a failure has a cause, but in the item behind a skipped one |
| `frame_machine` | 73 947 filters over `[1, null]` | 1 071 286 | the machine answers what the filter means; the stack is sound; suppression regions close |
| `try_is_quiet` | one filter | violation | finding 2 |

Every property of a passing run has a mutant of mapped code that breaks it under
the same configuration.

**Bounds, and why they are enough.** The coordinator's behaviour depends on
whether the ring wraps, whether a permit or the window runs out first, and
whether a result waits behind a slower one. With three slots, two permits and
four ordinals all three happen, and the fourth ordinal lands on the first's ring
slot; the theorems cover larger values. The relay has the ring `2 * workers`
that `concurrency_window` gives it, and five morsels for four slots. The scan's
targets (1 for the first shard, 3 after it) put cuts inside the inputs; its
pieces are chosen to hold everything a boundary could be mistaken for, and the
short raw inputs hold the rest. The slab is given three threads: one to drop, one to
reset, one to claim (two are enough for the race of finding 3, one of them being the
thread that resets); an odd address and a layout aligned to two make padding
matter. An envelope is given bytes in three categories and the ceiling admits both
envelopes and little beside; foreign frees come while at most one envelope is out
(`ForeignBound`), which is enough to meet each kind of byte another owner stands
for. The feed's batch bounds (2 records, 4 bytes), its
retained cap and its diagnostic cap are each reached. The live
routes' reads are shorter than a record and their cap shorter than the longest, so
that a record comes in several reads and some never fit; two inodes and two events
give a rename after a truncation, and a rename of what replaced the first. A
destination that exists and one that does not, outputs of two chunks, one failure
and one crash at any point are what the paths of `output.rs` tell apart; the
theorems cover every number of each. Every node family stands in every operand
position of every other, over operands that answer nothing, once, twice, and once
before they raise; a third level of nesting gave nothing that two did not.
`MaxOrdinal`, `MaxDepth`, `MaxLive`, `MaxPiece`, `Rooms`, `MaxBytes`, `MaxEvents`,
`MaxFaults` and `MaxCrashes` bound what the environment does and nothing the code
does.

**Deadlock** is checked except where a request or a run really ends
(`morsel_relay`, `value_shards`, `follow_tail`, `file_publication`,
`frame_machine`, and the violation runs on the follow tail and the frame machine).

**Fairness.** `CallsReturn` and `RequestEnds` assume that the thread inside a
call keeps running (weak fairness of its steps) and that a worker's body ends and
then signals: a morsel is finite and its drive looks at the control at every
cooperative pause. The client is not assumed to call anything. `EndIsReached`
assumes a host that polls again and again with a buffer of `max_retained_bytes`,
which is the cap on a batch. `CatchesUp` assumes that the loop goes on: it sleeps
for a bounded time (`FOLLOW_POLL_INTERVAL`) and holds no lock a writer could keep;
nothing makes a writer write, so it is a promise about what happens once it has
stopped. Nothing is assumed of `QUIESCE`, a spin lock without
fairness, so no liveness is claimed of the slab.

## 4. What is proved

The theorems hold for every value of the constants that satisfies the named
assumptions (`ScopeAssumption`, `OrderedAssumption`, `ShardAssumption`,
`RelayAssumption`, `CleanMorselLaw`, `SlabAssumption`, `GrantsAssumption`,
`DriveAssumption`, `FeedAssumption`, `StreamAssumption`, `FollowAssumption`,
`PublicationAssumption`; `FrameMachine` needs none), which TLC evaluates in the runs. Most of these bound nothing but types. Two say more: `CleanMorselLaw`
(section 2.2), and `StreamAssumption`, that a byte order mark only ever begins a
stream; what the feed does with a later one is told at the end of section 5. The live
routes have no such assumption: there it is a condition of the one property it is about.

* `MorselRelayProofs`, of the coordinator. `TypeCorrect`, `EveryOrdinalInOnePlace`,
  `PermitsFollowThreads`, `WakeupsAreKept`, `StopIsFinal`, `RingIsSound`,
  `LedgerAlwaysExact`, `ContractsNeverFail`. The inductive invariant says where the
  ordinals are: every task and every ring slot holds one of the window
  `next_release..next_dispatch - 1`, each its own, and no ordinal is missing until a
  drain begins. A ring slot can then only collide if
  the window exceeds the ring, which the admission test rules out. It needs
  `PermitInv` (handles, permits and threads correspond), `CountInv` (tasks and
  results add up to the records in flight), `OfferInv`, `CursorInv` (a drain has
  emptied what its cursor has passed), and for the wake `PendingInv`: whoever is
  told to wait has nothing ready at the frontier. The ledger theorem adds
  `Balanced` (at every step, drains included, the parent holds an envelope for each
  task and each ring slot's result) and `WindowCounts` (the counters are the counts
  and sums over the slots, while no drain is under way); the last one follows,
  because each check behind an `InternalContract` compares a counter with a part of
  what it counts.
* `MorselRelayProofs`, of the relay. `RelayIsAClient`: a relay's steps are the coordinator's
  steps under a client that keeps the contract, so all of the above holds in a
  request. `LaneIsLeftEmpty` then needs two facts of the relay: an ending answer is
  heard only from a complete lane (`EndingInv`), and whoever gives up drains before
  it routes (`LeavingInv`). `RelayIsSerial` is the refinement: a request implements
  `SerialStream`, step by step. Each ordinal is the morsel in its place in the source
  (`JobInv`); until a stop only clean results have been released (`CleanInv`), and by
  `CleanMorselLaw` serial does not stop in those morsels and writes the same bytes. So
  what is out is the released morsels and the written part of the offered one
  (`PublishInv`), which is a beginning of the serial answer, and all of it when the
  lane completes (`FinishInv`, `AllReleasedInv`, `ResultInv`); the redrive then skips
  exactly what is out (`RedriveInv`).
* `ValueShardsProofs`. `ScanIsTyped`, `ShardsTileTheInput`, `RelaySeesNoDecline`,
  `EndMeansAllCut`, `LaneReadsWhatSerialReads`, for every input. `next_morsel` reads a
  declined scan as an exhausted one; the third theorem is why that loses nothing. The
  last is the soundness argument of `boundary.rs`: the values the shards hold, each
  read on its own, are those serial reads. A shard that is read to its end ends
  between two values, so the serial reader, which gets there with the same bytes
  behind it, is there at rest too (`Alike`: two readers that differ only by where they
  began and by what was read before); and every shard but the last ends on a closing
  bracket (`EndsInv`), so that no word or number goes on across a cut.
* `EmergencySlabProofs`. `SlabTypeCorrect`, `CountersAreExact`,
  `StandingResetsAreAlone`, `NothingElseSpoils`, for any number of threads and
  regions. The invariant follows a reset that found its claim standing through its
  four places (`ResetInv`): whoever is past the look at the regions has found none,
  and none can be made, because only an owner makes a first region and such a reset
  runs with no scope live. Nothing is assumed of what came before, so this holds
  after the race of finding 3 as well, and the end of such a reset makes the slab as
  new. `NothingElseSpoils` is conditional, and says exactly on what: a sound slab
  (one owner, its claim standing, regions apart, fresh when unclaimed) is lost by a
  claim made while a reset is at work that found no claim (`spoiled`), which the code
  allows, and by no other step; the next reset that finds its claim standing brings
  it back.
* `TaskGrantsProofs`. `GrantsTypeCorrect`, `LedgersAreSound`, `WorkersAreCovered`,
  `QuietCheckIsExact`, `ParentIsExact`, `CeilingBindsEveryone`, for every finite
  set of envelopes and every ceiling. Soundness is a property of one ledger that
  charge and release preserve (`ChargedSound`, `ReleasedSound`); the rest is an
  account of what each step does to each ledger's books. `ParentInv` says, category by category, that the request's ledger
  is its own live bytes and the sum over the envelopes; the ceiling follows, because
  what a worker owns is covered by its envelope.
* `RecordStreamProofs`, of the feed. `FeedInvHolds`, `FeedTyped`, `WindowIsExact`,
  `FeedGivesTheRoute`, for every stream, profile, room and bound, and however the host
  pushes, polls, finishes and frees. `FeedIsRoute` is not inductive: it compares with
  the drive of the whole stream, of which the feed has not yet seen the rest. The
  invariant `FeedInv` compares with the drive of the stream up to where the feed is
  (`Whole(profile, stream, At)`). `Placed` says where that is: the held bytes are the
  stretch of the stream from `base` on, and both cuts follow a line feed, or end a
  finished stream. `Counted`: the ordinals are the records up to there. `Live`: what
  was delivered is what that drive gives, and that drive has not stopped. `Dead`: a
  feed that died did so in one batch, at the fault at which the drive of the stream up
  to the batch's end stops. A batch keeps it by two facts of the drive, both proved
  for every range. A drive only ever adds to what it published and reported, and after
  a stop nothing (`DriveAdds`); and driving a batch as a stream of its own is, record
  by record, driving the whole stream from the cut on, with ordinals and offsets
  moved by what lies before it (`DrivesAlike`): which is what `record_issue` adds. So
  the batch's reports, rebased, continue the stream's, and what the drive of the
  longer range gives begins with what was delivered.
* `RecordStreamProofs`, of the live routes. `TailInvHolds`, `NothingIsSkipped`, `RotationLosesNothing`,
  `MemoryIsBounded`, for every chunk and cap, any number of files, writes, truncations
  and rotations, and whatever a refused drive left undone. That what was read is a
  beginning of a file says nothing of the next read. The invariant `TailInv` speaks of
  single bytes instead. `Apart`: no byte stands at two places, since the writer numbers
  what it writes (`written`). `Aligned`: each byte read was, at the place it has in what
  was read, in some contents of some file. A stream whose bytes are all of one contents
  is then a beginning of it. A read keeps `Aligned` where the descriptor stands at the
  length of what was read, and `Standing` says where in the loop it does: `offset` is
  that length between two looks, and the descriptor is at `offset` once `Size` has
  sought there. It is not so in a drain that a truncation preceded, which reads from
  where the descriptor was left; `PollPath` remembers that (`stale`), and the two
  properties are about the other drains. `Draining`: what was due when the
  rotation was seen is still a beginning of the renamed file, which nobody cuts any
  more, and so is what was read; a read that gets nothing then has got all. `Holding`
  bounds the held bytes by what each place of the loop may add.
  `ShownIsTheWholeRun` is about what is shown of what was read. `Showing` says where the
  loop is in its stream: the buffer is the stretch behind `baseOffset`, a cut; `baseRecord`
  counts the records before it; and what was shown is what one drive of the bytes up to
  there shows. A cycle drives the next stretch, which with its reports moved by the bases
  continues that drive (`PartsShowWhole`, by `DrivesAlike` as in the feed; no fault stops
  a drive under the recovering profile, `NeverStops`, and its cap does not matter,
  `CapDoesNotShow`). A refused cycle shows a beginning of that and the bases move all the
  same. From then on what was shown is a subsequence, and it stays one
  because a later cycle adds at the end of both sides (`SomeAndNext`). What a loop that
  ends has shown is compared with all it read, the held tail included where it was driven
  (`LastDriveShows`).
* `FoldLemmas` says what the recursive operators of the community modules compute:
  `SumFunctionOnSet`, for the ledgers (one place changes, all are zero, one function
  is below another); `FlattenSeq`, for `RelayIsSerial` and the lane; `FoldLeft` over the
  positions of a sequence, stage by stage, for the serial reader and the record
  drive. Each lemma takes a counterexample of least size and contradicts it.
* `FilePublicationProofs`. `TypesHold`, `TargetsStayWhole`, `SyncedStays`,
  `NothingStaysBehind`, `SuccessPublishes`, `FailureIsCaused`, for every number of
  processes, destinations, chunks, failures and crashes, and every plan. The
  invariant has a part for the disk and one for each process. `Naming`: in any
  directory a loss of power may leave, an inode has one name; no inode is ever at two
  destinations; one that is at a temporary name now was never at another. `Owned`: an
  open file is at no destination but the one its writer writes directly, and an
  atomic writer's is its own. `Settled`: in all those directories a guarded
  destination shows what it may, whole, with the platter equal to the cache, so that
  it does not matter which of the two is left. Of a process: `Placed` (where it
  stands), `Filled` (how much of its writing is in its file, and that it is synced
  before the rename), `Kept` (its temporary name is there until the rename, unless the
  writer of the item just skipped removed it), `Tidy` (every temporary name has a process that
  will remove or rename it), `Told` (what it has published and what it ends on). A
  destination is guarded if only atomic plans write it: `--no-atomic` opens the
  destination's own inode and promises none of this.

* `FrameMachineProofs`. `Settles`, `StackStaysSound`, `RegionsAllClose`, for every
  filter and every input. `StackIsSound` is not inductive: what a countdown's cut
  leaves standing depends on where the frames above it route. The invariant
  `Settled` says of every frame that it routes below itself and holds what its kind
  must (`Live`), of every pending task that it routes into the stack, and that the
  suppression depth is no more than the regions on the stack, which an alternative
  that has passed a value may fall short of. The steps that only push or pop keep it
  at once; the work is in `Route`. Its walk keeps `WayOK`: while the value is under
  way nothing is pending, the walk is below every countdown it has spent, and the
  stack is no higher than where the source of each ended; when it stops, at most one
  frame stands above such an end, and it routes below the countdown (`Parks`), so that
  a cut may take the countdown and its source out from under it. The cuts are made
  last spent first, and each leaves a stack that is shorter or untouched (`Beyond`),
  which keeps the next one sound. A raise pops its barrier with all above it
  (`RaiseSettles`), and an empty stack has no region left to leave (`BareStack`).

Only model-checked: `AnswersTheFilter`, whose reference `FilterMeaning` is recursive
over filters, and every liveness property.

## 5. Findings

1. `malformed_is_told`. `docs/streaming.md:34-35` says that "a stream that had a
   malformed record cannot exit clean". `drive_range` (`record.rs:841`) maps a drive
   whose last value failed to an outcome without its report, so the malformed
   records of that cycle never reach `error_issues`; a clean cycle after it then
   clears `last_value_error`, and the stream exits 0.
2. `try_is_quiet`. `jqf-builtins/src/error/mismatch.rs:16-17` says that a cell in a
   try body "fires no event under any position". An alternative leaves its
   suppression region at every truthy output (`dispatch/binary.rs:556`) and its
   frame's pop leaves it again; within a `try` the second exit takes the try's own
   level, and in `try ((1 // 2), (null + 1)) catch 9` the addition is noted.
3. `one_owner`. `ambient.rs:16-17` says of the scope word that "sharing one atomic
   makes claim and healthy-scope admission race-free", `ambient.rs:180` that an
   install publishes its scope "without racing slab claim or reset", and `slab.rs:3`
   that "the first thread that trips owns this bump; later threads get null". The
   last drop decides to rewind before it holds `QUIESCE`, and `rewind_slab`
   (`ambient.rs:214`) then looks at the live count again but not at `RESET_PENDING`.
   If another scope has meanwhile reset the slab and dropped, the rewind goes on over
   a slab nobody claims, and an install that finds the bit clear does not wait for
   `QUIESCE`: it is admitted, claims and is served between the rewind's look at
   `LIVE_BLOCKS` and its stores. Then the bump is set to 0 under the new owner's
   regions, so that its next allocation overlaps them, and the claim is cleared, so
   that the next thread to trip owns the slab too and an unclaimed slab is not
   fresh: `NoOverlap`, `ClaimStands` and `UnclaimedIsFresh` fall with `OneOwner`.
   `OnlyThatRaceSpoils` and its theorem show that nothing else breaks any of them:
   with the bit looked at again under the lock, no reset would be `late`.

Seen while modelling, without a run of their own.

* Lanes and ledgers. A refused worker stops the request as soon as it is joined,
  whatever its ordinal, so a refusal in a later morsel wins over the failure serial
  meets first (`docs/parallelism.md:35`). The scan drops a tail that is ASCII
  whitespace, where serial skips JSON's only: a form feed behind the last shard is
  accepted by the lane and rejected by serial. A free of a block
  from before the scope takes, clamped, whatever bytes it finds, an envelope's hold
  among them. A comment in `native.rs:143` says the parent never reserved the
  envelope it has reserved; `records/mod.rs:346` says the lane raises no error of its
  own, though a worker's memory refusal is returned.
* Feed. Each batch is framed as a stream of its own, so a byte order mark at the
  start of a later batch is skipped; the live routes do the same with each cycle.
  `jqf_feed_poll` returns 0 also for a batch that published nothing, with records
  still waiting; on a dead feed refused pushes may evict the death record from the
  diagnostics before the poll that tells it.
* Live routes. The comment on the drain speaks of the old file's entire tail, but
  what is written to it after the drain's last read is lost. A held tail that is
  refused is cleared without moving the base offset past it. A truncation resets
  `offset` and leaves the descriptor where it stood, which the next seek mends and
  a drain before it would not. At the end of a pipe a tail refused for memory hides
  an earlier `last_value_error`, and a cycle of blanks alone clears it. With input
  builtins the live window joins the old partial record with the new file's bytes.
  With `--split-exp` the `$index` restarts in every cycle (`args.rs:490-499`), and a
  refusal within an item leaves it open.
* Output. `jqf-sdk/src/drive/mod.rs:549-552` asks a sink to tolerate a `begin_item`
  that no `finish_item` follows, and "the next item opens normally".
  `SplitDestination::open` (`output.rs:92`) assigns the new writer over the one the
  skipped item left, whose drop removes the temporary name both share; the next
  item's rename then fails, though nothing else did, and a debug build stops at the
  assertion above it. The model has this path (`Skip`, `Stale`, `Prepare`, `Rename`);
  `FailureHasCause` and its theorem exempt exactly that item, and no other failure
  is without a cause.
  `halt` under `--output` or `--in-place` discards what was published,
  though the exit is 0. `routes/serve.rs:232` removes the lock file's name while
  the lock is held: a server that opened the file before that gets the lock of a file
  without a name, the next one makes and locks a new file, and unlinks the socket of
  the first, which the lock is there to prevent.
* Engine. Under `strict` an ordering across kinds raises before `raise_cont` is set
  (`binary.rs:178`, `309`). Suppression covers a try's consumers as well as its body,
  while the try's frame is on the stack.

## 6. What is left out

* Steps are sequentially consistent. The Release/Acquire pairs (the wake in
  `native.rs`, the slab's compare-exchanges) are taken on trust.
* Coordinator: the overflow checks of its 64-bit counters; the partial subtraction
  `join_finished` makes before it fails, which nobody can see because a drain
  follows.
* Slab: a failed compare-exchange (it changes nothing and is tried again); guards
  dropped in any but last-in, first-out order.
* Ledgers: peaks, input, output and spill counters, output permits, nesting
  depth, probe mode, the ambient `refused` latch, the grant's process-wide identity
  (`AdoptCrossed` stands for a mismatch). Storage served by the slab is charged to
  nobody and is left out of `TaskGrants`.
* Scan: values, numbers, commas and keys; depth beyond 32 bits.
* Feed: close, route and cost rows, the record size limit, carriage returns, a
  program's halt, a failed allocation, more than one feed on a handle.
* Live routes: failing reads, a closed stdout, the live window of `--follow` with
  input builtins, profiles other than the recovering one.
* File output: modes, owners, symbolic links (a destination is what they resolve
  to), colour, two names of one file, standard output.
* Engine: objects, calls of definitions, paths and updates, keyed folds, generators
  (`range`, `recurse`, `limit`'s kin are lowered to what is modelled), cursors and the
  drive's pauses; the compiler's analyses. Values are few: null, booleans, numbers,
  one string, arrays.
* Not modelled at all, with the reason in `PROJECT.json`: the server, argument
  parsing, route planning, the spill store, the edit splice, bindings and tools; and
  builtins, data, syntax and the codecs other than JSON's framing, which are
  sequential functions of large inputs and hold no state between calls: a model of
  one would be a second program, and its instances too small to tell the two apart.

## 7. Plan

What would come next, in order:

1. Output permits and nesting depth (`account.rs`), as actions of `TaskGrants`.
2. The server's sessions and its socket; the spill store's runs and merge.
3. Record partitions (`records/plan.rs`) against a reference: ranges tile the input
   and cut at line feeds only.
4. The remaining frames: calls of definitions with their closures, then paths.
5. Several feeds on one handle, which share a diagnostic buffer.

# vc2hqencode in TLA+

vc2hqencode is BBC R&D's encoder for VC-2 HQ pictures: a C++ library with a C
interface that transforms a picture with integer wavelets, chooses a quantiser
for each slice so that a picture fits the number of bytes the client asks for,
and writes the slices, whole or cut into fragments. It does both halves in
parallel on a pool of threads it starts itself. This directory holds a model of
its control in TLA+, the configurations with which TLC checks it, and proofs
that the TLA+ proof system checks.

Contents: inventory · modules and how they correspond to the code · runs ·
bounds · fairness · proofs · findings · what is not modelled · plan

## 1. Inventory

| Component | Source | State | Operations | Correct when |
|---|---|---|---|---|
| Barrier | `redist/threadbarrier.hpp` | `m_count`, `m_generation`, `m_unblocked`, the threads asleep on `m_cond` | `wait`, `unblock` | nobody passes before the last thread has arrived, everybody passes then; a wake-up is never lost; `unblock` frees all, for good |
| Thread pool | `vc2hqencode/ThreadPool.hpp`, `thread_group.hpp` | two barriers, `work`, `_stop`, `exceptions`, an `io_service` | `ready`, `post`, `execute`, `stop`; `_run` in each worker | a round runs all its jobs and no others, is over when `execute` returns, reports the jobs that threw; `stop` returns |
| asio scheduler | `redist/asio/detail/impl/scheduler.ipp` | `op_queue_`, `outstanding_work_`, `stopped_`, idle threads on `wakeup_event_` | `run`, `post`, `stop`, `restart`, `work_started`, `work_finished` | each operation is taken once; `run` returns when, and only when, nothing is outstanding or it was stopped; no thread sleeps while there is something to do |
| Encoder parameters: job partition | `VC2Encoder::setParams` | `mJobs`, `mJobData`, picture and slice sizes | one call | the jobs tile the picture, each with the padding its wavelet needs and inside the picture |
| Picture layout | second half of `VC2Encoder::encodeData`, `getExtraLengthForFragmentHeaders` | `mEncoderData` (540 entries), the output pointer | one call per picture | slices and output are shared out exactly, and the client's reservation suffices |
| Encoder life cycle | `VC2Encoder.hpp/.cpp`, `vc2hqencode.cpp` | `mParams`, `mPool`, `mJobData`, `mSlices16/32`, `mEncoderData`, `mJobsInFlight` | create, `set_parameters`, the encode calls, destroy, and each one's failures | a call that meets a freed object is explained by what went before; a picture reported as encoded is one |
| Slice serialiser | `serialise.hpp` | one partial's bytes, fragment headers, `final_offset` | `serialise_slices` | slices and padding fill exactly the partial's share; fragments name their slices |
| Rate control | `encode.cpp`, `quantiserselection.hpp` | slice lengths, the bytes left, quantiser indices | `encode_slices`, `choose_quantiser` | the sum of lengths stays within the partial; the quantiser is the smallest that fits |
| Quantiser, division | `quantise.*`, `intdivide.hpp` | multipliers and shifts | `Divisor`, `udiv`, quantiser tables | equal to division for every coefficient that a quantiser meets; a coarser quantiser never costs more bits |
| Entropy coder | `lut.hpp`, `encode_slice_component_optimised.hpp` | tables, the bit accumulator | code word of a coefficient, the bytes of a slice | a decoder reads back the coefficients that were quantised, from as many bytes as were counted |
| Stream headers | `stream.cpp`, `startSequence` to `endSequence` in `VC2Encoder.cpp` | sequence and picture header bytes, parse offsets | constructors, `setNextParseOffset`, `setPrevParseOffset`, `setPictureNumber`, `start...` | a decoder of the header finds the format the encoder works with; the chain of next and previous offsets a client builds is consistent |
| Wavelets | `vc2transform_c` and its SIMD counterparts | picture planes | one lifting level | SIMD equals C; a band with padding yields what the whole picture would |
| Formats, logger, statistics, debug output | `VideoFormat.hpp`, `logger.cpp`, `stats.cpp`, `debug.hpp` | tables, a log | – | – |
| Clients and tests | `testprogs/`, `testsuite/` | – | – | they state how the API is used |
| Vendored code | the rest of `redist/asio`, `testprogs/tclap` | – | – | – |

How they interact. The client's thread calls the C interface, which calls one
`VC2Encoder`. `setParams` stops the old pool, makes a new one and cuts the
picture into `mJobs` bands (job partition). `encodeData` makes two rounds on
the pool: `ready`, one `post` per band for `Transform`, `execute`; then `ready`,
one `post` per partial for `EncodePartial` (picture layout), `execute`. The
jobs of a round share no coefficients they write; the second round reads what
the first wrote, with nothing but `execute` in between. Each barrier is shared
by the workers and the client's thread, and the scheduler's queue likewise.

What is hard here. Two barriers and a work queue are synchronised only by the
order in which the pool uses them; jobs throw; `stop` meets threads in every
state; counters wrap; bands and shares come from truncating divisions that are
redone after every step; the same computation stands in the code two or three
times (two coefficient sizes, the reservation for fragments) and the copies have
to agree; parameters are checked after objects were deleted. Nothing is
persisted and nothing has a timeout, so there is no recovery and no retry.

## 2. The modules

    ThreadBarrier ──implements──> Rendezvous <──uses twice── ThreadPool
    Scheduler ────implements────> WorkQueue  <───uses──────── ThreadPool
    EncoderLifecycle   (on a pool that does what ThreadPool's runs show)
    JobPartition <──extends── BandTransform     one setParams, and its jobs' work
    PictureLayout      PartialEncoder       QuantiserSearch
    one encodeData     one partial of it    one slice of it
    Codewords <──extended by── Quantise, SliceCoding   the coefficients of a slice
    SequenceHeader <──extends── Stream          a client's data units
    Sums               used by PartialEncoder and Stream

    MCThreadBarrier, MCPartialEncoder, MCSliceCoding, MCStream: for TLC
    ThreadBarrierProofs, ThreadPoolProofs, SchedulerProofs, JobPartitionProofs,
    PictureLayoutProofs, PartialEncoderProofs, ClientProofs (EncoderLifecycle,
    Stream), SliceProofs (QuantiserSearch, SliceCoding): for TLAPS

**Rendezvous** is the contract of `barrier` without its mechanism: the threads
that wait, those that may leave, and whether it was cancelled.

**ThreadBarrier** is the class. It is a monitor, so all that happens between
taking and releasing `m_mutex` is one action. `wait()` is `EnterUnblocked`,
`EnterLast` or `EnterWait`, and then, for one who waits, rounds of `SpuriousWake`
(or being woken by `NotifyAll`), `SleepAgain` and `Return`; `unblock()` is
`Unblock`. `at` says where a thread is, `gen` is its local variable. `GenMod` is
the modulus at which `m_generation` wraps; the refinement maps a thread in
`wait()` to "arrived" while the loop's condition would hold it, and to "leaving"
otherwise.

**ThreadPool** is composed of two instances of Rendezvous and the scheduler's
three variables. A worker goes through `_run` with `pc`:

| code | actions |
|---|---|
| `start_barrier.wait()`, `stop_barrier.wait()` | `WaitForStart`, `WaitForStop` (`ReleaseWorkers`, `WaitForWorkers` for main) |
| the three `if (_stop) return` | `CheckStop` |
| `io_service::run` | `Run`, then `TakeJob`, `RunJob`, `FinishJob` for each job, `LeaveRun` |
| `work_finished` reaching 0 → `stop()` | `StopScheduler`, a step of its own as it takes the mutex after the counter was decremented |
| `catch(...)` | `Catch` |
| `ready` | `BeginRound`, `Reset`, `NewWork`, `ReleaseWorkers` |
| `post` | `Post` |
| `execute` | `DeleteWork`, `MainStopsScheduler`, `WaitForWorkers`, `ReturnExceptions` |
| `stop` | `SetStop`, `UnblockStart`, `UnblockStop`, `DropWork`, `StopService`, `JoinAll` |

`work` begins as null or "unassigned": no constructor sets the member. Deleting
an unassigned pointer ends the program or happens to be harmless. History
variables record which job ran in which round.

**WorkQueue** is what users of asio's `io_service` rely on: threads inside `run()`
take the queued operations in order, stay until the scheduler is stopped or
their operation throws, and the one that finishes the last outstanding work stops
it. Its `Restart` has a condition on the user: nobody is in `run()`.

**Scheduler** is `detail::scheduler` as the pool configures it (no reactor, more
than one thread) with `std_event`. The mutex makes a monitor, so one turn of
`do_run_one`'s loop is one action (`Turn`: `TakeOp`, `LeaveRun` or `Sleep`). Three
things happen outside the mutex and are steps of their own: the atomic counter
(`PostBegin` before `PostPush`; `FinishOp` before `StopLast`; `DropWork` before
`StopByWork`), `notify_one` after unlocking (`NotifyOther`, `NotifyWorker`), and
the operation. `waiters` and `signalled` are the two halves of `state_`; a thread
that was woken is still counted in it until it has the mutex (`WakeUp`).

ThreadPool has asio's queue but not its event: there a worker's step is not
enabled until there is a job or the scheduler was stopped. `UsesWorkQueue`
shows that it uses the queue as WorkQueue says, so the two meet in one contract.

**EncoderLifecycle** is the C interface over one `VC2Encoder`. An action is one way
through a call, up to the `throw` or the access it ends with:

| code | actions |
|---|---|
| `setParams` 128-138 | `SetWhileBusy`: refused, after `mParams` and `mEncoderData` were replaced |
| 140-143, `stop()` of a pool freed before, or never used | `SetStopsDeadPool`, `SetStopsUnusedPool` |
| 243-272 | `SetSliceSize`: refused, with pool and jobs deleted |
| 296-307 | `SetDeletesTwice`, when a slice buffer was deleted by an earlier call |
| 275-523 | `SetConfigures`, refused at its end for a wavelet, format or depth without kernels |
| `encodeData` 636-667 | `EncodeUnknownFormat` |
| 638-663, before any `setParams` came as far as the jobs | `EncodeNotConfigured` |
| 639-663, jobs that were deleted | `EncodeDeadJobs` |
| 669-849 | `EncodePicture`: two rounds (`Round`), `EncodeHalfConfigured` |
| destructor | `DestroyStopsDeadPool`, `DestroyStopsUnusedPool`, `DestroyDeletesTwice`, `DestroyAll` |

Parameters are one of six kinds, by what becomes of them. `harm` records what
was touched that should not have been; `past` what happened to this client
before. `left` is what a round left in the pool's queue. The client may encode
whatever `set_parameters` answered, or without having called it: `encodeData` looks at
none of that. Parameters that were never set may name any input format.

**PartialEncoder** is `EncodePartial`: `encode_slices` (`FirstPass` and
`LaterPass`, one slice each, `PassEnds`, `Pad`, `Check`) and then
`serialise_slices` (`WriteSlice`, `Finish`). Lengths are counted in bytes. What
`choose_quantiser` and the entropy coder make of a slice is one of `Triples`, any
of which may come up, also one that does not fit. `overreach` is the end of what
was stored to, as code words are stored four bytes at a time.

**QuantiserSearch** is `choose_quantiser` over a sequence of pictures. `Climb` and
`Halve` are one measurement each, `NextPicture` brings new content and begins where
the last search ended. A slice is the least quantiser its coefficients allow
(`qi_bl`) and the least with which it fits (`fits`).

**JobPartition** is `setParams` from the luma height to `get_slice_encoder`: one
action per job made, with the locals `i`, `slices_y` and `slices_already` under
their own names. The 16-bit and the 32-bit copies of the code differ in one
declaration (`LastNumber`). The size check is the one for 4:2:2 and 4:4:4, whose
chroma planes are as high as luma.

**BandTransform** goes on from there to what `VC2Encoder::Transform` makes of each
job: `TransformInitial` reads the lines of the window and fills the rows below
it, `TransformV` is one level. Instead of coefficients a row has a span, the
first and the last input line that they depend on, and beside the window the
same kernels transform the whole picture. What the 9/7 and 13/7 kernels leave unwritten
in the rows below it has a span of its own in the window and another one in the picture
(`LeftInWindow`, `LeftInPicture`), as these are different pieces of memory that nobody
initialised. The kernels walk a column with the
last few values in registers, and end it with a few copies of the loop that
repeat some of these; `Lifted`, `OddTaps`, `EvenTaps` and `Mirror` say which
neighbours that amounts to. `Least` is the number of rows a kernel reads without
looking at the height.

**Codewords** is the two tables of `lut.hpp`: `CWLUT`, the word of a quotient, and `WLLUT`, its
length in bits. **Quantise** is `quant_factor`, `Divisor<uint16_t>` and `udiv` on 16 bits, the tables
`QuantisationMatrices` makes with them, and how quantisers beyond 31 are made of
the last four tables and a shift. It has one variable, the magnitude of a
coefficient, that goes through all values.

**SliceCoding** takes the quotients through `encode_slice_component` (`EncodeSample`,
`EndComponent`), the room `encode_slices` makes for them or not (`BeginSlice`, or
`Blank`) and the bits that `serialise_slices` stores (`LengthByte`, `WriteWord`,
`Flush`). `optr` is a sequence of bits, of which a store overwrites 32 at a time.
`stage` is which of these loops is running. Where PartialEncoder has lengths only, this
has the contents of one slice. MCSliceCoding runs Quantise and SliceCoding one after the other.

**SequenceHeader** is the constructor of that class: `Header` lists the code words in
the order of the code, `Pack` and `Finish` make bytes of them. `mVideoFormat` is what
`setParams` makes of the same parameters, and a decoder, `ReadGroups`, is the
reference. Its readers are recursive functions of the place in the header where they
begin. Parameters are `Codable`, less than 65535, as `encode_uint` takes 16 bits.

**Stream** is a client that makes data units with one header: `StartSequence`,
`RepeatSequenceStart`, `StartPicture`, `StartAuxiliaryData`, `EndSequence`, and the
picture's data, whole (`EncodeData`) or in fragments (`BeginPartials`, one
`EncodePartial` per worker, in any order, and `Link`). A partial makes from one to
`MaxFragments` fragments. `units` is the output, of which
only the two distances in each parse info header are kept. The table has
`NFACTOR` entries and all are used: finding 2 is what happens otherwise.

**Sums** is the sum of a function's first values, for the loops that add up bytes.

**PictureLayout** is `encodeData` from the partials to its end. One action
per partial (`NextPartial`, `LastPartial`), one per entry linked (`Link`), and
then the loop of `getExtraLengthForFragmentHeaders` (`Measure`, `ExtraNext`,
`ExtraLast`), which computes from the same inputs how much the client has to
reserve and by how much its pointer advances. `CDiv` is C's truncating division,
as a short `length` makes the numbers negative. `getExtraLength...` takes an
unsigned length: what it does with one below four bytes a slice is any outcome
(`MeasureStarved`).

## 3. The runs

| Run | Shows |
|---|---|
| `barrier` | ThreadBarrier implements Rendezvous step by step, also across the wrap of the generation; a sleeper is one that must sleep; threads stay within one `wait()` of each other (`Lockstep`, on a history of crossings); whoever may go on returns; `unblock` empties the barrier for ever |
| `pool` | between rounds no worker is in `run()` (`Quiescent`), so `reset()` never meets a running scheduler and the client's thread may touch what jobs share; the scheduler is stopped in a round only when all is done, also when jobs throw; `execute` returns the number of failures, and all jobs ran unless every worker failed; a job runs in another round only after such a round; `execute` and `stop` return, in whatever state the workers are |
| `partition` | jobs tile the picture; their windows lie in it; their padding, made of `TRANSFORM_OVERLAP`, is what the kernels need: a band's slices depend on the same lines as in the picture transformed whole, or on leftovers where those do too (`BandAsPicture`), and that is only within an overlap of the bottom (`LeftoversStayLow`) |
| `small_picture` | the counterexample of finding 1 |
| `layout` | partials share out slices, rows and columns and output exactly; the table suffices; the reservation agrees with what was used |
| `layout_field` | the counterexample of finding 2 |
| `scheduler` | while operations wait and a worker sleeps, somebody is on the way to the queue, and nobody sleeps in a stopped scheduler (`NoLostWakeup`); the scheduler implements WorkQueue; a worker with something to do inside `run()` does it (`WorkersServe`) |
| `lifecycle` | each kind of memory error needs its own history (`HarmHasCause`), so a client that begins with `set_parameters`, stops after a refusal and encodes between two of them is safe; `BADTHREAD` means exactly that an encode threw before; an `OK` of an encode call means its jobs have run, if there are workers |
| `partial` | the bytes of a partial are those used and those remaining through all passes; slices and headers fill it exactly, but for the two cases `EndsWell` names; fragments describe their slices; no store reaches the next partial's output |
| `quantiser` | no measurement leaves the tables; the quantiser chosen is good (`ChoosesWell` says how good, and within which range); `FULL` and `HALF` recover after a coarse picture |
| `slice_coding` | the division by multiplication is exact for every 16-bit coefficient with every quantiser up to 31 the search may try on it, and close beyond; a coarser quantiser never makes a word longer, and no quotient leaves the tables; a decoder reads back each slice, from the bytes that were measured |
| `stream` | a decoder of the sequence header finds the encoder's video format, for every combination of flags; the distances between data units form a chain, forwards and backwards, in every order of calls and of workers |

Some of these say something conditional that a reader should know. `RoundComplete`
and `NoStrangers` except rounds in which *every* worker caught an exception: each
leaves `run()` for good, nobody is left to empty the queue, `execute` returns with
jobs still queued, and these are the first to run in the next round. `Tiling`
and `WindowsInPicture` are about pictures with more than two overlaps of slice
rows (`Roomy`), and so are `BandAsPicture` and `LeftoversStayLow`. `BandAsPicture` does not
say that all coefficients are the picture's: where those of the whole picture would depend on leftovers
in its memory, a band's depend on leftovers in its own. With the 9/7 and the 13/7 wavelet
that happens in every picture whose height has to be padded, such as 1080 lines
padded to 1088 at depth 4, in the lowest slices. `HarmHasCause` is a list of histories, not the absence of harm:
all ten kinds of it do occur. `ChoosesWell` has two limits. `QUARTER` and `EIGHTH`
never go below the last picture's quantiser, so they coarsen a slice for good;
`FULL` and `HALF` look at most three steps below it in one picture, and treat
`qi_bl` itself, when the floor is raised to it, as one that does not fit.
`EndsWell` excepts single-pass encoders: there a partial of more than
`4 + 3*255*2` bytes a slice loses bytes silently, where two passes would throw.
`DivisionExact` claims no more than that quotients are off by one with quantisers
from 32 on (by four in a subband of large weight), as the code's factors there are
twice those of four quantisers before, which `quant_factor` rounds.
`HeaderTellsFormat`, in the run and in its theorem, is about clients that give both ratios by index or both by value
(`RatiosAlike`), and `UnitsChain` about fragmented pictures whose `length` is a
multiple of the slice size scalar: section 6 says what happens otherwise.

### Bounds, and why they are enough

* Barrier: three threads give one that is last, one that sleeps and one that is
  being released at a time, and five crossings let the generation of three wrap
  and begin again. `MaxCrossings` is in `MCStep`; nobody inside has reached it, so it
  keeps no thread from returning. The safety proofs have no bounds.
* Pool: two workers are the fewest of which one can fail and one go on, or both
  fail. Three jobs leave one in the queue when two are taken. Two rounds show
  what one leaves for the next. `MaxRounds` is the guard of `BeginRound`.
* JobPartition: heights of the preset formats (frames and fields) and some that
  force odd divisions; `n_threads` 0 to 8 gives 1 to 32 planned jobs. `MaxTransformed`
  bounds the pictures that BandTransform goes on with: 243 lines, a field of the 486-line format, which at depth 4
  with slices of 16 lines is 16 rows, the last of them padded, two overlaps of the longest kernel (six rows
  each) and a few more, and many more at lesser depths. What a band needs depends on its edges, not on how far
  they are apart.
* PictureLayout: `NFACTOR` is 5, with pictures of fewer slices, about as many and
  several times as many slices, and rows that partials end in, at and beyond.
  Lengths run from below four bytes a slice to ample, fragments from none and
  smaller than one slice to many slices. `layout_field` has the real 540.

* Scheduler: of three workers two can sleep while one executes, or one sleep, one
  be woken and one come for the mutex. Three posts let a second be pushed before
  the first is taken, and a third after the queue ran empty. `MaxPosts` bounds
  `PostBegin`; entering, leaving, stopping and restarting are not bounded.
* EncoderLifecycle: two threads are the fewest of which one throws and one goes on.
  Three failures, and six batches of leftovers, let leftovers meet leftovers.
  `MaxFailures` and `MaxQueued` are in `WithinBounds`, which guards `Encode`; `set_parameters` is not bounded.
* PartialEncoder: `MAX_LENGTH` is 2 in place of 255, so that lengths at and beyond
  the limit occur; up to three slices (first, middle, last), fragments of one slice,
  of two (with and without a remainder) and of more than there are.
* QuantiserSearch: `MAX_QI` is 14 in place of 64, several times `QI_FIRST_INC` of
  each quality; slices that no quantiser makes fit are among them.
* Quantise: all magnitudes of a 16-bit coefficient, all weights in use but a few, and the real
  `MAX_QI`. `Chains` and `Stride` only cut the magnitudes into chains that TLC can explore
  side by side.
* SliceCoding: three samples with words of 1, 6 and 18 bits and of 4 (both signs) reach every
  offset in a byte and fill the accumulator; a second component meets what the first has
  stored ahead. The second shape has one sample and all 256 quotients. `MAX_LENGTH` is
  4 in place of 255, so that padding beyond it is passed on.
* Stream: with `MaxEnd`, behind which no call begins, up to ten units; two partials are one
  whose predecessor is the client's and one whose predecessor is another worker's;
  two fragments (`MaxFragments`) are one that follows another of its partial. `Followed`
  picks a few formats whose header is followed by pictures, as the others would repeat
  the same; headers are checked for all of them.

## 4. Fairness

`barrier` assumes `WF(Return(t))` (`MCFairness`): a woken thread gets the mutex in the end.
That is what a POSIX mutex held for a few instructions gives. Nobody is obliged to
call `wait()`; spurious wake-ups are allowed and never relied on. `pool`
assumes weak fairness of each worker and of main inside a call: threads are
scheduled, a barrier lets go whom it may (the liveness of the barrier), asio
wakes an idle thread when there is a job or it has been stopped, and the jobs are
finite loops over a picture. Main is *not* obliged to start a round or stop.
`scheduler` assumes weak fairness of each worker inside `run()` (a thread that
waits for the mutex gets it, operations are finite) and of the client inside a
call; nobody has to post, to enter `run()`, or to wake for nothing. `quantiser`
assumes that the client goes on encoding and each search goes on (`WF(Next)`); the
content is not obliged to settle. The other runs assume no fairness.

## 5. Proofs

### The barrier

`ThreadBarrierProofs` proves for every finite non-empty set of threads and every
`GenMod` of at least 2:

| Theorem | Statement |
|---|---|
| `BarrierInvariant` | `Spec => []IInv` |
| `BarrierType`, `BarrierLosesNoWakeup`, `BarrierOneBehind` | its parts `TypeOK`, `NoLostWakeup` and `OneBehind` |
| `BarrierImplementsRendezvous` | `Spec => ImplementsRendezvous` |
| `BarrierLockstep` | `MCSpec => []Lockstep` |

The inductive invariant is `TypeOK`, `CountMatches`, `NoLostWakeup` and
`OneBehind` together. `CountMatches` alone is not inductive: when the last thread
completes a round, all sleepers must stop counting as arrived, which needs their
`gen` to differ from the new generation, and a thread still on its way out of
the *last* round must not become "arrived" again when `m_generation` wraps. The
second is where `OneBehind` comes from: a thread that is leaving is exactly one
generation behind, and as it has not come back, the next round cannot complete
(`m_count` would not reach 1) and the generation cannot move on. So it needs
`CountMatches` in turn, and the fact that a round completes only with all
threads in it. `GenMod >= 2` is used once, for `g + 1 # g`.

The refinement follows from the invariant: `EnterLast` maps to `Complete` because
`m_count = 1` and `CountMatches` say that all others have arrived; `EnterWait`
maps to `Arrive` because somebody else is missing; `SleepAgain` and
`SpuriousWake` map to stutters.

`Lockstep` speaks of the history of crossings that MCThreadBarrier adds, so its
theorem is about `MCSpec`, each of whose steps is a step of the barrier
(`MCNextIsNext`). By itself "no two threads are more than one crossing apart" is not
inductive: nothing in it says who may cross next. `InStep` says it, in terms of
`Turns`, the crossings of a thread with the one it is about to make if it is leaving:
until somebody calls `unblock`, all threads have the same. It stays so because
nobody is leaving when the last thread completes a round (`EnterLastCompletes`, from
`CountMatches`), so the round counts once for each.

### The pool

`ThreadPoolProofs` proves for every finite non-empty set of workers, and any number
of jobs and rounds:

| Theorem | Statement |
|---|---|
| `PoolType` | `Spec => []TypeOK` |
| `PoolAccounting` | `Spec => []Accounting` |
| `PoolCrashOnlyUnused` | `Spec => []CrashOnlyUnused` |
| `PoolQuiescent` | `Spec => []Quiescent` |
| `PoolStoppedMeansDone` | `Spec => []StoppedMeansDone` |

There are three invariants, each inductive with the help of those before it.

1. `WorkInv` is `TypeOK` and `Accounting` with whose work is outstanding: the Work
   object lives while main is at "release" or "post" (`WorkLive`), every job in
   the queue or at a worker is of a round that began (`JobsKnown`), a pointer that
   nobody assigned belongs to an unused pool (`UnassignedUnused`). `TypeOK` is not
   inductive without `Accounting`: that `outstanding_work` stays a natural number when
   a job is finished is true because that job is counted in it. `Accounting` follows
   a job from the queue (`Len`) to a worker (`Cardinality`, one more) and away
   (one less on both sides).
2. `Phases` says that the pool rests, is in a round or comes to its end, and where
   a worker can be in each. The phase changes in three places: when the last thread
   arrives at `start_barrier` (rest to round), when the last one arrives at
   `stop_barrier` (round to rest) and in `SetStop`. It needs to know who is in
   which barrier, as `Complete` says only that everyone has arrived: a worker
   that is in a barrier is at that `wait()` and nowhere else. `Quiescent` is a part
   of it.
3. `StopInv` says that a thread about to stop the scheduler does so with nothing
   outstanding, and that this stays true until the scheduler is reset. Two steps
   could break it. `NewWork` raises the count, but then all workers rest
   (`Phases`); `Post` raises it, but the Work object is already counted
   (`WorkInv`), so nobody is about to stop anything.

The `ASSUME`s are `BarrierAssumption` and `PoolAssumption`: a finite set of
threads, which the constructor's argument gives, and not an empty one. The second is an
assumption of the model only: `n_threads` 0 passes `setParams` and the constructor,
and what a pool of no threads does is part of EncoderLifecycle (`Round`, `OkMeansEncoded`).
TLC evaluated `WorkInv`, `Phases` and `StopInv` on the instance of `pool`
before they were proved.

`UsesWorkQueue` (`PoolUsesWorkQueue`) follows from `WorkInv` and `Phases`: the only
step of the pool that WorkQueue forbids in some state is `Reset`, and `Phases`
says that all workers rest then.

The second half of the module goes on to what a round promises the client:

| Theorem | Statement |
|---|---|
| `PoolRoundComplete` | `Spec => []RoundComplete` |
| `PoolNoStrangers` | `Spec => []NoStrangers` |
| `PoolResultCountsFailures` | `Spec => []ResultCountsFailures` |

Again there are three invariants, on top of the first three.

1. `RoundInv`: while the scheduler is not stopped, a worker leaves `run()` only by
   an exception. So when the last one arrives at `stop_barrier`, either the
   scheduler was stopped, and by `StopInv` nothing was outstanding and the queue is
   empty, or every worker caught an exception. `RoundComplete` and `NoStrangers`
   are the two ends of that, with `Outcome` and `ResultSoFar` between them, which
   carry the number of exceptions from the last arrival to `ReturnExceptions`.
2. `JobsOnce`: a job is in one place. It is in the queue once, or at one worker, or
   has run; and it is none of these before it was posted.
3. `FailInv`: `exceptions` counts the workers that caught, plus those that are about
   to, and each of them stands for one failed job of this round. `JobsOnce` makes that
   a count of jobs: no two exceptions are of the same one.

### The scheduler

`SchedulerProofs` proves `SchedulerInvariant`, `SchedulerLosesNoWakeup` and
`SchedulerImplementsWorkQueue` for every finite set of workers and number of posts.
`NoLostWakeup` is inductive together with `Accounting` (the counter is exact, so
who reaches zero is the last) and `EventMatches`: `waiters` counts those in
`wait()`, and the event stays signalled while there is something to do, so a
thread woken for nothing, or late, does not fall asleep again. The step that
needs it is `Sleep`, the only one that clears the event, and it has found the
queue empty.

### The lifecycle

`ClientProofs` proves `HarmHasCause`, `BusyMeansFailed` and
`OkMeansEncoded` for any number of threads and failures. The invariant adds, to
what has gone wrong, what could: a dangling pointer (`Dangling`), a leftover job
and the table it points to (`Leftovers`), settings that do not match the buffers
(`Settings`) are each explained by `past` before anything touches them; jobs that are
NULL mean that no parameters came as far as them (`NeverConfigured`), and a new pool that
the latest call has run no jobs in it (`PoolUnused`).
`RoundLeaves` is the fact about the pool it rests on.

### The stream

The rest of `ClientProofs` is about Stream, for every set of formats, levels and lengths,
any number of partials and fragments, and any order of calls and of workers:

| Theorem | Statement |
|---|---|
| `StreamHeaderPacked` | `StreamSpec => []HeaderInv` |
| `StreamHeaderTellsFormat` | `StreamSpec => []HeaderTellsFormat` |
| `StreamUnits` | `WholeUnits` implies `StreamSpec => []UnitsInv` |
| `StreamUnitsChain` | `WholeUnits` implies `StreamSpec => []UnitsChain` |

`HeaderInv` says that the bits packed, those in the accumulator and the words still to
come are together the header, and at its end that the bytes are the header and ones.
What a decoder reads of them takes a lemma for each kind of field. A number's code is
its digits between markers, so the reader comes to the number after as many steps as it has
digits, which is proved by induction over the prefixes of the number; then the
values of a group, the group with its flag, the eight groups. The readers and the
concatenation of words are recursive functions, characterised by the equation they solve, and
the induction is over numbers (`AllNumbers`, see the partial encoder). `RatiosAlike` is needed for the two groups that
have a ratio and nowhere else, and numbers are `Codable`, so that their code has no more digits
than `encode_uint` makes.

`UnitsChain` is not inductive, as it speaks only of streams that are at rest. `Segment` is the
same for a stretch of the output: each unit in it leads to the next, is named by it as the one before,
and the last one ends where the stretch does. `UnitsInv` says what is a segment in each
phase. While partials are encoded (`PartialsInv`), the stretch before the picture is one, and so is
that of each worker who is done, with nothing in the others; `Adjoin` says that
the stretches lie one behind the other and end where the next unit will be. So workers can finish in any order:
when all are done, `Link` gives the first unit of each partial the last distance of the one before it,
which is all that keeps the stretches from being one. The end of `Adjoin` is where `WholeUnits` is used: lengths, less the
least possible, are multiples of the slice size scalar. Without that it is false (section 6).

Two tables of the model had overlapping `CASE` guards (in `mVideoFormat` and `WLLUT`), which TLC
resolved in the order written, but which define no function; the proofs found them, and
the guards are now disjoint.

### The job partition and the transform

`JobPartitionProofs` proves `PartitionTiling`, `PartitionWindowsInPicture`,
`PartitionPaddingSuffices` and, of BandTransform, `PartitionBandAsPicture` and
`PartitionLeftoversStayLow` for every
set of heights, slice heights, depths, wavelets and numbers of threads that
`PartitionAssumption` allows: positive heights, depths from 1 to 8.

`PlanInv` says what the parameters are at each step, and that the number of jobs
planned is 1 or at least 4. `TableInv` says of the table so far that each job
begins where the last one ended (`Chain`), has the rows and the padding it should
(`Full`) and reads the picture (`Fits`). It is stated for depths up to 4: a greater
depth reads past a row of `TRANSFORM_OVERLAP` and is refused at the end, with
whatever table was made. Two facts carry it. `FirstBand`: a first band of
`max(ceil(R/N), ov)` rows and its padding end before the last row, which needs
`N >= 4` and `R > 2 * ov`; the first is what `n_threads * 4` is for, the second is
`Roomy`, and finding 1 is what happens without it. `AbovePicture`: whatever ends a row
or more above the last one lies in the picture, as the rows cover it with less than
a row to spare.

The properties of BandTransform need more. `WindowInv`, of the table where there is room for two
bands, gives the sizes of the windows: above and below a band is a whole overlap, or
where the picture ends none, and no window is lower than two overlaps. `BandInv`, of
the transform (`BandInvariant`), says that after `l` levels the rows of the window are like the picture's
except `Lost(l)`, which is `Reach * (2^l - 1)`, rows at an end where the picture goes
on, and that a row is free of leftovers in both if it is at least `Lost(l)` lines above the last one
(`Dry`). `Reach` is the number of rows on either side that a row depends on in one
level. `Like` is the relation between a row of the window and one of the picture that the step preserves: they are
the same, with all lines from the input, or both depend on what lay in their own memory. That a
join of like spans is like (`LikeJoin`) rests on leftovers being less than any line, so that one of them in a join shows.
Four lemmas carry the step:

* `OddRowAgrees` and `EvenRowAgrees`: a row further from the lost ones than the lifting
  steps reach is the same function of like rows in the window and in the
  picture. Mirroring happens at both, but where the picture goes on only the window's rows
  within reach of that end are mirrored ones, and these are lost.
* `LevelDry`: the same for the rows that leftovers have not come to.
* `LostRows`: level `l` looks at rows `2^l` lines apart, and what it loses of them, in
  lines, is what takes `Lost(l)` to `Lost(l + 1)`.
* `OverlapIsLost`: `TRANSFORM_OVERLAP` is exactly `Lost(depth)`, for the wavelets and
  depths that the code accepts: the table has no line to spare, and none is missing.

BandTransform only goes on from JobPartition (`TransformsPlanned`: `TSpec` implies `Spec`),
so the theorems about the table hold of it as they stand. `MaxTransformed` is any
bound; the theorem does not use it.

### The picture layout

`PictureLayoutProofs` proves all six invariants of PictureLayout
(`LayoutSlicesShared`, `LayoutTableSuffices`, `LayoutOutputShared`,
`LayoutEvenShares`, `LayoutTrapsOnlyStarved`, `LayoutExtraAgrees`) for every size of
picture, length, fragment size and `NFACTOR` that `LayoutAssumption` allows.

1. `SlicesInv`: partial `k` begins at slice `(k-1) * n_slices`, and `n_slices * NFACTOR`
   is at least the number of slices, so the table suffices.
2. `BytesInv`, for a picture with at least four bytes a slice (`Enough`): what is left
   for `r` slices is between `q * r` and `(q+1) * r`, where `q` is the whole picture's
   body divided by its slices. Taking a share leaves it so, which is why the shares,
   computed anew from what is left after each partial, differ by no more than
   `EvenShares` says, and why none is starved.
3. `ReplayInv`: one function `R` gives the length remaining before each partial. The
   layout went through it, and the loop of `getExtraLengthForFragmentHeaders`, which
   begins again from the picture's length, goes through it too; what it has summed
   up to an entry is that entry's offset less the bytes of the partials before it.

### The partial encoder

`PartialEncoderProofs` proves the four properties of PartialEncoder for every number
of slices and size of the partial, every set of component lengths that
`choose_quantiser` may come to, every size of fragments, and every scalar that divides 4:

| Theorem | Statement |
|---|---|
| `PartialInvariant` | `Spec => []PartialInv` |
| `PartialBytesConserved` | `Spec => []BytesConserved` |
| `PartialEndsWell` | `Spec => []EndsWell` |
| `PartialFragmentsDescribeSlices` | `Spec => []FragmentsDescribeSlices` |
| `PartialNoOverreach` | `Spec => []NoOverreach` |

`PartialInv` has two halves.

1. `BytesInv`, about `encode_slices`. `Shared` (used and remaining bytes are the
   partial's) and `Enough` (four bytes for each slice to come) hold each other up:
   a share never falls below the four bytes of a blanked slice, because what
   remains is a multiple of the scalar (`OnGrid`) and so loses nothing to the
   division by it (`ShareOf`). `Sane` bounds each slice: by its length bytes always, by
   `Largest` when there is more than one pass. `Unpadded`, `ToPad` and `Padded` follow the
   padding: a slice gets none in the passes, then all it can hold, so bytes are
   left only when every slice is at `Largest`, which is what `EndsWell` says of a
   failure. `Sane` and `Padded` also show that nothing is refused later (`NoneRefused`).
2. `OutputInv`, about `serialise_slices`. `Position` is where the output is: at most the
   bytes given to the slices written and the headers begun, and exactly that if
   every slice fits (`AllFit`), because the padding is spread over the components as
   far as it goes (`SizeOf`). A store ends at most three bytes behind its slice
   (`StoredOf`), and every slice to come has at least four, so the last slice is the only one
   that needs care, and it gets it: `NoOverreach`. `FragmentCount` ties the slices
   written to the headers and `slices_til_next_frag_start`; `Placed` says that a slice
   lies behind a header exactly if it is of that fragment or a later one, and
   `Completed` and `NextFragment` carry the first slice's coordinates, which are
   filled in when the *next* fragment begins.

The sums in these are recursive functions. What they compute for every number of
summands is proved without an induction rule: if some number of summands were a
counterexample, there would be a least one (`LeastNumber`, from well-founded
minimality of the natural numbers), and its predecessor is none (`AllNumbers`).

TLC checked both halves on the instance of `partial` before they were proved.
`PartialAssumption` asks that the scalar divides 4 (the code has 1 or 2); the lengths
are any triples of natural numbers.

### The quantiser search

`SliceProofs` proves `MeasuresInTable` and `ChoosesWell` for every
`MAX_QI` and range of `qi_bl`. The invariant says that `qi_ceil` fits (or is at
`MAX_QI` or beyond) and `qi_floor` does not, or is `qi_bl`, or was never measured.

### The slice

The rest of `SliceProofs` is about `CodingSpec`, the steps of SliceCoding, for any
number of components and samples, quotients from 0 to 255, both kinds of slice (last of
its partial or not) and every scalar, padding and `MAX_LENGTH`:

| Theorem | Statement |
|---|---|
| `WordIs` | the word the tables give a coefficient is VC-2's code of it |
| `CodingInvariant` | `CodingSpec => []CodingInv` |
| `SliceBytesAsMeasured` | `CodingSpec => []BytesAsMeasured` |
| `SliceDecodesBack` | `CodingSpec => []DecodesBack` |

`CodingInv` is the types of the variables (`CodingType`) and two halves. `LengthsInv` says that the length of a component
is that of its words up to the last sample that is not 0, first in bits, then in bytes,
with the padding it took. `OutputInv` says that the components written stand in the output behind their length
bytes (`Stands`), and that of the current one the bits stored, followed by those in the
accumulator, are the words so far. Two facts carry a step. A store writes 32 bits at `ocounter`, and
whatever stood before `ocounter` stays as it was (`StoreIs`); what it writes behind the completed
bytes is not claimed to be anything until it has been written again. And the accumulator cannot overflow: seven bits at most wait after a store,
and a word has at most 18.

`WordIs` is about the table itself. Its entries 2e and 2e + 1 are entry e's
word with one more pair of bits, from which the table for a length follows from that for
the length before (`TableDoubles`, `PairsAreBits`); only the doubling is checked entry by
entry. The words of a component are put together with `FlattenSeq` of the community
modules, a recursive function inside, which the proof replaces by the one it computes (`Flat`).

The run's specification is MCSliceCoding's, which begins with Quantise's chains; TLC checked
`CodingInv` on its instance before it was proved.

### Proved and not in a run

`BarrierOneBehind`, `PoolAccounting`, `PoolCrashOnlyUnused`, `PartitionPaddingSuffices`,
`LayoutEvenShares`, `LayoutTrapsOnlyStarved` and the type invariants are statements of which the runs
check only what follows from them. They held on the instances of the runs before
they were proved.

### Only model-checked

Liveness (`EveryoneReleased`, `UnblockFreesAll`, `ExecuteReturns`, `StopReturns`,
`WorkersServe`, `Recovers`), which TLAPS does not prove; `DivisionExact` and
`CoarserIsShorter`, which are statements about 65536 magnitudes, the quantisers and a table of constants: they
hold by what the numbers are, no argument is shorter than trying them all, and
TLC does so (but for the choice of weights).

## 6. Findings

1. `setParams` gives the first of several jobs bottom padding, and the last one top padding,
   without looking whether the picture has those lines, and `Transform` reads
   `pad_t + height + pad_b` lines of the input. With a picture of 60 lines, the 9/7
   wavelet, depth 4 and slices of 16 lines one thread is enough: the first job reads 128 lines and
   its coefficients depend on what is behind the picture, while the last job has no rows
   and a height of -4. A field of QSIF525 (176x120, two fields) is that
   high, and slices of 16 lines are possible at depth 4 in 4:2:2 and 4:4:4. `transform.hpp:54`
   calls the table the padding comes from "the needed overlap in job data to keep
   from getting artifacts", and names no height for which it does not. (Run `small_picture`.)
2. After a fragmented picture, `encodeData` writes through all 540 entries of
   `mEncoderData` and returns the offset kept in entry 539. A picture with fewer
   partials, such as a 1080i field with 32x8 slices (510), leaves the rest as
   `new[]` did: the writes go astray and the `next_parse_offset` of
   `vc2hqencode.h:321` is not this picture's. (Run `layout_field`.)

Shown by the runs and not counted as findings: after any failed encode (one call with an
unknown input format will do) `set_parameters` answers `BADTHREAD` until the encoder is
destroyed, though no work is in progress. The log message there is "Params change whilst
working" (`VC2Encoder.cpp:136`), which is not true of that state; no line promises the opposite of
the refusal itself. After `BADPARAMS` for a slice size the pool and the jobs dangle, and the next
`set_parameters`, encode or destroy uses them; destroying an encoder that was
configured but never encoded deletes an unassigned pointer; encoding with one that was never
configured goes through jobs that do not exist.

In pictures whose height is padded the lowest slices of the 9/7 and 13/7 wavelets depend on memory
that was never initialised, so they differ between a band and the whole picture and
from run to run (`BandAsPicture` says where). No line of the repository says otherwise.

Two disagreements met while modelling bound what the run `stream` says, and TLC
refutes its two properties when they are let in:

* The sequence header writes the pixel aspect ratio's numerator and denominator
  when `frame_rate_index` is 0 (`stream.cpp:211`, below the comment "pixel aspect
  ratio"), where `setParams` asks `pixel_aspect_ratio_index` (`VC2Encoder.cpp:175`). With
  one ratio given by index and the other by value, all that follows is misread. Hence
  `RatiosAlike`.
* A fragmented picture's bytes are shared out in units of the slice size scalar
  (`VC2Encoder.cpp:699`), but the client's pointer advances by the whole `length`
  (`VC2Encoder.cpp:931`): with a scalar of 2 and an odd `length` the last fragment's
  distance, and the offset returned, are one byte short. Hence the even `Lengths`.

## 7. Not modelled

Data the control does not depend on (samples, coefficients, header fields other
than offsets), SIMD code, logging and statistics, the boost and NUMA variants
(`VC2_USE_BOOST`, `VC2_USE_NUMA`), the debug build that runs jobs in the caller.
`_stop` is a plain `bool` that main writes while a worker may read it; the
model lets such a read return the old or the new value, and after the barriers'
mutex the new one. Of asio only what the pool reaches is considered: no
reactor, no handlers posted from handlers. asio, tclap and the SIMD kernels are by
far the largest part of the files under `src/`; a share of the implementation that
counts them will stay small whatever is modelled of the encoder itself.

Of the stream headers, the choice of the level and the picture header's transform
parameters are left out. Two things there are plain from the code and need no model:
nothing assigns `mPictureNumber`, which is given to every fragment header
(`VC2Encoder.cpp:1121`), and a custom quantisation matrix is written into the header one level
short (`stream.cpp:367`) while the slices are quantised with the preset one.
`encode_uint` takes a `uint16_t` (`encode.cpp:51`): larger parameters are cut, and 65535 has
a word of 33 bits; SequenceHeader assumes that formats stay below (`Codable`). A `wavelet_depth` of 0 reads
`TRANSFORM_OVERLAP[..][-1]` (`VC2Encoder.cpp:330`) and is outside the model.

Of numbers: shares of the output are computed with unbounded integers, where the code multiplies in a
32-bit `int` (`n_slices*remaining_length`, `VC2Encoder.cpp:704` and 607); partials of less than four bytes a
slice, which `serialise.hpp:111` refuses, are no initial state of PartialEncoder; the length field of a
fragment header has 16 bits in the code and no width in the model.

Of the wavelets, the arithmetic of the lifting steps, the horizontal transforms (which
stay within a row, so they cannot tell a band from the picture), the V210 and fidelity
variants and all SIMD code are left out; `testsuite/test_transforms.cpp` compares SIMD with C.
Which weight a coefficient has, in what order a slice's coefficients are met, and the
specialised copies of the inner loop for each slice size are abstracted: any coefficient
may come next.

## 8. Plan

Done: the barrier, pool, scheduler, life cycle, partition, layout, partial, quantiser
search, quantiser, slice coding, headers, streams and the reach of the transforms; proofs
of every safety property that a run checks, but for the two about the quantiser's
numbers (section 5). Left:

1. Lifting: the arithmetic of one lifting step in 16 bits, whether it overflows for 10-bit
   input at depth 4.
2. The picture header's transform parameters and the choice of the level.

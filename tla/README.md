# vkminer in TLA+

vkminer is a Vulkan GPU miner: threads that mine, one per worker; a thread that
owns the pool connection; a thread that sends shares; and a REST API that
starts, pauses, stops, re-targets and re-profiles the miner while it runs. What
tests hardly reach is how these threads meet, what a pool, a driver or a killed
process does in between, and which of many orders and options a sequential part
is called with. That is what this project models, checks with TLC and proves
with TLAPS. The arithmetic of the hash functions is covered by the repository's
known-answer tests.

Paths below are relative to the repository's root (PROJECT.json prefixes them
with `src/`).

## 1. The system

| part | source | state | operations |
|---|---|---|---|
| control barrier | `src/api/api_control.cpp` | `g_state`, `g_pending`, `g_previous`, the park counters and generation, the posted pool request, the profile to restore; four atomics read without the lock | request a run state, request a pool or profile, park, settle, roll back, expire, take and apply a pool change, acknowledge, restore, release all |
| mining worker | `src/scheduler/worker.cpp` | its copy of the work, extranonce2 counter, nonce, kernel, dispatches in flight, the algorithm it is bound to | notice a park, adopt a job, rebuild the header, build a kernel, dispatch, reap, roll, submit |
| stratum thread | `src/stratum/stratum_thread.c` | `stratum_session`, `stratum_need_reset`, `stratum_down`, `g_work`, `stratum.url` | hold, reset, connect, publish, take a pool change, wait for a line |
| stratum protocol | `src/stratum/stratum.c` | `sctx->job`, `new_job`, extranonce sizes, the socket | subscribe, authorize, notify, set_*, reconnect, replies |
| share accounts | `src/core/work.c` | submit id, ring of pending entries, counters, the workio queue | claim an id, submit, record, send, drop, match a reply |
| shared table | `backends/vulkan/{vulkan_backend,shared_state,vulkan_kernel}.cpp` | a weak reference, a pin and a lock per device; contents and key per table | would_fit, create_kernel, ensure, dispatch, collect, retain |
| command ring, pipelines | `backends/vulkan/` | slots and fences, compiled programs, one being built ahead | begin, submit, wait, retire |
| start-up, shutdown | `src/main.cpp` | backend, threads, the switch hook | switch_algorithm, release_devices |
| API server | `src/api/api_server.cpp`, `api_http.c`, `api_routes.cpp`, ... | one socket at a time | serve one request |
| algorithms | `algorithms/` | one object per algorithm, ProgPoW's epoch, light cache and program | prepare, full_hash, retarget, kernels, spec_for |
| device fit | `backends/vulkan/` | limits of a device, budgets, pieces of a table | describe, fit, retune, upload, generate |
| tuner, cache, self-test, replay | `src/*.cpp`, `src/scheduler/candidate_log.cpp` | a file of tunings, a file of captures | sweep, store, load, test, capture, replay |
| options | `src/core/options.c` | the settings | parse the command line and files |
| sensors, sockets, logs | `src/core/`, `src/net/` | | driver and library calls |

How they interact. The **API thread** posts a change into the control block and
waits on its condition variable. **Workers** read one atomic at the top of
their loop, drain, give their kernel back and call `control_park`; the last one
in lands the change or, for a pool change, hands it to the **stratum thread**,
which is the only one that may replace the url (and, through a hook, the
algorithm) and acknowledges it once the new pool has answered. That thread
publishes jobs in `g_work`; a worker copies the newest, and builds a header of
its own on it from `sctx->job` under `work_lock`. What it finds goes on a queue
to the **workio thread**, which checks the share's session and sends it;
replies come back on the stratum thread, which looks the share up by id.
Workers of one device share a table of gigabytes through the backend.

Where it is hard: two generations of a park overlapping; a deadline or a
worker's failure ending a change that another thread is in the middle of;
urls, jobs and sessions held in two places; a job replaced under dispatches
that are still running; a reply faster than the thread that records its share;
a table refilled between a check and a use; a program compiled ahead of a job
that never comes; a process that ends while a worker is anywhere at all. The list, line by line, is
`hazards` in PROJECT.json, with the properties that address each.

## 2. The modules

| module | models | run by | proofs |
|---|---|---|---|
| `Control` | the barrier: all of `api_control.cpp`, the park side of a worker, the connect side of the stratum thread, the API thread | `MCControl` | `ControlProofs` |
| `RunContract` | the abstract promise to a manager polling `/control/state` | (refined by `Control`) | safety half, in `ControlProofs` |
| `Session` | notify to sent share: stratum thread, workers with a pipeline of dispatches, workio thread | itself | `SessionProofs` |
| `ShareBook` | submit ids, ring, queue, counters, replies | `MCShareBook` | `ShareBookProofs` |
| `SharedTable` | the workers of one device and its DAG table | `MCSharedTable` | `SharedTableProofs` |
| `Stratum` | the protocol client line by line, both dialects, through reconnects | itself | `StratumProofs` |
| `Kernel` | one Vulkan kernel: ring, fences, dispatches, the program of a period, the pipeline built ahead and the one retired | itself | `KernelProofs` |
| `Process` | `main`, every thread's life, the switch of the algorithm, the ways a run ends, giving the devices back | itself | `ProcessProofs` |
| `Algorithms`, `ProgPow` | the algorithms' classes; ProgPoW on the host | `MCFunctions` | |
| `DeviceFit`, `Startup` | enumeration, memory, batches, tables in pieces; nonce split, self-test, tuner, cache, captures | `MCFunctions` | |
| `Api`, `Options` | requests, routes, handlers, figures; command line and configuration files | `MCFunctions` | |

An action is one critical section, or one read or write outside a lock that
another thread can observe; definitions have the code's names where there is
one. A definition that no specification uses, named after another with
something added (`retarget_kept`), is a wrong version of it: the one a plausible
slip in that code would be, kept to show that a property notices.

**Control.** `ctl` is one record, because every field of it is behind `g_lock`
(or is an atomic written under it); the `*_locked` helpers are functions from
record to record and an action applies them as the code calls them:
`UpToDate` is the settle-then-expire that begins every request, `TermsOf` the
three flags a run state carries. A worker goes `top -> terms -> enter -> parked
-> left -> top`; `terms` is there because a worker reads what kind of park it
is outside the lock. The stratum thread is in one of its three calls of
`control_pool_apply` (`site`): in the stop hold, in the connect loop, or behind
it; each treats the url differently. `surl` is `stratum.url`: the calls copy it from
`rpc_url` (`stratum_take_url`), and any pool that is dialled or connected to may
move it to one of `Redirect` by `client.reconnect`, before its answer to
authorize (`DialFails`), in place of the one to extranonce.subscribe
(`DialSucceedsAndMoves`) or once the session is up (`stratum_reconnect`). Two
history variables say what a url stands for: `origin`, the pool it was copied
from, and `stranded`, that a stop has cleared the reset which was to copy it
anew. `hook` and `swap` are separate states, so
a deadline can fall between them. Time is two flags: `late` (the deadline of
the change has passed) and `throttled` (inside the minimum interval).

**Session.** A connection is a number and a job carries the one it was read
from; a header is the job its coinbase came from plus an extranonce2. A work
has both the job it was issued as (id, target, session) and the header, since
the code keeps them apart and they can differ. The Bitcoin dialect is modelled,
the one with a coinbase to roll. `tested` and `rescans` are history variables
kept only when `Record` is set.

**ShareBook.** A share has a serial number the code does not have: it is what
ids are meant to tell apart. Unlocked increments are a read and a write. The
pool answers any share it was sent, in any order, or never.

**SharedTable.** Tables live in slots; `weak` is the backend's weak reference,
`pinned` its one strong reference, a kernel holds another; a slot nobody holds
is free. A table's epoch stands for its size. `PostPark`/`Unpark` stand for the
barrier, reduced to what a worker sees of it: the park flag, the terms and the
generation.

**Stratum.** `inbox` is what the pool has sent and the thread has not read. A
notify is its number, and `sctx->job` is kept in the parts a notify writes one
after the other, each with the number it came from: a notify that is refused
halfway leaves its number in some parts only. Each
line carries, beside what it says, what the pool holds the connection to as it
sends it (`diff`, `target`, `conn`), which the miner does not see; a notify
hands that to its job (`due_diff`, `due_target`), what the miner makes of it is
computed by the handlers, and the property compares the two.

**Kernel.** A program is the key of its period, an epoch is so many periods. A
dispatch carries a number and the results in a slot carry the number of the
dispatch that left them, so that a slot read for another dispatch shows. The
device finishes any command buffer at any time, or never (`CollectTimesOut`,
after which the dispatch is forgotten and `lost` is set); compiles, submits and
waits fail up to `MaxFaults` times.

**Process.** `main` is a program counter over `main()` with every early return;
a worker's mining is one step on a device. `DeviceDies` leaves a worker in its
device for good. `kStopGrace`, hundreds of batches long, is modelled by what it
is for: it does not pass while a worker can still come to its next step. The
switch of the algorithm is the stratum thread's, in the order of
`switch_algorithm`: fit, self-test, name, tune; the barrier may let the workers
go at any of them.

**The function modules** have no variables. Data are kept as what the
properties tell apart: a push block is fields with their sources; a digest is
the bytes it was made of; a ProgPoW word has `W` bits, and its dataset and
keccak are uninterpreted while merges, math and program generation are
computed; a request is the lengths of its lines; a file is the entries it has,
torn or absent. `MCFunctions` has one state per case: a suite and the inputs of
a call, or of a short sequence of calls.

## 3. The runs

| run | instance | what it shows |
|---|---|---|
| `control_barrier` | 2 workers, all verbs and a pool change, 2 requests, redirects, shutdown at any time | counts exact (`ParkCount`), a change lands with its last worker (`NothingLeftToLand`), is carried out under a full park (`SwitchUnderPark`) and acknowledged by the pool it named or one that pool redirects to (`AckNamesThePool`), which is also what is dialled (`DialsConfiguredPool`) |
| `control_profile` | 2 workers, an algorithm change that can be refused, overdue, or fail to build and be restored; a connection that can give up; fairness for the clock and a polling manager only | flags never contradict (`FlagsAgree`); switching always ends (`SwitchEnds`) |
| `control_live` | 1 worker, 2 requests, redirects, fair threads | `WorkersReleased`, `StopDropsConnection`, and that the barrier implements `RunContract` with its fairness (`ImplementsContract`) |
| `session_shares` | 1 worker, 2 dispatches deep, 2 batches a range, 2 connections, 2 jobs, faults, failed builds | `InFlightUnderWork`, `SharesAreOfOneJob`, `DroppedSharesAreDead`, `PublishedWorkIsCurrent` |
| `session_live` | 1 worker, 3 publications, a park, history kept, fair threads | the pipeline keeps its depth (`TypeOK`), `NothingTestedTwice`, `NewestJobIsMined` |
| `share_book` | 2 workers, ring of 2, 3 ids that wrap, 4 shares, 2 sessions | a reply is booked on its own share (`RightShare`), counters never claim more than happened (`CountersCovered`), a reply with no entry is explained (`MissingIsExplained`) |
| `shared_table` | 2 workers, 3 epochs (one too large), a fork of the dataset's epoch, 2 changes, 2 parks, builds and fills that fail | `OneTable`, `ReadsOwnEpoch`, `PauseKeepsTable` |
| `protocol` | both dialects, 2 connections, 2 pushes of any kind (well formed, refused early, refused late) anywhere between the answers, 1 share | work is published at the difficulty or target in force (`TargetInForce`), a header is of one notify unless one was refused halfway (`HeaderOfOneJobUnlessRefused`), `HandshakeEnds` |
| `kernel` | depth 2, 3 programs over 2 epochs, 3 jobs, 2 faults, parks | every command buffer runs the program and dataset of its header (`ProgramOfTheHeader`), `collect` hands out the dispatch it popped (`ResultsOfTheDispatch`), pipelines outlive their dispatches (`PipelineOutlivesUnlessGivenUp`), a torn-down kernel leaves nothing (`NothingLeftBehind`), and dispatching goes on (`MiningGoesOn`) |
| `process` | 2 workers, every mode, either backend, every failure of start-up, a pause or switch, signals, dead devices | `DevicesGivenBack`, `NothingMinedUntested`, `ExitEnds` |
| `functions` | some 390,000 cases in 32 suites | the four groups below |

`functions` has four properties of its calls, each a conjunction of one per suite
of `MCFunctions`, where each is stated:

- `AlgorithmsKeepTheHeader`: push blocks carry the whole header and fit, a
  screening kernel drops no share, `fulltest` is the order of numbers, only
  kernels that run are offered, settings are of the last switch, HeavyHash's
  matrix is its own header's.
- `ProgPowIsOfOneEpoch`: programs use every register, merges lose nothing, a
  round reads every word of its line once, items and spans are of their own
  epochs whatever was cached or failed before, reserved memory is enough for
  every epoch declared, host re-hashing follows the epoch, shared memory fits.
- `DevicesRunWhatWasMeasured`: an index means one device, a kernel said to fit
  fits through any retuning, a table in pieces is written once and whole,
  specialisation constants keep apart, workers have nonces of their own, the
  self-test is the reference, bursts leave nothing behind, a sweep is no worse
  than its start, a tuning is used only for what it was measured on, the cache
  file is whole whenever the process is killed or a step of storing it fails, a
  replay finds the fault.
- `MinerDoesWhatWasAsked`: a request means the same however it is cut up,
  nothing changes the miner but an admitted POST, a profile is applied as a
  whole or not at all, figures add up and an exposition is whole or refused,
  the command line wins over files and the order of independent options does
  not matter.

One run shows the code doing other than a comment says, and is a finding:
`v_epoch`, two workers on one device at an epoch change. "The answer is a new
kernel" (`worker.cpp:994`); the first to rebuild is refused, as the other's
kernel still owns the old table, and the run ends.

### Bounds

The bounds are constants (`Max...`) and appear only in guards. Two requests are
what it takes for one to overlap, roll back or re-post over another, and a
status poll may come between any two steps; two workers are the least for one
to be late; one worker is enough where the property is of a single worker
against the stratum thread, and the proofs lift that to any number. A third
pool that nobody is configured for is where every redirect leads, so that a url
that has moved shows; `control_profile`, whose two properties do not look at a
url, has none (`--no-redirect`). Two
connections and two jobs are a loss and a replacement; a ring of two with four
shares is overwritten twice and three ids wrap. The epochs of `shared_table`
lie on both sides of the fork's change. Two pushes are a refused notify and the
one that follows, or a difficulty and the notify it waits for, on either side
of a reconnect. Three programs over two epochs let a build ahead be right, be
overtaken by an epoch and be for a job that never comes; two faults are one and
one more during its recovery. In `functions` the limits of the source are
scaled down (a request line of 6 bytes, 8-bit words, batches of 16 to 512) so
that the inputs lie on both sides of every one of them.

Deadlock is checked except in `ShareBook` and `SharedTable`, which end (every
share answered; the run stopped).

### Fairness

`SwitchEnds` assumes nothing of workers, pool or stratum thread: only that the
clock advances, that a caller inside a request is woken by the condition
variable or its own timeout, and that a manager polls (`control_status` is
where an overdue change is noticed). `control_live` adds that a parked worker
wakes (the wait is sliced to 100 ms) and that the stratum thread goes on, all
its waits being bounded. `session_live` assumes each thread's loop goes on: its
waits are sleeps, and the kernel reports a dispatch that does not come back.
`HandshakeEnds` assumes only that the stratum thread goes on: its reads time
out. `MiningGoesOn` assumes the worker and the build-ahead thread go on, not the
device, whose silence `collect` bounds. `ExitEnds` assumes that main and the
workers go on, except one whose device has died; nothing makes a signal, a
request or a switch's end happen. Nothing is assumed of what a pool does.

## 4. The proofs

Each theorem is for every value of the constants satisfying the named
assumptions (finite non-empty set of workers, bounds in Nat, and so on), so for
any number of workers, pools, jobs, epochs and requests.

Every inductive invariant below was first checked by TLC as an invariant of the
run's own instance, and several were strengthened there before they were proved.

**ControlProofs**: `TypeCorrect`, `CountsAreExact`, `SwitchIsUnderPark`,
`FlagsStayCoherent`. None is inductive alone. A full park is known only from
`g_parked_gen`, which has to be exact; that it is exact after a departure
depends on the generation in the worker's stack; that nothing is handed over
outside a park depends on the flags. The inductive invariant `BarrierInv` is
`TypeOK`, `HookNamesAlgo`, `FlagsAgree`, `ParkCount` and `SwitchUnderPark`
together. The lemmas of the first part say what each locked helper keeps
(`Keeps`) or opens, so that the steps cite `SettleKeeps` or `PostPoolOpens`
and never expand them; `Arrival`, `Departure`, `NewGeneration` and `QuietStep`
are the four things that can happen to the counts. On `BarrierInv` rest:

- `NothingIsLeftToLand`. `Rested` says what `settle_locked` would find to do,
  and `SettleRests` that one call of it is enough; the steps that write the
  block without calling it (the request taken, the clock, a restore posted)
  leave it at rest for reasons of their own.
- `AcksNameThePool`, of the pool that was asked for or one it redirects to
  (`SessionOf`). `UrlFollows` follows the url of a taken change from the
  copy `control_pool_apply` holds through `rpc_url` to `stratum.url`, or to the
  reset that will carry it there. A change rolled back while the stratum thread
  still carries it out, and the next one posted over it, are kept apart by
  `applied`, which is why the acknowledgement tests it.
- `DialsTheConfiguredPool`, for any pools, verbs and redirects. `UrlInStep` is
  that the session is with `origin` or where it redirected to, and that `origin`
  is `rpc_url` but between the swap and its caller's assignment or the reset it
  asked for. A stop that clears that reset is the one way out (`stranded`,
  section 5): a redirect moves `surl` away from `rpc_url` and not its `origin`.
- `KeepsContractUntilShutdown` and `ImplementsContractSafety`: the refinement of
  `RunContract` step by step, for `SwitchAlgo = {}`. A request may end an
  overdue change and begin its own in one critical section; that it does not
  also land its own there, which the contract has no step for, follows from
  `SwitchUnderPark`. The first theorem stops at `control_release_all`, after
  which the workers leave whatever is in flight; the second assumes a run that
  is not wound up. With algorithms to change to neither holds: a refusal that
  comes after the deadline rolls a settled miner back (section 5).

**SessionProofs**: `SessionTypeCorrect`, `DispatchesHashTheirWork`,
`NoWorkOfAnEarlierSession`, `ShareOfOneJob`, `NothingTestedTwiceHolds`,
`DroppedSharesAreDeadHolds`. `PipelineInv` adds to `InFlightUnderWork` that a
pipeline is full only on the way to being reaped. `ShareOfOneJob` takes
`FreshIds` as a hypothesis and rests on a book of jobs: every job anywhere has
been issued, and two issued jobs with one id are one job. Without the hypothesis
it is false (section 5). `NothingTestedTwiceHolds` rests on `FreshRanges`: what
a worker has tested lies below its counter, or below its nonce in the header it
is on. It assumes `~BuildMayFail`: with a failed build the flag
`xnonce2_armed` of the job before survives, the next round mines the header as
it was published, and TLC finds the property violated (section 5, Worker).
`DroppedSharesAreDeadHolds` assumes nothing: by `SessionLedger` whatever carries
an earlier session number came over a connection that is not the last one
opened, and no other can be up.

**ShareBookProofs**: `TypeCorrect`, `RightShareHolds`, `CountersCoveredHolds`,
`MissingIsExplainedHolds`. A reply is looked up by an id that wraps, in a ring
that overwrites. `IdInv` is that an id and a serial that are held anywhere together
stand for each other (`OneShareAnId`) and that serials are handed out once.
It rests on the guard of `claim_submit_id`: an id comes round only when no
share or entry with it is left, of 2^32 ids in the code.
`RingInv` adds that a share is in one place at a time (`NoShareTwice`) and that
the last `Size` recorded of those not answered yet are where the ring put them
(`RingFollowsLog`): a reply without an entry then leaves only the three
explanations. `AccountsInv` counts the shares between the
queue and the ring (`Transit`) and holds for the value a thread has read and
not yet written as well as for the counter, which is what an unlocked
increment needs.

**SharedTableProofs**: `TableTypeCorrect`, `OneTablePerDevice`,
`DispatchesReadTheirEpoch`, `PauseKeepsTheTable`. `ReadsOwnEpoch` is not
inductive since nothing is locked between `ensure` and the submit. `TableInv`
adds why that is safe: every kernel holds the one table, that table has the
size of its worker's epoch (`Sized`), a fill holds the lock and is not ready
(`Locked`), and a worker past the check relies on contents (`Checked`) that
only a worker of another epoch would replace; by the lemma `EpochsDiffer` two
epochs never have one size, so there is none. `Held` says who keeps the table
alive while a pause is under way.

**StratumProofs**: `TypeCorrect`, `HeaderIsOfOneJob`, `TargetIsInForce`.
`TargetInForce` compares what the thread computed with what the pool held the
connection to when it sent, with lines between the two that are not read yet.
`ForceInv` carries that over the inbox: each line was sent under what the line
before it left in force (`Chain`), and what was in force when the next line to
be read was sent is what the thread has now (`InStep`). The theorem assumes
`~EagerPool`, a pool that pushes nothing before it answers subscribe
(`GrantComesFirst`): `stratum_subscribe` takes the first line it reads for the
answer, so a difficulty pushed before it is dropped and the session opens with
the default one (`stratum.c` handles no method there).

**KernelProofs**: `KernelInvHolds` (with the types), `ProgramOfTheHeaderHolds`,
`ResultsOfTheDispatchHolds`, `PipelineOutlives`, `NothingLeftBehindHolds`,
`NothingIsRetired`. `KernelInv` says which pipelines exist and for what
(`PipesInv`), where the worker can be with which (`PlaceInv`), that the queue is
the stretch of the ring that ends before the next slot, so that the slot
`begin` takes is never one still waited for (`RingInv`, from the lemma `OneTurn`
on `%`), and that what the device runs is waited for unless it was given up
(`BusyInv`). New names for pipelines and dispatches are fresh by a pigeonhole
argument. `NothingIsRetired`: `retire` is there for a change of program under
dispatches, and a worker comes to a change of program only with its queue
drained or given up, so the place is never taken.

**ProcessProofs**: `DevicesAreGivenBack`, `NothingIsMinedUntested`.
`release_devices` looks at one number, so `ProcessInv` has that `g_live` is
exact (`LiveCount`, which needs that main creates no thread twice), that only a
counted worker holds a kernel, and that a worker counted only after the backend
is gone finds `g_stop` set before it comes to a device (`OutOfReach`). For the
self-test it follows the name of an algorithm from the request to the workers
(`Tested`).

**Only model-checked**: the liveness properties (`SwitchEnds`, `WorkersReleased`,
`StopDropsConnection`, `NewestJobIsMined`, `HandshakeEnds`, `MiningGoesOn`,
`ExitEnds`) and the fairness of `RunContract`, which are out of the prover's
reach; and the function suites, whose definitions fold over sequences or
recurse. Every invariant and action property of the other runs is a theorem.

## 5. Observed and not kept as runs

Stating the following as invariants of the modules, on the instances given,
has TLC show that the code does otherwise.

- `spc \in {"hook", "swap"} /\ ~ctl.shutdown => Parked = Worker` in `Control`,
  1 worker, `Target = {p2}`, `SwitchAlgo = {a2}`, 1 request: the deadline
  settles a change already taken (`api_control.cpp:371`) and lets the workers
  go while the stratum thread is in the hook or freeing `rpc_url`, though
  "every one is parked at the barrier for as long as this takes" (`:834`).
- `DialsConfiguredPool` without `stranded`, with `Verb = {"running", "stopped"}`,
  `Target = {p2}`, `Redirect = {}`, 1 worker and 3 requests (or as the run has
  it, by a shutdown after 2): a change posted to a stopped miner "is what the next start
  connects to" (`stratum_thread.c:471`), unless the stop found the thread in
  its connect loop: then it is taken behind that loop and the hold clears the
  reset that would have carried the url over (`:583`).
- `AckNamesThePool` with `surl = ctl.url` for `SessionOf(ctl.url)`, 1 worker,
  1 request: "A re-target is finished when the pool it named has this miner
  subscribed and authorized" (`stratum_thread.c:569`), but if that pool answers
  the handshake by a redirect, the retry dials where it pointed, and that pool's
  authorization is the ack. Nor is there a connection at every ack: a redirect
  in place of the answer to extranonce.subscribe closes it, and authorize says
  yes all the same (`stratum.c:633`).
- That a share is sent on the connection that issued its job, in `Session`
  with `N = 1`, `Depth = 1`, 2 connections, 1 share: "dropped rather than sent
  to a pool that never issued it" (`work.c:701`), but the session number moves
  only at the end of the handshake, and check and send are two steps.
- `SharesAreOfOneJob` with `FreshIds = FALSE`: `stratum_set_extranonce2`
  compares ids (`stratum_thread.c:164`), and "a job id is not unique"
  (`worker.cpp:1021`): a pool that uses one again has the new job's header
  submitted under the old job's target.
- `HeaderOfOneJobUnlessRefused` without its exception: "A refused notify leaves
  sctx->job as it was" (`stratum.c:1283`), but `stratum.c:930` on refuses after
  parts were replaced.
- `PipelineOutlivesUnlessGivenUp` without its exception, with
  `Keys = {2, 3}` and 1 fault: a dispatch given up after its timeout is
  forgotten, and the pipeline it runs is destroyed when the queue is empty
  (`vulkan_kernel.cpp:642`, comment at `:640`).

Properties above are stated around the following, which the models have.

- Stratum. A notify accepted inside an authorize that fails leaves `new_job`
  set, and its job is published as the next session's first
  (`stratum_thread.c:572`; comment at `:565`). A reply to a share of the last
  session read during authorize is taken for its answer (`stratum.c:581`).
  `next_target` is not cleared between sessions (`stratum.c:370`).
  `set_extranonce` changes sizes while the job keeps a coinbase of the old ones
  (`stratum.c:453`). `recv_line` loses what was buffered behind an empty line.
- Barrier. A refusal that arrives after its change was settled by the deadline
  rolls a settled miner back (`api_control.cpp:830`; `docs/api-rest.md:428`). A
  `start` lands before the miner is connected (`:255`; `docs/api-rest.md:496`).
  A profile whose pool never answers stands instead of being restored (`:367`;
  `docs/api-rest.md:514`). A second build that fails during a restore ends the
  run (`:760`; `worker.cpp:519`). A worker that read a pause's terms can be
  counted into a later stop with the table still pinned (`:536`; comment at
  `:608`), and a pause withdrawn while a worker is between noticing and pinning
  loses the table (`worker.cpp:905`).
- Worker. A recoverable build failure leaves `xnonce2_armed` as the last job
  set it (`worker.cpp:1015`; comment at `:615`). `end_nonce - batch` wraps when
  a batch is larger than a worker's range (`:1081`).
- Process. `release_devices` waits for workers only; the stratum thread may be
  in `switch_algorithm` (`main.cpp:318`; comment at `:325`) and the API thread
  in `collect_devices`. The API and stratum threads run before `control_init`
  and the hook are set (`:594`). A thread that cannot be created returns with
  `stats_lock` held (`:642`). A spurious wakeup ends the workio thread
  (`util.c:1029`).
- Devices. `CommandRing::create` destroys its pool twice when the buffers
  cannot be allocated (`command_ring.cpp:39`, `:81`). After a device without a
  compute queue an index means two devices (`vulkan_backend.cpp:598`). The
  self-test's cache is keyed by an address that another fork's vector may take
  (`self_test.cpp:124`; `progpow.cpp:346`). A kill between remove and rename
  leaves no cache file (`tune_cache.cpp:196`), nor does a rename that fails
  (`:197`).
- Share accounts. Two unlocked increments of `stale_share_count` (`work.c:509`,
  `:704`) may count one share of two. `ShareBook` has each as a load and a store
  and reaches the loss; `CountersCovered` only says that nothing is counted that
  did not happen. That no id is issued again while a share waits under it is an
  assumption of `claim_submit_id`, of 2^32 ids in the code.
- API. `GET /api/v1/pools/url` meets the prefix route of the pools first and is
  404, not 405. A HEAD that is refused is sent a body. A header near its limit
  is too large only if it comes in pieces, as line ends count only then
  (`api_http.c:112`, `:175`); a POST without a length is refused for a body
  only if the body has come already.

## 6. Not modelled, and why

The compression functions and the shaders: pure computation on whole words,
covered by known-answer tests. Driver calls behind logical devices, memory and
the pipeline cache's file; sockets, TLS and libcurl; sensors; logging: a call
succeeds or fails, and the modules that use them have both. Hash-rate averages,
latencies and the summary report: floating point over wall-clock time. The
fields that `system`, `config` and `algos` copy into JSON. Configuration files
that include each other in a circle, on which the parser does not end. Vendored
code. PROJECT.json lists each with its reason.

## 7. Plan

Built, in order of importance: barrier, session, share accounts, shared table;
then protocol, kernel, process, and the sequential code. What is left:

1. Proofs: the contract of a miner that does change algorithms (an abstract
   specification with a restored profile and a late refusal as steps of their
   own); lemmas about the operators of the function modules.
2. The width of the extranonce2 counter (`stratum_thread.c:168`): the theorem
   that no two workers build one header, and the worker counts for which
   truncation breaks it.
3. The stratum thread and the API thread in `Process` at the moment the backend
   is destroyed.

The project keeps to a dozen runs: a new module takes over a run whose question
it answers more fully, or joins one.

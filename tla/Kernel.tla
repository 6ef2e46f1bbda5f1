------------------------------- MODULE Kernel -------------------------------
(***************************************************************************)
(* One worker's Vulkan kernel: its ring of command buffers, the dispatches *)
(* in flight, the pipeline of the current program, the pipeline a change   *)
(* of program retires and the one a thread of its own builds ahead of the  *)
(* next change. Three actors: the worker that drives the kernel, the       *)
(* thread that builds ahead, and the device that runs what was submitted.  *)
(*                                                                         *)
(* A program is the key of its period; Periods periods make an epoch, and  *)
(* the length of the epoch's dataset is a constant of every pipeline. A    *)
(* dispatch carries a number, and so do the results it leaves behind.      *)
(***************************************************************************)
EXTENDS Integers, Sequences, FiniteSets

CONSTANTS Depth,      \* dispatches a kernel holds
          Keys,       \* the programs the jobs of a run ask for
          Periods,    \* programs of one epoch
          MaxJobs,    \* jobs a run gets
          MaxFaults   \* compiles, submits and waits that fail
ASSUME DepthAssumption == Depth \in Nat \ {0}
ASSUME KeysAssumption  == Keys \subseteq Nat /\ Periods \in Nat \ {0}

VARIABLES job,      \* the header's program
          algo,     \* the epoch the algorithm object is at (lines_)
          kernel,   \* the kernel, or none
          slots,    \* the ring's command buffers
          ahead,    \* the build-ahead thread
          pipes,    \* the pipelines that exist
          worker,   \* where the worker is, and the dispatch it popped
          jobs, faults,
          lost      \* a dispatch was given up while the device still had it

vars == <<job, algo, kernel, slots, ahead, pipes, worker, jobs, faults, lost>>

Epoch(key) == key \div Periods
Slot       == 0 .. Depth - 1
Id         == 0 .. 2 * Depth        \* enough to tell dispatches apart
None       == 0                     \* no pipeline
Pipe       == 1 .. 4 + Depth

NoKernel == [built |-> FALSE, pipe |-> None, retiring |-> None, key |-> 0,
             ready |-> FALSE, queue |-> <<>>, next |-> 0]
IdleSlot == [pending |-> FALSE, busy |-> FALSE, id |-> 0, out |-> 0, pipe |-> None,
             want |-> 0]
NotBuilding == [st |-> "none", key |-> 0, pipe |-> None]
At(place)   == [pc |-> place, after |-> "top", slot |-> 0, id |-> 0]

Init ==
    /\ job \in Keys
    /\ algo = 0
    /\ kernel = NoKernel
    /\ slots = [i \in Slot |-> IdleSlot]
    /\ ahead = NotBuilding
    /\ pipes = [p \in {} |-> 0]
    /\ worker = At("job")
    /\ jobs = 1 /\ faults = 0 /\ lost = FALSE

Inflight  == Len(kernel.queue)
Fault     == faults < MaxFaults /\ faults' = faults + 1
NewPipe   == CHOOSE p \in Pipe :     \* a handle no command buffer still names
                p \notin DOMAIN pipes \cup {slots[i].pipe : i \in Slot}
Made(p, key, lines) ==
    [q \in DOMAIN pipes \cup {p} |->
        IF q = p THEN [key |-> key, lines |-> lines] ELSE pipes[q]]
Without(ps, dead) == [q \in DOMAIN ps \ dead |-> ps[q]]
(* poll and wait: a slot is done when its fence has signalled; the ring's    *)
(* destructor waits for all of them.                                         *)
Done(i)    == ~slots[i].busy
DeviceIdle == \A i \in Slot : Done(i)
Drain(after) == worker' = [At("drain") EXCEPT !.after = after]

----------------------------------------------------------------------------
(* The device.                                                               *)

(* The results are in the readback buffer when the fence signals. Command    *)
(* buffers of one queue may overlap and end in any order.                    *)
DeviceFinishes(i) ==
    /\ slots[i].busy
    /\ slots' = [slots EXCEPT ![i].busy = FALSE, ![i].out = slots[i].id]
    /\ UNCHANGED <<job, algo, kernel, ahead, pipes, worker, jobs, faults, lost>>

(* build_program on the thread of its own: program_values reads lines_ when  *)
(* it runs, the pipeline exists when it is compiled.                         *)
AheadEnds ==
    /\ ahead.st = "building"
    /\ \/ /\ ahead' = [ahead EXCEPT !.st = "done", !.pipe = NewPipe]
          /\ pipes' = Made(NewPipe, ahead.key, algo)
          /\ UNCHANGED faults
       \/ /\ Fault
          /\ ahead' = [ahead EXCEPT !.st = "done"]
          /\ UNCHANGED pipes
    /\ UNCHANGED <<job, algo, kernel, slots, worker, jobs, lost>>

----------------------------------------------------------------------------
(* The worker's loop around the kernel.                                      *)

NewJob_undrained ==
    /\ worker.pc = "top"
    /\ jobs < MaxJobs
    /\ jobs' = jobs + 1
    /\ job' \in Keys \ {job}
    /\ worker' = At("job")
    /\ UNCHANGED <<algo, kernel, slots, ahead, pipes, faults, lost>>

(* A job of another program: the dispatches of the last one are collected    *)
(* before the header changes.                                                *)
NewJob ==
    /\ worker.pc = "top"
    /\ jobs < MaxJobs
    /\ jobs' = jobs + 1
    /\ job' \in Keys \ {job}
    /\ Drain("job")
    /\ UNCHANGED <<algo, kernel, slots, ahead, pipes, faults, lost>>

(* retarget: the algorithm moves to the header's epoch, and a kernel of      *)
(* another epoch is torn down; the thread that builds ahead may be reading   *)
(* the epoch's length meanwhile.                                             *)
Retarget ==
    /\ worker.pc = "job"
    /\ algo' = Epoch(job)
    /\ worker' = At(IF ~kernel.built THEN "build"
                    ELSE IF algo # Epoch(job) THEN "teardown" ELSE "top")
    /\ UNCHANGED <<job, kernel, slots, ahead, pipes, jobs, faults, lost>>

(* A control change drains the worker and drops its kernel; the next pass of *)
(* the loop builds another.                                                  *)
Park ==
    /\ worker.pc = "top"
    /\ jobs < MaxJobs
    /\ jobs' = jobs + 1
    /\ Drain("teardown")
    /\ UNCHANGED <<job, algo, kernel, slots, ahead, pipes, faults, lost>>

Teardown_detached ==
    /\ worker.pc = "teardown"
    /\ DeviceIdle
    /\ kernel' = NoKernel
    /\ slots' = [i \in Slot |-> IdleSlot]
    /\ pipes' = Without(pipes, {kernel.pipe, kernel.retiring})
    /\ worker' = At("build")
    /\ UNCHANGED <<job, algo, ahead, jobs, faults, lost>>

(* ~VulkanKernel: the thread is joined, the ring waits for the device to be  *)
(* idle, then the pipelines go.                                              *)
Teardown ==
    /\ worker.pc = "teardown"
    /\ ahead.st # "building"
    /\ DeviceIdle
    /\ kernel' = NoKernel
    /\ slots' = [i \in Slot |-> IdleSlot]
    /\ ahead' = NotBuilding
    /\ pipes' = Without(pipes, {kernel.pipe, kernel.retiring, ahead.pipe})
    /\ worker' = At("build")
    /\ UNCHANGED <<job, algo, jobs, faults, lost>>

(* init: buffers, ring and descriptor sets, and no pipeline yet, because the *)
(* program is part of it; an init that fails leaves nothing.                 *)
BuildKernel ==
    /\ worker.pc = "build"
    /\ \/ /\ kernel' = [NoKernel EXCEPT !.built = TRUE]
          /\ slots' = [i \in Slot |-> IdleSlot]
          /\ worker' = At("top")
          /\ UNCHANGED faults
       \/ Fault /\ UNCHANGED <<kernel, slots, worker>>
    /\ UNCHANGED <<job, algo, ahead, pipes, jobs, lost>>

----------------------------------------------------------------------------
(* prepare_program.                                                          *)

Loop_inverted ==
    /\ worker.pc = "top"
    /\ worker' = At(IF kernel.built THEN "teardown" ELSE "build")
    /\ UNCHANGED <<job, algo, kernel, slots, ahead, pipes, jobs, faults, lost>>

(* One pass of the loop, with a kernel or for one.                           *)
Loop ==
    /\ worker.pc = "top"
    /\ worker' = At(IF kernel.built THEN "prepare" ELSE "build")
    /\ UNCHANGED <<job, algo, kernel, slots, ahead, pipes, jobs, faults, lost>>

ProgramReady ==
    /\ worker.pc = "prepare"
    /\ kernel.ready /\ kernel.key = job
    /\ worker' = At("begin")
    /\ UNCHANGED <<job, algo, kernel, slots, ahead, pipes, jobs, faults, lost>>

(* retire: what the new pipeline replaces stays while a dispatch is in       *)
(* flight; a second one waits the device out.                                *)
Retired(old) ==
    IF old = None THEN [keep |-> kernel.retiring, gone |-> {}]
    ELSE [keep |-> IF Inflight > 0 THEN old ELSE None,
          gone |-> {kernel.retiring} \cup (IF Inflight > 0 THEN {} ELSE {old})]

(* start_ahead: the thread that compiles the next key's pipeline.            *)
StartAhead(key) == ahead' = [st |-> "building", key |-> key, pipe |-> None]

(* The swap, and the start of the thread that builds the key after it.       *)
Swap(p, made) ==
    LET r == Retired(kernel.pipe)
    IN  /\ kernel.pipe # None /\ kernel.retiring # None
              => DeviceIdle
        /\ kernel' = [kernel EXCEPT !.pipe = p, !.retiring = r.keep, !.key = job,
                                    !.ready = TRUE]
        /\ pipes' = Without(made, r.gone)
        /\ StartAhead(job + 1)
        /\ worker' = At("begin")

TakeAhead_unchecked ==
    /\ worker.pc = "prepare"
    /\ ~(kernel.ready /\ kernel.key = job)
    /\ ahead.st = "done" /\ ahead.pipe # None
    /\ Swap(ahead.pipe, pipes)
    /\ UNCHANGED <<job, algo, slots, jobs, faults, lost>>

(* The pipeline built ahead, when it is this program's.                      *)
TakeAhead ==
    /\ worker.pc = "prepare"
    /\ ~(kernel.ready /\ kernel.key = job)
    /\ ahead.st = "done" /\ ahead.pipe # None /\ ahead.key = job
    /\ Swap(ahead.pipe, pipes)
    /\ UNCHANGED <<job, algo, slots, jobs, faults, lost>>

(* Otherwise the program is compiled here, after the thread has ended and    *)
(* whatever it made has been dropped; a compile that fails drains the worker *)
(* and is tried again.                                                       *)
BuildProgram ==
    /\ worker.pc = "prepare"
    /\ ~(kernel.ready /\ kernel.key = job)
    /\ ahead.st # "building"
    /\ ~(ahead.st = "done" /\ ahead.pipe # None /\ ahead.key = job)
    /\ \/ /\ Swap(NewPipe, Without(Made(NewPipe, job, algo), {ahead.pipe}))
          /\ UNCHANGED <<job, algo, slots, jobs, faults, lost>>
       \/ /\ Fault
          /\ ahead' = NotBuilding
          /\ pipes' = Without(pipes, {ahead.pipe})
          /\ Drain("top")
          /\ UNCHANGED <<job, algo, kernel, slots, jobs, lost>>

----------------------------------------------------------------------------
(* dispatch and CommandRing.                                                 *)

Next1(i) == (i + 1) % Depth
FreshId  == CHOOSE n \in Id : /\ \A i \in Slot : slots[i].id # n /\ slots[i].out # n
                              /\ \A q \in 1 .. Inflight : kernel.queue[q].id # n

(* begin: the next command buffer of the ring, waited for when it is still   *)
(* pending.                                                                  *)
Begun(i) == i = kernel.next /\ Done(i)

(* submit: the fence is reset and the device has the command buffer.         *)
Submitted(i, id) ==
    [slots EXCEPT ![i] = [@ EXCEPT !.pending = TRUE, !.busy = TRUE, !.id = id,
                                   !.pipe = kernel.pipe, !.want = job]]

Dispatch ==
    /\ worker.pc = "begin"
    /\ Inflight < Depth
    /\ \E i \in Slot :
          /\ Begun(i)
          /\ slots' = Submitted(i, FreshId)
          /\ kernel' = [kernel EXCEPT !.next = Next1(i),
                            !.queue = Append(@, [slot |-> i, id |-> FreshId])]
    /\ worker' = At(IF Inflight + 1 >= Depth THEN "pop" ELSE "top")
    /\ UNCHANGED <<job, algo, ahead, pipes, jobs, faults, lost>>

DispatchFails_undrained ==
    /\ worker.pc = "begin"
    /\ Fault
    /\ kernel' = [kernel EXCEPT !.next = Next1(kernel.next)]
    /\ slots' = [slots EXCEPT ![kernel.next].pending = slots[kernel.next].busy]
    /\ worker' = At("top")
    /\ UNCHANGED <<job, algo, ahead, pipes, jobs, lost>>

(* A begin that waits ten seconds for nothing, or a submit that fails: the   *)
(* ring has moved on either way, and the worker drains.                      *)
DispatchFails ==
    /\ worker.pc = "begin"
    /\ Fault
    /\ kernel' = [kernel EXCEPT !.next = Next1(kernel.next)]
    /\ slots' = [slots EXCEPT ![kernel.next].pending = slots[kernel.next].busy]
    /\ Drain("top")
    /\ UNCHANGED <<job, algo, ahead, pipes, jobs, lost>>

----------------------------------------------------------------------------
(* collect: the oldest dispatch leaves the queue before anything can fail,   *)
(* and with it, when it was the last, the retired pipeline.                  *)

Pop(pc) ==
    LET e == Head(kernel.queue)
    IN  /\ kernel' = [kernel EXCEPT !.queue = Tail(@),
                          !.retiring = IF Inflight = 1 THEN None ELSE @]
        /\ pipes' = IF Inflight = 1 THEN Without(pipes, {kernel.retiring}) ELSE pipes
        /\ worker' = [worker EXCEPT !.pc = pc, !.slot = e.slot, !.id = e.id]
Reap ==
    /\ worker.pc = "pop"
    /\ Pop("wait")
    /\ UNCHANGED <<job, algo, slots, ahead, jobs, faults, lost>>
DrainPops ==
    /\ worker.pc = "drain" /\ Inflight > 0
    /\ Pop("drain_wait")
    /\ UNCHANGED <<job, algo, slots, ahead, jobs, faults, lost>>
Drained ==
    /\ worker.pc = "drain" /\ Inflight = 0
    /\ worker' = At(worker.after)
    /\ UNCHANGED <<job, algo, kernel, slots, ahead, pipes, jobs, faults, lost>>

(* poll: a slot that is not pending is done, whoever waited for it.          *)
Collect ==
    /\ worker.pc \in {"wait", "drain_wait"}
    /\ Done(worker.slot)
    /\ slots' = [slots EXCEPT ![worker.slot].pending = FALSE]
    /\ worker' = [worker EXCEPT !.pc = IF @ = "wait" THEN "read" ELSE "drain_read"]
    /\ UNCHANGED <<job, algo, kernel, ahead, pipes, jobs, faults, lost>>
ReadBack ==
    /\ worker.pc \in {"read", "drain_read"}
    /\ worker' = IF worker.pc = "read" THEN At("top")
                 ELSE [At("drain") EXCEPT !.after = worker.after]
    /\ UNCHANGED <<job, algo, kernel, slots, ahead, pipes, jobs, faults, lost>>

(* Seventy seconds without an answer: the dispatch is given up, the device   *)
(* may still be running it.                                                  *)
CollectTimesOut ==
    /\ worker.pc \in {"wait", "drain_wait"}
    /\ ~Done(worker.slot)
    /\ Fault
    /\ lost' = TRUE
    /\ worker' = IF worker.pc = "wait" THEN [At("drain") EXCEPT !.after = "top"]
                 ELSE [At("drain") EXCEPT !.after = worker.after]
    /\ UNCHANGED <<job, algo, kernel, slots, ahead, pipes, jobs>>

----------------------------------------------------------------------------
Device == \E i \in Slot : DeviceFinishes(i)
Work == \/ Retarget \/ Teardown \/ BuildKernel \/ Loop \/ ProgramReady
        \/ TakeAhead \/ BuildProgram \/ Dispatch \/ DispatchFails \/ Reap \/ DrainPops
        \/ Drained \/ Collect \/ ReadBack \/ CollectTimesOut
Next == Device \/ AheadEnds \/ NewJob \/ Park \/ Work
Spec == Init /\ [][Next]_vars /\ WF_vars(Work) /\ WF_vars(AheadEnds)
             /\ \A i \in Slot : WF_vars(DeviceFinishes(i))

----------------------------------------------------------------------------
(* Every dispatch the device runs was recorded with the pipeline of its own  *)
(* header's program, compiled for the dataset of that header's epoch: a      *)
(* pipeline built ahead, across a change of job or of epoch, is never run    *)
(* for another program (prepare_program, start_ahead, retarget).             *)
ProgramOfTheHeader ==
    \A i \in Slot : slots[i].busy /\ slots[i].pipe \in DOMAIN pipes =>
        pipes[slots[i].pipe] = [key |-> slots[i].want, lines |-> Epoch(slots[i].want)]

(* The readback that collect() hands out belongs to the dispatch it popped,  *)
(* though failed dispatches move the ring and not the queue.                 *)
ResultsOfTheDispatch ==
    worker.pc \in {"read", "drain_read"} => slots[worker.slot].out = worker.id

(* No pipeline is destroyed under a command buffer the device is executing,  *)
(* as long as no dispatch was given up (collect() forgets one it gave up).   *)
PipelineOutlivesUnlessGivenUp ==
    lost \/ \A i \in Slot : slots[i].busy => slots[i].pipe \in DOMAIN pipes

(* A kernel that is gone leaves no pipeline and no thread behind.            *)
NothingLeftBehind ==
    ~kernel.built => pipes = [p \in {} |-> 0] /\ ahead = NotBuilding

(* Whatever is compiled, given up or torn down, the worker comes back to     *)
(* dispatching.                                                              *)
MiningGoesOn == []<>(worker.pc = "begin")
=============================================================================

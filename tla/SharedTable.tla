---------------------------- MODULE SharedTable ----------------------------
(***************************************************************************)
(* The gigabyte table (a ProgPoW DAG) that the kernels on one device share: *)
(* workers of that device build kernels around it, have it filled for their *)
(* epoch, dispatch against it, pin it across a pause and rebuild for another *)
(* size when a job comes from another epoch.                                *)
(*                                                                          *)
(* The backend holds a weak reference to the last table it made            *)
(* (shared_[device]) and at most one strong one (pinned_[device]); kernels  *)
(* hold the others. lazy_lock_ makes would_fit, create_kernel's table part  *)
(* and retain_shared_state one step each; a table's own lock_ is held from  *)
(* FillBegins to the end of the fill. The algorithm does not change here,   *)
(* so a build that fails ends the run.                                      *)
(***************************************************************************)
EXTENDS Integers, FiniteSets

CONSTANTS
    Worker,           \* the mining threads on this device
    NoOne,            \* nobody: a table's lock is free
    Depth,            \* Kernel::queue_depth
    JobEpoch,         \* the seed epochs pools send jobs of
    TooLarge,         \* those of them whose table the device cannot be given
    BuildMayFail,     \* memory may run out, or a pipeline fail to build
    DagChangeEpoch,   \* Params::dagchange_epoch
    DagEpochMul,      \* Params::dag_epoch_mul
    DagFullOff,       \* Params::dag_full_off
    MaxJobs,          \* bound: changes of epoch
    MaxParks          \* bound: parks posted

ASSUME TableAssumption ==
    /\ IsFiniteSet(Worker) /\ NoOne \notin Worker
    /\ Depth \in Nat \ {0} /\ JobEpoch \subseteq Nat /\ TooLarge \subseteq JobEpoch
    /\ BuildMayFail \in BOOLEAN
    /\ DagChangeEpoch \in Nat /\ DagEpochMul \in Nat \ {0} /\ DagFullOff \in Nat
    /\ MaxJobs \in Nat /\ MaxParks \in Nat

VARIABLES
    poolEpoch,   \* the epoch of the newest job
    jobs,        \* changes of epoch so far
    epoch,       \* epochs_.seed of each worker's own algorithm object
    wpc,         \* where each worker is
    wgen,        \* the generation of the park it is in
    kernel,      \* the table its kernel is bound to, 0 for no kernel
    exec,        \* its dispatches the device has not finished
    table,       \* the tables: what each holds, and who fills it
    weak,        \* shared_[device]: the last one made
    pinned,      \* pinned_[device], or 0
    park,        \* what the barrier asks for: "no", "retain" or "free"
    parks,       \* parks posted so far
    given,       \* the last table was given up: another epoch, a stop, a withdrawn park
    stop         \* g_stop

poolVars  == <<poolEpoch, jobs>>
parkVars  == <<park, parks>>
tableVars == <<table, weak, pinned>>
otherVars == <<park, parks, given, stop>>
vars == <<poolEpoch, jobs, epoch, wpc, wgen, kernel, exec, table, weak, pinned,
          park, parks, given, stop>>

Slot == 1 .. Cardinality(Worker) + 2    \* where a table can be
Table == [bytes : Nat, ready : BOOLEAN, key : Nat, by : Worker \cup {NoOne}]

NoTable == [bytes |-> 0, ready |-> FALSE, key |-> 0, by |-> NoOne]

WorkerPc == {"top", "terms", "reset", "parked", "fit", "create", "make",
             "prepare", "fill1", "dispatch", "fill2", "submit", "exit"}

----------------------------------------------------------------------------
(* A table is as large as its full epoch says: ethash's dataset grows with   *)
(* every epoch, so the epoch stands for the bytes.                           *)
epochs_for(seed) ==
    (IF DagChangeEpoch # 0 /\ seed >= DagChangeEpoch THEN seed * DagEpochMul
                                                     ELSE seed) + DagFullOff

Owned(t) == \E w \in Worker : kernel[w] = t
Live(t)  == t # 0 /\ (Owned(t) \/ pinned = t)

(* shared_[device].lock() *)
LockWeak == IF Live(weak) THEN weak ELSE 0

Init ==
    /\ poolEpoch \in JobEpoch /\ jobs = 0
    /\ epoch = [w \in Worker |-> 0]
    /\ wpc = [w \in Worker |-> "top"] /\ wgen = [w \in Worker |-> 0]
    /\ kernel = [w \in Worker |-> 0]
    /\ exec = [w \in Worker |-> 0]
    /\ table = [t \in Slot |-> NoTable] /\ weak = 0 /\ pinned = 0
    /\ park = "no" /\ parks = 0 /\ given = FALSE
    /\ stop = FALSE

----------------------------------------------------------------------------
(* Jobs, and what asks the workers to park.                                 *)

NewEpoch ==
    /\ jobs < MaxJobs
    /\ poolEpoch' \in JobEpoch \ {poolEpoch}
    /\ jobs' = jobs + 1
    /\ UNCHANGED <<epoch, wpc, wgen, kernel, exec, tableVars, otherVars>>

PostPark ==
    /\ parks < MaxParks /\ park' \in {"retain", "free"} \ {park}
    /\ parks' = parks + 1
    /\ UNCHANGED <<poolVars, epoch, wpc, wgen, kernel, exec, tableVars, given, stop>>

(* The park is let go: every worker had come in, or it was withdrawn and one *)
(* on its way in reads terms that are no longer there.                       *)
Unpark ==
    /\ park # "no"
    /\ park' = "no"
    /\ given' = (given \/ \E w \in Worker : wpc[w] # "parked")
    /\ UNCHANGED <<poolVars, epoch, wpc, wgen, kernel, exec, tableVars, parks, stop>>

----------------------------------------------------------------------------
(* A worker and the park.                                                   *)

Step(w, from, to) == wpc[w] = from /\ wpc' = [wpc EXCEPT ![w] = to]

(* drain(), then read the terms. *)
NoticePark(w) ==
    /\ Step(w, "top", "terms") /\ ~stop /\ park # "no" /\ exec[w] = 0
    /\ UNCHANGED <<poolVars, epoch, wgen, kernel, exec, tableVars, otherVars>>

(* Mutant. *)
retain_shared_state_never(w) ==
    /\ Step(w, "terms", "reset")
    /\ pinned' = 0
    /\ given' = (given \/ park # "retain")
    /\ UNCHANGED <<poolVars, epoch, wgen, kernel, exec, table, weak, parkVars, stop>>

retain_shared_state(w) ==
    /\ Step(w, "terms", "reset")
    /\ pinned' = IF park = "retain" THEN LockWeak ELSE 0
    /\ given' = (given \/ park # "retain")
    /\ UNCHANGED <<poolVars, epoch, wgen, kernel, exec, table, weak, parkVars, stop>>

ResetKernel(w) ==
    /\ Step(w, "reset", "parked")
    /\ kernel' = [kernel EXCEPT ![w] = 0]
    /\ wgen' = [wgen EXCEPT ![w] = parks]
    /\ UNCHANGED <<poolVars, epoch, exec, tableVars, otherVars>>

LeavePark(w) ==
    /\ Step(w, "parked", "top") /\ (park = "no" \/ wgen[w] # parks \/ stop)
    /\ wgen' = [wgen EXCEPT ![w] = 0]
    /\ UNCHANGED <<poolVars, epoch, kernel, exec, tableVars, otherVars>>

----------------------------------------------------------------------------
(* A worker builds its kernel.                                              *)

(* A job of another epoch, or the first one for a worker without a kernel:   *)
(* drained, the algorithm object resized, the old kernel gone.               *)
retarget(w) ==
    /\ Step(w, "top", "fit") /\ ~stop /\ park = "no" /\ exec[w] = 0
    /\ epoch[w] # poolEpoch \/ kernel[w] = 0
    /\ epoch' = [epoch EXCEPT ![w] = poolEpoch]
    /\ kernel' = [kernel EXCEPT ![w] = 0]
    /\ given' = (given \/ epoch[w] # poolEpoch)
    /\ UNCHANGED <<poolVars, wgen, exec, table, weak, pinned, parkVars, stop>>

(* give_up with no profile to go back to. *)
FailRun(w) == wpc' = [wpc EXCEPT ![w] = "exit"] /\ stop' = TRUE

(* What is merely pinned is no obstacle; what a kernel still reads is. *)
Refused(w) ==
    \/ epoch[w] \in TooLarge
    \/ Owned(weak) /\ weak # 0 /\ table[weak].bytes # epochs_for(epoch[w])

would_fit(w) ==
    /\ wpc[w] = "fit"
    /\ IF Refused(w) THEN FailRun(w) ELSE Step(w, "fit", "create") /\ UNCHANGED stop
    /\ UNCHANGED <<poolVars, epoch, wgen, kernel, exec, tableVars, parkVars, given>>

(* Bind w's kernel to the table the device has, or to one made for it. *)
Bind(w, t) ==
    /\ kernel' = [kernel EXCEPT ![w] = t]
    /\ weak' = t
    /\ pinned' = 0
    /\ wpc' = [wpc EXCEPT ![w] = "make"]
    /\ UNCHANGED <<wgen, stop>>

MakeTable(w) ==
    \E t \in Slot :
        /\ ~Live(t) /\ \A i \in 1 .. t - 1 : Live(i)
        /\ table' = [table EXCEPT ![t] = [NoTable EXCEPT !.bytes = epochs_for(epoch[w])]]
        /\ given' = FALSE
        /\ Bind(w, t)

(* Mutant: the table is the kernel's own. *)
create_kernel_unshared(w) ==
    /\ wpc[w] = "create"
    /\ MakeTable(w)
    /\ UNCHANGED <<poolVars, epoch, exec, parkVars>>

(* Mutant. *)
create_kernel_any_size(w) ==
    /\ wpc[w] = "create"
    /\ IF LockWeak # 0
       THEN Bind(w, weak) /\ UNCHANGED <<table, given>>
       ELSE MakeTable(w)
    /\ UNCHANGED <<poolVars, epoch, exec, parkVars>>

(* The table part of create_kernel, under lazy_lock_: a pinned table of      *)
(* another size is let go; one of another size that a kernel holds refuses   *)
(* the build; otherwise it is shared, or made if there is none.              *)
create_kernel(w) ==
    /\ wpc[w] = "create"
    /\ LET fits  == LockWeak # 0 /\ table[weak].bytes = epochs_for(epoch[w])
           taken == ~fits /\ weak # 0 /\ Owned(weak)
       IN  \/ fits /\ Bind(w, weak) /\ UNCHANGED <<table, given>>
           \/ ~fits /\ ~taken /\ MakeTable(w)
           \/ /\ taken /\ FailRun(w)
              /\ pinned' = 0
              /\ UNCHANGED <<wgen, kernel, table, weak, given>>
    /\ UNCHANGED <<poolVars, epoch, exec, parkVars>>

(* SharedState::create found no memory: the pin may have gone already. *)
AllocationFails(w) ==
    /\ wpc[w] = "create" /\ BuildMayFail /\ ~Owned(weak)
    /\ LockWeak = 0 \/ table[weak].bytes # epochs_for(epoch[w])
    /\ FailRun(w)
    /\ pinned' = 0
    /\ UNCHANGED <<poolVars, epoch, wgen, kernel, exec, table, weak, parkVars, given>>

(* make_vulkan_kernel, outside the lock. *)
MakeKernel(w) ==
    /\ Step(w, "make", "prepare")
    /\ UNCHANGED <<poolVars, epoch, wgen, kernel, exec, tableVars, otherVars>>

MakeKernelFails(w) ==
    /\ wpc[w] = "make" /\ BuildMayFail /\ FailRun(w)
    /\ kernel' = [kernel EXCEPT ![w] = 0]
    /\ UNCHANGED <<poolVars, epoch, wgen, exec, table, weak, pinned, parkVars, given>>

----------------------------------------------------------------------------
(* A worker dispatches.                                                     *)

NextBatch(w) ==
    /\ Step(w, "top", "prepare") /\ ~stop /\ park = "no"
    /\ kernel[w] # 0 /\ epoch[w] = poolEpoch
    /\ UNCHANGED <<poolVars, epoch, wgen, kernel, exec, tableVars, otherVars>>

(* SharedState::ensure is called by prepare_state and again by dispatch.     *)
Filled(from) == IF from = "prepare" THEN "dispatch" ELSE "submit"
Filling(from) == IF from = "prepare" THEN "fill1" ELSE "fill2"

EnsureHit(w) ==
    /\ wpc[w] \in {"prepare", "dispatch"}
    /\ LET t == table[kernel[w]]
       IN  t.by = NoOne /\ t.ready /\ t.key = epoch[w]
    /\ wpc' = [wpc EXCEPT ![w] = Filled(@)]
    /\ UNCHANGED <<poolVars, epoch, wgen, kernel, exec, tableVars, otherVars>>

(* The whole device is waited for before a byte of a table in use is lost.   *)
FillBegins(w) ==
    /\ wpc[w] \in {"prepare", "dispatch"}
    /\ LET t == table[kernel[w]]
       IN  /\ t.by = NoOne /\ ~(t.ready /\ t.key = epoch[w])
           /\ t.ready => \A v \in Worker : exec[v] = 0
    /\ table' = [table EXCEPT ![kernel[w]].by = w, ![kernel[w]].ready = FALSE]
    /\ wpc' = [wpc EXCEPT ![w] = Filling(@)]
    /\ UNCHANGED <<poolVars, epoch, wgen, kernel, exec, weak, pinned, otherVars>>

FillEnds(w) ==
    /\ wpc[w] \in {"fill1", "fill2"}
    /\ table' = [table EXCEPT ![kernel[w]].by = NoOne, ![kernel[w]].ready = TRUE,
                              ![kernel[w]].key = epoch[w]]
    /\ wpc' = [wpc EXCEPT ![w] = IF @ = "fill1" THEN "dispatch" ELSE "submit"]
    /\ UNCHANGED <<poolVars, epoch, wgen, kernel, exec, weak, pinned, otherVars>>

(* The upload or the setup pass failed: the worker goes round. *)
FillFails(w) ==
    /\ wpc[w] \in {"fill1", "fill2"}
    /\ table' = [table EXCEPT ![kernel[w]].by = NoOne]
    /\ wpc' = [wpc EXCEPT ![w] = "top"]
    /\ UNCHANGED <<poolVars, epoch, wgen, kernel, exec, weak, pinned, otherVars>>

(* Mutant. *)
Submit_unlimited(w) ==
    /\ Step(w, "submit", "top")
    /\ exec' = [exec EXCEPT ![w] = @ + 1]
    /\ UNCHANGED <<poolVars, epoch, wgen, kernel, tableVars, otherVars>>

(* The rest of dispatch, with no lock on the table. *)
Submit(w) ==
    /\ Step(w, "submit", "top") /\ exec[w] < Depth
    /\ exec' = [exec EXCEPT ![w] = @ + 1]
    /\ UNCHANGED <<poolVars, epoch, wgen, kernel, tableVars, otherVars>>

(* The device finishes a dispatch and it is collected. *)
collect(w) ==
    /\ exec[w] > 0
    /\ exec' = [exec EXCEPT ![w] = @ - 1]
    /\ UNCHANGED <<poolVars, epoch, wpc, wgen, kernel, tableVars, otherVars>>

(* The loop is left: drained, the kernel handed back. *)
WorkerExit(w) ==
    /\ Step(w, "top", "exit") /\ stop /\ exec[w] = 0
    /\ kernel' = [kernel EXCEPT ![w] = 0]
    /\ UNCHANGED <<poolVars, epoch, wgen, exec, tableVars, otherVars>>

----------------------------------------------------------------------------
WorkerStep(w) ==
    \/ NoticePark(w) \/ retain_shared_state(w) \/ ResetKernel(w) \/ LeavePark(w)
    \/ retarget(w) \/ would_fit(w) \/ create_kernel(w) \/ AllocationFails(w)
    \/ MakeKernel(w) \/ MakeKernelFails(w) \/ NextBatch(w) \/ EnsureHit(w)
    \/ FillBegins(w) \/ FillEnds(w) \/ FillFails(w) \/ Submit(w) \/ collect(w)
    \/ WorkerExit(w)

Next == NewEpoch \/ PostPark \/ Unpark \/ \E w \in Worker : WorkerStep(w)

Spec == Init /\ [][Next]_vars

----------------------------------------------------------------------------
(* Properties that hold.                                                    *)

(* Every variable has its type, and no kernel more dispatches than slots. *)
TypeOK ==
    /\ poolEpoch \in Nat /\ jobs \in Nat /\ parks \in Nat
    /\ epoch \in [Worker -> Nat] /\ wpc \in [Worker -> WorkerPc]
    /\ wgen \in [Worker -> Nat]
    /\ kernel \in [Worker -> Slot \cup {0}] /\ exec \in [Worker -> 0 .. Depth]
    /\ weak \in Slot \cup {0} /\ pinned \in Slot \cup {0}
    /\ park \in {"no", "retain", "free"}
    /\ given \in BOOLEAN /\ stop \in BOOLEAN
    /\ table \in [Slot -> Table]

(* "One shared table per device": whatever is alive, held by a kernel or by   *)
(* a pin, is the one the backend finds; no table lives beside it.             *)
OneTable == (\A w \in Worker : kernel[w] \in {0, weak}) /\ pinned \in {0, weak}

(* A dispatch on the device reads a finished table of its own epoch, though   *)
(* nothing is locked between the check in dispatch and the submit: whoever    *)
(* could refill the table in between is bound to one of the same size, and    *)
(* two epochs never have that.                                                *)
ReadsOwnEpoch ==
    \A w \in Worker : exec[w] > 0 =>
        /\ kernel[w] # 0
        /\ table[kernel[w]].ready /\ table[kernel[w]].key = epoch[w]

(* A pause gives the kernels back and keeps the table: until a worker moves    *)
(* to another epoch or parks for a stop, or a park is withdrawn under way, the *)
(* table that was made lives on, whichever worker parks or resumes first.      *)
PauseKeepsTable == ~given /\ ~stop /\ weak # 0 => Live(weak)

----------------------------------------------------------------------------
(* What comments say and the code does not do.                               *)

(* worker.cpp: on a job of another epoch "the answer is a new kernel".        *)
EpochChangeGoesOn == ~stop
=============================================================================

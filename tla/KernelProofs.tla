---------------------------- MODULE KernelProofs ----------------------------
(***************************************************************************)
(* A worker's kernel, for every depth, set of programs, length of an epoch  *)
(* and number of jobs and faults: the device runs a header's own program,   *)
(* results go to the dispatch they belong to, no pipeline is destroyed      *)
(* under the device, and a kernel that is gone leaves nothing behind.       *)
(***************************************************************************)
EXTENDS Kernel, FiniteSetTheorems, TLAPS

Draining == {"drain", "drain_wait", "drain_read"}
Waiting  == {"wait", "drain_wait"}
Handing  == {"read", "drain_read"}
Place    == {"job", "build", "teardown", "top", "prepare", "begin", "pop"}
            \cup Draining \cup Waiting \cup Handing
PipeOrNone == Pipe \cup {None}

KernelType == [built : BOOLEAN, pipe : PipeOrNone, retiring : {None}, key : Nat,
               ready : BOOLEAN, queue : Seq([slot : Slot, id : Id]), next : Slot]
SlotType   == [pending : BOOLEAN, busy : BOOLEAN, id : Id, out : Id, pipe : PipeOrNone,
               want : Nat]
AheadType  == [st : {"none", "building", "done"}, key : Nat, pipe : PipeOrNone]
PipeType   == [key : Nat, lines : Nat]
After      == {"top", "job", "teardown"}
WorkerType == [pc : Place, after : After, slot : Slot, id : Id]

TypeOK ==
    /\ job \in Keys /\ algo \in Nat /\ jobs \in Nat /\ faults \in Nat /\ lost \in BOOLEAN
    /\ kernel \in KernelType
    /\ slots \in [Slot -> SlotType]
    /\ ahead \in AheadType
    /\ pipes \in [DOMAIN pipes -> PipeType]
    /\ worker \in WorkerType

(* The header is the one the algorithm was moved to. *)
Settled == worker.pc # "job" /\ ~(worker.pc \in Draining /\ worker.after = "job")

(* Which pipelines exist, and what they were compiled for. *)
PipesInv ==
    /\ DOMAIN pipes = {kernel.pipe, ahead.pipe} \ {None}
    /\ kernel.pipe # None => kernel.pipe # ahead.pipe
    /\ ahead.st # "done" => ahead.pipe = None
    /\ ~kernel.built => kernel = NoKernel /\ ahead = NotBuilding
    /\ ahead.pipe # None => pipes[ahead.pipe].key = ahead.key
    /\ worker.pc # "teardown" => \A p \in DOMAIN pipes : pipes[p].lines = algo
    /\ kernel.ready => /\ kernel.pipe # None
                       /\ pipes[kernel.pipe].key = kernel.key
                       /\ pipes[kernel.pipe].lines = Epoch(kernel.key)

(* Where the worker can be with what. *)
PlaceInv ==
    /\ Settled => algo = Epoch(job)
    /\ worker.pc = "build" => ~ kernel.built
    /\ worker.pc \in {"prepare", "begin"} => kernel.built
    /\ worker.pc = "begin" => kernel.ready /\ kernel.key = job
    /\ worker.pc = "pop" => kernel.queue # <<>>
    /\ worker.pc \in {"job", "build", "teardown"} => kernel.queue = <<>>
    /\ kernel.queue # <<>> => kernel.built /\ kernel.ready /\ (Settled => kernel.key = job)

(* The queue is a stretch of the ring that ends before the next slot. *)
RingInv ==
    /\ Inflight <= Depth
    /\ worker.pc \notin Draining =>
          \A q \in 1 .. Inflight :
              kernel.queue[q].slot = (kernel.next + (Depth - Inflight) + (q - 1)) % Depth
    /\ \A q \in 1 .. Inflight : slots[kernel.queue[q].slot].id = kernel.queue[q].id
    /\ \A i \in Slot : ~slots[i].busy => slots[i].out = slots[i].id
    /\ worker.pc \in Waiting \cup Handing => slots[worker.slot].id = worker.id
    /\ worker.pc \in Handing => ~slots[worker.slot].busy

(* What the device runs is waited for, unless it was given up. *)
BusyInv ==
    lost \/ \A i \in Slot : slots[i].busy =>
                /\ \/ \E q \in 1 .. Inflight : kernel.queue[q].slot = i
                   \/ worker.pc \in Waiting /\ worker.slot = i
                /\ slots[i].pipe \in DOMAIN pipes

KernelInv == TypeOK /\ PipesInv /\ PlaceInv /\ RingInv /\ BusyInv /\ ProgramOfTheHeader

----------------------------------------------------------------------------
(* The operators.                                                           *)

(* One turn of the ring, without a remainder. *)
LEMMA OneTurn ==
    ASSUME NEW n \in Nat, n < 2 * Depth
    PROVE  n % Depth = IF n < Depth THEN n ELSE n - Depth
<1> DEFINE d == n \div Depth
<1>1. n = Depth * d + (n % Depth) /\ d \in Int /\ n % Depth \in 0 .. Depth - 1
  BY DepthAssumption
<1> HIDE DEF d
<1>2. CASE d <= 0 - 1
  <2>1. Depth * d <= 0 - Depth
    BY <1>1, <1>2, DepthAssumption
  <2> QED
    BY <1>1, <2>1, DepthAssumption
<1>3. CASE d >= 2
  <2>1. Depth * d >= 2 * Depth
    BY <1>1, <1>3, DepthAssumption
  <2> QED
    BY <1>1, <2>1, DepthAssumption
<1>4. CASE d = 0
  BY <1>1, <1>4, DepthAssumption
<1>5. CASE d = 1
  BY <1>1, <1>5, DepthAssumption
<1> QED
  BY <1>1, <1>2, <1>3, <1>4, <1>5

LEMMA EpochIsNat ==
    ASSUME NEW k \in Nat
    PROVE  Epoch(k) \in Nat
  BY KeysAssumption DEF Epoch

(* Where the worker goes. *)
LEMMA AtType ==
    /\ \A pc \in Place : At(pc) \in WorkerType
    /\ \A pc \in Place, after \in After : [At(pc) EXCEPT !.after = after] \in WorkerType
<1>1. 0 \in Slot /\ 0 \in Id
  BY DepthAssumption DEF Slot, Id
<1> QED
  BY <1>1 DEF At, WorkerType, After

(* There is a pipeline handle that neither exists nor is named by a command *)
(* buffer: the kernel and the thread hold one each, a slot one each.        *)
LEMMA NewPipeIsNew ==
    ASSUME TypeOK, PipesInv
    PROVE  /\ NewPipe \in Pipe /\ NewPipe # None
           /\ NewPipe \notin DOMAIN pipes
           /\ \A i \in Slot : slots[i].pipe # NewPipe
<1> DEFINE Named == {slots[i].pipe : i \in Slot}
           who == [p \in Pipe |-> IF p = kernel.pipe THEN Depth
                                  ELSE IF p = ahead.pipe THEN Depth + 1
                                  ELSE CHOOSE i \in Slot : slots[i].pipe = p]
           Taken == Pipe \subseteq DOMAIN pipes \cup Named
<1>1. ASSUME Taken
      PROVE  FALSE
  <2>1. ASSUME NEW p \in Pipe, p # kernel.pipe, p # ahead.pipe
        PROVE  who[p] \in Slot /\ slots[who[p]].pipe = p
    <3>1. \E i \in Slot : slots[i].pipe = p
      BY <1>1, <2>1 DEF PipesInv
    <3> QED
      BY <2>1, <3>1
  <2>2. who \in [Pipe -> 0 .. Depth + 1]
    <3>1. \A p \in Pipe : who[p] \in 0 .. Depth + 1
      BY <2>1, DepthAssumption DEF Slot
    <3> QED
      BY <3>1
  <2>3. \A p, q \in Pipe : who[p] = who[q] => p = q
    BY <2>1, DepthAssumption DEF Slot
  <2>4. /\ IsFiniteSet(Pipe) /\ Cardinality(Pipe) = 4 + Depth
        /\ IsFiniteSet(0 .. Depth + 1) /\ Cardinality(0 .. Depth + 1) = Depth + 2
    BY FS_Interval, DepthAssumption DEF Pipe
  <2>5. Cardinality(0 .. Depth + 1) < Cardinality(Pipe)
    BY <2>4, DepthAssumption
  <2>6. \E p, q \in Pipe : p # q /\ who[p] = who[q]
    <3> HIDE DEF who
    <3> QED
      BY <2>2, <2>4, <2>5, FS_PigeonHole, Zenon
  <2> QED
    BY <2>3, <2>6, Zenon
<1>2. PICK p \in Pipe : p \notin DOMAIN pipes \cup Named
  BY <1>1
<1>3. NewPipe \in Pipe /\ NewPipe \notin DOMAIN pipes \cup Named
  BY <1>2 DEF NewPipe
<1> QED
  BY <1>3 DEF Pipe, None

LEMMA QueueType ==
    ASSUME TypeOK
    PROVE  /\ Inflight \in Nat
           /\ \A q \in 1 .. Inflight : kernel.queue[q].slot \in Slot /\ kernel.queue[q].id \in Id
<1> DEFINE Entry == [slot : Slot, id : Id]
<1>1. kernel.queue \in Seq(Entry)
  BY DEF TypeOK, KernelType
<1> HIDE DEF Entry
<1>2. Inflight \in Nat /\ \A q \in 1 .. Inflight : kernel.queue[q] \in Entry
  BY <1>1 DEF Inflight
<1> QED
  BY <1>2 DEF Entry

LEMMA EmptyQueue ==
    ASSUME TypeOK
    PROVE  Inflight = 0 <=> kernel.queue = <<>>
<1> DEFINE Entry == [slot : Slot, id : Id]
<1>1. kernel.queue \in Seq(Entry)
  BY DEF TypeOK, KernelType
<1> HIDE DEF Entry
<1> QED
  BY <1>1 DEF Inflight

(* And there is a number no dispatch and no readback has. *)
LEMMA FreshIdIsFresh ==
    ASSUME TypeOK, RingInv
    PROVE  /\ FreshId \in Id
           /\ \A i \in Slot : slots[i].id # FreshId /\ slots[i].out # FreshId
           /\ \A q \in 1 .. Inflight : kernel.queue[q].id # FreshId
<1> DEFINE Free(n) == \A i \in Slot : slots[i].id # n /\ slots[i].out # n
           who == [n \in Id |-> IF \E i \in Slot : slots[i].id = n
                                THEN CHOOSE i \in Slot : slots[i].id = n
                                ELSE Depth + CHOOSE i \in Slot : slots[i].out = n]
<1>1. ASSUME \A n \in Id : ~ Free(n)
      PROVE  FALSE
  <2>1. ASSUME NEW n \in Id
        PROVE  \/ who[n] \in Slot /\ slots[who[n]].id = n
               \/ who[n] - Depth \in Slot /\ slots[who[n] - Depth].out = n /\ who[n] \in Int
    <3>1. CASE \E i \in Slot : slots[i].id = n
      BY <3>1
    <3>2. CASE ~ \E i \in Slot : slots[i].id = n
      <4> DEFINE j == CHOOSE i \in Slot : slots[i].out = n
      <4>1. \E i \in Slot : slots[i].out = n
        BY <1>1, <3>2
      <4>2. j \in Slot /\ slots[j].out = n
        BY <4>1
      <4>3. who[n] = Depth + j
        BY <3>2
      <4> HIDE DEF j
      <4>4. who[n] - Depth = j /\ who[n] \in Int
        BY <4>2, <4>3, DepthAssumption DEF Slot
      <4> QED
        BY <4>2, <4>4
    <3> QED
      BY <3>1, <3>2
  <2> HIDE DEF who
  <2>2. \A n \in Id : who[n] \in 0 .. 2 * Depth - 1
    BY <2>1, DepthAssumption DEF Slot
  <2>3. who \in [Id -> 0 .. 2 * Depth - 1]
    BY <2>2 DEF who
  <2>4. \A m, n \in Id : who[m] = who[n] => m = n
    BY <2>1, DepthAssumption DEF Slot
  <2>5. /\ IsFiniteSet(Id) /\ Cardinality(Id) = 2 * Depth + 1
        /\ IsFiniteSet(0 .. 2 * Depth - 1) /\ Cardinality(0 .. 2 * Depth - 1) = 2 * Depth
    BY FS_Interval, DepthAssumption DEF Id
  <2>6. Cardinality(0 .. 2 * Depth - 1) < Cardinality(Id)
    BY <2>5, DepthAssumption
  <2>7. \E m, n \in Id : m # n /\ who[m] = who[n]
    BY <2>3, <2>5, <2>6, FS_PigeonHole, Zenon
  <2> QED
    BY <2>4, <2>7, Zenon
<1>2. PICK n \in Id : Free(n)
  BY <1>1
<1>3. \A q \in 1 .. Inflight : kernel.queue[q].id # n
  <2>1. \A q \in 1 .. Inflight : kernel.queue[q].slot \in Slot
    BY QueueType
  <2> QED
    BY <1>2, <2>1 DEF RingInv
<1> QED
  BY <1>2, <1>3 DEF FreshId

----------------------------------------------------------------------------
(* One lemma per action.                                                    *)

LEMMA NewJobStep ==
    ASSUME KernelInv, NewJob
    PROVE  KernelInv'
<1> USE DEF KernelInv
<1>1. TypeOK'
  <2>1. worker' \in WorkerType
    BY AtType DEF NewJob, Drain, After, Place, Draining
  <2> QED
    BY <2>1 DEF NewJob, TypeOK
<1>2. PipesInv'
  BY DEF NewJob, Drain, At, PipesInv
<1>3. PlaceInv'
  BY DEF NewJob, Drain, At, PlaceInv, Settled, Draining
<1>4. RingInv'
  BY DEF NewJob, Drain, At, RingInv, Inflight, Draining, Waiting, Handing
<1>5. BusyInv'
  BY DEF NewJob, Drain, At, BusyInv, Inflight, Waiting
<1>6. ProgramOfTheHeader'
  BY DEF NewJob, ProgramOfTheHeader
<1> QED
  BY <1>1, <1>2, <1>3, <1>4, <1>5, <1>6

LEMMA ParkStep ==
    ASSUME KernelInv, Park
    PROVE  KernelInv'
<1> USE DEF KernelInv
<1>1. TypeOK'
  <2>1. worker' \in WorkerType
    BY AtType DEF Park, Drain, After, Place, Draining
  <2> QED
    BY <2>1 DEF Park, TypeOK
<1>2. PipesInv'
  BY DEF Park, Drain, At, PipesInv
<1>3. PlaceInv'
  BY DEF Park, Drain, At, PlaceInv, Settled, Draining
<1>4. RingInv'
  BY DEF Park, Drain, At, RingInv, Inflight, Draining, Waiting, Handing
<1>5. BusyInv'
  BY DEF Park, Drain, At, BusyInv, Inflight, Waiting
<1>6. ProgramOfTheHeader'
  BY DEF Park, ProgramOfTheHeader
<1> QED
  BY <1>1, <1>2, <1>3, <1>4, <1>5, <1>6

LEMMA RetargetStep ==
    ASSUME KernelInv, Retarget
    PROVE  KernelInv'
<1> USE DEF KernelInv
<1>1. TypeOK'
  <2>1. worker' \in WorkerType
    BY AtType DEF Retarget, Place
  <2> QED
    BY <2>1, EpochIsNat, KeysAssumption DEF Retarget, TypeOK
<1>2. PipesInv'
  <2>1. worker'.pc # "teardown" => \A p \in DOMAIN pipes' : pipes'[p].lines = algo'
    <3>1. CASE ~ kernel.built
      BY <3>1 DEF Retarget, PipesInv, NoKernel, NotBuilding
    <3>2. CASE kernel.built
      BY <3>2 DEF Retarget, PipesInv, At
    <3> QED
      BY <3>1, <3>2
  <2> QED
    BY <2>1 DEF Retarget, PipesInv
<1>3. PlaceInv'
  BY DEF Retarget, At, PlaceInv, Settled, Draining
<1>4. RingInv'
  BY DEF Retarget, At, RingInv, Inflight, Draining, Waiting, Handing
<1>5. BusyInv'
  BY DEF Retarget, At, BusyInv, Inflight, Waiting
<1>6. ProgramOfTheHeader'
  BY DEF Retarget, ProgramOfTheHeader
<1> QED
  BY <1>1, <1>2, <1>3, <1>4, <1>5, <1>6

LEMMA LoopStep ==
    ASSUME KernelInv, Loop
    PROVE  KernelInv'
<1> USE DEF KernelInv
<1>1. TypeOK'
  <2>1. worker' \in WorkerType
    BY AtType DEF Loop, Place
  <2> QED
    BY <2>1 DEF Loop, TypeOK
<1>2. PipesInv'
  BY DEF Loop, At, PipesInv
<1>3. PlaceInv'
  BY DEF Loop, At, PlaceInv, Settled, Draining
<1>4. RingInv'
  BY DEF Loop, At, RingInv, Inflight, Draining, Waiting, Handing
<1>5. BusyInv'
  BY DEF Loop, At, BusyInv, Inflight, Waiting
<1>6. ProgramOfTheHeader'
  BY DEF Loop, ProgramOfTheHeader
<1> QED
  BY <1>1, <1>2, <1>3, <1>4, <1>5, <1>6

LEMMA ProgramReadyStep ==
    ASSUME KernelInv, ProgramReady
    PROVE  KernelInv'
<1> USE DEF KernelInv
<1>1. TypeOK'
  <2>1. worker' \in WorkerType
    BY AtType DEF ProgramReady, Place
  <2> QED
    BY <2>1 DEF ProgramReady, TypeOK
<1>2. PipesInv'
  BY DEF ProgramReady, At, PipesInv
<1>3. PlaceInv'
  BY DEF ProgramReady, At, PlaceInv, Settled, Draining
<1>4. RingInv'
  BY DEF ProgramReady, At, RingInv, Inflight, Draining, Waiting, Handing
<1>5. BusyInv'
  BY DEF ProgramReady, At, BusyInv, Inflight, Waiting
<1>6. ProgramOfTheHeader'
  BY DEF ProgramReady, ProgramOfTheHeader
<1> QED
  BY <1>1, <1>2, <1>3, <1>4, <1>5, <1>6

LEMMA DrainedStep ==
    ASSUME KernelInv, Drained
    PROVE  KernelInv'
<1> USE DEF KernelInv
<1>0. kernel.queue = <<>> /\ Inflight = 0
  BY EmptyQueue DEF Drained
<1>1. TypeOK'
  <2>1. worker' \in WorkerType
    BY AtType DEF Drained, TypeOK, WorkerType, After, Place, Draining
  <2> QED
    BY <2>1 DEF Drained, TypeOK
<1>2. PipesInv'
  BY DEF Drained, At, PipesInv
<1>3. PlaceInv'
  BY <1>0 DEF Drained, At, PlaceInv, Settled, Draining, TypeOK, WorkerType, After
<1>4. RingInv'
  <2>1. UNCHANGED <<kernel, slots, Inflight>>
        /\ worker'.pc \notin Draining \cup Waiting \cup Handing
    BY DEF Drained, Inflight, At, TypeOK, WorkerType, After, Draining, Waiting, Handing
  <2>2. 1 .. Inflight = {}
    BY <1>0
  <2> QED
    BY <1>0, <2>1, <2>2, DepthAssumption DEF RingInv
<1>5. BusyInv'
  BY DEF Drained, At, BusyInv, Inflight, Waiting
<1>6. ProgramOfTheHeader'
  BY DEF Drained, ProgramOfTheHeader
<1> QED
  BY <1>1, <1>2, <1>3, <1>4, <1>5, <1>6

LEMMA ReadBackStep ==
    ASSUME KernelInv, ReadBack
    PROVE  KernelInv'
<1> USE DEF KernelInv
<1>1. TypeOK'
  <2>1. worker' \in WorkerType
    BY AtType DEF ReadBack, TypeOK, WorkerType, After, Place, Draining
  <2> QED
    BY <2>1 DEF ReadBack, TypeOK
<1>2. PipesInv'
  BY DEF ReadBack, At, PipesInv
<1>3. PlaceInv'
  BY DEF ReadBack, At, PlaceInv, Settled, Draining
<1>4. RingInv'
  BY DEF ReadBack, At, RingInv, Inflight, Draining, Waiting, Handing
<1>5. BusyInv'
  BY DEF ReadBack, At, BusyInv, Inflight, Waiting
<1>6. ProgramOfTheHeader'
  BY DEF ReadBack, ProgramOfTheHeader
<1> QED
  BY <1>1, <1>2, <1>3, <1>4, <1>5, <1>6

LEMMA CollectTimesOutStep ==
    ASSUME KernelInv, CollectTimesOut
    PROVE  KernelInv'
<1> USE DEF KernelInv
<1>1. TypeOK'
  <2>1. worker' \in WorkerType
    BY AtType DEF CollectTimesOut, TypeOK, WorkerType, After, Place, Draining
  <2>2. faults' \in Nat
    <3>1. faults \in Nat /\ Fault
      BY Zenon DEF CollectTimesOut, TypeOK
    <3> HIDE DEF KernelInv
    <3> QED
      BY <3>1 DEF Fault
  <2>3. lost' \in BOOLEAN
    BY Zenon DEF CollectTimesOut
  <2> QED
    BY <2>1, <2>2, <2>3 DEF CollectTimesOut, TypeOK
<1>2. PipesInv'
  BY DEF CollectTimesOut, At, PipesInv
<1>3. PlaceInv'
  BY DEF CollectTimesOut, At, PlaceInv, Settled, Draining
<1>4. RingInv'
  BY DEF CollectTimesOut, At, RingInv, Inflight, Draining, Waiting, Handing
<1>5. BusyInv'
  BY DEF CollectTimesOut, At, BusyInv, Inflight, Waiting
<1>6. ProgramOfTheHeader'
  BY DEF CollectTimesOut, ProgramOfTheHeader
<1> QED
  BY <1>1, <1>2, <1>3, <1>4, <1>5, <1>6

LEMMA DeviceFinishesStep ==
    ASSUME KernelInv, NEW k \in Slot, DeviceFinishes(k)
    PROVE  KernelInv'
<1> USE DEF KernelInv
<1>0. UNCHANGED <<job, algo, kernel, ahead, pipes, worker, jobs, faults, lost, Inflight>>
  BY DEF DeviceFinishes, Inflight
<1>1. slots' \in [Slot -> SlotType]
  BY DEF DeviceFinishes, TypeOK, SlotType
<1>2. \A i \in Slot : /\ slots'[i].id = slots[i].id
                      /\ slots'[i].pipe = slots[i].pipe
                      /\ slots'[i].want = slots[i].want
                      /\ slots'[i].busy => slots[i].busy
                      /\ ~ slots'[i].busy => slots'[i].out = slots'[i].id
  BY DEF DeviceFinishes, TypeOK, SlotType, RingInv
<1>3. TypeOK'
  BY <1>1 DEF DeviceFinishes, TypeOK
<1>4. PipesInv' /\ PlaceInv'
  BY DEF DeviceFinishes, PipesInv, PlaceInv, Settled
<1>5. RingInv'
  <2>1. \A q \in 1 .. Inflight : kernel.queue[q].slot \in Slot
    BY QueueType
  <2>2. worker.slot \in Slot
    BY DEF TypeOK, WorkerType
  <2> QED
    BY <1>0, <1>2, <2>1, <2>2 DEF RingInv
<1>6. BusyInv'
  BY <1>0, <1>2 DEF BusyInv
<1>7. ProgramOfTheHeader'
  BY <1>0, <1>2 DEF ProgramOfTheHeader
<1> QED
  BY <1>3, <1>4, <1>5, <1>6, <1>7

(* The pipelines when one more is made: the others are the same. *)
LEMMA MadeIsNew ==
    ASSUME TypeOK, PipesInv, NEW key \in Nat, NEW lines \in Nat,
           NEW made, made = Made(NewPipe, key, lines)
    PROVE  /\ DOMAIN made = DOMAIN pipes \cup {NewPipe}
           /\ made \in [DOMAIN made -> PipeType]
           /\ made[NewPipe] = [key |-> key, lines |-> lines]
           /\ \A p \in DOMAIN pipes : made[p] = pipes[p]
<1>1. NewPipe \notin DOMAIN pipes
  BY NewPipeIsNew
<1> QED
  BY <1>1 DEF Made, TypeOK, PipeType

LEMMA AheadEndsStep ==
    ASSUME KernelInv, AheadEnds
    PROVE  KernelInv'
<1> USE DEF KernelInv
<1>1. CASE ahead' = [ahead EXCEPT !.st = "done", !.pipe = NewPipe] /\ UNCHANGED faults
           /\ pipes' = Made(NewPipe, ahead.key, algo)
  <2>1. /\ NewPipe \in Pipe /\ NewPipe # None /\ NewPipe \notin DOMAIN pipes
        /\ \A i \in Slot : slots[i].pipe # NewPipe
    BY NewPipeIsNew
  <2>2. /\ DOMAIN pipes' = DOMAIN pipes \cup {NewPipe}
        /\ pipes' \in [DOMAIN pipes' -> PipeType]
        /\ pipes'[NewPipe] = [key |-> ahead.key, lines |-> algo]
        /\ \A p \in DOMAIN pipes : pipes'[p] = pipes[p]
    <3>1. ahead.key \in Nat /\ algo \in Nat
      BY DEF TypeOK, AheadType
    <3> QED
      BY <1>1, <3>1, MadeIsNew
  <2>3. /\ ahead' = [st |-> "done", key |-> ahead.key, pipe |-> NewPipe]
        /\ ahead.pipe = None /\ ahead.st = "building" /\ kernel.built
    <3> HIDE DEF KernelInv
    <3>1. ahead.st = "building"
      BY DEF AheadEnds
    <3>2. ahead.pipe = None /\ kernel.built
      BY <3>1 DEF KernelInv, PipesInv, NotBuilding
    <3>3. ahead \in AheadType
      BY DEF KernelInv, TypeOK
    <3> QED
      BY <1>1, <3>1, <3>2, <3>3 DEF AheadType
  <2>4. TypeOK'
    BY <2>1, <2>2, <2>3, <1>1 DEF AheadEnds, TypeOK, AheadType, PipeOrNone
  <2>5. PipesInv'
    BY <2>1, <2>2, <2>3 DEF AheadEnds, PipesInv
  <2>6. PlaceInv' /\ RingInv'
    BY DEF AheadEnds, PlaceInv, Settled, RingInv, Inflight
  <2>7. BusyInv'
    BY <2>2 DEF AheadEnds, BusyInv, Inflight
  <2>8. ProgramOfTheHeader'
    BY <2>1, <2>2 DEF AheadEnds, ProgramOfTheHeader
  <2> QED
    BY <2>4, <2>5, <2>6, <2>7, <2>8
<1>2. CASE Fault /\ ahead' = [ahead EXCEPT !.st = "done"] /\ UNCHANGED pipes
  <2>1. ahead' = [st |-> "done", key |-> ahead.key, pipe |-> ahead.pipe] /\ kernel.built
    BY <1>2 DEF AheadEnds, PipesInv, TypeOK, AheadType, NotBuilding
  <2>2. TypeOK'
    BY <1>2, <2>1 DEF AheadEnds, TypeOK, AheadType, Fault
  <2>3. PipesInv'
    BY <1>2, <2>1 DEF AheadEnds, PipesInv
  <2>4. PlaceInv' /\ RingInv' /\ BusyInv' /\ ProgramOfTheHeader'
    BY <1>2 DEF AheadEnds, PlaceInv, Settled, RingInv, Inflight, BusyInv, ProgramOfTheHeader
  <2> QED
    BY <2>2, <2>3, <2>4
<1> QED
  BY <1>1, <1>2 DEF AheadEnds

LEMMA TeardownStep ==
    ASSUME KernelInv, Teardown
    PROVE  KernelInv'
<1> USE DEF KernelInv
<1>1. /\ DOMAIN pipes' = {} /\ kernel' = NoKernel /\ ahead' = NotBuilding
      /\ slots' = [i \in Slot |-> IdleSlot] /\ worker' = At("build")
      /\ UNCHANGED <<job, algo, jobs, faults, lost>> /\ worker.pc = "teardown"
  BY DEF Teardown, Without, PipesInv
<1>2. Settled /\ algo = Epoch(job)
  BY <1>1 DEF PlaceInv, Settled, Draining
<1>3. 0 \in Slot /\ 0 \in Id
  BY DepthAssumption DEF Slot, Id
<1>4. TypeOK'
  <2>1. kernel' \in KernelType
    BY <1>1, <1>3 DEF NoKernel, KernelType, PipeOrNone
  <2>2. slots' \in [Slot -> SlotType]
    BY <1>1, <1>3 DEF IdleSlot, SlotType, PipeOrNone
  <2>3. ahead' \in AheadType
    BY <1>1 DEF NotBuilding, AheadType, PipeOrNone
  <2>4. pipes' \in [DOMAIN pipes' -> PipeType]
    BY <1>1 DEF Teardown, Without
  <2>5. worker' \in WorkerType
    BY <1>1, AtType DEF Place
  <2> QED
    BY <1>1, <2>1, <2>2, <2>3, <2>4, <2>5 DEF TypeOK
<1>5. PipesInv'
  BY <1>1 DEF PipesInv, NoKernel, NotBuilding
<1>6. PlaceInv'
  BY <1>1, <1>2 DEF PlaceInv, Settled, At, NoKernel
<1>7. RingInv'
  BY <1>1, DepthAssumption DEF RingInv, Inflight, NoKernel, IdleSlot, At, Waiting, Handing
<1>8. BusyInv' /\ ProgramOfTheHeader'
  BY <1>1 DEF BusyInv, ProgramOfTheHeader, IdleSlot
<1> QED
  BY <1>4, <1>5, <1>6, <1>7, <1>8

LEMMA BuildKernelStep ==
    ASSUME KernelInv, BuildKernel
    PROVE  KernelInv'
<1> USE DEF KernelInv
<1>1. CASE kernel' = [NoKernel EXCEPT !.built = TRUE] /\ UNCHANGED faults
           /\ slots' = [i \in Slot |-> IdleSlot] /\ worker' = At("top")
  <2>1. worker.pc = "build" /\ UNCHANGED <<job, algo, ahead, pipes, jobs, faults, lost>>
    BY <1>1 DEF BuildKernel
  <2>2. algo = Epoch(job) /\ ~ kernel.built
    BY <2>1 DEF PlaceInv, Settled, Draining
  <2>3. kernel = NoKernel /\ ahead = NotBuilding /\ DOMAIN pipes = {}
    BY <2>2 DEF PipesInv, NoKernel, NotBuilding
  <2>4. 0 \in Slot /\ 0 \in Id
    BY DepthAssumption DEF Slot, Id
  <2>5. TypeOK'
    <3>1. kernel' \in KernelType
      BY <1>1, <2>4 DEF NoKernel, KernelType, PipeOrNone
    <3>2. slots' \in [Slot -> SlotType]
      BY <1>1, <2>4 DEF IdleSlot, SlotType, PipeOrNone
    <3>3. worker' \in WorkerType
      BY <1>1, AtType DEF Place
    <3> QED
      BY <2>1, <3>1, <3>2, <3>3 DEF TypeOK
  <2>6. PipesInv'
    BY <1>1, <2>1, <2>3 DEF PipesInv, NoKernel, NotBuilding
  <2>7. PlaceInv'
    BY <1>1, <2>1, <2>2 DEF PlaceInv, Settled, At, NoKernel
  <2>8. RingInv'
    <3>1. kernel'.queue = <<>>
      BY <1>1 DEF NoKernel
    <3>2. Inflight' = 0 /\ 1 .. Inflight' = {}
      BY <3>1 DEF Inflight
    <3>3. worker'.pc \notin Waiting \cup Handing
      BY <1>1 DEF At, Waiting, Handing
    <3> QED
      BY <1>1, <3>2, <3>3, DepthAssumption DEF RingInv, IdleSlot
  <2>9. BusyInv' /\ ProgramOfTheHeader'
    BY <1>1 DEF BusyInv, ProgramOfTheHeader, IdleSlot
  <2> QED
    BY <2>5, <2>6, <2>7, <2>8, <2>9
<1>2. CASE Fault /\ UNCHANGED <<kernel, slots, worker>>
  <2>1. UNCHANGED <<job, algo, kernel, slots, ahead, pipes, worker, jobs, lost>>
    BY <1>2 DEF BuildKernel
  <2>2. TypeOK'
    BY <1>2, <2>1 DEF TypeOK, Fault
  <2> QED
    BY <2>1, <2>2 DEF PipesInv, PlaceInv, Settled, RingInv, Inflight, BusyInv, ProgramOfTheHeader
<1> QED
  BY <1>1, <1>2 DEF BuildKernel

(* A wait that is answered touches only the slot's pending mark. *)
LEMMA CollectStep ==
    ASSUME KernelInv, Collect
    PROVE  KernelInv'
<1> USE DEF KernelInv
<1>1. /\ UNCHANGED <<job, algo, kernel, ahead, pipes, jobs, faults, lost, Inflight>>
      /\ worker.pc \in Waiting /\ ~ slots[worker.slot].busy
      /\ worker.slot \in Slot /\ worker.id \in Id
  BY DEF Collect, Done, Inflight, Waiting, TypeOK, WorkerType
<1>2. slots' \in [Slot -> SlotType]
  BY <1>1 DEF Collect, TypeOK, SlotType
<1>3. \A i \in Slot : /\ slots'[i].id = slots[i].id /\ slots'[i].out = slots[i].out
                      /\ slots'[i].pipe = slots[i].pipe /\ slots'[i].want = slots[i].want
                      /\ slots'[i].busy = slots[i].busy
  BY <1>1 DEF Collect, TypeOK, SlotType
<1>4. worker' = [pc |-> IF worker.pc = "wait" THEN "read" ELSE "drain_read",
                 after |-> worker.after, slot |-> worker.slot, id |-> worker.id]
  BY DEF Collect, TypeOK, WorkerType
<1>5. TypeOK'
  <2>1. worker' \in WorkerType
    BY <1>1, <1>4 DEF TypeOK, WorkerType, Place, Draining, Handing
  <2> QED
    BY <1>1, <1>2, <2>1 DEF TypeOK
<1>6. PipesInv'
  BY <1>1, <1>4 DEF PipesInv, Waiting
<1>7. PlaceInv'
  BY <1>1, <1>4 DEF PlaceInv, Settled, Waiting, Draining
<1>8. RingInv'
  <2>1. \A q \in 1 .. Inflight : kernel.queue[q].slot \in Slot
    BY QueueType
  <2>2. worker'.pc \notin Draining => worker.pc \notin Draining
    BY <1>1, <1>4 DEF Draining, Waiting
  <2>3. worker'.slot = worker.slot /\ worker'.id = worker.id
    BY <1>4
  <2> QED
    BY <1>1, <1>3, <2>1, <2>2, <2>3 DEF RingInv
<1>9. BusyInv'
  BY <1>1, <1>3, <1>4 DEF BusyInv
<1>10. ProgramOfTheHeader'
  BY <1>1, <1>3 DEF ProgramOfTheHeader
<1> QED
  BY <1>5, <1>6, <1>7, <1>8, <1>9, <1>10

(* A dispatch that fails moves the ring on and leaves the queue. *)
LEMMA DispatchFailsStep ==
    ASSUME KernelInv, DispatchFails
    PROVE  KernelInv'
<1> USE DEF KernelInv
<1>1. /\ UNCHANGED <<job, algo, ahead, pipes, jobs, lost>>
      /\ worker.pc = "begin" /\ Fault
      /\ worker' = [At("drain") EXCEPT !.after = "top"]
      /\ kernel.next \in Slot /\ Next1(kernel.next) \in Slot
  BY DepthAssumption DEF DispatchFails, Drain, TypeOK, KernelType, Next1, Slot
<1>2. /\ kernel' \in KernelType
      /\ kernel'.built = kernel.built /\ kernel'.pipe = kernel.pipe
      /\ kernel'.key = kernel.key /\ kernel'.ready = kernel.ready
      /\ kernel'.queue = kernel.queue
  BY <1>1 DEF DispatchFails, TypeOK, KernelType
<1>3. slots' \in [Slot -> SlotType]
  BY <1>1 DEF DispatchFails, TypeOK, SlotType
<1>4. \A i \in Slot : /\ slots'[i].id = slots[i].id /\ slots'[i].out = slots[i].out
                      /\ slots'[i].pipe = slots[i].pipe /\ slots'[i].want = slots[i].want
                      /\ slots'[i].busy = slots[i].busy
  BY <1>1 DEF DispatchFails, TypeOK, SlotType
<1>5. TypeOK'
  <2>1. worker' \in WorkerType
    BY <1>1, AtType DEF Place, Draining, After
  <2>2. faults' \in Nat
    BY <1>1 DEF Fault, TypeOK
  <2> QED
    BY <1>1, <1>2, <1>3, <2>1, <2>2 DEF TypeOK
<1>6. worker'.pc = "drain" /\ worker'.after = "top" /\ kernel.built
  BY <1>1 DEF At, PlaceInv
<1>7. PipesInv'
  BY <1>1, <1>2, <1>6 DEF PipesInv
<1>8. PlaceInv'
  BY <1>1, <1>2, <1>6 DEF PlaceInv, Settled, Draining
<1>9. RingInv'
  <2>1. \A q \in 1 .. Inflight : kernel.queue[q].slot \in Slot
    BY QueueType
  <2>2. Inflight' = Inflight
    BY <1>2 DEF Inflight
  <2>3. worker'.pc \in Draining /\ worker'.pc \notin Waiting \cup Handing
    BY <1>6 DEF Draining, Waiting, Handing
  <2> QED
    BY <1>2, <1>4, <2>1, <2>2, <2>3 DEF RingInv
<1>10. BusyInv'
  <2>1. Inflight' = Inflight
    BY <1>2 DEF Inflight
  <2> QED
    BY <1>1, <1>2, <1>4, <2>1 DEF BusyInv, Waiting
<1>11. ProgramOfTheHeader'
  BY <1>1, <1>4 DEF ProgramOfTheHeader
<1> QED
  BY <1>5, <1>7, <1>8, <1>9, <1>10, <1>11

----------------------------------------------------------------------------
(* The queue.                                                               *)

(* The last pop frees no pipeline: none is ever retired with a dispatch in  *)
(* flight.                                                                  *)
LEMMA NothingToFree ==
    ASSUME TypeOK, PipesInv
    PROVE  Without(pipes, {kernel.retiring}) = pipes
<1>1. kernel.retiring = None /\ None \notin DOMAIN pipes
  BY DEF TypeOK, KernelType, PipesInv
<1>2. DOMAIN pipes \ {None} = DOMAIN pipes
  BY <1>1
<1>3. pipes = [q \in DOMAIN pipes |-> pipes[q]]
  BY DEF TypeOK
<1> QED
  BY <1>1, <1>2, <1>3 DEF Without

LEMMA PopStep ==
    ASSUME KernelInv, NEW pc \in Waiting, Pop(pc), kernel.queue # <<>>,
           (worker.pc = "pop" /\ pc = "wait") \/ (worker.pc = "drain" /\ pc = "drain_wait"),
           UNCHANGED <<job, algo, slots, ahead, jobs, faults, lost>>
    PROVE  KernelInv'
<1> USE DEF KernelInv
<1> DEFINE Entry == [slot : Slot, id : Id]
           e == Head(kernel.queue)
<1>0. kernel.queue \in Seq(Entry)
  BY DEF TypeOK, KernelType
<1>1. Inflight \in Nat /\ Inflight > 0
  <2>1. Inflight \in Nat /\ Inflight # 0
    BY QueueType, EmptyQueue
  <2> QED
    BY <2>1
<1>2. e = kernel.queue[1] /\ e.slot \in Slot /\ e.id \in Id
  <2>1. e = kernel.queue[1]
    OBVIOUS
  <2>2. 1 \in 1 .. Inflight
    BY <1>1
  <2> QED
    BY <2>1, <2>2, QueueType
<1>3. /\ Tail(kernel.queue) \in Seq(Entry) /\ Len(Tail(kernel.queue)) = Inflight - 1
      /\ \A q \in 1 .. Inflight - 1 : Tail(kernel.queue)[q] = kernel.queue[q + 1]
  <2> HIDE DEF Entry
  <2> QED
    BY <1>0, <1>1 DEF Inflight
<1>4. pipes' = pipes
  BY NothingToFree DEF Pop
<1>5. /\ kernel'.queue = Tail(kernel.queue)
      /\ kernel'.built = kernel.built /\ kernel'.pipe = kernel.pipe /\ kernel'.retiring = None
      /\ kernel'.key = kernel.key /\ kernel'.ready = kernel.ready /\ kernel'.next = kernel.next
      /\ kernel' \in KernelType
  <2>1. kernel' = [kernel EXCEPT !.queue = Tail(@), !.retiring = None]
    BY DEF Pop, TypeOK, KernelType
  <2>2. Tail(kernel.queue) \in Seq([slot : Slot, id : Id])
    BY <1>3
  <2> QED
    BY <2>1, <2>2 DEF TypeOK, KernelType
<1>6. worker' = [pc |-> pc, after |-> worker.after, slot |-> e.slot, id |-> e.id]
  BY DEF Pop, TypeOK, WorkerType
<1>7. Inflight' = Inflight - 1
  BY <1>3, <1>5 DEF Inflight
<1> HIDE DEF e, Entry
<1>8. TypeOK'
  <2>1. worker' \in WorkerType
    BY <1>2, <1>6 DEF TypeOK, WorkerType, Place
  <2> QED
    BY <1>4, <1>5, <2>1 DEF TypeOK
<1>9. kernel.built
  BY DEF PlaceInv
<1>10. PipesInv'
  BY <1>4, <1>5, <1>6, <1>9 DEF PipesInv, Waiting
<1>11. PlaceInv'
  BY <1>4, <1>5, <1>6 DEF PlaceInv, Settled, Draining, Waiting
<1>12. RingInv'
  <2>1. Inflight' <= Depth
    BY <1>1, <1>7, DepthAssumption DEF RingInv
  <2>2. ASSUME worker'.pc \notin Draining, NEW q \in 1 .. Inflight'
        PROVE  kernel'.queue[q].slot
                 = (kernel'.next + (Depth - Inflight') + (q - 1)) % Depth
    <3>1. worker.pc \notin Draining
      BY <1>6, <2>2 DEF Draining, Waiting
    <3>2. q + 1 \in 1 .. Inflight /\ kernel'.queue[q] = kernel.queue[q + 1]
      BY <1>1, <1>3, <1>5, <1>7
    <3>3. kernel.queue[q + 1].slot
            = (kernel.next + (Depth - Inflight) + ((q + 1) - 1)) % Depth
      BY <3>1, <3>2 DEF RingInv
    <3>4. kernel.next + (Depth - Inflight) + ((q + 1) - 1)
            = kernel'.next + (Depth - Inflight') + (q - 1)
      <4>1. kernel.next \in Int /\ kernel'.next = kernel.next
        BY <1>5 DEF TypeOK, KernelType, Slot
      <4> QED
        BY <1>1, <1>7, <4>1, DepthAssumption
    <3> QED
      BY <3>2, <3>3, <3>4
  <2>3. ASSUME NEW q \in 1 .. Inflight'
        PROVE  slots[kernel'.queue[q].slot].id = kernel'.queue[q].id
    <3>1. q + 1 \in 1 .. Inflight /\ kernel'.queue[q] = kernel.queue[q + 1]
      BY <1>1, <1>3, <1>5, <1>7
    <3> QED
      BY <3>1 DEF RingInv
  <2>4. slots[e.slot].id = e.id
    BY <1>1, <1>2 DEF RingInv
  <2>5. worker'.pc \notin Handing /\ worker'.slot = e.slot /\ worker'.id = e.id
    BY <1>6 DEF Handing, Waiting
  <2> QED
    BY <2>1, <2>2, <2>3, <2>4, <2>5 DEF RingInv
<1>13. BusyInv'
  <2> SUFFICES ASSUME ~ lost, NEW i \in Slot, slots[i].busy
               PROVE  /\ \/ \E q \in 1 .. Inflight' : kernel'.queue[q].slot = i
                         \/ worker'.pc \in Waiting /\ worker'.slot = i
                      /\ slots[i].pipe \in DOMAIN pipes
    BY <1>4 DEF BusyInv
  <2>1. slots[i].pipe \in DOMAIN pipes
    BY DEF BusyInv
  <2>2. PICK q \in 1 .. Inflight : kernel.queue[q].slot = i
    BY DEF BusyInv, Waiting
  <2>3. CASE q = 1
    BY <1>2, <1>6, <2>1, <2>2, <2>3
  <2>4. CASE q # 1
    <3>1. q - 1 \in 1 .. Inflight' /\ (q - 1) + 1 = q
      BY <1>1, <1>7, <2>4
    <3>2. kernel'.queue[q - 1] = kernel.queue[q]
      BY <1>3, <1>5, <1>7, <3>1
    <3> QED
      BY <2>1, <2>2, <3>1, <3>2
  <2> QED
    BY <2>3, <2>4
<1>14. ProgramOfTheHeader'
  BY <1>4 DEF ProgramOfTheHeader
<1> QED
  BY <1>8, <1>10, <1>11, <1>12, <1>13, <1>14

LEMMA ReapStep ==
    ASSUME KernelInv, Reap
    PROVE  KernelInv'
<1>1. kernel.queue # <<>>
  BY DEF Reap, KernelInv, PlaceInv
<1> QED
  BY <1>1, PopStep DEF Reap, Waiting

LEMMA DrainPopsStep ==
    ASSUME KernelInv, DrainPops
    PROVE  KernelInv'
<1>1. kernel.queue # <<>>
  <2>1. Inflight # 0
    BY QueueType DEF DrainPops, KernelInv
  <2> QED
    BY <2>1, EmptyQueue DEF KernelInv
<1> QED
  BY <1>1, PopStep DEF DrainPops, Waiting

(* The next slot of the ring is none of the queue's, as long as the queue   *)
(* is not full.                                                             *)
LEMMA NextIsFree ==
    ASSUME TypeOK, RingInv, worker.pc \notin Draining, Inflight < Depth,
           NEW q \in 1 .. Inflight
    PROVE  kernel.queue[q].slot # kernel.next
<1>1. /\ Inflight \in Nat /\ kernel.next \in Nat /\ kernel.next < Depth
      /\ kernel.queue[q].slot = (kernel.next + (Depth - Inflight) + (q - 1)) % Depth
  BY QueueType, DepthAssumption DEF TypeOK, KernelType, Slot, RingInv
<1> DEFINE n == kernel.next + (Depth - Inflight) + (q - 1)
<1>2. n \in Nat /\ n < 2 * Depth /\ n # kernel.next /\ n - Depth # kernel.next
  BY <1>1, DepthAssumption
<1>3. kernel.queue[q].slot = n % Depth
  BY <1>1
<1> HIDE DEF n
<1>4. n % Depth = IF n < Depth THEN n ELSE n - Depth
  BY <1>2, OneTurn
<1> QED
  BY <1>2, <1>3, <1>4

(* The queue still ends before the next slot when the next slot joins it.   *)
LEMMA RingTurns ==
    ASSUME NEW next \in Slot, NEW len \in Nat, len < Depth, NEW q \in 1 .. len + 1
    PROVE  (Next1(next) + (Depth - (len + 1)) + (q - 1)) % Depth
             = IF q = len + 1 THEN next ELSE (next + (Depth - len) + (q - 1)) % Depth
<1>1. next \in Nat /\ next < Depth /\ len \in Nat
  BY DepthAssumption DEF Slot
<1>2. Next1(next) = IF next + 1 < Depth THEN next + 1 ELSE next + 1 - Depth
  <2> DEFINE k == next + 1
  <2>1. k \in Nat /\ k < 2 * Depth
    BY <1>1, DepthAssumption
  <2> HIDE DEF k
  <2>2. k % Depth = IF k < Depth THEN k ELSE k - Depth
    BY <2>1, OneTurn, Zenon
  <2>3. Next1(next) = k % Depth
    BY Zenon DEF k, Next1
  <2> QED
    BY <1>1, <2>1, <2>2, <2>3, DepthAssumption DEF k
<1> DEFINE m == Next1(next) + (Depth - (len + 1)) + (q - 1)
           n == next + (Depth - len) + (q - 1)
<1>3. m \in Nat /\ m < 2 * Depth /\ n \in Nat /\ n < 2 * Depth
  BY <1>1, <1>2, DepthAssumption
<1>4. m = n \/ m = n - Depth
  BY <1>1, <1>2, DepthAssumption
<1>5. q = len + 1 => n = next + Depth
  BY <1>1, DepthAssumption
<1> HIDE DEF m, n
<1>6. /\ m % Depth = IF m < Depth THEN m ELSE m - Depth
      /\ n % Depth = IF n < Depth THEN n ELSE n - Depth
  BY <1>3, OneTurn, Zenon
<1>7. m % Depth = IF q = len + 1 THEN next ELSE n % Depth
  BY <1>1, <1>3, <1>4, <1>5, <1>6, DepthAssumption
<1> QED
  BY <1>7 DEF m, n

LEMMA DispatchStep ==
    ASSUME KernelInv, Dispatch
    PROVE  KernelInv'
<1> USE DEF KernelInv
<1> DEFINE i == kernel.next
           id == FreshId
           e == [slot |-> i, id |-> id]
           Entry == [slot : Slot, id : Id]
<1>1. /\ worker.pc = "begin" /\ i \in Slot /\ ~ slots[i].busy /\ id \in Id
      /\ UNCHANGED <<job, algo, ahead, pipes, jobs, faults, lost>>
  BY FreshIdIsFresh DEF Dispatch, Begun, Done
<1>2. slots' = Submitted(i, id)
      /\ kernel' = [kernel EXCEPT !.next = Next1(i), !.queue = Append(@, e)]
  BY DEF Dispatch, Begun
<1> HIDE DEF id
<1>3. /\ kernel.built /\ kernel.ready /\ kernel.key = job /\ algo = Epoch(job) /\ Settled
      /\ kernel.pipe \in DOMAIN pipes /\ kernel.pipe \in PipeOrNone
      /\ pipes[kernel.pipe] = [key |-> job, lines |-> Epoch(job)]
  <2>1. kernel.built /\ kernel.ready /\ kernel.key = job /\ algo = Epoch(job) /\ Settled
    BY <1>1 DEF PlaceInv, Settled, Draining
  <2>2. kernel.pipe \in DOMAIN pipes /\ kernel.pipe \in PipeOrNone
    BY <2>1 DEF PipesInv, TypeOK, KernelType
  <2>3. pipes[kernel.pipe] \in PipeType
    BY <2>2 DEF TypeOK
  <2>4. pipes[kernel.pipe] = [key |-> job, lines |-> Epoch(job)]
    BY <2>1, <2>3 DEF PipesInv, PipeType
  <2> QED
    BY <2>1, <2>2, <2>4
<1>4. /\ kernel.queue \in Seq(Entry) /\ Inflight \in Nat /\ Inflight < Depth
      /\ Next1(i) \in Slot
  BY <1>1, QueueType, DepthAssumption DEF TypeOK, KernelType, Dispatch, Next1, Slot
<1>5. e \in Entry
  BY <1>1
<1>6. /\ Append(kernel.queue, e) \in Seq(Entry) /\ Len(Append(kernel.queue, e)) = Inflight + 1
      /\ Append(kernel.queue, e)[Inflight + 1] = e
      /\ \A q \in 1 .. Inflight : Append(kernel.queue, e)[q] = kernel.queue[q]
  <2> HIDE DEF e, Entry
  <2> QED
    BY <1>4, <1>5 DEF Inflight
<1>7. /\ kernel'.queue = Append(kernel.queue, e) /\ kernel'.next = Next1(i)
      /\ kernel'.built = kernel.built /\ kernel'.pipe = kernel.pipe
      /\ kernel'.key = kernel.key /\ kernel'.ready = kernel.ready
  BY <1>2 DEF TypeOK, KernelType
<1>8. kernel' \in KernelType
  <2> HIDE DEF e
  <2> QED
    BY <1>2, <1>4, <1>6 DEF TypeOK, KernelType
<1>9. Inflight' = Inflight + 1
  BY <1>6, <1>7 DEF Inflight
<1>10. /\ slots'[i].id = id /\ slots'[i].busy = TRUE /\ slots'[i].pipe = kernel.pipe
       /\ slots'[i].want = job /\ slots' \in [Slot -> SlotType]
       /\ \A k \in Slot \ {i} : slots'[k] = slots[k]
  BY <1>1, <1>2, <1>3, KeysAssumption DEF Submitted, TypeOK, SlotType
<1>11. worker' = At("pop") \/ worker' = At("top")
  BY DEF Dispatch
<1>12. /\ worker'.pc \in {"pop", "top"}
       /\ worker'.pc \notin Draining \cup Waiting \cup Handing
  BY <1>11 DEF At, Draining, Waiting, Handing
<1>13. /\ \A q \in 1 .. Inflight : kernel'.queue[q] = kernel.queue[q]
       /\ kernel'.queue[Inflight + 1] = e /\ e.slot = i /\ e.id = id
       /\ Inflight + 1 \in 1 .. Inflight'
       /\ \A q \in 1 .. Inflight' : q = Inflight + 1 \/ q \in 1 .. Inflight
  <2>1. e.slot = i /\ e.id = id
    OBVIOUS
  <2> HIDE DEF e
  <2> QED
    BY <1>4, <1>6, <1>7, <1>9, <2>1
<1> HIDE DEF e, Entry
<1>14. TypeOK'
  <2>1. worker' \in WorkerType
    BY <1>11, AtType DEF Place
  <2> QED
    BY <1>1, <1>8, <1>10, <2>1 DEF TypeOK
<1>15. PipesInv'
  BY <1>1, <1>3, <1>7, <1>12 DEF PipesInv
<1>16. PlaceInv'
  <2>1. kernel'.queue # <<>>
    BY <1>4, <1>9, <1>14, EmptyQueue DEF Inflight
  <2>2. Settled'
    BY <1>12 DEF Settled
  <2> QED
    BY <1>1, <1>3, <1>7, <1>12, <2>1, <2>2 DEF PlaceInv
<1>17. \A q \in 1 .. Inflight : kernel.queue[q].slot \in Slot \ {i}
  <2>1. worker.pc \notin Draining
    BY <1>1 DEF Draining
  <2> QED
    BY <1>4, <2>1, NextIsFree, QueueType
<1>18. RingInv'
  <2>1. Inflight' <= Depth
    BY <1>4, <1>9, DepthAssumption
  <2>2. ASSUME NEW q \in 1 .. Inflight'
        PROVE  kernel'.queue[q].slot
                 = (kernel'.next + (Depth - Inflight') + (q - 1)) % Depth
    <3>1. (Next1(i) + (Depth - (Inflight + 1)) + (q - 1)) % Depth
             = IF q = Inflight + 1 THEN i ELSE (i + (Depth - Inflight) + (q - 1)) % Depth
      BY <1>1, <1>4, <1>9, RingTurns
    <3>2. CASE q = Inflight + 1
      BY <1>7, <1>9, <1>13, <3>1, <3>2
    <3>3. CASE q # Inflight + 1
      <4>1. q \in 1 .. Inflight
        BY <1>13, <3>3
      <4>2. kernel.queue[q].slot = (i + (Depth - Inflight) + (q - 1)) % Depth
        BY <1>1, <4>1 DEF RingInv, Draining
      <4> QED
        BY <1>7, <1>9, <1>13, <3>1, <3>3, <4>1, <4>2
    <3> QED
      BY <3>2, <3>3
  <2>3. ASSUME NEW q \in 1 .. Inflight'
        PROVE  slots'[kernel'.queue[q].slot].id = kernel'.queue[q].id
    <3>1. CASE q = Inflight + 1
      BY <1>10, <1>13, <3>1
    <3>2. CASE q \in 1 .. Inflight
      BY <1>10, <1>13, <1>17, <3>2 DEF RingInv
    <3> QED
      BY <1>13, <3>1, <3>2
  <2>4. \A k \in Slot : ~ slots'[k].busy => slots'[k].out = slots'[k].id
    BY <1>10 DEF RingInv
  <2> QED
    BY <1>12, <2>1, <2>2, <2>3, <2>4 DEF RingInv
<1>19. BusyInv'
  <2> SUFFICES ASSUME ~ lost, NEW k \in Slot, slots'[k].busy
               PROVE  /\ \E q \in 1 .. Inflight' : kernel'.queue[q].slot = k
                      /\ slots'[k].pipe \in DOMAIN pipes
    BY <1>1 DEF BusyInv
  <2>1. CASE k = i
    BY <1>3, <1>10, <1>13, <2>1
  <2>2. CASE k # i
    <3>1. slots[k].busy /\ slots'[k].pipe = slots[k].pipe
      BY <1>10, <2>2
    <3>2. PICK q \in 1 .. Inflight : kernel.queue[q].slot = k
      BY <1>1, <3>1 DEF BusyInv, Waiting
    <3>3. q \in 1 .. Inflight'
      BY <1>4, <1>9
    <3>4. slots[k].pipe \in DOMAIN pipes
      BY <3>1 DEF BusyInv
    <3> QED
      BY <1>13, <3>1, <3>2, <3>3, <3>4
  <2> QED
    BY <2>1, <2>2
<1>20. ProgramOfTheHeader'
  <2> SUFFICES ASSUME NEW k \in Slot, slots'[k].busy, slots'[k].pipe \in DOMAIN pipes
               PROVE  pipes[slots'[k].pipe]
                        = [key |-> slots'[k].want, lines |-> Epoch(slots'[k].want)]
    BY <1>1 DEF ProgramOfTheHeader
  <2>1. CASE k = i
    BY <1>3, <1>10, <2>1
  <2>2. CASE k # i
    BY <1>10, <2>2 DEF ProgramOfTheHeader
  <2> QED
    BY <2>1, <2>2
<1> QED
  BY <1>14, <1>15, <1>16, <1>18, <1>19, <1>20

----------------------------------------------------------------------------
(* prepare_program.                                                         *)

(* A worker that has to change its program has nothing in flight: the job   *)
(* that asked for the program was adopted by a drained worker.              *)
LEMMA NothingInFlight ==
    ASSUME KernelInv, worker.pc = "prepare", ~ (kernel.ready /\ kernel.key = job)
    PROVE  /\ kernel.queue = <<>> /\ Inflight = 0 /\ kernel.built /\ algo = Epoch(job)
           /\ lost \/ \A i \in Slot : ~ slots[i].busy
<1>1. kernel.queue = <<>> /\ kernel.built /\ algo = Epoch(job)
  BY DEF KernelInv, PlaceInv, Settled, Draining
<1>2. Inflight = 0
  BY <1>1, EmptyQueue DEF KernelInv
<1>3. 1 .. Inflight = {}
  BY <1>2
<1>4. lost \/ \A i \in Slot : ~ slots[i].busy
  BY <1>3 DEF KernelInv, BusyInv, Waiting
<1> QED
  BY <1>1, <1>2, <1>4

(* The pipeline that takes over is the only one, and it is the program's.   *)
LEMMA SwapStep ==
    ASSUME KernelInv, worker.pc = "prepare", ~ (kernel.ready /\ kernel.key = job),
           NEW p \in Pipe, NEW made, Swap(p, made),
           made \in [DOMAIN made -> PipeType],
           p \in DOMAIN made, DOMAIN made \subseteq {kernel.pipe, p}, None \notin DOMAIN made,
           p # kernel.pipe, made[p] = [key |-> job, lines |-> algo],
           \A i \in Slot : slots[i].pipe = p =>
               p \in DOMAIN pipes /\ pipes[p] = made[p],
           UNCHANGED <<job, algo, slots, jobs, faults, lost>>
    PROVE  KernelInv'
<1>1. /\ kernel.queue = <<>> /\ Inflight = 0 /\ kernel.built /\ algo = Epoch(job)
      /\ lost \/ \A i \in Slot : ~ slots[i].busy
  BY NothingInFlight
<1> USE DEF KernelInv
<1>2. /\ kernel' = [kernel EXCEPT !.pipe = p, !.retiring = None, !.key = job, !.ready = TRUE]
      /\ ahead' = [st |-> "building", key |-> job + 1, pipe |-> None]
      /\ worker' = At("begin")
  <2>1. Retired(kernel.pipe).keep = None
    BY <1>1 DEF Retired, TypeOK, KernelType
  <2>2. kernel' = [kernel EXCEPT !.pipe = p, !.retiring = Retired(kernel.pipe).keep,
                                 !.key = job, !.ready = TRUE]
    BY Zenon DEF Swap
  <2>3. StartAhead(job + 1) /\ worker' = At("begin")
    BY Zenon DEF Swap
  <2> QED
    BY <2>1, <2>2, <2>3, Zenon DEF StartAhead
<1>3. pipes' = [q \in {p} |-> made[q]]
  <2>1. kernel.retiring = None
    BY DEF TypeOK, KernelType
  <2>2. pipes' = Without(made, Retired(kernel.pipe).gone)
    BY DEF Swap
  <2>3. CASE kernel.pipe = None
    <3>1. Retired(kernel.pipe).gone = {}
      BY <2>3 DEF Retired
    <3>2. DOMAIN made \ {} = {p}
      BY <2>3
    <3> QED
      BY <2>2, <3>1, <3>2 DEF Without
  <2>4. CASE kernel.pipe # None
    <3>1. Retired(kernel.pipe).gone = {None, kernel.pipe}
      BY <1>1, <2>1, <2>4 DEF Retired
    <3>2. DOMAIN made \ {None, kernel.pipe} = {p}
      BY DEF Pipe, None
    <3> QED
      BY <2>2, <3>1, <3>2 DEF Without
  <2> QED
    BY <2>3, <2>4
<1>4. job \in Nat /\ job + 1 \in Nat /\ p # None
  BY KeysAssumption DEF TypeOK, Pipe, None
<1>5. /\ kernel'.pipe = p /\ kernel'.key = job /\ kernel'.ready /\ kernel'.built
      /\ kernel'.queue = <<>> /\ kernel'.next = kernel.next /\ kernel' \in KernelType
  BY <1>1, <1>2, <1>4 DEF TypeOK, KernelType, PipeOrNone
<1>6. /\ DOMAIN pipes' = {p} /\ pipes'[p] = [key |-> job, lines |-> algo]
      /\ pipes' \in [DOMAIN pipes' -> PipeType]
  BY <1>3
<1>7. TypeOK'
  <2>1. ahead' \in AheadType
    BY <1>2, <1>4 DEF AheadType, PipeOrNone
  <2>2. worker' \in WorkerType
    BY <1>2, AtType DEF Place
  <2> QED
    BY <1>5, <1>6, <2>1, <2>2 DEF TypeOK
<1>8. PipesInv'
  <2>1. /\ ahead'.pipe = None /\ ahead'.st = "building"
    BY <1>2
  <2> QED
    BY <1>1, <1>4, <1>5, <1>6, <2>1 DEF PipesInv
<1>9. worker'.pc = "begin"
  BY <1>2 DEF At
<1>10. PlaceInv'
  BY <1>1, <1>5, <1>9 DEF PlaceInv
<1>11. Inflight' = 0 /\ 1 .. Inflight' = {}
  BY <1>5 DEF Inflight
<1>12. RingInv'
  <2>1. worker'.pc \notin Waiting \cup Handing
    BY <1>9 DEF Waiting, Handing
  <2> QED
    BY <1>11, <2>1, DepthAssumption DEF RingInv
<1>13. BusyInv'
  BY <1>1 DEF BusyInv
<1>14. ProgramOfTheHeader'
  <2> SUFFICES ASSUME NEW i \in Slot, slots[i].busy, slots[i].pipe \in DOMAIN pipes'
               PROVE  pipes'[slots[i].pipe]
                        = [key |-> slots[i].want, lines |-> Epoch(slots[i].want)]
    BY DEF ProgramOfTheHeader
  <2>1. slots[i].pipe = p
    BY <1>6
  <2>2. p \in DOMAIN pipes /\ pipes[p] = pipes'[p]
    BY <1>6, <2>1
  <2> QED
    BY <2>1, <2>2 DEF ProgramOfTheHeader
<1> QED
  BY <1>7, <1>8, <1>10, <1>12, <1>13, <1>14

LEMMA TakeAheadStep ==
    ASSUME KernelInv, TakeAhead
    PROVE  KernelInv'
<1> USE DEF KernelInv
<1>1. /\ worker.pc = "prepare" /\ ~ (kernel.ready /\ kernel.key = job)
      /\ ahead.pipe # None /\ ahead.key = job /\ Swap(ahead.pipe, pipes)
      /\ UNCHANGED <<job, algo, slots, jobs, faults, lost>>
  BY DEF TakeAhead
<1>2. /\ ahead.pipe \in Pipe /\ ahead.pipe \in DOMAIN pipes
      /\ pipes \in [DOMAIN pipes -> PipeType]
      /\ DOMAIN pipes \subseteq {kernel.pipe, ahead.pipe} /\ None \notin DOMAIN pipes
  BY <1>1 DEF TypeOK, AheadType, PipeOrNone, PipesInv
<1>3. ahead.pipe # kernel.pipe
  BY <1>1 DEF PipesInv
<1>4. pipes[ahead.pipe] = [key |-> job, lines |-> algo]
  <2>1. pipes[ahead.pipe] \in PipeType
    BY <1>2
  <2>2. pipes[ahead.pipe].key = job /\ pipes[ahead.pipe].lines = algo
    BY <1>1, <1>2 DEF PipesInv
  <2> QED
    BY <2>1, <2>2 DEF PipeType
<1> QED
  BY <1>1, <1>2, <1>3, <1>4, SwapStep

LEMMA BuildProgramStep ==
    ASSUME KernelInv, BuildProgram
    PROVE  KernelInv'
<1> USE DEF KernelInv
<1>1. worker.pc = "prepare" /\ ~ (kernel.ready /\ kernel.key = job)
  BY DEF BuildProgram
<1>2. CASE /\ Swap(NewPipe, Without(Made(NewPipe, job, algo), {ahead.pipe}))
           /\ UNCHANGED <<job, algo, slots, jobs, faults, lost>>
  <2> DEFINE all  == Made(NewPipe, job, algo)
             made == Without(all, {ahead.pipe})
  <2>1. /\ NewPipe \in Pipe /\ NewPipe # None /\ NewPipe \notin DOMAIN pipes
        /\ \A i \in Slot : slots[i].pipe # NewPipe
    BY NewPipeIsNew
  <2>2. /\ DOMAIN all = DOMAIN pipes \cup {NewPipe} /\ all \in [DOMAIN all -> PipeType]
        /\ all[NewPipe] = [key |-> job, lines |-> algo]
    <3>1. job \in Nat /\ algo \in Nat
      BY KeysAssumption DEF TypeOK
    <3> QED
      BY <3>1, MadeIsNew
  <2>3. NewPipe # kernel.pipe /\ NewPipe # ahead.pipe
    BY <2>1 DEF PipesInv
  <2> HIDE DEF all
  <2>4. /\ DOMAIN made = DOMAIN all \ {ahead.pipe} /\ made \in [DOMAIN made -> PipeType]
        /\ made[NewPipe] = [key |-> job, lines |-> algo] /\ NewPipe \in DOMAIN made
    BY <2>2, <2>3 DEF Without
  <2>5. DOMAIN made \subseteq {kernel.pipe, NewPipe} /\ None \notin DOMAIN made
    BY <2>1, <2>2, <2>4 DEF PipesInv
  <2>6. Swap(NewPipe, made)
    BY <1>2 DEF all
  <2> HIDE DEF made
  <2> QED
    BY <1>1, <1>2, <2>1, <2>3, <2>4, <2>5, <2>6, SwapStep
<1>3. CASE /\ Fault /\ ahead' = NotBuilding /\ pipes' = Without(pipes, {ahead.pipe})
           /\ Drain("top") /\ UNCHANGED <<job, algo, kernel, slots, jobs, lost>>
  <2>1. /\ kernel.queue = <<>> /\ Inflight = 0 /\ kernel.built /\ algo = Epoch(job)
        /\ lost \/ \A i \in Slot : ~ slots[i].busy
    BY <1>1, NothingInFlight
  <2>2. worker' = [At("drain") EXCEPT !.after = "top"]
        /\ worker'.pc = "drain" /\ worker'.after = "top"
    BY <1>3 DEF Drain, At
  <2>3. /\ DOMAIN pipes' = DOMAIN pipes \ {ahead.pipe}
        /\ \A q \in DOMAIN pipes' : pipes'[q] = pipes[q]
        /\ pipes' \in [DOMAIN pipes' -> PipeType]
    BY <1>3 DEF Without, TypeOK
  <2>4. TypeOK'
    <3>1. ahead' \in AheadType
      BY <1>3 DEF NotBuilding, AheadType, PipeOrNone
    <3>2. worker' \in WorkerType
      BY <2>2, AtType DEF Place, Draining, After
    <3>3. faults' \in Nat
      BY <1>3 DEF Fault, TypeOK
    <3> QED
      BY <1>3, <2>3, <3>1, <3>2, <3>3 DEF TypeOK
  <2>5. PipesInv'
    <3>1. ahead'.pipe = None /\ ahead'.st = "none" /\ kernel' = kernel /\ algo' = algo
      BY <1>3 DEF NotBuilding
    <3>2. kernel.pipe # None => kernel.pipe \in DOMAIN pipes'
      BY <2>3 DEF PipesInv
    <3> QED
      BY <1>1, <2>1, <2>3, <3>1, <3>2 DEF PipesInv
  <2>6. PlaceInv'
    BY <1>3, <2>1, <2>2 DEF PlaceInv
  <2>7. Inflight' = 0 /\ 1 .. Inflight' = {}
    BY <1>3, <2>1 DEF Inflight
  <2>8. RingInv'
    <3>1. worker'.pc \notin Waiting \cup Handing
      BY <2>2 DEF Waiting, Handing
    <3> QED
      BY <1>3, <2>7, <3>1, DepthAssumption DEF RingInv
  <2>9. BusyInv'
    BY <1>3, <2>1 DEF BusyInv
  <2>10. ProgramOfTheHeader'
    BY <1>3, <2>3 DEF ProgramOfTheHeader
  <2> QED
    BY <2>4, <2>5, <2>6, <2>8, <2>9, <2>10
<1> QED
  BY <1>2, <1>3 DEF BuildProgram

----------------------------------------------------------------------------
(* The theorems.                                                            *)

LEMMA InitInv ==
    ASSUME Init
    PROVE  KernelInv
<1>1. 0 \in Slot /\ 0 \in Id
  BY DepthAssumption DEF Slot, Id
<1>2. TypeOK
  <2>1. kernel \in KernelType
    BY <1>1 DEF Init, NoKernel, KernelType, PipeOrNone
  <2>2. slots \in [Slot -> SlotType]
    BY <1>1 DEF Init, IdleSlot, SlotType, PipeOrNone
  <2>3. ahead \in AheadType /\ pipes \in [DOMAIN pipes -> PipeType]
    BY DEF Init, NotBuilding, AheadType, PipeOrNone
  <2>4. worker \in WorkerType
    BY AtType DEF Init, Place
  <2>5. job \in Keys /\ algo \in Nat /\ jobs \in Nat /\ faults \in Nat
    BY DEF Init
  <2>6. lost \in BOOLEAN
    BY Zenon DEF Init
  <2> QED
    BY <2>1, <2>2, <2>3, <2>4, <2>5, <2>6 DEF TypeOK
<1>3. PipesInv
  BY DEF Init, PipesInv, NoKernel, NotBuilding
<1>4. PlaceInv
  BY DEF Init, PlaceInv, Settled, At, NoKernel
<1>5. Inflight = 0 /\ 1 .. Inflight = {}
  BY DEF Init, NoKernel, Inflight
<1>6. RingInv
  <2>1. worker.pc \notin Waiting \cup Handing
    BY DEF Init, At, Waiting, Handing
  <2> QED
    BY <1>5, <2>1, DepthAssumption DEF Init, RingInv, IdleSlot
<1>7. BusyInv /\ ProgramOfTheHeader
  BY DEF Init, BusyInv, ProgramOfTheHeader, IdleSlot
<1> QED
  BY <1>2, <1>3, <1>4, <1>6, <1>7 DEF KernelInv

(* The inductive invariant of worker, thread and device, with the types. *)
THEOREM KernelInvHolds == Spec => []KernelInv
<1>1. Init => KernelInv
  BY InitInv
<1>2. KernelInv /\ [Next]_vars => KernelInv'
  <2> SUFFICES ASSUME KernelInv, [Next]_vars
               PROVE  KernelInv'
    OBVIOUS
  <2>1. ASSUME Device PROVE KernelInv'
    BY <2>1, DeviceFinishesStep DEF Device
  <2>2. ASSUME Work PROVE KernelInv'
    BY <2>2, RetargetStep, TeardownStep, BuildKernelStep, LoopStep, ProgramReadyStep,
       TakeAheadStep, BuildProgramStep, DispatchStep, DispatchFailsStep, ReapStep,
       DrainPopsStep, DrainedStep, CollectStep, ReadBackStep, CollectTimesOutStep DEF Work
  <2>3. CASE UNCHANGED vars
    BY <2>3 DEF vars, KernelInv, TypeOK, PipesInv, PlaceInv, Settled, RingInv, Inflight,
                BusyInv, ProgramOfTheHeader
  <2> QED
    BY <2>1, <2>2, <2>3, AheadEndsStep, NewJobStep, ParkStep DEF Next
<1> QED
  BY <1>1, <1>2, PTL DEF Spec

(* prepare_program, start_ahead, retarget: whatever the device runs was     *)
(* compiled for the program and the epoch of its own header.                *)
THEOREM ProgramOfTheHeaderHolds == Spec => []ProgramOfTheHeader
<1>1. KernelInv => ProgramOfTheHeader
  BY DEF KernelInv
<1> QED
  BY <1>1, KernelInvHolds, PTL

(* collect: the readback handed out is the popped dispatch's own, though a  *)
(* failed dispatch moves the ring and not the queue.                        *)
THEOREM ResultsOfTheDispatchHolds == Spec => []ResultsOfTheDispatch
<1>1. KernelInv => ResultsOfTheDispatch
  <2> SUFFICES ASSUME KernelInv, worker.pc \in Handing
               PROVE  slots[worker.slot].out = worker.id
    BY DEF ResultsOfTheDispatch, Handing
  <2>1. worker.slot \in Slot
    BY DEF KernelInv, TypeOK, WorkerType
  <2> QED
    BY <2>1 DEF KernelInv, RingInv
<1> QED
  BY <1>1, KernelInvHolds, PTL

(* retire, collect and ~VulkanKernel: no pipeline is destroyed under a      *)
(* command buffer the device executes, unless a dispatch was given up.      *)
THEOREM PipelineOutlives == Spec => []PipelineOutlivesUnlessGivenUp
<1>1. KernelInv => PipelineOutlivesUnlessGivenUp
  BY DEF KernelInv, BusyInv, PipelineOutlivesUnlessGivenUp
<1> QED
  BY <1>1, KernelInvHolds, PTL

(* ~VulkanKernel: a kernel that is gone leaves no pipeline and no thread.   *)
THEOREM NothingLeftBehindHolds == Spec => []NothingLeftBehind
<1>1. KernelInv => NothingLeftBehind
  <2> SUFFICES ASSUME KernelInv, ~ kernel.built
               PROVE  pipes = [p \in {} |-> 0] /\ ahead = NotBuilding
    BY DEF NothingLeftBehind
  <2>1. ahead = NotBuilding /\ DOMAIN pipes = {}
    BY DEF KernelInv, PipesInv, NoKernel, NotBuilding
  <2>2. pipes \in [DOMAIN pipes -> PipeType]
    BY DEF KernelInv, TypeOK
  <2> QED
    BY <2>1, <2>2
<1> QED
  BY <1>1, KernelInvHolds, PTL

(* retire: because a change of program starts from a drained worker, the    *)
(* place kept for a pipeline that dispatches still use is never taken.      *)
THEOREM NothingIsRetired == Spec => [](kernel.retiring = None)
<1>1. KernelInv => kernel.retiring = None
  BY DEF KernelInv, TypeOK, KernelType
<1> QED
  BY <1>1, KernelInvHolds, PTL
=============================================================================

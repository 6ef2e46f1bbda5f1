--------------------------- MODULE ProcessProofs ---------------------------
(***************************************************************************)
(* Proofs about Process for any number of workers, any algorithms and any  *)
(* requests: whom the backend is destroyed under and for whom it is left   *)
(* behind, and that nothing is mined before its self-test.                 *)
(*                                                                         *)
(* DevicesGivenBack is not inductive. release_devices looks at g_live      *)
(* alone, so the count has to be exact (LiveCount); and a worker that      *)
(* starts after the backend is gone has to find g_stop set before it comes *)
(* to a device (OutOfReach). NothingMinedUntested rests on where the name  *)
(* of an algorithm is when its test has passed (Tested).                   *)
(***************************************************************************)
EXTENDS Process, TLAPS, FiniteSetTheorems

Places == {"none", "created", "bind", "top", "device", "publish", "stuck", "parking",
           "parked", "leave", "gone"}

(* What the proofs need to know of types. *)
Typed ==
    /\ pc \in [Worker -> Places]
    /\ bound \in [Worker -> Algo \cup {NoAlgo}]
    /\ kernel \subseteq Worker
    /\ g_live \in Int
    /\ started \in 0 .. N
    /\ opt_algo \in Algo
    /\ wanted \in Algo \cup {NoAlgo}
    /\ stratum \in {"fit", "test", "name", "tune"} => wanted \in Algo

(* The workers inside miner_thread. *)
Live == {w \in Worker : pc[w] \notin {"none", "created", "gone"}}

(* g_live counts them, only they hold kernels, and a thread that main has    *)
(* not created is nowhere.                                                   *)
LiveCount ==
    /\ g_live = Cardinality(Live)
    /\ kernel \subseteq Live
    /\ \A w \in Worker : w > started => pc[w] = "none"

(* A release has told the workers to stop and opened the barrier; once the   *)
(* backend is gone no worker is on the way to a device.                      *)
OutOfReach ==
    /\ main = "wait" => g_stop /\ released
    /\ backend \in {"freed", "leaked"} => main \in {"exit", "ended"}
    /\ backend = "freed" =>
         g_stop /\ kernel = {}
           /\ \A w \in Worker : pc[w] \in {"none", "created", "bind", "top", "leave", "gone"}
    /\ backend = "leaked" => (\E w \in Worker : pc[w] = "stuck") \/ stats_held

(* The algorithm that is named has passed, once there is anyone to mine it;  *)
(* so has the one a switch is about to name, and what a worker is bound to.  *)
Manned == \/ main \in {"setup", "workio", "stratum", "api", "control", "workers", "loop"}
          \/ stratum # "none"
          \/ \E w \in Worker : pc[w] # "none"
Tested ==
    /\ main \in {"backend", "options", "self_test"} => opt_algo = InitAlgo /\ stratum = "none"
    /\ ~opts.null =>
        /\ Manned => opt_algo \in tested /\ InitAlgo \in tested
        /\ stratum = "name" => wanted \in tested
        /\ \A w \in Worker : pc[w] \notin {"none", "created", "bind"} => bound[w] \in tested

(* Tells which steps move main, which a worker and which neither. *)
MainStep == Main \/ TimeLimit
OneWorker(w) == WorkerStep(w) \/ DeviceDies(w) \/ Fail(w)

----------------------------------------------------------------------------
(* The count.                                                                *)

LEMMA WorkersAreFinite == IsFiniteSet(Worker) /\ IsFiniteSet(Live)
<1>1. IsFiniteSet(Worker)
  BY FS_Interval, ProcessAssumption DEF Worker
<1>2. Live \subseteq Worker
  BY DEF Live
<1> QED
  BY <1>1, <1>2, FS_Subset

(* The backend is destroyed only at zero and left behind only above it: what *)
(* the count tells release_devices.                                          *)
LEMMA CountTells ==
    ASSUME LiveCount
    PROVE  (g_live = 0 => Live = {}) /\ (g_live > 0 => Live # {})
<1>1. Cardinality(Live) = 0 <=> Live = {}
  BY WorkersAreFinite, FS_EmptySet
<1> QED
  BY <1>1 DEF LiveCount

LEMMA TypedInit == Init => Typed /\ LiveCount
<1> SUFFICES ASSUME Init PROVE Typed /\ LiveCount
  OBVIOUS
<1>1. Live = {}
  BY DEF Init, Live
<1>2. Cardinality(Live) = 0
  BY <1>1, FS_EmptySet
<1>3. LiveCount
  BY <1>2 DEF Init, LiveCount, Worker
<1>4. Typed
  BY ProcessAssumption DEF Init, Typed, Places
<1> QED
  BY <1>3, <1>4

LEMMA TypedStep == Typed /\ [Next]_vars => Typed'
<1> SUFFICES ASSUME Typed, [Next]_vars PROVE Typed'
  OBVIOUS
<1>1. CASE MainStep
  <2>1. CASE CreateWorker
    <3>1. started + 1 \in Worker \/ UNCHANGED <<pc, started>>
      BY <2>1, ProcessAssumption DEF Typed, CreateWorker, Worker
    <3> QED
      BY <2>1, <3>1, ProcessAssumption
      DEF Typed, CreateWorker, Places, Worker, algos, thread, ctl
  <2>2. CASE MainStep /\ ~CreateWorker
    <3>1. UNCHANGED <<pc, bound, kernel, g_live, started, opt_algo, wanted>>
          /\ stratum' \in {stratum, "idle"}
      BY <2>2 DEF MainStep, Main, InitBackend, CheckOptions, SelfTest, Setup, CreateWorkio,
         CreateStratum, CreateApi, ControlInit, WorkersStarted, Poll, CountBenchmark,
         release_devices, AllOut, Deadline, Exit, TimeLimit, NotThreads, work, algos, thread, ctl
    <3> QED
      BY <3>1 DEF Typed
  <2> QED
    BY <1>1, <2>1, <2>2
<1>2. ASSUME NEW w \in Worker, OneWorker(w) PROVE Typed'
  <2>1. pc' \in [Worker -> Places]
    BY <1>2 DEF Typed, OneWorker, WorkerStep, WorkerLifetime, bind_algo, Top, Mine, Publish,
       Park, Unpark, Leave, DeviceDies, Fail, At, Places
  <2>2. bound' \in [Worker -> Algo \cup {NoAlgo}]
    BY <1>2 DEF Typed, OneWorker, WorkerStep, WorkerLifetime, bind_algo, Top, Mine, Publish,
       Park, Unpark, Leave, DeviceDies, Fail
  <2>3. kernel' \subseteq Worker /\ g_live' \in Int
    BY <1>2 DEF Typed, OneWorker, WorkerStep, WorkerLifetime, bind_algo, Top, Mine, Publish,
       Park, Unpark, Leave, DeviceDies, Fail
  <2>4. UNCHANGED <<started, opt_algo, wanted, stratum>>
    BY <1>2 DEF OneWorker, WorkerStep, WorkerLifetime, bind_algo, Top, Mine, Publish,
       Park, Unpark, Leave, DeviceDies, Fail, NotMain, run, algos, thread, ctl
  <2> QED
    BY <2>1, <2>2, <2>3, <2>4 DEF Typed
<1>3. CASE Others
  <2>1. UNCHANGED <<pc, bound, kernel, g_live, started>>
    BY <1>3 DEF Others, signal_handler, WorkioEnds, open_listener, ApiPark, ApiResume, ApiQuit,
       ApiEnds, SwitchTaken, SwitchFits, SwitchTests, SwitchNames, SwitchEnds, SwitchExpires,
       NotWork, run, work
  <2>2. opt_algo' \in Algo
    BY <1>3 DEF Typed, Others, signal_handler, WorkioEnds, open_listener, ApiPark, ApiResume,
       ApiQuit, ApiEnds, SwitchTaken, SwitchFits, SwitchTests, SwitchNames, SwitchEnds,
       SwitchExpires, algos
  <2>3. /\ wanted' \in Algo \cup {NoAlgo}
        /\ stratum' \in {"fit", "test", "name", "tune"} => wanted' \in Algo
    BY <1>3 DEF Typed, Others, signal_handler, WorkioEnds, open_listener, ApiPark, ApiResume,
       ApiQuit, ApiEnds, SwitchTaken, SwitchFits, SwitchTests, SwitchNames, SwitchEnds,
       SwitchExpires, ctl, thread
  <2> QED
    BY <2>1, <2>2, <2>3 DEF Typed
<1>4. CASE UNCHANGED vars
  BY <1>4 DEF Typed, vars, run, work, algos, thread, ctl
<1> QED
  BY <1>1, <1>2, <1>3, <1>4 DEF Next, MainStep, OneWorker, Ended

LEMMA LiveCountStep == Typed /\ LiveCount /\ [Next]_vars => LiveCount'
<1> SUFFICES ASSUME Typed, LiveCount, [Next]_vars PROVE LiveCount'
  OBVIOUS
<1>f. IsFiniteSet(Live)
  BY WorkersAreFinite
<1>1. CASE CreateWorker
  <2>1. UNCHANGED <<pc, started>> \/
        (started + 1 \in Worker /\ pc' = [pc EXCEPT ![started + 1] = "created"]
           /\ started' = started + 1)
    BY <1>1, ProcessAssumption DEF Typed, CreateWorker, Worker
  <2>n. started \in Int /\ Worker \subseteq Int
    BY ProcessAssumption DEF Typed, Worker
  <2>o. started + 1 \in Worker => pc[started + 1] = "none"
    BY <2>n DEF LiveCount
  <2>p. \A w \in Worker : pc'[w] = pc[w] \/ (pc[w] = "none" /\ pc'[w] = "created")
    <3>1. CASE UNCHANGED <<pc, started>>
      BY <3>1
    <3>2. CASE started + 1 \in Worker /\ pc' = [pc EXCEPT ![started + 1] = "created"]
      <4> DEFINE k == started + 1
      <4>1. k \in Worker /\ pc[k] = "none" /\ pc' = [pc EXCEPT ![k] = "created"]
        BY <3>2, <2>o
      <4> HIDE DEF k
      <4> QED
        BY <4>1 DEF Typed
    <3> QED
      BY <2>1, <3>1, <3>2
  <2>2. Live' = Live
    BY <2>p DEF Live
  <2>3. UNCHANGED <<kernel, g_live>>
    BY <1>1 DEF CreateWorker
  <2>4. ASSUME NEW w \in Worker, w > started' PROVE pc'[w] = "none"
    <3>1. w > started /\ (UNCHANGED pc \/ w # started + 1)
      BY <2>1, <2>4, <2>n
    <3> QED
      BY <2>1, <3>1 DEF LiveCount, Typed
  <2> QED
    BY <2>2, <2>3, <2>4 DEF LiveCount
<1>2. CASE MainStep /\ ~CreateWorker
  <2>1. UNCHANGED <<pc, kernel, g_live, started>>
    BY <1>2 DEF MainStep, Main, InitBackend, CheckOptions, SelfTest, Setup, CreateWorkio,
       CreateStratum, CreateApi, ControlInit, WorkersStarted, Poll, CountBenchmark,
       release_devices, AllOut, Deadline, Exit, TimeLimit, NotThreads, work
  <2> QED
    BY <2>1 DEF LiveCount, Live
<1>3. CASE Others
  <2>1. UNCHANGED <<pc, kernel, g_live, started>>
    BY <1>3 DEF Others, signal_handler, WorkioEnds, open_listener, ApiPark, ApiResume, ApiQuit,
       ApiEnds, SwitchTaken, SwitchFits, SwitchTests, SwitchNames, SwitchEnds, SwitchExpires,
       NotWork, run, work
  <2> QED
    BY <2>1 DEF LiveCount, Live
<1>4. ASSUME NEW w \in Worker, OneWorker(w) PROVE LiveCount'
  <2>0. started' = started /\ pc[w] # "none"
    BY <1>4 DEF OneWorker, WorkerStep, WorkerLifetime, bind_algo, Top, Mine, Publish,
       Park, Unpark, Leave, DeviceDies, Fail, At, NotMain, run
  <2>1. PICK to \in Places : pc' = [pc EXCEPT ![w] = to]
    BY <1>4 DEF OneWorker, WorkerStep, WorkerLifetime, bind_algo, Top, Mine, Publish,
       Park, Unpark, Leave, DeviceDies, Fail, At, Places
  <2>2. \A v \in Worker : v > started' => pc'[v] = "none"
    BY <2>0, <2>1 DEF LiveCount, Typed
  <2>3. CASE WorkerLifetime(w)
    <3>1. w \notin Live /\ Live' = Live \cup {w}
      BY <2>3 DEF Live, WorkerLifetime, At, Typed
    <3>2. Cardinality(Live \cup {w}) = Cardinality(Live) + 1
      BY <1>f, <3>1, FS_AddElement
    <3> QED
      BY <2>2, <2>3, <3>1, <3>2 DEF LiveCount, WorkerLifetime
  <2>4. CASE Leave(w)
    <3>1. w \in Live /\ Live' = Live \ {w}
      BY <2>4 DEF Live, Leave, At, Typed
    <3>2. Cardinality(Live \ {w}) = Cardinality(Live) - 1
      BY <1>f, <3>1, FS_RemoveElement
    <3> QED
      BY <2>2, <2>4, <3>1, <3>2 DEF LiveCount, Leave
  <2>5. CASE OneWorker(w) /\ ~WorkerLifetime(w) /\ ~Leave(w)
    <3>1. pc[w] \notin {"none", "created", "gone"} /\ pc'[w] \notin {"none", "created", "gone"}
      BY <2>5 DEF OneWorker, WorkerStep, bind_algo, Top, Mine, Publish,
         Park, Unpark, DeviceDies, Fail, At, Typed
    <3>2. Live' = Live /\ w \in Live
      BY <2>1, <3>1 DEF Live, Typed
    <3>3. kernel' \subseteq kernel \cup {w} /\ g_live' = g_live
      BY <2>5 DEF OneWorker, WorkerStep, bind_algo, Top, Mine, Publish,
         Park, Unpark, DeviceDies, Fail
    <3> QED
      BY <2>2, <3>2, <3>3 DEF LiveCount
  <2> QED
    BY <1>4, <2>3, <2>4, <2>5
<1>5. CASE UNCHANGED vars
  BY <1>5 DEF LiveCount, Live, vars, run, work
<1> QED
  BY <1>1, <1>2, <1>3, <1>4, <1>5 DEF Next, MainStep, OneWorker, Ended

----------------------------------------------------------------------------
(* Giving the devices back.                                                  *)

LEMMA OutOfReachMain ==
    ASSUME Typed, LiveCount, OutOfReach, MainStep PROVE OutOfReach'
<1>1. CASE AllOut
  <2>1. Live = {} /\ kernel = {}
    BY <1>1, CountTells DEF AllOut, LiveCount
  <2>2. \A w \in Worker : pc[w] \in {"none", "created", "gone"}
    BY <2>1 DEF Live
  <2>3. g_stop /\ released
    BY <1>1 DEF AllOut, OutOfReach
  <2>4. /\ main' = "exit" /\ backend' = "freed"
        /\ UNCHANGED <<pc, kernel, g_stop, stats_held>>
    BY <1>1 DEF AllOut, NotThreads, work
  <2> QED
    BY <2>1, <2>2, <2>3, <2>4 DEF OutOfReach
<1>2. CASE Deadline
  <2>1. PICK w \in Worker : pc[w] \notin {"none", "created", "gone"}
    BY <1>2, CountTells DEF Deadline, Live
  <2>2. released
    BY <1>2 DEF Deadline, OutOfReach
  <2>3. pc[w] = "stuck" \/ stats_held
    BY <1>2, <2>1, <2>2 DEF Deadline, GraceOver, Held
  <2>4. main' = "exit" /\ backend' = "leaked" /\ UNCHANGED <<pc, stats_held>>
    BY <1>2 DEF Deadline, NotThreads, work
  <2> QED
    BY <2>3, <2>4 DEF OutOfReach
<1>3. CASE release_devices
  BY <1>3 DEF release_devices, worker_request_stop, OutOfReach
<1>4. CASE Exit
  BY <1>4 DEF Exit, OutOfReach, NotThreads, work, ctl
<1>5. CASE MainStep /\ ~AllOut /\ ~Deadline /\ ~release_devices /\ ~Exit
  <2>1. main \notin {"exit", "ended", "wait"} /\ main' # "wait"
        /\ backend' \in {backend, "open"}
    BY <1>5 DEF MainStep, Main, InitBackend, CheckOptions, SelfTest, Setup, CreateWorkio,
       CreateStratum, CreateApi, ControlInit, CreateWorker, WorkersStarted, Poll,
       CountBenchmark, TimeLimit, Return, proper_exit
  <2> QED
    BY <2>1 DEF OutOfReach
<1> QED
  BY <1>1, <1>2, <1>3, <1>4, <1>5

LEMMA OutOfReachWorker ==
    ASSUME Typed, OutOfReach, NEW w \in Worker, OneWorker(w) PROVE OutOfReach'
<1>1. UNCHANGED <<main, backend, stats_held, released>>
  BY DEF OneWorker, WorkerStep, WorkerLifetime, bind_algo, Top, Mine, Publish,
     Park, Unpark, Leave, DeviceDies, Fail, NotMain, run, ctl
<1>2. g_stop => g_stop'
  BY DEF OneWorker, WorkerStep, WorkerLifetime, bind_algo, Top, Mine, Publish,
     Park, Unpark, Leave, DeviceDies, Fail, fail_run
<1>3. PICK to \in Places : pc' = [pc EXCEPT ![w] = to]
  BY DEF OneWorker, WorkerStep, WorkerLifetime, bind_algo, Top, Mine, Publish,
     Park, Unpark, Leave, DeviceDies, Fail, At, Places
<1>4. pc[w] # "stuck"
  BY DEF OneWorker, WorkerStep, WorkerLifetime, bind_algo, Top, Mine, Publish,
     Park, Unpark, Leave, DeviceDies, Fail, At
<1>5. (\E v \in Worker : pc[v] = "stuck") => \E v \in Worker : pc'[v] = "stuck"
  BY <1>3, <1>4 DEF Typed
<1>6. ASSUME backend = "freed"
      PROVE  kernel' = {} /\ pc'[w] \in {"none", "created", "bind", "top", "leave", "gone"}
  <2>1. kernel = {} /\ g_stop /\ pc[w] \in {"none", "created", "bind", "top", "leave", "gone"}
    BY <1>6 DEF OutOfReach
  <2> QED
    BY <2>1 DEF OneWorker, WorkerStep, WorkerLifetime, bind_algo, Top, Mine, Publish,
       Park, Unpark, Leave, DeviceDies, Fail, At, Typed
<1>7. backend = "freed" =>
        \A v \in Worker : pc'[v] \in {"none", "created", "bind", "top", "leave", "gone"}
  BY <1>3, <1>6 DEF OutOfReach, Typed
<1> QED
  BY <1>1, <1>2, <1>5, <1>6, <1>7 DEF OutOfReach

LEMMA OutOfReachStep == Typed /\ LiveCount /\ OutOfReach /\ [Next]_vars => OutOfReach'
<1> SUFFICES ASSUME Typed, LiveCount, OutOfReach, [Next]_vars PROVE OutOfReach'
  OBVIOUS
<1>1. CASE MainStep
  BY <1>1, OutOfReachMain
<1>2. ASSUME NEW w \in Worker, OneWorker(w) PROVE OutOfReach'
  BY <1>2, OutOfReachWorker
<1>3. CASE Others
  <2>1. UNCHANGED <<main, backend, stats_held, g_stop, kernel, pc, released>>
    BY <1>3 DEF Others, signal_handler, WorkioEnds, open_listener, ApiPark, ApiResume, ApiQuit,
       ApiEnds, SwitchTaken, SwitchFits, SwitchTests, SwitchNames, SwitchEnds, SwitchExpires,
       NotWork, run, work, ctl
  <2> QED
    BY <2>1 DEF OutOfReach
<1>4. CASE UNCHANGED vars
  BY <1>4 DEF OutOfReach, vars, run, work, ctl
<1> QED
  BY <1>1, <1>2, <1>3, <1>4 DEF Next, MainStep, OneWorker, Ended

----------------------------------------------------------------------------
(* Nothing is mined untested.                                                *)

LEMMA TestedMain ==
    ASSUME Typed, Tested, MainStep PROVE Tested'
<1>1. UNCHANGED <<opts, opt_algo, wanted, bound>> /\ stratum' \in {stratum, "idle"}
  BY DEF MainStep, Main, InitBackend, CheckOptions, SelfTest, Setup, CreateWorkio,
     CreateStratum, CreateApi, ControlInit, CreateWorker, WorkersStarted, Poll,
     CountBenchmark, release_devices, AllOut, Deadline, Exit, TimeLimit, NotThreads,
     work, algos, thread, ctl
<1>2. tested \subseteq tested'
  BY DEF MainStep, Main, InitBackend, CheckOptions, SelfTest, Setup, CreateWorkio,
     CreateStratum, CreateApi, ControlInit, CreateWorker, WorkersStarted, Poll,
     CountBenchmark, release_devices, AllOut, Deadline, Exit, TimeLimit, NotThreads,
     algos
<1>3. main' \in {"backend", "options", "self_test"} =>
          main \in {"backend", "options"} /\ stratum' = stratum
  BY DEF MainStep, Main, InitBackend, CheckOptions, SelfTest, Setup, CreateWorkio,
     CreateStratum, CreateApi, ControlInit, CreateWorker, WorkersStarted, Poll,
     CountBenchmark, release_devices, AllOut, Deadline, Exit, TimeLimit, NotThreads,
     thread, Return, proper_exit
<1>4. UNCHANGED pc \/ (main = "workers" /\
          \A w \in Worker : pc'[w] = pc[w] \/ pc'[w] = "created")
  BY DEF MainStep, Main, InitBackend, CheckOptions, SelfTest, Setup, CreateWorkio,
     CreateStratum, CreateApi, ControlInit, CreateWorker, WorkersStarted, Poll,
     CountBenchmark, release_devices, AllOut, Deadline, Exit, TimeLimit, NotThreads,
     work, Typed
<1>5. Manned' => Manned \/ (main = "self_test" /\ (opts.null \/ opt_algo \in tested'))
  <2>1. CASE SelfTest
    <3>1. main = "self_test" /\ UNCHANGED <<pc, stratum>>
      BY <2>1 DEF SelfTest, work, thread
    <3>2. main' = "exit" \/ opts.null \/ opt_algo \in tested'
      BY <2>1 DEF SelfTest, Return
    <3> QED
      BY <3>1, <3>2 DEF Manned
  <2>2. CASE main \in {"setup", "workio", "stratum", "api", "control", "workers", "loop"}
    BY <2>2 DEF Manned
  <2>3. CASE MainStep /\ ~SelfTest
              /\ main \notin {"setup", "workio", "stratum", "api", "control", "workers", "loop"}
    <3>1. main' \notin {"setup", "workio", "stratum", "api", "control", "workers", "loop"}
          /\ UNCHANGED <<pc, stratum>>
      BY <2>3 DEF MainStep, Main, InitBackend, CheckOptions, Setup, CreateWorkio,
         CreateStratum, CreateApi, ControlInit, CreateWorker, WorkersStarted, Poll,
         CountBenchmark, release_devices, AllOut, Deadline, Exit, TimeLimit, NotThreads,
         work, thread, Return, proper_exit
    <3> QED
      BY <3>1 DEF Manned
  <2> QED
    BY <2>1, <2>2, <2>3
<1>6. main' \in {"backend", "options", "self_test"} => opt_algo' = InitAlgo /\ stratum' = "none"
  BY <1>1, <1>3 DEF Tested
<1>7. ASSUME ~opts.null
      PROVE  /\ Manned' => opt_algo' \in tested' /\ InitAlgo \in tested'
             /\ stratum' = "name" => wanted' \in tested'
  BY <1>1, <1>2, <1>5, <1>7 DEF Tested
<1>8. ASSUME ~opts.null, NEW w \in Worker, pc'[w] \notin {"none", "created", "bind"}
      PROVE  bound'[w] \in tested'
  BY <1>1, <1>2, <1>4, <1>8 DEF Tested
<1> QED
  BY <1>1, <1>6, <1>7, <1>8 DEF Tested

LEMMA TestedWorker ==
    ASSUME Typed, Tested, NEW w \in Worker, OneWorker(w) PROVE Tested'
<1>1. UNCHANGED <<opts, main, opt_algo, tested, stratum, wanted>>
  BY DEF OneWorker, WorkerStep, WorkerLifetime, bind_algo, Top, Mine, Publish,
     Park, Unpark, Leave, DeviceDies, Fail, NotMain, run, algos, thread, ctl
<1>2. PICK to \in Places : pc' = [pc EXCEPT ![w] = to]
  BY DEF OneWorker, WorkerStep, WorkerLifetime, bind_algo, Top, Mine, Publish,
     Park, Unpark, Leave, DeviceDies, Fail, At, Places
<1>3. pc[w] # "none" /\ Manned
  BY DEF OneWorker, WorkerStep, WorkerLifetime, bind_algo, Top, Mine, Publish,
     Park, Unpark, Leave, DeviceDies, Fail, At, Manned
<1>4. \/ bound' = [bound EXCEPT ![w] = opt_algo]
      \/ bound' = bound /\ (pc[w] \in {"created", "bind"} => to \in {"bind"})
  BY <1>2 DEF OneWorker, WorkerStep, WorkerLifetime, bind_algo, Top, Mine, Publish,
     Park, Unpark, Leave, DeviceDies, Fail, At, Typed
<1>5. ASSUME ~opts.null, NEW v \in Worker, pc'[v] \notin {"none", "created", "bind"}
      PROVE  bound'[v] \in tested
  <2>1. opt_algo \in tested
    BY <1>3, <1>5 DEF Tested
  <2>2. CASE v # w
    BY <1>2, <1>4, <1>5, <2>2 DEF Tested, Typed
  <2>3. CASE v = w
    BY <1>2, <1>3, <1>4, <1>5, <2>1, <2>3 DEF Tested, Typed
  <2> QED
    BY <2>2, <2>3
<1> QED
  BY <1>1, <1>3, <1>5 DEF Tested

LEMMA TestedOthers ==
    ASSUME Typed, Tested, Others PROVE Tested'
<1>1. UNCHANGED <<opts, main, pc, bound>>
  BY DEF Others, signal_handler, WorkioEnds, open_listener, ApiPark, ApiResume, ApiQuit,
     ApiEnds, SwitchTaken, SwitchFits, SwitchTests, SwitchNames, SwitchEnds, SwitchExpires,
     NotWork, run, work
<1>2. /\ stratum = "none" => UNCHANGED <<stratum, opt_algo>>
      /\ stratum' = "none" => stratum = "none"
      /\ tested \subseteq tested'
  BY DEF Others, signal_handler, WorkioEnds, open_listener, ApiPark, ApiResume, ApiQuit,
     ApiEnds, SwitchTaken, SwitchFits, SwitchTests, SwitchNames, SwitchEnds, SwitchExpires,
     algos, thread
<1>3. opt_algo' = opt_algo \/ (stratum = "name" /\ opt_algo' = wanted)
  BY DEF Others, signal_handler, WorkioEnds, open_listener, ApiPark, ApiResume, ApiQuit,
     ApiEnds, SwitchTaken, SwitchFits, SwitchTests, SwitchNames, SwitchEnds, SwitchExpires,
     algos
<1>4. stratum' = "name" =>
        wanted' = wanted /\ (stratum = "name" \/ opts.null \/ wanted \in tested')
  BY ProcessAssumption
  DEF Typed, Others, signal_handler, WorkioEnds, open_listener, ApiPark, ApiResume, ApiQuit,
     ApiEnds, SwitchTaken, SwitchFits, SwitchTests, SwitchNames, SwitchEnds, SwitchExpires,
     thread, ctl
<1>5. Manned' => Manned
  BY <1>1, <1>2 DEF Manned
<1>6. main \in {"backend", "options", "self_test"} => opt_algo' = InitAlgo /\ stratum' = "none"
  BY <1>2 DEF Tested
<1>7. ASSUME ~opts.null
      PROVE  /\ Manned' => opt_algo' \in tested' /\ InitAlgo \in tested'
             /\ stratum' = "name" => wanted' \in tested'
  BY <1>2, <1>3, <1>4, <1>5, <1>7 DEF Tested
<1>8. ASSUME ~opts.null, NEW w \in Worker, pc[w] \notin {"none", "created", "bind"}
      PROVE  bound[w] \in tested'
  BY <1>2, <1>8 DEF Tested
<1> QED
  BY <1>1, <1>6, <1>7, <1>8 DEF Tested

----------------------------------------------------------------------------
(* The invariant and the theorems.                                           *)

ProcessInv == Typed /\ LiveCount /\ OutOfReach /\ Tested

LEMMA ProcessInvHolds == Spec => []ProcessInv
<1>1. Init => ProcessInv
  <2> SUFFICES ASSUME Init PROVE ProcessInv
    OBVIOUS
  <2>1. OutOfReach
    BY DEF Init, OutOfReach
  <2>2. Tested
    BY DEF Init, Tested, Manned
  <2> QED
    BY <2>1, <2>2, TypedInit DEF ProcessInv
<1>2. ProcessInv /\ [Next]_vars => ProcessInv'
  <2> SUFFICES ASSUME ProcessInv, [Next]_vars PROVE ProcessInv'
    OBVIOUS
  <2>1. Typed' /\ LiveCount' /\ OutOfReach'
    BY TypedStep, LiveCountStep, OutOfReachStep DEF ProcessInv
  <2>2. Tested'
    <3>1. CASE MainStep
      BY <3>1, TestedMain DEF ProcessInv
    <3>2. ASSUME NEW w \in Worker, OneWorker(w) PROVE Tested'
      BY <3>2, TestedWorker DEF ProcessInv
    <3>3. CASE Others
      BY <3>3, TestedOthers DEF ProcessInv
    <3>4. CASE UNCHANGED vars
      BY <3>4 DEF ProcessInv, Tested, Manned, vars, run, work, algos, thread, ctl
    <3> QED
      BY <3>1, <3>2, <3>3, <3>4 DEF Next, MainStep, OneWorker, Ended
  <2> QED
    BY <2>1, <2>2 DEF ProcessInv
<1> QED
  BY <1>1, <1>2, PTL DEF Spec

(* release_devices (main.cpp:304) destroys the backend only when no worker   *)
(* is in it or can still get there, and leaves it behind only for a device   *)
(* that has stopped answering or for the lock main returned with.            *)
THEOREM DevicesAreGivenBack == Spec => []DevicesGivenBack
<1>1. ProcessInv => DevicesGivenBack
  BY DEF ProcessInv, OutOfReach, DevicesGivenBack, InBackend
<1> QED
  BY <1>1, ProcessInvHolds, PTL

(* Whichever way a switch ends (main.cpp:115), no worker mines an algorithm  *)
(* whose self-test has not passed, and no pool is dialled before the first.  *)
THEOREM NothingIsMinedUntested == Spec => []NothingMinedUntested
<1>1. ProcessInv => NothingMinedUntested
  BY DEF ProcessInv, Tested, Manned, NothingMinedUntested
<1> QED
  BY <1>1, ProcessInvHolds, PTL
============================================================================

------------------------------ MODULE Process ------------------------------
(***************************************************************************)
(* The life of the process (main.cpp, worker.cpp, work.c, api_server.cpp): *)
(* the order in which main brings the miner up, the threads it starts, the *)
(* ways a run ends, and the order in which the devices are given back. A   *)
(* worker's mining is one step on a device here, and the control barrier a *)
(* flag; Session, Kernel and Control have the detail.                      *)
(***************************************************************************)
EXTENDS Integers, FiniteSets

CONSTANTS N,         \* opt_n_threads
          Modes,     \* of "list", "self_test", "replay", "benchmark", "mine"
          Nulls,     \* whether the null backend may be chosen
          Algo, NoAlgo, InitAlgo,
          MaxParks   \* pauses and switches the control API asks for

ASSUME ProcessAssumption == InitAlgo \in Algo /\ NoAlgo \notin Algo /\ N \in Nat \ {0}

VARIABLES
    opts,        \* the options that matter here: [mode, null]
    main,        \* where main is
    backend,     \* main's g_backend: "none", "open", "freed" or "leaked"
    started,     \* worker threads created
    pc, bound,   \* where a worker is, and the algorithm it is bound to
    kernel,      \* the workers that hold a kernel
    g_live, g_stop, g_fatal,
    g_shutdown,
    stats_held,  \* stats_lock is held by main
    opt_algo, tested,
    workio, stratum, api,
    park,        \* the barrier holds the workers
    released,    \* control_release_all has been called
    wanted,      \* the algorithm of a switch that is under way
    parks

run    == <<opts, main, backend, started, stats_held>>
work   == <<pc, bound, kernel, g_live, g_stop, g_fatal>>
algos  == <<opt_algo, tested>>
thread == <<workio, stratum, api>>
ctl    == <<park, released, wanted, parks>>
vars   == <<run, work, algos, thread, ctl, g_shutdown>>

Worker == 1 .. N

Init ==
    /\ opts \in [mode : Modes, null : Nulls]
    /\ main = "backend" /\ backend = "none" /\ started = 0 /\ stats_held = FALSE
    /\ pc = [w \in Worker |-> "none"] /\ bound = [w \in Worker |-> NoAlgo]
    /\ kernel = {} /\ g_live = 0 /\ g_stop = FALSE /\ g_fatal = FALSE /\ g_shutdown = FALSE
    /\ opt_algo = InitAlgo /\ tested = {}
    /\ workio = "none" /\ stratum = "none" /\ api = "none"
    /\ park = FALSE /\ released = FALSE /\ wanted = NoAlgo /\ parks = 0

NotThreads == UNCHANGED <<work, algos, thread, ctl, g_shutdown>>
Alive == main # "ended"
Return == main' = "exit"        \* from main; the handlers of atexit follow
proper_exit == main' = "release"

----------------------------------------------------------------------------
(* main, in its order. Every step of it may fail and return 1.               *)

InitBackend ==
    /\ main = "backend"
    /\ \/ backend' = "open" /\ main' = "options"
       \/ Return /\ UNCHANGED backend
    /\ UNCHANGED <<opts, started, stats_held>> /\ NotThreads

CheckOptions ==
    /\ main = "options"
    /\ \/ opts.mode # "list" /\ main' = "self_test"
       \/ Return
    /\ UNCHANGED <<opts, backend, started, stats_held>> /\ NotThreads

SelfTest ==
    /\ main = "self_test"
    /\ \/ /\ ~opts.null
          /\ Return
          /\ UNCHANGED tested
       \/ /\ tested' = IF opts.null THEN tested ELSE tested \cup {opt_algo}
          /\ IF opts.mode \in {"self_test", "replay"} THEN Return ELSE main' = "setup"
    /\ UNCHANGED <<opts, backend, started, stats_held, work, opt_algo, thread>>
    /\ UNCHANGED <<ctl, g_shutdown>>

(* The tuner, the workers' devices, locks, curl, signals and tables.         *)
Setup ==
    /\ main = "setup"
    /\ main' = "workio" \/ Return
    /\ UNCHANGED <<opts, backend, started, stats_held>> /\ NotThreads

CreateWorkio ==
    /\ main = "workio"
    /\ \/ workio' = "run" /\ main' = "stratum"
       \/ Return /\ UNCHANGED workio
    /\ UNCHANGED <<opts, backend, started, stats_held, work, algos>>
    /\ UNCHANGED <<stratum, api, ctl, g_shutdown>>

CreateStratum ==
    /\ main = "stratum"
    /\ \/ opts.mode = "mine" /\ stratum' = "idle" /\ main' = "api"
       \/ opts.mode = "benchmark" /\ main' = "api" /\ UNCHANGED stratum
       \/ Return /\ UNCHANGED stratum
    /\ UNCHANGED <<opts, backend, started, stats_held, work, algos>>
    /\ UNCHANGED <<workio, api, ctl, g_shutdown>>

CreateApi ==
    /\ main = "api"
    /\ \/ api' = "binding" /\ main' = "control"
       \/ main' = "control" /\ UNCHANGED api
       \/ Return /\ UNCHANGED api
    /\ UNCHANGED <<opts, backend, started, stats_held, work, algos>>
    /\ UNCHANGED <<workio, stratum, ctl, g_shutdown>>

ControlInit ==
    /\ main = "control"
    /\ main' = "workers" /\ stats_held' = TRUE
    /\ UNCHANGED <<opts, backend, started>> /\ NotThreads

(* A thread that cannot be created returns with the lock held.               *)
CreateWorker ==
    /\ main = "workers" /\ started < N
    /\ \/ /\ pc' = [pc EXCEPT ![started + 1] = "created"]
          /\ started' = started + 1
          /\ UNCHANGED main
       \/ Return /\ UNCHANGED <<pc, started>>
    /\ UNCHANGED <<opts, backend, stats_held, bound, kernel, g_live, g_stop, g_fatal>>
    /\ UNCHANGED <<algos, thread, ctl, g_shutdown>>

WorkersStarted ==
    /\ main = "workers" /\ started = N
    /\ main' = "loop" /\ stats_held' = FALSE
    /\ UNCHANGED <<opts, backend, started>> /\ NotThreads

(* The loop that waits for the end: a signal or the API, a worker that gave  *)
(* up, a work I/O thread that is seen to be dead (whether pthread_kill says  *)
(* so of a thread nobody joined is up to the C library), or the time limit,  *)
(* which stops the workers of a benchmark first and counts what they found.  *)
Poll ==
    /\ main = "loop"
    /\ g_shutdown \/ g_fatal \/ workio = "dead"
    /\ proper_exit
    /\ UNCHANGED <<opts, backend, started, stats_held>> /\ NotThreads

(* A parked worker does not look at g_stop: it is let out.                   *)
worker_request_stop_flag == g_stop' = TRUE /\ UNCHANGED released
worker_request_stop == g_stop' = TRUE /\ released' = TRUE

TimeLimit ==
    /\ main = "loop" /\ ~g_shutdown /\ ~g_fatal
    /\ \/ proper_exit /\ UNCHANGED <<g_stop, released>>
       \/ opts.mode = "benchmark" /\ main' = "count" /\ worker_request_stop
    /\ UNCHANGED <<opts, backend, started, stats_held, pc, bound, kernel, g_live, g_fatal>>
    /\ UNCHANGED <<algos, thread, park, wanted, parks, g_shutdown>>

(* A worker that no longer comes to its next step by itself: in a device     *)
(* that has stopped answering, waiting for the lock main died with, or at    *)
(* the barrier. kStopGrace is hundreds of batches: it does not pass while a  *)
(* worker can still move.                                                    *)
Held(w) == \/ pc[w] \in {"none", "created", "gone", "stuck"}
           \/ pc[w] \in {"publish", "parking"} /\ stats_held
           \/ pc[w] = "parked" /\ park /\ ~released
GraceOver == \A w \in Worker : Held(w)

CountBenchmark ==
    /\ main = "count"
    /\ g_live = 0 \/ GraceOver
    /\ proper_exit
    /\ UNCHANGED <<opts, backend, started, stats_held>> /\ NotThreads

(* release_devices, called by proper_exit's hook and again by exit() itself. *)
release_devices ==
    /\ main = "release"
    /\ IF backend = "open" THEN main' = "wait" /\ worker_request_stop
       ELSE main' = "exit" /\ UNCHANGED <<g_stop, released>>
    /\ UNCHANGED <<opts, backend, started, stats_held, pc, bound, kernel, g_live, g_fatal>>
    /\ UNCHANGED <<algos, thread, park, wanted, parks, g_shutdown>>

AllOut ==
    /\ main = "wait" /\ g_live = 0
    /\ backend' = "freed" /\ main' = "exit"
    /\ UNCHANGED <<opts, started, stats_held>> /\ NotThreads

Deadline ==
    /\ main = "wait" /\ g_live > 0 /\ GraceOver
    /\ backend' = "leaked" /\ main' = "exit"
    /\ UNCHANGED <<opts, started, stats_held>> /\ NotThreads

Exit ==
    /\ main = "exit"
    /\ main' = IF backend = "open" THEN "release" ELSE "ended"
    /\ UNCHANGED <<opts, backend, started, stats_held>> /\ NotThreads

Main == \/ InitBackend \/ CheckOptions \/ SelfTest \/ Setup \/ CreateWorkio
        \/ CreateStratum \/ CreateApi \/ ControlInit \/ CreateWorker \/ WorkersStarted
        \/ Poll \/ CountBenchmark \/ release_devices \/ AllOut \/ Deadline \/ Exit

----------------------------------------------------------------------------
(* A worker.                                                                 *)

At(w, from, to) == pc[w] = from /\ pc' = [pc EXCEPT ![w] = to]
NotMain == UNCHANGED <<run, algos, thread, ctl, g_shutdown>>

WorkerLifetime(w) ==
    /\ At(w, "created", "bind")
    /\ g_live' = g_live + 1
    /\ UNCHANGED <<bound, kernel, g_stop, g_fatal>> /\ NotMain

bind_algo(w) ==
    /\ At(w, "bind", "top")
    /\ bound' = [bound EXCEPT ![w] = opt_algo]
    /\ UNCHANGED <<kernel, g_live, g_stop, g_fatal>> /\ NotMain

Top(w) ==
    /\ At(w, "top", IF g_stop THEN "leave"
                    ELSE IF park /\ ~released THEN "parking"
                    ELSE "device")
    /\ UNCHANGED <<bound, kernel, g_live, g_stop, g_fatal>> /\ NotMain

(* Builds, dispatches and collects, and comes back with hashes to publish.   *)
Mine(w) ==
    /\ At(w, "device", "publish")
    /\ kernel' = kernel \cup {w}
    /\ UNCHANGED <<bound, g_live, g_stop, g_fatal>> /\ NotMain

Publish(w) ==
    /\ ~stats_held
    /\ At(w, "publish", "top")
    /\ UNCHANGED <<bound, kernel, g_live, g_stop, g_fatal>> /\ NotMain

DeviceDies(w) ==
    /\ pc[w] \in {"device", "parking"} \/ (pc[w] = "leave" /\ w \in kernel)
    /\ At(w, pc[w], "stuck")
    /\ UNCHANGED <<bound, kernel, g_live, g_stop, g_fatal>> /\ NotMain

fail_run_quiet == g_stop' = TRUE /\ UNCHANGED g_fatal
fail_run == g_stop' = TRUE /\ g_fatal' = TRUE
Fail(w) ==
    /\ At(w, "device", "leave")
    /\ fail_run
    /\ kernel' \in {kernel, kernel \cup {w}}
    /\ UNCHANGED <<bound, g_live>> /\ NotMain

(* The pipeline is drained, the kernel destroyed and a rate of zero          *)
(* published; then the worker waits at the barrier.                          *)
Park(w) ==
    /\ ~stats_held
    /\ At(w, "parking", "parked")
    /\ kernel' = kernel \ {w}
    /\ UNCHANGED <<bound, g_live, g_stop, g_fatal>> /\ NotMain

Unpark(w) ==
    /\ ~park \/ released
    /\ At(w, "parked", "top")
    /\ bound' = [bound EXCEPT ![w] = opt_algo]
    /\ UNCHANGED <<kernel, g_live, g_stop, g_fatal>> /\ NotMain

(* The kernel is destroyed before the lifetime ends.                         *)
Leave(w) ==
    /\ At(w, "leave", "gone")
    /\ g_live' = g_live - 1
    /\ kernel' = kernel \ {w}
    /\ UNCHANGED <<bound, g_stop, g_fatal>> /\ NotMain

WorkerStep(w) == \/ WorkerLifetime(w) \/ bind_algo(w) \/ Top(w) \/ Mine(w) \/ Publish(w)
                 \/ Park(w) \/ Unpark(w) \/ Leave(w)

----------------------------------------------------------------------------
(* The other threads.                                                        *)

NotWork == UNCHANGED <<run, work>>

signal_handler ==
    /\ main \in {"workio", "stratum", "api", "control", "workers", "loop"}
    /\ ~g_shutdown /\ g_shutdown' = TRUE
    /\ UNCHANGED <<algos, thread, ctl>> /\ NotWork

WorkioEnds ==
    /\ workio = "run" /\ workio' = "dead"
    /\ UNCHANGED <<algos, stratum, api, ctl, g_shutdown>> /\ NotWork

(* open_listener retries a port that is in use and gives up, or the run ends *)
(* first.                                                                    *)
open_listener ==
    /\ api = "binding"
    /\ \/ ~g_shutdown /\ api' = "idle"
       \/ api' = "off"
    /\ UNCHANGED <<algos, workio, stratum, ctl, g_shutdown>> /\ NotWork

(* serve_one: a pause, a resume, a switch of the algorithm, or a request to  *)
(* quit, which is acted on once it has been answered.                        *)
ApiPark ==
    /\ api = "idle" /\ ~park /\ wanted = NoAlgo /\ parks < MaxParks
    /\ park' = TRUE /\ parks' = parks + 1
    /\ wanted' \in {NoAlgo} \cup (IF stratum = "none" THEN {} ELSE Algo \ {opt_algo})
    /\ UNCHANGED <<algos, thread, released, g_shutdown>> /\ NotWork

ApiResume ==
    /\ api = "idle" /\ park /\ wanted = NoAlgo
    /\ park' = FALSE
    /\ UNCHANGED <<algos, thread, released, wanted, parks, g_shutdown>> /\ NotWork

ApiQuit ==
    /\ api = "idle" /\ ~g_shutdown
    /\ g_shutdown' = TRUE
    /\ UNCHANGED <<algos, thread, ctl>> /\ NotWork

ApiEnds ==
    /\ api = "idle" /\ g_shutdown
    /\ api' = "off"
    /\ UNCHANGED <<algos, workio, stratum, ctl, g_shutdown>> /\ NotWork

(* switch_algorithm on the stratum thread, with the workers parked: the pins *)
(* and the memory; the self-test; the name; the tuner; and the answer that   *)
(* opens the barrier. The barrier may also open by its deadline.             *)
SwitchTaken ==
    /\ stratum = "idle" /\ wanted # NoAlgo /\ park
    /\ \A w \in Worker : pc[w] = "parked"
    /\ stratum' = "fit"
    /\ UNCHANGED <<algos, workio, api, ctl, g_shutdown>> /\ NotWork

SwitchFits_named ==
    /\ stratum = "fit"
    /\ stratum' = "test" /\ opt_algo' = wanted
    /\ UNCHANGED <<tested, workio, api, ctl, g_shutdown>> /\ NotWork

SwitchFits ==
    /\ stratum = "fit"
    /\ stratum' = "test"
    /\ UNCHANGED <<algos, workio, api, ctl, g_shutdown>> /\ NotWork

SwitchTests ==
    /\ stratum = "test"
    /\ stratum' = "name"
    /\ tested' = IF opts.null THEN tested ELSE tested \cup {wanted}
    /\ UNCHANGED <<opt_algo, workio, api, ctl, g_shutdown>> /\ NotWork

SwitchNames ==
    /\ stratum = "name"
    /\ stratum' = "tune" /\ opt_algo' = wanted
    /\ UNCHANGED <<tested, workio, api, ctl, g_shutdown>> /\ NotWork

SwitchEnds ==
    /\ stratum \in {"fit", "test", "tune"}     \* refused, refused, done
    /\ stratum' = "idle" /\ park' = FALSE /\ wanted' = NoAlgo
    /\ UNCHANGED <<algos, workio, api, released, parks, g_shutdown>> /\ NotWork

SwitchExpires ==
    /\ wanted # NoAlgo /\ park
    /\ park' = FALSE
    /\ wanted' = IF stratum = "idle" THEN NoAlgo ELSE wanted
    /\ UNCHANGED <<algos, thread, released, parks, g_shutdown>> /\ NotWork

Others == \/ signal_handler \/ WorkioEnds \/ open_listener \/ ApiPark \/ ApiResume
          \/ ApiQuit \/ ApiEnds \/ SwitchTaken \/ SwitchFits \/ SwitchTests
          \/ SwitchNames \/ SwitchEnds \/ SwitchExpires

Ended == main = "ended" /\ UNCHANGED vars

Next == \/ Main \/ TimeLimit
        \/ Alive /\ Others
        \/ Alive /\ \E w \in Worker : WorkerStep(w) \/ DeviceDies(w) \/ Fail(w)
        \/ Ended

(* The threads run. Nothing makes a signal, a request or a fault happen, and *)
(* nothing makes a switch end.                                               *)
Spec == Init /\ [][Next]_vars /\ WF_vars(Main)
             /\ \A w \in Worker : WF_vars(Alive /\ WorkerStep(w))

----------------------------------------------------------------------------
(* A backend is destroyed only when no worker is inside it or can get there  *)
(* any more, and left behind only for a device that has stopped answering: a *)
(* parked worker, or one that has not run yet, never keeps it (worker.cpp:44 *)
(* and :426, main.cpp:304). The one other way is main's return after a       *)
(* thread it could not create, which leaves stats_lock held (main.cpp:642).  *)
InBackend(w) == pc[w] \in {"device", "parking", "stuck"} \/ w \in kernel
DevicesGivenBack ==
    /\ backend = "freed" => \A w \in Worker : ~InBackend(w)
    /\ backend = "leaked" => (\E w \in Worker : pc[w] = "stuck") \/ stats_held

(* No worker mines an algorithm that has not passed its self-test on this    *)
(* build, whichever way a switch ends, expires or is overtaken by the end of *)
(* the run; and no pool is dialled before the first one passed.              *)
NothingMinedUntested ==
    ~opts.null =>
        /\ \A w \in Worker : pc[w] \in {"device", "publish"} => bound[w] \in tested
        /\ stratum # "none" => InitAlgo \in tested

(* A run that is asked to end, or that a worker has left, ends, with workers *)
(* at the barrier, in a device that no longer answers, or still starting: no *)
(* miner carries on with a device less (worker.cpp:523).                     *)
ExitEnds == g_shutdown \/ (\E w \in Worker : pc[w] = "gone") ~> main = "ended"
=============================================================================

------------------------------ MODULE Control ------------------------------
(***************************************************************************)
(* The control barrier of the miner: what POST /control/{start,pause,stop, *)
(* pool,profile} does to the threads that mine and to the thread that owns *)
(* the pool connection.                                                    *)
(*                                                                         *)
(*   ctl       everything src/api/api_control.cpp keeps: the fields behind *)
(*             g_lock and the four atomics that are read outside it.       *)
(*   workers   the park side of miner_thread (src/scheduler/worker.cpp).   *)
(*   stratum   the connect / take-a-pool-change side of stratum_thread     *)
(*             (src/stratum/stratum_thread.c), the far side of the park.   *)
(*   api       the one thread of src/api/api_server.cpp: it serves a       *)
(*             single request at a time and waits inside it.               *)
(*                                                                         *)
(* The helpers named *_locked run with g_lock held, so they are functions  *)
(* from one control block to the next; an action is one critical section   *)
(* or one unlocked read or write that another thread can observe.          *)
(* Time is abstracted to two flags: "late" (now >= g_deadline) and         *)
(* "throttled" (inside --api-control-min-interval).                        *)
(***************************************************************************)
EXTENDS Integers, FiniteSets

CONSTANTS
    Worker,       \* the mining threads, opt_n_threads of them
    Pool,         \* pool urls
    Algo,         \* algorithm names the registry knows
    NoAlgo,       \* g_pool.algo empty: a plain re-target
    InitPool,     \* rpc_url as the option parser left it
    InitAlgo,     \* opt_algo as the option parser left it
    Verb,         \* the run states the API is asked for
    Target,       \* the pools the API is asked to move to
    SwitchAlgo,   \* the algorithms a profile may name
    Fragile,      \* the algorithms whose kernel build may fail on a device
    Redirect,     \* the pools a client.reconnect may name; none without opt_redirect
    LimitedRetries, \* opt_retries >= 0: a failed connect may be the last one
    MayShutDown,  \* whether the process is wound up during the behaviour
    MaxPosts      \* bound: mutations the API thread posts in a behaviour

ASSUME WorkerAssumption == IsFiniteSet(Worker) /\ Worker # {}
ASSUME ProfileAssumption ==
    /\ InitPool \in Pool
    /\ InitAlgo \in Algo
    /\ NoAlgo \notin Algo
    /\ Verb \subseteq {"running", "paused", "stopped"}
    /\ Target \subseteq Pool
    /\ SwitchAlgo \subseteq Algo
    /\ Fragile \subseteq Algo
    /\ Redirect \subseteq Pool
ASSUME BoundAssumption ==
    MaxPosts \in Nat /\ LimitedRetries \in BOOLEAN /\ MayShutDown \in BOOLEAN

VARIABLES
    ctl,          \* the control block
    wpc,          \* where each worker is in its loop
    wgen,         \* the local "gen" of control_park
    bound,        \* bound_algo, the algorithm the worker is bound to
    kernel,       \* whether the worker holds a device kernel
    spc,          \* where the stratum thread is
    site,         \* which of its three calls of control_pool_apply it is in
    taken,        \* the request that call copied out: url and algorithm
    curl,         \* the connection is open
    surl,         \* stratum.url, what the next connect dials
    origin,       \* history: the rpc_url it was copied from, before any redirect
    stranded,     \* history: a stop has cleared the reset that was to copy it again
    rpc_url,      \* the pool the miner is configured for
    opt_algo,     \* the algorithm it is configured for
    need_reset,   \* stratum_need_reset
    job,          \* a job of the open connection has been published
    stop,         \* g_stop: the run is ending
    apc,          \* the API thread: idle, or waiting inside a request
    want,         \* the run state the waiting verb asked for, or "pool"
    posts         \* bound counter: mutations posted so far

workerVars  == <<wpc, wgen, bound, kernel>>
urlHistory  == <<origin, stranded>>
urlVars     == <<surl, urlHistory>>
stratumVars == <<spc, site, taken, curl, urlVars, rpc_url, opt_algo, need_reset, job>>
apiVars     == <<apc, want, posts>>
vars == <<ctl, wpc, wgen, bound, kernel, spc, site, taken, curl, surl, origin,
          stranded, rpc_url, opt_algo, need_reset, job, stop, apc, want, posts>>

RunState == {"running", "paused", "stopped"}
State    == RunState \cup {"switching"}
N        == Cardinality(Worker)
Profile  == [url : Pool, algo : Algo \cup {NoAlgo}]

WorkerPc  == {"top", "work", "terms", "enter", "parked", "left", "failing", "exit"}
StratumPc == {"top", "connect", "dial", "apply", "hook", "swap", "ack",
              "wait", "out"}
Site      == {"hold", "connect", "main"}

----------------------------------------------------------------------------
(* The control block and what happens to it under g_lock.                   *)

ControlBlock ==
    [state : State, pending : RunState, previous : RunState,
     mutating : BOOLEAN, epoch : Nat,
     parked : Nat, parkedGen : Nat, parkGen : Nat,
     shutdown : BOOLEAN, late : BOOLEAN, throttled : BOOLEAN,
     poolSwitch : BOOLEAN, posted : BOOLEAN, applied : BOOLEAN,
     done : BOOLEAN, ok : BOOLEAN,
     url : Pool, algo : Algo \cup {NoAlgo},
     prevUrl : Pool, prevAlgo : Algo,
     canRestore : BOOLEAN, restoring : BOOLEAN,
     park : BOOLEAN, retain : BOOLEAN, inFlight : BOOLEAN, hold : BOOLEAN]

control_init ==
    [state |-> "running", pending |-> "running", previous |-> "running",
     mutating |-> FALSE, epoch |-> 0,
     parked |-> 0, parkedGen |-> 0, parkGen |-> 0,
     shutdown |-> FALSE, late |-> FALSE, throttled |-> FALSE,
     poolSwitch |-> FALSE, posted |-> FALSE, applied |-> FALSE,
     done |-> FALSE, ok |-> FALSE,
     url |-> InitPool, algo |-> NoAlgo,
     prevUrl |-> InitPool, prevAlgo |-> InitAlgo,
     canRestore |-> FALSE, restoring |-> FALSE,
     park |-> FALSE, retain |-> FALSE, inFlight |-> FALSE, hold |-> FALSE]

all_parked_locked(c) == c.parkedGen >= N

landed_locked(c) ==
    IF c.pending = "running" THEN c.parked = 0 ELSE all_parked_locked(c)

(* Mutant. *)
TermsOf_keeps_park(c, s) ==
    [c EXCEPT !.retain = (s = "paused"), !.hold = (s = "stopped")]

(* The park, retain and hold flags a miner in run state s carries. *)
TermsOf(c, s) ==
    [c EXCEPT !.park = (s # "running"),
              !.retain = (s = "paused"),
              !.hold = (s = "stopped")]

(* Mutant. *)
HandOver_any_time(c) ==
    IF c.poolSwitch /\ ~c.posted /\ ~c.applied
    THEN [c EXCEPT !.posted = TRUE, !.inFlight = TRUE]
    ELSE c

(* A pool change whose workers are all in is handed to the stratum thread. *)
HandOver(c) ==
    IF c.poolSwitch /\ ~c.posted /\ ~c.applied /\ all_parked_locked(c)
    THEN [c EXCEPT !.posted = TRUE, !.inFlight = TRUE]
    ELSE c

Landed(c) ==
    IF c.poolSwitch THEN (c.posted \/ c.applied) /\ c.done ELSE landed_locked(c)

Commit(c) ==
    TermsOf([c EXCEPT !.state = c.pending,
                      !.epoch = @ + 1,
                      !.mutating = FALSE,
                      !.poolSwitch = FALSE,
                      !.posted = IF c.poolSwitch THEN FALSE ELSE @,
                      !.inFlight = IF c.poolSwitch THEN FALSE ELSE @],
            c.pending)

settle_locked(c) ==
    IF c.state # "switching" THEN c
    ELSE LET h == HandOver(c) IN IF Landed(h) THEN Commit(h) ELSE h

(* Mutant. *)
rollback_to_pending(c) ==
    TermsOf([c EXCEPT !.poolSwitch = FALSE, !.posted = FALSE, !.inFlight = FALSE,
                      !.state = c.pending, !.mutating = FALSE],
            c.pending)

(* Mutant. *)
rollback_keeps_request(c) ==
    TermsOf([c EXCEPT !.posted = FALSE, !.inFlight = FALSE,
                      !.state = c.previous,
                      !.pending = c.previous,
                      !.mutating = FALSE],
            c.previous)

rollback_locked(c) ==
    TermsOf([c EXCEPT !.poolSwitch = FALSE, !.posted = FALSE, !.inFlight = FALSE,
                      !.state = c.previous,
                      !.pending = c.previous,
                      !.mutating = FALSE],
            c.previous)

(* Mutant. *)
expire_never(c) == c

expire_locked(c) ==
    IF c.state # "switching" \/ ~c.late THEN c
    ELSE IF c.poolSwitch /\ c.applied
         THEN settle_locked([c EXCEPT !.done = TRUE, !.ok = FALSE])
         ELSE rollback_locked(c)

(* What every request does first: judge against what has happened since. *)
UpToDate(c) == expire_locked(settle_locked(c))

(* u, a: the pool and algorithm asked for; s: the run state to land in. *)
post_pool_locked(c, u, a, restore, s) ==
    LET saves   == a # NoAlgo /\ ~restore
        saved   == [c EXCEPT !.prevAlgo = IF saves THEN opt_algo ELSE @,
                             !.prevUrl = IF saves THEN rpc_url ELSE @,
                             !.canRestore = IF saves THEN TRUE ELSE @,
                             !.restoring = restore,
                             !.throttled = TRUE, !.late = FALSE]
        request == [saved EXCEPT !.poolSwitch = TRUE, !.url = u, !.algo = a,
                                 !.posted = FALSE, !.applied = FALSE,
                                 !.done = FALSE, !.ok = FALSE]
    IN  [request EXCEPT !.previous = c.state, !.pending = s,
                        !.state = "switching", !.mutating = TRUE,
                        !.retain = (c.state # "stopped"),
                        !.park = TRUE,
                        !.hold = (s = "stopped"),
                        !.parkGen = c.parkGen + 1,
                        !.parkedGen = 0]

(* The body of control_request once the request is accepted. *)
post_verb_locked(c, s) ==
    LET d == [c EXCEPT !.previous = c.state, !.pending = s,
                       !.state = "switching", !.mutating = TRUE, !.late = FALSE]
    IN  IF s = "running"
        THEN [d EXCEPT !.park = FALSE, !.retain = FALSE]
        ELSE [d EXCEPT !.retain = (s = "paused"), !.park = TRUE,
                       !.parkGen = @ + 1, !.parkedGen = 0]

control_switch_recoverable(c) == c.canRestore /\ ~c.restoring

(* Mutant. *)
connected_before_applied(c) ==
    IF ~c.poolSwitch \/ c.done THEN c
    ELSE settle_locked([c EXCEPT !.done = TRUE, !.ok = TRUE])

connected_locked(c) ==
    IF ~c.poolSwitch \/ ~c.applied \/ c.done THEN c
    ELSE settle_locked([c EXCEPT !.done = TRUE, !.ok = TRUE])

----------------------------------------------------------------------------
Init ==
    /\ ctl = control_init
    /\ wpc = [w \in Worker |-> "top"]
    /\ wgen = [w \in Worker |-> 0]
    /\ bound = [w \in Worker |-> InitAlgo]
    /\ kernel = [w \in Worker |-> FALSE]
    /\ spc = "top"
    /\ site = "main"
    /\ taken = [url |-> InitPool, algo |-> NoAlgo]
    /\ curl = FALSE
    /\ surl = InitPool /\ origin = InitPool /\ stranded = FALSE
    /\ rpc_url = InitPool
    /\ opt_algo = InitAlgo
    /\ need_reset = FALSE
    /\ job = FALSE
    /\ stop = FALSE
    /\ apc = "idle"
    /\ want = "pool"
    /\ posts = 0

----------------------------------------------------------------------------
(* A mining thread.                                                         *)

(* Loop top: the park was noticed; drain() empties the pipeline. *)
NoticePark(w) ==
    /\ wpc[w] = "top" /\ ~stop /\ ctl.park
    /\ wpc' = [wpc EXCEPT ![w] = "terms"]
    /\ UNCHANGED <<ctl, wgen, bound, kernel, stratumVars, stop, apiVars>>

(* Pins or unpins the shared table (SharedTable has that), gives the kernel  *)
(* up.                                                                       *)
ReadTerms(w) ==
    /\ wpc[w] = "terms"
    /\ wpc' = [wpc EXCEPT ![w] = "enter"]
    /\ kernel' = [kernel EXCEPT ![w] = FALSE]
    /\ UNCHANGED <<ctl, wgen, bound, stratumVars, stop, apiVars>>

(* Mutant. *)
EnterPark_unsettled(w) ==
    /\ wpc[w] = "enter" /\ ~ctl.shutdown
    /\ wpc' = [wpc EXCEPT ![w] = "parked"]
    /\ wgen' = [wgen EXCEPT ![w] = ctl.parkGen]
    /\ ctl' = [ctl EXCEPT !.parked = @ + 1, !.parkedGen = @ + 1]
    /\ UNCHANGED <<bound, kernel, stratumVars, stop, apiVars>>

(* control_park, up to its wait. *)
EnterPark(w) ==
    /\ wpc[w] = "enter"
    /\ IF ctl.shutdown
       THEN /\ wpc' = [wpc EXCEPT ![w] = "left"]
            /\ UNCHANGED <<ctl, wgen>>
       ELSE /\ wpc' = [wpc EXCEPT ![w] = "parked"]
            /\ wgen' = [wgen EXCEPT ![w] = ctl.parkGen]
            /\ ctl' = settle_locked([ctl EXCEPT !.parked = @ + 1,
                                                !.parkedGen = @ + 1])
    /\ UNCHANGED <<bound, kernel, stratumVars, stop, apiVars>>

(* Mutant. *)
LeavePark_any_generation(w) ==
    /\ wpc[w] = "parked"
    /\ ~ctl.park \/ ctl.parkGen # wgen[w] \/ ctl.shutdown
    /\ wpc' = [wpc EXCEPT ![w] = "left"]
    /\ ctl' = settle_locked([ctl EXCEPT !.parked = @ - 1, !.parkedGen = @ - 1])
    /\ UNCHANGED <<wgen, bound, kernel, stratumVars, stop, apiVars>>

(* control_park, from the wait to the return. *)
LeavePark(w) ==
    /\ wpc[w] = "parked"
    /\ ~ctl.park \/ ctl.parkGen # wgen[w] \/ ctl.shutdown
    /\ wpc' = [wpc EXCEPT ![w] = "left"]
    /\ ctl' = settle_locked([ctl EXCEPT
                  !.parked = @ - 1,
                  !.parkedGen = IF ctl.parkGen = wgen[w] THEN @ - 1 ELSE @])
    /\ UNCHANGED <<wgen, bound, kernel, stratumVars, stop, apiVars>>

(* Back from the park: bind to whatever opt_algo names now. *)
Rebind(w) ==
    /\ wpc[w] = "left"
    /\ bound' = [bound EXCEPT ![w] = opt_algo]
    /\ wpc' = [wpc EXCEPT ![w] = "top"]
    /\ UNCHANGED <<ctl, wgen, kernel, stratumVars, stop, apiVars>>

(* Loop top: no park to notice. One posted from here on waits for the next  *)
(* time round.                                                              *)
PassCheck(w) ==
    /\ wpc[w] = "top" /\ ~stop /\ ~ctl.park
    /\ wpc' = [wpc EXCEPT ![w] = "work"]
    /\ UNCHANGED <<ctl, wgen, bound, kernel, stratumVars, stop, apiVars>>

(* No job, or a kernel to dispatch it with: nothing here concerns the       *)
(* barrier, and the loop goes round.                                        *)
GoRound(w) ==
    /\ wpc[w] = "work" /\ (~job \/ kernel[w])
    /\ wpc' = [wpc EXCEPT ![w] = "top"]
    /\ UNCHANGED <<ctl, wgen, bound, kernel, stratumVars, stop, apiVars>>

(* build_kernel, for the first job after a start, a park or an epoch change. *)
BuildKernel(w) ==
    /\ wpc[w] = "work" /\ job /\ ~kernel[w]
    /\ wpc' = [wpc EXCEPT ![w] = "top"]
    /\ kernel' = [kernel EXCEPT ![w] = TRUE]
    /\ UNCHANGED <<ctl, wgen, bound, stratumVars, stop, apiVars>>

(* The build failed and give_up found a profile to go back to. *)
BuildFailsRecoverably(w) ==
    /\ wpc[w] = "work" /\ job /\ ~kernel[w]
    /\ bound[w] \in Fragile
    /\ control_switch_recoverable(ctl)
    /\ wpc' = [wpc EXCEPT ![w] = "failing"]
    /\ UNCHANGED <<ctl, wgen, bound, kernel, stratumVars, stop, apiVars>>

(* The build failed and there is nothing to go back to: fail_run(1). *)
BuildFailsFatally(w) ==
    /\ wpc[w] = "work" /\ job /\ ~kernel[w]
    /\ bound[w] \in Fragile
    /\ ~control_switch_recoverable(ctl)
    /\ stop' = TRUE
    /\ wpc' = [wpc EXCEPT ![w] = "exit"]
    /\ UNCHANGED <<ctl, wgen, bound, kernel, stratumVars, apiVars>>

(* control_switch_failed: asks for the previous profile and does not wait. *)
control_switch_failed(w) ==
    /\ wpc[w] = "failing"
    /\ LET c == UpToDate(ctl)
       IN  ctl' = IF ~c.canRestore \/ c.restoring \/ c.mutating THEN c
                  ELSE post_pool_locked(c, c.prevUrl, c.prevAlgo, TRUE, c.state)
    /\ wpc' = [wpc EXCEPT ![w] = "top"]
    /\ UNCHANGED <<wgen, bound, kernel, stratumVars, stop, apiVars>>

(* The loop condition: g_stop ends the thread and gives the device back. *)
WorkerExit(w) ==
    /\ wpc[w] = "top" /\ stop
    /\ wpc' = [wpc EXCEPT ![w] = "exit"]
    /\ kernel' = [kernel EXCEPT ![w] = FALSE]
    /\ UNCHANGED <<ctl, wgen, bound, stratumVars, stop, apiVars>>

WorkerStep(w) ==
    \/ NoticePark(w) \/ PassCheck(w) \/ GoRound(w) \/ ReadTerms(w) \/ EnterPark(w) \/ LeavePark(w)
    \/ Rebind(w) \/ BuildKernel(w) \/ BuildFailsRecoverably(w)
    \/ BuildFailsFatally(w) \/ control_switch_failed(w) \/ WorkerExit(w)

----------------------------------------------------------------------------
(* The stratum thread. control_pool_apply is called from three places; what *)
(* the caller does with the answer is the difference between them.          *)

(* stratum.url = strdup( rpc_url ), in the two places that sync them. *)
stratum_take_url == surl' = rpc_url /\ origin' = rpc_url /\ stranded' = FALSE

(* Mutant. *)
TopHold_keeps_connection ==
    /\ spc = "top" /\ ctl.hold
    /\ need_reset' = FALSE
    /\ site' = "hold" /\ spc' = "apply"
    /\ UNCHANGED <<ctl, workerVars, taken, curl, job, urlVars, rpc_url, opt_algo,
                   stop, apiVars>>

(* Top of the loop, stopped on purpose: the connection goes, a posted pool  *)
(* change is still taken.                                                   *)
TopHold ==
    /\ spc = "top" /\ ctl.hold
    /\ curl' = FALSE
    /\ job' = (job /\ ~curl)
    /\ need_reset' = FALSE
    /\ stranded' = (stranded \/ (need_reset /\ origin # rpc_url))
    /\ site' = "hold" /\ spc' = "apply"
    /\ UNCHANGED <<ctl, workerVars, taken, surl, origin, rpc_url, opt_algo, stop,
                   apiVars>>

(* Top of the loop, reset: disconnect and take the configured url over. *)
TopReset ==
    /\ spc = "top" /\ ~ctl.hold /\ need_reset
    /\ need_reset' = FALSE
    /\ curl' = FALSE
    /\ job' = FALSE
    /\ stratum_take_url
    /\ spc' = "connect"
    /\ UNCHANGED <<ctl, workerVars, site, taken, rpc_url, opt_algo, stop, apiVars>>

TopRun ==
    /\ spc = "top" /\ ~ctl.hold /\ ~need_reset
    /\ spc' = "connect"
    /\ UNCHANGED <<ctl, workerVars, site, taken, curl, urlVars, rpc_url, opt_algo,
                   need_reset, job, stop, apiVars>>

(* The while ( !stratum.curl ) test, and the hold test inside it. *)
ConnectLoop ==
    /\ spc = "connect"
    /\ IF curl
       THEN spc' = "apply" /\ site' = "main" /\ UNCHANGED job
       ELSE /\ job' = FALSE
            /\ spc' = "apply"
            /\ site' = IF ctl.hold THEN "main" ELSE "connect"
    /\ UNCHANGED <<ctl, workerVars, taken, curl, urlVars, rpc_url, opt_algo,
                   need_reset, stop, apiVars>>

(* connect, subscribe and authorize: the session is up, and that is the ack. *)
DialSucceeds ==
    /\ spc = "dial"
    /\ curl' = TRUE
    /\ ctl' = connected_locked(ctl)
    /\ job' \in BOOLEAN                  \* a job may have come with the handshake
    /\ spc' = "connect"
    /\ UNCHANGED <<workerVars, site, taken, urlVars, rpc_url, opt_algo, need_reset,
                   stop, apiVars>>

(* client.reconnect where the answer to extranonce.subscribe was due: the    *)
(* url moves and the connection is closed, but authorize has said yes and    *)
(* the caller takes the session for up.                                      *)
DialSucceedsAndMoves ==
    /\ spc = "dial"
    /\ surl' \in Redirect
    /\ curl' = FALSE
    /\ ctl' = connected_locked(ctl)
    /\ job' \in BOOLEAN
    /\ spc' = "connect"
    /\ UNCHANGED <<workerVars, site, taken, urlHistory, rpc_url, opt_algo, need_reset,
                   stop, apiVars>>

(* A client.reconnect before the answer to authorize moves the url and       *)
(* closes the connection that was to bring it.                               *)
DialFails ==
    /\ spc = "dial"
    /\ surl' \in {surl} \cup Redirect
    /\ spc' = "connect"
    /\ UNCHANGED <<ctl, workerVars, site, taken, curl, urlHistory, rpc_url, opt_algo,
                   need_reset, job, stop, apiVars>>

(* The last retry failed: workio is told to end and this thread returns. *)
DialGivesUp ==
    /\ spc = "dial" /\ LimitedRetries /\ ~ctl.inFlight
    /\ surl' \in {surl} \cup Redirect
    /\ spc' = "out"
    /\ UNCHANGED <<ctl, workerVars, site, taken, curl, urlHistory, rpc_url, opt_algo,
                   need_reset, job, stop, apiVars>>

(* control_pool_apply, first critical section: nothing is posted. *)
NothingPosted ==
    /\ spc = "apply" /\ ~ctl.posted
    /\ spc' = CASE site = "hold" -> "top"
                [] site = "connect" -> "dial"
                [] site = "main" -> "wait"
    /\ UNCHANGED <<ctl, workerVars, site, taken, curl, urlVars, rpc_url, opt_algo,
                   need_reset, job, stop, apiVars>>

(* control_pool_apply, first critical section: the request is copied out. *)
TakeRequest ==
    /\ spc = "apply" /\ ctl.posted
    /\ taken' = [url |-> ctl.url, algo |-> ctl.algo]
    /\ ctl' = [ctl EXCEPT !.posted = FALSE, !.applied = TRUE]
    /\ spc' = IF ctl.algo = NoAlgo THEN "swap" ELSE "hook"
    /\ UNCHANGED <<workerVars, site, curl, urlVars, rpc_url,
                   opt_algo, need_reset, job, stop, apiVars>>

(* switch_algorithm said no: the barrier is rolled back, whatever it holds. *)
HookRefuses ==
    /\ spc = "hook"
    /\ ctl' = rollback_locked(ctl)
    /\ spc' = CASE site = "hold" -> "top"
                [] site = "connect" -> "dial"
                [] site = "main" -> "wait"
    /\ UNCHANGED <<workerVars, site, taken, curl, urlVars, rpc_url, opt_algo,
                   need_reset, job, stop, apiVars>>

HookAccepts ==
    /\ spc = "hook"
    /\ opt_algo' = taken.algo
    /\ spc' = "swap"
    /\ UNCHANGED <<ctl, workerVars, site, taken, curl, urlVars, rpc_url, need_reset,
                   job, stop, apiVars>>

(* rpc_url, short_url, rpc_user and rpc_pass replaced, the old ones freed. *)
SwapUrl ==
    /\ spc = "swap"
    /\ rpc_url' = taken.url
    /\ spc' = "ack"
    /\ UNCHANGED <<ctl, workerVars, site, taken, curl, urlVars, opt_algo, need_reset,
                   job, stop, apiVars>>

(* Mutant. *)
ApplyReturns_leaves_url ==
    /\ spc = "ack"
    /\ ctl' = IF ctl.hold THEN connected_locked(ctl) ELSE ctl
    /\ need_reset' = (need_reset \/ site = "main")
    /\ spc' = IF site = "connect" THEN "dial" ELSE "top"
    /\ UNCHANGED <<workerVars, site, taken, curl, urlVars, rpc_url, opt_algo, job,
                   stop, apiVars>>

(* A stopped miner is finished by having recorded the change. Then back to   *)
(* the caller: two of the three take the url over, one leaves it to a reset. *)
ApplyReturns ==
    /\ spc = "ack"
    /\ ctl' = IF ctl.hold THEN connected_locked(ctl) ELSE ctl
    /\ IF site = "main"
       THEN need_reset' = TRUE /\ UNCHANGED urlVars
       ELSE stratum_take_url /\ UNCHANGED need_reset
    /\ spc' = IF site = "connect" THEN "dial" ELSE "top"
    /\ UNCHANGED <<workerVars, site, taken, curl, rpc_url, opt_algo, job, stop,
                   apiVars>>

(* The socket wait: a line arrives (a job or an answer), ... *)
ReceiveLine ==
    /\ spc = "wait" /\ curl
    /\ job' \in {job, TRUE}
    /\ spc' = "top"
    /\ UNCHANGED <<ctl, workerVars, site, taken, curl, urlVars, rpc_url, opt_algo,
                   need_reset, stop, apiVars>>

(* ... client.reconnect: the url moves, the connection is closed, and only   *)
(* a keepalive that is overdue adds a reset, ...                             *)
stratum_reconnect ==
    /\ spc = "wait" /\ curl
    /\ surl' \in Redirect
    /\ curl' = FALSE
    /\ need_reset' \in BOOLEAN
    /\ spc' = "top"
    /\ UNCHANGED <<ctl, workerVars, site, taken, urlHistory, rpc_url, opt_algo, job,
                   stop, apiVars>>

(* ... a change was posted or the miner was stopped, ... *)
WaitInterrupted ==
    /\ spc = "wait" /\ (ctl.posted \/ ctl.hold)
    /\ spc' = "top"
    /\ UNCHANGED <<ctl, workerVars, site, taken, curl, urlVars, rpc_url, opt_algo,
                   need_reset, job, stop, apiVars>>

(* ... or the connection failed, stayed quiet for opt_timeout, or a keepalive  *)
(* found no share going out. *)
ConnectionLost ==
    /\ spc = "wait"
    /\ need_reset' = TRUE
    /\ spc' = "top"
    /\ UNCHANGED <<ctl, workerVars, site, taken, curl, urlVars, rpc_url, opt_algo,
                   job, stop, apiVars>>

StratumStep ==
    \/ TopHold \/ TopReset \/ TopRun \/ ConnectLoop
    \/ DialSucceeds \/ DialSucceedsAndMoves \/ DialFails \/ DialGivesUp
    \/ NothingPosted \/ TakeRequest \/ HookRefuses \/ HookAccepts
    \/ SwapUrl \/ ApplyReturns
    \/ ReceiveLine \/ stratum_reconnect \/ WaitInterrupted \/ ConnectionLost

----------------------------------------------------------------------------
(* The API thread.                                                          *)

(* control_request(s). Busy, or already there: answered, nothing posted.    *)
VerbAnswered(s) ==
    /\ apc = "idle"
    /\ LET c == UpToDate(ctl)
       IN  /\ c.mutating \/ c.state = s
           /\ ctl' = c
    /\ UNCHANGED <<workerVars, stratumVars, stop, apiVars>>

control_request(s) ==
    /\ apc = "idle" /\ posts < MaxPosts
    /\ LET c == UpToDate(ctl)
       IN  /\ ~c.mutating /\ c.state # s
           /\ ctl' = settle_locked(post_verb_locked(c, s))
    /\ posts' = posts + 1
    /\ want' = s
    /\ apc' = IF ctl'.state = "switching" THEN "wait" ELSE "idle"
    /\ UNCHANGED <<workerVars, stratumVars, stop>>

(* Mutant. *)
control_pool_request_while_busy(u, a, s) ==
    /\ apc = "idle" /\ posts < MaxPosts
    /\ LET c == UpToDate(ctl)
       IN  /\ ~c.throttled
           /\ ctl' = settle_locked(post_pool_locked(c, u, a, FALSE,
                                       IF s = "same" THEN c.state ELSE s))
    /\ posts' = posts + 1
    /\ want' = "pool"
    /\ apc' = IF ctl'.state = "switching" THEN "wait" ELSE "idle"
    /\ UNCHANGED <<workerVars, stratumVars, stop>>

(* control_pool_request (a = NoAlgo) and control_algo_request. s is the run  *)
(* state a profile names; "same" leaves the miner in the one it is in.       *)
control_pool_request(u, a, s) ==
    /\ apc = "idle" /\ posts < MaxPosts
    /\ LET c == UpToDate(ctl)
       IN  /\ ~c.mutating /\ ~c.throttled
           /\ ctl' = settle_locked(post_pool_locked(c, u, a, FALSE,
                                       IF s = "same" THEN c.state ELSE s))
    /\ posts' = posts + 1
    /\ want' = "pool"
    /\ apc' = IF ctl'.state = "switching" THEN "wait" ELSE "idle"
    /\ UNCHANGED <<workerVars, stratumVars, stop>>

(* A pool request refused as busy or throttled, and a poll of the state. *)
control_status ==
    /\ apc = "idle"
    /\ ctl' = UpToDate(ctl)
    /\ UNCHANGED <<workerVars, stratumVars, stop, apiVars>>

(* The change landed, or was rolled back by somebody else, while waiting.    *)
(* control_request rolls back once more when the deadline has passed too.    *)
WaitEnds ==
    /\ apc = "wait" /\ ctl.state # "switching"
    /\ ctl' = IF want \in RunState /\ ctl.state # want /\ ctl.late
              THEN rollback_locked(ctl) ELSE ctl
    /\ apc' = "idle"
    /\ UNCHANGED <<workerVars, stratumVars, stop, want, posts>>

(* The deadline passed with the change still in flight. *)
WaitTimesOut ==
    /\ apc = "wait" /\ ctl.late
    /\ LET c == settle_locked(ctl)
       IN  /\ c.state = "switching"
           /\ ctl' = IF want = "pool" THEN expire_locked(c) ELSE rollback_locked(c)
    /\ apc' = "idle"
    /\ UNCHANGED <<workerVars, stratumVars, stop, want, posts>>

(* wait_ms ran out first: kAccepted, the change stays in flight. *)
WaitAccepted ==
    /\ apc = "wait" /\ ctl.state = "switching" /\ ~ctl.late
    /\ ctl' = settle_locked(ctl)
    /\ apc' = "idle"
    /\ UNCHANGED <<workerVars, stratumVars, stop, want, posts>>

ApiWait == WaitEnds \/ WaitTimesOut \/ WaitAccepted

ApiStep ==
    \/ \E s \in Verb : VerbAnswered(s) \/ control_request(s)
    \/ \E u \in Target, a \in SwitchAlgo \cup {NoAlgo},
          s \in {"same", "running", "paused"} : control_pool_request(u, a, s)
    \/ control_status
    \/ ApiWait

----------------------------------------------------------------------------
(* The clock, and the main thread winding the process up.                   *)

DeadlinePasses ==
    /\ ~ctl.late /\ (ctl.state = "switching" \/ apc = "wait")
    /\ ctl' = [ctl EXCEPT !.late = TRUE]
    /\ UNCHANGED <<workerVars, stratumVars, stop, apiVars>>

IntervalPasses ==
    /\ ctl.throttled
    /\ ctl' = [ctl EXCEPT !.throttled = FALSE]
    /\ UNCHANGED <<workerVars, stratumVars, stop, apiVars>>

(* worker_request_stop, with its control_release_all: a signal, /quit, a     *)
(* fatal worker or a stratum thread that gave up.                            *)
worker_request_stop ==
    /\ MayShutDown /\ ~ctl.shutdown
    /\ stop' = TRUE
    /\ ctl' = [ctl EXCEPT !.shutdown = TRUE, !.park = FALSE, !.retain = FALSE,
                          !.posted = FALSE, !.inFlight = FALSE, !.hold = FALSE]
    /\ UNCHANGED <<workerVars, stratumVars, apiVars>>

Next ==
    \/ \E w \in Worker : WorkerStep(w)
    \/ StratumStep
    \/ ApiStep
    \/ DeadlinePasses
    \/ IntervalPasses
    \/ worker_request_stop

Spec == Init /\ [][Next]_vars

(* The clock runs, a caller inside a request is woken by the condition      *)
(* variable or by its own deadline, and a manager goes on polling: enough   *)
(* for a change to end whatever the workers and the pool do.                *)
ClockAndManager ==
    /\ WF_vars(DeadlinePasses)
    /\ WF_vars(WaitEnds \/ WaitTimesOut)
    /\ WF_vars(control_status)

(* A parked worker wakes in slices of 100 ms; a worker that saw a park goes *)
(* through with it.                                                         *)
WorkerFairness ==
    \A w \in Worker :
        WF_vars(ReadTerms(w) \/ EnterPark(w) \/ LeavePark(w) \/ Rebind(w)
                \/ control_switch_failed(w))

(* Every wait of the stratum thread is bounded: the socket wait is sliced,  *)
(* a connect attempt ends one way or the other, the hook returns.           *)
StratumFairness == WF_vars(StratumStep)

FairSpec == Spec /\ ClockAndManager
LiveSpec == Spec /\ ClockAndManager /\ WorkerFairness /\ StratumFairness

----------------------------------------------------------------------------
(* Properties that hold.                                                    *)

(* Every variable has the type its declaration in the code gives it. *)
TypeOK ==
    /\ ctl \in ControlBlock
    /\ wpc \in [Worker -> WorkerPc]
    /\ wgen \in [Worker -> Nat]
    /\ bound \in [Worker -> Algo]
    /\ kernel \in [Worker -> BOOLEAN]
    /\ spc \in StratumPc
    /\ site \in Site
    /\ taken \in Profile
    /\ curl \in BOOLEAN
    /\ surl \in Pool /\ origin \in Pool /\ stranded \in BOOLEAN
    /\ rpc_url \in Pool
    /\ opt_algo \in Algo
    /\ need_reset \in BOOLEAN
    /\ job \in BOOLEAN
    /\ stop \in BOOLEAN
    /\ apc \in {"idle", "wait"}
    /\ want \in RunState \cup {"pool"}
    /\ posts \in Nat

Parked == {w \in Worker : wpc[w] = "parked"}
ParkedNow == {w \in Worker : wpc[w] = "parked" /\ wgen[w] = ctl.parkGen}

(* g_parked and g_parked_gen count exactly the workers that are inside       *)
(* control_park, and those of them that came in under the current           *)
(* generation, through every overlap of parks, rollbacks and re-posts.      *)
ParkCount ==
    /\ ctl.parked = Cardinality(Parked)
    /\ ctl.parkedGen = Cardinality(ParkedNow)

(* The fields of the barrier never contradict each other: a mutation is      *)
(* counted as in flight exactly while the state says switching, a pool      *)
(* change belongs to one, its park stays closed until it is let go, and no  *)
(* worker sits under a generation that has not been opened yet.             *)
FlagsAgree ==
    /\ ctl.mutating <=> ctl.state = "switching"
    /\ ctl.poolSwitch => ctl.state = "switching"
    /\ ctl.poolSwitch /\ ~ctl.shutdown => ctl.park
    /\ \A w \in Worker : wgen[w] <= ctl.parkGen

(* settle_locked hands a pool change over only under a full park: while it   *)
(* is posted or taken and has not been let go, every worker is inside        *)
(* control_park, counted under this change's own generation.                 *)
SwitchUnderPark ==
    ctl.poolSwitch /\ (ctl.posted \/ ctl.applied) /\ ~ctl.shutdown
        => ParkedNow = Worker

(* settle_locked is called "from both sides": with g_lock free there is      *)
(* never a change whose workers have arrived and that waits for a poll.      *)
NothingLeftToLand == ~ctl.shutdown => settle_locked(ctl) = ctl

(* The session is with the pool u, or with one that u has sent the miner to   *)
(* by client.reconnect.                                                      *)
SessionOf(u) == origin = u /\ surl \in {u} \cup Redirect

(* control_pool_connected acknowledges a re-target only on a session with    *)
(* the pool that was asked for or one it referred the miner to (or on none,  *)
(* for a stopped miner): never on the session that was being dialled when    *)
(* the change was posted, nor on one the pool that is being left redirects   *)
(* to while the change is under way.                                         *)
AckNamesThePool ==
    [][ctl'.ok /\ ~ctl.ok => SessionOf(ctl.url) \/ ctl.hold]_vars

(* What the stratum thread dials is the pool the miner is configured for, or *)
(* where that pool has sent it: a change of pool reaches stratum.url by      *)
(* whichever of the three calls took it, and no redirect of the pool before  *)
(* outlives it. The one exception is a stop that finds the reset pending     *)
(* which was to carry the change over: the hold branch clears it ("on the    *)
(* way back the connect below is what re-opens this"), and the connect below *)
(* dials the old url.                                                        *)
DialsConfiguredPool == spc = "dial" => SessionOf(rpc_url) \/ stranded

(* No mutation leaves the miner in "switching" for good, whatever hangs.     *)
SwitchEnds == ctl.state = "switching" ~> ctl.state # "switching" \/ ctl.shutdown

(* A running miner has no worker left behind in control_park.                *)
WorkersReleased ==
    \A w \in Worker :
        ctl.state = "running" ~> wpc[w] # "parked" \/ ctl.state # "running"

(* A stopped miner's connection is closed, wherever the stop found the       *)
(* stratum thread: dialling, retrying, waiting on a socket or taking a pool. *)
StopDropsConnection ==
    ctl.state = "stopped" ~> ~curl \/ ctl.state # "stopped"

(* What a manager sees: without algorithm changes the barrier implements the *)
(* run-state contract.                                                       *)
Contract == INSTANCE RunContract
                WITH state <- ctl.state, epoch <- ctl.epoch, from <- ctl.previous
ImplementsContract == Contract!Spec
=============================================================================

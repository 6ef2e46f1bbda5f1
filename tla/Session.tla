------------------------------ MODULE Session ------------------------------
(***************************************************************************)
(* From a job the pool sends to a share it is sent back: the stratum       *)
(* thread that owns the connection and publishes jobs, the mining threads  *)
(* that copy a job, build a header of their own on it and keep dispatches  *)
(* in flight, and the workio thread that sends what they found.            *)
(*                                                                         *)
(* A connection is a number; a job carries the connection it was read      *)
(* from. A header is the job whose coinbase it was built from and the      *)
(* extranonce2 in that coinbase, which is all that makes two headers       *)
(* differ. A nonce range is "Chunks" dispatches long. The Bitcoin dialect  *)
(* is modelled, the one with a coinbase to roll; control parks are those   *)
(* that keep the algorithm (Control has the others).                       *)
(***************************************************************************)
EXTENDS Integers, Sequences, FiniteSets

CONSTANTS
    N,              \* opt_n_threads; the workers are 0 .. N-1
    Depth,          \* Kernel::queue_depth
    Chunks,         \* batches in one worker's nonce range
    Record,         \* whether the history of dispatches is kept
    FreshIds,       \* the pool never uses one job id for two jobs
    JobId,          \* the job ids a pool that does may choose from
    BuildMayFail,   \* a kernel build may fail with a profile to go back to
    MaxConns,       \* bound: connections opened in a behaviour
    MaxJobs,        \* bound: different jobs pools send
    MaxEpoch,       \* bound: jobs published
    MaxRolls,       \* bound: the extranonce2 counter up to which ranges are rolled
    MaxShares,      \* bound: shares found
    MaxParks        \* bound: parks noticed

ASSUME SizeAssumption ==
    /\ N \in Nat \ {0} /\ Depth \in Nat \ {0} /\ Chunks \in Nat \ {0}
    /\ Record \in BOOLEAN /\ FreshIds \in BOOLEAN
    /\ BuildMayFail \in BOOLEAN /\ JobId \subseteq Nat
ASSUME LimitAssumption ==
    {MaxConns, MaxJobs, MaxEpoch, MaxRolls, MaxShares, MaxParks} \subseteq Nat

VARIABLES
    spc,              \* where the stratum thread is
    sock,             \* the open connection, or 0
    conns,            \* connections opened so far
    stratum_session,  \* sessions subscribed and authorized so far
    need_reset,       \* stratum_need_reset
    stratum_down,
    g_work_time,      \* g_work_time is not zero
    job,              \* sctx->job
    new_job,          \* sctx->new_job
    xnonce2,          \* sctx->job.xnonce2
    issued,           \* every job pools have sent
    g_work,           \* the published work
    wpc,              \* where each mining thread is in its loop
    work,             \* its own copy of the work
    counter,          \* its own extranonce2 sequence
    armed,            \* xnonce2_armed
    nonce,            \* the next chunk of its range
    kernel,           \* whether it holds a kernel
    inflight,         \* the headers its outstanding dispatches hash
    tested,           \* every (worker, header, chunk) ever dispatched
    rescans,          \* dispatches that repeated one of those
    queue,            \* the workio thread's queue
    iopc,             \* where the workio thread is
    cur,              \* the share it has in hand
    sent,             \* what it sent, each with the connection it left by
    dropped,          \* what it dropped
    parks             \* parks so far

poolVars   == <<job, new_job, xnonce2, issued>>
stratumVars == <<spc, sock, conns, stratum_session, need_reset, stratum_down,
                 g_work_time, g_work>>
workerVars == <<wpc, work, counter, armed, nonce, kernel, inflight, tested,
                rescans, parks>>
workioVars == <<iopc, cur, sent, dropped>>
vars == <<spc, sock, conns, stratum_session, need_reset, stratum_down,
          g_work_time, job, new_job, xnonce2, issued, g_work, wpc, work, counter,
          armed, nonce, kernel, inflight, tested, rescans, queue, iopc, cur, sent,
          dropped, parks>>

Worker == 0 .. N - 1

NoJob  == [conn |-> 0, n |-> 0, id |-> -1]
Job    == [conn : Nat, n : Nat, id : Nat \cup {-1}]
Header == [job : Job, xn : Nat]
Work   == [epoch : Nat, session : Nat, issue : Job, header : Header]
Share  == [session : Nat, issue : Job, header : Header]

NoWork == [epoch |-> 0, session |-> 0, issue |-> NoJob,
           header |-> [job |-> NoJob, xn |-> 0]]
NoShare == [session |-> 0, issue |-> NoJob, header |-> NoWork.header]

StratumPc == {"top", "dial", "authorize", "up", "prime", "publish"}
WorkerPc  == {"top", "park", "flush", "copy", "build", "ready", "reap"}
WorkioPc  == {"idle", "check", "send"}

Init ==
    /\ spc = "top" /\ sock = 0 /\ conns = 0
    /\ stratum_session = 0 /\ need_reset = FALSE
    /\ stratum_down = TRUE /\ g_work_time = FALSE
    /\ job = NoJob /\ new_job = FALSE /\ xnonce2 = 0 /\ issued = {}
    /\ g_work = NoWork
    /\ wpc = [w \in Worker |-> "top"]
    /\ work = [w \in Worker |-> NoWork]
    /\ counter = [w \in Worker |-> w]
    /\ armed = [w \in Worker |-> FALSE]
    /\ nonce = [w \in Worker |-> 0]
    /\ kernel = [w \in Worker |-> FALSE]
    /\ inflight = [w \in Worker |-> <<>>]
    /\ tested = {} /\ rescans = 0
    /\ queue = <<>>
    /\ iopc = "idle" /\ cur = NoShare /\ sent = {} /\ dropped = {}
    /\ parks = 0

----------------------------------------------------------------------------
(* The stratum thread.                                                      *)

(* The jobs a notify on the open connection may carry: a new one, or one     *)
(* sent before (a pool that switches between coins comes back to a job).     *)
Notifiable ==
    LET n    == Cardinality(issued) + 1
        ids  == IF FreshIds THEN {n} ELSE JobId
        more == {[conn |-> sock, n |-> n, id |-> i] : i \in ids}
    IN  (IF n <= MaxJobs THEN more ELSE {}) \cup {j \in issued : j.conn = sock}

(* stratum_notify: the job is taken apart into sctx; the extranonce2 field   *)
(* restarts only for another job id.                                         *)
stratum_notify(j) ==
    /\ g_work.epoch < MaxEpoch
    /\ job' = j
    /\ new_job' = TRUE
    /\ issued' = issued \cup {j}
    /\ xnonce2' = IF job.id = j.id THEN xnonce2 ELSE 0

stratum_gen_work ==
    /\ g_work' = [epoch |-> g_work.epoch + 1, session |-> stratum_session,
                  issue |-> job, header |-> [job |-> job, xn |-> xnonce2]]
    /\ g_work_time' = TRUE
    /\ new_job' = FALSE
    /\ xnonce2' = xnonce2 + 1

(* Top of the loop, reset: the connection goes. *)
TopReset ==
    /\ spc = "top" /\ need_reset
    /\ need_reset' = FALSE /\ stratum_down' = TRUE /\ sock' = 0
    /\ UNCHANGED <<spc, conns, stratum_session, g_work_time, g_work, poolVars,
                   workerVars, queue, workioVars>>

(* Mutant. *)
ConnectLoop_keeps_work ==
    /\ spc = "top" /\ ~need_reset /\ sock = 0
    /\ spc' = "dial"
    /\ UNCHANGED <<sock, conns, stratum_session, need_reset, stratum_down,
                   g_work_time, g_work, poolVars, workerVars, queue, workioVars>>

(* The connect loop: nothing to mine until a connection publishes a job. *)
ConnectLoop ==
    /\ spc = "top" /\ ~need_reset /\ sock = 0
    /\ stratum_down' = TRUE /\ g_work_time' = FALSE
    /\ spc' = "dial"
    /\ UNCHANGED <<sock, conns, stratum_session, need_reset, g_work, poolVars,
                   workerVars, queue, workioVars>>

(* stratum_connect and stratum_subscribe: the connection is there to be read *)
(* and written; what it is for is settled by the authorization.              *)
DialSucceeds ==
    /\ spc = "dial" /\ conns < MaxConns
    /\ conns' = conns + 1 /\ sock' = conns + 1
    /\ spc' = "authorize"
    /\ UNCHANGED <<stratum_session, need_reset, stratum_down, g_work_time, g_work,
                   poolVars, workerVars, queue, workioVars>>

DialFails ==
    /\ spc = "dial"
    /\ spc' = "top"
    /\ UNCHANGED <<sock, conns, stratum_session, need_reset, stratum_down,
                   g_work_time, g_work, poolVars, workerVars, queue, workioVars>>

(* stratum_authorize handles methods that come before the answer. *)
HandshakeNotify ==
    /\ spc = "authorize"
    /\ \E j \in Notifiable : stratum_notify(j)
    /\ UNCHANGED <<stratumVars, workerVars, queue, workioVars>>

(* Authorized. A client.reconnect that comes where the answer to             *)
(* extranonce.subscribe was due closes the connection, and the session is    *)
(* taken for up all the same.                                                *)
stratum_authorize ==
    /\ spc = "authorize"
    /\ spc' = "up"
    /\ sock' \in {sock, 0}
    /\ UNCHANGED <<conns, stratum_session, need_reset, stratum_down,
                   g_work_time, g_work, poolVars, workerVars, queue, workioVars>>

(* Refused, timed out or disconnected before the session is up. *)
HandshakeFails ==
    /\ spc = "authorize"
    /\ sock' = 0 /\ spc' = "top"
    /\ UNCHANGED <<conns, stratum_session, need_reset, stratum_down, g_work_time,
                   g_work, poolVars, workerVars, queue, workioVars>>

(* Subscribed and authorized: a new session. *)
Established ==
    /\ spc = "up"
    /\ stratum_session' = stratum_session + 1
    /\ spc' = "prime"
    /\ UNCHANGED <<sock, conns, need_reset, stratum_down, g_work_time, g_work,
                   poolVars, workerVars, queue, workioVars>>

(* "prime first job": one that came with the handshake is published. *)
PrimeFirstJob ==
    /\ spc = "prime"
    /\ IF new_job
       THEN stratum_gen_work /\ stratum_down' = FALSE
       ELSE UNCHANGED <<g_work, g_work_time, new_job, xnonce2, stratum_down>>
    /\ spc' = "top"
    /\ UNCHANGED <<sock, conns, stratum_session, need_reset, job, issued,
                   workerVars, queue, workioVars>>

ReceiveNotify ==
    /\ spc = "top" /\ ~need_reset /\ sock # 0
    /\ \E j \in Notifiable : stratum_notify(j)
    /\ stratum_down' = FALSE
    /\ spc' = "publish"
    /\ UNCHANGED <<sock, conns, stratum_session, need_reset, g_work_time, g_work,
                   workerVars, queue, workioVars>>

(* An answer, a difficulty, a ping, a notify that is refused. *)
ReceiveOther ==
    /\ spc = "top" /\ ~need_reset /\ sock # 0
    /\ stratum_down' = FALSE
    /\ spc' = "publish"
    /\ UNCHANGED <<sock, conns, stratum_session, need_reset, g_work_time, g_work,
                   poolVars, workerVars, queue, workioVars>>

(* client.reconnect closes the connection here and now, with no reset. *)
stratum_reconnect ==
    /\ spc = "top" /\ ~need_reset /\ sock # 0
    /\ sock' = 0 /\ stratum_down' = FALSE
    /\ spc' = "publish"
    /\ UNCHANGED <<conns, stratum_session, need_reset, g_work_time, g_work,
                   poolVars, workerVars, queue, workioVars>>

(* The connection failed, stayed quiet for opt_timeout, or (after a line was *)
(* handled) a keepalive found no share going out.                            *)
AskForReset ==
    /\ spc = "publish" \/ (spc = "top" /\ ~need_reset /\ sock # 0)
    /\ need_reset' = TRUE
    /\ spc' = "top"
    /\ UNCHANGED <<sock, conns, stratum_session, stratum_down, g_work_time, g_work,
                   poolVars, workerVars, queue, workioVars>>

(* End of the iteration: a job that was taken is published. *)
Publish ==
    /\ spc = "publish"
    /\ IF new_job
       THEN stratum_gen_work
       ELSE UNCHANGED <<g_work, g_work_time, new_job, xnonce2>>
    /\ spc' = "top"
    /\ UNCHANGED <<sock, conns, stratum_session, need_reset, stratum_down, job,
                   issued, workerVars, queue, workioVars>>

StratumStep ==
    \/ TopReset \/ ConnectLoop \/ DialSucceeds \/ DialFails
    \/ HandshakeNotify \/ stratum_authorize \/ HandshakeFails
    \/ Established \/ PrimeFirstJob
    \/ ReceiveNotify \/ ReceiveOther \/ stratum_reconnect \/ AskForReset \/ Publish

----------------------------------------------------------------------------
(* A mining thread. Where the code calls drain() the step that follows waits *)
(* for an empty pipeline and Reap empties it.                                *)

shared == <<stratumVars, poolVars, workioVars>>

NoticePark(w) ==
    /\ wpc[w] = "top" /\ parks < MaxParks
    /\ wpc' = [wpc EXCEPT ![w] = "park"]
    /\ parks' = parks + 1
    /\ UNCHANGED <<shared, work, counter, armed, nonce, kernel, inflight, tested,
                   rescans, queue>>

(* Drained: the kernel is given up; control_park returns when it will. *)
Park(w) ==
    /\ wpc[w] = "park" /\ inflight[w] = <<>>
    /\ kernel' = [kernel EXCEPT ![w] = FALSE]
    /\ wpc' = [wpc EXCEPT ![w] = "top"]
    /\ UNCHANGED <<shared, work, counter, armed, nonce, inflight, tested, rescans,
                   parks, queue>>

(* No job to mine: finish what the device has, and wait. *)
NoPool(w) ==
    /\ wpc[w] = "top" /\ (stratum_down \/ ~g_work_time)
    /\ wpc' = [wpc EXCEPT ![w] = "flush"]
    /\ UNCHANGED <<shared, work, counter, armed, nonce, kernel, inflight, tested,
                   rescans, parks, queue>>

Flushed(w) ==
    /\ wpc[w] = "flush" /\ inflight[w] = <<>>
    /\ wpc' = [wpc EXCEPT ![w] = "top"]
    /\ UNCHANGED <<shared, work, counter, armed, nonce, kernel, inflight, tested,
                   rescans, parks, queue>>

(* Mutant. *)
CheckEpoch_by_session(w) ==
    /\ wpc[w] = "top" /\ ~stratum_down /\ g_work_time
    /\ wpc' = [wpc EXCEPT ![w] = IF work[w].session # g_work.session
                                 THEN "copy" ELSE "ready"]
    /\ UNCHANGED <<shared, work, counter, armed, nonce, kernel, inflight, tested,
                   rescans, parks, queue>>

CheckEpoch(w) ==
    /\ wpc[w] = "top" /\ ~stratum_down /\ g_work_time
    /\ wpc' = [wpc EXCEPT ![w] = IF work[w].epoch # g_work.epoch
                                 THEN "copy" ELSE "ready"]
    /\ UNCHANGED <<shared, work, counter, armed, nonce, kernel, inflight, tested,
                   rescans, parks, queue>>

(* Drained: take whatever is newest. A job of another epoch gives the kernel *)
(* up, too.                                                                  *)
CopyWork(w) ==
    /\ wpc[w] = "copy" /\ inflight[w] = <<>>
    /\ work' = [work EXCEPT ![w] = g_work]
    /\ nonce' = [nonce EXCEPT ![w] = 0]
    /\ \E retarget \in BOOLEAN :
          kernel' = [kernel EXCEPT ![w] = @ /\ ~retarget]
    /\ wpc' = [wpc EXCEPT ![w] = "build"]
    /\ UNCHANGED <<shared, counter, armed, inflight, tested, rescans, parks, queue>>

(* Mutant. *)
Adopt_restarts_counter(w) ==
    /\ wpc[w] = "build"
    /\ kernel' = [kernel EXCEPT ![w] = TRUE]
    /\ counter' = [counter EXCEPT ![w] = w]
    /\ armed' = [armed EXCEPT ![w] = FALSE]
    /\ wpc' = [wpc EXCEPT ![w] = "ready"]
    /\ UNCHANGED <<shared, work, nonce, inflight, tested, rescans, parks, queue>>

(* The job has a kernel; the extranonce2 moves on and has to be armed. *)
Adopt(w) ==
    /\ wpc[w] = "build"
    /\ kernel' = [kernel EXCEPT ![w] = TRUE]
    /\ counter' = [counter EXCEPT ![w] = @ + N]
    /\ armed' = [armed EXCEPT ![w] = FALSE]
    /\ wpc' = [wpc EXCEPT ![w] = "ready"]
    /\ UNCHANGED <<shared, work, nonce, inflight, tested, rescans, parks, queue>>

(* give_up with a profile to go back to: round the loop, the rest skipped. *)
BuildFails(w) ==
    /\ wpc[w] \in {"build", "ready"} /\ ~kernel[w] /\ BuildMayFail
    /\ wpc' = [wpc EXCEPT ![w] = "top"]
    /\ UNCHANGED <<shared, work, counter, armed, nonce, kernel, inflight, tested,
                   rescans, parks, queue>>

(* Resumed from a park: the job is the old one, the kernel is gone. *)
Rebuild(w) ==
    /\ wpc[w] = "ready" /\ ~kernel[w]
    /\ kernel' = [kernel EXCEPT ![w] = TRUE]
    /\ UNCHANGED <<shared, wpc, work, counter, armed, nonce, inflight, tested,
                   rescans, parks, queue>>

(* Mutant. *)
Arm_undrained(w) ==
    /\ wpc[w] = "ready" /\ kernel[w] /\ ~armed[w]
    /\ IF job # NoJob /\ job.id = work[w].issue.id
       THEN /\ work' = [work EXCEPT ![w].header = [job |-> job, xn |-> counter[w]]]
            /\ xnonce2' = counter[w]
            /\ armed' = [armed EXCEPT ![w] = TRUE]
            /\ UNCHANGED wpc
       ELSE /\ wpc' = [wpc EXCEPT ![w] = "top"]
            /\ UNCHANGED <<work, xnonce2, armed>>
    /\ UNCHANGED <<stratumVars, job, new_job, issued, workioVars, counter, nonce,
                   kernel, inflight, tested, rescans, parks, queue>>

(* Mutant. *)
Arm_any_job(w) ==
    /\ wpc[w] = "ready" /\ kernel[w] /\ ~armed[w] /\ inflight[w] = <<>>
    /\ work' = [work EXCEPT ![w].header = [job |-> job, xn |-> counter[w]]]
    /\ xnonce2' = counter[w]
    /\ armed' = [armed EXCEPT ![w] = TRUE]
    /\ UNCHANGED <<stratumVars, job, new_job, issued, workioVars, wpc, counter,
                   nonce, kernel, inflight, tested, rescans, parks, queue>>

(* stratum_set_extranonce2, drained: the header is rebuilt on sctx->job if    *)
(* that still has this work's job id.                                        *)
Arm(w) ==
    /\ wpc[w] = "ready" /\ kernel[w] /\ ~armed[w] /\ inflight[w] = <<>>
    /\ IF job # NoJob /\ job.id = work[w].issue.id
       THEN /\ work' = [work EXCEPT ![w].header = [job |-> job, xn |-> counter[w]]]
            /\ xnonce2' = counter[w]
            /\ armed' = [armed EXCEPT ![w] = TRUE]
            /\ UNCHANGED wpc
       ELSE /\ wpc' = [wpc EXCEPT ![w] = "top"]
            /\ UNCHANGED <<work, xnonce2, armed>>
    /\ UNCHANGED <<stratumVars, job, new_job, issued, workioVars, counter, nonce,
                   kernel, inflight, tested, rescans, parks, queue>>

(* The range is exhausted: a fresh coinbase on the same job. *)
Roll(w) ==
    /\ wpc[w] = "ready" /\ kernel[w] /\ armed[w] /\ nonce[w] = Chunks
    /\ counter[w] + N <= MaxRolls
    /\ counter' = [counter EXCEPT ![w] = @ + N]
    /\ armed' = [armed EXCEPT ![w] = FALSE]
    /\ nonce' = [nonce EXCEPT ![w] = 0]
    /\ wpc' = [wpc EXCEPT ![w] = "top"]
    /\ UNCHANGED <<shared, work, kernel, inflight, tested, rescans, parks, queue>>

(* Bound: from MaxRolls on a range is never exhausted; its further batches    *)
(* are left out and the thread just goes round.                              *)
RangeGoesOn(w) ==
    /\ wpc[w] = "ready" /\ kernel[w] /\ armed[w] /\ nonce[w] = Chunks
    /\ counter[w] + N > MaxRolls
    /\ wpc' = [wpc EXCEPT ![w] = "top"]
    /\ UNCHANGED <<shared, work, counter, armed, nonce, kernel, inflight, tested,
                   rescans, parks, queue>>

(* Mutant. *)
Dispatch_never_reaps(w) ==
    /\ wpc[w] = "ready" /\ kernel[w] /\ armed[w] /\ nonce[w] < Chunks
    /\ inflight' = [inflight EXCEPT ![w] = Append(@, work[w].header)]
    /\ nonce' = [nonce EXCEPT ![w] = @ + 1]
    /\ wpc' = [wpc EXCEPT ![w] = "top"]
    /\ UNCHANGED <<shared, work, counter, armed, kernel, tested, rescans, parks,
                   queue>>

Dispatch(w) ==
    /\ wpc[w] = "ready" /\ kernel[w] /\ armed[w] /\ nonce[w] < Chunks
    /\ LET batch == <<w, work[w].header, nonce[w]>>
       IN  /\ tested' = IF Record THEN tested \cup {batch} ELSE tested
           /\ rescans' = IF batch \in tested THEN rescans + 1 ELSE rescans
    /\ inflight' = [inflight EXCEPT ![w] = Append(@, work[w].header)]
    /\ nonce' = [nonce EXCEPT ![w] = @ + 1]
    /\ wpc' = [wpc EXCEPT ![w] = IF Len(inflight[w]) + 1 >= Depth
                                 THEN "reap" ELSE "top"]
    /\ UNCHANGED <<shared, work, counter, armed, kernel, parks, queue>>

(* prepare_state, prepare_program or dispatch failed: drain, wait, go round. *)
DispatchFails(w) ==
    /\ wpc[w] = "ready" /\ kernel[w] /\ armed[w] /\ nonce[w] < Chunks
    /\ wpc' = [wpc EXCEPT ![w] = "flush"]
    /\ UNCHANGED <<shared, work, counter, armed, nonce, kernel, inflight, tested,
                   rescans, parks, queue>>

(* Whether the thread is inside drain(), or has a full pipeline to reap from. *)
Reaping(w) ==
    \/ wpc[w] \in {"park", "flush", "copy", "reap"}
    \/ wpc[w] = "ready" /\ kernel[w] /\ ~armed[w]

(* reap: the oldest dispatch comes back; a candidate the host confirms on    *)
(* this thread's own header is submitted as this thread's own work.          *)
Reap(w) ==
    /\ Reaping(w) /\ inflight[w] # <<>>
    /\ inflight' = [inflight EXCEPT ![w] = Tail(@)]
    /\ \E found \in BOOLEAN :
          IF /\ found /\ Head(inflight[w]) = work[w].header
             /\ Len(queue) + Cardinality(sent) + Cardinality(dropped) < MaxShares
          THEN queue' = Append(queue, [session |-> work[w].session,
                                       issue |-> work[w].issue,
                                       header |-> work[w].header])
          ELSE UNCHANGED queue
    /\ wpc' = [wpc EXCEPT ![w] = IF @ = "reap" THEN "top" ELSE @]
    /\ UNCHANGED <<shared, work, counter, armed, nonce, kernel, tested, rescans,
                   parks>>

(* The device failed that dispatch: it is retired and the rest is drained. *)
DeviceFails(w) ==
    /\ Reaping(w) /\ inflight[w] # <<>>
    /\ inflight' = [inflight EXCEPT ![w] = Tail(@)]
    /\ wpc' = [wpc EXCEPT ![w] = IF @ = "reap" THEN "flush" ELSE @]
    /\ UNCHANGED <<shared, work, counter, armed, nonce, kernel, tested, rescans,
                   parks, queue>>

WorkerStep(w) ==
    \/ NoticePark(w) \/ Park(w) \/ NoPool(w) \/ Flushed(w) \/ CheckEpoch(w)
    \/ CopyWork(w) \/ Adopt(w) \/ BuildFails(w) \/ Rebuild(w) \/ Arm(w)
    \/ Roll(w) \/ RangeGoesOn(w) \/ Dispatch(w) \/ DispatchFails(w) \/ Reap(w) \/ DeviceFails(w)

----------------------------------------------------------------------------
(* The workio thread.                                                       *)

PopShare ==
    /\ iopc = "idle" /\ queue # <<>>
    /\ cur' = Head(queue) /\ queue' = Tail(queue)
    /\ iopc' = "check"
    /\ UNCHANGED <<stratumVars, poolVars, workerVars, sent, dropped>>

(* Mutant. *)
CheckSession_by_job ==
    /\ iopc = "check"
    /\ IF cur.issue # job
       THEN iopc' = "idle" /\ dropped' = dropped \cup {cur}
       ELSE iopc' = "send" /\ UNCHANGED dropped
    /\ UNCHANGED <<stratumVars, poolVars, workerVars, queue, cur, sent>>

(* Each pass asks again whether the share's session is still the one up.     *)
CheckSession ==
    /\ iopc = "check"
    /\ IF cur.session # stratum_session
       THEN iopc' = "idle" /\ dropped' = dropped \cup {cur}
       ELSE iopc' = "send" /\ UNCHANGED dropped
    /\ UNCHANGED <<stratumVars, poolVars, workerVars, queue, cur, sent>>

(* stratum_send_line on whatever connection is open by now. *)
SendShare ==
    /\ iopc = "send" /\ sock # 0
    /\ sent' = sent \cup {[share |-> cur, conn |-> sock]}
    /\ iopc' = "idle"
    /\ UNCHANGED <<stratumVars, poolVars, workerVars, queue, cur, dropped>>

(* ... or it fails, and the next pass comes after a pause. *)
SendFails ==
    /\ iopc = "send"
    /\ iopc' = "check"
    /\ UNCHANGED <<stratumVars, poolVars, workerVars, queue, cur, sent, dropped>>

WorkioStep == PopShare \/ CheckSession \/ SendShare \/ SendFails

----------------------------------------------------------------------------
Next ==
    \/ StratumStep
    \/ \E w \in Worker : WorkerStep(w)
    \/ WorkioStep

Spec == Init /\ [][Next]_vars

(* Threads run: a mining thread's waits are sleeps of fixed length, a        *)
(* dispatch that does not come back is reported as failed by the kernel, and *)
(* every wait of the stratum thread ends by itself, one way or another.      *)
FairSpec == Spec /\ WF_vars(StratumStep)
                 /\ \A w \in Worker : WF_vars(WorkerStep(w))

----------------------------------------------------------------------------
(* Properties that hold.                                                    *)

(* Every variable has its type, and the pipeline its depth. *)
TypeOK ==
    /\ spc \in StratumPc /\ sock \in Nat /\ conns \in Nat
    /\ stratum_session \in Nat /\ need_reset \in BOOLEAN
    /\ stratum_down \in BOOLEAN /\ g_work_time \in BOOLEAN
    /\ job \in Job /\ new_job \in BOOLEAN /\ xnonce2 \in Nat
    /\ issued \subseteq Job /\ g_work \in Work
    /\ wpc \in [Worker -> WorkerPc] /\ work \in [Worker -> Work]
    /\ counter \in [Worker -> Nat] /\ armed \in [Worker -> BOOLEAN]
    /\ nonce \in [Worker -> Nat] /\ kernel \in [Worker -> BOOLEAN]
    /\ inflight \in [Worker -> Seq(Header)]
    /\ queue \in Seq(Share) /\ iopc \in WorkioPc /\ cur \in Share
    /\ rescans \in Nat /\ parks \in Nat
    /\ \A w \in Worker : Len(inflight[w]) <= Depth

(* worker.cpp on its deque of dispatches: "everything in flight was launched *)
(* under the one in work, because every point that changes work drains this  *)
(* first". A candidate is verified against, and submitted as, that header.   *)
InFlightUnderWork ==
    \A w \in Worker : \A i \in 1 .. Len(inflight[w]) :
        inflight[w][i] = work[w].header

(* Whatever is sent is a header and a target of one and the same job: the    *)
(* coinbase a worker rolls is the coinbase of the job whose id, target and   *)
(* session it submits under. It holds of pools that never use a job id       *)
(* twice; stratum_set_extranonce2 says it of all ("Rebuild work on the job   *)
(* it already holds [...] Returns false if that job is no longer the         *)
(* current one").                                                            *)
SharesAreOfOneJob ==
    /\ \A w \in Worker : work[w].header.job = work[w].issue
    /\ \A i \in 1 .. Len(queue) : queue[i].header.job = queue[i].issue

(* No worker tests a nonce of a header twice, however jobs are re-sent,      *)
(* connections lost and parks taken: a second find would be a duplicate.     *)
NothingTestedTwice == rescans = 0

(* A share is dropped as stale only when the connection its job came from is *)
(* closed: the session check never throws away one the pool would credit.    *)
DroppedSharesAreDead == \A s \in dropped : s.issue.conn # sock

(* While there is a published job to mine, it was published in the session    *)
(* that is up: nothing of an earlier connection is picked up by a worker     *)
(* between the end of one session and the first job of the next.             *)
PublishedWorkIsCurrent == g_work_time => g_work.session = stratum_session

(* The newest job is mined: unless the connection is down, again and again   *)
(* every worker holds the published job with a header of its own on it.      *)
NewestJobIsMined ==
    \A w \in Worker :
        []<>(\/ stratum_down \/ ~g_work_time
             \/ armed[w] /\ work[w].epoch = g_work.epoch)
=============================================================================

--------------------------- MODULE SessionProofs ---------------------------
(***************************************************************************)
(* What Session promises for any number of workers, any queue depth and    *)
(* any behaviour of the pool: the types, the pipeline invariant every      *)
(* submitted share rests on, and the freshness of published work.          *)
(***************************************************************************)
EXTENDS Session, FiniteSetTheorems, TLAPS

(* TypeOK, by the thread that owns the variables. *)
StratumType ==
    /\ spc \in StratumPc /\ sock \in Nat /\ conns \in Nat
    /\ stratum_session \in Nat /\ need_reset \in BOOLEAN
    /\ stratum_down \in BOOLEAN /\ g_work_time \in BOOLEAN /\ g_work \in Work

PoolType ==
    /\ job \in Job /\ new_job \in BOOLEAN /\ xnonce2 \in Nat
    /\ issued \subseteq Job /\ IsFiniteSet(issued)

WorkerType ==
    /\ wpc \in [Worker -> WorkerPc] /\ work \in [Worker -> Work]
    /\ counter \in [Worker -> Nat] /\ armed \in [Worker -> BOOLEAN]
    /\ nonce \in [Worker -> Nat] /\ kernel \in [Worker -> BOOLEAN]
    /\ inflight \in [Worker -> Seq(Header)]
    /\ rescans \in Nat /\ parks \in Nat

WorkioType ==
    /\ iopc \in WorkioPc /\ cur \in Share

Types == StratumType /\ PoolType /\ WorkerType /\ WorkioType /\ queue \in Seq(Share)

(* A pipeline is full only on the way to reaping it. *)
WithinDepth ==
    \A w \in Worker : /\ Len(inflight[w]) <= Depth
                      /\ wpc[w] # "reap" => Len(inflight[w]) < Depth

(* The inductive invariant: that a header changes only over an empty pipeline *)
(* is of use only while what is appended to the pipeline is that header.     *)
PipelineInv == Types /\ WithinDepth /\ InFlightUnderWork

----------------------------------------------------------------------------
(* The parts make up TypeOK. *)
LEMMA TypesAreTypeOK == PipelineInv => TypeOK
  BY DEF PipelineInv, Types, WithinDepth, TypeOK, StratumType, PoolType,
         WorkerType, WorkioType

(* The starting values have their types. *)
LEMMA NoneTyped == NoJob \in Job /\ NoWork \in Work /\ NoShare \in Share
  <1>1. NoJob \in Job
    BY DEF NoJob, Job
  <1>2. [job |-> NoJob, xn |-> 0] \in Header
    BY <1>1 DEF Header
  <1> QED
    BY <1>1, <1>2 DEF NoWork, NoShare, Work, Share

(* Every initial state satisfies the pipeline invariant. *)
LEMMA InitPipeline == Init => PipelineInv
  <1> SUFFICES ASSUME Init PROVE PipelineInv
    OBVIOUS
  <1>1. StratumType
    BY NoneTyped DEF Init, StratumType, StratumPc
  <1>2. PoolType
    BY NoneTyped, FS_EmptySet DEF Init, PoolType
  <1>3. WorkerType
    <2>1. wpc \in [Worker -> WorkerPc] /\ work \in [Worker -> Work]
      BY NoneTyped DEF Init, WorkerPc
    <2>2. counter \in [Worker -> Nat] /\ nonce \in [Worker -> Nat]
      BY SizeAssumption DEF Init, Worker
    <2>3. armed \in [Worker -> BOOLEAN] /\ kernel \in [Worker -> BOOLEAN]
      BY DEF Init
    <2>4. inflight \in [Worker -> Seq(Header)]
      BY DEF Init
    <2>5. rescans \in Nat /\ parks \in Nat
      BY DEF Init
    <2> QED
      BY <2>1, <2>2, <2>3, <2>4, <2>5 DEF WorkerType
  <1>4. WorkioType /\ queue \in Seq(Share)
    BY NoneTyped DEF Init, WorkioType, WorkioPc
  <1>5. WithinDepth /\ InFlightUnderWork
    BY SizeAssumption DEF Init, WithinDepth, InFlightUnderWork
  <1> QED
    BY <1>1, <1>2, <1>3, <1>4, <1>5 DEF PipelineInv, Types

----------------------------------------------------------------------------
(* A job the pool notifies is a job. *)
LEMMA NotifiableTyped ==
    ASSUME StratumType, PoolType, NEW j \in Notifiable
    PROVE  j \in Job
  <1>1. CASE j \in issued
    BY <1>1 DEF PoolType
  <1>2. CASE j \notin issued
    <2>1. Cardinality(issued) + 1 \in Nat
      BY FS_CardinalityType DEF PoolType
    <2>2. \E i \in (IF FreshIds THEN {Cardinality(issued) + 1} ELSE JobId) :
             j = [conn |-> sock, n |-> Cardinality(issued) + 1, id |-> i]
      BY <1>2 DEF Notifiable
    <2>3. \A i \in (IF FreshIds THEN {Cardinality(issued) + 1} ELSE JobId) : i \in Nat
      BY <2>1, SizeAssumption
    <2> QED
      BY <2>1, <2>2, <2>3 DEF StratumType, Job
  <1> QED
    BY <1>1, <1>2

(* Taking a notify keeps the job's variables in their types. *)
LEMMA NotifyTyped ==
    ASSUME StratumType, PoolType, \E j \in Notifiable : stratum_notify(j)
    PROVE  PoolType'
  <1>1. PICK j \in Notifiable : stratum_notify(j)
    OBVIOUS
  <1>2. j \in Job
    BY NotifiableTyped
  <1>3. IsFiniteSet(issued \cup {j})
    BY FS_AddElement DEF PoolType
  <1> QED
    BY <1>1, <1>2, <1>3 DEF PoolType, stratum_notify

(* So does publishing one, and the published work has its type. *)
LEMMA GenWorkTyped ==
    ASSUME StratumType, PoolType, stratum_gen_work
    PROVE  g_work' \in Work /\ g_work_time' = TRUE /\ new_job' = FALSE
           /\ xnonce2' \in Nat
  <1>1. [job |-> job, xn |-> xnonce2] \in Header
    BY DEF PoolType, Header
  <1>2. g_work.epoch + 1 \in Nat
    BY DEF StratumType, Work
  <1>3. g_work' \in Work
    BY <1>1, <1>2 DEF stratum_gen_work, StratumType, PoolType, Work
  <1>4. g_work_time' = TRUE /\ new_job' = FALSE /\ xnonce2' \in Nat
    BY DEF stratum_gen_work, PoolType
  <1> QED
    BY <1>3, <1>4

(* A step of the stratum thread keeps its own variables' types and the       *)
(* job's, and touches nothing of the other threads.                          *)
LEMMA StratumTyped ==
    ASSUME StratumType, PoolType, StratumStep
    PROVE  /\ StratumType' /\ PoolType'
           /\ UNCHANGED <<workerVars, workioVars, queue>>
  <1> USE DEF StratumPc, stratumVars, poolVars
  <1>1. CASE TopReset
    BY <1>1 DEF TopReset, StratumType, PoolType
  <1>2. CASE ConnectLoop
    BY <1>2 DEF ConnectLoop, StratumType, PoolType
  <1>3. CASE DialSucceeds
    BY <1>3 DEF DialSucceeds, StratumType, PoolType
  <1>4. CASE DialFails
    BY <1>4 DEF DialFails, StratumType, PoolType
  <1>5. CASE HandshakeNotify
    BY <1>5, NotifyTyped DEF HandshakeNotify, StratumType
  <1>6. CASE stratum_authorize
    BY <1>6 DEF stratum_authorize, StratumType, PoolType
  <1>7. CASE HandshakeFails
    BY <1>7 DEF HandshakeFails, StratumType, PoolType
  <1>8. CASE Established
    BY <1>8 DEF Established, StratumType, PoolType
  <1>9. CASE PrimeFirstJob
    <2>1. CASE new_job
      BY <1>9, <2>1, GenWorkTyped DEF PrimeFirstJob, StratumType, PoolType
    <2>2. CASE ~new_job
      BY <1>9, <2>2 DEF PrimeFirstJob, StratumType, PoolType
    <2> QED
      BY <2>1, <2>2
  <1>10. CASE ReceiveNotify
    BY <1>10, NotifyTyped DEF ReceiveNotify, StratumType
  <1>11. CASE ReceiveOther
    BY <1>11 DEF ReceiveOther, StratumType, PoolType
  <1>12. CASE stratum_reconnect
    BY <1>12 DEF stratum_reconnect, StratumType, PoolType
  <1>13. CASE AskForReset
    BY <1>13 DEF AskForReset, StratumType, PoolType
  <1>14. CASE Publish
    <2>1. CASE new_job
      BY <1>14, <2>1, GenWorkTyped DEF Publish, StratumType, PoolType
    <2>2. CASE ~new_job
      BY <1>14, <2>2 DEF Publish, StratumType, PoolType
    <2> QED
      BY <2>1, <2>2
  <1> QED
    BY <1>1, <1>2, <1>3, <1>4, <1>5, <1>6, <1>7, <1>8, <1>9, <1>10, <1>11,
       <1>12, <1>13, <1>14 DEF StratumStep

----------------------------------------------------------------------------
(* A worker that leaves its header and its pipeline alone, and was not about *)
(* to reap, keeps both halves of the invariant wherever it goes.             *)
LEMMA QuietStep ==
    ASSUME WorkerType, WithinDepth, InFlightUnderWork,
           NEW w \in Worker, NEW pc, wpc[w] # "reap",
           wpc' = [wpc EXCEPT ![w] = pc], UNCHANGED <<work, inflight>>
    PROVE  WithinDepth' /\ InFlightUnderWork'
  <1>1. InFlightUnderWork'
    BY DEF InFlightUnderWork
  <1>2. WithinDepth'
    BY DEF WithinDepth, WorkerType
  <1> QED
    BY <1>1, <1>2

(* A header may change over an empty pipeline. *)
LEMMA HeaderChange ==
    ASSUME WorkerType, WithinDepth, InFlightUnderWork,
           NEW w \in Worker, wpc[w] # "reap", inflight[w] = <<>>,
           NEW k, work' = [work EXCEPT ![w] = k],
           NEW pc, wpc' = [wpc EXCEPT ![w] = pc], UNCHANGED inflight
    PROVE  WithinDepth' /\ InFlightUnderWork'
  <1>1. InFlightUnderWork'
    <2> SUFFICES ASSUME NEW v \in Worker, NEW i \in 1 .. Len(inflight[v])
                 PROVE  inflight[v][i] = work'[v].header
      BY DEF InFlightUnderWork
    <2>1. v # w
      OBVIOUS
    <2> QED
      BY <2>1 DEF InFlightUnderWork, WorkerType
  <1>2. WithinDepth'
    BY DEF WithinDepth, WorkerType
  <1> QED
    BY <1>1, <1>2

(* The oldest dispatch may be retired at any time, and makes room. *)
LEMMA Retire ==
    ASSUME WorkerType, WithinDepth, InFlightUnderWork,
           NEW w \in Worker, inflight[w] # <<>>,
           inflight' = [inflight EXCEPT ![w] = Tail(@)],
           NEW pc, wpc' = [wpc EXCEPT ![w] = pc], UNCHANGED work
    PROVE  /\ WithinDepth' /\ InFlightUnderWork'
           /\ inflight' \in [Worker -> Seq(Header)]
  <1> DEFINE s == inflight[w]
  <1>1. s \in Seq(Header) /\ s # <<>>
    BY DEF WorkerType
  <1>2. /\ Tail(s) \in Seq(Header) /\ Len(Tail(s)) = Len(s) - 1
        /\ Len(s) \in Nat \ {0}
        /\ \A i \in 1 .. Len(s) - 1 : Tail(s)[i] = s[i + 1]
    BY <1>1
  <1>3. inflight' \in [Worker -> Seq(Header)]
    BY <1>2 DEF WorkerType
  <1>4. inflight'[w] = Tail(s) /\ \A v \in Worker \ {w} : inflight'[v] = inflight[v]
    BY DEF WorkerType
  <1> HIDE DEF s
  <1>5. InFlightUnderWork'
    <2> SUFFICES ASSUME NEW v \in Worker, NEW i \in 1 .. Len(inflight'[v])
                 PROVE  inflight'[v][i] = work[v].header
      BY DEF InFlightUnderWork
    <2>1. CASE v = w
      <3>0. inflight'[v] = Tail(s)
        BY <2>1, <1>4
      <3>1. i + 1 \in 1 .. Len(s) /\ inflight'[v][i] = s[i + 1]
        <4>1. i \in 1 .. Len(s) - 1
          BY <3>0, <1>2
        <4>2. i + 1 \in 1 .. Len(s)
          BY <4>1, <1>2
        <4>3. Tail(s)[i] = s[i + 1]
          BY <4>1, <1>2
        <4> QED
          BY <3>0, <4>2, <4>3
      <3>2. \A k \in 1 .. Len(s) : s[k] = work[w].header
        BY DEF InFlightUnderWork, s
      <3>3. s[i + 1] = work[w].header
        BY <3>1, <3>2
      <3> QED
        BY <2>1, <3>1, <3>3
    <2>2. CASE v # w
      BY <2>2, <1>4 DEF InFlightUnderWork
    <2> QED
      BY <2>1, <2>2
  <1>6. WithinDepth'
    <2> SUFFICES ASSUME NEW v \in Worker
                 PROVE  /\ Len(inflight'[v]) <= Depth
                        /\ wpc'[v] # "reap" => Len(inflight'[v]) < Depth
      BY DEF WithinDepth
    <2>1. CASE v = w
      <3>1. Len(s) <= Depth
        BY DEF WithinDepth, s
      <3>2. Len(inflight'[v]) = Len(s) - 1
        BY <2>1, <1>2, <1>4
      <3>3. Len(s) \in Nat \ {0}
        BY <1>2
      <3> QED
        BY <3>1, <3>2, <3>3, SizeAssumption
    <2>2. CASE v # w
      BY <2>2, <1>4 DEF WithinDepth, WorkerType
    <2> QED
      BY <2>1, <2>2
  <1> QED
    BY <1>3, <1>5, <1>6

(* A dispatch of the header in work may be added where there is room. *)
LEMMA Launch ==
    ASSUME WorkerType, WithinDepth, InFlightUnderWork,
           NEW w \in Worker, wpc[w] # "reap",
           inflight' = [inflight EXCEPT ![w] = Append(@, work[w].header)],
           wpc' = [wpc EXCEPT ![w] = IF Len(inflight[w]) + 1 >= Depth
                                     THEN "reap" ELSE "top"],
           UNCHANGED work
    PROVE  /\ WithinDepth' /\ InFlightUnderWork'
           /\ inflight' \in [Worker -> Seq(Header)]
  <1> DEFINE s == inflight[w]
             h == work[w].header
  <1>1. s \in Seq(Header) /\ h \in Header
    BY DEF WorkerType, Work
  <1>2. /\ Append(s, h) \in Seq(Header) /\ Len(Append(s, h)) = Len(s) + 1
        /\ Len(s) \in Nat
        /\ \A i \in 1 .. Len(s) : Append(s, h)[i] = s[i]
        /\ Append(s, h)[Len(s) + 1] = h
    BY <1>1
  <1>3. inflight' \in [Worker -> Seq(Header)]
    BY <1>2 DEF WorkerType
  <1>4. /\ inflight'[w] = Append(s, h)
        /\ \A v \in Worker \ {w} : inflight'[v] = inflight[v]
    BY DEF WorkerType
  <1> HIDE DEF s, h
  <1>5. InFlightUnderWork'
    <2> SUFFICES ASSUME NEW v \in Worker, NEW i \in 1 .. Len(inflight'[v])
                 PROVE  inflight'[v][i] = work[v].header
      BY DEF InFlightUnderWork
    <2>1. CASE v = w /\ i <= Len(s)
      <3>1. i \in 1 .. Len(s)
        BY <2>1, <1>2
      <3>2. inflight'[v][i] = s[i]
        BY <2>1, <3>1, <1>2, <1>4
      <3> QED
        BY <3>1, <3>2, <2>1 DEF InFlightUnderWork, s
    <2>2. CASE v = w /\ ~(i <= Len(s))
      <3>1. i = Len(s) + 1
        BY <2>2, <1>2, <1>4
      <3> QED
        BY <3>1, <2>2, <1>2, <1>4 DEF h
    <2>3. CASE v # w
      BY <2>3, <1>4 DEF InFlightUnderWork
    <2> QED
      BY <2>1, <2>2, <2>3
  <1>6. WithinDepth'
    <2> SUFFICES ASSUME NEW v \in Worker
                 PROVE  /\ Len(inflight'[v]) <= Depth
                        /\ wpc'[v] # "reap" => Len(inflight'[v]) < Depth
      BY DEF WithinDepth
    <2>1. CASE v = w
      <3>1. Len(s) < Depth /\ Len(inflight'[v]) = Len(s) + 1
        BY <2>1, <1>2, <1>4 DEF WithinDepth, s
      <3>2. wpc'[v] = IF Len(s) + 1 >= Depth THEN "reap" ELSE "top"
        BY <2>1 DEF WorkerType, s
      <3> QED
        BY <3>1, <3>2, <1>2, SizeAssumption
    <2>2. CASE v # w
      BY <2>2, <1>4 DEF WithinDepth, WorkerType
    <2> QED
      BY <2>1, <2>2
  <1> QED
    BY <1>3, <1>5, <1>6

----------------------------------------------------------------------------
(* The steps of a worker that only move it, or its bookkeeping. *)
QuietWork(w) ==
    \/ NoticePark(w) \/ Park(w) \/ NoPool(w) \/ Flushed(w) \/ CheckEpoch(w)
    \/ Adopt(w) \/ BuildFails(w) \/ Rebuild(w) \/ Roll(w) \/ RangeGoesOn(w)
    \/ DispatchFails(w)

(* They keep the types, and neither header nor pipeline is touched. *)
LEMMA QuietWorkKeeps ==
    ASSUME PipelineInv, NEW w \in Worker, QuietWork(w)
    PROVE  /\ WorkerType' /\ WithinDepth' /\ InFlightUnderWork'
           /\ UNCHANGED <<shared, queue>>
  <1> USE DEF WorkerPc
  <1>0. WorkerType /\ WithinDepth /\ InFlightUnderWork
    BY DEF PipelineInv, Types
  <1>1. /\ wpc[w] # "reap" /\ UNCHANGED <<work, inflight>>
        /\ \E pc \in WorkerPc : wpc' = [wpc EXCEPT ![w] = pc]
    <2>1. wpc = [wpc EXCEPT ![w] = wpc[w]] /\ wpc[w] \in WorkerPc
      BY <1>0 DEF WorkerType
    <2> QED
      BY <2>1 DEF QuietWork, NoticePark, Park, NoPool, Flushed, CheckEpoch,
          Adopt, BuildFails, Rebuild, Roll, RangeGoesOn, DispatchFails
  <1>2. WithinDepth' /\ InFlightUnderWork'
    BY <1>0, <1>1, QuietStep
  <1>3. /\ UNCHANGED <<shared, queue, tested, rescans>> /\ parks' \in {parks, parks + 1}
        /\ \/ UNCHANGED kernel
           \/ kernel' = [kernel EXCEPT ![w] = TRUE]
           \/ kernel' = [kernel EXCEPT ![w] = FALSE]
        /\ \/ UNCHANGED counter
           \/ counter' = [counter EXCEPT ![w] = @ + N]
        /\ \/ UNCHANGED armed
           \/ armed' = [armed EXCEPT ![w] = FALSE]
        /\ \/ UNCHANGED nonce
           \/ nonce' = [nonce EXCEPT ![w] = 0]
    BY DEF QuietWork, NoticePark, Park, NoPool, Flushed, CheckEpoch,
          Adopt, BuildFails, Rebuild, Roll, RangeGoesOn, DispatchFails
  <1>4. wpc' \in [Worker -> WorkerPc]
    BY <1>0, <1>1 DEF WorkerType
  <1>5. kernel' \in [Worker -> BOOLEAN] /\ armed' \in [Worker -> BOOLEAN]
    BY <1>0, <1>3 DEF WorkerType
  <1>6. counter' \in [Worker -> Nat] /\ nonce' \in [Worker -> Nat]
    <2>1. counter[w] + N \in Nat /\ 0 \in Nat
      BY <1>0, SizeAssumption DEF WorkerType
    <2>2. counter' \in [Worker -> Nat]
      BY <1>0, <1>3, <2>1 DEF WorkerType
    <2>3. nonce' \in [Worker -> Nat]
      BY <1>0, <1>3, <2>1 DEF WorkerType
    <2> QED
      BY <2>2, <2>3
  <1>7. work' \in [Worker -> Work] /\ inflight' \in [Worker -> Seq(Header)]
    BY <1>0, <1>1 DEF WorkerType
  <1>8. rescans' \in Nat /\ parks' \in Nat
    BY <1>0, <1>3 DEF WorkerType
  <1> QED
    BY <1>2, <1>3, <1>4, <1>5, <1>6, <1>7, <1>8 DEF WorkerType

(* CopyWork: drained, so the header in work may become the published one. *)
LEMMA CopyWorkKeeps ==
    ASSUME PipelineInv, NEW w \in Worker, CopyWork(w)
    PROVE  /\ WorkerType' /\ WithinDepth' /\ InFlightUnderWork'
           /\ UNCHANGED <<shared, queue>>
  <1>0. WorkerType /\ WithinDepth /\ InFlightUnderWork /\ g_work \in Work
    BY DEF PipelineInv, Types, StratumType
  <1>1. WithinDepth' /\ InFlightUnderWork'
    BY <1>0, HeaderChange DEF CopyWork
  <1>2. PICK retarget \in BOOLEAN : kernel' = [kernel EXCEPT ![w] = @ /\ ~retarget]
    BY DEF CopyWork
  <1>3. (kernel[w] /\ ~retarget) \in BOOLEAN
    OBVIOUS
  <1>4. kernel' \in [Worker -> BOOLEAN]
    BY <1>0, <1>2, <1>3, Zenon DEF WorkerType
  <1>5. wpc' \in [Worker -> WorkerPc] /\ work' \in [Worker -> Work]
        /\ nonce' \in [Worker -> Nat]
    BY <1>0 DEF WorkerType, CopyWork, WorkerPc
  <1> QED
    BY <1>0, <1>1, <1>4, <1>5 DEF WorkerType, CopyWork

(* Arm: drained, so the header in work may be rebuilt. *)
LEMMA ArmKeeps ==
    ASSUME PipelineInv, NEW w \in Worker, Arm(w)
    PROVE  /\ WorkerType' /\ WithinDepth' /\ InFlightUnderWork' /\ PoolType'
           /\ UNCHANGED <<stratumVars, workioVars, queue>>
  <1>0. WorkerType /\ WithinDepth /\ InFlightUnderWork /\ PoolType
    BY DEF PipelineInv, Types
  <1> DEFINE h == [job |-> job, xn |-> counter[w]]
             k == [work[w] EXCEPT !.header = h]
  <1>1. CASE job # NoJob /\ job.id = work[w].issue.id
    <2>1. h \in Header /\ counter[w] \in Nat
      BY <1>0 DEF WorkerType, PoolType, Header
    <2>2. k \in Work
      BY <1>0, <2>1 DEF WorkerType, Work
    <2>3. work' = [work EXCEPT ![w] = k]
      BY <1>1, <1>0 DEF Arm, WorkerType
    <2>4. wpc' = [wpc EXCEPT ![w] = wpc[w]]
      BY <1>1, <1>0 DEF Arm, WorkerType
    <2>5. inflight' = inflight /\ wpc[w] # "reap" /\ inflight[w] = <<>>
      BY DEF Arm
    <2> HIDE DEF k, h
    <2>6. WithinDepth' /\ InFlightUnderWork'
      BY <1>0, <2>3, <2>4, <2>5, HeaderChange
    <2>7. work' \in [Worker -> Work]
      BY <1>0, <2>2, <2>3 DEF WorkerType
    <2>8. armed' \in [Worker -> BOOLEAN] /\ xnonce2' \in Nat
      BY <1>0, <1>1, <2>1 DEF Arm, WorkerType
    <2>9. UNCHANGED <<stratumVars, workioVars, queue, wpc, counter, nonce, kernel,
                      inflight, rescans, parks, job, new_job, issued>>
      BY <1>1 DEF Arm
    <2> QED
      BY <1>0, <2>6, <2>7, <2>8, <2>9 DEF WorkerType, PoolType
  <1>2. CASE ~(job # NoJob /\ job.id = work[w].issue.id)
    <2>1. /\ wpc' = [wpc EXCEPT ![w] = "top"] /\ wpc[w] # "reap"
          /\ UNCHANGED <<work, inflight>>
      BY <1>2 DEF Arm
    <2>2. WithinDepth' /\ InFlightUnderWork'
      BY <1>0, <2>1, QuietStep
    <2>3. UNCHANGED <<stratumVars, workioVars, queue, counter, nonce, kernel, armed,
                      xnonce2, rescans, parks, job, new_job, issued>>
      BY <1>2 DEF Arm
    <2> QED
      BY <1>0, <2>1, <2>2, <2>3 DEF WorkerType, PoolType, WorkerPc
  <1> QED
    BY <1>1, <1>2

(* Dispatch: the header in work joins the pipeline. *)
LEMMA DispatchKeeps ==
    ASSUME PipelineInv, NEW w \in Worker, Dispatch(w)
    PROVE  /\ WorkerType' /\ WithinDepth' /\ InFlightUnderWork'
           /\ UNCHANGED <<shared, queue>>
  <1>0. WorkerType /\ WithinDepth /\ InFlightUnderWork
    BY DEF PipelineInv, Types
  <1>1. WithinDepth' /\ InFlightUnderWork' /\ inflight' \in [Worker -> Seq(Header)]
    BY <1>0, Launch DEF Dispatch
  <1>2. wpc' \in [Worker -> WorkerPc]
    BY <1>0 DEF WorkerType, Dispatch, WorkerPc
  <1>3. nonce' \in [Worker -> Nat]
    <2>1. nonce[w] + 1 \in Nat
      BY <1>0 DEF WorkerType
    <2> QED
      BY <1>0, <2>1 DEF WorkerType, Dispatch
  <1>4. rescans' \in Nat
    BY <1>0 DEF WorkerType, Dispatch
  <1>5. UNCHANGED <<shared, queue, work, counter, armed, kernel, parks>>
    BY DEF Dispatch
  <1> QED
    BY <1>0, <1>1, <1>2, <1>3, <1>4, <1>5 DEF WorkerType

(* Reap and DeviceFails: the oldest dispatch is retired, and what is queued  *)
(* is a share.                                                               *)
LEMMA ReapKeeps ==
    ASSUME PipelineInv, NEW w \in Worker, Reap(w) \/ DeviceFails(w)
    PROVE  /\ WorkerType' /\ WithinDepth' /\ InFlightUnderWork'
           /\ queue' \in Seq(Share) /\ UNCHANGED shared
  <1>0. WorkerType /\ WithinDepth /\ InFlightUnderWork /\ queue \in Seq(Share)
    BY DEF PipelineInv, Types
  <1>1. PICK pc \in WorkerPc : wpc' = [wpc EXCEPT ![w] = pc]
    <2>1. wpc[w] \in WorkerPc
      BY <1>0 DEF WorkerType
    <2> QED
      BY <2>1 DEF Reap, DeviceFails, WorkerPc
  <1>2. /\ inflight[w] # <<>> /\ inflight' = [inflight EXCEPT ![w] = Tail(@)]
        /\ UNCHANGED <<shared, work, counter, armed, nonce, kernel, rescans, parks>>
    BY DEF Reap, DeviceFails
  <1>3. WithinDepth' /\ InFlightUnderWork' /\ inflight' \in [Worker -> Seq(Header)]
    BY <1>0, <1>1, <1>2, Retire
  <1>4. WorkerType'
    <2>1. wpc' \in [Worker -> WorkerPc]
      BY <1>0, <1>1 DEF WorkerType
    <2> QED
      BY <1>0, <1>2, <1>3, <2>1 DEF WorkerType
  <1>5. queue' \in Seq(Share)
    <2> DEFINE share == [session |-> work[w].session, issue |-> work[w].issue,
                         header |-> work[w].header]
    <2>1. share \in Share
      BY <1>0 DEF WorkerType, Work, Share
    <2>2. queue' = queue \/ queue' = Append(queue, share)
      BY DEF Reap, DeviceFails
    <2> HIDE DEF share
    <2> QED
      BY <1>0, <2>1, <2>2
  <1> QED
    BY <1>2, <1>3, <1>4, <1>5

(* A step of the workio thread keeps the types and touches nothing else. *)
LEMMA WorkioTyped ==
    ASSUME WorkioType, queue \in Seq(Share), WorkioStep
    PROVE  /\ WorkioType' /\ queue' \in Seq(Share)
           /\ UNCHANGED <<stratumVars, poolVars, workerVars>>
  <1> USE DEF WorkioPc, WorkioType
  <1>1. CASE PopShare
    <2>1. Head(queue) \in Share /\ Tail(queue) \in Seq(Share)
      BY <1>1 DEF PopShare
    <2> QED
      BY <1>1, <2>1 DEF PopShare
  <1>2. CASE CheckSession
    BY <1>2 DEF CheckSession
  <1>3. CASE SendShare
    BY <1>3 DEF SendShare
  <1>4. CASE SendFails
    BY <1>4 DEF SendFails
  <1> QED
    BY <1>1, <1>2, <1>3, <1>4 DEF WorkioStep

(* Every step, of any thread, keeps the pipeline invariant. *)
LEMMA StepPipeline == PipelineInv /\ [Next]_vars => PipelineInv'
  <1> SUFFICES ASSUME PipelineInv, [Next]_vars PROVE PipelineInv'
    OBVIOUS
  <1>0. Types /\ WithinDepth /\ InFlightUnderWork
    BY DEF PipelineInv
  <1>1. CASE StratumStep
    <2>1. StratumType' /\ PoolType' /\ UNCHANGED <<workerVars, workioVars, queue>>
      BY <1>0, <1>1, StratumTyped DEF Types
    <2>2. WorkerType' /\ WithinDepth' /\ InFlightUnderWork'
      BY <1>0, <2>1 DEF Types, workerVars, WorkerType, WithinDepth, InFlightUnderWork
    <2>3. WorkioType' /\ queue' \in Seq(Share)
      BY <1>0, <2>1 DEF Types, workioVars, WorkioType
    <2> QED
      BY <2>1, <2>2, <2>3 DEF PipelineInv, Types
  <1>2. CASE \E w \in Worker : WorkerStep(w)
    <2> PICK w \in Worker : WorkerStep(w)
      BY <1>2
    <2>1. /\ WorkerType' /\ WithinDepth' /\ InFlightUnderWork'
          /\ UNCHANGED <<stratumVars, workioVars>>
          /\ PoolType' /\ queue' \in Seq(Share)
      <3>1. CASE QuietWork(w)
        BY <3>1, <1>0, QuietWorkKeeps DEF shared, poolVars, Types, PoolType
      <3>2. CASE CopyWork(w)
        BY <3>2, <1>0, CopyWorkKeeps DEF shared, poolVars, Types, PoolType
      <3>3. CASE Arm(w)
        BY <3>3, <1>0, ArmKeeps DEF Types
      <3>4. CASE Dispatch(w)
        BY <3>4, <1>0, DispatchKeeps DEF shared, poolVars, Types, PoolType
      <3>5. CASE Reap(w) \/ DeviceFails(w)
        BY <3>5, <1>0, ReapKeeps DEF shared, poolVars, Types, PoolType
      <3> QED
        BY <3>1, <3>2, <3>3, <3>4, <3>5 DEF WorkerStep, QuietWork
    <2>2. StratumType' /\ WorkioType'
      BY <1>0, <2>1 DEF Types, stratumVars, workioVars, StratumType, WorkioType
    <2> QED
      BY <2>1, <2>2 DEF PipelineInv, Types
  <1>3. CASE WorkioStep
    <2>1. /\ WorkioType' /\ queue' \in Seq(Share)
          /\ UNCHANGED <<stratumVars, poolVars, workerVars>>
      BY <1>0, <1>3, WorkioTyped DEF Types
    <2>2. WorkerType' /\ WithinDepth' /\ InFlightUnderWork'
      BY <1>0, <2>1 DEF Types, workerVars, WorkerType, WithinDepth, InFlightUnderWork
    <2>3. StratumType' /\ PoolType'
      BY <1>0, <2>1 DEF Types, stratumVars, poolVars, StratumType, PoolType
    <2> QED
      BY <2>1, <2>2, <2>3 DEF PipelineInv, Types
  <1>4. CASE UNCHANGED vars
    BY <1>0, <1>4 DEF vars, PipelineInv, Types, StratumType, PoolType, WorkerType,
       WorkioType, WithinDepth, InFlightUnderWork
  <1> QED
    BY <1>1, <1>2, <1>3, <1>4 DEF Next

(* Every variable keeps its type, and no worker has more dispatches in flight *)
(* than its kernel has slots, for any number of workers and any depth.       *)
THEOREM SessionTypeCorrect == Spec => []TypeOK
  BY InitPipeline, StepPipeline, TypesAreTypeOK, PTL DEF Spec

(* Every outstanding dispatch hashes the header in its worker's work, the one *)
(* a candidate is verified against and submitted as: every point of the      *)
(* mining loop that changes work drains the pipeline first.                  *)
THEOREM DispatchesHashTheirWork == Spec => []InFlightUnderWork
  <1>1. PipelineInv => InFlightUnderWork
    BY DEF PipelineInv
  <1> QED
    BY <1>1, InitPipeline, StepPipeline, PTL DEF Spec

----------------------------------------------------------------------------
(* What PublishedWorkIsCurrent rests on: from the connect loop to the first  *)
(* job of the new session nothing is published, so the session is counted up *)
(* over a cleared g_work_time.                                               *)
NothingPublishedYet ==
    spc \in {"dial", "authorize", "up", "prime"} => ~g_work_time

(* The work a worker can pick up is always of the session that is up.        *)
THEOREM NoWorkOfAnEarlierSession == Spec => []PublishedWorkIsCurrent
  <1> DEFINE Inv == NothingPublishedYet /\ PublishedWorkIsCurrent
  <1>1. Init => Inv
    BY DEF Init, NothingPublishedYet, PublishedWorkIsCurrent
  <1>2. Inv /\ [Next]_vars => Inv'
    <2> SUFFICES ASSUME Inv, [Next]_vars PROVE Inv'
      OBVIOUS
    <2> USE DEF NothingPublishedYet, PublishedWorkIsCurrent
    <2>1. CASE StratumStep
      <3>1. CASE TopReset \/ ConnectLoop \/ DialSucceeds \/ DialFails
        BY <3>1 DEF TopReset, ConnectLoop, DialSucceeds, DialFails
      <3>2. CASE HandshakeNotify \/ stratum_authorize \/ HandshakeFails \/ Established
        BY <3>2 DEF HandshakeNotify, stratum_authorize, HandshakeFails, Established,
                    stratumVars
      <3>3. CASE PrimeFirstJob \/ Publish
        BY <3>3 DEF PrimeFirstJob, Publish, stratum_gen_work
      <3>4. CASE \/ ReceiveNotify \/ ReceiveOther \/ stratum_reconnect \/ AskForReset
        BY <3>4 DEF ReceiveNotify, ReceiveOther, stratum_reconnect, AskForReset
      <3> QED
        BY <2>1, <3>1, <3>2, <3>3, <3>4 DEF StratumStep
    <2>2. CASE \E w \in Worker : WorkerStep(w)
      <3>1. UNCHANGED stratumVars
        BY <2>2 DEF WorkerStep, NoticePark, Park, NoPool, Flushed, CheckEpoch,
           CopyWork, Adopt, BuildFails, Rebuild, Arm, Roll, RangeGoesOn, Dispatch,
           DispatchFails, Reap, DeviceFails, shared
      <3> QED
        BY <3>1 DEF stratumVars
    <2>3. CASE WorkioStep
      BY <2>3 DEF WorkioStep, PopShare, CheckSession, SendShare, SendFails, stratumVars
    <2>4. CASE UNCHANGED vars
      BY <2>4 DEF vars
    <2> QED
      BY <2>1, <2>2, <2>3, <2>4 DEF Next
  <1>3. Inv => PublishedWorkIsCurrent
    OBVIOUS
  <1> QED
    BY <1>1, <1>2, <1>3, PTL DEF Spec

----------------------------------------------------------------------------
(* With a pool that uses a job id once, the id is the job's number, so two    *)
(* jobs of one id are one job: what stratum_set_extranonce2 takes for        *)
(* granted when it compares ids.                                             *)
JobBook ==
    /\ \A j \in issued : j.id = j.n /\ j.n \in 1 .. Cardinality(issued)
    /\ \A i, j \in issued : i.n = j.n => i = j

JobsKnown ==
    /\ job \in issued \cup {NoJob}
    /\ g_work.issue \in issued \cup {NoJob} /\ g_work.header.job = g_work.issue
    /\ \A w \in Worker : work[w].issue \in issued \cup {NoJob}

OneJobInv == JobBook /\ JobsKnown /\ SharesAreOfOneJob

(* Taking a notify keeps the book: a job that is new has a number of its own. *)
LEMMA NotifyBook ==
    ASSUME FreshIds, Types, JobBook, \E j \in Notifiable : stratum_notify(j)
    PROVE  JobBook' /\ issued \subseteq issued' /\ job' \in issued'
  <1> DEFINE c == Cardinality(issued)
  <1>0. IsFiniteSet(issued) /\ c \in Nat
    BY FS_CardinalityType DEF Types, PoolType
  <1>1. PICK j \in Notifiable : stratum_notify(j)
    OBVIOUS
  <1>2. issued' = issued \cup {j} /\ job' = j
    BY <1>1 DEF stratum_notify
  <1>3. CASE j \in issued
    <2>1. issued' = issued
      BY <1>2, <1>3
    <2> QED
      BY <1>2, <1>3, <2>1 DEF JobBook
  <1>4. CASE j \notin issued
    <2>1. j = [conn |-> sock, n |-> c + 1, id |-> c + 1]
      BY <1>4 DEF Notifiable
    <2>2. Cardinality(issued \cup {j}) = c + 1
      BY <1>0, <1>4, FS_AddElement, Zenon
    <2>3. Cardinality(issued') = c + 1
      BY <1>2, <2>2
    <2>4. j.id = c + 1 /\ j.n = c + 1
      BY <2>1
    <2> HIDE DEF c
    <2>5. \A i \in issued : i.id = i.n /\ i.n \in 1 .. c
      BY DEF JobBook, c
    <2>6. \A i \in issued' : i.id = i.n /\ i.n \in 1 .. Cardinality(issued')
      BY <1>0, <1>2, <2>3, <2>4, <2>5
    <2>7. \A i, k \in issued' : i.n = k.n => i = k
      BY <1>0, <1>2, <2>4, <2>5 DEF JobBook
    <2> QED
      BY <1>2, <2>6, <2>7 DEF JobBook
  <1> QED
    BY <1>3, <1>4

(* A step of the stratum thread keeps it all. *)
LEMMA StratumOneJob ==
    ASSUME FreshIds, Types, OneJobInv, StratumStep
    PROVE  OneJobInv'
  <1>1. UNCHANGED <<work, queue>>
    BY StratumTyped DEF Types, workerVars
  <1>2. SharesAreOfOneJob'
    BY <1>1 DEF OneJobInv, SharesAreOfOneJob
  <1>3. CASE HandshakeNotify \/ ReceiveNotify
    <2>1. JobBook' /\ issued \subseteq issued' /\ job' \in issued'
      BY <1>3, NotifyBook DEF HandshakeNotify, ReceiveNotify, OneJobInv
    <2>2. UNCHANGED g_work
      BY <1>3 DEF HandshakeNotify, ReceiveNotify, stratumVars
    <2> QED
      BY <1>1, <1>2, <2>1, <2>2 DEF OneJobInv, JobsKnown
  <1>4. CASE (PrimeFirstJob \/ Publish) /\ new_job
    <2>1. /\ g_work'.issue = job /\ g_work'.header.job = job
          /\ UNCHANGED <<job, issued>>
      BY <1>4 DEF PrimeFirstJob, Publish, stratum_gen_work
    <2> QED
      BY <1>1, <1>2, <2>1 DEF OneJobInv, JobsKnown, JobBook
  <1>5. CASE ~(HandshakeNotify \/ ReceiveNotify)
             /\ ~((PrimeFirstJob \/ Publish) /\ new_job)
    <2>1. UNCHANGED <<job, issued, g_work>>
      BY <1>5 DEF StratumStep, TopReset, ConnectLoop, DialSucceeds, DialFails,
         stratum_authorize, HandshakeFails, Established, PrimeFirstJob, ReceiveOther,
         stratum_reconnect, AskForReset, Publish, poolVars
    <2> QED
      BY <1>1, <1>2, <2>1 DEF OneJobInv, JobsKnown, JobBook
  <1> QED
    BY <1>3, <1>4, <1>5

(* A step of a worker: what it copies is of one job, what it rebuilds stays   *)
(* of the job it has, and what it queues is its work.                        *)
LEMMA WorkerOneJob ==
    ASSUME Types, OneJobInv, NEW w \in Worker, WorkerStep(w)
    PROVE  OneJobInv'
  <1>0. work \in [Worker -> Work] /\ queue \in Seq(Share)
    BY DEF Types, WorkerType
  <1>1. CASE CopyWork(w)
    <2>1. /\ work' = [work EXCEPT ![w] = g_work]
          /\ UNCHANGED <<job, issued, g_work, queue>>
      BY <1>1 DEF CopyWork, shared, stratumVars, poolVars
    <2> QED
      BY <1>0, <2>1 DEF OneJobInv, JobBook, JobsKnown, SharesAreOfOneJob
  <1>2. CASE Arm(w)
    <2>1. UNCHANGED <<job, issued, g_work, queue>>
      BY <1>2 DEF Arm, stratumVars
    <2>2. CASE job # NoJob /\ job.id = work[w].issue.id
      <3>1. job \in issued /\ job.id \in Nat
        BY <2>2 DEF OneJobInv, JobsKnown, JobBook
      <3>2. work[w].issue \in issued
        BY <2>2, <3>1 DEF OneJobInv, JobsKnown, NoJob
      <3>3. work[w].issue = job
        BY <2>2, <3>1, <3>2 DEF OneJobInv, JobBook
      <3>4. work' = [work EXCEPT ![w].header = [job |-> job, xn |-> counter[w]]]
        BY <1>2, <2>2 DEF Arm
      <3>5. work'[w].issue = job /\ work'[w].header.job = job
        BY <1>0, <3>3, <3>4 DEF Work
      <3>6. \A v \in Worker \ {w} : work'[v] = work[v]
        BY <1>0, <3>4
      <3> QED
        BY <2>1, <3>1, <3>5, <3>6 DEF OneJobInv, JobBook, JobsKnown, SharesAreOfOneJob
    <2>3. CASE ~(job # NoJob /\ job.id = work[w].issue.id)
      <3>1. UNCHANGED work
        BY <1>2, <2>3 DEF Arm
      <3> QED
        BY <2>1, <3>1 DEF OneJobInv, JobBook, JobsKnown, SharesAreOfOneJob
    <2> QED
      BY <2>2, <2>3
  <1>3. CASE Reap(w)
    <2> DEFINE share == [session |-> work[w].session, issue |-> work[w].issue,
                         header |-> work[w].header]
    <2>1. share \in Share /\ share.header.job = share.issue
      BY <1>0 DEF OneJobInv, SharesAreOfOneJob, Work, Share
    <2>2. queue' = queue \/ queue' = Append(queue, share)
      BY <1>3 DEF Reap
    <2>3. UNCHANGED <<job, issued, g_work, work>>
      BY <1>3 DEF Reap, shared, stratumVars, poolVars
    <2> HIDE DEF share
    <2>4. \A i \in 1 .. Len(queue') : queue'[i].header.job = queue'[i].issue
      <3>1. CASE queue' = queue
        BY <3>1 DEF OneJobInv, SharesAreOfOneJob
      <3>2. CASE queue' = Append(queue, share)
        <4>1. /\ Len(queue') = Len(queue) + 1 /\ Len(queue) \in Nat
              /\ queue'[Len(queue) + 1] = share
              /\ \A i \in 1 .. Len(queue) : queue'[i] = queue[i]
          BY <1>0, <2>1, <3>2
        <4>2. \A i \in 1 .. Len(queue) : queue[i].header.job = queue[i].issue
          BY DEF OneJobInv, SharesAreOfOneJob
        <4>3. \A i \in 1 .. Len(queue) + 1 : i \in 1 .. Len(queue) \/ i = Len(queue) + 1
          BY <4>1
        <4> QED
          BY <4>1, <4>2, <4>3, <2>1
      <3> QED
        BY <2>2, <3>1, <3>2
    <2> QED
      BY <2>3, <2>4 DEF OneJobInv, JobBook, JobsKnown, SharesAreOfOneJob
  <1>4. CASE QuietWork(w) \/ Dispatch(w) \/ DeviceFails(w)
    <2>1. UNCHANGED <<shared, work, queue>>
      BY <1>4 DEF QuietWork, NoticePark, Park, NoPool, Flushed, CheckEpoch, Adopt,
         BuildFails, Rebuild, Roll, RangeGoesOn, DispatchFails, Dispatch, DeviceFails
    <2>2. UNCHANGED <<job, issued, g_work>>
      BY <2>1 DEF shared, stratumVars, poolVars
    <2> QED
      BY <2>1, <2>2 DEF OneJobInv, JobBook, JobsKnown, SharesAreOfOneJob
  <1> QED
    BY <1>1, <1>2, <1>3, <1>4 DEF WorkerStep, QuietWork

(* With a pool that uses a job id once, every share is of one job: the        *)
(* coinbase it was mined on, and the id, target and session it is submitted  *)
(* under, belong together.                                                   *)
THEOREM ShareOfOneJob == FreshIds /\ Spec => []SharesAreOfOneJob
  <1> SUFFICES ASSUME FreshIds PROVE Spec => []SharesAreOfOneJob
    OBVIOUS
  <1> DEFINE Inv == PipelineInv /\ OneJobInv
  <1>1. Init => Inv
    <2> SUFFICES ASSUME Init PROVE OneJobInv
      BY InitPipeline
    <2>1. issued = {} /\ job = NoJob /\ g_work = NoWork /\ queue = <<>>
          /\ \A w \in Worker : work[w] = NoWork
      BY DEF Init
    <2>2. NoWork.issue = NoJob /\ NoWork.header.job = NoJob
      BY DEF NoWork
    <2> QED
      BY <2>1, <2>2 DEF OneJobInv, JobBook, JobsKnown, SharesAreOfOneJob
  <1>2. Inv /\ [Next]_vars => Inv'
    <2> SUFFICES ASSUME Inv, [Next]_vars PROVE OneJobInv'
      BY StepPipeline
    <2>0. Types /\ OneJobInv
      BY DEF PipelineInv
    <2>1. CASE StratumStep
      BY <2>0, <2>1, StratumOneJob
    <2>2. CASE \E w \in Worker : WorkerStep(w)
      BY <2>0, <2>2, WorkerOneJob
    <2>3. CASE WorkioStep
      <3>1. UNCHANGED <<job, issued, g_work, work>>
        BY <2>3 DEF WorkioStep, PopShare, CheckSession, SendShare, SendFails,
           stratumVars, poolVars, workerVars
      <3>2. queue' = queue \/ (queue # <<>> /\ queue' = Tail(queue))
        BY <2>3 DEF WorkioStep, PopShare, CheckSession, SendShare, SendFails
      <3>3. \A i \in 1 .. Len(queue') : queue'[i].header.job = queue'[i].issue
        <4>0. \A i \in 1 .. Len(queue) : queue[i].header.job = queue[i].issue
          BY <2>0 DEF OneJobInv, SharesAreOfOneJob
        <4>1. CASE queue' = queue
          BY <4>0, <4>1
        <4>2. CASE queue # <<>> /\ queue' = Tail(queue)
          <5>1. /\ Len(queue') = Len(queue) - 1 /\ Len(queue) \in Nat \ {0}
                /\ \A i \in 1 .. Len(queue) - 1 : queue'[i] = queue[i + 1]
            BY <2>0, <4>2 DEF Types
          <5>2. \A i \in 1 .. Len(queue) - 1 : i + 1 \in 1 .. Len(queue)
            BY <5>1
          <5> QED
            BY <4>0, <5>1, <5>2
        <4> QED
          BY <3>2, <4>1, <4>2
      <3> QED
        BY <2>0, <3>1, <3>3 DEF OneJobInv, JobBook, JobsKnown, SharesAreOfOneJob
    <2>4. CASE UNCHANGED vars
      BY <2>0, <2>4 DEF vars, OneJobInv, JobBook, JobsKnown, SharesAreOfOneJob
    <2> QED
      BY <2>1, <2>2, <2>3, <2>4 DEF Next
  <1>3. Inv => SharesAreOfOneJob
    BY DEF OneJobInv
  <1> HIDE DEF Inv
  <1> QED
    BY <1>1, <1>2, <1>3, PTL DEF Spec

----------------------------------------------------------------------------
(* No batch is dispatched twice. An extranonce2 is never used again: what a   *)
(* worker has dispatched is behind its counter, or it is of the header it is *)
(* armed with and behind its nonce. Between the copy of a job and the Adopt  *)
(* that moves the counter on the armed mark is still the last job's, so      *)
(* nothing can be said of it there.                                          *)
FreshRanges ==
    \A w \in Worker :
        /\ \A h \in Header, c \in Nat : <<w, h, c>> \in tested =>
              /\ h.xn <= counter[w]
              /\ wpc[w] # "build" => \/ h.xn < counter[w]
                                     \/ armed[w] /\ (h = work[w].header => c < nonce[w])
        /\ wpc[w] # "build" /\ armed[w] => work[w].header.xn = counter[w]

(* What a worker's step leaves alone of the others. *)
LEMMA OthersKeepTheirRanges ==
    ASSUME Types, FreshRanges, NEW w \in Worker, NEW v \in Worker, v # w,
           wpc'[v] = wpc[v], counter'[v] = counter[v], armed'[v] = armed[v],
           work'[v] = work[v], nonce'[v] = nonce[v],
           \A h \in Header, c \in Nat : <<v, h, c>> \in tested' => <<v, h, c>> \in tested
    PROVE  /\ \A h \in Header, c \in Nat : <<v, h, c>> \in tested' =>
                 /\ h.xn <= counter'[v]
                 /\ wpc'[v] # "build" => \/ h.xn < counter'[v]
                                         \/ armed'[v] /\ (h = work'[v].header => c < nonce'[v])
           /\ wpc'[v] # "build" /\ armed'[v] => work'[v].header.xn = counter'[v]
  BY DEF FreshRanges

(* A worker's step, seen from that worker. *)
LEMMA OwnRangesKept ==
    ASSUME PipelineInv, FreshRanges, ~BuildMayFail, NEW w \in Worker, WorkerStep(w)
    PROVE  /\ \A h \in Header, c \in Nat : <<w, h, c>> \in tested' =>
                 /\ h.xn <= counter'[w]
                 /\ wpc'[w] # "build" => \/ h.xn < counter'[w]
                                         \/ armed'[w] /\ (h = work'[w].header => c < nonce'[w])
           /\ wpc'[w] # "build" /\ armed'[w] => work'[w].header.xn = counter'[w]
           /\ rescans' = rescans
  <1>0. /\ wpc \in [Worker -> WorkerPc] /\ work \in [Worker -> Work]
        /\ counter \in [Worker -> Nat] /\ armed \in [Worker -> BOOLEAN]
        /\ nonce \in [Worker -> Nat] /\ rescans \in Nat
        /\ counter[w] \in Nat /\ nonce[w] \in Nat /\ N \in Nat \ {0}
        /\ work[w].header \in Header /\ \A h \in Header : h.xn \in Nat
    BY SizeAssumption DEF PipelineInv, Types, WorkerType, Work, Header
  <1>1. CASE NoticePark(w) \/ Park(w) \/ NoPool(w) \/ Flushed(w) \/ CheckEpoch(w)
             \/ Rebuild(w) \/ RangeGoesOn(w) \/ DispatchFails(w) \/ Reap(w) \/ DeviceFails(w)
    <2>1. UNCHANGED <<work, counter, armed, nonce, tested, rescans>>
      BY <1>1 DEF NoticePark, Park, NoPool, Flushed, CheckEpoch, Rebuild, RangeGoesOn,
                  DispatchFails, Reap, DeviceFails
    <2>2. wpc'[w] # "build" => wpc[w] # "build"
      BY <1>0, <1>1 DEF NoticePark, Park, NoPool, Flushed, CheckEpoch, Rebuild, RangeGoesOn,
                  DispatchFails, Reap, DeviceFails, Reaping
    <2> QED
      BY <2>1, <2>2 DEF FreshRanges
  <1>2. CASE CopyWork(w)
    <2>1. wpc'[w] = "build" /\ UNCHANGED <<counter, tested, rescans>>
      BY <1>0, <1>2 DEF CopyWork
    <2> QED
      BY <2>1 DEF FreshRanges
  <1>3. CASE Adopt(w) \/ Roll(w)
    <2>1. /\ counter'[w] = counter[w] + N /\ armed'[w] = FALSE
          /\ UNCHANGED <<tested, rescans>>
      BY <1>0, <1>3 DEF Adopt, Roll
    <2>2. \A h \in Header, c \in Nat : <<w, h, c>> \in tested => h.xn < counter'[w]
      BY <1>0, <2>1 DEF FreshRanges
    <2> QED
      BY <1>0, <2>1, <2>2
  <1>4. CASE Arm(w)
    <2>1. wpc[w] = "ready" /\ ~armed[w] /\ UNCHANGED <<counter, nonce, tested, rescans>>
      BY <1>4 DEF Arm
    <2>2. \A h \in Header, c \in Nat : <<w, h, c>> \in tested => h.xn < counter[w]
      BY <2>1 DEF FreshRanges
    <2>3. armed'[w] => work'[w].header.xn = counter[w]
      BY <1>0, <1>4, <2>1 DEF Arm, Work, Header
    <2> QED
      BY <1>0, <2>1, <2>2, <2>3
  <1>5. CASE Dispatch(w)
    <2> DEFINE batch == <<w, work[w].header, nonce[w]>>
    <2>1. /\ wpc[w] = "ready" /\ armed[w] /\ UNCHANGED <<work, counter, armed>>
          /\ nonce'[w] = nonce[w] + 1
      BY <1>0, <1>5 DEF Dispatch
    <2>2. work[w].header.xn = counter[w]
      BY <2>1 DEF FreshRanges
    <2>3. batch \notin tested
      <3>1. ~ (counter[w] < counter[w]) /\ ~ (nonce[w] < nonce[w])
        BY <1>0
      <3> QED
        BY <1>0, <2>1, <2>2, <3>1 DEF FreshRanges
    <2>4. rescans' = rescans /\ tested' \subseteq tested \cup {batch}
      BY <1>5, <2>3 DEF Dispatch
    <2>5. ASSUME NEW h \in Header, NEW c \in Nat, <<w, h, c>> \in tested'
          PROVE  /\ h.xn <= counter[w]
                 /\ h.xn < counter[w] \/ (h = work[w].header => c < nonce[w] + 1)
      <3>1. CASE <<w, h, c>> \in tested
        <4>1. /\ h.xn <= counter[w]
              /\ h.xn < counter[w] \/ (h = work[w].header => c < nonce[w])
          BY <2>1, <3>1 DEF FreshRanges
        <4> QED
          BY <1>0, <4>1
      <3>2. CASE <<w, h, c>> = batch
        <4>1. h = work[w].header /\ c = nonce[w]
          BY <3>2
        <4> QED
          BY <1>0, <2>2, <4>1
      <3> QED
        BY <2>4, <2>5, <3>1, <3>2
    <2> QED
      BY <2>1, <2>2, <2>4, <2>5
  <1>6. ~ BuildFails(w)
    BY DEF BuildFails
  <1> QED
    BY <1>1, <1>2, <1>3, <1>4, <1>5, <1>6 DEF WorkerStep

(* A worker touches its own entry of the arrays, and its own batches. *)
LEMMA StepIsOwn ==
    ASSUME Types, NEW w \in Worker, NEW v \in Worker, v # w, WorkerStep(w)
    PROVE  /\ wpc'[v] = wpc[v] /\ counter'[v] = counter[v] /\ armed'[v] = armed[v]
           /\ work'[v] = work[v] /\ nonce'[v] = nonce[v] /\ inflight'[v] = inflight[v]
           /\ \A h \in Header, c \in Nat : <<v, h, c>> \in tested' => <<v, h, c>> \in tested
  <1>0. /\ wpc \in [Worker -> WorkerPc] /\ work \in [Worker -> Work]
        /\ counter \in [Worker -> Nat] /\ armed \in [Worker -> BOOLEAN]
        /\ nonce \in [Worker -> Nat] /\ inflight \in [Worker -> Seq(Header)]
    BY DEF Types, WorkerType
  <1>1. CASE QuietWork(w)
    BY <1>0, <1>1 DEF QuietWork, NoticePark, Park, NoPool, Flushed, CheckEpoch, Adopt,
       BuildFails, Rebuild, Roll, RangeGoesOn, DispatchFails
  <1>2. CASE CopyWork(w)
    BY <1>0, <1>2 DEF CopyWork
  <1>3. CASE Arm(w)
    BY <1>0, <1>3 DEF Arm
  <1>4. CASE Dispatch(w)
    <2>1. tested' \subseteq tested \cup {<<w, work[w].header, nonce[w]>>}
      BY <1>4 DEF Dispatch
    <2>2. /\ wpc'[v] = wpc[v] /\ nonce'[v] = nonce[v] /\ inflight'[v] = inflight[v]
          /\ UNCHANGED <<work, counter, armed>>
      BY <1>0, <1>4 DEF Dispatch
    <2> QED
      BY <2>1, <2>2
  <1>5. CASE Reap(w) \/ DeviceFails(w)
    BY <1>0, <1>5 DEF Reap, DeviceFails
  <1> QED
    BY <1>1, <1>2, <1>3, <1>4, <1>5 DEF WorkerStep, QuietWork

(* Where a kernel build does not fail halfway through a change of job, no     *)
(* worker tests a nonce of a header twice, however often the pool re-sends a *)
(* job: the extranonce2 is advanced, never restarted.                        *)
THEOREM NothingTestedTwiceHolds == ~BuildMayFail /\ Spec => []NothingTestedTwice
  <1> SUFFICES ASSUME ~BuildMayFail PROVE Spec => []NothingTestedTwice
    OBVIOUS
  <1> DEFINE Inv == PipelineInv /\ FreshRanges /\ NothingTestedTwice
  <1>1. Init => Inv
    BY InitPipeline DEF Init, FreshRanges, NothingTestedTwice
  <1>2. Inv /\ [Next]_vars => Inv'
    <2> SUFFICES ASSUME Inv, [Next]_vars PROVE FreshRanges' /\ NothingTestedTwice'
      BY StepPipeline
    <2>0. Types /\ PipelineInv /\ FreshRanges /\ NothingTestedTwice
      BY DEF PipelineInv
    <2>1. CASE StratumStep \/ WorkioStep
      <3>1. UNCHANGED workerVars
        BY <2>0, <2>1, StratumTyped, WorkioTyped DEF Types
      <3> QED
        BY <2>0, <3>1 DEF workerVars, FreshRanges, NothingTestedTwice
    <2>2. ASSUME NEW w \in Worker, WorkerStep(w)
          PROVE  FreshRanges' /\ NothingTestedTwice'
      <3>1. rescans' = rescans
        BY <2>0, <2>2, OwnRangesKept
      <3>2. ASSUME NEW v \in Worker
            PROVE  /\ \A h \in Header, c \in Nat : <<v, h, c>> \in tested' =>
                         /\ h.xn <= counter'[v]
                         /\ wpc'[v] # "build" =>
                               \/ h.xn < counter'[v]
                               \/ armed'[v] /\ (h = work'[v].header => c < nonce'[v])
                   /\ wpc'[v] # "build" /\ armed'[v] => work'[v].header.xn = counter'[v]
        <4>1. CASE v = w
          BY <2>0, <2>2, <4>1, OwnRangesKept
        <4>2. CASE v # w
          BY <2>0, <2>2, <4>2, StepIsOwn, OthersKeepTheirRanges
        <4> QED
          BY <4>1, <4>2
      <3> QED
        BY <2>0, <3>1, <3>2 DEF FreshRanges, NothingTestedTwice
    <2>3. CASE UNCHANGED vars
      BY <2>0, <2>3 DEF vars, FreshRanges, NothingTestedTwice
    <2> QED
      BY <2>1, <2>2, <2>3 DEF Next
  <1>3. Inv => NothingTestedTwice
    OBVIOUS
  <1> HIDE DEF Inv
  <1> QED
    BY <1>1, <1>2, <1>3, PTL DEF Spec

----------------------------------------------------------------------------
(* What is dropped is dead. A session of number se with a job of connection   *)
(* co is one the miner can have seen: the job came no later than the session *)
(* did, and a later session, or one that is being set up, has a later        *)
(* connection.                                                               *)
Opening == {"authorize", "up"}

Seen(se, co) ==
    /\ se <= stratum_session /\ co >= 1 /\ co <= conns
    /\ se < stratum_session \/ spc \in Opening => co < conns

(* The open connection is the last one opened, and a job waiting to be        *)
(* published came over one.                                                  *)
ConnLedger ==
    /\ sock = 0 \/ sock = conns
    /\ spc = "authorize" => sock # 0
    /\ new_job => job.conn >= 1 /\ job.conn <= conns

(* Published work, and the copies of it that are mined, were seen; a worker   *)
(* dispatches nothing before it has copied one.                              *)
WorkLedger ==
    /\ g_work_time => g_work.epoch > 0
    /\ g_work.epoch > 0 => Seen(g_work.session, g_work.issue.conn)
    /\ \A w \in Worker :
          /\ work[w].epoch > 0 => Seen(work[w].session, work[w].issue.conn)
          /\ wpc[w] = "copy" => g_work.epoch > 0
          /\ wpc[w] \in {"build", "ready", "reap"} \/ inflight[w] # <<>> => work[w].epoch > 0

(* So were the shares; the connection of a dropped one is not the last. *)
ShareLedger ==
    /\ \A i \in 1 .. Len(queue) : Seen(queue[i].session, queue[i].issue.conn)
    /\ iopc # "idle" => Seen(cur.session, cur.issue.conn)
    /\ \A s \in dropped : s.issue.conn \in 1 .. conns - 1

SessionLedger == ConnLedger /\ WorkLedger /\ ShareLedger

(* What these are numbers of. *)
LEMMA LedgerTypes ==
    ASSUME Types
    PROVE  /\ stratum_session \in Nat /\ conns \in Nat /\ sock \in Nat /\ job.conn \in Nat
           /\ g_work.epoch \in Nat /\ g_work.session \in Nat /\ g_work.issue.conn \in Nat
           /\ \A w \in Worker : /\ work[w].epoch \in Nat /\ work[w].session \in Nat
                                /\ work[w].issue.conn \in Nat
           /\ \A i \in 1 .. Len(queue) : /\ queue[i].session \in Nat
                                         /\ queue[i].issue.conn \in Nat
           /\ cur.session \in Nat /\ cur.issue.conn \in Nat
  <1>1. \A j \in Job : j.conn \in Nat
    BY DEF Job
  <1>2. \A k \in Work : k.epoch \in Nat /\ k.session \in Nat /\ k.issue.conn \in Nat
    BY <1>1 DEF Work
  <1>3. \A s \in Share : s.session \in Nat /\ s.issue.conn \in Nat
    BY <1>1 DEF Share
  <1>4. \A i \in 1 .. Len(queue) : queue[i] \in Share
    BY DEF Types
  <1> QED
    BY <1>1, <1>2, <1>3, <1>4 DEF Types, StratumType, PoolType, WorkerType, WorkioType

(* A notify is of the open connection. *)
LEMMA NotifyOfTheConnection ==
    ASSUME NEW j \in Notifiable
    PROVE  j.conn = sock
  <1>1. CASE j \in issued /\ j.conn = sock
    BY <1>1
  <1>2. CASE ~ (j \in issued /\ j.conn = sock)
    <2>1. PICK i \in (IF FreshIds THEN {Cardinality(issued) + 1} ELSE JobId) :
             j = [conn |-> sock, n |-> Cardinality(issued) + 1, id |-> i]
      BY <1>2 DEF Notifiable
    <2> QED
      BY <2>1
  <1> QED
    BY <1>1, <1>2

(* Whatever the stratum thread does, what was seen stays seen. *)
LEMMA SeenStays ==
    ASSUME Types, ConnLedger, StratumStep
    PROVE  /\ \A se, co \in Nat : Seen(se, co) => Seen(se, co)'
           /\ conns <= conns'
  <1>0. stratum_session \in Nat /\ conns \in Nat
    BY LedgerTypes
  <1>1. CASE DialSucceeds
    <2>1. stratum_session' = stratum_session /\ conns' = conns + 1
      BY <1>1 DEF DialSucceeds
    <2> QED
      BY <1>0, <2>1 DEF Seen
  <1>2. CASE Established
    <2>1. /\ stratum_session' = stratum_session + 1 /\ conns' = conns
          /\ spc = "up" /\ spc' = "prime"
      BY <1>2 DEF Established
    <2> QED
      BY <1>0, <2>1 DEF Seen, Opening
  <1>3. CASE ~ DialSucceeds /\ ~ Established
    <2>1. UNCHANGED <<stratum_session, conns>> /\ (spc' \in Opening => spc \in Opening)
      BY <1>3 DEF StratumStep, TopReset, ConnectLoop, DialFails, HandshakeNotify,
         stratum_authorize, HandshakeFails, PrimeFirstJob, ReceiveNotify, ReceiveOther,
         stratum_reconnect, AskForReset, Publish, stratumVars, Opening
    <2> QED
      BY <1>0, <2>1 DEF Seen
  <1> QED
    BY <1>1, <1>2, <1>3

LEMMA ConnLedgerKept ==
    ASSUME Types, ConnLedger, StratumStep
    PROVE  ConnLedger'
  <1>0. conns \in Nat /\ sock \in Nat
    BY LedgerTypes
  <1>1. CASE DialSucceeds
    <2>1. sock' = conns + 1 /\ conns' = conns + 1 /\ UNCHANGED <<new_job, job>>
      BY <1>1 DEF DialSucceeds, poolVars
    <2>2. job.conn \in Nat
      BY LedgerTypes
    <2> QED
      BY <1>0, <2>1, <2>2 DEF ConnLedger
  <1>2. CASE HandshakeNotify \/ ReceiveNotify
    <2>1. PICK j \in Notifiable : stratum_notify(j)
      BY <1>2 DEF HandshakeNotify, ReceiveNotify
    <2>2. job' = j /\ j.conn = sock
      BY <2>1, NotifyOfTheConnection DEF stratum_notify
    <2>3. sock # 0 /\ UNCHANGED <<sock, conns>>
      BY <1>2 DEF HandshakeNotify, ReceiveNotify, stratumVars, ConnLedger
    <2> QED
      BY <1>0, <2>2, <2>3 DEF ConnLedger
  <1>3. CASE ~ DialSucceeds /\ ~ (HandshakeNotify \/ ReceiveNotify)
    <2>1. /\ conns' = conns /\ (sock' = sock \/ (sock' = 0 /\ spc' # "authorize"))
          /\ spc' = "authorize" => spc = "authorize"
          /\ job' = job /\ (new_job' => new_job)
      BY <1>3 DEF StratumStep, TopReset, ConnectLoop, DialFails, stratum_authorize,
         HandshakeFails, Established, PrimeFirstJob, ReceiveOther, stratum_reconnect,
         AskForReset, Publish, stratum_gen_work, poolVars
    <2> QED
      BY <2>1 DEF ConnLedger
  <1> QED
    BY <1>1, <1>2, <1>3

(* The stratum thread publishes a job it has seen in the session that is up. *)
LEMMA StratumSessionLedger ==
    ASSUME Types, SessionLedger, StratumStep
    PROVE  SessionLedger'
  <1>0. UNCHANGED <<workerVars, workioVars, queue>>
    BY StratumTyped DEF Types
  <1>1. ConnLedger' /\ (\A se, co \in Nat : Seen(se, co) => Seen(se, co)') /\ conns <= conns'
    BY ConnLedgerKept, SeenStays DEF SessionLedger
  <1>2. /\ g_work_time' => g_work'.epoch > 0
        /\ g_work'.epoch > 0 => Seen(g_work.session, g_work.issue.conn)'
        /\ g_work.epoch > 0 => g_work'.epoch > 0
    <2>1. CASE (PrimeFirstJob \/ Publish) /\ new_job
      <3>1. /\ g_work' = [epoch |-> g_work.epoch + 1, session |-> stratum_session,
                          issue |-> job, header |-> [job |-> job, xn |-> xnonce2]]
            /\ spc' = "top" /\ UNCHANGED <<stratum_session, conns>>
        BY <2>1 DEF PrimeFirstJob, Publish, stratum_gen_work
      <3>2. /\ g_work'.epoch = g_work.epoch + 1 /\ g_work'.session = stratum_session
            /\ g_work'.issue.conn = job.conn
        BY <3>1
      <3>3. job.conn >= 1 /\ job.conn <= conns /\ spc' \notin Opening
        BY <2>1, <3>1 DEF SessionLedger, ConnLedger, Opening
      <3>4. g_work.epoch \in Nat /\ stratum_session \in Nat /\ job.conn \in Nat
        BY LedgerTypes
      <3>5. g_work'.epoch > 0
        BY <3>2, <3>4
      <3>6. Seen(g_work.session, g_work.issue.conn)'
        BY <3>1, <3>2, <3>3, <3>4 DEF Seen
      <3> QED
        BY <3>5, <3>6
    <2>2. CASE ~ ((PrimeFirstJob \/ Publish) /\ new_job)
      <3>1. g_work' = g_work /\ (g_work_time' => g_work_time)
        BY <2>2 DEF StratumStep, TopReset, ConnectLoop, DialSucceeds, DialFails,
           HandshakeNotify, stratum_authorize, HandshakeFails, Established, PrimeFirstJob,
           ReceiveNotify, ReceiveOther, stratum_reconnect, AskForReset, Publish, stratumVars
      <3>2. g_work.session \in Nat /\ g_work.issue.conn \in Nat
        BY LedgerTypes
      <3>3. g_work.epoch > 0 => Seen(g_work.session, g_work.issue.conn)
        BY DEF SessionLedger, WorkLedger
      <3>4. g_work'.session = g_work.session /\ g_work'.issue.conn = g_work.issue.conn
        BY <3>1
      <3>5. Seen(g_work.session, g_work.issue.conn) =>
              Seen(g_work.session, g_work.issue.conn)'
        BY <1>1, <3>2, <3>4 DEF Seen
      <3> QED
        BY <3>1, <3>3, <3>5 DEF SessionLedger, WorkLedger
    <2> QED
      BY <2>1, <2>2
  <1>3. WorkLedger'
    <2>1. ASSUME NEW w \in Worker, work[w].epoch > 0
          PROVE  Seen(work[w].session, work[w].issue.conn)'
      <3>1. work[w].session \in Nat /\ work[w].issue.conn \in Nat /\ work' = work
        BY <1>0, LedgerTypes DEF workerVars
      <3>2. Seen(work[w].session, work[w].issue.conn)
        BY <2>1 DEF SessionLedger, WorkLedger
      <3> QED
        BY <1>1, <3>1, <3>2 DEF Seen
    <2> QED
      BY <1>0, <1>2, <2>1 DEF SessionLedger, WorkLedger, workerVars
  <1>4. ShareLedger'
    <2>1. ASSUME NEW i \in 1 .. Len(queue)
          PROVE  Seen(queue[i].session, queue[i].issue.conn)'
      <3>1. queue[i].session \in Nat /\ queue[i].issue.conn \in Nat /\ queue' = queue
        BY <1>0, LedgerTypes
      <3>2. Seen(queue[i].session, queue[i].issue.conn)
        BY DEF SessionLedger, ShareLedger
      <3> QED
        BY <1>1, <3>1, <3>2 DEF Seen
    <2>2. ASSUME iopc # "idle"
          PROVE  Seen(cur.session, cur.issue.conn)'
      <3>1. cur.session \in Nat /\ cur.issue.conn \in Nat /\ cur' = cur
        BY <1>0, LedgerTypes DEF workioVars
      <3>2. Seen(cur.session, cur.issue.conn)
        BY <2>2 DEF SessionLedger, ShareLedger
      <3> QED
        BY <1>1, <3>1, <3>2 DEF Seen
    <2>3. ASSUME NEW s \in dropped
          PROVE  s.issue.conn \in 1 .. conns' - 1
      <3>1. s.issue.conn \in 1 .. conns - 1
        BY DEF SessionLedger, ShareLedger
      <3>2. conns \in Nat /\ conns' \in Nat
        BY StratumTyped DEF Types, StratumType
      <3> QED
        BY <1>1, <3>1, <3>2
    <2> QED
      BY <1>0, <2>1, <2>2, <2>3 DEF ShareLedger, workioVars
  <1> QED
    BY <1>1, <1>3, <1>4 DEF SessionLedger

(* A worker copies what was published and queues what it copied. *)
LEMMA WorkerSessionLedger ==
    ASSUME Types, SessionLedger, NEW w \in Worker, WorkerStep(w)
    PROVE  SessionLedger'
  <1>0. /\ wpc \in [Worker -> WorkerPc] /\ work \in [Worker -> Work]
        /\ inflight \in [Worker -> Seq(Header)] /\ queue \in Seq(Share)
    BY DEF Types, WorkerType
  <1>1. UNCHANGED <<stratumVars, workioVars, new_job, job>>
    BY DEF WorkerStep, NoticePark, Park, NoPool, Flushed, CheckEpoch, CopyWork, Adopt,
       BuildFails, Rebuild, Arm, Roll, RangeGoesOn, Dispatch, DispatchFails, Reap,
       DeviceFails, shared, poolVars
  <1>2. /\ UNCHANGED <<spc, sock, conns, stratum_session, g_work_time, g_work, new_job, job>>
        /\ UNCHANGED <<iopc, cur, dropped>>
    BY <1>1 DEF stratumVars, workioVars
  <1>3. ConnLedger'
    BY <1>2 DEF SessionLedger, ConnLedger
  <1>4. /\ work'[w].epoch > 0 => Seen(work'[w].session, work'[w].issue.conn)
        /\ wpc'[w] = "copy" => g_work.epoch > 0
        /\ wpc'[w] \in {"build", "ready", "reap"} \/ inflight'[w] # <<>> => work'[w].epoch > 0
    <2>0. /\ work[w].epoch > 0 => Seen(work[w].session, work[w].issue.conn)
          /\ wpc[w] = "copy" => g_work.epoch > 0
          /\ wpc[w] \in {"build", "ready", "reap"} \/ inflight[w] # <<>> => work[w].epoch > 0
          /\ g_work_time => g_work.epoch > 0
          /\ g_work.epoch > 0 => Seen(g_work.session, g_work.issue.conn)
      BY DEF SessionLedger, WorkLedger
    <2>1. CASE NoticePark(w) \/ Park(w) \/ NoPool(w) \/ Flushed(w) \/ Adopt(w) \/ BuildFails(w)
               \/ Rebuild(w) \/ Roll(w) \/ RangeGoesOn(w) \/ DispatchFails(w)
      <3>1. /\ UNCHANGED <<work, inflight>> /\ wpc'[w] # "copy"
            /\ wpc'[w] \in {"build", "ready", "reap"} => wpc[w] \in {"build", "ready", "reap"}
        BY <1>0, <2>1 DEF NoticePark, Park, NoPool, Flushed, Adopt, BuildFails, Rebuild, Roll,
           RangeGoesOn, DispatchFails
      <3> QED
        BY <2>0, <3>1
    <2>2. CASE CheckEpoch(w)
      <3>1. /\ UNCHANGED <<work, inflight>> /\ g_work_time
            /\ wpc'[w] = IF work[w].epoch # g_work.epoch THEN "copy" ELSE "ready"
        BY <1>0, <2>2 DEF CheckEpoch
      <3> QED
        BY <2>0, <3>1
    <2>3. CASE CopyWork(w)
      <3>1. work'[w] = g_work /\ wpc[w] = "copy" /\ wpc'[w] = "build"
        BY <1>0, <2>3 DEF CopyWork
      <3> QED
        BY <2>0, <3>1
    <2>4. CASE Arm(w)
      <3>1. /\ wpc[w] = "ready" /\ wpc'[w] # "copy" /\ inflight' = inflight
            /\ work'[w].epoch = work[w].epoch /\ work'[w].session = work[w].session
            /\ work'[w].issue = work[w].issue
        BY <1>0, <2>4 DEF Arm, Work
      <3> QED
        BY <2>0, <3>1
    <2>5. CASE Dispatch(w)
      <3>1. wpc[w] = "ready" /\ wpc'[w] # "copy" /\ work' = work
        BY <1>0, <2>5 DEF Dispatch
      <3> QED
        BY <2>0, <3>1
    <2>6. CASE Reap(w) \/ DeviceFails(w)
      <3>1. inflight[w] # <<>> /\ work' = work /\ (wpc'[w] = "copy" => wpc[w] = "copy")
        BY <1>0, <2>6 DEF Reap, DeviceFails
      <3> QED
        BY <2>0, <3>1
    <2> QED
      BY <2>1, <2>2, <2>3, <2>4, <2>5, <2>6 DEF WorkerStep
  <1>5. WorkLedger'
    <2>1. ASSUME NEW v \in Worker
          PROVE  /\ work'[v].epoch > 0 => Seen(work'[v].session, work'[v].issue.conn)
                 /\ wpc'[v] = "copy" => g_work.epoch > 0
                 /\ wpc'[v] \in {"build", "ready", "reap"} \/ inflight'[v] # <<>>
                       => work'[v].epoch > 0
      <3>1. CASE v = w
        BY <1>4, <3>1
      <3>2. CASE v # w
        <4>1. wpc'[v] = wpc[v] /\ work'[v] = work[v] /\ inflight'[v] = inflight[v]
          BY <3>2, StepIsOwn
        <4> QED
          BY <4>1 DEF SessionLedger, WorkLedger
      <3> QED
        BY <3>1, <3>2
    <2>2. \A v \in Worker : Seen(work'[v].session, work'[v].issue.conn)
              => Seen(work[v].session, work[v].issue.conn)'
      BY <1>2 DEF Seen
    <2>3. Seen(g_work.session, g_work.issue.conn) => Seen(g_work.session, g_work.issue.conn)'
      BY <1>2 DEF Seen
    <2> QED
      BY <1>2, <2>1, <2>2, <2>3 DEF SessionLedger, WorkLedger
  <1>6. ShareLedger'
    <2> DEFINE share == [session |-> work[w].session, issue |-> work[w].issue,
                         header |-> work[w].header]
    <2>1. queue' = queue \/ (Reap(w) /\ queue' = Append(queue, share))
      BY DEF WorkerStep, NoticePark, Park, NoPool, Flushed, CheckEpoch, CopyWork, Adopt,
         BuildFails, Rebuild, Arm, Roll, RangeGoesOn, Dispatch, DispatchFails, Reap, DeviceFails
    <2>2. share \in Share /\ share.session = work[w].session /\ share.issue = work[w].issue
      BY <1>0 DEF Work, Share
    <2>3. Reap(w) => Seen(share.session, share.issue.conn)
      <3>1. Reap(w) => inflight[w] # <<>>
        BY DEF Reap
      <3> HIDE DEF share
      <3> QED
        BY <2>2, <3>1 DEF SessionLedger, WorkLedger
    <2> HIDE DEF share
    <2>4. \A i \in 1 .. Len(queue) : Seen(queue[i].session, queue[i].issue.conn)
      BY DEF SessionLedger, ShareLedger
    <2>5. \A i \in 1 .. Len(queue') : Seen(queue'[i].session, queue'[i].issue.conn)
      <3>1. CASE queue' = queue
        BY <2>4, <3>1
      <3>2. CASE Reap(w) /\ queue' = Append(queue, share)
        <4>1. /\ Len(queue') = Len(queue) + 1 /\ Len(queue) \in Nat
              /\ queue'[Len(queue) + 1] = share
              /\ \A i \in 1 .. Len(queue) : queue'[i] = queue[i]
          BY <1>0, <2>2, <3>2
        <4>2. \A i \in 1 .. Len(queue) + 1 : i \in 1 .. Len(queue) \/ i = Len(queue) + 1
          BY <4>1
        <4> QED
          BY <2>3, <2>4, <3>2, <4>1, <4>2
      <3> QED
        BY <2>1, <3>1, <3>2
    <2>6. \A i \in 1 .. Len(queue') : Seen(queue[i].session, queue[i].issue.conn)'
      BY <1>2, <2>5 DEF Seen
    <2> QED
      BY <1>2, <2>6 DEF SessionLedger, ShareLedger, Seen
  <1> QED
    BY <1>3, <1>5, <1>6 DEF SessionLedger

(* The workio thread drops a share of another session than the one that is   *)
(* up, which has a later connection.                                         *)
LEMMA WorkioSessionLedger ==
    ASSUME Types, SessionLedger, WorkioStep
    PROVE  SessionLedger'
  <1>0. UNCHANGED <<stratumVars, poolVars, workerVars>>
    BY WorkioTyped DEF Types
  <1>1. /\ UNCHANGED <<spc, sock, conns, stratum_session, g_work_time, g_work, new_job, job>>
        /\ UNCHANGED <<wpc, work, inflight>>
    BY <1>0 DEF stratumVars, poolVars, workerVars
  <1>2. ConnLedger' /\ WorkLedger'
    BY <1>1 DEF SessionLedger, ConnLedger, WorkLedger, Seen
  <1>3. \A i \in 1 .. Len(queue) : Seen(queue[i].session, queue[i].issue.conn)
    BY DEF SessionLedger, ShareLedger
  <1>4. CASE PopShare
    <2>1. /\ cur' = Head(queue) /\ queue' = Tail(queue) /\ queue # <<>> /\ dropped' = dropped
      BY <1>4 DEF PopShare
    <2>2. /\ Len(queue) \in Nat \ {0} /\ Head(queue) = queue[1] /\ Len(queue') = Len(queue) - 1
          /\ \A i \in 1 .. Len(queue) - 1 : queue'[i] = queue[i + 1]
      BY <2>1 DEF Types
    <2>3. 1 \in 1 .. Len(queue) /\ \A i \in 1 .. Len(queue) - 1 : i + 1 \in 1 .. Len(queue)
      BY <2>2
    <2>4. \A i \in 1 .. Len(queue') : Seen(queue'[i].session, queue'[i].issue.conn)
      BY <1>3, <2>2, <2>3
    <2>5. Seen(cur'.session, cur'.issue.conn)
      BY <1>3, <2>1, <2>2, <2>3
    <2>6. Seen(cur.session, cur.issue.conn)'
      BY <1>1, <2>5 DEF Seen
    <2>7. \A i \in 1 .. Len(queue') : Seen(queue[i].session, queue[i].issue.conn)'
      BY <1>1, <2>4 DEF Seen
    <2>8. ShareLedger'
      BY <1>1, <2>1, <2>6, <2>7 DEF SessionLedger, ShareLedger
    <2> QED
      BY <1>2, <2>8 DEF SessionLedger
  <1>5. CASE CheckSession
    <2>1. /\ iopc = "check" /\ UNCHANGED <<queue, cur>>
          /\ \/ dropped' = dropped
             \/ cur.session # stratum_session /\ dropped' = dropped \cup {cur}
      BY <1>5 DEF CheckSession
    <2>2. Seen(cur.session, cur.issue.conn)
      BY <2>1 DEF SessionLedger, ShareLedger
    <2>3. cur.session # stratum_session => cur.issue.conn \in 1 .. conns - 1
      BY <2>2, LedgerTypes DEF Seen
    <2>4. \A s \in dropped' : s.issue.conn \in 1 .. conns - 1
      BY <2>1, <2>3 DEF SessionLedger, ShareLedger
    <2>5. ShareLedger'
      BY <1>1, <1>3, <2>1, <2>2, <2>4 DEF ShareLedger, Seen
    <2> QED
      BY <1>2, <2>5 DEF SessionLedger
  <1>6. CASE SendShare \/ SendFails
    <2>1. iopc # "idle" /\ UNCHANGED <<queue, cur, dropped>>
      BY <1>6 DEF SendShare, SendFails
    <2>2. ShareLedger'
      BY <1>1, <2>1 DEF SessionLedger, ShareLedger, Seen
    <2> QED
      BY <1>2, <2>2 DEF SessionLedger
  <1> QED
    BY <1>4, <1>5, <1>6 DEF WorkioStep

(* A share that is thrown away as stale could not have been credited: the     *)
(* connection its job came over is closed for good, whatever was lost,       *)
(* re-dialled or published in between, and for any pool.                     *)
THEOREM DroppedSharesAreDeadHolds == Spec => []DroppedSharesAreDead
  <1> DEFINE Inv == PipelineInv /\ SessionLedger
  <1>1. Init => Inv
    <2> SUFFICES ASSUME Init PROVE SessionLedger
      BY InitPipeline
    <2>1. /\ spc = "top" /\ sock = 0 /\ conns = 0 /\ new_job = FALSE /\ g_work_time = FALSE
          /\ g_work.epoch = 0 /\ queue = <<>> /\ iopc = "idle" /\ dropped = {}
          /\ \A w \in Worker : work[w].epoch = 0 /\ wpc[w] = "top" /\ inflight[w] = <<>>
      BY DEF Init, NoWork
    <2>2. 1 .. Len(queue) = {}
      BY <2>1
    <2> QED
      BY <2>1, <2>2 DEF SessionLedger, ConnLedger, WorkLedger, ShareLedger, Opening
  <1>2. Inv /\ [Next]_vars => Inv'
    <2> SUFFICES ASSUME Inv, [Next]_vars PROVE SessionLedger'
      BY StepPipeline
    <2>0. Types /\ SessionLedger
      BY DEF PipelineInv
    <2>1. CASE StratumStep
      BY <2>0, <2>1, StratumSessionLedger
    <2>2. CASE \E w \in Worker : WorkerStep(w)
      BY <2>0, <2>2, WorkerSessionLedger
    <2>3. CASE WorkioStep
      BY <2>0, <2>3, WorkioSessionLedger
    <2>4. CASE UNCHANGED vars
      BY <2>0, <2>4 DEF vars, SessionLedger, ConnLedger, WorkLedger, ShareLedger, Seen
    <2> QED
      BY <2>1, <2>2, <2>3, <2>4 DEF Next
  <1>3. Inv => DroppedSharesAreDead
    <2> SUFFICES ASSUME Inv, NEW s \in dropped PROVE s.issue.conn # sock
      BY DEF DroppedSharesAreDead
    <2>1. s.issue.conn \in 1 .. conns - 1 /\ (sock = 0 \/ sock = conns) /\ conns \in Nat
      BY DEF SessionLedger, ShareLedger, ConnLedger, PipelineInv, Types, StratumType
    <2> QED
      BY <2>1
  <1> HIDE DEF Inv
  <1> QED
    BY <1>1, <1>2, <1>3, PTL DEF Spec

============================================================================

--------------------------- MODULE ControlProofs ---------------------------
(***************************************************************************)
(* Proofs about the control barrier, for any number of workers, pools,     *)
(* algorithms and requests: its types, the exactness of its two counters,  *)
(* that a pool change is carried out under a full park, that nothing is    *)
(* left to land, that an acknowledgement names the pool that was asked     *)
(* for, and that the barrier keeps the run-state contract.                 *)
(*                                                                         *)
(* The helpers that run under g_lock are functions of one control block;   *)
(* the lemmas of the first part say once what each of them keeps, and the  *)
(* step proofs cite them instead of expanding the helpers.                 *)
(***************************************************************************)
EXTENDS Control, TLAPS, FiniteSetTheorems

(* The part of FlagsAgree that concerns the control block alone. *)
Coherent(c) ==
    /\ c.mutating <=> c.state = "switching"
    /\ c.poolSwitch => c.state = "switching"
    /\ c.poolSwitch /\ ~c.shutdown => c.park

(* d counts the workers as c does. *)
SameCounts(c, d) ==
    /\ d.parked = c.parked
    /\ d.parkedGen = c.parkedGen
    /\ d.parkGen = c.parkGen

(* A pool change is out of the API thread's hands. *)
HandedOver(c) == c.poolSwitch /\ (c.posted \/ c.applied) /\ ~c.shutdown

(* What a helper that neither posts a change nor counts a worker gives back: *)
(* a well-formed block, and nothing handed over that was not already or was  *)
(* not due.                                                                  *)
Keeps(c, d) ==
    /\ d \in ControlBlock
    /\ Coherent(d)
    /\ SameCounts(c, d)
    /\ HandedOver(d) => HandedOver(c) \/ all_parked_locked(c)

----------------------------------------------------------------------------
(* The helpers of api_control.cpp.                                          *)

(* TermsOf writes Boolean flags only. *)
LEMMA TermsOfType ==
    ASSUME NEW c \in ControlBlock, NEW s \in RunState
    PROVE  TermsOf(c, s) \in ControlBlock
<1>1. ASSUME NEW p \in BOOLEAN, NEW q \in BOOLEAN, NEW r \in BOOLEAN
      PROVE  [c EXCEPT !.park = p, !.retain = q, !.hold = r] \in ControlBlock
  BY DEF ControlBlock
<1>2. /\ (s # "running") \in BOOLEAN
      /\ (s = "paused") \in BOOLEAN
      /\ (s = "stopped") \in BOOLEAN
  OBVIOUS
<1> QED BY <1>1, <1>2, Zenon DEF TermsOf

(* Keeps composes. *)
LEMMA KeepsTransitive ==
    ASSUME NEW c, NEW d, NEW e, Keeps(c, d), Keeps(d, e)
    PROVE  Keeps(c, e)
  BY DEF Keeps, SameCounts, all_parked_locked

(* A committed change is let go, with the counters where they were. *)
LEMMA CommitKeeps ==
    ASSUME NEW c \in ControlBlock
    PROVE  Keeps(c, Commit(c)) /\ ~Commit(c).poolSwitch
<1>1. ASSUME NEW s \in State, NEW e \in Nat, NEW m \in BOOLEAN,
             NEW p \in BOOLEAN, NEW q \in BOOLEAN, NEW i \in BOOLEAN
      PROVE  [c EXCEPT !.state = s, !.epoch = e, !.mutating = m,
                       !.poolSwitch = p, !.posted = q, !.inFlight = i]
                \in ControlBlock
  BY DEF ControlBlock
<1>2. c.pending \in State /\ c.pending \in RunState /\ c.epoch + 1 \in Nat
  BY DEF ControlBlock, State
<1>3. c.posted \in BOOLEAN /\ c.inFlight \in BOOLEAN
  BY DEF ControlBlock
<1>4. /\ (IF c.poolSwitch THEN FALSE ELSE c.posted) \in BOOLEAN
      /\ (IF c.poolSwitch THEN FALSE ELSE c.inFlight) \in BOOLEAN
  BY <1>3
<1>5. Commit(c) \in ControlBlock
  BY <1>1, <1>2, <1>4, TermsOfType, Zenon DEF Commit
<1>6. Coherent(Commit(c)) /\ SameCounts(c, Commit(c)) /\ ~Commit(c).poolSwitch
  BY DEF Commit, TermsOf, ControlBlock, Coherent, SameCounts, RunState
<1> QED BY <1>5, <1>6 DEF Keeps, HandedOver

(* settle_locked hands a change over only when every worker is counted in. *)
LEMMA SettleKeeps ==
    ASSUME NEW c \in ControlBlock, Coherent(c)
    PROVE  Keeps(c, settle_locked(c))
<1> DEFINE h == HandOver(c)
<1>1. [c EXCEPT !.posted = TRUE, !.inFlight = TRUE] \in ControlBlock
  BY DEF ControlBlock
<1>2. h \in ControlBlock
  BY <1>1 DEF HandOver
<1>3. Coherent(h) /\ SameCounts(c, h)
  BY DEF HandOver, ControlBlock, Coherent, SameCounts
<1>4. HandedOver(h) => HandedOver(c) \/ all_parked_locked(c)
  BY DEF HandOver, ControlBlock, HandedOver
<1>5. Keeps(c, h)
  BY <1>2, <1>3, <1>4 DEF Keeps
<1>6. Keeps(c, Commit(h))
  BY <1>2, <1>5, CommitKeeps, KeepsTransitive
<1>7. Keeps(c, c)
  BY DEF Keeps, SameCounts
<1> QED BY <1>5, <1>6, <1>7 DEF settle_locked

(* rollback_locked leaves no change behind, whatever the block held. *)
LEMMA RollbackKeeps ==
    ASSUME NEW c \in ControlBlock
    PROVE  Keeps(c, rollback_locked(c)) /\ ~rollback_locked(c).poolSwitch
<1>1. ASSUME NEW s \in RunState
      PROVE  [c EXCEPT !.poolSwitch = FALSE, !.posted = FALSE, !.inFlight = FALSE,
                       !.state = s, !.pending = s, !.mutating = FALSE]
                \in ControlBlock
  BY DEF ControlBlock, State
<1>2. c.previous \in RunState
  BY DEF ControlBlock
<1>3. rollback_locked(c) \in ControlBlock
  BY <1>1, <1>2, TermsOfType, Zenon DEF rollback_locked
<1>4. /\ Coherent(rollback_locked(c)) /\ SameCounts(c, rollback_locked(c))
      /\ ~rollback_locked(c).poolSwitch
  BY DEF rollback_locked, TermsOf, ControlBlock, Coherent, SameCounts, RunState
<1> QED BY <1>3, <1>4 DEF Keeps, HandedOver

(* Writing the answer of a pool change disturbs nothing else. *)
LEMMA AnswerKeeps ==
    ASSUME NEW c \in ControlBlock, Coherent(c), NEW b \in BOOLEAN
    PROVE  Keeps(c, [c EXCEPT !.done = TRUE, !.ok = b])
  BY DEF Keeps, ControlBlock, Coherent, SameCounts, HandedOver

(* The deadline settles or rolls back, and counts nobody. *)
LEMMA ExpireKeeps ==
    ASSUME NEW c \in ControlBlock, Coherent(c)
    PROVE  Keeps(c, expire_locked(c))
<1>1. Keeps(c, c)
  BY DEF Keeps, SameCounts
<1> DEFINE d == [c EXCEPT !.done = TRUE, !.ok = FALSE]
<1>2. Keeps(c, settle_locked(d))
  <2>1. Keeps(c, d)
    BY AnswerKeeps, FALSE \in BOOLEAN, Zenon
  <2>2. Keeps(d, settle_locked(d))
    BY <2>1, SettleKeeps, Zenon DEF Keeps
  <2> QED BY <2>1, <2>2, KeepsTransitive, Zenon
<1> QED BY <1>1, <1>2, RollbackKeeps DEF expire_locked

(* The first thing every request does. *)
LEMMA UpToDateKeeps ==
    ASSUME NEW c \in ControlBlock, Coherent(c)
    PROVE  Keeps(c, UpToDate(c))
<1>1. Keeps(c, settle_locked(c))
  BY SettleKeeps
<1>2. Keeps(settle_locked(c), expire_locked(settle_locked(c)))
  BY <1>1, ExpireKeeps DEF Keeps
<1> QED BY <1>1, <1>2, KeepsTransitive DEF UpToDate

(* The acknowledgement of a new connection. *)
LEMMA ConnectedKeeps ==
    ASSUME NEW c \in ControlBlock, Coherent(c)
    PROVE  Keeps(c, connected_locked(c))
<1>1. Keeps(c, c)
  BY DEF Keeps, SameCounts
<1> DEFINE d == [c EXCEPT !.done = TRUE, !.ok = TRUE]
<1>2. Keeps(c, settle_locked(d))
  <2>1. Keeps(c, d)
    BY AnswerKeeps, TRUE \in BOOLEAN, Zenon
  <2>2. Keeps(d, settle_locked(d))
    BY <2>1, SettleKeeps, Zenon DEF Keeps
  <2> QED BY <2>1, <2>2, KeepsTransitive, Zenon
<1> QED BY <1>1, <1>2 DEF connected_locked

(* A pool change is posted with its park closed, nobody counted in yet and  *)
(* nothing handed over.                                                     *)
LEMMA PostPoolOpens ==
    ASSUME NEW c \in ControlBlock, ~c.mutating, Coherent(c),
           opt_algo \in Algo, rpc_url \in Pool,
           NEW u \in Pool, NEW a \in Algo \cup {NoAlgo},
           NEW r \in BOOLEAN, NEW s \in RunState
    PROVE  LET d == post_pool_locked(c, u, a, r, s)
           IN  /\ d \in ControlBlock
               /\ Coherent(d)
               /\ ~HandedOver(d)
               /\ d.parked = c.parked
               /\ d.parkGen = c.parkGen + 1 /\ d.parkedGen = 0
<1> DEFINE saves   == a # NoAlgo /\ ~r
           pa      == IF saves THEN opt_algo ELSE c.prevAlgo
           pu      == IF saves THEN rpc_url ELSE c.prevUrl
           cr      == IF saves THEN TRUE ELSE c.canRestore
           saved   == [c EXCEPT !.prevAlgo = pa, !.prevUrl = pu, !.canRestore = cr,
                                !.restoring = r, !.throttled = TRUE, !.late = FALSE]
           request == [saved EXCEPT !.poolSwitch = TRUE, !.url = u, !.algo = a,
                                    !.posted = FALSE, !.applied = FALSE,
                                    !.done = FALSE, !.ok = FALSE]
           d       == post_pool_locked(c, u, a, r, s)
<1>1. c.prevAlgo \in Algo /\ c.prevUrl \in Pool /\ c.state \in RunState
  BY DEF ControlBlock, State, Coherent
<1>2. c.canRestore \in BOOLEAN
  BY DEF ControlBlock
<1>3. saved \in ControlBlock
  <2>1. ASSUME NEW x \in Algo, NEW y \in Pool, NEW z \in BOOLEAN
        PROVE  [c EXCEPT !.prevAlgo = x, !.prevUrl = y, !.canRestore = z,
                         !.restoring = r, !.throttled = TRUE, !.late = FALSE]
                  \in ControlBlock
    BY DEF ControlBlock
  <2>2. pa \in Algo /\ pu \in Pool
    BY <1>1
  <2>3. cr \in BOOLEAN
    BY <1>2
  <2> QED BY <2>1, <2>2, <2>3, Zenon
<1>4. request \in ControlBlock
  <2> HIDE DEF saved
  <2> QED BY <1>3 DEF ControlBlock
<1>5. d \in ControlBlock
  <2>1. ASSUME NEW e \in ControlBlock, NEW x \in RunState, NEW y \in BOOLEAN,
               NEW z \in BOOLEAN, NEW g \in Nat
        PROVE  [e EXCEPT !.previous = x, !.pending = s, !.state = "switching",
                         !.mutating = TRUE, !.retain = y, !.park = TRUE,
                         !.hold = z, !.parkGen = g, !.parkedGen = 0]
                  \in ControlBlock
    BY DEF ControlBlock, State
  <2>2. (c.state # "stopped") \in BOOLEAN /\ (s = "stopped") \in BOOLEAN
    OBVIOUS
  <2>3. c.parkGen + 1 \in Nat
    BY DEF ControlBlock
  <2>4. d = [request EXCEPT !.previous = c.state, !.pending = s,
                            !.state = "switching", !.mutating = TRUE,
                            !.retain = (c.state # "stopped"), !.park = TRUE,
                            !.hold = (s = "stopped"),
                            !.parkGen = c.parkGen + 1, !.parkedGen = 0]
    BY Zenon DEF post_pool_locked
  <2> HIDE DEF request, d
  <2> QED BY <1>1, <1>4, <2>1, <2>2, <2>3, <2>4, Zenon
<1>6. /\ Coherent(d) /\ ~HandedOver(d) /\ d.parked = c.parked
      /\ d.parkGen = c.parkGen + 1 /\ d.parkedGen = 0
  BY DEF post_pool_locked, ControlBlock, Coherent, HandedOver
<1> QED BY <1>5, <1>6

(* A verb is posted with no pool change about; a park it opens has nobody   *)
(* counted in, and a start leaves the counters alone.                       *)
LEMMA PostVerbOpens ==
    ASSUME NEW c \in ControlBlock, ~c.mutating, Coherent(c), NEW s \in RunState
    PROVE  LET d == post_verb_locked(c, s)
           IN  /\ d \in ControlBlock
               /\ Coherent(d)
               /\ ~HandedOver(d)
               /\ d.parked = c.parked
               /\ \/ d.parkGen = c.parkGen /\ d.parkedGen = c.parkedGen
                  \/ d.parkGen = c.parkGen + 1 /\ d.parkedGen = 0
<1> DEFINE d == post_verb_locked(c, s)
           e == [c EXCEPT !.previous = c.state, !.pending = s,
                          !.state = "switching", !.mutating = TRUE, !.late = FALSE]
<1>1. c.state \in RunState /\ ~c.poolSwitch
  BY DEF ControlBlock, State, Coherent
<1>2. e \in ControlBlock
  BY <1>1 DEF ControlBlock, State
<1>3. d \in ControlBlock
  <2> HIDE DEF e
  <2>1. [e EXCEPT !.park = FALSE, !.retain = FALSE] \in ControlBlock
    BY <1>2 DEF ControlBlock
  <2>2. ASSUME NEW z \in BOOLEAN, NEW g \in Nat
        PROVE  [e EXCEPT !.retain = z, !.park = TRUE, !.parkGen = g,
                         !.parkedGen = 0] \in ControlBlock
    BY <1>2 DEF ControlBlock
  <2>3. (s = "paused") \in BOOLEAN
    OBVIOUS
  <2>4. e.parkGen + 1 \in Nat
    BY <1>2 DEF ControlBlock
  <2> QED BY <2>1, <2>2, <2>3, <2>4, Zenon DEF post_verb_locked, e
<1>4. d.poolSwitch = c.poolSwitch /\ d.mutating = TRUE /\ d.state = "switching"
  BY DEF post_verb_locked, ControlBlock
<1>5. /\ d.parked = c.parked
      /\ \/ d.parkGen = c.parkGen /\ d.parkedGen = c.parkedGen
         \/ d.parkGen = c.parkGen + 1 /\ d.parkedGen = 0
  BY DEF post_verb_locked, ControlBlock
<1> HIDE DEF d
<1>6. Coherent(d) /\ ~HandedOver(d)
  BY <1>1, <1>4 DEF Coherent, HandedOver
<1> QED BY <1>3, <1>5, <1>6 DEF d

----------------------------------------------------------------------------
(* Counting.                                                                *)

(* control_pool_apply calls the hook for a request that names an algorithm.  *)
HookNamesAlgo == spc = "hook" => taken.algo \in Algo

(* The inductive invariant. ParkCount needs the generations bounded to know *)
(* that a new one starts empty; SwitchUnderPark needs the exact counts to   *)
(* conclude from g_parked_gen that everybody is in, and the closed park to  *)
(* know that nobody leaves.                                                 *)
BarrierInv == TypeOK /\ HookNamesAlgo /\ FlagsAgree /\ ParkCount /\ SwitchUnderPark

(* The sets that are counted are finite, and a full count means everybody. *)
LEMMA ParkedFinite ==
    /\ IsFiniteSet(Parked) /\ IsFiniteSet(ParkedNow)
    /\ Cardinality(Parked) \in Nat /\ Cardinality(ParkedNow) \in Nat
    /\ Cardinality(ParkedNow) >= N => ParkedNow = Worker
<1>1. Parked \subseteq Worker /\ ParkedNow \subseteq Worker
  BY DEF Parked, ParkedNow
<1>2. IsFiniteSet(Parked) /\ IsFiniteSet(ParkedNow) /\ IsFiniteSet(Worker)
  BY <1>1, FS_Subset, WorkerAssumption
<1>3. /\ Cardinality(Parked) \in Nat /\ Cardinality(ParkedNow) \in Nat
      /\ Cardinality(Worker) \in Nat
  BY <1>2, FS_CardinalityType
<1>4. Cardinality(ParkedNow) >= N => ParkedNow = Worker
  <2>1. /\ Cardinality(ParkedNow) <= Cardinality(Worker)
        /\ Cardinality(Worker) = Cardinality(ParkedNow) => Worker = ParkedNow
    BY <1>1, <1>2, FS_Subset
  <2> QED BY <1>3, <2>1 DEF N
<1> QED BY <1>2, <1>3, <1>4

(* A step that moves nobody in or out and opens no generation. *)
LEMMA QuietStep ==
    ASSUME BarrierInv, Keeps(ctl, ctl'), Parked' = Parked, wgen' = wgen
    PROVE  FlagsAgree' /\ ParkCount' /\ SwitchUnderPark'
<1>1. /\ ctl'.parked = ctl.parked /\ ctl'.parkedGen = ctl.parkedGen
      /\ ctl'.parkGen = ctl.parkGen
  BY DEF Keeps, SameCounts
<1>2. ParkedNow' = ParkedNow
  <2>1. ParkedNow = {w \in Parked : wgen[w] = ctl.parkGen}
    BY DEF Parked, ParkedNow
  <2>2. ParkedNow' = {w \in Parked' : wgen'[w] = ctl'.parkGen}
    BY DEF Parked, ParkedNow
  <2> QED BY <1>1, <2>1, <2>2
<1>3. ParkCount'
  BY <1>1, <1>2 DEF BarrierInv, ParkCount
<1>4. FlagsAgree'
  BY <1>1 DEF BarrierInv, FlagsAgree, Keeps, Coherent
<1>5. SwitchUnderPark'
  <2> SUFFICES ASSUME HandedOver(ctl') PROVE ParkedNow' = Worker
    BY DEF SwitchUnderPark, HandedOver
  <2>1. CASE HandedOver(ctl)
    BY <1>2, <2>1 DEF BarrierInv, SwitchUnderPark, HandedOver
  <2>2. CASE all_parked_locked(ctl)
    BY <1>2, <2>2, ParkedFinite DEF BarrierInv, ParkCount, all_parked_locked
  <2> QED BY <2>1, <2>2 DEF Keeps
<1> QED BY <1>3, <1>4, <1>5

(* The step that opens a new generation: it starts with nobody in it. *)
LEMMA NewGeneration ==
    ASSUME BarrierInv, Parked' = Parked, wgen' = wgen,
           NEW d \in ControlBlock, Coherent(d), ~HandedOver(d),
           d.parked = ctl.parked, d.parkGen = ctl.parkGen + 1, d.parkedGen = 0,
           Keeps(d, ctl')
    PROVE  FlagsAgree' /\ ParkCount' /\ SwitchUnderPark'
<1>1. /\ ctl'.parked = ctl.parked /\ ctl'.parkedGen = 0
      /\ ctl'.parkGen = ctl.parkGen + 1
  BY DEF Keeps, SameCounts
<1>2. ctl.parkGen \in Nat /\ wgen \in [Worker -> Nat]
  BY DEF BarrierInv, TypeOK, ControlBlock
<1>3. ParkedNow' = {}
  BY <1>1, <1>2 DEF ParkedNow, BarrierInv, FlagsAgree
<1>4. ParkCount'
  BY <1>1, <1>3, FS_EmptySet DEF BarrierInv, ParkCount
<1>5. FlagsAgree'
  BY <1>1, <1>2 DEF BarrierInv, FlagsAgree, Keeps, Coherent
<1>6. ~all_parked_locked(d)
  <2>1. N \in Nat /\ N # 0
    BY WorkerAssumption, FS_CardinalityType, FS_EmptySet DEF N
  <2> QED BY <2>1 DEF all_parked_locked
<1>7. SwitchUnderPark'
  BY <1>6 DEF SwitchUnderPark, HandedOver, Keeps
<1> QED BY <1>4, <1>5, <1>7

(* One worker comes in, under the generation that is current. *)
LEMMA Arrival ==
    ASSUME BarrierInv, NEW w \in Worker, wpc[w] # "parked",
           wpc' = [wpc EXCEPT ![w] = "parked"],
           wgen' = [wgen EXCEPT ![w] = ctl.parkGen],
           Keeps([ctl EXCEPT !.parked = @ + 1, !.parkedGen = @ + 1], ctl')
    PROVE  FlagsAgree' /\ ParkCount' /\ SwitchUnderPark'
<1> DEFINE c == [ctl EXCEPT !.parked = @ + 1, !.parkedGen = @ + 1]
<1>1. ctl \in ControlBlock /\ wpc \in [Worker -> WorkerPc] /\ wgen \in [Worker -> Nat]
  BY DEF BarrierInv, TypeOK
<1>2. /\ ctl'.parked = ctl.parked + 1 /\ ctl'.parkedGen = ctl.parkedGen + 1
      /\ ctl'.parkGen = ctl.parkGen
  BY <1>1 DEF Keeps, SameCounts, ControlBlock
<1>3. Parked' = Parked \cup {w} /\ w \notin Parked
  BY <1>1 DEF Parked
<1>4. ParkedNow' = ParkedNow \cup {w} /\ w \notin ParkedNow
  BY <1>1, <1>2 DEF ParkedNow
<1>5. ParkCount'
  <2>1. /\ Cardinality(Parked \cup {w}) = Cardinality(Parked) + 1
        /\ Cardinality(ParkedNow \cup {w}) = Cardinality(ParkedNow) + 1
    BY <1>3, <1>4, ParkedFinite, FS_AddElement, Zenon
  <2> QED BY <1>2, <1>3, <1>4, <2>1 DEF BarrierInv, ParkCount
<1>6. FlagsAgree'
  <2>1. ctl.parkGen \in Nat
    BY <1>1 DEF ControlBlock
  <2> QED BY <1>1, <1>2, <2>1 DEF BarrierInv, FlagsAgree, Keeps, Coherent
<1>7. SwitchUnderPark'
  <2> SUFFICES ASSUME HandedOver(ctl') PROVE ParkedNow' = Worker
    BY DEF SwitchUnderPark, HandedOver
  <2>1. ~HandedOver(c)
    BY <1>1, <1>4 DEF HandedOver, ControlBlock, BarrierInv, SwitchUnderPark
  <2>2. ctl'.parkedGen >= N
    BY <1>1, <1>2, <2>1 DEF Keeps, all_parked_locked, ControlBlock
  <2>3. Cardinality(ParkedNow') >= N
    BY <1>5, <2>2 DEF ParkCount
  <2>4. Cardinality(ParkedNow') >= N => ParkedNow' = Worker
    <3>1. ParkedNow' \subseteq Worker
      BY DEF ParkedNow
    <3>2. /\ Cardinality(ParkedNow') <= Cardinality(Worker)
          /\ Cardinality(Worker) = Cardinality(ParkedNow') => Worker = ParkedNow'
          /\ IsFiniteSet(ParkedNow')
      BY <3>1, FS_Subset, WorkerAssumption
    <3>3. Cardinality(ParkedNow') \in Nat /\ Cardinality(Worker) \in Nat
      BY <3>2, FS_CardinalityType, WorkerAssumption
    <3> QED BY <3>2, <3>3 DEF N
  <2> QED BY <2>3, <2>4
<1> QED BY <1>5, <1>6, <1>7

(* One worker leaves: the guard of the wait keeps everybody in while a pool *)
(* change is handed over.                                                   *)
LEMMA Departure ==
    ASSUME BarrierInv, NEW w \in Worker, wpc[w] = "parked",
           ~ctl.park \/ ctl.parkGen # wgen[w] \/ ctl.shutdown,
           wpc' = [wpc EXCEPT ![w] = "left"], wgen' = wgen,
           NEW c \in ControlBlock,
           c = [ctl EXCEPT !.parked = @ - 1,
                           !.parkedGen = IF ctl.parkGen = wgen[w] THEN @ - 1 ELSE @],
           Keeps(c, ctl')
    PROVE  FlagsAgree' /\ ParkCount' /\ SwitchUnderPark'
<1>1. ctl \in ControlBlock /\ wpc \in [Worker -> WorkerPc] /\ wgen \in [Worker -> Nat]
  BY DEF BarrierInv, TypeOK
<1>2. /\ ctl'.parked = ctl.parked - 1
      /\ ctl'.parkedGen = IF ctl.parkGen = wgen[w] THEN ctl.parkedGen - 1
                                                   ELSE ctl.parkedGen
      /\ ctl'.parkGen = ctl.parkGen
  BY <1>1 DEF Keeps, SameCounts, ControlBlock
<1>3. Parked' = Parked \ {w} /\ w \in Parked
  BY <1>1 DEF Parked
<1>4. ParkedNow' = ParkedNow \ {w} /\ (w \in ParkedNow <=> ctl.parkGen = wgen[w])
  BY <1>1, <1>2 DEF ParkedNow
<1>5. ParkCount'
  <2>1. ctl'.parked = Cardinality(Parked')
    BY <1>2, <1>3, ParkedFinite, FS_RemoveElement DEF BarrierInv, ParkCount
  <2>2. ctl'.parkedGen = Cardinality(ParkedNow')
    BY <1>2, <1>4, ParkedFinite, FS_RemoveElement DEF BarrierInv, ParkCount
  <2> QED BY <2>1, <2>2 DEF ParkCount
<1>6. FlagsAgree'
  BY <1>1, <1>2 DEF BarrierInv, FlagsAgree, Keeps, Coherent
<1>7. ~HandedOver(c)
  <2>1. c.poolSwitch = ctl.poolSwitch /\ c.posted = ctl.posted
        /\ c.applied = ctl.applied /\ c.shutdown = ctl.shutdown
    BY <1>1 DEF ControlBlock
  <2> QED BY <1>4, <2>1 DEF HandedOver, BarrierInv, SwitchUnderPark, FlagsAgree
<1>8. ~all_parked_locked(c)
  <2>1. ParkedNow' # Worker
    BY <1>4
  <2>2. Cardinality(ParkedNow') < N
    <3>1. ParkedNow' \subseteq Worker
      BY DEF ParkedNow
    <3>2. /\ Cardinality(ParkedNow') <= Cardinality(Worker)
          /\ Cardinality(Worker) = Cardinality(ParkedNow') => Worker = ParkedNow'
          /\ IsFiniteSet(ParkedNow')
      BY <3>1, FS_Subset, WorkerAssumption
    <3>3. Cardinality(ParkedNow') \in Nat /\ Cardinality(Worker) \in Nat
      BY <3>2, FS_CardinalityType, WorkerAssumption
    <3> QED BY <2>1, <3>2, <3>3 DEF N
  <2>3. c.parkedGen = Cardinality(ParkedNow') /\ N \in Nat /\ c.parkedGen \in Nat
    BY <1>5, FS_CardinalityType, WorkerAssumption
       DEF Keeps, SameCounts, ParkCount, N, ControlBlock
  <2> QED BY <2>2, <2>3 DEF all_parked_locked
<1>9. SwitchUnderPark'
  BY <1>7, <1>8 DEF SwitchUnderPark, HandedOver, Keeps
<1> QED BY <1>5, <1>6, <1>9

----------------------------------------------------------------------------
(* The induction, thread by thread. Core is what a step must re-establish;  *)
(* the other variables' types follow from each action by itself.            *)

Core == FlagsAgree /\ ParkCount /\ SwitchUnderPark

(* The type of everything but the control block, and HookNamesAlgo. *)
RestOK ==
    /\ wpc \in [Worker -> WorkerPc] /\ wgen \in [Worker -> Nat]
    /\ bound \in [Worker -> Algo]
    /\ kernel \in [Worker -> BOOLEAN]
    /\ spc \in StratumPc /\ site \in Site /\ taken \in Profile
    /\ curl \in BOOLEAN /\ surl \in Pool /\ rpc_url \in Pool
    /\ origin \in Pool /\ stranded \in BOOLEAN
    /\ opt_algo \in Algo /\ need_reset \in BOOLEAN /\ job \in BOOLEAN
    /\ stop \in BOOLEAN
    /\ apc \in {"idle", "wait"} /\ want \in RunState \cup {"pool"}
    /\ posts \in Nat
    /\ spc = "hook" => taken.algo \in Algo

(* The invariant taken apart into what concerns the control block, what does *)
(* not, and the counting core, before and after a step.                     *)
LEMMA Decompose ==
    /\ BarrierInv <=> ctl \in ControlBlock /\ RestOK /\ Core
    /\ BarrierInv' <=> ctl' \in ControlBlock /\ RestOK' /\ Core'
  BY DEF BarrierInv, TypeOK, HookNamesAlgo, RestOK, Core

(* The control block itself is one the helper lemmas apply to. *)
LEMMA CoherentNow ==
    ASSUME BarrierInv PROVE ctl \in ControlBlock /\ Coherent(ctl) /\ Keeps(ctl, ctl)
  BY DEF BarrierInv, TypeOK, FlagsAgree, Coherent, Keeps, SameCounts

(* The step that posts a pool change to an up-to-date block, settled or not. *)
LEMMA PoolPosted ==
    ASSUME BarrierInv, Parked' = Parked, wgen' = wgen,
           NEW c, Keeps(ctl, c), ~c.mutating,
           opt_algo \in Algo, rpc_url \in Pool,
           NEW u \in Pool, NEW a \in Algo \cup {NoAlgo},
           NEW r \in BOOLEAN, NEW s \in RunState,
           \/ ctl' = post_pool_locked(c, u, a, r, s)
           \/ ctl' = settle_locked(post_pool_locked(c, u, a, r, s))
    PROVE  Core' /\ ctl' \in ControlBlock
<1> DEFINE d == post_pool_locked(c, u, a, r, s)
<1>1. c \in ControlBlock /\ Coherent(c) /\ SameCounts(ctl, c)
  BY DEF Keeps
<1>2. /\ d \in ControlBlock /\ Coherent(d) /\ ~HandedOver(d) /\ d.parked = c.parked
      /\ d.parkGen = c.parkGen + 1 /\ d.parkedGen = 0
  BY <1>1, PostPoolOpens, Zenon
<1> HIDE DEF d
<1>3. Keeps(d, ctl')
  <2>1. Keeps(d, d)
    BY <1>2 DEF Keeps, SameCounts
  <2> QED BY <1>2, <2>1, SettleKeeps DEF d
<1>4. d.parked = ctl.parked /\ d.parkGen = ctl.parkGen + 1
  BY <1>1, <1>2 DEF SameCounts
<1> QED BY <1>2, <1>3, <1>4, NewGeneration DEF Core, Keeps

(* The step that posts a verb and settles it. *)
LEMMA VerbPosted ==
    ASSUME BarrierInv, Parked' = Parked, wgen' = wgen,
           NEW c, Keeps(ctl, c), ~c.mutating, NEW s \in RunState,
           ctl' = settle_locked(post_verb_locked(c, s))
    PROVE  Core' /\ ctl' \in ControlBlock
<1> DEFINE d == post_verb_locked(c, s)
<1>1. c \in ControlBlock /\ Coherent(c) /\ SameCounts(ctl, c)
  BY DEF Keeps
<1>2. /\ d \in ControlBlock /\ Coherent(d) /\ ~HandedOver(d) /\ d.parked = c.parked
      /\ \/ d.parkGen = c.parkGen /\ d.parkedGen = c.parkedGen
         \/ d.parkGen = c.parkGen + 1 /\ d.parkedGen = 0
  BY <1>1, PostVerbOpens, Zenon
<1>3. Keeps(d, ctl')
  BY <1>2, SettleKeeps, Zenon
<1> HIDE DEF d
<1>4. CASE d.parkGen = c.parkGen /\ d.parkedGen = c.parkedGen
  <2>1. Keeps(ctl, d)
    BY <1>1, <1>2, <1>4 DEF Keeps, SameCounts
  <2>2. Keeps(ctl, ctl')
    BY <1>3, <2>1, KeepsTransitive
  <2> QED BY <2>2, QuietStep DEF Core, Keeps
<1>5. CASE d.parkGen = c.parkGen + 1 /\ d.parkedGen = 0
  <2>1. d.parked = ctl.parked /\ d.parkGen = ctl.parkGen + 1
    BY <1>1, <1>2, <1>5 DEF SameCounts
  <2> QED BY <1>2, <1>3, <1>5, <2>1, NewGeneration DEF Core, Keeps
<1> QED BY <1>2, <1>4, <1>5

(* A worker that comes in is counted twice, and the block stays well-formed. *)
LEMMA ArrivingCounts ==
    ASSUME BarrierInv
    PROVE  LET c == [ctl EXCEPT !.parked = @ + 1, !.parkedGen = @ + 1]
           IN  c \in ControlBlock /\ Coherent(c)
<1> DEFINE c == [ctl EXCEPT !.parked = @ + 1, !.parkedGen = @ + 1]
<1>1. ctl \in ControlBlock /\ Coherent(ctl)
  BY CoherentNow
<1>2. ctl.parked + 1 \in Nat /\ ctl.parkedGen + 1 \in Nat
  BY <1>1 DEF ControlBlock
<1>3. ASSUME NEW x \in Nat, NEW y \in Nat
      PROVE  [ctl EXCEPT !.parked = x, !.parkedGen = y] \in ControlBlock
  BY <1>1 DEF ControlBlock
<1>4. c \in ControlBlock
  BY <1>2, <1>3, Zenon
<1>5. Coherent(c)
  BY <1>1 DEF ControlBlock, Coherent
<1> QED BY <1>4, <1>5

(* A worker that leaves was counted, so neither counter runs below zero. *)
LEMMA LeavingCounts ==
    ASSUME BarrierInv, NEW w \in Worker, wpc[w] = "parked"
    PROVE  LET c == [ctl EXCEPT !.parked = @ - 1, !.parkedGen =
                                IF ctl.parkGen = wgen[w] THEN @ - 1 ELSE @]
           IN  c \in ControlBlock /\ Coherent(c)
<1> DEFINE g == IF ctl.parkGen = wgen[w] THEN ctl.parkedGen - 1 ELSE ctl.parkedGen
           c == [ctl EXCEPT !.parked = @ - 1, !.parkedGen =
                              IF ctl.parkGen = wgen[w] THEN @ - 1 ELSE @]
<1>1. ctl \in ControlBlock /\ Coherent(ctl) /\ Core
  BY Decompose, CoherentNow
<1>2. ctl.parked - 1 \in Nat /\ g \in Nat
  <2>1. /\ w \in Parked
        /\ ctl.parkGen = wgen[w] => w \in ParkedNow
    BY DEF Parked, ParkedNow
  <2>2. /\ Cardinality(Parked) # 0
        /\ ctl.parkGen = wgen[w] => Cardinality(ParkedNow) # 0
    BY <2>1, ParkedFinite, FS_EmptySet
  <2> QED BY <1>1, <2>2, ParkedFinite DEF Core, ParkCount, ControlBlock
<1>3. ASSUME NEW x \in Nat, NEW y \in Nat
      PROVE  [ctl EXCEPT !.parked = x, !.parkedGen = y] \in ControlBlock
  BY <1>1 DEF ControlBlock
<1>4. c \in ControlBlock
  BY <1>2, <1>3, Zenon
<1>5. Coherent(c)
  BY <1>1 DEF ControlBlock, Coherent
<1> QED BY <1>4, <1>5

(* Each step of a worker preserves the invariant. *)
LEMMA WorkerPreserves ==
    ASSUME BarrierInv, NEW w \in Worker, WorkerStep(w)
    PROVE  BarrierInv'
<1>1. ctl \in ControlBlock /\ Coherent(ctl) /\ Keeps(ctl, ctl) /\ RestOK /\ Core
  BY Decompose, CoherentNow
<1>2. ASSUME UNCHANGED <<ctl, wgen>>, wpc[w] # "parked",
             NEW l \in WorkerPc, l # "parked", wpc' = [wpc EXCEPT ![w] = l], RestOK'
      PROVE  BarrierInv'
  <2>1. Parked' = Parked
    BY <1>1, <1>2 DEF RestOK, Parked
  <2>2. Keeps(ctl, ctl')
    BY <1>1, <1>2
  <2>3. Core'
    BY <1>2, <2>1, <2>2, QuietStep DEF Core
  <2> QED BY <1>1, <1>2, <2>3, Decompose
<1> USE DEF urlVars, urlHistory
<1>3. CASE NoticePark(w)
  BY <1>1, <1>2, <1>3 DEF NoticePark, RestOK, WorkerPc, stratumVars, apiVars
<1>4. CASE PassCheck(w)
  BY <1>1, <1>2, <1>4 DEF PassCheck, RestOK, WorkerPc, stratumVars, apiVars
<1>5. CASE GoRound(w)
  BY <1>1, <1>2, <1>5 DEF GoRound, RestOK, WorkerPc, stratumVars, apiVars
<1>6. CASE ReadTerms(w)
  BY <1>1, <1>2, <1>6 DEF ReadTerms, RestOK, WorkerPc, stratumVars, apiVars
<1>7. CASE EnterPark(w)
  <2> DEFINE c == [ctl EXCEPT !.parked = @ + 1, !.parkedGen = @ + 1]
  <2>1. CASE ctl.shutdown
    BY <1>1, <1>2, <1>7, <2>1 DEF EnterPark, RestOK, WorkerPc, stratumVars, apiVars
  <2>2. CASE ~ctl.shutdown
    <3>1. /\ wpc[w] # "parked" /\ wpc' = [wpc EXCEPT ![w] = "parked"]
          /\ wgen' = [wgen EXCEPT ![w] = ctl.parkGen] /\ ctl' = settle_locked(c)
      BY <1>7, <2>2 DEF EnterPark
    <3>2. c \in ControlBlock /\ Coherent(c)
      BY ArrivingCounts, Zenon
    <3>3. Keeps(c, ctl')
      BY <3>1, <3>2, SettleKeeps, Zenon
    <3>4. Core'
      BY <3>1, <3>3, Arrival, Zenon DEF Core
    <3>5. RestOK'
      <4>1. ctl.parkGen \in Nat
        BY <1>1 DEF ControlBlock
      <4> QED BY <1>1, <1>7, <3>1, <4>1
              DEF EnterPark, RestOK, WorkerPc, stratumVars, apiVars
    <3> QED BY <3>3, <3>4, <3>5, Decompose DEF Keeps
  <2> QED BY <2>1, <2>2
<1>8. CASE LeavePark(w)
  <2> DEFINE c == [ctl EXCEPT !.parked = @ - 1, !.parkedGen =
                                IF ctl.parkGen = wgen[w] THEN @ - 1 ELSE @]
  <2>1. /\ wpc[w] = "parked"
        /\ ~ctl.park \/ ctl.parkGen # wgen[w] \/ ctl.shutdown
        /\ wpc' = [wpc EXCEPT ![w] = "left"] /\ wgen' = wgen
        /\ ctl' = settle_locked(c)
    BY <1>8 DEF LeavePark
  <2>3. c \in ControlBlock /\ Coherent(c)
    BY <2>1, LeavingCounts, Zenon
  <2>4. Keeps(c, ctl')
    BY <2>1, <2>3, SettleKeeps, Zenon
  <2>5. Core'
    BY <2>1, <2>3, <2>4, Departure, Zenon DEF Core
  <2>6. RestOK'
    BY <1>1, <1>8 DEF LeavePark, RestOK, WorkerPc, stratumVars, apiVars
  <2> QED BY <2>4, <2>5, <2>6, Decompose DEF Keeps
<1>9. CASE Rebind(w)
  BY <1>1, <1>2, <1>9 DEF Rebind, RestOK, WorkerPc, stratumVars, apiVars
<1>10. CASE BuildKernel(w)
  BY <1>1, <1>2, <1>10 DEF BuildKernel, RestOK, WorkerPc, stratumVars, apiVars
<1>11. CASE BuildFailsRecoverably(w)
  BY <1>1, <1>2, <1>11
     DEF BuildFailsRecoverably, RestOK, WorkerPc, stratumVars, apiVars
<1>12. CASE BuildFailsFatally(w)
  BY <1>1, <1>2, <1>12
     DEF BuildFailsFatally, RestOK, WorkerPc, stratumVars, apiVars
<1>13. CASE control_switch_failed(w)
  <2> DEFINE c == UpToDate(ctl)
             d == post_pool_locked(c, c.prevUrl, c.prevAlgo, TRUE, c.state)
  <2>1. Keeps(ctl, c)
    BY <1>1, UpToDateKeeps
  <2>2. /\ wpc[w] # "parked" /\ wpc' = [wpc EXCEPT ![w] = "top"] /\ wgen' = wgen
        /\ \/ ctl' = c
           \/ ~c.mutating /\ ctl' = d
    BY <1>13, Zenon DEF control_switch_failed
  <2>3. Parked' = Parked
    BY <1>1, <2>2 DEF RestOK, Parked
  <2>4. RestOK'
    BY <1>1, <1>13 DEF control_switch_failed, RestOK, WorkerPc, stratumVars, apiVars
  <2>5. CASE ctl' = c
    BY <2>1, <2>2, <2>3, <2>4, <2>5, QuietStep, Decompose DEF Core, Keeps
  <2>6. CASE ~c.mutating /\ ctl' = d
    <3>1. /\ c.prevUrl \in Pool /\ c.prevAlgo \in Algo \cup {NoAlgo}
          /\ c.state \in RunState
      BY <2>1, <2>6 DEF Keeps, ControlBlock, Coherent, State
    <3> HIDE DEF c
    <3>2. Core' /\ ctl' \in ControlBlock
      BY <1>1, <2>1, <2>2, <2>3, <2>6, <3>1, TRUE \in BOOLEAN, PoolPosted, Zenon
         DEF RestOK
    <3> QED BY <2>4, <3>2, Decompose
  <2> QED BY <2>2, <2>5, <2>6
<1>14. CASE WorkerExit(w)
  BY <1>1, <1>2, <1>14 DEF WorkerExit, RestOK, WorkerPc, stratumVars, apiVars
<1> QED
  BY <1>3, <1>4, <1>5, <1>6, <1>7, <1>8, <1>9, <1>10, <1>11, <1>12, <1>13,
     <1>14 DEF WorkerStep

(* A step that leaves every worker where it is and only touches the control *)
(* block through the helpers.                                               *)
LEMMA NoWorkerMoves ==
    ASSUME BarrierInv, Keeps(ctl, ctl'), UNCHANGED <<wpc, wgen>>, RestOK'
    PROVE  BarrierInv'
<1>1. Parked' = Parked
  BY DEF Parked
<1> QED BY <1>1, QuietStep, Decompose DEF Core, Keeps

(* Each step of the stratum thread preserves the invariant. *)
LEMMA StratumPreserves ==
    ASSUME BarrierInv, StratumStep
    PROVE  BarrierInv'
<1>1. ctl \in ControlBlock /\ Coherent(ctl) /\ Keeps(ctl, ctl) /\ RestOK
  BY Decompose, CoherentNow
<1> USE ProfileAssumption DEF RestOK, StratumPc, Site, stratumVars, workerVars, apiVars,
                              urlVars, urlHistory, stratum_take_url
<1>2. CASE TopHold
  BY <1>1, <1>2, NoWorkerMoves DEF TopHold
<1>3. CASE TopReset
  BY <1>1, <1>3, NoWorkerMoves DEF TopReset
<1>4. CASE TopRun
  BY <1>1, <1>4, NoWorkerMoves DEF TopRun
<1>5. CASE ConnectLoop
  BY <1>1, <1>5, NoWorkerMoves DEF ConnectLoop
<1>6. CASE DialSucceeds
  <2>1. Keeps(ctl, ctl')
    BY <1>1, <1>6, ConnectedKeeps DEF DialSucceeds
  <2> QED BY <1>1, <1>6, <2>1, NoWorkerMoves DEF DialSucceeds
<1>7. CASE DialFails
  BY <1>1, <1>7, NoWorkerMoves DEF DialFails
<1>8. CASE DialGivesUp
  BY <1>1, <1>8, NoWorkerMoves DEF DialGivesUp
<1>9. CASE NothingPosted
  BY <1>1, <1>9, NoWorkerMoves DEF NothingPosted
<1>10. CASE TakeRequest
  <2>1. ctl' = [ctl EXCEPT !.posted = FALSE, !.applied = TRUE] /\ ctl.posted
    BY <1>10 DEF TakeRequest
  <2>2. ctl' \in ControlBlock
    BY <1>1, <2>1 DEF ControlBlock
  <2>3. Coherent(ctl') /\ SameCounts(ctl, ctl') /\ (HandedOver(ctl') => HandedOver(ctl))
    BY <1>1, <2>1 DEF ControlBlock, Coherent, SameCounts, HandedOver
  <2>4. Keeps(ctl, ctl')
    BY <2>2, <2>3 DEF Keeps
  <2>5. taken' \in Profile /\ (spc' = "hook" => taken'.algo \in Algo)
    BY <1>1, <1>10 DEF TakeRequest, Profile, ControlBlock
  <2> QED BY <1>1, <1>10, <2>4, <2>5, NoWorkerMoves DEF TakeRequest
<1>11. CASE HookRefuses
  <2>1. Keeps(ctl, ctl')
    BY <1>1, <1>11, RollbackKeeps DEF HookRefuses
  <2> QED BY <1>1, <1>11, <2>1, NoWorkerMoves DEF HookRefuses
<1>12. CASE HookAccepts
  BY <1>1, <1>12, NoWorkerMoves DEF HookAccepts
<1>13. CASE SwapUrl
  BY <1>1, <1>13, NoWorkerMoves DEF SwapUrl, Profile
<1>14. CASE ApplyReturns
  <2>1. Keeps(ctl, ctl')
    BY <1>1, <1>14, ConnectedKeeps DEF ApplyReturns
  <2> QED BY <1>1, <1>14, <2>1, NoWorkerMoves DEF ApplyReturns
<1>15. CASE ReceiveLine
  BY <1>1, <1>15, NoWorkerMoves DEF ReceiveLine
<1>16. CASE WaitInterrupted
  BY <1>1, <1>16, NoWorkerMoves DEF WaitInterrupted
<1>17. CASE ConnectionLost
  BY <1>1, <1>17, NoWorkerMoves DEF ConnectionLost
<1>18. CASE DialSucceedsAndMoves
  <2>1. Keeps(ctl, ctl')
    BY <1>1, <1>18, ConnectedKeeps DEF DialSucceedsAndMoves
  <2> QED BY <1>1, <1>18, <2>1, NoWorkerMoves DEF DialSucceedsAndMoves
<1>19. CASE stratum_reconnect
  BY <1>1, <1>19, NoWorkerMoves DEF stratum_reconnect
<1> QED
  BY <1>2, <1>3, <1>4, <1>5, <1>6, <1>7, <1>8, <1>9, <1>10, <1>11, <1>12,
     <1>13, <1>14, <1>15, <1>16, <1>17, <1>18, <1>19 DEF StratumStep

(* Each step of the API thread preserves the invariant. *)
LEMMA ApiPreserves ==
    ASSUME BarrierInv, ApiStep
    PROVE  BarrierInv'
<1>1. ctl \in ControlBlock /\ Coherent(ctl) /\ Keeps(ctl, ctl) /\ RestOK
  BY Decompose, CoherentNow
<1>2. Keeps(ctl, UpToDate(ctl)) /\ Keeps(ctl, settle_locked(ctl))
      /\ Keeps(ctl, rollback_locked(ctl))
  BY <1>1, UpToDateKeeps, SettleKeeps, RollbackKeeps
<1> USE DEF RestOK, stratumVars, urlVars, urlHistory, workerVars, apiVars
<1>3. ASSUME NEW s \in Verb, VerbAnswered(s)
      PROVE  BarrierInv'
  BY <1>1, <1>2, <1>3, NoWorkerMoves DEF VerbAnswered
<1>4. ASSUME NEW s \in Verb, control_request(s)
      PROVE  BarrierInv'
  <2>1. s \in RunState
    BY ProfileAssumption DEF RunState
  <2>2. /\ ~UpToDate(ctl).mutating /\ UNCHANGED <<wpc, wgen>>
        /\ ctl' = settle_locked(post_verb_locked(UpToDate(ctl), s))
    BY <1>4 DEF control_request
  <2>3. Parked' = Parked
    BY <2>2 DEF Parked
  <2>4. Core' /\ ctl' \in ControlBlock
    BY <1>2, <2>1, <2>2, <2>3, VerbPosted, Zenon
  <2>5. RestOK'
    BY <1>1, <1>4, <2>1 DEF control_request
  <2> QED BY <2>4, <2>5, Decompose
<1>5. ASSUME NEW u \in Target, NEW a \in SwitchAlgo \cup {NoAlgo},
             NEW s \in {"same", "running", "paused"}, control_pool_request(u, a, s)
      PROVE  BarrierInv'
  <2> DEFINE c == UpToDate(ctl)
             t == IF s = "same" THEN c.state ELSE s
  <2>1. u \in Pool /\ a \in Algo \cup {NoAlgo}
    BY ProfileAssumption
  <2>2. /\ ~c.mutating /\ UNCHANGED <<wpc, wgen>>
        /\ ctl' = settle_locked(post_pool_locked(c, u, a, FALSE, t))
    BY <1>5 DEF control_pool_request
  <2>3. Parked' = Parked
    BY <2>2 DEF Parked
  <2>4. t \in RunState
    BY <1>2, <2>2 DEF Keeps, Coherent, ControlBlock, State, RunState
  <2>5. Core' /\ ctl' \in ControlBlock
    <3> HIDE DEF c, t
    <3>1. Keeps(ctl, c) /\ opt_algo \in Algo /\ rpc_url \in Pool
      BY <1>1, <1>2 DEF c
    <3> QED BY <2>1, <2>2, <2>3, <2>4, <3>1, FALSE \in BOOLEAN, PoolPosted, Zenon
  <2>6. RestOK'
    BY <1>1, <1>5 DEF control_pool_request
  <2> QED BY <2>5, <2>6, Decompose
<1>6. CASE control_status
  BY <1>1, <1>2, <1>6, NoWorkerMoves DEF control_status
<1>7. CASE WaitEnds
  BY <1>1, <1>2, <1>7, NoWorkerMoves DEF WaitEnds
<1>8. CASE WaitTimesOut
  <2> DEFINE c == settle_locked(ctl)
  <2>1. Keeps(c, expire_locked(c)) /\ Keeps(c, rollback_locked(c))
    BY <1>2, ExpireKeeps, RollbackKeeps DEF Keeps
  <2>2. Keeps(ctl, expire_locked(c)) /\ Keeps(ctl, rollback_locked(c))
    BY <1>2, <2>1, KeepsTransitive
  <2>3. Keeps(ctl, ctl')
    BY <1>8, <2>2 DEF WaitTimesOut
  <2> QED BY <1>1, <1>8, <2>3, NoWorkerMoves DEF WaitTimesOut
<1>9. CASE WaitAccepted
  BY <1>1, <1>2, <1>9, NoWorkerMoves DEF WaitAccepted
<1> QED
  BY <1>3, <1>4, <1>5, <1>6, <1>7, <1>8, <1>9 DEF ApiStep, ApiWait

(* The clock and the end of the run preserve the invariant. *)
LEMMA ClockPreserves ==
    ASSUME BarrierInv, DeadlinePasses \/ IntervalPasses \/ worker_request_stop
    PROVE  BarrierInv'
<1>1. ctl \in ControlBlock /\ Coherent(ctl) /\ RestOK
  BY Decompose, CoherentNow
<1> USE DEF RestOK, stratumVars, urlVars, urlHistory, workerVars, apiVars
<1>2. CASE DeadlinePasses
  <2>1. ctl' = [ctl EXCEPT !.late = TRUE]
    BY <1>2 DEF DeadlinePasses
  <2>2. ctl' \in ControlBlock
    BY <1>1, <2>1 DEF ControlBlock
  <2>3. Coherent(ctl') /\ SameCounts(ctl, ctl') /\ (HandedOver(ctl') => HandedOver(ctl))
    BY <1>1, <2>1 DEF ControlBlock, Coherent, SameCounts, HandedOver
  <2> QED BY <1>1, <1>2, <2>2, <2>3, NoWorkerMoves DEF DeadlinePasses, Keeps
<1>3. CASE IntervalPasses
  <2>1. ctl' = [ctl EXCEPT !.throttled = FALSE]
    BY <1>3 DEF IntervalPasses
  <2>2. ctl' \in ControlBlock
    BY <1>1, <2>1 DEF ControlBlock
  <2>3. Coherent(ctl') /\ SameCounts(ctl, ctl') /\ (HandedOver(ctl') => HandedOver(ctl))
    BY <1>1, <2>1 DEF ControlBlock, Coherent, SameCounts, HandedOver
  <2> QED BY <1>1, <1>3, <2>2, <2>3, NoWorkerMoves DEF IntervalPasses, Keeps
<1>4. CASE worker_request_stop
  <2>1. ctl' = [ctl EXCEPT !.shutdown = TRUE, !.park = FALSE, !.retain = FALSE,
                           !.posted = FALSE, !.inFlight = FALSE, !.hold = FALSE]
    BY <1>4 DEF worker_request_stop
  <2>2. ctl' \in ControlBlock
    BY <1>1, <2>1 DEF ControlBlock
  <2>3. Coherent(ctl') /\ SameCounts(ctl, ctl') /\ ~HandedOver(ctl')
    BY <1>1, <2>1 DEF ControlBlock, Coherent, SameCounts, HandedOver
  <2> QED BY <1>1, <1>4, <2>2, <2>3, NoWorkerMoves DEF worker_request_stop, Keeps
<1> QED BY <1>2, <1>3, <1>4

----------------------------------------------------------------------------
(* The theorems.                                                            *)

(* The miner starts with every flag clear and nobody parked. *)
LEMMA InitBarrier == Init => BarrierInv
<1> SUFFICES ASSUME Init PROVE BarrierInv
  OBVIOUS
<1>1. ctl \in ControlBlock
  BY ProfileAssumption DEF Init, control_init, ControlBlock, State, RunState
<1>2. RestOK
  BY ProfileAssumption
     DEF Init, RestOK, WorkerPc, StratumPc, Site, Profile, RunState
<1>3. Parked = {} /\ ParkedNow = {}
  BY DEF Init, Parked, ParkedNow
<1>4. Core
  BY <1>3, FS_EmptySet
     DEF Init, control_init, Core, FlagsAgree, ParkCount, SwitchUnderPark
<1> QED BY <1>1, <1>2, <1>4, Decompose

(* Every step of the miner, and every stutter, preserves the invariant. *)
LEMMA NextBarrier == BarrierInv /\ [Next]_vars => BarrierInv'
<1> SUFFICES ASSUME BarrierInv, [Next]_vars PROVE BarrierInv'
  OBVIOUS
<1>1. CASE UNCHANGED vars
  BY <1>1, Zenon DEF vars, BarrierInv, TypeOK, HookNamesAlgo, FlagsAgree, ParkCount,
            SwitchUnderPark, Parked, ParkedNow
<1>2. CASE Next
  BY <1>2, WorkerPreserves, StratumPreserves, ApiPreserves, ClockPreserves DEF Next
<1> QED BY <1>1, <1>2

(* The whole invariant, for every instance of the barrier. *)
THEOREM BarrierInvariant == Spec => []BarrierInv
  BY InitBarrier, NextBarrier, PTL DEF Spec

(* Every variable of the barrier and of the threads keeps its type; in       *)
(* particular the two counters never run below zero.                         *)
THEOREM TypeCorrect == Spec => []TypeOK
<1>1. BarrierInv => TypeOK
  BY DEF BarrierInv
<1> QED BY <1>1, BarrierInvariant, PTL

(* g_parked and g_parked_gen are exact, for any number of workers. *)
THEOREM CountsAreExact == Spec => []ParkCount
<1>1. BarrierInv => ParkCount
  BY DEF BarrierInv
<1> QED BY <1>1, BarrierInvariant, PTL

(* A pool change in flight on the stratum thread has every worker parked     *)
(* under its own generation until the barrier lets it go.                    *)
THEOREM SwitchIsUnderPark == Spec => []SwitchUnderPark
<1>1. BarrierInv => SwitchUnderPark
  BY DEF BarrierInv
<1> QED BY <1>1, BarrierInvariant, PTL

(* The flags of the barrier never contradict one another. *)
THEOREM FlagsStayCoherent == Spec => []FlagsAgree
<1>1. BarrierInv => FlagsAgree
  BY DEF BarrierInv
<1> QED BY <1>1, BarrierInvariant, PTL
----------------------------------------------------------------------------
(* Nothing is left to land.                                                 *)

(* What settle_locked would find to do: nothing to hand over, nothing to    *)
(* commit.                                                                  *)
Rested(c) ==
    c.state = "switching" =>
        /\ ~(c.poolSwitch /\ ~c.posted /\ ~c.applied /\ all_parked_locked(c))
        /\ ~Landed(c)

(* A block that settle_locked leaves alone. *)
LEMMA RestedIsSettled ==
    ASSUME NEW c, Rested(c) PROVE settle_locked(c) = c
  BY DEF Rested, settle_locked, HandOver

(* settle_locked, called once, has done all it can do: a change it has just *)
(* handed over is not one it would hand over again, and one it has          *)
(* committed is out of "switching".                                         *)
LEMMA SettleRests ==
    ASSUME NEW c \in ControlBlock PROVE Rested(settle_locked(c))
<1> DEFINE h == HandOver(c)
<1>1. CASE c.state # "switching"
  BY <1>1 DEF settle_locked, Rested
<1>2. CASE c.state = "switching" /\ Landed(h)
  <2>1. h.pending \in RunState
    BY DEF HandOver, ControlBlock
  <2>2. settle_locked(c) = Commit(h)
    BY <1>2 DEF settle_locked
  <2>3. h \in ControlBlock
    <3>1. [c EXCEPT !.posted = TRUE, !.inFlight = TRUE] \in ControlBlock
      BY DEF ControlBlock
    <3> QED BY <3>1 DEF HandOver
  <2> HIDE DEF h
  <2>4. Commit(h).state = h.pending
    BY <2>3 DEF Commit, TermsOf, ControlBlock
  <2> QED BY <2>1, <2>2, <2>4 DEF Rested, RunState
<1>3. CASE c.state = "switching" /\ ~Landed(h)
  <2>1. settle_locked(c) = h
    BY <1>3 DEF settle_locked
  <2>2. ~(h.poolSwitch /\ ~h.posted /\ ~h.applied /\ all_parked_locked(h))
    BY DEF HandOver, ControlBlock, all_parked_locked
  <2> QED BY <1>3, <2>1, <2>2 DEF Rested
<1> QED BY <1>1, <1>2, <1>3

(* A miner rolled back is in a run state again, so nothing can land. *)
LEMMA RollbackRests ==
    ASSUME NEW c \in ControlBlock
    PROVE  Rested(rollback_locked(c)) /\ rollback_locked(c).state = c.previous
<1>1. c.previous \in RunState /\ rollback_locked(c).state = c.previous
  BY DEF rollback_locked, TermsOf, ControlBlock
<1> QED BY <1>1 DEF Rested, RunState

(* An expired change has been rolled back or landed by force. *)
LEMMA ExpireRests ==
    ASSUME NEW c \in ControlBlock, Rested(c) PROVE Rested(expire_locked(c))
<1>1. [c EXCEPT !.done = TRUE, !.ok = FALSE] \in ControlBlock
  BY DEF ControlBlock
<1> QED BY <1>1, SettleRests, RollbackRests DEF expire_locked

(* What a request looks at is at rest. *)
LEMMA UpToDateRests ==
    ASSUME NEW c \in ControlBlock, Coherent(c) PROVE Rested(UpToDate(c))
<1>1. settle_locked(c) \in ControlBlock
  BY SettleKeeps DEF Keeps
<1> QED BY <1>1, SettleRests, ExpireRests DEF UpToDate

(* A pool change just posted waits: its generation has nobody in it yet,    *)
(* and there is at least one worker to wait for.                            *)
LEMMA PostPoolRests ==
    ASSUME NEW c \in ControlBlock, NEW u, NEW a, NEW r, NEW s
    PROVE  Rested(post_pool_locked(c, u, a, r, s))
<1> DEFINE d == post_pool_locked(c, u, a, r, s)
<1>1. d.parkedGen = 0 /\ d.poolSwitch = TRUE /\ d.done = FALSE
  BY DEF post_pool_locked, ControlBlock
<1>2. N \in Nat /\ N # 0
  BY WorkerAssumption, FS_CardinalityType, FS_EmptySet DEF N
<1> HIDE DEF d
<1>3. ~all_parked_locked(d)
  BY <1>1, <1>2 DEF all_parked_locked
<1>4. Rested(d)
  BY <1>1, <1>3 DEF Rested, Landed
<1> QED BY <1>4 DEF d

(* An acknowledgement is settled as it is written. *)
LEMMA ConnectedRests ==
    ASSUME NEW c \in ControlBlock
    PROVE  connected_locked(c) = c \/ Rested(connected_locked(c))
<1>1. [c EXCEPT !.done = TRUE, !.ok = TRUE] \in ControlBlock
  BY DEF ControlBlock
<1> QED BY <1>1, SettleRests DEF connected_locked

(* Until the end of the run the control block is at rest between two        *)
(* critical sections.                                                       *)
AtRest == ~ctl.shutdown => Rested(ctl)

(* Each step leaves the block at rest. Only three of them write it without  *)
(* settling it: the stratum thread taking a request, which is not one that  *)
(* has been answered yet, and the clock.                                    *)
LEMMA NextAtRest ==
    ASSUME BarrierInv, AtRest, [Next]_vars PROVE AtRest'
<1>1. ctl \in ControlBlock /\ Coherent(ctl)
  BY CoherentNow
<1>2. /\ Rested(UpToDate(ctl)) /\ UpToDate(ctl) \in ControlBlock
      /\ Coherent(UpToDate(ctl))
  BY <1>1, UpToDateRests, UpToDateKeeps DEF Keeps
<1>3. CASE ctl' = ctl
  BY <1>3 DEF AtRest
<1>4. ASSUME NEW w \in Worker, WorkerStep(w) PROVE ctl' = ctl \/ Rested(ctl')
  <2>1. CASE EnterPark(w)
    <3>1. [ctl EXCEPT !.parked = @ + 1, !.parkedGen = @ + 1] \in ControlBlock
      BY ArrivingCounts, Zenon
    <3> QED BY <2>1, <3>1, SettleRests, Zenon DEF EnterPark
  <2>2. CASE LeavePark(w)
    <3> DEFINE c == [ctl EXCEPT !.parked = @ - 1, !.parkedGen =
                                IF ctl.parkGen = wgen[w] THEN @ - 1 ELSE @]
    <3>2. ctl' = settle_locked(c) /\ wpc[w] = "parked"
      BY <2>2 DEF LeavePark
    <3>3. c \in ControlBlock
      BY <3>2, LeavingCounts, Zenon
    <3> QED BY <3>2, <3>3, SettleRests, Zenon
  <2>3. CASE control_switch_failed(w)
    <3>1. \/ ctl' = UpToDate(ctl)
          \/ \E u, a, s : ctl' = post_pool_locked(UpToDate(ctl), u, a, TRUE, s)
      BY <2>3, Zenon DEF control_switch_failed
    <3> QED BY <1>2, <3>1, PostPoolRests, Zenon
  <2> QED BY <1>4, <2>1, <2>2, <2>3, Zenon
          DEF WorkerStep, NoticePark, PassCheck, GoRound, ReadTerms, Rebind,
              BuildKernel, BuildFailsRecoverably, BuildFailsFatally, WorkerExit
<1>5. ASSUME StratumStep PROVE ctl' = ctl \/ Rested(ctl') \/ TakeRequest
  <2>1. CASE DialSucceeds \/ DialSucceedsAndMoves
    BY <1>1, <2>1, ConnectedRests, Zenon DEF DialSucceeds, DialSucceedsAndMoves
  <2>2. CASE ApplyReturns
    BY <1>1, <2>2, ConnectedRests, Zenon DEF ApplyReturns
  <2>3. CASE HookRefuses
    BY <1>1, <2>3, RollbackRests, Zenon DEF HookRefuses
  <2> QED BY <1>5, <2>1, <2>2, <2>3, Zenon
          DEF StratumStep, TopHold, TopReset, TopRun, ConnectLoop, DialFails,
              DialGivesUp, NothingPosted, HookAccepts, SwapUrl, ReceiveLine,
              stratum_reconnect, WaitInterrupted, ConnectionLost
<1>6. CASE TakeRequest
  <2>1. ctl' = [ctl EXCEPT !.posted = FALSE, !.applied = TRUE] /\ ctl.posted
    BY <1>6 DEF TakeRequest
  <2> QED BY <1>1, <2>1
          DEF AtRest, Rested, Landed, landed_locked, all_parked_locked, ControlBlock
<1>7. ASSUME ApiStep PROVE ctl' = ctl \/ Rested(ctl')
  <2>1. ASSUME NEW s \in Verb, control_request(s) PROVE Rested(ctl')
    <3>1. /\ ~UpToDate(ctl).mutating
          /\ ctl' = settle_locked(post_verb_locked(UpToDate(ctl), s))
      BY <2>1 DEF control_request
    <3>2. s \in RunState
      BY ProfileAssumption DEF RunState
    <3>3. post_verb_locked(UpToDate(ctl), s) \in ControlBlock
      BY <1>2, <3>1, <3>2, PostVerbOpens, Zenon
    <3> QED BY <3>1, <3>3, SettleRests, Zenon
  <2>2. ASSUME NEW u, NEW a, NEW s, control_pool_request(u, a, s) PROVE Rested(ctl')
    <3>1. \E t : ctl' = settle_locked(post_pool_locked(UpToDate(ctl), u, a, FALSE, t))
      BY <2>2, Zenon DEF control_pool_request
    <3>2. PICK t : ctl' = settle_locked(post_pool_locked(UpToDate(ctl), u, a, FALSE, t))
      BY <3>1
    <3>3. Rested(post_pool_locked(UpToDate(ctl), u, a, FALSE, t))
      BY <1>2, PostPoolRests, Zenon
    <3> QED BY <3>2, <3>3, RestedIsSettled, Zenon
  <2>3. CASE WaitTimesOut
    <3>1. settle_locked(ctl) \in ControlBlock /\ Rested(settle_locked(ctl))
      BY <1>1, SettleKeeps, SettleRests DEF Keeps
    <3> QED BY <2>3, <3>1, ExpireRests, RollbackRests, Zenon DEF WaitTimesOut
  <2>4. CASE WaitEnds
    BY <1>1, <2>4, RollbackRests, Zenon DEF WaitEnds
  <2>5. CASE WaitAccepted
    BY <1>1, <2>5, SettleRests, Zenon DEF WaitAccepted
  <2>6. ASSUME NEW s \in Verb, VerbAnswered(s) PROVE Rested(ctl')
    BY <1>2, <2>6, Zenon DEF VerbAnswered
  <2>7. CASE control_status
    BY <1>2, <2>7, Zenon DEF control_status
  <2> QED BY <1>7, <2>1, <2>2, <2>3, <2>4, <2>5, <2>6, <2>7, Zenon DEF ApiStep, ApiWait
<1>8. CASE DeadlinePasses
  BY <1>1, <1>8 DEF DeadlinePasses, AtRest, Rested, Landed, landed_locked,
                    all_parked_locked, ControlBlock
<1>9. CASE IntervalPasses
  BY <1>1, <1>9 DEF IntervalPasses, AtRest, Rested, Landed, landed_locked,
                    all_parked_locked, ControlBlock
<1>10. CASE worker_request_stop
  <2>1. ctl'.shutdown = TRUE
    BY <1>1, <1>10 DEF worker_request_stop, ControlBlock
  <2> QED BY <2>1 DEF AtRest
<1>11. Rested(ctl') => AtRest'
  BY DEF AtRest
<1>12. CASE UNCHANGED vars
  BY <1>3, <1>12 DEF vars
<1> QED BY <1>3, <1>4, <1>5, <1>6, <1>7, <1>8, <1>9, <1>10, <1>11, <1>12, Zenon DEF Next

(* settle_locked is called from every side that can complete a change: with *)
(* g_lock free no change whose workers have all arrived, and no answer of   *)
(* the stratum thread, is waiting for a poll to land it.                    *)
THEOREM NothingIsLeftToLand == Spec => []NothingLeftToLand
<1>1. Init => AtRest
  BY DEF Init, control_init, AtRest, Rested
<1>2. AtRest => NothingLeftToLand
  BY RestedIsSettled, Zenon DEF AtRest, NothingLeftToLand
<1> QED BY <1>1, <1>2, NextAtRest, BarrierInvariant, PTL DEF Spec
----------------------------------------------------------------------------
(* Acknowledgements.                                                        *)

(* A pool change the stratum thread has taken and not answered yet. *)
Unanswered(c) == c.poolSwitch /\ c.applied /\ ~c.done

(* What a helper that neither posts nor acknowledges a change gives back: no *)
(* change to answer that was not there, for the same pool, and no answer of  *)
(* "ok" that was not given.                                                  *)
SameRequest(c, d) ==
    /\ Unanswered(d) => Unanswered(c) /\ d.url = c.url /\ (d.hold => c.hold)
    /\ d.ok => c.ok

(* settle_locked hands over or lets go; it answers nothing. *)
LEMMA SettleSameRequest ==
    ASSUME NEW c \in ControlBlock PROVE SameRequest(c, settle_locked(c))
<1> DEFINE h == HandOver(c)
<1>1. h \in ControlBlock
  <2>1. [c EXCEPT !.posted = TRUE, !.inFlight = TRUE] \in ControlBlock
    BY DEF ControlBlock
  <2> QED BY <2>1 DEF HandOver
<1>2. SameRequest(c, h) /\ h.ok = c.ok
  BY DEF HandOver, ControlBlock, SameRequest, Unanswered
<1>3. SameRequest(c, c)
  BY DEF SameRequest
<1> HIDE DEF h
<1>4. Commit(h).poolSwitch = FALSE /\ Commit(h).ok = h.ok
  BY <1>1 DEF Commit, TermsOf, ControlBlock
<1>5. SameRequest(c, Commit(h))
  BY <1>2, <1>4 DEF SameRequest, Unanswered
<1> QED BY <1>2, <1>3, <1>5 DEF settle_locked, h

(* rollback_locked lets go. *)
LEMMA RollbackSameRequest ==
    ASSUME NEW c \in ControlBlock PROVE SameRequest(c, rollback_locked(c))
<1>1. rollback_locked(c).poolSwitch = FALSE /\ rollback_locked(c).ok = c.ok
  BY DEF rollback_locked, TermsOf, ControlBlock
<1> QED BY <1>1 DEF SameRequest, Unanswered

(* The deadline answers a change that was taken, and answers it "no". *)
LEMMA ExpireSameRequest ==
    ASSUME NEW c \in ControlBlock PROVE SameRequest(c, expire_locked(c))
<1> DEFINE d == [c EXCEPT !.done = TRUE, !.ok = FALSE]
<1>1. d \in ControlBlock /\ ~d.ok /\ ~Unanswered(d)
  BY DEF ControlBlock, Unanswered
<1>2. SameRequest(c, c)
  BY DEF SameRequest
<1> HIDE DEF d
<1>3. SameRequest(d, settle_locked(d))
  BY <1>1, SettleSameRequest
<1>4. SameRequest(c, settle_locked(d))
  BY <1>1, <1>3 DEF SameRequest
<1> QED BY <1>2, <1>4, RollbackSameRequest DEF expire_locked, d

(* What a request does first answers nothing with "ok" either. *)
LEMMA UpToDateSameRequest ==
    ASSUME NEW c \in ControlBlock, Coherent(c) PROVE SameRequest(c, UpToDate(c))
<1> DEFINE d == settle_locked(c)
<1>1. d \in ControlBlock /\ SameRequest(c, d)
  BY SettleKeeps, SettleSameRequest DEF Keeps
<1> HIDE DEF d
<1>2. SameRequest(d, expire_locked(d))
  BY <1>1, ExpireSameRequest
<1> QED BY <1>1, <1>2 DEF SameRequest, UpToDate, d

(* A pool change is posted unanswered and not taken; a verb leaves the       *)
(* change before it where it was, let go.                                    *)
LEMMA PostSameRequest ==
    ASSUME NEW c \in ControlBlock, Coherent(c), ~c.mutating
    PROVE  /\ \A u, a, r, s : SameRequest(c, post_pool_locked(c, u, a, r, s))
           /\ \A s : SameRequest(c, post_verb_locked(c, s))
<1>1. ASSUME NEW u, NEW a, NEW r, NEW s
      PROVE  SameRequest(c, post_pool_locked(c, u, a, r, s))
  <2>1. /\ post_pool_locked(c, u, a, r, s).applied = FALSE
        /\ post_pool_locked(c, u, a, r, s).ok = FALSE
    BY DEF post_pool_locked, ControlBlock
  <2> QED BY <2>1 DEF SameRequest, Unanswered
<1>2. ASSUME NEW s PROVE SameRequest(c, post_verb_locked(c, s))
  <2>1. /\ post_verb_locked(c, s).poolSwitch = c.poolSwitch
        /\ post_verb_locked(c, s).ok = c.ok
    BY DEF post_verb_locked, ControlBlock
  <2>2. ~c.poolSwitch
    BY DEF Coherent
  <2> QED BY <2>1, <2>2 DEF SameRequest, Unanswered
<1> QED BY <1>1, <1>2

(* control_pool_connected answers "ok" a change that was waiting for it, and *)
(* leaves nothing to answer.                                                 *)
LEMMA ConnectedAnswers ==
    ASSUME NEW c \in ControlBlock
    PROVE  LET d == connected_locked(c)
           IN  /\ ~Unanswered(d)
               /\ d.ok => c.ok \/ Unanswered(c)
<1> DEFINE e == [c EXCEPT !.done = TRUE, !.ok = TRUE]
<1>1. e \in ControlBlock /\ ~Unanswered(e)
  BY DEF ControlBlock, Unanswered
<1> HIDE DEF e
<1>2. SameRequest(e, settle_locked(e))
  BY <1>1, SettleSameRequest
<1>3. CASE Unanswered(c)
  BY <1>1, <1>2, <1>3 DEF connected_locked, Unanswered, SameRequest, e
<1>4. CASE ~Unanswered(c)
  BY <1>4 DEF connected_locked, Unanswered
<1> QED BY <1>3, <1>4

(* The url of a taken change on its way: from the copy control_pool_apply    *)
(* holds to rpc_url, and from there to stratum.url, by the caller's own      *)
(* assignment or by the reset it asks for. A change that was rolled back     *)
(* while the stratum thread still carries it out is not Unanswered any more, *)
(* nor is the one posted after it until it is taken in its turn.             *)
UrlFollows ==
    Unanswered(ctl) =>
        IF spc \in {"hook", "swap", "ack"}
        THEN /\ taken.url = ctl.url
             /\ spc = "ack" => rpc_url = ctl.url
        ELSE /\ ~ctl.hold /\ rpc_url = ctl.url
             /\ SessionOf(rpc_url) \/ (need_reset /\ spc = "top")

(* The steps of the other threads: none of them takes or acknowledges. *)
LEMMA OthersSameRequest ==
    ASSUME BarrierInv,
           \/ \E w \in Worker : WorkerStep(w)
           \/ ApiStep
           \/ DeadlinePasses \/ IntervalPasses \/ worker_request_stop
    PROVE  SameRequest(ctl, ctl') /\ UNCHANGED stratumVars
<1>1. ctl \in ControlBlock /\ Coherent(ctl) /\ SameRequest(ctl, ctl)
  BY CoherentNow DEF SameRequest
<1> DEFINE c == UpToDate(ctl)
<1>2. c \in ControlBlock /\ Coherent(c) /\ SameRequest(ctl, c)
  BY <1>1, UpToDateKeeps, UpToDateSameRequest DEF Keeps
<1> HIDE DEF c
<1>3. ASSUME NEW d, NEW e, SameRequest(ctl, d), SameRequest(d, e)
      PROVE  SameRequest(ctl, e)
  BY <1>3 DEF SameRequest
<1>4. ASSUME NEW w \in Worker, WorkerStep(w) PROVE SameRequest(ctl, ctl')
  <2>1. CASE EnterPark(w)
    <3> DEFINE d == [ctl EXCEPT !.parked = @ + 1, !.parkedGen = @ + 1]
    <3>1. d \in ControlBlock
      BY ArrivingCounts, Zenon
    <3>2. SameRequest(ctl, d)
      BY <1>1 DEF ControlBlock, SameRequest, Unanswered
    <3>3. ctl' = ctl \/ ctl' = settle_locked(d)
      BY <2>1, Zenon DEF EnterPark
    <3> HIDE DEF d
    <3> QED BY <1>1, <1>3, <3>1, <3>2, <3>3, SettleSameRequest, Zenon
  <2>2. CASE LeavePark(w)
    <3> DEFINE d == [ctl EXCEPT !.parked = @ - 1, !.parkedGen =
                                IF ctl.parkGen = wgen[w] THEN @ - 1 ELSE @]
    <3>1. ctl' = settle_locked(d) /\ wpc[w] = "parked"
      BY <2>2 DEF LeavePark
    <3>2. d \in ControlBlock
      BY <3>1, LeavingCounts, Zenon
    <3>3. SameRequest(ctl, d)
      BY <1>1 DEF ControlBlock, SameRequest, Unanswered
    <3> HIDE DEF d
    <3> QED BY <1>3, <3>1, <3>2, <3>3, SettleSameRequest, Zenon
  <2>3. CASE control_switch_failed(w)
    <3>1. \/ ctl' = c
          \/ /\ ~c.mutating
             /\ \E u, a, s : ctl' = post_pool_locked(c, u, a, TRUE, s)
      BY <2>3, Zenon DEF control_switch_failed, c
    <3> QED BY <1>2, <1>3, <3>1, PostSameRequest, Zenon
  <2> QED BY <1>1, <1>4, <2>1, <2>2, <2>3, Zenon
          DEF WorkerStep, NoticePark, PassCheck, GoRound, ReadTerms, Rebind,
              BuildKernel, BuildFailsRecoverably, BuildFailsFatally, WorkerExit
<1>5. ASSUME ApiStep PROVE SameRequest(ctl, ctl')
  <2>1. ASSUME NEW s \in Verb, control_request(s) PROVE SameRequest(ctl, ctl')
    <3>1. ~c.mutating /\ ctl' = settle_locked(post_verb_locked(c, s))
      BY <2>1 DEF control_request, c
    <3>2. s \in RunState
      BY ProfileAssumption DEF RunState
    <3>3. post_verb_locked(c, s) \in ControlBlock
      BY <1>2, <3>1, <3>2, PostVerbOpens, Zenon
    <3>4. SameRequest(ctl, post_verb_locked(c, s))
      BY <1>2, <1>3, <3>1, PostSameRequest, Zenon
    <3> QED BY <1>3, <3>1, <3>3, <3>4, SettleSameRequest, Zenon
  <2>2. ASSUME NEW u, NEW a, NEW s, control_pool_request(u, a, s)
        PROVE  SameRequest(ctl, ctl')
    <3>1. /\ ~c.mutating
          /\ \E t : ctl' = settle_locked(post_pool_locked(c, u, a, FALSE, t))
      BY <2>2, Zenon DEF control_pool_request, c
    <3>2. PICK t : ctl' = settle_locked(post_pool_locked(c, u, a, FALSE, t))
      BY <3>1
    <3>3. Rested(post_pool_locked(c, u, a, FALSE, t))
      BY <1>2, PostPoolRests, Zenon
    <3>4. ctl' = post_pool_locked(c, u, a, FALSE, t)
      BY <3>2, <3>3, RestedIsSettled, Zenon
    <3> QED BY <1>2, <1>3, <3>1, <3>4, PostSameRequest, Zenon
  <2>3. CASE WaitTimesOut
    <3>1. settle_locked(ctl) \in ControlBlock /\ SameRequest(ctl, settle_locked(ctl))
      BY <1>1, SettleKeeps, SettleSameRequest DEF Keeps
    <3> QED BY <1>3, <2>3, <3>1, ExpireSameRequest, RollbackSameRequest, Zenon
            DEF WaitTimesOut
  <2>4. CASE WaitEnds
    BY <1>1, <2>4, RollbackSameRequest, Zenon DEF WaitEnds
  <2>5. CASE WaitAccepted
    BY <1>1, <2>5, SettleSameRequest, Zenon DEF WaitAccepted
  <2>6. ASSUME NEW s \in Verb, VerbAnswered(s) PROVE SameRequest(ctl, ctl')
    BY <1>2, <2>6, Zenon DEF VerbAnswered, c
  <2>7. CASE control_status
    BY <1>2, <2>7, Zenon DEF control_status, c
  <2> QED BY <1>5, <2>1, <2>2, <2>3, <2>4, <2>5, <2>6, <2>7, Zenon DEF ApiStep, ApiWait
<1>6. CASE DeadlinePasses \/ IntervalPasses \/ worker_request_stop
  BY <1>1, <1>6 DEF DeadlinePasses, IntervalPasses, worker_request_stop,
                    SameRequest, Unanswered, ControlBlock
<1>7. UNCHANGED stratumVars
  <2>1. ASSUME NEW w \in Worker, WorkerStep(w) PROVE UNCHANGED stratumVars
    BY <2>1, Zenon
       DEF WorkerStep, NoticePark, PassCheck, GoRound, ReadTerms, EnterPark, LeavePark,
           Rebind, BuildKernel, BuildFailsRecoverably, BuildFailsFatally,
           control_switch_failed, WorkerExit
  <2>2. CASE ApiStep
    BY <2>2, Zenon
       DEF ApiStep, VerbAnswered, control_request, control_pool_request,
           control_status, ApiWait, WaitEnds, WaitTimesOut, WaitAccepted
  <2>3. CASE DeadlinePasses \/ IntervalPasses \/ worker_request_stop
    BY <2>3, Zenon DEF DeadlinePasses, IntervalPasses, worker_request_stop
  <2> QED BY <2>1, <2>2, <2>3
<1> QED BY <1>4, <1>5, <1>6, <1>7

(* Each step keeps the url of an unanswered change on its way, and the two   *)
(* steps that acknowledge one find it arrived.                               *)
LEMMA NextUrlFollows ==
    ASSUME BarrierInv, UrlFollows, [Next]_vars
    PROVE  /\ UrlFollows'
           /\ ctl'.ok /\ ~ctl.ok => SessionOf(ctl.url) \/ ctl.hold
<1>1. ctl \in ControlBlock /\ SameRequest(ctl, ctl)
  BY CoherentNow DEF SameRequest
<1>2. ASSUME SameRequest(ctl, ctl'), UNCHANGED stratumVars
      PROVE  UrlFollows' /\ (ctl'.ok => ctl.ok)
  BY <1>2 DEF SameRequest, UrlFollows, SessionOf, stratumVars, urlVars, urlHistory
<1>3. CASE StratumStep
  <2> USE DEF SessionOf, urlVars, urlHistory, stratum_take_url
  <2>1. CASE TopHold
    BY <1>1, <2>1 DEF TopHold, UrlFollows
  <2>2. CASE TopReset
    BY <1>1, <2>2 DEF TopReset, UrlFollows
  <2>3. CASE TopRun
    BY <1>1, <2>3 DEF TopRun, UrlFollows
  <2>4. CASE ConnectLoop
    BY <1>1, <2>4 DEF ConnectLoop, UrlFollows
  <2>5. CASE DialSucceeds \/ DialSucceedsAndMoves
    <3>1. spc = "dial" /\ ctl' = connected_locked(ctl)
      BY <2>5 DEF DialSucceeds, DialSucceedsAndMoves
    <3>2. ~Unanswered(ctl') /\ (ctl'.ok => ctl.ok \/ Unanswered(ctl))
      BY <1>1, <3>1, ConnectedAnswers
    <3> QED BY <3>1, <3>2 DEF UrlFollows
  <2>6. CASE DialFails \/ DialGivesUp
    BY <1>1, <2>6 DEF DialFails, DialGivesUp, UrlFollows
  <2>7. CASE NothingPosted
    <3>1. site \in Site
      BY DEF BarrierInv, TypeOK
    <3>2. spc = "apply" /\ spc' \in {"top", "dial", "wait"}
      BY <2>7, <3>1 DEF NothingPosted, Site
    <3> QED BY <2>7, <3>2 DEF NothingPosted, UrlFollows
  <2>8. CASE TakeRequest
    <3>1. /\ ctl' = [ctl EXCEPT !.posted = FALSE, !.applied = TRUE]
          /\ taken' = [url |-> ctl.url, algo |-> ctl.algo]
          /\ spc' \in {"swap", "hook"}
      BY <2>8 DEF TakeRequest
    <3>2. taken'.url = ctl'.url /\ ctl'.ok = ctl.ok
      BY <1>1, <3>1 DEF ControlBlock
    <3> QED BY <3>1, <3>2 DEF UrlFollows
  <2>9. CASE HookRefuses
    <3>1. ~ctl'.poolSwitch /\ ctl'.ok = ctl.ok
      BY <1>1, <2>9 DEF HookRefuses, rollback_locked, TermsOf, ControlBlock
    <3> QED BY <3>1 DEF UrlFollows, Unanswered
  <2>10. CASE HookAccepts
    BY <1>1, <2>10 DEF HookAccepts, UrlFollows
  <2>11. CASE SwapUrl
    BY <1>1, <2>11 DEF SwapUrl, UrlFollows
  <2>12. CASE ApplyReturns
    <3>1. CASE ctl.hold
      <4>1. ctl' = connected_locked(ctl)
        BY <2>12, <3>1 DEF ApplyReturns
      <4>2. ~Unanswered(ctl')
        BY <1>1, <4>1, ConnectedAnswers
      <4> QED BY <3>1, <4>2 DEF UrlFollows
    <3>2. CASE ~ctl.hold
      BY <1>1, <2>12, <3>2 DEF ApplyReturns, UrlFollows
    <3> QED BY <3>1, <3>2
  <2>13. CASE ReceiveLine \/ stratum_reconnect \/ WaitInterrupted \/ ConnectionLost
    BY <1>1, <2>13 DEF ReceiveLine, stratum_reconnect, WaitInterrupted, ConnectionLost,
                       UrlFollows
  <2> QED BY <1>3, <2>1, <2>2, <2>3, <2>4, <2>5, <2>6, <2>7, <2>8, <2>9, <2>10,
             <2>11, <2>12, <2>13 DEF StratumStep
<1>4. CASE UNCHANGED vars
  BY <1>1, <1>2, <1>4 DEF vars, stratumVars, urlVars, urlHistory
<1> QED BY <1>2, <1>3, <1>4, OthersSameRequest DEF Next

(* A re-target is acknowledged on a session with the pool that was asked     *)
(* for, or with one that pool has redirected the miner to, or with none for  *)
(* a stopped miner: for any number of requests posted, rolled back and       *)
(* posted again while the stratum thread dials, and of redirects by any pool *)
(* it dials meanwhile.                                                       *)
THEOREM AcksNameThePool == Spec => AckNamesThePool
<1>1. Init => UrlFollows
  BY DEF Init, control_init, UrlFollows, Unanswered
<1>2. BarrierInv /\ UrlFollows /\ [Next]_vars => UrlFollows'
  BY NextUrlFollows
<1>3. BarrierInv /\ UrlFollows /\ [Next]_vars
        => [ctl'.ok /\ ~ctl.ok => SessionOf(ctl.url) \/ ctl.hold]_vars
  BY NextUrlFollows
<1> QED BY <1>1, <1>2, <1>3, BarrierInvariant, PTL DEF Spec, AckNamesThePool

----------------------------------------------------------------------------
(* The pool that is dialled.                                                *)

(* The session is with a pool stratum.url was taken from rpc_url for, or one *)
(* it redirected to; and rpc_url has moved on only from control_pool_apply's *)
(* swap to its caller's assignment, or to the reset the caller asked for,    *)
(* unless a stop has cleared that reset.                                     *)
UrlInStep ==
    /\ surl \in {origin} \cup Redirect
    /\ origin = rpc_url \/ stranded \/ spc = "ack" \/ (need_reset /\ spc = "top")

(* Each step keeps the session one of the pool rpc_url named when it was     *)
(* dialled: the steps that leave the top of the loop with a reset pending    *)
(* carry it out or, for a miner that is held, strand the url.                *)
LEMMA NextUrlInStep ==
    ASSUME BarrierInv, UrlInStep, [Next]_vars
    PROVE  UrlInStep'
<1> USE DEF UrlInStep, urlVars, urlHistory
<1>1. site \in Site /\ need_reset \in BOOLEAN /\ stranded \in BOOLEAN
  BY DEF BarrierInv, TypeOK
<1>2. ASSUME UNCHANGED stratumVars PROVE UrlInStep'
  BY <1>2 DEF stratumVars
<1>3. CASE StratumStep
  <2>1. CASE TopHold
    BY <1>1, <2>1 DEF TopHold
  <2>2. CASE TopReset
    BY <2>2 DEF TopReset, stratum_take_url
  <2>3. CASE NothingPosted
    <3>1. spc = "apply" /\ UNCHANGED <<urlVars, rpc_url, need_reset>>
      BY <2>3 DEF NothingPosted
    <3> QED BY <3>1
  <2>4. CASE SwapUrl
    BY <2>4 DEF SwapUrl
  <2>5. CASE ApplyReturns
    BY <1>1, <2>5 DEF ApplyReturns, stratum_take_url
  <2>6. CASE DialSucceedsAndMoves \/ DialFails \/ DialGivesUp \/ stratum_reconnect
    BY <2>6 DEF DialSucceedsAndMoves, DialFails, DialGivesUp, stratum_reconnect
  <2>7. CASE \/ TopRun \/ ConnectLoop \/ DialSucceeds \/ TakeRequest \/ HookRefuses
             \/ HookAccepts \/ ReceiveLine \/ WaitInterrupted \/ ConnectionLost
    BY <2>7 DEF TopRun, ConnectLoop, DialSucceeds, TakeRequest, HookRefuses,
                HookAccepts, ReceiveLine, WaitInterrupted, ConnectionLost
  <2> QED BY <1>3, <2>1, <2>2, <2>3, <2>4, <2>5, <2>6, <2>7 DEF StratumStep
<1>4. CASE UNCHANGED vars
  BY <1>2, <1>4 DEF vars, stratumVars
<1> QED BY <1>2, <1>3, <1>4, OthersSameRequest DEF Next

(* The stratum thread dials the pool the miner is configured for, or where   *)
(* that pool has sent it, whichever call of control_pool_apply took the      *)
(* change, for any number of changes, redirects and stops, as long as no     *)
(* stop has cleared the reset that was to carry a change over.               *)
THEOREM DialsTheConfiguredPool == Spec => []DialsConfiguredPool
<1>1. Init => UrlInStep
  BY DEF Init, UrlInStep
<1>2. UrlInStep => DialsConfiguredPool
  BY DEF UrlInStep, DialsConfiguredPool, SessionOf
<1>3. BarrierInv /\ UrlInStep /\ [Next]_vars => UrlInStep'
  BY NextUrlInStep
<1> QED BY <1>1, <1>2, <1>3, BarrierInvariant, PTL DEF Spec
----------------------------------------------------------------------------
(* The run-state contract, without algorithm changes.                       *)

(* The three ways a helper may move what /control/state shows. *)
Stays(c, d) == d.state = c.state /\ d.epoch = c.epoch /\ d.previous = c.previous
Lands(c, d) ==
    /\ c.state = "switching" /\ d.state \in RunState
    /\ d.epoch = c.epoch + 1 /\ d.previous = c.previous
Abandons(c, d) ==
    /\ c.state = "switching" /\ d.state = c.previous
    /\ d.epoch = c.epoch /\ d.previous = c.previous

(* The block has never held a profile that names an algorithm. *)
NoProfile(c) == c.canRestore = FALSE /\ c.algo = NoAlgo

(* A verb that asked for run state s is still in flight, has landed or has   *)
(* been taken back; no other change has come between.                        *)
Asked(c, s) ==
    \/ c.state = "switching" /\ c.pending = s /\ ~c.poolSwitch
    \/ c.state \in RunState /\ c.state \in {s, c.previous}

(* settle_locked lands a change or leaves what is shown alone. *)
LEMMA SettleMoves ==
    ASSUME NEW c \in ControlBlock
    PROVE  LET d == settle_locked(c)
           IN  /\ Stays(c, d) \/ Lands(c, d)
               /\ NoProfile(c) => NoProfile(d)
               /\ \A s : Asked(c, s) => Asked(d, s)
<1> DEFINE h == HandOver(c)
<1>1. h \in ControlBlock
  <2>1. [c EXCEPT !.posted = TRUE, !.inFlight = TRUE] \in ControlBlock
    BY DEF ControlBlock
  <2> QED BY <2>1 DEF HandOver
<1>2. /\ Stays(c, h) /\ h.pending = c.pending /\ h.poolSwitch = c.poolSwitch
      /\ h.canRestore = c.canRestore /\ h.algo = c.algo
  BY DEF HandOver, ControlBlock, Stays
<1> HIDE DEF h
<1>3. /\ Commit(h).state = h.pending /\ Commit(h).epoch = h.epoch + 1
      /\ Commit(h).previous = h.previous /\ h.pending \in RunState
      /\ Commit(h).canRestore = h.canRestore /\ Commit(h).algo = h.algo
  BY <1>1 DEF Commit, TermsOf, ControlBlock
<1>4. CASE settle_locked(c) = c
  BY <1>4 DEF Stays
<1>5. CASE settle_locked(c) = h
  BY <1>2, <1>5 DEF Stays, NoProfile, Asked
<1>6. CASE c.state = "switching" /\ settle_locked(c) = Commit(h)
  <2>1. Lands(c, Commit(h))
    BY <1>2, <1>3, <1>6 DEF Stays, Lands
  <2>2. NoProfile(c) => NoProfile(Commit(h))
    BY <1>2, <1>3 DEF NoProfile
  <2>3. ASSUME NEW s, Asked(c, s) PROVE Asked(Commit(h), s)
    BY <1>2, <1>3, <1>6, <2>3 DEF Asked, RunState
  <2> QED BY <1>6, <2>1, <2>2, <2>3
<1> QED BY <1>4, <1>5, <1>6 DEF settle_locked, h

(* rollback_locked takes a change in flight back to where it started. *)
LEMMA RollbackMoves ==
    ASSUME NEW c \in ControlBlock
    PROVE  LET d == rollback_locked(c)
           IN  /\ c.state = "switching" => Abandons(c, d)
               /\ c.state = c.previous => Stays(c, d)
               /\ NoProfile(c) => NoProfile(d)
               /\ \A s : Asked(d, s)
<1>1. /\ rollback_locked(c).state = c.previous /\ rollback_locked(c).epoch = c.epoch
      /\ rollback_locked(c).previous = c.previous /\ c.previous \in RunState
      /\ rollback_locked(c).canRestore = c.canRestore
      /\ rollback_locked(c).algo = c.algo
  BY DEF rollback_locked, TermsOf, ControlBlock
<1> QED BY <1>1 DEF Abandons, Stays, NoProfile, Asked

(* The answer to a pool change shows only once it is settled. *)
LEMMA AnswerMoves ==
    ASSUME NEW c \in ControlBlock, NEW b \in BOOLEAN
    PROVE  LET d == settle_locked([c EXCEPT !.done = TRUE, !.ok = b])
           IN  /\ Stays(c, d) \/ Lands(c, d)
               /\ NoProfile(c) => NoProfile(d)
               /\ \A s : Asked(c, s) => Asked(d, s)
<1> DEFINE e == [c EXCEPT !.done = TRUE, !.ok = b]
<1>1. /\ e \in ControlBlock /\ Stays(c, e) /\ (NoProfile(c) => NoProfile(e))
      /\ \A s : Asked(c, s) => Asked(e, s)
  BY DEF ControlBlock, Stays, NoProfile, Asked
<1> HIDE DEF e
<1>2. /\ Stays(e, settle_locked(e)) \/ Lands(e, settle_locked(e))
      /\ NoProfile(e) => NoProfile(settle_locked(e))
      /\ \A s : Asked(e, s) => Asked(settle_locked(e), s)
  BY <1>1, SettleMoves, Zenon
<1>3. Stays(c, settle_locked(e)) \/ Lands(c, settle_locked(e))
  BY <1>1, <1>2 DEF Stays, Lands
<1> QED BY <1>1, <1>2, <1>3 DEF e

(* control_pool_connected lands a change or shows nothing. *)
LEMMA ConnectedMoves ==
    ASSUME NEW c \in ControlBlock
    PROVE  LET d == connected_locked(c)
           IN  /\ Stays(c, d) \/ Lands(c, d)
               /\ NoProfile(c) => NoProfile(d)
               /\ \A s : Asked(c, s) => Asked(d, s)
<1>1. Stays(c, c)
  BY DEF Stays
<1> QED BY <1>1, AnswerMoves, TRUE \in BOOLEAN, Zenon DEF connected_locked

(* The deadline lands a pool change the stratum thread holds, or takes the   *)
(* change back.                                                             *)
LEMMA ExpireMoves ==
    ASSUME NEW c \in ControlBlock
    PROVE  LET d == expire_locked(c)
           IN  /\ Stays(c, d) \/ Abandons(c, d)
                    \/ (Lands(c, d) /\ c.poolSwitch /\ c.applied)
               /\ NoProfile(c) => NoProfile(d)
               /\ \A s : Asked(c, s) => Asked(d, s)
<1>1. Stays(c, c)
  BY DEF Stays
<1> DEFINE e == settle_locked([c EXCEPT !.done = TRUE, !.ok = FALSE])
<1>2. /\ Stays(c, e) \/ Lands(c, e)
      /\ NoProfile(c) => NoProfile(e)
      /\ \A s : Asked(c, s) => Asked(e, s)
  BY AnswerMoves, FALSE \in BOOLEAN, Zenon
<1> HIDE DEF e
<1>3. CASE c.state # "switching" \/ ~c.late
  BY <1>1, <1>3 DEF expire_locked
<1>4. CASE c.state = "switching" /\ c.late /\ c.poolSwitch /\ c.applied
  <2>1. expire_locked(c) = e
    BY <1>4 DEF expire_locked, e
  <2> QED BY <1>2, <1>4, <2>1
<1>5. CASE c.state = "switching" /\ c.late /\ ~(c.poolSwitch /\ c.applied)
  <2>1. expire_locked(c) = rollback_locked(c)
    BY <1>5 DEF expire_locked
  <2> QED BY <1>5, <2>1, RollbackMoves
<1> QED BY <1>3, <1>4, <1>5

(* A block at rest is brought up to date by its deadline alone. *)
LEMMA UpToDateMoves ==
    ASSUME NEW c \in ControlBlock, Coherent(c)
    PROVE  LET d == UpToDate(c)
           IN  /\ Rested(c) => Stays(c, d) \/ Abandons(c, d)
                                 \/ (Lands(c, d) /\ c.poolSwitch /\ c.applied)
               /\ NoProfile(c) => NoProfile(d)
               /\ \A s : Asked(c, s) => Asked(d, s)
<1>1. Rested(c) => UpToDate(c) = expire_locked(c)
  BY RestedIsSettled, Zenon DEF UpToDate
<1> DEFINE e == settle_locked(c)
<1>2. /\ e \in ControlBlock /\ (NoProfile(c) => NoProfile(e))
      /\ \A s : Asked(c, s) => Asked(e, s)
  BY SettleKeeps, SettleMoves DEF Keeps
<1>3. UpToDate(c) = expire_locked(e)
  BY DEF UpToDate
<1> HIDE DEF e
<1>4. /\ NoProfile(e) => NoProfile(expire_locked(e))
      /\ \A s : Asked(e, s) => Asked(expire_locked(e), s)
  BY <1>2, ExpireMoves, Zenon
<1>5. Rested(c) => Stays(c, UpToDate(c)) \/ Abandons(c, UpToDate(c))
                     \/ (Lands(c, UpToDate(c)) /\ c.poolSwitch /\ c.applied)
  BY <1>1, ExpireMoves, Zenon
<1> QED BY <1>2, <1>3, <1>4, <1>5, Zenon

(* A pool change that names no algorithm begins, and waits. *)
LEMMA PostPoolMoves ==
    ASSUME NEW c \in ControlBlock, Coherent(c), ~c.mutating, NEW u, NEW s
    PROVE  LET d == settle_locked(post_pool_locked(c, u, NoAlgo, FALSE, s))
           IN  /\ c.state \in RunState
               /\ d.state = "switching" /\ d.previous = c.state /\ d.epoch = c.epoch
               /\ NoProfile(c) => NoProfile(d)
<1> DEFINE e == post_pool_locked(c, u, NoAlgo, FALSE, s)
<1>1. settle_locked(e) = e
  BY PostPoolRests, RestedIsSettled, Zenon
<1>2. c.state \in RunState
  BY DEF Coherent, ControlBlock, State
<1>3. /\ e.state = "switching" /\ e.previous = c.state /\ e.epoch = c.epoch
      /\ e.canRestore = c.canRestore /\ e.algo = NoAlgo
  BY DEF post_pool_locked, ControlBlock
<1> HIDE DEF e
<1> QED BY <1>1, <1>2, <1>3 DEF NoProfile, e

(* A verb begins; it lands at once only if it is a start and nobody is in.  *)
LEMMA PostVerbMoves ==
    ASSUME NEW c \in ControlBlock, Coherent(c), ~c.mutating, NEW s \in RunState
    PROVE  LET d == settle_locked(post_verb_locked(c, s))
           IN  /\ c.state \in RunState /\ d.previous = c.state
               /\ NoProfile(c) => NoProfile(d)
               /\ \/ /\ d.state = "switching" /\ d.epoch = c.epoch
                     /\ Asked(d, s)
                  \/ /\ d.state = s /\ d.epoch = c.epoch + 1
                     /\ c.parked = 0
<1> DEFINE e == post_verb_locked(c, s)
<1>1. c.state \in RunState /\ ~c.poolSwitch
  BY DEF Coherent, ControlBlock, State
<1>2. e \in ControlBlock
  BY PostVerbOpens, Zenon
<1>3. /\ e.state = "switching" /\ e.previous = c.state /\ e.epoch = c.epoch
      /\ e.pending = s /\ e.poolSwitch = c.poolSwitch /\ e.parked = c.parked
      /\ e.canRestore = c.canRestore /\ e.algo = c.algo
  BY DEF post_verb_locked, ControlBlock
<1>4. s # "running" => e.parkedGen = 0
  BY DEF post_verb_locked, ControlBlock
<1>5. N \in Nat /\ N # 0
  BY WorkerAssumption, FS_CardinalityType, FS_EmptySet DEF N
<1> HIDE DEF e
<1>6. HandOver(e) = e
  BY <1>1, <1>3 DEF HandOver
<1>7. Landed(e) => c.parked = 0
  BY <1>1, <1>3, <1>4, <1>5 DEF Landed, landed_locked, all_parked_locked
<1>8. CASE Landed(e)
  <2>1. settle_locked(e) = Commit(e)
    BY <1>3, <1>6, <1>8 DEF settle_locked
  <2>2. /\ Commit(e).state = s /\ Commit(e).previous = e.previous
        /\ Commit(e).epoch = e.epoch + 1
        /\ Commit(e).canRestore = e.canRestore /\ Commit(e).algo = e.algo
    BY <1>2, <1>3 DEF Commit, TermsOf, ControlBlock
  <2> QED BY <1>1, <1>3, <1>7, <1>8, <2>1, <2>2 DEF NoProfile, e
<1>9. CASE ~Landed(e)
  <2>1. settle_locked(e) = e
    BY <1>3, <1>6, <1>9 DEF settle_locked
  <2> QED BY <1>1, <1>3, <2>1 DEF NoProfile, Asked, e
<1> QED BY <1>8, <1>9

(* What the refinement needs of a miner whose API names no algorithm: no    *)
(* profile is ever held, the hook is never called, and the change an API    *)
(* thread waits for is its own.                                             *)
ContractInv ==
    /\ NoProfile(ctl)
    /\ spc # "hook"
    /\ apc = "wait" /\ want \in RunState => Asked(ctl, want)

(* A helper's move is a step of the contract or no step of it. *)
LEMMA MoveIsContractStep ==
    ASSUME TypeOK, Stays(ctl, ctl') \/ Lands(ctl, ctl') \/ Abandons(ctl, ctl')
    PROVE  [Contract!Next]_(Contract!cvars)
<1>1. CASE Stays(ctl, ctl')
  BY <1>1 DEF Stays, Contract!cvars
<1>2. CASE Lands(ctl, ctl')
  BY <1>2 DEF Lands, RunState, Contract!Next, Contract!Land, Contract!Settled
<1>3. CASE Abandons(ctl, ctl')
  BY <1>3 DEF Abandons, Contract!Next, Contract!Abandon
<1> QED BY <1>1, <1>2, <1>3

(* Steps that move neither the API thread nor the stratum thread to the     *)
(* hook, and the control block only through one of the helpers.             *)
LEMMA WorkerContract ==
    ASSUME BarrierInv, AtRest, ContractInv, NEW w \in Worker, WorkerStep(w)
    PROVE  /\ ContractInv'
           /\ ~ctl.shutdown => [Contract!Next]_(Contract!cvars)
<1>1. ctl \in ControlBlock /\ Coherent(ctl) /\ TypeOK
  BY CoherentNow DEF BarrierInv
<1>2. UNCHANGED <<spc, apc, want>>
  BY Zenon
     DEF WorkerStep, NoticePark, PassCheck, GoRound, ReadTerms, EnterPark, LeavePark,
         Rebind, BuildKernel, BuildFailsRecoverably, BuildFailsFatally,
         control_switch_failed, WorkerExit, stratumVars, apiVars
<1>3. ASSUME NEW d \in ControlBlock, Stays(ctl, d), d.canRestore = ctl.canRestore,
             d.algo = ctl.algo, d.pending = ctl.pending, d.poolSwitch = ctl.poolSwitch,
             ctl' = d \/ ctl' = settle_locked(d)
      PROVE  /\ Stays(ctl, ctl') \/ Lands(ctl, ctl') \/ Abandons(ctl, ctl')
             /\ NoProfile(ctl')
             /\ \A s : Asked(ctl, s) => Asked(ctl', s)
  <2>1. NoProfile(d) /\ (\A s : Asked(ctl, s) => Asked(d, s))
    BY <1>3 DEF ContractInv, NoProfile, Asked, Stays
  <2>2. CASE ctl' = d
    BY <1>3, <2>1, <2>2
  <2>3. CASE ctl' = settle_locked(d)
    <3>1. /\ Stays(d, ctl') \/ Lands(d, ctl')
          /\ NoProfile(ctl')
          /\ \A s : Asked(d, s) => Asked(ctl', s)
      BY <1>3, <2>1, <2>3, SettleMoves
    <3>2. Stays(ctl, ctl') \/ Lands(ctl, ctl')
      BY <1>3, <3>1 DEF Stays, Lands
    <3> QED BY <2>1, <3>1, <3>2
  <2> QED BY <1>3, <2>2, <2>3
<1>4. /\ ~ctl.shutdown => Stays(ctl, ctl') \/ Lands(ctl, ctl') \/ Abandons(ctl, ctl')
      /\ NoProfile(ctl')
      /\ \A s : Asked(ctl, s) => Asked(ctl', s)
  <2>1. CASE EnterPark(w)
    <3> DEFINE d == [ctl EXCEPT !.parked = @ + 1, !.parkedGen = @ + 1]
    <3>1. d \in ControlBlock
      BY ArrivingCounts, Zenon
    <3>2. /\ Stays(ctl, d) /\ d.canRestore = ctl.canRestore /\ d.algo = ctl.algo
          /\ d.pending = ctl.pending /\ d.poolSwitch = ctl.poolSwitch
      BY <1>1 DEF ControlBlock, Stays
    <3>3. ctl' = ctl \/ ctl' = settle_locked(d)
      BY <2>1, Zenon DEF EnterPark
    <3>4. Stays(ctl, ctl)
      BY DEF Stays
    <3> HIDE DEF d
    <3>5. CASE ctl' = ctl
      BY <1>1, <1>3, <3>4, <3>5, Zenon
    <3>6. CASE ctl' = settle_locked(d)
      BY <1>3, <3>1, <3>2, <3>6, Zenon
    <3> QED BY <3>3, <3>5, <3>6
  <2>2. CASE LeavePark(w)
    <3> DEFINE d == [ctl EXCEPT !.parked = @ - 1, !.parkedGen =
                                IF ctl.parkGen = wgen[w] THEN @ - 1 ELSE @]
    <3>1. ctl' = settle_locked(d) /\ wpc[w] = "parked"
      BY <2>2 DEF LeavePark
    <3>2. d \in ControlBlock
      BY <3>1, LeavingCounts, Zenon
    <3>3. /\ Stays(ctl, d) /\ d.canRestore = ctl.canRestore /\ d.algo = ctl.algo
          /\ d.pending = ctl.pending /\ d.poolSwitch = ctl.poolSwitch
      BY <1>1 DEF ControlBlock, Stays
    <3> HIDE DEF d
    <3> QED BY <1>3, <3>1, <3>2, <3>3, Zenon
  <2>3. CASE control_switch_failed(w)
    <3>1. /\ ~ctl.shutdown => \/ Stays(ctl, UpToDate(ctl))
                              \/ Lands(ctl, UpToDate(ctl))
                              \/ Abandons(ctl, UpToDate(ctl))
          /\ NoProfile(UpToDate(ctl))
          /\ \A s : Asked(ctl, s) => Asked(UpToDate(ctl), s)
      BY <1>1, UpToDateMoves, Zenon DEF AtRest, ContractInv
    <3>2. ~UpToDate(ctl).canRestore
      BY <3>1 DEF NoProfile
    <3>3. ctl' = UpToDate(ctl)
      BY <2>3, <3>2 DEF control_switch_failed
    <3> QED BY <3>1, <3>3
  <2>4. CASE ctl' = ctl
    BY <2>4 DEF Stays, ContractInv
  <2> QED BY <2>1, <2>2, <2>3, <2>4, Zenon
          DEF WorkerStep, NoticePark, PassCheck, GoRound, ReadTerms, Rebind,
              BuildKernel, BuildFailsRecoverably, BuildFailsFatally, WorkerExit
<1>5. ContractInv'
  BY <1>2, <1>4 DEF ContractInv
<1>6. ~ctl.shutdown => [Contract!Next]_(Contract!cvars)
  BY <1>1, <1>4, MoveIsContractStep
<1> QED BY <1>5, <1>6

(* The stratum thread lands a change or shows nothing: with no algorithm to *)
(* change to it never calls the hook, so it takes nothing back.             *)
LEMMA StratumContract ==
    ASSUME BarrierInv, AtRest, ContractInv, StratumStep
    PROVE  /\ ContractInv'
           /\ [Contract!Next]_(Contract!cvars)
<1>1. ctl \in ControlBlock /\ TypeOK /\ site \in Site
  BY CoherentNow DEF BarrierInv, TypeOK
<1>2. UNCHANGED <<apc, want>>
  BY Zenon
     DEF StratumStep, TopHold, TopReset, TopRun, ConnectLoop, DialSucceeds,
         DialFails, DialGivesUp, NothingPosted, TakeRequest, HookRefuses, HookAccepts,
         SwapUrl, ApplyReturns, ReceiveLine, WaitInterrupted, ConnectionLost,
         DialSucceedsAndMoves, stratum_reconnect, apiVars
<1>3. /\ Stays(ctl, ctl') \/ Lands(ctl, ctl') \/ Abandons(ctl, ctl')
      /\ NoProfile(ctl')
      /\ \A s : Asked(ctl, s) => Asked(ctl', s)
  <2>1. CASE ctl' = ctl
    BY <2>1 DEF Stays, ContractInv
  <2>2. CASE ctl' = connected_locked(ctl)
    BY <1>1, <2>2, ConnectedMoves DEF ContractInv
  <2>3. CASE TakeRequest
    BY <1>1, <2>3 DEF TakeRequest, ContractInv, Stays, NoProfile, Asked, ControlBlock
  <2> QED BY <2>1, <2>2, <2>3, Zenon
          DEF StratumStep, TopHold, TopReset, TopRun, ConnectLoop, DialSucceeds,
              DialFails, DialGivesUp, NothingPosted, HookRefuses, HookAccepts, SwapUrl,
              ApplyReturns, ReceiveLine, WaitInterrupted, ConnectionLost,
              DialSucceedsAndMoves, stratum_reconnect, ContractInv
<1>4. spc' # "hook"
  <2>1. CASE NothingPosted
    BY <1>1, <2>1 DEF NothingPosted, Site
  <2>2. CASE TakeRequest
    BY <2>2 DEF TakeRequest, ContractInv, NoProfile
  <2>3. CASE ~NothingPosted /\ ~TakeRequest
    BY <2>3
       DEF StratumStep, TopHold, TopReset, TopRun, ConnectLoop, DialSucceeds,
           DialFails, DialGivesUp, HookRefuses, HookAccepts, SwapUrl, ContractInv,
           ApplyReturns, ReceiveLine, WaitInterrupted, ConnectionLost,
           DialSucceedsAndMoves, stratum_reconnect
  <2> QED BY <2>1, <2>2, <2>3
<1>5. ContractInv'
  BY <1>2, <1>3, <1>4 DEF ContractInv
<1> QED BY <1>1, <1>3, <1>5, MoveIsContractStep

(* A request that finds the change before it overdue ends that one and       *)
(* begins its own in one critical section. A verb never lands in it on top   *)
(* of a pool change that did: the change had every worker parked, and the    *)
(* only verb that lands at once is a start that finds nobody in.             *)
LEMMA ApiContract ==
    ASSUME SwitchAlgo = {}, BarrierInv, AtRest, ContractInv, ApiStep
    PROVE  /\ ContractInv'
           /\ ~ctl.shutdown => [Contract!Next]_(Contract!cvars)
<1>1. ctl \in ControlBlock /\ Coherent(ctl) /\ TypeOK /\ spc' = spc
  BY CoherentNow, OthersSameRequest DEF BarrierInv, stratumVars
<1> DEFINE c == UpToDate(ctl)
<1>2. /\ c \in ControlBlock /\ Coherent(c) /\ c.parked = ctl.parked /\ NoProfile(c)
      /\ \A s : Asked(ctl, s) => Asked(c, s)
  BY <1>1, UpToDateKeeps, UpToDateMoves DEF Keeps, SameCounts, ContractInv
<1>3. ~ctl.shutdown => \/ Stays(ctl, c) \/ Abandons(ctl, c)
                       \/ Lands(ctl, c) /\ ctl.poolSwitch /\ ctl.applied
  BY <1>1, UpToDateMoves, Zenon DEF AtRest
<1>4. ~ctl.shutdown /\ ctl.poolSwitch /\ ctl.applied => ctl.parked # 0
  <2> SUFFICES ASSUME ~ctl.shutdown, ctl.poolSwitch, ctl.applied
               PROVE  ctl.parked # 0
    OBVIOUS
  <2>1. ParkedNow = Worker
    BY DEF BarrierInv, SwitchUnderPark
  <2>2. Parked # {}
    BY <2>1, WorkerAssumption DEF Parked, ParkedNow
  <2>3. Cardinality(Parked) # 0
    BY <2>2, ParkedFinite, FS_EmptySet
  <2> QED BY <2>3 DEF BarrierInv, ParkCount
<1> HIDE DEF c
<1>5. ASSUME NEW s \in Verb, control_request(s)
      PROVE  /\ ContractInv'
             /\ ~ctl.shutdown => [Contract!Next]_(Contract!cvars)
  <2>1. /\ ~c.mutating /\ c.state # s /\ want' = s
        /\ ctl' = settle_locked(post_verb_locked(c, s))
        /\ apc' = IF ctl'.state = "switching" THEN "wait" ELSE "idle"
    BY <1>5 DEF control_request, c
  <2>2. s \in RunState
    BY ProfileAssumption DEF RunState
  <2>3. /\ c.state \in RunState /\ ctl'.previous = c.state /\ NoProfile(ctl')
        /\ \/ /\ ctl'.state = "switching" /\ ctl'.epoch = c.epoch
              /\ Asked(ctl', s)
           \/ /\ ctl'.state = s /\ ctl'.epoch = c.epoch + 1
              /\ c.parked = 0
    BY <1>2, <2>1, <2>2, PostVerbMoves
  <2>4. ContractInv'
    BY <1>1, <2>1, <2>2, <2>3 DEF ContractInv, RunState
  <2>5. ASSUME ~ctl.shutdown PROVE [Contract!Next]_(Contract!cvars)
    <3>1. CASE Stays(ctl, c)
      <4>1. ctl'.state = "switching" => Contract!Begin
        BY <2>2, <2>3, <3>1 DEF Stays, RunState, Contract!Begin, Contract!Settled
      <4>2. ctl'.state # "switching" => Contract!Instant
        BY <2>1, <2>2, <2>3, <3>1
           DEF Stays, RunState, Contract!Instant, Contract!Settled
      <4> QED BY <4>1, <4>2 DEF Contract!Next
    <3>2. CASE Abandons(ctl, c)
      <4>1. ctl'.state = "switching" => UNCHANGED Contract!cvars
        BY <2>2, <2>3, <3>2 DEF Abandons, RunState, Contract!cvars
      <4>2. ctl'.state # "switching" => Contract!Land
        BY <2>2, <2>3, <3>2 DEF Abandons, RunState, Contract!Land, Contract!Settled
      <4> QED BY <4>1, <4>2 DEF Contract!Next
    <3>3. CASE Lands(ctl, c) /\ ctl.poolSwitch /\ ctl.applied
      <4>1. ctl'.state = "switching" /\ ctl'.epoch = c.epoch
        BY <1>2, <1>4, <2>3, <2>5, <3>3
      <4>2. Contract!LandThenBegin
        BY <2>3, <3>3, <4>1
           DEF Lands, RunState, Contract!LandThenBegin, Contract!Settled
      <4> QED BY <4>2 DEF Contract!Next
    <3> QED BY <1>3, <2>5, <3>1, <3>2, <3>3
  <2> QED BY <2>4, <2>5
<1>6. ASSUME NEW u \in Target, NEW a \in SwitchAlgo \cup {NoAlgo},
             NEW s \in {"same", "running", "paused"}, control_pool_request(u, a, s)
      PROVE  /\ ContractInv'
             /\ ~ctl.shutdown => [Contract!Next]_(Contract!cvars)
  <2> DEFINE t == IF s = "same" THEN c.state ELSE s
  <2>1. /\ ~c.mutating /\ want' = "pool"
        /\ ctl' = settle_locked(post_pool_locked(c, u, a, FALSE, t))
    BY <1>6 DEF control_pool_request, c
  <2> HIDE DEF t
  <2>2. a = NoAlgo
    OBVIOUS
  <2>3. /\ c.state \in RunState /\ ctl'.state = "switching"
        /\ ctl'.previous = c.state /\ ctl'.epoch = c.epoch /\ NoProfile(ctl')
    <3> DEFINE d == settle_locked(post_pool_locked(c, u, NoAlgo, FALSE, t))
    <3>1. /\ c.state \in RunState /\ d.state = "switching"
          /\ d.previous = c.state /\ d.epoch = c.epoch
          /\ NoProfile(c) => NoProfile(d)
      BY <1>2, <2>1, PostPoolMoves, Zenon
    <3>2. ctl' = d
      BY <2>1, <2>2, Zenon
    <3> HIDE DEF d
    <3> QED BY <1>2, <3>1, <3>2
  <2>4. ContractInv'
    BY <1>1, <2>1, <2>3 DEF ContractInv, RunState
  <2>5. ASSUME ~ctl.shutdown PROVE [Contract!Next]_(Contract!cvars)
    <3>1. CASE Stays(ctl, c)
      BY <2>3, <3>1
         DEF Stays, RunState, Contract!Begin, Contract!Settled, Contract!Next
    <3>2. CASE Abandons(ctl, c)
      BY <2>3, <3>2 DEF Abandons, Contract!cvars
    <3>3. CASE Lands(ctl, c)
      BY <2>3, <3>3
         DEF Lands, RunState, Contract!LandThenBegin, Contract!Settled, Contract!Next
    <3> QED BY <1>3, <2>5, <3>1, <3>2, <3>3
  <2> QED BY <2>4, <2>5
<1>7. CASE control_status \/ \E s \in Verb : VerbAnswered(s)
  <2>1. ctl' = c /\ UNCHANGED <<apc, want>>
    BY <1>7 DEF control_status, VerbAnswered, apiVars, c
  <2>2. ContractInv'
    BY <1>1, <1>2, <2>1 DEF ContractInv
  <2> QED BY <1>1, <1>3, <2>1, <2>2, MoveIsContractStep
<1>8. CASE WaitEnds
  <2>1. /\ apc = "wait" /\ ctl.state # "switching" /\ apc' = "idle"
        /\ \/ ctl' = ctl
           \/ want \in RunState /\ ctl.state # want /\ ctl' = rollback_locked(ctl)
    BY <1>8 DEF WaitEnds
  <2>2. want \in RunState /\ ctl.state # want => ctl.state = ctl.previous
    BY <2>1 DEF ContractInv, Asked
  <2>3. Stays(ctl, ctl') /\ NoProfile(ctl')
    BY <1>1, <2>1, <2>2, RollbackMoves DEF Stays, ContractInv
  <2>4. ContractInv'
    BY <1>1, <2>1, <2>3 DEF ContractInv
  <2> QED BY <1>1, <2>3, <2>4, MoveIsContractStep
<1>9. CASE WaitTimesOut
  <2> DEFINE d == settle_locked(ctl)
  <2>1. /\ apc' = "idle" /\ d.state = "switching"
        /\ ctl' = expire_locked(d) \/ ctl' = rollback_locked(d)
    BY <1>9 DEF WaitTimesOut
  <2>2. d \in ControlBlock /\ NoProfile(d)
    BY <1>1, SettleKeeps, SettleMoves DEF Keeps, ContractInv
  <2>3. ~ctl.shutdown => d = ctl
    BY RestedIsSettled DEF AtRest
  <2> HIDE DEF d
  <2>4. /\ NoProfile(ctl')
        /\ Stays(d, ctl') \/ Lands(d, ctl') \/ Abandons(d, ctl')
    BY <2>1, <2>2, ExpireMoves, RollbackMoves
  <2>5. ContractInv'
    BY <1>1, <2>1, <2>4 DEF ContractInv
  <2> QED BY <1>1, <2>3, <2>4, <2>5, MoveIsContractStep
<1>10. CASE WaitAccepted
  <2>1. apc' = "idle" /\ ctl' = settle_locked(ctl)
    BY <1>10 DEF WaitAccepted
  <2>2. (Stays(ctl, ctl') \/ Lands(ctl, ctl')) /\ NoProfile(ctl')
    BY <1>1, <2>1, SettleMoves DEF ContractInv
  <2>3. ContractInv'
    BY <1>1, <2>1, <2>2 DEF ContractInv
  <2> QED BY <1>1, <2>2, <2>3, MoveIsContractStep
<1> QED
  <2>1. CASE \E s \in Verb : control_request(s)
    BY <1>5, <2>1
  <2>2. CASE \E u \in Target, a \in SwitchAlgo \cup {NoAlgo},
                s \in {"same", "running", "paused"} : control_pool_request(u, a, s)
    BY <1>6, <2>2
  <2> QED BY <1>7, <1>8, <1>9, <1>10, <2>1, <2>2, Zenon DEF ApiStep, ApiWait

(* Every step is a step of the contract, until the process is wound up. *)
LEMMA NextContract ==
    ASSUME SwitchAlgo = {}, BarrierInv, AtRest, ContractInv, [Next]_vars
    PROVE  /\ ContractInv'
           /\ ~ctl.shutdown => [Contract!Next]_(Contract!cvars)
<1>1. ctl \in ControlBlock /\ TypeOK
  BY CoherentNow DEF BarrierInv
<1>2. CASE DeadlinePasses \/ IntervalPasses \/ worker_request_stop
  <2>1. /\ Stays(ctl, ctl') /\ ctl'.pending = ctl.pending
        /\ ctl'.poolSwitch = ctl.poolSwitch
        /\ ctl'.canRestore = ctl.canRestore /\ ctl'.algo = ctl.algo
    BY <1>1, <1>2 DEF DeadlinePasses, IntervalPasses, worker_request_stop,
                      Stays, ControlBlock
  <2>2. UNCHANGED <<spc, apc, want>>
    BY <1>2 DEF DeadlinePasses, IntervalPasses, worker_request_stop,
                stratumVars, apiVars
  <2>3. ContractInv'
    BY <2>1, <2>2 DEF ContractInv, NoProfile, Asked, Stays
  <2> QED BY <1>1, <2>1, <2>3, MoveIsContractStep
<1>3. CASE UNCHANGED vars
  <2>1. UNCHANGED <<ctl, spc, apc, want>>
    BY <1>3 DEF vars
  <2> QED BY <2>1 DEF ContractInv, Contract!cvars
<1> QED BY <1>2, <1>3, WorkerContract, StratumContract, ApiContract DEF Next

(* What the run-state contract says, up to the end of the run. *)
ContractUntilShutdown ==
    Contract!Init /\ [][ctl.shutdown \/ Contract!Next]_(Contract!cvars)

(* The refinement, step by step: with no algorithm to change to, the state,  *)
(* the epoch and the origin of the last change that /control/state is made   *)
(* from move only as RunContract says, for any number of workers, pools and  *)
(* requests, until control_release_all. With algorithms to change to it does *)
(* not hold: a hook that refuses after the deadline has landed its change    *)
(* rolls the barrier back from a state the manager has been shown.           *)
THEOREM KeepsContractUntilShutdown ==
    SwitchAlgo = {} /\ Spec => ContractUntilShutdown
<1>1. Init => AtRest /\ ContractInv /\ Contract!Init
  BY DEF Init, control_init, AtRest, Rested, ContractInv, NoProfile, Contract!Init
<1> SUFFICES ASSUME SwitchAlgo = {} PROVE Spec => ContractUntilShutdown
  OBVIOUS
<1>2. BarrierInv /\ AtRest /\ [Next]_vars => AtRest'
  BY NextAtRest
<1>3. BarrierInv /\ AtRest /\ ContractInv /\ [Next]_vars
        => ContractInv' /\ [ctl.shutdown \/ Contract!Next]_(Contract!cvars)
  BY NextContract
<1> QED BY <1>1, <1>2, <1>3, BarrierInvariant, PTL DEF Spec, ContractUntilShutdown

(* No helper and no request touches g_shutdown: only worker_request_stop     *)
(* winds the process up.                                                     *)
LEMMA HelpersStayUp ==
    ASSUME NEW c \in ControlBlock, Coherent(c)
    PROVE  /\ settle_locked(c).shutdown = c.shutdown
           /\ rollback_locked(c).shutdown = c.shutdown
           /\ expire_locked(c).shutdown = c.shutdown
           /\ UpToDate(c).shutdown = c.shutdown
           /\ connected_locked(c).shutdown = c.shutdown
           /\ \A u, a, r, s : post_pool_locked(c, u, a, r, s).shutdown = c.shutdown
           /\ \A s : post_verb_locked(c, s).shutdown = c.shutdown
<1>1. ASSUME NEW d \in ControlBlock PROVE settle_locked(d).shutdown = d.shutdown
  <2> DEFINE h == HandOver(d)
  <2>1. h \in ControlBlock
    <3>1. [d EXCEPT !.posted = TRUE, !.inFlight = TRUE] \in ControlBlock
      BY <1>1 DEF ControlBlock
    <3> QED BY <1>1, <3>1 DEF HandOver
  <2>2. h.shutdown = d.shutdown
    BY <1>1 DEF HandOver, ControlBlock
  <2> HIDE DEF h
  <2>3. Commit(h).shutdown = h.shutdown
    BY <2>1 DEF Commit, TermsOf, ControlBlock
  <2> QED BY <2>2, <2>3 DEF settle_locked, h
<1>2. ASSUME NEW d \in ControlBlock PROVE rollback_locked(d).shutdown = d.shutdown
  BY <1>2 DEF rollback_locked, TermsOf, ControlBlock
<1>3. ASSUME NEW d \in ControlBlock, NEW b \in BOOLEAN
      PROVE  settle_locked([d EXCEPT !.done = TRUE, !.ok = b]).shutdown = d.shutdown
  <2> DEFINE e == [d EXCEPT !.done = TRUE, !.ok = b]
  <2>1. e \in ControlBlock /\ e.shutdown = d.shutdown
    BY <1>3 DEF ControlBlock
  <2> HIDE DEF e
  <2> QED BY <1>1, <2>1 DEF e
<1>4. ASSUME NEW d \in ControlBlock PROVE expire_locked(d).shutdown = d.shutdown
  BY <1>2, <1>3, <1>4, FALSE \in BOOLEAN, Zenon DEF expire_locked
<1>5. connected_locked(c).shutdown = c.shutdown
  BY <1>3, TRUE \in BOOLEAN, Zenon DEF connected_locked
<1>6. settle_locked(c) \in ControlBlock
  BY SettleKeeps DEF Keeps
<1>7. UpToDate(c).shutdown = c.shutdown
  BY <1>1, <1>4, <1>6, Zenon DEF UpToDate
<1>8. \A u, a, r, s : post_pool_locked(c, u, a, r, s).shutdown = c.shutdown
  BY DEF post_pool_locked, ControlBlock
<1>9. \A s : post_verb_locked(c, s).shutdown = c.shutdown
  BY DEF post_verb_locked, ControlBlock
<1> QED BY <1>1, <1>2, <1>4, <1>5, <1>7, <1>8, <1>9

(* A run nobody winds up stays up. *)
LEMMA NextStaysUp ==
    ASSUME BarrierInv, ~MayShutDown, [Next]_vars
    PROVE  ctl'.shutdown = ctl.shutdown
<1>1. ctl \in ControlBlock /\ Coherent(ctl)
  BY CoherentNow
<1> DEFINE c == UpToDate(ctl)
<1>2. c \in ControlBlock /\ Coherent(c) /\ c.shutdown = ctl.shutdown
  BY <1>1, UpToDateKeeps, HelpersStayUp DEF Keeps
<1> HIDE DEF c
<1>0. /\ \A u, a, r, s : post_pool_locked(c, u, a, r, s).shutdown = ctl.shutdown
      /\ \A s : post_verb_locked(c, s).shutdown = ctl.shutdown
  BY <1>2, HelpersStayUp
<1>3. ASSUME NEW w \in Worker, WorkerStep(w) PROVE ctl'.shutdown = ctl.shutdown
  <2>1. CASE EnterPark(w)
    <3> DEFINE d == [ctl EXCEPT !.parked = @ + 1, !.parkedGen = @ + 1]
    <3>1. d \in ControlBlock
      BY ArrivingCounts, Zenon
    <3>2. d.shutdown = ctl.shutdown /\ Coherent(d)
      BY <1>1 DEF ControlBlock, Coherent
    <3>3. ctl' = ctl \/ ctl' = settle_locked(d)
      BY <2>1, Zenon DEF EnterPark
    <3> HIDE DEF d
    <3> QED BY <3>1, <3>2, <3>3, HelpersStayUp, Zenon
  <2>2. CASE LeavePark(w)
    <3> DEFINE d == [ctl EXCEPT !.parked = @ - 1, !.parkedGen =
                                IF ctl.parkGen = wgen[w] THEN @ - 1 ELSE @]
    <3>1. ctl' = settle_locked(d) /\ wpc[w] = "parked"
      BY <2>2 DEF LeavePark
    <3>2. d \in ControlBlock /\ Coherent(d)
      BY <3>1, LeavingCounts, Zenon
    <3>3. d.shutdown = ctl.shutdown
      BY <1>1 DEF ControlBlock
    <3> HIDE DEF d
    <3> QED BY <3>1, <3>2, <3>3, HelpersStayUp, Zenon
  <2>3. CASE control_switch_failed(w)
    <3>1. \/ ctl' = c
          \/ \E u, a, s : ctl' = post_pool_locked(c, u, a, TRUE, s)
      BY <2>3, Zenon DEF control_switch_failed, c
    <3> QED BY <1>0, <1>2, <3>1, Zenon
  <2> QED BY <1>3, <2>1, <2>2, <2>3, Zenon
          DEF WorkerStep, NoticePark, PassCheck, GoRound, ReadTerms, Rebind,
              BuildKernel, BuildFailsRecoverably, BuildFailsFatally, WorkerExit
<1>4. ASSUME StratumStep PROVE ctl'.shutdown = ctl.shutdown
  <2>1. CASE TakeRequest
    BY <1>1, <2>1 DEF TakeRequest, ControlBlock
  <2> QED BY <1>1, <1>4, <2>1, HelpersStayUp, Zenon
          DEF StratumStep, TopHold, TopReset, TopRun, ConnectLoop, DialSucceeds,
              DialFails, DialGivesUp, NothingPosted, HookRefuses, HookAccepts,
              SwapUrl, ApplyReturns, ReceiveLine, WaitInterrupted, ConnectionLost,
              DialSucceedsAndMoves, stratum_reconnect
<1>5. ASSUME ApiStep PROVE ctl'.shutdown = ctl.shutdown
  <2>1. ASSUME NEW s \in Verb, control_request(s) PROVE ctl'.shutdown = ctl.shutdown
    <3>1. ~c.mutating /\ ctl' = settle_locked(post_verb_locked(c, s))
      BY <2>1 DEF control_request, c
    <3>2. s \in RunState
      BY ProfileAssumption DEF RunState
    <3>3. /\ post_verb_locked(c, s) \in ControlBlock
          /\ Coherent(post_verb_locked(c, s))
      BY <1>2, <3>1, <3>2, PostVerbOpens, Zenon
    <3>4. /\ settle_locked(post_verb_locked(c, s)).shutdown
                = post_verb_locked(c, s).shutdown
          /\ post_verb_locked(c, s).shutdown = ctl.shutdown
      BY <1>0, <3>3, HelpersStayUp, Zenon
    <3> QED BY <3>1, <3>4, Zenon
  <2>2. ASSUME NEW u, NEW a, NEW s, control_pool_request(u, a, s)
        PROVE  ctl'.shutdown = ctl.shutdown
    <3>1. \E t : ctl' = settle_locked(post_pool_locked(c, u, a, FALSE, t))
      BY <2>2, Zenon DEF control_pool_request, c
    <3>2. PICK t : ctl' = settle_locked(post_pool_locked(c, u, a, FALSE, t))
      BY <3>1
    <3>3. ctl' = post_pool_locked(c, u, a, FALSE, t)
      BY <1>2, <3>2, PostPoolRests, RestedIsSettled, Zenon
    <3> QED BY <1>0, <3>3, Zenon
  <2>3. CASE WaitTimesOut
    <3>1. settle_locked(ctl) \in ControlBlock /\ Coherent(settle_locked(ctl))
      BY <1>1, SettleKeeps DEF Keeps
    <3> QED BY <1>1, <2>3, <3>1, HelpersStayUp, Zenon DEF WaitTimesOut
  <2>4. CASE WaitEnds \/ WaitAccepted
    BY <1>1, <2>4, HelpersStayUp, Zenon DEF WaitEnds, WaitAccepted
  <2>5. CASE control_status \/ \E s \in Verb : VerbAnswered(s)
    BY <1>2, <2>5, Zenon DEF control_status, VerbAnswered, c
  <2> QED BY <1>5, <2>1, <2>2, <2>3, <2>4, <2>5, Zenon DEF ApiStep, ApiWait
<1>6. CASE DeadlinePasses \/ IntervalPasses
  BY <1>1, <1>6 DEF DeadlinePasses, IntervalPasses, ControlBlock
<1>7. ~worker_request_stop
  BY DEF worker_request_stop
<1>8. CASE UNCHANGED vars
  BY <1>8 DEF vars
<1> QED BY <1>3, <1>4, <1>5, <1>6, <1>7, <1>8, Zenon DEF Next

(* A run that is not wound up implements the safety part of the contract.    *)
THEOREM ImplementsContractSafety ==
    SwitchAlgo = {} /\ ~MayShutDown /\ Spec => Contract!Safety
<1> SUFFICES ASSUME SwitchAlgo = {}, ~MayShutDown PROVE Spec => Contract!Safety
  OBVIOUS
<1> DEFINE Up == AtRest /\ ContractInv /\ ~ctl.shutdown
<1>1. Init => Up /\ Contract!Init
  BY DEF Init, control_init, AtRest, Rested, ContractInv, NoProfile, Contract!Init
<1>2. BarrierInv /\ Up /\ [Next]_vars => Up' /\ [Contract!Next]_(Contract!cvars)
  <2> SUFFICES ASSUME BarrierInv, Up, [Next]_vars
               PROVE  Up' /\ [Contract!Next]_(Contract!cvars)
    OBVIOUS
  <2>1. AtRest' /\ ContractInv' /\ [Contract!Next]_(Contract!cvars)
    BY NextAtRest, NextContract
  <2>2. ~ctl'.shutdown
    BY NextStaysUp
  <2> QED BY <2>1, <2>2
<1> QED BY <1>1, <1>2, BarrierInvariant, PTL DEF Spec, Contract!Safety
=============================================================================

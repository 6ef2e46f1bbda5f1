------------------------- MODULE SharedTableProofs -------------------------
(***************************************************************************)
(* Proofs about SharedTable for any number of workers on the device, any   *)
(* depth and any sequence of epochs.                                        *)
(*                                                                          *)
(* ReadsOwnEpoch is not inductive: between the check in dispatch and the    *)
(* submit nothing is locked. TableInv adds why that is safe: every kernel   *)
(* is bound to the one table and that table has its epoch's size (Sized),   *)
(* and a worker past the check relies on contents (Checked) that only a     *)
(* worker of another epoch would replace; by EpochsDiffer there is none.    *)
(***************************************************************************)
EXTENDS SharedTable, TLAPS, FiniteSetTheorems

(* Two seed epochs never have tables of one size, whatever a fork does to    *)
(* the dataset's epoch (epochs_for in progpow_dag.cpp).                      *)
LEMMA EpochsDiffer ==
    ASSUME NEW a \in Nat, NEW b \in Nat, epochs_for(a) = epochs_for(b)
    PROVE  a = b
<1> DEFINE M == DagEpochMul
<1>1. DagChangeEpoch \in Nat /\ M \in Nat /\ M >= 1 /\ DagFullOff \in Nat
  BY TableAssumption
<1>2. a * M \in Nat /\ b * M \in Nat
  BY <1>1
<1>3. a * M >= a /\ b * M >= b
  BY <1>1
<1>4. a * M = b * M => a = b
  BY <1>1
<1> HIDE DEF M
<1>5. a * DagEpochMul = a * M /\ b * DagEpochMul = b * M
  BY DEF M
<1> QED
  BY <1>1, <1>2, <1>3, <1>4, <1>5 DEF epochs_for

----------------------------------------------------------------------------
(* The table a kernel is bound to has the size of its worker's epoch. *)
Sized ==
    \A w \in Worker : kernel[w] # 0 => table[kernel[w]].bytes = epochs_for(epoch[w])

(* Where a worker is says whether it has a kernel and dispatches. *)
Phased ==
    \A w \in Worker :
        /\ wpc[w] \in {"fit", "create", "parked", "exit"} => kernel[w] = 0
        /\ wpc[w] \in {"make", "prepare", "fill1", "dispatch", "fill2", "submit"}
              => kernel[w] # 0
        /\ exec[w] > 0 => kernel[w] # 0
        /\ wpc[w] \in {"terms", "reset", "make"} => exec[w] = 0

(* Who fills a table holds its lock, and a locked table is not ready. *)
Locked ==
    /\ \A w \in Worker : wpc[w] \in {"fill1", "fill2"} => table[kernel[w]].by = w
    /\ \A t \in Slot : table[t].by # NoOne => ~table[t].ready

(* Past the check in dispatch the table is still what was checked. *)
Checked ==
    \A w \in Worker : wpc[w] = "submit" =>
        table[kernel[w]].ready /\ table[kernel[w]].key = epoch[w]

TableInv ==
    TypeOK /\ OneTable /\ Sized /\ Phased /\ Locked /\ Checked /\ ReadsOwnEpoch

LEMMA InitTableInv == Init => TableInv
<1> SUFFICES ASSUME Init PROVE TableInv
  OBVIOUS
<1>1. Cardinality(Worker) \in Nat
  BY TableAssumption, FS_CardinalityType
<1> USE TableAssumption, <1>1
<1>2. NoTable \in Table
  BY DEF NoTable, Table
<1>3. TypeOK
  <2>1. poolEpoch \in Nat /\ jobs \in Nat /\ parks \in Nat
    BY DEF Init
  <2>2. table \in [Slot -> Table]
    BY <1>2 DEF Init
  <2>3. /\ epoch \in [Worker -> Nat] /\ wpc \in [Worker -> WorkerPc]
        /\ wgen \in [Worker -> Nat] /\ kernel \in [Worker -> Slot \cup {0}]
        /\ exec \in [Worker -> 0 .. Depth]
    BY DEF Init, WorkerPc
  <2>4. given \in BOOLEAN /\ stop \in BOOLEAN
    BY DEF Init
  <2>5. /\ weak \in Slot \cup {0} /\ pinned \in Slot \cup {0}
        /\ park \in {"no", "retain", "free"}
    BY DEF Init
  <2> QED
    BY <2>1, <2>2, <2>3, <2>4, <2>5 DEF TypeOK
<1>4. OneTable
  BY DEF Init, OneTable
<1>5. Sized /\ Phased /\ Checked /\ ReadsOwnEpoch
  BY DEF Init, Sized, Phased, Checked, ReadsOwnEpoch
<1>6. Locked
  BY DEF Init, Locked, NoTable
<1> QED
  BY <1>3, <1>4, <1>5, <1>6 DEF TableInv

LEMMA NextTableInv == TableInv /\ [Next]_vars => TableInv'
<1> SUFFICES ASSUME TableInv, [Next]_vars PROVE TableInv'
  OBVIOUS
<1>1. Cardinality(Worker) \in Nat
  BY TableAssumption, FS_CardinalityType
<1> USE TableAssumption, <1>1
<1> USE DEF TableInv
<1>2. CASE NewEpoch
  BY <1>2 DEF NewEpoch, TypeOK, OneTable, Sized, Phased, Locked, Checked,
     ReadsOwnEpoch, tableVars, otherVars
<1>3. CASE PostPark
  BY <1>3 DEF PostPark, TypeOK, OneTable, Sized, Phased, Locked, Checked,
     ReadsOwnEpoch, tableVars, poolVars
<1>4. CASE Unpark
  BY <1>4 DEF Unpark, TypeOK, OneTable, Sized, Phased, Locked, Checked,
     ReadsOwnEpoch, tableVars, poolVars
<1>5. ASSUME NEW w \in Worker, NoticePark(w) PROVE TableInv'
  BY <1>5 DEF NoticePark, Step, TypeOK, WorkerPc, OneTable, Sized, Phased, Locked,
     Checked, ReadsOwnEpoch, tableVars, otherVars, poolVars
<1>6. ASSUME NEW w \in Worker, retain_shared_state(w) PROVE TableInv'
  BY <1>6 DEF retain_shared_state, LockWeak, Step, TypeOK, WorkerPc, OneTable,
     Sized, Phased, Locked, Checked, ReadsOwnEpoch, parkVars, poolVars
<1>7. ASSUME NEW w \in Worker, ResetKernel(w) PROVE TableInv'
  BY <1>7 DEF ResetKernel, Step, TypeOK, WorkerPc, OneTable, Sized, Phased, Locked,
     Checked, ReadsOwnEpoch, tableVars, otherVars, poolVars
<1>8. ASSUME NEW w \in Worker, LeavePark(w) PROVE TableInv'
  BY <1>8 DEF LeavePark, Step, TypeOK, WorkerPc, OneTable, Sized, Phased, Locked,
     Checked, ReadsOwnEpoch, tableVars, otherVars, poolVars
<1>9. ASSUME NEW w \in Worker, retarget(w) PROVE TableInv'
  BY <1>9 DEF retarget, Step, TypeOK, WorkerPc, OneTable, Sized, Phased, Locked,
     Checked, ReadsOwnEpoch, tableVars, parkVars, poolVars
<1>10. ASSUME NEW w \in Worker, would_fit(w) PROVE TableInv'
  <2>1. /\ wpc[w] = "fit" /\ stop' \in BOOLEAN
        /\ \E to \in {"create", "exit"} : wpc' = [wpc EXCEPT ![w] = to]
        /\ UNCHANGED <<poolVars, epoch, wgen, kernel, exec, tableVars, parkVars, given>>
    <3>1. CASE Refused(w)
      BY <1>10, <3>1, Zenon DEF would_fit, FailRun
    <3>2. CASE ~Refused(w)
      <4>1. stop \in BOOLEAN
        BY DEF TypeOK
      <4> QED
        BY <1>10, <3>2, <4>1, Zenon DEF would_fit, Step
    <3> QED
      BY <3>1, <3>2
  <2> QED
    BY <2>1 DEF TypeOK, WorkerPc, OneTable, Sized, Phased, Locked, Checked,
                ReadsOwnEpoch, tableVars, parkVars, poolVars
<1>11. ASSUME NEW w \in Worker, create_kernel(w) PROVE TableInv'
  <2> USE <1>11 DEF create_kernel, parkVars, poolVars
  <2> DEFINE fits  == LockWeak # 0 /\ table[weak].bytes = epochs_for(epoch[w])
             taken == ~fits /\ weak # 0 /\ Owned(weak)
  <2>1. CASE fits /\ Bind(w, weak) /\ UNCHANGED <<table, given>>
    BY <2>1 DEF Bind, LockWeak, TypeOK, WorkerPc, OneTable, Sized, Phased, Locked,
                Checked, ReadsOwnEpoch
  <2>2. CASE ~fits /\ ~taken /\ MakeTable(w)
    <3>1. \A v \in Worker : kernel[v] = 0
      BY <2>2 DEF Owned, OneTable
    <3>2. PICK t \in Slot :
             /\ ~Live(t)
             /\ table' = [table EXCEPT ![t] =
                             [NoTable EXCEPT !.bytes = epochs_for(epoch[w])]]
             /\ given' = FALSE
             /\ Bind(w, t)
      BY <2>2 DEF MakeTable
    <3>3. epochs_for(epoch[w]) \in Nat
      BY DEF epochs_for, TypeOK
    <3> DEFINE fresh == [NoTable EXCEPT !.bytes = epochs_for(epoch[w])]
    <3>4. fresh \in Table /\ fresh.by = NoOne /\ fresh.bytes = epochs_for(epoch[w])
      BY <3>3 DEF NoTable, Table
    <3> HIDE DEF fresh
    <3>5. table' = [table EXCEPT ![t] = fresh]
      BY <3>2 DEF fresh
    <3>6. t \in Nat \ {0}
      BY DEF Slot
    <3>7. TypeOK'
      BY <3>2, <3>4, <3>5 DEF Bind, TypeOK, WorkerPc
    <3>8. OneTable' /\ Sized' /\ Phased' /\ Checked' /\ ReadsOwnEpoch'
      BY <3>1, <3>2, <3>4, <3>5, <3>6 DEF Bind, TypeOK, OneTable, Sized, Phased,
         Checked, ReadsOwnEpoch
    <3>9. Locked'
      BY <3>1, <3>2, <3>4, <3>5 DEF Bind, TypeOK, Phased, Locked
    <3> QED
      BY <3>7, <3>8, <3>9
  <2>3. CASE taken /\ FailRun(w) /\ pinned' = 0 /\ UNCHANGED <<wgen, kernel, table, weak, given>>
    BY <2>3 DEF FailRun, TypeOK, WorkerPc, OneTable, Sized, Phased, Locked, Checked,
                ReadsOwnEpoch
  <2> QED
    BY <2>1, <2>2, <2>3
<1>12. ASSUME NEW w \in Worker, AllocationFails(w) PROVE TableInv'
  BY <1>12 DEF AllocationFails, FailRun, TypeOK, WorkerPc, OneTable, Sized, Phased,
     Locked, Checked, ReadsOwnEpoch, parkVars, poolVars
<1>13. ASSUME NEW w \in Worker, MakeKernel(w) PROVE TableInv'
  BY <1>13 DEF MakeKernel, Step, TypeOK, WorkerPc, OneTable, Sized, Phased, Locked,
     Checked, ReadsOwnEpoch, tableVars, otherVars, poolVars
<1>14. ASSUME NEW w \in Worker, MakeKernelFails(w) PROVE TableInv'
  BY <1>14 DEF MakeKernelFails, FailRun, TypeOK, WorkerPc, OneTable, Sized,
       Phased, Locked, Checked, ReadsOwnEpoch, tableVars, parkVars, poolVars
<1>15. ASSUME NEW w \in Worker, NextBatch(w) PROVE TableInv'
  BY <1>15 DEF NextBatch, Step, TypeOK, WorkerPc, OneTable, Sized, Phased, Locked,
     Checked, ReadsOwnEpoch, tableVars, otherVars, poolVars
<1>16. ASSUME NEW w \in Worker, EnsureHit(w) PROVE TableInv'
  BY <1>16 DEF EnsureHit, Filled, Step, TypeOK, WorkerPc, OneTable, Sized, Phased,
     Locked, Checked, ReadsOwnEpoch, tableVars, otherVars, poolVars
<1>17. ASSUME NEW w \in Worker, FillBegins(w) PROVE TableInv'
  <2> DEFINE k == kernel[w]
             t == [table[k] EXCEPT !.by = w, !.ready = FALSE]
  <2>1. k # 0 /\ k = weak /\ k \in Slot
    BY <1>17 DEF FillBegins, Phased, OneTable, TypeOK
  <2>2. table[k] \in Table /\ table[k].by = NoOne
        /\ ~(table[k].ready /\ table[k].key = epoch[w])
    BY <1>17, <2>1 DEF FillBegins, TypeOK
  <2>3. /\ t \in Table /\ t.by = w /\ t.ready = FALSE /\ t.bytes = table[k].bytes
    BY <2>2 DEF Table
  <2>4. table' = [table EXCEPT ![k] = t]
    BY <1>17, <2>1 DEF FillBegins, TypeOK
  <2>5. \A v \in Worker : kernel[v] = k => epoch[v] = epoch[w]
    <3> SUFFICES ASSUME NEW v \in Worker, kernel[v] = k PROVE epoch[v] = epoch[w]
      OBVIOUS
    <3>1. epochs_for(epoch[v]) = epochs_for(epoch[w])
      BY <2>1 DEF Sized
    <3> QED
      BY <3>1, EpochsDiffer DEF TypeOK
  <2>6. \A v \in Worker : kernel[v] = k => exec[v] = 0 /\ wpc[v] # "submit"
    BY <2>2, <2>5 DEF ReadsOwnEpoch, Checked, TypeOK
  <2>7. \A v \in Worker : kernel[v] = k => wpc[v] \notin {"fill1", "fill2"}
    BY <2>2, TableAssumption DEF Locked
  <2>8. PICK to \in {"fill1", "fill2"} : wpc' = [wpc EXCEPT ![w] = to]
    BY <1>17 DEF FillBegins, Filling
  <2> HIDE DEF t
  <2>9. UNCHANGED <<poolEpoch, jobs, epoch, wgen, kernel, exec, weak, pinned, park,
                    parks, given, stop>>
    BY <1>17 DEF FillBegins, otherVars, poolVars
  <2> HIDE DEF k
  <2>10. TypeOK'
    BY <2>1, <2>3, <2>4, <2>8, <2>9 DEF TypeOK, WorkerPc
  <2>11. OneTable' /\ Sized'
    BY <2>1, <2>3, <2>4, <2>9 DEF TypeOK, OneTable, Sized, k
  <2>12. Phased'
    BY <2>1, <2>8, <2>9 DEF TypeOK, Phased, k
  <2>13. Locked'
    BY <2>1, <2>3, <2>4, <2>7, <2>8, <2>9 DEF TypeOK, Locked, k
  <2>14. Checked' /\ ReadsOwnEpoch'
    BY <2>1, <2>4, <2>6, <2>8, <2>9 DEF TypeOK, Checked, k, ReadsOwnEpoch
  <2> QED
    BY <2>10, <2>11, <2>12, <2>13, <2>14
<1>18. ASSUME NEW w \in Worker, FillEnds(w) PROVE TableInv'
  <2> DEFINE k == kernel[w]
             t == [table[k] EXCEPT !.by = NoOne, !.ready = TRUE, !.key = epoch[w]]
  <2>1. k # 0 /\ k = weak /\ k \in Slot
    BY <1>18 DEF FillEnds, Phased, OneTable, TypeOK
  <2>2. table[k] \in Table /\ table[k].by = w /\ ~table[k].ready
    BY <1>18, <2>1, TableAssumption DEF FillEnds, TypeOK, Locked
  <2>3. /\ t \in Table /\ t.by = NoOne /\ t.ready = TRUE /\ t.key = epoch[w]
        /\ t.bytes = table[k].bytes
    BY <2>2 DEF Table, TypeOK
  <2>4. table' = [table EXCEPT ![k] = t]
    BY <1>18, <2>1 DEF FillEnds, TypeOK
  <2>5. \A v \in Worker : kernel[v] = k => exec[v] = 0 /\ wpc[v] # "submit"
    BY <2>2 DEF ReadsOwnEpoch, Checked, TypeOK
  <2>6. \A v \in Worker : kernel[v] = k /\ v # w => wpc[v] \notin {"fill1", "fill2"}
    BY <2>2 DEF Locked
  <2>7. PICK to \in {"dispatch", "submit"} : wpc' = [wpc EXCEPT ![w] = to]
    BY <1>18 DEF FillEnds
  <2> HIDE DEF t
  <2>8. UNCHANGED <<poolEpoch, jobs, epoch, wgen, kernel, exec, weak, pinned, park,
                    parks, given, stop>>
    BY <1>18 DEF FillEnds, otherVars, poolVars
  <2> HIDE DEF k
  <2>9. TypeOK'
    BY <2>1, <2>3, <2>4, <2>7, <2>8 DEF TypeOK, WorkerPc
  <2>10. OneTable' /\ Sized'
    BY <2>1, <2>3, <2>4, <2>8 DEF TypeOK, OneTable, Sized, k
  <2>11. Phased'
    BY <2>1, <2>7, <2>8 DEF TypeOK, Phased, k
  <2>12. Locked'
    BY <2>1, <2>3, <2>4, <2>6, <2>7, <2>8 DEF TypeOK, Locked, k
  <2>13. Checked' /\ ReadsOwnEpoch'
    BY <2>1, <2>3, <2>4, <2>5, <2>7, <2>8 DEF TypeOK, Checked, k, ReadsOwnEpoch
  <2> QED
    BY <2>9, <2>10, <2>11, <2>12, <2>13
<1>19. ASSUME NEW w \in Worker, FillFails(w) PROVE TableInv'
  <2> DEFINE k == kernel[w]
             t == [table[k] EXCEPT !.by = NoOne]
  <2>1. k # 0 /\ k = weak /\ k \in Slot
    BY <1>19 DEF FillFails, Phased, OneTable, TypeOK
  <2>2. table[k] \in Table /\ table[k].by = w
    BY <1>19, <2>1 DEF FillFails, TypeOK, Locked
  <2>3. /\ t \in Table /\ t.by = NoOne /\ t.ready = table[k].ready
        /\ t.key = table[k].key /\ t.bytes = table[k].bytes
    BY <2>2 DEF Table
  <2>4. table' = [table EXCEPT ![k] = t]
    BY <1>19, <2>1 DEF FillFails, TypeOK
  <2>5. \A v \in Worker : kernel[v] = k /\ v # w => wpc[v] \notin {"fill1", "fill2"}
    BY <2>2 DEF Locked
  <2> HIDE DEF t
  <2>6. /\ wpc' = [wpc EXCEPT ![w] = "top"]
        /\ UNCHANGED <<poolEpoch, jobs, epoch, wgen, kernel, exec, weak, pinned, park,
                       parks, given, stop>>
    BY <1>19 DEF FillFails, otherVars, poolVars
  <2> HIDE DEF k
  <2>7. TypeOK'
    BY <2>1, <2>3, <2>4, <2>6 DEF TypeOK, WorkerPc
  <2>8. OneTable' /\ Sized' /\ Phased'
    BY <2>1, <2>3, <2>4, <2>6 DEF TypeOK, OneTable, Sized, Phased, k
  <2>9. Locked'
    BY <2>1, <2>3, <2>4, <2>5, <2>6 DEF TypeOK, Locked, k
  <2>10. Checked' /\ ReadsOwnEpoch'
    BY <2>1, <2>3, <2>4, <2>6 DEF TypeOK, Checked, k, ReadsOwnEpoch
  <2> QED
    BY <2>7, <2>8, <2>9, <2>10
<1>20. ASSUME NEW w \in Worker, Submit(w) PROVE TableInv'
  BY <1>20 DEF Submit, Step, TypeOK, WorkerPc, OneTable, Sized, Phased, Locked,
     Checked, ReadsOwnEpoch, tableVars, otherVars, poolVars
<1>21. ASSUME NEW w \in Worker, collect(w) PROVE TableInv'
  BY <1>21 DEF collect, Step, TypeOK, WorkerPc, OneTable, Sized, Phased, Locked,
     Checked, ReadsOwnEpoch, tableVars, otherVars, poolVars
<1>22. ASSUME NEW w \in Worker, WorkerExit(w) PROVE TableInv'
  BY <1>22 DEF WorkerExit, Step, TypeOK, WorkerPc, OneTable, Sized, Phased, Locked,
     Checked, ReadsOwnEpoch, tableVars, otherVars, poolVars
<1>23. CASE UNCHANGED vars
  BY <1>23 DEF vars, TypeOK, OneTable, Sized, Phased, Locked, Checked, ReadsOwnEpoch
<1> QED
  BY <1>2, <1>3, <1>4, <1>5, <1>6, <1>7, <1>8, <1>9, <1>10, <1>11, <1>12, <1>13,
     <1>14, <1>15, <1>16, <1>17, <1>18, <1>19, <1>20, <1>21, <1>22, <1>23
     DEF Next, WorkerStep

LEMMA TableInvHolds == Spec => []TableInv
  BY InitTableInv, NextTableInv, PTL DEF Spec

----------------------------------------------------------------------------
(* A table that was not given up is pinned, or held by a kernel whose worker *)
(* is not about to hand it back.                                             *)
Held ==
    ~given /\ ~stop /\ weak # 0
        => pinned = weak \/ \E v \in Worker : kernel[v] = weak /\ wpc[v] # "reset"

LEMMA NextHeld == TableInv /\ Held /\ [Next]_vars => Held'
<1> SUFFICES ASSUME TableInv, Held, [Next]_vars PROVE Held'
  OBVIOUS
<1>1. wpc \in [Worker -> WorkerPc] /\ kernel \in [Worker -> Slot \cup {0}]
      /\ \A w \in Worker : wpc[w] \in {"fit", "create", "parked", "exit"} => kernel[w] = 0
  BY DEF TableInv, TypeOK, Phased
<1>2. CASE NewEpoch \/ PostPark \/ Unpark
  BY <1>2 DEF NewEpoch, PostPark, Unpark, Held, tableVars, otherVars
<1>3. ASSUME NEW w \in Worker, NoticePark(w) \/ LeavePark(w) \/ MakeKernel(w) \/ NextBatch(w)
      PROVE  Held'
  BY <1>1, <1>3 DEF NoticePark, LeavePark, MakeKernel, NextBatch, Step, Held, tableVars,
     otherVars
<1>4. ASSUME NEW w \in Worker, retain_shared_state(w) PROVE Held'
  BY <1>1, <1>4 DEF retain_shared_state, LockWeak, Live, Owned, Held, Step
<1>5. ASSUME NEW w \in Worker, ResetKernel(w) PROVE Held'
  BY <1>1, <1>5 DEF ResetKernel, Held, Step, tableVars, otherVars
<1>6. ASSUME NEW w \in Worker, retarget(w) PROVE Held'
  BY <1>1, <1>6 DEF retarget, Held, Step, tableVars
<1>7. ASSUME NEW w \in Worker, would_fit(w) PROVE Held'
  <2>1. CASE Refused(w)
    BY <1>7, <2>1 DEF would_fit, FailRun, Held
  <2>2. CASE ~Refused(w)
    BY <1>1, <1>7, <2>2 DEF would_fit, Step, Held, tableVars
  <2> QED
    BY <2>1, <2>2
<1>8. ASSUME NEW w \in Worker, create_kernel(w) PROVE Held'
  <2>1. CASE FailRun(w)
    BY <2>1 DEF FailRun, Held
  <2>2. CASE \E t \in Slot \cup {0} : Bind(w, t)
    BY <1>1, <2>2 DEF Bind, Held
  <2>3. weak \in Slot \cup {0}
    BY DEF TableInv, TypeOK
  <2> QED
    BY <1>8, <2>1, <2>2, <2>3 DEF create_kernel, MakeTable
<1>9. ASSUME NEW w \in Worker, AllocationFails(w) \/ MakeKernelFails(w) PROVE Held'
  BY <1>9 DEF AllocationFails, MakeKernelFails, FailRun, Held
<1>10. ASSUME NEW w \in Worker, EnsureHit(w) \/ FillBegins(w) \/ FillEnds(w) \/ FillFails(w)
       PROVE  Held'
  <2>1. \E to \in {"top", "dispatch", "submit", "fill1", "fill2"} :
           wpc' = [wpc EXCEPT ![w] = to]
    BY <1>10 DEF EnsureHit, FillBegins, FillEnds, FillFails, Filled, Filling
  <2>2. UNCHANGED <<kernel, weak, pinned, given, stop>>
    BY <1>10 DEF EnsureHit, FillBegins, FillEnds, FillFails, tableVars, otherVars
  <2> QED
    BY <1>1, <2>1, <2>2 DEF Held
<1>11. ASSUME NEW w \in Worker, Submit(w) \/ collect(w) PROVE Held'
  BY <1>1, <1>11 DEF Submit, collect, Step, Held, tableVars, otherVars
<1>12. ASSUME NEW w \in Worker, WorkerExit(w) PROVE Held'
  BY <1>12 DEF WorkerExit, Held, otherVars
<1>13. CASE UNCHANGED vars
  BY <1>13 DEF vars, Held
<1> QED
  BY <1>2, <1>3, <1>4, <1>5, <1>6, <1>7, <1>8, <1>9, <1>10, <1>11, <1>12, <1>13
     DEF Next, WorkerStep

----------------------------------------------------------------------------
(* Types, and no kernel with more dispatches than slots (kernel::dispatch    *)
(* refuses them), for any number of workers on a device.                     *)
THEOREM TableTypeCorrect == Spec => []TypeOK
<1>1. TableInv => TypeOK
  BY DEF TableInv
<1> QED
  BY <1>1, TableInvHolds, PTL

(* create_kernel and retain_shared_state keep one table per device, for any   *)
(* number of workers and any interleaving of builds, pins and parks.          *)
THEOREM OneTablePerDevice == Spec => []OneTable
<1>1. TableInv => OneTable
  BY DEF TableInv
<1> QED
  BY <1>1, TableInvHolds, PTL

(* dispatch may submit outside the table's lock: what the device hashes       *)
(* against is the finished table of the dispatching worker's epoch.           *)
THEOREM DispatchesReadTheirEpoch == Spec => []ReadsOwnEpoch
<1>1. TableInv => ReadsOwnEpoch
  BY DEF TableInv
<1> QED
  BY <1>1, TableInvHolds, PTL

(* A pause keeps the table: worker.cpp's "a park that will be resumed from    *)
(* pins the table first", whichever worker parks or resumes first.            *)
THEOREM PauseKeepsTheTable == Spec => []PauseKeepsTable
<1>1. Init => Held
  BY DEF Init, Held
<1>2. Held => PauseKeepsTable
  BY DEF Held, PauseKeepsTable, Live, Owned
<1> QED
  BY <1>1, <1>2, NextHeld, TableInvHolds, PTL DEF Spec
=============================================================================

-------------------------- MODULE ShareBookProofs --------------------------
(***************************************************************************)
(* The accounts of shares, for every number of mining threads, ring size,   *)
(* id range and number of shares: an answer is booked on the share it       *)
(* answers, the counters count nothing twice, and an answer without an      *)
(* entry has one of three explanations.                                     *)
(***************************************************************************)
EXTENDS ShareBook, FiniteSetTheorems, WellFoundedInduction, TLAPS

TypeOK ==
    /\ next_submit_id \in Nat /\ found \in Nat
    /\ wpc \in [Worker -> {"idle", "claimed", "pushed"}]
    /\ mine \in [Worker -> Share]
    /\ share_stats \in [0 .. Size - 1 -> Entry] /\ s_put_ptr \in 0 .. Size - 1
    /\ submitted \in Nat /\ accepted \in Nat /\ rejected \in Nat /\ stale \in Nat
    /\ queue \in Seq(Share) /\ frozen \in BOOLEAN
    /\ iopc \in {"idle", "check", "drop", "send", "ending", "over"}
    /\ cur \in Share /\ ioread \in Nat
    /\ stratum_session \in Nat /\ sock \in {"closed", "shaking", "up"}
    /\ sessions \in Nat
    /\ pool \in SUBSET Share /\ IsFiniteSet(pool)
    /\ spc \in {"read", "result", "store"}
    /\ reply \in [serial : Nat, id : Nat, result : Result]
    /\ entry \in Entry /\ sread \in Nat
    /\ log \in Seq(Nat)

----------------------------------------------------------------------------
(* Which share an id stands for.                                            *)

(* Somewhere the id stands for the share with this serial number. *)
Holds(id, serial) ==
    \/ \E w \in Worker : wpc[w] # "idle" /\ mine[w].id = id /\ mine[w].serial = serial
    \/ \E i \in 1 .. Len(queue) : queue[i].id = id /\ queue[i].serial = serial
    \/ iopc \in {"check", "send"} /\ cur.id = id /\ cur.serial = serial
    \/ \E r \in pool : r.id = id /\ r.serial = serial
    \/ \E i \in 0 .. Size - 1 : /\ share_stats[i].serial # 0
                                /\ share_stats[i].id = id
                                /\ share_stats[i].serial = serial

(* An id stands for one share at a time, a share has one id. *)
OneShareAnId ==
    \A id1, id2, serial1, serial2 \in Nat :
        Holds(id1, serial1) /\ Holds(id2, serial2)
            => (id1 = id2 <=> serial1 = serial2)

(* Serial numbers are those handed out. *)
SerialsHandedOut ==
    /\ \A id, serial \in Nat : Holds(id, serial) => serial \in 1 .. found
    /\ \A i \in 1 .. Len(log) : log[i] <= found

IdInv == TypeOK /\ OneShareAnId /\ SerialsHandedOut

----------------------------------------------------------------------------
(* Where a share that can still be answered is: with its thread, in the     *)
(* queue, with the workio thread, or with the pool.                         *)

Claimed == {w \in Worker : wpc[w] = "claimed"}
Sending == iopc \in {"check", "send"}

(* No share is in two of these places. *)
NoShareTwice ==
    /\ \A w, v \in Claimed : mine[w].serial = mine[v].serial => w = v
    /\ \A w \in Claimed, i \in 1 .. Len(queue) : mine[w].serial # queue[i].serial
    /\ \A w \in Claimed, r \in pool : mine[w].serial # r.serial
    /\ Sending => \A w \in Claimed : mine[w].serial # cur.serial
    /\ \A i, j \in 1 .. Len(queue) : queue[i].serial = queue[j].serial => i = j
    /\ \A i \in 1 .. Len(queue), r \in pool : queue[i].serial # r.serial
    /\ Sending => \A i \in 1 .. Len(queue) : queue[i].serial # cur.serial
    /\ Sending => \A r \in pool : r.serial # cur.serial
    /\ \A r, q \in pool : r.serial = q.serial => r = q

(* The share is in one of these places. *)
Flying(id, serial) ==
    \/ \E w \in Claimed : mine[w].id = id /\ mine[w].serial = serial
    \/ \E i \in 1 .. Len(queue) : queue[i].id = id /\ queue[i].serial = serial
    \/ Sending /\ cur.id = id /\ cur.serial = serial
    \/ \E r \in pool : r.id = id /\ r.serial = serial

(* The shares last recorded sit where they were put, until answered. *)
RingFollowsLog ==
    /\ s_put_ptr = Len(log) % Size
    /\ \A i \in 1 .. Len(log), id, serial \in Nat :
          Len(log) - i < Size /\ log[i] = serial /\ Flying(id, serial)
              => share_stats[(i - 1) % Size] = [serial |-> serial, id |-> id]

RingInv == IdInv /\ NoShareTwice /\ RingFollowsLog

----------------------------------------------------------------------------
(* The accounts.                                                            *)

Pushed == {w \in Worker : wpc[w] = "pushed"}

(* Shares pushed and not yet booked. *)
Transit ==
    Len(queue) + Cardinality(pool)
    + (IF iopc \in {"check", "drop", "send"} THEN 1 ELSE 0)
    + (IF spc \in {"result", "store"} THEN 1 ELSE 0)

(* Whichever of the stale counts is stored last, the accounts balance. *)
Balanced(count) ==
    accepted + rejected + count + Transit <= submitted + Cardinality(Pushed)

AccountsInv ==
    /\ Balanced(stale)
    /\ iopc = "drop" => Balanced(ioread)
    /\ spc = "store" => Balanced(sread)

----------------------------------------------------------------------------
(* Types.                                                                   *)

(* Among numbers there is a least one, so "the first slot" names a slot. *)
LEMMA LeastNumber ==
    ASSUME NEW T \in SUBSET Nat, T # {}
    PROVE  \E m \in T : \A k \in T : m <= k
<1> DEFINE R == OpToRel(<, Nat)
<1>1. IsWellFoundedOn(R, Nat)
  BY NatLessThanWellFounded, Zenon
<1>2. \A a, b \in Nat : a < b => <<a, b>> \in R
  BY DEF OpToRel
<1> HIDE DEF R
<1>3. PICK m \in T : \A y \in T : ~ (<<y, m>> \in R)
  BY <1>1, WFMin
<1>4. ASSUME NEW k \in T
      PROVE  ~ (k < m)
  BY <1>2, <1>3, Zenon
<1>5. \A k \in T : m <= k
  BY <1>4
<1> QED
  BY <1>5

(* The slot share_result takes: the first one that waits for this id. *)
LEMMA FirstPending ==
    ASSUME TypeOK, NEW id, Pending(id) # {}
    PROVE  LET slot == CHOOSE i \in Pending(id) : \A k \in Pending(id) : i <= k
           IN  slot \in Pending(id) /\ slot \in 0 .. Size - 1
<1>1. Pending(id) \subseteq 0 .. Size - 1
  BY DEF Pending
<1>2. PICK m \in Pending(id) : \A k \in Pending(id) : m <= k
  <2>1. Pending(id) \in SUBSET Nat
    BY <1>1, BookAssumption
  <2> QED
    BY <2>1, LeastNumber
<1> QED
  BY <1>1, <1>2

(* What the mining threads do keeps the types: a claim, a push and a record. *)
LEMMA SubmitTypes ==
    ASSUME TypeOK, NEW w \in Worker, Submit(w)
    PROVE  TypeOK'
<1> USE BookAssumption
<1>1. CASE claim_submit_id(w)
  <2>1. PICK session \in 1 .. stratum_session :
            mine' = [mine EXCEPT ![w] = [serial |-> found + 1, id |-> next_submit_id,
                                         session |-> session]]
    BY <1>1 DEF claim_submit_id
  <2>2. mine' \in [Worker -> Share]
    BY <2>1 DEF TypeOK, Share
  <2>3. wpc' \in [Worker -> {"idle", "claimed", "pushed"}] /\ next_submit_id' \in Nat
        /\ found' \in Nat
    BY <1>1 DEF claim_submit_id, TypeOK
  <2> QED
    BY <1>1, <2>2, <2>3 DEF claim_submit_id, TypeOK, ringVars, workioVars, connVars,
       replyVars, countVars
<1>2. CASE submit_work(w)
  <2>1. wpc' \in [Worker -> {"idle", "claimed", "pushed"}]
    BY <1>2 DEF submit_work, TypeOK
  <2>2. queue' \in Seq(Share)
    <3>1. mine[w] \in Share /\ queue \in Seq(Share)
      BY DEF TypeOK
    <3>2. queue' = queue \/ queue' = Append(queue, mine[w])
      BY <1>2 DEF submit_work
    <3> QED
      BY <3>1, <3>2
  <2> QED
    BY <1>2, <2>1, <2>2 DEF submit_work, TypeOK, ringVars, connVars, replyVars, countVars
<1>3. CASE update_submit_stats(w)
  <2>1. wpc' \in [Worker -> {"idle", "claimed", "pushed"}] /\ submitted' \in Nat
    BY <1>3 DEF update_submit_stats, TypeOK
  <2>2. share_stats' \in [0 .. Size - 1 -> Entry]
    BY <1>3 DEF update_submit_stats, TypeOK, Share, Entry
  <2>3. s_put_ptr' \in 0 .. Size - 1
    BY <1>3 DEF update_submit_stats, TypeOK
  <2>4. log' \in Seq(Nat)
    BY <1>3 DEF update_submit_stats, TypeOK, Share
  <2> QED
    BY <1>3, <2>1, <2>2, <2>3, <2>4 DEF update_submit_stats, TypeOK, workioVars,
       connVars, replyVars, countVars
<1> QED
  BY <1>1, <1>2, <1>3 DEF Submit

(* So does the workio thread. *)
LEMMA WorkioTypes ==
    ASSUME TypeOK, Workio
    PROVE  TypeOK'
<1> USE DEF TypeOK, workerVars, ringVars, connVars, replyVars, countVars
<1>1. CASE PopShare
  BY <1>1 DEF PopShare
<1>2. CASE CheckSession
  BY <1>2 DEF CheckSession
<1>4. CASE Drop
  BY <1>4 DEF Drop
<1>5. CASE SendFails
  BY <1>5 DEF SendFails
<1>6. CASE Freeze
  BY <1>6 DEF Freeze
<1>3. CASE SendShare
  <2>1. pool' \in SUBSET Share /\ IsFiniteSet(pool')
    BY <1>3, FS_AddElement DEF SendShare
  <2> QED
    BY <1>3, <2>1 DEF SendShare
<1> QED
  BY <1>1, <1>2, <1>3, <1>4, <1>5, <1>6 DEF Workio

(* And the stratum thread. *)
LEMMA StratumTypes ==
    ASSUME TypeOK, Stratum
    PROVE  TypeOK'
<1> USE DEF TypeOK, workerVars, workioVars, connVars, replyVars, countVars
<1>1. CASE Connect
  BY <1>1 DEF Connect, ringVars
<1>6. CASE Established
  BY <1>6 DEF Established, ringVars
<1>7. CASE CountStale
  BY <1>7 DEF CountStale, ringVars
<1>5. CASE CountResult
  <2>1. accepted' \in Nat /\ rejected' \in Nat /\ sread' \in Nat
        /\ spc' \in {"read", "result", "store"}
    BY <1>5 DEF CountResult
  <2> QED
    BY <1>5, <2>1 DEF CountResult, ringVars
<1>2. CASE Disconnect
  BY <1>2, FS_EmptySet DEF Disconnect, ringVars
<1>3. CASE TopReset
  <2>1. share_stats' \in [0 .. Size - 1 -> Entry] /\ s_put_ptr' \in 0 .. Size - 1
        /\ log' \in Seq(Nat)
    BY <1>3, BookAssumption DEF TopReset, share_stats_reset, Entry, NoEntry
  <2> QED
    BY <1>3, <2>1, FS_EmptySet DEF TopReset
<1>4. CASE share_result
  <2>1. PICK r \in pool, result \in Result :
          /\ pool' = pool \ {r}
          /\ reply' = [serial |-> r.serial, id |-> r.id, result |-> result]
          /\ IF Pending(r.id) = {}
             THEN entry' = NoEntry /\ UNCHANGED share_stats
             ELSE LET slot == CHOOSE i \in Pending(r.id) :
                                  \A k \in Pending(r.id) : i <= k
                  IN  /\ entry' = share_stats[slot]
                      /\ share_stats' = [share_stats EXCEPT ![slot] = NoEntry]
    BY <1>4 DEF share_result
  <2>2. reply' \in [serial : Nat, id : Nat, result : Result]
    BY <2>1 DEF Share
  <2>3. pool' \in SUBSET Share /\ IsFiniteSet(pool')
    BY <2>1, FS_RemoveElement
  <2>4. entry' \in Entry /\ share_stats' \in [0 .. Size - 1 -> Entry]
    <3>1. NoEntry \in Entry
      BY DEF NoEntry, Entry
    <3>2. CASE Pending(r.id) = {}
      BY <2>1, <3>1, <3>2
    <3>3. CASE Pending(r.id) # {}
      <4> DEFINE slot == CHOOSE i \in Pending(r.id) : \A k \in Pending(r.id) : i <= k
      <4>1. slot \in 0 .. Size - 1
        BY <3>3, FirstPending
      <4>2. entry' = share_stats[slot] /\ share_stats' = [share_stats EXCEPT ![slot] = NoEntry]
        BY <2>1, <3>3
      <4> HIDE DEF slot
      <4> QED
        BY <3>1, <4>1, <4>2
    <3> QED
      BY <3>2, <3>3
  <2> QED
    BY <1>4, <2>2, <2>3, <2>4 DEF share_result
<1> QED
  BY <1>1, <1>2, <1>3, <1>4, <1>5, <1>6, <1>7 DEF Stratum

(* Every variable has its type in every reachable state. *)
THEOREM TypeCorrect == Spec => []TypeOK
<1>1. share_stats_init => TypeOK
  BY BookAssumption, FS_EmptySet DEF share_stats_init, TypeOK, Share, Entry, NoShare,
     NoEntry, Result
<1>2. TypeOK /\ [Next]_vars => TypeOK'
  <2>1. TypeOK /\ UNCHANGED vars => TypeOK'
    BY DEF TypeOK, vars
  <2> QED
    BY <2>1, SubmitTypes, WorkioTypes, StratumTypes DEF Next
<1> QED
  BY <1>1, <1>2, PTL DEF Spec

----------------------------------------------------------------------------
(* Ids.                                                                     *)

(* An id that stands for a share is in use, and is not claimed. *)
LEMMA HeldIsInUse ==
    ASSUME NEW id, NEW serial, Holds(id, serial)
    PROVE  id \in InUse
<1>1. CASE \E w \in Worker : wpc[w] # "idle" /\ mine[w].id = id
  BY <1>1 DEF InUse
<1>2. CASE \E i \in 1 .. Len(queue) : queue[i].id = id
  BY <1>2 DEF InUse
<1>3. CASE iopc \in {"check", "send"} /\ cur.id = id
  BY <1>3 DEF InUse
<1>4. CASE \E r \in pool : r.id = id
  BY <1>4 DEF InUse
<1>5. CASE \E i \in 0 .. Size - 1 : share_stats[i].id = id
  BY <1>5 DEF InUse
<1> QED
  BY <1>1, <1>2, <1>3, <1>4, <1>5 DEF Holds

(* A push and a record move a share the thread already holds. *)
LEMMA SubmitHolds ==
    ASSUME TypeOK, NEW w \in Worker, submit_work(w) \/ update_submit_stats(w),
           NEW id \in Nat, NEW serial \in Nat, Holds(id, serial)'
    PROVE  Holds(id, serial)
<1>1. CASE submit_work(w)
  <2>1. /\ UNCHANGED <<mine, iopc, cur, pool, share_stats>>
        /\ \A v \in Worker : wpc'[v] # "idle" => wpc[v] # "idle"
        /\ wpc[w] # "idle"
        /\ queue' \in {queue, Append(queue, mine[w])}
    BY <1>1 DEF submit_work, ringVars, TypeOK
  <2>2. queue \in Seq(Share) /\ mine[w] \in Share
    BY DEF TypeOK
  <2>3. ASSUME NEW i \in 1 .. Len(queue')
        PROVE  (i \in 1 .. Len(queue) /\ queue'[i] = queue[i]) \/ queue'[i] = mine[w]
    BY <2>1, <2>2
  <2> QED
    BY <2>1, <2>3 DEF Holds
<1>2. CASE update_submit_stats(w)
  <2>1. /\ UNCHANGED <<mine, queue, iopc, cur, pool>>
        /\ \A v \in Worker : wpc'[v] # "idle" => wpc[v] # "idle"
        /\ wpc[w] # "idle"
    BY <1>2 DEF update_submit_stats, workioVars, TypeOK
  <2>2. ASSUME NEW i \in 0 .. Size - 1
        PROVE  share_stats'[i] \in {share_stats[i], [serial |-> mine[w].serial, id |-> mine[w].id]}
    BY <1>2 DEF update_submit_stats, TypeOK
  <2> QED
    BY <2>1, <2>2 DEF Holds
<1> QED
  BY <1>1, <1>2

(* The workio thread passes shares on and drops them. *)
LEMMA WorkioHolds ==
    ASSUME TypeOK, Workio, NEW id \in Nat, NEW serial \in Nat, Holds(id, serial)'
    PROVE  Holds(id, serial)
<1>1. CASE PopShare
  <2>1. /\ UNCHANGED <<wpc, mine, pool, share_stats>>
        /\ cur' = Head(queue) /\ queue' = Tail(queue) /\ queue # <<>>
    BY <1>1 DEF PopShare, workerVars, ringVars
  <2>2. queue \in Seq(Share)
    BY DEF TypeOK
  <2>3. 1 \in 1 .. Len(queue) /\ cur' = queue[1]
    BY <2>1, <2>2
  <2>4. ASSUME NEW i \in 1 .. Len(queue')
        PROVE  i + 1 \in 1 .. Len(queue) /\ queue'[i] = queue[i + 1]
    BY <2>1, <2>2
  <2> QED
    BY <2>1, <2>3, <2>4 DEF Holds
<1>2. CASE CheckSession \/ Drop \/ SendFails \/ Freeze
  <2>1. UNCHANGED <<wpc, mine, queue, cur, pool, share_stats>>
        /\ (iopc' \in {"check", "send"} => iopc \in {"check", "send"})
    BY <1>2 DEF CheckSession, Drop, SendFails, Freeze, workerVars, ringVars
  <2> QED
    BY <2>1 DEF Holds
<1>3. CASE SendShare
  <2>1. UNCHANGED <<wpc, mine, queue, cur, share_stats>> /\ pool' = pool \cup {cur}
        /\ iopc = "send" /\ iopc' = "idle"
    BY <1>3 DEF SendShare, workerVars, ringVars
  <2> QED
    BY <2>1 DEF Holds
<1> QED
  BY <1>1, <1>2, <1>3 DEF Workio

(* The stratum thread forgets shares. *)
LEMMA StratumHolds ==
    ASSUME TypeOK, Stratum, NEW id \in Nat, NEW serial \in Nat, Holds(id, serial)'
    PROVE  Holds(id, serial)
<1>1. UNCHANGED <<wpc, mine, queue, iopc, cur>>
  BY DEF Stratum, Connect, Established, Disconnect, TopReset, share_result, CountResult,
     CountStale, workerVars, workioVars
<1>2. pool' \subseteq pool
  BY DEF Stratum, Connect, Established, Disconnect, TopReset, share_result, CountResult,
     CountStale
<1>3. ASSUME NEW i \in 0 .. Size - 1
      PROVE  share_stats'[i] = share_stats[i] \/ share_stats'[i] = NoEntry
  <2>1. CASE Connect \/ Established \/ Disconnect \/ CountResult \/ CountStale
    BY <2>1 DEF Connect, Established, Disconnect, CountResult, CountStale, ringVars
  <2>2. CASE TopReset
    BY <2>2 DEF TopReset, share_stats_reset
  <2>3. CASE share_result
    <3>1. \/ UNCHANGED share_stats
          \/ \E slot : share_stats' = [share_stats EXCEPT ![slot] = NoEntry]
      BY <2>3 DEF share_result
    <3> QED
      BY <3>1 DEF TypeOK
  <2> QED
    BY <2>1, <2>2, <2>3 DEF Stratum
<1>4. NoEntry.serial = 0
  BY DEF NoEntry
<1> QED
  BY <1>1, <1>2, <1>3, <1>4 DEF Holds

(* A claim brings one id in, for one new share. *)
LEMMA ClaimHolds ==
    ASSUME TypeOK, NEW w \in Worker, claim_submit_id(w),
           NEW id \in Nat, NEW serial \in Nat, Holds(id, serial)'
    PROVE  Holds(id, serial) \/ (id = next_submit_id /\ serial = found + 1)
<1>1. UNCHANGED <<queue, iopc, cur, pool, share_stats>>
  BY DEF claim_submit_id, ringVars, workioVars
<1>2. ASSUME NEW v \in Worker, v # w
      PROVE  wpc'[v] = wpc[v] /\ mine'[v] = mine[v]
  BY <1>2 DEF claim_submit_id, TypeOK
<1>3. mine'[w].id = next_submit_id /\ mine'[w].serial = found + 1
  BY DEF claim_submit_id, TypeOK
<1> QED
  BY <1>1, <1>2, <1>3 DEF Holds

(* The agreement of ids and shares is kept by every step. *)
LEMMA IdInvStep ==
    ASSUME IdInv, [Next]_vars
    PROVE  IdInv'
<1>1. TypeOK /\ TypeOK'
  <2>1. TypeOK /\ UNCHANGED vars => TypeOK'
    BY DEF TypeOK, vars
  <2> QED
    BY <2>1, SubmitTypes, WorkioTypes, StratumTypes DEF IdInv, Next
<1>2. CASE \E w \in Worker : claim_submit_id(w)
  <2>1. PICK w \in Worker : claim_submit_id(w)
    BY <1>2
  <2>2. \A id, serial \in Nat :
            Holds(id, serial)' => Holds(id, serial) \/ (id = next_submit_id /\ serial = found + 1)
    BY <1>1, <2>1, ClaimHolds
  <2>3. \A id, serial \in Nat : Holds(id, serial) => id # next_submit_id
    BY <2>1, HeldIsInUse DEF claim_submit_id
  <2>4. found' = found + 1 /\ log' = log /\ found \in Nat /\ log \in Seq(Nat)
    BY <1>1, <2>1 DEF claim_submit_id, ringVars, TypeOK
  <2>5. \A id, serial \in Nat : Holds(id, serial) => serial \in 1 .. found
    BY DEF IdInv, SerialsHandedOut
  <2>6. OneShareAnId'
    <3> SUFFICES ASSUME NEW id1 \in Nat, NEW id2 \in Nat, NEW serial1 \in Nat,
                        NEW serial2 \in Nat, Holds(id1, serial1)', Holds(id2, serial2)'
                 PROVE  id1 = id2 <=> serial1 = serial2
      BY DEF OneShareAnId
    <3>1. CASE Holds(id1, serial1) /\ Holds(id2, serial2)
      BY <3>1 DEF IdInv, OneShareAnId
    <3>2. CASE ~ Holds(id1, serial1) \/ ~ Holds(id2, serial2)
      <4>1. Holds(id1, serial1) \/ (id1 = next_submit_id /\ serial1 = found + 1)
        BY <2>2
      <4>2. Holds(id2, serial2) \/ (id2 = next_submit_id /\ serial2 = found + 1)
        BY <2>2
      <4>3. Holds(id1, serial1) => id1 # next_submit_id /\ serial1 # found + 1
        BY <2>3, <2>4, <2>5
      <4>4. Holds(id2, serial2) => id2 # next_submit_id /\ serial2 # found + 1
        BY <2>3, <2>4, <2>5
      <4> QED
        BY <3>2, <4>1, <4>2, <4>3, <4>4
    <3> QED
      BY <3>1, <3>2
  <2>7. SerialsHandedOut'
    <3>1. \A i \in 1 .. Len(log) : log[i] <= found
      BY DEF IdInv, SerialsHandedOut
    <3>2. \A i \in 1 .. Len(log') : log'[i] <= found'
      BY <2>4, <3>1
    <3>3. ASSUME NEW id \in Nat, NEW serial \in Nat, Holds(id, serial)'
          PROVE  serial \in 1 .. found'
      <4>1. Holds(id, serial) \/ serial = found + 1
        BY <2>2, <3>3
      <4> QED
        BY <4>1, <2>4, <2>5
    <3> QED
      BY <3>2, <3>3 DEF SerialsHandedOut
  <2> QED
    BY <1>1, <2>6, <2>7 DEF IdInv
<1>3. CASE ~ \E w \in Worker : claim_submit_id(w)
  <2>1. \A id, serial \in Nat : Holds(id, serial)' => Holds(id, serial)
    <3> SUFFICES ASSUME NEW id \in Nat, NEW serial \in Nat, Holds(id, serial)'
                 PROVE  Holds(id, serial)
      OBVIOUS
    <3>1. CASE UNCHANGED vars
      BY <3>1 DEF vars, Holds
    <3> QED
      BY <1>1, <1>3, <3>1, SubmitHolds, WorkioHolds, StratumHolds DEF Next, Submit
  <2>2. found' = found
    <3>1. ASSUME NEW w \in Worker, submit_work(w) \/ update_submit_stats(w)
          PROVE  found' = found
      BY <3>1 DEF submit_work, update_submit_stats
    <3>2. Workio => found' = found
      BY DEF Workio, PopShare, CheckSession, Drop, SendShare, SendFails, Freeze, workerVars
    <3>3. Stratum => found' = found
      BY DEF Stratum, Connect, Established, Disconnect, TopReset, share_result,
         CountResult, CountStale, workerVars
    <3> QED
      BY <1>3, <3>1, <3>2, <3>3 DEF Next, Submit, vars
  <2>3. \A i \in 1 .. Len(log') : log'[i] <= found
    <3>1. log \in Seq(Nat) /\ found \in Nat /\ \A i \in 1 .. Len(log) : log[i] <= found
      BY <1>1 DEF TypeOK, IdInv, SerialsHandedOut
    <3>2. ASSUME NEW w \in Worker, update_submit_stats(w)
          PROVE  \A i \in 1 .. Len(log') : log'[i] <= found
      <4>1. log' = Append(log, mine[w].serial) /\ mine[w] \in Share
        BY <1>1, <3>2 DEF update_submit_stats, TypeOK
      <4>2. mine[w].serial <= found
        <5>1. Holds(mine[w].id, mine[w].serial)
          BY <3>2 DEF update_submit_stats, Holds
        <5>2. mine[w].id \in Nat /\ mine[w].serial \in Nat
          BY <4>1 DEF Share
        <5> QED
          BY <3>1, <5>1, <5>2 DEF IdInv, SerialsHandedOut
      <4>3. mine[w].serial \in Nat
        BY <4>1 DEF Share
      <4> QED
        BY <3>1, <4>1, <4>2, <4>3
    <3>3. ASSUME NEW w \in Worker, submit_work(w)
          PROVE  log' = log
      BY <3>3 DEF submit_work, ringVars
    <3>4. Workio => log' = log
      BY DEF Workio, PopShare, CheckSession, Drop, SendShare, SendFails, Freeze, ringVars
    <3>5. Stratum => log' = log \/ log' = <<>>
      BY DEF Stratum, Connect, Established, Disconnect, TopReset, share_stats_reset,
         share_result, CountResult, CountStale, ringVars
    <3>6. log' = log \/ log' = <<>> \/ \E w \in Worker : update_submit_stats(w)
      BY <1>3, <3>3, <3>4, <3>5 DEF Next, Submit, vars
    <3> QED
      BY <3>1, <3>2, <3>6
  <2> QED
    BY <1>1, <2>1, <2>2, <2>3 DEF IdInv, OneShareAnId, SerialsHandedOut
<1> QED
  BY <1>2, <1>3

(* IdInv holds in every reachable state. *)
LEMMA IdInvHolds == Spec => []IdInv
<1>1. share_stats_init => IdInv
  <2> SUFFICES ASSUME share_stats_init
               PROVE  IdInv
    OBVIOUS
  <2>1. TypeOK
    BY BookAssumption, FS_EmptySet DEF share_stats_init, TypeOK, Share, Entry, NoShare,
       NoEntry, Result
  <2>2. \A id, serial : ~ Holds(id, serial)
    BY DEF share_stats_init, Holds, NoEntry
  <2>3. Len(log) = 0
    BY DEF share_stats_init
  <2> QED
    BY <2>1, <2>2, <2>3 DEF IdInv, OneShareAnId, SerialsHandedOut
<1> QED
  BY <1>1, IdInvStep, PTL DEF Spec

(* What share_result does: it takes the answered share off the pool's list  *)
(* and frees the first slot that waits for its id, if there is one.         *)
LEMMA ShareResultStep ==
    ASSUME TypeOK, share_result
    PROVE  \E r \in pool :
              /\ pool' = pool \ {r}
              /\ reply'.serial = r.serial /\ reply'.id = r.id
              /\ \/ Pending(r.id) = {} /\ entry' = NoEntry /\ UNCHANGED share_stats
                 \/ \E slot \in Pending(r.id) :
                       /\ slot \in 0 .. Size - 1
                       /\ entry' = share_stats[slot]
                       /\ share_stats' = [share_stats EXCEPT ![slot] = NoEntry]
<1>1. PICK r \in pool, result \in Result :
        /\ pool' = pool \ {r}
        /\ reply' = [serial |-> r.serial, id |-> r.id, result |-> result]
        /\ IF Pending(r.id) = {}
           THEN entry' = NoEntry /\ UNCHANGED share_stats
           ELSE LET slot == CHOOSE i \in Pending(r.id) :
                                \A k \in Pending(r.id) : i <= k
                IN  /\ entry' = share_stats[slot]
                    /\ share_stats' = [share_stats EXCEPT ![slot] = NoEntry]
  BY DEF share_result
<1>2. reply'.serial = r.serial /\ reply'.id = r.id
  BY <1>1
<1>3. CASE Pending(r.id) = {}
  BY <1>1, <1>2, <1>3
<1>4. CASE Pending(r.id) # {}
  <2> DEFINE slot == CHOOSE i \in Pending(r.id) : \A k \in Pending(r.id) : i <= k
  <2>1. slot \in Pending(r.id) /\ slot \in 0 .. Size - 1
    BY <1>4, FirstPending
  <2>2. entry' = share_stats[slot] /\ share_stats' = [share_stats EXCEPT ![slot] = NoEntry]
    BY <1>1, <1>4
  <2> HIDE DEF slot
  <2> QED
    BY <1>1, <1>2, <2>1, <2>2
<1> QED
  BY <1>3, <1>4

(* A result line carries the difficulty, job and time of the share that was *)
(* answered: share_result finds the entry by the id, and an id stands for   *)
(* one share from submit_solution's claim until the last place that knows   *)
(* it has forgotten it.                                                     *)
THEOREM RightShareHolds == Spec => []RightShare
<1>1. share_stats_init => RightShare
  BY DEF share_stats_init, RightShare
<1>2. ASSUME IdInv, RightShare, [Next]_vars
      PROVE  RightShare'
  <2>1. CASE share_result
    <3>0. TypeOK
      BY <1>2 DEF IdInv
    <3>1. PICK r \in pool :
              /\ pool' = pool \ {r}
              /\ reply'.serial = r.serial /\ reply'.id = r.id
              /\ \/ Pending(r.id) = {} /\ entry' = NoEntry /\ UNCHANGED share_stats
                 \/ \E slot \in Pending(r.id) :
                       /\ slot \in 0 .. Size - 1
                       /\ entry' = share_stats[slot]
                       /\ share_stats' = [share_stats EXCEPT ![slot] = NoEntry]
      BY <2>1, <3>0, ShareResultStep
    <3>2. CASE entry' = NoEntry
      BY <3>2 DEF RightShare, NoEntry
    <3>3. CASE \E slot \in Pending(r.id) :
                   slot \in 0 .. Size - 1 /\ entry' = share_stats[slot]
      <4>1. PICK slot \in Pending(r.id) :
                     slot \in 0 .. Size - 1 /\ entry' = share_stats[slot]
        BY <3>3
      <4>2. r.id \in Nat /\ r.serial \in Nat /\ share_stats[slot].serial \in Nat
        BY <3>0, <4>1 DEF TypeOK, Share, Entry
      <4>3. Holds(r.id, r.serial) /\ Holds(r.id, share_stats[slot].serial)
        BY <4>1 DEF Pending, Holds
      <4>4. share_stats[slot].serial = r.serial
        BY <1>2, <4>2, <4>3 DEF IdInv, OneShareAnId
      <4> QED
        BY <3>1, <4>1, <4>4 DEF RightShare
    <3> QED
      BY <3>1, <3>2, <3>3
  <2>2. CASE ~ share_result
    <3>1. spc' = "result" => spc = "result" /\ UNCHANGED <<entry, reply>>
      <4>1. ASSUME NEW w \in Worker, Submit(w)
            PROVE  UNCHANGED <<spc, entry, reply>>
        BY <4>1 DEF Submit, claim_submit_id, submit_work, update_submit_stats, replyVars
      <4>2. Workio => UNCHANGED <<spc, entry, reply>>
        BY DEF Workio, PopShare, CheckSession, Drop, SendShare, SendFails, Freeze, replyVars
      <4>3. Stratum /\ spc' = "result" => UNCHANGED <<spc, entry, reply>>
        BY <2>2 DEF Stratum, Connect, Established, Disconnect, TopReset, CountResult,
           CountStale, replyVars
      <4>4. UNCHANGED vars => UNCHANGED <<spc, entry, reply>>
        BY DEF vars
      <4> QED
        BY <1>2, <4>1, <4>2, <4>3, <4>4 DEF Next
    <3> QED
      BY <1>2, <3>1 DEF RightShare
  <2> QED
    BY <2>1, <2>2
<1> QED
  BY <1>1, <1>2, IdInvHolds, PTL DEF Spec

----------------------------------------------------------------------------
(* Counters.                                                                *)

(* The accounts stay balanced: a share is counted when it leaves the last   *)
(* place it was in, and no store of the stale counter can put it above the  *)
(* number of shares dropped or answered stale.                              *)
LEMMA AccountsStep ==
    ASSUME TypeOK, AccountsInv, [Next]_vars
    PROVE  AccountsInv'
<1>1. /\ IsFiniteSet(Pushed) /\ Cardinality(Pushed) \in Nat
      /\ Cardinality(pool) \in Nat /\ Len(queue) \in Nat
  BY BookAssumption, FS_Subset, FS_CardinalityType DEF TypeOK, Pushed
<1>2. /\ accepted \in Nat /\ rejected \in Nat /\ stale \in Nat /\ submitted \in Nat
      /\ ioread \in Nat /\ sread \in Nat
  BY DEF TypeOK
<1>8. Transit \in Nat
  BY <1>1 DEF Transit
<1> USE DEF AccountsInv, Balanced
<1>3. ASSUME UNCHANGED <<wpc, submitted>>
      PROVE  Pushed' = Pushed
  BY <1>3 DEF Pushed
<1>4. ASSUME NEW w \in Worker, Submit(w)
      PROVE  AccountsInv'
  <2>1. UNCHANGED <<accepted, rejected, stale, ioread, sread, iopc, spc, pool>>
    BY <1>4 DEF Submit, claim_submit_id, submit_work, update_submit_stats, countVars,
       workioVars, replyVars
  <2>2. CASE claim_submit_id(w)
    <3>1. Pushed' = Pushed
      BY <2>2 DEF claim_submit_id, Pushed, TypeOK
    <3>2. UNCHANGED <<submitted, queue>>
      BY <2>2 DEF claim_submit_id, workioVars
    <3> QED
      BY <1>1, <1>2, <2>1, <3>1, <3>2 DEF Transit
  <2>3. CASE submit_work(w)
    <3>1. submitted' = submitted /\ w \notin Pushed
      BY <2>3 DEF submit_work, Pushed
    <3>2. CASE frozen
      <4>1. queue' = queue /\ Pushed' = Pushed
        BY <2>3, <3>2 DEF submit_work, Pushed, TypeOK
      <4> QED
        BY <1>1, <1>2, <2>1, <3>1, <4>1 DEF Transit
    <3>3. CASE ~ frozen
      <4>1. Pushed' = Pushed \cup {w}
        BY <2>3, <3>3 DEF submit_work, Pushed, TypeOK
      <4>2. Cardinality(Pushed') = Cardinality(Pushed) + 1
        BY <1>1, <3>1, <4>1, FS_AddElement
      <4>3. Len(queue') = Len(queue) + 1
        BY <2>3, <3>3 DEF submit_work, TypeOK
      <4>4. Transit' = Transit + 1
        BY <1>1, <2>1, <4>3 DEF Transit
      <4> QED
        BY <1>1, <1>2, <1>8, <2>1, <3>1, <4>2, <4>4
    <3> QED
      BY <3>2, <3>3
  <2>4. CASE update_submit_stats(w)
    <3>1. submitted' = submitted + 1 /\ queue' = queue
      BY <2>4 DEF update_submit_stats, workioVars
    <3>2. w \in Pushed /\ Pushed' = Pushed \ {w}
      BY <2>4 DEF update_submit_stats, Pushed, TypeOK
    <3>3. Cardinality(Pushed') = Cardinality(Pushed) - 1
      BY <1>1, <3>2, FS_RemoveElement
    <3> QED
      BY <1>1, <1>2, <2>1, <3>1, <3>3 DEF Transit
  <2> QED
    BY <1>4, <2>2, <2>3, <2>4 DEF Submit
<1>5. ASSUME Workio
      PROVE  AccountsInv'
  <2>1. UNCHANGED <<accepted, rejected, submitted, sread, spc>> /\ Pushed' = Pushed
    BY <1>3, <1>5 DEF Workio, PopShare, CheckSession, Drop, SendShare, SendFails, Freeze,
       countVars, workerVars, replyVars
  <2>2. CASE PopShare
    <3>1. UNCHANGED <<stale, ioread, pool>> /\ iopc = "idle" /\ iopc' = "check"
      BY <2>2 DEF PopShare, countVars
    <3>2. Len(queue') = Len(queue) - 1
      BY <2>2 DEF PopShare, TypeOK
    <3> QED
      BY <1>1, <1>2, <2>1, <3>1, <3>2 DEF Transit
  <2>3. CASE CheckSession
    <3>1. UNCHANGED <<stale, queue, pool>> /\ iopc = "check"
      BY <2>3 DEF CheckSession, countVars
    <3>2. (iopc' = "drop" /\ ioread' = stale) \/ iopc' = "send"
      BY <2>3 DEF CheckSession
    <3> QED
      BY <1>1, <1>2, <2>1, <3>1, <3>2 DEF Transit
  <2>4. CASE Drop
    BY <1>1, <1>2, <2>1, <2>4 DEF Drop, Transit
  <2>5. CASE SendShare
    <3>1. Cardinality(pool') <= Cardinality(pool) + 1 /\ Cardinality(pool') \in Nat
      <4>1. pool' = pool \cup {cur} /\ IsFiniteSet(pool)
        BY <2>5 DEF SendShare, TypeOK
      <4>2. CASE cur \in pool
        <5>1. pool' = pool
          BY <4>1, <4>2
        <5> QED
          BY <1>1, <5>1
      <4>3. CASE cur \notin pool
        <5>1. Cardinality(pool') = Cardinality(pool) + 1
          BY <4>1, <4>3, FS_AddElement
        <5> QED
          BY <1>1, <5>1
      <4> QED
        BY <4>2, <4>3
    <3>2. UNCHANGED <<stale, ioread, queue>> /\ iopc = "send" /\ iopc' = "idle"
      BY <2>5 DEF SendShare, countVars
    <3>3. Transit' <= Transit /\ Transit' \in Nat
      BY <1>1, <2>1, <3>1, <3>2 DEF Transit
    <3> QED
      BY <1>1, <1>2, <1>8, <2>1, <3>2, <3>3
  <2>6. CASE SendFails \/ Freeze
    <3>1. /\ UNCHANGED <<stale, ioread, queue, pool>>
          /\ iopc \in {"send", "ending"} /\ iopc' \in {"check", "ending", "over"}
          /\ iopc' = "check" => iopc = "send"
      BY <2>6 DEF SendFails, Freeze, countVars
    <3> QED
      BY <1>1, <1>2, <2>1, <3>1 DEF Transit
  <2> QED
    BY <1>5, <2>2, <2>3, <2>4, <2>5, <2>6 DEF Workio
<1>6. ASSUME Stratum
      PROVE  AccountsInv'
  <2>1. UNCHANGED <<submitted, queue, iopc, ioread>> /\ Pushed' = Pushed
    BY <1>3, <1>6 DEF Stratum, Connect, Established, Disconnect, TopReset, share_result,
       CountResult, CountStale, workerVars, workioVars
  <2>2. CASE Connect \/ Established
    <3>1. UNCHANGED <<accepted, rejected, stale, sread, spc, pool>>
      BY <2>2 DEF Connect, Established, countVars, replyVars
    <3> QED
      BY <1>1, <1>2, <2>1, <3>1 DEF Transit
  <2>3. CASE Disconnect \/ TopReset
    <3>1. UNCHANGED <<accepted, rejected, stale, sread, spc>> /\ pool' = {}
      BY <2>3 DEF Disconnect, TopReset, countVars, replyVars
    <3>2. Cardinality(pool') = 0
      BY <3>1, FS_EmptySet
    <3>3. Transit' <= Transit /\ Transit' \in Nat
      BY <1>1, <2>1, <3>1, <3>2 DEF Transit
    <3> QED
      BY <1>1, <1>2, <1>8, <2>1, <3>1, <3>3
  <2>4. CASE share_result
    <3>1. /\ UNCHANGED <<accepted, rejected, stale, sread>>
          /\ spc = "read" /\ spc' = "result"
      BY <2>4 DEF share_result, countVars
    <3>2. PICK r \in pool : pool' = pool \ {r}
      BY <2>4 DEF share_result
    <3>3. Cardinality(pool') = Cardinality(pool) - 1
      BY <3>2, FS_RemoveElement DEF TypeOK
    <3> QED
      BY <1>1, <1>2, <2>1, <3>1, <3>3 DEF Transit
  <2>5. CASE CountResult
    <3>1. pool' = pool /\ stale' = stale /\ spc = "result"
      BY <2>5 DEF CountResult
    <3>2. CASE reply.result = "stale"
      <4>1. spc' = "store" /\ sread' = stale /\ UNCHANGED <<accepted, rejected>>
        BY <2>5, <3>2 DEF CountResult
      <4> QED
        BY <1>1, <1>2, <2>1, <3>1, <4>1 DEF Transit
    <3>3. CASE reply.result # "stale"
      <4>1. /\ spc' = "read" /\ accepted' \in Nat /\ rejected' \in Nat
            /\ accepted' + rejected' <= accepted + rejected + 1
        BY <1>2, <2>5, <3>3 DEF CountResult
      <4>2. Transit' = Transit - 1
        BY <1>1, <2>1, <3>1, <4>1 DEF Transit
      <4>3. ASSUME NEW k \in Nat, Balanced(k)
            PROVE  accepted' + rejected' + k + Transit' <= submitted + Cardinality(Pushed)
        <5>1. accepted + rejected + k + Transit <= submitted + Cardinality(Pushed)
          BY <4>3
        <5>2. \A a, b, c, d, t, m \in Nat :
                  a + b + k + t <= m /\ c + d <= a + b + 1 => c + d + k + (t - 1) <= m
          OBVIOUS
        <5>3. submitted + Cardinality(Pushed) \in Nat
          BY <1>1, <1>2
        <5> QED
          BY <1>2, <1>8, <4>1, <4>2, <5>1, <5>2, <5>3
      <4>4. Balanced(stale) /\ (iopc = "drop" => Balanced(ioread))
        OBVIOUS
      <4> QED
        BY <1>2, <2>1, <3>1, <4>1, <4>3, <4>4
    <3> QED
      BY <3>2, <3>3
  <2>6. CASE CountStale
    BY <1>1, <1>2, <2>1, <2>6 DEF CountStale, Transit
  <2> QED
    BY <1>6, <2>2, <2>3, <2>4, <2>5, <2>6 DEF Stratum
<1>7. CASE UNCHANGED vars
  BY <1>7 DEF vars, Pushed, Transit
<1> QED
  BY <1>4, <1>5, <1>6, <1>7 DEF Next

(* The counters say no more than happened: accepted, rejected and stale     *)
(* together never exceed the shares handed to the workio thread, though the *)
(* stale counter is loaded and stored by two threads without a lock.        *)
THEOREM CountersCoveredHolds == Spec => []CountersCovered
<1>1. share_stats_init => AccountsInv
  <2> SUFFICES ASSUME share_stats_init
               PROVE  AccountsInv
    OBVIOUS
  <2>1. Pushed = {} /\ pool = {} /\ Cardinality({}) = 0
    BY FS_EmptySet DEF share_stats_init, Pushed
  <2> QED
    BY <2>1 DEF share_stats_init, AccountsInv, Balanced, Transit
<1>2. TypeOK /\ AccountsInv => CountersCovered
  <2> SUFFICES ASSUME TypeOK, AccountsInv
               PROVE  CountersCovered
    OBVIOUS
  <2>1. /\ IsFiniteSet(Pushed) /\ Cardinality(Pushed) \in Nat
        /\ Cardinality(pool) \in Nat /\ Len(queue) \in Nat
    BY BookAssumption, FS_Subset, FS_CardinalityType DEF TypeOK, Pushed
  <2> QED
    BY <2>1 DEF TypeOK, AccountsInv, Balanced, Transit, CountersCovered, Pushed
<1> QED
  BY <1>1, <1>2, TypeCorrect, AccountsStep, PTL DEF Spec

----------------------------------------------------------------------------
(* Arithmetic of the put pointer.                                           *)

(* Division with remainder is unique. *)
LEMMA Remainder ==
    ASSUME NEW S \in Nat \ {0}, NEW m \in Nat, NEW q \in Int, NEW r \in 0 .. S - 1,
           m = S * q + r
    PROVE  m % S = r
<1> DEFINE d == m \div S
<1>1. m = S * d + (m % S) /\ d \in Int /\ m % S \in 0 .. S - 1
  OBVIOUS
<1> HIDE DEF d
<1>2. S * (d - q) = r - (m % S)
  BY <1>1
<1>3. CASE d - q <= 0 - 1
  <2>1. S * (d - q) <= 0 - S
    BY <1>1, <1>3
  <2> QED
    BY <1>1, <1>2, <2>1
<1>4. CASE d - q >= 1
  <2>1. S * (d - q) >= S
    BY <1>1, <1>4
  <2> QED
    BY <1>1, <1>2, <2>1
<1>5. CASE d = q
  BY <1>1, <1>5
<1> QED
  BY <1>1, <1>3, <1>4, <1>5

(* Advancing the pointer counts the entries put so far. *)
LEMMA NextSlot ==
    ASSUME NEW S \in Nat \ {0}, NEW n \in Nat
    PROVE  ((n % S) + 1) % S = (n + 1) % S
<1> DEFINE d == n \div S
<1>1. n = S * d + (n % S) /\ d \in Int /\ n % S \in 0 .. S - 1
  OBVIOUS
<1> HIDE DEF d
<1>2. CASE n % S = S - 1
  <2>1. n + 1 = S * (d + 1) + 0 /\ (n % S) + 1 = S * 1 + 0
    BY <1>1, <1>2
  <2>2. (n + 1) % S = 0
    <3>1. n + 1 \in Nat /\ d + 1 \in Int /\ 0 \in 0 .. S - 1
      BY <1>1
    <3> QED
      BY <2>1, <3>1, Remainder, Zenon
  <2>3. ((n % S) + 1) % S = 0
    BY <1>1, <2>1, Remainder
  <2> QED
    BY <2>2, <2>3
<1>3. CASE n % S < S - 1
  <2>1. (n % S) + 1 \in 0 .. S - 1
    BY <1>1, <1>3
  <2>2. n + 1 = S * d + ((n % S) + 1) /\ (n % S) + 1 = S * 0 + ((n % S) + 1)
    BY <1>1, <1>3
  <2>3. (n + 1) % S = (n % S) + 1
    <3>1. n + 1 \in Nat /\ d \in Int
      BY <1>1
    <3> QED
      BY <2>1, <2>2, <3>1, Remainder, Zenon
  <2>4. ((n % S) + 1) % S = (n % S) + 1
    BY <1>1, <2>1, <2>2, Remainder
  <2> QED
    BY <2>3, <2>4
<1> QED
  BY <1>1, <1>2, <1>3

(* Entries less than a ring apart are in different slots. *)
LEMMA SlotsApart ==
    ASSUME NEW S \in Nat \ {0}, NEW n \in Nat, NEW j \in Nat, j < n, n - j < S
    PROVE  n % S # j % S
<1> DEFINE a == n \div S
           b == j \div S
<1>1. /\ n = S * a + (n % S) /\ a \in Int /\ n % S \in 0 .. S - 1
      /\ j = S * b + (j % S) /\ b \in Int /\ j % S \in 0 .. S - 1
  OBVIOUS
<1> HIDE DEF a, b
<1> SUFFICES ASSUME n % S = j % S
             PROVE  FALSE
  OBVIOUS
<1>2. n - j = S * (a - b)
  BY <1>1
<1>3. CASE a - b <= 0
  <2>1. S * (a - b) <= 0
    BY <1>1, <1>3
  <2> QED
    BY <1>2, <2>1
<1>4. CASE a - b >= 1
  <2>1. S * (a - b) >= S
    BY <1>1, <1>4
  <2> QED
    BY <1>2, <2>1
<1> QED
  BY <1>1, <1>3, <1>4

----------------------------------------------------------------------------
(* Every share is in one place, and the ring follows the log.               *)

(* The shares on their way have serial numbers already handed out. *)
LEMMA FlyingHandedOut ==
    ASSUME IdInv
    PROVE  /\ \A w \in Claimed : mine[w].serial <= found
           /\ \A i \in 1 .. Len(queue) : queue[i].serial <= found
           /\ Sending => cur.serial <= found
           /\ \A r \in pool : r.serial <= found
<1>1. \A id, serial \in Nat : Holds(id, serial) => serial <= found
  BY DEF IdInv, SerialsHandedOut, TypeOK
<1>2. ASSUME NEW w \in Claimed
      PROVE  mine[w].serial <= found
  <2>1. Holds(mine[w].id, mine[w].serial)
    BY DEF Claimed, Holds
  <2>2. mine[w].id \in Nat /\ mine[w].serial \in Nat
    BY DEF IdInv, TypeOK, Claimed, Share
  <2> QED
    BY <1>1, <2>1, <2>2
<1>3. ASSUME NEW i \in 1 .. Len(queue)
      PROVE  queue[i].serial <= found
  <2>1. Holds(queue[i].id, queue[i].serial)
    BY DEF Holds
  <2>2. queue[i].id \in Nat /\ queue[i].serial \in Nat
    <3>1. queue[i] \in Share
      BY DEF IdInv, TypeOK
    <3> QED
      BY <3>1 DEF Share
  <2> QED
    BY <1>1, <2>1, <2>2
<1>4. ASSUME Sending
      PROVE  cur.serial <= found
  <2>1. Holds(cur.id, cur.serial)
    BY <1>4 DEF Holds, Sending
  <2>2. cur.id \in Nat /\ cur.serial \in Nat
    BY DEF IdInv, TypeOK, Share
  <2> QED
    BY <1>1, <2>1, <2>2
<1>5. ASSUME NEW r \in pool
      PROVE  r.serial <= found
  <2>1. Holds(r.id, r.serial)
    BY DEF Holds
  <2>2. r.id \in Nat /\ r.serial \in Nat
    BY DEF IdInv, TypeOK, Share
  <2> QED
    BY <1>1, <2>1, <2>2
<1> QED
  BY <1>2, <1>3, <1>4, <1>5

(* A claim, a push, a record: the share stays in one place. *)
LEMMA SubmitOnce ==
    ASSUME IdInv, NoShareTwice, NEW w \in Worker, Submit(w)
    PROVE  NoShareTwice'
<1>0. TypeOK
  BY DEF IdInv
<1>1. CASE claim_submit_id(w)
  <2>1. UNCHANGED <<queue, iopc, cur, pool>> /\ w \notin Claimed
    BY <1>1 DEF claim_submit_id, workioVars, Claimed
  <2>2. Claimed' = Claimed \cup {w}
    BY <1>0, <1>1 DEF claim_submit_id, Claimed, TypeOK
  <2>3. mine'[w].serial = found + 1 /\ found \in Nat
    BY <1>0, <1>1 DEF claim_submit_id, TypeOK
  <2>4. \A v \in Claimed : mine'[v] = mine[v]
    BY <1>0, <1>1, <2>1 DEF claim_submit_id, TypeOK, Claimed
  <2>5. /\ \A v \in Claimed : mine[v].serial # mine'[w].serial
        /\ \A i \in 1 .. Len(queue) : queue[i].serial # mine'[w].serial
        /\ Sending => cur.serial # mine'[w].serial
        /\ \A r \in pool : r.serial # mine'[w].serial
    BY <2>3, FlyingHandedOut
  <2> QED
    BY <2>1, <2>2, <2>4, <2>5 DEF NoShareTwice, Sending
<1>2. CASE submit_work(w)
  <2>1. UNCHANGED <<mine, iopc, cur, pool>> /\ w \in Claimed /\ Claimed' = Claimed \ {w}
    BY <1>0, <1>2 DEF submit_work, Claimed, TypeOK
  <2>2. queue' = queue \/ queue' = Append(queue, mine[w])
    BY <1>2 DEF submit_work
  <2>3. queue \in Seq(Share) /\ mine[w] \in Share
    BY <1>0 DEF TypeOK
  <2>4. CASE queue' = queue
    BY <2>1, <2>4 DEF NoShareTwice, Sending
  <2>5. CASE queue' = Append(queue, mine[w])
    <3>1. /\ Len(queue') = Len(queue) + 1 /\ Len(queue) \in Nat
          /\ queue'[Len(queue) + 1] = mine[w]
          /\ \A i \in 1 .. Len(queue) : queue'[i] = queue[i]
      BY <2>3, <2>5
    <3>2. \A i \in 1 .. Len(queue') : i \in 1 .. Len(queue) \/ i = Len(queue) + 1
      BY <3>1
    <3> QED
      BY <2>1, <3>1, <3>2 DEF NoShareTwice, Sending
  <2> QED
    BY <2>2, <2>4, <2>5
<1>3. CASE update_submit_stats(w)
  <2>1. UNCHANGED <<mine, queue, iopc, cur, pool>> /\ Claimed' = Claimed
    BY <1>0, <1>3 DEF update_submit_stats, workioVars, Claimed, TypeOK
  <2> QED
    BY <2>1 DEF NoShareTwice, Sending
<1> QED
  BY <1>1, <1>2, <1>3 DEF Submit

(* So it does in the workio thread's hands. *)
LEMMA WorkioOnce ==
    ASSUME TypeOK, NoShareTwice, Workio
    PROVE  NoShareTwice'
<1>1. UNCHANGED mine /\ Claimed' = Claimed
  BY DEF Workio, PopShare, CheckSession, Drop, SendShare, SendFails, Freeze, workerVars,
     Claimed
<1>2. CASE PopShare
  <2>1. /\ cur' = queue[1] /\ 1 \in 1 .. Len(queue) /\ pool' = pool
        /\ \A i \in 1 .. Len(queue') :
               i + 1 \in 1 .. Len(queue) /\ i + 1 # 1 /\ queue'[i] = queue[i + 1]
    BY <1>2 DEF PopShare, TypeOK
  <2>2. \A i, j \in 1 .. Len(queue') : i + 1 = j + 1 => i = j
    OBVIOUS
  <2>3. ASSUME NEW i \in 1 .. Len(queue')
        PROVE  /\ queue'[i].serial # cur'.serial
               /\ \A v \in Claimed' : mine'[v].serial # queue'[i].serial
               /\ \A r \in pool' : queue'[i].serial # r.serial
    <3>1. /\ i + 1 \in 1 .. Len(queue) /\ i + 1 # 1 /\ queue'[i] = queue[i + 1]
          /\ 1 \in 1 .. Len(queue) /\ cur' = queue[1] /\ pool' = pool
      BY <2>1
    <3> DEFINE k == i + 1
    <3>2. /\ k \in 1 .. Len(queue) /\ k # 1 /\ queue'[i] = queue[k]
      BY <3>1
    <3> HIDE DEF k
    <3> QED
      BY <1>1, <3>1, <3>2 DEF NoShareTwice
  <2>4. /\ \A v \in Claimed' : mine'[v].serial # cur'.serial
        /\ \A r \in pool' : r.serial # cur'.serial
    <3>1. 1 \in 1 .. Len(queue) /\ cur' = queue[1] /\ pool' = pool
      BY <2>1
    <3> QED
      BY <1>1, <3>1 DEF NoShareTwice
  <2>5. ASSUME NEW i \in 1 .. Len(queue'), NEW j \in 1 .. Len(queue'),
               queue'[i].serial = queue'[j].serial
        PROVE  i = j
    <3>1. i + 1 \in 1 .. Len(queue) /\ j + 1 \in 1 .. Len(queue)
      BY <2>1
    <3>2. queue[i + 1].serial = queue[j + 1].serial
      BY <2>1, <2>5
    <3>3. \A k, l \in 1 .. Len(queue) : queue[k].serial = queue[l].serial => k = l
      BY DEF NoShareTwice
    <3>4. i + 1 = j + 1
      BY <3>1, <3>2, <3>3, Zenon
    <3> QED
      BY <2>2, <3>4
  <2>6. /\ \A v, u \in Claimed' : mine'[v].serial = mine'[u].serial => v = u
        /\ \A v \in Claimed', r \in pool' : mine'[v].serial # r.serial
        /\ \A r, q \in pool' : r.serial = q.serial => r = q
    BY <1>1, <2>1 DEF NoShareTwice
  <2> QED
    BY <2>3, <2>4, <2>5, <2>6 DEF NoShareTwice
<1>3. CASE CheckSession \/ Drop \/ SendFails \/ Freeze
  <2>1. UNCHANGED <<queue, cur, pool>> /\ (Sending' => Sending)
    BY <1>3 DEF CheckSession, Drop, SendFails, Freeze, Sending
  <2> QED
    BY <1>1, <2>1 DEF NoShareTwice
<1>4. CASE SendShare
  <2>1. UNCHANGED <<queue, cur>> /\ pool' = pool \cup {cur} /\ Sending /\ ~ Sending'
    BY <1>4 DEF SendShare, Sending
  <2> QED
    BY <1>1, <2>1 DEF NoShareTwice
<1> QED
  BY <1>2, <1>3, <1>4 DEF Workio

(* The stratum thread only takes shares away from the pool's list. *)
LEMMA StratumOnce ==
    ASSUME NoShareTwice, Stratum
    PROVE  NoShareTwice'
<1>1. UNCHANGED <<wpc, mine, queue, iopc, cur>> /\ pool' \subseteq pool
  BY DEF Stratum, Connect, Established, Disconnect, TopReset, share_result, CountResult,
     CountStale, workerVars, workioVars
<1> QED
  BY <1>1 DEF NoShareTwice, Claimed, Sending

(* Only a claim brings a share on its way. *)
LEMMA FlyingKept ==
    ASSUME TypeOK, [Next]_vars, NEW id \in Nat, NEW serial \in Nat, Flying(id, serial)'
    PROVE  Flying(id, serial) \/ serial = found + 1
<1>1. ASSUME NEW w \in Worker, claim_submit_id(w)
      PROVE  Flying(id, serial) \/ serial = found + 1
  <2>1. UNCHANGED <<queue, iopc, cur, pool>> /\ w \notin Claimed
    BY <1>1 DEF claim_submit_id, workioVars, Claimed
  <2>2. Claimed' = Claimed \cup {w}
    BY <1>1 DEF claim_submit_id, Claimed, TypeOK
  <2>3. mine'[w].serial = found + 1 /\ \A v \in Claimed : mine'[v] = mine[v]
    BY <1>1, <2>1 DEF claim_submit_id, TypeOK, Claimed
  <2> QED
    BY <2>1, <2>2, <2>3 DEF Flying, Sending
<1>2. ASSUME NEW w \in Worker, submit_work(w)
      PROVE  Flying(id, serial)
  <2>1. UNCHANGED <<mine, iopc, cur, pool>> /\ w \in Claimed /\ Claimed' \subseteq Claimed
        /\ queue' \in {queue, Append(queue, mine[w])}
    BY <1>2 DEF submit_work, Claimed, TypeOK
  <2>2. queue \in Seq(Share) /\ mine[w] \in Share
    BY DEF TypeOK
  <2>3. ASSUME NEW i \in 1 .. Len(queue')
        PROVE  (i \in 1 .. Len(queue) /\ queue'[i] = queue[i]) \/ queue'[i] = mine[w]
    BY <2>1, <2>2
  <2> QED
    BY <2>1, <2>3 DEF Flying, Sending
<1>3. ASSUME NEW w \in Worker, update_submit_stats(w)
      PROVE  Flying(id, serial)
  <2>1. UNCHANGED <<mine, queue, iopc, cur, pool>> /\ Claimed' = Claimed
    BY <1>3 DEF update_submit_stats, workioVars, Claimed, TypeOK
  <2> QED
    BY <2>1 DEF Flying, Sending
<1>4. ASSUME Workio
      PROVE  Flying(id, serial)
  <2>1. UNCHANGED mine /\ Claimed' = Claimed
    BY <1>4 DEF Workio, PopShare, CheckSession, Drop, SendShare, SendFails, Freeze,
       workerVars, Claimed
  <2>2. CASE PopShare
    <3>1. /\ cur' = queue[1] /\ 1 \in 1 .. Len(queue) /\ pool' = pool
          /\ \A i \in 1 .. Len(queue') :
                 i + 1 \in 1 .. Len(queue) /\ queue'[i] = queue[i + 1]
      BY <2>2 DEF PopShare, TypeOK
    <3> QED
      BY <2>1, <3>1 DEF Flying
  <2>3. CASE CheckSession \/ Drop \/ SendFails \/ Freeze
    <3>1. UNCHANGED <<queue, cur, pool>> /\ (Sending' => Sending)
      BY <2>3 DEF CheckSession, Drop, SendFails, Freeze, Sending
    <3> QED
      BY <2>1, <3>1 DEF Flying
  <2>4. CASE SendShare
    <3>1. UNCHANGED <<queue, cur>> /\ pool' = pool \cup {cur} /\ Sending /\ ~ Sending'
      BY <2>4 DEF SendShare, Sending
    <3> QED
      BY <2>1, <3>1 DEF Flying
  <2> QED
    BY <1>4, <2>2, <2>3, <2>4 DEF Workio
<1>5. ASSUME Stratum
      PROVE  Flying(id, serial)
  <2>1. UNCHANGED <<wpc, mine, queue, iopc, cur>> /\ pool' \subseteq pool
    BY <1>5 DEF Stratum, Connect, Established, Disconnect, TopReset, share_result,
       CountResult, CountStale, workerVars, workioVars
  <2> QED
    BY <2>1 DEF Flying, Claimed, Sending
<1>6. ASSUME UNCHANGED vars
      PROVE  Flying(id, serial)
  BY <1>6 DEF vars, Flying, Claimed, Sending
<1> QED
  BY <1>1, <1>2, <1>3, <1>4, <1>5, <1>6 DEF Next, Submit

(* A share on its way is held. *)
LEMMA FlyingHeld ==
    ASSUME NEW id, NEW serial, Flying(id, serial)
    PROVE  Holds(id, serial)
BY DEF Flying, Holds, Claimed, Sending

(* An answered share is on its way no more. *)
LEMMA AnsweredIsGone ==
    ASSUME NoShareTwice, NEW r \in pool, pool' = pool \ {r},
           UNCHANGED <<wpc, mine, queue, iopc, cur>>, NEW id
    PROVE  ~ Flying(id, r.serial)'
BY DEF NoShareTwice, Flying, Claimed, Sending

(* The entries last recorded stay in their slots: the next one goes to      *)
(* another slot, and an answer frees the slot of its own share.             *)
LEMMA RingStep ==
    ASSUME RingInv, [Next]_vars
    PROVE  RingFollowsLog'
<1>0. TypeOK /\ TypeOK' /\ IdInv /\ Size \in Nat \ {0}
  BY IdInvStep, BookAssumption DEF RingInv, IdInv
<1>1. log \in Seq(Nat) /\ Len(log) \in Nat /\ s_put_ptr = Len(log) % Size
  BY <1>0 DEF TypeOK, RingInv, RingFollowsLog
<1>2. ASSUME NEW w \in Worker, update_submit_stats(w)
      PROVE  RingFollowsLog'
  <2>1. /\ log' = Append(log, mine[w].serial)
        /\ share_stats' = [share_stats EXCEPT ![s_put_ptr] =
                                [serial |-> mine[w].serial, id |-> mine[w].id]]
        /\ s_put_ptr' = (s_put_ptr + 1) % Size
        /\ wpc[w] = "pushed"
    BY <1>2 DEF update_submit_stats
  <2>2. mine[w].id \in Nat /\ mine[w].serial \in Nat
    BY <1>0 DEF TypeOK, Share
  <2>3. Len(log') = Len(log) + 1 /\ s_put_ptr' = Len(log') % Size
    <3>1. Len(log') = Len(log) + 1
      BY <1>1, <2>1, <2>2
    <3>2. ((Len(log) % Size) + 1) % Size = (Len(log) + 1) % Size
      BY <1>0, <1>1, NextSlot
    <3> QED
      BY <1>1, <2>1, <3>1, <3>2
  <2>4. ASSUME NEW i \in 1 .. Len(log'), NEW id \in Nat, NEW serial \in Nat,
               Len(log') - i < Size, log'[i] = serial, Flying(id, serial)'
        PROVE  share_stats'[(i - 1) % Size] = [serial |-> serial, id |-> id]
    <3>1. Flying(id, serial)
      <4>1. UNCHANGED <<mine, queue, iopc, cur, pool>> /\ Claimed' = Claimed
        BY <1>0, <1>2 DEF update_submit_stats, workioVars, Claimed, TypeOK
      <4> QED
        BY <2>4, <4>1 DEF Flying, Sending
    <3>2. CASE i = Len(log) + 1
      <4>1. serial = mine[w].serial
        BY <1>1, <2>1, <2>2, <2>4, <3>2
      <4>2. id = mine[w].id
        <5>1. Holds(id, serial) /\ Holds(mine[w].id, mine[w].serial)
          BY <2>1, <3>1, FlyingHeld DEF Holds
        <5> QED
          BY <1>0, <2>2, <4>1, <5>1 DEF IdInv, OneShareAnId
      <4>3. (i - 1) % Size = s_put_ptr
        BY <1>1, <3>2
      <4> QED
        BY <1>0, <2>1, <4>1, <4>2, <4>3 DEF TypeOK
    <3>3. CASE i # Len(log) + 1
      <4>1. i \in 1 .. Len(log) /\ log[i] = serial /\ Len(log) - i < Size
        <5>1. i \in 1 .. Len(log)
          BY <1>1, <2>3, <3>3
        <5>2. log'[i] = log[i]
          BY <1>1, <2>1, <2>2, <5>1
        <5> QED
          BY <1>0, <1>1, <2>3, <2>4, <5>1, <5>2
      <4>2. share_stats[(i - 1) % Size] = [serial |-> serial, id |-> id]
        BY <3>1, <4>1 DEF RingInv, RingFollowsLog
      <4>3. (i - 1) % Size # s_put_ptr
        <5>1. i - 1 \in Nat /\ i - 1 < Len(log) /\ Len(log) - (i - 1) < Size
          BY <1>0, <1>1, <2>3, <2>4, <4>1
        <5> QED
          BY <1>0, <1>1, <5>1, SlotsApart
      <4>4. (i - 1) % Size \in 0 .. Size - 1
        BY <1>0, <4>1
      <4> QED
        BY <1>0, <2>1, <4>2, <4>3, <4>4 DEF TypeOK
    <3> QED
      BY <3>2, <3>3
  <2> QED
    BY <2>3, <2>4 DEF RingFollowsLog
<1>3. ASSUME UNCHANGED <<log, s_put_ptr, share_stats>>
      PROVE  RingFollowsLog'
  <2>1. ASSUME NEW i \in 1 .. Len(log), NEW id \in Nat, NEW serial \in Nat,
               Len(log) - i < Size, log[i] = serial, Flying(id, serial)'
        PROVE  share_stats[(i - 1) % Size] = [serial |-> serial, id |-> id]
    <3>1. log[i] <= found /\ found \in Nat
      BY <1>0 DEF IdInv, SerialsHandedOut, TypeOK
    <3>2. Flying(id, serial)
      BY <1>0, <2>1, <3>1, FlyingKept
    <3> QED
      BY <2>1, <3>2 DEF RingInv, RingFollowsLog
  <2> QED
    BY <1>1, <1>3, <2>1 DEF RingFollowsLog
<1>4. ASSUME TopReset
      PROVE  RingFollowsLog'
  <2>1. log' = <<>> /\ s_put_ptr' = 0
    BY <1>4 DEF TopReset, share_stats_reset
  <2>2. Len(log') = 0 /\ 0 % Size = 0
    BY <1>0, <2>1
  <2> QED
    BY <2>1, <2>2 DEF RingFollowsLog
<1>5. ASSUME share_result
      PROVE  RingFollowsLog'
  <2>1. PICK r \in pool :
            /\ pool' = pool \ {r}
            /\ reply'.serial = r.serial /\ reply'.id = r.id
            /\ \/ Pending(r.id) = {} /\ entry' = NoEntry /\ UNCHANGED share_stats
               \/ \E slot \in Pending(r.id) :
                     /\ slot \in 0 .. Size - 1
                     /\ entry' = share_stats[slot]
                     /\ share_stats' = [share_stats EXCEPT ![slot] = NoEntry]
    BY <1>0, <1>5, ShareResultStep
  <2>2. UNCHANGED <<wpc, mine, queue, iopc, cur, log, s_put_ptr>>
    BY <1>5 DEF share_result, workerVars, workioVars
  <2>3. CASE UNCHANGED share_stats
    BY <1>3, <2>2, <2>3
  <2>4. CASE \E slot \in Pending(r.id) :
                 /\ slot \in 0 .. Size - 1
                 /\ share_stats' = [share_stats EXCEPT ![slot] = NoEntry]
    <3>1. PICK slot \in Pending(r.id) :
                 /\ slot \in 0 .. Size - 1
                 /\ share_stats' = [share_stats EXCEPT ![slot] = NoEntry]
      BY <2>4
    <3>2. ASSUME NEW i \in 1 .. Len(log), NEW id \in Nat, NEW serial \in Nat,
                 Len(log) - i < Size, log[i] = serial, Flying(id, serial)'
          PROVE  share_stats'[(i - 1) % Size] = [serial |-> serial, id |-> id]
      <4>1. Flying(id, serial)
        BY <2>1, <2>2, <3>2 DEF Flying, Claimed, Sending
      <4>2. share_stats[(i - 1) % Size] = [serial |-> serial, id |-> id]
        BY <3>2, <4>1 DEF RingInv, RingFollowsLog
      <4>3. serial # r.serial
        BY <2>1, <2>2, <3>2, AnsweredIsGone DEF RingInv
      <4>4. id # r.id
        <5>1. Holds(id, serial) /\ Holds(r.id, r.serial)
          BY <4>1, FlyingHeld DEF Holds
        <5>2. r.id \in Nat /\ r.serial \in Nat
          BY <1>0 DEF TypeOK, Share
        <5> QED
          BY <1>0, <4>3, <5>1, <5>2 DEF IdInv, OneShareAnId
      <4>5. (i - 1) % Size # slot
        BY <3>1, <4>2, <4>4 DEF Pending
      <4>6. (i - 1) % Size \in 0 .. Size - 1
        BY <1>0, <1>1
      <4> QED
        BY <1>0, <3>1, <4>2, <4>5, <4>6 DEF TypeOK
    <3> QED
      BY <1>1, <2>2, <3>2 DEF RingFollowsLog
  <2> QED
    BY <2>1, <2>3, <2>4
<1>6. ASSUME NEW w \in Worker, claim_submit_id(w) \/ submit_work(w)
      PROVE  UNCHANGED <<log, s_put_ptr, share_stats>>
  BY <1>6 DEF claim_submit_id, submit_work, ringVars
<1>7. Workio => UNCHANGED <<log, s_put_ptr, share_stats>>
  BY DEF Workio, PopShare, CheckSession, Drop, SendShare, SendFails, Freeze, ringVars
<1>8. Stratum => UNCHANGED <<log, s_put_ptr, share_stats>> \/ TopReset \/ share_result
  BY DEF Stratum, Connect, Established, Disconnect, CountResult, CountStale, ringVars
<1>9. UNCHANGED vars => UNCHANGED <<log, s_put_ptr, share_stats>>
  BY DEF vars
<1> QED
  BY <1>2, <1>3, <1>4, <1>5, <1>6, <1>7, <1>8, <1>9 DEF Next, Submit

(* RingInv holds in every reachable state. *)
LEMMA RingInvHolds == Spec => []RingInv
<1>1. share_stats_init => NoShareTwice /\ RingFollowsLog
  <2> SUFFICES ASSUME share_stats_init
               PROVE  NoShareTwice /\ RingFollowsLog
    OBVIOUS
  <2>1. Claimed = {} /\ pool = {} /\ Len(queue) = 0 /\ Len(log) = 0 /\ ~ Sending
    BY DEF share_stats_init, Claimed, Sending
  <2>2. s_put_ptr = 0 /\ 0 % Size = 0
    BY BookAssumption DEF share_stats_init
  <2> QED
    BY <2>1, <2>2 DEF NoShareTwice, RingFollowsLog
<1>2. ASSUME IdInv, NoShareTwice, RingFollowsLog, [Next]_vars
      PROVE  NoShareTwice' /\ RingFollowsLog'
  <2>1. TypeOK /\ RingInv
    BY <1>2 DEF RingInv, IdInv
  <2>2. UNCHANGED vars => NoShareTwice'
    BY <1>2 DEF vars, NoShareTwice, Claimed, Sending
  <2>3. NoShareTwice'
    BY <1>2, <2>1, <2>2, SubmitOnce, WorkioOnce, StratumOnce DEF Next
  <2> QED
    BY <1>2, <2>1, <2>3, RingStep
<1>3. IdInv /\ NoShareTwice /\ RingFollowsLog <=> RingInv
  BY DEF RingInv
<1> QED
  BY <1>1, <1>2, <1>3, IdInvHolds, PTL DEF Spec

(* When share_result finds no entry for an answer, the share has not been   *)
(* recorded since the ring was last cleared, or a whole ring of shares has  *)
(* been recorded after it.                                                  *)
THEOREM MissingIsExplainedHolds == Spec => MissingIsExplained
<1>1. ASSUME RingInv, [Next]_vars
      PROVE  [spc = "read" /\ spc' = "result" /\ entry'.serial = 0
                => \A i \in 1 .. Len(log) :
                       log[i] = reply'.serial => Len(log) - i >= Size]_vars
  <2> SUFFICES ASSUME spc = "read", spc' = "result", entry'.serial = 0,
                      NEW i \in 1 .. Len(log), log[i] = reply'.serial
               PROVE  Len(log) - i >= Size
    OBVIOUS
  <2>0. TypeOK /\ IdInv /\ Size \in Nat \ {0}
    BY <1>1, BookAssumption DEF RingInv, IdInv
  <2>1. share_result
    <3>1. ASSUME NEW w \in Worker, Submit(w)
          PROVE  spc' = spc
      BY <3>1 DEF Submit, claim_submit_id, submit_work, update_submit_stats, replyVars
    <3>2. Workio => spc' = spc
      BY DEF Workio, PopShare, CheckSession, Drop, SendShare, SendFails, Freeze, replyVars
    <3>3. Stratum => share_result \/ spc' = spc \/ spc' # "result"
      BY DEF Stratum, Connect, Established, Disconnect, TopReset, CountResult, CountStale,
         replyVars
    <3>4. UNCHANGED vars => spc' = spc
      BY DEF vars
    <3> QED
      BY <1>1, <3>1, <3>2, <3>3, <3>4 DEF Next
  <2>2. PICK r \in pool :
            /\ pool' = pool \ {r}
            /\ reply'.serial = r.serial /\ reply'.id = r.id
            /\ \/ Pending(r.id) = {} /\ entry' = NoEntry /\ UNCHANGED share_stats
               \/ \E slot \in Pending(r.id) :
                     /\ slot \in 0 .. Size - 1
                     /\ entry' = share_stats[slot]
                     /\ share_stats' = [share_stats EXCEPT ![slot] = NoEntry]
    BY <2>0, <2>1, ShareResultStep
  <2>3. Pending(r.id) = {}
    BY <2>2 DEF Pending
  <2>4. r.id \in Nat /\ r.serial \in Nat /\ Flying(r.id, r.serial)
    BY <2>0 DEF TypeOK, Share, Flying
  <2>5. r.serial # 0
    <3>1. Holds(r.id, r.serial)
      BY <2>4, FlyingHeld
    <3> QED
      BY <2>0, <2>4, <3>1 DEF IdInv, SerialsHandedOut
  <2>6. (i - 1) % Size \in 0 .. Size - 1 /\ Len(log) \in Nat
    BY <2>0 DEF TypeOK
  <2>7. share_stats[(i - 1) % Size] # [serial |-> r.serial, id |-> r.id]
    BY <2>3, <2>5, <2>6 DEF Pending
  <2>8. ~ (Len(log) - i < Size)
    BY <1>1, <2>2, <2>4, <2>7 DEF RingInv, RingFollowsLog
  <2> QED
    BY <2>0, <2>6, <2>8
<1> QED
  BY <1>1, RingInvHolds, PTL DEF Spec, MissingIsExplained
=============================================================================

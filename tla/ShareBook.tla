----------------------------- MODULE ShareBook -----------------------------
(***************************************************************************)
(* The accounts of submitted shares: mining threads claim a submit id, hand *)
(* the share to the workio thread and only then record it in a ring of      *)
(* pending entries; the workio thread sends or drops it; the pool answers   *)
(* in any order, or never, and the stratum thread finds the entry by the id *)
(* the reply echoes. stats_lock covers the id counter and the ring, nothing *)
(* covers the counters.                                                     *)
(*                                                                          *)
(* A share is known by its serial number, which the code does not have: it  *)
(* is what the ids are meant to tell apart.                                 *)
(***************************************************************************)
EXTENDS Integers, Sequences, FiniteSets

CONSTANTS
    Worker,
    Size,             \* s_stats_size
    FirstId,          \* s_first_submit_id
    LastId,           \* 2^32 - 1, the last id before the counter wraps
    LimitedRetries,   \* opt_retries >= 0
    MaxShares,        \* bound: shares found
    MaxSessions       \* bound: connections opened

ASSUME BookAssumption ==
    /\ Size \in Nat \ {0} /\ FirstId \in Nat /\ LastId \in Nat
    /\ FirstId <= LastId /\ IsFiniteSet(Worker)
    /\ LimitedRetries \in BOOLEAN /\ {MaxShares, MaxSessions} \subseteq Nat

VARIABLES
    next_submit_id,
    found,            \* shares found so far; the next serial number is one more
    wpc,              \* where each mining thread is in submit_solution
    mine,             \* the share it is submitting
    share_stats,      \* the ring
    s_put_ptr,
    submitted, accepted, rejected, stale,
    queue, frozen,    \* the workio thread's queue
    iopc, cur, ioread,    \* the workio thread, its share, the count it has loaded
    stratum_session,
    sock,             \* "closed", "shaking" (connected, not authorized) or "up"
    sessions,         \* connections opened so far
    pool,             \* the shares the pool of this connection has to answer
    spc, reply, entry, sread, \* the stratum thread in share_result
    log               \* serials recorded since the ring was last cleared

workerVars == <<wpc, mine, found, next_submit_id, submitted>>
ringVars   == <<share_stats, s_put_ptr, log>>
workioVars == <<queue, frozen, iopc, cur, ioread>>
connVars   == <<stratum_session, sock, sessions>>
replyVars  == <<spc, reply, entry, sread>>
countVars  == <<accepted, rejected, stale>>
vars == <<next_submit_id, found, wpc, mine, share_stats, s_put_ptr, submitted,
          accepted, rejected, stale, queue, frozen, iopc, cur, ioread,
          stratum_session, sock, sessions, pool, spc, reply, entry, sread, log>>

Id    == FirstId .. LastId
Share == [serial : Nat, id : Nat, session : Nat]
Entry == [serial : Nat, id : Nat]      \* serial 0: submit_time is zero

NoShare == [serial |-> 0, id |-> 0, session |-> 0]
NoEntry == [serial |-> 0, id |-> 0]
Result  == {"accepted", "rejected", "stale"}

share_stats_init ==
    /\ next_submit_id = FirstId /\ found = 0
    /\ wpc = [w \in Worker |-> "idle"] /\ mine = [w \in Worker |-> NoShare]
    /\ share_stats = [i \in 0 .. Size - 1 |-> NoEntry] /\ s_put_ptr = 0 /\ log = <<>>
    /\ submitted = 0 /\ accepted = 0 /\ rejected = 0 /\ stale = 0
    /\ queue = <<>> /\ frozen = FALSE /\ iopc = "idle" /\ cur = NoShare /\ ioread = 0
    /\ stratum_session = 0 /\ sock = "closed" /\ sessions = 0 /\ pool = {}
    /\ spc = "read" /\ reply = [serial |-> 0, id |-> 0, result |-> "accepted"]
    /\ entry = NoEntry /\ sread = 0

----------------------------------------------------------------------------
(* submit_solution, on a mining thread.                                     *)

(* The code's ids come round after 2^32 shares. What it takes for granted is  *)
(* said here: an id does not come round while a share that has it is still   *)
(* on its way, in the ring, or waiting for its answer.                       *)
InUse == {share_stats[i].id : i \in 0 .. Size - 1}
         \cup {mine[w].id : w \in {v \in Worker : wpc[v] # "idle"}}
         \cup {r.id : r \in pool}
         \cup {queue[i].id : i \in 1 .. Len(queue)}
         \cup (IF iopc \in {"check", "send"} THEN {cur.id} ELSE {})
         \cup (IF spc = "result" THEN {reply.id} ELSE {})

(* A share is found on work of the current or of an earlier session. *)
claim_submit_id(w) ==
    /\ wpc[w] = "idle" /\ found < MaxShares /\ next_submit_id \notin InUse
    /\ \E session \in 1 .. stratum_session :
          mine' = [mine EXCEPT ![w] = [serial |-> found + 1, id |-> next_submit_id,
                                       session |-> session]]
    /\ found' = found + 1
    /\ next_submit_id' = IF next_submit_id = LastId THEN FirstId
                                                    ELSE next_submit_id + 1
    /\ wpc' = [wpc EXCEPT ![w] = "claimed"]
    /\ UNCHANGED <<submitted, ringVars, workioVars, connVars, replyVars, countVars, pool>>

(* submit_work: tq_push refuses when the queue is frozen. *)
submit_work(w) ==
    /\ wpc[w] = "claimed"
    /\ IF frozen
       THEN wpc' = [wpc EXCEPT ![w] = "idle"] /\ UNCHANGED queue
       ELSE wpc' = [wpc EXCEPT ![w] = "pushed"] /\ queue' = Append(queue, mine[w])
    /\ UNCHANGED <<mine, found, next_submit_id, submitted, ringVars, frozen, iopc,
                   cur, ioread, connVars, replyVars, countVars, pool>>

(* Mutant. *)
update_submit_stats_in_place(w) ==
    /\ wpc[w] = "pushed"
    /\ submitted' = submitted + 1
    /\ share_stats' = [share_stats EXCEPT ![s_put_ptr] =
                          [serial |-> mine[w].serial, id |-> mine[w].id]]
    /\ UNCHANGED s_put_ptr
    /\ log' = Append(log, mine[w].serial)
    /\ wpc' = [wpc EXCEPT ![w] = "idle"]
    /\ UNCHANGED <<mine, found, next_submit_id, workioVars, connVars, replyVars,
                   countVars, pool>>

(* The slot is written whether or not it still waits for an answer. *)
update_submit_stats(w) ==
    /\ wpc[w] = "pushed"
    /\ submitted' = submitted + 1
    /\ share_stats' = [share_stats EXCEPT ![s_put_ptr] =
                          [serial |-> mine[w].serial, id |-> mine[w].id]]
    /\ s_put_ptr' = (s_put_ptr + 1) % Size
    /\ log' = Append(log, mine[w].serial)
    /\ wpc' = [wpc EXCEPT ![w] = "idle"]
    /\ UNCHANGED <<mine, found, next_submit_id, workioVars, connVars, replyVars,
                   countVars, pool>>

----------------------------------------------------------------------------
(* The workio thread.                                                       *)

PopShare ==
    /\ iopc = "idle" /\ queue # <<>>
    /\ cur' = Head(queue) /\ queue' = Tail(queue)
    /\ iopc' = "check"
    /\ UNCHANGED <<workerVars, ringVars, frozen, ioread, connVars, replyVars,
                   countVars, pool>>

(* stale_share_count++ with no lock: the load is here, the store is in Drop. *)
CheckSession ==
    /\ iopc = "check"
    /\ IF cur.session # stratum_session
       THEN iopc' = "drop" /\ ioread' = stale
       ELSE iopc' = "send" /\ UNCHANGED ioread
    /\ UNCHANGED <<workerVars, ringVars, queue, frozen, cur, connVars, replyVars,
                   countVars, pool>>

(* Mutant. *)
Drop_and_send ==
    /\ iopc = "drop"
    /\ stale' = ioread + 1
    /\ iopc' = "send"
    /\ UNCHANGED <<workerVars, ringVars, queue, frozen, cur, ioread, connVars,
                   replyVars, accepted, rejected, pool>>

Drop ==
    /\ iopc = "drop"
    /\ stale' = ioread + 1
    /\ iopc' = "idle"
    /\ UNCHANGED <<workerVars, ringVars, queue, frozen, cur, ioread, connVars,
                   replyVars, accepted, rejected, pool>>

SendShare ==
    /\ iopc = "send" /\ sock # "closed"
    /\ pool' = pool \cup {cur}
    /\ iopc' = "idle"
    /\ UNCHANGED <<workerVars, ringVars, queue, frozen, cur, ioread, connVars,
                   replyVars, countVars>>

(* After a pause the session is checked again; with limited retries the     *)
(* thread gives up.                                                          *)
SendFails ==
    /\ iopc = "send"
    /\ iopc' \in {"check"} \cup (IF LimitedRetries THEN {"ending"} ELSE {})
    /\ UNCHANGED <<workerVars, ringVars, queue, frozen, cur, ioread, connVars,
                   replyVars, countVars, pool>>

(* The loop has ended; until this step shares are still queued. *)
Freeze ==
    /\ iopc = "ending"
    /\ frozen' = TRUE /\ iopc' = "over"
    /\ UNCHANGED <<workerVars, ringVars, queue, cur, ioread, connVars, replyVars,
                   countVars, pool>>

----------------------------------------------------------------------------
(* The stratum thread.                                                      *)

Connect ==
    /\ spc = "read" /\ sock = "closed" /\ sessions < MaxSessions
    /\ sock' = "shaking" /\ sessions' = sessions + 1
    /\ UNCHANGED <<workerVars, ringVars, workioVars, stratum_session, replyVars,
                   countVars, pool>>

Established ==
    /\ spc = "read" /\ sock = "shaking"
    /\ sock' = "up" /\ stratum_session' = stratum_session + 1
    /\ UNCHANGED <<workerVars, ringVars, workioVars, sessions, replyVars, countVars,
                   pool>>

(* A refused handshake, a client.reconnect: the connection is closed, what   *)
(* the pool had to say is lost, the ring stays.                              *)
Disconnect ==
    /\ spc = "read" /\ sock # "closed"
    /\ sock' = "closed" /\ pool' = {}
    /\ UNCHANGED <<workerVars, ringVars, workioVars, stratum_session, sessions,
                   replyVars, countVars>>

share_stats_reset ==
    /\ share_stats' = [i \in 0 .. Size - 1 |-> NoEntry]
    /\ s_put_ptr' = 0
    /\ log' = <<>>

(* Top of the loop with stratum_need_reset set. *)
TopReset ==
    /\ spc = "read" /\ sock # "closed"
    /\ sock' = "closed" /\ pool' = {}
    /\ share_stats_reset
    /\ UNCHANGED <<workerVars, workioVars, stratum_session, sessions, replyVars,
                   countVars>>

(* Mutant: the oldest pending entry, as the code once did. *)
Pending_oldest(id) ==
    LET waiting == {i \in 0 .. Size - 1 : share_stats[i].serial # 0}
    IN  {i \in waiting : \A k \in waiting : share_stats[i].serial <= share_stats[k].serial}

(* The slots with a pending share of this id. *)
Pending(id) ==
    {i \in 0 .. Size - 1 : share_stats[i].serial # 0 /\ share_stats[i].id = id}

(* stratum_handle_response: the pool answers one of its shares, any of them; *)
(* share_result takes the first slot with the id, and frees it. (Lines that  *)
(* come in a handshake are read by stratum_authorize and not brought here.)  *)
share_result ==
    /\ spc = "read" /\ sock = "up"
    /\ \E r \in pool, result \in Result :
          /\ pool' = pool \ {r}
          /\ reply' = [serial |-> r.serial, id |-> r.id, result |-> result]
          /\ IF Pending(r.id) = {}
             THEN entry' = NoEntry /\ UNCHANGED share_stats
             ELSE LET slot == CHOOSE i \in Pending(r.id) :
                                  \A k \in Pending(r.id) : i <= k
                  IN  /\ entry' = share_stats[slot]
                      /\ share_stats' = [share_stats EXCEPT ![slot] = NoEntry]
    /\ spc' = "result"
    /\ UNCHANGED <<workerVars, s_put_ptr, log, workioVars, connVars, countVars, sread>>

(* The counters, which only this thread moves but for the stale one. *)
CountResult ==
    /\ spc = "result"
    /\ IF reply.result = "stale"
       THEN spc' = "store" /\ sread' = stale /\ UNCHANGED <<accepted, rejected>>
       ELSE /\ spc' = "read" /\ UNCHANGED sread
            /\ accepted' = IF reply.result = "accepted" THEN accepted + 1 ELSE accepted
            /\ rejected' = IF reply.result = "rejected" THEN rejected + 1 ELSE rejected
    /\ UNCHANGED <<workerVars, ringVars, workioVars, connVars, reply, entry, stale, pool>>

CountStale ==
    /\ spc = "store"
    /\ stale' = sread + 1
    /\ spc' = "read"
    /\ UNCHANGED <<workerVars, ringVars, workioVars, connVars, reply, entry, sread,
                   accepted, rejected, pool>>

----------------------------------------------------------------------------
Submit(w) == claim_submit_id(w) \/ submit_work(w) \/ update_submit_stats(w)
Workio == PopShare \/ CheckSession \/ Drop \/ SendShare \/ SendFails \/ Freeze
Stratum == \/ Connect \/ Established \/ Disconnect \/ TopReset
           \/ share_result \/ CountResult \/ CountStale

Next == (\E w \in Worker : Submit(w)) \/ Workio \/ Stratum

Spec == share_stats_init /\ [][Next]_vars

----------------------------------------------------------------------------
(* share_result on ids: a result line's difficulty, job and elapsed time are *)
(* those of the share the pool answered, in whatever order it answers,       *)
(* however early, and whatever the ring still holds of shares that were      *)
(* dropped or never answered.                                                *)
RightShare ==
    spc = "result" => entry.serial \in {0, reply.serial}

(* No result without a share: the three counters never add up to more than   *)
(* the shares submitted, but for those between the queue and the ring (their *)
(* answer can be faster than the thread that records them). Whatever the     *)
(* unlocked increments of the stale counter lose, they add nothing.          *)
CountersCovered ==
    accepted + rejected + stale
        <= submitted + Cardinality({w \in Worker : wpc[w] = "pushed"})

(* Why an answer finds no entry: its share has not been recorded yet, was     *)
(* recorded before the ring was last cleared, or has been followed by Size    *)
(* others.                                                                   *)
MissingIsExplained ==
    [][spc = "read" /\ spc' = "result" /\ entry'.serial = 0
          => \A i \in 1 .. Len(log) :
                 log[i] = reply'.serial => Len(log) - i >= Size]_vars
=============================================================================

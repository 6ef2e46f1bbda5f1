------------------------------ MODULE Stratum ------------------------------
(***************************************************************************)
(* The stratum protocol client: the lines a pool sends, in the order of    *)
(* one connection, against the handlers that read them. The thread dials,  *)
(* subscribes, authorizes, and then reads lines and publishes jobs; the    *)
(* pool answers what it was asked in order and pushes methods between.     *)
(*                                                                         *)
(* A line is a method or a reply with what its handler tells apart: a      *)
(* notify is its number, and how it is formed; a difficulty, a target and  *)
(* an extranonce are numbers, 0 standing for one the handler refuses. A    *)
(* job is kept in the parts a notify writes separately, each part being    *)
(* the number of the notify it came from, so that a mixture shows.         *)
(***************************************************************************)
EXTENDS Integers, Sequences

CONSTANTS
    Dialects,       \* the dialects opt_stratum_dialect is taken from
    EagerPool,      \* the pool may push a method before it answers subscribe
    MaxConns,       \* bound: connections opened
    MaxPushes,      \* bound: methods the pool pushes
    MaxSubmits      \* bound: shares submitted

ASSUME StratumAssumption ==
    /\ Dialects \subseteq {"bitcoin", "progpow"} /\ EagerPool \in BOOLEAN
    /\ {MaxConns, MaxPushes, MaxSubmits} \subseteq Nat

VARIABLES
    dialect,        \* opt_stratum_dialect
    redirect,       \* opt_redirect
    opt_extranonce,
    pc,             \* where the stratum thread is
    conn,           \* sctx->curl: the open connection, or 0
    conns,          \* connections opened so far
    url,            \* sctx->url: "own" is rpc_url, "moved" where the pool sent us
    inbox,          \* lines that have arrived and were not read
    job,            \* sctx->job
    new_job,        \* sctx->new_job
    next_diff,      \* sctx->next_diff
    next_target,    \* sctx->next_target, 0 while have_next_target is false
    xnonce,         \* the extranonce assignment sctx->xnonce1 and sizes hold
    session,        \* stratum_session
    g_work,         \* the published work
    header,         \* the last header a worker rolled
    asked,          \* the ids the pool has not answered
    granted,        \* the ids it answered with a result, on this connection
    pool_diff,      \* the difficulty the pool holds this connection to
    pool_target,    \* the target it last set on this connection, or 0
    pushes,         \* methods pushed so far
    submits,        \* shares submitted so far
    spoiled         \* a refused notify has written to the job since it was taken

config  == <<dialect, redirect>>
pool    == <<asked, granted, pool_diff, pool_target, pushes, submits>>
sctx    == <<job, new_job, next_diff, next_target, xnonce, spoiled>>
vars    == <<dialect, redirect, opt_extranonce, pc, conn, conns, url, inbox, job,
             new_job, next_diff, next_target, xnonce, session, g_work, header,
             asked, granted, pool_diff, pool_target, pushes, submits, spoiled>>

Methods == {"notify", "set_difficulty", "set_target", "set_extranonce",
            "reconnect", "query"}
(* A line, with what the pool holds this connection to as it sends it.       *)
Line(k, v, form, n) ==
    [k |-> k, v |-> v, form |-> form, n |-> n,
     diff |-> pool_diff, target |-> pool_target, conn |-> conn]
Reply(id, ok) == Line("reply", id, IF ok THEN "good" ELSE "bad", 0)
Garbage       == Line("garbage", 0, "bad", 0)

NoJob == [id |-> 0, version |-> 0, merkle |-> 0, coinbase |-> 0, diff |-> 0,
          target |-> 0, have_target |-> FALSE, of |-> 0, due_diff |-> 0,
          due_target |-> 0]
NoWork   == [job |-> NoJob, session |-> 0, on |-> 0]
NoHeader == [version |-> 0, merkle |-> 0, of |-> 0, clean |-> TRUE]

Handshake == {"connected", "subscribe", "retry", "authorize", "extranonce",
              "established"}

Init ==
    /\ dialect \in Dialects /\ redirect \in BOOLEAN /\ opt_extranonce \in BOOLEAN
    /\ pc = "dial" /\ conn = 0 /\ conns = 0 /\ url = "own" /\ inbox = <<>>
    /\ job = NoJob /\ new_job = FALSE /\ next_diff = 0 /\ next_target = 0
    /\ xnonce = 0 /\ session = 0 /\ g_work = NoWork /\ header = NoHeader
    /\ asked = <<>> /\ granted = {} /\ pool_diff = 1 /\ pool_target = 0
    /\ pushes = 0 /\ submits = 0 /\ spoiled = FALSE

----------------------------------------------------------------------------
(* The methods. Each handler is an action on sctx; Handled is what           *)
(* stratum_handle_method returns for the line.                               *)

stratum_progpow_notify_standing(l) ==
    IF l.form = "early"
    THEN UNCHANGED <<job, new_job, spoiled>>
    ELSE LET have == l.v # 0 \/ next_target # 0
         IN  /\ job' = [id |-> l.n, version |-> l.n, merkle |-> l.n,
                        coinbase |-> xnonce, diff |-> next_diff,
                        target |-> IF next_target # 0 THEN next_target ELSE l.v,
                        have_target |-> have, of |-> l.conn,
                        due_diff |-> l.diff,
                        due_target |-> IF l.v # 0 THEN l.v ELSE l.target]
             /\ new_job' = (new_job \/ have)
             /\ spoiled' = ~have

(* stratum_progpow_notify: the job is overwritten before the handler knows   *)
(* whether it has a target, its own or the last one set.                     *)
stratum_progpow_notify(l) ==
    IF l.form = "early"
    THEN UNCHANGED <<job, new_job, spoiled>>
    ELSE LET have == l.v # 0 \/ next_target # 0
         IN  /\ job' = [id |-> l.n, version |-> l.n, merkle |-> l.n,
                        coinbase |-> xnonce, diff |-> next_diff,
                        target |-> IF l.v # 0 THEN l.v
                                   ELSE IF next_target # 0 THEN next_target
                                   ELSE job.target,
                        have_target |-> have, of |-> l.conn,
                        due_diff |-> l.diff,
                        due_target |-> IF l.v # 0 THEN l.v ELSE l.target]
             /\ new_job' = (new_job \/ have)
             /\ spoiled' = ~have

(* stratum_bitcoin_notify: parameters of the wrong shape ("early") are       *)
(* refused before anything is written; a bad merkle branch ("late") is met   *)
(* with the version and part of the branch already replaced.                 *)
stratum_bitcoin_notify(l) ==
    CASE l.form = "early" -> UNCHANGED <<job, new_job, spoiled>>
      [] l.form = "late"  -> /\ job' = [job EXCEPT !.version = l.n, !.merkle = 0]
                             /\ spoiled' = TRUE
                             /\ UNCHANGED new_job
      [] l.form = "good"  -> /\ job' = [id |-> l.n, version |-> l.n,
                                        merkle |-> l.n, coinbase |-> xnonce,
                                        diff |-> next_diff, target |-> 0,
                                        have_target |-> FALSE, of |-> l.conn,
                                        due_diff |-> l.diff, due_target |-> 0]
                             /\ new_job' = TRUE
                             /\ spoiled' = FALSE

stratum_notify(l) ==
    /\ IF dialect = "progpow" THEN stratum_progpow_notify(l)
                              ELSE stratum_bitcoin_notify(l)
    /\ UNCHANGED <<next_diff, next_target, xnonce, conn, url>>

stratum_set_difficulty(l) ==
    /\ next_diff' = IF l.v = 0 THEN next_diff ELSE l.v
    /\ UNCHANGED <<job, new_job, next_target, xnonce, spoiled, conn, url>>

(* A ProgPoW target is kept whole for jobs that carry none; any other        *)
(* dialect turns it into a difficulty.                                       *)
stratum_set_target(l) ==
    /\ next_target' = IF dialect = "progpow" /\ l.v # 0 THEN l.v ELSE next_target
    /\ next_diff' = IF dialect = "bitcoin" /\ l.v # 0 THEN l.v ELSE next_diff
    /\ UNCHANGED <<job, new_job, xnonce, spoiled, conn, url>>

(* stratum_parse_extranonce and stratum_parse_nonce_prefix: the assignment   *)
(* moves, the coinbase of the job in hand does not.                          *)
stratum_parse_extranonce(l) ==
    /\ xnonce' = IF l.v = 0 THEN xnonce ELSE l.v
    /\ UNCHANGED <<job, new_job, next_diff, next_target, spoiled, conn, url>>

(* client.reconnect is obeyed unless --no-redirect, and then the connection  *)
(* is dropped where it stands.                                               *)
stratum_reconnect(l) ==
    /\ IF l.v # 0 /\ redirect THEN url' = "moved" /\ conn' = 0
                              ELSE UNCHANGED <<url, conn>>
    /\ UNCHANGED sctx

(* mining.ping, client.get_algo, client.get_version, client.show_message and *)
(* unknown methods ("query") write no state; those with an id are answered,  *)
(* and only a message needs none to count as handled.                        *)
stratum_answer(l) == UNCHANGED <<job, new_job, next_diff, next_target, xnonce,
                                 spoiled, conn, url>>

handle_method(l) ==
    CASE l.k = "notify"         -> stratum_notify(l)
      [] l.k = "set_difficulty" -> stratum_set_difficulty(l)
      [] l.k = "set_target"     -> stratum_set_target(l)
      [] l.k = "set_extranonce" -> stratum_parse_extranonce(l)
      [] l.k = "reconnect"      -> stratum_reconnect(l)
      [] OTHER                  -> stratum_answer(l)

Handled(l) ==
    CASE l.k = "notify"  -> IF dialect = "progpow"
                            THEN l.form # "early" /\ (l.v # 0 \/ next_target # 0)
                            ELSE l.form = "good"
      [] l.k \in Methods \ {"notify"} -> l.v # 0
      [] OTHER           -> FALSE

----------------------------------------------------------------------------
(* The connection.                                                          *)

Unread(i) == inbox' = i

(* stratum_disconnect: the buffered lines go with the handle.                *)
Disconnect == conn' = 0 /\ inbox' = <<>> /\ asked' = <<>>

(* stratum_connect: a fresh handle and an empty buffer.                      *)
stratum_connect ==
    /\ pc = "dial" /\ conns < MaxConns
    /\ conns' = conns + 1 /\ conn' = conns + 1 /\ inbox' = <<>>
    /\ asked' = <<>> /\ granted' = {} /\ pool_diff' = 1 /\ pool_target' = 0
    /\ pc' = "connected"
    /\ UNCHANGED <<config, opt_extranonce, url, sctx, session, g_work, header,
                   pushes, submits>>

SendSubscribe ==
    /\ pc = "connected"
    /\ asked' = Append(asked, 1)
    /\ pc' = "subscribe"
    /\ UNCHANGED <<config, opt_extranonce, conn, conns, url, inbox, sctx, session,
                   g_work, header, granted, pool_diff, pool_target, pushes,
                   submits>>

(* stratum_subscribe reads one line and takes it for the answer. A result    *)
(* that is not an error sets next_diff, and its extranonce is parsed; when   *)
(* any of that fails, subscribe is sent once more with no parameters.        *)
ReadSubscribe ==
    /\ pc \in {"subscribe", "retry"} /\ inbox # <<>>
    /\ LET l  == Head(inbox)
           ok == l.k = "reply" /\ l.form = "good"
       IN  /\ Unread(Tail(inbox))
           /\ next_diff' = IF ok THEN 1 ELSE next_diff
           /\ \/ /\ ok /\ l.v = 1
                 /\ xnonce' = conn * 10
                 /\ asked' = Append(asked, 2)
                 /\ pc' = "authorize"
              \/ /\ ~(ok /\ l.v = 1) /\ pc = "subscribe"
                 /\ asked' = Append(asked, 1)
                 /\ pc' = "retry"
                 /\ UNCHANGED xnonce
              \/ /\ ~(ok /\ l.v = 1) /\ pc = "retry"
                 /\ pc' = "failed"
                 /\ UNCHANGED <<asked, xnonce>>
    /\ UNCHANGED <<config, opt_extranonce, conn, conns, url, job, new_job,
                   next_target, spoiled, session, g_work, header, granted,
                   pool_diff, pool_target, pushes, submits>>

(* stratum_authorize reads on for as long as stratum_handle_method takes the *)
(* lines; the first it does not take is the answer, whatever it answers. The *)
(* handler has had its effect on it by then.                                 *)
ReadAuthorize ==
    /\ pc = "authorize" /\ conn # 0 /\ inbox # <<>>
    /\ LET l  == Head(inbox)
           ok == l.k = "reply" /\ l.form = "good"
       IN  /\ handle_method(l)
           /\ Unread(IF conn' = 0 THEN <<>> ELSE Tail(inbox))
           /\ \/ Handled(l) /\ UNCHANGED <<pc, asked>>
              \/ ~Handled(l) /\ ok /\ opt_extranonce
                 /\ asked' = Append(asked, 3) /\ pc' = "extranonce"
              \/ ~Handled(l) /\ ok /\ ~opt_extranonce
                 /\ pc' = "established" /\ UNCHANGED asked
              \/ ~Handled(l) /\ ~ok
                 /\ pc' = "failed" /\ UNCHANGED asked
    /\ UNCHANGED <<config, opt_extranonce, conns, session, g_work, header,
                   granted, pool_diff, pool_target, pushes, submits>>

(* The optional third request: an answer with another id is handed to        *)
(* stratum_handle_method, and the session is up either way.                  *)
ReadExtranonce ==
    /\ pc = "extranonce" /\ inbox # <<>>
    /\ LET l == Head(inbox)
       IN  /\ IF l.k = "reply" /\ l.v = 3
              THEN UNCHANGED <<sctx, conn, url>> ELSE handle_method(l)
           /\ Unread(IF conn' = 0 THEN <<>> ELSE Tail(inbox))
    /\ pc' = "established"
    /\ UNCHANGED <<config, opt_extranonce, conns, session, g_work, header, pool>>

ExtranonceTimesOut ==
    /\ pc = "extranonce" /\ inbox = <<>>
    /\ opt_extranonce' = FALSE /\ pc' = "established"
    /\ UNCHANGED <<config, conn, conns, url, inbox, sctx, session, g_work, header,
                   pool>>

(* A request that cannot be sent, a wait that runs out, a connection closed. *)
HandshakeFails ==
    /\ pc \in {"connected", "subscribe", "retry", "authorize"}
    /\ pc' = "failed"
    /\ UNCHANGED <<config, opt_extranonce, conn, conns, url, inbox, sctx, session,
                   g_work, header, pool>>

HandshakeFailed_same_connection ==
    /\ pc = "failed"
    /\ inbox' = <<>> /\ asked' = <<>> /\ pc' = "connected"
    /\ UNCHANGED <<config, opt_extranonce, conn, conns, url, sctx, session, g_work,
                   header, granted, pool_diff, pool_target, pushes, submits>>

HandshakeFailed ==
    /\ pc = "failed"
    /\ Disconnect /\ pc' = "dial"
    /\ UNCHANGED <<config, opt_extranonce, conns, url, sctx, session, g_work,
                   header, granted, pool_diff, pool_target, pushes, submits>>

(* stratum_gen_work: the job as it stands becomes the published work.        *)
stratum_gen_work(s) ==
    /\ new_job' = FALSE
    /\ g_work' = [job |-> job, session |-> s, on |-> conn]

Established ==
    /\ pc = "established"
    /\ session' = session + 1
    /\ IF new_job THEN stratum_gen_work(session + 1)
                  ELSE UNCHANGED <<new_job, g_work>>
    /\ pc' = IF conn = 0 THEN "dial" ELSE "up"
    /\ UNCHANGED <<config, opt_extranonce, conn, conns, url, inbox, job, next_diff,
                   next_target, xnonce, spoiled, header, pool>>

(* The loop: one line, which is a method or the reply to a share, ...        *)
ReadLine ==
    /\ pc = "up" /\ inbox # <<>>
    /\ LET l == Head(inbox)
       IN  handle_method(l) /\ Unread(IF conn' = 0 THEN <<>> ELSE Tail(inbox))
    /\ pc' = "publish"
    /\ UNCHANGED <<config, opt_extranonce, conns, session, g_work, header, pool>>

(* ... and the job it brought is published, unless a reset is asked for.     *)
Publish ==
    /\ pc = "publish"
    /\ IF new_job THEN stratum_gen_work(session) ELSE UNCHANGED <<new_job, g_work>>
    /\ pc' = IF conn = 0 THEN "dial" ELSE "up"
    /\ UNCHANGED <<config, opt_extranonce, conn, conns, url, inbox, job, next_diff,
                   next_target, xnonce, spoiled, session, header, pool>>

(* Half the difficulty is suggested after a long silence, under id 1.        *)
stratum_suggest_difficulty ==
    /\ pc = "publish" /\ conn # 0 /\ ~new_job
    /\ Len(asked) < 2
    /\ asked' = Append(asked, 1)
    /\ pc' = "up"
    /\ UNCHANGED <<config, opt_extranonce, conn, conns, url, inbox, sctx, session,
                   g_work, header, granted, pool_diff, pool_target, pushes,
                   submits>>

(* A timeout, a broken connection, or the keepalive asking for a reset with  *)
(* a job just read: the connection is dropped and the url taken back.        *)
Reset ==
    /\ pc \in {"up", "publish"}
    /\ Disconnect
    /\ url' = "own" /\ pc' = "dial"
    /\ UNCHANGED <<config, opt_extranonce, conns, sctx, session, g_work, header,
                   granted, pool_diff, pool_target, pushes, submits>>

----------------------------------------------------------------------------
(* The other threads and the pool.                                          *)

stratum_set_extranonce2_unchecked ==
    /\ dialect # "progpow" /\ pc \in {"up", "publish"}
    /\ g_work.job.id # 0
    /\ header' = [version |-> job.version, merkle |-> job.merkle,
                  of |-> g_work.job.id, clean |-> ~spoiled]
    /\ UNCHANGED <<config, opt_extranonce, pc, conn, conns, url, inbox, sctx,
                   session, g_work, pool>>

(* stratum_set_extranonce2: a worker rebuilds its header from the job as it  *)
(* stands, when that job has the id of the work the worker holds.            *)
stratum_set_extranonce2 ==
    /\ dialect # "progpow" /\ pc \in {"up", "publish"}
    /\ g_work.job.id # 0 /\ g_work.job.id = job.id
    /\ header' = [version |-> job.version, merkle |-> job.merkle, of |-> job.id,
                  clean |-> ~spoiled]
    /\ UNCHANGED <<config, opt_extranonce, pc, conn, conns, url, inbox, sctx,
                   session, g_work, pool>>

(* The workio thread sends a share on whatever connection is open.           *)
SubmitShare ==
    /\ conn # 0 /\ g_work.job.id # 0 /\ submits < MaxSubmits
    /\ submits' = submits + 1
    /\ asked' = Append(asked, 4 + submits)
    /\ UNCHANGED <<config, opt_extranonce, pc, conn, conns, url, inbox, sctx,
                   session, g_work, header, granted, pool_diff, pool_target,
                   pushes>>

(* The pool answers in the order it was asked, and takes no share of a miner *)
(* it has not authorized.                                                    *)
PoolAnswers(ok) ==
    /\ conn # 0 /\ asked # <<>>
    /\ ok /\ Head(asked) >= 2 => (1 \in granted /\ (Head(asked) > 2 => 2 \in granted))
    /\ inbox' = Append(inbox, Reply(Head(asked), ok))
    /\ asked' = Tail(asked)
    /\ granted' = IF ok THEN granted \cup {Head(asked)} ELSE granted
    /\ UNCHANGED <<config, opt_extranonce, pc, conn, conns, url, sctx, session,
                   g_work, header, pool_diff, pool_target, pushes, submits>>

(* What a pool pushes. A notify is well formed, of the wrong shape or, with  *)
(* a coinbase, of a bad merkle branch; with no coinbase it may leave out the *)
(* target. The pool holds the miner to what it last said on this connection. *)
Pushable ==
    LET n == pushes + 1
    IN  {Line("notify", 0, "early", n)}
        \cup (IF dialect = "progpow" THEN {Line("notify", v, "good", n) : v \in {0, 7}}
              ELSE {Line("notify", 0, f, n) : f \in {"good", "late"}})
        \cup {Line(k, v, "good", n) :
                 k \in {"set_difficulty", "set_target"}, v \in {0, 5}}
        \cup {Line("set_extranonce", v, "good", n) : v \in {0, conn * 10 + n}}
        \cup {Line(k, v, "good", n) : k \in {"reconnect", "query"}, v \in {0, 1}}
        \cup {Garbage}

PoolPushes ==
    /\ conn # 0 /\ pushes < MaxPushes
    /\ EagerPool \/ 1 \in granted
    /\ \E l \in Pushable :
        /\ inbox' = Append(inbox, l)
        /\ pool_diff' = IF l.v # 0 /\ (l.k = "set_difficulty" \/
                            (l.k = "set_target" /\ dialect = "bitcoin"))
                        THEN l.v ELSE pool_diff
        /\ pool_target' = IF l.v # 0 /\ l.k = "set_target" THEN l.v ELSE pool_target
    /\ pushes' = pushes + 1
    /\ UNCHANGED <<config, opt_extranonce, pc, conn, conns, url, sctx, session,
                   g_work, header, asked, granted, submits>>

Finished == pc = "dial" /\ conns = MaxConns /\ UNCHANGED vars

Thread ==
    \/ stratum_connect \/ SendSubscribe \/ ReadSubscribe \/ ReadAuthorize
    \/ ReadExtranonce \/ ExtranonceTimesOut \/ HandshakeFails \/ HandshakeFailed
    \/ Established \/ ReadLine \/ Publish \/ stratum_suggest_difficulty \/ Reset

Next ==
    \/ Thread \/ stratum_set_extranonce2 \/ SubmitShare
    \/ \E ok \in BOOLEAN : PoolAnswers(ok)
    \/ PoolPushes \/ Finished

(* The thread goes on: every wait of the handshake has a time limit.         *)
Spec == Init /\ [][Next]_vars /\ WF_vars(Thread)

----------------------------------------------------------------------------
(* Properties.                                                              *)

(* Work is published at the difficulty the pool holds it to: the one it last *)
(* set on that connection before the notify, 1 when it set none, and a       *)
(* difficulty set after the notify waits for the next job. A ProgPoW job is  *)
(* published with its own target, or with the one the pool last set on that  *)
(* connection when it carries none.                                          *)
TargetInForce ==
    /\ dialect = "bitcoin" => g_work.job.diff = g_work.job.due_diff
    /\ (dialect = "progpow" /\ g_work.job.due_target # 0)
            => g_work.job.target = g_work.job.due_target

(* The header a worker rolls is made of one notify, unless a notify was      *)
(* refused after it had begun to replace the job.                            *)
HeaderOfOneJobUnlessRefused ==
    header.clean => header.version = header.of /\ header.merkle = header.of

(* Every handshake ends: in a session, or in a dropped connection.           *)
HandshakeEnds == pc \in Handshake ~> pc \in {"up", "dial", "publish"}
=============================================================================

--------------------------- MODULE StratumProofs ---------------------------
(***************************************************************************)
(* The protocol client, for every number of connections, pushed methods    *)
(* and shares: work is published at the difficulty or target the pool      *)
(* holds it to, and a rolled header is made of one notify.                 *)
(***************************************************************************)
EXTENDS Stratum, TLAPS

Opening == {"connected", "subscribe", "retry"}
Reading == {"authorize", "extranonce", "established", "up", "publish"}

Form   == {"good", "bad", "early", "late"}
AnyLine == {l \in [k : Methods \cup {"reply", "garbage"}, v : Nat, form : Form,
                    n : Nat, diff : Nat, target : Nat, conn : Nat] :
               l.k = "notify" => l.form # "bad"}
AnyJob == [id : Nat, version : Nat, merkle : Nat, coinbase : Nat, diff : Nat,
           target : Nat, have_target : BOOLEAN, of : Nat, due_diff : Nat,
           due_target : Nat]

TypeOK ==
    /\ dialect \in {"bitcoin", "progpow"} /\ redirect \in BOOLEAN
    /\ opt_extranonce \in BOOLEAN
    /\ pc \in {"dial", "failed"} \cup Opening \cup Reading
    /\ conn \in Nat /\ conns \in Nat /\ url \in {"own", "moved"}
    /\ inbox \in Seq(AnyLine)
    /\ job \in AnyJob /\ new_job \in BOOLEAN /\ spoiled \in BOOLEAN
    /\ next_diff \in Nat /\ next_target \in Nat /\ xnonce \in Nat
    /\ session \in Nat /\ g_work \in [job : AnyJob, session : Nat, on : Nat]
    /\ header \in [version : Nat, merkle : Nat, of : Nat, clean : BOOLEAN]
    /\ asked \in Seq(Nat) /\ granted \in SUBSET Nat
    /\ pool_diff \in Nat /\ pool_target \in Nat
    /\ pushes \in Nat /\ submits \in Nat

(* The job in hand is of one notify while none was refused half way. *)
JobOfOneNotify == ~spoiled => job.version = job.id /\ job.merkle = job.id

----------------------------------------------------------------------------
(* What a line changes for the lines after it. *)
DiffAfter(l) ==
    IF l.v # 0 /\ (l.k = "set_difficulty" \/ (l.k = "set_target" /\ dialect = "bitcoin"))
    THEN l.v ELSE l.diff
TargetAfter(l) == IF l.v # 0 /\ l.k = "set_target" THEN l.v ELSE l.target

(* Every unread line was sent under what the one before it left in force. *)
Chain ==
    /\ \A i \in 1 .. Len(inbox) - 1 : /\ inbox[i + 1].diff = DiffAfter(inbox[i])
                                      /\ inbox[i + 1].target = TargetAfter(inbox[i])
    /\ inbox # <<>> => /\ pool_diff = DiffAfter(inbox[Len(inbox)])
                       /\ pool_target = TargetAfter(inbox[Len(inbox)])

(* What was in force when the next line to be read was sent. *)
FirstDiff   == IF inbox = <<>> THEN pool_diff ELSE inbox[1].diff
FirstTarget == IF inbox = <<>> THEN pool_target ELSE inbox[1].target

(* A subscribe the pool has granted, and nothing pushed before it. *)
Grants(l) == l.k = "reply" /\ l.form = "good" /\ l.v = 1
GrantComesFirst ==
    pc \in Opening =>
        /\ \A i \in 1 .. Len(inbox) :
              inbox[i].k # "reply" => \E j \in 1 .. i - 1 : Grants(inbox[j])
        /\ 1 \in granted => \E j \in 1 .. Len(inbox) : Grants(inbox[j])

(* The thread is where the pool thinks it is. *)
InStep ==
    conn # 0 =>
        /\ pc \in Opening => FirstDiff = 1 /\ FirstTarget = 0
        /\ pc \in Reading => /\ FirstDiff = next_diff
                             /\ dialect = "progpow" => FirstTarget \in {0, next_target}

InForce(j) ==
    /\ dialect = "bitcoin" => j.diff = j.due_diff
    /\ (dialect = "progpow" /\ j.due_target # 0) => j.target = j.due_target

ForceInv ==
    /\ conn = 0 => inbox = <<>>
    /\ Chain /\ GrantComesFirst /\ InStep
    /\ InForce(job) /\ InForce(g_work.job)

----------------------------------------------------------------------------
(* What a handler does.                                                     *)

(* stratum_handle_method writes values of their types, and drops the        *)
(* connection or leaves it.                                                 *)
LEMMA HandlerTypes ==
    ASSUME TypeOK, NEW l \in AnyLine, handle_method(l)
    PROVE  /\ job' \in AnyJob /\ new_job' \in BOOLEAN /\ spoiled' \in BOOLEAN
           /\ next_diff' \in Nat /\ next_target' \in Nat /\ xnonce' \in Nat
           /\ conn' \in {conn, 0} /\ url' \in {"own", "moved"}
<1>1. /\ l.k \in Methods \cup {"reply", "garbage"} /\ l.v \in Nat /\ l.form \in Form
      /\ l.n \in Nat /\ l.diff \in Nat /\ l.target \in Nat /\ l.conn \in Nat
      /\ l.k = "notify" => l.form # "bad"
  BY DEF AnyLine
<1>2. CASE l.k = "notify"
  <2>1. stratum_notify(l)
    BY <1>2 DEF handle_method
  <2>2. UNCHANGED <<next_diff, next_target, xnonce, conn, url>>
    BY <2>1 DEF stratum_notify
  <2>3. CASE dialect = "progpow"
    <3>1. stratum_progpow_notify(l)
      BY <2>1, <2>3 DEF stratum_notify
    <3>2. CASE l.form = "early"
      BY <2>2, <3>1, <3>2 DEF stratum_progpow_notify, TypeOK
    <3>3. CASE l.form # "early"
      <4> DEFINE have == l.v # 0 \/ next_target # 0
                 t == IF l.v # 0 THEN l.v
                      ELSE IF next_target # 0 THEN next_target ELSE job.target
                 due == IF l.v # 0 THEN l.v ELSE l.target
      <4>1. t \in Nat /\ due \in Nat /\ have \in BOOLEAN
        BY <1>1 DEF TypeOK, AnyJob
      <4>2. /\ job' = [id |-> l.n, version |-> l.n, merkle |-> l.n,
                       coinbase |-> xnonce, diff |-> next_diff, target |-> t,
                       have_target |-> have, of |-> l.conn, due_diff |-> l.diff,
                       due_target |-> due]
            /\ new_job' = (new_job \/ have) /\ spoiled' = ~have
        BY <3>1, <3>3 DEF stratum_progpow_notify
      <4> HIDE DEF t, due, have
      <4>3. job' \in AnyJob
        BY <1>1, <4>1, <4>2 DEF TypeOK, AnyJob
      <4>4. new_job' \in BOOLEAN /\ spoiled' \in BOOLEAN
        BY <4>1, <4>2 DEF TypeOK
      <4> QED
        BY <2>2, <4>3, <4>4 DEF TypeOK
    <3> QED
      BY <3>2, <3>3
  <2>4. CASE dialect = "bitcoin"
    <3>1. stratum_bitcoin_notify(l) /\ l.form \in {"good", "early", "late"}
      BY <1>1, <1>2, <2>1, <2>4 DEF stratum_notify, Form
    <3>2. CASE l.form = "early"
      BY <2>2, <3>1, <3>2 DEF stratum_bitcoin_notify, TypeOK
    <3>3. CASE l.form = "late"
      <4>1. job' = [job EXCEPT !.version = l.n, !.merkle = 0] /\ spoiled' = TRUE
            /\ new_job' = new_job
        BY <3>1, <3>3 DEF stratum_bitcoin_notify
      <4>2. job' \in AnyJob
        BY <1>1, <4>1 DEF TypeOK, AnyJob
      <4> QED
        BY <2>2, <4>1, <4>2 DEF TypeOK
    <3>4. CASE l.form = "good"
      <4>1. /\ job' = [id |-> l.n, version |-> l.n, merkle |-> l.n,
                       coinbase |-> xnonce, diff |-> next_diff, target |-> 0,
                       have_target |-> FALSE, of |-> l.conn, due_diff |-> l.diff,
                       due_target |-> 0]
            /\ new_job' = TRUE /\ spoiled' = FALSE
        BY <3>1, <3>4 DEF stratum_bitcoin_notify
      <4>2. job' \in AnyJob
        BY <1>1, <4>1 DEF TypeOK, AnyJob
      <4> QED
        BY <2>2, <4>1, <4>2 DEF TypeOK
    <3> QED
      BY <3>1, <3>2, <3>3, <3>4
  <2> QED
    BY <2>3, <2>4 DEF TypeOK
<1>3. CASE l.k # "notify"
  <2>1. \/ stratum_set_difficulty(l) \/ stratum_set_target(l)
        \/ stratum_parse_extranonce(l) \/ stratum_reconnect(l) \/ stratum_answer(l)
    BY <1>3 DEF handle_method
  <2> QED
    BY <1>1, <2>1 DEF TypeOK, stratum_set_difficulty, stratum_set_target,
       stratum_parse_extranonce, stratum_reconnect, stratum_answer, sctx
<1> QED
  BY <1>2, <1>3

(* The difficulty and the target a line sets are in force after it, and only *)
(* those lines set them.                                                     *)
LEMMA HandlerSets ==
    ASSUME TypeOK, NEW l \in AnyLine, handle_method(l)
    PROVE  /\ l.diff = next_diff => next_diff' = DiffAfter(l)
           /\ dialect = "progpow" /\ l.target \in {0, next_target}
                 => TargetAfter(l) \in {0, next_target'}
<1>1. CASE l.k \in {"set_difficulty", "set_target"}
  <2>1. \/ stratum_set_difficulty(l) /\ l.k = "set_difficulty"
        \/ stratum_set_target(l) /\ l.k = "set_target"
    BY <1>1 DEF handle_method
  <2> QED
    BY <2>1 DEF TypeOK, stratum_set_difficulty, stratum_set_target, DiffAfter, TargetAfter
<1>2. CASE l.k \notin {"set_difficulty", "set_target"}
  <2>1. \/ stratum_notify(l) \/ stratum_parse_extranonce(l)
        \/ stratum_reconnect(l) \/ stratum_answer(l)
    BY <1>2 DEF handle_method
  <2>2. UNCHANGED <<next_diff, next_target>>
    BY <2>1 DEF stratum_notify, stratum_parse_extranonce, stratum_reconnect,
       stratum_answer, sctx
  <2> QED
    BY <1>2, <2>2 DEF DiffAfter, TargetAfter
<1> QED
  BY <1>1, <1>2

(* A notify replaces the job whole, leaves it alone, or marks it spoiled. *)
LEMMA HandlerJob ==
    ASSUME TypeOK, NEW l \in AnyLine, handle_method(l)
    PROVE  /\ JobOfOneNotify => JobOfOneNotify'
           /\ /\ InForce(job) /\ l.diff = next_diff /\ dialect' = dialect
              /\ dialect = "progpow" => l.target \in {0, next_target}
              => InForce(job)'
<1>1. CASE l.k # "notify"
  <2>1. \/ stratum_set_difficulty(l) \/ stratum_set_target(l)
        \/ stratum_parse_extranonce(l) \/ stratum_reconnect(l) \/ stratum_answer(l)
    BY <1>1 DEF handle_method
  <2>2. UNCHANGED <<job, spoiled>>
    BY <2>1 DEF stratum_set_difficulty, stratum_set_target, stratum_parse_extranonce,
       stratum_reconnect, stratum_answer, sctx
  <2> QED
    BY <2>2 DEF JobOfOneNotify, InForce
<1>2. CASE l.k = "notify"
  <2>0. l.form \in {"good", "early", "late"} /\ l.v \in Nat
    BY <1>2 DEF AnyLine, Form
  <2>1. stratum_notify(l)
    BY <1>2 DEF handle_method
  <2>2. CASE UNCHANGED <<job, spoiled>>
    BY <2>2 DEF JobOfOneNotify, InForce
  <2>3. CASE dialect = "progpow" /\ l.form # "early"
    <3> DEFINE have == l.v # 0 \/ next_target # 0
    <3>1. /\ job'.id = l.n /\ job'.version = l.n /\ job'.merkle = l.n
          /\ job'.target = (IF l.v # 0 THEN l.v
                            ELSE IF next_target # 0 THEN next_target ELSE job.target)
          /\ job'.due_target = (IF l.v # 0 THEN l.v ELSE l.target)
      BY <2>1, <2>3 DEF stratum_notify, stratum_progpow_notify
    <3>2. JobOfOneNotify'
      BY <3>1 DEF JobOfOneNotify
    <3>3. ASSUME l.target \in {0, next_target}, dialect' = dialect
          PROVE  InForce(job)'
      BY <2>3, <3>1, <3>3 DEF InForce
    <3> QED
      BY <2>3, <3>2, <3>3
  <2>4. CASE dialect = "bitcoin" /\ l.form = "late"
    <3>1. job' = [job EXCEPT !.version = l.n, !.merkle = 0] /\ spoiled' = TRUE
      BY <2>1, <2>4 DEF stratum_notify, stratum_bitcoin_notify
    <3>2. job'.diff = job.diff /\ job'.due_diff = job.due_diff
      BY <3>1 DEF TypeOK, AnyJob
    <3> QED
      BY <2>4, <3>1, <3>2 DEF JobOfOneNotify, InForce
  <2>5. CASE dialect = "bitcoin" /\ l.form = "good"
    <3>1. /\ job'.id = l.n /\ job'.version = l.n /\ job'.merkle = l.n
          /\ job'.diff = next_diff /\ job'.due_diff = l.diff
      BY <2>1, <2>5 DEF stratum_notify, stratum_bitcoin_notify
    <3> QED
      BY <2>5, <3>1 DEF JobOfOneNotify, InForce
  <2>6. l.form = "early" => UNCHANGED <<job, spoiled>>
    BY <2>1 DEF stratum_notify, stratum_progpow_notify, stratum_bitcoin_notify
  <2> QED
    BY <2>0, <2>2, <2>3, <2>4, <2>5, <2>6 DEF TypeOK
<1> QED
  BY <1>1, <1>2

----------------------------------------------------------------------------
(* The inbox.                                                               *)

(* Reading a line: the next one was sent under what this one left. *)
LEMMA ReadOne ==
    ASSUME inbox \in Seq(AnyLine), inbox # <<>>, inbox' = Tail(inbox), Chain,
           UNCHANGED <<pool_diff, pool_target, dialect>>
    PROVE  /\ Chain' /\ FirstDiff' = DiffAfter(inbox[1])
           /\ FirstTarget' = TargetAfter(inbox[1])
<1>1. /\ Len(inbox) \in Nat \ {0} /\ Len(inbox') = Len(inbox) - 1
      /\ \A i \in 1 .. Len(inbox') : inbox'[i] = inbox[i + 1]
      /\ inbox' \in Seq(AnyLine)
  OBVIOUS
<1>3. CASE Len(inbox) = 1
  <2>1. inbox' = <<>> /\ Len(inbox') = 0
    BY <1>1, <1>3
  <2>2. FirstDiff' = DiffAfter(inbox[1]) /\ FirstTarget' = TargetAfter(inbox[1])
    BY <1>3, <2>1 DEF Chain, FirstDiff, FirstTarget
  <2>3. 1 .. Len(inbox') - 1 = {}
    BY <2>1
  <2>4. Chain'
    BY <2>1, <2>3 DEF Chain
  <2> QED
    BY <2>2, <2>4
<1>4. CASE Len(inbox) # 1
  <2>1. /\ inbox' # <<>> /\ 1 \in 1 .. Len(inbox') /\ 1 \in 1 .. Len(inbox) - 1
        /\ inbox'[1] = inbox[1 + 1]
    <3>1. Len(inbox') # 0 /\ 1 \in 1 .. Len(inbox') /\ 1 \in 1 .. Len(inbox) - 1
      BY <1>1, <1>4
    <3>2. inbox' # <<>>
      BY <1>1, <3>1
    <3> QED
      BY <1>1, <3>1, <3>2
  <2>2. FirstDiff' = DiffAfter(inbox[1]) /\ FirstTarget' = TargetAfter(inbox[1])
    BY <2>1 DEF Chain, FirstDiff, FirstTarget
  <2>3. inbox'[Len(inbox')] = inbox[Len(inbox)]
    BY <1>1, <2>1
  <2>4. /\ pool_diff' = DiffAfter(inbox'[Len(inbox')])
        /\ pool_target' = TargetAfter(inbox'[Len(inbox')])
    BY <2>3 DEF Chain
  <2>5. ASSUME NEW i \in 1 .. Len(inbox') - 1
        PROVE  /\ inbox'[i + 1].diff = DiffAfter(inbox'[i])
               /\ inbox'[i + 1].target = TargetAfter(inbox'[i])
    <3>1. /\ inbox'[i] = inbox[i + 1] /\ inbox'[i + 1] = inbox[(i + 1) + 1]
          /\ i + 1 \in 1 .. Len(inbox) - 1
      BY <1>1
    <3> QED
      BY <3>1 DEF Chain
  <2> QED
    BY <2>2, <2>4, <2>5 DEF Chain, DiffAfter, TargetAfter
<1> QED
  BY <1>3, <1>4

(* A line that arrives was sent under what the last one left. *)
LEMMA ArriveOne ==
    ASSUME inbox \in Seq(AnyLine), NEW l \in AnyLine, inbox' = Append(inbox, l), Chain,
           l.diff = pool_diff, l.target = pool_target, dialect' = dialect,
           pool_diff' = DiffAfter(l), pool_target' = TargetAfter(l)
    PROVE  Chain' /\ FirstDiff' = FirstDiff /\ FirstTarget' = FirstTarget
<1>1. /\ Len(inbox) \in Nat /\ Len(inbox') = Len(inbox) + 1 /\ inbox' # <<>>
      /\ inbox'[Len(inbox) + 1] = l
      /\ \A i \in 1 .. Len(inbox) : inbox'[i] = inbox[i]
  OBVIOUS
<1>2. FirstDiff' = FirstDiff /\ FirstTarget' = FirstTarget
  <2>1. CASE inbox = <<>>
    <3>1. inbox'[1] = l
      BY <1>1, <2>1
    <3> QED
      BY <1>1, <2>1, <3>1 DEF FirstDiff, FirstTarget
  <2>2. CASE inbox # <<>>
    <3>1. inbox'[1] = inbox[1]
      BY <1>1, <2>2
    <3> QED
      BY <1>1, <2>2, <3>1 DEF FirstDiff, FirstTarget
  <2> QED
    BY <2>1, <2>2
<1>3. ASSUME NEW i \in 1 .. Len(inbox') - 1
      PROVE  /\ inbox'[i + 1].diff = DiffAfter(inbox'[i])
             /\ inbox'[i + 1].target = TargetAfter(inbox'[i])
  <2>1. i \in 1 .. Len(inbox) /\ inbox'[i] = inbox[i]
    BY <1>1
  <2>2. CASE i = Len(inbox)
    <3>1. inbox # <<>> /\ inbox'[i + 1] = l
      BY <1>1, <2>1, <2>2
    <3> QED
      BY <2>1, <2>2, <3>1 DEF Chain
  <2>3. CASE i # Len(inbox)
    <3>1. i \in 1 .. Len(inbox) - 1 /\ inbox'[i + 1] = inbox[i + 1]
      BY <1>1, <2>1, <2>3
    <3> QED
      BY <2>1, <3>1 DEF Chain
  <2> QED
    BY <2>2, <2>3
<1> QED
  BY <1>1, <1>2, <1>3 DEF Chain, DiffAfter, TargetAfter

----------------------------------------------------------------------------
(* The actions, grouped by what they do to the inbox.                       *)

ReadAndHandle == ReadAuthorize \/ ReadExtranonce \/ ReadLine
Quiet == \/ SendSubscribe \/ ExtranonceTimesOut \/ HandshakeFails \/ Established
         \/ Publish \/ stratum_suggest_difficulty \/ stratum_set_extranonce2
         \/ SubmitShare \/ Finished
DropOrDial == stratum_connect \/ HandshakeFailed \/ Reset

(* The three places that read a line and hand it to a handler. *)
LEMMA HandlerReads ==
    ASSUME TypeOK, ReadAndHandle
    PROVE  /\ inbox # <<>> /\ inbox[1] \in AnyLine /\ pc \in Reading
           /\ handle_method(inbox[1])
           /\ inbox' = IF conn' = 0 THEN <<>> ELSE Tail(inbox)
           /\ pc' \in Reading \cup {"failed"} /\ asked' \in Seq(Nat)
           /\ UNCHANGED <<dialect, redirect, opt_extranonce, conns, session, g_work,
                          header, granted, pool_diff, pool_target, pushes, submits>>
<1>1. inbox \in Seq(AnyLine) /\ asked \in Seq(Nat)
  BY DEF TypeOK
<1>2. CASE ReadAuthorize
  <2>1. inbox # <<>> /\ pc = "authorize" /\ handle_method(Head(inbox))
        /\ inbox' = IF conn' = 0 THEN <<>> ELSE Tail(inbox)
    BY <1>2 DEF ReadAuthorize, Unread
  <2>2. pc' \in {"authorize", "extranonce", "established", "failed"}
        /\ asked' \in {asked, Append(asked, 3)}
    BY <1>2, <2>1 DEF ReadAuthorize
  <2>3. UNCHANGED <<dialect, redirect, opt_extranonce, conns, session, g_work, header,
                    granted, pool_diff, pool_target, pushes, submits>>
    BY <1>2 DEF ReadAuthorize, config
  <2>4. inbox[1] \in AnyLine /\ Head(inbox) = inbox[1]
    BY <1>1, <2>1
  <2>5. asked' \in Seq(Nat)
    <3>1. Append(asked, 3) \in Seq(Nat)
      BY <1>1
    <3> QED
      BY <1>1, <2>2, <3>1
  <2> QED
    BY <2>1, <2>2, <2>3, <2>4, <2>5 DEF Reading
<1>3. CASE ReadExtranonce
  <2>1. /\ inbox # <<>> /\ pc = "extranonce" /\ pc' = "established"
        /\ \/ Head(inbox).k = "reply" /\ UNCHANGED <<sctx, conn, url>>
           \/ handle_method(Head(inbox))
        /\ inbox' = IF conn' = 0 THEN <<>> ELSE Tail(inbox)
    BY <1>3 DEF ReadExtranonce, Unread
  <2>2. handle_method(Head(inbox))
    BY <2>1 DEF handle_method, stratum_answer, sctx
  <2>3. UNCHANGED <<dialect, redirect, opt_extranonce, conns, session, g_work, header,
                    asked, granted, pool_diff, pool_target, pushes, submits>>
    BY <1>3 DEF ReadExtranonce, config, pool
  <2>4. inbox[1] \in AnyLine /\ Head(inbox) = inbox[1]
    BY <1>1, <2>1
  <2> QED
    BY <1>1, <2>1, <2>2, <2>3, <2>4 DEF Reading
<1>4. CASE ReadLine
  <2>1. /\ inbox # <<>> /\ pc = "up" /\ pc' = "publish" /\ handle_method(Head(inbox))
        /\ inbox' = IF conn' = 0 THEN <<>> ELSE Tail(inbox)
    BY <1>4 DEF ReadLine, Unread
  <2>2. UNCHANGED <<dialect, redirect, opt_extranonce, conns, session, g_work, header,
                    asked, granted, pool_diff, pool_target, pushes, submits>>
    BY <1>4 DEF ReadLine, config, pool
  <2>3. inbox[1] \in AnyLine /\ Head(inbox) = inbox[1]
    BY <1>1, <2>1
  <2> QED
    BY <1>1, <2>1, <2>2, <2>3 DEF Reading
<1> QED
  BY <1>2, <1>3, <1>4 DEF ReadAndHandle

(* What the pool pushes is a line sent under what it holds the connection to. *)
LEMMA PushableLines ==
    ASSUME TypeOK, NEW l \in Pushable
    PROVE  l \in AnyLine /\ l.diff = pool_diff /\ l.target = pool_target /\ l.k # "reply"
<1> USE DEF TypeOK, Line, AnyLine, Form, Methods
<1>1. PICK k \in Methods \cup {"garbage"}, v \in Nat, form \in Form, n \in Nat :
          l = Line(k, v, form, n) /\ (k = "notify" => form # "bad")
  <2> HIDE DEF Line, AnyLine, Form, Methods
  <2>1. pushes + 1 \in Nat /\ conn * 10 + (pushes + 1) \in Nat /\ 0 \in Nat
    OBVIOUS
  <2>2. CASE l \in {Line("notify", 0, f, pushes + 1) : f \in {"early", "good", "late"}}
    BY <2>1, <2>2 DEF Methods, Form
  <2>3. CASE l \in {Line("notify", v, "good", pushes + 1) : v \in {0, 7}}
    BY <2>1, <2>3 DEF Methods, Form
  <2>4. CASE l \in {Line(k, v, "good", pushes + 1) :
                        k \in {"set_difficulty", "set_target"}, v \in {0, 5}}
    <3>1. PICK k \in {"set_difficulty", "set_target"}, v \in {0, 5} :
              l = Line(k, v, "good", pushes + 1)
      BY <2>4
    <3>2. k \in Methods /\ v \in Nat /\ k # "notify" /\ "good" \in Form
      BY DEF Methods, Form
    <3> QED
      BY <2>1, <3>1, <3>2
  <2>5. CASE l \in {Line("set_extranonce", v, "good", pushes + 1) :
                        v \in {0, conn * 10 + (pushes + 1)}}
    BY <2>1, <2>5 DEF Methods, Form
  <2>6. CASE l \in {Line(k, v, "good", pushes + 1) :
                        k \in {"reconnect", "query"}, v \in {0, 1}}
    <3>1. PICK k \in {"reconnect", "query"}, v \in {0, 1} :
              l = Line(k, v, "good", pushes + 1)
      BY <2>6
    <3>2. k \in Methods /\ v \in Nat /\ k # "notify" /\ "good" \in Form
      BY DEF Methods, Form
    <3> QED
      BY <2>1, <3>1, <3>2
  <2>7. CASE l = Garbage
    BY <2>1, <2>7 DEF Garbage, Methods, Form
  <2> QED
    BY <2>2, <2>3, <2>4, <2>5, <2>6, <2>7 DEF Pushable
<1> QED
  BY <1>1

(* Types are kept by every step. *)
LEMMA TypeStep ==
    ASSUME TypeOK, [Next]_vars
    PROVE  TypeOK'
<1>1. CASE ReadAndHandle
  <2>1. /\ inbox # <<>> /\ inbox[1] \in AnyLine /\ handle_method(inbox[1])
        /\ inbox' = IF conn' = 0 THEN <<>> ELSE Tail(inbox)
        /\ pc' \in Reading \cup {"failed"} /\ asked' \in Seq(Nat)
        /\ UNCHANGED <<dialect, redirect, opt_extranonce, conns, session, g_work,
                       header, granted, pool_diff, pool_target, pushes, submits>>
    BY <1>1, HandlerReads
  <2>2. inbox' \in Seq(AnyLine)
    BY <2>1 DEF TypeOK
  <2>3. /\ job' \in AnyJob /\ new_job' \in BOOLEAN /\ spoiled' \in BOOLEAN
        /\ next_diff' \in Nat /\ next_target' \in Nat /\ xnonce' \in Nat
        /\ conn' \in {conn, 0} /\ url' \in {"own", "moved"}
    BY <2>1, HandlerTypes
  <2> QED
    BY <2>1, <2>2, <2>3 DEF TypeOK
<1>2. CASE ReadSubscribe
  <2>1. inbox' = Tail(inbox) /\ inbox # <<>>
    BY <1>2 DEF ReadSubscribe, Unread
  <2>2. inbox' \in Seq(AnyLine)
    BY <2>1 DEF TypeOK
  <2>3. /\ next_diff' \in {1, next_diff} /\ xnonce' \in {conn * 10, xnonce}
        /\ asked' \in {asked, Append(asked, 1), Append(asked, 2)}
        /\ pc' \in {"authorize", "retry", "failed"}
    BY <1>2 DEF ReadSubscribe
  <2>4. next_diff' \in Nat /\ xnonce' \in Nat /\ asked' \in Seq(Nat)
    <3>1. next_diff \in Nat /\ conn * 10 \in Nat /\ xnonce \in Nat
      BY DEF TypeOK
    <3>2. Append(asked, 1) \in Seq(Nat) /\ Append(asked, 2) \in Seq(Nat) /\ asked \in Seq(Nat)
      BY DEF TypeOK
    <3>3. asked' = asked \/ asked' = Append(asked, 1) \/ asked' = Append(asked, 2)
      BY <2>3
    <3>4. asked' \in Seq(Nat)
      BY <3>2, <3>3, Zenon
    <3>5. xnonce' \in Nat /\ next_diff' \in Nat
      BY <2>3, <3>1
    <3> QED
      BY <3>4, <3>5
  <2>5. UNCHANGED <<dialect, redirect, opt_extranonce, conn, conns, url, job, new_job,
                    next_target, spoiled, session, g_work, header, granted, pool_diff,
                    pool_target, pushes, submits>>
    BY <1>2 DEF ReadSubscribe, config
  <2> QED
    BY <2>2, <2>3, <2>4, <2>5 DEF TypeOK, Opening, Reading
<1>3. CASE DropOrDial
  <2>1. CASE stratum_connect
    BY <2>1 DEF stratum_connect, TypeOK, config, sctx, Opening
  <2>2. CASE HandshakeFailed
    BY <2>2 DEF HandshakeFailed, Disconnect, TypeOK, config, sctx
  <2>3. CASE Reset
    BY <2>3 DEF Reset, Disconnect, TypeOK, config, sctx
  <2> QED
    BY <1>3, <2>1, <2>2, <2>3 DEF DropOrDial
<1>4. CASE Quiet
  <2>1. UNCHANGED <<dialect, redirect, conn, conns, url, inbox, job, next_diff,
                    next_target, xnonce, spoiled, granted, pool_diff, pool_target, pushes>>
    BY <1>4 DEF Quiet, SendSubscribe, ExtranonceTimesOut, HandshakeFails, Established,
       Publish, stratum_suggest_difficulty, stratum_set_extranonce2, SubmitShare,
       Finished, config, sctx, pool, vars
  <2>2. opt_extranonce' \in BOOLEAN /\ new_job' \in BOOLEAN
    BY <1>4 DEF Quiet, SendSubscribe, ExtranonceTimesOut, HandshakeFails, Established,
       Publish, stratum_suggest_difficulty, stratum_set_extranonce2, SubmitShare,
       Finished, stratum_gen_work, sctx, vars, TypeOK
  <2>3. pc' \in {"dial", "failed"} \cup Opening \cup Reading
    BY <1>4 DEF Quiet, SendSubscribe, ExtranonceTimesOut, HandshakeFails, Established,
       Publish, stratum_suggest_difficulty, stratum_set_extranonce2, SubmitShare,
       Finished, vars, TypeOK, Opening, Reading
  <2>4. session' \in Nat /\ g_work' \in [job : AnyJob, session : Nat, on : Nat]
    <3>1. CASE Established \/ Publish
      BY <3>1 DEF Established, Publish, stratum_gen_work, TypeOK
    <3>2. CASE ~ (Established \/ Publish)
      BY <1>4, <3>2 DEF Quiet, SendSubscribe, ExtranonceTimesOut, HandshakeFails,
         stratum_suggest_difficulty, stratum_set_extranonce2, SubmitShare, Finished,
         vars, TypeOK
    <3> QED
      BY <3>1, <3>2
  <2>5. header' \in [version : Nat, merkle : Nat, of : Nat, clean : BOOLEAN]
    <3>1. CASE stratum_set_extranonce2
      BY <3>1 DEF stratum_set_extranonce2, TypeOK, AnyJob
    <3>2. CASE ~ stratum_set_extranonce2
      BY <1>4, <3>2 DEF Quiet, SendSubscribe, ExtranonceTimesOut, HandshakeFails,
         Established, Publish, stratum_suggest_difficulty, SubmitShare, Finished, vars,
         TypeOK
    <3> QED
      BY <3>1, <3>2
  <2>6. asked' \in Seq(Nat) /\ submits' \in Nat
    <3>1. CASE SendSubscribe \/ stratum_suggest_difficulty
      <4>1. asked' = Append(asked, 1) /\ submits' = submits
        BY <3>1 DEF SendSubscribe, stratum_suggest_difficulty
      <4> QED
        BY <4>1 DEF TypeOK
    <3>2. CASE SubmitShare
      <4>1. 4 + submits \in Nat /\ submits + 1 \in Nat /\ asked \in Seq(Nat)
        BY DEF TypeOK
      <4>2. Append(asked, 4 + submits) \in Seq(Nat)
        BY <4>1
      <4> QED
        BY <3>2, <4>1, <4>2 DEF SubmitShare
    <3>3. CASE ~ (SendSubscribe \/ stratum_suggest_difficulty \/ SubmitShare)
      <4>1. UNCHANGED <<asked, submits>>
        BY <1>4, <3>3 DEF Quiet, ExtranonceTimesOut, HandshakeFails, Established, Publish,
           stratum_set_extranonce2, Finished, vars, pool
      <4> QED
        BY <4>1 DEF TypeOK
    <3> QED
      BY <3>1, <3>2, <3>3
  <2> QED
    BY <2>1, <2>2, <2>3, <2>4, <2>5, <2>6 DEF TypeOK
<1>5. ASSUME NEW ok \in BOOLEAN, PoolAnswers(ok)
      PROVE  TypeOK'
  <2>1. asked \in Seq(Nat) /\ asked # <<>> /\ inbox \in Seq(AnyLine)
    BY <1>5 DEF PoolAnswers, TypeOK
  <2>2. Head(asked) \in Nat /\ asked' \in Seq(Nat)
    BY <1>5, <2>1 DEF PoolAnswers
  <2>3. Reply(Head(asked), ok) \in AnyLine
    BY <2>2 DEF Reply, Line, AnyLine, Form, TypeOK
  <2>4. inbox' \in Seq(AnyLine)
    BY <1>5, <2>1, <2>3 DEF PoolAnswers
  <2>5. granted' \in SUBSET Nat
    BY <1>5, <2>2 DEF PoolAnswers, TypeOK
  <2> QED
    BY <1>5, <2>2, <2>4, <2>5 DEF PoolAnswers, TypeOK, config, sctx
<1>6. CASE PoolPushes
  <2>1. PICK l \in Pushable :
          /\ inbox' = Append(inbox, l)
          /\ pool_diff' = IF l.v # 0 /\ (l.k = "set_difficulty" \/
                              (l.k = "set_target" /\ dialect = "bitcoin"))
                          THEN l.v ELSE pool_diff
          /\ pool_target' = IF l.v # 0 /\ l.k = "set_target" THEN l.v ELSE pool_target
    BY <1>6 DEF PoolPushes
  <2>2. l \in AnyLine
    BY PushableLines
  <2>3. inbox' \in Seq(AnyLine)
    BY <2>1, <2>2 DEF TypeOK
  <2>4. pool_diff' \in Nat /\ pool_target' \in Nat
    BY <2>1, <2>2 DEF TypeOK, AnyLine
  <2> QED
    BY <1>6, <2>3, <2>4 DEF PoolPushes, TypeOK, config, sctx
<1>7. CASE UNCHANGED vars
  BY <1>7 DEF vars, TypeOK
<1> QED
  BY <1>1, <1>2, <1>3, <1>4, <1>5, <1>6, <1>7 DEF Next, Thread, ReadAndHandle, Quiet, DropOrDial

(* Every variable has its type in every reachable state. *)
THEOREM TypeCorrect == Spec => []TypeOK
<1>1. Init => TypeOK
  <2> SUFFICES ASSUME Init
               PROVE  TypeOK
    OBVIOUS
  <2>1. NoJob \in AnyJob
    BY DEF NoJob, AnyJob
  <2>2. NoWork \in [job : AnyJob, session : Nat, on : Nat]
    BY <2>1 DEF NoWork
  <2>3. NoHeader \in [version : Nat, merkle : Nat, of : Nat, clean : BOOLEAN]
    BY DEF NoHeader
  <2>4. dialect \in {"bitcoin", "progpow"}
    BY StratumAssumption DEF Init
  <2>5. <<>> \in Seq(AnyLine) /\ <<>> \in Seq(Nat)
    OBVIOUS
  <2> QED
    BY <2>1, <2>2, <2>3, <2>4, <2>5 DEF Init, TypeOK
<1> QED
  BY <1>1, TypeStep, PTL DEF Spec

----------------------------------------------------------------------------
(* Headers.                                                                 *)

(* stratum_set_extranonce2 rolls a header of one notify unless a refused    *)
(* notify had begun to write into the job: whatever a handler leaves behind *)
(* is whole or marked, in both dialects.                                    *)
THEOREM HeaderIsOfOneJob == Spec => []HeaderOfOneJobUnlessRefused
<1> DEFINE Inv == JobOfOneNotify /\ HeaderOfOneJobUnlessRefused
<1>1. Init => Inv
  BY DEF Init, JobOfOneNotify, HeaderOfOneJobUnlessRefused, NoJob, NoHeader
<1>2. ASSUME TypeOK, Inv, [Next]_vars
      PROVE  Inv'
  <2>1. CASE ReadAndHandle
    <3>1. inbox[1] \in AnyLine /\ handle_method(inbox[1]) /\ header' = header
      BY <1>2, <2>1, HandlerReads
    <3>2. JobOfOneNotify'
      BY <1>2, <3>1, HandlerJob
    <3> QED
      BY <1>2, <3>1, <3>2 DEF HeaderOfOneJobUnlessRefused
  <2>2. CASE stratum_set_extranonce2
    BY <1>2, <2>2 DEF stratum_set_extranonce2, JobOfOneNotify,
       HeaderOfOneJobUnlessRefused, sctx
  <2>3. CASE ~ (ReadAndHandle \/ stratum_set_extranonce2)
    <3>1. \A ok \in BOOLEAN : PoolAnswers(ok) => UNCHANGED <<job, spoiled, header>>
      BY DEF PoolAnswers, sctx
    <3>2. Thread => UNCHANGED <<job, spoiled, header>>
      BY <2>3 DEF Thread, ReadAndHandle, stratum_connect, SendSubscribe, ReadSubscribe,
         ExtranonceTimesOut, HandshakeFails, HandshakeFailed, Established, Publish,
         stratum_suggest_difficulty, Reset, sctx
    <3>3. SubmitShare \/ PoolPushes \/ Finished \/ UNCHANGED vars
              => UNCHANGED <<job, spoiled, header>>
      BY DEF SubmitShare, PoolPushes, Finished, sctx, vars
    <3>4. UNCHANGED <<job, spoiled, header>>
      BY <1>2, <2>3, <3>1, <3>2, <3>3 DEF Next
    <3> QED
      BY <1>2, <3>4 DEF JobOfOneNotify, HeaderOfOneJobUnlessRefused
  <2> QED
    BY <2>1, <2>2, <2>3
<1> QED
  BY <1>1, <1>2, TypeCorrect, PTL DEF Spec

----------------------------------------------------------------------------
(* Difficulties and targets.                                                *)

(* A handler reads under what the pool had in force. *)
LEMMA ForceHandler ==
    ASSUME TypeOK, ForceInv, ReadAndHandle
    PROVE  ForceInv'
<1>1. /\ inbox # <<>> /\ inbox[1] \in AnyLine /\ pc \in Reading
      /\ handle_method(inbox[1])
      /\ inbox' = IF conn' = 0 THEN <<>> ELSE Tail(inbox)
      /\ pc' \in Reading \cup {"failed"}
      /\ UNCHANGED <<dialect, g_work, pool_diff, pool_target>>
  BY HandlerReads
<1>2. conn # 0 /\ conn' \in {conn, 0}
  BY <1>1, HandlerTypes DEF ForceInv
<1>3. /\ inbox[1].diff = next_diff
      /\ dialect = "progpow" => inbox[1].target \in {0, next_target}
  BY <1>1, <1>2 DEF ForceInv, InStep, FirstDiff, FirstTarget
<1>4. /\ next_diff' = DiffAfter(inbox[1])
      /\ dialect = "progpow" => TargetAfter(inbox[1]) \in {0, next_target'}
  BY <1>1, <1>3, HandlerSets
<1>5. InForce(job)' /\ InForce(g_work.job)'
  <2>1. InForce(job)'
    BY <1>1, <1>3, HandlerJob DEF ForceInv
  <2> QED
    BY <1>1, <2>1 DEF ForceInv, InForce
<1>6. GrantComesFirst'
  BY <1>1 DEF GrantComesFirst, Opening, Reading
<1>7. CASE conn' = 0
  <2>1. inbox' = <<>> /\ Len(inbox') = 0 /\ 1 .. Len(inbox') - 1 = {}
    BY <1>1, <1>7
  <2>2. Chain' /\ InStep'
    BY <1>7, <2>1 DEF Chain, InStep
  <2> QED
    BY <1>5, <1>6, <2>1, <2>2 DEF ForceInv
<1>8. CASE conn' # 0
  <2>1. inbox' = Tail(inbox) /\ inbox \in Seq(AnyLine) /\ Chain
    BY <1>1, <1>8 DEF TypeOK, ForceInv
  <2>2. Chain' /\ FirstDiff' = DiffAfter(inbox[1]) /\ FirstTarget' = TargetAfter(inbox[1])
    BY <1>1, <2>1, ReadOne
  <2>3. InStep'
    BY <1>1, <1>4, <2>2 DEF InStep, Opening, Reading
  <2> QED
    BY <1>5, <1>6, <1>8, <2>2, <2>3 DEF ForceInv
<1> QED
  BY <1>7, <1>8

(* stratum_subscribe takes the first line for the answer; a pool that pushes *)
(* nothing before it has granted the subscribe makes that right.            *)
LEMMA ForceSubscribe ==
    ASSUME TypeOK, ForceInv, ReadSubscribe
    PROVE  ForceInv'
<1>1. /\ pc \in {"subscribe", "retry"} /\ inbox # <<>> /\ inbox' = Tail(inbox)
      /\ inbox \in Seq(AnyLine) /\ Chain
      /\ UNCHANGED <<conn, dialect, job, g_work, granted, pool_diff, pool_target>>
  BY DEF ReadSubscribe, Unread, config, TypeOK, ForceInv
<1>2. /\ Chain' /\ FirstDiff' = DiffAfter(inbox[1])
      /\ FirstTarget' = TargetAfter(inbox[1])
  BY <1>1, ReadOne
<1>3. conn # 0 /\ inbox[1].diff = 1 /\ inbox[1].target = 0
  BY <1>1 DEF ForceInv, InStep, FirstDiff, FirstTarget, Opening
<1>4. /\ Len(inbox) \in Nat \ {0} /\ 1 \in 1 .. Len(inbox)
      /\ Len(inbox') = Len(inbox) - 1 /\ Head(inbox) = inbox[1]
      /\ \A i \in 1 .. Len(inbox') : inbox'[i] = inbox[i + 1]
  BY <1>1
<1>5. inbox[1].k = "reply"
  <2>1. 1 .. 1 - 1 = {}
    OBVIOUS
  <2> QED
    BY <1>1, <1>4, <2>1 DEF ForceInv, GrantComesFirst, Opening
<1>6. FirstDiff' = 1 /\ FirstTarget' = 0
  BY <1>2, <1>3, <1>5 DEF DiffAfter, TargetAfter
<1>7. InForce(job)' /\ InForce(g_work.job)'
  BY <1>1 DEF ForceInv, InForce
<1>8. CASE Grants(inbox[1])
  <2>1. pc' = "authorize" /\ next_diff' = 1
    BY <1>4, <1>8 DEF ReadSubscribe, Grants
  <2>2. InStep' /\ GrantComesFirst'
    BY <1>6, <2>1 DEF InStep, GrantComesFirst, Opening, Reading
  <2> QED
    BY <1>1, <1>2, <1>3, <1>7, <2>2 DEF ForceInv
<1>9. CASE ~ Grants(inbox[1])
  <2>1. pc' \in {"retry", "failed"}
    BY <1>4, <1>9 DEF ReadSubscribe, Grants
  <2>2. InStep'
    BY <1>6, <2>1 DEF InStep, Opening, Reading
  <2>3. ASSUME NEW j \in 1 .. Len(inbox), Grants(inbox[j])
        PROVE  j - 1 \in 1 .. Len(inbox') /\ Grants(inbox'[j - 1])
    <3>1. j # 1
      BY <1>9, <2>3
    <3>2. j - 1 \in 1 .. Len(inbox') /\ (j - 1) + 1 = j
      BY <1>4, <3>1
    <3>3. inbox'[j - 1] = inbox[j]
      BY <1>4, <3>2
    <3> QED
      BY <2>3, <3>2, <3>3
  <2>4. ASSUME NEW i \in 1 .. Len(inbox'), inbox'[i].k # "reply"
        PROVE  \E j \in 1 .. i - 1 : Grants(inbox'[j])
    <3>1. i + 1 \in 1 .. Len(inbox) /\ inbox'[i] = inbox[i + 1]
      BY <1>4
    <3>2. PICK j \in 1 .. (i + 1) - 1 : Grants(inbox[j])
      BY <1>1, <2>4, <3>1 DEF ForceInv, GrantComesFirst, Opening
    <3>3. j \in 1 .. Len(inbox)
      BY <1>4, <3>1, <3>2
    <3>4. j - 1 \in 1 .. Len(inbox') /\ Grants(inbox'[j - 1])
      BY <2>3, <3>2, <3>3
    <3>5. j - 1 \in 1 .. i - 1
      BY <3>2, <3>4
    <3> QED
      BY <3>4, <3>5
  <2>5. ASSUME 1 \in granted'
        PROVE  \E j \in 1 .. Len(inbox') : Grants(inbox'[j])
    <3>1. PICK j \in 1 .. Len(inbox) : Grants(inbox[j])
      BY <1>1, <2>5 DEF ForceInv, GrantComesFirst, Opening
    <3> QED
      BY <2>3, <3>1
  <2>6. GrantComesFirst'
    BY <2>4, <2>5 DEF GrantComesFirst, Grants
  <2> QED
    BY <1>1, <1>2, <1>3, <1>7, <2>2, <2>6 DEF ForceInv
<1> QED
  BY <1>8, <1>9

(* A line arrives. *)
LEMMA ForceArrives ==
    ASSUME TypeOK, ForceInv, NEW l \in AnyLine, inbox' = Append(inbox, l), conn # 0,
           l.diff = pool_diff, l.target = pool_target,
           pool_diff' = DiffAfter(l), pool_target' = TargetAfter(l),
           UNCHANGED <<dialect, pc, conn, job, g_work, next_diff, next_target>>,
           l.k # "reply" => 1 \in granted,
           granted' = granted \/ (granted' = granted \cup {l.v} /\ l.k = "reply" /\ l.form = "good")
    PROVE  ForceInv'
<1>1. inbox \in Seq(AnyLine) /\ Chain
  BY DEF TypeOK, ForceInv
<1>2. Chain' /\ FirstDiff' = FirstDiff /\ FirstTarget' = FirstTarget
  BY <1>1, ArriveOne
<1>3. /\ Len(inbox) \in Nat /\ Len(inbox') = Len(inbox) + 1
      /\ inbox'[Len(inbox) + 1] = l
      /\ \A i \in 1 .. Len(inbox) : inbox'[i] = inbox[i]
  BY <1>1
<1>4. InStep' /\ InForce(job)' /\ InForce(g_work.job)'
  BY <1>2 DEF ForceInv, InStep, InForce
<1>5. GrantComesFirst'
  <2> SUFFICES ASSUME pc \in Opening
               PROVE  /\ \A i \in 1 .. Len(inbox') :
                            inbox'[i].k # "reply" => \E j \in 1 .. i - 1 : Grants(inbox'[j])
                      /\ 1 \in granted' => \E j \in 1 .. Len(inbox') : Grants(inbox'[j])
    BY DEF GrantComesFirst, Grants
  <2>1. ASSUME NEW i \in 1 .. Len(inbox'), inbox'[i].k # "reply"
        PROVE  \E j \in 1 .. i - 1 : Grants(inbox'[j])
    <3>1. CASE i \in 1 .. Len(inbox)
      <4>1. PICK j \in 1 .. i - 1 : Grants(inbox[j])
        BY <1>3, <2>1, <3>1 DEF ForceInv, GrantComesFirst
      <4>2. inbox'[j] = inbox[j]
        BY <1>3, <3>1, <4>1
      <4> QED
        BY <4>1, <4>2
    <3>2. CASE i = Len(inbox) + 1
      <4>1. 1 \in granted
        BY <1>3, <2>1, <3>2
      <4>2. PICK j \in 1 .. Len(inbox) : Grants(inbox[j])
        BY <4>1 DEF ForceInv, GrantComesFirst
      <4>3. j \in 1 .. i - 1 /\ inbox'[j] = inbox[j]
        BY <1>3, <3>2, <4>2
      <4> QED
        BY <4>2, <4>3
    <3> QED
      BY <1>3, <3>1, <3>2
  <2>2. ASSUME 1 \in granted'
        PROVE  \E j \in 1 .. Len(inbox') : Grants(inbox'[j])
    <3>1. CASE 1 \in granted
      <4>1. PICK j \in 1 .. Len(inbox) : Grants(inbox[j])
        BY <3>1 DEF ForceInv, GrantComesFirst
      <4>2. j \in 1 .. Len(inbox') /\ inbox'[j] = inbox[j]
        BY <1>3, <4>1
      <4> QED
        BY <4>1, <4>2
    <3>2. CASE 1 \notin granted
      <4>1. l.v = 1 /\ l.k = "reply" /\ l.form = "good"
        BY <2>2, <3>2
      <4>2. Len(inbox) + 1 \in 1 .. Len(inbox') /\ Grants(inbox'[Len(inbox) + 1])
        BY <1>3, <4>1 DEF Grants
      <4> QED
        BY <4>2
    <3> QED
      BY <3>1, <3>2
  <2> QED
    BY <2>1, <2>2
<1> QED
  BY <1>2, <1>4, <1>5 DEF ForceInv

(* The balance of lines and expectations is kept by every step, when the    *)
(* pool pushes nothing before it has answered the subscribe.                *)
LEMMA ForceStep ==
    ASSUME ~ EagerPool, TypeOK, ForceInv, [Next]_vars
    PROVE  ForceInv'
<1>1. CASE ReadAndHandle
  BY <1>1, ForceHandler
<1>2. CASE ReadSubscribe
  BY <1>2, ForceSubscribe
<1>3. CASE DropOrDial
  <2>1. inbox' = <<>> /\ UNCHANGED <<dialect, job, g_work>>
    BY <1>3 DEF DropOrDial, stratum_connect, HandshakeFailed, Reset, Disconnect, config, sctx
  <2>2. Len(inbox') = 0 /\ 1 .. Len(inbox') - 1 = {} /\ 1 .. Len(inbox') = {}
    BY <2>1
  <2>3. Chain' /\ InForce(job)' /\ InForce(g_work.job)'
    BY <2>1, <2>2 DEF ForceInv, Chain, InForce
  <2>4. CASE stratum_connect
    <3>1. pc' = "connected" /\ granted' = {} /\ pool_diff' = 1 /\ pool_target' = 0
      BY <2>4 DEF stratum_connect
    <3>2. GrantComesFirst' /\ InStep'
      BY <2>1, <2>2, <3>1 DEF GrantComesFirst, InStep, FirstDiff, FirstTarget, Opening,
         Reading
    <3> QED
      BY <2>1, <2>3, <3>2 DEF ForceInv
  <2>5. CASE HandshakeFailed \/ Reset
    <3>1. pc' = "dial" /\ conn' = 0
      BY <2>5 DEF HandshakeFailed, Reset, Disconnect
    <3>2. GrantComesFirst' /\ InStep'
      BY <3>1 DEF GrantComesFirst, InStep, Opening
    <3> QED
      BY <2>1, <2>3, <3>2 DEF ForceInv
  <2> QED
    BY <1>3, <2>4, <2>5 DEF DropOrDial
<1>4. CASE Quiet \/ UNCHANGED vars
  <2>1. UNCHANGED <<dialect, conn, inbox, job, next_diff, next_target, granted,
                    pool_diff, pool_target>>
    BY <1>4 DEF Quiet, SendSubscribe, ExtranonceTimesOut, HandshakeFails, Established,
       Publish, stratum_suggest_difficulty, stratum_set_extranonce2, SubmitShare,
       Finished, config, sctx, pool, vars
  <2>2. /\ pc' \in Opening => pc \in Opening
        /\ pc' \in Reading => pc \in Reading
    BY <1>4 DEF Quiet, SendSubscribe, ExtranonceTimesOut, HandshakeFails, Established,
       Publish, stratum_suggest_difficulty, stratum_set_extranonce2, SubmitShare,
       Finished, vars, Opening, Reading
  <2>3. g_work' = g_work \/ g_work'.job = job
    <3>1. CASE Established \/ Publish
      BY <3>1 DEF Established, Publish, stratum_gen_work
    <3>2. CASE ~ (Established \/ Publish)
      BY <1>4, <3>2 DEF Quiet, SendSubscribe, ExtranonceTimesOut, HandshakeFails,
         stratum_suggest_difficulty, stratum_set_extranonce2, SubmitShare, Finished, vars
    <3> QED
      BY <3>1, <3>2
  <2>4. InForce(job)' /\ InForce(g_work.job)'
    BY <2>1, <2>3 DEF ForceInv, InForce
  <2>5. Chain' /\ GrantComesFirst' /\ InStep'
    BY <2>1, <2>2 DEF ForceInv, Chain, GrantComesFirst, InStep, FirstDiff, FirstTarget,
       DiffAfter, TargetAfter, Grants
  <2> QED
    BY <2>1, <2>4, <2>5 DEF ForceInv
<1>5. ASSUME NEW ok \in BOOLEAN, PoolAnswers(ok)
      PROVE  ForceInv'
  <2> DEFINE l == Reply(Head(asked), ok)
  <2>1. asked \in Seq(Nat) /\ asked # <<>> /\ conn # 0
    BY <1>5 DEF PoolAnswers, TypeOK
  <2>2. Head(asked) \in Nat
    BY <2>1
  <2>3. /\ l \in AnyLine /\ l.diff = pool_diff /\ l.target = pool_target
        /\ l.k = "reply" /\ l.v = Head(asked) /\ (ok => l.form = "good")
    BY <2>2 DEF Reply, Line, AnyLine, Form, TypeOK
  <2>4. /\ inbox' = Append(inbox, l)
        /\ granted' = IF ok THEN granted \cup {Head(asked)} ELSE granted
        /\ UNCHANGED <<dialect, pc, conn, job, g_work, next_diff, next_target,
                       pool_diff, pool_target>>
    BY <1>5 DEF PoolAnswers, config, sctx
  <2> HIDE DEF l
  <2>5. pool_diff' = DiffAfter(l) /\ pool_target' = TargetAfter(l)
    BY <2>3, <2>4 DEF DiffAfter, TargetAfter
  <2>6. granted' = granted
        \/ (granted' = granted \cup {l.v} /\ l.k = "reply" /\ l.form = "good")
    BY <2>3, <2>4
  <2> QED
    BY <2>1, <2>3, <2>4, <2>5, <2>6, ForceArrives
<1>6. CASE PoolPushes
  <2>1. PICK l \in Pushable :
          /\ inbox' = Append(inbox, l)
          /\ pool_diff' = IF l.v # 0 /\ (l.k = "set_difficulty" \/
                              (l.k = "set_target" /\ dialect = "bitcoin"))
                          THEN l.v ELSE pool_diff
          /\ pool_target' = IF l.v # 0 /\ l.k = "set_target" THEN l.v ELSE pool_target
    BY <1>6 DEF PoolPushes
  <2>2. l \in AnyLine /\ l.diff = pool_diff /\ l.target = pool_target
    BY PushableLines
  <2>3. /\ conn # 0 /\ 1 \in granted /\ granted' = granted
        /\ UNCHANGED <<dialect, pc, conn, job, g_work, next_diff, next_target>>
    BY <1>6 DEF PoolPushes, config, sctx
  <2>4. pool_diff' = DiffAfter(l) /\ pool_target' = TargetAfter(l)
    BY <2>1, <2>2 DEF DiffAfter, TargetAfter
  <2> QED
    BY <2>1, <2>2, <2>3, <2>4, ForceArrives
<1> QED
  BY <1>1, <1>2, <1>3, <1>4, <1>5, <1>6 DEF Next, Thread, ReadAndHandle, Quiet, DropOrDial

(* Work is published at the difficulty, or with the target, that the pool   *)
(* last set on that connection before the notify, however lines, replies,   *)
(* failed handshakes and reconnects follow each other, provided the pool    *)
(* pushes nothing before it has answered the subscribe (stratum_subscribe   *)
(* would read it as the answer).                                            *)
THEOREM TargetIsInForce == ~ EagerPool /\ Spec => []TargetInForce
<1>1. Init => ForceInv
  <2> SUFFICES ASSUME Init
               PROVE  ForceInv
    OBVIOUS
  <2>1. inbox = <<>> /\ Len(inbox) = 0 /\ 1 .. Len(inbox) - 1 = {} /\ pc = "dial" /\ conn = 0
    BY DEF Init
  <2>2. Chain /\ GrantComesFirst /\ InStep
    BY <2>1 DEF Chain, GrantComesFirst, InStep, Opening
  <2>3. InForce(job) /\ InForce(g_work.job)
    BY DEF Init, InForce, NoJob, NoWork
  <2> QED
    BY <2>1, <2>2, <2>3 DEF ForceInv
<1>2. ForceInv => TargetInForce
  BY DEF ForceInv, InForce, TargetInForce
<1>3. ~ EagerPool /\ TypeOK /\ ForceInv /\ [Next]_vars => ForceInv'
  BY ForceStep
<1>4. CASE ~ EagerPool
  <2>1. TypeOK /\ ForceInv /\ [Next]_vars => ForceInv'
    BY <1>3, <1>4
  <2>2. Spec => []TargetInForce
    BY <1>1, <1>2, <2>1, TypeCorrect, PTL DEF Spec
  <2> QED
    BY <2>2
<1>5. CASE EagerPool
  BY <1>5
<1> QED
  BY <1>4, <1>5
=============================================================================

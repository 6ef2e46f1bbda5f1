-------------------------------- MODULE Api --------------------------------
(***************************************************************************)
(* The REST API, request by request: api_http.c reads a request off a      *)
(* socket in whatever pieces it arrives and decides who may have it served,*)
(* api_routes.cpp is the route table and its handlers, api_model.cpp the   *)
(* figures they report. What a control call does behind its result is      *)
(* module Control; here its result is an input.                            *)
(*                                                                         *)
(* Text is kept as lengths and as what is read out of it. A request is its *)
(* line (its length, and what is wrong with it, if anything), its header   *)
(* lines, and a body of some bytes that holds a JSON value.                *)
(***************************************************************************)
EXTENDS Integers, Sequences, FiniteSets, SequencesExt, FiniteSetsExt

CONSTANTS kMaxReqline, kMaxHeaderBytes, kMaxHeaderLines, kMaxBody,  \* api_http.h
          kMaxDevices,      \* API_METRICS_MAX_DEVICES
          kExposition,      \* lines that h_metrics's buffer holds
          kLongestWait      \* the hour wait_ms_field cuts a wait back to

----------------------------------------------------------------------------
(* api_http.c: the parser.                                                   *)

Crlf == 2

HeaderEnd(msg) ==
    msg.line + Crlf + FoldLeft(LAMBDA n, h : n + h.len + Crlf, 0, msg.headers) + Crlf
Total(msg) == HeaderEnd(msg) + msg.bytes

RequestLine(msg) ==
    IF msg.line > kMaxReqline \/ msg.fault = "long path" THEN "too large"
    ELSE IF msg.fault \in {"no spaces", "relative", "escape", "dots"} THEN "bad"
    ELSE "ok"

(* The first header line to be refused decides: for the lines or the bytes   *)
(* up to it, or for a Content-Length that is none.                           *)
HeaderLines(headers) ==
    LET over(i)   == \/ i > kMaxHeaderLines
                     \/ FoldLeft(LAMBDA n, h : n + h.len, 0, SubSeq(headers, 1, i))
                            > kMaxHeaderBytes
        broken(i) == headers[i].name = "Content-Length" /\ headers[i].n < 0
        refused   == {i \in DOMAIN headers : over(i) \/ broken(i)}
    IN  IF refused = {} THEN "ok"
        ELSE IF over(Min(refused)) THEN "too large" ELSE "bad"

(* The last of several headers of one name is the one that counts.           *)
Header(headers, name) ==
    FoldLeft(LAMBDA got, h : IF h.name = name THEN <<h>> ELSE got, <<>>, headers)

(* A path is its segments; trailing slashes are empty ones.                  *)
Stripped(path) ==
    SubSeq(path, 1, Max({0} \cup {i \in DOMAIN path : path[i] # ""}))

NoRequest(st) == [st |-> st, method |-> "", path |-> <<>>, bearer |-> "", body |-> <<>>,
                  query |-> -1]

NoFields == [k \in {} |-> 0]
NotJson  == [kind |-> "bad", fields |-> NoFields]

api_http_parse(msg, len) ==
    LET length == Header(msg.headers, "Content-Length")
        auth   == Header(msg.headers, "Authorization")
        have   == len - HeaderEnd(msg)
        request(body) ==
            [st |-> "ok", method |-> msg.method, path |-> Stripped(msg.path),
             bearer |-> IF auth = <<>> THEN "" ELSE auth[1].token,
             body |-> body, query |-> msg.query]
    IN  CASE have < 0 ->
               NoRequest(IF len > kMaxReqline + kMaxHeaderBytes THEN "too large"
                         ELSE "incomplete")
          [] have >= 0 /\ RequestLine(msg) # "ok" -> NoRequest(RequestLine(msg))
          [] have >= 0 /\ RequestLine(msg) = "ok" /\ HeaderLines(msg.headers) # "ok" ->
               NoRequest(HeaderLines(msg.headers))
          [] OTHER ->
               IF Header(msg.headers, "Transfer-Encoding") # <<>> THEN NoRequest("unsupported")
               ELSE IF length = <<>>
                    THEN IF msg.method = "POST" /\ have > 0 THEN NoRequest("bad")
                         ELSE request(<<>>)
               ELSE IF length[1].n > kMaxBody THEN NoRequest("too large")
               ELSE IF have < length[1].n THEN NoRequest("incomplete")
               ELSE IF length[1].n = 0 THEN request(<<>>)
               ELSE request(<<IF length[1].n = msg.bytes THEN msg.json ELSE NotJson>>)

(* The read loop of api_http_serve_prefixed: arrived is how many bytes there *)
(* are after each recv(); after the last the peer is silent or gone.         *)
BufferSize == kMaxReqline + kMaxHeaderBytes + kMaxBody + 8
ReadRequest(msg, arrived) ==
    LET seen == {IF n > BufferSize THEN BufferSize ELSE n : n \in arrived}
        done == {n \in seen : api_http_parse(msg, n).st # "incomplete"}
    IN  IF done # {} THEN api_http_parse(msg, Min(done))
        ELSE NoRequest(IF BufferSize \in seen THEN "too large" ELSE "incomplete")

----------------------------------------------------------------------------
(* What a handler leaves behind: a status, whether it supplied a body, and   *)
(* the one call it made that can change the miner.                           *)

NoCall == [op |-> "none", algo |-> "", pool |-> <<>>, want |-> "", wait |-> 0]
Reply(status, body, call) == [status |-> status, body |-> body, call |-> call]
Refusal(status) == Reply(status, <<>>, NoCall)

respond(payload) == Reply(200, <<payload>>, NoCall)

parse_body(req) ==
    IF req.body = <<>> THEN <<NoFields>>
    ELSE IF req.body[1].kind = "object" THEN <<req.body[1].fields>>
    ELSE <<>>

control_http_status(rc) ==
    CASE rc = "ok" -> 200 [] rc = "accepted" -> 202 [] rc \in {"busy", "timeout"} -> 409
      [] rc = "throttled" -> 429 [] rc = "disabled" -> 403 [] rc = "invalid" -> 400

(* A 429 brings its own body with the seconds to wait, which the status read *)
(* afterwards may already have run down.                                     *)
control_error(http, m, call) ==
    IF http # 429 THEN Reply(http, <<>>, call)
    ELSE Reply(http, <<IF m.retry_after > 0 THEN m.retry_after ELSE 1>>, call)

unknown_key(fields, known) == ~(DOMAIN fields \subseteq known)

Has(fields, key) == key \in DOMAIN fields
Is(fields, key, type) == Has(fields, key) => fields[key].type = type

WaitIsRefused(fields) ==
    Has(fields, "wait_ms")
        /\ (fields["wait_ms"].type # "integer" \/ fields["wait_ms"].n < 0)
wait_ms_field(fields) ==
    IF ~Has(fields, "wait_ms") THEN 0
    ELSE Max({1, Min({fields["wait_ms"].n, kLongestWait})})

control_result_respond(http, m, call) == Reply(http, <<m.state>>, call)

control_verb(req, want, m, rc) ==
    LET fields == parse_body(req)
        call   == [NoCall EXCEPT !.op = "request", !.want = want,
                                 !.wait = wait_ms_field(fields[1])]
        http   == control_http_status(rc)
    IN  IF fields = <<>> THEN Refusal(400)
        ELSE IF unknown_key(fields[1], {"wait_ms"}) \/ WaitIsRefused(fields[1])
             THEN Refusal(400)
        ELSE IF http >= 400 THEN control_error(http, m, call)
        ELSE control_result_respond(http, m, call)

(* url is required, user and pass are empty unless given.                    *)
PoolIsRefused(fields) ==
    ~Has(fields, "url") \/ \E k \in {"url", "user", "pass"} : ~Is(fields, k, "string")
Text(fields, key) == IF Has(fields, key) THEN fields[key].text ELSE ""
Pool(fields) == <<Text(fields, "url"), Text(fields, "user"), Text(fields, "pass")>>

h_pools_url(req, m, rc) ==
    LET fields == parse_body(req)
        call   == [NoCall EXCEPT !.op = "pool", !.pool = Pool(fields[1])]
    IN  IF fields = <<>> THEN Refusal(400)
        ELSE IF PoolIsRefused(fields[1]) THEN Refusal(400)
        ELSE IF rc \notin {"ok", "accepted"}
             THEN control_error(control_http_status(rc), m, call)
        ELSE Reply(control_http_status(rc), <<"ok">>, call)

h_quit == Reply(200, <<"ok">>, [NoCall EXCEPT !.op = "quit"])

h_control_state(m) == IF ~m.enabled THEN Refusal(403) ELSE respond(m.state)

ProfileKeys == {"algo", "params", "pool", "run", "wait_ms"}

ProfileIsRefused(fields) ==
    \/ unknown_key(fields, ProfileKeys)
    \/ ~Is(fields, "algo", "string") \/ ~Is(fields, "params", "object")
    \/ ~Is(fields, "pool", "object") \/ ~Is(fields, "run", "boolean")
    \/ DOMAIN fields \subseteq {"wait_ms"}
    \/ Has(fields, "algo") /\ ~Has(fields, "pool")
    \/ Has(fields, "params") /\ unknown_key(fields["params"].fields, {})
    \/ Has(fields, "pool") /\ (\/ unknown_key(fields["pool"].fields, {"url", "user", "pass"})
                               \/ PoolIsRefused(fields["pool"].fields))
    \/ WaitIsRefused(fields)

(* One pass of the barrier for the whole profile. An algorithm that is       *)
(* running already goes the pool's way.                                      *)
ProfileCall(fields, m) ==
    LET algo == Text(fields, "algo")
        want == IF ~Has(fields, "run") THEN ""
                ELSE IF fields["run"].yes THEN "running" ELSE "paused"
        pool == IF Has(fields, "pool") THEN Pool(fields["pool"].fields) ELSE <<>>
        op   == IF Has(fields, "algo") /\ algo # m.algo THEN "algo"
                ELSE IF Has(fields, "pool") THEN "pool"
                ELSE IF Has(fields, "run") THEN "request"
                ELSE "none"
    IN  [op |-> op, algo |-> IF op = "algo" THEN algo ELSE "", pool |-> pool, want |-> want,
         wait |-> IF op = "none" THEN 0 ELSE wait_ms_field(fields)]

h_control_profile(req, m, rc) ==
    LET fields == parse_body(req)
        call   == ProfileCall(fields[1], m)
        http   == IF call.op = "none" THEN 200 ELSE control_http_status(rc)
    IN  IF fields = <<>> THEN Refusal(400)
        ELSE IF ProfileIsRefused(fields[1]) THEN Refusal(400)
        ELSE IF m.state = "switching" THEN Refusal(409)
        ELSE IF http >= 400 THEN control_error(http, m, call)
        ELSE Reply(http, <<m.state>>, call)

----------------------------------------------------------------------------
(* api_model.cpp: the figures. m.rates is what each worker last published,   *)
(* m.device_of the device it mines on.                                       *)

model_is_mining(m) == m.rates # <<>> /\ ~m.wants_park

worker_rates(m) == [i \in DOMAIN m.rates |-> IF model_is_mining(m) THEN m.rates[i] ELSE 0]

collect_summary(m) ==
    [algo |-> m.algo, threads |-> Len(m.rates), devices |-> Len(m.devices),
     hashrate |-> FoldLeft(LAMBDA a, r : a + r, 0, worker_rates(m))]

collect_threads(m) ==
    [i \in DOMAIN m.rates |-> [id |-> i - 1, device |-> m.device_of[i],
                               hashrate |-> worker_rates(m)[i]]]

collect_devices(m) ==
    [i \in DOMAIN m.devices |->
        LET d == m.devices[i]
            here == {j \in DOMAIN m.rates : m.device_of[j] = d.index}
            rate == MapThenSumSet(LAMBDA j : worker_rates(m)[j], here)
        IN  [id |-> d.index, workers |-> Cardinality(here), hashrate |-> rate,
             temp |-> d.temp, power |-> d.power,
             per_watt |-> IF d.power > 0 /\ rate > 0 THEN <<rate, d.power>> ELSE <<>>]]

collect_health(m) ==
    [mining |-> model_is_mining(m),
     reasons |-> (IF m.stratum_down /\ ~m.holds_connection THEN {"pool_disconnected"} ELSE {})
                     \cup (IF m.devices = <<>> THEN {"no_devices"} ELSE {})]

----------------------------------------------------------------------------
(* /metrics: families of lines into a buffer that holds so many, where a     *)
(* line that does not fit ends the writing.                                  *)

Line(family, label, value) == [family |-> family, label |-> label, value |-> value]
Title(family) == <<Line(family, -1, 0)>>
Sample(family, value) == Title(family) \o <<Line(family, 0, value)>>

metrics_emit(sink, line) ==
    IF sink.overflow \/ Len(sink.lines) + 1 >= sink.cap THEN [sink EXCEPT !.overflow = TRUE]
    ELSE [sink EXCEPT !.lines = Append(@, line)]

metrics_fill(m) == [summary |-> collect_summary(m), active |-> model_is_mining(m),
                    devices |-> SubSeq(collect_devices(m), 1,
                                       Min({kMaxDevices, Len(m.devices)})),
                    pools |-> IF m.url = "" THEN 0 ELSE 1, connected |-> ~m.stratum_down]

States == <<"running", "paused", "stopped", "switching">>

PerDevice(devices, family, Value(_)) ==
    LET with == SelectSeq(devices, LAMBDA d : Value(d) # <<>>)
    IN  Title(family) \o [i \in DOMAIN with |-> Line(family, with[i].id, Value(with[i])[1])]

RenderLines(in, m) ==
    Sample("info", 1) \o Sample("mining_active", IF in.active THEN 1 ELSE 0)
        \o Title("control_state")
        \o [i \in DOMAIN States |->
               Line("control_state", i, IF States[i] = m.state THEN 1 ELSE 0)]
        \o Sample("hashrate", in.summary.hashrate)
        \o (IF in.devices = <<>> THEN <<>>
            ELSE PerDevice(in.devices, "device_hashrate", LAMBDA d : <<d.hashrate>>)
                   \o PerDevice(in.devices, "device_temperature",
                                LAMBDA d : IF d.temp = 0 THEN <<>> ELSE <<d.temp>>)
                   \o PerDevice(in.devices, "device_power",
                                LAMBDA d : IF d.power = 0 THEN <<>> ELSE <<d.power>>))
        \o (IF in.pools = 0 THEN <<>>
            ELSE Sample("pool_connected", IF in.connected THEN 1 ELSE 0))

metrics_extra(m) ==
    PerDevice(collect_devices(m), "device_batches", LAMBDA d : <<d.workers>>)
        \o Sample("host_disagreements", 0)

h_metrics(m) ==
    LET rendered == FoldLeft(metrics_emit, [lines |-> <<>>, cap |-> kExposition,
                                            overflow |-> FALSE],
                             RenderLines(metrics_fill(m), m))
        whole == FoldLeft(metrics_emit, rendered, metrics_extra(m))
    IN  IF whole.overflow THEN Refusal(500) ELSE respond(whole.lines)

----------------------------------------------------------------------------
(* The reading handlers.                                                     *)

NotFound == Refusal(404)

(* The last segment as a number, if it is one and nothing else.              *)
trailing_int(path) ==
    CASE Last(path) = "0" -> <<0>> [] Last(path) = "1" -> <<1>> [] Last(path) = "2" -> <<2>>
      [] OTHER -> <<>>

h_threads(req, m) ==
    LET threads == SelectSeq(collect_threads(m),
                             LAMBDA t : req.query = -1 \/ t.id = req.query)
    IN  IF req.query # -1 /\ threads = <<>> THEN NotFound ELSE respond(threads)

h_device(req, m) ==
    LET id == trailing_int(req.path)
        devices == collect_devices(m)
    IN  IF id = <<>> THEN NotFound
        ELSE IF id[1] >= Len(devices) THEN NotFound
        ELSE respond(devices[id[1] + 1])

kPoolCount == 1

h_pools(req, m) ==
    LET pools == SelectSeq([i \in 1 .. kPoolCount |-> i - 1],
                           LAMBDA i : req.query = -1 \/ i = req.query)
    IN  IF req.query # -1 /\ pools = <<>> THEN NotFound ELSE respond(pools)

h_pool(req, m) ==
    LET index == trailing_int(req.path)
    IN  IF index = <<>> THEN NotFound
        ELSE IF index[1] >= kPoolCount THEN NotFound
        ELSE respond(index[1])

h_health(m) ==
    LET h == collect_health(m)
    IN  Reply(IF h.reasons = {} THEN 200 ELSE 503, <<h>>, NoCall)

----------------------------------------------------------------------------
(* The route table.                                                          *)

Route(method, path, prefix, priv, available) ==
    [method |-> method, path |-> <<"api", "v1">> \o path, prefix |-> prefix, priv |-> priv,
     available |-> available]
Read(path) == Route("GET", path, FALSE, 0, TRUE)
Item(path) == Route("GET", path, TRUE, 0, TRUE)
Absent(method, path, priv) == Route(method, path, FALSE, priv, FALSE)
Write(path)   == Route("POST", path, FALSE, 1, TRUE)
Command(path) == Route("POST", path, FALSE, 2, TRUE)

g_routes ==
    <<Read(<<>>), Read(<<"summary">>), Read(<<"threads">>), Read(<<"devices">>),
      Item(<<"devices">>), Read(<<"system">>), Read(<<"pools">>), Item(<<"pools">>),
      Read(<<"health">>), Read(<<"config">>), Read(<<"algos">>),
      Absent("GET", <<"history">>, 0), Absent("GET", <<"scanlog">>, 0),
      Absent("GET", <<"meminfo">>, 0), Absent("POST", <<"pools", "switch">>, 1),
      Write(<<"pools", "url">>), Write(<<"quit">>),
      Read(<<"control", "state">>), Command(<<"control", "start">>),
      Command(<<"control", "pause">>), Command(<<"control", "stop">>),
      Command(<<"control", "profile">>),
      [Read(<<>>) EXCEPT !.path = <<"metrics">>]>>

(* The names the index lists: a prefix route and its twin are one.           *)
h_index ==
    LET listed == SelectSeq(g_routes, LAMBDA r : r.available)
        named  == SelectSeq(listed, LAMBDA r : r.path # <<"api", "v1">>)
    IN  FoldLeft(LAMBDA caps, r :
                    LET name == IF r.path = <<"metrics">> THEN r.path
                                ELSE SubSeq(r.path, 3, Len(r.path))
                    IN  IF Contains(caps, name) THEN caps ELSE Append(caps, name),
                 <<>>, named)

path_matches(route, path) ==
    IF route.prefix THEN IsStrictPrefix(route.path, path) ELSE route.path = path

api_http_route(req) ==
    LET method == IF req.method = "HEAD" THEN "GET" ELSE req.method
        found  == {i \in DOMAIN g_routes : path_matches(g_routes[i], req.path)}
        served == {i \in found : g_routes[i].method = method}
    IN  IF served = {} THEN [status |-> IF found = {} THEN 404 ELSE 405, route |-> 0]
        ELSE IF ~g_routes[Min(served)].available THEN [status |-> 501, route |-> 0]
        ELSE [status |-> 200, route |-> Min(served)]

Handle(route, req, m, rc) ==
    LET name == IF route.path = <<"metrics">> THEN <<"metrics">>
                ELSE SubSeq(route.path, 3, Len(route.path))
    IN  CASE name = <<"metrics">>              -> h_metrics(m)
          [] name = <<>>                       -> respond(h_index)
          [] name = <<"summary">>              -> respond(collect_summary(m))
          [] name = <<"threads">>              -> h_threads(req, m)
          [] name = <<"devices">>              -> IF route.prefix THEN h_device(req, m)
                                                  ELSE respond(collect_devices(m))
          [] name = <<"pools">>                -> IF route.prefix THEN h_pool(req, m)
                                                  ELSE h_pools(req, m)
          [] name = <<"health">>               -> h_health(m)
          [] name = <<"pools", "url">>         -> h_pools_url(req, m, rc)
          [] name = <<"quit">>                 -> h_quit
          [] name = <<"control", "state">>     -> h_control_state(m)
          [] name = <<"control", "start">>     -> control_verb(req, "running", m, rc)
          [] name = <<"control", "pause">>     -> control_verb(req, "paused", m, rc)
          [] name = <<"control", "stop">>      -> control_verb(req, "stopped", m, rc)
          [] name = <<"control", "profile">>   -> h_control_profile(req, m, rc)
          [] OTHER                             -> respond(name)

----------------------------------------------------------------------------
(* Serving one connection.                                                   *)

Sent(status, what, body, call) ==
    [status |-> status, what |-> what, body |-> body, call |-> call]
send_error(status) == Sent(status, "error", <<>>, NoCall)

(* A failing handler that supplies a body keeps it; HEAD is answered with    *)
(* the headers of the GET.                                                   *)
api_http_send(req, reply) ==
    IF reply.body = <<>>
    THEN Sent(IF reply.status >= 400 THEN reply.status ELSE 500, "error", <<>>, reply.call)
    ELSE Sent(reply.status, IF req.method = "HEAD" THEN "head" ELSE "body", reply.body,
              reply.call)

Granted(opt) == IF ~opt.remote THEN 0 ELSE IF opt.control THEN 2 ELSE 1

Admitted(req, opt) ==
    LET found == api_http_route(req)
        route == g_routes[found.route]
    IN  IF opt.token # "" /\ req.bearer # opt.token THEN 401
        ELSE IF found.route = 0 THEN found.status
        ELSE IF route.priv = 2 /\ ~opt.control THEN 403
        ELSE IF route.priv > Granted(opt) THEN 403
        ELSE 200

api_http_serve(msg, arrived, opt, m, rc) ==
    LET req == ReadRequest(msg, arrived)
    IN  IF req.st = "incomplete" THEN Sent(-1, "nothing", <<>>, NoCall)
        ELSE IF req.st # "ok"
             THEN send_error(CASE req.st = "too large" -> 413 [] req.st = "unsupported" -> 501
                               [] req.st = "bad" -> 400)
        ELSE IF req.method = "OPTIONS" /\ opt.cors THEN Sent(204, "head", <<>>, NoCall)
        ELSE IF Admitted(req, opt) # 200 THEN send_error(Admitted(req, opt))
        ELSE api_http_send(req, Handle(g_routes[api_http_route(req).route], req, m, rc))

(* The flag /quit sets is read once the answer has been written.             *)
serve_one(msg, arrived, opt, m, rc) ==
    LET sent == api_http_serve(msg, arrived, opt, m, rc)
    IN  [sent |-> sent, shutdown |-> sent.call.op = "quit"]
============================================================================

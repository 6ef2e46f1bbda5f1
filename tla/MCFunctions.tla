---------------------------- MODULE MCFunctions ----------------------------
(***************************************************************************)
(* The miner's sequential code, checked against what it promises. A state  *)
(* is one case: a suite and the inputs of one call, or of a short sequence *)
(* of calls, of that suite's code; a property is about the steps that make *)
(* the call.                                                               *)
(***************************************************************************)
EXTENDS Integers, Sequences, FiniteSets, FiniteSetsExt, SequencesExt, Folds, TLC

VARIABLE c

A == INSTANCE Algorithms
P == INSTANCE ProgPow WITH W <- 8, kLanes <- 16, kL1Words <- 64
D == INSTANCE DeviceFit WITH kMinBatch <- 16, kMaxBatch <- 512, kFirstBatch <- 128,
        kSoftCeiling <- 100, kHostCeiling <- 200, kMaxNoncesPerInvocation <- 4,
        kMaxSharedChunks <- 4, kMaxProgramConstants <- 4, kStagingBytes <- 48,
        kFirstSlice <- 2, kMaxSlice <- 8
U == INSTANCE Startup WITH kBefore <- 1, kSpan <- 3, kMaxRecords <- 2, kRangeMargin <- 1,
        Space <- 64, Word <- 1024

H == INSTANCE Api WITH kMaxReqline <- 6, kMaxHeaderBytes <- 8, kMaxHeaderLines <- 2,
        kMaxBody <- 3, kMaxDevices <- 2, kExposition <- 25, kLongestWait <- 9
O == INSTANCE Options

UpTo(n, S) == UNION {[1 .. k -> S] : k \in 0 .. n}

----------------------------------------------------------------------------
(* The cases of each suite.                                                  *)

Epochal == {P!kMeowpow, P!kFiropow}
Toy == [P!kKawpow EXCEPT !.regs = 3, !.cache_ops = 2, !.math_ops = 1, !.rounds = 3]

Answers == -1   \* a step of "object" that is no header: the self-test asks
Hash    == -2   \* and a candidate is re-hashed

QueueFamilies == {<<>>, <<{"graphics"}>>, <<{"compute", "graphics"}>>,
                  <<{"compute", "graphics"}, {"compute"}>>}

Word1(length, opcode) == [length |-> length, opcode |-> opcode, value |-> 0]
Operand(n) == [length |-> 2, opcode |-> 9, value |-> n]
Decoration(kind, id) ==
    <<Word1(4, 71), Operand(0), Operand(kind), Operand(id)>>
Instructions == {<<Word1(1, 9)>>, Decoration(1, 5), Decoration(1, 6), Decoration(2, 5),
                 <<Word1(3, 71), Operand(1), Operand(5)>>}

ForkHash == [meowpow |-> [n \in 0 .. 3 |-> <<2, 0, 1, 3>>[n + 1]],
             meraki  |-> [n \in 0 .. 3 |-> <<1, 3, 0, 2>>[n + 1]]]

Config(v, local, depth) == [variant |-> v, local |-> local, depth |-> depth]
Configs == {Config(v, l, d) : v \in {"a", "b"}, l \in {32, 64}, d \in 1 .. 4}

Plain == [no_tune |-> FALSE, retune |-> FALSE, kernel |-> "", workgroup |-> 0,
          queue_depth |-> 0, nonces |-> 0]
TuneOptions == {Plain,
                [Plain EXCEPT !.retune = TRUE],
                [Plain EXCEPT !.kernel = "b"],
                [Plain EXCEPT !.retune = TRUE, !.workgroup = 64],
                [Plain EXCEPT !.nonces = 2],
                [Plain EXCEPT !.no_tune = TRUE, !.queue_depth = 2]}

Tuning(v, local, depth, opt) ==
    [variant |-> v, local |-> local, depth |-> depth, whole |-> opt]
Files == {U!Absent, U!Torn, U!File(1 :> Tuning("a", 32, 2, TRUE)),
          U!File(1 :> Tuning("a", 32, 2, TRUE) @@ 2 :> Tuning("a", 64, 1, TRUE)),
          U!File(2 :> Tuning("b", 0, 1, TRUE))}

HeaderLine(name, len, n) == [name |-> name, len |-> len, n |-> n, token |-> "t"]
HeaderSets == UpTo(3, {HeaderLine("Content-Length", 3, n) : n \in {-1, 2, 4}}
                         \cup {HeaderLine("Transfer-Encoding", 2, 0), HeaderLine("Accept", 4, 0)})

TextOf(v) == [type |-> "string", text |-> v, n |-> 0, yes |-> FALSE, fields |-> H!NoFields]
IntOf(n) == [TextOf("") EXCEPT !.type = "integer", !.n = n]
BoolOf(b) == [TextOf("") EXCEPT !.type = "boolean", !.yes = b]
ObjectOf(f) == [TextOf("") EXCEPT !.type = "object", !.fields = f]
Maybe(key, values) == {H!NoFields} \cup {key :> v : v \in values}
PoolObjects == {ObjectOf("url" :> TextOf("u")), ObjectOf("url" :> TextOf("u") @@ "pass" :> TextOf("p")),
                ObjectOf("user" :> TextOf("n")), ObjectOf("url" :> IntOf(1)),
                ObjectOf("url" :> TextOf("u") @@ "port" :> TextOf("1"))}
Profiles ==
    {a @@ b @@ p @@ r @@ w @@ e :
        a \in Maybe("algo", {TextOf("x11"), TextOf("skein"), IntOf(1)}),
        b \in Maybe("params", {ObjectOf(H!NoFields), ObjectOf("batch" :> IntOf(1))}),
        p \in Maybe("pool", PoolObjects),
        r \in Maybe("run", {BoolOf(TRUE), BoolOf(FALSE), TextOf("yes")}),
        w \in Maybe("wait_ms", {IntOf(0), IntOf(5), IntOf(30), IntOf(-1)}),
        e \in Maybe("verbose", {BoolOf(TRUE)})}

Bodies == {<<>>, <<H!NotJson>>, <<[kind |-> "object", fields |-> "url" :> TextOf("u")]>>,
           <<[kind |-> "object", fields |-> "wait_ms" :> IntOf(0)]>>}
Paths == {SubSeq(r.path, 1, Len(r.path)) : r \in ToSet(H!g_routes)}
             \cup {<<"api", "v1", "devices", "0">>, <<"api", "v1", "devices", "1">>,
                   <<"api", "v1", "devices", "x">>, <<"api", "v1", "pools", "0">>,
                   <<"api", "v1", "quit", "">>, <<"api">>}

Figures == {[rates |-> r, device_of |-> [i \in DOMAIN r |-> (i + k) % n], wants_park |-> park,
             devices |-> [i \in 1 .. n |-> [index |-> i - 1, temp |-> t, power |-> i - 1]],
             stratum_down |-> down, holds_connection |-> holds, url |-> u, algo |-> "x11",
             state |-> "running", enabled |-> TRUE, retry_after |-> 0] :
               r \in UpTo(3, {0, 2}), n \in 1 .. 3, k \in {0, 1}, park \in BOOLEAN,
               t \in {0, 60}, down \in BOOLEAN, holds \in BOOLEAN, u \in {"", "u"}}
Miner == [rates |-> <<2>>, device_of |-> <<0>>, wants_park |-> FALSE,
          devices |-> <<[index |-> 0, temp |-> 0, power |-> 0]>>, stratum_down |-> FALSE,
          holds_connection |-> FALSE, url |-> "u", algo |-> "x11", state |-> "running",
          enabled |-> TRUE, retry_after |-> 0]

Arg == [text |-> "", lower |-> "", n |-> 0, word |-> FALSE, form |-> "", host |-> "",
        scheme |-> "", parts |-> <<>>]
On(key) == [key |-> key, arg |-> Arg, type |-> "true"]
With(key, text) == [key |-> key, arg |-> [Arg EXCEPT !.text = text], type |-> "string"]
Num(key, n) == [key |-> key, arg |-> [Arg EXCEPT !.n = n], type |-> "integer"]
Url(scheme, host, parts) ==
    [key |-> "url", type |-> "string",
     arg |-> [Arg EXCEPT !.scheme = scheme, !.host = host, !.parts = parts]]
Bind(form, host, n) ==
    [key |-> "api-bind", type |-> "string",
     arg |-> [Arg EXCEPT !.form = form, !.host = host, !.n = n]]
Userpass == [key |-> "userpass", type |-> "string", arg |-> [Arg EXCEPT !.parts = <<"n", "q">>]]
Arguments == {On("quiet"), On("debug"), On("benchmark"), On("no-stratum"), On("no-color"),
              Url("stratum+tcp", "h1", <<>>), Url("http", "h2", <<"n", "q">>),
              With("user", "m"), Userpass, Num("workgroup", 64), Num("workgroup", 0),
              Bind("both", "", 5000), With("config", "f")}
Entries == {On("debug"), [On("debug") EXCEPT !.type = "false"], On("benchmark"), On("_comment"),
            Url("stratum+tcp", "h3", <<"k">>), Num("workgroup", 32), Num("workgroup", 2000),
            [Num("workgroup", 32) EXCEPT !.type = "array"], Bind("both", "0.0.0.0", 1),
            With("user", "c"), With("config", "g"), On("typo")}

ConfigFiles == UpTo(1, Entries)
                   \cup {<<With("user", "c"), With("config", "g")>>,
                         <<With("config", "g"), With("user", "c")>>}

Cases ==
    [algorithm |-> [name : A!Names, device : SUBSET {"int64", "dot4x8", "dot module"},
                    loaded : SUBSET {"", "int64", "int64-wide", "int64-fold", "2x32"},
                    max : {1, 3}],
     compare   |-> [hash : [1 .. 4 -> 0 .. 2], target : [1 .. 4 -> {0, 1}], n : {1, 2, 4}],
     settings  |-> [names : UpTo(3, {"lbry", "scrypt", "groestl", "kawpow", "x11"}) \ {<<>>}],
     matrix    |-> [prevs : UpTo(4, 0 .. 2) \ {<<>>}],
     program   |-> [p : P!kForks \cup {Toy}, period : 0 .. 40],
     merge     |-> [a : {0, 7, 200}, b : {3, 90}, sel : 0 .. 255],
     lines     |-> [r : 0 .. 63],
     rehash    |-> [period : 0 .. 3, nonce : {0, 1, 77, 300}, lines : 0 .. 3,
                    missing : SUBSET {0, 1, 2}],
     items     |-> [calls : UpTo(3, [p : Epochal, e : {0, 1, 120}, memory : BOOLEAN])],
     span      |-> [offset : 0 .. 14, bytes : 1 .. 9],
     epochs    |-> [p : P!kForks, e : 0 .. 1400],
     object    |-> [p : {P!kMeowpow, P!kFiropow, P!kKawpow}, host : BOOLEAN,
                    at : {0, 1},
                    steps : UpTo(4, {Answers, Hash, 0, 2, 8000, 16000})],
     memory    |-> [max_shared_memory : 0 .. 200, max_workgroup_size : {16, 32, 64},
                    max_invocations : {0, 16, 32, 128}],
     enumerate |-> [found : UpTo(3, QueueFamilies), no_int64 : BOOLEAN],
     fit       |-> [kind : {"discrete", "cpu"}, memory : {0, 900}, inv : {0, 16, 64},
                    subgroup : {0, 4, 6}, count : {0, 3}, lanes : {0, 4}, local : {0, 24},
                    full : BOOLEAN, nonces : {0, 2}, declares : BOOLEAN, scratch : {0, 1},
                    kernels : {0, 2}, opt : {0, 3}, shared : {0, 40}],
     table     |-> [bytes : {16, 48, 64, 96, 128}, alloc : {0, 40, 64}, range : {0, 32},
                    chunk : {0, 16, 50}, declared : {0, 2, 4}, item : {4, 16},
                    times : [1 .. 2 -> {0, 1, 4, 9}], fails : {-1, 48}],
     constants |-> [program : 0 .. 4, kernel : 0 .. 3],
     spirv     |-> [code : UpTo(3, Instructions), cut : {0, 1}],
     workers   |-> [count : 1 .. 3, listed : UpTo(2, 0 .. 3), asked : 0 .. 5,
                    preferred : 0 .. 3],
     ranges    |-> [workers : 1 .. 8, batch : {1, 3, 8, 16, 40}],
     selftest  |-> [host : [0 .. 3 -> 0 .. 2], device : [0 .. 3 -> 0 .. 2],
                    nonce : {1, 2}],
     answers   |-> [steps : UpTo(3, [fork : DOMAIN ForkHash, at : {1, 2}])],
     burst     |-> [depth : 1 .. 3, window : 1 .. 3, ok : [1 .. 7 -> BOOLEAN]],
     sweep     |-> [fast : Configs, hi : {101, 130}, noisy : BOOLEAN, alone : BOOLEAN,
                    broken : SUBSET {Config("a", 64, 3), Config("b", 64, 3),
                                     Config("b", 32, 3)},
                    failing : SUBSET {Config("a", 64, 3), Config("b", 32, 2)},
                    kernel : {"", "b"}, workgroup : {0, 64}, queue_depth : {0, 3}],
     tuned     |-> [runs : UpTo(2, [opt : TuneOptions, shader : {1, 2}, swept : BOOLEAN,
                                    offered : {<<"a">>, <<"a", "b">>},
                                    fails : {"", "rename"}])],
     store     |-> [path : Files, fails : {"", "dump", "rename"},
                    killed : 0 .. 4],
     reads     |-> [method : {"GET", "POST"}, line : {3, 6, 7}, bytes : {0, 2, 3},
                    headers : HeaderSets, first : 3 .. 24, second : {14, 17}],
     serve     |-> [method : {"GET", "HEAD", "POST", "OPTIONS", "PUT"}, path : Paths,
                    bearer : {"", "t"}, token : {"", "t"}, remote : BOOLEAN,
                    control : BOOLEAN, body : Bodies, rc : {"ok", "throttled", "invalid"}],
     profile   |-> [fields : Profiles, state : {"paused", "switching"},
                    rc : {"ok", "timeout"}],
     figures   |-> [m : Figures],
     cmdline   |-> [argv : UpTo(3, Arguments), f : ConfigFiles],
     captures  |-> [log : UpTo(3, [ran : BOOLEAN, device_says : BOOLEAN, host_says : BOOLEAN,
                                   same : BOOLEAN, understood : BOOLEAN])]]

Suites == DOMAIN Cases
Ready(s) == [suite |-> s, called |-> FALSE, x |-> 0]

Init == c \in {Ready(s) : s \in Suites}
Call == /\ ~c.called
        /\ \E x \in Cases[c.suite] : c' = [suite |-> c.suite, called |-> TRUE, x |-> x]
Return == c.called /\ c' = Ready(c.suite)
Next == Call \/ Return
Spec == Init /\ [][Next]_c

(* What every call of a suite must satisfy: it is a step, from the suite to  *)
(* the call with its inputs.                                                 *)
Case(s, Holds(_)) == c'.suite = s /\ c'.called => Holds(c'.x)

----------------------------------------------------------------------------
(* Algorithms.                                                               *)

(* What prepare() pushes fits the 128 bytes Vulkan guarantees, reaches the   *)
(* kernel with every header word in front of the nonce (from the push block  *)
(* or the uniform block), and carries as many target words as the algorithm  *)
(* says its kernel compares; on the host every stage of the hash eats what   *)
(* the one before wrote, from the header to at least 32 bytes.               *)
HeaderReachesTheDigest ==
    Case("algorithm", LAMBDA x :
        LET algo == A!kAlgorithms[x.name]
            st   == algo.stages
        IN  /\ A!Words(algo.push) <= 32
            /\ 0 .. algo.nonce_word - 1 \subseteq A!Carried(algo.push) \cup algo.uniform
            /\ A!TargetWords(algo.push) * 32 = algo.screen_bits
            /\ st # <<>> => /\ Head(st).in = 4 * algo.header_words
                            /\ Last(st).out >= 32
            /\ \A i \in 1 .. Len(st) - 1 : st[i].out = st[i + 1].in)

(* A kernel that looks at the top words of the target only never drops a     *)
(* nonce that fulltest would call a share.                                   *)
ScreenKeepsShares ==
    Case("compare", LAMBDA x : A!fulltest(x.hash, x.target)
                                  => A!Screen(x.hash, x.target, x.n))

(* fulltest is the order of the numbers the words stand for.                 *)
Number(s) == FoldRight(LAMBDA w, n : w + 3 * n, s, 0)
FulltestIsTheOrder ==
    Case("compare", LAMBDA x : A!fulltest(x.hash, x.target)
                                  <=> Number(x.hash) <= Number(x.target))

(* The tuner is offered only kernels the device can build and that were      *)
(* found, and the kernel a run opens with is one of them whenever its module *)
(* was found.                                                                *)
OffersWhatRuns ==
    Case("algorithm", LAMBDA x :
        LET algo  == A!kAlgorithms[x.name]
            offer == A!kernels(algo, x.device, x.loaded, x.max)
            all   == A!kernels(algo, x.device, x.loaded, 9)
            opens == A!kernel(algo, x.device, x.loaded)
        IN  /\ Len(offer) <= x.max
            /\ \A i \in DOMAIN offer :
                   \E j \in DOMAIN algo.modules :
                       /\ algo.modules[j].variant = offer[i].variant
                       /\ algo.modules[j].needs \subseteq x.device
                       /\ offer[i].spirv
            /\ opens.spirv => \E i \in DOMAIN all : all[i] = opens)

(* After any switches the protocol client speaks for the algorithm switched  *)
(* to last, as if it had been the first, and writes the nonce where that     *)
(* algorithm's kernel reads it.                                              *)
SettingsOfTheLastSwitch ==
    Case("settings", LAMBDA x :
        LET last == x.names[Len(x.names)]
            now  == FoldLeft(A!bind_protocol_settings, A!Unbound, x.names)
        IN  /\ now = A!bind_protocol_settings(A!Unbound, last)
            /\ A!kAlgorithms[last].dialect # "progpow"
                  => now.nonce = A!kAlgorithms[last].nonce_word)

(* The matrix a header is hashed with is its own previous block's, whichever *)
(* headers came before.                                                      *)
MatrixOfTheHeader ==
    Case("matrix", LAMBDA x :
        LET cache == FoldLeft(LAMBDA m, p : A!matrix_for(m, [prev |-> p]), A!NoMatrix,
                              x.prevs)
        IN  cache.matrix = x.prevs[Len(x.prevs)])

----------------------------------------------------------------------------
(* ProgPoW.                                                                  *)

(* A period's program names registers that exist, never reads one register   *)
(* twice in an operation, and merges into every register once before it      *)
(* merges into any a second time.                                            *)
ProgramUsesEveryRegister ==
    Case("program", LAMBDA x :
        LET prog == P!build_program(x.p, x.period)
            to   == P!Written(x.p, prog)
        IN  /\ P!names_a_register(prog) \subseteq 0 .. x.p.regs - 1
            /\ \A i \in DOMAIN prog.math : prog.math[i].src1 # prog.math[i].src2
            /\ \A i, j \in DOMAIN to : i < j /\ j - i < x.p.regs => to[i] # to[j])

(* A merge loses nothing of the register it goes into: with the same data    *)
(* and selector no other value of the register gives the same result.        *)
MergeLosesNothing ==
    Case("merge", LAMBDA x :
        \A a \in 0 .. 255 : P!random_merge(a, x.b, x.sel) = P!random_merge(x.a, x.b, x.sel)
                                => a = x.a)

(* The sixteen lanes of a round merge every word of the line once between    *)
(* them.                                                                     *)
EveryWordOfTheLineOnce ==
    Case("lines", LAMBDA x :
        LET reads == [l \in 0 .. 15, i \in 1 .. 4 |-> P!LineOffset(l, x.r, i)]
        IN  {reads[w] : w \in DOMAIN reads} = 0 .. 63)

(* The host's hash reads lines of the dataset only, and is no hash at all    *)
(* when one it needs cannot be had.                                          *)
HashNeedsItsLines ==
    Case("rehash", LAMBDA x :
        LET lines == [i \in 0 .. 2 |-> [w \in 0 .. 63 |-> (w * 7 + i) % 256]]
            some  == [i \in 0 .. 2 |-> IF i \in x.missing THEN <<>> ELSE lines[i]]
            of(line) == P!hash(Toy, P!build_program(Toy, x.period),
                               [w \in 0 .. 63 |-> w], x.lines, line, "h", x.nonce)
            got == of(some)
            all == of(lines)
        IN  /\ got.reads \subseteq (0 .. x.lines - 1) \ x.missing
            /\ got.ok <=> x.lines > 0 /\ all.reads \cap x.missing = {}
            /\ got.ok => got.digest = all.digest)

(* Whatever was asked before, and whichever allocations failed, an item of   *)
(* the dataset is computed from the light cache of its own epochs.           *)
ItemOfItsEpochs ==
    Case("items", LAMBDA x :
        LET ask(s, k) == P!dataset_item(s.cache, P!epochs_for(k.p, k.e), 3, k.memory)
            run == FoldLeft(LAMBDA s, k : ask(s, k), [cache |-> P!NoCache, got |-> <<>>],
                            x.calls)
            last == x.calls[Len(x.calls)]
            want == P!epochs_for(last.p, last.e)
        IN  x.calls # <<>> /\ run.got # <<>>
                => run.got[1] = <<want.seed, P!light_cache_items(want.light)>>)

(* A span of the dataset is the same bytes wherever it is cut.               *)
SpanOfTheDataset ==
    Case("span", LAMBDA x :
        LET all == [b \in 1 .. 16 |-> <<(b - 1) \div 4, (b - 1) % 4>>]
        IN  P!shared_state(4, 4, x.offset, x.bytes) =
                IF x.offset + x.bytes > 16 THEN <<>>
                ELSE SubSeq(all, x.offset + 1, x.offset + x.bytes))

(* The memory a kernel reserves for the largest epoch its fork declares is   *)
(* enough for every epoch up to it.                                          *)
LargestEpochIsLargest ==
    Case("epochs", LAMBDA x :
        x.e <= x.p.max_epoch =>
            LET s == P!kernel(P!ProgPowObject(x.p, x.e, FALSE), {"interp", "dag"})
            IN  s.shared <= s.shared_max)

(* Through any run of headers a candidate is re-hashed with the L1 words of  *)
(* the epoch whose dataset it reads; the answers a fork derives for itself   *)
(* are epoch 0's and cross a change of program.                              *)
Play(o, step) ==
    CASE step = Answers -> P!reference_answers(o)
      [] step = Hash    -> P!full_hash(o, 1).o
      [] OTHER            -> P!retarget(o, step)
ObjectOfOneEpoch ==
    Case("object", LAMBDA x :
        LET o == FoldLeft(Play, P!ProgPowObject(x.p, x.at, x.host), x.steps)
            h == P!full_hash(o, 1)
        IN  /\ h.l1 = <<h.dag>>
            /\ o.derived # {} =>
                   /\ {d.l1 : d \in o.derived} = {<<P!epochs_for(x.p, 0)>>}
                   /\ Cardinality(o.derived) = 2)

(* The shared memory a kernel is specialised for, the exchange, the L1 copy  *)
(* and the seeds together, is memory the device has.                         *)
SharedMemoryFits ==
    Case("memory", LAMBDA x : P!exchange(x) <= x.max_shared_memory
                                  => P!SharedMemory(x) <= x.max_shared_memory)
----------------------------------------------------------------------------
(* DeviceFit.                                                                *)

(* An index names one device: what is opened for it is what was described    *)
(* for it, as long as no device without a compute queue comes before it in   *)
(* the list (vulkan_backend.cpp:598 keeps its handle).                       *)
IndexMeansOneDevice ==
    Case("enumerate", LAMBDA x :
        LET raw == [i \in DOMAIN x.found |->
                       [is |-> i, families |-> x.found[i], subgroups |-> i # 2,
                        subgroup_size |-> 32, int64 |-> TRUE,
                        heaps |-> <<[local |-> TRUE, size |-> i],
                                    [local |-> FALSE, size |-> 9]>>]]
            b == D!enumerate(raw, x.no_int64)
            skipped(i) == \E j \in 1 .. i : D!Family(x.found[j]) = D!None
        IN  \A i \in DOMAIN b.devices :
                LET opened == D!device(b, i)
                IN  /\ "compute" \in raw[opened.info.is].families[opened.family]
                    /\ ~skipped(i) => opened.handle.is = opened.info.is
                    /\ opened.info.memory = opened.info.is)

(* A kernel that is said to fit does: its workgroup is one the device runs   *)
(* and holds whole hashes; all the kernels of the device together, every     *)
(* dispatch in flight, stay inside the budget; and through any retuning no   *)
(* batch needs more workgroups than the device takes or more scratch than    *)
(* was allocated.                                                            *)
Retunes == {<<1, 1, 1, 1>>, <<64, 1, 64, 1>>, <<2, 9, 2, 2>>, <<3, 1, 5, 30>>}
KernelFits ==
    Case("fit", LAMBDA x :
        LET info == [kind |-> x.kind, memory |-> x.memory, max_invocations |-> x.inv,
                     max_workgroup_size |-> 64, subgroup_size |-> x.subgroup,
                     max_workgroup_count |-> x.count]
            spec == [lanes |-> x.lanes, local_size_x |-> x.local, queue_depth |-> 2,
                     full_subgroups |-> x.full, nonces |-> x.nonces,
                     declares_nonces |-> x.declares, scratch_bytes |-> x.scratch,
                     concurrent_kernels |-> x.kernels]
            opt  == [workgroup |-> 0, queue_depth |-> 0, nonces |-> x.opt]
            got  == D!vulkan_kernel_fit(info, spec, x.shared, opt)
            fit  == got[1]
            sizes(times) ==
                LET go[n \in 0 .. Len(times)] ==
                        IF n = 0 THEN D!InitialBatch(fit, info)
                        ELSE D!retune([go[n - 1] EXCEPT !.hold = 0], times[n], fit, info)
                IN  {go[n].batch : n \in DOMAIN go}
        IN  got # <<>> =>
              /\ fit.local_size_x % fit.lanes = 0
              /\ x.full => fit.local_size_x % x.subgroup = 0
              /\ x.local = 0 /\ x.inv # 0 => fit.local_size_x <= x.inv
              /\ x.scratch # 0 =>
                    x.shared + (IF x.kernels = 0 THEN 1 ELSE x.kernels)
                                  * fit.depth * fit.max_batch * fit.lanes * x.scratch
                        <= D!vulkan_scratch_budget(info)
              /\ \A times \in Retunes : \A batch \in sizes(times) :
                    LET groups == D!Groups(batch, fit)
                    IN  /\ batch >= 1
                        /\ x.count # 0 => groups <= x.count
                        /\ x.scratch # 0 => groups * fit.per_group <= fit.max_batch)

(* A planned table is bound in pieces the device can bind, every byte of an  *)
(* upload and every item of a setup pass is written once, into the piece and *)
(* at the place where the shader looks for it, and no pass crosses a piece.  *)
TableIsWhole ==
    Case("table", LAMBDA x :
        LET info == [max_allocation |-> x.alloc, max_binding_range |-> x.range]
            spec == [shared_chunk_bytes |-> x.chunk, shared_chunks |-> x.declared,
                     shared_bytes |-> x.bytes, scratch_bytes |-> 1]
            got  == D!plan(info, spec, x.bytes)
            p    == got[1]
            size(i) == IF i < p.count THEN p.chunk ELSE x.bytes - (p.count - 1) * p.chunk
            dst  == [i \in 1 .. p.count |-> size(i)]
            up   == D!upload(dst, x.bytes, x.fails)
            items == x.bytes \div x.item
            gen  == D!generate(items, x.bytes, p.chunk, p.count, x.times)
            bound == D!Bound(spec, [i \in 1 .. p.count |-> i])
        IN  got # <<>> =>
              /\ \A i \in 1 .. p.count : /\ x.alloc # 0 => dst[i] <= x.alloc
                                         /\ x.range # 0 => dst[i] <= x.range
                                         /\ bound[2 + i] = i
              /\ up.offset = IF up.ok THEN x.bytes ELSE x.fails
              /\ \A i \in DOMAIN up.copies :
                    LET k == up.copies[i]
                    IN  /\ (k.piece - 1) * p.chunk + k.within = k.offset
                        /\ k.within + k.span <= dst[k.piece]
                        /\ k.offset = IF i = 1 THEN 0
                                      ELSE up.copies[i - 1].offset + up.copies[i - 1].span
              /\ gen # <<>> => gen[Len(gen)].first + gen[Len(gen)].count = items
              /\ \A i \in DOMAIN gen :
                    LET k == gen[i]
                    IN  /\ (k.piece - 1) * p.chunk + k.place * x.item = k.first * x.item
                        /\ (k.place + k.count) * x.item <= dst[k.piece]
                        /\ k.first = IF i = 1 THEN 0
                                     ELSE gen[i - 1].first + gen[i - 1].count)

(* No specialisation constant takes the identifier of another, and a module  *)
(* is asked for nonces per invocation only if one of its instructions        *)
(* declares that constant.                                                   *)
ConstantsAreTheirOwn ==
    /\ Case("constants", LAMBDA x :
          LET all == D!SpecConstants([i \in 1 .. 6 |-> i], [i \in 1 .. x.program |-> 10 + i],
                                     [i \in 1 .. x.kernel |-> 20 + i])
          IN  \A i, j \in DOMAIN all : i # j => all[i].id # all[j].id)
    /\ Case("spirv", LAMBDA x :
          LET words == [i \in 1 .. 5 |-> Operand(1)] \o FlattenSeq(x.code)
              cut   == SubSeq(words, 1, Len(words) - x.cut)
              whole == IF x.cut = 0 THEN x.code ELSE Front(x.code)
          IN  x.code # <<>> =>
                (D!spirv_declares_constant(cut, 5)
                    <=> \E i \in DOMAIN whole : whole[i] = Decoration(1, 5)))

----------------------------------------------------------------------------
(* Startup.                                                                  *)

(* Workers are spread evenly over the devices selected, every device gets    *)
(* one when there are enough, and no two workers of a run walk the same      *)
(* nonce while a batch fits into a worker's range.                           *)
EveryWorkerItsOwnNonces ==
    /\ Case("workers", LAMBDA x :
          LET selected == U!select_devices(x.count, x.listed)
              n == U!Workers(x.asked, x.preferred)
              of == U!worker_device(selected, n)
              load(d) == Cardinality({i \in DOMAIN of : of[i] = d})
          IN  selected # <<>> /\ IsInjective(selected) =>
                \A d, e \in ToSet(selected) : load(d) - load(e) \in -1 .. 1)
    /\ Case("ranges", LAMBDA x :
          LET walked(t) ==
                  LET end == U!end_nonce(t, x.workers)
                      go[k \in 0 .. 64] ==
                          IF k = 0 THEN U!first_nonce(t, x.workers)
                          ELSE LET at == go[k - 1]
                               IN  at + U!NextBatch(at, end, x.batch)
                  IN  U!first_nonce(t, x.workers) .. go[64] - 1
          IN  x.batch <= U!end_nonce(0, x.workers) =>
                \A t, u \in 0 .. x.workers - 1 : t # u => walked(t) \cap walked(u) = {})

(* A device that hashes as the host does passes the self-test whenever its   *)
(* range has one smallest hash; one that passes agrees with the host on the  *)
(* published digest and on the only nonce of the range that meets the        *)
(* smallest. The cache keeps no answer of another vector as long as a vector *)
(* of another fork never lies where one has lain (progpow.cpp:346 says that  *)
(* callers drop it with the algorithm; self_test.cpp:124 never does).        *)
SelfTestIsTheReference ==
    /\ Case("selftest", LAMBDA x :
          LET got   == U!kernel_reproduces(<<>>, 1, x.host, x.device, x.nonce)
              start == U!Start(x.nonce)
              best  == U!Smallest(x.host, start)
              range == start .. start + 2
          IN  /\ x.device = x.host =>
                    (got.ok <=> Cardinality({n \in range : x.host[n] = best.digest}) = 1)
              /\ got.ok => /\ x.device[x.nonce] = x.host[x.nonce]
                           /\ \A n \in range : x.host[best.nonce] <= x.host[n]
                           /\ {n \in range : x.device[n] <= best.digest} = {best.nonce})
    /\ Case("answers", LAMBDA x :
          LET test(s, k) ==
                  LET h == ForkHash[k.fork]
                      r == U!kernel_reproduces(s.cache, k.at, h, h, 1)
                  IN  [cache |-> r.cache, ok |-> s.ok /\ r.ok]
              reused == \E i, j \in DOMAIN x.steps : /\ x.steps[i].at = x.steps[j].at
                                                     /\ x.steps[i].fork # x.steps[j].fork
          IN  ~reused => FoldLeft(test, [cache |-> <<>>, ok |-> TRUE], x.steps).ok)

(* A measurement counts what came back inside its window and leaves nothing  *)
(* on the device unless the device stopped answering.                        *)
BurstEmptiesThePipeline ==
    Case("burst", LAMBDA x :
        LET b == U!burst(x.depth, x.window, x.ok)
        IN  /\ b.held = 0 \/ b.stuck
            /\ b.rate \in {U!Failed, x.window})

(* A sweep ends on a configuration that was built and ran every round, with  *)
(* the rate measured for it; and without noise that is no slower than the    *)
(* default it started from.                                                  *)
SweepIsNoWorse ==
    Case("sweep", LAMBDA x :
        LET rate == [k \in Configs, r \in 1 .. 3 |->
                        IF k \in x.failing /\ r = 2 THEN U!Failed
                        ELSE (IF k = x.fast THEN x.hi ELSE 100)
                                 + (IF x.noisy /\ k.local = 32 THEN 20 * (r - 2) ELSE 0)]
            dev == [builds |-> Configs \ x.broken, rate |-> rate, alone |-> x.alone,
                    default |-> [a |-> 64, b |-> 32], depth |-> 3, base |-> "a",
                    widths |-> <<32, 64>>]
            opt == [kernel |-> x.kernel, workgroup |-> x.workgroup,
                    queue_depth |-> x.queue_depth]
            out == U!sweep(dev, <<"a", "b">>, opt)
            rounds(k) == [r \in 1 .. 3 |-> rate[k, r]]
            base == IF x.kernel = "b" THEN Config("b", 32, 3) ELSE Config("a", 64, 3)
        IN  out.swept =>
              /\ out.config \in dev.builds
              /\ out.rate > 0 /\ (~x.noisy => out.rate = U!score(rounds(out.config)))
              /\ ~x.noisy /\ base \in dev.builds => out.rate >= U!score(rounds(base)))

(* What a run mines with was measured as a whole, for this shader and on a   *)
(* kernel this build offers: a sweep that an option took part of away is     *)
(* never found by another run, and a kernel the user named is that kernel.   *)
TuningIsOfTheWhole ==
    Case("tuned", LAMBDA x :
        LET plain(o) == /\ o.kernel = "" /\ o.workgroup = 0
                        /\ o.queue_depth = 0 /\ o.nonces = 0
            play(s, k) ==
                LET key  == U!tune_key([device |-> 1, driver |-> 1], "x", k.shader)
                    best == [Tuning(k.offered[Len(k.offered)], 32 * k.shader, 3, plain(k.opt))
                                EXCEPT !.variant = IF k.opt.kernel # "" THEN k.opt.kernel ELSE @]
                IN  U!tune_devices(s.fs, key, k.opt, IF k.swept THEN <<best>> ELSE <<>>,
                                    k.fails)
            end  == FoldLeft(play, [fs |-> [path |-> U!Absent, tmp |-> U!Absent], mem |-> <<>>],
                             x.runs)
            last == x.runs[Len(x.runs)]
            spec == U!tuned_kernel("a", last.offered, last.opt, end.mem)
        IN  x.runs # <<>> =>
              /\ end.mem # <<>> => (end.mem[1].whole \/ ~plain(last.opt))
                                   /\ end.mem[1].local = 32 * last.shader
              /\ spec # <<>> => /\ spec[1].variant \in ToSet(last.offered)
                                /\ last.opt.kernel \in {"", spec[1].variant}
              /\ spec = <<>> => last.opt.kernel \notin ToSet(last.offered))

(* Whenever the miner is killed and whichever step fails, the file is whole: *)
(* the old one as it was until the new one is, the new one with every other  *)
(* entry of the old, or none between the remove and the rename or after a    *)
(* rename that failed; and a step that fails leaves nothing beside it.       *)
CacheIsWhole ==
    Case("store", LAMBDA x :
        LET t  == Tuning("b", 64, 4, TRUE)
            fs == U!tune_cache_store([path |-> x.path, tmp |-> U!Absent], 1, t, x.fails,
                                     x.killed)
            at(file, key) == U!tune_cache_load(file, key)
            stored == x.killed = 4 /\ x.fails = ""
        IN  /\ x.killed <= 2 \/ x.fails = "dump" => fs.path = x.path
            /\ stored => at(fs.path, 1) = <<t>>
            /\ fs.path \in {x.path, U!Absent} \/ (stored /\ at(fs.path, 2) = at(x.path, 2))
            /\ x.killed = 4 => fs.tmp = U!Absent)

(* A replay finds fault exactly when some capture of the file that ran still *)
(* disagrees, and a run keeps no more captures than its limit.               *)
ReplayFindsTheFault ==
    Case("captures", LAMBDA x :
        LET bad(k) == [ran |-> k.ran, device_says |-> k.device_says, host_says |-> k.host_says,
                       device_hash |-> 1, host_hash |-> IF k.same THEN 1 ELSE 2,
                       understood |-> k.understood]
            log == FoldLeft(LAMBDA l, k : U!capture_candidate(l, bad(k), TRUE),
                            [counted |-> 0, written |-> 0, file |-> <<>>], x.log)
            got == U!read_captures(log.file)
        IN  /\ log.counted = Len(x.log) /\ Len(log.file) <= 2
            /\ got # <<>> =>
                  (U!replay_captures(got) <=> \A i \in DOMAIN got :
                      got[i].ran => /\ got[i].device_says = got[i].host_says
                                    /\ got[i].device_says =>
                                          got[i].device_hash = got[i].host_hash))

----------------------------------------------------------------------------
(* Api and Options.                                                          *)

(* A request is served for what it is, however the network cut it up: with   *)
(* two exceptions the pieces it arrives in make no difference. Line ends     *)
(* count towards the size of a header that is not whole yet and not towards  *)
(* that of one that is (api_http.c:112, 175), so a header near its limits    *)
(* is too large only if it comes in pieces; and a POST without a             *)
(* Content-Length is refused for a body only if that has come already.       *)
CutAnywhere ==
    Case("reads", LAMBDA x :
        LET msg == [method |-> x.method, path |-> <<"api", "v1">>, fault |-> "",
                    line |-> x.line, headers |-> x.headers, bytes |-> x.bytes,
                    json |-> [kind |-> "object", fields |-> H!NoFields], query |-> -1]
            all == H!Total(msg)
            cut == H!ReadRequest(msg, {n \in {x.first, x.second} : n < all} \cup {all})
            one == H!ReadRequest(msg, {all})
        IN  \/ cut = one
            \/ cut.st = "too large" /\ H!HeaderEnd(msg) > 14
            \/ /\ one.st = "bad" /\ cut.st = "ok" /\ cut.body = <<>>
               /\ x.method = "POST" /\ H!Header(x.headers, "Content-Length") = <<>>)

(* Nothing changes the miner but a POST whose sender holds the token, on a   *)
(* miner that lets others write, and to drive it only on one that lets       *)
(* itself be driven; one request makes one change at most, and a change that *)
(* was refused is not answered as one that was made. Without the token no    *)
(* answer tells one path from another. What the index lists is what is not   *)
(* answered 501.                                                             *)
Message(x, method, path) ==
    [method |-> method, path |-> path, fault |-> "", line |-> 3,
     headers |-> (IF x.bearer = "" THEN <<>> ELSE <<HeaderLine("Authorization", 3, 0)>>)
                     \o (IF x.body = <<>> THEN <<>> ELSE <<HeaderLine("Content-Length", 3, 2)>>),
     bytes |-> IF x.body = <<>> THEN 0 ELSE 2,
     json |-> IF x.body = <<>> THEN H!NotJson ELSE x.body[1], query |-> -1]
ChangesAreAdmitted ==
    Case("serve", LAMBDA x :
        LET opt == [token |-> x.token, remote |-> x.remote, control |-> x.control,
                    cors |-> x.token = ""]
            rc  == IF x.control THEN x.rc ELSE "disabled"
            m   == [Miner EXCEPT !.enabled = x.control]
            of(path) == H!serve_one(Message(x, x.method, path), {999}, opt, m, rc)
            got == of(x.path)
            trusted == x.token = "" \/ x.bearer = x.token
        IN  /\ got.sent.call.op # "none" =>
                  /\ trusted /\ x.remote /\ x.method = "POST"
                  /\ got.sent.status < 400 =>
                        /\ got.sent.call.op # "quit" => x.control /\ rc \in {"ok", "accepted"}
                        /\ got.sent.what = "body"
            /\ got.shutdown <=> got.sent.call.op = "quit"
            /\ ~trusted => got = of(<<"api">>)
            /\ got.sent.status = 429 => got.sent.body[1] >= 1
            /\ trusted /\ x.method = "GET" /\ Len(x.path) > 2 /\ x.path[1] = "api"
                  => LET path == H!Stripped(x.path)
                         name == SubSeq(path, 3, Len(path))
                     IN  got.sent.status = 501 => ~Contains(H!h_index, name)
            /\ IsInjective(H!h_index))

(* A profile is applied whole or refused whole: what reaches the barrier is  *)
(* one call that carries everything the body said, an algorithm only with a  *)
(* pool that sells it, and a body with a field that is not understood        *)
(* reaches nothing. A client that asked not to wait is not taken for one     *)
(* that said nothing about waiting.                                          *)
ProfileIsWhole ==
    Case("profile", LAMBDA x :
        LET f == x.fields
            has(k) == k \in DOMAIN f
            req == [st |-> "ok", method |-> "POST", path |-> <<>>, bearer |-> "", query |-> -1,
                    body |-> <<[kind |-> "object", fields |-> f]>>]
            got == H!h_control_profile(req, [Miner EXCEPT !.state = x.state], x.rc)
            k   == got.call
        IN  /\ got.status < 400 =>
                  /\ has("algo") => k.algo = f["algo"].text \/ f["algo"].text = Miner.algo
                  /\ has("pool") <=> k.pool # <<>>
                  /\ has("pool") => k.pool[1] = "u"
                  /\ has("run") <=> k.want # ""
                  /\ k.op # "none" => (has("wait_ms") <=> k.wait > 0)
                  /\ ~has("verbose")
            /\ k.algo # "" => k.pool # <<>>
            /\ got.status = 409 /\ x.rc = "ok" => x.state = "switching")

(* The figures of one answer add up: the threads' and the devices' rates to  *)
(* the miner's, a parked miner's to nothing; an exposition is whole or not   *)
(* there at all, with every family's lines behind its title and one state    *)
(* that is on.                                                               *)
FiguresAddUp ==
    Case("figures", LAMBDA x :
        LET sum(s) == FoldLeft(LAMBDA a, d : a + d.hashrate, 0, s)
            all == H!collect_summary(x.m).hashrate
            met == H!h_metrics(x.m)
            lines == met.body[1]
        IN  /\ sum(H!collect_devices(x.m)) = all /\ sum(H!collect_threads(x.m)) = all
            /\ x.m.wants_park => all = 0
            /\ met.status = 200 =>
                  /\ \A i \in DOMAIN lines :
                        lines[i].label = -1 \/ lines[i - 1].family = lines[i].family
                  /\ \A i, j \in DOMAIN lines : lines[i] = lines[j] => i = j
                  /\ lines[Len(lines)].family = "host_disagreements"
                  /\ Cardinality({i \in DOMAIN lines : lines[i].family = "control_state"
                                                          /\ lines[i].value = 1}) = 1
            /\ H!h_health(x.m).status = 200 <=> x.m.stratum_down => x.m.holds_connection)

(* The command line overrides the configuration file wherever it names it,   *)
(* and the order of the arguments matters only to those that set the same    *)
(* thing. A benchmark run never has a pool, and asking for more output never *)
(* gives less.                                                               *)
CommandLineWins ==
    Case("cmdline", LAMBDA x :
        LET files == [f |-> [object |-> TRUE, entries |-> x.f],
                      g |-> [object |-> TRUE, entries |-> <<With("user", "g"), On("benchmark")>>]]
            got   == O!parse_cmdline(x.argv, files)
            own   == SelectSeq(x.argv, LAMBDA a : a.key # "config")
            alone == O!parse_cmdline(own, files)
            sets(i) == LET o == O!parse_cmdline(<<own[i]>>, files)
                       IN  DOMAIN o.texts \cup DOMAIN o.numbers
            apart == \A i, j \in DOMAIN own : i # j => sets(i) \cap sets(j) = {}
            orders == {p \in [DOMAIN x.argv -> DOMAIN x.argv] : IsInjective(p)}
        IN  /\ ~got.exit =>
                  /\ \A t \in DOMAIN alone.texts : got.texts[t] = alone.texts[t]
                  /\ \A t \in DOMAIN alone.numbers : got.numbers[t] = alone.numbers[t]
                  /\ ~("benchmark" \in got.flags /\ "have_stratum" \in got.flags)
                  /\ ~("debug" \in got.flags /\ "quiet" \in got.flags)
            /\ apart => \A p \in orders :
                  LET o == O!parse_cmdline([i \in DOMAIN x.argv |-> x.argv[p[i]]], files)
                  IN  o.exit = got.exit /\ (~o.exit => o = got))

----------------------------------------------------------------------------
(* The promises of the four parts.                                           *)

(* What the pool's header and target say reaches the kernel and the hash     *)
(* that decides about a share, whichever algorithms ran before: the parts    *)
(* are above, under Algorithms.                                              *)
AlgorithmsKeepTheHeader ==
    [][ /\ HeaderReachesTheDigest /\ ScreenKeepsShares /\ FulltestIsTheOrder
        /\ OffersWhatRuns /\ SettingsOfTheLastSwitch /\ MatrixOfTheHeader ]_c

(* The host's ProgPoW hashes with the program, the dataset and the L1 words  *)
(* of one epoch, through any changes of epoch, and the device's has the      *)
(* memory for them: the parts are above, under ProgPoW.                      *)
ProgPowIsOfOneEpoch ==
    [][ /\ ProgramUsesEveryRegister /\ MergeLosesNothing /\ EveryWordOfTheLineOnce
        /\ HashNeedsItsLines /\ ItemOfItsEpochs /\ SpanOfTheDataset
        /\ LargestEpochIsLargest /\ ObjectOfOneEpoch /\ SharedMemoryFits ]_c

(* What is started on a device is what was described, tested, measured and   *)
(* recorded for it, within what it has: the parts are above, under DeviceFit *)
(* and Startup.                                                              *)
DevicesRunWhatWasMeasured ==
    [][ /\ IndexMeansOneDevice /\ KernelFits /\ TableIsWhole /\ ConstantsAreTheirOwn
        /\ EveryWorkerItsOwnNonces /\ SelfTestIsTheReference /\ BurstEmptiesThePipeline
        /\ SweepIsNoWorse /\ TuningIsOfTheWhole /\ CacheIsWhole /\ ReplayFindsTheFault ]_c

(* The miner does what its user asked, no more and no less, on the command   *)
(* line, in a file or over the API: the parts are above, under Api and       *)
(* Options.                                                                  *)
MinerDoesWhatWasAsked ==
    [][ /\ CutAnywhere /\ ChangesAreAdmitted /\ ProfileIsWhole /\ FiguresAddUp
        /\ CommandLineWins ]_c
=============================================================================

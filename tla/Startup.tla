------------------------------ MODULE Startup ------------------------------
(***************************************************************************)
(* Between the command line and the first dispatch: which devices and      *)
(* which part of the nonce space a worker gets (main.cpp, worker.cpp), the *)
(* self-test (self_test.cpp), the sweep that tunes a device (tune.cpp) and *)
(* the file that remembers it (tune_cache.cpp), and the captures a later   *)
(* run replays (candidate_log.cpp, replay.cpp).                            *)
(***************************************************************************)
EXTENDS Integers, Sequences, FiniteSets, FiniteSetsExt, SequencesExt, TLC

CONSTANTS kBefore, kSpan,     \* 100 and 256 nonces around a known answer
          kMaxRecords,        \* 64 captures a run
          kRangeMargin,       \* 0x20
          Space, Word         \* 2^32 nonces to walk in integers of 2^64

None == <<>>
Last1(s) == s[Len(s)]

----------------------------------------------------------------------------
(* Devices and workers.                                                      *)

(* select_devices: what --devices lists, in its order, or every device; an   *)
(* item that is no index of a device refuses the list.                       *)
select_devices(count, listed) ==
    IF listed = <<>> THEN [i \in 1 .. count |-> i - 1]
    ELSE IF \E i \in DOMAIN listed : listed[i] \notin 0 .. count - 1 THEN None
    ELSE listed

(* main: how many workers, and the device of each.                           *)
Workers(asked, preferred) == LET n == IF asked # 0 THEN asked ELSE preferred
                             IN  IF n < 1 THEN 1 ELSE n
worker_device(selected, workers) ==
    [i \in 0 .. workers - 1 |-> selected[(i % Len(selected)) + 1]]

(* bind_algo: a worker's part of the nonce space.                            *)
NonceRange(workers) == Space \div workers
first_nonce(thr_id, workers) == NonceRange(workers) * thr_id
end_nonce(thr_id, workers) ==
    (first_nonce(thr_id, workers) + NonceRange(workers) - kRangeMargin) % Word

(* The batch at a nonce, in unsigned arithmetic; 0 when the range is done.   *)
NextBatch(nonce, end, preferred) ==
    IF nonce > (end - preferred) % Word THEN (end - nonce) % Word ELSE preferred

(* The CPU backend hashes when it is asked for the answer, and stops at the  *)
(* most solutions it may return; the null backend finds nothing.             *)
CpuCollect(hash, target, start, count, max) ==
    LET found == SetToSortSeq({n \in start .. start + count - 1 : hash[n] <= target}, <)
    IN  SubSeq(found, 1, IF Len(found) < max THEN Len(found) ELSE max)
NullCollect == <<>>

----------------------------------------------------------------------------
(* The self-test.                                                            *)

(* smallest_in_range: with the first of the smallest digests, and whether    *)
(* another nonce of the range has the same one.                              *)
Better(best, nonce, digest) ==
    IF digest < best.digest THEN [nonce |-> nonce, digest |-> digest, alone |-> TRUE]
    ELSE IF digest = best.digest THEN [best EXCEPT !.alone = FALSE]
    ELSE best
Smallest(hash, start) ==
    FoldLeft(LAMBDA best, i : Better(best, start + i, hash[start + i]),
             [nonce |-> start, digest |-> hash[start], alone |-> TRUE],
             [i \in 1 .. kSpan - 1 |-> i])

(* The cache is for the life of the process, keyed by where the answer is.   *)
smallest_in_range(cache, address, hash, start) ==
    IF address \in DOMAIN cache THEN cache
    ELSE (address :> Smallest(hash, start)) @@ cache

(* A dispatch finds the nonces whose digest the device thinks is low enough; *)
(* exactly the one expected, with the digest expected.                       *)
Found(device, target, start, count) ==
    {n \in start .. start + count - 1 : device[n] <= target}
one_solution(device, target, start, count, nonce, digest) ==
    Found(device, target, start, count) = {nonce} /\ device[nonce] = digest

Start(nonce) == IF nonce > kBefore THEN nonce - kBefore ELSE 0

kernel_reproduces(cache, address, hash, device, nonce) ==
    LET known == smallest_in_range(cache, address, hash, Start(nonce))
        best  == known[address]
        first == one_solution(device, hash[nonce], nonce, 1, nonce, hash[nonce])
    IN  [cache |-> IF first THEN known ELSE cache,
         ok    |-> /\ first
                   /\ best.alone
                   /\ one_solution(device, best.digest, Start(nonce), kSpan, best.nonce,
                                   best.digest)]

(* self_test: the kernels a device is offered, or the one the user named;    *)
(* all of them have to build and to reproduce.                               *)
Named(variants, opt_kernel) ==
    LET at == {i \in DOMAIN variants : variants[i] = opt_kernel}
    IN  IF opt_kernel = "" THEN variants
        ELSE IF at = {} THEN <<>> ELSE <<variants[Min(at)]>>
self_test(variants, opt_kernel, right) ==
    LET tested == Named(variants, opt_kernel)
    IN  tested # <<>> /\ \A i \in DOMAIN tested : tested[i] \in right

----------------------------------------------------------------------------
(* The sweep. A configuration is [variant, local, depth]; dev tells which    *)
(* build and reproduce the answers and what each round of a race measures.   *)

kRounds == 3
Failed == -1

(* burst: the pipeline is filled, then every retired dispatch is counted and *)
(* replaced until the window ends; then it is emptied. ok[i] is how the i-th *)
(* call on the device ends; the result is what was counted and what is left. *)
burst(depth, window, ok) ==
    LET call(s, kind) ==
            IF s.failed /\ kind # "drain" THEN s
            ELSE IF kind = "drain" /\ (s.stuck \/ s.held = 0) THEN s
            ELSE LET good == s.at > Len(ok) \/ ok[s.at]
                     t    == [s EXCEPT !.at = s.at + 1]
                 IN  CASE ~good /\ kind = "drain" -> [t EXCEPT !.stuck = TRUE]
                       [] ~good                   -> [t EXCEPT !.failed = TRUE]
                       [] kind = "launch"         -> [t EXCEPT !.held = s.held + 1]
                       [] kind = "retire" -> [t EXCEPT !.held = s.held - 1,
                                                       !.hashes = s.hashes + 1]
                       [] OTHER           -> [t EXCEPT !.held = s.held - 1]
        calls == [i \in 1 .. depth |-> "launch"]
                     \o [i \in 1 .. 2 * window |-> IF i % 2 = 1 THEN "retire" ELSE "launch"]
                     \o [i \in 1 .. depth |-> "drain"]
        end == FoldLeft(call, [at |-> 1, held |-> 0, hashes |-> 0, failed |-> FALSE,
                               stuck |-> FALSE], calls)
    IN  [rate |-> IF end.failed THEN Failed ELSE end.hashes, held |-> end.held,
         stuck |-> end.stuck]

(* A candidate's rounds in order, its score, the middle one, and how far the *)
(* rounds vary.                                                              *)
Ordered(rate) == SortSeq(rate, <)
score(rate) ==
    IF rate = <<>> \/ Failed \in {rate[i] : i \in DOMAIN rate} THEN Failed
    ELSE Ordered(rate)[(Len(rate) \div 2) + 1]
Width(rate) == Last1(Ordered(rate)) - Ordered(rate)[1]

(* pick: the fastest, but the default unless it is beaten by more than two   *)
(* percent and by more than both vary; 0 where every candidate failed.       *)
Beats(w, d) ==
    LET sw == score(w.rate)
        sd == score(d.rate)
    IN  /\ 100 * (sw - sd) > 2 * sd
        /\ 2 * sw * (sw - sd) > Width(w.rate) * sd + Width(d.rate) * sw
pick(candidates) ==
    LET runs    == {i \in DOMAIN candidates : score(candidates[i].rate) # Failed}
        top     == {i \in runs : \A j \in runs :
                        score(candidates[i].rate) >= score(candidates[j].rate)}
        default == {i \in runs : candidates[i].is_default}
    IN  IF runs = {} THEN 0
        ELSE IF default = {} \/ Beats(candidates[Min(top)], candidates[Max(default)])
             THEN Min(top)
        ELSE Max(default)

(* race: all candidates are held at once, and were built before. race_alone: *)
(* each is built for its rounds, twice, and not again once it failed.        *)
Rounds(dev, c) == [r \in 1 .. kRounds |-> dev.rate[c, r]]
race(dev, candidates) ==
    [i \in DOMAIN candidates |->
        [candidates[i] EXCEPT !.rate = Rounds(dev, candidates[i].config)]]
race_alone(dev, candidates) ==
    [i \in DOMAIN candidates |->
        LET k == candidates[i].config
        IN  [candidates[i] EXCEPT
                !.rate = IF k \notin dev.builds THEN <<Failed>>
                         ELSE IF Failed \in {dev.rate[k, r] : r \in 1 .. kRounds}
                              THEN Rounds(dev, k)
                         ELSE Rounds(dev, k) \o Rounds(dev, k)]]
Race(dev, candidates) ==
    IF dev.alone THEN race_alone(dev, candidates)
    ELSE race(dev, SelectSeq(candidates, LAMBDA k : k.config \in dev.builds))

(* local_sizes, doubling from a subgroup, and queue_depths.                  *)
local_sizes(info) ==
    LET least(a, b) == IF b # 0 /\ b < a THEN b ELSE a
        limit == least(least(1024, info.max_workgroup_size), info.max_invocations)
        step  == IF info.subgroup_size > 1 THEN info.subgroup_size ELSE 32
        sizes == {n \in {step, 2 * step, 4 * step, 8 * step, 16 * step, 32 * step} :
                      n <= limit}
    IN  IF sizes = {} THEN <<limit>> ELSE SetToSortSeq(sizes, <)
queue_depths == <<1, 2, 3, 4>>

Candidate(v, local, depth, default) ==
    [config |-> [variant |-> v, local |-> local, depth |-> depth], rate |-> <<>>,
     is_default |-> default]

(* The modules whose own default builds, and the one the sweep stands on:    *)
(* the algorithm's choice, or else the first.                                *)
Modules(dev, variants) ==
    SelectSeq(variants, LAMBDA v :
        [variant |-> v, local |-> dev.default[v], depth |-> dev.depth] \in dev.builds)
Standing(dev, modules) ==
    IF \E i \in DOMAIN modules : modules[i] = dev.base THEN dev.base ELSE modules[1]

WidthCandidates(dev, modules, widths, depth) ==
    LET stands == Standing(dev, modules)
        order(v) == <<dev.default[v]>> \o SelectSeq(widths, LAMBDA n : n # dev.default[v])
        of(v) == [i \in DOMAIN order(v) |->
                     Candidate(v, order(v)[i], depth,
                               v = stands /\ order(v)[i] = dev.default[stands])]
        all == FoldLeft(LAMBDA s, v : s \o of(v), <<>>, modules)
    IN  SelectSeq(all, LAMBDA k : k.is_default) \o SelectSeq(all, LAMBDA k : ~k.is_default)

Raced(dev, candidates, out) ==
    LET ran  == Race(dev, candidates)
        best == pick(ran)
    IN  IF best = 0 THEN [out EXCEPT !.swept = FALSE]
        ELSE [config |-> ran[best].config, rate |-> score(ran[best].rate), swept |-> TRUE]

(* The modules raced: the one the user named, or what the algorithm offers.  *)
Swept(variants, opt_kernel, base) ==
    IF opt_kernel # "" /\ Named(variants, opt_kernel) # <<>> THEN Named(variants, opt_kernel)
    ELSE IF variants = <<>> THEN <<base>> ELSE variants

(* sweep: every width of every module at the default depth, then every depth *)
(* of the winner, and the widths again if that moved.                        *)
sweep(dev, variants, opt) ==
    LET modules == Modules(dev, Swept(variants, opt.kernel, dev.base))
        widths  == IF opt.workgroup > 0 THEN <<>> ELSE dev.widths
        stands  == Standing(dev, modules)
        start   == [config |-> [variant |-> stands, local |-> dev.default[stands],
                                depth |-> dev.depth], rate |-> 0, swept |-> FALSE]
        wide(depth, out) == Raced(dev, WidthCandidates(dev, modules, widths, depth), out)
        first   == wide(dev.depth, start)
        depths  == [i \in DOMAIN queue_depths |->
                       Candidate(first.config.variant, first.config.local, queue_depths[i],
                                 queue_depths[i] = dev.depth)]
        second  == Raced(dev, depths, first)
        again   == wide(second.config.depth, second)
    IN  IF modules = <<>> THEN [swept |-> FALSE]
        ELSE IF ~first.swept THEN first
        ELSE IF opt.queue_depth > 0 \/ ~second.swept THEN [first EXCEPT !.swept = TRUE]
        ELSE IF second.config.depth # first.config.depth
             THEN [again EXCEPT !.swept = TRUE]
        ELSE second

----------------------------------------------------------------------------
(* The file.                                                                 *)

Absent == [is |-> "absent", entries |-> <<>>]
Torn   == [is |-> "torn", entries |-> <<>>]
File(entries) == [is |-> "file", entries |-> entries]

(* tune_key: another driver or another shader is another key.                *)
tune_key(info, algo, shader) == <<info.device, info.driver, algo, shader>>

(* entries_of and tune_cache_load: a file that does not parse or is of       *)
(* another version has no entries, an entry without both sizes is none.      *)
entries_of(file) == IF file.is = "file" THEN file.entries ELSE <<>>
tune_cache_load(file, key) ==
    LET e == entries_of(file)
    IN  IF key \in DOMAIN e /\ e[key].local > 0 /\ e[key].depth > 0 THEN <<e[key]>> ELSE None

(* tune_cache_store: the file beside it is written, the old one removed and  *)
(* the new one renamed. The dump or the rename may fail ("" is neither),     *)
(* which takes the file beside it away again; the miner may be killed        *)
(* before any of the steps.                                                  *)
tune_cache_store(fs, key, tuning, fails, killed) ==
    LET new  == File((key :> tuning) @@ entries_of(fs.path))
        dump == <<[fs EXCEPT !.tmp = Torn]>>
                    \o IF fails = "dump" THEN <<[fs EXCEPT !.tmp = Absent]>>
                       ELSE <<[fs EXCEPT !.tmp = new]>>
        done == dump \o IF fails = "dump" THEN <<>>
                        ELSE <<[path |-> Absent, tmp |-> new],
                               [path |-> IF fails = "rename" THEN Absent ELSE new,
                                tmp  |-> Absent]>>
    IN  IF killed = 0 THEN fs ELSE done[Min({killed, Len(done)})]

(* tune_devices: a measured entry is used, or else a sweep is made and filed *)
(* unless an option took part of it away. mem is what tuned_kernel recalls.  *)
tune_devices_filed(fs, key, opt, swept, fails) ==
    IF opt.no_tune THEN [fs |-> fs, mem |-> None]
    ELSE LET loaded == IF opt.retune THEN None ELSE tune_cache_load(fs.path, key)
         IN  IF loaded # None THEN [fs |-> fs, mem |-> loaded]
             ELSE IF swept = None THEN [fs |-> fs, mem |-> None]
             ELSE [fs |-> tune_cache_store(fs, key, swept[1], fails, 4), mem |-> swept]
tune_devices(fs, key, opt, swept, fails) ==
    IF opt.no_tune THEN [fs |-> fs, mem |-> None]
    ELSE LET loaded == IF opt.retune THEN None ELSE tune_cache_load(fs.path, key)
             part   == \/ opt.workgroup > 0 \/ opt.queue_depth > 0
                       \/ opt.nonces > 0 \/ opt.kernel # ""
         IN  IF loaded # None THEN [fs |-> fs, mem |-> loaded]
             ELSE IF swept = None THEN [fs |-> fs, mem |-> None]
             ELSE [fs  |-> IF part THEN fs
                           ELSE tune_cache_store(fs, key, swept[1], fails, 4),
                   mem |-> swept]

(* tuned_kernel: the user's kernel or none; otherwise the one measured, if   *)
(* this build still offers it; and the sizes the user did not name.          *)
tuned_kernel(base, variants, opt, mem) ==
    LET user == Named(variants, opt.kernel)
        v    == IF opt.kernel # "" THEN opt.kernel
                ELSE IF mem # None /\ \E i \in DOMAIN variants : variants[i] = mem[1].variant
                     THEN mem[1].variant
                ELSE base
        size(mine, f) == IF mine <= 0 /\ mem # None THEN mem[1][f] ELSE 0
    IN  IF opt.kernel # "" /\ user = <<>> THEN None
        ELSE <<[variant |-> v, local |-> size(opt.workgroup, "local"),
                depth |-> size(opt.queue_depth, "depth")]>>

----------------------------------------------------------------------------
(* Captures.                                                                 *)

(* capture_candidate: counted always, kept up to kMaxRecords a run.          *)
capture_candidate(log, bad, writes) ==
    LET counted == [log EXCEPT !.counted = @ + 1]
    IN  IF log.written >= kMaxRecords \/ ~writes THEN counted
        ELSE [counted EXCEPT !.written = @ + 1, !.file = Append(@, bad)]

(* read_captures: a line this build does not understand refuses the file.    *)
read_captures(file) ==
    IF file = <<>> \/ \E i \in DOMAIN file : ~file[i].understood THEN None ELSE file

(* replay_one: "agreed", "reproduced", or "" where the device could not run. *)
replay_one(bad) ==
    IF ~bad.ran THEN ""
    ELSE IF bad.device_says # bad.host_says THEN "reproduced"
    ELSE IF bad.device_says /\ bad.device_hash # bad.host_hash THEN "reproduced"
    ELSE "agreed"
replay_captures(captures) ==
    captures # None /\ \A i \in DOMAIN captures : replay_one(captures[i]) # "reproduced"
=============================================================================

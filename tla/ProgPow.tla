------------------------------ MODULE ProgPow ------------------------------
(***************************************************************************)
(* The ProgPoW forks on the host: which epochs a block has, the light      *)
(* cache behind every dataset item, the program of a period, the hash that *)
(* re-checks a candidate, and the kernels a device is offered. A word has  *)
(* W bits instead of 32; keccak and the dataset are uninterpreted, and     *)
(* every other step of the hash is computed.                               *)
(***************************************************************************)
EXTENDS Integers, Sequences, FiniteSets, FiniteSetsExt, SequencesExt, Folds, Bitwise

CONSTANTS W,         \* bits of a word
          kLanes,    \* lanes that share a hash
          kL1Words   \* words of the cache the program reads

kDagLoads  == 4
kLineWords == kLanes * kDagLoads
Word       == 2 ^ W
kFnvPrime  == 403 % Word         \* 0x01000193, its low bits
kFnvOffsetBasis == 197 % Word    \* 0x811c9dc5, its low bits

Fork(name, epoch, period, regs, cache, math, rounds, change, mul, off, max) ==
    [name |-> name, epoch_length |-> epoch, period_length |-> period, regs |-> regs,
     cache_ops |-> cache, math_ops |-> math, rounds |-> rounds,
     dagchange_epoch |-> change, dag_epoch_mul |-> mul, dag_full_off |-> off,
     max_epoch |-> max]
kKawpow     == Fork("kawpow",      7500, 3, 32, 11, 18, 64, 0, 1, 0, 700)
kMeowpow    == Fork("meowpow",     7500, 6, 16, 6, 9, 64, 110, 4, 0, 400)
kEvrprogpow == Fork("evrprogpow", 12000, 3, 32, 11, 18, 64, 0, 1, 256, 260)
kFiropow    == Fork("firopow",     1300, 1, 32, 11, 18, 64, 0, 1, 64, 1350)
kMeraki     == Fork("meraki",     27500, 3, 32, 12, 5, 32, 0, 1, 0, 80)
kForks      == {kKawpow, kMeowpow, kEvrprogpow, kFiropow, kMeraki}

----------------------------------------------------------------------------
(* Epochs.                                                                   *)

epochs_for(p, e) ==
    LET scaled == IF p.dagchange_epoch # 0 /\ e >= p.dagchange_epoch
                  THEN e * p.dag_epoch_mul ELSE e
    IN  [seed |-> e, light |-> scaled, full |-> scaled + p.dag_full_off]
epochs_of(p, height) == epochs_for(p, height \div p.epoch_length)
period_of(p, height) == height \div p.period_length

(* The sizes of ethash grow with the epoch.                                  *)
light_cache_items(light) == light + 1
dag_items(full)          == 8 * (full + 1)

(* The seed check of a pool's notify: an unknown fork, or no seed, passes.   *)
progpow_seed_hash_check(p, height, seed) ==
    seed = "none" \/ seed = epochs_of(p, height).seed

(* The one light cache of the process, kept for the epochs it was built for. *)
NoCache == [built |-> FALSE, epochs |-> [seed |-> -1, light |-> -1, full |-> -1],
            of |-> <<>>]
Build(epochs) == [built |-> TRUE, epochs |-> epochs,
                  of |-> <<epochs.seed, light_cache_items(epochs.light)>>]
cache_for(cache, epochs, memory) ==
    IF cache.built /\ cache.epochs = epochs THEN cache
    ELSE IF memory THEN Build(epochs) ELSE [cache EXCEPT !.built = FALSE]

(* dataset_item, light_cache: nothing outside the dataset, nothing without a *)
(* cache; an item is named by the cache it was computed from.                *)
dataset_item(cache, epochs, index, memory) ==
    IF index >= dag_items(epochs.full) THEN [cache |-> cache, got |-> <<>>]
    ELSE LET c == cache_for(cache, epochs, memory)
         IN  [cache |-> c, got |-> IF c.built THEN <<c.of, index>> ELSE <<>>]
light_cache(cache, epochs, offset, bytes, memory) ==
    LET total == light_cache_items(epochs.light)
    IN  IF offset > total \/ bytes > total - offset THEN [cache |-> cache, got |-> <<>>]
        ELSE LET c == cache_for(cache, epochs, memory)
             IN  [cache |-> c,
                  got |-> IF c.built THEN <<c.of, offset, bytes>> ELSE <<>>]

(* shared_state: a span of the dataset's bytes, item by item, for the host's *)
(* own DAG; byte b of item i is <<i, b>>.                                    *)
shared_state(items, itemBytes, offset, bytes) ==
    LET first == offset \div itemBytes
        at    == offset % itemBytes
        need  == first .. ((offset + bytes - 1) \div itemBytes)
    IN  IF \E i \in need : i >= items THEN <<>>
        ELSE [k \in 1 .. bytes |-> <<first + ((at + k - 1) \div itemBytes),
                                     (at + k - 1) % itemBytes>>]

----------------------------------------------------------------------------
(* The program of a period.                                                  *)

fnv1a(u, v) == ((u ^^ v) * kFnvPrime) % Word
Half        == 2 ^ (W \div 2)
Shift(x, n) == (x * 2 ^ n) % Word

(* Kiss99: four words of state; a draw is the state after it and its value.  *)
Draw(g) ==
    LET z  == ((36969 * (g.z % Half)) + (g.z \div Half)) % Word
        w  == ((18000 * (g.w % Half)) + (g.w \div Half)) % Word
        j  == (69069 * g.jcong + 1234567) % Word
        a  == g.jsr ^^ Shift(g.jsr, (17 * W) \div 32)
        b  == a ^^ (a \div 2 ^ ((13 * W) \div 32))
        s  == b ^^ Shift(b, (5 * W) \div 32)
    IN  [z |-> z, w |-> w, jsr |-> s, jcong |-> j,
         val |-> ((((Shift(z, W \div 2) + w) % Word) ^^ j) + s) % Word]
Seeded(z, w, jsr, jcong) == [z |-> z, w |-> w, jsr |-> jsr, jcong |-> jcong, val |-> 0]

Swap(s, i, j) == [s EXCEPT ![i] = s[j], ![j] = s[i]]

(* The two register sequences, shuffled from the top.                        *)
Shuffled(regs, g0) ==
    LET step(k, acc) ==
            LET i == regs + 1 - k
                d == Draw(acc.g)
                s == Draw(d)
            IN  [dst |-> Swap(acc.dst, i - 1, d.val % i),
                 src |-> Swap(acc.src, i - 1, s.val % i), g |-> s]
        id == [i \in 0 .. regs - 1 |-> i]
    IN  FoldLeft(LAMBDA acc, k : step(k, acc), [dst |-> id, src |-> id, g |-> g0],
                 [k \in 1 .. regs - 1 |-> k])

(* Two different source registers out of one draw.                           *)
Pair(regs, rnd) ==
    LET one == rnd % regs
        two == rnd \div regs
    IN  [one |-> one, two |-> IF two >= one THEN two + 1 ELSE two]

CacheOp(p, acc) ==
    LET g == Draw(acc.g)
    IN  [acc EXCEPT !.g = g, !.src = @ + 1, !.dst = @ + 1,
            !.cache = Append(@, [src |-> acc.srcs[acc.src % p.regs],
                                 dst |-> acc.dsts[acc.dst % p.regs], sel |-> g.val])]
MathOp(p, acc) ==
    LET r  == Draw(acc.g)
        s1 == Draw(r)
        s2 == Draw(s1)
        xy == Pair(p.regs, r.val % (p.regs * (p.regs - 1)))
    IN  [acc EXCEPT !.g = s2, !.dst = @ + 1,
            !.math = Append(@, [src1 |-> xy.one, src2 |-> xy.two, sel1 |-> s1.val,
                                dst |-> acc.dsts[acc.dst % p.regs], sel2 |-> s2.val])]
DagOp(p, acc, i) ==
    LET g == Draw(acc.g)
    IN  [acc EXCEPT !.g = g, !.dst = IF i = 1 THEN @ ELSE @ + 1,
            !.dag = Append(@, [dst |-> IF i = 1 THEN 0 ELSE acc.dsts[acc.dst % p.regs],
                               sel |-> g.val])]

build_program(p, period) ==
    LET lo == period % Word
        hi == (period \div Word) % Word
        z  == fnv1a(kFnvOffsetBasis, lo)
        w  == fnv1a(z, hi)
        jsr == fnv1a(w, lo)
        q  == Shuffled(p.regs, Seeded(z, w, jsr, fnv1a(jsr, hi)))
        start == [g |-> q.g, srcs |-> q.src, dsts |-> q.dst, src |-> 0, dst |-> 0,
                  cache |-> <<>>, math |-> <<>>, dag |-> <<>>]
        ops == FoldLeft(LAMBDA acc, i :
                    LET c == IF i <= p.cache_ops THEN CacheOp(p, acc) ELSE acc
                    IN  IF i <= p.math_ops THEN MathOp(p, c) ELSE c,
                    start, [i \in 1 .. Max({p.cache_ops, p.math_ops}) |-> i])
        all == FoldLeft(LAMBDA acc, i : DagOp(p, acc, i), ops,
                        [i \in 1 .. kDagLoads |-> i])
    IN  [cache |-> all.cache, math |-> all.math, dag |-> all.dag]

(* names_a_register: the fields of a program that a kernel indexes its mix   *)
(* with.                                                                     *)
names_a_register(prog) ==
    UNION ({{prog.cache[i].src, prog.cache[i].dst} : i \in DOMAIN prog.cache}
           \cup {{prog.math[i].src1, prog.math[i].src2, prog.math[i].dst} :
                    i \in DOMAIN prog.math}
           \cup {{prog.dag[i].dst} : i \in DOMAIN prog.dag})

(* Where the program's merges go, in order: cache and math take turns, then  *)
(* the lines of the dataset but the first, which always goes to register 0.  *)
Written(p, prog) ==
    LET turn(i) == (IF i <= p.cache_ops THEN <<prog.cache[i].dst>> ELSE <<>>)
                   \o (IF i <= p.math_ops THEN <<prog.math[i].dst>> ELSE <<>>)
    IN  FoldLeft(LAMBDA s, i : s \o turn(i), <<>>,
                 [i \in 1 .. Max({p.cache_ops, p.math_ops}) |-> i])
        \o [i \in 1 .. kDagLoads - 1 |-> prog.dag[i + 1].dst]

----------------------------------------------------------------------------
(* The hash.                                                                 *)

rotl32(x, n) == IF n = 0 THEN x ELSE (Shift(x, n) + (x \div 2 ^ (W - n))) % Word
Bits(x)      == {i \in 0 .. W - 1 : (x \div 2 ^ i) % 2 = 1}
clz32(x)     == IF x = 0 THEN W ELSE W - 1 - Max(Bits(x))
popcount32(x) == Cardinality(Bits(x))
mul_hi32(a, b) == (a * b) \div Word

random_math(a, b, sel) ==
    LET op == sel % 11
    IN  CASE op = 1 -> (a * b) % Word
          [] op = 2 -> mul_hi32(a, b)
          [] op = 3 -> Min({a, b})
          [] op = 4 -> rotl32(a, b % W)
          [] op = 5 -> rotl32(a, (W - (b % W)) % W)
          [] op = 6 -> a & b
          [] op = 7 -> a | b
          [] op = 8 -> a ^^ b
          [] op = 9 -> clz32(a) + clz32(b)
          [] op = 10 -> popcount32(a) + popcount32(b)
          [] OTHER -> (a + b) % Word
random_merge(a, b, sel) ==
    LET x  == ((sel \div Half) % (W - 1)) + 1
        op == sel % 4
    IN  CASE op = 0 -> ((a * 33) + b) % Word
          [] op = 1 -> ((a ^^ b) * 33) % Word
          [] op = 2 -> rotl32(a, x) ^^ b
          [] op = 3 -> rotl32(a, W - x) ^^ b

Lanes == 0 .. kLanes - 1

init_mix(p, lo, hi) ==
    LET z == fnv1a(kFnvOffsetBasis, lo)
        w == fnv1a(z, hi)
        filled(l) ==
            LET jsr == fnv1a(w, l)
                draws == FoldLeft(LAMBDA acc, r : Append(acc, Draw(Last(acc))),
                             <<Seeded(z, w, jsr, fnv1a(jsr, l))>>,
                             [r \in 1 .. p.regs |-> r])
            IN  [r \in 0 .. p.regs - 1 |-> draws[r + 2].val]
    IN  [l \in Lanes |-> filled(l)]

(* The four words of the line a lane merges in round r.                      *)
LineOffset(l, r, i) == ((l ^^ r) % kLanes) * kDagLoads + i - 1

MergeAll(mix, dst, sel, data(_, _)) ==
    [l \in Lanes |-> [mix[l] EXCEPT ![dst] = random_merge(@, data(l, mix[l]), sel)]]

run_round(p, prog, r, mix, line, l1) ==
    LET cache(m, op) == MergeAll(m, op.dst, op.sel,
                            LAMBDA l, own : l1[own[op.src] % kL1Words])
        math(m, op)  == MergeAll(m, op.dst, op.sel2,
                            LAMBDA l, own : random_math(own[op.src1], own[op.src2],
                                                        op.sel1))
        turn(m, i)   == LET c == IF i <= p.cache_ops THEN cache(m, prog.cache[i]) ELSE m
                        IN  IF i <= p.math_ops THEN math(c, prog.math[i]) ELSE c
        load(m, i)   == MergeAll(m, prog.dag[i].dst, prog.dag[i].sel,
                            LAMBDA l, own : line[LineOffset(l, r, i)])
        ran == FoldLeft(turn, mix, [i \in 1 .. Max({p.cache_ops, p.math_ops}) |-> i])
    IN  FoldLeft(load, ran, [i \in 1 .. kDagLoads |-> i])

(* keccak_f800, uninterpreted but for the two words the mix starts from.     *)
keccak_f800(seed) == [of |-> seed, lo |-> seed.nonce % Word,
                      hi |-> (seed.nonce \div Word) % Word]

(* One round: a line of the dataset chosen by a lane's first register; the   *)
(* hash is over when that line cannot be had.                                *)
Round(p, prog, l1, dag_lines, line, acc, r) ==
    LET index == acc.mix[r % kLanes][0] % dag_lines
    IN  IF ~acc.ok \/ line[index] = <<>> THEN [acc EXCEPT !.ok = FALSE]
        ELSE [acc EXCEPT !.reads = @ \cup {index},
                         !.mix = run_round(p, prog, r, @, line[index], l1)]

(* hash: the digest, or no hash at all. "line" gives the words of each     *)
(* line, <<>> for one it cannot give.                                         *)
hash(p, prog, l1, dag_lines, line, header, nonce) ==
    IF dag_lines = 0 THEN [ok |-> FALSE, reads |-> {}]
    ELSE
    LET seed == keccak_f800([header |-> header, nonce |-> nonce, seal |-> p.name])
        done == FoldLeft(LAMBDA acc, r : Round(p, prog, l1, dag_lines, line, acc, r - 1),
                    [ok |-> TRUE, reads |-> {}, mix |-> init_mix(p, seed.lo, seed.hi)],
                    [r \in 1 .. p.rounds |-> r])
        lane(l) == FoldLeft(LAMBDA h, r : fnv1a(h, done.mix[l][r - 1]), kFnvOffsetBasis,
                            [r \in 1 .. p.regs |-> r])
        word(i) == FoldLeft(LAMBDA h, l : IF (l - 1) % 8 = i THEN fnv1a(h, lane(l - 1))
                                          ELSE h,
                            kFnvOffsetBasis, [l \in 1 .. kLanes |-> l])
        mix == [i \in 0 .. 7 |-> word(i)]
    IN  IF ~done.ok THEN [ok |-> FALSE, reads |-> done.reads]
        ELSE [ok |-> TRUE, reads |-> done.reads, mix |-> mix,
              digest |-> keccak_f800([header |-> seed, nonce |-> mix[0], seal |-> mix])]

----------------------------------------------------------------------------
(* The algorithm object: the epochs it hashes with, the L1 words it keeps    *)
(* and the answers it derived. "host" is the build with a DAG of its own.    *)

kDerived == 2
ProgPowObject(p, epoch, host) ==
    [p |-> p, epochs |-> epochs_for(p, epoch), host |-> host, l1 |-> <<>>,
     derived |-> {}]

(* The published vectors of a fork, none away from epoch 0.                  *)
known_answers(o) ==
    IF o.epochs.seed # 0 \/ o.host THEN {}
    ELSE CASE o.p.name = "kawpow" -> {"block 49", "block 99"}
           [] o.p.name = "firopow" -> {"block 1", "block 1299"}
           [] OTHER -> {}

(* l1_cache: the first words of the dataset, kept until the epoch changes.   *)
l1_cache(o) == IF o.l1 = <<>> THEN [o EXCEPT !.l1 = <<o.epochs>>] ELSE o

(* retarget: a header of another epoch moves the object and drops its L1;    *)
(* the height is the ninth header word.                                      *)
retarget_kept(o, height) ==
    LET e == epochs_of(o.p, height)
    IN  IF o.host \/ e.seed = o.epochs.seed THEN o ELSE [o EXCEPT !.epochs = e]
retarget(o, height) ==
    LET e == epochs_of(o.p, height)
    IN  IF o.host \/ e.seed = o.epochs.seed THEN o
        ELSE [o EXCEPT !.epochs = e, !.l1 = <<>>]

(* reference_answers: a fork with no vectors judges the device by answers it *)
(* computes itself, once, at epoch 0: a header in each of two programs.      *)
derive_answers(o) ==
    [l1_cache(o) EXCEPT !.derived =
        {[period |-> period_of(o.p, i * o.p.period_length), l1 |-> l1_cache(o).l1] :
            i \in 0 .. kDerived - 1}]
reference_answers(o) ==
    IF o.epochs.seed # 0 \/ o.host \/ known_answers(o) # {} \/ o.derived # {} THEN o
    ELSE derive_answers(o)

(* full_hash, hash, submit_mix: with the period of the header and the L1 the *)
(* object holds.                                                             *)
full_hash(o, height) ==
    [o |-> l1_cache(o), period |-> period_of(o.p, height), l1 |-> l1_cache(o).l1,
     dag |-> o.epochs]

----------------------------------------------------------------------------
(* What a device is offered. Bytes are words here: a word is what 4 bytes    *)
(* are in the code.                                                          *)

widest_workgroup(d) ==
    IF d.max_invocations # 0 /\ d.max_invocations < d.max_workgroup_size
    THEN d.max_invocations ELSE d.max_workgroup_size
exchange(d)  == widest_workgroup(d)
seed_slot(d) == (widest_workgroup(d) \div kLanes) * 8 + 1
l1_shared_words(d) ==
    IF d.max_shared_memory < kL1Words + 1 + exchange(d) THEN 0 ELSE kL1Words
seed_pre_pass(d) ==
    LET taken == exchange(d) + (IF l1_shared_words(d) # 0 THEN kL1Words + 1 ELSE 0)
    IN  d.max_shared_memory >= taken + seed_slot(d)
SharedMemory(d) ==
    exchange(d) + (IF l1_shared_words(d) # 0 THEN kL1Words + 1 ELSE 0)
    + (IF seed_pre_pass(d) THEN seed_slot(d) ELSE 0)

can_shuffle_lanes(d) ==
    d.subgroup_shuffle /\ d.subgroup_size >= kLanes /\ d.subgroup_size % kLanes = 0

(* spec_for: the memory a kernel takes and the most any epoch of the fork    *)
(* may need; the largest epoch is the fork's, or --progpow-max-epoch's.      *)
declared_epoch(o, opt_progpow_max_epoch) ==
    IF opt_progpow_max_epoch > 0 THEN opt_progpow_max_epoch ELSE o.p.max_epoch
shared_bytes_max(o, opt) ==
    IF o.host THEN 0 ELSE dag_items(epochs_for(o.p, declared_epoch(o, opt)).full)

spec_for(o, kind, loaded, opt_progpow_max_epoch) ==
    [variant |-> kind, spirv |-> kind \in loaded, lanes |-> kLanes,
     full_subgroups |-> kind = "spec-sub",
     shared |-> dag_items(o.epochs.full),
     shared_max |-> shared_bytes_max(o, opt_progpow_max_epoch),
     program |-> kind # "interp",
     setup |-> ~o.host /\ kind \in loaded /\ "dag" \in loaded]

kernels(o, d, loaded, max) ==
    LET kinds == <<"spec">> \o (IF can_shuffle_lanes(d) THEN <<"spec-sub">> ELSE <<>>)
                 \o <<"interp">>
        found == SelectSeq(kinds, LAMBDA k : k \in loaded)
    IN  [i \in 1 .. Min({max, Len(found)}) |-> spec_for(o, found[i], loaded, 0)]
kernel(o, loaded) == spec_for(o, "interp", loaded, 0)

(* chunk_floor: the largest power of two lines that fits.                    *)
chunk_floor(line, n) ==
    line * 2 ^ Max({0} \cup {k \in 1 .. 12 : line * 2 ^ k <= n})
=============================================================================

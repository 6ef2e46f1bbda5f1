---------------------------- MODULE Algorithms ----------------------------
(***************************************************************************)
(* The algorithm axis: what each algorithm says of its header, its push    *)
(* block and its kernels, and the settings the protocol client takes from  *)
(* it. An algorithm is a record of what the rest of the miner asks it;     *)
(* the arithmetic of the hashes is left out, and a stage of a hash is its  *)
(* name with the bytes it eats and writes.                                 *)
(*                                                                         *)
(* A push block is a sequence of fields. A field says how many words it    *)
(* takes and which header words it was computed from, "of"; a target field *)
(* how many of the target's words it carries, most significant ones last.  *)
(***************************************************************************)
EXTENDS Integers, Sequences, FiniteSets, FiniteSetsExt, SequencesExt

Field(words, of) == [words |-> words, of |-> of, target |-> 0]
Target(words)    == [words |-> words, of |-> {}, target |-> words]
Range3           == Field(3, {})         \* nonce_start, count, capacity
Raw(n)           == Field(n, 0 .. n - 1) \* header words as they are

Module(variant, needs) == [variant |-> variant, needs |-> needs]
Plain == <<Module("", {})>>
Lanes == <<Module("int64", {"int64"}), Module("2x32", {})>>
Adds  == <<Module("int64-wide", {"int64"}), Module("int64", {"int64"}),
           Module("2x32", {})>>

(* The answers Algorithm's own methods give, for one that overrides none.    *)
Algorithm ==
    [header_words |-> 20, nonce_word |-> 19, target_factor |-> 1,
     screen_bits |-> 256, dialect |-> "bitcoin", coinbase_sha256 |-> FALSE,
     nonce_bits |-> 32, modules |-> Plain, opens |-> <<"">>,
     nonces_per_invocation |-> 1,
     push |-> <<>>, uniform |-> {}, stages |-> <<>>]

(* A stage: the hash, the bytes it reads, the bytes it writes.               *)
Stage(h, in, out) == [h |-> h, in |-> in, out |-> out]
Wide(names) ==   \* a chain of 512-bit hashes, the first over the header
    [i \in DOMAIN names |-> Stage(names[i], IF i = 1 THEN 80 ELSE 64, 64)]

Sha256dPush == <<Field(8, 0 .. 15), Field(8, 0 .. 18), Field(4, 16 .. 18),
                 Target(8), Range3>>
sha256d ==
    [Algorithm EXCEPT
        !.push = Sha256dPush,
        !.stages = <<Stage("sha256d", 80, 32)>>]

Blake2sPush == <<Field(8, 0 .. 15), Field(3, 16 .. 18), Target(8), Range3>>
blake2s ==
    [Algorithm EXCEPT
        !.push = Blake2sPush,
        !.stages = <<Stage("blake2s", 80, 32)>>]

ScryptPush == <<Raw(19), Target(8), Range3>>
scrypt ==
    [Algorithm EXCEPT !.push = ScryptPush, !.target_factor = 65536,
        !.stages = <<Stage("pbkdf2", 80, 128), Stage("romix", 128, 128),
                     Stage("pbkdf2", 128, 32)>>]

Sha3tPush == <<Raw(19), Target(8), Range3>>
sha3t ==
    [Algorithm EXCEPT !.push = Sha3tPush, !.modules = Lanes, !.opens = <<"int64", "2x32">>,
        !.stages = <<Stage("sha3", 80, 32), Stage("sha3", 32, 32),
                     Stage("sha3", 32, 32)>>]

LbryPush == <<Field(8, 0 .. 15), Field(8, 0 .. 26), Field(10, 16 .. 26),
              Field(1, {26}), Target(2), Range3>>
lbry ==
    [Algorithm EXCEPT !.header_words = 28, !.nonce_word = 27,
        !.target_factor = 256, !.screen_bits = 64, !.dialect = "lbry",
        !.modules = Lanes, !.opens = <<"int64", "2x32">>,
        !.push = LbryPush,
        !.stages = <<Stage("sha256d", 112, 32), Stage("sha512", 32, 64),
                     Stage("ripemd160 of each half", 64, 40),
                     Stage("sha256d", 40, 32)>>]

Sha512256dPush == <<Raw(19), Target(2), Range3>>
sha512256d ==
    [Algorithm EXCEPT !.screen_bits = 64,
        !.modules = <<Module("int64", {"int64"}), Module("int64-fold", {"int64"}),
                      Module("2x32", {})>>,
        !.opens = <<"int64-fold", "2x32">>,
        !.push = Sha512256dPush,
        !.stages = <<Stage("sha512_256", 80, 32), Stage("sha512_256", 32, 32)>>]

SkeinPush == <<Field(16, 0 .. 15), Field(3, 16 .. 18), Target(2), Range3>>
skein ==
    [Algorithm EXCEPT !.screen_bits = 64, !.modules = Adds,
        !.opens = <<"int64-wide", "2x32">>,
        !.push = SkeinPush,
        !.stages = <<Stage("skein512", 80, 64), Stage("sha256", 64, 32)>>]

Skein2Push == <<Field(16, 0 .. 15), Field(3, 16 .. 18), Target(2), Range3>>
skein2 ==
    [Algorithm EXCEPT !.screen_bits = 64, !.modules = Adds,
        !.opens = <<"int64-wide", "2x32">>,
        !.push = Skein2Push,
        !.stages = Wide(<<"skein512", "skein512">>)]

GroestlPush == <<Raw(19), Target(2), Range3>>
groestl ==
    [Algorithm EXCEPT !.target_factor = 256, !.coinbase_sha256 = TRUE,
        !.screen_bits = 64, !.nonces_per_invocation = 2,
        !.push = GroestlPush,
        !.stages = Wide(<<"groestl512", "groestl512">>)]

MyrgrPush == <<Raw(19), Target(2), Range3>>
myrgr ==
    [Algorithm EXCEPT !.screen_bits = 64, !.nonces_per_invocation = 2,
        !.push = MyrgrPush,
        !.stages = <<Stage("groestl512", 80, 64), Stage("sha256", 64, 32)>>]

Bmw512Push == <<Raw(19), Target(2), Range3>>
bmw512 ==
    [Algorithm EXCEPT !.target_factor = 256, !.screen_bits = 64, !.modules = Adds,
        !.opens = <<"int64-wide", "2x32">>, !.uniform = 0 .. 18,
        !.push = Bmw512Push,
        !.stages = Wide(<<"bmw512">>)]

HeavyhashPush == <<Raw(19), Target(8), Range3>>
heavyhash ==
    [Algorithm EXCEPT !.push = HeavyhashPush,
        !.modules = <<Module("int64", {"int64"}), Module("2x32", {}),
                      Module("2x32-dot", {"dot4x8", "dot module"})>>,
        !.opens = <<"2x32">>, !.uniform = 1 .. 8,
        !.stages = <<Stage("sha3", 80, 32), Stage("matrix", 32, 32),
                     Stage("sha3", 32, 32)>>]

QubitPush == <<Raw(19), Target(2), Range3>>
qubit ==
    [Algorithm EXCEPT !.screen_bits = 64, !.uniform = 0 .. 18,
        !.push = QubitPush,
        !.stages = Wide(<<"luffa512", "cubehash512", "shavite512", "simd512",
                          "echo512">>)]

X11Push == <<Raw(19), Target(2), Range3>>
x11 ==
    [Algorithm EXCEPT !.screen_bits = 64, !.modules = Lanes,
        !.opens = <<"int64", "2x32">>, !.nonces_per_invocation = 2,
        !.push = X11Push,
        !.stages = Wide(<<"blake512", "bmw512", "groestl512", "skein512", "jh512",
                          "keccak512", "luffa512", "cubehash512", "shavite512",
                          "simd512", "echo512">>)]

X13Push == <<Raw(19), Target(2), Range3>>
x13 ==
    [Algorithm EXCEPT !.screen_bits = 64, !.modules = Lanes,
        !.opens = <<"int64", "2x32">>, !.nonces_per_invocation = 2,
        !.push = X13Push,
        !.stages = Wide(<<"blake512", "bmw512", "groestl512", "skein512", "jh512",
                          "keccak512", "luffa512", "cubehash512", "shavite512",
                          "simd512", "echo512", "hamsi512", "fugue512">>)]

(* A ProgPoW fork: eight words of header hash and the height, which reaches  *)
(* the kernel as the period and the number of lines; the 64-bit nonce is no  *)
(* header word.                                                              *)
ProgPowPush == <<Raw(8), Target(8), Field(4, {}), Field(2, {8}), Field(1, {8})>>
progpow ==
    [Algorithm EXCEPT !.header_words = 9, !.nonce_word = 9,
        !.dialect = "progpow", !.nonce_bits = 48,
        !.push = ProgPowPush]

(* kAlgorithms, name by name; the five ProgPoW forks differ in constants.    *)
kAlgorithms ==
    [sha256d |-> sha256d, blake2s |-> blake2s, scrypt |-> scrypt, sha3t |-> sha3t,
     lbry |-> lbry, sha512256d |-> sha512256d, skein |-> skein, skein2 |-> skein2,
     groestl |-> groestl, myrgr |-> myrgr, bmw512 |-> bmw512,
     heavyhash |-> heavyhash, qubit |-> qubit, x11 |-> x11, x13 |-> x13,
     kawpow |-> progpow, firopow |-> progpow, evrprogpow |-> progpow,
     meowpow |-> progpow, meraki |-> progpow]
Names == DOMAIN kAlgorithms

----------------------------------------------------------------------------
(* The kernels of a device. A device is the set of what it can run; "loaded" *)
(* the variants whose SPIR-V was found.                                      *)

spec_for(algo, variant, loaded) ==
    [variant |-> variant, spirv |-> variant \in loaded]

(* kernel: the opening guess is the first variant the device can build.      *)
Needs(algo, variant) ==
    (CHOOSE i \in DOMAIN algo.modules : algo.modules[i].variant = variant)
kernel(algo, device, loaded) ==
    LET able == SelectSeq(algo.opens,
                    LAMBDA v : algo.modules[Needs(algo, v)].needs \subseteq device)
    IN  spec_for(algo, Head(able), loaded)

(* kernels: every module the device can build and that was found, at most    *)
(* "max" of them.                                                            *)
kernels(algo, device, loaded, max) ==
    LET able == SelectSeq(algo.modules,
                    LAMBDA m : m.needs \subseteq device /\ m.variant \in loaded)
    IN  [i \in 1 .. Min({max, Len(able)}) |->
            spec_for(algo, able[i].variant, loaded)]

----------------------------------------------------------------------------
(* prepare: what one dispatch carries of the header and the target.          *)

Words(push)     == FoldLeft(LAMBDA s, f : s + f.words, 0, push)
Carried(push)   == UNION {push[i].of : i \in DOMAIN push}
TargetWords(push) == FoldLeft(LAMBDA s, f : s + f.target, 0, push)

(* fulltest: word by word from the most significant, the last of them; equal *)
(* all the way is a share.                                                   *)
fulltest(hash, target) ==
    LET differ == {i \in DOMAIN hash : hash[i] # target[i]}
    IN  differ = {} \/ hash[Max(differ)] < target[Max(differ)]

Top(s, n) == SubSeq(s, Len(s) - n + 1, Len(s))
(* The comparison a kernel makes with the n target words of its push block.  *)
Screen(hash, target, n) == fulltest(Top(hash, n), Top(target, n))

(* matrix_for: heavyhash's matrix comes from the previous block's hash,      *)
(* header words 1 to 8, and is kept for as long as those stay the same.      *)
NoMatrix == [valid |-> FALSE, prev |-> 0, matrix |-> 0]
matrix_for(cache, h) ==
    IF cache.valid /\ cache.prev = h.prev THEN cache
    ELSE [valid |-> TRUE, prev |-> h.prev, matrix |-> h.prev]

----------------------------------------------------------------------------
(* The protocol settings.                                                    *)

Unbound == [target_factor |-> 1, nonce_bits |-> 32, dialect |-> "bitcoin",
            checks_seed |-> FALSE, ntime |-> 17, nbits |-> 18, nonce |-> 19,
            coinbase_sha256 |-> FALSE]

bind_protocol_settings_kept(now, name) ==
    LET algo == kAlgorithms[name]
        set  == [now EXCEPT !.target_factor = algo.target_factor,
                            !.nonce_bits = algo.nonce_bits,
                            !.dialect = algo.dialect,
                            !.coinbase_sha256 = algo.coinbase_sha256]
    IN  CASE algo.dialect = "progpow" -> [set EXCEPT !.checks_seed = TRUE]
          [] algo.dialect = "lbry" -> [set EXCEPT !.ntime = 25, !.nbits = 26,
                                                  !.nonce = 27]
          [] OTHER -> set

(* bind_protocol_settings puts everything back to Bitcoin's before the       *)
(* dialect moves it.                                                         *)
bind_protocol_settings(now, name) ==
    LET algo == kAlgorithms[name]
        set  == [now EXCEPT !.target_factor = algo.target_factor,
                            !.nonce_bits = algo.nonce_bits,
                            !.dialect = "bitcoin", !.checks_seed = FALSE,
                            !.ntime = 17, !.nbits = 18, !.nonce = 19,
                            !.coinbase_sha256 = algo.coinbase_sha256]
    IN  CASE algo.dialect = "progpow" -> [set EXCEPT !.dialect = "progpow",
                                                     !.checks_seed = TRUE]
          [] algo.dialect = "lbry" -> [set EXCEPT !.dialect = "lbry",
                                          !.ntime = 25, !.nbits = 26, !.nonce = 27]
          [] OTHER -> set
=============================================================================

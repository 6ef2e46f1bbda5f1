----------------------------- MODULE DeviceFit -----------------------------
(***************************************************************************)
(* What a device is asked to hold and to run: which devices the Vulkan     *)
(* backend finds, how a kernel is sized to one of them, how the size of a  *)
(* batch follows the clock, and how a shared table is cut into pieces,     *)
(* filled and generated (backends/vulkan). Sizes are numbers in one small  *)
(* unit; every limit of the source that is larger is a constant.           *)
(***************************************************************************)
EXTENDS Integers, Sequences, FiniteSets, FiniteSetsExt, SequencesExt

CONSTANTS kMinBatch, kMaxBatch, kFirstBatch,  \* 2^12, 2^28 and 2^20 hashes
          kSoftCeiling, kHostCeiling,         \* 256 MiB and 1 GiB of scratch
          kMaxNoncesPerInvocation,            \* 256
          kMaxSharedChunks,                   \* 16
          kMaxProgramConstants,               \* 256
          kStagingBytes,                      \* 8 MiB
          kFirstSlice, kMaxSlice              \* 2^10 and 2^20 items

None == 0
Least(a, b) == IF a < b THEN a ELSE b
Capped(n, limit) == IF limit # 0 THEN Least(n, limit) ELSE n  \* 0: not reported
Up(n, per) == (n + per - 1) \div per
Whole(n, step) == n - (n % step)

----------------------------------------------------------------------------
(* Enumeration.                                                              *)

(* describe: the queue family a device is opened with, a compute family      *)
(* without graphics if there is one; the heaps that are the device's own;    *)
(* and what is known only if an extension or a stage says so.                *)
Family(families) ==
    LET compute == {i \in DOMAIN families : "compute" \in families[i]}
        alone   == {i \in compute : "graphics" \notin families[i]}
    IN  IF alone # {} THEN Min(alone) ELSE IF compute # {} THEN Min(compute) ELSE None

describe(raw, opt_no_int64) ==
    [is            |-> raw.is,
     memory        |-> FoldLeft(LAMBDA sum, h : IF h.local THEN sum + h.size ELSE sum, 0,
                                raw.heaps),
     subgroup_size |-> IF raw.subgroups THEN raw.subgroup_size ELSE 0,
     int64         |-> ~opt_no_int64 /\ raw.int64]

(* enumerate: a device without a compute queue is skipped, in the list of    *)
(* devices and of families, and stays in the list of handles.                *)
enumerate(handles, opt_no_int64) ==
    LET usable == SelectSeq(handles, LAMBDA h : Family(h.families) # None)
    IN  [handles        |-> handles,
         devices        |-> [i \in DOMAIN usable |-> describe(usable[i], opt_no_int64)],
         compute_family |-> [i \in DOMAIN usable |-> Family(usable[i].families)]]

(* device: what VulkanDevice::create is given for an index.                  *)
device(b, i) == [handle |-> b.handles[i], family |-> b.compute_family[i],
                 info |-> b.devices[i]]

----------------------------------------------------------------------------
(* The size of a kernel.                                                     *)

choose_local_size(info) ==
    LET local == Capped(Capped(256, info.max_workgroup_size), info.max_invocations)
        whole == Whole(local, info.subgroup_size)
    IN  IF info.subgroup_size > 1 /\ local > info.subgroup_size THEN whole ELSE local

vulkan_table_budget(info) ==
    (info.memory * (IF info.kind = "discrete" THEN 90 ELSE 25)) \div 100

vulkan_scratch_budget(info) ==
    CASE info.kind = "cpu"      -> Least((info.memory * 15) \div 100, kSoftCeiling)
      [] info.kind = "discrete" -> (info.memory * 75) \div 100
      [] OTHER                  -> Least((info.memory * 25) \div 100, kHostCeiling)

First(a, b, c) == IF a > 0 THEN a ELSE IF b > 0 THEN b ELSE c  \* spec, option, default

Lcm(a, b) == IF b = 0 THEN 0
             ELSE Min({n \in 1 .. a * b : n % a = 0 /\ n % b = 0})

(* The workgroup: whole hashes, and whole subgroups where the kernel's lanes *)
(* exchange through them; <<>> where the device cannot run one.              *)
FitLocal(info, spec, opt) ==
    LET lanes  == First(spec.lanes, 0, 1)
        first  == First(spec.local_size_x, opt.workgroup, choose_local_size(info))
        hashes == First(Whole(first, lanes), 0, lanes)
        step   == Lcm(lanes, info.subgroup_size)
        fits(n) == info.max_invocations = 0 \/ n <= info.max_invocations
    IN  IF ~fits(lanes) \/ (spec.full_subgroups /\ (step = 0 \/ ~fits(step))) THEN <<>>
        ELSE <<IF spec.full_subgroups THEN First(Whole(hashes, step), 0, step) ELSE hashes>>

(* vulkan_kernel_fit: <<>> is a refusal.                                     *)
vulkan_kernel_fit(info, spec, shared_bytes, opt) ==
    LET local  == FitLocal(info, spec, opt)
        lanes  == First(spec.lanes, 0, 1)
        depth  == First(spec.queue_depth, opt.queue_depth, 3)
        most   == IF lanes = 1 /\ spec.declares_nonces THEN kMaxNoncesPerInvocation ELSE 1
        nonces == First(spec.nonces, Least(opt.nonces, most), 1)
        per_group == First((local[1] \div lanes) * nonces, 0, 1)
        budget == vulkan_scratch_budget(info)
        left   == (budget - shared_bytes) \div First(spec.concurrent_kernels, 0, 1)
        per_nonce == spec.scratch_bytes * depth * lanes
        fits   == Least(left \div per_nonce, kMaxBatch)
        fit(max) == <<[depth |-> depth, local_size_x |-> local[1], lanes |-> lanes,
                       nonces |-> nonces, per_group |-> per_group, max_batch |-> max]>>
    IN  IF local = <<>> \/ spec.nonces > most THEN <<>>
        ELSE IF spec.scratch_bytes = 0 THEN fit(kMaxBatch)
        ELSE IF info.memory = 0 \/ shared_bytes >= budget \/ fits < per_group THEN <<>>
        ELSE fit(Whole(fits, per_group))

(* VulkanKernel::init: the bindings a set has, the results, the scratch and  *)
(* the pieces of the table; a piece the device did not need is the last one  *)
(* again; and what is refused.                                               *)
SharedBindings(spec) == IF spec.shared_bytes = 0 THEN 0 ELSE First(spec.shared_chunks, 0, 1)
Bound(spec, pieces) ==
    <<"results">> \o (IF spec.scratch_bytes # 0 THEN <<"scratch">> ELSE <<>>)
        \o [c \in 1 .. SharedBindings(spec) |-> pieces[Least(c, Len(pieces))]]
init_refuses(spec, shared) ==
    \/ spec.shared_bytes # 0 /\ shared = <<>>
    \/ spec.push_bytes > 128
    \/ SharedBindings(spec) > kMaxSharedChunks
    \/ First(spec.storage_buffers, 0, 1)
           < 1 + (IF spec.scratch_bytes # 0 THEN 1 ELSE 0) + SharedBindings(spec)
    \/ spec.program_constants > kMaxProgramConstants

(* The specialisation constants of a pipeline: identifier and value.         *)
kFixedConstants == 6
kProgramConstantId == 8
kKernelConstantId == kProgramConstantId + kMaxProgramConstants
SpecConstants(fixed, program, kernel) ==
    LET id(i) == IF i <= kFixedConstants THEN i - 1
                 ELSE IF i <= kFixedConstants + Len(program)
                      THEN kProgramConstantId + (i - 1 - kFixedConstants)
                 ELSE kKernelConstantId + (i - 1 - kFixedConstants - Len(program))
        all == fixed \o program \o kernel
    IN  [i \in DOMAIN all |-> [id |-> id(i), value |-> all[i]]]

(* spirv_declares_constant: a walk over instructions by their lengths, after *)
(* five words of header. A word is [length, opcode] or a number.             *)
OpDecorate == 71
SpecId == 1
spirv_declares_constant(words, id) ==
    LET at[i \in 1 .. Len(words) + 1] ==
            IF i > Len(words) THEN FALSE
            ELSE LET w == words[i]
                 IN  IF w.length = 0 \/ i + w.length - 1 > Len(words) THEN FALSE
                     ELSE IF w.opcode = OpDecorate /\ w.length >= 4
                             /\ words[i + 2].value = SpecId /\ words[i + 3].value = id
                          THEN TRUE
                     ELSE at[i + w.length]
    IN  Len(words) >= 5 /\ at[6]

----------------------------------------------------------------------------
(* The size of a batch.                                                      *)

Floored(batch, fit) ==
    LET floor == (kMinBatch \div fit.lanes) * fit.nonces
        least == IF floor < fit.per_group THEN fit.per_group ELSE floor
    IN  Least(IF batch < least THEN least ELSE batch, kMaxBatch)
clamp_batch(batch, fit, info) ==
    Capped(Least(Floored(batch, fit), fit.max_batch),
           info.max_workgroup_count * fit.per_group)

InitialBatch(fit, info) ==
    [batch |-> clamp_batch(IF info.kind = "cpu" THEN 0 ELSE kFirstBatch \div fit.lanes,
                           fit, info),
     hold  |-> 0]

(* retune: seconds in quarters of the target; at most four times either way, *)
(* and not again before the dispatches of the old size are through.          *)
retune(b, quarters, fit, info) ==
    LET by   == IF quarters < 1 THEN 1 ELSE Least(quarters, 16)
        next == clamp_batch(Least((b.batch * 4) \div by, kMaxBatch), fit, info)
    IN  IF b.hold > 0 THEN [b EXCEPT !.hold = b.hold - 1]
        ELSE [batch |-> next, hold |-> IF next # b.batch THEN fit.depth ELSE 0]

(* dispatch: the workgroups a batch of so many nonces is.                    *)
Groups(count, fit) == Up(count, fit.per_group)

----------------------------------------------------------------------------
(* The shared table.                                                         *)

floor_pow2(n) == Max({1} \cup {p \in {2, 4, 8, 16, 32, 64, 128, 256} : p <= n})

(* plan: the size of a piece and how many; <<>> is a refusal.                *)
plan(info, spec, bytes) ==
    LET most  == Capped(Capped(bytes, info.max_allocation), info.max_binding_range)
        piece == Least(Capped(bytes, spec.shared_chunk_bytes), most)
        chunk == IF piece < bytes THEN floor_pow2(piece) ELSE piece
        declared == First(spec.shared_chunks, 0, 1)
    IN  IF most = 0 \/ bytes % 16 # 0 \/ chunk % 16 # 0
           \/ declared > kMaxSharedChunks \/ Up(bytes, chunk) > declared
        THEN <<>>
        ELSE <<[chunk |-> chunk, count |-> Up(bytes, chunk)]>>

(* upload: from the staging buffer into the pieces, a span at a time; fill   *)
(* fails at offset fails. The copies are [offset, piece, within, span].      *)
Span(s, dst, total) ==
    Least(Least(Least(total, kStagingBytes), dst[s.piece] - s.within), total - s.offset)
Copy(s, dst, total) ==
    LET at == IF s.piece <= Len(dst) /\ s.within = dst[s.piece]
              THEN [s EXCEPT !.piece = s.piece + 1, !.within = 0] ELSE s
        span == Span(at, dst, total)
    IN  IF at.piece > Len(dst) \/ at.offset = at.fails THEN [at EXCEPT !.ok = FALSE]
        ELSE [at EXCEPT !.offset = at.offset + span, !.within = at.within + span,
                        !.copies = Append(@, [offset |-> at.offset, piece |-> at.piece,
                                              within |-> at.within, span |-> span])]
upload(dst, total, fails) ==
    LET begin == [offset |-> 0, piece |-> 1, within |-> 0, copies |-> <<>>, ok |-> TRUE,
                  fails |-> fails]
        go[n \in 0 .. total] ==
            IF n = 0 THEN begin
            ELSE LET s == go[n - 1]
                 IN  IF s.ok /\ s.offset < total THEN Copy(s, dst, total) ELSE s
    IN  go[total]

(* generate: the items of a piece, then of the next, in slices that follow   *)
(* the clock; times is how long each dispatch took, in quarters of the aim.  *)
(* The passes are [first, piece, place, count]; <<>> is a refusal.           *)
NextSlice(slice, quarters) ==
    LET want == IF quarters = 0 THEN slice * 4 ELSE (slice * 4) \div quarters
    IN  Least(IF want < 1 THEN 1 ELSE Least(want, slice * 4), kMaxSlice)
Pass(s, items, per_chunk, quarters) ==
    LET piece == s.first \div per_chunk
        place == s.first - piece * per_chunk
        count == Least(Least(items - s.first, per_chunk - place), s.slice)
    IN  [first  |-> s.first + count,
         slice  |-> NextSlice(s.slice, quarters),
         passes |-> Append(s.passes, [first |-> s.first, piece |-> piece + 1,
                                      place |-> place, count |-> count])]
PerChunk(items, bytes, chunk, count) ==
    LET item == bytes \div items
    IN  IF count = 1 THEN items
        ELSE IF item = 0 \/ item * items # bytes \/ chunk % item # 0 THEN None
        ELSE chunk \div item
generate(items, bytes, chunk, count, times) ==
    LET per == PerChunk(items, bytes, chunk, count)
        go[n \in 0 .. items] ==
            IF n = 0 THEN [first |-> 0, slice |-> kFirstSlice, passes |-> <<>>]
            ELSE LET s == go[n - 1]
                 IN  IF s.first < items
                     THEN Pass(s, items, per, times[((n - 1) % Len(times)) + 1])
                     ELSE s
    IN  IF per = None THEN <<>> ELSE go[items].passes
=============================================================================

----------------------------- MODULE RingLayout -----------------------------
(***************************************************************************)
(* Where the SQEs and the two rings lie, in bytes.  no_mmap works it out   *)
(* before the ring exists, from what the program asks for, and gives the   *)
(* kernel two addresses; io_uring_setup then works it out again by its own *)
(* rules and fills in the offsets.  map_rings, for a ring in the kernel's  *)
(* memory, works out from those offsets how much to map.                   *)
(***************************************************************************)
EXTENDS Integers, Sequences

CONSTANTS
  Width,         \* bits of the u32 that roundup_pow2 rounds
  EntryCounts,   \* bound: the sizes asked for: of the SQ,
  CqCounts,      \* bound: of the CQ (0: none, cq_entries unset)
  Excess         \* bound: bytes a buffer has beyond what no_mmap demands

ASSUME LayoutAssumption ==
  /\ Width \in Nat /\ Width > 16     \* a u32 holds KERN_MAX_CQ
  /\ EntryCounts \subseteq Nat /\ CqCounts \subseteq Nat
  /\ Excess \subseteq Int /\ 0 \in Excess

VARIABLES
  asked,     \* what the program asks for
  stage,     \* how far init has come
  sizes,     \* the bytes of each mapping or buffer, SQEs' first
  at,        \* the offset of the rings if they lie behind the SQEs, or -1
  params     \* what io_uring_setup filled in

layoutVars == <<asked, stage, sizes, at, params>>

KERN_MAX_SQ    == 32768
KERN_MAX_CQ    == 2 * KERN_MAX_SQ
KRING_SIZE     == 64
HUGE_PAGE_SIZE == 2 * 1024 * 1024
PAGE_SIZE      == 4096
SqeBytes       == 64
CqeBytes       == 16
IndexBytes     == 4

-----------------------------------------------------------------------------
(* roundup_pow2, align_up.                                                 *)

\* 1 << n
Pow2(n) == LET pow[k \in 0 .. n] == IF k = 0 THEN 1 ELSE 2 * pow[k - 1]
           IN  pow[n]

clz(d) == CHOOSE z \in 0 .. Width - 1 :
            LET top == Pow2(Width - 1 - z) IN top <= d /\ d - top < top

RoundupUnshifted(d) ==
  IF d <= 1 THEN 1
  ELSE IF d > Pow2(Width - 1) THEN Pow2(Width - 1)
  ELSE Pow2(Width - clz(d))

roundup_pow2(d) ==
  IF d <= 1 THEN 1
  ELSE IF d > Pow2(Width - 1) THEN Pow2(Width - 1)
  ELSE Pow2(Width - clz(d - 1))

align_up(val, align) == ((val + align - 1) \div align) * align

Lesser(a, b)  == IF a < b THEN a ELSE b
Greater(a, b) == IF a < b THEN b ELSE a

-----------------------------------------------------------------------------
(* What no_mmap counts on.                                                 *)

sqe_count == roundup_pow2(Lesser(asked.entries, KERN_MAX_SQ))
cqe_count == IF asked.cqsize THEN roundup_pow2(Lesser(asked.cq_entries, KERN_MAX_CQ))
                             ELSE 2 * sqe_count

Invalid ==
  \/ asked.entries = 0
  \/ asked.entries > KERN_MAX_SQ /\ ~asked.clamp
  \/ /\ asked.cqsize
     /\ \/ asked.cq_entries = 0
        \/ asked.cq_entries > KERN_MAX_CQ /\ ~asked.clamp
        \/ cqe_count < sqe_count

Sqes(n) == n * SqeBytes * (IF asked.sqe128 THEN 2 ELSE 1)
Cqes(n) == n * CqeBytes * (IF asked.cqe32 THEN 2 ELSE 1)
Array(n) == IF asked.no_sqarray THEN 0 ELSE n * IndexBytes

sqes_mem == align_up(Sqes(sqe_count) + Array(sqe_count), PAGE_SIZE)
ring_mem == KRING_SIZE + Cqes(cqe_count)

WithoutSqes == align_up(ring_mem, PAGE_SIZE)
mem_used == align_up(sqes_mem + ring_mem, PAGE_SIZE)

\* The caller's buffer: too short, just what no_mmap wants, or larger.
BufSize == mem_used + asked.excess

Want(bytes) == IF bytes <= PAGE_SIZE THEN PAGE_SIZE ELSE HUGE_PAGE_SIZE

NoMemory == IF asked.buf
            THEN mem_used > BufSize
            ELSE sqes_mem > HUGE_PAGE_SIZE \/ ring_mem > HUGE_PAGE_SIZE

First == IF asked.buf THEN BufSize ELSE Want(sqes_mem)

-----------------------------------------------------------------------------
Asked == [entries : EntryCounts, cq_entries : CqCounts, cqsize : BOOLEAN,
          clamp : BOOLEAN, sqe128 : BOOLEAN, cqe32 : BOOLEAN,
          no_sqarray : BOOLEAN, no_mmap : BOOLEAN, single_mmap : BOOLEAN,
          buf : BOOLEAN, excess : Excess]

NoParams == [sq_entries |-> 0, cq_entries |-> 0, array |-> 0, cqes |-> 0]

\* A buffer makes the constructor add IORING_SETUP_NO_MMAP.  Kernels from
\* before IORING_FEAT_SINGLE_MMAP do not know the later flags.
LayoutInit ==
  /\ asked \in Asked
  /\ asked.cqsize \/ asked.cq_entries = 0
  /\ IF asked.buf THEN asked.no_mmap ELSE asked.excess = 0
  /\ asked.no_mmap \/ asked.cqe32 \/ asked.sqe128 \/ asked.no_sqarray
       => asked.single_mmap
  /\ stage = IF asked.no_mmap THEN "place" ELSE "setup"
  /\ sizes = << >> /\ at = -1
  /\ params = NoParams

NoMmap ==
  /\ stage = "place"
  /\ IF Invalid \/ NoMemory
     THEN /\ stage' = "refused"
          /\ UNCHANGED <<sizes, at>>
     ELSE /\ stage' = "setup"
          /\ IF mem_used <= First
             THEN sizes' = <<First>> /\ at' = sqes_mem
             ELSE sizes' = <<First, Want(ring_mem)>> /\ at' = -1
  /\ UNCHANGED <<asked, params>>

\* The kernel's counts and offsets (io_uring_setup, rings_size).
LeastPow2(n) == CHOOSE p \in {Pow2(k) : k \in 0 .. Width - 1} :
                  p >= n /\ (p = 1 \/ p \div 2 < n)
KernelSq     == LeastPow2(Lesser(asked.entries, KERN_MAX_SQ))
KernelCq     == IF asked.cqsize
                THEN LeastPow2(Lesser(asked.cq_entries, KERN_MAX_CQ))
                ELSE 2 * KernelSq
KernelRefuses ==
  \/ asked.entries = 0
  \/ asked.entries > KERN_MAX_SQ /\ ~asked.clamp
  \/ asked.cqsize /\ \/ asked.cq_entries = 0
                     \/ asked.cq_entries > KERN_MAX_CQ /\ ~asked.clamp
                     \/ KernelCq < KernelSq
ArrayAt == align_up(KRING_SIZE + Cqes(KernelCq), 64)

LayOut ==
  /\ stage = "setup"
  /\ IF KernelRefuses
     THEN stage' = "refused" /\ UNCHANGED params
     ELSE /\ stage' = IF asked.no_mmap THEN "up" ELSE "map"
          /\ params' = [sq_entries |-> KernelSq, cq_entries |-> KernelCq,
                        array |-> IF asked.no_sqarray THEN 0 ELSE ArrayAt,
                        cqes  |-> KRING_SIZE]
  /\ UNCHANGED <<asked, sizes, at>>

sq_len == params.array + params.sq_entries * IndexBytes
cq_len == params.cqes + Cqes(params.cq_entries)

\* One mapping of the longer length, or one of each; then the SQEs.
SqMapLen == IF asked.single_mmap THEN Greater(sq_len, cq_len) ELSE sq_len

MapRings ==
  /\ stage = "map"
  /\ sizes' = IF asked.single_mmap
              THEN <<Sqes(params.sq_entries), SqMapLen>>
              ELSE <<Sqes(params.sq_entries), SqMapLen, cq_len>>
  /\ stage' = "up"
  /\ UNCHANGED <<asked, at, params>>

LayoutNext == NoMmap \/ LayOut \/ MapRings

LayoutSpec == LayoutInit /\ [][LayoutNext]_layoutVars

-----------------------------------------------------------------------------
(* Properties.                                                             *)

\* The kernel accepts whatever no_mmap accepted and counts as it did: the
\* rings it lays out are those room was made for.  LeastPow2 is what
\* roundup_pow2 is to compute.
CountsAgree ==
  asked.no_mmap =>
    /\ stage = "setup" => ~KernelRefuses
    /\ stage = "up" => /\ params.sq_entries = sqe_count
                       /\ params.cq_entries = cqe_count

\* no_mmap counts the array with the SQEs while the kernel puts it behind the
\* CQEs.  The rest of the last page behind them holds less than a page of it.
Shortfall(n) == IF Array(n) < PAGE_SIZE THEN 0 ELSE Array(n) + KRING_SIZE - PAGE_SIZE

\* The SQEs, the CQEs and the SQ array, as far as the kernel's offsets
\* reach, lie in memory the object holds for them, one behind the other, and
\* no mapping asks for more pages than the kernel's rings have.  Only the
\* array may lie beyond the end, and only in a buffer of the caller's: when
\* it takes a page or more (1024 entries) and the buffer has fewer bytes than
\* Shortfall beyond the size no_mmap demands, which then is too small.
AreasFit ==
  stage = "up" =>
    LET sqes_end  == Sqes(params.sq_entries)
        cqes_end  == params.cqes + Cqes(params.cq_entries)
        array_end == params.array + Array(params.sq_entries)
        rings     == Greater(cqes_end, array_end)
        shared    == at >= 0
        sq_room   == IF shared THEN sizes[1] - at ELSE sizes[2]
        cq_room   == IF Len(sizes) = 3 THEN sizes[3] ELSE sq_room
    IN  /\ sqes_end <= IF shared THEN at ELSE sizes[1]
        /\ cqes_end <= cq_room
        /\ array_end <= sq_room
             <=> (asked.buf => Shortfall(params.sq_entries) <= asked.excess)
        /\ ~asked.no_mmap => \A i \in 2 .. Len(sizes) :
             align_up(sizes[i], PAGE_SIZE) <= align_up(rings, PAGE_SIZE)
=============================================================================

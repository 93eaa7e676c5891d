-------------------------- MODULE RingSetupProofs -------------------------
(***************************************************************************)
(* For any number of places, descriptors and indexes: whatever call of the *)
(* constructor fails, and whatever is registered, unregistered and closed  *)
(* before the destructor runs, the object gives back all that it holds and *)
(* nothing else, and its pointers are valid while it is usable.            *)
(*                                                                         *)
(* The heart of it is that what the kernel has for the object is exactly   *)
(* what its fields say: a mapping for each pointer with a size, and one    *)
(* descriptor and one index at most, by where the object is in its life.   *)
(* The part about descriptors fails with IORING_SETUP_REGISTERED_FD_ONLY   *)
(* (run ring_fd_only), so the theorems on them suppose nobody asks for it. *)
(*                                                                         *)
(* The last part is about the bytes: whatever is asked for, the kernel     *)
(* lays out the rings no_mmap made room for, and they lie within memory    *)
(* that is the object's.                                                   *)
(***************************************************************************)
EXTENDS RingSetup, RingLayout, RingLemmas, TLAPS

\* The fields of the object that own a mapping, and unmap_rings' last word.
NoSizes == ~ring.sqes_sz /\ ~ring.sq_sz /\ ~ring.cq_sz

Sized(p) == \/ ring.sqes_sz /\ p = ring.sqes
            \/ ring.sq_sz /\ p = ring.sq_ptr
            \/ ring.cq_sz /\ p = ring.cq_ptr

\* Pointers with a size are to mappings of their own, except that the CQ may
\* share the one of the SQ, which then has a size too.
Apart ==
  /\ ring.sqes_sz => ring.sqes \in Pages
  /\ ring.sq_sz => ring.sq_ptr \in Pages
  /\ ring.cq_sz => ring.cq_ptr \in Pages
  /\ ring.sqes_sz /\ ring.sq_sz => ring.sqes # ring.sq_ptr
  /\ ring.sqes_sz /\ ring.cq_sz => ring.sqes # ring.cq_ptr
  /\ ring.cq_sz /\ ring.cq_ptr = ring.sq_ptr => ring.sq_sz
  /\ ring.app_mem => NoSizes
  /\ pc = "probe" => ~Sized(probe)

PagesHeld ==
  \A p \in Pages : pages[p] = "ring" <=> Sized(p) \/ (pc = "probe" /\ p = probe)

\* How far the mappings have come, or gone.
Stages ==
  /\ pc \in {"none", "no_mmap", "map_sq", "close", "failed", "destroy_close"}
       => NoSizes
  /\ pc = "setup" /\ ~cfg.no_mmap => NoSizes
  /\ pc \in {"no_mmap", "no_mmap_ring"} => cfg.no_mmap
  /\ pc = "no_mmap_ring" => ring.sqes_sz /\ ~ring.sq_sz /\ ~ring.cq_sz
  /\ pc \in {"no_mmap", "no_mmap_ring", "map_sq", "map_cq", "map_sqes"}
       => ~ring.app_mem
  /\ pc = "map_cq" => ~ring.sqes_sz /\ ~ring.cq_sz
  /\ pc = "map_sqes" => ~ring.sqes_sz
  /\ pc = "unmap_cq" => ~ring.sqes_sz
  /\ pc = "unmap_sq" => ~ring.sqes_sz /\ ~ring.cq_sz
  /\ pc = "setup" /\ ~cfg.no_mmap => ~ring.app_mem

\* A pointer of a usable ring.
Live(p) == p = AppBuf \/ (p \in Pages /\ Sized(p))

Pointers ==
  /\ pc = "map_cq" => Live(ring.sq_ptr)
  /\ pc = "map_sqes" => Live(ring.sq_ptr) /\ Live(ring.cq_ptr)
  /\ pc \in {"finish", "ready", "probe"} \/ (pc = "setup" /\ cfg.no_mmap)
       => Live(ring.sqes) /\ Live(ring.sq_ptr) /\ Live(ring.cq_ptr)

\* Between io_uring_setup and the store to _ringfd the constructor's local
\* variable is what holds the descriptor.
Unmapping == pc \in {"unmap_sqes", "unmap_cq", "unmap_sq"}

Local == \/ pc \in {"map_sq", "map_cq", "map_sqes", "close", "finish"}
         \/ Unmapping /\ then = "close"

Descriptors ==
  /\ ~cfg.fd_only
  /\ Unmapping => then # "none"
  /\ ring.ringfd \in Fds \cup {-1}
  /\ Local => fd \in Fds
  /\ \A f \in Fds : fds[f] = "ring" <=> f = ring.ringfd \/ (Local /\ f = fd)
  /\ pc \in {"ready", "probe", "destroy_close"}
       \/ (Unmapping /\ then = "destroy_close") \/ ring.ringfd = -1

\* An index is held while the fields say so, which is while the ring is in
\* use; the descriptor is closed only when calls can do without it.
Registered ==
  /\ \A i \in Indexes : regs[i] = "ring" <=> ring.reg_ring /\ i = ring.enterfd
  /\ ring.reg_ring => /\ ring.enterfd \in Indexes
                      /\ pc \in {"ready", "probe"}
                      /\ ring.reg_reg_ring = cfg.reg_reg
                      /\ ring.ringfd = -1 => cfg.reg_reg
  /\ ~ring.reg_ring => ~ring.reg_reg_ring /\ ring.enterfd = ring.ringfd

\* The memory is right whatever the descriptor is.
Memory == TypeOK /\ Apart /\ PagesHeld /\ Stages /\ Pointers

IInv == Memory /\ Descriptors /\ Registered

\* The fields of the object, as TypeOK has them.
Fields == [sqes : Ptr, sqes_sz : BOOLEAN, sq_ptr : Ptr, sq_sz : BOOLEAN,
           cq_ptr : Ptr, cq_sz : BOOLEAN,
           ringfd : Fds \cup Indexes \cup {-1},
           enterfd : Fds \cup Indexes \cup {-1},
           app_mem : BOOLEAN, reg_ring : BOOLEAN, reg_reg_ring : BOOLEAN]

\* unregister_ring_fd, whatever do_register answers.
LEMMA UnregisterTypes ==
  ASSUME TypeOK, Unregister
  PROVE  /\ ring' \in Fields
         /\ regs' \in [Indexes -> Owner]
<1>1. CASE RegisterTarget = "ring"
  <2>1. regs' = [regs EXCEPT ![ring.enterfd] = "free"]
    BY <1>1 DEF Unregister
  <2>2. regs' \in [Indexes -> Owner]
    BY <2>1 DEF TypeOK, Owner
  <2>3. ring' = [ring EXCEPT !.enterfd = ring.ringfd, !.reg_ring = FALSE,
                                  !.reg_reg_ring = FALSE]
    BY <1>1 DEF Unregister
  <2> QED BY <2>2, <2>3 DEF TypeOK, Fields
<1>2. CASE RegisterTarget # "ring"
  BY <1>2 DEF Unregister, TypeOK, Fields
<1> QED BY <1>1, <1>2

LEMMA TypeStep ==
  ASSUME TypeOK, Next
  PROVE  TypeOK'
<1> USE DEF TypeOK, Fields, Ptr, Owner, Go, Unmap, Mmap, Munmap, Close, outside
<1>1. ASSUME NEW c \in Cfgs, Construct(c) PROVE TypeOK'
    BY <1>1 DEF Construct, Blank, Cfgs
<1>2. CASE NoMmapFail
    BY <1>2, SetupAssumption DEF NoMmapFail
<1>3. CASE NoMmapBuf
    BY <1>3, SetupAssumption DEF NoMmapBuf
<1>4. CASE NoMmapRingFail
    BY <1>4, SetupAssumption DEF NoMmapRingFail
<1>5. CASE Setup
    BY <1>5, SetupAssumption DEF Setup
<1>6. CASE SetupFail
    BY <1>6, SetupAssumption DEF SetupFail
<1>7. CASE MapSqFail
    BY <1>7, SetupAssumption DEF MapSqFail
<1>8. CASE MapCqFail
    BY <1>8, SetupAssumption DEF MapCqFail
<1>9. CASE MapSqesFail
    BY <1>9, SetupAssumption DEF MapSqesFail
<1>10. CASE CloseFailed
    BY <1>10, SetupAssumption DEF CloseFailed
<1>11. CASE Finish
    BY <1>11, SetupAssumption DEF Finish
<1>12. CASE UnmapSqes
  <2>1. CASE ring.app_mem
    <3>1. ring' = [ring EXCEPT !.sqes = NoPtr, !.sqes_sz = FALSE,
                                !.sq_ptr = NoPtr, !.sq_sz = FALSE,
                                !.cq_ptr = NoPtr, !.cq_sz = FALSE]
      BY <1>12, <2>1 DEF UnmapSqes
    <3>2. ring' \in Fields
      BY <3>1
    <3>3. pages' = pages /\ probe' = NoPtr /\ pc' = then
      BY <1>12, <2>1 DEF UnmapSqes
    <3> QED BY <1>12, <2>1, <3>2, <3>3 DEF UnmapSqes
  <2>2. CASE ~ring.app_mem /\ ring.sqes # NoPtr /\ ring.sqes_sz
    <3>1. ring' = [ring EXCEPT !.sqes = NoPtr, !.sqes_sz = FALSE]
      BY <1>12, <2>2 DEF UnmapSqes
    <3>2. pages' \in [Pages -> Owner]
      BY <1>12, <2>2 DEF UnmapSqes
    <3>3. ring' \in Fields /\ pages' \in [Pages -> Owner]
      BY <3>1, <3>2
    <3>4. probe' = NoPtr /\ pc' = "unmap_cq"
      BY <1>12, <2>2 DEF UnmapSqes
    <3> QED BY <1>12, <2>2, <3>3, <3>4 DEF UnmapSqes
  <2>3. CASE ~ring.app_mem /\ ~(ring.sqes # NoPtr /\ ring.sqes_sz)
    BY <1>12, <2>3, SetupAssumption DEF UnmapSqes
  <2> QED BY <2>1, <2>2, <2>3
<1>13. CASE UnmapCq
  <2>1. CASE Shared
    <3>1. ring' = [ring EXCEPT !.cq_ptr = NoPtr, !.cq_sz = FALSE]
      BY <1>13, <2>1 DEF UnmapCq
    <3>2. pages' \in [Pages -> Owner]
      BY <1>13, <2>1 DEF UnmapCq
    <3>3. ring' \in Fields /\ pages' \in [Pages -> Owner]
      BY <3>1, <3>2
    <3>4. probe' = NoPtr /\ pc' = "unmap_sq"
      BY <1>13, <2>1 DEF UnmapCq
    <3> QED BY <1>13, <2>1, <3>3, <3>4 DEF UnmapCq
  <2>2. CASE ~Shared /\ ring.cq_ptr # NoPtr /\ ring.cq_sz
    <3>1. ring' = [ring EXCEPT !.cq_ptr = NoPtr, !.cq_sz = FALSE]
      BY <1>13, <2>2 DEF UnmapCq
    <3>2. pages' \in [Pages -> Owner]
      BY <1>13, <2>2 DEF UnmapCq
    <3>3. ring' \in Fields /\ pages' \in [Pages -> Owner]
      BY <3>1, <3>2
    <3>4. probe' = NoPtr /\ pc' = "unmap_sq"
      BY <1>13, <2>2 DEF UnmapCq
    <3> QED BY <1>13, <2>2, <3>3, <3>4 DEF UnmapCq
  <2>3. CASE ~Shared /\ ~(ring.cq_ptr # NoPtr /\ ring.cq_sz)
    BY <1>13, <2>3, SetupAssumption DEF UnmapCq
  <2> QED BY <2>1, <2>2, <2>3
<1>14. CASE UnmapSq
  <2>1. CASE ring.sq_ptr # NoPtr /\ ring.sq_sz
    <3>1. ring' = [ring EXCEPT !.sq_ptr = NoPtr, !.sq_sz = FALSE]
      BY <1>14, <2>1 DEF UnmapSq
    <3>2. ring' \in Fields
      BY <3>1
    <3>3. pages' \in [Pages -> Owner]
      BY <1>14, <2>1 DEF UnmapSq
    <3>4. probe' = NoPtr /\ pc' # "probe" /\ pc' = then
      BY <1>14 DEF UnmapSq
    <3> QED BY <1>14, <3>2, <3>3, <3>4 DEF UnmapSq
  <2>2. CASE ~(ring.sq_ptr # NoPtr /\ ring.sq_sz)
    BY <1>14, <2>2, SetupAssumption DEF UnmapSq
  <2> QED BY <2>1, <2>2
<1>15. CASE UnregisterRingFd
    BY <1>15, UnregisterTypes DEF UnregisterRingFd
<1>16. CASE CloseRingFd
    BY <1>16, SetupAssumption DEF CloseRingFd
<1>17. CASE ProbeDone
    BY <1>17, SetupAssumption DEF ProbeDone
<1>18. CASE ProbeFail
    BY <1>18, SetupAssumption DEF ProbeFail
<1>19. CASE Destroy
  <2>1. CASE ring.reg_ring
    BY <1>19, <2>1, UnregisterTypes DEF Destroy
  <2>2. CASE ~ring.reg_ring
    BY <1>19, <2>2, SetupAssumption DEF Destroy
  <2> QED BY <2>1, <2>2
<1>20. CASE DestroyClose
    BY <1>20, SetupAssumption DEF DestroyClose, Blank, NoCfg, Cfgs
<1>21. CASE Others
    BY <1>21, SetupAssumption DEF Others
<1>22. ASSUME NEW p \in Pages, NoMmapSqes(p) PROVE TypeOK'
    BY <1>22, SetupAssumption DEF NoMmapSqes
<1>23. ASSUME NEW p \in Pages, NoMmapRing(p) PROVE TypeOK'
    BY <1>23, SetupAssumption DEF NoMmapRing
<1>24. ASSUME NEW p \in Pages, MapSq(p) PROVE TypeOK'
    BY <1>24, SetupAssumption DEF MapSq, SharedMap
<1>25. ASSUME NEW p \in Pages, MapCq(p) PROVE TypeOK'
    BY <1>25, SetupAssumption DEF MapCq
<1>26. ASSUME NEW p \in Pages, MapSqes(p) PROVE TypeOK'
    BY <1>26, SetupAssumption DEF MapSqes
<1>27. ASSUME NEW p \in Pages, GetProbeRing(p) PROVE TypeOK'
    BY <1>27, SetupAssumption DEF GetProbeRing
<1>28. ASSUME NEW p \in Pages, FreeProbe(p) PROVE TypeOK'
    BY <1>28, SetupAssumption DEF FreeProbe
<1>29. ASSUME NEW i \in Indexes, RegisterRingFd(i) PROVE TypeOK'
    BY <1>29, SetupAssumption DEF RegisterRingFd, Cfgs
<1> QED
    BY <1>1, <1>2, <1>3, <1>4, <1>5, <1>6, <1>7, <1>8, <1>9, <1>10, <1>11, <1>12,
      <1>13, <1>14, <1>15, <1>16, <1>17, <1>18, <1>19, <1>20, <1>21, <1>22, <1>23,
      <1>24, <1>25, <1>26, <1>27, <1>28, <1>29 DEF Next

\* unmap_rings touches mappings and pointers only.
LEMMA UnmapSteps ==
  ASSUME TypeOK, UnmapSqes \/ UnmapCq \/ UnmapSq
  PROVE  /\ ring'.ringfd = ring.ringfd /\ ring'.enterfd = ring.enterfd
         /\ ring'.reg_ring = ring.reg_ring /\ ring'.reg_reg_ring = ring.reg_reg_ring
         /\ UNCHANGED <<cfg, then, fd, fds, regs, probe>>
         /\ pc \in {"unmap_sqes", "unmap_cq", "unmap_sq"}
         /\ pc' \in {"unmap_cq", "unmap_sq", then}
<1> USE DEF TypeOK, Go
<1>1. CASE UnmapSqes
  <2>1. ring' = ring \/ ring' = [ring EXCEPT !.sqes = NoPtr, !.sqes_sz = FALSE]
        \/ ring' = [ring EXCEPT !.sqes = NoPtr, !.sqes_sz = FALSE,
                                !.sq_ptr = NoPtr, !.sq_sz = FALSE,
                                !.cq_ptr = NoPtr, !.cq_sz = FALSE]
    BY <1>1 DEF UnmapSqes
  <2> QED BY <1>1, <2>1 DEF UnmapSqes
<1>2. CASE UnmapCq
  <2>1. ring' = ring \/ ring' = [ring EXCEPT !.cq_ptr = NoPtr, !.cq_sz = FALSE]
    BY <1>2 DEF UnmapCq
  <2> QED BY <1>2, <2>1 DEF UnmapCq
<1>3. CASE UnmapSq
  <2>1. ring' = ring \/ ring' = [ring EXCEPT !.sq_ptr = NoPtr, !.sq_sz = FALSE]
    BY <1>3 DEF UnmapSq
  <2> QED BY <1>3, <2>1 DEF UnmapSq
<1> QED BY <1>1, <1>2, <1>3

\* unregister_ring_fd touches no mapping and keeps the descriptor.
LEMMA UnregisterFields ==
  ASSUME TypeOK, Unregister
  PROVE  /\ ring'.sqes = ring.sqes /\ ring'.sqes_sz = ring.sqes_sz
         /\ ring'.sq_ptr = ring.sq_ptr /\ ring'.sq_sz = ring.sq_sz
         /\ ring'.cq_ptr = ring.cq_ptr /\ ring'.cq_sz = ring.cq_sz
         /\ ring'.app_mem = ring.app_mem /\ ring'.ringfd = ring.ringfd
<1>1. ring' = ring \/ ring' = [ring EXCEPT !.enterfd = ring.ringfd, !.reg_ring = FALSE,
                                        !.reg_reg_ring = FALSE]
  BY DEF Unregister
<1> QED BY <1>1 DEF TypeOK

\* A registered index can always be given back: if the descriptor is closed,
\* do_register goes through the index.
LEMMA UnregisterSteps ==
  ASSUME TypeOK, Descriptors, Registered, Unregister
  PROVE  /\ regs' = [regs EXCEPT ![ring.enterfd] = "free"]
         /\ ring' = [ring EXCEPT !.enterfd = ring.ringfd, !.reg_ring = FALSE,
                                  !.reg_reg_ring = FALSE]
<1>1. RegisterTarget = "ring"
  BY DEF Unregister, Descriptors, Registered, RegisterTarget, RegHolder, FdHolder,
    TypeOK
<1> QED BY <1>1 DEF Unregister

\* Each part of the invariant is kept by every step; TypeOK' is known by then.
LEMMA ApartStep ==
  ASSUME TypeOK, Apart, PagesHeld, Stages, Pointers, TypeOK', Next
  PROVE  Apart'
<1> USE SetupAssumption DEF TypeOK, Ptr, Apart, PagesHeld, Stages, NoSizes,
    Sized, Live, Pointers, Go, Unmap, Mmap, Munmap, Close, outside
<1>1. ASSUME NEW c \in Cfgs, Construct(c) PROVE Apart'
  BY <1>1 DEF Construct, Blank, Cfgs
<1>2. CASE NoMmapFail
  BY <1>2 DEF NoMmapFail
<1>3. CASE NoMmapBuf
  BY <1>3 DEF NoMmapBuf
<1>4. CASE NoMmapRingFail
  BY <1>4 DEF NoMmapRingFail
<1>5. CASE Setup
  BY <1>5 DEF Setup
<1>6. CASE SetupFail
  BY <1>6 DEF SetupFail
<1>7. CASE MapSqFail
  BY <1>7 DEF MapSqFail
<1>8. CASE MapCqFail
  BY <1>8 DEF MapCqFail
<1>9. CASE MapSqesFail
  BY <1>9 DEF MapSqesFail
<1>10. CASE CloseFailed
  BY <1>10 DEF CloseFailed
<1>11. CASE Finish
  BY <1>11 DEF Finish
<1>12. CASE UnmapSqes
  <2>1. CASE ring.app_mem
    <3>1. /\ ring' = [ring EXCEPT !.sqes = NoPtr, !.sqes_sz = FALSE,
                                !.sq_ptr = NoPtr, !.sq_sz = FALSE,
                                !.cq_ptr = NoPtr, !.cq_sz = FALSE]
          /\ pc' = then
      BY <1>12, <2>1 DEF UnmapSqes
    <3> QED BY <3>1
  <2>2. CASE ~ring.app_mem /\ ring.sqes # NoPtr /\ ring.sqes_sz
    <3>1. ring' = [ring EXCEPT !.sqes = NoPtr, !.sqes_sz = FALSE]
      BY <1>12, <2>2 DEF UnmapSqes
    <3> QED BY <1>12, <2>2, <3>1 DEF UnmapSqes
  <2>3. CASE ~ring.app_mem /\ ~(ring.sqes # NoPtr /\ ring.sqes_sz)
    BY <1>12, <2>3 DEF UnmapSqes
  <2> QED BY <2>1, <2>2, <2>3
<1>13. CASE UnmapCq
  <2>1. CASE Shared \/ (ring.cq_ptr # NoPtr /\ ring.cq_sz)
    <3>1. ring' = [ring EXCEPT !.cq_ptr = NoPtr, !.cq_sz = FALSE]
          /\ pc' = "unmap_sq"
      BY <1>13, <2>1 DEF UnmapCq
    <3> QED BY <3>1
  <2>2. CASE ~Shared /\ ~(ring.cq_ptr # NoPtr /\ ring.cq_sz)
    <3>1. ring' = ring /\ pc' = "unmap_sq"
      BY <1>13, <2>2 DEF UnmapCq
    <3> QED BY <3>1
  <2> QED BY <2>1, <2>2
<1>14. CASE UnmapSq
  <2>1. CASE ring.sq_ptr # NoPtr /\ ring.sq_sz
    <3>1. ring' = [ring EXCEPT !.sq_ptr = NoPtr, !.sq_sz = FALSE]
      BY <1>14, <2>1 DEF UnmapSq
    <3>2. pc' = then
      BY <1>14 DEF UnmapSq
    <3>3. ~ring.sqes_sz /\ ~ring.cq_sz
      BY <1>14 DEF UnmapSq
    <3> QED BY <3>1, <3>2, <3>3
  <2>2. CASE ~(ring.sq_ptr # NoPtr /\ ring.sq_sz)
    <3>1. ring' = ring /\ pc' = then
      BY <1>14, <2>2 DEF UnmapSq
    <3> QED BY <3>1
  <2> QED BY <2>1, <2>2
<1>15. CASE UnregisterRingFd
  BY <1>15, UnregisterFields DEF UnregisterRingFd
<1>16. CASE CloseRingFd
  BY <1>16 DEF CloseRingFd, MayClose
<1>17. CASE ProbeDone
  BY <1>17 DEF ProbeDone
<1>18. CASE ProbeFail
  BY <1>18 DEF ProbeFail
<1>19. CASE Destroy
  BY <1>19, UnregisterFields DEF Destroy
<1>20. CASE DestroyClose
  BY <1>20 DEF DestroyClose, Blank, NoCfg, Cfgs
<1>21. CASE Others
  BY <1>21 DEF Others
<1>22. ASSUME NEW p \in Pages, NoMmapSqes(p) PROVE Apart'
  BY <1>22 DEF NoMmapSqes
<1>23. ASSUME NEW p \in Pages, NoMmapRing(p) PROVE Apart'
  BY <1>23 DEF NoMmapRing
<1>24. ASSUME NEW p \in Pages, MapSq(p) PROVE Apart'
  BY <1>24 DEF MapSq, SharedMap
<1>25. ASSUME NEW p \in Pages, MapCq(p) PROVE Apart'
  BY <1>25 DEF MapCq
<1>26. ASSUME NEW p \in Pages, MapSqes(p) PROVE Apart'
  BY <1>26 DEF MapSqes
<1>27. ASSUME NEW p \in Pages, GetProbeRing(p) PROVE Apart'
  BY <1>27 DEF GetProbeRing
<1>28. ASSUME NEW p \in Pages, FreeProbe(p) PROVE Apart'
  BY <1>28 DEF FreeProbe
<1>29. ASSUME NEW i \in Indexes, RegisterRingFd(i) PROVE Apart'
  BY <1>29 DEF RegisterRingFd, Cfgs
<1> QED
  BY <1>1, <1>2, <1>3, <1>4, <1>5, <1>6, <1>7, <1>8, <1>9, <1>10, <1>11, <1>12,
    <1>13, <1>14, <1>15, <1>16, <1>17, <1>18, <1>19, <1>20, <1>21, <1>22, <1>23,
    <1>24, <1>25, <1>26, <1>27, <1>28, <1>29 DEF Next

LEMMA PagesHeldStep ==
  ASSUME TypeOK, Apart, PagesHeld, Stages, TypeOK', Next
  PROVE  PagesHeld'
<1> USE SetupAssumption DEF TypeOK, Ptr, Apart, PagesHeld, Stages, NoSizes,
    Sized, Owner, Go, Unmap, Mmap, Munmap, Close, outside
<1>1. ASSUME NEW c \in Cfgs, Construct(c) PROVE PagesHeld'
  BY <1>1 DEF Construct, Blank, Cfgs
<1>2. CASE NoMmapFail
  BY <1>2 DEF NoMmapFail
<1>3. CASE NoMmapBuf
  BY <1>3 DEF NoMmapBuf
<1>4. CASE NoMmapRingFail
  BY <1>4 DEF NoMmapRingFail
<1>5. CASE Setup
  BY <1>5 DEF Setup
<1>6. CASE SetupFail
  BY <1>6 DEF SetupFail
<1>7. CASE MapSqFail
  BY <1>7 DEF MapSqFail
<1>8. CASE MapCqFail
  BY <1>8 DEF MapCqFail
<1>9. CASE MapSqesFail
  BY <1>9 DEF MapSqesFail
<1>10. CASE CloseFailed
  BY <1>10 DEF CloseFailed
<1>11. CASE Finish
  BY <1>11 DEF Finish
<1>12. CASE UnmapSqes
  <2>1. CASE ring.app_mem
    <3>1. /\ ring' = [ring EXCEPT !.sqes = NoPtr, !.sqes_sz = FALSE,
                                !.sq_ptr = NoPtr, !.sq_sz = FALSE,
                                !.cq_ptr = NoPtr, !.cq_sz = FALSE]
          /\ pc = "unmap_sqes" /\ pc' = then /\ pages' = pages
      BY <1>12, <2>1 DEF UnmapSqes
    <3> QED BY <2>1, <3>1
  <2>2. CASE ~ring.app_mem /\ ring.sqes # NoPtr /\ ring.sqes_sz
    <3>1. ring' = [ring EXCEPT !.sqes = NoPtr, !.sqes_sz = FALSE] /\ Munmap(ring.sqes)
      BY <1>12, <2>2 DEF UnmapSqes
    <3> QED BY <1>12, <2>2, <3>1 DEF UnmapSqes
  <2>3. CASE ~ring.app_mem /\ ~(ring.sqes # NoPtr /\ ring.sqes_sz)
    BY <1>12, <2>3 DEF UnmapSqes
  <2> QED BY <2>1, <2>2, <2>3
<1>13. CASE UnmapCq
  <2>1. CASE Shared
    <3>1. ring' = [ring EXCEPT !.cq_ptr = NoPtr, !.cq_sz = FALSE] /\ pages' = pages
      BY <1>13, <2>1 DEF UnmapCq
    <3> QED BY <1>13, <2>1, <3>1 DEF UnmapCq, Shared
  <2>2. CASE ~Shared /\ ring.cq_ptr # NoPtr /\ ring.cq_sz
    <3>1. ring' = [ring EXCEPT !.cq_ptr = NoPtr, !.cq_sz = FALSE] /\ Munmap(ring.cq_ptr)
      BY <1>13, <2>2 DEF UnmapCq
    <3> QED BY <1>13, <2>2, <3>1 DEF UnmapCq, Shared
  <2>3. CASE ~Shared /\ ~(ring.cq_ptr # NoPtr /\ ring.cq_sz)
    BY <1>13, <2>3 DEF UnmapCq
  <2> QED BY <2>1, <2>2, <2>3
<1>14. CASE UnmapSq
  <2>1. CASE ring.sq_ptr # NoPtr /\ ring.sq_sz
    <3>1. ring' = [ring EXCEPT !.sq_ptr = NoPtr, !.sq_sz = FALSE] /\ Munmap(ring.sq_ptr)
      BY <1>14, <2>1 DEF UnmapSq
    <3> QED BY <1>14, <2>1, <3>1 DEF UnmapSq
  <2>2. CASE ~(ring.sq_ptr # NoPtr /\ ring.sq_sz)
    BY <1>14, <2>2 DEF UnmapSq
  <2> QED BY <2>1, <2>2
<1>15. CASE UnregisterRingFd
  BY <1>15, UnregisterFields DEF UnregisterRingFd
<1>16. CASE CloseRingFd
  BY <1>16 DEF CloseRingFd, MayClose
<1>17. CASE ProbeDone
  BY <1>17 DEF ProbeDone
<1>18. CASE ProbeFail
  BY <1>18 DEF ProbeFail
<1>19. CASE Destroy
  BY <1>19, UnregisterFields DEF Destroy
<1>20. CASE DestroyClose
  BY <1>20 DEF DestroyClose, Blank, NoCfg, Cfgs
<1>21. CASE Others
  BY <1>21 DEF Others
<1>22. ASSUME NEW p \in Pages, NoMmapSqes(p) PROVE PagesHeld'
  BY <1>22 DEF NoMmapSqes
<1>23. ASSUME NEW p \in Pages, NoMmapRing(p) PROVE PagesHeld'
  BY <1>23 DEF NoMmapRing
<1>24. ASSUME NEW p \in Pages, MapSq(p) PROVE PagesHeld'
  BY <1>24 DEF MapSq, SharedMap
<1>25. ASSUME NEW p \in Pages, MapCq(p) PROVE PagesHeld'
  BY <1>25 DEF MapCq
<1>26. ASSUME NEW p \in Pages, MapSqes(p) PROVE PagesHeld'
  BY <1>26 DEF MapSqes
<1>27. ASSUME NEW p \in Pages, GetProbeRing(p) PROVE PagesHeld'
  BY <1>27 DEF GetProbeRing
<1>28. ASSUME NEW p \in Pages, FreeProbe(p) PROVE PagesHeld'
  BY <1>28 DEF FreeProbe
<1>29. ASSUME NEW i \in Indexes, RegisterRingFd(i) PROVE PagesHeld'
  BY <1>29 DEF RegisterRingFd, Cfgs
<1> QED
  BY <1>1, <1>2, <1>3, <1>4, <1>5, <1>6, <1>7, <1>8, <1>9, <1>10, <1>11, <1>12,
    <1>13, <1>14, <1>15, <1>16, <1>17, <1>18, <1>19, <1>20, <1>21, <1>22, <1>23,
    <1>24, <1>25, <1>26, <1>27, <1>28, <1>29 DEF Next

LEMMA StagesStep ==
  ASSUME TypeOK, Apart, Stages, TypeOK', Next
  PROVE  Stages'
<1> USE SetupAssumption DEF TypeOK, Ptr, Apart, Stages, NoSizes, Sized, Go,
    Unmap, Mmap, Munmap, Close, outside
<1>1. ASSUME NEW c \in Cfgs, Construct(c) PROVE Stages'
  BY <1>1 DEF Construct, Blank, Cfgs
<1>2. CASE NoMmapFail
  BY <1>2 DEF NoMmapFail
<1>3. CASE NoMmapBuf
  BY <1>3 DEF NoMmapBuf
<1>4. CASE NoMmapRingFail
  BY <1>4 DEF NoMmapRingFail
<1>5. CASE Setup
  BY <1>5 DEF Setup
<1>6. CASE SetupFail
  BY <1>6 DEF SetupFail
<1>7. CASE MapSqFail
  BY <1>7 DEF MapSqFail
<1>8. CASE MapCqFail
  BY <1>8 DEF MapCqFail
<1>9. CASE MapSqesFail
  BY <1>9 DEF MapSqesFail
<1>10. CASE CloseFailed
  BY <1>10 DEF CloseFailed
<1>11. CASE Finish
  BY <1>11 DEF Finish
<1>12. CASE UnmapSqes
  <2>1. CASE ring.app_mem
    <3>1. /\ ring' = [ring EXCEPT !.sqes = NoPtr, !.sqes_sz = FALSE,
                                !.sq_ptr = NoPtr, !.sq_sz = FALSE,
                                !.cq_ptr = NoPtr, !.cq_sz = FALSE]
          /\ pc' = then
      BY <1>12, <2>1 DEF UnmapSqes
    <3>2. ~ring'.sqes_sz /\ ~ring'.sq_sz /\ ~ring'.cq_sz
      BY <3>1
    <3> QED BY <3>1, <3>2
  <2>2. CASE ~ring.app_mem /\ ring.sqes # NoPtr /\ ring.sqes_sz
    <3>1. ring' = [ring EXCEPT !.sqes = NoPtr, !.sqes_sz = FALSE]
          /\ pc' = "unmap_cq"
      BY <1>12, <2>2 DEF UnmapSqes
    <3>2. ~ring'.sqes_sz
      BY <3>1
    <3> QED BY <3>1, <3>2
  <2>3. CASE ~ring.app_mem /\ ~(ring.sqes # NoPtr /\ ring.sqes_sz)
    <3>1. ring' = ring /\ pc' = "unmap_cq"
      BY <1>12, <2>3 DEF UnmapSqes
    <3>2. ~ring.sqes_sz
      BY <2>3
    <3> QED BY <3>1, <3>2
  <2> QED BY <2>1, <2>2, <2>3
<1>13. CASE UnmapCq
  BY <1>13 DEF UnmapCq, Shared
<1>14. CASE UnmapSq
  BY <1>14 DEF UnmapSq
<1>15. CASE UnregisterRingFd
  BY <1>15, UnregisterFields DEF UnregisterRingFd
<1>16. CASE CloseRingFd
  BY <1>16 DEF CloseRingFd, MayClose
<1>17. CASE ProbeDone
  BY <1>17 DEF ProbeDone
<1>18. CASE ProbeFail
  BY <1>18 DEF ProbeFail
<1>19. CASE Destroy
  BY <1>19, UnregisterFields DEF Destroy
<1>20. CASE DestroyClose
  BY <1>20 DEF DestroyClose, Blank, NoCfg, Cfgs
<1>21. CASE Others
  BY <1>21 DEF Others
<1>22. ASSUME NEW p \in Pages, NoMmapSqes(p) PROVE Stages'
  BY <1>22 DEF NoMmapSqes
<1>23. ASSUME NEW p \in Pages, NoMmapRing(p) PROVE Stages'
  BY <1>23 DEF NoMmapRing
<1>24. ASSUME NEW p \in Pages, MapSq(p) PROVE Stages'
  BY <1>24 DEF MapSq, SharedMap
<1>25. ASSUME NEW p \in Pages, MapCq(p) PROVE Stages'
  BY <1>25 DEF MapCq
<1>26. ASSUME NEW p \in Pages, MapSqes(p) PROVE Stages'
  BY <1>26 DEF MapSqes
<1>27. ASSUME NEW p \in Pages, GetProbeRing(p) PROVE Stages'
  BY <1>27 DEF GetProbeRing
<1>28. ASSUME NEW p \in Pages, FreeProbe(p) PROVE Stages'
  BY <1>28 DEF FreeProbe
<1>29. ASSUME NEW i \in Indexes, RegisterRingFd(i) PROVE Stages'
  BY <1>29 DEF RegisterRingFd, Cfgs
<1> QED
  BY <1>1, <1>2, <1>3, <1>4, <1>5, <1>6, <1>7, <1>8, <1>9, <1>10, <1>11, <1>12,
    <1>13, <1>14, <1>15, <1>16, <1>17, <1>18, <1>19, <1>20, <1>21, <1>22, <1>23,
    <1>24, <1>25, <1>26, <1>27, <1>28, <1>29 DEF Next

LEMMA PointersStep ==
  ASSUME TypeOK, Apart, Stages, Pointers, TypeOK', Next
  PROVE  Pointers'
<1> USE SetupAssumption DEF TypeOK, Ptr, Apart, Stages, NoSizes, Sized, Live,
    Pointers, Go, Unmap, Mmap, Munmap, Close, outside
<1>1. ASSUME NEW c \in Cfgs, Construct(c) PROVE Pointers'
  BY <1>1 DEF Construct, Blank, Cfgs
<1>2. CASE NoMmapFail
  BY <1>2 DEF NoMmapFail
<1>3. CASE NoMmapBuf
  BY <1>3 DEF NoMmapBuf
<1>4. CASE NoMmapRingFail
  BY <1>4 DEF NoMmapRingFail
<1>5. CASE Setup
  BY <1>5 DEF Setup
<1>6. CASE SetupFail
  BY <1>6 DEF SetupFail
<1>7. CASE MapSqFail
  BY <1>7 DEF MapSqFail
<1>8. CASE MapCqFail
  BY <1>8 DEF MapCqFail
<1>9. CASE MapSqesFail
  BY <1>9 DEF MapSqesFail
<1>10. CASE CloseFailed
  BY <1>10 DEF CloseFailed
<1>11. CASE Finish
  BY <1>11 DEF Finish
<1>12. CASE UnmapSqes
  BY <1>12 DEF UnmapSqes
<1>13. CASE UnmapCq
  BY <1>13 DEF UnmapCq, Shared
<1>14. CASE UnmapSq
  BY <1>14 DEF UnmapSq
<1>15. CASE UnregisterRingFd
  BY <1>15, UnregisterFields DEF UnregisterRingFd
<1>16. CASE CloseRingFd
  BY <1>16 DEF CloseRingFd, MayClose
<1>17. CASE ProbeDone
  BY <1>17 DEF ProbeDone
<1>18. CASE ProbeFail
  BY <1>18 DEF ProbeFail
<1>19. CASE Destroy
  BY <1>19, UnregisterFields DEF Destroy
<1>20. CASE DestroyClose
  BY <1>20 DEF DestroyClose, Blank, NoCfg, Cfgs
<1>21. CASE Others
  BY <1>21 DEF Others
<1>22. ASSUME NEW p \in Pages, NoMmapSqes(p) PROVE Pointers'
  BY <1>22 DEF NoMmapSqes
<1>23. ASSUME NEW p \in Pages, NoMmapRing(p) PROVE Pointers'
  BY <1>23 DEF NoMmapRing
<1>24. ASSUME NEW p \in Pages, MapSq(p) PROVE Pointers'
  BY <1>24 DEF MapSq, SharedMap
<1>25. ASSUME NEW p \in Pages, MapCq(p) PROVE Pointers'
  BY <1>25 DEF MapCq
<1>26. ASSUME NEW p \in Pages, MapSqes(p) PROVE Pointers'
  BY <1>26 DEF MapSqes
<1>27. ASSUME NEW p \in Pages, GetProbeRing(p) PROVE Pointers'
  BY <1>27 DEF GetProbeRing
<1>28. ASSUME NEW p \in Pages, FreeProbe(p) PROVE Pointers'
  BY <1>28 DEF FreeProbe
<1>29. ASSUME NEW i \in Indexes, RegisterRingFd(i) PROVE Pointers'
  BY <1>29 DEF RegisterRingFd, Cfgs
<1> QED
  BY <1>1, <1>2, <1>3, <1>4, <1>5, <1>6, <1>7, <1>8, <1>9, <1>10, <1>11, <1>12,
    <1>13, <1>14, <1>15, <1>16, <1>17, <1>18, <1>19, <1>20, <1>21, <1>22, <1>23,
    <1>24, <1>25, <1>26, <1>27, <1>28, <1>29 DEF Next

LEMMA DescriptorsStep ==
  ASSUME TypeOK, Descriptors, Registered, FdOnly = FALSE, TypeOK', Next
  PROVE  Descriptors'
<1> USE SetupAssumption DEF TypeOK, Ptr, Descriptors, Registered, Unmapping,
    Local, Cfgs, Go, Unmap, Mmap, Munmap, Close, outside
<1>1. ASSUME NEW c \in Cfgs, Construct(c) PROVE Descriptors'
  BY <1>1 DEF Construct, Blank, Cfgs
<1>2. CASE NoMmapFail
  BY <1>2 DEF NoMmapFail
<1>3. CASE NoMmapBuf
  BY <1>3 DEF NoMmapBuf
<1>4. CASE NoMmapRingFail
  BY <1>4 DEF NoMmapRingFail
<1>5. CASE Setup
  BY <1>5 DEF Setup
<1>6. CASE SetupFail
  BY <1>6 DEF SetupFail
<1>7. CASE MapSqFail
  BY <1>7 DEF MapSqFail
<1>8. CASE MapCqFail
  BY <1>8 DEF MapCqFail
<1>9. CASE MapSqesFail
  BY <1>9 DEF MapSqesFail
<1>10. CASE CloseFailed
  BY <1>10 DEF CloseFailed
<1>11. CASE Finish
  BY <1>11 DEF Finish
<1>12. CASE UnmapSqes
  BY <1>12, UnmapSteps DEF UnmapSqes
<1>13. CASE UnmapCq
  BY <1>13, UnmapSteps DEF UnmapCq, Shared
<1>14. CASE UnmapSq
  BY <1>14, UnmapSteps DEF UnmapSq
<1>15. CASE UnregisterRingFd
  <2>1. /\ ring' = [ring EXCEPT !.enterfd = ring.ringfd, !.reg_ring = FALSE,
                              !.reg_reg_ring = FALSE]
        /\ regs' = [regs EXCEPT ![ring.enterfd] = "free"]
    BY <1>15, UnregisterSteps DEF UnregisterRingFd
  <2>2. ring.reg_ring
    BY <1>15 DEF UnregisterRingFd, Unregister
  <2> QED BY <1>15, <2>1, <2>2 DEF UnregisterRingFd
<1>16. CASE CloseRingFd
  BY <1>16 DEF CloseRingFd, MayClose
<1>17. CASE ProbeDone
  BY <1>17 DEF ProbeDone
<1>18. CASE ProbeFail
  BY <1>18 DEF ProbeFail
<1>19. CASE Destroy
  <2>1. CASE ring.reg_ring
    <3>1. /\ ring' = [ring EXCEPT !.enterfd = ring.ringfd, !.reg_ring = FALSE,
                                !.reg_reg_ring = FALSE]
          /\ regs' = [regs EXCEPT ![ring.enterfd] = "free"]
      BY <1>19, <2>1, UnregisterSteps DEF Destroy
    <3> QED BY <1>19, <2>1, <3>1 DEF Destroy
  <2>2. CASE ~ring.reg_ring
    BY <1>19, <2>2 DEF Destroy
  <2> QED BY <2>1, <2>2
<1>20. CASE DestroyClose
  BY <1>20 DEF DestroyClose, Blank, NoCfg, Cfgs
<1>21. CASE Others
  BY <1>21 DEF Others
<1>22. ASSUME NEW p \in Pages, NoMmapSqes(p) PROVE Descriptors'
  BY <1>22 DEF NoMmapSqes
<1>23. ASSUME NEW p \in Pages, NoMmapRing(p) PROVE Descriptors'
  BY <1>23 DEF NoMmapRing
<1>24. ASSUME NEW p \in Pages, MapSq(p) PROVE Descriptors'
  BY <1>24 DEF MapSq, SharedMap
<1>25. ASSUME NEW p \in Pages, MapCq(p) PROVE Descriptors'
  BY <1>25 DEF MapCq
<1>26. ASSUME NEW p \in Pages, MapSqes(p) PROVE Descriptors'
  BY <1>26 DEF MapSqes
<1>27. ASSUME NEW p \in Pages, GetProbeRing(p) PROVE Descriptors'
  BY <1>27 DEF GetProbeRing
<1>28. ASSUME NEW p \in Pages, FreeProbe(p) PROVE Descriptors'
  BY <1>28 DEF FreeProbe
<1>29. ASSUME NEW i \in Indexes, RegisterRingFd(i) PROVE Descriptors'
  BY <1>29 DEF RegisterRingFd, Cfgs
<1> QED
  BY <1>1, <1>2, <1>3, <1>4, <1>5, <1>6, <1>7, <1>8, <1>9, <1>10, <1>11, <1>12,
    <1>13, <1>14, <1>15, <1>16, <1>17, <1>18, <1>19, <1>20, <1>21, <1>22, <1>23,
    <1>24, <1>25, <1>26, <1>27, <1>28, <1>29 DEF Next

LEMMA RegisteredStep ==
  ASSUME TypeOK, Descriptors, Registered, TypeOK', Next
  PROVE  Registered'
<1> USE SetupAssumption DEF TypeOK, Ptr, Descriptors, Registered, Unmapping,
    Local, Cfgs, Go, Unmap, Mmap, Munmap, Close, outside
<1>1. ASSUME NEW c \in Cfgs, Construct(c) PROVE Registered'
  BY <1>1 DEF Construct, Blank, Cfgs
<1>2. CASE NoMmapFail
  BY <1>2 DEF NoMmapFail
<1>3. CASE NoMmapBuf
  BY <1>3 DEF NoMmapBuf
<1>4. CASE NoMmapRingFail
  BY <1>4 DEF NoMmapRingFail
<1>5. CASE Setup
  BY <1>5 DEF Setup
<1>6. CASE SetupFail
  BY <1>6 DEF SetupFail
<1>7. CASE MapSqFail
  BY <1>7 DEF MapSqFail
<1>8. CASE MapCqFail
  BY <1>8 DEF MapCqFail
<1>9. CASE MapSqesFail
  BY <1>9 DEF MapSqesFail
<1>10. CASE CloseFailed
  BY <1>10 DEF CloseFailed
<1>11. CASE Finish
  BY <1>11 DEF Finish
<1>12. CASE UnmapSqes
  BY <1>12, UnmapSteps DEF UnmapSqes
<1>13. CASE UnmapCq
  BY <1>13, UnmapSteps DEF UnmapCq, Shared
<1>14. CASE UnmapSq
  BY <1>14, UnmapSteps DEF UnmapSq
<1>15. CASE UnregisterRingFd
  <2>1. /\ ring' = [ring EXCEPT !.enterfd = ring.ringfd, !.reg_ring = FALSE,
                              !.reg_reg_ring = FALSE]
        /\ regs' = [regs EXCEPT ![ring.enterfd] = "free"]
    BY <1>15, UnregisterSteps DEF UnregisterRingFd
  <2>2. ring.reg_ring
    BY <1>15 DEF UnregisterRingFd, Unregister
  <2> QED BY <1>15, <2>1, <2>2 DEF UnregisterRingFd
<1>16. CASE CloseRingFd
  BY <1>16 DEF CloseRingFd, MayClose
<1>17. CASE ProbeDone
  BY <1>17 DEF ProbeDone
<1>18. CASE ProbeFail
  BY <1>18 DEF ProbeFail
<1>19. CASE Destroy
  <2>1. CASE ring.reg_ring
    <3>1. /\ ring' = [ring EXCEPT !.enterfd = ring.ringfd, !.reg_ring = FALSE,
                                !.reg_reg_ring = FALSE]
          /\ regs' = [regs EXCEPT ![ring.enterfd] = "free"]
      BY <1>19, <2>1, UnregisterSteps DEF Destroy
    <3> QED BY <1>19, <2>1, <3>1 DEF Destroy
  <2>2. CASE ~ring.reg_ring
    BY <1>19, <2>2 DEF Destroy
  <2> QED BY <2>1, <2>2
<1>20. CASE DestroyClose
  BY <1>20 DEF DestroyClose, Blank, NoCfg, Cfgs
<1>21. CASE Others
  BY <1>21 DEF Others
<1>22. ASSUME NEW p \in Pages, NoMmapSqes(p) PROVE Registered'
  BY <1>22 DEF NoMmapSqes
<1>23. ASSUME NEW p \in Pages, NoMmapRing(p) PROVE Registered'
  BY <1>23 DEF NoMmapRing
<1>24. ASSUME NEW p \in Pages, MapSq(p) PROVE Registered'
  BY <1>24 DEF MapSq, SharedMap
<1>25. ASSUME NEW p \in Pages, MapCq(p) PROVE Registered'
  BY <1>25 DEF MapCq
<1>26. ASSUME NEW p \in Pages, MapSqes(p) PROVE Registered'
  BY <1>26 DEF MapSqes
<1>27. ASSUME NEW p \in Pages, GetProbeRing(p) PROVE Registered'
  BY <1>27 DEF GetProbeRing
<1>28. ASSUME NEW p \in Pages, FreeProbe(p) PROVE Registered'
  BY <1>28 DEF FreeProbe
<1>29. ASSUME NEW i \in Indexes, RegisterRingFd(i) PROVE Registered'
  BY <1>29 DEF RegisterRingFd, RegisterTarget, FdHolder
<1> QED
  BY <1>1, <1>2, <1>3, <1>4, <1>5, <1>6, <1>7, <1>8, <1>9, <1>10, <1>11, <1>12,
    <1>13, <1>14, <1>15, <1>16, <1>17, <1>18, <1>19, <1>20, <1>21, <1>22, <1>23,
    <1>24, <1>25, <1>26, <1>27, <1>28, <1>29 DEF Next

\* The two inductive invariants, put together.
LEMMA MemoryInductive ==
  /\ Init => Memory
  /\ Memory /\ [Next]_vars => Memory'
<1>1. Init => Memory
  BY SetupAssumption DEF Init, Memory, TypeOK, Apart, PagesHeld, Stages, Pointers,
    Sized,
     NoSizes, Blank, NoCfg, Cfgs, Ptr, Owner
<1>2. ASSUME Memory, Next PROVE Memory'
  <2>1. TypeOK'
    BY <1>2, TypeStep DEF Memory
  <2> QED
    BY <1>2, <2>1, ApartStep, PagesHeldStep, StagesStep, PointersStep DEF Memory
<1>3. ASSUME Memory, UNCHANGED vars PROVE Memory'
  BY <1>3 DEF vars, outside, Memory, TypeOK, Apart, PagesHeld, Stages, Pointers, Live,
     Sized, NoSizes
<1> QED BY <1>1, <1>2, <1>3

LEMMA IInvInductive ==
  ASSUME FdOnly = FALSE
  PROVE  /\ Init => IInv
         /\ IInv /\ [Next]_vars => IInv'
<1>1. Init => IInv
  BY MemoryInductive, SetupAssumption DEF Init, IInv, Descriptors, Registered,
    Unmapping,
     Local, Blank, NoCfg
<1>2. ASSUME IInv, Next PROVE IInv'
  <2>1. Memory' /\ TypeOK /\ TypeOK'
    BY <1>2, MemoryInductive DEF IInv, Memory
  <2> QED
    BY <1>2, <2>1, DescriptorsStep, RegisteredStep DEF IInv
<1>3. ASSUME IInv, UNCHANGED vars PROVE IInv'
  <2>1. Memory'
    BY <1>3, MemoryInductive DEF IInv
  <2> QED
    BY <1>3, <2>1 DEF vars, outside, IInv, Descriptors, Registered, Unmapping, Local
<1> QED BY <1>1, <1>2, <1>3

\* What a step leaves alone, as OthersUntouched says it.
Untouched ==
  /\ \A p \in Pages : pages[p] = "other" => pages'[p] = "other"
  /\ \A p \in Pages : pages[p] = "probe" /\ pc' # pc => pages'[p] = "probe"
  /\ \A f \in Fds : fds[f] = "other" => fds'[f] = "other"
  /\ \A i \in Indexes : regs[i] = "other" => regs'[i] = "other"

\* What a step gives back is the object's before it.
LEMMA StepUntouched ==
  ASSUME IInv, Next
  PROVE  Untouched
<1>0. TypeOK /\ Apart /\ PagesHeld /\ Stages /\ Descriptors /\ Registered
  BY DEF IInv, Memory
<1> USE <1>0, SetupAssumption
    DEF Untouched, TypeOK, Apart, PagesHeld, Stages, Sized, NoSizes, Descriptors,
        Unmapping, Local, Registered, Go, Unmap, Mmap, Munmap, Close, outside
<1>1. ASSUME NEW c \in Cfgs, Construct(c) PROVE Untouched
  BY <1>1 DEF Construct
<1>2. CASE NoMmapFail
  BY <1>2 DEF NoMmapFail
<1>3. CASE NoMmapBuf
  BY <1>3 DEF NoMmapBuf
<1>4. CASE NoMmapRingFail
  BY <1>4 DEF NoMmapRingFail
<1>5. CASE Setup
  BY <1>5 DEF Setup
<1>6. CASE SetupFail
  BY <1>6 DEF SetupFail
<1>7. CASE MapSqFail
  BY <1>7 DEF MapSqFail
<1>8. CASE MapCqFail
  BY <1>8 DEF MapCqFail
<1>9. CASE MapSqesFail
  BY <1>9 DEF MapSqesFail
<1>10. CASE CloseFailed
  BY <1>10 DEF CloseFailed
<1>11. CASE Finish
  BY <1>11 DEF Finish
<1>12. CASE UnmapSqes
  BY <1>12 DEF UnmapSqes
<1>13. CASE UnmapCq
  BY <1>13 DEF UnmapCq
<1>14. CASE UnmapSq
  BY <1>14 DEF UnmapSq
<1>15. CASE UnregisterRingFd
  <2>1. ring.reg_ring /\ regs' = [regs EXCEPT ![ring.enterfd] = "free"]
    BY <1>15, UnregisterSteps DEF UnregisterRingFd, Unregister
  <2> QED BY <1>15, <2>1 DEF UnregisterRingFd
<1>16. CASE CloseRingFd
  BY <1>16 DEF CloseRingFd
<1>17. CASE ProbeDone
  BY <1>17 DEF ProbeDone
<1>18. CASE ProbeFail
  BY <1>18 DEF ProbeFail
<1>19. CASE Destroy
  BY <1>19, UnregisterSteps DEF Destroy
<1>20. CASE DestroyClose
  BY <1>20 DEF DestroyClose
<1>21. CASE Others
  BY <1>21 DEF Others
<1>22. ASSUME NEW p \in Pages, NoMmapSqes(p) PROVE Untouched
  BY <1>22 DEF NoMmapSqes
<1>23. ASSUME NEW p \in Pages, NoMmapRing(p) PROVE Untouched
  BY <1>23 DEF NoMmapRing
<1>24. ASSUME NEW p \in Pages, MapSq(p) PROVE Untouched
  BY <1>24 DEF MapSq
<1>25. ASSUME NEW p \in Pages, MapCq(p) PROVE Untouched
  BY <1>25 DEF MapCq
<1>26. ASSUME NEW p \in Pages, MapSqes(p) PROVE Untouched
  BY <1>26 DEF MapSqes
<1>27. ASSUME NEW p \in Pages, GetProbeRing(p) PROVE Untouched
  BY <1>27 DEF GetProbeRing
<1>28. ASSUME NEW p \in Pages, FreeProbe(p) PROVE Untouched
  BY <1>28 DEF FreeProbe
<1>29. ASSUME NEW i \in Indexes, RegisterRingFd(i) PROVE Untouched
  BY <1>29 DEF RegisterRingFd
<1> QED
  BY <1>1, <1>2, <1>3, <1>4, <1>5, <1>6, <1>7, <1>8, <1>9, <1>10, <1>11, <1>12,
    <1>13, <1>14, <1>15, <1>16, <1>17, <1>18, <1>19, <1>20, <1>21, <1>22, <1>23,
    <1>24, <1>25, <1>26, <1>27, <1>28, <1>29 DEF Next

-----------------------------------------------------------------------------
(* The theorems.                                                           *)

\* The fields, the local variables and the outside keep their types, for any
\* configuration of the constructor.
THEOREM TypeCorrect == Spec => []TypeOK
<1>1. Init => TypeOK
  BY SetupAssumption DEF Init, TypeOK, Blank, NoCfg, Cfgs, Ptr, Owner
<1>2. TypeOK /\ [Next]_vars => TypeOK'
  <2>1. ASSUME TypeOK, UNCHANGED vars PROVE TypeOK'
    BY <2>1 DEF TypeOK, vars, outside
  <2> QED BY <2>1, TypeStep
<1> QED BY <1>1, <1>2, PTL DEF Spec

\* A mapping is the object's exactly while a field with a size, or a probe
\* under way, points to it; with any flags of the constructor.
THEOREM MemoryConsistent == Spec => []Memory
BY MemoryInductive, PTL DEF Spec

\* While the ring is usable its three pointers are into the memory of the
\* application or into mappings it still holds; with any flags.
THEOREM PointersStayLive == Spec => []PointersLive
<1>1. Memory => PointersLive
  <2> SUFFICES ASSUME Memory, pc = "ready"
               PROVE  PointersLive
    BY DEF PointersLive
  <2>1. Live(ring.sqes) /\ Live(ring.sq_ptr) /\ Live(ring.cq_ptr)
    BY DEF Memory, Pointers
  <2>2. \A p : Live(p) => p = AppBuf \/ (p \in Pages /\ pages[p] = "ring")
    BY DEF Memory, Live, PagesHeld
  <2> QED BY <2>1, <2>2 DEF PointersLive
<1> QED BY <1>1, MemoryConsistent, PTL

\* So are the descriptor and the index what the fields say, in a process that
\* does not use IORING_SETUP_REGISTERED_FD_ONLY.
THEOREM Consistent ==
  ASSUME FdOnly = FALSE PROVE Spec => []IInv
BY IInvInductive, PTL DEF Spec

\* Whichever mmap or io_uring_setup failed, and whatever was registered and
\* closed before the destructor, nothing stays behind.
THEOREM LeaksNothing ==
  ASSUME FdOnly = FALSE PROVE Spec => []NothingLeaks
<1>1. IInv => NothingLeaks
  <2> SUFFICES ASSUME IInv, pc \in {"none", "failed"}
               PROVE  NothingLeaks
    BY DEF NothingLeaks
  <2> USE DEF IInv, Memory
  <2>1. \A p \in Pages : pages[p] # "ring"
    BY DEF PagesHeld, Stages, NoSizes, Sized
  <2>2. \A f \in Fds : fds[f] # "ring"
    BY SetupAssumption DEF Descriptors, Local, Unmapping
  <2>3. \A i \in Indexes : regs[i] # "ring"
    BY DEF Registered
  <2> QED BY <2>1, <2>2, <2>3 DEF NothingLeaks
<1> QED BY <1>1, Consistent, PTL

\* Nothing is given back twice, and nothing of anybody else's.
THEOREM LeavesOthersAlone ==
  ASSUME FdOnly = FALSE PROVE Spec => OthersUntouched
<1>1. IInv /\ [Next]_vars => [Untouched]_vars
  BY StepUntouched
<1>2. Spec => [][Untouched]_vars
  BY <1>1, Consistent, PTL DEF Spec
<1> QED BY <1>2 DEF OthersUntouched, Untouched

-----------------------------------------------------------------------------
(* Where the rings lie.  Powers of two first.                              *)

\* The definition of the recursive function in Pow2, on 0 .. n.
Powers(f, n) == f = [k \in 0 .. n |-> IF k = 0 THEN 1 ELSE 2 * f[k - 1]]

\* There is such a function, and one only.
LEMMA PowersExist == \A n \in Nat : \E f : Powers(f, n)
<1> DEFINE T == {n \in Nat : \E f : Powers(f, n)}
<1>1. 0 \in T
  <2>1. Powers([k \in 0 .. 0 |-> 1], 0)
    BY DEF Powers
  <2> QED BY <2>1
<1>2. ASSUME NEW n \in T PROVE n + 1 \in T
  <2>1. PICK f : Powers(f, n)
    OBVIOUS
  <2> DEFINE g == [k \in 0 .. n + 1 |-> IF k = n + 1 THEN 2 * f[n] ELSE f[k]]
  <2>2. ASSUME NEW k \in 0 .. n + 1
        PROVE  g[k] = IF k = 0 THEN 1 ELSE 2 * g[k - 1]
    <3>1. CASE k = n + 1
      <4>1. k # 0 /\ k - 1 = n /\ g[k - 1] = f[n] /\ g[k] = 2 * f[n]
        BY <3>1
      <4> HIDE DEF g
      <4> QED BY <4>1
    <3>2. CASE k # n + 1
      <4>1. k \in 0 .. n
        BY <3>2
      <4>2. g[k] = f[k] /\ (k # 0 => g[k - 1] = f[k - 1])
        BY <3>2, <4>1
      <4>3. f[k] = IF k = 0 THEN 1 ELSE 2 * f[k - 1]
        BY <2>1, <4>1 DEF Powers
      <4> HIDE DEF g
      <4> QED BY <4>2, <4>3
    <3> QED BY <3>1, <3>2
  <2>3. g = [k \in 0 .. n + 1 |-> g[k]]
    OBVIOUS
  <2> HIDE DEF g
  <2>4. Powers(g, n + 1)
    BY <2>2, <2>3 DEF Powers
  <2> QED BY <2>4
<1>3. T \subseteq Nat
  OBVIOUS
<1> HIDE DEF T
<1>4. \A n \in Nat : n \in T
  BY <1>1, <1>2, <1>3, NumbersByInduction
<1> QED BY <1>4 DEF T

LEMMA PowersAgree ==
  ASSUME NEW m \in Nat, NEW f, Powers(f, m), NEW g, Powers(g, m + 1)
  PROVE  f[m] = g[m]
<1> DEFINE T == {k \in Nat : k <= m => f[k] = g[k]}
<1>1. 0 \in T
  BY DEF Powers
<1>2. ASSUME NEW k \in T PROVE k + 1 \in T
  <2>1. SUFFICES ASSUME k + 1 <= m PROVE f[k + 1] = g[k + 1]
    OBVIOUS
  <2>2. k + 1 \in 0 .. m /\ k + 1 \in 0 .. m + 1 /\ k + 1 # 0 /\ (k + 1) - 1 = k
    BY <2>1
  <2>3. f[k + 1] = 2 * f[k] /\ g[k + 1] = 2 * g[k]
    BY <2>2 DEF Powers
  <2>4. f[k] = g[k]
    BY <2>1
  <2> QED BY <2>3, <2>4
<1>3. T \subseteq Nat
  OBVIOUS
<1> HIDE DEF T
<1>4. m \in T
  BY <1>1, <1>2, <1>3, NumbersByInduction
<1> QED BY <1>4 DEF T

LEMMA PowIsPower ==
  ASSUME NEW n \in Nat
  PROVE  \E f : Powers(f, n) /\ Pow2(n) = f[n]
<1> DEFINE f == CHOOSE f : Powers(f, n)
<1>1. Pow2(n) = f[n]
  BY DEF Pow2, Powers
<1>2. Powers(f, n)
  BY PowersExist
<1> QED BY <1>1, <1>2

\* 1 << 0 and 1 << (n + 1).
LEMMA PowZero == Pow2(0) = 1
<1>1. PICK f : Powers(f, 0) /\ Pow2(0) = f[0]
  BY PowIsPower
<1> QED BY <1>1 DEF Powers

LEMMA PowNext ==
  ASSUME NEW n \in Nat
  PROVE  Pow2(n + 1) = 2 * Pow2(n)
<1>1. PICK f : Powers(f, n) /\ Pow2(n) = f[n]
  BY PowIsPower
<1>2. n + 1 \in Nat /\ n + 1 \in 0 .. n + 1 /\ n + 1 # 0 /\ (n + 1) - 1 = n
  OBVIOUS
<1>3. PICK g : Powers(g, n + 1) /\ Pow2(n + 1) = g[n + 1]
  BY <1>2, PowIsPower
<1>4. g[n + 1] = 2 * g[n]
  BY <1>2, <1>3 DEF Powers
<1>5. f[n] = g[n]
  BY <1>1, <1>3, PowersAgree
<1> QED BY <1>1, <1>3, <1>4, <1>5

\* Powers are positive.
LEMMA PowType == \A n \in Nat : Pow2(n) \in Nat \ {0}
<1> DEFINE T == {n \in Nat : Pow2(n) \in Nat \ {0}}
<1>1. 0 \in T
  BY PowZero
<1>2. ASSUME NEW n \in T PROVE n + 1 \in T
  BY PowNext
<1>3. T \subseteq Nat
  OBVIOUS
<1> HIDE DEF T
<1>4. \A n \in Nat : n \in T
  BY <1>1, <1>2, <1>3, NumbersByInduction
<1> QED BY <1>4 DEF T

\* Between two different powers there is a factor of two at least.
LEMMA PowMonotone ==
  ASSUME NEW m \in Nat
  PROVE  \A n \in Nat : m < n => 2 * Pow2(m) <= Pow2(n)
<1> DEFINE T == {n \in Nat : m < n => 2 * Pow2(m) <= Pow2(n)}
<1>1. 0 \in T
  OBVIOUS
<1>2. ASSUME NEW n \in T PROVE n + 1 \in T
  <2>1. Pow2(n + 1) = 2 * Pow2(n) /\ Pow2(n) \in Nat /\ Pow2(m) \in Nat
    BY PowNext, PowType
  <2>2. m < n + 1 => m = n \/ m < n
    OBVIOUS
  <2>3. m < n => 2 * Pow2(m) <= Pow2(n)
    OBVIOUS
  <2>4. m < n + 1 => 2 * Pow2(m) <= Pow2(n + 1)
    BY <2>1, <2>2, <2>3
  <2> QED BY <2>4
<1>3. T \subseteq Nat
  OBVIOUS
<1> HIDE DEF T
<1>4. \A n \in Nat : n \in T
  BY <1>1, <1>2, <1>3, NumbersByInduction
<1> QED BY <1>4 DEF T

\* Every number that is not zero has a highest bit.
LEMMA HighestBit ==
  ASSUME NEW d \in Nat \ {0}
  PROVE  \A n \in Nat : d < Pow2(n) =>
           \E k \in 0 .. n - 1 : Pow2(k) <= d /\ d - Pow2(k) < Pow2(k)
<1> DEFINE Has(n) == \E k \in 0 .. n - 1 : Pow2(k) <= d /\ d - Pow2(k) < Pow2(k)
           T == {n \in Nat : d < Pow2(n) => Has(n)}
<1>1. 0 \in T
  BY PowZero
<1>2. ASSUME NEW n \in T PROVE n + 1 \in T
  <2>1. Pow2(n + 1) = 2 * Pow2(n) /\ Pow2(n) \in Nat
    BY PowNext, PowType
  <2>2. CASE d < Pow2(n)
    <3>1. PICK k \in 0 .. n - 1 : Pow2(k) <= d /\ d - Pow2(k) < Pow2(k)
      BY <2>2
    <3>2. k \in 0 .. (n + 1) - 1
      OBVIOUS
    <3> QED BY <3>1, <3>2
  <2>3. CASE ~(d < Pow2(n)) /\ d < Pow2(n + 1)
    <3>1. n \in 0 .. (n + 1) - 1 /\ Pow2(n) <= d /\ d - Pow2(n) < Pow2(n)
      BY <2>1, <2>3
    <3> QED BY <3>1
  <2>4. CASE ~(d < Pow2(n + 1))
    BY <2>4
  <2> QED BY <2>2, <2>3, <2>4
<1>3. T \subseteq Nat
  OBVIOUS
<1> HIDE DEF T
<1>4. \A n \in Nat : n \in T
  BY <1>1, <1>2, <1>3, NumbersByInduction
<1> QED BY <1>4 DEF T

\* The smallest sixteen and the next, one by one.
Small == {1, 2, 4, 8, 16, 32, 64, 128, 256, 512, 1024, 2048, 4096, 8192,
          16384, 32768}

LEMMA SmallPowers ==
  /\ \A k \in 0 .. 15 : Pow2(k) \in Small
  /\ Pow2(15) = 32768 /\ Pow2(16) = 65536
<1>1. Pow2(0) = 1
  BY PowZero
<1>2. Pow2(1) = 2 /\ Pow2(2) = 4
  <2>1. Pow2(0 + 1) = 2 * Pow2(0) /\ Pow2(1 + 1) = 2 * Pow2(1)
    BY PowNext
  <2> QED BY <1>1, <2>1
<1>3. Pow2(3) = 8 /\ Pow2(4) = 16
  <2>1. Pow2(2 + 1) = 2 * Pow2(2) /\ Pow2(3 + 1) = 2 * Pow2(3)
    BY PowNext
  <2> QED BY <1>2, <2>1
<1>4. Pow2(5) = 32 /\ Pow2(6) = 64
  <2>1. Pow2(4 + 1) = 2 * Pow2(4) /\ Pow2(5 + 1) = 2 * Pow2(5)
    BY PowNext
  <2> QED BY <1>3, <2>1
<1>5. Pow2(7) = 128 /\ Pow2(8) = 256
  <2>1. Pow2(6 + 1) = 2 * Pow2(6) /\ Pow2(7 + 1) = 2 * Pow2(7)
    BY PowNext
  <2> QED BY <1>4, <2>1
<1>6. Pow2(9) = 512 /\ Pow2(10) = 1024
  <2>1. Pow2(8 + 1) = 2 * Pow2(8) /\ Pow2(9 + 1) = 2 * Pow2(9)
    BY PowNext
  <2> QED BY <1>5, <2>1
<1>7. Pow2(11) = 2048 /\ Pow2(12) = 4096
  <2>1. Pow2(10 + 1) = 2 * Pow2(10) /\ Pow2(11 + 1) = 2 * Pow2(11)
    BY PowNext
  <2> QED BY <1>6, <2>1
<1>8. Pow2(13) = 8192 /\ Pow2(14) = 16384
  <2>1. Pow2(12 + 1) = 2 * Pow2(12) /\ Pow2(13 + 1) = 2 * Pow2(13)
    BY PowNext
  <2> QED BY <1>7, <2>1
<1>9. Pow2(15) = 32768 /\ Pow2(16) = 65536
  <2>1. Pow2(14 + 1) = 2 * Pow2(14) /\ Pow2(15 + 1) = 2 * Pow2(15)
    BY PowNext
  <2> QED BY <1>8, <2>1
<1>10. \A k \in 0 .. 15 : k \in {0, 1, 2, 3, 4, 5, 6, 7, 8, 9, 10, 11, 12, 13, 14, 15}
  OBVIOUS
<1> QED
  BY <1>1, <1>2, <1>3, <1>4, <1>5, <1>6, <1>7, <1>8, <1>9, <1>10 DEF Small

-----------------------------------------------------------------------------
(* roundup_pow2.                                                           *)

\* The leading zeros of a number whose highest bit is k.
LEMMA LeadingZeros ==
  ASSUME NEW d \in Nat, NEW k \in 0 .. Width - 1,
         Pow2(k) <= d, d - Pow2(k) < Pow2(k)
  PROVE  clz(d) = Width - 1 - k
<1> DEFINE Top(z) == Pow2(Width - 1 - z)
           Is(z)  == Top(z) <= d /\ d - Top(z) < Top(z)
<1>0. Width \in Nat
  BY LayoutAssumption
<1>1. Width - 1 - k \in 0 .. Width - 1 /\ Is(Width - 1 - k)
  <2>1. Width - 1 - (Width - 1 - k) = k
    BY <1>0
  <2> QED BY <1>0, <2>1
<1>2. ASSUME NEW z \in 0 .. Width - 1, Is(z)
      PROVE  z = Width - 1 - k
  <2> DEFINE j == Width - 1 - z
  <2>1. j \in Nat /\ k \in Nat /\ Pow2(j) <= d /\ d - Pow2(j) < Pow2(j)
    BY <1>0, <1>2
  <2>2. Pow2(j) \in Nat /\ Pow2(k) \in Nat
    BY <2>1, PowType
  <2> HIDE DEF j
  <2>3. ~(j < k)
    <3>1. SUFFICES ASSUME j < k PROVE FALSE
      OBVIOUS
    <3>2. 2 * Pow2(j) <= Pow2(k)
      BY <2>1, <3>1, PowMonotone
    <3> QED BY <2>1, <2>2, <3>2
  <2>4. ~(k < j)
    <3>1. SUFFICES ASSUME k < j PROVE FALSE
      OBVIOUS
    <3>2. 2 * Pow2(k) <= Pow2(j)
      BY <2>1, <3>1, PowMonotone
    <3> QED BY <2>1, <2>2, <3>2
  <2>5. j = k
    BY <2>1, <2>3, <2>4
  <2> QED BY <1>0, <2>5 DEF j
<1>3. clz(d) = CHOOSE z \in 0 .. Width - 1 : Is(z)
  BY DEF clz
<1> HIDE DEF Is
<1> QED BY <1>1, <1>2, <1>3

\* The least power of two that is no less than n.
IsLeast(p, n) == p >= n /\ (p = 1 \/ p \div 2 < n)

LEMMA LeastIs ==
  ASSUME NEW n \in Nat, NEW k \in 0 .. Width - 1, IsLeast(Pow2(k), n)
  PROVE  LeastPow2(n) = Pow2(k)
<1>0. Width \in Nat /\ k \in Nat
  BY LayoutAssumption
<1>1. ASSUME NEW j \in 0 .. Width - 1, IsLeast(Pow2(j), n), j < k
      PROVE  Pow2(j) = Pow2(k)
  <2>1. 2 * Pow2(j) <= Pow2(k) /\ Pow2(j) \in Nat \ {0} /\ Pow2(k) \in Nat
    BY <1>0, <1>1, PowMonotone, PowType
  <2> QED BY <1>1, <2>1 DEF IsLeast
<1>2. ASSUME NEW j \in 0 .. Width - 1, IsLeast(Pow2(j), n), k < j
      PROVE  Pow2(j) = Pow2(k)
  <2>1. 2 * Pow2(k) <= Pow2(j) /\ Pow2(j) \in Nat /\ Pow2(k) \in Nat \ {0}
    BY <1>0, <1>2, PowMonotone, PowType
  <2> QED BY <1>2, <2>1 DEF IsLeast
<1>3. ASSUME NEW p \in {Pow2(j) : j \in 0 .. Width - 1}, IsLeast(p, n)
      PROVE  p = Pow2(k)
  <2>1. PICK j \in 0 .. Width - 1 : p = Pow2(j)
    OBVIOUS
  <2>2. j < k \/ k < j \/ j = k
    BY <1>0
  <2> QED BY <1>1, <1>2, <1>3, <2>1, <2>2
<1>4. LeastPow2(n) = CHOOSE p \in {Pow2(j) : j \in 0 .. Width - 1} : IsLeast(p, n)
  BY DEF LeastPow2, IsLeast
<1> QED BY <1>3, <1>4

\* roundup_pow2 rounds up to a power of two, and to the one the kernel's
\* function finds.
LEMMA Rounded ==
  ASSUME NEW d \in Nat \ {0}, NEW w \in 0 .. Width - 1, d <= Pow2(w)
  PROVE  /\ roundup_pow2(d) = LeastPow2(d)
         /\ \E k \in 0 .. w : roundup_pow2(d) = Pow2(k)
<1>0. Width \in Nat /\ Width > 16 /\ w \in Nat
  BY LayoutAssumption
<1>1. CASE d = 1
  <2>1. roundup_pow2(d) = 1
    BY <1>1 DEF roundup_pow2
  <2>2. 0 \in 0 .. w /\ 0 \in 0 .. Width - 1 /\ Pow2(0) = 1
    BY <1>0, PowZero
  <2>3. IsLeast(Pow2(0), d)
    BY <1>1, <2>2 DEF IsLeast
  <2> QED BY <2>1, <2>2, <2>3, LeastIs
<1>2. CASE d > 1
  <2>1. d - 1 \in Nat \ {0} /\ d - 1 < Pow2(w) /\ Pow2(w) \in Nat
    BY <1>0, <1>2, PowType
  <2>2. PICK k \in 0 .. w - 1 : Pow2(k) <= d - 1 /\ (d - 1) - Pow2(k) < Pow2(k)
    BY <1>0, <2>1, HighestBit
  <2>3. k \in Nat /\ k \in 0 .. Width - 1 /\ k + 1 \in 0 .. w /\ k + 1 \in 0 .. Width - 1
    BY <1>0
  <2>4. clz(d - 1) = Width - 1 - k
    BY <2>1, <2>2, <2>3, LeadingZeros
  <2>5. Width - clz(d - 1) = k + 1
    BY <1>0, <2>3, <2>4
  <2>6. Pow2(k + 1) = 2 * Pow2(k) /\ Pow2(k) \in Nat
    BY <2>3, PowNext, PowType
  <2>7. d <= Pow2(Width - 1)
    <3>1. Width - 1 \in Nat /\ Pow2(Width - 1) \in Nat
      BY <1>0, PowType
    <3>2. w < Width - 1 => 2 * Pow2(w) <= Pow2(Width - 1)
      BY <1>0, <3>1, PowMonotone
    <3>3. w = Width - 1 \/ w < Width - 1
      BY <1>0
    <3> QED BY <2>1, <3>1, <3>2, <3>3
  <2>8. roundup_pow2(d) = Pow2(k + 1)
    <3>1. Pow2(Width - 1) \in Nat
      BY <1>0, PowType
    <3>2. ~(d <= 1) /\ ~(d > Pow2(Width - 1))
      BY <1>2, <2>7, <3>1
    <3> QED BY <2>5, <3>2 DEF roundup_pow2
  <2>9. IsLeast(Pow2(k + 1), d)
    BY <2>1, <2>2, <2>6 DEF IsLeast
  <2> QED BY <2>3, <2>8, <2>9, LeastIs
<1> QED BY <1>1, <1>2

-----------------------------------------------------------------------------
(* The counts.                                                             *)

AskedTypes ==
  /\ asked.entries \in Nat /\ asked.cq_entries \in Nat
  /\ asked.cqsize \in BOOLEAN /\ asked.clamp \in BOOLEAN
  /\ asked.sqe128 \in BOOLEAN /\ asked.cqe32 \in BOOLEAN
  /\ asked.no_sqarray \in BOOLEAN /\ asked.no_mmap \in BOOLEAN
  /\ asked.single_mmap \in BOOLEAN
  /\ asked.buf \in BOOLEAN /\ asked.excess \in Int
  /\ asked.buf => asked.no_mmap
  /\ asked.no_mmap \/ asked.cqe32 \/ asked.sqe128 \/ asked.no_sqarray
       => asked.single_mmap

\* Up to the largest size of a submission queue, and of a completion queue.
LEMMA RoundedSmall ==
  ASSUME NEW d \in Nat \ {0}
  PROVE  /\ d <= KERN_MAX_SQ => /\ roundup_pow2(d) = LeastPow2(d)
                                /\ roundup_pow2(d) \in Small
         /\ d <= KERN_MAX_CQ => /\ roundup_pow2(d) = LeastPow2(d)
                                /\ roundup_pow2(d) \in Small \cup {65536}
<1>0. Width \in Nat /\ 15 \in 0 .. Width - 1 /\ 16 \in 0 .. Width - 1
  BY LayoutAssumption
<1>1. d <= KERN_MAX_SQ => d <= Pow2(15)
  BY SmallPowers DEF KERN_MAX_SQ
<1>2. d <= KERN_MAX_CQ => d <= Pow2(16)
  BY SmallPowers DEF KERN_MAX_SQ, KERN_MAX_CQ
<1>3. ASSUME d <= KERN_MAX_SQ
      PROVE  roundup_pow2(d) = LeastPow2(d) /\ roundup_pow2(d) \in Small
  <2>1. roundup_pow2(d) = LeastPow2(d) /\ \E k \in 0 .. 15 : roundup_pow2(d) = Pow2(k)
    BY <1>0, <1>1, <1>3, Rounded
  <2>2. PICK k \in 0 .. 15 : roundup_pow2(d) = Pow2(k)
    BY <2>1
  <2>3. Pow2(k) \in Small
    BY SmallPowers
  <2> QED BY <2>1, <2>2, <2>3, Zenon
<1>4. ASSUME d <= KERN_MAX_CQ
      PROVE  /\ roundup_pow2(d) = LeastPow2(d)
             /\ roundup_pow2(d) \in Small \cup {65536}
  <2>1. /\ roundup_pow2(d) = LeastPow2(d)
        /\ \E k \in 0 .. 16 : roundup_pow2(d) = Pow2(k)
    BY <1>0, <1>2, <1>4, Rounded
  <2>2. PICK k \in 0 .. 16 : roundup_pow2(d) = Pow2(k)
    BY <2>1
  <2>3. k \in 0 .. 15 \/ k = 16
    OBVIOUS
  <2>4. CASE k \in 0 .. 15
    <3>1. Pow2(k) \in Small
      BY <2>4, SmallPowers
    <3> QED BY <2>1, <2>2, <3>1
  <2>5. CASE k = 16
    <3>1. Pow2(k) = 65536
      BY <2>5, SmallPowers
    <3> QED BY <2>1, <2>2, <3>1
  <2> QED BY <2>3, <2>4, <2>5
<1> QED BY <1>3, <1>4

\* What no_mmap and the kernel count, the first before and the second by its
\* own rules: the same, and one refuses what the other does.
LEMMA SameCounts ==
  ASSUME AskedTypes
  PROVE  /\ Invalid <=> KernelRefuses
         /\ ~Invalid => /\ KernelSq = sqe_count /\ KernelCq = cqe_count
                        /\ sqe_count \in Small /\ cqe_count \in Small \cup {65536}
                        /\ sqe_count <= cqe_count
<1> DEFINE sq == Lesser(asked.entries, KERN_MAX_SQ)
           cq == Lesser(asked.cq_entries, KERN_MAX_CQ)
<1>1. asked.entries # 0 => sq \in Nat \ {0} /\ sq <= KERN_MAX_SQ
  BY DEF AskedTypes, Lesser, KERN_MAX_SQ
<1>2. asked.cq_entries # 0 => cq \in Nat \ {0} /\ cq <= KERN_MAX_CQ
  BY DEF AskedTypes, Lesser, KERN_MAX_SQ, KERN_MAX_CQ
<1> HIDE DEF sq, cq
<1>3. ASSUME asked.entries # 0
      PROVE  KernelSq = sqe_count /\ sqe_count \in Small
  BY <1>1, <1>3, RoundedSmall DEF KernelSq, sqe_count, sq
<1>4. ASSUME asked.entries # 0, asked.cqsize, asked.cq_entries # 0
      PROVE  KernelCq = cqe_count /\ cqe_count \in Small \cup {65536}
  BY <1>2, <1>4, RoundedSmall DEF KernelCq, cqe_count, cq
<1>5. ASSUME asked.entries # 0, ~asked.cqsize
      PROVE  /\ KernelCq = cqe_count /\ cqe_count = 2 * sqe_count
             /\ cqe_count \in Small \cup {65536}
  <2>1. KernelCq = cqe_count /\ cqe_count = 2 * sqe_count
    BY <1>3, <1>5 DEF KernelCq, cqe_count
  <2>2. 2 * sqe_count \in Small \cup {65536}
    BY <1>3, <1>5 DEF Small
  <2> QED BY <2>1, <2>2
<1>6. Invalid <=> KernelRefuses
  BY <1>3, <1>4 DEF Invalid, KernelRefuses
<1>7. ASSUME ~Invalid
      PROVE  /\ KernelSq = sqe_count /\ KernelCq = cqe_count
             /\ sqe_count \in Small /\ cqe_count \in Small \cup {65536}
  BY <1>3, <1>4, <1>5, <1>7 DEF Invalid
<1>8. ASSUME ~Invalid PROVE sqe_count <= cqe_count
  <2>1. asked.entries # 0 /\ (asked.cqsize => ~(cqe_count < sqe_count))
    BY <1>8 DEF Invalid
  <2>2. sqe_count \in Nat /\ cqe_count \in Nat
    BY <1>7, <1>8 DEF Small
  <2>3. ~asked.cqsize => cqe_count = 2 * sqe_count
    BY <1>5, <2>1
  <2> QED BY <2>1, <2>2, <2>3 DEF AskedTypes
<1> QED BY <1>6, <1>7, <1>8

-----------------------------------------------------------------------------
(* The arithmetic of the areas, for counts s and c of at most 2^16, by a   *)
(* SQE of q bytes and a CQE of e bytes.                                    *)

Up(n) == align_up(n, PAGE_SIZE)

\* Rounding up to whole pages.
LEMMA UpRounds ==
  ASSUME NEW n \in Nat
  PROVE  Up(n) \in Nat /\ n <= Up(n) /\ Up(n) < n + PAGE_SIZE
BY DEF Up, align_up, PAGE_SIZE

LEMMA UpMonotone ==
  ASSUME NEW m \in Nat, NEW n \in Nat, m <= n
  PROVE  Up(m) <= Up(n)
BY DEF Up, align_up, PAGE_SIZE

\* In a buffer of whole pages for the SQEs with their array and for the rings,
\* an array of less than a page fits behind the CQEs too.
LEMMA ArrayBehindCqes ==
  ASSUME NEW s \in Small, NEW c \in Small \cup {65536}, s <= c,
         NEW e \in {16, 32}, 4 * s < 4096, NEW p \in Nat, p % 4096 = 0
  PROVE  p + align_up(64 + e * c, 64) + 4 * s <= Up(p + 64 + e * c)
<1>1. s \in {1, 2, 4, 8, 16, 32, 64, 128, 256, 512}
  BY DEF Small
<1>2. c \in {1, 2, 4, 8, 16, 32, 64, 128, 256, 512, 1024, 2048, 4096, 8192,
             16384, 32768, 65536}
  BY DEF Small
<1>3. PICK k \in Nat : p = 4096 * k
  <2>1. p = 4096 * (p \div 4096) /\ p \div 4096 \in Nat
    OBVIOUS
  <2> QED BY <2>1
<1>4. ASSUME NEW x \in Nat
      PROVE  Up(p + x) = p + Up(x)
  BY <1>3 DEF Up, align_up, PAGE_SIZE
<1>5. align_up(64 + e * c, 64) + 4 * s <= Up(64 + e * c)
  <2>1. CASE e = 16
    BY <1>1, <1>2, <2>1 DEF Up, align_up, PAGE_SIZE
  <2>2. CASE e = 32
    BY <1>1, <1>2, <2>2 DEF Up, align_up, PAGE_SIZE
  <2> QED BY <2>1, <2>2
<1> QED BY <1>2, <1>4, <1>5 DEF Up, align_up, PAGE_SIZE

\* Of a longer one a page less 64 bytes fits, no more: CQEs as many as the
\* entries of the array then fill whole pages.
LEMMA ArrayBeyondPage ==
  ASSUME NEW s \in Small, NEW c \in Small \cup {65536}, s <= c,
         NEW e \in {16, 32}, 4 * s >= 4096, NEW p \in Nat, p % 4096 = 0
  PROVE  /\ align_up(64 + e * c, 64) = 64 + e * c
         /\ Up(p + 64 + e * c) = p + e * c + 4096
<1>1. c \in {1024, 2048, 4096, 8192, 16384, 32768, 65536}
  BY DEF Small
<1>2. CASE e = 16
  BY <1>1, <1>2 DEF Up, align_up, PAGE_SIZE
<1>3. CASE e = 32
  BY <1>1, <1>3 DEF Up, align_up, PAGE_SIZE
<1> QED BY <1>2, <1>3

\* In a single large page, counts are powers of two and so what is left over
\* is enough for any array.
LEMMA ArrayInLargePage ==
  ASSUME NEW s \in Small, NEW c \in Small \cup {65536}, s <= c,
         NEW e \in {16, 32}, NEW q \in {64, 128},
         Up(q * s + 4 * s) + 64 + e * c <= HUGE_PAGE_SIZE
  PROVE  Up(q * s + 4 * s) + align_up(64 + e * c, 64) + 4 * s <= HUGE_PAGE_SIZE
<1>1. s \in Nat /\ c \in Nat
  BY DEF Small
<1>2. \/ c \in {1, 2, 4, 8, 16, 32, 64, 128, 256}
      \/ c \in {512, 1024, 2048, 4096, 8192, 16384, 32768, 65536}
  BY DEF Small
<1>3. CASE e = 16 /\ q = 64
  BY <1>3, <1>2 DEF Small, Up, align_up, PAGE_SIZE, HUGE_PAGE_SIZE
<1>4. CASE e = 16 /\ q = 128
  BY <1>4, <1>2 DEF Small, Up, align_up, PAGE_SIZE, HUGE_PAGE_SIZE
<1>5. CASE e = 32 /\ q = 64
  BY <1>5, <1>2 DEF Small, Up, align_up, PAGE_SIZE, HUGE_PAGE_SIZE
<1>6. CASE e = 32 /\ q = 128
  BY <1>6, <1>2 DEF Small, Up, align_up, PAGE_SIZE, HUGE_PAGE_SIZE
<1> QED BY <1>3, <1>4, <1>5, <1>6

-----------------------------------------------------------------------------
(* The inductive invariant.                                                *)

\* Where no_mmap puts the rings.
Placed == IF mem_used <= First
          THEN sizes = <<First>> /\ at = sqes_mem
          ELSE sizes = <<First, Want(ring_mem)>> /\ at = -1

\* What io_uring_setup fills in.
FilledIn == [sq_entries |-> KernelSq, cq_entries |-> KernelCq,
            array |-> IF asked.no_sqarray THEN 0 ELSE ArrayAt,
            cqes  |-> KRING_SIZE]

\* What map_rings maps.
Mapped == IF asked.single_mmap
          THEN sizes = <<Sqes(params.sq_entries), SqMapLen>>
          ELSE sizes = <<Sqes(params.sq_entries), SqMapLen, cq_len>>

LayoutInv ==
  /\ AskedTypes
  /\ stage \in {"place", "setup", "map", "up", "refused"}
  /\ stage = "place" => asked.no_mmap
  /\ stage = "map" => ~asked.no_mmap
  /\ asked.no_mmap /\ stage \in {"setup", "up"} => ~Invalid /\ ~NoMemory /\ Placed
  /\ ~asked.no_mmap => at = -1
  /\ stage \in {"map", "up"} => ~KernelRefuses /\ params = FilledIn
  /\ ~asked.no_mmap /\ stage = "up" => Mapped

\* The caller's wishes do not change, and nor does what follows from them.
LEMMA SameWishes ==
  ASSUME asked' = asked
  PROVE  /\ AskedTypes' <=> AskedTypes
         /\ Invalid' <=> Invalid
         /\ NoMemory' <=> NoMemory
         /\ KernelRefuses' <=> KernelRefuses
         /\ mem_used' = mem_used /\ First' = First
         /\ sqes_mem' = sqes_mem /\ ring_mem' = ring_mem
         /\ FilledIn' = FilledIn
<1>1. sqe_count' = sqe_count /\ cqe_count' = cqe_count
  BY DEF sqe_count, cqe_count
<1>2. sqes_mem' = sqes_mem /\ ring_mem' = ring_mem
  BY <1>1 DEF sqes_mem, ring_mem, Sqes, Cqes, Array
<1>3. mem_used' = mem_used
  BY <1>2 DEF mem_used
<1>4. BufSize' = BufSize
  BY <1>3 DEF BufSize
<1>5. First' = First /\ (NoMemory' <=> NoMemory)
  BY <1>2, <1>3, <1>4 DEF First, NoMemory
<1>6. Invalid' <=> Invalid
  BY <1>1 DEF Invalid
<1>7. KernelSq' = KernelSq
  BY DEF KernelSq
<1>8. KernelCq' = KernelCq
  BY <1>7 DEF KernelCq
<1>9. ArrayAt' = ArrayAt
  BY <1>8 DEF ArrayAt, Cqes
<1>10. KernelRefuses' <=> KernelRefuses
  BY <1>7, <1>8 DEF KernelRefuses
<1>11. AskedTypes' <=> AskedTypes
  BY DEF AskedTypes
<1>12. FilledIn' = FilledIn
  BY <1>7, <1>8, <1>9 DEF FilledIn
<1> QED BY <1>2, <1>3, <1>5, <1>6, <1>10, <1>11, <1>12

\* Nothing is placed or mapped at first.
LEMMA InitLayout == LayoutInit => LayoutInv
<1> SUFFICES ASSUME LayoutInit PROVE LayoutInv
  OBVIOUS
<1>1. AskedTypes
  BY LayoutAssumption DEF LayoutInit, Asked, AskedTypes
<1>2. stage \in {"place", "setup"} /\ at = -1
      /\ (stage = "place" <=> asked.no_mmap)
  BY <1>1 DEF LayoutInit, AskedTypes
<1> QED BY <1>1, <1>2 DEF LayoutInv

\* The invariant is inductive.
LEMMA LayoutStep == LayoutInv /\ [LayoutNext]_layoutVars => LayoutInv'
<1> SUFFICES ASSUME LayoutInv, [LayoutNext]_layoutVars PROVE LayoutInv'
  OBVIOUS
<1>0. asked' = asked
  BY DEF LayoutNext, layoutVars, NoMmap, LayOut, MapRings
<1>1. AskedTypes'
  BY <1>0, SameWishes DEF LayoutInv
<1>2. CASE UNCHANGED layoutVars
  <2>1. /\ UNCHANGED <<asked, stage, sizes, at, params>>
        /\ Placed' <=> Placed
        /\ Mapped' <=> Mapped
    BY <1>2, SameWishes DEF layoutVars, Placed, Mapped, SqMapLen, sq_len, cq_len,
                            Sqes, Cqes
  <2> QED BY <1>1, <2>1, SameWishes DEF LayoutInv
<1>3. CASE NoMmap
  <2>1. /\ stage = "place" /\ asked.no_mmap /\ UNCHANGED params
        /\ stage' \in {"refused", "setup"}
    BY <1>3 DEF NoMmap, LayoutInv
  <2>2. stage' = "setup" => ~Invalid /\ ~NoMemory /\ Placed'
    BY <1>0, <1>3, SameWishes DEF NoMmap, Placed
  <2> QED BY <1>0, <1>1, <2>1, <2>2, SameWishes DEF LayoutInv
<1>4. CASE LayOut
  <2>1. /\ stage = "setup" /\ UNCHANGED <<sizes, at>>
        /\ stage' = "refused"
           \/ /\ ~KernelRefuses /\ params' = FilledIn
              /\ stage' = IF asked.no_mmap THEN "up" ELSE "map"
    BY <1>4 DEF LayOut, FilledIn
  <2>2. Placed' <=> Placed
    BY <1>0, <2>1, SameWishes DEF Placed
  <2>3. asked.no_mmap \in BOOLEAN
    BY DEF LayoutInv, AskedTypes
  <2> QED BY <1>0, <1>1, <2>1, <2>2, <2>3, SameWishes DEF LayoutInv
<1>5. CASE MapRings
  <2>1. /\ stage = "map" /\ stage' = "up" /\ ~asked.no_mmap
        /\ UNCHANGED <<at, params>>
    BY <1>5 DEF MapRings, LayoutInv
  <2>2. Mapped'
    BY <1>0, <1>5, <2>1 DEF MapRings, Mapped, SqMapLen, sq_len, cq_len, Sqes, Cqes
  <2> QED BY <1>0, <1>1, <2>1, <2>2, SameWishes DEF LayoutInv
<1> QED BY <1>2, <1>3, <1>4, <1>5 DEF LayoutNext

-----------------------------------------------------------------------------
(* The properties.                                                         *)

\* The same counts on both sides once no_mmap has accepted them.
LEMMA AgreeFollows == LayoutInv => CountsAgree
<1> SUFFICES ASSUME LayoutInv PROVE CountsAgree
  OBVIOUS
<1>1. AskedTypes
  BY DEF LayoutInv
<1>2. ASSUME asked.no_mmap, stage = "setup" PROVE ~KernelRefuses
  BY <1>1, <1>2, SameCounts DEF LayoutInv
<1>3. ASSUME asked.no_mmap, stage = "up"
      PROVE  params.sq_entries = sqe_count /\ params.cq_entries = cqe_count
  <2>1. ~Invalid /\ params = FilledIn
    BY <1>3 DEF LayoutInv
  <2> QED BY <1>1, <2>1, SameCounts DEF FilledIn
<1> QED BY <1>2, <1>3 DEF CountsAgree

\* Areas of a ring in memory of the program's: the cases of a buffer and of
\* pages, together or apart.
LEMMA FitInOwnMemory ==
  ASSUME LayoutInv, asked.no_mmap, stage = "up"
  PROVE  AreasFit
<1> DEFINE s == sqe_count
           c == cqe_count
           e == IF asked.cqe32 THEN 32 ELSE 16
           q == IF asked.sqe128 THEN 128 ELSE 64
           y == Array(s)
           r == params.array
<1>1. AskedTypes /\ ~Invalid /\ ~NoMemory /\ Placed /\ params = FilledIn
  BY DEF LayoutInv
<1>2. /\ s \in Small /\ c \in Small \cup {65536} /\ s <= c
      /\ params.sq_entries = s /\ params.cq_entries = c
      /\ params.cqes = 64
      /\ r = IF asked.no_sqarray THEN 0 ELSE align_up(64 + Cqes(c), 64)
  BY <1>1, SameCounts DEF FilledIn, ArrayAt, KRING_SIZE
<1>3. s \in Nat /\ c \in Nat /\ s > 0 /\ c > 0 /\ s <= 32768 /\ c <= 65536
  BY <1>2 DEF Small
<1>4. e \in {16, 32} /\ q \in {64, 128}
  OBVIOUS
<1> HIDE DEF s, c
<1>5. /\ Sqes(s) = q * s /\ Cqes(c) = e * c
      /\ y = IF asked.no_sqarray THEN 0 ELSE 4 * s
  BY <1>3 DEF Sqes, Cqes, Array, SqeBytes, CqeBytes, IndexBytes
<1> HIDE DEF e, q, y, r
<1>6. q * s \in Nat /\ e * c \in Nat /\ y \in Nat /\ q * s >= s /\ e * c >= 16 * c
  BY <1>3, <1>4, <1>5
<1>7. /\ sqes_mem = Up(q * s + y) /\ ring_mem = 64 + e * c
      /\ mem_used = Up(sqes_mem + ring_mem)
  BY <1>5 DEF sqes_mem, ring_mem, mem_used, Up, KRING_SIZE, s, c, y
<1>8. /\ sqes_mem \in Nat /\ q * s + y <= sqes_mem /\ sqes_mem % 4096 = 0
      /\ ring_mem \in Nat
  BY <1>6, <1>7 DEF Up, align_up, PAGE_SIZE
<1>9. mem_used \in Nat /\ sqes_mem + ring_mem <= mem_used
  BY <1>7, <1>8, UpRounds
<1>10. /\ r \in Nat /\ r <= 127 + e * c
       /\ r = IF asked.no_sqarray THEN 0 ELSE align_up(64 + e * c, 64)
  <2>1. r = IF asked.no_sqarray THEN 0 ELSE align_up(64 + e * c, 64)
    BY <1>2, <1>5
  <2> QED BY <1>6, <2>1 DEF align_up
<1>11. /\ params.cqes + Cqes(params.cq_entries) = ring_mem
       /\ Sqes(params.sq_entries) = q * s
       /\ Array(params.sq_entries) = y
  BY <1>2, <1>5, <1>7 DEF y
<1>12. CASE mem_used <= First
  <2>1. sizes = <<First>> /\ at = sqes_mem /\ at >= 0
        /\ Len(sizes) = 1 /\ sizes[1] = First
    BY <1>1, <1>8, <1>12 DEF Placed
  <2>2. First \in Nat
    <3>1. asked.buf => BufSize \in Int
      BY <1>1, <1>9 DEF BufSize, AskedTypes
    <3>2. First \in Int
      BY <3>1 DEF First, Want, PAGE_SIZE, HUGE_PAGE_SIZE
    <3> QED BY <1>9, <1>12, <3>2
  <2>3. ring_mem <= First - at
    BY <1>8, <1>9, <1>12, <2>1, <2>2
  <2>4. ASSUME asked.buf
        PROVE  /\ asked.excess >= 0
               /\ First - at = mem_used - sqes_mem + asked.excess
    BY <1>1, <1>8, <1>9, <2>1, <2>4 DEF NoMemory, First, BufSize, AskedTypes
  <2>4a. ASSUME asked.buf, y >= PAGE_SIZE
         PROVE  r + y <= First - at <=> Shortfall(s) <= asked.excess
    <3>1. ~asked.no_sqarray /\ y = 4 * s /\ r = align_up(64 + e * c, 64)
      BY <1>5, <1>10, <2>4a DEF PAGE_SIZE
    <3>2. r = 64 + e * c /\ Up(sqes_mem + 64 + e * c) = sqes_mem + e * c + 4096
      BY <1>2, <1>4, <1>8, <2>4a, <3>1, ArrayBeyondPage DEF PAGE_SIZE
    <3>3. mem_used = sqes_mem + e * c + 4096
      <4>1. sqes_mem + 64 + e * c = sqes_mem + ring_mem
        BY <1>6, <1>7, <1>8
      <4> QED BY <1>7, <3>2, <4>1
    <3>4. Shortfall(s) = y + 64 - 4096
      BY <1>6, <2>4a DEF Shortfall, y, PAGE_SIZE, KRING_SIZE
    <3> QED BY <1>1, <1>6, <1>8, <2>4, <2>4a, <3>2, <3>3, <3>4 DEF AskedTypes
  <2>4b. ASSUME y < PAGE_SIZE PROVE r + y <= First - at
    <3>1. CASE asked.no_sqarray
      BY <1>5, <1>10, <2>3, <1>8, <2>1, <2>2, <3>1
    <3>2. CASE ~asked.no_sqarray
      <4>1. y = 4 * s /\ r = align_up(64 + e * c, 64)
        BY <1>5, <1>10, <3>2
      <4>2. sqes_mem + r + y <= mem_used
        <5>1. sqes_mem + r + y <= Up(sqes_mem + 64 + e * c)
          BY <1>2, <1>4, <1>8, <2>4b, <4>1, ArrayBehindCqes DEF PAGE_SIZE
        <5>2. sqes_mem + 64 + e * c = sqes_mem + ring_mem
          BY <1>6, <1>7, <1>8
        <5> QED BY <1>7, <5>1, <5>2
      <4> QED BY <1>6, <1>8, <1>9, <1>10, <1>12, <2>1, <2>2, <4>2
    <3> QED BY <3>1, <3>2
  <2>5. ASSUME ~asked.buf PROVE r + y <= First - at
    <3>1. CASE asked.no_sqarray
      BY <1>5, <1>10, <2>3, <1>8, <2>1, <2>2, <3>1
    <3>2. CASE ~asked.no_sqarray
      <4>1. y = 4 * s /\ r = align_up(64 + e * c, 64)
        BY <1>5, <1>10, <3>2
      <4>2. First = HUGE_PAGE_SIZE
        <5>1. First = Want(sqes_mem)
          BY <2>5 DEF First
        <5>2. ~(sqes_mem <= PAGE_SIZE)
          <6>1. SUFFICES ASSUME sqes_mem <= PAGE_SIZE PROVE FALSE
            OBVIOUS
          <6>2. First = PAGE_SIZE
            BY <5>1, <6>1 DEF Want
          <6>3. sqes_mem = 4096
            BY <1>3, <1>6, <1>8, <6>1 DEF PAGE_SIZE
          <6> QED BY <1>6, <1>7, <1>9, <1>12, <6>2, <6>3 DEF PAGE_SIZE
        <5> QED BY <5>1, <5>2 DEF Want
      <4>3. Up(q * s + 4 * s) + 64 + e * c <= HUGE_PAGE_SIZE
        BY <1>6, <1>7, <1>8, <1>9, <1>12, <2>2, <4>1, <4>2
      <4>4. sqes_mem + r + y <= HUGE_PAGE_SIZE
        BY <1>2, <1>4, <1>7, <4>1, <4>3, ArrayInLargePage
      <4> QED BY <1>6, <1>8, <1>10, <2>1, <2>2, <4>2, <4>4
    <3> QED BY <3>1, <3>2
  <2>6. q * s <= at
    BY <1>6, <1>8, <2>1
  <2>7. r + y <= First - at <=> (asked.buf => Shortfall(s) <= asked.excess)
    <3>1. y < PAGE_SIZE => Shortfall(s) = 0
      BY DEF Shortfall, y
    <3>2. y < PAGE_SIZE \/ y >= PAGE_SIZE
      BY <1>6 DEF PAGE_SIZE
    <3> QED BY <1>1, <2>4, <2>4a, <2>4b, <2>5, <3>1, <3>2 DEF AskedTypes
  <2> QED BY <1>2, <1>11, <2>1, <2>3, <2>6, <2>7 DEF AreasFit, r
<1>13. CASE ~(mem_used <= First)
  <2>1. sizes = <<First, Want(ring_mem)>> /\ at = -1
        /\ Len(sizes) = 2 /\ sizes[1] = First /\ sizes[2] = Want(ring_mem)
    BY <1>1, <1>13 DEF Placed
  <2>2. ~asked.buf
    <3>1. SUFFICES ASSUME asked.buf PROVE FALSE
      OBVIOUS
    <3>2. First = BufSize /\ ~(mem_used > BufSize) /\ BufSize \in Int
      BY <1>1, <1>9, <3>1 DEF First, NoMemory, BufSize, AskedTypes
    <3> QED BY <1>9, <1>13, <3>2
  <2>3. First = Want(sqes_mem) /\ sqes_mem <= HUGE_PAGE_SIZE
        /\ ring_mem <= HUGE_PAGE_SIZE
    BY <1>1, <1>8, <2>2 DEF First, NoMemory, HUGE_PAGE_SIZE
  <2>4. sqes_mem <= Want(sqes_mem) /\ ring_mem <= Want(ring_mem)
        /\ Want(ring_mem) \in Nat /\ Want(sqes_mem) \in Nat
    BY <1>8, <2>3 DEF Want, PAGE_SIZE, HUGE_PAGE_SIZE
  <2>5. q * s <= First
    BY <1>6, <1>8, <2>3, <2>4
  <2>6. r + y <= Want(ring_mem)
    <3>1. CASE asked.no_sqarray
      BY <1>5, <1>8, <1>10, <2>4, <3>1
    <3>2. CASE ~asked.no_sqarray /\ ring_mem <= PAGE_SIZE
      <4>1. Want(ring_mem) = 4096 /\ y = 4 * s /\ r = align_up(64 + e * c, 64)
        BY <1>5, <1>10, <3>2 DEF Want, PAGE_SIZE
      <4>2. 64 + e * c <= 4096
        BY <1>7, <3>2 DEF PAGE_SIZE
      <4>3. align_up(64 + e * c, 64) + 4 * s <= 4096
        BY <1>2, <1>4, <4>2 DEF Small, align_up
      <4> QED BY <4>1, <4>3
    <3>3. CASE ~asked.no_sqarray /\ ~(ring_mem <= PAGE_SIZE)
      <4>1. /\ Want(ring_mem) = 2097152 /\ y = 4 * s
            /\ r = align_up(64 + e * c, 64)
        BY <1>5, <1>10, <3>3 DEF Want, HUGE_PAGE_SIZE
      <4>2. 64 + e * c <= 2097152
        BY <1>7, <2>3 DEF HUGE_PAGE_SIZE
      <4>3. align_up(64 + e * c, 64) + 4 * s <= 2097152
        BY <1>2, <1>4, <4>2 DEF Small, align_up
      <4> QED BY <4>1, <4>3
    <3> QED BY <3>1, <3>2, <3>3
  <2> QED BY <1>11, <2>1, <2>2, <2>4, <2>5, <2>6 DEF AreasFit, r
<1> QED BY <1>12, <1>13

\* Areas of a ring in the kernel's memory, mapped at once or in two parts.
LEMMA FitInMappings ==
  ASSUME LayoutInv, ~asked.no_mmap, stage = "up"
  PROVE  AreasFit
<1> DEFINE s == params.sq_entries
           c == params.cq_entries
           r == params.array
           e == IF asked.cqe32 THEN 32 ELSE 16
<1>1. AskedTypes /\ ~asked.buf /\ ~Invalid /\ at = -1 /\ params = FilledIn /\ Mapped
  BY SameCounts DEF LayoutInv, AskedTypes
<1>2. /\ s \in Small /\ c \in Small \cup {65536} /\ s <= c
      /\ params.cqes = 64
      /\ r = IF asked.no_sqarray THEN 0 ELSE align_up(64 + Cqes(c), 64)
  BY <1>1, SameCounts DEF FilledIn, ArrayAt, KRING_SIZE
<1>3. s \in Nat /\ c \in Nat /\ s > 0 /\ c > 0
  BY <1>2 DEF Small
<1>4. e \in {16, 32}
  OBVIOUS
<1>5. /\ Sqes(s) \in Nat /\ Cqes(c) = e * c
      /\ Array(s) = IF asked.no_sqarray THEN 0 ELSE 4 * s
      /\ sq_len = r + 4 * s /\ cq_len = 64 + e * c
  BY <1>2, <1>3 DEF Sqes, Cqes, Array, SqeBytes, CqeBytes, IndexBytes, sq_len, cq_len
<1> HIDE DEF e
<1>6. e * c \in Nat /\ e * c >= 16 * c /\ r \in Nat
  <2>1. e * c \in Nat /\ e * c >= 16 * c
    BY <1>3, <1>4
  <2> QED BY <1>2, <1>5, <2>1 DEF align_up
<1> DEFINE rings == Greater(params.cqes + Cqes(c), r + Array(s))
<1> HIDE DEF s, c, r
<1>7. CASE asked.single_mmap
  <2>1. /\ Len(sizes) = 2 /\ sizes[1] = Sqes(s)
        /\ sizes[2] = Greater(r + 4 * s, 64 + e * c)
    BY <1>1, <1>5, <1>7 DEF Mapped, SqMapLen, s
  <2>2. /\ 64 + e * c <= sizes[2] /\ r + Array(s) <= sizes[2] /\ sizes[2] \in Nat
        /\ sizes[2] <= rings /\ rings \in Nat
    BY <1>2, <1>3, <1>5, <1>6, <2>1 DEF Greater
  <2>3. Up(sizes[2]) <= Up(rings)
    BY <2>2, UpMonotone
  <2>4. \A i \in 2 .. Len(sizes) : i = 2
    BY <2>1
  <2> HIDE DEF rings
  <2>5. \A i \in 2 .. Len(sizes) : Up(sizes[i]) <= Up(rings)
    BY <2>3, <2>4
  <2> QED BY <1>1, <1>2, <1>5, <2>1, <2>2, <2>5 DEF AreasFit, Up, rings, s, c, r
<1>8. CASE ~asked.single_mmap
  <2>1. /\ Len(sizes) = 3 /\ sizes[1] = Sqes(s)
        /\ sizes[2] = r + 4 * s /\ sizes[3] = 64 + e * c
    BY <1>1, <1>5, <1>8 DEF Mapped, SqMapLen, s
  <2>2. ~asked.no_sqarray
    BY <1>1, <1>8 DEF AskedTypes
  <2>3. /\ r + Array(s) = sizes[2] /\ sizes[2] \in Nat /\ sizes[3] \in Nat
        /\ sizes[2] <= rings /\ sizes[3] <= rings /\ rings \in Nat
    BY <1>2, <1>3, <1>5, <1>6, <2>1, <2>2 DEF Greater
  <2>4. Up(sizes[2]) <= Up(rings) /\ Up(sizes[3]) <= Up(rings)
    BY <2>3, UpMonotone
  <2>5. \A i \in 2 .. Len(sizes) : i = 2 \/ i = 3
    BY <2>1
  <2> HIDE DEF rings
  <2>6. \A i \in 2 .. Len(sizes) : Up(sizes[i]) <= Up(rings)
    BY <2>4, <2>5
  <2> QED BY <1>1, <1>2, <1>5, <2>1, <2>3, <2>6 DEF AreasFit, Up, rings, s, c, r
<1> QED BY <1>7, <1>8

\* For all wishes, flags and widths of the counters, the kernel makes room for
\* the counts no_mmap worked out.
THEOREM KernelAgrees == LayoutSpec => []CountsAgree
<1>1. LayoutSpec => []LayoutInv
  BY InitLayout, LayoutStep, PTL DEF LayoutSpec
<1> QED BY <1>1, AgreeFollows, PTL

\* And SQEs and CQEs lie within the memory that is there; so does the SQ
\* array, but for a buffer that exceeds what no_mmap demands by less than
\* Shortfall: from 1024 entries on the demand itself is too small.
THEOREM AreasFitHolds == LayoutSpec => []AreasFit
<1>1. LayoutSpec => []LayoutInv
  BY InitLayout, LayoutStep, PTL DEF LayoutSpec
<1>2. LayoutInv => AreasFit
  <2> SUFFICES ASSUME LayoutInv PROVE AreasFit
    OBVIOUS
  <2>1. CASE stage # "up"
    BY <2>1 DEF AreasFit
  <2>2. CASE stage = "up" /\ asked.no_mmap
    BY <2>2, FitInOwnMemory
  <2>3. CASE stage = "up" /\ ~asked.no_mmap
    BY <2>3, FitInMappings
  <2> QED BY <2>1, <2>2, <2>3
<1> QED BY <1>1, <1>2, PTL
=============================================================================

----------------------------- MODULE RingSetup ------------------------------
(***************************************************************************)
(* The life of one io_uring object: its constructor (init, no_mmap,        *)
(* map_rings), the registration of its own descriptor (register_ring_fd,   *)
(* unregister_ring_fd, close_ring_fd), probing it (get_probe_ring), and     *)
(* its destructor (unmap_rings).                                           *)
(* Every mmap, io_uring_setup and io_uring_register may fail, and every    *)
(* path out of the constructor has its own cleanup.                        *)
(*                                                                         *)
(* Addresses, descriptors and registered indexes are reused: whatever this *)
(* object gives back, another part of the process may be given at once, so *)
(* giving it back twice hits a stranger.  One action is one system call.   *)
(***************************************************************************)
EXTENDS Integers

CONSTANTS
  Pages,       \* where a mapping may be placed
  Fds,         \* descriptor numbers
  Indexes,     \* slots of the table of registered ring descriptors
  NoPtr,       \* nullptr
  AppBuf,      \* memory the application passed in
  BadPtr,      \* an error number returned as an address
  FdOnly       \* whether IORING_SETUP_REGISTERED_FD_ONLY is ever asked for

ASSUME SetupAssumption ==
  /\ Fds \subseteq Nat
  /\ Indexes \subseteq Nat
  /\ FdOnly \in BOOLEAN
  /\ {NoPtr, AppBuf, BadPtr} \cap Pages = {}

VARIABLES
  ring,       \* the fields of the object
  cfg,        \* the parameters of its constructor and the kernel's answer
  pc, then,   \* where it is, and where unmap_rings returns to
  fd, probe,  \* local variables of the constructor and of get_probe_ring
  pages, fds, regs     \* who holds each mapping, descriptor and index

outside == <<pages, fds, regs>>
vars    == <<ring, cfg, pc, then, fd, probe, outside>>

\* "probe": a probe handed to the application, until free_probe.
Owner == {"free", "ring", "probe", "other"}

\* A pointer and whether its recorded size is non-zero; an empty object.
Blank ==
  [sqes |-> NoPtr, sqes_sz |-> FALSE,
   sq_ptr |-> NoPtr, sq_sz |-> FALSE,
   cq_ptr |-> NoPtr, cq_sz |-> FALSE,
   ringfd |-> -1, enterfd |-> -1,
   app_mem |-> FALSE, reg_ring |-> FALSE, reg_reg_ring |-> FALSE]

Cfgs ==
  { c \in [no_mmap : BOOLEAN, buf : BOOLEAN, packed : BOOLEAN,
           single : BOOLEAN, reg_reg : BOOLEAN, fd_only : BOOLEAN] :
      /\ c.buf => c.no_mmap /\ c.packed
      /\ c.packed => c.no_mmap
      /\ c.single => ~c.no_mmap
      /\ c.fd_only => FdOnly /\ c.no_mmap }

NoCfg == [no_mmap |-> FALSE, buf |-> FALSE, packed |-> FALSE,
          single |-> FALSE, reg_reg |-> FALSE, fd_only |-> FALSE]

Init ==
  /\ ring = Blank /\ cfg = NoCfg
  /\ pc = "none" /\ then = "none" /\ fd = -1 /\ probe = NoPtr
  /\ pages = [p \in Pages |-> "free"]
  /\ fds = [f \in Fds |-> "free"]
  /\ regs = [i \in Indexes |-> "free"]

Go(where) == pc' = where /\ UNCHANGED <<then, probe>>

\* unmap_rings, called from several places.
Unmap(where) == pc' = "unmap_sqes" /\ then' = where /\ UNCHANGED probe

\* mmap: a free place, held from now on.  munmap and close do not ask whose
\* the thing is.
Mmap(p)   == pages[p] = "free" /\ pages' = [pages EXCEPT ![p] = "ring"]
Munmap(p) == pages' = [q \in Pages |-> IF q = p THEN "free" ELSE pages[q]]
Close(f)  == fds' = [g \in Fds |-> IF g = f THEN "free" ELSE fds[g]]

-----------------------------------------------------------------------------
(* The constructor.                                                        *)

Construct(c) ==
  /\ pc = "none"
  /\ cfg' = c
  /\ ring' = Blank
  /\ fd' = -1
  /\ Go(IF c.no_mmap THEN "no_mmap" ELSE "setup")
  /\ UNCHANGED outside

\* no_mmap refuses the sizes, or the mapping fails: nothing was done.
NoMmapFail ==
  /\ pc = "no_mmap"
  /\ Go("failed")
  /\ UNCHANGED <<ring, cfg, fd, outside>>

NoMmapBuf ==
  /\ pc = "no_mmap" /\ cfg.buf
  /\ ring' = [ring EXCEPT !.sqes = AppBuf, !.sq_ptr = AppBuf, !.cq_ptr = AppBuf,
                          !.app_mem = TRUE]
  /\ Go("setup")
  /\ UNCHANGED <<cfg, fd, outside>>

\* The rings share the mapping of the SQEs if both fit in it.
NoMmapSqes(p) ==
  /\ pc = "no_mmap" /\ ~cfg.buf
  /\ Mmap(p)
  /\ ring' = IF cfg.packed
             THEN [ring EXCEPT !.sqes = p, !.sqes_sz = TRUE, !.sq_ptr = p, !.cq_ptr = p]
             ELSE [ring EXCEPT !.sqes = p, !.sqes_sz = TRUE]
  /\ Go(IF cfg.packed THEN "setup" ELSE "no_mmap_ring")
  /\ UNCHANGED <<cfg, fd, fds, regs>>

NoMmapRing(p) ==
  /\ pc = "no_mmap_ring"
  /\ Mmap(p)
  /\ ring' = [ring EXCEPT !.sq_ptr = p, !.sq_sz = TRUE, !.cq_ptr = p]
  /\ Go("setup")
  /\ UNCHANGED <<cfg, fd, fds, regs>>

NoMmapRingFail ==
  /\ pc = "no_mmap_ring"
  /\ Munmap(ring.sqes)
  /\ ring' = [ring EXCEPT !.sqes = NoPtr, !.sqes_sz = FALSE]
  /\ Go("failed")
  /\ UNCHANGED <<cfg, fd, fds, regs>>

\* io_uring_setup: a new descriptor, or with IORING_SETUP_REGISTERED_FD_ONLY
\* an index of the registered table.
Setup ==
  /\ pc = "setup"
  /\ \/ /\ ~cfg.fd_only
        /\ \E f \in Fds : /\ fds[f] = "free"
                          /\ fds' = [fds EXCEPT ![f] = "ring"]
                          /\ fd' = f
        /\ UNCHANGED regs
     \/ /\ cfg.fd_only
        /\ \E i \in Indexes : /\ regs[i] = "free"
                              /\ regs' = [regs EXCEPT ![i] = "ring"]
                              /\ fd' = i
        /\ UNCHANGED fds
  /\ Go(IF cfg.no_mmap THEN "finish" ELSE "map_sq")
  /\ UNCHANGED <<ring, cfg, pages>>

SetupFail ==
  /\ pc = "setup"
  /\ IF cfg.no_mmap /\ ~ring.app_mem
     THEN Unmap("failed")
     ELSE Go("failed")
  /\ UNCHANGED <<ring, cfg, fd, outside>>

SharedMapForgotten(r) == r
SharedMap(r) == [r EXCEPT !.cq_ptr = r.sq_ptr, !.cq_sz = r.sq_sz]

\* map_rings: one mapping for both rings with IORING_FEAT_SINGLE_MMAP.
MapSq(p) ==
  /\ pc = "map_sq"
  /\ Mmap(p)
  /\ LET r == [ring EXCEPT !.sq_ptr = p, !.sq_sz = TRUE]
     IN  ring' = IF cfg.single THEN SharedMap(r) ELSE r
  /\ Go(IF cfg.single THEN "map_sqes" ELSE "map_cq")
  /\ UNCHANGED <<cfg, fd, fds, regs>>

MapSqUnchecked ==
  /\ pc = "map_sq"
  /\ ring' = [ring EXCEPT !.sq_ptr = BadPtr, !.sq_sz = TRUE]
  /\ Go("close")
  /\ UNCHANGED <<cfg, fd, outside>>

MapSqFail ==
  /\ pc = "map_sq"
  /\ ring' = [ring EXCEPT !.sq_ptr = NoPtr, !.sq_sz = FALSE]
  /\ Go("close")
  /\ UNCHANGED <<cfg, fd, outside>>

MapCq(p) ==
  /\ pc = "map_cq"
  /\ Mmap(p)
  /\ ring' = [ring EXCEPT !.cq_ptr = p, !.cq_sz = TRUE]
  /\ Go("map_sqes")
  /\ UNCHANGED <<cfg, fd, fds, regs>>

MapCqFail ==
  /\ pc = "map_cq"
  /\ ring' = [ring EXCEPT !.cq_ptr = NoPtr, !.cq_sz = FALSE]
  /\ Unmap("close")
  /\ UNCHANGED <<cfg, fd, outside>>

MapSqes(p) ==
  /\ pc = "map_sqes"
  /\ Mmap(p)
  /\ ring' = [ring EXCEPT !.sqes = p, !.sqes_sz = TRUE]
  /\ Go("finish")
  /\ UNCHANGED <<cfg, fd, fds, regs>>

MapSqesFailKeeps ==
  /\ pc = "map_sqes"
  /\ ring' = [ring EXCEPT !.sqes = NoPtr, !.sqes_sz = FALSE]
  /\ Go("close")
  /\ UNCHANGED <<cfg, fd, outside>>

MapSqesFail ==
  /\ pc = "map_sqes"
  /\ ring' = [ring EXCEPT !.sqes = NoPtr, !.sqes_sz = FALSE]
  /\ Unmap("close")
  /\ UNCHANGED <<cfg, fd, outside>>

\* The failed constructor closes the descriptor; _ringfd was never set.
CloseFailed ==
  /\ pc = "close"
  /\ Close(fd)
  /\ Go("failed")
  /\ UNCHANGED <<ring, cfg, fd, pages, regs>>

Finish ==
  /\ pc = "finish"
  /\ ring' = [ring EXCEPT !.ringfd = fd, !.enterfd = fd]
  /\ Go("ready")
  /\ UNCHANGED <<cfg, fd, outside>>

-----------------------------------------------------------------------------
(* unmap_rings.  A pointer with size 0 points into another mapping.        *)

UnmapSqes ==
  /\ pc = "unmap_sqes"
  /\ \/ /\ ring.app_mem
        /\ ring' = [ring EXCEPT !.sqes = NoPtr, !.sqes_sz = FALSE,
                                !.sq_ptr = NoPtr, !.sq_sz = FALSE,
                                !.cq_ptr = NoPtr, !.cq_sz = FALSE]
        /\ Go(then)
        /\ UNCHANGED pages
     \/ /\ ~ring.app_mem
        /\ IF ring.sqes # NoPtr /\ ring.sqes_sz
           THEN /\ Munmap(ring.sqes)
                /\ ring' = [ring EXCEPT !.sqes = NoPtr, !.sqes_sz = FALSE]
           ELSE UNCHANGED <<ring, pages>>
        /\ Go("unmap_cq")
  /\ UNCHANGED <<cfg, fd, fds, regs>>

NeverShared == FALSE
Shared      == ring.sq_ptr # NoPtr /\ ring.sq_ptr = ring.cq_ptr

UnmapCq ==
  /\ pc = "unmap_cq"
  /\ \/ /\ Shared
        /\ ring' = [ring EXCEPT !.cq_ptr = NoPtr, !.cq_sz = FALSE]
        /\ UNCHANGED pages
     \/ /\ ~Shared /\ ring.cq_ptr # NoPtr /\ ring.cq_sz
        /\ Munmap(ring.cq_ptr)
        /\ ring' = [ring EXCEPT !.cq_ptr = NoPtr, !.cq_sz = FALSE]
     \/ /\ ~Shared /\ ~(ring.cq_ptr # NoPtr /\ ring.cq_sz)
        /\ UNCHANGED <<ring, pages>>
  /\ Go("unmap_sq")
  /\ UNCHANGED <<cfg, fd, fds, regs>>

UnmapSq ==
  /\ pc = "unmap_sq"
  /\ IF ring.sq_ptr # NoPtr /\ ring.sq_sz
     THEN /\ Munmap(ring.sq_ptr)
          /\ ring' = [ring EXCEPT !.sq_ptr = NoPtr, !.sq_sz = FALSE]
     ELSE UNCHANGED <<ring, pages>>
  /\ Go(then)
  /\ UNCHANGED <<cfg, fd, fds, regs>>

-----------------------------------------------------------------------------
(* The ring's own descriptor.                                              *)

FdHolder(f)  == IF f \in Fds THEN fds[f] ELSE "none"
RegHolder(i) == IF i \in Indexes THEN regs[i] ELSE "none"

\* What do_register addresses; RingRegistry has io_uring_enter as well.
RegisterTarget == IF ring.reg_reg_ring THEN RegHolder(ring.enterfd)
                                       ELSE FdHolder(ring.ringfd)

\* The kernel grants an index, or refuses and nothing changes.
RegisterRingFd(i) ==
  /\ pc = "ready" /\ ~ring.reg_ring
  /\ RegisterTarget = "ring"
  /\ regs[i] = "free"
  /\ regs' = [regs EXCEPT ![i] = "ring"]
  /\ ring' = [ring EXCEPT !.enterfd = i, !.reg_ring = TRUE,
                          !.reg_reg_ring = cfg.reg_reg]
  /\ UNCHANGED <<cfg, pc, then, fd, probe, pages, fds>>

\* unregister_ring_fd, also called by the destructor.
Unregister ==
  /\ ring.reg_ring
  /\ IF RegisterTarget = "ring"
     THEN /\ regs' = [regs EXCEPT ![ring.enterfd] = "free"]
          /\ ring' = [ring EXCEPT !.enterfd = ring.ringfd, !.reg_ring = FALSE,
                                  !.reg_reg_ring = FALSE]
     ELSE UNCHANGED <<ring, regs>>

UnregisterRingFd ==
  /\ pc = "ready"
  /\ Unregister
  /\ UNCHANGED <<cfg, pc, then, fd, probe, pages, fds>>

MayClose == ring.reg_ring /\ cfg.reg_reg

CloseRingFd ==
  /\ pc = "ready"
  /\ MayClose /\ ring.ringfd >= 0
  /\ Close(ring.ringfd)
  /\ ring' = [ring EXCEPT !.ringfd = -1]
  /\ UNCHANGED <<cfg, pc, then, fd, probe, pages, regs>>

-----------------------------------------------------------------------------
(* The destructor.                                                         *)

DestroyKeepsIndex ==
  /\ pc \in {"ready", "failed"}
  /\ Unmap("destroy_close")
  /\ UNCHANGED <<ring, cfg, fd, outside>>

Destroy ==
  /\ pc \in {"ready", "failed"}
  /\ \/ ring.reg_ring /\ Unregister
     \/ ~ring.reg_ring /\ UNCHANGED <<ring, regs>>
  /\ Unmap("destroy_close")
  /\ UNCHANGED <<cfg, fd, pages, fds>>

DestroyClose ==
  /\ pc = "destroy_close"
  /\ IF ring.ringfd >= 0 THEN Close(ring.ringfd) ELSE UNCHANGED fds
  /\ ring' = Blank /\ cfg' = NoCfg /\ fd' = -1
  /\ pc' = "none" /\ then' = "none"
  /\ UNCHANGED <<probe, pages, regs>>

-----------------------------------------------------------------------------
(* get_probe_ring and free_probe.  get_probe is a constructor, this and a  *)
(* destructor.                                                             *)

GetProbeRing(p) ==
  /\ pc = "ready"
  /\ Mmap(p)
  /\ probe' = p
  /\ pc' = "probe"
  /\ UNCHANGED <<ring, cfg, then, fd, fds, regs>>

\* The kernel fills the page, which then is the application's.
ProbeDone ==
  /\ pc = "probe"
  /\ RegisterTarget = "ring"
  /\ pages' = [pages EXCEPT ![probe] = "probe"]
  /\ probe' = NoPtr
  /\ pc' = "ready"
  /\ UNCHANGED <<ring, cfg, then, fd, fds, regs>>

ProbeFail ==
  /\ pc = "probe"
  /\ Munmap(probe)
  /\ probe' = NoPtr
  /\ pc' = "ready"
  /\ UNCHANGED <<ring, cfg, then, fd, fds, regs>>

\* The probe outlives the ring.
FreeProbe(p) ==
  /\ pages[p] = "probe"
  /\ Munmap(p)
  /\ UNCHANGED <<ring, cfg, pc, then, fd, probe, fds, regs>>

-----------------------------------------------------------------------------
(* The rest of the process is given whatever is free.                      *)

Others ==
  /\ \/ \E p \in Pages : /\ pages[p] = "free"
                         /\ pages' = [pages EXCEPT ![p] = "other"]
                         /\ UNCHANGED <<fds, regs>>
     \/ \E f \in Fds : /\ fds[f] = "free"
                       /\ fds' = [fds EXCEPT ![f] = "other"]
                       /\ UNCHANGED <<pages, regs>>
     \/ \E i \in Indexes : /\ regs[i] = "free"
                           /\ regs' = [regs EXCEPT ![i] = "other"]
                           /\ UNCHANGED <<pages, fds>>
  /\ UNCHANGED <<ring, cfg, pc, then, fd, probe>>

Next ==
  \/ \E c \in Cfgs : Construct(c)
  \/ NoMmapFail \/ NoMmapBuf \/ NoMmapRingFail
  \/ Setup \/ SetupFail
  \/ MapSqFail \/ MapCqFail \/ MapSqesFail \/ CloseFailed \/ Finish
  \/ \E p \in Pages : \/ NoMmapSqes(p) \/ NoMmapRing(p)
                      \/ MapSq(p) \/ MapCq(p) \/ MapSqes(p)
                      \/ GetProbeRing(p) \/ FreeProbe(p)
  \/ UnmapSqes \/ UnmapCq \/ UnmapSq
  \/ \E i \in Indexes : RegisterRingFd(i)
  \/ UnregisterRingFd \/ CloseRingFd
  \/ ProbeDone \/ ProbeFail
  \/ Destroy \/ DestroyClose
  \/ Others

Spec == Init /\ [][Next]_vars

-----------------------------------------------------------------------------
(* Properties.                                                             *)

Ptr == Pages \cup {NoPtr, AppBuf}

TypeOK ==
  /\ ring \in [sqes : Ptr, sqes_sz : BOOLEAN, sq_ptr : Ptr, sq_sz : BOOLEAN,
               cq_ptr : Ptr, cq_sz : BOOLEAN,
               ringfd : Fds \cup Indexes \cup {-1},
               enterfd : Fds \cup Indexes \cup {-1},
               app_mem : BOOLEAN, reg_ring : BOOLEAN, reg_reg_ring : BOOLEAN]
  /\ cfg \in Cfgs
  /\ pc \in {"none", "no_mmap", "no_mmap_ring", "setup", "map_sq", "map_cq",
             "map_sqes", "close", "finish", "failed", "ready", "unmap_sqes",
             "unmap_cq", "unmap_sq", "destroy_close", "probe"}
  /\ then \in {"none", "failed", "close", "destroy_close"}
  /\ fd \in Fds \cup Indexes \cup {-1}
  /\ probe \in IF pc = "probe" THEN Pages ELSE {NoPtr}
  /\ pages \in [Pages -> Owner]
  /\ fds \in [Fds -> Owner]
  /\ regs \in [Indexes -> Owner]

\* A constructor that failed, wherever it did, and a destroyed object, with
\* whatever was registered, unregistered or closed in between, have given
\* everything back.
NothingLeaks ==
  pc \in {"none", "failed"} =>
    /\ \A p \in Pages : pages[p] # "ring"
    /\ \A f \in Fds : fds[f] # "ring"
    /\ \A i \in Indexes : regs[i] # "ring"

\* Nothing is given back that the object does not hold: no double munmap,
\* no double close, no close of a number that was never a descriptor; and
\* no step of the ring takes a probe from the application.
OthersUntouched ==
  [][/\ \A p \in Pages : pages[p] = "other" => pages'[p] = "other"
     /\ \A p \in Pages : pages[p] = "probe" /\ pc' # pc => pages'[p] = "probe"
     /\ \A f \in Fds : fds[f] = "other" => fds'[f] = "other"
     /\ \A i \in Indexes : regs[i] = "other" => regs'[i] = "other"]_vars

\* The pointers of a usable ring are in mappings it holds.
PointersLive ==
  pc = "ready" =>
    \A p \in {ring.sqes, ring.sq_ptr, ring.cq_ptr} :
      p = AppBuf \/ (p \in Pages /\ pages[p] = "ring")
=============================================================================

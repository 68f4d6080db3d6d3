-------------------------------- MODULE Memory -------------------------------
(***************************************************************************)
(* Memory below the pools: mem_alloc_pages, which carves regions downwards  *)
(* from MEM_PHYS_BASE_ADDR (dp/core/mem.c), page_alloc_contig, which carves *)
(* them upwards and keeps references (dp/core/page.c, inc/ix/page.h), and   *)
(* the guest mappings (dp/core/vm.c).                                       *)
(*                                                                          *)
(* Addresses count 2MB pages.  A region is [base, nr, kind]; its pages can  *)
(* be used while they are mmapped by the host and mapped in the guest.      *)
(***************************************************************************)
EXTENDS Integers, FiniteSets

CONSTANTS
  Cpus,
  Base,        \* MEM_PHYS_BASE_ADDR; also bounds what grows down
  UserStart,   \* MEM_USER_START, where page memory ends
  IomapBase,   \* MEM_USER_IOMAPK_BASE_ADDR
  GB,          \* the number of 2MB pages in 1GB
  Nrs,         \* how many pages are asked for
  MaxAllocs,   \* bounds the allocations
  MaxRefs      \* bounds the references of a CPU to a page

(* What the constants are.                                                  *)
MemoryAssumption ==
  /\ {Base, UserStart, IomapBase, GB, MaxAllocs, MaxRefs} \subseteq Nat
  /\ Base < UserStart /\ UserStart < IomapBase /\ GB > 0
  /\ Nrs \subseteq Nat \ {0}

VARIABLES
  mem_pos, page_pos, vm_iomapk_pos,
  regions,     \* the regions handed out and not freed
  mmapped,     \* the pages that the host maps
  pte,         \* the guest's page table: virtual page to physical page
  swept,       \* pages that the clean-up of a failed request has unmapped beyond it
  flags,       \* the pages with PAGE_FLAG_WILL_FREE
  refcnt,      \* page_ent.refcnt
  page_refs,   \* page_refs[c][p], of each CPU
  held,        \* held[c][p]: the references that CPU c has got and not put
  allocs,      \* how many allocations have been made
  crashed      \* the process has died

positions == <<mem_pos, page_pos, vm_iomapk_pos>>
refs == <<flags, refcnt, page_refs, held>>
vars == <<positions, regions, mmapped, pte, swept, refs, allocs, crashed>>

PageMem == Base .. UserStart - 1
Pages(r) == r.base .. r.base + r.nr - 1
NotMapped == -1

Init ==
  /\ mem_pos = Base /\ page_pos = Base /\ vm_iomapk_pos = IomapBase
  /\ regions = {} /\ mmapped = {} /\ swept = {} /\ flags = {}
  /\ pte = [p \in {} |-> NotMapped]
  /\ refcnt = [p \in PageMem |-> 0]
  /\ page_refs = [c \in Cpus |-> [p \in PageMem |-> 0]]
  /\ held = [c \in Cpus |-> [p \in PageMem |-> 0]]
  /\ allocs = 0
  /\ crashed = FALSE

Count == ~crashed /\ allocs < MaxAllocs /\ allocs' = allocs + 1

(* The guest's page table without, and with, the pages of va .. va + nr - 1. *)
Unmap(va, nr) == [p \in DOMAIN pte \ (va .. va + nr - 1) |-> pte[p]]
MapPhys(pa, va, nr) ==
  [p \in DOMAIN pte \cup (va .. va + nr - 1) |->
     IF p \in va .. va + nr - 1 THEN pa + p - va ELSE pte[p]]

(* __vm_map_phys, and when the page walk fails: the clean-up passes the     *)
(* length as the size of a page, so it unmaps nr times as much.             *)
vm_map_phys(pa, va, len) ==
  /\ pte' = MapPhys(pa, va, len)
  /\ swept' = swept \ (va .. va + len - 1)
vm_map_phys_failed(va, nr, len) ==
  /\ pte' = Unmap(va, nr * len)
  /\ swept' = swept \cup (va + len .. va + nr * len - 1)

(* __mem_alloc_pages: mmap (a fixed address), mbind and the guest mapping,  *)
(* each of which may fail; MAP_FAILED makes no region.                      *)
mem_alloc_pages_at(base, nr, len, kind, walk) ==
  CASE walk = "ok" ->
         /\ vm_map_phys(base, base, len)
         /\ regions' = regions \cup {[base |-> base, nr |-> len, kind |-> kind]}
         /\ mmapped' = mmapped \cup (base .. base + len - 1)
    [] walk = "walk" ->
         /\ vm_map_phys_failed(base, nr, len)
         /\ mmapped' = mmapped \ (base .. base + len - 1)
         /\ UNCHANGED regions
    [] OTHER -> UNCHANGED <<pte, swept, mmapped, regions>>

Outcomes == {"ok", "mmap", "walk"}

(* mem_alloc_pages of 2MB or 1GB pages; and a form whose position is not    *)
(* aligned down with the base.                                              *)
mem_alloc_pages_unaligned(nr, gb, walk) ==
  LET n == IF gb THEN nr * GB ELSE nr
      base == IF gb THEN ((mem_pos - n) \div GB) * GB ELSE mem_pos - n
  IN /\ Count /\ base >= 0
     /\ mem_pos' = mem_pos - n
     /\ mem_alloc_pages_at(base, nr, n, "mem", walk)
     /\ UNCHANGED <<page_pos, vm_iomapk_pos, refs, crashed>>
mem_alloc_pages(nr, gb, walk) ==
  LET n == IF gb THEN nr * GB ELSE nr
      base == IF gb THEN ((mem_pos - n) \div GB) * GB ELSE mem_pos - n
  IN /\ Count /\ base >= 0
     /\ mem_pos' = base
     /\ mem_alloc_pages_at(base, nr, n, "mem", walk)
     /\ UNCHANGED <<page_pos, vm_iomapk_pos, refs, crashed>>

(* mem_alloc_pages of 4KB pages: the case falls through to the 2MB one, so  *)
(* the position moves although mmap only takes it as a hint.                *)
mem_alloc_pages_4KB(nr) ==
  /\ Count /\ mem_pos >= nr
  /\ mem_pos' = mem_pos - nr
  /\ UNCHANGED <<page_pos, vm_iomapk_pos, regions, mmapped, pte, swept, refs, crashed>>

mem_free_pages(r) ==
  /\ ~crashed
  /\ regions' = regions \ {r}
  /\ pte' = Unmap(r.base, r.nr)
  /\ mmapped' = mmapped \ Pages(r)
  /\ UNCHANGED <<positions, swept, refs, allocs, crashed>>

(* mem_lookup_page_machine_addrs reads /proc/self/pagemap: found, or not.   *)
mem_lookup_page_machine_addrs == BOOLEAN

(* page_alloc_contig_on_node: only the base is compared with the end of     *)
(* page memory.  mmap's failure is MAP_FAILED, not NULL: the first write    *)
(* to the pages kills the process.  A failing lookup of a machine address   *)
(* (lookup) frees the pages again.                                          *)
page_alloc_contig_on_node(nr, walk, lookup) ==
  /\ Count
  /\ page_pos' = page_pos + nr
  /\ IF page_pos >= UserStart
     THEN UNCHANGED <<regions, mmapped, pte, swept, crashed>>
     ELSE /\ IF walk = "ok" /\ ~lookup
             THEN UNCHANGED <<regions, mmapped, pte, swept>>
             ELSE mem_alloc_pages_at(page_pos, nr, nr, "page", walk)
          /\ crashed' = (walk # "ok")
  /\ UNCHANGED <<mem_pos, vm_iomapk_pos, refs>>

(* vm_map_to_user, on success and on failure.                               *)
vm_map_to_user(r, walk) ==
  /\ Count
  /\ IF walk = "ok"
     THEN /\ vm_map_phys(r.base, vm_iomapk_pos, r.nr)
          /\ vm_iomapk_pos' = vm_iomapk_pos + r.nr
     ELSE vm_map_phys_failed(vm_iomapk_pos, r.nr, r.nr) /\ UNCHANGED vm_iomapk_pos
  /\ UNCHANGED <<mem_pos, page_pos, regions, mmapped, refs, crashed>>

(* page_free_contig: marks the pages; nothing frees them yet.               *)
page_free_contig(r) ==
  /\ ~crashed /\ ~(Pages(r) \subseteq flags)
  /\ flags' = flags \cup Pages(r)
  /\ UNCHANGED <<positions, regions, mmapped, pte, swept, refcnt, page_refs, held,
                 allocs, crashed>>

page_get(c, p) ==
  /\ ~crashed /\ held[c][p] < MaxRefs
  /\ IF p \in flags
     THEN refcnt' = [refcnt EXCEPT ![p] = @ + 1] /\ UNCHANGED page_refs
     ELSE page_refs' = [page_refs EXCEPT ![c][p] = @ + 1] /\ UNCHANGED refcnt
  /\ held' = [held EXCEPT ![c][p] = @ + 1]
  /\ UNCHANGED <<positions, regions, mmapped, pte, swept, flags, allocs, crashed>>

(* page_put with __page_put_slow, which frees nothing: no code sets         *)
(* PAGE_FLAG_CAN_FREE.                                                      *)
page_put(c, p) ==
  /\ ~crashed /\ held[c][p] > 0
  /\ IF p \in flags
     THEN refcnt' = [refcnt EXCEPT ![p] = @ - 1] /\ UNCHANGED page_refs
     ELSE page_refs' = [page_refs EXCEPT ![c][p] = @ - 1] /\ UNCHANGED refcnt
  /\ held' = [held EXCEPT ![c][p] = @ - 1]
  /\ UNCHANGED <<positions, regions, mmapped, pte, swept, flags, allocs, crashed>>

PageRegions == {r \in regions : r.kind = "page"}
Pinnable == PageMem \cap UNION {Pages(r) : r \in PageRegions}

Next ==
  \/ \E nr \in Nrs : \E w \in Outcomes :
       \/ \E gb \in BOOLEAN : mem_alloc_pages(nr, gb, w)
       \/ \E lookup \in mem_lookup_page_machine_addrs : page_alloc_contig_on_node(nr, w, lookup)
       \/ \E r \in PageRegions : r.nr = nr /\ vm_map_to_user(r, w)
  \/ \E nr \in Nrs : mem_alloc_pages_4KB(nr)
  \/ \E r \in regions \ PageRegions : mem_free_pages(r)
  \/ \E r \in PageRegions : page_free_contig(r)
  \/ \E c \in Cpus, p \in Pinnable : page_get(c, p) \/ page_put(c, p)

Spec == Init /\ [][Next]_vars

-----------------------------------------------------------------------------
(* The state has its type; positions keep to their side of Base.            *)
TypeOK ==
  /\ mem_pos \in 0 .. Base /\ page_pos \in Nat /\ page_pos >= Base
  /\ vm_iomapk_pos >= IomapBase
  /\ \A r \in regions : r.base \in Nat /\ r.nr \in Nat /\ r.kind \in {"mem", "page"}
  /\ mmapped \subseteq Nat /\ DOMAIN pte \subseteq Nat /\ swept \subseteq Nat
  /\ flags \subseteq Nat
  /\ refcnt \in [PageMem -> Int]
  /\ page_refs \in [Cpus -> [PageMem -> Int]]
  /\ held \in [Cpus -> [PageMem -> 0 .. MaxRefs]]
  /\ crashed \in BOOLEAN

(* Regions that are handed out never overlap, although two allocators carve *)
(* them from both sides of MEM_PHYS_BASE_ADDR and failures give none back.  *)
RegionsDisjoint ==
  \A r, q \in regions : r # q => Pages(r) \cap Pages(q) = {}

(* The pages of a region stay usable until it is freed, mapped by the host  *)
(* and, one to one, by the guest, whatever is allocated, freed or refused   *)
(* in between.  Only the clean-up of dp/core/vm.c:121 ("cleanup partial     *)
(* mappings") takes the guest's mapping from pages above a failed request.  *)
RegionsUsable ==
  \A r \in regions : \A p \in Pages(r) :
    /\ p \in mmapped
    /\ p \in DOMAIN pte <=> p \notin swept
    /\ p \in DOMAIN pte => pte[p] = p
=============================================================================

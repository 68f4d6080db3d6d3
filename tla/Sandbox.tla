------------------------------- MODULE Sandbox -------------------------------
(***************************************************************************)
(* The memory of the application (dp/sandbox/umm.c): the heap grows from    *)
(* the start of its area, mappings are placed from the end downwards, and   *)
(* no address is used again.  Threads enter through syscall_do              *)
(* (dp/sandbox/trap.c), which takes a lock for some of the calls.  A call   *)
(* first chooses its address and then maps or unmaps, in the process and    *)
(* then in the page table of Dune.  Protections are left out.               *)
(***************************************************************************)
EXTENDS Integers, FiniteSets

CONSTANTS
  Threads,
  PGSIZE,         \* a page, in units of memory
  BIG_PGSIZE,     \* a big page, a multiple of PGSIZE
  Size,           \* UMM_ADDR_END - UMM_ADDR_START, a multiple of BIG_PGSIZE
  APP_STACK_SIZE,
  Lens, Brks,     \* lengths asked for, and ends of the heap
  Froms,          \* addresses the application names for a mapping
  Ops,            \* calls the application makes
  MaxCalls        \* bound: calls of a thread

VARIABLES
  brk_len, mmap_len,
  host, dune,     \* pages mapped in the process and in Dune
  huge,           \* pages of host that are parts of big pages
  odd,            \* pages that the process and Dune see differently: see torn, dune_fails
  given,          \* pages of mappings the application was given
  _syscall_mtx,   \* thread that holds the lock, or "free"
  plan,           \* what a thread is about to do
  calls,
  clobbered,      \* an address chosen by umm.c was in use
  overrun,        \* umm_map_big went on without space
  exited          \* umm_mremap ended the program

pages == <<host, dune, huge, odd, given>>
vars == <<brk_len, mmap_len, pages, _syscall_mtx, plan, calls, clobbered, overrun, exited>>

None == [op |-> "none"]
Up(n, a) == a * ((n + a - 1) \div a)
Pages(from, len) == IF len = 0 THEN {} ELSE (from \div PGSIZE) .. ((from + len - 1) \div PGSIZE)

(* Space left.                                                              *)
umm_space_left(len) == brk_len + mmap_len + len < Size
umm_get_map_pos == Size - mmap_len
mem_ref_is_safe(m) == m.from >= 0 /\ m.from + m.len <= Size

(* The stack of the first thread, its last page left out.                   *)
umm_alloc_stack == Pages(Size - APP_STACK_SIZE + PGSIZE, APP_STACK_SIZE - PGSIZE)

Init ==
  /\ brk_len = 0 /\ mmap_len = APP_STACK_SIZE
  /\ host = umm_alloc_stack /\ dune = umm_alloc_stack
  /\ huge = {} /\ odd = {} /\ given = {}
  /\ _syscall_mtx = "free" /\ plan = [t \in Threads |-> None]
  /\ calls = [t \in Threads |-> 0]
  /\ clobbered = FALSE /\ overrun = FALSE /\ exited = FALSE

-----------------------------------------------------------------------------
(* Where each call works: its range, what it adds to mmap_len, the new      *)
(* length of the heap and the range it moves away from.                     *)

Plan(op, from, len, grow, heap, old) ==
  [op |-> op, from |-> from, len |-> len, grow |-> grow, heap |-> heap, old |-> old]

(* Below the last mapping; and a form that does not round to pages.         *)
Below_exact(op, len, old) == Plan(op, umm_get_map_pos - len, len, len, 0, old)
Below(op, len, old) == Plan(op, umm_get_map_pos - Up(len, PGSIZE), len, Up(len, PGSIZE), 0, old)
At(op, m, old) == IF mem_ref_is_safe(m) THEN Plan(op, m.from, m.len, 0, 0, old) ELSE None

umm_brk(brk) ==
  LET len == Up(brk, BIG_PGSIZE)
  IN CASE ~umm_space_left(len) \/ len = brk_len -> None
       [] len < brk_len -> Plan("shrink", len, brk_len - len, 0, len, {})
       [] OTHER -> Plan("grow", brk_len, len - brk_len, 0, len, {})
umm_map_big(len) ==
  LET full_len == Up(len, BIG_PGSIZE) + (umm_get_map_pos % BIG_PGSIZE)
  IN Plan("big", umm_get_map_pos - full_len, len, full_len, 0, {})

(* Without an address.  A long mapping is made of big pages if it is        *)
(* anonymous, not a stack and accessible (plain).                           *)
umm_mmap(len, plain) ==
  CASE len >= BIG_PGSIZE \div 2 /\ plain -> umm_map_big(len)
    [] umm_space_left(len) -> Below("mmap", len, {})
    [] OTHER -> None
umm_mmap_at(m) == At("mmap_at", m, {})
umm_shmat(len) == IF umm_space_left(len) THEN Below("shmat", len, {}) ELSE None
umm_shmat_at(m) == At("shmat_at", m, {})
umm_mremap(old, len) ==
  IF mem_ref_is_safe(old) /\ umm_space_left(len) THEN Below("mremap", len, {old}) ELSE None
umm_mremap_fixed(old, m) == IF mem_ref_is_safe(old) THEN At("mremap_at", m, {old}) ELSE None
umm_munmap(m) == At("munmap", m, {})

-----------------------------------------------------------------------------
(* syscall_do takes the lock for these.                                     *)
need_lock(op) == op \in {"mmap", "mmap_at", "munmap"}

(* Ranges that the application names: to map, and of what it has.           *)
Places == [from : Froms, len : Lens]
Had == {m \in [from : {PGSIZE * i : i \in 0 .. Size \div PGSIZE}, len : Lens] :
          Pages(m.from, m.len) \cap given # {}}

syscall_do_foreal(op) ==
  CASE op = "brk" -> {umm_brk(b) : b \in Brks}
    [] op = "mmap" -> {umm_mmap(len, plain) : len \in Lens, plain \in BOOLEAN}
    [] op = "mmap_at" -> {umm_mmap_at(m) : m \in Places}
    [] op = "shmat" -> {umm_shmat(len) : len \in Lens}
    [] op = "shmat_at" -> {umm_shmat_at(m) : m \in Places}
    [] op = "mremap" -> {umm_mremap(old, len) : old \in Had, len \in Lens}
    [] op = "mremap_at" -> {umm_mremap_fixed(old, m) : old \in Had, m \in Places}
    [] op = "munmap" -> {umm_munmap(m) : m \in Had}

(* A thread enters, takes the lock and chooses; a call that is refused      *)
(* returns.                                                                 *)
syscall_do(t, op) ==
  /\ ~exited /\ plan[t] = None /\ calls[t] < MaxCalls
  /\ need_lock(op) => _syscall_mtx = "free"
  /\ \E p \in syscall_do_foreal(op) :
       /\ plan' = [plan EXCEPT ![t] = p]
       /\ _syscall_mtx' = IF need_lock(op) /\ p # None THEN t ELSE _syscall_mtx
  /\ calls' = [calls EXCEPT ![t] = @ + 1]
  /\ UNCHANGED <<brk_len, mmap_len, pages, clobbered, overrun, exited>>

Leave(t) ==
  /\ ~exited
  /\ plan' = [plan EXCEPT ![t] = None]
  /\ _syscall_mtx' = IF _syscall_mtx = t THEN "free" ELSE _syscall_mtx
  /\ UNCHANGED calls

Old(p) == UNION {Pages(m.from, m.len) : m \in p.old}
Big(p) == p.op \in {"grow", "big"}
LenOf(p) == IF Big(p) THEN Up(p.len, BIG_PGSIZE) ELSE p.len
New(p) == Pages(p.from, LenOf(p))
Chosen(p) == p.op \in {"grow", "mmap", "big", "shmat", "mremap"}
Mapping(p) == Chosen(p) \/ p.op \in {"mmap_at", "shmat_at", "mremap_at"}

(* The big page that a page is in, and big pages of S cut by a range.       *)
Block(g) == LET b == PGSIZE * g - ((PGSIZE * g) % BIG_PGSIZE) IN Pages(b, BIG_PGSIZE)
Cuts(range, S) == \E g \in S \cap range : ~(Block(g) \subseteq range)

(* The kernel refuses to cut a big page or to move one, moves only what is  *)
(* mapped, to a place that does not overlap it, and attaches shared memory  *)
(* where something is mapped only with SHM_REMAP.                           *)
Allowed(p) ==
  /\ ~Cuts(New(p), huge)
  /\ p.op = "shmat" => New(p) \cap host = {}
  /\ p.op \in {"mremap", "mremap_at"} =>
       Old(p) \subseteq host \ huge /\ Old(p) \cap New(p) = {}

(* What happens to the addresses that umm.c itself chose.                   *)
Notes(p) ==
  /\ clobbered' = (clobbered \/ (Chosen(p) /\ New(p) \cap (host \ odd) # {}))
  /\ overrun' = (overrun \/ (p.op = "big" /\ ~umm_space_left(p.grow)))

(* Small pages over a big one: dune_vm_map_phys takes the entry of the big  *)
(* page for theirs, and Dune maps nothing there that is of use.             *)
torn(p) == IF Big(p) THEN {} ELSE UNION {Block(g) : g \in New(p) \cap huge \cap dune}

(* The rest of umm_mmap_anom, umm_mmap_file, umm_shmat and umm_mremap: the  *)
(* mapping is made in the process and in Dune, and the lengths follow.      *)
do_map(t) ==
  LET p == plan[t]
  IN /\ Mapping(p) /\ Allowed(p)
     /\ host' = (host \ Old(p)) \cup New(p)
     /\ dune' = ((dune \ Old(p)) \cup New(p)) \ torn(p)
     /\ huge' = IF Big(p) THEN huge \cup New(p) ELSE huge \ New(p)
     /\ odd' = (odd \ New(p)) \cup torn(p)
     /\ given' = IF p.op = "grow" THEN given
                 ELSE (given \ Old(p)) \cup Pages(p.from, p.len)
     /\ brk_len' = IF p.op = "grow" THEN p.heap ELSE brk_len
     /\ mmap_len' = mmap_len + p.grow
     /\ Notes(p) /\ Leave(t) /\ UNCHANGED exited

(* mmap, shmat, mremap or munmap fails and nothing has changed.             *)
call_fails(t) ==
  /\ plan[t] # None
  /\ Leave(t) /\ UNCHANGED <<brk_len, mmap_len, pages, clobbered, overrun, exited>>

(* dune_vm_map_phys fails for want of a table, after the pages (done) of    *)
(* the tables before it.  The mapping is taken back with munmap or shmdt,   *)
(* except that munmap refuses a part of a big page; after mremap the        *)
(* program ends.  What was mapped there before is gone.                     *)
dune_fails(t) ==
  LET p == plan[t]
      stays == p.op = "big" /\ p.len # LenOf(p)
      moved == p.op \in {"mremap", "mremap_at"}
  IN /\ Mapping(p) /\ Allowed(p)
     /\ \E done \in {{}} \cup {{g \in New(p) : ~Big(p) /\ g < n} : n \in {m \in New(p) : PGSIZE * m % BIG_PGSIZE = 0}} :
          dune' = (dune \ Old(p)) \cup done
     /\ exited' = moved
     /\ host' = IF moved \/ stays THEN (host \ Old(p)) \cup New(p) ELSE host \ New(p)
     /\ huge' = IF stays THEN huge \cup New(p) ELSE huge \ New(p)
     /\ odd' = IF stays THEN odd \cup New(p) ELSE odd \ New(p)
     /\ Notes(p)
     /\ UNCHANGED <<brk_len, mmap_len, given>> /\ Leave(t)

(* What umm_munmap and umm_brk unmap in the process and in Dune: when the   *)
(* range would cut a big page, umm_munmap tries with whole big pages.       *)
Unmapped(p) ==
  IF Cuts(Pages(p.from, p.len), huge) THEN Pages(p.from, Up(p.len, BIG_PGSIZE))
  ELSE Pages(p.from, p.len)

do_unmap(t) ==
  LET p == plan[t]
  IN /\ p.op \in {"munmap", "shrink"} /\ ~Cuts(Unmapped(p), huge)
     /\ host' = host \ Unmapped(p) /\ dune' = dune \ Unmapped(p)
     /\ huge' = huge \ Unmapped(p) /\ odd' = odd \ Unmapped(p)
     /\ given' = given \ Unmapped(p)
     /\ brk_len' = IF p.op = "shrink" THEN p.heap ELSE brk_len
     /\ UNCHANGED <<mmap_len, clobbered, overrun, exited>> /\ Leave(t)

Next ==
  \E t \in Threads :
    \/ \E op \in Ops : syscall_do(t, op)
    \/ do_map(t) \/ call_fails(t) \/ dune_fails(t) \/ do_unmap(t)

Spec == Init /\ [][Next]_vars

-----------------------------------------------------------------------------

(* umm.c:29 "potentially wastes virtual address space, but should still     *)
(* otherwise be safe": no address that umm.c chooses is in use, by the      *)
(* heap, the stack or a mapping that the application still has, until       *)
(* umm_map_big, which does not ask umm_space_left, runs out of space.       *)
NoClobber == overrun \/ ~clobbered

(* Up to then the heap and the mappings never meet, however the lengths of  *)
(* the calls that umm_space_left let through are rounded.                   *)
InArea == overrun \/ (host \subseteq Pages(0, Size) /\ brk_len + mmap_len <= Size)

(* With the addresses left to umm.c, no call takes from the application     *)
(* what it was given and did not unmap or move: neither one that succeeds   *)
(* nor one that Dune refuses half way.                                      *)
KeepsGiven == overrun \/ exited \/ given \subseteq host

(* What the process maps the application can reach: Dune maps it, after     *)
(* calls that succeed, that fail and that fail half way, at addresses of    *)
(* the application's choice too, except big mappings that umm.c:99 could    *)
(* not take back and small pages put over big ones.                         *)
HostInDune == ~exited => host \ odd \subseteq dune

=============================================================================

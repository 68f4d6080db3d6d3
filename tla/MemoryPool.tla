----------------------------- MODULE MemoryPool ------------------------------
(***************************************************************************)
(* What a datastore and its per-core pools promise: an element has one      *)
(* place; a core allocates from what it caches or from what is shared, and  *)
(* is refused only when neither has an element.                             *)
(***************************************************************************)
CONSTANTS Cores, NULL

VARIABLES shared, cached, owned, ret

vars == <<shared, cached, owned, ret>>

Init ==
  /\ shared = {}
  /\ cached = [c \in Cores |-> {}]
  /\ owned = [c \in Cores |-> {}]
  /\ ret = [c \in Cores |-> NULL]

(* The datastore is filled before any core uses it.                         *)
Fill ==
  /\ shared = {} /\ \A c \in Cores : cached[c] = {} /\ owned[c] = {}
  /\ UNCHANGED <<cached, owned, ret>>

(* Core c gets an element, after moving some of the shared ones to itself.  *)
Alloc(c) ==
  \E moved \in SUBSET shared : \E x \in cached[c] \cup moved :
    /\ shared' = shared \ moved
    /\ cached' = [cached EXCEPT ![c] = (@ \cup moved) \ {x}]
    /\ owned' = [owned EXCEPT ![c] = @ \cup {x}]
    /\ ret' = [ret EXCEPT ![c] = x]

Refuse(c) ==
  /\ cached[c] = {} /\ shared = {}
  /\ ret' = [ret EXCEPT ![c] = NULL]
  /\ UNCHANGED <<shared, cached, owned>>

(* Core c gives an element back, and some of its cache to the others.       *)
Free(c) ==
  \E x \in owned[c], moved \in SUBSET cached[c] :
    /\ x \notin cached[c]
    /\ shared' = shared \cup moved
    /\ cached' = [cached EXCEPT ![c] = (@ \ moved) \cup {x}]
    /\ owned' = [owned EXCEPT ![c] = @ \ {x}]
    /\ UNCHANGED ret

Next == Fill \/ \E c \in Cores : Alloc(c) \/ Refuse(c) \/ Free(c)

Spec == Init /\ [][Next]_vars
=============================================================================

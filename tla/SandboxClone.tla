----------------------------- MODULE SandboxClone -----------------------------
(***************************************************************************)
(* clone of the application (dp/sandbox/trap.c): dune_pthread_create makes  *)
(* a thread and waits until the thread has told its id.  What they share is *)
(* a local variable of the parent, so the next call of the same parent has  *)
(* it at the same place.                                                    *)
(***************************************************************************)
EXTENDS Integers

CONSTANTS
  Parents,        \* threads that call clone
  MaxCalls        \* bound: calls of each, one after the other

VARIABLES
  parent,         \* where a parent is; "create" before and between its calls
  call,           \* the number of its current or last call
  child,          \* where the thread of each call is
  ta_tid,         \* the id told, 0 before
  ta_mtx,         \* "free", "parent" or the number of a thread
  settid,         \* the thread has stored its id for CLONE_PARENT_SETTID
  result,         \* what each call returns, NotYet before
  early,          \* a wait ended without the id and not by the thread's own signal
  broken          \* a thread went on with what a call that is over had shared

vars == <<parent, call, child, ta_tid, ta_mtx, settid, result, early, broken>>

Calls == 1 .. MaxCalls
(* The id of the thread of a parent's n-th call is n.                       *)
Failed == -1
NotYet == -2

Init ==
  /\ parent = [p \in Parents |-> "create"] /\ call = [p \in Parents |-> 0]
  /\ child = [p \in Parents |-> [n \in Calls |-> "none"]]
  /\ ta_tid = [p \in Parents |-> 0] /\ ta_mtx = [p \in Parents |-> "free"]
  /\ settid = [p \in Parents |-> {}] /\ result = [p \in Parents |-> [n \in Calls |-> NotYet]]
  /\ early = FALSE /\ broken = FALSE

(* pthread_cond_init, pthread_mutex_init and pthread_create; any may fail.  *)
create(p) ==
  LET n == call[p] + 1
  IN /\ parent[p] = "create" /\ n \in Calls
     /\ call' = [call EXCEPT ![p] = n]
     /\ ta_tid' = [ta_tid EXCEPT ![p] = 0] /\ ta_mtx' = [ta_mtx EXCEPT ![p] = "free"]
     /\ \/ /\ parent' = [parent EXCEPT ![p] = "lock"]
           /\ child' = [child EXCEPT ![p][n] = "enter"]
           /\ UNCHANGED result
        \/ /\ result' = [result EXCEPT ![p][n] = Failed]
           /\ UNCHANGED <<parent, child>>
     /\ UNCHANGED <<settid, early, broken>>

(* The parent looks for the id with the mutex held.  Or, wrongly, it looks  *)
(* before it takes the mutex.                                               *)
look_early(p) ==
  /\ parent[p] = "lock"
  /\ parent' = [parent EXCEPT ![p] = IF ta_tid[p] = 0 THEN "sleep" ELSE "locked"]
  /\ UNCHANGED <<call, child, ta_tid, ta_mtx, settid, result, early, broken>>
look(p) ==
  /\ parent[p] = "lock" /\ ta_mtx[p] = "free"
  /\ parent' = [parent EXCEPT ![p] = IF ta_tid[p] = 0 THEN "sleep" ELSE "locked"]
  /\ ta_mtx' = [ta_mtx EXCEPT ![p] = "parent"]
  /\ UNCHANGED <<call, child, ta_tid, settid, result, early, broken>>

(* pthread_cond_wait: sleep and give the mutex up, in one step; wake up,    *)
(* and take it again.  It may wake up without a signal.                     *)
cond_wait(p) ==
  /\ parent[p] = "sleep"
  /\ parent' = [parent EXCEPT ![p] = "waiting"]
  /\ ta_mtx' = [ta_mtx EXCEPT ![p] = IF @ = "parent" THEN "free" ELSE @]
  /\ UNCHANGED <<call, child, ta_tid, settid, result, early, broken>>
wake_from(p, how) ==
  /\ parent[p] = how /\ ta_mtx[p] = "free"
  /\ parent' = [parent EXCEPT ![p] = "locked"]
  /\ ta_mtx' = [ta_mtx EXCEPT ![p] = "parent"]
  /\ early' = (early \/ (how # "woken" /\ ta_tid[p] = 0))
  /\ UNCHANGED <<call, child, ta_tid, settid, result, broken>>
wake(p) == wake_from(p, "woken") \/ wake_from(p, "woken_late")
wake_spurious(p) == wake_from(p, "waiting")

(* The mutex is given back, both are destroyed and the id is returned.      *)
finish(p) ==
  /\ parent[p] = "locked"
  /\ parent' = [parent EXCEPT ![p] = "create"]
  /\ ta_mtx' = [ta_mtx EXCEPT ![p] = "free"]
  /\ result' = [result EXCEPT ![p][call[p]] = ta_tid[p]]
  /\ UNCHANGED <<call, child, ta_tid, settid, early, broken>>

(* The call that made the thread is not over.                               *)
Live(p, n) == call[p] = n /\ parent[p] # "create"

(* pthread_entry: the arguments read, dune_enter, the id stored where the   *)
(* parent's caller looks for it, and the trap frame copied.                 *)
pthread_entry(p, n) ==
  /\ child[p][n] = "enter"
  /\ child' = [child EXCEPT ![p][n] = "tell"]
  /\ settid' = [settid EXCEPT ![p] = @ \cup {n}]
  /\ broken' = ~Live(p, n)
  /\ UNCHANGED <<parent, call, ta_tid, ta_mtx, result, early>>
lock_child(p, n) ==
  /\ child[p][n] = "tell" /\ ta_mtx[p] = "free"
  /\ child' = [child EXCEPT ![p][n] = "telling"]
  /\ ta_mtx' = [ta_mtx EXCEPT ![p] = "child"]
  /\ broken' = ~Live(p, n)
  /\ UNCHANGED <<parent, call, ta_tid, settid, result, early>>

(* The id is told and the mutex given back.                                 *)
tell(p, n) ==
  /\ child[p][n] = "telling"
  /\ child' = [child EXCEPT ![p][n] = "signal"]
  /\ ta_tid' = [ta_tid EXCEPT ![p] = n]
  /\ ta_mtx' = [ta_mtx EXCEPT ![p] = "free"]
  /\ UNCHANGED <<parent, call, settid, result, early, broken>>

(* pthread_cond_signal and do_enter_thread.  The mutex is not held, so the  *)
(* parent may have returned and may wait in its next call by now: then it   *)
(* is that wait which ends.                                                 *)
signal(p, n) ==
  /\ child[p][n] = "signal"
  /\ child' = [child EXCEPT ![p][n] = "user"]
  /\ parent' = [parent EXCEPT ![p] =
       IF @ # "waiting" THEN @ ELSE IF Live(p, n) THEN "woken" ELSE "woken_late"]
  /\ UNCHANGED <<call, ta_tid, ta_mtx, settid, result, early, broken>>

Parent(p) == ~broken /\ (create(p) \/ look(p) \/ cond_wait(p) \/ wake(p) \/ finish(p))
Child(p, n) == ~broken /\ (pthread_entry(p, n) \/ lock_child(p, n) \/ tell(p, n) \/ signal(p, n))

(* Once broken, memory that is something else by now has been written, and  *)
(* the model ends.                                                          *)
Next ==
  \E p \in Parents : \/ Parent(p) \/ (~broken /\ wake_spurious(p))
                     \/ \E n \in Calls : Child(p, n)

(* The kernel runs all threads and a mutex that is free is obtained.        *)
Spec ==
  /\ Init /\ [][Next]_vars
  /\ \A p \in Parents : WF_vars(Parent(p)) /\ \A n \in Calls : WF_vars(Child(p, n))

-----------------------------------------------------------------------------

(* clone always returns: the wakeup cannot be lost between the look at      *)
(* ta_tid and the wait, and nobody keeps the mutex.                         *)
Back(p) == broken \/ (parent[p] = "create" /\ call[p] = MaxCalls /\ ta_mtx[p] = "free")
Returns == \A p \in Parents : <>Back(p)

(* trap.c:155 "tell parent tid": a clone that made a thread returns the id  *)
(* of that thread, as long as every wait that ended without the id ended by *)
(* the thread's own signal.  trap.c:198 looks once: a spurious wakeup, or   *)
(* the late signal of an earlier call's thread, makes clone return 0.       *)
ToldTid ==
  early \/ \A p \in Parents : \A n \in Calls : result[p][n] \in {NotYet, Failed, n}

(* Up to then a thread touches what the call shares with it only while the  *)
(* call lasts, but for its signal.                                          *)
SharedAlive == broken => early

(* When clone returns the id, pthread_entry has stored it where the caller  *)
(* asked for it with CLONE_PARENT_SETTID.                                   *)
StoredTid == \A p \in Parents : \A n \in Calls : result[p][n] = n => n \in settid[p]

=============================================================================

-------------------------------- MODULE Timer --------------------------------
(***************************************************************************)
(* The hierarchical timing wheel of dp/core/timer.c and inc/ix/timer.h on   *)
(* one CPU.  Bucket <<w, o>> is slot o of wheel w, a sequence of timers,    *)
(* head first.  A pass of timer_run is cut where a handler runs; a handler  *)
(* may arm its own timer again.                                             *)
(*                                                                          *)
(* pc is IDLE, LOOP (the head of timer_run's loop), a wheel w > 0 (whose    *)
(* bucket timer_reinsert_bucket walks) or 0 (timer_run_bucket).             *)
(***************************************************************************)
EXTENDS Integers, Sequences, FiniteSets, SequencesExt

CONSTANTS
  Timers,
  WHEEL_SHIFT, WHEEL_COUNT, MIN_DELAY_SHIFT,
  Starts,       \* when timer_init_cpu may run
  Delays,       \* the delays that timers are armed with
  MaxTime,      \* bounds the clock
  MaxLate       \* bounds how long timer_run is overdue

(* What the constants are.                                                  *)
TimerAssumption ==
  /\ WHEEL_SHIFT \in Nat \ {0} /\ WHEEL_COUNT \in Nat \ {0}
  /\ MIN_DELAY_SHIFT \in Nat /\ Starts \subseteq Nat
  /\ MaxTime \in Nat /\ MaxLate \in Nat
  /\ Delays \subseteq
       1 .. 2 ^ (MIN_DELAY_SHIFT + WHEEL_COUNT * WHEEL_SHIFT) - 1

WHEEL_SIZE == 2 ^ WHEEL_SHIFT
MIN_DELAY_US == 2 ^ MIN_DELAY_SHIFT
IDLE == -2
LOOP == -1
Buckets == (0 .. WHEEL_COUNT - 1) \X (0 .. WHEEL_SIZE - 1)

VARIABLES
  tsc,          \* the clock, in microseconds
  now_us, timer_pos, wheels,
  expires,
  pending,      \* the timers whose link.prev is not NULL
  pc, pos, todo,    \* where timer_run is, and the rest of its list
  misplaced,    \* history: timers put in a bucket a turn or more ahead of the pass
  early,        \* history: other timers whose handler ran before they expired
  wild          \* a bucket outside the wheels was written

wheel == <<now_us, timer_pos, wheels, expires, pending>>
vars == <<tsc, wheel, pc, pos, todo, misplaced, early, wild>>

Idle == pc = IDLE

WHEEL_OFFSET(val, idx) ==
  (val \div 2 ^ (idx * WHEEL_SHIFT + MIN_DELAY_SHIFT)) % WHEEL_SIZE

Log2(n) == CHOOSE k \in 0 .. 63 : 2 ^ k <= n /\ n < 2 ^ (k + 1)

(* timer_init_cpu.                                                          *)
Init ==
  /\ tsc \in Starts
  /\ now_us = tsc /\ timer_pos = tsc
  /\ wheels = [b \in Buckets |-> <<>>]
  /\ expires = [t \in Timers |-> 0]
  /\ pending = {}
  /\ pc = IDLE /\ pos = tsc /\ todo = <<>>
  /\ misplaced = {} /\ early = {} /\ wild = FALSE

Without(w, t) == [b \in Buckets |-> SelectSeq(w[b], LAMBDA x : x # t)]

(* The position that the next bucket of the finest wheel is run for.        *)
Position == IF Idle THEN timer_pos ELSE pos

(* timer_insert of t, which is due at exp, in the wheels w.  The wheel is   *)
(* chosen by the distance from now_us, but timer_run may still be behind    *)
(* it, at pos: the bucket may then be one that the pass comes to first.     *)
timer_insert(w, t, exp) ==
  LET expire_us == exp + MIN_DELAY_US
      delay_us == expire_us - now_us
      index == (Log2(delay_us) - MIN_DELAY_SHIFT) \div WHEEL_SHIFT
      b == <<index, WHEEL_OFFSET(expire_us, index)>>
  IN /\ expires' = [expires EXCEPT ![t] = exp]
     /\ pending' = pending \cup {t}
     /\ misplaced' = IF /\ index = 0
                        /\ expire_us \div MIN_DELAY_US - Position \div MIN_DELAY_US >= WHEEL_SIZE
                     THEN misplaced \cup {t} ELSE misplaced \ {t}
     /\ IF index < WHEEL_COUNT
        THEN wheels' = [w EXCEPT ![b] = <<t>> \o @] /\ UNCHANGED wild
        ELSE wheels' = w /\ wild' = TRUE

timer_add(t, d) ==
  /\ Idle /\ t \notin pending
  /\ timer_insert(wheels, t, tsc + d)
  /\ UNCHANGED <<tsc, now_us, timer_pos, pc, pos, todo, early>>

timer_add_abs(t, d) ==
  /\ Idle /\ t \notin pending /\ tsc + d > timer_pos
  /\ timer_insert(wheels, t, tsc + d)
  /\ UNCHANGED <<tsc, now_us, timer_pos, pc, pos, todo, early>>

timer_add_for_next_tick(t) ==
  /\ Idle /\ t \notin pending
  /\ timer_insert(wheels, t, now_us + MIN_DELAY_US)
  /\ UNCHANGED <<tsc, now_us, timer_pos, pc, pos, todo, early>>

timer_mod(t, d) ==
  /\ Idle
  /\ timer_insert(Without(wheels, t), t, tsc + d)
  /\ UNCHANGED <<tsc, now_us, timer_pos, pc, pos, todo, early>>

timer_del(t) ==
  /\ Idle /\ t \in pending
  /\ wheels' = Without(wheels, t)
  /\ pending' = pending \ {t}
  /\ UNCHANGED <<tsc, now_us, timer_pos, expires, pc, pos, todo, misplaced, early, wild>>

(* The handler of t runs, after __timer_del, and may arm t again.           *)
CallHandler(t) ==
  /\ early' = IF expires[t] <= tsc \/ t \in misplaced THEN early ELSE early \cup {t}
  /\ \/ /\ wheels' = Without(wheels, t)
        /\ pending' = pending \ {t}
        /\ UNCHANGED <<expires, misplaced, wild>>
     \/ \E d \in Delays : timer_insert(Without(wheels, t), t, tsc + d)

(* timer_reinsert_bucket without the test of expiry.                        *)
timer_reinsert_bucket_all ==
  /\ pc \in 1 .. WHEEL_COUNT - 1 /\ todo # <<>>
  /\ LET t == Head(todo)
     IN CallHandler(t)
  /\ todo' = Tail(todo)
  /\ UNCHANGED <<tsc, now_us, timer_pos, pc, pos>>

(* One timer of timer_reinsert_bucket.                                      *)
timer_reinsert_bucket ==
  /\ pc \in 1 .. WHEEL_COUNT - 1 /\ todo # <<>>
  /\ LET t == Head(todo)
     IN IF expires[t] <= now_us THEN CallHandler(t)
        ELSE timer_insert(Without(wheels, t), t, expires[t]) /\ UNCHANGED early
  /\ todo' = Tail(todo)
  /\ UNCHANGED <<tsc, now_us, timer_pos, pc, pos>>

(* timer_collapse goes on to the next wheel only from offset zero, and then *)
(* timer_run runs the bucket of the finest wheel.                           *)
timer_collapse ==
  /\ pc \in 1 .. WHEEL_COUNT - 1 /\ todo = <<>>
  /\ IF WHEEL_OFFSET(pos, pc) = 0 /\ pc + 1 < WHEEL_COUNT
     THEN pc' = pc + 1 /\ todo' = wheels[<<pc + 1, WHEEL_OFFSET(pos, pc + 1)>>]
     ELSE pc' = 0 /\ todo' = wheels[<<0, WHEEL_OFFSET(pos, 0)>>]
  /\ UNCHANGED <<tsc, wheel, pos, misplaced, early, wild>>

(* One timer of timer_run_bucket, or its end, which empties the bucket.     *)
timer_run_bucket ==
  /\ pc = 0
  /\ IF todo # <<>>
     THEN CallHandler(Head(todo)) /\ todo' = Tail(todo) /\ UNCHANGED <<pc, pos>>
     ELSE /\ wheels' = [wheels EXCEPT ![<<0, WHEEL_OFFSET(pos, 0)>>] = <<>>]
          /\ pc' = LOOP /\ pos' = pos + MIN_DELAY_US
          /\ UNCHANGED <<expires, pending, todo, misplaced, early, wild>>
  /\ UNCHANGED <<tsc, now_us, timer_pos>>

(* timer_run: the start of a pass ...                                       *)
timer_run ==
  /\ Idle
  /\ now_us' = tsc /\ pos' = timer_pos /\ pc' = LOOP
  /\ UNCHANGED <<tsc, timer_pos, wheels, expires, pending, todo, misplaced, early, wild>>

(* ... and its loop.                                                        *)
timer_run_loop ==
  /\ pc = LOOP
  /\ IF pos <= now_us
     THEN LET w == IF WHEEL_OFFSET(pos, 0) = 0 /\ WHEEL_COUNT > 1 THEN 1 ELSE 0
          IN /\ pc' = w /\ todo' = wheels[<<w, WHEEL_OFFSET(pos, w)>>]
             /\ UNCHANGED timer_pos
     ELSE pc' = IDLE /\ timer_pos' = pos /\ UNCHANGED todo
  /\ UNCHANGED <<tsc, now_us, wheels, expires, pending, pos, misplaced, early, wild>>

Tick ==
  /\ tsc < MaxTime /\ tsc < timer_pos + MaxLate
  /\ tsc' = tsc + 1
  /\ UNCHANGED <<wheel, pc, pos, todo, misplaced, early, wild>>

(* Once a bucket outside the wheels is written the model ends.              *)
Next ==
  /\ ~wild
  /\ \/ \E t \in Timers, d \in Delays :
          timer_add(t, d) \/ timer_add_abs(t, d) \/ timer_mod(t, d)
     \/ \E t \in Timers : timer_add_for_next_tick(t) \/ timer_del(t)
     \/ timer_run \/ timer_run_loop \/ timer_run_bucket
     \/ timer_collapse \/ timer_reinsert_bucket
     \/ Tick

Spec == Init /\ [][Next]_vars

-----------------------------------------------------------------------------
(* The state has its type.                                                  *)
TypeOK ==
  /\ {tsc, now_us, timer_pos, pos} \subseteq Nat
  /\ wheels \in [Buckets -> Seq(Timers)]
  /\ expires \in [Timers -> Nat] /\ pending \subseteq Timers
  /\ pc \in {IDLE, LOOP} \cup 0 .. WHEEL_COUNT - 1
  /\ todo \in Seq(Timers)

(* A handler never runs before its timer is due ("the time interval from    *)
(* present to fire the timer", dp/core/timer.c:148), however late and       *)
(* however irregular the passes of timer_run are, if its timer was not put  *)
(* in a bucket a whole turn ahead while a pass was catching up.             *)
NeverEarly == early = {}

(* With the same exception a pending timer is in exactly one bucket, once,  *)
(* although handlers arm timers while timer_run_bucket and                  *)
(* timer_reinsert_bucket walk their lists.                                  *)
PendingInWheel ==
  wild \/ \A t \in Timers \ misplaced :
    Cardinality({<<b, i>> \in Buckets \X (1 .. Cardinality(Timers)) :
                   i <= Len(wheels[b]) /\ wheels[b][i] = t})
      = IF t \in pending THEN 1 ELSE 0

(* When a pass of timer_run is over, no pending timer is overdue by more    *)
(* than two ticks: none is left in a bucket that was already passed or was  *)
(* not collapsed in time, however many positions the pass made up for.      *)
NoneOverdue ==
  Idle => \A t \in pending \ misplaced : now_us < expires[t] + 2 * MIN_DELAY_US
=============================================================================

--------------------------- MODULE ThreadsProofs ---------------------------
(***************************************************************************)
(* Proof that IInv is an inductive invariant of Threads, for any number of *)
(* threads and timers and any width of the jiffies counter, and what       *)
(* follows from it.                                                        *)
(***************************************************************************)
EXTENDS Threads, TLAPS, WellFoundedInduction, NaturalsInduction

-----------------------------------------------------------------------------
(* What the list operations return, for every list without repetitions. *)

(* link_connected is membership in the set of items. *)
LEMMA ConnectedIsItem ==
  ASSUME NEW list, NEW item
  PROVE  link_connected(list, item) <=> item \in Items(list)
BY DEF link_connected, Items

(* list_append adds one item, at the end. *)
LEMMA AppendList ==
  ASSUME NEW S, NEW list \in Seq(S), NEW item \in S
  PROVE  /\ list_append(list, item) \in Seq(S)
         /\ Items(list_append(list, item)) = Items(list) \cup {item}
         /\ list_append(list, item) # << >>
         /\ NoRepeats(list) /\ item \notin Items(list)
              => NoRepeats(list_append(list, item))
BY DEF list_append, Items, NoRepeats

(* list_append of an item that is not linked. *)
LEMMA AppendNew ==
  ASSUME NEW S, NEW list \in Seq(S), NoRepeats(list), NEW item \in S, item \notin Items(list)
  PROVE  /\ Items(list_append(list, item)) = Items(list) \cup {item}
         /\ list_append(list, item) \in Seq(S)
         /\ NoRepeats(list_append(list, item))
BY AppendList

(* list_remove of a linked item removes it and nothing else. *)
LEMMA RemoveList ==
  ASSUME NEW S, NEW list \in Seq(S), NEW item, NoRepeats(list)
  PROVE  /\ list_remove(list, item) \in Seq(S)
         /\ Items(list_remove(list, item)) = Items(list) \ {item}
         /\ NoRepeats(list_remove(list, item))
<1>1. CASE ~link_connected(list, item)
  BY <1>1 DEF list_remove, link_connected, Items
<1>2. CASE link_connected(list, item)
  <2> DEFINE p == Position(list, item)
             from(i) == IF i < p THEN i ELSE i + 1
             r == [i \in 1 .. Len(list) - 1 |-> list[from(i)]]
  <2>1. p \in 1 .. Len(list) /\ list[p] = item
    BY <1>2 DEF link_connected, Position
  <2>2. list_remove(list, item) = r
    BY <1>2 DEF list_remove
  <2> HIDE DEF p
  <2> DEFINE to(j) == IF j < p THEN j ELSE j - 1
  <2>3. /\ Len(list) - 1 \in Nat
        /\ \A i \in 1 .. Len(list) - 1 : from(i) \in 1 .. Len(list) /\ from(i) # p
        /\ \A i, j \in 1 .. Len(list) - 1 : from(i) = from(j) => i = j
    BY <2>1
  <2>4. \A j \in 1 .. Len(list) : j # p => to(j) \in 1 .. Len(list) - 1 /\ from(to(j)) = j
    BY <2>1
  <2> HIDE DEF from, to
  <2>5. /\ r \in Seq(S) /\ Len(r) = Len(list) - 1
        /\ \A i \in 1 .. Len(list) - 1 : r[i] = list[from(i)]
    BY <2>3
  <2> HIDE DEF r
  <2>6. \A i \in 1 .. Len(r) : r[i] \in Items(list) \ {item}
    <3>1. \A i \in 1 .. Len(r) : r[i] = list[from(i)] /\ list[from(i)] # item
      BY <2>1, <2>3, <2>5 DEF NoRepeats
    <3> QED BY <2>3, <2>5, <3>1 DEF Items
  <2>7. \A j \in 1 .. Len(list) : list[j] # item => list[j] \in Items(r)
    <3>1. \A j \in 1 .. Len(list) : list[j] # item => to(j) \in 1 .. Len(r) /\ list[j] = r[to(j)]
      BY <2>1, <2>4, <2>5
    <3> QED BY <3>1 DEF Items
  <2>8. NoRepeats(r)
    <3>1. \A i, j \in 1 .. Len(list) - 1 : list[from(i)] = list[from(j)] => i = j
      BY <2>3 DEF NoRepeats
    <3> QED BY <2>5, <3>1 DEF NoRepeats
  <2>9. Items(r) = Items(list) \ {item}
    BY <2>6, <2>7 DEF Items
  <2> QED BY <2>2, <2>5, <2>8, <2>9
<1> QED BY <1>1, <1>2

(* list_rotate keeps the items and moves the first one to the end. *)
LEMMA RotateList ==
  ASSUME NEW S, NEW list \in Seq(S), list # << >>
  PROVE  /\ Head(list) \in S
         /\ Head(list) \in Items(list)
         /\ list_rotate(list) \in Seq(S)
         /\ Items(list_rotate(list)) = Items(list)
         /\ NoRepeats(list) => NoRepeats(list_rotate(list))
<1> DEFINE r == list_rotate(list)
<1>1. /\ Len(list) \in Nat /\ Len(list) >= 1 /\ Head(list) = list[1]
      /\ r \in Seq(S) /\ Len(r) = Len(list)
      /\ \A i \in 1 .. Len(r) : r[i] = IF i < Len(list) THEN list[i + 1] ELSE list[1]
  BY DEF list_rotate, list_append
<1> HIDE DEF r
<1>2. \A i \in 1 .. Len(list) : \E j \in 1 .. Len(r) : list[i] = r[j]
  <2>1. list[1] = r[Len(r)]
    BY <1>1
  <2>2. \A i \in 2 .. Len(list) : i - 1 \in 1 .. Len(r) /\ list[i] = r[i - 1]
    BY <1>1
  <2> QED BY <1>1, <2>1, <2>2
<1>3. \A i \in 1 .. Len(r) : \E j \in 1 .. Len(list) : r[i] = list[j]
  BY <1>1
<1>4. Items(r) = Items(list)
  <2>1. \A x : /\ x \in Items(r) <=> \E i \in 1 .. Len(r) : x = r[i]
               /\ x \in Items(list) <=> \E j \in 1 .. Len(list) : x = list[j]
    BY DEF Items
  <2> QED BY <1>2, <1>3, <2>1
<1>5. Head(list) \in Items(list)
  BY <1>1 DEF Items
<1>6. NoRepeats(list) => NoRepeats(r)
  BY <1>1 DEF NoRepeats
<1> QED BY <1>1, <1>3, <1>4, <1>5, <1>6 DEF r

-----------------------------------------------------------------------------
USE DEF ThreadState, schedVars, timerVars, threadVars, UserPlace

-----------------------------------------------------------------------------
(* Arithmetic of unsigned int stays in range. *)
LEMMA UintType ==
  ASSUME NEW n \in Nat
  PROVE  uint(n) \in UInt
BY TimeAssumption DEF uint, UInt

(* A quotient is at most the dividend. *)
LEMMA DivBound ==
  ASSUME NEW n \in Nat, NEW d \in Nat \ {0}
  PROVE  n \div d \in 0 .. n
<1>1. n \div d \in Int /\ (n % d) \in 0 .. d - 1 /\ n = d * (n \div d) + (n % d)
  OBVIOUS
<1> DEFINE q == n \div d
           r == n % d
<1>2. q \in Int /\ r \in 0 .. d - 1 /\ n = d * q + r
  BY <1>1
<1> HIDE DEF q, r
<1>3. q >= 0
  <2>1. CASE q <= -1
    <3>1. d * q <= -d
      BY <1>2, <2>1
    <3> QED BY <1>2, <3>1
  <2> QED BY <1>2, <2>1
<1>4. d * q >= q
  BY <1>2, <1>3
<1> QED BY <1>2, <1>3, <1>4 DEF q

(* usec_to_jiffies fits into unsigned int. *)
LEMMA UsecType ==
  ASSUME NEW u \in Nat
  PROVE  usec_to_jiffies(u) \in UInt
<1> DEFINE n == uint(uint(u * TIMER_PERIOD) + USEC - 1)
<1>1. u * TIMER_PERIOD \in Nat
  BY TimeAssumption
<1>2. uint(u * TIMER_PERIOD) \in Nat
  BY <1>1, UintType, TimeAssumption DEF UInt
<1>3. uint(u * TIMER_PERIOD) + USEC - 1 \in Nat
  BY <1>2, TimeAssumption
<1>4. n \in UInt
  BY <1>3, UintType
<1> HIDE DEF n
<1>5. n \in Nat /\ n \div USEC \in 0 .. n
  BY <1>4, TimeAssumption, DivBound DEF UInt
<1> QED BY <1>4, <1>5, TimeAssumption DEF UInt, usec_to_jiffies, n

(* A nonempty set of naturals has a least element. *)
LEMMA NatMin ==
  ASSUME NEW T, T \subseteq Nat, T # {}
  PROVE  \E i \in T : \A j \in T : i <= j
<1>1. PICK i \in T : \A j \in T : ~(<<j, i>> \in OpToRel(<, Nat))
  BY WFMin, NatLessThanWellFounded
<1>2. \A j \in T : ~(j < i)
  BY <1>1 DEF OpToRel
<1> QED BY <1>2

(* The scan of the timer thread finds a timer of the list. *)
LEMMA FirstExpiredListed ==
  ASSUME TypeOK, SomeExpired
  PROVE  FirstExpired \in Timer /\ FirstExpired \in Items(timers)
<1> DEFINE T == {i \in 1 .. Len(timers) : IsExpired(timers[i], jiffies)}
           First(i) == /\ IsExpired(timers[i], jiffies)
                       /\ \A j \in 1 .. i - 1 : ~IsExpired(timers[j], jiffies)
<1>1. Len(timers) \in Nat
  BY DEF TypeOK
<1>2. T \subseteq Nat /\ T # {}
  BY <1>1 DEF SomeExpired
<1>3. PICK i \in T : \A j \in T : i <= j
  BY <1>2, NatMin
<1>4. i \in 1 .. Len(timers) /\ First(i)
  <2> SUFFICES ASSUME NEW j \in 1 .. i - 1, IsExpired(timers[j], jiffies)
               PROVE  FALSE
    BY <1>3
  <2>1. j \in T
    BY <1>1, <1>3
  <2> QED BY <2>1, <1>1, <1>3
<1>5. \E k \in 1 .. Len(timers) : FirstExpired = timers[k]
  <2> HIDE DEF First
  <2>1. FirstExpired = timers[CHOOSE k \in 1 .. Len(timers) : First(k)]
    BY DEF FirstExpired, First
  <2> QED BY <1>4, <2>1
<1> QED BY <1>1, <1>5 DEF Items, TypeOK

-----------------------------------------------------------------------------
(* What the scheduler needs of the queue and the states it is handed: like *)
(* RunQueueExact, except that the current thread may just have given up    *)
(* RUNNING.                                                                *)
QueueOK(rq, st) ==
  /\ rq \in Seq(Thread)
  /\ st \in [Thread -> ThreadState]
  /\ NoRepeats(rq)
  /\ \A t \in Thread : t \in Items(rq) <=> st[t] \in {"READY", "RUNNING"}
  /\ \A t \in Thread : st[t] = "RUNNING" => t = current

(* The states differ at most in who is RUNNING among the queued threads. *)
SameLifeAt(st1, st2, t) ==
  /\ st2[t] = "FREE" <=> st1[t] = "FREE"
  /\ st2[t] = "SLEEPING" <=> st1[t] = "SLEEPING"
  /\ st2[t] = "ZOMBIE" <=> st1[t] = "ZOMBIE"

SameLife(st1, st2) == \A t \in Thread : SameLifeAt(st1, st2, t)

USE DEF SameLifeAt

LEMMA QueueNow ==
  ASSUME TypeOK, RunQueueExact
  PROVE  QueueOK(runnable, state)
BY DEF TypeOK, RunQueueExact, QueueOK

(* The current thread goes to sleep or dies. *)
LEMMA QueueLeave ==
  ASSUME TypeOK, RunQueueExact, NEW s \in {"SLEEPING", "ZOMBIE"}
  PROVE  /\ QueueOK(Leave, Become(s))
         /\ Become(s)[current] = s
         /\ \A t \in Thread : t # current => Become(s)[t] = state[t]
<1>1. /\ Leave \in Seq(Thread)
      /\ Items(Leave) = Items(runnable) \ {current}
      /\ NoRepeats(Leave)
  BY RemoveList DEF Leave, sched_remove, TypeOK, RunQueueExact
<1>2. /\ Become(s) \in [Thread -> ThreadState]
      /\ Become(s)[current] = s
      /\ \A t \in Thread : t # current => Become(s)[t] = state[t]
  BY DEF Become, TypeOK
<1> QED BY <1>1, <1>2 DEF QueueOK, RunQueueExact, TypeOK

(* thread_wakeup. *)
LEMMA QueueWake ==
  ASSUME NEW rq, NEW st, QueueOK(rq, st), NEW t \in Thread
  PROVE  /\ QueueOK(WakeQueue(rq, st, t), WakeState(st, t))
         /\ Items(rq) \subseteq Items(WakeQueue(rq, st, t))
         /\ WakeState(st, t)[t] # "SLEEPING"
         /\ st[t] # "SLEEPING" => WakeState(st, t)[t] = st[t]
         /\ st[t] = "SLEEPING" => WakeState(st, t)[t] = "READY"
         /\ \A u \in Thread : u # t => WakeState(st, t)[u] = st[u]
<1>1. CASE st[t] = "SLEEPING"
  <2>1. /\ WakeQueue(rq, st, t) \in Seq(Thread)
        /\ Items(WakeQueue(rq, st, t)) = Items(rq) \cup {t}
        /\ NoRepeats(WakeQueue(rq, st, t))
    BY <1>1, AppendList DEF WakeQueue, sched_insert, QueueOK
  <2> QED BY <1>1, <2>1 DEF QueueOK, WakeState
<1>2. CASE st[t] # "SLEEPING"
  BY <1>2 DEF QueueOK, WakeState, WakeQueue
<1> QED BY <1>1, <1>2

(* schedule restores RunQueueExact from a nonempty queue. *)
LEMMA ScheduleStep ==
  ASSUME TypeOK, NEW rq, NEW st, QueueOK(rq, st), NEW t0 \in Items(rq), schedule(rq, st)
  PROVE  /\ runnable' \in Seq(Thread)
         /\ current' \in Thread
         /\ state' \in [Thread -> ThreadState]
         /\ ticked' \in BOOLEAN
         /\ RunQueueExact'
         /\ SameLife(st, state')
<1>1. rq # << >>
  BY DEF Items
<1>2. /\ Head(rq) \in Thread
      /\ Head(rq) \in Items(rq)
      /\ list_rotate(rq) \in Seq(Thread)
      /\ Items(list_rotate(rq)) = Items(rq)
      /\ NoRepeats(list_rotate(rq))
  BY <1>1, RotateList DEF QueueOK
<1>3. /\ runnable' = list_rotate(rq)
      /\ current' = Head(rq)
      /\ state' = thread_switch(st, Head(rq))
      /\ ticked' = FALSE
  BY <1>1 DEF schedule
<1>4. /\ state' \in [Thread -> ThreadState]
      /\ state'[Head(rq)] = "RUNNING"
      /\ \A t \in Thread : t # Head(rq) /\ t # current => state'[t] = st[t]
      /\ current # Head(rq) =>
           state'[current] = IF st[current] = "RUNNING" THEN "READY" ELSE st[current]
  BY <1>2, <1>3 DEF thread_switch, QueueOK, TypeOK
<1>5. SameLife(st, state')
  BY <1>2, <1>4 DEF SameLife, QueueOK, TypeOK
<1>6. \A t \in Thread : state'[t] = "RUNNING" <=> t = current'
  BY <1>2, <1>3, <1>4 DEF QueueOK, TypeOK
<1>7. \A t \in Thread : t \in Items(runnable') <=> state'[t] \in {"READY", "RUNNING"}
  BY <1>2, <1>3, <1>4, <1>5 DEF QueueOK, SameLife
<1> QED BY <1>2, <1>3, <1>4, <1>5, <1>6, <1>7 DEF RunQueueExact

-----------------------------------------------------------------------------
(* The current thread is RUNNING, and the idle thread is always queued. *)
LEMMA CurrentFacts ==
  ASSUME IInv
  PROVE  /\ current \in Thread
         /\ state[current] = "RUNNING"
         /\ Idle \in Items(runnable)
         /\ current # Idle => Idle \in Items(Leave)
         /\ Idle \in Thread /\ TimerThread \in Thread /\ Idle # TimerThread
         /\ User \subseteq Thread /\ Thread \subseteq Timer /\ KTimer \subseteq Timer
         /\ NULL \notin Timer
<1>1. /\ current \in Thread
      /\ state[current] = "RUNNING"
      /\ Idle \in Items(runnable)
  BY ThreadsAssumption DEF IInv, TypeOK, RunQueueExact, PlaceInv
<1>2. Items(Leave) = Items(runnable) \ {current}
  BY RemoveList DEF IInv, TypeOK, RunQueueExact, Leave, sched_remove
<1> QED BY <1>1, <1>2, ThreadsAssumption, TimerAssumption DEF User, Timer

(* A step that leaves the timers alone keeps what is said of them alone. *)
LEMMA TimersUnchanged ==
  ASSUME TimersExact, UNCHANGED <<timers, running, expired>>
  PROVE  TimersExact'
BY DEF TimersExact, Timer

(* A new thread is queued. *)
LEMMA QueueInsert ==
  ASSUME TypeOK, RunQueueExact, NEW t \in Thread, state[t] = "FREE"
  PROVE  /\ list_append(runnable, t) \in Seq(Thread)
         /\ Items(list_append(runnable, t)) = Items(runnable) \cup {t}
         /\ NoRepeats(list_append(runnable, t))
<1>1. runnable \in Seq(Thread) /\ NoRepeats(runnable) /\ t \notin Items(runnable)
  BY DEF TypeOK, RunQueueExact
<1> QED BY <1>1, AppendList

(* One lemma per action: the step preserves IInv. *)
LEMMA StepCreate ==
  ASSUME IInv, NEW t \in User, thread_create(t)
  PROVE  IInv'
<1>0. /\ t \in Thread /\ t # Idle /\ t # TimerThread /\ t # current
      /\ current \in User /\ current \in Thread
      /\ state[t] = "FREE" /\ state[current] = "RUNNING"
      /\ pc[current] = "run"
  BY CurrentFacts DEF thread_create, UserCode, User
<1>q. /\ runnable' \in Seq(Thread)
      /\ Items(runnable') = Items(runnable) \cup {t}
      /\ NoRepeats(runnable')
  <2>1. runnable' = list_append(runnable, t)
    BY DEF thread_create, sched_insert
  <2> QED BY <2>1, <1>0, QueueInsert DEF IInv
<1>1. TypeOK'
  BY <1>0, <1>q, CurrentFacts DEF IInv, TypeOK, thread_create, Location
<1>2. RunQueueExact'
  BY <1>0, <1>q DEF IInv, TypeOK, RunQueueExact, thread_create
<1>3. TimersExact'
  BY TimersUnchanged DEF IInv, thread_create
<1>4. PlaceInv'
  BY <1>0, CurrentFacts DEF IInv, TypeOK, PlaceInv, User, thread_create
<1>5. TimerInv'
  BY <1>0, CurrentFacts DEF IInv, TypeOK, PlaceInv, TimerInv, TimerInUse, timer_pending, Timer, User, thread_create
<1>6. JoinInv'
  BY <1>0, CurrentFacts DEF IInv, TypeOK, JoinInv, PlaceInv, thread_create
<1>7. SleeperHasTimer'
  BY <1>0, CurrentFacts DEF IInv, TypeOK, SleeperHasTimer, timer_pending, thread_create
<1> QED BY <1>1, <1>2, <1>3, <1>4, <1>5, <1>6, <1>7 DEF IInv

(* thread_create when vmm_create fails changes only the interrupt bit. *)
LEMMA StepCreateNoVmm ==
  ASSUME IInv, thread_create_no_vmm
  PROVE  IInv'
<1>1. TypeOK'
  BY CurrentFacts DEF IInv, TypeOK, thread_create_no_vmm, query_and_disable_interrupts
<1>2. UNCHANGED <<schedVars, timerVars, joiner, retval, pc, arg, owner>>
  BY DEF thread_create_no_vmm
<1> QED BY <1>1, <1>2 DEF IInv, RunQueueExact, TimersExact, PlaceInv, TimerInv, JoinInv,
          SleeperHasTimer, TimerInUse, timer_pending

LEMMA StepPublish ==
  ASSUME IInv, thread_create_publish
  PROVE  IInv'
<1>0. /\ current \in User /\ current \in Thread
      /\ pc[current] = "publish" /\ current # Idle /\ current # TimerThread
  BY CurrentFacts DEF thread_create_publish, User
<1>1. TypeOK'
  BY <1>0, CurrentFacts DEF IInv, TypeOK, thread_create_publish, Goto, SetArg, Location
<1>2. RunQueueExact'
  BY DEF IInv, RunQueueExact, thread_create_publish
<1>3. TimersExact'
  BY TimersUnchanged DEF IInv, thread_create_publish
<1>4. PlaceInv'
  BY <1>0, CurrentFacts DEF IInv, TypeOK, PlaceInv, thread_create_publish, Goto
<1>5. TimerInv'
  BY <1>0, CurrentFacts DEF IInv, TypeOK, TimerInv, TimerInUse, timer_pending, Timer,
     thread_create_publish, Goto, SetArg
<1>6. JoinInv'
  BY <1>0, CurrentFacts DEF IInv, TypeOK, JoinInv, thread_create_publish, Goto, SetArg
<1>7. SleeperHasTimer'
  BY <1>0, CurrentFacts DEF IInv, TypeOK, SleeperHasTimer, timer_pending, thread_create_publish, Goto
<1> QED BY <1>1, <1>2, <1>3, <1>4, <1>5, <1>6, <1>7 DEF IInv

(* A plain context switch: thread_yield, the idle loop, the wait loop of   *)
(* timer_destroy and the end of sched_timer.                               *)
LEMMA StepSwitch ==
  ASSUME IInv, schedule(runnable, state), UNCHANGED <<timerVars, threadVars>>
  PROVE  IInv'
<1>1. /\ runnable' \in Seq(Thread)
      /\ current' \in Thread
      /\ state' \in [Thread -> ThreadState]
      /\ ticked' \in BOOLEAN
      /\ RunQueueExact'
      /\ SameLife(state, state')
  BY CurrentFacts, QueueNow, ScheduleStep DEF IInv
<1>2. TypeOK'
  BY <1>1 DEF IInv, TypeOK
<1>3. TimersExact'
  BY TimersUnchanged DEF IInv
<1>4. PlaceInv'
  BY <1>1, CurrentFacts DEF IInv, TypeOK, PlaceInv, SameLife
<1>5. TimerInv'
  BY DEF IInv, TimerInv, TimerInUse, timer_pending
<1>6. JoinInv'
  BY <1>1, CurrentFacts DEF IInv, TypeOK, JoinInv, SameLife
<1>7. SleeperHasTimer'
  BY <1>1 DEF IInv, SleeperHasTimer, SameLife, timer_pending
<1> QED BY <1>1, <1>2, <1>3, <1>4, <1>5, <1>6, <1>7 DEF IInv

(* PlaceInv after a step that moves one user thread and otherwise decides  *)
(* only who is RUNNING.                                                    *)
LEMMA PlaceKeep ==
  ASSUME IInv, NEW u \in User,
         state' \in [Thread -> ThreadState],
         \A t \in Thread : t # u => SameLifeAt(state, state', t),
         \A t \in Thread : t # u => pc'[t] = pc[t],
         \A t \in User : t # u => retval'[t] = retval[t],
         UserPlace(state'[u], pc'[u], retval'[u])
  PROVE  PlaceInv'
<1>1. u # Idle /\ u # TimerThread
  BY DEF User
<1>2. ASSUME NEW t \in User, t # u
      PROVE  UserPlace(state'[t], pc'[t], retval'[t])
  BY <1>2, CurrentFacts DEF IInv, PlaceInv
<1>3. /\ pc'[Idle] = "idle" /\ state'[Idle] \in {"READY", "RUNNING"}
      /\ pc'[TimerThread] = pc[TimerThread]
      /\ pc'[TimerThread] \in {"scan", "handler", "clear", "suspend"}
      /\ state'[TimerThread] \in {"READY", "RUNNING", "SLEEPING"}
      /\ state'[TimerThread] = "SLEEPING" => state[TimerThread] = "SLEEPING"
  BY <1>1, CurrentFacts DEF IInv, PlaceInv
<1> QED BY <1>2, <1>3 DEF IInv, PlaceInv

LEMMA StepSuspend ==
  ASSUME IInv, thread_suspend
  PROVE  IInv'
<1>0. /\ current \in User /\ current \in Thread
      /\ pc[current] = "run" /\ current # Idle /\ current # TimerThread
      /\ state[current] = "RUNNING"
  BY CurrentFacts DEF thread_suspend, UserCode, User
<1> DEFINE st == Become("SLEEPING")
<1>q. /\ QueueOK(Leave, st)
      /\ st[current] = "SLEEPING"
      /\ \A t \in Thread : t # current => st[t] = state[t]
  BY QueueLeave DEF IInv
<1>s. schedule(Leave, st) /\ UNCHANGED <<timerVars, threadVars>>
  BY DEF thread_suspend
<1> HIDE DEF st
<1>1. /\ runnable' \in Seq(Thread)
      /\ current' \in Thread
      /\ state' \in [Thread -> ThreadState]
      /\ ticked' \in BOOLEAN
      /\ RunQueueExact'
      /\ SameLife(st, state')
  BY <1>0, <1>q, <1>s, CurrentFacts, ScheduleStep DEF IInv
<1>2. TypeOK'
  BY <1>1, <1>s DEF IInv, TypeOK
<1>3. TimersExact'
  BY <1>s, TimersUnchanged DEF IInv
<1>4. PlaceInv'
  <2>1. pc' = pc /\ retval' = retval /\ state'[current] = "SLEEPING"
    BY <1>0, <1>1, <1>q, <1>s DEF SameLife
  <2>2. \A t \in Thread : t # current => SameLifeAt(state, state', t)
    BY <1>1, <1>q DEF SameLife
  <2> QED BY <1>0, <1>1, <2>1, <2>2, CurrentFacts, PlaceKeep
<1>5. TimerInv'
  BY <1>s DEF IInv, TimerInv, TimerInUse, timer_pending
<1>6. JoinInv'
  <2>1. /\ pc' = pc /\ arg' = arg /\ joiner' = joiner
        /\ pc[current] # "join" /\ state[current] # "ZOMBIE" /\ st[current] # "ZOMBIE"
        /\ state[current] # "FREE" /\ st[current] # "FREE"
    BY <1>0, <1>q, <1>s DEF threadVars
  <2>2. \A t \in Thread : /\ state'[t] = "FREE" <=> state[t] = "FREE"
                          /\ state'[t] = "ZOMBIE" <=> state[t] = "ZOMBIE"
                          /\ t # current => (state'[t] = "SLEEPING" <=> state[t] = "SLEEPING")
    BY <1>1, <1>q, <2>1 DEF SameLife, SameLifeAt
  <2> QED BY <2>1, <2>2, CurrentFacts DEF IInv, TypeOK, JoinInv, User
<1>7. SleeperHasTimer'
  BY <1>0, <1>1, <1>q, <1>s DEF IInv, SleeperHasTimer, SameLife, timer_pending
<1> QED BY <1>1, <1>2, <1>3, <1>4, <1>5, <1>6, <1>7 DEF IInv

LEMMA StepWakeup ==
  ASSUME IInv, NEW t \in User, thread_wakeup(t)
  PROVE  IInv'
<1>0. /\ current \in User /\ current \in Thread /\ t \in Thread
      /\ t # Idle /\ t # TimerThread /\ pc[t] # "join"
  BY CurrentFacts DEF thread_wakeup, UserCode, User
<1>q. /\ QueueOK(runnable', state')
      /\ state[t] # "SLEEPING" => state'[t] = state[t]
      /\ state[t] = "SLEEPING" => state'[t] = "READY"
      /\ \A u \in Thread : u # t => state'[u] = state[u]
      /\ UNCHANGED <<current, ticked, timerVars, threadVars>>
  BY <1>0, QueueNow, QueueWake DEF IInv, thread_wakeup
<1>1. TypeOK'
  BY <1>q DEF IInv, TypeOK, QueueOK
<1>2. RunQueueExact'
  BY <1>0, <1>q DEF IInv, TypeOK, RunQueueExact, QueueOK
<1>3. TimersExact'
  BY <1>q, TimersUnchanged DEF IInv
<1>4. PlaceInv'
  BY <1>0, <1>q, CurrentFacts DEF IInv, TypeOK, PlaceInv
<1>5. TimerInv'
  BY <1>q DEF IInv, TimerInv, TimerInUse, timer_pending
<1>6. JoinInv'
  BY <1>0, <1>q, CurrentFacts DEF IInv, TypeOK, JoinInv
<1>7. SleeperHasTimer'
  BY <1>0, <1>q DEF IInv, SleeperHasTimer, timer_pending
<1> QED BY <1>1, <1>2, <1>3, <1>4, <1>5, <1>6, <1>7 DEF IInv

(* timer_start lists the timer and computes its deadline. *)
LEMMA TimerStartList ==
  ASSUME TypeOK, TimersExact, NEW x \in Timer, NEW d \in UInt,
         timer_start(x, d), ~timer_pending(x)
  PROVE  /\ timers' \in Seq(Timer)
         /\ NoRepeats(timers')
         /\ expires' \in [Timer -> UInt]
         /\ \A y : timer_pending(y)' <=> timer_pending(y) \/ y = x
<1>1. x \notin Items(timers) /\ timers \in Seq(Timer) /\ NoRepeats(timers)
  BY ConnectedIsItem DEF TypeOK, TimersExact, timer_pending
<1>2. timers' = list_append(timers, x)
  BY DEF timer_start
<1>3. /\ timers' \in Seq(Timer)
      /\ Items(timers') = Items(timers) \cup {x}
      /\ NoRepeats(timers')
  <2>1. /\ list_append(timers, x) \in Seq(Timer)
        /\ Items(list_append(timers, x)) = Items(timers) \cup {x}
        /\ NoRepeats(timers) /\ x \notin Items(timers) => NoRepeats(list_append(timers, x))
    BY <1>1, AppendList
  <2> QED BY <1>1, <1>2, <2>1
<1>4. jiffies + d \in Nat
  BY DEF TypeOK, UInt
<1>5. expires' \in [Timer -> UInt]
  BY <1>4, UintType DEF timer_start, TypeOK
<1> QED BY <1>3, <1>5, ConnectedIsItem DEF timer_pending

(* timer_remove takes one timer off the list. *)
LEMMA TimerRemoveList ==
  ASSUME TypeOK, TimersExact, NEW x, timer_remove(x)
  PROVE  /\ timers' \in Seq(Timer)
         /\ NoRepeats(timers')
         /\ \A y : timer_pending(y)' <=> timer_pending(y) /\ y # x
<1>1. /\ timers' \in Seq(Timer)
      /\ Items(timers') = Items(timers) \ {x}
      /\ NoRepeats(timers')
  BY RemoveList DEF TypeOK, TimersExact, timer_remove
<1> QED BY <1>1, ConnectedIsItem DEF timer_pending

LEMMA StepSleep ==
  ASSUME IInv, NEW d \in UInt, Sleep(d)
  PROVE  IInv'
<1>0. /\ current \in User /\ current \in Thread /\ current \in Timer
      /\ pc[current] = "run" /\ current # Idle /\ current # TimerThread
      /\ state[current] = "RUNNING"
  BY CurrentFacts DEF Sleep, UserCode, User
<1> DEFINE st == Become("SLEEPING")
<1>q. /\ QueueOK(Leave, st)
      /\ st[current] = "SLEEPING"
      /\ \A t \in Thread : t # current => st[t] = state[t]
  BY QueueLeave DEF IInv
<1>s. /\ schedule(Leave, st)
      /\ timer_start(current, d)
      /\ timeout' = [timeout EXCEPT ![current] = d]
      /\ running' = [running EXCEPT ![current] = FALSE]
      /\ pc' = [pc EXCEPT ![current] = "sleep"]
      /\ UNCHANGED <<jiffies, expired, joiner, retval, arg, ie, owner>>
  BY DEF Sleep, timer_init_jiffies, Goto
<1> HIDE DEF st
<1>u. ~timer_pending(current) /\ expired # current
  BY <1>0, TimerAssumption DEF IInv, TimerInv, TimerInUse
<1>t. /\ timers' \in Seq(Timer)
      /\ NoRepeats(timers')
      /\ expires' \in [Timer -> UInt]
      /\ \A y : timer_pending(y)' <=> timer_pending(y) \/ y = current
  BY <1>0, <1>s, <1>u, TimerStartList DEF IInv
<1>p. /\ pc'[current] = "sleep"
      /\ \A t \in Thread : t # current => pc'[t] = pc[t]
      /\ UNCHANGED <<joiner, retval, arg>>
  BY <1>0, <1>s DEF IInv, TypeOK
<1>1. /\ runnable' \in Seq(Thread)
      /\ current' \in Thread
      /\ state' \in [Thread -> ThreadState]
      /\ ticked' \in BOOLEAN
      /\ RunQueueExact'
      /\ SameLife(st, state')
  BY <1>0, <1>q, <1>s, CurrentFacts, ScheduleStep DEF IInv
<1>2. TypeOK'
  BY <1>0, <1>1, <1>s, <1>t DEF IInv, TypeOK, Location
<1>3. TimersExact'
  <2>1. \A x \in Timer : running'[x] <=> x = expired'
    BY <1>0, <1>s, <1>u DEF IInv, TypeOK, TimersExact
  <2> QED BY <2>1, <1>t DEF TimersExact, Timer
<1>4. PlaceInv'
  <2>1. \A t \in Thread : t # current => SameLifeAt(state, state', t)
    BY <1>1, <1>q DEF SameLife
  <2>2. UserPlace(state'[current], pc'[current], retval'[current])
    BY <1>0, <1>1, <1>q, <1>p DEF SameLife
  <2> QED BY <2>1, <2>2, <1>0, <1>1, <1>p, PlaceKeep
<1>5. TimerInv'
  BY <1>0, <1>s, <1>t, <1>u, CurrentFacts, TimerAssumption
     DEF IInv, TypeOK, TimerInv, TimerInUse, Timer
<1>6. JoinInv'
  <2>1. ASSUME NEW j \in Thread, pc'[j] = "join"
        PROVE  /\ arg'[j] \in User
               /\ arg'[j] # j
               /\ joiner'[arg'[j]] = j
               /\ state'[arg'[j]] # "FREE"
               /\ state'[j] = "SLEEPING" <=> state'[arg'[j]] # "ZOMBIE"
    BY <2>1, <1>0, <1>1, <1>q, <1>p, CurrentFacts DEF IInv, JoinInv, SameLife
  <2>2. ASSUME NEW t \in Thread, joiner'[t] # NULL
        PROVE  pc'[joiner'[t]] = "join" /\ arg'[joiner'[t]] = t
    BY <2>2, <1>0, <1>p DEF IInv, TypeOK, JoinInv
  <2> QED BY <2>1, <2>2 DEF JoinInv
<1>7. SleeperHasTimer'
  BY <1>0, <1>1, <1>q, <1>s, <1>t, CurrentFacts
     DEF IInv, TypeOK, SleeperHasTimer, SameLife
<1> QED BY <1>1, <1>2, <1>3, <1>4, <1>5, <1>6, <1>7 DEF IInv

(* The entry of timer_destroy, called with a timer the thread has in use. *)
LEMMA StepDestroy ==
  ASSUME IInv, NEW x \in Timer, timer_destroy(x),
         current \in User, pc[current] \in {"run", "sleep"},
         \/ x = current /\ pc[current] = "sleep"
         \/ x \in KTimer /\ owner[x] = current /\ pc[current] = "run",
         UNCHANGED <<schedVars, joiner, retval, ie, owner>>
  PROVE  IInv'
<1>0. /\ current \in Thread /\ current # Idle /\ current # TimerThread
      /\ state[current] = "RUNNING"
  BY CurrentFacts DEF User
<1>s. /\ timer_remove(x)
      /\ pc' = [pc EXCEPT ![current] = "destroy"]
      /\ arg' = [arg EXCEPT ![current] = x]
      /\ UNCHANGED <<jiffies, timeout, expires, running, expired>>
  BY DEF timer_destroy, Goto, SetArg
<1>t. /\ timers' \in Seq(Timer)
      /\ NoRepeats(timers')
      /\ \A y : timer_pending(y)' <=> timer_pending(y) /\ y # x
  BY <1>s, TimerRemoveList DEF IInv
<1>1. TypeOK'
  BY <1>0, <1>s, <1>t, CurrentFacts DEF IInv, TypeOK, Location
<1>2. RunQueueExact'
  BY DEF IInv, RunQueueExact
<1>3. TimersExact'
  BY <1>s, <1>t DEF IInv, TimersExact, Timer
<1>4. PlaceInv'
  BY <1>0, <1>s, CurrentFacts DEF IInv, TypeOK, PlaceInv
<1>5. TimerInv'
  BY <1>0, <1>s, <1>t, CurrentFacts, TimerAssumption
     DEF IInv, TypeOK, TimerInv, TimerInUse, Timer
<1>6. JoinInv'
  BY <1>0, <1>s, CurrentFacts DEF IInv, TypeOK, JoinInv
<1>7. SleeperHasTimer'
  BY <1>0, <1>s, <1>t, CurrentFacts, TimerAssumption DEF IInv, TypeOK, SleeperHasTimer
<1> QED BY <1>1, <1>2, <1>3, <1>4, <1>5, <1>6, <1>7 DEF IInv

LEMMA StepSleepWoken ==
  ASSUME IInv, thread_sleep_woken
  PROVE  IInv'
<1>1. current \in User /\ current \in Timer /\ pc[current] = "sleep"
  BY CurrentFacts DEF thread_sleep_woken, IInv, PlaceInv, User
<1> QED BY <1>1, StepDestroy DEF thread_sleep_woken

LEMMA StepKtimerDestroy ==
  ASSUME IInv, NEW k \in KTimer, ktimer_destroy(k)
  PROVE  IInv'
<1>1. current \in User /\ k \in Timer /\ pc[current] = "run" /\ owner[k] = current
  BY CurrentFacts DEF ktimer_destroy, UserCode
<1>2. UNCHANGED <<schedVars, joiner, retval, ie, owner>>
  BY DEF ktimer_destroy, IInv, TypeOK
<1> QED BY <1>1, <1>2, StepDestroy DEF ktimer_destroy

LEMMA StepDestroyDone ==
  ASSUME IInv, timer_destroy_done
  PROVE  IInv'
<1> DEFINE x == arg[current]
<1>0. /\ current \in User /\ current \in Thread /\ current # Idle /\ current # TimerThread
      /\ state[current] = "RUNNING" /\ pc[current] = "destroy"
  BY CurrentFacts DEF timer_destroy_done, IInv, PlaceInv, User
<1>x. /\ x = current \/ (x \in KTimer /\ owner[x] = current)
      /\ x \in Timer
  BY <1>0, CurrentFacts DEF IInv, TimerInv
<1>s. /\ timer_remove(x)
      /\ ~running[x]
      /\ timeout' = [timeout EXCEPT ![x] = 0]
      /\ expires' = [expires EXCEPT ![x] = 0]
      /\ owner' = [k \in KTimer |-> IF k = x THEN NULL ELSE owner[k]]
      /\ pc' = [pc EXCEPT ![current] = "run"]
      /\ arg' = [arg EXCEPT ![current] = NULL]
      /\ UNCHANGED <<schedVars, jiffies, running, expired, joiner, retval, ie>>
  BY DEF timer_destroy_done, Goto, SetArg
<1> HIDE DEF x
<1>t. /\ timers' \in Seq(Timer)
      /\ NoRepeats(timers')
      /\ \A y : timer_pending(y)' <=> timer_pending(y) /\ y # x
  BY <1>s, TimerRemoveList DEF IInv
<1>e. expired # x
  BY <1>s, <1>x DEF IInv, TimersExact
<1>1. TypeOK'
  <2>1. 0 \in UInt
    BY TimeAssumption DEF UInt
  <2> QED BY <2>1, <1>0, <1>s, <1>t, <1>x, CurrentFacts DEF IInv, TypeOK, Location
<1>2. RunQueueExact'
  BY <1>s DEF IInv, RunQueueExact
<1>3. TimersExact'
  BY <1>s, <1>t DEF IInv, TimersExact, Timer
<1>4. PlaceInv'
  BY <1>0, <1>s, CurrentFacts DEF IInv, TypeOK, PlaceInv
<1>5. TimerInv'
  <2>1. (expired # NULL <=> pc[TimerThread] \in {"handler", "clear"})'
    BY <1>0, <1>s, CurrentFacts DEF IInv, TypeOK, TimerInv
  <2>2. ASSUME NEW y \in Timer, timer_pending(y)' \/ expired' = y
        PROVE  TimerInUse(y)'
    <3>1. TimerInUse(y) /\ y # x
      BY <2>2, <1>s, <1>t, <1>e DEF IInv, TimerInv
    <3>2. y \in KTimer \/ y # current
      BY <3>1, <1>0, <1>x, TimerAssumption DEF TimerInUse, x
    <3> QED BY <3>1, <3>2, <1>0, <1>s, CurrentFacts DEF TimerInUse, IInv, TypeOK, Timer
  <2>3. ASSUME NEW t \in Thread, pc'[t] = "destroy"
        PROVE  arg'[t] = t \/ (arg'[t] \in KTimer /\ owner'[arg'[t]] = t)
    <3>1. t # current /\ pc[t] = "destroy" /\ arg'[t] = arg[t]
      BY <2>3, <1>0, <1>s, CurrentFacts DEF IInv, TypeOK
    <3>2. arg[t] = t \/ (arg[t] \in KTimer /\ owner[arg[t]] = t)
      BY <3>1 DEF IInv, TimerInv
    <3>3. ASSUME arg[t] \in KTimer, owner[arg[t]] = t
          PROVE  owner'[arg[t]] = t
      <4>1. arg[t] # x
        BY <3>1, <3>3, <1>0, <1>x, TimerAssumption
      <4> QED BY <3>3, <4>1, <1>s
    <3> QED BY <3>1, <3>2, <3>3
  <2>4. (pc[TimerThread] = "handler" => ~timer_pending(expired))'
    <3>1. pc'[TimerThread] = pc[TimerThread] /\ expired' = expired
      BY <1>0, <1>s, CurrentFacts DEF IInv, TypeOK
    <3>2. timer_pending(expired)' => timer_pending(expired)
      BY <3>1, <1>t DEF timer_pending
    <3> QED BY <3>1, <3>2 DEF IInv, TimerInv
  <2> QED BY <2>1, <2>2, <2>3, <2>4 DEF TimerInv, Timer
<1>6. JoinInv'
  BY <1>0, <1>s, CurrentFacts DEF IInv, TypeOK, JoinInv
<1>7. SleeperHasTimer'
  BY <1>0, <1>s, <1>t, <1>x, CurrentFacts, TimerAssumption DEF IInv, TypeOK, SleeperHasTimer
<1> QED BY <1>1, <1>2, <1>3, <1>4, <1>5, <1>6, <1>7 DEF IInv

LEMMA StepKtimerInit ==
  ASSUME IInv, NEW k \in KTimer, NEW d \in UInt, ktimer_init(k, d)
  PROVE  IInv'
<1>0. /\ current \in User /\ current \in Thread /\ k \in Timer
      /\ owner[k] = NULL /\ NULL \notin Thread /\ current # NULL
  BY CurrentFacts DEF ktimer_init, UserCode
<1>s. /\ owner' = [owner EXCEPT ![k] = current]
      /\ timeout' = [timeout EXCEPT ![k] = d]
      /\ running' = [running EXCEPT ![k] = FALSE]
      /\ UNCHANGED <<schedVars, jiffies, timers, expires, expired,
                     joiner, retval, pc, arg, ie>>
  BY DEF ktimer_init, timer_init_jiffies
<1>u. ~timer_pending(k) /\ expired # k
  BY <1>0 DEF IInv, TimerInv, TimerInUse
<1>1. TypeOK'
  BY <1>0, <1>s DEF IInv, TypeOK
<1>2. RunQueueExact'
  BY <1>s DEF IInv, RunQueueExact
<1>3. TimersExact'
  <2>1. \A x \in Timer : running'[x] <=> x = expired'
    BY <1>0, <1>s, <1>u DEF IInv, TypeOK, TimersExact
  <2> QED BY <2>1, <1>s DEF IInv, TimersExact, Timer
<1>4. PlaceInv'
  BY <1>s DEF IInv, PlaceInv
<1>5. TimerInv'
  BY <1>0, <1>s DEF IInv, TypeOK, TimerInv, TimerInUse, timer_pending, Timer
<1>6. JoinInv'
  BY <1>s DEF IInv, JoinInv
<1>7. SleeperHasTimer'
  BY <1>s DEF IInv, SleeperHasTimer, timer_pending
<1> QED BY <1>1, <1>2, <1>3, <1>4, <1>5, <1>6, <1>7 DEF IInv

LEMMA StepKtimerStart ==
  ASSUME IInv, NEW k \in KTimer, ktimer_start(k)
  PROVE  IInv'
<1>0. /\ current \in User /\ current \in Thread /\ k \in Timer
      /\ owner[k] = current /\ owner[k] # NULL /\ timeout[k] \in UInt
  BY CurrentFacts DEF ktimer_start, UserCode, IInv, TypeOK
<1>s. /\ timer_start(k, timeout[k])
      /\ ~timer_pending(k)
      /\ UNCHANGED <<schedVars, jiffies, timeout, running, expired, threadVars>>
  BY DEF ktimer_start
<1>t. /\ timers' \in Seq(Timer)
      /\ NoRepeats(timers')
      /\ expires' \in [Timer -> UInt]
      /\ \A y : timer_pending(y)' <=> timer_pending(y) \/ y = k
  BY <1>0, <1>s, TimerStartList DEF IInv
<1>1. TypeOK'
  BY <1>0, <1>s, <1>t DEF IInv, TypeOK
<1>2. RunQueueExact'
  BY <1>s DEF IInv, RunQueueExact
<1>3. TimersExact'
  BY <1>s, <1>t DEF IInv, TimersExact, Timer
<1>4. PlaceInv'
  BY <1>s DEF IInv, PlaceInv
<1>5. TimerInv'
  <2>1. expired # k
    BY <1>0 DEF ktimer_start, IInv, TimersExact
  <2>2. timer_pending(expired)' => timer_pending(expired)
    BY <2>1, <1>s, <1>t DEF timer_pending
  <2> QED BY <2>2, <1>0, <1>s, <1>t DEF IInv, TimerInv, TimerInUse, Timer
<1>6. JoinInv'
  BY <1>s DEF IInv, JoinInv
<1>7. SleeperHasTimer'
  BY <1>s, <1>t DEF IInv, SleeperHasTimer
<1> QED BY <1>1, <1>2, <1>3, <1>4, <1>5, <1>6, <1>7 DEF IInv

LEMMA StepFinish ==
  ASSUME IInv, thread_finish
  PROVE  /\ IInv'
         /\ state'[current] = "ZOMBIE" /\ pc'[current] = "dead"
         /\ \A t \in Thread : t # current =>
              /\ state'[t] = "FREE" <=> state[t] = "FREE"
              /\ state'[t] = "ZOMBIE" <=> state[t] = "ZOMBIE"
              /\ pc'[t] = pc[t]
         /\ UNCHANGED arg
<1> DEFINE c   == current
           j   == joiner[c]
           zst == Become("ZOMBIE")
           rq  == IF j = NULL THEN Leave ELSE WakeQueue(Leave, zst, j)
           st  == IF j = NULL THEN zst ELSE WakeState(zst, j)
<1>0. /\ c \in User /\ c \in Thread /\ pc[c] = "run" /\ c # Idle /\ c # TimerThread
      /\ state[c] = "RUNNING" /\ Idle \in Items(Leave)
      /\ j \in Thread \cup {NULL} /\ NULL \notin Thread
  BY CurrentFacts DEF thread_finish, UserCode, User, IInv, TypeOK
<1>j. j # NULL => j \in Thread /\ j # c /\ pc[j] = "join" /\ arg[j] = c /\ state[j] = "SLEEPING"
  BY <1>0 DEF IInv, JoinInv
<1>z. /\ QueueOK(Leave, zst)
      /\ zst[c] = "ZOMBIE"
      /\ \A t \in Thread : t # c => zst[t] = state[t]
  BY QueueLeave DEF IInv
<1>s. /\ schedule(rq, st)
      /\ retval' = [retval EXCEPT ![c] = Result]
      /\ pc' = [pc EXCEPT ![c] = IF rq = << >> THEN "panic" ELSE "dead"]
      /\ UNCHANGED <<timerVars, joiner, arg, ie, owner>>
  BY DEF thread_finish, Goto
<1> HIDE DEF zst, c
<1>w. /\ QueueOK(rq, st)
      /\ Idle \in Items(rq)
      /\ st[c] = "ZOMBIE"
      /\ j # NULL => st[j] = "READY"
      /\ \A t \in Thread : t # c /\ t # j => st[t] = state[t]
  <2>1. CASE j = NULL
    BY <2>1, <1>0, <1>z
  <2>2. CASE j # NULL
    <3>1. /\ QueueOK(WakeQueue(Leave, zst, j), WakeState(zst, j))
          /\ Items(Leave) \subseteq Items(WakeQueue(Leave, zst, j))
          /\ zst[j] = "SLEEPING" => WakeState(zst, j)[j] = "READY"
          /\ \A u \in Thread : u # j => WakeState(zst, j)[u] = zst[u]
      BY <2>2, <1>j, <1>z, QueueWake
    <3> QED BY <3>1, <2>2, <1>0, <1>j, <1>z
  <2> QED BY <2>1, <2>2
<1> HIDE DEF rq, st, j
<1>n. rq # << >>
  BY <1>w DEF Items
<1>1. /\ runnable' \in Seq(Thread)
      /\ current' \in Thread
      /\ state' \in [Thread -> ThreadState]
      /\ ticked' \in BOOLEAN
      /\ RunQueueExact'
      /\ SameLife(st, state')
  BY <1>w, <1>s, ScheduleStep DEF IInv
<1>p. /\ pc'[c] = "dead" /\ retval'[c] = Result
      /\ \A t \in Thread : t # c => pc'[t] = pc[t] /\ retval'[t] = retval[t]
      /\ UNCHANGED <<joiner, arg>>
  BY <1>0, <1>s, <1>n DEF IInv, TypeOK
<1>l. /\ state'[c] = "ZOMBIE"
      /\ j # NULL => state'[j] \in {"READY", "RUNNING"}
      /\ \A t \in Thread : t # c /\ t # j => SameLifeAt(state, state', t)
  BY <1>0, <1>1, <1>j, <1>w DEF SameLife
<1>2. TypeOK'
  BY <1>0, <1>1, <1>s, <1>n DEF IInv, TypeOK, Location
<1>3. TimersExact'
  BY <1>s, TimersUnchanged DEF IInv
<1>4. PlaceInv'
  <2>1. ASSUME NEW t \in User
        PROVE  UserPlace(state'[t], pc'[t], retval'[t])
    <3>1. CASE t = c
      BY <3>1, <1>p, <1>l
    <3>2. CASE t # c /\ t = j
      BY <3>2, <1>0, <1>p, <1>l, <1>j, CurrentFacts
    <3>3. CASE t # c /\ t # j
      BY <3>3, <1>1, <1>p, <1>l, CurrentFacts DEF IInv, PlaceInv
    <3> QED BY <3>1, <3>2, <3>3
  <2>2. Idle # j /\ TimerThread # j
    BY <1>0, <1>j, CurrentFacts DEF IInv, PlaceInv
  <2>3. /\ pc'[Idle] = "idle" /\ state'[Idle] \in {"READY", "RUNNING"}
        /\ pc'[TimerThread] = pc[TimerThread]
        /\ pc'[TimerThread] \in {"scan", "handler", "clear", "suspend"}
        /\ state'[TimerThread] \in {"READY", "RUNNING", "SLEEPING"}
        /\ state'[TimerThread] = "SLEEPING" => state[TimerThread] = "SLEEPING"
    BY <2>2, <1>0, <1>1, <1>p, <1>l, CurrentFacts DEF IInv, PlaceInv
  <2> QED BY <2>1, <2>3 DEF IInv, PlaceInv
<1>5. TimerInv'
  BY <1>0, <1>p, <1>s, CurrentFacts DEF IInv, TypeOK, TimerInv, TimerInUse, timer_pending, Timer
<1>6. JoinInv'
  <2>1. ASSUME NEW u \in Thread, pc'[u] = "join"
        PROVE  /\ arg'[u] \in User
               /\ arg'[u] # u
               /\ joiner'[arg'[u]] = u
               /\ state'[arg'[u]] # "FREE"
               /\ state'[u] = "SLEEPING" <=> state'[arg'[u]] # "ZOMBIE"
    <3>1. u # c /\ pc[u] = "join" /\ arg'[u] = arg[u]
      BY <2>1, <1>p
    <3>2. /\ arg[u] \in User /\ arg[u] \in Thread /\ arg[u] # u /\ joiner[arg[u]] = u
          /\ state[arg[u]] # "FREE"
          /\ state[u] = "SLEEPING" <=> state[arg[u]] # "ZOMBIE"
      BY <3>1, CurrentFacts DEF IInv, JoinInv
    <3>3. CASE u = j
      BY <3>1, <3>2, <3>3, <1>0, <1>j, <1>l, <1>p
    <3>4. CASE u # j
      <4>1. arg[u] # c
        BY <3>2, <3>4 DEF j
      <4>2. arg[u] # j \/ (state[arg[u]] = "SLEEPING" /\ state'[arg[u]] \in {"READY", "RUNNING"})
        BY <1>0, <1>j, <1>l, <3>2
      <4> QED BY <3>1, <3>2, <3>4, <4>1, <4>2, <1>l, <1>p
    <3> QED BY <3>3, <3>4
  <2>2. ASSUME NEW t \in Thread, joiner'[t] # NULL
        PROVE  pc'[joiner'[t]] = "join" /\ arg'[joiner'[t]] = t
    BY <2>2, <1>0, <1>p DEF IInv, TypeOK, JoinInv
  <2> QED BY <2>1, <2>2 DEF JoinInv
<1>7. SleeperHasTimer'
  BY <1>0, <1>j, <1>l, <1>p, <1>s, CurrentFacts DEF IInv, SleeperHasTimer, timer_pending
<1>8. IInv'
  BY <1>1, <1>2, <1>3, <1>4, <1>5, <1>6, <1>7 DEF IInv
<1>9. \A t \in Thread : t # c =>
        /\ state'[t] = "FREE" <=> state[t] = "FREE"
        /\ state'[t] = "ZOMBIE" <=> state[t] = "ZOMBIE"
  BY <1>0, <1>j, <1>l
<1> QED BY <1>8, <1>9, <1>l, <1>p DEF c

(* What thread_destroy of a zombie leaves, for both ways thread_join gets  *)
(* there: reaped by a thread that goes on running, whose pc is "run".      *)
LEMMA StepReap ==
  ASSUME IInv, NEW t \in User, thread_destroy(t), t # current, current \in User,
         state[t] = "ZOMBIE",
         \A j \in Thread : pc[j] = "join" /\ arg[j] = t => j = current,
         pc[current] \in {"run", "join"},
         pc[current] = "join" => arg[current] = t,
         pc' = [pc EXCEPT ![t] = "none", ![current] = "run"],
         arg' \in [Thread -> Timer \cup {NULL}],
         \A u \in Thread : u # current => arg'[u] = arg[u],
         UNCHANGED <<runnable, current, ticked, timerVars, ie, owner>>
  PROVE  IInv'
<1>0. /\ t \in Thread /\ current \in Thread /\ t # Idle /\ t # TimerThread
      /\ current # Idle /\ current # TimerThread /\ state[current] = "RUNNING"
      /\ pc[t] = "dead"
  BY CurrentFacts DEF User, IInv, PlaceInv
<1>p. /\ pc'[t] = "none" /\ pc'[current] = "run"
      /\ state'[t] = "FREE" /\ joiner'[t] = NULL
      /\ \A u \in Thread : u # t /\ u # current => pc'[u] = pc[u]
      /\ \A u \in Thread : u # t =>
            state'[u] = state[u] /\ joiner'[u] = joiner[u] /\ retval'[u] = retval[u]
  BY <1>0 DEF thread_destroy, IInv, TypeOK
<1>1. TypeOK'
  BY <1>0, CurrentFacts DEF IInv, TypeOK, thread_destroy, Location
<1>2. RunQueueExact'
  BY <1>0, <1>p DEF IInv, RunQueueExact
<1>3. TimersExact'
  BY TimersUnchanged DEF IInv
<1>4. PlaceInv'
  <2>1. ASSUME NEW u \in User
        PROVE  UserPlace(state'[u], pc'[u], retval'[u])
    <3>1. CASE u = t
      BY <3>1, <1>p
    <3>2. CASE u = current
      BY <3>2, <1>0, <1>p
    <3>3. CASE u # t /\ u # current
      <4>1. state'[u] = state[u] /\ pc'[u] = pc[u] /\ retval'[u] = retval[u]
        BY <3>3, <1>p, CurrentFacts
      <4>2. UserPlace(state[u], pc[u], retval[u])
        BY DEF IInv, PlaceInv
      <4> QED BY <4>1, <4>2
    <3> QED BY <3>1, <3>2, <3>3
  <2> QED BY <2>1, <1>0, <1>p, CurrentFacts DEF IInv, PlaceInv
<1>5. TimerInv'
  <2>1. pc'[TimerThread] = pc[TimerThread]
    BY <1>0, <1>p, CurrentFacts
  <2>2. ASSUME NEW x \in Timer, TimerInUse(x)
        PROVE  TimerInUse(x)'
    BY <2>2, <1>0, <1>p DEF TimerInUse, Timer
  <2>3. \A u \in Thread : pc'[u] = "destroy" =>
          arg'[u] = u \/ (arg'[u] \in KTimer /\ owner'[arg'[u]] = u)
    BY <1>0, <1>p DEF IInv, TimerInv
  <2>4. UNCHANGED timerVars
    OBVIOUS
  <2> QED BY <2>1, <2>2, <2>3, <2>4 DEF IInv, TimerInv, timer_pending, Timer
<1>6. JoinInv'
  <2>1. ASSUME NEW j \in Thread, pc'[j] = "join"
        PROVE  /\ arg'[j] \in User
               /\ arg'[j] # j
               /\ joiner'[arg'[j]] = j
               /\ state'[arg'[j]] # "FREE"
               /\ state'[j] = "SLEEPING" <=> state'[arg'[j]] # "ZOMBIE"
    <3>1. j # t /\ j # current /\ pc[j] = "join" /\ arg'[j] = arg[j] /\ arg[j] # t
      BY <2>1, <1>0, <1>p
    <3> QED BY <3>1, <1>p, CurrentFacts DEF IInv, JoinInv
  <2>2. ASSUME NEW u \in Thread, joiner'[u] # NULL
        PROVE  pc'[joiner'[u]] = "join" /\ arg'[joiner'[u]] = u
    <3>1. u # t /\ joiner'[u] = joiner[u]
      BY <2>2, <1>p
    <3>2. joiner[u] \in Thread /\ pc[joiner[u]] = "join" /\ arg[joiner[u]] = u
      BY <2>2, <3>1 DEF IInv, TypeOK, JoinInv
    <3>3. joiner[u] # current /\ joiner[u] # t
      BY <3>1, <3>2, <1>0
    <3> QED BY <3>1, <3>2, <3>3, <1>p
  <2> QED BY <2>1, <2>2 DEF JoinInv
<1>7. SleeperHasTimer'
  <2>1. ASSUME NEW u \in Thread, pc'[u] = "sleep", state'[u] = "SLEEPING"
        PROVE  timer_pending(u)' \/ (expired' = u /\ pc'[TimerThread] = "handler")
    <3>1. u # t /\ u # current
      BY <2>1, <1>p
    <3>2. pc[u] = "sleep" /\ state[u] = "SLEEPING"
      BY <2>1, <3>1, <1>p
    <3>3. timer_pending(u) \/ (expired = u /\ pc[TimerThread] = "handler")
      BY <3>2 DEF IInv, SleeperHasTimer
    <3>4. pc'[TimerThread] = pc[TimerThread] /\ timers' = timers /\ expired' = expired
      BY <1>0, <1>p, CurrentFacts
    <3> QED BY <3>3, <3>4 DEF timer_pending
  <2> QED BY <2>1 DEF SleeperHasTimer
<1> QED BY <1>1, <1>2, <1>3, <1>4, <1>5, <1>6, <1>7 DEF IInv

LEMMA StepJoinZombie ==
  ASSUME IInv, NEW t \in User, thread_join_zombie(t)
  PROVE  IInv'
<1>1. /\ current \in User /\ current \in Thread /\ t \in Thread /\ pc[current] = "run"
      /\ t # current /\ state[t] = "ZOMBIE" /\ joiner[t] = NULL /\ NULL \notin Thread
      /\ thread_destroy(t)
      /\ UNCHANGED <<runnable, current, ticked, timerVars, arg, ie, owner>>
  BY CurrentFacts DEF thread_join_zombie, thread_can_join, UserCode
<1>2. \A j \in Thread : pc[j] = "join" /\ arg[j] = t => j = current
  BY <1>1 DEF IInv, JoinInv
<1>3. pc' = [pc EXCEPT ![t] = "none", ![current] = "run"]
  BY <1>1 DEF thread_join_zombie, IInv, TypeOK
<1>4. arg' \in [Thread -> Timer \cup {NULL}] /\ \A u \in Thread : arg'[u] = arg[u]
  BY <1>1 DEF IInv, TypeOK
<1> QED BY <1>1, <1>2, <1>3, <1>4, StepReap

LEMMA StepJoinReap ==
  ASSUME IInv, thread_join_reap
  PROVE  IInv'
<1> DEFINE t == arg[current]
<1>1. /\ current \in User /\ current \in Thread /\ pc[current] = "join"
      /\ state[current] = "RUNNING"
  BY CurrentFacts DEF thread_join_reap, IInv, PlaceInv, User
<1>2. t \in User /\ t # current /\ state[t] = "ZOMBIE" /\ joiner[t] = current
  BY <1>1 DEF IInv, JoinInv
<1>3. /\ thread_destroy(t)
      /\ pc' = [pc EXCEPT ![t] = "none", ![current] = "run"]
      /\ arg' = [arg EXCEPT ![current] = NULL]
      /\ UNCHANGED <<runnable, current, ticked, timerVars, ie, owner>>
  BY DEF thread_join_reap, SetArg
<1> HIDE DEF t
<1>4. \A j \in Thread : pc[j] = "join" /\ arg[j] = t => j = current
  BY <1>2 DEF IInv, JoinInv
<1>5. /\ arg' \in [Thread -> Timer \cup {NULL}]
      /\ \A u \in Thread : u # current => arg'[u] = arg[u]
      /\ pc[current] = "join" => arg[current] = t
  BY <1>1, <1>3 DEF IInv, TypeOK, t
<1> QED BY <1>1, <1>2, <1>3, <1>4, <1>5, StepReap

LEMMA StepJoinWait ==
  ASSUME IInv, NEW t \in User, thread_join_wait(t)
  PROVE  IInv'
<1> DEFINE c  == current
           st == Become("SLEEPING")
<1>0. /\ c \in User /\ c \in Thread /\ pc[c] = "run" /\ c # Idle /\ c # TimerThread
      /\ state[c] = "RUNNING" /\ Idle \in Items(Leave)
      /\ t \in Thread /\ t \in Timer /\ t # c /\ joiner[t] = NULL /\ c # NULL
      /\ state[t] # "ZOMBIE" /\ state[t] # "FREE"
  BY CurrentFacts DEF thread_join_wait, thread_can_join, Published, UserCode, User
<1>q. /\ QueueOK(Leave, st)
      /\ st[c] = "SLEEPING"
      /\ \A u \in Thread : u # c => st[u] = state[u]
  BY QueueLeave DEF IInv
<1>s. /\ schedule(Leave, st)
      /\ joiner' = [joiner EXCEPT ![t] = c]
      /\ pc' = [pc EXCEPT ![c] = "join"]
      /\ arg' = [arg EXCEPT ![c] = t]
      /\ UNCHANGED <<timerVars, retval, ie, owner>>
  BY DEF thread_join_wait, Goto, SetArg
<1> HIDE DEF st, c
<1>1. /\ runnable' \in Seq(Thread)
      /\ current' \in Thread
      /\ state' \in [Thread -> ThreadState]
      /\ ticked' \in BOOLEAN
      /\ RunQueueExact'
      /\ SameLife(st, state')
  BY <1>0, <1>q, <1>s, ScheduleStep DEF IInv
<1>p. /\ pc'[c] = "join" /\ arg'[c] = t /\ joiner'[t] = c
      /\ \A u \in Thread : u # c => pc'[u] = pc[u] /\ arg'[u] = arg[u]
      /\ \A u \in Thread : u # t => joiner'[u] = joiner[u]
  BY <1>0, <1>s DEF IInv, TypeOK
<1>l. /\ state'[c] = "SLEEPING"
      /\ \A u \in Thread : u # c => SameLifeAt(state, state', u)
  BY <1>0, <1>1, <1>q DEF SameLife
<1>2. TypeOK'
  BY <1>0, <1>1, <1>s DEF IInv, TypeOK, Location
<1>3. TimersExact'
  BY <1>s, TimersUnchanged DEF IInv
<1>4. PlaceInv'
  BY <1>0, <1>1, <1>l, <1>p, <1>s, CurrentFacts, PlaceKeep
<1>5. TimerInv'
  BY <1>0, <1>p, <1>s, CurrentFacts DEF IInv, TypeOK, TimerInv, TimerInUse, timer_pending, Timer
<1>6. JoinInv'
  <2>1. ASSUME NEW j \in Thread, pc'[j] = "join"
        PROVE  /\ arg'[j] \in User
               /\ arg'[j] # j
               /\ joiner'[arg'[j]] = j
               /\ state'[arg'[j]] # "FREE"
               /\ state'[j] = "SLEEPING" <=> state'[arg'[j]] # "ZOMBIE"
    <3>1. CASE j = c
      BY <3>1, <1>0, <1>p, <1>l
    <3>2. CASE j # c
      <4>1. /\ pc[j] = "join" /\ arg'[j] = arg[j] /\ arg[j] \in User /\ arg[j] \in Thread
            /\ arg[j] # j /\ joiner[arg[j]] = j /\ state[arg[j]] # "FREE"
            /\ state[j] = "SLEEPING" <=> state[arg[j]] # "ZOMBIE"
        BY <2>1, <3>2, <1>p, CurrentFacts DEF IInv, JoinInv
      <4>2. arg[j] # t
        BY <4>1, <1>0, CurrentFacts
      <4>3. state'[arg[j]] = "FREE" <=> state[arg[j]] = "FREE"
        BY <4>1, <1>0, <1>l
      <4>4. state'[arg[j]] = "ZOMBIE" <=> state[arg[j]] = "ZOMBIE"
        BY <4>1, <1>0, <1>l
      <4> QED BY <4>1, <4>2, <4>3, <4>4, <3>2, <1>p, <1>l
    <3> QED BY <3>1, <3>2
  <2>2. ASSUME NEW u \in Thread, joiner'[u] # NULL
        PROVE  pc'[joiner'[u]] = "join" /\ arg'[joiner'[u]] = u
    <3>1. CASE u = t
      BY <3>1, <1>p
    <3>2. CASE u # t
      <4>1. joiner'[u] = joiner[u] /\ joiner[u] \in Thread
            /\ pc[joiner[u]] = "join" /\ arg[joiner[u]] = u
        BY <2>2, <3>2, <1>p DEF IInv, TypeOK, JoinInv
      <4> QED BY <4>1, <1>0, <1>p
    <3> QED BY <3>1, <3>2
  <2> QED BY <2>1, <2>2 DEF JoinInv
<1>7. SleeperHasTimer'
  BY <1>0, <1>l, <1>p, <1>s, CurrentFacts DEF IInv, SleeperHasTimer, timer_pending
<1> QED BY <1>1, <1>2, <1>3, <1>4, <1>5, <1>6, <1>7 DEF IInv

LEMMA StepScan ==
  ASSUME IInv, timer_thread_scan
  PROVE  IInv'
<1> DEFINE x == FirstExpired
<1>0. /\ current = TimerThread /\ TimerThread \in Thread /\ TimerThread \notin User
      /\ pc[TimerThread] = "scan" /\ state[TimerThread] = "RUNNING"
  BY CurrentFacts DEF timer_thread_scan, User
<1>x. x \in Timer /\ x \in Items(timers) /\ x # NULL /\ timer_pending(x)
  BY FirstExpiredListed, ConnectedIsItem, TimerAssumption DEF timer_thread_scan, IInv, timer_pending
<1>s. /\ timer_remove(x)
      /\ expired' = x
      /\ running' = [running EXCEPT ![x] = TRUE]
      /\ pc' = [pc EXCEPT ![TimerThread] = "handler"]
      /\ UNCHANGED <<schedVars, jiffies, timeout, expires, joiner, retval, arg, ie, owner>>
  BY <1>0 DEF timer_thread_scan, Goto
<1> HIDE DEF x
<1>t. /\ timers' \in Seq(Timer)
      /\ NoRepeats(timers')
      /\ \A y : timer_pending(y)' <=> timer_pending(y) /\ y # x
  BY <1>s, TimerRemoveList DEF IInv
<1>e. expired = NULL
  BY <1>0 DEF IInv, TimerInv
<1>1. TypeOK'
  BY <1>0, <1>s, <1>t, <1>x DEF IInv, TypeOK, Location
<1>2. RunQueueExact'
  BY <1>s DEF IInv, RunQueueExact
<1>3. TimersExact'
  <2>1. ASSUME NEW y \in Timer PROVE running'[y] <=> y = expired'
    <3>1. ~running[y]
      BY <1>e, TimerAssumption DEF IInv, TimersExact
    <3> QED BY <3>1, <1>s, <1>x DEF IInv, TypeOK
  <2> QED BY <2>1, <1>t DEF TimersExact, Timer
<1>p. /\ pc'[TimerThread] = "handler"
      /\ \A t \in Thread : t # TimerThread => pc'[t] = pc[t]
  BY <1>0, <1>s DEF IInv, TypeOK
<1>4. PlaceInv'
  BY <1>0, <1>p, <1>s, CurrentFacts DEF IInv, PlaceInv, User
<1>5. TimerInv'
  <2>1. (expired # NULL <=> pc[TimerThread] \in {"handler", "clear"})'
    BY <1>p, <1>s, <1>x
  <2>2. ASSUME NEW y \in Timer, timer_pending(y)' \/ expired' = y
        PROVE  TimerInUse(y)'
    <3>1. TimerInUse(y)
      BY <2>2, <1>s, <1>t, <1>x DEF IInv, TimerInv
    <3> QED BY <3>1, <1>0, <1>p, <1>s DEF TimerInUse, Timer
  <2>3. \A t \in Thread : pc'[t] = "destroy" =>
          arg'[t] = t \/ (arg'[t] \in KTimer /\ owner'[arg'[t]] = t)
    BY <1>0, <1>p, <1>s DEF IInv, TimerInv
  <2>4. ~timer_pending(expired)'
    <3>1. ~link_connected(timers', x)
      BY <1>t DEF timer_pending
    <3> QED BY <3>1, <1>s DEF timer_pending
  <2> QED BY <2>1, <2>2, <2>3, <2>4 DEF TimerInv, Timer
<1>6. JoinInv'
  BY <1>0, <1>s, CurrentFacts DEF IInv, TypeOK, JoinInv
<1>7. SleeperHasTimer'
  BY <1>0, <1>p, <1>s, <1>t, <1>e, TimerAssumption DEF IInv, SleeperHasTimer, Timer
<1> QED BY <1>1, <1>2, <1>3, <1>4, <1>5, <1>6, <1>7 DEF IInv

(* The timer thread moves on between two sections without changing timers. *)
LEMMA StepNone ==
  ASSUME IInv, timer_thread_none
  PROVE  IInv'
<1>0. /\ current = TimerThread /\ TimerThread \in Thread /\ TimerThread \notin User
      /\ pc[TimerThread] = "scan" /\ state[TimerThread] = "RUNNING"
  BY CurrentFacts DEF timer_thread_none, User
<1>s. /\ pc' = [pc EXCEPT ![TimerThread] = "suspend"]
      /\ UNCHANGED <<schedVars, timerVars, joiner, retval, arg, ie, owner>>
  BY <1>0 DEF timer_thread_none, Goto
<1>p. /\ pc'[TimerThread] = "suspend"
      /\ \A t \in Thread : t # TimerThread => pc'[t] = pc[t]
  BY <1>0, <1>s DEF IInv, TypeOK
<1>1. TypeOK'
  BY <1>0, <1>s DEF IInv, TypeOK, Location
<1>2. RunQueueExact'
  BY <1>s DEF IInv, RunQueueExact
<1>3. TimersExact'
  BY <1>s, TimersUnchanged DEF IInv
<1>4. PlaceInv'
  BY <1>0, <1>p, <1>s, CurrentFacts DEF IInv, PlaceInv, User
<1>5. TimerInv'
  BY <1>0, <1>p, <1>s DEF IInv, TimerInv, TimerInUse, timer_pending, Timer
<1>6. JoinInv'
  BY <1>0, <1>s, CurrentFacts DEF IInv, TypeOK, JoinInv
<1>7. SleeperHasTimer'
  BY <1>0, <1>p, <1>s DEF IInv, SleeperHasTimer, timer_pending
<1> QED BY <1>1, <1>2, <1>3, <1>4, <1>5, <1>6, <1>7 DEF IInv

LEMMA StepTimeoutHandler ==
  ASSUME IInv, thread_timeout_handler
  PROVE  IInv'
<1> DEFINE x == expired
<1>0. /\ current = TimerThread /\ TimerThread \in Thread /\ TimerThread \notin User
      /\ pc[TimerThread] = "handler" /\ state[TimerThread] = "RUNNING"
      /\ x \in Thread /\ x \in Timer /\ Idle \in Thread /\ Idle # TimerThread
  BY CurrentFacts DEF thread_timeout_handler, User
<1>x. pc[x] \in {"sleep", "destroy"} /\ x \in User
  BY <1>0, TimerAssumption DEF IInv, TimerInv, TimerInUse, PlaceInv, User
<1>q. /\ QueueOK(runnable', state')
      /\ state'[x] # "SLEEPING"
      /\ state[x] # "SLEEPING" => state'[x] = state[x]
      /\ state[x] = "SLEEPING" => state'[x] = "READY"
      /\ \A u \in Thread : u # x => state'[u] = state[u]
  <2>1. runnable' = WakeQueue(runnable, state, x) /\ state' = WakeState(state, x)
    BY DEF thread_timeout_handler
  <2>2. QueueOK(runnable, state)
    BY QueueNow DEF IInv
  <2> HIDE DEF x
  <2>3. /\ QueueOK(WakeQueue(runnable, state, x), WakeState(state, x))
        /\ WakeState(state, x)[x] # "SLEEPING"
        /\ state[x] # "SLEEPING" => WakeState(state, x)[x] = state[x]
        /\ state[x] = "SLEEPING" => WakeState(state, x)[x] = "READY"
        /\ \A u \in Thread : u # x => WakeState(state, x)[u] = state[u]
    BY <2>2, <1>0, QueueWake
  <2> QED BY <2>1, <2>3
<1>s. /\ pc' = [pc EXCEPT ![TimerThread] = "clear"]
      /\ UNCHANGED <<current, ticked, timerVars, joiner, retval, arg, ie, owner>>
  BY <1>0 DEF thread_timeout_handler, Goto
<1>p. /\ pc'[TimerThread] = "clear"
      /\ \A t \in Thread : t # TimerThread => pc'[t] = pc[t]
  BY <1>0, <1>s DEF IInv, TypeOK
<1>1. TypeOK'
  BY <1>0, <1>q, <1>s DEF IInv, TypeOK, QueueOK, Location
<1>2. RunQueueExact'
  BY <1>0, <1>q, <1>s DEF IInv, RunQueueExact, QueueOK
<1>3. TimersExact'
  BY <1>s, TimersUnchanged DEF IInv
<1>4. PlaceInv'
  <2>1. x # Idle /\ x # TimerThread
    BY <1>x DEF User
  <2>2. ASSUME NEW t \in User
        PROVE  UserPlace(state'[t], pc'[t], retval'[t])
    <3>1. pc'[t] = pc[t] /\ retval'[t] = retval[t] /\ t \in Thread
      BY <1>0, <1>p, <1>s, CurrentFacts
    <3>2. UserPlace(state[t], pc[t], retval[t])
      BY DEF IInv, PlaceInv
    <3> QED BY <3>1, <3>2, <1>q, <1>x
  <2> QED BY <2>1, <2>2, <1>0, <1>p, <1>q DEF IInv, PlaceInv
<1>5. TimerInv'
  BY <1>0, <1>p, <1>s DEF IInv, TimerInv, TimerInUse, timer_pending, Timer
<1>6. JoinInv'
  <2>1. ASSUME NEW j \in Thread, pc'[j] = "join"
        PROVE  /\ arg'[j] \in User
               /\ arg'[j] # j
               /\ joiner'[arg'[j]] = j
               /\ state'[arg'[j]] # "FREE"
               /\ state'[j] = "SLEEPING" <=> state'[arg'[j]] # "ZOMBIE"
    <3>1. pc[j] = "join" /\ j # x /\ arg'[j] = arg[j]
      BY <2>1, <1>0, <1>p, <1>x, <1>s
    <3>2. /\ arg[j] \in User /\ arg[j] \in Thread /\ arg[j] # j /\ joiner[arg[j]] = j
          /\ state[arg[j]] # "FREE"
          /\ state[j] = "SLEEPING" <=> state[arg[j]] # "ZOMBIE"
      BY <3>1, CurrentFacts DEF IInv, JoinInv
    <3>3. /\ state'[arg[j]] = "FREE" <=> state[arg[j]] = "FREE"
          /\ state'[arg[j]] = "ZOMBIE" <=> state[arg[j]] = "ZOMBIE"
      BY <3>2, <1>q
    <3> QED BY <3>1, <3>2, <3>3, <1>q, <1>s
  <2>2. ASSUME NEW u \in Thread, joiner'[u] # NULL
        PROVE  pc'[joiner'[u]] = "join" /\ arg'[joiner'[u]] = u
    <3>1. joiner[u] \in Thread /\ pc[joiner[u]] = "join" /\ arg[joiner[u]] = u
      BY <2>2, <1>s DEF IInv, TypeOK, JoinInv
    <3> QED BY <3>1, <1>0, <1>p, <1>s
  <2> QED BY <2>1, <2>2 DEF JoinInv
<1>7. SleeperHasTimer'
  BY <1>0, <1>p, <1>q, <1>s DEF IInv, SleeperHasTimer, timer_pending
<1> QED BY <1>1, <1>2, <1>3, <1>4, <1>5, <1>6, <1>7 DEF IInv

LEMMA StepKtimerHandler ==
  ASSUME IInv, ktimer_handler
  PROVE  IInv'
<1>0. /\ current = TimerThread /\ TimerThread \in Thread /\ TimerThread \notin User
      /\ pc[TimerThread] = "handler" /\ state[TimerThread] = "RUNNING"
      /\ expired \in KTimer /\ expired \in Timer /\ expired \notin Thread
      /\ timeout[expired] \in UInt
  BY CurrentFacts, TimerAssumption DEF ktimer_handler, User, IInv, TypeOK
<1>s. /\ pc' = [pc EXCEPT ![TimerThread] = "clear"]
      /\ UNCHANGED <<schedVars, jiffies, timeout, running, expired,
                     joiner, retval, arg, ie, owner>>
  BY <1>0 DEF ktimer_handler, Goto
<1>p. /\ pc'[TimerThread] = "clear"
      /\ \A t \in Thread : t # TimerThread => pc'[t] = pc[t]
  BY <1>0, <1>s DEF IInv, TypeOK
<1>t. /\ timers' \in Seq(Timer)
      /\ NoRepeats(timers')
      /\ expires' \in [Timer -> UInt]
      /\ \A y : timer_pending(y) => timer_pending(y)'
      /\ \A y : timer_pending(y)' => timer_pending(y) \/ y = expired
  <2>1. CASE timer_start(expired, timeout[expired])
    <3>1. ~timer_pending(expired)
      BY <1>0 DEF IInv, TimerInv
    <3> QED BY <2>1, <3>1, <1>0, TimerStartList DEF IInv
  <2>2. CASE UNCHANGED <<timers, expires>>
    BY <2>2 DEF IInv, TypeOK, TimersExact, timer_pending
  <2> QED BY <2>1, <2>2 DEF ktimer_handler
<1>1. TypeOK'
  BY <1>0, <1>s, <1>t DEF IInv, TypeOK, Location
<1>2. RunQueueExact'
  BY <1>s DEF IInv, RunQueueExact
<1>3. TimersExact'
  BY <1>s, <1>t DEF IInv, TimersExact, Timer
<1>4. PlaceInv'
  BY <1>0, <1>p, <1>s, CurrentFacts DEF IInv, PlaceInv, User
<1>5. TimerInv'
  BY <1>0, <1>p, <1>s, <1>t DEF IInv, TimerInv, TimerInUse, Timer
<1>6. JoinInv'
  BY <1>0, <1>s, CurrentFacts DEF IInv, TypeOK, JoinInv
<1>7. SleeperHasTimer'
  BY <1>0, <1>p, <1>s, <1>t DEF IInv, SleeperHasTimer
<1> QED BY <1>1, <1>2, <1>3, <1>4, <1>5, <1>6, <1>7 DEF IInv

LEMMA StepClear ==
  ASSUME IInv, timer_thread_clear
  PROVE  IInv'
<1>0. /\ current = TimerThread /\ TimerThread \in Thread /\ TimerThread \notin User
      /\ pc[TimerThread] = "clear" /\ state[TimerThread] = "RUNNING"
      /\ expired \in Timer
  BY CurrentFacts DEF timer_thread_clear, User, IInv, TimerInv, TypeOK
<1>s. /\ pc' = [pc EXCEPT ![TimerThread] = "scan"]
      /\ running' = [running EXCEPT ![expired] = FALSE]
      /\ expired' = NULL
      /\ UNCHANGED <<schedVars, jiffies, timers, timeout, expires,
                     joiner, retval, arg, ie, owner>>
  BY <1>0 DEF timer_thread_clear, Goto
<1>p. /\ pc'[TimerThread] = "scan"
      /\ \A t \in Thread : t # TimerThread => pc'[t] = pc[t]
  BY <1>0, <1>s DEF IInv, TypeOK
<1>1. TypeOK'
  BY <1>0, <1>s DEF IInv, TypeOK, Location
<1>2. RunQueueExact'
  BY <1>s DEF IInv, RunQueueExact
<1>3. TimersExact'
  <2>1. ASSUME NEW y \in Timer PROVE running'[y] <=> y = expired'
    <3>1. ~running'[y]
      BY <1>0, <1>s DEF IInv, TypeOK, TimersExact
    <3> QED BY <3>1, <1>s, TimerAssumption
  <2> QED BY <2>1, <1>s DEF IInv, TimersExact, Timer
<1>4. PlaceInv'
  BY <1>0, <1>p, <1>s, CurrentFacts DEF IInv, PlaceInv, User
<1>5. TimerInv'
  BY <1>0, <1>p, <1>s, TimerAssumption DEF IInv, TimerInv, TimerInUse, timer_pending, Timer
<1>6. JoinInv'
  BY <1>0, <1>s, CurrentFacts DEF IInv, TypeOK, JoinInv
<1>7. SleeperHasTimer'
  BY <1>0, <1>p, <1>s DEF IInv, SleeperHasTimer, timer_pending
<1> QED BY <1>1, <1>2, <1>3, <1>4, <1>5, <1>6, <1>7 DEF IInv

LEMMA StepTimerSuspend ==
  ASSUME IInv, timer_thread_suspend
  PROVE  IInv' /\ (\A t \in User : SameLifeAt(state, state', t))
<1> DEFINE st == Become("SLEEPING")
<1>0. /\ current = TimerThread /\ TimerThread \in Thread /\ TimerThread \notin User
      /\ pc[TimerThread] = "suspend" /\ state[TimerThread] = "RUNNING"
      /\ TimerThread # Idle /\ Idle \in Thread /\ Idle \in Items(Leave)
      /\ expired = NULL
  BY CurrentFacts DEF timer_thread_suspend, User, IInv, TimerInv
<1>q. /\ QueueOK(Leave, st)
      /\ st[TimerThread] = "SLEEPING"
      /\ \A t \in Thread : t # TimerThread => st[t] = state[t]
  BY <1>0, QueueLeave DEF IInv
<1>s. /\ schedule(Leave, st)
      /\ pc' = [pc EXCEPT ![TimerThread] = "scan"]
      /\ UNCHANGED <<timerVars, joiner, retval, arg, ie, owner>>
  BY <1>0 DEF timer_thread_suspend, Goto
<1> HIDE DEF st
<1>r. /\ runnable' \in Seq(Thread)
      /\ current' \in Thread
      /\ state' \in [Thread -> ThreadState]
      /\ ticked' \in BOOLEAN
      /\ RunQueueExact'
      /\ SameLife(st, state')
  BY <1>0, <1>q, <1>s, ScheduleStep DEF IInv
<1>p. /\ pc'[TimerThread] = "scan"
      /\ \A t \in Thread : t # TimerThread => pc'[t] = pc[t]
  BY <1>0, <1>s DEF IInv, TypeOK
<1>l. /\ state'[TimerThread] = "SLEEPING" /\ state'[Idle] \in {"READY", "RUNNING"}
      /\ \A t \in User : SameLifeAt(state, state', t)
      /\ \A t \in User : t \in Thread /\ t # TimerThread
      /\ \A t \in User : state'[t] \in ThreadState
  BY <1>0, <1>q, <1>r, CurrentFacts DEF SameLife, IInv, PlaceInv
<1>1. TypeOK'
  BY <1>0, <1>r, <1>s DEF IInv, TypeOK, Location
<1>2. RunQueueExact'
  BY <1>r
<1>3. TimersExact'
  BY <1>s, TimersUnchanged DEF IInv
<1>4. PlaceInv'
  <2>1. ASSUME NEW t \in User
        PROVE  UserPlace(state'[t], pc'[t], retval'[t])
    <3>1. pc'[t] = pc[t] /\ retval'[t] = retval[t]
      BY <1>l, <1>p, <1>s
    <3>2. UserPlace(state[t], pc[t], retval[t])
      BY DEF IInv, PlaceInv
    <3> QED BY <3>1, <3>2, <1>l
  <2> QED BY <2>1, <1>0, <1>l, <1>p DEF IInv, PlaceInv
<1>5. TimerInv'
  BY <1>0, <1>p, <1>s DEF IInv, TimerInv, TimerInUse, timer_pending, Timer
<1>6. JoinInv'
  <2>1. ASSUME NEW j \in Thread, pc[j] = "join"
        PROVE  /\ j \in User /\ arg[j] \in User
               /\ state'[arg[j]] # "FREE"
               /\ state'[j] = "SLEEPING" <=> state'[arg[j]] # "ZOMBIE"
    <3>1. j \in User
      BY <2>1 DEF IInv, PlaceInv, User
    <3>2. /\ arg[j] \in User /\ state[arg[j]] # "FREE"
          /\ state[j] = "SLEEPING" <=> state[arg[j]] # "ZOMBIE"
      BY <2>1 DEF IInv, JoinInv
    <3> QED BY <3>1, <3>2, <1>l
  <2> QED BY <2>1, <1>0, <1>l, <1>p, <1>s DEF IInv, TypeOK, JoinInv
<1>7. SleeperHasTimer'
  <2>1. ASSUME NEW t \in Thread, pc'[t] = "sleep", state'[t] = "SLEEPING"
        PROVE  timer_pending(t)'
    <3>1. pc[t] = "sleep" /\ t \in User
      BY <2>1, <1>p DEF IInv, PlaceInv, User
    <3>2. timer_pending(t)
      BY <2>1, <3>1, <1>0, <1>l DEF IInv, SleeperHasTimer
    <3> QED BY <3>2, <1>s DEF timer_pending
  <2> QED BY <2>1 DEF SleeperHasTimer
<1> QED BY <1>l, <1>1, <1>2, <1>3, <1>4, <1>5, <1>6, <1>7 DEF IInv

(* The timer interrupt: the clock, timers_run and perhaps a switch. *)
LEMMA StepTick ==
  ASSUME IInv, sched_timer
  PROVE  IInv' /\ (\A t \in User : SameLifeAt(state, state', t))
<1> DEFINE rq == timers_run(jiffies')[1]
           st == timers_run(jiffies')[2]
<1>0. /\ TimerThread \in Thread /\ TimerThread \notin User /\ current \in Thread
      /\ TimerThread # Idle /\ Idle \in Thread /\ Idle \in Items(runnable)
  BY CurrentFacts DEF User
<1>w. /\ QueueOK(rq, st)
      /\ Idle \in Items(rq)
      /\ st[TimerThread] = state[TimerThread]
           \/ (state[TimerThread] = "SLEEPING" /\ st[TimerThread] = "READY")
      /\ \A t \in Thread : t # TimerThread => st[t] = state[t]
  <2> DEFINE due == \E i \in 1 .. Len(timers) : IsExpired(timers[i], jiffies')
  <2>0. QueueOK(runnable, state)
    BY QueueNow DEF IInv
  <2>1. CASE due
    <3>1. rq = WakeQueue(runnable, state, TimerThread) /\ st = WakeState(state, TimerThread)
      BY <2>1 DEF timers_run
    <3>2. /\ QueueOK(WakeQueue(runnable, state, TimerThread), WakeState(state, TimerThread))
          /\ Items(runnable) \subseteq Items(WakeQueue(runnable, state, TimerThread))
          /\ state[TimerThread] # "SLEEPING" =>
               WakeState(state, TimerThread)[TimerThread] = state[TimerThread]
          /\ state[TimerThread] = "SLEEPING" =>
               WakeState(state, TimerThread)[TimerThread] = "READY"
          /\ \A u \in Thread : u # TimerThread => WakeState(state, TimerThread)[u] = state[u]
      BY <2>0, <1>0, QueueWake
    <3> HIDE DEF rq, st
    <3> QED BY <3>1, <3>2, <1>0
  <2>2. CASE ~due
    <3>1. rq = runnable /\ st = state
      BY <2>2 DEF timers_run
    <3> HIDE DEF rq, st
    <3> QED BY <3>1, <2>0, <1>0
  <2> QED BY <2>1, <2>2
<1>s. /\ jiffies' = JiffiesInc
      /\ Preempt(rq, st)
      /\ UNCHANGED <<timers, timeout, expires, running, expired, threadVars>>
  BY DEF sched_timer
<1> HIDE DEF rq, st
<1>r. /\ runnable' \in Seq(Thread)
      /\ current' \in Thread
      /\ state' \in [Thread -> ThreadState]
      /\ ticked' \in BOOLEAN
      /\ RunQueueExact'
      /\ SameLife(st, state')
  <2>1. CASE ticked' = TRUE /\ runnable' = rq /\ state' = st /\ UNCHANGED current
    <3>1. \A t \in Thread : st[t] = "RUNNING" <=> t = current
      BY <1>w, <1>0 DEF IInv, RunQueueExact
    <3> QED BY <2>1, <3>1, <1>0, <1>w DEF QueueOK, RunQueueExact, SameLife
  <2>2. CASE schedule(rq, st)
    BY <2>2, <1>w, ScheduleStep DEF IInv
  <2> QED BY <2>1, <2>2, <1>s DEF Preempt
<1>l. /\ state'[TimerThread] \in {"READY", "RUNNING", "SLEEPING"}
      /\ state'[TimerThread] = "SLEEPING" => state[TimerThread] = "SLEEPING"
      /\ state'[Idle] \in {"READY", "RUNNING"}
      /\ \A t \in User : SameLifeAt(state, state', t)
      /\ \A t \in User : t \in Thread /\ t # TimerThread
      /\ \A t \in User : state'[t] \in ThreadState
  BY <1>0, <1>w, <1>r, CurrentFacts DEF SameLife, IInv, PlaceInv
<1>1. TypeOK'
  <2>1. jiffies' \in UInt
    <3>1. jiffies + 1 \in Nat
      BY DEF IInv, TypeOK, UInt
    <3> QED BY <3>1, <1>s, UintType DEF JiffiesInc, IInv, TypeOK
  <2> QED BY <2>1, <1>r, <1>s DEF IInv, TypeOK
<1>2. RunQueueExact'
  BY <1>r
<1>3. TimersExact'
  BY <1>s, TimersUnchanged DEF IInv
<1>4. PlaceInv'
  <2>1. ASSUME NEW t \in User
        PROVE  UserPlace(state'[t], pc'[t], retval'[t])
    <3>1. UserPlace(state[t], pc[t], retval[t])
      BY DEF IInv, PlaceInv
    <3> QED BY <3>1, <1>l, <1>s
  <2> QED BY <2>1, <1>0, <1>l, <1>s DEF IInv, PlaceInv
<1>5. TimerInv'
  BY <1>s DEF IInv, TimerInv, TimerInUse, timer_pending
<1>6. JoinInv'
  <2>1. ASSUME NEW j \in Thread, pc[j] = "join"
        PROVE  /\ j \in User /\ arg[j] \in User
               /\ state'[arg[j]] # "FREE"
               /\ state'[j] = "SLEEPING" <=> state'[arg[j]] # "ZOMBIE"
    <3>1. j \in User
      BY <2>1 DEF IInv, PlaceInv, User
    <3>2. /\ arg[j] \in User /\ state[arg[j]] # "FREE"
          /\ state[j] = "SLEEPING" <=> state[arg[j]] # "ZOMBIE"
      BY <2>1 DEF IInv, JoinInv
    <3> QED BY <3>1, <3>2, <1>l
  <2> QED BY <2>1, <1>0, <1>s DEF IInv, JoinInv
<1>7. SleeperHasTimer'
  <2>1. ASSUME NEW t \in Thread, pc'[t] = "sleep", state'[t] = "SLEEPING"
        PROVE  pc[t] = "sleep" /\ state[t] = "SLEEPING"
    <3>1. pc[t] = "sleep" /\ t \in User
      BY <2>1, <1>s DEF IInv, PlaceInv, User
    <3> QED BY <2>1, <3>1, <1>l
  <2> QED BY <2>1, <1>s DEF IInv, SleeperHasTimer, timer_pending
<1> QED BY <1>l, <1>1, <1>2, <1>3, <1>4, <1>5, <1>6, <1>7 DEF IInv

-----------------------------------------------------------------------------
LEMMA InitIInv == Init => IInv
<1> SUFFICES ASSUME Init PROVE IInv
  OBVIOUS
<1>0. /\ Idle \in Thread /\ TimerThread \in Thread /\ Main \in Thread /\ Main \in User
      /\ Idle # TimerThread /\ Main # Idle /\ Main # TimerThread
      /\ NULL \notin Timer /\ Thread \subseteq Timer /\ 0 \in UInt
  BY ThreadsAssumption, TimerAssumption, TimeAssumption DEF User, Timer, UInt
<1>q. /\ runnable \in Seq(Thread) /\ NoRepeats(runnable)
      /\ Items(runnable) = {TimerThread, Idle, Main}
  <2> DEFINE rq0 == << >>
             rq1 == list_append(rq0, TimerThread)
             rq2 == list_append(rq1, Idle)
  <2>1. runnable = list_append(rq2, Main)
    BY DEF Init, scheduler_init, sched_insert
  <2>2. rq0 \in Seq(Thread) /\ NoRepeats(rq0) /\ Items(rq0) = {}
    BY DEF Items, NoRepeats
  <2> HIDE DEF rq0
  <2>3. rq1 \in Seq(Thread) /\ NoRepeats(rq1) /\ Items(rq1) = {TimerThread}
    <3>1. TimerThread \notin Items(rq0)
      BY <2>2
    <3>2. Items(rq1) = Items(rq0) \cup {TimerThread} /\ rq1 \in Seq(Thread) /\ NoRepeats(rq1)
      BY <1>0, <2>2, <3>1, AppendNew
    <3> HIDE DEF rq1
    <3> QED BY <2>2, <3>2
  <2> HIDE DEF rq1
  <2>4. rq2 \in Seq(Thread) /\ NoRepeats(rq2) /\ Items(rq2) = {TimerThread, Idle}
    <3>1. Idle \notin Items(rq1)
      BY <1>0, <2>3
    <3>2. Items(rq2) = Items(rq1) \cup {Idle} /\ rq2 \in Seq(Thread) /\ NoRepeats(rq2)
      BY <1>0, <2>3, <3>1, AppendNew
    <3> HIDE DEF rq2
    <3> QED BY <2>3, <3>2
  <2> HIDE DEF rq2
  <2>5. Main \notin Items(rq2)
    BY <1>0, <2>4
  <2>6. Items(runnable) = Items(rq2) \cup {Main} /\ runnable \in Seq(Thread) /\ NoRepeats(runnable)
    BY <1>0, <2>1, <2>4, <2>5, AppendNew
  <2> QED BY <2>4, <2>6
<1>t. timers \in Seq(Timer) /\ NoRepeats(timers) /\ \A x : ~timer_pending(x)
  BY DEF Init, timers_init, NoRepeats, timer_pending, link_connected
<1>1. TypeOK
  BY <1>0, <1>q, <1>t DEF Init, timers_init, TypeOK, Location, Result
<1>2. RunQueueExact
  BY <1>0, <1>q DEF Init, RunQueueExact, User
<1>3. TimersExact
  BY <1>0, <1>t DEF Init, timers_init, TimersExact
<1>4. PlaceInv
  BY <1>0 DEF Init, PlaceInv, User
<1>5. TimerInv
  BY <1>0, <1>t DEF Init, timers_init, TimerInv
<1>6. JoinInv
  BY <1>0 DEF Init, JoinInv
<1>7. SleeperHasTimer
  BY <1>0 DEF Init, timers_init, SleeperHasTimer
<1> QED BY <1>1, <1>2, <1>3, <1>4, <1>5, <1>6, <1>7 DEF IInv

LEMMA NextIInv == IInv /\ [Next]_vars => IInv'
<1> SUFFICES ASSUME IInv, [Next]_vars PROVE IInv'
  OBVIOUS
<1>1. CASE UNCHANGED vars
  BY <1>1 DEF vars, IInv, TypeOK, RunQueueExact, TimersExact, PlaceInv, TimerInv, JoinInv,
     SleeperHasTimer, TimerInUse, timer_pending
<1>2. CASE KernelStep
  <2>1. CASE thread_create_publish
    BY <2>1, StepPublish
  <2>2. CASE idle \/ timer_destroy_wait
    BY <2>2, StepSwitch DEF idle, timer_destroy_wait
  <2>3. CASE thread_sleep_woken \/ timer_destroy_done
    BY <2>3, StepSleepWoken, StepDestroyDone
  <2>4. CASE thread_join_reap
    BY <2>4, StepJoinReap
  <2>5. CASE timer_thread_scan \/ timer_thread_none
    BY <2>5, StepScan, StepNone
  <2>6. CASE thread_timeout_handler \/ ktimer_handler
    BY <2>6, StepTimeoutHandler, StepKtimerHandler
  <2>7. CASE timer_thread_clear \/ timer_thread_suspend
    BY <2>7, StepClear, StepTimerSuspend
  <2> QED BY <1>2, <2>1, <2>2, <2>3, <2>4, <2>5, <2>6, <2>7 DEF KernelStep
<1>3. CASE UserCall
  <2>1. ASSUME NEW t \in User,
               \/ thread_create(t) \/ thread_wakeup(t)
               \/ thread_join_zombie(t) \/ thread_join_wait(t)
        PROVE  IInv'
    BY <2>1, StepCreate, StepWakeup, StepJoinZombie, StepJoinWait
  <2>2. CASE thread_create_no_memory \/ \E t \in User : thread_join_invalid(t)
    BY <2>2, <1>1 DEF thread_create_no_memory, thread_join_invalid
  <2>3. CASE thread_create_no_vmm
    BY <2>3, StepCreateNoVmm
  <2>4. CASE thread_yield
    BY <2>4, StepSwitch DEF thread_yield
  <2>5. CASE thread_suspend
    BY <2>5, StepSuspend
  <2>6. ASSUME NEW s \in Seconds, thread_sleep(s)
        PROVE  IInv'
    <3>1. s * TIMER_PERIOD \in Nat
      BY ThreadsAssumption, TimeAssumption
    <3>2. sec_to_jiffies(s) \in UInt
      BY <3>1, UintType DEF sec_to_jiffies
    <3> QED BY <2>6, <3>2, StepSleep DEF thread_sleep
  <2>9. ASSUME NEW u \in Usecs, thread_usleep(u)
        PROVE  IInv'
    <3>1. u \in Nat
      BY ThreadsAssumption
    <3>2. usec_to_jiffies(u) \in UInt
      BY <3>1, UsecType
    <3> QED BY <2>9, <3>2, StepSleep DEF thread_usleep
  <2>7. ASSUME NEW k \in KTimer,
               \/ \E d \in Delays : ktimer_init(k, d)
               \/ ktimer_start(k) \/ ktimer_destroy(k)
        PROVE  IInv'
    BY <2>7, ThreadsAssumption, StepKtimerInit, StepKtimerStart, StepKtimerDestroy
  <2>8. CASE thread_finish
    BY <2>8, StepFinish
  <2> QED BY <1>3, <2>1, <2>2, <2>3, <2>4, <2>5, <2>6, <2>7, <2>8, <2>9 DEF UserCall
<1>4. CASE interrupt
  BY <1>4, StepTick DEF interrupt
<1> QED BY <1>1, <1>2, <1>3, <1>4 DEF Next

(* IInv is an invariant of the kernel. *)
THEOREM Invariance == Spec => []IInv
<1>1. Init => IInv
  BY InitIInv
<1>2. IInv /\ [Next]_vars => IInv'
  BY NextIInv
<1> QED BY <1>1, <1>2, PTL DEF Spec

(* Every variable keeps its type, for any number of threads and timers. *)
THEOREM TypeCorrect == Spec => []TypeOK
<1>1. IInv => TypeOK
  BY DEF IInv
<1> QED BY <1>1, Invariance, PTL

(* The run queue never loses a thread, links one twice or holds one that   *)
(* must not run (sched_insert, sched_remove, schedule, thread_switch).     *)
THEOREM RunQueueCorrect == Spec => []RunQueueExact
<1>1. IInv => RunQueueExact
  BY DEF IInv
<1> QED BY <1>1, Invariance, PTL

(* thread_join reaps only a thread that died and stored its result.        *)
THEOREM JoinCorrect == Spec => []JoinOnlyDead
<1>1. IInv => JoinOnlyDead
  <2> SUFFICES ASSUME IInv, NEW j \in Thread, pc[j] = "join", state[j] # "SLEEPING"
               PROVE  state[arg[j]] = "ZOMBIE" /\ retval[arg[j]] = Result
    BY DEF JoinOnlyDead
  <2>1. arg[j] \in User /\ state[arg[j]] = "ZOMBIE"
    BY DEF IInv, JoinInv
  <2> QED BY <2>1 DEF IInv, PlaceInv
<1> QED BY <1>1, Invariance, PTL

(* No pointer the kernel follows leads to a freed thread. *)
THEOREM PointersCorrect == Spec => []NoDangling
<1>1. IInv => NoDangling
  <2> SUFFICES ASSUME IInv PROVE NoDangling
    OBVIOUS
  <2>t. \A t \in Thread : pc[t] # "none" => state[t] # "FREE"
    BY CurrentFacts DEF IInv, PlaceInv, User
  <2>u. \A x \in Thread : timer_pending(x) \/ expired = x => state[x] # "FREE"
    BY <2>t, CurrentFacts, TimerAssumption DEF IInv, TimerInv, TimerInUse
  <2>1. current \in Thread => state[current] # "FREE"
    BY CurrentFacts
  <2>2. \A i \in 1 .. Len(runnable) : runnable[i] \in Thread => state[runnable[i]] # "FREE"
    BY DEF IInv, RunQueueExact, Items
  <2>3. \A i \in 1 .. Len(timers) : timers[i] \in Thread => state[timers[i]] # "FREE"
    BY <2>u DEF timer_pending, link_connected
  <2>4. expired \in Thread => state[expired] # "FREE"
    BY <2>u
  <2>5. \A t \in Thread : joiner[t] \in Thread => state[joiner[t]] # "FREE"
    BY <2>t, CurrentFacts DEF IInv, JoinInv
  <2>6. \A t \in Thread : pc[t] = "join" => state[arg[t]] # "FREE"
    BY DEF IInv, JoinInv
  <2> QED BY <2>1, <2>2, <2>3, <2>4, <2>5, <2>6 DEF NoDangling
<1> QED BY <1>1, Invariance, PTL

(* A thread asleep in thread_sleep never loses the timer that wakes it. *)
THEOREM SleepCorrect == Spec => []SleeperHasTimer
<1>1. IInv => SleeperHasTimer
  BY DEF IInv
<1> QED BY <1>1, Invariance, PTL

(* Once timer_destroy has returned, nobody touches the timer any more. *)
THEOREM DestroyCorrect == Spec => []DestroyedTimerUntouched
<1>1. IInv => DestroyedTimerUntouched
  BY DEF IInv, TimerInv, TimersExact, DestroyedTimerUntouched
<1> QED BY <1>1, Invariance, PTL

(* While the timer thread runs, only the handler of the expired timer ends *)
(* the sleep of a thread; the other steps switch threads or touch timers.  *)
LEMMA TimeoutStep ==
  ASSUME IInv, Next, current = TimerThread,
         NEW t \in Thread, pc[t] = "sleep", state[t] = "SLEEPING", state'[t] # "SLEEPING"
  PROVE  ~timer_pending(t)
<1>0. /\ t \in User /\ t \in Timer
      /\ TimerThread \notin User /\ TimerThread # Idle
      /\ pc[TimerThread] \in {"scan", "handler", "clear", "suspend"}
  BY CurrentFacts DEF IInv, PlaceInv, User
<1>1. ~UserCall
  BY <1>0 DEF UserCall, UserCode, thread_create, thread_wakeup, thread_join_invalid,
              thread_join_zombie, thread_join_wait, thread_create_no_vmm,
              thread_create_no_memory, thread_yield, thread_suspend, thread_sleep,
              thread_usleep, Sleep, ktimer_init, ktimer_start, ktimer_destroy, thread_finish
<1>2. CASE interrupt
  BY <1>0, <1>2, StepTick DEF interrupt
<1>3. CASE KernelStep
  <2>1. ~(\/ thread_create_publish \/ idle \/ thread_sleep_woken
          \/ timer_destroy_wait \/ timer_destroy_done \/ thread_join_reap)
    BY <1>0 DEF thread_create_publish, idle, thread_sleep_woken, timer_destroy_wait,
                timer_destroy_done, thread_join_reap
  <2>2. CASE timer_thread_scan \/ timer_thread_none \/ ktimer_handler \/ timer_thread_clear
    BY <2>2 DEF timer_thread_scan, timer_thread_none, ktimer_handler, timer_thread_clear,
                schedVars
  <2>3. CASE timer_thread_suspend
    BY <1>0, <2>3, StepTimerSuspend
  <2>4. CASE thread_timeout_handler
    <3>1. pc[TimerThread] = "handler" /\ state' = WakeState(state, expired) /\ expired \in Thread
      BY <2>4 DEF thread_timeout_handler
    <3>2. expired = t
      BY <3>1 DEF WakeState, IInv, TypeOK
    <3> QED BY <3>1, <3>2 DEF IInv, TimerInv
  <2> QED BY <1>3, <2>1, <2>2, <2>3, <2>4 DEF KernelStep
<1> QED BY <1>1, <1>2, <1>3 DEF Next

(* A sleep is never ended by the handler of an earlier sleep. *)
THEOREM TimeoutCorrect == Spec => NoStaleTimeout
<1>1. IInv /\ [Next]_vars =>
        [\A t \in Thread :
           /\ current = TimerThread
           /\ pc[t] = "sleep" /\ state[t] = "SLEEPING" /\ state'[t] # "SLEEPING"
           => ~timer_pending(t)]_vars
  BY TimeoutStep
<1> QED BY <1>1, Invariance, PTL DEF Spec, NoStaleTimeout

(* schedule never returns to a zombie. *)
THEOREM PanicUnreachable == Spec => []NoPanic
<1>1. IInv => NoPanic
  BY DEF IInv, PlaceInv, NoPanic, User
<1> QED BY <1>1, Invariance, PTL

-----------------------------------------------------------------------------
(***************************************************************************)
(* The refinement of ThreadLife.                                           *)
(***************************************************************************)

(* A step that no caller of thread_create, thread_finish and thread_join   *)
(* can see: nobody starts or ceases to exist, to be dead or to join.  The  *)
(* two system threads never do any of this.                                *)
LEMMA LifeStutter ==
  ASSUME IInv, IInv',
         \A t \in User : /\ state'[t] = "FREE" <=> state[t] = "FREE"
                         /\ state'[t] = "ZOMBIE" <=> state[t] = "ZOMBIE"
                         /\ pc'[t] = "join" <=> pc[t] = "join"
                         /\ pc[t] = "join" => arg'[t] = arg[t]
  PROVE  UNCHANGED Life!vars
<1>1. ASSUME NEW t \in Thread
      PROVE  /\ state'[t] = "FREE" <=> state[t] = "FREE"
             /\ state'[t] = "ZOMBIE" <=> state[t] = "ZOMBIE"
             /\ pc'[t] = "join" <=> pc[t] = "join"
             /\ pc[t] = "join" => arg'[t] = arg[t]
  <2>1. CASE t \in User
    BY <2>1
  <2>2. CASE t = Idle \/ t = TimerThread
    BY <2>2 DEF IInv, PlaceInv
  <2> QED BY <2>1, <2>2 DEF User
<1>2. LifeOf' = LifeOf
  BY <1>1 DEF LifeOf
<1>3. WaitsFor' = WaitsFor
  BY <1>1 DEF WaitsFor
<1> QED BY <1>2, <1>3 DEF Life!vars

(* The current thread leaves the run queue and another one is dispatched.  *)
LEMMA LeaveLife ==
  ASSUME IInv, current # Idle, NEW s \in {"SLEEPING", "ZOMBIE"}, schedule(Leave, Become(s))
  PROVE  /\ state'[current] = s
         /\ \A t \in Thread : t # current => SameLifeAt(state, state', t)
<1> DEFINE st == Become(s)
<1>1. /\ QueueOK(Leave, st)
      /\ st[current] = s
      /\ \A t \in Thread : t # current => st[t] = state[t]
  BY QueueLeave DEF IInv
<1> HIDE DEF st
<1>2. /\ SameLife(st, state') /\ state' \in [Thread -> ThreadState]
  BY <1>1, CurrentFacts, ScheduleStep DEF IInv, st
<1>3. \A t \in Thread : SameLifeAt(st, state', t)
  BY <1>2 DEF SameLife
<1>4. current \in Thread
  BY CurrentFacts
<1> QED BY <1>1, <1>3, <1>4

(* thread_create is Create. *)
LEMMA LifeCreate ==
  ASSUME IInv, NEW t \in User, thread_create(t)
  PROVE  Life!Create(t)
<1>1. /\ t \in Thread /\ t # current /\ current \in Thread /\ pc[current] = "run"
      /\ state[t] = "FREE" /\ pc[t] = "none"
  BY CurrentFacts DEF thread_create, UserCode, User, IInv, PlaceInv
<1>2. /\ state' = [state EXCEPT ![t] = "READY"]
      /\ pc' = [pc EXCEPT ![t] = "run", ![current] = "publish"]
      /\ arg' = [arg EXCEPT ![current] = t]
  BY DEF thread_create
<1>3. LifeOf[t] = "none" /\ LifeOf' = [LifeOf EXCEPT ![t] = "live"]
  BY <1>1, <1>2 DEF LifeOf, IInv, TypeOK
<1>4. \A u \in Thread : /\ pc'[u] = "join" <=> pc[u] = "join"
                        /\ pc[u] = "join" => arg'[u] = arg[u]
  BY <1>1, <1>2 DEF IInv, TypeOK
<1>5. WaitsFor' = WaitsFor
  BY <1>4 DEF WaitsFor
<1> QED BY <1>3, <1>5 DEF Life!Create

(* thread_finish is Exit of the current thread. *)
LEMMA LifeFinish ==
  ASSUME IInv, thread_finish
  PROVE  Life!Exit(current)
<1>1. current \in Thread /\ pc[current] = "run" /\ state[current] = "RUNNING"
  BY CurrentFacts DEF thread_finish, UserCode
<1>2. /\ state'[current] = "ZOMBIE" /\ pc'[current] = "dead"
      /\ \A t \in Thread : t # current =>
           /\ state'[t] = "FREE" <=> state[t] = "FREE"
           /\ state'[t] = "ZOMBIE" <=> state[t] = "ZOMBIE"
           /\ pc'[t] = pc[t]
      /\ arg' = arg
  BY StepFinish
<1>3. LifeOf[current] = "live" /\ LifeOf' = [LifeOf EXCEPT ![current] = "exited"]
  BY <1>1, <1>2 DEF LifeOf
<1>4. WaitsFor[current] = NULL /\ WaitsFor' = WaitsFor
  BY <1>1, <1>2 DEF WaitsFor
<1> QED BY <1>3, <1>4 DEF Life!Exit, Life!Waiting

(* Nobody waits for a thread whose joiner field is empty. *)
LEMMA NobodyWaits ==
  ASSUME IInv, NEW t \in Thread, joiner[t] = NULL
  PROVE  \A u \in Thread : WaitsFor[u] # t
<1>1. NULL \notin Thread
  BY CurrentFacts
<1> QED BY <1>1 DEF IInv, JoinInv, WaitsFor

(* thread_join of a living thread is Wait. *)
LEMMA LifeWait ==
  ASSUME IInv, NEW t \in User, thread_join_wait(t)
  PROVE  Life!Wait(current, t)
<1> DEFINE c == current
<1>1. /\ c \in Thread /\ c # Idle /\ pc[c] = "run" /\ state[c] = "RUNNING"
      /\ t \in Thread /\ t # c /\ joiner[t] = NULL
      /\ state[t] # "ZOMBIE" /\ state[t] # "FREE"
  BY CurrentFacts DEF thread_join_wait, thread_can_join, Published, UserCode, User
<1>2. /\ pc' = [pc EXCEPT ![c] = "join"]
      /\ arg' = [arg EXCEPT ![c] = t]
      /\ schedule(Leave, Become("SLEEPING"))
  BY DEF thread_join_wait, Goto, SetArg
<1>3. /\ state'[c] = "SLEEPING"
      /\ \A u \in Thread : u # c => SameLifeAt(state, state', u)
  BY <1>1, <1>2, LeaveLife
<1> HIDE DEF c
<1>4. LifeOf' = LifeOf /\ LifeOf[c] = "live" /\ LifeOf[t] = "live"
  BY <1>1, <1>3 DEF LifeOf
<1>5. WaitsFor[c] = NULL /\ WaitsFor' = [WaitsFor EXCEPT ![c] = t]
  BY <1>1, <1>2 DEF WaitsFor, IInv, TypeOK
<1>6. \A u \in Thread : WaitsFor[u] # t
  BY <1>1, NobodyWaits
<1> QED BY <1>1, <1>4, <1>5, <1>6 DEF Life!Wait, Life!Waiting, c

(* Both ways through thread_join that free a thread are Reap. *)
LEMMA LifeReap ==
  ASSUME IInv, NEW t \in User, thread_destroy(t), t # current, state[t] = "ZOMBIE",
         pc' = [pc EXCEPT ![t] = "none", ![current] = "run"],
         \A u \in Thread : u # current => arg'[u] = arg[u],
         \/ pc[current] = "run" /\ joiner[t] = NULL
         \/ pc[current] = "join" /\ arg[current] = t
  PROVE  Life!Reap(current, t)
<1>1. /\ t \in Thread /\ current \in Thread /\ state[current] = "RUNNING" /\ pc[t] = "dead"
  BY CurrentFacts DEF User, IInv, PlaceInv
<1>2. LifeOf[current] = "live" /\ LifeOf[t] = "exited" /\ LifeOf' = [LifeOf EXCEPT ![t] = "none"]
  BY <1>1 DEF LifeOf, thread_destroy, IInv, TypeOK
<1>3. \A u \in Thread : u # current => (pc'[u] = "join" <=> pc[u] = "join")
  BY <1>1 DEF IInv, TypeOK
<1>4. pc'[current] = "run"
  BY <1>1 DEF IInv, TypeOK
<1>5. WaitsFor' = [WaitsFor EXCEPT ![current] = NULL]
  BY <1>1, <1>3, <1>4 DEF WaitsFor
<1>6. \/ WaitsFor[current] = NULL /\ \A u \in Thread : WaitsFor[u] # t
      \/ WaitsFor[current] = t
  BY <1>1, NobodyWaits DEF WaitsFor
<1> QED BY <1>2, <1>5, <1>6 DEF Life!Reap, Life!Waiting

LEMMA LifeJoinZombie ==
  ASSUME IInv, NEW t \in User, thread_join_zombie(t)
  PROVE  Life!Reap(current, t)
<1>1. /\ current \in Thread /\ t \in Thread /\ pc[current] = "run"
      /\ t # current /\ state[t] = "ZOMBIE" /\ joiner[t] = NULL
      /\ thread_destroy(t) /\ arg' = arg
  BY CurrentFacts DEF thread_join_zombie, thread_can_join, UserCode
<1>2. pc' = [pc EXCEPT ![t] = "none", ![current] = "run"]
  BY <1>1 DEF thread_join_zombie, IInv, TypeOK
<1> QED BY <1>1, <1>2, LifeReap

LEMMA LifeJoinReap ==
  ASSUME IInv, thread_join_reap
  PROVE  \E t \in User : Life!Reap(current, t)
<1> DEFINE t == arg[current]
<1>1. current \in Thread /\ pc[current] = "join" /\ state[current] = "RUNNING"
  BY CurrentFacts DEF thread_join_reap
<1>2. t \in User /\ t # current /\ state[t] = "ZOMBIE"
  BY <1>1 DEF IInv, JoinInv
<1>3. /\ thread_destroy(t)
      /\ pc' = [pc EXCEPT ![t] = "none", ![current] = "run"]
      /\ arg' = [arg EXCEPT ![current] = NULL]
  BY DEF thread_join_reap, SetArg
<1>4. \A u \in Thread : u # current => arg'[u] = arg[u]
  BY <1>1, <1>3 DEF IInv, TypeOK
<1> HIDE DEF t
<1>5. Life!Reap(current, t)
  BY <1>1, <1>2, <1>3, <1>4, LifeReap DEF t
<1> QED BY <1>2, <1>5

(* Every other step of kernel code is invisible. *)
LEMMA LifeKernelStep ==
  ASSUME IInv, IInv', KernelStep, ~thread_join_reap
  PROVE  UNCHANGED Life!vars
<1>0. /\ current \in Thread /\ TimerThread \in Thread /\ TimerThread \notin User
      /\ User \subseteq Thread
  BY CurrentFacts DEF User
<1>1. CASE \/ thread_create_publish \/ thread_sleep_woken \/ timer_destroy_done
           \/ timer_thread_scan \/ timer_thread_none \/ ktimer_handler \/ timer_thread_clear
  <2>1. /\ state' = state
        /\ pc[current] # "join"
        /\ \E l \in Location \ {"join"} : pc' = [pc EXCEPT ![current] = l]
        /\ \A t \in Thread : t # current => arg'[t] = arg[t]
    <3>1. CASE thread_create_publish
      <4>1. /\ state' = state /\ pc[current] = "publish"
            /\ pc' = [pc EXCEPT ![current] = "run"]
            /\ \E a : arg' = [arg EXCEPT ![current] = a]
        BY <3>1 DEF thread_create_publish, Goto, SetArg
      <4>2. \A t \in Thread : t # current => arg'[t] = arg[t]
        BY <4>1 DEF IInv, TypeOK
      <4> QED BY <4>1, <4>2 DEF Location
    <3>2. CASE thread_sleep_woken
      <4>1. /\ state' = state /\ pc[current] = "sleep"
            /\ pc' = [pc EXCEPT ![current] = "destroy"]
            /\ \E a : arg' = [arg EXCEPT ![current] = a]
        BY <3>2 DEF thread_sleep_woken, timer_destroy, Goto, SetArg
      <4>2. \A t \in Thread : t # current => arg'[t] = arg[t]
        BY <4>1 DEF IInv, TypeOK
      <4> QED BY <4>1, <4>2 DEF Location
    <3>3. CASE timer_destroy_done
      <4>1. /\ state' = state /\ pc[current] = "destroy"
            /\ pc' = [pc EXCEPT ![current] = "run"]
            /\ \E a : arg' = [arg EXCEPT ![current] = a]
        BY <3>3 DEF timer_destroy_done, Goto, SetArg
      <4>2. \A t \in Thread : t # current => arg'[t] = arg[t]
        BY <4>1 DEF IInv, TypeOK
      <4> QED BY <4>1, <4>2 DEF Location
    <3>4. CASE timer_thread_scan \/ timer_thread_none
      BY <1>0, <3>4 DEF timer_thread_scan, timer_thread_none, Goto, Location
    <3>5. CASE ktimer_handler \/ timer_thread_clear
      BY <1>0, <3>5 DEF ktimer_handler, timer_thread_clear, Goto, Location
    <3> QED BY <1>1, <3>1, <3>2, <3>3, <3>4, <3>5
  <2>2. \A t \in Thread : /\ pc'[t] = "join" <=> pc[t] = "join"
                          /\ pc[t] = "join" => arg'[t] = arg[t]
    BY <1>0, <2>1 DEF IInv, TypeOK
  <2> QED BY <1>0, <2>1, <2>2, LifeStutter
<1>2. CASE idle \/ timer_destroy_wait
  <2>1. schedule(runnable, state) /\ pc' = pc /\ arg' = arg
    BY <1>2 DEF idle, timer_destroy_wait
  <2>2. SameLife(state, state')
    BY <2>1, CurrentFacts, QueueNow, ScheduleStep DEF IInv
  <2> QED BY <1>0, <2>1, <2>2, LifeStutter DEF SameLife
<1>3. CASE thread_timeout_handler
  <2>1. /\ state' = WakeState(state, expired) /\ expired \in Thread
        /\ pc' = [pc EXCEPT ![TimerThread] = "clear"] /\ arg' = arg
    BY <1>3 DEF thread_timeout_handler, Goto
  <2>2. \A t \in User : /\ state'[t] = "FREE" <=> state[t] = "FREE"
                        /\ state'[t] = "ZOMBIE" <=> state[t] = "ZOMBIE"
                        /\ pc'[t] = pc[t]
    BY <1>0, <2>1 DEF WakeState, IInv, TypeOK
  <2> QED BY <2>1, <2>2, LifeStutter
<1>4. CASE timer_thread_suspend
  <2>1. pc' = [pc EXCEPT ![TimerThread] = "scan"] /\ arg' = arg
    BY <1>4 DEF timer_thread_suspend, Goto
  <2>2. \A t \in User : pc'[t] = pc[t]
    BY <1>0, <2>1 DEF IInv, TypeOK
  <2> QED BY <1>4, <2>1, <2>2, StepTimerSuspend, LifeStutter
<1> QED BY <1>1, <1>2, <1>3, <1>4 DEF KernelStep

(* So are the calls that neither create, end nor join a thread. *)
LEMMA LifeUserCall ==
  ASSUME IInv, IInv', UserCall, ~thread_finish,
         \A t \in User : ~(thread_create(t) \/ thread_join_zombie(t) \/ thread_join_wait(t))
  PROVE  UNCHANGED Life!vars
<1>0. current \in Thread /\ User \subseteq Thread
  BY CurrentFacts
<1>1. CASE thread_create_no_vmm \/ thread_create_no_memory \/ \E t \in User : thread_join_invalid(t)
  <2>1. state' = state /\ pc' = pc /\ arg' = arg
    BY <1>1 DEF thread_create_no_vmm, thread_create_no_memory, thread_join_invalid, vars
  <2> QED BY <2>1, LifeStutter
<1>2. ASSUME NEW t \in User, thread_wakeup(t)
      PROVE  UNCHANGED Life!vars
  <2>1. state' = WakeState(state, t) /\ pc' = pc /\ arg' = arg
    BY <1>2 DEF thread_wakeup
  <2>2. \A u \in User : /\ state'[u] = "FREE" <=> state[u] = "FREE"
                        /\ state'[u] = "ZOMBIE" <=> state[u] = "ZOMBIE"
    BY <1>0, <2>1 DEF WakeState, IInv, TypeOK
  <2> QED BY <2>1, <2>2, LifeStutter
<1>3. CASE thread_yield
  <2>1. schedule(runnable, state) /\ pc' = pc /\ arg' = arg
    BY <1>3 DEF thread_yield
  <2>2. SameLife(state, state')
    BY <2>1, CurrentFacts, QueueNow, ScheduleStep DEF IInv
  <2> QED BY <1>0, <2>1, <2>2, LifeStutter DEF SameLife
<1>4. CASE \/ thread_suspend
           \/ \E s \in Seconds : thread_sleep(s)
           \/ \E u \in Usecs : thread_usleep(u)
  <2>1. /\ UserCode
        /\ schedule(Leave, Become("SLEEPING"))
        /\ \E l \in {"run", "sleep"} : pc' = [pc EXCEPT ![current] = l]
        /\ arg' = arg
    <3>1. CASE thread_suspend
      <4>1. pc' = [pc EXCEPT ![current] = "run"]
        BY <3>1, <1>0 DEF thread_suspend, UserCode, IInv, TypeOK
      <4> QED BY <3>1, <4>1 DEF thread_suspend
    <3>2. ASSUME NEW d, Sleep(d)
          PROVE  /\ UserCode
                 /\ schedule(Leave, Become("SLEEPING"))
                 /\ pc' = [pc EXCEPT ![current] = "sleep"]
                 /\ arg' = arg
      BY <3>2 DEF Sleep, Goto
    <3> QED BY <1>4, <3>1, <3>2 DEF thread_sleep, thread_usleep
  <2>2. current # Idle /\ pc[current] = "run" /\ state[current] = "RUNNING"
    BY <2>1, CurrentFacts DEF UserCode, User
  <2>3. /\ state'[current] = "SLEEPING"
        /\ \A t \in Thread : t # current => SameLifeAt(state, state', t)
    BY <2>1, <2>2, LeaveLife
  <2>4. \A t \in Thread : pc'[t] = "join" <=> pc[t] = "join"
    BY <1>0, <2>1, <2>2 DEF IInv, TypeOK
  <2> QED BY <1>0, <2>1, <2>2, <2>3, <2>4, LifeStutter
<1>5. ASSUME NEW k \in KTimer,
             \/ \E d \in Delays : ktimer_init(k, d)
             \/ ktimer_start(k) \/ ktimer_destroy(k)
      PROVE  UNCHANGED Life!vars
  <2>1. CASE ktimer_start(k) \/ \E d \in Delays : ktimer_init(k, d)
    <3>1. state' = state /\ pc' = pc /\ arg' = arg
      BY <2>1 DEF ktimer_start, ktimer_init
    <3> QED BY <3>1, LifeStutter
  <2>2. CASE ktimer_destroy(k)
    <3>1. /\ state' = state /\ pc[current] = "run"
          /\ pc' = [pc EXCEPT ![current] = "destroy"] /\ arg' = [arg EXCEPT ![current] = k]
      BY <2>2 DEF ktimer_destroy, UserCode, timer_destroy, Goto, SetArg
    <3>2. \A t \in Thread : /\ pc'[t] = "join" <=> pc[t] = "join"
                            /\ pc[t] = "join" => arg'[t] = arg[t]
      BY <1>0, <3>1 DEF IInv, TypeOK
    <3> QED BY <1>0, <3>1, <3>2, LifeStutter
  <2> QED BY <1>5, <2>1, <2>2
<1> QED BY <1>1, <1>2, <1>3, <1>4, <1>5 DEF UserCall

(* Every step of the kernel is a step of ThreadLife or invisible to it.    *)
LEMMA LifeStep == IInv /\ IInv' /\ [Next]_vars => [Life!Next]_(Life!vars)
<1> SUFFICES ASSUME IInv, IInv', [Next]_vars
             PROVE  Life!Next \/ UNCHANGED Life!vars
  OBVIOUS
<1>0. current \in Thread /\ User \subseteq Thread
  BY CurrentFacts
<1>1. CASE UNCHANGED vars
  <2>1. state' = state /\ pc' = pc /\ arg' = arg
    BY <1>1 DEF vars
  <2> QED BY <2>1, LifeStutter
<1>2. CASE interrupt
  <2>1. sched_timer /\ pc' = pc /\ arg' = arg
    BY <1>2 DEF interrupt, sched_timer
  <2> QED BY <2>1, StepTick, LifeStutter
<1>3. CASE thread_finish
  <2>1. Life!Exit(current)
    BY <1>3, LifeFinish
  <2> QED BY <1>0, <2>1 DEF Life!Next
<1>4. ASSUME NEW t \in User, thread_create(t) \/ thread_join_zombie(t) \/ thread_join_wait(t)
      PROVE  Life!Next
  <2>1. Life!Create(t) \/ Life!Reap(current, t) \/ Life!Wait(current, t)
    BY <1>4, LifeCreate, LifeJoinZombie, LifeWait
  <2> QED BY <1>0, <2>1 DEF Life!Next
<1>5. CASE thread_join_reap
  <2>1. \E t \in User : Life!Reap(current, t)
    BY <1>5, LifeJoinReap
  <2> QED BY <1>0, <2>1 DEF Life!Next
<1>6. CASE KernelStep /\ ~thread_join_reap
  BY <1>6, LifeKernelStep
<1>7. CASE /\ UserCall /\ ~thread_finish
           /\ \A t \in User : ~(thread_create(t) \/ thread_join_zombie(t) \/ thread_join_wait(t))
  BY <1>7, LifeUserCall
<1> QED BY <1>1, <1>2, <1>3, <1>4, <1>5, <1>6, <1>7 DEF Next

(* The threads after boot are the three that ThreadLife starts with. *)
LEMMA LifeInit == Init => Life!Init
<1> SUFFICES ASSUME Init PROVE Life!Init
  OBVIOUS
<1>1. /\ Idle \in Thread /\ TimerThread \in Thread /\ Main \in Thread
      /\ Main # Idle /\ Main # TimerThread
  BY ThreadsAssumption, TimerAssumption DEF User
<1>2. LifeOf = [t \in Thread |-> IF t \in {TimerThread, Idle, Main} THEN "live" ELSE "none"]
  BY <1>1 DEF Init, LifeOf, User
<1>3. WaitsFor = [t \in Thread |-> NULL]
  BY <1>1 DEF Init, WaitsFor
<1> QED BY <1>2, <1>3 DEF Life!Init

(* Kernel threads, scheduler and timers together implement ThreadLife: a   *)
(* thread is created, exits once and is reaped once, by the only thread    *)
(* that waits for it (thread_create, thread_finish, thread_join).          *)
THEOREM LifeCorrect == Spec => LifeSpec
<1>1. Init => Life!Init
  BY LifeInit
<1>2. IInv /\ IInv' /\ [Next]_vars => [Life!Next]_(Life!vars)
  BY LifeStep
<1> QED BY <1>1, <1>2, Invariance, PTL DEF Spec, LifeSpec, Life!Spec
=============================================================================

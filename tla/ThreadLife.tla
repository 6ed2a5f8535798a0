----------------------------- MODULE ThreadLife -----------------------------
(***************************************************************************)
(* What kernel/proc/thread.h promises to the callers of thread_create,     *)
(* thread_finish and thread_join, without scheduler or timers: a thread is *)
(* created, exits once, and is reaped once, by the only thread that waits  *)
(* for it if there is one.                                                 *)
(***************************************************************************)
CONSTANTS Thread, NULL, Boot   \* Boot: the threads that exist after boot

VARIABLES life,    \* "none", "live" or "exited"
          waits    \* the thread that a joining thread waits for, else NULL

vars == <<life, waits>>

Waiting(j) == waits[j] # NULL

Init ==
  /\ life = [t \in Thread |-> IF t \in Boot THEN "live" ELSE "none"]
  /\ waits = [t \in Thread |-> NULL]

Create(t) ==
  /\ life[t] = "none"
  /\ life' = [life EXCEPT ![t] = "live"]
  /\ UNCHANGED waits

Exit(t) ==
  /\ life[t] = "live"
  /\ ~Waiting(t)
  /\ life' = [life EXCEPT ![t] = "exited"]
  /\ UNCHANGED waits

(* j starts to wait for t. *)
Wait(j, t) ==
  /\ j # t
  /\ life[j] = "live" /\ life[t] = "live"
  /\ ~Waiting(j)
  /\ \A u \in Thread : waits[u] # t
  /\ waits' = [waits EXCEPT ![j] = t]
  /\ UNCHANGED life

(* j reaps t: at once if nobody waits for t, otherwise j is who waited. *)
Reap(j, t) ==
  /\ j # t
  /\ life[j] = "live" /\ life[t] = "exited"
  /\ \/ ~Waiting(j) /\ \A u \in Thread : waits[u] # t
     \/ waits[j] = t
  /\ life' = [life EXCEPT ![t] = "none"]
  /\ waits' = [waits EXCEPT ![j] = NULL]

Next ==
  \/ \E t \in Thread : Create(t) \/ Exit(t)
  \/ \E j, t \in Thread : Wait(j, t) \/ Reap(j, t)

Spec == Init /\ [][Next]_vars
=============================================================================

-------------------------- MODULE ProcessesProofs --------------------------
(***************************************************************************)
(* Proofs about Processes, for any number of threads, processes and user   *)
(* threads.                                                                *)
(***************************************************************************)
EXTENDS Processes, TLAPS

(* Boot threads call process_create and process_join and never finish; the *)
(* others run process_stub.                                                *)
BootPlaces == {"run", "malloc_uthread", "thread_create", "store", "thread_join", "wait"}

PlacesInv ==
  /\ \A t \in Boot : life[t] = "live" /\ pc[t] \in BootPlaces
  /\ \A t \in Thread \ Boot : pc[t] \notin BootPlaces

(* A call of process_create owns the process, and later the user thread,   *)
(* that it has allocated.                                                  *)
Made(t) == pc[t] \in {"thread_create", "store"}

CallsInv ==
  /\ \A t \in Boot : Creating(t) =>
       local[t].process \in Process /\ local[t].process \in heap /\ local[t].process \notin handles
  /\ \A t, s \in Boot : Creating(t) /\ Creating(s) /\ local[t].process = local[s].process => t = s
  /\ \A t \in Boot : Made(t) =>
       /\ local[t].uthread \in UThread /\ local[t].uthread \in heap
       /\ proc[local[t].process].main_uthread = local[t].uthread
  /\ \A t, s \in Boot : Made(t) /\ Made(s) /\ local[t].uthread = local[s].uthread => t = s

(* So does a process that was returned. *)
HandlesInv ==
  /\ \A p \in handles : p \in heap /\ proc[p].main_uthread \in UThread /\ proc[p].main_uthread \in heap
  /\ \A p \in handles, t \in Boot : Made(t) => proc[p].main_uthread # local[t].uthread
  /\ \A p, q \in handles : proc[p].main_uthread = proc[q].main_uthread => p = q

(* Nothing else is in use. *)
HeapInv ==
  /\ \A p \in Process : p \in heap =>
       p \in handles \/ \E t \in Boot : Creating(t) /\ local[t].process = p
  /\ \A u \in UThread : u \in heap =>
       \/ \E p \in handles : proc[p].main_uthread = u
       \/ \E t \in Boot : Made(t) /\ local[t].uthread = u

BlocksInv == TypeOK /\ PlacesInv /\ CallsInv /\ HandlesInv /\ HeapInv

(* A thread that exists is the main thread of the process it was created   *)
(* for, and of no other.                                                   *)
StubInv ==
  /\ \A u \in UThread : u \notin heap => uthread[u].thread = NULL
  /\ \A t \in Boot : Made(t) =>
       /\ uthread[local[t].uthread].process = local[t].process
       /\ uthread[local[t].uthread].thread = NULL
  /\ \A p \in handles : uthread[proc[p].main_uthread].process = p
  /\ \A n \in Thread \ Boot : life[n] # "none" =>
       \/ local[n].process \in handles /\ uthread[proc[local[n].process].main_uthread].thread = n
       \/ \E t \in Boot : /\ pc[t] = "store" /\ local[t].process = local[n].process
                          /\ local[t].thread = n
  /\ \A n \in Thread : At(n, "user") =>
       /\ owner[n].process = local[n].process
       /\ owner[n].uthread = proc[local[n].process].main_uthread

(* Until process_join is called for a process, nobody frees its thread,    *)
(* and from then on only that call does.                                   *)
Joining(t) == pc[t] \in {"thread_join", "wait"}

JoinInv ==
  /\ joined \subseteq handles
  /\ \A t \in Boot : pc[t] = "store" =>
       local[t].thread \in Thread /\ MainThread(local[t].process, local[t].thread)
  /\ \A p \in handles \ joined :
       LET n == uthread[proc[p].main_uthread].thread IN n \in Thread /\ MainThread(p, n)
  /\ \A t \in Boot : Joining(t) =>
       /\ local[t].process \in joined
       /\ local[t].thread \in Thread /\ MainThread(local[t].process, local[t].thread)
  /\ \A t, s \in Boot : Joining(t) /\ Joining(s) /\ local[t].process = local[s].process => t = s

-----------------------------------------------------------------------------
LEMMA InitBlocks == Init => BlocksInv
<1> SUFFICES ASSUME Init PROVE BlocksInv
  OBVIOUS
<1>1. TypeOK
  BY ProcessesAssumption DEF Init, Kernel!Init, TypeOK, Places, Locals, NoLocals
<1>2. PlacesInv
  BY ProcessesAssumption DEF Init, Kernel!Init, PlacesInv, BootPlaces
<1>3. CallsInv /\ HandlesInv /\ HeapInv
  BY ProcessesAssumption DEF Init, CallsInv, HandlesInv, HeapInv, Creating, Made
<1> QED BY <1>1, <1>2, <1>3 DEF BlocksInv

(* Who calls process_create or process_join is a boot thread. *)
LEMMA CallerIsBoot ==
  ASSUME PlacesInv, NEW t \in Thread, pc[t] \in BootPlaces
  PROVE  t \in Boot
BY DEF PlacesInv

(* A step that leaves alone what the calls and the processes own. *)
LEMMA BlocksStay ==
  ASSUME BlocksInv, TypeOK', PlacesInv',
         heap' = heap, handles' = handles,
         \A p \in Process : proc'[p].main_uthread = proc[p].main_uthread,
         \A t \in Boot : /\ Creating(t)' <=> Creating(t)
                         /\ Made(t)' <=> Made(t)
                         /\ Creating(t) => /\ local'[t].process = local[t].process
                                           /\ local'[t].uthread = local[t].uthread
  PROVE  BlocksInv'
<1>1. \A t \in Boot : Made(t) => Creating(t)
  BY DEF Made, Creating
<1>2. handles \subseteq Process
  BY DEF BlocksInv, TypeOK
<1>3. CallsInv'
  BY <1>1 DEF BlocksInv, CallsInv
<1>4. HandlesInv'
  BY <1>1, <1>2 DEF BlocksInv, HandlesInv
<1>5. HeapInv'
  BY <1>1, <1>2 DEF BlocksInv, HeapInv
<1> QED BY <1>3, <1>4, <1>5 DEF BlocksInv

LEMMA BlocksMallocProcess ==
  ASSUME BlocksInv, NEW t \in Thread, NEW p \in Process, malloc_process(t, p)
  PROVE  BlocksInv'
<1>1. /\ t \in Boot /\ pc[t] = "run" /\ p \notin heap
      /\ heap' = heap \union {p}
      /\ local' = [local EXCEPT ![t].process = p]
      /\ pc' = [pc EXCEPT ![t] = "malloc_uthread"]
      /\ UNCHANGED <<life, waits, proc, uthread, owner, handles, joined, ended>>
  BY DEF malloc_process, At, Goto, lives, history
<1>2. TypeOK /\ PlacesInv /\ CallsInv /\ HandlesInv /\ HeapInv
  BY DEF BlocksInv
<1>3. /\ local \in [Thread -> Locals] /\ pc \in [Thread -> Places]
      /\ Boot \subseteq Thread
  BY <1>2, ProcessesAssumption DEF TypeOK
<1>4. /\ local' \in [Thread -> Locals] /\ local'[t].process = p
      /\ \A s \in Thread : s # t => local'[s] = local[s]
  BY <1>1, <1>3 DEF Locals
<1>5. /\ pc' \in [Thread -> Places] /\ pc'[t] = "malloc_uthread"
      /\ \A s \in Thread : s # t => pc'[s] = pc[s]
  BY <1>1, <1>3 DEF Places
<1>6. TypeOK'
  BY <1>1, <1>2, <1>4, <1>5 DEF TypeOK
<1>7. PlacesInv'
  BY <1>1, <1>2, <1>3, <1>5 DEF PlacesInv, BootPlaces
<1>8. /\ \A s \in Boot : Creating(s)' <=> Creating(s) \/ s = t
      /\ \A s \in Boot : Made(s)' <=> Made(s)
      /\ ~Creating(t) /\ ~Made(t)
  BY <1>1, <1>3, <1>5 DEF Creating, Made
<1>9. CallsInv'
  <2>1. \A s \in Boot : Creating(s)' =>
          local'[s].process \in Process /\ local'[s].process \in heap' /\ local'[s].process \notin handles'
    BY <1>1, <1>2, <1>3, <1>4, <1>8 DEF CallsInv, HandlesInv
  <2>2. \A s, r \in Boot : Creating(s)' /\ Creating(r)' /\ local'[s].process = local'[r].process => s = r
    BY <1>1, <1>2, <1>3, <1>4, <1>8 DEF CallsInv
  <2>3. \A s \in Boot : Made(s)' =>
          /\ local'[s].uthread \in UThread /\ local'[s].uthread \in heap'
          /\ proc'[local'[s].process].main_uthread = local'[s].uthread
    BY <1>1, <1>2, <1>3, <1>4, <1>8 DEF CallsInv
  <2>4. \A s, r \in Boot : Made(s)' /\ Made(r)' /\ local'[s].uthread = local'[r].uthread => s = r
    BY <1>2, <1>3, <1>4, <1>8 DEF CallsInv
  <2> QED BY <2>1, <2>2, <2>3, <2>4 DEF CallsInv
<1>10. HandlesInv'
  BY <1>1, <1>2, <1>3, <1>4, <1>8 DEF HandlesInv
<1>11. HeapInv'
  <2>1. ASSUME NEW q \in Process, q \in heap'
        PROVE  q \in handles' \/ \E s \in Boot : Creating(s)' /\ local'[s].process = q
    <3>1. CASE q = p
      BY <1>1, <1>4, <1>8, <3>1
    <3>2. CASE q # p
      BY <1>1, <1>2, <1>3, <1>4, <1>8, <2>1, <3>2 DEF HeapInv
    <3> QED BY <3>1, <3>2
  <2>2. ASSUME NEW u \in UThread, u \in heap'
        PROVE  \/ \E q \in handles' : proc'[q].main_uthread = u
               \/ \E s \in Boot : Made(s)' /\ local'[s].uthread = u
    <3>1. u \in heap
      BY <1>1, <2>2, ProcessesAssumption
    <3> QED BY <1>1, <1>2, <1>3, <1>4, <1>8, <3>1 DEF HeapInv
  <2> QED BY <2>1, <2>2 DEF HeapInv
<1> QED BY <1>6, <1>7, <1>9, <1>10, <1>11 DEF BlocksInv

LEMMA BlocksMallocUThread ==
  ASSUME BlocksInv, NEW t \in Thread, NEW u \in UThread, malloc_uthread(t, u)
  PROVE  BlocksInv'
<1> DEFINE p == local[t].process
<1>1. /\ pc[t] = "malloc_uthread" /\ u \notin heap
      /\ heap' = heap \union {u}
      /\ local' = [local EXCEPT ![t].uthread = u]
      /\ proc' = [proc EXCEPT ![p].main_uthread = u]
      /\ uthread' = [uthread EXCEPT ![u].process = p]
      /\ pc' = [pc EXCEPT ![t] = "thread_create"]
      /\ UNCHANGED <<life, waits, owner, handles, joined, ended>>
  BY DEF malloc_uthread, At, Goto, lives, history
<1>2. TypeOK /\ PlacesInv /\ CallsInv /\ HandlesInv /\ HeapInv
  BY DEF BlocksInv
<1>3. /\ local \in [Thread -> Locals] /\ pc \in [Thread -> Places]
      /\ Boot \subseteq Thread
  BY <1>2, ProcessesAssumption DEF TypeOK
<1>4. t \in Boot /\ Creating(t) /\ ~Made(t)
  BY <1>1, <1>2, CallerIsBoot DEF BootPlaces, Creating, Made
<1>5. p \in Process /\ p \in heap /\ p \notin handles
  BY <1>2, <1>4 DEF CallsInv
<1> HIDE DEF p
<1>6. /\ local' \in [Thread -> Locals] /\ local'[t].uthread = u /\ local'[t].process = p
      /\ \A s \in Thread : s # t => local'[s] = local[s]
  BY <1>1, <1>3 DEF Locals, p
<1>7. /\ pc' \in [Thread -> Places] /\ pc'[t] = "thread_create"
      /\ \A s \in Thread : s # t => pc'[s] = pc[s]
  BY <1>1, <1>3 DEF Places
<1>8. /\ proc'[p].main_uthread = u
      /\ \A q \in Process : q # p => proc'[q] = proc[q]
      /\ proc' \in [Process -> [main_uthread : UThread \union {NULL}, retval : {"unset", "set"}]]
  <2>1. /\ proc \in [Process -> [main_uthread : UThread \union {NULL}, retval : {"unset", "set"}]]
        /\ proc' = [proc EXCEPT ![p] = [proc[p] EXCEPT !.main_uthread = u]]
    BY <1>1, <1>2 DEF TypeOK
  <2>2. [proc[p] EXCEPT !.main_uthread = u] = [main_uthread |-> u, retval |-> proc[p].retval]
    BY <1>5, <2>1
  <2> QED BY <1>5, <2>1, <2>2
<1>9. uthread' \in [UThread -> [process : Process \union {NULL}, thread : Thread \union {NULL}]]
  <2>1. /\ uthread \in [UThread -> [process : Process \union {NULL}, thread : Thread \union {NULL}]]
        /\ uthread' = [uthread EXCEPT ![u] = [uthread[u] EXCEPT !.process = p]]
    BY <1>1, <1>2 DEF TypeOK
  <2>2. [uthread[u] EXCEPT !.process = p] = [process |-> p, thread |-> uthread[u].thread]
    BY <2>1
  <2> QED BY <1>5, <2>1, <2>2
<1>10. TypeOK'
  BY <1>1, <1>2, <1>6, <1>7, <1>8, <1>9 DEF TypeOK
<1>11. PlacesInv'
  BY <1>1, <1>2, <1>3, <1>4, <1>7 DEF PlacesInv, BootPlaces
<1>12. /\ \A s \in Boot : Creating(s)' <=> Creating(s)
       /\ \A s \in Boot : Made(s)' <=> Made(s) \/ s = t
       /\ \A s \in Boot : Made(s) => Creating(s)
  BY <1>3, <1>4, <1>7 DEF Creating, Made
<1>0. heap' = heap \union {u} /\ handles' = handles /\ u \notin heap
  BY <1>1
<1>13. \A s \in Boot : local'[s].process = local[s].process
  BY <1>3, <1>6 DEF p
<1>14. CallsInv'
  <2>1. \A s \in Boot : Creating(s)' =>
          local'[s].process \in Process /\ local'[s].process \in heap' /\ local'[s].process \notin handles'
    BY <1>1, <1>2, <1>12, <1>13 DEF CallsInv
  <2>2. \A s, r \in Boot : Creating(s)' /\ Creating(r)' /\ local'[s].process = local'[r].process => s = r
    BY <1>2, <1>12, <1>13 DEF CallsInv
  <2>3. ASSUME NEW s \in Boot, Made(s)'
        PROVE  /\ local'[s].uthread \in UThread /\ local'[s].uthread \in heap'
               /\ proc'[local'[s].process].main_uthread = local'[s].uthread
    <3>1. CASE s = t
      BY <1>1, <1>6, <1>8, <3>1
    <3>2. CASE s # t
      <4>1. Made(s) /\ Creating(s) /\ local'[s] = local[s]
        BY <1>3, <1>6, <1>12, <2>3, <3>2
      <4>2. local[s].process # p /\ local[s].process \in Process
        BY <1>2, <1>4, <3>2, <4>1 DEF CallsInv, p
      <4>3. proc'[local[s].process] = proc[local[s].process]
        BY <1>8, <4>2
      <4> QED BY <1>0, <1>2, <4>1, <4>3 DEF CallsInv
    <3> QED BY <3>1, <3>2
  <2>4. ASSUME NEW s \in Boot, NEW r \in Boot, Made(s)', Made(r)', local'[s].uthread = local'[r].uthread
        PROVE  s = r
    <3>1. \A q \in Boot : Made(q) => local[q].uthread # u
      BY <1>1, <1>2 DEF CallsInv
    <3> QED BY <1>2, <1>3, <1>6, <1>12, <2>4, <3>1 DEF CallsInv
  <2> QED BY <2>1, <2>2, <2>3, <2>4 DEF CallsInv
<1>15. \A q \in handles : q \in Process /\ proc'[q] = proc[q]
  BY <1>2, <1>5, <1>8 DEF TypeOK
<1>16. HandlesInv'
  <2>1. \A q \in handles' : q \in heap' /\ proc'[q].main_uthread \in UThread /\ proc'[q].main_uthread \in heap'
    BY <1>1, <1>2, <1>15 DEF HandlesInv
  <2>2. ASSUME NEW q \in handles, NEW s \in Boot, Made(s)'
        PROVE  proc'[q].main_uthread # local'[s].uthread
    <3>1. proc[q].main_uthread \in heap
      BY <1>2 DEF HandlesInv
    <3>2. CASE s = t
      BY <1>0, <1>6, <1>15, <3>1, <3>2
    <3>3. CASE s # t
      BY <1>2, <1>3, <1>6, <1>12, <1>15, <2>2, <3>3 DEF HandlesInv
    <3> QED BY <3>2, <3>3
  <2>3. \A q, r \in handles' : proc'[q].main_uthread = proc'[r].main_uthread => q = r
    BY <1>1, <1>2, <1>15 DEF HandlesInv
  <2> QED BY <1>0, <2>1, <2>2, <2>3 DEF HandlesInv
<1>17. HeapInv'
  <2>1. ASSUME NEW q \in Process, q \in heap'
        PROVE  q \in handles' \/ \E s \in Boot : Creating(s)' /\ local'[s].process = q
    <3>1. q \in heap
      BY <1>1, <2>1, ProcessesAssumption
    <3> QED BY <1>1, <1>2, <1>12, <1>13, <3>1 DEF HeapInv
  <2>2. ASSUME NEW v \in UThread, v \in heap'
        PROVE  \/ \E q \in handles' : proc'[q].main_uthread = v
               \/ \E s \in Boot : Made(s)' /\ local'[s].uthread = v
    <3>1. CASE v = u
      BY <1>4, <1>6, <1>12, <3>1
    <3>2. CASE v # u
      <4>1. v \in heap
        BY <1>1, <2>2, <3>2
      <4>2. CASE \E q \in handles : proc[q].main_uthread = v
        BY <1>1, <1>15, <4>2
      <4>3. ASSUME NEW s \in Boot, Made(s), local[s].uthread = v
            PROVE  \E r \in Boot : Made(r)' /\ local'[r].uthread = v
        BY <1>3, <1>4, <1>6, <1>12, <4>3
      <4> QED BY <1>2, <4>1, <4>2, <4>3 DEF HeapInv
    <3> QED BY <3>1, <3>2
  <2> QED BY <2>1, <2>2 DEF HeapInv
<1> QED BY <1>10, <1>11, <1>14, <1>16, <1>17 DEF BlocksInv

LEMMA BlocksMallocUThreadFails ==
  ASSUME BlocksInv, NEW t \in Thread, malloc_uthread_fails(t)
  PROVE  BlocksInv'
<1> DEFINE p == local[t].process
<1>1. /\ pc[t] = "malloc_uthread"
      /\ heap' = heap \ {p}
      /\ local' = [local EXCEPT ![t] = NoLocals]
      /\ pc' = [pc EXCEPT ![t] = "run"]
      /\ UNCHANGED <<life, waits, proc, uthread, owner, handles, joined, ended>>
  BY DEF malloc_uthread_fails, At, Goto, GoIdle, lives, history
<1>2. TypeOK /\ PlacesInv /\ CallsInv /\ HandlesInv /\ HeapInv
  BY DEF BlocksInv
<1>3. /\ local \in [Thread -> Locals] /\ pc \in [Thread -> Places]
      /\ Boot \subseteq Thread
  BY <1>2, ProcessesAssumption DEF TypeOK
<1>4. t \in Boot /\ Creating(t) /\ ~Made(t)
  BY <1>1, <1>2, CallerIsBoot DEF BootPlaces, Creating, Made
<1>5. p \in Process /\ p \in heap /\ p \notin handles
  BY <1>2, <1>4 DEF CallsInv
<1>6. /\ local' \in [Thread -> Locals]
      /\ \A s \in Thread : s # t => local'[s] = local[s]
  BY <1>1, <1>3 DEF Locals, NoLocals
<1>7. /\ pc' \in [Thread -> Places] /\ pc'[t] = "run"
      /\ \A s \in Thread : s # t => pc'[s] = pc[s]
  BY <1>1, <1>3 DEF Places
<1>0. heap' = heap \ {p} /\ handles' = handles /\ proc' = proc
  BY <1>1
<1>8. TypeOK'
  BY <1>1, <1>2, <1>6, <1>7 DEF TypeOK
<1>9. PlacesInv'
  BY <1>1, <1>2, <1>3, <1>4, <1>7 DEF PlacesInv, BootPlaces
<1>10. /\ \A s \in Boot : Creating(s)' <=> Creating(s) /\ s # t
       /\ \A s \in Boot : Made(s)' <=> Made(s)
       /\ \A s \in Boot : Made(s) => Creating(s) /\ s # t
  BY <1>3, <1>4, <1>7 DEF Creating, Made
<1>11. \A s \in Boot : Creating(s)' => local'[s] = local[s] /\ local[s].process # p
  BY <1>2, <1>3, <1>4, <1>6, <1>10 DEF CallsInv
<1>12. p \notin UThread
  BY <1>5, ProcessesAssumption
<1> HIDE DEF p
<1>13. CallsInv'
  <2>1. \A s \in Boot : Creating(s)' =>
          local'[s].process \in Process /\ local'[s].process \in heap' /\ local'[s].process \notin handles'
    BY <1>0, <1>2, <1>10, <1>11 DEF CallsInv
  <2>2. \A s, r \in Boot : Creating(s)' /\ Creating(r)' /\ local'[s].process = local'[r].process => s = r
    BY <1>2, <1>10, <1>11 DEF CallsInv
  <2>3. ASSUME NEW s \in Boot, Made(s)'
        PROVE  /\ local'[s].uthread \in UThread /\ local'[s].uthread \in heap'
               /\ proc'[local'[s].process].main_uthread = local'[s].uthread
    <3>1. Made(s) /\ local'[s] = local[s]
      BY <1>10, <1>11, <2>3
    <3> QED BY <1>0, <1>2, <1>12, <3>1 DEF CallsInv
  <2>4. \A s, r \in Boot : Made(s)' /\ Made(r)' /\ local'[s].uthread = local'[r].uthread => s = r
    BY <1>2, <1>10, <1>11 DEF CallsInv
  <2> QED BY <2>1, <2>2, <2>3, <2>4 DEF CallsInv
<1>14. HandlesInv'
  <2>1. \A q \in handles' : q \in heap' /\ proc'[q].main_uthread \in UThread /\ proc'[q].main_uthread \in heap'
    BY <1>0, <1>2, <1>5, <1>12 DEF HandlesInv
  <2>2. \A q \in handles', s \in Boot : Made(s)' => proc'[q].main_uthread # local'[s].uthread
    BY <1>0, <1>2, <1>10, <1>11 DEF HandlesInv
  <2> QED BY <1>0, <1>2, <2>1, <2>2 DEF HandlesInv
<1>15. HeapInv'
  <2>1. ASSUME NEW q \in Process, q \in heap'
        PROVE  q \in handles' \/ \E s \in Boot : Creating(s)' /\ local'[s].process = q
    <3>1. q \in heap /\ q # p
      BY <1>0, <2>1
    <3>2. CASE q \in handles
      BY <1>0, <3>2
    <3>3. ASSUME NEW s \in Boot, Creating(s), local[s].process = q
          PROVE  Creating(s)' /\ local'[s].process = q
      <4>1. s # t
        BY <3>1, <3>3 DEF p
      <4> QED BY <1>10, <1>11, <3>3, <4>1
    <3> QED BY <1>2, <3>1, <3>2, <3>3 DEF HeapInv
  <2>2. ASSUME NEW v \in UThread, v \in heap'
        PROVE  \/ \E q \in handles' : proc'[q].main_uthread = v
               \/ \E s \in Boot : Made(s)' /\ local'[s].uthread = v
    BY <1>0, <1>2, <1>10, <1>11, <2>2 DEF HeapInv
  <2> QED BY <2>1, <2>2 DEF HeapInv
<1> QED BY <1>8, <1>9, <1>13, <1>14, <1>15 DEF BlocksInv

LEMMA BlocksThreadCreateFails ==
  ASSUME BlocksInv, NEW t \in Thread, thread_create_fails(t)
  PROVE  BlocksInv'
<1> DEFINE p == local[t].process
           u == local[t].uthread
<1>1. /\ pc[t] = "thread_create"
      /\ heap' = heap \ {p, u}
      /\ uthread' = [uthread EXCEPT ![u] = [process |-> NULL, thread |-> NULL]]
      /\ local' = [local EXCEPT ![t] = NoLocals]
      /\ pc' = [pc EXCEPT ![t] = "run"]
      /\ UNCHANGED <<life, waits, proc, owner, handles, joined, ended>>
  BY DEF thread_create_fails, At, Goto, GoIdle, lives, history
<1>2. TypeOK /\ PlacesInv /\ CallsInv /\ HandlesInv /\ HeapInv
  BY DEF BlocksInv
<1>3. /\ local \in [Thread -> Locals] /\ pc \in [Thread -> Places]
      /\ Boot \subseteq Thread
  BY <1>2, ProcessesAssumption DEF TypeOK
<1>4. t \in Boot /\ Creating(t) /\ Made(t)
  BY <1>1, <1>2, CallerIsBoot DEF BootPlaces, Creating, Made
<1>5. /\ p \in Process /\ p \in heap /\ p \notin handles
      /\ u \in UThread /\ u \in heap
      /\ p \notin UThread /\ u \notin Process
  BY <1>2, <1>4, ProcessesAssumption DEF CallsInv
<1>6. /\ local' \in [Thread -> Locals]
      /\ \A s \in Thread : s # t => local'[s] = local[s]
  BY <1>1, <1>3 DEF Locals, NoLocals
<1>7. /\ pc' \in [Thread -> Places] /\ pc'[t] = "run"
      /\ \A s \in Thread : s # t => pc'[s] = pc[s]
  BY <1>1, <1>3 DEF Places
<1>0. heap' = heap \ {p, u} /\ handles' = handles /\ proc' = proc
  BY <1>1
<1>8. TypeOK'
  <2>1. uthread' \in [UThread -> [process : Process \union {NULL}, thread : Thread \union {NULL}]]
    BY <1>1, <1>2, <1>5 DEF TypeOK
  <2> QED BY <1>1, <1>2, <1>6, <1>7, <2>1 DEF TypeOK
<1>9. PlacesInv'
  BY <1>1, <1>2, <1>3, <1>4, <1>7 DEF PlacesInv, BootPlaces
<1>10. /\ \A s \in Boot : Creating(s)' <=> Creating(s) /\ s # t
       /\ \A s \in Boot : Made(s)' <=> Made(s) /\ s # t
       /\ \A s \in Boot : Made(s) => Creating(s)
  BY <1>3, <1>4, <1>7 DEF Creating, Made
<1>11. /\ \A s \in Boot : Creating(s)' => local'[s] = local[s] /\ local[s].process # p
       /\ \A s \in Boot : Made(s)' => local'[s] = local[s] /\ local[s].uthread # u
  BY <1>2, <1>3, <1>4, <1>6, <1>10 DEF CallsInv
<1>12. \A q \in handles : proc[q].main_uthread # u /\ q # p
  BY <1>2, <1>4, <1>5 DEF HandlesInv
<1> HIDE DEF p, u
<1>13. CallsInv'
  <2>1. \A s \in Boot : Creating(s)' =>
          local'[s].process \in Process /\ local'[s].process \in heap' /\ local'[s].process \notin handles'
    BY <1>0, <1>2, <1>5, <1>10, <1>11 DEF CallsInv
  <2>2. \A s, r \in Boot : Creating(s)' /\ Creating(r)' /\ local'[s].process = local'[r].process => s = r
    BY <1>2, <1>10, <1>11 DEF CallsInv
  <2>3. ASSUME NEW s \in Boot, Made(s)'
        PROVE  /\ local'[s].uthread \in UThread /\ local'[s].uthread \in heap'
               /\ proc'[local'[s].process].main_uthread = local'[s].uthread
    <3>1. Made(s) /\ local'[s] = local[s] /\ local[s].uthread # u
      BY <1>10, <1>11, <2>3
    <3> QED BY <1>0, <1>2, <1>5, <3>1 DEF CallsInv
  <2>4. \A s, r \in Boot : Made(s)' /\ Made(r)' /\ local'[s].uthread = local'[r].uthread => s = r
    BY <1>2, <1>10, <1>11 DEF CallsInv
  <2> QED BY <2>1, <2>2, <2>3, <2>4 DEF CallsInv
<1>14. HandlesInv'
  <2>1. \A q \in handles' : q \in heap' /\ proc'[q].main_uthread \in UThread /\ proc'[q].main_uthread \in heap'
    <3>1. handles \subseteq Process
      BY <1>2 DEF TypeOK
    <3> QED BY <1>0, <1>2, <1>5, <1>12, <3>1 DEF HandlesInv
  <2>2. \A q \in handles', s \in Boot : Made(s)' => proc'[q].main_uthread # local'[s].uthread
    BY <1>0, <1>2, <1>10, <1>11 DEF HandlesInv
  <2> QED BY <1>0, <1>2, <2>1, <2>2 DEF HandlesInv
<1>15. HeapInv'
  <2>1. ASSUME NEW q \in Process, q \in heap'
        PROVE  q \in handles' \/ \E s \in Boot : Creating(s)' /\ local'[s].process = q
    <3>1. q \in heap /\ q # p
      BY <1>0, <2>1
    <3>2. CASE q \in handles
      BY <1>0, <3>2
    <3>3. ASSUME NEW s \in Boot, Creating(s), local[s].process = q
          PROVE  Creating(s)' /\ local'[s].process = q
      <4>1. s # t
        BY <3>1, <3>3 DEF p
      <4> QED BY <1>10, <1>11, <3>3, <4>1
    <3> QED BY <1>2, <3>1, <3>2, <3>3 DEF HeapInv
  <2>2. ASSUME NEW v \in UThread, v \in heap'
        PROVE  \/ \E q \in handles' : proc'[q].main_uthread = v
               \/ \E s \in Boot : Made(s)' /\ local'[s].uthread = v
    <3>1. v \in heap /\ v # u
      BY <1>0, <2>2
    <3>2. CASE \E q \in handles : proc[q].main_uthread = v
      BY <1>0, <3>2
    <3>3. ASSUME NEW s \in Boot, Made(s), local[s].uthread = v
          PROVE  Made(s)' /\ local'[s].uthread = v
      <4>1. s # t
        BY <3>1, <3>3 DEF u
      <4> QED BY <1>10, <1>11, <3>3, <4>1
    <3> QED BY <1>2, <3>1, <3>2, <3>3 DEF HeapInv
  <2> QED BY <2>1, <2>2 DEF HeapInv
<1> QED BY <1>8, <1>9, <1>13, <1>14, <1>15 DEF BlocksInv

LEMMA BlocksStore ==
  ASSUME BlocksInv, NEW t \in Thread, store(t)
  PROVE  BlocksInv'
<1> DEFINE p == local[t].process
           u == local[t].uthread
<1>1. /\ pc[t] = "store"
      /\ uthread' = [uthread EXCEPT ![u].thread = local[t].thread]
      /\ handles' = handles \union {p}
      /\ local' = [local EXCEPT ![t] = NoLocals]
      /\ pc' = [pc EXCEPT ![t] = "run"]
      /\ UNCHANGED <<life, waits, heap, proc, owner, joined, ended>>
  BY DEF store, At, Goto, GoIdle, lives
<1>2. TypeOK /\ PlacesInv /\ CallsInv /\ HandlesInv /\ HeapInv
  BY DEF BlocksInv
<1>3. /\ local \in [Thread -> Locals] /\ pc \in [Thread -> Places]
      /\ Boot \subseteq Thread
  BY <1>2, ProcessesAssumption DEF TypeOK
<1>4. t \in Boot /\ Creating(t) /\ Made(t)
  BY <1>1, <1>2, CallerIsBoot DEF BootPlaces, Creating, Made
<1>5. /\ p \in Process /\ p \in heap /\ p \notin handles
      /\ u \in UThread /\ u \in heap
      /\ proc[p].main_uthread = u
  BY <1>2, <1>4 DEF CallsInv
<1>6. /\ local' \in [Thread -> Locals]
      /\ \A s \in Thread : s # t => local'[s] = local[s]
  BY <1>1, <1>3 DEF Locals, NoLocals
<1>7. /\ pc' \in [Thread -> Places] /\ pc'[t] = "run"
      /\ \A s \in Thread : s # t => pc'[s] = pc[s]
  BY <1>1, <1>3 DEF Places
<1>0. heap' = heap /\ handles' = handles \union {p} /\ proc' = proc
  BY <1>1
<1>8. TypeOK'
  <2>1. uthread' \in [UThread -> [process : Process \union {NULL}, thread : Thread \union {NULL}]]
    <3>1. uthread' = [uthread EXCEPT ![u] = [uthread[u] EXCEPT !.thread = local[t].thread]]
      BY <1>1
    <3>2. /\ uthread \in [UThread -> [process : Process \union {NULL}, thread : Thread \union {NULL}]]
          /\ local[t].thread \in Thread \union {NULL}
      BY <1>2, <1>3 DEF TypeOK, Locals
    <3>3. [uthread[u] EXCEPT !.thread = local[t].thread] =
            [process |-> uthread[u].process, thread |-> local[t].thread]
      BY <1>5, <3>2
    <3> QED BY <1>5, <3>1, <3>2, <3>3
  <2>2. handles' \subseteq Process
    BY <1>0, <1>2, <1>5 DEF TypeOK
  <2> QED BY <1>1, <1>2, <1>6, <1>7, <2>1, <2>2 DEF TypeOK
<1>9. PlacesInv'
  BY <1>1, <1>2, <1>3, <1>4, <1>7 DEF PlacesInv, BootPlaces
<1>10. /\ \A s \in Boot : Creating(s)' <=> Creating(s) /\ s # t
       /\ \A s \in Boot : Made(s)' <=> Made(s) /\ s # t
       /\ \A s \in Boot : Made(s) => Creating(s)
  BY <1>3, <1>4, <1>7 DEF Creating, Made
<1>11. /\ \A s \in Boot : Creating(s)' => local'[s] = local[s] /\ local[s].process # p
       /\ \A s \in Boot : Made(s)' => local'[s] = local[s] /\ local[s].uthread # u
  BY <1>2, <1>3, <1>4, <1>6, <1>10 DEF CallsInv
<1>12. \A q \in handles : proc[q].main_uthread # u
  BY <1>2, <1>4 DEF HandlesInv
<1> HIDE DEF p, u
<1>13. CallsInv'
  <2>1. \A s \in Boot : Creating(s)' =>
          local'[s].process \in Process /\ local'[s].process \in heap' /\ local'[s].process \notin handles'
    BY <1>0, <1>2, <1>10, <1>11 DEF CallsInv
  <2>2. \A s, r \in Boot : Creating(s)' /\ Creating(r)' /\ local'[s].process = local'[r].process => s = r
    BY <1>2, <1>10, <1>11 DEF CallsInv
  <2>3. ASSUME NEW s \in Boot, Made(s)'
        PROVE  /\ local'[s].uthread \in UThread /\ local'[s].uthread \in heap'
               /\ proc'[local'[s].process].main_uthread = local'[s].uthread
    <3>1. Made(s) /\ local'[s] = local[s] /\ local[s].uthread # u
      BY <1>10, <1>11, <2>3
    <3> QED BY <1>0, <1>2, <3>1 DEF CallsInv
  <2>4. \A s, r \in Boot : Made(s)' /\ Made(r)' /\ local'[s].uthread = local'[r].uthread => s = r
    BY <1>2, <1>10, <1>11 DEF CallsInv
  <2> QED BY <2>1, <2>2, <2>3, <2>4 DEF CallsInv
<1>14. HandlesInv'
  <2>1. \A q \in handles' : q \in heap' /\ proc'[q].main_uthread \in UThread /\ proc'[q].main_uthread \in heap'
    BY <1>0, <1>2, <1>5 DEF HandlesInv
  <2>2. \A q \in handles', s \in Boot : Made(s)' => proc'[q].main_uthread # local'[s].uthread
    BY <1>0, <1>2, <1>5, <1>10, <1>11 DEF HandlesInv
  <2>3. \A q, r \in handles' : proc'[q].main_uthread = proc'[r].main_uthread => q = r
    BY <1>0, <1>2, <1>5, <1>12 DEF HandlesInv
  <2> QED BY <2>1, <2>2, <2>3 DEF HandlesInv
<1>15. HeapInv'
  <2>1. ASSUME NEW q \in Process, q \in heap'
        PROVE  q \in handles' \/ \E s \in Boot : Creating(s)' /\ local'[s].process = q
    <3>1. ASSUME NEW s \in Boot, Creating(s), local[s].process = q, q # p
          PROVE  Creating(s)' /\ local'[s].process = q
      <4>1. s # t
        BY <3>1 DEF p
      <4> QED BY <1>10, <1>11, <3>1, <4>1
    <3> QED BY <1>0, <1>2, <2>1, <3>1 DEF HeapInv
  <2>2. ASSUME NEW v \in UThread, v \in heap'
        PROVE  \/ \E q \in handles' : proc'[q].main_uthread = v
               \/ \E s \in Boot : Made(s)' /\ local'[s].uthread = v
    <3>1. ASSUME NEW s \in Boot, Made(s), local[s].uthread = v, v # u
          PROVE  Made(s)' /\ local'[s].uthread = v
      <4>1. s # t
        BY <3>1 DEF u
      <4> QED BY <1>10, <1>11, <3>1, <4>1
    <3> QED BY <1>0, <1>2, <1>5, <2>2, <3>1 DEF HeapInv
  <2> QED BY <2>1, <2>2 DEF HeapInv
<1> QED BY <1>8, <1>9, <1>13, <1>14, <1>15 DEF BlocksInv

(* What thread_create changes: a thread that does not exist is set up, and *)
(* the caller notes it.                                                    *)
LEMMA CreateDoes ==
  ASSUME BlocksInv, NEW t \in Thread, NEW n \in Thread, thread_create(t, n)
  PROVE  /\ t \in Boot /\ pc[t] = "thread_create" /\ n \notin Boot /\ life[n] = "none" /\ n # t
         /\ life' = [life EXCEPT ![n] = "live"]
         /\ owner' = [owner EXCEPT ![n] = [process |-> NULL, uthread |-> NULL]]
         /\ pc'[t] = "store" /\ pc'[n] = "map_code"
         /\ local'[t].process = local[t].process /\ local'[t].uthread = local[t].uthread
         /\ local'[t].thread = n /\ local'[n].process = local[t].process
         /\ \A s \in Thread : s # t /\ s # n => pc'[s] = pc[s] /\ local'[s] = local[s]
         /\ pc' \in [Thread -> Places] /\ local' \in [Thread -> Locals]
         /\ UNCHANGED <<waits, heap, proc, uthread, handles, joined, ended>>
<1>1. /\ pc[t] = "thread_create" /\ life[n] = "none"
      /\ life' = [life EXCEPT ![n] = "live"]
      /\ owner' = [owner EXCEPT ![n] = [process |-> NULL, uthread |-> NULL]]
      /\ pc' = [pc EXCEPT ![t] = "store", ![n] = "map_code"]
      /\ local' = [local EXCEPT ![t].thread = n,
                                ![n] = [NoLocals EXCEPT !.process = local[t].process]]
      /\ UNCHANGED <<waits, heap, proc, uthread, handles, joined, ended>>
  BY DEF thread_create, At, Kernel!Create, history
<1>2. TypeOK /\ PlacesInv
  BY DEF BlocksInv
<1>3. /\ local \in [Thread -> Locals] /\ pc \in [Thread -> Places]
  BY <1>2 DEF TypeOK
<1>4. t \in Boot /\ n \notin Boot /\ n # t
  BY <1>1, <1>2, CallerIsBoot DEF PlacesInv, BootPlaces
<1>5. /\ pc'[t] = "store" /\ pc'[n] = "map_code" /\ pc' \in [Thread -> Places]
      /\ \A s \in Thread : s # t /\ s # n => pc'[s] = pc[s]
  BY <1>1, <1>3, <1>4 DEF Places
<1> DEFINE a == [local[t] EXCEPT !.thread = n]
           b == [NoLocals EXCEPT !.process = local[t].process]
<1>6. /\ a \in Locals /\ a.process = local[t].process /\ a.uthread = local[t].uthread /\ a.thread = n
      /\ b \in Locals /\ b.process = local[t].process
  BY <1>3 DEF Locals, NoLocals
<1>7. local' = [[local EXCEPT ![t] = a] EXCEPT ![n] = b]
  BY <1>1
<1> HIDE DEF a, b
<1>8. /\ local'[t] = a /\ local'[n] = b /\ local' \in [Thread -> Locals]
      /\ \A s \in Thread : s # t /\ s # n => local'[s] = local[s]
  BY <1>3, <1>4, <1>6, <1>7
<1> QED BY <1>1, <1>4, <1>5, <1>6, <1>8

LEMMA BlocksThreadCreate ==
  ASSUME BlocksInv, NEW t \in Thread, NEW n \in Thread, thread_create(t, n)
  PROVE  BlocksInv'
<1>1. /\ t \in Boot /\ pc[t] = "thread_create" /\ n \notin Boot /\ n # t
      /\ life' = [life EXCEPT ![n] = "live"]
      /\ owner' = [owner EXCEPT ![n] = [process |-> NULL, uthread |-> NULL]]
      /\ pc'[t] = "store" /\ pc'[n] = "map_code"
      /\ local'[t].process = local[t].process /\ local'[t].uthread = local[t].uthread
      /\ \A s \in Thread : s # t /\ s # n => pc'[s] = pc[s] /\ local'[s] = local[s]
      /\ pc' \in [Thread -> Places] /\ local' \in [Thread -> Locals]
      /\ UNCHANGED <<waits, heap, proc, uthread, handles, joined, ended>>
  BY CreateDoes
<1>2. TypeOK /\ PlacesInv /\ Boot \subseteq Thread
  BY ProcessesAssumption DEF BlocksInv
<1>3. TypeOK'
  <2>1. life' \in [Thread -> {"none", "live", "exited"}]
    BY <1>1, <1>2 DEF TypeOK
  <2>2. owner' \in [Thread -> [process : Process \union {NULL}, uthread : UThread \union {NULL}]]
    BY <1>1, <1>2 DEF TypeOK
  <2> QED BY <1>1, <1>2, <2>1, <2>2 DEF TypeOK
<1>4. PlacesInv'
  <2>1. \A s \in Boot : life'[s] = "live"
    BY <1>1, <1>2 DEF PlacesInv, TypeOK
  <2> QED BY <1>1, <1>2, <2>1 DEF PlacesInv, BootPlaces
<1>5. \A s \in Boot : /\ Creating(s)' <=> Creating(s)
                      /\ Made(s)' <=> Made(s)
                      /\ Creating(s) => /\ local'[s].process = local[s].process
                                        /\ local'[s].uthread = local[s].uthread
  BY <1>1, <1>2 DEF Creating, Made
<1> QED BY <1>1, <1>3, <1>4, <1>5, BlocksStay

(* The steps of process_stub and of a user thread change nothing else than *)
(* where the thread is, its owner, its life and the return value.          *)
LEMMA StubDoes ==
  ASSUME BlocksInv, NEW t \in Thread,
         \/ vma_map(t, "map_code", "map_stack") \/ vma_map(t, "map_stack", "set_process")
         \/ set_process(t) \/ process_set_retval(t) \/ thread_finish(t)
  PROVE  /\ t \notin Boot /\ life[t] = "live"
         /\ pc' \in [Thread -> Places] /\ pc'[t] \notin BootPlaces
         /\ \A s \in Thread : s # t => pc'[s] = pc[s]
         /\ \A p \in Process : proc'[p].main_uthread = proc[p].main_uthread
         /\ life' = life \/ life' = [life EXCEPT ![t] = "exited"]
         /\ UNCHANGED <<waits, heap, uthread, local, handles, joined>>
<1>1. TypeOK /\ PlacesInv /\ pc \in [Thread -> Places]
  BY DEF BlocksInv, TypeOK
<1>2. ASSUME NEW from, NEW to, vma_map(t, from, to)
      PROVE  /\ pc[t] = from
             /\ pc' = [pc EXCEPT ![t] = to] \/ pc' = [pc EXCEPT ![t] = "finish"]
             /\ UNCHANGED <<life, waits, heap, proc, uthread, owner, local, handles, joined, ended>>
  BY <1>2 DEF vma_map, At, Goto, lives, tables, history
<1>3. ASSUME set_process(t)
      PROVE  /\ pc[t] = "set_process" /\ pc' = [pc EXCEPT ![t] = "user"]
             /\ UNCHANGED <<life, waits, heap, proc, uthread, local, handles, joined, ended>>
  BY <1>3 DEF set_process, At, Goto, lives, history
<1>4. ASSUME process_set_retval(t)
      PROVE  /\ pc[t] = "user" /\ pc' = [pc EXCEPT ![t] = "finish"]
             /\ \A p \in Process : proc'[p].main_uthread = proc[p].main_uthread
             /\ UNCHANGED <<life, waits, heap, uthread, owner, local, handles, joined, ended>>
  <2>1. /\ pc[t] = "user" /\ pc' = [pc EXCEPT ![t] = "finish"]
        /\ proc' = [proc EXCEPT ![owner[t].process].retval = "set"]
        /\ UNCHANGED <<life, waits, heap, uthread, owner, local, handles, joined, ended>>
    BY <1>4 DEF process_set_retval, At, Goto, lives, history
  <2>2. proc \in [Process -> [main_uthread : UThread \union {NULL}, retval : {"unset", "set"}]]
    BY <1>1 DEF TypeOK
  <2>3. ASSUME NEW p \in Process
        PROVE  proc'[p].main_uthread = proc[p].main_uthread
    BY <2>1, <2>2
  <2> QED BY <2>1, <2>3
<1>5. ASSUME thread_finish(t)
      PROVE  /\ pc[t] \in {"user", "finish"} /\ pc' = [pc EXCEPT ![t] = "dead"]
             /\ life' = [life EXCEPT ![t] = "exited"]
             /\ UNCHANGED <<waits, heap, proc, uthread, owner, local, handles, joined>>
  BY <1>5 DEF thread_finish, At, Goto, Kernel!Exit, tables
<1>6. life[t] = "live"
  BY DEF vma_map, set_process, process_set_retval, thread_finish, At
<1>7. /\ pc[t] \in {"map_code", "map_stack", "set_process", "user", "finish"}
      /\ \E x \in {"map_stack", "set_process", "user", "finish", "dead"} : pc' = [pc EXCEPT ![t] = x]
      /\ \A p \in Process : proc'[p].main_uthread = proc[p].main_uthread
      /\ life' = life \/ life' = [life EXCEPT ![t] = "exited"]
      /\ UNCHANGED <<waits, heap, uthread, local, handles, joined>>
  <2>1. CASE vma_map(t, "map_code", "map_stack")
    <3>1. /\ pc[t] = "map_code"
          /\ pc' = [pc EXCEPT ![t] = "map_stack"] \/ pc' = [pc EXCEPT ![t] = "finish"]
          /\ UNCHANGED <<life, waits, heap, proc, uthread, local, handles, joined>>
      BY <2>1, <1>2
    <3> QED BY <3>1
  <2>2. CASE vma_map(t, "map_stack", "set_process")
    <3>1. /\ pc[t] = "map_stack"
          /\ pc' = [pc EXCEPT ![t] = "set_process"] \/ pc' = [pc EXCEPT ![t] = "finish"]
          /\ UNCHANGED <<life, waits, heap, proc, uthread, local, handles, joined>>
      BY <2>2, <1>2
    <3> QED BY <3>1
  <2>3. CASE set_process(t)
    BY <2>3, <1>3
  <2>4. CASE process_set_retval(t)
    BY <2>4, <1>4
  <2>5. CASE thread_finish(t)
    BY <2>5, <1>5
  <2> QED BY <2>1, <2>2, <2>3, <2>4, <2>5
<1>8. t \notin Boot
  BY <1>1, <1>7 DEF PlacesInv, BootPlaces
<1>9. /\ pc' \in [Thread -> Places] /\ pc'[t] \notin BootPlaces
      /\ \A s \in Thread : s # t => pc'[s] = pc[s]
  BY <1>1, <1>7 DEF Places, BootPlaces
<1> QED BY <1>6, <1>7, <1>8, <1>9

LEMMA BlocksStub ==
  ASSUME BlocksInv, NEW t \in Thread,
         \/ vma_map(t, "map_code", "map_stack") \/ vma_map(t, "map_stack", "set_process")
         \/ set_process(t) \/ process_set_retval(t) \/ thread_finish(t),
         owner' \in [Thread -> [process : Process \union {NULL}, uthread : UThread \union {NULL}]],
         proc' \in [Process -> [main_uthread : UThread \union {NULL}, retval : {"unset", "set"}]],
         ended' \subseteq Process
  PROVE  BlocksInv'
<1>1. /\ t \notin Boot /\ life[t] = "live"
      /\ pc' \in [Thread -> Places] /\ pc'[t] \notin BootPlaces
      /\ \A s \in Thread : s # t => pc'[s] = pc[s]
      /\ \A p \in Process : proc'[p].main_uthread = proc[p].main_uthread
      /\ life' = life \/ life' = [life EXCEPT ![t] = "exited"]
      /\ UNCHANGED <<waits, heap, uthread, local, handles, joined>>
  BY StubDoes
<1>2. TypeOK /\ PlacesInv /\ Boot \subseteq Thread
  BY ProcessesAssumption DEF BlocksInv
<1>3. /\ life' \in [Thread -> {"none", "live", "exited"}]
      /\ \A s \in Thread : s # t => life'[s] = life[s]
  BY <1>1, <1>2 DEF TypeOK
<1>4. TypeOK'
  BY <1>1, <1>2, <1>3 DEF TypeOK
<1>5. PlacesInv'
  BY <1>1, <1>2, <1>3 DEF PlacesInv
<1>6. \A s \in Boot : /\ Creating(s)' <=> Creating(s)
                      /\ Made(s)' <=> Made(s)
  BY <1>1, <1>2 DEF Creating, Made
<1> QED BY <1>1, <1>4, <1>5, <1>6, BlocksStay

(* process_join and thread_join change where the caller is, what it joins, *)
(* and the life of what it reaps.                                          *)
LEMMA JoinDoes ==
  ASSUME BlocksInv, NEW t \in Thread,
         (\E p \in Process : process_join(t, p)) \/ thread_join(t) \/ join_reap(t)
  PROVE  /\ t \in Boot
         /\ pc[t] \in {"run", "thread_join", "wait"} /\ pc'[t] \in {"run", "thread_join", "wait"}
         /\ \A s \in Thread : s # t => pc'[s] = pc[s] /\ local'[s] = local[s]
         /\ pc' \in [Thread -> Places] /\ local' \in [Thread -> Locals]
         /\ life' \in [Thread -> {"none", "live", "exited"}]
         /\ \A s \in Boot : life'[s] = "live"
         /\ waits' \in [Thread -> Thread \union {NULL}]
         /\ joined' \subseteq Process
         /\ UNCHANGED <<heap, proc, uthread, owner, handles, ended>>
<1>1. TypeOK /\ PlacesInv /\ pc \in [Thread -> Places] /\ local \in [Thread -> Locals]
      /\ Boot \subseteq Thread
      /\ life \in [Thread -> {"none", "live", "exited"}]
      /\ waits \in [Thread -> Thread \union {NULL}]
      /\ joined \subseteq Process
  BY ProcessesAssumption DEF BlocksInv, TypeOK
<1>2. pc[t] \in {"run", "thread_join", "wait"}
  BY DEF process_join, thread_join, join_reap, At
<1>3. t \in Boot
  BY <1>1, <1>2, CallerIsBoot DEF BootPlaces
<1>4. ASSUME NEW p \in Process, process_join(t, p)
      PROVE  /\ pc' = [pc EXCEPT ![t] = "thread_join"]
             /\ local' \in [Thread -> Locals]
             /\ \A s \in Thread : s # t => local'[s] = local[s]
             /\ UNCHANGED <<life, waits>> /\ joined' \subseteq Process
             /\ UNCHANGED <<heap, proc, uthread, owner, handles, ended>>
  <2>1. /\ pc' = [pc EXCEPT ![t] = "thread_join"]
        /\ p \in handles
        /\ local' = [local EXCEPT ![t].process = p,
                                  ![t].thread = uthread[proc[p].main_uthread].thread]
        /\ joined' = joined \union {p}
        /\ UNCHANGED <<life, waits, heap, proc, uthread, owner, handles, ended>>
    BY <1>4 DEF process_join, Goto, lives, tables
  <2> DEFINE n == uthread[proc[p].main_uthread].thread
             a == [[local[t] EXCEPT !.process = p] EXCEPT !.thread = n]
  <2>2. n \in Thread \union {NULL}
    <3>1. proc[p].main_uthread \in UThread
      BY <2>1 DEF BlocksInv, HandlesInv
    <3> QED BY <1>1, <3>1 DEF TypeOK
  <2>3. local' = [local EXCEPT ![t] = a]
    BY <1>1, <2>1
  <2>4. a \in Locals
    <3> HIDE DEF n
    <3>1. local[t] \in Locals /\ p \in Process \union {NULL}
      BY <1>1
    <3>2. [local[t] EXCEPT !.process = p] \in Locals
      BY <3>1 DEF Locals
    <3> QED BY <2>2, <3>2 DEF Locals
  <2> HIDE DEF a
  <2> QED BY <1>1, <2>1, <2>3, <2>4
<1>5. ASSUME thread_join(t)
      PROVE  /\ \E x \in {"run", "wait"} : pc' = [pc EXCEPT ![t] = x]
             /\ local' = local \/ local' = [local EXCEPT ![t] = NoLocals]
             /\ life' = life /\ waits' \in [Thread -> Thread \union {NULL}]
             /\ UNCHANGED <<heap, proc, uthread, owner, handles, joined, ended>>
  <2>1. CASE thread_can_join(t, local[t].thread)
    <3>1. /\ pc' = [pc EXCEPT ![t] = "wait"] /\ local' = local /\ life' = life
          /\ waits' = [waits EXCEPT ![t] = local[t].thread]
          /\ UNCHANGED <<heap, proc, uthread, owner, handles, joined, ended>>
      BY <1>5, <2>1 DEF thread_join, Kernel!Wait, Goto, tables, history
    <3>2. local[t].thread \in Thread \union {NULL}
      BY <1>1 DEF Locals
    <3> QED BY <1>1, <3>1, <3>2
  <2>2. CASE ~thread_can_join(t, local[t].thread)
    BY <1>1, <1>5, <2>2 DEF thread_join, Goto, GoIdle, lives, tables, history
  <2> QED BY <2>1, <2>2
<1>6. ASSUME join_reap(t)
      PROVE  /\ pc' = [pc EXCEPT ![t] = "run"]
             /\ local' = [local EXCEPT ![t] = NoLocals]
             /\ life' \in [Thread -> {"none", "live", "exited"}]
             /\ \A s \in Boot : life'[s] = life[s]
             /\ waits' \in [Thread -> Thread \union {NULL}]
             /\ UNCHANGED <<heap, proc, uthread, owner, handles, joined, ended>>
  <2>1. /\ pc' = [pc EXCEPT ![t] = "run"]
        /\ local' = [local EXCEPT ![t] = NoLocals]
        /\ life' = [life EXCEPT ![local[t].thread] = "none"]
        /\ life[local[t].thread] = "exited"
        /\ waits' = [waits EXCEPT ![t] = NULL]
        /\ UNCHANGED <<heap, proc, uthread, owner, handles, joined, ended>>
    BY <1>6 DEF join_reap, Kernel!Reap, Goto, GoIdle, tables, history
  <2>2. /\ life' \in [Thread -> {"none", "live", "exited"}]
        /\ \A s \in Thread : s # local[t].thread => life'[s] = life[s]
    BY <1>1, <2>1
  <2>3. local[t].thread \notin Boot
    BY <1>1, <2>1 DEF PlacesInv
  <2> QED BY <1>1, <2>1, <2>2, <2>3
<1>7. /\ \E x \in {"run", "thread_join", "wait"} : pc' = [pc EXCEPT ![t] = x]
      /\ local' \in [Thread -> Locals] /\ \A s \in Thread : s # t => local'[s] = local[s]
      /\ life' \in [Thread -> {"none", "live", "exited"}]
      /\ \A s \in Boot : life'[s] = life[s]
      /\ waits' \in [Thread -> Thread \union {NULL}]
      /\ joined' \subseteq Process
      /\ UNCHANGED <<heap, proc, uthread, owner, handles, ended>>
  <2>1. /\ [local EXCEPT ![t] = NoLocals] \in [Thread -> Locals]
        /\ \A s \in Thread : s # t => [local EXCEPT ![t] = NoLocals][s] = local[s]
    BY <1>1 DEF Locals, NoLocals
  <2>2. CASE \E p \in Process : process_join(t, p)
    BY <1>1, <1>4, <2>2
  <2>3. CASE thread_join(t)
    BY <1>1, <1>5, <2>1, <2>3
  <2>4. CASE join_reap(t)
    BY <1>1, <1>6, <2>1, <2>4
  <2> QED BY <2>2, <2>3, <2>4
<1>8. /\ pc' \in [Thread -> Places] /\ pc'[t] \in {"run", "thread_join", "wait"}
      /\ \A s \in Thread : s # t => pc'[s] = pc[s]
  BY <1>1, <1>7 DEF Places
<1> QED BY <1>1, <1>2, <1>3, <1>7, <1>8 DEF PlacesInv

LEMMA BlocksJoin ==
  ASSUME BlocksInv, NEW t \in Thread,
         (\E p \in Process : process_join(t, p)) \/ thread_join(t) \/ join_reap(t)
  PROVE  BlocksInv'
<1>1. /\ t \in Boot
      /\ pc[t] \in {"run", "thread_join", "wait"} /\ pc'[t] \in {"run", "thread_join", "wait"}
      /\ \A s \in Thread : s # t => pc'[s] = pc[s] /\ local'[s] = local[s]
      /\ pc' \in [Thread -> Places] /\ local' \in [Thread -> Locals]
      /\ life' \in [Thread -> {"none", "live", "exited"}]
      /\ \A s \in Boot : life'[s] = "live"
      /\ waits' \in [Thread -> Thread \union {NULL}]
      /\ joined' \subseteq Process
      /\ UNCHANGED <<heap, proc, uthread, owner, handles, ended>>
  BY JoinDoes
<1>2. TypeOK /\ PlacesInv /\ Boot \subseteq Thread
  BY ProcessesAssumption DEF BlocksInv
<1>3. TypeOK'
  BY <1>1, <1>2 DEF TypeOK
<1>4. PlacesInv'
  BY <1>1, <1>2 DEF PlacesInv, BootPlaces
<1>5. \A s \in Boot : /\ Creating(s)' <=> Creating(s)
                      /\ Made(s)' <=> Made(s)
                      /\ Creating(s) => local'[s] = local[s]
  BY <1>1, <1>2 DEF Creating, Made
<1> QED BY <1>1, <1>3, <1>4, <1>5, BlocksStay

-----------------------------------------------------------------------------
LEMMA InitStub == Init => StubInv
BY ProcessesAssumption DEF Init, Kernel!Init, StubInv, Made, At

(* A thread that exists and is no boot thread has a process that is in use. *)
LEMMA StubProcess ==
  ASSUME BlocksInv, StubInv, NEW n \in Thread \ Boot, life[n] # "none"
  PROVE  /\ local[n].process \in Process /\ local[n].process \in heap
         /\ \/ local[n].process \in handles
            \/ \E t \in Boot : pc[t] = "store" /\ local[t].process = local[n].process
<1>1. handles \subseteq Process
  BY DEF BlocksInv, TypeOK
<1>2. \A t \in Boot : pc[t] = "store" => local[t].process \in Process /\ local[t].process \in heap
  BY DEF BlocksInv, CallsInv, Creating
<1> QED BY <1>1, <1>2 DEF StubInv, BlocksInv, HandlesInv

(* A step that leaves alone what StubInv speaks of. *)
LEMMA StubStay ==
  ASSUME BlocksInv, StubInv, uthread' = uthread, handles' = handles,
         \A u \in UThread : u \in heap' <=> u \in heap,
         \A p \in Process : proc'[p].main_uthread = proc[p].main_uthread,
         \A t \in Boot : /\ Made(t)' <=> Made(t)
                         /\ pc'[t] = "store" <=> pc[t] = "store"
                         /\ Made(t) => local'[t] = local[t],
         \A n \in Thread \ Boot : /\ local'[n] = local[n]
                                  /\ life'[n] # "none" => life[n] # "none",
         \A n \in Thread : At(n, "user")' => n \notin Boot /\ At(n, "user") /\ owner'[n] = owner[n]
  PROVE  StubInv'
<1>1. handles \subseteq Process
  BY DEF BlocksInv, TypeOK
<1>2. \A t \in Boot : pc[t] = "store" => Made(t)
  BY DEF Made
<1>3. \A u \in UThread : u \notin heap' => uthread'[u].thread = NULL
  BY DEF StubInv
<1>4. \A t \in Boot : Made(t)' =>
       /\ uthread'[local'[t].uthread].process = local'[t].process
       /\ uthread'[local'[t].uthread].thread = NULL
  BY DEF StubInv
<1>5. \A p \in handles' : uthread'[proc'[p].main_uthread].process = p
  BY <1>1 DEF StubInv
<1>6. ASSUME NEW n \in Thread \ Boot, life'[n] # "none"
      PROVE  \/ /\ local'[n].process \in handles'
                /\ uthread'[proc'[local'[n].process].main_uthread].thread = n
             \/ \E t \in Boot : /\ pc'[t] = "store" /\ local'[t].process = local'[n].process
                                /\ local'[t].thread = n
  <2>1. CASE /\ local[n].process \in handles
             /\ uthread[proc[local[n].process].main_uthread].thread = n
    BY <1>1, <2>1
  <2>2. ASSUME NEW t \in Boot, pc[t] = "store", local[t].process = local[n].process,
               local[t].thread = n
        PROVE  /\ pc'[t] = "store" /\ local'[t].process = local'[n].process
               /\ local'[t].thread = n
    BY <1>2, <2>2
  <2> QED BY <1>6, <2>1, <2>2 DEF StubInv
<1>7. ASSUME NEW n \in Thread, At(n, "user")'
      PROVE  /\ owner'[n].process = local'[n].process
             /\ owner'[n].uthread = proc'[local'[n].process].main_uthread
  <2>1. n \notin Boot /\ At(n, "user") /\ owner'[n] = owner[n] /\ local'[n] = local[n]
    BY <1>7
  <2>2. local[n].process \in Process
    BY <2>1, StubProcess DEF At
  <2> QED BY <2>1, <2>2 DEF StubInv
<1> QED BY <1>3, <1>4, <1>5, <1>6, <1>7 DEF StubInv

LEMMA StubMallocUThread ==
  ASSUME BlocksInv, StubInv, NEW t \in Thread, NEW u \in UThread, malloc_uthread(t, u)
  PROVE  StubInv'
<1> DEFINE p == local[t].process
<1>1. /\ pc[t] = "malloc_uthread" /\ u \notin heap
      /\ heap' = heap \union {u}
      /\ local' = [local EXCEPT ![t].uthread = u]
      /\ proc' = [proc EXCEPT ![p].main_uthread = u]
      /\ uthread' = [uthread EXCEPT ![u].process = p]
      /\ pc' = [pc EXCEPT ![t] = "thread_create"]
      /\ UNCHANGED <<life, waits, owner, handles, joined, ended>>
  BY DEF malloc_uthread, At, Goto, lives, history
<1>2. TypeOK /\ PlacesInv /\ CallsInv /\ HandlesInv /\ Boot \subseteq Thread
  BY ProcessesAssumption DEF BlocksInv
<1>3. t \in Boot /\ Creating(t) /\ ~Made(t)
  BY <1>1, <1>2, CallerIsBoot DEF BootPlaces, Creating, Made
<1>4. p \in Process /\ p \notin handles
  BY <1>2, <1>3 DEF CallsInv
<1>0. /\ heap' = heap \union {u} /\ handles' = handles /\ u \notin heap
      /\ life' = life /\ owner' = owner
  BY <1>1
<1>5. /\ local'[t].uthread = u /\ local'[t].process = p
      /\ \A s \in Thread : s # t => local'[s] = local[s]
  BY <1>1, <1>2 DEF TypeOK, Locals
<1>6. pc'[t] = "thread_create" /\ \A s \in Thread : s # t => pc'[s] = pc[s]
  BY <1>1, <1>2 DEF TypeOK
<1>7. \A q \in Process : q # p => proc'[q] = proc[q]
  BY <1>1, <1>2 DEF TypeOK
<1>8. /\ \A v \in UThread : v # u => uthread'[v] = uthread[v]
      /\ uthread'[u].process = p /\ uthread'[u].thread = uthread[u].thread
  <2>1. /\ uthread \in [UThread -> [process : Process \union {NULL}, thread : Thread \union {NULL}]]
        /\ uthread' = [uthread EXCEPT ![u] = [uthread[u] EXCEPT !.process = p]]
    BY <1>1, <1>2 DEF TypeOK
  <2>2. [uthread[u] EXCEPT !.process = p] = [process |-> p, thread |-> uthread[u].thread]
    BY <2>1
  <2> QED BY <2>1, <2>2
<1>9. uthread[u].thread = NULL
  BY <1>0 DEF StubInv
<1>10. \A s \in Boot : s # t /\ Creating(s) => local[s].process # p
  BY <1>2, <1>3 DEF CallsInv
<1> HIDE DEF p
<1>11. \A q \in handles : /\ q \in Process /\ proc'[q] = proc[q]
                          /\ proc[q].main_uthread \in UThread /\ proc[q].main_uthread # u
                          /\ uthread'[proc'[q].main_uthread] = uthread[proc[q].main_uthread]
  BY <1>0, <1>2, <1>4, <1>7, <1>8 DEF HandlesInv, TypeOK
<1>12. \A v \in UThread : v \notin heap' => uthread'[v].thread = NULL
  BY <1>0, <1>8 DEF StubInv
<1>13. ASSUME NEW s \in Boot, Made(s)'
       PROVE  /\ uthread'[local'[s].uthread].process = local'[s].process
              /\ uthread'[local'[s].uthread].thread = NULL
  <2>1. CASE s = t
    BY <1>5, <1>8, <1>9, <2>1
  <2>2. CASE s # t
    <3>1. Made(s) /\ local'[s] = local[s]
      BY <1>2, <1>5, <1>6, <1>13, <2>2 DEF Made
    <3>2. local[s].uthread \in UThread /\ local[s].uthread # u
      BY <1>0, <1>2, <3>1 DEF CallsInv
    <3> QED BY <1>8, <3>1, <3>2 DEF StubInv
  <2> QED BY <2>1, <2>2
<1>14. \A q \in handles' : uthread'[proc'[q].main_uthread].process = q
  BY <1>0, <1>11 DEF StubInv
<1>15. ASSUME NEW n \in Thread \ Boot, life'[n] # "none"
       PROVE  \/ /\ local'[n].process \in handles'
                 /\ uthread'[proc'[local'[n].process].main_uthread].thread = n
              \/ \E s \in Boot : /\ pc'[s] = "store" /\ local'[s].process = local'[n].process
                                 /\ local'[s].thread = n
  <2>0. local'[n] = local[n] /\ life[n] # "none"
    BY <1>0, <1>3, <1>5, <1>15
  <2>1. CASE /\ local[n].process \in handles
             /\ uthread[proc[local[n].process].main_uthread].thread = n
    BY <1>0, <1>11, <2>0, <2>1
  <2>2. ASSUME NEW s \in Boot, pc[s] = "store", local[s].process = local[n].process,
               local[s].thread = n
        PROVE  /\ pc'[s] = "store" /\ local'[s].process = local'[n].process
               /\ local'[s].thread = n
    <3>1. s # t
      BY <1>1, <2>2
    <3> QED BY <1>2, <1>5, <1>6, <2>0, <2>2, <3>1
  <2> QED BY <2>0, <2>1, <2>2 DEF StubInv
<1>16. ASSUME NEW n \in Thread, At(n, "user")'
       PROVE  /\ owner'[n].process = local'[n].process
              /\ owner'[n].uthread = proc'[local'[n].process].main_uthread
  <2>1. n # t
    BY <1>6, <1>16 DEF At
  <2>2. At(n, "user") /\ local'[n] = local[n]
    BY <1>0, <1>5, <1>6, <1>16, <2>1 DEF At
  <2>3. n \notin Boot /\ life[n] # "none"
    BY <1>2, <2>2 DEF At, PlacesInv, BootPlaces
  <2>4. local[n].process \in Process /\ local[n].process # p
    <3>1. \A s \in Boot : pc[s] = "store" => local[s].process # p
      BY <1>1, <1>10 DEF Creating
    <3> QED BY <1>4, <2>3, <3>1, StubProcess
  <2> QED BY <1>0, <1>7, <2>2, <2>4 DEF StubInv
<1> QED BY <1>12, <1>13, <1>14, <1>15, <1>16 DEF StubInv

LEMMA StubThreadCreate ==
  ASSUME BlocksInv, StubInv, NEW t \in Thread, NEW n \in Thread, thread_create(t, n)
  PROVE  StubInv'
<1>1. /\ t \in Boot /\ pc[t] = "thread_create" /\ n \notin Boot /\ n # t
      /\ life' = [life EXCEPT ![n] = "live"]
      /\ owner' = [owner EXCEPT ![n] = [process |-> NULL, uthread |-> NULL]]
      /\ pc'[t] = "store" /\ pc'[n] = "map_code"
      /\ local'[t].process = local[t].process /\ local'[t].uthread = local[t].uthread
      /\ local'[t].thread = n /\ local'[n].process = local[t].process
      /\ \A s \in Thread : s # t /\ s # n => pc'[s] = pc[s] /\ local'[s] = local[s]
      /\ UNCHANGED <<waits, heap, proc, uthread, handles, joined, ended>>
  BY CreateDoes
<1>2. TypeOK /\ PlacesInv /\ Boot \subseteq Thread
  BY ProcessesAssumption DEF BlocksInv
<1>3. /\ \A s \in Thread : s # n => life'[s] = life[s] /\ owner'[s] = owner[s]
      /\ uthread' = uthread /\ proc' = proc /\ handles' = handles /\ heap' = heap
  BY <1>1, <1>2 DEF TypeOK
<1>4. /\ t \in Boot /\ pc[t] = "thread_create" /\ n \notin Boot /\ n # t
      /\ pc'[t] = "store" /\ pc'[n] = "map_code"
      /\ local'[t].process = local[t].process /\ local'[t].uthread = local[t].uthread
      /\ local'[t].thread = n /\ local'[n].process = local[t].process
      /\ \A s \in Thread : s # t /\ s # n => pc'[s] = pc[s] /\ local'[s] = local[s]
  BY <1>1
<1>5. \A s \in Boot : /\ Made(s)' <=> Made(s)
                      /\ local'[s].process = local[s].process /\ local'[s].uthread = local[s].uthread
  BY <1>2, <1>4 DEF Made
<1>6. \A s \in Boot : Made(s)' =>
        /\ uthread'[local'[s].uthread].process = local'[s].process
        /\ uthread'[local'[s].uthread].thread = NULL
  BY <1>3, <1>5 DEF StubInv
<1>7. ASSUME NEW m \in Thread \ Boot, life'[m] # "none"
      PROVE  \/ /\ local'[m].process \in handles'
                /\ uthread'[proc'[local'[m].process].main_uthread].thread = m
             \/ \E s \in Boot : /\ pc'[s] = "store" /\ local'[s].process = local'[m].process
                                /\ local'[s].thread = m
  <2>1. CASE m = n
    BY <1>4, <2>1
  <2>2. CASE m # n
    <3>1. local'[m] = local[m] /\ life[m] # "none"
      BY <1>3, <1>4, <1>7, <2>2
    <3>2. ASSUME NEW s \in Boot, pc[s] = "store", local[s].process = local[m].process,
                 local[s].thread = m
          PROVE  /\ pc'[s] = "store" /\ local'[s].process = local'[m].process
                 /\ local'[s].thread = m
      <4>1. s # t /\ s # n
        BY <1>4, <3>2
      <4> QED BY <1>2, <1>4, <3>1, <3>2, <4>1
    <3> QED BY <1>3, <3>1, <3>2 DEF StubInv
  <2> QED BY <2>1, <2>2
<1>8. ASSUME NEW m \in Thread, At(m, "user")'
      PROVE  /\ owner'[m].process = local'[m].process
             /\ owner'[m].uthread = proc'[local'[m].process].main_uthread
  <2>1. m # n /\ m # t
    BY <1>4, <1>8 DEF At
  <2>2. At(m, "user") /\ local'[m] = local[m] /\ owner'[m] = owner[m]
    BY <1>3, <1>4, <1>8, <2>1 DEF At
  <2> QED BY <1>3, <2>2 DEF StubInv
<1>9. \A v \in UThread : v \notin heap' => uthread'[v].thread = NULL
  BY <1>3 DEF StubInv
<1>10. \A q \in handles' : uthread'[proc'[q].main_uthread].process = q
  BY <1>3 DEF StubInv
<1> QED BY <1>6, <1>7, <1>8, <1>9, <1>10 DEF StubInv

LEMMA StubThreadCreateFails ==
  ASSUME BlocksInv, StubInv, NEW t \in Thread, thread_create_fails(t)
  PROVE  StubInv'
<1> DEFINE p == local[t].process
           u == local[t].uthread
<1>1. /\ pc[t] = "thread_create"
      /\ heap' = heap \ {p, u}
      /\ uthread' = [uthread EXCEPT ![u] = [process |-> NULL, thread |-> NULL]]
      /\ local' = [local EXCEPT ![t] = NoLocals]
      /\ pc' = [pc EXCEPT ![t] = "run"]
      /\ UNCHANGED <<life, waits, proc, owner, handles, joined, ended>>
  BY DEF thread_create_fails, At, Goto, GoIdle, lives, history
<1>2. TypeOK /\ PlacesInv /\ CallsInv /\ HandlesInv /\ Boot \subseteq Thread
  BY ProcessesAssumption DEF BlocksInv
<1>3. t \in Boot /\ Creating(t) /\ Made(t)
  BY <1>1, <1>2, CallerIsBoot DEF BootPlaces, Creating, Made
<1>4. u \in UThread /\ p \in Process /\ p \notin UThread
  BY <1>2, <1>3, ProcessesAssumption DEF CallsInv
<1>0. /\ heap' = heap \ {p, u} /\ handles' = handles /\ proc' = proc
      /\ life' = life /\ owner' = owner
  BY <1>1
<1>5. \A s \in Thread : s # t => local'[s] = local[s]
  BY <1>1, <1>2 DEF TypeOK
<1>6. pc'[t] = "run" /\ \A s \in Thread : s # t => pc'[s] = pc[s]
  BY <1>1, <1>2 DEF TypeOK
<1>7. /\ uthread'[u].thread = NULL
      /\ \A v \in UThread : v # u => uthread'[v] = uthread[v]
  BY <1>1, <1>2, <1>4 DEF TypeOK
<1>8. \A s \in Boot : Made(s) /\ s # t => local[s].uthread # u /\ local[s].uthread \in UThread
  BY <1>2, <1>3 DEF CallsInv
<1>9. \A q \in handles : uthread'[proc'[q].main_uthread] = uthread[proc[q].main_uthread]
  BY <1>0, <1>2, <1>3, <1>7 DEF HandlesInv
<1> HIDE DEF p, u
<1>10. \A v \in UThread : v \notin heap' => uthread'[v].thread = NULL
  BY <1>0, <1>4, <1>7 DEF StubInv
<1>11. ASSUME NEW s \in Boot, Made(s)'
       PROVE  /\ uthread'[local'[s].uthread].process = local'[s].process
              /\ uthread'[local'[s].uthread].thread = NULL
  <2>1. Made(s) /\ s # t /\ local'[s] = local[s]
    BY <1>2, <1>5, <1>6, <1>11 DEF Made
  <2>2. uthread'[local[s].uthread] = uthread[local[s].uthread]
    BY <1>7, <1>8, <2>1
  <2> QED BY <2>1, <2>2 DEF StubInv
<1>12. \A q \in handles' : uthread'[proc'[q].main_uthread].process = q
  BY <1>0, <1>9 DEF StubInv
<1>13. ASSUME NEW n \in Thread \ Boot, life'[n] # "none"
       PROVE  \/ /\ local'[n].process \in handles'
                 /\ uthread'[proc'[local'[n].process].main_uthread].thread = n
              \/ \E s \in Boot : /\ pc'[s] = "store" /\ local'[s].process = local'[n].process
                                 /\ local'[s].thread = n
  <2>0. local'[n] = local[n] /\ life[n] # "none"
    BY <1>0, <1>3, <1>5, <1>13
  <2>1. CASE /\ local[n].process \in handles
             /\ uthread[proc[local[n].process].main_uthread].thread = n
    BY <1>0, <1>9, <2>0, <2>1
  <2>2. ASSUME NEW s \in Boot, pc[s] = "store", local[s].process = local[n].process,
               local[s].thread = n
        PROVE  /\ pc'[s] = "store" /\ local'[s].process = local'[n].process
               /\ local'[s].thread = n
    <3>1. s # t
      BY <1>1, <2>2
    <3> QED BY <1>2, <1>5, <1>6, <2>0, <2>2, <3>1
  <2> QED BY <2>0, <2>1, <2>2 DEF StubInv
<1>14. ASSUME NEW n \in Thread, At(n, "user")'
       PROVE  /\ owner'[n].process = local'[n].process
              /\ owner'[n].uthread = proc'[local'[n].process].main_uthread
  <2>1. n # t
    BY <1>6, <1>14 DEF At
  <2>2. At(n, "user") /\ local'[n] = local[n]
    BY <1>0, <1>5, <1>6, <1>14, <2>1 DEF At
  <2> QED BY <1>0, <2>2 DEF StubInv
<1> QED BY <1>10, <1>11, <1>12, <1>13, <1>14 DEF StubInv

LEMMA StubStore ==
  ASSUME BlocksInv, StubInv, NEW t \in Thread, store(t)
  PROVE  StubInv'
<1> DEFINE p == local[t].process
           u == local[t].uthread
<1>1. /\ pc[t] = "store"
      /\ uthread' = [uthread EXCEPT ![u].thread = local[t].thread]
      /\ handles' = handles \union {p}
      /\ local' = [local EXCEPT ![t] = NoLocals]
      /\ pc' = [pc EXCEPT ![t] = "run"]
      /\ UNCHANGED <<life, waits, heap, proc, owner, joined, ended>>
  BY DEF store, At, Goto, GoIdle, lives
<1>2. TypeOK /\ PlacesInv /\ CallsInv /\ HandlesInv /\ Boot \subseteq Thread
  BY ProcessesAssumption DEF BlocksInv
<1>3. t \in Boot /\ Made(t)
  BY <1>1, <1>2, CallerIsBoot DEF BootPlaces, Made
<1>4. u \in UThread /\ u \in heap /\ proc[p].main_uthread = u
  BY <1>2, <1>3 DEF CallsInv
<1>0. /\ heap' = heap /\ handles' = handles \union {p} /\ proc' = proc
      /\ life' = life /\ owner' = owner
  BY <1>1
<1>5. \A s \in Thread : s # t => local'[s] = local[s]
  BY <1>1, <1>2 DEF TypeOK
<1>6. pc'[t] = "run" /\ \A s \in Thread : s # t => pc'[s] = pc[s]
  BY <1>1, <1>2 DEF TypeOK
<1>7. /\ uthread'[u].thread = local[t].thread /\ uthread'[u].process = uthread[u].process
      /\ \A v \in UThread : v # u => uthread'[v] = uthread[v]
  <2>1. /\ uthread \in [UThread -> [process : Process \union {NULL}, thread : Thread \union {NULL}]]
        /\ uthread' = [uthread EXCEPT ![u] = [uthread[u] EXCEPT !.thread = local[t].thread]]
    BY <1>1, <1>2 DEF TypeOK
  <2>2. [uthread[u] EXCEPT !.thread = local[t].thread] =
          [process |-> uthread[u].process, thread |-> local[t].thread]
    BY <1>4, <2>1
  <2> QED BY <1>4, <2>1, <2>2
<1>8. \A s \in Boot : Made(s) /\ s # t => local[s].uthread # u /\ local[s].uthread \in UThread
  BY <1>2, <1>3 DEF CallsInv
<1>9. \A q \in handles : uthread'[proc'[q].main_uthread] = uthread[proc[q].main_uthread]
  BY <1>0, <1>2, <1>3, <1>7 DEF HandlesInv
<1>10. uthread[u].process = p
  BY <1>3 DEF StubInv
<1> HIDE DEF p, u
<1>11. \A v \in UThread : v \notin heap' => uthread'[v].thread = NULL
  BY <1>0, <1>4, <1>7 DEF StubInv
<1>12. ASSUME NEW s \in Boot, Made(s)'
       PROVE  /\ uthread'[local'[s].uthread].process = local'[s].process
              /\ uthread'[local'[s].uthread].thread = NULL
  <2>1. Made(s) /\ s # t /\ local'[s] = local[s]
    BY <1>2, <1>5, <1>6, <1>12 DEF Made
  <2>2. uthread'[local[s].uthread] = uthread[local[s].uthread]
    BY <1>7, <1>8, <2>1
  <2> QED BY <2>1, <2>2 DEF StubInv
<1>13. \A q \in handles' : uthread'[proc'[q].main_uthread].process = q
  BY <1>0, <1>4, <1>7, <1>9, <1>10 DEF StubInv
<1>14. ASSUME NEW n \in Thread \ Boot, life'[n] # "none"
       PROVE  \/ /\ local'[n].process \in handles'
                 /\ uthread'[proc'[local'[n].process].main_uthread].thread = n
              \/ \E s \in Boot : /\ pc'[s] = "store" /\ local'[s].process = local'[n].process
                                 /\ local'[s].thread = n
  <2>0. local'[n] = local[n] /\ life[n] # "none"
    BY <1>0, <1>3, <1>5, <1>14
  <2>1. CASE /\ local[n].process \in handles
             /\ uthread[proc[local[n].process].main_uthread].thread = n
    BY <1>0, <1>9, <2>0, <2>1
  <2>2. ASSUME NEW s \in Boot, pc[s] = "store", local[s].process = local[n].process,
               local[s].thread = n, s # t
        PROVE  /\ pc'[s] = "store" /\ local'[s].process = local'[n].process
               /\ local'[s].thread = n
    BY <1>2, <1>5, <1>6, <2>0, <2>2
  <2>3. ASSUME local[t].process = local[n].process, local[t].thread = n
        PROVE  /\ local'[n].process \in handles'
               /\ uthread'[proc'[local'[n].process].main_uthread].thread = n
    BY <1>0, <1>4, <1>7, <2>0, <2>3 DEF p
  <2> QED BY <2>0, <2>1, <2>2, <2>3 DEF StubInv
<1>15. ASSUME NEW n \in Thread, At(n, "user")'
       PROVE  /\ owner'[n].process = local'[n].process
              /\ owner'[n].uthread = proc'[local'[n].process].main_uthread
  <2>1. n # t
    BY <1>6, <1>15 DEF At
  <2>2. At(n, "user") /\ local'[n] = local[n]
    BY <1>0, <1>5, <1>6, <1>15, <2>1 DEF At
  <2> QED BY <1>0, <2>2 DEF StubInv
<1> QED BY <1>11, <1>12, <1>13, <1>14, <1>15 DEF StubInv

(* process_stub and the user program; the owner of a thread is set before  *)
(* it gets to user space.                                                  *)
LEMMA StubStub ==
  ASSUME BlocksInv, StubInv, NEW t \in Thread,
         \/ vma_map(t, "map_code", "map_stack") \/ vma_map(t, "map_stack", "set_process")
         \/ set_process(t) \/ process_set_retval(t) \/ thread_finish(t)
  PROVE  BlocksInv' /\ StubInv'
<1>1. /\ t \notin Boot /\ life[t] = "live"
      /\ pc' \in [Thread -> Places] /\ pc'[t] \notin BootPlaces
      /\ \A s \in Thread : s # t => pc'[s] = pc[s]
      /\ \A p \in Process : proc'[p].main_uthread = proc[p].main_uthread
      /\ life' = life \/ life' = [life EXCEPT ![t] = "exited"]
      /\ UNCHANGED <<waits, heap, uthread, local, handles, joined>>
  BY StubDoes
<1>2. TypeOK /\ PlacesInv /\ Boot \subseteq Thread
  BY ProcessesAssumption DEF BlocksInv
<1>3. local[t].process \in Process
  BY <1>1, StubProcess
<1>4. \A s \in Thread : life'[s] # "none" => life[s] # "none"
  BY <1>1, <1>2 DEF TypeOK
<1>5. \A s \in Boot : /\ Made(s)' <=> Made(s)
                      /\ pc'[s] = "store" <=> pc[s] = "store"
  BY <1>1, <1>2 DEF Made
<1>6. \A s \in Thread : At(s, "user")' => s \notin Boot /\ life[s] = "live"
  <2>1. \A s \in Thread : life'[s] = "live" => life[s] = "live"
    BY <1>1, <1>2 DEF TypeOK
  <2>2. \A s \in Boot : pc'[s] # "user"
    BY <1>1, <1>2 DEF PlacesInv, BootPlaces
  <2> QED BY <2>1, <2>2 DEF At
<1>7. CASE set_process(t)
  <2> DEFINE p == local[t].process
  <2>1. /\ owner' = [owner EXCEPT ![t] = [process |-> p, uthread |-> proc[p].main_uthread]]
        /\ UNCHANGED <<life, proc, ended>>
    BY <1>7 DEF set_process, lives, history
  <2>2. proc[p].main_uthread \in UThread \union {NULL}
    BY <1>2, <1>3 DEF TypeOK
  <2>3. /\ owner' \in [Thread -> [process : Process \union {NULL}, uthread : UThread \union {NULL}]]
        /\ owner'[t].process = p /\ owner'[t].uthread = proc[p].main_uthread
        /\ \A s \in Thread : s # t => owner'[s] = owner[s]
    BY <1>2, <1>3, <2>1, <2>2 DEF TypeOK
  <2>4. BlocksInv'
    BY <1>2, <2>1, <2>3, BlocksStub DEF TypeOK
  <2>5. \A s \in Thread : At(s, "user")' =>
          /\ owner'[s].process = local'[s].process
          /\ owner'[s].uthread = proc'[local'[s].process].main_uthread
    BY <1>1, <2>1, <2>3 DEF StubInv, At
  <2>6. StubInv'
    BY <1>1, <1>4, <1>5, <2>1, <2>5 DEF StubInv
  <2> QED BY <2>4, <2>6
<1>8. CASE ~set_process(t)
  <2>1. /\ owner' = owner
        /\ \/ proc' = proc
           \/ proc' = [proc EXCEPT ![owner[t].process].retval = "set"]
        /\ ended' = ended \/ ended' = ended \union {local[t].process}
    BY <1>8 DEF vma_map, process_set_retval, thread_finish, tables, history
  <2>2. proc' \in [Process -> [main_uthread : UThread \union {NULL}, retval : {"unset", "set"}]]
    BY <1>2, <2>1 DEF TypeOK
  <2>3. BlocksInv'
    BY <1>2, <1>3, <1>8, <2>1, <2>2, BlocksStub DEF TypeOK
  <2>4. \A s \in Thread : At(s, "user")' => At(s, "user")
    <3>1. pc'[t] # "user" \/ pc[t] = "user"
      <4>1. CASE vma_map(t, "map_code", "map_stack") \/ vma_map(t, "map_stack", "set_process")
        BY <1>2, <4>1 DEF vma_map, Goto, TypeOK
      <4>2. CASE process_set_retval(t) \/ thread_finish(t)
        BY <1>2, <4>2 DEF process_set_retval, thread_finish, Goto, TypeOK
      <4> QED BY <1>8, <4>1, <4>2
    <3> QED BY <1>1, <1>6, <3>1 DEF At
  <2>5. StubInv'
    BY <1>1, <1>4, <1>5, <1>6, <2>1, <2>4, StubStay
  <2> QED BY <2>3, <2>5
<1> QED BY <1>7, <1>8

LEMMA StubJoin ==
  ASSUME BlocksInv, StubInv, NEW t \in Thread,
         (\E p \in Process : process_join(t, p)) \/ thread_join(t) \/ join_reap(t)
  PROVE  StubInv'
<1>1. /\ t \in Boot
      /\ pc[t] \in {"run", "thread_join", "wait"} /\ pc'[t] \in {"run", "thread_join", "wait"}
      /\ \A s \in Thread : s # t => pc'[s] = pc[s] /\ local'[s] = local[s]
      /\ UNCHANGED <<heap, proc, uthread, owner, handles, ended>>
  BY JoinDoes
<1>2. TypeOK /\ PlacesInv /\ Boot \subseteq Thread
  BY ProcessesAssumption DEF BlocksInv
<1>3. \A n \in Thread : /\ life'[n] # "none" => life[n] # "none"
                        /\ life'[n] = "live" => life[n] = "live"
  <2>1. CASE life' = life
    BY <2>1
  <2>2. CASE life' = [life EXCEPT ![local[t].thread] = "none"]
    BY <1>2, <2>2 DEF TypeOK
  <2>3. life' = life \/ life' = [life EXCEPT ![local[t].thread] = "none"]
    BY DEF process_join, thread_join, join_reap, Kernel!Wait, Kernel!Reap, lives
  <2> QED BY <2>1, <2>2, <2>3
<1>4. \A s \in Boot : /\ Made(s)' <=> Made(s)
                      /\ pc'[s] = "store" <=> pc[s] = "store"
                      /\ Made(s) => local'[s] = local[s]
  BY <1>1, <1>2 DEF Made
<1>5. \A n \in Thread : At(n, "user")' => n \notin Boot /\ At(n, "user") /\ owner'[n] = owner[n]
  BY <1>1, <1>2, <1>3 DEF At, PlacesInv, BootPlaces
<1> QED BY <1>1, <1>3, <1>4, <1>5, StubStay

(* The two steps of process_create that only touch the process. *)
LEMMA StubMalloc ==
  ASSUME BlocksInv, StubInv, NEW t \in Thread,
         (\E p \in Process : malloc_process(t, p)) \/ malloc_uthread_fails(t)
  PROVE  StubInv'
<1>1. /\ pc[t] \in {"run", "malloc_uthread"}
      /\ \E x \in {"run", "malloc_uthread"} : pc' = [pc EXCEPT ![t] = x]
      /\ UNCHANGED <<life, waits, proc, uthread, owner, handles, joined, ended>>
  <2>1. ASSUME NEW p \in Process, malloc_process(t, p)
        PROVE  /\ pc[t] = "run" /\ pc' = [pc EXCEPT ![t] = "malloc_uthread"]
               /\ UNCHANGED <<life, waits, proc, uthread, owner, handles, joined, ended>>
    BY <2>1 DEF malloc_process, At, Goto, lives, history
  <2>2. ASSUME malloc_uthread_fails(t)
        PROVE  /\ pc[t] = "malloc_uthread" /\ pc' = [pc EXCEPT ![t] = "run"]
               /\ UNCHANGED <<life, waits, proc, uthread, owner, handles, joined, ended>>
    BY <2>2 DEF malloc_uthread_fails, At, Goto, GoIdle, lives, history
  <2> QED BY <2>1, <2>2
<1>2. TypeOK /\ PlacesInv /\ CallsInv /\ Boot \subseteq Thread
  BY ProcessesAssumption DEF BlocksInv
<1>3. t \in Boot
  BY <1>1, <1>2, CallerIsBoot DEF BootPlaces
<1>4. /\ pc'[t] \in {"run", "malloc_uthread"}
      /\ \A s \in Thread : s # t => pc'[s] = pc[s]
  BY <1>1, <1>2 DEF TypeOK
<1>5. \A s \in Thread : s # t => local'[s] = local[s]
  BY <1>2 DEF malloc_process, malloc_uthread_fails, GoIdle, TypeOK
<1>6. \A u \in UThread : u \in heap' <=> u \in heap
  <2>1. ASSUME NEW p \in Process, malloc_process(t, p)
        PROVE  \A u \in UThread : u \in heap' <=> u \in heap
    BY <2>1, ProcessesAssumption DEF malloc_process
  <2>2. ASSUME malloc_uthread_fails(t)
        PROVE  \A u \in UThread : u \in heap' <=> u \in heap
    <3>1. pc[t] = "malloc_uthread" /\ heap' = heap \ {local[t].process}
      BY <2>2 DEF malloc_uthread_fails, At
    <3>2. local[t].process \in Process
      BY <1>2, <1>3, <3>1 DEF CallsInv, Creating
    <3> QED BY <3>1, <3>2, ProcessesAssumption
  <2> QED BY <2>1, <2>2
<1>7. \A s \in Boot : /\ Made(s)' <=> Made(s)
                      /\ pc'[s] = "store" <=> pc[s] = "store"
                      /\ Made(s) => local'[s] = local[s]
  BY <1>1, <1>2, <1>4, <1>5 DEF Made
<1>8. \A n \in Thread : At(n, "user")' => n \notin Boot /\ At(n, "user") /\ owner'[n] = owner[n]
  BY <1>1, <1>2, <1>4 DEF At, PlacesInv, BootPlaces
<1> QED BY <1>1, <1>3, <1>5, <1>6, <1>7, <1>8, StubStay

LEMMA NextStub ==
  ASSUME BlocksInv, StubInv, [Next]_vars
  PROVE  BlocksInv' /\ StubInv'
<1>1. CASE UNCHANGED vars
  <2>1. UNCHANGED <<life, waits, heap, proc, uthread, owner, pc, local, handles, joined, ended>>
    BY <1>1 DEF vars
  <2>2. TypeOK' /\ PlacesInv'
    BY <2>1 DEF BlocksInv, TypeOK, PlacesInv
  <2>3. \A s \in Boot : Creating(s)' = Creating(s) /\ Made(s)' = Made(s)
    BY <2>1 DEF Creating, Made
  <2>4. BlocksInv'
    BY <2>1, <2>2, <2>3, BlocksStay
  <2>5. StubInv'
    BY <2>1, <2>3 DEF StubInv, At
  <2> QED BY <2>4, <2>5
<1>2. CASE Next
  <2>1. PICK t \in Thread :
    \/ \E p \in Process : malloc_process(t, p)
    \/ malloc_process_fails(t)
    \/ \E u \in UThread : malloc_uthread(t, u)
    \/ malloc_uthread_fails(t)
    \/ \E n \in Thread : thread_create(t, n)
    \/ thread_create_fails(t)
    \/ store(t)
    \/ vma_map(t, "map_code", "map_stack")
    \/ vma_map(t, "map_stack", "set_process")
    \/ set_process(t)
    \/ process_set_retval(t)
    \/ thread_finish(t)
    \/ \E p \in Process : process_join(t, p)
    \/ thread_join(t)
    \/ join_reap(t)
    BY <1>2 DEF Next
  <2>2. ASSUME NEW p \in Process, malloc_process(t, p) PROVE BlocksInv' /\ StubInv'
    BY <2>2, BlocksMallocProcess, StubMalloc
  <2>3. CASE malloc_process_fails(t)
    BY <1>1, <2>3 DEF malloc_process_fails
  <2>4. ASSUME NEW u \in UThread, malloc_uthread(t, u) PROVE BlocksInv' /\ StubInv'
    BY <2>4, BlocksMallocUThread, StubMallocUThread
  <2>5. CASE malloc_uthread_fails(t)
    BY <2>5, BlocksMallocUThreadFails, StubMalloc
  <2>6. ASSUME NEW n \in Thread, thread_create(t, n) PROVE BlocksInv' /\ StubInv'
    BY <2>6, BlocksThreadCreate, StubThreadCreate
  <2>7. CASE thread_create_fails(t)
    BY <2>7, BlocksThreadCreateFails, StubThreadCreateFails
  <2>8. CASE store(t)
    BY <2>8, BlocksStore, StubStore
  <2>9. CASE \/ vma_map(t, "map_code", "map_stack") \/ vma_map(t, "map_stack", "set_process")
             \/ set_process(t) \/ process_set_retval(t) \/ thread_finish(t)
    BY <2>9, StubStub
  <2>10. CASE (\E p \in Process : process_join(t, p)) \/ thread_join(t) \/ join_reap(t)
    BY <2>10, BlocksJoin, StubJoin
  <2> QED BY <2>1, <2>2, <2>3, <2>4, <2>5, <2>6, <2>7, <2>8, <2>9, <2>10
<1> QED BY <1>1, <1>2

LEMMA StubCorrect == Spec => [](BlocksInv /\ StubInv)
<1>1. Init => BlocksInv /\ StubInv
  BY InitBlocks, InitStub
<1>2. BlocksInv /\ StubInv /\ [Next]_vars => BlocksInv' /\ StubInv'
  BY NextStub
<1> QED BY <1>1, <1>2, PTL DEF Spec

(***************************************************************************)
(* process_create is all or nothing, for any number of callers: whatever   *)
(* fails in whichever of them, the structures in use are those of the      *)
(* processes that were returned and of the calls in progress, and no two   *)
(* processes share a user thread (process.c, process_create).              *)
(***************************************************************************)
THEOREM NoLeaksCorrect == Spec => []NoLeaks
<1>1. BlocksInv => NoLeaks
  <2> SUFFICES ASSUME BlocksInv PROVE NoLeaks
    OBVIOUS
  <2>1. TypeOK /\ CallsInv /\ HandlesInv /\ HeapInv
    BY DEF BlocksInv
  <2>2. handles \subseteq Process
    BY <2>1 DEF TypeOK
  <2>3. heap \cap Process = handles \union {local[t].process : t \in {c \in Boot : Creating(c)}}
    <3>1. ASSUME NEW p \in heap \cap Process
          PROVE  p \in handles \union {local[t].process : t \in {c \in Boot : Creating(c)}}
      BY <2>1 DEF HeapInv
    <3>2. \A p \in handles : p \in heap \cap Process
      BY <2>1, <2>2 DEF HandlesInv
    <3>3. \A t \in Boot : Creating(t) => local[t].process \in heap \cap Process
      BY <2>1 DEF CallsInv
    <3> QED BY <3>1, <3>2, <3>3
  <2>4. heap \cap UThread = {proc[p].main_uthread : p \in handles}
          \union {local[t].uthread : t \in {c \in Boot : pc[c] \in {"thread_create", "store"}}}
    <3>1. ASSUME NEW u \in heap \cap UThread
          PROVE  u \in {proc[p].main_uthread : p \in handles}
             \union {local[t].uthread : t \in {c \in Boot : pc[c] \in {"thread_create", "store"}}}
      BY <2>1 DEF HeapInv, Made
    <3>2. \A p \in handles : proc[p].main_uthread \in heap \cap UThread
      BY <2>1 DEF HandlesInv
    <3>3. \A t \in Boot : pc[t] \in {"thread_create", "store"} => local[t].uthread \in heap \cap UThread
      BY <2>1 DEF CallsInv, Made
    <3> QED BY <3>1, <3>2, <3>3
  <2> QED BY <2>1, <2>3, <2>4 DEF NoLeaks, HandlesInv
<1> QED BY <1>1, StubCorrect, PTL

(***************************************************************************)
(* A thread in user space has a process and a user thread, which refer to  *)
(* each other and to nothing freed, also when process_join is called again *)
(* for a process (thread_set_process, process.c).                          *)
(***************************************************************************)
THEOREM UserCorrect == Spec => []UserHasProcess
<1>1. BlocksInv /\ StubInv => UserHasProcess
  <2> SUFFICES ASSUME BlocksInv, StubInv, NEW t \in Thread, At(t, "user")
               PROVE  LET p == owner[t].process  u == owner[t].uthread IN
                      /\ p \in heap /\ u \in heap
                      /\ proc[p].main_uthread = u /\ uthread[u].process = p
                      /\ uthread[u].thread \in {t, NULL}
    BY DEF UserHasProcess
  <2>1. t \notin Boot /\ life[t] # "none"
    BY DEF At, BlocksInv, PlacesInv, BootPlaces
  <2> DEFINE p == local[t].process
             u == proc[p].main_uthread
  <2>2. owner[t].process = p /\ owner[t].uthread = u
    BY DEF StubInv
  <2>3. \/ p \in handles /\ uthread[u].thread = t
        \/ \E s \in Boot : pc[s] = "store" /\ local[s].process = p /\ local[s].thread = t
    BY <2>1 DEF StubInv
  <2>4. CASE p \in handles /\ uthread[u].thread = t
    BY <2>2, <2>4 DEF StubInv, BlocksInv, HandlesInv
  <2>5. ASSUME NEW s \in Boot, pc[s] = "store", local[s].process = p
        PROVE  /\ p \in heap /\ u \in heap /\ uthread[u].process = p /\ uthread[u].thread = NULL
    <3>1. Creating(s) /\ Made(s)
      BY <2>5 DEF Creating, Made
    <3>2. local[s].process \in heap /\ local[s].uthread \in heap /\ u = local[s].uthread
      BY <2>5, <3>1 DEF BlocksInv, CallsInv
    <3> HIDE DEF p, u
    <3> QED BY <2>5, <3>1, <3>2 DEF StubInv
  <2> HIDE DEF p, u
  <2>6. proc[p].main_uthread = u
    BY DEF u
  <2> QED BY <2>2, <2>3, <2>4, <2>5, <2>6
<1> QED BY <1>1, StubCorrect, PTL

-----------------------------------------------------------------------------
(* A step that leaves alone what JoinInv speaks of. *)
LEMMA JoinStay ==
  ASSUME BlocksInv, JoinInv, joined' = joined, handles' = handles,
         \A p \in handles : uthread'[proc'[p].main_uthread].thread = uthread[proc[p].main_uthread].thread,
         \A t \in Boot : /\ pc'[t] = "store" => pc[t] = "store" /\ local'[t] = local[t]
                         /\ Joining(t)' => Joining(t) /\ local'[t] = local[t],
         \A n \in Thread \ Boot : life[n] # "none" =>
           life'[n] # "none" /\ local'[n].process = local[n].process
  PROVE  JoinInv'
<1>1. ASSUME NEW t \in Boot, pc'[t] = "store"
      PROVE  /\ local'[t].thread \in Thread
             /\ life'[local'[t].thread] # "none"
             /\ local'[local'[t].thread].process = local'[t].process
             /\ local'[t].thread \notin Boot
  <2>1. pc[t] = "store" /\ local'[t] = local[t]
    BY <1>1
  <2>2. /\ local[t].thread \in Thread
        /\ local[t].thread \notin Boot /\ life[local[t].thread] # "none"
        /\ local[local[t].thread].process = local[t].process
    BY <2>1 DEF JoinInv, MainThread
  <2> QED BY <2>1, <2>2
<1>2. \A p \in handles' \ joined' :
        LET n == uthread'[proc'[p].main_uthread].thread IN
        n \in Thread /\ life'[n] # "none" /\ local'[n].process = p /\ n \notin Boot
  BY DEF JoinInv, MainThread
<1>3. ASSUME NEW t \in Boot, Joining(t)'
      PROVE  /\ local'[t].process \in joined'
             /\ local'[t].thread \in Thread
             /\ life'[local'[t].thread] # "none"
             /\ local'[local'[t].thread].process = local'[t].process
             /\ local'[t].thread \notin Boot
  <2>1. Joining(t) /\ local'[t] = local[t]
    BY <1>3
  <2>2. /\ local[t].process \in joined /\ local[t].thread \in Thread
        /\ local[t].thread \notin Boot /\ life[local[t].thread] # "none"
        /\ local[local[t].thread].process = local[t].process
    BY <2>1 DEF JoinInv, MainThread
  <2> QED BY <2>1, <2>2
<1>4. \A t, s \in Boot : Joining(t)' /\ Joining(s)' /\ local'[t].process = local'[s].process => t = s
  BY DEF JoinInv
<1>5. joined' \subseteq handles'
  BY DEF JoinInv
<1> QED BY <1>1, <1>2, <1>3, <1>4, <1>5 DEF JoinInv, MainThread

LEMMA JoinCreate ==
  ASSUME BlocksInv, JoinInv, NEW t \in Thread, NEW n \in Thread, thread_create(t, n)
  PROVE  JoinInv'
<1>1. /\ t \in Boot /\ pc[t] = "thread_create" /\ n \notin Boot /\ life[n] = "none" /\ n # t
      /\ life' = [life EXCEPT ![n] = "live"]
      /\ pc'[t] = "store"
      /\ local'[t].process = local[t].process
      /\ local'[t].thread = n /\ local'[n].process = local[t].process
      /\ \A s \in Thread : s # t /\ s # n => pc'[s] = pc[s] /\ local'[s] = local[s]
      /\ UNCHANGED <<proc, uthread, handles, joined>>
  BY CreateDoes
<1>2. TypeOK /\ PlacesInv /\ Boot \subseteq Thread
  BY ProcessesAssumption DEF BlocksInv
<1>3. life'[n] = "live" /\ \A s \in Thread : s # n => life'[s] = life[s]
  BY <1>1, <1>2 DEF TypeOK
<1>4. /\ \A s \in Boot : s # t => pc'[s] = pc[s] /\ local'[s] = local[s]
      /\ \A s \in Thread \ Boot : s # n => local'[s] = local[s]
      /\ proc' = proc /\ uthread' = uthread /\ handles' = handles /\ joined' = joined
  BY <1>1, <1>2
<1>5. ~Joining(t)' /\ \A s \in Boot : s # t => (Joining(s)' <=> Joining(s))
  BY <1>1, <1>4 DEF Joining
<1>6. ASSUME NEW p, NEW m \in Thread, MainThread(p, m)
      PROVE  life'[m] # "none" /\ local'[m].process = p /\ m \notin Boot
  BY <1>1, <1>3, <1>4, <1>6 DEF MainThread
<1>7. ASSUME NEW s \in Boot, pc'[s] = "store"
      PROVE  /\ local'[s].thread \in Thread
             /\ life'[local'[s].thread] # "none"
             /\ local'[local'[s].thread].process = local'[s].process
             /\ local'[s].thread \notin Boot
  <2>1. CASE s = t
    BY <1>1, <1>3, <2>1
  <2>2. CASE s # t
    <3>1. local'[s] = local[s] /\ pc[s] = "store"
      BY <1>4, <1>7, <2>2
    <3>2. local[s].thread \in Thread /\ MainThread(local[s].process, local[s].thread)
      BY <3>1 DEF JoinInv
    <3> QED BY <1>6, <3>1, <3>2
  <2> QED BY <2>1, <2>2
<1>8. ASSUME NEW p \in handles' \ joined'
      PROVE  LET m == uthread'[proc'[p].main_uthread].thread IN
             m \in Thread /\ life'[m] # "none" /\ local'[m].process = p /\ m \notin Boot
  BY <1>4, <1>6 DEF JoinInv
<1>9. ASSUME NEW s \in Boot, Joining(s)'
      PROVE  /\ local'[s].process \in joined'
             /\ local'[s].thread \in Thread
             /\ life'[local'[s].thread] # "none"
             /\ local'[local'[s].thread].process = local'[s].process
             /\ local'[s].thread \notin Boot
  <2>1. Joining(s) /\ local'[s] = local[s]
    BY <1>4, <1>5, <1>9
  <2>2. /\ local[s].process \in joined /\ local[s].thread \in Thread
        /\ MainThread(local[s].process, local[s].thread)
    BY <2>1 DEF JoinInv
  <2> QED BY <1>4, <1>6, <2>1, <2>2
<1>10. \A r, s \in Boot : Joining(r)' /\ Joining(s)' /\ local'[r].process = local'[s].process => r = s
  BY <1>4, <1>5 DEF JoinInv
<1>11. joined' \subseteq handles'
  BY <1>4 DEF JoinInv
<1> QED BY <1>7, <1>8, <1>9, <1>10, <1>11 DEF JoinInv, MainThread

LEMMA JoinStore ==
  ASSUME BlocksInv, JoinInv, NEW t \in Thread, store(t)
  PROVE  JoinInv'
<1> DEFINE p == local[t].process
           u == local[t].uthread
<1>1. /\ pc[t] = "store"
      /\ uthread' = [uthread EXCEPT ![u].thread = local[t].thread]
      /\ handles' = handles \union {p}
      /\ local' = [local EXCEPT ![t] = NoLocals]
      /\ pc' = [pc EXCEPT ![t] = "run"]
      /\ UNCHANGED <<life, waits, heap, proc, owner, joined, ended>>
  BY DEF store, At, Goto, GoIdle, lives
<1>2. TypeOK /\ PlacesInv /\ CallsInv /\ HandlesInv /\ Boot \subseteq Thread
  BY ProcessesAssumption DEF BlocksInv
<1>3. t \in Boot /\ Made(t)
  BY <1>1, <1>2, CallerIsBoot DEF BootPlaces, Made
<1>4. u \in UThread /\ proc[p].main_uthread = u
  BY <1>2, <1>3 DEF CallsInv
<1>0. handles' = handles \union {p} /\ proc' = proc /\ life' = life /\ joined' = joined
  BY <1>1
<1>5. \A s \in Thread : s # t => local'[s] = local[s]
  BY <1>1, <1>2 DEF TypeOK
<1>6. pc'[t] = "run" /\ \A s \in Thread : s # t => pc'[s] = pc[s]
  BY <1>1, <1>2 DEF TypeOK
<1>7. /\ uthread'[u].thread = local[t].thread
      /\ \A v \in UThread : v # u => uthread'[v] = uthread[v]
  <2>1. /\ uthread \in [UThread -> [process : Process \union {NULL}, thread : Thread \union {NULL}]]
        /\ uthread' = [uthread EXCEPT ![u] = [uthread[u] EXCEPT !.thread = local[t].thread]]
    BY <1>1, <1>2 DEF TypeOK
  <2>2. [uthread[u] EXCEPT !.thread = local[t].thread] =
          [process |-> uthread[u].process, thread |-> local[t].thread]
    BY <1>4, <2>1
  <2> QED BY <1>4, <2>1, <2>2
<1>8. \A q \in handles : uthread'[proc'[q].main_uthread] = uthread[proc[q].main_uthread]
  BY <1>0, <1>2, <1>3, <1>7 DEF HandlesInv
<1>9. local[t].thread \in Thread /\ MainThread(p, local[t].thread)
  BY <1>1, <1>3 DEF JoinInv
<1> HIDE DEF p, u
<1>10. ASSUME NEW q, NEW m \in Thread, MainThread(q, m)
       PROVE  life'[m] # "none" /\ local'[m].process = q /\ m \notin Boot
  BY <1>0, <1>3, <1>5, <1>10 DEF MainThread
<1>11. \A s \in Boot : s # t => pc'[s] = pc[s] /\ local'[s] = local[s] /\ (Joining(s)' <=> Joining(s))
  BY <1>2, <1>5, <1>6 DEF Joining
<1>12. ~Joining(t)'
  BY <1>6 DEF Joining
<1>13. ASSUME NEW s \in Boot, pc'[s] = "store"
       PROVE  /\ local'[s].thread \in Thread
              /\ life'[local'[s].thread] # "none"
              /\ local'[local'[s].thread].process = local'[s].process
              /\ local'[s].thread \notin Boot
  <2>1. s # t /\ pc[s] = "store" /\ local'[s] = local[s]
    BY <1>6, <1>11, <1>13
  <2>2. local[s].thread \in Thread /\ MainThread(local[s].process, local[s].thread)
    BY <2>1 DEF JoinInv
  <2> QED BY <1>10, <2>1, <2>2
<1>14. ASSUME NEW q \in handles' \ joined'
       PROVE  LET m == uthread'[proc'[q].main_uthread].thread IN
              m \in Thread /\ life'[m] # "none" /\ local'[m].process = q /\ m \notin Boot
  <2>1. CASE q = p
    <3>1. uthread'[proc'[q].main_uthread].thread = local[t].thread
      BY <1>0, <1>4, <1>7, <2>1
    <3> QED BY <1>9, <1>10, <2>1, <3>1
  <2>2. CASE q # p
    BY <1>0, <1>8, <1>10, <2>2 DEF JoinInv
  <2> QED BY <2>1, <2>2
<1>15. ASSUME NEW s \in Boot, Joining(s)'
       PROVE  /\ local'[s].process \in joined'
              /\ local'[s].thread \in Thread
              /\ life'[local'[s].thread] # "none"
              /\ local'[local'[s].thread].process = local'[s].process
              /\ local'[s].thread \notin Boot
  <2>1. Joining(s) /\ local'[s] = local[s]
    BY <1>11, <1>12, <1>15
  <2>2. /\ local[s].process \in joined /\ local[s].thread \in Thread
        /\ MainThread(local[s].process, local[s].thread)
    BY <2>1 DEF JoinInv
  <2> QED BY <1>0, <1>10, <2>1, <2>2
<1>16. \A r, s \in Boot : Joining(r)' /\ Joining(s)' /\ local'[r].process = local'[s].process => r = s
  BY <1>11, <1>12 DEF JoinInv
<1>17. joined' \subseteq handles'
  BY <1>0 DEF JoinInv
<1> QED BY <1>13, <1>14, <1>15, <1>16, <1>17 DEF JoinInv, MainThread

(* The thread that process_join reads is still there: nobody has called    *)
(* process_join for this process before.                                   *)
LEMMA JoinProcessJoin ==
  ASSUME ~REJOIN, BlocksInv, JoinInv, NEW t \in Thread, NEW p \in Process, process_join(t, p)
  PROVE  JoinInv'
<1> DEFINE n == uthread[proc[p].main_uthread].thread
<1>1. /\ pc[t] = "run" /\ p \in handles /\ p \notin joined
      /\ joined' = joined \union {p}
      /\ local' = [local EXCEPT ![t].process = p, ![t].thread = n]
      /\ pc' = [pc EXCEPT ![t] = "thread_join"]
      /\ UNCHANGED <<life, waits, heap, proc, uthread, owner, handles, ended>>
  BY DEF process_join, At, Goto, lives, tables
<1>2. TypeOK /\ PlacesInv /\ Boot \subseteq Thread /\ local \in [Thread -> Locals]
  BY ProcessesAssumption DEF BlocksInv, TypeOK
<1>3. t \in Boot
  BY <1>1, <1>2, CallerIsBoot DEF BootPlaces
<1>4. n \in Thread /\ MainThread(p, n)
  BY <1>1 DEF JoinInv
<1>0. /\ joined' = joined \union {p} /\ handles' = handles /\ p \in handles /\ p \notin joined
      /\ life' = life /\ proc' = proc /\ uthread' = uthread
  BY <1>1
<1> HIDE DEF n
<1>5. /\ local'[t].process = p /\ local'[t].thread = n
      /\ \A s \in Thread : s # t => local'[s] = local[s]
  <2> DEFINE a == [[local[t] EXCEPT !.process = p] EXCEPT !.thread = n]
  <2>1. local' = [local EXCEPT ![t] = a]
    BY <1>1, <1>2
  <2>2. a.process = p /\ a.thread = n
    BY <1>2 DEF Locals
  <2> HIDE DEF a
  <2> QED BY <1>2, <2>1, <2>2
<1>6. pc'[t] = "thread_join" /\ \A s \in Thread : s # t => pc'[s] = pc[s]
  BY <1>1, <1>2 DEF TypeOK
<1>7. ASSUME NEW q, NEW m \in Thread, MainThread(q, m)
      PROVE  life'[m] # "none" /\ local'[m].process = q /\ m \notin Boot
  BY <1>0, <1>3, <1>5, <1>7 DEF MainThread
<1>8. \A s \in Boot : s # t => pc'[s] = pc[s] /\ local'[s] = local[s] /\ (Joining(s)' <=> Joining(s))
  BY <1>2, <1>5, <1>6 DEF Joining
<1>9. ASSUME NEW s \in Boot, pc'[s] = "store"
      PROVE  /\ local'[s].thread \in Thread
             /\ life'[local'[s].thread] # "none"
             /\ local'[local'[s].thread].process = local'[s].process
             /\ local'[s].thread \notin Boot
  <2>1. s # t /\ pc[s] = "store" /\ local'[s] = local[s]
    BY <1>6, <1>8, <1>9
  <2>2. local[s].thread \in Thread /\ MainThread(local[s].process, local[s].thread)
    BY <2>1 DEF JoinInv
  <2> QED BY <1>7, <2>1, <2>2
<1>10. ASSUME NEW q \in handles' \ joined'
       PROVE  LET m == uthread'[proc'[q].main_uthread].thread IN
              m \in Thread /\ life'[m] # "none" /\ local'[m].process = q /\ m \notin Boot
  BY <1>0, <1>7 DEF JoinInv
<1>11. ASSUME NEW s \in Boot, Joining(s)'
       PROVE  /\ local'[s].process \in joined'
              /\ local'[s].thread \in Thread
              /\ life'[local'[s].thread] # "none"
              /\ local'[local'[s].thread].process = local'[s].process
              /\ local'[s].thread \notin Boot
  <2>1. CASE s = t
    BY <1>0, <1>4, <1>5, <1>7, <2>1
  <2>2. CASE s # t
    <3>1. Joining(s) /\ local'[s] = local[s]
      BY <1>8, <1>11, <2>2
    <3>2. /\ local[s].process \in joined /\ local[s].thread \in Thread
          /\ MainThread(local[s].process, local[s].thread)
      BY <3>1 DEF JoinInv
    <3> QED BY <1>0, <1>7, <3>1, <3>2
  <2> QED BY <2>1, <2>2
<1>12. ASSUME NEW r \in Boot, NEW s \in Boot, Joining(r)', Joining(s)',
              local'[r].process = local'[s].process
       PROVE  r = s
  <2>1. \A q \in Boot : q # t /\ Joining(q)' => local'[q].process # p
    BY <1>0, <1>8 DEF JoinInv
  <2> QED BY <1>5, <1>8, <1>12, <2>1 DEF JoinInv
<1>13. joined' \subseteq handles'
  BY <1>0 DEF JoinInv
<1> QED BY <1>9, <1>10, <1>11, <1>12, <1>13 DEF JoinInv, MainThread

(* The thread that join_reap frees belongs to the process that is joined,  *)
(* so nobody else refers to it any more.                                   *)
LEMMA JoinReaps ==
  ASSUME BlocksInv, JoinInv, NEW t \in Thread, join_reap(t)
  PROVE  JoinInv'
<1> DEFINE n == local[t].thread
           p == local[t].process
<1>1. /\ pc[t] \in {"thread_join", "wait"}
      /\ local' = [local EXCEPT ![t] = NoLocals]
      /\ pc' = [pc EXCEPT ![t] = "run"]
      /\ life' = [life EXCEPT ![n] = "none"]
      /\ UNCHANGED <<heap, proc, uthread, owner, handles, joined, ended>>
  BY DEF join_reap, At, Kernel!Reap, Goto, GoIdle, tables, history
<1>2. TypeOK /\ PlacesInv /\ CallsInv /\ Boot \subseteq Thread
  BY ProcessesAssumption DEF BlocksInv
<1>3. t \in Boot /\ Joining(t)
  BY <1>1, <1>2, CallerIsBoot DEF BootPlaces, Joining
<1>4. p \in joined /\ n \in Thread /\ MainThread(p, n)
  BY <1>3 DEF JoinInv
<1>0. handles' = handles /\ joined' = joined /\ proc' = proc /\ uthread' = uthread
  BY <1>1
<1> HIDE DEF n
<1>5. \A s \in Thread : s # t => local'[s] = local[s]
  BY <1>1, <1>2 DEF TypeOK
<1>6. pc'[t] = "run" /\ \A s \in Thread : s # t => pc'[s] = pc[s]
  BY <1>1, <1>2 DEF TypeOK
<1>7. \A s \in Thread : s # n => life'[s] = life[s]
  BY <1>1, <1>2 DEF TypeOK
<1>8. ASSUME NEW q, NEW m \in Thread, MainThread(q, m), q # p
      PROVE  life'[m] # "none" /\ local'[m].process = q /\ m \notin Boot
  <2>1. m # n
    BY <1>4, <1>8 DEF MainThread
  <2> QED BY <1>3, <1>5, <1>7, <1>8, <2>1 DEF MainThread
<1>9. \A s \in Boot : s # t => pc'[s] = pc[s] /\ local'[s] = local[s] /\ (Joining(s)' <=> Joining(s))
  BY <1>2, <1>5, <1>6 DEF Joining
<1>10. ~Joining(t)'
  BY <1>6 DEF Joining
<1>11. \A s \in Boot : s # t /\ Joining(s) => local[s].process # p
  BY <1>3 DEF JoinInv
<1>12. p \in handles /\ \A s \in Boot : pc[s] = "store" => local[s].process # p
  BY <1>2, <1>4 DEF JoinInv, CallsInv, Creating
<1> HIDE DEF p
<1>13. ASSUME NEW s \in Boot, pc'[s] = "store"
       PROVE  /\ local'[s].thread \in Thread
              /\ life'[local'[s].thread] # "none"
              /\ local'[local'[s].thread].process = local'[s].process
              /\ local'[s].thread \notin Boot
  <2>1. s # t /\ pc[s] = "store" /\ local'[s] = local[s]
    BY <1>6, <1>9, <1>13
  <2>2. local[s].thread \in Thread /\ MainThread(local[s].process, local[s].thread)
    BY <2>1 DEF JoinInv
  <2>3. local[s].process # p
    BY <1>12, <2>1
  <2> QED BY <1>8, <2>1, <2>2, <2>3
<1>14. ASSUME NEW q \in handles' \ joined'
       PROVE  LET m == uthread'[proc'[q].main_uthread].thread IN
              m \in Thread /\ life'[m] # "none" /\ local'[m].process = q /\ m \notin Boot
  <2>1. q # p /\ q \in handles \ joined
    BY <1>0, <1>4
  <2> QED BY <1>0, <1>8, <2>1 DEF JoinInv
<1>15. ASSUME NEW s \in Boot, Joining(s)'
       PROVE  /\ local'[s].process \in joined'
              /\ local'[s].thread \in Thread
              /\ life'[local'[s].thread] # "none"
              /\ local'[local'[s].thread].process = local'[s].process
              /\ local'[s].thread \notin Boot
  <2>1. Joining(s) /\ local'[s] = local[s] /\ s # t
    BY <1>9, <1>10, <1>15
  <2>2. /\ local[s].process \in joined /\ local[s].thread \in Thread
        /\ MainThread(local[s].process, local[s].thread)
    BY <2>1 DEF JoinInv
  <2>3. local[s].process # p
    BY <1>11, <2>1
  <2> QED BY <1>0, <1>8, <2>1, <2>2, <2>3
<1>16. \A r, s \in Boot : Joining(r)' /\ Joining(s)' /\ local'[r].process = local'[s].process => r = s
  BY <1>9, <1>10 DEF JoinInv
<1>17. joined' \subseteq handles'
  BY <1>0 DEF JoinInv
<1> QED BY <1>13, <1>14, <1>15, <1>16, <1>17 DEF JoinInv, MainThread

(* Steps of process_create that return or start without a thread. *)
LEMMA JoinMalloc ==
  ASSUME BlocksInv, JoinInv, NEW t \in Thread,
         \/ \E p \in Process : malloc_process(t, p)
         \/ \E u \in UThread : malloc_uthread(t, u)
         \/ malloc_uthread_fails(t) \/ thread_create_fails(t)
  PROVE  JoinInv'
<1>1. /\ pc[t] \in {"run", "malloc_uthread", "thread_create"}
      /\ \E x \in {"run", "malloc_uthread", "thread_create"} : pc' = [pc EXCEPT ![t] = x]
      /\ UNCHANGED <<life, handles, joined>>
  <2>1. ASSUME NEW p \in Process, malloc_process(t, p)
        PROVE  /\ pc[t] = "run" /\ pc' = [pc EXCEPT ![t] = "malloc_uthread"]
               /\ UNCHANGED <<life, handles, joined>>
    BY <2>1 DEF malloc_process, At, Goto, lives, history
  <2>2. ASSUME NEW u \in UThread, malloc_uthread(t, u)
        PROVE  /\ pc[t] = "malloc_uthread" /\ pc' = [pc EXCEPT ![t] = "thread_create"]
               /\ UNCHANGED <<life, handles, joined>>
    BY <2>2 DEF malloc_uthread, At, Goto, lives, history
  <2>3. ASSUME malloc_uthread_fails(t) \/ thread_create_fails(t)
        PROVE  /\ pc[t] \in {"malloc_uthread", "thread_create"} /\ pc' = [pc EXCEPT ![t] = "run"]
               /\ UNCHANGED <<life, handles, joined>>
    BY <2>3 DEF malloc_uthread_fails, thread_create_fails, At, Goto, GoIdle, lives, history
  <2> QED BY <2>1, <2>2, <2>3
<1>2. TypeOK /\ PlacesInv /\ CallsInv /\ HandlesInv /\ Boot \subseteq Thread
  BY ProcessesAssumption DEF BlocksInv
<1>3. t \in Boot
  BY <1>1, <1>2, CallerIsBoot DEF BootPlaces
<1>4. /\ pc'[t] \in {"run", "malloc_uthread", "thread_create"}
      /\ \A s \in Thread : s # t => pc'[s] = pc[s]
  BY <1>1, <1>2 DEF TypeOK
<1>5. \A s \in Thread : s # t => local'[s] = local[s]
  BY <1>2 DEF malloc_process, malloc_uthread, malloc_uthread_fails, thread_create_fails, GoIdle, TypeOK
<1>6. ASSUME NEW q \in handles
      PROVE  uthread'[proc'[q].main_uthread].thread = uthread[proc[q].main_uthread].thread
  <2>1. q \in Process /\ proc[q].main_uthread \in UThread /\ proc[q].main_uthread \in heap
    BY <1>2 DEF TypeOK, HandlesInv
  <2>2. CASE (\E p \in Process : malloc_process(t, p)) \/ malloc_uthread_fails(t)
    BY <2>2 DEF malloc_process, malloc_uthread_fails
  <2>3. ASSUME NEW u \in UThread, malloc_uthread(t, u)
        PROVE  uthread'[proc'[q].main_uthread].thread = uthread[proc[q].main_uthread].thread
    <3>1. /\ pc[t] = "malloc_uthread" /\ u \notin heap
          /\ proc' = [proc EXCEPT ![local[t].process].main_uthread = u]
          /\ uthread' = [uthread EXCEPT ![u].process = local[t].process]
      BY <2>3 DEF malloc_uthread, At
    <3>2. local[t].process # q
      BY <1>2, <1>3, <3>1 DEF CallsInv, Creating
    <3>3. proc'[q] = proc[q]
      BY <1>2, <2>1, <3>1, <3>2 DEF TypeOK
    <3>4. uthread'[proc[q].main_uthread] = uthread[proc[q].main_uthread]
      BY <1>2, <2>1, <3>1 DEF TypeOK
    <3> QED BY <3>3, <3>4
  <2>4. CASE thread_create_fails(t)
    <3>1. /\ pc[t] = "thread_create" /\ proc' = proc
          /\ uthread' = [uthread EXCEPT ![local[t].uthread] = [process |-> NULL, thread |-> NULL]]
      BY <2>4 DEF thread_create_fails, At
    <3>2. local[t].uthread # proc[q].main_uthread
      BY <1>2, <1>3, <3>1 DEF HandlesInv, Made
    <3> QED BY <1>2, <2>1, <3>1, <3>2 DEF TypeOK
  <2> QED BY <2>2, <2>3, <2>4
<1>7. \A s \in Boot : /\ pc'[s] = "store" => pc[s] = "store" /\ local'[s] = local[s]
                      /\ Joining(s)' => Joining(s) /\ local'[s] = local[s]
  BY <1>2, <1>4, <1>5 DEF Joining
<1>8. /\ joined' = joined /\ handles' = handles
      /\ \A n \in Thread \ Boot : life[n] # "none" =>
           life'[n] # "none" /\ local'[n].process = local[n].process
  BY <1>1, <1>3, <1>5
<1> QED BY <1>6, <1>7, <1>8, JoinStay

LEMMA JoinStub ==
  ASSUME BlocksInv, JoinInv, NEW t \in Thread,
         \/ vma_map(t, "map_code", "map_stack") \/ vma_map(t, "map_stack", "set_process")
         \/ set_process(t) \/ process_set_retval(t) \/ thread_finish(t)
  PROVE  JoinInv'
<1>1. /\ t \notin Boot /\ life[t] = "live"
      /\ \A s \in Thread : s # t => pc'[s] = pc[s]
      /\ \A p \in Process : proc'[p].main_uthread = proc[p].main_uthread
      /\ life' = life \/ life' = [life EXCEPT ![t] = "exited"]
      /\ UNCHANGED <<uthread, local, handles, joined>>
  BY StubDoes
<1>2. TypeOK /\ Boot \subseteq Thread /\ handles \subseteq Process
  BY ProcessesAssumption DEF BlocksInv, TypeOK
<1>3. \A n \in Thread : life[n] # "none" => life'[n] # "none"
  BY <1>1, <1>2 DEF TypeOK
<1>4. \A s \in Boot : pc'[s] = pc[s] /\ (Joining(s)' <=> Joining(s))
  BY <1>1, <1>2 DEF Joining
<1> QED BY <1>1, <1>2, <1>3, <1>4, JoinStay

LEMMA JoinThreadJoin ==
  ASSUME BlocksInv, JoinInv, NEW t \in Thread, thread_join(t)
  PROVE  JoinInv'
<1>1. TypeOK /\ PlacesInv /\ Boot \subseteq Thread /\ pc[t] = "thread_join"
  BY ProcessesAssumption DEF BlocksInv, thread_join, At
<1>2. t \in Boot
  BY <1>1, CallerIsBoot DEF BootPlaces
<1>3. UNCHANGED <<life, proc, uthread, handles, joined>>
  BY DEF thread_join, Kernel!Wait, lives, tables, history
<1>4. \/ pc' = [pc EXCEPT ![t] = "wait"] /\ local' = local
      \/ pc' = [pc EXCEPT ![t] = "run"] /\ local' = [local EXCEPT ![t] = NoLocals]
  BY DEF thread_join, Goto, GoIdle
<1>5. /\ \A s \in Thread : s # t => pc'[s] = pc[s] /\ local'[s] = local[s]
      /\ \/ pc'[t] = "wait" /\ local'[t] = local[t]
         \/ pc'[t] = "run"
  BY <1>1, <1>4 DEF TypeOK
<1>6. \A s \in Boot : /\ pc'[s] = "store" => pc[s] = "store" /\ local'[s] = local[s]
                      /\ Joining(s)' => Joining(s) /\ local'[s] = local[s]
  BY <1>1, <1>5 DEF Joining
<1> QED BY <1>1, <1>2, <1>3, <1>5, <1>6, JoinStay

LEMMA NextJoin ==
  ASSUME ~REJOIN, BlocksInv, JoinInv, [Next]_vars
  PROVE  JoinInv'
<1>1. CASE UNCHANGED vars
  <2>1. UNCHANGED <<life, waits, heap, proc, uthread, owner, pc, local, handles, joined, ended>>
    BY <1>1 DEF vars
  <2> QED BY <2>1, JoinStay DEF Joining
<1>2. CASE Next
  <2>1. PICK t \in Thread :
    \/ \E p \in Process : malloc_process(t, p)
    \/ malloc_process_fails(t)
    \/ \E u \in UThread : malloc_uthread(t, u)
    \/ malloc_uthread_fails(t)
    \/ \E n \in Thread : thread_create(t, n)
    \/ thread_create_fails(t)
    \/ store(t)
    \/ vma_map(t, "map_code", "map_stack")
    \/ vma_map(t, "map_stack", "set_process")
    \/ set_process(t)
    \/ process_set_retval(t)
    \/ thread_finish(t)
    \/ \E p \in Process : process_join(t, p)
    \/ thread_join(t)
    \/ join_reap(t)
    BY <1>2 DEF Next
  <2>2. CASE malloc_process_fails(t)
    BY <1>1, <2>2 DEF malloc_process_fails
  <2>3. CASE \/ \E p \in Process : malloc_process(t, p)
             \/ \E u \in UThread : malloc_uthread(t, u)
             \/ malloc_uthread_fails(t) \/ thread_create_fails(t)
    BY <2>3, JoinMalloc
  <2>4. ASSUME NEW n \in Thread, thread_create(t, n) PROVE JoinInv'
    BY <2>4, JoinCreate
  <2>5. CASE store(t)
    BY <2>5, JoinStore
  <2>6. CASE \/ vma_map(t, "map_code", "map_stack") \/ vma_map(t, "map_stack", "set_process")
             \/ set_process(t) \/ process_set_retval(t) \/ thread_finish(t)
    BY <2>6, JoinStub
  <2>7. ASSUME NEW p \in Process, process_join(t, p) PROVE JoinInv'
    BY <2>7, JoinProcessJoin
  <2>8. CASE thread_join(t)
    BY <2>8, JoinThreadJoin
  <2>9. CASE join_reap(t)
    BY <2>9, JoinReaps
  <2> QED BY <2>1, <2>2, <2>3, <2>4, <2>5, <2>6, <2>7, <2>8, <2>9
<1> QED BY <1>1, <1>2

(***************************************************************************)
(* Between reading uthread->thread and the end of thread_join, what a call *)
(* of process_join refers to is the main thread of its own process and was *)
(* not freed, whatever other callers create and join, provided that        *)
(* process_join is called once for a process: it cannot tell a thread that *)
(* was freed from one that was not (process.c:207).                        *)
(***************************************************************************)
THEOREM JoinsOwnCorrect == REJOIN = FALSE /\ Spec => []JoinsOwn
<1> SUFFICES ASSUME REJOIN = FALSE PROVE Spec => []JoinsOwn
  OBVIOUS
<1>1. Init => JoinInv
  BY ProcessesAssumption DEF Init, JoinInv, Joining
<1>2. BlocksInv /\ JoinInv /\ [Next]_vars => JoinInv'
  BY NextJoin
<1>3. JoinInv => JoinsOwn
  BY ProcessesAssumption DEF JoinInv, Joining, JoinsOwn
<1> QED BY <1>1, <1>2, <1>3, StubCorrect, PTL DEF Spec

=============================================================================

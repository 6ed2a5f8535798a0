----------------------------- MODULE BootProofs -----------------------------
(***************************************************************************)
(* Proofs about Boot, for any number of CPUs.                              *)
(***************************************************************************)
EXTENDS Boot, TLAPS

-----------------------------------------------------------------------------
(* What the list operations return, for every list without repetitions. *)

(* link_connected is membership in the set of items. *)
LEMMA ConnectedIsItem ==
  ASSUME NEW list, NEW item
  PROVE  link_connected(list, item) <=> item \in Items(list)
BY DEF link_connected, Items

(* list_append adds one item, at the end. *)
LEMMA AppendList ==
  ASSUME NEW S, NEW list \in Seq(S), NEW item \in S
  PROVE  /\ list_append(list, item) \in Seq(S)
         /\ Items(list_append(list, item)) = Items(list) \cup {item}
         /\ list_append(list, item) # << >>
         /\ NoRepeats(list) /\ item \notin Items(list)
              => NoRepeats(list_append(list, item))
BY DEF list_append, Items, NoRepeats

(* list_append of an item that is not linked. *)
LEMMA AppendNew ==
  ASSUME NEW S, NEW list \in Seq(S), NoRepeats(list), NEW item \in S, item \notin Items(list)
  PROVE  /\ Items(list_append(list, item)) = Items(list) \cup {item}
         /\ list_append(list, item) \in Seq(S)
         /\ NoRepeats(list_append(list, item))
BY AppendList

(* list_remove of a linked item removes it and nothing else. *)
LEMMA RemoveList ==
  ASSUME NEW S, NEW list \in Seq(S), NEW item, NoRepeats(list)
  PROVE  /\ list_remove(list, item) \in Seq(S)
         /\ Items(list_remove(list, item)) = Items(list) \ {item}
         /\ NoRepeats(list_remove(list, item))
<1>1. CASE ~link_connected(list, item)
  BY <1>1 DEF list_remove, link_connected, Items
<1>2. CASE link_connected(list, item)
  <2> DEFINE p == Position(list, item)
             from(i) == IF i < p THEN i ELSE i + 1
             r == [i \in 1 .. Len(list) - 1 |-> list[from(i)]]
  <2>1. p \in 1 .. Len(list) /\ list[p] = item
    BY <1>2 DEF link_connected, Position
  <2>2. list_remove(list, item) = r
    BY <1>2 DEF list_remove
  <2> HIDE DEF p
  <2> DEFINE to(j) == IF j < p THEN j ELSE j - 1
  <2>3. /\ Len(list) - 1 \in Nat
        /\ \A i \in 1 .. Len(list) - 1 : from(i) \in 1 .. Len(list) /\ from(i) # p
        /\ \A i, j \in 1 .. Len(list) - 1 : from(i) = from(j) => i = j
    BY <2>1
  <2>4. \A j \in 1 .. Len(list) : j # p => to(j) \in 1 .. Len(list) - 1 /\ from(to(j)) = j
    BY <2>1
  <2> HIDE DEF from, to
  <2>5. /\ r \in Seq(S) /\ Len(r) = Len(list) - 1
        /\ \A i \in 1 .. Len(list) - 1 : r[i] = list[from(i)]
    BY <2>3
  <2> HIDE DEF r
  <2>6. \A i \in 1 .. Len(r) : r[i] \in Items(list) \ {item}
    <3>1. \A i \in 1 .. Len(r) : r[i] = list[from(i)] /\ list[from(i)] # item
      BY <2>1, <2>3, <2>5 DEF NoRepeats
    <3> QED BY <2>3, <2>5, <3>1 DEF Items
  <2>7. \A j \in 1 .. Len(list) : list[j] # item => list[j] \in Items(r)
    <3>1. \A j \in 1 .. Len(list) : list[j] # item => to(j) \in 1 .. Len(r) /\ list[j] = r[to(j)]
      BY <2>1, <2>4, <2>5
    <3> QED BY <3>1 DEF Items
  <2>8. NoRepeats(r)
    <3>1. \A i, j \in 1 .. Len(list) - 1 : list[from(i)] = list[from(j)] => i = j
      BY <2>3 DEF NoRepeats
    <3> QED BY <2>5, <3>1 DEF NoRepeats
  <2>9. Items(r) = Items(list) \ {item}
    BY <2>6, <2>7 DEF Items
  <2> QED BY <2>2, <2>5, <2>8, <2>9
<1> QED BY <1>1, <1>2

(* list_rotate keeps the items and moves the first one to the end. *)
LEMMA RotateList ==
  ASSUME NEW S, NEW list \in Seq(S), list # << >>
  PROVE  /\ Head(list) \in S
         /\ Head(list) \in Items(list)
         /\ list_rotate(list) \in Seq(S)
         /\ Items(list_rotate(list)) = Items(list)
         /\ NoRepeats(list) => NoRepeats(list_rotate(list))
<1> DEFINE r == list_rotate(list)
<1>1. /\ Len(list) \in Nat /\ Len(list) >= 1 /\ Head(list) = list[1]
      /\ r \in Seq(S) /\ Len(r) = Len(list)
      /\ \A i \in 1 .. Len(r) : r[i] = IF i < Len(list) THEN list[i + 1] ELSE list[1]
  BY DEF list_rotate, list_append
<1> HIDE DEF r
<1>2. \A i \in 1 .. Len(list) : \E j \in 1 .. Len(r) : list[i] = r[j]
  <2>1. list[1] = r[Len(r)]
    BY <1>1
  <2>2. \A i \in 2 .. Len(list) : i - 1 \in 1 .. Len(r) /\ list[i] = r[i - 1]
    BY <1>1
  <2> QED BY <1>1, <2>1, <2>2
<1>3. \A i \in 1 .. Len(r) : \E j \in 1 .. Len(list) : r[i] = list[j]
  BY <1>1
<1>4. Items(r) = Items(list)
  <2>1. \A x : /\ x \in Items(r) <=> \E i \in 1 .. Len(r) : x = r[i]
               /\ x \in Items(list) <=> \E j \in 1 .. Len(list) : x = list[j]
    BY DEF Items
  <2> QED BY <1>2, <1>3, <2>1
<1>5. Head(list) \in Items(list)
  BY <1>1 DEF Items
<1>6. NoRepeats(list) => NoRepeats(r)
  BY <1>1 DEF NoRepeats
<1> QED BY <1>1, <1>3, <1>4, <1>5, <1>6 DEF r

-----------------------------------------------------------------------------
(* A CPU that has not yet let its successor in. *)
Starting(c) == place[c] \notin {"switch", "run"}

PlaceType ==
  /\ cpu_ready \in Nat
  /\ inside \subseteq CPU
  /\ place \in [CPU -> BspPlaces \union ApPlaces]
  /\ \A c \in CPU : place[c] \in IF c = 0 THEN BspPlaces ELSE ApPlaces

(* cpu_ready is where the start has got to: a CPU behind the loop of       *)
(* ap_start has been let in, and while a CPU is starting none behind it    *)
(* has been.                                                               *)
TurnInv ==
  \A c \in CPU :
    /\ place[c] # "wait" => cpu_ready >= c
    /\ Starting(c) => cpu_ready <= c

(* What a CPU at a certain place relies on. *)
DoneBefore(c) ==
  /\ place[c] # "wait" /\ c # 0 =>
       {<<"frames", 0>>, <<"heap", 0>>, <<"threads", 0>>, <<"timers", 0>>} \subseteq initialised
  /\ c = 0 /\ place[c] \notin {"tlb_init", "frame_init"} => <<"frames", 0>> \in initialised
  /\ c = 0 /\ place[c] \notin {"tlb_init", "frame_init", "heap_init"} => <<"heap", 0>> \in initialised
  /\ c = 0 /\ place[c] \notin {"tlb_init", "frame_init", "heap_init", "threads_init"} =>
       <<"threads", 0>> \in initialised
  /\ c = 0 /\ place[c] \in {"create_idle", "create_main", "cpu_ready", "switch", "run"} =>
       <<"timers", 0>> \in initialised
  /\ place[c] \in {"timers_init", "create_idle", "create_main", "cpu_ready", "switch", "run"} =>
       <<"queue", c>> \in initialised

(* A CPU inside memory management is at one of the calls of thread_create, *)
(* and no CPU was let in before CPU 0 had done all its initialisation.     *)
InsideInv ==
  /\ \A c \in inside : Booting(c) \/ (c = 0 /\ place[c] = "run")
  /\ cpu_ready > 0 => ~Starting(0)

IInv ==
  /\ PlaceType
  /\ TurnInv
  /\ \A c \in CPU : DoneBefore(c)
  /\ InsideInv

LEMMA InitIInv == Init => IInv
BY BootAssumption DEF Init, IInv, PlaceType, TurnInv, DoneBefore, InsideInv, Starting, start,
                      CPU, BspPlaces, ApPlaces, Booting

(* Two CPUs that are starting are not both behind the loop of ap_start. *)
LEMMA OneStarts ==
  ASSUME IInv, NEW c \in CPU, NEW d \in CPU, place[c] # "wait", place[d] # "wait",
         Starting(c), Starting(d)
  PROVE  c = d
BY BootAssumption DEF IInv, PlaceType, TurnInv, CPU

LEMMA Safe == IInv => MemoryOrder
<1> SUFFICES ASSUME IInv, NEW c \in inside
             PROVE  /\ {<<"frames", 0>>, <<"heap", 0>>, <<"threads", 0>>, <<"queue", c>>} \subseteq initialised
                    /\ \A d \in inside : Booting(c) /\ Booting(d) => c = d
  BY DEF MemoryOrder
<1>1. c \in CPU /\ inside \subseteq CPU
  BY DEF IInv, PlaceType
<1>2. place[c] \in {"timers_init", "create_idle", "create_main", "run"}
  BY DEF IInv, InsideInv, Booting
<1>3. {<<"frames", 0>>, <<"heap", 0>>, <<"threads", 0>>, <<"queue", c>>} \subseteq initialised
  BY <1>1, <1>2 DEF IInv, DoneBefore
<1>4. ASSUME NEW d \in inside, Booting(c), Booting(d)
      PROVE  c = d
  BY <1>1, <1>4, OneStarts DEF Booting, Starting
<1> QED BY <1>3, <1>4

-----------------------------------------------------------------------------
(* A step of one CPU, from place p to place q, that lets nobody in. *)
LEMMA StepMove ==
  ASSUME IInv, NEW c \in CPU, NEW q \in BspPlaces \union ApPlaces,
         place[c] # "wait" \/ cpu_ready >= c,
         c = 0 => q \in BspPlaces, c # 0 => q \in ApPlaces,
         q # "wait", Starting(c) \/ q \in {"switch", "run"},
         place' = [place EXCEPT ![c] = q],
         cpu_ready' = cpu_ready, inside' \subseteq inside,
         c \notin inside',
         initialised \subseteq initialised', DoneBefore(c)'
  PROVE  IInv'
<1>0. /\ place'[c] = q
      /\ \A d \in CPU : d # c => place'[d] = place[d]
  BY DEF IInv, PlaceType
<1>1. PlaceType'
  BY <1>0 DEF IInv, PlaceType
<1>2. TurnInv'
  BY <1>0 DEF IInv, TurnInv, Starting
<1>3. \A d \in CPU : DoneBefore(d)'
  BY <1>0 DEF IInv, DoneBefore
<1>4. InsideInv'
  BY <1>0, BootAssumption DEF IInv, InsideInv, Starting, Booting, PlaceType, CPU
<1> QED BY <1>1, <1>2, <1>3, <1>4 DEF IInv

(* A step that changes none of this, or only adds to what is initialised. *)
LEMMA StepStay ==
  ASSUME IInv, UNCHANGED <<cpu_ready, place, initialised>>, inside' \subseteq inside
  PROVE  IInv'
BY DEF IInv, PlaceType, TurnInv, DoneBefore, InsideInv, Starting, Booting

LEMMA StepInit ==
  ASSUME IInv, NEW c \in CPU,
         \/ ap_wait(c) \/ tlb_init(c) \/ scheduler_init(c)
         \/ frame_init \/ heap_init \/ threads_init
  PROVE  IInv'
<1>0. 0 \in CPU
  BY BootAssumption DEF CPU
<1>1. CASE ap_wait(c)
  <2>1. c # 0 /\ cpu_ready >= c /\ c \notin inside /\ Starting(c)
    BY <1>1 DEF ap_wait, At, Starting, IInv, PlaceType, BspPlaces
  <2>2. ~Starting(0)
    BY <2>1, BootAssumption DEF IInv, InsideInv, PlaceType, CPU
  <2>3. {<<"frames", 0>>, <<"heap", 0>>, <<"threads", 0>>, <<"timers", 0>>} \subseteq initialised
    BY <2>2, <1>0 DEF IInv, DoneBefore, Starting
  <2>4. DoneBefore(c)'
    BY <1>1, <2>1, <2>3 DEF ap_wait, Goto, DoneBefore, IInv, PlaceType
  <2> QED BY <1>1, <2>1, <2>4, StepMove DEF ap_wait, Goto, ApPlaces
<1>2. CASE tlb_init(c)
  <2>1. c \notin inside /\ Starting(c) /\ place[c] = "tlb_init"
    BY <1>2 DEF tlb_init, At, Starting
  <2>4. DoneBefore(c)'
    BY <1>2, <2>1 DEF tlb_init, Goto, Initialise, DoneBefore, IInv, PlaceType
  <2> QED BY <1>2, <2>1, <2>4, StepMove DEF tlb_init, Goto, Initialise, BspPlaces, ApPlaces
<1>3. CASE scheduler_init(c)
  <2>1. c \notin inside /\ Starting(c) /\ place[c] = "scheduler_init"
    BY <1>3 DEF scheduler_init, At, Starting
  <2>4. DoneBefore(c)'
    BY <1>3, <2>1 DEF scheduler_init, Goto, Initialise, DoneBefore, IInv, PlaceType
  <2> QED BY <1>3, <2>1, <2>4, StepMove DEF scheduler_init, Goto, Initialise, BspPlaces, ApPlaces
<1>4. CASE frame_init
  <2>1. 0 \notin inside /\ Starting(0) /\ place[0] = "frame_init"
    BY <1>4 DEF frame_init, At, Starting
  <2>4. DoneBefore(0)'
    BY <1>0, <1>4, <2>1 DEF frame_init, Goto, Initialise, DoneBefore, IInv, PlaceType
  <2> QED BY <1>0, <1>4, <2>1, <2>4, StepMove DEF frame_init, Goto, Initialise, BspPlaces
<1>5. CASE heap_init
  <2>1. 0 \notin inside /\ Starting(0) /\ place[0] = "heap_init"
    BY <1>5 DEF heap_init, At, Starting
  <2>4. DoneBefore(0)'
    BY <1>0, <1>5, <2>1 DEF heap_init, Goto, Initialise, DoneBefore, IInv, PlaceType
  <2> QED BY <1>0, <1>5, <2>1, <2>4, StepMove DEF heap_init, Goto, Initialise, BspPlaces
<1>6. CASE threads_init
  <2>1. 0 \notin inside /\ Starting(0) /\ place[0] = "threads_init"
    BY <1>6 DEF threads_init, At, Starting
  <2>4. DoneBefore(0)'
    BY <1>0, <1>6, <2>1 DEF threads_init, Goto, Initialise, DoneBefore, IInv, PlaceType
  <2> QED BY <1>0, <1>6, <2>1, <2>4, StepMove DEF threads_init, Goto, Initialise, BspPlaces
<1> QED BY <1>1, <1>2, <1>3, <1>4, <1>5, <1>6

LEMMA StepCreate ==
  ASSUME IInv, NEW c \in CPU, malloc(c) \/ thread_create(c) \/ thread_create_fails(c)
  PROVE  IInv'
<1>1. CASE malloc(c)
  <2>1. Booting(c) \/ (c = 0 /\ place[c] = "run")
    BY <1>1 DEF malloc, InExample
  <2> QED BY <1>1, <2>1 DEF malloc, IInv, PlaceType, TurnInv, DoneBefore, InsideInv, Starting, Booting
<1>2. CASE thread_create(c)
  <2>0. inside' = inside \ {c} /\ cpu_ready' = cpu_ready
    BY <1>2 DEF thread_create
  <2>1. CASE place[c] = "timers_init" /\ Goto(c, "create_idle") /\ Initialise("timers", 0)
    <3>1. c = 0 /\ Starting(c)
      BY <2>1 DEF IInv, PlaceType, ApPlaces, Starting
    <3>2. DoneBefore(c)'
      BY <2>1, <3>1 DEF Goto, Initialise, DoneBefore, IInv, PlaceType
    <3> QED BY <2>0, <2>1, <3>1, <3>2, StepMove DEF Goto, Initialise, BspPlaces
  <2>2. CASE /\ place[c] = "create_idle" /\ Goto(c, IF c = 0 THEN "create_main" ELSE "cpu_ready")
             /\ UNCHANGED initialised
    <3>1. Starting(c)
      BY <2>2 DEF Starting
    <3>2. DoneBefore(c)'
      BY <2>2 DEF Goto, DoneBefore, IInv, PlaceType
    <3> QED BY <2>0, <2>2, <3>1, <3>2, StepMove DEF Goto, BspPlaces, ApPlaces
  <2>3. CASE place[c] = "create_main" /\ Goto(c, "cpu_ready") /\ UNCHANGED initialised
    <3>1. c = 0 /\ Starting(c)
      BY <2>3 DEF IInv, PlaceType, ApPlaces, Starting
    <3>2. DoneBefore(c)'
      BY <2>3 DEF Goto, DoneBefore, IInv, PlaceType
    <3> QED BY <2>0, <2>3, <3>1, <3>2, StepMove DEF Goto, BspPlaces
  <2>4. CASE UNCHANGED <<place, initialised>>
    BY <2>0, <2>4, StepStay
  <2> QED BY <1>2, <2>1, <2>2, <2>3, <2>4 DEF thread_create, Created
<1>3. CASE thread_create_fails(c)
  <2>0. inside' = inside \ {c} /\ UNCHANGED <<cpu_ready, initialised>> /\ c \in inside
    BY <1>3 DEF thread_create_fails
  <2>1. CASE c = 0
    BY <1>3, <2>0, <2>1, StepStay DEF thread_create_fails
  <2>2. CASE c # 0
    <3>0. place' = [place EXCEPT ![c] = "cpu_ready"]
      BY <1>3, <2>2 DEF thread_create_fails, Goto
    <3>1. place[c] = "create_idle" /\ Starting(c)
      BY <2>0, <2>2 DEF IInv, InsideInv, PlaceType, Booting, ApPlaces, Starting
    <3>2. DoneBefore(c)'
      BY <2>0, <2>2, <3>0, <3>1 DEF DoneBefore, IInv, PlaceType
    <3> QED BY <2>0, <2>2, <3>0, <3>1, <3>2, StepMove DEF ApPlaces
  <2> QED BY <2>1, <2>2
<1> QED BY <1>1, <1>2, <1>3

(* The CPU that lets the next one in is the only one that was starting. *)
LEMMA StepReady ==
  ASSUME IInv, NEW c \in CPU, atomic_add_cpu_ready(c)
  PROVE  IInv'
<1>0. /\ place[c] = "cpu_ready" /\ c \notin inside
      /\ cpu_ready' = cpu_ready + 1
      /\ place'[c] = "switch"
      /\ \A d \in CPU : d # c => place'[d] = place[d]
      /\ place' = [place EXCEPT ![c] = "switch"]
      /\ UNCHANGED <<inside, initialised>>
  BY DEF atomic_add_cpu_ready, At, Goto, IInv, PlaceType
<1>c. cpu_ready = c
  BY <1>0, BootAssumption DEF IInv, PlaceType, TurnInv, Starting, CPU
<1>1. PlaceType'
  BY <1>0 DEF IInv, PlaceType, BspPlaces, ApPlaces
<1>2. TurnInv'
  BY <1>0, <1>c, BootAssumption DEF IInv, PlaceType, TurnInv, Starting, CPU
<1>3. \A d \in CPU : DoneBefore(d)'
  BY <1>0 DEF IInv, DoneBefore
<1>4. InsideInv'
  <2>1. ~Starting(0)'
    <3>1. CASE c = 0
      BY <1>0, <3>1 DEF Starting
    <3>2. CASE c # 0
      BY <1>0, <1>c, <3>2, BootAssumption DEF IInv, InsideInv, PlaceType, Starting, CPU
    <3> QED BY <3>1, <3>2
  <2> QED BY <1>0, <2>1 DEF IInv, InsideInv, PlaceType, Booting
<1> QED BY <1>1, <1>2, <1>3, <1>4 DEF IInv

LEMMA StepSwitch ==
  ASSUME IInv, NEW c \in CPU, thread_switch(c)
  PROVE  IInv'
<1>1. /\ place[c] = "switch" /\ c \notin inside
      /\ place' = [place EXCEPT ![c] = "run"]
      /\ UNCHANGED <<cpu_ready, inside, initialised>>
  BY DEF thread_switch, At, Goto
<1>2. DoneBefore(c)'
  BY <1>1 DEF DoneBefore, IInv, PlaceType
<1> QED BY <1>1, <1>2, StepMove DEF BspPlaces, ApPlaces

LEMMA NextIInv == IInv /\ [Next]_vars => IInv'
<1> SUFFICES ASSUME IInv, [Next]_vars PROVE IInv'
  OBVIOUS
<1>0. 0 \in CPU
  BY BootAssumption DEF CPU
<1>1. CASE UNCHANGED vars
  BY <1>1, StepStay DEF vars
<1>2. CASE Step0
  BY <1>0, <1>2, StepInit, StepStay DEF Step0, thread_suspend, thread_join, thread_finish, msim_halt
<1>3. ASSUME NEW c \in CPU, Step(c)
      PROVE  IInv'
  BY <1>3, StepInit, StepCreate, StepReady, StepSwitch, StepStay DEF Step, schedule
<1> QED BY <1>1, <1>2, <1>3 DEF Next

(* CPUs that are starting never meet inside malloc and find everything     *)
(* there that malloc needs, for any number of CPUs.                        *)
THEOREM MemoryCorrect == Spec => []MemoryOrder
<1>1. Init => IInv
  BY InitIInv
<1>2. IInv /\ [Next]_vars => IInv'
  BY NextIInv
<1>3. IInv => MemoryOrder
  BY Safe
<1> QED BY <1>1, <1>2, <1>3, PTL DEF Spec

-----------------------------------------------------------------------------
(***************************************************************************)
(* The run queues, on a machine where memory can run out on CPU 0 only:    *)
(* ap_start does not look at the result of thread_create.                  *)
(***************************************************************************)
CreateCalls == {"create_one", "create_two", "create_process"}
JoinCalls == {"join_one", "join_two", "join_process"}

(* The threads that CPU 0 creates. *)
FirstThreads == {idle_thread(0), timer_thread, main_thread} \union Worker

QueueType ==
  /\ queue \in [CPU -> Seq(Thread)]
  /\ current \in [CPU -> Thread \union {NULL}]
  /\ example \in CreateCalls \union JoinCalls \union {"halt"}
  /\ \A c \in CPU : NoRepeats(queue[c])

(* The queue of a CPU other than 0 holds its idle thread and nothing else. *)
ApQueue(c) ==
  Items(queue[c]) = IF place[c] \in {"cpu_ready", "switch", "run"} THEN {idle_thread(c)} ELSE {}

(* The queue of CPU 0 grows with bsp_start. *)
BspQueue ==
  /\ place[0] \in {"tlb_init", "frame_init", "heap_init", "threads_init",
                   "scheduler_init", "timers_init"} => Items(queue[0]) = {}
  /\ place[0] = "create_idle" => Items(queue[0]) = {timer_thread}
  /\ place[0] = "create_main" => Items(queue[0]) = {timer_thread, idle_thread(0)}
  /\ place[0] \in {"cpu_ready", "switch"} =>
       Items(queue[0]) = {timer_thread, idle_thread(0), main_thread}
  /\ place[0] # "run" => example = "create_one"

(* The queue of CPU 0 once its threads run: the main thread leaves it only *)
(* to wait for a thread that is queued, and a worker is queued only after  *)
(* example has created it.                                                 *)
RunQueue ==
  /\ idle_thread(0) \in Items(queue[0])
  /\ Items(queue[0]) \subseteq FirstThreads
  /\ main_thread \notin Items(queue[0]) =>
       example \in JoinCalls /\ Joined[example] \in Items(queue[0])
  /\ example = "create_one" => thread_one \notin Items(queue[0])
  /\ example \in {"create_one", "create_two"} => thread_two \notin Items(queue[0])
  /\ example \in {"create_one", "create_two", "join_one", "join_two", "create_process"} =>
       process_thread \notin Items(queue[0])
  /\ 0 \in inside => current[0] = main_thread /\ example \in CreateCalls

QueueInv ==
  /\ QueueType
  /\ \A c \in CPU \ {0} : ApQueue(c)
  /\ BspQueue
  /\ place[0] = "run" => RunQueue
  /\ \A c \in CPU : place[c] = "run" => current[c] \in Items(queue[c])
  /\ \A c \in CPU : place[c] \notin {"wait", "tlb_init"} => <<"tlb", c>> \in initialised

(* Threads of different roles, or of different CPUs, are different. *)
LEMMA ThreadsDiffer ==
  /\ \A c, d : c # d => idle_thread(c) # idle_thread(d)
  /\ \A c : idle_thread(c) \notin {timer_thread, main_thread, thread_one, thread_two, process_thread}
  /\ timer_thread \notin {main_thread, thread_one, thread_two, process_thread}
  /\ main_thread \notin {thread_one, thread_two, process_thread}
  /\ thread_one \notin {thread_two, process_thread}
  /\ thread_two # process_thread
<1>1. \A c, d : c # d => idle_thread(c) # idle_thread(d)
  BY DEF idle_thread
<1>2. \A c : idle_thread(c) \notin {timer_thread, main_thread, thread_one, thread_two, process_thread}
  BY DEF idle_thread, timer_thread, main_thread, thread_one, thread_two, process_thread
<1>3. timer_thread \notin {main_thread, thread_one, thread_two, process_thread}
  BY DEF timer_thread, main_thread, thread_one, thread_two, process_thread
<1>4. main_thread \notin {thread_one, thread_two, process_thread}
  BY DEF main_thread, thread_one, thread_two, process_thread
<1>5. thread_one \notin {thread_two, process_thread} /\ thread_two # process_thread
  BY DEF thread_one, thread_two, process_thread
<1> QED BY <1>1, <1>2, <1>3, <1>4, <1>5

LEMMA ThreadTypes ==
  /\ 0 \in CPU
  /\ FirstThreads \subseteq Thread
  /\ \A c \in CPU : idle_thread(c) \in Thread
<1>1. 0 \in CPU
  BY BootAssumption DEF CPU
<1> QED BY <1>1 DEF FirstThreads, Thread, Worker

(* The calls of thread_join in example. *)
LEMMA JoinTable ==
  /\ DOMAIN Joined = JoinCalls
  /\ Joined["join_one"] = thread_one
  /\ Joined["join_two"] = thread_two
  /\ Joined["join_process"] = process_thread
  /\ AfterJoin["join_one"] = "join_two"
  /\ AfterJoin["join_two"] = "create_process"
  /\ AfterJoin["join_process"] = "halt"
BY DEF Joined, AfterJoin, JoinCalls

(* A step of CPU c. *)
LEMMA QueueStep ==
  ASSUME QueueInv, NEW c \in CPU, QueueType',
         \A d \in CPU : d # c => /\ place'[d] = place[d]
                                 /\ queue'[d] = queue[d]
                                 /\ current'[d] = current[d]
                                 /\ d \in inside' => d \in inside,
         c # 0 => example' = example /\ ApQueue(c)',
         c = 0 => BspQueue' /\ (place'[0] = "run" => RunQueue'),
         place'[c] = "run" => current'[c] \in Items(queue'[c]),
         initialised \subseteq initialised',
         place'[c] \notin {"wait", "tlb_init"} => <<"tlb", c>> \in initialised'
  PROVE  QueueInv'
<1>0. 0 \in CPU
  BY ThreadTypes
<1>1. \A d \in CPU \ {0} : ApQueue(d)'
  BY DEF QueueInv, ApQueue
<1>2. BspQueue' /\ (place'[0] = "run" => RunQueue')
  <2>1. CASE c = 0
    BY <2>1
  <2>2. CASE c # 0
    <3>1. /\ place'[0] = place[0] /\ queue'[0] = queue[0] /\ current'[0] = current[0]
          /\ example' = example /\ (0 \in inside' => 0 \in inside)
      BY <1>0, <2>2
    <3>2. BspQueue /\ (place[0] = "run" => RunQueue)
      BY DEF QueueInv
    <3> QED BY <3>1, <3>2 DEF BspQueue, RunQueue
  <2> QED BY <2>1, <2>2
<1>3. \A d \in CPU : place'[d] = "run" => current'[d] \in Items(queue'[d])
  BY DEF QueueInv
<1>4. \A d \in CPU : place'[d] \notin {"wait", "tlb_init"} => <<"tlb", d>> \in initialised'
  BY DEF QueueInv
<1> QED BY <1>1, <1>2, <1>3, <1>4 DEF QueueInv

(* A CPU goes from one place of its start to another; its queue does not   *)
(* change or is emptied.                                                   *)
LEMMA QueueMove ==
  ASSUME IInv, QueueInv, NEW c \in CPU,
         \/ ap_wait(c) \/ tlb_init(c) \/ scheduler_init(c) \/ atomic_add_cpu_ready(c)
         \/ c = 0 /\ (frame_init \/ heap_init)
  PROVE  QueueInv'
<1> DEFINE p == place'[c]
<1>0. /\ place \in [CPU -> BspPlaces \union ApPlaces]
      /\ current' = current /\ example' = example /\ inside' = inside
      /\ initialised \subseteq initialised'
      /\ \A d \in CPU : d # c => place'[d] = place[d]
  BY DEF ap_wait, tlb_init, scheduler_init, atomic_add_cpu_ready, frame_init, heap_init,
         Goto, Initialise, IInv, PlaceType
<1>1. \/ /\ scheduler_init(c) /\ queue' = [queue EXCEPT ![c] = << >>]
         /\ place[c] = "scheduler_init" /\ p = IF c = 0 THEN "timers_init" ELSE "create_idle"
      \/ /\ queue' = queue
         /\ \/ place[c] = "wait" /\ p = "tlb_init"
            \/ place[c] = "tlb_init" /\ p = IF c = 0 THEN "frame_init" ELSE "scheduler_init"
            \/ place[c] = "cpu_ready" /\ p = "switch"
            \/ place[c] = "frame_init" /\ p = "heap_init"
            \/ place[c] = "heap_init" /\ p = "threads_init"
  BY <1>0 DEF ap_wait, tlb_init, scheduler_init, atomic_add_cpu_ready, frame_init, heap_init,
         Goto, At
<1>2. p \notin {"wait", "tlb_init"} => <<"tlb", c>> \in initialised'
  <2>1. CASE place[c] = "tlb_init"
    <3>1. tlb_init(c)
      BY <2>1 DEF ap_wait, scheduler_init, atomic_add_cpu_ready, frame_init, heap_init, At
    <3> QED BY <3>1 DEF tlb_init, Initialise
  <2>2. CASE place[c] # "tlb_init"
    BY <1>0, <1>1, <2>2 DEF QueueInv
  <2> QED BY <2>1, <2>2
<1>3. QueueType' /\ Items(queue'[c]) \subseteq Items(queue[c])
      /\ (place[c] = "scheduler_init" => Items(queue'[c]) = {})
      /\ (place[c] # "scheduler_init" => queue'[c] = queue[c])
      /\ \A d \in CPU : d # c => queue'[d] = queue[d]
  <2>1. << >> \in Seq(Thread) /\ NoRepeats(<< >>) /\ Items(<< >>) = {}
    BY DEF NoRepeats, Items
  <2>2. CASE queue' = queue /\ place[c] # "scheduler_init"
    BY <2>2, <1>0 DEF QueueInv, QueueType
  <2>3. CASE queue' = [queue EXCEPT ![c] = << >>] /\ place[c] = "scheduler_init"
    BY <2>1, <2>3, <1>0 DEF QueueInv, QueueType
  <2> QED BY <1>1, <2>2, <2>3
<1>4. ASSUME c # 0 PROVE ApQueue(c)'
  <2>1. ApQueue(c)
    BY <1>4 DEF QueueInv
  <2> QED BY <1>4, <2>1, <1>1, <1>3 DEF ApQueue
<1>5. ASSUME c = 0 PROVE BspQueue' /\ p # "run"
  <2>1. BspQueue /\ place[0] # "wait"
    BY <1>5 DEF QueueInv, IInv, PlaceType, BspPlaces
  <2> QED BY <1>5, <2>1, <1>0, <1>1, <1>3 DEF BspQueue
<1>6. p # "run"
  BY <1>1
<1> QED BY <1>0, <1>2, <1>3, <1>4, <1>5, <1>6, QueueStep

(* threads_init clears the pointers of all CPUs; none of them runs yet. *)
LEMMA QueueThreadsInit ==
  ASSUME IInv, QueueInv, threads_init
  PROVE  QueueInv'
<1>0. /\ 0 \in CPU /\ place[0] = "threads_init"
      /\ place' = [place EXCEPT ![0] = "scheduler_init"]
      /\ current' = [c \in CPU |-> NULL]
      /\ initialised \subseteq initialised'
      /\ UNCHANGED <<inside, queue, example>>
  BY ThreadTypes DEF threads_init, At, Goto, Initialise
<1>1. /\ place'[0] = "scheduler_init"
      /\ \A c \in CPU : c # 0 => place'[c] = place[c]
  BY <1>0 DEF IInv, PlaceType
<1>2. \A c \in CPU : place'[c] # "run"
  <2>1. cpu_ready = 0
    BY <1>0, BootAssumption DEF IInv, InsideInv, PlaceType, Starting
  <2> QED BY <1>1, <2>1, BootAssumption DEF IInv, TurnInv, PlaceType, CPU
<1>3. QueueType'
  BY <1>0 DEF QueueInv, QueueType
<1>4. \A c \in CPU \ {0} : ApQueue(c)'
  BY <1>0, <1>1 DEF QueueInv, ApQueue
<1>5. BspQueue'
  BY <1>0, <1>1 DEF QueueInv, BspQueue
<1>6. \A c \in CPU : place'[c] \notin {"wait", "tlb_init"} => <<"tlb", c>> \in initialised'
  BY <1>0, <1>1 DEF QueueInv
<1> QED BY <1>0, <1>2, <1>3, <1>4, <1>5, <1>6 DEF QueueInv

(* A step that leaves places, queues and pointers alone. *)
LEMMA QueueStay ==
  ASSUME QueueInv, UNCHANGED <<place, initialised, queue, current, example>>,
         0 \in inside' /\ place[0] = "run" =>
           0 \in inside \/ (current[0] = main_thread /\ example \in CreateCalls)
  PROVE  QueueInv'
BY DEF QueueInv, QueueType, ApQueue, BspQueue, RunQueue

LEMMA QueueMalloc ==
  ASSUME QueueInv, NEW c \in CPU, malloc(c)
  PROVE  QueueInv'
<1>1. /\ UNCHANGED <<place, initialised, queue, current, example>>
      /\ inside' = inside \union {c}
      /\ Booting(c) \/ (current[0] = main_thread /\ example \in CreateCalls)
  BY DEF malloc, InExample, CreateCalls
<1>2. c = 0 /\ place[0] = "run" => ~Booting(c)
  BY DEF Booting
<1> QED BY <1>1, <1>2, QueueStay

(* The thread that CPU c creates, and that it is not queued yet. *)
LEMMA QueueCreate ==
  ASSUME IInv, QueueInv, NEW c \in CPU, thread_create(c)
  PROVE  QueueInv'
<1> DEFINE t == NewThread(c)
           q == list_append(queue[c], t)
<1>0. /\ c \in inside /\ c \notin inside' /\ inside' \subseteq inside
      /\ queue' = [queue EXCEPT ![c] = q]
      /\ current' = current
      /\ Created(c)
      /\ place \in [CPU -> BspPlaces \union ApPlaces]
      /\ 0 \in CPU
  BY ThreadTypes DEF thread_create, sched_insert, IInv, PlaceType
<1>t. /\ Booting(c) => t = CASE place[c] = "timers_init" -> timer_thread
                             [] place[c] = "create_idle" -> idle_thread(c)
                             [] place[c] = "create_main" -> main_thread
      /\ ~Booting(c) /\ example \in CreateCalls =>
           t = CASE example = "create_one" -> thread_one
                 [] example = "create_two" -> thread_two
                 [] example = "create_process" -> process_thread
  BY DEF NewThread, Creates, Booting, CreateCalls
<1>h. queue[c] \in Seq(Thread) /\ NoRepeats(queue[c])
  BY DEF QueueInv, QueueType
<1> HIDE DEF t
<1>n. ASSUME t \in Thread, t \notin Items(queue[c]),
             example' \in CreateCalls \union JoinCalls \union {"halt"}
      PROVE  /\ QueueType'
             /\ Items(queue'[c]) = Items(queue[c]) \union {t}
             /\ \A d \in CPU : d # c => queue'[d] = queue[d]
  <2>1. q \in Seq(Thread) /\ Items(q) = Items(queue[c]) \union {t} /\ NoRepeats(q)
    BY <1>h, <1>n, AppendNew
  <2> HIDE DEF q
  <2> QED BY <1>0, <1>n, <2>1 DEF QueueInv, QueueType
<1>1. CASE c # 0
  <2>1. place[c] = "create_idle" /\ Booting(c)
    BY <1>0, <1>1 DEF IInv, InsideInv, PlaceType, Booting, ApPlaces
  <2>2. /\ place' = [place EXCEPT ![c] = "cpu_ready"] /\ UNCHANGED <<initialised, example>>
    BY <1>0, <1>1, <2>1 DEF Created, Goto
  <2>3. t = idle_thread(c) /\ t \in Thread
    BY <1>t, <2>1, ThreadTypes
  <2>4. Items(queue[c]) = {} /\ <<"tlb", c>> \in initialised
    BY <1>1, <2>1 DEF QueueInv, ApQueue
  <2>5. /\ QueueType' /\ Items(queue'[c]) = {idle_thread(c)}
        /\ \A d \in CPU : d # c => queue'[d] = queue[d]
    BY <1>n, <2>2, <2>3, <2>4 DEF QueueInv, QueueType
  <2>6. place'[c] = "cpu_ready" /\ \A d \in CPU : d # c => place'[d] = place[d]
    BY <1>0, <2>2
  <2>7. ApQueue(c)'
    BY <2>5, <2>6 DEF ApQueue
  <2> QED BY <1>0, <1>1, <2>2, <2>4, <2>5, <2>6, <2>7, QueueStep
<1>2. CASE c = 0 /\ Booting(c)
  <2>1. /\ place[0] \in {"timers_init", "create_idle", "create_main"}
        /\ example = "create_one" /\ place[0] # "run"
    BY <1>2 DEF Booting, QueueInv, BspQueue
  <2>2. /\ place'[0] = CASE place[0] = "timers_init" -> "create_idle"
                         [] place[0] = "create_idle" -> "create_main"
                         [] place[0] = "create_main" -> "cpu_ready"
        /\ \A d \in CPU : d # 0 => place'[d] = place[d]
        /\ example' = example /\ initialised \subseteq initialised'
    BY <1>0, <1>2, <2>1 DEF Created, Goto, Initialise
  <2>3. /\ t \in Thread /\ t \notin Items(queue[0])
        /\ place[0] = "timers_init" => t = timer_thread /\ Items(queue[0]) = {}
        /\ place[0] = "create_idle" => t = idle_thread(0) /\ Items(queue[0]) = {timer_thread}
        /\ place[0] = "create_main" =>
             t = main_thread /\ Items(queue[0]) = {timer_thread, idle_thread(0)}
    BY <1>2, <1>t, <2>1, ThreadTypes, ThreadsDiffer DEF QueueInv, BspQueue, FirstThreads
  <2>4. /\ QueueType' /\ Items(queue'[0]) = Items(queue[0]) \union {t}
        /\ \A d \in CPU : d # 0 => queue'[d] = queue[d]
    BY <1>2, <1>n, <2>1, <2>2, <2>3 DEF CreateCalls
  <2>5. BspQueue' /\ place'[0] # "run"
    <3>1. CASE place[0] = "timers_init"
      BY <3>1, <2>1, <2>2, <2>3, <2>4 DEF BspQueue
    <3>2. CASE place[0] = "create_idle"
      BY <3>2, <2>1, <2>2, <2>3, <2>4 DEF BspQueue
    <3>3. CASE place[0] = "create_main"
      BY <3>3, <2>1, <2>2, <2>3, <2>4 DEF BspQueue
    <3> QED BY <2>1, <3>1, <3>2, <3>3
  <2>6. <<"tlb", 0>> \in initialised'
    BY <1>0, <2>1, <2>2 DEF QueueInv
  <2> QED BY <1>0, <1>2, <2>2, <2>4, <2>5, <2>6, QueueStep
<1>3. CASE c = 0 /\ ~Booting(c)
  <2>1. place[0] = "run" /\ RunQueue /\ current[0] = main_thread /\ example \in CreateCalls
    BY <1>0, <1>3 DEF IInv, InsideInv, QueueInv, RunQueue
  <2>2. /\ place' = place /\ initialised' = initialised
        /\ example' = CASE example = "create_one" -> "create_two"
                        [] example = "create_two" -> "join_one"
                        [] example = "create_process" -> "join_process"
    BY <1>0, <1>3, <2>1 DEF Created
  <2>3. /\ t \in {thread_one, thread_two, process_thread} /\ t \notin Items(queue[0])
        /\ example = "create_one" => t = thread_one
        /\ example = "create_two" => t = thread_two
        /\ example = "create_process" => t = process_thread
    BY <1>3, <1>t, <2>1 DEF RunQueue, CreateCalls
  <2>4. t \in Thread /\ t \in FirstThreads
    BY <2>3, ThreadTypes DEF FirstThreads, Worker
  <2>5. /\ QueueType' /\ Items(queue'[0]) = Items(queue[0]) \union {t}
        /\ \A d \in CPU : d # 0 => queue'[d] = queue[d]
    BY <1>3, <1>n, <2>1, <2>2, <2>3, <2>4 DEF CreateCalls, JoinCalls
  <2>6. RunQueue'
    <3>1. main_thread \in Items(queue[0])
      BY <2>1 DEF RunQueue, CreateCalls, JoinCalls
    <3>2. 0 \notin inside'
      BY <1>0, <1>3
    <3>3. CASE example = "create_one"
      BY <3>1, <3>2, <3>3, <2>1, <2>2, <2>3, <2>4, <2>5, ThreadsDiffer DEF RunQueue
    <3>4. CASE example = "create_two"
      BY <3>1, <3>2, <3>4, <2>1, <2>2, <2>3, <2>4, <2>5, ThreadsDiffer DEF RunQueue
    <3>5. CASE example = "create_process"
      BY <3>1, <3>2, <3>5, <2>1, <2>2, <2>3, <2>4, <2>5, ThreadsDiffer DEF RunQueue
    <3> QED BY <2>1, <3>3, <3>4, <3>5 DEF CreateCalls
  <2>7. BspQueue'
    BY <2>1, <2>2 DEF BspQueue
  <2>8. current'[0] \in Items(queue'[0]) /\ <<"tlb", 0>> \in initialised'
    BY <1>0, <2>1, <2>2, <2>5 DEF QueueInv
  <2> QED BY <1>0, <1>3, <2>2, <2>5, <2>6, <2>7, <2>8, QueueStep
<1> QED BY <1>1, <1>2, <1>3

(* The first thread_switch finds the thread it switches to in the queue. *)
LEMMA QueueSwitch ==
  ASSUME IInv, QueueInv, NEW c \in CPU, thread_switch(c)
  PROVE  QueueInv'
<1>0. /\ place[c] = "switch" /\ c \notin inside
      /\ place' = [place EXCEPT ![c] = "run"]
      /\ current' = [current EXCEPT ![c] = FirstThread(c)]
      /\ UNCHANGED <<inside, initialised, queue, example>>
      /\ place \in [CPU -> BspPlaces \union ApPlaces]
      /\ current \in [CPU -> Thread \union {NULL}]
  BY DEF thread_switch, At, Goto, IInv, PlaceType, QueueInv, QueueType
<1>1. /\ place'[c] = "run" /\ current'[c] = FirstThread(c)
      /\ \A d \in CPU : d # c => place'[d] = place[d] /\ current'[d] = current[d]
  BY <1>0
<1>2. FirstThread(c) \in Items(queue[c]) /\ FirstThread(c) \in Thread
  <2>1. CASE c = 0
    BY <1>0, <2>1, ThreadTypes DEF FirstThread, QueueInv, BspQueue, FirstThreads
  <2>2. CASE c # 0
    <3>1. Items(queue[c]) = {idle_thread(c)}
      BY <1>0, <2>2 DEF QueueInv, ApQueue
    <3>2. link_connected(queue[c], idle_thread(c))
      BY <3>1, ConnectedIsItem
    <3> QED BY <2>2, <3>1, <3>2, ThreadTypes DEF FirstThread
  <2> QED BY <2>1, <2>2
<1>3. QueueType'
  BY <1>0, <1>2 DEF QueueInv, QueueType
<1>4. ASSUME c # 0 PROVE ApQueue(c)'
  BY <1>0, <1>1, <1>4 DEF QueueInv, ApQueue
<1>5. ASSUME c = 0 PROVE BspQueue' /\ RunQueue'
  <2>1. /\ Items(queue[0]) = {timer_thread, idle_thread(0), main_thread}
        /\ example = "create_one"
    BY <1>0, <1>5 DEF QueueInv, BspQueue
  <2>2. 0 \notin inside' /\ place'[0] = "run" /\ queue'[0] = queue[0] /\ example' = example
    BY <1>0, <1>1, <1>5
  <2> QED BY <2>1, <2>2, ThreadsDiffer DEF BspQueue, RunQueue, FirstThreads
<1> QED BY <1>0, <1>1, <1>2, <1>3, <1>4, <1>5, QueueStep DEF QueueInv

-----------------------------------------------------------------------------
(* schedule of a queue that is not empty. *)
LEMMA DispatchQueue ==
  ASSUME QueueType, NEW c \in CPU, NEW q \in Seq(Thread), NoRepeats(q), NEW t \in Items(q),
         Dispatch(c, q), example' \in CreateCalls \union JoinCalls \union {"halt"}
  PROVE  /\ QueueType'
         /\ Items(queue'[c]) = Items(q)
         /\ current'[c] \in Items(q)
         /\ \A d \in CPU : d # c => queue'[d] = queue[d] /\ current'[d] = current[d]
<1>1. q # << >>
  BY DEF Items
<1>2. /\ Head(q) \in Thread /\ Head(q) \in Items(q)
      /\ list_rotate(q) \in Seq(Thread)
      /\ Items(list_rotate(q)) = Items(q)
      /\ NoRepeats(list_rotate(q))
  BY <1>1, RotateList
<1>3. /\ queue' = [queue EXCEPT ![c] = list_rotate(q)]
      /\ current' = [current EXCEPT ![c] = Head(q)]
  BY <1>1 DEF Dispatch
<1> QED BY <1>2, <1>3 DEF QueueType

(* A CPU that runs schedules a queue that keeps what QueueInv says of it.  *)
LEMMA QueueDispatch ==
  ASSUME QueueInv, NEW c \in CPU, place[c] = "run", c \notin inside, inside' = inside,
         UNCHANGED <<place, initialised, example>>,
         NEW q \in Seq(Thread), NoRepeats(q), Dispatch(c, q),
         c # 0 => Items(q) = Items(queue[c]),
         c = 0 => /\ idle_thread(0) \in Items(q)
                  /\ Items(q) \subseteq Items(queue[0]) \union {main_thread}
                  /\ main_thread \notin Items(q) =>
                       example \in JoinCalls /\ Joined[example] \in Items(q)
  PROVE  QueueInv'
<1>1. idle_thread(c) \in Items(q)
  BY DEF QueueInv, ApQueue
<1>2. /\ QueueType'
      /\ Items(queue'[c]) = Items(q)
      /\ current'[c] \in Items(q)
      /\ \A d \in CPU : d # c => queue'[d] = queue[d] /\ current'[d] = current[d]
  <2>1. QueueType /\ example' \in CreateCalls \union JoinCalls \union {"halt"}
    BY DEF QueueInv, QueueType
  <2> QED BY <1>1, <2>1, DispatchQueue
<1>3. ASSUME c # 0 PROVE ApQueue(c)'
  BY <1>2, <1>3 DEF QueueInv, ApQueue
<1>4. ASSUME c = 0 PROVE BspQueue' /\ RunQueue'
  <2>1. RunQueue /\ 0 \notin inside'
    BY <1>4 DEF QueueInv
  <2>2. BspQueue'
    BY <1>4 DEF BspQueue
  <2>3. RunQueue'
    BY <1>2, <1>4, <2>1, ThreadsDiffer DEF RunQueue, FirstThreads
  <2> QED BY <2>2, <2>3
<1> QED BY <1>2, <1>3, <1>4, QueueStep DEF QueueInv

LEMMA QueueSchedule ==
  ASSUME QueueInv, NEW c \in CPU, schedule(c)
  PROVE  QueueInv'
<1>1. /\ place[c] = "run" /\ c \notin inside /\ Dispatch(c, queue[c])
      /\ UNCHANGED <<place, inside, initialised, example>>
  BY DEF schedule, At
<1>2. queue[c] \in Seq(Thread) /\ NoRepeats(queue[c])
  BY DEF QueueInv, QueueType
<1>3. c = 0 => RunQueue
  BY <1>1 DEF QueueInv
<1> QED BY <1>1, <1>2, <1>3, QueueDispatch DEF RunQueue

(* The timer thread leaves the queue, to which nobody adds it again: what  *)
(* wakes it is the subject of Threads.                                     *)
LEMMA QueueSuspend ==
  ASSUME QueueInv, thread_suspend
  PROVE  QueueInv'
<1> DEFINE q == list_remove(queue[0], timer_thread)
<1>1. /\ 0 \in CPU /\ place[0] = "run" /\ 0 \notin inside /\ Dispatch(0, q)
      /\ UNCHANGED <<place, inside, initialised, example>>
  BY ThreadTypes DEF thread_suspend, At
<1>2. q \in Seq(Thread) /\ Items(q) = Items(queue[0]) \ {timer_thread} /\ NoRepeats(q)
  BY <1>1, RemoveList DEF QueueInv, QueueType
<1> HIDE DEF q
<1>3. RunQueue
  BY <1>1 DEF QueueInv
<1>4. \A x \in JoinCalls : Joined[x] # timer_thread
  BY JoinTable, ThreadsDiffer DEF JoinCalls
<1> QED BY <1>1, <1>2, <1>3, <1>4, ThreadsDiffer, QueueDispatch DEF RunQueue

LEMMA QueueJoin ==
  ASSUME QueueInv, thread_join
  PROVE  QueueInv'
<1> DEFINE t == Joined[example]
           q == list_remove(queue[0], main_thread)
<1>1. /\ 0 \in CPU /\ place[0] = "run" /\ 0 \notin inside /\ current[0] = main_thread
      /\ example \in JoinCalls
      /\ UNCHANGED <<place, inside, initialised>>
      /\ RunQueue
  BY ThreadTypes, JoinTable DEF thread_join, At, QueueInv
<1>2. CASE link_connected(queue[0], t)
  <2>1. Dispatch(0, q) /\ example' = example
    BY <1>2 DEF thread_join
  <2>2. q \in Seq(Thread) /\ Items(q) = Items(queue[0]) \ {main_thread} /\ NoRepeats(q)
    BY <1>1, RemoveList DEF QueueInv, QueueType
  <2> HIDE DEF q
  <2>3. t \in Items(queue[0]) /\ t # main_thread
    BY <1>1, <1>2, ConnectedIsItem, JoinTable, ThreadsDiffer DEF JoinCalls
  <2>4. t \in Items(q) /\ idle_thread(0) \in Items(q)
    BY <1>1, <2>2, <2>3, ThreadsDiffer DEF RunQueue
  <2> QED BY <1>1, <2>1, <2>2, <2>4, QueueDispatch
<1>3. CASE ~link_connected(queue[0], t)
  <2>1. example' = AfterJoin[example] /\ UNCHANGED <<queue, current>>
    BY <1>3 DEF thread_join
  <2>2. main_thread \in Items(queue[0])
    BY <1>1 DEF QueueInv
  <2>3. /\ example = "join_one" => example' = "join_two"
        /\ example = "join_two" => example' = "create_process"
        /\ example = "join_process" => example' = "halt"
        /\ example' \in CreateCalls \union JoinCalls \union {"halt"}
    BY <1>1, <2>1, JoinTable DEF CreateCalls, JoinCalls
  <2>4. QueueType'
    BY <2>1, <2>3 DEF QueueInv, QueueType
  <2>5. RunQueue'
    <3>1. queue'[0] = queue[0] /\ 0 \notin inside'
      BY <1>1, <2>1
    <3> QED BY <1>1, <2>2, <2>3, <3>1 DEF RunQueue, JoinCalls
  <2>6. BspQueue'
    BY <1>1 DEF BspQueue
  <2> QED BY <1>1, <2>1, <2>4, <2>5, <2>6 DEF QueueInv, ApQueue
<1> QED BY <1>2, <1>3

(* A worker that ends is not the thread the main thread waits for, or the  *)
(* main thread is queued again.                                            *)
LEMMA QueueFinish ==
  ASSUME QueueInv, thread_finish
  PROVE  QueueInv'
<1> DEFINE w     == current[0]
           left  == list_remove(queue[0], w)
           waits == /\ example \in DOMAIN Joined /\ Joined[example] = w
                    /\ ~link_connected(queue[0], main_thread)
           q     == IF waits THEN list_append(left, main_thread) ELSE left
<1>1. /\ 0 \in CPU /\ place[0] = "run" /\ 0 \notin inside /\ w \in Worker
      /\ Dispatch(0, q)
      /\ UNCHANGED <<place, inside, initialised, example>>
      /\ RunQueue
      /\ queue[0] \in Seq(Thread) /\ NoRepeats(queue[0])
  BY ThreadTypes DEF thread_finish, At, QueueInv, QueueType
<1>2. left \in Seq(Thread) /\ Items(left) = Items(queue[0]) \ {w} /\ NoRepeats(left)
  BY <1>1, RemoveList
<1> HIDE DEF left
<1>3. /\ main_thread \in Thread /\ w # main_thread /\ w # idle_thread(0)
  <2>1. w = thread_one \/ w = thread_two \/ w = process_thread
    BY <1>1 DEF Worker
  <2> HIDE DEF w
  <2> QED BY <2>1, ThreadTypes, ThreadsDiffer DEF FirstThreads
<1>4. CASE waits
  <2>1. main_thread \notin Items(queue[0])
    BY <1>4, ConnectedIsItem
  <2>2. q = list_append(left, main_thread)
    BY <1>4
  <2>3. q \in Seq(Thread) /\ Items(q) = Items(left) \union {main_thread} /\ NoRepeats(q)
    BY <1>2, <1>3, <2>1, <2>2, AppendNew
  <2>4. idle_thread(0) \in Items(q)
    BY <1>1, <1>2, <1>3, <2>3 DEF RunQueue
  <2> HIDE DEF q, waits, w
  <2> QED BY <1>1, <1>2, <2>3, <2>4, QueueDispatch
<1>5. CASE ~waits
  <2>1. q = left
    BY <1>5
  <2>2. main_thread \notin Items(queue[0]) => Joined[example] # w
    BY <1>1, <1>5, ConnectedIsItem, JoinTable DEF RunQueue
  <2> HIDE DEF q, waits, w
  <2>3. idle_thread(0) \in Items(left)
    BY <1>1, <1>2, <1>3 DEF RunQueue
  <2>4. main_thread \notin Items(left) => example \in JoinCalls /\ Joined[example] \in Items(left)
    BY <1>1, <1>2, <1>3, <2>2 DEF RunQueue
  <2> QED BY <1>1, <1>2, <2>1, <2>3, <2>4, QueueDispatch
<1> QED BY <1>4, <1>5

-----------------------------------------------------------------------------
LEMMA InitQueue == Init => QueueInv
<1> SUFFICES ASSUME Init PROVE QueueInv
  OBVIOUS
<1>1. << >> \in Seq(Thread) /\ NoRepeats(<< >>) /\ Items(<< >>) = {}
  BY DEF NoRepeats, Items
<1>2. QueueType
  BY <1>1 DEF Init, QueueType, CreateCalls
<1>3. \A c \in CPU : place[c] = IF c = 0 THEN "tlb_init" ELSE "wait"
  BY DEF Init, start
<1>4. \A c \in CPU : Items(queue[c]) = {}
  BY <1>1 DEF Init
<1>5. example = "create_one"
  BY DEF Init
<1> QED BY <1>2, <1>3, <1>4, <1>5, ThreadTypes DEF QueueInv, ApQueue, BspQueue

LEMMA NextQueue ==
  ASSUME Short \subseteq {0}, IInv, QueueInv, [Next]_vars
  PROVE  QueueInv'
<1>0. 0 \in CPU
  BY ThreadTypes
<1>1. CASE UNCHANGED vars
  BY <1>1, QueueStay DEF vars
<1>2. CASE Step0
  <2>1. CASE frame_init \/ heap_init
    BY <1>0, <2>1, QueueMove
  <2>2. CASE threads_init
    BY <2>2, QueueThreadsInit
  <2>3. CASE thread_suspend \/ thread_join \/ thread_finish
    BY <2>3, QueueSuspend, QueueJoin, QueueFinish
  <2>4. CASE msim_halt
    BY <2>4, QueueStay DEF msim_halt
  <2> QED BY <1>2, <2>1, <2>2, <2>3, <2>4 DEF Step0
<1>3. ASSUME NEW c \in CPU, Step(c)
      PROVE  QueueInv'
  <2>1. CASE ap_wait(c) \/ tlb_init(c) \/ scheduler_init(c) \/ atomic_add_cpu_ready(c)
    BY <2>1, QueueMove
  <2>2. CASE malloc(c) \/ thread_create(c)
    BY <2>2, QueueMalloc, QueueCreate
  <2>3. CASE thread_create_fails(c)
    <3>1. c = 0
      BY <2>3 DEF thread_create_fails
    <3>2. UNCHANGED <<place, initialised, queue, current, example>> /\ inside' \subseteq inside
      BY <2>3, <3>1 DEF thread_create_fails
    <3> QED BY <3>2, QueueStay
  <2>4. CASE thread_switch(c) \/ schedule(c)
    BY <2>4, QueueSwitch, QueueSchedule
  <2> QED BY <1>3, <2>1, <2>2, <2>3, <2>4 DEF Step
<1> QED BY <1>1, <1>2, <1>3 DEF Next

LEMMA SafeQueue == IInv /\ QueueInv => OwnQueue
<1> SUFFICES ASSUME IInv, QueueInv PROVE OwnQueue
  OBVIOUS
<1>0. 0 \in CPU
  BY ThreadTypes
<1>1. ASSUME NEW c \in CPU, place[c] = "run"
      PROVE  /\ {<<"tlb", c>>, <<"queue", c>>, <<"timers", 0>>} \subseteq initialised
             /\ link_connected(queue[c], current[c])
             /\ link_connected(queue[c], idle_thread(c))
  <2>1. {<<"tlb", c>>, <<"queue", c>>, <<"timers", 0>>} \subseteq initialised
    BY <1>1 DEF IInv, DoneBefore, QueueInv
  <2>2. current[c] \in Items(queue[c]) /\ idle_thread(c) \in Items(queue[c])
    BY <1>1 DEF QueueInv, ApQueue, RunQueue
  <2> QED BY <2>1, <2>2, ConnectedIsItem
<1>2. \A c \in CPU \ {0} : Items(queue[c]) \subseteq {idle_thread(c)}
  BY DEF QueueInv, ApQueue
<1>3. Items(queue[0]) \subseteq FirstThreads
  <2>1. place[0] \in BspPlaces
    BY <1>0 DEF IInv, PlaceType
  <2> QED BY <2>1 DEF QueueInv, BspQueue, RunQueue, FirstThreads, BspPlaces
<1>4. \A c \in CPU \ {0} : idle_thread(c) \notin FirstThreads
  BY ThreadsDiffer DEF FirstThreads, Worker
<1>5. ASSUME NEW c \in CPU, NEW d \in CPU, c # d
      PROVE  Items(queue[c]) \intersect Items(queue[d]) = {}
  <2>1. CASE c # 0 /\ d # 0
    BY <1>2, <1>5, <2>1, ThreadsDiffer
  <2>2. CASE c = 0 \/ d = 0
    BY <1>2, <1>3, <1>4, <1>5, <2>2
  <2> QED BY <2>1, <2>2
<1> QED BY <1>1, <1>5 DEF OwnQueue, QueueInv, QueueType

(* Where only CPU 0 can run out of memory, a CPU that runs has everything  *)
(* sched_timer reads, its current and its idle thread are in its own queue *)
(* and no thread is in two queues, for any number of CPUs.                 *)
THEOREM QueueCorrect == Short \subseteq {0} /\ Spec => []OwnQueue
<1>1. Init => IInv /\ QueueInv
  BY InitIInv, InitQueue
<1>2. Short \subseteq {0} /\ IInv /\ QueueInv /\ [Next]_vars => IInv' /\ QueueInv'
  BY NextIInv, NextQueue
<1>3. IInv /\ QueueInv => OwnQueue
  BY SafeQueue
<1> SUFFICES ASSUME Short \subseteq {0} PROVE Spec => []OwnQueue
  OBVIOUS
<1>4. IInv /\ QueueInv /\ [Next]_vars => IInv' /\ QueueInv'
  BY <1>2
<1> QED BY <1>1, <1>3, <1>4, PTL DEF Spec
=============================================================================

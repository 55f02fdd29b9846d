------------------------ MODULE OSThreadKernelProofs ------------------------
(***************************************************************************)
(* Lemmas about the operators of OSThreadKernel, for the proofs about the  *)
(* modules that extend it.                                                 *)
(***************************************************************************)
EXTENDS OSThreadKernel, SequenceTheorems, TLAPS

(* A node of the scheduler's list, its slot and its priority.              *)
LEMMA NodeAt ==
  ASSUME NEW list \in Seq(PriorityQueueNaiveNode), NEW i \in DOMAIN list
  PROVE  /\ i \in 1 .. Len(list)
         /\ list[i] \in PriorityQueueNaiveNode
         /\ list[i].ptr \in Slots
         /\ list[i].priority \in 0 .. MAX_PRIORITY
<1>1. i \in 1 .. Len(list)
  BY LenProperties
<1>2. list[i] \in PriorityQueueNaiveNode
  BY <1>1, ElementOfSeq
<1> QED
  BY <1>1, <1>2 DEF PriorityQueueNaiveNode

(* A field of a thread record changes without disturbing the others.       *)
LEMMA FlagsUpdate ==
  ASSUME NEW f \in [Slots -> thread_t], NEW t \in Slots, NEW s \in thread_state_t
  PROVE  /\ [f EXCEPT ![t].flags = s] \in [Slots -> thread_t]
         /\ [f EXCEPT ![t].flags = s][t].flags = s
         /\ \A u \in Slots \ {t} : [f EXCEPT ![t].flags = s][u] = f[u]
         /\ [f EXCEPT ![t].flags = s][t].thread_priority = f[t].thread_priority
         /\ [f EXCEPT ![t].flags = s][t].mutex_semaphore = f[t].mutex_semaphore
BY DEF thread_t

(* One thread put to sleep.                                                *)
LEMMA SleepUpdate ==
  ASSUME KernelTypeOK, NEW t \in Slots, NEW n \in 0 .. MAX_INTERVAL,
         PrepareSleep(t, n)
  PROVE  /\ system_threads' \in [Slots -> thread_t]
         /\ flags(t)' = "SLEEPING"
         /\ \A u \in Slots \ {t} : system_threads'[u] = system_threads[u]
<1> DEFINE rec == [system_threads[t] EXCEPT !.remaining = n, !.flags = "SLEEPING"]
<1>1. system_threads \in [Slots -> thread_t]
  BY DEF KernelTypeOK
<1>2. rec \in thread_t /\ rec.flags = "SLEEPING"
  BY <1>1 DEF thread_t, thread_state_t
<1>3. system_threads' = [system_threads EXCEPT ![t] = rec]
  BY <1>1 DEF PrepareSleep
<1> HIDE DEF rec
<1> QED
  BY <1>1, <1>2, <1>3 DEF flags

(* A slot that os_add_thread fills.                                        *)
LEMMA AddedSlotType ==
  ASSUME NEW slot \in thread_t, NEW priority \in 0 .. MAX_PRIORITY
  PROVE  /\ AddedSlot(slot, priority) \in thread_t
         /\ AddedSlot(slot, priority).flags = "RUNNING"
         /\ AddedSlot(slot, priority).mutex_semaphore = slot.mutex_semaphore
BY DEF AddedSlot, thread_t, thread_state_t

(* The state threads_init() leaves.                                        *)
LEMMA KernelInitFacts ==
  ASSUME KernelInit
  PROVE  /\ KernelTypeOK
         /\ flags(Idle) = "RUNNING"
         /\ \A t \in Slots \ {Idle} : flags(t) = "EMPTY"
         /\ \A t \in Slots : Listed(t) <=> t = Idle
<1> USE BoundsAssumption, WordAssumption
<1>0. Main \in Slots /\ Idle \in Slots
  BY ThreadsAssumption DEF Main, Idle, Slots
<1>1. EmptySlot \in thread_t
  BY DEF EmptySlot, thread_t, thread_state_t
<1>2. system_threads \in [Slots -> thread_t]
  BY <1>1, AddedSlotType DEF KernelInit
<1>3. thread_priorities \in Seq(PriorityQueueNaiveNode)
  BY <1>0 DEF KernelInit, PriorityQueueNaiveNode
<1>4. KernelTypeOK
  BY <1>0, <1>2, <1>3 DEF KernelInit, KernelTypeOK, os_state_t
<1>5. thread_priorities[1].ptr = Idle /\ DOMAIN thread_priorities = {1}
  BY DEF KernelInit
<1>6. /\ flags(Idle) = "RUNNING"
      /\ \A t \in Slots \ {Idle} : flags(t) = "EMPTY"
  BY <1>0 DEF KernelInit, flags, AddedSlot, EmptySlot
<1> QED
  BY <1>4, <1>5, <1>6 DEF Listed

(* The effect of the kernel calls that set a thread's flags.               *)
LEMMA SetFlagsType ==
  ASSUME KernelTypeOK, NEW t \in Slots, NEW f \in thread_state_t, SetFlags(t, f)
  PROVE  /\ system_threads' \in [Slots -> thread_t]
         /\ \A u \in Slots : u # t => system_threads'[u] = system_threads[u]
         /\ flags(t)' = IF Exists(t) THEN f ELSE flags(t)
         /\ system_threads'[t].mutex_semaphore = system_threads[t].mutex_semaphore
<1>1. system_threads \in [Slots -> thread_t]
  BY DEF KernelTypeOK
<1>2. CASE Exists(t)
  <2>1. system_threads' = [system_threads EXCEPT ![t].flags = f]
    BY <1>2 DEF SetFlags
  <2> QED
    BY <1>1, <1>2, <2>1, FlagsUpdate DEF flags
<1>3. CASE ~Exists(t)
  BY <1>1, <1>3 DEF SetFlags, flags
<1> QED
  BY <1>2, <1>3

(* The fields of a node.                                                   *)
LEMMA NodeSlot ==
  ASSUME NEW node \in PriorityQueueNaiveNode
  PROVE  node.ptr \in Slots /\ node.priority \in 0 .. MAX_PRIORITY
BY DEF PriorityQueueNaiveNode

(* The scheduler never picks a slot without a thread.                      *)
LEMMA ReadyNotEmpty ==
  ASSUME NEW t \in Slots, Ready(t)
  PROVE  flags(t) \notin {"EMPTY", "ENDED"}
BY DEF Ready, CanWake, flags

(* The scheduler's choice: a thread of the list that was ready, now        *)
(* RUNNING, and no other thread changes.                                   *)
LEMMA Schedule ==
  ASSUME KernelTypeOK, os_get_next_thread
  PROVE  /\ system_threads' \in [Slots -> thread_t]
         /\ current_thread' \in Slots \cup {NULL}
         /\ current_thread' # NULL =>
              /\ Ready(current_thread')
              /\ flags(current_thread)' = "RUNNING"
              /\ \E i \in DOMAIN thread_priorities :
                   thread_priorities[i].ptr = current_thread'
         /\ \A t \in Slots : t # current_thread' =>
              system_threads'[t] = system_threads[t]
         /\ \A t \in Slots :
              system_threads'[t].mutex_semaphore = system_threads[t].mutex_semaphore
<1> USE NullAssumption
<1>1. CASE \E i \in DOMAIN thread_priorities : ReadyAt(i)
  <2>1. PICK i \in DOMAIN thread_priorities :
          /\ ReadyAt(i)
          /\ current_thread' = thread_priorities[i].ptr
          /\ system_threads' =
               [system_threads EXCEPT ![thread_priorities[i].ptr].flags = "RUNNING"]
    BY <1>1 DEF os_get_next_thread
  <2>2. thread_priorities[i].ptr \in Slots
    BY NodeAt DEF KernelTypeOK
  <2>3. "RUNNING" \in thread_state_t
    BY DEF thread_state_t
  <2>4. system_threads \in [Slots -> thread_t]
    BY DEF KernelTypeOK
  <2> DEFINE c == thread_priorities[i].ptr
  <2>5. /\ system_threads' \in [Slots -> thread_t]
        /\ system_threads'[c].flags = "RUNNING"
        /\ \A t \in Slots \ {c} : system_threads'[t] = system_threads[t]
        /\ system_threads'[c].mutex_semaphore = system_threads[c].mutex_semaphore
    BY <2>1, <2>2, <2>3, <2>4, FlagsUpdate
  <2>6. current_thread' = c /\ c \in Slots /\ Ready(c)
    BY <2>1, <2>2 DEF ReadyAt
  <2> HIDE DEF c
  <2>7. \E k \in DOMAIN thread_priorities : thread_priorities[k].ptr = current_thread'
    BY <2>6 DEF c
  <2>8. Ready(current_thread') /\ flags(current_thread)' = "RUNNING"
    BY <2>5, <2>6 DEF Ready, flags
  <2>9. \A t \in Slots :
          system_threads'[t].mutex_semaphore = system_threads[t].mutex_semaphore
    BY <2>5
  <2>10. \A t \in Slots : t # current_thread' =>
           system_threads'[t] = system_threads[t]
    BY <2>5, <2>6
  <2> QED
    BY <2>5, <2>6, <2>7, <2>8, <2>9, <2>10
<1>2. CASE ~ \E i \in DOMAIN thread_priorities : ReadyAt(i)
  BY <1>2 DEF os_get_next_thread, KernelTypeOK
<1> QED
  BY <1>1, <1>2

(* A context switch keeps the kernel's variables well typed.               *)
LEMMA ContextSwitchType ==
  ASSUME KernelTypeOK, ContextSwitch \/ TimerSwitch
  PROVE  KernelTypeOK'
BY Schedule DEF ContextSwitch, TimerSwitch, KernelTypeOK

(* The clock keeps types and flags.                                        *)
LEMMA TickType ==
  ASSUME KernelTypeOK, Tick
  PROVE  /\ KernelTypeOK'
         /\ \A t \in Slots :
              /\ flags(t)' = flags(t)
              /\ system_threads'[t].mutex_semaphore = system_threads[t].mutex_semaphore
<1>1. system_threads \in [Slots -> thread_t]
  BY DEF KernelTypeOK
<1>2. ASSUME NEW t \in Slots
      PROVE  /\ system_threads'[t] \in thread_t
             /\ system_threads'[t].flags = system_threads[t].flags
             /\ system_threads'[t].mutex_semaphore = system_threads[t].mutex_semaphore
  <2>1. CASE system_threads[t].remaining > 0
    <3>1. system_threads'[t] = [system_threads[t] EXCEPT !.remaining = @ - 1]
      BY <2>1 DEF Tick
    <3>2. system_threads[t].remaining - 1 \in 0 .. MAX_INTERVAL
      BY <1>1, <2>1, BoundsAssumption DEF thread_t
    <3> QED
      BY <1>1, <3>1, <3>2 DEF thread_t
  <2>2. CASE ~(system_threads[t].remaining > 0)
    BY <1>1, <2>2 DEF Tick
  <2> QED
    BY <2>1, <2>2
<1>3. system_threads' \in [Slots -> thread_t]
  BY <1>2 DEF Tick
<1> QED
  BY <1>2, <1>3 DEF Tick, KernelTypeOK, flags

(* Where insertion puts each node.                                         *)
LEMMA InsertNodePositions ==
  ASSUME thread_priorities \in Seq(PriorityQueueNaiveNode),
         NEW node \in PriorityQueueNaiveNode,
         InsertNode(node)
  PROVE  \E last \in 0 .. Len(thread_priorities) :
           /\ InsertsAfter(thread_priorities, node, last)
           /\ thread_priorities' \in Seq(PriorityQueueNaiveNode)
           /\ Len(thread_priorities') = Len(thread_priorities) + 1
           /\ \A i \in 1 .. last : thread_priorities'[i] = thread_priorities[i]
           /\ thread_priorities'[last + 1] = node
           /\ \A i \in last + 1 .. Len(thread_priorities) :
                thread_priorities'[i + 1] = thread_priorities[i]
<1> DEFINE tp == thread_priorities
<1>1. PICK last \in 0 .. Len(tp) :
        /\ InsertsAfter(tp, node, last)
        /\ tp' = SubSeq(tp, 1, last) \o <<node>> \o SubSeq(tp, last + 1, Len(tp))
  BY DEF InsertNode
<1> DEFINE front == SubSeq(tp, 1, last)
           back == SubSeq(tp, last + 1, Len(tp))
<1>2. /\ front \in Seq(PriorityQueueNaiveNode)
      /\ Len(front) = last
      /\ \A i \in 1 .. last : front[i] = tp[i]
      /\ back \in Seq(PriorityQueueNaiveNode)
      /\ Len(back) = Len(tp) - last
      /\ \A i \in 1 .. Len(tp) - last : back[i] = tp[last + i]
  OBVIOUS
<1>3. <<node>> \in Seq(PriorityQueueNaiveNode) /\ Len(<<node>>) = 1 /\ <<node>>[1] = node
  OBVIOUS
<1>4. tp' = front \o <<node>> \o back
  BY <1>1
<1> HIDE DEF front, back
<1> DEFINE middle == front \o <<node>>
<1>5. /\ middle \in Seq(PriorityQueueNaiveNode)
      /\ Len(middle) = last + 1
      /\ \A i \in 1 .. last : middle[i] = tp[i]
      /\ middle[last + 1] = node
  BY <1>2, <1>3
<1>6. tp' = middle \o back
  BY <1>4
<1> HIDE DEF middle
<1>7. /\ tp' \in Seq(PriorityQueueNaiveNode)
      /\ Len(tp') = Len(tp) + 1
      /\ \A i \in 1 .. last + 1 : tp'[i] = middle[i]
      /\ \A i \in last + 1 .. Len(tp) : tp'[i + 1] = back[i - last]
  BY <1>2, <1>5, <1>6
<1>8. /\ \A i \in 1 .. last : tp'[i] = tp[i]
      /\ tp'[last + 1] = node
      /\ \A i \in last + 1 .. Len(tp) : tp'[i + 1] = tp[i]
  BY <1>2, <1>5, <1>7
<1> QED
  BY <1>1, <1>7, <1>8

(* Insertion adds the node, loses none and makes up none.                  *)
LEMMA InsertNodeKeeps ==
  ASSUME thread_priorities \in Seq(PriorityQueueNaiveNode),
         NEW node \in PriorityQueueNaiveNode,
         InsertNode(node)
  PROVE  /\ thread_priorities' \in Seq(PriorityQueueNaiveNode)
         /\ \E j \in DOMAIN thread_priorities' : thread_priorities'[j] = node
         /\ \A i \in DOMAIN thread_priorities :
              \E j \in DOMAIN thread_priorities' :
                thread_priorities'[j] = thread_priorities[i]
         /\ \A j \in DOMAIN thread_priorities' :
              \/ thread_priorities'[j] = node
              \/ \E i \in DOMAIN thread_priorities :
                   thread_priorities'[j] = thread_priorities[i]
<1> DEFINE tp == thread_priorities
<1>1. PICK last \in 0 .. Len(tp) :
        /\ tp' \in Seq(PriorityQueueNaiveNode)
        /\ Len(tp') = Len(tp) + 1
        /\ \A i \in 1 .. last : tp'[i] = tp[i]
        /\ tp'[last + 1] = node
        /\ \A i \in last + 1 .. Len(tp) : tp'[i + 1] = tp[i]
  BY InsertNodePositions
<1>2. DOMAIN tp = 1 .. Len(tp) /\ DOMAIN tp' = 1 .. Len(tp) + 1
  BY <1>1, LenProperties
<1>3. ASSUME NEW j \in DOMAIN tp'
       PROVE  tp'[j] = node \/ \E i \in DOMAIN tp : tp'[j] = tp[i]
  <2>0. Len(tp) \in Nat /\ last \in 0 .. Len(tp) /\ j \in 1 .. Len(tp) + 1
    BY <1>2, LenProperties
  <2>1. CASE j <= last
    BY <1>1, <1>2, <2>0, <2>1
  <2>2. CASE j = last + 1
    BY <1>1, <2>2
  <2>3. CASE j > last + 1
    <3>1. j - 1 \in last + 1 .. Len(tp) /\ j = (j - 1) + 1
      BY <2>0, <2>3
    <3>2. tp'[j] = tp[j - 1] /\ j - 1 \in DOMAIN tp
      BY <1>1, <1>2, <2>0, <3>1
    <3> QED
      BY <3>2
  <2> QED
    BY <2>0, <2>1, <2>2, <2>3
<1>4. \E j \in DOMAIN tp' : tp'[j] = node
  <2>1. last + 1 \in DOMAIN tp'
    BY <1>2
  <2> QED
    BY <1>1, <2>1
<1>5. ASSUME NEW i \in DOMAIN tp
       PROVE  \E j \in DOMAIN tp' : tp'[j] = tp[i]
  <2>1. CASE i <= last
    <3>1. i \in DOMAIN tp' /\ i \in 1 .. last
      BY <1>2, <2>1
    <3> QED
      BY <1>1, <3>1
  <2>2. CASE i > last
    <3>1. i + 1 \in DOMAIN tp' /\ i \in last + 1 .. Len(tp)
      BY <1>2, <2>2
    <3> QED
      BY <1>1, <3>1
  <2> QED
    BY <1>2, <2>1, <2>2
<1> QED
  BY <1>1, <1>3, <1>4, <1>5

(* Insertion keeps the list in order of priority.                          *)
LEMMA InsertNodeSorted ==
  ASSUME thread_priorities \in Seq(PriorityQueueNaiveNode),
         NEW node \in PriorityQueueNaiveNode,
         InsertNode(node),
         \A i, j \in 1 .. Len(thread_priorities) :
           i < j => thread_priorities[i].priority >= thread_priorities[j].priority
  PROVE  \A i, j \in 1 .. Len(thread_priorities') :
           i < j => thread_priorities'[i].priority >= thread_priorities'[j].priority
<1> DEFINE tp == thread_priorities
           P(i) == tp[i].priority
<1>1. PICK last \in 0 .. Len(tp) :
        /\ InsertsAfter(tp, node, last)
        /\ Len(tp') = Len(tp) + 1
        /\ \A i \in 1 .. last : tp'[i] = tp[i]
        /\ tp'[last + 1] = node
        /\ \A i \in last + 1 .. Len(tp) : tp'[i + 1] = tp[i]
  BY InsertNodePositions
<1>2. Len(tp) \in Nat /\ node.priority \in Nat /\ \A i \in 1 .. Len(tp) : P(i) \in Nat
  <2>1. DOMAIN tp = 1 .. Len(tp) /\ Len(tp) \in Nat
    BY LenProperties
  <2>2. \A i \in 1 .. Len(tp) : P(i) \in 0 .. MAX_PRIORITY
    BY <2>1, NodeAt
  <2>3. node.priority \in 0 .. MAX_PRIORITY
    BY DEF PriorityQueueNaiveNode
  <2> QED
    BY <2>1, <2>2, <2>3, BoundsAssumption
<1>3. \A i, j \in 1 .. Len(tp) : i < j => P(i) >= P(j)
  OBVIOUS
<1>4. \A i \in 1 .. last : P(i) >= node.priority
  <2>1. CASE last = 0
    BY <2>1
  <2>2. CASE last # 0
    BY <1>1, <1>2, <2>2 DEF InsertsAfter
  <2> QED
    BY <2>1, <2>2
<1>5. \A i \in last + 1 .. Len(tp) : node.priority >= P(i)
  <2>1. last < Len(tp) => node.priority >= P(last + 1)
    BY <1>1, <1>2 DEF InsertsAfter
  <2>2. SUFFICES ASSUME NEW i \in last + 1 .. Len(tp)
                 PROVE  node.priority >= P(i)
    OBVIOUS
  <2>3. P(last + 1) >= P(i)
    BY <1>2, <1>3, <2>2
  <2> QED
    BY <1>2, <2>1, <2>2, <2>3
<1> SUFFICES ASSUME NEW i \in 1 .. Len(tp) + 1, NEW j \in 1 .. Len(tp) + 1, i < j
             PROVE  tp'[i].priority >= tp'[j].priority
  BY <1>1
<1>6. CASE j <= last
  BY <1>1, <1>2, <1>3, <1>6
<1>7. CASE j = last + 1
  BY <1>1, <1>2, <1>4, <1>7
<1>8. CASE j > last + 1
  <2>1. tp'[j] = tp[j - 1] /\ j - 1 \in last + 1 .. Len(tp)
    BY <1>1, <1>2, <1>8
  <2>2. CASE i <= last
    BY <1>1, <1>2, <1>3, <2>1, <2>2
  <2>3. CASE i = last + 1
    BY <1>1, <1>5, <2>1, <2>3
  <2>4. CASE i > last + 1
    <3>1. tp'[i] = tp[i - 1] /\ i - 1 \in 1 .. Len(tp)
      BY <1>1, <1>2, <2>4
    <3> QED
      BY <1>2, <1>3, <2>1, <3>1
  <2> QED
    BY <1>2, <2>2, <2>3, <2>4
<1> QED
  BY <1>2, <1>6, <1>7, <1>8

(* A node inserted is the only slot that becomes listed.                   *)
LEMMA InsertLists ==
  ASSUME thread_priorities \in Seq(PriorityQueueNaiveNode),
         NEW node \in PriorityQueueNaiveNode, InsertNode(node)
  PROVE  \A t \in Slots : Listed(t)' <=> Listed(t) \/ t = node.ptr
BY InsertNodeKeeps DEF Listed

(* All of os_add_thread at once.                                           *)
LEMMA AddThreadEffect ==
  ASSUME KernelTypeOK, NEW priority \in 0 .. MAX_PRIORITY, AddThread(priority)
  PROVE  /\ system_threads' \in [Slots -> thread_t]
         /\ thread_priorities' \in Seq(PriorityQueueNaiveNode)
         /\ thread_count' \in Int
         /\ \E i \in Slots \ {Main} :
              /\ FreeSlot(i)
              /\ flags(i)' = "RUNNING"
              /\ \A t \in Slots : t # i => system_threads'[t] = system_threads[t]
         /\ \A t \in Slots :
              system_threads'[t].mutex_semaphore = system_threads[t].mutex_semaphore
         /\ \A t \in Slots : Listed(t) => Listed(t)'
<1>1. PICK i \in Slots :
        /\ FirstFreeSlot(i)
        /\ system_threads' = [system_threads EXCEPT ![i] = AddedSlot(@, priority)]
        /\ InsertNode([ptr |-> i, priority |-> priority])
        /\ thread_count' = thread_count + 1
  BY DEF AddThread
<1>2. [ptr |-> i, priority |-> priority] \in PriorityQueueNaiveNode
  BY DEF PriorityQueueNaiveNode
<1>3. system_threads \in [Slots -> thread_t]
  BY DEF KernelTypeOK
<1>4. AddedSlot(system_threads[i], priority) \in thread_t
  BY <1>3, AddedSlotType
<1>5. /\ system_threads' \in [Slots -> thread_t]
      /\ flags(i)' = "RUNNING"
      /\ \A t \in Slots : t # i => system_threads'[t] = system_threads[t]
      /\ system_threads'[i].mutex_semaphore = system_threads[i].mutex_semaphore
  BY <1>1, <1>3, <1>4, AddedSlotType DEF flags
<1>6. i \in Slots \ {Main} /\ FreeSlot(i)
  BY <1>1 DEF FirstFreeSlot, Main
<1>7. /\ thread_priorities' \in Seq(PriorityQueueNaiveNode)
      /\ \A t \in Slots : Listed(t) => Listed(t)'
  BY <1>1, <1>2, InsertNodeKeeps, InsertLists DEF KernelTypeOK
<1>8. thread_count' \in Int
  BY <1>1 DEF KernelTypeOK
<1> QED
  BY <1>5, <1>6, <1>7, <1>8

(* While the idle thread is listed and RUNNING the walk finds a thread.    *)
LEMMA IdleEndsWalk ==
  ASSUME KernelTypeOK, Listed(Idle), flags(Idle) = "RUNNING", os_get_next_thread
  PROVE  current_thread' # NULL
<1>1. PICK i \in DOMAIN thread_priorities : thread_priorities[i].ptr = Idle
  BY DEF Listed
<1>2. ReadyAt(i)
  BY <1>1 DEF ReadyAt, Ready
<1>3. PICK k \in DOMAIN thread_priorities : current_thread' = thread_priorities[k].ptr
  BY <1>2 DEF os_get_next_thread
<1>4. NULL \notin Slots
  BY ThreadsAssumption, NullAssumption DEF Slots
<1> QED
  BY <1>3, <1>4, NodeAt DEF KernelTypeOK
=============================================================================

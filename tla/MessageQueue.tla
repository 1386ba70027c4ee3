---------------------------- MODULE MessageQueue ----------------------------
(***************************************************************************)
(* The message queue of mm_foundations (srcs/mm_message.c): messages are   *)
(* copied into nodes that travel from an idle list to a ready list and     *)
(* back, under one mutex, with one condition variable and one waiting      *)
(* flag for all the threads that wait.                                     *)
(*                                                                         *)
(* Every function holds the mutex from its first statement to its last     *)
(* except inside pthread_cond_wait / _timedwait, so a function that does   *)
(* not wait is one action, and one that waits is an action up to the wait  *)
(* and an action from the wakeup on.                                       *)
(***************************************************************************)
EXTENDS Integers, Sequences, FiniteSets

CONSTANTS
    Threads,          \* the threads that use the queue
    Uses,             \* Uses[t]: the functions thread t calls
    Msgs,             \* the messages (id, cmd, para0, para1 and payload)
    NoData,           \* those put without payload (put_message)
    Empty,            \* those with a payload pointer and mDataSize 0
    Buffers,          \* the payload buffers malloc can hand out
    NULL,
    PoolSize,         \* MAX_MESSAGE_ELEMENTS
    MaxPools,         \* bound: memory for message pools
    MaxPoolCnt,       \* bound: the value mMsgPoolCnt may reach
    MaxPuts,          \* bound: messages accepted in the life of a queue
    SpuriousWakeups   \* whether pthread_cond_wait may return unsignalled

Calls == {"put", "get", "count", "wait", "twait", "dry", "tdry"}
Timed == {"twait", "tdry"}

ASSUME QueueAssumption ==
    /\ Uses \in [Threads -> SUBSET Calls]
    /\ NoData \subseteq Msgs /\ Empty \subseteq Msgs /\ NoData \cap Empty = {}
    /\ NULL \notin Msgs \cup Buffers
    /\ PoolSize \in Nat \ {0}
    /\ MaxPools \in Nat \ {0}
    /\ MaxPoolCnt \in Nat
    /\ MaxPuts \in Nat
    /\ SpuriousWakeups \in BOOLEAN

VARIABLES
    life,        \* "none", "live", or "corrupt" once a list head was fetched
    condClock,   \* the clock the condition variable was created with
    idle,        \* mIdleMessageList
    ready,       \* mReadyMessageList
    pools,       \* the length of mMessageBufList
    mMsgPoolCnt,
    mMsgCnt,
    node,        \* the contents of every message_t node
    heap,        \* payload buffers: NULL when free, else whose bytes it holds
    mWaitingFlag,
    pc,          \* where a thread is in the queue's code
    call,        \* the function a waiting thread is in
    out,         \* msg_out, while the caller is using it
    seen,        \* the count a thread last got, until its next call
    accepted,    \* history: the messages put, in order
    delivered    \* history: the messages fetched, in order

listVars   == <<idle, ready, mMsgCnt>>
poolVars   == <<pools, mMsgPoolCnt>>
dataVars   == <<node, heap>>
threadVars == <<pc, call, out, seen>>
histVars   == <<accepted, delivered>>
vars == <<life, condClock, listVars, poolVars, dataVars, mWaitingFlag,
          threadVars, histVars>>

Nodes == 1..(MaxPools * PoolSize)

Blank == [msg |-> NULL, data |-> NULL, size |-> 0]   \* memset(..., 0, ...)
NoMessage == [msg |-> NULL, data |-> NULL, size |-> 0, safe |-> 0]

NodeType == [msg : Msgs \cup {NULL}, data : Buffers \cup {NULL}, size : {0, 1}]
OutType == [msg : Msgs \cup {NULL}, data : Buffers \cup {NULL},
            size : {0, 1}, safe : Nat]

\* The nodes of the p-th pool, in the order the loop links them.
PoolNodes(p) == [i \in 1..PoolSize |-> (p - 1) * PoolSize + i]

Asleep == {t \in Threads : pc[t] = "asleep"}

-----------------------------------------------------------------------------
Init ==
    /\ life = "none" /\ condClock = "realtime"
    /\ idle = <<>> /\ ready = <<>> /\ mMsgCnt = 0
    /\ pools = 0 /\ mMsgPoolCnt = 0
    /\ node = [n \in Nodes |-> Blank]
    /\ heap = [b \in Buffers |-> NULL]
    /\ mWaitingFlag = FALSE
    /\ pc = [t \in Threads |-> "out"]
    /\ call = [t \in Threads |-> "none"]
    /\ out = [t \in Threads |-> NoMessage]
    /\ seen = [t \in Threads |-> 0]
    /\ accepted = <<>> /\ delivered = <<>>

\* message_create.  The condattr is destroyed before it is used, so the
\* condition variable's clock is whatever the build makes of it.
MessageCreate ==
    /\ life = "none"
    /\ condClock' \in {"realtime", "monotonic"}
    /\ mWaitingFlag' = FALSE /\ mMsgCnt' = 0 /\ ready' = <<>>
    /\ \/ /\ life' = "live" /\ idle' = PoolNodes(1)
          /\ pools' = 1 /\ mMsgPoolCnt' = 1
       \/ /\ UNCHANGED <<life, pools>> /\ idle' = <<>>     \* malloc fails
          /\ mMsgPoolCnt' \in {0, 1}
    /\ UNCHANGED <<dataVars, threadVars, histVars>>

\* Mutant of MessageDestroy: the payloads of ready messages are not freed.
MessageDestroyIdleOnly ==
    /\ life = "live"
    /\ \A t \in Threads : pc[t] = "out"
    /\ life' = "none"
    /\ heap' = [b \in Buffers |->
                  IF \E i \in DOMAIN idle : node[idle[i]].data = b
                  THEN NULL ELSE heap[b]]
    /\ node' = [n \in Nodes |-> Blank]
    /\ idle' = <<>> /\ ready' = <<>> /\ pools' = 0
    /\ mMsgCnt' = mMsgCnt - Len(ready)
    /\ seen' = [t \in Threads |-> 0]
    /\ accepted' = <<>> /\ delivered' = <<>>
    /\ UNCHANGED <<condClock, mMsgPoolCnt, mWaitingFlag, pc, call, out>>

\* message_destroy, called when no thread is inside the queue any more.
\* Only payloads with a non-zero size are freed.
MessageDestroy ==
    /\ life = "live"
    /\ \A t \in Threads : pc[t] = "out"
    /\ life' = "none"
    /\ LET linked == {idle[i] : i \in DOMAIN idle} \cup {ready[i] : i \in DOMAIN ready}
           freed == {node[n].data : n \in {k \in linked : node[k].size # 0}}
       IN heap' = [b \in Buffers |-> IF b \in freed THEN NULL ELSE heap[b]]
    /\ node' = [n \in Nodes |-> Blank]
    /\ idle' = <<>> /\ ready' = <<>> /\ pools' = 0
    /\ mMsgCnt' = mMsgCnt - Len(ready)
    /\ seen' = [t \in Threads |-> 0]
    /\ accepted' = <<>> /\ delivered' = <<>>
    /\ UNCHANGED <<condClock, mMsgPoolCnt, mWaitingFlag, pc, call, out>>

-----------------------------------------------------------------------------
\* A thread that has finished with its previous call makes a new one.
Calling(t, c) == life = "live" /\ pc[t] = "out" /\ c \in Uses[t]

\* pthread_cond_signal: one of the sleeping threads, if there is one.
Signal ==
    IF mWaitingFlag /\ Asleep # {}
    THEN \E w \in Asleep : pc' = [pc EXCEPT ![w] = "woken"]
    ELSE UNCHANGED pc

\* Mutant of HeapWithout: the old payload of a reused node is not freed.
HeapKept(n) == heap

\* MessageDeepCopyMessage frees the payload the node still owns.
HeapWithout(n) ==
    IF node[n].size # 0 THEN [heap EXCEPT ![node[n].data] = NULL] ELSE heap

CopySucceeds(n, m) ==
    \/ /\ m \in NoData
       /\ heap' = HeapWithout(n)
       /\ node' = [node EXCEPT ![n] =
             [msg |-> m, data |-> IF @.size # 0 THEN NULL ELSE @.data, size |-> 0]]
    \/ /\ m \notin NoData
       /\ \E b \in {c \in Buffers : HeapWithout(n)[c] = NULL} :
             /\ heap' = [HeapWithout(n) EXCEPT ![b] = m]
             /\ node' = [node EXCEPT ![n] =
                   [msg |-> m, data |-> b, size |-> IF m \in Empty THEN 0 ELSE 1]]

\* malloc of the payload fails: the node stays idle, its fields half written.
CopyFails(n, m) ==
    /\ m \notin NoData
    /\ heap' = HeapWithout(n)
    /\ node' = [node EXCEPT ![n] = [msg |-> m, data |-> NULL, size |-> 0]]

\* MessageIncreaseIdleMessageList.
GrowIdle ==
    /\ idle = <<>>
    /\ pools < MaxPools /\ mMsgPoolCnt < MaxPoolCnt
    /\ pools' = pools + 1 /\ mMsgPoolCnt' = mMsgPoolCnt + 1

\* Mutant of GrowFails: a count that was not taken is given back.
GrowFailsUncounted ==
    /\ idle = <<>>
    /\ UNCHANGED pools
    /\ mMsgPoolCnt' = mMsgPoolCnt - 1

GrowFails ==
    /\ idle = <<>>
    /\ UNCHANGED pools
    /\ \/ UNCHANGED mMsgPoolCnt                      \* the first malloc fails
       \/ /\ mMsgPoolCnt < MaxPoolCnt                \* the second one does
          /\ mMsgPoolCnt' = mMsgPoolCnt + 1

\* Mutants of PutInto: the count is taken before the copy can fail; the node
\* of a failed copy is lost; list_add in the place of list_add_tail.
PutCountsFirst(m, av) ==
    /\ mMsgCnt' = mMsgCnt + 1
    /\ \/ /\ CopySucceeds(Head(av), m)
          /\ idle' = Tail(av) /\ ready' = Append(ready, Head(av))
          /\ accepted' = Append(accepted, m)
          /\ Signal
       \/ CopyFails(Head(av), m) /\ idle' = av /\ UNCHANGED <<ready, accepted, pc>>

PutLosesNode(m, av) ==
    /\ idle' = Tail(av)
    /\ \/ /\ CopySucceeds(Head(av), m)
          /\ ready' = Append(ready, Head(av)) /\ mMsgCnt' = mMsgCnt + 1
          /\ accepted' = Append(accepted, m)
          /\ Signal
       \/ CopyFails(Head(av), m) /\ UNCHANGED <<ready, mMsgCnt, accepted, pc>>

PutAtHead(m, av) ==
    \/ /\ CopySucceeds(Head(av), m)
       /\ idle' = Tail(av) /\ ready' = <<Head(av)>> \o ready
       /\ mMsgCnt' = mMsgCnt + 1 /\ accepted' = Append(accepted, m)
       /\ Signal
    \/ /\ CopyFails(Head(av), m)
       /\ idle' = av /\ UNCHANGED <<ready, mMsgCnt, accepted, pc>>

\* put_message_with_data on the idle list av, whose head takes the copy.
PutInto(m, av) ==
    \/ /\ CopySucceeds(Head(av), m)
       /\ idle' = Tail(av)
       /\ ready' = Append(ready, Head(av))
       /\ mMsgCnt' = mMsgCnt + 1
       /\ accepted' = Append(accepted, m)
       /\ Signal
    \/ /\ CopyFails(Head(av), m)
       /\ idle' = av
       /\ UNCHANGED <<ready, mMsgCnt, accepted, pc>>

PutMessage(t, m) ==
    /\ Calling(t, "put") /\ Len(accepted) < MaxPuts
    /\ seen' = [seen EXCEPT ![t] = 0]
    /\ \/ idle # <<>> /\ PutInto(m, idle) /\ UNCHANGED poolVars
       \/ GrowIdle /\ PutInto(m, PoolNodes(pools + 1))
       \/ GrowFails /\ UNCHANGED <<listVars, dataVars, accepted, pc>>
    /\ UNCHANGED <<life, condClock, mWaitingFlag, call, out, delivered>>

-----------------------------------------------------------------------------
FetchFrom(t, n, rest) ==
    /\ ready' = rest
    /\ out' = [out EXCEPT ![t] = [msg |-> node[n].msg, data |-> node[n].data,
                                  size |-> node[n].size,
                                  safe |-> Len(accepted) + Len(idle)]]
    /\ delivered' = Append(delivered, node[n].msg)
    /\ pc' = [pc EXCEPT ![t] = "done"]
    /\ UNCHANGED life

\* Mutants of Fetch: the count is not taken down; the node does not go back
\* to the idle list; it goes to its head; the newest message is fetched.
FetchUncounted(t) ==
    /\ FetchFrom(t, Head(ready), Tail(ready))
    /\ idle' = Append(idle, Head(ready)) /\ UNCHANGED mMsgCnt

FetchLosesNode(t) ==
    /\ FetchFrom(t, Head(ready), Tail(ready))
    /\ mMsgCnt' = mMsgCnt - 1 /\ UNCHANGED idle

FetchToIdleHead(t) ==
    /\ FetchFrom(t, Head(ready), Tail(ready))
    /\ idle' = <<Head(ready)>> \o idle /\ mMsgCnt' = mMsgCnt - 1

FetchNewest(t) ==
    /\ FetchFrom(t, ready[Len(ready)], SubSeq(ready, 1, Len(ready) - 1))
    /\ idle' = Append(idle, ready[Len(ready)]) /\ mMsgCnt' = mMsgCnt - 1

\* MessageSetMessage: msg_out gets the fields of the node, its payload
\* pointer included, and the node goes to the tail of the idle list.  "safe"
\* records how many puts must have been accepted before the node is idle
\* head again: until then the payload is not freed.
Fetch(t) ==
    LET n == Head(ready) IN
    /\ ready' = Tail(ready)
    /\ idle' = Append(idle, n)
    /\ mMsgCnt' = mMsgCnt - 1
    /\ out' = [out EXCEPT ![t] = [msg |-> node[n].msg, data |-> node[n].data,
                                  size |-> node[n].size,
                                  safe |-> Len(accepted) + Len(idle)]]
    /\ delivered' = Append(delivered, node[n].msg)
    /\ pc' = [pc EXCEPT ![t] = "done"]
    /\ UNCHANGED life

\* The same statements with an empty ready list: list_first_entry yields the
\* list head itself, msg_out gets no message and the two lists are spliced
\* into each other.  Nothing the queue does afterwards is defined.
FetchFromHead(t) ==
    /\ life' = "corrupt"
    /\ mMsgCnt' = mMsgCnt - 1
    /\ delivered' = Append(delivered, NULL)
    /\ pc' = [pc EXCEPT ![t] = "done"]
    /\ UNCHANGED <<idle, ready, out>>

Sleep(t, c) ==
    /\ pc' = [pc EXCEPT ![t] = "asleep"]
    /\ call' = [call EXCEPT ![t] = c]

GetMessage(t) ==
    /\ Calling(t, "get")
    /\ seen' = [seen EXCEPT ![t] = 0]
    /\ \/ ready # <<>> /\ Fetch(t)
       \/ ready = <<>> /\ UNCHANGED <<life, listVars, out, delivered, pc>>
    /\ UNCHANGED <<condClock, poolVars, dataVars, mWaitingFlag, call, accepted>>

GetMessageCount(t) ==
    /\ Calling(t, "count")
    /\ seen' = [seen EXCEPT ![t] = mMsgCnt]
    /\ UNCHANGED <<life, condClock, listVars, poolVars, dataVars, mWaitingFlag,
                   pc, call, out, histVars>>

\* Mutant of WaitMessage: it sleeps without raising the waiting flag.
WaitUnflagged(t) ==
    /\ Calling(t, "wait")
    /\ seen' = [seen EXCEPT ![t] = 0]
    /\ UNCHANGED mWaitingFlag
    /\ \/ ready # <<>> /\ Fetch(t) /\ UNCHANGED call
       \/ ready = <<>> /\ Sleep(t, "wait") /\ UNCHANGED <<life, listVars, out, delivered>>
    /\ UNCHANGED <<condClock, poolVars, dataVars, accepted>>

\* wait_message_queue_not_empty with timeout <= 0.
WaitMessage(t) ==
    /\ Calling(t, "wait")
    /\ seen' = [seen EXCEPT ![t] = 0]
    /\ \/ /\ ready # <<>> /\ Fetch(t) /\ mWaitingFlag' = FALSE
          /\ UNCHANGED call
       \/ /\ ready = <<>> /\ Sleep(t, "wait") /\ mWaitingFlag' = TRUE
          /\ UNCHANGED <<life, listVars, out, delivered>>
    /\ UNCHANGED <<condClock, poolVars, dataVars, accepted>>

\* Mutant of TimedWaitMessage: the node it saw goes to the idle list, as if its
\* message had been handed over.
TimedWaitDrops(t) ==
    /\ Calling(t, "twait")
    /\ seen' = [seen EXCEPT ![t] = 0]
    /\ mWaitingFlag' = TRUE
    /\ \/ /\ ready # <<>> /\ pc' = [pc EXCEPT ![t] = "done"] /\ UNCHANGED call
          /\ ready' = Tail(ready) /\ idle' = Append(idle, Head(ready))
          /\ mMsgCnt' = mMsgCnt - 1
       \/ ready = <<>> /\ Sleep(t, "twait") /\ UNCHANGED listVars
    /\ UNCHANGED <<life, condClock, poolVars, dataVars, out, histVars>>

\* wait_message_queue_not_empty with timeout > 0: when the ready list is not
\* empty it returns 0 at once, having fetched nothing.
TimedWaitMessage(t) ==
    /\ Calling(t, "twait")
    /\ seen' = [seen EXCEPT ![t] = 0]
    /\ mWaitingFlag' = TRUE
    /\ \/ ready # <<>> /\ pc' = [pc EXCEPT ![t] = "done"] /\ UNCHANGED call
       \/ ready = <<>> /\ Sleep(t, "twait")
    /\ UNCHANGED <<life, condClock, listVars, poolVars, dataVars, out, histVars>>

\* Mutant of DryWait: the waiting flag is cleared on the way to sleep.
DryWaitUnflagged(t, c) ==
    /\ c \in {"dry", "tdry"} /\ Calling(t, c)
    /\ mWaitingFlag' = FALSE
    /\ \/ /\ ready # <<>> /\ seen' = [seen EXCEPT ![t] = mMsgCnt]
          /\ UNCHANGED <<pc, call>>
       \/ ready = <<>> /\ Sleep(t, c) /\ seen' = [seen EXCEPT ![t] = 0]
    /\ UNCHANGED <<life, condClock, listVars, poolVars, dataVars, out, histVars>>

\* dry_wait_message_queue, with timeout <= 0 (c = "dry") or > 0 ("tdry").
DryWait(t, c) ==
    /\ c \in {"dry", "tdry"} /\ Calling(t, c)
    /\ \/ /\ ready # <<>> /\ mWaitingFlag' = FALSE
          /\ seen' = [seen EXCEPT ![t] = mMsgCnt]
          /\ UNCHANGED <<pc, call>>
       \/ /\ ready = <<>> /\ Sleep(t, c) /\ mWaitingFlag' = TRUE
          /\ seen' = [seen EXCEPT ![t] = 0]
    /\ UNCHANGED <<life, condClock, listVars, poolVars, dataVars, out, histVars>>

-----------------------------------------------------------------------------
\* pthread_cond_timedwait gives up.  The deadline is computed from
\* gettimeofday: a condition variable on the monotonic clock never reaches it.
Expire(t) ==
    /\ life = "live" /\ pc[t] = "asleep" /\ call[t] \in Timed
    /\ condClock = "realtime"
    /\ pc' = [pc EXCEPT ![t] = "expired"]
    /\ UNCHANGED <<life, condClock, listVars, poolVars, dataVars, mWaitingFlag,
                   call, out, seen, histVars>>

WakeSpuriously(t) ==
    /\ SpuriousWakeups
    /\ life = "live" /\ pc[t] = "asleep"
    /\ pc' = [pc EXCEPT ![t] = "woken"]
    /\ UNCHANGED <<life, condClock, listVars, poolVars, dataVars, mWaitingFlag,
                   call, out, seen, histVars>>

Return(t) == call' = [call EXCEPT ![t] = "none"]

\* The rest of the loop of wait_message_queue_not_empty.
ResumeWait(t) ==
    /\ life = "live" /\ pc[t] = "woken" /\ call[t] = "wait"
    /\ \/ ready # <<>> /\ Fetch(t) /\ Return(t) /\ mWaitingFlag' = FALSE
       \/ /\ ready = <<>> /\ pc' = [pc EXCEPT ![t] = "asleep"]
          /\ UNCHANGED <<life, listVars, mWaitingFlag, call, out, delivered>>
    /\ UNCHANGED <<condClock, poolVars, dataVars, seen, accepted>>

\* The branches on pthread_cond_timedwait's result.
ResumeTimedWait(t) ==
    /\ life = "live" /\ call[t] = "twait"
    /\ \/ /\ pc[t] = "woken" /\ mWaitingFlag' = FALSE
          /\ \/ ready # <<>> /\ Fetch(t)
             \/ ready = <<>> /\ FetchFromHead(t)
       \/ /\ pc[t] = "expired" /\ pc' = [pc EXCEPT ![t] = "out"]
          /\ UNCHANGED <<life, listVars, mWaitingFlag, out, delivered>>
    /\ Return(t)
    /\ UNCHANGED <<condClock, poolVars, dataVars, seen, accepted>>

ResumeDryWait(t) ==
    /\ life = "live"
    /\ \/ /\ \/ pc[t] = "woken" /\ call[t] = "dry" /\ ready # <<>>
             \/ pc[t] \in {"woken", "expired"} /\ call[t] = "tdry"
          /\ seen' = [seen EXCEPT ![t] = mMsgCnt]
          /\ mWaitingFlag' = FALSE
          /\ pc' = [pc EXCEPT ![t] = "out"] /\ Return(t)
       \/ /\ pc[t] = "woken" /\ call[t] = "dry" /\ ready = <<>>
          /\ pc' = [pc EXCEPT ![t] = "asleep"]
          /\ UNCHANGED <<call, mWaitingFlag, seen>>
    /\ UNCHANGED <<life, condClock, listVars, poolVars, dataVars, out, histVars>>

\* The caller is done with the message it got (or believes it got).
Release(t) ==
    /\ life = "live" /\ pc[t] = "done"
    /\ pc' = [pc EXCEPT ![t] = "out"]
    /\ out' = [out EXCEPT ![t] = NoMessage]
    /\ UNCHANGED <<life, condClock, listVars, poolVars, dataVars, mWaitingFlag,
                   call, seen, histVars>>

-----------------------------------------------------------------------------
Resume(t) == ResumeWait(t) \/ ResumeTimedWait(t) \/ ResumeDryWait(t)

Next ==
    \/ MessageCreate
    \/ MessageDestroy
    \/ \E t \in Threads :
          \/ \E m \in Msgs : PutMessage(t, m)
          \/ GetMessage(t)
          \/ GetMessageCount(t)
          \/ WaitMessage(t)
          \/ TimedWaitMessage(t)
          \/ \E c \in {"dry", "tdry"} : DryWait(t, c)
          \/ Expire(t)
          \/ WakeSpuriously(t)
          \/ ResumeWait(t)
          \/ ResumeTimedWait(t)
          \/ ResumeDryWait(t)
          \/ Release(t)

\* The mutex is never held across a wait, so a thread that was woken or whose
\* deadline passed gets it; nobody is obliged to make a new call.
Fairness == \A t \in Threads : WF_vars(Resume(t)) /\ WF_vars(Expire(t))

Spec == Init /\ [][Next]_vars
FairSpec == Spec /\ Fairness
-----------------------------------------------------------------------------
\* The values the variables may have, for message_queue_t and its users.
TypeOK ==
    /\ life \in {"none", "live", "corrupt"}
    /\ condClock \in {"realtime", "monotonic"}
    /\ idle \in Seq(Nodes) /\ ready \in Seq(Nodes)
    /\ pools \in 0..MaxPools /\ mMsgPoolCnt \in Nat /\ mMsgCnt \in Int
    /\ node \in [Nodes -> NodeType]
    /\ heap \in [Buffers -> Msgs \cup {NULL}]
    /\ mWaitingFlag \in BOOLEAN
    /\ pc \in [Threads -> {"out", "asleep", "woken", "expired", "done"}]
    /\ call \in [Threads -> Calls \cup {"none"}]
    /\ out \in [Threads -> OutType]
    /\ seen \in [Threads -> Int]
    /\ accepted \in Seq(Msgs) /\ delivered \in Seq(Msgs \cup {NULL})

NoDuplicates(s) == \A i, j \in 1..Len(s) : i # j => s[i] # s[j]
Linked(s) == \A i \in 1..Len(s) : s[i] \in 1..(pools * PoolSize)

\* A message_t is linked in one list at one place, and no node of a pool is
\* ever lost: list_move_tail between the two lists, the growth of the idle
\* list and the error paths of put keep the lists a partition of the pools.
ListsPartition ==
    /\ NoDuplicates(idle) /\ NoDuplicates(ready)
    /\ \A i \in 1..Len(idle), j \in 1..Len(ready) : idle[i] # ready[j]
    /\ Len(idle) + Len(ready) = pools * PoolSize
    /\ Linked(idle) /\ Linked(ready)

\* mMsgCnt is what its declaration says, the "count in ready list".
CountInReady == mMsgCnt = Len(ready)

\* Messages leave in the order they were accepted, each of them once, and
\* nothing that was not put ever leaves, across growth, failed copies,
\* spurious wakeups and several consumers.
Fifo == INSTANCE FifoChannel WITH sent <- accepted, got <- delivered
FifoSpec == Fifo!Spec

\* The payloads malloc'ed by put are each owned by exactly one node, which
\* finds there the bytes of its own message: nothing leaks, nothing is freed
\* twice, and no two messages share a payload.
PayloadOwnership ==
    /\ \A b \in Buffers : heap[b] # NULL => \E n \in Nodes : node[n].data = b
    /\ \A n \in Nodes : node[n].data # NULL =>
          /\ heap[node[n].data] = node[n].msg
          /\ \A k \in Nodes \ {n} : node[k].data # node[n].data

\* A consumer got the payload pointer of a node that is idle again.  The
\* bytes under it are the message's until every idle node before that one
\* has been used by a put.
PayloadSafe ==
    \A t \in Threads :
        life = "live" /\ out[t].data # NULL /\ Len(accepted) < out[t].safe
            => heap[out[t].data] = out[t].msg

\* What message_destroy leaves behind of the payloads: nothing.
DestroyFreesAll == life = "none" => \A b \in Buffers : heap[b] = NULL

\* A thread that sleeps while a message is ready has been signalled or will
\* be by a thread that is on its way out: the waiting flag did its work.
NoLostWakeup ==
    ready # <<>> /\ Asleep # {} => \E t \in Threads : pc[t] = "woken"

\* The count a consumer was told by dry_wait_message_queue (or
\* get_message_count) is still there to be fetched at its next call.
CountStillThere == \A t \in Threads : seen[t] <= Len(ready)

\* list_first_entry's "list is expected to be not empty" (mm_list.h): no wait
\* goes on to fetch when another consumer was faster or nobody signalled.
FetchFromNonEmpty == life # "corrupt"

\* A timed wait that finds the list not empty returns 0 and leaves msg_out
\* alone.  What it saw is not lost: a message is ready as long as its caller
\* has not made another call.
MessageStillThere ==
    \A t \in Threads : pc[t] = "done" /\ out[t] = NoMessage => ready # <<>>

\* A thread in a wait does not stay there while messages are ready.
WaiterReturns ==
    \A t \in Threads :
        (call[t] # "none" /\ ready # <<>>) ~> (call[t] = "none" \/ ready = <<>>)

\* A wait with a positive timeout comes to an end.
TimedWaitReturns == \A t \in Threads : call[t] \in Timed ~> call[t] = "none"
=============================================================================

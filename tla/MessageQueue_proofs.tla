------------------------- MODULE MessageQueue_proofs -------------------------
(***************************************************************************)
(* Proofs about MessageQueue for every set of threads, messages, buffers   *)
(* and uses, every pool size and every bound: first the lists and counts,  *)
(* then what the threads that use the queue rely on, payloads that have    *)
(* one owner and stay where they are while they are read, a waiting flag   *)
(* that loses no wakeup, counts that are still true when they are acted    *)
(* on, and a timed wait that is signalled beside a message; last the FIFO  *)
(* channel that the queue implements.                                      *)
(***************************************************************************)
EXTENDS MessageQueue, TLAPS

\* The threads in a waiting function are there because they call it.
CallsUsed == \A t \in Threads : call[t] # "none" => call[t] \in Uses[t]

-----------------------------------------------------------------------------
\* Pool p lies inside the memory of the first k >= p pools.
LEMMA PoolBound ==
    ASSUME NEW k \in Nat, NEW q \in Nat, q < k, NEW i \in 1..PoolSize
    PROVE  /\ q * PoolSize + i \in 1..(k * PoolSize)
           /\ q * PoolSize + i > q * PoolSize
           /\ (q + 1) * PoolSize = q * PoolSize + PoolSize
           /\ q * PoolSize \in Nat /\ k * PoolSize \in Nat
  <1> DEFINE d == k - q - 1
  <1>0. PoolSize \in Nat \ {0} BY QueueAssumption
  <1>1. d \in Nat /\ k = q + 1 + d OBVIOUS
  <1>2. k * PoolSize = q * PoolSize + PoolSize + d * PoolSize
    BY <1>0, <1>1, SMT
  <1>3. d * PoolSize \in Nat /\ q * PoolSize \in Nat
    BY <1>0, <1>1, SMT
  <1> HIDE DEF d
  <1>4. (q + 1) * PoolSize = q * PoolSize + PoolSize
    BY <1>0, SMT
  <1> QED BY <1>0, <1>2, <1>3, <1>4, SMT

\* The nodes of a new pool: their type, their number and their values.
LEMMA PoolNodesType ==
    ASSUME NEW q \in 0..MaxPools, q < MaxPools
    PROVE  /\ PoolNodes(q + 1) \in Seq(Nodes)
           /\ Len(PoolNodes(q + 1)) = PoolSize
           /\ \A i \in 1..PoolSize : PoolNodes(q + 1)[i] = q * PoolSize + i
           /\ PoolNodes(q + 1) # <<>>
  <1>1. PoolSize \in Nat \ {0} /\ MaxPools \in Nat \ {0} BY QueueAssumption
  <1>2. (q + 1) - 1 = q OBVIOUS
  <1>3. PoolNodes(q + 1) = [i \in 1..PoolSize |-> q * PoolSize + i]
    BY <1>2 DEF PoolNodes
  <1>4. \A i \in 1..PoolSize : q * PoolSize + i \in Nodes
    BY <1>1, PoolBound DEF Nodes
  <1> DEFINE s == [i \in 1..PoolSize |-> q * PoolSize + i]
  <1>5. s \in [1..PoolSize -> Nodes] BY <1>4
  <1>6. s \in Seq(Nodes) /\ Len(s) = PoolSize BY <1>1, <1>5
  <1>7. s # <<>> BY <1>1, <1>6
  <1> QED BY <1>3, <1>6, <1>7
-----------------------------------------------------------------------------
\* What a put does to the lists and to the payloads keeps their types.
LEMMA PutIntoType ==
    ASSUME TypeOK, NEW m \in Msgs, NEW av \in Seq(Nodes), av # <<>>, PutInto(m, av)
    PROVE  /\ idle' \in Seq(Nodes) /\ ready' \in Seq(Nodes)
           /\ mMsgCnt' \in Int /\ accepted' \in Seq(Msgs)
           /\ node' \in [Nodes -> NodeType]
           /\ heap' \in [Buffers -> Msgs \cup {NULL}]
           /\ pc' \in [Threads -> {"out", "asleep", "woken", "expired", "done"}]
  <1>1. Head(av) \in Nodes /\ Tail(av) \in Seq(Nodes) OBVIOUS
  <1>2. HeapWithout(Head(av)) \in [Buffers -> Msgs \cup {NULL}]
    BY <1>1 DEF TypeOK, HeapWithout
  <1>3. CASE CopySucceeds(Head(av), m) /\ idle' = Tail(av)
             /\ ready' = Append(ready, Head(av)) /\ mMsgCnt' = mMsgCnt + 1
             /\ accepted' = Append(accepted, m) /\ Signal
    <2>1. node' \in [Nodes -> NodeType]
      <3>1. node[Head(av)] \in NodeType BY <1>1 DEF TypeOK
      <3>2. ASSUME NEW r \in NodeType, node' = [node EXCEPT ![Head(av)] = r]
            PROVE  node' \in [Nodes -> NodeType]
        BY <1>1, <3>2 DEF TypeOK
      <3>3. CASE m \in NoData
        <4>1. [msg |-> m, data |-> IF node[Head(av)].size # 0 THEN NULL
                  ELSE node[Head(av)].data, size |-> 0] \in NodeType
          BY <3>1 DEF NodeType
        <4> QED BY <1>3, <3>2, <3>3, <4>1 DEF CopySucceeds
      <3>4. CASE m \notin NoData
        <4>1. \A b \in Buffers : [msg |-> m, data |-> b,
                  size |-> IF m \in Empty THEN 0 ELSE 1] \in NodeType
          BY DEF NodeType
        <4> QED BY <1>3, <3>2, <3>4, <4>1 DEF CopySucceeds
      <3> QED BY <3>3, <3>4
    <2>2. heap' \in [Buffers -> Msgs \cup {NULL}]
      BY <1>2, <1>3 DEF CopySucceeds
    <2>3. pc' \in [Threads -> {"out", "asleep", "woken", "expired", "done"}]
      BY <1>3 DEF TypeOK, Signal
    <2> QED BY <1>1, <1>3, <2>1, <2>2, <2>3 DEF TypeOK
  <1>4. CASE CopyFails(Head(av), m) /\ idle' = av
             /\ UNCHANGED <<ready, mMsgCnt, accepted, pc>>
    <2>1. node' \in [Nodes -> NodeType]
      BY <1>1, <1>4 DEF TypeOK, NodeType, CopyFails
    <2>2. heap' \in [Buffers -> Msgs \cup {NULL}]
      BY <1>2, <1>4 DEF CopyFails
    <2> QED BY <1>4, <2>1, <2>2 DEF TypeOK
  <1> QED BY <1>3, <1>4 DEF PutInto

\* What a fetch does to the lists and to the caller keeps their types.
LEMMA FetchType ==
    ASSUME TypeOK, NEW t \in Threads, ready # <<>>, Fetch(t)
    PROVE  /\ idle' \in Seq(Nodes) /\ ready' \in Seq(Nodes) /\ mMsgCnt' \in Int
           /\ out' \in [Threads -> OutType]
           /\ delivered' \in Seq(Msgs \cup {NULL})
           /\ pc' \in [Threads -> {"out", "asleep", "woken", "expired", "done"}]
           /\ life' = life
  <1>1. Head(ready) \in Nodes /\ Tail(ready) \in Seq(Nodes) BY DEF TypeOK
  <1>2. node[Head(ready)] \in NodeType BY <1>1 DEF TypeOK
  <1>3. Len(accepted) + Len(idle) \in Nat BY DEF TypeOK
  <1>4. out' \in [Threads -> OutType]
    BY <1>2, <1>3 DEF Fetch, TypeOK, OutType, NodeType
  <1>5. delivered' \in Seq(Msgs \cup {NULL})
    BY <1>2 DEF Fetch, TypeOK, NodeType
  <1> QED BY <1>1, <1>4, <1>5 DEF Fetch, TypeOK

\* Going to sleep in one of the waits keeps the types.
LEMMA SleepType ==
    ASSUME TypeOK, NEW t \in Threads, NEW c \in Calls, Sleep(t, c)
    PROVE  /\ pc' \in [Threads -> {"out", "asleep", "woken", "expired", "done"}]
           /\ call' \in [Threads -> Calls \cup {"none"}]
  BY DEF Sleep, TypeOK

\* Every variable keeps its type, whatever the threads do.
THEOREM TypeCorrect == Spec => []TypeOK
  <1>1. Init => TypeOK
    <2> SUFFICES ASSUME Init PROVE TypeOK OBVIOUS
    <2>1. Blank \in NodeType BY DEF Blank, NodeType
    <2>2. NoMessage \in OutType BY DEF NoMessage, OutType
    <2>3. 0 \in 0..MaxPools BY QueueAssumption
    <2>4. <<>> \in Seq(Nodes) /\ <<>> \in Seq(Msgs) /\ <<>> \in Seq(Msgs \cup {NULL})
      OBVIOUS
    <2>5. /\ node \in [Nodes -> NodeType] /\ out \in [Threads -> OutType]
          /\ heap \in [Buffers -> Msgs \cup {NULL}]
      BY <2>1, <2>2 DEF Init
    <2>6. /\ pc \in [Threads -> {"out", "asleep", "woken", "expired", "done"}]
          /\ call \in [Threads -> Calls \cup {"none"}]
          /\ seen \in [Threads -> Int]
      BY DEF Init
    <2>7. /\ idle \in Seq(Nodes) /\ ready \in Seq(Nodes)
          /\ accepted \in Seq(Msgs) /\ delivered \in Seq(Msgs \cup {NULL})
      BY <2>4 DEF Init
    <2>8. /\ life \in {"none", "live", "corrupt"}
          /\ condClock \in {"realtime", "monotonic"}
          /\ pools \in 0..MaxPools /\ mMsgPoolCnt \in Nat /\ mMsgCnt \in Int
      BY <2>3 DEF Init
    <2>9. mWaitingFlag \in BOOLEAN BY DEF Init
    <2> QED BY <2>5, <2>6, <2>7, <2>8, <2>9 DEF TypeOK
  <1>2. TypeOK /\ [Next]_vars => TypeOK'
    <2> SUFFICES ASSUME TypeOK, [Next]_vars PROVE TypeOK' OBVIOUS
    <2> USE DEF listVars, poolVars, dataVars, threadVars, histVars
    <2>1. CASE UNCHANGED vars BY <2>1 DEF vars, TypeOK
    <2>2. CASE MessageCreate
      <3>1. 0 \in 0..MaxPools /\ 0 < MaxPools /\ 1 \in 0..MaxPools
        BY QueueAssumption
      <3>2. PoolNodes(1) \in Seq(Nodes)
        <4>1. 0 + 1 = 1 OBVIOUS
        <4> QED BY <3>1, <4>1, PoolNodesType
      <3>3. <<>> \in Seq(Nodes) OBVIOUS
      <3>4. /\ idle' \in Seq(Nodes) /\ ready' \in Seq(Nodes)
            /\ pools' \in 0..MaxPools
            /\ life' \in {"none", "live", "corrupt"}
        BY <2>2, <3>1, <3>2, <3>3 DEF MessageCreate, TypeOK
      <3>5. /\ mMsgCnt' \in Int /\ mMsgPoolCnt' \in Nat
            /\ condClock' \in {"realtime", "monotonic"}
        BY <2>2 DEF MessageCreate
      <3>7. mWaitingFlag' \in BOOLEAN BY <2>2 DEF MessageCreate
      <3>6. UNCHANGED <<dataVars, threadVars, histVars>>
        BY <2>2 DEF MessageCreate
      <3> QED BY <3>4, <3>5, <3>6, <3>7 DEF TypeOK
    <2>3. CASE MessageDestroy
      <3>1. node' \in [Nodes -> NodeType]
        BY <2>3 DEF MessageDestroy, Blank, NodeType
      <3>2. heap' \in [Buffers -> Msgs \cup {NULL}]
        BY <2>3 DEF MessageDestroy, TypeOK
      <3>3. 0 \in 0..MaxPools BY QueueAssumption
      <3> QED BY <2>3, <3>1, <3>2, <3>3 DEF MessageDestroy, TypeOK
    <2>4. ASSUME NEW t \in Threads, NEW m \in Msgs, PutMessage(t, m)
          PROVE  TypeOK'
      <3>1. seen' \in [Threads -> Int] BY <2>4 DEF PutMessage, TypeOK
      <3>2. CASE idle # <<>> /\ PutInto(m, idle) /\ UNCHANGED poolVars
        <4>1. idle \in Seq(Nodes) BY DEF TypeOK
        <4> QED BY <2>4, <3>1, <3>2, <4>1, PutIntoType DEF PutMessage, TypeOK
      <3>3. CASE GrowIdle /\ PutInto(m, PoolNodes(pools + 1))
        <4>1. pools \in 0..MaxPools /\ pools < MaxPools
              /\ pools' \in 0..MaxPools /\ mMsgPoolCnt' \in Nat
          BY <3>3, QueueAssumption DEF GrowIdle, TypeOK
        <4> QED BY <2>4, <3>1, <3>3, <4>1, PutIntoType, PoolNodesType
                DEF PutMessage, TypeOK
      <3>4. CASE GrowFails /\ UNCHANGED <<listVars, dataVars, accepted, pc>>
        BY <2>4, <3>1, <3>4 DEF GrowFails, PutMessage, TypeOK
      <3> QED BY <2>4, <3>2, <3>3, <3>4 DEF PutMessage
    <2>5. ASSUME NEW t \in Threads, GetMessage(t)
          PROVE  TypeOK'
      BY <2>5, FetchType DEF GetMessage, TypeOK
    <2>6. ASSUME NEW t \in Threads, GetMessageCount(t)
          PROVE  TypeOK'
      BY <2>6 DEF GetMessageCount, TypeOK
    <2>7. ASSUME NEW t \in Threads, WaitMessage(t)
          PROVE  TypeOK'
      <3>1. seen' \in [Threads -> Int] BY <2>7 DEF WaitMessage, TypeOK
      <3>2. CASE ready # <<>> /\ Fetch(t) /\ mWaitingFlag' = FALSE /\ UNCHANGED call
        BY <2>7, <3>1, <3>2, FetchType DEF WaitMessage, TypeOK
      <3>3. CASE /\ ready = <<>> /\ Sleep(t, "wait") /\ mWaitingFlag' = TRUE
                 /\ UNCHANGED <<life, listVars, out, delivered>>
        BY <2>7, <3>1, <3>3, SleepType DEF WaitMessage, TypeOK, Calls
      <3> QED BY <2>7, <3>2, <3>3 DEF WaitMessage
    <2>8. ASSUME NEW t \in Threads, TimedWaitMessage(t)
          PROVE  TypeOK'
      <3>1. /\ pc' \in [Threads -> {"out", "asleep", "woken", "expired", "done"}]
            /\ call' \in [Threads -> Calls \cup {"none"}]
        <4>1. CASE pc' = [pc EXCEPT ![t] = "done"] /\ UNCHANGED call
          BY <4>1 DEF TypeOK
        <4>2. CASE Sleep(t, "twait") BY <4>2, SleepType DEF Calls
        <4> QED BY <2>8, <4>1, <4>2 DEF TimedWaitMessage
      <3>2. seen' \in [Threads -> Int] BY <2>8 DEF TimedWaitMessage, TypeOK
      <3> QED BY <2>8, <3>1, <3>2 DEF TimedWaitMessage, TypeOK
    <2>9. ASSUME NEW t \in Threads, NEW c \in {"dry", "tdry"}, DryWait(t, c)
          PROVE  TypeOK'
      <3>1. /\ pc' \in [Threads -> {"out", "asleep", "woken", "expired", "done"}]
            /\ call' \in [Threads -> Calls \cup {"none"}]
        <4>1. CASE UNCHANGED <<pc, call>> BY <4>1 DEF TypeOK
        <4>2. CASE Sleep(t, c) BY <4>2, SleepType DEF Calls
        <4> QED BY <2>9, <4>1, <4>2 DEF DryWait
      <3>2. mWaitingFlag' \in BOOLEAN BY <2>9 DEF DryWait
      <3>3. seen' \in [Threads -> Int]
        <4>1. mMsgCnt \in Int /\ 0 \in Int BY DEF TypeOK
        <4>2. ASSUME NEW k \in Int, seen' = [seen EXCEPT ![t] = k]
              PROVE  seen' \in [Threads -> Int]
          BY <4>2 DEF TypeOK
        <4> QED BY <2>9, <4>1, <4>2 DEF DryWait
      <3> QED BY <2>9, <3>1, <3>2, <3>3 DEF DryWait, TypeOK
    <2>10. ASSUME NEW t \in Threads, Expire(t) \/ WakeSpuriously(t)
           PROVE  TypeOK'
      BY <2>10 DEF Expire, WakeSpuriously, TypeOK
    <2>11. ASSUME NEW t \in Threads, ResumeWait(t)
           PROVE  TypeOK'
      BY <2>11, FetchType DEF ResumeWait, Return, TypeOK
    <2>12. ASSUME NEW t \in Threads, ResumeTimedWait(t)
           PROVE  TypeOK'
      <3>1. CASE pc[t] = "woken" /\ mWaitingFlag' = FALSE /\ ready # <<>> /\ Fetch(t)
        BY <2>12, <3>1, FetchType DEF ResumeTimedWait, Return, TypeOK
      <3>2. CASE mWaitingFlag' = FALSE /\ FetchFromHead(t)
        <4>1. delivered' \in Seq(Msgs \cup {NULL})
          BY <3>2 DEF FetchFromHead, TypeOK
        <4>2. /\ pc' \in [Threads -> {"out", "asleep", "woken", "expired", "done"}]
              /\ call' \in [Threads -> Calls \cup {"none"}]
          BY <2>12, <3>2 DEF ResumeTimedWait, FetchFromHead, Return, TypeOK
        <4>3. mMsgCnt' \in Int BY <3>2 DEF FetchFromHead, TypeOK
        <4>4. idle' = idle /\ ready' = ready /\ out' = out /\ life' = "corrupt"
          BY <3>2 DEF FetchFromHead
        <4>5. UNCHANGED <<condClock, poolVars, dataVars, seen, accepted>>
          BY <2>12 DEF ResumeTimedWait
        <4> QED BY <3>2, <4>1, <4>2, <4>3, <4>4, <4>5 DEF TypeOK
      <3>3. CASE /\ pc[t] = "expired" /\ pc' = [pc EXCEPT ![t] = "out"]
                 /\ UNCHANGED <<life, listVars, mWaitingFlag, out, delivered>>
        BY <2>12, <3>3 DEF ResumeTimedWait, Return, TypeOK
      <3> QED BY <2>12, <3>1, <3>2, <3>3 DEF ResumeTimedWait
    <2>13. ASSUME NEW t \in Threads, ResumeDryWait(t)
           PROVE  TypeOK'
      BY <2>13, ZenonT(60) DEF ResumeDryWait, Return, TypeOK
    <2>14. ASSUME NEW t \in Threads, Release(t)
           PROVE  TypeOK'
      <3>1. NoMessage \in OutType BY DEF NoMessage, OutType
      <3> QED BY <2>14, <3>1 DEF Release, TypeOK
    <2> QED BY <2>1, <2>2, <2>3, <2>4, <2>5, <2>6, <2>7, <2>8, <2>9, <2>10,
               <2>11, <2>12, <2>13, <2>14 DEF Next
  <1> QED BY <1>1, <1>2, PTL DEF Spec
-----------------------------------------------------------------------------
\* Two lists share out the numbers 1..k, each number once.
Partition(a, b, k) ==
    /\ NoDuplicates(a) /\ NoDuplicates(b)
    /\ \A i \in 1..Len(a), j \in 1..Len(b) : a[i] # b[j]
    /\ Len(a) + Len(b) = k
    /\ \A i \in 1..Len(a) : a[i] \in 1..k
    /\ \A i \in 1..Len(b) : b[i] \in 1..k

\* The two lists of a partition are interchangeable.
LEMMA PartitionSwap ==
    ASSUME NEW k \in Nat, NEW a \in Seq(Nodes), NEW b \in Seq(Nodes),
           Partition(a, b, k)
    PROVE  Partition(b, a, k)
  BY DEF Partition

\* list_move_tail of the head of one list to the other.
LEMMA PartitionMove ==
    ASSUME NEW k \in Nat, NEW a \in Seq(Nodes), NEW b \in Seq(Nodes), a # <<>>,
           Partition(a, b, k)
    PROVE  Partition(Tail(a), Append(b, Head(a)), k)
  <1> DEFINE ta == Tail(a)
             bh == Append(b, Head(a))
  <1>1. /\ ta \in Seq(Nodes) /\ Len(ta) = Len(a) - 1 /\ Len(a) \in Nat \ {0}
        /\ \A i \in 1..Len(ta) : ta[i] = a[i + 1] /\ i + 1 \in 1..Len(a)
    OBVIOUS
  <1>2. /\ bh \in Seq(Nodes) /\ Len(bh) = Len(b) + 1 /\ Len(b) \in Nat
        /\ \A i \in 1..Len(b) : bh[i] = b[i]
        /\ bh[Len(b) + 1] = a[1] /\ 1 \in 1..Len(a)
    OBVIOUS
  <1> HIDE DEF ta, bh
  <1>3. /\ \A i, j \in 1..Len(a) : i # j => a[i] # a[j]
        /\ \A i, j \in 1..Len(b) : i # j => b[i] # b[j]
        /\ \A i \in 1..Len(a), j \in 1..Len(b) : a[i] # b[j]
        /\ Len(a) + Len(b) = k
        /\ \A i \in 1..Len(a) : a[i] \in 1..k
        /\ \A i \in 1..Len(b) : b[i] \in 1..k
    BY DEF Partition, NoDuplicates
  <1>4. NoDuplicates(ta)
    <2> SUFFICES ASSUME NEW i \in 1..Len(ta), NEW j \in 1..Len(ta), i # j
                 PROVE  ta[i] # ta[j]
      BY DEF NoDuplicates
    <2>1. i + 1 # j + 1 BY <1>1
    <2> QED BY <1>1, <1>3, <2>1
  <1>5. NoDuplicates(bh)
    <2> SUFFICES ASSUME NEW i \in 1..Len(bh), NEW j \in 1..Len(bh), i # j
                 PROVE  bh[i] # bh[j]
      BY DEF NoDuplicates
    <2> QED BY <1>2, <1>3
  <1>6. \A i \in 1..Len(ta), j \in 1..Len(bh) : ta[i] # bh[j]
    <2> TAKE i \in 1..Len(ta), j \in 1..Len(bh)
    <2>1. i + 1 \in 1..Len(a) /\ ta[i] = a[i + 1] /\ i + 1 # 1 BY <1>1
    <2>2. CASE j = Len(b) + 1 BY <1>2, <1>3, <2>1, <2>2
    <2>3. CASE j \in 1..Len(b) BY <1>2, <1>3, <2>1, <2>3
    <2> QED BY <1>2, <2>2, <2>3
  <1>7. Len(ta) + Len(bh) = k
    <2>1. Len(a) \in Nat /\ Len(b) \in Nat /\ Len(a) + Len(b) = k
      BY DEF Partition
    <2>2. Len(ta) = Len(a) - 1 /\ Len(bh) = Len(b) + 1 BY <1>1, <1>2
    <2> QED BY <2>1, <2>2
  <1>8. /\ \A i \in 1..Len(ta) : ta[i] \in 1..k
        /\ \A i \in 1..Len(bh) : bh[i] \in 1..k
    <2>1. ASSUME NEW i \in 1..Len(ta) PROVE ta[i] \in 1..k BY <1>1, <1>3
    <2>2. ASSUME NEW i \in 1..Len(bh) PROVE bh[i] \in 1..k
      <3>1. CASE i = Len(b) + 1 BY <1>2, <1>3, <3>1
      <3>2. CASE i \in 1..Len(b) BY <1>2, <1>3, <3>2
      <3> QED BY <1>2, <3>1, <3>2
    <2> QED BY <2>1, <2>2
  <1>9. Partition(ta, bh, k) BY <1>4, <1>5, <1>6, <1>7, <1>8 DEF Partition
  <1> QED BY <1>9 DEF ta, bh

\* A new pool, linked while the idle list is empty.
LEMMA PartitionGrow ==
    ASSUME TypeOK, pools < MaxPools, Partition(<<>>, ready, pools * PoolSize)
    PROVE  /\ Partition(PoolNodes(pools + 1), ready, (pools + 1) * PoolSize)
           /\ (pools + 1) * PoolSize \in Nat
  <1> DEFINE new == PoolNodes(pools + 1)
             k == pools * PoolSize
  <1>1. pools \in 0..MaxPools /\ pools \in Nat /\ PoolSize \in Nat \ {0}
    BY QueueAssumption DEF TypeOK
  <1>2. /\ new \in Seq(Nodes) /\ Len(new) = PoolSize
        /\ \A i \in 1..Len(new) : new[i] = k + i
    BY <1>1, PoolNodesType
  <1>3. /\ (pools + 1) * PoolSize = k + PoolSize
        /\ k \in Nat
    <2>1. 1 \in 1..PoolSize BY <1>1
    <2>2. pools + 1 \in Nat /\ pools < pools + 1 BY <1>1
    <2> QED BY <1>1, <2>1, <2>2, PoolBound
  <1>4. ready \in Seq(Nodes) /\ Len(ready) = k BY <1>3 DEF TypeOK, Partition
  <1>5. \A i \in 1..Len(ready) : ready[i] \in 1..k BY DEF Partition
  <1>6. NoDuplicates(ready) BY DEF Partition
  <1> HIDE DEF new, k
  <1>7. NoDuplicates(new) BY <1>1, <1>2, <1>3 DEF NoDuplicates
  <1>8. \A i \in 1..Len(new), j \in 1..Len(ready) : new[i] # ready[j]
    BY <1>1, <1>2, <1>3, <1>4, <1>5
  <1>9. Len(new) + Len(ready) = k + PoolSize BY <1>1, <1>2, <1>3, <1>4
  <1>10. /\ \A i \in 1..Len(new) : new[i] \in 1..(k + PoolSize)
         /\ \A i \in 1..Len(ready) : ready[i] \in 1..(k + PoolSize)
    BY <1>1, <1>2, <1>3, <1>4, <1>5, SMTT(30)
  <1>11. Partition(new, ready, k + PoolSize)
    BY <1>6, <1>7, <1>8, <1>9, <1>10 DEF Partition
  <1> QED BY <1>1, <1>3, <1>11 DEF new
-----------------------------------------------------------------------------
\* The ready list holds, in order, the accepted messages not yet delivered.
Conserved ==
    /\ Len(accepted) = Len(delivered) + Len(ready)
    /\ \A i \in 1..Len(delivered) : delivered[i] = accepted[i]
    /\ \A i \in 1..Len(ready) : node[ready[i]].msg = accepted[Len(delivered) + i]

\* The inductive invariant about the lists, their counter and their contents.
ListInv == ListsPartition /\ CountInReady /\ Conserved
QueueInv == life # "corrupt" => ListInv /\ (life = "none" => pools = 0)

\* ListsPartition says that idle and ready partition the linked nodes.
LEMMA PartitionOfLists == ListsPartition <=> Partition(idle, ready, pools * PoolSize)
  BY DEF ListsPartition, Partition, Linked

\* The same of the next state.
LEMMA PartitionOfListsPrime ==
    ListsPartition' <=> Partition(idle', ready', pools' * PoolSize)
  BY DEF ListsPartition, Partition, Linked, NoDuplicates

\* The number of linked nodes is a natural number.
LEMMA PoolsTimesSize ==
    ASSUME TypeOK
    PROVE  pools * PoolSize \in Nat
  <1>1. pools \in Nat /\ PoolSize \in Nat BY QueueAssumption DEF TypeOK
  <1> QED BY <1>1, SMT

\* A step that leaves the queue itself alone.
LEMMA QueueUntouched ==
    ASSUME ListInv, UNCHANGED <<listVars, pools, node, histVars>>
    PROVE  ListInv'
  BY DEF ListInv, ListsPartition, Linked, NoDuplicates, CountInReady, Conserved,
         listVars, histVars

\* MessageSetMessage and list_move_tail keep the invariant when a node is ready.
LEMMA FetchInv ==
    ASSUME TypeOK, ListInv, NEW t \in Threads, ready # <<>>, Fetch(t),
           UNCHANGED <<pools, node, accepted>>
    PROVE  /\ ListInv'
           /\ Len(delivered) < Len(accepted)
           /\ delivered' = Append(delivered, accepted[Len(delivered) + 1])
  <1> DEFINE n == Head(ready)
  <1>1. /\ ready \in Seq(Nodes) /\ idle \in Seq(Nodes)
        /\ accepted \in Seq(Msgs) /\ delivered \in Seq(Msgs \cup {NULL})
    BY DEF TypeOK
  <1>2. Len(ready) \in Nat \ {0} /\ n = ready[1] /\ 1 \in 1..Len(ready) BY <1>1
  <1>3. ListsPartition'
    <2>1. Partition(ready, idle, pools * PoolSize)
      BY <1>1, PoolsTimesSize, PartitionOfLists, PartitionSwap DEF ListInv
    <2>2. Partition(Tail(ready), Append(idle, n), pools * PoolSize)
      BY <1>1, <2>1, PoolsTimesSize, PartitionMove
    <2>3. Tail(ready) \in Seq(Nodes) /\ Append(idle, n) \in Seq(Nodes)
      BY <1>1, <1>2
    <2>4. Partition(idle', ready', pools * PoolSize)
      BY <2>2, <2>3, PoolsTimesSize, PartitionSwap DEF Fetch
    <2> QED BY <2>4, PartitionOfListsPrime
  <1>4. CountInReady'
    <2>1. Len(Tail(ready)) = Len(ready) - 1 BY <1>1, <1>2
    <2> QED BY <1>2, <2>1 DEF Fetch, ListInv, CountInReady
  <1>5. /\ Len(accepted) = Len(delivered) + Len(ready)
        /\ Len(delivered) < Len(accepted)
        /\ node[n].msg = accepted[Len(delivered) + 1]
    BY <1>1, <1>2 DEF ListInv, Conserved
  <1>6. delivered' = Append(delivered, accepted[Len(delivered) + 1])
    BY <1>5 DEF Fetch
  <1>7. Conserved'
    <2>1. /\ Len(delivered') = Len(delivered) + 1
          /\ \A i \in 1..Len(delivered) : delivered'[i] = delivered[i]
          /\ delivered'[Len(delivered) + 1] = accepted[Len(delivered) + 1]
          /\ Len(delivered) \in Nat
      BY <1>1, <1>6
    <2>2. /\ Len(ready') = Len(ready) - 1
          /\ \A i \in 1..Len(ready') : ready'[i] = ready[i + 1] /\ i + 1 \in 1..Len(ready)
      BY <1>1, <1>2 DEF Fetch
    <2>3. Len(accepted') = Len(delivered') + Len(ready')
      BY <1>2, <1>5, <2>1, <2>2
    <2>4. ASSUME NEW i \in 1..Len(delivered') PROVE delivered'[i] = accepted'[i]
      <3>1. CASE i \in 1..Len(delivered) BY <2>1, <3>1 DEF ListInv, Conserved
      <3>2. CASE i = Len(delivered) + 1 BY <2>1, <3>2
      <3> QED BY <2>1, <3>1, <3>2
    <2>5. ASSUME NEW i \in 1..Len(ready')
          PROVE  node'[ready'[i]].msg = accepted'[Len(delivered') + i]
      <3>1. node[ready[i + 1]].msg = accepted[Len(delivered) + (i + 1)]
        BY <2>2 DEF ListInv, Conserved
      <3>2. Len(delivered) + (i + 1) = Len(delivered') + i
        BY <2>1
      <3> QED BY <2>2, <3>1, <3>2
    <2> QED BY <2>3, <2>4, <2>5 DEF Conserved
  <1> QED BY <1>3, <1>4, <1>5, <1>6, <1>7 DEF ListInv

\* put_message_with_data keeps it, whether the copy succeeds or fails.
LEMMA PutInv ==
    ASSUME TypeOK, CountInReady, Conserved, NEW m \in Msgs,
           NEW av \in Seq(Nodes), av # <<>>, pools' * PoolSize \in Nat,
           Partition(av, ready, pools' * PoolSize),
           PutInto(m, av), UNCHANGED delivered
    PROVE  /\ ListInv'
           /\ accepted' = accepted \/ accepted' = Append(accepted, m)
  <1> DEFINE n == Head(av)
             k == pools' * PoolSize
  <1>1. /\ ready \in Seq(Nodes) /\ accepted \in Seq(Msgs)
        /\ delivered \in Seq(Msgs \cup {NULL}) /\ node \in [Nodes -> NodeType]
    BY DEF TypeOK
  <1>2. Len(av) \in Nat \ {0} /\ n = av[1] /\ 1 \in 1..Len(av) /\ n \in Nodes
    OBVIOUS
  <1>3. \A i \in 1..Len(ready) : ready[i] # n /\ ready[i] \in Nodes
    BY <1>1, <1>2 DEF Partition
  <1>4. \A i \in 1..Len(ready) : node'[ready[i]] = node[ready[i]]
    <2>1. ASSUME NEW r, node' = [node EXCEPT ![n] = r]
          PROVE  \A i \in 1..Len(ready) : node'[ready[i]] = node[ready[i]]
      BY <1>1, <1>3, <2>1
    <2>2. \E r : node' = [node EXCEPT ![n] = r]
      BY DEF PutInto, CopySucceeds, CopyFails
    <2> QED BY <2>1, <2>2
  <1>5. CASE CopySucceeds(n, m) /\ idle' = Tail(av)
             /\ ready' = Append(ready, n) /\ mMsgCnt' = mMsgCnt + 1
             /\ accepted' = Append(accepted, m) /\ Signal
    <2>1. ListsPartition'
      BY <1>1, <1>5, PartitionMove, PartitionOfListsPrime
    <2>2. /\ Len(ready') = Len(ready) + 1 /\ Len(ready) \in Nat
          /\ \A i \in 1..Len(ready) : ready'[i] = ready[i]
          /\ ready'[Len(ready) + 1] = n
      BY <1>1, <1>2, <1>5
    <2>3. CountInReady' BY <1>5, <2>2 DEF CountInReady
    <2>4. node'[n].msg = m
      <3>1. CASE m \in NoData
        BY <1>1, <1>2, <1>5, <3>1 DEF CopySucceeds
      <3>2. CASE m \notin NoData
        <4>1. PICK b \in Buffers : node' = [node EXCEPT ![n] =
                [msg |-> m, data |-> b, size |-> IF m \in Empty THEN 0 ELSE 1]]
          BY <1>5, <3>2 DEF CopySucceeds
        <4> QED BY <1>1, <1>2, <4>1
      <3> QED BY <3>1, <3>2
    <2>5. /\ Len(accepted') = Len(accepted) + 1 /\ Len(accepted) \in Nat
          /\ \A i \in 1..Len(accepted) : accepted'[i] = accepted[i]
          /\ accepted'[Len(accepted) + 1] = m
          /\ Len(delivered) \in Nat
          /\ Len(accepted) = Len(delivered) + Len(ready)
      <3>1. Len(accepted) \in Nat /\ Len(delivered) \in Nat BY <1>1
      <3>2. Len(accepted) = Len(delivered) + Len(ready) BY DEF Conserved
      <3>3. /\ Len(accepted') = Len(accepted) + 1
            /\ \A i \in 1..Len(accepted) : accepted'[i] = accepted[i]
            /\ accepted'[Len(accepted) + 1] = m
        BY <1>1, <1>5
      <3> QED BY <3>1, <3>2, <3>3
    <2>6. ASSUME NEW i \in 1..Len(ready')
          PROVE  node'[ready'[i]].msg = accepted'[Len(delivered) + i]
      <3>1. CASE i \in 1..Len(ready)
        <4>1. Len(delivered) + i \in 1..Len(accepted) BY <2>2, <2>5, <3>1
        <4> QED BY <1>4, <2>2, <2>5, <3>1, <4>1, ZenonT(60) DEF Conserved
      <3>2. CASE i = Len(ready) + 1
        <4>1. Len(delivered) + i = Len(accepted) + 1 BY <2>2, <2>5, <3>2
        <4> QED BY <2>2, <2>4, <2>5, <3>2, <4>1
      <3> QED BY <2>2, <3>1, <3>2
    <2>7. \A i \in 1..Len(delivered) : i \in 1..Len(accepted)
                                        /\ delivered[i] = accepted[i]
      BY <2>2, <2>5 DEF Conserved
    <2>8. \A i \in 1..Len(delivered') : delivered'[i] = accepted'[i]
      BY <2>5, <2>7
    <2>9. Len(accepted') = Len(delivered') + Len(ready')
      <3>1. Len(delivered') = Len(delivered) OBVIOUS
      <3> QED BY <2>2, <2>5, <3>1
    <2>10. Conserved' BY <2>6, <2>8, <2>9 DEF Conserved
    <2> QED BY <1>5, <2>1, <2>3, <2>10 DEF ListInv
  <1>6. CASE CopyFails(n, m) /\ idle' = av
             /\ UNCHANGED <<ready, mMsgCnt, accepted, pc>>
    <2>1. ListsPartition' BY <1>6, PartitionOfListsPrime
    <2>2. CountInReady' BY <1>6 DEF CountInReady
    <2>3. Conserved' BY <1>4, <1>6 DEF Conserved
    <2> QED BY <1>6, <2>1, <2>2, <2>3 DEF ListInv
  <1> QED BY <1>5, <1>6 DEF PutInto
-----------------------------------------------------------------------------
\* A queue that was not created has empty lists and no pools.
LEMMA InitQueueInv == Init => QueueInv
  <1> SUFFICES ASSUME Init PROVE QueueInv OBVIOUS
  <1>1. Len(idle) = 0 /\ Len(ready) = 0 /\ Len(accepted) = 0 /\ Len(delivered) = 0
    BY DEF Init
  <1>2. pools * PoolSize = 0 BY QueueAssumption DEF Init
  <1>3. ListsPartition BY <1>1, <1>2 DEF ListsPartition, NoDuplicates, Linked
  <1>4. CountInReady /\ Conserved BY <1>1 DEF Init, CountInReady, Conserved
  <1> QED BY <1>3, <1>4 DEF Init, QueueInv, ListInv

\* An empty queue without pools.
LEMMA EmptyListInv ==
    ASSUME idle' = <<>>, ready' = <<>>, pools' = 0, mMsgCnt' = 0,
           accepted' = <<>>, delivered' = <<>>
    PROVE  ListInv'
  <1>1. pools' * PoolSize = 0 BY QueueAssumption
  <1>2. ListsPartition' BY <1>1 DEF ListsPartition, NoDuplicates, Linked
  <1>3. CountInReady' /\ Conserved' BY DEF CountInReady, Conserved
  <1> QED BY <1>2, <1>3 DEF ListInv

\* What a put does to the queue as a whole.
LEMMA PutMessageInv ==
    ASSUME TypeOK, QueueInv, NEW t \in Threads, NEW m \in Msgs, PutMessage(t, m)
    PROVE  /\ QueueInv'
           /\ delivered' = delivered
           /\ accepted' = accepted \/ accepted' = Append(accepted, m)
  <1> USE DEF listVars, poolVars, dataVars, threadVars, histVars
  <1>1. life = "live" /\ life' = life /\ delivered' = delivered
    BY DEF PutMessage, Calling
  <1>2. ListInv BY <1>1 DEF QueueInv
  <1>3. idle \in Seq(Nodes) /\ ready \in Seq(Nodes) BY DEF TypeOK
  <1>4. Partition(idle, ready, pools * PoolSize)
    BY <1>2, PartitionOfLists DEF ListInv
  <1>5. CountInReady /\ Conserved BY <1>2 DEF ListInv
  <1>6. CASE idle # <<>> /\ PutInto(m, idle) /\ UNCHANGED poolVars
    <2>1. pools' * PoolSize \in Nat /\ Partition(idle, ready, pools' * PoolSize)
      BY <1>4, <1>6, PoolsTimesSize
    <2>2. PutInto(m, idle) /\ idle # <<>> /\ UNCHANGED delivered BY <1>1, <1>6
    <2>3. ListInv' /\ (accepted' = accepted \/ accepted' = Append(accepted, m))
      BY <1>3, <1>5, <2>1, <2>2, PutInv
    <2> QED BY <1>1, <2>3 DEF QueueInv
  <1>7. CASE GrowIdle /\ PutInto(m, PoolNodes(pools + 1))
    <2>1. idle = <<>> /\ pools < MaxPools /\ pools' = pools + 1
      BY <1>7 DEF GrowIdle
    <2>2. Partition(<<>>, ready, pools * PoolSize) BY <1>4, <2>1
    <2>3. /\ Partition(PoolNodes(pools + 1), ready, pools' * PoolSize)
          /\ pools' * PoolSize \in Nat
      BY <2>1, <2>2, PartitionGrow
    <2>4. PoolNodes(pools + 1) \in Seq(Nodes) /\ PoolNodes(pools + 1) # <<>>
      BY <2>1, PoolNodesType DEF TypeOK
    <2>5. PutInto(m, PoolNodes(pools + 1)) /\ UNCHANGED delivered BY <1>1, <1>7
    <2>6. ListInv' /\ (accepted' = accepted \/ accepted' = Append(accepted, m))
      BY <1>5, <2>3, <2>4, <2>5, PutInv
    <2> QED BY <1>1, <2>6 DEF QueueInv
  <1>8. CASE GrowFails /\ UNCHANGED <<listVars, dataVars, accepted, pc>>
    <2>1. UNCHANGED <<listVars, pools, node, histVars>>
      BY <1>1, <1>8 DEF GrowFails
    <2>2. ListInv' BY <1>2, <2>1, QueueUntouched
    <2> QED BY <1>1, <1>8, <2>2 DEF QueueInv
  <1> QED BY <1>6, <1>7, <1>8 DEF PutMessage

\* The steps that fetch a message, whatever function they belong to.
FetchStep(t) ==
    /\ life = "live" /\ ready # <<>> /\ Fetch(t)
    /\ UNCHANGED <<pools, dataVars, accepted>>

\* The steps that leave the queue's lists, payloads and histories alone.
OtherStep == UNCHANGED <<life, listVars, pools, dataVars, histVars>>

\* What a step other than create, destroy and put does to the queue: it fetches,
\* leaves the queue alone, or fetches from an empty list.
LEMMA StepKinds ==
    ASSUME NEW t \in Threads,
           \/ GetMessage(t) \/ GetMessageCount(t) \/ WaitMessage(t)
           \/ TimedWaitMessage(t) \/ (\E c \in {"dry", "tdry"} : DryWait(t, c))
           \/ Expire(t) \/ WakeSpuriously(t) \/ ResumeWait(t)
           \/ ResumeTimedWait(t) \/ ResumeDryWait(t) \/ Release(t)
    PROVE  FetchStep(t) \/ OtherStep \/ (ResumeTimedWait(t) /\ FetchFromHead(t))
  <1> USE DEF listVars, poolVars, dataVars, threadVars, histVars
  <1>1. CASE GetMessage(t)
    BY <1>1 DEF GetMessage, Calling, FetchStep, OtherStep
  <1>2. CASE GetMessageCount(t)
    BY <1>2 DEF GetMessageCount, OtherStep
  <1>3. CASE WaitMessage(t)
    BY <1>3 DEF WaitMessage, Calling, FetchStep, OtherStep
  <1>4. CASE TimedWaitMessage(t)
    BY <1>4 DEF TimedWaitMessage, OtherStep
  <1>5. CASE \E c \in {"dry", "tdry"} : DryWait(t, c)
    BY <1>5 DEF DryWait, OtherStep
  <1>6. CASE Expire(t) \/ WakeSpuriously(t)
    BY <1>6 DEF Expire, WakeSpuriously, OtherStep
  <1>7. CASE ResumeWait(t)
    BY <1>7 DEF ResumeWait, FetchStep, OtherStep
  <1>8. CASE ResumeTimedWait(t)
    BY <1>8 DEF ResumeTimedWait, FetchStep, OtherStep
  <1>9. CASE ResumeDryWait(t) \/ Release(t)
    BY <1>9 DEF ResumeDryWait, Release, OtherStep
  <1> QED BY <1>1, <1>2, <1>3, <1>4, <1>5, <1>6, <1>7, <1>8, <1>9

\* Every step keeps the inductive invariant.
LEMMA NextQueueInv == TypeOK /\ QueueInv /\ [Next]_vars => QueueInv'
  <1> SUFFICES ASSUME TypeOK, QueueInv, [Next]_vars PROVE QueueInv' OBVIOUS
  <1> USE DEF listVars, poolVars, dataVars, threadVars, histVars
  <1>1. ASSUME OtherStep PROVE QueueInv'
    BY <1>1, QueueUntouched DEF OtherStep, QueueInv
  <1>2. ASSUME NEW t \in Threads, FetchStep(t) PROVE QueueInv'
    <2>1. ListInv /\ ready # <<>> /\ Fetch(t) /\ UNCHANGED <<pools, node, accepted>>
      BY <1>2 DEF FetchStep, QueueInv
    <2>2. ListInv' BY <2>1, FetchInv
    <2>3. life' = "live" BY <1>2 DEF FetchStep, Fetch
    <2> QED BY <2>2, <2>3 DEF QueueInv
  <1>3. CASE MessageCreate
    <2>1. ListInv /\ pools = 0 BY <1>3 DEF MessageCreate, QueueInv
    <2>2. Len(idle) = 0 /\ Len(ready) = 0
      <3>1. pools * PoolSize = 0 BY <2>1, QueueAssumption
      <3>2. Len(idle) \in Nat /\ Len(ready) \in Nat BY DEF TypeOK
      <3>3. Len(idle) + Len(ready) = 0 BY <2>1, <3>1 DEF ListInv, ListsPartition
      <3> QED BY <3>2, <3>3
    <2>3. Len(accepted) = Len(delivered)
          /\ \A i \in 1..Len(delivered) : delivered[i] = accepted[i]
      <3>1. Len(delivered) \in Nat BY DEF TypeOK
      <3> QED BY <2>1, <2>2, <3>1 DEF ListInv, Conserved
    <2>4. Conserved'
      <3>1. ready' = <<>> /\ UNCHANGED <<accepted, delivered>> BY <1>3 DEF MessageCreate
      <3>2. Len(ready') = 0 BY <3>1
      <3>3. Len(delivered) \in Nat BY DEF TypeOK
      <3>4. Len(accepted') = Len(delivered') + Len(ready') BY <2>3, <3>1, <3>2, <3>3
      <3>5. \A i \in 1..Len(delivered') : delivered'[i] = accepted'[i]
        BY <2>3, <3>1
      <3> QED BY <3>2, <3>4, <3>5 DEF Conserved
    <2>5. CountInReady' BY <1>3 DEF MessageCreate, CountInReady
    <2>6. Partition(<<>>, <<>>, 0) BY DEF Partition, NoDuplicates
    <2>7. CASE life' = "live" /\ idle' = PoolNodes(1) /\ pools' = 1
      <3>1. PoolSize \in Nat \ {0} /\ 0 < MaxPools /\ 0 \in 0..MaxPools /\ 0 + 1 = 1
        BY QueueAssumption
      <3>2. /\ PoolNodes(1) \in Seq(Nodes) /\ Len(PoolNodes(1)) = PoolSize
            /\ \A i \in 1..PoolSize : PoolNodes(1)[i] = 0 * PoolSize + i
        BY <3>1, PoolNodesType
      <3>3. 0 * PoolSize = 0 /\ 1 * PoolSize = PoolSize BY <3>1
      <3>4. \A i \in 1..PoolSize : PoolNodes(1)[i] = i BY <3>1, <3>2, <3>3
      <3>5. Partition(PoolNodes(1), <<>>, PoolSize)
        BY <3>1, <3>2, <3>4 DEF Partition, NoDuplicates
      <3>6. Partition(idle', ready', pools' * PoolSize)
        BY <1>3, <2>7, <3>3, <3>5 DEF MessageCreate
      <3>7. ListsPartition' BY <3>6, PartitionOfListsPrime
      <3> QED BY <2>4, <2>5, <2>7, <3>7 DEF QueueInv, ListInv
    <2>8. CASE UNCHANGED <<life, pools>> /\ idle' = <<>>
      <3>1. pools' * PoolSize = 0 BY <2>1, <2>8, QueueAssumption
      <3>2. Partition(idle', ready', pools' * PoolSize)
        BY <1>3, <2>6, <2>8, <3>1 DEF MessageCreate
      <3>3. ListsPartition' BY <3>2, PartitionOfListsPrime
      <3> QED BY <2>1, <2>4, <2>5, <2>8, <3>3 DEF QueueInv, ListInv
    <2> QED BY <1>3, <2>7, <2>8 DEF MessageCreate
  <1>4. CASE MessageDestroy
    <2>1. ListInv BY <1>4 DEF MessageDestroy, QueueInv
    <2>2. mMsgCnt' = 0
      <3>1. Len(ready) \in Nat /\ mMsgCnt = Len(ready)
        BY <2>1 DEF TypeOK, ListInv, CountInReady
      <3> QED BY <1>4, <3>1 DEF MessageDestroy
    <2>3. ListInv' BY <1>4, <2>2, EmptyListInv DEF MessageDestroy
    <2> QED BY <1>4, <2>3 DEF MessageDestroy, QueueInv
  <1>5. ASSUME NEW t \in Threads, NEW m \in Msgs, PutMessage(t, m) PROVE QueueInv'
    BY <1>5, PutMessageInv
  <1>6. ASSUME NEW t \in Threads, ResumeTimedWait(t), FetchFromHead(t) PROVE QueueInv'
    BY <1>6 DEF FetchFromHead, QueueInv
  <1>7. CASE UNCHANGED vars
    <2>1. OtherStep BY <1>7 DEF vars, OtherStep
    <2> QED BY <1>1, <2>1
  <1>8. CASE Next
    BY <1>1, <1>2, <1>3, <1>4, <1>5, <1>6, <1>8, StepKinds DEF Next
  <1> QED BY <1>7, <1>8
-----------------------------------------------------------------------------
\* For every use of the queue, as long as no wait fetched from an empty
\* list: each node is in one place of one list.
THEOREM NodesPartitioned == Spec => [](FetchFromNonEmpty => ListsPartition)
  <1>1. QueueInv => (FetchFromNonEmpty => ListsPartition)
    BY DEF QueueInv, ListInv, FetchFromNonEmpty
  <1> QED BY <1>1, TypeCorrect, InitQueueInv, NextQueueInv, PTL DEF Spec

\* Likewise mMsgCnt counts the ready list.
THEOREM CounterExact == Spec => [](FetchFromNonEmpty => CountInReady)
  <1>1. QueueInv => (FetchFromNonEmpty => CountInReady)
    BY DEF QueueInv, ListInv, FetchFromNonEmpty
  <1> QED BY <1>1, TypeCorrect, InitQueueInv, NextQueueInv, PTL DEF Spec

-----------------------------------------------------------------------------
\* No thread waits for a message with a timeout.
NoTimedWait == \A t \in Threads : "twait" \notin Uses[t]
CallInv == CallsUsed /\ FetchFromNonEmpty

\* Nobody gets into the timed wait, or fetches from an empty list, when no thread
\* makes that call.
LEMMA NextCallInv == NoTimedWait /\ TypeOK /\ CallInv /\ [Next]_vars => CallInv'
  <1> SUFFICES ASSUME NoTimedWait, TypeOK, CallInv, [Next]_vars PROVE CallInv'
    OBVIOUS
  <1> USE DEF listVars, poolVars, dataVars, threadVars, histVars
  <1>1. ASSUME UNCHANGED call, life' # "corrupt" PROVE CallInv'
    BY <1>1 DEF CallInv, CallsUsed, FetchFromNonEmpty
  <1>2. ASSUME NEW t \in Threads, Return(t), life' # "corrupt" PROVE CallInv'
    BY <1>2 DEF CallInv, CallsUsed, FetchFromNonEmpty, Return, TypeOK
  <1>3. ASSUME NEW t \in Threads, NEW c \in Uses[t], Sleep(t, c), life' # "corrupt"
        PROVE  CallInv'
    BY <1>3 DEF CallInv, CallsUsed, FetchFromNonEmpty, Sleep, TypeOK
  <1>4. life # "corrupt" BY DEF CallInv, FetchFromNonEmpty
  <1>5. CASE UNCHANGED vars BY <1>1, <1>4, <1>5 DEF vars
  <1>6. CASE MessageCreate \/ MessageDestroy
    BY <1>1, <1>4, <1>6 DEF MessageCreate, MessageDestroy
  <1>7. ASSUME NEW t \in Threads,
               \/ \E m \in Msgs : PutMessage(t, m)
               \/ GetMessage(t) \/ GetMessageCount(t)
               \/ Expire(t) \/ WakeSpuriously(t) \/ Release(t)
        PROVE  CallInv'
    <2>1. CASE \E m \in Msgs : PutMessage(t, m)
      BY <1>1, <1>4, <2>1 DEF PutMessage
    <2>2. CASE GetMessage(t)
      BY <1>1, <1>4, <2>2 DEF GetMessage, Fetch
    <2>3. CASE GetMessageCount(t) \/ Expire(t) \/ WakeSpuriously(t) \/ Release(t)
      BY <1>1, <1>4, <2>3 DEF GetMessageCount, Expire, WakeSpuriously, Release
    <2> QED BY <1>7, <2>1, <2>2, <2>3
  <1>8. ASSUME NEW t \in Threads, WaitMessage(t) PROVE CallInv'
    <2>1. CASE Fetch(t) /\ UNCHANGED call BY <1>1, <1>4, <2>1 DEF Fetch
    <2>2. CASE Sleep(t, "wait") /\ UNCHANGED life
      BY <1>3, <1>4, <1>8, <2>2 DEF WaitMessage, Calling
    <2> QED BY <1>8, <2>1, <2>2 DEF WaitMessage
  <1>9. ASSUME NEW t \in Threads, TimedWaitMessage(t) PROVE CallInv'
    BY <1>9 DEF TimedWaitMessage, Calling, NoTimedWait
  <1>10. ASSUME NEW t \in Threads, NEW c \in {"dry", "tdry"}, DryWait(t, c)
         PROVE  CallInv'
    <2>1. CASE UNCHANGED call BY <1>1, <1>4, <1>10, <2>1 DEF DryWait
    <2>2. CASE Sleep(t, c)
      BY <1>3, <1>4, <1>10, <2>2 DEF DryWait, Calling
    <2> QED BY <1>10, <2>1, <2>2 DEF DryWait
  <1>11. ASSUME NEW t \in Threads, ResumeWait(t) PROVE CallInv'
    <2>1. CASE Fetch(t) /\ Return(t) BY <1>2, <1>4, <2>1 DEF Fetch
    <2>2. CASE UNCHANGED <<life, call>> BY <1>1, <1>4, <2>2
    <2> QED BY <1>11, <2>1, <2>2 DEF ResumeWait
  <1>12. ASSUME NEW t \in Threads, ResumeTimedWait(t) PROVE CallInv'
    <2>1. call[t] = "twait" BY <1>12 DEF ResumeTimedWait
    <2> QED BY <2>1 DEF CallInv, CallsUsed, NoTimedWait
  <1>13. ASSUME NEW t \in Threads, ResumeDryWait(t) PROVE CallInv'
    <2>1. CASE Return(t) BY <1>2, <1>4, <1>13, <2>1 DEF ResumeDryWait
    <2>2. CASE UNCHANGED call BY <1>1, <1>4, <1>13, <2>2 DEF ResumeDryWait
    <2> QED BY <1>13, <2>1, <2>2 DEF ResumeDryWait
  <1> QED BY <1>5, <1>6, <1>7, <1>8, <1>9, <1>10, <1>11, <1>12, <1>13 DEF Next

\* Every step of the queue is a step of the channel, or none.
LEMMA NextFifo ==
    TypeOK /\ QueueInv /\ FetchFromNonEmpty' /\ [Next]_vars
        => [Fifo!Next]_(Fifo!chanVars)
  <1> SUFFICES ASSUME TypeOK, QueueInv, FetchFromNonEmpty', [Next]_vars
               PROVE  [Fifo!Next]_(Fifo!chanVars)
    OBVIOUS
  <1> USE DEF listVars, poolVars, dataVars, threadVars, histVars
  <1>1. ASSUME UNCHANGED histVars PROVE [Fifo!Next]_(Fifo!chanVars)
    BY <1>1 DEF Fifo!chanVars
  <1>2. ASSUME NEW t \in Threads, FetchStep(t) PROVE Fifo!Next
    <2>1. ListInv /\ ready # <<>> /\ Fetch(t) /\ UNCHANGED <<pools, node, accepted>>
      BY <1>2 DEF FetchStep, QueueInv
    <2>2. /\ Len(delivered) < Len(accepted)
          /\ delivered' = Append(delivered, accepted[Len(delivered) + 1])
      BY <2>1, FetchInv
    <2>3. Fifo!Take BY <2>1, <2>2 DEF Fifo!Take
    <2> QED BY <2>3 DEF Fifo!Next
  <1>3. ASSUME NEW t \in Threads, NEW m \in Msgs, PutMessage(t, m)
        PROVE  [Fifo!Next]_(Fifo!chanVars)
    <2>1. /\ delivered' = delivered
          /\ accepted' = accepted \/ accepted' = Append(accepted, m)
      BY <1>3, PutMessageInv
    <2> QED BY <2>1 DEF Fifo!Next, Fifo!Send, Fifo!chanVars
  <1>4. CASE MessageCreate BY <1>1, <1>4 DEF MessageCreate
  <1>5. CASE MessageDestroy
    BY <1>5 DEF MessageDestroy, Fifo!Next, Fifo!Close
  <1>6. ASSUME NEW t \in Threads, FetchFromHead(t) PROVE FALSE
    BY <1>6 DEF FetchFromHead, FetchFromNonEmpty
  <1>7. CASE UNCHANGED vars BY <1>1, <1>7 DEF vars
  <1>8. ASSUME OtherStep PROVE [Fifo!Next]_(Fifo!chanVars)
    BY <1>1, <1>8 DEF OtherStep
  <1>9. CASE Next
    BY <1>2, <1>3, <1>4, <1>5, <1>6, <1>8, <1>9, StepKinds DEF Next
  <1> QED BY <1>7, <1>9

-----------------------------------------------------------------------------
\* Nobody puts a message with a payload pointer and no payload.
NoEmptyPayload == Empty = {}

\* Every payload has one node, every node with a payload a message and a size.
Owned ==
    /\ \A b \in Buffers : heap[b] # NULL => \E n \in Nodes : node[n].data = b
    /\ \A n \in Nodes : node[n].data # NULL =>
          /\ heap[node[n].data] = node[n].msg
          /\ node[n].msg # NULL
          /\ \A k \in Nodes \ {n} : node[k].data # node[n].data
    /\ \A n \in Nodes : node[n].data = NULL <=> node[n].size = 0

\* What MessageDeepCopyMessage does to node n, whether it succeeds or not:
\* its old payload is freed, no other node or payload is touched.
Copied(n) ==
    /\ \A k \in Nodes \ {n} : node'[k] = node[k]
    /\ \A b \in Buffers : b # node[n].data /\ heap[b] # NULL => heap'[b] = heap[b]

\* The heap after the payload of a node was freed.
LEMMA HeapWithoutFacts ==
    ASSUME TypeOK, Owned, NEW n \in Nodes
    PROVE  /\ HeapWithout(n) \in [Buffers -> Msgs \cup {NULL}]
           /\ \A b \in Buffers :
                 HeapWithout(n)[b] = IF b = node[n].data THEN NULL ELSE heap[b]
  <1>1. node[n] \in NodeType /\ heap \in [Buffers -> Msgs \cup {NULL}]
    BY DEF TypeOK
  <1>2. node[n].data = NULL <=> node[n].size = 0 BY DEF Owned
  <1>3. NULL \notin Buffers BY QueueAssumption
  <1>4. CASE node[n].data = NULL BY <1>1, <1>2, <1>3, <1>4 DEF HeapWithout
  <1>5. CASE node[n].data # NULL
    <2>1. HeapWithout(n) = [heap EXCEPT ![node[n].data] = NULL]
      BY <1>2, <1>5 DEF HeapWithout
    <2> QED BY <1>1, <2>1
  <1> QED BY <1>4, <1>5

\* The copy into a node keeps every payload with its one owner.
LEMMA CopySucceedsOwned ==
    ASSUME NoEmptyPayload, TypeOK, Owned, NEW n \in Nodes, NEW m \in Msgs,
           CopySucceeds(n, m)
    PROVE  Owned' /\ Copied(n)
  <1> DEFINE h == HeapWithout(n)
  <1>1. /\ node \in [Nodes -> NodeType] /\ heap \in [Buffers -> Msgs \cup {NULL}]
        /\ NULL \notin Buffers /\ m # NULL
    BY QueueAssumption DEF TypeOK
  <1>2. /\ h \in [Buffers -> Msgs \cup {NULL}]
        /\ \A b \in Buffers : h[b] = IF b = node[n].data THEN NULL ELSE heap[b]
    BY HeapWithoutFacts
  <1> HIDE DEF h
  <1>3. \A k \in Nodes : node[k].data \in Buffers \cup {NULL} BY <1>1 DEF NodeType
  <1>4. CASE /\ m \in NoData /\ heap' = h
             /\ node' = [node EXCEPT ![n] =
                   [msg |-> m, data |-> IF @.size # 0 THEN NULL ELSE @.data, size |-> 0]]
    <2>1. node'[n].data = NULL /\ node'[n].size = 0
      BY <1>1, <1>4 DEF Owned
    <2>2. \A k \in Nodes \ {n} : node'[k] = node[k] BY <1>1, <1>4
    <2>3. ASSUME NEW b \in Buffers, heap'[b] # NULL
          PROVE  \E k \in Nodes : node'[k].data = b
      <3>1. b # node[n].data /\ heap[b] # NULL BY <1>2, <1>4, <2>3
      <3>2. PICK k \in Nodes : node[k].data = b BY <3>1 DEF Owned
      <3> QED BY <2>2, <3>1, <3>2
    <2>4. ASSUME NEW k \in Nodes, node'[k].data # NULL
          PROVE  /\ heap'[node'[k].data] = node'[k].msg /\ node'[k].msg # NULL
                 /\ \A j \in Nodes \ {k} : node'[j].data # node'[k].data
      <3>1. k # n /\ node'[k] = node[k] BY <2>1, <2>2, <2>4
      <3>2. /\ heap[node[k].data] = node[k].msg /\ node[k].msg # NULL
            /\ \A j \in Nodes \ {k} : node[j].data # node[k].data
        BY <2>4, <3>1 DEF Owned
      <3>3. node[k].data \in Buffers BY <1>3, <2>4, <3>1
      <3>4. heap'[node[k].data] = heap[node[k].data] BY <1>2, <1>4, <3>1, <3>2, <3>3
      <3> QED BY <2>1, <2>2, <2>4, <3>1, <3>2, <3>4
    <2>5. \A k \in Nodes : node'[k].data = NULL <=> node'[k].size = 0
      BY <2>1, <2>2 DEF Owned
    <2>6. Owned' BY <2>3, <2>4, <2>5 DEF Owned
    <2> QED BY <1>2, <1>4, <2>2, <2>6 DEF Copied
  <1>5. ASSUME m \notin NoData, NEW c \in Buffers, h[c] = NULL,
               heap' = [h EXCEPT ![c] = m],
               node' = [node EXCEPT ![n] = [msg |-> m, data |-> c, size |-> 1]]
        PROVE  Owned' /\ Copied(n)
    <2>1. node'[n] = [msg |-> m, data |-> c, size |-> 1] BY <1>1, <1>5
    <2>2. \A k \in Nodes \ {n} : node'[k] = node[k] BY <1>1, <1>5
    <2>3. heap'[c] = m /\ \A b \in Buffers \ {c} : heap'[b] = h[b] BY <1>2, <1>5
    <2>4. \A k \in Nodes \ {n} : node[k].data # c
      <3> SUFFICES ASSUME NEW k \in Nodes \ {n}, node[k].data = c PROVE FALSE
        OBVIOUS
      <3>1. c # NULL BY <1>1
      <3>2. heap[c] = node[k].msg /\ node[k].msg # NULL /\ node[n].data # c
        BY <3>1 DEF Owned
      <3> QED BY <1>2, <1>5, <3>2
    <2>5. ASSUME NEW b \in Buffers, heap'[b] # NULL
          PROVE  \E k \in Nodes : node'[k].data = b
      <3>1. CASE b = c BY <2>1, <3>1
      <3>2. CASE b # c
        <4>1. b # node[n].data /\ heap[b] # NULL BY <1>2, <2>3, <2>5, <3>2
        <4>2. PICK k \in Nodes : node[k].data = b BY <4>1 DEF Owned
        <4> QED BY <2>2, <4>1, <4>2
      <3> QED BY <3>1, <3>2
    <2>6. ASSUME NEW k \in Nodes, node'[k].data # NULL
          PROVE  /\ heap'[node'[k].data] = node'[k].msg /\ node'[k].msg # NULL
                 /\ \A j \in Nodes \ {k} : node'[j].data # node'[k].data
      <3>1. CASE k = n BY <1>1, <2>1, <2>2, <2>3, <2>4, <3>1
      <3>2. CASE k # n
        <4>1. node'[k] = node[k] /\ node[k].data # c BY <2>2, <2>4, <3>2
        <4>2. /\ heap[node[k].data] = node[k].msg /\ node[k].msg # NULL
              /\ \A j \in Nodes \ {k} : node[j].data # node[k].data
          BY <2>6, <4>1 DEF Owned
        <4>3. node[k].data \in Buffers BY <1>3, <2>6, <4>1
        <4>4. node[n].data # node[k].data BY <3>2, <4>2
        <4>5. heap'[node[k].data] = heap[node[k].data] BY <1>2, <2>3, <4>1, <4>3, <4>4
        <4> QED BY <2>1, <2>2, <4>1, <4>2, <4>5
      <3> QED BY <3>1, <3>2
    <2>7. \A k \in Nodes : node'[k].data = NULL <=> node'[k].size = 0
      BY <1>1, <2>1, <2>2 DEF Owned
    <2>8. Owned' BY <2>5, <2>6, <2>7 DEF Owned
    <2>9. \A b \in Buffers : b # node[n].data /\ heap[b] # NULL => heap'[b] = heap[b]
      BY <1>2, <1>5, <2>3
    <2> QED BY <2>2, <2>8, <2>9 DEF Copied
  <1>6. CASE m \notin NoData
    <2>1. PICK c \in Buffers :
             /\ HeapWithout(n)[c] = NULL /\ heap' = [HeapWithout(n) EXCEPT ![c] = m]
             /\ node' = [node EXCEPT ![n] =
                   [msg |-> m, data |-> c, size |-> IF m \in Empty THEN 0 ELSE 1]]
      BY <1>6 DEF CopySucceeds
    <2>2. node' = [node EXCEPT ![n] = [msg |-> m, data |-> c, size |-> 1]]
      BY <2>1 DEF NoEmptyPayload
    <2> QED BY <1>5, <1>6, <2>1, <2>2 DEF h
  <1>7. CASE m \in NoData BY <1>4, <1>7 DEF CopySucceeds, h
  <1> QED BY <1>6, <1>7

\* A copy that fails leaves the node without a payload.
LEMMA CopyFailsOwned ==
    ASSUME TypeOK, Owned, NEW n \in Nodes, NEW m \in Msgs, CopyFails(n, m)
    PROVE  Owned' /\ Copied(n) /\ node'[n].data = NULL
  <1> DEFINE h == HeapWithout(n)
  <1>1. node \in [Nodes -> NodeType] /\ NULL \notin Buffers
    BY QueueAssumption DEF TypeOK
  <1>2. /\ h \in [Buffers -> Msgs \cup {NULL}]
        /\ \A b \in Buffers : h[b] = IF b = node[n].data THEN NULL ELSE heap[b]
    BY HeapWithoutFacts
  <1>3. heap' = h /\ node' = [node EXCEPT ![n] = [msg |-> m, data |-> NULL, size |-> 0]]
    BY DEF CopyFails
  <1> HIDE DEF h
  <1>4. \A k \in Nodes : node[k].data \in Buffers \cup {NULL} BY <1>1 DEF NodeType
  <1>5. node'[n].data = NULL /\ node'[n].size = 0 BY <1>1, <1>3
  <1>6. \A k \in Nodes \ {n} : node'[k] = node[k] BY <1>1, <1>3
  <1>7. ASSUME NEW b \in Buffers, heap'[b] # NULL
        PROVE  \E k \in Nodes : node'[k].data = b
    <2>1. b # node[n].data /\ heap[b] # NULL BY <1>2, <1>3, <1>7
    <2>2. PICK k \in Nodes : node[k].data = b BY <2>1 DEF Owned
    <2> QED BY <1>6, <2>1, <2>2
  <1>8. ASSUME NEW k \in Nodes, node'[k].data # NULL
        PROVE  /\ heap'[node'[k].data] = node'[k].msg /\ node'[k].msg # NULL
               /\ \A j \in Nodes \ {k} : node'[j].data # node'[k].data
    <2>1. k # n /\ node'[k] = node[k] BY <1>5, <1>6, <1>8
    <2>2. /\ heap[node[k].data] = node[k].msg /\ node[k].msg # NULL
          /\ \A j \in Nodes \ {k} : node[j].data # node[k].data
      BY <1>8, <2>1 DEF Owned
    <2>3. node[k].data \in Buffers BY <1>4, <1>8, <2>1
    <2>4. heap'[node[k].data] = heap[node[k].data] BY <1>2, <1>3, <2>1, <2>2, <2>3
    <2> QED BY <1>5, <1>6, <1>8, <2>1, <2>2, <2>4
  <1>9. \A k \in Nodes : node'[k].data = NULL <=> node'[k].size = 0
    BY <1>5, <1>6 DEF Owned
  <1>10. Owned' BY <1>7, <1>8, <1>9 DEF Owned
  <1> QED BY <1>2, <1>3, <1>5, <1>6, <1>10 DEF Copied
-----------------------------------------------------------------------------
\* Node n is linked in one of the lists.
InLists(n) == \/ \E i \in 1..Len(idle) : idle[i] = n
              \/ \E i \in 1..Len(ready) : ready[i] = n

\* The inductive invariant about payloads: where message_destroy looks for
\* them, in the linked nodes, it finds them all.
PayloadInv ==
    /\ Owned
    /\ life # "corrupt" => \A n \in Nodes : node[n].data # NULL => InLists(n)
    /\ life = "none" => \A n \in Nodes : node[n].data = NULL

\* list_move_tail of the head of the ready list keeps every node linked.
LEMMA FetchLinks ==
    ASSUME TypeOK, NEW t \in Threads, ready # <<>>, Fetch(t),
           NEW n \in Nodes, InLists(n)
    PROVE  InLists(n)'
  <1>1. /\ idle \in Seq(Nodes) /\ ready \in Seq(Nodes)
        /\ idle' = Append(idle, Head(ready)) /\ ready' = Tail(ready)
    BY DEF TypeOK, Fetch
  <1>2. /\ Len(idle') = Len(idle) + 1 /\ Len(idle) \in Nat
        /\ \A i \in 1..Len(idle) : idle'[i] = idle[i]
        /\ idle'[Len(idle) + 1] = ready[1]
    BY <1>1
  <1>3. /\ Len(ready') = Len(ready) - 1 /\ Len(ready) \in Nat
        /\ \A i \in 1..Len(ready') : ready'[i] = ready[i + 1]
    BY <1>1
  <1>4. ASSUME NEW i \in 1..Len(idle), idle[i] = n PROVE InLists(n)'
    <2>1. i \in 1..Len(idle') /\ idle'[i] = n BY <1>2, <1>4
    <2> QED BY <2>1 DEF InLists
  <1>5. ASSUME NEW i \in 1..Len(ready), ready[i] = n PROVE InLists(n)'
    <2>1. CASE i = 1
      <3>1. Len(idle) + 1 \in 1..Len(idle') /\ idle'[Len(idle) + 1] = n
        BY <1>2, <1>5, <2>1
      <3> QED BY <3>1 DEF InLists
    <2>2. CASE i # 1
      <3>1. i - 1 \in 1..Len(ready') /\ (i - 1) + 1 = i BY <1>3, <2>2
      <3>2. ready'[i - 1] = n BY <1>3, <1>5, <3>1
      <3> QED BY <3>1, <3>2 DEF InLists
    <2> QED BY <2>1, <2>2
  <1> QED BY <1>4, <1>5 DEF InLists

\* put_message_with_data keeps it too, into the idle list or a new pool.
LEMMA PutPayload ==
    ASSUME NoEmptyPayload, TypeOK, PayloadInv, life # "corrupt",
           NEW m \in Msgs, NEW av \in Seq(Nodes), av # <<>>, av = idle \/ idle = <<>>,
           PutInto(m, av), life' = life, life # "none"
    PROVE  PayloadInv' /\ Copied(Head(av))
  <1> DEFINE n == Head(av)
  <1>1. Len(av) \in Nat \ {0} /\ n = av[1] /\ n \in Nodes OBVIOUS
  <1>2. ready \in Seq(Nodes) BY DEF TypeOK
  <1>3. ASSUME NEW k \in Nodes, InLists(k), k # n,
               \/ idle' = Tail(av) /\ ready' = Append(ready, n)
               \/ idle' = av /\ ready' = ready
        PROVE  InLists(k)'
    <2>1. CASE idle' = Tail(av) /\ ready' = Append(ready, n)
      <3>1. /\ Len(idle') = Len(av) - 1
            /\ \A i \in 1..Len(idle') : idle'[i] = av[i + 1]
        BY <1>1, <2>1
      <3>2. /\ Len(ready') = Len(ready) + 1 /\ Len(ready) \in Nat
            /\ \A i \in 1..Len(ready) : ready'[i] = ready[i]
        BY <1>1, <1>2, <2>1
      <3>3. ASSUME NEW i \in 1..Len(idle), idle[i] = k PROVE InLists(k)'
        <4>1. av = idle /\ i # 1 BY <1>1, <1>3, <3>3
        <4>2. i - 1 \in 1..Len(idle') /\ (i - 1) + 1 = i BY <1>1, <3>1, <4>1
        <4>3. idle'[i - 1] = k BY <3>1, <3>3, <4>1, <4>2
        <4> QED BY <4>2, <4>3 DEF InLists
      <3>4. ASSUME NEW i \in 1..Len(ready), ready[i] = k PROVE InLists(k)'
        <4>1. i \in 1..Len(ready') /\ ready'[i] = k BY <3>2, <3>4
        <4> QED BY <4>1 DEF InLists
      <3> QED BY <1>3, <3>3, <3>4 DEF InLists
    <2>2. CASE idle' = av /\ ready' = ready BY <1>3, <2>2 DEF InLists
    <2> QED BY <1>3, <2>1, <2>2
  <1>4. CASE CopySucceeds(n, m) /\ idle' = Tail(av) /\ ready' = Append(ready, n)
    <2>1. Owned' /\ Copied(n) BY <1>1, <1>4, CopySucceedsOwned DEF PayloadInv
    <2>2. InLists(n)'
      <3>1. Len(ready) + 1 \in 1..Len(ready') /\ ready'[Len(ready) + 1] = n
        BY <1>1, <1>2, <1>4
      <3> QED BY <3>1 DEF InLists
    <2>3. ASSUME NEW k \in Nodes, node'[k].data # NULL PROVE InLists(k)'
      <3>1. CASE k = n BY <2>2, <3>1
      <3>2. CASE k # n
        <4>1. node'[k] = node[k] BY <2>1, <3>2 DEF Copied
        <4>2. InLists(k) BY <2>3, <4>1 DEF PayloadInv
        <4> QED BY <1>3, <1>4, <3>2, <4>2
      <3> QED BY <3>1, <3>2
    <2> QED BY <2>1, <2>3 DEF PayloadInv
  <1>5. CASE CopyFails(n, m) /\ idle' = av /\ ready' = ready
    <2>1. Owned' /\ Copied(n) /\ node'[n].data = NULL
      BY <1>1, <1>5, CopyFailsOwned DEF PayloadInv
    <2>2. ASSUME NEW k \in Nodes, node'[k].data # NULL PROVE InLists(k)'
      <3>1. k # n /\ node'[k] = node[k] BY <2>1, <2>2 DEF Copied
      <3>2. InLists(k) BY <2>2, <3>1 DEF PayloadInv
      <3> QED BY <1>3, <1>5, <3>1, <3>2
    <2> QED BY <2>1, <2>2 DEF PayloadInv
  <1> QED BY <1>4, <1>5 DEF PutInto

\* message_destroy frees every payload.
LEMMA DestroyPayload ==
    ASSUME TypeOK, PayloadInv, MessageDestroy
    PROVE  PayloadInv' /\ \A b \in Buffers : heap'[b] = NULL
  <1> DEFINE linked == {idle[i] : i \in DOMAIN idle} \cup {ready[i] : i \in DOMAIN ready}
             freed == {node[n].data : n \in {k \in linked : node[k].size # 0}}
  <1>1. /\ heap' = [b \in Buffers |-> IF b \in freed THEN NULL ELSE heap[b]]
        /\ node' = [n \in Nodes |-> Blank]
        /\ life = "live" /\ life' = "none"
    BY DEF MessageDestroy
  <1>2. ASSUME NEW b \in Buffers, heap[b] # NULL PROVE b \in freed
    <2>1. PICK n \in Nodes : node[n].data = b BY <1>2 DEF PayloadInv, Owned
    <2>2. node[n].data # NULL BY <2>1, QueueAssumption
    <2>3. InLists(n) /\ node[n].size # 0 BY <1>1, <2>2 DEF PayloadInv, Owned
    <2>4. DOMAIN idle = 1..Len(idle) /\ DOMAIN ready = 1..Len(ready) BY DEF TypeOK
    <2>5. n \in linked BY <2>3, <2>4 DEF InLists
    <2> QED BY <2>1, <2>3, <2>5
  <1>3. \A b \in Buffers : heap'[b] = NULL BY <1>1, <1>2
  <1>4. \A n \in Nodes : node'[n].data = NULL /\ node'[n].size = 0
    BY <1>1 DEF Blank
  <1>5. Owned' BY <1>3, <1>4 DEF Owned
  <1> QED BY <1>3, <1>4, <1>5 DEF PayloadInv

\* Every step keeps it.
LEMMA NextPayloadInv ==
    NoEmptyPayload /\ TypeOK /\ PayloadInv /\ [Next]_vars => PayloadInv'
  <1> SUFFICES ASSUME NoEmptyPayload, TypeOK, PayloadInv, [Next]_vars
               PROVE  PayloadInv'
    OBVIOUS
  <1> USE DEF listVars, poolVars, dataVars, threadVars, histVars
  <1>1. ASSUME OtherStep PROVE PayloadInv'
    BY <1>1 DEF OtherStep, PayloadInv, Owned, InLists
  <1>2. ASSUME NEW t \in Threads, FetchStep(t) PROVE PayloadInv'
    <2>1. /\ Fetch(t) /\ ready # <<>> /\ UNCHANGED <<node, heap>>
          /\ life = "live" /\ life' = life
      BY <1>2 DEF FetchStep, Fetch
    <2>2. \A n \in Nodes : node'[n].data # NULL => InLists(n)'
      BY <2>1, FetchLinks DEF PayloadInv
    <2> QED BY <2>1, <2>2 DEF PayloadInv, Owned
  <1>3. CASE MessageCreate
    <2>1. /\ life = "none" /\ UNCHANGED <<node, heap>>
          /\ \A n \in Nodes : node'[n].data = NULL
      BY <1>3 DEF MessageCreate, PayloadInv
    <2> QED BY <2>1 DEF PayloadInv, Owned
  <1>4. CASE MessageDestroy BY <1>4, DestroyPayload
  <1>5. ASSUME NEW t \in Threads, NEW m \in Msgs, PutMessage(t, m)
        PROVE  PayloadInv'
    <2>1. life = "live" /\ life' = life BY <1>5 DEF PutMessage, Calling
    <2>2. CASE idle # <<>> /\ PutInto(m, idle)
      <3>1. idle \in Seq(Nodes) BY DEF TypeOK
      <3> QED BY <2>1, <2>2, <3>1, PutPayload
    <2>3. CASE GrowIdle /\ PutInto(m, PoolNodes(pools + 1))
      <3>1. idle = <<>> /\ pools < MaxPools BY <2>3 DEF GrowIdle
      <3>2. PoolNodes(pools + 1) \in Seq(Nodes) /\ PoolNodes(pools + 1) # <<>>
        BY <3>1, PoolNodesType DEF TypeOK
      <3> QED BY <2>1, <2>3, <3>1, <3>2, PutPayload
    <2>4. CASE GrowFails /\ UNCHANGED <<listVars, dataVars, accepted, pc>>
      BY <2>1, <2>4 DEF PayloadInv, Owned, InLists
    <2> QED BY <1>5, <2>2, <2>3, <2>4 DEF PutMessage
  <1>6. ASSUME NEW t \in Threads, ResumeTimedWait(t), FetchFromHead(t)
        PROVE  PayloadInv'
    <2>1. life' = "corrupt" /\ UNCHANGED <<node, heap>>
      BY <1>6 DEF ResumeTimedWait, FetchFromHead
    <2> QED BY <2>1 DEF PayloadInv, Owned
  <1>7. CASE UNCHANGED vars
    <2>1. OtherStep BY <1>7 DEF vars, OtherStep
    <2> QED BY <1>1, <2>1
  <1>8. CASE Next
    BY <1>1, <1>2, <1>3, <1>4, <1>5, <1>6, <1>8, StepKinds DEF Next
  <1> QED BY <1>7, <1>8

\* In the beginning there are no payloads.
LEMMA InitPayloadInv == Init => PayloadInv
  <1> SUFFICES ASSUME Init PROVE PayloadInv OBVIOUS
  <1>1. \A n \in Nodes : node[n].data = NULL /\ node[n].size = 0
    BY DEF Init, Blank
  <1>2. \A b \in Buffers : heap[b] = NULL BY DEF Init
  <1> QED BY <1>1, <1>2 DEF PayloadInv, Owned

\* For every use of the queue by any number of threads, every payload that was
\* allocated belongs to exactly one node and holds the bytes of its message:
\* nothing leaks, nothing is freed twice, and no two messages share a payload,
\* whatever copies fail and whenever nodes are used again.
THEOREM PayloadsOwned == NoEmptyPayload /\ Spec => []PayloadOwnership
  <1> SUFFICES ASSUME NoEmptyPayload PROVE Spec => []PayloadOwnership OBVIOUS
  <1>1. PayloadInv => PayloadOwnership BY DEF PayloadInv, Owned, PayloadOwnership
  <1>2. TypeOK /\ PayloadInv /\ [Next]_vars => PayloadInv' BY NextPayloadInv
  <1> QED BY <1>1, <1>2, TypeCorrect, InitPayloadInv, PTL DEF Spec

\* A destroyed queue, or one that was never created, holds no payload:
\* message_destroy finds them all in its two lists, those of messages that
\* were fetched too.
THEOREM NothingLeaks == NoEmptyPayload /\ Spec => []DestroyFreesAll
  <1> SUFFICES ASSUME NoEmptyPayload PROVE Spec => []DestroyFreesAll OBVIOUS
  <1>1. ASSUME PayloadInv PROVE DestroyFreesAll
    <2> SUFFICES ASSUME life = "none", NEW b \in Buffers, heap[b] # NULL PROVE FALSE
      BY DEF DestroyFreesAll
    <2>1. PICK n \in Nodes : node[n].data = b BY <1>1 DEF PayloadInv, Owned
    <2>2. node[n].data = NULL BY <1>1 DEF PayloadInv
    <2> QED BY <2>1, <2>2, QueueAssumption
  <1>2. TypeOK /\ PayloadInv /\ [Next]_vars => PayloadInv' BY NextPayloadInv
  <1> QED BY <1>1, <1>2, TypeCorrect, InitPayloadInv, PTL DEF Spec
-----------------------------------------------------------------------------
\* Only a thread that is done with a call holds a message, and a queue that
\* is not created is used by nobody.
OutInv ==
    /\ \A t \in Threads : pc[t] # "done" => out[t] = NoMessage
    /\ life = "none" => \A t \in Threads : pc[t] = "out"

\* A step that gives no thread a message: those that have one keep it or are
\* done with it.
OutKept == \A u \in Threads : out'[u] = out[u] \/ out'[u] = NoMessage

\* What a step other than create, destroy and put does to the messages held.
LEMMA OutSteps ==
    ASSUME TypeOK, NEW t \in Threads,
           \/ GetMessage(t) \/ GetMessageCount(t) \/ WaitMessage(t)
           \/ TimedWaitMessage(t) \/ (\E c \in {"dry", "tdry"} : DryWait(t, c))
           \/ Expire(t) \/ WakeSpuriously(t) \/ ResumeWait(t)
           \/ ResumeTimedWait(t) \/ ResumeDryWait(t) \/ Release(t)
    PROVE  FetchStep(t) \/ (OtherStep /\ OutKept) \/ life' = "corrupt"
  <1> USE DEF listVars, poolVars, dataVars, threadVars, histVars
  <1>1. CASE GetMessage(t)
    BY <1>1 DEF GetMessage, Calling, FetchStep, OtherStep, OutKept
  <1>2. CASE GetMessageCount(t) \/ TimedWaitMessage(t)
    BY <1>2 DEF GetMessageCount, TimedWaitMessage, OtherStep, OutKept
  <1>3. CASE WaitMessage(t)
    BY <1>3 DEF WaitMessage, Calling, FetchStep, OtherStep, OutKept
  <1>4. CASE \E c \in {"dry", "tdry"} : DryWait(t, c)
    BY <1>4 DEF DryWait, OtherStep, OutKept
  <1>5. CASE Expire(t) \/ WakeSpuriously(t) \/ ResumeDryWait(t)
    BY <1>5 DEF Expire, WakeSpuriously, ResumeDryWait, OtherStep, OutKept
  <1>6. CASE ResumeWait(t)
    BY <1>6 DEF ResumeWait, FetchStep, OtherStep, OutKept
  <1>7. CASE ResumeTimedWait(t)
    BY <1>7 DEF ResumeTimedWait, FetchFromHead, FetchStep, OtherStep, OutKept
  <1>8. CASE Release(t)
    <2>1. OtherStep BY <1>8 DEF Release, OtherStep
    <2>2. out' = [out EXCEPT ![t] = NoMessage] BY <1>8 DEF Release
    <2> QED BY <2>1, <2>2 DEF OutKept, TypeOK
  <1> QED BY <1>1, <1>2, <1>3, <1>4, <1>5, <1>6, <1>7, <1>8

\* Steps of the threads keep OutInv.
LEMMA NextOutInv == TypeOK /\ OutInv /\ [Next]_vars => OutInv'
  <1> SUFFICES ASSUME TypeOK, OutInv, [Next]_vars PROVE OutInv' OBVIOUS
  <1> USE DEF listVars, poolVars, dataVars, threadVars, histVars
  <1>0. out \in [Threads -> OutType]
        /\ pc \in [Threads -> {"out", "asleep", "woken", "expired", "done"}]
    BY DEF TypeOK
  <1>1. ASSUME NEW t \in Threads, NEW s, life' # "none", pc[t] # "done",
               pc' = [pc EXCEPT ![t] = s], UNCHANGED out
        PROVE  OutInv'
    BY <1>0, <1>1 DEF OutInv
  <1>2. ASSUME NEW t \in Threads, life' # "none", pc' = [pc EXCEPT ![t] = "done"],
               NEW r, out' = [out EXCEPT ![t] = r]
        PROVE  OutInv'
    BY <1>0, <1>2 DEF OutInv
  <1>3. ASSUME UNCHANGED <<pc, out>>, life' = "none" => life = "none" PROVE OutInv'
    BY <1>3 DEF OutInv
  <1>4. ASSUME NEW t \in Threads, Fetch(t), life # "none" PROVE OutInv'
    BY <1>2, <1>4 DEF Fetch
  <1>5. CASE UNCHANGED vars BY <1>3, <1>5 DEF vars
  <1>6. CASE MessageCreate
    BY <1>6 DEF MessageCreate, OutInv
  <1>7. CASE MessageDestroy BY <1>7 DEF MessageDestroy, OutInv
  <1>8. ASSUME NEW t \in Threads, NEW m \in Msgs, PutMessage(t, m) PROVE OutInv'
    <2>1. life = "live" /\ life' = life /\ UNCHANGED out
      BY <1>8 DEF PutMessage, Calling
    <2>2. UNCHANGED pc \/ Signal
      BY <1>8 DEF PutMessage, PutInto
    <2>3. CASE UNCHANGED pc BY <1>3, <2>1, <2>3
    <2>4. ASSUME NEW w \in Asleep, pc' = [pc EXCEPT ![w] = "woken"] PROVE OutInv'
      <3>1. w \in Threads /\ pc[w] # "done" BY DEF Asleep
      <3> QED BY <1>1, <2>1, <2>4, <3>1
    <2> QED BY <2>2, <2>3, <2>4 DEF Signal
  <1>9. ASSUME NEW t \in Threads,
               \/ GetMessage(t) \/ GetMessageCount(t) \/ WaitMessage(t)
               \/ TimedWaitMessage(t) \/ (\E c \in {"dry", "tdry"} : DryWait(t, c))
        PROVE  OutInv'
    <2>1. life = "live" /\ pc[t] = "out"
      BY <1>9 DEF GetMessage, GetMessageCount, WaitMessage, TimedWaitMessage,
                  DryWait, Calling
    <2>2. CASE GetMessage(t) BY <1>3, <1>4, <2>1, <2>2 DEF GetMessage
    <2>3. CASE GetMessageCount(t) BY <1>3, <2>1, <2>3 DEF GetMessageCount
    <2>4. CASE WaitMessage(t) BY <1>1, <1>4, <2>1, <2>4 DEF WaitMessage, Sleep
    <2>5. CASE TimedWaitMessage(t)
      BY <1>1, <2>1, <2>5 DEF TimedWaitMessage, Sleep
    <2>6. CASE \E c \in {"dry", "tdry"} : DryWait(t, c)
      BY <1>1, <1>3, <2>1, <2>6 DEF DryWait, Sleep
    <2> QED BY <1>9, <2>2, <2>3, <2>4, <2>5, <2>6
  <1>10. ASSUME NEW t \in Threads, Expire(t) \/ WakeSpuriously(t) PROVE OutInv'
    BY <1>1, <1>10 DEF Expire, WakeSpuriously
  <1>11. ASSUME NEW t \in Threads, ResumeWait(t) PROVE OutInv'
    BY <1>1, <1>4, <1>11 DEF ResumeWait
  <1>12. ASSUME NEW t \in Threads, ResumeTimedWait(t) PROVE OutInv'
    <2>1. CASE Fetch(t) BY <1>4, <1>12, <2>1 DEF ResumeTimedWait
    <2>2. CASE FetchFromHead(t) /\ pc[t] = "woken"
      BY <1>1, <2>2 DEF FetchFromHead
    <2>3. CASE pc[t] = "expired" /\ pc' = [pc EXCEPT ![t] = "out"] /\ UNCHANGED <<life, out>>
      BY <1>1, <1>12, <2>3 DEF ResumeTimedWait
    <2> QED BY <1>12, <2>1, <2>2, <2>3 DEF ResumeTimedWait
  <1>13. ASSUME NEW t \in Threads, ResumeDryWait(t) PROVE OutInv'
    BY <1>1, <1>13 DEF ResumeDryWait
  <1>14. ASSUME NEW t \in Threads, Release(t) PROVE OutInv'
    BY <1>0, <1>14 DEF Release, OutInv
  <1> QED BY <1>5, <1>6, <1>7, <1>8, <1>9, <1>10, <1>11, <1>12, <1>13, <1>14 DEF Next

\* The inductive invariant about messages that were fetched: the node with the
\* payload is idle, as far from the head as puts are left before it is used.
SafeInv ==
    \A t \in Threads :
        life = "live" /\ out[t].data # NULL /\ Len(accepted) < out[t].safe =>
            \E i \in 1..Len(idle) :
                /\ out[t].safe = Len(accepted) + i - 1
                /\ node[idle[i]].data = out[t].data
                /\ node[idle[i]].msg = out[t].msg

\* A put takes the head of the idle list, and every other idle node gets one
\* nearer to it; a put that fails moves none.
LEMMA PutSafe ==
    ASSUME TypeOK, NoDuplicates(idle), SafeInv, life = "live", UNCHANGED out,
           NEW m \in Msgs, NEW av \in Seq(Nodes), av # <<>>, av = idle \/ idle = <<>>,
           PutInto(m, av), Copied(Head(av))
    PROVE  SafeInv'
  <1> SUFFICES ASSUME NEW t \in Threads, out[t].data # NULL,
                      Len(accepted') < out[t].safe
               PROVE  \E i \in 1..Len(idle') :
                         /\ out[t].safe = Len(accepted') + i - 1
                         /\ node'[idle'[i]].data = out[t].data
                         /\ node'[idle'[i]].msg = out[t].msg
    BY DEF SafeInv
  <1>1. /\ out[t].safe \in Nat /\ Len(accepted) \in Nat
        /\ idle \in Seq(Nodes) /\ Len(idle) \in Nat
    BY DEF TypeOK, OutType
  <1>2. accepted \in Seq(Msgs) BY DEF TypeOK
  <1>3. CASE idle' = Tail(av) /\ accepted' = Append(accepted, m)
    <2>1. Len(accepted') = Len(accepted) + 1 BY <1>2, <1>3
    <2>2. Len(accepted) < out[t].safe BY <1>1, <2>1
    <2>3. PICK i \in 1..Len(idle) :
             /\ out[t].safe = Len(accepted) + i - 1
             /\ node[idle[i]].data = out[t].data /\ node[idle[i]].msg = out[t].msg
      BY <2>2 DEF SafeInv
    <2>4. i > 2 /\ av = idle BY <1>1, <2>1, <2>3
    <2>5. /\ i - 1 \in 1..Len(idle') /\ idle'[i - 1] = idle[i]
      BY <1>1, <1>3, <2>4
    <2>6. idle[i] \in Nodes \ {Head(av)}
      <3>1. idle[i] # idle[1] /\ 1 \in 1..Len(idle) BY <1>1, <2>4 DEF NoDuplicates
      <3> QED BY <1>1, <2>4, <3>1
    <2>7. node'[idle[i]] = node[idle[i]] BY <2>6 DEF Copied
    <2>8. out[t].safe = Len(accepted') + (i - 1) - 1 BY <1>1, <2>1, <2>3
    <2> QED BY <2>3, <2>5, <2>7, <2>8
  <1>4. CASE idle' = av /\ accepted' = accepted
    <2>1. PICK i \in 1..Len(idle) :
             /\ out[t].safe = Len(accepted) + i - 1
             /\ node[idle[i]].data = out[t].data /\ node[idle[i]].msg = out[t].msg
      BY <1>4 DEF SafeInv
    <2>2. i > 1 /\ av = idle BY <1>1, <1>4, <2>1
    <2>3. idle[i] \in Nodes \ {Head(av)}
      <3>1. idle[i] # idle[1] /\ 1 \in 1..Len(idle) BY <1>1, <2>2 DEF NoDuplicates
      <3> QED BY <1>1, <2>2, <3>1
    <2>4. node'[idle[i]] = node[idle[i]] BY <2>3 DEF Copied
    <2> QED BY <1>4, <2>1, <2>2, <2>4
  <1> QED BY <1>3, <1>4 DEF PutInto

\* A fetched node becomes the last of the idle list.
LEMMA FetchSafe ==
    ASSUME TypeOK, SafeInv, NEW t \in Threads, FetchStep(t)
    PROVE  SafeInv'
  <1>1. /\ idle \in Seq(Nodes) /\ ready \in Seq(Nodes) /\ ready # <<>>
        /\ out \in [Threads -> OutType] /\ Len(accepted) \in Nat
        /\ Len(idle) \in Nat
    BY DEF TypeOK, FetchStep
  <1>2. /\ idle' = Append(idle, Head(ready)) /\ UNCHANGED <<node, accepted>>
        /\ out' = [out EXCEPT ![t] =
              [msg |-> node[Head(ready)].msg, data |-> node[Head(ready)].data,
               size |-> node[Head(ready)].size, safe |-> Len(accepted) + Len(idle)]]
        /\ life = "live"
    BY DEF FetchStep, Fetch, dataVars
  <1>3. /\ Len(idle') = Len(idle) + 1
        /\ \A i \in 1..Len(idle) : idle'[i] = idle[i] /\ i \in 1..Len(idle')
        /\ idle'[Len(idle) + 1] = Head(ready)
    BY <1>1, <1>2
  <1> SUFFICES ASSUME NEW u \in Threads, out'[u].data # NULL,
                      Len(accepted) < out'[u].safe
               PROVE  \E i \in 1..Len(idle') :
                         /\ out'[u].safe = Len(accepted) + i - 1
                         /\ node[idle'[i]].data = out'[u].data
                         /\ node[idle'[i]].msg = out'[u].msg
    BY <1>2, SMTT(30) DEF SafeInv
  <1>4. CASE u = t
    <2>1. /\ out'[u].data = node[Head(ready)].data /\ out'[u].msg = node[Head(ready)].msg
          /\ out'[u].safe = Len(accepted) + Len(idle)
      BY <1>1, <1>2, <1>4
    <2>2. Len(idle) + 1 \in 1..Len(idle')
          /\ out'[u].safe = Len(accepted) + (Len(idle) + 1) - 1
      BY <1>1, <1>3, <2>1
    <2> QED BY <1>3, <2>1, <2>2
  <1>5. CASE u # t
    <2>1. out'[u] = out[u] BY <1>1, <1>2, <1>5
    <2>2. PICK i \in 1..Len(idle) :
             /\ out[u].safe = Len(accepted) + i - 1
             /\ node[idle[i]].data = out[u].data /\ node[idle[i]].msg = out[u].msg
      BY <1>2, <2>1 DEF SafeInv
    <2>3. i \in 1..Len(idle') /\ idle'[i] = idle[i] BY <1>3
    <2> QED BY <2>1, <2>2, <2>3
  <1> QED BY <1>4, <1>5

\* Every step keeps it.
LEMMA NextSafeInv ==
    NoEmptyPayload /\ TypeOK /\ QueueInv /\ PayloadInv /\ OutInv /\ SafeInv
        /\ [Next]_vars => SafeInv'
  <1> SUFFICES ASSUME NoEmptyPayload, TypeOK, QueueInv, PayloadInv, OutInv, SafeInv,
                      [Next]_vars
               PROVE  SafeInv'
    OBVIOUS
  <1> USE DEF listVars, poolVars, dataVars, threadVars, histVars
  <1>1. ASSUME OtherStep, OutKept PROVE SafeInv'
    BY <1>1 DEF OtherStep, OutKept, SafeInv, NoMessage
  <1>2. ASSUME life' # "live" PROVE SafeInv' BY <1>2 DEF SafeInv
  <1>3. CASE MessageCreate
    <2>1. \A t \in Threads : out'[t] = NoMessage BY <1>3 DEF MessageCreate, OutInv
    <2> QED BY <2>1 DEF SafeInv, NoMessage
  <1>4. CASE MessageDestroy BY <1>2, <1>4 DEF MessageDestroy
  <1>5. ASSUME NEW t \in Threads, NEW m \in Msgs, PutMessage(t, m)
        PROVE  SafeInv'
    <2>1. life = "live" /\ life' = life /\ UNCHANGED out
      BY <1>5 DEF PutMessage, Calling
    <2>2. NoDuplicates(idle) BY <2>1 DEF QueueInv, ListInv, ListsPartition
    <2>3. CASE idle # <<>> /\ PutInto(m, idle)
      <3>1. idle \in Seq(Nodes) BY DEF TypeOK
      <3>2. Copied(Head(idle)) BY <2>1, <2>3, <3>1, PutPayload
      <3> QED BY <2>1, <2>2, <2>3, <3>1, <3>2, PutSafe
    <2>4. CASE GrowIdle /\ PutInto(m, PoolNodes(pools + 1))
      <3>1. idle = <<>> /\ pools < MaxPools BY <2>4 DEF GrowIdle
      <3>2. PoolNodes(pools + 1) \in Seq(Nodes) /\ PoolNodes(pools + 1) # <<>>
        BY <3>1, PoolNodesType DEF TypeOK
      <3>3. Copied(Head(PoolNodes(pools + 1))) BY <2>1, <2>4, <3>1, <3>2, PutPayload
      <3> QED BY <2>1, <2>2, <2>4, <3>1, <3>2, <3>3, PutSafe
    <2>5. CASE GrowFails /\ UNCHANGED <<listVars, dataVars, accepted, pc>>
      BY <2>1, <2>5 DEF SafeInv
    <2> QED BY <1>5, <2>3, <2>4, <2>5 DEF PutMessage
  <1>6. CASE UNCHANGED vars
    <2>1. OtherStep /\ OutKept BY <1>6 DEF vars, OtherStep, OutKept
    <2> QED BY <1>1, <2>1
  <1>7. CASE Next
    BY <1>1, <1>2, <1>3, <1>4, <1>5, <1>7, FetchSafe, OutSteps DEF Next
  <1> QED BY <1>6, <1>7

\* A consumer may read the payload of the message it fetched, without holding
\* the mutex, until as many puts were accepted as there were idle nodes before
\* the one it came in: neither the growth of the list nor a failed put, nor a
\* fetch by another thread, makes that node come up earlier.
THEOREM PayloadStays == NoEmptyPayload /\ Spec => []PayloadSafe
  <1> SUFFICES ASSUME NoEmptyPayload PROVE Spec => []PayloadSafe OBVIOUS
  <1>1. Init => OutInv /\ SafeInv BY DEF Init, OutInv, SafeInv, NoMessage
  <1>2. ASSUME TypeOK, PayloadInv, SafeInv PROVE PayloadSafe
    <2> SUFFICES ASSUME NEW t \in Threads, life = "live", out[t].data # NULL,
                        Len(accepted) < out[t].safe
                 PROVE  heap[out[t].data] = out[t].msg
      BY DEF PayloadSafe
    <2>1. PICK i \in 1..Len(idle) :
             node[idle[i]].data = out[t].data /\ node[idle[i]].msg = out[t].msg
      BY <1>2 DEF SafeInv
    <2>2. idle[i] \in Nodes BY <1>2 DEF TypeOK
    <2> QED BY <1>2, <2>1, <2>2 DEF PayloadInv, Owned
  <1>3. TypeOK /\ PayloadInv /\ [Next]_vars => PayloadInv' BY NextPayloadInv
  <1>4. TypeOK /\ QueueInv /\ PayloadInv /\ OutInv /\ SafeInv /\ [Next]_vars => SafeInv'
    BY NextSafeInv
  <1> QED BY <1>1, <1>2, <1>3, <1>4, TypeCorrect, InitQueueInv, NextQueueInv,
             InitPayloadInv, NextOutInv, PTL DEF Spec
-----------------------------------------------------------------------------
\* The functions that wait, and the places of a thread inside one.
Waits == {"wait", "twait", "dry", "tdry"}
InWait(t) == pc[t] \in {"asleep", "woken", "expired"}

\* A thread inside a wait is there because it called one.
WaitsUsed == \A t \in Threads : InWait(t) => call[t] \in Uses[t] \cap Waits

\* Going to sleep, going back to sleep, waking up and leaving keep WaitsUsed.
LEMMA NextWaitsUsed == TypeOK /\ OutInv /\ WaitsUsed /\ [Next]_vars => WaitsUsed'
  <1> SUFFICES ASSUME TypeOK, OutInv, WaitsUsed, [Next]_vars PROVE WaitsUsed' OBVIOUS
  <1> USE DEF listVars, poolVars, dataVars, threadVars, histVars
  <1>0. /\ pc \in [Threads -> {"out", "asleep", "woken", "expired", "done"}]
        /\ call \in [Threads -> Calls \cup {"none"}]
    BY DEF TypeOK
  <1>1. ASSUME UNCHANGED <<pc, call>> PROVE WaitsUsed'
    BY <1>1 DEF WaitsUsed, InWait
  <1>2. ASSUME NEW t \in Threads, NEW s \in {"asleep", "woken", "expired"}, InWait(t),
               pc' = [pc EXCEPT ![t] = s], UNCHANGED call
        PROVE  WaitsUsed'
    BY <1>0, <1>2 DEF WaitsUsed, InWait
  <1>3. ASSUME NEW t \in Threads, NEW s \in {"out", "done"},
               pc' = [pc EXCEPT ![t] = s], UNCHANGED call \/ Return(t)
        PROVE  WaitsUsed'
    BY <1>0, <1>3 DEF WaitsUsed, InWait, Return
  <1>4. ASSUME NEW t \in Threads, NEW c \in Uses[t] \cap Waits, Sleep(t, c)
        PROVE  WaitsUsed'
    BY <1>0, <1>4 DEF WaitsUsed, InWait, Sleep
  <1>5. ASSUME NEW t \in Threads, Fetch(t), UNCHANGED call \/ Return(t)
        PROVE  WaitsUsed'
    BY <1>3, <1>5 DEF Fetch
  <1>6. CASE UNCHANGED vars BY <1>1, <1>6 DEF vars
  <1>7. CASE MessageCreate \/ MessageDestroy
    BY <1>1, <1>7 DEF MessageCreate, MessageDestroy
  <1>8. ASSUME NEW t \in Threads, NEW m \in Msgs, PutMessage(t, m) PROVE WaitsUsed'
    <2>1. UNCHANGED call /\ (UNCHANGED pc \/ Signal)
      BY <1>8 DEF PutMessage, PutInto
    <2>2. ASSUME NEW w \in Asleep, pc' = [pc EXCEPT ![w] = "woken"] PROVE WaitsUsed'
      BY <1>2, <2>1, <2>2 DEF Asleep, InWait
    <2> QED BY <1>1, <2>1, <2>2 DEF Signal
  <1>9. ASSUME NEW t \in Threads, GetMessage(t) \/ GetMessageCount(t) \/ Release(t)
        PROVE  WaitsUsed'
    BY <1>1, <1>3, <1>5, <1>9 DEF GetMessage, GetMessageCount, Release
  <1>10. ASSUME NEW t \in Threads, WaitMessage(t) \/ TimedWaitMessage(t)
         PROVE  WaitsUsed'
    BY <1>3, <1>4, <1>5, <1>10 DEF WaitMessage, TimedWaitMessage, Calling, Waits
  <1>11. ASSUME NEW t \in Threads, NEW c \in {"dry", "tdry"}, DryWait(t, c)
         PROVE  WaitsUsed'
    BY <1>1, <1>4, <1>11 DEF DryWait, Calling, Waits
  <1>12. ASSUME NEW t \in Threads, Expire(t) \/ WakeSpuriously(t) PROVE WaitsUsed'
    BY <1>2, <1>12 DEF Expire, WakeSpuriously, InWait
  <1>13. ASSUME NEW t \in Threads, ResumeWait(t) PROVE WaitsUsed'
    BY <1>2, <1>5, <1>13 DEF ResumeWait, InWait
  <1>14. ASSUME NEW t \in Threads, ResumeTimedWait(t) PROVE WaitsUsed'
    BY <1>3, <1>5, <1>14 DEF ResumeTimedWait, FetchFromHead
  <1>15. ASSUME NEW t \in Threads, ResumeDryWait(t) PROVE WaitsUsed'
    BY <1>2, <1>3, <1>15 DEF ResumeDryWait, InWait
  <1> QED BY <1>6, <1>7, <1>8, <1>9, <1>10, <1>11, <1>12, <1>13, <1>14, <1>15 DEF Next

\* At most one thread waits on the queue; any number of others put and get.
OneWaiter ==
    \A t, u \in Threads :
        Uses[t] \cap Waits # {} /\ Uses[u] \cap Waits # {} => t = u

\* The waiting flag is up while the thread is in a wait that can be signalled,
\* and the thread sleeps only while nothing is ready.
FlagInv ==
    /\ \A t \in Threads : pc[t] \in {"asleep", "woken"} => mWaitingFlag
    /\ \A t \in Threads : pc[t] = "asleep" => ready = <<>>

\* Every step of the waiter, and of the others, keeps it.
LEMMA NextFlagInv ==
    OneWaiter /\ TypeOK /\ OutInv /\ WaitsUsed /\ FlagInv /\ [Next]_vars => FlagInv'
  <1> SUFFICES ASSUME OneWaiter, TypeOK, OutInv, WaitsUsed, FlagInv, [Next]_vars
               PROVE  FlagInv'
    OBVIOUS
  <1> USE DEF listVars, poolVars, dataVars, threadVars, histVars
  <1>0. pc \in [Threads -> {"out", "asleep", "woken", "expired", "done"}]
    BY DEF TypeOK
  <1>1. ASSUME UNCHANGED <<pc, mWaitingFlag, ready>> PROVE FlagInv'
    BY <1>1 DEF FlagInv
  <1>2. ASSUME NEW t \in Threads, Uses[t] \cap Waits # {}, NEW u \in Threads \ {t}
        PROVE  ~InWait(u)
    <2>1. ASSUME InWait(u) PROVE Uses[u] \cap Waits # {}
      BY <2>1 DEF WaitsUsed
    <2> QED BY <1>2, <2>1 DEF OneWaiter
  <1>3. ASSUME NEW t \in Threads, Uses[t] \cap Waits # {},
               NEW s \in {"out", "done", "expired"}, pc' = [pc EXCEPT ![t] = s]
        PROVE  FlagInv'
    BY <1>0, <1>2, <1>3 DEF FlagInv, InWait
  <1>4. ASSUME NEW t \in Threads, Uses[t] \cap Waits # {}, NEW c, Sleep(t, c),
               ready = <<>>, UNCHANGED ready, mWaitingFlag' = TRUE
        PROVE  FlagInv'
    BY <1>0, <1>2, <1>4 DEF FlagInv, InWait, Sleep
  <1>5. ASSUME NEW t \in Threads, NEW s \in {"asleep", "woken"},
               pc[t] \in {"asleep", "woken"}, pc' = [pc EXCEPT ![t] = s],
               s = "asleep" => ready = <<>>, UNCHANGED <<mWaitingFlag, ready>>
        PROVE  FlagInv'
    BY <1>0, <1>5 DEF FlagInv
  <1>6. ASSUME NEW t \in Threads, InWait(t) PROVE Uses[t] \cap Waits # {}
    BY <1>6 DEF WaitsUsed
  <1>7. CASE UNCHANGED vars BY <1>1, <1>7 DEF vars
  <1>8. CASE MessageCreate
    BY <1>8 DEF MessageCreate, OutInv, FlagInv
  <1>9. CASE MessageDestroy BY <1>9 DEF MessageDestroy, FlagInv
  <1>10. ASSUME NEW t \in Threads, NEW m \in Msgs, PutMessage(t, m) PROVE FlagInv'
    <2>1. UNCHANGED mWaitingFlag /\ (UNCHANGED <<pc, ready>> \/ Signal)
      BY <1>10 DEF PutMessage, PutInto
    <2>2. CASE UNCHANGED <<pc, ready>> BY <1>1, <2>1, <2>2
    <2>3. CASE Signal
      <3>1. CASE Asleep = {}
        <4>1. UNCHANGED pc /\ \A u \in Threads : pc[u] # "asleep"
          BY <2>3, <3>1 DEF Signal, Asleep
        <4> QED BY <2>1, <4>1 DEF FlagInv
      <3>2. CASE Asleep # {}
        <4>1. mWaitingFlag BY <3>2 DEF FlagInv, Asleep
        <4>2. PICK w \in Asleep : pc' = [pc EXCEPT ![w] = "woken"]
          BY <2>3, <3>2, <4>1 DEF Signal
        <4>3. w \in Threads /\ InWait(w) BY <4>2 DEF Asleep, InWait
        <4>4. \A u \in Threads \ {w} : ~InWait(u) BY <1>2, <1>6, <4>3
        <4> QED BY <1>0, <2>1, <4>1, <4>2, <4>3, <4>4 DEF FlagInv, InWait
      <3> QED BY <3>1, <3>2
    <2> QED BY <2>1, <2>2, <2>3
  <1>11. ASSUME NEW t \in Threads, GetMessage(t) PROVE FlagInv'
    <2>1. UNCHANGED mWaitingFlag BY <1>11 DEF GetMessage
    <2>2. CASE ready # <<>> /\ Fetch(t)
      <3>1. \A u \in Threads : pc[u] # "asleep" BY <2>2 DEF FlagInv
      <3>2. pc' = [pc EXCEPT ![t] = "done"] BY <2>2 DEF Fetch
      <3> QED BY <1>0, <2>1, <3>1, <3>2 DEF FlagInv
    <2> QED BY <1>1, <1>11, <2>1, <2>2 DEF GetMessage
  <1>12. ASSUME NEW t \in Threads, GetMessageCount(t) PROVE FlagInv'
    BY <1>1, <1>12 DEF GetMessageCount
  <1>13. ASSUME NEW t \in Threads, WaitMessage(t) PROVE FlagInv'
    <2>1. Uses[t] \cap Waits # {} BY <1>13 DEF WaitMessage, Calling, Waits
    <2> QED BY <1>3, <1>4, <1>13, <2>1 DEF WaitMessage, Fetch
  <1>14. ASSUME NEW t \in Threads, TimedWaitMessage(t) PROVE FlagInv'
    <2>1. Uses[t] \cap Waits # {} BY <1>14 DEF TimedWaitMessage, Calling, Waits
    <2> QED BY <1>3, <1>4, <1>14, <2>1 DEF TimedWaitMessage
  <1>15. ASSUME NEW t \in Threads, NEW c \in {"dry", "tdry"}, DryWait(t, c)
         PROVE  FlagInv'
    <2>1. Uses[t] \cap Waits # {} /\ pc[t] = "out" BY <1>15 DEF DryWait, Calling, Waits
    <2>2. CASE UNCHANGED pc
      <3>1. pc' = [pc EXCEPT ![t] = "out"] BY <1>0, <2>1, <2>2
      <3> QED BY <1>3, <2>1, <3>1
    <2>3. CASE Sleep(t, c) /\ ready = <<>> /\ mWaitingFlag' = TRUE
      BY <1>4, <1>15, <2>1, <2>3 DEF DryWait
    <2> QED BY <1>15, <2>2, <2>3 DEF DryWait
  <1>16. ASSUME NEW t \in Threads, Expire(t) PROVE FlagInv'
    BY <1>3, <1>6, <1>16 DEF Expire, InWait
  <1>17. ASSUME NEW t \in Threads, WakeSpuriously(t) PROVE FlagInv'
    BY <1>5, <1>17 DEF WakeSpuriously
  <1>18. ASSUME NEW t \in Threads, ResumeWait(t) PROVE FlagInv'
    BY <1>3, <1>5, <1>6, <1>18 DEF ResumeWait, Fetch, InWait
  <1>19. ASSUME NEW t \in Threads, ResumeTimedWait(t) PROVE FlagInv'
    BY <1>3, <1>6, <1>19 DEF ResumeTimedWait, Fetch, FetchFromHead, InWait
  <1>20. ASSUME NEW t \in Threads, ResumeDryWait(t) PROVE FlagInv'
    BY <1>3, <1>5, <1>6, <1>20 DEF ResumeDryWait, InWait
  <1>21. ASSUME NEW t \in Threads, Release(t) PROVE FlagInv'
    BY <1>0, <1>21 DEF Release, FlagInv
  <1> QED BY <1>7, <1>8, <1>9, <1>10, <1>11, <1>12, <1>13, <1>14, <1>15, <1>16,
             <1>17, <1>18, <1>19, <1>20, <1>21 DEF Next

\* With one thread that waits, and any number that put and get, no wakeup is
\* lost: a put that finds the flag down has nobody to wake, although the flag
\* is one for all and is cleared by whoever leaves a wait.
THEOREM WakeupsKept == OneWaiter /\ Spec => []NoLostWakeup
  <1> SUFFICES ASSUME OneWaiter PROVE Spec => []NoLostWakeup OBVIOUS
  <1>1. Init => OutInv /\ WaitsUsed /\ FlagInv
    BY DEF Init, OutInv, WaitsUsed, FlagInv, InWait
  <1>2. FlagInv => NoLostWakeup BY DEF FlagInv, NoLostWakeup, Asleep
  <1>3. TypeOK /\ OutInv /\ WaitsUsed /\ FlagInv /\ [Next]_vars => FlagInv'
    BY NextFlagInv
  <1> QED BY <1>1, <1>2, <1>3, TypeCorrect, NextOutInv, NextWaitsUsed, PTL DEF Spec
-----------------------------------------------------------------------------
\* At most one thread does anything but put.
OneConsumer ==
    \A t, u \in Threads :
        Uses[t] \ {"put"} # {} /\ Uses[u] \ {"put"} # {} => t = u

\* The inductive invariant about counts: a thread inside a wait, and one that
\* only puts, knows none; what the consumer knows is there.
SeenInv ==
    /\ \A t \in Threads : InWait(t) \/ Uses[t] \ {"put"} = {} => seen[t] = 0
    /\ life = "none" => \A t \in Threads : seen[t] = 0
    /\ CountStillThere

\* Every step keeps it: only the consumer takes messages from the ready list,
\* and it has forgotten its count by then.
LEMMA NextSeenInv ==
    OneConsumer /\ TypeOK /\ QueueInv /\ OutInv /\ WaitsUsed /\ SeenInv
        /\ [Next]_vars => SeenInv'
  <1> SUFFICES ASSUME OneConsumer, TypeOK, QueueInv, OutInv, WaitsUsed, SeenInv,
                      [Next]_vars
               PROVE  SeenInv'
    OBVIOUS
  <1> USE DEF listVars, poolVars, dataVars, threadVars, histVars
  <1>0. /\ pc \in [Threads -> {"out", "asleep", "woken", "expired", "done"}]
        /\ seen \in [Threads -> Int] /\ ready \in Seq(Nodes) /\ Len(ready) \in Nat
    BY DEF TypeOK
  <1>1. ASSUME UNCHANGED <<seen, ready>>, life' # "none" \/ UNCHANGED life,
               \A t \in Threads : InWait(t)' => InWait(t) \/ seen[t] = 0
        PROVE  SeenInv'
    BY <1>1 DEF SeenInv, CountStillThere
  <1>2. ASSUME NEW t \in Threads, Uses[t] \ {"put"} # {}, life' # "none",
               NEW s \in {"out", "done"}, pc' = [pc EXCEPT ![t] = s],
               UNCHANGED ready, UNCHANGED seen \/ seen' = [seen EXCEPT ![t] = Len(ready)]
        PROVE  SeenInv'
    BY <1>0, <1>2, SMTT(30) DEF SeenInv, CountStillThere, InWait
  <1>3. ASSUME NEW t \in Threads, life' # "none", seen' = [seen EXCEPT ![t] = 0],
               \A u \in Threads \ {t} : pc'[u] = pc[u], UNCHANGED ready
        PROVE  SeenInv'
    BY <1>0, <1>3 DEF SeenInv, CountStillThere, InWait
  <1>4. ASSUME NEW t \in Threads, Uses[t] \ {"put"} # {}, life' # "none", Fetch(t),
               ready # <<>>, seen' = [seen EXCEPT ![t] = 0] \/ (InWait(t) /\ UNCHANGED seen)
        PROVE  SeenInv'
    <2>1. \A u \in Threads \ {t} : seen[u] = 0 BY <1>4 DEF OneConsumer, SeenInv
    <2>2. \A u \in Threads : seen'[u] = 0 BY <1>0, <1>4, <2>1 DEF SeenInv
    <2>3. Len(ready') \in Nat BY <1>0, <1>4 DEF Fetch
    <2> QED BY <1>4, <2>2, <2>3 DEF SeenInv, CountStillThere
  <1>5. ASSUME life = "live" PROVE mMsgCnt = Len(ready)
    BY <1>5 DEF QueueInv, ListInv, CountInReady
  <1>6. ASSUME NEW t \in Threads, InWait(t) PROVE Uses[t] \ {"put"} # {}
    BY <1>6 DEF WaitsUsed, Waits
  <1>7. CASE UNCHANGED vars BY <1>1, <1>7 DEF vars, InWait
  <1>8. CASE MessageCreate
    <2>1. /\ \A t \in Threads : seen[t] = 0
          /\ UNCHANGED seen /\ ready' = <<>> /\ life = "none"
      BY <1>8 DEF MessageCreate, SeenInv
    <2> QED BY <2>1 DEF SeenInv, CountStillThere
  <1>9. CASE MessageDestroy
    <2>1. (\A t \in Threads : seen'[t] = 0) /\ ready' = <<>>
      BY <1>9 DEF MessageDestroy
    <2> QED BY <2>1 DEF SeenInv, CountStillThere
  <1>10. ASSUME NEW t \in Threads, NEW m \in Msgs, PutMessage(t, m) PROVE SeenInv'
    <2>1. /\ life = "live" /\ life' = life /\ seen' = [seen EXCEPT ![t] = 0]
      BY <1>10 DEF PutMessage, Calling
    <2>2. \A u \in Threads : InWait(u)' => InWait(u)
      <3>1. UNCHANGED pc \/ Signal BY <1>10 DEF PutMessage, PutInto
      <3> QED BY <1>0, <3>1 DEF Signal, InWait, Asleep
    <2>3. Len(ready') >= Len(ready)
      <3>1. UNCHANGED ready \/ \E n : ready' = Append(ready, n)
        BY <1>10 DEF PutMessage, PutInto
      <3> QED BY <1>0, <3>1
    <2>4. Len(ready') \in Nat
      <3>1. UNCHANGED ready \/ \E n : ready' = Append(ready, n)
        BY <1>10 DEF PutMessage, PutInto
      <3> QED BY <1>0, <3>1
    <2>5. ASSUME NEW u \in Threads PROVE seen'[u] <= Len(ready')
      <3>1. CASE u = t BY <1>0, <2>1, <2>4, <3>1
      <3>2. CASE u # t
        <4>1. seen'[u] = seen[u] /\ seen[u] <= Len(ready) /\ seen[u] \in Int
          BY <1>0, <2>1, <3>2 DEF SeenInv, CountStillThere
        <4> QED BY <1>0, <2>3, <2>4, <4>1
      <3> QED BY <3>1, <3>2
    <2> QED BY <1>0, <2>1, <2>2, <2>5 DEF SeenInv, CountStillThere
  <1>11. ASSUME NEW t \in Threads, GetMessage(t) PROVE SeenInv'
    <2>1. life = "live" /\ Uses[t] \ {"put"} # {} /\ seen' = [seen EXCEPT ![t] = 0]
      BY <1>11 DEF GetMessage, Calling
    <2>2. CASE ready # <<>> /\ Fetch(t)
      <3>1. life' # "none" BY <2>1, <2>2 DEF Fetch
      <3> QED BY <1>4, <2>1, <2>2, <3>1
    <2>3. CASE ready = <<>> /\ UNCHANGED <<life, listVars, out, delivered, pc>>
      BY <1>3, <2>1, <2>3
    <2> QED BY <1>11, <2>2, <2>3 DEF GetMessage
  <1>12. ASSUME NEW t \in Threads, GetMessageCount(t) PROVE SeenInv'
    <2>1. /\ life = "live" /\ life' = life /\ Uses[t] \ {"put"} # {} /\ pc[t] = "out"
          /\ seen' = [seen EXCEPT ![t] = mMsgCnt] /\ UNCHANGED <<pc, ready>>
      BY <1>12 DEF GetMessageCount, Calling
    <2>2. pc' = [pc EXCEPT ![t] = "out"] BY <1>0, <2>1
    <2> QED BY <1>2, <1>5, <2>1, <2>2
  <1>13. ASSUME NEW t \in Threads, WaitMessage(t) PROVE SeenInv'
    <2>1. life = "live" /\ Uses[t] \ {"put"} # {} /\ seen' = [seen EXCEPT ![t] = 0]
      BY <1>13 DEF WaitMessage, Calling
    <2>2. CASE ready # <<>> /\ Fetch(t)
      <3>1. life' # "none" BY <2>1, <2>2 DEF Fetch
      <3> QED BY <1>4, <2>1, <2>2, <3>1
    <2>3. CASE Sleep(t, "wait") /\ UNCHANGED <<life, listVars, out, delivered>>
      BY <1>0, <1>3, <2>1, <2>3 DEF Sleep
    <2> QED BY <1>13, <2>2, <2>3 DEF WaitMessage
  <1>14. ASSUME NEW t \in Threads, TimedWaitMessage(t) PROVE SeenInv'
    BY <1>0, <1>3, <1>14 DEF TimedWaitMessage, Calling, Sleep
  <1>15. ASSUME NEW t \in Threads, NEW c \in {"dry", "tdry"}, DryWait(t, c)
         PROVE  SeenInv'
    <2>1. /\ life = "live" /\ life' = life /\ Uses[t] \ {"put"} # {} /\ pc[t] = "out"
          /\ UNCHANGED ready
      BY <1>15 DEF DryWait, Calling
    <2>2. CASE UNCHANGED pc /\ seen' = [seen EXCEPT ![t] = mMsgCnt]
      <3>1. pc' = [pc EXCEPT ![t] = "out"] BY <1>0, <2>1, <2>2
      <3> QED BY <1>2, <1>5, <2>1, <2>2, <3>1
    <2>3. CASE Sleep(t, c) /\ seen' = [seen EXCEPT ![t] = 0]
      BY <1>0, <1>3, <2>1, <2>3 DEF Sleep
    <2> QED BY <1>15, <2>2, <2>3 DEF DryWait
  <1>16. ASSUME NEW t \in Threads, Expire(t) \/ WakeSpuriously(t) PROVE SeenInv'
    BY <1>0, <1>1, <1>16 DEF Expire, WakeSpuriously, InWait
  <1>17. ASSUME NEW t \in Threads, ResumeWait(t) PROVE SeenInv'
    <2>1. life = "live" /\ InWait(t) /\ UNCHANGED seen BY <1>17 DEF ResumeWait, InWait
    <2>2. CASE ready # <<>> /\ Fetch(t)
      <3>1. life' # "none" BY <2>1, <2>2 DEF Fetch
      <3> QED BY <1>4, <1>6, <2>1, <2>2, <3>1
    <2>3. CASE pc' = [pc EXCEPT ![t] = "asleep"] /\ UNCHANGED <<life, listVars>>
      BY <1>0, <1>1, <2>1, <2>3 DEF InWait
    <2> QED BY <1>17, <2>2, <2>3 DEF ResumeWait
  <1>18. ASSUME NEW t \in Threads, ResumeTimedWait(t) PROVE SeenInv'
    <2>1. life = "live" /\ InWait(t) /\ UNCHANGED seen
      BY <1>18 DEF ResumeTimedWait, InWait
    <2>2. CASE ready # <<>> /\ Fetch(t)
      <3>1. life' # "none" BY <2>1, <2>2 DEF Fetch
      <3> QED BY <1>4, <1>6, <2>1, <2>2, <3>1
    <2>3. CASE FetchFromHead(t)
      BY <1>2, <1>6, <2>1, <2>3 DEF FetchFromHead
    <2>4. CASE pc' = [pc EXCEPT ![t] = "out"] /\ UNCHANGED <<life, listVars>>
      BY <1>2, <1>6, <2>1, <2>4
    <2> QED BY <1>18, <2>2, <2>3, <2>4 DEF ResumeTimedWait
  <1>19. ASSUME NEW t \in Threads, ResumeDryWait(t) PROVE SeenInv'
    <2>1. life = "live" /\ life' = life /\ UNCHANGED ready /\ InWait(t)
      BY <1>19 DEF ResumeDryWait, InWait
    <2>2. CASE seen' = [seen EXCEPT ![t] = mMsgCnt] /\ pc' = [pc EXCEPT ![t] = "out"]
      BY <1>2, <1>5, <1>6, <2>1, <2>2
    <2>3. CASE UNCHANGED seen /\ pc' = [pc EXCEPT ![t] = "asleep"]
      BY <1>0, <1>1, <2>1, <2>3 DEF InWait
    <2> QED BY <1>19, <2>2, <2>3 DEF ResumeDryWait
  <1>20. ASSUME NEW t \in Threads, Release(t) PROVE SeenInv'
    BY <1>0, <1>1, <1>20 DEF Release, InWait
  <1> QED BY <1>7, <1>8, <1>9, <1>10, <1>11, <1>12, <1>13, <1>14, <1>15, <1>16,
             <1>17, <1>18, <1>19, <1>20 DEF Next

\* The count the one consumer was told, by dry_wait_message_queue or by
\* get_message_count, is a promise: as many messages are there at its next
\* call, whatever the producers do in between, and however often its waits
\* woke up, expired and slept on before.
THEOREM CountsStay == OneConsumer /\ Spec => []CountStillThere
  <1> SUFFICES ASSUME OneConsumer PROVE Spec => []CountStillThere OBVIOUS
  <1>1. Init => OutInv /\ WaitsUsed /\ SeenInv
    BY DEF Init, OutInv, WaitsUsed, SeenInv, InWait, CountStillThere
  <1>2. SeenInv => CountStillThere BY DEF SeenInv
  <1>3. TypeOK /\ QueueInv /\ OutInv /\ WaitsUsed /\ SeenInv /\ [Next]_vars => SeenInv'
    BY NextSeenInv
  <1> QED BY <1>1, <1>2, <1>3, TypeCorrect, InitQueueInv, NextQueueInv, NextOutInv,
             NextWaitsUsed, PTL DEF Spec
-----------------------------------------------------------------------------
\* The inductive invariant of a queue with one consumer that is only woken by
\* signals: it is woken beside a message, and one that is done with a wait is
\* a consumer.
WokenInv ==
    /\ FetchFromNonEmpty
    /\ \A t \in Threads : pc[t] = "woken" => ready # <<>>
    /\ \A t \in Threads : pc[t] = "done" => Uses[t] \ {"put"} # {}
    /\ MessageStillThere

\* The message of a node in the ready list is one that was put.
LEMMA FetchedMessage ==
    ASSUME TypeOK, QueueInv, life = "live", NEW t \in Threads, ready # <<>>, Fetch(t)
    PROVE  out'[t] # NoMessage
  <1>1. /\ ready \in Seq(Nodes) /\ Len(ready) \in Nat \ {0} /\ Head(ready) = ready[1]
        /\ accepted \in Seq(Msgs) /\ Len(delivered) \in Nat
        /\ out \in [Threads -> OutType]
    BY DEF TypeOK
  <1>2. Conserved BY DEF QueueInv, ListInv
  <1>3. /\ node[Head(ready)].msg = accepted[Len(delivered) + 1]
        /\ Len(delivered) + 1 \in 1..Len(accepted)
    BY <1>1, <1>2 DEF Conserved
  <1>4. node[Head(ready)].msg \in Msgs BY <1>1, <1>3
  <1>5. out'[t].msg = node[Head(ready)].msg BY <1>1 DEF Fetch
  <1>6. NoMessage.msg = NULL BY DEF NoMessage
  <1> QED BY <1>4, <1>5, <1>6, QueueAssumption

\* Every step keeps it: a put signals only when it has made a message ready,
\* and nobody but the woken thread itself takes messages.
LEMMA NextWokenInv ==
    OneConsumer /\ ~SpuriousWakeups /\ TypeOK /\ QueueInv /\ OutInv /\ WaitsUsed
        /\ WokenInv /\ [Next]_vars => WokenInv'
  <1> SUFFICES ASSUME OneConsumer, ~SpuriousWakeups, TypeOK, QueueInv, OutInv,
                      WaitsUsed, WokenInv, [Next]_vars
               PROVE  WokenInv'
    OBVIOUS
  <1> USE DEF listVars, poolVars, dataVars, threadVars, histVars
  <1>0. /\ pc \in [Threads -> {"out", "asleep", "woken", "expired", "done"}]
        /\ out \in [Threads -> OutType] /\ ready \in Seq(Nodes)
        /\ life # "corrupt"
    BY DEF TypeOK, WokenInv, FetchFromNonEmpty
  <1>1. ASSUME UNCHANGED <<pc, out, ready>>, life' # "corrupt" PROVE WokenInv'
    BY <1>1 DEF WokenInv, FetchFromNonEmpty, MessageStillThere
  <1>2. ASSUME NEW t \in Threads, NEW s \in {"out", "asleep", "expired"},
               pc' = [pc EXCEPT ![t] = s], UNCHANGED <<out, ready, life>>
        PROVE  WokenInv'
    BY <1>0, <1>2 DEF WokenInv, FetchFromNonEmpty, MessageStillThere
  <1>3. ASSUME \A t \in Threads : pc[t] = "out", UNCHANGED pc, life' # "corrupt"
        PROVE  WokenInv'
    BY <1>3 DEF WokenInv, FetchFromNonEmpty, MessageStillThere
  <1>4. ASSUME NEW t \in Threads, Uses[t] \ {"put"} # {}, life = "live",
               ready # <<>>, Fetch(t)
        PROVE  WokenInv'
    <2>1. \A u \in Threads \ {t} : pc[u] \notin {"woken", "done"}
      <3> SUFFICES ASSUME NEW u \in Threads \ {t}, pc[u] \in {"woken", "done"}
                   PROVE  FALSE
        OBVIOUS
      <3>1. Uses[u] \ {"put"} # {} BY DEF WokenInv, WaitsUsed, InWait, Waits
      <3> QED BY <1>4, <3>1 DEF OneConsumer
    <2>2. pc' = [pc EXCEPT ![t] = "done"] /\ life' = life BY <1>4 DEF Fetch
    <2>3. out'[t] # NoMessage BY <1>4, FetchedMessage
    <2> QED BY <1>0, <1>4, <2>1, <2>2, <2>3
            DEF WokenInv, FetchFromNonEmpty, MessageStillThere
  <1>5. ASSUME NEW t \in Threads, InWait(t) PROVE Uses[t] \ {"put"} # {}
    BY <1>5 DEF WaitsUsed, Waits
  <1>6. CASE UNCHANGED vars BY <1>0, <1>1, <1>6 DEF vars
  <1>7. CASE MessageCreate
    <2>1. (\A t \in Threads : pc[t] = "out") /\ UNCHANGED pc
      BY <1>7 DEF MessageCreate, OutInv
    <2>2. life' # "corrupt" BY <1>7 DEF MessageCreate
    <2> QED BY <1>3, <2>1, <2>2
  <1>8. CASE MessageDestroy BY <1>3, <1>8 DEF MessageDestroy
  <1>9. ASSUME NEW t \in Threads, NEW m \in Msgs, PutMessage(t, m) PROVE WokenInv'
    <2>1. UNCHANGED <<out, life>> BY <1>9 DEF PutMessage
    <2>2. UNCHANGED <<pc, ready>> \/ (Signal /\ \E n : ready' = Append(ready, n))
      BY <1>9 DEF PutMessage, PutInto
    <2>3. CASE UNCHANGED <<pc, ready>> BY <1>0, <1>1, <2>1, <2>3
    <2>4. CASE Signal /\ \E n : ready' = Append(ready, n)
      <3>1. ready' # <<>> BY <1>0, <2>4
      <3>2. \A u \in Threads : pc'[u] = "done" => pc[u] = "done"
        BY <1>0, <2>4 DEF Signal
      <3> QED BY <1>0, <2>1, <3>1, <3>2
              DEF WokenInv, FetchFromNonEmpty, MessageStillThere
    <2> QED BY <2>2, <2>3, <2>4
  <1>10. ASSUME NEW t \in Threads, GetMessage(t) PROVE WokenInv'
    <2>1. life = "live" /\ Uses[t] \ {"put"} # {} BY <1>10 DEF GetMessage, Calling
    <2> QED BY <1>0, <1>1, <1>4, <1>10, <2>1 DEF GetMessage
  <1>11. ASSUME NEW t \in Threads, GetMessageCount(t) PROVE WokenInv'
    BY <1>0, <1>1, <1>11 DEF GetMessageCount
  <1>12. ASSUME NEW t \in Threads, WaitMessage(t) PROVE WokenInv'
    <2>1. life = "live" /\ Uses[t] \ {"put"} # {} BY <1>12 DEF WaitMessage, Calling
    <2>2. CASE ready # <<>> /\ Fetch(t) BY <1>4, <2>1, <2>2
    <2>3. CASE Sleep(t, "wait") /\ UNCHANGED <<life, listVars, out, delivered>>
      BY <1>2, <2>3 DEF Sleep
    <2> QED BY <1>12, <2>2, <2>3 DEF WaitMessage
  <1>13. ASSUME NEW t \in Threads, TimedWaitMessage(t) PROVE WokenInv'
    <2>1. Uses[t] \ {"put"} # {} /\ UNCHANGED <<life, ready, out>>
      BY <1>13 DEF TimedWaitMessage, Calling
    <2>2. CASE ready # <<>> /\ pc' = [pc EXCEPT ![t] = "done"]
      BY <1>0, <2>1, <2>2 DEF WokenInv, FetchFromNonEmpty, MessageStillThere
    <2>3. CASE Sleep(t, "twait") BY <1>2, <2>1, <2>3 DEF Sleep
    <2> QED BY <1>13, <2>2, <2>3 DEF TimedWaitMessage
  <1>14. ASSUME NEW t \in Threads, NEW c \in {"dry", "tdry"}, DryWait(t, c)
         PROVE  WokenInv'
    <2>1. UNCHANGED <<life, ready, out>> BY <1>14 DEF DryWait
    <2>2. CASE UNCHANGED pc BY <1>0, <1>1, <2>1, <2>2
    <2>3. CASE Sleep(t, c) BY <1>2, <2>1, <2>3 DEF Sleep
    <2> QED BY <1>14, <2>2, <2>3 DEF DryWait
  <1>15. ASSUME NEW t \in Threads, Expire(t) PROVE WokenInv'
    BY <1>2, <1>15 DEF Expire
  <1>16. ASSUME NEW t \in Threads, WakeSpuriously(t) PROVE WokenInv'
    BY <1>16 DEF WakeSpuriously
  <1>17. ASSUME NEW t \in Threads, ResumeWait(t) PROVE WokenInv'
    <2>1. life = "live" /\ InWait(t) BY <1>17 DEF ResumeWait, InWait
    <2>2. CASE ready # <<>> /\ Fetch(t) BY <1>4, <1>5, <2>1, <2>2
    <2>3. CASE pc' = [pc EXCEPT ![t] = "asleep"] /\ UNCHANGED <<life, listVars, out>>
      BY <1>2, <2>3
    <2> QED BY <1>17, <2>2, <2>3 DEF ResumeWait
  <1>18. ASSUME NEW t \in Threads, ResumeTimedWait(t) PROVE WokenInv'
    <2>1. life = "live" /\ InWait(t) BY <1>18 DEF ResumeTimedWait, InWait
    <2>2. CASE ready # <<>> /\ Fetch(t) BY <1>4, <1>5, <2>1, <2>2
    <2>3. CASE pc[t] = "woken" /\ ready = <<>> BY <2>3 DEF WokenInv
    <2>4. CASE pc' = [pc EXCEPT ![t] = "out"] /\ UNCHANGED <<life, listVars, out>>
      BY <1>2, <2>4
    <2> QED BY <1>18, <2>2, <2>3, <2>4 DEF ResumeTimedWait
  <1>19. ASSUME NEW t \in Threads, ResumeDryWait(t) PROVE WokenInv'
    BY <1>2, <1>19 DEF ResumeDryWait
  <1>20. ASSUME NEW t \in Threads, Release(t) PROVE WokenInv'
    BY <1>0, <1>20 DEF Release, WokenInv, FetchFromNonEmpty, MessageStillThere
  <1> QED BY <1>6, <1>7, <1>8, <1>9, <1>10, <1>11, <1>12, <1>13, <1>14, <1>15, <1>16,
             <1>17, <1>18, <1>19, <1>20 DEF Next

\* With one consumer and no spurious wakeups WokenInv holds.
LEMMA WokenBesideMessage == OneConsumer /\ ~SpuriousWakeups /\ Spec => []WokenInv
  <1> SUFFICES ASSUME OneConsumer, ~SpuriousWakeups PROVE Spec => []WokenInv OBVIOUS
  <1>1. Init => OutInv /\ WaitsUsed /\ WokenInv
    BY DEF Init, OutInv, WaitsUsed, WokenInv, InWait, FetchFromNonEmpty,
           MessageStillThere
  <1>2. TypeOK /\ QueueInv /\ OutInv /\ WaitsUsed /\ WokenInv /\ [Next]_vars
            => WokenInv'
    BY NextWokenInv
  <1> QED BY <1>1, <1>2, TypeCorrect, InitQueueInv, NextQueueInv, NextOutInv,
             NextWaitsUsed, PTL DEF Spec

\* The timed wait does not test the ready list again after it was signalled.
\* With one consumer that only signals wake up it need not: no wait fetches
\* from an empty list, however signals, deadlines, failed copies and the puts
\* of any number of producers meet.
THEOREM NeverFetchFromEmpty ==
    OneConsumer /\ ~SpuriousWakeups /\ Spec => []FetchFromNonEmpty
  <1>1. WokenInv => FetchFromNonEmpty BY DEF WokenInv
  <1> QED BY <1>1, WokenBesideMessage, PTL

\* A timed wait that returned 0 without a message lost none: the one it saw is
\* there for the consumer's next call.
THEOREM SeenMessageStays ==
    OneConsumer /\ ~SpuriousWakeups /\ Spec => []MessageStillThere
  <1>1. WokenInv => MessageStillThere BY DEF WokenInv
  <1> QED BY <1>1, WokenBesideMessage, PTL

\* The queue implements the first-in first-out channel, for every number of
\* producers and messages: with any number of consumers and however woken,
\* when no thread uses the timed wait; with it, when one thread consumes and
\* only signals wake it.
THEOREM ImplementsFifo ==
    (NoTimedWait \/ (OneConsumer /\ ~SpuriousWakeups)) /\ Spec => FifoSpec
  <1>1. Init => Fifo!Init BY DEF Init, Fifo!Init
  <1>2. NoTimedWait /\ Spec => []FetchFromNonEmpty
    <2> SUFFICES ASSUME NoTimedWait PROVE Spec => []FetchFromNonEmpty OBVIOUS
    <2>1. Init => CallInv BY DEF Init, CallInv, CallsUsed, FetchFromNonEmpty
    <2>2. CallInv => FetchFromNonEmpty BY DEF CallInv
    <2>3. TypeOK /\ CallInv /\ [Next]_vars => CallInv' BY NextCallInv
    <2> QED BY <2>1, <2>2, <2>3, TypeCorrect, PTL DEF Spec
  <1>3. Spec /\ []FetchFromNonEmpty => FifoSpec
    BY <1>1, NextFifo, TypeCorrect, InitQueueInv, NextQueueInv, PTL
       DEF Spec, FifoSpec, Fifo!Spec
  <1> QED BY <1>2, <1>3, NeverFetchFromEmpty, PTL
=============================================================================

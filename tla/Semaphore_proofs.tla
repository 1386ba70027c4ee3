-------------------------- MODULE Semaphore_proofs --------------------------
(***************************************************************************)
(* What holds of the semaphore for any number of threads, whatever they    *)
(* call: its types, one woken thread for each unit while threads sleep,    *)
(* and that mm_sem_up_unique makes no second unit.                         *)
(***************************************************************************)
EXTENDS Semaphore, FiniteSetTheorems, TLAPS

\* Threads in mm_sem_wait are threads that use it: where none does, every
\* sleeping thread is in mm_sem_down.
WaitersUseWait == \A t \in Threads : call[t] = "wait" => "wait" \in uses[t]

\* What a signal does to the threads: nothing when none sleeps, else one of
\* them is woken.
LEMMA SignalWakesOne ==
    ASSUME TypeOK, Signal
    PROVE  /\ pc' \in [Threads -> {"out", "asleep", "woken"}]
           /\ \/ Asleep = {} /\ pc' = pc
              \/ \E w \in Asleep : pc' = [pc EXCEPT ![w] = "woken"]
BY DEF Signal, TypeOK, Asleep

\* The types hold from the start and are kept by every function.
THEOREM TypeCorrect == Spec => []TypeOK
<1>1. Init => TypeOK
  BY SemaphoreAssumption DEF Init, TypeOK
<1>2. TypeOK /\ [Next]_vars => TypeOK'
  <2> SUFFICES ASSUME TypeOK, [Next]_vars PROVE TypeOK'
    OBVIOUS
  <2> USE DEF TypeOK
  <2>1. ASSUME NEW t \in Threads, Down(t) PROVE TypeOK'
    BY <2>1, SemaphoreAssumption DEF Down, Calling, Sleep
  <2>2. ASSUME NEW t \in Threads, Up(t) PROVE TypeOK'
    BY <2>2, SignalWakesOne, SemaphoreAssumption DEF Up, Calling
  <2>3. ASSUME NEW t \in Threads, UpUnique(t) PROVE TypeOK'
    BY <2>3, SignalWakesOne, SemaphoreAssumption DEF UpUnique, Calling
  <2>4. ASSUME NEW t \in Threads, Reset(t) PROVE TypeOK'
    BY <2>4, SemaphoreAssumption DEF Reset, Calling
  <2>5. ASSUME NEW t \in Threads, Wait(t) PROVE TypeOK'
    BY <2>5 DEF Wait, Calling, Sleep
  <2>6. ASSUME NEW t \in Threads, SignalWaiter(t) PROVE TypeOK'
    BY <2>6, SignalWakesOne DEF SignalWaiter, Calling
  <2>7. ASSUME NEW t \in Threads, WakeSpuriously(t) PROVE TypeOK'
    BY <2>7 DEF WakeSpuriously
  <2>8. ASSUME NEW t \in Threads, ResumeDown(t) PROVE TypeOK'
    BY <2>8, SemaphoreAssumption DEF ResumeDown, Return
  <2>9. ASSUME NEW t \in Threads, ResumeWait(t) PROVE TypeOK'
    BY <2>9 DEF ResumeWait, Return
  <2>10. CASE UNCHANGED vars
    BY <2>10 DEF vars
  <2> QED
    BY <2>1, <2>2, <2>3, <2>4, <2>5, <2>6, <2>7, <2>8, <2>9, <2>10 DEF Next
<1> QED
  BY <1>1, <1>2, PTL DEF Spec

-----------------------------------------------------------------------------
\* The sets of sleeping and woken threads are finite, and a thread that goes
\* from one to the other changes the count by one.
LEMMA WokenIsFinite == IsFiniteSet(Woken) /\ IsFiniteSet(Woken') /\ Cardinality(Woken) \in Nat
<1>1. Woken \subseteq Threads /\ Woken' \subseteq Threads
  BY DEF Woken
<1> QED
  BY <1>1, SemaphoreAssumption, FS_Subset, FS_CardinalityType

\* A thread that is woken is one more of the woken.
LEMMA OneMoreWoken ==
    ASSUME TypeOK, NEW w \in Asleep, pc' = [pc EXCEPT ![w] = "woken"]
    PROVE  Cardinality(Woken') = Cardinality(Woken) + 1 /\ Asleep' \subseteq Asleep
<1>1. Woken' = Woken \cup {w} /\ w \notin Woken /\ Asleep' \subseteq Asleep
  BY DEF Woken, Asleep, TypeOK
<1> QED
  BY <1>1, WokenIsFinite, FS_AddElement

\* One that takes a unit is one less.
LEMMA OneLessWoken ==
    ASSUME TypeOK, NEW t \in Woken, pc' = [pc EXCEPT ![t] = "out"]
    PROVE  Cardinality(Woken') = Cardinality(Woken) - 1 /\ Asleep' = Asleep
<1>1. Woken' = Woken \ {t} /\ Asleep' = Asleep
  BY DEF Woken, Asleep, TypeOK
<1> QED
  BY <1>1, WokenIsFinite, FS_RemoveElement

\* A call that wakes at most one thread, and makes at most a unit when it
\* wakes one, keeps a woken thread for each unit.
LEMMA SignalKeepsWakeups ==
    ASSUME TypeOK, Asleep # {} => Cardinality(Woken) >= sem_val, Signal,
           sem_val' \in {sem_val, sem_val + 1}
    PROVE  Asleep' # {} => Cardinality(Woken') >= sem_val'
<1>1. CASE Asleep = {}
  <2>1. pc' = pc
    BY <1>1 DEF Signal
  <2> QED
    BY <2>1, <1>1 DEF Asleep
<1>2. CASE Asleep # {}
  <2>1. PICK w \in Asleep : pc' = [pc EXCEPT ![w] = "woken"]
    BY <1>2 DEF Signal
  <2>2. Cardinality(Woken') = Cardinality(Woken) + 1
    BY <2>1, OneMoreWoken
  <2> QED
    BY <1>2, <2>2, WokenIsFinite DEF TypeOK
<1> QED
  BY <1>1, <1>2

\* While threads sleep in mm_sem_down, every unit has a woken thread on its
\* way to it: a signal of mm_sem_up is never spent on nothing.
THEOREM WakeupForEachUnit == Spec => []WakeupPerUnit
<1> DEFINE IInv == WaitersUseWait /\ WakeupPerUnit
<1>1. Init => IInv
  BY DEF Init, WaitersUseWait, WakeupPerUnit, Asleep
<1>2. TypeOK /\ TypeOK' /\ IInv /\ [Next]_vars => IInv'
  <2> SUFFICES ASSUME TypeOK, TypeOK', IInv, [Next]_vars PROVE IInv'
    OBVIOUS
  <2>1. uses' = uses /\ WaitersUseWait'
    BY DEF Next, vars, Down, Up, UpUnique, Reset, Wait, SignalWaiter, WakeSpuriously,
       ResumeDown, ResumeWait, Calling, Sleep, Return, WaitersUseWait, TypeOK
  <2> SUFFICES ASSUME SemaphoreOnly, Asleep' # {} PROVE Cardinality(Woken') >= sem_val'
    BY <2>1 DEF WakeupPerUnit, SemaphoreOnly
  <2>2. Asleep # {} => Cardinality(Woken) >= sem_val
    BY DEF WakeupPerUnit
  <2>3. sem_val \in Nat /\ sem_val' \in Nat /\ Cardinality(Woken') \in Nat
    BY SemaphoreAssumption, WokenIsFinite, FS_CardinalityType DEF TypeOK
  <2>4. ASSUME NEW t \in Threads, Down(t) PROVE Cardinality(Woken') >= sem_val'
    <3>1. CASE sem_val = 0
      BY <3>1, <2>4, <2>3 DEF Down, TypeOK
    <3>2. CASE sem_val # 0
      <4>1. sem_val' = sem_val - 1 /\ pc' = pc
        BY <3>2, <2>4 DEF Down
      <4>2. Woken' = Woken /\ Asleep' = Asleep
        BY <4>1 DEF Woken, Asleep
      <4> QED
        BY <4>1, <4>2, <2>2, <2>3, WokenIsFinite
    <3> QED
      BY <3>1, <3>2
  <2>5. ASSUME NEW t \in Threads, Up(t) PROVE Cardinality(Woken') >= sem_val'
    BY <2>5, <2>2, SignalKeepsWakeups DEF Up
  <2>6. ASSUME NEW t \in Threads, UpUnique(t) PROVE Cardinality(Woken') >= sem_val'
    <3>1. CASE sem_val = 0
      BY <3>1, <2>6, <2>2, SignalKeepsWakeups DEF UpUnique
    <3>2. CASE sem_val # 0
      <4>1. Woken' = Woken /\ Asleep' = Asleep /\ sem_val' = sem_val
        BY <3>2, <2>6 DEF UpUnique, Woken, Asleep
      <4> QED
        BY <4>1, <2>2
    <3> QED
      BY <3>1, <3>2
  <2>7. ASSUME NEW t \in Threads, Reset(t) PROVE Cardinality(Woken') >= sem_val'
    BY <2>7, <2>3 DEF Reset
  <2>8. ASSUME NEW t \in Threads, Wait(t) PROVE FALSE
    BY <2>8 DEF Wait, Calling, SemaphoreOnly
  <2>9. ASSUME NEW t \in Threads, SignalWaiter(t) PROVE Cardinality(Woken') >= sem_val'
    BY <2>9, <2>2, SignalKeepsWakeups DEF SignalWaiter
  <2>10. ASSUME NEW t \in Threads, WakeSpuriously(t) PROVE Cardinality(Woken') >= sem_val'
    <3>1. t \in Asleep /\ pc' = [pc EXCEPT ![t] = "woken"] /\ sem_val' = sem_val
      BY <2>10 DEF WakeSpuriously, Asleep
    <3>2. Cardinality(Woken') = Cardinality(Woken) + 1
      BY <3>1, OneMoreWoken
    <3>3. Asleep # {}
      BY <3>1
    <3> QED
      BY <3>1, <3>2, <3>3, <2>2, <2>3, WokenIsFinite
  <2>11. ASSUME NEW t \in Threads, ResumeDown(t) PROVE Cardinality(Woken') >= sem_val'
    <3>1. CASE sem_val = 0
      BY <3>1, <2>11, <2>3 DEF ResumeDown, TypeOK
    <3>2. CASE sem_val # 0
      <4>1. t \in Woken /\ pc' = [pc EXCEPT ![t] = "out"] /\ sem_val' = sem_val - 1
        BY <3>2, <2>11 DEF ResumeDown, Return, Woken
      <4>2. Cardinality(Woken') = Cardinality(Woken) - 1 /\ Asleep' = Asleep
        BY <4>1, OneLessWoken
      <4> QED
        BY <4>1, <4>2, <2>2, <2>3, WokenIsFinite
    <3> QED
      BY <3>1, <3>2
  <2>12. ASSUME NEW t \in Threads, ResumeWait(t) PROVE FALSE
    BY <2>12 DEF ResumeWait, SemaphoreOnly, WaitersUseWait
  <2>13. CASE UNCHANGED vars
    <3>1. Woken' = Woken /\ Asleep' = Asleep /\ sem_val' = sem_val
      BY <2>13 DEF vars, Woken, Asleep
    <3> QED
      BY <3>1, <2>2
  <2> QED
    BY <2>4, <2>5, <2>6, <2>7, <2>8, <2>9, <2>10, <2>11, <2>12, <2>13 DEF Next
<1>3. IInv => WakeupPerUnit
  OBVIOUS
<1> QED
  BY <1>1, <1>2, <1>3, TypeCorrect, PTL DEF Spec

\* However mm_sem_up_unique, down and reset follow each other, no second unit
\* comes about where mm_sem_up is not used.
THEOREM UniqueIsBinary == Spec => UniqueStaysBinary
<1> DEFINE Step == (\A t \in Threads : "up" \notin uses[t]) /\ sem_val <= 1 => sem_val' <= 1
<1>1. TypeOK /\ [Next]_vars => [Step]_vars
  <2> SUFFICES ASSUME TypeOK, [Next]_vars, \A t \in Threads : "up" \notin uses[t], sem_val <= 1
               PROVE sem_val' <= 1
    OBVIOUS
  <2>1. sem_val \in Nat
    BY SemaphoreAssumption DEF TypeOK
  <2>2. ASSUME NEW t \in Threads, Down(t) \/ ResumeDown(t) PROVE sem_val' <= 1
    BY <2>1, <2>2 DEF Down, ResumeDown
  <2>3. ASSUME NEW t \in Threads, Up(t) PROVE FALSE
    BY <2>3 DEF Up, Calling
  <2>4. ASSUME NEW t \in Threads, UpUnique(t) PROVE sem_val' <= 1
    BY <2>1, <2>4 DEF UpUnique
  <2>5. ASSUME NEW t \in Threads,
               Reset(t) \/ Wait(t) \/ SignalWaiter(t) \/ WakeSpuriously(t) \/ ResumeWait(t)
        PROVE sem_val' <= 1
    BY <2>5 DEF Reset, Wait, SignalWaiter, WakeSpuriously, ResumeWait
  <2>6. CASE UNCHANGED vars
    BY <2>6 DEF vars
  <2> QED
    BY <2>2, <2>3, <2>4, <2>5, <2>6 DEF Next
<1> QED
  BY <1>1, TypeCorrect, PTL DEF Spec, UniqueStaysBinary
=============================================================================

------------------------------ MODULE Semaphore ------------------------------
(***************************************************************************)
(* The semaphore of mm_foundations (srcs/mm_semaphore.c): a value and one  *)
(* condition variable, on which the threads blocked in mm_sem_down and     *)
(* those in mm_sem_wait sleep together.  A function is atomic up to        *)
(* pthread_cond_wait and from the wakeup on, because it holds the mutex.   *)
(***************************************************************************)
EXTENDS Integers, FiniteSets

CONSTANTS
    Threads,          \* the threads that share the semaphore
    Profiles,         \* the ways they may use it: functions they call
    InitVals,         \* the values mm_sem_init is called with
    MaxVal,           \* bound: the largest sem_val a run reaches
    SpuriousWakeups   \* whether pthread_cond_wait may return unsignalled

Calls == {"down", "up", "up_unique", "reset", "wait", "signal"}

ASSUME SemaphoreAssumption ==
    /\ IsFiniteSet(Threads)
    /\ Profiles \subseteq [Threads -> SUBSET Calls]
    /\ MaxVal \in Nat \ {0}
    /\ InitVals \subseteq 0..MaxVal
    /\ SpuriousWakeups \in BOOLEAN

VARIABLES
    uses,      \* the profile of this execution
    sem_val,
    pc,        \* "out", "asleep" on the condition, or "woken"
    call       \* the function a waiting thread is in

vars == <<uses, sem_val, pc, call>>

Asleep == {t \in Threads : pc[t] = "asleep"}
Woken == {t \in Threads : pc[t] = "woken"}

Init ==
    /\ uses \in Profiles
    /\ sem_val \in InitVals
    /\ pc = [t \in Threads |-> "out"]
    /\ call = [t \in Threads |-> "none"]

Calling(t, c) == pc[t] = "out" /\ c \in uses[t] /\ UNCHANGED uses

Signal ==
    IF Asleep # {}
    THEN \E w \in Asleep : pc' = [pc EXCEPT ![w] = "woken"]
    ELSE UNCHANGED pc

Sleep(t, c) ==
    /\ pc' = [pc EXCEPT ![t] = "asleep"]
    /\ call' = [call EXCEPT ![t] = c]

Return(t) ==
    /\ pc' = [pc EXCEPT ![t] = "out"]
    /\ call' = [call EXCEPT ![t] = "none"]

Down(t) ==
    /\ Calling(t, "down")
    /\ \/ sem_val = 0 /\ Sleep(t, "down") /\ UNCHANGED sem_val
       \/ sem_val # 0 /\ sem_val' = sem_val - 1 /\ UNCHANGED <<pc, call>>

\* Mutants of Up: it signals on the first unit only, or not at all.
UpSignalsFirst(t) ==
    /\ Calling(t, "up") /\ sem_val < MaxVal
    /\ sem_val' = sem_val + 1
    /\ \/ sem_val = 0 /\ Signal
       \/ sem_val # 0 /\ UNCHANGED pc
    /\ UNCHANGED call

UpUnsignalled(t) ==
    /\ Calling(t, "up") /\ sem_val < MaxVal
    /\ sem_val' = sem_val + 1 /\ UNCHANGED <<pc, call>>

Up(t) ==
    /\ Calling(t, "up") /\ sem_val < MaxVal
    /\ sem_val' = sem_val + 1
    /\ Signal /\ UNCHANGED call

\* Mutant of UpUnique: it tests for sleeping threads in place of the value.
UpUniqueForSleepers(t) ==
    /\ Calling(t, "up_unique") /\ sem_val < MaxVal
    /\ \/ sem_val = 0 \/ Asleep # {}
    /\ sem_val' = sem_val + 1 /\ Signal
    /\ UNCHANGED call

UpUnique(t) ==
    /\ Calling(t, "up_unique")
    /\ \/ sem_val = 0 /\ sem_val' = sem_val + 1 /\ Signal
       \/ sem_val # 0 /\ UNCHANGED <<sem_val, pc>>
    /\ UNCHANGED call

Reset(t) ==
    /\ Calling(t, "reset")
    /\ sem_val' = 0
    /\ UNCHANGED <<pc, call>>

Wait(t) ==
    /\ Calling(t, "wait")
    /\ Sleep(t, "wait") /\ UNCHANGED sem_val

SignalWaiter(t) ==
    /\ Calling(t, "signal")
    /\ Signal /\ UNCHANGED <<sem_val, call>>

WakeSpuriously(t) ==
    /\ SpuriousWakeups /\ pc[t] = "asleep"
    /\ pc' = [pc EXCEPT ![t] = "woken"]
    /\ UNCHANGED <<uses, sem_val, call>>

\* Mutant of ResumeDown: "if" in the place of "while".
ResumeDownUntested(t) ==
    /\ pc[t] = "woken" /\ call[t] = "down"
    /\ sem_val' = sem_val - 1 /\ Return(t)
    /\ UNCHANGED uses

\* mm_sem_down tests the value again, it may have been taken meanwhile.
ResumeDown(t) ==
    /\ pc[t] = "woken" /\ call[t] = "down"
    /\ \/ sem_val = 0 /\ pc' = [pc EXCEPT ![t] = "asleep"]
          /\ UNCHANGED <<sem_val, call>>
       \/ sem_val # 0 /\ sem_val' = sem_val - 1 /\ Return(t)
    /\ UNCHANGED uses

\* mm_sem_wait tests nothing: any wakeup ends it.
ResumeWait(t) ==
    /\ pc[t] = "woken" /\ call[t] = "wait"
    /\ Return(t) /\ UNCHANGED <<uses, sem_val>>

Resume(t) == ResumeDown(t) \/ ResumeWait(t)

Next == \E t \in Threads :
    \/ Down(t) \/ Up(t) \/ UpUnique(t) \/ Reset(t) \/ Wait(t)
    \/ SignalWaiter(t) \/ WakeSpuriously(t)
    \/ ResumeDown(t) \/ ResumeWait(t)

\* A woken thread gets the mutex, which nobody holds while sleeping.
Spec == Init /\ [][Next]_vars
FairSpec == Spec /\ \A t \in Threads : WF_vars(Resume(t))

-----------------------------------------------------------------------------
\* The types; a negative sem_val would never block a down again.
TypeOK ==
    /\ uses \in [Threads -> SUBSET Calls]
    /\ sem_val \in 0..MaxVal
    /\ pc \in [Threads -> {"out", "asleep", "woken"}]
    /\ call \in [Threads -> {"none", "down", "wait"}]

\* The semaphore is used as a semaphore only, without mm_sem_wait, whose
\* threads take signals meant for a thread in mm_sem_down.
SemaphoreOnly == \A t \in Threads : "wait" \notin uses[t]

\* While threads sleep in mm_sem_down, every unit of the value has a woken
\* thread on its way to it: one signal for each mm_sem_up is enough, in spite
\* of barging downs, resets and spurious wakeups.
WakeupPerUnit ==
    SemaphoreOnly /\ Asleep # {} => Cardinality(Woken) >= sem_val

\* "first mm_sem_signal, then mm_sem_wait, will wait forever! but up&down is
\* ok" (foundations_test.c): a thread does not stay blocked in mm_sem_down
\* beside a positive value.
UpDownOk ==
    (SemaphoreOnly /\ sem_val > 0 /\ Asleep # {}) ~> (sem_val = 0 \/ Asleep = {})

\* mm_sem_up_unique alone never makes a second unit, also when a woken
\* thread has not taken the first one yet.
UniqueStaysBinary ==
    [][(\A t \in Threads : "up" \notin uses[t]) /\ sem_val <= 1
          => sem_val' <= 1]_vars
=============================================================================

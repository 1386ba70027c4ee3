----------------------------- MODULE MCSemaphore -----------------------------
(***************************************************************************)
(* A small instance of Semaphore: four threads and three ways to use it.   *)
(***************************************************************************)
EXTENDS Semaphore, TLC

CONSTANTS d1, d2, d3, u

MCProfiles == {
    \* units come from mm_sem_up, and are dropped by mm_sem_reset
    d1 :> {"down"} @@ d2 :> {"down", "up"} @@ d3 :> {"down", "signal"}
        @@ u :> {"up", "reset"},
    \* units come from mm_sem_up_unique only
    d1 :> {"down"} @@ d2 :> {"down", "up_unique"} @@ d3 :> {"down"}
        @@ u :> {"up_unique", "signal"},
    \* threads that wait for a signal beside threads that wait for a unit
    d1 :> {"down"} @@ d2 :> {"wait"} @@ d3 :> {"down"}
        @@ u :> {"up", "signal"} }
=============================================================================

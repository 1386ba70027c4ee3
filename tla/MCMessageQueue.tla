--------------------------- MODULE MCMessageQueue ---------------------------
(***************************************************************************)
(* Small instances of MessageQueue: p puts, c1 and c2 consume.             *)
(***************************************************************************)
EXTENDS MessageQueue, TLC

CONSTANTS p, c1, c2, m0, m1, m2, b1, b2, b3

\* One consumer that calls everything, as the thread of foundations_test.c.
OneConsumer == p :> {"put"} @@ c1 :> (Calls \ {"put"})

\* Two consumers that never wait with a timeout for a message.
TwoConsumers == p :> {"put"} @@ c1 :> {"get", "wait", "dry"} @@ c2 :> {"wait", "tdry"}

\* Two consumers blocked in the forever wait.
TwoWaiters == p :> {"put"} @@ c1 :> {"wait"} @@ c2 :> {"wait"}

\* A consumer in the timed wait and one that takes what it finds.
TimedAndGet == p :> {"put"} @@ c1 :> {"twait"} @@ c2 :> {"get"}

\* Payload buffers, and messages of the same kind, are interchangeable.
Symmetric == Permutations({b1, b2, b3}) \cup Permutations({m1, m2})
=============================================================================

--------------------------- MODULE QueueConstants ---------------------------
(* The sizes of the queue of a rosbridge Subscriber. *)
EXTENDS Naturals

CONSTANTS
    Consumers,    \* tasks that share the Subscriber
    QUEUE_SIZE,
    MaxMessage    \* bound: how many messages arrive

QueueSizes ==
    /\ QUEUE_SIZE \in Nat /\ QUEUE_SIZE > 1
    /\ MaxMessage \in Nat

=============================================================================

-------------------------- MODULE SubscriberQueue --------------------------
(***************************************************************************)
(* The message queue of one rosbridge Subscriber: the spin task puts       *)
(* messages in, dropping the oldest when it is full, and any number of     *)
(* tasks share the Subscriber and take messages with next or most_recent.  *)
(*                                                                         *)
(* Source: roslibrust_rosbridge/src/client.rs (the closure _subscribe      *)
(* stores) and subscriber.rs.  The operations of the queue itself          *)
(* (deadqueue) are atomic; the closure and most_recent use several.        *)
(* Messages are numbered as they arrive.  One that cannot be deserialized  *)
(* changes nothing and has no number.                                      *)
(***************************************************************************)
EXTENDS Naturals, Sequences, QueueConstants

VARIABLES
    queue,      \* messages in the queue, oldest first
    received,   \* number of the message that arrived last
    producer,   \* where the closure is
    pc,         \* where each consumer is
    returned,   \* last message next or most_recent returned to anyone
    newest,     \* last message put in the queue
    got,        \* last message each consumer got
    since,      \* what was newest when a call of most_recent began
    overlapped  \* whether calls of two consumers ever overlapped

vars == <<queue, received, producer, pc, returned, newest, got, since, overlapped>>

TypeOK ==
    /\ queue \in Seq(Nat)
    /\ received \in Nat
    /\ producer \in {"idle", "full", "retry"}
    /\ pc \in [Consumers -> {"idle", "flushing", "discarding", "waiting"}]
    /\ returned \in Nat
    /\ newest \in Nat
    /\ got \in [Consumers -> Nat]
    /\ since \in [Consumers -> Nat]
    /\ overlapped \in BOOLEAN

Init ==
    /\ queue = << >>
    /\ received = 0
    /\ producer = "idle"
    /\ pc = [c \in Consumers |-> "idle"]
    /\ returned = 0
    /\ newest = 0
    /\ got = [c \in Consumers |-> 0]
    /\ since = [c \in Consumers |-> 0]
    /\ overlapped = FALSE

Full == Len(queue) >= QUEUE_SIZE

(* try_push *)
Push(m) ==
    /\ queue' = Append(queue, m)
    /\ newest' = m

(* try_pop, its result thrown away *)
PopQuietly == queue' = IF queue = << >> THEN queue ELSE Tail(queue)

-----------------------------------------------------------------------------
(***************************************************************************)
(* The closure that gets the messages of the topic                         *)
(***************************************************************************)

Receive ==
    /\ producer = "idle"
    /\ received < MaxMessage
    /\ received' = received + 1
    /\ IF Full
         THEN producer' = "full" /\ UNCHANGED <<queue, newest>>
         ELSE Push(received') /\ UNCHANGED producer
    /\ UNCHANGED <<pc, returned, got, since, overlapped>>

(* Mutation: the message is pushed again without making room. *)
KeepOldest ==
    /\ producer = "full"
    /\ producer' = "retry"
    /\ UNCHANGED <<queue, received, pc, returned, newest, got, since, overlapped>>

DropOldest ==
    /\ producer = "full"
    /\ PopQuietly
    /\ producer' = "retry"
    /\ UNCHANGED <<received, pc, returned, newest, got, since, overlapped>>

(* Mutation: the message that did not fit goes to the front. *)
RetryAtFront ==
    /\ producer = "retry"
    /\ queue' = <<received>> \o queue
    /\ newest' = received
    /\ producer' = "idle"
    /\ UNCHANGED <<received, pc, returned, got, since, overlapped>>

RetryPush ==
    /\ producer = "retry"
    /\ IF Full THEN UNCHANGED <<queue, newest>> ELSE Push(received)
    /\ producer' = "idle"
    /\ UNCHANGED <<received, pc, returned, got, since, overlapped>>

-----------------------------------------------------------------------------
(***************************************************************************)
(* Subscriber::next and Subscriber::most_recent                            *)
(***************************************************************************)

Go(c, place) == pc' = [pc EXCEPT ![c] = place]

(* A call begins, maybe while one of another consumer is under way. *)
Call(c, place) ==
    /\ pc[c] = "idle"
    /\ Go(c, place)
    /\ overlapped' = (overlapped \/ \E d \in Consumers : pc[d] # "idle")

CallNext(c) ==
    /\ Call(c, "waiting")
    /\ UNCHANGED <<queue, received, producer, returned, newest, got, since>>

CallMostRecent(c) ==
    /\ Call(c, "flushing")
    /\ since' = [since EXCEPT ![c] = newest]
    /\ UNCHANGED <<queue, received, producer, returned, newest, got>>

(* Mutation: the length is looked at once. *)
CheckOnce(c) ==
    /\ pc[c] = "flushing"
    /\ Go(c, "waiting")
    /\ queue' = IF Len(queue) > 1 THEN Tail(queue) ELSE queue
    /\ UNCHANGED <<received, producer, returned, newest, got, since, overlapped>>

(* while self.queue.len() > 1 *)
CheckLength(c) ==
    /\ pc[c] = "flushing"
    /\ Go(c, IF Len(queue) > 1 THEN "discarding" ELSE "waiting")
    /\ UNCHANGED <<queue, received, producer, returned, newest, got, since, overlapped>>

Discard(c) ==
    /\ pc[c] = "discarding"
    /\ PopQuietly
    /\ Go(c, "flushing")
    /\ UNCHANGED <<received, producer, returned, newest, got, since, overlapped>>

(* pop().await *)
Pop(c) ==
    /\ pc[c] = "waiting"
    /\ queue # << >>
    /\ got' = [got EXCEPT ![c] = Head(queue)]
    /\ returned' = Head(queue)
    /\ queue' = Tail(queue)
    /\ Go(c, "idle")
    /\ since' = [since EXCEPT ![c] = 0]
    /\ UNCHANGED <<received, producer, newest, overlapped>>

(* The caller drops the future, say as the losing arm of a select. *)
Cancel(c) ==
    /\ pc[c] = "waiting"
    /\ Go(c, "idle")
    /\ since' = [since EXCEPT ![c] = 0]
    /\ UNCHANGED <<queue, received, producer, returned, newest, got, overlapped>>

-----------------------------------------------------------------------------

Consume(c) ==
    \/ CallNext(c) \/ CallMostRecent(c) \/ CheckLength(c) \/ Discard(c)
    \/ Pop(c) \/ Cancel(c)

Next ==
    \/ Receive \/ DropOldest \/ RetryPush
    \/ \E c \in Consumers : Consume(c)

Spec == Init /\ [][Next]_vars

-----------------------------------------------------------------------------
(***************************************************************************)
(* Properties                                                              *)
(***************************************************************************)

(* The second try_push of the closure finds room, whatever consumers do in  *)
(* between: "this is not expected" of the error branch after it holds.      *)
SecondPushFits == producer = "retry" => ~ Full

(* Nobody gets a message older than one that was handed out before, to any  *)
(* consumer: the queue loses messages, it never reorders or repeats them.   *)
NeverBackInTime == [][returned' >= returned /\ (got' # got => returned' > returned)]_vars

(* most_recent does not return a message that was already out of date when  *)
(* it was called: everything queued before that is flushed but the last.    *)
MostRecentIsRecent ==
    [][\A c \in Consumers : Pop(c) => got'[c] >= since[c]]_vars

(* The message that came last is in the queue until someone gets it. *)
LastKept ==
    producer = "idle" /\ received > returned =>
        queue # << >> /\ queue[Len(queue)] = received

(* The message that came last is not thrown away as long as no two calls of *)
(* next and most_recent overlap ("Returns the most recently received        *)
(* message, flushing all older message from the queue").  If calls overlap  *)
(* this fails: most_recent looks at the length, another call takes all but  *)
(* one message, and most_recent discards that one.                          *)
NewestKept == ~ overlapped => LastKept

(* What makes them inductive: the queue is increasing, ends with the newest *)
(* message and holds only what is newer than everything handed out.         *)
QueueInv ==
    /\ \A i, j \in DOMAIN queue : i < j => queue[i] < queue[j]
    /\ \A i \in DOMAIN queue : returned < queue[i] /\ queue[i] <= newest
    /\ queue # << >> => queue[Len(queue)] = newest
    /\ newest <= received /\ returned <= newest
    /\ IF producer = "idle" THEN newest = received ELSE newest < received
    /\ Len(queue) <= QUEUE_SIZE
    /\ producer = "retry" => Len(queue) < QUEUE_SIZE

IInv == TypeOK /\ QueueInv

(* And while no calls overlapped: a message is discarded only while another *)
(* follows it.                                                              *)
OneCall == \A c, d \in Consumers : pc[c] # "idle" /\ pc[d] # "idle" => c = d

DiscardsSafely ==
    \A c \in Consumers : pc[c] = "discarding" =>
        Len(queue) > (IF producer = "retry" THEN 0 ELSE 1)

SoleInv == ~ overlapped => OneCall /\ DiscardsSafely /\ LastKept

(* And for MostRecentIsRecent: once most_recent waits, nothing in the queue *)
(* is older than what was newest when it began.                             *)
RecentInv == \A c \in Consumers :
    /\ since[c] <= newest
    /\ pc[c] = "idle" => since[c] = 0
    /\ pc[c] = "waiting" => \A i \in DOMAIN queue : since[c] <= queue[i]

=============================================================================

----------------------- MODULE SubscriberQueue_proofs -----------------------
(***************************************************************************)
(* Proofs about SubscriberQueue, for a queue of any size, any number of    *)
(* messages and any number of consumers.                                   *)
(***************************************************************************)
EXTENDS SubscriberQueue, TLAPS

USE DEF Full, Push, PopQuietly, Go, Call

(* The initial state, with an empty queue, satisfies the inductive invariant. *)
LEMMA InitIInv == ASSUME QueueSizes, Init PROVE IInv
<1>1. overlapped \in BOOLEAN
  BY DEF Init
<1>2. QED
  BY <1>1 DEF QueueSizes, Init, IInv, TypeOK, QueueInv

(* What taking the first message and adding a last one do to a sequence. *)
LEMMA TailOf ==
    ASSUME NEW s \in Seq(Nat), s # << >>
    PROVE  /\ Tail(s) \in Seq(Nat) /\ Len(Tail(s)) = Len(s) - 1
           /\ Len(s) \in Nat \ {0} /\ Head(s) = s[1]
           /\ \A i \in DOMAIN Tail(s) : Tail(s)[i] = s[i + 1] /\ i + 1 \in DOMAIN s
           /\ DOMAIN Tail(s) = 1 .. Len(s) - 1
OBVIOUS

(* Appending keeps the elements of a sequence in place and adds one at its end. *)
LEMMA AppendTo ==
    ASSUME NEW s \in Seq(Nat), NEW m \in Nat
    PROVE  /\ Append(s, m) \in Seq(Nat) /\ Len(Append(s, m)) = Len(s) + 1
           /\ \A i \in DOMAIN s : Append(s, m)[i] = s[i]
           /\ DOMAIN Append(s, m) = DOMAIN s \cup {Len(s) + 1}
           /\ Append(s, m)[Len(s) + 1] = m
OBVIOUS

(* A shorter queue is still increasing and ends with the newest message. *)
LEMMA TailQueue ==
    ASSUME IInv, queue # << >>, queue' = Tail(queue), UNCHANGED newest
    PROVE  /\ queue' \in Seq(Nat) /\ Len(queue') = Len(queue) - 1
           /\ \A i, j \in DOMAIN queue' : i < j => queue'[i] < queue'[j]
           /\ \A i \in DOMAIN queue' : Head(queue) < queue'[i] /\ queue'[i] <= newest
           /\ queue' # << >> => queue'[Len(queue')] = newest
           /\ queue' = << >> => Head(queue) = newest
           /\ Head(queue) \in Nat /\ returned < Head(queue) /\ Head(queue) <= newest
<1> USE DEF IInv, TypeOK, QueueInv
<1>1. queue' \in Seq(Nat) /\ Len(queue') = Len(queue) - 1
  BY TailOf
<1>2. \A i \in DOMAIN queue' : queue'[i] = queue[i + 1] /\ i + 1 \in DOMAIN queue
  BY TailOf
<1>3. /\ 1 \in DOMAIN queue /\ Head(queue) = queue[1]
      /\ Len(queue) \in Nat \ {0} /\ DOMAIN queue = 1 .. Len(queue)
      /\ DOMAIN queue' = 1 .. Len(queue) - 1
  BY TailOf
<1>4. \A i \in DOMAIN queue : queue[i] \in Nat
  OBVIOUS
<1>5. ASSUME NEW i \in DOMAIN queue', NEW j \in DOMAIN queue', i < j
      PROVE  queue'[i] < queue'[j]
  <2>1. i \in Nat /\ j \in Nat /\ i + 1 < j + 1
    BY <1>3, <1>5
  <2>2. queue[i + 1] < queue[j + 1]
    BY <1>2, <2>1
  <2>3. QED
    BY <1>2, <2>2
<1>6. ASSUME NEW i \in DOMAIN queue'
      PROVE  Head(queue) < queue'[i] /\ queue'[i] <= newest
  <2>1. i \in Nat /\ 1 < i + 1 /\ i + 1 \in DOMAIN queue
    BY <1>2, <1>3
  <2>2. queue[1] < queue[i + 1] /\ queue[i + 1] <= newest
    BY <1>3, <2>1
  <2>3. QED
    BY <1>2, <1>3, <2>2
<1>7. queue' # << >> => queue'[Len(queue')] = newest
  <2> SUFFICES ASSUME queue' # << >> PROVE queue'[Len(queue')] = newest
    OBVIOUS
  <2>1. Len(queue') \in DOMAIN queue'
    BY <1>1
  <2>2. queue'[Len(queue')] = queue[Len(queue)]
    BY <1>1, <1>2, <1>3, <2>1
  <2>3. QED
    BY <2>2
<1>8. queue' = << >> => Head(queue) = newest
  <2>1. queue' = << >> => Len(queue') = 0
    BY <1>1
  <2>2. QED
    BY <1>1, <1>3, <2>1
<1>9. QED
  BY <1>1, <1>3, <1>4, <1>5, <1>6, <1>7, <1>8

(* A pushed message that is newer than the newest keeps the order. *)
LEMMA PushQueue ==
    ASSUME IInv, NEW m \in Nat, newest < m, Push(m)
    PROVE  /\ queue' \in Seq(Nat) /\ Len(queue') = Len(queue) + 1
           /\ \A i, j \in DOMAIN queue' : i < j => queue'[i] < queue'[j]
           /\ \A i \in DOMAIN queue' : returned < queue'[i] /\ queue'[i] <= m
           /\ queue' # << >> /\ queue'[Len(queue')] = m
<1> USE DEF IInv, TypeOK, QueueInv
<1>1. /\ queue' \in Seq(Nat) /\ Len(queue') = Len(queue) + 1
      /\ queue'[Len(queue')] = m
      /\ \A i \in DOMAIN queue : queue'[i] = queue[i]
      /\ DOMAIN queue' = DOMAIN queue \cup {Len(queue) + 1}
  BY AppendTo
<1>2. \A i \in DOMAIN queue : i \in Nat /\ i < Len(queue) + 1 /\ queue[i] \in Nat
  OBVIOUS
<1>3. \A i \in DOMAIN queue' : returned < queue'[i] /\ queue'[i] <= m
  BY <1>1, <1>2
<1>4. \A i, j \in DOMAIN queue' : i < j => queue'[i] < queue'[j]
  BY <1>1, <1>2
<1>5. queue' # << >>
  <2>1. Len(queue') # 0
    BY <1>1
  <2>2. QED
    BY <2>1
<1>6. QED
  BY <1>1, <1>3, <1>4, <1>5

(* Every step, and stuttering, keeps the inductive invariant. *)
LEMMA StepIInv == ASSUME QueueSizes, IInv, [Next]_vars PROVE IInv'
<1> USE DEF QueueSizes
<1>1. CASE Receive
  <2>1. CASE Full
    BY <1>1, <2>1 DEF Receive, IInv, TypeOK, QueueInv
  <2>2. CASE ~ Full
    <3>1. received + 1 \in Nat /\ newest < received + 1 /\ Push(received + 1)
      BY <1>1, <2>2 DEF Receive, IInv, TypeOK, QueueInv
    <3>2. /\ queue' \in Seq(Nat) /\ Len(queue') = Len(queue) + 1
          /\ \A i, j \in DOMAIN queue' : i < j => queue'[i] < queue'[j]
          /\ \A i \in DOMAIN queue' : returned < queue'[i] /\ queue'[i] <= received + 1
          /\ queue'[Len(queue')] = received + 1
      BY <3>1, PushQueue
    <3>3. Len(queue) \in Nat /\ Len(queue) < QUEUE_SIZE
      BY <2>2 DEF IInv, TypeOK
    <3>4. newest' = received + 1
      BY <3>1
    <3>5. TypeOK' /\ UNCHANGED <<returned, producer>> /\ received' = received + 1
          /\ producer = "idle"
      BY <1>1, <2>2, <3>1, <3>2 DEF Receive, IInv, TypeOK
    <3>6. QueueInv'
      BY <3>2, <3>3, <3>4, <3>5 DEF IInv, TypeOK, QueueInv
    <3>7. QED
      BY <3>5, <3>6 DEF IInv
  <2>3. QED
    BY <2>1, <2>2
<1>2. CASE DropOldest
  <2>1. CASE queue = << >>
    BY <1>2, <2>1 DEF DropOldest, IInv, TypeOK, QueueInv
  <2>2. CASE queue # << >>
    <3>1. queue' = Tail(queue) /\ UNCHANGED newest
      BY <1>2, <2>2 DEF DropOldest
    <3>2. Len(queue) \in Nat
      BY DEF IInv, TypeOK
    <3>3. /\ queue' \in Seq(Nat) /\ Len(queue') = Len(queue) - 1
          /\ \A i, j \in DOMAIN queue' : i < j => queue'[i] < queue'[j]
          /\ \A i \in DOMAIN queue' : Head(queue) < queue'[i] /\ queue'[i] <= newest
          /\ queue' # << >> => queue'[Len(queue')] = newest
          /\ Head(queue) \in Nat /\ returned < Head(queue) /\ Head(queue) <= newest
      BY <2>2, <3>1, TailQueue
    <3>4. \A i \in DOMAIN queue' : queue'[i] \in Nat /\ returned < queue'[i]
      <4>1. \A i \in DOMAIN queue' : queue'[i] \in Nat
        BY <3>3
      <4>2. returned \in Nat
        BY DEF IInv, TypeOK
      <4>3. QED
        BY <3>3, <4>1, <4>2
    <3>5. TypeOK'
      BY <1>2, <3>3 DEF DropOldest, IInv, TypeOK
    <3>6. /\ UNCHANGED <<received, returned, newest>>
          /\ producer' = "idle" <=> producer = "idle"
          /\ producer' = "retry" => producer \in {"full", "retry"}
      BY <1>2 DEF DropOldest
    <3>7. Len(queue') < QUEUE_SIZE
      BY <3>2, <3>3 DEF IInv, QueueInv
    <3>8. newest <= received /\ returned <= newest /\ (IF producer' = "idle" THEN newest = received ELSE newest < received)
      BY <3>6 DEF IInv, QueueInv
    <3>9. QueueInv'
      BY <3>3, <3>4, <3>6, <3>7, <3>8 DEF QueueInv
    <3>10. QED
      BY <3>5, <3>9 DEF IInv
  <2>3. QED
    BY <2>1, <2>2
<1>3. CASE RetryPush
  <2>1. received \in Nat /\ newest < received /\ Len(queue) \in Nat
        /\ Len(queue) < QUEUE_SIZE /\ Push(received)
    BY <1>3 DEF RetryPush, IInv, TypeOK, QueueInv
  <2>2. /\ queue' \in Seq(Nat) /\ Len(queue') = Len(queue) + 1
        /\ \A i, j \in DOMAIN queue' : i < j => queue'[i] < queue'[j]
        /\ \A i \in DOMAIN queue' : returned < queue'[i] /\ queue'[i] <= received
        /\ queue' # << >> /\ queue'[Len(queue')] = received
    BY <2>1, PushQueue
  <2>3. TypeOK'
    BY <1>3, <2>1, <2>2 DEF RetryPush, IInv, TypeOK
  <2>4. QueueInv'
    BY <1>3, <2>1, <2>2 DEF RetryPush, IInv, TypeOK, QueueInv
  <2>5. QED
    BY <2>3, <2>4 DEF IInv
<1>4. ASSUME NEW c \in Consumers, CallNext(c) PROVE IInv'
  BY <1>4 DEF CallNext, IInv, TypeOK, QueueInv
<1>5. ASSUME NEW c \in Consumers, CallMostRecent(c) PROVE IInv'
  BY <1>5 DEF CallMostRecent, IInv, TypeOK, QueueInv
<1>6. ASSUME NEW c \in Consumers, CheckLength(c) PROVE IInv'
  BY <1>6 DEF CheckLength, IInv, TypeOK, QueueInv
<1>7. ASSUME NEW c \in Consumers, Discard(c) PROVE IInv'
  <2>1. CASE queue = << >>
    BY <1>7, <2>1 DEF Discard, IInv, TypeOK, QueueInv
  <2>2. CASE queue # << >>
    <3>1. queue' = Tail(queue) /\ UNCHANGED newest
      BY <1>7, <2>2 DEF Discard
    <3>2. Len(queue) \in Nat
      BY DEF IInv, TypeOK
    <3>3. /\ queue' \in Seq(Nat) /\ Len(queue') = Len(queue) - 1
          /\ \A i, j \in DOMAIN queue' : i < j => queue'[i] < queue'[j]
          /\ \A i \in DOMAIN queue' : Head(queue) < queue'[i] /\ queue'[i] <= newest
          /\ queue' # << >> => queue'[Len(queue')] = newest
          /\ Head(queue) \in Nat /\ returned < Head(queue) /\ Head(queue) <= newest
      BY <2>2, <3>1, TailQueue
    <3>4. \A i \in DOMAIN queue' : queue'[i] \in Nat /\ returned < queue'[i]
      <4>1. \A i \in DOMAIN queue' : queue'[i] \in Nat
        BY <3>3
      <4>2. returned \in Nat
        BY DEF IInv, TypeOK
      <4>3. QED
        BY <3>3, <4>1, <4>2
    <3>5. TypeOK'
      BY <1>7, <3>3 DEF Discard, IInv, TypeOK
    <3>6. /\ UNCHANGED <<received, returned, newest>>
          /\ producer' = "idle" <=> producer = "idle"
          /\ producer' = "retry" => producer \in {"full", "retry"}
      BY <1>7 DEF Discard
    <3>7. Len(queue') < QUEUE_SIZE
      BY <3>2, <3>3 DEF IInv, QueueInv
    <3>8. newest <= received /\ returned <= newest /\ (IF producer' = "idle" THEN newest = received ELSE newest < received)
      BY <3>6 DEF IInv, QueueInv
    <3>9. QueueInv'
      BY <3>3, <3>4, <3>6, <3>7, <3>8 DEF QueueInv
    <3>10. QED
      BY <3>5, <3>9 DEF IInv
  <2>3. QED
    BY <2>1, <2>2
<1>8. ASSUME NEW c \in Consumers, Pop(c) PROVE IInv'
  <2>1. queue # << >> /\ queue' = Tail(queue) /\ UNCHANGED newest
    BY <1>8 DEF Pop
  <2>2. Len(queue) \in Nat
    BY DEF IInv, TypeOK
  <2>3. /\ queue' \in Seq(Nat) /\ Len(queue') = Len(queue) - 1
        /\ \A i, j \in DOMAIN queue' : i < j => queue'[i] < queue'[j]
        /\ \A i \in DOMAIN queue' : Head(queue) < queue'[i] /\ queue'[i] <= newest
        /\ queue' # << >> => queue'[Len(queue')] = newest
        /\ Head(queue) \in Nat /\ returned < Head(queue) /\ Head(queue) <= newest
    BY <2>1, TailQueue
  <2>4. TypeOK'
    BY <1>8, <2>3 DEF Pop, IInv, TypeOK
  <2>5. QueueInv'
    BY <1>8, <2>1, <2>2, <2>3 DEF Pop, IInv, TypeOK, QueueInv
  <2>6. QED
    BY <2>4, <2>5 DEF IInv
<1>9. ASSUME NEW c \in Consumers, Cancel(c) PROVE IInv'
  BY <1>9 DEF Cancel, IInv, TypeOK, QueueInv
<1>10. CASE UNCHANGED vars
  BY <1>10 DEF vars, IInv, TypeOK, QueueInv
<1>11. QED
  BY <1>1, <1>2, <1>3, <1>4, <1>5, <1>6, <1>7, <1>8, <1>9, <1>10 DEF Next, Consume

(* The inductive invariant holds in every reachable state. *)
THEOREM Invariance == ASSUME QueueSizes PROVE Spec => []IInv
<1>1. Init => IInv
  BY InitIInv
<1>2. IInv /\ [Next]_vars => IInv'
  BY StepIInv
<1>3. QED
  BY <1>1, <1>2, PTL DEF Spec

(* The variables keep their types. *)
THEOREM TypeCorrect == ASSUME QueueSizes PROVE Spec => []TypeOK
<1>1. IInv => TypeOK
  BY DEF IInv
<1>2. QED
  BY <1>1, Invariance, PTL

(* The closure never loses a message for want of room after making some. *)
THEOREM RetryFits == ASSUME QueueSizes PROVE Spec => []SecondPushFits
<1>1. IInv => SecondPushFits
  BY DEF QueueSizes, IInv, TypeOK, QueueInv, SecondPushFits
<1>2. QED
  BY <1>1, Invariance, PTL

(* Whoever gets a message gets one newer than all that were handed out. *)
LEMMA StepInOrder ==
    ASSUME QueueSizes, IInv, [Next]_vars
    PROVE  [returned' >= returned /\ (got' # got => returned' > returned)]_vars
<1>1. ASSUME NEW c \in Consumers, Pop(c) PROVE returned' > returned
  <2>1. queue # << >> /\ queue' = Tail(queue) /\ UNCHANGED newest
        /\ returned' = Head(queue)
    BY <1>1 DEF Pop
  <2>2. returned < Head(queue) /\ Head(queue) \in Nat
    BY <2>1, TailQueue
  <2>3. QED
    BY <2>1, <2>2 DEF IInv, TypeOK
<1>2. CASE \E c \in Consumers : Pop(c)
  <2>1. returned' > returned
    BY <1>1, <1>2
  <2>2. returned \in Nat /\ returned' \in Nat
    BY StepIInv DEF IInv, TypeOK
  <2>3. returned' >= returned
    BY <2>1, <2>2
  <2>4. QED
    BY <2>1, <2>3
<1>3. CASE ~ \E c \in Consumers : Pop(c)
  <2>1. UNCHANGED <<returned, got>>
    BY <1>3 DEF Next, Consume, Receive, DropOldest, RetryPush, CallNext,
       CallMostRecent, CheckLength, Discard, Cancel, vars
  <2>2. QED
    BY <2>1 DEF IInv, TypeOK
<1>4. QED
  BY <1>2, <1>3

(* Consumers, however many share the Subscriber, see messages in order. *)
THEOREM InOrder == ASSUME QueueSizes PROVE Spec => NeverBackInTime
<1>1. IInv /\ [Next]_vars => [returned' >= returned /\ (got' # got => returned' > returned)]_vars
  BY StepInOrder
<1>2. QED
  BY <1>1, Invariance, PTL DEF Spec, NeverBackInTime

(* As long as no two calls overlap, there is one at most. *)
LEMMA StepOneCall ==
    ASSUME IInv, OneCall, ~ overlapped', [Next]_vars
    PROVE  OneCall'
<1>1. pc \in [Consumers -> {"idle", "flushing", "discarding", "waiting"}]
  BY DEF IInv, TypeOK
<1>2. ASSUME NEW c \in Consumers, CallNext(c) \/ CallMostRecent(c)
      PROVE  \A d \in Consumers : pc'[d] # "idle" => d = c
  BY <1>1, <1>2 DEF CallNext, CallMostRecent
<1>3. ASSUME NEW c \in Consumers, CheckLength(c) \/ Discard(c) \/ Pop(c) \/ Cancel(c)
      PROVE  \A d \in Consumers : pc'[d] # "idle" => pc[d] # "idle"
  BY <1>1, <1>3 DEF CheckLength, Discard, Pop, Cancel
<1>4. CASE Receive \/ DropOldest \/ RetryPush \/ UNCHANGED vars
  BY <1>4 DEF Receive, DropOldest, RetryPush, vars, OneCall
<1>5. QED
  BY <1>2, <1>3, <1>4 DEF Next, Consume, OneCall

(***************************************************************************)
(* The message that came last is not lost as long as no two calls of the   *)
(* Subscriber overlap: it is discarded only while another follows it.      *)
(***************************************************************************)
LEMMA StepSoleInv ==
    ASSUME QueueSizes, IInv, OneCall, DiscardsSafely, LastKept, [Next]_vars
    PROVE  DiscardsSafely' /\ LastKept'
<1>0. /\ Len(queue) \in Nat /\ QUEUE_SIZE \in Nat /\ QUEUE_SIZE > 1
      /\ queue = << >> <=> Len(queue) = 0
      /\ newest \in Nat /\ returned \in Nat /\ received \in Nat
      /\ producer = "idle" => newest = received
  BY DEF QueueSizes, IInv, TypeOK, QueueInv
<1>1. CASE Receive
  <2>1. CASE Full
    BY <1>0, <1>1, <2>1 DEF Receive, DiscardsSafely, LastKept
  <2>2. CASE ~ Full
    <3>1. received + 1 \in Nat /\ newest < received + 1 /\ Push(received + 1)
      BY <1>0, <1>1, <2>2 DEF Receive, IInv, QueueInv
    <3>2. Len(queue') = Len(queue) + 1 /\ queue' # << >> /\ queue'[Len(queue')] = received + 1
      BY <3>1, PushQueue
    <3>3. UNCHANGED <<producer, pc>> /\ producer = "idle" /\ received' = received + 1
      BY <1>1, <2>2, <3>1 DEF Receive
    <3>4. QED
      BY <1>0, <3>2, <3>3 DEF DiscardsSafely, LastKept
  <2>3. QED
    BY <2>1, <2>2
<1>2. CASE DropOldest
  <2>1. Len(queue') >= Len(queue) - 1 /\ Len(queue') \in Nat
    <3>1. CASE queue = << >>
      BY <1>0, <1>2, <3>1 DEF DropOldest
    <3>2. CASE queue # << >>
      BY <1>0, <1>2, <3>2, TailOf DEF DropOldest, IInv, TypeOK
    <3>3. QED
      BY <3>1, <3>2
  <2>2. producer = "full" /\ producer' = "retry" /\ UNCHANGED pc
    BY <1>2 DEF DropOldest
  <2>3. QED
    BY <1>0, <2>1, <2>2 DEF DiscardsSafely, LastKept
<1>3. CASE RetryPush
  <2>1. received \in Nat /\ newest < received /\ Push(received)
    BY <1>0, <1>3 DEF RetryPush, IInv, QueueInv
  <2>2. Len(queue') = Len(queue) + 1 /\ queue' # << >> /\ queue'[Len(queue')] = received
    BY <2>1, PushQueue
  <2>3. UNCHANGED <<pc, received>> /\ producer = "retry" /\ producer' = "idle"
    BY <1>3, <2>1 DEF RetryPush
  <2>4. QED
    BY <1>0, <2>2, <2>3 DEF DiscardsSafely, LastKept
<1>4. ASSUME NEW c \in Consumers, CallNext(c) PROVE DiscardsSafely' /\ LastKept'
  BY <1>4 DEF CallNext, IInv, TypeOK, DiscardsSafely, LastKept
<1>5. ASSUME NEW c \in Consumers, CallMostRecent(c) PROVE DiscardsSafely' /\ LastKept'
  BY <1>5 DEF CallMostRecent, IInv, TypeOK, DiscardsSafely, LastKept
<1>6. ASSUME NEW c \in Consumers, CheckLength(c) PROVE DiscardsSafely' /\ LastKept'
  BY <1>0, <1>6 DEF CheckLength, IInv, TypeOK, DiscardsSafely, LastKept
<1>7. ASSUME NEW c \in Consumers, Discard(c) PROVE DiscardsSafely' /\ LastKept'
  <2>1. /\ Len(queue) > (IF producer = "retry" THEN 0 ELSE 1) /\ queue # << >>
        /\ queue' = Tail(queue) /\ UNCHANGED <<newest, received, returned, producer>>
    BY <1>0, <1>7 DEF Discard, DiscardsSafely
  <2>2. /\ Len(queue') = Len(queue) - 1
        /\ queue' # << >> => queue'[Len(queue')] = newest
        /\ queue' \in Seq(Nat)
    BY <2>1, TailQueue
  <2>3. producer # "retry" => queue' # << >>
    <3>1. queue' = << >> => Len(queue') = 0
      OBVIOUS
    <3>2. producer # "retry" => Len(queue) > 1
      BY <2>1
    <3>3. QED
      BY <1>0, <2>2, <3>1, <3>2
  <2>4. \A d \in Consumers : pc'[d] # "discarding"
    BY <1>7 DEF Discard, IInv, TypeOK, OneCall
  <2>5. QED
    BY <1>0, <2>1, <2>2, <2>3, <2>4 DEF DiscardsSafely, LastKept
<1>8. ASSUME NEW c \in Consumers, Pop(c) PROVE DiscardsSafely' /\ LastKept'
  <2>1. queue # << >> /\ queue' = Tail(queue) /\ UNCHANGED <<newest, received, producer>>
        /\ returned' = Head(queue)
    BY <1>8 DEF Pop
  <2>2. /\ queue' # << >> => queue'[Len(queue')] = newest
        /\ queue' = << >> => Head(queue) = newest
    BY <2>1, TailQueue
  <2>3. \A d \in Consumers : pc'[d] # "discarding"
    BY <1>8 DEF Pop, IInv, TypeOK, OneCall
  <2>4. QED
    BY <1>0, <2>1, <2>2, <2>3 DEF DiscardsSafely, LastKept
<1>9. ASSUME NEW c \in Consumers, Cancel(c) PROVE DiscardsSafely' /\ LastKept'
  BY <1>9 DEF Cancel, IInv, TypeOK, DiscardsSafely, LastKept
<1>10. CASE UNCHANGED vars
  BY <1>10 DEF vars, DiscardsSafely, LastKept
<1>11. QED
  BY <1>1, <1>2, <1>3, <1>4, <1>5, <1>6, <1>7, <1>8, <1>9, <1>10 DEF Next, Consume

(* A Subscriber starts with no call and no message. *)
LEMMA InitSole == ASSUME Init PROVE SoleInv /\ RecentInv
BY DEF Init, SoleInv, OneCall, DiscardsSafely, LastKept, RecentInv

(* Every step keeps it. *)
LEMMA StepSole ==
    ASSUME QueueSizes, IInv, SoleInv, [Next]_vars PROVE SoleInv'
<1> SUFFICES ASSUME ~ overlapped' PROVE OneCall' /\ DiscardsSafely' /\ LastKept'
  BY DEF SoleInv
<1>1. ~ overlapped
  BY DEF Next, Consume, Receive, DropOldest, RetryPush, CallNext, CallMostRecent,
     CheckLength, Discard, Pop, Cancel, vars
<1>2. OneCall /\ DiscardsSafely /\ LastKept
  BY <1>1 DEF SoleInv
<1>3. QED
  BY <1>2, StepOneCall, StepSoleInv

(* While no two calls overlap, the newest message is never thrown away unread. *)
THEOREM LoneCallsKeepNewest == ASSUME QueueSizes PROVE Spec => []NewestKept
<1>1. Init => SoleInv
  BY InitSole
<1>2. IInv /\ SoleInv /\ [Next]_vars => SoleInv'
  BY StepSole
<1>3. SoleInv => NewestKept
  BY DEF SoleInv, NewestKept
<1>4. QED
  BY <1>1, <1>2, <1>3, Invariance, PTL DEF Spec

(***************************************************************************)
(* most_recent waits only once it saw one message at most: the newest.     *)
(***************************************************************************)
LEMMA StepRecent ==
    ASSUME QueueSizes, IInv, RecentInv, [Next]_vars PROVE RecentInv'
<1>0. /\ queue \in Seq(Nat) /\ newest \in Nat /\ since \in [Consumers -> Nat]
      /\ pc \in [Consumers -> {"idle", "flushing", "discarding", "waiting"}]
      /\ \A i \in DOMAIN queue : queue[i] \in Nat
  BY DEF IInv, TypeOK
<1>1. ASSUME NEW m \in Nat, newest < m, Push(m), UNCHANGED <<pc, since>> PROVE RecentInv'
  <2>1. /\ \A i \in DOMAIN queue : queue'[i] = queue[i]
        /\ DOMAIN queue' = DOMAIN queue \cup {Len(queue) + 1} /\ queue'[Len(queue) + 1] = m
    BY <1>0, <1>1, AppendTo
  <2>2. newest' = m
    BY <1>1
  <2>3. ASSUME NEW c \in Consumers PROVE since[c] <= m
    BY <1>0, <1>1 DEF RecentInv
  <2>4. QED
    BY <1>0, <1>1, <2>1, <2>2, <2>3 DEF RecentInv
<1>2. ASSUME queue # << >>, queue' = Tail(queue), UNCHANGED newest, NEW c \in Consumers,
             \A i \in DOMAIN queue : since[c] <= queue[i]
      PROVE  \A i \in DOMAIN queue' : since[c] <= queue'[i]
  BY <1>0, <1>2, TailOf
<1>3. CASE Receive
  <2>1. received \in Nat /\ (producer = "idle" => newest = received)
    BY DEF IInv, TypeOK, QueueInv
  <2>2. CASE ~ Full
    BY <1>1, <1>3, <2>1, <2>2 DEF Receive
  <2>3. CASE Full
    BY <1>3, <2>3 DEF Receive, RecentInv
  <2>4. QED
    BY <2>2, <2>3
<1>4. CASE RetryPush
  <2>1. received \in Nat /\ (producer = "retry" => newest < received)
    BY DEF IInv, TypeOK, QueueInv
  <2>2. CASE ~ Full
    BY <1>1, <1>4, <2>1, <2>2 DEF RetryPush
  <2>3. CASE Full
    BY <1>4, <2>3 DEF RetryPush, RecentInv
  <2>4. QED
    BY <2>2, <2>3
<1>5. CASE DropOldest
  <2>1. UNCHANGED <<pc, since, newest>> /\ PopQuietly
    BY <1>5 DEF DropOldest
  <2>2. QED
    BY <1>2, <2>1 DEF RecentInv
<1>6. ASSUME NEW c \in Consumers, CallNext(c) \/ CallMostRecent(c) PROVE RecentInv'
  <2>1. UNCHANGED <<queue, newest>> /\ pc[c] = "idle" /\ since[c] = 0
    BY <1>6 DEF CallNext, CallMostRecent, RecentInv
  <2>2. CASE CallNext(c)
    <3>1. since' = since /\ pc' = [pc EXCEPT ![c] = "waiting"]
      BY <2>2 DEF CallNext
    <3>2. \A i \in DOMAIN queue : since[c] <= queue[i]
      BY <1>0, <2>1
    <3>3. QED
      BY <1>0, <2>1, <3>1, <3>2 DEF RecentInv
  <2>3. CASE CallMostRecent(c)
    <3>1. since' = [since EXCEPT ![c] = newest] /\ pc' = [pc EXCEPT ![c] = "flushing"]
      BY <2>3 DEF CallMostRecent
    <3>2. QED
      BY <1>0, <2>1, <3>1 DEF RecentInv
  <2>4. QED
    BY <1>6, <2>2, <2>3
<1>7. ASSUME NEW c \in Consumers, CheckLength(c) PROVE RecentInv'
  <2>1. UNCHANGED <<queue, newest, since>>
        /\ pc' = [pc EXCEPT ![c] = IF Len(queue) > 1 THEN "discarding" ELSE "waiting"]
    BY <1>7 DEF CheckLength
  <2>2. ASSUME ~ Len(queue) > 1, NEW i \in DOMAIN queue PROVE queue[i] = newest
    <3>1. i = Len(queue) /\ queue # << >>
      BY <1>0, <2>2
    <3>2. QED
      BY <3>1 DEF IInv, QueueInv
  <2>3. QED
    BY <1>0, <2>1, <2>2 DEF RecentInv
<1>8. ASSUME NEW c \in Consumers, Discard(c) PROVE RecentInv'
  <2>1. UNCHANGED <<since, newest>> /\ PopQuietly /\ pc' = [pc EXCEPT ![c] = "flushing"]
    BY <1>8 DEF Discard
  <2>2. QED
    BY <1>0, <1>2, <2>1 DEF RecentInv
<1>9. ASSUME NEW c \in Consumers, Pop(c) \/ Cancel(c) PROVE RecentInv'
  <2>1. UNCHANGED newest /\ since' = [since EXCEPT ![c] = 0] /\ pc' = [pc EXCEPT ![c] = "idle"]
        /\ (queue' = queue \/ (queue # << >> /\ queue' = Tail(queue)))
    BY <1>9 DEF Pop, Cancel
  <2>2. ASSUME NEW d \in Consumers, d # c
        PROVE  /\ since'[d] <= newest' /\ (pc'[d] = "idle" => since'[d] = 0)
               /\ pc'[d] = "waiting" => \A i \in DOMAIN queue' : since'[d] <= queue'[i]
    <3>1. since'[d] = since[d] /\ pc'[d] = pc[d]
      BY <1>0, <2>1, <2>2
    <3>2. pc[d] = "waiting" => \A i \in DOMAIN queue' : since[d] <= queue'[i]
      BY <1>2, <2>1 DEF RecentInv
    <3>3. QED
      BY <2>1, <3>1, <3>2 DEF RecentInv
  <2>3. since'[c] = 0 /\ pc'[c] = "idle" /\ since'[c] <= newest'
    BY <1>0, <2>1
  <2>4. QED
    BY <2>2, <2>3 DEF RecentInv
<1>10. CASE UNCHANGED vars
  BY <1>10 DEF vars, RecentInv
<1>11. QED
  BY <1>3, <1>4, <1>5, <1>6, <1>7, <1>8, <1>9, <1>10 DEF Next, Consume

(* What a call of most_recent takes is not older than what it found newest. *)
LEMMA PopsRecent ==
    ASSUME QueueSizes, IInv, RecentInv, NEW c \in Consumers, Pop(c) PROVE got'[c] >= since[c]
<1>1. queue # << >> /\ got' = [got EXCEPT ![c] = Head(queue)] /\ pc[c] = "waiting"
  BY DEF Pop
<1>2. queue \in Seq(Nat) /\ got \in [Consumers -> Nat] /\ since \in [Consumers -> Nat]
  BY DEF IInv, TypeOK
<1>3. 1 \in DOMAIN queue /\ Head(queue) = queue[1] /\ Head(queue) \in Nat
  BY <1>1, <1>2
<1>4. since[c] <= Head(queue)
  BY <1>1, <1>3 DEF RecentInv
<1>5. QED
  BY <1>1, <1>2, <1>3, <1>4

(* most_recent returns nothing older than what was newest when it was called, *)
(* however many calls overlap.                                                *)
THEOREM MostRecentRecent == ASSUME QueueSizes PROVE Spec => MostRecentIsRecent
<1>1. Init => RecentInv
  BY InitSole
<1>2. IInv /\ RecentInv /\ [Next]_vars => RecentInv'
  BY StepRecent
<1>3. IInv /\ RecentInv /\ [Next]_vars
        => [\A c \in Consumers : Pop(c) => got'[c] >= since[c]]_vars
  BY PopsRecent
<1>4. QED
  BY <1>1, <1>2, <1>3, Invariance, PTL DEF Spec, MostRecentIsRecent

=============================================================================

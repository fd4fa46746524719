---------------------- MODULE RosbridgeDispatch_proofs ----------------------
(***************************************************************************)
(* Proofs about RosbridgeDispatch, for any messages, tasks and number of   *)
(* worker threads, and however often the 10 ms of the spin task expire.    *)
(***************************************************************************)
EXTENDS RosbridgeDispatch, FiniteSetTheorems, TLAPS

USE DEF Tasks, Messages, SpinPlaces, TaskPlaces, Go, BackToReading,
        spinVars, netVars, mapVars, outVars

(* The initial state, with nothing to dispatch, satisfies the inductive invariant. *)
LEMMA InitIInv == Init => IInv
<1> SUFFICES ASSUME Init PROVE IInv
  OBVIOUS
<1> USE DispatchAssumption DEF Init
<1>1. TypeOK BY DEF TypeOK
<1>2. GuardInv BY DEF GuardInv, Reached, Dropped
<1>3. NoPublicationMissed BY DEF NoPublicationMissed
<1>4. QED
  BY <1>1, <1>2, <1>3 DEF IInv

(* The messages behind the first are still there when it is taken, *)
(* and those there stay when one is added.                           *)
LEMMA OthersWait ==
    ASSUME NEW S, inbox \in Seq(S), inbox # << >>, inbox' = Tail(inbox),
           NEW q, q # Head(inbox), Waiting(q)
    PROVE  Waiting(q)'
<1>1. PICK i \in DOMAIN inbox : inbox[i] = q
  BY DEF Waiting
<1>2. i \in 2 .. Len(inbox)
  BY <1>1
<1>3. i - 1 \in DOMAIN Tail(inbox) /\ Tail(inbox)[i - 1] = q
  BY <1>1, <1>2
<1>4. QED
  BY <1>3 DEF Waiting

(* What waits in the inbox still waits after a message is appended, as does that message. *)
LEMMA AllWait ==
    ASSUME NEW S, inbox \in Seq(S), NEW m \in S, inbox' = Append(inbox, m),
           NEW q, q = m \/ Waiting(q)
    PROVE  Waiting(q)'
<1>1. Len(inbox') \in DOMAIN inbox' /\ inbox'[Len(inbox')] = m
  OBVIOUS
<1>2. \A i \in DOMAIN inbox : i \in DOMAIN inbox' /\ inbox'[i] = inbox[i]
  OBVIOUS
<1>3. QED
  BY <1>1, <1>2 DEF Waiting

(* The message taken is a message, and the rest is a sequence of messages. *)
LEMMA TakeOne ==
    ASSUME NEW S, NEW s \in Seq(S), s # << >>
    PROVE  Head(s) \in S /\ Tail(s) \in Seq(S)
OBVIOUS

(***************************************************************************)
(* Every step keeps the invariant.  Where handle_publish looks up the      *)
(* topic, nobody has the guard, so that every subscriber the server knows  *)
(* has its handle in the entry.                                            *)
(***************************************************************************)
LEMMA StepIInv == ASSUME IInv, [Next]_vars PROVE IInv'
<1> USE DispatchAssumption DEF IInv, TypeOK, GuardInv, NoPublicationMissed, Dropped, Reached
<1>1. ASSUME NEW m \in Messages, ServerSends(m) PROVE IInv'
  <2>1. \A q : q = m \/ Waiting(q) => Waiting(q)'
    BY <1>1, AllWait DEF ServerSends
  <2>2. TypeOK' /\ GuardInv'
    BY <1>1 DEF ServerSends
  <2>3. NoPublicationMissed'
    BY <1>1, <2>1 DEF ServerSends
  <2>4. QED
    BY <2>2, <2>3
<1>0. inbox' = inbox => \A q : Waiting(q)' <=> Waiting(q)
  BY DEF Waiting
<1> USE <1>0
<1>2. ASSUME guard = Nobody, NEW p \in Publications, Deliver(p)
      PROVE  /\ got' \in [Subs -> SUBSET Publications]
             /\ \A u \in due[p] : Dropped(u) \/ p \in got'[u]
             /\ \A u \in Subs : got[u] \subseteq got'[u]
  BY <1>2 DEF Deliver
<1>3. CASE ReadPublication
  <2>1. inbox' \in Seq(Messages) /\ Head(inbox) \in Publications
    BY <1>3, TakeOne DEF ReadPublication
  <2>2. \A q : q # Head(inbox) /\ Waiting(q) => Waiting(q)'
    BY <1>3, OthersWait DEF ReadPublication
  <2>3. CASE guard = Nobody
    <3>1. Deliver(Head(inbox)) /\ UNCHANGED spinVars
      BY <1>3, <2>3 DEF ReadPublication
    <3>2. TypeOK' /\ GuardInv'
      BY <1>2, <1>3, <2>1, <2>3, <3>1 DEF ReadPublication
    <3>3. NoPublicationMissed'
      BY <1>2, <1>3, <2>1, <2>2, <2>3, <3>1 DEF ReadPublication
    <3>4. QED
      BY <3>2, <3>3
  <2>4. CASE guard # Nobody
    <3>1. TypeOK' /\ GuardInv'
      BY <1>3, <2>1, <2>4 DEF ReadPublication
    <3>2. spin = "reading" /\ cur' = Head(inbox) /\ UNCHANGED <<sent, due, got>>
      BY <1>3, <2>4 DEF ReadPublication
    <3>3. ASSUME NEW q \in sent \cap Publications, q # cur'
          PROVE  \/ Waiting(q)'
                 \/ \A u \in due[q] : Dropped(u) \/ q \in got[u]
      BY <2>2, <3>2, <3>3
    <3>4. pc' = pc
      BY <1>3 DEF ReadPublication
    <3>5. QED
      BY <3>1, <3>2, <3>3, <3>4
  <2>5. QED
    BY <2>3, <2>4
<1>4. CASE EnterPublication
  BY <1>2, <1>4 DEF EnterPublication
<1>5. CASE ReadRequest
  <2>1. inbox' \in Seq(Messages) /\ Head(inbox) \in Requests
    BY <1>5, TakeOne DEF ReadRequest
  <2>2. \A q : q # Head(inbox) /\ Waiting(q) => Waiting(q)'
    BY <1>5, OthersWait DEF ReadRequest
  <2>3. TypeOK' /\ GuardInv'
    BY <1>5, <2>1 DEF ReadRequest
  <2>4. NoPublicationMissed'
    BY <1>5, <2>1, <2>2 DEF ReadRequest
  <2>5. QED
    BY <2>3, <2>4
<1>6. CASE CallBack
  BY <1>6 DEF CallBack
<1>7. CASE CallbackReturned
  BY <1>7 DEF CallbackReturned
<1>8. CASE Reply
  BY <1>8 DEF Reply
<1>9. CASE Expire
  <2>1. spin \in {"queued", "calling", "replying"}
    BY <1>9 DEF Expire, Overdue
  <2>2. QED
    BY <1>9, <2>1 DEF Expire
<1>10. ASSUME NEW r \in Requests, CallbackEnds(r) PROVE IInv'
  BY <1>10 DEF CallbackEnds
<1>11. ASSUME NEW r \in Requests, CallbackTakesWriter(r) PROVE IInv'
  BY <1>11 DEF CallbackTakesWriter
<1>12. ASSUME NEW t \in Tasks, Ask(t) PROVE IInv'
  BY <1>12 DEF Ask
<1>13. ASSUME NEW t \in Tasks, TakeWriter(t) PROVE IInv'
  BY <1>13 DEF TakeWriter
<1>14. ASSUME NEW t \in Tasks, SendAndLeave(t) PROVE IInv'
  BY <1>14 DEF SendAndLeave
<1>15. ASSUME NEW t \in Tasks, InsertService(t) PROVE IInv'
  BY <1>15 DEF InsertService
<1>16. ASSUME NEW t \in Tasks, InsertUnblocked(t) PROVE IInv'
  BY <1>16 DEF InsertUnblocked
<1>17. ASSUME NEW t \in Tasks, RemoveService(t) PROVE IInv'
  BY <1>17 DEF RemoveService
<1>18. ASSUME NEW t \in Tasks, EnterTopic(t) PROVE IInv'
  BY <1>18 DEF EnterTopic
<1>19. ASSUME NEW t \in Tasks, SendSubscribe(t) PROVE IInv'
  BY <1>19 DEF SendSubscribe
<1>20. ASSUME NEW t \in Tasks, InsertHandle(t) PROVE IInv'
  BY <1>20 DEF InsertHandle
<1>21. ASSUME NEW t \in Tasks, RemoveHandle(t) PROVE IInv'
  BY <1>21 DEF RemoveHandle
<1>22. ASSUME NEW t \in Tasks, SendUnsubscribe(t) PROVE IInv'
  BY <1>22 DEF SendUnsubscribe
<1>23. CASE UNCHANGED vars
  BY <1>23 DEF vars
<1>24. QED
  BY <1>1, <1>3, <1>4, <1>5, <1>6, <1>7, <1>8, <1>9, <1>10, <1>11, <1>12,
     <1>13, <1>14, <1>15, <1>16, <1>17, <1>18, <1>19, <1>20, <1>21, <1>22, <1>23
     DEF Next, SpinStep, CallbackStep, Begin, Continue

(* The inductive invariant holds in every reachable state. *)
THEOREM Invariance == Spec => []IInv
<1>1. Init => IInv
  BY InitIInv
<1>2. IInv /\ [Next]_vars => IInv'
  BY StepIInv
<1>3. QED
  BY <1>1, <1>2, PTL DEF Spec

(* The variables keep their types. *)
THEOREM TypeCorrect == Spec => []TypeOK
<1>1. IInv => TypeOK
  BY DEF IInv
<1>2. QED
  BY <1>1, Invariance, PTL

(***************************************************************************)
(* No subscriber misses a publication the server sent it, however early    *)
(* the publication comes and whatever the 10 ms interrupt.                 *)
(***************************************************************************)
THEOREM NoneMissed == Spec => []NoPublicationMissed
<1>1. IInv => NoPublicationMissed
  BY DEF IInv
<1>2. QED
  BY <1>1, Invariance, PTL

-----------------------------------------------------------------------------
(***************************************************************************)
(* Who has the writer                                                      *)
(***************************************************************************)

(* Every step keeps track of who has the writer: a task that sends, the spin *)
(* task while it calls and replies, or a callback that publishes.            *)
LEMMA StepWriter == ASSUME IInv, WriterInv, [Next]_vars PROVE WriterInv'
<1> USE DispatchAssumption DEF IInv, TypeOK, GuardInv, WriterInv
<1>1. ASSUME NEW m \in Messages, ServerSends(m) PROVE WriterInv'
  BY <1>1 DEF ServerSends
<1>2. CASE ReadPublication
  BY <1>2 DEF ReadPublication
<1>3. CASE EnterPublication
  BY <1>3 DEF EnterPublication
<1>4. CASE ReadRequest
  BY <1>4 DEF ReadRequest
<1>5. CASE CallBack
  BY <1>5 DEF CallBack
<1>6. CASE CallbackReturned
  BY <1>6 DEF CallbackReturned
<1>7. CASE Reply
  BY <1>7 DEF Reply
<1>8. CASE Expire
  BY <1>8 DEF Expire, Overdue
<1>9. ASSUME NEW r \in Requests, CallbackEnds(r) PROVE WriterInv'
  BY <1>9 DEF CallbackEnds
<1>10. ASSUME NEW r \in Requests, CallbackTakesWriter(r) PROVE WriterInv'
  BY <1>10 DEF CallbackTakesWriter
<1>11. ASSUME NEW t \in Tasks, Ask(t) PROVE WriterInv'
  BY <1>11 DEF Ask
<1>12. ASSUME NEW t \in Tasks, TakeWriter(t) PROVE WriterInv'
  BY <1>12 DEF TakeWriter
<1>13. ASSUME NEW t \in Tasks, SendAndLeave(t) PROVE WriterInv'
  BY <1>13 DEF SendAndLeave
<1>14. ASSUME NEW t \in Tasks, InsertService(t) PROVE WriterInv'
  BY <1>14 DEF InsertService
<1>15. ASSUME NEW t \in Tasks, InsertUnblocked(t) PROVE WriterInv'
  BY <1>15 DEF InsertUnblocked
<1>16. ASSUME NEW t \in Tasks, RemoveService(t) PROVE WriterInv'
  BY <1>16 DEF RemoveService
<1>17. ASSUME NEW t \in Tasks, EnterTopic(t) PROVE WriterInv'
  BY <1>17 DEF EnterTopic
<1>18. ASSUME NEW t \in Tasks, SendSubscribe(t) PROVE WriterInv'
  BY <1>18 DEF SendSubscribe
<1>19. ASSUME NEW t \in Tasks, InsertHandle(t) PROVE WriterInv'
  BY <1>19 DEF InsertHandle
<1>20. ASSUME NEW t \in Tasks, RemoveHandle(t) PROVE WriterInv'
  BY <1>20 DEF RemoveHandle
<1>21. ASSUME NEW t \in Tasks, SendUnsubscribe(t) PROVE WriterInv'
  BY <1>21 DEF SendUnsubscribe
<1>22. CASE UNCHANGED vars
  BY <1>22 DEF vars
<1>23. QED
  BY <1>1, <1>2, <1>3, <1>4, <1>5, <1>6, <1>7, <1>8, <1>9, <1>10, <1>11, <1>12,
     <1>13, <1>14, <1>15, <1>16, <1>17, <1>18, <1>19, <1>20, <1>21, <1>22
     DEF Next, SpinStep, CallbackStep, Begin, Continue

-----------------------------------------------------------------------------
(***************************************************************************)
(* What becomes of a request                                               *)
(***************************************************************************)

(* The order in which a callback's states follow each other. *)
CallbacksFollow ==
    \A r \in Requests :
        /\ callback[r] = "ended" => callback'[r] = "ended"
        /\ callback[r] = "running" => callback'[r] # "none"
        /\ callback[r] = "none" => callback'[r] # "ended"

(* A message that is taken is not there a second time. *)
LEMMA TakenOnce ==
    ASSUME NEW S, inbox \in Seq(S), inbox # << >>, inbox' = Tail(inbox),
           \A i, j \in DOMAIN inbox : inbox[i] = inbox[j] => i = j
    PROVE  /\ \A i, j \in DOMAIN inbox' : inbox'[i] = inbox'[j] => i = j
           /\ \A q : q = Head(inbox) => Waiting(q) /\ ~ Waiting(q)'
           /\ \A q : Waiting(q)' => Waiting(q)
<1>1. /\ Len(inbox) \in Nat \ {0} /\ DOMAIN inbox = 1 .. Len(inbox)
      /\ DOMAIN inbox' = 1 .. Len(inbox) - 1
      /\ \A i \in 1 .. Len(inbox) - 1 : i + 1 \in DOMAIN inbox /\ inbox'[i] = inbox[i + 1]
      /\ 1 \in DOMAIN inbox /\ Head(inbox) = inbox[1]
  OBVIOUS
<1>2. \A i, j \in DOMAIN inbox' : inbox'[i] = inbox'[j] => i = j
  BY <1>1
<1>3. \A q : q = Head(inbox) => Waiting(q) /\ ~ Waiting(q)'
  BY <1>1 DEF Waiting
<1>4. \A q : Waiting(q)' => Waiting(q)
  BY <1>1 DEF Waiting
<1>5. QED
  BY <1>2, <1>3, <1>4

(* A message that is added to those of which it is none is there once. *)
LEMMA AddedOnce ==
    ASSUME NEW S, inbox \in Seq(S), NEW m \in S, inbox' = Append(inbox, m), ~ Waiting(m),
           \A i, j \in DOMAIN inbox : inbox[i] = inbox[j] => i = j
    PROVE  /\ \A i, j \in DOMAIN inbox' : inbox'[i] = inbox'[j] => i = j
           /\ \A q : Waiting(q)' => Waiting(q) \/ q = m
<1>1. /\ Len(inbox) \in Nat /\ DOMAIN inbox = 1 .. Len(inbox)
      /\ DOMAIN inbox' = 1 .. Len(inbox) + 1
      /\ \A i \in 1 .. Len(inbox) : inbox'[i] = inbox[i]
      /\ inbox'[Len(inbox) + 1] = m
  OBVIOUS
<1>2. \A i \in 1 .. Len(inbox) : inbox[i] # m
  BY <1>1 DEF Waiting
<1>3. \A i, j \in DOMAIN inbox' : inbox'[i] = inbox'[j] => i = j
  BY <1>1, <1>2
<1>4. \A q : Waiting(q)' => Waiting(q) \/ q = m
  BY <1>1 DEF Waiting
<1>5. QED
  BY <1>3, <1>4

(* Every step follows a request from the websocket to its answer. *)
LEMMA StepCallback ==
    ASSUME IInv, CallbackInv, AnsweredReturned, [Next]_vars
    PROVE  CallbackInv' /\ AnsweredReturned' /\ CallbacksFollow
<1> DEFINE Goal == CallbackInv' /\ AnsweredReturned' /\ CallbacksFollow
<1> USE DispatchAssumption
    DEF IInv, TypeOK, GuardInv, CallbackInv, AnsweredReturned, CallbacksFollow
<1>1. ASSUME NEW m \in Messages, ServerSends(m) PROVE Goal
  <2>1. inbox' = Append(inbox, m) /\ m \notin sent /\ sent' = sent \cup {m}
        /\ UNCHANGED <<spin, cur, callback, answered>>
    BY <1>1 DEF ServerSends
  <2>2. /\ \A i, j \in DOMAIN inbox' : inbox'[i] = inbox'[j] => i = j
        /\ \A q : Waiting(q)' => Waiting(q) \/ q = m
    BY <2>1, AddedOnce
  <2>3. cur' = cur /\ cur # m
    BY <2>1
  <2>4. ~ Waiting(cur)'
    BY <2>2, <2>3
  <2>5. QED
    BY <2>1, <2>2, <2>3, <2>4
<1>0. inbox' = inbox => \A q : Waiting(q)' <=> Waiting(q)
  BY DEF Waiting
<1>2. ASSUME spin = "reading", inbox # << >>, inbox' = Tail(inbox),
             \/ UNCHANGED spinVars
             \/ cur' = Head(inbox) /\ spin' \in {"entering", "queued"},
             UNCHANGED <<sent, callback, answered>>
      PROVE  Goal
  <2>1. /\ \A i, j \in DOMAIN inbox' : inbox'[i] = inbox'[j] => i = j
        /\ \A q : q = Head(inbox) => Waiting(q) /\ ~ Waiting(q)'
        /\ Head(inbox) \in Messages
        /\ \A q : Waiting(q)' => Waiting(q)
    BY <1>2, TakenOnce, TakeOne
  <2>2. cur = Nobody
    BY <1>2
  <2>3. \A q : q \in {Nobody, Head(inbox)} => ~ Waiting(q)'
    BY <2>1, <2>2
  <2>4. ~ Waiting(cur)'
    BY <1>2, <2>2, <2>3 DEF Waiting
  <2>5. QED
    BY <1>2, <2>1, <2>2, <2>4
<1>3. CASE ReadPublication
  BY <1>2, <1>3 DEF ReadPublication
<1>4. CASE ReadRequest
  BY <1>2, <1>4 DEF ReadRequest
<1> USE <1>0
<1>5. Nobody \notin Messages
  OBVIOUS
<1>6. ~ Waiting(Nobody)
  BY <1>5 DEF Waiting
<1> USE <1>6
<1>7. CASE EnterPublication
  BY <1>7 DEF EnterPublication
<1>8. CASE CallBack
  BY <1>8 DEF CallBack
<1>9. CASE CallbackReturned
  BY <1>9 DEF CallbackReturned
<1>10. CASE Reply
  BY <1>10 DEF Reply
<1>11. CASE Expire
  BY <1>11 DEF Expire, Overdue
<1>12. ASSUME NEW r \in Requests, CallbackEnds(r) PROVE Goal
  BY <1>12 DEF CallbackEnds
<1>13. ASSUME NEW r \in Requests, CallbackTakesWriter(r) PROVE Goal
  BY <1>13 DEF CallbackTakesWriter
<1>14. ASSUME NEW t \in Tasks, Begin(t) \/ Continue(t) PROVE Goal
  <2>1. UNCHANGED <<spinVars, inbox, sent, callback, answered>>
    BY <1>14 DEF Begin, Continue, Ask, TakeWriter, SendAndLeave, InsertService, InsertUnblocked,
                 RemoveService, EnterTopic, SendSubscribe, InsertHandle, RemoveHandle,
                 SendUnsubscribe
  <2>2. QED
    BY <2>1
<1>15. CASE UNCHANGED vars
  BY <1>15 DEF vars
<1>16. QED
  BY <1>1, <1>3, <1>4, <1>7, <1>8, <1>9, <1>10, <1>11, <1>12, <1>13, <1>14, <1>15
     DEF Next, SpinStep, CallbackStep

(* The invariants of the writer and of the requests hold in every reachable state. *)
THEOREM WaitInvariance == Spec => []WaitInv
<1>1. Init => WaitInv
  <2> SUFFICES ASSUME Init PROVE WaitInv
    OBVIOUS
  <2> USE DispatchAssumption DEF Init
  <2>1. WriterInv
    BY DEF WriterInv
  <2>2. CallbackInv
    BY DEF CallbackInv, Waiting
  <2>3. AnsweredReturned
    BY DEF AnsweredReturned
  <2>4. QED
    BY <2>1, <2>2, <2>3, InitIInv DEF WaitInv
<1>2. WaitInv /\ [Next]_vars => WaitInv'
  BY StepIInv, StepWriter, StepCallback DEF WaitInv
<1>3. QED
  BY <1>1, <1>2, PTL DEF Spec

(***************************************************************************)
(* A response on the websocket is that of a callback that has returned,    *)
(* whatever the 10 ms of the spin task interrupt.                          *)
(***************************************************************************)
THEOREM AnswersAreReturned == Spec => []AnsweredReturned
<1>1. WaitInv => AnsweredReturned
  BY DEF WaitInv
<1>2. QED
  BY <1>1, WaitInvariance, PTL

(***************************************************************************)
(* The callback of a request is called at most once: a spin_once that is   *)
(* dropped in handle_service leaves nothing that another would take up.    *)
(***************************************************************************)
THEOREM CallbacksRunOnce == Spec => CalledOnce
<1>1. WaitInv /\ [Next]_vars => [CallbacksFollow]_vars
  BY StepCallback DEF WaitInv
<1>2. QED
  BY <1>1, WaitInvariance, PTL DEF Spec, CalledOnce, CallbacksFollow

-----------------------------------------------------------------------------
(***************************************************************************)
(* Waiting in a circle                                                     *)
(***************************************************************************)

(* Of actors that all wait for one of them, and of which the spin task, if   *)
(* it is one, is not overdue, none waits for the writer: who has it, goes on. *)
LEMMA WriterGoesOn ==
    ASSUME WaitInv, NEW s \in SUBSET Actors,
           \A a \in s : \E b \in s : Waits(a, b),
           ~ (Spin \in s /\ Overdue)
    PROVE  writer \notin s
<1> USE DispatchAssumption DEF WaitInv, IInv, TypeOK, WriterInv, CallbackInv, GuardInv, Actors
<1> SUFFICES ASSUME writer \in s PROVE FALSE
  OBVIOUS
<1>1. PICK b \in s : Waits(writer, b)
  OBVIOUS
<1>2. CASE writer \in Tasks
  <2>1. pc[writer] \in {"holding", "sent", "parting"} \/ (writer \in New /\ pc[writer] = "entering")
    BY <1>2
  <2>2. writer \in New /\ pc[writer] = "entering" /\ SpinHoldsService /\ b = Spin
    BY <1>1, <1>2, <2>1 DEF Waits, WaitsForWriter, WaitsForGuard
  <2>3. spin = "queued"
    BY <1>2, <2>2 DEF SpinHoldsService
  <2>4. Overdue
    BY <1>2, <2>2, <2>3 DEF Overdue, Blocked
  <2>5. QED
    BY <2>2, <2>4
<1>3. CASE writer = Spin
  <2>1. spin = "calling" /\ callback[cur] = "running" /\ b = cur
    BY <1>1, <1>3 DEF Waits, WaitsForWriter, WaitsForGuard
  <2>2. cur \in Requests /\ cur \notin NestedCallbacks
    BY <1>3, <2>1 DEF Overdue
  <2>3. PICK c \in s : Waits(cur, c)
    BY <2>1
  <2>4. QED
    BY <2>2, <2>3 DEF Waits, WaitsForWriter, WaitsForGuard
<1>4. CASE writer \in Requests
  BY <1>1, <1>4 DEF Waits, WaitsForWriter, WaitsForGuard
<1>5. QED
  BY <1>2, <1>3, <1>4

(***************************************************************************)
(* Wherever tasks, callbacks and the spin task wait for each other in a    *)
(* circle, for the writer, a guard of a map or a callback, the spin task   *)
(* is one of them and its 10 ms end the circle: the locks of the client    *)
(* cannot deadlock as long as a thread is there to run the timer.          *)
(***************************************************************************)
THEOREM CirclesAreBroken == Spec => []CirclesEnd
<1>1. ASSUME WaitInv, NEW s \in SUBSET Actors,
             \A a \in s : \E b \in s : Waits(a, b),
             ~ (Spin \in s /\ Overdue)
      PROVE  s = {}
  <2> USE DispatchAssumption, <1>1 DEF WaitInv, IInv, TypeOK, WriterInv, CallbackInv, GuardInv, Actors
  <2>1. \A a \in s : ~ WaitsForWriter(a)
    <3> SUFFICES ASSUME NEW a \in s, WaitsForWriter(a) PROVE FALSE
      OBVIOUS
    <3>1. PICK b \in s : Waits(a, b)
      OBVIOUS
    <3>2. b = writer
      BY <3>1 DEF Waits, WaitsForWriter, WaitsForGuard
    <3>3. QED
      BY <3>2, WriterGoesOn
  <2>2. \A a \in s : ~ WaitsForGuard(a)
    <3> SUFFICES ASSUME NEW a \in s, WaitsForGuard(a) PROVE FALSE
      OBVIOUS
    <3>1. PICK b \in s : Waits(a, b)
      OBVIOUS
    <3>2. b = guard /\ guard \in Subs
      BY <3>1 DEF Waits, WaitsForWriter, WaitsForGuard, SpinHoldsService
    <3>3. pc[guard] \in {"queued", "holding", "sent", "alone", "parting"}
      BY <3>2
    <3>4. PICK c \in s : Waits(guard, c)
      BY <3>2
    <3>5. WaitsForWriter(guard)
      BY <3>2, <3>3, <3>4 DEF Waits, WaitsForWriter, WaitsForGuard
    <3>6. QED
      BY <2>1, <3>2, <3>5
  <2>3. Spin \notin s
    <3> SUFFICES ASSUME Spin \in s PROVE FALSE
      OBVIOUS
    <3>1. PICK b \in s : Waits(Spin, b)
      OBVIOUS
    <3>2. spin = "calling" /\ callback[cur] = "running" /\ b = cur
      BY <2>1, <2>2, <3>1 DEF Waits
    <3>3. cur \in Requests /\ cur \notin NestedCallbacks
      BY <3>2 DEF Overdue
    <3>4. PICK c \in s : Waits(cur, c)
      BY <3>2
    <3>5. QED
      BY <3>3, <3>4 DEF Waits, WaitsForWriter, WaitsForGuard
  <2>4. \A a \in s, b \in s : ~ Waits(a, b)
    BY <2>1, <2>2, <2>3 DEF Waits
  <2>5. QED
    BY <2>4
<1>2. WaitInv => CirclesEnd
  BY <1>1 DEF CirclesEnd
<1>3. QED
  BY <1>2, WaitInvariance, PTL

-----------------------------------------------------------------------------
(***************************************************************************)
(* Threads                                                                 *)
(***************************************************************************)

(***************************************************************************)
(* With a thread more than the guards of the maps can block, the runtime   *)
(* has a thread for what is ready, or a blocked one gets its guard.        *)
(***************************************************************************)
THEOREM ThreadsSuffice == Spec => []ThreadToCome
<1>1. ASSUME WaitInv, ThreadsNeeded < Workers, \A a \in Blocked : \E b \in Actors : Waits(a, b)
      PROVE  WorkerFree
  <2> USE DispatchAssumption, <1>1 DEF WaitInv, IInv, TypeOK, WriterInv, GuardInv, Actors
  <2> DEFINE entering == {t \in Tasks : pc[t] \in {"entering", "leaving"}}
  <2>0. /\ Cardinality(Old) \in Nat /\ Cardinality(Subs) \in Nat
        /\ Cardinality(Old \cup Subs) = Cardinality(Old) + Cardinality(Subs)
        /\ IsFiniteSet(Old \cup Subs)
    <3>1. Old \cap Subs = {}
      OBVIOUS
    <3>2. Cardinality(Old \cap Subs) = 0
      BY <3>1, FS_EmptySet
    <3>3. IsFiniteSet(Old) /\ IsFiniteSet(Subs)
      OBVIOUS
    <3>4. /\ IsFiniteSet(Old \cup Subs)
          /\ Cardinality(Old \cup Subs) =
                Cardinality(Old) + Cardinality(Subs) - Cardinality(Old \cap Subs)
      BY <3>3, FS_Union, Zenon
    <3>5. Cardinality(Old) \in Nat /\ Cardinality(Subs) \in Nat
      BY <3>3, FS_CardinalityType, Zenon
    <3>6. QED
      BY <3>2, <3>4, <3>5
  <2>1. \A u \in Subs : pc[u] \in {"entering", "leaving"} => guard \in Subs
    BY DEF Waits, WaitsForWriter, WaitsForGuard, Blocked
  <2>2. spin = "entering" => guard \in Subs
    BY DEF Waits, WaitsForWriter, WaitsForGuard, Blocked, SpinHoldsService
  <2>3. spin = "entering" => entering \subseteq Subs
    BY DEF Waits, WaitsForWriter, WaitsForGuard, Blocked, SpinHoldsService
  <2>4. guard \notin entering
    OBVIOUS
  <2> DEFINE one == IF spin = "entering" THEN Spin ELSE writer
             rest == IF guard \in Subs THEN (Old \cup Subs) \ {guard} ELSE Old
  <2>5. Blocked \subseteq rest \cup {one}
    BY <2>1, <2>3, <2>4 DEF Blocked, Dropped
  <2>6. IsFiniteSet(rest) /\ Cardinality(rest) \in Nat /\ Cardinality(rest) < ThreadsNeeded
    <3>1. CASE guard \in Subs
      <4>1. Cardinality(rest) = Cardinality(Old) + Cardinality(Subs) - 1 /\ IsFiniteSet(rest)
        <5>1. guard \in Old \cup Subs
          BY <3>1
        <5>2. /\ IsFiniteSet((Old \cup Subs) \ {guard})
              /\ Cardinality((Old \cup Subs) \ {guard}) = Cardinality(Old \cup Subs) - 1
          BY <5>1, <2>0, FS_RemoveElement, Zenon
        <5>3. QED
          BY <3>1, <2>0, <5>2
      <4>2. QED
        BY <3>1, <4>1, <2>0, FS_CardinalityType DEF ThreadsNeeded
    <3>2. CASE guard \notin Subs
      <4>1. Subs # {} => Cardinality(Subs) # 0
        BY FS_EmptySet
      <4>2. QED
        BY <3>2, <4>1, <2>0 DEF ThreadsNeeded
    <3>3. QED
      BY <3>1, <3>2
  <2> HIDE DEF one, rest
  <2>7. IsFiniteSet(rest \cup {one}) /\ Cardinality(rest \cup {one}) <= Cardinality(rest) + 1
    <3>1. /\ IsFiniteSet(rest \cup {one})
          /\ Cardinality(rest \cup {one}) = IF one \in rest THEN Cardinality(rest)
                                            ELSE Cardinality(rest) + 1
      BY <2>6, FS_AddElement, Zenon
    <3>2. QED
      BY <2>6, <3>1
  <2>8. Cardinality(Blocked) <= Cardinality(rest \cup {one}) /\ IsFiniteSet(Blocked)
    BY <2>5, <2>7, FS_Subset
  <2>9. QED
    BY <2>6, <2>7, <2>8, <2>0, FS_CardinalityType DEF WorkerFree, ThreadsNeeded
<1>2. WaitInv => ThreadToCome
  BY <1>1 DEF ThreadToCome
<1>3. QED
  BY <1>2, WaitInvariance, PTL

(***************************************************************************)
(* Together: whatever tasks, callbacks and messages there are, the client  *)
(* does not come to a stop in which all that is under way waits for ever.  *)
(***************************************************************************)
THEOREM NobodyIsStuck == Spec => []NoDeadlock
BY CirclesAreBroken, ThreadsSuffice, PTL DEF NoDeadlock

=============================================================================

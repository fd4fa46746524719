----------------------- MODULE TransformManager_proofs -----------------------
(***************************************************************************)
(* Proofs about one topic of the mock, for any users of any types, and     *)
(* about the transform managers that use it, for any number of managers,   *)
(* waiters and transforms.                                                 *)
(***************************************************************************)
EXTENDS TransformManager, TLAPS

-----------------------------------------------------------------------------
(***************************************************************************)
(* MockTopics                                                              *)
(***************************************************************************)

(* A topic starts without an entry and without users. *)
LEMMA TopicStarts == ASSUME TopicInit PROVE TopicInv
<1> USE ManagersAssumption DEF TopicConstants, TopicInit
<1>1. TopicTypeOK
  <2>1. << >> \in Seq(Messages)
    OBVIOUS
  <2>2. QED
    BY <2>1 DEF TopicTypeOK, Users
<1>2. ChannelInv /\ OneTypePerChannel /\ OneChannel
  BY DEF ChannelInv, OneTypePerChannel, OneChannel
<1>3. QED
  BY <1>1, <1>2 DEF TopicInv

(* What a call of advertise or subscribe does to the topic. *)
LEMMA TopicOpens == ASSUME TopicInv, NEW u \in Users, Open(u) PROVE TopicInv' /\ log' = log
<1> USE ManagersAssumption DEF TopicConstants
<1>0. TopicTypeOK /\ ChannelInv /\ OneChannel
  BY DEF TopicInv
<1>1. CASE LookInVain(u) \/ Refuse(u)
  <2>1. /\ user[u] = "idle"
        /\ user' = [user EXCEPT ![u] = "creating"] \/ user' = [user EXCEPT ![u] = "refused"]
        /\ UNCHANGED <<type, topic, channel, log, pos, lagged, split>>
    BY <1>1 DEF LookInVain, Refuse
  <2>2. /\ \A v \in Users : v # u => user'[v] = user[v]
        /\ user'[u] \in {"creating", "refused"}
    BY <1>0, <2>1 DEF TopicTypeOK
  <2>3. TopicTypeOK'
    BY <1>0, <2>1 DEF TopicTypeOK
  <2>4. ChannelInv'
    BY <1>0, <2>1, <2>2 DEF ChannelInv
  <2>5. OneChannel'
    BY <1>0, <2>1, <2>2 DEF OneChannel
  <2>6. OneTypePerChannel'
    BY <2>4 DEF ChannelInv, OneTypePerChannel
  <2>7. QED
    BY <2>1, <2>3, <2>4, <2>5, <2>6 DEF TopicInv
<1>2. CASE Share(u)
  <2>1. /\ user[u] = "idle" /\ topic # NoTopic /\ type[topic] = type[u]
        /\ user' = [user EXCEPT ![u] = "live"] /\ channel' = [channel EXCEPT ![u] = topic]
        /\ UNCHANGED <<type, topic, log, lagged, split>>
    BY <1>2 DEF Share
  <2>2. topic \in Users /\ Len(log[topic]) \in Nat
    BY <1>0, <2>1 DEF TopicTypeOK
  <2>3. pos' \in [Subs -> Nat]
    BY <1>0, <1>2, <2>2 DEF TopicTypeOK, Share
  <2>4. /\ \A v \in Users : v # u => user'[v] = user[v] /\ channel'[v] = channel[v]
        /\ user'[u] = "live" /\ channel'[u] = topic
    BY <1>0, <2>1 DEF TopicTypeOK
  <2>5. TopicTypeOK'
    BY <1>0, <2>1, <2>2, <2>3 DEF TopicTypeOK
  <2>6. ChannelInv'
    BY <1>0, <2>1, <2>4 DEF ChannelInv
  <2>7. OneChannel'
    BY <1>0, <2>1, <2>4 DEF OneChannel
  <2>8. OneTypePerChannel'
    BY <2>6 DEF ChannelInv, OneTypePerChannel
  <2>9. QED
    BY <2>1, <2>5, <2>6, <2>7, <2>8 DEF TopicInv
<1>3. CASE Insert(u)
  <2>1. /\ user[u] = "creating" /\ user' = [user EXCEPT ![u] = "live"] /\ topic' = u
        /\ split' = (split \/ topic # NoTopic)
        /\ UNCHANGED <<type, channel, log, pos, lagged>>
    BY <1>3 DEF Insert
  <2>2. /\ \A v \in Users : v # u => user'[v] = user[v]
        /\ user'[u] = "live"
    BY <1>0, <2>1 DEF TopicTypeOK
  <2>3. TopicTypeOK'
    BY <1>0, <2>1 DEF TopicTypeOK
  <2>4. ChannelInv'
    <3>1. topic' # NoTopic
      BY <2>1
    <3>2. QED
      BY <1>0, <2>1, <2>2, <3>1 DEF ChannelInv
  <2>5. OneChannel'
    <3>1. ASSUME ~ split', NEW v \in Users, user'[v] = "live" PROVE channel'[v] = topic'
      <4>1. topic = NoTopic
        BY <2>1, <3>1
      <4>2. v = u
        BY <1>0, <2>2, <3>1, <4>1 DEF ChannelInv
      <4>3. QED
        BY <1>0, <2>1, <4>2 DEF ChannelInv
    <3>2. QED
      BY <3>1 DEF OneChannel
  <2>6. OneTypePerChannel'
    BY <2>4 DEF ChannelInv, OneTypePerChannel
  <2>7. QED
    BY <2>1, <2>3, <2>4, <2>5, <2>6 DEF TopicInv
<1>4. QED
  BY <1>1, <1>2, <1>3 DEF Open

(* A handle that goes leaves the topic as it is. *)
LEMMA TopicKept ==
    ASSUME TopicInv, NEW u \in Users, DropHandle(u) PROVE TopicInv' /\ log' = log
<1>0. TopicTypeOK /\ ChannelInv /\ OneChannel
  BY DEF TopicInv
<1>1. /\ user[u] = "live" /\ user' = [user EXCEPT ![u] = "dropped"]
      /\ UNCHANGED <<type, topic, channel, log, pos, lagged, split>>
  BY DEF DropHandle
<1>2. /\ \A v \in Users : v # u => user'[v] = user[v]
      /\ user'[u] = "dropped"
  BY <1>0, <1>1 DEF TopicTypeOK
<1>3. TopicTypeOK'
  BY <1>0, <1>1 DEF TopicTypeOK
<1>4. ChannelInv'
  BY <1>0, <1>1, <1>2 DEF ChannelInv
<1>5. OneChannel' /\ OneTypePerChannel'
  BY <1>0, <1>1, <1>2, <1>4 DEF OneChannel, ChannelInv, OneTypePerChannel
<1>6. QED
  BY <1>1, <1>3, <1>4, <1>5 DEF TopicInv

(* What has been sent stays sent, and what is sent is. *)
LEMMA TopicSends ==
    ASSUME TopicInv, NEW p \in Pubs, NEW m \in Messages, Publish(p, m)
    PROVE  TopicInv' /\ Sent(m)' /\ \A x : Sent(x) => Sent(x)'
<1>0. TopicTypeOK /\ ChannelInv /\ OneChannel /\ OneTypePerChannel
  BY DEF TopicInv
<1> DEFINE k == channel[p]
<1>1. /\ log' = [log EXCEPT ![k] = Append(@, m)]
      /\ UNCHANGED <<type, topic, user, channel, pos, lagged, split>>
  BY DEF Publish
<1>2. k \in Users /\ log \in [Users -> Seq(Messages)]
  BY <1>0 DEF TopicTypeOK, Users
<1>3. log'[k] = Append(log[k], m) /\ \A u \in Users : u # k => log'[u] = log[u]
  BY <1>1, <1>2
<1>4. /\ log'[k] \in Seq(Messages) /\ Len(log'[k]) = Len(log[k]) + 1 /\ Len(log[k]) \in Nat
      /\ log'[k][Len(log[k]) + 1] = m
      /\ \A i \in 1 .. Len(log[k]) : log'[k][i] = log[k][i]
  <2>1. log[k] \in Seq(Messages)
    BY <1>2
  <2>2. ASSUME NEW q \in Seq(Messages)
        PROVE  /\ Append(q, m) \in Seq(Messages) /\ Len(Append(q, m)) = Len(q) + 1
               /\ Len(q) \in Nat /\ Append(q, m)[Len(q) + 1] = m
               /\ \A i \in 1 .. Len(q) : Append(q, m)[i] = q[i]
    OBVIOUS
  <2>3. QED
    BY <1>3, <2>1, <2>2
<1> HIDE DEF k
<1>5. TopicTypeOK'
  <2>1. log' \in [Users -> Seq(Messages)]
    BY <1>1, <1>2, <1>3, <1>4
  <2>2. QED
    BY <1>0, <1>1, <2>1 DEF TopicTypeOK
<1>6. ChannelInv' /\ OneChannel' /\ OneTypePerChannel'
  BY <1>0, <1>1 DEF ChannelInv, OneChannel, OneTypePerChannel
<1>7. Sent(m)'
  <2>1. Len(log[k]) + 1 \in 1 .. Len(log'[k])
    BY <1>4
  <2>2. QED
    BY <1>2, <1>4, <2>1 DEF Sent
<1>8. ASSUME NEW x, Sent(x) PROVE Sent(x)'
  <2>0. PICK u \in Users : \E i \in 1 .. Len(log[u]) : log[u][i] = x
    BY <1>8 DEF Sent
  <2>1. PICK i \in 1 .. Len(log[u]) : log[u][i] = x
    BY <2>0
  <2>2. CASE u # k
    BY <1>3, <2>1, <2>2 DEF Sent
  <2>3. CASE u = k
    <3>1. i \in 1 .. Len(log'[k]) /\ log'[k][i] = x
      BY <1>4, <2>1, <2>3
    <3>2. QED
      BY <1>2, <3>1 DEF Sent
  <2>4. QED
    BY <2>2, <2>3
<1>9. QED
  BY <1>5, <1>6, <1>7, <1>8 DEF TopicInv

(* A receiver takes a message that was sent, or skips some. *)
LEMMA TopicReceives ==
    ASSUME TopicInv, NEW s \in Subs, Receive(s) \/ Lag(s)
    PROVE  TopicInv' /\ log' = log /\ (Receive(s) => Sent(Received(s)))
<1>0. TopicTypeOK /\ ChannelInv /\ OneChannel /\ OneTypePerChannel
  BY DEF TopicInv
<1>1. /\ UNCHANGED <<type, topic, user, channel, log, split>>
      /\ Capacity \in Nat /\ pos[s] \in Nat /\ Len(log[channel[s]]) \in Nat
      /\ s \in Users /\ channel[s] \in Users
  <2>1. s \in Users /\ channel[s] \in Users
    BY <1>0 DEF TopicTypeOK, Users
  <2>2. log[channel[s]] \in Seq(Messages)
    BY <1>0, <2>1 DEF TopicTypeOK
  <2>3. QED
    BY <1>0, <2>1, <2>2, ManagersAssumption DEF TopicTypeOK, TopicConstants, Receive, Lag
<1>2. pos' \in [Subs -> Nat]
  <2>1. CASE Receive(s)
    BY <1>0, <1>1, <2>1 DEF TopicTypeOK, Receive
  <2>2. CASE Lag(s)
    <3>1. Len(log[channel[s]]) - Capacity \in Nat
      BY <1>1, <2>2 DEF Lag, Behind
    <3>2. QED
      BY <1>0, <2>2, <3>1 DEF TopicTypeOK, Lag
  <2>3. QED
    BY <2>1, <2>2
<1>3. lagged' \subseteq Subs
  BY <1>0 DEF TopicTypeOK, Receive, Lag
<1>4. TopicTypeOK'
  BY <1>0, <1>1, <1>2, <1>3 DEF TopicTypeOK
<1>5. ChannelInv' /\ OneChannel' /\ OneTypePerChannel'
  BY <1>0, <1>1 DEF ChannelInv, OneChannel, OneTypePerChannel
<1>6. ASSUME Receive(s) PROVE Sent(Received(s))
  <2>1. pos[s] + 1 \in 1 .. Len(log[channel[s]])
    BY <1>1, <1>6 DEF Receive, Behind
  <2>2. QED
    BY <1>1, <2>1 DEF Sent, Received
<1>7. QED
  BY <1>1, <1>4, <1>5, <1>6 DEF TopicInv

(* A message that was sent is one. *)
LEMMA SentIsMessage == ASSUME TopicInv, NEW x, Sent(x) PROVE x \in Messages
<1>1. PICK u \in Users : \E i \in 1 .. Len(log[u]) : log[u][i] = x
  BY DEF Sent
<1>2. log[u] \in Seq(Messages)
  BY DEF TopicInv, TopicTypeOK
<1>3. QED
  BY <1>1, <1>2

-----------------------------------------------------------------------------
(***************************************************************************)
(* TransformManager                                                        *)
(***************************************************************************)

(* Nothing is sent or known before the first manager is made. *)
LEMMA InitIInv == ASSUME Init PROVE IInv
<1>1. TopicInv /\ TopicTypeOK
  BY TopicStarts DEF Init, TopicInv
<1>2. TypeOK
  BY <1>1 DEF Init, TypeOK
<1>3. WakeInv /\ SentInv /\ KnownIsPublished
  BY ManagersAssumption DEF Init, WakeInv, SentInv, KnownIsPublished
<1>4. QED
  BY <1>1, <1>2, <1>3 DEF IInv

(* The same messages are sent while no log changes. *)
LEMMA SameSent == ASSUME log' = log PROVE \A x : Sent(x)' <=> Sent(x)
BY DEF Sent

(* Steps that leave alone what the invariants of waiters and of what was sent *)
(* speak of, keep them.                                                       *)
LEMMA OthersKeep ==
    ASSUME IInv, log' = log, UNCHANGED <<taken, registry, addVars, waitVars>>,
           \A m \in Managers : task'[m] = "applying" => task[m] = "applying"
    PROVE  WakeInv' /\ SentInv' /\ KnownIsPublished'
<1>0. WakeInv /\ SentInv /\ KnownIsPublished
  BY DEF IInv
<1>1. WakeInv'
  BY <1>0 DEF WakeInv, Found, addVars, waitVars
<1>2. SentInv'
  BY <1>0, SameSent DEF SentInv, addVars
<1>3. KnownIsPublished'
  BY <1>0, SameSent DEF KnownIsPublished
<1>4. QED
  BY <1>1, <1>2, <1>3

(* The construction of a manager keeps the invariant. *)
LEMMA ConstructStep == ASSUME IInv, NEW m \in Managers, Construct(m) PROVE IInv'
<1>0. TypeOK /\ TopicInv
  BY DEF IInv
<1>1. TopicInv' /\ log' = log
  <2>1. SubOf[m] \in Users /\ PubOf[m] \in Users
    BY ManagersAssumption DEF Users
  <2>2. QED
    BY <1>0, <2>1, TopicOpens DEF Construct
<1>2. manager' \in [Managers -> {"new", "subscribed", "running", "failed", "dropped"}]
  BY <1>0 DEF TypeOK, Construct, Constructed
<1>3. task' = task \/ task' = [task EXCEPT ![m] = "select"]
  BY DEF Construct
<1>4. UNCHANGED <<taken, registry, addVars, waitVars, due>>
  BY DEF Construct
<1>5. TypeOK'
  BY <1>0, <1>1, <1>2, <1>3, <1>4 DEF TypeOK, TopicInv, addVars, waitVars
<1>6. \A n \in Managers : task'[n] = "applying" => task[n] = "applying"
  BY <1>0, <1>3 DEF TypeOK
<1>7. QED
  BY <1>1, <1>4, <1>5, <1>6, OthersKeep DEF IInv

(* The end of a manager and of its task keeps the invariant. *)
LEMMA EndStep == ASSUME IInv, NEW m \in Managers, Drop(m) \/ Stop(m) PROVE IInv'
<1>0. TypeOK /\ TopicInv
  BY DEF IInv
<1>1. TopicInv' /\ log' = log
  <2>1. SubOf[m] \in Users /\ PubOf[m] \in Users
    BY ManagersAssumption DEF Users
  <2>2. QED
    BY <1>0, <2>1, TopicKept DEF Drop, Stop
<1>2. /\ task' = task \/ task' = [task EXCEPT ![m] = "ended"]
      /\ manager' = manager \/ manager' = [manager EXCEPT ![m] = "dropped"]
      /\ UNCHANGED <<taken, registry, addVars, waitVars, due>>
  BY DEF Drop, Stop
<1>3. TypeOK'
  BY <1>0, <1>1, <1>2 DEF TypeOK, TopicInv, addVars, waitVars
<1>4. \A n \in Managers : task'[n] = "applying" => task[n] = "applying"
  BY <1>0, <1>2 DEF TypeOK
<1>5. QED
  BY <1>1, <1>2, <1>3, <1>4, OthersKeep DEF IInv

(* The task takes a message, or learns that it missed some. *)
LEMMA TakeStep == ASSUME IInv, NEW m \in Managers, Take(m) \/ TakeLags(m) PROVE IInv'
<1>0. TypeOK /\ TopicInv /\ WakeInv /\ SentInv /\ KnownIsPublished
  BY DEF IInv
<1> DEFINE s == SubOf[m]
<1>1. s \in Subs
  BY ManagersAssumption
<1>2. TopicInv' /\ log' = log
  BY <1>0, <1>1, TopicReceives DEF Take, TakeLags
<1>3. CASE TakeLags(m)
  <2>1. UNCHANGED <<managerVars, addVars, waitVars, due>>
    BY <1>3 DEF TakeLags
  <2>2. TypeOK'
    BY <1>0, <1>2, <2>1 DEF TypeOK, TopicInv, managerVars, addVars, waitVars
  <2>3. QED
    BY <1>2, <2>1, <2>2, OthersKeep DEF IInv, managerVars
<1>4. CASE Take(m)
  <2>1. /\ taken' = [taken EXCEPT ![m] = Received(s)]
        /\ task' = [task EXCEPT ![m] = "applying"]
        /\ UNCHANGED <<manager, registry, addVars, waitVars, due>>
    BY <1>4 DEF Take
  <2>2. Sent(Received(s))
    BY <1>0, <1>1, <1>4, TopicReceives DEF Take
  <2>3. Received(s) \in Transforms
    BY <1>0, <2>2, SentIsMessage, ManagersAssumption
  <2>4. TypeOK'
    BY <1>0, <1>2, <2>1, <2>3 DEF TypeOK, TopicInv, addVars, waitVars
  <2>5. SentInv'
    <3>1. ASSUME NEW n \in Managers, task'[n] = "applying" PROVE Sent(taken'[n])
      <4>1. CASE n = m
        BY <1>0, <2>1, <2>2, <4>1 DEF TypeOK
      <4>2. CASE n # m
        BY <1>0, <2>1, <3>1, <4>2 DEF TypeOK, SentInv
      <4>3. QED
        BY <4>1, <4>2
    <3>2. QED
      BY <1>0, <1>2, <2>1, <3>1, SameSent DEF SentInv, addVars
  <2>6. WakeInv' /\ KnownIsPublished'
    BY <1>0, <1>2, <2>1, SameSent DEF WakeInv, KnownIsPublished, Found, addVars, waitVars
  <2>7. QED
    BY <1>2, <2>4, <2>5, <2>6 DEF IInv
<1>5. QED
  BY <1>3, <1>4

(* What a message brings is notified with it. *)
LEMMA ApplyStep == ASSUME IInv, NEW m \in Managers, Apply(m) PROVE IInv'
<1>0. TypeOK /\ TopicInv /\ WakeInv /\ SentInv /\ KnownIsPublished
  BY DEF IInv
<1>1. /\ task[m] = "applying" /\ registry' = [registry EXCEPT ![m] = @ \cup {taken[m]}]
      /\ Notify(m) /\ taken' = [taken EXCEPT ![m] = Nothing]
      /\ task' = [task EXCEPT ![m] = "select"]
      /\ UNCHANGED <<topicVars, manager, addVars, wait, due>>
  BY DEF Apply
<1>2. TopicInv' /\ log' = log
  BY <1>0, <1>1 DEF topicVars, TopicInv, TopicTypeOK, ChannelInv, OneTypePerChannel, OneChannel
<1>3. Sent(taken[m]) /\ taken[m] \in Transforms
  <2>1. Sent(taken[m])
    BY <1>0, <1>1 DEF SentInv
  <2>2. QED
    BY <1>0, <2>1, SentIsMessage, ManagersAssumption
<1>4. /\ registry'[m] = registry[m] \cup {taken[m]}
      /\ \A n \in Managers \ {m} : registry'[n] = registry[n]
  BY <1>0, <1>1 DEF TypeOK
<1>5. notified' = [w \in Waiters |->
          notified[w] \/ (At[w] = m /\ wait[w] \in {"checking", "missing", "waiting"})]
  BY <1>1 DEF Notify
<1>6. notified' \in [Waiters -> BOOLEAN]
  BY <1>0, <1>5 DEF TypeOK
<1>7. TypeOK'
  BY <1>0, <1>1, <1>2, <1>3, <1>6 DEF TypeOK, TopicInv, addVars
<1>8. WakeInv'
  <2>1. ASSUME NEW w \in Waiters, wait[w] \in {"missing", "waiting"},
               Needs[w] \subseteq registry'[At[w]]
        PROVE  notified'[w] \/ added[At[w]] = "registered"
    <3>1. CASE At[w] = m
      BY <1>5, <2>1, <3>1
    <3>2. CASE At[w] # m
      <4>1. Found(w)
        BY <1>4, <2>1, <3>2, ManagersAssumption DEF Found
      <4>2. notified[w] \/ added[At[w]] = "registered"
        BY <1>0, <2>1, <4>1 DEF WakeInv
      <4>3. QED
        BY <1>5, <4>2
    <3>3. QED
      BY <3>1, <3>2
  <2>2. QED
    BY <1>1, <2>1 DEF WakeInv, Found, addVars
<1>9. SentInv'
  BY <1>0, <1>1, <1>2, SameSent DEF SentInv, TypeOK, addVars
<1>10. KnownIsPublished'
  BY <1>0, <1>2, <1>3, <1>4, SameSent DEF KnownIsPublished
<1>11. QED
  BY <1>2, <1>7, <1>8, <1>9, <1>10 DEF IInv

(* A transform is sent before it is registered anywhere. *)
LEMMA PublishStep ==
    ASSUME IInv, NEW m \in Managers, NEW x \in Transforms, AddPublishes(m, x) PROVE IInv'
<1>0. TypeOK /\ TopicInv /\ WakeInv /\ SentInv /\ KnownIsPublished
  BY DEF IInv
<1>1. /\ Publish(PubOf[m], x)
      /\ added[m] = "no" /\ adding' = [adding EXCEPT ![m] = x]
      /\ added' = [added EXCEPT ![m] = "published"]
      /\ UNCHANGED <<managerVars, waitVars>>
  BY DEF AddPublishes
<1>2. TopicInv' /\ Sent(x)' /\ \A y : Sent(y) => Sent(y)'
  BY <1>0, <1>1, TopicSends, ManagersAssumption
<1>3. due' \in [Managers -> SUBSET Transforms]
  BY <1>0 DEF TypeOK, AddPublishes, Owe
<1>4. TypeOK'
  BY <1>0, <1>1, <1>2, <1>3 DEF TypeOK, TopicInv, managerVars, waitVars
<1>5. /\ adding'[m] = x /\ added'[m] = "published"
      /\ \A n \in Managers \ {m} : adding'[n] = adding[n] /\ added'[n] = added[n]
  BY <1>0, <1>1 DEF TypeOK
<1>6. WakeInv'
  <2>1. ASSUME NEW w \in Waiters, added[At[w]] = "registered"
        PROVE  added'[At[w]] = "registered"
    BY <1>1, <1>5, <2>1, ManagersAssumption
  <2>2. QED
    BY <1>0, <1>1, <2>1 DEF WakeInv, Found, managerVars, waitVars
<1>7. SentInv'
  <2>1. ASSUME NEW n \in Managers, added'[n] # "no" PROVE Sent(adding[n])' 
    <3>1. CASE n = m
      BY <1>2, <1>5, <3>1 DEF Sent
    <3>2. CASE n # m
      <4>1. Sent(adding[n]) /\ adding'[n] = adding[n]
        BY <1>0, <1>5, <2>1, <3>2 DEF SentInv
      <4>2. QED
        BY <1>2, <4>1 DEF Sent
    <3>3. QED
      BY <3>1, <3>2
  <2>2. ASSUME NEW n \in Managers, task'[n] = "applying" PROVE Sent(taken[n])'
    <3>1. Sent(taken[n]) /\ taken'[n] = taken[n]
      BY <1>0, <1>1, <2>2 DEF SentInv, managerVars
    <3>2. QED
      BY <1>2, <3>1 DEF Sent
  <2>3. QED
    BY <2>1, <2>2 DEF SentInv
<1>8. KnownIsPublished'
  BY <1>0, <1>1, <1>2 DEF KnownIsPublished, managerVars
<1>9. QED
  BY <1>2, <1>4, <1>6, <1>7, <1>8 DEF IInv

(* Between the registration of a transform and its notification the call of *)
(* add_transform is there to notify.                                        *)
LEMMA RegisterStep == ASSUME IInv, NEW m \in Managers, AddStep(m) PROVE IInv'
<1>0. TypeOK /\ TopicInv /\ WakeInv /\ SentInv /\ KnownIsPublished
  BY DEF IInv
<1>1. UNCHANGED topicVars /\ log' = log /\ UNCHANGED <<manager, task, taken, wait, due>>
  BY DEF AddStep, AddRegisters, AddNotifies, topicVars, managerVars, waitVars
<1>2. TopicInv'
  BY <1>0, <1>1 DEF topicVars, TopicInv, TopicTypeOK, ChannelInv, OneTypePerChannel, OneChannel
<1>3. CASE AddRegisters(m)
  <2>1. /\ added[m] = "published" /\ added' = [added EXCEPT ![m] = "registered"]
        /\ registry' = [registry EXCEPT ![m] = @ \cup {adding[m]}]
        /\ UNCHANGED <<adding, notified>>
    BY <1>3 DEF AddRegisters, waitVars
  <2>2. Sent(adding[m]) /\ adding[m] \in Transforms
    <3>1. Sent(adding[m])
      BY <1>0, <2>1 DEF SentInv
    <3>2. QED
      BY <1>0, <3>1, SentIsMessage, ManagersAssumption
  <2>3. TypeOK'
    BY <1>0, <1>1, <1>2, <2>1, <2>2 DEF TypeOK, TopicInv
  <2>4. /\ added'[m] = "registered" /\ registry'[m] = registry[m] \cup {adding[m]}
        /\ \A n \in Managers \ {m} : added'[n] = added[n] /\ registry'[n] = registry[n]
    BY <1>0, <2>1 DEF TypeOK
  <2>5. WakeInv'
    <3>1. ASSUME NEW w \in Waiters, wait[w] \in {"missing", "waiting"},
                 Needs[w] \subseteq registry'[At[w]]
          PROVE  notified[w] \/ added'[At[w]] = "registered"
      <4>1. CASE At[w] = m
        BY <2>4, <4>1
      <4>2. CASE At[w] # m
        BY <1>0, <2>4, <3>1, <4>2, ManagersAssumption DEF WakeInv, Found
      <4>3. QED
        BY <4>1, <4>2
    <3>2. QED
      BY <1>1, <2>1, <3>1 DEF WakeInv, Found
  <2>6. SentInv'
    <3>1. \A n \in Managers : added'[n] # "no" => added[n] # "no"
      BY <2>1, <2>4
    <3>2. QED
      BY <1>0, <1>1, <2>1, <3>1, SameSent DEF SentInv
  <2>7. KnownIsPublished'
    BY <1>0, <1>1, <2>2, <2>4, SameSent DEF KnownIsPublished
  <2>8. QED
    BY <1>2, <2>3, <2>5, <2>6, <2>7 DEF IInv
<1>4. CASE AddNotifies(m)
  <2>1. /\ Notify(m) /\ registry' = registry
        /\ adding' = [adding EXCEPT ![m] = Nothing] /\ added' = [added EXCEPT ![m] = "no"]
    BY <1>4 DEF AddNotifies, managerVars
  <2>2. notified' = [w \in Waiters |->
            notified[w] \/ (At[w] = m /\ wait[w] \in {"checking", "missing", "waiting"})]
    BY <2>1 DEF Notify
  <2>3. notified' \in [Waiters -> BOOLEAN]
    BY <1>0, <2>2 DEF TypeOK
  <2>4. TypeOK'
    BY <1>0, <1>1, <1>2, <2>1, <2>3 DEF TypeOK, TopicInv
  <2>5. /\ added'[m] = "no"
        /\ \A n \in Managers \ {m} : added'[n] = added[n] /\ adding'[n] = adding[n]
    BY <1>0, <2>1 DEF TypeOK
  <2>6. WakeInv'
    <3>1. ASSUME NEW w \in Waiters, wait[w] \in {"missing", "waiting"}, Found(w)
          PROVE  notified'[w] \/ added'[At[w]] = "registered"
      <4>1. CASE At[w] = m
        BY <2>2, <3>1, <4>1
      <4>2. CASE At[w] # m
        <5>1. notified[w] \/ added[At[w]] = "registered"
          BY <1>0, <3>1 DEF WakeInv
        <5>2. CASE notified[w]
          BY <2>2, <5>2
        <5>3. CASE added[At[w]] = "registered"
          BY <2>5, <4>2, <5>3, ManagersAssumption
        <5>4. QED
          BY <5>1, <5>2, <5>3
      <4>3. QED
        BY <4>1, <4>2
    <3>2. QED
      BY <1>1, <2>1, <3>1 DEF WakeInv, Found
  <2>7. SentInv'
    <3>1. \A n \in Managers : added'[n] # "no" => added[n] # "no" /\ adding'[n] = adding[n]
      BY <2>5
    <3>2. QED
      BY <1>0, <1>1, <3>1, SameSent DEF SentInv
  <2>8. KnownIsPublished'
    BY <1>0, <1>1, <2>1, SameSent DEF KnownIsPublished
  <2>9. QED
    BY <1>2, <2>4, <2>6, <2>7, <2>8 DEF IInv
<1>5. QED
  BY <1>3, <1>4 DEF AddStep

(* A waiter's step: it is missing something only after it looked. *)
LEMMA WaiterStep ==
    ASSUME IInv, NEW w \in Waiters, Wait(w) \/ WaitStep(w) \/ Expire(w) PROVE IInv'
<1>0. TypeOK /\ TopicInv /\ WakeInv /\ SentInv /\ KnownIsPublished
  BY DEF IInv
<1>1. UNCHANGED <<topicVars, managerVars, addVars, due>> /\ log' = log
  BY DEF Wait, WaitStep, Check, Decide, Wake, LookOnceMore, Expire, topicVars
<1>2. TopicInv'
  BY <1>0, <1>1 DEF topicVars, TopicInv, TopicTypeOK, ChannelInv, OneTypePerChannel, OneChannel
<1>3. PICK place \in {"checking", "missing", "waiting", "expired", "ok", "timeout"} :
          /\ wait' = [wait EXCEPT ![w] = place]
          /\ place = "missing" => ~ Found(w)
          /\ place = "waiting" => wait[w] = "missing"
          /\ place \in {"missing", "waiting"} => notified' = notified
  BY DEF Wait, WaitStep, Check, Decide, Wake, LookOnceMore, Expire, Go
<1>4. notified' = notified \/ notified' = [notified EXCEPT ![w] = FALSE]
  BY DEF Wait, WaitStep, Check, Decide, Wake, LookOnceMore, Expire
<1>5. /\ wait'[w] = place
      /\ \A v \in Waiters \ {w} : wait'[v] = wait[v] /\ notified'[v] = notified[v]
  BY <1>0, <1>3, <1>4 DEF TypeOK
<1>6. TypeOK'
  BY <1>0, <1>1, <1>2, <1>3, <1>4 DEF TypeOK, TopicInv, managerVars, addVars
<1>7. WakeInv'
  <2>1. ASSUME NEW v \in Waiters, wait'[v] \in {"missing", "waiting"}, Found(v)
        PROVE  notified'[v] \/ added[At[v]] = "registered"
    <3>1. CASE v = w
      BY <1>0, <1>3, <1>5, <2>1, <3>1 DEF WakeInv
    <3>2. CASE v # w
      BY <1>0, <1>5, <2>1, <3>2 DEF WakeInv
    <3>3. QED
      BY <3>1, <3>2
  <2>2. QED
    BY <1>1, <2>1 DEF WakeInv, Found, managerVars, addVars
<1>8. SentInv' /\ KnownIsPublished'
  BY <1>0, <1>1, SameSent DEF SentInv, KnownIsPublished, managerVars, addVars
<1>9. QED
  BY <1>2, <1>6, <1>7, <1>8 DEF IInv

(* Every step, and stuttering, keeps the inductive invariant. *)
LEMMA StepIInv == ASSUME IInv, [Next]_vars PROVE IInv'
<1>1. CASE UNCHANGED vars
  BY <1>1 DEF vars, topicVars, managerVars, addVars, waitVars, IInv, TypeOK, TopicInv, TopicTypeOK,
       ChannelInv, OneTypePerChannel, OneChannel, WakeInv, SentInv, KnownIsPublished, Found, Sent
<1>2. CASE Next
  BY <1>2, ConstructStep, EndStep, TakeStep, ApplyStep, PublishStep, RegisterStep, WaiterStep
     DEF Next, TaskStep
<1>3. QED
  BY <1>1, <1>2

(* The inductive invariant holds in every behaviour. *)
THEOREM Invariance == Spec => []IInv
<1>1. Init => IInv
  BY InitIInv
<1>2. IInv /\ [Next]_vars => IInv'
  BY StepIInv
<1>3. QED
  BY <1>1, <1>2, PTL DEF Spec

(* The variables keep their types. *)
THEOREM TypeCorrect == Spec => []TypeOK
<1>1. IInv => TypeOK
  BY DEF IInv
<1>2. QED
  BY <1>1, Invariance, PTL

(* Handles on one channel are of one type, however first uses overlap; and   *)
(* unless they do, everyone is on the channel that advertise and subscribe   *)
(* will find.                                                                *)
THEOREM UsersAreConnected == Spec => []WellConnected
<1>1. IInv => WellConnected
  BY DEF IInv, TopicInv, WellConnected
<1>2. QED
  BY <1>1, Invariance, PTL

(* wait_for_transform misses nothing between its look and its wait. *)
THEOREM WakeupsAreKept == Spec => []NoLostWakeup
<1>1. IInv => NoLostWakeup
  BY DEF IInv, WakeInv, NoLostWakeup
<1>2. QED
  BY <1>1, Invariance, PTL

(* A manager knows only what was published. *)
THEOREM OnlyPublishedIsKnown == Spec => []KnownIsPublished
<1>1. IInv => KnownIsPublished
  BY DEF IInv
<1>2. QED
  BY <1>1, Invariance, PTL

=============================================================================

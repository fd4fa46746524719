----------------------- MODULE StreamsAndNames_proofs -----------------------
(***************************************************************************)
(* Proofs about the parts of StreamsAndNames: PublicationStream for any    *)
(* connections, messages and capacity of the channel; the rosbridge        *)
(* Subscriber, by the theorems of SubscriberQueue_proofs; MCAP channels and *)
(* zenoh's discovery for any of their constants; and the resolution of     *)
(* messages for any files and references.                                  *)
(***************************************************************************)
EXTENDS StreamsAndNames, FiniteSetTheorems, TLAPS

USE DEF Messages, Written, Oldest, acceptVars, connVars

(* The initial state, with no message sent and no client connected, satisfies the inductive invariant. *)
LEMMA InitIInv == Init => IInv
<1> SUFFICES ASSUME Init PROVE IInv
  OBVIOUS
<1> USE StreamAssumption DEF Init
<1>1. TypeOK
  <2>1. got \in [Conns -> Seq(1 .. MaxSent)]
    OBVIOUS
  <2>2. sent \in 0 .. MaxSent /\ acceptPos \in 1 .. MaxSent + 1 /\ last \in 0 .. MaxSent
    OBVIOUS
  <2>3. /\ latched \in [Conns -> 0 .. MaxSent] /\ joined \in [Conns -> 0 .. MaxSent]
        /\ pos \in [Conns -> 1 .. MaxSent + 1]
    OBVIOUS
  <2>4. QED
    BY <2>1, <2>2, <2>3 DEF TypeOK
<1>2. StreamInv /\ InOrderOnce /\ KeepsNewest /\ OnlyLatchedIsOld
  BY DEF StreamInv, ConnInv, InOrderOnce, KeepsNewest, OnlyLatchedIsOld, Latching
<1>3. QED
  BY <1>1, <1>2 DEF IInv

(* Writing a message newer than everything written keeps the order. *)
LEMMA AppendInOrder ==
    ASSUME NEW s \in Seq(Nat), NEW m \in Nat,
           \A i, j \in 1 .. Len(s) : i < j => s[i] < s[j],
           \A i \in 1 .. Len(s) : s[i] < m
    PROVE  /\ \A i, j \in 1 .. Len(Append(s, m)) : i < j => Append(s, m)[i] < Append(s, m)[j]
           /\ \A i \in 1 .. Len(Append(s, m)) : Append(s, m)[i] < m + 1
OBVIOUS

(* Every step, and stuttering, keeps the inductive invariant. *)
LEMMA StepIInv == ASSUME IInv, [Next]_vars PROVE IInv'
<1> USE StreamAssumption
<1>0. TypeOK /\ StreamInv /\ InOrderOnce /\ KeepsNewest /\ OnlyLatchedIsOld
  BY DEF IInv
<1>t. /\ sent \in Nat /\ acceptPos \in Nat /\ last \in Nat /\ Oldest \in 1 .. sent + 1
      /\ \A c \in Conns : /\ latched[c] \in Nat /\ pos[c] \in Nat /\ joined[c] \in Nat
                           /\ got[c] \in Seq(Messages) /\ Len(got[c]) \in Nat
                           /\ \A i \in 1 .. Len(got[c]) : got[c][i] \in Nat
  BY <1>0 DEF TypeOK
<1>1. CASE Publish
  <2> USE DEF Publish
  <2>1. TypeOK'
    BY <1>0, <1>1 DEF TypeOK
  <2>2. StreamInv' /\ InOrderOnce' /\ OnlyLatchedIsOld'
    BY <1>0, <1>1, <1>t DEF StreamInv, ConnInv, InOrderOnce, OnlyLatchedIsOld, Latching
  <2>3. KeepsNewest'
    BY <1>0, <1>1, <1>t DEF StreamInv, ConnInv, KeepsNewest
  <2>4. QED
    BY <2>1, <2>2, <2>3 DEF IInv
<1>2. CASE KeepLatched \/ AcceptLags
  <2>1. UNCHANGED <<sent, topic, connVars>> /\ acceptPos' \in acceptPos + 1 .. sent + 1
    BY <1>0, <1>2 DEF TypeOK, StreamInv, KeepLatched, AcceptLags
  <2>2. last' \in {last, acceptPos} /\ (~ Latching => last' = last) /\ accept' = accept
    BY <1>2 DEF KeepLatched, AcceptLags
  <2>3. last' < acceptPos' /\ last' \in 0 .. MaxSent /\ acceptPos' \in 1 .. MaxSent + 1
    <3>1. sent <= MaxSent /\ acceptPos <= sent + 1 /\ last < acceptPos
      BY <1>0 DEF TypeOK, StreamInv
    <3>2. last' = acceptPos => acceptPos <= sent
      BY <1>0, <2>1, <3>1 DEF TypeOK
    <3>3. QED
      BY <1>0, <2>1, <2>2, <3>1, <3>2 DEF TypeOK
  <2>4. TypeOK' /\ StreamInv'
    BY <1>0, <2>1, <2>2, <2>3 DEF TypeOK, StreamInv, ConnInv, Latching
  <2>5. InOrderOnce' /\ KeepsNewest' /\ OnlyLatchedIsOld'
    BY <1>0, <2>1 DEF InOrderOnce, KeepsNewest, OnlyLatchedIsOld, Latching
  <2>6. QED
    BY <2>4, <2>5 DEF IInv
<1>3. ASSUME NEW c \in Conns, ClientConnects(c) \/ Accept(c) \/ Refuse(c) \/ Reject(c) \/ Panic(c)
      PROVE  IInv'
  <2> USE DEF ClientConnects, Accept, Refuse, Reject, Panic
  <2>1. UNCHANGED <<sent, acceptPos, last, topic, latched, pos, got, joined>>
    BY <1>3
  <2>2. accept' \in Conns \cup {Selecting, Dead} /\ conn' \in [Conns -> {"absent", "connecting", "greeting", "streaming", "closed"}]
    BY <1>0, <1>3 DEF TypeOK
  <2>3. \A d \in Conns : conn'[d] = conn[d] \/ conn'[d] = "closed" \/ (conn[d] = "absent" /\ conn'[d] = "connecting")
    BY <1>0, <1>3 DEF TypeOK
  <2>4. TypeOK'
    BY <1>0, <2>1, <2>2 DEF TypeOK
  <2>5. StreamInv'
    <3>1. accept' = accept \/ accept' \in {Selecting, Dead} \/ (accept' = c /\ conn'[c] = "connecting")
      BY <1>0, <1>3 DEF TypeOK
    <3>2. ASSUME NEW d \in Conns PROVE ConnInv(d)'
      <4>1. ConnInv(d) /\ UNCHANGED <<sent, topic, latched[d], pos[d], got[d], joined[d]>>
        BY <1>0, <2>1 DEF StreamInv, Latching
      <4>2. conn'[d] \notin {"streaming", "closed"} => got[d] = << >>
        BY <2>3, <4>1 DEF ConnInv, Latching
      <4>3. accept' = d => conn'[d] = "connecting"
        BY <1>0, <1>3, <3>1, <4>1 DEF ConnInv, TypeOK
      <4>4. QED
        BY <4>1, <4>2, <4>3 DEF ConnInv, Latching
    <3>3. QED
      BY <1>0, <2>1, <3>2 DEF StreamInv, Latching
  <2>6. InOrderOnce' /\ KeepsNewest' /\ OnlyLatchedIsOld'
    BY <1>0, <2>1, <2>3 DEF InOrderOnce, KeepsNewest, OnlyLatchedIsOld, Latching
  <2>7. QED
    BY <2>4, <2>5, <2>6 DEF IInv
<1>4. ASSUME NEW c \in Conns, Handshake(c) PROVE IInv'
  <2> USE DEF Handshake
  <2>1. TypeOK'
    BY <1>0, <1>4 DEF TypeOK
  <2>2. \A d \in Conns : d # c => UNCHANGED <<conn[d], latched[d], pos[d], joined[d]>>
    BY <1>0, <1>4 DEF TypeOK
  <2>3. latched'[c] = last /\ pos'[c] = sent + 1 /\ joined'[c] = sent /\ conn'[c] = "greeting"
    BY <1>0, <1>4 DEF TypeOK
  <2>4. last <= sent
    BY <1>0 DEF TypeOK, StreamInv
  <2>5. got[c] = << >>
    BY <1>0, <1>4 DEF StreamInv, ConnInv, Latching
  <2>6. StreamInv'
    <3>1. ConnInv(c)'
      BY <1>0, <1>4, <1>t, <2>3, <2>4, <2>5 DEF StreamInv, ConnInv, Latching
    <3>2. ASSUME NEW d \in Conns, d # c PROVE ConnInv(d)'
      BY <1>0, <1>4, <2>2, <3>2 DEF StreamInv, ConnInv, Latching
    <3>3. QED
      BY <1>0, <1>4, <3>1, <3>2 DEF StreamInv, Latching
  <2>7. UNCHANGED <<sent, topic, got>>
    BY <1>4
  <2>8. InOrderOnce' /\ OnlyLatchedIsOld'
    BY <1>0, <2>2, <2>5, <2>7 DEF InOrderOnce, OnlyLatchedIsOld, Latching
  <2>9. KeepsNewest'
    <3>1. ASSUME NEW m \in Oldest .. sent, m > joined'[c] PROVE FALSE
      BY <1>t, <2>3, <3>1
    <3>2. QED
      BY <1>0, <2>2, <2>7, <3>1 DEF KeepsNewest
  <2>10. QED
    BY <2>1, <2>6, <2>8, <2>9 DEF IInv
<1>5. ASSUME NEW c \in Conns, Greet(c) PROVE IInv'
  <2> USE DEF Greet
  <2>1. got[c] = << >> /\ latched[c] \in 0 .. joined[c] /\ latched[c] \in 0 .. MaxSent
        /\ (latched[c] # 0 => Latching) /\ latched[c] < pos[c]
    <3>1. ConnInv(c) /\ conn[c] = "greeting"
      BY <1>0, <1>5 DEF StreamInv, Latching
    <3>2. latched[c] \in 0 .. MaxSent
      BY <1>0 DEF TypeOK
    <3>3. QED
      BY <1>t, <3>1, <3>2 DEF ConnInv, Latching
  <2>2. got'[c] \in Seq(Messages) /\ Len(got'[c]) \in {0, 1}
        /\ (Len(got'[c]) = 1 => got'[c][1] = latched[c] /\ latched[c] # 0)
    <3>1. CASE latched[c] # 0
      <4>1. got'[c] = Append(<< >>, latched[c])
        BY <1>0, <1>5, <2>1, <3>1 DEF TypeOK
      <4>2. latched[c] \in Messages
        BY <2>1, <3>1
      <4>3. QED
        BY <3>1, <4>1, <4>2
    <3>2. CASE latched[c] = 0
      <4>1. got'[c] = << >>
        BY <1>5, <2>1, <3>2
      <4>2. << >> \in Seq(Messages) /\ Len(<< >>) = 0
        OBVIOUS
      <4>3. QED
        BY <4>1, <4>2
    <3>3. QED
      BY <3>1, <3>2
  <2>3. \A d \in Conns : d # c => got'[d] = got[d] /\ conn'[d] = conn[d]
    BY <1>0, <1>5 DEF TypeOK
  <2>4. conn'[c] = "streaming" /\ UNCHANGED <<sent, acceptVars, latched, pos, joined>>
    BY <1>0, <1>5 DEF TypeOK
  <2>5. TypeOK'
    <3>1. got' \in [Conns -> Seq(Messages)]
      BY <1>0, <1>5, <2>2, <2>3 DEF TypeOK
    <3>2. QED
      BY <1>0, <1>5, <3>1 DEF TypeOK
  <2>6. \A i \in 1 .. Len(got'[c]) : i = 1 /\ got'[c][i] = latched[c] /\ Latching
    <3>1. ASSUME NEW i \in 1 .. Len(got'[c]) PROVE i = 1 /\ Len(got'[c]) = 1
      <4>1. CASE Len(got'[c]) = 0
        BY <3>1, <4>1
      <4>2. CASE Len(got'[c]) = 1
        BY <3>1, <4>2
      <4>3. QED
        BY <2>2, <4>1, <4>2
    <3>2. QED
      BY <2>1, <2>2, <3>1
  <2>7. StreamInv'
    BY <1>0, <1>5, <2>1, <2>3, <2>4, <2>6 DEF StreamInv, ConnInv, Latching
  <2>8. InOrderOnce'
    BY <1>0, <2>3, <2>6 DEF InOrderOnce
  <2>9. OnlyLatchedIsOld'
    BY <1>0, <2>3, <2>4, <2>6 DEF OnlyLatchedIsOld, Latching
  <2>10. KeepsNewest'
    <3>1. ASSUME NEW m \in Oldest .. sent, m > joined[c], m < pos[c] PROVE FALSE
      BY <1>0, <1>5, <2>1, <3>1 DEF KeepsNewest
    <3>2. QED
      BY <1>0, <2>3, <2>4, <3>1 DEF KeepsNewest
  <2>11. QED
    BY <2>5, <2>7, <2>8, <2>9, <2>10 DEF IInv
<1>6. ASSUME NEW c \in Conns, Write(c) PROVE IInv'
  <2> USE DEF Write
  <2>1. /\ sent \in Nat /\ sent <= MaxSent /\ pos[c] \in Messages /\ pos[c] <= sent
        /\ got[c] \in Seq(Messages) /\ joined[c] < pos[c] /\ latched[c] <= joined[c]
        /\ latched[c] \in Nat /\ joined[c] \in Nat
    BY <1>0, <1>6 DEF TypeOK, StreamInv, ConnInv, Latching
  <2>2. got'[c] = Append(got[c], pos[c]) /\ pos'[c] = pos[c] + 1
    BY <1>0, <1>6 DEF TypeOK
  <2>3. \A d \in Conns : d # c => got'[d] = got[d] /\ pos'[d] = pos[d]
    BY <1>0, <1>6 DEF TypeOK
  <2>4. got'[c] \in Seq(Messages) /\ Len(got'[c]) = Len(got[c]) + 1
        /\ got'[c][Len(got[c]) + 1] = pos[c]
        /\ \A i \in 1 .. Len(got[c]) : got'[c][i] = got[c][i]
    BY <2>1, <2>2
  <2>5. UNCHANGED <<sent, acceptVars, conn, latched, joined>>
    BY <1>6
  <2>6. TypeOK'
    <3>1. got' \in [Conns -> Seq(Messages)] /\ pos' \in [Conns -> 1 .. MaxSent + 1]
      BY <1>0, <1>6, <2>1 DEF TypeOK
    <3>2. QED
      BY <1>0, <2>5, <3>1 DEF TypeOK
  <2>7. \A i \in 1 .. Len(got[c]) : got[c][i] < pos[c] /\ got[c][i] \in Nat
    BY <1>0, <1>t DEF StreamInv, ConnInv, Latching
  <2>8. /\ \A i, j \in 1 .. Len(got'[c]) : i < j => got'[c][i] < got'[c][j]
        /\ \A i \in 1 .. Len(got'[c]) : got'[c][i] < pos'[c]
    <3>1. got[c] \in Seq(Nat) /\ pos[c] \in Nat
      BY <2>1
    <3>2. \A i, j \in 1 .. Len(got[c]) : i < j => got[c][i] < got[c][j]
      BY <1>0 DEF InOrderOnce
    <3>3. QED
      BY <2>2, <2>7, <3>1, <3>2, AppendInOrder
  <2>9. StreamInv'
    <3>1. ConnInv(c)'
      <4>1. ConnInv(c) /\ conn[c] = "streaming"
        BY <1>0, <1>6 DEF StreamInv, Latching
      <4>2. pos[c] < pos'[c] /\ pos'[c] <= sent + 1 /\ joined[c] < pos'[c]
        BY <2>1, <2>2
      <4>3. QED
        BY <2>5, <2>8, <4>1, <4>2 DEF ConnInv, Latching
    <3>2. ASSUME NEW d \in Conns, d # c PROVE ConnInv(d)'
      BY <1>0, <2>3, <2>5, <3>2 DEF StreamInv, ConnInv, Latching
    <3>3. QED
      BY <1>0, <2>5, <3>1, <3>2 DEF StreamInv, Latching
  <2>10. InOrderOnce'
    BY <1>0, <2>3, <2>8 DEF InOrderOnce
  <2>11. OnlyLatchedIsOld'
    <3>1. \A i \in 1 .. Len(got'[c]) : got'[c][i] > joined[c] \/ (Latching /\ i = 1)
      <4>1. ASSUME NEW i \in 1 .. Len(got'[c])
            PROVE  got'[c][i] > joined[c] \/ (Latching /\ i = 1)
        <5>1. CASE i \in 1 .. Len(got[c])
          BY <1>0, <2>4, <5>1 DEF OnlyLatchedIsOld, Latching
        <5>2. CASE i = Len(got[c]) + 1
          BY <2>1, <2>4, <5>2
        <5>3. QED
          BY <1>t, <2>4, <4>1, <5>1, <5>2
      <4>2. QED
        BY <4>1
    <3>2. QED
      BY <1>0, <2>3, <2>5, <3>1 DEF OnlyLatchedIsOld, Latching
  <2>12. KeepsNewest'
    <3>1. ASSUME NEW m \in Oldest .. sent, m > joined[c], m < pos[c] + 1
          PROVE  \E i \in 1 .. Len(got'[c]) : got'[c][i] = m
      <4>1. CASE m = pos[c]
        <5>1. Len(got[c]) + 1 \in 1 .. Len(got'[c])
          BY <2>1, <2>4
        <5>2. got'[c][Len(got[c]) + 1] = m
          BY <2>4, <4>1
        <5>3. QED
          BY <5>1, <5>2
      <4>2. CASE m < pos[c]
        <5>1. PICK i \in 1 .. Len(got[c]) : got[c][i] = m
          BY <1>0, <1>6, <3>1, <4>2 DEF KeepsNewest
        <5>2. i \in 1 .. Len(got'[c]) /\ got'[c][i] = m
          <6>1. Len(got[c]) \in Nat
            BY <1>t
          <6>2. QED
            BY <2>4, <5>1, <6>1
        <5>3. QED
          BY <5>2
      <4>3. QED
        BY <2>1, <3>1, <4>1, <4>2
    <3>2. QED
      BY <1>0, <2>2, <2>3, <2>5, <3>1 DEF KeepsNewest
  <2>13. QED
    BY <2>6, <2>9, <2>10, <2>11, <2>12 DEF IInv
<1>7. ASSUME NEW c \in Conns, Lag(c) \/ WriteFails(c) PROVE IInv'
  <2> USE DEF Lag, WriteFails
  <2>1. UNCHANGED <<sent, acceptVars, latched, got, joined>>
    BY <1>7
  <2>2. \A d \in Conns : conn'[d] = conn[d] \/ conn'[d] = "closed"
    BY <1>0, <1>7 DEF TypeOK
  <2>3. \A d \in Conns : pos'[d] = pos[d]
                            \/ (pos'[d] = Oldest /\ pos[d] < Oldest /\ conn'[d] = "streaming" /\ conn[d] = "streaming")
    BY <1>0, <1>7 DEF TypeOK
  <2>4. TypeOK'
    <3>1. Oldest \in 1 .. MaxSent + 1
      BY <1>0 DEF TypeOK
    <3>2. pos' \in [Conns -> 1 .. MaxSent + 1]
      BY <1>0, <1>7, <3>1 DEF TypeOK
    <3>3. conn' \in [Conns -> {"absent", "connecting", "greeting", "streaming", "closed"}]
      BY <1>0, <1>7 DEF TypeOK
    <3>4. QED
      BY <1>0, <2>1, <3>2, <3>3 DEF TypeOK
  <2>5. Oldest \in 1 .. sent + 1 /\ sent \in Nat
    BY <1>0 DEF TypeOK
  <2>6. StreamInv'
    <3>1. ASSUME NEW d \in Conns PROVE ConnInv(d)'
      <4>1. ConnInv(d) /\ UNCHANGED <<sent, topic, accept, latched[d], got[d], joined[d]>>
        BY <1>0, <2>1 DEF StreamInv, Latching
      <4>2. pos'[d] \in pos[d] .. sent + 1
        BY <1>t, <2>3, <4>1 DEF ConnInv, Latching
      <4>3. conn'[d] # conn[d] => conn[d] = "streaming" /\ conn'[d] = "closed"
        BY <1>0, <1>7 DEF TypeOK
      <4>4. /\ latched[d] \in Nat /\ pos[d] \in Nat /\ joined[d] \in Nat /\ sent \in Nat
            /\ \A i \in 1 .. Len(got[d]) : got[d][i] \in Nat
        BY <1>t
      <4>5. \A i \in 1 .. Len(got[d]) : got[d][i] < pos'[d]
        BY <4>1, <4>2, <4>4 DEF ConnInv
      <4>6. latched[d] <= joined[d] /\ joined[d] < pos'[d] /\ pos'[d] <= sent + 1
        BY <4>1, <4>2, <4>4 DEF ConnInv
      <4>7. QED
        BY <4>1, <4>3, <4>5, <4>6 DEF ConnInv, Latching
    <3>2. QED
      BY <1>0, <2>1, <3>1 DEF StreamInv, Latching
  <2>7. InOrderOnce' /\ OnlyLatchedIsOld'
    BY <1>0, <2>1 DEF InOrderOnce, OnlyLatchedIsOld, Latching
  <2>8. KeepsNewest'
    <3>1. ASSUME NEW d \in Conns, conn'[d] \in {"greeting", "streaming"},
                 NEW m \in Oldest .. sent, m > joined[d], m < pos'[d]
          PROVE  \E i \in 1 .. Len(got[d]) : got[d][i] = m
      <4>1. pos'[d] = pos[d] /\ conn[d] \in {"greeting", "streaming"}
        BY <2>2, <2>3, <2>5, <3>1
      <4>2. QED
        BY <1>0, <3>1, <4>1 DEF KeepsNewest
    <3>2. QED
      BY <2>1, <3>1 DEF KeepsNewest
  <2>9. QED
    BY <2>4, <2>6, <2>7, <2>8 DEF IInv
<1>8. CASE UNCHANGED vars
  BY <1>0, <1>8 DEF vars, IInv, TypeOK, StreamInv, ConnInv, InOrderOnce, KeepsNewest, OnlyLatchedIsOld, Latching
<1>9. QED
  BY <1>1, <1>2, <1>3, <1>4, <1>5, <1>6, <1>7, <1>8 DEF Next, AcceptStep, Answered, WriterStep

(* The inductive invariant holds in every reachable state. *)
THEOREM Invariance == Spec => []IInv
<1>1. Init => IInv
  BY InitIInv
<1>2. IInv /\ [Next]_vars => IInv'
  BY StepIInv
<1>3. QED
  BY <1>1, <1>2, PTL DEF Spec

(* The variables keep their types. *)
THEOREM TypeCorrect == Spec => []TypeOK
<1>1. IInv => TypeOK
  BY DEF IInv
<1>2. QED
  BY <1>1, Invariance, PTL

(* What is written to a connection is in order and without repetitions. *)
THEOREM InOrder == Spec => []InOrderOnce
<1>1. IInv => InOrderOnce
  BY DEF IInv
<1>2. QED
  BY <1>1, Invariance, PTL

(* A lagging connection misses none of the newest messages. *)
THEOREM NewestAreKept == Spec => []KeepsNewest
<1>1. IInv => KeepsNewest
  BY DEF IInv
<1>2. QED
  BY <1>1, Invariance, PTL

(* Only a latched message is older than the connection it is written to. *)
THEOREM OldIsLatched == Spec => []OnlyLatchedIsOld
<1>1. IInv => OnlyLatchedIsOld
  BY DEF IInv
<1>2. QED
  BY <1>1, Invariance, PTL

-----------------------------------------------------------------------------
(***************************************************************************)
(* The same of the parts together: each changes its own variables.         *)
(***************************************************************************)

(* A step of another part is no step of the publication. *)
LEMMA StreamSteps == ASSUME [AnyNext]_allVars PROVE [Next]_vars
BY DEF AnyNext, allVars

(* What is written to a connection of any publication is in order. *)
THEOREM AnyInOrder == AnySpec => []InOrderOnce
<1>1. AnyInit => IInv
  BY InitIInv DEF AnyInit
<1>2. IInv /\ [AnyNext]_allVars => IInv'
  BY StreamSteps, StepIInv
<1>3. IInv => InOrderOnce
  BY DEF IInv
<1>4. QED
  BY <1>1, <1>2, <1>3, PTL DEF AnySpec

-----------------------------------------------------------------------------
(***************************************************************************)
(* The queue of a rosbridge Subscriber                                     *)
(***************************************************************************)
QueueP == INSTANCE SubscriberQueue_proofs WITH got <- given

(* The lemmas there are about this queue. *)
LEMMA QueueSame ==
    /\ QueueP!QueueSizes
    /\ QueueP!Init <=> Queue!Init
    /\ QueueP!Next <=> Queue!Next
    /\ QueueP!vars = Queue!vars
    /\ \A c \in Consumers : QueueP!Pop(c) <=> Queue!Pop(c)
BY QueueAssumption
   DEF QueueSizes, QueueP!QueueSizes, QueueP!Full, Queue!Full, QueueP!Push, Queue!Push, QueueP!PopQuietly,
       Queue!PopQuietly, QueueP!Receive, Queue!Receive, QueueP!DropOldest,
       Queue!DropOldest, QueueP!RetryPush, Queue!RetryPush, QueueP!Go, Queue!Go,
       QueueP!Call, Queue!Call, QueueP!CallNext, Queue!CallNext, QueueP!CallMostRecent,
       Queue!CallMostRecent, QueueP!CheckLength, Queue!CheckLength, QueueP!Discard,
       Queue!Discard, QueueP!Pop, Queue!Pop, QueueP!Cancel, Queue!Cancel, QueueP!Consume,
       Queue!Consume, QueueP!Next, Queue!Next, QueueP!vars, Queue!vars, QueueP!Init,
       Queue!Init

(* A step of another part is no step of the queue. *)
LEMMA QueueSteps == ASSUME [AnyNext]_allVars PROVE [QueueP!Next]_(QueueP!vars)
<1>1. CASE part = "queue" /\ Queue!Next
  BY <1>1, QueueSame
<1>2. CASE UNCHANGED queueVars
  BY <1>2 DEF queueVars, QueueP!vars
<1>3. QED
  BY <1>1, <1>2 DEF AnyNext, allVars

QueueInvs == QueueP!IInv /\ QueueP!SoleInv /\ QueueP!RecentInv

(* A Subscriber starts with no call and no message. *)
LEMMA QueueStart == ASSUME AnyInit PROVE QueueInvs
BY QueueSame, QueueP!InitIInv, QueueP!InitSole DEF AnyInit, QueueInvs

(* Every step keeps what is known of the queue. *)
LEMMA QueueKeeps == ASSUME QueueInvs, [AnyNext]_allVars PROVE QueueInvs'
<1>1. QueueP!IInv'
  BY QueueSame, QueueSteps, QueueP!StepIInv DEF QueueInvs
<1>2. QueueP!SoleInv'
  BY QueueSame, QueueSteps, QueueP!StepSole DEF QueueInvs
<1>3. QueueP!RecentInv'
  BY QueueSame, QueueSteps, QueueP!StepRecent DEF QueueInvs
<1>4. QED
  BY <1>1, <1>2, <1>3 DEF QueueInvs

(* While no two calls overlap, the newest message is never thrown away unread. *)
THEOREM LoneCallsKeepNewest == AnySpec => []NewestKept
<1>1. QueueInvs => NewestKept
  BY DEF QueueInvs, QueueP!SoleInv, NewestKept, Queue!NewestKept, QueueP!LastKept, Queue!LastKept
<1>2. QED
  BY <1>1, QueueStart, QueueKeeps, PTL DEF AnySpec

(* Consumers, however many share the Subscriber, see messages in order. *)
THEOREM NobodyGoesBack == AnySpec => NeverBackInTime
<1>1. QueueInvs /\ [AnyNext]_allVars
        => [returned' >= returned /\ (given' # given => returned' > returned)]_(Queue!vars)
  <2>1. QueueP!vars' = Queue!vars'
    BY DEF QueueP!vars, Queue!vars
  <2>2. QED
    BY <2>1, QueueSame, QueueSteps, QueueP!StepInOrder DEF QueueInvs
<1>2. QED
  BY <1>1, QueueStart, QueueKeeps, PTL DEF AnySpec, NeverBackInTime, Queue!NeverBackInTime

(* most_recent returns nothing older than what was newest when it was called, *)
(* however many calls overlap.                                                *)
THEOREM RecentIsRecent == AnySpec => MostRecentIsRecent
<1>1. QueueInvs /\ [AnyNext]_allVars
        => [\A c \in Consumers : Queue!Pop(c) => given'[c] >= since[c]]_(Queue!vars)
  BY QueueSame, QueueP!PopsRecent DEF QueueInvs
<1>2. QED
  BY <1>1, QueueStart, QueueKeeps, PTL DEF AnySpec, MostRecentIsRecent, Queue!MostRecentIsRecent

-----------------------------------------------------------------------------
(***************************************************************************)
(* zenoh's discovery, for any declarations, and any delay of a beacon that *)
(* is shorter than the time after which a fact is lost.                    *)
(***************************************************************************)

(* The client starts with nothing declared and nothing known. *)
LEMMA ZenohInit == ASSUME Zenoh!Init PROVE Zenoh!IInv
<1> USE DiscoveryAssumption DEF Zenoh!Init
<1>1. Zenoh!TypeOK
  <2>1. 0 \in 0 .. Zenoh!Oldest /\ 0 \in 0 .. Zenoh!Memory + 1
    BY DEF Zenoh!Oldest, Zenoh!Memory
  <2>2. age \in [Types -> 0 .. Zenoh!Oldest] /\ gone \in [Declarations -> 0 .. Zenoh!Memory + 1]
    BY <2>1
  <2>3. task \in [Declarations -> {"none", "live", "dropped", "ended"}]
    OBVIOUS
  <2>4. QED
    BY <2>2, <2>3 DEF Zenoh!TypeOK
<1>2. Zenoh!BeaconInv /\ Zenoh!LiveInv /\ Zenoh!FactInv
  BY DEF Zenoh!BeaconInv, Zenoh!LiveInv, Zenoh!FactInv
<1>3. QED
  BY <1>1, <1>2 DEF Zenoh!IInv

(* Every step of the discovery keeps its invariant. *)
LEMMA ZenohStep == ASSUME Zenoh!IInv, [Zenoh!Next]_(Zenoh!vars) PROVE Zenoh!IInv'
<1> USE DEF Zenoh!taskVars, Zenoh!factVars
<1>0. Zenoh!TypeOK /\ Zenoh!BeaconInv /\ Zenoh!LiveInv /\ Zenoh!FactInv
  BY DEF Zenoh!IInv
<1>c. MaxDelay \in Nat /\ LOST_AFTER \in Nat /\ MaxDelay < LOST_AFTER
      /\ Zenoh!Oldest = LOST_AFTER + 1 /\ Zenoh!Memory = MaxDelay + LOST_AFTER + 1
  BY DiscoveryAssumption DEF Zenoh!Oldest, Zenoh!Memory
<1>t. /\ typeOf \in [Declarations -> Types] /\ facts \subseteq Types
      /\ task \in [Declarations -> {"none", "live", "dropped", "ended"}]
      /\ due \subseteq Declarations /\ heard \subseteq Declarations
      /\ wire \subseteq [of : Declarations, late : 0 .. MaxDelay]
      /\ age \in [Types -> 0 .. LOST_AFTER + 1]
      /\ gone \in [Declarations -> 0 .. MaxDelay + LOST_AFTER + 2]
      /\ \A b \in wire : b.of \in Declarations /\ b.late \in 0 .. MaxDelay
  BY <1>0, <1>c DEF Zenoh!TypeOK
<1>1. ASSUME NEW d \in Declarations, Zenoh!Declare(d) PROVE Zenoh!IInv'
  <2>1. task[d] = "none" /\ task' = [task EXCEPT ![d] = "live"] /\ due' = due \cup {d}
        /\ UNCHANGED <<typeOf, wire, facts, age, check, heard, gone>>
    BY <1>1 DEF Zenoh!Declare
  <2>2. Zenoh!TypeOK'
    BY <1>0, <2>1 DEF Zenoh!TypeOK
  <2>3. Zenoh!BeaconInv'
    BY <1>0, <1>t, <2>1 DEF Zenoh!BeaconInv
  <2>4. d \notin heard /\ \A e \in heard : task'[e] = task[e]
    BY <1>0, <1>t, <2>1 DEF Zenoh!BeaconInv
  <2>5. Zenoh!LiveInv'
    BY <1>0, <1>t, <2>1, <2>4 DEF Zenoh!LiveInv
  <2>6. Zenoh!FactInv'
    BY <1>0, <2>1 DEF Zenoh!FactInv
  <2>7. QED
    BY <2>2, <2>3, <2>5, <2>6 DEF Zenoh!IInv
<1>2. ASSUME NEW d \in Declarations, Zenoh!Beacon(d) PROVE Zenoh!IInv'
  <2>1. d \in due /\ due' = due \ {d} /\ wire' = wire \cup {[of |-> d, late |-> 0]}
        /\ UNCHANGED <<typeOf, task, facts, age, check, heard, gone>>
    BY <1>2 DEF Zenoh!Beacon
  <2>2. Zenoh!TypeOK'
    <3>1. [of |-> d, late |-> 0] \in [of : Declarations, late : 0 .. MaxDelay]
      BY <1>c
    <3>2. QED
      BY <1>0, <2>1, <3>1 DEF Zenoh!TypeOK
  <2>3. Zenoh!BeaconInv'
    <3>1. task[d] \in {"live", "dropped"} /\ gone[d] = 0
      BY <1>0, <2>1 DEF Zenoh!BeaconInv
    <3>2. \A b \in wire' : b \in wire \/ (b.of = d /\ b.late = 0)
      BY <2>1
    <3>3. \A b \in wire' : gone[b.of] <= b.late
      BY <1>0, <3>1, <3>2 DEF Zenoh!BeaconInv
    <3>4. \A e \in Declarations : task[e] = "none" => \A b \in wire' : b.of # e
      BY <1>0, <3>1, <3>2 DEF Zenoh!BeaconInv
    <3>5. QED
      BY <1>0, <2>1, <3>3, <3>4 DEF Zenoh!BeaconInv
  <2>4. Zenoh!LiveInv'
    BY <1>0, <2>1 DEF Zenoh!LiveInv
  <2>5. Zenoh!FactInv'
    BY <1>0, <2>1 DEF Zenoh!FactInv
  <2>6. QED
    BY <2>2, <2>3, <2>4, <2>5 DEF Zenoh!IInv
<1>3. ASSUME NEW d \in Declarations, Zenoh!DropDeclaration(d) \/ Zenoh!End(d)
      PROVE  Zenoh!IInv'
  <2>1. /\ UNCHANGED <<typeOf, wire, facts, age, check, heard, gone>>
        /\ \/ task[d] = "live" /\ task' = [task EXCEPT ![d] = "dropped"] /\ due' = due
           \/ task[d] = "dropped" /\ task' = [task EXCEPT ![d] = "ended"] /\ due' = due \ {d}
    BY <1>3 DEF Zenoh!DropDeclaration, Zenoh!End
  <2>2. Zenoh!TypeOK'
    BY <1>0, <2>1 DEF Zenoh!TypeOK
  <2>3. Zenoh!BeaconInv'
    BY <1>0, <1>t, <2>1 DEF Zenoh!BeaconInv
  <2>4. \A e \in Declarations : task'[e] = "live" => e # d /\ task[e] = "live"
    BY <1>t, <2>1
  <2>5. Zenoh!LiveInv'
    BY <1>0, <1>t, <2>1, <2>4 DEF Zenoh!LiveInv
  <2>6. Zenoh!FactInv'
    BY <1>0, <2>1 DEF Zenoh!FactInv
  <2>7. QED
    BY <2>2, <2>3, <2>5, <2>6 DEF Zenoh!IInv
<1>4. ASSUME NEW b \in wire, Zenoh!Receive(b) PROVE Zenoh!IInv'
  <2>1. /\ wire' = wire \ {b} /\ facts' = facts \cup {typeOf[b.of]}
        /\ age' = [age EXCEPT ![typeOf[b.of]] = 0] /\ heard' = heard \cup {b.of}
        /\ UNCHANGED <<typeOf, task, due, check, gone>>
    BY <1>4 DEF Zenoh!Receive
  <2>t. b.of \in Declarations /\ b.late \in 0 .. MaxDelay /\ typeOf[b.of] \in Types
        /\ gone[b.of] <= b.late /\ task[b.of] # "none" /\ gone[b.of] \in Nat
    BY <1>0, <1>c, <1>t DEF Zenoh!BeaconInv
  <2>2. Zenoh!TypeOK'
    BY <1>0, <1>c, <2>1, <2>t DEF Zenoh!TypeOK, Zenoh!Oldest
  <2>3. Zenoh!BeaconInv'
    BY <1>0, <2>1, <2>t DEF Zenoh!BeaconInv
  <2>4. ASSUME NEW d \in heard', task[d] = "live"
        PROVE  /\ typeOf[d] \in facts'
               /\ \A j \in 0 .. age'[typeOf[d]] - 1 :
                     (j = 0 /\ d \in due) \/ [of |-> d, late |-> j] \in wire'
    <3>1. CASE typeOf[d] = typeOf[b.of]
      BY <1>t, <2>1, <2>t, <3>1
    <3>2. CASE typeOf[d] # typeOf[b.of]
      <4>1. d \in heard /\ d # b.of /\ age'[typeOf[d]] = age[typeOf[d]] /\ d \in Declarations
        BY <1>t, <2>1, <2>t, <3>2
      <4>2. \A j : [of |-> d, late |-> j].of # b.of
        BY <4>1
      <4>3. \A j : [of |-> d, late |-> j] # b
        BY <4>2
      <4>4. QED
        BY <1>0, <2>1, <2>4, <4>1, <4>3 DEF Zenoh!LiveInv
    <3>3. QED
      BY <3>1, <3>2
  <2>5. Zenoh!LiveInv'
    BY <2>1, <2>4 DEF Zenoh!LiveInv
  <2>6. ASSUME NEW t \in facts'
        PROVE  /\ ~ check => age'[t] <= LOST_AFTER
               /\ \E d \in heard' : typeOf[d] = t /\ gone[d] <= MaxDelay + age'[t]
    <3>1. CASE t = typeOf[b.of]
      BY <1>c, <1>t, <2>1, <2>t, <3>1
    <3>2. CASE t # typeOf[b.of]
      BY <1>0, <1>t, <2>1, <2>6, <3>2 DEF Zenoh!FactInv
    <3>3. QED
      BY <3>1, <3>2
  <2>7. Zenoh!FactInv'
    BY <2>1, <2>6 DEF Zenoh!FactInv
  <2>8. QED
    BY <2>2, <2>3, <2>5, <2>7 DEF Zenoh!IInv
<1>5. CASE Zenoh!Forget
  <2>1. facts' = facts \ Zenoh!Lost /\ check' = FALSE
        /\ UNCHANGED <<typeOf, task, due, wire, age, heard, gone>>
    BY <1>5 DEF Zenoh!Forget
  <2>2. Zenoh!TypeOK'
    BY <1>0, <2>1 DEF Zenoh!TypeOK
  <2>3. Zenoh!BeaconInv'
    BY <1>0, <2>1 DEF Zenoh!BeaconInv
  <2>4. ASSUME NEW d \in heard, task[d] = "live" PROVE typeOf[d] \in facts'
    <3>1. typeOf[d] \in facts /\ age[typeOf[d]] \in Nat
      BY <1>0, <1>c, <1>t, <2>4 DEF Zenoh!LiveInv
    <3>2. ASSUME age[typeOf[d]] > LOST_AFTER PROVE FALSE
      <4>1. MaxDelay + 1 \in 0 .. age[typeOf[d]] - 1 /\ MaxDelay + 1 # 0
        BY <1>c, <3>1, <3>2
      <4>2. [of |-> d, late |-> MaxDelay + 1] \in wire
        BY <1>0, <2>4, <4>1 DEF Zenoh!LiveInv
      <4>3. [of |-> d, late |-> MaxDelay + 1].late \in 0 .. MaxDelay
        BY <1>t, <4>2
      <4>4. QED
        BY <1>c, <4>3
    <3>3. QED
      BY <2>1, <3>1, <3>2 DEF Zenoh!Lost
  <2>5. Zenoh!LiveInv'
    BY <1>0, <2>1, <2>4 DEF Zenoh!LiveInv
  <2>6. \A t \in facts' : age[t] <= LOST_AFTER
    BY <1>c, <1>t, <2>1 DEF Zenoh!Lost
  <2>7. Zenoh!FactInv'
    BY <1>0, <2>1, <2>6 DEF Zenoh!FactInv
  <2>8. QED
    BY <2>2, <2>3, <2>5, <2>7 DEF Zenoh!IInv
<1>6. CASE Zenoh!Tick
  <2>1. /\ due = {} /\ ~ check /\ \A b \in wire : b.late < MaxDelay
        /\ \A d \in Declarations : task[d] # "dropped"
        /\ wire' = {[b EXCEPT !.late = @ + 1] : b \in wire}
        /\ due' = {d \in Declarations : task[d] = "live"} /\ check' = TRUE
        /\ UNCHANGED <<typeOf, task, facts, heard>>
    BY <1>6 DEF Zenoh!Tick
  <2>2. age' = [t \in Types |-> IF t \in facts /\ age[t] < LOST_AFTER + 1 THEN age[t] + 1 ELSE age[t]]
    BY <1>6, <1>c DEF Zenoh!Tick
  <2>3. gone' = [d \in Declarations |->
                  IF task[d] = "ended" /\ gone[d] <= MaxDelay + LOST_AFTER + 1 THEN gone[d] + 1 ELSE gone[d]]
    BY <1>6, <1>c DEF Zenoh!Tick
  <2>4. ASSUME NEW b \in wire'
        PROVE  \E a \in wire : b = [of |-> a.of, late |-> a.late + 1] /\ a.late < MaxDelay
    <3>1. PICK a \in wire : b = [a EXCEPT !.late = @ + 1]
      BY <2>1
    <3>2. a \in [of : Declarations, late : 0 .. MaxDelay]
      BY <1>t
    <3>3. b = [of |-> a.of, late |-> a.late + 1]
      BY <3>1, <3>2
    <3>4. QED
      BY <2>1, <3>3
  <2>5. ASSUME NEW d \in Declarations, NEW j \in Nat, [of |-> d, late |-> j] \in wire
        PROVE  [of |-> d, late |-> j + 1] \in wire'
    <3>1. [[of |-> d, late |-> j] EXCEPT !.late = @ + 1] \in wire'
      BY <2>1, <2>5
    <3>2. QED
      BY <3>1
  <2>6. Zenoh!TypeOK'
    <3>1. wire' \subseteq [of : Declarations, late : 0 .. MaxDelay]
      <4>1. ASSUME NEW b \in wire' PROVE b \in [of : Declarations, late : 0 .. MaxDelay]
        <5>1. PICK a \in wire : b = [of |-> a.of, late |-> a.late + 1] /\ a.late < MaxDelay
          BY <2>4
        <5>2. a.of \in Declarations /\ a.late + 1 \in 0 .. MaxDelay
          BY <1>c, <1>t, <5>1
        <5>3. QED
          BY <5>1, <5>2
      <4>2. QED
        BY <4>1
    <3>2. age' \in [Types -> 0 .. LOST_AFTER + 1]
      BY <1>c, <1>t, <2>2
    <3>3. gone' \in [Declarations -> 0 .. MaxDelay + LOST_AFTER + 2]
      BY <1>c, <1>t, <2>3
    <3>4. QED
      BY <1>0, <1>c, <2>1, <3>1, <3>2, <3>3 DEF Zenoh!TypeOK
  <2>7. \A d \in Declarations : gone'[d] <= gone[d] + 1 /\ (task[d] # "ended" => gone'[d] = gone[d])
    BY <1>c, <1>t, <2>3
  <2>8. Zenoh!BeaconInv'
    <3>1. ASSUME NEW b \in wire'
          PROVE  gone'[b.of] <= b.late /\ task[b.of] # "none"
      <4>1. PICK a \in wire : b = [of |-> a.of, late |-> a.late + 1] /\ a.late < MaxDelay
        BY <2>4
      <4>2. b.of = a.of /\ b.late = a.late + 1 /\ gone[a.of] <= a.late /\ a.of \in Declarations
            /\ task[a.of] # "none"
        BY <1>0, <1>t, <4>1 DEF Zenoh!BeaconInv
      <4>3. gone'[a.of] <= gone[a.of] + 1 /\ gone'[a.of] \in Nat /\ gone[a.of] \in Nat /\ a.late \in Nat
        BY <1>c, <1>t, <2>3, <2>7, <4>2
      <4>4. QED
        BY <4>2, <4>3
    <3>2. \A d \in Declarations : d \in due' => task[d] = "live"
      BY <2>1
    <3>3. QED
      BY <1>0, <2>1, <2>7, <3>1, <3>2 DEF Zenoh!BeaconInv
  <2>9. ASSUME NEW d \in heard, task[d] = "live"
        PROVE  \A j \in 0 .. age'[typeOf[d]] - 1 :
                  (j = 0 /\ d \in due') \/ [of |-> d, late |-> j] \in wire'
    <3>0. d \in Declarations /\ typeOf[d] \in Types /\ age[typeOf[d]] \in Nat
          /\ age'[typeOf[d]] <= age[typeOf[d]] + 1 /\ age'[typeOf[d]] \in Nat
      BY <1>c, <1>t, <2>2
    <3>1. SUFFICES ASSUME NEW j \in 0 .. age'[typeOf[d]] - 1
                   PROVE  (j = 0 /\ d \in due') \/ [of |-> d, late |-> j] \in wire'
      OBVIOUS
    <3>2. CASE j = 0
      BY <2>1, <2>9, <3>0, <3>2
    <3>3. CASE j # 0
      <4>1. j - 1 \in 0 .. age[typeOf[d]] - 1 /\ j - 1 \in Nat /\ j = (j - 1) + 1
        BY <3>0, <3>3
      <4>2. [of |-> d, late |-> j - 1] \in wire
        BY <1>0, <2>1, <2>9, <4>1 DEF Zenoh!LiveInv
      <4>3. QED
        BY <2>5, <3>0, <4>1, <4>2
    <3>4. QED
      BY <3>2, <3>3
  <2>10. Zenoh!LiveInv'
    BY <1>0, <2>1, <2>9 DEF Zenoh!LiveInv
  <2>11. ASSUME NEW t \in facts
         PROVE  \E d \in heard : typeOf[d] = t /\ gone'[d] <= MaxDelay + age'[t]
    <3>1. age[t] <= LOST_AFTER /\ age[t] \in Nat /\ t \in Types
      BY <1>0, <1>c, <1>t, <2>1 DEF Zenoh!FactInv
    <3>2. age'[t] = age[t] + 1
      BY <1>c, <2>2, <3>1
    <3>3. PICK d \in heard : typeOf[d] = t /\ gone[d] <= MaxDelay + age[t]
      BY <1>0 DEF Zenoh!FactInv
    <3>4. gone'[d] <= gone[d] + 1 /\ gone[d] \in Nat /\ gone'[d] \in Nat
      BY <1>c, <1>t, <2>3, <2>7
    <3>5. QED
      BY <1>c, <3>1, <3>2, <3>3, <3>4
  <2>12. Zenoh!FactInv'
    BY <2>1, <2>11 DEF Zenoh!FactInv
  <2>13. QED
    BY <2>6, <2>8, <2>10, <2>12 DEF Zenoh!IInv
<1>7. CASE UNCHANGED Zenoh!vars
  BY <1>0, <1>7 DEF Zenoh!vars, Zenoh!IInv, Zenoh!TypeOK, Zenoh!BeaconInv, Zenoh!LiveInv,
     Zenoh!FactInv
<1>8. QED
  BY <1>1, <1>2, <1>3, <1>4, <1>5, <1>6, <1>7 DEF Zenoh!Next

(* A step of another part is no step of the discovery. *)
LEMMA ZenohSteps == ASSUME [AnyNext]_allVars PROVE [Zenoh!Next]_(Zenoh!vars)
BY DEF AnyNext, allVars, zenohVars, Zenoh!vars, Zenoh!taskVars, Zenoh!factVars

(* The invariant of the discovery holds in every reachable state. *)
THEOREM ZenohInvariance == AnySpec => []Zenoh!IInv
<1>1. AnyInit => Zenoh!IInv
  BY ZenohInit DEF AnyInit
<1>2. Zenoh!IInv /\ [AnyNext]_allVars => Zenoh!IInv'
  BY ZenohSteps, ZenohStep
<1>3. QED
  BY <1>1, <1>2, PTL DEF AnySpec

(* A declaration that lives stays known once it was heard. *)
THEOREM LiveIsKnown == AnySpec => []LiveStaysKnown
<1>1. Zenoh!IInv => LiveStaysKnown
  BY DEF Zenoh!IInv, Zenoh!LiveInv, LiveStaysKnown, Zenoh!LiveStaysKnown
<1>2. QED
  BY <1>1, ZenohInvariance, PTL

(* What is known was declared a moment ago. *)
THEOREM KnownIsNew == AnySpec => []KnownIsRecent
<1>1. Zenoh!IInv => KnownIsRecent
  <2> SUFFICES ASSUME Zenoh!IInv, NEW t \in facts
               PROVE  \E d \in heard : typeOf[d] = t /\ gone[d] <= Zenoh!Memory
    BY DEF KnownIsRecent, Zenoh!KnownIsRecent
  <2>1. PICK d \in heard : typeOf[d] = t /\ gone[d] <= MaxDelay + age[t]
    BY DEF Zenoh!IInv, Zenoh!FactInv
  <2>2. age[t] \in 0 .. LOST_AFTER + 1 /\ gone[d] \in Nat
    BY DiscoveryAssumption DEF Zenoh!IInv, Zenoh!TypeOK, Zenoh!Oldest, Zenoh!Memory
  <2>3. QED
    BY <2>1, <2>2, DiscoveryAssumption DEF Zenoh!Memory, Zenoh!Oldest
<1>2. QED
  BY <1>1, ZenohInvariance, PTL

-----------------------------------------------------------------------------
(***************************************************************************)
(* The channels of MCAP files                                              *)
(***************************************************************************)

(* A file starts without channels and messages. *)
LEMMA McapInit == ASSUME Mcap!Init PROVE Mcap!IInv
<1> USE DEF Mcap!Init
<1>1. Mcap!TypeOK
  <2>1. << >> \in Seq([topic : Topics, schema : MessageTypes]) /\ << >> \in Seq(Mcap!Handle)
    OBVIOUS
  <2>2. [t \in Topics |-> 0] \in [Topics -> Nat]
    OBVIOUS
  <2>3. [n \in Mcap!Names |-> None] \in [Mcap!Names -> MessageTypes \cup {None}]
    OBVIOUS
  <2>4. QED
    BY <2>1, <2>2, <2>3 DEF Mcap!TypeOK
<1>2. Mcap!ChannelInv /\ Mcap!RecordInv /\ Mcap!HandleInv
  BY DEF Mcap!ChannelInv, Mcap!RecordInv, Mcap!HandleInv
<1>3. QED
  BY <1>1, <1>2 DEF Mcap!IInv

(* What is known of the variables of a writer. *)
LEMMA McapTypes ==
    ASSUME Mcap!IInv, NEW w \in Writers
    PROVE  /\ schemas[w] \in [Mcap!Names -> MessageTypes \cup {None}]
           /\ channels[w] \in [Topics -> Nat]
           /\ records[w] \in Seq([topic : Topics, schema : MessageTypes])
           /\ Len(records[w]) \in Nat /\ DOMAIN records[w] = 1 .. Len(records[w])
           /\ \A i \in DOMAIN records[w] :
                  records[w][i].topic \in Topics /\ records[w][i].schema \in MessageTypes
           /\ file[w] \in Seq(Mcap!Handle)
<1>1. /\ schemas[w] \in [Mcap!Names -> MessageTypes \cup {None}]
      /\ channels[w] \in [Topics -> Nat]
      /\ records[w] \in Seq([topic : Topics, schema : MessageTypes])
      /\ file[w] \in Seq(Mcap!Handle)
  BY DEF Mcap!IInv, Mcap!TypeOK
<1>2. ASSUME NEW S, NEW q \in Seq(S)
      PROVE  Len(q) \in Nat /\ DOMAIN q = 1 .. Len(q) /\ \A i \in DOMAIN q : q[i] \in S
  OBVIOUS
<1>3. Len(records[w]) \in Nat /\ DOMAIN records[w] = 1 .. Len(records[w])
      /\ \A i \in DOMAIN records[w] : records[w][i] \in [topic : Topics, schema : MessageTypes]
  BY <1>1, <1>2
<1>4. QED
  BY <1>1, <1>3

(* The schema of a name that has one does not change. *)
LEMMA SchemasStay ==
    ASSUME Mcap!IInv, NEW w \in Writers, NEW type \in MessageTypes, Mcap!AddSchema(w, type)
    PROVE  /\ schemas' \in [Writers -> [Mcap!Names -> MessageTypes \cup {None}]]
           /\ \A v \in Writers, n \in Mcap!Names :
                  schemas[v][n] # None => schemas'[v][n] = schemas[v][n]
           /\ schemas'[w][TypeName[type]] = Mcap!SchemaOf(w, type)
           /\ Mcap!SchemaOf(w, type) \in MessageTypes
<1>1. TypeName[type] \in Mcap!Names
  BY DEF Mcap!Names
<1>2. schemas \in [Writers -> [Mcap!Names -> MessageTypes \cup {None}]]
  BY DEF Mcap!IInv, Mcap!TypeOK
<1>3. Mcap!SchemaOf(w, type) \in MessageTypes
      /\ (schemas[w][TypeName[type]] # None => Mcap!SchemaOf(w, type) = schemas[w][TypeName[type]])
  BY <1>1, <1>2 DEF Mcap!SchemaOf
<1>4. schemas' = [schemas EXCEPT ![w][TypeName[type]] = Mcap!SchemaOf(w, type)]
  BY DEF Mcap!AddSchema
<1>5. /\ schemas'[w] = [schemas[w] EXCEPT ![TypeName[type]] = Mcap!SchemaOf(w, type)]
      /\ \A v \in Writers : v # w => schemas'[v] = schemas[v]
      /\ DOMAIN schemas' = Writers
  BY <1>2, <1>4
<1>6. schemas'[w] \in [Mcap!Names -> MessageTypes \cup {None}]
      /\ schemas'[w][TypeName[type]] = Mcap!SchemaOf(w, type)
      /\ \A n \in Mcap!Names : n # TypeName[type] => schemas'[w][n] = schemas[w][n]
  BY <1>1, <1>2, <1>3, <1>5
<1>7. schemas' \in [Writers -> [Mcap!Names -> MessageTypes \cup {None}]]
  BY <1>2, <1>4, <1>5, <1>6
<1>8. QED
  BY <1>3, <1>5, <1>6, <1>7

(* So records keep agreeing with the schemas, while handles are only added. *)
LEMMA RecordsStay ==
    ASSUME Mcap!IInv, handles \subseteq handles',
           NEW w \in Writers, NEW type \in MessageTypes, Mcap!AddSchema(w, type),
           NEW v \in Writers, NEW i \in DOMAIN records[v]
    PROVE  \E h \in handles' :
              /\ h.writer = v /\ h.topic = records[v][i].topic
              /\ records[v][i].schema = schemas'[v][TypeName[h.type]]
<1>1. PICK h \in handles :
         /\ h.writer = v /\ h.topic = records[v][i].topic
         /\ records[v][i].schema = schemas[v][TypeName[h.type]]
  BY DEF Mcap!IInv, Mcap!RecordInv
<1>2. h.type \in MessageTypes
  BY DEF Mcap!IInv, Mcap!TypeOK, Mcap!Handle
<1>3. TypeName[h.type] \in Mcap!Names
  BY <1>2 DEF Mcap!Names
<1>4. schemas[v][TypeName[h.type]] # None
  BY <1>1, McapTypes, TypesAssumption
<1>5. schemas'[v][TypeName[h.type]] = schemas[v][TypeName[h.type]]
  BY <1>3, <1>4, SchemasStay
<1>6. QED
  BY <1>1, <1>5

(* Every step of the writers keeps the invariant. *)
LEMMA McapStep == ASSUME Mcap!IInv, [Mcap!Next]_(Mcap!vars) PROVE Mcap!IInv'
<1> USE DEF Mcap!mapVars
<1>0. Mcap!TypeOK /\ Mcap!ChannelInv /\ Mcap!RecordInv /\ Mcap!HandleInv
  BY DEF Mcap!IInv
<1>1. ASSUME NEW w \in Writers, NEW name \in Topics, NEW type \in MessageTypes,
             Mcap!KnownChannel(w, name, type)
      PROVE  Mcap!IInv'
  <2>1. /\ channels[w][name] # 0
        /\ handles' = handles \cup {[writer |-> w, topic |-> name, type |-> type, id |-> channels[w][name]]}
        /\ UNCHANGED <<schemas, channels, records, file, finished>>
    BY <1>1 DEF Mcap!KnownChannel, Mcap!HandOut
  <2>2. handles' \subseteq Mcap!Handle
    <3>1. channels[w][name] \in Nat
      BY McapTypes
    <3>2. QED
      BY <1>0, <2>1, <3>1 DEF Mcap!TypeOK, Mcap!Handle
  <2>3. Mcap!TypeOK'
    BY <1>0, <2>1, <2>2 DEF Mcap!TypeOK
  <2>4. Mcap!ChannelInv' /\ Mcap!RecordInv'
    BY <1>0, <2>1 DEF Mcap!ChannelInv, Mcap!RecordInv
  <2>5. Mcap!HandleInv'
    BY <1>0, <2>1 DEF Mcap!HandleInv
  <2>6. QED
    BY <2>3, <2>4, <2>5 DEF Mcap!IInv
<1>2. ASSUME NEW w \in Writers, NEW name \in Topics, NEW type \in MessageTypes,
             Mcap!NewChannel(w, name, type)
      PROVE  Mcap!IInv'
  <2> DEFINE id == Len(records[w]) + 1
             rec == [topic |-> name, schema |-> Mcap!SchemaOf(w, type)]
             new == [writer |-> w, topic |-> name, type |-> type, id |-> id]
  <2>1. /\ channels[w][name] = 0 /\ Mcap!AddSchema(w, type)
        /\ records' = [records EXCEPT ![w] = Append(@, rec)]
        /\ channels' = [channels EXCEPT ![w][name] = id]
        /\ handles' = handles \cup {new} /\ UNCHANGED <<file, finished>>
    BY <1>2 DEF Mcap!NewChannel, Mcap!HandOut
  <2>2. /\ rec \in [topic : Topics, schema : MessageTypes] /\ id \in Nat /\ id # 0
        /\ new \in Mcap!Handle
    BY <2>1, SchemasStay, McapTypes DEF Mcap!Handle
  <2>3. /\ records'[w] = Append(records[w], rec)
        /\ \A v \in Writers : v # w => records'[v] = records[v]
        /\ channels'[w] = [channels[w] EXCEPT ![name] = id]
        /\ \A v \in Writers : v # w => channels'[v] = channels[v]
        /\ DOMAIN records' = Writers /\ DOMAIN channels' = Writers
    BY <1>0, <2>1 DEF Mcap!TypeOK
  <2>4. /\ records'[w] \in Seq([topic : Topics, schema : MessageTypes])
        /\ DOMAIN records'[w] = DOMAIN records[w] \cup {id}
        /\ \A i \in DOMAIN records[w] : i # id /\ records'[w][i] = records[w][i]
        /\ records'[w][id] = rec
    <3>1. ASSUME NEW S, NEW q \in Seq(S), NEW e \in S
          PROVE  /\ Append(q, e) \in Seq(S)
                 /\ DOMAIN Append(q, e) = DOMAIN q \cup {Len(q) + 1}
                 /\ \A i \in DOMAIN q : i # Len(q) + 1 /\ Append(q, e)[i] = q[i]
                 /\ Append(q, e)[Len(q) + 1] = e
      OBVIOUS
    <3>2. records[w] \in Seq([topic : Topics, schema : MessageTypes])
          /\ rec \in [topic : Topics, schema : MessageTypes]
      BY <2>2, McapTypes
    <3>3. records'[w] = Append(records[w], rec)
      BY <2>3
    <3> HIDE DEF rec
    <3>4. QED
      BY <3>1, <3>2, <3>3
  <2>5. /\ channels'[w] \in [Topics -> Nat] /\ channels'[w][name] = id
        /\ \A t \in Topics : t # name => channels'[w][t] = channels[w][t]
    BY <2>2, <2>3, McapTypes
  <2>6. Mcap!TypeOK'
    <3>1. records' \in [Writers -> Seq([topic : Topics, schema : MessageTypes])]
      BY <1>0, <2>1, <2>3, <2>4 DEF Mcap!TypeOK
    <3>2. channels' \in [Writers -> [Topics -> Nat]]
      BY <1>0, <2>1, <2>3, <2>5 DEF Mcap!TypeOK
    <3>3. handles' \subseteq Mcap!Handle
      BY <1>0, <2>1, <2>2 DEF Mcap!TypeOK
    <3>4. schemas' \in [Writers -> [Mcap!Names -> MessageTypes \cup {None}]]
      BY <2>1, SchemasStay
    <3>5. QED
      BY <1>0, <2>1, <3>1, <3>2, <3>3, <3>4 DEF Mcap!TypeOK
  <2>7. Mcap!ChannelInv'
    <3>1. ASSUME NEW v \in Writers, NEW t \in Topics, channels'[v][t] # 0
          PROVE  channels'[v][t] \in DOMAIN records'[v] /\ records'[v][channels'[v][t]].topic = t
      <4>1. CASE v = w /\ t = name
        BY <2>4, <2>5, <4>1
      <4>2. CASE v = w /\ t # name
        <5>1. channels'[w][t] = channels[w][t]
          BY <2>5, <4>2
        <5>2. /\ channels[w][t] \in DOMAIN records[w]
              /\ records[w][channels[w][t]].topic = t
          BY <1>0, <3>1, <4>2, <5>1 DEF Mcap!ChannelInv
        <5>3. /\ channels[w][t] \in DOMAIN records'[w]
              /\ records'[w][channels[w][t]] = records[w][channels[w][t]]
          BY <2>4, <5>2
        <5>4. QED
          BY <4>2, <5>1, <5>2, <5>3
      <4>3. CASE v # w
        BY <1>0, <2>3, <3>1, <4>3 DEF Mcap!ChannelInv
      <4>4. QED
        BY <4>1, <4>2, <4>3
    <3>2. QED
      BY <3>1 DEF Mcap!ChannelInv
  <2>8. Mcap!RecordInv'
    <3>1. ASSUME NEW v \in Writers, NEW i \in DOMAIN records'[v]
          PROVE  \E h \in handles' :
                    /\ h.writer = v /\ h.topic = records'[v][i].topic
                    /\ records'[v][i].schema = schemas'[v][TypeName[h.type]]
      <4>1. CASE v = w /\ i = id
        <5>1. new \in handles' /\ new.writer = v /\ new.topic = name /\ new.type = type
          BY <2>1, <4>1
        <5>2. records'[v][i] = rec /\ rec.topic = name /\ rec.schema = Mcap!SchemaOf(w, type)
          BY <2>4, <4>1
        <5>3. schemas'[w][TypeName[type]] = Mcap!SchemaOf(w, type)
          BY <2>1, SchemasStay
        <5>4. QED
          BY <4>1, <5>1, <5>2, <5>3
      <4>2. CASE ~ (v = w /\ i = id)
        <5>1. i \in DOMAIN records[v] /\ records'[v][i] = records[v][i]
          BY <2>3, <2>4, <3>1, <4>2
        <5>2. handles \subseteq handles'
          BY <2>1
        <5>3. QED
          BY <2>1, <5>1, <5>2, RecordsStay
      <4>3. QED
        BY <4>1, <4>2
    <3>2. QED
      BY <3>1 DEF Mcap!RecordInv
  <2>9. Mcap!HandleInv'
    <3>1. ASSUME NEW h \in handles' PROVE h.id = channels'[h.writer][h.topic] /\ h.id # 0
      <4>1. CASE h = new
        BY <2>2, <2>5, <4>1
      <4>2. CASE h \in handles
        <5>1. h.writer \in Writers /\ h.topic \in Topics /\ h.id = channels[h.writer][h.topic]
              /\ h.id # 0
          BY <1>0, <4>2 DEF Mcap!TypeOK, Mcap!Handle, Mcap!HandleInv
        <5>2. ~ (h.writer = w /\ h.topic = name)
          BY <2>1, <5>1
        <5>3. QED
          BY <2>3, <2>5, <5>1, <5>2
      <4>3. QED
        BY <2>1, <4>1, <4>2
    <3>2. QED
      BY <1>0, <2>1, <3>1 DEF Mcap!HandleInv
  <2>10. QED
    BY <2>6, <2>7, <2>8, <2>9 DEF Mcap!IInv
<1>3. ASSUME NEW w \in Writers, NEW name \in Topics, NEW type \in MessageTypes,
             Mcap!ChannelFails(w, name, type)
      PROVE  Mcap!IInv'
  <2>1. Mcap!AddSchema(w, type) /\ UNCHANGED <<channels, records, handles, file, finished>>
    BY <1>3 DEF Mcap!ChannelFails
  <2>2. Mcap!TypeOK'
    BY <1>0, <2>1, SchemasStay DEF Mcap!TypeOK
  <2>3. Mcap!RecordInv'
    BY <2>1, RecordsStay DEF Mcap!RecordInv
  <2>4. Mcap!ChannelInv' /\ Mcap!HandleInv'
    BY <1>0, <2>1 DEF Mcap!ChannelInv, Mcap!HandleInv
  <2>5. QED
    BY <2>2, <2>3, <2>4 DEF Mcap!IInv
<1>4. ASSUME NEW w \in Writers, NEW h \in handles, Mcap!Write(h, w) PROVE Mcap!IInv'
  <2>1. file' = [file EXCEPT ![w] = Append(@, h)]
        /\ UNCHANGED <<schemas, channels, records, handles, finished>>
    BY <1>4 DEF Mcap!Write
  <2>2. h \in Mcap!Handle
    BY <1>0 DEF Mcap!TypeOK
  <2>3. /\ file'[w] = Append(file[w], h) /\ file'[w] \in Seq(Mcap!Handle)
        /\ \A v \in Writers : v # w => file'[v] = file[v]
    BY <1>0, <2>1, <2>2, McapTypes DEF Mcap!TypeOK
  <2>4. Mcap!TypeOK'
    BY <1>0, <2>1, <2>3 DEF Mcap!TypeOK
  <2>5. \A i \in DOMAIN file'[w] : file'[w][i] = h \/ (i \in DOMAIN file[w] /\ file'[w][i] = file[w][i])
    <3>1. ASSUME NEW S, NEW q \in Seq(S), NEW e \in S, NEW i \in DOMAIN Append(q, e)
          PROVE  Append(q, e)[i] = e \/ (i \in DOMAIN q /\ Append(q, e)[i] = q[i])
      OBVIOUS
    <3>2. file[w] \in Seq(Mcap!Handle)
      BY McapTypes
    <3>3. QED
      BY <2>2, <2>3, <3>1, <3>2
  <2>6. Mcap!HandleInv'
    BY <1>0, <2>1, <2>3, <2>5 DEF Mcap!HandleInv
  <2>7. Mcap!ChannelInv' /\ Mcap!RecordInv'
    BY <1>0, <2>1 DEF Mcap!ChannelInv, Mcap!RecordInv
  <2>8. QED
    BY <2>4, <2>6, <2>7 DEF Mcap!IInv
<1>5. CASE (\E w \in Writers : Mcap!Finish(w)) \/ UNCHANGED Mcap!vars
  <2>1. UNCHANGED <<schemas, channels, records, handles, file>> /\ finished' \subseteq Writers
    BY <1>0, <1>5 DEF Mcap!Finish, Mcap!vars, Mcap!TypeOK
  <2>2. Mcap!TypeOK'
    BY <1>0, <2>1 DEF Mcap!TypeOK
  <2>3. Mcap!ChannelInv'
    BY <1>0, <2>1 DEF Mcap!ChannelInv
  <2>4. Mcap!RecordInv'
    BY <1>0, <2>1 DEF Mcap!RecordInv
  <2>5. Mcap!HandleInv'
    BY <1>0, <2>1 DEF Mcap!HandleInv
  <2>6. QED
    BY <2>2, <2>3, <2>4, <2>5 DEF Mcap!IInv
<1>6. QED
  BY <1>1, <1>2, <1>3, <1>4, <1>5 DEF Mcap!Next

(* A step of another part is no step of the writers. *)
LEMMA McapSteps == ASSUME [AnyNext]_allVars PROVE [Mcap!Next]_(Mcap!vars)
BY DEF AnyNext, allVars, mcapVars, Mcap!vars, Mcap!mapVars

(* What is read is what was written. *)
LEMMA McapReads == ASSUME Mcap!IInv PROVE ReadAsWritten
<1> SUFFICES ASSUME NEW w \in Writers, NEW i \in Mcap!Read(w), file[w][i].writer = w
             PROVE  /\ Mcap!Info(w, i).topic = file[w][i].topic
                    /\ Mcap!Consistent(w) => Mcap!Info(w, i).schema = file[w][i].type
  BY DEF ReadAsWritten, Mcap!ReadAsWritten
<1>1. i \in DOMAIN file[w]
  BY DEF Mcap!Read
<1>2. PICK h \in handles : h = file[w][i]
  BY <1>1 DEF Mcap!IInv, Mcap!HandleInv
<1>3. /\ h.writer = w /\ h.topic \in Topics /\ h.id = channels[w][h.topic] /\ h.id # 0
  BY <1>2 DEF Mcap!IInv, Mcap!TypeOK, Mcap!Handle, Mcap!HandleInv
<1>4. h.id \in DOMAIN records[w] /\ records[w][h.id].topic = h.topic
  BY <1>3 DEF Mcap!IInv, Mcap!ChannelInv
<1>5. PICK g \in handles :
         /\ g.writer = w /\ g.topic = records[w][h.id].topic
         /\ records[w][h.id].schema = schemas[w][TypeName[g.type]]
  BY <1>4 DEF Mcap!IInv, Mcap!RecordInv
<1>6. Mcap!Consistent(w) => g.type = h.type /\ schemas[w][TypeName[g.type]] = g.type
  BY <1>2, <1>3, <1>4, <1>5 DEF Mcap!Consistent
<1>7. QED
  BY <1>2, <1>4, <1>5, <1>6 DEF Mcap!Info

(* A message is read under the topic its handle was made for, and with its own *)
(* type's definition if the user was consistent.                               *)
THEOREM FilesReadAsWritten == AnySpec => []ReadAsWritten
<1>1. AnyInit => Mcap!IInv
  BY McapInit DEF AnyInit
<1>2. Mcap!IInv /\ [AnyNext]_allVars => Mcap!IInv'
  BY McapSteps, McapStep
<1>3. Mcap!IInv => ReadAsWritten
  BY McapReads
<1>4. QED
  BY <1>1, <1>2, <1>3, PTL DEF AnySpec

-----------------------------------------------------------------------------
(***************************************************************************)
(* The search for packages                                                 *)
(***************************************************************************)

(* Nothing has been looked at. *)
LEMMA SearchInit == ASSUME Search!Init PROVE Search!TypeOK /\ Search!LastPathWins
<1>1. PICK n \in 0 .. MaxPackages : packages \in [1 .. n -> Search!Package]
  BY DEF Search!Init
<1>2. Search!TypeOK
  BY <1>1 DEF Search!Init, Search!TypeOK, Search!Keys
<1>3. QED
  BY <1>2 DEF Search!Init, Search!LastPathWins, Search!Keys

(* The next package takes the place of an earlier one with its key. *)
LEMMA SearchStep ==
    ASSUME Search!TypeOK, Search!LastPathWins, [Search!Next]_(Search!vars)
    PROVE  Search!TypeOK' /\ Search!LastPathWins'
<1> USE DEF Search!vars, Search!Keys
<1>1. CASE UNCHANGED Search!vars
  BY <1>1 DEF Search!TypeOK, Search!LastPathWins, Search!Key
<1>2. CASE Search!Insert
  <2>1. PICK n \in 0 .. MaxPackages : packages \in [1 .. n -> Search!Package]
    BY DEF Search!TypeOK
  <2>2. n = Len(packages) /\ n \in Nat
    BY <2>1
  <2>3. at \in Nat /\ at' = at + 1 /\ at' \in 1 .. Len(packages) /\ packages' = packages
    BY <1>2, <2>2 DEF Search!Insert, Search!TypeOK
  <2>4. /\ \A i \in 1 .. Len(packages) : Search!Key(packages[i]) \in Search!Keys
        /\ map \in [Search!Keys -> 0 .. Len(packages)]
        /\ map' = [map EXCEPT ![Search!Key(packages[at'])] = at']
    BY <1>2, <2>1, <2>2 DEF Search!Insert, Search!TypeOK, Search!Key, Search!Package
  <2>5. Search!TypeOK'
    BY <2>2, <2>3, <2>4 DEF Search!TypeOK
  <2>6. ASSUME NEW k \in Search!Keys, map'[k] # 0
        PROVE  map'[k] <= at' /\ Search!Key(packages[map'[k]]) = k
    BY <2>2, <2>3, <2>4, <2>6 DEF Search!LastPathWins
  <2>7. ASSUME NEW k \in Search!Keys, NEW i \in 1 .. at', Search!Key(packages[i]) = k
        PROVE  i <= map'[k]
    <3>1. CASE k = Search!Key(packages[at'])
      BY <2>3, <2>4, <3>1
    <3>2. CASE k # Search!Key(packages[at'])
      <4>1. i \in 1 .. at
        BY <2>3, <2>7, <3>2
      <4>2. i <= map[k]
        BY <2>7, <4>1 DEF Search!LastPathWins
      <4>3. QED
        BY <2>4, <3>2, <4>2
    <3>3. QED
      BY <3>1, <3>2
  <2>8. QED
    BY <2>3, <2>5, <2>6, <2>7 DEF Search!LastPathWins, Search!Key
<1>3. QED
  BY <1>1, <1>2 DEF Search!Next

(* A step of another part is no step of the search. *)
LEMMA SearchSteps == ASSUME [AnyNext]_allVars PROVE [Search!Next]_(Search!vars)
BY DEF AnyNext, allVars, searchVars, Search!vars

(* No name and version that was found is lost, and of several packages with *)
(* one the last of the search is used, however many paths there are.        *)
THEOREM LastFoundIsUsed == AnySpec => []Search!LastPathWins
<1>1. AnyInit => Search!TypeOK /\ Search!LastPathWins
  BY SearchInit DEF AnyInit
<1>2. /\ Search!TypeOK /\ Search!LastPathWins /\ [AnyNext]_allVars
      => Search!TypeOK' /\ Search!LastPathWins'
  BY SearchSteps, SearchStep
<1>3. QED
  BY <1>1, <1>2, PTL DEF AnySpec

-----------------------------------------------------------------------------
(***************************************************************************)
(* The resolution of message files                                         *)
(***************************************************************************)

(* The files that a set of files refers to, one by one. *)
LEMMA ReferredIs ==
    ASSUME Resolution!TypeOK, NEW s \in SUBSET Resolution!All, NEW g
    PROVE  g \in Resolution!Referred(s) <=> \E f \in s : \E n \in graph.refers[f] : g \in resolved[n]
BY DEF Resolution!Referred

LEMMA ReferredWithin ==
    ASSUME Resolution!TypeOK, NEW s \in SUBSET Resolution!All, NEW t,
           \A f \in s : \A n \in graph.refers[f] : resolved[n] \subseteq t
    PROVE  Resolution!Referred(s) \subseteq t
BY ReferredIs

LEMMA GraphTypes ==
    ASSUME Resolution!TypeOK
    PROVE  /\ graph.name \in [Resolution!All -> FullNames]
           /\ graph.refers \in [Resolution!All -> SUBSET FullNames]
BY FilesAssumption DEF Resolution!TypeOK, Resolution!All

(* What is below a file is closed under the references, and is the smallest such set. *)
LEMMA BelowIs ==
    ASSUME Resolution!TypeOK, NEW f \in Resolution!All
    PROVE  /\ Resolution!Below(f) \in SUBSET Resolution!All
           /\ Resolution!Referred({f}) \subseteq Resolution!Below(f)
           /\ \A h \in Resolution!Below(f) : \A n \in graph.refers[h] :
                  resolved[n] \subseteq Resolution!Below(f)
           /\ \A s \in SUBSET Resolution!All :
                  Resolution!Referred({f}) \cup Resolution!Referred(s) \subseteq s
                      => Resolution!Below(f) \subseteq s
<1>1. Resolution!Below(f) \in SUBSET Resolution!All
  BY DEF Resolution!Below
<1>2. \A s \in SUBSET Resolution!All :
          Resolution!Referred({f}) \cup Resolution!Referred(s) \subseteq s
              => Resolution!Below(f) \subseteq s
  BY DEF Resolution!Below
<1>3. \A h \in Resolution!All : \A n \in graph.refers[h] : resolved[n] \subseteq Resolution!All
  BY GraphTypes DEF Resolution!TypeOK
<1>4. Resolution!Referred({f}) \subseteq Resolution!Below(f)
  <2>1. Resolution!Referred({f}) \subseteq Resolution!All
    BY ReferredIs, <1>3
  <2>2. QED
    BY <2>1 DEF Resolution!Below
<1>5. ASSUME NEW h \in Resolution!Below(f), NEW n \in graph.refers[h], NEW g \in resolved[n]
      PROVE  g \in Resolution!Below(f)
  <2>1. h \in Resolution!All /\ g \in Resolution!All
    BY <1>1, <1>3, <1>5
  <2> SUFFICES ASSUME NEW s \in SUBSET Resolution!All,
                      Resolution!Referred({f}) \cup Resolution!Referred(s) \subseteq s
               PROVE  g \in s
    BY <2>1 DEF Resolution!Below
  <2>2. h \in s
    BY <1>2
  <2>3. g \in Resolution!Referred(s)
    BY <2>2, ReferredIs
  <2>4. QED
    BY <2>3
<1>6. QED
  BY <1>1, <1>2, <1>4, <1>5

(* The references to resolved files do not go in a circle, so the sums that *)
(* are calculated along them are calculated in finitely many steps.         *)
LEMMA NoCircle ==
    ASSUME Resolution!TypeOK, Resolution!ResolvedByName, Resolution!Grounded,
           NEW m \in Resolution!All
    PROVE  /\ Resolution!Below(m) \subseteq Resolution!Done
           /\ ~ Resolution!Endless(m)
<1>1. ASSUME NEW f \in Resolution!All PROVE Resolution!Below(f) \subseteq Resolution!Done
  <2>1. ASSUME NEW g, NEW h \in Resolution!All, NEW n \in graph.refers[h], g \in resolved[n]
        PROVE  g \in Resolution!Done
    BY <2>1, GraphTypes DEF Resolution!TypeOK, Resolution!ResolvedByName, Resolution!Named, Resolution!Done
  <2>2. Resolution!Done \in SUBSET Resolution!All
    BY DEF Resolution!Done
  <2>3. Resolution!Referred({f}) \cup Resolution!Referred(Resolution!Done) \subseteq Resolution!Done
    BY <2>1, <2>2, ReferredIs
  <2>4. QED
    BY <2>2, <2>3, BelowIs
<1>2. ASSUME NEW g \in Resolution!All, g \in Resolution!Below(g) PROVE FALSE
  <2> DEFINE circle == {h \in Resolution!Done : h \in Resolution!Below(h)}
  <2>1. g \in circle
    BY <1>1, <1>2
  <2>2. PICK h \in circle : \A n \in graph.refers[h] : resolved[n] \cap circle = {}
    BY <2>1 DEF Resolution!Grounded
  <2>3. h \in Resolution!All /\ h \in Resolution!Below(h)
    BY DEF Resolution!Done
  <2> DEFINE first == Resolution!Referred({h})
             all == {x \in Resolution!All : x \in first \/ \E k \in first : x \in Resolution!Below(k)}
  <2>4. first \subseteq Resolution!All /\ first \subseteq Resolution!Below(h)
    BY <2>3, BelowIs
  <2>5. \A x \in all : \A n \in graph.refers[x] : resolved[n] \subseteq all
    <3> SUFFICES ASSUME NEW x \in all, NEW n \in graph.refers[x], NEW y \in resolved[n]
                 PROVE  y \in all
      OBVIOUS
    <3>1. x \in Resolution!All /\ y \in Resolution!All
      BY GraphTypes DEF Resolution!TypeOK
    <3>2. CASE x \in first
      <4>1. y \in Resolution!Referred({x})
        BY <3>1, ReferredIs
      <4>2. y \in Resolution!Below(x)
        BY <4>1, <3>1, BelowIs
      <4>3. QED
        BY <4>2, <3>1, <3>2
    <3>3. CASE \E k \in first : x \in Resolution!Below(k)
      <4>1. PICK k \in first : x \in Resolution!Below(k)
        BY <3>3
      <4>2. y \in Resolution!Below(k)
        BY <4>1, <2>4, BelowIs
      <4>3. QED
        BY <4>2, <3>1
    <3>4. QED
      BY <3>2, <3>3
  <2>6. first \cup Resolution!Referred(all) \subseteq all
    <3> all \in SUBSET Resolution!All
      OBVIOUS
    <3>1. first \subseteq all
      BY <2>4
    <3> HIDE DEF first, all
    <3>2. Resolution!Referred(all) \subseteq all
      BY <2>5, ReferredIs
    <3>3. QED
      BY <3>1, <3>2
  <2>7. h \in all
    <3> all \in SUBSET Resolution!All
      OBVIOUS
    <3> HIDE DEF all
    <3>1. Resolution!Below(h) \subseteq all
      BY <2>3, <2>6, BelowIs
    <3>2. QED
      BY <3>1, <2>3
  <2>8. CASE h \in first
    <3>1. PICK n \in graph.refers[h] : h \in resolved[n]
      BY <2>8, <2>3, ReferredIs
    <3>2. QED
      BY <3>1, <2>2
  <2>9. CASE \E k \in first : h \in Resolution!Below(k)
    <3>1. PICK k \in first : h \in Resolution!Below(k)
      BY <2>9
    <3>2. k \in Resolution!All /\ k \in Resolution!Below(h)
      BY <2>4
    <3>3. Resolution!Below(k) \in SUBSET Resolution!All
      BY <3>2, BelowIs
    <3>4. Resolution!Referred({h}) \cup Resolution!Referred(Resolution!Below(k))
              \subseteq Resolution!Below(k)
      <4>1. Resolution!Referred({h}) \subseteq Resolution!Below(k)
        <5>1. \A f \in {h} : \A n \in graph.refers[f] : resolved[n] \subseteq Resolution!Below(k)
          BY <3>1, <3>2, BelowIs
        <5>2. {h} \in SUBSET Resolution!All
          BY <2>3
        <5>3. QED
          BY <5>1, <5>2, ReferredWithin
      <4>2. Resolution!Referred(Resolution!Below(k)) \subseteq Resolution!Below(k)
        BY <3>2, <3>3, BelowIs, ReferredWithin
      <4>3. QED
        BY <4>1, <4>2
    <3>5. k \in Resolution!Below(k)
      BY <3>2, <3>3, <3>4, <2>3, BelowIs
    <3>6. k \in circle
      BY <3>2, <3>5, <1>1
    <3>7. PICK n \in graph.refers[h] : k \in resolved[n]
      BY <2>3, ReferredIs
    <3>8. QED
      BY <3>6, <3>7, <2>2
  <2>10. QED
    BY <2>7, <2>8, <2>9
<1>3. Resolution!Below(m) \subseteq Resolution!All
  BY BelowIs
<1>4. QED
  BY <1>1, <1>2, <1>3 DEF Resolution!Endless

(* What the sum of a file covers is all it refers to, by the files alone,    *)
(* where files of one name refer to the same: one file of each name.         *)
LEMMA CoversIs ==
    ASSUME Resolution!TypeOK, Resolution!NamesAgree, Resolution!ResolvedByName,
           Resolution!FinishedClosed, Resolution!Grounded,
           NEW m \in Resolution!All, \A n \in graph.refers[m] : resolved[n] # {},
           NEW all, all = {m} \cup Resolution!Below(m)
    PROVE  /\ all \subseteq Resolution!Closure(m)
           /\ \A g \in Resolution!Closure(m) : \E h \in all : graph.name[h] = graph.name[g]
           /\ \A g, h \in all : graph.name[g] = graph.name[h] => g = h
<1> USE GraphTypes
<1>1. Resolution!Below(m) \in SUBSET Resolution!All /\ Resolution!Below(m) \subseteq Resolution!Done
  BY BelowIs, NoCircle
<1>2. all \in SUBSET Resolution!All
  BY <1>1
<1>3. ASSUME NEW s \in SUBSET Resolution!All, m \in s,
             \A h \in s : \A n \in graph.refers[h] : Resolution!Named(n) \subseteq s
      PROVE  all \subseteq s
  <2>1. \A h \in s : \A n \in graph.refers[h] : resolved[n] \subseteq s
    BY <1>3 DEF Resolution!ResolvedByName
  <2>2. Resolution!Referred(s) \subseteq s
    BY <2>1, ReferredWithin
  <2>3. Resolution!Referred({m}) \subseteq s
    BY <2>1, <1>3, ReferredWithin
  <2>4. QED
    BY <2>2, <2>3, <1>3, BelowIs
<1>4. all \subseteq Resolution!Closure(m)
  BY <1>2, <1>3 DEF Resolution!Closure
<1>5. \A g \in Resolution!Closure(m) : \E h \in all : graph.name[h] = graph.name[g]
  <2> DEFINE s == {g \in Resolution!All : \E h \in all : graph.name[h] = graph.name[g]}
  <2>1. m \in s
    OBVIOUS
  <2>2. ASSUME NEW g \in s, NEW n \in graph.refers[g], NEW k \in Resolution!Named(n)
        PROVE  k \in s
    <3>1. PICK h \in all : graph.name[h] = graph.name[g]
      OBVIOUS
    <3>2. h \in Resolution!All /\ g \in Resolution!All /\ n \in graph.refers[h]
      BY <1>2, <3>1 DEF Resolution!NamesAgree
    <3>3. n \in FullNames /\ resolved[n] # {}
      <4>1. CASE h = m
        BY <4>1, <3>2
      <4>2. CASE h \in Resolution!Done
        BY <4>2, <3>2 DEF Resolution!Done, Resolution!ResolvedByName, Resolution!FinishedClosed
      <4>3. QED
        BY <4>1, <4>2, <1>1
    <3>4. PICK q \in resolved[n] : graph.name[q] = n
      BY <3>3 DEF Resolution!ResolvedByName, Resolution!Named
    <3>5. q \in all
      <4>1. CASE h = m
        <5>1. q \in Resolution!Referred({m})
          BY <4>1, <3>2, <3>4, ReferredIs
        <5>2. QED
          BY <5>1, BelowIs
      <4>2. CASE h \in Resolution!Below(m)
        BY <4>2, <3>2, <3>4, BelowIs
      <4>3. QED
        BY <4>1, <4>2
    <3>6. QED
      BY <3>4, <3>5 DEF Resolution!Named
  <2>3. s \in SUBSET Resolution!All
    OBVIOUS
  <2> HIDE DEF s
  <2>4. Resolution!Closure(m) \subseteq s
    BY <2>1, <2>2, <2>3 DEF Resolution!Closure
  <2>5. QED
    BY <2>4 DEF s
<1>6. ASSUME NEW g \in Resolution!Below(m), graph.name[g] = graph.name[m] PROVE g = m
  <2>1. g \in Resolution!All /\ graph.refers[g] = graph.refers[m]
    BY <1>1, <1>6 DEF Resolution!NamesAgree
  <2>2. Resolution!Below(g) \in SUBSET Resolution!All
    BY <2>1, BelowIs
  <2>3. \A n \in graph.refers[m] : resolved[n] \subseteq Resolution!Below(g)
    <3>1. \A n \in graph.refers[g] : resolved[n] \subseteq Resolution!Referred({g})
      BY <2>1, ReferredIs
    <3>2. QED
      BY <3>1, <2>1, BelowIs
  <2>4. Resolution!Referred({m}) \subseteq Resolution!Below(g)
    BY <2>3, ReferredWithin
  <2>5. Resolution!Referred(Resolution!Below(g)) \subseteq Resolution!Below(g)
    BY <2>1, <2>2, BelowIs, ReferredWithin
  <2>6. g \in Resolution!Below(g)
    BY <2>2, <2>4, <2>5, BelowIs
  <2>7. QED
    BY <2>1, <2>6, NoCircle DEF Resolution!Endless
<1>7. \A g, h \in Resolution!Done : graph.name[g] = graph.name[h] => g = h
  BY DEF Resolution!Done, Resolution!ResolvedByName
<1>8. QED
  BY <1>1, <1>4, <1>5, <1>6, <1>7

(* At the start the built-in definitions are resolved, every file is queued *)
(* and none was seen.                                                        *)
LEMMA ResolutionInit == ASSUME Resolution!Init PROVE Resolution!IInv
<1>1. PICK order \in Resolution!Orders :
          unresolved = [i \in DOMAIN order |-> [file |-> order[i], seen |-> 0]]
  BY DEF Resolution!Init
<1> DEFINE size == Cardinality(Files)
<1>2. size \in Nat
  BY FS_CardinalityType, FilesAssumption
<1>3. order \in [1 .. size -> Files] /\ \A f \in Files : \E i \in 1 .. size : order[i] = f
  <2> HIDE DEF size
  <2>0. size = Resolution!Cardinality(Files)
    BY DEF size, Cardinality, Resolution!Cardinality
  <2>1. order \in [1 .. size -> Files]
    BY <2>0 DEF Resolution!Orders
  <2>2. \A f \in Files : \E i \in DOMAIN order : order[i] = f
    BY DEF Resolution!Orders
  <2>3. QED
    BY <2>1, <2>2
<1> HIDE DEF size
<1>4. /\ unresolved \in Seq([file : Files, seen : Nat])
      /\ DOMAIN unresolved = 1 .. size
      /\ \A i \in 1 .. size : unresolved[i] = [file |-> order[i], seen |-> 0]
  <2>1. unresolved = [i \in 1 .. size |-> [file |-> order[i], seen |-> 0]]
    BY <1>1, <1>3
  <2>2. \A i \in 1 .. size : [file |-> order[i], seen |-> 0] \in [file : Files, seen : Nat]
    BY <1>3
  <2>3. QED
    BY <1>2, <2>1, <2>2
<1>5. Resolution!TypeOK
  <2>1. resolved \in [FullNames -> SUBSET Resolution!All]
    BY DEF Resolution!Init, Resolution!All
  <2>2. \A f \in Resolution!All : Resolution!Below(f) \in SUBSET Resolution!All
    BY DEF Resolution!Below
  <2>3. covers \in [Resolution!All -> SUBSET Resolution!All]
    BY <2>2 DEF Resolution!Init
  <2>4. QED
    BY <2>1, <2>3, <1>4 DEF Resolution!TypeOK, Resolution!Init
<1>6. /\ Resolution!BuiltinsFit(graph) /\ graph \in Graphs /\ outcome = "running"
      /\ \A n \in FullNames : resolved[n] = {b \in Builtins : graph.name[b] = n}
      /\ \A f \in Resolution!All :
             covers[f] = IF f \in Builtins THEN {f} \cup Resolution!Below(f) ELSE {}
  BY BuiltinsAssumption DEF Resolution!Init
<1>7. /\ Resolution!Finished = Builtins /\ Resolution!Done = Builtins
      /\ Resolution!ResolvedByName /\ Resolution!FinishedClosed /\ Resolution!Supplied
      /\ Resolution!Grounded /\ Resolution!Ended
  <2>1. Resolution!Finished = Builtins
    BY <1>6 DEF Resolution!Finished, Resolution!All
  <2>2. Resolution!Done = Builtins
    BY <1>5, <1>6, GraphTypes DEF Resolution!Done, Resolution!All
  <2>3. Resolution!ResolvedByName
    <3>1. \A n \in FullNames : resolved[n] \subseteq Resolution!Named(n) \cap Resolution!Finished
      BY <1>6, <2>1 DEF Resolution!Named, Resolution!All
    <3>2. \A n \in FullNames : \A f, g \in resolved[n] : f = g
      BY <1>6 DEF Resolution!BuiltinsFit
    <3>3. \A f \in Resolution!Finished : resolved[graph.name[f]] # {}
      BY <1>5, <1>6, <2>1, GraphTypes DEF Resolution!All
    <3>4. QED
      BY <3>1, <3>2, <3>3 DEF Resolution!ResolvedByName
  <2>4. Resolution!FinishedClosed
    <3> SUFFICES ASSUME NEW f \in Builtins, NEW n \in graph.refers[f] PROVE resolved[n] # {}
      BY <2>1 DEF Resolution!FinishedClosed
    <3>1. n \in FullNames
      BY <1>5, GraphTypes DEF Resolution!All
    <3>2. PICK c \in Builtins : graph.name[c] = n
      BY <1>6 DEF Resolution!BuiltinsFit
    <3>3. QED
      BY <3>1, <3>2, <1>6
  <2>5. Resolution!Supplied
    BY <2>1 DEF Resolution!Supplied, Resolution!Complete
  <2>6. Resolution!Grounded
    <3> SUFFICES ASSUME NEW s \in SUBSET Builtins, s # {}
                 PROVE  \E f \in s : \A n \in graph.refers[f] : resolved[n] \cap s = {}
      BY <2>2 DEF Resolution!Grounded
    <3>1. PICK b \in s : \A n \in graph.refers[b] : \A c \in s : graph.name[c] # n
      BY <1>6 DEF Resolution!BuiltinsFit
    <3>2. graph.refers[b] \subseteq FullNames
      BY <1>5, GraphTypes DEF Resolution!All
    <3>3. QED
      BY <3>1, <3>2, <1>6
  <2>7. QED
    BY <2>1, <2>2, <2>3, <2>4, <2>5, <2>6, <1>6 DEF Resolution!Ended
<1>8. Resolution!RestQueued
  <2> SUFFICES ASSUME NEW f \in Files PROVE \E i \in DOMAIN unresolved : unresolved[i].file = f
    BY DEF Resolution!RestQueued
  <2>1. PICK i \in 1 .. size : order[i] = f
    BY <1>3
  <2>2. unresolved[i].file = f
    BY <2>1, <1>4
  <2>3. QED
    BY <2>2, <1>4
<1>9. Resolution!InRounds
  BY <1>4 DEF Resolution!InRounds
<1>10. Resolution!WithinRank
  <2> SUFFICES ASSUME NEW rank \in Resolution!Ranks, NEW i \in 1 .. size
               PROVE  unresolved[i].seen <= rank[unresolved[i].file]
    BY <1>4 DEF Resolution!WithinRank
  <2>1. unresolved[i].seen = 0 /\ unresolved[i].file = order[i] /\ order[i] \in Files
    BY <1>3, <1>4
  <2>2. rank \in [Files -> 0 .. PARSE_LIMIT]
    BY DEF Resolution!Ranks
  <2>3. QED
    BY <2>1, <2>2
<1>11. Resolution!CoversAll
  <2> SUFFICES ASSUME Resolution!NamesAgree, NEW f \in Builtins
               PROVE  /\ f \in covers[f] /\ covers[f] \subseteq Resolution!Closure(f)
                      /\ \A g \in Resolution!Closure(f) :
                             \E h \in covers[f] : graph.name[h] = graph.name[g]
                      /\ \A g, h \in covers[f] : graph.name[g] = graph.name[h] => g = h
    BY <1>6 DEF Resolution!CoversAll
  <2>1. f \in Resolution!All /\ covers[f] = {f} \cup Resolution!Below(f)
    BY <1>6 DEF Resolution!All
  <2>2. \A n \in graph.refers[f] : resolved[n] # {}
    BY <1>7 DEF Resolution!FinishedClosed
  <2>3. QED
    BY <2>1, <2>2, <1>5, <1>7, CoversIs
<1>12. QED
  BY <1>5, <1>6, <1>7, <1>8, <1>9, <1>10, <1>11 DEF Resolution!IInv

(* What is said of the files alone is said of them for good. *)
LEMMA FilesStay ==
    ASSUME graph' = graph
    PROVE  /\ Resolution!NamesAgree' <=> Resolution!NamesAgree
           /\ Resolution!Ranks' = Resolution!Ranks
           /\ \A f : Resolution!Closure(f)' = Resolution!Closure(f)
           /\ \A n : Resolution!Named(n)' = Resolution!Named(n)
           /\ \A s : Resolution!Complete(s)' <=> Resolution!Complete(s)
<1>1. Resolution!NamesAgree' <=> Resolution!NamesAgree
  BY DEF Resolution!NamesAgree
<1>2. \A n : Resolution!Named(n)' = Resolution!Named(n)
  BY DEF Resolution!Named
<1>3. \A f : Resolution!Closure(f)' = Resolution!Closure(f)
  BY DEF Resolution!Closure, Resolution!Named
<1>4. Resolution!Ranks' = Resolution!Ranks
  BY DEF Resolution!Ranks, Resolution!Named
<1>5. \A s : Resolution!Complete(s)' <=> Resolution!Complete(s)
  BY DEF Resolution!Complete, Resolution!Named
<1>6. QED
  BY <1>1, <1>2, <1>3, <1>4, <1>5

(* The front of the queue and what is behind it. *)
LEMMA Front ==
    ASSUME Resolution!TypeOK, unresolved # << >>
    PROVE  /\ Len(unresolved) \in Nat \ {0}
           /\ DOMAIN unresolved = 1 .. Len(unresolved)
           /\ \A i \in 1 .. Len(unresolved) : unresolved[i] \in [file : Files, seen : Nat]
           /\ Head(unresolved) = unresolved[1]
           /\ Resolution!Msg \in Files /\ Head(unresolved).seen \in Nat
           /\ Tail(unresolved) \in Seq([file : Files, seen : Nat])
           /\ DOMAIN Tail(unresolved) = 1 .. Len(unresolved) - 1
           /\ \A i \in 1 .. Len(unresolved) - 1 : Tail(unresolved)[i] = unresolved[i + 1]
<1>1. unresolved \in Seq([file : Files, seen : Nat])
  BY DEF Resolution!TypeOK
<1>2. Len(unresolved) \in Nat \ {0} /\ Head(unresolved) = unresolved[1]
  BY <1>1
<1>3. \A i \in 1 .. Len(unresolved) : unresolved[i] \in [file : Files, seen : Nat]
  <2> DEFINE entry == [file : Files, seen : Nat]
  <2>1. unresolved \in Seq(entry)
    BY <1>1
  <2> HIDE DEF entry
  <2>2. \A i \in 1 .. Len(unresolved) : unresolved[i] \in entry
    BY <2>1
  <2>3. QED
    BY <2>2 DEF entry
<1>4. Resolution!Msg \in Files /\ Head(unresolved).seen \in Nat
  BY <1>2, <1>3 DEF Resolution!Msg
<1>5. QED
  BY <1>1, <1>2, <1>3, <1>4

(* Each step keeps the types. *)
LEMMA ResolutionTypes ==
    ASSUME Resolution!TypeOK, Resolution!Next
    PROVE  Resolution!TypeOK'
<1> DEFINE entry == [file : Files, seen : Nat]
<1>1. CASE Resolution!Resolve
  <2>1. unresolved # << >> /\ graph' = graph /\ unresolved' = Tail(unresolved)
    BY <1>1 DEF Resolution!Resolve
  <2>2. /\ Resolution!Msg \in Resolution!All
        /\ Resolution!Below(Resolution!Msg) \in SUBSET Resolution!All
    BY <2>1, Front, BelowIs DEF Resolution!All
  <2>3. /\ resolved' \in [FullNames -> SUBSET Resolution!All]
        /\ covers' \in [Resolution!All -> SUBSET Resolution!All]
    <3>1. \/ resolved' = resolved /\ covers' = covers
          \/ /\ resolved' = [resolved EXCEPT ![graph.name[Resolution!Msg]] = {Resolution!Msg}]
             /\ covers' = [covers EXCEPT ![Resolution!Msg] =
                              {Resolution!Msg} \cup Resolution!Below(Resolution!Msg)]
      BY <1>1 DEF Resolution!Resolve
    <3>2. QED
      BY <3>1, <2>2, GraphTypes DEF Resolution!TypeOK
  <2>4. outcome' \in {"running", "resolved", "failed", "recursing"}
    BY <1>1 DEF Resolution!Resolve, Resolution!After
  <2>5. QED
    BY <2>1, <2>3, <2>4, Front DEF Resolution!TypeOK
<1>2. CASE Resolution!PutBack
  <2>1. /\ unresolved # << >> /\ graph' = graph /\ resolved' = resolved /\ covers' = covers
        /\ unresolved' = Append(Tail(unresolved), [Head(unresolved) EXCEPT !.seen = @ + 1])
    BY <1>2 DEF Resolution!PutBack
  <2>2. [Head(unresolved) EXCEPT !.seen = @ + 1] \in entry
    <3>1. Head(unresolved) \in entry
      BY <2>1, Front
    <3>2. QED
      BY <3>1
  <2>3. unresolved' \in Seq(entry)
    <3>1. Tail(unresolved) \in Seq(entry)
      BY <2>1, Front
    <3> HIDE DEF entry
    <3>2. QED
      BY <2>1, <2>2, <3>1
  <2>4. outcome' \in {"running", "resolved", "failed", "recursing"}
    BY <1>2 DEF Resolution!PutBack, Resolution!After
  <2>5. QED
    BY <2>1, <2>3, <2>4 DEF Resolution!TypeOK
<1>3. QED
  BY <1>1, <1>2 DEF Resolution!Next

(* Where files of one name refer to the same, the file that takes its turn  *)
(* and the place of another of its name refers to nothing that leads to it. *)
LEMMA StaysGrounded ==
    ASSUME Resolution!TypeOK, Resolution!NamesAgree, Resolution!ResolvedByName,
           Resolution!FinishedClosed, Resolution!Grounded,
           NEW m \in Resolution!All, \A n \in graph.refers[m] : resolved[n] # {},
           graph' = graph, resolved' = [resolved EXCEPT ![graph.name[m]] = {m}]
    PROVE  Resolution!Grounded'
<1> USE GraphTypes
<1> DEFINE k == graph.name[m]
<1>1. k \in FullNames /\ \A n \in FullNames : resolved'[n] = IF n = k THEN {m} ELSE resolved[n]
  BY DEF Resolution!TypeOK
<1>2. \A n \in FullNames : m \in resolved[n] => n = k
  BY DEF Resolution!ResolvedByName, Resolution!Named
<1>3. \A f \in Resolution!Done : f \in Resolution!All /\ graph.name[f] \in FullNames
                                 /\ \A n \in graph.refers[f] : n \in FullNames /\ resolved[n] # {}
  BY DEF Resolution!Done, Resolution!ResolvedByName, Resolution!FinishedClosed
<1>4. Resolution!Done' \subseteq (Resolution!Done \ resolved[k]) \cup {m}
  <2> SUFFICES ASSUME NEW f \in Resolution!All, f \in resolved'[graph.name[f]], f # m
               PROVE  f \in Resolution!Done /\ f \notin resolved[k]
    BY DEF Resolution!Done, Resolution!All
  <2>1. graph.name[f] # k /\ f \in resolved[graph.name[f]]
    BY <1>1
  <2>2. QED
    BY <2>1, <1>1 DEF Resolution!Done, Resolution!ResolvedByName, Resolution!Named
<1>5. resolved[k] \subseteq Resolution!Done /\ \A q \in resolved[k] : graph.refers[q] = graph.refers[m]
  BY <1>1 DEF Resolution!Done, Resolution!ResolvedByName, Resolution!Named, Resolution!NamesAgree
<1> SUFFICES ASSUME NEW s \in SUBSET ((Resolution!Done \ resolved[k]) \cup {m}), s # {}
             PROVE  \E f \in s : \A n \in graph.refers[f] : resolved'[n] \cap s = {}
  <2>1. Resolution!Grounded' <=> \A s \in SUBSET Resolution!Done' : s # {} =>
            \E f \in s : \A n \in graph'.refers[f] : resolved'[n] \cap s = {}
    BY DEF Resolution!Grounded
  <2> HIDE DEF k
  <2>2. QED
    BY <2>1, <1>4
<1> HIDE DEF k
<1>6. CASE m \notin s
  <2>1. PICK f \in s : \A n \in graph.refers[f] : resolved[n] \cap s = {}
    BY <1>6 DEF Resolution!Grounded
  <2>2. QED
    BY <2>1, <1>1, <1>3, <1>6
<1>7. CASE m \in s
  <2> DEFINE t == (s \ {m}) \cup resolved[k]
  <2>1. t \in SUBSET Resolution!Done /\ s \subseteq t \cup {m}
    BY <1>5
  <2>2. CASE t = {}
    <3>1. s = {m} /\ resolved[k] = {}
      BY <2>2, <1>7
    <3>2. \A n \in graph.refers[m] : n \in FullNames /\ n # k
      BY <3>1
    <3>3. QED
      BY <3>1, <3>2, <1>1, <1>2
  <2>3. CASE t # {}
    <3>1. PICK f \in t : \A n \in graph.refers[f] : resolved[n] \cap t = {}
      BY <2>1, <2>3 DEF Resolution!Grounded
    <3>2. \A n \in graph.refers[f] : n \in FullNames /\ resolved[n] # {} /\ n # k
      BY <3>1, <2>1, <1>3
    <3>3. \A n \in graph.refers[f] : resolved'[n] \cap s = {}
      BY <3>1, <3>2, <2>1, <1>1, <1>2
    <3>4. CASE f \in s
      BY <3>3, <3>4
    <3>5. CASE f \in resolved[k]
      <4>1. graph.refers[m] = graph.refers[f]
        BY <3>5, <1>5
      <4>2. QED
        BY <4>1, <3>3, <1>7
    <3>6. QED
      BY <3>4, <3>5
  <2>4. QED
    BY <2>2, <2>3
<1>8. QED
  BY <1>6, <1>7

(* A file that is resolved joins those that are, and refers to none but them. *)
LEMMA ResolveKeeps ==
    ASSUME Resolution!IInv, Resolution!Resolve
    PROVE  Resolution!IInv'
<1> DEFINE m == Resolution!Msg
<1> USE GraphTypes, Front
<1>1. /\ Resolution!TypeOK /\ Resolution!CoversAll /\ Builtins \subseteq Resolution!Finished
      /\ Resolution!ResolvedByName /\ Resolution!FinishedClosed /\ Resolution!Supplied
      /\ Resolution!RestQueued /\ Resolution!InRounds /\ Resolution!WithinRank
      /\ Resolution!NamesAgree => Resolution!Grounded
  BY DEF Resolution!IInv
<1>2. /\ unresolved # << >> /\ outcome = "running" /\ m \in Files /\ m \in Resolution!All
      /\ \A n \in graph.refers[m] : resolved[n] # {}
  BY <1>1 DEF Resolution!Resolve, Resolution!FullyResolved, Resolution!All
<1>3. Resolution!NamesAgree => ~ Resolution!Endless(m)
  BY <1>1, <1>2, NoCircle
<1>4. /\ unresolved' = Tail(unresolved) /\ graph' = graph
      /\ \/ /\ Resolution!Endless(m) /\ outcome' = "recursing"
            /\ resolved' = resolved /\ covers' = covers
         \/ /\ ~ Resolution!Endless(m)
            /\ resolved' = [resolved EXCEPT ![graph.name[m]] = {m}]
            /\ covers' = [covers EXCEPT ![m] = {m} \cup Resolution!Below(m)]
            /\ outcome' = IF Head(unresolved).seen > PARSE_LIMIT THEN "failed"
                          ELSE IF Tail(unresolved) = << >> THEN "resolved" ELSE "running"
  BY DEF Resolution!Resolve, Resolution!After
<1> HIDE DEF m
<1>5. /\ Resolution!NamesAgree' <=> Resolution!NamesAgree
      /\ Resolution!Ranks' = Resolution!Ranks
      /\ \A n : Resolution!Named(n)' = Resolution!Named(n)
      /\ \A f : Resolution!Closure(f)' = Resolution!Closure(f)
      /\ \A s : Resolution!Complete(s)' <=> Resolution!Complete(s)
  BY <1>4, FilesStay
<1>6. Resolution!TypeOK'
  BY <1>1, ResolutionTypes DEF Resolution!Next
<1>8. Resolution!InRounds'
  <2> SUFFICES ASSUME NEW i \in 1 .. Len(unresolved) - 1, NEW j \in 1 .. Len(unresolved) - 1, i < j
               PROVE  /\ Tail(unresolved)[i].seen <= Tail(unresolved)[j].seen
                      /\ Tail(unresolved)[j].seen <= Tail(unresolved)[i].seen + 1
    BY <1>1, <1>2, <1>4 DEF Resolution!InRounds
  <2>1. /\ i + 1 \in DOMAIN unresolved /\ j + 1 \in DOMAIN unresolved /\ i + 1 < j + 1
        /\ Tail(unresolved)[i] = unresolved[i + 1] /\ Tail(unresolved)[j] = unresolved[j + 1]
    BY <1>1, <1>2
  <2>2. QED
    BY <2>1, <1>1 DEF Resolution!InRounds
<1>9. Resolution!WithinRank'
  <2> SUFFICES ASSUME NEW rank \in Resolution!Ranks, NEW i \in 1 .. Len(unresolved) - 1
               PROVE  Tail(unresolved)[i].seen <= rank[Tail(unresolved)[i].file]
    BY <1>1, <1>2, <1>4, <1>5 DEF Resolution!WithinRank
  <2>1. i + 1 \in DOMAIN unresolved /\ Tail(unresolved)[i] = unresolved[i + 1]
    BY <1>1, <1>2
  <2>2. QED
    BY <2>1, <1>1 DEF Resolution!WithinRank
<1>10. CASE Resolution!Endless(m)
  <2>1. resolved' = resolved /\ covers' = covers /\ outcome' = "recursing" /\ ~ Resolution!NamesAgree
    BY <1>3, <1>4, <1>10
  <2>2. Resolution!Finished' = Resolution!Finished
    BY <2>1 DEF Resolution!Finished, Resolution!All
  <2>3. Resolution!ResolvedByName' /\ Resolution!FinishedClosed' /\ Resolution!Supplied'
    BY <1>1, <1>4, <1>5, <2>1, <2>2 DEF Resolution!ResolvedByName, Resolution!FinishedClosed,
                                        Resolution!Supplied, Resolution!All
  <2>4. Resolution!RestQueued' /\ Resolution!Ended' /\ Resolution!CoversAll'
    BY <2>1, <1>5 DEF Resolution!RestQueued, Resolution!Ended, Resolution!CoversAll
  <2>5. QED
    BY <1>1, <1>5, <1>6, <1>8, <1>9, <2>1, <2>2, <2>3, <2>4 DEF Resolution!IInv
<1>11. CASE ~ Resolution!Endless(m)
  <2>1. /\ resolved' = [resolved EXCEPT ![graph.name[m]] = {m}]
        /\ covers' = [covers EXCEPT ![m] = {m} \cup Resolution!Below(m)]
        /\ outcome' = IF Head(unresolved).seen > PARSE_LIMIT THEN "failed"
                      ELSE IF Tail(unresolved) = << >> THEN "resolved" ELSE "running"
    BY <1>4, <1>11
  <2>2. \A n \in FullNames : resolved'[n] = IF n = graph.name[m] THEN {m} ELSE resolved[n]
    BY <1>1, <2>1 DEF Resolution!TypeOK
  <2>3. Resolution!Finished' = Resolution!Finished \cup {m}
    <3>1. \A f \in Resolution!All :
              covers'[f] = IF f = m THEN {m} \cup Resolution!Below(m) ELSE covers[f]
      BY <1>1, <1>2, <2>1 DEF Resolution!TypeOK
    <3>2. Resolution!Finished' = {f \in Resolution!All : covers'[f] # {}}
      BY DEF Resolution!Finished, Resolution!All
    <3>3. QED
      BY <3>1, <3>2, <1>2 DEF Resolution!Finished
  <2>4. Resolution!ResolvedByName'
    <3>1. \A n \in FullNames :
              resolved'[n] \subseteq Resolution!Named(n) \cap (Resolution!Finished \cup {m})
      BY <1>1, <1>2, <2>2 DEF Resolution!ResolvedByName, Resolution!Named
    <3>2. \A n \in FullNames : \A f, g \in resolved'[n] : f = g
      BY <1>1, <2>2 DEF Resolution!ResolvedByName
    <3>3. \A f \in Resolution!Finished \cup {m} : resolved'[graph.name[f]] # {}
      <4>1. \A f \in Resolution!Finished : graph.name[f] \in FullNames
        BY <1>1 DEF Resolution!Finished
      <4>2. QED
        BY <4>1, <1>1, <1>2, <2>2 DEF Resolution!ResolvedByName
    <3>4. QED
      BY <3>1, <3>2, <3>3, <1>4, <1>5, <2>3 DEF Resolution!ResolvedByName
  <2>5. Resolution!FinishedClosed'
    <3> SUFFICES ASSUME NEW f \in Resolution!Finished \cup {m}, NEW n \in graph.refers[f]
                 PROVE  resolved'[n] # {}
      BY <1>4, <2>3 DEF Resolution!FinishedClosed
    <3>1. resolved[n] # {} /\ n \in FullNames
      BY <1>1, <1>2 DEF Resolution!FinishedClosed, Resolution!Finished
    <3>2. QED
      BY <3>1, <2>2
  <2>6. Resolution!Supplied'
    <3> SUFFICES ASSUME NEW s \in SUBSET Resolution!All, Resolution!Complete(s)
                 PROVE  Resolution!Finished \cup {m} \subseteq s
      BY <1>5, <2>3 DEF Resolution!Supplied, Resolution!All
    <3>1. Resolution!Finished \subseteq s
      BY <1>1 DEF Resolution!Supplied
    <3>2. ASSUME NEW n \in graph.refers[m] PROVE Resolution!Named(n) \cap s # {}
      <4>1. resolved[n] # {} /\ resolved[n] \subseteq Resolution!Named(n) \cap Resolution!Finished
        BY <1>1, <1>2 DEF Resolution!ResolvedByName
      <4>2. QED
        BY <4>1, <3>1
    <3>3. QED
      BY <3>1, <3>2, <1>2 DEF Resolution!Complete
  <2>7. Resolution!NamesAgree' => Resolution!Grounded'
    BY <1>1, <1>2, <1>4, <1>5, <2>1, StaysGrounded
  <2>8. Resolution!RestQueued'
    <3> SUFFICES ASSUME NEW f \in Files \ Resolution!Finished, f # m
                 PROVE  \E i \in DOMAIN Tail(unresolved) : Tail(unresolved)[i].file = f
      BY <1>4, <2>3 DEF Resolution!RestQueued
    <3>1. PICK i \in 1 .. Len(unresolved) : unresolved[i].file = f
      BY <1>1, <1>2 DEF Resolution!RestQueued
    <3>2. i # 1
      BY <3>1, <1>1, <1>2 DEF m, Resolution!Msg
    <3>3. i - 1 \in DOMAIN Tail(unresolved) /\ Tail(unresolved)[i - 1] = unresolved[i]
      BY <3>2, <1>1, <1>2
    <3>4. QED
      BY <3>1, <3>3
  <2>9. Resolution!Ended'
    <3>1. ASSUME NEW rank \in Resolution!Ranks PROVE Head(unresolved).seen <= PARSE_LIMIT
      <4>1. Head(unresolved).seen <= rank[m]
        BY <1>1, <1>2 DEF Resolution!WithinRank, m, Resolution!Msg
      <4>2. rank[m] \in 0 .. PARSE_LIMIT
        BY <1>2 DEF Resolution!Ranks
      <4>3. QED
        BY <4>1, <4>2, <1>1, <1>2, FilesAssumption
    <3>2. outcome' = "failed" => Resolution!Ranks = {}
      BY <3>1, <1>1, <1>2, <2>1, FilesAssumption
    <3>3. QED
      BY <3>2, <1>4, <2>1, <1>5 DEF Resolution!Ended
  <2>10. Resolution!CoversAll'
    <3> SUFFICES ASSUME Resolution!NamesAgree, NEW f \in Resolution!All, covers'[f] # {}
                 PROVE  /\ f \in covers'[f] /\ covers'[f] \subseteq Resolution!Closure(f)
                        /\ \A g \in Resolution!Closure(f) :
                               \E h \in covers'[f] : graph.name[h] = graph.name[g]
                        /\ \A g, h \in covers'[f] : graph.name[g] = graph.name[h] => g = h
      BY <1>4, <1>5 DEF Resolution!CoversAll, Resolution!All
    <3>1. covers'[f] = IF f = m THEN {m} \cup Resolution!Below(m) ELSE covers[f]
      BY <1>1, <1>2, <2>1 DEF Resolution!TypeOK
    <3>2. CASE f = m
      <4> DEFINE all == {m} \cup Resolution!Below(m)
      <4>1. /\ all \subseteq Resolution!Closure(m)
            /\ \A g \in Resolution!Closure(m) : \E h \in all : graph.name[h] = graph.name[g]
            /\ \A g, h \in all : graph.name[g] = graph.name[h] => g = h
        BY <1>1, <1>2, CoversIs
      <4>2. m \in all /\ covers'[f] = all
        BY <3>1, <3>2
      <4> HIDE DEF all
      <4>3. QED
        BY <4>1, <4>2, <3>2
    <3>3. CASE f # m
      BY <3>1, <3>3, <1>1 DEF Resolution!CoversAll
    <3>4. QED
      BY <3>2, <3>3
  <2>11. outcome' # "recursing"
    BY <2>1
  <2>12. QED
    BY <1>1, <1>5, <1>6, <1>8, <1>9, <2>3, <2>4, <2>5, <2>6, <2>7, <2>8, <2>9, <2>10, <2>11
       DEF Resolution!IInv
<1>12. QED
  BY <1>10, <1>11

(* A file that is put back refers to one that is still queued, of less rank, *)
(* and that one was seen as often.                                           *)
LEMMA PutBackKeeps ==
    ASSUME Resolution!IInv, Resolution!PutBack
    PROVE  Resolution!IInv'
<1> DEFINE m == Resolution!Msg
           size == Len(unresolved)
           again == [Head(unresolved) EXCEPT !.seen = @ + 1]
<1>1. /\ Resolution!TypeOK /\ Resolution!CoversAll /\ Builtins \subseteq Resolution!Finished
      /\ Resolution!ResolvedByName /\ Resolution!FinishedClosed /\ Resolution!Supplied
      /\ Resolution!NamesAgree => Resolution!Grounded
      /\ Resolution!RestQueued /\ Resolution!InRounds /\ Resolution!WithinRank
  BY DEF Resolution!IInv
<1>2. unresolved # << >> /\ outcome = "running" /\ \E n \in graph.refers[m] : resolved[n] = {}
  BY DEF Resolution!PutBack, Resolution!FullyResolved
<1>3. /\ graph' = graph /\ resolved' = resolved /\ covers' = covers
      /\ unresolved' = Append(Tail(unresolved), again)
      /\ outcome' = IF Head(unresolved).seen > PARSE_LIMIT THEN "failed"
                    ELSE IF unresolved' = << >> THEN "resolved" ELSE "running"
  BY DEF Resolution!PutBack, Resolution!After
<1>4. /\ size \in Nat \ {0} /\ DOMAIN unresolved = 1 .. size
      /\ \A i \in 1 .. size : unresolved[i].file \in Files /\ unresolved[i].seen \in Nat
      /\ Head(unresolved) = unresolved[1] /\ m = unresolved[1].file
  BY <1>1, <1>2, Front DEF Resolution!Msg
<1>5. again.file = m /\ again.seen = unresolved[1].seen + 1
  BY <1>1, <1>2, <1>4, Front
<1>6. /\ DOMAIN unresolved' = 1 .. size
      /\ \A i \in 1 .. size - 1 : unresolved'[i] = unresolved[i + 1]
      /\ unresolved'[size] = again
  <2> DEFINE entry == [file : Files, seen : Nat]
  <2>1. Tail(unresolved) \in Seq(entry) /\ again \in entry
    BY <1>1, <1>2, Front
  <2>2. Len(Tail(unresolved)) = size - 1
        /\ \A i \in 1 .. size - 1 : Tail(unresolved)[i] = unresolved[i + 1]
    BY <1>1, <1>2, Front
  <2> HIDE DEF entry, again, size
  <2>3. QED
    BY <2>1, <2>2, <1>3, <1>4
<1> HIDE DEF m, size, again
<1>7. Resolution!TypeOK'
  BY <1>1, ResolutionTypes DEF Resolution!Next
<1>8. /\ Resolution!NamesAgree' <=> Resolution!NamesAgree
      /\ Resolution!Ranks' = Resolution!Ranks
      /\ \A s : Resolution!Complete(s)' <=> Resolution!Complete(s)
      /\ \A f : Resolution!Closure(f)' = Resolution!Closure(f)
      /\ \A n : Resolution!Named(n)' = Resolution!Named(n)
  BY <1>3, FilesStay
<1>9. /\ Resolution!Finished' = Resolution!Finished
      /\ Resolution!ResolvedByName' /\ Resolution!FinishedClosed' /\ Resolution!Supplied'
      /\ Resolution!NamesAgree' => Resolution!Grounded'
  <2>1. Resolution!Finished' = Resolution!Finished /\ Resolution!Done' = Resolution!Done
    BY <1>3 DEF Resolution!Finished, Resolution!Done, Resolution!All
  <2>2. Resolution!ResolvedByName' /\ Resolution!FinishedClosed'
    BY <1>1, <1>3, <1>8, <2>1 DEF Resolution!ResolvedByName, Resolution!FinishedClosed
  <2>3. Resolution!Supplied'
    BY <1>1, <1>8, <2>1 DEF Resolution!Supplied, Resolution!All
  <2>4. Resolution!NamesAgree' => Resolution!Grounded'
    BY <1>1, <1>3, <1>8, <2>1 DEF Resolution!Grounded
  <2>5. QED
    BY <2>1, <2>2, <2>3, <2>4
<1>10. Resolution!RestQueued'
  <2> SUFFICES ASSUME NEW f \in Files \ Resolution!Finished
               PROVE  \E i \in 1 .. size : unresolved'[i].file = f
    BY <1>6, <1>9 DEF Resolution!RestQueued
  <2>1. PICK i \in 1 .. size : unresolved[i].file = f
    BY <1>1, <1>2, <1>4 DEF Resolution!RestQueued
  <2>2. CASE i = 1
    BY <2>1, <2>2, <1>4, <1>5, <1>6
  <2>3. CASE i # 1
    <3>1. i - 1 \in 1 .. size - 1 /\ unresolved'[i - 1] = unresolved[i]
      BY <2>3, <1>4, <1>6
    <3>2. QED
      BY <3>1, <2>1, <1>4
  <2>4. QED
    BY <2>2, <2>3
<1>11. \A j \in 1 .. size : /\ unresolved[1].seen <= unresolved[j].seen
                            /\ unresolved[j].seen <= unresolved[1].seen + 1
  <2> SUFFICES ASSUME NEW j \in 1 .. size
               PROVE  /\ unresolved[1].seen <= unresolved[j].seen
                      /\ unresolved[j].seen <= unresolved[1].seen + 1
    OBVIOUS
  <2>1. 1 \in DOMAIN unresolved /\ j \in DOMAIN unresolved
    BY <1>4
  <2>2. CASE j = 1
    BY <2>1, <2>2, <1>4
  <2>3. CASE 1 < j
    BY <2>1, <2>3, <1>1 DEF Resolution!InRounds
  <2>4. QED
    BY <2>2, <2>3, <1>4
<1>12. Resolution!InRounds'
  <2> SUFFICES ASSUME NEW i \in 1 .. size, NEW j \in 1 .. size, i < j
               PROVE  /\ unresolved'[i].seen <= unresolved'[j].seen
                      /\ unresolved'[j].seen <= unresolved'[i].seen + 1
    BY <1>6 DEF Resolution!InRounds
  <2>1. i \in 1 .. size - 1 /\ i + 1 \in 1 .. size /\ unresolved'[i] = unresolved[i + 1]
    BY <1>4, <1>6
  <2>2. CASE j = size
    BY <2>1, <2>2, <1>4, <1>5, <1>6, <1>11
  <2>3. CASE j # size
    <3>1. j \in 1 .. size - 1 /\ j + 1 \in 1 .. size /\ unresolved'[j] = unresolved[j + 1]
      BY <2>3, <1>4, <1>6
    <3>2. /\ i + 1 \in DOMAIN unresolved /\ j + 1 \in DOMAIN unresolved /\ i + 1 < j + 1
      BY <2>1, <3>1, <1>4
    <3>3. QED
      BY <2>1, <3>1, <3>2, <1>1 DEF Resolution!InRounds
  <2>4. QED
    BY <2>2, <2>3
<1>13. ASSUME NEW rank \in Resolution!Ranks
       PROVE  unresolved[1].seen < rank[m] /\ unresolved[1].seen <= PARSE_LIMIT
  <2>1. PICK n \in graph.refers[m] : resolved[n] = {}
    BY <1>2
  <2>2. PICK g \in Resolution!Named(n) : g \in Builtins \/ rank[g] < rank[m]
    BY <1>4 DEF Resolution!Ranks
  <2>3. g \in Files \ Resolution!Finished /\ rank[g] < rank[m]
    <3>1. g \in Resolution!All /\ g \notin Resolution!Finished
      BY <2>1, <1>1 DEF Resolution!Named, Resolution!ResolvedByName
    <3>2. QED
      BY <3>1, <2>2, <1>1 DEF Resolution!All
  <2>4. PICK i \in 1 .. size : unresolved[i].file = g
    BY <2>3, <1>1, <1>2, <1>4 DEF Resolution!RestQueued
  <2>5. unresolved[i].seen <= rank[g]
    BY <2>4, <1>1, <1>4 DEF Resolution!WithinRank
  <2>6. rank[g] \in 0 .. PARSE_LIMIT /\ rank[m] \in 0 .. PARSE_LIMIT
    BY <2>3, <1>4 DEF Resolution!Ranks
  <2>7. QED
    BY <2>3, <2>4, <2>5, <2>6, <1>4, <1>11, FilesAssumption
<1>14. Resolution!WithinRank'
  <2> SUFFICES ASSUME NEW rank \in Resolution!Ranks, NEW i \in 1 .. size
               PROVE  unresolved'[i].seen <= rank[unresolved'[i].file]
    BY <1>6, <1>8 DEF Resolution!WithinRank
  <2>1. CASE i = size
    <3>1. rank[m] \in 0 .. PARSE_LIMIT
      BY <1>4 DEF Resolution!Ranks
    <3>2. QED
      BY <2>1, <3>1, <1>4, <1>5, <1>6, <1>13, FilesAssumption
  <2>2. CASE i # size
    <3>1. i + 1 \in 1 .. size /\ unresolved'[i] = unresolved[i + 1]
      BY <2>2, <1>4, <1>6
    <3>2. QED
      BY <3>1, <1>1, <1>4 DEF Resolution!WithinRank
  <2>3. QED
    BY <2>1, <2>2
<1>15. Resolution!Ended'
  <2>1. unresolved' # << >>
    BY <1>4, <1>6
  <2>2. outcome' # "resolved" /\ outcome' # "recursing"
    BY <2>1, <1>3
  <2>3. outcome' = "failed" => Resolution!Ranks = {}
    BY <1>3, <1>4, <1>13, FilesAssumption
  <2>4. QED
    BY <2>2, <2>3, <1>8 DEF Resolution!Ended
<1>16. Resolution!CoversAll'
  BY <1>1, <1>3, <1>8 DEF Resolution!CoversAll, Resolution!All
<1>17. outcome' # "recursing"
  BY <1>3
<1>18. QED
  BY <1>1, <1>7, <1>9, <1>10, <1>12, <1>14, <1>15, <1>16, <1>17 DEF Resolution!IInv

LEMMA ResolutionStep ==
    ASSUME Resolution!IInv, [Resolution!Next]_(Resolution!vars)
    PROVE  Resolution!IInv'
<1>1. CASE Resolution!Next
  BY <1>1, ResolveKeeps, PutBackKeeps DEF Resolution!Next
<1>2. CASE UNCHANGED Resolution!vars
  <2> USE <1>2 DEF Resolution!vars
  <2>1. /\ Resolution!NamesAgree' <=> Resolution!NamesAgree
        /\ Resolution!Ranks' = Resolution!Ranks
        /\ \A f : Resolution!Closure(f)' = Resolution!Closure(f)
        /\ \A n : Resolution!Named(n)' = Resolution!Named(n)
        /\ \A s : Resolution!Complete(s)' <=> Resolution!Complete(s)
    BY FilesStay
  <2>2. Resolution!Finished' = Resolution!Finished /\ Resolution!Done' = Resolution!Done
    BY DEF Resolution!Finished, Resolution!Done, Resolution!All
  <2>3. Resolution!TypeOK' /\ Resolution!CoversAll'
    BY <2>1 DEF Resolution!IInv, Resolution!TypeOK, Resolution!CoversAll, Resolution!All
  <2>4. Resolution!ResolvedByName' /\ Resolution!FinishedClosed' /\ Resolution!Supplied'
    BY <2>1, <2>2 DEF Resolution!IInv, Resolution!ResolvedByName, Resolution!FinishedClosed,
                      Resolution!Supplied, Resolution!All
  <2>5. Resolution!NamesAgree' => Resolution!Grounded' /\ outcome' # "recursing"
    BY <2>1, <2>2 DEF Resolution!IInv, Resolution!Grounded
  <2>6. /\ Resolution!RestQueued' /\ Resolution!InRounds'
        /\ Resolution!WithinRank' /\ Resolution!Ended'
    BY <2>1, <2>2 DEF Resolution!IInv, Resolution!RestQueued, Resolution!InRounds,
                      Resolution!WithinRank, Resolution!Ended
  <2>7. QED
    BY <2>2, <2>3, <2>4, <2>5, <2>6 DEF Resolution!IInv
<1>3. QED
  BY <1>1, <1>2

(* Once the queue is empty every file is resolved, and so could be. *)
LEMMA ResolvesAll == ASSUME Resolution!IInv PROVE Resolution!ResolvesRight
<1>1. ASSUME outcome = "resolved" PROVE Resolution!AllResolvable
  <2>1. unresolved = << >> /\ Resolution!Supplied /\ Resolution!RestQueued
        /\ Builtins \subseteq Resolution!Finished
    BY <1>1 DEF Resolution!IInv, Resolution!Ended
  <2>2. Resolution!All \subseteq Resolution!Finished
    BY <1>1, <2>1 DEF Resolution!RestQueued, Resolution!All
  <2>3. QED
    BY <2>1, <2>2 DEF Resolution!Supplied, Resolution!AllResolvable
<1>2. QED
  BY <1>1 DEF Resolution!IInv, Resolution!Ended, Resolution!EndsRight, Resolution!ResolvesRight

(* Where another part runs, nothing is said of the files. *)
ResolutionInv == part = "resolution" => Resolution!IInv

LEMMA ResolutionStart == ASSUME AnyInit PROVE ResolutionInv
BY ResolutionInit DEF AnyInit, ResolutionInv

LEMMA ResolutionKeeps == ASSUME ResolutionInv, [AnyNext]_allVars PROVE ResolutionInv'
<1>1. part' = part
  BY DEF AnyNext, allVars
<1>2. CASE part = "resolution"
  <2>1. [Resolution!Next]_(Resolution!vars)
    BY <1>2 DEF AnyNext, allVars, graphVars, Resolution!vars
  <2>2. QED
    BY <1>1, <1>2, <2>1, ResolutionStep DEF ResolutionInv
<1>3. QED
  BY <1>1, <1>2 DEF ResolutionInv

(* Code generation: for any files, names and references, the built-in      *)
(* definitions among them, and in whatever order the files were found: all  *)
(* are resolved only if each can be, and resolve_dependency_graph gives up  *)
(* only if a chain of references is longer than its limit, or has no end.   *)
(* If files of one name refer to the same, the calculation of the sums      *)
(* ends, and each file that is resolved covers all it refers to, directly   *)
(* or not, and nothing else, from one file of each name.                    *)
THEOREM MessagesResolveRight == AnySpec => []ResolvesRight
<1>1. AnyInit => ResolutionInv
  BY ResolutionStart
<1>2. ResolutionInv /\ [AnyNext]_allVars => ResolutionInv'
  BY ResolutionKeeps
<1>3. ResolutionInv => ResolvesRight
  BY ResolvesAll DEF ResolutionInv, ResolvesRight
<1>4. QED
  BY <1>1, <1>2, <1>3, PTL DEF AnySpec

=============================================================================

------------------------- MODULE PublicationStream -------------------------
(***************************************************************************)
(* The messages of one ROS 1 publication: the broadcast channel, the task  *)
(* that accepts the TCP connections of subscribers and keeps the latched   *)
(* message, and the task that writes to each connection.                   *)
(*                                                                         *)
(* Source: roslibrust_ros1/src/publisher.rs (Publisher::publish,           *)
(* Publication::tcp_accept_task, Publication::publish_task).  The channel  *)
(* is tokio::sync::broadcast: every receiver has a position of its own and *)
(* loses the oldest messages when it falls Capacity behind.  Messages are  *)
(* the numbers 1, 2, ... in the order they are published.  How a           *)
(* publication is made and shut down is in Ros1Publication.                *)
(***************************************************************************)
EXTENDS Naturals, Sequences

CONSTANTS
    Conns,      \* TCP connections of subscribers
    Prompt,     \* those whose client is sure to send its header
    Capacity,   \* of the broadcast channel
    MaxSent,    \* bound: messages published
    Selecting,  \* the accept task is in its select
    Dead        \* the accept task has panicked

ASSUME StreamAssumption ==
    /\ Capacity \in Nat \ {0} /\ MaxSent \in Nat
    /\ Prompt \subseteq Conns
    /\ Selecting \notin Conns /\ Dead \notin Conns /\ Selecting # Dead

VARIABLES
    sent,       \* messages published so far
    accept,     \* the accept task: Selecting, Dead, or in a handshake
    acceptPos,  \* next message of its receiver
    last,       \* the message it keeps for latching, 0 if none
    topic,      \* whether it is latched or plain
    conn,       \* state of each connection
    latched,    \* the copy of last its writer was started with
    pos,        \* next message of the writer's receiver
    got,        \* what has been written to it
    joined      \* history: what was sent when its writer was made

acceptVars == <<accept, acceptPos, last, topic>>
connVars == <<conn, latched, pos, got, joined>>
vars == <<sent, acceptVars, connVars>>

Messages == 1 .. MaxSent

Latching == topic = "latched"

TypeOK ==
    /\ sent \in 0 .. MaxSent
    /\ accept \in Conns \cup {Selecting, Dead}
    /\ acceptPos \in 1 .. MaxSent + 1
    /\ last \in 0 .. MaxSent
    /\ topic \in {"latched", "plain"}
    /\ conn \in [Conns -> {"absent", "connecting", "greeting", "streaming", "closed"}]
    /\ latched \in [Conns -> 0 .. MaxSent]
    /\ pos \in [Conns -> 1 .. MaxSent + 1]
    /\ got \in [Conns -> Seq(Messages)]
    /\ joined \in [Conns -> 0 .. MaxSent]

Init ==
    /\ sent = 0
    /\ accept = Selecting
    /\ acceptPos = 1
    /\ last = 0
    /\ topic \in {"latched", "plain"}
    /\ conn = [c \in Conns |-> "absent"]
    /\ latched = [c \in Conns |-> 0]
    /\ pos = [c \in Conns |-> 1]
    /\ got = [c \in Conns |-> << >>]
    /\ joined = [c \in Conns |-> 0]

-----------------------------------------------------------------------------
(***************************************************************************)
(* Publishing                                                              *)
(***************************************************************************)

Written(c) == conn[c] \in {"greeting", "streaming"}

(* Counts the receivers of the channel, the accept task's among them. *)
HasConnectedClients == accept # Dead \/ \E c \in Conns : Written(c)

Publish ==
    /\ sent < MaxSent
    /\ HasConnectedClients
    /\ sent' = sent + 1
    /\ UNCHANGED <<acceptVars, connVars>>

(* The oldest message the channel still has. *)
Oldest == IF sent > Capacity THEN sent - Capacity + 1 ELSE 1

-----------------------------------------------------------------------------
(***************************************************************************)
(* tcp_accept_task                                                         *)
(***************************************************************************)

KeepLatched ==
    /\ accept = Selecting
    /\ acceptPos \in Oldest .. sent
    /\ last' = IF Latching THEN acceptPos ELSE last
    /\ acceptPos' = acceptPos + 1
    /\ UNCHANGED <<sent, accept, topic, connVars>>

AcceptLags ==
    /\ accept = Selecting
    /\ acceptPos < Oldest
    /\ acceptPos' = Oldest
    /\ UNCHANGED <<sent, accept, last, topic, connVars>>

ClientConnects(c) ==
    /\ conn[c] = "absent" /\ accept # Dead
    /\ conn' = [conn EXCEPT ![c] = "connecting"]
    /\ UNCHANGED <<sent, acceptVars, latched, pos, got, joined>>

(* Mutation: a connection waits until no other is written to. *)
AcceptAlone(c) ==
    /\ accept = Selecting
    /\ conn[c] = "connecting" /\ \A d \in Conns : ~ Written(d)
    /\ accept' = c
    /\ UNCHANGED <<sent, acceptPos, last, topic, connVars>>

(* From here the task does nothing else until the handshake is over. *)
Accept(c) ==
    /\ accept = Selecting
    /\ conn[c] = "connecting"
    /\ accept' = c
    /\ UNCHANGED <<sent, acceptPos, last, topic, connVars>>

(* Mutation: the writer's receiver starts at the latched message. *)
HandshakeAtLatched(c) ==
    /\ accept = c
    /\ accept' = Selecting
    /\ conn' = [conn EXCEPT ![c] = "greeting"]
    /\ latched' = [latched EXCEPT ![c] = last]
    /\ pos' = [pos EXCEPT ![c] = IF last = 0 THEN sent + 1 ELSE last]
    /\ joined' = [joined EXCEPT ![c] = sent]
    /\ UNCHANGED <<sent, acceptPos, last, topic, got>>

(* The header has come and fits: the writer gets a receiver of what is sent *)
(* from now on, and a copy of the latched message.                          *)
Handshake(c) ==
    /\ accept = c
    /\ accept' = Selecting
    /\ conn' = [conn EXCEPT ![c] = "greeting"]
    /\ latched' = [latched EXCEPT ![c] = last]
    /\ pos' = [pos EXCEPT ![c] = sent + 1]
    /\ joined' = [joined EXCEPT ![c] = sent]
    /\ UNCHANGED <<sent, acceptPos, last, topic, got>>

(* No header, or another md5sum. *)
Reject(c) ==
    /\ accept = c
    /\ accept' = Selecting
    /\ conn' = [conn EXCEPT ![c] = "closed"]
    /\ UNCHANGED <<sent, acceptPos, last, topic, latched, pos, got, joined>>

(* The client is gone when it should be answered or closed: expect panics. *)
Panic(c) ==
    /\ accept = c
    /\ accept' = Dead
    /\ conn' = [conn EXCEPT ![c] = "closed"]
    /\ UNCHANGED <<sent, acceptPos, last, topic, latched, pos, got, joined>>

(* The listener went with the task. *)
Refuse(c) ==
    /\ accept = Dead
    /\ conn[c] = "connecting"
    /\ conn' = [conn EXCEPT ![c] = "closed"]
    /\ UNCHANGED <<sent, acceptVars, latched, pos, got, joined>>

-----------------------------------------------------------------------------
(***************************************************************************)
(* publish_task                                                            *)
(***************************************************************************)

(* Mutation: the receiver is made after the latched message is written. *)
GreetThenSubscribe(c) ==
    /\ conn[c] = "greeting"
    /\ conn' = [conn EXCEPT ![c] = "streaming"]
    /\ got' = IF latched[c] # 0 THEN [got EXCEPT ![c] = Append(@, latched[c])] ELSE got
    /\ pos' = [pos EXCEPT ![c] = sent + 1]
    /\ UNCHANGED <<sent, acceptVars, latched, joined>>

Greet(c) ==
    /\ conn[c] = "greeting"
    /\ conn' = [conn EXCEPT ![c] = "streaming"]
    /\ got' = IF latched[c] # 0 THEN [got EXCEPT ![c] = Append(@, latched[c])] ELSE got
    /\ UNCHANGED <<sent, acceptVars, latched, pos, joined>>

Write(c) ==
    /\ conn[c] = "streaming"
    /\ pos[c] \in Oldest .. sent
    /\ got' = [got EXCEPT ![c] = Append(@, pos[c])]
    /\ pos' = [pos EXCEPT ![c] = @ + 1]
    /\ UNCHANGED <<sent, acceptVars, conn, latched, joined>>

Lag(c) ==
    /\ conn[c] = "streaming"
    /\ pos[c] < Oldest
    /\ pos' = [pos EXCEPT ![c] = Oldest]
    /\ UNCHANGED <<sent, acceptVars, conn, latched, got, joined>>

WriteFails(c) ==
    /\ conn[c] = "streaming" /\ pos[c] <= sent
    /\ conn' = [conn EXCEPT ![c] = "closed"]
    /\ UNCHANGED <<sent, acceptVars, latched, pos, got, joined>>

-----------------------------------------------------------------------------

AcceptStep(c) == Accept(c) \/ Refuse(c)
Answered(c) == Handshake(c) \/ Reject(c) \/ Panic(c)
WriterStep(c) == Greet(c) \/ Write(c) \/ Lag(c)

Next ==
    \/ Publish
    \/ KeepLatched \/ AcceptLags
    \/ \E c \in Conns : ClientConnects(c) \/ AcceptStep(c) \/ Answered(c)
                            \/ WriterStep(c) \/ WriteFails(c)

(***************************************************************************)
(* The tasks run, and select takes each of its branches now and then.      *)
(* A handshake goes on when the client sends its header.                   *)
(***************************************************************************)
Fairness ==
    /\ WF_vars(KeepLatched) /\ WF_vars(AcceptLags)
    /\ \A c \in Conns : SF_vars(AcceptStep(c)) /\ WF_vars(WriterStep(c))
    /\ \A c \in Prompt : WF_vars(Answered(c))

Spec == Init /\ [][Next]_vars /\ Fairness

-----------------------------------------------------------------------------
(***************************************************************************)
(* Properties                                                              *)
(***************************************************************************)

(* A subscriber gets no message twice and none out of order, also when a    *)
(* latched message is written before the first one from the channel.        *)
InOrderOnce ==
    \A c \in Conns : \A i, j \in 1 .. Len(got[c]) : i < j => got[c][i] < got[c][j]

(* A subscriber that stays connected misses none of the newest messages     *)
(* sent since its handshake, however far its writer falls behind.           *)
KeepsNewest ==
    \A c \in Conns : Written(c) =>
        \A m \in Oldest .. sent :
            m > joined[c] /\ m < pos[c] => \E i \in 1 .. Len(got[c]) : got[c][i] = m

(* The only message older than the handshake that a subscriber gets is the  *)
(* first one of a latched topic (tests: test_non_latching_publisher).       *)
OnlyLatchedIsOld ==
    \A c \in Conns : \A i \in 1 .. Len(got[c]) :
        got[c][i] > joined[c] \/ (Latching /\ i = 1)

(* What makes them inductive: where each receiver is. *)
ConnInv(c) ==
    /\ latched[c] <= joined[c] /\ joined[c] < pos[c] /\ pos[c] <= sent + 1
    /\ ~ Latching => latched[c] = 0
    /\ conn[c] \notin {"streaming", "closed"} => got[c] = << >>
    /\ accept = c => conn[c] = "connecting"
    /\ \A i \in 1 .. Len(got[c]) : got[c][i] < pos[c]

StreamInv ==
    /\ last < acceptPos /\ acceptPos <= sent + 1
    /\ ~ Latching => last = 0
    /\ \A c \in Conns : ConnInv(c)

IInv == TypeOK /\ StreamInv /\ InOrderOnce /\ KeepsNewest /\ OnlyLatchedIsOld

(* The last message published reaches every subscriber that has connected   *)
(* and stays.                                                               *)
LastMessageArrives ==
    \A c \in Conns :
        (Written(c) /\ joined[c] < sent)
            ~> (conn[c] = "closed" \/ \E i \in 1 .. Len(got[c]) : got[c][i] = sent)

(* The two ways in which the accept task stops accepting: a client that is  *)
(* connected and says nothing, for whom it waits without a timeout, and a   *)
(* client that is gone when it is answered.                                 *)
HandshakeHangs == <>[](accept \in Conns \ Prompt)
AcceptTaskDies == <>(accept = Dead)

(* Save for those two, every client that connects is served or turned away, *)
(* also behind one that is slow, and however much is published meanwhile    *)
(* ("This task constantly accepts new TCP connections").                    *)
ConnectionsServed ==
    \/ HandshakeHangs \/ AcceptTaskDies
    \/ \A c \in Conns : conn[c] = "connecting" ~> conn[c] # "connecting"

=============================================================================

----------------------------- MODULE MockTopics -----------------------------
(***************************************************************************)
(* One topic of MockRos, the in-process backend for tests: a map from the  *)
(* topic's name to a broadcast channel, made by whoever uses it first.     *)
(*                                                                         *)
(* Source: roslibrust_mock/src/lib.rs.  advertise and subscribe look for   *)
(* the channel under the read lock and, if there is none, insert their own *)
(* under the write lock without looking again.  The channel itself is      *)
(* tokio's broadcast: a receiver that falls more than Capacity messages    *)
(* behind is told so and goes on with the oldest that is kept; sending     *)
(* fails without receivers, receiving fails without senders.               *)
(***************************************************************************)
EXTENDS Naturals, Sequences

CONSTANTS
    Pubs, Subs,   \* users of the topic: calls of advertise and of subscribe
    Types,        \* message types
    Typings,      \* the choices of a type for each user that are considered
    NoTopic,      \* the map has no entry
    Messages,
    Capacity,     \* of a channel
    MaxSent       \* bound: messages sent over one channel

Users == Pubs \cup Subs

TopicConstants ==
    /\ Pubs \cap Subs = {}
    /\ NoTopic \notin Users
    /\ Typings \subseteq [Users -> Types]
    /\ Capacity \in Nat \ {0}

VARIABLES
    type,     \* the message type each user names
    topic,    \* whose channel is in the map; a channel has its creator's name
    user,     \* what became of each call and its handle
    channel,  \* the channel of each handle
    log,      \* all messages ever sent over each channel
    pos,      \* how many of them each receiver is past
    lagged,   \* receivers that lagged
    split     \* whether an entry was ever overwritten

topicVars == <<type, topic, user, channel, log, pos, lagged, split>>

TopicTypeOK ==
    /\ type \in [Users -> Types]
    /\ topic \in Users \cup {NoTopic}
    /\ user \in [Users -> {"idle", "creating", "live", "refused", "dropped"}]
    /\ channel \in [Users -> Users]
    /\ log \in [Users -> Seq(Messages)]
    /\ pos \in [Subs -> Nat]
    /\ lagged \subseteq Subs
    /\ split \in BOOLEAN

TopicInit ==
    /\ type \in Typings
    /\ topic = NoTopic
    /\ user = [u \in Users |-> "idle"]
    /\ channel = [u \in Users |-> u]
    /\ log = [u \in Users |-> << >>]
    /\ pos = [s \in Subs |-> 0]
    /\ lagged = {}
    /\ split = FALSE

-----------------------------------------------------------------------------
(***************************************************************************)
(* advertise and subscribe                                                 *)
(***************************************************************************)

(* Under the read lock: there is no entry. *)
LookInVain(u) ==
    /\ user[u] = "idle"
    /\ topic = NoTopic
    /\ user' = [user EXCEPT ![u] = "creating"]
    /\ UNCHANGED <<type, topic, channel, log, pos, lagged, split>>

(* There is one of another type. *)
Refuse(u) ==
    /\ user[u] = "idle"
    /\ topic # NoTopic /\ type[topic] # type[u]
    /\ user' = [user EXCEPT ![u] = "refused"]
    /\ UNCHANGED <<type, topic, channel, log, pos, lagged, split>>

(* There is one: a clone of its sender, or a receiver that starts at its end. *)
Share(u) ==
    /\ user[u] = "idle"
    /\ topic # NoTopic /\ type[topic] = type[u]
    /\ user' = [user EXCEPT ![u] = "live"]
    /\ channel' = [channel EXCEPT ![u] = topic]
    /\ pos' = IF u \in Subs THEN [pos EXCEPT ![u] = Len(log[topic])] ELSE pos
    /\ UNCHANGED <<type, topic, log, lagged, split>>

(* Mutation: whoever has the channel in the map by then is joined, whatever *)
(* its type.                                                                *)
JoinUnseen(u) ==
    /\ user[u] = "creating"
    /\ user' = [user EXCEPT ![u] = "live"]
    /\ topic' = IF topic = NoTopic THEN u ELSE topic
    /\ channel' = [channel EXCEPT ![u] = topic']
    /\ UNCHANGED <<type, log, pos, lagged, split>>

(* Under the write lock: a fresh channel takes the place of whatever is in  *)
(* the map by then.                                                         *)
Insert(u) ==
    /\ user[u] = "creating"
    /\ user' = [user EXCEPT ![u] = "live"]
    /\ topic' = u
    /\ split' = (split \/ topic # NoTopic)
    /\ UNCHANGED <<type, channel, log, pos, lagged>>

Open(u) == LookInVain(u) \/ Refuse(u) \/ Share(u) \/ Insert(u)

(* A handle is dropped; its topic stays. *)
DropHandle(u) ==
    /\ user[u] = "live"
    /\ user' = [user EXCEPT ![u] = "dropped"]
    /\ UNCHANGED <<type, topic, channel, log, pos, lagged, split>>

-----------------------------------------------------------------------------
(***************************************************************************)
(* publish and next                                                        *)
(***************************************************************************)

(* The entry itself holds a sender and a receiver of its channel. *)
HasEnd(k, ends) == topic = k \/ \E u \in ends : user[u] = "live" /\ channel[u] = k

(* Without a receiver it fails, and changes nothing. *)
Publish(p, m) ==
    /\ user[p] = "live"
    /\ HasEnd(channel[p], Subs)
    /\ Len(log[channel[p]]) < MaxSent
    /\ log' = [log EXCEPT ![channel[p]] = Append(@, m)]
    /\ UNCHANGED <<type, topic, user, channel, pos, lagged, split>>

Behind(s) == Len(log[channel[s]]) - pos[s]

(* At the end it waits; without a sender it fails there, again and again. *)
Receive(s) ==
    /\ user[s] = "live"
    /\ Behind(s) \in 1 .. Capacity
    /\ pos' = [pos EXCEPT ![s] = @ + 1]
    /\ UNCHANGED <<type, topic, user, channel, log, lagged, split>>

(* The message Receive hands out. *)
Received(s) == log[channel[s]][pos[s] + 1]

(* A message is on some channel's record. *)
Sent(m) == \E u \in Users : \E i \in 1 .. Len(log[u]) : log[u][i] = m

(* next returns Disconnected for this, too. *)
Lag(s) ==
    /\ user[s] = "live"
    /\ Behind(s) > Capacity
    /\ pos' = [pos EXCEPT ![s] = Len(log[channel[s]]) - Capacity]
    /\ lagged' = lagged \cup {s}
    /\ UNCHANGED <<type, topic, user, channel, log, split>>

-----------------------------------------------------------------------------
(* All handles of one channel have one message type, so that bytes are never *)
(* read as another type than they were written as: also when two first uses  *)
(* with different types overlap.                                             *)
OneTypePerChannel ==
    \A u, v \in Users :
        user[u] = "live" /\ user[v] = "live" /\ channel[u] = channel[v] => type[u] = type[v]

(* Unless two first uses overlapped, everyone is on the channel in the map,   *)
(* whose both ends the map keeps alive: publish never fails, next only by lag. *)
OneChannel ==
    ~ split => \A u \in Users : user[u] = "live" => channel[u] = topic

(* Who uses a topic is connected to those who use it, and to nobody else.    *)
WellConnected == OneTypePerChannel /\ OneChannel

(* What makes them inductive: a handle's channel is its own or one that was  *)
(* in the map, of the same type.                                             *)
ChannelInv ==
    /\ \A u \in Users : user[u] \in {"idle", "creating"} => channel[u] = u
    /\ \A u \in Users : user[u] \in {"live", "dropped"} => type[channel[u]] = type[u]
    /\ \A u \in Users : user[u] = "live" => topic # NoTopic

TopicInv == TopicTypeOK /\ ChannelInv /\ OneTypePerChannel /\ OneChannel

=============================================================================

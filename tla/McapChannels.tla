---------------------------- MODULE McapChannels ----------------------------
(***************************************************************************)
(* Channels of an MCAP file: what a message is written under, and what a   *)
(* reader of the file takes it for.                                        *)
(*                                                                         *)
(* Source: roslibrust_mcap/src/writer.rs (McapWriter::add_ros_channel,     *)
(* Channel::write, finish) and reader.rs (McapReader::new).  A handle is a *)
(* number and a Rust type: it names neither its writer nor its topic.  The *)
(* mcap crate is external: it numbers the schemas and channels of a file,  *)
(* reuses neither, and refuses a message whose channel it does not know.   *)
(***************************************************************************)
EXTENDS Naturals, FiniteSets, Sequences

CONSTANTS
    Writers,
    Topics,
    Types,
    TypeName,   \* ROS_TYPE_NAME of each type: two definitions may share one
    MaxWritten, \* bound: messages in one file
    MaxHandles, \* bound: different handles
    None

Names == {TypeName[t] : t \in Types}

Handle == [writer : Writers, topic : Topics, type : Types, id : Nat]

VARIABLES
    schemas,    \* each writer's schemas: the type whose definition a name has
    channels,   \* each writer's map from topics to channel numbers, 0 for none
    records,    \* the channel records of each file, by number
    handles,    \* the handles add_ros_channel returned
    file,       \* the messages of each file: channel, and the handle used
    finished    \* files with a summary

mapVars == <<schemas, channels, records>>
vars == <<mapVars, handles, file, finished>>

TypeOK ==
    /\ schemas \in [Writers -> [Names -> Types \cup {None}]]
    /\ channels \in [Writers -> [Topics -> Nat]]
    /\ records \in [Writers -> Seq([topic : Topics, schema : Types])]
    /\ handles \subseteq Handle
    /\ file \in [Writers -> Seq(Handle)]
    /\ finished \subseteq Writers

Init ==
    /\ schemas = [w \in Writers |-> [n \in Names |-> None]]
    /\ channels = [w \in Writers |-> [t \in Topics |-> 0]]
    /\ records = [w \in Writers |-> << >>]
    /\ handles = {}
    /\ file = [w \in Writers |-> << >>]
    /\ finished = {}

-----------------------------------------------------------------------------

HandOut(w, topic, type, id) ==
    /\ Cardinality(handles) < MaxHandles
    /\ handles' = handles \cup {[writer |-> w, topic |-> topic, type |-> type, id |-> id]}

(* The key of the map is the topic, whatever the type. *)
KnownChannel(w, topic, type) ==
    /\ w \notin finished
    /\ channels[w][topic] # 0
    /\ HandOut(w, topic, type, channels[w][topic])
    /\ UNCHANGED <<mapVars, file, finished>>

SchemaOf(w, type) ==
    IF schemas[w][TypeName[type]] = None THEN type ELSE schemas[w][TypeName[type]]

AddSchema(w, type) == schemas' = [schemas EXCEPT ![w][TypeName[type]] = SchemaOf(w, type)]

(* Mutation: the new channel is given the schema that was added last. *)
LastSchema(w, topic, type) ==
    /\ w \notin finished
    /\ channels[w][topic] = 0
    /\ AddSchema(w, type)
    /\ LET id == Len(records[w]) + 1
           schema == IF id = 1 THEN type ELSE records[w][id - 1].schema
       IN /\ records' = [records EXCEPT ![w] = Append(@, [topic |-> topic, schema |-> schema])]
          /\ channels' = [channels EXCEPT ![w][topic] = id]
          /\ HandOut(w, topic, type, id)
    /\ UNCHANGED <<file, finished>>

NewChannel(w, topic, type) ==
    /\ w \notin finished
    /\ channels[w][topic] = 0
    /\ AddSchema(w, type)
    /\ LET id == Len(records[w]) + 1 IN
          /\ records' = [records EXCEPT ![w] =
                            Append(@, [topic |-> topic, schema |-> SchemaOf(w, type)])]
          /\ channels' = [channels EXCEPT ![w][topic] = id]
          /\ HandOut(w, topic, type, id)
    /\ UNCHANGED <<file, finished>>

(* add_channel fails after add_schema: the schema stays known. *)
ChannelFails(w, topic, type) ==
    /\ w \notin finished
    /\ channels[w][topic] = 0
    /\ AddSchema(w, type)
    /\ UNCHANGED <<channels, records, handles, file, finished>>

(* Any writer may be passed; one without a channel of that number refuses. *)
Write(h, w) ==
    /\ w \notin finished
    /\ h.id \in DOMAIN records[w]
    /\ Len(file[w]) < MaxWritten
    /\ file' = [file EXCEPT ![w] = Append(@, h)]
    /\ UNCHANGED <<mapVars, handles, finished>>

Finish(w) ==
    /\ w \notin finished
    /\ finished' = finished \cup {w}
    /\ UNCHANGED <<mapVars, handles, file>>

Next ==
    \/ \E w \in Writers, topic \in Topics, type \in Types :
          \/ KnownChannel(w, topic, type)
          \/ NewChannel(w, topic, type)
          \/ ChannelFails(w, topic, type)
    \/ \E w \in Writers : Finish(w) \/ \E h \in handles : Write(h, w)

Spec == Init /\ [][Next]_vars

-----------------------------------------------------------------------------
(***************************************************************************)
(* What the reader of a finished file finds                                *)
(***************************************************************************)

(* ChannelInfo of the message at position i. *)
Info(w, i) == records[w][file[w][i].id]

Read(w) == IF w \in finished THEN DOMAIN file[w] ELSE {}

(* The user gave every topic of a file one type, and the name of every type  *)
(* used one definition.                                                      *)
Consistent(w) ==
    \A g, h \in {h \in handles : h.writer = w} :
        /\ g.topic = h.topic => g.type = h.type
        /\ schemas[w][TypeName[h.type]] = h.type

(* A message written to the writer its handle is of is read under the topic  *)
(* the handle was made for, with its own type's definition if the user was   *)
(* consistent, also after a channel could not be added ("type-safe handle    *)
(* ensures you can only write messages of the correct type to the channel"). *)
ReadAsWritten ==
    \A w \in Writers : \A i \in Read(w) :
        file[w][i].writer = w =>
            /\ Info(w, i).topic = file[w][i].topic
            /\ Consistent(w) => Info(w, i).schema = file[w][i].type

(* What makes it inductive: the map of a writer leads to the record of the  *)
(* topic, each record came with a handle, and what was written was one.     *)
ChannelInv ==
    \A w \in Writers : \A t \in Topics :
        channels[w][t] # 0 =>
            channels[w][t] \in DOMAIN records[w] /\ records[w][channels[w][t]].topic = t

RecordInv ==
    \A w \in Writers : \A i \in DOMAIN records[w] :
        \E h \in handles :
            /\ h.writer = w /\ h.topic = records[w][i].topic
            /\ records[w][i].schema = schemas[w][TypeName[h.type]]

HandleInv ==
    /\ \A h \in handles : h.id = channels[h.writer][h.topic] /\ h.id # 0
    /\ \A w \in Writers : \A i \in DOMAIN file[w] : file[w][i] \in handles

IInv == TypeOK /\ ChannelInv /\ RecordInv /\ HandleInv

=============================================================================

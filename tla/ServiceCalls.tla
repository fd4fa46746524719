---------------------------- MODULE ServiceCalls ----------------------------
(***************************************************************************)
(* Every way a service call is carried: the rosbridge client, the          *)
(* persistent link of the ROS 1 client, the mock, and the queue of zenoh's *)
(* and of ROS 2's server.  They share no state: "part" is the one that     *)
(* runs in a behaviour, and the variables of the others stay at their      *)
(* initial values, where none of their fair actions is enabled.            *)
(***************************************************************************)
EXTENDS RosbridgeCalls, Sequences

CONSTANTS
    LinkCalls,              \* the calls of the ROS 1 link
    Servers, Type, NoServer \* of MockServices

ASSUME PartsAssumption ==
    /\ Cancellable \subseteq LinkCalls /\ NoCall \notin LinkCalls
    /\ NoServer \notin Servers

VARIABLES
    part,
    \* Ros1ServiceLink
    linkCall, linkQueue, actor, step, broken, requests, responses, linkServer, linkServing,
    linkRunning, runs,
    \* MockServices
    mockCall, callback, mockRunning, mockRan, store, server, exists, outdated,
    \* QueuedService
    call, queue, serving, running, ran, declared, task

Link == INSTANCE Ros1ServiceLink WITH
    Calls <- LinkCalls, call <- linkCall, queue <- linkQueue, server <- linkServer,
    serving <- linkServing, running <- linkRunning

Mock == INSTANCE MockServices WITH call <- mockCall, running <- mockRunning, ran <- mockRan

Zenoh == INSTANCE QueuedService WITH Calls <- LinkCalls, Aborts <- FALSE
Ros2 == INSTANCE QueuedService WITH Calls <- LinkCalls, Aborts <- TRUE

linkVars == <<linkCall, linkQueue, actor, step, broken, requests, responses, linkServer,
              linkServing, linkRunning, runs>>
mockVars == <<mockCall, callback, mockRunning, mockRan, store, server, exists, outdated>>
queueVars == <<call, queue, serving, running, ran, declared, task>>
allVars == <<part, vars, linkVars, mockVars, queueVars>>

AnyInit ==
    /\ part \in {"rosbridge", "link", "mock", "zenoh", "ros2"}
    /\ Init /\ Link!Init /\ Mock!Init /\ Zenoh!Init

AnyNext ==
    /\ UNCHANGED part
    /\ \/ part = "rosbridge" /\ Next /\ UNCHANGED <<linkVars, mockVars, queueVars>>
       \/ part = "link" /\ Link!Next /\ UNCHANGED <<vars, mockVars, queueVars>>
       \/ part = "mock" /\ Mock!Next /\ UNCHANGED <<vars, linkVars, queueVars>>
       \/ part = "zenoh" /\ Zenoh!Next /\ UNCHANGED <<vars, linkVars, mockVars>>
       \/ part = "ros2" /\ Ros2!Next /\ UNCHANGED <<vars, linkVars, mockVars>>

AnyFairness ==
    /\ SpinFairness /\ \A c \in Calls : CallFairness(c)
    /\ WF_vars(Connect)
    /\ Link!Fairness /\ Mock!Fairness /\ Zenoh!Fairness

AnySpec == AnyInit /\ [][AnyNext]_allVars /\ AnyFairness

-----------------------------------------------------------------------------
(* Every behaviour of rosbridge, of the ROS 1 link, of the mock and of the *)
(* queued servers is one the contract of ServiceCall allows.               *)
AllKeepContract ==
    KeepsContract /\ Link!KeepsContract /\ Mock!KeepsContract /\ Zenoh!KeepsContract

(* No call waits for something that nobody will do: in every part, whoever *)
(* waits has its request, its callback or its response with someone who is *)
(* there to pass it on, whatever was dropped or lost in between.           *)
NobodyOrphaned ==
    NoOrphanedWait /\ Link!NoOrphanedWait /\ Mock!NoOrphanedWait /\ Zenoh!NoOrphanedWait

(* A call that its caller does not drop returns, in every part. *)
AnyCallReturns ==
    /\ EveryCallReturns
    /\ Link!CallReturns
    /\ Mock!CallReturns
    /\ Zenoh!CallReturns

(* ROS 1: the response the actor reads is the one to the request it wrote. *)
OwnResponse == Link!OwnResponse

(* Mock: a call is served by the most recently registered server. *)
NewestServes == Mock!NewestServes

=============================================================================

--------------------------- MODULE ZenohDiscovery ---------------------------
(***************************************************************************)
(* What the zenoh client knows of the topics of others: every declaration  *)
(* repeats a beacon, and a monitor forgets what it has not heard of for a  *)
(* while.  Nothing else tells it that a declaration is gone.               *)
(*                                                                         *)
(* Source: roslibrust_zenoh/src/lib.rs (DiscoveryDeclaration,              *)
(* spawn_discovery_monitor, list_topics).  One name; a declaration is      *)
(* known by the type it gives it, so that equal ones share a fact.  Time   *)
(* goes in steps of DISCOVERY_BEACON_PERIOD; timers fire in their step,    *)
(* and zenoh delivers a beacon within MaxDelay steps, in any order.        *)
(***************************************************************************)
EXTENDS Naturals

CONSTANTS
    Declarations,
    Types,          \* the types they may give the name
    LOST_AFTER,     \* DISCOVERY_LOST_AFTER, in beacon periods
    MaxDelay        \* bound: how late a beacon may arrive

(* A beacon arrives before its fact is lost. *)
DiscoveryConstants == MaxDelay \in Nat /\ LOST_AFTER \in Nat /\ MaxDelay < LOST_AFTER

(* The oldest a fact can get before it is looked at. *)
Oldest == LOST_AFTER + 1

(* How long after the end of a declaration its fact may still be there. *)
Memory == MaxDelay + Oldest

VARIABLES
    typeOf,     \* the type each declaration gives the name
    task,       \* the task of each declaration
    due,        \* declarations whose timer has fired
    wire,       \* beacons on the way: whose, and for how long
    facts,      \* types the monitor has facts of
    age,        \* for how long it has not heard of each
    check,      \* whether its timer has fired
    heard,      \* history: declarations a beacon of which arrived
    gone        \* history: for how long each has been dropped

taskVars == <<task, due>>
factVars == <<facts, age>>
vars == <<typeOf, taskVars, wire, factVars, check, heard, gone>>

TypeOK ==
    /\ typeOf \in [Declarations -> Types]
    /\ task \in [Declarations -> {"none", "live", "dropped", "ended"}]
    /\ due \subseteq Declarations
    /\ wire \subseteq [of : Declarations, late : 0 .. MaxDelay]
    /\ facts \subseteq Types
    /\ age \in [Types -> 0 .. Oldest]
    /\ check \in BOOLEAN
    /\ heard \subseteq Declarations
    /\ gone \in [Declarations -> 0 .. Memory + 1]

Init ==
    /\ typeOf \in [Declarations -> Types]
    /\ task = [d \in Declarations |-> "none"]
    /\ due = {} /\ wire = {}
    /\ facts = {}
    /\ age = [t \in Types |-> 0]
    /\ check = FALSE
    /\ heard = {}
    /\ gone = [d \in Declarations |-> 0]

-----------------------------------------------------------------------------
(* The task of a declaration                                               *)

(* The first beacon goes out before the first wait. *)
Declare(d) ==
    /\ task[d] = "none"
    /\ task' = [task EXCEPT ![d] = "live"]
    /\ due' = due \cup {d}
    /\ UNCHANGED <<typeOf, wire, factVars, check, heard, gone>>

(* The timer won the select, also against a shutdown of the same moment. *)
Beacon(d) ==
    /\ d \in due
    /\ due' = due \ {d}
    /\ wire' = wire \cup {[of |-> d, late |-> 0]}
    /\ UNCHANGED <<typeOf, task, factVars, check, heard, gone>>

DropDeclaration(d) ==
    /\ task[d] = "live"
    /\ task' = [task EXCEPT ![d] = "dropped"]
    /\ UNCHANGED <<typeOf, due, wire, factVars, check, heard, gone>>

End(d) ==
    /\ task[d] = "dropped"
    /\ task' = [task EXCEPT ![d] = "ended"]
    /\ due' = due \ {d}
    /\ UNCHANGED <<typeOf, wire, factVars, check, heard, gone>>

-----------------------------------------------------------------------------
(* The monitor                                                             *)

Receive(b) ==
    /\ b \in wire
    /\ wire' = wire \ {b}
    /\ facts' = facts \cup {typeOf[b.of]}
    /\ age' = [age EXCEPT ![typeOf[b.of]] = 0]
    /\ heard' = heard \cup {b.of}
    /\ UNCHANGED <<typeOf, taskVars, check, gone>>

(* Mutation: what was not heard of for exactly the limit is lost. *)
LostAtLimit == {t \in facts : age[t] >= LOST_AFTER}

Lost == {t \in facts : age[t] > LOST_AFTER}

(* Mutation: nothing is forgotten while anything is heard. *)
ForgetWhenSilent ==
    /\ check
    /\ facts' = IF Lost = facts THEN {} ELSE facts
    /\ check' = FALSE
    /\ UNCHANGED <<typeOf, taskVars, wire, age, heard, gone>>

Forget ==
    /\ check
    /\ facts' = facts \ Lost
    /\ check' = FALSE
    /\ UNCHANGED <<typeOf, taskVars, wire, age, heard, gone>>

-----------------------------------------------------------------------------

(* A beacon period passes, once all that was due has happened. *)
Tick ==
    /\ due = {} /\ ~ check
    /\ \A d \in Declarations : task[d] # "dropped"
    /\ \A b \in wire : b.late < MaxDelay
    /\ wire' = {[b EXCEPT !.late = @ + 1] : b \in wire}
    /\ age' = [t \in Types |-> IF t \in facts /\ age[t] < Oldest THEN age[t] + 1 ELSE age[t]]
    /\ due' = {d \in Declarations : task[d] = "live"}
    /\ check' = TRUE
    /\ gone' = [d \in Declarations |->
                   IF task[d] = "ended" /\ gone[d] <= Memory THEN gone[d] + 1 ELSE gone[d]]
    /\ UNCHANGED <<typeOf, task, facts, heard>>

Next ==
    \/ \E d \in Declarations : Declare(d) \/ Beacon(d) \/ DropDeclaration(d) \/ End(d)
    \/ \E b \in wire : Receive(b)
    \/ Forget \/ Tick

Spec == Init /\ [][Next]_vars

-----------------------------------------------------------------------------

(* list_topics fails as a whole when a name has two types. *)
ListingFails == \E t, u \in facts : t # u

(* A declaration that lives is known from its first beacon on, though what  *)
(* else used its key may have gone.                                         *)
LiveStaysKnown == \A d \in heard : task[d] = "live" => typeOf[d] \in facts

(* What is known was declared a moment ago: each fact is of a declaration   *)
(* that lives, or ended no longer ago than Memory.  So a listing fails only *)
(* while, or just after, two types were in use.                             *)
KnownIsRecent ==
    \A t \in facts : \E d \in heard : typeOf[d] = t /\ gone[d] <= Memory

(* What makes them inductive: a beacon is no older than the declaration it   *)
(* is of has been gone,                                                      *)
BeaconInv ==
    /\ \A d \in Declarations :
        /\ d \in due => task[d] \in {"live", "dropped"}
        /\ task[d] # "ended" => gone[d] = 0
        /\ task[d] = "none" => d \notin heard /\ \A b \in wire : b.of # d
    /\ \A b \in wire : gone[b.of] <= b.late

(* those a live declaration sent since its fact was refreshed are on the way, *)
LiveInv ==
    \A d \in heard : task[d] = "live" =>
        /\ typeOf[d] \in facts
        /\ \A j \in 0 .. age[typeOf[d]] - 1 :
              (j = 0 /\ d \in due) \/ [of |-> d, late |-> j] \in wire

(* and a fact is as old as the last beacon that refreshed it.                *)
FactInv ==
    \A t \in facts :
        /\ ~ check => age[t] <= LOST_AFTER
        /\ \E d \in heard : typeOf[d] = t /\ gone[d] <= MaxDelay + age[t]

IInv == TypeOK /\ BeaconInv /\ LiveInv /\ FactInv

=============================================================================

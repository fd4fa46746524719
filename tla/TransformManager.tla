-------------------------- MODULE TransformManager --------------------------
(***************************************************************************)
(* TransformManagers that exchange transforms over one topic of MockRos,   *)
(* as the tests of roslibrust_transforms use them: each subscribes to the  *)
(* topic and advertises it, a task moves what arrives into its registry,   *)
(* add_transform publishes and registers, wait_for_transform waits until   *)
(* the registry can answer.                                                *)
(*                                                                         *)
(* Source: roslibrust_transforms/src/lib.rs.  /tf and /tf_static are alike *)
(* and one is modelled.  The registry (crate transforms) is a set of       *)
(* transforms; a lookup succeeds when all those it needs are there, within *)
(* the duration of the buffer.  The channel that notifies waiters only     *)
(* says that something came: whether a waiter has a notification to        *)
(* receive is all that matters of it, as it treats Lagged the same.        *)
(***************************************************************************)
EXTENDS Naturals, Sequences, MockTopics

CONSTANTS
    Managers,
    PubOf, SubOf,   \* the Publisher and the Subscriber of each manager
    Brief,          \* the managers that may be dropped
    Waiters,        \* calls of wait_for_transform, each made once
    At,             \* the manager of each
    Needs,          \* the transforms each must find
    Transforms,
    Own,            \* the transforms each publisher has to publish, each once
    Nothing

ASSUME ManagersAssumption ==
    /\ TopicConstants
    /\ PubOf \in [Managers -> Pubs] /\ SubOf \in [Managers -> Subs]
    /\ At \in [Waiters -> Managers]
    /\ Messages = Transforms
    /\ Nothing \notin Transforms

VARIABLES
    manager,    \* where the construction of each manager is, and its end
    task,       \* what the task of each does
    taken,      \* the message it took
    registry,   \* the transforms each manager knows
    adding,     \* the transform a call of add_transform works on
    added,      \* and how far it is
    wait,       \* where each waiter is
    notified,   \* whether its receiver has a notification
    due         \* what was published while a manager was subscribed

managerVars == <<manager, task, taken, registry>>
addVars == <<adding, added>>
waitVars == <<wait, notified>>
vars == <<topicVars, managerVars, addVars, waitVars, due>>

TypeOK ==
    /\ TopicTypeOK
    /\ manager \in [Managers -> {"new", "subscribed", "running", "failed", "dropped"}]
    /\ task \in [Managers -> {"none", "select", "applying", "ended"}]
    /\ taken \in [Managers -> Transforms \cup {Nothing}]
    /\ registry \in [Managers -> SUBSET Transforms]
    /\ adding \in [Managers -> Transforms \cup {Nothing}]
    /\ added \in [Managers -> {"no", "published", "registered"}]
    /\ wait \in [Waiters -> {"idle", "checking", "missing", "waiting", "expired", "ok", "timeout"}]
    /\ notified \in [Waiters -> BOOLEAN]
    /\ due \in [Managers -> SUBSET Transforms]

Init ==
    /\ TopicInit /\ \A m \in Managers : type[PubOf[m]] = type[SubOf[m]]
    /\ manager = [m \in Managers |-> "new"]
    /\ task = [m \in Managers |-> "none"]
    /\ taken = [m \in Managers |-> Nothing]
    /\ registry = [m \in Managers |-> {}]
    /\ adding = [m \in Managers |-> Nothing]
    /\ added = [m \in Managers |-> "no"]
    /\ wait = [w \in Waiters |-> "idle"]
    /\ notified = [w \in Waiters |-> FALSE]
    /\ due = [m \in Managers |-> {}]

-----------------------------------------------------------------------------
(***************************************************************************)
(* TransformManager::new and Drop                                          *)
(***************************************************************************)

(* The manager is made when both its handles are, and fails with either. *)
Constructed(m) ==
    LET ends == <<user'[SubOf[m]], user'[PubOf[m]]>> IN
    manager' = [manager EXCEPT ![m] =
        CASE "refused" \in {ends[1], ends[2]} -> "failed"
          [] ends = <<"live", "live">> -> "running"
          [] ends[1] = "live" -> "subscribed"
          [] OTHER -> @]

(* subscribe, then advertise; then the task is spawned. *)
Construct(m) ==
    /\ \/ manager[m] = "new" /\ Open(SubOf[m])
       \/ manager[m] = "subscribed" /\ Open(PubOf[m])
    /\ Constructed(m)
    /\ task' = IF manager'[m] = "running" THEN [task EXCEPT ![m] = "select"] ELSE task
    /\ UNCHANGED <<taken, registry, addVars, waitVars, due>>

(* Every call borrows the manager. *)
Unused(m) ==
    /\ added[m] = "no"
    /\ \A w \in Waiters : At[w] = m => wait[w] \in {"idle", "ok", "timeout"}

(* The task is told to stop; the publisher goes with the manager, the *)
(* subscriber with the task.                                          *)
Drop(m) ==
    /\ m \in Brief
    /\ manager[m] = "running" /\ Unused(m)
    /\ manager' = [manager EXCEPT ![m] = "dropped"]
    /\ DropHandle(PubOf[m])
    /\ UNCHANGED <<task, taken, registry, addVars, waitVars, due>>

-----------------------------------------------------------------------------
(***************************************************************************)
(* process_tf_messages                                                     *)
(***************************************************************************)

Take(m) ==
    /\ task[m] = "select"
    /\ Receive(SubOf[m])
    /\ taken' = [taken EXCEPT ![m] = Received(SubOf[m])]
    /\ task' = [task EXCEPT ![m] = "applying"]
    /\ UNCHANGED <<manager, registry, addVars, waitVars, due>>

(* next fails; the error is logged, and the loop goes on. *)
TakeLags(m) ==
    /\ task[m] = "select"
    /\ Lag(SubOf[m])
    /\ UNCHANGED <<managerVars, addVars, waitVars, due>>

(* Mutation: a waiter makes its receiver when it has something to wait for. *)
NotifyWaiting(m) ==
    notified' = [w \in Waiters |-> notified[w] \/ (At[w] = m /\ wait[w] = "waiting")]

(* The receivers of wait_for_transform that exist. *)
Notify(m) ==
    notified' = [w \in Waiters |->
        notified[w] \/ (At[w] = m /\ wait[w] \in {"checking", "missing", "waiting"})]

(* Mutation: the task handles one message. *)
ApplyOnce(m) ==
    /\ task[m] = "applying"
    /\ registry' = [registry EXCEPT ![m] = @ \cup {taken[m]}]
    /\ Notify(m)
    /\ taken' = [taken EXCEPT ![m] = Nothing]
    /\ task' = [task EXCEPT ![m] = "ended"]
    /\ UNCHANGED <<topicVars, manager, addVars, wait, due>>

(* With the registry's lock held: the transforms, then the notification. *)
Apply(m) ==
    /\ task[m] = "applying"
    /\ registry' = [registry EXCEPT ![m] = @ \cup {taken[m]}]
    /\ Notify(m)
    /\ taken' = [taken EXCEPT ![m] = Nothing]
    /\ task' = [task EXCEPT ![m] = "select"]
    /\ UNCHANGED <<topicVars, manager, addVars, wait, due>>

(* Mutation: the task stops only when its subscriber fails. *)
StopOnError(m) ==
    /\ task[m] = "select" /\ manager[m] = "dropped"
    /\ ~ HasEnd(channel[SubOf[m]], Pubs)
    /\ task' = [task EXCEPT ![m] = "ended"]
    /\ DropHandle(SubOf[m])
    /\ UNCHANGED <<manager, taken, registry, addVars, waitVars, due>>

Stop(m) ==
    /\ task[m] = "select" /\ manager[m] = "dropped"
    /\ task' = [task EXCEPT ![m] = "ended"]
    /\ DropHandle(SubOf[m])
    /\ UNCHANGED <<manager, taken, registry, addVars, waitVars, due>>

-----------------------------------------------------------------------------
(***************************************************************************)
(* add_transform and update_static_transform                               *)
(***************************************************************************)

Subscribed(m) == user[SubOf[m]] = "live"

(* Who ought to hear of it. *)
Owe(x) == due' = [m \in Managers |-> IF Subscribed(m) THEN due[m] \cup {x} ELSE due[m]]

(* Mutation: the transform is registered first. *)
RegisterFirst(m, x) ==
    /\ manager[m] = "running" /\ added[m] = "no" /\ x \in Own[PubOf[m]] /\ ~ Sent(x)
    /\ registry' = [registry EXCEPT ![m] = @ \cup {x}]
    /\ adding' = [adding EXCEPT ![m] = x]
    /\ added' = [added EXCEPT ![m] = "registered"]
    /\ UNCHANGED <<topicVars, manager, task, taken, waitVars, due>>

(* If publish fails, so does the call, and nothing is registered. *)
AddPublishes(m, x) ==
    /\ manager[m] = "running" /\ added[m] = "no" /\ x \in Own[PubOf[m]] /\ ~ Sent(x)
    /\ Publish(PubOf[m], x)
    /\ adding' = [adding EXCEPT ![m] = x]
    /\ added' = [added EXCEPT ![m] = "published"]
    /\ Owe(x)
    /\ UNCHANGED <<managerVars, waitVars>>

AddRegisters(m) ==
    /\ added[m] = "published"
    /\ registry' = [registry EXCEPT ![m] = @ \cup {adding[m]}]
    /\ added' = [added EXCEPT ![m] = "registered"]
    /\ UNCHANGED <<topicVars, manager, task, taken, adding, waitVars, due>>

AddNotifies(m) ==
    /\ added[m] = "registered"
    /\ Notify(m)
    /\ adding' = [adding EXCEPT ![m] = Nothing]
    /\ added' = [added EXCEPT ![m] = "no"]
    /\ UNCHANGED <<topicVars, managerVars, wait, due>>

-----------------------------------------------------------------------------
(***************************************************************************)
(* wait_for_transform                                                      *)
(***************************************************************************)

Go(w, place) == wait' = [wait EXCEPT ![w] = place]

(* get_transform succeeds. *)
Found(w) == Needs[w] \subseteq registry[At[w]]

(* The receiver is made before the first look. *)
Wait(w) ==
    /\ wait[w] = "idle" /\ manager[At[w]] = "running"
    /\ Go(w, "checking")
    /\ UNCHANGED <<topicVars, managerVars, addVars, notified, due>>

Check(w) ==
    /\ wait[w] = "checking"
    /\ Go(w, IF Found(w) THEN "ok" ELSE "missing")
    /\ UNCHANGED <<topicVars, managerVars, addVars, notified, due>>

(* The deadline may pass between the look and the select. *)
Decide(w) ==
    /\ wait[w] = "missing"
    /\ Go(w, "waiting") \/ Go(w, "timeout")
    /\ UNCHANGED <<topicVars, managerVars, addVars, notified, due>>

Wake(w) ==
    /\ wait[w] = "waiting" /\ notified[w]
    /\ notified' = [notified EXCEPT ![w] = FALSE]
    /\ Go(w, "checking")
    /\ UNCHANGED <<topicVars, managerVars, addVars, due>>

(* The sleep wins the select. *)
Expire(w) ==
    /\ wait[w] = "waiting"
    /\ Go(w, "expired")
    /\ UNCHANGED <<topicVars, managerVars, addVars, notified, due>>

(* Mutation: the final look is left out. *)
GiveUp(w) ==
    /\ wait[w] = "expired"
    /\ Go(w, "timeout")
    /\ UNCHANGED <<topicVars, managerVars, addVars, notified, due>>

LookOnceMore(w) ==
    /\ wait[w] = "expired"
    /\ Go(w, IF Found(w) THEN "ok" ELSE "timeout")
    /\ UNCHANGED <<topicVars, managerVars, addVars, notified, due>>

-----------------------------------------------------------------------------

TaskStep(m) == Take(m) \/ Apply(m) \/ TakeLags(m)
AddStep(m) == AddRegisters(m) \/ AddNotifies(m)
WaitStep(w) == Check(w) \/ Decide(w) \/ Wake(w) \/ LookOnceMore(w)

Next ==
    \/ \E m \in Managers :
        \/ Construct(m) \/ Drop(m) \/ TaskStep(m) \/ Stop(m) \/ AddStep(m)
        \/ \E x \in Transforms : AddPublishes(m, x)
    \/ \E w \in Waiters : Wait(w) \/ WaitStep(w) \/ Expire(w)

(***************************************************************************)
(* Tasks run; select, which picks among ready branches at random, takes    *)
(* each now and then.  No timer has to fire.                               *)
(***************************************************************************)
Fairness ==
    /\ \A m \in Managers :
        WF_vars(TaskStep(m)) /\ SF_vars(Stop(m)) /\ WF_vars(AddStep(m))
    /\ \A w \in Waiters : WF_vars(WaitStep(w))

Spec == Init /\ [][Next]_vars /\ Fairness

-----------------------------------------------------------------------------
(***************************************************************************)
(* Properties                                                              *)
(***************************************************************************)

(* No notification falls between the look and the wait: a waiter that waits *)
(* for what the registry has is notified, or is about to be.                *)
NoLostWakeup ==
    \A w \in Waiters :
        wait[w] = "waiting" /\ Found(w) => notified[w] \/ added[At[w]] = "registered"

(* A waiter whose transforms are all there while it waits gets them, even   *)
(* if its timer is quicker than the notification.                           *)
WaiterServed == \A w \in Waiters : (wait[w] = "waiting" /\ Found(w)) ~> (wait[w] = "ok")

(* A manager knows only what has been published: whoever can look it up     *)
(* here, the others have been told ("publish ... and add to registry").     *)
KnownIsPublished ==
    \A m \in Managers : \A x \in registry[m] : Sent(x)

(* What makes them inductive: a waiter is notified of what comes after it    *)
(* found something missing, and what is on its way to a registry was sent.   *)
WakeInv ==
    \A w \in Waiters :
        wait[w] \in {"missing", "waiting"} /\ Found(w)
            => notified[w] \/ added[At[w]] = "registered"

SentInv ==
    \A m \in Managers :
        /\ task[m] = "applying" => Sent(taken[m])
        /\ added[m] # "no" => Sent(adding[m])

IInv == TypeOK /\ TopicInv /\ WakeInv /\ SentInv /\ KnownIsPublished

(* What is published while a manager is subscribed reaches its registry,    *)
(* whoever published it, unless the manager is dropped, its receiver fell   *)
(* behind, or two first uses of the topic overlapped.                       *)
TransformsSpread ==
    \A m \in Managers, x \in Transforms :
        (manager[m] = "running" /\ x \in due[m])
            ~> (x \in registry[m] \/ manager[m] = "dropped" \/ SubOf[m] \in lagged \/ split)

(* The task of a dropped manager ends, however much is published. *)
TaskEnds == \A m \in Managers : (manager[m] = "dropped") ~> (task[m] = "ended")

=============================================================================

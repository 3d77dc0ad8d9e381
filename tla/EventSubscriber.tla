---------------------------- MODULE EventSubscriber ----------------------------
(***************************************************************************)
(* events.py's EventSubscriber: the groups Python lists as subscribed and  *)
(* the ones the native subscriber is subscribed to.  The native subscribe  *)
(* and shutdown release the GIL, so other threads run between a group's    *)
(* entry in the list and the native call, and inside stop().  The native   *)
(* unsubscribe keeps it, but another thread may run before that call, when *)
(* the group is off the list already.                                      *)
(***************************************************************************)
CONSTANTS
    Groups,     \* event group ids
    Users,      \* threads that subscribe and unsubscribe
    NoGroup     \* a thread that is doing neither

(* What the module that composes this one has to assume of the constants. *)
SubscriberAssumption == NoGroup \notin Groups

VARIABLES
    running,        \* _running
    native,         \* the native subscriber is initialized
    stopping,       \* stop() is past the native shutdown
    groups,         \* _subscribed_groups
    subscribed,     \* groups of the native subscriber
    subscribing,    \* the group each thread has entered but not yet asked for
    unsubscribing,  \* the group each has struck off but not yet given up
    refused,        \* history: groups whose last native subscribe failed
    crossed,        \* history: groups entered again while another thread was
                    \*          between striking them off and giving them up
    closed,         \* _notification_receiver is closed
    status,         \* _status_receiver
    making          \* threads that found none and are about to make one

callVars == <<subscribing, unsubscribing, making>>
pastVars == <<refused, crossed>>
vars == <<running, native, stopping, groups, subscribed, callVars, pastVars, closed, status>>

TypeOK ==
    /\ running \in BOOLEAN /\ native \in BOOLEAN /\ stopping \in BOOLEAN
    /\ groups \subseteq Groups /\ subscribed \subseteq Groups
    /\ refused \subseteq Groups /\ crossed \subseteq Groups
    /\ subscribing \in [Users -> Groups \cup {NoGroup}]
    /\ unsubscribing \in [Users -> Groups \cup {NoGroup}]
    /\ closed \in BOOLEAN
    /\ status \in {"none", "open", "closed"}
    /\ making \subseteq Users

Init ==
    /\ running = FALSE /\ native = FALSE /\ stopping = FALSE
    /\ groups = {} /\ subscribed = {} /\ refused = {} /\ crossed = {}
    /\ subscribing = [u \in Users |-> NoGroup]
    /\ unsubscribing = [u \in Users |-> NoGroup]
    /\ closed = FALSE
    /\ status = "none" /\ making = {}

Start ==
    /\ ~stopping
    /\ running' = TRUE
    /\ native' \in {native, TRUE}
    /\ UNCHANGED <<stopping, groups, subscribed, callVars, pastVars, closed, status>>

Closing == closed' = TRUE /\ status' = IF status = "none" THEN "none" ELSE "closed"

(* The native shutdown, which may fail; whether the native subscriber forgets  *)
(* its groups is its own affair.                                               *)
StopBegin ==
    /\ ~stopping
    /\ stopping' = TRUE
    /\ \/ native' = FALSE /\ subscribed' \in {subscribed, {}}
       \/ UNCHANGED <<native, subscribed>>
    /\ UNCHANGED <<running, groups, callVars, pastVars, closed, status>>

(* Variants named after what they get wrong stand before the definition they   *)
(* change; only the mutation runs use them.                                    *)
StopClearKeeps ==
    /\ stopping
    /\ stopping' = FALSE
    /\ running' = FALSE
    /\ Closing
    /\ UNCHANGED <<native, groups, subscribed, callVars, pastVars>>

StopClear ==
    /\ stopping
    /\ stopping' = FALSE
    /\ running' = FALSE
    /\ Closing
    /\ groups' = {}
    /\ UNCHANGED <<native, subscribed, callVars, pastVars>>

GivingUp == {unsubscribing[u] : u \in Users}

(* A thread makes one call at a time. *)
Free(u) == subscribing[u] = NoGroup /\ unsubscribing[u] = NoGroup /\ u \notin making

SubscribeBegin(u, g) ==
    /\ Free(u)
    /\ groups' = groups \cup {g}
    /\ subscribing' = [subscribing EXCEPT ![u] = g]
    /\ crossed' = crossed \cup (GivingUp \cap {g})
    /\ UNCHANGED <<running, native, stopping, subscribed, unsubscribing, making, refused, closed,
                   status>>

(* The native call raises, or reports a failure nobody looks at; it can only   *)
(* succeed between the native initialize and shutdown.                         *)
SubscribeNative(u) ==
    /\ subscribing[u] # NoGroup
    /\ \/ native /\ subscribed' = subscribed \cup {subscribing[u]}
                 /\ refused' = refused \ {subscribing[u]}
                 /\ crossed' = crossed \ ({subscribing[u]} \ GivingUp)
       \/ refused' = refused \cup {subscribing[u]} /\ UNCHANGED <<subscribed, crossed>>
    /\ subscribing' = [subscribing EXCEPT ![u] = NoGroup]
    /\ UNCHANGED <<running, native, stopping, groups, unsubscribing, making, closed, status>>

UnsubscribeBegin(u, g) ==
    /\ Free(u)
    /\ groups' = groups \ {g}
    /\ unsubscribing' = [unsubscribing EXCEPT ![u] = g]
    /\ UNCHANGED <<running, native, stopping, subscribed, subscribing, making, pastVars, closed,
                   status>>

(* The native call may raise out of it. *)
UnsubscribeNative(u) ==
    /\ unsubscribing[u] # NoGroup
    /\ subscribed' \in {subscribed, subscribed \ {unsubscribing[u]}}
    /\ unsubscribing' = [unsubscribing EXCEPT ![u] = NoGroup]
    /\ UNCHANGED <<running, native, stopping, groups, subscribing, making, pastVars, closed,
                   status>>

(* The receiver is looked for, and made if there was none when it was: after a  *)
(* stop() it is handed out closed, and two threads may each make one.          *)
StatusBegin(u) ==
    /\ Free(u) /\ status = "none"
    /\ making' = making \cup {u}
    /\ UNCHANGED <<running, native, stopping, groups, subscribed, subscribing, unsubscribing,
                   pastVars, closed, status>>

StatusMade(u) ==
    /\ u \in making
    /\ status' = "open" /\ making' = making \ {u}
    /\ UNCHANGED <<running, native, stopping, groups, subscribed, subscribing, unsubscribing,
                   pastVars, closed>>

Next ==
    \/ Start \/ StopBegin \/ StopClear
    \/ \E g \in Groups, u \in Users : SubscribeBegin(u, g) \/ UnsubscribeBegin(u, g)
    \/ \E u \in Users :
           SubscribeNative(u) \/ UnsubscribeNative(u) \/ StatusBegin(u) \/ StatusMade(u)

Spec == Init /\ [][Next]_vars

(* A group Python lists as subscribed is subscribed natively, or a thread is   *)
(* about to ask for it, or its last native subscribe failed, or a thread       *)
(* entered it again while another was giving it up.  No stop() makes the list  *)
(* outlive the native subscription, and of the users' calls only that crossing *)
(* of a subscribe() with an unsubscribe() of the same group (lines 185-246).   *)
GroupsSubscribed ==
    ~stopping =>
        groups \subseteq subscribed \cup refused \cup crossed \cup {subscribing[u] : u \in Users}

=============================================================================

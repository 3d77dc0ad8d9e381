---------------------------- MODULE EventPublisher ----------------------------
(***************************************************************************)
(* events.py's EventPublisher: the registered events Python checks before  *)
(* it hands a notification to the native publisher.  publish_event and the *)
(* native shutdown release the GIL, and register_event() calls Python code *)
(* between its entry in the list and the native call; so start(), stop()   *)
(* and register_event(), which one thread calls, and notify() on other     *)
(* threads run between each other's steps.                                 *)
(***************************************************************************)

CONSTANTS
    Events,     \* event ids
    Publishers, \* threads that call notify()
    NoEvent     \* nobody is registering, a publisher is not notifying

(* What the module that composes this one has to assume of the constants. *)
PublisherAssumption == NoEvent \notin Events

VARIABLES
    running,    \* _running
    registered, \* keys of _registered_events
    known,      \* events the native publisher knows
    registering,\* the event that is listed and that it is not yet told of
    stopping,   \* stop() is in the native shutdown
    publishing, \* the event each publisher passed the check with
    refused,    \* history: events whose last native registration failed
    overtaken   \* history: publishers whose notify() a stop() has met

vars == <<running, registered, known, registering, stopping, publishing, refused, overtaken>>

TypeOK ==
    /\ running \in BOOLEAN
    /\ registered \subseteq Events /\ known \subseteq Events /\ refused \subseteq Events
    /\ registering \in Events \cup {NoEvent}
    /\ stopping \in BOOLEAN
    /\ publishing \in [Publishers -> Events \cup {NoEvent}]
    /\ overtaken \subseteq Publishers

Init ==
    /\ running = FALSE
    /\ registered = {} /\ known = {} /\ refused = {}
    /\ registering = NoEvent
    /\ stopping = FALSE
    /\ publishing = [p \in Publishers |-> NoEvent]
    /\ overtaken = {}

Start ==
    /\ ~stopping
    /\ running' = TRUE
    /\ UNCHANGED <<registered, known, registering, stopping, publishing, refused, overtaken>>

(* The native shutdown; whether it forgets its events is its own affair.       *)
StopBegin ==
    /\ ~stopping
    /\ stopping' = TRUE
    /\ known' \in {known, {}}
    /\ overtaken' = overtaken \cup {p \in Publishers : publishing[p] # NoEvent}
    /\ UNCHANGED <<running, registered, registering, publishing, refused>>

(* Variants named after what they get wrong stand before the definition they   *)
(* change; only the mutation runs use them.                                    *)
StopKeepsEvents ==
    /\ stopping
    /\ stopping' = FALSE
    /\ running' = FALSE
    /\ UNCHANGED <<registered, known, registering, publishing, refused, overtaken>>

StopClear ==
    /\ stopping
    /\ stopping' = FALSE
    /\ running' = FALSE
    /\ registered' = {}
    /\ UNCHANGED <<known, registering, publishing, refused, overtaken>>

(* Python lists the event first. *)
RegisterBegin(e) ==
    /\ registering = NoEvent
    /\ registered' = registered \cup {e}
    /\ registering' = e
    /\ UNCHANGED <<running, known, stopping, publishing, refused, overtaken>>

(* The native publisher takes it, or refuses it or raises. *)
RegisterNative ==
    /\ registering # NoEvent
    /\ \/ known' = known \cup {registering} /\ refused' = refused \ {registering}
       \/ refused' = refused \cup {registering} /\ UNCHANGED known
    /\ registering' = NoEvent
    /\ UNCHANGED <<running, registered, stopping, publishing, overtaken>>

(* notify() passes its check; otherwise it raises ConfigurationError.          *)
NotifyCheck(p, e) ==
    /\ publishing[p] = NoEvent /\ e \in registered
    /\ publishing' = [publishing EXCEPT ![p] = e]
    /\ overtaken' = IF stopping THEN overtaken \cup {p} ELSE overtaken
    /\ UNCHANGED <<running, registered, known, registering, stopping, refused>>

(* The native publisher is handed the event. *)
NotifyNative(p) ==
    /\ publishing[p] # NoEvent
    /\ publishing' = [publishing EXCEPT ![p] = NoEvent]
    /\ overtaken' = overtaken \ {p}
    /\ UNCHANGED <<running, registered, known, registering, stopping, refused>>

Next ==
    \/ Start \/ StopBegin \/ StopClear \/ RegisterNative
    \/ \E e \in Events : RegisterBegin(e) \/ \E p \in Publishers : NotifyCheck(p, e)
    \/ \E p \in Publishers : NotifyNative(p)

Spec == Init /\ [][Next]_vars

(* Outside stop() the native publisher knows every event that Python lists,    *)
(* and every event that a notify() is about to hand over; but for the one that *)
(* register_event() has listed and not yet told it of, those it refused, and a *)
(* notify() that a stop() has met (lines 76-111).  No restart and no repeated  *)
(* or failed registration makes the list outlive the native publisher's memory *)
(* of it.                                                                      *)
OnlyKnownPublished ==
    LET Accounted == known \cup refused \cup {registering}
    IN  /\ ~stopping => registered \subseteq Accounted
        /\ \A p \in Publishers \ overtaken : publishing[p] \in Accounted \cup {NoEvent}

=============================================================================

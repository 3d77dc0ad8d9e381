------------------------------- MODULE SdServer -------------------------------
(***************************************************************************)
(* sd.py's SdServer: the offers Python remembers beside the ones the       *)
(* native server announces.  Every native call may fail, and a failure is  *)
(* swallowed; the native server keeps its offers by (service, instance),   *)
(* without the versions that ServiceInstance has too.                      *)
(***************************************************************************)
EXTENDS FiniteSets

CONSTANTS
    Instances,  \* the ServiceInstances that are offered
    Keys,       \* their (service_id, instance_id) pairs
    Key         \* the pair of each

(* What the module that composes this one has to assume of the constants. *)
SdAssumption == Key \in [Instances -> Keys]

VARIABLES
    running,    \* _running
    native,     \* the native server is initialized
    offered,    \* _offered
    announced,  \* the pairs the native server announces
    failed,     \* history: a native call failed, or met a server that is not initialized
    clashed     \* history: an instance was offered or withdrawn beside one with its pair

vars == <<running, native, offered, announced, failed, clashed>>

TypeOK ==
    /\ running \in BOOLEAN /\ native \in BOOLEAN
    /\ offered \subseteq Instances
    /\ announced \subseteq Keys
    /\ failed \in BOOLEAN /\ clashed \in BOOLEAN

Init ==
    /\ running = FALSE /\ native = FALSE
    /\ offered = {} /\ announced = {}
    /\ failed = FALSE /\ clashed = FALSE

Start ==
    /\ running' = TRUE
    /\ \/ native' = TRUE /\ UNCHANGED failed
       \/ failed' = TRUE /\ UNCHANGED native
    /\ UNCHANGED <<offered, announced, clashed>>

(* Variants named after what they get wrong stand before the definition they   *)
(* change; only the mutation runs use them.                                    *)
StopKeepsOffers ==
    /\ running' = FALSE
    /\ \/ native' = FALSE /\ announced' = {} /\ UNCHANGED failed
       \/ failed' = TRUE /\ UNCHANGED <<native, announced>>
    /\ UNCHANGED <<offered, clashed>>

Stop ==
    /\ running' = FALSE
    /\ \/ native' = FALSE /\ announced' = {} /\ UNCHANGED failed
       \/ failed' = TRUE /\ UNCHANGED <<native, announced>>
    /\ offered' = {}
    /\ UNCHANGED clashed

Shared(s) == \E t \in offered : t # s /\ Key[t] = Key[s]

OfferByKey(s) ==
    /\ announced' = announced \cup {Key[s]}
    /\ offered' = offered \cup {Key[s]}
    /\ UNCHANGED <<running, native, failed, clashed>>

Offer(s) ==
    /\ \/ native /\ announced' = announced \cup {Key[s]} /\ UNCHANGED failed
       \/ failed' = TRUE /\ UNCHANGED announced
    /\ offered' = offered \cup {s}
    /\ clashed' = (clashed \/ Shared(s))
    /\ UNCHANGED <<running, native>>

StopOfferUntold(s) ==
    /\ offered' = offered \ {s}
    /\ UNCHANGED <<running, native, announced, failed, clashed>>

(* The native server is told whether or not the instance was offered. *)
StopOffer(s) ==
    /\ \/ announced' = announced \ {Key[s]} /\ UNCHANGED failed
       \/ failed' = TRUE /\ UNCHANGED announced
    /\ offered' = offered \ {s}
    /\ clashed' = (clashed \/ Shared(s))
    /\ UNCHANGED <<running, native>>

Next == Start \/ Stop \/ \E s \in Instances : Offer(s) \/ StopOffer(s)

Spec == Init /\ [][Next]_vars

(* What Python lists as offered is what the network hears of, through every    *)
(* order of start, stop, offer and stop_offer, as long as no native call has   *)
(* failed and no instance was offered or withdrawn beside one with the same    *)
(* pair (lines 105-125).                                                       *)
OffersAnnounced ==
    ~failed /\ ~clashed => announced = {Key[s] : s \in offered}

=============================================================================

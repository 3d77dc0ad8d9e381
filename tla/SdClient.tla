------------------------------- MODULE SdClient -------------------------------
(***************************************************************************)
(* sd.py's SdClient: the receivers find() hands out, one per call, of      *)
(* which the client remembers the last, and the native searches that feed  *)
(* them.  The native find releases the GIL, so other threads run between   *)
(* the making of a receiver and its return; exceptions of it are           *)
(* swallowed, and it searches for a service id, whatever instance was      *)
(* asked for.                                                              *)
(***************************************************************************)
EXTENDS Naturals, Sequences

CONSTANTS
    Instances,  \* the ServiceInstances on the network
    Service,    \* the service_id of each
    Users,      \* threads that call find()
    MaxFinds    \* bound on the calls of find()

(* What the module that composes this one has to assume of the constants. *)
SdClientAssumption == MaxFinds \in Nat /\ DOMAIN Service = Instances

Receivers == 1..MaxFinds

VARIABLES
    running,    \* _running
    native,     \* the native client is initialized
    last,       \* _find_receiver, or 0
    made,       \* receivers handed out so far
    open,       \* receivers that are not closed
    asked,      \* the instance of each find()
    searching,  \* receivers a native search feeds
    results,    \* what each receiver was given
    finding,    \* the receiver each thread has made and not yet returned, or 0
    returned,   \* the receiver each find() returned, or 0
    refused     \* history: receivers whose native find failed

vars == <<running, native, last, made, open, asked, searching, results, finding, returned,
          refused>>

TypeOK ==
    /\ running \in BOOLEAN /\ native \in BOOLEAN
    /\ made \in 0..MaxFinds /\ last \in {0, made}
    /\ open \subseteq 1..made /\ searching \subseteq 1..made /\ refused \subseteq 1..made
    /\ asked \in [1..made -> Instances]
    /\ results \in [1..made -> SUBSET Instances]
    /\ finding \in [Users -> 0..made]
    /\ returned \in [1..made -> 0..made]

Init ==
    /\ running = FALSE /\ native = FALSE
    /\ last = 0 /\ made = 0
    /\ open = {} /\ searching = {} /\ refused = {}
    /\ asked = <<>> /\ results = <<>> /\ returned = <<>>
    /\ finding = [u \in Users |-> 0]

Start ==
    /\ running' = TRUE
    /\ native' \in {native, TRUE}
    /\ UNCHANGED <<last, made, open, asked, searching, results, finding, returned, refused>>

(* Variants named after what they get wrong stand before the definition they   *)
(* change; only the mutation runs use them.                                    *)
StopKeepsReceiver ==
    /\ running' = FALSE
    /\ \/ native' = FALSE /\ searching' = {}
       \/ UNCHANGED <<native, searching>>
    /\ UNCHANGED <<last, made, open, asked, results, finding, returned, refused>>

(* A shutdown that fails leaves the native client and its searches as they     *)
(* were.  The receiver stays remembered.                                       *)
Stop ==
    /\ running' = FALSE
    /\ \/ native' = FALSE /\ searching' = {}
       \/ UNCHANGED <<native, searching>>
    /\ open' = open \ {last}
    /\ UNCHANGED <<last, made, asked, results, finding, returned, refused>>

FindBeginFirst(u, i) ==
    /\ finding[u] = 0 /\ made < MaxFinds
    /\ made' = made + 1 /\ last' = IF last = 0 THEN made' ELSE last
    /\ open' = open \cup {made'}
    /\ asked' = Append(asked, i)
    /\ results' = Append(results, {}) /\ returned' = Append(returned, 0)
    /\ finding' = [finding EXCEPT ![u] = made']
    /\ UNCHANGED <<running, native, searching, refused>>

(* The new receiver takes the place of the last, which nobody closes.          *)
FindBegin(u, i) ==
    /\ finding[u] = 0 /\ made < MaxFinds
    /\ made' = made + 1 /\ last' = made'
    /\ open' = open \cup {made'}
    /\ asked' = Append(asked, i)
    /\ results' = Append(results, {}) /\ returned' = Append(returned, 0)
    /\ finding' = [finding EXCEPT ![u] = made']
    /\ UNCHANGED <<running, native, searching, refused>>

FindUnsearched(u) ==
    /\ finding[u] # 0
    /\ returned' = [returned EXCEPT ![finding[u]] = last]
    /\ finding' = [finding EXCEPT ![u] = 0]
    /\ UNCHANGED <<running, native, last, made, open, asked, searching, results, refused>>

(* The native find takes the search up or fails; what is returned is whatever  *)
(* _find_receiver is by then.                                                  *)
FindReturn(u) ==
    /\ finding[u] # 0
    /\ \/ native /\ searching' = searching \cup {finding[u]} /\ UNCHANGED refused
       \/ refused' = refused \cup {finding[u]} /\ UNCHANGED searching
    /\ returned' = [returned EXCEPT ![finding[u]] = last]
    /\ finding' = [finding EXCEPT ![u] = 0]
    /\ UNCHANGED <<running, native, last, made, open, asked, results>>

Given(r, i) == IF r \in open THEN [results EXCEPT ![r] = @ \cup {i}] ELSE results

FoundForLast(r, i) ==
    /\ r \in searching /\ Service[i] = Service[asked[r]]
    /\ results' = Given(last, i)
    /\ UNCHANGED <<running, native, last, made, open, asked, searching, finding, returned, refused>>

(* A native thread runs _on_found for the search of r: it puts what was found  *)
(* into the receiver of that search; a closed receiver drops it.               *)
Found(r, i) ==
    /\ r \in searching /\ Service[i] = Service[asked[r]]
    /\ results' = Given(r, i)
    /\ UNCHANGED <<running, native, last, made, open, asked, searching, finding, returned, refused>>

Next ==
    \/ Start \/ Stop
    \/ \E i \in Instances, u \in Users : FindBegin(u, i)
    \/ \E u \in Users : FindReturn(u)
    \/ \E i \in Instances, r \in Receivers : Found(r, i)

Spec == Init /\ [][Next]_vars

(* Whatever is found goes to a reader that asked for that service, also when   *)
(* its receiver has been replaced by a later find() (lines 202-223).           *)
OwnResults == \A r \in 1..made : \A i \in results[r] : Service[i] = Service[asked[r]]

(* A reader of find() results waits in vain only on a receiver that a later    *)
(* find() replaced or whose native find failed: every other open one is fed by *)
(* a native search, and the next stop() closes it (lines 179-189, 202-225).    *)
OpenAreFed ==
    \A r \in open :
        \/ r < last \/ r \in refused \/ r \in searching
        \/ \E u \in Users : finding[u] = r

(* Line 200: "Returns a MessageReceiver that yields discovery results", those  *)
(* of the find() that returns it and not of another thread's.                  *)
FindReturnsOwn == \A r \in 1..made : returned[r] \in {0, r}

=============================================================================

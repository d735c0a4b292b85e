------------------------------ MODULE Container ------------------------------
(***************************************************************************)
(* What groundhog promises to a FaaS platform about one container: the     *)
(* function serves one request at a time, answers it from its own data and *)
(* that of no other request, is recycled between two requests, and retires *)
(* after Keepalive of them.  Session implements this specification.        *)
(***************************************************************************)
EXTENDS Integers, FiniteSets

CONSTANTS Request, Keepalive

VARIABLES
    phase,      \* starting, clean, serving, dirty or retired
    cur,        \* the request that is served
    responses   \* the responses given: which request, whose data

vars == <<phase, cur, responses>>

None == 0

Phases == {"starting", "clean", "serving", "dirty", "retired"}

Init == phase = "starting" /\ cur = None /\ responses = {}

Start ==
    /\ phase = "starting"
    /\ phase' = "clean"
    /\ UNCHANGED <<cur, responses>>

\* A request is served once.
Serve(r) ==
    /\ phase = "clean"
    /\ \A a \in responses : a.req # r
    /\ phase' = "serving" /\ cur' = r
    /\ UNCHANGED responses

Respond ==
    /\ phase = "serving"
    /\ phase' = "dirty" /\ cur' = None
    /\ responses' = responses \cup {[req |-> cur, data |-> {cur}]}

\* Back to the checkpoint, as long as the container is to be kept.
Recycle ==
    /\ phase = "dirty"
    /\ Cardinality(responses) # Keepalive
    /\ phase' = "clean"
    /\ UNCHANGED <<cur, responses>>

Retire ==
    /\ phase = "dirty"
    /\ Cardinality(responses) = Keepalive
    /\ phase' = "retired"
    /\ UNCHANGED <<cur, responses>>

\* The function gives up in the middle of a request.
Exit ==
    /\ phase = "serving"
    /\ phase' = "retired" /\ cur' = None
    /\ UNCHANGED responses

Next ==
    \/ Start \/ Respond \/ Recycle \/ Retire \/ Exit
    \/ \E r \in Request : Serve(r)

Spec == Init /\ [][Next]_vars
==============================================================================

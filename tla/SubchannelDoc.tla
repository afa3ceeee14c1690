---------------------------- MODULE SubchannelDoc ----------------------------
(***************************************************************************)
(* What the documentation of trait Subchannel promises an LB policy        *)
(* (grpc/src/client/load_balancing/subchannel.rs:139-155): the states a    *)
(* subchannel moves through, as the policy sees them.                      *)
(***************************************************************************)
CONSTANT Initial     \* the state the policy is told synchronously

VARIABLE seen        \* the state of which the LB policy was last told

ConnectivityStates == {"IDLE", "CONNECTING", "READY", "TRANSIENT_FAILURE"}

\* The transitions the trait's documentation lists.
Documented ==
    {<<"IDLE", "CONNECTING">>,
     <<"CONNECTING", "READY">>,
     <<"CONNECTING", "TRANSIENT_FAILURE">>,
     <<"READY", "IDLE">>,
     <<"TRANSIENT_FAILURE", "IDLE">>}

Init == seen = Initial

Next == <<seen, seen'>> \in Documented

Spec == Init /\ [][Next]_seen
=============================================================================

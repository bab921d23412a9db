------------------------------- MODULE OneShot -------------------------------
(***************************************************************************)
(* What serve_once and exchange_with of src/gither/transport.py promise    *)
(* ("one-shot server", "accepts a single connection"): of all who call,    *)
(* one at most is served, that is, its whole bundle is ingested, if it is  *)
(* sound; only that call may return, and only with a reply that is not too *)
(* long; any other raises.                                                 *)
(***************************************************************************)
CONSTANT Caller

VARIABLES
  sound,   \* callers whose bundle can be ingested
  fits,    \* whether the reply can be sent
  served,  \* callers whose bundle has been ingested
  call     \* caller -> whether its call is open, has returned or raised

vars == <<sound, fits, served, call>>

Init ==
  /\ sound \in SUBSET Caller
  /\ fits \in BOOLEAN
  /\ served = {}
  /\ call = [c \in Caller |-> "open"]

(* Whether or not the call is still open: the caller may have given up.     *)
Serve(c) ==
  /\ served = {}
  /\ c \in sound
  /\ served' = {c}
  /\ UNCHANGED <<sound, fits, call>>

Ends(c, how) == call[c] = "open" /\ call' = [call EXCEPT ![c] = how]

Return(c) ==
  /\ c \in served
  /\ fits
  /\ Ends(c, "returned")
  /\ UNCHANGED <<sound, fits, served>>

Raise(c) == Ends(c, "raised") /\ UNCHANGED <<sound, fits, served>>

Next == \E c \in Caller : Serve(c) \/ Return(c) \/ Raise(c)

Spec == Init /\ [][Next]_vars
=============================================================================

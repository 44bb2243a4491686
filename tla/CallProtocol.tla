--------------------------- MODULE CallProtocol ---------------------------
(***************************************************************************)
(* What the backend promises of one call, whatever else is going on: the   *)
(* diagram above RingState in backend/src/types.ts and the route comments  *)
(* of routes/calls.ts, as the transitions a client can rely on.            *)
(*                                                                         *)
(* state is the call's, ring its ring's; a ring is "none" for a call made  *)
(* by invite link.                                                         *)
(***************************************************************************)
CONSTANT CallIds

VARIABLES state, ring

pvars == <<state, ring>>

Live == {"ringing", "accepted"}

PInit == /\ state = [c \in CallIds |-> "unborn"]
         /\ ring = [c \in CallIds |-> "none"]

Become(c, s, g) == /\ state' = [state EXCEPT ![c] = s]
                   /\ ring' = [ring EXCEPT ![c] = g]

Place(c) == state[c] = "unborn" /\ \E g \in {"none", "ringing"} : Become(c, "created", g)

\* The callee presses accept; the call waits for somebody to join.
Answer(c) == state[c] # "ended" /\ ring[c] = "ringing" /\ Become(c, state[c], "accepted")

\* Somebody enters the room; when it is the callee, that is her answer.
Enter(c) == state[c] = "created" /\ Become(c, "active", ring[c])
EnterAnswering(c) ==
    /\ state[c] \in {"created", "active"} /\ ring[c] = "ringing"
    /\ Become(c, "active", "accepted")

\* A verdict on a live ring ends the call in the same step.  A call that was hung
\* up keeps its ring as it was, and may still be given a verdict.
Refuse(c, why) == ring[c] \in Live /\ Become(c, "ended", why)

\* The deadline never applies to an answered call that somebody has joined.
Expire(c) == /\ ring[c] = "ringing" \/ state[c] = "created"
             /\ Refuse(c, "timeout")

\* Without a verdict only a call somebody joined, or one that never rang, ends.
HangUp(c) == /\ state[c] = "active" \/ (state[c] = "created" /\ ring[c] = "none")
             /\ Become(c, "ended", ring[c])

PNext == \E c \in CallIds :
            \/ Place(c) \/ Answer(c) \/ Enter(c) \/ EnterAnswering(c)
            \/ Refuse(c, "declined") \/ Refuse(c, "cancelled")
            \/ Expire(c) \/ HangUp(c)

PSpec == PInit /\ [][PNext]_pvars
============================================================================

----------------------------- MODULE LossyLink -----------------------------
(***************************************************************************)
(* What the snull pair promises to the network stack: a link that carries  *)
(* the frames accepted from one interface to the other one, unaltered and  *)
(* at most once each.  Frames may overtake each other and may be lost.     *)
(* Nothing here speaks of buffers, interrupts or locks.                    *)
(***************************************************************************)
EXTENDS Integers, Sequences

CONSTANTS Dev, Peer

VARIABLES
  accepted,  (* accepted[d]: the number of frames taken from the stack at d *)
  inFlight,  (* inFlight[d]: the frames on their way to d                   *)
  passedUp   (* passedUp[d]: the frames handed to the stack at d, in order  *)

vars == <<accepted, inFlight, passedUp>>

Init ==
  /\ accepted = [d \in Dev |-> 0]
  /\ inFlight = [d \in Dev |-> {}]
  /\ passedUp = [d \in Dev |-> <<>>]

(* The frames accepted at d are numbered 1, 2, 3, ...                      *)
Accept(d) ==
  /\ accepted' = [accepted EXCEPT ![d] = @ + 1]
  /\ inFlight' = [inFlight EXCEPT ![Peer[d]] = @ \cup {accepted[d] + 1}]
  /\ UNCHANGED passedUp

Deliver(d, f) ==
  /\ f \in inFlight[d]
  /\ inFlight' = [inFlight EXCEPT ![d] = @ \ {f}]
  /\ passedUp' = [passedUp EXCEPT ![d] = Append(@, f)]
  /\ UNCHANGED accepted

Lose(d, f) ==
  /\ f \in inFlight[d]
  /\ inFlight' = [inFlight EXCEPT ![d] = @ \ {f}]
  /\ UNCHANGED <<accepted, passedUp>>

Next ==
  \E d \in Dev : \/ Accept(d)
                 \/ \E f \in inFlight[d] : Deliver(d, f) \/ Lose(d, f)

Spec == Init /\ [][Next]_vars
=============================================================================

----------------------------- MODULE BoundedFifo -----------------------------
(***************************************************************************)
(* What every elastic path of the design promises: a queue of at most      *)
(* Capacity words that keeps them all, once each and in order.  At a       *)
(* clock edge a word may enter, the oldest may leave, or both; sent and    *)
(* received are what the two handshakes have seen since the last reset.    *)
(* Room is counted before the edge: a full path does not take a word in    *)
(* the cycle in which it gives one, because the refusal (dinRetry) is      *)
(* registered.                                                             *)
(***************************************************************************)
EXTENDS Naturals, Sequences

CONSTANTS Data, Capacity

VARIABLES queue, sent, received

vars == <<queue, sent, received>>

Init == queue = << >> /\ sent = << >> /\ received = << >>

Enq(w) ==
    /\ Len(queue) < Capacity
    /\ queue' = Append(queue, w) /\ sent' = Append(sent, w)
    /\ UNCHANGED received

Deq ==
    /\ queue # << >>
    /\ queue' = Tail(queue) /\ received' = Append(received, Head(queue))
    /\ UNCHANGED sent

EnqDeq(w) ==
    /\ queue # << >> /\ Len(queue) < Capacity
    /\ queue' = Append(Tail(queue), w)
    /\ sent' = Append(sent, w) /\ received' = Append(received, Head(queue))

(* reset drops whatever is in flight *)
Clear == queue' = << >> /\ sent' = << >> /\ received' = << >>

Next == (\E w \in Data : Enq(w) \/ EnqDeq(w)) \/ Deq \/ Clear

Spec == Init /\ [][Next]_vars
=============================================================================

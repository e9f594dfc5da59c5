--------------------------- MODULE MCElasticPaths ---------------------------
(***************************************************************************)
(* One elastic flop, and the circuits built from it: a fork, a join, a     *)
(* chain of four and the memory ports.  A behaviour is one of a single     *)
(* circuit, chosen at the start; the others stay as reset left them.       *)
(***************************************************************************)
EXTENDS Fflop

CONSTANTS Pos,                   \* addresses of the memories
          Width,                 \* of the operands of the join
          NoRequest,
          MaxForked, MaxJoined, MaxChained   \* bounds on the words sent

(* An undriven word is no word, and no request is no request. *)
ASSUME PathsAssumption ==
    /\ X \notin 0 .. 2^Width - 1
    /\ MaxForked \in Nat /\ MaxJoined \in Nat /\ MaxChained \in Nat
    /\ NoRequest \notin [we : BOOLEAN, pos : Pos, data : Data \cup {X}]

VARIABLES circuit,
          ff_a, ff_b, fork_sent, received_a, received_b,
          f1, f2, sent_a, sent_b, sums,
          in1_r1, in1_r2, in1_r3, out1, chain_sent, chain_received,
          Dense, req, data, last_busy, ram_f1, ram_f2, golden, owed

Fork == INSTANCE ForkFflop WITH MaxSent <- MaxForked, sent <- fork_sent
Join == INSTANCE JoinFadd WITH MaxSent <- MaxJoined, received <- sums
Chain == INSTANCE FflopChain WITH MaxSent <- MaxChained, sent <- chain_sent, received <- chain_received
Ram == INSTANCE RamPort WITH f1 <- ram_f1, f2 <- ram_f2

forkVars  == <<ff_a, ff_b, fork_sent, received_a, received_b>>
joinVars  == <<f1, f2, sent_a, sent_b, sums>>
chainVars == <<in1_r1, in1_r2, in1_r3, out1, chain_sent, chain_received>>
ramVars   == <<Dense, req, data, last_busy, ram_f1, ram_f2, golden, owed>>
pathVars  == <<circuit, vars, forkVars, joinVars, chainVars, ramVars>>

PathsInit ==
    /\ circuit \in {"flop", "fork", "join", "chain", "ram"}
    /\ Init /\ Fork!Init /\ Join!Init /\ Chain!Init /\ Ram!Init
    /\ circuit # "ram" => ~Dense /\ req = NoRequest

In(name) == circuit = name /\ UNCHANGED circuit

FlopOnly(Step)  == In("flop") /\ Step /\ UNCHANGED <<forkVars, joinVars, chainVars, ramVars>>
ForkOnly(Step)  == In("fork") /\ Step /\ UNCHANGED <<vars, joinVars, chainVars, ramVars>>
JoinOnly(Step)  == In("join") /\ Step /\ UNCHANGED <<vars, forkVars, chainVars, ramVars>>
ChainOnly(Step) == In("chain") /\ Step /\ UNCHANGED <<vars, forkVars, joinVars, ramVars>>
RamOnly(Step)   == In("ram") /\ Step /\ UNCHANGED <<vars, forkVars, joinVars, chainVars>>

PathsNext ==
    \/ FlopOnly(Next)
    \/ ForkOnly(Fork!Next) \/ JoinOnly(Join!Next)
    \/ ChainOnly(Chain!Next) \/ RamOnly(Ram!Next)

(* The fairness of each circuit's own module. *)
PathsSpec ==
    /\ PathsInit /\ [][PathsNext]_pathVars
    /\ WF_pathVars(FlopOnly(Consume))
    /\ WF_pathVars(ForkOnly(Fork!ConsumeA)) /\ WF_pathVars(ForkOnly(Fork!ConsumeB))
    /\ WF_pathVars(ChainOnly(Chain!Consume)) /\ WF_pathVars(RamOnly(Ram!Step(FALSE)))

(* A word enters both flops of the fork or neither (rtl/fork_fflop.v:24).  *)
SameOnBothBranches == Fork!SameOnBothBranches

(* A word taken reaches both consumers of the fork, though each may make   *)
(* the other wait (rtl/fork_fflop.v:30), and every word that entered the   *)
(* chain comes out at its end (rtl/fflop_understand.v:83).                 *)
EventuallyThrough == Fork!EventuallyOnBoth /\ Chain!EventuallyDelivered

(* The join pairs the n-th operands of its two producers, whatever the     *)
(* order in which they come and go (rtl/join_fadd.v:31).                   *)
PairwiseSums == Join!PairwiseSums

(* The chain implements a queue of eight places: nothing is lost, doubled  *)
(* or reordered while refusals travel back (rtl/fflop_understand.v:23).    *)
ChainIsFifo == Chain!FifoSpec

(* Each accepted read is answered once, in order, with the last write      *)
(* accepted before it, and the array, written by refused writes too, runs  *)
(* ahead of the accepted writes by the request on the wires only           *)
(* (rtl/ram_1port_dense.v:33-66).                                          *)
AnswersInOrder == Ram!AnswersInOrder /\ Ram!ArrayMatchesAccepted

(* A memory port accepts each request in the end, though the dense one is  *)
(* busy in every second cycle (rtl/ram_1port_dense.v:56).                  *)
EventuallyAccepted == Ram!EventuallyAccepted
=============================================================================

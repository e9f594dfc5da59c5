------------------------------ MODULE MCTraces ------------------------------
(* CacheSim with one-way instruction and data caches, an L2 of two ways with *)
(* lines twice as long, and a live cache of two ways.  The addresses are     *)
(* chosen so that data displace instructions in the L2, that two data lines  *)
(* share an L2 line and that no address lies in block 0.                     *)
(* In other behaviours the line stores are called directly, two sets of two  *)
(* ways or four lines in all, or the trace dumper writes and reads back      *)
(* traces of two operations: a locked 64-bit load, a 128-bit and an          *)
(* unlocking store, live cache operations and the generator's byte loads and *)
(* stores, with pid and delay beyond twelve bits and an address whose low    *)
(* three bits are set.                                                       *)
EXTENDS CacheSim, LineStores, Dumper

VARIABLE subject

MCFetchAddrs == {6}
MCDataAddrs == {4, 5}
MCStoreAddrs == {2, 4, 5, 6, 8}   \* with lines of two addresses, tags 1 to 4
MCSkewAddrs == {2, 4, 6, 8, 10}
MCShipAddrs == {4, 5, 8, 12}          \* three lines of one set of two

MCLoadOps == {22}
MCStoreOps == {8, 255}

W(lo, hi) == << lo, 0, 0, 0, 0, 0, 0, hi >>
MCHeaders == {<< 4206, 4329, W(1, 128), W(86, 18) >>}
MCValues == {[i \in 1 .. 64 |-> 100 + i]}
MCCuts == {0, 1, 8, 12, 13, 20, 21, 30, 41}
MCSyncBase == [src |-> << 0, 112, 86, 52, 18, 239, 205, 171 >>, dest |-> W(248, 18)]

mcvars == <<vars, svars, dumpVars, subject>>
Simulator == subject = "simulator"
Stores == subject = "stores"
Dumps == subject = "dumper"

StoresIdle ==
  /\ kind = [policy |-> "DM", xor |-> FALSE] /\ content = [l \in Lines |-> NewLine(FALSE)]
  /\ irand = 0 /\ rand_number = 0 /\ touched = 0 /\ SHCT = << >>

MCInit ==
  /\ DumpInit
  /\ \/ Simulator /\ Init /\ StoresIdle
     \/ Stores /\ Init /\ StoresInit
     \/ Dumps /\ Init /\ StoresIdle
MCNext == \/ Simulator /\ Next /\ UNCHANGED <<svars, dumpVars, subject>>
          \/ Stores /\ StoresNext /\ UNCHANGED <<vars, dumpVars, subject>>
          \/ Dumps /\ DumpNext /\ UNCHANGED <<vars, svars, subject>>
MCSpec == MCInit /\ [][MCNext]_mcvars /\ WF_vars(Simulator /\ Next)
-----------------------------------------------------------------------------
(* TracingEnds, of the behaviours in which a program runs (LiveCache.cc:186- *)
(* 190): the simulator reaches the abort that ends the tracing, because no   *)
(* counter steps over the value it is compared with.                         *)
ProgramsTracedToTheEnd == Simulator => TracingEnds
=============================================================================

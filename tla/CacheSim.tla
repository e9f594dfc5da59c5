------------------------------ MODULE CacheSim ------------------------------
(* The cache simulator behind spike's --ic, --dc and --l2 (cachesim.cc,      *)
(* memtracer.h, wired by spike.cc) with the live cache every access of every *)
(* simulated cache goes through.  One processor access runs to completion:   *)
(* the instruction or data cache, then the write-back and the fetch it sends *)
(* to the L2, each of them through the one live cache, last made wins.       *)
(* The LFSR that picks victims is a free choice of a way.                    *)
EXTENDS LiveCache

CONSTANTS
  L1Sets, L1Ways, L1Line, L2Sets, L2Ways, L2Line,  \* spike's sets:ways:blocksize
  L2Kinds,                 \* whether the L2 may be fully associative
  FetchAddrs, DataAddrs,   \* addresses of instructions and of data
  MaxLog                   \* bound: no new access begins once this many are logged

ASSUME CacheAssumption ==
  /\ \A n \in {L1Sets, L1Line, L2Sets, L2Line} : Log2able(n)
  /\ L1Line <= L2Line      \* a line written back to the L2 lies in one L2 line
  /\ {L1Ways, L2Ways} \subseteq Nat \ {0} /\ FetchAddrs \subseteq Nat /\ DataAddrs \subseteq Nat
  /\ L2Kinds \subseteq BOOLEAN /\ (TRUE \in L2Kinds => L2Sets = 1)

VARIABLES ic, dc, l2,   \* the three caches
          live,         \* the live cache and its trace files
          log,          \* every access that reached the live cache, in order
          unsaved       \* addresses stored to and not yet written to memory

vars == <<ic, dc, l2, live, log, unsaved>>

NoLine == [tag |-> 0, valid |-> FALSE, dirty |-> FALSE]
\* construct makes a cache of one set and more than four ways fully associative.
Construct(sets, ways, linesz, fa) ==
  [fa |-> fa, sets |-> sets, ways |-> ways, linesz |-> linesz,
   tags |-> [idx \in 0 .. sets - 1 |-> [w \in 1 .. ways |-> NoLine]],
   read_accesses |-> 0, read_misses |-> 0, bytes_read |-> 0,
   write_accesses |-> 0, write_misses |-> 0, bytes_written |-> 0, writebacks |-> 0]

Tag(c, addr) == addr \div c.linesz
Idx(c, addr) == Tag(c, addr) % c.sets
check_tag(c, addr) ==
  {w \in 1 .. c.ways : LET l == c.tags[Idx(c, addr)][w] IN l.valid /\ l.tag = Tag(c, addr)}

\* The map of a fully associative cache evicts only when it is full.
VictimWays(c, addr) ==
  LET empty == {w \in 1 .. c.ways : ~c.tags[Idx(c, addr)][w].valid}
  IN  IF c.fa /\ empty # {} THEN {Min(empty)} ELSE 1 .. c.ways

Counted(c, bytes, store) ==
  IF store THEN [c EXCEPT !.write_accesses = @ + 1, !.bytes_written = @ + bytes]
           ELSE [c EXCEPT !.read_accesses = @ + 1, !.bytes_read = @ + bytes]
CountedMiss(c, store) ==
  IF store THEN [c EXCEPT !.write_misses = @ + 1] ELSE [c EXCEPT !.read_misses = @ + 1]

MarkDirty(c, addr) ==
  [c EXCEPT !.tags[Idx(c, addr)] =
     [w \in DOMAIN @ |-> IF w \in check_tag(c, addr) THEN [@[w] EXCEPT !.dirty = TRUE] ELSE @[w]]]

\* victimize, with the new line in the way of the old one.
Replaced(c, addr, way) ==
  [c EXCEPT !.tags[Idx(c, addr)][way] = [tag |-> Tag(c, addr), valid |-> TRUE, dirty |-> FALSE]]

Acc(addr, bytes, store) == [addr |-> addr, bytes |-> bytes, store |-> store]

(* mutant: a store marks the line dirty only when it hits *)
WrittenOnHit(c, a, hit) == IF a.store /\ hit THEN MarkDirty(c, a.addr) ELSE c

\* A store leaves its line dirty, found or brought in.
Written(c, a, hit) == IF a.store THEN MarkDirty(c, a.addr) ELSE c

(* mutant: a store that misses allocates its line without fetching it *)
SentDownNoStoreFetch(c, a, victim) ==
  (IF victim.valid /\ victim.dirty
   THEN <<Acc(victim.tag * c.linesz, c.linesz, TRUE)>> ELSE << >>)
  \o (IF a.store THEN << >> ELSE <<Acc(Tag(c, a.addr) * c.linesz, c.linesz, FALSE)>>)

\* What a miss asks of the miss handler: the write-back of a dirty victim,
\* then the fetch.
SentDown(c, a, victim) ==
  (IF victim.valid /\ victim.dirty
   THEN <<Acc(victim.tag * c.linesz, c.linesz, TRUE)>> ELSE << >>)
  \o <<Acc(Tag(c, a.addr) * c.linesz, c.linesz, FALSE)>>

\* One access of cache c: the cache afterwards, and what it sends down.
Access(c, a, way) ==
  LET counted == Counted(c, a.bytes, a.store)
      hit     == check_tag(c, a.addr) # {}
      victim  == c.tags[Idx(c, a.addr)][way]
      missed  == Replaced(CountedMiss(counted, a.store), a.addr, way)
      wrote   == IF victim.valid /\ victim.dirty
                 THEN [missed EXCEPT !.writebacks = @ + 1] ELSE missed
  IN  [cache |-> Written(IF hit THEN counted ELSE wrote, a, hit),
       down  |-> IF hit THEN << >> ELSE SentDown(c, a, victim)]

Units(addr, linesz) == addr .. (addr + linesz - 1)
EvictedToMemory(down) ==
  UNION {Units(down[i].addr, down[i].bytes) : i \in {j \in DOMAIN down : down[j].store}}

Init ==
  /\ ic = Construct(L1Sets, L1Ways, L1Line, FALSE) /\ dc = ic
  /\ \E fa \in L2Kinds : l2 = Construct(L2Sets, L2Ways, L2Line, fa)
  /\ live = FreshLive /\ log = << >> /\ unsaved = {}

\* The i-th access a first level cache sends down, if any, reaches the L2; below
\* is the L2 and what it wrote back to memory so far.
Below(below, down, i, way) ==
  IF i > Len(down) THEN below
  ELSE LET r == Access(below.l2, down[i], way)
       IN  [l2 |-> r.cache, saved |-> below.saved \cup EvictedToMemory(r.down)]

\* The i-th of a run of accesses reaches the live cache, unless it has stopped
\* the simulator in the middle of an access (abort).
LogAccess(now, accs, i) ==
  IF i > Len(accs) \/ Aborted(now.live) THEN now
  ELSE [live |-> LiveAccess(now.live, accs[i]), log |-> Append(now.log, accs[i])]

CanAccess == Len(log) < MaxLog /\ ~Aborted(live)

\* A hit draws no victim, so one choice stands for all.
WayChoices(c, addr) == IF check_tag(c, addr) # {} THEN {1} ELSE VictimWays(c, addr)
BelowWays(below, down, i) ==
  IF i > Len(down) THEN {1} ELSE WayChoices(below.l2, down[i].addr)

\* The rest of an access: a miss sends at most a write-back and a fetch down.
ThroughL2(a, down) ==
  /\ \E w1 \in BelowWays([l2 |-> l2], down, 1) :
     \E b1 \in {Below([l2 |-> l2, saved |-> {}], down, 1, w1)} :
     \E w2 \in BelowWays(b1, down, 2) :
     \E b2 \in {Below(b1, down, 2, w2)} :
       /\ l2' = b2.l2
       /\ unsaved' = IF a.store THEN (unsaved \ b2.saved) \cup {a.addr} ELSE unsaved \ b2.saved
  /\ \E n1 \in {LogAccess([live |-> live, log |-> log], <<a>> \o down, 1)} :
     \E n2 \in {LogAccess(n1, <<a>> \o down, 2)} :
     \E n3 \in {LogAccess(n2, <<a>> \o down, 3)} :
       live' = n3.live /\ log' = n3.log

\* icache_sim_t::trace
Fetch(addr) ==
  /\ CanAccess
  /\ \E way \in WayChoices(ic, addr) :
     \E r \in {Access(ic, Acc(addr, 1, FALSE), way)} :
       ic' = r.cache /\ ThroughL2(Acc(addr, 1, FALSE), r.down)
  /\ UNCHANGED dc

\* dcache_sim_t::trace
Data(addr, store) ==
  /\ CanAccess
  /\ \E way \in WayChoices(dc, addr) :
     \E r \in {Access(dc, Acc(addr, 1, store), way)} :
       dc' = r.cache /\ ThroughL2(Acc(addr, 1, store), r.down)
  /\ UNCHANGED ic

Load(addr) == Data(addr, FALSE)
Store(addr) == Data(addr, TRUE)

Next == \/ \E addr \in FetchAddrs : Fetch(addr)
        \/ \E addr \in DataAddrs : Load(addr) \/ Store(addr)

\* The simulated program keeps running.
Spec == Init /\ [][Next]_vars /\ WF_vars(Next)
-----------------------------------------------------------------------------
Dirty(c, u) == \E w \in check_tag(c, u) : c.tags[Idx(c, u)][w].dirty
Missed(c) == c.read_misses + c.write_misses

(* The levels agree about stores and about traffic (cachesim.cc:144-172).    *)
(* No store is lost: an address the program stored to and that was not       *)
(* written back to memory is in a dirty line of the data cache or of the L2, *)
(* although the L2 may drop a line the data cache still holds and a          *)
(* write-back may itself evict from the L2.  A line is in one way of its own *)
(* set at most.  And what the L2 counted is what the first level caches      *)
(* sent, access for access and byte for byte.                                *)
LevelsAgree ==
  /\ \A u \in unsaved : Dirty(dc, u) \/ Dirty(l2, u)
  /\ \A c \in {ic, dc, l2} : \A idx \in DOMAIN c.tags : \A v, w \in 1 .. c.ways :
       LET l == c.tags[idx][v]
           m == c.tags[idx][w]
       IN  /\ l.valid => l.tag % c.sets = idx
           /\ l.valid /\ m.valid /\ l.tag = m.tag => v = w
  /\ l2.read_accesses = Missed(ic) + Missed(dc)
  /\ l2.write_accesses = ic.writebacks + dc.writebacks
  /\ l2.bytes_read = L1Line * (Missed(ic) + Missed(dc))
  /\ l2.bytes_written = L1Line * dc.writebacks

(* The trace files hold what happened (LiveCache.cc:94-203).  The head of a  *)
(* file, when begun, is the live cache at that moment: the lines the log     *)
(* says are resident under LRU, in the order of their last accesses, each    *)
(* with the flag of a write since it came in.  Its operations are the        *)
(* accesses that follow, without a gap, and the next file begins a full skip *)
(* later.                                                                    *)
FilesFaithful ==
  /\ live.files # << >> =>
       LET newest == Last(live.files)
       IN  newest.ops = << >> => newest.snapshot = Expected(SubSeq(log, 1, newest.at))
  /\ \A f \in DOMAIN live.files :
       LET file == live.files[f]
       IN  /\ file.ops = SubSeq(log, file.at + 1, file.at + Len(file.ops))
           /\ file.closed => Len(file.ops) = live_cache_count - 1
           /\ f > 1 => file.at = live.files[f - 1].at + skip + 1

(* A running program is traced to the end (LiveCache.cc:186-190): the        *)
(* simulator reaches the abort that ends the tracing, because no counter     *)
(* steps over the value it is compared with.                                 *)
TracingEnds == <>Aborted(live)
=============================================================================

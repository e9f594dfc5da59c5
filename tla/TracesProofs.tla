----------------------------- MODULE TracesProofs -----------------------------
(***************************************************************************)
(* The caches of the simulator and the trace dumper, which MCTraces runs    *)
(* together.  For every number of sets, ways and lines no store is lost     *)
(* between the data cache and the L2, and what the L2 counts is what the    *)
(* first level sends.  A binary trace is read back as it was written, in    *)
(* whatever order the client makes its calls and wherever a dead writer     *)
(* left the file cut.                                                       *)
(***************************************************************************)
EXTENDS CacheSim, Dumper, WellFoundedInduction, NaturalsInduction, SequenceTheorems, TLAPS

Lines == [tag : Nat, valid : BOOLEAN, dirty : BOOLEAN]
Caches(sets, ways, linesz) ==
  [fa : BOOLEAN, sets : {sets}, ways : {ways}, linesz : {linesz},
   tags : [0 .. sets - 1 -> [1 .. ways -> Lines]],
   read_accesses : Nat, read_misses : Nat, bytes_read : Nat,
   write_accesses : Nat, write_misses : Nat, bytes_written : Nat, writebacks : Nat]
Cache(c) ==
  /\ c \in Caches(c.sets, c.ways, c.linesz)
  /\ c.sets \in Nat \ {0} /\ c.ways \in Nat \ {0} /\ c.linesz \in Nat \ {0}

\* A valid line is in its own set, and in one way of it.
Indexed(c) ==
  \A idx \in 0 .. c.sets - 1 : \A v, w \in 1 .. c.ways :
    LET l == c.tags[idx][v]
        m == c.tags[idx][w]
    IN  /\ l.valid => l.tag % c.sets = idx
        /\ l.valid /\ m.valid /\ l.tag = m.tag => v = w

Clean(c) == \A idx \in 0 .. c.sets - 1, w \in 1 .. c.ways : ~c.tags[idx][w].dirty

-----------------------------------------------------------------------------
(* Arithmetic.                                                             *)

LEMMA LeastNat ==
    ASSUME NEW S \in SUBSET Nat, S # {}
    PROVE  Min(S) \in S
<1> DEFINE R == {ss \in Nat \X Nat : ss[1] < ss[2]}
<1>1. OpToRel(<, Nat) = R
  BY DEF OpToRel
<1>2. IsWellFoundedOn(R, Nat)
  BY <1>1, NatLessThanWellFounded
<1> HIDE DEF R
<1>3. PICK m \in S : \A k \in S : ~(<<k, m>> \in R)
  BY <1>2, WFMin
<1>4. ASSUME NEW k \in S PROVE m <= k
  <2>1. ~(<<k, m>> \in R) /\ k \in Nat /\ m \in Nat
    BY <1>3
  <2>2. QED BY <2>1 DEF R
<1>5. QED BY <1>4 DEF Min

LEMMA TagIsNat ==
    ASSUME NEW addr \in Nat, NEW n \in Nat \ {0}
    PROVE  addr \div n \in Nat /\ addr % n \in 0 .. n - 1
OBVIOUS

\* The addresses of a line are those with its tag.
LEMMA UnitsOfLine ==
    ASSUME NEW n \in Nat \ {0}, NEW tag \in Nat, NEW u \in Nat
    PROVE  u \in Units(tag * n, n) <=> u \div n = tag
<1>1. tag * n \in Nat
  OBVIOUS
<1>2. u \div n = tag => tag * n <= u /\ u <= tag * n + n - 1
  <2>1. u = n * (u \div n) + (u % n) /\ u % n \in 0 .. n - 1 /\ u \div n \in Nat
    OBVIOUS
  <2>2. QED BY <2>1
<1>3. tag * n <= u /\ u <= tag * n + n - 1 => u \div n = tag
  OBVIOUS
<1>4. QED BY <1>1, <1>2, <1>3 DEF Units

-----------------------------------------------------------------------------
(* One access of one cache, line by line.                                  *)

SameShape(d, c) == d.fa = c.fa /\ d.sets = c.sets /\ d.ways = c.ways /\ d.linesz = c.linesz
SameTraffic(d, c) ==
  /\ d.read_accesses = c.read_accesses /\ d.bytes_read = c.bytes_read
  /\ d.write_accesses = c.write_accesses /\ d.bytes_written = c.bytes_written

LEMMA CacheFields ==
    ASSUME NEW c, Cache(c)
    PROVE  /\ c.sets \in Nat \ {0} /\ c.ways \in Nat \ {0} /\ c.linesz \in Nat \ {0}
           /\ c.fa \in BOOLEAN /\ c.tags \in [0 .. c.sets - 1 -> [1 .. c.ways -> Lines]]
           /\ c.read_accesses \in Nat /\ c.read_misses \in Nat /\ c.bytes_read \in Nat
           /\ c.write_accesses \in Nat /\ c.write_misses \in Nat /\ c.bytes_written \in Nat
           /\ c.writebacks \in Nat /\ Missed(c) \in Nat
BY DEF Cache, Caches, Missed

\* What an access adds to the statistics of the traffic.
Charged(d, c, bytes, store) ==
  /\ d.read_accesses = c.read_accesses + (IF store THEN 0 ELSE 1)
  /\ d.write_accesses = c.write_accesses + (IF store THEN 1 ELSE 0)
  /\ d.bytes_read = c.bytes_read + (IF store THEN 0 ELSE bytes)
  /\ d.bytes_written = c.bytes_written + (IF store THEN bytes ELSE 0)

LEMMA CountedFacts ==
    ASSUME NEW c, Cache(c), NEW bytes \in Nat, NEW store \in BOOLEAN,
           NEW d, d = Counted(c, bytes, store)
    PROVE  /\ Cache(d) /\ SameShape(d, c) /\ d.tags = c.tags
           /\ Charged(d, c, bytes, store) /\ Missed(d) = Missed(c) /\ d.writebacks = c.writebacks
<1>1. c.read_accesses \in Nat /\ c.write_accesses \in Nat
      /\ c.bytes_read \in Nat /\ c.bytes_written \in Nat
  BY CacheFields
<1>2. ASSUME store
      PROVE  /\ Cache(d) /\ SameShape(d, c) /\ d.tags = c.tags
             /\ d.write_accesses = c.write_accesses + 1
             /\ d.bytes_written = c.bytes_written + bytes
             /\ d.read_accesses = c.read_accesses /\ d.bytes_read = c.bytes_read
             /\ d.writebacks = c.writebacks
             /\ d.read_misses = c.read_misses /\ d.write_misses = c.write_misses
  <2>1. PICK n \in Nat, b \in Nat : n = c.write_accesses + 1 /\ b = c.bytes_written + bytes
    BY <1>1
  <2>2. d = [c EXCEPT !.write_accesses = n, !.bytes_written = b]
    BY <1>2, <2>1 DEF Counted
  <2>3. QED BY <2>1, <2>2 DEF Cache, Caches, SameShape
<1>3. ASSUME ~store
      PROVE  /\ Cache(d) /\ SameShape(d, c) /\ d.tags = c.tags
             /\ d.read_accesses = c.read_accesses + 1
             /\ d.bytes_read = c.bytes_read + bytes
             /\ d.write_accesses = c.write_accesses /\ d.bytes_written = c.bytes_written
             /\ d.writebacks = c.writebacks
             /\ d.read_misses = c.read_misses /\ d.write_misses = c.write_misses
  <2>1. PICK n \in Nat, b \in Nat : n = c.read_accesses + 1 /\ b = c.bytes_read + bytes
    BY <1>1
  <2>2. d = [c EXCEPT !.read_accesses = n, !.bytes_read = b]
    BY <1>3, <2>1 DEF Counted
  <2>3. QED BY <2>1, <2>2 DEF Cache, Caches, SameShape
<1>4. QED BY <1>1, <1>2, <1>3 DEF Charged, Missed

LEMMA CountedMissFacts ==
    ASSUME NEW c, Cache(c), NEW store \in BOOLEAN, NEW d, d = CountedMiss(c, store)
    PROVE  /\ Cache(d) /\ SameShape(d, c) /\ d.tags = c.tags
           /\ SameTraffic(d, c) /\ Missed(d) = Missed(c) + 1 /\ d.writebacks = c.writebacks
<1>1. c.read_misses \in Nat /\ c.write_misses \in Nat
  BY CacheFields
<1>2. ASSUME store
      PROVE  /\ Cache(d) /\ SameShape(d, c) /\ d.tags = c.tags /\ SameTraffic(d, c)
             /\ d.write_misses = c.write_misses + 1 /\ d.read_misses = c.read_misses
             /\ d.writebacks = c.writebacks
  <2>1. PICK n \in Nat : n = c.write_misses + 1
    BY <1>1
  <2>2. d = [c EXCEPT !.write_misses = n]
    BY <1>2, <2>1 DEF CountedMiss
  <2>3. QED BY <2>1, <2>2 DEF Cache, Caches, SameShape, SameTraffic
<1>3. ASSUME ~store
      PROVE  /\ Cache(d) /\ SameShape(d, c) /\ d.tags = c.tags /\ SameTraffic(d, c)
             /\ d.read_misses = c.read_misses + 1 /\ d.write_misses = c.write_misses
             /\ d.writebacks = c.writebacks
  <2>1. PICK n \in Nat : n = c.read_misses + 1
    BY <1>1
  <2>2. d = [c EXCEPT !.read_misses = n]
    BY <1>3, <2>1 DEF CountedMiss
  <2>3. QED BY <2>1, <2>2 DEF Cache, Caches, SameShape, SameTraffic
<1>4. QED BY <1>1, <1>2, <1>3 DEF Missed

LEMMA PlaceOf ==
    ASSUME NEW c, Cache(c), NEW addr \in Nat
    PROVE  /\ Tag(c, addr) \in Nat /\ Idx(c, addr) \in 0 .. c.sets - 1
           /\ Idx(c, addr) = Tag(c, addr) % c.sets
<1>1. Tag(c, addr) \in Nat
  BY CacheFields, TagIsNat DEF Tag
<1>2. QED BY <1>1, CacheFields, TagIsNat DEF Idx

LEMMA SamePlace ==
    ASSUME NEW c, NEW d, SameShape(d, c), NEW addr
    PROVE  Tag(d, addr) = Tag(c, addr) /\ Idx(d, addr) = Idx(c, addr)
BY DEF SameShape, Tag, Idx

LEMMA Found ==
    ASSUME NEW c, NEW addr
    PROVE  /\ check_tag(c, addr) \subseteq 1 .. c.ways
           /\ \A w \in 1 .. c.ways :
                w \in check_tag(c, addr) <=>
                  c.tags[Idx(c, addr)][w].valid /\ c.tags[Idx(c, addr)][w].tag = Tag(c, addr)
BY DEF check_tag

\* Line by line: the line of addr is dirty, or in a way of its own.
Marked(d, c, addr) ==
  \A idx \in 0 .. c.sets - 1, w \in 1 .. c.ways :
    d.tags[idx][w] = IF idx = Idx(c, addr) /\ w \in check_tag(c, addr)
                     THEN [c.tags[idx][w] EXCEPT !.dirty = TRUE] ELSE c.tags[idx][w]
BroughtIn(d, c, addr, way, dirty) ==
  \A idx \in 0 .. c.sets - 1, w \in 1 .. c.ways :
    d.tags[idx][w] = IF idx = Idx(c, addr) /\ w = way
                     THEN [tag |-> Tag(c, addr), valid |-> TRUE, dirty |-> dirty]
                     ELSE c.tags[idx][w]

LEMMA MarkedFacts ==
    ASSUME NEW c, Cache(c), NEW addr \in Nat, NEW d, d = MarkDirty(c, addr)
    PROVE  /\ Cache(d) /\ SameShape(d, c) /\ SameTraffic(d, c)
           /\ Missed(d) = Missed(c) /\ d.writebacks = c.writebacks
           /\ Marked(d, c, addr)
<1> DEFINE I == Idx(c, addr)
           H == check_tag(c, addr)
           row == [w \in 1 .. c.ways |-> IF w \in H THEN [c.tags[I][w] EXCEPT !.dirty = TRUE]
                                                    ELSE c.tags[I][w]]
<1>1. c.tags \in [0 .. c.sets - 1 -> [1 .. c.ways -> Lines]] /\ I \in 0 .. c.sets - 1
  BY CacheFields, PlaceOf
<1>2. d = [c EXCEPT !.tags[I] = row]
  BY <1>1 DEF MarkDirty
<1>3. row \in [1 .. c.ways -> Lines]
  <2>1. ASSUME NEW w \in 1 .. c.ways
        PROVE  [c.tags[I][w] EXCEPT !.dirty = TRUE] \in Lines /\ c.tags[I][w] \in Lines
    <3>1. PICK l \in Lines : l = c.tags[I][w]
      BY <1>1
    <3>2. QED BY <3>1 DEF Lines
  <2>2. QED BY <2>1
<1> HIDE DEF I, H
<1>4. \A w \in 1 .. c.ways : row[w] = IF w \in H THEN [c.tags[I][w] EXCEPT !.dirty = TRUE]
                                                 ELSE c.tags[I][w]
  OBVIOUS
<1> HIDE DEF row
<1>5. d.tags = [c.tags EXCEPT ![I] = row]
  BY <1>2 DEF Cache, Caches
<1>6. d.tags \in [0 .. c.sets - 1 -> [1 .. c.ways -> Lines]]
  BY <1>1, <1>3, <1>5
<1>7. /\ Cache(d) /\ SameShape(d, c) /\ SameTraffic(d, c)
      /\ Missed(d) = Missed(c) /\ d.writebacks = c.writebacks
  BY <1>2, <1>5, <1>6 DEF Cache, Caches, SameShape, SameTraffic, Missed
<1>8. \A idx \in 0 .. c.sets - 1 : d.tags[idx] = IF idx = I THEN row ELSE c.tags[idx]
  BY <1>1, <1>5
<1>9. \A idx \in 0 .. c.sets - 1, w \in 1 .. c.ways :
        d.tags[idx][w] = IF idx = I /\ w \in H
                         THEN [c.tags[idx][w] EXCEPT !.dirty = TRUE] ELSE c.tags[idx][w]
  BY <1>4, <1>8
<1>10. QED BY <1>7, <1>9 DEF I, H, Marked

LEMMA ReplacedFacts ==
    ASSUME NEW c, Cache(c), NEW addr \in Nat, NEW way \in 1 .. c.ways,
           NEW d, d = Replaced(c, addr, way)
    PROVE  /\ Cache(d) /\ SameShape(d, c) /\ SameTraffic(d, c)
           /\ Missed(d) = Missed(c) /\ d.writebacks = c.writebacks
           /\ BroughtIn(d, c, addr, way, FALSE)
<1> DEFINE I == Idx(c, addr)
           line == [tag |-> Tag(c, addr), valid |-> TRUE, dirty |-> FALSE]
<1>1. /\ c.tags \in [0 .. c.sets - 1 -> [1 .. c.ways -> Lines]] /\ I \in 0 .. c.sets - 1
      /\ Tag(c, addr) \in Nat
  BY CacheFields, PlaceOf
<1>2. line \in Lines
  BY <1>1 DEF Lines
<1>3. d = [c EXCEPT !.tags[I][way] = line]
  BY DEF Replaced
<1> HIDE DEF I, line
<1>4. d.tags = [c.tags EXCEPT ![I][way] = line]
  BY <1>3 DEF Cache, Caches
<1>5. PICK S, W : S = 0 .. c.sets - 1 /\ W = 1 .. c.ways
  OBVIOUS
<1>6. c.tags \in [S -> [W -> Lines]] /\ I \in S /\ way \in W
  BY <1>1, <1>5
<1>7. d.tags \in [S -> [W -> Lines]]
  BY <1>2, <1>4, <1>6
<1>8. /\ Cache(d) /\ SameShape(d, c) /\ SameTraffic(d, c)
      /\ Missed(d) = Missed(c) /\ d.writebacks = c.writebacks
  BY <1>3, <1>4, <1>5, <1>7 DEF Cache, Caches, SameShape, SameTraffic, Missed
<1>9. \A idx \in S, w \in W :
        d.tags[idx][w] = IF idx = I /\ w = way THEN line ELSE c.tags[idx][w]
  BY <1>4, <1>6
<1>10. QED BY <1>5, <1>8, <1>9 DEF I, line, BroughtIn

-----------------------------------------------------------------------------
(* An access as a whole.                                                   *)

\* A dirty victim is written back.
Writes(l) == l.valid /\ l.dirty

LEMMA DirtyLine ==
    \A l \in Lines : /\ [l EXCEPT !.dirty = TRUE] = [tag |-> l.tag, valid |-> l.valid, dirty |-> TRUE]
                     /\ [l EXCEPT !.dirty = TRUE] \in Lines
<1>1. SUFFICES ASSUME NEW l \in Lines, NEW m, m = [l EXCEPT !.dirty = TRUE]
               PROVE  m = [tag |-> l.tag, valid |-> l.valid, dirty |-> TRUE] /\ m \in Lines
  OBVIOUS
<1>2. m \in Lines /\ m.tag = l.tag /\ m.valid = l.valid /\ m.dirty = TRUE
  BY <1>1 DEF Lines
<1>3. m = [tag |-> m.tag, valid |-> m.valid, dirty |-> m.dirty]
  BY <1>2 DEF Lines
<1>4. QED BY <1>2, <1>3

LEMMA AccessHit ==
    ASSUME NEW c, Cache(c), NEW addr \in Nat, NEW bytes \in Nat, NEW store \in BOOLEAN, NEW way,
           check_tag(c, addr) # {}, NEW r, r = Access(c, Acc(addr, bytes, store), way)
    PROVE  /\ r.down = << >> /\ Cache(r.cache) /\ SameShape(r.cache, c)
           /\ Charged(r.cache, c, bytes, store)
           /\ Missed(r.cache) = Missed(c) /\ r.cache.writebacks = c.writebacks
           /\ IF store THEN Marked(r.cache, c, addr) ELSE r.cache.tags = c.tags
<1>1. PICK d : d = Counted(c, bytes, store)
  OBVIOUS
<1>2. /\ Cache(d) /\ SameShape(d, c) /\ d.tags = c.tags
      /\ Charged(d, c, bytes, store) /\ Missed(d) = Missed(c) /\ d.writebacks = c.writebacks
  BY <1>1, CountedFacts
<1>3. Idx(d, addr) = Idx(c, addr) /\ check_tag(d, addr) = check_tag(c, addr)
  BY <1>2, SamePlace DEF check_tag, SameShape
<1>4. r.down = << >> /\ r.cache = IF store THEN MarkDirty(d, addr) ELSE d
  BY <1>1 DEF Access, Written, Acc
<1>5. CASE store
  <2>1. r.cache = MarkDirty(d, addr)
    BY <1>4, <1>5
  <2>2. /\ Cache(r.cache) /\ SameShape(r.cache, d) /\ SameTraffic(r.cache, d)
        /\ Missed(r.cache) = Missed(d) /\ r.cache.writebacks = d.writebacks
        /\ Marked(r.cache, d, addr)
    BY <1>2, <2>1, MarkedFacts
  <2>3. Marked(r.cache, c, addr)
    BY <1>2, <1>3, <2>2 DEF Marked, SameShape
  <2>4. Charged(r.cache, c, bytes, store) /\ SameShape(r.cache, c)
    BY <1>2, <2>2 DEF SameTraffic, Charged, SameShape
  <2>5. QED BY <1>2, <1>4, <1>5, <2>2, <2>3, <2>4
<1>6. CASE ~store
  BY <1>2, <1>4, <1>6
<1>7. QED BY <1>5, <1>6

LEMMA AccessMiss ==
    ASSUME NEW c, Cache(c), Indexed(c),
           NEW addr \in Nat, NEW bytes \in Nat, NEW store \in BOOLEAN, NEW way \in 1 .. c.ways,
           check_tag(c, addr) = {},
           NEW r, r = Access(c, Acc(addr, bytes, store), way),
           NEW victim, victim = c.tags[Idx(c, addr)][way]
    PROVE  /\ r.down = SentDown(c, Acc(addr, bytes, store), victim)
           /\ Cache(r.cache) /\ SameShape(r.cache, c) /\ Charged(r.cache, c, bytes, store)
           /\ Missed(r.cache) = Missed(c) + 1
           /\ r.cache.writebacks = c.writebacks + (IF Writes(victim) THEN 1 ELSE 0)
           /\ BroughtIn(r.cache, c, addr, way, store)
<1>1. PICK d : d = Counted(c, bytes, store)
  OBVIOUS
<1>2. /\ Cache(d) /\ SameShape(d, c) /\ d.tags = c.tags
      /\ Charged(d, c, bytes, store) /\ Missed(d) = Missed(c) /\ d.writebacks = c.writebacks
  BY <1>1, CountedFacts
<1>3. PICK e : e = CountedMiss(d, store)
  OBVIOUS
<1>4. /\ Cache(e) /\ SameShape(e, d) /\ e.tags = d.tags
      /\ SameTraffic(e, d) /\ Missed(e) = Missed(d) + 1 /\ e.writebacks = d.writebacks
  BY <1>2, <1>3, CountedMissFacts
<1>5. SameShape(e, c) /\ e.tags = c.tags
  BY <1>2, <1>4 DEF SameShape
<1>6. PICK f : f = Replaced(e, addr, way)
  OBVIOUS
<1>7. way \in 1 .. e.ways
  BY <1>5 DEF SameShape
<1>8. /\ Cache(f) /\ SameShape(f, e) /\ SameTraffic(f, e)
      /\ Missed(f) = Missed(e) /\ f.writebacks = e.writebacks
      /\ BroughtIn(f, e, addr, way, FALSE)
  <2>1. Cache(e) /\ addr \in Nat /\ way \in 1 .. e.ways /\ f = Replaced(e, addr, way)
    BY <1>4, <1>6, <1>7
  <2>2. QED BY <2>1, ReplacedFacts
<1>9. PICK n \in Nat : n = f.writebacks + (IF Writes(victim) THEN 1 ELSE 0)
  <2>1. f.writebacks \in Nat
    BY <1>8, CacheFields
  <2>2. QED BY <2>1
<1>10. PICK g : g = IF Writes(victim) THEN [f EXCEPT !.writebacks = @ + 1] ELSE f
  OBVIOUS
<1>11. /\ Cache(g) /\ SameShape(g, f) /\ SameTraffic(g, f) /\ g.tags = f.tags /\ g.writebacks = n
       /\ Missed(g) = Missed(f)
  <2>1. CASE Writes(victim)
    <3>1. g = [f EXCEPT !.writebacks = n]
      BY <1>9, <1>10, <2>1
    <3>2. QED BY <1>8, <3>1 DEF Cache, Caches, SameShape, SameTraffic, Missed
  <2>2. CASE ~Writes(victim)
    <3>1. f.writebacks \in Nat
      BY <1>8, CacheFields
    <3>2. g = f /\ n = f.writebacks
      BY <1>9, <1>10, <2>2, <3>1
    <3>3. QED BY <1>8, <3>2 DEF SameShape, SameTraffic
  <2>3. QED BY <2>1, <2>2
<1>12. /\ r.down = SentDown(c, Acc(addr, bytes, store), victim)
       /\ r.cache = IF store THEN MarkDirty(g, addr) ELSE g
  BY <1>1, <1>3, <1>6, <1>10 DEF Access, Written, Acc, Writes
<1>13. SameShape(g, c) /\ Idx(e, addr) = Idx(c, addr) /\ Tag(e, addr) = Tag(c, addr)
       /\ Idx(g, addr) = Idx(c, addr) /\ Tag(g, addr) = Tag(c, addr)
  <2>1. SameShape(g, c)
    BY <1>5, <1>8, <1>11 DEF SameShape
  <2>2. QED BY <1>5, <2>1, SamePlace
<1>14. BroughtIn(g, c, addr, way, FALSE)
  <2>1. e.sets = c.sets /\ e.ways = c.ways
    BY <1>5 DEF SameShape
  <2>2. SUFFICES ASSUME NEW idx \in 0 .. c.sets - 1, NEW w \in 1 .. c.ways
                 PROVE  g.tags[idx][w] = IF idx = Idx(c, addr) /\ w = way
                                         THEN [tag |-> Tag(c, addr), valid |-> TRUE, dirty |-> FALSE]
                                         ELSE c.tags[idx][w]
    BY DEF BroughtIn
  <2>3. f.tags[idx][w] = IF idx = Idx(e, addr) /\ w = way
                         THEN [tag |-> Tag(e, addr), valid |-> TRUE, dirty |-> FALSE]
                         ELSE e.tags[idx][w]
    BY <1>8, <2>1 DEF BroughtIn
  <2>4. QED BY <1>5, <1>11, <1>13, <2>3
<1>15. check_tag(g, addr) = {way}
  <2>1. Idx(c, addr) \in 0 .. c.sets - 1 /\ g.ways = c.ways
    BY <1>13, PlaceOf DEF SameShape
  <2>2. \A w \in 1 .. c.ways : ~(/\ c.tags[Idx(c, addr)][w].valid
                                 /\ c.tags[Idx(c, addr)][w].tag = Tag(c, addr))
    BY Found
  <2>3. \A w \in 1 .. c.ways :
          w \in check_tag(g, addr) <=>
            g.tags[Idx(c, addr)][w].valid /\ g.tags[Idx(c, addr)][w].tag = Tag(c, addr)
    BY <1>13, <2>1, Found
  <2>4. \A w \in 1 .. c.ways : w \in check_tag(g, addr) <=> w = way
    BY <1>14, <2>1, <2>2, <2>3 DEF BroughtIn
  <2>5. check_tag(g, addr) \subseteq 1 .. c.ways
    BY <2>1, Found
  <2>6. QED BY <2>4, <2>5
<1>16. /\ Cache(r.cache) /\ SameShape(r.cache, c) /\ SameTraffic(r.cache, g)
       /\ Missed(r.cache) = Missed(g) /\ r.cache.writebacks = g.writebacks
       /\ BroughtIn(r.cache, c, addr, way, store)
  <2>1. CASE store
    <3>1. r.cache = MarkDirty(g, addr)
      BY <1>12, <2>1
    <3>2. /\ Cache(r.cache) /\ SameShape(r.cache, g) /\ SameTraffic(r.cache, g)
          /\ Missed(r.cache) = Missed(g) /\ r.cache.writebacks = g.writebacks
          /\ Marked(r.cache, g, addr)
      BY <1>11, <3>1, MarkedFacts
    <3>3. SameShape(r.cache, c)
      BY <1>13, <3>2 DEF SameShape
    <3>4. SUFFICES ASSUME NEW idx \in 0 .. c.sets - 1, NEW w \in 1 .. c.ways
                   PROVE  r.cache.tags[idx][w] =
                            IF idx = Idx(c, addr) /\ w = way
                            THEN [tag |-> Tag(c, addr), valid |-> TRUE, dirty |-> store]
                            ELSE c.tags[idx][w]
      BY <3>2, <3>3 DEF BroughtIn
    <3>5. r.cache.tags[idx][w] = IF idx = Idx(c, addr) /\ w = way
                                 THEN [g.tags[idx][w] EXCEPT !.dirty = TRUE] ELSE g.tags[idx][w]
      BY <1>13, <1>15, <3>2 DEF SameShape, Marked
    <3>6. CASE idx = Idx(c, addr) /\ w = way
      <4>1. g.tags[idx][w] = [tag |-> Tag(c, addr), valid |-> TRUE, dirty |-> FALSE]
        BY <1>14, <3>6 DEF BroughtIn
      <4>2. g.tags[idx][w] \in Lines
        <5>1. Cache(g) /\ idx \in 0 .. g.sets - 1 /\ w \in 1 .. g.ways
          BY <1>11, <1>13, <3>4 DEF SameShape
        <5>2. g.tags \in [0 .. g.sets - 1 -> [1 .. g.ways -> Lines]]
          BY <5>1, CacheFields
        <5>3. QED BY <5>1, <5>2
      <4>3. store = TRUE
        BY <2>1
      <4>4. [g.tags[idx][w] EXCEPT !.dirty = TRUE] = [tag |-> Tag(c, addr), valid |-> TRUE, dirty |-> TRUE]
        <5>1. PICK l \in Lines : l = g.tags[idx][w]
          BY <4>2
        <5>2. l.tag = Tag(c, addr) /\ l.valid = TRUE
          BY <4>1, <5>1
        <5>3. [l EXCEPT !.dirty = TRUE] = [tag |-> l.tag, valid |-> l.valid, dirty |-> TRUE]
          BY DirtyLine
        <5>4. QED BY <5>1, <5>2, <5>3
      <4>5. QED BY <3>5, <3>6, <4>3, <4>4
    <3>7. CASE ~(idx = Idx(c, addr) /\ w = way)
      BY <1>14, <3>5, <3>7 DEF BroughtIn
    <3>8. QED BY <3>6, <3>7
  <2>2. CASE ~store
    <3>1. r.cache = g /\ store = FALSE
      BY <1>12, <2>2
    <3>2. SameTraffic(g, g)
      BY DEF SameTraffic
    <3>3. QED BY <1>11, <1>13, <1>14, <3>1, <3>2
  <2>3. QED BY <2>1, <2>2
<1>17. Charged(r.cache, c, bytes, store)
  BY <1>2, <1>4, <1>8, <1>11, <1>16 DEF Charged, SameTraffic
<1>18. Missed(r.cache) = Missed(c) + 1
  BY <1>2, <1>4, <1>8, <1>11, <1>16
<1>19. r.cache.writebacks = c.writebacks + (IF Writes(victim) THEN 1 ELSE 0)
  BY <1>2, <1>4, <1>8, <1>9, <1>11, <1>16
<1>20. QED BY <1>12, <1>16, <1>17, <1>18, <1>19

-----------------------------------------------------------------------------
(* What an access does to the lines that are dirty.                        *)

Rows(c) == 0 .. c.sets - 1
Places(c) == 1 .. c.ways

LEMMA DirtyIs ==
    ASSUME NEW c, NEW u
    PROVE  Dirty(c, u) <=> \E w \in Places(c) : /\ c.tags[Idx(c, u)][w].valid
                                                /\ c.tags[Idx(c, u)][w].tag = Tag(c, u)
                                                /\ c.tags[Idx(c, u)][w].dirty
BY DEF Dirty, check_tag, Places

LEMMA LineTypes ==
    ASSUME NEW c, Cache(c), NEW idx \in Rows(c), NEW w \in Places(c)
    PROVE  /\ c.tags[idx][w] \in Lines /\ c.tags[idx][w].tag \in Nat
           /\ c.tags[idx][w].valid \in BOOLEAN /\ c.tags[idx][w].dirty \in BOOLEAN
<1>1. c.tags \in [Rows(c) -> [Places(c) -> Lines]]
  BY CacheFields DEF Rows, Places
<1>2. c.tags[idx][w] \in Lines
  BY <1>1
<1>3. QED BY <1>2 DEF Lines

LEMMA MarkedLines ==
    ASSUME NEW c, Cache(c), NEW d, NEW addr \in Nat, Marked(d, c, addr),
           NEW idx \in Rows(c), NEW w \in Places(c)
    PROVE  /\ d.tags[idx][w].tag = c.tags[idx][w].tag /\ d.tags[idx][w].valid = c.tags[idx][w].valid
           /\ c.tags[idx][w].dirty => d.tags[idx][w].dirty
           /\ idx = Idx(c, addr) /\ w \in check_tag(c, addr) => d.tags[idx][w].dirty
<1>1. PICK l \in Lines : l = c.tags[idx][w]
  BY LineTypes
<1>2. d.tags[idx][w] = IF idx = Idx(c, addr) /\ w \in check_tag(c, addr)
                       THEN [l EXCEPT !.dirty = TRUE] ELSE l
  BY <1>1 DEF Marked, Rows, Places
<1>3. [l EXCEPT !.dirty = TRUE] = [tag |-> l.tag, valid |-> l.valid, dirty |-> TRUE]
  BY DirtyLine
<1>4. CASE idx = Idx(c, addr) /\ w \in check_tag(c, addr)
  <2>1. d.tags[idx][w] = [tag |-> l.tag, valid |-> l.valid, dirty |-> TRUE]
    BY <1>2, <1>3, <1>4
  <2>2. QED BY <1>1, <2>1
<1>5. CASE ~(idx = Idx(c, addr) /\ w \in check_tag(c, addr))
  BY <1>1, <1>2, <1>5
<1>6. QED BY <1>4, <1>5

LEMMA MarkedKeeps ==
    ASSUME NEW c, Cache(c), Indexed(c), NEW d, SameShape(d, c), NEW addr \in Nat, Marked(d, c, addr),
           check_tag(c, addr) # {}
    PROVE  /\ Indexed(d) /\ \A u \in Nat : Dirty(c, u) => Dirty(d, u)
           /\ \A u \in Nat : Tag(c, u) = Tag(c, addr) => Dirty(d, u)
<1>1. Rows(d) = Rows(c) /\ Places(d) = Places(c) /\ d.sets = c.sets
  BY DEF SameShape, Rows, Places
<1>2. Indexed(d)
  <2>1. \A idx \in Rows(c), w \in Places(c) :
          d.tags[idx][w].tag = c.tags[idx][w].tag /\ d.tags[idx][w].valid = c.tags[idx][w].valid
    BY MarkedLines
  <2>2. SUFFICES ASSUME NEW idx \in Rows(c), NEW v \in Places(c), NEW w \in Places(c)
                 PROVE  /\ d.tags[idx][v].valid => d.tags[idx][v].tag % c.sets = idx
                        /\ /\ d.tags[idx][v].valid /\ d.tags[idx][w].valid
                           /\ d.tags[idx][v].tag = d.tags[idx][w].tag
                           => v = w
    BY <1>1 DEF Indexed, Rows, Places
  <2>3. /\ c.tags[idx][v].valid => c.tags[idx][v].tag % c.sets = idx
        /\ /\ c.tags[idx][v].valid /\ c.tags[idx][w].valid
           /\ c.tags[idx][v].tag = c.tags[idx][w].tag
           => v = w
    BY DEF Indexed, Rows, Places
  <2>4. QED BY <2>1, <2>3
<1>3. ASSUME NEW u \in Nat, Dirty(c, u) PROVE Dirty(d, u)
  <2>1. Idx(c, u) \in Rows(c) /\ Idx(d, u) = Idx(c, u) /\ Tag(d, u) = Tag(c, u)
    BY PlaceOf, SamePlace DEF Rows
  <2>2. PICK w \in Places(c) : /\ c.tags[Idx(c, u)][w].valid
                               /\ c.tags[Idx(c, u)][w].tag = Tag(c, u)
                               /\ c.tags[Idx(c, u)][w].dirty
    BY <1>3, DirtyIs
  <2>3. /\ d.tags[Idx(c, u)][w].valid /\ d.tags[Idx(c, u)][w].tag = Tag(c, u)
        /\ d.tags[Idx(c, u)][w].dirty
    BY <2>1, <2>2, MarkedLines
  <2>4. QED BY <1>1, <2>1, <2>3, DirtyIs
<1>4. ASSUME NEW u \in Nat, Tag(c, u) = Tag(c, addr) PROVE Dirty(d, u)
  <2>1. Idx(c, u) \in Rows(c) /\ Idx(d, u) = Idx(c, u) /\ Tag(d, u) = Tag(c, u)
        /\ Idx(c, u) = Idx(c, addr)
    BY <1>4, PlaceOf, SamePlace DEF Rows
  <2>2. PICK w \in Places(c) : w \in check_tag(c, addr)
    BY Found DEF Places
  <2>3. c.tags[Idx(c, addr)][w].valid /\ c.tags[Idx(c, addr)][w].tag = Tag(c, addr)
    BY <2>2, Found DEF Places
  <2>4. /\ d.tags[Idx(c, u)][w].valid /\ d.tags[Idx(c, u)][w].tag = Tag(c, u)
        /\ d.tags[Idx(c, u)][w].dirty
    BY <1>4, <2>1, <2>2, <2>3, MarkedLines
  <2>5. QED BY <1>1, <2>1, <2>4, DirtyIs
<1>5. QED BY <1>2, <1>3, <1>4

LEMMA BroughtInKeeps ==
    ASSUME NEW c, Cache(c), Indexed(c), NEW d, SameShape(d, c), NEW addr \in Nat,
           NEW way \in Places(c), NEW dirty \in BOOLEAN, BroughtIn(d, c, addr, way, dirty),
           check_tag(c, addr) = {}, NEW victim, victim = c.tags[Idx(c, addr)][way]
    PROVE  /\ Indexed(d)
           /\ \A u \in Nat : Dirty(c, u) =>
                Dirty(d, u) \/ (Writes(victim) /\ Tag(c, u) = victim.tag)
           /\ dirty => \A u \in Nat : Tag(c, u) = Tag(c, addr) => Dirty(d, u)
           /\ ~dirty /\ Clean(c) => Clean(d)
<1>1. Rows(d) = Rows(c) /\ Places(d) = Places(c) /\ d.sets = c.sets
  BY DEF SameShape, Rows, Places
<1>2. Idx(c, addr) \in Rows(c) /\ Tag(c, addr) \in Nat /\ Idx(c, addr) = Tag(c, addr) % c.sets
  BY PlaceOf DEF Rows
<1>3. \A idx \in Rows(c), w \in Places(c) :
        IF idx = Idx(c, addr) /\ w = way
        THEN /\ d.tags[idx][w].tag = Tag(c, addr) /\ d.tags[idx][w].valid
             /\ d.tags[idx][w].dirty = dirty
        ELSE d.tags[idx][w] = c.tags[idx][w]
  BY DEF BroughtIn, Rows, Places
<1>4. \A w \in Places(c) : ~(/\ c.tags[Idx(c, addr)][w].valid
                             /\ c.tags[Idx(c, addr)][w].tag = Tag(c, addr))
  BY Found DEF Places
<1>5. Indexed(d)
  <2>1. SUFFICES ASSUME NEW idx \in Rows(c), NEW v \in Places(c), NEW w \in Places(c)
                 PROVE  /\ d.tags[idx][v].valid => d.tags[idx][v].tag % c.sets = idx
                        /\ /\ d.tags[idx][v].valid /\ d.tags[idx][w].valid
                           /\ d.tags[idx][v].tag = d.tags[idx][w].tag
                           => v = w
    BY <1>1 DEF Indexed, Rows, Places
  <2>2. /\ c.tags[idx][v].valid => c.tags[idx][v].tag % c.sets = idx
        /\ /\ c.tags[idx][v].valid /\ c.tags[idx][w].valid
           /\ c.tags[idx][v].tag = c.tags[idx][w].tag
           => v = w
    BY DEF Indexed, Rows, Places
  <2>3. d.tags[idx][v].valid => d.tags[idx][v].tag % c.sets = idx
    <3>1. CASE idx = Idx(c, addr) /\ v = way
      BY <1>2, <1>3, <3>1
    <3>2. CASE ~(idx = Idx(c, addr) /\ v = way)
      BY <1>3, <2>2, <3>2
    <3>3. QED BY <3>1, <3>2
  <2>4. /\ d.tags[idx][v].valid /\ d.tags[idx][w].valid
        /\ d.tags[idx][v].tag = d.tags[idx][w].tag
        => v = w
    BY <1>3, <1>4, <2>2
  <2>5. QED BY <2>3, <2>4
<1>6. ASSUME NEW u \in Nat, Dirty(c, u), ~(Writes(victim) /\ Tag(c, u) = victim.tag) PROVE Dirty(d, u)
  <2>1. Idx(c, u) \in Rows(c) /\ Idx(d, u) = Idx(c, u) /\ Tag(d, u) = Tag(c, u)
    BY PlaceOf, SamePlace DEF Rows
  <2>2. PICK w \in Places(c) : /\ c.tags[Idx(c, u)][w].valid
                               /\ c.tags[Idx(c, u)][w].tag = Tag(c, u)
                               /\ c.tags[Idx(c, u)][w].dirty
    BY <1>6, DirtyIs
  <2>3. ~(Idx(c, u) = Idx(c, addr) /\ w = way)
    BY <1>6, <2>2 DEF Writes
  <2>4. d.tags[Idx(c, u)][w] = c.tags[Idx(c, u)][w]
    BY <1>3, <2>1, <2>3
  <2>5. QED BY <1>1, <2>1, <2>2, <2>4, DirtyIs
<1>7. ASSUME dirty, NEW u \in Nat, Tag(c, u) = Tag(c, addr) PROVE Dirty(d, u)
  <2>1. Idx(c, u) \in Rows(c) /\ Idx(d, u) = Idx(c, u) /\ Tag(d, u) = Tag(c, u)
        /\ Idx(c, u) = Idx(c, addr)
    BY <1>7, PlaceOf, SamePlace DEF Rows
  <2>2. QED BY <1>1, <1>3, <1>7, <2>1, DirtyIs
<1>8. ASSUME ~dirty, Clean(c) PROVE Clean(d)
  <2>1. ASSUME NEW idx \in Rows(c), NEW w \in Places(c) PROVE ~d.tags[idx][w].dirty
    BY <1>1, <1>3, <1>8, <2>1 DEF Clean, Rows, Places
  <2>2. Rows(d) = Rows(c) /\ Places(d) = Places(c)
    BY <1>1 DEF Rows, Places, SameShape
  <2>3. QED BY <2>1, <2>2 DEF Clean, Rows, Places
<1>9. QED BY <1>5, <1>6, <1>7, <1>8

-----------------------------------------------------------------------------
(* What an access sends down, and what becomes of stores.                  *)

\* The three ways an access of c for addr can end: a hit, a miss, and a miss
\* that writes back the line with tag t.
FetchOf(c, addr) == Acc(Tag(c, addr) * c.linesz, c.linesz, FALSE)
WriteOf(c, t)    == Acc(t * c.linesz, c.linesz, TRUE)

Kept(c, d) == \A u \in Nat : Dirty(c, u) => Dirty(d, u)
KeptBut(c, d, t) == \A u \in Nat : Dirty(c, u) => Dirty(d, u) \/ Tag(c, u) = t

Hit(c, r)        == r.down = << >> /\ Missed(r.cache) = Missed(c)
                    /\ r.cache.writebacks = c.writebacks /\ Kept(c, r.cache)
Miss(c, addr, r) == r.down = <<FetchOf(c, addr)>> /\ Missed(r.cache) = Missed(c) + 1
                    /\ r.cache.writebacks = c.writebacks /\ Kept(c, r.cache)
Evicts(c, addr, r, t) ==
  /\ r.down = <<WriteOf(c, t), FetchOf(c, addr)>> /\ Missed(r.cache) = Missed(c) + 1
  /\ r.cache.writebacks = c.writebacks + 1 /\ KeptBut(c, r.cache, t) /\ ~Clean(c)

LEMMA Joined ==
    ASSUME NEW x, NEW y PROVE <<x>> \o <<y>> = <<x, y>> /\ << >> \o <<y>> = <<y>>
<1>1. << >> \in Seq({x, y}) /\ <<x>> \in Seq({x, y}) /\ <<y>> \in Seq({x, y}) /\ <<x, y>> \in Seq({x, y})
  OBVIOUS
<1>2. <<x>> \o <<y>> \in Seq({x, y}) /\ Len(<<x>> \o <<y>>) = 2
      /\ (<<x>> \o <<y>>)[1] = x /\ (<<x>> \o <<y>>)[2] = y
  BY <1>1
<1>3. << >> \o <<y>> \in Seq({x, y}) /\ Len(<< >> \o <<y>>) = 1 /\ (<< >> \o <<y>>)[1] = y
  BY <1>1
<1>4. <<x>> \o <<y>> = <<x, y>>
  <2>1. PICK p, q : p = <<x>> \o <<y>> /\ q = <<x, y>>
    OBVIOUS
  <2>2. p \in Seq({x, y}) /\ q \in Seq({x, y}) /\ Len(p) = 2 /\ Len(q) = 2
    BY <1>1, <1>2, <2>1
  <2>3. \A i \in 1 .. Len(p) : p[i] = q[i]
    <3>1. p[1] = x /\ p[2] = y /\ q[1] = x /\ q[2] = y
      BY <1>2, <2>1
    <3>2. \A i \in 1 .. Len(p) : i = 1 \/ i = 2
      BY <2>2
    <3>3. QED BY <3>1, <3>2
  <2>4. p = q
    BY <2>2, <2>3, SeqEqual
  <2>5. QED BY <2>1, <2>4
<1>5. << >> \o <<y>> = <<y>>
  BY <1>1, <1>3, SeqEqual
<1>6. QED BY <1>4, <1>5

LEMMA DownIs ==
    ASSUME NEW c, NEW addr, NEW bytes, NEW store, NEW victim
    PROVE  SentDown(c, Acc(addr, bytes, store), victim) =
             IF victim.valid /\ victim.dirty THEN <<WriteOf(c, victim.tag), FetchOf(c, addr)>>
                                             ELSE <<FetchOf(c, addr)>>
<1>1. Acc(addr, bytes, store).addr = addr
  BY DEF Acc
<1>2. CASE victim.valid /\ victim.dirty
  BY <1>1, <1>2, Joined DEF SentDown, WriteOf, FetchOf
<1>3. CASE ~(victim.valid /\ victim.dirty)
  BY <1>1, <1>3, Joined DEF SentDown, FetchOf
<1>4. QED BY <1>2, <1>3

LEMMA WaysAreWays ==
    ASSUME NEW c, Cache(c), NEW addr, NEW way \in WayChoices(c, addr)
    PROVE  way \in Places(c)
<1>1. 1 \in Places(c)
  BY CacheFields DEF Places
<1>2. CASE check_tag(c, addr) # {}
  BY <1>1, <1>2 DEF WayChoices
<1>3. CASE check_tag(c, addr) = {}
  <2>1. PICK E : E = {w \in Places(c) : ~c.tags[Idx(c, addr)][w].valid}
    OBVIOUS
  <2>2. way \in IF c.fa /\ E # {} THEN {Min(E)} ELSE Places(c)
    BY <1>3, <2>1 DEF WayChoices, VictimWays, Places
  <2>3. E \in SUBSET Nat
    BY <2>1 DEF Places
  <2>4. E # {} => Min(E) \in Places(c)
    BY <2>1, <2>3, LeastNat
  <2>5. QED BY <2>2, <2>4
<1>4. QED BY <1>2, <1>3

LEMMA Accessing ==
    ASSUME NEW c, Cache(c), Indexed(c), NEW addr \in Nat, NEW bytes \in Nat, NEW store \in BOOLEAN,
           NEW way \in WayChoices(c, addr), NEW r, r = Access(c, Acc(addr, bytes, store), way)
    PROVE  /\ Cache(r.cache) /\ SameShape(r.cache, c) /\ Indexed(r.cache)
           /\ Charged(r.cache, c, bytes, store)
           /\ Hit(c, r) \/ Miss(c, addr, r) \/ \E t \in Nat : Evicts(c, addr, r, t)
           /\ store => \A u \in Nat : Tag(c, u) = Tag(c, addr) => Dirty(r.cache, u)
           /\ ~store /\ Clean(c) => Clean(r.cache)
<1>1. way \in Places(c)
  BY WaysAreWays
<1>2. CASE check_tag(c, addr) # {}
  <2>1. /\ r.down = << >> /\ Cache(r.cache) /\ SameShape(r.cache, c)
        /\ Charged(r.cache, c, bytes, store)
        /\ Missed(r.cache) = Missed(c) /\ r.cache.writebacks = c.writebacks
        /\ IF store THEN Marked(r.cache, c, addr) ELSE r.cache.tags = c.tags
    BY <1>2, AccessHit
  <2>2. CASE store
    <3>1. /\ Indexed(r.cache) /\ \A u \in Nat : Dirty(c, u) => Dirty(r.cache, u)
          /\ \A u \in Nat : Tag(c, u) = Tag(c, addr) => Dirty(r.cache, u)
      BY <1>2, <2>1, <2>2, MarkedKeeps
    <3>2. QED BY <2>1, <2>2, <3>1 DEF Hit, Kept
  <2>3. CASE ~store
    <3>1. Indexed(r.cache)
      BY <2>1, <2>3 DEF Indexed, SameShape
    <3>2. ASSUME NEW u, Dirty(c, u) PROVE Dirty(r.cache, u)
      <4>1. /\ Idx(r.cache, u) = Idx(c, u) /\ Tag(r.cache, u) = Tag(c, u)
            /\ Places(r.cache) = Places(c) /\ r.cache.tags = c.tags
        BY <2>1, <2>3, SamePlace DEF Places, SameShape
      <4>2. QED BY <3>2, <4>1, DirtyIs
    <3>3. Clean(c) => Clean(r.cache)
      BY <2>1, <2>3 DEF Clean, SameShape
    <3>4. QED BY <2>1, <2>3, <3>1, <3>2, <3>3 DEF Hit, Kept
  <2>4. QED BY <2>2, <2>3
<1>3. CASE check_tag(c, addr) = {}
  <2>1. PICK victim : victim = c.tags[Idx(c, addr)][way]
    OBVIOUS
  <2>2. /\ r.down = SentDown(c, Acc(addr, bytes, store), victim)
        /\ Cache(r.cache) /\ SameShape(r.cache, c) /\ Charged(r.cache, c, bytes, store)
        /\ Missed(r.cache) = Missed(c) + 1
        /\ r.cache.writebacks = c.writebacks + (IF Writes(victim) THEN 1 ELSE 0)
        /\ BroughtIn(r.cache, c, addr, way, store)
    BY <1>1, <1>3, <2>1, AccessMiss DEF Places
  <2>3. /\ Indexed(r.cache)
        /\ \A u \in Nat : Dirty(c, u) =>
             Dirty(r.cache, u) \/ (Writes(victim) /\ Tag(c, u) = victim.tag)
        /\ store => \A u \in Nat : Tag(c, u) = Tag(c, addr) => Dirty(r.cache, u)
        /\ ~store /\ Clean(c) => Clean(r.cache)
    BY <1>1, <1>3, <2>1, <2>2, BroughtInKeeps
  <2>4. Idx(c, addr) \in Rows(c) /\ victim.tag \in Nat
    BY <1>1, <2>1, PlaceOf, LineTypes DEF Rows
  <2>5. c.writebacks \in Nat
    BY CacheFields
  <2>6. CASE Writes(victim)
    <3>1. r.down = <<WriteOf(c, victim.tag), FetchOf(c, addr)>>
      BY <2>2, <2>6, DownIs DEF Writes
    <3>2. ~Clean(c)
      BY <1>1, <2>1, <2>4, <2>6 DEF Clean, Writes, Rows, Places
    <3>3. Evicts(c, addr, r, victim.tag)
      BY <2>2, <2>3, <2>6, <3>1, <3>2 DEF Evicts, KeptBut
    <3>4. QED BY <2>2, <2>3, <2>4, <3>3
  <2>7. CASE ~Writes(victim)
    <3>1. r.down = <<FetchOf(c, addr)>>
      BY <2>2, <2>7, DownIs DEF Writes
    <3>2. Miss(c, addr, r)
      BY <2>2, <2>3, <2>5, <2>7, <3>1 DEF Miss, Kept
    <3>3. QED BY <2>2, <2>3, <3>2
  <2>8. QED BY <2>6, <2>7
<1>4. QED BY <1>2, <1>3

-----------------------------------------------------------------------------
(* The L2 under a first level cache.                                       *)

\* Whatever was dirty in the L2 still is, or has been written to memory.
Safe(l, m, saved) == \A u \in Nat : Dirty(l, u) => Dirty(m, u) \/ u \in saved

Accesses == [addr : Nat, bytes : Nat, store : BOOLEAN]

\* Access a, the i-th sent down, takes what is below from b to n.
Reaches(b, down, i, a, n) ==
  /\ i \in Nat /\ i <= Len(down) /\ down[i] = a
  /\ \E way \in BelowWays(b, down, i) : n = Below(b, down, i, way)
Passed(b, a, n) ==
  /\ Cache(n.l2) /\ SameShape(n.l2, b.l2) /\ Indexed(n.l2)
  /\ Charged(n.l2, b.l2, a.bytes, a.store)
  /\ b.saved \subseteq n.saved /\ Safe(b.l2, n.l2, n.saved)
  /\ a.store => \A u \in Nat : Tag(b.l2, u) = Tag(b.l2, a.addr) => Dirty(n.l2, u)

LEMMA BelowStep ==
    ASSUME NEW b, Cache(b.l2), Indexed(b.l2), NEW down, NEW i, NEW a \in Accesses, NEW n,
           Reaches(b, down, i, a, n)
    PROVE  Passed(b, a, n)
<1> PICK l : l = b.l2
  OBVIOUS
<1> Cache(l) /\ Indexed(l)
  OBVIOUS
<1> i \in Nat /\ i <= Len(down) /\ down[i] = a
  BY DEF Reaches
<1> PICK way \in BelowWays(b, down, i) : n = Below(b, down, i, way)
  BY DEF Reaches
<1>0. PICK addr \in Nat, bytes \in Nat, store \in BOOLEAN :
        /\ addr = a.addr /\ bytes = a.bytes /\ store = a.store
        /\ down[i] = Acc(addr, bytes, store)
  BY DEF Accesses, Acc
<1>1. PICK r : r = Access(l, Acc(addr, bytes, store), way)
  OBVIOUS
<1>2. Len(down) \in Int => ~(i > Len(down))
  OBVIOUS
<1>3. down[i].addr = addr
  BY <1>0
<1>4. ~(i > Len(down))
  OBVIOUS
<1>5. way \in WayChoices(l, addr)
  BY <1>3, <1>4 DEF BelowWays
<1>6. n = [l2 |-> r.cache, saved |-> b.saved \cup EvictedToMemory(r.down)]
  BY <1>0, <1>1, <1>4 DEF Below
<1>7. /\ Cache(r.cache) /\ SameShape(r.cache, l) /\ Indexed(r.cache)
      /\ Charged(r.cache, l, bytes, store)
      /\ Hit(l, r) \/ Miss(l, addr, r) \/ \E t \in Nat : Evicts(l, addr, r, t)
      /\ store => \A u \in Nat : Tag(l, u) = Tag(l, addr) => Dirty(r.cache, u)
  BY <1>1, <1>5, Accessing
<1>8. Safe(l, r.cache, EvictedToMemory(r.down))
  <2>1. CASE Hit(l, r) \/ Miss(l, addr, r)
    BY <2>1 DEF Hit, Miss, Kept, Safe
  <2>2. ASSUME NEW t \in Nat, Evicts(l, addr, r, t) PROVE Safe(l, r.cache, EvictedToMemory(r.down))
    <3>1. SUFFICES ASSUME NEW u \in Nat, Dirty(l, u), Tag(l, u) = t
                   PROVE  u \in EvictedToMemory(r.down)
      BY <2>2 DEF Evicts, KeptBut, Safe
    <3>2. u \div l.linesz = t
      BY <3>1 DEF Tag
    <3>3. u \in Units(t * l.linesz, l.linesz)
      BY <3>2, UnitsOfLine, CacheFields
    <3>4. PICK q : q = r.down
      OBVIOUS
    <3>5. 1 \in DOMAIN q /\ q[1] = WriteOf(l, t)
      BY <2>2, <3>4 DEF Evicts
    <3>6. q[1].store /\ u \in Units(q[1].addr, q[1].bytes)
      BY <3>3, <3>5 DEF WriteOf, Acc
    <3>7. u \in EvictedToMemory(q)
      BY <3>5, <3>6 DEF EvictedToMemory
    <3>8. QED BY <3>4, <3>7
  <2>3. QED BY <1>7, <2>1, <2>2
<1>9. n.l2 = r.cache /\ n.saved = b.saved \cup EvictedToMemory(r.down)
  BY <1>6
<1>10. Safe(l, n.l2, n.saved)
  BY <1>8, <1>9 DEF Safe
<1>11. QED BY <1>0, <1>7, <1>9, <1>10 DEF Passed

\* The state of the L2 after an access of the first level, and what went on to memory.
Through(a, saved) ==
  /\ unsaved' = IF a.store THEN (unsaved \ saved) \cup {a.addr} ELSE unsaved \ saved
  /\ Cache(l2') /\ SameShape(l2', l2) /\ Indexed(l2') /\ Safe(l2, l2', saved)

LEMMA Unfolded ==
    ASSUME NEW a, NEW down, ThroughL2(a, down)
    PROVE  \E b0, b1, b2, w1, w2 :
             /\ b0.l2 = l2 /\ b0.saved = {}
             /\ w1 \in BelowWays(b0, down, 1) /\ b1 = Below(b0, down, 1, w1)
             /\ w2 \in BelowWays(b1, down, 2) /\ b2 = Below(b1, down, 2, w2)
             /\ l2' = b2.l2
             /\ unsaved' = IF a.store THEN (unsaved \ b2.saved) \cup {a.addr}
                                      ELSE unsaved \ b2.saved
<1>1. PICK b0 : b0 = [l2 |-> l2, saved |-> {}]
  OBVIOUS
<1>2. \E w1 \in BelowWays([l2 |-> l2], down, 1) :
      \E b1 \in {Below([l2 |-> l2, saved |-> {}], down, 1, w1)} :
      \E w2 \in BelowWays(b1, down, 2) :
      \E b2 \in {Below(b1, down, 2, w2)} :
        /\ l2' = b2.l2
        /\ unsaved' = IF a.store THEN (unsaved \ b2.saved) \cup {a.addr} ELSE unsaved \ b2.saved
  BY DEF ThroughL2
<1>3. PICK w1 \in BelowWays([l2 |-> l2], down, 1) :
      \E b1 \in {Below([l2 |-> l2, saved |-> {}], down, 1, w1)} :
      \E w2 \in BelowWays(b1, down, 2) :
      \E b2 \in {Below(b1, down, 2, w2)} :
        /\ l2' = b2.l2
        /\ unsaved' = IF a.store THEN (unsaved \ b2.saved) \cup {a.addr} ELSE unsaved \ b2.saved
  BY <1>2
<1>4. PICK b1 \in {Below([l2 |-> l2, saved |-> {}], down, 1, w1)} :
      \E w2 \in BelowWays(b1, down, 2) :
      \E b2 \in {Below(b1, down, 2, w2)} :
        /\ l2' = b2.l2
        /\ unsaved' = IF a.store THEN (unsaved \ b2.saved) \cup {a.addr} ELSE unsaved \ b2.saved
  BY <1>3
<1>5. PICK w2 \in BelowWays(b1, down, 2) :
      \E b2 \in {Below(b1, down, 2, w2)} :
        /\ l2' = b2.l2
        /\ unsaved' = IF a.store THEN (unsaved \ b2.saved) \cup {a.addr} ELSE unsaved \ b2.saved
  BY <1>4
<1>6. PICK b2 \in {Below(b1, down, 2, w2)} :
        /\ l2' = b2.l2
        /\ unsaved' = IF a.store THEN (unsaved \ b2.saved) \cup {a.addr} ELSE unsaved \ b2.saved
  BY <1>5
<1>7. b0.l2 = l2 /\ b0.saved = {} /\ b1 = Below(b0, down, 1, w1) /\ b2 = Below(b1, down, 2, w2)
  BY <1>1, <1>4, <1>6
<1>8. BelowWays(b0, down, 1) = BelowWays([l2 |-> l2], down, 1)
  BY <1>1 DEF BelowWays
<1>9. QED BY <1>3, <1>5, <1>6, <1>7, <1>8

LEMMA NothingDown ==
    ASSUME NEW a, Cache(l2), Indexed(l2), ThroughL2(a, << >>)
    PROVE  Through(a, {}) /\ l2' = l2
<1>1. PICK b0, b1, b2, w1, w2 :
        /\ b0.l2 = l2 /\ b0.saved = {}
        /\ b1 = Below(b0, << >>, 1, w1) /\ b2 = Below(b1, << >>, 2, w2)
        /\ l2' = b2.l2
        /\ unsaved' = IF a.store THEN (unsaved \ b2.saved) \cup {a.addr} ELSE unsaved \ b2.saved
  BY Unfolded
<1>2. 1 > Len(<< >>) /\ 2 > Len(<< >>)
  OBVIOUS
<1>3. b2 = b0
  BY <1>1, <1>2 DEF Below
<1>4. QED BY <1>1, <1>3 DEF Through, SameShape, Safe

LEMMA FetchDown ==
    ASSUME NEW a, Cache(l2), Indexed(l2), NEW addr \in Nat, NEW bytes \in Nat,
           NEW down, down = <<Acc(addr, bytes, FALSE)>>, ThroughL2(a, down)
    PROVE  /\ \E saved : Through(a, saved)
           /\ Charged(l2', l2, bytes, FALSE)
<1>1. PICK b0, b1, b2, w1, w2 :
        /\ b0.l2 = l2 /\ b0.saved = {}
        /\ w1 \in BelowWays(b0, down, 1) /\ b1 = Below(b0, down, 1, w1)
        /\ b2 = Below(b1, down, 2, w2)
        /\ l2' = b2.l2
        /\ unsaved' = IF a.store THEN (unsaved \ b2.saved) \cup {a.addr} ELSE unsaved \ b2.saved
  BY Unfolded
<1>2. 1 \in Nat /\ 1 <= Len(down) /\ 2 > Len(down) /\ down[1] = Acc(addr, bytes, FALSE)
  OBVIOUS
<1>3. b2 = b1
  BY <1>1, <1>2 DEF Below
<1>4. PICK f : f = Acc(addr, bytes, FALSE)
  OBVIOUS
<1>a. f \in Accesses /\ f.bytes = bytes /\ f.store = FALSE
  BY <1>4 DEF Acc, Accesses
<1>5. /\ Cache(b1.l2) /\ SameShape(b1.l2, l2) /\ Indexed(b1.l2) /\ Charged(b1.l2, l2, bytes, FALSE)
      /\ Safe(l2, b1.l2, b1.saved)
  <2>1. Reaches(b0, down, 1, f, b1)
    BY <1>1, <1>2, <1>4 DEF Reaches
  <2>2. Passed(b0, f, b1)
    BY <1>1, <1>a, <2>1, BelowStep
  <2>3. QED BY <1>1, <1>a, <2>2 DEF Passed
<1>6. Through(a, b1.saved)
  BY <1>1, <1>3, <1>5 DEF Through
<1>7. QED BY <1>1, <1>3, <1>5, <1>6

LEMMA WriteAndFetchDown ==
    ASSUME NEW a, Cache(l2), Indexed(l2), NEW victim \in Nat, NEW addr \in Nat, NEW bytes \in Nat,
           NEW down, down = <<Acc(victim, bytes, TRUE), Acc(addr, bytes, FALSE)>>,
           ThroughL2(a, down)
    PROVE  /\ \E saved : /\ Through(a, saved)
                         /\ \A u \in Nat : Tag(l2, u) = Tag(l2, victim)
                                             => Dirty(l2', u) \/ u \in saved
           /\ \E m : Charged(m, l2, bytes, TRUE) /\ Charged(l2', m, bytes, FALSE)
<1>1. PICK b0, b1, b2, w1, w2 :
        /\ b0.l2 = l2 /\ b0.saved = {}
        /\ w1 \in BelowWays(b0, down, 1) /\ b1 = Below(b0, down, 1, w1)
        /\ w2 \in BelowWays(b1, down, 2) /\ b2 = Below(b1, down, 2, w2)
        /\ l2' = b2.l2
        /\ unsaved' = IF a.store THEN (unsaved \ b2.saved) \cup {a.addr} ELSE unsaved \ b2.saved
  BY Unfolded
<1>2. /\ 1 \in Nat /\ 1 <= Len(down) /\ down[1] = Acc(victim, bytes, TRUE)
      /\ 2 \in Nat /\ 2 <= Len(down) /\ down[2] = Acc(addr, bytes, FALSE)
  OBVIOUS
<1>3. PICK v, f : v = Acc(victim, bytes, TRUE) /\ f = Acc(addr, bytes, FALSE)
  OBVIOUS
<1>a. /\ v \in Accesses /\ v.addr = victim /\ v.bytes = bytes /\ v.store = TRUE
      /\ f \in Accesses /\ f.bytes = bytes /\ f.store = FALSE
  BY <1>3 DEF Acc, Accesses
<1>4. /\ Cache(b1.l2) /\ SameShape(b1.l2, l2) /\ Indexed(b1.l2) /\ Charged(b1.l2, l2, bytes, TRUE)
      /\ Safe(l2, b1.l2, b1.saved)
      /\ \A u \in Nat : Tag(l2, u) = Tag(l2, victim) => Dirty(b1.l2, u)
  <2>1. Reaches(b0, down, 1, v, b1)
    BY <1>1, <1>2, <1>3 DEF Reaches
  <2>2. Passed(b0, v, b1)
    BY <1>1, <1>a, <2>1, BelowStep
  <2>3. QED BY <1>1, <1>a, <2>2 DEF Passed
<1>5. /\ Cache(b2.l2) /\ SameShape(b2.l2, b1.l2) /\ Indexed(b2.l2)
      /\ Charged(b2.l2, b1.l2, bytes, FALSE)
      /\ b1.saved \subseteq b2.saved /\ Safe(b1.l2, b2.l2, b2.saved)
  <2>1. Reaches(b1, down, 2, f, b2)
    BY <1>1, <1>2, <1>3 DEF Reaches
  <2>2. Passed(b1, f, b2)
    BY <1>4, <1>a, <2>1, BelowStep
  <2>3. QED BY <1>a, <2>2 DEF Passed
<1>6. SameShape(b2.l2, l2)
  BY <1>4, <1>5 DEF SameShape
<1>7. Safe(l2, b2.l2, b2.saved)
  BY <1>4, <1>5 DEF Safe
<1>8. Through(a, b2.saved)
  BY <1>1, <1>5, <1>6, <1>7 DEF Through
<1>9. \A u \in Nat : Tag(l2, u) = Tag(l2, victim) => Dirty(l2', u) \/ u \in b2.saved
  BY <1>1, <1>4, <1>5 DEF Safe
<1>10. QED BY <1>1, <1>4, <1>5, <1>8, <1>9

-----------------------------------------------------------------------------
(* The inductive invariant: instructions leave no line of their cache      *)
(* dirty, so that all writes to the L2 are write-backs of the data cache.  *)
TypeOK ==
  /\ Cache(ic) /\ Cache(dc) /\ Cache(l2)
  /\ ic.linesz = L1Line /\ dc.linesz = L1Line /\ l2.linesz = L2Line
  /\ unsaved \subseteq Nat
StoresKept == \A u \in unsaved : Dirty(dc, u) \/ Dirty(l2, u)
TrafficAgrees ==
  /\ l2.read_accesses = Missed(ic) + Missed(dc)
  /\ l2.write_accesses = ic.writebacks + dc.writebacks
  /\ l2.bytes_read = L1Line * (Missed(ic) + Missed(dc))
  /\ l2.bytes_written = L1Line * dc.writebacks
IInv ==
  /\ TypeOK /\ Indexed(ic) /\ Indexed(dc) /\ Indexed(l2)
  /\ Clean(ic) /\ ic.writebacks = 0 /\ StoresKept /\ TrafficAgrees

LEMMA Sizes ==
    /\ L1Sets \in Nat \ {0} /\ L2Sets \in Nat \ {0} /\ L1Line \in Nat \ {0} /\ L2Line \in Nat \ {0}
    /\ L1Ways \in Nat \ {0} /\ L2Ways \in Nat \ {0}
BY CacheAssumption DEF Log2able

\* A line of the first level lies in one line of the L2.
LEMMA LinesNest ==
    ASSUME NEW u \in Nat
    PROVE  ((u \div L1Line) * L1Line) \div L2Line = u \div L2Line
<1>1. /\ L1Line \in {1, 2, 4, 8} /\ L2Line \in {1, 2, 4, 8} /\ L1Line <= L2Line
  BY CacheAssumption DEF Log2able
<1>2. /\ ((u \div 1) * 1) \div 1 = u \div 1 /\ ((u \div 1) * 1) \div 2 = u \div 2
      /\ ((u \div 1) * 1) \div 4 = u \div 4 /\ ((u \div 1) * 1) \div 8 = u \div 8
  OBVIOUS
<1>3. /\ ((u \div 2) * 2) \div 2 = u \div 2 /\ ((u \div 2) * 2) \div 4 = u \div 4
      /\ ((u \div 2) * 2) \div 8 = u \div 8
  OBVIOUS
<1>4. /\ ((u \div 4) * 4) \div 4 = u \div 4 /\ ((u \div 4) * 4) \div 8 = u \div 8
      /\ ((u \div 8) * 8) \div 8 = u \div 8
  OBVIOUS
<1>5. \/ (L1Line = 1 /\ L2Line \in {1, 2, 4, 8})
      \/ (L1Line = 2 /\ L2Line \in {2, 4, 8})
      \/ (L1Line = 4 /\ L2Line \in {4, 8})
      \/ (L1Line = 8 /\ L2Line = 8)
  BY <1>1
<1>6. CASE L1Line = 1 /\ L2Line \in {1, 2, 4, 8}
  BY <1>2, <1>6
<1>7. CASE L1Line = 2 /\ L2Line \in {2, 4, 8}
  BY <1>3, <1>7
<1>8. CASE (L1Line = 4 /\ L2Line \in {4, 8}) \/ (L1Line = 8 /\ L2Line = 8)
  BY <1>4, <1>8
<1>9. QED BY <1>5, <1>6, <1>7, <1>8

\* Lines of the L2 that hold a line of the first level hold all of it.
LEMMA SameL2Line ==
    ASSUME NEW t \in Nat, NEW u \in Nat, Cache(l2), l2.linesz = L2Line, u \div L1Line = t
    PROVE  t * L1Line \in Nat /\ Tag(l2, u) = Tag(l2, t * L1Line)
<1>1. t * L1Line \in Nat
  BY Sizes
<1>2. QED BY <1>1, LinesNest DEF Tag

LEMMA Constructed ==
    ASSUME NEW sets \in Nat \ {0}, NEW ways \in Nat \ {0}, NEW linesz \in Nat \ {0},
           NEW fa \in BOOLEAN, NEW c, c = Construct(sets, ways, linesz, fa)
    PROVE  /\ Cache(c) /\ c.linesz = linesz /\ Indexed(c) /\ Clean(c)
           /\ Missed(c) = 0 /\ c.writebacks = 0
           /\ c.read_accesses = 0 /\ c.write_accesses = 0 /\ c.bytes_read = 0 /\ c.bytes_written = 0
<1>1. NoLine \in Lines /\ ~NoLine.valid /\ ~NoLine.dirty
  BY DEF NoLine, Lines
<1>2. /\ c.sets = sets /\ c.ways = ways /\ c.linesz = linesz /\ c.fa = fa
      /\ c.tags = [idx \in 0 .. sets - 1 |-> [w \in 1 .. ways |-> NoLine]]
      /\ c.read_misses = 0 /\ c.write_misses = 0 /\ c.writebacks = 0
      /\ c.read_accesses = 0 /\ c.write_accesses = 0 /\ c.bytes_read = 0 /\ c.bytes_written = 0
  BY DEF Construct
<1>3. c.tags \in [0 .. sets - 1 -> [1 .. ways -> Lines]]
  BY <1>1, <1>2
<1>4. c \in Caches(sets, ways, linesz)
  BY <1>1 DEF Construct, Caches
<1>5. Cache(c)
  BY <1>2, <1>4 DEF Cache
<1>6. \A idx \in 0 .. c.sets - 1, w \in 1 .. c.ways : c.tags[idx][w] = NoLine
  BY <1>2
<1>7. Indexed(c) /\ Clean(c)
  BY <1>1, <1>6 DEF Indexed, Clean
<1>8. QED BY <1>2, <1>5, <1>7 DEF Missed

LEMMA InitLevels == Init => IInv
<1>1. SUFFICES ASSUME Init PROVE IInv
  OBVIOUS
<1>2. PICK fa \in L2Kinds : l2 = Construct(L2Sets, L2Ways, L2Line, fa)
  BY <1>1 DEF Init
<1>3. fa \in BOOLEAN /\ FALSE \in BOOLEAN
  BY CacheAssumption
<1>4. /\ ic = Construct(L1Sets, L1Ways, L1Line, FALSE) /\ dc = ic /\ unsaved = {}
  BY <1>1 DEF Init
<1>5. /\ Cache(l2) /\ l2.linesz = L2Line /\ Indexed(l2)
      /\ l2.read_accesses = 0 /\ l2.write_accesses = 0 /\ l2.bytes_read = 0 /\ l2.bytes_written = 0
  BY <1>2, <1>3, Sizes, Constructed
<1>6. /\ Cache(ic) /\ ic.linesz = L1Line /\ Indexed(ic) /\ Clean(ic)
      /\ Missed(ic) = 0 /\ ic.writebacks = 0
  <2>1. PICK f \in BOOLEAN : f = FALSE
    OBVIOUS
  <2>2. ic = Construct(L1Sets, L1Ways, L1Line, f)
    BY <1>4, <2>1
  <2>3. QED BY <2>2, Sizes, Constructed
<1>7. StoresKept
  BY <1>4 DEF StoresKept
<1>8. TrafficAgrees
  <2>0. Missed(dc) = 0 /\ dc.writebacks = 0
    BY <1>4, <1>6
  <2>1. Missed(ic) + Missed(dc) = 0 /\ ic.writebacks + dc.writebacks = 0 /\ dc.writebacks = 0
    BY <1>6, <2>0
  <2>2. L1Line * 0 = 0
    BY Sizes
  <2>3. QED BY <1>5, <2>1, <2>2 DEF TrafficAgrees
<1>9. QED BY <1>4, <1>5, <1>6, <1>7, <1>8 DEF IInv, TypeOK

-----------------------------------------------------------------------------
(* An access of either first level cache.                                  *)

\* m misses and w write-backs of a first level cache, and what the L2 counts of them.
Sent(c, d, m, w) == Missed(d) = Missed(c) + m /\ d.writebacks = c.writebacks + w
Received(l, n, m, w) ==
  /\ n.read_accesses = l.read_accesses + m /\ n.write_accesses = l.write_accesses + w
  /\ n.bytes_read = l.bytes_read + L1Line * m /\ n.bytes_written = l.bytes_written + L1Line * w

\* What is still to be written to memory was so before, or is what a stores now;
\* and if it was dirty in the L2 or in c it is so still, for d is what c becomes.
StillDirty(a, c, d) ==
  \A u \in Nat : u \in unsaved' =>
    \/ a.store /\ u = a.addr
    \/ /\ u \in unsaved /\ (Dirty(l2, u) => Dirty(l2', u))
       /\ Dirty(c, u) => Dirty(d, u) \/ Dirty(l2', u)

LEMMA Charges ==
    ASSUME Cache(l2), NEW m \in {0, 1}, NEW w \in {0, 1}, NEW n, Cache(n),
           \/ m = 0 /\ w = 0 /\ n = l2
           \/ m = 1 /\ w = 0 /\ Charged(n, l2, L1Line, FALSE)
           \/ m = 1 /\ w = 1 /\ \E k : Charged(k, l2, L1Line, TRUE) /\ Charged(n, k, L1Line, FALSE)
    PROVE  Received(l2, n, m, w)
<1>1. /\ l2.read_accesses \in Nat /\ l2.write_accesses \in Nat
      /\ l2.bytes_read \in Nat /\ l2.bytes_written \in Nat
  BY CacheFields
<1>2. L1Line * 0 = 0 /\ L1Line * 1 = L1Line /\ L1Line \in Nat
  BY Sizes
<1>3. CASE m = 0 /\ w = 0 /\ n = l2
  BY <1>1, <1>2, <1>3 DEF Received
<1>4. CASE m = 1 /\ w = 0 /\ Charged(n, l2, L1Line, FALSE)
  BY <1>1, <1>2, <1>4 DEF Received, Charged
<1>5. CASE m = 1 /\ w = 1 /\ \E k : Charged(k, l2, L1Line, TRUE) /\ Charged(n, k, L1Line, FALSE)
  <2>1. PICK k : Charged(k, l2, L1Line, TRUE) /\ Charged(n, k, L1Line, FALSE)
    BY <1>5
  <2>2. /\ n.read_accesses = l2.read_accesses + 1 /\ n.write_accesses = l2.write_accesses + 1
        /\ n.bytes_read = l2.bytes_read + L1Line /\ n.bytes_written = l2.bytes_written + L1Line
    BY <1>1, <1>2, <2>1 DEF Charged
  <2>3. QED BY <1>2, <1>5, <2>2 DEF Received
<1>6. QED BY <1>3, <1>4, <1>5

LEMMA FirstLevel ==
    ASSUME NEW c, Cache(c), Indexed(c), c.linesz = L1Line,
           Cache(l2), Indexed(l2), l2.linesz = L2Line,
           NEW addr \in Nat, NEW store \in BOOLEAN, NEW way \in WayChoices(c, addr),
           NEW a, a = Acc(addr, 1, store), NEW r, r = Access(c, a, way), ThroughL2(a, r.down)
    PROVE  /\ Cache(r.cache) /\ SameShape(r.cache, c) /\ Indexed(r.cache)
           /\ ~store /\ Clean(c) => Clean(r.cache)
           /\ store => Dirty(r.cache, addr)
           /\ Cache(l2') /\ SameShape(l2', l2) /\ Indexed(l2')
           /\ unsaved \subseteq Nat => unsaved' \subseteq Nat
           /\ StillDirty(a, c, r.cache)
           /\ \E m, w \in {0, 1} : /\ Sent(c, r.cache, m, w) /\ Received(l2, l2', m, w)
                                   /\ w = 1 => ~Clean(c)
<1>1. a.addr = addr /\ a.store = store /\ 1 \in Nat
  BY DEF Acc
<1>2. /\ Cache(r.cache) /\ SameShape(r.cache, c) /\ Indexed(r.cache)
      /\ Hit(c, r) \/ Miss(c, addr, r) \/ \E t \in Nat : Evicts(c, addr, r, t)
      /\ store => \A u \in Nat : Tag(c, u) = Tag(c, addr) => Dirty(r.cache, u)
      /\ ~store /\ Clean(c) => Clean(r.cache)
  BY <1>1, Accessing
<1>3. store => Dirty(r.cache, addr)
  BY <1>2
<1>4. Missed(c) \in Nat /\ c.writebacks \in Nat
  BY CacheFields
<1>5. Tag(c, addr) * c.linesz \in Nat /\ L1Line \in Nat
  <2>1. PICK n \in Nat \ {0} : n = L1Line /\ n = c.linesz
    BY Sizes
  <2>2. addr \div n \in Nat
    BY TagIsNat
  <2>3. (addr \div n) * n \in Nat
    BY <2>2
  <2>4. QED BY <2>1, <2>3 DEF Tag
<1>6. ASSUME NEW saved, Through(a, saved), Kept(c, r.cache)
      PROVE  StillDirty(a, c, r.cache)
  BY <1>6 DEF Through, StillDirty, Safe, Kept
<1>7. \E saved, m, w : /\ Through(a, saved) /\ StillDirty(a, c, r.cache) /\ m \in {0, 1} /\ w \in {0, 1}
                       /\ Sent(c, r.cache, m, w) /\ Received(l2, l2', m, w) /\ (w = 1 => ~Clean(c))
  <2>1. CASE Hit(c, r)
    <3>1. ThroughL2(a, << >>)
      BY <2>1 DEF Hit
    <3>2. Through(a, {}) /\ l2' = l2
      BY <3>1, NothingDown
    <3>3. StillDirty(a, c, r.cache)
      BY <1>6, <2>1, <3>2 DEF Hit
    <3>4. Sent(c, r.cache, 0, 0)
      BY <1>4, <2>1 DEF Hit, Sent
    <3>5. Received(l2, l2', 0, 0)
      BY <3>2, Charges
    <3>6. QED BY <3>2, <3>3, <3>4, <3>5
  <2>2. CASE Miss(c, addr, r)
    <3>1. PICK down : down = r.down /\ down = <<Acc(Tag(c, addr) * c.linesz, L1Line, FALSE)>>
      BY <2>2 DEF Miss, FetchOf
    <3>2. ThroughL2(a, down)
      BY <3>1
    <3>3. (\E saved : Through(a, saved)) /\ Charged(l2', l2, L1Line, FALSE)
      BY <1>5, <3>1, <3>2, FetchDown
    <3>4. PICK saved : Through(a, saved)
      BY <3>3
    <3>5. StillDirty(a, c, r.cache)
      BY <1>6, <2>2, <3>4 DEF Miss
    <3>6. Sent(c, r.cache, 1, 0)
      BY <1>4, <2>2 DEF Miss, Sent
    <3>7. Received(l2, l2', 1, 0)
      BY <3>3, <3>4, Charges DEF Through
    <3>8. QED BY <3>4, <3>5, <3>6, <3>7
  <2>3. ASSUME NEW t \in Nat, Evicts(c, addr, r, t)
        PROVE  \E saved, m, w : /\ Through(a, saved) /\ StillDirty(a, c, r.cache)
                                /\ m \in {0, 1} /\ w \in {0, 1}
                                /\ Sent(c, r.cache, m, w) /\ Received(l2, l2', m, w)
                                /\ (w = 1 => ~Clean(c))
    <3>1. PICK down : /\ down = r.down
                      /\ down = <<Acc(t * L1Line, L1Line, TRUE),
                                  Acc(Tag(c, addr) * c.linesz, L1Line, FALSE)>>
      BY <2>3 DEF Evicts, WriteOf, FetchOf
    <3>2. ThroughL2(a, down) /\ t * L1Line \in Nat
      BY <1>5, <3>1
    <3>3. /\ \E saved : /\ Through(a, saved)
                        /\ \A u \in Nat : Tag(l2, u) = Tag(l2, t * L1Line)
                                            => Dirty(l2', u) \/ u \in saved
          /\ \E k : Charged(k, l2, L1Line, TRUE) /\ Charged(l2', k, L1Line, FALSE)
      BY <1>5, <3>1, <3>2, WriteAndFetchDown
    <3>4. PICK saved : /\ Through(a, saved)
                       /\ \A u \in Nat : Tag(l2, u) = Tag(l2, t * L1Line)
                                           => Dirty(l2', u) \/ u \in saved
      BY <3>3
    <3>5. StillDirty(a, c, r.cache)
      <4>1. ASSUME NEW u \in Nat, Dirty(c, u) PROVE Dirty(r.cache, u) \/ Dirty(l2', u) \/ u \in saved
        <5>1. CASE Tag(c, u) = t
          <6>1. u \div L1Line = t
            BY <5>1 DEF Tag
          <6>2. Tag(l2, u) = Tag(l2, t * L1Line)
            BY <6>1, SameL2Line
          <6>3. QED BY <3>4, <6>2
        <5>2. CASE Tag(c, u) # t
          BY <2>3, <4>1, <5>2 DEF Evicts, KeptBut
        <5>3. QED BY <5>1, <5>2
      <4>2. QED BY <3>4, <4>1 DEF Through, StillDirty, Safe
    <3>6. Sent(c, r.cache, 1, 1)
      BY <1>4, <2>3 DEF Evicts, Sent
    <3>7. Received(l2, l2', 1, 1)
      BY <3>3, <3>4, Charges DEF Through
    <3>8. ~Clean(c)
      BY <2>3 DEF Evicts
    <3>9. QED BY <3>4, <3>5, <3>6, <3>7, <3>8
  <2>4. QED BY <1>2, <2>1, <2>2, <2>3
<1>8. PICK saved, m, w :
        /\ Through(a, saved) /\ StillDirty(a, c, r.cache) /\ m \in {0, 1} /\ w \in {0, 1}
        /\ Sent(c, r.cache, m, w) /\ Received(l2, l2', m, w) /\ (w = 1 => ~Clean(c))
  BY <1>7
<1>9. unsaved \subseteq Nat => unsaved' \subseteq Nat
  BY <1>1, <1>8 DEF Through
<1>10. QED BY <1>2, <1>3, <1>8, <1>9 DEF Through

-----------------------------------------------------------------------------
(* Steps keep the inductive invariant.                                     *)

LEMMA Products ==
    ASSUME NEW x \in Nat, NEW m \in {0, 1}
    PROVE  L1Line * (x + m) = L1Line * x + L1Line * m
<1>1. L1Line \in Nat
  BY Sizes
<1>2. CASE m = 0
  BY <1>1, <1>2
<1>3. CASE m = 1
  BY <1>1, <1>3
<1>4. QED BY <1>2, <1>3

LEMMA FetchKeeps ==
    ASSUME IInv, NEW addr \in Nat, Fetch(addr)
    PROVE  IInv'
<1>1. /\ Cache(ic) /\ Cache(dc) /\ Cache(l2) /\ Indexed(ic) /\ Indexed(dc) /\ Indexed(l2)
      /\ ic.linesz = L1Line /\ dc.linesz = L1Line /\ l2.linesz = L2Line /\ unsaved \subseteq Nat
      /\ Clean(ic) /\ ic.writebacks = 0 /\ StoresKept /\ TrafficAgrees
  BY DEF IInv, TypeOK
<1>2. PICK way \in WayChoices(ic, addr) :
        \E r \in {Access(ic, Acc(addr, 1, FALSE), way)} :
          ic' = r.cache /\ ThroughL2(Acc(addr, 1, FALSE), r.down)
  BY DEF Fetch
<1>3. PICK a : a = Acc(addr, 1, FALSE)
  OBVIOUS
<1>4. PICK r : r = Access(ic, a, way) /\ ic' = r.cache /\ ThroughL2(a, r.down)
  BY <1>2, <1>3
<1>5. ~a.store
  BY <1>3 DEF Acc
<1>6. PICK store \in BOOLEAN : ~store /\ a = Acc(addr, 1, store)
  BY <1>3
<1>7. /\ Cache(r.cache) /\ SameShape(r.cache, ic) /\ Indexed(r.cache)
      /\ ~store /\ Clean(ic) => Clean(r.cache)
      /\ Cache(l2') /\ SameShape(l2', l2) /\ Indexed(l2')
      /\ unsaved \subseteq Nat => unsaved' \subseteq Nat
      /\ StillDirty(a, ic, r.cache)
      /\ \E m, w \in {0, 1} : /\ Sent(ic, r.cache, m, w) /\ Received(l2, l2', m, w)
                              /\ w = 1 => ~Clean(ic)
  BY <1>1, <1>4, <1>6, FirstLevel
<1>8. dc' = dc
  BY DEF Fetch
<1>9. PICK m, w \in {0, 1} : /\ Sent(ic, ic', m, w) /\ Received(l2, l2', m, w)
                             /\ w = 1 => ~Clean(ic)
  BY <1>4, <1>7
<1>10. w = 0
  BY <1>1, <1>9
<1>11. ic'.writebacks = 0
  BY <1>1, <1>9, <1>10 DEF Sent
<1>12. StoresKept'
  <2>1. ASSUME NEW u \in unsaved' PROVE Dirty(dc, u) \/ Dirty(l2', u)
    <3>1. u \in Nat
      BY <1>1, <1>7
    <3>2. u \in unsaved /\ (Dirty(l2, u) => Dirty(l2', u))
      BY <1>5, <1>7, <3>1 DEF StillDirty
    <3>3. QED BY <1>1, <3>2 DEF StoresKept
  <2>2. QED BY <1>8, <2>1 DEF StoresKept
<1>13. TrafficAgrees'
  <2>1. /\ Missed(ic) \in Nat /\ Missed(dc) \in Nat /\ dc.writebacks \in Nat /\ ic.writebacks = 0
    BY <1>1, CacheFields
  <2>2. Missed(ic') = Missed(ic) + m /\ Missed(dc') = Missed(dc) /\ dc'.writebacks = dc.writebacks
    BY <1>8, <1>9 DEF Sent
  <2>3. /\ l2'.read_accesses = Missed(ic) + Missed(dc) + m /\ l2'.write_accesses = dc.writebacks
        /\ l2'.bytes_read = L1Line * (Missed(ic) + Missed(dc)) + L1Line * m
        /\ l2'.bytes_written = L1Line * dc.writebacks
    <3>1. L1Line * 0 = 0 /\ L1Line * dc.writebacks \in Nat
      BY <2>1, Sizes
    <3>2. QED BY <1>1, <1>9, <1>10, <2>1, <3>1 DEF Received, TrafficAgrees
  <2>4. L1Line * (Missed(ic) + Missed(dc) + m) = L1Line * (Missed(ic) + Missed(dc)) + L1Line * m
    BY <2>1, Products
  <2>5. Missed(ic') + Missed(dc') = Missed(ic) + Missed(dc) + m
    BY <2>1, <2>2
  <2>6. QED BY <1>11, <2>1, <2>2, <2>3, <2>4, <2>5 DEF TrafficAgrees
<1>14. TypeOK'
  BY <1>1, <1>4, <1>7, <1>8 DEF TypeOK, SameShape
<1>15. Indexed(ic') /\ Indexed(dc') /\ Indexed(l2') /\ Clean(ic')
  BY <1>1, <1>4, <1>6, <1>7, <1>8
<1>16. QED BY <1>11, <1>12, <1>13, <1>14, <1>15 DEF IInv

LEMMA DataKeeps ==
    ASSUME IInv, NEW addr \in Nat, NEW store \in BOOLEAN, Data(addr, store)
    PROVE  IInv'
<1>1. /\ Cache(ic) /\ Cache(dc) /\ Cache(l2) /\ Indexed(ic) /\ Indexed(dc) /\ Indexed(l2)
      /\ ic.linesz = L1Line /\ dc.linesz = L1Line /\ l2.linesz = L2Line /\ unsaved \subseteq Nat
      /\ Clean(ic) /\ ic.writebacks = 0 /\ StoresKept /\ TrafficAgrees
  BY DEF IInv, TypeOK
<1>2. PICK way \in WayChoices(dc, addr) :
        \E r \in {Access(dc, Acc(addr, 1, store), way)} :
          dc' = r.cache /\ ThroughL2(Acc(addr, 1, store), r.down)
  BY DEF Data
<1>3. PICK a : a = Acc(addr, 1, store)
  OBVIOUS
<1>4. PICK r : r = Access(dc, a, way) /\ dc' = r.cache /\ ThroughL2(a, r.down)
  BY <1>2, <1>3
<1>5. a.store = store /\ a.addr = addr
  BY <1>3 DEF Acc
<1>7. /\ Cache(r.cache) /\ SameShape(r.cache, dc) /\ Indexed(r.cache)
      /\ store => Dirty(r.cache, addr)
      /\ Cache(l2') /\ SameShape(l2', l2) /\ Indexed(l2')
      /\ unsaved \subseteq Nat => unsaved' \subseteq Nat
      /\ StillDirty(a, dc, r.cache)
      /\ \E m, w \in {0, 1} : /\ Sent(dc, r.cache, m, w) /\ Received(l2, l2', m, w)
                              /\ w = 1 => ~Clean(dc)
  BY <1>1, <1>3, <1>4, FirstLevel
<1>8. ic' = ic
  BY DEF Data
<1>9. PICK m, w \in {0, 1} : Sent(dc, dc', m, w) /\ Received(l2, l2', m, w)
  BY <1>4, <1>7
<1>12. StoresKept'
  <2>1. ASSUME NEW u \in unsaved' PROVE Dirty(dc', u) \/ Dirty(l2', u)
    <3>1. u \in Nat
      BY <1>1, <1>7
    <3>2. \/ store /\ u = addr
          \/ /\ u \in unsaved /\ (Dirty(l2, u) => Dirty(l2', u))
             /\ Dirty(dc, u) => Dirty(dc', u) \/ Dirty(l2', u)
      BY <1>4, <1>5, <1>7, <3>1 DEF StillDirty
    <3>3. QED BY <1>1, <1>4, <1>7, <3>2 DEF StoresKept
  <2>2. QED BY <2>1 DEF StoresKept
<1>13. TrafficAgrees'
  <2>1. /\ Missed(ic) \in Nat /\ Missed(dc) \in Nat /\ dc.writebacks \in Nat /\ ic.writebacks = 0
    BY <1>1, CacheFields
  <2>2. /\ Missed(dc') = Missed(dc) + m /\ Missed(ic') = Missed(ic)
        /\ dc'.writebacks = dc.writebacks + w /\ ic'.writebacks = 0
    BY <1>1, <1>8, <1>9 DEF Sent
  <2>3. /\ l2'.read_accesses = Missed(ic) + Missed(dc) + m
        /\ l2'.write_accesses = dc.writebacks + w
        /\ l2'.bytes_read = L1Line * (Missed(ic) + Missed(dc)) + L1Line * m
        /\ l2'.bytes_written = L1Line * dc.writebacks + L1Line * w
    BY <1>1, <1>9, <2>1 DEF Received, TrafficAgrees
  <2>4. /\ L1Line * (Missed(ic) + Missed(dc) + m) = L1Line * (Missed(ic) + Missed(dc)) + L1Line * m
        /\ L1Line * (dc.writebacks + w) = L1Line * dc.writebacks + L1Line * w
    BY <2>1, Products
  <2>5. Missed(ic') + Missed(dc') = Missed(ic) + Missed(dc) + m
    BY <2>1, <2>2
  <2>6. QED BY <2>1, <2>2, <2>3, <2>4, <2>5 DEF TrafficAgrees
<1>14. TypeOK'
  BY <1>1, <1>4, <1>7, <1>8 DEF TypeOK, SameShape
<1>15. Indexed(ic') /\ Indexed(dc') /\ Indexed(l2') /\ Clean(ic') /\ ic'.writebacks = 0
  BY <1>1, <1>4, <1>7, <1>8
<1>16. QED BY <1>12, <1>13, <1>14, <1>15 DEF IInv

LEMMA NextLevels == IInv /\ [Next]_vars => IInv'
<1>1. SUFFICES ASSUME IInv, [Next]_vars PROVE IInv'
  OBVIOUS
<1>2. FetchAddrs \subseteq Nat /\ DataAddrs \subseteq Nat
  BY CacheAssumption
<1>3. CASE \E addr \in FetchAddrs : Fetch(addr)
  <2>1. PICK addr \in Nat : Fetch(addr)
    BY <1>2, <1>3
  <2>2. QED BY <1>1, <2>1, FetchKeeps
<1>4. CASE \E addr \in DataAddrs : Load(addr) \/ Store(addr)
  <2>1. PICK addr \in Nat : Load(addr) \/ Store(addr)
    BY <1>2, <1>4
  <2>2. PICK store \in BOOLEAN : Data(addr, store)
    BY <2>1 DEF Load, Store
  <2>3. QED BY <1>1, <2>2, DataKeeps
<1>5. CASE UNCHANGED vars
  BY <1>1, <1>5 DEF vars, IInv, TypeOK, StoresKept, TrafficAgrees
<1>6. QED BY <1>1, <1>3, <1>4, <1>5 DEF Next

\* The domain of a cache's tags, as the property names it.
LEMMA InvLevels == IInv => LevelsAgree
<1>1. SUFFICES ASSUME IInv PROVE LevelsAgree
  OBVIOUS
<1>2. \A c \in {ic, dc, l2} : Cache(c) /\ Indexed(c)
  BY <1>1 DEF IInv, TypeOK
<1>3. ASSUME NEW c, Cache(c), Indexed(c)
      PROVE  \A idx \in DOMAIN c.tags : \A v, w \in 1 .. c.ways :
               LET l == c.tags[idx][v]
                   m == c.tags[idx][w]
               IN  /\ l.valid => l.tag % c.sets = idx
                   /\ l.valid /\ m.valid /\ l.tag = m.tag => v = w
  <2>1. DOMAIN c.tags = 0 .. c.sets - 1
    BY <1>3, CacheFields
  <2>2. QED BY <1>3, <2>1 DEF Indexed
<1>4. QED BY <1>1, <1>2, <1>3 DEF IInv, StoresKept, TrafficAgrees, LevelsAgree

\* The levels agree about stores and about traffic, for every geometry the
\* options accept and every choice of victims (cachesim.cc:76-172): a store is
\* in a dirty line until it is written to memory, a line is in one way of its
\* own set, and the L2 counts what the first level sends it.
THEOREM LevelsKeep == Spec => []LevelsAgree
<1>1. Init => IInv
  BY InitLevels
<1>2. IInv /\ [Next]_vars => IInv'
  BY NextLevels
<1>3. IInv => LevelsAgree
  BY InvLevels
<1>4. QED BY <1>1, <1>2, <1>3, PTL DEF Spec

-----------------------------------------------------------------------------
(* The op codes and their numbers.                                         *)

LEMMA LoadTable ==
    /\ \A i \in 1 .. 10 : LoadCodes[i] \in 0 .. 12 /\ LoadSizes[i] \in {1, 2, 4, 8, 16, 32, 64}
    /\ \A i, j \in 1 .. 10 : LoadCodes[i] = LoadCodes[j] => i = j
    /\ DOMAIN LoadCodes = 1 .. 10
BY DEF LoadCodes, LoadSizes

LEMMA StoreTable ==
    /\ \A i \in 1 .. 7 : StoreCodes[i] \in 0 .. 12 /\ StoreSizes[i] \in {1, 2, 4, 8, 16, 32, 64}
    /\ \A i, j \in 1 .. 7 : StoreCodes[i] = StoreCodes[j] => i = j
    /\ DOMAIN StoreCodes = 1 .. 7
BY DEF StoreCodes, StoreSizes

LEMMA LoadIndex ==
    ASSUME NEW i \in 1 .. 10
    PROVE  IndexIn(LoadCodes, LoadCodes[i]) = i
BY LoadTable DEF IndexIn

LEMMA StoreIndexIs ==
    ASSUME NEW i \in 1 .. 7
    PROVE  IndexIn(StoreCodes, StoreCodes[i]) = i
BY StoreTable DEF IndexIn

\* The number of a code is one of its kind, and the code of that number is the code.
LEMMA LoadNumbers ==
    /\ \A c \in DOMAIN loadOpnumMap : loadOpnumMap[c] \in LoadNums /\ opcodeMap[loadOpnumMap[c]] = c
    /\ \A n \in LoadNums : opcodeMap[n] \in DOMAIN loadOpnumMap /\ loadOpnumMap[opcodeMap[n]] = n
<1>1. DOMAIN loadOpnumMap = {LoadCodes[i] : i \in 1 .. 10} \cup {16 + LoadCodes[i] : i \in 1 .. 10}
  BY LoadTable DEF loadOpnumMap, ToSet
<1>2. \A n \in LoadNums : opcodeMap[n] = IF n <= 10 THEN LoadCodes[n] ELSE 16 + LoadCodes[n - 20]
  BY DEF opcodeMap, LoadNums
<1>3. ASSUME NEW i \in 1 .. 10
      PROVE  loadOpnumMap[LoadCodes[i]] = i /\ loadOpnumMap[16 + LoadCodes[i]] = 20 + i
  <2>1. PICK d \in 0 .. 12 : d = LoadCodes[i]
    BY LoadTable
  <2>2. IndexIn(LoadCodes, d) = i /\ d % 16 = d /\ (16 + d) % 16 = d /\ d < 16 /\ ~(16 + d < 16)
    BY <2>1, LoadIndex
  <2>3. d \in DOMAIN loadOpnumMap /\ 16 + d \in DOMAIN loadOpnumMap
    BY <1>1, <2>1
  <2>4. /\ loadOpnumMap[d] = (IF d < 16 THEN 0 ELSE 20) + IndexIn(LoadCodes, d % 16)
        /\ loadOpnumMap[16 + d] = (IF 16 + d < 16 THEN 0 ELSE 20) + IndexIn(LoadCodes, (16 + d) % 16)
    BY <2>3 DEF loadOpnumMap
  <2>5. QED BY <2>1, <2>2, <2>4
<1>4. ASSUME NEW i \in 1 .. 10
      PROVE  /\ i \in LoadNums /\ 20 + i \in LoadNums
             /\ opcodeMap[i] = LoadCodes[i] /\ opcodeMap[20 + i] = 16 + LoadCodes[i]
  BY <1>2 DEF LoadNums
<1>5. ASSUME NEW n \in LoadNums PROVE \E i \in 1 .. 10 : n = i \/ n = 20 + i
  <2>1. n \in 1 .. 10 \/ n - 20 \in 1 .. 10
    BY DEF LoadNums
  <2>2. n \in Int
    BY DEF LoadNums
  <2>3. QED BY <2>1, <2>2
<1>6. QED BY <1>1, <1>3, <1>4, <1>5

LEMMA StoreNumbers ==
    /\ \A c \in DOMAIN storeOpnumMap : storeOpnumMap[c] \in StoreNums /\ opcodeMap[storeOpnumMap[c]] = c
    /\ \A n \in StoreNums : opcodeMap[n] \in DOMAIN storeOpnumMap /\ storeOpnumMap[opcodeMap[n]] = n
<1>1. DOMAIN storeOpnumMap =
        {StoreCodes[i] : i \in 1 .. 7} \cup {128 + StoreCodes[i] : i \in 1 .. 7} \cup {255}
  BY StoreTable DEF storeOpnumMap, ToSet
<1>2. ASSUME NEW i \in 1 .. 7
      PROVE  /\ 40 + i \in StoreNums /\ 61 + i \in StoreNums /\ 61 \in StoreNums
             /\ opcodeMap[40 + i] = StoreCodes[i] /\ opcodeMap[61 + i] = 128 + StoreCodes[i]
             /\ opcodeMap[61] = 255
  <2>1. \A n \in StoreNums : opcodeMap[n] = CASE n \in 41 .. 47 -> StoreCodes[n - 40]
                                              [] n = 61         -> 255
                                              [] OTHER          -> 128 + StoreCodes[n - 61]
    BY DEF opcodeMap, StoreNums
  <2>2. 40 + i \in StoreNums /\ 61 + i \in StoreNums /\ 61 \in StoreNums
    BY DEF StoreNums
  <2>3. 40 + i \in 41 .. 47 /\ 61 + i \notin 41 .. 47 /\ 61 + i # 61 /\ 61 \notin 41 .. 47
        /\ (40 + i) - 40 = i /\ (61 + i) - 61 = i
    OBVIOUS
  <2>4. QED BY <2>1, <2>2, <2>3
<1>3. ASSUME NEW i \in 1 .. 7
      PROVE  /\ storeOpnumMap[StoreCodes[i]] = 40 + i /\ storeOpnumMap[128 + StoreCodes[i]] = 61 + i
             /\ storeOpnumMap[255] = 61
  <2>1. PICK d \in 0 .. 12 : d = StoreCodes[i]
    BY StoreTable
  <2>2. /\ IndexIn(StoreCodes, d) = i /\ d % 128 = d /\ (128 + d) % 128 = d /\ d < 128
        /\ ~(128 + d < 128) /\ d # 255 /\ 128 + d # 255
    BY <2>1, StoreIndexIs
  <2>3. d \in DOMAIN storeOpnumMap /\ 128 + d \in DOMAIN storeOpnumMap /\ 255 \in DOMAIN storeOpnumMap
    BY <1>1, <2>1
  <2>4. \A c \in DOMAIN storeOpnumMap :
          storeOpnumMap[c] = IF c = 255 THEN 61
                             ELSE (IF c < 128 THEN 40 ELSE 61) + IndexIn(StoreCodes, c % 128)
    BY DEF storeOpnumMap
  <2>5. QED BY <2>1, <2>2, <2>3, <2>4
<1>4. ASSUME NEW n \in StoreNums PROVE n = 61 \/ \E i \in 1 .. 7 : n = 40 + i \/ n = 61 + i
  <2>1. n \in Int /\ (n - 40 \in 1 .. 7 \/ n = 61 \/ n - 61 \in 1 .. 7)
    BY DEF StoreNums
  <2>2. QED BY <2>1
<1>5. 1 \in 1 .. 7
  OBVIOUS
<1>6. QED BY <1>1, <1>2, <1>3, <1>4, <1>5

LEMMA OpSizes ==
    /\ \A n \in LoadNums : LoadSize(n) \in 1 .. 64
    /\ \A n \in StoreNums : StoreSize(n) \in 0 .. 64
<1>1. ASSUME NEW n \in LoadNums PROVE LoadSize(n) \in 1 .. 64
  <2>1. PICK i \in 1 .. 10 : i = IF n > 20 THEN n - 20 ELSE n
    BY DEF LoadNums
  <2>2. LoadSizes[i] \in 1 .. 64
    BY LoadTable
  <2>3. QED BY <2>1, <2>2 DEF LoadSize
<1>2. ASSUME NEW n \in StoreNums PROVE StoreSize(n) \in 0 .. 64
  <2>1. CASE n = 61
    BY <2>1 DEF StoreSize
  <2>2. CASE n # 61
    <3>1. PICK i \in 1 .. 7 : i = IF n > 61 THEN n - 61 ELSE n - 40
      BY <2>2 DEF StoreNums
    <3>2. StoreSizes[i] \in 1 .. 64
      BY StoreTable
    <3>3. QED BY <2>2, <3>1, <3>2 DEF StoreSize
  <2>3. QED BY <2>1, <2>2
<1>3. QED BY <1>1, <1>2

LEMMA Kinds ==
    ASSUME NEW n \in LoadNums \cup StoreNums
    PROVE  /\ n \in Nat /\ n # 0 /\ n % 256 = n
           /\ getOpTypeByOpNum(n) = IF n \in LoadNums THEN "load" ELSE "store"
           /\ n \in LoadNums => n \notin StoreNums
<1>1. n \in Nat /\ n # 0 /\ n < 256
  BY DEF LoadNums, StoreNums
<1>2. n \in LoadNums => n \notin StoreNums
  BY DEF LoadNums, StoreNums
<1>3. n % 256 = n
  BY <1>1
<1>4. getOpTypeByOpNum(n) = IF n \in LoadNums THEN "load" ELSE "store"
  BY <1>1, <1>2 DEF getOpTypeByOpNum, OPNUM_LIVECACHE
<1>5. QED BY <1>1, <1>2, <1>3, <1>4

-----------------------------------------------------------------------------
(* Words and operations.                                                   *)

Words == [1 .. 8 -> Nat]
Bytes64 == [1 .. 64 -> Nat]
Aligned == {w \in Words : w[1] % 8 = 0}

Ops == [opCode : Int, pid : Nat, delay : Nat, pc : Words, addr : Aligned,
        val : Bytes64, opNum : Int, opType : {"load", "store", "lc"}, dataSize : 0 .. 64,
        ldData : BOOLEAN]

\* Whatever setters were called, the number, the code, the type and the size agree.
Fits(o) ==
  \/ o.opNum = 0 /\ o.dataSize = 0 /\ o.opType \in {"load", "lc"}
  \/ /\ o.opNum \in LoadNums /\ o.opType = "load" /\ o.opCode = opcodeMap[o.opNum]
     /\ o.dataSize = 0 \/ (o.dataSize = LoadSize(o.opNum) /\ o.ldData)
  \/ /\ o.opNum \in StoreNums /\ o.opType = "store" /\ o.opCode = opcodeMap[o.opNum]
     /\ o.dataSize = StoreSize(o.opNum)
Operation(o) == o \in Ops /\ Fits(o)

LEMMA SameWord ==
    ASSUME NEW u \in Words, NEW w \in Words, \A k \in 1 .. 8 : u[k] = w[k]
    PROVE  u = w
BY DEF Words

LEMMA SameData ==
    ASSUME NEW u \in Bytes64, NEW w \in Bytes64, \A k \in 1 .. 64 : u[k] = w[k]
    PROVE  u = w
BY DEF Bytes64

\* r is a sequence of n numbers; and one that lies in s after its first p.
IsBytes(r, n) == r \in Seq(Nat) /\ Len(r) = n /\ r \in [1 .. n -> Nat]
Appended(r, s, n, t, m) ==
  /\ IsBytes(r, n + m)
  /\ \A k \in 1 .. n : r[k] = s[k]
  /\ \A k \in 1 .. m : r[n + k] = t[k]
LiesIn(r, s, p, n) == IsBytes(r, n) /\ \A k \in 1 .. n : r[k] = s[p + k]

LEMMA FcnIsSeq ==
    ASSUME NEW n \in Nat, NEW f \in [1 .. n -> Nat]
    PROVE  IsBytes(f, n)
<1>1. f \in Seq(Nat)
  BY SeqDef
<1>2. Len(f) \in Nat /\ 1 .. Len(f) = 1 .. n
  BY <1>1, LenProperties
<1>3. Len(f) = n
  BY <1>2
<1>4. QED BY <1>1, <1>3 DEF IsBytes

LEMMA SeqIsFcn ==
    ASSUME NEW s \in Seq(Nat), NEW n \in Nat, Len(s) = n
    PROVE  IsBytes(s, n)
BY LenProperties DEF IsBytes

LEMMA Window ==
    ASSUME NEW l \in Nat, NEW s, IsBytes(s, l), NEW p \in Nat, NEW n \in Nat, p + n <= l
    PROVE  LiesIn(SubSeq(s, p + 1, p + n), s, p, n)
<1>1. s \in Seq(Nat) /\ \A i \in p + 1 .. p + n : s[i] \in Nat
  BY DEF IsBytes
<1>2. PICK first \in Int, last \in Int : first = p + 1 /\ last = p + n
  OBVIOUS
<1>3. /\ SubSeq(s, first, last) \in Seq(Nat)
      /\ Len(SubSeq(s, first, last)) = IF first <= last THEN last - first + 1 ELSE 0
      /\ \A i \in 1 .. last - first + 1 : SubSeq(s, first, last)[i] = s[first + i - 1]
  BY <1>1, <1>2, SubSeqProperties, SMTT(30)
<1>4. Len(SubSeq(s, first, last)) = n /\ last - first + 1 = n
  BY <1>2, <1>3
<1>5. \A k \in 1 .. n : first + k - 1 = p + k
  BY <1>2
<1>6. QED BY <1>2, <1>3, <1>4, <1>5, SeqIsFcn DEF LiesIn

LEMMA JoinedBytes ==
    ASSUME NEW n \in Nat, NEW m \in Nat, NEW s, IsBytes(s, n), NEW t, IsBytes(t, m)
    PROVE  Appended(s \o t, s, n, t, m)
<1>1. PICK r : r = s \o t
  OBVIOUS
<1>2. /\ r \in Seq(Nat) /\ Len(r) = n + m
      /\ \A i \in 1 .. n + m : r[i] = IF i <= n THEN s[i] ELSE t[i - n]
  BY <1>1, ConcatProperties DEF IsBytes
<1>3. \A k \in 1 .. m : /\ n + k \in 1 .. n + m /\ ~(n + k <= n) /\ (n + k) - n = k
  OBVIOUS
<1>4. \A k \in 1 .. n : k \in 1 .. n + m /\ k <= n
  OBVIOUS
<1>5. n + m \in Nat
  OBVIOUS
<1>6. IsBytes(r, n + m)
  BY <1>2, <1>5, SeqIsFcn
<1>7. (\A k \in 1 .. n : r[k] = s[k]) /\ \A k \in 1 .. m : r[n + k] = t[k]
  BY <1>2, <1>3, <1>4
<1>8. QED BY <1>1, <1>6, <1>7 DEF Appended

LEMMA Masked ==
    ASSUME NEW w \in Words
    PROVE  /\ MaskLow3(w) \in Aligned /\ MaskLow3(w)[1] = w[1] - (w[1] % 8)
           /\ \A k \in 2 .. 8 : MaskLow3(w)[k] = w[k]
<1>1. PICK n \in Nat : n = w[1] - (w[1] % 8)
  BY DEF Words
<1>2. n % 8 = 0
  BY <1>1 DEF Words
<1>3. MaskLow3(w) = [w EXCEPT ![1] = n]
  BY <1>1 DEF MaskLow3
<1>4. QED BY <1>1, <1>2, <1>3 DEF Words, Aligned

\* A word whose first element is an aligned one's, but for what the mask takes away.
LEMMA MaskedAgain ==
    ASSUME NEW w \in Aligned, NEW v \in Words, \A k \in 2 .. 8 : v[k] = w[k],
           NEW bit \in {0, 1}, v[1] = w[1] + bit
    PROVE  MaskLow3(v) = w /\ v[1] % 2 = bit
<1>1. w \in Words /\ w[1] \in Int /\ w[1] % 8 = 0
  BY DEF Aligned, Words
<1>2. PICK a \in Int, q \in Int : a = w[1] /\ a = 8 * q /\ v[1] = a + bit
  <2>1. PICK a \in Int : a = w[1] /\ a % 8 = 0
    BY <1>1
  <2>2. \E q \in Int : a = 8 * q
    BY <2>1
  <2>3. v[1] = w[1] + bit
    OBVIOUS
  <2>4. QED BY <2>1, <2>2, <2>3
<1>2a. v[1] - (v[1] % 8) = w[1] /\ v[1] % 2 = bit
  <2>1. CASE bit = 0
    BY <1>2, <2>1
  <2>2. CASE bit = 1
    BY <1>2, <2>2
  <2>3. QED BY <2>1, <2>2
<1>3. MaskLow3(v) \in Words /\ MaskLow3(v)[1] = w[1] /\ \A k \in 2 .. 8 : MaskLow3(v)[k] = w[k]
  BY <1>2a, Masked DEF Aligned
<1>4. \A k \in 1 .. 8 : k = 1 \/ k \in 2 .. 8
  OBVIOUS
<1>5. \A k \in 1 .. 8 : MaskLow3(v)[k] = w[k]
  BY <1>3, <1>4
<1>6. PICK u : u = MaskLow3(v) /\ u \in Words /\ \A k \in 1 .. 8 : u[k] = w[k]
  BY <1>3, <1>5
<1>7. u = w
  BY <1>1, <1>6, SameWord
<1>8. QED BY <1>2a, <1>6, <1>7

LEMMA Zeros == Zero8 \in Aligned /\ Zero64 \in Bytes64 /\ \A k \in 1 .. 64 : Zero64[k] = 0
BY DEF Zero8, Zero64, Aligned, Words, Bytes64

LEMMA FreshIs == Operation(FreshOperation)
<1>1. Zero8 \in Words /\ Zero8 \in Aligned /\ Zero64 \in Bytes64
  BY Zeros DEF Aligned
<1>2. FreshOperation \in Ops
  BY <1>1 DEF FreshOperation, Ops
<1>3. Fits(FreshOperation)
  BY DEF FreshOperation, Fits
<1>4. QED BY <1>2, <1>3 DEF Operation

LEMMA SetLoadIs ==
    ASSUME NEW o, Operation(o), NEW c \in DOMAIN loadOpnumMap, NEW r, r = setLoadOpCode(o, c)
    PROVE  /\ Operation(r) /\ r.opNum = loadOpnumMap[c] /\ r.dataSize = 0 /\ r.ldData = o.ldData
           /\ r.opType = "load" /\ r.opCode = c /\ r.val = o.val
<1>1. PICK n \in LoadNums : n = loadOpnumMap[c] /\ opcodeMap[n] = c
  BY LoadNumbers
<1>2. c \in Int /\ n \in Int
  <2>1. DOMAIN loadOpnumMap = {LoadCodes[i] : i \in 1 .. 10} \cup {16 + LoadCodes[i] : i \in 1 .. 10}
    BY LoadTable DEF loadOpnumMap, ToSet
  <2>2. QED BY <2>1, LoadTable DEF LoadNums
<1>3. PICK none \in 0 .. 64 : none = 0
  OBVIOUS
<1>4. o \in Ops /\ r = [o EXCEPT !.opCode = c, !.opNum = n, !.opType = "load", !.dataSize = none]
  BY <1>1, <1>3 DEF Operation, setLoadOpCode
<1>5. /\ r \in Ops /\ r.opCode = c /\ r.opNum = n /\ r.opType = "load" /\ r.dataSize = none
      /\ r.ldData = o.ldData /\ r.val = o.val
  BY <1>2, <1>4 DEF Ops
<1>6. Fits(r)
  BY <1>1, <1>3, <1>5 DEF Fits
<1>7. QED BY <1>1, <1>3, <1>5, <1>6 DEF Operation

LEMMA SetStoreIs ==
    ASSUME NEW o, Operation(o), NEW c \in DOMAIN storeOpnumMap, NEW r, r = setStoreOpCode(o, c)
    PROVE  /\ Operation(r) /\ r.opNum = storeOpnumMap[c] /\ r.ldData = o.ldData
           /\ r.opType = "store" /\ r.opCode = c /\ r.val = o.val
           /\ r.dataSize = StoreSize(r.opNum)
<1>1. PICK n \in StoreNums : n = storeOpnumMap[c] /\ opcodeMap[n] = c
  BY StoreNumbers
<1>2. c \in Int /\ n \in Int
  <2>1. DOMAIN storeOpnumMap =
          {StoreCodes[i] : i \in 1 .. 7} \cup {128 + StoreCodes[i] : i \in 1 .. 7} \cup {255}
    BY StoreTable DEF storeOpnumMap, ToSet
  <2>2. QED BY <2>1, StoreTable DEF StoreNums
<1>3. PICK size \in 0 .. 64 : size = StoreSize(n)
  BY OpSizes
<1>4. r = [o EXCEPT !.opCode = c, !.opNum = n, !.opType = "store", !.dataSize = size]
  BY <1>1, <1>3 DEF setStoreOpCode
<1>5. o \in Ops
  BY DEF Operation
<1>6. /\ r \in Ops /\ r.opCode = c /\ r.opNum = n /\ r.opType = "store" /\ r.dataSize = size
      /\ r.ldData = o.ldData /\ r.val = o.val
  BY <1>2, <1>4, <1>5 DEF Ops
<1>7. Fits(r)
  BY <1>1, <1>3, <1>6 DEF Fits
<1>8. QED BY <1>1, <1>3, <1>6, <1>7 DEF Operation

LEMMA SetLiveCacheIs ==
    ASSUME NEW o, Operation(o), NEW r, r = setLiveCacheOp(o) PROVE Operation(r)
<1>1. PICK none \in 0 .. 64 : none = 0
  OBVIOUS
<1>2. /\ o \in Ops /\ none \in Int
      /\ r = [o EXCEPT !.opCode = none, !.opNum = none, !.opType = "lc", !.dataSize = none]
  BY <1>1 DEF setLiveCacheOp, OPNUM_LIVECACHE, Operation
<1>3. r \in Ops /\ r.opNum = none /\ r.opType = "lc" /\ r.dataSize = none
  BY <1>2 DEF Ops
<1>4. QED BY <1>1, <1>3 DEF Operation, Fits

\* The fields the setters below leave alone decide whether an operation fits.
SameKind(r, o) ==
  /\ r.opNum = o.opNum /\ r.opType = o.opType /\ r.opCode = o.opCode
  /\ r.dataSize = o.dataSize /\ r.ldData = o.ldData

LEMMA SameFits ==
    ASSUME NEW o, Operation(o), NEW r \in Ops, SameKind(r, o) PROVE Operation(r)
BY DEF Operation, Fits, SameKind

HeaderSet(r, o, pid, delay, pc, addr) ==
  /\ Operation(r) /\ SameKind(r, o) /\ r.val = o.val
  /\ r.pid = pid /\ r.delay = delay /\ r.pc = pc /\ r.addr = MaskLow3(addr)

LEMMA SetHeaderIs ==
    ASSUME NEW o, Operation(o), NEW pid \in Nat, NEW delay \in Nat, NEW pc \in Words, NEW addr \in Words
    PROVE  HeaderSet(setHeader(o, pid, delay, pc, addr), o, pid, delay, pc, addr)
<1>1. PICK w \in Aligned : w = MaskLow3(addr)
  BY Masked
<1>2. PICK r : r = setHeader(o, pid, delay, pc, addr) /\ r = [o EXCEPT !.pid = pid, !.delay = delay, !.pc = pc, !.addr = w]
  BY <1>1 DEF setHeader
<1>3. o \in Ops
  BY DEF Operation
<1>4. /\ r \in Ops /\ SameKind(r, o) /\ r.val = o.val
      /\ r.pid = pid /\ r.delay = delay /\ r.pc = pc /\ r.addr = w
  BY <1>1, <1>2, <1>3 DEF Ops, SameKind
<1>5. HeaderSet(r, o, pid, delay, pc, addr)
  BY <1>1, <1>4, SameFits DEF HeaderSet
<1>6. QED BY <1>2, <1>5

\* What is put over the first bytes of the data, and what stays of it.
LEMMA Overlaid ==
    ASSUME NEW old, IsBytes(old, 64), NEW n \in Nat, n <= 64, NEW bytes, IsBytes(bytes, n)
    PROVE  LET v == bytes \o SubSeq(old, Len(bytes) + 1, 64)
           IN  /\ IsBytes(v, 64)
               /\ \A k \in 1 .. n : v[k] = bytes[k]
               /\ \A k \in n + 1 .. 64 : v[k] = old[k]
<1>1. PICK m \in Nat : n + m = 64 /\ Len(bytes) = n
  BY DEF IsBytes
<1>2. PICK rest : rest = SubSeq(old, n + 1, n + m)
  OBVIOUS
<1>3. IsBytes(rest, m) /\ \A k \in 1 .. m : rest[k] = old[n + k]
  <2>1. 64 \in Nat /\ n + m <= 64
    BY <1>1
  <2>2. LiesIn(SubSeq(old, n + 1, n + m), old, n, m)
    BY <2>1, Window
  <2>3. LiesIn(rest, old, n, m)
    BY <1>2, <2>2
  <2>4. QED BY <2>3 DEF LiesIn
<1>4. PICK v : v = bytes \o rest
  OBVIOUS
<1>5. /\ IsBytes(v, 64)
      /\ \A k \in 1 .. n : v[k] = bytes[k]
      /\ \A k \in 1 .. m : v[n + k] = rest[k]
  <2>1. Appended(v, bytes, n, rest, m)
    BY <1>3, <1>4, JoinedBytes
  <2>2. QED BY <1>1, <2>1 DEF Appended
<1>6. \A k \in n + 1 .. 64 : v[k] = old[k]
  <2>1. TAKE k \in n + 1 .. 64
  <2>2. PICK j \in 1 .. m : n + j = k
    BY <1>1
  <2>3. v[n + j] = rest[j] /\ rest[j] = old[n + j]
    BY <1>3, <1>5
  <2>4. QED BY <2>2, <2>3
<1>7. bytes \o SubSeq(old, Len(bytes) + 1, 64) = v
  BY <1>1, <1>2, <1>4
<1>8. QED BY <1>5, <1>6, <1>7

LEMMA SetValIs ==
    ASSUME NEW o, Operation(o), NEW n \in Nat, n <= 64, NEW bytes, IsBytes(bytes, n),
           NEW r, r = setVal(o, bytes)
    PROVE  /\ Operation(r) /\ SameKind(r, o)
           /\ r = [o EXCEPT !.val = r.val] /\ r.val \in Bytes64
           /\ \A k \in 1 .. n : r.val[k] = bytes[k]
           /\ \A k \in n + 1 .. 64 : r.val[k] = o.val[k]
<1>1. o \in Ops /\ o.val \in Bytes64
  BY DEF Operation, Ops
<1>2. PICK old \in Bytes64 : old = o.val
  BY <1>1
<1>3. IsBytes(old, 64)
  <2>1. 64 \in Nat /\ old \in [1 .. 64 -> Nat]
    BY DEF Bytes64
  <2>2. QED BY <2>1, FcnIsSeq
<1>4. PICK v : v = bytes \o SubSeq(old, Len(bytes) + 1, 64)
  OBVIOUS
<1>5. /\ IsBytes(v, 64) /\ \A k \in 1 .. n : v[k] = bytes[k]
      /\ \A k \in n + 1 .. 64 : v[k] = old[k]
  <2>1. LET u == bytes \o SubSeq(old, Len(bytes) + 1, 64)
        IN  /\ IsBytes(u, 64)
            /\ \A k \in 1 .. n : u[k] = bytes[k]
            /\ \A k \in n + 1 .. 64 : u[k] = old[k]
    BY <1>3, Overlaid
  <2>2. QED BY <1>4, <2>1
<1>6. r = [o EXCEPT !.val = v] /\ v \in Bytes64
  BY <1>2, <1>4, <1>5 DEF setVal, IsBytes, Bytes64
<1>7. r \in Ops /\ SameKind(r, o) /\ r.val = v
  BY <1>1, <1>6 DEF Ops, SameKind
<1>8. QED BY <1>2, <1>5, <1>6, <1>7, SameFits

LEMMA SetNeedIs ==
    ASSUME NEW o, Operation(o), ~NeedDataExits(o), NEW r, r = setLoadNeedData(o)
    PROVE  /\ Operation(r) /\ r.opNum = o.opNum /\ r.opType = o.opType /\ r.opCode = o.opCode
           /\ r.ldData /\ r.val = o.val
           /\ r.dataSize = IF o.opType = "load" THEN LoadSize(o.opNum) ELSE o.dataSize
<1>1. CASE o.opType = "load"
  <2>1. o.opNum \in LoadNums
    BY <1>1 DEF NeedDataExits
  <2>2. PICK size \in 0 .. 64 : size = LoadSize(o.opNum)
    BY <2>1, OpSizes
  <2>3. r = [o EXCEPT !.ldData = TRUE, !.dataSize = size]
    BY <1>1, <2>2 DEF setLoadNeedData
  <2>4. o.opNum # 0 /\ o.opNum \notin StoreNums
    BY <2>1, Kinds
  <2>5. o.opCode = opcodeMap[o.opNum] /\ o \in Ops
    BY <2>4 DEF Operation, Fits
  <2>6. r \in Ops /\ r.opNum = o.opNum /\ r.opType = "load" /\ r.opCode = o.opCode
        /\ r.dataSize = size /\ r.ldData /\ r.val = o.val
    BY <1>1, <2>3, <2>5 DEF Ops
  <2>7. Operation(r)
    BY <2>1, <2>2, <2>5, <2>6 DEF Operation, Fits
  <2>8. QED BY <1>1, <2>2, <2>6, <2>7
<1>2. CASE o.opType # "load"
  <2>1. r = [o EXCEPT !.ldData = TRUE] /\ o \in Ops
    BY <1>2 DEF setLoadNeedData, Operation
  <2>2. r \in Ops /\ r.opNum = o.opNum /\ r.opType = o.opType /\ r.opCode = o.opCode
        /\ r.dataSize = o.dataSize /\ r.ldData /\ r.val = o.val
    BY <2>1 DEF Ops
  <2>3. Operation(r)
    BY <1>2, <2>2 DEF Operation, Fits
  <2>4. QED BY <1>2, <2>2, <2>3
<1>3. QED BY <1>1, <1>2

LEMMA SetNoDataIs ==
    ASSUME NEW o, Operation(o), NEW r, r = setLoadNoData(o)
    PROVE  /\ Operation(r) /\ r.opNum = o.opNum /\ r.opType = o.opType /\ r.opCode = o.opCode
           /\ r.val = o.val
           /\ o.opType = "load" => ~r.ldData /\ r.dataSize = 0
           /\ o.opType # "load" => r = o
<1>1. CASE o.opType = "load"
  <2>1. PICK none \in 0 .. 64 : none = 0
    OBVIOUS
  <2>2. r = [o EXCEPT !.ldData = FALSE, !.dataSize = none] /\ o \in Ops
    BY <1>1, <2>1 DEF setLoadNoData, Operation
  <2>3. r \in Ops /\ r.opNum = o.opNum /\ r.opType = "load" /\ r.opCode = o.opCode
        /\ r.dataSize = none /\ ~r.ldData /\ r.val = o.val
    BY <1>1, <2>2 DEF Ops
  <2>4. Operation(r)
    BY <1>1, <2>1, <2>3 DEF Operation, Fits
  <2>5. QED BY <1>1, <2>1, <2>3, <2>4
<1>2. CASE o.opType # "load"
  <2>1. r = o
    BY <1>2 DEF setLoadNoData
  <2>2. QED BY <1>2, <2>1
<1>3. QED BY <1>1, <1>2

\* The carries exist: they are computed byte by byte.
Unfolds(c, w, k) == c = [i \in 0 .. 8 |-> IF i = 0 THEN k ELSE (w[i] + c[i - 1]) \div 256]
Carried(w, c) == [i \in 1 .. 8 |-> (w[i] + c[i - 1]) % 256]

LEMMA Carries ==
    ASSUME NEW w \in Words, NEW k \in Int
    PROVE  \E c : Unfolds(c, w, k)
<1> DEFINE up(b, x) == (w[b] + x) \div 256
<1>1. PICK c1 \in Int : c1 = up(1, k)
  BY DEF Words
<1>2. PICK c2 \in Int : c2 = up(2, c1)
  BY DEF Words
<1>3. PICK c3 \in Int : c3 = up(3, c2)
  BY DEF Words
<1>4. PICK c4 \in Int : c4 = up(4, c3)
  BY DEF Words
<1>5. PICK c5 \in Int : c5 = up(5, c4)
  BY DEF Words
<1>6. PICK c6 \in Int : c6 = up(6, c5)
  BY DEF Words
<1>7. PICK c7 \in Int : c7 = up(7, c6)
  BY DEF Words
<1>8. PICK c8 \in Int : c8 = up(8, c7)
  BY DEF Words
<1>9. PICK c : c = [i \in 0 .. 8 |-> IF i = 0 THEN k ELSE IF i = 1 THEN c1 ELSE IF i = 2 THEN c2 ELSE IF i = 3 THEN c3
                     ELSE IF i = 4 THEN c4 ELSE IF i = 5 THEN c5 ELSE IF i = 6 THEN c6 ELSE IF i = 7 THEN c7 ELSE c8]
  OBVIOUS
<1>10. \A i \in 0 .. 8 : c[i] = IF i = 0 THEN k ELSE (w[i] + c[i - 1]) \div 256
  <2>1. /\ c[0] = k /\ c[1] = c1 /\ c[2] = c2 /\ c[3] = c3 /\ c[4] = c4 /\ c[5] = c5
        /\ c[6] = c6 /\ c[7] = c7 /\ c[8] = c8
    BY <1>9
  <2>2. \A i \in 0 .. 8 : i = 0 \/ i = 1 \/ i = 2 \/ i = 3 \/ i = 4 \/ i = 5 \/ i = 6 \/ i = 7 \/ i = 8
    OBVIOUS
  <2>3. /\ c[1] = up(1, c[1 - 1]) /\ c[2] = up(2, c[2 - 1]) /\ c[3] = up(3, c[3 - 1])
        /\ c[4] = up(4, c[4 - 1]) /\ c[5] = up(5, c[5 - 1]) /\ c[6] = up(6, c[6 - 1])
        /\ c[7] = up(7, c[7 - 1]) /\ c[8] = up(8, c[8 - 1])
    <3>1. /\ c[1 - 1] = k /\ c[2 - 1] = c1 /\ c[3 - 1] = c2 /\ c[4 - 1] = c3 /\ c[5 - 1] = c4
          /\ c[6 - 1] = c5 /\ c[7 - 1] = c6 /\ c[8 - 1] = c7
      BY <2>1
    <3> HIDE DEF up
    <3>2. QED BY <1>1, <1>2, <1>3, <1>4, <1>5, <1>6, <1>7, <1>8, <2>1, <3>1
  <2>4. QED BY <2>1, <2>2, <2>3
<1>11. QED BY <1>9, <1>10 DEF Unfolds

LEMMA WordPlusIs ==
    ASSUME NEW w \in Words, NEW k \in Int
    PROVE  WordPlus(w, k) \in Words
<1>1. PICK c : c = CHOOSE d : Unfolds(d, w, k)
  OBVIOUS
<1>2. Unfolds(c, w, k)
  BY <1>1, Carries
<1>3. WordPlus(w, k) = Carried(w, CHOOSE d : Unfolds(d, w, k))
  BY DEF WordPlus, Unfolds, Carried
<1>4. \A i \in 0 .. 8 : c[i] = IF i = 0 THEN k ELSE (w[i] + c[i - 1]) \div 256
  BY <1>2 DEF Unfolds
<1>5. \A i \in 0 .. 7 : c[i] \in Int
  <2>0. \A i \in 1 .. 7 : c[i - 1] \in Int => c[i] \in Int
    BY <1>4 DEF Words
  <2>1. c[0] \in Int
    BY <1>4
  <2>2. QED BY <2>0, <2>1
<1>6. QED BY <1>1, <1>3, <1>5 DEF Words, Carried

-----------------------------------------------------------------------------
(* The bytes an operation is written as.                                   *)

\* what the client may add: whether a load records its data has been chosen
Storable(o) == Operation(o) /\ DataChosen(o)

Length(o) == IF o.opNum = 0 THEN 9 ELSE 20 + o.dataSize
IsBinary(b, o) ==
  /\ IsBytes(b, Length(o))
  /\ o.opNum = 0 => b[1] = 0 /\ \A k \in 1 .. 8 : b[1 + k] = o.addr[k]
  /\ o.opNum # 0 =>
       /\ b[1] = o.opNum
       /\ b[2] = (o.pid % 4096) \div 16
       /\ b[3] = (o.pid % 16) * 16 + (o.delay % 4096) \div 256
       /\ b[4] = o.delay % 256
       /\ \A k \in 1 .. 8 : b[4 + k] = o.pc[k]
       /\ b[13] = o.addr[1] + DataFlag(o)
       /\ \A k \in 2 .. 8 : b[12 + k] = o.addr[k]
       /\ \A k \in 1 .. o.dataSize : b[20 + k] = o.val[k]

LEMMA Four ==
    ASSUME NEW a \in Nat, NEW b \in Nat, NEW c \in Nat, NEW d \in Nat
    PROVE  /\ IsBytes(<< a, b, c, d >>, 4)
           /\ << a, b, c, d >>[1] = a /\ << a, b, c, d >>[2] = b
           /\ << a, b, c, d >>[3] = c /\ << a, b, c, d >>[4] = d
<1>1. PICK s : s = << a, b, c, d >>
  OBVIOUS
<1>2. s \in Seq(Nat) /\ Len(s) = 4 /\ 4 \in Nat /\ s[1] = a /\ s[2] = b /\ s[3] = c /\ s[4] = d
  BY <1>1
<1>3. QED BY <1>1, <1>2, SeqIsFcn

LEMMA One == IsBytes(<< 0 >>, 1) /\ << 0 >>[1] = 0
<1>1. PICK s : s = << 0 >>
  OBVIOUS
<1>2. s \in Seq(Nat) /\ Len(s) = 1 /\ 1 \in Nat /\ s[1] = 0
  BY <1>1
<1>3. QED BY <1>1, <1>2, SeqIsFcn

LEMMA WordBytes == ASSUME NEW w \in Words PROVE IsBytes(w, 8)
<1>1. 8 \in Nat /\ w \in [1 .. 8 -> Nat]
  BY DEF Words
<1>2. QED BY <1>1, FcnIsSeq

LEMMA DataBytes == ASSUME NEW v \in Bytes64 PROVE IsBytes(v, 64)
<1>1. 64 \in Nat /\ v \in [1 .. 64 -> Nat]
  BY DEF Bytes64
<1>2. QED BY <1>1, FcnIsSeq

\* The data of an operation, cleared beyond its size.
Cleared(v, o) ==
  /\ v \in Bytes64
  /\ \A k \in 1 .. o.dataSize : v[k] = o.val[k]
  /\ \A k \in o.dataSize + 1 .. 64 : v[k] = 0

LEMMA GetValIs ==
    ASSUME NEW o, Operation(o)
    PROVE  Cleared(getVal(o), o)
<1>1. PICK n \in Nat : n = o.dataSize /\ n <= 64
  BY DEF Operation, Ops
<1>2. PICK val \in Bytes64 : val = o.val
  BY DEF Operation, Ops
<1>3. 0 \in Nat /\ 64 \in Nat /\ 0 + n <= 64 /\ 0 + 1 = 1 /\ 0 + n = n /\ \A k \in 1 .. n : 0 + k = k
  BY <1>1
<1>4. PICK front : front = SubSeq(val, 1, n)
  OBVIOUS
<1>5. LiesIn(front, val, 0, n)
  <2>1. IsBytes(val, 64)
    BY DataBytes
  <2>2. LiesIn(SubSeq(val, 0 + 1, 0 + n), val, 0, n)
    BY <1>3, <2>1, Window
  <2>3. QED BY <1>3, <1>4, <2>2
<1>6. IsBytes(front, n) /\ Len(front) = n /\ \A k \in 1 .. n : front[k] = val[k]
  BY <1>3, <1>5 DEF LiesIn, IsBytes
<1>7. PICK v : v = front \o SubSeq(Zero64, Len(front) + 1, 64)
  OBVIOUS
<1>8. IsBytes(Zero64, 64) /\ \A k \in 1 .. 64 : Zero64[k] = 0
  BY Zeros, DataBytes
<1>9. /\ IsBytes(v, 64) /\ \A k \in 1 .. n : v[k] = front[k]
      /\ \A k \in n + 1 .. 64 : v[k] = Zero64[k]
  <2>1. LET u == front \o SubSeq(Zero64, Len(front) + 1, 64)
        IN  /\ IsBytes(u, 64)
            /\ \A k \in 1 .. n : u[k] = front[k]
            /\ \A k \in n + 1 .. 64 : u[k] = Zero64[k]
    <3>1. n \in Nat /\ n <= 64 /\ IsBytes(front, n) /\ IsBytes(Zero64, 64)
      BY <1>1, <1>6, <1>8
    <3>2. QED BY <3>1, Overlaid
  <2>2. QED BY <1>7, <2>1
<1>10. getVal(o) = v
  BY <1>1, <1>2, <1>4, <1>6, <1>7 DEF getVal
<1>11. v \in Bytes64
  BY <1>9 DEF IsBytes, Bytes64
<1>12. \A k \in n + 1 .. 64 : k \in 1 .. 64
  OBVIOUS
<1>13. Cleared(v, o)
  BY <1>1, <1>2, <1>6, <1>8, <1>9, <1>11, <1>12 DEF Cleared
<1>14. QED BY <1>10, <1>13

LEMMA FlagIs == ASSUME NEW o PROVE DataFlag(o) \in {0, 1}
BY DEF DataFlag

LEMMA BinaryIs ==
    ASSUME NEW o, Operation(o)
    PROVE  IsBinary(getBinary(o), o)
<1>1. /\ o.pid \in Nat /\ o.delay \in Nat /\ o.pc \in Words /\ o.addr \in Aligned
      /\ o.addr \in Words /\ o.addr[1] \in Nat
  BY DEF Operation, Ops, Aligned, Words
<1>2. MaskLow3(o.addr) = o.addr
  <2>1. PICK w \in Aligned : w = o.addr /\ w \in Words /\ w[1] \in Nat
    BY <1>1
  <2>2. 0 \in {0, 1} /\ w[1] = w[1] + 0
    BY <2>1
  <2>3. MaskLow3(w) = w
    BY <2>1, <2>2, MaskedAgain
  <2>4. QED BY <2>1, <2>3
<1>3. CASE o.opNum = 0
  <2>1. PICK b : b = << 0 >> \o o.addr
    OBVIOUS
  <2>2. getBinary(o) = b
    BY <1>2, <1>3, <2>1 DEF getBinary, getLCBinary, OPNUM_LIVECACHE
  <2>3. IsBytes(o.addr, 8) /\ 1 \in Nat /\ 8 \in Nat
    BY <1>1, WordBytes
  <2>4. Appended(b, << 0 >>, 1, o.addr, 8)
    BY <2>1, <2>3, One, JoinedBytes
  <2>5. IsBytes(b, 9) /\ b[1] = 0 /\ \A k \in 1 .. 8 : b[1 + k] = o.addr[k]
    BY <2>4, One DEF Appended
  <2>6. QED BY <1>3, <2>2, <2>5 DEF IsBinary, Length
<1>4. CASE o.opNum # 0
  <2>1. o.opNum \in LoadNums \cup StoreNums
    BY <1>4 DEF Operation, Fits
  <2>2. o.opNum \in Nat /\ o.opNum % 256 = o.opNum
    BY <2>1, Kinds
  <2>3. PICK n \in Nat : n = o.dataSize /\ n <= 64
    BY DEF Operation, Ops
  <2>4. PICK b2 \in Nat, b3 \in Nat, b4 \in Nat :
          /\ b2 = (o.pid % 4096) \div 16 /\ b4 = o.delay % 256
          /\ b3 = (o.pid % 16) * 16 + (o.delay % 4096) \div 256
    BY <1>1
  <2>5. PICK fst : fst = << o.opNum, b2, b3, b4 >>
    OBVIOUS
  <2>6. IsBytes(fst, 4) /\ fst[1] = o.opNum /\ fst[2] = b2 /\ fst[3] = b3 /\ fst[4] = b4
    BY <2>2, <2>5, Four
  <2>7. PICK a : a = [o.addr EXCEPT ![1] = @ + DataFlag(o)]
    OBVIOUS
  <2>8. a \in Words /\ a[1] = o.addr[1] + DataFlag(o) /\ \A k \in 2 .. 8 : a[k] = o.addr[k]
    <3>1. PICK f \in Nat : f = DataFlag(o)
      BY FlagIs
    <3>2. PICK w \in Words : w = o.addr
      BY <1>1
    <3>3. PICK x \in Nat : x = w[1] + f
      BY <3>2 DEF Words
    <3>4. a = [w EXCEPT ![1] = x]
      BY <2>7, <3>1, <3>2, <3>3
    <3>5. a \in Words /\ a[1] = x /\ \A k \in 2 .. 8 : a[k] = w[k]
      BY <3>4 DEF Words
    <3>6. QED BY <3>1, <3>2, <3>3, <3>5
  <2>9. PICK d : d = SubSeq(getVal(o), 1, n)
    OBVIOUS
  <2>10. IsBytes(d, n) /\ \A k \in 1 .. n : d[k] = o.val[k]
    <3>1. PICK v : v = getVal(o) /\ v \in Bytes64 /\ \A k \in 1 .. n : v[k] = o.val[k]
      BY <2>3, GetValIs DEF Cleared
    <3>2. 0 \in Nat /\ 64 \in Nat /\ 0 + n <= 64 /\ 0 + 1 = 1 /\ 0 + n = n /\ \A k \in 1 .. n : 0 + k = k
      BY <2>3
    <3>3. IsBytes(v, 64)
      BY <3>1, DataBytes
    <3>4. LiesIn(SubSeq(v, 0 + 1, 0 + n), v, 0, n)
      BY <3>2, <3>3, Window
    <3>5. LiesIn(d, v, 0, n)
      BY <2>9, <3>1, <3>2, <3>4
    <3>6. QED BY <3>1, <3>2, <3>5 DEF LiesIn
  <2>11. PICK x, y, b : x = fst \o o.pc /\ y = x \o a /\ b = y \o d
    OBVIOUS
  <2>12. getBinary(o) = b
    <3>1. AddressBytes(o) = a
      BY <1>2, <2>7 DEF AddressBytes
    <3>2. Leading(o) = fst
      BY <2>2, <2>4, <2>5 DEF Leading, Field12
    <3>3. SubSeq(getVal(o), 1, o.dataSize) = d
      BY <2>3, <2>9
    <3>4. o.opNum # OPNUM_LIVECACHE
      BY <1>4 DEF OPNUM_LIVECACHE
    <3>5. getBinary(o) = Leading(o) \o o.pc \o AddressBytes(o) \o SubSeq(getVal(o), 1, o.dataSize)
      BY <3>4 DEF getBinary
    <3>6. QED BY <2>11, <3>1, <3>2, <3>3, <3>5
  <2>13. 4 \in Nat /\ 8 \in Nat /\ 12 \in Nat /\ 20 \in Nat
    OBVIOUS
  <2>14. Appended(x, fst, 4, o.pc, 8)
    BY <1>1, <2>6, <2>11, <2>13, WordBytes, JoinedBytes
  <2>15. IsBytes(x, 12)
    BY <2>14 DEF Appended
  <2>16. Appended(y, x, 12, a, 8)
    BY <2>8, <2>11, <2>13, <2>15, WordBytes, JoinedBytes
  <2>17. IsBytes(y, 20)
    BY <2>16 DEF Appended
  <2>18. Appended(b, y, 20, d, n)
    BY <2>10, <2>11, <2>13, <2>17, JoinedBytes
  <2>19. \A k \in 1 .. 4 : b[k] = fst[k]
    <3>1. \A k \in 1 .. 4 : k \in 1 .. 12 /\ k \in 1 .. 20
      OBVIOUS
    <3>2. QED BY <2>14, <2>16, <2>18, <3>1 DEF Appended
  <2>20. \A k \in 1 .. 8 : b[4 + k] = o.pc[k]
    <3>1. \A k \in 1 .. 8 : 4 + k \in 1 .. 12 /\ 4 + k \in 1 .. 20
      OBVIOUS
    <3>2. QED BY <2>14, <2>16, <2>18, <3>1 DEF Appended
  <2>21. \A k \in 1 .. 8 : b[12 + k] = a[k]
    <3>1. \A k \in 1 .. 8 : 12 + k \in 1 .. 20
      OBVIOUS
    <3>2. QED BY <2>16, <2>18, <3>1 DEF Appended
  <2>22. IsBytes(b, 20 + n) /\ \A k \in 1 .. n : b[20 + k] = d[k]
    BY <2>18 DEF Appended
  <2>23. b[1] = o.opNum /\ b[2] = b2 /\ b[3] = b3 /\ b[4] = b4
    BY <2>6, <2>19
  <2>24. b[13] = a[1] /\ \A k \in 2 .. 8 : b[12 + k] = a[k]
    BY <2>21
  <2>25. IsBytes(b, Length(o))
    BY <1>4, <2>3, <2>22 DEF Length
  <2>26. IsBinary(b, o)
    BY <1>4, <2>3, <2>4, <2>8, <2>10, <2>20, <2>22, <2>23, <2>24, <2>25 DEF IsBinary
  <2>27. QED BY <2>12, <2>26
<1>5. QED BY <1>3, <1>4

-----------------------------------------------------------------------------
(* Reading them.                                                           *)

LEMMA FreshFields ==
    /\ Operation(FreshOperation) /\ FreshOperation.val = Zero64 /\ FreshOperation.dataSize = 0
    /\ ~FreshOperation.ldData /\ FreshOperation.opType = "load" /\ FreshOperation.opNum = 0
    /\ FreshOperation.pid \in Nat /\ FreshOperation.pc = Zero8
BY FreshIs DEF FreshOperation

\* The operation that the twenty fixed bytes of b tell of.
FixedOf(f, b) ==
  /\ Operation(f) /\ f.opNum = b[1] /\ f.opCode = opcodeMap[b[1]] /\ f.val = Zero64
  /\ b[1] \in LoadNums => /\ f.opType = "load"
                          /\ b[13] % 2 = 1 => f.ldData /\ f.dataSize = LoadSize(b[1])
                          /\ b[13] % 2 # 1 => ~f.ldData /\ f.dataSize = 0
  /\ b[1] \in StoreNums => /\ f.opType = "store" /\ f.dataSize = StoreSize(b[1])
                           /\ b[13] % 2 # 1 => ~f.ldData
  /\ f.pid = b[2] * 16 + b[3] \div 16 /\ f.delay = (b[3] % 16) * 256 + b[4]
  /\ f.pc = SubSeq(b, 5, 12) /\ f.addr = MaskLow3(SubSeq(b, 13, 20))

LEMMA FixedIs ==
    ASSUME NEW b, IsBytes(b, 84), b[1] \in LoadNums \cup StoreNums
    PROVE  FixedOf(setFromBinary(FreshOperation, b), b)
<1>1. PICK n \in LoadNums \cup StoreNums : n = b[1]
  OBVIOUS
<1>2. PICK coded : coded = IF getOpTypeByOpNum(n) = "load" THEN setLoadOpCode(FreshOperation, opcodeMap[n])
                           ELSE setStoreOpCode(FreshOperation, opcodeMap[n])
  OBVIOUS
<1>3. /\ Operation(coded) /\ coded.opNum = n /\ coded.opCode = opcodeMap[n] /\ coded.val = Zero64
      /\ ~coded.ldData
      /\ n \in LoadNums => coded.opType = "load"
      /\ n \in StoreNums => coded.opType = "store" /\ coded.dataSize = StoreSize(n)
  <2>1. CASE n \in LoadNums
    <3>1. PICK c \in DOMAIN loadOpnumMap : c = opcodeMap[n] /\ loadOpnumMap[c] = n
      BY <2>1, LoadNumbers
    <3>2. n \notin StoreNums /\ coded = setLoadOpCode(FreshOperation, c)
      BY <1>2, <2>1, <3>1, Kinds
    <3>3. QED BY <2>1, <3>1, <3>2, FreshFields, SetLoadIs
  <2>2. CASE n \notin LoadNums
    <3>1. PICK c \in DOMAIN storeOpnumMap : c = opcodeMap[n] /\ storeOpnumMap[c] = n
      BY <2>2, StoreNumbers
    <3>2. coded = setStoreOpCode(FreshOperation, c)
      BY <1>2, <2>2, <3>1, Kinds
    <3>3. QED BY <2>2, <3>1, <3>2, FreshFields, SetStoreIs
  <2>3. QED BY <2>1, <2>2
<1>4. PICK flags : flags = IF b[13] % 2 = 1 THEN setLoadNeedData(coded) ELSE setLoadNoData(coded)
  OBVIOUS
<1>5. /\ Operation(flags) /\ flags.opNum = n /\ flags.opCode = opcodeMap[n] /\ flags.val = Zero64
      /\ n \in LoadNums => /\ flags.opType = "load"
                           /\ b[13] % 2 = 1 => flags.ldData /\ flags.dataSize = LoadSize(n)
                           /\ b[13] % 2 # 1 => ~flags.ldData /\ flags.dataSize = 0
      /\ n \in StoreNums => /\ flags.opType = "store" /\ flags.dataSize = StoreSize(n)
                            /\ b[13] % 2 # 1 => ~flags.ldData
  <2>1. n \in LoadNums => n \notin StoreNums
    BY Kinds
  <2>2. CASE b[13] % 2 = 1
    <3>1. ~NeedDataExits(coded)
      BY <1>3 DEF NeedDataExits
    <3>2. flags = setLoadNeedData(coded)
      BY <1>4, <2>2
    <3>3. QED BY <1>3, <2>1, <2>2, <3>1, <3>2, SetNeedIs
  <2>3. CASE b[13] % 2 # 1
    <3>1. flags = setLoadNoData(coded)
      BY <1>4, <2>3
    <3>2. QED BY <1>3, <2>1, <2>3, <3>1, SetNoDataIs
  <2>4. QED BY <2>2, <2>3
<1>6. b[2] \in Nat /\ b[3] \in Nat /\ b[4] \in Nat
  BY DEF IsBytes
<1>7. PICK pid \in Nat, delay \in Nat : pid = b[2] * 16 + b[3] \div 16 /\ delay = (b[3] % 16) * 256 + b[4]
  BY <1>6
<1>8. 84 \in Nat /\ 4 \in Nat /\ 8 \in Nat /\ 12 \in Nat
  OBVIOUS
<1>9. PICK pc \in Words : pc = SubSeq(b, 5, 12)
  <2>1. LiesIn(SubSeq(b, 4 + 1, 4 + 8), b, 4, 8)
    BY <1>8, Window
  <2>2. 4 + 1 = 5 /\ 4 + 8 = 12
    OBVIOUS
  <2>3. QED BY <2>1, <2>2 DEF LiesIn, IsBytes, Words
<1>10. PICK addr \in Words : addr = SubSeq(b, 13, 20)
  <2>1. LiesIn(SubSeq(b, 12 + 1, 12 + 8), b, 12, 8)
    BY <1>8, Window
  <2>2. 12 + 1 = 13 /\ 12 + 8 = 20
    OBVIOUS
  <2>3. QED BY <2>1, <2>2 DEF LiesIn, IsBytes, Words
<1>11. PICK f : f = setHeader(flags, pid, delay, pc, addr)
  OBVIOUS
<1>12. setFromBinary(FreshOperation, b) = f
  BY <1>1, <1>2, <1>4, <1>7, <1>9, <1>10, <1>11 DEF setFromBinary
<1>13. /\ Operation(f) /\ SameKind(f, flags) /\ f.val = flags.val
       /\ f.pid = pid /\ f.delay = delay /\ f.pc = pc /\ f.addr = MaskLow3(addr)
  <2>1. Operation(flags)
    BY <1>5
  <2>2. HeaderSet(f, flags, pid, delay, pc, addr)
    BY <1>11, <2>1, SetHeaderIs
  <2>3. QED BY <2>2 DEF HeaderSet
<1>14. FixedOf(f, b)
  BY <1>1, <1>5, <1>7, <1>9, <1>10, <1>13 DEF FixedOf, SameKind
<1>15. QED BY <1>12, <1>14

\* What get makes of the bytes of a load or a store: the data, filled up with zeros.
GotOf(r, f, b) ==
  /\ Operation(r) /\ SameKind(r, f)
  /\ r.pid = f.pid /\ r.delay = f.delay /\ r.pc = f.pc /\ r.addr = f.addr
  /\ \A k \in 1 .. f.dataSize : r.val[k] = b[20 + k]
  /\ \A k \in f.dataSize + 1 .. 64 : r.val[k] = 0

LEMMA GetMemory ==
    ASSUME NEW b, IsBytes(b, 84), b[1] \in LoadNums \cup StoreNums
    PROVE  \E f : FixedOf(f, b) /\ GotOf(get(b), f, b)
<1>1. PICK f : f = setFromBinary(FreshOperation, b) /\ FixedOf(f, b)
  BY FixedIs
<1>2. PICK n \in Nat : n = f.dataSize /\ n <= 64
  BY <1>1 DEF FixedOf, Operation, Ops
<1>3. PICK data : data = SubSeq(b, FixedBytes + 1, FixedBytes + f.dataSize)
  OBVIOUS
<1>4. IsBytes(data, n) /\ \A k \in 1 .. n : data[k] = b[20 + k]
  <2>1. 84 \in Nat /\ 20 \in Nat /\ 20 + n <= 84
    BY <1>2
  <2>2. LiesIn(SubSeq(b, 20 + 1, 20 + n), b, 20, n)
    BY <2>1, Window
  <2>3. data = SubSeq(b, 20 + 1, 20 + n)
    BY <1>2, <1>3 DEF FixedBytes
  <2>4. QED BY <2>2, <2>3 DEF LiesIn
<1>5. PICK p \in Nat : p = (8 - (n % 8)) % 8 /\ p <= 8 /\ n + p <= 64
  BY <1>2
<1>6. PICK pad : pad = SubSeq(Zero8, 1, p)
  OBVIOUS
<1>7. IsBytes(pad, p) /\ \A k \in 1 .. p : pad[k] = 0
  <2>1. Zero8 \in Words /\ IsBytes(Zero8, 8) /\ \A k \in 1 .. 8 : Zero8[k] = 0
    <3>1. Zero8 \in Words
      BY Zeros DEF Aligned
    <3>2. QED BY <3>1, WordBytes DEF Zero8
  <2>2. 8 \in Nat /\ 0 \in Nat /\ 0 + p <= 8 /\ 0 + 1 = 1 /\ 0 + p = p /\ \A k \in 1 .. p : 0 + k = k /\ k \in 1 .. 8
    BY <1>5
  <2>3. LiesIn(SubSeq(Zero8, 0 + 1, 0 + p), Zero8, 0, p)
    BY <2>1, <2>2, Window
  <2>4. LiesIn(pad, Zero8, 0, p)
    BY <1>6, <2>2, <2>3
  <2>5. QED BY <2>1, <2>2, <2>4 DEF LiesIn
<1>8. PICK bytes : bytes = data \o pad
  OBVIOUS
<1>9. Appended(bytes, data, n, pad, p)
  BY <1>4, <1>7, <1>8, JoinedBytes
<1>10. /\ IsBytes(bytes, n + p) /\ \A k \in 1 .. n : bytes[k] = b[20 + k]
       /\ \A k \in 1 .. p : bytes[n + k] = 0
  BY <1>4, <1>7, <1>9 DEF Appended
<1>11. PICK r : r = setVal(f, bytes)
  OBVIOUS
<1>12. getOpTypeByOpNum(b[1]) # "lc"
  BY Kinds
<1>13. Len(data) = n
  BY <1>4 DEF IsBytes
<1>14. get(b) = r
  BY <1>1, <1>3, <1>5, <1>6, <1>8, <1>11, <1>12, <1>13 DEF get
<1>15. PICK l \in Nat : l = n + p /\ l <= 64
  BY <1>5
<1>16. Operation(f) /\ f \in Ops /\ f.val = Zero64
  BY <1>1 DEF FixedOf, Operation
<1>17. /\ Operation(r) /\ SameKind(r, f) /\ r = [f EXCEPT !.val = r.val] /\ r.val \in Bytes64
       /\ \A k \in 1 .. l : r.val[k] = bytes[k]
       /\ \A k \in l + 1 .. 64 : r.val[k] = f.val[k]
  <2>1. IsBytes(bytes, l)
    BY <1>10, <1>15
  <2>2. QED BY <1>11, <1>15, <1>16, <2>1, SetValIs
<1>18. r.pid = f.pid /\ r.delay = f.delay /\ r.pc = f.pc /\ r.addr = f.addr
  <2>1. PICK v : v = r.val /\ r = [f EXCEPT !.val = v]
    BY <1>17
  <2>2. QED BY <1>16, <2>1 DEF Ops
<1>19. \A k \in 1 .. n : r.val[k] = b[20 + k]
  <2>1. \A k \in 1 .. n : k \in 1 .. l
    BY <1>15
  <2>2. QED BY <1>10, <1>17, <2>1
<1>20. ASSUME NEW k \in n + 1 .. 64 PROVE r.val[k] = 0
  <2>1. CASE k <= l
    <3>1. PICK j \in 1 .. p : n + j = k /\ k \in 1 .. l
      BY <1>15, <2>1
    <3>2. bytes[n + j] = 0 /\ r.val[k] = bytes[k]
      BY <1>10, <1>17, <3>1
    <3>3. QED BY <3>1, <3>2
  <2>2. CASE k > l
    <3>1. k \in l + 1 .. 64 /\ k \in 1 .. 64
      BY <2>2
    <3>2. r.val[k] = f.val[k] /\ Zero64[k] = 0
      BY <1>17, <3>1, Zeros
    <3>3. QED BY <1>16, <3>2
  <2>3. QED BY <2>1, <2>2, <1>15
<1>21. GotOf(r, f, b)
  BY <1>2, <1>17, <1>18, <1>19, <1>20 DEF GotOf
<1>22. QED BY <1>1, <1>14, <1>21

LEMMA Twelve ==
    ASSUME NEW pid \in Nat, NEW delay \in Nat, NEW b2, NEW b3, NEW b4,
           b2 = (pid % 4096) \div 16, b3 = (pid % 16) * 16 + (delay % 4096) \div 256, b4 = delay % 256
    PROVE  b2 * 16 + b3 \div 16 = pid % 4096 /\ (b3 % 16) * 256 + b4 = delay % 4096
<1>0. ASSUME NEW p \in Nat, NEW n \in {16, 256}, NEW x \in Int, NEW y \in Int, x = p \div n, y = p % n
      PROVE  p = n * x + y /\ x \in Nat /\ y \in 0 .. n - 1
  <2>1. CASE n = 16
    BY <1>0, <2>1
  <2>2. CASE n = 256
    BY <1>0, <2>2
  <2>3. QED BY <2>1, <2>2
<1>1. PICK p \in Nat, x \in Int, y \in Int : p = pid % 4096 /\ x = p \div 16 /\ y = p % 16
  OBVIOUS
<1>1a. p = 16 * x + y /\ x \in Nat /\ y \in 0 .. 15
  BY <1>0, <1>1
<1>2. PICK d \in Nat, u \in Int, v \in Int : d = delay % 4096 /\ u = d \div 256 /\ v = d % 256
  OBVIOUS
<1>2a. d = 256 * u + v /\ u \in Nat /\ v \in 0 .. 255 /\ d < 4096
  BY <1>0, <1>2
<1>3. pid % 16 = y /\ b2 = x
  BY <1>1
<1>4. u \in 0 .. 15 /\ b4 = v
  BY <1>2, <1>2a
<1>5. b3 = y * 16 + u
  BY <1>2, <1>3
<1>6. b3 \div 16 = y /\ b3 % 16 = u
  BY <1>1a, <1>4, <1>5
<1>7. QED BY <1>1, <1>1a, <1>2, <1>2a, <1>3, <1>4, <1>6

\* The fixed bytes of an operation tell all of it but its data.
LEMMA FixedAgree ==
    ASSUME NEW o, Storable(o), o.opNum # 0, NEW bin, IsBinary(bin, o), NEW b, IsBytes(b, 84),
           \A k \in 1 .. 20 : b[k] = bin[k], NEW f, FixedOf(f, b)
    PROVE  /\ f.opNum = o.opNum /\ f.opCode = o.opCode /\ f.opType = o.opType
           /\ f.dataSize = o.dataSize /\ (f.ldData <=> (o.opType = "load" /\ o.dataSize > 0))
           /\ f.pid = o.pid % 4096 /\ f.delay = o.delay % 4096 /\ f.pc = o.pc /\ f.addr = o.addr
<1>1. PICK n \in LoadNums \cup StoreNums : n = o.opNum
  BY DEF Storable, Operation, Fits
<1>2. /\ o.pid \in Nat /\ o.delay \in Nat /\ o.pc \in Words /\ o.addr \in Aligned /\ o.addr \in Words
      /\ o.dataSize \in 0 .. 64 /\ o.ldData \in BOOLEAN /\ o.addr[1] \in Nat /\ o.addr[1] % 8 = 0
  BY DEF Storable, Operation, Ops, Aligned, Words
<1>3. /\ b[1] = n /\ b[2] = (o.pid % 4096) \div 16 /\ b[4] = o.delay % 256
      /\ b[3] = (o.pid % 16) * 16 + (o.delay % 4096) \div 256
      /\ b[13] = o.addr[1] + DataFlag(o)
      /\ \A k \in 1 .. 8 : b[4 + k] = o.pc[k]
      /\ \A k \in 2 .. 8 : b[12 + k] = o.addr[k]
  <2>1. \A k \in 1 .. 8 : 4 + k \in 1 .. 20 /\ 12 + k \in 1 .. 20
    OBVIOUS
  <2>2. 1 \in 1 .. 20 /\ 2 \in 1 .. 20 /\ 3 \in 1 .. 20 /\ 4 \in 1 .. 20 /\ 13 \in 1 .. 20
    OBVIOUS
  <2>3. QED BY <1>1, <2>1, <2>2 DEF IsBinary
<1>4. 84 \in Nat /\ 4 \in Nat /\ 8 \in Nat /\ 12 \in Nat /\ 4 + 1 = 5 /\ 4 + 8 = 12 /\ 12 + 1 = 13 /\ 12 + 8 = 20
      /\ 4 + 8 <= 84 /\ 12 + 8 <= 84
  OBVIOUS
<1>5. PICK pc \in Words : pc = SubSeq(b, 5, 12) /\ \A k \in 1 .. 8 : pc[k] = b[4 + k]
  <2>1. LiesIn(SubSeq(b, 4 + 1, 4 + 8), b, 4, 8)
    BY <1>4, Window
  <2>2. QED BY <1>4, <2>1 DEF LiesIn, IsBytes, Words
<1>6. pc = o.pc
  <2>1. PICK w \in Words : w = o.pc
    BY <1>2
  <2>2. \A k \in 1 .. 8 : pc[k] = w[k]
    BY <1>3, <1>5, <2>1
  <2>3. pc = w
    BY <2>2, SameWord
  <2>4. QED BY <2>1, <2>3
<1>7. PICK addr \in Words : addr = SubSeq(b, 13, 20) /\ \A k \in 1 .. 8 : addr[k] = b[12 + k]
  <2>1. LiesIn(SubSeq(b, 12 + 1, 12 + 8), b, 12, 8)
    BY <1>4, Window
  <2>2. QED BY <1>4, <2>1 DEF LiesIn, IsBytes, Words
<1>8. MaskLow3(addr) = o.addr /\ b[13] % 2 = DataFlag(o)
  <2>1. PICK w \in Aligned : w = o.addr
    BY <1>2
  <2>2. PICK bit \in {0, 1} : bit = DataFlag(o)
    BY FlagIs
  <2>3. addr[1] = w[1] + bit /\ addr[1] = b[13]
    BY <1>3, <1>7, <2>1, <2>2
  <2>4. \A k \in 2 .. 8 : addr[k] = w[k]
    BY <1>3, <1>7, <2>1
  <2>5. MaskLow3(addr) = w /\ addr[1] % 2 = bit
    BY <2>3, <2>4, MaskedAgain
  <2>6. QED BY <2>1, <2>2, <2>3, <2>5
<1>9. f.pid = o.pid % 4096 /\ f.delay = o.delay % 4096
  <2>1. f.pid = b[2] * 16 + b[3] \div 16 /\ f.delay = (b[3] % 16) * 256 + b[4]
    BY DEF FixedOf
  <2>2. PICK pid \in Nat, delay \in Nat, b2 \in Nat, b3 \in Nat, b4 \in Nat :
          /\ pid = o.pid /\ delay = o.delay /\ b2 = b[2] /\ b3 = b[3] /\ b4 = b[4]
    <3>1. b[2] \in Nat /\ b[3] \in Nat /\ b[4] \in Nat
      BY DEF IsBytes
    <3>2. QED BY <1>2, <3>1
  <2>3. /\ b2 = (pid % 4096) \div 16 /\ b3 = (pid % 16) * 16 + (delay % 4096) \div 256
        /\ b4 = delay % 256
    BY <1>3, <2>2
  <2>4. b2 * 16 + b3 \div 16 = pid % 4096 /\ (b3 % 16) * 256 + b4 = delay % 4096
    BY <2>3, Twelve
  <2>5. QED BY <2>1, <2>2, <2>4
<1>10. /\ f.opNum = n /\ f.opCode = opcodeMap[n] /\ f.pc = o.pc /\ f.addr = o.addr
  BY <1>3, <1>5, <1>6, <1>7, <1>8 DEF FixedOf
<1>11. n # 0 /\ (n \in LoadNums => n \notin StoreNums)
  BY Kinds
<1>12. o.opCode = opcodeMap[n]
  BY <1>1, <1>11 DEF Storable, Operation, Fits
<1>13. CASE n \in LoadNums
  <2>1. /\ o.opType = "load" /\ f.opType = "load"
        /\ o.dataSize = 0 \/ (o.dataSize = LoadSize(n) /\ o.ldData)
        /\ o.ldData => o.dataSize > 0
    BY <1>1, <1>3, <1>11, <1>13 DEF Storable, Operation, Fits, FixedOf, DataChosen
  <2>2. CASE o.ldData
    <3>1. b[13] % 2 = 1
      BY <1>8, <2>1, <2>2 DEF DataFlag
    <3>2. f.ldData /\ f.dataSize = LoadSize(n)
      BY <1>3, <1>13, <3>1 DEF FixedOf
    <3>3. o.dataSize = LoadSize(n) /\ o.dataSize > 0
      BY <1>2, <2>1, <2>2
    <3>4. QED BY <1>1, <1>9, <1>10, <1>12, <2>1, <3>2, <3>3
  <2>3. CASE ~o.ldData
    <3>1. b[13] % 2 = 0
      BY <1>8, <2>1, <2>3 DEF DataFlag
    <3>2. ~f.ldData /\ f.dataSize = 0
      BY <1>3, <1>13, <3>1 DEF FixedOf
    <3>3. o.dataSize = 0 /\ ~(o.dataSize > 0)
      BY <2>1, <2>3
    <3>4. QED BY <1>1, <1>9, <1>10, <1>12, <2>1, <3>2, <3>3
  <2>4. QED BY <2>2, <2>3
<1>14. CASE n \in StoreNums
  <2>1. o.opType = "store" /\ o.dataSize = StoreSize(n)
    BY <1>1, <1>11, <1>14 DEF Storable, Operation, Fits
  <2>2. b[13] % 2 = 0
    BY <1>8, <2>1 DEF DataFlag
  <2>3. f.opType = "store" /\ f.dataSize = StoreSize(n) /\ ~f.ldData
    BY <1>3, <1>14, <2>2 DEF FixedOf
  <2>4. QED BY <1>1, <1>9, <1>10, <1>12, <2>1, <2>3
<1>15. QED BY <1>13, <1>14

LEMMA SameOp ==
    ASSUME NEW r \in Ops, NEW q \in Ops,
           r.opCode = q.opCode, r.pid = q.pid, r.delay = q.delay, r.pc = q.pc, r.addr = q.addr,
           r.val = q.val, r.opNum = q.opNum, r.opType = q.opType, r.dataSize = q.dataSize,
           r.ldData <=> q.ldData
    PROVE  r = q
BY DEF Ops

\* What the reader is owed of a load or a store, field by field.
LEMMA RecordedMemory ==
    ASSUME NEW o, Operation(o), o.opNum # 0
    PROVE  LET q == Recorded(o)
           IN  /\ q \in Ops /\ q.opCode = o.opCode /\ q.pid = o.pid % 4096 /\ q.delay = o.delay % 4096
               /\ q.pc = o.pc /\ q.addr = o.addr /\ Cleared(q.val, o) /\ q.opNum = o.opNum
               /\ q.opType = o.opType /\ q.dataSize = o.dataSize
               /\ (q.ldData <=> (o.opType = "load" /\ o.dataSize > 0))
<1>1. PICK q : q = Recorded(o)
  OBVIOUS
<1>2. o \in Ops /\ o.pid \in Nat /\ o.delay \in Nat
  BY DEF Operation, Ops
<1>3. PICK v \in Bytes64 : v = getVal(o) /\ Cleared(v, o)
  BY GetValIs DEF Cleared
<1>4. PICK p \in Nat, d \in Nat : p = o.pid % 4096 /\ d = o.delay % 4096
  BY <1>2
<1>5. PICK l : l = (o.opType = "load" /\ o.dataSize > 0)
  OBVIOUS
<1>6. q = [o EXCEPT !.pid = p, !.delay = d, !.val = v, !.ldData = l]
  <2>1. o.opNum # OPNUM_LIVECACHE
    BY DEF OPNUM_LIVECACHE
  <2>2. q = [o EXCEPT !.pid = o.pid % 4096, !.delay = o.delay % 4096, !.val = getVal(o), !.ldData = l]
    BY <1>1, <1>5, <2>1 DEF Recorded, Field12
  <2>3. QED BY <1>3, <1>4, <2>2
<1>7. l \in BOOLEAN
  BY <1>5
<1>8. /\ q \in Ops /\ q.opCode = o.opCode /\ q.pid = p /\ q.delay = d
      /\ q.pc = o.pc /\ q.addr = o.addr /\ q.val = v /\ q.opNum = o.opNum
      /\ q.opType = o.opType /\ q.dataSize = o.dataSize /\ (q.ldData <=> l)
  BY <1>2, <1>6, <1>7 DEF Ops
<1>9. q.ldData <=> (o.opType = "load" /\ o.dataSize > 0)
  BY <1>5, <1>8, Zenon
<1>10. QED BY <1>1, <1>3, <1>4, <1>8, <1>9

\* b starts with the first m bytes that o is written as, m at least one.
StartsWith(b, o, m) ==
  /\ IsBytes(b, 84) /\ m \in Nat /\ m >= 1
  /\ \A k \in 1 .. Length(o) : k <= m => b[k] = getBinary(o)[k]

LEMMA Decoded ==
    ASSUME NEW o, Storable(o), NEW m, NEW b, StartsWith(b, o, m)
    PROVE  /\ getOpTypeByOpNum(b[1]) # "invalid"
           /\ get(b) \in Ops /\ Consumed(get(b)) \in Nat
           /\ m < Length(o) => m < Consumed(get(b))
           /\ m >= Length(o) => Consumed(get(b)) = Length(o) /\ get(b) = Recorded(o)
<1>1. PICK bin : bin = getBinary(o) /\ IsBinary(bin, o)
  BY BinaryIs DEF Storable
<1>2. /\ IsBytes(b, 84) /\ m \in Nat /\ m >= 1
      /\ \A k \in 1 .. Length(o) : k <= m => b[k] = bin[k]
  BY <1>1 DEF StartsWith
<1>3. PICK n \in Nat : n = o.dataSize /\ n <= 64
  BY DEF Storable, Operation, Ops
<1>4. Length(o) = IF o.opNum = 0 THEN 9 ELSE 20 + n
  BY <1>3 DEF Length
<1>5. b[1] = bin[1]
  <2>1. 1 \in 1 .. Length(o)
    BY <1>4
  <2>2. QED BY <1>2, <2>1
<1>6. CASE o.opNum = 0
  <2>1. b[1] = 0
    BY <1>1, <1>5, <1>6 DEF IsBinary
  <2>2. getOpTypeByOpNum(b[1]) = "lc"
    BY <2>1 DEF getOpTypeByOpNum, LoadNums, StoreNums, OPNUM_LIVECACHE
  <2>3. PICK w : w = MaskLow3(SubSeq(b, 2, 9))
    OBVIOUS
  <2>4. get(b) = [setLiveCacheOp(FreshOperation) EXCEPT !.addr = w]
    BY <2>2, <2>3 DEF get
  <2>5. PICK fresh \in Ops : fresh = setLiveCacheOp(FreshOperation) /\ fresh.opType = "lc"
    <3>1. PICK r : r = setLiveCacheOp(FreshOperation)
      OBVIOUS
    <3>2. r \in Ops
      BY <3>1, FreshIs, SetLiveCacheIs DEF Operation
    <3>3. r.opType = "lc"
      BY <3>1 DEF setLiveCacheOp, FreshOperation
    <3>4. QED BY <3>1, <3>2, <3>3
  <2>6. 84 \in Nat /\ 1 \in Nat /\ 8 \in Nat /\ 1 + 8 <= 84 /\ 1 + 1 = 2 /\ 1 + 8 = 9
    OBVIOUS
  <2>7. LiesIn(SubSeq(b, 1 + 1, 1 + 8), b, 1, 8)
    BY <1>2, <2>6, Window
  <2>8. PICK v \in Words : v = SubSeq(b, 2, 9) /\ \A k \in 1 .. 8 : v[k] = b[1 + k]
    BY <2>6, <2>7 DEF LiesIn, IsBytes, Words
  <2>9. w = MaskLow3(v) /\ w \in Aligned
    BY <2>3, <2>8, Masked
  <2>10. get(b) \in Ops /\ get(b).opType = "lc"
    BY <2>4, <2>5, <2>9 DEF Ops
  <2>11. Consumed(get(b)) = 9
    BY <2>10 DEF Consumed
  <2>12. ASSUME m >= 9 PROVE get(b) = Recorded(o)
    <3>1. PICK addr \in Aligned : addr = o.addr /\ addr \in Words
      BY DEF Storable, Operation, Ops, Aligned
    <3>2. \A k \in 1 .. 8 : 1 + k \in 1 .. Length(o) /\ 1 + k <= m
      BY <1>2, <1>4, <1>6, <2>12
    <3>3. \A k \in 1 .. 8 : v[k] = addr[k]
      BY <1>1, <1>2, <1>6, <2>8, <3>1, <3>2 DEF IsBinary
    <3>4. MaskLow3(v) = addr
      <4>1. addr[1] \in Nat /\ 0 \in {0, 1} /\ v[1] = addr[1] + 0
        BY <3>1, <3>3 DEF Words
      <4>2. QED BY <3>3, <4>1, MaskedAgain
    <3>5. Recorded(o) = [setLiveCacheOp(FreshOperation) EXCEPT !.addr = o.addr]
      BY <1>6 DEF Recorded, OPNUM_LIVECACHE
    <3>6. QED BY <2>4, <2>9, <3>1, <3>4, <3>5
  <2>13. QED BY <1>2, <1>4, <1>6, <2>2, <2>10, <2>11, <2>12
<1>7. CASE o.opNum # 0
  <2>1. b[1] = o.opNum
    BY <1>1, <1>5, <1>7 DEF IsBinary
  <2>2. b[1] \in LoadNums \cup StoreNums
    BY <1>7, <2>1 DEF Storable, Operation, Fits
  <2>3. PICK f : FixedOf(f, b) /\ GotOf(get(b), f, b)
    BY <1>2, <2>2, GetMemory
  <2>4. PICK r \in Ops : r = get(b) /\ GotOf(r, f, b)
    BY <2>3 DEF GotOf, Operation
  <2>5. f.dataSize \in 0 .. 64 /\ f.opType # "lc"
    BY <2>2, <2>3 DEF FixedOf, Operation, Ops
  <2>6. Consumed(r) = 20 + f.dataSize
    BY <2>4, <2>5 DEF Consumed, GotOf, SameKind, FixedBytes
  <2>7. getOpTypeByOpNum(b[1]) # "invalid"
    BY <2>2, Kinds
  <2>8. CASE m < 20
    BY <1>2, <1>3, <1>4, <1>7, <2>4, <2>5, <2>6, <2>7, <2>8
  <2>9. CASE m >= 20
    <3>1. \A k \in 1 .. 20 : b[k] = bin[k]
      <4>1. \A k \in 1 .. 20 : k \in 1 .. Length(o) /\ k <= m
        BY <1>2, <1>3, <1>4, <1>7, <2>9
      <4>2. QED BY <1>2, <4>1
    <3>2. /\ f.opNum = o.opNum /\ f.opCode = o.opCode /\ f.opType = o.opType
          /\ f.dataSize = n /\ (f.ldData <=> (o.opType = "load" /\ o.dataSize > 0))
          /\ f.pid = o.pid % 4096 /\ f.delay = o.delay % 4096 /\ f.pc = o.pc /\ f.addr = o.addr
      BY <1>1, <1>2, <1>3, <1>7, <2>3, <3>1, FixedAgree
    <3>3. Consumed(r) = Length(o) /\ Consumed(r) \in Nat
      BY <1>4, <1>7, <2>6, <3>2
    <3>4. ASSUME m >= Length(o) PROVE r = Recorded(o)
      <4>1. PICK q \in Ops :
              /\ q = Recorded(o) /\ q.opCode = o.opCode /\ q.pid = o.pid % 4096
              /\ q.delay = o.delay % 4096 /\ q.pc = o.pc /\ q.addr = o.addr /\ Cleared(q.val, o)
              /\ q.opNum = o.opNum /\ q.opType = o.opType /\ q.dataSize = o.dataSize
              /\ (q.ldData <=> (o.opType = "load" /\ o.dataSize > 0))
        BY <1>7, RecordedMemory DEF Storable
      <4>2. \A k \in 1 .. n : 20 + k \in 1 .. Length(o) /\ 20 + k <= m
        BY <1>2, <1>4, <1>7, <3>4
      <4>3. \A k \in 1 .. n : b[20 + k] = o.val[k]
        BY <1>1, <1>2, <1>3, <1>7, <4>2 DEF IsBinary
      <4>4. r \in Ops /\ r.val \in Bytes64 /\ q.val \in Bytes64
        BY <2>4, <4>1 DEF GotOf, Operation, Ops, Cleared
      <4>5. \A k \in 1 .. n : r.val[k] = q.val[k]
        BY <1>3, <2>4, <3>2, <4>1, <4>3 DEF GotOf, Cleared
      <4>6. \A k \in n + 1 .. 64 : r.val[k] = q.val[k]
        BY <1>3, <2>4, <3>2, <4>1 DEF GotOf, Cleared
      <4>7. \A k \in 1 .. 64 : r.val[k] = q.val[k]
        <5>1. \A k \in 1 .. 64 : k \in 1 .. n \/ k \in n + 1 .. 64
          OBVIOUS
        <5>2. QED BY <4>5, <4>6, <5>1
      <4>8. r.val = q.val
        BY <4>4, <4>7, SameData
      <4>9. /\ r.opCode = q.opCode /\ r.pid = q.pid /\ r.delay = q.delay /\ r.pc = q.pc /\ r.addr = q.addr
            /\ r.opNum = q.opNum /\ r.opType = q.opType /\ r.dataSize = q.dataSize
            /\ (r.ldData <=> q.ldData)
        BY <1>3, <2>4, <3>2, <4>1 DEF GotOf, SameKind
      <4>10. QED BY <4>1, <4>4, <4>8, <4>9, SameOp
    <3>5. QED BY <1>2, <2>4, <2>7, <3>3, <3>4
  <2>10. QED BY <1>2, <2>8, <2>9
<1>8. QED BY <1>6, <1>7

-----------------------------------------------------------------------------
(* Where the operations of a trace lie in its file.                        *)

\* at[i] bytes precede the operation after the i-th.
Offsets(at, w) ==
  /\ at \in [0 .. Len(w) -> Nat] /\ at[0] = 0
  /\ \A i \in 1 .. Len(w) : at[i] = at[i - 1] + Length(w[i])
  /\ \A i, j \in 0 .. Len(w) : i < j => at[i] < at[j]
Holds(at, w, f) ==
  \A i \in 1 .. Len(w) : \A k \in 1 .. Length(w[i]) :
    at[i - 1] + k <= Len(f) => f[at[i - 1] + k] = getBinary(w[i])[k]

\* The file is the operations written, or the first bytes of them.
LaidOut(at, w, f) == f \in Seq(Nat) /\ Offsets(at, w) /\ Holds(at, w, f) /\ Len(f) <= at[Len(w)]
Whole(at, w, f) == LaidOut(at, w, f) /\ Len(f) = at[Len(w)]

LEMMA Lengths == ASSUME NEW o \in Ops PROVE Length(o) \in Nat /\ Length(o) >= 1 /\ Length(o) <= 84
<1>1. o.dataSize \in 0 .. 64
  BY DEF Ops
<1>2. QED BY <1>1 DEF Length

LEMMA EmptyWhole == \E at : Whole(at, << >>, << >>)
<1>1. PICK at : at = [i \in 0 .. 0 |-> 0]
  OBVIOUS
<1>2. PICK e : e = << >> /\ e \in Seq(Nat) /\ Len(e) = 0
  <2>1. << >> \in Seq(Nat) /\ Len(<< >>) = 0
    BY EmptySeq
  <2>2. QED BY <2>1
<1>3. at \in [0 .. Len(e) -> Nat] /\ at[0] = 0
  BY <1>1, <1>2
<1>4. \A i, j \in 0 .. Len(e) : ~(i < j)
  BY <1>2
<1>5. Offsets(at, e)
  BY <1>2, <1>3, <1>4 DEF Offsets
<1>6. Holds(at, e, e)
  BY <1>2 DEF Holds
<1>7. Whole(at, e, e)
  BY <1>2, <1>3, <1>5, <1>6 DEF Whole, LaidOut
<1>8. QED BY <1>2, <1>7

LEMMA CutLaid ==
    ASSUME NEW at, NEW w, NEW f, LaidOut(at, w, f), Len(w) \in Nat, NEW n \in Nat, n <= Len(f)
    PROVE  LaidOut(at, w, SubSeq(f, 1, n)) /\ Len(SubSeq(f, 1, n)) = n
<1>1. f \in Seq(Nat) /\ Len(f) \in Nat /\ at[Len(w)] \in Nat
  BY LenProperties DEF LaidOut, Offsets
<1>2. PICK c : c = SubSeq(f, 1, n)
  OBVIOUS
<1>3. IsBytes(f, Len(f)) /\ 0 \in Nat /\ 0 + n <= Len(f) /\ 0 + 1 = 1 /\ 0 + n = n
      /\ \A k \in 1 .. n : 0 + k = k
  BY <1>1, SeqIsFcn
<1>4. LiesIn(SubSeq(f, 0 + 1, 0 + n), f, 0, n)
  BY <1>1, <1>3, Window
<1>5. LiesIn(c, f, 0, n)
  BY <1>2, <1>3, <1>4
<1>6. c \in Seq(Nat) /\ Len(c) = n /\ \A k \in 1 .. n : c[k] = f[k]
  BY <1>3, <1>5 DEF LiesIn, IsBytes
<1>7. Holds(at, w, c)
  <2>1. SUFFICES ASSUME NEW i \in 1 .. Len(w), NEW k \in 1 .. Length(w[i]), at[i - 1] + k <= n
                 PROVE  c[at[i - 1] + k] = getBinary(w[i])[k]
    BY <1>6 DEF Holds
  <2>2. PICK x \in Nat : x = at[i - 1]
    <3>1. i - 1 \in 0 .. Len(w)
      OBVIOUS
    <3>2. QED BY <3>1 DEF LaidOut, Offsets
  <2>3. x + k \in 1 .. n /\ x + k <= Len(f)
    <3>1. k \in Nat /\ k >= 1
      BY <2>1
    <3>2. x + k <= n
      BY <2>1, <2>2
    <3>3. PICK y \in Nat : y = x + k /\ y >= 1
      BY <3>1
    <3>4. PICK l \in Nat : l = Len(f) /\ n <= l
      BY <1>1
    <3>5. y \in 1 .. n /\ y <= l
      BY <3>2, <3>3, <3>4
    <3>6. QED BY <3>3, <3>4, <3>5
  <2>4. f[x + k] = getBinary(w[i])[k]
    BY <2>2, <2>3 DEF LaidOut, Holds
  <2>5. QED BY <1>6, <2>2, <2>3, <2>4
<1>8. n <= at[Len(w)]
  BY <1>1 DEF LaidOut
<1>9. QED BY <1>2, <1>6, <1>7, <1>8 DEF LaidOut

LEMMA AppendWhole ==
    ASSUME NEW w \in Seq(Ops), NEW f, NEW at, Whole(at, w, f), NEW o, Storable(o), o \in Ops
    PROVE  \E a : Whole(a, Append(w, o), f \o getBinary(o))
<1>1. PICK n \in Nat : n = Len(w)
  BY LenProperties
<1>2. PICK w2 : w2 = Append(w, o) /\ Len(w2) = n + 1 /\ w2[n + 1] = o /\ \A i \in 1 .. n : w2[i] = w[i]
  <2>1. o \in Ops
    OBVIOUS
  <2>2. /\ Len(Append(w, o)) = Len(w) + 1 /\ Append(w, o)[Len(w) + 1] = o
        /\ \A i \in 1 .. Len(w) : Append(w, o)[i] = w[i]
    BY <2>1, AppendProperties
  <2>3. QED BY <1>1, <2>2
<1>3. PICK L \in Nat : L = Length(o) /\ L >= 1
  BY Lengths DEF Storable
<1>4. PICK b : b = getBinary(o) /\ IsBytes(b, L)
  BY <1>3, BinaryIs DEF Storable, IsBinary
<1>5. PICK l \in Nat : l = Len(f) /\ l = at[n] /\ IsBytes(f, l)
  BY <1>1, LenProperties, SeqIsFcn DEF Whole, LaidOut
<1>6. PICK f2 : f2 = f \o b
  OBVIOUS
<1>7. Appended(f2, f, l, b, L)
  BY <1>4, <1>5, <1>6, JoinedBytes
<1>8. /\ f2 \in Seq(Nat) /\ Len(f2) = l + L
      /\ \A k \in 1 .. l : f2[k] = f[k]
      /\ \A k \in 1 .. L : f2[l + k] = b[k]
  BY <1>7 DEF Appended, IsBytes
<1>9. PICK a : a = [i \in 0 .. n + 1 |-> IF i <= n THEN at[i] ELSE l + L]
  OBVIOUS
<1>10. /\ at \in [0 .. n -> Nat] /\ at[0] = 0
       /\ \A i \in 1 .. n : at[i] = at[i - 1] + Length(w[i])
       /\ \A i, j \in 0 .. n : i < j => at[i] < at[j]
  BY <1>1 DEF Whole, LaidOut, Offsets
<1>11. (\A i \in 0 .. n : a[i] = at[i] /\ a[i] \in Nat) /\ a[n + 1] = l + L
  BY <1>9, <1>10
<1>12. \A i \in 0 .. n + 1 : i \in 0 .. n \/ i = n + 1
  OBVIOUS
<1>13. a \in [0 .. n + 1 -> Nat] /\ a[0] = 0
  BY <1>9, <1>10, <1>11, <1>12
<1>14. ASSUME NEW i \in 1 .. n + 1 PROVE a[i] = a[i - 1] + Length(w2[i])
  <2>1. CASE i = n + 1
    BY <1>2, <1>3, <1>5, <1>11, <2>1
  <2>2. CASE i # n + 1
    <3>1. i \in 1 .. n /\ i \in 0 .. n /\ i - 1 \in 0 .. n
      BY <2>2
    <3>2. QED BY <1>2, <1>10, <1>11, <3>1
  <2>3. QED BY <2>1, <2>2
<1>15. ASSUME NEW i \in 0 .. n + 1, NEW j \in 0 .. n + 1, i < j PROVE a[i] < a[j]
  <2>1. i \in 0 .. n
    BY <1>15
  <2>2. CASE j = n + 1
    <3>1. at[i] <= at[n]
      <4>1. CASE i = n
        BY <4>1, <1>5
      <4>2. CASE i < n
        <5>1. n \in 0 .. n /\ at[i] < at[n]
          BY <1>10, <2>1, <4>2
        <5>2. at[i] \in Nat /\ at[n] \in Nat
          BY <1>10, <2>1, <5>1
        <5>3. QED BY <5>1, <5>2
      <4>3. QED BY <2>1, <4>1, <4>2
    <3>2. at[i] \in Nat
      BY <1>10, <2>1
    <3>3. QED BY <1>3, <1>5, <1>11, <2>1, <2>2, <3>1, <3>2
  <2>3. CASE j # n + 1
    <3>1. j \in 0 .. n
      BY <2>3
    <3>2. QED BY <1>10, <1>11, <1>15, <2>1, <3>1
  <2>4. QED BY <2>2, <2>3
<1>16. Offsets(a, w2)
  BY <1>2, <1>13, <1>14, <1>15 DEF Offsets
<1>17. ASSUME NEW i \in 1 .. n + 1, NEW k \in 1 .. Length(w2[i])
       PROVE  f2[a[i - 1] + k] = getBinary(w2[i])[k]
  <2>1. i - 1 \in 0 .. n
    OBVIOUS
  <2>2. PICK x \in Nat : x = a[i - 1] /\ x = at[i - 1]
    BY <1>10, <1>11, <2>1
  <2>3. CASE i = n + 1
    <3>1. x = l /\ w2[i] = o /\ k \in 1 .. L
      BY <1>2, <1>3, <1>5, <2>2, <2>3
    <3>2. QED BY <1>4, <1>8, <2>2, <3>1
  <2>4. CASE i # n + 1
    <3>1. i \in 1 .. n /\ i \in 0 .. n
      BY <2>4
    <3>2. PICK y \in Nat : y = at[i] /\ y = x + Length(w[i])
      BY <1>10, <2>2, <3>1
    <3>3. y <= l
      <4>1. CASE i = n
        <5>1. at[i] = l
          BY <1>5, <4>1
        <5>2. y = l
          BY <3>2, <5>1
        <5>3. QED BY <5>2
      <4>2. CASE i < n
        <5>1. n \in 0 .. n /\ at[i] < at[n]
          BY <1>10, <3>1, <4>2
        <5>2. QED BY <1>5, <3>2, <5>1
      <4>3. QED BY <3>1, <4>1, <4>2
    <3>4. w2[i] = w[i] /\ k \in 1 .. Length(w[i]) /\ Length(w[i]) \in Nat
      <4>1. w[i] \in Ops /\ o \in Ops
        BY <1>1, <3>1, ElementOfSeq
      <4>3. Length(w[i]) \in Nat
        BY <4>1, Lengths
      <4>4. w2[i] = w[i]
        BY <1>2, <3>1
      <4>5. k \in 1 .. Length(w[i])
        BY <4>4
      <4>6. QED BY <4>3, <4>4, <4>5
    <3>5. x + k \in 1 .. l
      BY <3>2, <3>3, <3>4
    <3>6. f[x + k] = getBinary(w[i])[k]
      <4>1. Holds(at, w, f) /\ x + k <= Len(f)
        BY <1>5, <3>5 DEF Whole, LaidOut
      <4>2. QED BY <1>1, <2>2, <3>1, <3>4, <4>1 DEF Holds
    <3>7. QED BY <1>8, <2>2, <3>4, <3>5, <3>6
  <2>5. QED BY <2>3, <2>4
<1>18. Holds(a, w2, f2)
  BY <1>2, <1>17 DEF Holds
<1>19. Whole(a, w2, f2)
  BY <1>2, <1>8, <1>11, <1>16, <1>18 DEF Whole, LaidOut
<1>20. QED BY <1>2, <1>4, <1>6, <1>19

\* Offsets grow with the operations they precede.
LEMMA Ascending ==
    ASSUME NEW w, Len(w) \in Nat, NEW at, Offsets(at, w), NEW i \in 0 .. Len(w), NEW j \in 0 .. Len(w)
    PROVE  at[i] \in Nat /\ (i <= j <=> at[i] <= at[j])
<1>1. at[i] \in Nat /\ at[j] \in Nat /\ (i < j => at[i] < at[j]) /\ (j < i => at[j] < at[i])
  BY DEF Offsets
<1>2. CASE i = j
  BY <1>1, <1>2
<1>3. CASE i # j
  BY <1>1, <1>3
<1>4. QED BY <1>1, <1>2, <1>3

\* Reading on: an operation that the file holds whole is found again, and the
\* position is that of the next; one that is cut runs into the end of the file.
Starts(p, at, g) == p = at[g] + 1
Taken(b, f, pad, p) == b = SubSeq(f \o pad, p, p + 84 - 1)
Outcome(r, c, w, f, at, g, p) ==
  /\ g + 1 <= Len(w) /\ r \in Ops /\ c \in Nat
  /\ p + c - 1 <= Len(f) => r = Recorded(w[g + 1]) /\ Starts(p + c, at, g + 1)
  /\ p + c - 1 > Len(f) => Len(f) # at[Len(w)]

LEMMA ReadOn ==
    ASSUME NEW w \in Seq(Ops), \A i \in 1 .. Len(w) : Storable(w[i]), NEW f, NEW at, LaidOut(at, w, f),
           NEW g \in Nat, g <= Len(w), NEW p \in Nat, Starts(p, at, g), p <= Len(f),
           NEW pad \in [1 .. 84 -> Nat], NEW b, Taken(b, f, pad, p)
    PROVE  Outcome(get(b), Consumed(get(b)), w, f, at, g, p)
<1>1. PICK n \in Nat, l \in Nat : n = Len(w) /\ l = Len(f) /\ f \in Seq(Nat) /\ l <= at[n]
  BY LenProperties DEF LaidOut
<1>2. Offsets(at, w) /\ g \in 0 .. n /\ n \in 0 .. n
  BY <1>1 DEF LaidOut
<1>3. PICK q \in Nat : q = at[g] /\ p = q + 1
  BY <1>1, <1>2, Ascending DEF Starts
<1>3b. p = q + 1 /\ p <= l
  BY <1>1, <1>3
<1>3a. PICK t \in Nat : t = at[n] /\ l <= t /\ q <= t
  <2>1. at[n] \in Nat /\ (g <= n <=> at[g] <= at[n])
    BY <1>1, <1>2, Ascending
  <2>2. QED BY <1>1, <1>2, <1>3, <2>1
<1>4. g # n /\ g + 1 \in 1 .. n /\ g + 1 \in 0 .. n /\ (g + 1) - 1 = g
  <2>1. l <= t
    BY <1>3a
  <2>2. q < t
    BY <1>3b, <2>1
  <2>3. q # t
    BY <2>2
  <2>4. g # n
    BY <1>3, <1>3a, <2>3, Zenon
  <2>5. QED BY <1>2, <2>4
<1>5. PICK o \in Ops : o = w[g + 1] /\ Storable(o)
  BY <1>1, <1>4, ElementOfSeq
<1>6. PICK L \in Nat : L = Length(o) /\ L >= 1
  BY Lengths
<1>7. PICK s \in Nat : s = at[g + 1] /\ s = q + L
  <2>1. at[g + 1] = at[(g + 1) - 1] + Length(w[g + 1])
    BY <1>1, <1>2, <1>4 DEF Offsets
  <2>2. at[g + 1] = q + L
    BY <1>3, <1>4, <1>5, <1>6, <2>1
  <2>3. QED BY <2>2
<1>8. s <= t
  <2>1. g + 1 <= n <=> at[g + 1] <= at[n]
    BY <1>1, <1>2, <1>4, Ascending
  <2>2. QED BY <1>3a, <1>4, <1>7, <2>1
<1>9. PICK m \in Nat : q + m = l /\ m >= 1
  <2>1. q < l
    BY <1>3b
  <2>2. QED BY <2>1
<1>9a. q + m = l /\ m >= 1
  BY <1>9
<1>9b. s = q + L /\ L >= 1
  BY <1>6, <1>7
<1>10. PICK x : x = f \o pad
  OBVIOUS
<1>11. IsBytes(pad, 84) /\ IsBytes(f, l) /\ 84 \in Nat
  BY <1>1, FcnIsSeq, SeqIsFcn
<1>12. Appended(x, f, l, pad, 84)
  BY <1>10, <1>11, JoinedBytes
<1>13. LiesIn(b, x, q, 84)
  <2>1. IsBytes(x, l + 84) /\ l + 84 \in Nat /\ q + 84 <= l + 84
    BY <1>9, <1>12 DEF Appended
  <2>2. LiesIn(SubSeq(x, q + 1, q + 84), x, q, 84)
    BY <1>11, <2>1, Window
  <2>3. p = q + 1 /\ p + 84 - 1 = q + 84
    BY <1>3b
  <2>4. QED BY <1>10, <2>2, <2>3 DEF Taken
<1>14. ASSUME NEW k \in 1 .. L, k <= m PROVE b[k] = getBinary(o)[k]
  <2>1. CASE k <= 84
    <3>1. q + k \in 1 .. l /\ k \in 1 .. 84
      <4>1. k \in Nat /\ 1 <= k /\ k <= m /\ k <= 84
        BY <1>14, <2>1
      <4>2. q + k <= l
        BY <1>9a, <4>1
      <4>3. QED BY <4>1, <4>2
    <3>2. b[k] = f[q + k]
      BY <1>12, <1>13, <3>1 DEF Appended, LiesIn
    <3>3. f[q + k] = getBinary(o)[k]
      <4>0. q + k <= l
        BY <3>1
      <4>1. Holds(at, w, f) /\ at[(g + 1) - 1] = q /\ q + k <= Len(f)
        BY <1>1, <1>3, <1>4, <4>0 DEF LaidOut
      <4>2. QED BY <1>1, <1>4, <1>5, <1>6, <4>1 DEF Holds
    <3>4. QED BY <3>2, <3>3
  <2>2. CASE k > 84
    <3>2. L <= 84
      BY <1>6, Lengths
    <3>3. QED BY <2>2, <3>2
  <2>3. QED BY <2>1, <2>2
<1>15. StartsWith(b, o, m)
  BY <1>6, <1>9, <1>13, <1>14 DEF StartsWith, LiesIn
<1>16. PICK r, c : r = get(b) /\ c = Consumed(get(b))
  OBVIOUS
<1>17. /\ r \in Ops /\ c \in Nat
       /\ m < L => m < c
       /\ m >= L => c = L /\ r = Recorded(o)
  BY <1>5, <1>6, <1>15, <1>16, Decoded
<1>18. PICK d \in Nat : d = c
  BY <1>17
<1>19. CASE m < L
  <2>1. l < s /\ p + d - 1 > l
    <3>1. m < d
      BY <1>17, <1>18, <1>19
    <3>2. l < s
      BY <1>9a, <1>9b, <1>19
    <3>3. p + d - 1 > l
      BY <1>3b, <1>9a, <3>1
    <3>4. QED BY <3>2, <3>3
  <2>2. l # t
    BY <1>8, <2>1
  <2>3. Outcome(r, d, w, f, at, g, p)
    BY <1>1, <1>3a, <1>4, <1>17, <2>1, <2>2 DEF Outcome
  <2>4. QED BY <1>16, <1>18, <2>3
<1>20. CASE m >= L
  <2>1. d = L /\ p + d = s + 1 /\ p + d - 1 <= l
    <3>1. d = L
      BY <1>17, <1>18, <1>20
    <3>2. QED BY <1>3b, <1>9a, <1>9b, <1>20, <3>1
  <2>2. Starts(p + d, at, g + 1) /\ r = Recorded(w[g + 1])
    BY <1>5, <1>7, <1>17, <1>20, <2>1 DEF Starts
  <2>3. Outcome(r, d, w, f, at, g, p)
    BY <1>1, <1>4, <1>17, <2>1, <2>2 DEF Outcome
  <2>4. QED BY <1>16, <1>18, <2>3
<1>21. QED BY <1>19, <1>20

-----------------------------------------------------------------------------
(* The generator's operations.                                             *)

Syncs == [syncType : {"none", "memset", "memcpy"}, pc : Nat, src : Words, dest : Words,
          counter : Nat, len : Int, data : Nat]

LEMMA ByteWords == Word \subseteq Words
<1>1. Byte \subseteq Nat
  BY DEF Byte
<1>2. ASSUME NEW w \in Word PROVE w \in Words
  BY <1>1 DEF Word, Words
<1>3. QED BY <1>2

LEMMA NextOpIs ==
    ASSUME NEW s \in Syncs
    PROVE  Storable(NextOp(s)) /\ Advanced(s) \in Syncs
<1>1. s.counter \in Nat /\ s.pc \in Nat /\ s.src \in Words /\ s.dest \in Words /\ s.data \in Nat
  BY DEF Syncs
<1>2. PICK k \in Nat, n \in Nat : k = s.counter + 1 /\ n = s.pc + 1
  BY <1>1
<1>3. Advanced(s) = [s EXCEPT !.counter = k, !.pc = n]
  BY <1>2 DEF Advanced
<1>4. Advanced(s) \in Syncs
  BY <1>3 DEF Syncs
<1>5. PICK i \in Int, j \in Int : i = 8 * s.counter /\ j = s.pc
  BY <1>1
<1>6. PICK pc \in Words, src \in Words, dest \in Words :
        pc = WordPlus(Zero8, j) /\ src = WordPlus(s.src, i) /\ dest = WordPlus(s.dest, i)
  <2>1. Zero8 \in Words
    BY Zeros DEF Aligned
  <2>2. WordPlus(Zero8, j) \in Words /\ WordPlus(s.src, i) \in Words /\ WordPlus(s.dest, i) \in Words
    BY <1>1, <2>1, WordPlusIs
  <2>3. QED BY <2>2
<1>7. 0 \in Nat /\ 1 \in DOMAIN loadOpnumMap /\ 0 \in DOMAIN storeOpnumMap
  <2>1. opcodeMap[2] = 1 /\ 2 \in LoadNums
    BY DEF opcodeMap, LoadCodes, LoadNums
  <2>2. opcodeMap[41] = 0 /\ 41 \in StoreNums
    BY DEF opcodeMap, StoreCodes, LoadNums, StoreNums
  <2>3. QED BY <2>1, <2>2, LoadNumbers, StoreNumbers
<1>8. PICK coded : coded = setLoadOpCode(FreshOperation, 1) /\ Operation(coded) /\ ~coded.ldData
  BY <1>7, FreshFields, SetLoadIs
<1>9. PICK load : load = setHeader(coded, 0, 0, pc, src) /\ Storable(load)
  <2>1. PICK r : r = setHeader(coded, 0, 0, pc, src)
    OBVIOUS
  <2>2. HeaderSet(r, coded, 0, 0, pc, src)
    BY <1>7, <1>8, <2>1, SetHeaderIs
  <2>3. Operation(r) /\ ~r.ldData
    BY <1>8, <2>2 DEF HeaderSet, SameKind
  <2>4. QED BY <2>1, <2>3 DEF Storable, DataChosen
<1>10. PICK put : put = setStoreOpCode(FreshOperation, 0) /\ Operation(put) /\ put.opType = "store"
  BY <1>7, FreshFields, SetStoreIs
<1>11. PICK store : store = setHeader(put, 0, 0, pc, dest) /\ Operation(store) /\ store.opType = "store"
  <2>1. PICK r : r = setHeader(put, 0, 0, pc, dest)
    OBVIOUS
  <2>2. HeaderSet(r, put, 0, 0, pc, dest)
    BY <1>7, <1>10, <2>1, SetHeaderIs
  <2>3. QED BY <1>10, <2>1, <2>2 DEF HeaderSet, SameKind
<1>12. PICK r : r = setVal(store, Scalar(s.data)) /\ Storable(r)
  <2>1. PICK d, bytes : d \in Nat /\ d = s.data /\ bytes = << d, 0, 0, 0, 0, 0, 0, 0 >>
    BY <1>1
  <2>2. bytes \in Seq(Nat) /\ Len(bytes) = 8 /\ 8 \in Nat /\ 8 <= 64
    BY <2>1
  <2>3. IsBytes(bytes, 8)
    BY <2>2, SeqIsFcn
  <2>4. PICK r : r = setVal(store, bytes)
    OBVIOUS
  <2>5. Operation(r) /\ SameKind(r, store)
    BY <1>11, <2>2, <2>3, <2>4, SetValIs
  <2>6. r = setVal(store, Scalar(s.data))
    BY <2>1, <2>4 DEF Scalar
  <2>7. r.opType = "store"
    BY <1>11, <2>5 DEF SameKind
  <2>8. QED BY <2>5, <2>6, <2>7 DEF Storable, DataChosen
<1>13. NextOp(s) = IF LoadsNext(s) THEN load ELSE r
  BY <1>5, <1>6, <1>8, <1>9, <1>10, <1>11, <1>12 DEF NextOp
<1>14. QED BY <1>4, <1>9, <1>12, <1>13

-----------------------------------------------------------------------------
(* The invariant: the client's objects are ones it can have built, the file *)
(* is the operations added or the first bytes of them, and the reader stands *)
(* before the operation that follows the ones it has got.                   *)

Trace(at) ==
  /\ LaidOut(at, written, file)
  /\ ~torn => Len(file) = at[Len(written)]
  /\ mode = "read" =>
       /\ got \in Seq(Ops) /\ Len(got) <= Len(written)
       /\ \A i \in 1 .. Len(got) :
            stream = "good" \/ ~torn \/ i < Len(got) => got[i] = Recorded(written[i])
       /\ stream = "good" => pos \in Nat /\ Starts(pos, at, Len(got))
       /\ stream = "eof" /\ ~torn => Len(got) = Len(written)

Objects == Operation(op) /\ sync \in Syncs
Added == written \in Seq(Ops) /\ \A i \in 1 .. Len(written) : Storable(written[i])
Traced == Objects /\ Added /\ (mode = "write" => ~torn) /\ \E at : Trace(at)

LEMMA FreshObjects == Operation(FreshOperation) /\ FreshMemsync \in Syncs
<1>1. Zero8 \in Words
  BY Zeros DEF Aligned
<1>2. QED BY <1>1, FreshIs DEF FreshMemsync, Syncs

LEMMA NothingAdded ==
    /\ << >> \in Seq(Ops) /\ Len(<< >>) = 0 /\ \A i \in 1 .. Len(<< >>) : Storable(<< >>[i])
<1>1. << >> \in Seq(Ops) /\ Len(<< >>) = 0
  BY EmptySeq
<1>2. QED BY <1>1

LEMMA InitTraced == DumpInit => Traced
<1>1. SUFFICES ASSUME DumpInit PROVE Traced
  OBVIOUS
<1>2. Objects
  BY <1>1, FreshObjects DEF DumpInit, Objects
<1>3. written = << >> /\ file = << >> /\ mode = "undefined"
  BY <1>1 DEF DumpInit
<1>4. Added
  BY <1>3, NothingAdded DEF Added
<1>5. PICK at : Whole(at, written, file)
  BY <1>3, EmptyWhole
<1>6. Trace(at)
  BY <1>3, <1>5 DEF Trace, Whole
<1>7. QED BY <1>2, <1>3, <1>4, <1>6 DEF Traced

LEMMA DumperKept ==
    ASSUME Traced, UNCHANGED dumper, Objects'
    PROVE  Traced'
<1>1. /\ file' = file /\ mode' = mode /\ stream' = stream /\ pos' = pos /\ written' = written
      /\ got' = got /\ torn' = torn
  BY DEF dumper
<1>2. PICK at : Trace(at)
  BY DEF Traced
<1>3. Trace(at)'
  BY <1>1, <1>2 DEF Trace
<1>4. Added' /\ (mode' = "write" => ~torn')
  BY <1>1 DEF Traced, Added
<1>5. QED BY <1>3, <1>4 DEF Traced

\* The end of the process, by exit() or by a crash.
LEMMA ExitTraced ==
    ASSUME Traced, Exit
    PROVE  Traced'
<1>1. PICK at : Trace(at)
  BY DEF Traced
<1>2. file \in Seq(Nat) /\ Len(file) \in Nat /\ written \in Seq(Ops) /\ Len(written) \in Nat
  BY <1>1, LenProperties DEF Trace, LaidOut, Traced, Added
<1>3. PICK n \in Nat : /\ n <= Len(file) /\ file' = SubSeq(file, 1, n)
                      /\ torn' = (torn \/ n < Len(file))
  <2>1. PICK n \in {c \in Cuts : c < Len(file)} \cup {Len(file)} :
          file' = SubSeq(file, 1, n) /\ torn' = (torn \/ n < Len(file))
    BY DEF Exit
  <2>2. n \in Nat /\ n <= Len(file)
    BY <1>2, <2>1, DumperAssumption DEF DumperAssumption
  <2>3. QED BY <2>1, <2>2
<1>4. LaidOut(at, written, file') /\ Len(file') = n
  BY <1>1, <1>2, <1>3, CutLaid DEF Trace
<1>5. written' = written /\ mode' = "undefined"
  BY DEF Exit
<1>6. ~torn' => Len(file') = at[Len(written)]
  <2>1. SUFFICES ASSUME ~torn' PROVE Len(file') = at[Len(written)]
    OBVIOUS
  <2>2. ~torn /\ ~(n < Len(file))
    BY <1>3, <2>1
  <2>3. n = Len(file)
    BY <1>2, <1>3, <2>2
  <2>4. QED BY <1>1, <1>4, <2>2, <2>3 DEF Trace
<1>7. Trace(at)'
  BY <1>4, <1>5, <1>6 DEF Trace
<1>8. Objects'
  BY FreshObjects DEF Exit, Objects
<1>9. QED BY <1>5, <1>7, <1>8 DEF Traced, Added

LEMMA SetValKept == ASSUME NEW o, Operation(o), NEW v \in Values PROVE Operation(setVal(o, v))
<1>1. v \in Seq(Byte) /\ Len(v) <= 64
  BY DumperAssumption DEF DumperAssumption
<1>2. PICK n \in Nat : n = Len(v) /\ n <= 64
  BY <1>1, LenProperties
<1>3. v \in Seq(Nat)
  <2>1. v \in [1 .. n -> Byte]
    BY <1>1, <1>2, LenProperties
  <2>2. v \in [1 .. n -> Nat]
    <3>1. Byte \subseteq Nat
      BY DEF Byte
    <3>2. QED BY <2>1, <3>1
  <2>3. QED BY <2>2, FcnIsSeq DEF IsBytes
<1>4. IsBytes(v, n)
  BY <1>2, <1>3, SeqIsFcn
<1>5. PICK r : r = setVal(o, v)
  OBVIOUS
<1>6. QED BY <1>2, <1>4, <1>5, SetValIs

\* The calls on an operation and on the generator that the client makes.
Setters == \/ NewOperation \/ SetLoadOpCode \/ SetStoreOpCode \/ SetLiveCacheOp
           \/ SetHeader \/ SetVal \/ SetLoadNoData \/ SetMemset \/ SetMemcpy

LEMMA SettersTraced ==
    ASSUME Traced, Setters
    PROVE  Traced'
<1>1. Operation(op) /\ sync \in Syncs
  BY DEF Traced, Objects
<1>2. SUFFICES UNCHANGED dumper /\ Objects'
  BY DumperKept
<1>3. CASE NewOperation
  BY <1>1, <1>3, FreshObjects DEF NewOperation, Objects
<1>4. CASE SetLoadOpCode
  <2>1. PICK c \in LoadOps : op' = setLoadOpCode(op, c) /\ UNCHANGED << sync, running, dumper >>
    BY <1>4 DEF SetLoadOpCode
  <2>2. c \in DOMAIN loadOpnumMap
    BY DumperAssumption DEF DumperAssumption
  <2>3. Operation(op')
    BY <1>1, <2>1, <2>2, SetLoadIs
  <2>4. QED BY <1>1, <2>1, <2>3 DEF Objects
<1>5. CASE SetStoreOpCode
  <2>1. PICK c \in StoreOps : op' = setStoreOpCode(op, c) /\ UNCHANGED << sync, running, dumper >>
    BY <1>5 DEF SetStoreOpCode
  <2>2. c \in DOMAIN storeOpnumMap
    BY DumperAssumption DEF DumperAssumption
  <2>3. Operation(op')
    BY <1>1, <2>1, <2>2, SetStoreIs
  <2>4. QED BY <1>1, <2>1, <2>3 DEF Objects
<1>6. CASE SetLiveCacheOp
  <2>1. op' = setLiveCacheOp(op) /\ UNCHANGED << sync, running, dumper >>
    BY <1>6 DEF SetLiveCacheOp
  <2>2. QED BY <1>1, <2>1, SetLiveCacheIs DEF Objects
<1>7. CASE SetHeader
  <2>1. PICK h \in Headers : /\ op' = setHeader(op, h[1], h[2], h[3], h[4])
                            /\ UNCHANGED << sync, running, dumper >>
    BY <1>7 DEF SetHeader
  <2>2. h[1] \in Nat /\ h[2] \in Nat /\ h[3] \in Words /\ h[4] \in Words
    <3>1. h \in Nat \X Nat \X Word \X Word
      BY DumperAssumption DEF DumperAssumption
    <3>2. h[1] \in Nat /\ h[2] \in Nat /\ h[3] \in Word /\ h[4] \in Word
      BY <3>1
    <3>3. QED BY <3>2, ByteWords
  <2>3. HeaderSet(op', op, h[1], h[2], h[3], h[4])
    BY <1>1, <2>1, <2>2, SetHeaderIs
  <2>4. QED BY <1>1, <2>1, <2>3 DEF Objects, HeaderSet
<1>8. CASE SetVal
  <2>1. PICK v \in Values : op' = setVal(op, v) /\ UNCHANGED << sync, running, dumper >>
    BY <1>8 DEF SetVal
  <2>2. QED BY <1>1, <2>1, SetValKept DEF Objects
<1>9. CASE SetLoadNoData
  <2>1. op' = setLoadNoData(op) /\ UNCHANGED << sync, running, dumper >>
    BY <1>9 DEF SetLoadNoData
  <2>2. QED BY <1>1, <2>1, SetNoDataIs DEF Objects
<1>10. SyncBase.src \in Words /\ SyncBase.dest \in Words /\ SyncUnits \in Nat
  <2>1. SyncBase \in [src : Word, dest : Word] /\ SyncUnits \in Nat
    BY DumperAssumption DEF DumperAssumption
  <2>2. QED BY <2>1, ByteWords
<1>11. CASE SetMemset
  <2>1. sync' = setMemset(sync, SyncBase.dest, 7, SyncUnits) /\ UNCHANGED << op, running, dumper >>
    BY <1>11 DEF SetMemset
  <2>2. PICK dest \in Words, len \in Int : dest = SyncBase.dest /\ len = SyncUnits
    BY <1>10
  <2>3. sync' = [sync EXCEPT !.dest = dest, !.data = 7, !.len = len, !.counter = 0, !.syncType = "memset"]
    BY <2>1, <2>2 DEF setMemset
  <2>4. sync' \in Syncs
    BY <1>1, <2>3 DEF Syncs
  <2>5. QED BY <1>1, <2>1, <2>4 DEF Objects
<1>12. CASE SetMemcpy
  <2>1. sync' = setMemcpy(sync, SyncBase.src, SyncBase.dest, SyncUnits) /\ UNCHANGED << op, running, dumper >>
    BY <1>12 DEF SetMemcpy
  <2>2. PICK src \in Words, dest \in Words, len \in Int :
          src = SyncBase.src /\ dest = SyncBase.dest /\ len = 2 * SyncUnits
    BY <1>10
  <2>3. sync' = [sync EXCEPT !.src = src, !.dest = dest, !.len = len, !.counter = 0,
                             !.data = 102, !.syncType = "memcpy"]
    BY <2>1, <2>2 DEF setMemcpy
  <2>4. sync' \in Syncs
    BY <1>1, <2>3 DEF Syncs
  <2>5. QED BY <1>1, <2>1, <2>4 DEF Objects
<1>13. QED BY <1>3, <1>4, <1>5, <1>6, <1>7, <1>8, <1>9, <1>11, <1>12 DEF Setters

LEMMA AddToTraced ==
    ASSUME Traced, mode = "write", NEW o, Storable(o), AddTo(o), Objects'
    PROVE  Traced'
<1>1. PICK at : Trace(at)
  BY DEF Traced
<1>2. /\ file' = file \o getBinary(o) /\ written' = Append(written, o)
      /\ mode' = mode /\ torn' = torn
  BY DEF AddTo
<1>3. ~torn /\ written \in Seq(Ops) /\ o \in Ops
  BY DEF Traced, Added, Storable, Operation
<1>4. Whole(at, written, file)
  BY <1>1, <1>3 DEF Trace, Whole
<1>5. PICK a : Whole(a, written', file')
  BY <1>2, <1>3, <1>4, AppendWhole
<1>6. Trace(a)'
  BY <1>2, <1>5 DEF Trace, Whole
<1>7. Added'
  <2>1. PICK n \in Nat : n = Len(written)
    BY <1>3, LenProperties
  <2>2. /\ written' \in Seq(Ops) /\ Len(written') = n + 1 /\ written'[n + 1] = o
        /\ \A i \in 1 .. n : written'[i] = written[i]
    BY <1>2, <1>3, <2>1, AppendProperties
  <2>3. ASSUME NEW i \in 1 .. n + 1 PROVE Storable(written'[i])
    <3>1. CASE i = n + 1
      BY <2>2, <3>1
    <3>2. CASE i # n + 1
      <4>1. i \in 1 .. n
        BY <3>2
      <4>2. QED BY <2>1, <2>2, <4>1 DEF Traced, Added
    <3>3. QED BY <3>1, <3>2
  <2>4. QED BY <2>2, <2>3 DEF Added
<1>8. QED BY <1>2, <1>3, <1>6, <1>7 DEF Traced

LEMMA OpenedTraced ==
    ASSUME Traced, NEW m, Opened(m), file' = << >>, written' = << >>, m = "write", torn' = FALSE
    PROVE  Traced'
<1>1. op' = op /\ sync' = sync /\ mode' = "write"
  BY DEF Opened
<1>2. PICK at : Whole(at, written', file')
  BY EmptyWhole
<1>3. Trace(at)'
  BY <1>1, <1>2 DEF Trace, Whole
<1>4. Added'
  BY NothingAdded DEF Added
<1>5. QED BY <1>1, <1>3, <1>4 DEF Traced, Objects

LEMMA OpenToReadTraced ==
    ASSUME Traced, OpenToRead
    PROVE  Traced'
<1>1. /\ op' = op /\ sync' = sync /\ mode' = "read" /\ stream' = "good" /\ pos' = 1 /\ got' = << >>
      /\ file' = file /\ written' = written /\ torn' = torn
  BY DEF OpenToRead, Opened
<1>2. PICK at : Trace(at)
  BY DEF Traced
<1>3. got' \in Seq(Ops) /\ Len(got') = 0
  BY <1>1, NothingAdded
<1>4. Len(written) \in Nat /\ at[0] = 0
  BY <1>2, LenProperties DEF Traced, Added, Trace, LaidOut, Offsets
<1>5. Starts(pos', at, Len(got')) /\ pos' \in Nat
  BY <1>1, <1>3, <1>4 DEF Starts
<1>6. Trace(at)'
  BY <1>1, <1>2, <1>3, <1>4, <1>5 DEF Trace
<1>7. QED BY <1>1, <1>6 DEF Traced, Objects, Added

\* One turn of the reader's loop.
LEMMA ReadNextTraced ==
    ASSUME Traced, ReadNext
    PROVE  Traced'
<1>1. CASE Exit
  BY <1>1, ExitTraced
<1>2. CASE ~Exit
  <2>1. mode = "read" /\ stream = "good" /\ pos <= Len(file)
    BY DEF ReadNext, checkMode, hasNext
  <2>2. PICK b, o : /\ b = Bytes(pos, FixedBytes + 64) /\ o = get(b)
                   /\ got' = Append(got, o) /\ pos' = pos + Consumed(o)
                   /\ stream' = (IF pos + Consumed(o) - 1 > Len(file) THEN "eof" ELSE "good")
                   /\ UNCHANGED << op, sync, file, mode, running, written, torn >>
    BY <1>2 DEF ReadNext
  <2>3. PICK at : Trace(at)
    BY DEF Traced
  <2>4. /\ got \in Seq(Ops) /\ Len(got) <= Len(written) /\ Len(got) \in Nat /\ Len(written) \in Nat
        /\ pos \in Nat /\ Starts(pos, at, Len(got)) /\ LaidOut(at, written, file)
        /\ \A i \in 1 .. Len(got) : got[i] = Recorded(written[i])
        /\ ~torn => Len(file) = at[Len(written)]
    BY <2>1, <2>3, LenProperties DEF Trace, Traced, Added
  <2>5. file \in Seq(Nat) /\ Len(file) \in Nat /\ Last(file) \in Nat
    <3>1. file \in Seq(Nat) /\ Len(file) \in Nat
      BY <2>4, LenProperties DEF LaidOut
    <3>2. PICK l \in Nat : l = Len(file) /\ l >= 1
      <4>1. pos >= 1
        <5>1. Len(got) \in 0 .. Len(written) /\ Offsets(at, written)
          BY <2>4 DEF LaidOut
        <5>2. PICK x \in Nat : x = at[Len(got)] /\ pos = x + 1
          BY <2>4, <5>1 DEF Offsets, Starts
        <5>3. pos = x + 1
          BY <5>2
        <5>4. QED BY <5>3
      <4>2. QED BY <2>1, <2>4, <3>1, <4>1
    <3>3. file[l] \in Nat
      BY <3>1, <3>2, ElementOfSeq
    <3>4. QED BY <3>1, <3>2, <3>3 DEF Last
  <2>6. PICK pad \in [1 .. 84 -> Nat] : Taken(b, file, pad, pos)
    <3>1. PICK pad : pad = Padding
      OBVIOUS
    <3>2. pad \in [1 .. 84 -> Nat]
      BY <2>5, <3>1 DEF Padding, FixedBytes
    <3>3. Taken(b, file, pad, pos)
      BY <2>2, <3>1 DEF Taken, Bytes, FixedBytes
    <3>4. QED BY <3>2, <3>3
  <2>7. Outcome(o, Consumed(o), written, file, at, Len(got), pos)
    BY <2>1, <2>2, <2>4, <2>6, ReadOn DEF Traced, Added
  <2>8. PICK g \in Nat, c \in Nat : g = Len(got) /\ c = Consumed(o)
    BY <2>4, <2>7 DEF Outcome
  <2>9. /\ got' \in Seq(Ops) /\ Len(got') = g + 1 /\ got'[g + 1] = o
        /\ \A i \in 1 .. g : got'[i] = got[i]
    <3>1. o \in Ops /\ got \in Seq(Ops) /\ got' = Append(got, o)
      BY <2>2, <2>4, <2>7 DEF Outcome
    <3>2. /\ Append(got, o) \in Seq(Ops) /\ Len(Append(got, o)) = Len(got) + 1
          /\ Append(got, o)[Len(got) + 1] = o
          /\ \A i \in 1 .. Len(got) : Append(got, o)[i] = got[i]
      BY <3>1, AppendProperties
    <3>3. QED BY <2>8, <3>1, <3>2
  <2>10. /\ file' = file /\ mode' = mode /\ written' = written /\ torn' = torn
         /\ op' = op /\ sync' = sync /\ pos' = pos + c
         /\ stream' = (IF pos + c - 1 > Len(file) THEN "eof" ELSE "good")
    BY <2>2, <2>8
  <2>11. g + 1 <= Len(written)
    BY <2>7, <2>8 DEF Outcome
  <2>12. CASE pos + c - 1 <= Len(file)
    <3>1. o = Recorded(written[g + 1]) /\ Starts(pos + c, at, g + 1)
      BY <2>7, <2>8, <2>12 DEF Outcome
    <3>2. stream' = "good" /\ pos' \in Nat
      <4>1. pos \in Nat /\ Len(file) \in Nat
        BY <2>4, <2>5
      <4>2. ~(pos + c - 1 > Len(file))
        BY <2>12, <4>1
      <4>3. pos + c \in Nat
        BY <4>1
      <4>4. QED BY <2>10, <4>2, <4>3
    <3>3. ASSUME NEW i \in 1 .. g + 1 PROVE got'[i] = Recorded(written[i])
      <4>1. CASE i = g + 1
        BY <2>9, <3>1, <4>1
      <4>2. CASE i # g + 1
        <5>1. i \in 1 .. g
          BY <4>2
        <5>2. QED BY <2>4, <2>8, <2>9, <5>1
      <4>3. QED BY <4>1, <4>2
    <3>4. Starts(pos', at, Len(got'))
      BY <2>9, <2>10, <3>1
    <3>5. Trace(at)'
      BY <2>4, <2>9, <2>10, <2>11, <3>2, <3>3, <3>4 DEF Trace
    <3>6. QED BY <2>1, <2>10, <3>5 DEF Traced, Objects, Added
  <2>13. CASE ~(pos + c - 1 <= Len(file))
    <3>1. pos + c - 1 > Len(file)
      BY <2>4, <2>5, <2>13
    <3>2. stream' = "eof" /\ torn
      BY <2>4, <2>7, <2>8, <2>10, <3>1 DEF Outcome
    <3>3. ASSUME NEW i \in 1 .. g + 1, i < g + 1 PROVE got'[i] = Recorded(written[i])
      <4>1. i \in 1 .. g
        BY <3>3
      <4>2. QED BY <2>4, <2>8, <2>9, <4>1
    <3>4. Trace(at)'
      BY <2>4, <2>9, <2>10, <2>11, <3>2, <3>3 DEF Trace
    <3>5. QED BY <2>1, <2>10, <3>4 DEF Traced, Objects, Added
  <2>14. QED BY <2>12, <2>13
<1>3. QED BY <1>1, <1>2

LEMMA ReadEndTraced ==
    ASSUME Traced, ReadEnd
    PROVE  Traced'
<1>1. /\ mode = "read" /\ stream = "good" /\ ~(pos <= Len(file)) /\ stream' = "eof"
      /\ op' = op /\ sync' = sync /\ file' = file /\ mode' = mode /\ pos' = pos /\ written' = written
      /\ got' = got /\ torn' = torn
  BY DEF ReadEnd, checkMode, hasNext
<1>2. PICK at : Trace(at)
  BY DEF Traced
<1>3. /\ got \in Seq(Ops) /\ Len(got) <= Len(written) /\ Len(got) \in Nat /\ Len(written) \in Nat
      /\ pos \in Nat /\ Starts(pos, at, Len(got)) /\ LaidOut(at, written, file)
      /\ \A i \in 1 .. Len(got) : got[i] = Recorded(written[i])
      /\ ~torn => Len(file) = at[Len(written)]
  BY <1>1, <1>2, LenProperties DEF Trace, Traced, Added
<1>4. ~torn => Len(got) = Len(written)
  <2>1. SUFFICES ASSUME ~torn PROVE Len(got) = Len(written)
    OBVIOUS
  <2>2. PICK g \in Nat, n \in Nat, l \in Nat : g = Len(got) /\ n = Len(written) /\ l = Len(file)
    BY <1>3, LenProperties DEF LaidOut
  <2>3. g <= n /\ ~(pos <= l)
    BY <1>1, <1>3, <2>2
  <2>4. g \in 0 .. n /\ n \in 0 .. n
    BY <2>3
  <2>5. at[g] \in Nat /\ at[n] \in Nat /\ (n <= g <=> at[n] <= at[g])
    BY <1>3, <2>2, <2>4, Ascending DEF LaidOut
  <2>6. PICK x \in Nat : x = at[g] /\ pos = x + 1
    BY <1>3, <2>2, <2>5 DEF Starts
  <2>7. pos = x + 1
    BY <2>6
  <2>8. l <= x
    BY <2>3, <2>7
  <2>9. l = at[n]
    BY <1>3, <2>1, <2>2
  <2>10. at[n] <= at[g]
    BY <2>6, <2>8, <2>9
  <2>11. n <= g
    BY <2>5, <2>10
  <2>12. QED BY <2>2, <2>3, <2>11
<1>5. Trace(at)'
  BY <1>1, <1>3, <1>4 DEF Trace
<1>6. QED BY <1>1, <1>5 DEF Traced, Objects, Added

LEMMA NextTraced ==
    ASSUME ChoosesLoadData, ~ConstructsToRead, Traced, [DumpNext]_dumpVars
    PROVE  Traced'
<1>1. Objects
  BY DEF Traced
<1>2. CASE Setters
  BY <1>2, SettersTraced
<1>3. CASE SetLoadNeedData
  <2>1. CASE NeedDataExits(op)
    BY <1>3, <2>1, ExitTraced DEF SetLoadNeedData
  <2>2. CASE ~NeedDataExits(op)
    <3>1. op' = setLoadNeedData(op) /\ UNCHANGED << sync, running, dumper >>
      BY <1>3, <2>2 DEF SetLoadNeedData
    <3>2. Operation(op')
      BY <1>1, <2>2, <3>1, SetNeedIs DEF Objects
    <3>3. Objects' /\ UNCHANGED dumper
      BY <1>1, <3>1, <3>2 DEF Objects
    <3>4. QED BY <3>3, DumperKept
  <2>3. QED BY <2>1, <2>2
<1>4. CASE OpenToWrite
  BY <1>4, OpenedTraced DEF OpenToWrite
<1>5. CASE OpenToRead
  BY <1>5, OpenToReadTraced
<1>6. CASE ConstructOpen
  <2>1. PICK m : m = "write" /\ Opened(m) /\ file' = << >> /\ torn' = FALSE /\ written' = << >>
    BY <1>6 DEF ConstructOpen
  <2>2. QED BY <2>1, OpenedTraced
<1>7. CASE Close
  <2>1. /\ file' = file /\ written' = written /\ torn' = torn /\ mode' = "uninit"
        /\ op' = FreshOperation /\ sync' = FreshMemsync
    BY <1>7 DEF Close
  <2>2. PICK at : Trace(at)
    BY DEF Traced
  <2>3. Trace(at)'
    BY <2>1, <2>2 DEF Trace
  <2>4. QED BY <2>1, <2>3, FreshObjects DEF Traced, Objects, Added
<1>8. CASE Add
  <2>1. mode = "write" /\ AddTo(op) /\ op' = op /\ sync' = sync /\ DataChosen(op)
    BY <1>8 DEF Add, checkMode
  <2>2. Storable(op) /\ Objects'
    BY <1>1, <2>1 DEF Storable, Objects
  <2>3. QED BY <2>1, <2>2, AddToTraced
<1>9. CASE SyncAdd
  <2>1. mode = "write" /\ AddTo(op') /\ op' = NextOp(sync) /\ sync' = Advanced(sync)
    BY <1>9 DEF SyncAdd, Building
  <2>2. Storable(NextOp(sync)) /\ Advanced(sync) \in Syncs
    BY <1>1, NextOpIs DEF Objects
  <2>3. Storable(op') /\ Objects'
    BY <2>1, <2>2 DEF Storable, Objects
  <2>4. QED BY <2>1, <2>3, AddToTraced
<1>10. CASE ReadNext
  BY <1>10, ReadNextTraced
<1>11. CASE ReadEnd
  BY <1>11, ReadEndTraced
<1>12. CASE Misuse
  BY <1>12, ExitTraced DEF Misuse
<1>13. CASE Restart
  <2>1. op' = op /\ sync' = sync /\ UNCHANGED dumper
    BY <1>13 DEF Restart
  <2>2. QED BY <1>1, <2>1, DumperKept DEF Objects
<1>14. CASE UNCHANGED dumpVars
  <2>1. op' = op /\ sync' = sync /\ UNCHANGED dumper
    BY <1>14 DEF dumpVars, dumper
  <2>2. QED BY <1>1, <2>1, DumperKept DEF Objects
<1>15. QED BY <1>2, <1>3, <1>4, <1>5, <1>6, <1>7, <1>8, <1>9, <1>10, <1>11, <1>12, <1>13, <1>14
          DEF DumpNext, Calls, Setters

LEMMA TracedReads == Traced => ReadBack
<1>1. SUFFICES ASSUME Traced, mode = "read" PROVE
        /\ \A i \in DOMAIN got :
             /\ i <= Len(written)
             /\ ~torn \/ i < Len(got) => got[i] = Recorded(written[i])
        /\ stream = "eof" /\ ~torn => Len(got) = Len(written)
  BY DEF ReadBack
<1>2. PICK at : Trace(at)
  BY <1>1 DEF Traced
<1>3. /\ got \in Seq(Ops) /\ Len(got) <= Len(written) /\ Len(got) \in Nat /\ Len(written) \in Nat
      /\ \A i \in 1 .. Len(got) : ~torn \/ i < Len(got) => got[i] = Recorded(written[i])
      /\ stream = "eof" /\ ~torn => Len(got) = Len(written)
  BY <1>1, <1>2, LenProperties DEF Trace, Traced, Added
<1>4. DOMAIN got = 1 .. Len(got) /\ \A i \in 1 .. Len(got) : i <= Len(written)
  BY <1>3, LenProperties
<1>5. QED BY <1>3, <1>4

\* The reader gets the operations that were added, one by one and none that was
\* not, from a trace that its writer closed or that a dead writer left cut at
\* any byte; and hasNext says no only after the last of a whole one
\* (dumper.cpp:49-142, operation_binary.cpp).  It holds of clients that choose,
\* after setLoadOpCode, whether a load records its data, and that open a trace
\* to read with open(): the constructor truncates what it opens.
THEOREM TracesKeep ==
    ASSUME ChoosesLoadData, ~ConstructsToRead
    PROVE  DumpSpec => []ReadBack
<1>1. Traced /\ [DumpNext]_dumpVars => Traced'
  BY NextTraced
<1>2. QED BY <1>1, InitTraced, TracedReads, PTL DEF DumpSpec
===============================================================================

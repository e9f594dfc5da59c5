------------------------------ MODULE LineStores ------------------------------
(* The line stores CacheGeneric::create chooses from (LiveCacheCore.cc): an *)
(* associative store under LRU, LRUp or RANDOM replacement, a direct mapped  *)
(* one, a skewed one and SHiP.  A store is the array of lines content, in    *)
(* which the lines of a set are neighbours.  Tag 0 is that of a line never   *)
(* filled.  One action is one call, or the look-up and the fill of a caller  *)
(* that fills what it did not find.                                          *)
EXTENDS Integers, FiniteSetsExt, Bitwise

CONSTANTS
  StoreSets, StoreWays,     \* of the associative stores; the others use their product
  StoreLine,                \* addresses to a line
  log2shct,
  HashNear, HashFar, HashAdd,  \* the shifts 5 and 11 of the skew, and its mask 0xFF
  RRIP_M,
  SHCTFull,                 \* 7, where a counter of SHiP stops
  StoreAddrs,               \* addresses the callers of an associative or direct store use
  SkewAddrs,                \* the same for a skewed store, one to a line
  ShipAddrs                 \* the same for SHiP

VARIABLES
  kind,        \* what create was asked for: policy, and the XOR of the index
  content,     \* [0 .. numLines - 1 -> line]
  irand,       \* the next victim of RANDOM
  rand_number, \* the static counter of the skewed stores
  SHCT,        \* the counters of SHiP
  touched      \* the tag the last call found or filled

svars == <<kind, content, irand, rand_number, SHCT, touched>>

Assoc == {"LRU", "LRUp", "RANDOM"}
Kinds == [policy : Assoc \cup {"DM"}, xor : BOOLEAN] \cup [policy : {"SKEW", "SHIP"}, xor : {FALSE}]

numLines == StoreSets * StoreWays
Lines == 0 .. numLines - 1
ways == IF kind.policy \in Assoc \cup {"SHIP"} THEN StoreWays ELSE 1
sets == numLines \div ways

StoreTag(addr) == addr \div StoreLine
StoreIndex(tag) ==
  (IF kind.xor THEN (tag ^^ (tag \div sets)) % sets ELSE tag % sets) * ways
SetOf(tag) == StoreIndex(tag) .. StoreIndex(tag) + ways - 1

With(tag, where) == {l \in where : content[l].tag = tag}

-----------------------------------------------------------------------------
(* malloc leaves recent as it was, and 2^log2shct is an exclusive or: only   *)
(* the first of the SHiP counters are cleared.                               *)
NewLine(recent) ==
  [tag |-> 0, recent |-> recent, rrpv |-> RRIP_M - 1, signature |-> 0, outcome |-> FALSE]

Entries == 0 .. 2 * 2 ^ log2shct - 1
Leftovers == {0, 1, SHCTFull + 2}

StoresInit ==
  /\ kind \in Kinds
  /\ \E recent \in [Lines -> IF kind.policy = "SKEW" THEN BOOLEAN ELSE {FALSE}] :
       content = [l \in Lines |-> NewLine(recent[l])]
  /\ irand = 0 /\ rand_number = 0 /\ touched = 0
  /\ SHCT \in [Entries -> IF kind.policy = "SHIP" THEN Leftovers ELSE {0}]
  /\ \A e \in Entries : e < (2 ^^ log2shct) => SHCT[e] = 0

-----------------------------------------------------------------------------
(* What a call leaves: the lines, where the line it returns is (-1 for       *)
(* none), and the counters.                                                  *)
Left(lines, at) == [content |-> lines, at |-> at, irand |-> irand,
                    rand_number |-> rand_number, SHCT |-> SHCT]

\* The line at position l moves to the first place of its set.
ToFirst(tag, l) ==
  LET first == StoreIndex(tag)
  IN  [p \in Lines |-> IF p = first THEN content[l]
                       ELSE IF p \in first + 1 .. l THEN content[p - 1] ELSE content[p]]

AssocFind(addr) ==
  LET tag == StoreTag(addr)
      hit == With(tag, SetOf(tag))
  IN  IF hit = {} THEN Left(content, -1) ELSE Left(ToFirst(tag, Min(hit)), StoreIndex(tag))

(* mutant: the next victim of RANDOM may be the first way *)
AfterVictimAny(r) == (r + 1) % StoreWays

\* The first way is not a victim again, the most recently used line being there.
AfterVictim(r) == LET n == (r + 1) % StoreWays IN IF n = 0 THEN 1 % StoreWays ELSE n

AssocReplace(addr) ==
  LET tag   == StoreTag(addr)
      first == StoreIndex(tag)
      hit   == With(tag, SetOf(tag))
      old   == IF hit # {} THEN Max(hit)
               ELSE first + (IF kind.policy = "RANDOM" THEN irand ELSE StoreWays - 1)
      next  == IF hit = {} /\ kind.policy = "RANDOM" THEN AfterVictim(irand) ELSE irand
  IN  IF content[first].tag = tag \/ old = first
      THEN [Left(content, first) EXCEPT !.irand = next]
      ELSE IF kind.policy = "LRUp" THEN Left(content, old)
      ELSE [Left(ToFirst(tag, old), first) EXCEPT !.irand = next]

DMFind(addr) ==
  LET l == StoreIndex(StoreTag(addr))
  IN  Left(content, IF content[l].tag = StoreTag(addr) THEN l ELSE -1)
DMReplace(addr) == Left(content, StoreIndex(StoreTag(addr)))

-----------------------------------------------------------------------------
(* The skewed store: a line may be in one of three places. *)
addrh(addr) == (addr \div 2 ^ HashNear) ^^ (addr \div 2 ^ HashFar)
SkewPlaces(addr) ==
  LET At(a) == StoreIndex(StoreTag(a))
  IN  <<At(addr), At(addrh(addr)), At(addrh(addr) + (addr % HashAdd))>>

\* Assignments to recent, in their order: two places may be one line.
Recent(lines, at, value) == [lines EXCEPT ![at].recent = value]
Forget(lines, p) ==
  [l \in Lines |-> [lines[l] EXCEPT !.recent = @ /\ l \notin {p[1], p[2], p[3]}]]
Chosen(lines, p, i) ==
  [l \in Lines |-> IF l \notin {p[1], p[2], p[3]} THEN lines[l]
                   ELSE [lines[l] EXCEPT !.recent = (Max({j \in 1 .. 3 : p[j] = l}) = i)]]

SkewHits(addr) == {i \in 1 .. 3 : content[SkewPlaces(addr)[i]].tag = StoreTag(addr)}

SkewFind(addr) ==
  LET p == SkewPlaces(addr)
  IN  IF SkewHits(addr) = {} THEN Left(Forget(content, p), -1)
      ELSE LET l == p[Min(SkewHits(addr))] IN Left(Recent(content, l, TRUE), l)

\* Above two, every value of the counter is as good as three.
CountedUp(r) == IF r = 3 THEN 3 ELSE r + 1

\* The counter stays for the whole search, so the place of its turn comes
\* round again without its recent bit: only the first yields, to the third.
SkewVictim(p, turn) ==
  LET third == Recent(content, p[1], FALSE)[p[3]]
  IN  CASE turn = 1 -> 2
        [] turn = 2 -> 3
        [] turn = 0 -> IF content[p[1]].recent /\ ~third.recent THEN 3 ELSE 1

(* mutant: a resident line is looked for in its first two places *)
SkewReplaceTwoPlaces(addr) ==
  LET p    == SkewPlaces(addr)
      turn == (rand_number + 1) % 3
      i    == SkewVictim(p, turn)
  IN  IF SkewHits(addr) \cap {1, 2} # {} THEN Left(content, p[Min(SkewHits(addr))])
      ELSE [Left(Chosen(content, p, i), p[i]) EXCEPT !.rand_number = turn]

SkewReplace(addr) ==
  LET p    == SkewPlaces(addr)
      hits == SkewHits(addr)
      turn == IF rand_number + 1 > 2 THEN 0 ELSE rand_number + 1
      i    == SkewVictim(p, turn)
  IN  IF hits \cap {1, 2} # {} THEN Left(content, p[Min(hits)])
      ELSE IF hits = {3} THEN [Left(content, p[3]) EXCEPT !.rand_number = CountedUp(@)]
      ELSE [Left(Chosen(content, p, i), p[i]) EXCEPT !.rand_number = turn]

-----------------------------------------------------------------------------
(* SHiP; the caller's signature is the address. *)
Signature(s) == (s ^^ ((s \div 2) + s)) % (2 * 2 ^ log2shct)

SHIPFind(addr, updateSHIP) ==
  LET tag == StoreTag(addr)
      hit == With(tag, SetOf(tag))
      sig == Signature(addr)
  IN  IF hit = {} THEN Left(content, -1)
      ELSE LET l == Min(hit) IN
           [Left([content EXCEPT ![l].rrpv = 0, ![l].outcome = updateSHIP \/ @], l)
             EXCEPT !.SHCT[sig] = IF updateSHIP /\ @ < SHCTFull THEN @ + 1 ELSE @]

\* The search takes the first way that is the line's, unfilled or distant, and
\* ages every way until there is one.
Stops(l, tag, age) ==
  content[l].tag \in {tag, 0} \/ content[l].rrpv + age >= RRIP_M - 1
SHIPReplace(addr, updateSHIP) ==
  LET tag  == StoreTag(addr)
      set  == SetOf(tag)
      age  == Min({n \in 0 .. RRIP_M - 1 : \E l \in set : Stops(l, tag, n)})
      at   == Min({l \in set : Stops(l, tag, age)})
      sig  == Signature(addr)
      old  == content[at]
      aged == [l \in Lines |-> IF l \in set THEN [content[l] EXCEPT !.rrpv = @ + age] ELSE content[l]]
      punished == IF updateSHIP /\ old.tag # 0 /\ ~old.outcome /\ SHCT[old.signature] > 0
                  THEN [SHCT EXCEPT ![old.signature] = @ - 1] ELSE SHCT
      new  == IF updateSHIP
              THEN [old EXCEPT !.outcome = FALSE, !.signature = sig,
                               !.rrpv = IF punished[sig] = 0 THEN RRIP_M - 1 ELSE RRIP_M \div 2]
              ELSE [old EXCEPT !.rrpv = RRIP_M \div 2]
  IN  [Left([aged EXCEPT ![at] = new], at) EXCEPT !.SHCT = punished]

-----------------------------------------------------------------------------
(* The calls, whichever class create made. *)
Find(addr, updateSHIP) ==
  CASE kind.policy \in Assoc -> AssocFind(addr)
    [] kind.policy = "DM" -> DMFind(addr)
    [] kind.policy = "SKEW" -> SkewFind(addr)
    [] kind.policy = "SHIP" -> SHIPFind(addr, updateSHIP)

Replace(addr, updateSHIP) ==
  CASE kind.policy \in Assoc -> AssocReplace(addr)
    [] kind.policy = "DM" -> DMReplace(addr)
    [] kind.policy = "SKEW" -> SkewReplace(addr)
    [] kind.policy = "SHIP" -> SHIPReplace(addr, updateSHIP)

Take(r, addr) ==
  /\ content' = [r.content EXCEPT ![r.at].tag = StoreTag(addr)]
  /\ irand' = r.irand /\ rand_number' = r.rand_number /\ SHCT' = r.SHCT
  /\ touched' = StoreTag(addr)
  /\ UNCHANGED kind

Callers ==
  CASE kind.policy = "SKEW" -> SkewAddrs
    [] kind.policy = "SHIP" -> ShipAddrs
    [] OTHER -> StoreAddrs

\* fillLine; a caller of SHiP fills only what it did not find.
Fill(addr, updateSHIP) ==
  /\ kind.policy = "SHIP" => Find(addr, updateSHIP).at = -1
  /\ Take(Replace(addr, updateSHIP), addr)

\* readLine and writeLine, which are findLine.
ReadLine(addr, updateSHIP) ==
  \E r \in {Find(addr, updateSHIP)} :
    /\ content' = r.content /\ SHCT' = r.SHCT
    /\ touched' = IF r.at = -1 THEN touched ELSE StoreTag(addr)
    /\ UNCHANGED <<kind, irand, rand_number>>

StoresNext ==
  \E addr \in Callers : \E updateSHIP \in IF kind.policy = "SHIP" THEN BOOLEAN ELSE {FALSE} :
    Fill(addr, updateSHIP) \/ ReadLine(addr, updateSHIP)

-----------------------------------------------------------------------------
(* A line is in a store once at most (LiveCacheCore.cc:225-309, 434-510),   *)
(* although a fill may come without a look-up, the skewed store has three    *)
(* places for it, and every replacement moves lines about.                   *)
OneLinePerTag ==
  \A l, m \in Lines : content[l].tag # 0 /\ content[l].tag = content[m].tag => l = m

(* LRU and RANDOM do not give up the line used last (LiveCacheCore.cc:265-  *)
(* 274, "Not MRU"): RANDOM counts its victims in one counter for all sets,   *)
(* which starts at the first way.                                            *)
MruKept ==
  [][ kind.policy \in {"LRU", "RANDOM"} /\ touched # 0 =>
        \E l \in Lines : content'[l].tag = touched ]_svars
=============================================================================

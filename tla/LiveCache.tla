------------------------------ MODULE LiveCache ------------------------------
(* The live cache of the instrumented simulator (LiveCache.cc over the       *)
(* associative LRU cache of LiveCacheCore.cc that create() builds) and the  *)
(* trace files it produces.  Everything happens inside one call made for     *)
(* each access of a simulated cache, so the component is a record and one    *)
(* operator, LiveAccess; CacheSim makes the calls.                           *)
(*                                                                           *)
(* An address is a natural number in units of the smallest block.  A line    *)
(* never filled has tag 0, and so does the block at address 0; its st and    *)
(* order are whatever malloc returned and are never printed.                 *)
EXTENDS Integers, Sequences, SequencesExt, FiniteSetsExt

CONSTANTS
  LiveSets, LiveWays, LiveLine,   \* create(): sets, associativity, line size
  warmup_cache_size, skip, live_cache_count, number_of_desired_trace_files

Log2able(n) == n \in {1, 2, 4, 8}
ASSUME LiveAssumption ==
  /\ Log2able(LiveSets) /\ Log2able(LiveWays) /\ Log2able(LiveLine)
  /\ {warmup_cache_size, live_cache_count, number_of_desired_trace_files} \subseteq Nat \ {0}
  /\ skip \in Nat /\ skip > live_cache_count

calcTag(addr) == addr \div LiveLine
calcAddr4Tag(tag) == tag * LiveLine
calcIndex4Tag(tag) == tag % LiveSets

-----------------------------------------------------------------------------
(* One set: a sequence of lines, the most recently used first. *)
Ways(set, tag) == {i \in DOMAIN set : set[i].tag = tag}
ToFront(set, i) == <<set[i]>> \o RemoveAt(set, i)

findLinePrivate(set, tag) ==
  IF Ways(set, tag) = {} THEN set ELSE ToFront(set, Min(Ways(set, tag)))

\* The search for a line to replace runs from the last way to the first, but
\* looks at the first before that.
findLine2Replace(set, tag) ==
  IF set[1].tag = tag THEN set
  ELSE ToFront(set, IF Ways(set, tag) # {} THEN Max(Ways(set, tag)) ELSE Len(set))

fillLine(set, tag) == [findLine2Replace(set, tag) EXCEPT ![1].tag = tag]

FreshLine == [tag |-> 0, st |-> FALSE, order |-> 0]

-----------------------------------------------------------------------------
FreshLive ==
  [content |-> [s \in 0 .. LiveSets - 1 |-> [w \in 1 .. LiveWays |-> FreshLine]],
   maxOrder |-> 0, counter |-> 0, state |-> "warmup_cache", trace_file_counter |-> 1,
   files |-> << >>]

\* read: looks the line up first, to clear st only when the fill brings it in.
ReadSet(set, tag, order) ==
  LET tmp == IF Ways(set, tag) = {} THEN 0 ELSE tag
      new == fillLine(findLinePrivate(set, tag), tag)
  IN  [new EXCEPT ![1].order = order, ![1].st = IF tag # tmp THEN FALSE ELSE @]

WriteSet(set, tag, order) ==
  [fillLine(set, tag) EXCEPT ![1].order = order, ![1].st = TRUE]

(* mutant: a read of a resident line makes it the youngest, but leaves its order *)
TouchKeepsOrder(live, addr, asRead) ==
  LET tag == calcTag(addr)
      s   == calcIndex4Tag(tag)
      old == live.content[s]
      at  == IF Ways(old, tag) = {} THEN live.maxOrder ELSE old[Min(Ways(old, tag))].order
      new == IF asRead THEN ReadSet(old, tag, at) ELSE WriteSet(old, tag, live.maxOrder)
  IN  [live EXCEPT !.content[s] = new, !.maxOrder = @ + 1, !.counter = @ + 1]

Touch(live, addr, asRead) ==
  LET tag == calcTag(addr)
      s   == calcIndex4Tag(tag)
      new == IF asRead THEN ReadSet(live.content[s], tag, live.maxOrder)
                       ELSE WriteSet(live.content[s], tag, live.maxOrder)
  IN  [live EXCEPT !.content[s] = new, !.maxOrder = @ + 1, !.counter = @ + 1]

-----------------------------------------------------------------------------
(* The snapshot at the head of a trace file. *)
MergeSort(arr) ==
  LET Sorted[lo \in 1 .. Len(arr) + 1, hi \in 0 .. Len(arr)] ==
        LET len == hi - lo + 1
            mid == len \div 2
            arr1 == Sorted[lo, lo + mid - 1]
            arr2 == Sorted[lo + mid, hi]
            Merge[m \in 0 .. mid, n \in 0 .. (len - mid)] ==
              IF m = mid /\ n = len - mid THEN << >>
              ELSE IF n >= len - mid \/ (m < mid /\ arr1[m + 1].order <= arr2[n + 1].order)
              THEN <<arr1[m + 1]>> \o Merge[m + 1, n]
              ELSE <<arr2[n + 1]>> \o Merge[m, n + 1]
        IN  CASE len < 2 -> SubSeq(arr, lo, hi)
              [] len = 2 -> IF arr[lo].order > arr[hi].order THEN <<arr[hi], arr[lo]>>
                                                             ELSE <<arr[lo], arr[hi]>>
              [] OTHER -> Merge[0, 0]
  IN  Sorted[1, Len(arr)]

getPLines(live) == FlattenSeq([s \in 1 .. LiveSets |-> live.content[s - 1]])

traverse_and_print(live) ==
  LET arr == MergeSort(SelectSeq(getPLines(live), LAMBDA l : l.order # 0))
      Print1(l) == [st |-> l.st, addr |-> calcAddr4Tag(l.tag)]
      kept == SelectSeq(arr, LAMBDA l : l.tag > 0)
  IN  [i \in DOMAIN kept |-> Print1(kept[i])]

-----------------------------------------------------------------------------
(* tracefile_generate, called after every access; a is the access. *)
Aborted(live) == live.state = "aborted"

(* mutant: the access that closes the file is also written to it *)
OneOpOffByOne(live, a) ==
  LET f == Len(live.files)
      wrote == IF live.counter <= live_cache_count
               THEN [live EXCEPT !.files[f].ops = Append(@, a)] ELSE live
  IN  IF live.counter = live_cache_count
      THEN [wrote EXCEPT !.files[f].closed = TRUE, !.state = "skip_state"] ELSE wrote

OneOp(live, a) ==
  LET f == Len(live.files)
  IN  IF live.counter = live_cache_count
      THEN [live EXCEPT !.files[f].closed = TRUE, !.state = "skip_state"]
      ELSE IF live.counter < live_cache_count
      THEN [live EXCEPT !.files[f].ops = Append(@, a)]
      ELSE live

(* mutant: the counter runs on when a file is begun *)
NewFileKeepsCounter(live) ==
  [live EXCEPT !.trace_file_counter = @ + 1, !.state = "one_million_ops",
               !.files = Append(@, [snapshot |-> traverse_and_print(live), ops |-> << >>,
                                    closed |-> FALSE, at |-> live.maxOrder])]

NewFile(live) ==
  [live EXCEPT !.trace_file_counter = @ + 1, !.counter = 0, !.state = "one_million_ops",
               !.files = Append(@, [snapshot |-> traverse_and_print(live), ops |-> << >>,
                                    closed |-> FALSE, at |-> live.maxOrder])]

BeginFile(live) ==
  IF live.trace_file_counter = number_of_desired_trace_files
  THEN [live EXCEPT !.state = "aborted"]
  ELSE NewFile(live)

tracefile_generate(live, a) ==
  CASE live.state = "warmup_cache" ->
         IF live.counter = warmup_cache_size THEN [live EXCEPT !.state = "begin_next_file"] ELSE live
    [] live.state = "skip_state" ->
         IF live.counter = skip THEN [live EXCEPT !.state = "begin_next_file"] ELSE live
    [] live.state = "one_million_ops" -> OneOp(live, a)
    [] live.state = "begin_next_file" -> BeginFile(live)

\* cache_sim_t::access hands a store to read and a load to write.
LiveAccess(live, a) ==
  IF Aborted(live) THEN live
  ELSE tracefile_generate(Touch(live, a.addr, a.store), a)

-----------------------------------------------------------------------------
(* What a snapshot should hold, from the log of accesses alone. *)
LastAt(log, tag) == Max({i \in DOMAIN log : calcTag(log[i].addr) = tag})
Tags(log) == {calcTag(log[i].addr) : i \in DOMAIN log}

\* The tags more recent than tag in its set are fewer than the ways.
Resident(log, tag) ==
  Cardinality({t \in Tags(log) : /\ calcIndex4Tag(t) = calcIndex4Tag(tag)
                                 /\ LastAt(log, t) > LastAt(log, tag)}) < LiveWays

\* The access that brought the line in: the first of the last run of accesses
\* during which it stayed resident.
Brought(log, tag) ==
  Min({i \in DOMAIN log :
         /\ calcTag(log[i].addr) = tag
         /\ \A j \in i .. Len(log) : Resident(SubSeq(log, 1, j), tag)})

\* A resident line is printed unless its only access is the very first one,
\* and says whether an access went to write since it was brought in.
Expected(log) ==
  LET tags == {t \in Tags(log) : t > 0 /\ Resident(log, t) /\ LastAt(log, t) > 1}
      Line(t) == [st |-> \E i \in Brought(log, t) .. Len(log) :
                           calcTag(log[i].addr) = t /\ ~log[i].store,
                  addr |-> calcAddr4Tag(t)]
      sorted == SetToSortSeq(tags, LAMBDA s, t : LastAt(log, s) < LastAt(log, t))
  IN  [i \in DOMAIN sorted |-> Line(sorted[i])]
=============================================================================

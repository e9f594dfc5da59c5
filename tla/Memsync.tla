------------------------------- MODULE Memsync -------------------------------
(* The generator of the memory operations of a memset or a memcpy            *)
(* (op_dumper/sync.cpp).  getNext asks nothing of hasNext, and the set       *)
(* functions leave pc where the last sequence ended.                         *)
EXTENDS Operation

\* 64-bit sum of a word and a small number
WordPlus(w, k) ==
  LET carry[i \in 0 .. 8] == IF i = 0 THEN k ELSE (w[i] + carry[i - 1]) \div 256
  IN  [i \in 1 .. 8 |-> (w[i] + carry[i - 1]) % 256]

FreshMemsync ==
  [syncType |-> "none", pc |-> 0, src |-> Zero8, dest |-> Zero8,
   counter |-> 0, len |-> 0, data |-> 0]

setMemcpy(s, src, dest, num) ==
  [s EXCEPT !.src = src, !.dest = dest, !.len = 2 * num, !.counter = 0,
            !.data = 102, !.syncType = "memcpy"]

setMemset(s, address, value, num) ==
  [s EXCEPT !.dest = address, !.data = value, !.len = num, !.counter = 0,
            !.syncType = "memset"]

hasNextSync(s) == s.counter < s.len

\* a load of a memcpy is the even step, its store the odd one that follows
LoadsNext(s) == s.syncType = "memcpy" /\ s.counter % 2 = 0

NextOp(s) ==
  LET at(base) == WordPlus(base, 8 * s.counter)
      pc       == WordPlus(Zero8, s.pc)
      load     == setHeader(setLoadOpCode(FreshOperation, 1), 0, 0, pc, at(s.src))
      store    == setHeader(setStoreOpCode(FreshOperation, 0), 0, 0, pc, at(s.dest))
  IN  IF LoadsNext(s) THEN load ELSE setVal(store, Scalar(s.data))

Advanced(s) == [s EXCEPT !.counter = @ + 1, !.pc = @ + 1]
=============================================================================

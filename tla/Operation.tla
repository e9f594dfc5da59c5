------------------------------ MODULE Operation ------------------------------
(* One memory operation of the trace dumper (op_dumper/operation*.cpp): its  *)
(* fields, the setters a client calls in any order, and the bytes it is      *)
(* written as and read back from.  A 64-bit field is the sequence of its     *)
(* eight bytes, low byte first, as the file holds it; the eight data words   *)
(* of an operation are 64 bytes.                                             *)
EXTENDS Integers, Sequences, SequencesExt

Byte == 0 .. 255
Word == [1 .. 8 -> Byte]
Zero8 == [i \in 1 .. 8 |-> 0]
Zero64 == [i \in 1 .. 64 |-> 0]

\* NBITMASK(PID_BITS) and NBITMASK(DELAY_BITS): twelve bits are kept
Field12 == 4096

\* The op codes of loads and of stores, in the order of their op numbers, and
\* the bytes of data each one moves.  Line-locking loads are the codes plus 16;
\* line-unlocking stores are the codes plus 128, and 255 moves nothing.
LoadCodes  == << 0, 1, 2, 3, 4, 5, 6, 8, 10, 12 >>
LoadSizes  == << 1, 1, 2, 2, 4, 4, 8, 16, 32, 64 >>
StoreCodes == << 0, 2, 4, 6, 8, 10, 12 >>
StoreSizes == << 1, 2, 4, 8, 16, 32, 64 >>

LoadNums  == (1 .. 10) \cup (21 .. 30)
StoreNums == (41 .. 47) \cup (61 .. 68)
OPNUM_LIVECACHE == 0

IndexIn(s, x) == CHOOSE i \in DOMAIN s : s[i] = x

loadOpnumMap ==
  [c \in ToSet(LoadCodes) \cup {16 + d : d \in ToSet(LoadCodes)} |->
     (IF c < 16 THEN 0 ELSE 20) + IndexIn(LoadCodes, c % 16)]

storeOpnumMap ==
  [c \in ToSet(StoreCodes) \cup {128 + d : d \in ToSet(StoreCodes)} \cup {255} |->
     IF c = 255 THEN 61
     ELSE (IF c < 128 THEN 40 ELSE 61) + IndexIn(StoreCodes, c % 128)]

opcodeMap ==
  [n \in LoadNums \cup StoreNums |->
     CASE n \in 1 .. 10  -> LoadCodes[n]
       [] n \in 21 .. 30 -> 16 + LoadCodes[n - 20]
       [] n \in 41 .. 47 -> StoreCodes[n - 40]
       [] n = 61         -> 255
       [] OTHER          -> 128 + StoreCodes[n - 61]]

getOpTypeByOpNum(n) ==
  CASE n \in LoadNums         -> "load"
    [] n \in StoreNums        -> "store"
    [] n = OPNUM_LIVECACHE    -> "lc"
    [] OTHER                  -> "invalid"

\* the data size setLoadNeedData chooses, and the one setStoreOpCode chooses
LoadSize(n)  == LoadSizes[IF n > 20 THEN n - 20 ELSE n]
StoreSize(n) == IF n = 61 THEN 0 ELSE StoreSizes[IF n > 61 THEN n - 61 ELSE n - 40]

-----------------------------------------------------------------------------
\* Operation::Operation().  The op number is that of a live cache operation and
\* the type that of a load.
FreshOperation ==
  [opCode |-> 0, pid |-> 0, delay |-> 0, pc |-> Zero8, addr |-> Zero8,
   val |-> Zero64, opNum |-> 0, opType |-> "load", dataSize |-> 0, ldData |-> FALSE]

setLoadOpCode(op, c) ==
  [op EXCEPT !.opCode = c, !.opNum = loadOpnumMap[c], !.opType = "load", !.dataSize = 0]

setStoreOpCode(op, c) ==
  LET n == storeOpnumMap[c]
  IN  [op EXCEPT !.opCode = c, !.opNum = n, !.opType = "store", !.dataSize = StoreSize(n)]

setLiveCacheOp(op) ==
  [op EXCEPT !.opCode = OPNUM_LIVECACHE, !.opNum = OPNUM_LIVECACHE,
             !.opType = "lc", !.dataSize = 0]

MaskLow3(w) == [w EXCEPT ![1] = @ - (@ % 8)]

\* setPid, setDelay, setPC and setAddr, which every client calls together
setHeader(op, pid, delay, pc, addr) ==
  [op EXCEPT !.pid = pid, !.delay = delay, !.pc = pc, !.addr = MaskLow3(addr)]

\* setVal of a vector: whole words replace the leading words; setVal of a
\* scalar: the first word, zero extended.  Both are a sequence of bytes whose
\* length is a multiple of eight.
setVal(op, bytes) ==
  [op EXCEPT !.val = bytes \o SubSeq(@, Len(bytes) + 1, 64)]
Scalar(b) == << b, 0, 0, 0, 0, 0, 0, 0 >>

\* a load whose op number has no data size ends the process
NeedDataExits(op) == op.opType = "load" /\ op.opNum \notin LoadNums
setLoadNeedData(op) ==
  IF op.opType = "load"
  THEN [op EXCEPT !.ldData = TRUE, !.dataSize = LoadSize(op.opNum)]
  ELSE [op EXCEPT !.ldData = TRUE]
setLoadNoData(op) ==
  IF op.opType = "load" THEN [op EXCEPT !.ldData = FALSE, !.dataSize = 0] ELSE op

\* the data of the operation, bytes beyond its size cleared
getVal(op) == SubSeq(op.val, 1, op.dataSize) \o SubSeq(Zero64, op.dataSize + 1, 64)

-----------------------------------------------------------------------------
\* bit 0 of the first address byte tells the reader that a load carries data
DataFlag(op) == IF op.opType = "load" /\ op.ldData THEN 1 ELSE 0

getLCBinary(op) == << OPNUM_LIVECACHE >> \o MaskLow3(op.addr)

\* the op number, and twelve bits each of pid and delay
Leading(op) ==
  << op.opNum % 256, (op.pid % Field12) \div 16,
     (op.pid % 16) * 16 + (op.delay % Field12) \div 256, op.delay % 256 >>

AddressBytes(op) == [MaskLow3(op.addr) EXCEPT ![1] = @ + DataFlag(op)]

(* mutant: the high bits of the delay are shifted without the delay mask *)
getBinaryWideDelay(op) ==
  IF op.opNum = OPNUM_LIVECACHE THEN getLCBinary(op)
  ELSE << op.opNum % 256, (op.pid % Field12) \div 16,
          ((op.pid % 16) * 16 + op.delay \div 256) % 256, op.delay % 256 >>
       \o op.pc \o AddressBytes(op) \o SubSeq(getVal(op), 1, op.dataSize)

getBinary(op) ==
  IF op.opNum = OPNUM_LIVECACHE THEN getLCBinary(op)
  ELSE Leading(op) \o op.pc \o AddressBytes(op) \o SubSeq(getVal(op), 1, op.dataSize)

FixedBytes == 20

(* mutant: the reader ignores the data bit of the address *)
setFromBinaryNoFlag(op, b) ==
  LET n     == b[1]
      coded == IF getOpTypeByOpNum(n) = "load" THEN setLoadOpCode(op, opcodeMap[n])
               ELSE setStoreOpCode(op, opcodeMap[n])
  IN  setHeader(coded, b[2] * 16 + b[3] \div 16, (b[3] % 16) * 256 + b[4],
                SubSeq(b, 5, 12), SubSeq(b, 13, 20))

\* the twenty fixed bytes, applied to a fresh operation; the data size comes out
setFromBinary(op, b) ==
  LET n     == b[1]
      coded == IF getOpTypeByOpNum(n) = "load" THEN setLoadOpCode(op, opcodeMap[n])
               ELSE setStoreOpCode(op, opcodeMap[n])
      flags == IF b[13] % 2 = 1 THEN setLoadNeedData(coded) ELSE setLoadNoData(coded)
  IN  setHeader(flags, b[2] * 16 + b[3] \div 16, (b[3] % 16) * 256 + b[4],
                SubSeq(b, 5, 12), SubSeq(b, 13, 20))

-----------------------------------------------------------------------------
\* What a reader of the trace is owed of a written operation: the op, twelve
\* bits of pid and delay, pc, aligned address and, if the op carries data, as
\* many bytes of it as the op moves; of a live cache operation, the address.
Recorded(op) ==
  IF op.opNum = OPNUM_LIVECACHE
  THEN [setLiveCacheOp(FreshOperation) EXCEPT !.addr = op.addr]
  ELSE [op EXCEPT !.pid = @ % Field12, !.delay = @ % Field12,
                  !.val = getVal(op), !.ldData = op.opType = "load" /\ op.dataSize > 0]

=============================================================================

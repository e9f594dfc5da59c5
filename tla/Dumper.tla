------------------------------- MODULE Dumper -------------------------------
(* The trace dumper of op_dumper: one process that builds operations, writes *)
(* them to a binary trace through a Dumper, and reads the trace back.  The   *)
(* stream buffers what it is given, so a process that ends before it closes  *)
(* the file (a check that calls exit(), or a crash) leaves on disk a prefix  *)
(* of the bytes written, cut at any byte.                                    *)
EXTENDS Memsync

CONSTANTS
  LoadOps,            \* op codes the client gives to setLoadOpCode
  StoreOps,           \* op codes the client gives to setStoreOpCode
  Headers,            \* << pid, delay, pc, addr >> the client sets
  Values,             \* byte strings the client gives to setVal
  SyncBase,           \* source and destination address of the generator
  SyncUnits,          \* units it is asked for
  MaxOps,             \* bound: operations in a trace
  Cuts,               \* bound: lengths the trace of a dead process is tried at
  ChoosesLoadData,    \* the client chooses again after each setLoadOpCode
  ConstructsToRead    \* the client may construct a Dumper in read mode

ASSUME DumperAssumption ==
  /\ LoadOps \subseteq DOMAIN loadOpnumMap
  /\ StoreOps \subseteq DOMAIN storeOpnumMap
  /\ MaxOps \in Nat /\ SyncUnits \in Nat /\ Cuts \subseteq Nat
  /\ Headers \subseteq Nat \X Nat \X Word \X Word /\ SyncBase \in [src : Word, dest : Word]
  /\ Values \subseteq {v \in Seq(Byte) : Len(v) <= 64 /\ Len(v) % 8 = 0}   \* words, eight at most
  /\ ChoosesLoadData \in BOOLEAN /\ ConstructsToRead \in BOOLEAN

VARIABLES
  op,        \* the operation the client is building
  sync,      \* the memsync generator
  file,      \* bytes of the trace
  mode,      \* Dumper::mode
  stream,    \* "closed", "good", "eof"
  pos,       \* read position
  running,   \* the process has not exited
  written,   \* history: operations added since the trace was created
  got,       \* history: operations read since it was opened
  torn       \* history: the process ended before it closed the trace

dumpVars == << op, sync, file, mode, stream, pos, running, written, got, torn >>
dumper == << file, mode, stream, pos, written, got, torn >>

\* The default constructor leaves mode as it finds it.
DumpInit ==
  /\ op = FreshOperation /\ sync = FreshMemsync
  /\ file = << >> /\ mode = "undefined" /\ stream = "closed" /\ pos = 1
  /\ running = TRUE /\ written = << >> /\ got = << >> /\ torn = FALSE

\* exit() and a crash do not run the destructors of automatic objects: what the
\* stream still buffers is lost.  A new process starts with fresh objects.
Exit ==
  /\ running' = FALSE
  /\ \E n \in {c \in Cuts : c < Len(file)} \cup {Len(file)} :
       /\ (stream = "good" /\ mode = "write") \/ n = Len(file)
       /\ file' = SubSeq(file, 1, n)
       /\ torn' = (torn \/ n < Len(file))
  /\ op' = FreshOperation /\ sync' = FreshMemsync
  /\ mode' = "undefined" /\ stream' = "closed" /\ pos' = 1 /\ got' = << >>
  /\ UNCHANGED written

Restart ==
  /\ ~running /\ running' = TRUE
  /\ UNCHANGED << op, sync, dumper >>

-----------------------------------------------------------------------------
\* The client's calls on its operation, while it is writing a trace.
Building == running /\ mode = "write" /\ Len(written) < MaxOps

NewOperation == Building /\ op' = FreshOperation /\ UNCHANGED << sync, running, dumper >>
SetLoadOpCode ==
  Building /\ \E c \in LoadOps : op' = setLoadOpCode(op, c) /\ UNCHANGED << sync, running, dumper >>
SetStoreOpCode ==
  Building /\ \E c \in StoreOps : op' = setStoreOpCode(op, c) /\ UNCHANGED << sync, running, dumper >>
SetLiveCacheOp == Building /\ op' = setLiveCacheOp(op) /\ UNCHANGED << sync, running, dumper >>
SetHeader ==
  Building /\ \E h \in Headers : op' = setHeader(op, h[1], h[2], h[3], h[4])
                                 /\ UNCHANGED << sync, running, dumper >>
SetVal ==
  Building /\ \E v \in Values : op' = setVal(op, v) /\ UNCHANGED << sync, running, dumper >>
SetLoadNeedData ==
  /\ Building
  /\ IF NeedDataExits(op) THEN Exit
     ELSE op' = setLoadNeedData(op) /\ UNCHANGED << sync, running, dumper >>
SetLoadNoData == Building /\ op' = setLoadNoData(op) /\ UNCHANGED << sync, running, dumper >>

-----------------------------------------------------------------------------
\* Dumper::open on a closed stream; a new trace forgets the old one.
Opened(m) ==
  /\ stream' = "good" /\ mode' = m /\ pos' = 1 /\ got' = << >>
  /\ UNCHANGED << op, sync, running >>

OpenToWrite ==
  /\ running /\ stream = "closed"
  /\ Opened("write") /\ file' = << >> /\ written' = << >> /\ torn' = FALSE

OpenToRead ==
  /\ running /\ stream = "closed"
  /\ Opened("read") /\ UNCHANGED << file, written, torn >>

\* Dumper(filename, mode): the file is opened for output and truncated, whatever
\* the mode, and a stream open for output alone is at its end when it is read.
ConstructOpen ==
  /\ running /\ stream = "closed" /\ mode = "undefined"
  /\ \E m \in {"write"} \cup (IF ConstructsToRead THEN {"read"} ELSE {}) :
       Opened(m) /\ file' = << >> /\ torn' = FALSE
       /\ written' = IF m = "write" THEN << >> ELSE written

\* the client's next trace is built from new objects
Close ==
  /\ running /\ stream # "closed"
  /\ stream' = "closed" /\ mode' = "uninit" /\ pos' = 1 /\ got' = << >>
  /\ op' = FreshOperation /\ sync' = FreshMemsync
  /\ UNCHANGED << file, running, written, torn >>

-----------------------------------------------------------------------------
checkMode(m) == mode = m
checkFileState == stream # "closed"

\* the client has chosen, since the last setLoadOpCode, whether data is recorded
DataChosen(o) == o.opType = "load" /\ o.ldData => o.dataSize > 0

AddTo(o) ==
  /\ file' = file \o getBinary(o)
  /\ written' = Append(written, o)
  /\ UNCHANGED << mode, stream, pos, got, torn >>

Add ==
  /\ running /\ Len(written) < MaxOps
  /\ ChoosesLoadData => DataChosen(op)
  /\ checkMode("write") /\ checkFileState
  /\ AddTo(op) /\ UNCHANGED << op, sync, running >>

\* add or get in the other mode or without a file ends the process, at any time
\* and in the same way as a crash
Misuse ==
  /\ running
  /\ \/ ~(checkMode("write") /\ checkFileState)
     \/ ~(checkMode("read") /\ checkFileState)
  /\ Exit

\* the client's loop  op = syncer.getNext(); dumper.add(op)
SetMemset == \* one of the generator's two sequences
  /\ Building /\ sync.syncType = "none" /\ \E v \in {7} : sync' = setMemset(sync, SyncBase.dest, v, SyncUnits)
  /\ UNCHANGED << op, running, dumper >>
SetMemcpy ==
  /\ Building /\ sync.syncType = "none" /\ sync' = setMemcpy(sync, SyncBase.src, SyncBase.dest, SyncUnits)
  /\ UNCHANGED << op, running, dumper >>
SyncAdd ==
  /\ Building /\ hasNextSync(sync)
  /\ op' = NextOp(sync) /\ sync' = Advanced(sync)
  /\ AddTo(op') /\ UNCHANGED running

-----------------------------------------------------------------------------
\* A read at the end of the file leaves the byte read before it in place.
Padding == [i \in 1 .. FixedBytes + 64 |-> Last(file)]
Bytes(from, n) == SubSeq(file \o Padding, from, from + n - 1)

\* Dumper::get on the bytes b at the read position, and the number it consumes.
\* The last word of the data is filled up with zeros.
get(b) ==
  LET fixed == setFromBinary(FreshOperation, b)
      data  == SubSeq(b, FixedBytes + 1, FixedBytes + fixed.dataSize)
  IN  IF getOpTypeByOpNum(b[1]) = "lc"
      THEN [setLiveCacheOp(FreshOperation) EXCEPT !.addr = MaskLow3(SubSeq(b, 2, 9))]
      ELSE setVal(fixed, data \o SubSeq(Zero8, 1, (8 - (Len(data) % 8)) % 8))
Consumed(o) == IF o.opType = "lc" THEN 9 ELSE FixedBytes + o.dataSize

hasNext == stream = "good" /\ pos <= Len(file)

\* one turn of  while(dumper.hasNext()) op = dumper.get();
ReadNext ==
  /\ running /\ checkMode("read") /\ checkFileState /\ hasNext
  /\ IF getOpTypeByOpNum(file[pos]) = "invalid" THEN Exit
     ELSE \E b \in {Bytes(pos, FixedBytes + 64)} : \E o \in {get(b)} :
          /\ got' = Append(got, o)
          /\ pos' = pos + Consumed(o)
          /\ stream' = IF pos + Consumed(o) - 1 > Len(file) THEN "eof" ELSE "good"
          /\ UNCHANGED << op, sync, file, mode, running, written, torn >>

ReadEnd ==
  /\ running /\ checkMode("read") /\ stream = "good" /\ ~hasNext
  /\ stream' = "eof"
  /\ UNCHANGED << op, sync, file, mode, pos, running, written, got, torn >>

Calls ==
  \/ NewOperation \/ SetLoadOpCode \/ SetStoreOpCode \/ SetLiveCacheOp
  \/ SetHeader \/ SetVal \/ SetLoadNeedData \/ SetLoadNoData
  \/ OpenToWrite \/ OpenToRead \/ ConstructOpen \/ Close
  \/ Add \/ SetMemset \/ SetMemcpy \/ SyncAdd \/ ReadNext \/ ReadEnd

DumpNext == Calls \/ Misuse \/ Restart

DumpSpec == DumpInit /\ [][DumpNext]_dumpVars
-----------------------------------------------------------------------------
\* What is read is what was added, operation for operation: pid, delay, pc and
\* address as far as the format keeps them, data where the operation carries
\* it.  Of a trace whose writer died, every operation but the last one read is
\* still intact, and no operation appears that was not added.  And hasNext says
\* no only after the last operation of an intact trace: the reader is never left
\* in the middle of one (dumper.cpp:49-142, operation_binary.cpp).
ReadBack ==
  mode = "read" =>
    /\ \A i \in DOMAIN got :
         /\ i <= Len(written)
         /\ ~torn \/ i < Len(got) => got[i] = Recorded(written[i])
    /\ stream = "eof" /\ ~torn => Len(got) = Len(written)
=============================================================================

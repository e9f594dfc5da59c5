# Verification of the CMPE220 memory hierarchy and its simulator

TLA+ models of the three programs of this repository: the SystemVerilog memory hierarchy under `src/rtl`, the
instruction set simulator it is compared with (`src/riscv-isa-sim`: interpreter, SoftFloat, memory port, cache
simulator, live cache) and the trace library `src/op_dumper`. They are checked with TLC on small instances; for the
elastic circuits, the directory, the L2, the memory port, the devices, and the harts with their scheduler and host,
the safety properties are proved with TLAPS for every size. `PROJECT.json` lists the components, the runs, a mutant
for each property that shows that it can fail, the source lines behind each definition, the hazards and the theorems.

## The system

**Hardware.** Cores reach memory through L1 caches, one L2 per L1, a network and directory banks. Modules talk
over *channels*: `valid` and data go forward, `retry` comes back, and a word moves at a clock edge at which valid
is high and retry is low. Every module keeps the words of its outputs in elastic flops. L1 -> L2 by `l1tol2_req`
and `l1tol2_disp`; L1 -> TLBs -> L2 by the translation `l2tlbtol2_fwd`, which carries the same `l1id`;
L2 -> directory by request, displacement, prefetch and snoop acknowledgement; back by `snack` (answer or snoop)
and `dack`; directory <-> memory by request, write-back and acknowledgement.

**Simulator.** One host thread (`sim_t`) gives each hart turns of INTERLEAVE instructions and lets the host
(`htif`) or the debugger in between. A hart fetches through `mmu_t`, which translates, caches translations and
decoded instructions, and reports accesses to tracers; the tracers are the cache simulator, which drives the live
cache and its trace files. Floating-point instructions call SoftFloat, whose mode and flags are globals.

**Traces.** `op_dumper` builds operations by setters and writes them to, or reads them from, a binary file.

| component | state | operations | hard behaviour | what makes it correct |
|---|---|---|---|---|
| elastic flop (`fflop.v`) | q, shadowq, two valid bits | clock edge, reset | the refusal is registered, so one more word comes | every word once, in order, held still while refused |
| fork, join, chain of flops | their flops | clock edge | two consumers or producers that move at different times | both branches alike; operands paired; a queue |
| memory ports (`ram_1port_*`) | array, last_busy, answer flops | read, write | a refused write already wrote | answers in order, of the last accepted write |
| directory bank (`directory_bank.v`) | request buffer, tags, entries, snapshot of entries, ten flops | accept, look up, snoop, take data or denial, answer, release, write back | many handlers share the buffer and the flops; answers and releases race new requests; latches | one place per request, one answer, one writer |
| L2 pass-through (`l2cache_pipe.v`) | six flops, two latches, a flag | one clock edge | ports refused for different reasons | each request with its own translation |
| scheduler, host, debugger (`sim.cc`, `htif.cc`, `interactive.cc`) | whose turn, steps, rtc, mailboxes | tick, step, packets, commands | a turn ends for several reasons; packets arrive inside CSR accesses | every hart gets its turn; no message lost |
| hart (`processor.cc`, `execute.cc`) | privilege stack, CSRs, pc, reservation | step, trap, interrupt, CSR access | serialized instructions run twice | returns where trapped; exact counters; atomic lr/sc |
| memory port (`mmu.cc`, `mmu.h`) | TLB, instruction cache, tracers | load, store, fetch, flush | one data entry for three tag arrays; entries filled out of place | as if nothing were cached |
| decoder, devices (`processor.cc`, `devices.cc`) | opcode cache, moved list; bus map | decode, load, store | a list that reorders itself; negated keys | as listed; the owner of the address |
| SoftFloat, floating-point and integer instructions | mode and flags of the library and of the harts | one instruction | rounding, subnormals, ties, halves of products; shared globals | exact results and flags |
| cache simulator, live cache (`cachesim.cc`, `LiveCache.cc`, `LiveCacheCore.cc`) | tags, dirty bits, statistics; order of lines; trace files | access, replace, write the trace | levels that replace each other's lines; counters compared for equality | levels agree; files faithful |
| trace library (`op_dumper`) | an operation, a stream | setters, add, get | fields left over; files cut short | what is read was written |

No crash recovery, timer or message loss exists in the hardware: what is hard there is order, refusals, shared
buffers and signals that keep an old value. The simulator is one thread; what is hard is cached state, the
places where the host comes in, and arithmetic. Only the trace library meets crashes: its reader gets the files
of writers that died.

## Modules

| module | models | how |
|---|---|---|
| `FflopOps` | the equations of `fflop.v` | one operator per signal; a flop is the record q, qValid, shadowq, shadowValid |
| `Fflop` | one flop | a step is a clock edge; `sent` and `received` are history |
| `BoundedFifo` | what an elastic path promises | the abstract queue with the words that entered and left; `Fflop` and `FflopChain` implement it |
| `ForkFflop`, `JoinFadd`, `FflopChain` | the three small circuits | a step is a clock edge of all flops |
| `RamPort` | both one-port RAMs | `Dense`, fixed at the start, says which one |
| `MCElasticPaths` | one flop and instances of the circuits above | a behaviour is one of a single circuit |
| `DirectoryOps`, `DirectoryBank` | the bank with its L2s and memory | equations of entries and tags; a step is one handler, with everything it drives |
| `L2Passthrough` | the default L2 | a step is a clock edge, or the environment presenting or taking a word |
| `Hart` | state and CSRs of one hart | operators on a record of the hart |
| `Machine` | scheduler, fetch loop, host, debugger, instructions that touch the above | a step is one turn of a loop of the code; `Programs` list the instructions and packets that occur |
| `Mmu` | page walk, TLB, instruction cache, tracers | a step is one access, flush or write of a page table |
| `MmuSoftware`, `MCMprv` | software that never sets MPRV so that fetches and data differ; software that does | an assumption on `Modes` |
| `Decode`, `Devices` | opcode cache and list; bus, ROM, CSR window | a step is one decoded word or one access |
| `SoftFloat`, `SoftFloatArith`, `SoftFloatConvert` | the library | pure functions of a format (exponent, fraction and guard bits), returning result and flags |
| `FloatReference` | what the library promises | the exact rational result, rounded once |
| `Fpu` | instructions of F and D, `fcsr` | a step executes one instruction on a hart |
| `IntegerInsns`, `IntegerReference` | instructions of I, M, A, C; what they promise | pure functions; registers of 8 * `ByteBits` bits |
| `MCInstructions` | the above on small formats | picks an instruction and operands, executes |
| `CacheSim`, `LiveCache` | caches, live cache, trace files | a step is one access of the simulated program, through all levels |
| `LineStores` | the stores of `LiveCacheCore.cc` | find and replace, called directly |
| `Operation`, `Memsync`, `Dumper` | operations and their bytes; memcpy and memset; reader and writer | a step is one call of the client; `Restart` ends a process |
| `MCTraces` | instances of the five above | a behaviour is of the simulator, the stores or the dumper |
| `FflopOpsProofs`, `FflopProofs`, `ElasticPathsProofs`, `L2Proofs`, `DirectoryProofs`, `MemoryPortProofs`, `MachineProofs`, `TracesProofs` | proofs | lemmas on the operators, one per action, then the theorems |

### From clock edges to steps

`Fflop` and the circuits keep the clock edge. In the two larger modules an elastic flop is a sequence of at most
two words with `Room(q) == Len(q) < 2`; that is what `ImplementsFifo` proves a flop to be, and room is counted
before the step because `dinRetry` is registered.

`DirectoryBank` splits a cycle into handlers. Handlers that are active in the same cycle touch different flops,
except where an arbiter chooses one of them; so a cycle is some sequence of handler steps, and the model has
more orders than the circuit, never fewer. Two places need an argument:
* *The tag stage.* In the circuit a request reads the tag RAM, and the answer, two flops later, drives the entry
  RAM or a miss write. The miss write has priority over reads (`directory_bank.v:362-401`) and the requests for
  one hash never overlap, so the lookup and its write are one step here; what this loses is only the latency.
* *Outputs driven together.* A handler that drives two flops waits for both where the code looks at both
  retries. Where the code forgets one, the model loses the word as the circuit does.

`drid - 1` is computed in the bits of a slot number, so a `drid` of zero names the last slot (`SlotOf`). Signals
that an `always_comb` block does not assign on every path keep their value under Verilator; they are the
variable `latch` of the directory and `again`, `dack` of the L2. Two blocks drive `drtol2_dack_next_valid`;
which one the build keeps is not defined, and the constant `DackOnValid` chooses. `L2Passthrough.Clock` evaluates
all blocks of one cycle at once, since its handlers share ports.

### From C++ to steps

The simulator runs in one thread, so a step may be as large as the code between two points at which an observer
(another hart, the host, a tracer) could see a difference. `Machine` steps at each iteration of `sim_t::run`,
`sim_t::step`, `processor_t::step` and its inner loop, and at each instruction; a packet of the host is handled
inside the step that ticks (`Ticked`), including the ticks inside `get_csr`. Registers other than the CSRs are
abstracted: the reads that a property is about leave what they returned in `observed`, next to what was due. A
trap carries its cause and address (`mcause`, `mbadaddr`), nested ones included; the stack has three levels, as
`mstatus` has, and the CSRs are those of an RV64 hart. `ghost` records, per hart, the contexts its traps
interrupted, the number of retired instructions, and the messages under way. A handler that traps at its first
instruction keeps the thread inside `step` for ever (`execute.cc:85-152`), where the host cannot come in: safety
holds there, and the two liveness properties except it (`TrapLoop`).

SoftFloat's algorithms are written for the widths of binary32 and binary64. The models take the widths as a
parameter and keep every shift, guard bit, sticky bit and order of normalisation; so they can be run on formats
small enough to try all words. The estimate of a square root and the reciprocal loop of a remainder are replaced
by what they approach. `IntegerInsns` does the same with the width of a register; a word is half of it.

The caches keep tags, dirty bits and order; what a line holds is the number of the last store that reached it.
`LiveCache` has the four states of `tracefile_generate`, each with its own comparison. The LFSR that draws victims is
a free choice. `Operation` keeps the bytes of a record and the packing of the two 12-bit fields, since reading
back is about them; long data are sequences of bytes.

### Environments

The flops have free producers and consumers, also ones that withdraw a refused word. The RAM's requester holds a
refused request, as its testbench does. The L2s of the directory keep at most one request per id, answer a snoop
with the data if they have it modified, may (`SharersReturnData`) answer with data or (`SilentDrops`) drop the
line if it is clean, and (`FaultyReplies`) may send any displacement. Memory answers in any order. The L1 of
`L2Passthrough` takes the lowest free l1id, uses the l1id of a displacement once, and gets its translations in
the order of its accesses, as the pass-through TLBs give them. The simulated software of `Mmu` fences after it
changes page tables or code; the host sends any packet its program lists; the client of `Dumper` calls the
setters in any order.

## Runs

| run | instance | shows |
|---|---|---|
| `paths` | two words; 4 sends between resets, 3, 3 and 9 sends; two addresses | one flop: a two-place queue of exactly the words taken (`FifoSpec`), a refused word stands still, delivery; fork, join, chain and memory ports: order, pairs, a queue of eight, answers, progress |
| `dir_core` | three L2s, one line, three pointers, three slots, three requests; clean copies go without data | each request in one place of one queue, answered as it asked and in the end; one writer; holders known |
| `dir_sharers` | four L2s that may answer with data, two slots, four requests | a slot is marked found only when its data is on the way |
| `dir_own_traffic` | own displacements, prefetches, faulty replies, two lines in a set | tags one-hot; no request answered twice |
| `l2_passthrough` | three reads, one displacement (full or partial), one prefetch, at most three of them, two snacks | requests in order with their own translation; no snack lost; lines under their own address; an L1 that only reads gets all its reads through |
| `machine` | one or two harts, INTERLEAVE 2, nine programs: nested traps, interrupts enabled by a write of mstatus, timer and instret, atomics of two harts with the debugger from ctrl-c or from the start, mailboxes, software interrupts, registers written through the bus, a register the window lacks | privilege stack, lr/sc, instret, messages, timer, turns |
| `mmu` | two pages in one TLB entry, one with an instruction that crosses into the other, three instruction cache entries, a tracer of fetches and stores; eight encodings over words of four bits; a bus with the ROM and two harts | TLB, instruction cache, tracing, decoding, devices |
| `instructions` | below | every instruction exact, flags included |
| `traces` | first level of one line each, L2 of two lines twice as long, live cache of two; stores of four lines; traces of two operations | levels agree, files faithful, tracing ends, one line per tag, last used line stays, traces read back |
| `dir_wrong_way`, `l2_dack_alone`, `mprv` | expected to fail, see below | |

Bounds. The flop compares no words, so two words tell all others apart; four sends fill both places, drain and
fill them again. Nine sends overfill the eight places of the chain. With three requests of three L2s every
conflict, queue, chain of snoops, release and reuse of a slot happens in the directory; a chain of invalidations
past a found line needs the fourth L2 of `dir_sharers`. In `l2_passthrough` three reads fill the two places of the
request flop and leave one refused. In `machine` the counters wrap at 2 and `rtc` stops at 1 (`Wrap`, `MaxRtc`):
properties compare counts for equality, and a timer is due or not; `MachineProofs` has every `Wrap`. In `mmu` one TLB entry makes every refill of
the other page a conflict; the bus has 128 addresses and four interrupts (`AddrSpace`, `IntSpace`), with room for
the ROM, two harts and addresses that nobody owns. In `traces` the lengths of warm-up, skip and file are 1, 3 and 2 accesses and the log
ends after ten, which reaches the third file. `MaxReq`, `MaxSent`, `MaxForked`, `MaxJoined`, `MaxChained`, `MaxReads`, `MaxDisps`, `MaxPrefetches`,
`MaxAccesses`, `MaxSnacks`, `MaxLog`, `MaxOps`, `SyncUnits` and `MaxRtc` bound how often an environment starts
something; nothing bounds the code.

`instructions`: arithmetic on a format with 3 exponent and 3 fraction bits (all words as first operand, in all
modes; all pairs for additions, positive second operands where its sign only turns the result) and on one with 3 and
4 (selected fractions, with the ten guard bits the two-word division needs); fused operations on selected
fractions; conversions between formats of 5+2 and 6+9 bits and integers of 7 and 14 bits, so that both formats exceed
both integers; two harts that interleave divisions, comparisons and minima under modes of their own; integer
instructions on all registers of 8 bits, with words of 4, against the values next to a boundary.

Symmetry among the L2s is used where no liveness is checked. Deadlock checking is off where the system rests when
its environment has used up its bounds.

### What some properties except

* `InstretExact`: an interrupt taken between the serialization and the read of the counter (`processor.h:65`).
* `ScAtomic`: a packet of the host that a read of `mtohost` lets in under a reservation (`processor.cc:468`).
* `TimerTaken`, `TurnsForAll`: a machine stopped at a prompt, in a reset or by exit, and a hart that traps at its
  handler for ever (`TrapLoop`).
* `TlbTransparent`: software that sets MPRV in machine mode under translation (`MmuSoftware`); `mprv` shows why.
* `EventuallyRequested`: an L1 that makes prefetches or displacements; it fails with them, see below.
* `FilesFaithful`: the line of the first access of all, which carries the order 0 that marks unused lines
  (`LiveCache.cc:99`), and tag 0, which marks unfilled ones.
* `CacheAssumption`: lines of the first level are no longer than those of the second, which `cachesim.cc` needs
  and does not check.

### Disagreements found

Three runs are expected to fail; each shows the code against a line of its own.

| run | what happens |
|---|---|
| `dir_wrong_way` | a hit takes the first valid way, not the matching one (`directory_bank.v:475`): two lines share an entry, two writers |
| `l2_dack_alone` | the displacement acknowledgement is set and never cleared (`l2cache_pipe.v:408`) |
| `mprv` | with MPRV a fetch and a load of one virtual page differ, and the refill of one replaces the data that the tag of the other keeps (`mmu.cc:93`) |

The passing instances keep away from these states, and from the following ones. Seen while modelling, without a
run of their own:

*Directory.*
* `directory_bank.v:858`: after found data the last denial also asks memory, a second answer for the requester
  (`tests/directory_bank_wp_tb.cpp:725` reports one as unexpected). `dir_core` has no sharers that return data.
* `:533`, `:1108`: an entry made by `DR_CMD_NEW_ENTRY` never counts as modified, so its data is not written back.
* `:1011`: the data of a snoop for a non-cacheable request (`scmemc.vh:91`) is refused for ever.
* `:173` resets the found bit of the slot of the displacement port, `:82` says it is reset when the request leaves.
* `:209`, `:954`: a displacement with drid zero alters `entry_buf` of the last slot.
* `:1013-1038`: own displacements make an all-zero request that leaves for memory, and `:1002` an all-zero snack.
* `:550-563`: a node with id zero is never recorded, while `scmemt.vh:97` numbers the L2s 0, 2, 4; `:562`: a
  sharer beyond the pointers sets a broadcast bit that nothing reads.
* `:1158-1161`: a writer gets its data before the other sharers are invalidated.
* `:1422`: with the other of the two drivers a displacement that waits is acknowledged in each cycle.
* `:481`: a full set replaces its last way without invalidating the copies of the old line.
* `:1427`: a displacement is acknowledged while its data still waits to be written.

*L2 and network.*
* `l2cache_pipe.v:422`: a partial displacement leaves its request set: REQ_M is repeated for ever and, having
  priority, keeps the L1's requests out.
* `l2cache_pipe.v:371` ("Note this is BUGGYYYYY!"): the displacement and its translation are refused for
  different reasons; the line or the translation may stay behind.
* `l2cache_pipe.v:914`: an answer for another line drops a partial displacement, which is not refused there.
* `l2cache_pipe.v:291`: a prefetch's translation has the l1id zero, matches nothing, and is sent again and again.
* `arbl2.v:252`, `net_2core2dr.v:403-418`: a valid overwritten, a branch that tests another source's valid.

*Simulator.*
* The reset by the host changes `mstatus` without a flush, and a write of `sptbr` does not flush.
* `processor.cc:382-493`: a CSR read with `rs1 = x0` writes the value back; `csrr mipi` thereby clears MSIP.
* `sc_w.h` does not clear the reservation. `processor.cc:281-296`: the upper half of a counter that an RV32
  program writes may read back one lower, as the borrow is taken against `minstret` and not against the counter.
* `devices.cc`, upper halves of 64-bit CSRs in the window return the lower one.
* `c_flw.h` sign-extends what `flw.h` does not; `feq`, `flt` and conversions to integers change `fflags` without
  marking the floating-point state dirty (`decode.h:187`).
* `interactive.cc:329`: `until` and `while` never test whether the program is done.

*Cache simulator and traces.*
* `cachesim.cc:136` gives the live cache a read for a store and a write for a load; `:48`: each cache that is
  constructed makes a new live cache.
* `LiveCache.cc:188` ends one file before the number the comment in `:187` speaks of.
* `LiveCacheCore.cc:448` hashes the address, not the tag, so two addresses of one line may sit in two places
  (the model has one address per line there); `:548` takes `2^log2shct` for a power, which is an exclusive or;
  `:625` promises a priority among ways that `:635` does not have; `:184`: tag 0 is taken for an unfilled line.
* `dumper.cpp:334` truncates a file opened through the constructor in read mode (`ConstructsToRead`, which no
  run sets). `operation_binary.cpp:137` shifts by 64 and more, `dumper.cpp:192` opens an open stream again: not modelled.

### Fairness

*Hardware.* The clock runs, so a handler with an input and room for its output acts: weak fairness per handler.
The arbiters have fixed priorities, and a lower one could starve under endless requests; with the requests
bounded by `MaxReq` the higher ones stop, so weak fairness of the lower ones is what the circuit gives. Consumers
take words again and again, as the testbenches do (`tests/fork_fflop_tb.cpp:80-99`); nobody has to send. In
`L2Passthrough` the clock, the two ports that present what the L1 wants, and the directory taking requests are
fair; snacks and displacements need not be taken.

*Simulator.* `Machine` and `CacheSim` have weak fairness of the whole next-state relation: the thread goes on,
the host answers each `recv` and the user each prompt. No instruction or packet has to occur.

## Proofs

Eight modules hold proofs. A theorem holds for every value of the constants that the named assumption of its
module allows; the runs check the same property on one instance. Each follows the same plan: an inductive
invariant `IInv`, `Init => IInv`, one lemma per action that keeps it, and `IInv => property`.

| theorem | of | says |
|---|---|---|
| `FflopProofs!TypeCorrect`, `ElasticAlways`, `StableAlways` | `Fflop` | no undriven word leaves; sent = received followed by contents; a refused word stands still |
| `FflopProofs!ImplementsFifo` | `Fflop` | each edge is a step of the two-place queue or leaves it alone |
| `ElasticPathsProofs!ForkIsSame`, `JoinIsPairwise`, `PortsAnswerInOrder` | `MCElasticPaths` | `SameOnBothBranches`, `PairwiseSums`, `AnswersInOrder` |
| `ElasticPathsProofs!ChainRefinesFifo` | `MCElasticPaths` | the chain of four flops implements the queue of eight places (`ChainIsFifo`) |
| `L2Proofs!EveryReadItsTranslation`, `NoSnackLost`, `LinesKeepTheirAddress` | `L2Passthrough` | `ReadsInOrder`, `SnacksInOrder`, `DispsOwnAddress` |
| `DirectoryProofs!TypeCorrect`, `TagsStayOneHot` | `DirectoryBank` | registers, flops and messages keep their types; a set has one way per line (`TagsOneHot`) |
| `DirectoryProofs!Coherence`, `NobodyForgotten` | `DirectoryBank` | one writer and no reader beside it (`SingleWriter`); the entry at rest names every holder (`HoldersTracked`) |
| `DirectoryProofs!AnswersExpected`, `AnsweredExactlyOnce`, `BuffersAgree` | `DirectoryBank` | `NoUnexpectedAnswer`, `AnsweredOnce`, `BuffersConsistent` |
| `MemoryPortProofs!TlbIsTransparent`, `IcacheIsTransparent`, `AccessesAreTraced` | `MmuSoftware` | `TlbTransparent`, `IcacheTransparent`, `EveryAccessTraced` |
| `MemoryPortProofs!MmioIsRouted` | `Devices` | `MmioReachesOwner` |
| `TracesProofs!LevelsKeep` | `CacheSim` | no store is lost between the levels; a line in one way of its set; what the L2 counted is what was sent (`LevelsAgree`) |
| `TracesProofs!TracesKeep` | `Dumper` | what is read is what was added, in order, also from a cut file (`ReadBack`) |
| `MachineProofs!TrapsReturn`, `ReservationsHold`, `InstretCounts`, `MailboxesKeep` | `Machine` | `ReturnsWhereTrapped`, `ScAtomic`, `InstretExact`, `MessagesKept` |

Why the properties are not inductive, and what is added:

*Flop.* `Elastic` alone would let a shadow word behind an empty output be dropped at the next edge, and a valid
register that holds X be delivered: `IInv` adds `ShadowBehindOutput`, `WordsWhereValid` and the types.
`FflopOpsProofs` says once what an edge does to the words of a flop: they are shifted by what enters and what
leaves (`ClockedContents`). The circuits rest on that lemma. What is left for each is its wiring: both branches of
the fork take in the same cycle (`ForkInv`), a stage of the chain gives what the next one accepts, so that the four
contents in a row are one queue (`ChainInv`), the join consumes its two flops together (`JoinInv`), and an answer
of a memory port enters its flops when its request is accepted (`RamInv`, which also keeps the array equal to the
last accepted writes).

*L2.* A request and its translation leave their ports in the same cycle, so both ports have let the same reads go
and the next of one is the next of the other (`SamePast`). A prefetch would break it, as its translation stays at
the port: but then nothing passes that port any more (`PfreqBlocked`). `PortsOK` says that what stands at a port is
the first access it has not let go.

*Directory.* The types need the bounds of pointers and ways that the arithmetic of the entries keeps
(`UpdatedEntryType`, `WayType`). One-hot tags follow from the way of a miss write being the one that matched or one
whose tag it replaces. Both theorems hold for all traffic: displacements of all kinds, prefetches, and answers to
snoops that break the protocol.

The other five hold under `RequestsOnly`: requests in set S or M, L2s that answer snoops as the protocol says, no more
nodes than an entry has pointers, no two lines in a set. Slots, lines, ways and requests are any number. Outside of
it the bank does not keep these promises, which is why it is a hypothesis: lines of one set share an entry (run
`dir_wrong_way`), a node beyond the pointers replaces one that is then forgotten (`directory_bank.v:562`), data that a
sharer returns marks a request found early (`:858`), and a displacement that crosses a snoop answers it. The instance
of `dir_core` satisfies it, so the theorems speak about the states that TLC visits there. `Invariance` is the inductive
invariant, `IInv == \E where : Inv(where)`:

* `Whereabouts`: `where` names the station of every request: tag, entry, memory or answer flop, snoop, displacement,
  acknowledgement, memory, release, or `none` while it waits behind another. `Posted` equates the words that are at a
  station with those of the requests there, so no word is lost or doubled, and each is what its slot says. Every
  handler moves one token, or none.
* `Queues`: the valid slots of a hash are a linked list with one head and one end, nobody has two predecessors, and
  ranks ascend along the links, so that a release starts exactly the next request.
* `Orders`: a command that ends a request is processed before any later word of its line or slot, and an answer
  leaves before the line is asked back. With two-place flops this speaks of the two words of each.
* `Asking`: what an L2 waits for is held by one slot or answered by one message, never both.
* `Tables` and `Tracked`: `Book(l)`, the nodes in the entry of a line, or in the one that a command carries to the
  tags, contains all `Holders`, and is no more than the owner if there is one. A node holds a line from the moment the
  answer is in the flop. `SingleWriter` is not inductive without it: a writer is safe only because everybody who had
  the line was asked.
* `Kept`: what is left to do for a request at its station: the sharers behind `pos` and the one being asked are all
  who still have the line (`Asks`); after a denial or a reply, one fewer (`Denied`, `Replied`); at memory nobody but
  the requester is in the book (`Alone`).

Each handler and each step of an L2 or memory has its lemma. They share `Moves`, `Stays` and `Shrinks`, which say what
is kept when one token moves, none moves, or an L2 gives a line up; these rest on what a queue of two places does to
its words (`PutOn`, `TakenFrom`) and on `Reposting`, how the stations change with them.

*Memory port.* One data entry of the TLB serves three tags. That is sound because fetches and data accesses
translate alike (`OneTranslation`, which `MprvAssumption` gives and run `mprv` shows to be needed), and because
the tags that a refill keeps are of the same page (`OnePage`). `Coherent` adds to `TlbTransparent` that a hit stays
inside memory and that the bits a walk sets are set. Traced accesses leave no tag, and no tag stays when a tracer
is hooked (`TracedMiss`, `TracedFetchMiss`), so each traced access takes the slow path.

*Devices.* Bases are filed under their negation, so a search finds the largest base below an address; bases are
distinct, ordered and aligned to the size of an access, and an aligned access does not straddle the end of a device.

*Machine.* `HartInv` ties each hart to its ghost: the saved levels of `mstatus` are the interrupted contexts in
order, the mailboxes hold what was posted, a reservation is for the word that is still clean. `CountInv` says that
`minstret` with the instructions of the loop under way is the number of retired ones, and that a CSR instruction
that has serialized has none left to credit. `Alone`: only the hart whose turn it is holds a reservation, and
`SchedInv`: between turns nobody does, as a turn ends with `yield_load_reservation`; so nobody writes under a
reservation except the host from within `get_csr`, which `ScAtomic` excepts.

*Caches.* The traffic of the L2 alone would not bound the write-backs of the instruction cache, so `IInv` adds that none
of its lines is dirty (`Clean`): every write the L2 sees is a write-back of the data cache. Stores are kept because a
write-back marks the L2's line before the fetch that follows it can evict that line to memory, and because a line of
the first level lies in one line of the L2 (`LinesNest`), so that the line found is the one written. `Accessing` says
once what an access of any cache does to its lines, dirty addresses and counts; `BelowStep` and `FirstLevel` compose it.
`FilesFaithful` is not part of it: the live cache is any value there.

*Traces.* `Traced` (the `IInv` of the dumper) says where the operations lie: there are offsets `at` such that the file
is the binary forms of the operations added, one after the other, or the first bytes of that (`LaidOut`), and that the
reader stands at the offset after the operations it has got (`Outcome`). What `get` is given starts with
the bytes of the next operation, followed by those of later ones or, past the end of the file, by what its variables
held. `Decoded` says that a window that starts with the binary form of an operation gives that
operation, `CutLaid` that a shortened file is still laid out, and `ReadOn` that after a read the position is the next
offset: a whole operation is got as it was written, and one whose bytes are cut runs past the end, so that it is the
last. Twelve bits of pid and delay and the masked address are what `Recorded` promises (`Twelve`, `MaskedAgain`). The
theorem assumes of the client what run `traces` does: it chooses after each `setLoadOpCode` whether the load records
its data, and it opens traces to read with `open()`, as the constructor truncates what it opens.

Assumptions. Sizes are positive; names of nothing (`X`, `NoNid`, `NoTag`, `NoRequest`) are no data. `L2Assumption`
separates the l1ids of reads and displacements, as the L1's tables do. `DevicesAssumption` has the text of the
device tree fit its window, and windows aligned to the accesses that occur. `MachineAssumption` has programs name
harts that exist and write values that the registers have. `MmuAssumption` gives page tables of two levels and two
entries each. `CacheAssumption` is that of the constructors: sizes are powers of two, and lines of the first level no
longer than those of the L2. `DumperAssumption` gives the client op codes that exist and values of at most eight words.

Only model-checked:
* every liveness property (fairness and ENABLED are outside the prover);
* `FoundMeansAnswered` of the directory, which is about sharers that return data, and `AnsweredOnce` with own
  displacements, prefetches and faulty replies (`dir_own_traffic`), where `RequestsOnly` does not hold;
* `FilesFaithful`, which needs that a merge sort sorts and what LRU keeps of a log, inductions over data; `OneLinePerTag`
  and `MruKept`, whose stores hash with the bits of tags;
* `FloatExact` and `IntegerExact`: induction over the width of data;
* `DecodesAsListed`: encodings are compared bit by bit.

## Not modelled

* *L2 cache under `L2_COMPLETE`* (its queues are declared and not drained) and its backup copy; the directory's
  `DR_PASSTHROUGH` branch (compiled out); the two-port RAM (used only there); `icache.v` and the prefetch engine
  (ports only); `top_2core2dr.v` (generated wiring).
* *Data cache, TLBs, arbiters, network*: planned, below.
* *Z-scale* with its bus library (Chisel, taken over); the *disassembler* and command lines; the *coprocessor
  interface* (an example only); the text of the *device tree*; tests and scripts.
* Of modelled parts: the bytes of lines, the command of a request in the L2, performance counters, displacements
  with an undefined command; register numbers and encodings of immediates; RV32 harts with their upper halves of
  counters, and the constant CSRs; `print_stats`; printing of operations and registers.

## Plan

1. Done: models of the flops and circuits, memory ports, directory bank, L2 pass-through; machine, hart, memory
   port, decoder, devices, all instructions with SoftFloat; cache simulator, live cache, line stores, trace library.
   Proofs of the circuits, the directory, the L2, the memory port, the devices, the machine, the caches and the traces.
2. Next proofs: `AnsweredOnce` under the traffic of `dir_own_traffic`, from `Whereabouts` and `Asking` without the
   tables; then `OneLinePerTag` of the line stores, from what their hashes keep of the bits of tags.
3. Next models: the arbiters `arbl2` and `arbl2tlb`, then the request and displacement paths of `net_2core2dr`
   composed with `BoundedFifo`; the TLBs composed with `L2Passthrough`; the load path of `dcache_pipe`.
4. An abstract directory: per hash a queue of requests of which the oldest is served and answered;
   `BuffersConsistent` is its refinement mapping.

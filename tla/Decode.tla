-------------------------------- MODULE Decode --------------------------------
(* How a hart of the simulator finds the function of an instruction          *)
(* (processor.cc decode_insn): a cache of the last instruction word per      *)
(* index over a list of (match, mask) entries that is searched from its      *)
(* front and reordered by what was decoded.  An entry stands for its two     *)
(* functions, of 64 and of 32 bits.                                          *)
EXTENDS Integers, FiniteSets, FiniteSetsExt, SequencesExt, Bitwise

CONSTANTS
  InsnList,          \* the entries of the base instructions: [name, match, mask]
  Words,             \* instruction words the program holds
  OPCODE_CACHE_SIZE

illegal_instruction == [name |-> "illegal", match |-> 0, mask |-> 0]

ASSUME DecodeAssumption ==
  /\ OPCODE_CACHE_SIZE \in Nat \ {0, 1}
  /\ \A e \in InsnList : e.match & e.mask = e.match /\ e.mask # 0

VARIABLES instructions, opcode_cache,
          decoded    \* the last word decoded and the function found

dvars == <<instructions, opcode_cache, decoded>>

Matches(e, bits) == bits & e.mask = e.match

\* build_opcode_map: sorted by descending match, then descending mask.
Before(e, f) == e.match > f.match \/ (e.match = f.match /\ e.mask > f.mask)
Sorted(entries) ==
  [i \in 1 .. Cardinality(entries) |->
     CHOOSE e \in entries : Cardinality({f \in entries : Before(f, e)}) = i - 1]

DecodeInit ==
  /\ instructions = Sorted(InsnList \cup {illegal_instruction})
  /\ opcode_cache = [idx \in 0 .. OPCODE_CACHE_SIZE - 1 |->
                       [illegal_instruction EXCEPT !.match = 1]]
  /\ decoded = [bits |-> 0, name |-> "illegal", fresh |-> FALSE]

(* mutant: only the entry before is compared before the list is reordered *)
MayMoveComparedBefore(p) ==
  /\ instructions[p].mask # 0 /\ p > 1
  /\ instructions[p].match # instructions[p - 1].match

\* An entry moves to the front unless a neighbour has the same match.
MayMove(p) ==
  /\ instructions[p].mask # 0 /\ p > 1
  /\ instructions[p].match \notin {instructions[p - 1].match, instructions[p + 1].match}

Slot(bits) == bits % OPCODE_CACHE_SIZE

DecodeHit(bits) ==
  /\ opcode_cache[Slot(bits)].match = bits
  /\ decoded' = [bits |-> bits, name |-> opcode_cache[Slot(bits)].name,
                 fresh |-> opcode_cache[Slot(bits)].mask = 0]
  /\ UNCHANGED <<instructions, opcode_cache>>

DecodeMiss(bits) ==
  /\ opcode_cache[Slot(bits)].match # bits
  /\ \E p \in {Min({i \in DOMAIN instructions : Matches(instructions[i], bits)})} :
       /\ instructions' = IF MayMove(p) THEN <<instructions[p]>> \o RemoveAt(instructions, p)
                          ELSE instructions
       /\ opcode_cache' = [opcode_cache EXCEPT ![Slot(bits)] = [instructions[p] EXCEPT !.match = bits]]
       /\ decoded' = [bits |-> bits, name |-> instructions[p].name, fresh |-> FALSE]

decode_insn(bits) == DecodeHit(bits) \/ DecodeMiss(bits)

DecodeNext == \E bits \in Words : decode_insn(bits)

-----------------------------------------------------------------------------
(* Whatever was decoded before, a word is the most specific instruction of   *)
(* the list that matches it (processor.cc:500-527): the reordering must not  *)
(* bring an entry before one that is more specific, nor the cache give the   *)
(* function of another word.  Left out: a word equal to 1, the mark of an    *)
(* empty slot, which is illegal for as long as its slot was never filled.    *)
DecodesAsListed ==
  LET found == {e \in InsnList \cup {illegal_instruction} : Matches(e, decoded.bits)}
      best  == CHOOSE e \in found : \A f \in found : e.mask & f.mask = f.mask
  IN  ~(decoded.fresh /\ decoded.bits = 1) => decoded.name = best.name
=============================================================================

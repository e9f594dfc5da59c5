----------------------------- MODULE FflopProofs -----------------------------
(***************************************************************************)
(* Theorems about one elastic flop, for every set of words and every bound *)
(* on the length of a behaviour: its type, that it loses, duplicates and   *)
(* reorders nothing, that it holds a refused word still, and that it       *)
(* implements a two-place queue.                                           *)
(***************************************************************************)
EXTENDS Fflop, FflopOpsProofs

(* A register whose valid bit is set holds a word. *)
WordsWhereValid ==
    /\ flop.qValid => flop.q \in Data
    /\ flop.shadowValid => flop.shadowq \in Data

(* The inductive invariant.  Elastic alone is not inductive: a flop with a *)
(* shadow word behind an empty output would drop it at the next edge; nor  *)
(* is TypeOK, which would let a valid register hold X.                     *)
IInv == TypeOK /\ ShadowBehindOutput /\ Elastic /\ WordsWhereValid

LEMMA InitIInv == Init => IInv
<1> SUFFICES ASSUME Init PROVE IInv
  OBVIOUS
<1>1. TypeOK
  BY DEF Init, TypeOK, FflopState, FflopAfterReset, Wire
<1>2. ShadowBehindOutput
  BY DEF Init, FflopAfterReset, ShadowBehindOutput, WellFormed
<1>3. Elastic
  <2>1. << >> \o << >> = << >>
    BY EmptyEither
  <2>2. QED BY <2>1 DEF Init, FflopAfterReset, Elastic, Contents
<1>4. WordsWhereValid
  BY DEF Init, FflopAfterReset, WordsWhereValid
<1>5. QED BY <1>1, <1>2, <1>3, <1>4 DEF IInv

LEMMA WordsAssociate == \A r, s, t \in Seq(Data) : (r \o s) \o t = r \o (s \o t)
BY Associative

LEMMA ClockKeepsIInv ==
    ASSUME IInv, NEW din \in Wire, NEW dinValid \in BOOLEAN, dinValid => din \in Data,
           NEW qRetry \in BOOLEAN, Clock(din, dinValid, qRetry)
    PROVE  IInv'
<1> DEFINE in  == Word(Accepts(flop, dinValid), din)
           out == Word(Delivers(flop, qRetry), flop.q)
<1>1. flop \in FflopState(Wire) /\ WellFormed(flop)
  BY DEF IInv, TypeOK, ShadowBehindOutput
<1>2. flop' \in FflopState(Wire)
  BY <1>1, ClockedType DEF Clock
<1>3. in \in Seq(Data) /\ out \in Seq(Data)
  BY <1>1 DEF Word, FflopState, IInv, WordsWhereValid, Accepts, Delivers
<1>4. TypeOK'
  BY <1>2, <1>3, ConcatProperties DEF Clock, IInv, TypeOK
<1>5. ShadowBehindOutput'
  BY <1>1, ClockedWellFormed DEF Clock, ShadowBehindOutput
<1>6. WordsWhereValid'
  BY <1>1 DEF Clock, Clocked, c1, c2, s_enable, FflopState, IInv, WordsWhereValid,
              WellFormed
<1>7. Contents(flop) \in Seq(Data) /\ Contents(flop') \in Seq(Data)
  BY <1>6 DEF IInv, WordsWhereValid, Contents
<1>8. Elastic'
  <2>1. received \in Seq(Data)
    BY DEF IInv, TypeOK
  <2>2. out \o Contents(flop') = Contents(flop) \o in
    BY <1>1, ClockedContents DEF Clock
  <2>3. sent' = (received \o Contents(flop)) \o in
    BY DEF Clock, IInv, Elastic
  <2>4. (received \o Contents(flop)) \o in = received \o (Contents(flop) \o in)
    BY <2>1, <1>3, <1>7, WordsAssociate, Zenon
  <2>5. (received \o out) \o Contents(flop') = received \o (out \o Contents(flop'))
    BY <2>1, <1>3, <1>7, WordsAssociate, Zenon
  <2>6. QED BY <2>2, <2>3, <2>4, <2>5 DEF Clock, Elastic
<1>9. QED BY <1>4, <1>5, <1>6, <1>8 DEF IInv

LEMMA ResetKeepsIInv ==
    ASSUME IInv, NEW din \in Wire, NEW qRetry \in BOOLEAN, Reset(din, qRetry)
    PROVE  IInv'
<1>1. flop' \in FflopState(Wire) /\ ~flop'.qValid /\ ~flop'.shadowValid
  BY DEF IInv, TypeOK, Reset, ClockedInReset, Clocked, FflopState, s_enable
<1>2. TypeOK'
  BY <1>1 DEF Reset, TypeOK
<1>3. ShadowBehindOutput'
  BY <1>1 DEF ShadowBehindOutput, WellFormed
<1>4. Elastic'
  BY <1>1, EmptyEither DEF Reset, Elastic, Contents
<1>5. QED BY <1>1, <1>2, <1>3, <1>4 DEF IInv, WordsWhereValid

LEMMA StepKeepsIInv == IInv /\ [Next]_vars => IInv'
<1> SUFFICES ASSUME IInv, [Next]_vars PROVE IInv'
  OBVIOUS
<1>1. CASE Offer
  BY <1>1, ClockKeepsIInv DEF Offer, Wire
<1>2. CASE Idle
  BY <1>2, ClockKeepsIInv DEF Idle, Wire
<1>3. CASE InReset
  BY <1>3, ResetKeepsIInv DEF InReset
<1>4. CASE UNCHANGED vars
  BY <1>4 DEF vars, IInv, TypeOK, ShadowBehindOutput, Elastic, WordsWhereValid
<1>5. QED BY <1>1, <1>2, <1>3, <1>4 DEF Next

THEOREM Invariance == Spec => []IInv
BY InitIInv, StepKeepsIInv, PTL DEF Spec

(* The registers and histories keep their types. *)
THEOREM TypeCorrect == Spec => []TypeOK
<1>1. IInv => TypeOK
  BY DEF IInv
<1>2. QED BY <1>1, Invariance, PTL

(* No word is lost, duplicated or reordered between the handshakes. *)
THEOREM ElasticAlways == Spec => []Elastic
<1>1. IInv => Elastic
  BY DEF IInv
<1>2. QED BY <1>1, Invariance, PTL

(* A word offered and refused is still offered, unchanged, after the edge. *)
THEOREM StableAlways == Spec => StableUntilTaken
<1> DEFINE Held == (flop.qValid /\ received' = received /\ ~InReset)
                     => (flop'.qValid /\ flop'.q = flop.q)
<1>1. IInv /\ [Next]_vars => [Held]_vars
  <2> SUFFICES ASSUME IInv, Next, flop.qValid, received' = received, ~InReset
               PROVE  flop'.qValid /\ flop'.q = flop.q
    OBVIOUS
  <2>1. PICK din \in Wire, dinValid \in BOOLEAN, qRetry \in BOOLEAN :
               Clock(din, dinValid, qRetry)
    BY DEF Next, Offer, Idle, Wire
  <2>2. flop.q \in Data /\ received \in Seq(Data)
    BY DEF IInv, TypeOK, WordsWhereValid
  <2>3. ASSUME ~qRetry PROVE FALSE
    <3>1. received' = received \o <<flop.q>>
      BY <2>1, <2>3 DEF Clock, Delivers, Word
    <3>2. Len(received') = Len(received) + 1
      BY <2>2, <3>1, ConcatProperties
    <3>3. QED BY <2>2, <3>2, LenProperties
  <2>4. flop' = Clocked(flop, din, dinValid, qRetry) /\ c1(flop, qRetry)
    BY <2>1, <2>3 DEF Clock, c1
  <2>5. QED BY <2>4 DEF Clocked
<1>2. QED BY <1>1, Invariance, PTL DEF Spec, StableUntilTaken

-----------------------------------------------------------------------------
(* The refinement: every edge is a step of the two-place queue or leaves   *)
(* the queue alone.                                                        *)
LEMMA ClockStepsFifo ==
    ASSUME IInv, IInv', NEW din \in Wire, NEW dinValid \in BOOLEAN, dinValid => din \in Data,
           NEW qRetry \in BOOLEAN, Clock(din, dinValid, qRetry)
    PROVE  Fifo!Next \/ UNCHANGED <<Contents(flop), sent, received>>
<1> DEFINE old == Contents(flop)
           new == Contents(flop')
<1>1. flop \in FflopState(Wire) /\ WellFormed(flop)
  BY DEF IInv, TypeOK, ShadowBehindOutput
<1>2. /\ Accepts(flop, dinValid) => din \in Data
      /\ Delivers(flop, qRetry) => flop.q \in Data
  BY DEF Accepts, Delivers, IInv, WordsWhereValid
<1>3. old \in Seq(Data) /\ new \in Seq(Data)
  BY DEF IInv, WordsWhereValid, Contents
<1>4. Word(Delivers(flop, qRetry), flop.q) \o new
        = old \o Word(Accepts(flop, dinValid), din)
  BY <1>1, ClockedContents DEF Clock
<1>5. Accepts(flop, dinValid) => Len(old) < 2
  BY <1>1 DEF Accepts, dinRetry, Contents
<1>6. Delivers(flop, qRetry) => old # << >> /\ Head(old) = flop.q
  BY <1>1, <1>2 DEF Delivers, Contents
<1>7. sent' = IF Accepts(flop, dinValid) THEN Append(sent, din) ELSE sent
  <2>1. sent' = sent \o Word(Accepts(flop, dinValid), din)
    BY DEF Clock
  <2>2. QED BY <1>2, <2>1, AppendIsConcat, EmptyEither DEF IInv, TypeOK, Word
<1>8. received' = IF Delivers(flop, qRetry) THEN Append(received, flop.q) ELSE received
  <2>1. received' = received \o Word(Delivers(flop, qRetry), flop.q)
    BY DEF Clock
  <2>2. CASE Delivers(flop, qRetry)
    <3>1. flop.q \in Data /\ received \in Seq(Data)
      BY <1>2, <2>2 DEF IInv, TypeOK
    <3>2. Append(received, flop.q) = received \o <<flop.q>>
      BY <3>1, AppendIsConcat
    <3>3. QED BY <2>1, <2>2, <3>2 DEF Word
  <2>3. CASE ~Delivers(flop, qRetry)
    BY <2>1, <2>3, EmptyEither DEF IInv, TypeOK, Word
  <2>4. QED BY <2>2, <2>3
<1>9. CASE Delivers(flop, qRetry) /\ Accepts(flop, dinValid)
  <2>1. <<flop.q>> \o new = Append(old, din)
    BY <1>2, <1>3, <1>4, <1>9, AppendIsConcat DEF Word
  <2>2. new = Tail(Append(old, din))
    BY <1>2, <1>3, <1>9, <2>1, AppendProperties, TailOfCons
  <2>3. new = Append(Tail(old), din)
    BY <1>2, <1>3, <1>6, <1>9, <2>2, HeadTailAppend
  <2>4. QED BY <1>2, <1>5, <1>6, <1>9, <1>7, <1>8, <2>3 DEF Fifo!Next, Fifo!EnqDeq
<1>10. CASE Delivers(flop, qRetry) /\ ~Accepts(flop, dinValid)
  <2>1. <<flop.q>> \o new = old
    BY <1>3, <1>4, <1>10, EmptyEither DEF Word
  <2>2. new = Tail(old)
    BY <1>2, <1>3, <1>10, <2>1, TailOfCons
  <2>3. QED BY <1>6, <1>10, <1>7, <1>8, <2>2 DEF Fifo!Next, Fifo!Deq
<1>11. CASE ~Delivers(flop, qRetry) /\ Accepts(flop, dinValid)
  <2>1. new = Append(old, din)
    BY <1>2, <1>3, <1>4, <1>11, AppendIsConcat, EmptyEither DEF Word
  <2>2. QED BY <1>2, <1>5, <1>11, <1>7, <1>8, <2>1 DEF Fifo!Next, Fifo!Enq
<1>12. CASE ~Delivers(flop, qRetry) /\ ~Accepts(flop, dinValid)
  <2>1. new = old
    BY <1>3, <1>4, <1>12, EmptyEither DEF Word
  <2>2. QED BY <1>12, <1>7, <1>8, <2>1
<1>13. QED BY <1>9, <1>10, <1>11, <1>12

(* One flop is a two-place FIFO of the words its handshakes took. *)
THEOREM ImplementsFifo == Spec => FifoSpec
<1>1. Init => Fifo!Init
  BY DEF Init, FflopAfterReset, Fifo!Init, Contents
<1>2. IInv /\ IInv' /\ [Next]_vars => [Fifo!Next]_(Fifo!vars)
  <2> SUFFICES ASSUME IInv, IInv', [Next]_vars
               PROVE  Fifo!Next \/ UNCHANGED <<Contents(flop), sent, received>>
    BY DEF Fifo!vars
  <2>1. CASE Offer
    BY <2>1, ClockStepsFifo DEF Offer, Wire
  <2>2. CASE Idle
    BY <2>2, ClockStepsFifo DEF Idle, Wire
  <2>3. CASE InReset
    BY <2>3 DEF InReset, Reset, ClockedInReset, Contents, Fifo!Next, Fifo!Clear
  <2>4. CASE UNCHANGED vars
    BY <2>4 DEF vars, Contents
  <2>5. QED BY <2>1, <2>2, <2>3, <2>4 DEF Next
<1>3. QED BY <1>1, <1>2, Invariance, PTL DEF Spec, FifoSpec, Fifo!Spec
=============================================================================

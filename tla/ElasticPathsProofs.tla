------------------------- MODULE ElasticPathsProofs --------------------------
(***************************************************************************)
(* Theorems about the circuits built from elastic flops, for every set of  *)
(* words and addresses and every length of behaviour.  Each rests on       *)
(* ClockedContents: an edge moves the words of a flop, it makes and drops  *)
(* none; what is left to show is that the circuit around the flops wires   *)
(* their handshakes so that the transfers of neighbours are the same ones. *)
(***************************************************************************)
EXTENDS MCElasticPaths, FflopOpsProofs

-----------------------------------------------------------------------------
(* The fork: what the producer sees taken enters the flop of each branch.  *)
Branch(f, given, taken) == Sound(f, Wire) /\ Carries(Contents(f), given, taken, Wire)
ForkInv == Branch(ff_a, fork_sent, received_a) /\ Branch(ff_b, fork_sent, received_b)

BranchEdge(f, g, given, nextGiven, taken, nextTaken) ==
    \E entering, leaving :
        /\ Sound(g, Wire) /\ Path(Contents(f), Contents(g), entering, leaving, Wire)
        /\ nextGiven = Cat(given, entering) /\ nextTaken = Cat(taken, leaving)

LEMMA BranchKeeps ==
    ASSUME NEW f, NEW g, NEW given, NEW nextGiven, NEW taken, NEW nextTaken,
           Branch(f, given, taken), BranchEdge(f, g, given, nextGiven, taken, nextTaken)
    PROVE  Branch(g, nextGiven, nextTaken)
BY PathCarries DEF BranchEdge, Branch

LEMMA ForkClock ==
    ASSUME ForkInv, NEW inp \in Wire, NEW inp_Valid \in BOOLEAN,
           NEW aRetry \in BOOLEAN, NEW bRetry \in BOOLEAN, Fork!Clock(inp, inp_Valid, aRetry, bRetry)
    PROVE  /\ BranchEdge(ff_a, ff_a', fork_sent, fork_sent', received_a, received_a')
           /\ BranchEdge(ff_b, ff_b', fork_sent, fork_sent', received_b, received_b')
<1> DEFINE aValid == inp_Valid /\ ~dinRetry(ff_b)
           bValid == inp_Valid /\ ~dinRetry(ff_a)
<1>1. ff_a.shadowValid \in BOOLEAN /\ ff_b.shadowValid \in BOOLEAN /\ Sound(ff_a, Wire) /\ Sound(ff_b, Wire)
  BY DEF ForkInv, Branch, Sound, FflopState
<1>2. /\ ff_a' = Clocked(ff_a, inp, aValid, aRetry)
      /\ ff_b' = Clocked(ff_b, inp, bValid, bRetry)
      /\ received_a' = Cat(received_a, Word(Delivers(ff_a, aRetry), ff_a.q))
      /\ received_b' = Cat(received_b, Word(Delivers(ff_b, bRetry), ff_b.q))
  BY DEF Fork!Clock, Fork!Clocked, Clocked, Fork!c1, c1, Fork!c2, c2, Fork!s_enable, s_enable, Fork!inp_aValid,
         Fork!inp_bValid, Fork!inp_aRetry, Fork!inp_bRetry, Fork!dinRetry, dinRetry, Fork!Word, Word,
         Fork!Delivers, Delivers, Cat
<1>3. /\ fork_sent' = Cat(fork_sent, Word(Accepts(ff_a, aValid), inp))
      /\ fork_sent' = Cat(fork_sent, Word(Accepts(ff_b, bValid), inp))
  BY <1>1 DEF Fork!Clock, Fork!inp_aRetry, Fork!inp_bRetry, Fork!inp_Retry, Fork!dinRetry, dinRetry, Fork!Word, Word,
              Accepts, Cat
<1>4. aValid \in BOOLEAN /\ bValid \in BOOLEAN
  OBVIOUS
<1> HIDE DEF aValid, bValid
<1>5. BranchEdge(ff_a, ff_a', fork_sent, fork_sent', received_a, received_a')
  BY <1>1, <1>2, <1>3, <1>4, ClockedPath DEF BranchEdge
<1>6. BranchEdge(ff_b, ff_b', fork_sent, fork_sent', received_b, received_b')
  BY <1>1, <1>2, <1>3, <1>4, ClockedPath DEF BranchEdge
<1>7. QED BY <1>5, <1>6

LEMMA ForkStep == ASSUME ForkInv, Fork!Next PROVE ForkInv'
<1>1. PICK inp \in Wire, inp_Valid \in BOOLEAN, aRetry \in BOOLEAN, bRetry \in BOOLEAN :
        Fork!Clock(inp, inp_Valid, aRetry, bRetry)
  BY DEF Fork!Next, Fork!Offer, Fork!Idle, Wire
<1>2. /\ BranchEdge(ff_a, ff_a', fork_sent, fork_sent', received_a, received_a')
      /\ BranchEdge(ff_b, ff_b', fork_sent, fork_sent', received_b, received_b')
  BY <1>1, ForkClock
<1>3. Branch(ff_a', fork_sent', received_a')
  BY <1>2, BranchKeeps DEF ForkInv
<1>4. Branch(ff_b', fork_sent', received_b')
  BY <1>2, BranchKeeps DEF ForkInv
<1>5. QED BY <1>3, <1>4 DEF ForkInv

LEMMA ForkInit == Fork!Init => ForkInv
<1> SUFFICES ASSUME Fork!Init PROVE ForkInv
  OBVIOUS
<1>1. ff_a = FflopAfterReset(X) /\ ff_b = FflopAfterReset(X)
  BY DEF Fork!Init, Fork!FflopAfterReset, FflopAfterReset
<1>2. X \in Wire
  BY DEF Wire
<1>3. Carries(<< >>, << >>, << >>, Wire)
  BY EmptyEither DEF Carries, Cat
<1>4. QED BY <1>1, <1>2, <1>3, ResetSound DEF Fork!Init, ForkInv, Branch

-----------------------------------------------------------------------------
(* The chain: what a stage gives is what the next one takes. *)
ChainHolds == Cat(Cat(Cat(Contents(out1), Contents(in1_r3)), Contents(in1_r2)), Contents(in1_r1))

ChainInv ==
    /\ Sound(in1_r1, Wire) /\ Sound(in1_r2, Wire) /\ Sound(in1_r3, Wire) /\ Sound(out1, Wire)
    /\ chain_sent \in Seq(Wire) /\ chain_received \in Seq(Wire)

\* A stage whose consumer is the next flop gives what that flop accepts.
LEMMA StagePath ==
    ASSUME NEW D, NEW f, NEW g, Sound(f, D), Sound(g, D), NEW din \in D, NEW dinValid \in BOOLEAN
    PROVE  /\ Path(Contents(f), Contents(Clocked(f, din, dinValid, dinRetry(g))), Word(Accepts(f, dinValid), din),
                   Word(Accepts(g, f.qValid), f.q), D)
           /\ Sound(Clocked(f, din, dinValid, dinRetry(g)), D)
           /\ f.q \in D /\ f.qValid \in BOOLEAN
<1>1. dinRetry(g) \in BOOLEAN /\ f.q \in D /\ f.qValid \in BOOLEAN
  BY DEF dinRetry, Sound, FflopState
<1>2. Word(Delivers(f, dinRetry(g)), f.q) = Word(Accepts(g, f.qValid), f.q)
  BY DEF Accepts, Delivers
<1>3. QED BY <1>1, <1>2, ClockedPath

LEMMA ChainClock ==
    ASSUME ChainInv, NEW in1 \in Wire, NEW in1_valid \in BOOLEAN, NEW out1_retry \in BOOLEAN,
           Chain!Clock(in1, in1_valid, out1_retry)
    PROVE  /\ ChainInv'
           /\ Path(ChainHolds, ChainHolds', Word(Accepts(in1_r1, in1_valid), in1),
                   Word(Delivers(out1, out1_retry), out1.q), Wire)
           /\ chain_sent' = Cat(chain_sent, Word(Accepts(in1_r1, in1_valid), in1))
           /\ chain_received' = Cat(chain_received, Word(Delivers(out1, out1_retry), out1.q))
<1>1. /\ in1_r1' = Clocked(in1_r1, in1, in1_valid, dinRetry(in1_r2))
      /\ in1_r2' = Clocked(in1_r2, in1_r1.q, in1_r1.qValid, dinRetry(in1_r3))
      /\ in1_r3' = Clocked(in1_r3, in1_r2.q, in1_r2.qValid, dinRetry(out1))
      /\ out1' = Clocked(out1, in1_r3.q, in1_r3.qValid, out1_retry)
      /\ chain_sent' = Cat(chain_sent, Word(Accepts(in1_r1, in1_valid), in1))
      /\ chain_received' = Cat(chain_received, Word(Delivers(out1, out1_retry), out1.q))
  BY DEF Chain!Clock, Chain!Linked, Chain!Clocked, Clocked, Chain!c1, c1, Chain!c2, c2, Chain!s_enable, s_enable,
         Chain!dinRetry, dinRetry, Chain!Word, Word, Chain!Accepts, Accepts, Chain!Delivers, Delivers, Cat
<1> DEFINE in == Word(Accepts(in1_r1, in1_valid), in1)
           a == Word(Accepts(in1_r2, in1_r1.qValid), in1_r1.q)
           b == Word(Accepts(in1_r3, in1_r2.qValid), in1_r2.q)
           c == Word(Accepts(out1, in1_r3.qValid), in1_r3.q)
           out == Word(Delivers(out1, out1_retry), out1.q)
<1>2. Path(Contents(in1_r1), Contents(in1_r1'), in, a, Wire) /\ Sound(in1_r1', Wire)
      /\ in1_r1.q \in Wire /\ in1_r1.qValid \in BOOLEAN
  BY <1>1, StagePath DEF ChainInv
<1>3. Path(Contents(in1_r2), Contents(in1_r2'), a, b, Wire) /\ Sound(in1_r2', Wire)
      /\ in1_r2.q \in Wire /\ in1_r2.qValid \in BOOLEAN
  BY <1>1, <1>2, StagePath DEF ChainInv
<1>4. Path(Contents(in1_r3), Contents(in1_r3'), b, c, Wire) /\ Sound(in1_r3', Wire)
      /\ in1_r3.q \in Wire /\ in1_r3.qValid \in BOOLEAN
  BY <1>1, <1>3, StagePath DEF ChainInv
<1>5. Path(Contents(out1), Contents(out1'), c, out, Wire) /\ Sound(out1', Wire)
  BY <1>1, <1>4, ClockedPath DEF ChainInv
<1> HIDE DEF in, a, b, c, out
<1>6. Path(Cat(Contents(out1), Contents(in1_r3)), Cat(Contents(out1'), Contents(in1_r3')), b, out, Wire)
  BY <1>4, <1>5, InRow
<1>7. Path(Cat(Cat(Contents(out1), Contents(in1_r3)), Contents(in1_r2)),
           Cat(Cat(Contents(out1'), Contents(in1_r3')), Contents(in1_r2')), a, out, Wire)
  BY <1>3, <1>6, InRow
<1>8. Path(ChainHolds, ChainHolds', in, out, Wire)
  BY <1>2, <1>7, InRow DEF ChainHolds
<1>9. chain_sent' \in Seq(Wire) /\ chain_received' \in Seq(Wire)
  BY <1>1, <1>8, CatType DEF ChainInv, Path, in, out
<1>10. QED BY <1>1, <1>2, <1>3, <1>4, <1>5, <1>8, <1>9 DEF ChainInv, in, out

LEMMA ChainInit == Chain!Init => ChainInv /\ ChainHolds = << >> /\ chain_sent = << >> /\ chain_received = << >>
<1> SUFFICES ASSUME Chain!Init
             PROVE  ChainInv /\ ChainHolds = << >> /\ chain_sent = << >> /\ chain_received = << >>
  OBVIOUS
<1>1. /\ in1_r1 = FflopAfterReset(X) /\ in1_r2 = FflopAfterReset(X)
      /\ in1_r3 = FflopAfterReset(X) /\ out1 = FflopAfterReset(X)
      /\ chain_sent = << >> /\ chain_received = << >>
  BY DEF Chain!Init, Chain!FflopAfterReset, FflopAfterReset
<1>2. X \in Wire
  BY DEF Wire
<1>3. Cat(<< >>, << >>) = << >>
  BY EmptyEither DEF Cat
<1>4. QED BY <1>1, <1>2, <1>3, ResetSound DEF ChainInv, ChainHolds

\* The first word of the chain is the one it offers; a chain that takes a
\* word has a free place.
LEMMA ChainPlaces ==
    ASSUME ChainInv
    PROVE  /\ out1.qValid => ChainHolds # << >> /\ Head(ChainHolds) = out1.q
           /\ ~dinRetry(in1_r1) => Len(ChainHolds) < 8
<1> DEFINE two == Cat(Contents(out1), Contents(in1_r3))
           three == Cat(two, Contents(in1_r2))
<1>1. /\ Contents(out1) \in Seq(Wire) /\ Contents(in1_r3) \in Seq(Wire)
      /\ Contents(in1_r2) \in Seq(Wire) /\ Contents(in1_r1) \in Seq(Wire)
      /\ Len(Contents(out1)) <= 2 /\ Len(Contents(in1_r3)) <= 2 /\ Len(Contents(in1_r2)) <= 2
      /\ ~dinRetry(in1_r1) => Len(Contents(in1_r1)) <= 1
      /\ out1.qValid => Contents(out1) # << >> /\ Head(Contents(out1)) = out1.q
  BY Places DEF ChainInv
<1>2. two \in Seq(Wire) /\ three \in Seq(Wire)
  BY <1>1, CatType
<1>3. /\ Len(two) = Len(Contents(out1)) + Len(Contents(in1_r3))
      /\ Len(Contents(out1)) \in Nat /\ Len(Contents(in1_r3)) \in Nat
  BY <1>1, LenOfRow
<1>4. Len(three) = Len(two) + Len(Contents(in1_r2)) /\ Len(Contents(in1_r2)) \in Nat
  BY <1>1, <1>2, LenOfRow
<1>5. Len(ChainHolds) = Len(three) + Len(Contents(in1_r1)) /\ Len(Contents(in1_r1)) \in Nat
  BY <1>1, <1>2, LenOfRow DEF ChainHolds
<1>6. out1.qValid => two # << >> /\ Head(two) = out1.q
  BY <1>1, HeadOfRow
<1>7. out1.qValid => three # << >> /\ Head(three) = out1.q
  BY <1>1, <1>2, <1>6, HeadOfRow
<1> HIDE DEF two, three
<1>8. out1.qValid => ChainHolds # << >> /\ Head(ChainHolds) = out1.q
  BY <1>1, <1>2, <1>7, HeadOfRow DEF ChainHolds, three, two
<1>9. QED BY <1>1, <1>3, <1>4, <1>5, <1>8

\* Every edge is a step of the queue of eight places or leaves it alone.
ChainQueue == <<ChainHolds, chain_sent, chain_received>>
LEMMA ChainStep == ASSUME ChainInv, Chain!Next PROVE ChainInv' /\ (Chain!Fifo!Next \/ UNCHANGED ChainQueue)
<1>1. PICK in1 \in Wire, in1_valid \in BOOLEAN, out1_retry \in BOOLEAN :
        Chain!Clock(in1, in1_valid, out1_retry) /\ (in1_valid => in1 \in Data)
  BY DEF Chain!Next, Chain!Offer, Chain!Idle, Wire
<1>2. ChainInv'
  BY <1>1, ChainClock
<1>3. Accepts(in1_r1, in1_valid) \in BOOLEAN /\ Delivers(out1, out1_retry) \in BOOLEAN /\ out1.q \in Wire
  BY DEF Accepts, Delivers, dinRetry, ChainInv, Sound, FflopState
<1>4. PICK enters \in BOOLEAN, leaves \in BOOLEAN :
        enters = Accepts(in1_r1, in1_valid) /\ leaves = Delivers(out1, out1_retry)
  BY <1>3
<1>5. enters => Len(ChainHolds) < 8 /\ in1 \in Data
  BY <1>1, <1>4, ChainPlaces DEF Accepts
<1>6. leaves => ChainHolds # << >> /\ Head(ChainHolds) = out1.q
  BY <1>4, ChainPlaces DEF Delivers
<1>7. Moves(ChainHolds, ChainHolds', enters, in1, leaves, out1.q, Wire)
  BY <1>1, <1>3, <1>4, <1>6, ChainClock DEF Moves
<1>8. /\ ~enters /\ ~leaves => ChainHolds' = ChainHolds
      /\ enters /\ ~leaves => ChainHolds' = Append(ChainHolds, in1)
      /\ ~enters /\ leaves => ChainHolds' = Tail(ChainHolds)
      /\ enters /\ leaves => ChainHolds' = Append(Tail(ChainHolds), in1)
  BY <1>7, PathIsQueue
<1>9. chain_sent' = IF enters THEN Append(chain_sent, in1) ELSE chain_sent
  <2>1. chain_sent' = Cat(chain_sent, Word(enters, in1))
    BY <1>1, <1>4, ChainClock
  <2>2. QED BY <2>1, AddWord DEF ChainInv
<1>10. chain_received' = IF leaves THEN Append(chain_received, out1.q) ELSE chain_received
  <2>1. chain_received' = Cat(chain_received, Word(leaves, out1.q))
    BY <1>1, <1>4, ChainClock
  <2>2. PICK w \in Wire : w = out1.q
    BY <1>3
  <2>3. Cat(chain_received, Word(leaves, w)) = (IF leaves THEN Append(chain_received, w) ELSE chain_received)
    BY AddWord DEF ChainInv
  <2>4. QED BY <2>1, <2>2, <2>3
<1>11. Chain!InFlight = ChainHolds
  BY DEF Chain!InFlight, ChainHolds, Chain!Contents, Contents, Cat
<1>12. (Chain!InFlight)' = ChainHolds'
  BY DEF Chain!InFlight, ChainHolds, Chain!Contents, Contents, Cat
<1>13. CASE enters /\ leaves
  BY <1>2, <1>5, <1>6, <1>8, <1>9, <1>10, <1>11, <1>12, <1>13 DEF Chain!Fifo!Next, Chain!Fifo!EnqDeq
<1>14. CASE enters /\ ~leaves
  BY <1>2, <1>5, <1>8, <1>9, <1>10, <1>11, <1>12, <1>14 DEF Chain!Fifo!Next, Chain!Fifo!Enq
<1>15. CASE ~enters /\ leaves
  BY <1>2, <1>6, <1>8, <1>9, <1>10, <1>11, <1>12, <1>15 DEF Chain!Fifo!Next, Chain!Fifo!Deq
<1>16. CASE ~enters /\ ~leaves
  BY <1>2, <1>8, <1>9, <1>10, <1>16 DEF ChainQueue
<1>17. QED BY <1>13, <1>14, <1>15, <1>16

-----------------------------------------------------------------------------
(* The join: an operand enters when its partner does, or not at all. *)
JoinWire == {X} \cup {Join!Sum(a, b) : a \in Join!Wire, b \in Join!Wire}
Pairs(s, t) == [i \in 1..Len(s) |-> (s[i] + t[i]) % 2^Width]
JoinHolds == Cat(Contents(f2), Contents(f1))

JoinInv ==
    /\ Sound(f1, JoinWire) /\ Sound(f2, JoinWire)
    /\ sent_a \in Seq(Join!Operands) /\ sent_b \in Seq(Join!Operands) /\ Len(sent_a) = Len(sent_b)
    /\ Carries(JoinHolds, Pairs(sent_a, sent_b), sums, JoinWire)

LEMMA PairsOneMore ==
    ASSUME NEW s \in Seq(Join!Operands), NEW t \in Seq(Join!Operands), Len(s) = Len(t),
           NEW a \in Join!Operands, NEW b \in Join!Operands, Pairs(s, t) \in Seq(JoinWire)
    PROVE  Pairs(Append(s, a), Append(t, b)) = Cat(Pairs(s, t), <<Join!Sum(a, b)>>)
<1> DEFINE new == Pairs(Append(s, a), Append(t, b))
           old == Pairs(s, t)
           sum == Join!Sum(a, b)
<1>1. sum = (a + b) % 2^Width /\ sum \in JoinWire
  BY PathsAssumption DEF Join!Sum, Join!Operands, Join!Wire, JoinWire
<1>2. /\ Len(s) \in Nat /\ Len(Append(s, a)) = Len(s) + 1 /\ Len(Append(t, b)) = Len(s) + 1
      /\ \A i \in 1..Len(s) : Append(s, a)[i] = s[i] /\ Append(t, b)[i] = t[i]
      /\ Append(s, a)[Len(s) + 1] = a /\ Append(t, b)[Len(s) + 1] = b
  BY LenProperties, AppendProperties
<1>3. new = [i \in 1..(Len(s) + 1) |-> (Append(s, a)[i] + Append(t, b)[i]) % 2^Width]
  BY <1>2 DEF Pairs
<1>4. \A i \in 1..Len(s) : new[i] = old[i]
  BY <1>2, <1>3 DEF Pairs
<1>5. new[Len(s) + 1] = sum
  BY <1>1, <1>2, <1>3
<1>6. Len(old) = Len(s)
  BY <1>2 DEF Pairs
<1> DEFINE appended == Append(old, sum)
<1>7. /\ appended \in Seq(JoinWire) /\ Len(appended) = Len(s) + 1 /\ appended[Len(s) + 1] = sum
      /\ \A i \in 1..Len(s) : appended[i] = old[i]
  BY <1>1, <1>6, AppendProperties
<1>8. appended = [i \in 1..(Len(s) + 1) |-> appended[i]]
  BY <1>7, LenProperties
<1> HIDE DEF appended, new, old, sum
<1>9. \A i \in 1..(Len(s) + 1) : appended[i] = new[i]
  BY <1>2, <1>4, <1>5, <1>7
<1>10. new = [i \in 1..(Len(s) + 1) |-> new[i]]
  BY <1>3
<1>11. new = appended
  BY <1>8, <1>9, <1>10
<1>12. appended = Cat(old, <<sum>>)
  BY <1>1, AppendIsConcat DEF Cat, appended, old
<1>13. QED BY <1>11, <1>12 DEF new, old, sum

LEMMA JoinClock ==
    ASSUME JoinInv, NEW a \in Join!Wire, NEW aValid \in BOOLEAN, NEW b \in Join!Wire, NEW bValid \in BOOLEAN,
           aValid => a \in Join!Operands, bValid => b \in Join!Operands,
           NEW sumRetry \in BOOLEAN, Join!Clock(a, aValid, b, bValid, sumRetry)
    PROVE  JoinInv'
<1>1. PICK both \in BOOLEAN, taken \in BOOLEAN, sum \in JoinWire :
        /\ both = (aValid /\ bValid) /\ taken = Accepts(f1, both) /\ sum = Join!Sum(a, b)
        /\ taken = Join!Taken(aValid, both) /\ taken = Join!Taken(bValid, both)
  <2>1. Join!Sum(a, b) \in JoinWire
    BY DEF JoinWire
  <2>2. f1.shadowValid \in BOOLEAN
    BY DEF JoinInv, Sound, FflopState
  <2>3. /\ Accepts(f1, aValid /\ bValid) = Join!Taken(aValid, aValid /\ bValid)
        /\ Accepts(f1, aValid /\ bValid) = Join!Taken(bValid, aValid /\ bValid)
        /\ Accepts(f1, aValid /\ bValid) \in BOOLEAN
    BY <2>2 DEF Accepts, dinRetry, Join!Taken, Join!inpRetry, Join!dinRetry
  <2>4. QED BY <2>1, <2>3
<1>2. /\ f1' = Clocked(f1, sum, both, dinRetry(f2))
      /\ f2' = Clocked(f2, f1.q, f1.qValid, sumRetry)
      /\ sent_a' = Cat(sent_a, Word(taken, a))
      /\ sent_b' = Cat(sent_b, Word(taken, b))
      /\ sums' = Cat(sums, Word(Delivers(f2, sumRetry), f2.q))
  BY <1>1 DEF Join!Clock, Join!inpValid, Join!Clocked, Clocked, Join!c1, c1, Join!c2, c2, Join!s_enable, s_enable,
         Join!dinRetry, dinRetry, Join!Word, Word, Join!Delivers, Delivers, Cat
<1> DEFINE in == Word(taken, sum)
           between == Word(Accepts(f2, f1.qValid), f1.q)
           out == Word(Delivers(f2, sumRetry), f2.q)
<1>3. Path(Contents(f1), Contents(f1'), in, between, JoinWire) /\ Sound(f1', JoinWire)
      /\ f1.q \in JoinWire /\ f1.qValid \in BOOLEAN
  BY <1>1, <1>2, StagePath DEF JoinInv
<1>4. Path(Contents(f2), Contents(f2'), between, out, JoinWire) /\ Sound(f2', JoinWire)
  BY <1>2, <1>3, ClockedPath DEF JoinInv
<1> HIDE DEF in, between, out
<1>5. Path(JoinHolds, JoinHolds', in, out, JoinWire)
  BY <1>3, <1>4, InRow DEF JoinHolds
<1>6. Carries(JoinHolds', Cat(Pairs(sent_a, sent_b), in), Cat(sums, out), JoinWire)
  BY <1>5, PathCarries DEF JoinInv
<1>7. CASE ~taken
  <2>1. in = << >> /\ Word(taken, a) = << >> /\ Word(taken, b) = << >>
    BY <1>7 DEF in, Word
  <2>2. sent_a' = sent_a /\ sent_b' = sent_b /\ Cat(Pairs(sent_a, sent_b), in) = Pairs(sent_a, sent_b)
    BY <1>2, <2>1, EmptyEither DEF Cat, JoinInv, Carries
  <2>3. QED BY <1>2, <1>3, <1>4, <1>6, <2>2 DEF JoinInv, out
<1>8. CASE taken
  <2>1. a \in Join!Operands /\ b \in Join!Operands /\ in = <<sum>>
    BY <1>1, <1>8 DEF Accepts, in, Word
  <2>2. sent_a' = Append(sent_a, a)
    BY <1>2, <1>8, <2>1, AddWord DEF JoinInv
  <2>3. sent_b' = Append(sent_b, b)
    BY <1>2, <1>8, <2>1, AddWord DEF JoinInv
  <2>4. sent_a' \in Seq(Join!Operands) /\ sent_b' \in Seq(Join!Operands) /\ Len(sent_a') = Len(sent_b')
    BY <2>1, <2>2, <2>3, AppendProperties DEF JoinInv
  <2>5. Pairs(sent_a', sent_b') = Cat(Pairs(sent_a, sent_b), in)
    BY <1>1, <2>1, <2>2, <2>3, PairsOneMore DEF JoinInv, Carries
  <2>6. QED BY <1>2, <1>3, <1>4, <1>6, <2>4, <2>5 DEF JoinInv, out
<1>9. QED BY <1>7, <1>8

LEMMA JoinStep == ASSUME JoinInv, Join!Next PROVE JoinInv'
<1>1. PICK a \in Join!Wire, aValid \in BOOLEAN, b \in Join!Wire, bValid \in BOOLEAN, sumRetry \in BOOLEAN :
        /\ (aValid => a \in Join!Operands) /\ (bValid => b \in Join!Operands)
        /\ Join!Clock(a, aValid, b, bValid, sumRetry)
  BY DEF Join!Next, Join!OfferBoth, Join!OfferA, Join!OfferB, Join!Idle, Join!Wire
<1>2. QED BY <1>1, JoinClock

LEMMA JoinInit == Join!Init => JoinInv
<1> SUFFICES ASSUME Join!Init PROVE JoinInv
  OBVIOUS
<1>1. f1 = FflopAfterReset(X) /\ f2 = FflopAfterReset(X)
  BY DEF Join!Init, Join!FflopAfterReset, FflopAfterReset
<1>2. X \in JoinWire
  BY DEF JoinWire
<1>3. Pairs(<< >>, << >>) = << >>
  BY DEF Pairs
<1>4. Cat(<< >>, << >>) = << >> /\ << >> \in Seq(JoinWire) /\ << >> \in Seq(Join!Operands)
  BY EmptyEither DEF Cat
<1>5. QED BY <1>1, <1>2, <1>3, <1>4, ResetSound DEF Join!Init, JoinInv, JoinHolds, Carries

-----------------------------------------------------------------------------
(* The memory ports: what is read from the array while no write is on the  *)
(* wires is what the handshakes have written.                              *)
InFlightAnswers == Cat(IF Dense THEN Contents(ram_f2) ELSE << >>, Contents(ram_f1))

RamInv ==
    /\ Dense \in BOOLEAN /\ last_busy \in BOOLEAN
    /\ req \in Ram!Request \cup {NoRequest}
    /\ data \in [Pos -> Wire] /\ golden \in [Pos -> Wire]
    /\ Sound(ram_f1, Wire) /\ Sound(ram_f2, Wire)
    /\ owed = InFlightAnswers
    /\ Ram!ArrayMatchesAccepted

\* The two flops of the dense port, or the one of the fast port.
LEMMA AnswersPath ==
    ASSUME RamInv, NEW word \in Wire, NEW enters \in BOOLEAN, NEW valid \in BOOLEAN, NEW ack_retry \in BOOLEAN,
           enters = Accepts(ram_f1, valid), Dense' = Dense,
           ram_f1' = Clocked(ram_f1, word, valid, IF Dense THEN dinRetry(ram_f2) ELSE ack_retry),
           ram_f2' = IF Dense THEN Clocked(ram_f2, ram_f1.q, ram_f1.qValid, ack_retry) ELSE ram_f2
    PROVE  /\ Sound(ram_f1', Wire) /\ Sound(ram_f2', Wire)
           /\ Moves(InFlightAnswers, InFlightAnswers', enters, word, Delivers(Ram!Answer, ack_retry),
                    (Ram!Answer).q, Wire)
<1>1. /\ ram_f1.q \in Wire /\ ram_f1.qValid \in BOOLEAN /\ ram_f2.q \in Wire /\ ram_f2.qValid \in BOOLEAN
      /\ Sound(ram_f1, Wire) /\ Sound(ram_f2, Wire)
  BY DEF RamInv, Sound, FflopState
<1>2. CASE Dense
  <2> DEFINE in == Word(enters, word)
             between == Word(Accepts(ram_f2, ram_f1.qValid), ram_f1.q)
             out == Word(Delivers(ram_f2, ack_retry), ram_f2.q)
  <2>1. Path(Contents(ram_f1), Contents(ram_f1'), in, between, Wire) /\ Sound(ram_f1', Wire)
    BY <1>1, <1>2, StagePath
  <2>2. Path(Contents(ram_f2), Contents(ram_f2'), between, out, Wire) /\ Sound(ram_f2', Wire)
    BY <1>1, <1>2, ClockedPath
  <2> HIDE DEF in, between, out
  <2>3. Path(Cat(Contents(ram_f2), Contents(ram_f1)), Cat(Contents(ram_f2'), Contents(ram_f1')), in, out, Wire)
    BY <2>1, <2>2, InRow
  <2>4. InFlightAnswers = Cat(Contents(ram_f2), Contents(ram_f1)) /\ InFlightAnswers' = Cat(Contents(ram_f2'), Contents(ram_f1'))
    BY <1>2 DEF InFlightAnswers
  <2>5. ram_f2.qValid => Cat(Contents(ram_f2), Contents(ram_f1)) # << >>
    <3>1. ram_f2.qValid => Contents(ram_f2) # << >>
      BY <1>1, Places
    <3>2. Contents(ram_f2) \in Seq(Wire) /\ Contents(ram_f1) \in Seq(Wire)
      BY <1>1, Places
    <3>3. QED BY <3>1, <3>2, HeadOfRow
  <2>6. Ram!Answer = ram_f2
    BY <1>2 DEF Ram!Answer
  <2>7. QED BY <1>1, <2>1, <2>2, <2>3, <2>4, <2>5, <2>6 DEF Moves, in, out, Delivers
<1>3. CASE ~Dense
  <2>1. /\ Path(Contents(ram_f1), Contents(ram_f1'), Word(enters, word), Word(Delivers(ram_f1, ack_retry), ram_f1.q), Wire)
        /\ Sound(ram_f1', Wire)
    BY <1>1, <1>3, ClockedPath
  <2>2. InFlightAnswers = Contents(ram_f1) /\ InFlightAnswers' = Contents(ram_f1')
    BY <1>3, <2>1, EmptyEither DEF InFlightAnswers, Cat, Path
  <2>3. ram_f1.qValid => Contents(ram_f1) # << >>
    BY <1>1, Places
  <2>4. Ram!Answer = ram_f1
    BY <1>3 DEF Ram!Answer
  <2>5. QED BY <1>1, <1>3, <2>1, <2>2, <2>3, <2>4 DEF Moves, Delivers
<1>4. QED BY <1>2, <1>3 DEF RamInv

\* The array and the accepted writes.
LEMMA ArrayStep ==
    ASSUME RamInv, NEW ack_retry \in BOOLEAN, Ram!Step(ack_retry)
    PROVE  /\ req' \in Ram!Request \cup {NoRequest}
           /\ data' \in [Pos -> Wire] /\ golden' \in [Pos -> Wire]
           /\ (Ram!ArrayMatchesAccepted)'
<1>1. /\ data' = Ram!array /\ (Ram!Hold \/ Ram!Ask \/ Ram!Rest)
      /\ golden' = IF Ram!Accepted /\ Ram!Writing THEN [golden EXCEPT ![req.pos] = req.data] ELSE golden
  BY DEF Ram!Step, Ram!Clock
<1>2. req' \in Ram!Request \cup {NoRequest}
  BY <1>1 DEF Ram!Hold, Ram!Ask, Ram!Rest, RamInv
<1>3. Ram!Writing => req.pos \in Pos /\ req.data \in Wire
  BY DEF RamInv, Ram!Writing, Ram!req_valid, Ram!Request, Ram!Reads, Ram!Writes, Wire
<1>4. data' \in [Pos -> Wire] /\ golden' \in [Pos -> Wire]
  BY <1>1, <1>3 DEF RamInv, Ram!array
<1>5. ASSUME NEW p \in Pos, data'[p] # golden'[p]
      PROVE  Ram!Writing /\ ~Ram!Accepted /\ req.pos = p /\ req.data = data'[p]
  BY <1>1, <1>3, <1>5 DEF RamInv, Ram!array, Ram!ArrayMatchesAccepted
<1>6. Ram!Writing /\ ~Ram!Accepted => req' = req
  BY <1>1 DEF Ram!Hold, Ram!Ask, Ram!Rest, Ram!Writing
<1>7. (Ram!ArrayMatchesAccepted)'
  BY <1>5, <1>6 DEF Ram!ArrayMatchesAccepted, Ram!Writing, Ram!req_valid
<1>8. QED BY <1>2, <1>4, <1>7

LEMMA RamStep == ASSUME RamInv, Ram!Next PROVE RamInv'
<1>1. PICK ack_retry \in BOOLEAN : Ram!Step(ack_retry)
  BY DEF Ram!Next
<1>2. /\ req' \in Ram!Request \cup {NoRequest}
      /\ data' \in [Pos -> Wire] /\ golden' \in [Pos -> Wire]
      /\ (Ram!ArrayMatchesAccepted)'
  BY <1>1, ArrayStep
<1>3. PICK word \in Wire, valid \in BOOLEAN, enters \in BOOLEAN :
        /\ word = Ram!ack_data_next /\ valid = Ram!f1Valid /\ enters = (Ram!Accepted /\ Ram!Reading)
        /\ enters = Accepts(ram_f1, valid)
        /\ enters => word = golden[req.pos]
  <2>1. Ram!Reading => req.pos \in Pos
    BY DEF RamInv, Ram!Reading, Ram!req_valid, Ram!Request, Ram!Reads, Ram!Writes
  <2>2. Ram!ack_data_next \in Wire
    BY <2>1 DEF Ram!ack_data_next, RamInv, Wire
  <2>3. ram_f1.shadowValid \in BOOLEAN /\ last_busy \in BOOLEAN /\ Ram!Reading \in BOOLEAN
    BY DEF RamInv, Sound, FflopState, Ram!Reading
  <2>4. (Ram!Accepted /\ Ram!Reading) = Accepts(ram_f1, Ram!f1Valid)
    BY <2>3 DEF Ram!Accepted, Ram!req_retry, Ram!Reading, Ram!Writing, Ram!f1Valid, Accepts, dinRetry, Ram!dinRetry
  <2>5. Ram!Reading => Ram!ack_data_next = golden[req.pos]
    BY <2>1 DEF Ram!ack_data_next, Ram!Reading, Ram!Writing, RamInv, Ram!ArrayMatchesAccepted
  <2>6. Ram!f1Valid \in BOOLEAN /\ (Ram!Accepted /\ Ram!Reading) \in BOOLEAN
    BY <2>3 DEF Ram!f1Valid
  <2>7. QED BY <2>2, <2>4, <2>5, <2>6
<1>4. /\ Dense' = Dense
      /\ ram_f1' = Clocked(ram_f1, word, valid, IF Dense THEN dinRetry(ram_f2) ELSE ack_retry)
      /\ ram_f2' = IF Dense THEN Clocked(ram_f2, ram_f1.q, ram_f1.qValid, ack_retry) ELSE ram_f2
  BY <1>1, <1>3 DEF Ram!Step, Ram!Clock, Ram!Clocked, Clocked, Ram!c1, c1, Ram!c2, c2, Ram!s_enable, s_enable,
                    Ram!dinRetry, dinRetry
<1>5. last_busy' \in BOOLEAN
  BY <1>1 DEF Ram!Step, Ram!Clock, Ram!nextBusy, Ram!req_valid, RamInv
<1>6. PICK leaves \in BOOLEAN : leaves = Delivers(Ram!Answer, ack_retry)
  BY DEF Delivers, Ram!Answer, RamInv, Sound, FflopState
<1>7. /\ Sound(ram_f1', Wire) /\ Sound(ram_f2', Wire)
      /\ Moves(InFlightAnswers, InFlightAnswers', enters, word, leaves, (Ram!Answer).q, Wire)
  BY <1>3, <1>4, <1>6, AnswersPath
<1>8. owed' = (IF leaves THEN Tail(owed) ELSE owed) \o Word(enters, golden[req.pos])
  BY <1>1, <1>3, <1>6 DEF Ram!Step, Ram!Clock, Ram!Delivers, Delivers, Ram!Word, Word
<1>9. owed' = InFlightAnswers'
  <2>1. /\ ~enters /\ ~leaves => InFlightAnswers' = owed
        /\ enters /\ ~leaves => InFlightAnswers' = Append(owed, word)
        /\ ~enters /\ leaves => InFlightAnswers' = Tail(owed)
        /\ enters /\ leaves => InFlightAnswers' = Append(Tail(owed), word)
    BY <1>7, PathIsQueue DEF RamInv
  <2>2. owed \in Seq(Wire) /\ (leaves => Tail(owed) \in Seq(Wire))
    BY <1>7 DEF Moves, Path, RamInv
  <2>3. enters => owed' = Append(IF leaves THEN Tail(owed) ELSE owed, word)
    BY <1>3, <1>8, <2>2, AppendIsConcat DEF Word
  <2>4. ~enters => owed' = IF leaves THEN Tail(owed) ELSE owed
    BY <1>8, <2>2, EmptyEither DEF Word
  <2>5. QED BY <2>1, <2>3, <2>4
<1>10. QED BY <1>2, <1>4, <1>5, <1>7, <1>9 DEF RamInv

LEMMA RamInit == Ram!Init => RamInv
<1> SUFFICES ASSUME Ram!Init PROVE RamInv
  OBVIOUS
<1>1. ram_f1 = FflopAfterReset(X) /\ ram_f2 = FflopAfterReset(X)
  BY DEF Ram!Init, Ram!FflopAfterReset, FflopAfterReset
<1>2. X \in Wire /\ Sound(ram_f1, Wire) /\ Sound(ram_f2, Wire) /\ Contents(ram_f1) = << >> /\ Contents(ram_f2) = << >>
  BY <1>1, ResetSound DEF Wire
<1>3. InFlightAnswers = << >>
  BY <1>2, EmptyEither DEF InFlightAnswers, Cat
<1>4. QED BY <1>2, <1>3 DEF Ram!Init, RamInv, Ram!ArrayMatchesAccepted

-----------------------------------------------------------------------------
(* The composition: a behaviour steps one circuit and leaves the others.   *)
IInv == ForkInv /\ ChainInv /\ JoinInv /\ RamInv

LEMMA InitIInv == PathsInit => IInv
BY ForkInit, ChainInit, JoinInit, RamInit DEF PathsInit, IInv

LEMMA ForkStutters == ASSUME ForkInv, UNCHANGED forkVars PROVE ForkInv'
BY DEF forkVars, ForkInv

LEMMA ChainStutters == ASSUME ChainInv, UNCHANGED chainVars PROVE ChainInv' /\ UNCHANGED ChainQueue
BY DEF chainVars, ChainInv, ChainQueue, ChainHolds

LEMMA JoinStutters == ASSUME JoinInv, UNCHANGED joinVars PROVE JoinInv'
BY DEF joinVars, JoinInv, JoinHolds

LEMMA RamStutters == ASSUME RamInv, UNCHANGED ramVars PROVE RamInv'
BY DEF ramVars, RamInv, InFlightAnswers, Ram!ArrayMatchesAccepted, Ram!Writing, Ram!req_valid

LEMMA NextIInv == IInv /\ [PathsNext]_pathVars => IInv'
<1> SUFFICES ASSUME IInv, [PathsNext]_pathVars PROVE IInv'
  OBVIOUS
<1>1. CASE ForkOnly(Fork!Next)
  BY <1>1, ForkStep, ChainStutters, JoinStutters, RamStutters DEF IInv, ForkOnly
<1>2. CASE JoinOnly(Join!Next)
  BY <1>2, JoinStep, ForkStutters, ChainStutters, RamStutters DEF IInv, JoinOnly
<1>3. CASE ChainOnly(Chain!Next)
  BY <1>3, ChainStep, ForkStutters, JoinStutters, RamStutters DEF IInv, ChainOnly
<1>4. CASE RamOnly(Ram!Next)
  BY <1>4, RamStep, ForkStutters, ChainStutters, JoinStutters DEF IInv, RamOnly
<1>5. CASE UNCHANGED pathVars
  BY <1>5, ForkStutters, ChainStutters, JoinStutters, RamStutters DEF IInv, pathVars
<1>6. CASE FlopOnly(Next)
  BY <1>6, ForkStutters, ChainStutters, JoinStutters, RamStutters DEF IInv, FlopOnly
<1>7. QED BY <1>1, <1>2, <1>3, <1>4, <1>5, <1>6 DEF PathsNext

THEOREM Invariance == PathsSpec => []IInv
BY InitIInv, NextIInv, PTL DEF PathsSpec

(* A word enters both flops of the fork or neither: each branch has, in    *)
(* order, exactly the words the producer saw taken                         *)
(* (rtl/fork_fflop.v:24-31).                                               *)
THEOREM ForkIsSame == PathsSpec => []SameOnBothBranches
<1>1. IInv => SameOnBothBranches
  BY DEF IInv, ForkInv, Branch, Carries, Cat, SameOnBothBranches, Fork!SameOnBothBranches, Fork!Contents, Contents
<1>2. QED BY <1>1, Invariance, PTL

(* The join pairs the n-th operands of its producers, whoever waits        *)
(* (rtl/join_fadd.v:31-38).                                                *)
THEOREM JoinIsPairwise == PathsSpec => []PairwiseSums
<1>1. IInv => PairwiseSums
  <2> SUFFICES ASSUME IInv PROVE PairwiseSums
    OBVIOUS
  <2>1. sums \in Seq(JoinWire) /\ Contents(f2) \in Seq(JoinWire) /\ Contents(f1) \in Seq(JoinWire)
    BY Places DEF IInv, JoinInv, Carries
  <2>2. (sums \o Contents(f2)) \o Contents(f1) = sums \o (Contents(f2) \o Contents(f1))
    BY <2>1, Associative
  <2>3. Join!Sums = sums \o Contents(f2) \o Contents(f1)
    BY DEF Join!Sums, Join!Contents, Contents
  <2>4. Join!Sums = Pairs(sent_a, sent_b)
    BY <2>2, <2>3 DEF IInv, JoinInv, Carries, JoinHolds, Cat
  <2>5. QED BY <2>4 DEF PairwiseSums, Join!PairwiseSums, Pairs, IInv, JoinInv
<1>2. QED BY <1>1, Invariance, PTL

(* Each accepted read of a memory port is answered once, in order, from    *)
(* the writes accepted before it, though the array is written by refused   *)
(* writes as well (rtl/ram_1port_dense.v:33-66).                           *)
THEOREM PortsAnswerInOrder == PathsSpec => []AnswersInOrder
<1>1. IInv => AnswersInOrder
  BY DEF IInv, RamInv, InFlightAnswers, Cat, AnswersInOrder, Ram!AnswersInOrder, Ram!Contents, Contents
<1>2. QED BY <1>1, Invariance, PTL

(* The chain of four flops implements a queue of eight places              *)
(* (rtl/fflop_understand.v:23-83).                                         *)
THEOREM ChainRefinesFifo == PathsSpec => ChainIsFifo
<1>1. Chain!InFlight = ChainHolds
  BY DEF Chain!InFlight, ChainHolds, Chain!Contents, Contents, Cat
<1>2. PathsInit => Chain!Fifo!Init
  BY <1>1, ChainInit DEF PathsInit, Chain!Fifo!Init
<1>3. UNCHANGED ChainQueue => UNCHANGED Chain!Fifo!vars
  BY DEF Chain!Fifo!vars, ChainQueue, Chain!InFlight, ChainHolds, Chain!Contents, Contents, Cat
<1>4. IInv /\ [PathsNext]_pathVars => [Chain!Fifo!Next]_(Chain!Fifo!vars)
  <2> SUFFICES ASSUME IInv, [PathsNext]_pathVars PROVE Chain!Fifo!Next \/ UNCHANGED ChainQueue
    BY <1>3
  <2>1. CASE ChainOnly(Chain!Next)
    BY <2>1, ChainStep DEF IInv, ChainOnly
  <2>2. CASE UNCHANGED chainVars
    BY <2>2, ChainStutters DEF IInv
  <2>3. QED BY <2>1, <2>2 DEF PathsNext, FlopOnly, ForkOnly, JoinOnly, RamOnly, pathVars
<1>5. QED BY <1>2, <1>4, Invariance, PTL DEF PathsSpec, ChainIsFifo, Chain!FifoSpec, Chain!Fifo!Spec
=============================================================================

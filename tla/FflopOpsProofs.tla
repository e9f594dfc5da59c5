--------------------------- MODULE FflopOpsProofs ---------------------------
(***************************************************************************)
(* Lemmas about the equations of FflopOps, for every set of words.         *)
(*                                                                         *)
(* ClockedContents is the one everything rests on: an edge removes the     *)
(* delivered word from the front of the contents and adds the accepted one *)
(* at the back, and nothing else.  Modules that hold several flops cite it *)
(* for each of them.                                                       *)
(***************************************************************************)
EXTENDS FflopOps, SequenceTheorems, TLAPS

LEMMA ClockedType ==
    ASSUME NEW D, NEW f \in FflopState(D), NEW din \in D,
           NEW dinValid \in BOOLEAN, NEW qRetry \in BOOLEAN
    PROVE  Clocked(f, din, dinValid, qRetry) \in FflopState(D)
BY DEF Clocked, FflopState, c1, c2, s_enable

LEMMA ClockedWellFormed ==
    ASSUME NEW D, NEW f \in FflopState(D), NEW din \in D,
           NEW dinValid \in BOOLEAN, NEW qRetry \in BOOLEAN
    PROVE  WellFormed(Clocked(f, din, dinValid, qRetry))
BY DEF Clocked, FflopState, c1, c2, WellFormed

LEMMA ContentsType ==
    ASSUME NEW D, NEW f \in FflopState(D)
    PROVE  Contents(f) \in Seq(D)
BY DEF Contents, FflopState

LEMMA OneThenOne ==
    ASSUME NEW D, NEW a \in D, NEW b \in D
    PROVE  <<a>> \o <<b>> = <<a, b>>
<1>1. <<a>> \in Seq(D) /\ <<b>> \in Seq(D) /\ <<a, b>> \in Seq(D)
  OBVIOUS
<1>2. Append(<<a>>, b) = <<a>> \o <<b>>
  BY <1>1, AppendIsConcat
<1>3. Append(<<a>>, b) = <<a, b>>
  <2> DEFINE s == Append(<<a>>, b)
             t == <<a, b>>
  <2>1. s \in Seq(D) /\ Len(s) = 2 /\ s[1] = a /\ s[2] = b
    BY <1>1, AppendProperties
  <2>2. Len(t) = 2 /\ t[1] = a /\ t[2] = b
    OBVIOUS
  <2>3. \A i \in 1..Len(s) : s[i] = t[i]
    BY <2>1, <2>2
  <2>4. QED BY <1>1, <2>1, <2>2, <2>3, SeqEqual
<1>4. QED BY <1>2, <1>3

LEMMA EmptyEither ==
    ASSUME NEW D, NEW s \in Seq(D)
    PROVE  << >> \o s = s /\ s \o << >> = s
BY ConcatEmptySeq

LEMMA TailOfCons ==
    ASSUME NEW D, NEW a \in D, NEW s \in Seq(D)
    PROVE  Tail(<<a>> \o s) = s
<1> DEFINE t == <<a>> \o s
<1>1. <<a>> \in Seq(D) /\ Len(<<a>>) = 1
  OBVIOUS
<1>2. /\ t \in Seq(D) /\ Len(t) = 1 + Len(s)
      /\ \A i \in 1..(1 + Len(s)) : t[i] = IF i <= 1 THEN <<a>>[i] ELSE s[i - 1]
  BY <1>1, ConcatProperties
<1>3. t # << >> /\ Len(s) \in Nat
  BY <1>2, LenProperties
<1>4. /\ Tail(t) \in Seq(D) /\ Len(Tail(t)) = Len(s)
      /\ \A i \in 1..Len(Tail(t)) : Tail(t)[i] = t[i + 1]
  BY <1>2, <1>3, HeadTailProperties
<1>5. \A i \in 1..Len(Tail(t)) : Tail(t)[i] = s[i]
  BY <1>2, <1>3, <1>4
<1>6. QED BY <1>4, <1>5, SeqEqual

(* Delivered word, then the new contents = old contents, then accepted word *)
LEMMA ClockedContents ==
    ASSUME NEW D, NEW f \in FflopState(D), NEW din \in D,
           NEW dinValid \in BOOLEAN, NEW qRetry \in BOOLEAN,
           WellFormed(f)
    PROVE  Word(Delivers(f, qRetry), f.q) \o Contents(Clocked(f, din, dinValid, qRetry))
             = Contents(f) \o Word(Accepts(f, dinValid), din)
<1> DEFINE g == Clocked(f, din, dinValid, qRetry)
<1> USE DEF FflopState
<1>1. f.q \in D /\ f.shadowq \in D /\ f.qValid \in BOOLEAN /\ f.shadowValid \in BOOLEAN
  OBVIOUS
<1>2. /\ << >> \o << >> = << >>
      /\ \A a \in D : << >> \o <<a>> = <<a>> /\ <<a>> \o << >> = <<a>>
      /\ \A a, b \in D : /\ <<a>> \o <<b>> = <<a, b>>
                        /\ << >> \o <<a, b>> = <<a, b>>
                        /\ <<a, b>> \o << >> = <<a, b>>
  BY OneThenOne, EmptyEither
<1>3. /\ g.q = IF c1(f, qRetry) THEN f.q ELSE IF s_enable(f) THEN din ELSE f.shadowq
      /\ g.shadowq = IF s_enable(f) THEN din ELSE f.shadowq
      /\ g.qValid = (c1(f, qRetry) \/ c2(f, dinValid))
      /\ g.shadowValid = (c1(f, qRetry) /\ c2(f, dinValid))
  BY DEF Clocked
<1>4. CASE f.shadowValid /\ qRetry
  <2>1. Contents(g) = <<f.q, f.shadowq>> /\ Contents(f) = <<f.q, f.shadowq>>
    BY <1>3, <1>4 DEF Contents, WellFormed, c1, c2, s_enable
  <2>2. ~Delivers(f, qRetry) /\ ~Accepts(f, dinValid)
    BY <1>4 DEF Delivers, Accepts, dinRetry
  <2>3. QED BY <1>1, <1>2, <2>1, <2>2 DEF Word
<1>5. CASE f.shadowValid /\ ~qRetry
  <2>1. Contents(g) = <<f.shadowq>> /\ Contents(f) = <<f.q, f.shadowq>>
    BY <1>3, <1>5 DEF Contents, WellFormed, c1, c2, s_enable
  <2>2. Delivers(f, qRetry) /\ ~Accepts(f, dinValid)
    BY <1>5 DEF Delivers, Accepts, dinRetry, WellFormed
  <2>3. QED BY <1>1, <1>2, <2>1, <2>2 DEF Word
<1>6. CASE ~f.shadowValid /\ f.qValid /\ qRetry
  <2>1. Contents(g) = IF dinValid THEN <<f.q, din>> ELSE <<f.q>>
    BY <1>3, <1>6 DEF Contents, c1, c2, s_enable
  <2>2. Contents(f) = <<f.q>> /\ ~Delivers(f, qRetry) /\ (Accepts(f, dinValid) <=> dinValid)
    BY <1>6 DEF Contents, Delivers, Accepts, dinRetry
  <2>3. QED BY <1>1, <1>2, <2>1, <2>2 DEF Word
<1>7. CASE ~f.shadowValid /\ f.qValid /\ ~qRetry
  <2>1. Contents(g) = IF dinValid THEN <<din>> ELSE << >>
    BY <1>3, <1>7 DEF Contents, c1, c2, s_enable
  <2>2. Contents(f) = <<f.q>> /\ Delivers(f, qRetry) /\ (Accepts(f, dinValid) <=> dinValid)
    BY <1>7 DEF Contents, Delivers, Accepts, dinRetry
  <2>3. QED BY <1>1, <1>2, <2>1, <2>2 DEF Word
<1>8. CASE ~f.shadowValid /\ ~f.qValid
  <2>1. Contents(g) = IF dinValid THEN <<din>> ELSE << >>
    BY <1>3, <1>8 DEF Contents, c1, c2, s_enable
  <2>2. Contents(f) = << >> /\ ~Delivers(f, qRetry) /\ (Accepts(f, dinValid) <=> dinValid)
    BY <1>8 DEF Contents, Delivers, Accepts, dinRetry
  <2>3. QED BY <1>1, <1>2, <2>1, <2>2 DEF Word
<1>9. QED BY <1>1, <1>4, <1>5, <1>6, <1>7, <1>8

(* Concatenation is associative, in the quantified form Zenon can apply.   *)
LEMMA Associative ==
    ASSUME NEW D
    PROVE  \A r, s, t \in Seq(D) : (r \o s) \o t = r \o (s \o t)
BY ConcatAssociative

-----------------------------------------------------------------------------
(* Paths: whatever holds words between two handshakes.                     *)
(* Concatenation under a name of its own, of which the provers see what    *)
(* these lemmas say and not the definition.                                *)
Cat(r, s) == r \o s

LEMMA CatType == ASSUME NEW D, NEW r \in Seq(D), NEW s \in Seq(D) PROVE Cat(r, s) \in Seq(D)
BY ConcatProperties DEF Cat

LEMMA CatAssociative ==
    ASSUME NEW D, NEW r \in Seq(D), NEW s \in Seq(D), NEW t \in Seq(D)
    PROVE  Cat(Cat(r, s), t) = Cat(r, Cat(s, t))
BY Associative DEF Cat

(* A step of a path: the words that enter and leave, before and after.     *)
Path(old, new, entering, leaving, D) ==
    /\ old \in Seq(D) /\ new \in Seq(D) /\ entering \in Seq(D) /\ leaving \in Seq(D)
    /\ Cat(leaving, new) = Cat(old, entering)

(* A path that feeds another: their contents together move as one path's.  *)
LEMMA InRow ==
    ASSUME NEW D, NEW old1, NEW new1, NEW old2, NEW new2, NEW entering, NEW passed, NEW leaving,
           Path(old1, new1, entering, passed, D), Path(old2, new2, passed, leaving, D)
    PROVE  Path(Cat(old2, old1), Cat(new2, new1), entering, leaving, D)
BY CatAssociative, CatType DEF Path

(* A path has what was sent and not received.                              *)
Carries(path, sent, received, D) ==
    /\ path \in Seq(D) /\ sent \in Seq(D) /\ received \in Seq(D)
    /\ sent = Cat(received, path)

LEMMA PathCarries ==
    ASSUME NEW D, NEW old, NEW new, NEW entering, NEW leaving, NEW sent, NEW received,
           Carries(old, sent, received, D), Path(old, new, entering, leaving, D)
    PROVE  Carries(new, Cat(sent, entering), Cat(received, leaving), D)
BY CatAssociative, CatType DEF Path, Carries

(* A flop as every reachable state has it. *)
Sound(f, D) == f \in FflopState(D) /\ WellFormed(f)

LEMMA ResetSound ==
    ASSUME NEW D, NEW garbage \in D
    PROVE  Sound(FflopAfterReset(garbage), D) /\ Contents(FflopAfterReset(garbage)) = << >>
BY DEF Sound, FflopState, FflopAfterReset, WellFormed, Contents

LEMMA ClockedPath ==
    ASSUME NEW D, NEW f, Sound(f, D), NEW din \in D, NEW dinValid \in BOOLEAN, NEW qRetry \in BOOLEAN
    PROVE  LET g == Clocked(f, din, dinValid, qRetry)
           IN  /\ Sound(g, D)
               /\ Path(Contents(f), Contents(g), Word(Accepts(f, dinValid), din), Word(Delivers(f, qRetry), f.q), D)
<1>1. f \in FflopState(D) /\ WellFormed(f) /\ f.q \in D
  BY DEF Sound, FflopState
<1>2. Word(Delivers(f, qRetry), f.q) \in Seq(D) /\ Word(Accepts(f, dinValid), din) \in Seq(D)
  BY <1>1 DEF Word
<1>3. QED BY <1>1, <1>2, ClockedType, ClockedWellFormed, ContentsType, ClockedContents DEF Sound, Path, Cat

(* A step of a path, read as one of a queue. *)
Moves(old, new, enters, x, leaves, w, D) ==
    /\ enters \in BOOLEAN /\ (enters => x \in D)
    /\ leaves \in BOOLEAN /\ (leaves => w \in D /\ old # << >>)
    /\ Path(old, new, Word(enters, x), Word(leaves, w), D)

LEMMA PathIsQueue ==
    ASSUME NEW D, NEW old, NEW new, NEW x, NEW w, NEW enters, NEW leaves,
           Moves(old, new, enters, x, leaves, w, D)
    PROVE  /\ ~enters /\ ~leaves => new = old
           /\ enters /\ ~leaves => new = Append(old, x)
           /\ ~enters /\ leaves => new = Tail(old)
           /\ enters /\ leaves => new = Append(Tail(old), x)
<1> USE DEF Moves
<1>1. /\ enters \in BOOLEAN /\ (enters => x \in D) /\ leaves \in BOOLEAN /\ (leaves => w \in D /\ old # << >>)
      /\ old \in Seq(D) /\ new \in Seq(D) /\ Word(leaves, w) \o new = old \o Word(enters, x)
  BY DEF Path, Cat
<1> HIDE DEF Moves
<1>2. CASE ~enters /\ ~leaves
  BY <1>1, <1>2, EmptyEither DEF Word
<1>3. CASE enters /\ ~leaves
  BY <1>1, <1>3, EmptyEither, AppendIsConcat DEF Word
<1>4. CASE ~enters /\ leaves
  <2>1. <<w>> \o new = old
    BY <1>1, <1>4, EmptyEither DEF Word
  <2>2. new = Tail(old)
    BY <1>1, <1>4, <2>1, TailOfCons
  <2>3. QED BY <1>4, <2>2
<1>5. CASE enters /\ leaves
  <2>1. <<w>> \o new = Append(old, x)
    BY <1>1, <1>5, AppendIsConcat DEF Word
  <2>2. new = Tail(Append(old, x))
    BY <1>1, <1>5, <2>1, TailOfCons
  <2>3. QED BY <1>1, <1>5, <2>2, HeadTailAppend
<1>6. QED BY <1>2, <1>3, <1>4, <1>5

LEMMA AddWord ==
    ASSUME NEW D, NEW s \in Seq(D), NEW happens \in BOOLEAN, NEW w \in D
    PROVE  Cat(s, Word(happens, w)) = (IF happens THEN Append(s, w) ELSE s)
BY EmptyEither, AppendIsConcat DEF Word, Cat

LEMMA HeadOfRow ==
    ASSUME NEW D, NEW s \in Seq(D), NEW t \in Seq(D), s # << >>
    PROVE  Cat(s, t) # << >> /\ Head(Cat(s, t)) = Head(s)
<1>1. Len(s) > 0 /\ Len(s) \in Nat /\ Len(t) \in Nat
  BY LenProperties
<1>2. Len(Cat(s, t)) = Len(s) + Len(t) /\ Cat(s, t)[1] = s[1]
  BY <1>1, ConcatProperties DEF Cat
<1>3. Cat(s, t) # << >>
  BY <1>1, <1>2
<1>4. QED BY <1>2, <1>3

LEMMA LenOfRow ==
    ASSUME NEW D, NEW s \in Seq(D), NEW t \in Seq(D)
    PROVE  Len(Cat(s, t)) = Len(s) + Len(t) /\ Len(s) \in Nat /\ Len(t) \in Nat
BY ConcatProperties, LenProperties DEF Cat

(* A flop has two places, and one that accepts has one of them free.       *)
LEMMA Places ==
    ASSUME NEW D, NEW f, Sound(f, D)
    PROVE  /\ Contents(f) \in Seq(D) /\ Len(Contents(f)) <= 2
           /\ ~dinRetry(f) => Len(Contents(f)) <= 1
           /\ f.qValid => Contents(f) # << >> /\ Head(Contents(f)) = f.q
BY DEF Sound, FflopState, Contents, dinRetry
=============================================================================

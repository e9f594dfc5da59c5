---------------------------- MODULE DirectoryOps ----------------------------
(***************************************************************************)
(* The tag and entry arithmetic of rtl/directory_bank.v, as operators on   *)
(* one set of tags and on one directory entry.                             *)
(*                                                                         *)
(* An entry names up to NumPointers nodes that may hold a line.  The node  *)
(* id NoNid (all bits zero) in a pointer means that the pointer is free.   *)
(***************************************************************************)
EXTENDS Naturals

CONSTANTS Nid,          \* the node ids that ask for lines
          NoNid,        \* the node id zero
          NumPointers,  \* pointers of an entry: NUM_ENTRY_POINTERS, 4 in the code
          NumWays,      \* associativity: TAG_BANK_ASSOC, 8 in the code
          NoTag         \* the content of a way whose valid bit is clear

ASSUME SizeAssumption ==
    /\ NumPointers \in Nat \ {0}
    /\ NumWays \in Nat \ {0}
    /\ NoNid \notin Nid

Pointers == 0 .. NumPointers - 1
Ways     == 0 .. NumWays - 1

Entry == [nid : [Pointers -> Nid \cup {NoNid}], shared : BOOLEAN, broadcast : BOOLEAN]

EmptyEntry == [nid |-> [p \in Pointers |-> NoNid], shared |-> FALSE, broadcast |-> FALSE]

(* What the priority encoders pick: the lowest position of a set. *)
Lowest(S) == CHOOSE p \in S : \A o \in S : p <= o

(* The pointers in use, and those after position pos. *)
Used(e)       == {p \in Pointers : e.nid[p] # NoNid}
Later(e, pos) == {p \in Used(e) : p > pos}

WithoutPointer(e, pos) == [e EXCEPT !.nid[pos] = NoNid]

(* The requester is not snooped: the first pointer to it is dropped. *)
WithoutRequester(e, n) ==
    LET own == {p \in Pointers : e.nid[p] = n} IN
    IF own = {} THEN e ELSE WithoutPointer(e, Lowest(own))

(* tag_miss_entry: the requester alone; private only for the command REQ_M. *)
NewEntry(n, isShared) == [EmptyEntry EXCEPT !.nid[0] = n, !.shared = isShared]

(* mutant: the new sharer takes the first pointer, free or not *)
UpdatedEntryInPlace(e, n) == [e EXCEPT !.nid[0] = n, !.shared = TRUE]

(* updated_entry: one more sharer, or the broadcast bit if no pointer is free. *)
UpdatedEntry(e, n) ==
    LET free == Pointers \ Used(e) IN
    IF free = {} THEN [e EXCEPT !.broadcast = TRUE, !.shared = TRUE]
    ELSE [e EXCEPT !.nid[Lowest(free)] = n, !.shared = TRUE]

(* The tags of one set: way -> hash of the line, or NoTag. *)
tag_hit(ways, hash) == \E w \in Ways : ways[w] = hash

(* The way the request uses: on a hit the first VALID one, on a miss the   *)
(* first free one, and the last way when the encoder finds none.           *)
tag_pos_next(ways, hash) ==
    LET wanted == {w \in Ways : (ways[w] # NoTag) = tag_hit(ways, hash)} IN
    IF wanted = {} THEN NumWays - 1 ELSE Lowest(wanted)
=============================================================================

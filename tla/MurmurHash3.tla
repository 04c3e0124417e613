------------------------------ MODULE MurmurHash3 ------------------------------
(***************************************************************************)
(* The three functions of algorithm/murmurhash3.cpp.  As in XXHash the     *)
(* arithmetic is left uninterpreted: a hash is the sequence of the words   *)
(* that are mixed in, each with the k it goes through, and the length.  A  *)
(* word is a function from the places of its bytes (the shift) to them.    *)
(***************************************************************************)
EXTENDS Integers, Sequences

(* getblock: the w bytes behind the first n. *)
Word(data, n, w) == [shift \in 0..w - 1 |-> data[n + shift + 1]]

(* The loop over the blocks, of as many words of w bytes as there are lanes. *)
Body(data, w, lanes) ==
  LET block == w * lanes
  IN [i \in 1..(Len(data) \div block) * lanes |->
        [k |-> ((i - 1) % lanes) + 1, word |-> Word(data, (i - 1) * w, w)]]

(* A mistaken tail, which leaves the last lane out when it is not full. *)
Tail_Full(data, w, lanes) ==
  LET tail == SubSeq(data, Len(data) - (Len(data) % (w * lanes)) + 1, Len(data))
      used == Len(tail) \div w
  IN [i \in 1..used |->
        [k |-> used - i + 1, word |-> Word(tail, (used - i) * w, w)]]

(* The switch enters at the number of bytes left and falls through to 1:   *)
(* the last lane that has bytes is mixed in first, the first one last.     *)
TailOf(data, w, lanes) ==
  LET tail == SubSeq(data, Len(data) - (Len(data) % (w * lanes)) + 1, Len(data))
      used == (Len(tail) + w - 1) \div w
      left(k) == IF k < used THEN w ELSE Len(tail) - (used - 1) * w
  IN [i \in 1..used |->
        LET k == used - i + 1 IN [k |-> k, word |-> Word(tail, (k - 1) * w, left(k))]]

Murmur(data, w, lanes) ==
  [mixed |-> Body(data, w, lanes) \o TailOf(data, w, lanes), len |-> Len(data)]

MurmurHash3_x86_32(data) == Murmur(data, 4, 1)
MurmurHash3_x86_128(data) == Murmur(data, 4, 4)
MurmurHash3_x64_128(data) == Murmur(data, 8, 2)

------------------------------------------------------------------------------
(* The hash of the data with zeros behind it, up to a full block, mixes    *)
(* the same bytes at the same places, each once; it differs in zeros only. *)
(* That is what a reader expects of the tail's fallthrough: no byte of the *)
(* data is left out or shifted elsewhere, and no byte behind it is read.   *)
MixesAsPadded(hash, data, w, lanes) ==
  LET entries == {e \in (DOMAIN hash.mixed) \X (0..w - 1) : e[2] \in DOMAIN hash.mixed[e[1]].word}
      place(e) == [byte |-> hash.mixed[e[1]].word[e[2]], k |-> hash.mixed[e[1]].k, shift |-> e[2]]
  IN /\ {place(e) : e \in entries}
          = {[byte |-> data[n],
              k |-> (((n - 1) \div w) % lanes) + 1,
              shift |-> (n - 1) % w] : n \in DOMAIN data}
     /\ \A e, f \in entries : place(e) = place(f) => e = f
     /\ hash.len = Len(data)

(* Each function, for the given data. *)
MixesEveryByte(data) ==
  /\ MixesAsPadded(MurmurHash3_x86_32(data), data, 4, 1)
  /\ MixesAsPadded(MurmurHash3_x86_128(data), data, 4, 4)
  /\ MixesAsPadded(MurmurHash3_x64_128(data), data, 8, 2)
==============================================================================

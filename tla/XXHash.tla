-------------------------------- MODULE XXHash --------------------------------
(***************************************************************************)
(* algorithm/xxhash.cpp: XXH32 and XXH64 over an input at once, and over   *)
(* one that comes in pieces, which the state's buffer puts together.       *)
(*                                                                         *)
(* The arithmetic is left uninterpreted: an accumulator is the sequence of *)
(* the words mixed into it, and a hash is made of the accumulators, the    *)
(* length, and the words and bytes of the rest.  What is equal here is     *)
(* equal for every arithmetic.  A byte stands for its place in the input.  *)
(***************************************************************************)
EXTENDS Integers, Sequences

CONSTANTS
  MaxInput,    \* the bound on the bytes that are hashed
  Pieces       \* the sizes of the pieces

VARIABLES
  shared,      \* [XXH32, XXH64: the states of two hashes of one input]
  history      \* how many bytes the input has so far

vars == <<shared, history>>

Lanes == 1..4                       \* v1 .. v4
Seeded == [i \in Lanes |-> <<>>]    \* v1 .. v4 before the first round
Input(first, last) == [i \in 1..last - first + 1 |-> first + i - 1]

(* The rounds over all full blocks of the data; lanes have w bytes. *)
Rounds(v, data, w) ==
  [i \in Lanes |-> v[i] \o [n \in 1..Len(data) \div (4 * w) |->
     LET at == (n - 1) * 4 * w + (i - 1) * w IN SubSeq(data, at + 1, at + w)]]

(* What the rounds leave. *)
Rest(data, w) == SubSeq(data, Len(data) - (Len(data) % (4 * w)) + 1, Len(data))

(* The words of w bytes at the beginning of the data, as many as n. *)
WordsOf(data, w, n) == [i \in 1..n |-> SubSeq(data, (i - 1) * w + 1, i * w)]
After(data, n) == SubSeq(data, n + 1, Len(data))

(* The end of a hash of 32 bits: words of 4 bytes, then bytes. *)
Tail32(rest) == WordsOf(rest, 4, Len(rest) \div 4)
                  \o WordsOf(After(rest, Len(rest) - (Len(rest) % 4)), 1, Len(rest) % 4)

(* The end of a hash of 64 bits: words of 8 bytes, at most one of 4, bytes. *)
Tail64(rest) == WordsOf(rest, 8, Len(rest) \div 8)
                  \o Tail32(After(rest, Len(rest) - (Len(rest) % 8)))

Finish(v, total_len, tail, w) ==
  [acc |-> IF total_len >= 4 * w THEN v ELSE Seeded, mixed |-> total_len >= 4 * w,
   len |-> total_len, tail |-> tail]

XXH32(input) == Finish(Rounds(Seeded, input, 4), Len(input), Tail32(Rest(input, 4)), 4)
XXH64(input) == Finish(Rounds(Seeded, input, 8), Len(input), Tail64(Rest(input, 8)), 8)

(* The buffer keeps what it held: 0, a byte that is not of the input.      *)
resetState(w) ==
  [v |-> Seeded, total_len |-> 0, memsize |-> 0, memory |-> [i \in 1..4 * w |-> 0]]
XXH32_resetState == resetState(4)
XXH64_resetState == resetState(8)

(* memcpy to the buffer, behind its first n bytes. *)
Copied(memory, n, data) ==
  [i \in DOMAIN memory |-> IF i \in n + 1..n + Len(data) THEN data[i - n] ELSE memory[i]]

(* A mistaken test, which lets a piece fill the buffer to its end. *)
Fits_Full(s, n, w) == s.memsize + n <= 4 * w

Fits(s, n, w) == s.memsize + n < 4 * w

(* A piece that does not fill the buffer is kept.  Otherwise the buffer is *)
(* filled and mixed in, if it held anything, then the full blocks of the   *)
(* rest; the buffer keeps what they leave.                                 *)
update(s, input, w) ==
  LET total_len == s.total_len + Len(input)
      head == IF s.memsize > 0 THEN 4 * w - s.memsize ELSE 0
      filled == Copied(s.memory, s.memsize, SubSeq(input, 1, head))
      rest == After(input, head)
  IN IF Fits(s, Len(input), w)
     THEN [s EXCEPT !.total_len = total_len, !.memsize = @ + Len(input),
                    !.memory = Copied(s.memory, s.memsize, input)]
     ELSE [v |-> Rounds(Rounds(s.v, IF head > 0 THEN filled ELSE <<>>, w), rest, w),
           total_len |-> total_len,
           memsize |-> Len(Rest(rest, w)),
           memory |-> Copied(filled, 0, Rest(rest, w))]

XXH32_update(s, input) == update(s, input, 4)
XXH64_update(s, input) == update(s, input, 8)

(* What the buffer holds. *)
Held(s) == SubSeq(s.memory, 1, s.memsize)
XXH32_intermediateDigest(s) == Finish(s.v, s.total_len, Tail32(Held(s)), 4)
XXH64_intermediateDigest(s) == Finish(s.v, s.total_len, Tail64(Held(s)), 8)

Init == shared = [XXH32 |-> XXH32_resetState, XXH64 |-> XXH64_resetState] /\ history = 0

(* The next n bytes of the input are a piece. *)
Update(n) ==
  LET input == Input(history + 1, history + n) IN
  /\ history + n <= MaxInput
  /\ shared' = [XXH32 |-> XXH32_update(shared.XXH32, input),
                XXH64 |-> XXH64_update(shared.XXH64, input)]
  /\ history' = history + n

(* The states are used for another input. *)
Reset == shared' = [XXH32 |-> XXH32_resetState, XXH64 |-> XXH64_resetState] /\ history' = 0

Next == (\E n \in Pieces : Update(n)) \/ Reset

------------------------------------------------------------------------------
(* However an input is cut into pieces, the digest at any time is that of  *)
(* the bytes so far at once (xxhash.cpp, XXH32: "Simple version" of it).   *)
StreamIsOneShot ==
  /\ XXH32_intermediateDigest(shared.XXH32) = XXH32(Input(1, history))
  /\ XXH64_intermediateDigest(shared.XXH64) = XXH64(Input(1, history))
==============================================================================

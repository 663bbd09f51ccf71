------------------------------- MODULE BitSet -------------------------------
(***************************************************************************)
(* The bitsets of src/common/bitset.h at the level of their words, for the *)
(* pass that mixes sets of different sizes.  `max_elems` is the size the   *)
(* set was made with and `bits` the bits that are set in its words, those  *)
(* beyond max_elems included.                                              *)
(***************************************************************************)
EXTENDS Integers

CONSTANTS
    WORD_SIZE,      \* of BitSet64, 64 in the code
    INT_SIZE        \* of the int that bset64_not returns, half of it

ASSUME SizesAssumption == INT_SIZE \in Nat \ {0} /\ WORD_SIZE = 2 * INT_SIZE

num_words(sz) == (sz + WORD_SIZE - 1) \div WORD_SIZE

Words(s) == 0 .. WORD_SIZE * num_words(s.max_elems) - 1

(* bset and bset_mem, on memory from calloc. *)
EmptySet(max_elems) == [max_elems |-> max_elems, bits |-> {}]

(* The assertion of bset_add and bset_is_in. *)
Fits(s, elem) == elem < s.max_elems

bset_add(s, elem) == [s EXCEPT !.bits = @ \union {elem}]

(* Copies b into a if both have the same number of words, and otherwise *)
(* nothing; the caller is told of success either way.                   *)
bset_copy(a, b) ==
    IF num_words(a.max_elems) = num_words(b.max_elems) THEN [a EXCEPT !.bits = b.bits] ELSE a

(* bset64_not complements a word but returns an int: its value is widened *)
(* again with the sign, so the upper half repeats the last lower bit.     *)
SignBit(x) == x - (x % WORD_SIZE) + INT_SIZE - 1
NotSource(x) == IF x % WORD_SIZE < INT_SIZE THEN x ELSE SignBit(x)

bset_not(s) == [s EXCEPT !.bits = {x \in Words(s) : NotSource(x) \notin s.bits}]

(* Both go by the number of words of the first set. *)
intersect_equal_sets_in_place(a, b) == [a EXCEPT !.bits = @ \intersect b.bits]
union_equal_sets_in_place(a, b) ==
    [a EXCEPT !.bits = @ \union (b.bits \intersect Words(a))]

bset_eq(a, b) ==
    /\ num_words(a.max_elems) = num_words(b.max_elems)
    /\ a.bits = b.bits

(* What the set stands for, and print_bitset prints. *)
Elements(s) == {x \in s.bits : x < s.max_elems}
=============================================================================

----------------------------- MODULE LVNProofs -----------------------------
(***************************************************************************)
(* Local value numbering on every program.  The numbers stand for the      *)
(* terms that the block has computed: there is a term for every number, no *)
(* two the same, such that a value with a number holds its term and an     *)
(* addition that is known has the sum of the terms of its operands.  The   *)
(* term of a number outlives the registers that held it, so the invariant  *)
(* has the terms and not only the values of the table.                     *)
(***************************************************************************)
EXTENDS LVNValues, TLAPS, WellFoundedInduction

(* A struct LVN whose tables are in order: LvnTypeOK, of any such struct. *)
Pair(counter) == [val : Value, num : 1 .. counter]
Addition(counter) == [lnum : 1 .. counter, rnum : 1 .. counter, num : 1 .. counter]

TablesOK(l) ==
    /\ l = [number_for_value |-> l.number_for_value, number_for_add |-> l.number_for_add,
            counter |-> l.counter]
    /\ l.counter \in Nat
    /\ l.number_for_value \in Seq(Pair(l.counter))
    /\ l.number_for_add \in Seq(Addition(l.counter))
    /\ \A j, k \in 1 .. Len(l.number_for_value) :
          l.number_for_value[j].val = l.number_for_value[k].val => j = k

(* A value that an instruction of the programs may name. *)
Named(val) == val \in Value /\ (val.kind = "VAL_REG" => val.num \in Registers)

(* The numbers of l stand for the terms T where the registers hold env.    *)
Meaning(l, T, env) ==
    LET vals == l.number_for_value
        adds == l.number_for_add
        numbers == 1 .. l.counter
    IN  /\ \A j, k \in numbers : T[j] = T[k] => j = k
        /\ \A m \in 1 .. Len(vals) : T[vals[m].num] = ValueIn(env, vals[m].val)
        /\ \A m \in 1 .. Len(adds) : T[adds[m].num] = <<T[adds[m].lnum], T[adds[m].rnum]>>
        /\ \A k \in numbers : \/ \E m \in 1 .. Len(vals) : T[k] = <<vals[m].val>>
                              \/ \E m \in 1 .. Len(adds) : adds[m].num = k
        /\ \A m \in 1 .. Len(vals) : Named(vals[m].val)
        /\ \A r \in Registers : HasNumber(l, val_reg(r)) \/ env[r] = <<val_reg(r)>>

IsEnv(env) == env = [r \in Registers |-> env[r]]

-----------------------------------------------------------------------------

(* The first of some places of a table. *)
LEMMA FirstPlace ==
    ASSUME NEW S \in SUBSET (Nat \ {0}), S # {}
    PROVE  \E k \in S : \A m \in 1 .. k - 1 : m \notin S
<1> DEFINE R == OpToRel(<, Nat)
<1>1. IsWellFoundedOn(R, Nat)
  BY NatLessThanWellFounded, Zenon
<1>2. \A x, y \in Nat : <<x, y>> \in R <=> x < y
  BY DEF OpToRel
<1>3. S \in SUBSET Nat
  OBVIOUS
<1> HIDE DEF R
<1>4. PICK k \in S : \A y \in S : ~(<<y, k>> \in R)
  BY <1>1, <1>3, WFMin
<1>5. \A m \in 1 .. k - 1 : m \in Nat /\ m < k
  OBVIOUS
<1> QED
  BY <1>2, <1>4, <1>5

(* Appending, element by element. *)
LEMMA AppendIs ==
    ASSUME NEW S, NEW q \in Seq(S), NEW e \in S
    PROVE  /\ Append(q, e) \in Seq(S)
           /\ Len(q) \in Nat
           /\ Len(Append(q, e)) = Len(q) + 1
           /\ \A k \in 1 .. Len(q) : Append(q, e)[k] = q[k]
           /\ Append(q, e)[Len(q) + 1] = e
OBVIOUS

(* A value that has a number is found in the table, ... *)
LEMMA EntryFound ==
    ASSUME NEW l, TablesOK(l), NEW val, HasNumber(l, val)
    PROVE  /\ EntryOf(l, val) \in 1 .. Len(l.number_for_value)
           /\ l.number_for_value[EntryOf(l, val)].val = val
           /\ NumberOf(l, val) = l.number_for_value[EntryOf(l, val)].num
           /\ NumberOf(l, val) \in 1 .. l.counter
<1> DEFINE vals == l.number_for_value
           S == {k \in 1 .. Len(vals) : vals[k].val = val}
<1>1. vals \in Seq(Pair(l.counter)) /\ Len(vals) \in Nat
  BY DEF TablesOK
<1>2. S \in SUBSET (Nat \ {0}) /\ S # {}
  BY <1>1 DEF HasNumber
<1>3. \E k \in S : \A m \in 1 .. k - 1 : m \notin S
  <2> HIDE DEF S
  <2> QED
    BY <1>2, FirstPlace
<1>4. \E k \in 1 .. Len(vals) : vals[k].val = val /\ \A m \in 1 .. k - 1 : vals[m].val # val
  BY <1>1, <1>3
<1>5. EntryOf(l, val) \in 1 .. Len(vals) /\ vals[EntryOf(l, val)].val = val
  BY <1>4 DEF EntryOf, FirstEntry
<1>6. NumberOf(l, val) = vals[EntryOf(l, val)].num
  BY DEF NumberOf
<1>7. vals[EntryOf(l, val)] \in Pair(l.counter)
  BY <1>1, <1>5
<1> QED
  BY <1>5, <1>6, <1>7 DEF Pair

(* ... and so is an addition. *)
LEMMA AddFound ==
    ASSUME NEW l, TablesOK(l), NEW lnum, NEW rnum, HasAdd(l, lnum, rnum)
    PROVE  \E k \in 1 .. Len(l.number_for_add) :
               /\ l.number_for_add[k].lnum = lnum /\ l.number_for_add[k].rnum = rnum
               /\ AddNumberOf(l, lnum, rnum) = l.number_for_add[k].num
               /\ AddNumberOf(l, lnum, rnum) \in 1 .. l.counter
<1> DEFINE adds == l.number_for_add
           S == {k \in 1 .. Len(adds) : SameAdd(adds[k], lnum, rnum)}
           f == FirstEntry(adds, LAMBDA a : SameAdd(a, lnum, rnum))
<1>1. adds \in Seq(Addition(l.counter)) /\ Len(adds) \in Nat
  BY DEF TablesOK
<1>2. S \in SUBSET (Nat \ {0}) /\ S # {}
  BY <1>1 DEF HasAdd
<1>3. \E k \in S : \A m \in 1 .. k - 1 : m \notin S
  <2> HIDE DEF S
  <2> QED
    BY <1>2, FirstPlace
<1>4. \E k \in 1 .. Len(adds) : /\ SameAdd(adds[k], lnum, rnum)
                                /\ \A m \in 1 .. k - 1 : ~SameAdd(adds[m], lnum, rnum)
  BY <1>1, <1>3
<1>5. f \in 1 .. Len(adds) /\ SameAdd(adds[f], lnum, rnum)
  BY <1>4 DEF FirstEntry
<1>6. AddNumberOf(l, lnum, rnum) = adds[f].num
  BY DEF AddNumberOf
<1>7. adds[f] \in Addition(l.counter)
  BY <1>1, <1>5
<1> HIDE DEF f
<1>8. adds[f].num \in 1 .. l.counter
  BY <1>7 DEF Addition
<1> QED
  BY <1>5, <1>6, <1>8 DEF SameAdd

(* A value with a given number is found if there is one. *)
LEMMA ValueFound ==
    ASSUME NEW l, TablesOK(l), NEW num,
           \E k \in 1 .. Len(l.number_for_value) : l.number_for_value[k].num = num
    PROVE  \E k \in 1 .. Len(l.number_for_value) :
               /\ l.number_for_value[k].num = num
               /\ get_value_for_number(l, num) = l.number_for_value[k].val
<1> DEFINE vals == l.number_for_value
           S == {k \in 1 .. Len(vals) : vals[k].num = num}
           f == FirstEntry(vals, LAMBDA e : e.num = num)
<1>1. vals \in Seq(Pair(l.counter)) /\ Len(vals) \in Nat
  BY DEF TablesOK
<1>2. S \in SUBSET (Nat \ {0}) /\ S # {}
  BY <1>1
<1>3. \E k \in S : \A m \in 1 .. k - 1 : m \notin S
  <2> HIDE DEF S
  <2> QED
    BY <1>2, FirstPlace
<1>4. \E k \in 1 .. Len(vals) : vals[k].num = num /\ \A m \in 1 .. k - 1 : vals[m].num # num
  BY <1>1, <1>3
<1>5. f \in 1 .. Len(vals) /\ vals[f].num = num
  BY <1>4 DEF FirstEntry
<1>6. get_value_for_number(l, num) = vals[f].val
  BY DEF get_value_for_number
<1> HIDE DEF f
<1> QED
  BY <1>5, <1>6

-----------------------------------------------------------------------------

(* A struct with other tables. *)
Struct(vals, adds, counter) ==
    [number_for_value |-> vals, number_for_add |-> adds, counter |-> counter]

NewValues(l, new) == [l EXCEPT !.number_for_value = new]
NewPair(l, new, c) == [l EXCEPT !.number_for_value = new, !.counter = c]
NewAddition(l, new, c) == [l EXCEPT !.number_for_add = new, !.counter = c]

LEMMA OtherTables ==
    ASSUME NEW l, NEW v, NEW a, NEW k, l = Struct(v, a, k), NEW new, NEW c
    PROVE  /\ NewPair(l, new, c) = Struct(new, a, c)
           /\ NewAddition(l, new, c) = Struct(v, new, c)
<1>1. [l EXCEPT !.number_for_value = new] = Struct(new, a, k)
  BY SMT DEF Struct
<1>2. [l EXCEPT !.number_for_add = new] = Struct(v, new, k)
  BY SMT DEF Struct
<1>3. [l EXCEPT !.number_for_value = new, !.counter = c]
          = [[l EXCEPT !.number_for_value = new] EXCEPT !.counter = c]
  BY SMT DEF Struct
<1>4. [l EXCEPT !.number_for_add = new, !.counter = c]
          = [[l EXCEPT !.number_for_add = new] EXCEPT !.counter = c]
  BY SMT DEF Struct
<1>5. \A f : f = Struct(new, a, k) => [f EXCEPT !.counter = c] = Struct(new, a, c)
  BY SMT DEF Struct
<1>6. \A f : f = Struct(v, new, k) => [f EXCEPT !.counter = c] = Struct(v, new, c)
  BY SMT DEF Struct
<1>7. [[l EXCEPT !.number_for_value = new] EXCEPT !.counter = c] = Struct(new, a, c)
  BY <1>1, <1>5, Zenon
<1>8. [[l EXCEPT !.number_for_add = new] EXCEPT !.counter = c] = Struct(v, new, c)
  BY <1>2, <1>6, Zenon
<1>9. NewPair(l, new, c) = Struct(new, a, c)
  BY <1>3, <1>7, Zenon DEF NewPair
<1>10. NewAddition(l, new, c) = Struct(v, new, c)
  BY <1>4, <1>8, Zenon DEF NewAddition
<1> QED
  BY <1>9, <1>10

LEMMA OtherValues ==
    ASSUME NEW l, NEW v, NEW a, NEW k, l = Struct(v, a, k), NEW new
    PROVE  NewValues(l, new) = Struct(new, a, k)
BY SMT DEF NewValues, Struct

(* The pairs and additions of a table stay what they are as numbers are added. *)
LEMMA MoreNumbers ==
    ASSUME NEW l, TablesOK(l), NEW c \in Nat, l.counter <= c
    PROVE  /\ l.number_for_value \in Seq(Pair(c)) /\ l.number_for_add \in Seq(Addition(c))
           /\ \A m \in 1 .. Len(l.number_for_value) :
                 /\ l.number_for_value[m].num \in 1 .. l.counter
                 /\ l.number_for_value[m].val \in Value
           /\ \A m \in 1 .. Len(l.number_for_add) :
                 /\ l.number_for_add[m].num \in 1 .. l.counter
                 /\ l.number_for_add[m].lnum \in 1 .. l.counter
                 /\ l.number_for_add[m].rnum \in 1 .. l.counter
<1>1. /\ l.number_for_value \in Seq(Pair(l.counter)) /\ l.counter \in Nat
      /\ l.number_for_add \in Seq(Addition(l.counter))
  BY DEF TablesOK
<1>2. 1 .. l.counter \subseteq 1 .. c
  BY <1>1
<1>3. Pair(l.counter) \subseteq Pair(c) /\ Addition(l.counter) \subseteq Addition(c)
  BY <1>2 DEF Pair, Addition
<1>4. \A m \in 1 .. Len(l.number_for_value) : l.number_for_value[m] \in Pair(l.counter)
  BY <1>1
<1>5. \A m \in 1 .. Len(l.number_for_add) : l.number_for_add[m] \in Addition(l.counter)
  BY <1>1
<1>6. ASSUME NEW P, NEW Q, P \subseteq Q, NEW q \in Seq(P) PROVE q \in Seq(Q)
  BY <1>6
<1>7. l.number_for_value \in Seq(Pair(c)) /\ l.number_for_add \in Seq(Addition(c))
  BY <1>1, <1>3, <1>6
<1>8. \A m \in 1 .. Len(l.number_for_value) :
         l.number_for_value[m].num \in 1 .. l.counter /\ l.number_for_value[m].val \in Value
  BY <1>4 DEF Pair
<1>9. \A m \in 1 .. Len(l.number_for_add) :
         /\ l.number_for_add[m].num \in 1 .. l.counter
         /\ l.number_for_add[m].lnum \in 1 .. l.counter
         /\ l.number_for_add[m].rnum \in 1 .. l.counter
  BY <1>5 DEF Addition
<1> QED
  BY <1>7, <1>8, <1>9

(* get_number_for_value_or_create. *)
LEMMA NumberGiven ==
    ASSUME NEW l, TablesOK(l), NEW T, NEW env, Meaning(l, T, env), NEW val, Named(val)
    PROVE  LET l2 == WithNumber(l, val)
           IN  /\ TablesOK(l2) /\ HasNumber(l2, val)
               /\ \A w : HasNumber(l, w) => HasNumber(l2, w)
               /\ \E U : Meaning(l2, U, env)
<1>1. CASE HasNumber(l, val)
  BY <1>1 DEF WithNumber
<1>2. CASE ~HasNumber(l, val)
  <2> DEFINE vals == l.number_for_value
             adds == l.number_for_add
             c == l.counter
             e == [val |-> val, num |-> c + 1]
             new == Append(vals, e)
             l2 == Struct(new, adds, c + 1)
             U == [k \in 1 .. c + 1 |-> IF k <= c THEN T[k] ELSE <<val>>]
  <2>1. WithNumber(l, val) = l2
    <3> HIDE DEF new, vals, adds, c
    <3>1. l = Struct(vals, adds, c)
      BY DEF TablesOK, Struct, vals, adds, c
    <3>2. NewPair(l, new, c + 1) = l2
      BY <3>1, OtherTables
    <3> USE DEF new, vals, adds, c
    <3> QED
      BY <1>2, <3>2, Zenon DEF WithNumber, FreshNumber, NewPair, e
  <2>2. c \in Nat /\ c + 1 \in Nat /\ c <= c + 1 /\ vals \in Seq(Pair(c)) /\ Len(vals) \in Nat
    BY DEF TablesOK
  <2>3. vals \in Seq(Pair(c + 1)) /\ adds \in Seq(Addition(c + 1))
    BY <2>2, MoreNumbers
  <2>4. e \in Pair(c + 1)
    BY <2>2 DEF Pair, Named
  <2>5. /\ new \in Seq(Pair(c + 1)) /\ Len(new) = Len(vals) + 1
        /\ \A k \in 1 .. Len(vals) : new[k] = vals[k]
        /\ new[Len(vals) + 1] = e /\ e.val = val /\ e.num = c + 1
    <3> HIDE DEF e
    <3>1. /\ new \in Seq(Pair(c + 1)) /\ Len(new) = Len(vals) + 1
          /\ \A k \in 1 .. Len(vals) : new[k] = vals[k]
          /\ new[Len(vals) + 1] = e
      BY <2>3, <2>4, AppendIs
    <3> QED
      BY <3>1 DEF e
  <2>6. /\ l2.number_for_value = new /\ l2.number_for_add = adds /\ l2.counter = c + 1
        /\ l2 = Struct(l2.number_for_value, l2.number_for_add, l2.counter)
    BY DEF Struct
  <2> HIDE DEF l2, new, e
  <2>7. \A k \in 1 .. Len(new) : k \in 1 .. Len(vals) \/ k = Len(vals) + 1
    BY <2>2, <2>5
  <2>8. \A k \in 1 .. Len(vals) : k \in 1 .. Len(new) /\ vals[k].val # val
    BY <1>2, <2>2, <2>5 DEF HasNumber
  <2>9. TablesOK(l2)
    <3>1. ASSUME NEW j \in 1 .. Len(new), NEW k \in 1 .. Len(new), new[j].val = new[k].val
          PROVE  j = k
      <4>1. \A a, b \in 1 .. Len(vals) : vals[a].val = vals[b].val => a = b
        BY DEF TablesOK
      <4> QED
        BY <2>5, <2>7, <2>8, <3>1, <4>1
    <3> QED
      BY <2>2, <2>3, <2>5, <2>6, <3>1 DEF TablesOK, Struct
  <2>10. Len(vals) + 1 \in 1 .. Len(new)
    BY <2>2, <2>5
  <2>11. /\ HasNumber(l2, val)
         /\ \A w : HasNumber(l, w) => HasNumber(l2, w)
    BY <2>5, <2>6, <2>8, <2>10 DEF HasNumber
  <2>12. (\A k \in 1 .. c : U[k] = T[k]) /\ U[c + 1] = <<val>>
    BY <2>2
  <2> HIDE DEF U
  <2>13. \A k \in 1 .. c + 1 : k \in 1 .. c \/ k = c + 1
    BY <2>2
  <2>14. ASSUME NEW k \in 1 .. c PROVE T[k] # <<val>>
    <3>1. CASE \E m \in 1 .. Len(vals) : T[k] = <<vals[m].val>>
      BY <2>8, <3>1
    <3>2. CASE \E m \in 1 .. Len(adds) : adds[m].num = k
      <4>1. PICK m \in 1 .. Len(adds) : adds[m].num = k
        BY <3>2
      <4>2. T[k] = <<T[adds[m].lnum], T[adds[m].rnum]>>
        BY <4>1 DEF Meaning
      <4>3. \A a, b : <<a, b>> # <<val>>
        OBVIOUS
      <4> QED
        BY <4>2, <4>3, Zenon
    <3> QED
      BY <3>1, <3>2 DEF Meaning
  <2>15. /\ \A m \in 1 .. Len(vals) : vals[m].num \in 1 .. c
         /\ \A m \in 1 .. Len(adds) : /\ adds[m].num \in 1 .. c
                                      /\ adds[m].lnum \in 1 .. c /\ adds[m].rnum \in 1 .. c
    BY <2>2, MoreNumbers
  <2>16. ValueIn(env, val) = <<val>>
    <3>1. CASE val.kind = "VAL_REG"
      <4>1. val = val_reg(val.num) /\ val.num \in Registers
        BY <3>1 DEF Named, Value, val_reg
      <4> QED
        BY <1>2, <3>1, <4>1 DEF Meaning, ValueIn
    <3>2. CASE val.kind # "VAL_REG"
      BY <3>2 DEF ValueIn
    <3> QED
      BY <3>1, <3>2
  <2>17. Meaning(l2, U, env)
    <3>1. \A j, k \in 1 .. c + 1 : U[j] = U[k] => j = k
      BY <2>12, <2>13, <2>14, ZenonT(40) DEF Meaning
    <3>2. \A m \in 1 .. Len(new) : U[new[m].num] = ValueIn(env, new[m].val)
      <4>1. U[e.num] = ValueIn(env, e.val)
        BY <2>5, <2>12, <2>16
      <4>2. \A m \in 1 .. Len(vals) : U[new[m].num] = ValueIn(env, new[m].val)
        BY <2>5, <2>12, <2>15, SMTT(30) DEF Meaning
      <4> QED
        BY <2>5, <2>7, <4>1, <4>2
    <3>3. \A m \in 1 .. Len(adds) : U[adds[m].num] = <<U[adds[m].lnum], U[adds[m].rnum]>>
      BY <2>12, <2>15 DEF Meaning
    <3>4. ASSUME NEW k \in 1 .. c + 1
          PROVE  \/ \E m \in 1 .. Len(new) : U[k] = <<new[m].val>>
                 \/ \E m \in 1 .. Len(adds) : adds[m].num = k
      BY <2>5, <2>8, <2>10, <2>12, <2>13, SMTT(30) DEF Meaning
    <3>5. \A m \in 1 .. Len(new) : Named(new[m].val)
      BY <2>5, <2>7 DEF Meaning
    <3>6. \A r \in Registers : HasNumber(l2, val_reg(r)) \/ env[r] = <<val_reg(r)>>
      BY <2>11 DEF Meaning
    <3> QED
      BY <2>6, <3>1, <3>2, <3>3, <3>4, <3>5, <3>6, ZenonT(40) DEF Meaning
  <2> QED
    BY <2>1, <2>9, <2>11, <2>17
<1> QED
  BY <1>1, <1>2

(* An addition that is not known gets a number of its own. *)
LEMMA AdditionGiven ==
    ASSUME NEW l, TablesOK(l), NEW T, NEW env, Meaning(l, T, env),
           NEW lnum \in 1 .. l.counter, NEW rnum \in 1 .. l.counter, ~HasAdd(l, lnum, rnum)
    PROVE  LET l2 == WithAdd(l, lnum, rnum)
           IN  /\ TablesOK(l2) /\ FreshNumber(l) = l2.counter /\ l2.counter \in 1 .. l2.counter
               /\ \E U : Meaning(l2, U, env) /\ U[l2.counter] = <<T[lnum], T[rnum]>>
<1> DEFINE vals == l.number_for_value
           adds == l.number_for_add
           c == l.counter
           e == [lnum |-> lnum, rnum |-> rnum, num |-> c + 1]
           new == Append(adds, e)
           l2 == Struct(vals, new, c + 1)
           U == [k \in 1 .. c + 1 |-> IF k <= c THEN T[k] ELSE <<T[lnum], T[rnum]>>]
<1>1. WithAdd(l, lnum, rnum) = l2
  <2> HIDE DEF new, vals, adds, c
  <2>1. l = Struct(vals, adds, c)
    BY DEF TablesOK, Struct, vals, adds, c
  <2>2. NewAddition(l, new, c + 1) = l2
    BY <2>1, OtherTables
  <2> USE DEF new, vals, adds, c
  <2> QED
    BY <2>2, Zenon DEF WithAdd, FreshNumber, NewAddition, e
<1>2. c \in Nat /\ c + 1 \in Nat /\ c <= c + 1 /\ adds \in Seq(Addition(c)) /\ Len(adds) \in Nat
  BY DEF TablesOK
<1>3. vals \in Seq(Pair(c + 1)) /\ adds \in Seq(Addition(c + 1))
  BY <1>2, MoreNumbers
<1>4. e \in Addition(c + 1)
  BY <1>2, SMTT(30) DEF Addition
<1>5. /\ new \in Seq(Addition(c + 1)) /\ Len(new) = Len(adds) + 1
      /\ \A k \in 1 .. Len(adds) : new[k] = adds[k]
      /\ new[Len(adds) + 1] = e /\ e.lnum = lnum /\ e.rnum = rnum /\ e.num = c + 1
  <2> HIDE DEF e
  <2>1. /\ new \in Seq(Addition(c + 1)) /\ Len(new) = Len(adds) + 1
        /\ \A k \in 1 .. Len(adds) : new[k] = adds[k]
        /\ new[Len(adds) + 1] = e
    BY <1>3, <1>4, AppendIs
  <2> QED
    BY <2>1 DEF e
<1>6. /\ l2.number_for_value = vals /\ l2.number_for_add = new /\ l2.counter = c + 1
      /\ l2 = Struct(l2.number_for_value, l2.number_for_add, l2.counter)
  BY DEF Struct
<1> HIDE DEF l2, new, e
<1>7. /\ \A k \in 1 .. Len(new) : k \in 1 .. Len(adds) \/ k = Len(adds) + 1
      /\ \A k \in 1 .. Len(adds) : k \in 1 .. Len(new)
      /\ Len(adds) + 1 \in 1 .. Len(new)
      /\ \A k \in 1 .. c + 1 : k \in 1 .. c \/ k = c + 1
  BY <1>2, <1>5
<1>8. TablesOK(l2)
  BY <1>2, <1>3, <1>5, <1>6 DEF TablesOK, Struct
<1>9. (\A k \in 1 .. c : U[k] = T[k]) /\ U[c + 1] = <<T[lnum], T[rnum]>>
  BY <1>2
<1> HIDE DEF U
<1>10. ASSUME NEW k \in 1 .. c, T[k] = <<T[lnum], T[rnum]>> PROVE FALSE
  <2>1. CASE \E m \in 1 .. Len(vals) : T[k] = <<vals[m].val>>
    <3>1. \A a, b, v : <<a, b>> # <<v>>
      OBVIOUS
    <3> QED
      BY <1>10, <2>1, <3>1, Zenon
  <2>2. CASE \E m \in 1 .. Len(adds) : adds[m].num = k
    <3>1. PICK m \in 1 .. Len(adds) : adds[m].num = k
      BY <2>2
    <3>2. T[k] = <<T[adds[m].lnum], T[adds[m].rnum]>>
      BY <3>1 DEF Meaning
    <3>3. ASSUME NEW a, NEW b, NEW d, NEW f, <<a, b>> = <<d, f>> PROVE a = d /\ b = f
      BY <3>3
    <3>4. T[adds[m].lnum] = T[lnum] /\ T[adds[m].rnum] = T[rnum]
      <4>1. <<T[adds[m].lnum], T[adds[m].rnum]>> = <<T[lnum], T[rnum]>>
        BY <1>10, <3>2, Zenon
      <4> QED
        BY <3>3, <4>1
    <3>5. adds[m].lnum \in 1 .. c /\ adds[m].rnum \in 1 .. c
      BY <1>2, MoreNumbers
    <3>6. adds[m].lnum = lnum /\ adds[m].rnum = rnum
      BY <3>4, <3>5 DEF Meaning
    <3> QED
      BY <3>6 DEF HasAdd, SameAdd
  <2> QED
    BY <2>1, <2>2 DEF Meaning
<1>11. /\ \A m \in 1 .. Len(vals) : vals[m].num \in 1 .. c
       /\ \A m \in 1 .. Len(adds) : /\ adds[m].num \in 1 .. c
                                    /\ adds[m].lnum \in 1 .. c /\ adds[m].rnum \in 1 .. c
  BY <1>2, MoreNumbers
<1>12. Meaning(l2, U, env)
  <2>1. \A j, k \in 1 .. c + 1 : U[j] = U[k] => j = k
    BY <1>7, <1>9, <1>10, SMTT(30) DEF Meaning
  <2>2. \A m \in 1 .. Len(vals) : U[vals[m].num] = ValueIn(env, vals[m].val)
    BY <1>9, <1>11 DEF Meaning
  <2>3. \A m \in 1 .. Len(new) : U[new[m].num] = <<U[new[m].lnum], U[new[m].rnum]>>
    <3>1. U[e.num] = <<U[e.lnum], U[e.rnum]>>
      BY <1>5, <1>9
    <3>2. \A m \in 1 .. Len(adds) : U[new[m].num] = <<U[new[m].lnum], U[new[m].rnum]>>
      <4> SUFFICES ASSUME NEW m \in 1 .. Len(adds)
                   PROVE  U[new[m].num] = <<U[new[m].lnum], U[new[m].rnum]>>
        OBVIOUS
      <4>1. T[adds[m].num] = <<T[adds[m].lnum], T[adds[m].rnum]>>
        BY DEF Meaning
      <4>2. /\ U[adds[m].num] = T[adds[m].num] /\ U[adds[m].lnum] = T[adds[m].lnum]
            /\ U[adds[m].rnum] = T[adds[m].rnum] /\ new[m] = adds[m]
        BY <1>5, <1>9, <1>11
      <4> QED
        BY <4>1, <4>2, Zenon
    <3> QED
      BY <1>5, <1>7, <3>1, <3>2
  <2>4. ASSUME NEW k \in 1 .. c + 1
        PROVE  \/ \E m \in 1 .. Len(vals) : U[k] = <<vals[m].val>>
               \/ \E m \in 1 .. Len(new) : new[m].num = k
    <3>1. CASE k \in 1 .. c
      <4>1. \/ \E m \in 1 .. Len(vals) : T[k] = <<vals[m].val>>
            \/ \E m \in 1 .. Len(adds) : adds[m].num = k
        BY <3>1 DEF Meaning
      <4>2. U[k] = T[k]
        BY <1>9, <3>1
      <4>3. \A m \in 1 .. Len(adds) : m \in 1 .. Len(new) /\ new[m] = adds[m]
        BY <1>5, <1>7
      <4> QED
        BY <4>1, <4>2, <4>3, Zenon
    <3>2. CASE k = c + 1
      <4>1. Len(adds) + 1 \in 1 .. Len(new) /\ new[Len(adds) + 1].num = k
        BY <1>2, <1>5, <3>2
      <4> QED
        BY <4>1, Zenon
    <3> QED
      BY <1>2, <3>1, <3>2
  <2>5. \A m \in 1 .. Len(vals) : Named(vals[m].val)
    BY DEF Meaning
  <2>6. \A r \in Registers : HasNumber(l2, val_reg(r)) \/ env[r] = <<val_reg(r)>>
    BY <1>6 DEF Meaning, HasNumber
  <2> QED
    BY <1>6, <2>1, <2>2, <2>3, <2>4, <2>5, <2>6 DEF Meaning
<1>13. FreshNumber(l) = l2.counter /\ l2.counter \in 1 .. l2.counter
  BY <1>2, <1>6 DEF FreshNumber
<1> QED
  BY <1>1, <1>6, <1>8, <1>9, <1>12, <1>13

-----------------------------------------------------------------------------

(* An element of a sequence replaced, and the number of a pair. *)
Replaced(q, k, e) == [q EXCEPT ![k] = e]
Renumbered(e, num) == [e EXCEPT !.num = num]

LEMMA ReplacedIs ==
    ASSUME NEW S, NEW q \in Seq(S), NEW k \in 1 .. Len(q), NEW e \in S
    PROVE  /\ Replaced(q, k, e) \in Seq(S) /\ Len(Replaced(q, k, e)) = Len(q)
           /\ \A m \in 1 .. Len(q) : m # k => Replaced(q, k, e)[m] = q[m]
           /\ Replaced(q, k, e)[k] = e
BY DEF Replaced

LEMMA RenumberedIs ==
    ASSUME NEW c, NEW e \in Pair(c), NEW num \in 1 .. c
    PROVE  /\ Renumbered(e, num) \in Pair(c)
           /\ Renumbered(e, num).val = e.val /\ Renumbered(e, num).num = num
BY DEF Renumbered, Pair

(* set_number_for_value_or_create makes l2 of l: the value has the number, *)
(* the others keep theirs.                                                 *)
NumberIsSet(l, l2, val, num) ==
    LET vals == l.number_for_value
        new == l2.number_for_value
    IN  /\ TablesOK(l2) /\ l2.counter = l.counter
        /\ l2.number_for_add = l.number_for_add
        /\ \A m \in 1 .. Len(new) :
              \/ new[m].val = val /\ new[m].num = num
              \/ new[m].val # val /\ m \in 1 .. Len(vals) /\ new[m] = vals[m]
        /\ \E m \in 1 .. Len(new) : new[m].val = val
        /\ \A m \in 1 .. Len(vals) : m \in 1 .. Len(new) /\ new[m].val = vals[m].val

LEMMA SetIs ==
    ASSUME NEW l, TablesOK(l), NEW val \in Value, NEW num \in 1 .. l.counter
    PROVE  NumberIsSet(l, set_number_for_value_or_create(l, val, num), val, num)
<1> DEFINE vals == l.number_for_value
           adds == l.number_for_add
           c == l.counter
           l2 == set_number_for_value_or_create(l, val, num)
<1>1. /\ l = Struct(vals, adds, c) /\ c \in Nat /\ vals \in Seq(Pair(c)) /\ Len(vals) \in Nat
      /\ adds \in Seq(Addition(c))
      /\ \A j, k \in 1 .. Len(vals) : vals[j].val = vals[k].val => j = k
  BY DEF TablesOK, Struct
<1>2. ASSUME NEW new \in Seq(Pair(c)), l2 = Struct(new, adds, c),
             \A m \in 1 .. Len(new) :
                \/ new[m].val = val /\ new[m].num = num
                \/ new[m].val # val /\ m \in 1 .. Len(vals) /\ new[m] = vals[m],
             \A m, k \in 1 .. Len(new) : new[m].val = val /\ new[k].val = val => m = k,
             \E m \in 1 .. Len(new) : new[m].val = val,
             \A m \in 1 .. Len(vals) : m \in 1 .. Len(new) /\ new[m].val = vals[m].val
      PROVE  /\ TablesOK(l2) /\ l2.counter = c /\ l2.number_for_add = adds
             /\ l2.number_for_value = new
  <2> HIDE DEF l2, vals, adds, c
  <2>1. l2.counter = c /\ l2.number_for_add = adds /\ l2.number_for_value = new
    BY <1>2 DEF Struct
  <2>2. \A j, k \in 1 .. Len(new) : new[j].val = new[k].val => j = k
    BY <1>1, <1>2
  <2>3. l2 = Struct(l2.number_for_value, l2.number_for_add, l2.counter)
    BY <1>2, <2>1, Zenon
  <2> QED
    BY <1>1, <2>1, <2>2, <2>3 DEF TablesOK, Struct
<1>3. CASE HasNumber(l, val)
  <2> DEFINE k == EntryOf(l, val)
             e == Renumbered(vals[k], num)
             new == Replaced(vals, k, e)
  <2>1. k \in 1 .. Len(vals) /\ vals[k].val = val
    BY <1>3, EntryFound
  <2>2. vals[k] \in Pair(c)
    BY <1>1, <2>1
  <2>3. e \in Pair(c) /\ e.val = val /\ e.num = num
    <3>1. \A p \in Pair(c) : Renumbered(p, num) \in Pair(c) /\ Renumbered(p, num).val = p.val
                             /\ Renumbered(p, num).num = num
      BY RenumberedIs
    <3> QED
      BY <2>1, <2>2, <3>1
  <2>4. l2 = NewValues(l, new)
    BY <1>3, Zenon DEF set_number_for_value_or_create, NewValues, Replaced, Renumbered
  <2> HIDE DEF k, e
  <2>5. /\ new \in Seq(Pair(c)) /\ Len(new) = Len(vals)
        /\ \A m \in 1 .. Len(vals) : m # k => new[m] = vals[m]
      /\ new[k] = e
    <3> HIDE DEF vals, c
    <3> QED
      BY <1>1, <2>1, <2>3, ReplacedIs
  <2> HIDE DEF l2, new, vals, adds, c
  <2>6. l2 = Struct(new, adds, c)
    BY <1>1, <2>4, OtherValues
  <2>7. \A m \in 1 .. Len(new) : \/ m = k /\ new[m].val = val /\ new[m].num = num
                                 \/ m # k /\ new[m].val # val /\ m \in 1 .. Len(vals)
                                    /\ new[m] = vals[m]
    BY <1>1, <2>1, <2>3, <2>5
  <2>8. \A m \in 1 .. Len(vals) : m \in 1 .. Len(new) /\ new[m].val = vals[m].val
    BY <2>1, <2>3, <2>5
  <2>9. /\ \A m \in 1 .. Len(new) : \/ new[m].val = val /\ new[m].num = num
                                    \/ new[m].val # val /\ m \in 1 .. Len(vals)
                                       /\ new[m] = vals[m]
        /\ \A m, j \in 1 .. Len(new) : new[m].val = val /\ new[j].val = val => m = j
        /\ \E m \in 1 .. Len(new) : new[m].val = val
    BY <2>1, <2>7, <2>8
  <2>10. TablesOK(l2) /\ l2.counter = c /\ l2.number_for_add = adds /\ l2.number_for_value = new
    BY <1>2, <2>5, <2>6, <2>8, <2>9
  <2> QED
    BY <2>8, <2>9, <2>10 DEF NumberIsSet, l2, vals, adds, c
<1>4. CASE ~HasNumber(l, val)
  <2> DEFINE e == [val |-> val, num |-> num]
             new == Append(vals, e)
  <2>1. l2 = NewValues(l, new)
    BY <1>4, Zenon DEF set_number_for_value_or_create, NewValues
  <2>2. e \in Pair(c) /\ e.val = val /\ e.num = num
    BY DEF Pair
  <2> HIDE DEF e
  <2>3. /\ new \in Seq(Pair(c)) /\ Len(new) = Len(vals) + 1 /\ new[Len(vals) + 1] = e
        /\ \A m \in 1 .. Len(vals) : new[m] = vals[m]
    BY <1>1, <2>2, AppendIs
  <2>4. \A m \in 1 .. Len(vals) : vals[m].val # val
    BY <1>4 DEF HasNumber
  <2> HIDE DEF l2, new, vals, adds, c
  <2>5. l2 = Struct(new, adds, c)
    BY <1>1, <2>1, OtherValues
  <2>6. /\ \A m \in 1 .. Len(new) : m \in 1 .. Len(vals) \/ m = Len(vals) + 1
        /\ \A m \in 1 .. Len(vals) : m \in 1 .. Len(new)
        /\ Len(vals) + 1 \in 1 .. Len(new)
    BY <1>1, <2>3
  <2>7. /\ \A m \in 1 .. Len(new) : \/ new[m].val = val /\ new[m].num = num
                                    \/ new[m].val # val /\ m \in 1 .. Len(vals)
                                       /\ new[m] = vals[m]
        /\ \A m, j \in 1 .. Len(new) : new[m].val = val /\ new[j].val = val => m = j
        /\ \E m \in 1 .. Len(new) : new[m].val = val
        /\ \A m \in 1 .. Len(vals) : m \in 1 .. Len(new) /\ new[m].val = vals[m].val
    BY <2>2, <2>3, <2>4, <2>6
  <2>8. TablesOK(l2) /\ l2.counter = c /\ l2.number_for_add = adds /\ l2.number_for_value = new
    BY <1>2, <2>3, <2>5, <2>7
  <2> QED
    BY <2>7, <2>8 DEF NumberIsSet, l2, vals, adds, c
<1> QED
  BY <1>3, <1>4

(* The register is written with the term of its new number. *)
LEMMA NumberSet ==
    ASSUME NEW l, TablesOK(l), NEW T, NEW env, Meaning(l, T, env), IsEnv(env),
           NEW reg \in Registers, NEW num \in 1 .. l.counter
    PROVE  LET l2 == set_number_for_value_or_create(l, val_reg(reg), num)
           IN  /\ TablesOK(l2)
               /\ \E k \in 1 .. Len(l2.number_for_value) : l2.number_for_value[k].num = num
               /\ Meaning(l2, T, [env EXCEPT ![reg] = T[num]])
<1> DEFINE l2 == set_number_for_value_or_create(l, val_reg(reg), num)
           vals == l.number_for_value
           adds == l.number_for_add
           new == l2.number_for_value
           env2 == [env EXCEPT ![reg] = T[num]]
<1>1. val_reg(reg) \in Value /\ Named(val_reg(reg)) /\ val_reg(reg).kind = "VAL_REG"
      /\ val_reg(reg).num = reg
  BY RegistersAssumption DEF Value, val_reg, Named
<1>2. /\ TablesOK(l2) /\ l2.counter = l.counter
      /\ l2.number_for_add = adds
      /\ \A m \in 1 .. Len(new) :
            \/ new[m].val = val_reg(reg) /\ new[m].num = num
            \/ new[m].val # val_reg(reg) /\ m \in 1 .. Len(vals) /\ new[m] = vals[m]
      /\ \E m \in 1 .. Len(new) : new[m].val = val_reg(reg)
      /\ \A m \in 1 .. Len(vals) : m \in 1 .. Len(new) /\ new[m].val = vals[m].val
  <2>1. NumberIsSet(l, l2, val_reg(reg), num)
    BY <1>1, SetIs, Zenon
  <2> HIDE DEF l2
  <2> QED
    BY <2>1, Zenon DEF NumberIsSet
<1>3. env2[reg] = T[num] /\ \A r \in Registers \ {reg} : env2[r] = env[r]
  BY DEF IsEnv
<1> HIDE DEF l2, env2
<1>4. \A m \in 1 .. Len(new) : Named(new[m].val)
  BY <1>1, <1>2 DEF Meaning
<1>5. ASSUME NEW v, Named(v), v # val_reg(reg) PROVE ValueIn(env2, v) = ValueIn(env, v)
  <2>1. CASE v.kind = "VAL_REG"
    <3>1. v = val_reg(v.num) /\ v.num \in Registers
      BY <1>5, <2>1 DEF Named, Value, val_reg
    <3> QED
      BY <1>3, <1>5, <2>1, <3>1 DEF ValueIn
  <2>2. CASE v.kind # "VAL_REG"
    BY <2>2 DEF ValueIn
  <2> QED
    BY <2>1, <2>2
<1>6. \A m \in 1 .. Len(new) : T[new[m].num] = ValueIn(env2, new[m].val)
  <2> SUFFICES ASSUME NEW m \in 1 .. Len(new) PROVE T[new[m].num] = ValueIn(env2, new[m].val)
    OBVIOUS
  <2>1. CASE new[m].val = val_reg(reg)
    BY <1>1, <1>2, <1>3, <2>1 DEF ValueIn
  <2>2. CASE new[m].val # val_reg(reg)
    <3>1. m \in 1 .. Len(vals) /\ new[m] = vals[m]
      BY <1>2, <2>2
    <3>2. T[vals[m].num] = ValueIn(env, vals[m].val)
      BY <3>1 DEF Meaning
    <3> QED
      BY <1>4, <1>5, <2>2, <3>1, <3>2
  <2> QED
    BY <2>1, <2>2
<1>7. \A k \in 1 .. l.counter : \/ \E m \in 1 .. Len(new) : T[k] = <<new[m].val>>
                                \/ \E m \in 1 .. Len(adds) : adds[m].num = k
  BY <1>2 DEF Meaning
<1>8. \A r \in Registers : HasNumber(l2, val_reg(r)) \/ env2[r] = <<val_reg(r)>>
  <2> SUFFICES ASSUME NEW r \in Registers, ~HasNumber(l2, val_reg(r))
               PROVE  env2[r] = <<val_reg(r)>>
    OBVIOUS
  <2>1. r # reg
    BY <1>2 DEF HasNumber
  <2>2. ~HasNumber(l, val_reg(r))
    BY <1>2 DEF HasNumber
  <2>3. env[r] = <<val_reg(r)>>
    BY <2>2 DEF Meaning
  <2> QED
    BY <1>3, <2>1, <2>3
<1>9. Meaning(l2, T, env2)
  BY <1>2, <1>4, <1>6, <1>7, <1>8, ZenonT(40) DEF Meaning
<1>10. \E k \in 1 .. Len(new) : new[k].num = num
  BY <1>2
<1> QED
  BY <1>2, <1>9, <1>10 DEF l2, env2

-----------------------------------------------------------------------------

(* The registers the instructions name, also the rewritten ones. *)
ProgramNamed ==
    \A b \in 1 .. Len(bbs) : \A k \in 1 .. Len(bbs[b]) :
        RegsRead(bbs[b][k]) \union RegsWritten(bbs[b][k]) \subseteq Registers

ValuesInv ==
    /\ bbs \in Seq(Seq(Instruction))
    /\ bb \in 1 .. Len(bbs) + 1
    /\ n \in Nat \ {0}
    /\ TablesOK(lvn)
    /\ ProgramNamed
    /\ IsEnv(before) /\ IsEnv(after)
    /\ \E T : Meaning(lvn, T, before)
    /\ ValuesKept

(* What a definition names. *)
LEMMA DefinitionNames ==
    ASSUME NEW inst \in Instruction, inst.kind = "DEF",
           RegsRead(inst) \union RegsWritten(inst) \subseteq Registers
    PROVE  /\ inst = def(inst.reg, inst.op) /\ inst.reg \in Registers
           /\ inst.op \in Operation /\ Named(inst.op.lhs)
           /\ inst.op.kind = "OP_ADD" => Named(inst.op.rhs)
           /\ inst.op.kind \in {"OP_SIMPLE", "OP_ADD"}
<1>1. inst \in [kind : {"DEF"}, reg : Nat, op : Operation]
  BY DEF Instruction
<1>2. inst = def(inst.reg, inst.op) /\ inst.op \in Operation
  BY <1>1 DEF def
<1>3. inst.reg \in Registers
  BY DEF RegsWritten
<1>4. /\ inst.op.lhs \in Value
      /\ inst.op.kind = "OP_ADD" => inst.op.rhs \in Value
      /\ inst.op.kind \in {"OP_SIMPLE", "OP_ADD"}
  BY <1>2 DEF Operation
<1>5. ValuesRead(inst) = Operands(inst.op)
  BY DEF ValuesRead
<1>6. \A v \in Operands(inst.op) : v.kind = "VAL_REG" => v.num \in Registers
  BY <1>5 DEF RegsRead
<1> QED
  BY <1>2, <1>3, <1>4, <1>6 DEF Operands, Named

(* The instruction at hand. *)
LEMMA InstNames ==
    ASSUME ValuesInv, HasInst
    PROVE  /\ bb \in 1 .. Len(bbs) /\ bbs[bb] \in Seq(Instruction) /\ n \in 1 .. Len(bbs[bb])
           /\ Inst = bbs[bb][n] /\ Inst \in Instruction
           /\ RegsRead(Inst) \union RegsWritten(Inst) \subseteq Registers
<1>1. bb \in 1 .. Len(bbs) /\ bbs[bb] \in Seq(Instruction)
  BY DEF ValuesInv, HasInst
<1>2. n \in 1 .. Len(bbs[bb])
  BY <1>1 DEF ValuesInv, HasInst
<1> QED
  BY <1>1, <1>2 DEF ValuesInv, ProgramNamed, Inst

(* A value's term is that of its number. *)
LEMMA TermOfValue ==
    ASSUME NEW l, TablesOK(l), NEW T, NEW env, Meaning(l, T, env), NEW val, HasNumber(l, val)
    PROVE  NumberOf(l, val) \in 1 .. l.counter /\ T[NumberOf(l, val)] = ValueIn(env, val)
BY EntryFound DEF Meaning

(* op_add: both operands have numbers, with the terms they hold. *)
LEMMA OperandsNumbered ==
    ASSUME ValuesInv, IsAdd
    PROVE  /\ TablesOK(Operated)
           /\ \E T : /\ Meaning(Operated, T, before)
                     /\ Lnum \in 1 .. Operated.counter /\ Rnum \in 1 .. Operated.counter
                     /\ Result(before, Inst.op) = <<T[Lnum], T[Rnum]>>
<1>1. Inst \in Instruction /\ Named(Inst.op.lhs) /\ Named(Inst.op.rhs)
  BY InstNames, DefinitionNames DEF IsAdd
<1>2. PICK S : Meaning(lvn, S, before)
  BY DEF ValuesInv
<1> DEFINE l1 == WithNumber(lvn, Inst.op.lhs)
<1>3. /\ TablesOK(l1) /\ HasNumber(l1, Inst.op.lhs)
      /\ \E U : Meaning(l1, U, before)
  BY <1>1, <1>2, NumberGiven DEF ValuesInv
<1>4. PICK U : Meaning(l1, U, before)
  BY <1>3
<1>5. Operated = WithNumber(l1, Inst.op.rhs)
  BY DEF Operated
<1> HIDE DEF l1
<1>6. /\ TablesOK(Operated) /\ HasNumber(Operated, Inst.op.rhs)
      /\ HasNumber(l1, Inst.op.lhs) => HasNumber(Operated, Inst.op.lhs)
      /\ \E T : Meaning(Operated, T, before)
  BY <1>1, <1>3, <1>4, <1>5, NumberGiven
<1>7. PICK T : Meaning(Operated, T, before)
  BY <1>6
<1>8. /\ Lnum \in 1 .. Operated.counter /\ T[Lnum] = ValueIn(before, Inst.op.lhs)
      /\ Rnum \in 1 .. Operated.counter /\ T[Rnum] = ValueIn(before, Inst.op.rhs)
  BY <1>3, <1>6, <1>7, TermOfValue DEF Lnum, Rnum
<1>9. Result(before, Inst.op) = <<T[Lnum], T[Rnum]>>
  BY <1>8 DEF Result, IsAdd
<1> QED
  BY <1>6, <1>7, <1>8, <1>9

-----------------------------------------------------------------------------

LEMMA EmptyMeans == TablesOK(Empty) /\ \A T : Meaning(Empty, T, Unknown)
<1>1. /\ Empty.number_for_value = <<>> /\ Empty.number_for_add = <<>> /\ Empty.counter = 0
      /\ Empty = [number_for_value |-> Empty.number_for_value,
                  number_for_add |-> Empty.number_for_add, counter |-> Empty.counter]
  BY DEF Empty
<1>2. Len(<<>>) = 0 /\ \A S : <<>> \in Seq(S)
  OBVIOUS
<1>3. TablesOK(Empty)
  BY <1>1, <1>2 DEF TablesOK
<1>4. \A r \in Registers : Unknown[r] = <<val_reg(r)>>
  BY DEF Unknown
<1> QED
  BY <1>1, <1>2, <1>3, <1>4 DEF Meaning

LEMMA UnknownIsEnv == IsEnv(Unknown)
BY DEF IsEnv, Unknown

LEMMA Init_Values == ValuesInit => ValuesInv
<1> SUFFICES ASSUME ValuesInit PROVE ValuesInv
  OBVIOUS
<1>1. /\ bbs \in Programs /\ bb = 1 /\ n = 1 /\ lvn = Empty
      /\ before = Unknown /\ after = Unknown
  BY DEF ValuesInit, LvnInit
<1>2. bbs \in Seq(Seq(Instruction)) /\ Len(bbs) \in Nat
  BY <1>1, LvnProgramsAssumption
<1>3. ProgramNamed
  BY <1>1, RegistersAssumption DEF ProgramNamed
<1>4. bb \in 1 .. Len(bbs) + 1
  BY <1>1, <1>2
<1> QED
  BY <1>1, <1>2, <1>3, <1>4, EmptyMeans, UnknownIsEnv DEF ValuesInv, ValuesKept

(* What executing an instruction leaves of the registers. *)
LEMMA ExecutedIs ==
    ASSUME NEW env, IsEnv(env), NEW inst
    PROVE  /\ IsEnv(Executed(env, inst))
           /\ inst.kind # "DEF" => Executed(env, inst) = env
           /\ inst.kind = "DEF" =>
                 Executed(env, inst) = [env EXCEPT ![inst.reg] = Result(env, inst.op)]
BY DEF IsEnv, Executed

(* An instruction that is not rewritten does the same in both blocks. *)
LEMMA SameInstruction ==
    ASSUME ValuesInv, HasInst, Observe, UNCHANGED <<bbs, bb>>, n' = n + 1,
           TablesOK(lvn)', \E T : Meaning(lvn', T, Executed(before, Inst))
    PROVE  ValuesInv'
<1>1. /\ bb \in 1 .. Len(bbs) /\ n \in 1 .. Len(bbs[bb]) /\ Inst = bbs[bb][n]
      /\ IsEnv(before) /\ IsEnv(after) /\ ValuesKept
  BY InstNames DEF ValuesInv
<1>2. before' = Executed(before, Inst) /\ after' = Executed(after, Inst)
  BY <1>1 DEF Observe
<1>3. IsEnv(before') /\ IsEnv(after')
  BY <1>1, <1>2, ExecutedIs
<1>4. ValuesKept'
  <2> SUFFICES ASSUME \A k \in 1 .. n' - 1 : ~SelfCopy(bbs'[bb'][k]) PROVE after' = before'
    BY DEF ValuesKept, SelfCopy
  <2>1. \A k \in 1 .. n - 1 : ~SelfCopy(bbs[bb][k])
    BY <1>1
  <2>2. after = before
    BY <1>1, <2>1 DEF ValuesKept, HasInst
  <2> QED
    BY <1>2, <2>2
<1>5. ProgramNamed'
  BY DEF ValuesInv, ProgramNamed
<1>6. n' \in Nat \ {0}
  BY <1>1
<1> QED
  BY <1>2, <1>3, <1>4, <1>5, <1>6 DEF ValuesInv


(* The number of the last pair of NewAdd, RepeatedAdd and Copy is that of the *)
(* register, and its term what the instruction computes.                      *)
LEMMA RegisterNumbered ==
    ASSUME ValuesInv, HasInst, Inst.kind = "DEF",
           NEW l, TablesOK(l), NEW T, Meaning(l, T, before), NEW num \in 1 .. l.counter,
           T[num] = Result(before, Inst.op),
           lvn' = set_number_for_value_or_create(l, val_reg(Inst.reg), num)
    PROVE  /\ TablesOK(lvn)'
           /\ Meaning(lvn', T, Executed(before, Inst))
           /\ \E k \in 1 .. Len(lvn'.number_for_value) : lvn'.number_for_value[k].num = num
<1>1. Inst.reg \in Registers
  BY InstNames, DefinitionNames
<1>2. IsEnv(before)
  BY DEF ValuesInv
<1>3. Executed(before, Inst) = [before EXCEPT ![Inst.reg] = T[num]]
  <2>1. Executed(before, Inst) = [before EXCEPT ![Inst.reg] = Result(before, Inst.op)]
    BY Zenon DEF Executed
  <2> QED
    BY <2>1, Zenon
<1> DEFINE l2 == set_number_for_value_or_create(l, val_reg(Inst.reg), num)
<1>4. /\ TablesOK(l2)
      /\ \E k \in 1 .. Len(l2.number_for_value) : l2.number_for_value[k].num = num
      /\ Meaning(l2, T, [before EXCEPT ![Inst.reg] = T[num]])
  BY <1>1, <1>2, NumberSet
<1>5. lvn' = l2
  OBVIOUS
<1>6. TablesOK(lvn)' <=> TablesOK(lvn')
  BY DEF TablesOK
<1> HIDE DEF l2
<1> QED
  BY <1>3, <1>4, <1>5, <1>6

LEMMA NewAdd_Values == ValuesInv /\ NewAdd /\ Observe => ValuesInv'
<1> SUFFICES ASSUME ValuesInv, NewAdd, Observe PROVE ValuesInv'
  OBVIOUS
<1>1. /\ IsAdd /\ HasInst /\ Inst.kind = "DEF" /\ ~HasAdd(Operated, Lnum, Rnum)
      /\ lvn' = set_number_for_value_or_create(
                    WithAdd(Operated, Lnum, Rnum), val_reg(Inst.reg), FreshNumber(Operated))
      /\ n' = n + 1 /\ UNCHANGED <<bbs, bb>>
  BY DEF NewAdd, IsAdd
<1>2. TablesOK(Operated)
  BY <1>1, OperandsNumbered
<1>3. PICK T : /\ Meaning(Operated, T, before)
               /\ Lnum \in 1 .. Operated.counter /\ Rnum \in 1 .. Operated.counter
               /\ Result(before, Inst.op) = <<T[Lnum], T[Rnum]>>
  BY <1>1, OperandsNumbered
<1> DEFINE l == WithAdd(Operated, Lnum, Rnum)
<1>4. /\ TablesOK(l) /\ FreshNumber(Operated) = l.counter /\ l.counter \in 1 .. l.counter
      /\ \E U : Meaning(l, U, before) /\ U[l.counter] = <<T[Lnum], T[Rnum]>>
  BY <1>1, <1>2, <1>3, AdditionGiven
<1> HIDE DEF l
<1>5. PICK U : Meaning(l, U, before) /\ U[l.counter] = <<T[Lnum], T[Rnum]>>
  BY <1>4
<1>6. /\ U[l.counter] = Result(before, Inst.op)
      /\ lvn' = set_number_for_value_or_create(l, val_reg(Inst.reg), l.counter)
  BY <1>1, <1>3, <1>4, <1>5 DEF l
<1>7. TablesOK(lvn)' /\ Meaning(lvn', U, Executed(before, Inst))
  BY <1>1, <1>4, <1>5, <1>6, RegisterNumbered
<1> QED
  BY <1>1, <1>7, SameInstruction

(* The addition at hand made a copy. *)
Rewritten(v) == [bbs EXCEPT ![bb][n].op = op_simple(v)]

WithOp(inst, op) == [inst EXCEPT !.op = op]

LEMMA WithOpIs ==
    ASSUME NEW inst, NEW reg, NEW old, inst = def(reg, old), NEW op
    PROVE  WithOp(inst, op) = def(reg, op)
BY SMT DEF WithOp, def

LEMMA RewrittenIs ==
    ASSUME ValuesInv, HasInst, Inst.kind = "DEF", NEW v, Named(v)
    PROVE  LET p == Rewritten(v)
           IN  /\ p \in Seq(Seq(Instruction)) /\ Len(p) = Len(bbs)
               /\ p[bb][n] = def(Inst.reg, op_simple(v))
               /\ \A b \in 1 .. Len(bbs) :
                     /\ Len(p[b]) = Len(bbs[b])
                     /\ \A k \in 1 .. Len(bbs[b]) :
                           p[b][k] = bbs[b][k] \/ (b = bb /\ k = n)
<1>1. /\ bb \in 1 .. Len(bbs) /\ bbs[bb] \in Seq(Instruction) /\ n \in 1 .. Len(bbs[bb])
      /\ Inst = bbs[bb][n] /\ Inst = def(Inst.reg, Inst.op) /\ Inst \in Instruction
      /\ bbs \in Seq(Seq(Instruction)) /\ Inst.reg \in Nat
  BY InstNames, DefinitionNames, RegistersAssumption DEF ValuesInv
<1> DEFINE block == bbs[bb]
           e == WithOp(Inst, op_simple(v))
           q == Replaced(block, n, e)
           p == Replaced(bbs, bb, q)
<1>2. Rewritten(v) = p
  BY <1>1, Zenon DEF Rewritten, Replaced, WithOp
<1>3. e = def(Inst.reg, op_simple(v))
  BY <1>1, WithOpIs
<1>4. e \in Instruction
  <2>1. op_simple(v) \in Operation
    BY DEF op_simple, Operation, Named
  <2> QED
    BY <1>1, <1>3, <2>1 DEF def, Instruction
<1> HIDE DEF e
<1>5. /\ q \in Seq(Instruction) /\ Len(q) = Len(bbs[bb])
      /\ \A k \in 1 .. Len(bbs[bb]) : k # n => q[k] = bbs[bb][k]
      /\ q[n] = e
  <2>1. block \in Seq(Instruction) /\ n \in 1 .. Len(block)
    BY <1>1
  <2>2. block = bbs[bb]
    OBVIOUS
  <2> HIDE DEF block
  <2>3. q \in Seq(Instruction) /\ Len(q) = Len(block) /\ q[n] = e
    BY <1>4, <2>1, SMT DEF Replaced
  <2>4. \A k \in 1 .. Len(block) : k # n => q[k] = block[k]
    BY <1>4, <2>1, SMT DEF Replaced
  <2> QED
    BY <2>2, <2>3, <2>4
<1> HIDE DEF q
<1>6. /\ p \in Seq(Seq(Instruction)) /\ Len(p) = Len(bbs)
      /\ \A b \in 1 .. Len(bbs) : b # bb => p[b] = bbs[b]
      /\ p[bb] = q
  <2>1. \A b \in 1 .. Len(bbs) : b # bb => p[b] = bbs[b]
    BY <1>1, SMT DEF Replaced
  <2>2. p \in Seq(Seq(Instruction)) /\ Len(p) = Len(bbs) /\ p[bb] = q
    BY <1>1, <1>5, SMT DEF Replaced
  <2> QED
    BY <2>1, <2>2
<1> HIDE DEF p
<1>7. p[bb][n] = def(Inst.reg, op_simple(v))
  BY <1>1, <1>3, <1>5, <1>6
<1>8. \A b \in 1 .. Len(bbs) :
         /\ Len(p[b]) = Len(bbs[b])
         /\ \A k \in 1 .. Len(bbs[b]) : p[b][k] = bbs[b][k] \/ (b = bb /\ k = n)
  BY <1>1, <1>5, <1>6
<1> QED
  BY <1>2, <1>6, <1>7, <1>8

LEMMA RepeatedAdd_Values == ValuesInv /\ RepeatedAdd /\ Observe => ValuesInv'
<1> SUFFICES ASSUME ValuesInv, RepeatedAdd, Observe PROVE ValuesInv'
  OBVIOUS
<1> DEFINE num == AddNumberOf(Operated, Lnum, Rnum)
           v == get_value_for_number(lvn', num)
<1>1. /\ IsAdd /\ HasInst /\ Inst.kind = "DEF" /\ HasAdd(Operated, Lnum, Rnum)
      /\ lvn' = set_number_for_value_or_create(Operated, val_reg(Inst.reg), num)
      /\ bbs' = Rewritten(v)
      /\ n' = n + 1 /\ bb' = bb
  BY DEF RepeatedAdd, IsAdd, Rewritten
<1>2. TablesOK(Operated)
  BY <1>1, OperandsNumbered
<1>3. PICK T : /\ Meaning(Operated, T, before)
               /\ Lnum \in 1 .. Operated.counter /\ Rnum \in 1 .. Operated.counter
               /\ Result(before, Inst.op) = <<T[Lnum], T[Rnum]>>
  BY <1>1, OperandsNumbered
<1>4. num \in 1 .. Operated.counter /\ T[num] = Result(before, Inst.op)
  <2>1. PICK k \in 1 .. Len(Operated.number_for_add) :
           /\ Operated.number_for_add[k].lnum = Lnum /\ Operated.number_for_add[k].rnum = Rnum
           /\ num = Operated.number_for_add[k].num
           /\ num \in 1 .. Operated.counter
    BY <1>1, <1>2, AddFound
  <2>2. T[Operated.number_for_add[k].num] =
           <<T[Operated.number_for_add[k].lnum], T[Operated.number_for_add[k].rnum]>>
    BY <1>3 DEF Meaning
  <2> QED
    BY <1>3, <2>1, <2>2
<1> HIDE DEF num
<1>5. /\ TablesOK(lvn)' /\ TablesOK(lvn') /\ Meaning(lvn', T, Executed(before, Inst))
      /\ \E k \in 1 .. Len(lvn'.number_for_value) : lvn'.number_for_value[k].num = num
  <2> HIDE DEF v
  <2>1. /\ TablesOK(lvn)' /\ Meaning(lvn', T, Executed(before, Inst))
        /\ \E k \in 1 .. Len(lvn'.number_for_value) : lvn'.number_for_value[k].num = num
    BY <1>1, <1>2, <1>3, <1>4, RegisterNumbered
  <2>2. TablesOK(lvn)' <=> TablesOK(lvn')
    BY DEF TablesOK
  <2> QED
    BY <2>1, <2>2
<1>6. PICK k \in 1 .. Len(lvn'.number_for_value) :
         lvn'.number_for_value[k].num = num /\ v = lvn'.number_for_value[k].val
  BY <1>5, ValueFound
<1> HIDE DEF v
<1>7. Named(v) /\ T[num] = ValueIn(Executed(before, Inst), v)
  BY <1>5, <1>6 DEF Meaning
<1>8. /\ bb \in 1 .. Len(bbs) /\ n \in 1 .. Len(bbs[bb]) /\ Inst = bbs[bb][n]
      /\ Inst.reg \in Registers /\ IsEnv(before) /\ IsEnv(after) /\ ValuesKept
  BY <1>1, InstNames, DefinitionNames DEF ValuesInv
<1> DEFINE new == def(Inst.reg, op_simple(v))
<1>9. /\ bbs' \in Seq(Seq(Instruction)) /\ Len(bbs') = Len(bbs) /\ bbs'[bb][n] = new
      /\ \A b \in 1 .. Len(bbs) :
            /\ Len(bbs'[b]) = Len(bbs[b])
            /\ \A m \in 1 .. Len(bbs[b]) : bbs'[b][m] = bbs[b][m] \/ (b = bb /\ m = n)
  BY <1>1, <1>7, RewrittenIs
<1>10. before' = Executed(before, Inst) /\ after' = Executed(after, new)
  BY <1>1, <1>8, <1>9 DEF Observe
<1>11. new.kind = "DEF" /\ new.reg = Inst.reg /\ new.op.kind = "OP_SIMPLE" /\ new.op.lhs = v
  BY DEF def, op_simple
<1>12. RegsRead(new) \union RegsWritten(new) \subseteq Registers
  BY <1>7, <1>8, <1>11 DEF RegsRead, RegsWritten, ValuesRead, Operands, Named
<1> HIDE DEF new
<1>13. ProgramNamed'
  <2> SUFFICES ASSUME NEW b \in 1 .. Len(bbs'), NEW m \in 1 .. Len(bbs'[b])
               PROVE  RegsRead(bbs'[b][m]) \union RegsWritten(bbs'[b][m]) \subseteq Registers
    BY DEF ProgramNamed
  <2>1. b \in 1 .. Len(bbs) /\ m \in 1 .. Len(bbs[b])
    BY <1>9
  <2>2. bbs'[b][m] = bbs[b][m] \/ bbs'[b][m] = new
    BY <1>9, <2>1
  <2> QED
    BY <1>12, <2>1, <2>2 DEF ValuesInv, ProgramNamed
<1>14. IsEnv(before') /\ IsEnv(after')
  BY <1>8, <1>10, ExecutedIs
<1>15. ValuesKept'
  <2> SUFFICES ASSUME \A m \in 1 .. n' - 1 : ~SelfCopy(bbs'[bb'][m]) PROVE after' = before'
    BY DEF ValuesKept, SelfCopy
  <2>1. \A m \in 1 .. n - 1 : m \in 1 .. n' - 1 /\ bbs'[bb][m] = bbs[bb][m]
    BY <1>1, <1>8, <1>9, SMTT(30)
  <2>2. n \in 1 .. n' - 1
    BY <1>1, <1>8
  <2>3. after = before
    BY <1>1, <1>8, <2>1 DEF ValuesKept
  <2>4. v # val_reg(Inst.reg)
    BY <1>1, <1>9, <1>11, <2>2 DEF SelfCopy
  <2>5. ValueIn(before', v) = ValueIn(before, v)
    <3>1. before' = [before EXCEPT ![Inst.reg] = Result(before, Inst.op)]
      BY <1>1, <1>8, <1>10, ExecutedIs
    <3>2. \A r \in Registers \ {Inst.reg} : before'[r] = before[r]
      BY <1>8, <3>1 DEF IsEnv
    <3>3. v.kind = "VAL_REG" => v = val_reg(v.num) /\ v.num \in Registers
      BY <1>7 DEF Named, Value, val_reg
    <3> QED
      BY <2>4, <3>2, <3>3 DEF ValueIn
  <2>6. Result(after, new.op) = Result(before, Inst.op)
    BY <1>4, <1>7, <1>10, <1>11, <2>3, <2>5 DEF Result
  <2> QED
    BY <1>1, <1>10, <1>11, <2>3, <2>6 DEF Executed
<1>16. n' \in Nat \ {0} /\ bb' \in 1 .. Len(bbs') + 1
  BY <1>1, <1>8, <1>9
<1> QED
  BY <1>5, <1>9, <1>10, <1>13, <1>14, <1>15, <1>16 DEF ValuesInv

LEMMA Copy_Values == ValuesInv /\ Copy /\ Observe => ValuesInv'
<1> SUFFICES ASSUME ValuesInv, Copy, Observe PROVE ValuesInv'
  OBVIOUS
<1> DEFINE l == WithNumber(lvn, Inst.op.lhs)
           num == NumberOf(l, Inst.op.lhs)
<1>1. /\ HasInst /\ Inst.kind = "DEF" /\ Inst.op.kind = "OP_SIMPLE"
      /\ lvn' = set_number_for_value_or_create(l, val_reg(Inst.reg), num)
      /\ n' = n + 1 /\ UNCHANGED <<bbs, bb>>
  BY DEF Copy, IsCopy
<1>2. Named(Inst.op.lhs)
  BY <1>1, InstNames, DefinitionNames
<1>3. PICK S : Meaning(lvn, S, before)
  BY DEF ValuesInv
<1>4. /\ TablesOK(l) /\ HasNumber(l, Inst.op.lhs)
      /\ \E T : Meaning(l, T, before)
  BY <1>2, <1>3, NumberGiven DEF ValuesInv
<1> HIDE DEF l
<1>5. PICK T : Meaning(l, T, before)
  BY <1>4
<1>6. num \in 1 .. l.counter /\ T[num] = ValueIn(before, Inst.op.lhs)
  BY <1>4, <1>5, TermOfValue
<1>7. T[num] = Result(before, Inst.op)
  BY <1>1, <1>6 DEF Result
<1> HIDE DEF num
<1>8. TablesOK(lvn)' /\ Meaning(lvn', T, Executed(before, Inst))
  BY <1>1, <1>4, <1>5, <1>6, <1>7, RegisterNumbered
<1> QED
  BY <1>1, <1>8, SameInstruction

LEMMA SkipInst_Values == ValuesInv /\ SkipInst /\ Observe => ValuesInv'
<1> SUFFICES ASSUME ValuesInv, SkipInst, Observe PROVE ValuesInv'
  OBVIOUS
<1>1. HasInst /\ Inst.kind # "DEF" /\ n' = n + 1 /\ UNCHANGED <<bbs, bb, lvn>>
  BY DEF SkipInst
<1>2. Executed(before, Inst) = before
  BY <1>1, ExecutedIs DEF ValuesInv
<1>3. TablesOK(lvn)' /\ \E T : Meaning(lvn', T, Executed(before, Inst))
  BY <1>1, <1>2 DEF ValuesInv, TablesOK
<1> QED
  BY <1>1, <1>3, SameInstruction

LEMMA NextBlock_Values == ValuesInv /\ NextBlock /\ Observe => ValuesInv'
<1> SUFFICES ASSUME ValuesInv, NextBlock, Observe PROVE ValuesInv'
  OBVIOUS
<1>1. bb <= Len(bbs) /\ lvn' = Empty /\ bb' = bb + 1 /\ n' = 1 /\ bbs' = bbs
  BY DEF NextBlock, Cleared
<1>2. bb' \in 1 .. Len(bbs') + 1 /\ bb' # bb
  BY <1>1 DEF ValuesInv
<1>3. before' = Unknown /\ after' = Unknown
  BY <1>2 DEF Observe
<1>4. TablesOK(lvn)'
  BY <1>1, EmptyMeans DEF TablesOK
<1>5. \E T : Meaning(lvn', T, before')
  BY <1>1, <1>3, EmptyMeans
<1>6. IsEnv(before') /\ IsEnv(after') /\ ValuesKept'
  BY <1>3, UnknownIsEnv DEF ValuesKept
<1>7. ProgramNamed'
  BY <1>1 DEF ValuesInv, ProgramNamed
<1> QED
  BY <1>1, <1>2, <1>4, <1>5, <1>6, <1>7 DEF ValuesInv

LEMMA ValuesNext_Inv == ValuesInv /\ [ValuesNext]_valuesVars => ValuesInv'
<1> SUFFICES ASSUME ValuesInv, [ValuesNext]_valuesVars PROVE ValuesInv'
  OBVIOUS
<1>1. CASE NewAdd /\ Observe
  BY <1>1, NewAdd_Values
<1>2. CASE RepeatedAdd /\ Observe
  BY <1>2, RepeatedAdd_Values
<1>3. CASE Copy /\ Observe
  BY <1>3, Copy_Values
<1>4. CASE SkipInst /\ Observe
  BY <1>4, SkipInst_Values
<1>5. CASE NextBlock /\ Observe
  BY <1>5, NextBlock_Values
<1>6. CASE UNCHANGED valuesVars
  <2>1. UNCHANGED <<bbs, bb, n, lvn, before, after>>
    BY <1>6 DEF valuesVars, lvnVars
  <2>2. TablesOK(lvn)' <=> TablesOK(lvn)
    BY <2>1 DEF TablesOK
  <2>3. ProgramNamed' <=> ProgramNamed
    BY <2>1 DEF ProgramNamed
  <2>4. ValuesKept' <=> ValuesKept
    BY <2>1 DEF ValuesKept
  <2> QED
    BY <2>1, <2>2, <2>3, <2>4 DEF ValuesInv
<1> QED
  BY <1>1, <1>2, <1>3, <1>4, <1>5, <1>6, Zenon DEF ValuesNext, LvnNext

LEMMA ValuesInvariant == ValuesSpec => []ValuesInv
BY Init_Values, ValuesNext_Inv, PTL DEF ValuesSpec

(* The tables are well formed at every instruction of every program: what  *)
(* they refer to was handed out by the counter, and no value has two       *)
(* numbers (lvn.h:42-84).                                           *)
THEOREM ValuesTypeCorrect == ValuesSpec => []ValuesTypeOK
<1>1. ASSUME ValuesInv PROVE ValuesTypeOK
  <2>1. LvnTypeOK
    BY <1>1 DEF ValuesInv, TablesOK, Pair, Addition, LvnTypeOK
  <2>2. DOMAIN before = Registers /\ DOMAIN after = Registers
    BY <1>1 DEF ValuesInv, IsEnv
  <2> QED
    BY <2>1, <2>2 DEF ValuesTypeOK
<1> QED
  BY <1>1, ValuesInvariant, PTL

(* Numbers are values: two registers or immediates have the same number    *)
(* exactly when they hold the same term, also when the register that a     *)
(* number was made for has been overwritten since.                         *)
THEOREM EqualNumbersEqualValues == ValuesSpec => []NumbersAreValues
<1>1. ASSUME ValuesInv PROVE NumbersAreValues
  <2>1. TablesOK(lvn)
    BY <1>1 DEF ValuesInv
  <2>2. PICK T : Meaning(lvn, T, before)
    BY <1>1 DEF ValuesInv
  <2>3. \A k \in 1 .. Len(Values) : Values[k].num \in 1 .. lvn.counter
    <3>1. \A k \in 1 .. Len(Values) : Values[k] \in Pair(lvn.counter)
      BY <2>1 DEF TablesOK, Values
    <3> QED
      BY <3>1 DEF Pair
  <2>4. \A k \in 1 .. Len(Values) : T[Values[k].num] = ValueIn(before, Values[k].val)
    BY <2>2 DEF Meaning, Values
  <2>5. \A a, b \in 1 .. lvn.counter : T[a] = T[b] => a = b
    BY <2>2 DEF Meaning
  <2> QED
    BY <2>3, <2>4, <2>5, ZenonT(40) DEF NumbersAreValues
<1> QED
  BY <1>1, ValuesInvariant, PTL

(* A rewritten block computes in every register what the block did, up to  *)
(* the first instruction that was made a copy of a register to itself      *)
(* (lvn.h:138-143): whatever the program is, that copy is the only way in  *)
(* which the pass changes what is computed.                                *)
THEOREM RewritingKeepsValues == ValuesSpec => []ValuesKept
<1>1. ValuesInv => ValuesKept
  BY DEF ValuesInv
<1> QED
  BY <1>1, ValuesInvariant, PTL

=============================================================================

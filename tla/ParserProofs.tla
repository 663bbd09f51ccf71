---------------------------- MODULE ParserProofs ----------------------------
(***************************************************************************)
(* That a stack, a buffer and the list of a block do what a sequence would *)
(* do, whatever their elements, capacities and lengths; and then that the  *)
(* parser, which fills such lists, leaves the blocks and the graph as they *)
(* are described in the text, whatever the text.                           *)
(***************************************************************************)
EXTENDS Containers, Parser, DominanceProofs, SequenceTheorems

(* What memory holds. *)
Cells == Values \union {Junk}

(* A buffer, as a record whose length and capacity lie in its memory. *)
BufOK(b) == b \in [cap : Nat, len : Nat, data : Seq(Cells)] /\ IsBuf(b, Values)

-----------------------------------------------------------------------------
(* Buffers *)

(* The first n elements of the memory. *)
LEMMA PrefixIs ==
    ASSUME NEW S, NEW d \in Seq(S), NEW n \in 0 .. Len(d)
    PROVE  /\ SubSeq(d, 1, n) \in Seq(S)
           /\ Len(SubSeq(d, 1, n)) = n
           /\ DOMAIN SubSeq(d, 1, n) = 1 .. n
           /\ \A k \in 1 .. n : SubSeq(d, 1, n)[k] = d[k]
<1>1. Len(d) \in Nat
  OBVIOUS
<1>2. n \in Nat /\ n \in Int
  BY <1>1
<1>3. \A i \in 1 .. n : d[i] \in S
  BY <1>1, ElementOfSeq
<1>4. /\ SubSeq(d, 1, n) \in Seq(S)
      /\ Len(SubSeq(d, 1, n)) = IF 1 <= n THEN n - 1 + 1 ELSE 0
      /\ \A i \in 1 .. n - 1 + 1 : SubSeq(d, 1, n)[i] = d[1 + i - 1]
  BY <1>2, <1>3, SubSeqProperties
<1> QED
  BY <1>2, <1>4

(* Two buffers or stacks with the same elements show the same sequence. *)
LEMMA PrefixEqual ==
    ASSUME NEW S, NEW d \in Seq(S), NEW n \in 0 .. Len(d), NEW s \in Seq(S),
           Len(s) = n, \A k \in 1 .. n : s[k] = d[k]
    PROVE  SubSeq(d, 1, n) = s
BY PrefixIs, SeqEqual

(* What realloc gives: memory of the size asked for that keeps what fits. *)
LEMMA ResizedIs ==
    ASSUME NEW d \in Seq(Cells), NEW size \in Nat
    PROVE  /\ Resized(d, size) \in Seq(Cells)
           /\ Len(Resized(d, size)) = size
           /\ \A k \in 1 .. size : k <= Len(d) => Resized(d, size)[k] = d[k]
<1> DEFINE e(k) == IF k <= Len(d) THEN d[k] ELSE Junk
<1>1. \A k \in 1 .. size : e(k) \in Cells
  <2>1. \A k \in 1 .. Len(d) : d[k] \in Cells
    BY ElementOfSeq
  <2>2. Len(d) \in Nat
    OBVIOUS
  <2> QED
    BY <2>1, <2>2 DEF Cells
<1>2. [k \in 1 .. size |-> e(k)] \in Seq(Cells)
  <2> HIDE DEF e
  <2> QED
    BY <1>1, IsASeq
<1>3. Resized(d, size) = [k \in 1 .. size |-> e(k)]
  BY DEF Resized
<1>4. Len(Resized(d, size)) = size
  <2>1. DOMAIN [k \in 1 .. size |-> e(k)] = 1 .. size
    OBVIOUS
  <2> HIDE DEF e
  <2> QED
    BY <1>2, <1>3, <2>1, LenProperties
<1> QED
  BY <1>2, <1>3, <1>4

(* _grow: room for n elements, and the elements stay where they are. *)
LEMMA GrownIs ==
    ASSUME NEW b, BufOK(b), NEW n \in Nat
    PROVE  /\ BufOK(Grown(b, n))
           /\ Grown(b, n).len = b.len
           /\ n <= Grown(b, n).cap
           /\ Grown(b, n).cap = Len(Grown(b, n).data)
           /\ \A k \in 1 .. b.len : Grown(b, n).data[k] = b.data[k]
<1> DEFINE c == MAX(MAX(2 * b.cap, n), MinCap)
           g == Grown(b, n)
<1>1. b.cap \in Nat /\ b.len \in Nat /\ b.data \in Seq(Cells)
  BY DEF BufOK
<1>2. b.len <= b.cap /\ b.cap <= Len(b.data)
  BY <1>1 DEF BufOK, IsBuf
<1>3. c \in Nat /\ b.cap <= c /\ n <= c
  BY <1>1, MinCapAssumption DEF MAX
<1>4. /\ Resized(b.data, c) \in Seq(Cells)
      /\ Len(Resized(b.data, c)) = c
      /\ \A k \in 1 .. c : k <= Len(b.data) => Resized(b.data, c)[k] = b.data[k]
  BY <1>1, <1>3, ResizedIs
<1>5. g = [cap |-> c, len |-> b.len, data |-> Resized(b.data, c)]
  <2>1. g = [b EXCEPT !.data = Resized(b.data, c), !.cap = c]
    BY DEF Grown
  <2>2. b \in [cap : Nat, len : Nat, data : Seq(Cells)]
    BY DEF BufOK
  <2> HIDE DEF g, c
  <2> QED
    BY <2>1, <2>2
<1>6. BufOK(g)
  <2>1. g \in [cap : Nat, len : Nat, data : Seq(Cells)]
    BY <1>1, <1>3, <1>4, <1>5
  <2>2. g.cap = c /\ g.len = b.len /\ g.data = Resized(b.data, c)
    BY <1>5
  <2> HIDE DEF c, g
  <2> QED
    BY <1>1, <1>2, <1>3, <1>4, <2>1, <2>2 DEF BufOK, IsBuf, Cells
<1>7. g.cap = c /\ g.len = b.len /\ g.data = Resized(b.data, c)
  BY <1>5
<1>8. \A k \in 1 .. b.len : g.data[k] = b.data[k]
  <2> HIDE DEF c, g
  <2>1. \A k \in 1 .. b.len : k \in 1 .. c /\ k <= Len(b.data)
    <3>1. Len(b.data) \in Nat
      BY <1>1
    <3> QED
      BY <1>1, <1>2, <1>3, <3>1
  <2> QED
    BY <1>4, <1>7, <2>1
<1> HIDE DEF c
<1>9. n <= g.cap /\ g.cap = Len(g.data)
  BY <1>3, <1>4, <1>7
<1> QED
  BY <1>6, <1>7, <1>8, <1>9

(* The elements of a buffer. *)
LEMMA ElementsAre ==
    ASSUME NEW b, BufOK(b)
    PROVE  /\ b.len \in Nat
           /\ b.data \in Seq(Cells)
           /\ b.len \in 0 .. Len(b.data)
           /\ Elements(b) \in Seq(Cells)
           /\ Len(Elements(b)) = b.len
           /\ DOMAIN Elements(b) = 1 .. b.len
           /\ \A k \in 1 .. b.len : Elements(b)[k] = b.data[k]
           /\ \A k \in 1 .. b.len : b.data[k] \in Cells
<1>1. b.cap \in Nat /\ b.len \in Nat /\ b.data \in Seq(Cells)
  BY DEF BufOK
<1>2. b.len \in 0 .. Len(b.data)
  <2>1. Len(b.data) \in Nat
    BY <1>1
  <2> QED
    BY <1>1, <2>1 DEF BufOK, IsBuf
<1>3. \A k \in 1 .. b.len : b.data[k] \in Cells
  <2>1. \A k \in 1 .. Len(b.data) : b.data[k] \in Cells
    BY <1>1, ElementOfSeq
  <2>2. Len(b.data) \in Nat
    BY <1>1
  <2> QED
    BY <1>2, <2>1, <2>2
<1> QED
  BY <1>1, <1>2, <1>3, PrefixIs DEF Elements

(* A buffer whose cells up to its length hold s shows s. *)
LEMMA ElementsEqual ==
    ASSUME NEW b, BufOK(b), NEW s \in Seq(Cells), b.len <= Len(s), Len(s) <= b.len,
           \A k \in 1 .. Len(s) : b.data[k] = s[k]
    PROVE  Elements(b) = s
<1>1. Len(s) \in Nat
  OBVIOUS
<1>2. Len(Elements(b)) = Len(s)
  BY <1>1, ElementsAre
<1>3. \A k \in 1 .. Len(Elements(b)) : Elements(b)[k] = s[k]
  BY <1>1, <1>2, ElementsAre
<1> QED
  BY <1>2, <1>3, ElementsAre, SeqEqual

(* Of a buffer that has been moved to other memory the same is shown. *)
LEMMA SameElements ==
    ASSUME NEW b, BufOK(b), NEW c, BufOK(c), c.len = b.len,
           \A k \in 1 .. b.len : c.data[k] = b.data[k]
    PROVE  Elements(c) = Elements(b)
<1>1. c.len <= Len(Elements(b)) /\ Len(Elements(b)) <= c.len
  BY ElementsAre
<1>2. \A k \in 1 .. Len(Elements(b)) : c.data[k] = Elements(b)[k]
  BY ElementsAre
<1> QED
  BY <1>1, <1>2, ElementsAre, ElementsEqual

(* A buffer that has never been used. *)
LEMMA NewBufIs == BufOK(NewBuf) /\ Elements(NewBuf) = <<>> /\ NewBuf.len = 0 /\ NewBuf.cap = 0
<1>1. <<>> \in Seq(Cells) /\ Len(<<>>) = 0
  BY EmptySeq
<1>2. BufOK(NewBuf)
  BY <1>1 DEF BufOK, NewBuf, IsBuf, Cells
<1>3. Elements(NewBuf) = <<>>
  BY SubSeqEmpty DEF Elements, NewBuf
<1> QED
  BY <1>2, <1>3 DEF NewBuf

(* Room for one more element is made without moving any. *)
LEMMA WithRoomIs ==
    ASSUME NEW b, BufOK(b)
    PROVE  /\ BufOK(WithRoom(b))
           /\ WithRoom(b).len = b.len
           /\ b.len + 1 <= WithRoom(b).cap
           /\ WithRoom(b).cap <= Len(WithRoom(b).data)
           /\ \A k \in 1 .. b.len : WithRoom(b).data[k] = b.data[k]
<1>1. b.cap \in Nat /\ b.len \in Nat /\ b.len + 1 \in Nat /\ b.cap <= Len(b.data)
  BY DEF BufOK, IsBuf
<1>2. CASE b.len + 1 > b.cap
  <2>1. WithRoom(b) = Grown(b, b.len + 1)
    BY <1>2 DEF WithRoom
  <2>2. /\ BufOK(Grown(b, b.len + 1))
        /\ Grown(b, b.len + 1).len = b.len
        /\ b.len + 1 <= Grown(b, b.len + 1).cap
        /\ Grown(b, b.len + 1).cap = Len(Grown(b, b.len + 1).data)
        /\ \A k \in 1 .. b.len : Grown(b, b.len + 1).data[k] = b.data[k]
    BY <1>1, GrownIs
  <2>3. Len(Grown(b, b.len + 1).data) \in Nat
    BY <2>2 DEF BufOK
  <2> QED
    BY <2>1, <2>2, <2>3
<1>3. CASE ~(b.len + 1 > b.cap)
  <2>1. WithRoom(b) = b
    BY <1>3 DEF WithRoom
  <2> QED
    BY <1>1, <1>3, <2>1
<1> QED
  BY <1>2, <1>3

(* A cell of the memory is written, and the length set. *)
Written(b, k, v, n) == [b EXCEPT !.data[k] = v, !.len = n]

(* That cell is changed and no other. *)
LEMMA WrittenIs ==
    ASSUME NEW b, BufOK(b), NEW k \in 1 .. Len(b.data), NEW v \in Cells, NEW n \in 0 .. b.cap
    PROVE  /\ BufOK(Written(b, k, v, n))
           /\ Written(b, k, v, n).len = n
           /\ \A m \in 1 .. Len(b.data) :
                  Written(b, k, v, n).data[m] = IF m = k THEN v ELSE b.data[m]
<1> DEFINE w == Written(b, k, v, n)
           d == [b.data EXCEPT ![k] = v]
<1>1. b \in [cap : Nat, len : Nat, data : Seq(Cells)]
  BY DEF BufOK
<1>2. b.cap \in Nat /\ b.len \in Nat /\ b.data \in Seq(Cells)
  BY <1>1
<1>3. /\ d \in Seq(Cells)
      /\ Len(d) = Len(b.data)
      /\ \A m \in 1 .. Len(b.data) : d[m] = IF m = k THEN v ELSE b.data[m]
  BY <1>2, ExceptSeq
<1>4. n \in Nat /\ b.cap \in 0 .. Len(b.data)
  BY <1>2 DEF BufOK, IsBuf
<1>5. w.cap = b.cap /\ w.len = n /\ w.data = d
  BY <1>1, <1>4 DEF Written
<1>6. w \in [cap : Nat, len : Nat, data : Seq(Cells)]
  BY <1>1, <1>3, <1>4 DEF Written
<1> HIDE DEF w, d
<1>7. BufOK(w)
  BY <1>2, <1>3, <1>4, <1>5, <1>6 DEF BufOK, IsBuf, Cells
<1> QED
  BY <1>3, <1>5, <1>7 DEF w

(* push appends. *)
LEMMA PushAppends ==
    ASSUME NEW b, BufOK(b), NEW v \in Cells
    PROVE  /\ BufOK(push(b, v))
           /\ Elements(push(b, v)) = Append(Elements(b), v)
           /\ push(b, v).len = b.len + 1
           /\ \A k \in 1 .. b.len : push(b, v).data[k] = b.data[k]
           /\ push(b, v).data[b.len + 1] = v
<1> DEFINE r == WithRoom(b)
           p == push(b, v)
<1>1. /\ BufOK(r)
      /\ r.len = b.len
      /\ b.len + 1 <= r.cap
      /\ r.cap <= Len(r.data)
      /\ \A k \in 1 .. b.len : r.data[k] = b.data[k]
  BY WithRoomIs
<1>2. b.len \in Nat /\ r.cap \in Nat /\ Len(r.data) \in Nat
  BY <1>1 DEF BufOK
<1> HIDE DEF r
<1>3. b.len + 1 \in 1 .. Len(r.data) /\ b.len + 1 \in 0 .. r.cap
  BY <1>1, <1>2
<1>4. p = Written(r, b.len + 1, v, b.len + 1)
  BY DEF push, Written, r
<1>5. /\ BufOK(p)
      /\ p.len = b.len + 1
      /\ \A m \in 1 .. Len(r.data) : p.data[m] = IF m = b.len + 1 THEN v ELSE r.data[m]
  BY <1>1, <1>3, <1>4, WrittenIs
<1> HIDE DEF p
<1>6. \A k \in 1 .. b.len : p.data[k] = b.data[k]
  BY <1>1, <1>2, <1>5
<1>7. p.data[b.len + 1] = v
  BY <1>3, <1>5
<1>8. Elements(b) \in Seq(Cells) /\ Len(Elements(b)) = b.len
      /\ \A k \in 1 .. b.len : Elements(b)[k] = b.data[k]
  BY ElementsAre
<1>9. /\ Append(Elements(b), v) \in Seq(Cells)
      /\ Len(Append(Elements(b), v)) = b.len + 1
      /\ \A k \in 1 .. b.len : Append(Elements(b), v)[k] = b.data[k]
      /\ Append(Elements(b), v)[b.len + 1] = v
  BY <1>8, AppendProperties
<1>10. Elements(p) = Append(Elements(b), v)
  <2>1. \A k \in 1 .. b.len + 1 : p.data[k] = Append(Elements(b), v)[k]
    BY <1>2, <1>6, <1>7, <1>9
  <2>2. p.len <= Len(Append(Elements(b), v)) /\ Len(Append(Elements(b), v)) <= p.len
    BY <1>2, <1>5, <1>9
  <2>3. \A k \in 1 .. Len(Append(Elements(b), v)) : p.data[k] = Append(Elements(b), v)[k]
    BY <1>9, <2>1
  <2> QED
    BY <1>5, <1>9, <2>2, <2>3, ElementsEqual
<1> QED
  BY <1>5, <1>6, <1>7, <1>10 DEF p

(* An assignment to an element, counted from 0, changes that element. *)
LEMMA AssignedIs ==
    ASSUME NEW b, BufOK(b), NEW i \in 0 .. b.len - 1, NEW v \in Cells
    PROVE  /\ BufOK(assigned(b, i, v))
           /\ Elements(assigned(b, i, v)) = [Elements(b) EXCEPT ![i + 1] = v]
           /\ assigned(b, i, v).len = b.len
           /\ \A m \in 1 .. b.len :
                  assigned(b, i, v).data[m] = IF m = i + 1 THEN v ELSE b.data[m]
<1> DEFINE k == i + 1
           a == assigned(b, i, v)
           w == Written(b, k, v, b.len)
           s == [Elements(b) EXCEPT ![k] = v]
<1>1. /\ b.len \in Nat
      /\ b.len \in 0 .. Len(b.data)
      /\ Elements(b) \in Seq(Cells)
      /\ Len(Elements(b)) = b.len
      /\ \A m \in 1 .. b.len : Elements(b)[m] = b.data[m]
  BY ElementsAre
<1>2. Len(b.data) \in Nat
  BY DEF BufOK
<1>3. k \in 1 .. b.len /\ k \in 1 .. Len(b.data) /\ b.len \in 0 .. b.cap
  BY <1>1, <1>2 DEF BufOK, IsBuf
<1>4. a = w
  <2>1. b \in [cap : Nat, len : Nat, data : Seq(Cells)]
    BY DEF BufOK
  <2> DEFINE d == [b.data EXCEPT ![k] = v]
  <2>2. a \in [cap : {b.cap}, len : {b.len}, data : {d}]
    BY <2>1 DEF assigned
  <2>3. w \in [cap : {b.cap}, len : {b.len}, data : {d}]
    BY <2>1 DEF Written
  <2> HIDE DEF a, w, d
  <2> QED
    BY <2>2, <2>3
<1> HIDE DEF w, a, k
<1>5. /\ BufOK(a)
      /\ a.len = b.len
      /\ \A m \in 1 .. Len(b.data) : a.data[m] = IF m = k THEN v ELSE b.data[m]
  BY <1>3, <1>4, WrittenIs DEF w
<1>6. \A m \in 1 .. b.len : a.data[m] = IF m = k THEN v ELSE b.data[m]
  BY <1>1, <1>2, <1>5
<1>7. /\ s \in Seq(Cells)
      /\ Len(s) = b.len
      /\ \A m \in 1 .. b.len : s[m] = IF m = k THEN v ELSE Elements(b)[m]
  BY <1>1, <1>3, ExceptSeq
<1> HIDE DEF s
<1>8. Elements(a) = s
  <2>1. a.len <= Len(s) /\ Len(s) <= a.len
    BY <1>1, <1>5, <1>7
  <2>2. \A m \in 1 .. Len(s) : a.data[m] = s[m]
    BY <1>1, <1>6, <1>7
  <2> QED
    BY <1>5, <1>7, <2>1, <2>2, ElementsEqual
<1> QED
  BY <1>5, <1>6, <1>8 DEF a, s, k

(* The length alone is set, to one within the capacity. *)
LEMMA LengthSet ==
    ASSUME NEW b, BufOK(b), NEW n \in 0 .. b.cap
    PROVE  /\ BufOK([b EXCEPT !.len = n])
           /\ [b EXCEPT !.len = n].len = n
           /\ [b EXCEPT !.len = n].data = b.data
<1> DEFINE w == [b EXCEPT !.len = n]
<1>1. b \in [cap : Nat, len : Nat, data : Seq(Cells)]
  BY DEF BufOK
<1>2. b.cap \in Nat /\ n \in Nat
  BY <1>1
<1>3. w.cap = b.cap /\ w.len = n /\ w.data = b.data
  BY <1>1
<1>4. w \in [cap : Nat, len : Nat, data : Seq(Cells)]
  BY <1>1, <1>2
<1> HIDE DEF w
<1> QED
  <2>1. BufOK(w)
    BY <1>3, <1>4 DEF BufOK, IsBuf
  <2> QED
    BY <1>3, <2>1 DEF w

(* The capacity alone is set, to one between the length and the memory. *)
LEMMA CapacitySet ==
    ASSUME NEW b, BufOK(b), NEW c \in Nat, b.len <= c, c <= Len(b.data)
    PROVE  /\ BufOK([b EXCEPT !.cap = c])
           /\ [b EXCEPT !.cap = c].len = b.len
           /\ [b EXCEPT !.cap = c].cap = c
           /\ [b EXCEPT !.cap = c].data = b.data
<1> DEFINE w == [b EXCEPT !.cap = c]
<1>1. b \in [cap : Nat, len : Nat, data : Seq(Cells)]
  BY DEF BufOK
<1>2. w.cap = c /\ w.len = b.len /\ w.data = b.data
  BY <1>1
<1>3. w \in [cap : Nat, len : Nat, data : Seq(Cells)]
  BY <1>1
<1>4. c \in 0 .. Len(b.data) /\ b.len \in 0 .. c
  BY <1>1
<1> HIDE DEF w
<1> QED
  <2>1. BufOK(w)
    BY <1>2, <1>3, <1>4 DEF BufOK, IsBuf
  <2> QED
    BY <1>2, <2>1 DEF w

(* pop_back takes the last element away, and back returns it. *)
LEMMA PopBackIs ==
    ASSUME NEW b, BufOK(b), HasBack(b)
    PROVE  /\ BufOK(pop_back(b))
           /\ Elements(pop_back(b)) = SubSeq(Elements(b), 1, Len(Elements(b)) - 1)
           /\ back(b) = Elements(b)[Len(Elements(b))]
           /\ Elements(b) # <<>>
<1>1. /\ b.len \in Nat
      /\ Elements(b) \in Seq(Cells)
      /\ Len(Elements(b)) = b.len
      /\ \A k \in 1 .. b.len : Elements(b)[k] = b.data[k]
  BY ElementsAre
<1>2. b.len >= 1
  BY DEF HasBack
<1>3. b.len - 1 \in 0 .. b.cap
  BY <1>1, <1>2 DEF BufOK, IsBuf
<1>4. /\ BufOK(pop_back(b))
      /\ pop_back(b).len = b.len - 1
      /\ pop_back(b).data = b.data
  BY <1>3, LengthSet DEF pop_back
<1> DEFINE s == SubSeq(Elements(b), 1, Len(Elements(b)) - 1)
<1>5. /\ s \in Seq(Cells)
      /\ Len(s) = b.len - 1
      /\ \A k \in 1 .. b.len - 1 : s[k] = Elements(b)[k]
  <2>1. Len(Elements(b)) - 1 \in 0 .. Len(Elements(b))
    BY <1>1, <1>2
  <2> QED
    BY <1>1, <2>1, PrefixIs
<1> HIDE DEF s
<1>6. Elements(pop_back(b)) = s
  <2>1. pop_back(b).len <= Len(s) /\ Len(s) <= pop_back(b).len
    BY <1>1, <1>4, <1>5
  <2>2. \A k \in 1 .. Len(s) : pop_back(b).data[k] = s[k]
    BY <1>1, <1>4, <1>5
  <2> QED
    BY <1>4, <1>5, <2>1, <2>2, ElementsEqual
<1>7. back(b) = Elements(b)[Len(Elements(b))]
  BY <1>1, <1>2 DEF back
<1>8. Elements(b) # <<>>
  BY <1>1, <1>2, EmptySeq
<1> QED
  BY <1>4, <1>6, <1>7, <1>8 DEF s

(* clear leaves nothing. *)
LEMMA ClearIs ==
    ASSUME NEW b, BufOK(b)
    PROVE  BufOK(clear(b)) /\ Elements(clear(b)) = <<>>
<1>1. 0 \in 0 .. b.cap
  BY DEF BufOK
<1>2. BufOK(clear(b)) /\ clear(b).len = 0
  BY <1>1, LengthSet DEF clear
<1> QED
  BY <1>2, SubSeqEmpty DEF Elements

(* initialize makes every element the same. *)
LEMMA InitializeIs ==
    ASSUME NEW b, BufOK(b), NEW v \in Cells
    PROVE  /\ BufOK(initialize(b, v))
           /\ Elements(initialize(b, v)) = [k \in DOMAIN Elements(b) |-> v]
<1> DEFINE e(k) == IF k <= b.len THEN v ELSE b.data[k]
           d == [k \in 1 .. Len(b.data) |-> e(k)]
           w == initialize(b, v)
           s == [k \in 1 .. b.len |-> v]
<1>1. b \in [cap : Nat, len : Nat, data : Seq(Cells)]
  BY DEF BufOK
<1>2. b.cap \in Nat /\ b.len \in Nat /\ b.data \in Seq(Cells) /\ Len(b.data) \in Nat
  BY <1>1
<1>3. \A k \in 1 .. Len(b.data) : e(k) \in Cells
  BY <1>2, ElementOfSeq
<1>4. d \in Seq(Cells)
  <2> HIDE DEF e
  <2> QED
    BY <1>2, <1>3, IsASeq
<1>5. Len(d) = Len(b.data)
  <2>1. DOMAIN d = 1 .. Len(b.data)
    OBVIOUS
  <2> HIDE DEF d
  <2> QED
    BY <1>2, <1>4, <2>1, LenProperties
<1>6. w = [b EXCEPT !.data = d]
  BY DEF initialize
<1>7. b.len \in 0 .. Len(b.data)
  BY ElementsAre
<1>8. \A k \in 1 .. b.len : d[k] = v
  BY <1>2, <1>7
<1> HIDE DEF d, w
<1>9. w.cap = b.cap /\ w.len = b.len /\ w.data = d
  BY <1>1, <1>6
<1>10. w \in [cap : Nat, len : Nat, data : Seq(Cells)]
  BY <1>1, <1>4, <1>6
<1>11. BufOK(w)
  <2>1. b.len \in 0 .. b.cap /\ b.cap \in 0 .. Len(b.data)
    BY DEF BufOK, IsBuf
  <2> QED
    BY <1>4, <1>5, <1>9, <1>10, <2>1 DEF BufOK, IsBuf, Cells
<1>12. s \in Seq(Cells) /\ Len(s) = b.len
  <2>1. s \in Seq(Cells)
    BY <1>2, IsASeq
  <2>2. DOMAIN s = 1 .. b.len
    OBVIOUS
  <2> HIDE DEF s
  <2> QED
    BY <1>2, <2>1, <2>2, LenProperties
<1>13. \A k \in 1 .. b.len : s[k] = v
  OBVIOUS
<1> HIDE DEF s
<1>14. Elements(w) = s
  <2>1. w.len <= Len(s) /\ Len(s) <= w.len
    BY <1>2, <1>9, <1>12
  <2>2. \A k \in 1 .. Len(s) : w.data[k] = s[k]
    BY <1>8, <1>9, <1>12, <1>13
  <2> QED
    BY <1>11, <1>12, <2>1, <2>2, ElementsEqual
<1>15. DOMAIN Elements(b) = 1 .. b.len
  BY ElementsAre
<1> QED
  BY <1>11, <1>14, <1>15 DEF w, s

(* reserve makes room for n elements in a buffer without any. *)
LEMMA ReserveIs ==
    ASSUME NEW b, BufOK(b), b.len <= 0, NEW n \in Nat
    PROVE  /\ BufOK(reserve(b, n))
           /\ Elements(reserve(b, n)) = <<>>
           /\ reserve(b, n).len = b.len
           /\ reserve(b, n).cap = n
           /\ n <= Len(reserve(b, n).data)
<1> DEFINE g == Grown(b, n)
<1>1. BufOK(g) /\ g.len = b.len /\ n <= g.cap /\ g.cap = Len(g.data)
  BY GrownIs
<1>2. b.len \in Nat
  BY DEF BufOK
<1> HIDE DEF g
<1>3. /\ BufOK([g EXCEPT !.cap = n])
      /\ [g EXCEPT !.cap = n].len = g.len
      /\ [g EXCEPT !.cap = n].cap = n
      /\ [g EXCEPT !.cap = n].data = g.data
  BY <1>1, <1>2, CapacitySet
<1>4. reserve(b, n) = [g EXCEPT !.cap = n]
  BY DEF reserve, g
<1>5. Elements(reserve(b, n)) = <<>>
  <2>1. reserve(b, n).len = 0
    BY <1>1, <1>2, <1>3, <1>4
  <2> QED
    BY <2>1, SubSeqEmpty DEF Elements
<1> QED
  BY <1>1, <1>3, <1>4, <1>5

(* reserve_and_set makes n elements of whatever the memory holds. *)
LEMMA ReserveAndSetIs ==
    ASSUME NEW b, BufOK(b), b.len <= 0, NEW n \in Nat
    PROVE  /\ BufOK(reserve_and_set(b, n))
           /\ Elements(reserve_and_set(b, n)) \in Seq(Cells)
           /\ Len(Elements(reserve_and_set(b, n))) = n
<1>1. BufOK(reserve(b, n)) /\ reserve(b, n).cap = n
  BY ReserveIs
<1>2. n \in 0 .. reserve(b, n).cap
  BY <1>1
<1>3. /\ BufOK([reserve(b, n) EXCEPT !.len = n])
      /\ [reserve(b, n) EXCEPT !.len = n].len = n
  BY <1>1, <1>2, LengthSet
<1> QED
  BY <1>3, ElementsAre DEF reserve_and_set

(* compact, which grows the memory first, keeps the elements. *)
LEMMA CompactIs ==
    ASSUME NEW b, BufOK(b)
    PROVE  BufOK(compact(b)) /\ Elements(compact(b)) = Elements(b)
<1> DEFINE g == Grown(b, b.len)
<1>1. b.len \in Nat
  BY DEF BufOK
<1>2. /\ BufOK(g)
      /\ g.len = b.len
      /\ b.len <= g.cap
      /\ g.cap = Len(g.data)
      /\ \A k \in 1 .. b.len : g.data[k] = b.data[k]
  BY <1>1, GrownIs
<1> HIDE DEF g
<1>3. g.len <= b.len
  BY <1>1, <1>2
<1>4. /\ BufOK([g EXCEPT !.cap = b.len])
      /\ [g EXCEPT !.cap = b.len].len = g.len
      /\ [g EXCEPT !.cap = b.len].data = g.data
  BY <1>1, <1>2, <1>3, CapacitySet
<1>5. compact(b) = [g EXCEPT !.cap = b.len]
  BY DEF compact, g
<1> QED
  BY <1>2, <1>4, <1>5, SameElements

(* deep_copy makes a buffer with the same elements. *)
LEMMA DeepCopyIs ==
    ASSUME NEW b, BufOK(b)
    PROVE  BufOK(deep_copy(b)) /\ Elements(deep_copy(b)) = Elements(b)
<1> DEFINE r == reserve(NewBuf, b.cap)
           e(k) == IF k <= b.len THEN b.data[k] ELSE r.data[k]
           d == [k \in 1 .. Len(r.data) |-> e(k)]
           w == deep_copy(b)
<1>1. b.cap \in Nat /\ b.len \in Nat /\ b.len <= b.cap
  BY DEF BufOK, IsBuf
<1>2. NewBuf.len <= 0
  BY NewBufIs
<1>3. BufOK(r) /\ r.cap = b.cap /\ b.cap <= Len(r.data)
  BY <1>1, <1>2, NewBufIs, ReserveIs
<1>4. w = [r EXCEPT !.len = b.len, !.data = d]
  BY DEF deep_copy
<1> HIDE DEF r
<1>5. r \in [cap : Nat, len : Nat, data : Seq(Cells)] /\ Len(r.data) \in Nat /\ r.data \in Seq(Cells)
  BY <1>3 DEF BufOK
<1>6. \A k \in 1 .. Len(r.data) : e(k) \in Cells
  <2>1. \A k \in 1 .. b.len : b.data[k] \in Cells
    BY ElementsAre
  <2>2. \A k \in 1 .. Len(r.data) : r.data[k] \in Cells
    BY <1>5, ElementOfSeq
  <2> QED
    BY <1>1, <1>5, <2>1, <2>2
<1>7. d \in Seq(Cells)
  <2> HIDE DEF e
  <2> QED
    BY <1>5, <1>6, IsASeq
<1>8. Len(d) = Len(r.data)
  <2>1. DOMAIN d = 1 .. Len(r.data)
    OBVIOUS
  <2> HIDE DEF d
  <2> QED
    BY <1>5, <1>7, <2>1, LenProperties
<1>9. \A k \in 1 .. b.len : d[k] = b.data[k]
  BY <1>1, <1>3, <1>5
<1> HIDE DEF d, w
<1>10. w.cap = r.cap /\ w.len = b.len /\ w.data = d
  BY <1>1, <1>4, <1>5
<1>11. w \in [cap : Nat, len : Nat, data : Seq(Cells)]
  BY <1>1, <1>4, <1>5, <1>7
<1>12. BufOK(w)
  BY <1>1, <1>3, <1>5, <1>7, <1>8, <1>10, <1>11 DEF BufOK, IsBuf, Cells
<1>13. Elements(w) = Elements(b)
  BY <1>9, <1>10, <1>12, SameElements
<1> QED
  BY <1>12, <1>13 DEF w

-----------------------------------------------------------------------------
(* Stacks *)

(* A stack whose elements in use lie inside its buffer. *)
StackOK(s) ==
    /\ s \in [curr : Nat, elems : [cap : Nat, len : Nat, data : Seq(Cells)]]
    /\ BufOK(s.elems)
    /\ s.curr <= s.elems.len

(* What is on the stack. *)
LEMMA OnStackIs ==
    ASSUME NEW s, StackOK(s)
    PROVE  /\ OnStack(s) \in Seq(Cells)
           /\ Len(OnStack(s)) = s.curr
           /\ \A k \in 1 .. s.curr : OnStack(s)[k] = s.elems.data[k]
<1>1. /\ s.elems.len \in Nat
      /\ s.elems.data \in Seq(Cells)
      /\ s.elems.len \in 0 .. Len(s.elems.data)
  BY ElementsAre DEF StackOK
<1>2. Len(s.elems.data) \in Nat
  BY <1>1
<1>3. s.curr \in 0 .. Len(s.elems.data)
  BY <1>1, <1>2 DEF StackOK
<1> QED
  BY <1>1, <1>3, PrefixIs DEF OnStack

(* A stack whose cells in use hold t shows t. *)
LEMMA OnStackEqual ==
    ASSUME NEW s, StackOK(s), NEW t \in Seq(Cells), s.curr <= Len(t), Len(t) <= s.curr,
           \A k \in 1 .. Len(t) : s.elems.data[k] = t[k]
    PROVE  OnStack(s) = t
<1>1. Len(t) \in Nat /\ s.curr \in Nat
  BY DEF StackOK
<1>2. Len(OnStack(s)) = Len(t)
  BY <1>1, OnStackIs
<1>3. \A k \in 1 .. Len(OnStack(s)) : OnStack(s)[k] = t[k]
  BY <1>1, <1>2, OnStackIs
<1> QED
  BY <1>2, <1>3, OnStackIs, SeqEqual

(* The elements after a push: those in use stay, the next one is written. *)
LEMMA PushedElemsAre ==
    ASSUME NEW s, StackOK(s), NEW v \in Cells
    PROVE  /\ BufOK(PushedElems(s, v))
           /\ s.curr + 1 <= PushedElems(s, v).len
           /\ \A k \in 1 .. s.curr : PushedElems(s, v).data[k] = s.elems.data[k]
           /\ PushedElems(s, v).data[s.curr + 1] = v
<1>1. BufOK(s.elems) /\ s.elems.len \in Nat /\ s.curr \in Nat /\ s.curr <= s.elems.len
  BY DEF StackOK, BufOK
<1>2. CASE s.curr = s.elems.len
  <2>1. /\ BufOK(push(s.elems, v))
        /\ push(s.elems, v).len = s.elems.len + 1
        /\ \A k \in 1 .. s.elems.len : push(s.elems, v).data[k] = s.elems.data[k]
        /\ push(s.elems, v).data[s.elems.len + 1] = v
    BY <1>1, PushAppends
  <2>2. PushedElems(s, v) = push(s.elems, v)
    BY <1>2 DEF PushedElems
  <2>3. s.curr + 1 <= s.elems.len + 1
    BY <1>1
  <2> QED
    BY <1>2, <2>1, <2>2, <2>3
<1>3. CASE s.curr # s.elems.len
  <2>1. s.curr \in 0 .. s.elems.len - 1
    BY <1>1, <1>3
  <2>2. PushedElems(s, v) = assigned(s.elems, s.curr, v)
    BY <1>3 DEF PushedElems
  <2>3. /\ BufOK(assigned(s.elems, s.curr, v))
        /\ assigned(s.elems, s.curr, v).len = s.elems.len
        /\ \A m \in 1 .. s.elems.len :
               assigned(s.elems, s.curr, v).data[m]
                   = IF m = s.curr + 1 THEN v ELSE s.elems.data[m]
    BY <1>1, <2>1, AssignedIs
  <2>4. \A k \in 1 .. s.curr : k \in 1 .. s.elems.len /\ k # s.curr + 1
    BY <1>1
  <2>5. s.curr + 1 \in 1 .. s.elems.len
    BY <1>1, <2>1
  <2> QED
    BY <1>1, <2>2, <2>3, <2>4, <2>5
<1> QED
  BY <1>2, <1>3

(* A push on the stack appends. *)
LEMMA PushOnAppends ==
    ASSUME NEW s, StackOK(s), NEW v \in Cells
    PROVE  StackOK(push_on(s, v)) /\ OnStack(push_on(s, v)) = Append(OnStack(s), v)
<1> DEFINE p == push_on(s, v)
           t == Append(OnStack(s), v)
           e == PushedElems(s, v)
<1>1. s.curr \in Nat
  BY DEF StackOK
<1>2. /\ BufOK(e)
      /\ s.curr + 1 <= e.len
      /\ \A k \in 1 .. s.curr : e.data[k] = s.elems.data[k]
      /\ e.data[s.curr + 1] = v
  BY PushedElemsAre
<1>3. p.curr = s.curr + 1 /\ p.elems = e
  BY DEF push_on
<1> HIDE DEF e
<1>4. StackOK(p)
  <2>1. p \in [curr : Nat, elems : [cap : Nat, len : Nat, data : Seq(Cells)]]
    BY <1>1, <1>2 DEF push_on, BufOK, e
  <2> HIDE DEF p
  <2> QED
    BY <1>2, <1>3, <2>1 DEF StackOK
<1>5. /\ OnStack(s) \in Seq(Cells)
      /\ Len(OnStack(s)) = s.curr
      /\ \A k \in 1 .. s.curr : OnStack(s)[k] = s.elems.data[k]
  BY OnStackIs
<1>6. /\ t \in Seq(Cells)
      /\ Len(t) = s.curr + 1
      /\ \A k \in 1 .. s.curr : t[k] = s.elems.data[k]
      /\ t[s.curr + 1] = v
  BY <1>5, AppendProperties
<1> HIDE DEF p, t
<1>7. OnStack(p) = t
  <2>1. p.curr <= Len(t) /\ Len(t) <= p.curr
    BY <1>1, <1>3, <1>6
  <2>2. \A k \in 1 .. s.curr + 1 : k \in 1 .. s.curr \/ k = s.curr + 1
    BY <1>1
  <2>3. \A k \in 1 .. s.curr + 1 : e.data[k] = t[k]
    BY <1>2, <1>6, <2>2
  <2>4. \A k \in 1 .. Len(t) : p.elems.data[k] = t[k]
    BY <1>3, <1>6, <2>3
  <2> QED
    BY <1>4, <1>6, <2>1, <2>4, OnStackEqual
<1> QED
  BY <1>4, <1>7 DEF p, t

(* pop takes away what top returned; the element stays in the memory. *)
LEMMA PopIs ==
    ASSUME NEW s, StackOK(s), CanPop(s)
    PROVE  /\ StackOK(pop(s))
           /\ OnStack(pop(s)) = SubSeq(OnStack(s), 1, Len(OnStack(s)) - 1)
           /\ top(s) = OnStack(s)[Len(OnStack(s))]
           /\ OnStack(s) # <<>>
<1> DEFINE p == pop(s)
           t == SubSeq(OnStack(s), 1, Len(OnStack(s)) - 1)
<1>1. s.curr \in Nat /\ s.curr >= 1 /\ BufOK(s.elems) /\ s.elems.len \in Nat
  BY DEF StackOK, CanPop, BufOK
<1>2. p.curr = s.curr - 1 /\ p.elems = s.elems
  BY DEF StackOK, pop
<1>3. StackOK(p)
  <2>1. p \in [curr : Nat, elems : [cap : Nat, len : Nat, data : Seq(Cells)]]
    BY <1>1 DEF StackOK, pop
  <2> HIDE DEF p
  <2> QED
    BY <1>1, <1>2, <2>1 DEF StackOK
<1>4. /\ OnStack(s) \in Seq(Cells)
      /\ Len(OnStack(s)) = s.curr
      /\ \A k \in 1 .. s.curr : OnStack(s)[k] = s.elems.data[k]
  BY OnStackIs
<1>5. /\ t \in Seq(Cells)
      /\ Len(t) = s.curr - 1
      /\ \A k \in 1 .. s.curr - 1 : t[k] = OnStack(s)[k]
  <2>1. Len(OnStack(s)) - 1 \in 0 .. Len(OnStack(s))
    BY <1>1, <1>4
  <2> QED
    BY <1>4, <2>1, PrefixIs
<1> HIDE DEF p, t
<1>6. OnStack(p) = t
  <2>1. p.curr <= Len(t) /\ Len(t) <= p.curr
    BY <1>1, <1>2, <1>5
  <2>2. \A k \in 1 .. Len(t) : p.elems.data[k] = t[k]
    BY <1>1, <1>2, <1>4, <1>5
  <2> QED
    BY <1>3, <1>5, <2>1, <2>2, OnStackEqual
<1>7. top(s) = OnStack(s)[Len(OnStack(s))]
  BY <1>1, <1>4 DEF top
<1>8. OnStack(s) # <<>>
  BY <1>1, <1>4, EmptySeq
<1> QED
  BY <1>3, <1>6, <1>7, <1>8 DEF p, t

-----------------------------------------------------------------------------
(* The client of a stack or a buffer *)

(* Both lie in their memory; a stack that is in use lies in its elements,  *)
(* one that has been freed keeps the number of them.                       *)
ArraysInv ==
    /\ subject \in {"stack", "buf", "list", "freed", "aborted"}
    /\ BufOK(buf)
    /\ stk \in [curr : Nat, elems : [cap : Nat, len : Nat, data : Seq(Cells)]]
    /\ BufOK(stk.elems)
    /\ subject = "stack" => StackOK(stk)

(* A program starts with an empty container. *)
LEMMA Arrays_Init == Init => ArraysInv /\ Arrays!Init
<1> SUFFICES ASSUME Init PROVE ArraysInv /\ Arrays!Init
  OBVIOUS
<1>1. BufOK(NewBuf) /\ Elements(NewBuf) = <<>> /\ NewBuf.len = 0
  BY NewBufIs
<1>2. NewBuf \in [cap : Nat, len : Nat, data : Seq(Cells)]
  BY <1>1 DEF BufOK
<1>3. NewStack \in [curr : Nat, elems : [cap : Nat, len : Nat, data : Seq(Cells)]]
  BY <1>2 DEF NewStack
<1>4. NewStack.curr = 0 /\ NewStack.elems = NewBuf
  BY DEF NewStack
<1>5. StackOK(NewStack)
  BY <1>1, <1>3, <1>4 DEF StackOK
<1>6. OnStack(NewStack) = <<>>
  BY <1>4, SubSeqEmpty DEF OnStack
<1>7. Contents = <<>>
  BY <1>1, <1>6 DEF Init, Contents
<1>8. ArraysInv
  BY <1>1, <1>3, <1>4, <1>5 DEF Init, ArraysInv
<1> QED
  BY <1>7, <1>8 DEF Init, Arrays!Init

(* Both calls on a stack are calls on the sequence. *)
LEMMA StackPush_Appends == ArraysInv /\ StackPush => ArraysInv' /\ Arrays!Push
<1> SUFFICES ASSUME ArraysInv, StackPush PROVE ArraysInv' /\ Arrays!Push
  OBVIOUS
<1>1. PICK v \in Values : stk' = push_on(stk, v) /\ Called("push", v)
  BY DEF StackPush
<1>2. subject = "stack" /\ subject' = subject /\ buf' = buf
  BY DEF StackPush, OnStackOnly
<1>3. v \in Cells
  BY DEF Cells
<1>4. StackOK(push_on(stk, v)) /\ OnStack(push_on(stk, v)) = Append(OnStack(stk), v)
  BY <1>2, <1>3, PushOnAppends DEF ArraysInv
<1>5. ArraysInv'
  BY <1>1, <1>2, <1>4 DEF ArraysInv, StackOK
<1>6. Contents = OnStack(stk) /\ Contents' = OnStack(stk')
  BY <1>2 DEF Contents
<1>7. Contents' = Append(Contents, v)
  BY <1>1, <1>4, <1>6
<1> QED
  BY <1>1, <1>5, <1>7 DEF Arrays!Push, Called, CalledAt, Arrays!Called, Arrays!CalledAt

(* Stack::pop hands out the last element of the sequence and forgets it. *)
LEMMA StackPop_Pops == ArraysInv /\ StackPop => ArraysInv' /\ Arrays!Pop
<1> SUFFICES ASSUME ArraysInv, StackPop PROVE ArraysInv' /\ Arrays!Pop
  OBVIOUS
<1>1. CanPop(stk) /\ stk' = pop(stk) /\ Called("pop", top(stk))
  BY DEF StackPop
<1>2. subject = "stack" /\ subject' = subject /\ buf' = buf
  BY DEF StackPop, OnStackOnly
<1>3. /\ StackOK(pop(stk))
      /\ OnStack(pop(stk)) = SubSeq(OnStack(stk), 1, Len(OnStack(stk)) - 1)
      /\ top(stk) = OnStack(stk)[Len(OnStack(stk))]
      /\ OnStack(stk) # <<>>
  BY <1>1, <1>2, PopIs DEF ArraysInv
<1>4. ArraysInv'
  BY <1>1, <1>2, <1>3 DEF ArraysInv, StackOK
<1>5. Contents = OnStack(stk) /\ Contents' = OnStack(stk')
  BY <1>2 DEF Contents
<1> QED
  BY <1>1, <1>3, <1>4, <1>5
     DEF Arrays!Pop, Arrays!Last, Called, CalledAt, Arrays!Called, Arrays!CalledAt

(* While a buffer is used, its elements are the contents, and only the *)
(* buffer has to be looked at.                                         *)
LEMMA BufStep ==
    ASSUME ArraysInv, OnBufOnly, BufOK(buf')
    PROVE  ArraysInv' /\ Contents = Elements(buf) /\ Contents' = Elements(buf')
<1>1. subject = "buf" /\ subject' = subject /\ stk' = stk
  BY DEF OnBufOnly
<1>2. ArraysInv'
  BY <1>1 DEF ArraysInv, StackOK
<1> QED
  BY <1>1, <1>2 DEF Contents

(* Every call on a buffer is a call on the sequence. *)
LEMMA BufPush_Appends == ArraysInv /\ BufPush => ArraysInv' /\ Arrays!Push
<1> SUFFICES ASSUME ArraysInv, BufPush PROVE ArraysInv' /\ Arrays!Push
  OBVIOUS
<1>1. PICK v \in Values : buf' = push(buf, v) /\ Called("push", v)
  BY DEF BufPush
<1>2. v \in Cells
  BY DEF Cells
<1>3. BufOK(push(buf, v)) /\ Elements(push(buf, v)) = Append(Elements(buf), v)
  BY <1>2, PushAppends DEF ArraysInv
<1>4. ArraysInv' /\ Contents = Elements(buf) /\ Contents' = Elements(buf')
  BY <1>1, <1>3, BufStep DEF BufPush
<1>5. Contents' = Append(Contents, v)
  BY <1>1, <1>3, <1>4
<1> QED
  BY <1>1, <1>4, <1>5 DEF Arrays!Push, Called, CalledAt, Arrays!Called, Arrays!CalledAt

(* pop_back forgets the last element of the sequence. *)
LEMMA BufPopBack_Pops == ArraysInv /\ BufPopBack => ArraysInv' /\ Arrays!Pop
<1> SUFFICES ASSUME ArraysInv, BufPopBack PROVE ArraysInv' /\ Arrays!Pop
  OBVIOUS
<1>1. HasBack(buf) /\ buf' = pop_back(buf) /\ Called("pop", back(buf))
  BY DEF BufPopBack
<1>2. /\ BufOK(pop_back(buf))
      /\ Elements(pop_back(buf)) = SubSeq(Elements(buf), 1, Len(Elements(buf)) - 1)
      /\ back(buf) = Elements(buf)[Len(Elements(buf))]
      /\ Elements(buf) # <<>>
  BY <1>1, PopBackIs DEF ArraysInv
<1>3. ArraysInv' /\ Contents = Elements(buf) /\ Contents' = Elements(buf')
  BY <1>1, <1>2, BufStep DEF BufPopBack
<1> QED
  BY <1>1, <1>2, <1>3
     DEF Arrays!Pop, Arrays!Last, Called, CalledAt, Arrays!Called, Arrays!CalledAt

(* back shows the last element of the sequence. *)
LEMMA BufBack_Looks == ArraysInv /\ BufBack => ArraysInv' /\ Arrays!Back
<1> SUFFICES ASSUME ArraysInv, BufBack PROVE ArraysInv' /\ Arrays!Back
  OBVIOUS
<1>1. HasBack(buf) /\ buf' = buf /\ Called("back", back(buf))
  BY DEF BufBack
<1>2. back(buf) = Elements(buf)[Len(Elements(buf))] /\ Elements(buf) # <<>>
  BY <1>1, PopBackIs DEF ArraysInv
<1>3. BufOK(buf')
  BY <1>1 DEF ArraysInv
<1>4. ArraysInv' /\ Contents = Elements(buf) /\ Contents' = Elements(buf')
  BY <1>3, BufStep DEF BufBack
<1> QED
  BY <1>1, <1>2, <1>4
     DEF Arrays!Back, Arrays!Last, Called, CalledAt, Arrays!Called, Arrays!CalledAt

(* operator[] shows the element at its index. *)
LEMMA BufRead_Reads == ArraysInv /\ BufRead => ArraysInv' /\ Arrays!Read
<1> SUFFICES ASSUME ArraysInv, BufRead PROVE ArraysInv' /\ Arrays!Read
  OBVIOUS
<1>1. buf' = buf
  BY DEF BufRead
<1>2. PICK k \in 1 .. buf.len : CalledAt("read", k, buf.data[k])
  BY DEF BufRead
<1>3. DOMAIN Elements(buf) = 1 .. buf.len /\ \A m \in 1 .. buf.len : Elements(buf)[m] = buf.data[m]
  BY ElementsAre DEF ArraysInv
<1>4. BufOK(buf')
  BY <1>1 DEF ArraysInv
<1>5. ArraysInv' /\ Contents = Elements(buf) /\ Contents' = Elements(buf')
  BY <1>4, BufStep DEF BufRead
<1>6. k \in DOMAIN Contents /\ Contents[k] = buf.data[k]
  BY <1>3, <1>5
<1>7. Contents' = Contents
  BY <1>1, <1>5
<1> QED
  BY <1>2, <1>5, <1>6, <1>7 DEF Arrays!Read, CalledAt, Arrays!CalledAt

(* operator[] writes the element at its index and no other. *)
LEMMA BufAssign_Assigns == ArraysInv /\ BufAssign => ArraysInv' /\ Arrays!Assign
<1> SUFFICES ASSUME ArraysInv, BufAssign PROVE ArraysInv' /\ Arrays!Assign
  OBVIOUS
<1>1. PICK k \in 1 .. buf.len, v \in Values :
          buf' = assigned(buf, k - 1, v) /\ CalledAt("assign", k, v)
  BY DEF BufAssign
<1>2. v \in Cells
  BY DEF Cells
<1>3. buf.len \in Nat /\ DOMAIN Elements(buf) = 1 .. buf.len
  BY ElementsAre DEF ArraysInv
<1>4. k - 1 \in 0 .. buf.len - 1 /\ k - 1 + 1 = k
  BY <1>3
<1>5. /\ BufOK(assigned(buf, k - 1, v))
      /\ Elements(assigned(buf, k - 1, v)) = [Elements(buf) EXCEPT ![k - 1 + 1] = v]
  BY <1>2, <1>4, AssignedIs DEF ArraysInv
<1>6. Elements(assigned(buf, k - 1, v)) = [Elements(buf) EXCEPT ![k] = v]
  BY <1>4, <1>5
<1>7. ArraysInv' /\ Contents = Elements(buf) /\ Contents' = Elements(buf')
  BY <1>1, <1>5, BufStep DEF BufAssign
<1>8. k \in DOMAIN Contents /\ Contents' = [Contents EXCEPT ![k] = v]
  BY <1>1, <1>3, <1>6, <1>7
<1> QED
  BY <1>1, <1>7, <1>8 DEF Arrays!Assign, CalledAt, Arrays!CalledAt

(* initialize_elements gives the sequence equal elements. *)
LEMMA BufInitialize_Fills == ArraysInv /\ BufInitialize => ArraysInv' /\ Arrays!Fill
<1> SUFFICES ASSUME ArraysInv, BufInitialize PROVE ArraysInv' /\ Arrays!Fill
  OBVIOUS
<1>1. PICK v \in Values : buf' = initialize(buf, v) /\ Called("fill", v)
  BY DEF BufInitialize
<1>2. v \in Cells
  BY DEF Cells
<1>3. /\ BufOK(initialize(buf, v))
      /\ Elements(initialize(buf, v)) = [k \in DOMAIN Elements(buf) |-> v]
  BY <1>2, InitializeIs DEF ArraysInv
<1>4. ArraysInv' /\ Contents = Elements(buf) /\ Contents' = Elements(buf')
  BY <1>1, <1>3, BufStep DEF BufInitialize
<1>5. Contents' = [k \in DOMAIN Contents |-> v]
  BY <1>1, <1>3, <1>4
<1> QED
  BY <1>1, <1>4, <1>5 DEF Arrays!Fill, Called, CalledAt, Arrays!Called, Arrays!CalledAt

(* A buffer that may be reserved has no elements. *)
LEMMA CanReserveIs ==
    ASSUME ArraysInv, CanReserve(buf)
    PROVE  buf.len <= 0 /\ Elements(buf) = <<>>
<1>1. buf.len = 0
  BY DEF CanReserve
<1> QED
  BY <1>1, SubSeqEmpty DEF Elements

(* reserve changes the room and not the elements. *)
LEMMA BufReserve_Keeps == ArraysInv /\ BufReserve => ArraysInv' /\ Arrays!Keep
<1> SUFFICES ASSUME ArraysInv, BufReserve PROVE ArraysInv' /\ Arrays!Keep
  OBVIOUS
<1>1. PICK size \in 0 .. MaxLen : buf' = reserve(buf, size)
  BY DEF BufReserve
<1>2. size \in Nat
  BY BoundsAssumption
<1>3. buf.len <= 0 /\ Elements(buf) = <<>>
  BY CanReserveIs DEF BufReserve
<1>4. BufOK(reserve(buf, size)) /\ Elements(reserve(buf, size)) = <<>>
  BY <1>2, <1>3, ReserveIs DEF ArraysInv
<1>5. ArraysInv' /\ Contents = Elements(buf) /\ Contents' = Elements(buf')
  BY <1>1, <1>4, BufStep DEF BufReserve
<1>6. Contents' = Contents
  BY <1>1, <1>3, <1>4, <1>5
<1> QED
  BY <1>5, <1>6 DEF BufReserve, Arrays!Keep, Called, CalledAt, Arrays!Called, Arrays!CalledAt

(* reserve_and_set makes the sequence longer, with any new elements. *)
LEMMA BufReserveAndSet_Stretches == ArraysInv /\ BufReserveAndSet => ArraysInv' /\ Arrays!Stretch
<1> SUFFICES ASSUME ArraysInv, BufReserveAndSet PROVE ArraysInv' /\ Arrays!Stretch
  OBVIOUS
<1>1. PICK size \in 0 .. MaxLen : buf' = reserve_and_set(buf, size) /\ Called("stretch", size)
  BY DEF BufReserveAndSet
<1>2. size \in Nat
  BY BoundsAssumption
<1>3. buf.len <= 0 /\ Elements(buf) = <<>>
  BY CanReserveIs DEF BufReserveAndSet
<1>4. /\ BufOK(reserve_and_set(buf, size))
      /\ Elements(reserve_and_set(buf, size)) \in Seq(Cells)
      /\ Len(Elements(reserve_and_set(buf, size))) = size
  BY <1>2, <1>3, ReserveAndSetIs DEF ArraysInv
<1>5. ArraysInv' /\ Contents = Elements(buf) /\ Contents' = Elements(buf')
  BY <1>1, <1>4, BufStep DEF BufReserveAndSet
<1>6. Contents = <<>> /\ Contents' \in Seq(Cells) /\ Len(Contents') = size
  BY <1>1, <1>3, <1>4, <1>5
<1> QED
  BY <1>1, <1>5, <1>6
     DEF Arrays!Stretch, Called, CalledAt, Arrays!Called, Arrays!CalledAt, Cells

(* compact changes the room and not the elements. *)
LEMMA BufCompact_Keeps == ArraysInv /\ BufCompact => ArraysInv' /\ Arrays!Keep
<1> SUFFICES ASSUME ArraysInv, BufCompact PROVE ArraysInv' /\ Arrays!Keep
  OBVIOUS
<1>1. buf' = compact(buf) /\ Called("keep", Junk)
  BY DEF BufCompact
<1>2. BufOK(compact(buf)) /\ Elements(compact(buf)) = Elements(buf)
  BY CompactIs DEF ArraysInv
<1>3. ArraysInv' /\ Contents = Elements(buf) /\ Contents' = Elements(buf')
  BY <1>1, <1>2, BufStep DEF BufCompact
<1>4. Contents' = Contents
  BY <1>1, <1>2, <1>3
<1> QED
  BY <1>1, <1>3, <1>4 DEF Arrays!Keep, Called, CalledAt, Arrays!Called, Arrays!CalledAt

(* The copy has the elements of the buffer. *)
LEMMA BufDeepCopy_Keeps == ArraysInv /\ BufDeepCopy => ArraysInv' /\ Arrays!Keep
<1> SUFFICES ASSUME ArraysInv, BufDeepCopy PROVE ArraysInv' /\ Arrays!Keep
  OBVIOUS
<1>1. buf' = deep_copy(buf) /\ Called("keep", Junk)
  BY DEF BufDeepCopy
<1>2. BufOK(deep_copy(buf)) /\ Elements(deep_copy(buf)) = Elements(buf)
  BY DeepCopyIs DEF ArraysInv
<1>3. ArraysInv' /\ Contents = Elements(buf) /\ Contents' = Elements(buf')
  BY <1>1, <1>2, BufStep DEF BufDeepCopy
<1>4. Contents' = Contents
  BY <1>1, <1>2, <1>3
<1> QED
  BY <1>1, <1>3, <1>4 DEF Arrays!Keep, Called, CalledAt, Arrays!Called, Arrays!CalledAt

(* clear leaves no elements. *)
LEMMA BufClear_Empties == ArraysInv /\ BufClear => ArraysInv' /\ Arrays!Empty
<1> SUFFICES ASSUME ArraysInv, BufClear PROVE ArraysInv' /\ Arrays!Empty
  OBVIOUS
<1>1. buf' = clear(buf) /\ Called("empty", Junk)
  BY DEF BufClear
<1>2. BufOK(clear(buf)) /\ Elements(clear(buf)) = <<>>
  BY ClearIs DEF ArraysInv
<1>3. ArraysInv' /\ Contents' = Elements(buf')
  BY <1>1, <1>2, BufStep DEF BufClear
<1>4. Contents' = <<>>
  BY <1>1, <1>2, <1>3
<1> QED
  BY <1>1, <1>3, <1>4 DEF Arrays!Empty, Called, CalledAt, Arrays!Called, Arrays!CalledAt

(* free leaves nothing, whatever the stack still counts. *)
LEMMA Free_Empties == ArraysInv /\ Free => ArraysInv' /\ Arrays!Empty
<1> SUFFICES ASSUME ArraysInv, Free PROVE ArraysInv' /\ Arrays!Empty
  OBVIOUS
<1>1. subject' = "freed" /\ stk' = [stk EXCEPT !.elems = NewBuf] /\ buf' = NewBuf
      /\ Called("empty", Junk)
  BY DEF Free
<1>2. BufOK(NewBuf)
  BY NewBufIs
<1>3. stk' \in [curr : Nat, elems : [cap : Nat, len : Nat, data : Seq(Cells)]]
      /\ stk'.elems = NewBuf
  BY <1>1, <1>2 DEF ArraysInv, BufOK
<1>4. ArraysInv'
  <2>1. BufOK(NewBuf)'
    BY <1>2 DEF NewBuf, BufOK, IsBuf, Cells
  <2>2. BufOK(buf)' /\ BufOK(stk.elems)'
    BY <1>1, <1>2, <1>3 DEF BufOK, IsBuf
  <2> QED
    BY <1>1, <1>3, <2>2 DEF ArraysInv
<1>5. Contents' = <<>>
  BY <1>1 DEF Contents
<1> QED
  BY <1>1, <1>4, <1>5 DEF Arrays!Empty, Called, CalledAt, Arrays!Called, Arrays!CalledAt

(* The calls on a list leave stacks and buffers alone. *)
ListStep == InsertAtEnd \/ InsertAfter \/ Unlink \/ TailAssertFails

(* The operations of the list do not touch the stack and the buffer. *)
LEMMA ListStep_Stutters == ArraysInv /\ ListStep => ArraysInv' /\ UNCHANGED <<Contents, call>>
<1> SUFFICES ASSUME ArraysInv, ListStep PROVE ArraysInv' /\ UNCHANGED <<Contents, call>>
  OBVIOUS
<1>1. /\ subject = "list" /\ subject' \in {"list", "aborted"}
      /\ stk' = stk /\ buf' = buf /\ call' = call
  BY DEF ListStep, InsertAtEnd, InsertAfter, Unlink, TailAssertFails, OnListOnly, arrayVars
<1>2. ArraysInv'
  BY <1>1 DEF ArraysInv, StackOK
<1>3. Contents = <<>> /\ Contents' = <<>>
  BY <1>1 DEF Contents
<1> QED
  BY <1>1, <1>2, <1>3

(* Every step is a call on the sequence, or none. *)
LEMMA Arrays_Next == ArraysInv /\ [Next]_vars => ArraysInv' /\ [Arrays!Next]_<<Contents, call>>
<1> SUFFICES ASSUME ArraysInv, [Next]_vars
             PROVE  ArraysInv' /\ [Arrays!Next]_<<Contents, call>>
  OBVIOUS
<1>1. CASE StackPush \/ BufPush
  BY <1>1, StackPush_Appends, BufPush_Appends DEF Arrays!Next
<1>2. CASE StackPop \/ BufPopBack
  BY <1>2, StackPop_Pops, BufPopBack_Pops DEF Arrays!Next
<1>3. CASE BufBack \/ BufRead \/ BufAssign \/ BufInitialize
  BY <1>3, BufBack_Looks, BufRead_Reads, BufAssign_Assigns, BufInitialize_Fills DEF Arrays!Next
<1>4. CASE BufReserve \/ BufReserveAndSet
  BY <1>4, BufReserve_Keeps, BufReserveAndSet_Stretches DEF Arrays!Next
<1>5. CASE BufCompact \/ BufDeepCopy
  BY <1>5, BufCompact_Keeps, BufDeepCopy_Keeps DEF Arrays!Next
<1>6. CASE BufClear \/ Free
  BY <1>6, BufClear_Empties, Free_Empties DEF Arrays!Next
<1>7. CASE InsertAtEnd \/ InsertAfter \/ Unlink \/ TailAssertFails
  BY <1>7, ListStep_Stutters DEF ListStep
<1>8. CASE UNCHANGED vars
  <2>1. UNCHANGED <<subject, call, stk, buf>>
    BY <1>8 DEF vars, arrayVars
  <2> QED
    BY <2>1 DEF ArraysInv, StackOK, BufOK, IsBuf, Contents
<1> QED
  BY <1>1, <1>2, <1>3, <1>4, <1>5, <1>6, <1>7, <1>8 DEF Next

(* The inductive invariant of the stack and the buffer. *)
LEMMA ArraysInvariant == Spec => []ArraysInv
<1>1. Init => ArraysInv
  BY Arrays_Init
<1>2. ArraysInv /\ [Next]_vars => ArraysInv'
  BY Arrays_Next
<1> QED
  BY <1>1, <1>2, PTL DEF Spec

(* ArraysAreSequences: whatever calls a program makes on a Stack or a Buf, *)
(* in any order and for any capacities, each returns what the same call on *)
(* a sequence would return.                                                *)
THEOREM ArraysImplementSequences == Spec => ArraysAreSequences
<1>1. Init => Arrays!Init
  BY Arrays_Init
<1>2. ArraysInv /\ [Next]_vars => [Arrays!Next]_<<Contents, call>>
  BY Arrays_Next
<1> QED
  BY <1>1, <1>2, ArraysInvariant, PTL DEF Spec, ArraysAreSequences, Arrays!Spec, Arrays!vars

-----------------------------------------------------------------------------
(* Links *)

(* The nodes of the heap, all made by insertions into one block. *)
Nodes == [inst : {"inst"}, parent : {Block}, prev : Nat, next : Nat]

(* One link is set, and the others stay; a null pointer has none. *)
LEMMA WithNextIs ==
    ASSUME NEW m \in Seq(Nodes), NEW p \in 0 .. Len(m), NEW q \in Nat
    PROVE  /\ WithNext(m, p, q) \in Seq(Nodes)
           /\ Len(WithNext(m, p, q)) = Len(m)
           /\ \A k \in 1 .. Len(m) :
                  /\ WithNext(m, p, q)[k].next = IF k = p THEN q ELSE m[k].next
                  /\ WithNext(m, p, q)[k].prev = m[k].prev
<1>1. Len(m) \in Nat
  OBVIOUS
<1>2. CASE p = nullptr
  <2>1. WithNext(m, p, q) = m
    BY <1>2 DEF WithNext
  <2>2. \A k \in 1 .. Len(m) : k # p
    BY <1>2 DEF nullptr
  <2> QED
    BY <2>1, <2>2
<1>3. CASE p # nullptr
  <2> DEFINE nd == [m[p] EXCEPT !.next = q]
  <2>1. p \in 1 .. Len(m)
    BY <1>1, <1>3 DEF nullptr
  <2>2. m[p] \in Nodes
    BY <2>1, ElementOfSeq
  <2>3. nd \in Nodes /\ nd.next = q /\ nd.prev = m[p].prev
    BY <2>2 DEF Nodes
  <2>4. WithNext(m, p, q) = [m EXCEPT ![p] = nd]
    BY <1>3 DEF WithNext
  <2> HIDE DEF nd
  <2>5. /\ [m EXCEPT ![p] = nd] \in Seq(Nodes)
        /\ Len([m EXCEPT ![p] = nd]) = Len(m)
        /\ \A k \in 1 .. Len(m) : [m EXCEPT ![p] = nd][k] = IF k = p THEN nd ELSE m[k]
    BY <2>1, <2>3, ExceptSeq
  <2> QED
    BY <2>3, <2>4, <2>5
<1> QED
  BY <1>2, <1>3

(* Setting the back link of a node, or of no node. *)
LEMMA WithPrevIs ==
    ASSUME NEW m \in Seq(Nodes), NEW p \in 0 .. Len(m), NEW q \in Nat
    PROVE  /\ WithPrev(m, p, q) \in Seq(Nodes)
           /\ Len(WithPrev(m, p, q)) = Len(m)
           /\ \A k \in 1 .. Len(m) :
                  /\ WithPrev(m, p, q)[k].prev = IF k = p THEN q ELSE m[k].prev
                  /\ WithPrev(m, p, q)[k].next = m[k].next
<1>1. Len(m) \in Nat
  OBVIOUS
<1>2. CASE p = nullptr
  <2>1. WithPrev(m, p, q) = m
    BY <1>2 DEF WithPrev
  <2>2. \A k \in 1 .. Len(m) : k # p
    BY <1>2 DEF nullptr
  <2> QED
    BY <2>1, <2>2
<1>3. CASE p # nullptr
  <2> DEFINE nd == [m[p] EXCEPT !.prev = q]
  <2>1. p \in 1 .. Len(m)
    BY <1>1, <1>3 DEF nullptr
  <2>2. m[p] \in Nodes
    BY <2>1, ElementOfSeq
  <2>3. nd \in Nodes /\ nd.prev = q /\ nd.next = m[p].next
    BY <2>2 DEF Nodes
  <2>4. WithPrev(m, p, q) = [m EXCEPT ![p] = nd]
    BY <1>3 DEF WithPrev
  <2> HIDE DEF nd
  <2>5. /\ [m EXCEPT ![p] = nd] \in Seq(Nodes)
        /\ Len([m EXCEPT ![p] = nd]) = Len(m)
        /\ \A k \in 1 .. Len(m) : [m EXCEPT ![p] = nd][k] = IF k = p THEN nd ELSE m[k]
    BY <2>1, <2>3, ExceptSeq
  <2> QED
    BY <2>3, <2>4, <2>5
<1> QED
  BY <1>2, <1>3

(* Both links of a node are set. *)
WithLinks(m, p, next, prev) == [m EXCEPT ![p].next = next, ![p].prev = prev]

(* Setting both links of a node. *)
LEMMA WithLinksIs ==
    ASSUME NEW m \in Seq(Nodes), NEW p \in 1 .. Len(m), NEW q \in Nat, NEW r \in Nat
    PROVE  /\ WithLinks(m, p, q, r) \in Seq(Nodes)
           /\ Len(WithLinks(m, p, q, r)) = Len(m)
           /\ \A k \in 1 .. Len(m) :
                  /\ WithLinks(m, p, q, r)[k].next = IF k = p THEN q ELSE m[k].next
                  /\ WithLinks(m, p, q, r)[k].prev = IF k = p THEN r ELSE m[k].prev
<1>1. p \in 0 .. Len(m) /\ p # nullptr
  BY DEF nullptr
<1>2. WithLinks(m, p, q, r) = WithPrev(WithNext(m, p, q), p, r)
  BY <1>1 DEF WithLinks, WithNext, WithPrev
<1>3. /\ WithNext(m, p, q) \in Seq(Nodes)
      /\ Len(WithNext(m, p, q)) = Len(m)
      /\ \A k \in 1 .. Len(m) :
             /\ WithNext(m, p, q)[k].next = IF k = p THEN q ELSE m[k].next
             /\ WithNext(m, p, q)[k].prev = m[k].prev
  BY <1>1, WithNextIs
<1> DEFINE n == WithNext(m, p, q)
<1> HIDE DEF n
<1>4. /\ WithPrev(n, p, r) \in Seq(Nodes)
      /\ Len(WithPrev(n, p, r)) = Len(n)
      /\ \A k \in 1 .. Len(n) :
             /\ WithPrev(n, p, r)[k].prev = IF k = p THEN r ELSE n[k].prev
             /\ WithPrev(n, p, r)[k].next = n[k].next
  BY <1>1, <1>3, WithPrevIs DEF n
<1> QED
  BY <1>2, <1>3, <1>4 DEF n

-----------------------------------------------------------------------------
(* Chains *)

(* w is what the links of the heap make of the list: the nodes from the    *)
(* head on, each once, linked in both directions and to nothing else.  The *)
(* tail is one of them or null.                                            *)
IsChain(m, l, w) ==
    /\ w \in Seq(1 .. Len(m))
    /\ Len(w) <= Len(m)
    /\ \A i, k \in 1 .. Len(w) : w[i] = w[k] => i = k
    /\ l.head = IF Len(w) = 0 THEN nullptr ELSE w[1]
    /\ \A k \in 1 .. Len(w) : m[w[k]].next = IF k = Len(w) THEN nullptr ELSE w[k + 1]
    /\ \A k \in 1 .. Len(w) : m[w[k]].prev = IF k = 1 THEN nullptr ELSE w[k - 1]
    /\ l.tail = nullptr \/ \E k \in 1 .. Len(w) : l.tail = w[k]

(* The pointers that a walk over a list goes through: f is the function *)
(* that the definition of Walk is about.                                *)
Followed(m, l, f) ==
    f = [k \in 1 .. Len(m) + 1 |->
            IF k = 1 THEN l.head
            ELSE IF f[k - 1] = nullptr THEN nullptr ELSE m[f[k - 1]].next]

Met(m, l) == CHOOSE f : Followed(m, l, f)

(* There is such a function for a chain. *)
LEMMA ChainIsFollowed ==
    ASSUME NEW m \in Seq(Nodes), NEW l, NEW w, IsChain(m, l, w)
    PROVE  Followed(m, l, [k \in 1 .. Len(m) + 1 |-> IF k <= Len(w) THEN w[k] ELSE nullptr])
<1> DEFINE f == [k \in 1 .. Len(m) + 1 |-> IF k <= Len(w) THEN w[k] ELSE nullptr]
           e(k) == IF k = 1 THEN l.head
                   ELSE IF f[k - 1] = nullptr THEN nullptr ELSE m[f[k - 1]].next
<1>1. Len(m) \in Nat /\ Len(w) \in Nat /\ Len(w) <= Len(m)
  BY DEF IsChain
<1>2. \A k \in 1 .. Len(w) : w[k] \in 1 .. Len(m) /\ w[k] # nullptr
  <2>1. \A k \in 1 .. Len(w) : w[k] \in 1 .. Len(m)
    BY ElementOfSeq DEF IsChain
  <2> QED
    BY <1>1, <2>1 DEF nullptr
<1>3. ASSUME NEW k \in 1 .. Len(m) + 1
      PROVE  f[k] = e(k)
  <2>1. CASE k = 1
    BY <1>1, <2>1 DEF IsChain
  <2>2. CASE k # 1 /\ k - 1 <= Len(w)
    <3>1. k - 1 \in 1 .. Len(w) /\ k - 1 \in 1 .. Len(m) + 1
      BY <1>1, <2>2
    <3>2. f[k - 1] = w[k - 1] /\ f[k - 1] # nullptr
      BY <1>2, <3>1
    <3>3. e(k) = m[w[k - 1]].next
      BY <2>2, <3>2
    <3>4. m[w[k - 1]].next = IF k - 1 = Len(w) THEN nullptr ELSE w[k - 1 + 1]
      BY <3>1 DEF IsChain
    <3>5. f[k] = IF k <= Len(w) THEN w[k] ELSE nullptr
      OBVIOUS
    <3>6. (k - 1 = Len(w) <=> ~(k <= Len(w))) /\ k - 1 + 1 = k
      BY <1>1, <2>2
    <3> HIDE DEF f, e
    <3> QED
      BY <3>3, <3>4, <3>5, <3>6
  <2>3. CASE k # 1 /\ ~(k - 1 <= Len(w))
    <3>1. k - 1 \in 1 .. Len(m) + 1 /\ ~(k <= Len(w))
      BY <1>1, <2>3
    <3>2. f[k - 1] = nullptr /\ f[k] = nullptr
      BY <2>3, <3>1
    <3> HIDE DEF f
    <3> QED
      BY <2>3, <3>2
  <2> QED
    BY <2>1, <2>2, <2>3
<1> QED
  BY <1>3 DEF Followed

(* No other function goes through the pointers of the list. *)
LEMMA FollowedIsUnique ==
    ASSUME NEW m \in Seq(Nodes), NEW l, NEW f, NEW g, Followed(m, l, f), Followed(m, l, g)
    PROVE  f = g
<1> DEFINE D == 1 .. Len(m) + 1
           S == {k \in D : f[k] # g[k]}
           e(h, k) == IF k = 1 THEN l.head
                      ELSE IF h[k - 1] = nullptr THEN nullptr ELSE m[h[k - 1]].next
<1>1. Len(m) \in Nat
  OBVIOUS
<1>2. f = [k \in D |-> e(f, k)] /\ g = [k \in D |-> e(g, k)]
  BY DEF Followed
<1>3. \A k \in D : f[k] = e(f, k) /\ g[k] = e(g, k)
  <2> HIDE DEF e
  <2> QED
    BY <1>2
<1>4. S = {}
  <2> SUFFICES ASSUME S # {} PROVE FALSE
    OBVIOUS
  <2>1. S \in SUBSET Nat
    BY <1>1
  <2>2. PICK k \in S : \A i \in S : k <= i
    <3> HIDE DEF S
    <3> QED
      BY <2>1, NatMin
  <2>3. k \in D /\ f[k] # g[k]
    OBVIOUS
  <2>4. k # 1
    BY <1>3, <2>3
  <2>5. k - 1 \in D /\ ~(k <= k - 1)
    BY <1>1, <2>3, <2>4
  <2>6. f[k - 1] = g[k - 1]
    BY <2>2, <2>5
  <2>7. e(f, k) = e(g, k)
    BY <2>6
  <2> HIDE DEF e, S, D
  <2> QED
    BY <1>3, <2>3, <2>7
<1>5. \A k \in D : f[k] = g[k]
  BY <1>4
<1> HIDE DEF e, D, S
<1> QED
  BY <1>2, <1>5

(* A walk over the list of a chain meets the chain. *)
LEMMA WalkIsChain ==
    ASSUME NEW m \in Seq(Nodes), NEW l, NEW w, IsChain(m, l, w)
    PROVE  Walk(m, l) = w
<1> DEFINE f == [k \in 1 .. Len(m) + 1 |-> IF k <= Len(w) THEN w[k] ELSE nullptr]
<1>1. Followed(m, l, f)
  BY ChainIsFollowed
<1> HIDE DEF f
<1>2. Met(m, l) = f
  <2>1. Followed(m, l, Met(m, l))
    BY <1>1 DEF Met
  <2> QED
    BY <1>1, <2>1, FollowedIsUnique
<1>3. Walk(m, l) = [k \in {i \in 1 .. Len(m) + 1 : Met(m, l)[i] # nullptr} |-> Met(m, l)[k]]
  BY DEF Walk, Met, Followed
<1>4. Walk(m, l) = [k \in {i \in 1 .. Len(m) + 1 : f[i] # nullptr} |-> f[k]]
  BY <1>2, <1>3
<1>5. Len(m) \in Nat /\ Len(w) \in Nat /\ Len(w) <= Len(m)
  BY DEF IsChain
<1>6. \A k \in 1 .. Len(w) : w[k] \in 1 .. Len(m) /\ w[k] # nullptr
  <2>1. \A k \in 1 .. Len(w) : w[k] \in 1 .. Len(m)
    BY ElementOfSeq DEF IsChain
  <2> QED
    BY <1>5, <2>1 DEF nullptr
<1>7. {i \in 1 .. Len(m) + 1 : f[i] # nullptr} = 1 .. Len(w)
  BY <1>5, <1>6 DEF f
<1>8. \A k \in 1 .. Len(w) : f[k] = w[k]
  BY <1>5 DEF f
<1>9. w = [k \in 1 .. Len(w) |-> w[k]]
  BY LenProperties DEF IsChain
<1>10. [k \in 1 .. Len(w) |-> f[k]] = [k \in 1 .. Len(w) |-> w[k]]
  BY <1>8
<1> QED
  BY <1>4, <1>7, <1>9, <1>10

(* A node is put behind the first k of a sequence. *)
Spliced(w, k, n) == Append(SubSeq(w, 1, k), n) \o SubSeq(w, k + 1, Len(w))

(* A sequence with one element put in after position k. *)
LEMMA SplicedIs ==
    ASSUME NEW S, NEW w \in Seq(S), NEW k \in 0 .. Len(w), NEW n \in S
    PROVE  /\ Spliced(w, k, n) \in Seq(S)
           /\ Len(Spliced(w, k, n)) = Len(w) + 1
           /\ \A i \in 1 .. Len(w) + 1 :
                  Spliced(w, k, n)[i] = IF i <= k THEN w[i]
                                        ELSE IF i = k + 1 THEN n ELSE w[i - 1]
<1> DEFINE a == SubSeq(w, 1, k)
           b == SubSeq(w, k + 1, Len(w))
           c == Append(a, n)
           u == c \o b
<1>1. Len(w) \in Nat /\ k \in Nat /\ k <= Len(w)
  OBVIOUS
<1>2. a \in Seq(S) /\ Len(a) = k /\ \A i \in 1 .. k : a[i] = w[i]
  BY PrefixIs
<1>3. \A i \in k + 1 .. Len(w) : w[i] \in S
  BY <1>1, ElementOfSeq
<1>4. /\ b \in Seq(S)
      /\ Len(b) = IF k + 1 <= Len(w) THEN Len(w) - (k + 1) + 1 ELSE 0
      /\ \A i \in 1 .. Len(w) - (k + 1) + 1 : b[i] = w[k + 1 + i - 1]
  <2>1. k + 1 \in Int /\ Len(w) \in Int
    BY <1>1
  <2> QED
    BY <1>3, <2>1, SubSeqProperties
<1>5. Len(b) = Len(w) - k
  BY <1>1, <1>4
<1>6. \A i \in 1 .. Len(w) - k : b[i] = w[k + i]
  <2>1. \A i \in 1 .. Len(w) - k : i \in 1 .. Len(w) - (k + 1) + 1 /\ k + 1 + i - 1 = k + i
    BY <1>1
  <2> HIDE DEF b
  <2> QED
    BY <1>4, <2>1
<1> HIDE DEF a, b
<1>7. /\ c \in Seq(S)
      /\ Len(c) = k + 1
      /\ \A i \in 1 .. k : c[i] = w[i]
      /\ c[k + 1] = n
  BY <1>2, AppendProperties
<1> HIDE DEF c
<1>8. /\ u \in Seq(S)
      /\ Len(u) = Len(c) + Len(b)
      /\ \A i \in 1 .. Len(c) + Len(b) :
             u[i] = IF i <= Len(c) THEN c[i] ELSE b[i - Len(c)]
  BY <1>4, <1>7, ConcatProperties
<1> HIDE DEF u
<1>9. Len(u) = Len(w) + 1
  BY <1>1, <1>5, <1>7, <1>8
<1>10. ASSUME NEW i \in 1 .. Len(w) + 1
       PROVE  u[i] = IF i <= k THEN w[i] ELSE IF i = k + 1 THEN n ELSE w[i - 1]
  <2>1. i \in 1 .. Len(c) + Len(b)
    BY <1>1, <1>5, <1>7
  <2>2. CASE i <= k + 1
    <3>1. u[i] = c[i]
      BY <1>7, <1>8, <2>1, <2>2
    <3>2. i \in 1 .. k \/ i = k + 1
      BY <1>1, <2>2
    <3> QED
      BY <1>1, <1>7, <3>1, <3>2
  <2>3. CASE ~(i <= k + 1)
    <3>1. u[i] = b[i - (k + 1)]
      BY <1>7, <1>8, <2>1, <2>3
    <3>2. i - (k + 1) \in 1 .. Len(w) - k /\ k + (i - (k + 1)) = i - 1
      BY <1>1, <2>3
    <3>3. b[i - (k + 1)] = w[i - 1]
      BY <1>6, <3>2
    <3>4. ~(i <= k) /\ i # k + 1
      BY <1>1, <2>3
    <3> QED
      BY <3>1, <3>3, <3>4
  <2> QED
    BY <1>1, <2>2, <2>3
<1> QED
  BY <1>8, <1>9, <1>10 DEF u, c, b, a, Spliced

(* The node at place k is taken out of a sequence. *)
Cut(w, k) == SubSeq(w, 1, k - 1) \o SubSeq(w, k + 1, Len(w))

(* A sequence without its element at position k. *)
LEMMA CutIs ==
    ASSUME NEW S, NEW w \in Seq(S), NEW k \in 1 .. Len(w)
    PROVE  /\ Cut(w, k) \in Seq(S)
           /\ Len(Cut(w, k)) = Len(w) - 1
           /\ \A i \in 1 .. Len(w) - 1 : Cut(w, k)[i] = IF i < k THEN w[i] ELSE w[i + 1]
<1> DEFINE a == SubSeq(w, 1, k - 1)
           b == SubSeq(w, k + 1, Len(w))
           u == a \o b
<1>1. Len(w) \in Nat /\ k \in Nat /\ k <= Len(w) /\ k >= 1
  OBVIOUS
<1>2. a \in Seq(S) /\ Len(a) = k - 1 /\ \A i \in 1 .. k - 1 : a[i] = w[i]
  <2>1. k - 1 \in 0 .. Len(w)
    BY <1>1
  <2> QED
    BY <2>1, PrefixIs
<1>3. \A i \in k + 1 .. Len(w) : w[i] \in S
  BY <1>1, ElementOfSeq
<1>4. /\ b \in Seq(S)
      /\ Len(b) = IF k + 1 <= Len(w) THEN Len(w) - (k + 1) + 1 ELSE 0
      /\ \A i \in 1 .. Len(w) - (k + 1) + 1 : b[i] = w[k + 1 + i - 1]
  <2>1. k + 1 \in Int /\ Len(w) \in Int
    BY <1>1
  <2> QED
    BY <1>3, <2>1, SubSeqProperties
<1>5. Len(b) = Len(w) - k
  <2>1. Len(b) = IF k + 1 <= Len(w) THEN Len(w) - (k + 1) + 1 ELSE 0
    BY <1>4
  <2> HIDE DEF b
  <2> QED
    BY <1>1, <2>1
<1>6. \A i \in 1 .. Len(w) - k : b[i] = w[k + i]
  <2>1. \A i \in 1 .. Len(w) - k : i \in 1 .. Len(w) - (k + 1) + 1 /\ k + 1 + i - 1 = k + i
    BY <1>1
  <2> HIDE DEF b
  <2> QED
    BY <1>4, <2>1
<1> HIDE DEF a, b
<1>7. /\ u \in Seq(S)
      /\ Len(u) = Len(a) + Len(b)
      /\ \A i \in 1 .. Len(a) + Len(b) :
             u[i] = IF i <= Len(a) THEN a[i] ELSE b[i - Len(a)]
  BY <1>2, <1>4, ConcatProperties
<1> HIDE DEF u
<1>8. Len(u) = Len(w) - 1
  BY <1>1, <1>2, <1>5, <1>7
<1>9. ASSUME NEW i \in 1 .. Len(w) - 1
      PROVE  u[i] = IF i < k THEN w[i] ELSE w[i + 1]
  <2>1. i \in 1 .. Len(a) + Len(b)
    BY <1>1, <1>2, <1>5
  <2>2. CASE i < k
    <3>1. i <= k - 1 /\ i \in 1 .. k - 1
      BY <1>1, <2>2
    <3>2. u[i] = a[i]
      BY <1>2, <1>7, <2>1, <3>1
    <3> QED
      BY <1>2, <2>2, <3>1, <3>2
  <2>3. CASE ~(i < k)
    <3>1. u[i] = b[i - (k - 1)]
      BY <1>1, <1>2, <1>7, <2>1, <2>3
    <3>2. i - (k - 1) \in 1 .. Len(w) - k /\ k + (i - (k - 1)) = i + 1
      BY <1>1, <2>3
    <3>3. b[i - (k - 1)] = w[i + 1]
      BY <1>6, <3>2
    <3> QED
      BY <2>3, <3>1, <3>3
  <2> QED
    BY <2>2, <2>3
<1> QED
  BY <1>7, <1>8, <1>9 DEF u, a, b, Cut

(* The nodes of a chain. *)
LEMMA ChainNodes ==
    ASSUME NEW m \in Seq(Nodes), NEW l, NEW w, IsChain(m, l, w)
    PROVE  /\ Len(m) \in Nat
           /\ Len(w) \in Nat
           /\ Len(w) <= Len(m)
           /\ DOMAIN w = 1 .. Len(w)
           /\ \A k \in 1 .. Len(w) : w[k] \in 1 .. Len(m) /\ w[k] # nullptr
<1>1. Len(m) \in Nat /\ Len(w) \in Nat /\ Len(w) <= Len(m) /\ DOMAIN w = 1 .. Len(w)
  BY LenProperties DEF IsChain
<1>2. \A k \in 1 .. Len(w) : w[k] \in 1 .. Len(m)
  BY ElementOfSeq DEF IsChain
<1> QED
  BY <1>1, <1>2 DEF nullptr

(* Lists of which more nodes may be unlinked than inserted, for all that is *)
(* known of their size.                                                     *)
Lists == [head : Nat, tail : Nat, size : Int]

(* The heap with one node more. *)
MadeOn(m) == Append(m, [NewNode("inst") EXCEPT !.parent = Block])

(* A heap with a new node. *)
LEMMA MadeOnIs ==
    ASSUME NEW m \in Seq(Nodes)
    PROVE  /\ MadeOn(m) \in Seq(Nodes)
           /\ Len(MadeOn(m)) = Len(m) + 1
           /\ \A k \in 1 .. Len(m) : MadeOn(m)[k] = m[k]
<1>1. [NewNode("inst") EXCEPT !.parent = Block] \in Nodes
  BY DEF NewNode, Nodes, nullptr, NoParent, Block
<1> QED
  BY <1>1, AppendProperties DEF MadeOn

(* insert_after links the new node in behind the one at place k. *)
LEMMA LinkedAfterIsChain ==
    ASSUME NEW m \in Seq(Nodes), NEW l \in Lists, NEW w, IsChain(m, l, w), NEW k \in 1 .. Len(w)
    PROVE  LET n == Len(m) + 1
               g == LinkedAfter(MadeOn(m), w[k], n)
           IN  /\ g \in Seq(Nodes)
               /\ Len(g) = n
               /\ IsChain(g, ListWithAfter(l, w[k]),
                          Spliced(w, k, n))
<1> DEFINE n == Len(m) + 1
           a == MadeOn(m)
           p == w[k]
           q == a[p].next
           b == WithLinks(a, n, q, p)
           c == WithPrev(b, q, n)
           g == WithNext(c, p, n)
           u == Spliced(w, k, n)
           h == ListWithAfter(l, w[k])
<1>1. /\ Len(m) \in Nat /\ Len(w) \in Nat /\ Len(w) <= Len(m) /\ n \in Nat
      /\ \A i \in 1 .. Len(w) : w[i] \in 1 .. Len(m) /\ w[i] # nullptr
  BY ChainNodes
<1>2. a \in Seq(Nodes) /\ Len(a) = n /\ \A i \in 1 .. Len(m) : a[i] = m[i]
  BY MadeOnIs
<1>3. p \in 1 .. Len(m) /\ p \in 1 .. n /\ p # n /\ n \in 1 .. n /\ p \in 0 .. n /\ p \in Nat
  BY <1>1
<1>4. q = IF k = Len(w) THEN nullptr ELSE w[k + 1]
  BY <1>2, <1>3 DEF IsChain
<1>5. q \in 0 .. Len(m) /\ q \in 0 .. n /\ q \in Nat /\ q # n
  <2>1. k # Len(w) => k + 1 \in 1 .. Len(w)
    BY <1>1
  <2> HIDE DEF q
  <2> QED
    BY <1>1, <1>4, <2>1 DEF nullptr
<1>6. LinkedAfter(MadeOn(m), w[k], n) = g
  BY DEF LinkedAfter, WithLinks
<1> HIDE DEF a, q, p, n, b, c, g, h, u
<1>7. /\ b \in Seq(Nodes)
      /\ Len(b) = n
      /\ \A i \in 1 .. n : b[i].next = IF i = n THEN q ELSE a[i].next
      /\ \A i \in 1 .. n : b[i].prev = IF i = n THEN p ELSE a[i].prev
  <2>1. a \in Seq(Nodes) /\ n \in 1 .. Len(a) /\ q \in Nat /\ p \in Nat
    BY <1>2, <1>3, <1>5
  <2>2. /\ b \in Seq(Nodes)
        /\ Len(b) = Len(a)
        /\ \A i \in 1 .. Len(a) : /\ b[i].next = IF i = n THEN q ELSE a[i].next
                                  /\ b[i].prev = IF i = n THEN p ELSE a[i].prev
    BY <2>1, WithLinksIs DEF b
  <2> QED
    BY <1>2, <2>2
<1>8. /\ c \in Seq(Nodes)
      /\ Len(c) = n
      /\ \A i \in 1 .. n : c[i].prev = IF i = q THEN n ELSE b[i].prev
      /\ \A i \in 1 .. n : c[i].next = b[i].next
  <2>1. b \in Seq(Nodes) /\ q \in 0 .. Len(b) /\ n \in Nat
    BY <1>1, <1>5, <1>7
  <2>2. /\ c \in Seq(Nodes)
        /\ Len(c) = Len(b)
        /\ \A i \in 1 .. Len(b) : /\ c[i].prev = IF i = q THEN n ELSE b[i].prev
                                  /\ c[i].next = b[i].next
    BY <2>1, WithPrevIs DEF c
  <2> QED
    BY <1>7, <2>2
<1>9. /\ g \in Seq(Nodes)
      /\ Len(g) = n
      /\ \A i \in 1 .. n : g[i].next = IF i = p THEN n ELSE c[i].next
      /\ \A i \in 1 .. n : g[i].prev = c[i].prev
  <2>1. c \in Seq(Nodes) /\ p \in 0 .. Len(c) /\ n \in Nat
    BY <1>1, <1>3, <1>8
  <2>2. /\ g \in Seq(Nodes)
        /\ Len(g) = Len(c)
        /\ \A i \in 1 .. Len(c) : /\ g[i].next = IF i = p THEN n ELSE c[i].next
                                  /\ g[i].prev = c[i].prev
    BY <2>1, WithNextIs DEF g
  <2> QED
    BY <1>8, <2>2
<1>10. \A i \in 1 .. Len(m) : /\ i \in 1 .. n /\ i # n
                              /\ g[i].next = IF i = p THEN n ELSE m[i].next
                              /\ g[i].prev = IF i = q THEN n ELSE m[i].prev
  <2>1. \A i \in 1 .. Len(m) : i \in 1 .. n /\ i # n
    BY <1>1 DEF n
  <2> QED
    BY <1>2, <1>7, <1>8, <1>9, <2>1
<1>11. g[n].next = q /\ g[n].prev = p
  BY <1>3, <1>5, <1>7, <1>8, <1>9
<1>12. w \in Seq(1 .. n) /\ n \in 1 .. n
  <2>1. 1 .. Len(m) \subseteq 1 .. n
    BY <1>10
  <2>2. w \in Seq(1 .. Len(m))
    BY DEF IsChain
  <2> QED
    BY <1>3, <2>1, <2>2, SeqMonotonic
<1>13. /\ u \in Seq(1 .. n)
       /\ Len(u) = Len(w) + 1
       /\ \A i \in 1 .. Len(w) + 1 :
              u[i] = IF i <= k THEN w[i] ELSE IF i = k + 1 THEN n ELSE w[i - 1]
  <2> DEFINE T == 1 .. n
  <2>1. k \in 0 .. Len(w) /\ w \in Seq(T) /\ n \in T
    BY <1>1, <1>12
  <2>2. T = 1 .. n
    OBVIOUS
  <2> HIDE DEF T
  <2>3. /\ Spliced(w, k, n) \in Seq(T)
        /\ Len(Spliced(w, k, n)) = Len(w) + 1
        /\ \A i \in 1 .. Len(w) + 1 :
               Spliced(w, k, n)[i] = IF i <= k THEN w[i] ELSE IF i = k + 1 THEN n ELSE w[i - 1]
    BY <2>1, SplicedIs
  <2> QED
    BY <2>2, <2>3 DEF u
<1>14. \A i \in 1 .. Len(w) : w[i] # n
  BY <1>1, <1>10
<1>15. \A i, j \in 1 .. Len(u) : u[i] = u[j] => i = j
  <2> SUFFICES ASSUME NEW i \in 1 .. Len(w) + 1, NEW j \in 1 .. Len(w) + 1, u[i] = u[j]
               PROVE  i = j
    BY <1>13
  <2> DEFINE at(x) == IF x <= k THEN x ELSE x - 1
  <2>1. \A x \in 1 .. Len(w) + 1 : x # k + 1 => at(x) \in 1 .. Len(w) /\ u[x] = w[at(x)]
    BY <1>1, <1>13
  <2>2. u[k + 1] = n
    BY <1>1, <1>13
  <2>3. CASE i = k + 1 \/ j = k + 1
    <3>1. \A x \in 1 .. Len(w) + 1 : x # k + 1 => u[x] # n
      <4> HIDE DEF at
      <4> QED
        BY <1>14, <2>1
    <3> QED
      BY <2>2, <2>3, <3>1
  <2>4. CASE i # k + 1 /\ j # k + 1
    <3>1. at(i) = at(j)
      <4>1. at(i) \in 1 .. Len(w) /\ at(j) \in 1 .. Len(w) /\ w[at(i)] = w[at(j)]
        <5> HIDE DEF at
        <5> QED
          BY <2>1, <2>4
      <4> HIDE DEF at
      <4> QED
        BY <4>1 DEF IsChain
    <3> QED
      BY <1>1, <2>4, <3>1
  <2> QED
    BY <2>3, <2>4
<1>16. \A i \in 1 .. Len(u) : g[u[i]].next = IF i = Len(u) THEN nullptr ELSE u[i + 1]
  <2> SUFFICES ASSUME NEW i \in 1 .. Len(w) + 1
               PROVE  g[u[i]].next = IF i = Len(w) + 1 THEN nullptr ELSE u[i + 1]
    BY <1>13
  <2>1. CASE i < k
    <3>1. i \in 1 .. Len(w) /\ i + 1 \in 1 .. Len(w) + 1 /\ i # k /\ i # Len(w) /\ i + 1 <= k
      BY <1>1, <2>1
    <3>2. u[i] = w[i] /\ u[i + 1] = w[i + 1]
      BY <1>13, <2>1, <3>1
    <3>3. w[i] # p
      BY <3>1 DEF IsChain, p
    <3>4. g[w[i]].next = m[w[i]].next
      BY <1>1, <1>10, <3>1, <3>3
    <3>5. m[w[i]].next = w[i + 1]
      BY <3>1 DEF IsChain
    <3> QED
      BY <1>1, <3>1, <3>2, <3>4, <3>5
  <2>2. CASE i = k
    <3>1. u[k] = p /\ u[k + 1] = n /\ k # Len(w) + 1
      BY <1>1, <1>13 DEF p
    <3> QED
      BY <1>3, <1>10, <2>2, <3>1
  <2>3. CASE i = k + 1
    <3>1. u[i] = n
      BY <1>1, <1>13, <2>3
    <3>2. k # Len(w) => u[i + 1] = w[k + 1]
      BY <1>1, <1>13, <2>3
    <3> QED
      BY <1>1, <1>4, <1>11, <2>3, <3>1, <3>2
  <2>4. CASE i > k + 1
    <3>1. i - 1 \in 1 .. Len(w) /\ ~(i <= k) /\ i # k + 1 /\ i - 1 # k
      BY <1>1, <2>4
    <3>2. u[i] = w[i - 1]
      BY <1>13, <3>1
    <3>3. w[i - 1] # p
      BY <3>1 DEF IsChain, p
    <3>4. g[w[i - 1]].next = m[w[i - 1]].next
      BY <1>1, <1>10, <3>1, <3>3
    <3>5. m[w[i - 1]].next = IF i - 1 = Len(w) THEN nullptr ELSE w[i - 1 + 1]
      BY <3>1 DEF IsChain
    <3>6. i # Len(w) + 1 => u[i + 1] = w[i]
      <4>1. i # Len(w) + 1 => i + 1 \in 1 .. Len(w) + 1 /\ ~(i + 1 <= k) /\ i + 1 # k + 1
                              /\ i + 1 - 1 = i
        BY <1>1, <2>4
      <4> QED
        BY <1>13, <4>1
    <3>7. (i - 1 = Len(w) <=> i = Len(w) + 1) /\ i - 1 + 1 = i
      BY <1>1
    <3> QED
      BY <3>2, <3>4, <3>5, <3>6, <3>7
  <2> QED
    BY <1>1, <2>1, <2>2, <2>3, <2>4
<1>17. \A i \in 1 .. Len(u) : g[u[i]].prev = IF i = 1 THEN nullptr ELSE u[i - 1]
  <2> SUFFICES ASSUME NEW i \in 1 .. Len(w) + 1
               PROVE  g[u[i]].prev = IF i = 1 THEN nullptr ELSE u[i - 1]
    BY <1>13
  <2>1. CASE i <= k
    <3>1. i \in 1 .. Len(w) /\ (k # Len(w) => k + 1 \in 1 .. Len(w)) /\ i # k + 1
          /\ (i # 1 => i - 1 \in 1 .. Len(w) + 1 /\ i - 1 <= k)
      BY <1>1, <2>1
    <3>2. u[i] = w[i] /\ (i # 1 => u[i - 1] = w[i - 1])
      BY <1>13, <2>1, <3>1
    <3>3. w[i] # q
      BY <1>1, <1>4, <3>1 DEF IsChain
    <3>4. g[w[i]].prev = m[w[i]].prev
      BY <1>1, <1>10, <3>1, <3>3
    <3>5. m[w[i]].prev = IF i = 1 THEN nullptr ELSE w[i - 1]
      BY <3>1 DEF IsChain
    <3> QED
      BY <3>2, <3>4, <3>5
  <2>2. CASE i = k + 1
    <3>1. u[k + 1] = n /\ u[k] = p /\ i # 1 /\ i - 1 = k
      BY <1>1, <1>13, <2>2 DEF p
    <3> QED
      BY <1>11, <2>2, <3>1
  <2>3. CASE i = k + 2
    <3>1. k + 1 \in 1 .. Len(w) /\ ~(k + 2 <= k) /\ k + 2 # k + 1 /\ k + 2 - 1 = k + 1
          /\ k + 2 \in 1 .. Len(w) + 1 /\ k # Len(w) /\ i # 1
      BY <1>1, <2>3
    <3>2. u[i] = w[k + 1] /\ u[k + 1] = n
      BY <1>1, <1>13, <2>3, <3>1
    <3>3. w[k + 1] = q
      BY <1>4, <3>1
    <3>4. g[w[k + 1]].prev = n
      BY <1>1, <1>10, <3>1, <3>3
    <3> QED
      BY <2>3, <3>1, <3>2, <3>4
  <2>4. CASE i > k + 2
    <3>1. i - 1 \in 1 .. Len(w) /\ ~(i <= k) /\ i # k + 1 /\ i - 1 # k + 1 /\ i # 1 /\ i - 1 # 1
          /\ i - 1 \in 1 .. Len(w) + 1 /\ ~(i - 1 <= k) /\ k + 1 \in 1 .. Len(w) /\ k # Len(w)
      BY <1>1, <2>4
    <3>2. u[i] = w[i - 1] /\ u[i - 1] = w[i - 1 - 1]
      BY <1>13, <3>1
    <3>3. w[i - 1] # q
      BY <1>4, <3>1 DEF IsChain
    <3>4. g[w[i - 1]].prev = m[w[i - 1]].prev
      BY <1>1, <1>10, <3>1, <3>3
    <3>5. m[w[i - 1]].prev = w[i - 1 - 1]
      BY <3>1 DEF IsChain
    <3> QED
      BY <3>1, <3>2, <3>4, <3>5
  <2> QED
    BY <1>1, <2>1, <2>2, <2>3, <2>4
<1>18. h.head = l.head /\ h.tail = l.tail
  BY DEF ListWithAfter, Lists, h
<1>19. h.head = IF Len(u) = 0 THEN nullptr ELSE u[1]
  <2>1. Len(u) # 0 /\ Len(w) # 0 /\ 1 \in 1 .. Len(w) + 1 /\ 1 <= k
    BY <1>1, <1>13
  <2>2. u[1] = w[1] /\ l.head = w[1]
    BY <1>13, <2>1 DEF IsChain
  <2> QED
    BY <1>18, <2>1, <2>2
<1>20. h.tail = nullptr \/ \E i \in 1 .. Len(u) : h.tail = u[i]
  <2>1. CASE l.tail = nullptr
    BY <1>18, <2>1
  <2>2. CASE l.tail # nullptr
    <3>1. PICK j \in 1 .. Len(w) : l.tail = w[j]
      BY <2>2 DEF IsChain
    <3>2. CASE j <= k
      <4>1. j \in 1 .. Len(u) /\ u[j] = w[j]
        BY <1>1, <1>13, <3>2
      <4> QED
        BY <1>18, <3>1, <4>1
    <3>3. CASE ~(j <= k)
      <4>1. j + 1 \in 1 .. Len(w) + 1 /\ ~(j + 1 <= k) /\ j + 1 # k + 1 /\ j + 1 - 1 = j
        BY <1>1, <3>3
      <4>2. j + 1 \in 1 .. Len(u) /\ u[j + 1] = w[j]
        BY <1>13, <4>1
      <4> QED
        BY <1>18, <3>1, <4>2
    <3> QED
      BY <3>2, <3>3
  <2> QED
    BY <2>1, <2>2
<1>21. Len(u) <= Len(g) /\ u \in Seq(1 .. Len(g))
  BY <1>1, <1>9, <1>13 DEF n
<1>22. IsChain(g, h, u)
  BY <1>15, <1>16, <1>17, <1>19, <1>20, <1>21 DEF IsChain
<1> QED
  BY <1>6, <1>9, <1>22 DEF h, u, n

(* insert_at_end links the new node in behind the tail, which is at place j, *)
(* and what was behind it is not met any more.                               *)
LEMMA LinkedIsChain ==
    ASSUME NEW m \in Seq(Nodes), NEW l \in Lists, NEW w, IsChain(m, l, w), NEW j \in 0 .. Len(w),
           j <= 0 => Len(w) <= 0 /\ l.tail = nullptr,
           j >= 1 => l.tail = w[j]
    PROVE  LET n == Len(m) + 1
               g == Linked(MadeOn(m), l, n)
           IN  /\ g \in Seq(Nodes)
               /\ Len(g) = n
               /\ IsChain(g, ListWith(l, n), Append(SubSeq(w, 1, j), n))
<1> DEFINE n == Len(m) + 1
           a == MadeOn(m)
           t == l.tail
           b == WithLinks(a, n, nullptr, t)
           g == WithNext(b, t, n)
           u == Append(SubSeq(w, 1, j), n)
           h == ListWith(l, n)
<1>1. /\ Len(m) \in Nat /\ Len(w) \in Nat /\ Len(w) <= Len(m) /\ n \in Nat
      /\ \A i \in 1 .. Len(w) : w[i] \in 1 .. Len(m) /\ w[i] # nullptr
  BY ChainNodes
<1>2. a \in Seq(Nodes) /\ Len(a) = n /\ \A i \in 1 .. Len(m) : a[i] = m[i]
  BY MadeOnIs
<1>3. n \in 1 .. n /\ \A i \in 1 .. Len(m) : i \in 1 .. n /\ i # n
  BY <1>1
<1>4. t \in Nat /\ t \in 0 .. n /\ t # n /\ nullptr \in Nat /\ j \in Nat
  <2>1. j >= 1 => j \in 1 .. Len(w)
    BY <1>1
  <2>2. j <= 0 \/ j >= 1
    BY <1>1
  <2> QED
    BY <1>1, <1>3, <2>1, <2>2 DEF nullptr
<1>5. Linked(MadeOn(m), l, n) = g
  BY DEF Linked, WithLinks
<1> HIDE DEF a, n, b, t, g, h, u
<1>6. /\ b \in Seq(Nodes)
      /\ Len(b) = n
      /\ \A i \in 1 .. n : b[i].next = IF i = n THEN nullptr ELSE a[i].next
      /\ \A i \in 1 .. n : b[i].prev = IF i = n THEN t ELSE a[i].prev
  <2>1. a \in Seq(Nodes) /\ n \in 1 .. Len(a) /\ nullptr \in Nat /\ t \in Nat
    BY <1>2, <1>3, <1>4
  <2>2. /\ b \in Seq(Nodes)
        /\ Len(b) = Len(a)
        /\ \A i \in 1 .. Len(a) : /\ b[i].next = IF i = n THEN nullptr ELSE a[i].next
                                  /\ b[i].prev = IF i = n THEN t ELSE a[i].prev
    BY <2>1, WithLinksIs DEF b
  <2> QED
    BY <1>2, <2>2
<1>7. /\ g \in Seq(Nodes)
      /\ Len(g) = n
      /\ \A i \in 1 .. n : g[i].next = IF i = t THEN n ELSE b[i].next
      /\ \A i \in 1 .. n : g[i].prev = b[i].prev
  <2>1. b \in Seq(Nodes) /\ t \in 0 .. Len(b) /\ n \in Nat
    BY <1>1, <1>4, <1>6
  <2>2. /\ g \in Seq(Nodes)
        /\ Len(g) = Len(b)
        /\ \A i \in 1 .. Len(b) : /\ g[i].next = IF i = t THEN n ELSE b[i].next
                                  /\ g[i].prev = b[i].prev
    BY <2>1, WithNextIs DEF g
  <2> QED
    BY <1>6, <2>2
<1>8. \A i \in 1 .. Len(m) : /\ g[i].next = IF i = t THEN n ELSE m[i].next
                             /\ g[i].prev = m[i].prev
  BY <1>2, <1>3, <1>6, <1>7
<1>9. g[n].next = nullptr /\ g[n].prev = t
  BY <1>3, <1>4, <1>6, <1>7
<1>10. w \in Seq(1 .. n)
  <2>1. 1 .. Len(m) \subseteq 1 .. n
    BY <1>3
  <2>2. w \in Seq(1 .. Len(m))
    BY DEF IsChain
  <2> QED
    BY <2>1, <2>2, SeqMonotonic
<1>11. /\ u \in Seq(1 .. n)
       /\ Len(u) = j + 1
       /\ \A i \in 1 .. j : u[i] = w[i]
       /\ u[j + 1] = n
  <2> DEFINE T == 1 .. n
             c == SubSeq(w, 1, j)
  <2>1. w \in Seq(T) /\ n \in T
    BY <1>3, <1>10
  <2>2. T = 1 .. n
    OBVIOUS
  <2> HIDE DEF T
  <2>3. c \in Seq(T) /\ Len(c) = j /\ \A i \in 1 .. j : c[i] = w[i]
    BY <2>1, PrefixIs
  <2> HIDE DEF c
  <2>4. /\ Append(c, n) \in Seq(T)
        /\ Len(Append(c, n)) = Len(c) + 1
        /\ \A i \in 1 .. Len(c) : Append(c, n)[i] = c[i]
        /\ Append(c, n)[Len(c) + 1] = n
    BY <2>1, <2>3, AppendProperties
  <2>5. u = Append(c, n)
    BY DEF u, c
  <2> QED
    BY <2>2, <2>3, <2>4, <2>5
<1>12. \A i \in 1 .. j : i \in 1 .. Len(w) /\ i \in 1 .. j + 1
  BY <1>1, <1>4
<1>13. \A i, k \in 1 .. Len(u) : u[i] = u[k] => i = k
  <2> SUFFICES ASSUME NEW i \in 1 .. j + 1, NEW k \in 1 .. j + 1, u[i] = u[k]
               PROVE  i = k
    BY <1>11
  <2>1. \A x \in 1 .. j + 1 : x \in 1 .. j \/ x = j + 1
    BY <1>4
  <2>2. \A x \in 1 .. j : u[x] = w[x] /\ u[x] # n
    BY <1>1, <1>3, <1>11, <1>12
  <2>3. CASE i = j + 1 \/ k = j + 1
    BY <1>11, <2>1, <2>2, <2>3
  <2>4. CASE i # j + 1 /\ k # j + 1
    <3>1. i \in 1 .. j /\ k \in 1 .. j
      BY <2>1, <2>4
    <3>2. w[i] = w[k] /\ i \in 1 .. Len(w) /\ k \in 1 .. Len(w)
      BY <1>12, <2>2, <3>1
    <3> QED
      BY <3>2 DEF IsChain
  <2> QED
    BY <2>3, <2>4
<1>14. \A i \in 1 .. Len(u) : g[u[i]].next = IF i = Len(u) THEN nullptr ELSE u[i + 1]
  <2> SUFFICES ASSUME NEW i \in 1 .. j + 1
               PROVE  g[u[i]].next = IF i = j + 1 THEN nullptr ELSE u[i + 1]
    BY <1>11
  <2>1. CASE i < j
    <3>1. i \in 1 .. j /\ i + 1 \in 1 .. j /\ i # j + 1 /\ i # Len(w) /\ j \in 1 .. Len(w) /\ i # j
      BY <1>1, <1>4, <2>1
    <3>2. u[i] = w[i] /\ u[i + 1] = w[i + 1] /\ i \in 1 .. Len(w)
      BY <1>11, <1>12, <3>1
    <3>3. w[i] # w[j]
      BY <3>1, <3>2 DEF IsChain
    <3>4. w[i] # t
      BY <3>1, <3>3 DEF t
    <3>5. g[w[i]].next = m[w[i]].next
      BY <1>1, <1>8, <3>2, <3>4
    <3>6. m[w[i]].next = w[i + 1]
      BY <3>1, <3>2 DEF IsChain
    <3> QED
      BY <3>1, <3>2, <3>5, <3>6
  <2>2. CASE i = j
    <3>1. j \in 1 .. j /\ j \in 1 .. Len(w) /\ j >= 1 /\ j # j + 1
      BY <1>1, <1>4, <2>2
    <3>2. u[j] = t /\ u[j + 1] = n /\ t \in 1 .. Len(m)
      BY <1>1, <1>11, <3>1 DEF t
    <3> QED
      BY <1>8, <2>2, <3>1, <3>2
  <2>3. CASE i = j + 1
    BY <1>9, <1>11, <2>3
  <2> QED
    BY <1>4, <2>1, <2>2, <2>3
<1>15. \A i \in 1 .. Len(u) : g[u[i]].prev = IF i = 1 THEN nullptr ELSE u[i - 1]
  <2> SUFFICES ASSUME NEW i \in 1 .. j + 1
               PROVE  g[u[i]].prev = IF i = 1 THEN nullptr ELSE u[i - 1]
    BY <1>11
  <2>1. CASE i <= j
    <3>1. i \in 1 .. j /\ (i # 1 => i - 1 \in 1 .. j)
      BY <1>4, <2>1
    <3>2. u[i] = w[i] /\ (i # 1 => u[i - 1] = w[i - 1]) /\ i \in 1 .. Len(w)
      BY <1>11, <1>12, <3>1
    <3>3. g[w[i]].prev = m[w[i]].prev
      BY <1>1, <1>8, <3>2
    <3>4. m[w[i]].prev = IF i = 1 THEN nullptr ELSE w[i - 1]
      BY <3>2 DEF IsChain
    <3> QED
      BY <3>2, <3>3, <3>4
  <2>2. CASE i = j + 1 /\ j <= 0
    <3>1. i = 1 /\ t = nullptr
      BY <1>4, <2>2 DEF t
    <3> QED
      BY <1>9, <1>11, <2>2, <3>1
  <2>3. CASE i = j + 1 /\ j >= 1
    <3>1. j \in 1 .. j /\ t = w[j] /\ i # 1 /\ i - 1 = j
      BY <1>4, <2>3 DEF t
    <3>2. u[j] = t
      BY <1>11, <3>1
    <3> QED
      BY <1>9, <1>11, <2>3, <3>1, <3>2
  <2> QED
    BY <1>4, <2>1, <2>2, <2>3
<1>16. h.head = (IF l.head = nullptr THEN n ELSE l.head) /\ h.tail = n
  BY DEF ListWith, h
<1>17. h.head = IF Len(u) = 0 THEN nullptr ELSE u[1]
  <2>1. Len(u) # 0
    BY <1>4, <1>11
  <2>2. CASE j <= 0
    <3>1. j + 1 = 1 /\ Len(w) = 0
      BY <1>1, <1>4, <2>2
    <3>2. l.head = nullptr
      BY <3>1 DEF IsChain
    <3>3. u[1] = n
      BY <1>11, <3>1
    <3> QED
      BY <1>16, <2>1, <3>2, <3>3
  <2>3. CASE j >= 1
    <3>1. 1 \in 1 .. j /\ Len(w) # 0 /\ 1 \in 1 .. Len(w)
      BY <1>1, <1>4, <2>3
    <3>2. l.head = w[1] /\ w[1] # nullptr
      BY <1>1, <3>1 DEF IsChain
    <3> QED
      BY <1>11, <1>16, <2>1, <3>1, <3>2
  <2> QED
    BY <1>4, <2>2, <2>3
<1>18. h.tail = nullptr \/ \E i \in 1 .. Len(u) : h.tail = u[i]
  <2>1. j + 1 \in 1 .. Len(u)
    BY <1>4, <1>11
  <2> QED
    BY <1>11, <1>16, <2>1
<1>19. Len(u) <= Len(g) /\ u \in Seq(1 .. Len(g))
  BY <1>1, <1>4, <1>7, <1>11 DEF n
<1>20. IsChain(g, h, u)
  BY <1>13, <1>14, <1>15, <1>17, <1>18, <1>19 DEF IsChain
<1> QED
  BY <1>5, <1>7, <1>20 DEF h, u, n

(* unlink takes the node at place k out. *)
LEMMA UnlinkedIsChain ==
    ASSUME NEW m \in Seq(Nodes), NEW l \in Lists, NEW w, IsChain(m, l, w), NEW k \in 1 .. Len(w)
    PROVE  /\ Unlinked(m, w[k]) \in Seq(Nodes)
           /\ Len(Unlinked(m, w[k])) = Len(m)
           /\ IsChain(Unlinked(m, w[k]), ListWithout(m, l, w[k]), Cut(w, k))
           /\ l.tail = w[k] => ListWithout(m, l, w[k]).tail = (IF k = 1 THEN nullptr ELSE w[k - 1])
<1> DEFINE p == w[k]
           q == m[p].next
           r == m[p].prev
           b == WithNext(m, r, q)
           g == WithPrev(b, q, r)
           u == Cut(w, k)
           h == ListWithout(m, l, w[k])
<1>1. /\ Len(m) \in Nat /\ Len(w) \in Nat /\ Len(w) <= Len(m) /\ k \in Nat /\ k >= 1 /\ k <= Len(w)
      /\ \A i \in 1 .. Len(w) : w[i] \in 1 .. Len(m) /\ w[i] # nullptr
  BY ChainNodes
<1>2. q = IF k = Len(w) THEN nullptr ELSE w[k + 1]
  BY DEF IsChain
<1>3. r = IF k = 1 THEN nullptr ELSE w[k - 1]
  BY DEF IsChain
<1>4. k # Len(w) => k + 1 \in 1 .. Len(w)
  BY <1>1
<1>5. k # 1 => k - 1 \in 1 .. Len(w)
  BY <1>1
<1>6. Unlinked(m, w[k]) = g
  BY DEF Unlinked
<1>7. h.head = (IF p = l.head THEN q ELSE l.head) /\ h.tail = (IF p = l.tail THEN r ELSE l.tail)
  BY DEF ListWithout, Lists
<1> HIDE DEF p, q, r, b, g, u, h
<1>8. q \in 0 .. Len(m) /\ q \in Nat /\ r \in 0 .. Len(m) /\ r \in Nat
  BY <1>1, <1>2, <1>3, <1>4, <1>5 DEF nullptr
<1>9. /\ b \in Seq(Nodes)
      /\ Len(b) = Len(m)
      /\ \A i \in 1 .. Len(m) : /\ b[i].next = IF i = r THEN q ELSE m[i].next
                                /\ b[i].prev = m[i].prev
  BY <1>8, WithNextIs DEF b
<1>10. /\ g \in Seq(Nodes)
       /\ Len(g) = Len(m)
       /\ \A i \in 1 .. Len(m) : /\ g[i].prev = IF i = q THEN r ELSE b[i].prev
                                 /\ g[i].next = b[i].next
  <2>1. b \in Seq(Nodes) /\ q \in 0 .. Len(b) /\ r \in Nat
    BY <1>8, <1>9
  <2>2. /\ g \in Seq(Nodes)
        /\ Len(g) = Len(b)
        /\ \A i \in 1 .. Len(b) : /\ g[i].prev = IF i = q THEN r ELSE b[i].prev
                                  /\ g[i].next = b[i].next
    BY <2>1, WithPrevIs DEF g
  <2> QED
    BY <1>9, <2>2
<1>11. \A i \in 1 .. Len(m) : /\ g[i].next = IF i = r THEN q ELSE m[i].next
                              /\ g[i].prev = IF i = q THEN r ELSE m[i].prev
  BY <1>9, <1>10
<1>12. /\ u \in Seq(1 .. Len(m))
       /\ Len(u) = Len(w) - 1
       /\ \A i \in 1 .. Len(w) - 1 : u[i] = IF i < k THEN w[i] ELSE w[i + 1]
  <2> DEFINE T == 1 .. Len(m)
  <2>1. w \in Seq(T)
    BY DEF IsChain
  <2> HIDE DEF T
  <2>2. /\ Cut(w, k) \in Seq(T)
        /\ Len(Cut(w, k)) = Len(w) - 1
        /\ \A i \in 1 .. Len(w) - 1 : Cut(w, k)[i] = IF i < k THEN w[i] ELSE w[i + 1]
    BY <2>1, CutIs
  <2> QED
    BY <2>2 DEF u, T
<1> DEFINE at(x) == IF x < k THEN x ELSE x + 1
<1>13. \A x \in 1 .. Len(w) - 1 : at(x) \in 1 .. Len(w) /\ u[x] = w[at(x)]
  BY <1>1, <1>12
<1>14. \A i, j \in 1 .. Len(u) : u[i] = u[j] => i = j
  <2> SUFFICES ASSUME NEW i \in 1 .. Len(w) - 1, NEW j \in 1 .. Len(w) - 1, u[i] = u[j]
               PROVE  i = j
    BY <1>12
  <2>1. at(i) = at(j)
    <3>1. at(i) \in 1 .. Len(w) /\ at(j) \in 1 .. Len(w) /\ w[at(i)] = w[at(j)]
      <4> HIDE DEF at
      <4> QED
        BY <1>13
    <3> HIDE DEF at
    <3> QED
      BY <3>1 DEF IsChain
  <2> QED
    BY <1>1, <2>1
<1> HIDE DEF at
<1>15. \A i \in 1 .. Len(w) : /\ w[i] = r <=> k # 1 /\ i = k - 1
                              /\ w[i] = q <=> k # Len(w) /\ i = k + 1
  <2> SUFFICES ASSUME NEW i \in 1 .. Len(w)
               PROVE  /\ w[i] = r <=> k # 1 /\ i = k - 1
                      /\ w[i] = q <=> k # Len(w) /\ i = k + 1
    OBVIOUS
  <2>1. w[i] # nullptr
    BY <1>1
  <2>2. \A x \in 1 .. Len(w) : w[i] = w[x] => i = x
    BY DEF IsChain
  <2> QED
    BY <1>2, <1>3, <1>4, <1>5, <2>1, <2>2
<1>16. \A i \in 1 .. Len(u) : g[u[i]].next = IF i = Len(u) THEN nullptr ELSE u[i + 1]
  <2> SUFFICES ASSUME NEW i \in 1 .. Len(w) - 1
               PROVE  g[u[i]].next = IF i = Len(w) - 1 THEN nullptr ELSE u[i + 1]
    BY <1>12
  <2>1. CASE i < k - 1
    <3>1. i \in 1 .. Len(w) /\ i + 1 \in 1 .. Len(w) - 1 /\ i < k /\ i + 1 < k /\ i # k - 1
          /\ i # Len(w) /\ i # Len(w) - 1
      BY <1>1, <2>1
    <3>2. u[i] = w[i] /\ u[i + 1] = w[i + 1]
      BY <1>12, <3>1
    <3>3. g[w[i]].next = m[w[i]].next
      BY <1>1, <1>11, <1>15, <3>1
    <3>4. m[w[i]].next = w[i + 1]
      BY <3>1 DEF IsChain
    <3> QED
      BY <3>1, <3>2, <3>3, <3>4
  <2>2. CASE i = k - 1
    <3>1. i \in 1 .. Len(w) /\ i < k /\ k # 1 /\ (k = Len(w) <=> i = Len(w) - 1)
          /\ ~(i + 1 < k) /\ i + 1 + 1 = k + 1
      BY <1>1, <2>2
    <3>2. u[i] = w[i]
      BY <1>12, <3>1
    <3>3. i # Len(w) - 1 => i + 1 \in 1 .. Len(w) - 1
      BY <1>1
    <3>4. i # Len(w) - 1 => u[i + 1] = w[k + 1]
      BY <1>12, <3>1, <3>3
    <3>5. w[i] = r
      BY <1>15, <2>2, <3>1
    <3>6. g[w[i]].next = q
      BY <1>1, <1>11, <3>1, <3>5
    <3> QED
      BY <1>2, <3>1, <3>2, <3>4, <3>6
  <2>3. CASE i >= k
    <3>1. i + 1 \in 1 .. Len(w) /\ ~(i < k) /\ i + 1 # k - 1 /\ (i + 1 = Len(w) <=> i = Len(w) - 1)
          /\ ~(i + 1 < k)
      BY <1>1, <2>3
    <3>2. u[i] = w[i + 1]
      BY <1>12, <3>1
    <3>3. i # Len(w) - 1 => i + 1 \in 1 .. Len(w) - 1
      BY <1>1
    <3>4. i # Len(w) - 1 => u[i + 1] = w[i + 1 + 1]
      BY <1>12, <3>1, <3>3
    <3>5. g[w[i + 1]].next = m[w[i + 1]].next
      BY <1>1, <1>11, <1>15, <3>1
    <3>6. m[w[i + 1]].next = IF i + 1 = Len(w) THEN nullptr ELSE w[i + 1 + 1]
      BY <3>1 DEF IsChain
    <3> QED
      BY <3>1, <3>2, <3>4, <3>5, <3>6
  <2> QED
    BY <1>1, <2>1, <2>2, <2>3
<1>17. \A i \in 1 .. Len(u) : g[u[i]].prev = IF i = 1 THEN nullptr ELSE u[i - 1]
  <2> SUFFICES ASSUME NEW i \in 1 .. Len(w) - 1
               PROVE  g[u[i]].prev = IF i = 1 THEN nullptr ELSE u[i - 1]
    BY <1>12
  <2>1. CASE i < k
    <3>1. i \in 1 .. Len(w) /\ i # k + 1 /\ (i # 1 => i - 1 \in 1 .. Len(w) - 1 /\ i - 1 < k)
      BY <1>1, <2>1
    <3>2. u[i] = w[i] /\ (i # 1 => u[i - 1] = w[i - 1])
      BY <1>12, <2>1, <3>1
    <3>3. g[w[i]].prev = m[w[i]].prev
      BY <1>1, <1>11, <1>15, <3>1
    <3>4. m[w[i]].prev = IF i = 1 THEN nullptr ELSE w[i - 1]
      BY <3>1 DEF IsChain
    <3> QED
      BY <3>2, <3>3, <3>4
  <2>2. CASE i = k
    <3>1. i + 1 \in 1 .. Len(w) /\ ~(i < k) /\ k # Len(w)
          /\ (k # 1 => i - 1 \in 1 .. Len(w) - 1 /\ i - 1 < k)
      BY <1>1, <2>2
    <3>2. u[i] = w[i + 1] /\ (i # 1 => u[i - 1] = w[i - 1])
      BY <1>12, <2>2, <3>1
    <3>3. w[i + 1] = q
      BY <1>15, <2>2, <3>1
    <3>4. g[w[i + 1]].prev = r
      BY <1>1, <1>11, <3>1, <3>3
    <3> QED
      BY <1>3, <2>2, <3>2, <3>4
  <2>3. CASE i > k
    <3>1. i + 1 \in 1 .. Len(w) /\ ~(i < k) /\ i + 1 # k + 1 /\ i # 1 /\ i + 1 # 1
          /\ i - 1 \in 1 .. Len(w) - 1 /\ ~(i - 1 < k) /\ i - 1 + 1 = i /\ i + 1 - 1 = i
      BY <1>1, <2>3
    <3>2. u[i] = w[i + 1] /\ u[i - 1] = w[i]
      BY <1>12, <3>1
    <3>3. g[w[i + 1]].prev = m[w[i + 1]].prev
      BY <1>1, <1>11, <1>15, <3>1
    <3>4. m[w[i + 1]].prev = IF i + 1 = 1 THEN nullptr ELSE w[i + 1 - 1]
      <4>1. i + 1 \in 1 .. Len(w)
        BY <3>1
      <4> QED
        BY <4>1 DEF IsChain
    <3> QED
      BY <3>1, <3>2, <3>3, <3>4
  <2> QED
    BY <1>1, <2>1, <2>2, <2>3
<1>18. h.head = IF Len(u) = 0 THEN nullptr ELSE u[1]
  <2>1. l.head = w[1] /\ 1 \in 1 .. Len(w)
    BY <1>1 DEF IsChain
  <2>2. p = l.head <=> k = 1
    BY <2>1 DEF IsChain, p
  <2>3. CASE k = 1
    <3>1. Len(u) = 0 <=> k = Len(w)
      BY <1>1, <1>12, <2>3
    <3>2. Len(u) # 0 => u[1] = w[k + 1]
      BY <1>1, <1>12, <2>3
    <3> QED
      BY <1>2, <1>7, <2>2, <2>3, <3>1, <3>2
  <2>4. CASE k # 1
    <3>1. Len(u) # 0 /\ 1 \in 1 .. Len(w) - 1 /\ 1 < k
      BY <1>1, <1>12, <2>4
    <3>2. u[1] = w[1]
      BY <1>12, <3>1
    <3> QED
      BY <1>7, <2>1, <2>2, <2>4, <3>1, <3>2
  <2> QED
    BY <2>3, <2>4
<1>19. h.tail = nullptr \/ \E i \in 1 .. Len(u) : h.tail = u[i]
  <2>1. CASE l.tail = nullptr
    BY <1>1, <1>7, <2>1 DEF p
  <2>2. CASE l.tail # nullptr
    <3>1. PICK j \in 1 .. Len(w) : l.tail = w[j]
      BY <2>2 DEF IsChain
    <3>2. CASE j < k
      <4>1. w[j] # p
        BY <3>1, <3>2 DEF IsChain, p
      <4>2. j \in 1 .. Len(w) - 1
        BY <1>1, <3>2
      <4>3. j \in 1 .. Len(u) /\ u[j] = w[j]
        BY <1>12, <3>2, <4>2
      <4> QED
        BY <1>7, <3>1, <4>1, <4>3
    <3>3. CASE j = k
      <4>1. h.tail = r
        BY <1>7, <3>1, <3>3 DEF p
      <4>2. k # 1 => k - 1 \in 1 .. Len(w) - 1 /\ k - 1 < k
        BY <1>1
      <4>3. k # 1 => k - 1 \in 1 .. Len(u) /\ u[k - 1] = w[k - 1]
        BY <1>12, <4>2
      <4> QED
        BY <1>3, <4>1, <4>3
    <3>4. CASE j > k
      <4>1. w[j] # p
        BY <1>1, <3>1, <3>4 DEF IsChain, p
      <4>2. j - 1 \in 1 .. Len(w) - 1 /\ ~(j - 1 < k) /\ j - 1 + 1 = j
        BY <1>1, <3>4
      <4>3. j - 1 \in 1 .. Len(u) /\ u[j - 1] = w[j]
        BY <1>12, <4>2
      <4> QED
        BY <1>7, <3>1, <4>1, <4>3
    <3> QED
      BY <1>1, <3>2, <3>3, <3>4
  <2> QED
    BY <2>1, <2>2
<1>20. Len(u) <= Len(g) /\ u \in Seq(1 .. Len(g))
  BY <1>1, <1>10, <1>12
<1>21. IsChain(g, h, u)
  BY <1>14, <1>16, <1>17, <1>18, <1>19, <1>20 DEF IsChain
<1>22. l.tail = w[k] => h.tail = IF k = 1 THEN nullptr ELSE w[k - 1]
  BY <1>3, <1>7 DEF p
<1> QED
  BY <1>6, <1>10, <1>21, <1>22 DEF h, u

-----------------------------------------------------------------------------
(* The client of a list *)

(* The list is the chain that a walk over it meets. *)
ListInv ==
    /\ heap \in Seq(Nodes)
    /\ Len(heap) <= MaxNodes
    /\ list \in Lists
    /\ IsChain(heap, list, InList)

(* What the places of the nodes are, and of the tail among them. *)
Position(w, t) ==
    LET at == {k \in 1 .. Len(w) : w[k] = t} IN IF at = {} THEN 0 ELSE CHOOSE k \in at : TRUE

(* The position of the tail is where the tail is found, or 0. *)
LEMMA PositionIs ==
    ASSUME NEW m \in Seq(Nodes), NEW l, NEW w, IsChain(m, l, w)
    PROVE  /\ l.tail = nullptr => Position(w, l.tail) = 0
           /\ \A k \in 1 .. Len(w) : l.tail = w[k] => Position(w, l.tail) = k
<1> DEFINE at == {k \in 1 .. Len(w) : w[k] = l.tail}
<1>1. Position(w, l.tail) = IF at = {} THEN 0 ELSE CHOOSE k \in at : TRUE
  BY DEF Position
<1>2. \A k \in 1 .. Len(w) : w[k] # nullptr
  BY ChainNodes
<1>3. ASSUME l.tail = nullptr
      PROVE  Position(w, l.tail) = 0
  <2>1. at = {}
    BY <1>2, <1>3
  <2> HIDE DEF at
  <2> QED
    BY <1>1, <2>1
<1>4. ASSUME NEW k \in 1 .. Len(w), l.tail = w[k]
      PROVE  Position(w, l.tail) = k
  <2>1. k \in at
    BY <1>4
  <2>2. \A i \in at : i = k
    BY <1>4 DEF IsChain
  <2> HIDE DEF at
  <2>3. (CHOOSE i \in at : TRUE) \in at
    BY <2>1
  <2>4. at # {}
    BY <2>1
  <2> QED
    BY <1>1, <2>2, <2>3, <2>4
<1> QED
  BY <1>3, <1>4

(* An empty list. *)
LEMMA List_Init == Init => ListInv /\ MarkedNodes!Init
<1> SUFFICES ASSUME Init PROVE ListInv /\ MarkedNodes!Init
  OBVIOUS
<1>1. heap = <<>> /\ list = NewList
  BY DEF Init
<1>2. <<>> \in Seq(Nodes) /\ <<>> \in Seq(1 .. 0) /\ Len(<<>>) = 0
  BY EmptySeq
<1>3. NewList \in Lists /\ NewList.head = nullptr /\ NewList.tail = nullptr /\ NewList.size = 0
  BY DEF NewList, Lists, nullptr
<1>4. IsChain(<<>>, NewList, <<>>)
  BY <1>2, <1>3 DEF IsChain
<1>5. InList = <<>>
  BY <1>1, <1>2, <1>4, WalkIsChain DEF InList
<1>6. ListInv
  BY <1>1, <1>2, <1>3, <1>4, <1>5, BoundsAssumption DEF ListInv
<1>7. TailPosition = 0
  <2>1. Position(<<>>, NewList.tail) = 0
    BY <1>2, <1>3, <1>4, PositionIs
  <2>2. TailPosition = Position(InList, list.tail)
    BY DEF TailPosition, Position
  <2> QED
    BY <1>1, <1>5, <2>1, <2>2
<1>8. Lost = 0
  <2>1. list.size = 0 /\ Len(InList) = 0
    BY <1>1, <1>2, <1>3, <1>5
  <2> QED
    BY <2>1 DEF Lost
<1> QED
  BY <1>5, <1>6, <1>7, <1>8 DEF MarkedNodes!Init

(* A step to another chain: all that is left to say is what the chain is. *)
LEMMA ListStep_Inv ==
    ASSUME heap' \in Seq(Nodes), Len(heap') <= MaxNodes, list' \in Lists,
           NEW u, IsChain(heap', list', u)
    PROVE  /\ ListInv'
           /\ InList' = u
           /\ TailPosition' = Position(u, list'.tail)
           /\ Lost' = list'.size - Len(u)
<1>1. InList' = u
  BY WalkIsChain DEF InList
<1>2. ListInv'
  BY <1>1 DEF ListInv
<1>3. TailPosition' = Position(InList', list'.tail)
  BY DEF TailPosition, Position
<1>4. Lost' = list'.size - Len(InList')
  BY DEF Lost
<1> QED
  BY <1>1, <1>2, <1>3, <1>4

(* What a step makes of the nodes in the list. *)
LEMMA ListNodes ==
    ASSUME ListInv
    PROVE  /\ Len(heap) \in Nat
           /\ Len(InList) \in Nat
           /\ DOMAIN InList = 1 .. Len(InList)
           /\ InList \in Seq(1 .. Len(heap))
           /\ \A k \in 1 .. Len(InList) : InList[k] \in 1 .. Len(heap) /\ InList[k] # Len(heap) + 1
           /\ list.size \in Int
           /\ Made = MadeOn(heap)
           /\ Len(Made) = Len(heap) + 1
           /\ TailPosition = Position(InList, list.tail)
           /\ Lost = list.size - Len(InList)
<1>1. /\ Len(heap) \in Nat
      /\ Len(InList) \in Nat
      /\ DOMAIN InList = 1 .. Len(InList)
      /\ \A k \in 1 .. Len(InList) : InList[k] \in 1 .. Len(heap)
  BY ChainNodes DEF ListInv
<1>2. \A k \in 1 .. Len(heap) : k # Len(heap) + 1
  BY <1>1
<1>3. Made = MadeOn(heap)
  BY DEF Made, MadeOn
<1>4. Len(Made) = Len(heap) + 1
  BY <1>3, MadeOnIs DEF ListInv
<1>5. TailPosition = Position(InList, list.tail)
  BY DEF TailPosition, Position
<1> QED
  BY <1>1, <1>2, <1>3, <1>4, <1>5 DEF ListInv, Lists, IsChain, Lost

(* The list after an insertion that leaves the tail, and after an unlinking. *)
LEMMA ListWithAfterIs ==
    ASSUME NEW l \in Lists, NEW q
    PROVE  /\ ListWithAfter(l, q) \in Lists
           /\ ListWithAfter(l, q).tail = l.tail
           /\ ListWithAfter(l, q).size = l.size + 1
<1> DEFINE t == IF q = l.tail THEN q ELSE l.tail
           s == l.size + 1
<1>1. l.tail \in Nat /\ l.size \in Int
  BY DEF Lists
<1>2. t = l.tail /\ t \in Nat /\ s \in Int
  BY <1>1
<1>3. ListWithAfter(l, q) = [l EXCEPT !.tail = t, !.size = s]
  BY DEF ListWithAfter
<1> HIDE DEF t, s
<1>4. [l EXCEPT !.tail = t, !.size = s] \in Lists
  BY <1>2 DEF Lists
<1>5. [l EXCEPT !.tail = t, !.size = s].tail = t /\ [l EXCEPT !.tail = t, !.size = s].size = s
  BY DEF Lists
<1> QED
  BY <1>2, <1>3, <1>4, <1>5 DEF s

(* The list's own record after unlink. *)
LEMMA ListWithoutIs ==
    ASSUME NEW m, NEW l \in Lists, NEW q, m[q].next \in Nat, m[q].prev \in Nat
    PROVE  /\ ListWithout(m, l, q) \in Lists
           /\ ListWithout(m, l, q).size = l.size - 1
           /\ l.tail # q => ListWithout(m, l, q).tail = l.tail
<1> DEFINE h == IF q = l.head THEN m[q].next ELSE l.head
           t == IF q = l.tail THEN m[q].prev ELSE l.tail
           s == l.size - 1
<1>1. l.head \in Nat /\ l.tail \in Nat /\ l.size \in Int
  BY DEF Lists
<1>2. h \in Nat /\ t \in Nat /\ s \in Int /\ (l.tail # q => t = l.tail)
  BY <1>1
<1>3. ListWithout(m, l, q) = [l EXCEPT !.head = h, !.tail = t, !.size = s]
  BY DEF ListWithout
<1> HIDE DEF h, t, s
<1>4. [l EXCEPT !.head = h, !.tail = t, !.size = s] \in Lists
  BY <1>2 DEF Lists
<1>5. /\ [l EXCEPT !.head = h, !.tail = t, !.size = s].tail = t
      /\ [l EXCEPT !.head = h, !.tail = t, !.size = s].size = s
  BY DEF Lists
<1> QED
  BY <1>2, <1>3, <1>4, <1>5 DEF s

(* Each call on the list is the call on the sequence of nodes. *)
LEMMA InsertAtEnd_Inserts == ListInv /\ InsertAtEnd => ListInv' /\ MarkedNodes!InsertAtEnd
<1> SUFFICES ASSUME ListInv, InsertAtEnd PROVE ListInv' /\ MarkedNodes!InsertAtEnd
  OBVIOUS
<1> DEFINE w == InList
           n == Len(heap) + 1
           j == TailPosition
           u == Append(SubSeq(w, 1, j), n)
<1>1. /\ Len(heap) < MaxNodes
      /\ EndsAgree(list)
      /\ heap' = Linked(Made, list, Len(Made))
      /\ list' = ListWith(list, Len(Made))
  BY DEF InsertAtEnd
<1>2. heap \in Seq(Nodes) /\ list \in Lists /\ IsChain(heap, list, w)
  BY DEF ListInv
<1>3. /\ Len(heap) \in Nat
      /\ Len(w) \in Nat
      /\ DOMAIN w = 1 .. Len(w)
      /\ w \in Seq(1 .. Len(heap))
      /\ \A k \in 1 .. Len(w) : w[k] \in 1 .. Len(heap) /\ w[k] # n
      /\ list.size \in Int
      /\ Made = MadeOn(heap)
      /\ Len(Made) = n
      /\ j = Position(w, list.tail)
      /\ Lost = list.size - Len(w)
  BY ListNodes
<1> HIDE DEF w, j
<1>4. /\ j \in 0 .. Len(w)
      /\ j <= 0 => Len(w) <= 0 /\ list.tail = nullptr
      /\ j >= 1 => list.tail = w[j]
  <2>1. CASE list.tail = nullptr
    <3>1. j = 0
      BY <1>2, <1>3, <2>1, PositionIs
    <3>2. list.head = nullptr
      BY <1>1, <2>1 DEF EndsAgree
    <3>3. Len(w) = 0
      <4>1. Len(w) # 0 => 1 \in 1 .. Len(w)
        BY <1>3
      <4>2. Len(w) # 0 => list.head \in 1 .. Len(heap)
        BY <1>2, <1>3, <4>1 DEF IsChain
      <4> QED
        BY <1>3, <3>2, <4>2 DEF nullptr
    <3> QED
      BY <2>1, <3>1, <3>3
  <2>2. CASE list.tail # nullptr
    <3>1. PICK k \in 1 .. Len(w) : list.tail = w[k]
      BY <1>2, <2>2 DEF IsChain
    <3>2. j = k
      BY <1>2, <1>3, <3>1, PositionIs
    <3> QED
      BY <1>3, <3>1, <3>2
  <2> QED
    BY <2>1, <2>2
<1>5. /\ heap' \in Seq(Nodes)
      /\ Len(heap') = n
      /\ IsChain(heap', list', u)
  BY <1>1, <1>2, <1>3, <1>4, LinkedIsChain
<1>6. list' \in Lists /\ list'.tail = n /\ list'.size = list.size + 1
  BY <1>1, <1>2, <1>3 DEF ListWith, Lists
<1>7. /\ n <= MaxNodes /\ n \in 1 .. MaxNodes /\ n \in 1 .. n
      /\ \A i \in 1 .. Len(heap) : i \in 1 .. n
  BY <1>1, <1>3, BoundsAssumption
<1>8. w \in Seq(1 .. n)
  <2>1. 1 .. Len(heap) \subseteq 1 .. n
    BY <1>7
  <2> QED
    BY <1>3, <2>1, SeqMonotonic
<1> HIDE DEF n
<1>9. Len(u) = j + 1 /\ u[j + 1] = n
  <2> DEFINE c == SubSeq(w, 1, j)
  <2>1. c \in Seq(1 .. n) /\ Len(c) = j
    BY <1>4, <1>8, PrefixIs
  <2> HIDE DEF c
  <2>2. Len(Append(c, n)) = Len(c) + 1 /\ Append(c, n)[Len(c) + 1] = n
    BY <1>7, <2>1, AppendProperties
  <2> QED
    BY <2>1, <2>2 DEF c
<1> HIDE DEF u
<1>10. /\ ListInv'
       /\ InList' = u
       /\ TailPosition' = Position(u, list'.tail)
       /\ Lost' = list'.size - Len(u)
  BY <1>5, <1>6, <1>7, ListStep_Inv
<1>11. TailPosition' = j + 1
  <2>1. j + 1 \in 1 .. Len(u) /\ list'.tail = u[j + 1]
    BY <1>4, <1>6, <1>9
  <2> QED
    BY <1>5, <1>10, <2>1, PositionIs
<1>12. Len(SubSeq(w, j + 1, Len(w))) = Len(w) - j
  <2>1. j + 1 \in Int /\ Len(w) \in Int /\ \A i \in j + 1 .. Len(w) : w[i] \in 1 .. Len(heap)
    BY <1>3, <1>4
  <2>2. Len(SubSeq(w, j + 1, Len(w))) = IF j + 1 <= Len(w) THEN Len(w) - (j + 1) + 1 ELSE 0
    BY <2>1, SubSeqProperties
  <2> QED
    BY <1>3, <1>4, <2>2
<1>13. Lost' = Lost + Len(SubSeq(w, j + 1, Len(w)))
  <2>1. Lost' = (list.size + 1) - (j + 1)
    BY <1>6, <1>9, <1>10
  <2>2. list.size \in Int /\ j \in Int /\ Len(w) \in Int
    BY <1>3, <1>4
  <2>3. Lost = list.size - Len(w)
    BY <1>3
  <2> QED
    BY <1>12, <2>1, <2>2, <2>3
<1>14. w = <<>> \/ j > 0
  <2>1. j > 0 \/ Len(w) = 0
    BY <1>3, <1>4
  <2>2. Len(w) = 0 => w = <<>>
    BY <1>3
  <2> QED
    BY <2>1, <2>2
<1>15. \A k \in DOMAIN w : w[k] # n
  BY <1>3 DEF n
<1>16. InList' = Append(SubSeq(w, 1, j), n)
  BY <1>10 DEF u
<1> QED
  BY <1>7, <1>10, <1>11, <1>13, <1>14, <1>15, <1>16
     DEF MarkedNodes!InsertAtEnd, MarkedNodes!Fresh, MarkedNodes!Before, MarkedNodes!Behind, w, j

(* insert_after puts the node where the sequence expects it. *)
LEMMA InsertAfter_Inserts == ListInv /\ InsertAfter => ListInv' /\ MarkedNodes!InsertAfter
<1> SUFFICES ASSUME ListInv, InsertAfter PROVE ListInv' /\ MarkedNodes!InsertAfter
  OBVIOUS
<1> DEFINE w == InList
           n == Len(heap) + 1
           j == TailPosition
<1>1. PICK k \in 1 .. Len(w) : /\ heap' = LinkedAfter(Made, w[k], Len(Made))
                               /\ list' = ListWithAfter(list, w[k])
  BY DEF InsertAfter
<1>2. heap \in Seq(Nodes) /\ list \in Lists /\ IsChain(heap, list, w) /\ Len(heap) < MaxNodes
  BY DEF ListInv, InsertAfter
<1>3. /\ Len(heap) \in Nat
      /\ Len(w) \in Nat
      /\ DOMAIN w = 1 .. Len(w)
      /\ w \in Seq(1 .. Len(heap))
      /\ \A i \in 1 .. Len(w) : w[i] \in 1 .. Len(heap) /\ w[i] # n
      /\ list.size \in Int
      /\ Made = MadeOn(heap)
      /\ Len(Made) = n
      /\ j = Position(w, list.tail)
      /\ Lost = list.size - Len(w)
  BY ListNodes
<1> HIDE DEF w, j
<1> DEFINE u == Spliced(w, k, n)
<1>4. /\ heap' \in Seq(Nodes)
      /\ Len(heap') = n
      /\ IsChain(heap', list', u)
  BY <1>1, <1>2, <1>3, LinkedAfterIsChain
<1>5. list' \in Lists /\ list'.tail = list.tail /\ list'.size = list.size + 1
  BY <1>1, <1>2, ListWithAfterIs
<1>6. /\ n <= MaxNodes /\ n \in 1 .. MaxNodes /\ n \in 1 .. n /\ k \in 0 .. Len(w)
      /\ \A i \in 1 .. Len(heap) : i \in 1 .. n
  BY <1>2, <1>3, BoundsAssumption
<1>7. w \in Seq(1 .. n)
  <2>1. 1 .. Len(heap) \subseteq 1 .. n
    BY <1>6
  <2> QED
    BY <1>3, <2>1, SeqMonotonic
<1> HIDE DEF n
<1>8. /\ Len(u) = Len(w) + 1
      /\ \A i \in 1 .. Len(w) + 1 :
             u[i] = IF i <= k THEN w[i] ELSE IF i = k + 1 THEN n ELSE w[i - 1]
  <2> DEFINE T == 1 .. n
  <2>1. w \in Seq(T) /\ n \in T
    BY <1>6, <1>7
  <2> HIDE DEF T
  <2> QED
    BY <1>6, <2>1, SplicedIs
<1> HIDE DEF u
<1>9. /\ ListInv'
      /\ InList' = u
      /\ TailPosition' = Position(u, list'.tail)
      /\ Lost' = list'.size - Len(u)
  BY <1>4, <1>5, <1>6, ListStep_Inv
<1>10. TailPosition' = IF k < j THEN j + 1 ELSE j
  <2>1. CASE list.tail = nullptr
    <3>1. j = 0 /\ TailPosition' = 0
      BY <1>2, <1>3, <1>4, <1>5, <1>9, <2>1, PositionIs
    <3> QED
      BY <3>1
  <2>2. CASE list.tail # nullptr
    <3>1. PICK i \in 1 .. Len(w) : list.tail = w[i]
      BY <1>2, <2>2 DEF IsChain
    <3>2. j = i
      BY <1>2, <1>3, <3>1, PositionIs
    <3>3. CASE k < i
      <4>1. i + 1 \in 1 .. Len(w) + 1 /\ ~(i + 1 <= k) /\ i + 1 # k + 1 /\ i + 1 - 1 = i
        BY <1>3, <3>3
      <4>2. i + 1 \in 1 .. Len(u) /\ u[i + 1] = w[i]
        BY <1>8, <4>1
      <4>3. TailPosition' = i + 1
        BY <1>4, <1>5, <1>9, <3>1, <4>2, PositionIs
      <4> QED
        BY <3>2, <3>3, <4>3
    <3>4. CASE ~(k < i)
      <4>1. i \in 1 .. Len(w) + 1 /\ i <= k
        BY <1>3, <3>4
      <4>2. i \in 1 .. Len(u) /\ u[i] = w[i]
        BY <1>8, <4>1
      <4>3. TailPosition' = i
        BY <1>4, <1>5, <1>9, <3>1, <4>2, PositionIs
      <4> QED
        BY <3>2, <3>4, <4>3
    <3> QED
      BY <3>3, <3>4
  <2> QED
    BY <2>1, <2>2
<1>11. Lost' = Lost
  BY <1>3, <1>5, <1>8, <1>9
<1>12. k \in DOMAIN w /\ \A i \in DOMAIN w : w[i] # n
  BY <1>3 DEF n
<1>13. InList' = Append(SubSeq(w, 1, k), n) \o SubSeq(w, k + 1, Len(w))
  BY <1>9 DEF u, Spliced
<1> QED
  BY <1>6, <1>9, <1>10, <1>11, <1>12, <1>13
     DEF MarkedNodes!InsertAfter, MarkedNodes!Fresh, MarkedNodes!Before, MarkedNodes!Behind, w, j

(* unlink takes the node out and closes the gap. *)
LEMMA Unlink_Unlinks == ListInv /\ Unlink => ListInv' /\ MarkedNodes!Unlink
<1> SUFFICES ASSUME ListInv, Unlink PROVE ListInv' /\ MarkedNodes!Unlink
  OBVIOUS
<1> DEFINE w == InList
           j == TailPosition
<1>1. PICK k \in 1 .. Len(w) : /\ heap' = Unlinked(heap, w[k])
                               /\ list' = ListWithout(heap, list, w[k])
  BY DEF Unlink
<1>2. heap \in Seq(Nodes) /\ list \in Lists /\ IsChain(heap, list, w) /\ Len(heap) <= MaxNodes
  BY DEF ListInv
<1>3. /\ Len(heap) \in Nat
      /\ Len(w) \in Nat
      /\ DOMAIN w = 1 .. Len(w)
      /\ w \in Seq(1 .. Len(heap))
      /\ \A i \in 1 .. Len(w) : w[i] \in 1 .. Len(heap)
      /\ list.size \in Int
      /\ j = Position(w, list.tail)
      /\ Lost = list.size - Len(w)
  BY ListNodes
<1> HIDE DEF w, j
<1> DEFINE u == Cut(w, k)
<1>4. /\ heap' \in Seq(Nodes)
      /\ Len(heap') = Len(heap)
      /\ IsChain(heap', list', u)
      /\ list.tail = w[k] => list'.tail = IF k = 1 THEN nullptr ELSE w[k - 1]
  BY <1>1, <1>2, UnlinkedIsChain
<1>5. list' \in Lists /\ list'.size = list.size - 1
      /\ (list.tail # w[k] => list'.tail = list.tail)
  <2>1. w[k] \in 1 .. Len(heap) /\ heap[w[k]] \in Nodes
    BY <1>2, <1>3, ElementOfSeq
  <2>2. heap[w[k]].next \in Nat /\ heap[w[k]].prev \in Nat
    BY <2>1 DEF Nodes
  <2> QED
    BY <1>1, <1>2, <2>2, ListWithoutIs
<1>6. /\ Len(u) = Len(w) - 1
      /\ \A i \in 1 .. Len(w) - 1 : u[i] = IF i < k THEN w[i] ELSE w[i + 1]
  BY <1>3, CutIs
<1> HIDE DEF u
<1>7. /\ ListInv'
      /\ InList' = u
      /\ TailPosition' = Position(u, list'.tail)
      /\ Lost' = list'.size - Len(u)
  BY <1>2, <1>4, <1>5, ListStep_Inv
<1>8. TailPosition' = IF k <= j THEN j - 1 ELSE j
  <2>1. CASE list.tail = nullptr
    <3>1. j = 0
      BY <1>2, <1>3, <2>1, PositionIs
    <3>2. list.tail # w[k]
      BY <1>3, <2>1 DEF nullptr
    <3>3. TailPosition' = 0
      BY <1>4, <1>5, <1>7, <2>1, <3>2, PositionIs
    <3> QED
      BY <3>1, <3>3
  <2>2. CASE list.tail # nullptr
    <3>1. PICK i \in 1 .. Len(w) : list.tail = w[i]
      BY <1>2, <2>2 DEF IsChain
    <3>2. j = i
      BY <1>2, <1>3, <3>1, PositionIs
    <3>3. CASE i < k
      <4>1. w[i] # w[k]
        BY <1>2, <3>3 DEF IsChain
      <4>2. i \in 1 .. Len(w) - 1
        BY <1>3, <3>3
      <4>3. i \in 1 .. Len(u) /\ u[i] = w[i]
        BY <1>6, <3>3, <4>2
      <4>4. TailPosition' = i
        BY <1>4, <1>5, <1>7, <3>1, <4>1, <4>3, PositionIs
      <4> QED
        BY <3>2, <3>3, <4>4
    <3>4. CASE i = k
      <4>1. list'.tail = IF k = 1 THEN nullptr ELSE w[k - 1]
        BY <1>4, <3>1, <3>4
      <4>2. CASE k = 1
        BY <1>4, <1>7, <3>2, <3>4, <4>1, <4>2, PositionIs
      <4>3. CASE k # 1
        <5>1. k - 1 \in 1 .. Len(w) - 1 /\ k - 1 < k
          BY <1>3, <4>3
        <5>2. k - 1 \in 1 .. Len(u) /\ u[k - 1] = w[k - 1]
          BY <1>6, <5>1
        <5>3. TailPosition' = k - 1
          BY <1>4, <1>7, <4>1, <4>3, <5>2, PositionIs
        <5> QED
          BY <3>2, <3>4, <5>3
      <4> QED
        BY <4>2, <4>3
    <3>5. CASE i > k
      <4>1. w[i] # w[k]
        BY <1>2, <3>5 DEF IsChain
      <4>2. i - 1 \in 1 .. Len(w) - 1 /\ ~(i - 1 < k) /\ i - 1 + 1 = i
        BY <1>3, <3>5
      <4>3. i - 1 \in 1 .. Len(u) /\ u[i - 1] = w[i]
        BY <1>6, <4>2
      <4>4. TailPosition' = i - 1
        BY <1>4, <1>5, <1>7, <3>1, <4>1, <4>3, PositionIs
      <4> QED
        BY <3>2, <3>5, <4>4
    <3> QED
      BY <3>3, <3>4, <3>5
  <2> QED
    BY <2>1, <2>2
<1>9. Lost' = Lost
  BY <1>3, <1>5, <1>6, <1>7
<1>10. k \in DOMAIN w
  BY <1>3
<1>11. InList' = SubSeq(w, 1, k - 1) \o SubSeq(w, k + 1, Len(w))
  BY <1>7 DEF u, Cut
<1> QED
  BY <1>7, <1>8, <1>9, <1>10, <1>11
     DEF MarkedNodes!Unlink, MarkedNodes!Before, MarkedNodes!Behind, w, j

(* Every step is a call on the sequence of nodes, or none. *)
LEMMA List_Next ==
    ListInv /\ [Next]_vars => ListInv' /\ [MarkedNodes!Next]_<<InList, TailPosition, Lost>>
<1> SUFFICES ASSUME ListInv, [Next]_vars
             PROVE  ListInv' /\ [MarkedNodes!Next]_<<InList, TailPosition, Lost>>
  OBVIOUS
<1>1. CASE InsertAtEnd \/ InsertAfter \/ Unlink
  BY <1>1, InsertAtEnd_Inserts, InsertAfter_Inserts, Unlink_Unlinks DEF MarkedNodes!Next
<1>2. CASE UNCHANGED nodeVars
  <2>1. heap' = heap /\ list' = list
    BY <1>2 DEF nodeVars
  <2>2. InList' = InList
    BY <2>1 DEF InList
  <2>3. TailPosition' = TailPosition /\ Lost' = Lost
    BY <2>1, <2>2 DEF TailPosition, Lost
  <2>4. ListInv'
    BY <2>1, <2>2 DEF ListInv
  <2> QED
    BY <2>2, <2>3, <2>4
<1>3. CASE StackPush \/ StackPop \/ Free \/ TailAssertFails
  BY <1>2, <1>3 DEF StackPush, StackPop, OnStackOnly, Free, TailAssertFails
<1>4. CASE \/ BufPush \/ BufPopBack \/ BufBack \/ BufRead \/ BufAssign \/ BufInitialize
           \/ BufReserve \/ BufReserveAndSet \/ BufCompact \/ BufClear \/ BufDeepCopy
  BY <1>2, <1>4 DEF OnBufOnly, BufPush, BufPopBack, BufBack, BufRead, BufAssign, BufInitialize,
                    BufReserve, BufReserveAndSet, BufCompact, BufClear, BufDeepCopy
<1>5. CASE UNCHANGED vars
  BY <1>2, <1>5 DEF vars
<1> QED
  BY <1>1, <1>3, <1>4, <1>5 DEF Next

(* The inductive invariant of the list. *)
LEMMA ListInvariant == Spec => []ListInv
<1>1. Init => ListInv
  BY List_Init
<1>2. ListInv /\ [Next]_vars => ListInv'
  BY List_Next
<1> QED
  BY <1>1, <1>2, PTL DEF Spec

(* ListIsSequence: whatever nodes a program inserts and unlinks, and where,  *)
(* a walk over the list meets what the same calls make of a sequence, and    *)
(* the nodes counted that it misses are those that an insertion at the end   *)
(* cut off behind a tail that insert_after had not moved.                    *)
THEOREM ListImplementsSequence == Spec => ListIsSequence
<1>1. Init => MarkedNodes!Init
  BY List_Init
<1>2. ListInv /\ [Next]_vars => [MarkedNodes!Next]_<<InList, TailPosition, Lost>>
  BY List_Next
<1> QED
  BY <1>1, <1>2, ListInvariant, PTL DEF Spec, ListIsSequence, MarkedNodes!Spec, MarkedNodes!vars

(* ContainersTypeOK: lengths and capacities stay inside the memory owned, a *)
(* stack inside its elements, and the backward links of the list agree with *)
(* the forward ones, whatever calls are made.                               *)
THEOREM ContainersTypeCorrect == Spec => []ContainersTypeOK
<1>1. ArraysInv /\ ListInv => ContainersTypeOK
  <2> SUFFICES ASSUME ArraysInv, ListInv PROVE ContainersTypeOK
    OBVIOUS
  <2>1. \A k \in 1 .. Len(InList) :
            heap[InList[k]].prev = IF k = 1 THEN nullptr ELSE InList[k - 1]
    BY DEF ListInv, IsChain
  <2>2. /\ subject \in {"stack", "buf", "list", "freed", "aborted"}
        /\ IsBuf(buf, Values)
        /\ IsBuf(stk.elems, Values)
        /\ stk.curr \in Nat
        /\ subject = "stack" => stk.curr <= stk.elems.len
    BY DEF ArraysInv, BufOK, StackOK
  <2> QED
    BY <2>1, <2>2 DEF ContainersTypeOK
<1> QED
  BY <1>1, ArraysInvariant, ListInvariant, PTL

-----------------------------------------------------------------------------
(* Recursion *)

(* Definitions by recursion: a function on Nat that starts at x0 and goes  *)
(* from value to value by the steps given.                                 *)
Runs(X, x0, step, n) ==
    {f \in [0 .. n -> X] : f[0] = x0 /\ \A k \in 0 .. n - 1 : f[k + 1] = step[k][f[k]]}

(* Two runs of the same steps agree as far as both go. *)
LEMMA RunIsUnique ==
    ASSUME NEW X, NEW x0 \in X, NEW step \in [Nat -> [X -> X]], NEW n \in Nat, NEW m \in Nat,
           n <= m, NEW f \in Runs(X, x0, step, n), NEW g \in Runs(X, x0, step, m)
    PROVE  \A k \in 0 .. n : f[k] = g[k]
<1> DEFINE S == {k \in 0 .. n : f[k] # g[k]}
<1> SUFFICES ASSUME S # {} PROVE FALSE
  OBVIOUS
<1>1. S \in SUBSET Nat
  OBVIOUS
<1>2. PICK k \in S : \A i \in S : k <= i
  <2> HIDE DEF S
  <2> QED
    BY <1>1, NatMin
<1>3. k \in 0 .. n /\ f[k] # g[k]
  OBVIOUS
<1>4. f[0] = x0 /\ g[0] = x0
  BY DEF Runs
<1>5. k # 0
  BY <1>3, <1>4
<1>6. k - 1 \in 0 .. n - 1 /\ k - 1 \in 0 .. m - 1 /\ k - 1 + 1 = k /\ ~(k <= k - 1) /\ k - 1 \in 0 .. n
  BY <1>3, <1>5
<1>7. f[k - 1] = g[k - 1]
  BY <1>2, <1>6
<1>8. f[k - 1 + 1] = step[k - 1][f[k - 1]] /\ g[k - 1 + 1] = step[k - 1][g[k - 1]]
  BY <1>6 DEF Runs
<1> QED
  BY <1>3, <1>6, <1>7, <1>8

(* There is a run of any length. *)
LEMMA RunExists ==
    ASSUME NEW X, NEW x0 \in X, NEW step \in [Nat -> [X -> X]], NEW n \in Nat
    PROVE  Runs(X, x0, step, n) # {}
<1> DEFINE S == {m \in Nat : Runs(X, x0, step, m) = {}}
<1>1. S = {}
  <2> SUFFICES ASSUME S # {} PROVE FALSE
    OBVIOUS
  <2>1. S \in SUBSET Nat
    OBVIOUS
  <2>2. PICK m \in S : \A i \in S : m <= i
    <3> HIDE DEF S
    <3> QED
      BY <2>1, NatMin
  <2>3. m \in Nat /\ Runs(X, x0, step, m) = {}
    OBVIOUS
  <2>4. CASE m = 0
    <3>1. [k \in 0 .. 0 |-> x0] \in Runs(X, x0, step, 0)
      BY DEF Runs
    <3> QED
      BY <2>3, <2>4, <3>1
  <2>5. CASE m # 0
    <3>1. m - 1 \in Nat /\ ~(m <= m - 1)
      BY <2>3, <2>5
    <3>2. PICK f : f \in Runs(X, x0, step, m - 1)
      BY <2>2, <3>1
    <3>3. /\ f \in [0 .. m - 1 -> X]
          /\ f[0] = x0
          /\ \A k \in 0 .. m - 1 - 1 : f[k + 1] = step[k][f[k]]
      BY <3>2 DEF Runs
    <3> DEFINE y == step[m - 1][f[m - 1]]
               g == [k \in 0 .. m |-> IF k = m THEN y ELSE f[k]]
    <3>4. y \in X
      <4>1. m - 1 \in 0 .. m - 1
        BY <3>1
      <4>2. f[m - 1] \in X /\ step[m - 1] \in [X -> X]
        BY <3>1, <3>3, <4>1
      <4> QED
        BY <4>2
    <3>5. g \in [0 .. m -> X]
      <4>1. \A k \in 0 .. m : k # m => k \in 0 .. m - 1
        BY <2>3
      <4> HIDE DEF y
      <4> QED
        BY <3>3, <3>4, <4>1
    <3>6. g[0] = x0
      BY <2>3, <2>5, <3>3
    <3>7. ASSUME NEW k \in 0 .. m - 1
          PROVE  g[k + 1] = step[k][g[k]]
      <4>1. k \in 0 .. m /\ k # m /\ k + 1 \in 0 .. m
        BY <2>3
      <4>2. g[k] = f[k]
        BY <4>1
      <4>3. CASE k = m - 1
        <5>1. k + 1 = m
          BY <2>3, <4>3
        <5> QED
          BY <4>1, <4>2, <4>3, <5>1
      <4>4. CASE k # m - 1
        <5>1. k \in 0 .. m - 1 - 1 /\ k + 1 # m
          BY <2>3, <4>4
        <5> QED
          BY <3>3, <4>1, <4>2, <5>1
      <4> QED
        BY <4>3, <4>4
    <3>8. g \in Runs(X, x0, step, m)
      <4> HIDE DEF g
      <4> QED
        BY <3>5, <3>6, <3>7 DEF Runs
    <3> QED
      BY <2>3, <3>8
  <2> QED
    BY <2>4, <2>5
<1> QED
  BY <1>1

Course(X, x0, step) ==
    {f \in [Nat -> X] : f[0] = x0 /\ \A n \in Nat : f[n + 1] = step[n][f[n]]}

(* There is a function on all of Nat that follows the steps. *)
LEMMA RunForever ==
    ASSUME NEW X, NEW x0 \in X, NEW step \in [Nat -> [X -> X]]
    PROVE  Course(X, x0, step) # {}
<1> DEFINE R(n) == Runs(X, x0, step, n)
           r(n) == CHOOSE f \in R(n) : TRUE
           h == [n \in Nat |-> r(n)[n]]
<1>1. \A n \in Nat : r(n) \in R(n)
  BY RunExists
<1>2. \A n \in Nat : r(n) \in [0 .. n -> X] /\ r(n)[0] = x0
  BY <1>1 DEF Runs
<1>3. \A n \in Nat : r(n)[n] \in X
  <2>1. \A n \in Nat : n \in 0 .. n
    OBVIOUS
  <2> QED
    BY <1>2, <2>1
<1>4. h \in [Nat -> X] /\ h[0] = x0
  <2>1. h[0] = r(0)[0]
    OBVIOUS
  <2> HIDE DEF r
  <2> QED
    BY <1>2, <1>3, <2>1
<1>5. ASSUME NEW n \in Nat
      PROVE  h[n + 1] = step[n][h[n]]
  <2>1. n + 1 \in Nat /\ n <= n + 1 /\ n \in 0 .. n + 1 - 1 /\ n \in 0 .. n
    OBVIOUS
  <2>2. r(n + 1)[n + 1] = step[n][r(n + 1)[n]]
    <3>1. r(n + 1) \in R(n + 1)
      BY <1>1, <2>1
    <3> HIDE DEF r
    <3> QED
      BY <2>1, <3>1 DEF Runs
  <2>3. r(n)[n] = r(n + 1)[n]
    <3>1. r(n) \in R(n) /\ r(n + 1) \in R(n + 1)
      BY <1>1, <2>1
    <3> HIDE DEF r
    <3>2. \A k \in 0 .. n : r(n)[k] = r(n + 1)[k]
      BY <2>1, <3>1, RunIsUnique
    <3> QED
      BY <2>1, <3>2
  <2>4. h[n] = r(n)[n] /\ h[n + 1] = r(n + 1)[n + 1]
    BY <2>1
  <2> HIDE DEF r, h
  <2> QED
    BY <2>2, <2>3, <2>4
<1> HIDE DEF h
<1>6. h \in Course(X, x0, step)
  BY <1>4, <1>5 DEF Course
<1> QED
  BY <1>6

-----------------------------------------------------------------------------
(* The lexer *)

(* What next_token gives, from any place in a text. *)
LEMMA TokenAtIs ==
    ASSUME NEW t \in Seq(Item), NEW k \in 1 .. Len(t) + 1
    PROVE  /\ TokenAt(t, k) \in k .. Len(t) + 1
           /\ \A p \in k .. TokenAt(t, k) - 1 : t[p].kind = "COMMENT"
           /\ TokenAt(t, k) <= Len(t) => t[TokenAt(t, k)].kind # "COMMENT"
<1> DEFINE S == {m \in k .. Len(t) + 1 : m <= Len(t) => t[m].kind # "COMMENT"}
<1>1. Len(t) \in Nat
  OBVIOUS
<1>2. S \in SUBSET Nat /\ Len(t) + 1 \in S
  BY <1>1
<1>3. PICK m \in S : \A i \in S : m <= i
  <2> HIDE DEF S
  <2> QED
    BY <1>2, NatMin
<1>4. m \in k .. Len(t) + 1 /\ (m <= Len(t) => t[m].kind # "COMMENT")
  OBVIOUS
<1>5. ASSUME NEW p \in k .. m - 1
      PROVE  t[p].kind = "COMMENT"
  <2>1. p \in k .. Len(t) + 1 /\ p <= Len(t) /\ ~(m <= p)
    BY <1>1, <1>4
  <2>2. p \notin S
    BY <1>3, <2>1
  <2> QED
    BY <2>1, <2>2
<1> QED
  BY <1>4, <1>5 DEF TokenAt

(* The numbers that scan_int can deliver, and Overflow. *)
Scans == Nat \union {Overflow}

(* What a digit makes of a number is a number, or an overflow. *)
LEMMA WithDigitIs ==
    ASSUME NEW v \in Scans, NEW d \in Nat
    PROVE  WithDigit(v, d) \in Scans
<1>1. CASE v = Overflow
  BY <1>1 DEF WithDigit, Scans
<1>2. CASE v # Overflow
  <2> DEFINE n == 2 * (INT_MAX + 1)
             x == v * 10 + d
  <2>1. n \in Nat /\ n > 0 /\ x \in Nat
    BY <1>2, IntMaxAssumption DEF Scans
  <2> HIDE DEF n, x
  <2>2. x % n \in Nat
    BY <2>1
  <2>3. Wrapped(x) \in Nat
    BY <2>2 DEF Wrapped, n
  <2> QED
    BY <2>3 DEF WithDigit, Scans, x
<1> QED
  BY <1>1, <1>2

(* One more digit of a number of which the first digits are read, and the *)
(* functions that read all numbers so.                                    *)
LastDigitRead(f, p) == IF p = 0 THEN 0 ELSE WithDigit(f[p \div 10], p % 10)

Reads(f) == f = [p \in Nat |-> LastDigitRead(f, p)]
ReadBy == CHOOSE f : Reads(f)

(* The number read after its last digit, given the others. *)
LEMMA LastDigitReadIs ==
    ASSUME NEW f, NEW p \in Nat, p = 0 \/ f[p \div 10] \in Scans
    PROVE  LastDigitRead(f, p) \in Scans
<1>1. p % 10 \in Nat
  OBVIOUS
<1>2. 0 \in Scans
  BY DEF Scans
<1> QED
  BY <1>1, <1>2, WithDigitIs DEF LastDigitRead

(* The recursion of scan_int has a solution. *)
LEMMA SomethingReads == \E f : Reads(f)
<1> DEFINE X == [Nat -> Scans]
           x0 == [p \in Nat |-> 0]
           extended(g, n) == [p \in Nat |-> IF p = n + 1 THEN LastDigitRead(g, n + 1) ELSE g[p]]
           step == [n \in Nat |-> [g \in X |-> extended(g, n)]]
<1>1. x0 \in X
  BY DEF Scans
<1>2. ASSUME NEW n \in Nat, NEW g \in X
      PROVE  extended(g, n) \in X
  <2>1. n + 1 \in Nat /\ (n + 1) \div 10 \in Nat
    OBVIOUS
  <2>2. LastDigitRead(g, n + 1) \in Scans
    BY <2>1, LastDigitReadIs
  <2> QED
    BY <2>2
<1>3. step \in [Nat -> [X -> X]]
  <2> HIDE DEF X, extended
  <2> QED
    BY <1>2
<1>4. PICK h \in [Nat -> X] : h[0] = x0 /\ \A n \in Nat : h[n + 1] = step[n][h[n]]
  <2> HIDE DEF X, x0, step
  <2>1. Course(X, x0, step) # {}
    BY <1>1, <1>3, RunForever
  <2> QED
    BY <2>1 DEF Course
<1>5. \A n \in Nat : h[n] \in X /\ h[n + 1] = extended(h[n], n)
  <2> HIDE DEF X, extended
  <2> QED
    BY <1>4
<1>6. ASSUME NEW n \in Nat, NEW p \in Nat
      PROVE  h[n + 1][p] = IF p = n + 1 THEN LastDigitRead(h[n], n + 1) ELSE h[n][p]
  <2>1. h[n + 1] = extended(h[n], n)
    BY <1>5
  <2> QED
    BY <2>1
<1> HIDE DEF X, x0, step
<1>7. ASSUME NEW q \in Nat, NEW n \in Nat, q <= n
      PROVE  h[n][q] = h[q][q]
  <2> DEFINE S == {m \in Nat : q <= m /\ h[m][q] # h[q][q]}
  <2> SUFFICES ASSUME S # {} PROVE FALSE
    BY <1>7
  <2>1. PICK m \in S : \A i \in S : m <= i
    <3>1. S \in SUBSET Nat
      OBVIOUS
    <3> HIDE DEF S
    <3> QED
      BY <3>1, NatMin
  <2>2. m \in Nat /\ q <= m /\ h[m][q] # h[q][q] /\ m # q
    OBVIOUS
  <2>3. m - 1 \in Nat /\ q <= m - 1 /\ ~(m <= m - 1) /\ m - 1 + 1 = m
    BY <2>2
  <2>4. h[m - 1][q] = h[q][q]
    BY <2>1, <2>3
  <2>5. h[m - 1 + 1][q] = h[m - 1][q]
    BY <1>6, <2>2, <2>3
  <2> QED
    BY <2>2, <2>3, <2>4, <2>5
<1> DEFINE f == [p \in Nat |-> h[p][p]]
<1>8. ASSUME NEW p \in Nat
      PROVE  f[p] = LastDigitRead(f, p)
  <2>1. CASE p = 0
    BY <1>4, <2>1 DEF LastDigitRead, x0
  <2>2. CASE p # 0
    <3>1. p - 1 \in Nat /\ p - 1 + 1 = p /\ p \div 10 \in Nat /\ p \div 10 <= p - 1
      BY <2>2
    <3>2. h[p - 1 + 1][p] = LastDigitRead(h[p - 1], p)
      BY <1>6, <3>1
    <3>3. h[p - 1][p \div 10] = f[p \div 10]
      BY <1>7, <3>1
    <3>4. LastDigitRead(h[p - 1], p) = LastDigitRead(f, p)
      BY <3>3 DEF LastDigitRead
    <3> QED
      BY <3>1, <3>2, <3>4
  <2> QED
    BY <2>1, <2>2
<1>9. f = [p \in Nat |-> f[p]]
  OBVIOUS
<1> HIDE DEF f
<1>10. Reads(f)
  BY <1>8, <1>9 DEF Reads
<1> QED
  BY <1>10

(* scan_int gives a number or stops the program, whatever the digits. *)
LEMMA ScanIs ==
    ASSUME NEW num \in Nat
    PROVE  scan_int(num) \in Scans
<1> DEFINE f == ReadBy
           S == {p \in Nat : f[p] \notin Scans}
<1>1. Reads(f)
  BY SomethingReads DEF ReadBy
<1>2. scan_int(num) = f[num]
  BY DEF scan_int, ReadBy, Reads, LastDigitRead
<1> HIDE DEF f
<1>3. \A p \in Nat : f[p] = LastDigitRead(f, p)
  BY <1>1 DEF Reads
<1>4. S = {}
  <2> SUFFICES ASSUME S # {} PROVE FALSE
    OBVIOUS
  <2>1. PICK m \in S : \A i \in S : m <= i
    <3>1. S \in SUBSET Nat
      OBVIOUS
    <3> HIDE DEF S
    <3> QED
      BY <3>1, NatMin
  <2>2. m \in Nat /\ f[m] \notin Scans
    OBVIOUS
  <2>3. m # 0 => m \div 10 \in Nat /\ ~(m <= m \div 10)
    BY <2>2
  <2>4. m # 0 => f[m \div 10] \in Scans
    BY <2>1, <2>3
  <2>5. LastDigitRead(f, m) \in Scans
    BY <2>2, <2>4, LastDigitReadIs
  <2> QED
    BY <1>3, <2>2, <2>5
<1> QED
  BY <1>2, <1>4

(* A scanned item is an item of its kind, or a bad one. *)
LEMMA ScannedIs ==
    ASSUME NEW item \in Item
    PROVE  /\ Scanned(item) \in Item
           /\ Scanned(item).kind \in {item.kind, "BAD"}
<1>1. CASE ~HasNumber(item)
  BY <1>1 DEF Scanned
<1>2. CASE HasNumber(item) /\ scan_int(item.val) = Overflow
  BY <1>2 DEF Scanned, Bad, Item, Kinds
<1>3. CASE HasNumber(item) /\ scan_int(item.val) # Overflow
  <2> DEFINE n == scan_int(item.val)
  <2>1. n \in Nat
    <3>1. item.val \in Nat
      BY DEF Item
    <3> QED
      BY <1>3, <3>1, ScanIs DEF Scans
  <2>2. Scanned(item) = [item EXCEPT !.val = n]
    BY <1>3 DEF Scanned
  <2> HIDE DEF n
  <2> QED
    BY <2>1, <2>2 DEF Item
<1> QED
  BY <1>1, <1>2, <1>3

(* next_token delivers a token and stays within the text. *)
LEMMA NextTokenIs ==
    ASSUME NEW t \in Seq(Item), NEW k \in 1 .. Len(t) + 1
    PROVE  /\ Token(t, k) \in Item \union {EOI}
           /\ After(t, k) \in k .. Len(t) + 1
           /\ After(t, k) \in 1 .. Len(t) + 1
<1> DEFINE m == TokenAt(t, k)
<1>1. Len(t) \in Nat
  OBVIOUS
<1>2. m \in k .. Len(t) + 1
  BY TokenAtIs
<1> HIDE DEF m
<1>3. m <= Len(t) => m \in 1 .. Len(t) /\ t[m] \in Item /\ Scanned(t[m]) \in Item
  BY <1>1, <1>2, ElementOfSeq, ScannedIs
<1>4. After(t, k) \in k .. Len(t) + 1 /\ After(t, k) \in 1 .. Len(t) + 1
  BY <1>1, <1>2 DEF After, m
<1>5. Token(t, k) \in Item \union {EOI}
  BY <1>1, <1>2, <1>3 DEF Token, m
<1> QED
  BY <1>4, <1>5

-----------------------------------------------------------------------------
(* The colons counted *)

(* The functions that count the colons of t from each place on, and the *)
(* one that count_bbs asks.                                             *)
Counts(t, k, f) ==
    f = [m \in k .. Len(t) + 1 |-> IF m = Len(t) + 1 THEN 0 ELSE Colons(t[m]) + f[m + 1]]

CountedBy(t, k) == CHOOSE f : Counts(t, k, f)

(* What the colons of a text add up to, as one function for all places. *)
Tallies(t, c) ==
    /\ c \in [1 .. Len(t) + 1 -> Nat]
    /\ c[Len(t) + 1] = 0
    /\ \A m \in 1 .. Len(t) : c[m] = Colons(t[m]) + c[m + 1]

(* The colons of one item. *)
LEMMA ColonsIs == ASSUME NEW item \in Item PROVE Colons(item) \in Nat
<1>1. item.kind \in Kinds /\ item.val \in Nat
  BY DEF Item
<1> QED
  BY <1>1 DEF Colons

(* The recursion of count_bbs has a solution ... *)
LEMMA TallyExists ==
    ASSUME NEW t \in Seq(Item)
    PROVE  \E c : Tallies(t, c)
<1> DEFINE N == Len(t)
           more(n, c) == IF n < N THEN Colons(t[N - n]) + c ELSE c
           step == [n \in Nat |-> [c \in Nat |-> more(n, c)]]
<1>1. N \in Nat
  OBVIOUS
<1>2. ASSUME NEW n \in Nat, NEW c \in Nat
      PROVE  more(n, c) \in Nat
  <2>1. CASE n < N
    <3>1. N - n \in 1 .. Len(t)
      BY <1>1, <2>1
    <3>2. Colons(t[N - n]) \in Nat
      BY <3>1, ElementOfSeq, ColonsIs
    <3> QED
      BY <2>1, <3>2
  <2>2. CASE ~(n < N)
    BY <2>2
  <2> QED
    BY <2>1, <2>2
<1>3. step \in [Nat -> [Nat -> Nat]]
  <2> HIDE DEF more
  <2> QED
    BY <1>2
<1>4. PICK h \in [Nat -> Nat] : h[0] = 0 /\ \A n \in Nat : h[n + 1] = step[n][h[n]]
  <2> HIDE DEF step
  <2>1. 0 \in Nat
    OBVIOUS
  <2>2. Course(Nat, 0, step) # {}
    BY <1>3, <2>1, RunForever
  <2> QED
    BY <2>2 DEF Course
<1>5. \A n \in Nat : h[n + 1] = more(n, h[n])
  <2>1. \A n \in Nat : h[n] \in Nat
    OBVIOUS
  <2> HIDE DEF more
  <2> QED
    BY <1>4, <2>1
<1> DEFINE c == [m \in 1 .. N + 1 |-> h[N + 1 - m]]
<1>6. c \in [1 .. N + 1 -> Nat]
  <2>1. \A m \in 1 .. N + 1 : N + 1 - m \in Nat
    BY <1>1
  <2> QED
    BY <2>1
<1>7. c[N + 1] = 0
  <2>1. N + 1 \in 1 .. N + 1 /\ N + 1 - (N + 1) = 0
    BY <1>1
  <2> QED
    BY <1>4, <2>1
<1>8. ASSUME NEW m \in 1 .. N
      PROVE  c[m] = Colons(t[m]) + c[m + 1]
  <2>1. /\ m \in 1 .. N + 1 /\ m + 1 \in 1 .. N + 1
        /\ N - m \in Nat /\ N - m < N /\ N - (N - m) = m
        /\ N + 1 - m = (N - m) + 1 /\ N + 1 - (m + 1) = N - m
    BY <1>1
  <2>2. c[m] = h[(N - m) + 1] /\ c[m + 1] = h[N - m]
    BY <2>1
  <2>3. h[(N - m) + 1] = more(N - m, h[N - m])
    BY <1>5, <2>1
  <2>4. more(N - m, h[N - m]) = Colons(t[m]) + h[N - m]
    BY <2>1
  <2> QED
    BY <2>2, <2>3, <2>4
<1> HIDE DEF c
<1>9. Tallies(t, c)
  BY <1>6, <1>7, <1>8 DEF Tallies
<1> QED
  BY <1>9

(* ... and count_bbs is its value. *)
LEMMA TallyCounts ==
    ASSUME NEW t \in Seq(Item), NEW c, Tallies(t, c), NEW k \in 1 .. Len(t) + 1
    PROVE  count_bbs(t, k) = c[k]
<1> DEFINE N == Len(t)
           D == k .. N + 1
           g == [m \in D |-> c[m]]
           e(h, m) == IF m = N + 1 THEN 0 ELSE Colons(t[m]) + h[m + 1]
<1>1. N \in Nat /\ k \in Nat
  OBVIOUS
<1>2. \A m \in D : m \in Nat /\ (m # N + 1 => m + 1 \in D /\ m \in 1 .. N)
  BY <1>1
<1>3. \A m \in D : g[m] = e(g, m)
  <2> SUFFICES ASSUME NEW m \in D PROVE g[m] = e(g, m)
    OBVIOUS
  <2>1. CASE m = N + 1
    BY <2>1 DEF Tallies
  <2>2. CASE m # N + 1
    <3>1. m + 1 \in D /\ m \in 1 .. N
      BY <1>2, <2>2
    <3>2. g[m] = c[m] /\ g[m + 1] = c[m + 1]
      BY <3>1
    <3>3. c[m] = Colons(t[m]) + c[m + 1]
      BY <3>1 DEF Tallies
    <3> QED
      BY <2>2, <3>2, <3>3
  <2> QED
    BY <2>1, <2>2
<1>4. Counts(t, k, g)
  <2>1. g = [m \in D |-> g[m]]
    OBVIOUS
  <2>2. [m \in D |-> g[m]] = [m \in D |-> e(g, m)]
    <3> HIDE DEF g, e
    <3> QED
      BY <1>3
  <2>3. g = [m \in D |-> e(g, m)]
    BY <2>1, <2>2
  <2> HIDE DEF g
  <2> QED
    BY <2>3 DEF Counts
<1> DEFINE f == CountedBy(t, k)
<1>5. Counts(t, k, f)
  <2> HIDE DEF g
  <2> QED
    BY <1>4 DEF CountedBy
<1>6. count_bbs(t, k) = f[k]
  BY DEF count_bbs, CountedBy, Counts
<1> HIDE DEF f
<1>7. \A m \in D : f[m] = e(f, m)
  <2>1. f = [m \in D |-> e(f, m)]
    BY <1>5 DEF Counts
  <2> HIDE DEF e, D
  <2> QED
    BY <2>1
<1> DEFINE S == {m \in D : f[m] # g[m]}
<1>8. S = {}
  <2> SUFFICES ASSUME S # {} PROVE FALSE
    OBVIOUS
  <2>1. S \in SUBSET Int /\ N + 1 \in Int /\ \A m \in S : m <= N + 1
    BY <1>1
  <2>2. PICK m \in S : \A i \in S : i <= m
    <3> HIDE DEF S
    <3> QED
      BY <2>1, IntMax
  <2>3. m \in D /\ f[m] # g[m]
    OBVIOUS
  <2>4. m # N + 1
    BY <1>3, <1>7, <2>3
  <2>5. m + 1 \in D /\ ~(m + 1 <= m)
    BY <1>2, <2>3, <2>4
  <2>6. f[m + 1] = g[m + 1]
    BY <2>2, <2>5
  <2>7. e(f, m) = e(g, m)
    BY <2>6
  <2> HIDE DEF e, S, g
  <2> QED
    BY <1>3, <1>7, <2>3, <2>7
<1>9. k \in D
  BY <1>1
<1>10. f[k] = g[k]
  BY <1>8, <1>9
<1> QED
  BY <1>6, <1>9, <1>10

(* What is counted from a later place is not more. *)
LEMMA TallyFalls ==
    ASSUME NEW t \in Seq(Item), NEW c, Tallies(t, c),
           NEW k \in 1 .. Len(t) + 1, NEW n \in k .. Len(t) + 1
    PROVE  c[n] <= c[k]
<1> DEFINE S == {m \in k .. Len(t) + 1 : ~(c[m] <= c[k])}
<1> SUFFICES ASSUME S # {} PROVE FALSE
  OBVIOUS
<1>1. Len(t) \in Nat /\ k \in Nat
  OBVIOUS
<1>2. S \in SUBSET Nat
  BY <1>1
<1>3. PICK m \in S : \A i \in S : m <= i
  <2> HIDE DEF S
  <2> QED
    BY <1>2, NatMin
<1>4. m \in k .. Len(t) + 1 /\ ~(c[m] <= c[k])
  OBVIOUS
<1>5. m # k
  <2>1. c[k] \in Nat
    BY DEF Tallies
  <2> QED
    BY <1>4, <2>1
<1>6. m - 1 \in k .. Len(t) + 1 /\ ~(m <= m - 1) /\ m - 1 \in 1 .. Len(t) /\ m - 1 + 1 = m
  BY <1>1, <1>4, <1>5
<1>7. c[m - 1] <= c[k]
  BY <1>3, <1>6
<1>8. c[m - 1] = Colons(t[m - 1]) + c[m]
  BY <1>6 DEF Tallies
<1>9. Colons(t[m - 1]) \in Nat
  BY <1>6, ElementOfSeq, ColonsIs
<1>10. c[m] \in Nat /\ c[k] \in Nat
  <2>1. m \in 1 .. Len(t) + 1
    BY <1>1, <1>4
  <2> QED
    BY <2>1 DEF Tallies
<1> HIDE DEF S
<1> QED
  BY <1>4, <1>7, <1>8, <1>9, <1>10

(* The colon that a token may be. *)
IsColon(tok) == IF tok.kind = "COLON" THEN 1 ELSE 0

(* Passing over a token takes its colon off the count. *)
LEMMA TokenTakesColon ==
    ASSUME NEW t \in Seq(Item), NEW k \in 1 .. Len(t) + 1
    PROVE  /\ count_bbs(t, k) \in Nat
           /\ count_bbs(t, After(t, k)) \in Nat
           /\ IsColon(Token(t, k)) + count_bbs(t, After(t, k)) <= count_bbs(t, k)
<1>1. PICK c : Tallies(t, c)
  BY TallyExists
<1> DEFINE m == TokenAt(t, k)
           a == After(t, k)
<1>2. Len(t) \in Nat /\ m \in k .. Len(t) + 1 /\ a \in 1 .. Len(t) + 1
  BY TokenAtIs, NextTokenIs
<1>3. count_bbs(t, k) = c[k] /\ count_bbs(t, a) = c[a] /\ c[k] \in Nat /\ c[a] \in Nat
  <2>1. c[k] \in Nat /\ c[a] \in Nat
    BY <1>1, <1>2 DEF Tallies
  <2> HIDE DEF a
  <2> QED
    BY <1>1, <1>2, <2>1, TallyCounts
<1> HIDE DEF m, a
<1>4. IsColon(Token(t, k)) + c[a] <= c[k]
  <2>1. CASE m > Len(t)
    <3>1. Token(t, k) = EOI /\ a = Len(t) + 1
      BY <2>1 DEF Token, After, m, a
    <3>2. IsColon(Token(t, k)) = 0
      BY <3>1 DEF IsColon, EOI
    <3>3. c[a] = 0
      BY <1>1, <3>1 DEF Tallies
    <3> QED
      BY <1>3, <3>2, <3>3
  <2>2. CASE ~(m > Len(t))
    <3>1. m \in 1 .. Len(t) /\ a = m + 1 /\ Token(t, k) = Scanned(t[m])
      BY <1>2, <2>2 DEF Token, After, m, a
    <3>2. t[m] \in Item
      BY <3>1, ElementOfSeq
    <3>3. c[m] = Colons(t[m]) + c[a]
      BY <1>1, <3>1 DEF Tallies
    <3>4. c[m] <= c[k]
      BY <1>1, <1>2, TallyFalls
    <3>5. IsColon(Token(t, k)) <= Colons(t[m]) /\ Colons(t[m]) \in Nat /\ IsColon(Token(t, k)) \in Nat
      <4>1. Scanned(t[m]).kind \in {t[m].kind, "BAD"}
        BY <3>2, ScannedIs
      <4>2. Colons(t[m]) \in Nat
        BY <3>2, ColonsIs
      <4>3. CASE t[m].kind = "COLON"
        BY <3>1, <4>1, <4>2, <4>3 DEF IsColon, Colons
      <4>4. CASE t[m].kind # "COLON"
        BY <3>1, <4>1, <4>2, <4>4 DEF IsColon
      <4> QED
        BY <4>3, <4>4
    <3>6. c[m] \in Nat
      <4>1. m \in 1 .. Len(t) + 1
        BY <1>2, <3>1
      <4> QED
        BY <1>1, <4>1 DEF Tallies
    <3> QED
      BY <1>3, <3>3, <3>4, <3>5, <3>6
  <2> QED
    BY <2>1, <2>2
<1> QED
  BY <1>3, <1>4 DEF a

-----------------------------------------------------------------------------
(* The edges of branches *)

(* add_edge makes a graph of a graph. *)
LEMMA AddEdgeIs ==
    ASSUME NEW c \in Cfg, NEW s \in Blocks, NEW d \in Blocks
    PROVE  AddEdge(c, s, d) \in Cfg
<1>1. /\ c.succs \in [Blocks -> Seq(Blocks)] /\ c.preds \in [Blocks -> Seq(Blocks)]
      /\ c.succs[s] \in Seq(Blocks) /\ c.preds[d] \in Seq(Blocks)
  BY DEF Cfg
<1>2. Append(c.succs[s], d) \in Seq(Blocks) /\ Append(c.preds[d], s) \in Seq(Blocks)
  BY <1>1, AppendElements
<1>3. /\ [c.succs EXCEPT ![s] = Append(@, d)] \in [Blocks -> Seq(Blocks)]
      /\ [c.preds EXCEPT ![d] = Append(@, s)] \in [Blocks -> Seq(Blocks)]
  BY <1>1, <1>2
<1> QED
  BY <1>3 DEF AddEdge, Cfg

(* The functions that add the edges of a block's branches one by one, and *)
(* the one that AddBranches asks.                                         *)
Adds(c, b, targets, f) ==
    f = [k \in 0 .. Len(targets) |-> IF k = 0 THEN c ELSE AddEdge(f[k - 1], b, targets[k])]

AddedBy(c, b, targets) == CHOOSE f : Adds(c, b, targets, f)

(* The graph with the first k edges of some branches, as one function. *)
EdgesAdded(c, b, targets, f) ==
    /\ f \in [0 .. Len(targets) -> Cfg]
    /\ f[0] = c
    /\ \A k \in 1 .. Len(targets) : f[k] = AddEdge(f[k - 1], b, targets[k])

(* The edges of a block can be added one after the other. *)
LEMMA EdgesCanBeAdded ==
    ASSUME NEW c \in Cfg, NEW b \in Blocks, NEW targets \in Seq(Blocks)
    PROVE  \E f : EdgesAdded(c, b, targets, f)
<1> DEFINE N == Len(targets)
           more(n, g) == IF n < N THEN AddEdge(g, b, targets[n + 1]) ELSE g
           step == [n \in Nat |-> [g \in Cfg |-> more(n, g)]]
<1>1. N \in Nat
  OBVIOUS
<1>2. ASSUME NEW n \in Nat, NEW g \in Cfg
      PROVE  more(n, g) \in Cfg
  <2>1. n < N => n + 1 \in 1 .. Len(targets)
    BY <1>1
  <2>2. n < N => targets[n + 1] \in Blocks
    BY <2>1, ElementOfSeq
  <2>3. n < N => AddEdge(g, b, targets[n + 1]) \in Cfg
    BY <2>2, AddEdgeIs
  <2> QED
    BY <2>3
<1>3. step \in [Nat -> [Cfg -> Cfg]]
  <2> HIDE DEF more
  <2> QED
    BY <1>2
<1>4. PICK h \in [Nat -> Cfg] : h[0] = c /\ \A n \in Nat : h[n + 1] = step[n][h[n]]
  <2> HIDE DEF step
  <2>1. Course(Cfg, c, step) # {}
    BY <1>3, RunForever
  <2> QED
    BY <2>1 DEF Course
<1>5. \A n \in Nat : h[n + 1] = more(n, h[n])
  <2>1. \A n \in Nat : h[n] \in Cfg
    OBVIOUS
  <2> HIDE DEF more
  <2> QED
    BY <1>4, <2>1
<1> DEFINE f == [k \in 0 .. N |-> h[k]]
<1>6. f \in [0 .. N -> Cfg] /\ f[0] = c
  BY <1>1, <1>4
<1>7. ASSUME NEW k \in 1 .. N
      PROVE  f[k] = AddEdge(f[k - 1], b, targets[k])
  <2>1. k - 1 \in Nat /\ k - 1 \in 0 .. N /\ k \in 0 .. N /\ k - 1 < N /\ k - 1 + 1 = k
    BY <1>1
  <2>2. h[k - 1 + 1] = more(k - 1, h[k - 1])
    BY <1>5, <2>1
  <2> QED
    BY <2>1, <2>2
<1> HIDE DEF f
<1>8. EdgesAdded(c, b, targets, f)
  BY <1>6, <1>7 DEF EdgesAdded
<1> QED
  BY <1>8

(* Two such functions agree as far as the branches do. *)
StartsWith(t, s) == Len(s) <= Len(t) /\ \A k \in 1 .. Len(s) : t[k] = s[k]
Agree(f, g, n) == \A k \in 0 .. n : f[k] = g[k]

(* Equal first branches add equal edges. *)
LEMMA EdgesAgree ==
    ASSUME NEW c, NEW b, NEW s \in Seq(Blocks), NEW t \in Seq(Blocks),
           NEW f, EdgesAdded(c, b, s, f), NEW g, EdgesAdded(c, b, t, g),
           StartsWith(t, s)
    PROVE  Agree(f, g, Len(s))
<1> DEFINE S == {k \in 0 .. Len(s) : f[k] # g[k]}
<1> SUFFICES ASSUME S # {} PROVE FALSE
  BY DEF Agree
<1>1. Len(s) \in Nat /\ Len(t) \in Nat /\ Len(s) <= Len(t)
  BY DEF StartsWith
<1>2. S \in SUBSET Nat
  OBVIOUS
<1>3. PICK k \in S : \A i \in S : k <= i
  <2> HIDE DEF S
  <2> QED
    BY <1>2, NatMin
<1>4. k \in 0 .. Len(s) /\ f[k] # g[k]
  OBVIOUS
<1>5. k # 0
  BY <1>4 DEF EdgesAdded
<1>6. k - 1 \in 0 .. Len(s) /\ ~(k <= k - 1) /\ k \in 1 .. Len(s) /\ k \in 1 .. Len(t)
  BY <1>1, <1>4, <1>5
<1>7. f[k - 1] = g[k - 1]
  BY <1>3, <1>6
<1>8. f[k] = AddEdge(f[k - 1], b, s[k]) /\ g[k] = AddEdge(g[k - 1], b, t[k]) /\ t[k] = s[k]
  BY <1>6 DEF EdgesAdded, StartsWith
<1> QED
  BY <1>4, <1>7, <1>8

(* AddBranches is the last graph of the additions. *)
LEMMA AddBranchesIs ==
    ASSUME NEW c \in Cfg, NEW b \in Blocks, NEW t \in Seq(Blocks), NEW f, EdgesAdded(c, b, t, f)
    PROVE  AddBranches(c, b, t) = f[Len(t)]
<1> DEFINE D == 0 .. Len(t)
           e(h, k) == IF k = 0 THEN c ELSE AddEdge(h[k - 1], b, t[k])
<1>1. Len(t) \in Nat
  OBVIOUS
<1>2. \A k \in D : k # 0 => k \in 1 .. Len(t) /\ k - 1 \in D /\ ~(k <= k - 1)
  BY <1>1
<1>3. f = [k \in D |-> f[k]]
  BY DEF EdgesAdded
<1>4. \A k \in D : f[k] = e(f, k)
  BY <1>2 DEF EdgesAdded
<1>5. f = [k \in D |-> e(f, k)]
  <2>1. [k \in D |-> f[k]] = [k \in D |-> e(f, k)]
    <3> HIDE DEF e, D
    <3> QED
      BY <1>4
  <2> QED
    BY <1>3, <2>1
<1>6. Adds(c, b, t, f)
  BY <1>5 DEF Adds
<1> DEFINE g == AddedBy(c, b, t)
<1>7. Adds(c, b, t, g)
  BY <1>6 DEF AddedBy
<1>8. AddBranches(c, b, t) = g[Len(t)]
  BY DEF AddBranches, AddedBy, Adds
<1> HIDE DEF g
<1>9. \A k \in D : g[k] = e(g, k)
  <2>1. g = [k \in D |-> e(g, k)]
    BY <1>7 DEF Adds
  <2> HIDE DEF e, D
  <2> QED
    BY <2>1
<1> DEFINE S == {k \in D : f[k] # g[k]}
<1>10. S = {}
  <2> SUFFICES ASSUME S # {} PROVE FALSE
    OBVIOUS
  <2>1. S \in SUBSET Nat
    OBVIOUS
  <2>2. PICK k \in S : \A i \in S : k <= i
    <3> HIDE DEF S
    <3> QED
      BY <2>1, NatMin
  <2>3. k \in D /\ f[k] # g[k]
    OBVIOUS
  <2>4. k # 0
    BY <1>4, <1>9, <2>3
  <2>5. k - 1 \in D /\ ~(k <= k - 1)
    BY <1>2, <2>3, <2>4
  <2>6. f[k - 1] = g[k - 1]
    BY <2>2, <2>5
  <2>7. e(f, k) = e(g, k)
    BY <2>6
  <2> HIDE DEF e, S
  <2> QED
    BY <1>4, <1>9, <2>3, <2>7
<1>11. Len(t) \in D
  BY <1>1
<1> QED
  BY <1>8, <1>10, <1>11

(* The edges of no branches, and of one more. *)
LEMMA AddBranchesSteps ==
    ASSUME NEW c \in Cfg, NEW b \in Blocks, NEW t \in Seq(Blocks)
    PROVE  /\ AddBranches(c, b, t) \in Cfg
           /\ AddBranches(c, b, <<>>) = c
           /\ \A d \in Blocks : AddBranches(c, b, Append(t, d)) = AddEdge(AddBranches(c, b, t), b, d)
<1>1. PICK f : EdgesAdded(c, b, t, f)
  BY EdgesCanBeAdded
<1>2. AddBranches(c, b, t) = f[Len(t)] /\ f[Len(t)] \in Cfg
  <2>1. Len(t) \in 0 .. Len(t)
    OBVIOUS
  <2>2. f[Len(t)] \in Cfg
    BY <1>1, <2>1 DEF EdgesAdded
  <2> QED
    BY <1>1, <2>2, AddBranchesIs
<1>3. AddBranches(c, b, <<>>) = c
  <2>1. <<>> \in Seq(Blocks) /\ Len(<<>>) = 0
    BY EmptySeq
  <2>2. PICK g : EdgesAdded(c, b, <<>>, g)
    BY <2>1, EdgesCanBeAdded
  <2>3. AddBranches(c, b, <<>>) = g[Len(<<>>)]
    BY <2>1, <2>2, AddBranchesIs
  <2> QED
    BY <2>1, <2>2, <2>3 DEF EdgesAdded
<1>4. ASSUME NEW d \in Blocks
      PROVE  AddBranches(c, b, Append(t, d)) = AddEdge(AddBranches(c, b, t), b, d)
  <2> DEFINE u == Append(t, d)
  <2>1. /\ u \in Seq(Blocks) /\ Len(u) = Len(t) + 1 /\ u[Len(t) + 1] = d
        /\ \A k \in 1 .. Len(t) : u[k] = t[k]
    BY AppendProperties
  <2> HIDE DEF u
  <2>2. PICK g : EdgesAdded(c, b, u, g)
    BY <2>1, EdgesCanBeAdded
  <2>3. Len(t) \in Nat /\ Len(t) <= Len(u) /\ Len(t) \in 0 .. Len(t) /\ Len(u) \in 1 .. Len(u)
        /\ Len(u) - 1 = Len(t)
    BY <2>1
  <2>4. \A k \in 0 .. Len(t) : f[k] = g[k]
    <3>1. u \in Seq(Blocks) /\ StartsWith(u, t)
      BY <2>1, <2>3 DEF StartsWith
    <3>2. Agree(f, g, Len(t))
      BY <1>1, <2>2, <3>1, EdgesAgree
    <3> QED
      BY <3>2 DEF Agree
  <2>5. g[Len(u)] = AddEdge(g[Len(u) - 1], b, u[Len(u)])
    BY <2>2, <2>3 DEF EdgesAdded
  <2>6. g[Len(u)] = AddEdge(f[Len(t)], b, d)
    BY <2>1, <2>3, <2>4, <2>5
  <2>7. AddBranches(c, b, u) = g[Len(u)]
    BY <2>1, <2>2, AddBranchesIs
  <2> QED
    BY <1>2, <2>6, <2>7 DEF u
<1> QED
  BY <1>2, <1>3, <1>4

(* The functions that build a graph block by block, and the one that *)
(* BuildCfg asks.                                                    *)
Builds(br, f) ==
    f = [b \in 0 .. NBlocks |-> IF b = 0 THEN NewCfg ELSE AddBranches(f[b - 1], b - 1, br[b - 1])]

BuiltBy(br) == CHOOSE f : Builds(br, f)

(* The graph with the edges of the first blocks, as one function. *)
BlocksAdded(br, f) ==
    /\ f \in [0 .. NBlocks -> Cfg]
    /\ f[0] = NewCfg
    /\ \A k \in 1 .. NBlocks : f[k] = AddBranches(f[k - 1], k - 1, br[k - 1])

Branches == [Blocks -> Seq(Blocks)]

(* The edges of the blocks can be added block by block. *)
LEMMA BlocksCanBeAdded ==
    ASSUME NEW br \in Branches
    PROVE  \E f : BlocksAdded(br, f)
<1> DEFINE N == NBlocks
           more(n, g) == IF n < N THEN AddBranches(g, n, br[n]) ELSE g
           step == [n \in Nat |-> [g \in Cfg |-> more(n, g)]]
<1>1. N \in Nat /\ \A n \in Nat : n < N => n \in Blocks
  BY NBlocksAssumption DEF Blocks
<1>2. ASSUME NEW n \in Nat, NEW g \in Cfg
      PROVE  more(n, g) \in Cfg
  <2>1. n < N => n \in Blocks /\ br[n] \in Seq(Blocks)
    BY <1>1 DEF Branches
  <2>2. n < N => AddBranches(g, n, br[n]) \in Cfg
    BY <2>1, AddBranchesSteps
  <2> QED
    BY <2>2
<1>3. step \in [Nat -> [Cfg -> Cfg]]
  <2> HIDE DEF more
  <2> QED
    BY <1>2
<1>4. NewCfg \in Cfg
  BY NewCfgWellFormed DEF WellFormed
<1>5. PICK h \in [Nat -> Cfg] : h[0] = NewCfg /\ \A n \in Nat : h[n + 1] = step[n][h[n]]
  <2> HIDE DEF step
  <2>1. Course(Cfg, NewCfg, step) # {}
    BY <1>3, <1>4, RunForever
  <2> QED
    BY <2>1 DEF Course
<1>6. \A n \in Nat : h[n + 1] = more(n, h[n])
  <2>1. \A n \in Nat : h[n] \in Cfg
    OBVIOUS
  <2> HIDE DEF more
  <2> QED
    BY <1>5, <2>1
<1> DEFINE f == [k \in 0 .. N |-> h[k]]
<1>7. f \in [0 .. N -> Cfg] /\ f[0] = NewCfg
  <2>1. \A k \in Nat : h[k] \in Cfg
    OBVIOUS
  <2>2. 0 \in 0 .. N /\ \A k \in 0 .. N : k \in Nat
    BY <1>1
  <2>3. h[0] = NewCfg
    BY <1>5
  <2> QED
    BY <2>1, <2>2, <2>3
<1>8. ASSUME NEW k \in 1 .. N
      PROVE  f[k] = AddBranches(f[k - 1], k - 1, br[k - 1])
  <2>1. k - 1 \in Nat /\ k - 1 \in 0 .. N /\ k \in 0 .. N /\ k - 1 < N /\ k - 1 + 1 = k
    BY <1>1
  <2>2. h[k - 1 + 1] = more(k - 1, h[k - 1])
    BY <1>6, <2>1
  <2> QED
    BY <2>1, <2>2
<1> HIDE DEF f
<1>9. BlocksAdded(br, f)
  BY <1>7, <1>8 DEF BlocksAdded
<1> QED
  BY <1>9

(* BuildCfg is the last graph of the additions. *)
LEMMA BuildCfgIs ==
    ASSUME NEW br, NEW f, BlocksAdded(br, f)
    PROVE  BuildCfg(br) = f[NBlocks]
<1> DEFINE D == 0 .. NBlocks
           e(h, k) == IF k = 0 THEN NewCfg ELSE AddBranches(h[k - 1], k - 1, br[k - 1])
<1>1. NBlocks \in Nat
  BY NBlocksAssumption
<1>2. \A k \in D : k # 0 => k \in 1 .. NBlocks /\ k - 1 \in D /\ ~(k <= k - 1)
  BY <1>1
<1>3. f = [k \in D |-> f[k]]
  BY DEF BlocksAdded
<1>4. \A k \in D : f[k] = e(f, k)
  BY <1>2 DEF BlocksAdded
<1>5. f = [k \in D |-> e(f, k)]
  <2>1. [k \in D |-> f[k]] = [k \in D |-> e(f, k)]
    <3> HIDE DEF e, D
    <3> QED
      BY <1>4
  <2> QED
    BY <1>3, <2>1
<1>6. Builds(br, f)
  BY <1>5 DEF Builds
<1> DEFINE g == BuiltBy(br)
<1>7. Builds(br, g)
  BY <1>6 DEF BuiltBy
<1>8. BuildCfg(br) = g[NBlocks]
  BY DEF BuildCfg, BuiltBy, Builds
<1> HIDE DEF g
<1>9. \A k \in D : g[k] = e(g, k)
  <2>1. g = [k \in D |-> e(g, k)]
    BY <1>7 DEF Builds
  <2> HIDE DEF e, D
  <2> QED
    BY <2>1
<1> DEFINE S == {k \in D : f[k] # g[k]}
<1>10. S = {}
  <2> SUFFICES ASSUME S # {} PROVE FALSE
    OBVIOUS
  <2>1. S \in SUBSET Nat
    OBVIOUS
  <2>2. PICK k \in S : \A i \in S : k <= i
    <3> HIDE DEF S
    <3> QED
      BY <2>1, NatMin
  <2>3. k \in D /\ f[k] # g[k]
    OBVIOUS
  <2>4. k # 0
    BY <1>4, <1>9, <2>3
  <2>5. k - 1 \in D /\ ~(k <= k - 1)
    BY <1>2, <2>3, <2>4
  <2>6. f[k - 1] = g[k - 1]
    BY <2>2, <2>5
  <2>7. e(f, k) = e(g, k)
    BY <2>6
  <2> HIDE DEF e, S
  <2> QED
    BY <1>4, <1>9, <2>3, <2>7
<1>11. NBlocks \in D
  BY <1>1
<1> QED
  BY <1>8, <1>10, <1>11

(* The graph of no branches at all. *)
LEMMA BuildNothing ==
    ASSUME NEW br \in Branches, \A b \in Blocks : br[b] = <<>>
    PROVE  BuildCfg(br) = NewCfg
<1> DEFINE f == [k \in 0 .. NBlocks |-> NewCfg]
<1>1. NewCfg \in Cfg
  BY NewCfgWellFormed DEF WellFormed
<1>2. NBlocks \in Nat
  BY NBlocksAssumption
<1>3. ASSUME NEW k \in 1 .. NBlocks
      PROVE  f[k] = AddBranches(f[k - 1], k - 1, br[k - 1])
  <2>1. k \in 0 .. NBlocks /\ k - 1 \in 0 .. NBlocks /\ k - 1 \in Blocks
    BY <1>2 DEF Blocks
  <2>2. <<>> \in Seq(Blocks)
    OBVIOUS
  <2>3. AddBranches(NewCfg, k - 1, <<>>) = NewCfg
    BY <1>1, <2>1, <2>2, AddBranchesSteps
  <2> QED
    BY <2>1, <2>3
<1>4. BlocksAdded(br, f)
  <2>1. f \in [0 .. NBlocks -> Cfg] /\ f[0] = NewCfg
    BY <1>1, <1>2
  <2> HIDE DEF f
  <2> QED
    BY <1>3, <2>1 DEF BlocksAdded
<1>5. f[NBlocks] = NewCfg
  BY <1>2
<1> HIDE DEF f
<1> QED
  BY <1>4, <1>5, BuildCfgIs

(* One branch more in the last block that has any: its edge is the last. *)
OneMore(br, cr, b, d) ==
    /\ cr[b] = Append(br[b], d)
    /\ \A x \in Blocks : x # b => cr[x] = br[x]
    /\ \A x \in Blocks : x > b => br[x] = <<>>

(* A branch added to the last block with branches adds one edge, at the *)
(* end.                                                                 *)
LEMMA BuildOneMore ==
    ASSUME NEW br \in Branches, NEW cr \in Branches, NEW b \in Blocks, NEW d \in Blocks,
           OneMore(br, cr, b, d)
    PROVE  BuildCfg(cr) = AddEdge(BuildCfg(br), b, d)
<1>1. PICK f : BlocksAdded(br, f)
  BY BlocksCanBeAdded
<1>2. /\ f \in [0 .. NBlocks -> Cfg]
      /\ f[0] = NewCfg
      /\ \A k \in 1 .. NBlocks : f[k] = AddBranches(f[k - 1], k - 1, br[k - 1])
  BY <1>1 DEF BlocksAdded
<1> DEFINE g == [k \in 0 .. NBlocks |-> IF k <= b THEN f[k] ELSE AddEdge(f[k], b, d)]
<1>3. NBlocks \in Nat /\ b \in Nat /\ b < NBlocks
  BY NBlocksAssumption DEF Blocks
<1>4. g \in [0 .. NBlocks -> Cfg]
  <2>1. \A k \in 0 .. NBlocks : f[k] \in Cfg /\ AddEdge(f[k], b, d) \in Cfg
    BY <1>2, AddEdgeIs
  <2> QED
    BY <2>1
<1>5. g[0] = NewCfg
  BY <1>2, <1>3
<1>6. ASSUME NEW k \in 1 .. NBlocks
      PROVE  g[k] = AddBranches(g[k - 1], k - 1, cr[k - 1])
  <2>1. k \in 0 .. NBlocks /\ k - 1 \in 0 .. NBlocks /\ k - 1 \in Blocks
    BY <1>3 DEF Blocks
  <2>2. f[k - 1] \in Cfg /\ br[k - 1] \in Seq(Blocks)
    BY <1>2, <2>1 DEF Branches
  <2>3. f[k] = AddBranches(f[k - 1], k - 1, br[k - 1])
    BY <1>2
  <2>4. CASE k <= b
    <3>1. k - 1 <= b /\ k - 1 # b
      BY <1>3, <2>4
    <3>2. cr[k - 1] = br[k - 1]
      BY <2>1, <3>1 DEF OneMore
    <3>3. g[k] = f[k] /\ g[k - 1] = f[k - 1]
      BY <2>1, <2>4, <3>1
    <3> QED
      BY <2>3, <3>2, <3>3
  <2>5. CASE k = b + 1
    <3>1. ~(k <= b) /\ k - 1 = b
      BY <1>3, <2>5
    <3>2. g[k] = AddEdge(f[k], b, d) /\ g[k - 1] = f[k - 1]
      BY <1>3, <2>1, <3>1
    <3>3. cr[k - 1] = Append(br[k - 1], d)
      BY <3>1 DEF OneMore
    <3>4. AddBranches(f[k - 1], k - 1, Append(br[k - 1], d))
              = AddEdge(AddBranches(f[k - 1], k - 1, br[k - 1]), k - 1, d)
      BY <2>1, <2>2, AddBranchesSteps
    <3> HIDE DEF g
    <3> QED
      BY <2>3, <3>1, <3>2, <3>3, <3>4
  <2>6. CASE k > b + 1
    <3>1. ~(k <= b) /\ ~(k - 1 <= b) /\ k - 1 > b /\ k - 1 # b
      BY <1>3, <2>6
    <3>2. br[k - 1] = <<>> /\ cr[k - 1] = <<>>
      BY <2>1, <3>1 DEF OneMore
    <3>3. g[k] = AddEdge(f[k], b, d) /\ g[k - 1] = AddEdge(f[k - 1], b, d)
      BY <2>1, <3>1
    <3>4. AddEdge(f[k - 1], b, d) \in Cfg
      BY <2>2, AddEdgeIs
    <3>5. <<>> \in Seq(Blocks)
      OBVIOUS
    <3>6. AddBranches(f[k - 1], k - 1, <<>>) = f[k - 1]
      BY <2>1, <2>2, <3>5, AddBranchesSteps
    <3>7. AddBranches(AddEdge(f[k - 1], b, d), k - 1, <<>>) = AddEdge(f[k - 1], b, d)
      BY <2>1, <3>4, <3>5, AddBranchesSteps
    <3> HIDE DEF g
    <3> QED
      BY <2>3, <3>2, <3>3, <3>6, <3>7
  <2> QED
    BY <1>3, <2>4, <2>5, <2>6
<1>7. g[NBlocks] = AddEdge(f[NBlocks], b, d)
  BY <1>3
<1> HIDE DEF g
<1>8. BlocksAdded(cr, g)
  BY <1>4, <1>5, <1>6 DEF BlocksAdded
<1> QED
  BY <1>1, <1>7, <1>8, BuildCfgIs

-----------------------------------------------------------------------------
(* The branches of instructions *)

(* The instructions that lead to blocks there are. *)
PlacedInst == {i \in Instruction : Targets(i) \in Seq(Blocks)}

(* The functions that gather the branches of some instructions, and the one *)
(* that BranchTargets asks.                                                 *)
Gathers(s, f) ==
    f = [k \in 0 .. Len(s) |-> IF k = 0 THEN <<>> ELSE f[k - 1] \o Targets(s[k])]

GatheredBy(s) == CHOOSE f : Gathers(s, f)

TargetsGathered(s, f) ==
    /\ f \in [0 .. Len(s) -> Seq(Blocks)]
    /\ f[0] = <<>>
    /\ \A k \in 1 .. Len(s) : f[k] = f[k - 1] \o Targets(s[k])

(* The branches of a list can be gathered one instruction at a time. *)
LEMMA TargetsCanBeGathered ==
    ASSUME NEW s \in Seq(PlacedInst)
    PROVE  \E f : TargetsGathered(s, f)
<1> DEFINE N == Len(s)
           more(n, g) == IF n < N THEN g \o Targets(s[n + 1]) ELSE g
           step == [n \in Nat |-> [g \in Seq(Blocks) |-> more(n, g)]]
<1>1. N \in Nat
  OBVIOUS
<1>2. ASSUME NEW n \in Nat, NEW g \in Seq(Blocks)
      PROVE  more(n, g) \in Seq(Blocks)
  <2>1. n < N => n + 1 \in 1 .. Len(s)
    BY <1>1
  <2>2. n < N => Targets(s[n + 1]) \in Seq(Blocks)
    <3>1. n < N => s[n + 1] \in PlacedInst
      BY <2>1, ElementOfSeq
    <3> QED
      BY <3>1 DEF PlacedInst
  <2>3. n < N => g \o Targets(s[n + 1]) \in Seq(Blocks)
    <3> HIDE DEF N
    <3> QED
      BY <2>2, ConcatProperties
  <2> QED
    BY <2>3
<1>3. step \in [Nat -> [Seq(Blocks) -> Seq(Blocks)]]
  <2> HIDE DEF more
  <2> QED
    BY <1>2
<1>4. PICK h \in [Nat -> Seq(Blocks)] : h[0] = <<>> /\ \A n \in Nat : h[n + 1] = step[n][h[n]]
  <2> HIDE DEF step
  <2>1. <<>> \in Seq(Blocks)
    OBVIOUS
  <2>2. Course(Seq(Blocks), <<>>, step) # {}
    BY <1>3, <2>1, RunForever
  <2> QED
    BY <2>2 DEF Course
<1>5. \A n \in Nat : h[n + 1] = more(n, h[n])
  <2>1. \A n \in Nat : h[n] \in Seq(Blocks)
    OBVIOUS
  <2> HIDE DEF more
  <2> QED
    BY <1>4, <2>1
<1> DEFINE f == [k \in 0 .. N |-> h[k]]
<1>6. f \in [0 .. N -> Seq(Blocks)] /\ f[0] = <<>>
  BY <1>1, <1>4
<1>7. ASSUME NEW k \in 1 .. N
      PROVE  f[k] = f[k - 1] \o Targets(s[k])
  <2>1. k - 1 \in Nat /\ k - 1 \in 0 .. N /\ k \in 0 .. N /\ k - 1 < N /\ k - 1 + 1 = k
    BY <1>1
  <2>2. h[k - 1 + 1] = more(k - 1, h[k - 1])
    BY <1>5, <2>1
  <2> QED
    BY <2>1, <2>2
<1> HIDE DEF f
<1>8. TargetsGathered(s, f)
  BY <1>6, <1>7 DEF TargetsGathered
<1> QED
  BY <1>8

(* BranchTargets is the last sequence gathered. *)
LEMMA BranchTargetsIs ==
    ASSUME NEW s \in Seq(PlacedInst), NEW f, TargetsGathered(s, f)
    PROVE  BranchTargets(s) = f[Len(s)]
<1> DEFINE D == 0 .. Len(s)
           e(h, k) == IF k = 0 THEN <<>> ELSE h[k - 1] \o Targets(s[k])
<1>1. Len(s) \in Nat
  OBVIOUS
<1>2. \A k \in D : k # 0 => k \in 1 .. Len(s) /\ k - 1 \in D /\ ~(k <= k - 1)
  BY <1>1
<1>3. f = [k \in D |-> f[k]]
  BY DEF TargetsGathered
<1>4. \A k \in D : f[k] = e(f, k)
  BY <1>2 DEF TargetsGathered
<1>5. f = [k \in D |-> e(f, k)]
  <2>1. [k \in D |-> f[k]] = [k \in D |-> e(f, k)]
    <3> HIDE DEF e, D
    <3> QED
      BY <1>4
  <2> QED
    BY <1>3, <2>1
<1>6. Gathers(s, f)
  BY <1>5 DEF Gathers
<1> DEFINE g == GatheredBy(s)
<1>7. Gathers(s, g)
  BY <1>6 DEF GatheredBy
<1>8. BranchTargets(s) = g[Len(s)]
  BY DEF BranchTargets, GatheredBy, Gathers
<1> HIDE DEF g
<1>9. \A k \in D : g[k] = e(g, k)
  <2>1. g = [k \in D |-> e(g, k)]
    BY <1>7 DEF Gathers
  <2> HIDE DEF e, D
  <2> QED
    BY <2>1
<1> DEFINE S == {k \in D : f[k] # g[k]}
<1>10. S = {}
  <2> SUFFICES ASSUME S # {} PROVE FALSE
    OBVIOUS
  <2>1. S \in SUBSET Nat
    OBVIOUS
  <2>2. PICK k \in S : \A i \in S : k <= i
    <3> HIDE DEF S
    <3> QED
      BY <2>1, NatMin
  <2>3. k \in D /\ f[k] # g[k]
    OBVIOUS
  <2>4. k # 0
    BY <1>4, <1>9, <2>3
  <2>5. k - 1 \in D /\ ~(k <= k - 1)
    BY <1>2, <2>3, <2>4
  <2>6. f[k - 1] = g[k - 1]
    BY <2>2, <2>5
  <2>7. e(f, k) = e(g, k)
    BY <2>6
  <2> HIDE DEF e, S
  <2> QED
    BY <1>4, <1>9, <2>3, <2>7
<1>11. Len(s) \in D
  BY <1>1
<1> QED
  BY <1>8, <1>10, <1>11

(* The branches of no instructions, and of one more. *)
LEMMA BranchTargetsSteps ==
    ASSUME NEW s \in Seq(PlacedInst)
    PROVE  /\ BranchTargets(s) \in Seq(Blocks)
           /\ Len(s) = 0 => BranchTargets(s) = <<>>
           /\ \A i \in PlacedInst : BranchTargets(Append(s, i)) = BranchTargets(s) \o Targets(i)
<1>1. PICK f : TargetsGathered(s, f)
  BY TargetsCanBeGathered
<1>2. BranchTargets(s) = f[Len(s)] /\ f[Len(s)] \in Seq(Blocks)
  <2>1. Len(s) \in 0 .. Len(s)
    OBVIOUS
  <2>2. f[Len(s)] \in Seq(Blocks)
    BY <1>1, <2>1 DEF TargetsGathered
  <2> QED
    BY <1>1, <2>2, BranchTargetsIs
<1>3. Len(s) = 0 => BranchTargets(s) = <<>>
  BY <1>1, <1>2 DEF TargetsGathered
<1>4. ASSUME NEW i \in PlacedInst
      PROVE  BranchTargets(Append(s, i)) = BranchTargets(s) \o Targets(i)
  <2> DEFINE u == Append(s, i)
             g == [k \in 0 .. Len(u) |-> IF k <= Len(s) THEN f[k] ELSE f[Len(s)] \o Targets(i)]
  <2>1. /\ u \in Seq(PlacedInst) /\ Len(u) = Len(s) + 1 /\ u[Len(s) + 1] = i
        /\ \A k \in 1 .. Len(s) : u[k] = s[k]
    BY AppendProperties
  <2> HIDE DEF u
  <2>2. Len(s) \in Nat
    OBVIOUS
  <2>3. /\ f \in [0 .. Len(s) -> Seq(Blocks)] /\ f[0] = <<>>
        /\ \A k \in 1 .. Len(s) : f[k] = f[k - 1] \o Targets(s[k])
    BY <1>1 DEF TargetsGathered
  <2>4. f[Len(s)] \o Targets(i) \in Seq(Blocks)
    BY <1>2, ConcatProperties DEF PlacedInst
  <2>5. g \in [0 .. Len(u) -> Seq(Blocks)]
    <3>1. \A k \in 0 .. Len(u) : k <= Len(s) => f[k] \in Seq(Blocks)
      BY <2>1, <2>2, <2>3
    <3> QED
      BY <2>4, <3>1
  <2>6. g[0] = <<>>
    BY <2>1, <2>2, <2>3
  <2>7. ASSUME NEW k \in 1 .. Len(u)
        PROVE  g[k] = g[k - 1] \o Targets(u[k])
    <3>1. k \in 0 .. Len(u) /\ k - 1 \in 0 .. Len(u) /\ k - 1 <= Len(s)
      BY <2>1, <2>2
    <3>2. g[k - 1] = f[k - 1]
      BY <3>1
    <3>3. CASE k <= Len(s)
      <4>1. k \in 1 .. Len(s) /\ g[k] = f[k]
        BY <2>2, <3>1, <3>3
      <4> HIDE DEF g
      <4> QED
        BY <2>1, <2>3, <3>2, <4>1
    <3>4. CASE ~(k <= Len(s))
      <4>1. k = Len(s) + 1 /\ k - 1 = Len(s) /\ g[k] = f[Len(s)] \o Targets(i)
        BY <2>1, <2>2, <3>1, <3>4
      <4> HIDE DEF g
      <4> QED
        BY <2>1, <3>2, <4>1
    <3> QED
      BY <3>3, <3>4
  <2>8. g[Len(u)] = f[Len(s)] \o Targets(i)
    BY <2>1, <2>2
  <2> HIDE DEF g
  <2>9. TargetsGathered(u, g)
    BY <2>5, <2>6, <2>7 DEF TargetsGathered
  <2>10. BranchTargets(u) = g[Len(u)]
    BY <2>1, <2>9, BranchTargetsIs
  <2> QED
    BY <1>2, <2>8, <2>10 DEF u
<1> QED
  BY <1>2, <1>3, <1>4

-----------------------------------------------------------------------------
(* What holds of the parser at every step *)

(* The lexer is somewhere in the text. *)
LexInv ==
    /\ text \in Seq(Item)
    /\ input \in 1 .. Len(text) + 1
    /\ token \in Item \union {EOI}

(* The steps inside a block, and those at which more is to come. *)
Inside == {"colon", "newline", "body", "arrow", "lhs", "operator", "rhs",
           "target", "comma1", "then", "comma2", "else", "end"}
Steps == Inside \union {"top", "blank", "label", "done", "error"}

(* The colons of the blocks that have begun, of the current token and of   *)
(* the rest of the text are among those that were counted.  A first token  *)
(* that is a colon was not: there the program stops at once.               *)
Begun == IF pc = "colon" THEN curr_bb - 1 ELSE curr_bb
Left == count_bbs(text, input)

ColonInv ==
    /\ pc \in Steps
    /\ curr_bb \in 0 .. NBlocks + 1
    /\ curr_bb = NBlocks + 1 => pc \in {"colon", "error"}
    /\ pc # "error" => Begun + Left <= NBlocks
    /\ pc \notin {"top", "done", "error"} => Begun + IsColon(token) + Left <= NBlocks
    /\ pc \in Inside => curr_bb >= 1

(* What there is of the instruction. *)
DefHead == [kind : {"DEF"}, reg : Nat]
PrintHead == [kind : {"PRINT"}]
SimpleOp == [kind : {"OP_SIMPLE"}, lhs : Value]
SimpleInst == [kind : {"DEF"}, reg : Nat, op : SimpleOp] \union [kind : {"PRINT"}, op : SimpleOp]
OneLabel == [cond_val : Value]
TwoLabels == [cond_val : Value, then : Nat]

InstInv ==
    /\ pc = "arrow" => inst \in DefHead
    /\ pc = "lhs" => inst \in DefHead \union PrintHead
    /\ pc \in {"operator", "rhs"} => inst \in SimpleInst
    /\ pc \in {"comma1", "then"} => inst \in OneLabel
    /\ pc \in {"comma2", "else"} => inst \in TwoLabels
    /\ pc = "end" => inst \in PlacedInst

(* w are the nodes of the list of block b, in the order in which they were *)
(* made, linked in both directions and to nothing else.                    *)
InstNodes == [inst : PlacedInst, parent : Blocks, prev : Nat, next : Nat]
InstLists == [head : Nat, tail : Nat, size : Nat]

Holds(m, l, b, w) ==
    /\ w \in Seq(1 .. Len(m))
    /\ l.size = Len(w)
    /\ l.head = IF Len(w) = 0 THEN nullptr ELSE w[1]
    /\ l.tail = IF Len(w) = 0 THEN nullptr ELSE w[Len(w)]
    /\ \A k \in 1 .. Len(w) : m[w[k]].next = IF k = Len(w) THEN nullptr ELSE w[k + 1]
    /\ \A k \in 1 .. Len(w) : m[w[k]].prev = IF k = 1 THEN nullptr ELSE w[k - 1]
    /\ \A k \in 1 .. Len(w) : m[w[k]].parent = b
    /\ \A j, k \in 1 .. Len(w) : j < k => w[j] < w[k]

(* Every block's list holds its instructions, and every node is in the list *)
(* of its block.                                                            *)
Filled(m, ls) ==
    /\ m \in Seq(InstNodes)
    /\ ls \in [Blocks -> InstLists]
    /\ \A b \in Blocks : Holds(m, ls[b], b, NodesOf(m, ls[b]))
    /\ \A p \in 1 .. Len(m) :
           \E k \in 1 .. Len(NodesOf(m, ls[m[p].parent])) : NodesOf(m, ls[m[p].parent])[k] = p

BlocksInv ==
    /\ Filled(mem, insts)
    /\ max_reg_used \in Nat
    /\ \A b \in Blocks : b >= curr_bb => insts[b].size = 0

(* The branches in the lists, with those of an instruction whose newline is *)
(* still to come.                                                           *)
Drawn ==
    [b \in Blocks |-> IF pc = "end" /\ b = bb_num THEN BranchTargets(code[b]) \o Targets(inst)
                      ELSE BranchTargets(code[b])]

GraphInv ==
    /\ WellFormed(cfg)
    /\ pc # "error" => cfg = BuildCfg(Drawn)

ParserInv == LexInv /\ ColonInv /\ InstInv /\ BlocksInv /\ GraphInv

-----------------------------------------------------------------------------
(* Lists of instructions *)

Nexts(m, l, f) ==
    f = [k \in 1 .. l.size |-> IF k = 1 THEN l.head ELSE m[f[k - 1]].next]

NextBy(m, l) == CHOOSE f : Nexts(m, l, f)

(* Following the links of a list from its head gives its nodes. *)
LEMMA NodesOfIs ==
    ASSUME NEW m, NEW l, NEW b, NEW w, Holds(m, l, b, w)
    PROVE  NodesOf(m, l) = w
<1> DEFINE D == 1 .. l.size
           e(h, k) == IF k = 1 THEN l.head ELSE m[h[k - 1]].next
<1>1. w \in Seq(1 .. Len(m)) /\ Len(w) \in Nat /\ l.size = Len(w)
  BY DEF Holds
<1>2. w = [k \in D |-> w[k]]
  BY <1>1, LenProperties
<1>3. ASSUME NEW k \in D
      PROVE  w[k] = e(w, k)
  <2>1. CASE k = 1
    <3>1. Len(w) # 0
      BY <1>1, <2>1
    <3> QED
      BY <2>1, <3>1 DEF Holds
  <2>2. CASE k # 1
    <3>1. k - 1 \in 1 .. Len(w) /\ k - 1 # Len(w) /\ k - 1 + 1 = k
      BY <1>1, <2>2
    <3>2. m[w[k - 1]].next = w[k - 1 + 1]
      BY <3>1 DEF Holds
    <3> QED
      BY <2>2, <3>1, <3>2
  <2> QED
    BY <2>1, <2>2
<1>4. Nexts(m, l, w)
  <2>1. [k \in D |-> w[k]] = [k \in D |-> e(w, k)]
    <3> HIDE DEF e, D
    <3> QED
      BY <1>3
  <2> QED
    BY <1>2, <2>1 DEF Nexts
<1> DEFINE g == NextBy(m, l)
<1>5. Nexts(m, l, g)
  BY <1>4 DEF NextBy
<1>6. NodesOf(m, l) = g
  BY DEF NodesOf, NextBy, Nexts
<1> HIDE DEF g
<1>7. g = [k \in D |-> g[k]] /\ \A k \in D : g[k] = e(g, k)
  <2>1. g = [k \in D |-> e(g, k)]
    BY <1>5 DEF Nexts
  <2> HIDE DEF e, D
  <2> QED
    BY <2>1
<1> DEFINE S == {k \in D : w[k] # g[k]}
<1>8. S = {}
  <2> SUFFICES ASSUME S # {} PROVE FALSE
    OBVIOUS
  <2>1. S \in SUBSET Nat
    BY <1>1
  <2>2. PICK k \in S : \A i \in S : k <= i
    <3> HIDE DEF S
    <3> QED
      BY <2>1, NatMin
  <2>3. k \in D /\ w[k] # g[k]
    OBVIOUS
  <2>4. k # 1
    BY <1>3, <1>7, <2>3
  <2>5. k - 1 \in D /\ ~(k <= k - 1)
    BY <1>1, <2>3, <2>4
  <2>6. w[k - 1] = g[k - 1]
    BY <2>2, <2>5
  <2>7. e(w, k) = e(g, k)
    BY <2>6
  <2> HIDE DEF e, S, D
  <2> QED
    BY <1>3, <1>7, <2>3, <2>7
<1>9. [k \in D |-> w[k]] = [k \in D |-> g[k]]
  BY <1>8
<1> HIDE DEF D
<1> QED
  BY <1>2, <1>6, <1>7, <1>9

(* What insert_at_end makes of the heap m: one node more, for instruction i *)
(* of block b, that comes after the one at t.                               *)
Inserted(m, g, i, b, t) ==
    /\ g \in Seq(InstNodes)
    /\ Len(g) = Len(m) + 1
    /\ \A k \in 1 .. Len(m) :
           /\ g[k].inst = m[k].inst
           /\ g[k].parent = m[k].parent
           /\ g[k].prev = m[k].prev
           /\ g[k].next = IF k = t THEN Len(m) + 1 ELSE m[k].next
    /\ g[Len(m) + 1] = [inst |-> i, parent |-> b, prev |-> t, next |-> nullptr]

(* insert_at_end links the new node behind the tail and touches nothing *)
(* else.                                                                *)
LEMMA LinkedInserts ==
    ASSUME NEW m \in Seq(InstNodes), NEW i \in PlacedInst, NEW b \in Blocks,
           NEW l, l.tail \in 0 .. Len(m)
    PROVE  Inserted(m, Linked(Append(m, [NewNode(i) EXCEPT !.parent = b]), l, Len(m) + 1),
                    i, b, l.tail)
<1> DEFINE t == l.tail
           n == Len(m) + 1
           x == [inst |-> i, parent |-> b, prev |-> nullptr, next |-> nullptr]
           y == [inst |-> i, parent |-> b, prev |-> t, next |-> nullptr]
           a == Append(m, x)
           c == [a EXCEPT ![n] = y]
           g == WithNext(c, t, n)
<1>1. Len(m) \in Nat /\ n \in Nat /\ n \in 1 .. n /\ t \in Nat /\ t # n /\ nullptr \in Nat
      /\ \A k \in 1 .. Len(m) : k \in 1 .. n /\ k # n
  BY DEF nullptr
<1>2. [NewNode(i) EXCEPT !.parent = b] = x
  BY DEF NewNode
<1>3. x \in InstNodes /\ y \in InstNodes
  <2> HIDE DEF t
  <2> QED
    BY <1>1 DEF InstNodes
<1>4. a \in Seq(InstNodes) /\ Len(a) = n /\ a[n] = x /\ \A k \in 1 .. Len(m) : a[k] = m[k]
  <2> HIDE DEF x
  <2> QED
    BY <1>3, AppendProperties
<1>5. [a EXCEPT ![n].next = nullptr, ![n].prev = t] = c
  <2>1. n \in DOMAIN a
    BY <1>1, <1>4
  <2>2. [x EXCEPT !.next = nullptr] = x
    OBVIOUS
  <2>3. [x EXCEPT !.prev = t] = y
    OBVIOUS
  <2>4. [a EXCEPT ![n].next = nullptr] = a
    <3>1. [a EXCEPT ![n].next = nullptr] = [a EXCEPT ![n] = [a[n] EXCEPT !.next = nullptr]]
      OBVIOUS
    <3>2. [a[n] EXCEPT !.next = nullptr] = a[n]
      BY <1>4, <2>2
    <3>3. [a EXCEPT ![n] = a[n]] = a
      <4>1. a[n] \in InstNodes /\ n \in 1 .. Len(a)
        BY <1>1, <1>3, <1>4
      <4> HIDE DEF a, n
      <4>2. /\ [a EXCEPT ![n] = a[n]] \in Seq(InstNodes)
            /\ Len([a EXCEPT ![n] = a[n]]) = Len(a)
            /\ \A k \in 1 .. Len(a) : [a EXCEPT ![n] = a[n]][k] = IF k = n THEN a[n] ELSE a[k]
        BY <1>4, <4>1, ExceptSeq
      <4>3. \A k \in 1 .. Len(a) : [a EXCEPT ![n] = a[n]][k] = a[k]
        BY <4>2
      <4> QED
        BY <1>4, <4>2, <4>3, SeqEqual
    <3> HIDE DEF a, x
    <3> QED
      BY <3>1, <3>2, <3>3
  <2>5. [a EXCEPT ![n].prev = t] = c
    <3>1. [a EXCEPT ![n].prev = t] = [a EXCEPT ![n] = [a[n] EXCEPT !.prev = t]]
      OBVIOUS
    <3>2. [a[n] EXCEPT !.prev = t] = y
      BY <1>4, <2>3
    <3> HIDE DEF a, x, y
    <3> QED
      BY <3>1, <3>2
  <2>6. [a EXCEPT ![n].next = nullptr, ![n].prev = t]
            = [[a EXCEPT ![n].next = nullptr] EXCEPT ![n].prev = t]
    OBVIOUS
  <2> HIDE DEF a, c
  <2> QED
    BY <2>4, <2>5, <2>6
<1>6. Linked(a, l, n) = g
  BY <1>5 DEF Linked
<1> HIDE DEF a, x
<1>7. c \in Seq(InstNodes) /\ Len(c) = n /\ \A k \in 1 .. n : c[k] = IF k = n THEN y ELSE a[k]
  <2> HIDE DEF y
  <2> QED
    BY <1>1, <1>3, <1>4, ExceptSeq
<1> HIDE DEF c, t
<1>8. CASE t = nullptr
  <2>1. g = c
    BY <1>8 DEF WithNext
  <2>2. \A k \in 1 .. Len(m) : k # t
    BY <1>8 DEF nullptr
  <2>3. Inserted(m, c, i, b, t)
    BY <1>1, <1>4, <1>7, <2>2 DEF Inserted
  <2> QED
    BY <1>2, <1>6, <2>1, <2>3 DEF a, t
<1>9. CASE t # nullptr
  <2> DEFINE z == [c[t] EXCEPT !.next = n]
  <2>1. t \in 1 .. Len(m) /\ t \in 1 .. Len(c)
    BY <1>1, <1>7, <1>9 DEF nullptr, t
  <2>2. c[t] \in InstNodes
    BY <1>7, <2>1, ElementOfSeq
  <2>3. /\ z \in InstNodes /\ z.next = n
        /\ z.inst = c[t].inst /\ z.parent = c[t].parent /\ z.prev = c[t].prev
    BY <1>1, <2>2 DEF InstNodes
  <2>4. g = [c EXCEPT ![t] = z]
    BY <1>9 DEF WithNext
  <2> HIDE DEF z
  <2>5. /\ [c EXCEPT ![t] = z] \in Seq(InstNodes)
        /\ Len([c EXCEPT ![t] = z]) = Len(c)
        /\ \A k \in 1 .. Len(c) : [c EXCEPT ![t] = z][k] = IF k = t THEN z ELSE c[k]
    BY <1>7, <2>1, <2>3, ExceptSeq
  <2> HIDE DEF g
  <2>6. g \in Seq(InstNodes) /\ Len(g) = n /\ \A k \in 1 .. n : g[k] = IF k = t THEN z ELSE c[k]
    BY <1>7, <2>4, <2>5
  <2>7. g[n] = y
    BY <1>1, <1>7, <2>6
  <2>8. ASSUME NEW k \in 1 .. Len(m)
        PROVE  /\ g[k].inst = m[k].inst
               /\ g[k].parent = m[k].parent
               /\ g[k].prev = m[k].prev
               /\ g[k].next = IF k = t THEN n ELSE m[k].next
    <3>1. c[k] = m[k]
      BY <1>1, <1>4, <1>7
    <3> HIDE DEF n
    <3> QED
      BY <1>1, <2>3, <2>6, <3>1
  <2>9. Inserted(m, g, i, b, t)
    BY <2>6, <2>7, <2>8 DEF Inserted
  <2> QED
    BY <1>2, <1>6, <2>9 DEF a, t
<1> QED
  BY <1>8, <1>9

(* The nodes of a list are nodes of the heap, and not null. *)
LEMMA HeldNodes ==
    ASSUME NEW m \in Seq(InstNodes), NEW l, NEW b, NEW w, Holds(m, l, b, w)
    PROVE  /\ Len(m) \in Nat
           /\ Len(w) \in Nat
           /\ DOMAIN w = 1 .. Len(w)
           /\ \A k \in 1 .. Len(w) : w[k] \in 1 .. Len(m) /\ w[k] # nullptr
<1>1. w \in Seq(1 .. Len(m))
  BY DEF Holds
<1>2. \A k \in 1 .. Len(w) : w[k] \in 1 .. Len(m)
  BY <1>1, ElementOfSeq
<1> QED
  BY <1>1, <1>2 DEF nullptr

(* The lists of other blocks stay as they are ... *)
LEMMA OthersHold ==
    ASSUME NEW m \in Seq(InstNodes), NEW g, NEW i, NEW b, NEW t, Inserted(m, g, i, b, t),
           NEW l, NEW c, NEW w, Holds(m, l, c, w),
           t \in 1 .. Len(m) => m[t].parent # c
    PROVE  Holds(g, l, c, w)
<1>1. /\ Len(m) \in Nat /\ Len(w) \in Nat
      /\ \A k \in 1 .. Len(w) : w[k] \in 1 .. Len(m)
  BY HeldNodes
<1>2. \A k \in 1 .. Len(w) : m[w[k]].parent = c
  BY DEF Holds
<1>3. \A k \in 1 .. Len(w) : w[k] # t
  BY <1>1, <1>2
<1>4. ASSUME NEW k \in 1 .. Len(w)
      PROVE  /\ g[w[k]].next = m[w[k]].next
             /\ g[w[k]].prev = m[w[k]].prev
             /\ g[w[k]].parent = m[w[k]].parent
  BY <1>1, <1>3 DEF Inserted
<1>5. w \in Seq(1 .. Len(g))
  <2>1. 1 .. Len(m) \subseteq 1 .. Len(g)
    BY <1>1 DEF Inserted
  <2> QED
    BY <2>1, SeqMonotonic DEF Holds
<1> QED
  BY <1>4, <1>5 DEF Holds

(* ... and that of the block has one node more. *)
LEMMA OneMoreHolds ==
    ASSUME NEW m \in Seq(InstNodes), NEW g, NEW i, NEW b, NEW l,
           Inserted(m, g, i, b, l.tail), NEW w, Holds(m, l, b, w)
    PROVE  Holds(g, ListWith(l, Len(m) + 1), b, Append(w, Len(m) + 1))
<1> DEFINE n == Len(m) + 1
           u == Append(w, n)
           h == ListWith(l, n)
<1>1. /\ Len(m) \in Nat /\ Len(w) \in Nat /\ n \in Nat /\ n # nullptr
      /\ \A k \in 1 .. Len(w) : w[k] \in 1 .. Len(m) /\ w[k] # nullptr
  BY HeldNodes DEF nullptr
<1>2. n \in 1 .. n /\ n \in 1 .. Len(g) /\ Len(g) = n
  BY <1>1 DEF Inserted
<1>3. w \in Seq(1 .. Len(g))
  <2>1. 1 .. Len(m) \subseteq 1 .. Len(g)
    BY <1>1, <1>2
  <2> QED
    BY <2>1, SeqMonotonic DEF Holds
<1>4. /\ u \in Seq(1 .. Len(g)) /\ Len(u) = Len(w) + 1 /\ u[Len(w) + 1] = n
      /\ \A k \in 1 .. Len(w) : u[k] = w[k]
  <2> HIDE DEF n
  <2> QED
    BY <1>2, <1>3, AppendProperties
<1>5. /\ h.head = IF l.head = nullptr THEN n ELSE l.head
      /\ h.tail = n
      /\ h.size = l.size + 1
  BY DEF ListWith
<1>6. /\ l.size = Len(w)
      /\ l.head = IF Len(w) = 0 THEN nullptr ELSE w[1]
      /\ l.tail = IF Len(w) = 0 THEN nullptr ELSE w[Len(w)]
      /\ \A k \in 1 .. Len(w) : m[w[k]].next = IF k = Len(w) THEN nullptr ELSE w[k + 1]
      /\ \A k \in 1 .. Len(w) : m[w[k]].prev = IF k = 1 THEN nullptr ELSE w[k - 1]
      /\ \A k \in 1 .. Len(w) : m[w[k]].parent = b
      /\ \A j, k \in 1 .. Len(w) : j < k => w[j] < w[k]
  BY DEF Holds
<1>7. /\ \A k \in 1 .. Len(m) :
             /\ g[k].parent = m[k].parent
             /\ g[k].prev = m[k].prev
             /\ g[k].next = IF k = l.tail THEN n ELSE m[k].next
      /\ g[n].parent = b /\ g[n].prev = l.tail /\ g[n].next = nullptr
  BY DEF Inserted
<1> HIDE DEF u, h, n
<1>8. \A k \in 1 .. Len(u) : k \in 1 .. Len(w) \/ (k = Len(u) /\ u[k] = n)
  BY <1>1, <1>4
<1>9. Len(u) # 0 /\ u[Len(u)] = n
  BY <1>1, <1>4
<1>10. h.head = u[1]
  <2>1. CASE Len(w) = 0
    BY <1>4, <1>5, <1>6, <2>1
  <2>2. CASE Len(w) # 0
    <3>1. 1 \in 1 .. Len(w)
      BY <1>1, <2>2
    <3> QED
      BY <1>1, <1>4, <1>5, <1>6, <2>2, <3>1
  <2> QED
    BY <2>1, <2>2
<1>11. ASSUME NEW k \in 1 .. Len(u)
       PROVE  /\ g[u[k]].next = IF k = Len(u) THEN nullptr ELSE u[k + 1]
              /\ g[u[k]].prev = IF k = 1 THEN nullptr ELSE u[k - 1]
              /\ g[u[k]].parent = b
  <2>1. CASE k \in 1 .. Len(w)
    <3>1. u[k] = w[k] /\ w[k] \in 1 .. Len(m) /\ k # Len(u)
      BY <1>1, <1>4, <2>1
    <3> DEFINE v == w[k]
    <3>5. /\ m[v].next = IF k = Len(w) THEN nullptr ELSE w[k + 1]
          /\ m[v].prev = IF k = 1 THEN nullptr ELSE w[k - 1]
          /\ m[v].parent = b
      BY <1>6, <2>1
    <3>6. v \in 1 .. Len(m) /\ u[k] = v /\ k # Len(u)
      BY <3>1
    <3> HIDE DEF v
    <3>7. g[v].parent = m[v].parent /\ g[v].prev = m[v].prev
          /\ g[v].next = IF v = l.tail THEN n ELSE m[v].next
      BY <1>7, <3>6
    <3>2. g[u[k]].parent = b
      BY <3>5, <3>6, <3>7
    <3>3. g[u[k]].prev = IF k = 1 THEN nullptr ELSE u[k - 1]
      <4>1. k # 1 => k - 1 \in 1 .. Len(w)
        BY <1>1, <2>1
      <4>2. k # 1 => u[k - 1] = w[k - 1]
        BY <1>4, <4>1
      <4> QED
        BY <3>5, <3>6, <3>7, <4>2
    <3>4. g[u[k]].next = u[k + 1]
      <4>1. CASE k = Len(w)
        <5>1. l.tail = w[k] /\ u[k + 1] = n
          BY <1>1, <1>4, <1>6, <2>1, <4>1
        <5> QED
          BY <3>6, <3>7, <5>1 DEF v
      <4>2. CASE k # Len(w)
        <5>1. k + 1 \in 1 .. Len(w) /\ k < Len(w) /\ Len(w) \in 1 .. Len(w) /\ Len(w) # 0
          BY <1>1, <2>1, <4>2
        <5>2. w[k] # l.tail
          <6>1. w[k] < w[Len(w)] /\ w[k] \in Nat /\ w[Len(w)] \in Nat
            BY <1>1, <1>6, <2>1, <5>1
          <6> QED
            BY <1>6, <5>1, <6>1
        <5>3. u[k + 1] = w[k + 1]
          BY <1>4, <5>1
        <5>4. v # l.tail
          BY <5>2 DEF v
        <5> QED
          BY <3>5, <3>6, <3>7, <4>2, <5>3, <5>4
      <4> QED
        BY <4>1, <4>2
    <3> QED
      BY <3>1, <3>2, <3>3, <3>4
  <2>2. CASE k \notin 1 .. Len(w)
    <3>1. k = Len(u) /\ u[k] = n /\ k = Len(w) + 1
      BY <1>4, <1>8, <2>2
    <3>2. g[n].prev = IF k = 1 THEN nullptr ELSE u[k - 1]
      <4>1. CASE Len(w) = 0
        BY <1>1, <1>6, <1>7, <3>1, <4>1
      <4>2. CASE Len(w) # 0
        <5>1. k # 1 /\ k - 1 = Len(w) /\ Len(w) \in 1 .. Len(w)
          BY <1>1, <3>1, <4>2
        <5> QED
          BY <1>4, <1>6, <1>7, <4>2, <5>1
      <4> QED
        BY <4>1, <4>2
    <3> QED
      BY <1>7, <3>1, <3>2
  <2> QED
    BY <2>1, <2>2
<1>12. ASSUME NEW j \in 1 .. Len(u), NEW k \in 1 .. Len(u), j < k
       PROVE  u[j] < u[k]
  <2>1. j \in 1 .. Len(w) /\ u[j] = w[j]
    BY <1>1, <1>4, <1>12
  <2>2. CASE k \in 1 .. Len(w)
    BY <1>4, <1>6, <1>12, <2>1, <2>2
  <2>3. CASE k \notin 1 .. Len(w)
    <3>1. u[k] = n
      BY <1>8, <2>3
    <3>2. w[j] < n
      BY <1>1, <2>1 DEF n
    <3> QED
      BY <2>1, <3>1, <3>2
  <2> QED
    BY <2>2, <2>3
<1>13. h.size = Len(u)
  BY <1>4, <1>5, <1>6
<1>14. Holds(g, h, b, u)
  BY <1>4, <1>5, <1>9, <1>10, <1>11, <1>12, <1>13 DEF Holds
<1> QED
  BY <1>14 DEF h, u, n

-----------------------------------------------------------------------------
(* Steps of the lexer *)

(* A step that takes a token: it may find a bad one, and the colons left *)
(* cover it.                                                             *)
LEMMA AdvanceIs ==
    ASSUME LexInv, NEW step, Advance(step)
    PROVE  /\ LexInv'
           /\ pc' \in {step, "error"}
           /\ Left \in Nat /\ Left' \in Nat /\ IsColon(token)' \in Nat
           /\ IsColon(token)' + Left' <= Left
<1>1. text \in Seq(Item) /\ input \in 1 .. Len(text) + 1
  BY DEF LexInv
<1>2. token' = Token(text, input) /\ input' = After(text, input) /\ text' = text
  BY DEF Advance
<1>3. Token(text, input) \in Item \union {EOI} /\ After(text, input) \in 1 .. Len(text) + 1
  BY <1>1, NextTokenIs
<1>4. LexInv'
  BY <1>1, <1>2, <1>3 DEF LexInv
<1>5. /\ count_bbs(text, input) \in Nat
      /\ count_bbs(text, After(text, input)) \in Nat
      /\ IsColon(Token(text, input)) + count_bbs(text, After(text, input))
             <= count_bbs(text, input)
  BY <1>1, TokenTakesColon
<1>6. IsColon(token)' \in Nat /\ IsColon(token)' = IsColon(Token(text, input))
  BY <1>2 DEF IsColon
<1>7. Left = count_bbs(text, input) /\ Left' = count_bbs(text, After(text, input))
  BY <1>2 DEF Left
<1>8. pc' \in {step, "error"}
  BY DEF Advance
<1> QED
  BY <1>2, <1>4, <1>5, <1>6, <1>7, <1>8

(* A step that takes no token. *)
LEMMA StayIs ==
    ASSUME LexInv, NEW step, Stay(step)
    PROVE  /\ LexInv'
           /\ pc' = step
           /\ token' = token
           /\ Left' = Left /\ Left \in Nat /\ IsColon(token) \in Nat
<1>1. text' = text /\ input' = input /\ token' = token /\ pc' = step
  BY DEF Stay, lexVars
<1>2. text \in Seq(Item) /\ input \in 1 .. Len(text) + 1
  BY DEF LexInv
<1>3. count_bbs(text, input) \in Nat
  BY <1>2, TokenTakesColon
<1> QED
  BY <1>1, <1>3 DEF LexInv, Left, IsColon

(* Every step takes a token or leaves it. *)
LEMMA StepMoves ==
    ParserNext => \E step \in Steps : Advance(step) \/ Stay(step)
<1> SUFFICES ASSUME ParserNext PROVE \E step \in Steps : Advance(step) \/ Stay(step)
  OBVIOUS
<1>1. CASE Top \/ SkipNewline \/ BeginBlock \/ BlockLabel
  BY <1>1 DEF Top, SkipNewline, BeginBlock, BlockLabel, Steps, Inside
<1>2. CASE BlockColon \/ BlockNewline \/ Arrow \/ FirstComma \/ SecondComma
  BY <1>2 DEF BlockColon, BlockNewline, Arrow, FirstComma, SecondComma, Expect, Steps, Inside
<1>3. CASE BeginDef \/ BeginPrint \/ BeginBranch \/ EndBlock
  BY <1>3 DEF BeginDef, BeginPrint, BeginBranch, EndBlock, Steps, Inside
<1>4. CASE Lhs \/ Rhs
  BY <1>4 DEF Lhs, Rhs, Steps, Inside
<1>5. CASE Operator
  <2>1. Advance("rhs") \/ Stay("end") \/ Stay("error")
    BY <1>5 DEF Operator, is_token
  <2> QED
    BY <2>1 DEF Steps, Inside
<1>6. CASE Target
  BY <1>6 DEF Target, Steps, Inside
<1>7. CASE ThenLabel \/ ElseLabel
  BY <1>7 DEF ThenLabel, ElseLabel, Steps, Inside
<1>8. CASE EndInst
  BY <1>8 DEF EndInst, Steps, Inside
<1> QED
  BY <1>1, <1>2, <1>3, <1>4, <1>5, <1>6, <1>7, <1>8 DEF ParserNext

(* The lexer stays in the text at every step. *)
LEMMA Lex_Next == LexInv /\ ParserNext => LexInv'
<1> SUFFICES ASSUME LexInv, ParserNext PROVE LexInv'
  OBVIOUS
<1>1. PICK step \in Steps : Advance(step) \/ Stay(step)
  BY StepMoves
<1> QED
  BY <1>1, AdvanceIs, StayIs

-----------------------------------------------------------------------------
(* The colons *)

(* What was left is enough for what is taken of it. *)
LEMMA EnoughIsLeft ==
    ASSUME NEW c \in Nat, NEW l \in Nat, NEW n \in Nat, NEW i \in Nat, NEW r \in Nat,
           c + l <= n, i + r <= l
    PROVE  c + r <= n /\ c + i + r <= n
OBVIOUS

(* The steps at which the next token is looked at, but for a colon. *)
Looking == Steps \ {"top", "done", "error", "colon"}

(* The colons stay counted when a token is taken inside a block ... *)
LEMMA GoesOn ==
    ASSUME LexInv, ColonInv, NEW step \in Looking, Advance(step), pc \in Looking,
           curr_bb' = curr_bb, step \in Inside => pc \in Inside
    PROVE  ColonInv'
<1>1. /\ pc' \in {step, "error"}
      /\ Left \in Nat /\ Left' \in Nat /\ IsColon(token)' \in Nat
      /\ IsColon(token)' + Left' <= Left
  BY AdvanceIs
<1>2. /\ curr_bb \in 0 .. NBlocks
      /\ Begun + Left <= NBlocks
      /\ step \in Inside => curr_bb >= 1
  BY NBlocksAssumption DEF ColonInv, Looking
<1>3. Begun = curr_bb /\ pc' \in Steps
  BY <1>1 DEF Begun, Looking, Steps, Inside
<1>4. CASE pc' = step
  <2>1. Begun' = curr_bb
    BY <1>4 DEF Begun, Looking
  <2>2. curr_bb + Left <= NBlocks /\ curr_bb \in Nat /\ NBlocks \in Nat
    BY <1>2, <1>3, NBlocksAssumption
  <2>3. Begun' + Left' <= NBlocks /\ Begun' + IsColon(token)' + Left' <= NBlocks
    <3>1. curr_bb + Left' <= NBlocks /\ curr_bb + IsColon(token)' + Left' <= NBlocks
      BY <1>1, <2>2, EnoughIsLeft
    <3> QED
      BY <2>1, <3>1
  <2> QED
    BY <1>2, <1>3, <1>4, <2>2, <2>3 DEF ColonInv
<1>5. CASE pc' = "error"
  BY <1>2, <1>3, <1>5, NBlocksAssumption DEF ColonInv, Inside
<1> QED
  BY <1>1, <1>4, <1>5

(* ... when the program stops ... *)
LEMMA Fails ==
    ASSUME ColonInv, Stay("error"), curr_bb' = curr_bb
    PROVE  ColonInv'
<1>1. pc' = "error"
  BY DEF Stay
<1> QED
  BY <1>1 DEF ColonInv, Steps, Inside

(* ... and when the token is left. *)
LEMMA LooksAgain ==
    ASSUME LexInv, ColonInv, NEW step \in Looking \union {"top"}, Stay(step), pc \in Looking,
           curr_bb' = curr_bb, step \in Inside => pc \in Inside
    PROVE  ColonInv'
<1>1. /\ pc' = step
      /\ token' = token
      /\ Left' = Left /\ Left \in Nat /\ IsColon(token) \in Nat
  BY StayIs
<1>2. /\ curr_bb \in 0 .. NBlocks
      /\ Begun + Left <= NBlocks
      /\ Begun + IsColon(token) + Left <= NBlocks
      /\ step \in Inside => curr_bb >= 1
  BY NBlocksAssumption DEF ColonInv, Looking
<1>3. Begun = curr_bb /\ Begun' = curr_bb /\ pc' \in Steps
  BY <1>1 DEF Begun, Looking, Steps, Inside
<1>4. Begun' + Left' <= NBlocks /\ Begun' + IsColon(token)' + Left' <= NBlocks
  BY <1>1, <1>2, <1>3
<1> QED
  BY <1>1, <1>2, <1>3, <1>4, NBlocksAssumption DEF ColonInv

(* A label or a newline is not a colon, so nothing is lost at the top. *)
LEMMA Top_Colon == LexInv /\ ColonInv /\ Top => ColonInv'
<1> SUFFICES ASSUME LexInv, ColonInv, Top PROVE ColonInv'
  OBVIOUS
<1>1. pc = "top" /\ curr_bb' = curr_bb
  BY DEF Top, blockVars
<1>2. /\ curr_bb \in 0 .. NBlocks
      /\ Begun + Left <= NBlocks
  BY <1>1, NBlocksAssumption DEF ColonInv
<1>3. CASE token.kind \in {"LBL", "NL"}
  <2>1. Stay("blank")
    BY <1>3 DEF Top
  <2>2. pc' = "blank" /\ token' = token /\ Left' = Left /\ Left \in Nat
    BY <2>1, StayIs
  <2>3. IsColon(token) = 0
    BY <1>3 DEF IsColon
  <2>4. Begun = curr_bb /\ Begun' = curr_bb
    BY <1>1, <2>2 DEF Begun
  <2>5. Begun' + Left' <= NBlocks /\ Begun' + IsColon(token)' + Left' <= NBlocks
    BY <1>2, <2>2, <2>3, <2>4
  <2> QED
    BY <1>1, <1>2, <2>2, <2>5, NBlocksAssumption DEF ColonInv, Steps, Inside
<1>4. CASE token.kind \notin {"LBL", "NL"}
  <2>1. Stay("done")
    BY <1>4 DEF Top
  <2>2. pc' = "done" /\ Left' = Left
    BY <2>1, StayIs
  <2>3. Begun' = Begun
    BY <1>1, <2>2 DEF Begun
  <2> QED
    BY <1>1, <1>2, <2>2, <2>3, NBlocksAssumption DEF ColonInv, Steps, Inside
<1> QED
  BY <1>3, <1>4

(* A label begins a block before its colon has been read ... *)
LEMMA BlockLabel_Colon == LexInv /\ ColonInv /\ BlockLabel => ColonInv'
<1> SUFFICES ASSUME LexInv, ColonInv, BlockLabel PROVE ColonInv'
  OBVIOUS
<1>1. pc = "label"
  BY DEF BlockLabel
<1>2. CASE Advance("colon") /\ curr_bb' = curr_bb + 1
  <2>1. /\ pc' \in {"colon", "error"}
        /\ Left \in Nat /\ Left' \in Nat /\ IsColon(token)' \in Nat
        /\ IsColon(token)' + Left' <= Left
    BY <1>2, AdvanceIs
  <2>2. /\ curr_bb \in 0 .. NBlocks
        /\ curr_bb + Left <= NBlocks
    BY <1>1, NBlocksAssumption DEF ColonInv, Begun
  <2>3. curr_bb' \in 0 .. NBlocks + 1 /\ curr_bb' >= 1
    BY <1>2, <2>2, NBlocksAssumption
  <2>4. pc' = "colon" => Begun' = curr_bb
    BY <1>2, <2>2 DEF Begun
  <2>5. pc' = "colon" =>
            Begun' + Left' <= NBlocks /\ Begun' + IsColon(token)' + Left' <= NBlocks
    <3>1. curr_bb \in Nat /\ NBlocks \in Nat
      BY <2>2, NBlocksAssumption
    <3>2. curr_bb + Left' <= NBlocks /\ curr_bb + IsColon(token)' + Left' <= NBlocks
      BY <2>1, <2>2, <3>1, EnoughIsLeft
    <3> QED
      BY <2>4, <3>2
  <2> QED
    BY <2>1, <2>3, <2>5 DEF ColonInv, Steps, Inside
<1>3. CASE Stay("error") /\ curr_bb' = curr_bb
  BY <1>3, Fails
<1> QED
  BY <1>2, <1>3 DEF BlockLabel

(* ... and the colon, which was counted, pays for it. *)
LEMMA BlockColon_Colon == LexInv /\ ColonInv /\ BlockColon => ColonInv'
<1> SUFFICES ASSUME LexInv, ColonInv, BlockColon PROVE ColonInv'
  OBVIOUS
<1>1. pc = "colon" /\ curr_bb' = curr_bb
  BY DEF BlockColon, Expect, blockVars
<1>2. CASE token.kind = "COLON" /\ Advance("newline")
  <2>1. /\ pc' \in {"newline", "error"}
        /\ Left \in Nat /\ Left' \in Nat /\ IsColon(token)' \in Nat
        /\ IsColon(token)' + Left' <= Left
    BY <1>2, AdvanceIs
  <2>2. IsColon(token) = 1 /\ Begun = curr_bb - 1
    BY <1>1, <1>2 DEF IsColon, Begun
  <2>3. curr_bb \in 0 .. NBlocks + 1 /\ curr_bb >= 1 /\ Begun + IsColon(token) + Left <= NBlocks
    BY <1>1 DEF ColonInv, Inside
  <2>4. curr_bb + Left <= NBlocks /\ curr_bb \in Nat /\ NBlocks \in Nat /\ curr_bb <= NBlocks
    BY <2>1, <2>2, <2>3, NBlocksAssumption
  <2>5. pc' = "newline" => Begun' = curr_bb
    BY <1>1 DEF Begun
  <2>6. pc' = "newline" =>
            Begun' + Left' <= NBlocks /\ Begun' + IsColon(token)' + Left' <= NBlocks
    <3>1. curr_bb + Left' <= NBlocks /\ curr_bb + IsColon(token)' + Left' <= NBlocks
      BY <2>1, <2>4, EnoughIsLeft
    <3> QED
      BY <2>5, <3>1
  <2>7. curr_bb' \in 0 .. NBlocks + 1 /\ curr_bb' # NBlocks + 1 /\ curr_bb' >= 1
    BY <1>1, <2>3, <2>4
  <2> QED
    BY <2>1, <2>6, <2>7 DEF ColonInv, Steps, Inside
<1>3. CASE Stay("error")
  BY <1>1, <1>3, Fails
<1> QED
  BY <1>2, <1>3 DEF BlockColon, Expect, is_token

(* The blocks begun stay within the colons counted. *)
LEMMA Colon_Next == LexInv /\ ColonInv /\ ParserNext => ColonInv'
<1> SUFFICES ASSUME LexInv, ColonInv, ParserNext PROVE ColonInv'
  OBVIOUS
<1> USE DEF Looking, Steps, Inside
<1>1. CASE SkipNewline
  BY <1>1, GoesOn DEF SkipNewline, blockVars
<1>2. CASE BeginBlock
  BY <1>2, LooksAgain DEF BeginBlock, blockVars
<1>3. CASE BlockNewline
  BY <1>3, GoesOn, Fails DEF BlockNewline, Expect, blockVars
<1>4. CASE BeginDef \/ BeginPrint \/ BeginBranch
  BY <1>4, GoesOn DEF BeginDef, BeginPrint, BeginBranch, blockVars
<1>5. CASE EndBlock
  BY <1>5, LooksAgain DEF EndBlock, blockVars
<1>6. CASE Arrow \/ FirstComma \/ SecondComma
  BY <1>6, GoesOn, Fails DEF Arrow, FirstComma, SecondComma, Expect, blockVars
<1>7. CASE Lhs \/ Rhs
  BY <1>7, GoesOn, Fails DEF Lhs, Rhs, blockVars
<1>8. CASE Operator
  <2>1. pc = "operator" /\ curr_bb' = curr_bb
    BY <1>8 DEF Operator, blockVars
  <2>2. Advance("rhs") \/ Stay("end") \/ Stay("error")
    BY <1>8 DEF Operator, is_token
  <2> QED
    BY <2>1, <2>2, GoesOn, LooksAgain, Fails
<1>9. CASE Target
  <2>1. pc = "target" /\ curr_bb' = curr_bb
    BY <1>9 DEF Target
  <2>2. Advance("end") \/ Advance("comma1") \/ Stay("error")
    BY <1>9 DEF Target
  <2> QED
    BY <2>1, <2>2, GoesOn, Fails
<1>10. CASE ThenLabel \/ ElseLabel
  BY <1>10, GoesOn, Fails DEF ThenLabel, ElseLabel, blockVars
<1>11. CASE EndInst
  BY <1>11, GoesOn, Fails DEF EndInst
<1> QED
  BY <1>1, <1>2, <1>3, <1>4, <1>5, <1>6, <1>7, <1>8, <1>9, <1>10, <1>11,
     Top_Colon, BlockLabel_Colon, BlockColon_Colon DEF ParserNext

-----------------------------------------------------------------------------
(* The instruction being read *)

(* Inside a block, past its colon, the block exists. *)
LEMMA InsideABlock ==
    ColonInv /\ pc \in Inside \ {"colon"} => bb_num \in Blocks
<1> SUFFICES ASSUME ColonInv, pc \in Inside \ {"colon"} PROVE bb_num \in Blocks
  OBVIOUS
<1>1. curr_bb \in 1 .. NBlocks /\ NBlocks \in Nat
  BY NBlocksAssumption DEF ColonInv, Inside
<1> QED
  BY <1>1 DEF bb_num, Blocks

(* The numbers of tokens. *)
LEMMA TokenIs ==
    ASSUME LexInv
    PROVE  /\ StartsValue => TokenValue \in Value
           /\ is_token("REG") => token.val \in Nat
           /\ is_token("LBL") => token.val \in Nat
<1>1. token \in Item \union {EOI}
  BY DEF LexInv
<1>2. token.kind \in {"REG", "INTLIT", "LBL"} => token \in Item
  BY <1>1 DEF EOI
<1>3. token.kind \in {"REG", "INTLIT", "LBL"} => token.val \in Nat
  BY <1>2 DEF Item
<1> QED
  BY <1>3 DEF StartsValue, TokenValue, is_token, val_reg, val_imm, Value

(* The blocks that add_edge accepts exist. *)
LEMMA AllowedIs ==
    ASSUME NEW n \in Nat, EdgeAllowed(bb_num, n)
    PROVE  n \in Blocks
BY NBlocksAssumption DEF EdgeAllowed, Blocks

(* A DEF or PRINT of one operand is complete, and branches nowhere. *)
LEMMA SimpleIsPlaced ==
    ASSUME NEW i \in SimpleInst
    PROVE  i \in PlacedInst /\ Targets(i) = <<>>
<1>1. i \in Instruction
  BY DEF SimpleInst, SimpleOp, Instruction, Operation
<1>2. i.kind \in {"DEF", "PRINT"}
  BY DEF SimpleInst
<1>3. Targets(i) = <<>>
  BY <1>2 DEF Targets
<1>4. <<>> \in Seq(Blocks)
  OBVIOUS
<1> QED
  BY <1>1, <1>3, <1>4 DEF PlacedInst

(* The operand that parse_operation reads first. *)
LEMMA FirstOperandIs ==
    ASSUME inst \in DefHead \union PrintHead, NEW v \in Value
    PROVE  WithOp(op_simple(v)) \in SimpleInst
<1>1. op_simple(v) \in SimpleOp
  BY DEF op_simple, SimpleOp
<1>2. CASE inst \in DefHead
  <2>1. inst.kind = "DEF" /\ inst.reg \in Nat
    BY <1>2 DEF DefHead
  <2> QED
    BY <1>1, <2>1 DEF WithOp, def, SimpleInst
<1>3. CASE inst \in PrintHead
  <2>1. inst.kind # "DEF"
    BY <1>3 DEF PrintHead
  <2> QED
    BY <1>1, <2>1 DEF WithOp, print, SimpleInst
<1> QED
  BY <1>2, <1>3

(* The operand after a plus, of a DEF. *)
LEMMA SecondOperandIs ==
    ASSUME inst \in SimpleInst, inst.kind = "DEF", NEW v \in Value
    PROVE  /\ WithOp(op_add(inst.op.lhs, v)) \in PlacedInst
           /\ Targets(WithOp(op_add(inst.op.lhs, v))) = <<>>
<1> DEFINE o == op_add(inst.op.lhs, v)
           i == WithOp(o)
<1>1. inst.reg \in Nat /\ inst.op.lhs \in Value
  BY DEF SimpleInst, SimpleOp
<1>2. o \in Operation
  BY <1>1 DEF op_add, Operation
<1> HIDE DEF o
<1>3. i = def(inst.reg, o)
  BY DEF WithOp
<1>4. i \in Instruction /\ i.kind = "DEF"
  BY <1>1, <1>2, <1>3 DEF def, Instruction
<1>5. Targets(i) = <<>>
  BY <1>4 DEF Targets
<1>6. <<>> \in Seq(Blocks)
  OBVIOUS
<1>7. i \in PlacedInst
  BY <1>4, <1>5, <1>6 DEF PlacedInst
<1> QED
  BY <1>5, <1>7 DEF o

(* A jump to a block there is. *)
LEMMA JumpIsPlaced ==
    ASSUME NEW d \in Blocks
    PROVE  br_uncond(d) \in PlacedInst /\ Targets(br_uncond(d)) = <<d>>
<1>1. d \in Nat
  BY NBlocksAssumption DEF Blocks
<1>2. br_uncond(d) \in Instruction /\ Targets(br_uncond(d)) = <<d>>
  BY <1>1 DEF br_uncond, Instruction, Targets
<1>3. <<d>> \in Seq(Blocks)
  OBVIOUS
<1> QED
  BY <1>2, <1>3 DEF PlacedInst

(* A branch to two blocks there are. *)
LEMMA BranchIsPlaced ==
    ASSUME NEW v \in Value, NEW d \in Blocks, NEW e \in Blocks
    PROVE  br_cond(v, d, e) \in PlacedInst /\ Targets(br_cond(v, d, e)) = <<d, e>>
<1>1. d \in Nat /\ e \in Nat
  BY NBlocksAssumption DEF Blocks
<1>2. br_cond(v, d, e) \in Instruction /\ Targets(br_cond(v, d, e)) = <<d, e>>
  BY <1>1 DEF br_cond, Instruction, Targets
<1>3. <<d, e>> \in Seq(Blocks)
  OBVIOUS
<1> QED
  BY <1>2, <1>3 DEF PlacedInst

(* Nothing is expected of the instruction where none is being read. *)
LEMMA Inst_Fails ==
    pc' \in {"top", "blank", "label", "colon", "newline", "body", "target", "done", "error"}
        => InstInv'
BY DEF InstInv

(* A token between two parts of an instruction leaves them as they are. *)
LEMMA Inst_Same ==
    ASSUME InstInv, LexInv, inst' = inst, NEW from, pc = from, NEW step, Advance(step),
           <<from, step>> \in {<<"arrow", "lhs">>, <<"operator", "rhs">>, <<"comma1", "then">>,
                               <<"comma2", "else">>}
    PROVE  InstInv'
<1>1. pc' \in {step, "error"}
  BY AdvanceIs
<1> QED
  BY <1>1 DEF InstInv

(* What there is of the instruction fits the step that is next. *)
LEMMA Inst_Next == LexInv /\ ColonInv /\ InstInv /\ ParserNext => InstInv'
<1> SUFFICES ASSUME LexInv, ColonInv, InstInv, ParserNext PROVE InstInv'
  OBVIOUS
<1>1. CASE Top \/ SkipNewline \/ BeginBlock \/ BlockLabel \/ BlockColon \/ BlockNewline
  <2>1. \E step \in {"done", "blank", "label", "colon", "newline", "body", "error"} :
            Advance(step) \/ Stay(step)
    BY <1>1 DEF Top, SkipNewline, BeginBlock, BlockLabel, BlockColon, BlockNewline, Expect
  <2> QED
    BY <2>1, AdvanceIs, StayIs, Inst_Fails
<1>2. CASE BeginDef
  <2>1. pc' \in {"arrow", "error"}
    BY <1>2, AdvanceIs DEF BeginDef
  <2>2. inst' \in DefHead
    BY <1>2, TokenIs DEF BeginDef, DefHead
  <2> QED
    BY <2>1, <2>2 DEF InstInv
<1>3. CASE BeginPrint
  <2>1. pc' \in {"lhs", "error"}
    BY <1>3, AdvanceIs DEF BeginPrint
  <2>2. inst' \in PrintHead
    BY <1>3 DEF BeginPrint, PrintHead
  <2> QED
    BY <2>1, <2>2 DEF InstInv
<1>4. CASE BeginBranch \/ EndBlock
  <2>1. Advance("target") \/ Stay("top")
    BY <1>4 DEF BeginBranch, EndBlock
  <2> QED
    BY <2>1, AdvanceIs, StayIs, Inst_Fails
<1>5. CASE Arrow \/ FirstComma \/ SecondComma
  <2>1. \/ Stay("error")
        \/ inst' = inst /\ pc = "arrow" /\ Advance("lhs")
        \/ inst' = inst /\ pc = "comma1" /\ Advance("then")
        \/ inst' = inst /\ pc = "comma2" /\ Advance("else")
    BY <1>5 DEF Arrow, FirstComma, SecondComma, Expect
  <2> QED
    BY <2>1, StayIs, Inst_Fails, Inst_Same
<1>6. CASE Lhs
  <2>1. CASE StartsValue
    <3>1. pc = "lhs" /\ Advance("operator") /\ inst' = WithOp(op_simple(TokenValue))
      BY <1>6, <2>1 DEF Lhs
    <3>2. inst \in DefHead \union PrintHead /\ TokenValue \in Value
      BY <2>1, <3>1, TokenIs DEF InstInv
    <3>3. inst' \in SimpleInst
      BY <3>1, <3>2, FirstOperandIs
    <3>4. pc' \in {"operator", "error"}
      BY <3>1, AdvanceIs
    <3> QED
      BY <3>3, <3>4 DEF InstInv
  <2>2. CASE ~StartsValue
    <3>1. Stay("error")
      BY <1>6, <2>2 DEF Lhs
    <3> QED
      BY <3>1, StayIs, Inst_Fails
  <2> QED
    BY <2>1, <2>2
<1>7. CASE Operator
  <2>1. pc = "operator" /\ inst' = inst
    BY <1>7 DEF Operator
  <2>2. inst \in SimpleInst
    BY <2>1 DEF InstInv
  <2>3. inst \in PlacedInst
    BY <2>2, SimpleIsPlaced
  <2>4. Advance("rhs") \/ Stay("end") \/ Stay("error")
    BY <1>7 DEF Operator, is_token
  <2>5. pc' \in {"rhs", "end", "error"}
    BY <2>4, AdvanceIs, StayIs
  <2> QED
    BY <2>1, <2>2, <2>3, <2>5 DEF InstInv
<1>8. CASE Rhs
  <2>1. CASE StartsValue /\ inst.kind = "DEF"
    <3>1. pc = "rhs" /\ Advance("end") /\ inst' = WithOp(op_add(inst.op.lhs, TokenValue))
      BY <1>8, <2>1 DEF Rhs
    <3>2. inst \in SimpleInst /\ TokenValue \in Value
      BY <2>1, <3>1, TokenIs DEF InstInv
    <3>3. inst' \in PlacedInst
      BY <2>1, <3>1, <3>2, SecondOperandIs
    <3>4. pc' \in {"end", "error"}
      BY <3>1, AdvanceIs
    <3> QED
      BY <3>3, <3>4 DEF InstInv
  <2>2. CASE ~(StartsValue /\ inst.kind = "DEF")
    <3>1. Stay("error")
      BY <1>8, <2>2 DEF Rhs
    <3> QED
      BY <3>1, StayIs, Inst_Fails
  <2> QED
    BY <2>1, <2>2
<1>9. CASE Target
  <2>1. CASE is_token("LBL") /\ EdgeAllowed(bb_num, token.val)
             /\ inst' = br_uncond(token.val) /\ Advance("end")
    <3>1. token.val \in Blocks
      BY <2>1, TokenIs, AllowedIs
    <3>2. inst' \in PlacedInst
      BY <2>1, <3>1, JumpIsPlaced
    <3>3. pc' \in {"end", "error"}
      BY <2>1, AdvanceIs
    <3> QED
      BY <3>2, <3>3 DEF InstInv
  <2>2. CASE StartsValue /\ inst' = [cond_val |-> TokenValue] /\ Advance("comma1")
    <3>1. inst' \in OneLabel
      BY <2>2, TokenIs DEF OneLabel
    <3>2. pc' \in {"comma1", "error"}
      BY <2>2, AdvanceIs
    <3> QED
      BY <3>1, <3>2 DEF InstInv
  <2>3. CASE Stay("error")
    BY <2>3, StayIs, Inst_Fails
  <2> QED
    BY <1>9, <2>1, <2>2, <2>3 DEF Target
<1>10. CASE ThenLabel
  <2>1. CASE is_token("LBL")
    <3>1. pc = "then" /\ Advance("comma2")
          /\ inst' = [cond_val |-> inst.cond_val, then |-> token.val]
      BY <1>10, <2>1 DEF ThenLabel
    <3>2. inst \in OneLabel /\ token.val \in Nat
      BY <2>1, <3>1, TokenIs DEF InstInv
    <3>3. inst' \in TwoLabels
      BY <3>1, <3>2 DEF OneLabel, TwoLabels
    <3>4. pc' \in {"comma2", "error"}
      BY <3>1, AdvanceIs
    <3> QED
      BY <3>3, <3>4 DEF InstInv
  <2>2. CASE ~is_token("LBL")
    <3>1. Stay("error")
      BY <1>10, <2>2 DEF ThenLabel
    <3> QED
      BY <3>1, StayIs, Inst_Fails
  <2> QED
    BY <2>1, <2>2
<1>11. CASE ElseLabel
  <2>1. CASE is_token("LBL") /\ EdgeAllowed(bb_num, inst.then) /\ EdgeAllowed(bb_num, token.val)
    <3>1. pc = "else" /\ Advance("end") /\ inst' = br_cond(inst.cond_val, inst.then, token.val)
      BY <1>11, <2>1 DEF ElseLabel
    <3>2. inst \in TwoLabels
      BY <3>1 DEF InstInv
    <3>3. inst.cond_val \in Value /\ inst.then \in Nat /\ token.val \in Nat
      BY <2>1, <3>2, TokenIs DEF TwoLabels
    <3>4. inst.then \in Blocks /\ token.val \in Blocks
      BY <2>1, <3>3, AllowedIs
    <3>5. inst' \in PlacedInst
      BY <3>1, <3>3, <3>4, BranchIsPlaced
    <3>6. pc' \in {"end", "error"}
      BY <3>1, AdvanceIs
    <3> QED
      BY <3>5, <3>6 DEF InstInv
  <2>2. CASE Stay("error")
    BY <2>2, StayIs, Inst_Fails
  <2> QED
    BY <1>11, <2>1, <2>2 DEF ElseLabel
<1>12. CASE EndInst
  <2>1. Advance("body") \/ Stay("error")
    BY <1>12 DEF EndInst
  <2> QED
    BY <2>1, AdvanceIs, StayIs, Inst_Fails
<1> QED
  BY <1>1, <1>2, <1>3, <1>4, <1>5, <1>6, <1>7, <1>8, <1>9, <1>10, <1>11, <1>12 DEF ParserNext

-----------------------------------------------------------------------------
(* The lists of the blocks *)

(* The instructions of a list. *)
LEMMA InstsOfIs ==
    ASSUME NEW m \in Seq(InstNodes), NEW l, NEW b, NEW w, Holds(m, l, b, w)
    PROVE  /\ InstsOf(m, l) \in Seq(PlacedInst)
           /\ Len(InstsOf(m, l)) = Len(w)
           /\ \A k \in 1 .. Len(w) : InstsOf(m, l)[k] = m[w[k]].inst
<1> DEFINE e(k) == m[w[k]].inst
           s == [k \in 1 .. Len(w) |-> e(k)]
<1>1. /\ Len(w) \in Nat
      /\ \A k \in 1 .. Len(w) : w[k] \in 1 .. Len(m)
  BY HeldNodes
<1>2. ASSUME NEW k \in 1 .. Len(w) PROVE e(k) \in PlacedInst
  <2>1. m[w[k]] \in InstNodes
    BY <1>1, ElementOfSeq
  <2> QED
    BY <2>1 DEF InstNodes
<1>3. NodesOf(m, l) = w
  BY NodesOfIs
<1>4. l.size = Len(w)
  BY DEF Holds
<1>5. InstsOf(m, l) = s
  BY <1>3, <1>4 DEF InstsOf
<1> HIDE DEF e
<1>6. s \in Seq(PlacedInst)
  BY <1>1, <1>2, IsASeq
<1>7. Len(s) = Len(w)
  <2>1. DOMAIN s = 1 .. Len(w)
    OBVIOUS
  <2> HIDE DEF s
  <2> QED
    BY <1>1, <1>6, <2>1, LenProperties
<1>8. \A k \in 1 .. Len(w) : s[k] = m[w[k]].inst
  BY DEF e
<1> HIDE DEF s
<1> QED
  BY <1>5, <1>6, <1>7, <1>8

(* The heap and the lists with one instruction more, in block b. *)
HeapWith(m, ls, b, i) ==
    Linked(Append(m, [NewNode(i) EXCEPT !.parent = b]), ls[b], Len(m) + 1)
ListsWith(m, ls, b) == [ls EXCEPT ![b] = ListWith(ls[b], Len(m) + 1)]

(* insert_at_end puts the instruction at the end of its block's list. *)
LEMMA OneMoreIsFilled ==
    ASSUME NEW m, NEW ls, Filled(m, ls), NEW b \in Blocks, NEW i \in PlacedInst
    PROVE  /\ Filled(HeapWith(m, ls, b, i), ListsWith(m, ls, b))
           /\ Len(HeapWith(m, ls, b, i)) = Len(m) + 1
           /\ InstsOf(HeapWith(m, ls, b, i), ListsWith(m, ls, b)[b]) = Append(InstsOf(m, ls[b]), i)
           /\ \A c \in Blocks : c # b =>
                  InstsOf(HeapWith(m, ls, b, i), ListsWith(m, ls, b)[c]) = InstsOf(m, ls[c])
<1> DEFINE l == ls[b]
           n == Len(m) + 1
           g == HeapWith(m, ls, b, i)
           hs == ListsWith(m, ls, b)
           w == NodesOf(m, l)
           u == Append(w, n)
<1>1. /\ m \in Seq(InstNodes)
      /\ ls \in [Blocks -> InstLists]
      /\ \A c \in Blocks : Holds(m, ls[c], c, NodesOf(m, ls[c]))
  BY DEF Filled
<1>2. Holds(m, l, b, w)
  BY <1>1
<1>3. /\ Len(m) \in Nat /\ Len(w) \in Nat
      /\ \A k \in 1 .. Len(w) : w[k] \in 1 .. Len(m)
  <2> HIDE DEF l, w
  <2> QED
    BY <1>1, <1>2, HeldNodes
<1>4. /\ l.tail \in 0 .. Len(m)
      /\ l.tail \in 1 .. Len(m) => m[l.tail].parent = b
  <2> HIDE DEF l, w
  <2>1. l.tail = IF Len(w) = 0 THEN nullptr ELSE w[Len(w)]
    BY <1>2 DEF Holds
  <2>2. Len(w) # 0 => Len(w) \in 1 .. Len(w)
    BY <1>3
  <2>3. Len(w) # 0 => m[w[Len(w)]].parent = b
    BY <1>2, <2>2 DEF Holds
  <2> QED
    BY <1>3, <2>1, <2>2, <2>3 DEF nullptr
<1>5. Inserted(m, g, i, b, l.tail)
  <2>1. g = Linked(Append(m, [NewNode(i) EXCEPT !.parent = b]), l, Len(m) + 1)
    BY DEF HeapWith
  <2> HIDE DEF l, g
  <2> QED
    BY <1>1, <1>4, <2>1, LinkedInserts
<1>6. hs[b] = ListWith(l, n) /\ \A c \in Blocks : c # b => hs[c] = ls[c]
  BY <1>1 DEF ListsWith
<1>7. hs \in [Blocks -> InstLists]
  <2>1. l \in InstLists
    BY <1>1
  <2>2. n \in Nat
    BY <1>3
  <2>3. ListWith(l, n) \in InstLists
    <3> HIDE DEF l, n
    <3> QED
      BY <2>1, <2>2 DEF InstLists, ListWith
  <2> HIDE DEF l, n
  <2> QED
    BY <1>1, <2>3 DEF ListsWith, l, n
<1>8. Holds(g, hs[b], b, u)
  <2>1. Holds(g, ListWith(l, Len(m) + 1), b, Append(w, Len(m) + 1))
    <3> HIDE DEF l, g, w
    <3> QED
      BY <1>1, <1>2, <1>5, OneMoreHolds
  <2> QED
    BY <1>6, <2>1
<1>9. ASSUME NEW c \in Blocks, c # b
      PROVE  Holds(g, hs[c], c, NodesOf(m, ls[c]))
  <2>1. Holds(m, ls[c], c, NodesOf(m, ls[c])) /\ hs[c] = ls[c]
    BY <1>1, <1>6, <1>9
  <2>2. l.tail \in 1 .. Len(m) => m[l.tail].parent # c
    BY <1>4, <1>9
  <2> DEFINE k == ls[c]
             v == NodesOf(m, k)
             t == l.tail
  <2>3. Holds(m, k, c, v) /\ Inserted(m, g, i, b, t) /\ (t \in 1 .. Len(m) => m[t].parent # c)
    BY <1>5, <2>1, <2>2
  <2> HIDE DEF k, v, g, t
  <2>4. Holds(g, k, c, v)
    BY <1>1, <2>3, OthersHold
  <2> QED
    BY <2>1, <2>4 DEF k, v
<1>10. g \in Seq(InstNodes) /\ Len(g) = n
  BY <1>5 DEF Inserted
<1>11. NodesOf(g, hs[b]) = u /\ \A c \in Blocks : c # b => NodesOf(g, hs[c]) = NodesOf(m, ls[c])
  <2> HIDE DEF g, hs, u
  <2> QED
    BY <1>8, <1>9, NodesOfIs
<1>12. /\ u \in Seq(1 .. n) /\ Len(u) = Len(w) + 1 /\ u[Len(w) + 1] = n
       /\ \A k \in 1 .. Len(w) : u[k] = w[k]
  <2>1. n \in 1 .. n /\ 1 .. Len(m) \subseteq 1 .. n
    BY <1>3
  <2>2. w \in Seq(1 .. Len(m))
    BY <1>2 DEF Holds
  <2>3. w \in Seq(1 .. n)
    BY <2>1, <2>2, SeqMonotonic
  <2> HIDE DEF n, w
  <2> QED
    BY <2>1, <2>3, AppendProperties
<1>13. ASSUME NEW p \in 1 .. Len(g)
       PROVE  \E k \in 1 .. Len(NodesOf(g, hs[g[p].parent])) : NodesOf(g, hs[g[p].parent])[k] = p
  <2>1. CASE p = n
    <3>1. g[n].parent = b
      BY <1>5 DEF Inserted
    <3>2. Len(u) \in 1 .. Len(u) /\ u[Len(u)] = n
      BY <1>3, <1>12
    <3> HIDE DEF g, u, n, hs
    <3> QED
      BY <1>11, <2>1, <3>1, <3>2
  <2>2. CASE p # n
    <3>1. p \in 1 .. Len(m)
      BY <1>3, <1>10, <2>2
    <3>2. g[p].parent = m[p].parent
      BY <1>5, <3>1 DEF Inserted
    <3>3. m[p] \in InstNodes
      BY <1>1, <3>1, ElementOfSeq
    <3> DEFINE c == m[p].parent
    <3>4. c \in Blocks
      BY <3>3 DEF InstNodes
    <3>5. PICK k \in 1 .. Len(NodesOf(m, ls[c])) : NodesOf(m, ls[c])[k] = p
      BY <3>1 DEF Filled
    <3>6. g[p].parent = c
      BY <3>2
    <3> HIDE DEF c, g, hs, u
    <3>7. CASE c = b
      <4>1. k \in 1 .. Len(w) /\ w[k] = p
        BY <3>5, <3>7
      <4>2. k \in 1 .. Len(u) /\ u[k] = p
        BY <1>3, <1>12, <4>1
      <4> QED
        BY <1>11, <3>6, <3>7, <4>2
    <3>8. CASE c # b
      BY <1>11, <3>4, <3>5, <3>6, <3>8
    <3> QED
      BY <3>7, <3>8
  <2> QED
    BY <2>1, <2>2
<1>14. ASSUME NEW c \in Blocks
       PROVE  Holds(g, hs[c], c, NodesOf(g, hs[c]))
  <2> HIDE DEF g, hs, u
  <2> QED
    BY <1>8, <1>9, <1>11
<1>15. Filled(g, hs)
  <2> HIDE DEF g, hs
  <2> QED
    BY <1>7, <1>10, <1>13, <1>14 DEF Filled
<1>16. InstsOf(g, hs[b]) = Append(InstsOf(m, l), i)
  <2> DEFINE s == InstsOf(m, l)
             q == InstsOf(g, hs[b])
             x == Append(s, i)
  <2>1. s \in Seq(PlacedInst) /\ Len(s) = Len(w) /\ \A k \in 1 .. Len(w) : s[k] = m[w[k]].inst
    <3> HIDE DEF l, w
    <3> QED
      BY <1>1, <1>2, InstsOfIs
  <2>2. q \in Seq(PlacedInst) /\ Len(q) = Len(u) /\ \A k \in 1 .. Len(u) : q[k] = g[u[k]].inst
    <3> HIDE DEF hs, g, u
    <3> QED
      BY <1>8, <1>10, InstsOfIs
  <2> HIDE DEF s, q
  <2>3. /\ x \in Seq(PlacedInst) /\ Len(x) = Len(s) + 1 /\ x[Len(s) + 1] = i
        /\ \A k \in 1 .. Len(s) : x[k] = s[k]
    BY <2>1, AppendProperties
  <2>4. /\ g[n].inst = i
        /\ \A k \in 1 .. Len(m) : g[k].inst = m[k].inst
    BY <1>5 DEF Inserted
  <2> HIDE DEF x, g, u, n, w
  <2>5. ASSUME NEW k \in 1 .. Len(q) PROVE q[k] = x[k]
    <3>1. CASE k \in 1 .. Len(w)
      <4>1. u[k] = w[k] /\ w[k] \in 1 .. Len(m)
        BY <1>3, <1>12, <3>1
      <4> DEFINE v == w[k]
      <4>2. u[k] = v /\ v \in 1 .. Len(m) /\ s[k] = m[v].inst
        BY <2>1, <3>1, <4>1
      <4> HIDE DEF v
      <4>3. g[v].inst = m[v].inst
        BY <2>4, <4>2
      <4>4. q[k] = g[v].inst
        BY <2>2, <4>2
      <4>5. x[k] = s[k]
        BY <2>1, <2>3, <3>1
      <4> QED
        BY <4>2, <4>3, <4>4, <4>5
    <3>2. CASE k \notin 1 .. Len(w)
      <4>1. k = Len(w) + 1
        BY <1>3, <1>12, <2>2, <3>2
      <4>2. u[k] = n /\ x[k] = i
        BY <1>12, <2>1, <2>3, <4>1
      <4>3. q[k] = g[n].inst
        BY <2>2, <4>2
      <4> QED
        BY <2>4, <4>2, <4>3
    <3> QED
      BY <3>1, <3>2
  <2>6. q = x
    BY <1>12, <2>1, <2>2, <2>3, <2>5, SeqEqual
  <2> QED
    BY <2>6 DEF q, s, x
<1>17. ASSUME NEW c \in Blocks, c # b
       PROVE  InstsOf(g, hs[c]) = InstsOf(m, ls[c])
  <2> DEFINE k == ls[c]
             v == NodesOf(m, k)
             s == InstsOf(m, k)
             q == InstsOf(g, k)
  <2>1. Holds(m, k, c, v) /\ Holds(g, k, c, v) /\ hs[c] = k
    BY <1>1, <1>6, <1>9, <1>17
  <2> HIDE DEF k, v
  <2>2. s \in Seq(PlacedInst) /\ Len(s) = Len(v) /\ \A j \in 1 .. Len(v) : s[j] = m[v[j]].inst
    BY <1>1, <2>1, InstsOfIs
  <2>3. q \in Seq(PlacedInst) /\ Len(q) = Len(v) /\ \A j \in 1 .. Len(v) : q[j] = g[v[j]].inst
    <3> HIDE DEF g
    <3> QED
      BY <1>10, <2>1, InstsOfIs
  <2>4. \A j \in 1 .. Len(v) : v[j] \in 1 .. Len(m)
    BY <1>1, <2>1, HeldNodes
  <2>5. \A j \in 1 .. Len(m) : g[j].inst = m[j].inst
    BY <1>5 DEF Inserted
  <2> HIDE DEF g, s, q
  <2>6. ASSUME NEW j \in 1 .. Len(v) PROVE q[j] = s[j]
    BY <2>2, <2>3, <2>4, <2>5
  <2>7. q = s
    BY <2>2, <2>3, <2>6, SeqEqual
  <2> QED
    BY <2>1, <2>7 DEF q, s, k
<1> HIDE DEF g, hs
<1>18. Len(g) = Len(m) + 1
  BY <1>10
<1> QED
  BY <1>15, <1>16, <1>17, <1>18 DEF g, hs

(* An instruction that is put in a list is put in that of its block. *)
LEMMA PutIs ==
    ASSUME LexInv, ColonInv, InstInv, BlocksInv, EndInst, is_token("NL")
    PROVE  /\ mem' = HeapWith(mem, insts, bb_num, inst)
           /\ insts' = ListsWith(mem, insts, bb_num)
           /\ bb_num \in Blocks /\ inst \in PlacedInst /\ inst' = inst /\ curr_bb' = curr_bb
           /\ max_reg_used' \in Nat
<1>1. pc = "end" /\ inst' = inst /\ curr_bb' = curr_bb
  BY DEF EndInst
<1>2. bb_num \in Blocks /\ inst \in PlacedInst
  BY <1>1, InsideABlock DEF Inside, InstInv
<1> DEFINE x == [NewNode(inst) EXCEPT !.parent = bb_num]
           new == Append(mem, x)
<1>3. Filled(mem, insts)
  BY DEF BlocksInv
<1>4. mem \in Seq(InstNodes)
  BY <1>3 DEF Filled
<1>5. Len(new) = Len(mem) + 1
  BY <1>4, AppendProperties
<1>6. mem' = Linked(new, insts[bb_num], Len(new))
  BY DEF EndInst
<1>7. mem' = HeapWith(mem, insts, bb_num, inst)
  BY <1>5, <1>6 DEF HeapWith
<1>8. Len(mem') = Len(mem) + 1
  BY <1>2, <1>3, <1>7, OneMoreIsFilled
<1>9. insts' = [insts EXCEPT ![bb_num] = ListWith(insts[bb_num], Len(mem'))]
  BY DEF EndInst
<1>10. insts' = ListsWith(mem, insts, bb_num)
  BY <1>8, <1>9 DEF ListsWith
<1>11. max_reg_used' = IF inst.kind = "DEF" /\ inst.reg > max_reg_used
                       THEN inst.reg ELSE max_reg_used
  BY DEF EndInst
<1>12. inst.kind = "DEF" => inst.reg \in Nat
  BY <1>2 DEF PlacedInst, Instruction
<1>13. max_reg_used' \in Nat
  BY <1>11, <1>12 DEF BlocksInv
<1> QED
  BY <1>1, <1>2, <1>7, <1>10, <1>13

(* The other steps leave the lists alone. *)
LEMMA OnlyEndFills ==
    ASSUME ColonInv, ParserNext, ~(EndInst /\ is_token("NL"))
    PROVE  /\ mem' = mem /\ insts' = insts /\ max_reg_used' = max_reg_used
           /\ curr_bb' \in Nat /\ curr_bb \in Nat /\ curr_bb' >= curr_bb
<1>1. /\ mem' = mem /\ insts' = insts /\ max_reg_used' = max_reg_used
      /\ curr_bb' = curr_bb \/ curr_bb' = curr_bb + 1
  <2>1. CASE Top \/ SkipNewline \/ BeginBlock \/ BlockLabel \/ BlockColon \/ BlockNewline
    BY <2>1 DEF Top, SkipNewline, BeginBlock, BlockLabel, BlockColon, BlockNewline, Expect,
                blockVars
  <2>2. CASE BeginDef \/ BeginPrint \/ BeginBranch \/ EndBlock \/ Arrow \/ Lhs \/ Operator \/ Rhs
    BY <2>2 DEF BeginDef, BeginPrint, BeginBranch, EndBlock, Arrow, Lhs, Operator, Rhs, Expect,
                blockVars
  <2>3. CASE Target \/ FirstComma \/ ThenLabel \/ SecondComma \/ ElseLabel
    BY <2>3 DEF Target, FirstComma, ThenLabel, SecondComma, ElseLabel, Expect, blockVars
  <2>4. CASE EndInst
    BY <2>4 DEF EndInst
  <2> QED
    BY <2>1, <2>2, <2>3, <2>4 DEF ParserNext
<1>2. curr_bb \in Nat
  BY NBlocksAssumption DEF ColonInv
<1> QED
  BY <1>1, <1>2

(* The lists stay sound at every step. *)
LEMMA Blocks_Next ==
    LexInv /\ ColonInv /\ InstInv /\ BlocksInv /\ ParserNext => BlocksInv'
<1> SUFFICES ASSUME LexInv, ColonInv, InstInv, BlocksInv, ParserNext PROVE BlocksInv'
  OBVIOUS
<1>1. CASE EndInst /\ is_token("NL")
  <2>1. /\ mem' = HeapWith(mem, insts, bb_num, inst)
        /\ insts' = ListsWith(mem, insts, bb_num)
        /\ bb_num \in Blocks /\ inst \in PlacedInst /\ curr_bb' = curr_bb
        /\ max_reg_used' \in Nat
    BY <1>1, PutIs
  <2>2. Filled(mem, insts)
    BY DEF BlocksInv
  <2>3. Filled(mem', insts')
    BY <2>1, <2>2, OneMoreIsFilled
  <2>4. ASSUME NEW b \in Blocks, b >= curr_bb
        PROVE  insts'[b].size = 0
    <3>1. b # bb_num
      BY <2>1, <2>4, NBlocksAssumption DEF bb_num, ColonInv, Blocks
    <3>2. insts'[b] = insts[b]
      BY <2>1, <2>2, <3>1 DEF ListsWith, Filled
    <3> QED
      BY <2>4, <3>2 DEF BlocksInv
  <2> QED
    BY <2>1, <2>3, <2>4 DEF BlocksInv
<1>2. CASE ~(EndInst /\ is_token("NL"))
  <2>1. /\ mem' = mem /\ insts' = insts /\ max_reg_used' = max_reg_used
        /\ curr_bb' \in Nat /\ curr_bb \in Nat /\ curr_bb' >= curr_bb
    BY <1>2, OnlyEndFills
  <2>2. ASSUME NEW b \in Blocks, b >= curr_bb'
        PROVE  b >= curr_bb
    <3>1. b \in Nat
      BY NBlocksAssumption DEF Blocks
    <3> QED
      BY <2>1, <2>2, <3>1
  <2> QED
    BY <2>1, <2>2 DEF BlocksInv
<1> QED
  BY <1>1, <1>2

-----------------------------------------------------------------------------
(* The graph and the branches in the lists *)

(* The branches in the lists. *)
Listed == [b \in Blocks |-> BranchTargets(code[b])]

(* The instructions of a block, and their branches. *)
LEMMA CodeIs ==
    ASSUME BlocksInv, NEW b \in Blocks
    PROVE  /\ code[b] = InstsOf(mem, insts[b])
           /\ code[b] \in Seq(PlacedInst)
           /\ BranchTargets(code[b]) \in Seq(Blocks)
           /\ b >= curr_bb => BranchTargets(code[b]) = <<>>
<1> DEFINE l == insts[b]
           w == NodesOf(mem, l)
<1>1. mem \in Seq(InstNodes) /\ Holds(mem, l, b, w)
  BY DEF BlocksInv, Filled
<1>2. b >= curr_bb => l.size = 0
  BY DEF BlocksInv
<1>3. l.size = Len(w)
  BY <1>1 DEF Holds
<1>4. code[b] = InstsOf(mem, l)
  BY DEF code
<1> HIDE DEF l, w
<1>5. InstsOf(mem, l) \in Seq(PlacedInst) /\ Len(InstsOf(mem, l)) = Len(w)
  BY <1>1, InstsOfIs
<1>6. BranchTargets(InstsOf(mem, l)) \in Seq(Blocks)
      /\ (Len(InstsOf(mem, l)) = 0 => BranchTargets(InstsOf(mem, l)) = <<>>)
  BY <1>5, BranchTargetsSteps
<1> QED
  BY <1>2, <1>3, <1>4, <1>5, <1>6 DEF l

(* The branches in the lists; blocks not yet begun have none. *)
LEMMA ListedIs ==
    ASSUME BlocksInv
    PROVE  /\ Listed \in Branches
           /\ \A b \in Blocks : Listed[b] = BranchTargets(code[b])
           /\ \A b \in Blocks : b >= curr_bb => Listed[b] = <<>>
BY CodeIs DEF Listed, Branches

(* The branches drawn are those in the lists and the pending ones ... *)
LEMMA DrawnIs ==
    /\ pc # "end" => Drawn = Listed
    /\ pc = "end" /\ bb_num \in Blocks =>
           /\ Drawn[bb_num] = Listed[bb_num] \o Targets(inst)
           /\ \A b \in Blocks : b # bb_num => Drawn[b] = Listed[b]
<1>1. pc # "end" => Drawn = Listed
  BY DEF Drawn, Listed
<1>2. pc = "end" /\ bb_num \in Blocks =>
          /\ Drawn[bb_num] = Listed[bb_num] \o Targets(inst)
          /\ \A b \in Blocks : b # bb_num => Drawn[b] = Listed[b]
  BY DEF Drawn, Listed
<1> QED
  BY <1>1, <1>2

(* A step that leaves the lists alone leaves their branches alone. *)
LEMMA ListedStays ==
    mem' = mem /\ insts' = insts => Listed' = Listed
<1> SUFFICES ASSUME mem' = mem, insts' = insts PROVE Listed' = Listed
  OBVIOUS
<1>1. code' = code
  BY DEF code
<1> QED
  BY <1>1 DEF Listed

(* Functions on the blocks with the same values. *)
LEMMA SameBranches ==
    ASSUME NEW br \in Branches, NEW cr \in Branches, \A b \in Blocks : br[b] = cr[b]
    PROVE  br = cr
BY DEF Branches

(* No branches more. *)
LEMMA NothingMore ==
    ASSUME NEW s \in Seq(Blocks)
    PROVE  s \o <<>> = s
<1>1. <<>> \in Seq(Blocks)
  OBVIOUS
<1>2. s \o <<>> \in Seq(Blocks)
  BY <1>1, ConcatProperties
<1>3. Len(s \o <<>>) = Len(s) /\ \A k \in 1 .. Len(s) : (s \o <<>>)[k] = s[k]
  BY <1>1, ConcatProperties
<1> QED
  BY <1>2, <1>3, SeqEqual

(* One branch more, and two. *)
LEMMA TwoMore ==
    ASSUME NEW s \in Seq(Blocks), NEW d \in Blocks, NEW e \in Blocks
    PROVE  s \o <<d, e>> = Append(Append(s, d), e) /\ s \o <<d>> = Append(s, d)
<1>1. <<d>> \in Seq(Blocks) /\ <<e>> \in Seq(Blocks) /\ <<d, e>> \in Seq(Blocks)
  OBVIOUS
<1>2. s \o <<d>> = Append(s, d)
  <2>1. s \o <<d>> \in Seq(Blocks) /\ Append(s, d) \in Seq(Blocks)
    BY <1>1, ConcatProperties, AppendProperties
  <2>2. /\ Len(s \o <<d>>) = Len(s) + 1 /\ Len(Append(s, d)) = Len(s) + 1
        /\ \A k \in 1 .. Len(s) + 1 : (s \o <<d>>)[k] = Append(s, d)[k]
    BY <1>1
  <2> QED
    BY <2>1, <2>2, SeqEqual
<1>3. s \o <<d, e>> = Append(Append(s, d), e)
  <2> DEFINE t == Append(s, d)
             u == Append(t, e)
             v == s \o <<d, e>>
  <2>1. t \in Seq(Blocks) /\ Len(t) = Len(s) + 1 /\ t[Len(s) + 1] = d
        /\ \A k \in 1 .. Len(s) : t[k] = s[k]
    BY AppendProperties
  <2> HIDE DEF t
  <2>2. u \in Seq(Blocks) /\ Len(u) = Len(t) + 1 /\ u[Len(t) + 1] = e
        /\ \A k \in 1 .. Len(t) : u[k] = t[k]
    BY <2>1, AppendProperties
  <2>3. v \in Seq(Blocks)
    BY <1>1, ConcatProperties
  <2>4. /\ Len(v) = Len(s) + 2
        /\ \A k \in 1 .. Len(s) : v[k] = s[k]
        /\ v[Len(s) + 1] = d /\ v[Len(s) + 2] = e
    BY <1>1
  <2>5. Len(s) \in Nat
    OBVIOUS
  <2> HIDE DEF u, v
  <2>6. ASSUME NEW k \in 1 .. Len(u) PROVE u[k] = v[k]
    <3>1. k \in 1 .. Len(s) \/ k = Len(s) + 1 \/ k = Len(s) + 2
      BY <2>1, <2>2, <2>5
    <3>2. CASE k \in 1 .. Len(s)
      <4>1. k \in 1 .. Len(t)
        BY <2>1, <2>5, <3>2
      <4> QED
        BY <2>1, <2>2, <2>4, <3>2, <4>1
    <3>3. CASE k = Len(s) + 1
      <4>1. k \in 1 .. Len(t)
        BY <2>1, <2>5, <3>3
      <4> QED
        BY <2>1, <2>2, <2>4, <3>3, <4>1
    <3>4. CASE k = Len(s) + 2
      <4>1. k = Len(t) + 1
        BY <2>1, <2>5, <3>4
      <4> QED
        BY <2>2, <2>4, <3>4, <4>1
    <3> QED
      BY <3>1, <3>2, <3>3, <3>4
  <2>7. Len(u) = Len(v)
    BY <2>1, <2>2, <2>4, <2>5
  <2> QED
    BY <2>2, <2>3, <2>6, <2>7, SeqEqual DEF u, v, t
<1> QED
  BY <1>2, <1>3

(* The last block that has begun is the last one with branches. *)
LEMMA OneMoreListed ==
    ASSUME BlocksInv, ColonInv, NEW b \in Blocks, b = bb_num, NEW d \in Blocks,
           NEW br \in Branches, \A x \in Blocks : x # b => br[x] = Listed[x]
    PROVE  OneMore(br, [br EXCEPT ![b] = Append(br[b], d)], b, d)
           /\ [br EXCEPT ![b] = Append(br[b], d)] \in Branches
<1>1. br[b] \in Seq(Blocks)
  BY DEF Branches
<1>2. Append(br[b], d) \in Seq(Blocks)
  BY <1>1, AppendProperties
<1> DEFINE cr == [br EXCEPT ![b] = Append(br[b], d)]
<1>3. cr \in Branches /\ cr[b] = Append(br[b], d) /\ \A x \in Blocks : x # b => cr[x] = br[x]
  BY <1>2 DEF Branches
<1>4. ASSUME NEW x \in Blocks, x > b
      PROVE  br[x] = <<>>
  <2>1. x \in Nat /\ b \in Nat /\ curr_bb \in Nat
    BY NBlocksAssumption DEF Blocks, ColonInv
  <2>2. x >= curr_bb /\ x # b
    BY <1>4, <2>1 DEF bb_num
  <2> QED
    BY <2>2, ListedIs
<1> HIDE DEF cr
<1>5. OneMore(br, cr, b, d)
  BY <1>3, <1>4 DEF OneMore
<1> QED
  BY <1>3, <1>5 DEF cr

(* ... and so they are after the step. *)
LEMMA DrawnNext ==
    /\ pc' # "end" => Drawn' = Listed'
    /\ pc' = "end" /\ bb_num' \in Blocks =>
           /\ Drawn'[bb_num'] = Listed'[bb_num'] \o Targets(inst')
           /\ \A b \in Blocks : b # bb_num' => Drawn'[b] = Listed'[b]
           /\ Drawn' = [b \in Blocks |-> Drawn'[b]]
<1>1. pc' # "end" => Drawn' = Listed'
  BY DEF Drawn, Listed
<1>2. pc' = "end" /\ bb_num' \in Blocks =>
          /\ Drawn'[bb_num'] = Listed'[bb_num'] \o Targets(inst')
          /\ \A b \in Blocks : b # bb_num' => Drawn'[b] = Listed'[b]
  BY DEF Drawn, Listed
<1>3. Drawn' = [b \in Blocks |-> Drawn'[b]]
  BY DEF Drawn
<1> QED
  BY <1>1, <1>2, <1>3

(* An instruction is complete but for its newline. *)
LEMMA DrawnAtEnd ==
    ASSUME mem' = mem, insts' = insts, curr_bb' = curr_bb, bb_num \in Blocks, pc' = "end",
           NEW br \in Branches, br[bb_num] = Listed[bb_num] \o Targets(inst'),
           \A b \in Blocks : b # bb_num => br[b] = Listed[b]
    PROVE  Drawn' = br
<1>1. Listed' = Listed
  BY ListedStays
<1>2. bb_num' = bb_num
  BY DEF bb_num
<1>3. Drawn'[bb_num] = br[bb_num] /\ \A b \in Blocks : b # bb_num => Drawn'[b] = br[b]
  BY <1>1, <1>2, DrawnNext
<1>4. \A b \in Blocks : Drawn'[b] = br[b]
  BY <1>3
<1>5. Drawn' = [b \in Blocks |-> Drawn'[b]]
  BY <1>2, DrawnNext
<1>6. Drawn' \in Branches
  BY <1>4, <1>5 DEF Branches
<1> QED
  BY <1>4, <1>6, SameBranches


(* A step that touches neither the graph nor the lists. *)
LEMMA Graph_Same ==
    ASSUME GraphInv, pc \notin {"end", "error"}, pc' # "end",
           cfg' = cfg, mem' = mem, insts' = insts
    PROVE  GraphInv'
<1>1. Drawn = Listed /\ Drawn' = Listed' /\ Listed' = Listed
  BY DrawnIs, DrawnNext, ListedStays
<1>2. cfg' = BuildCfg(Drawn')
  BY <1>1 DEF GraphInv
<1>3. WellFormed(cfg')
  BY DEF GraphInv
<1> QED
  BY <1>2, <1>3 DEF GraphInv

(* An instruction without branches becomes pending: the graph stays. *)
LEMMA Graph_Simple ==
    ASSUME GraphInv, BlocksInv, pc \notin {"end", "error"}, pc' \in {"rhs", "end", "error"},
           cfg' = cfg, mem' = mem, insts' = insts, curr_bb' = curr_bb, bb_num \in Blocks,
           Targets(inst') = <<>>
    PROVE  GraphInv'
<1>1. CASE pc' # "end"
  BY <1>1, Graph_Same
<1>2. CASE pc' = "end"
  <2>1. Listed \in Branches
    BY ListedIs
  <2>2. Listed[bb_num] = Listed[bb_num] \o Targets(inst')
    <3>1. Listed[bb_num] \in Seq(Blocks)
      BY <2>1 DEF Branches
    <3> QED
      BY <3>1, NothingMore
  <2>3. Drawn' = Listed
    BY <1>2, <2>1, <2>2, DrawnAtEnd
  <2>4. Drawn = Listed
    BY DrawnIs
  <2>5. cfg' = BuildCfg(Drawn')
    BY <2>3, <2>4 DEF GraphInv
  <2>6. WellFormed(cfg')
    BY DEF GraphInv
  <2> QED
    BY <2>5, <2>6 DEF GraphInv
<1> QED
  BY <1>1, <1>2

(* A jump: one edge. *)
LEMMA Graph_Jump ==
    ASSUME GraphInv, BlocksInv, ColonInv, pc = "target", pc' \in {"end", "error"},
           NEW d \in Blocks, bb_num \in Blocks, cfg' = AddEdge(cfg, bb_num, d),
           Targets(inst') = <<d>>, mem' = mem, insts' = insts, curr_bb' = curr_bb
    PROVE  GraphInv'
<1>1. WellFormed(cfg')
  BY AddEdgeWellFormed DEF GraphInv
<1>2. CASE pc' = "end"
  <2> DEFINE b == bb_num
             br == Listed
             cr == [br EXCEPT ![b] = Append(br[b], d)]
  <2>1. br \in Branches /\ \A x \in Blocks : x # b => br[x] = Listed[x]
    BY ListedIs
  <2>2. cfg = BuildCfg(br)
    BY DrawnIs DEF GraphInv
  <2>3. b \in Blocks /\ b = bb_num
    OBVIOUS
  <2> HIDE DEF b, br
  <2>4. OneMore(br, cr, b, d) /\ cr \in Branches
    BY <2>1, <2>3, OneMoreListed
  <2>5. cr[b] = Append(br[b], d) /\ \A x \in Blocks : x # b => cr[x] = br[x]
    BY <2>4 DEF OneMore
  <2> HIDE DEF cr
  <2>6. BuildCfg(cr) = AddEdge(BuildCfg(br), b, d)
    BY <2>1, <2>3, <2>4, BuildOneMore
  <2>7. br[b] \in Seq(Blocks) /\ br[b] = Listed[b]
    BY <2>1, <2>3 DEF Branches, br
  <2>8. cr[bb_num] = Listed[bb_num] \o Targets(inst')
    <3>1. Append(br[b], d) = br[b] \o <<d>>
      BY <2>7, TwoMore
    <3> QED
      BY <2>3, <2>5, <2>7, <3>1
  <2>9. \A x \in Blocks : x # bb_num => cr[x] = Listed[x]
    BY <2>1, <2>3, <2>5
  <2>10. Drawn' = cr
    BY <1>2, <2>4, <2>8, <2>9, DrawnAtEnd
  <2>11. cfg' = BuildCfg(Drawn')
    BY <2>2, <2>3, <2>6, <2>10
  <2> QED
    BY <1>1, <2>11 DEF GraphInv
<1>3. CASE pc' = "error"
  BY <1>1, <1>3 DEF GraphInv
<1> QED
  BY <1>2, <1>3

(* A branch: two edges. *)
LEMMA Graph_Branch ==
    ASSUME GraphInv, BlocksInv, ColonInv, pc = "else", pc' \in {"end", "error"},
           NEW d \in Blocks, NEW e \in Blocks, bb_num \in Blocks,
           cfg' = AddEdge(AddEdge(cfg, bb_num, d), bb_num, e),
           Targets(inst') = <<d, e>>, mem' = mem, insts' = insts, curr_bb' = curr_bb
    PROVE  GraphInv'
<1>1. WellFormed(cfg')
  <2>1. WellFormed(AddEdge(cfg, bb_num, d))
    BY AddEdgeWellFormed DEF GraphInv
  <2> QED
    BY <2>1, AddEdgeWellFormed
<1>2. CASE pc' = "end"
  <2> DEFINE b == bb_num
             br == Listed
             cr == [br EXCEPT ![b] = Append(br[b], d)]
             ur == [cr EXCEPT ![b] = Append(cr[b], e)]
  <2>1. br \in Branches /\ \A x \in Blocks : x # b => br[x] = Listed[x]
    BY ListedIs
  <2>2. cfg = BuildCfg(br)
    BY DrawnIs DEF GraphInv
  <2>3. b \in Blocks /\ b = bb_num
    OBVIOUS
  <2> HIDE DEF b, br
  <2>4. OneMore(br, cr, b, d) /\ cr \in Branches
    BY <2>1, <2>3, OneMoreListed
  <2>5. cr[b] = Append(br[b], d) /\ \A x \in Blocks : x # b => cr[x] = br[x]
    BY <2>4 DEF OneMore
  <2> HIDE DEF cr
  <2>6. \A x \in Blocks : x # b => cr[x] = Listed[x]
    BY <2>1, <2>5
  <2>7. OneMore(cr, ur, b, e) /\ ur \in Branches
    BY <2>3, <2>4, <2>6, OneMoreListed
  <2>8. ur[b] = Append(cr[b], e) /\ \A x \in Blocks : x # b => ur[x] = cr[x]
    BY <2>7 DEF OneMore
  <2> HIDE DEF ur
  <2>9. BuildCfg(cr) = AddEdge(BuildCfg(br), b, d)
    BY <2>1, <2>3, <2>4, BuildOneMore
  <2>10. BuildCfg(ur) = AddEdge(BuildCfg(cr), b, e)
    BY <2>3, <2>4, <2>7, BuildOneMore
  <2>11. br[b] \in Seq(Blocks) /\ br[b] = Listed[b]
    BY <2>1, <2>3 DEF Branches, br
  <2>12. ur[bb_num] = Listed[bb_num] \o Targets(inst')
    <3>1. Append(Append(br[b], d), e) = br[b] \o <<d, e>>
      BY <2>11, TwoMore
    <3> QED
      BY <2>3, <2>5, <2>8, <2>11, <3>1
  <2>13. \A x \in Blocks : x # bb_num => ur[x] = Listed[x]
    BY <2>3, <2>6, <2>8
  <2>14. Drawn' = ur
    BY <1>2, <2>7, <2>12, <2>13, DrawnAtEnd
  <2>15. cfg' = BuildCfg(Drawn')
    BY <2>2, <2>3, <2>9, <2>10, <2>14
  <2> QED
    BY <1>1, <2>15 DEF GraphInv
<1>3. CASE pc' = "error"
  BY <1>1, <1>3 DEF GraphInv
<1> QED
  BY <1>2, <1>3

(* The instruction is put in its list. *)
LEMMA Graph_Put ==
    ASSUME LexInv, ColonInv, InstInv, BlocksInv, GraphInv, EndInst, is_token("NL")
    PROVE  GraphInv'
<1> DEFINE b == bb_num
<1>1. /\ mem' = HeapWith(mem, insts, b, inst)
      /\ insts' = ListsWith(mem, insts, b)
      /\ b \in Blocks /\ inst \in PlacedInst
  BY PutIs
<1>2. pc = "end" /\ Advance("body") /\ cfg' = cfg
  BY DEF EndInst
<1>3. Filled(mem, insts)
  BY DEF BlocksInv
<1>4. /\ InstsOf(mem', insts'[b]) = Append(InstsOf(mem, insts[b]), inst)
      /\ \A c \in Blocks : c # b => InstsOf(mem', insts'[c]) = InstsOf(mem, insts[c])
  <2> HIDE DEF b
  <2> QED
    BY <1>1, <1>3, OneMoreIsFilled
<1>5. \A c \in Blocks : code'[c] = InstsOf(mem', insts'[c])
  BY DEF code
<1>6. \A c \in Blocks : Listed'[c] = BranchTargets(code'[c])
  BY DEF Listed
<1>7. Drawn[b] = Listed[b] \o Targets(inst) /\ \A c \in Blocks : c # b => Drawn[c] = Listed[c]
  BY <1>1, <1>2, DrawnIs
<1>8. Listed'[b] = Drawn[b]
  <2>1. code[b] = InstsOf(mem, insts[b]) /\ code[b] \in Seq(PlacedInst)
    BY <1>1, CodeIs
  <2>2. BranchTargets(Append(code[b], inst)) = BranchTargets(code[b]) \o Targets(inst)
    <3> HIDE DEF b
    <3> QED
      BY <1>1, <2>1, BranchTargetsSteps
  <2>3. Listed[b] = BranchTargets(code[b])
    BY <1>1, ListedIs
  <2> HIDE DEF b
  <2> QED
    BY <1>1, <1>4, <1>5, <1>6, <1>7, <2>1, <2>2, <2>3
<1>9. ASSUME NEW c \in Blocks, c # b
      PROVE  Listed'[c] = Drawn[c]
  <2>1. code[c] = InstsOf(mem, insts[c]) /\ Listed[c] = BranchTargets(code[c])
    BY CodeIs, ListedIs
  <2> HIDE DEF b
  <2> QED
    BY <1>4, <1>5, <1>6, <1>7, <1>9, <2>1
<1>10. Listed' = Drawn
  <2>1. Listed' = [c \in Blocks |-> Listed'[c]] /\ Drawn = [c \in Blocks |-> Drawn[c]]
    BY DEF Listed, Drawn
  <2>2. \A c \in Blocks : Listed'[c] = Drawn[c]
    BY <1>8, <1>9
  <2>3. [c \in Blocks |-> Listed'[c]] = [c \in Blocks |-> Drawn[c]]
    BY <2>2
  <2> QED
    BY <2>1, <2>3
<1>11. pc' \in {"body", "error"}
  BY <1>2, AdvanceIs
<1>12. Drawn' = Drawn
  BY <1>10, <1>11, DrawnNext
<1>13. cfg' = BuildCfg(Drawn')
  BY <1>2, <1>12 DEF GraphInv
<1>14. WellFormed(cfg')
  BY <1>2 DEF GraphInv
<1> QED
  BY <1>13, <1>14 DEF GraphInv

(* The graph has the edges of the branches at every step. *)
LEMMA Graph_Next ==
    LexInv /\ ColonInv /\ InstInv /\ BlocksInv /\ GraphInv /\ ParserNext => GraphInv'
<1> SUFFICES ASSUME LexInv, ColonInv, InstInv, BlocksInv, GraphInv, ParserNext
             PROVE  GraphInv'
  OBVIOUS
<1>1. CASE Top \/ SkipNewline \/ BeginBlock \/ BlockLabel \/ BlockColon \/ BlockNewline
           \/ BeginDef \/ BeginPrint \/ BeginBranch \/ EndBlock \/ Arrow \/ Lhs
           \/ FirstComma \/ ThenLabel \/ SecondComma
  <2>1. pc \notin {"end", "error"} /\ cfg' = cfg /\ mem' = mem /\ insts' = insts
    <3>1. CASE Top \/ SkipNewline \/ BeginBlock \/ BlockLabel \/ BlockColon \/ BlockNewline
      BY <3>1 DEF Top, SkipNewline, BeginBlock, BlockLabel, BlockColon, BlockNewline, Expect,
                  blockVars
    <3>2. CASE BeginDef \/ BeginPrint \/ BeginBranch \/ EndBlock \/ Arrow \/ Lhs
      BY <3>2 DEF BeginDef, BeginPrint, BeginBranch, EndBlock, Arrow, Lhs, Expect, blockVars
    <3>3. CASE FirstComma \/ ThenLabel \/ SecondComma
      BY <3>3 DEF FirstComma, ThenLabel, SecondComma, Expect, blockVars
    <3> QED
      BY <1>1, <3>1, <3>2, <3>3
  <2>2. \E step : step # "end" /\ (Advance(step) \/ Stay(step))
    <3>1. CASE Top \/ SkipNewline \/ BeginBlock \/ BlockLabel \/ BlockColon \/ BlockNewline
      BY <3>1 DEF Top, SkipNewline, BeginBlock, BlockLabel, BlockColon, BlockNewline, Expect
    <3>2. CASE BeginDef \/ BeginPrint \/ BeginBranch \/ EndBlock \/ Arrow \/ Lhs
      BY <3>2 DEF BeginDef, BeginPrint, BeginBranch, EndBlock, Arrow, Lhs, Expect
    <3>3. CASE FirstComma \/ ThenLabel \/ SecondComma
      BY <3>3 DEF FirstComma, ThenLabel, SecondComma, Expect
    <3> QED
      BY <1>1, <3>1, <3>2, <3>3
  <2>3. pc' # "end"
    <3>1. PICK step : step # "end" /\ (Advance(step) \/ Stay(step))
      BY <2>2
    <3>2. pc' \in {step, "error"}
      BY <3>1, AdvanceIs, StayIs
    <3> QED
      BY <3>1, <3>2
  <2> QED
    BY <2>1, <2>3, Graph_Same
<1>2. CASE Operator
  <2>1. /\ pc = "operator" /\ inst' = inst /\ cfg' = cfg /\ mem' = mem /\ insts' = insts
        /\ curr_bb' = curr_bb
    BY <1>2 DEF Operator, blockVars
  <2>2. Targets(inst') = <<>>
    <3>1. inst \in SimpleInst
      BY <2>1 DEF InstInv
    <3> QED
      BY <2>1, <3>1, SimpleIsPlaced
  <2>3. pc' \in {"rhs", "end", "error"}
    <3>1. Advance("rhs") \/ Stay("end") \/ Stay("error")
      BY <1>2 DEF Operator, is_token
    <3> QED
      BY <3>1, AdvanceIs, StayIs
  <2>4. bb_num \in Blocks
    BY <2>1, InsideABlock DEF Inside
  <2> QED
    BY <2>1, <2>2, <2>3, <2>4, Graph_Simple
<1>3. CASE Rhs
  <2>1. pc = "rhs" /\ cfg' = cfg /\ mem' = mem /\ insts' = insts /\ curr_bb' = curr_bb
    BY <1>3 DEF Rhs, blockVars
  <2>2. CASE StartsValue /\ inst.kind = "DEF"
    <3>1. Advance("end") /\ inst' = WithOp(op_add(inst.op.lhs, TokenValue))
      BY <1>3, <2>2 DEF Rhs
    <3>2. inst \in SimpleInst /\ TokenValue \in Value
      BY <2>1, <2>2, TokenIs DEF InstInv
    <3>3. Targets(inst') = <<>>
      BY <2>2, <3>1, <3>2, SecondOperandIs
    <3>4. pc' \in {"end", "error"}
      BY <3>1, AdvanceIs
    <3>5. bb_num \in Blocks
      BY <2>1, InsideABlock DEF Inside
    <3> QED
      BY <2>1, <3>3, <3>4, <3>5, Graph_Simple
  <2>3. CASE ~(StartsValue /\ inst.kind = "DEF")
    <3>1. Stay("error")
      BY <1>3, <2>3 DEF Rhs
    <3>2. pc' # "end"
      BY <3>1, StayIs
    <3> QED
      BY <2>1, <3>2, Graph_Same
  <2> QED
    BY <2>2, <2>3
<1>4. CASE Target
  <2>1. pc = "target" /\ mem' = mem /\ insts' = insts /\ curr_bb' = curr_bb
    BY <1>4 DEF Target
  <2>2. bb_num \in Blocks
    BY <2>1, InsideABlock DEF Inside
  <2>3. CASE is_token("LBL") /\ EdgeAllowed(bb_num, token.val)
             /\ cfg' = AddEdge(cfg, bb_num, token.val)
             /\ inst' = br_uncond(token.val) /\ Advance("end")
    <3>1. token.val \in Blocks
      BY <2>3, TokenIs, AllowedIs
    <3>2. Targets(inst') = <<token.val>>
      BY <2>3, <3>1, JumpIsPlaced
    <3>3. pc' \in {"end", "error"}
      BY <2>3, AdvanceIs
    <3> QED
      BY <2>1, <2>2, <2>3, <3>1, <3>2, <3>3, Graph_Jump
  <2>4. CASE cfg' = cfg /\ (Advance("comma1") \/ Stay("error"))
    <3>1. pc' \in {"comma1", "error"}
      BY <2>4, AdvanceIs, StayIs
    <3> QED
      BY <2>1, <2>4, <3>1, Graph_Same
  <2> QED
    BY <1>4, <2>3, <2>4 DEF Target
<1>5. CASE ElseLabel
  <2>1. pc = "else" /\ mem' = mem /\ insts' = insts /\ curr_bb' = curr_bb
    BY <1>5 DEF ElseLabel
  <2>2. bb_num \in Blocks
    BY <2>1, InsideABlock DEF Inside
  <2>3. CASE is_token("LBL") /\ EdgeAllowed(bb_num, inst.then) /\ EdgeAllowed(bb_num, token.val)
    <3>1. /\ Advance("end") /\ inst' = br_cond(inst.cond_val, inst.then, token.val)
          /\ cfg' = AddEdge(AddEdge(cfg, bb_num, inst.then), bb_num, token.val)
      BY <1>5, <2>3 DEF ElseLabel, BothEdges
    <3>2. inst \in TwoLabels
      BY <2>1 DEF InstInv
    <3>3. inst.cond_val \in Value /\ inst.then \in Nat /\ token.val \in Nat
      BY <2>3, <3>2, TokenIs DEF TwoLabels
    <3>4. inst.then \in Blocks /\ token.val \in Blocks
      BY <2>3, <3>3, AllowedIs
    <3>5. Targets(inst') = <<inst.then, token.val>>
      BY <3>1, <3>3, <3>4, BranchIsPlaced
    <3>6. pc' \in {"end", "error"}
      BY <3>1, AdvanceIs
    <3> QED
      BY <2>1, <2>2, <3>1, <3>4, <3>5, <3>6, Graph_Branch
  <2>4. CASE Stay("error") /\ cfg' = cfg
    <3>1. pc' = "error"
      BY <2>4, StayIs
    <3> QED
      BY <2>1, <2>4, <3>1, Graph_Same
  <2> QED
    BY <1>5, <2>3, <2>4 DEF ElseLabel
<1>6. CASE EndInst
  <2>1. CASE is_token("NL")
    BY <1>6, <2>1, Graph_Put
  <2>2. CASE ~is_token("NL")
    <3>1. Stay("error") /\ cfg' = cfg
      BY <1>6, <2>2 DEF EndInst
    <3>2. pc' = "error"
      BY <3>1, StayIs
    <3>3. WellFormed(cfg')
      BY <3>1 DEF GraphInv
    <3> QED
      BY <3>2, <3>3 DEF GraphInv
  <2> QED
    BY <2>1, <2>2
<1> QED
  BY <1>1, <1>2, <1>3, <1>4, <1>5, <1>6 DEF ParserNext

-----------------------------------------------------------------------------
(* The theorems of the parser *)

(* The empty list holds no nodes. *)
LEMMA Empty_Holds ==
    ASSUME NEW b \in Blocks
    PROVE  Holds(<<>>, NewList, b, NodesOf(<<>>, NewList))
<1>1. Holds(<<>>, NewList, b, <<>>)
  BY DEF Holds, NewList
<1> QED
  BY <1>1, NodesOfIs

(* The parser's invariant holds at the start ... *)
LEMMA Parser_Init == ParserInit => ParserInv
<1> SUFFICES ASSUME ParserInit PROVE ParserInv
  OBVIOUS
<1>1. text \in Seq(Item) /\ count_bbs(text, After(text, 1)) = NBlocks
  BY TextsAssumption DEF ParserInit
<1>2. LexInv
  <2>1. 1 \in 1 .. Len(text) + 1
    BY <1>1
  <2>2. Token(text, 1) \in Item \union {EOI} /\ After(text, 1) \in 1 .. Len(text) + 1
    BY <1>1, <2>1, NextTokenIs
  <2> QED
    BY <1>1, <2>2 DEF LexInv, ParserInit
<1>3. pc \in {"top", "error"} /\ curr_bb = 0 /\ max_reg_used = 0 /\ mem = <<>>
      /\ insts = [b \in Blocks |-> NewList] /\ cfg = NewCfg
  BY DEF ParserInit
<1>4. ColonInv
  <2>1. Left = NBlocks
    BY <1>1 DEF Left, ParserInit
  <2>2. Begun = 0
    BY <1>3 DEF Begun
  <2> QED
    BY <1>3, <2>1, <2>2, NBlocksAssumption DEF ColonInv, Steps, Inside
<1>5. InstInv
  BY <1>3 DEF InstInv
<1>6. Filled(mem, insts)
  <2>1. <<>> \in Seq(InstNodes) /\ Len(<<>>) = 0
    OBVIOUS
  <2>2. NewList \in InstLists
    BY DEF NewList, InstLists, nullptr
  <2>3. \A b \in Blocks : insts[b] = NewList
    BY <1>3
  <2>4. \A b \in Blocks : Holds(mem, insts[b], b, NodesOf(mem, insts[b]))
    BY <1>3, <2>3, Empty_Holds
  <2>5. insts \in [Blocks -> InstLists]
    BY <1>3, <2>2
  <2>6. mem \in Seq(InstNodes) /\ 1 .. Len(mem) = {}
    BY <1>3, <2>1
  <2> QED
    BY <2>4, <2>5, <2>6 DEF Filled
<1>7. BlocksInv
  <2>1. \A b \in Blocks : insts[b].size = 0
    BY <1>3 DEF NewList
  <2> QED
    BY <1>3, <1>6, <2>1 DEF BlocksInv
<1>8. GraphInv
  <2>1. Drawn = Listed
    BY <1>3, DrawnIs
  <2>2. ASSUME NEW b \in Blocks PROVE Listed[b] = <<>>
    <3>1. b >= curr_bb
      BY <1>3, NBlocksAssumption DEF Blocks
    <3> QED
      BY <1>7, <3>1, ListedIs
  <2>3. Listed \in Branches
    BY <1>7, ListedIs
  <2>4. BuildCfg(Listed) = NewCfg
    BY <2>2, <2>3, BuildNothing
  <2>5. WellFormed(cfg)
    BY <1>3, NewCfgWellFormed
  <2> QED
    BY <1>3, <2>1, <2>4, <2>5 DEF GraphInv
<1> QED
  BY <1>2, <1>4, <1>5, <1>7, <1>8 DEF ParserInv

(* ... and while nothing happens. *)
LEMMA Parser_Stutter == ParserInv /\ UNCHANGED parserVars => ParserInv'
<1> SUFFICES ASSUME ParserInv, UNCHANGED parserVars PROVE ParserInv'
  OBVIOUS
<1>1. /\ text' = text /\ input' = input /\ token' = token /\ pc' = pc /\ inst' = inst
      /\ curr_bb' = curr_bb /\ max_reg_used' = max_reg_used /\ mem' = mem /\ insts' = insts
      /\ cfg' = cfg
  BY DEF parserVars, lexVars, blockVars
<1>2. LexInv'
  BY <1>1 DEF ParserInv, LexInv
<1>3. ColonInv'
  <2>1. Begun' = Begun /\ Left' = Left /\ IsColon(token)' = IsColon(token)
    BY <1>1 DEF Begun, Left, IsColon
  <2> QED
    BY <1>1, <2>1 DEF ParserInv, ColonInv
<1>4. InstInv'
  BY <1>1 DEF ParserInv, InstInv
<1>5. BlocksInv'
  BY <1>1 DEF ParserInv, BlocksInv
<1>6. GraphInv'
  <2>1. code' = code /\ bb_num' = bb_num
    BY <1>1 DEF code, bb_num
  <2>2. Drawn' = Drawn
    BY <1>1, <2>1 DEF Drawn
  <2>3. BuildCfg(Drawn') = BuildCfg(Drawn)
    BY <2>2
  <2> QED
    BY <1>1, <2>3 DEF ParserInv, GraphInv
<1> QED
  BY <1>2, <1>3, <1>4, <1>5, <1>6 DEF ParserInv

(* The inductive invariant of parse_procedure holds at every step. *)
THEOREM ParserInvariant == ParserSpec => []ParserInv
<1>1. ParserInit => ParserInv
  BY Parser_Init
<1>2. ParserInv /\ [ParserNext]_parserVars => ParserInv'
  <2>1. CASE ParserNext
    BY <2>1, Lex_Next, Colon_Next, Inst_Next, Blocks_Next, Graph_Next DEF ParserInv
  <2>2. CASE UNCHANGED parserVars
    BY <2>2, Parser_Stutter
  <2> QED
    BY <2>1, <2>2
<1> QED
  BY <1>1, <1>2, PTL DEF ParserSpec

(* Whatever the text, the parser's variables have their types; above all   *)
(* curr_bb stays within the blocks that were counted for it, which is what *)
(* keeps parse_bb within the array of blocks.                              *)
THEOREM ParserTypeCorrect == ParserSpec => []ParserTypeOK
<1>1. ParserInv => ParserTypeOK
  <2> SUFFICES ASSUME ParserInv PROVE ParserTypeOK
    OBVIOUS
  <2>1. pc = "end" => inst \in Instruction
    BY DEF ParserInv, InstInv, PlacedInst
  <2>2. max_reg_used \in Nat /\ WellFormed(cfg)
    BY DEF ParserInv, BlocksInv, GraphInv
  <2>3. LexInv /\ ColonInv
    BY DEF ParserInv
  <2> QED
    BY <2>1, <2>2, <2>3 DEF ParserTypeOK, LexInv, ColonInv, Steps, Inside
<1> QED
  BY <1>1, ParserInvariant, PTL

(* At every step of the parser the list of a block shows, forwards and    *)
(* backwards, its instructions in the order of the text, and every        *)
(* instruction that was put in a list is in one: insert_at_end keeps what *)
(* the iterators of list.h rely on.                                       *)
THEOREM ParserListsInOrder == ParserSpec => []ListsInOrder
<1>1. ParserInv => ListsInOrder
  <2> SUFFICES ASSUME ParserInv PROVE ListsInOrder
    OBVIOUS
  <2>1. Filled(mem, insts)
    BY DEF ParserInv, BlocksInv
  <2>2. mem \in Seq(InstNodes)
    BY <2>1 DEF Filled
  <2>3. ASSUME NEW b \in Blocks
        PROVE  /\ IsLinked(mem, insts[b])
               /\ \A k \in 1 .. insts[b].size : mem[NodesOf(mem, insts[b])[k]].parent = b
               /\ \A k, m \in 1 .. insts[b].size :
                      k < m => NodesOf(mem, insts[b])[k] < NodesOf(mem, insts[b])[m]
    <3> DEFINE l == insts[b]
               w == NodesOf(mem, l)
    <3>1. Holds(mem, l, b, w)
      BY <2>1 DEF Filled
    <3>2. /\ Len(w) \in Nat /\ Len(mem) \in Nat
          /\ \A k \in 1 .. Len(w) : w[k] \in 1 .. Len(mem)
      <4> HIDE DEF l, w
      <4> QED
        BY <2>2, <3>1, HeldNodes
    <3>3. DOMAIN mem = 1 .. Len(mem)
      BY <2>2
    <3> HIDE DEF l
    <3>4. IsLinked(mem, l)
      <4> SUFFICES IF l.size = 0 THEN l.head = nullptr /\ l.tail = nullptr
                   ELSE /\ \A k \in 1 .. l.size : w[k] \in DOMAIN mem
                        /\ w[l.size] = l.tail
                        /\ mem[l.tail].next = nullptr
                        /\ mem[l.head].prev = nullptr
                        /\ \A k \in 2 .. l.size : mem[w[k]].prev = w[k - 1]
        BY DEF IsLinked
      <4> HIDE DEF w
      <4>1. CASE l.size = 0
        BY <3>1, <4>1 DEF Holds
      <4>2. CASE l.size # 0
        <5>1. l.size = Len(w) /\ l.head = w[1] /\ l.tail = w[Len(w)]
          BY <3>1, <4>2 DEF Holds
        <5>2. 1 \in 1 .. Len(w) /\ Len(w) \in 1 .. Len(w)
          BY <3>2, <4>2, <5>1
        <5>3. mem[w[Len(w)]].next = nullptr /\ mem[w[1]].prev = nullptr
          BY <3>1, <5>2 DEF Holds
        <5>4. ASSUME NEW k \in 2 .. Len(w) PROVE mem[w[k]].prev = w[k - 1]
          <6>1. k \in 1 .. Len(w) /\ k # 1
            BY <3>2
          <6> QED
            BY <3>1, <6>1 DEF Holds
        <5> QED
          BY <3>2, <3>3, <4>2, <5>1, <5>3, <5>4
      <4> QED
        BY <4>1, <4>2
    <3> HIDE DEF w
    <3>5. /\ \A k \in 1 .. l.size : mem[w[k]].parent = b
          /\ \A k, m \in 1 .. l.size : k < m => w[k] < w[m]
      BY <3>1 DEF Holds
    <3> QED
      BY <3>4, <3>5 DEF w, l
  <2>4. ASSUME NEW p \in 1 .. Len(mem)
        PROVE  \E b \in Blocks : p \in Range(NodesOf(mem, insts[b]))
    <3>1. mem[p] \in InstNodes
      BY <2>2, ElementOfSeq
    <3> DEFINE b == mem[p].parent
               w == NodesOf(mem, insts[b])
    <3>2. b \in Blocks
      BY <3>1 DEF InstNodes
    <3>3. PICK k \in 1 .. Len(w) : w[k] = p
      BY <2>1 DEF Filled
    <3>4. Holds(mem, insts[b], b, w)
      BY <2>1, <3>2 DEF Filled
    <3> HIDE DEF b
    <3>5. DOMAIN w = 1 .. Len(w)
      <4> HIDE DEF w
      <4> QED
        BY <2>2, <3>4, HeldNodes
    <3>6. p \in Range(w)
      <4> HIDE DEF w
      <4> QED
        BY <3>3, <3>5 DEF Range
    <3> QED
      BY <3>2, <3>6
  <2> QED
    BY <2>3, <2>4 DEF ListsInOrder
<1> QED
  BY <1>1, ParserInvariant, PTL

(* Between two instructions the graph that parse_instruction built edge by  *)
(* edge is the one that the branches in the lists describe, with its        *)
(* successors and predecessors in the order that the passes depend on.      *)
THEOREM ParserCfgFollowsCode == ParserSpec => []CfgFollowsCode
<1>1. ParserInv => CfgFollowsCode
  <2> SUFFICES ASSUME ParserInv, pc \notin {"end", "error"} PROVE cfg = BuildCfg(Listed)
    BY DEF CfgFollowsCode, Listed
  <2>1. Drawn = Listed
    BY DrawnIs
  <2> QED
    BY <2>1 DEF ParserInv, GraphInv
<1> QED
  BY <1>1, ParserInvariant, PTL

-----------------------------------------------------------------------------
(* Termination: the parser has less of the text left after each step, or, *)
(* if the step took no token, less to do before it takes one.             *)

(* A step that takes no token goes to one that comes before it here. *)
Rank ==
    IF pc \in {"done", "error"} THEN 0
    ELSE IF pc = "body" THEN 4
    ELSE IF pc = "top" THEN 3
    ELSE IF pc \in {"blank", "operator"} THEN 2 ELSE 1

TextLeft ==
    <<Len(text) + 1 - input, IF token.kind = "EOI" THEN 0 ELSE 1, Rank>>

LEMMA TakesOrTurns ==
    ASSUME ParserNext
    PROVE  \/ token.kind # "EOI" /\ \E step \in Steps : Advance(step)
           \/ UNCHANGED lexVars /\ Rank' < Rank
<1>1. CASE Top \/ BeginBlock \/ EndBlock
  BY <1>1 DEF Top, BeginBlock, EndBlock, Stay, Rank
<1>2. CASE SkipNewline \/ BeginDef \/ BeginPrint \/ BeginBranch
  BY <1>2 DEF SkipNewline, BeginDef, BeginPrint, BeginBranch, is_token, Steps, Inside
<1>3. CASE BlockLabel
  BY <1>3 DEF BlockLabel, is_token, Stay, Rank, Steps, Inside
<1>4. CASE BlockColon \/ BlockNewline
  BY <1>4 DEF BlockColon, BlockNewline, Expect, is_token, Stay, Rank, Steps, Inside
<1>5. CASE Arrow \/ FirstComma \/ SecondComma
  BY <1>5 DEF Arrow, FirstComma, SecondComma, Expect, is_token, Stay, Rank, Steps, Inside
<1>6. CASE Lhs
  BY <1>6 DEF Lhs, StartsValue, Stay, Rank, Steps, Inside
<1>7. CASE Operator
  <2>1. \/ token.kind = "PLUS" /\ Advance("rhs")
        \/ pc = "operator" /\ (Stay("end") \/ Stay("error"))
    BY <1>7 DEF Operator, is_token
  <2>2. CASE token.kind = "PLUS" /\ Advance("rhs")
    BY <2>2 DEF Steps, Inside
  <2>3. CASE pc = "operator" /\ (Stay("end") \/ Stay("error"))
    BY <2>3 DEF Stay, Rank
  <2> QED
    BY <2>1, <2>2, <2>3
<1>8. CASE Rhs
  BY <1>8 DEF Rhs, StartsValue, Stay, Rank, Steps, Inside
<1>9. CASE Target
  BY <1>9 DEF Target, StartsValue, is_token, Stay, Rank, Steps, Inside
<1>10. CASE ThenLabel \/ ElseLabel
  BY <1>10 DEF ThenLabel, ElseLabel, is_token, Stay, Rank, Steps, Inside
<1>11. CASE EndInst
  BY <1>11 DEF EndInst, is_token, Stay, Rank, Steps, Inside
<1> QED
  BY <1>1, <1>2, <1>3, <1>4, <1>5, <1>6, <1>7, <1>8, <1>9, <1>10, <1>11 DEF ParserNext

LEMMA ParserRunsDown ==
    ASSUME LexInv, ParserNext
    PROVE  <<TextLeft', TextLeft>> \in Lexicographic(3)
<1> DEFINE k == Len(text) + 1 - input
           k1 == Len(text) + 1 - input'
           e == IF token.kind = "EOI" THEN 0 ELSE 1
           e1 == IF token'.kind = "EOI" THEN 0 ELSE 1
           r == Rank
           r1 == Rank'
<1>1. /\ text \in Seq(Item) /\ Len(text) \in Nat
      /\ input \in 1 .. Len(text) + 1
  BY DEF LexInv
<1>2. r \in Nat /\ r1 \in Nat /\ e \in Nat /\ e1 \in Nat
  BY DEF Rank
<1>3. 0 \in Nat /\ 1 \in Nat /\ 0 < 1
  OBVIOUS
<1>4. k \in Nat
  BY <1>1
<1>5. TextLeft = <<k, e, r>>
  BY DEF TextLeft
<1>6. CASE token.kind # "EOI" /\ \E step \in Steps : Advance(step)
  <2>1. /\ text' = text /\ input' = After(text, input) /\ token' = Token(text, input)
    BY <1>6 DEF Advance
  <2>2. input' \in input .. Len(text) + 1
    BY <1>1, <2>1, NextTokenIs
  <2>3. k1 \in Nat /\ TextLeft' = <<k1, e1, r1>> /\ e = 1
    BY <1>1, <1>6, <2>1, <2>2 DEF TextLeft
  <2>4. k1 < k \/ (k1 = k /\ e1 < e)
    <3>1. CASE TokenAt(text, input) > Len(text)
      <4>1. token' = EOI
        BY <2>1, <3>1 DEF Token
      <4>2. e1 = 0
        BY <4>1 DEF EOI
      <4>3. k1 <= k
        BY <1>1, <2>2
      <4> HIDE DEF k, k1, e, e1
      <4> QED
        BY <1>4, <2>3, <4>2, <4>3
    <3>2. CASE ~(TokenAt(text, input) > Len(text))
      <4>1. input' = TokenAt(text, input) + 1
        BY <2>1, <3>2 DEF After
      <4>2. TokenAt(text, input) \in input .. Len(text) + 1
        BY <1>1, TokenAtIs
      <4> QED
        BY <1>1, <4>1, <4>2
    <3> QED
      BY <3>1, <3>2
  <2> HIDE DEF k, k1, e, e1, r, r1
  <2> QED
    BY <1>2, <1>4, <1>5, <2>3, <2>4, LowerOfThree
<1>7. CASE UNCHANGED lexVars /\ Rank' < Rank
  <2>1. TextLeft' = <<k, e, r1>> /\ r1 < r
    BY <1>7 DEF TextLeft, lexVars
  <2> HIDE DEF k, k1, e, e1, r, r1
  <2> QED
    BY <1>2, <1>4, <1>5, <2>1, LowerOfThree
<1> QED
  BY <1>6, <1>7, TakesOrTurns

(* parse_procedure cannot go on for ever on any text: a step takes a token  *)
(* that is there, or leads to a step that takes one or that ends the        *)
(* program, so the loops over blocks and newlines stop with the input.      *)
ParserDescends == [][(<<TextLeft', TextLeft>> \in Lexicographic(3))]_parserVars

THEOREM ParserCannotGoOn == ParserSpec => ParserDescends
<1>1. ParserInv /\ [ParserNext]_parserVars
        => [(<<TextLeft', TextLeft>> \in Lexicographic(3))]_parserVars
  BY ParserRunsDown DEF ParserInv
<1> QED
  BY <1>1, ParserInvariant, PTL DEF ParserSpec, ParserDescends

=============================================================================

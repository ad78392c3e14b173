----------------------------- MODULE ReaderProofs -----------------------------
(***************************************************************************)
(* InputBuffer and BufferedInputStream, for any file, any counts and a     *)
(* buffer of any size: each implements ByteStream. ReaderInv says that the *)
(* buffer holds the bytes of the file in front of the stream's position    *)
(* and that `got' is what the call has read so far, BufferedInv adds the   *)
(* skips that the stream below makes piece by piece. One lemma per turn of *)
(* a loop shows that the invariant is kept and that ByteStream sees the    *)
(* turn as a stutter or as one of its own steps.                           *)
(*                                                                         *)
(* Table, for any keys, sizes of values and block sizes: lookups find what *)
(* was added, whichever Append fails and wherever building ends. The order *)
(* of keys and the keys of the index come first, then a block: what its    *)
(* entries hold (Encodes), how a builder adds to it, how an iterator moves *)
(* in it (At), and that the two searches of block.cc end where they        *)
(* should. TableInv then says of a builder that the blocks in its file     *)
(* hold the entries in order, cut at c[1], c[2], ..., with an index key    *)
(* between every two of them but for the block written last, which waits   *)
(* for its index entry; and of a closed table that its file has no footer  *)
(* or holds everything.                                                    *)
(*                                                                         *)
(* The text of a line, the searches and the walk of an iterator are        *)
(* recursive functions; they have values because Iteration builds them     *)
(* turn by turn, and what holds of them is shown by Induction over their   *)
(* domain, a fact about sets of numbers.                                   *)
(***************************************************************************)
EXTENDS Readers, SequenceTheorems, WellFoundedInduction, TLAPS

(* Sequences of bytes. *)
Units == Seq(Nat)

(* A set of numbers that is not empty has a least one. *)
LEMMA LeastNumber ==
  ASSUME NEW S, S \subseteq Nat, S # {}
  PROVE  \E x \in S : \A y \in S : x <= y
<1> DEFINE Less == {ss \in Nat \X Nat : ss[1] < ss[2]}
<1>1. IsWellFoundedOn(Less, Nat)
  <2>1. Less = OpToRel(<, Nat)
    BY Zenon DEF OpToRel
  <2> QED
    BY <2>1, NatLessThanWellFounded, Zenon
<1>2. PICK x \in S : \A y \in S : ~ <<y, x>> \in Less
  <2> HIDE DEF Less
  <2> QED
    BY <1>1, WFMin
<1>3. ASSUME NEW y \in S PROVE x <= y
  <2>1. x \in Nat /\ y \in Nat
    OBVIOUS
  <2>2. y < x => <<y, x>> \in Less
    BY <2>1
  <2> HIDE DEF Less
  <2> QED
    BY <1>2, <2>1, <2>2
<1> QED
  BY <1>3

(* Induction over the numbers, as a fact about sets: what contains 0 and   *)
(* with each number the next contains them all.                            *)
LEMMA Induction ==
  ASSUME NEW S, 0 \in S, \A k \in Nat : k \in S => k + 1 \in S
  PROVE  \A k \in Nat : k \in S
<1> SUFFICES ASSUME NEW k \in Nat, k \notin S PROVE FALSE
  OBVIOUS
<1> DEFINE Rest == {x \in Nat : x \notin S}
<1>1. PICK x \in Rest : \A y \in Rest : x <= y
  BY LeastNumber
<1>2. x \in Nat /\ x # 0
  OBVIOUS
<1>3. x - 1 \in Nat /\ (x - 1) + 1 = x /\ ~(x <= x - 1)
  BY <1>2
<1>4. x - 1 \in S
  BY <1>1, <1>3
<1>5. x \in S
  BY <1>3, <1>4
<1> QED
  BY <1>5

(* The values g of a loop of n turns: b before the first turn, step[i] of  *)
(* the value before turn i behind it.                                      *)
Iterates(g, n, b, step) == g[0] = b /\ \A i \in 1 .. n : g[i] = step[i][g[i - 1]]

(* Every loop has its values. *)
LEMMA Iteration ==
  ASSUME NEW n \in Nat, NEW V, NEW b \in V, NEW step \in [1 .. n -> [V -> V]]
  PROVE  \E g \in [0 .. n -> V] : Iterates(g, n, b, step)
<1> DEFINE Good(k, g) == g[0] = b /\ \A i \in 1 .. k : g[i] = step[i][g[i - 1]]
           S == {k \in Nat : k <= n => \E g \in [0 .. k -> V] : Good(k, g)}
<1>1. 0 \in S
  <2> DEFINE g == [i \in 0 .. 0 |-> b]
  <2>1. g \in [0 .. 0 -> V] /\ Good(0, g)
    OBVIOUS
  <2> HIDE DEF g, Good
  <2> QED
    BY <2>1
<1>2. ASSUME NEW k \in Nat, k \in S PROVE k + 1 \in S
  <2> SUFFICES ASSUME k + 1 <= n PROVE \E h \in [0 .. k + 1 -> V] : Good(k + 1, h)
    OBVIOUS
  <2>1. PICK g \in [0 .. k -> V] : Good(k, g)
    BY <1>2
  <2>2. g[k] \in V /\ step[k + 1] \in [V -> V]
    OBVIOUS
  <2> DEFINE v == step[k + 1][g[k]]
  <2>3. v \in V
    BY <2>2
  <2> HIDE DEF v
  <2> DEFINE h == [i \in 0 .. k + 1 |-> IF i = k + 1 THEN v ELSE g[i]]
  <2>4. h \in [0 .. k + 1 -> V]
    BY <2>3
  <2>5. h[0] = b
    BY <2>1
  <2>6. ASSUME NEW i \in 1 .. k + 1 PROVE h[i] = step[i][h[i - 1]]
    <3>1. CASE i = k + 1
      <4>1. h[i] = v /\ h[i - 1] = g[k]
        BY <3>1
      <4> HIDE DEF h
      <4> QED
        BY <3>1, <4>1 DEF v
    <3>2. CASE i # k + 1
      <4>1. i \in 1 .. k /\ i - 1 \in 0 .. k
        BY <3>2
      <4>2. h[i] = g[i] /\ h[i - 1] = g[i - 1]
        BY <3>2, <4>1
      <4> HIDE DEF h
      <4> QED
        BY <2>1, <4>1, <4>2
    <3> QED
      BY <3>1, <3>2
  <2>7. Good(k + 1, h)
    BY <2>5, <2>6
  <2> QED
    BY <2>4, <2>7
<1>3. \A k \in Nat : k \in S
  <2> HIDE DEF S
  <2> QED
    BY <1>1, <1>2, Induction
<1> QED
  BY <1>3 DEF Iterates

(* What ByteStream's ReadLine answers for the bytes of a line              *)
(* (inputbuffer.cc:46-49).                                                 *)
Text(bytes) == IB!Stream!Text(bytes)

(* The recursive function Text is the last value of. *)
Texts(s) ==
  CHOOSE text : text = [i \in 0 .. Len(s) |->
                          IF i = 0 THEN <<>>
                          ELSE IF s[i] = CR THEN text[i - 1] ELSE Append(text[i - 1], s[i])]

(* The text of a line is gathered byte by byte, leaving out '\r'           *)
(* (inputbuffer.cc:46-49).                                                 *)
LEMMA TextsIs ==
  ASSUME NEW s \in Units
  PROVE  /\ Text(s) = Texts(s)[Len(s)]
         /\ Texts(s) \in [0 .. Len(s) -> Units]
         /\ Texts(s)[0] = <<>>
         /\ \A i \in 1 .. Len(s) :
              Texts(s)[i] = IF s[i] = CR THEN Texts(s)[i - 1] ELSE Append(Texts(s)[i - 1], s[i])
<1>1. Len(s) \in Nat /\ \A i \in 1 .. Len(s) : s[i] \in Nat
  BY LenProperties DEF Units
<1> DEFINE Is(t) == t = [i \in 0 .. Len(s) |->
                          IF i = 0 THEN <<>>
                          ELSE IF s[i] = CR THEN t[i - 1] ELSE Append(t[i - 1], s[i])]
           step == [i \in 1 .. Len(s) |-> [t \in Units |-> IF s[i] = CR THEN t ELSE Append(t,
               s[i])]]
<1>2. step \in [1 .. Len(s) -> [Units -> Units]]
  <2>1. \A i \in 1 .. Len(s), t \in Units : Append(t, s[i]) \in Units
    BY <1>1, AppendProperties DEF Units
  <2> QED
    BY <2>1
<1>3. <<>> \in Units
  BY DEF Units
<1>4. PICK g \in [0 .. Len(s) -> Units] :
             g[0] = <<>> /\ \A i \in 1 .. Len(s) : g[i] = step[i][g[i - 1]]
  <2>1. PICK n \in Nat : n = Len(s)
    BY <1>1
  <2>2. step \in [1 .. n -> [Units -> Units]]
    BY <1>2, <2>1
  <2> HIDE DEF step
  <2>3. \E g \in [0 .. n -> Units] : Iterates(g, n, <<>>, step)
    BY <1>3, <2>2, Iteration
  <2> QED
    BY <2>1, <2>3 DEF Iterates
<1>5. \A i \in 1 .. Len(s) : g[i] = IF s[i] = CR THEN g[i - 1] ELSE Append(g[i - 1], s[i])
  <2> SUFFICES ASSUME NEW i \in 1 .. Len(s)
               PROVE  g[i] = IF s[i] = CR THEN g[i - 1] ELSE Append(g[i - 1], s[i])
    OBVIOUS
  <2>1. i - 1 \in 0 .. Len(s)
    BY <1>1
  <2>2. g[i - 1] \in Units
    BY <2>1
  <2>3. g[i] = step[i][g[i - 1]]
    BY <1>4
  <2> QED
    BY <2>2, <2>3
<1>6. Is(g)
  <2> DEFINE h == [i \in 0 .. Len(s) |->
                    IF i = 0 THEN <<>>
                    ELSE IF s[i] = CR THEN g[i - 1] ELSE Append(g[i - 1], s[i])]
  <2>1. ASSUME NEW i \in 0 .. Len(s) PROVE g[i] = h[i]
    <3>1. i = 0 \/ i \in 1 .. Len(s)
      BY <1>1
    <3>2. CASE i = 0
      BY <1>4, <3>2
    <3>3. CASE i \in 1 .. Len(s)
      <4>1. h[i] = IF s[i] = CR THEN g[i - 1] ELSE Append(g[i - 1], s[i])
        BY <3>3, <1>1
      <4> HIDE DEF h
      <4> QED
        BY <4>1, <3>3, <1>5
    <3> QED
      BY <3>1, <3>2, <3>3
  <2>2. DOMAIN g = 0 .. Len(s) /\ g = [i \in 0 .. Len(s) |-> g[i]]
    BY <1>4
  <2>3. DOMAIN h = 0 .. Len(s) /\ h = [i \in 0 .. Len(s) |-> h[i]]
    OBVIOUS
  <2>4. g = h
    <3> HIDE DEF h
    <3> QED
      BY <2>1, <2>2, <2>3
  <2> QED
    BY <2>4
<1>7. Is(Texts(s))
  <2>1. \E t : Is(t)
    BY <1>6
  <2>2. Texts(s) = CHOOSE t : Is(t)
    BY DEF Texts
  <2> HIDE DEF Is
  <2> QED
    BY <2>1, <2>2
<1>8. Texts(s)[0] = <<>>
  BY <1>1, <1>7
<1>9. \A i \in 1 .. Len(s) :
          Texts(s)[i] = IF s[i] = CR THEN Texts(s)[i - 1] ELSE Append(Texts(s)[i - 1], s[i])
  <2> DEFINE u == Texts(s)
  <2> HIDE DEF u
  <2>1. Is(u)
    BY <1>7 DEF u
  <2>2. ASSUME NEW i \in 1 .. Len(s)
        PROVE  u[i] = IF s[i] = CR THEN u[i - 1] ELSE Append(u[i - 1], s[i])
    <3>1. i \in 0 .. Len(s) /\ i # 0
      BY <1>1
    <3>2. u[i] = IF i = 0 THEN <<>> ELSE IF s[i] = CR THEN u[i - 1] ELSE Append(u[i - 1], s[i])
      BY <2>1, <3>1, Zenon
    <3> QED
      BY <3>1, <3>2
  <2> QED
    BY <2>2 DEF u
<1>10. Texts(s) \in [0 .. Len(s) -> Units]
  <2> DEFINE S == {k \in Nat : k <= Len(s) => Texts(s)[k] = g[k]}
  <2>1. 0 \in S
    BY <1>4, <1>8
  <2>2. \A k \in Nat : k \in S => k + 1 \in S
    BY <1>5, <1>9
  <2>3. \A k \in Nat : k \in S
    <3> HIDE DEF S
    <3> QED
      BY <2>1, <2>2, Induction
  <2>4. \A k \in 0 .. Len(s) : Texts(s)[k] \in Units
    BY <2>3
  <2>5. DOMAIN Texts(s) = 0 .. Len(s) /\ Texts(s) = [k \in 0 .. Len(s) |-> Texts(s)[k]]
    BY <1>7, Zenon
  <2> QED
    BY <2>4, <2>5
<1>11. Text(s) = Texts(s)[Len(s)]
  BY DEF Text, Texts, IB!Stream!Text
<1> QED
  BY <1>8, <1>9, <1>10, <1>11

(* No bytes, no text. *)
LEMMA TextEmpty == Text(<<>>) = <<>>
<1>1. <<>> \in Units /\ Len(<<>>) = 0
  BY DEF Units
<1> QED
  BY <1>1, TextsIs

(* The text of a line consists of bytes. *)
LEMMA TextTyped == \A s \in Units : Text(s) \in Units
<1> SUFFICES ASSUME NEW s \in Units PROVE Text(s) \in Units
  OBVIOUS
<1>1. Len(s) \in 0 .. Len(s)
  BY LenProperties DEF Units
<1> QED
  BY <1>1, TextsIs

(* A byte more adds itself to the text unless it is '\r'                   *)
(* (inputbuffer.cc:46-49).                                                 *)
LEMMA TextGrows ==
  ASSUME NEW s \in Units, NEW c \in Nat
  PROVE  Text(Append(s, c)) = IF c = CR THEN Text(s) ELSE Append(Text(s), c)
<1> DEFINE n == Len(s)
           t == Append(s, c)
<1>1. /\ t \in Units /\ Len(t) = n + 1 /\ n \in Nat
      /\ \A i \in 1 .. n : t[i] = s[i]
      /\ t[n + 1] = c
  BY AppendProperties, LenProperties DEF Units
<1> HIDE DEF t, n
<1> DEFINE S == {k \in Nat : k <= n => Texts(t)[k] = Texts(s)[k]}
<1>2. 0 \in S
  BY <1>1, TextsIs
<1>3. ASSUME NEW k \in Nat, k \in S PROVE k + 1 \in S
  <2> SUFFICES ASSUME k + 1 <= n PROVE Texts(t)[k + 1] = Texts(s)[k + 1]
    OBVIOUS
  <2>1. Texts(t)[k] = Texts(s)[k]
    BY <1>3, <1>1
  <2>2. k + 1 \in 1 .. n /\ k + 1 \in 1 .. n + 1 /\ (k + 1) - 1 = k
    BY <1>1
  <2>3. Texts(t)[k + 1] = IF t[k + 1] = CR THEN Texts(t)[k] ELSE Append(Texts(t)[k], t[k + 1])
    BY <2>2, <1>1, TextsIs
  <2>4. Texts(s)[k + 1] = IF s[k + 1] = CR THEN Texts(s)[k] ELSE Append(Texts(s)[k], s[k + 1])
    BY <2>2, TextsIs DEF n
  <2> QED
    BY <2>1, <2>2, <2>3, <2>4, <1>1
<1>4. \A k \in Nat : k \in S
  <2> HIDE DEF S
  <2> QED
    BY <1>2, <1>3, Induction
<1>5. Texts(t)[n] = Texts(s)[n]
  BY <1>1, <1>4
<1>6. n + 1 \in 1 .. n + 1 /\ (n + 1) - 1 = n
  BY <1>1
<1>7. Texts(t)[n + 1] = IF t[n + 1] = CR THEN Texts(t)[n] ELSE Append(Texts(t)[n], t[n + 1])
  BY <1>1, <1>6, TextsIs
<1>8. Text(t) = Texts(t)[n + 1] /\ Text(s) = Texts(s)[n]
  BY <1>1, TextsIs DEF n
<1> QED
  BY <1>1, <1>5, <1>7, <1>8 DEF t

(* What the readers' constants are assumed to be (StorageAssumption). *)
StreamAssumption ==
  /\ Files \subseteq Units
  /\ Counts \subseteq Int
  /\ LF \in Nat
  /\ BufferSize \in Nat \ {0}
  /\ VarintMax \in Nat \ {0}
  /\ MaxSkip \in Nat \ {0}

(* The bytes s are those of the file behind position a. *)
Lies(s, a) ==
  /\ s \in Units
  /\ s # <<>> => a + Len(s) <= Len(file)
  /\ \A i \in 1 .. Len(s) : s[i] = file[a + i]

(* What a read may report. *)
Statuses == {"OK", "OUT_OF_RANGE", "IO_ERROR"}

(* The length of a file is a number. *)
LEMMA FileSize == ASSUME file \in Units PROVE Len(file) \in Nat
BY LenProperties DEF Units

(* A part of what lies in the file. *)
Part(s, p, k) == SubSeq(s, p + 1, p + k)

(* A part of what lies in the file does so, further behind. *)
LEMMA PartLies ==
  ASSUME file \in Units, NEW a \in Nat, NEW s, Lies(s, a),
         NEW p \in Nat, NEW k \in Nat, p + k <= Len(s)
  PROVE  Lies(Part(s, p, k), a + p) /\ Len(Part(s, p, k)) = k
<1> DEFINE t == SubSeq(s, p + 1, p + k)
<1>1. Len(s) \in Nat /\ s \in Units /\ \A i \in 1 .. Len(s) : s[i] \in Nat
  BY LenProperties DEF Units, Lies
<1>2. \A i \in p + 1 .. p + k : s[i] \in Nat
  BY <1>1
<1>3. /\ t \in Seq(Nat)
      /\ Len(t) = IF p + 1 <= p + k THEN (p + k) - (p + 1) + 1 ELSE 0
      /\ \A i \in 1 .. (p + k) - (p + 1) + 1 : t[i] = s[p + 1 + i - 1]
  <2>1. p + 1 \in Int /\ p + k \in Int
    OBVIOUS
  <2>2. \A m \in Int, n \in Int :
          (\A i \in m .. n : s[i] \in Nat) =>
            /\ SubSeq(s, m, n) \in Seq(Nat)
            /\ Len(SubSeq(s, m, n)) = IF m <= n THEN n - m + 1 ELSE 0
            /\ \A i \in 1 .. n - m + 1 : SubSeq(s, m, n)[i] = s[m + i - 1]
    BY SubSeqProperties
  <2> QED
    BY <2>1, <2>2, <1>2
<1>4. Len(t) = k /\ t \in Units
  BY <1>3 DEF Units
<1> HIDE DEF t
<1>5. ASSUME NEW i \in 1 .. k PROVE t[i] = s[p + i]
  <2>1. i \in 1 .. (p + k) - (p + 1) + 1 /\ p + 1 + i - 1 = p + i
    OBVIOUS
  <2> QED
    BY <1>3, <2>1
<1>6. \A i \in 1 .. k : p + i \in 1 .. Len(s) /\ s[p + i] = file[a + (p + i)] /\ a + (p + i) = (a + p) + i
  BY <1>1 DEF Lies
<1>7. \A i \in 1 .. k : t[i] = file[(a + p) + i]
  BY <1>5, <1>6
<1>8. t # <<>> => (a + p) + k <= Len(file)
  <2>1. ASSUME t # <<>> PROVE k > 0
    BY <2>1, <1>4, EmptySeq DEF Units
  <2>2. ASSUME k > 0 PROVE s # <<>>
    BY <2>2, <1>1, EmptySeq DEF Units
  <2> QED
    BY <2>1, <2>2, <1>1, FileSize DEF Lies
<1> QED
  BY <1>4, <1>7, <1>8 DEF Lies, t, Part

(* ... and its first bytes. *)
LEMMA PrefixLies ==
  ASSUME file \in Units, NEW a \in Nat, NEW s, Lies(s, a), NEW k \in Nat, k <= Len(s)
  PROVE  Lies(SubSeq(s, 1, k), a) /\ Len(SubSeq(s, 1, k)) = k
<1>1. PICK z \in Nat : z = 0
  OBVIOUS
<1>2. z + k <= Len(s) /\ z + 1 = 1 /\ z + k = k /\ a + z = a
  BY <1>1
<1>3. Lies(Part(s, z, k), a + z) /\ Len(Part(s, z, k)) = k
  BY <1>2, PartLies
<1> QED
  BY <1>2, <1>3 DEF Part

(* What lies behind what lies in the file makes it longer. *)
LEMMA LiesLonger ==
  ASSUME file \in Units, NEW a \in Nat, NEW s, Lies(s, a), NEW t, Lies(t, a + Len(s))
  PROVE  Lies(s \o t, a) /\ Len(s \o t) = Len(s) + Len(t)
<1>1. /\ s \in Units /\ t \in Units /\ Len(s) \in Nat /\ Len(t) \in Nat
  BY LenProperties DEF Units, Lies
<1>2. /\ s \o t \in Units
      /\ Len(s \o t) = Len(s) + Len(t)
      /\ \A i \in 1 .. Len(s) + Len(t) : (s \o t)[i] = IF i <= Len(s) THEN s[i] ELSE t[i - Len(s)]
  BY <1>1, ConcatProperties DEF Units
<1> DEFINE u == s \o t
<1> HIDE DEF u
<1>3. ASSUME NEW i \in 1 .. Len(u) PROVE u[i] = file[a + i]
  <2>1. CASE i <= Len(s)
    BY <2>1, <1>1, <1>2, <1>3 DEF u, Lies
  <2>2. CASE i > Len(s)
    <3>1. i - Len(s) \in 1 .. Len(t) /\ (a + Len(s)) + (i - Len(s)) = a + i
      BY <2>2, <1>1, <1>2 DEF u
    <3>2. u[i] = t[i - Len(s)]
      BY <2>2, <1>1, <1>2 DEF u
    <3> QED
      BY <3>1, <3>2 DEF Lies
  <2> QED
    BY <2>1, <2>2, <1>1, <1>2 DEF u
<1>4. ASSUME u # <<>> PROVE a + Len(u) <= Len(file)
  <2>1. CASE t = <<>>
    <3>1. u = s
      BY <2>1, <1>1, ConcatEmptySeq DEF u, Units
    <3> QED
      BY <3>1, <1>4 DEF Lies
  <2>2. CASE t # <<>>
    BY <2>2, <1>1, <1>2, FileSize DEF u, Lies
  <2> QED
    BY <2>1, <2>2
<1> QED
  BY <1>2, <1>3, <1>4 DEF Lies, u

(* ... and so does the next byte. *)
LEMMA LiesOneMore ==
  ASSUME file \in Units, NEW a \in Nat, NEW s, Lies(s, a), NEW c,
         a + Len(s) < Len(file), c = file[a + Len(s) + 1]
  PROVE  Lies(Append(s, c), a) /\ Len(Append(s, c)) = Len(s) + 1 /\ c \in Nat
<1>1. s \in Units /\ Len(s) \in Nat /\ Len(file) \in Nat
  BY LenProperties DEF Units, Lies
<1>2. c \in Nat
  <2>1. a + Len(s) + 1 \in 1 .. Len(file)
    BY <1>1
  <2> QED
    BY <2>1, ElementOfSeq DEF Units
<1>3. /\ Append(s, c) \in Units
      /\ Len(Append(s, c)) = Len(s) + 1
      /\ \A i \in 1 .. Len(s) : Append(s, c)[i] = s[i]
      /\ Append(s, c)[Len(s) + 1] = c
  BY <1>1, <1>2, AppendProperties DEF Units
<1> DEFINE u == Append(s, c)
<1> HIDE DEF u
<1>4. ASSUME NEW i \in 1 .. Len(s) + 1 PROVE u[i] = file[a + i]
  <2>1. CASE i \in 1 .. Len(s)
    BY <2>1, <1>3 DEF u, Lies
  <2>2. CASE i = Len(s) + 1
    <3>1. a + i = a + Len(s) + 1
      BY <2>2, <1>1
    <3> QED
      BY <2>2, <3>1, <1>3 DEF u
  <2> QED
    BY <2>1, <2>2, <1>1
<1>5. a + (Len(s) + 1) <= Len(file)
  BY <1>1
<1> QED
  BY <1>2, <1>3, <1>4, <1>5 DEF Lies, u

(* What lies at the same place and is as long is the same. *)
LEMMA LiesEqual ==
  ASSUME file \in Units, NEW a \in Nat, NEW s, Lies(s, a), NEW t, Lies(t, a), Len(s) = Len(t)
  PROVE  s = t
<1>1. s \in Seq(Nat) /\ t \in Seq(Nat)
  BY DEF Units, Lies
<1>2. \A i \in 1 .. Len(s) : s[i] = t[i]
  BY DEF Lies
<1> QED
  BY <1>1, <1>2, SeqEqual

(* A part of the file lies in it. *)
LEMMA FilePart ==
  ASSUME file \in Units, NEW a \in Nat, NEW e \in Nat, e <= Len(file)
  PROVE  /\ Lies(SubSeq(file, a + 1, e), a)
         /\ Len(SubSeq(file, a + 1, e)) = IF a <= e THEN e - a ELSE 0
<1>1. Len(file) \in Nat /\ \A i \in 1 .. Len(file) : file[i] \in Nat
  BY LenProperties DEF Units
<1> DEFINE t == SubSeq(file, a + 1, e)
<1>2. /\ t \in Seq(Nat)
      /\ Len(t) = IF a + 1 <= e THEN e - (a + 1) + 1 ELSE 0
      /\ \A i \in 1 .. e - (a + 1) + 1 : t[i] = file[(a + 1) + i - 1]
  <2>1. a + 1 \in Int /\ e \in Int /\ \A i \in a + 1 .. e : file[i] \in Nat
    BY <1>1
  <2>2. \A m \in Int, n \in Int :
          (\A i \in m .. n : file[i] \in Nat) =>
            /\ SubSeq(file, m, n) \in Seq(Nat)
            /\ Len(SubSeq(file, m, n)) = IF m <= n THEN n - m + 1 ELSE 0
            /\ \A i \in 1 .. n - m + 1 : SubSeq(file, m, n)[i] = file[m + i - 1]
    BY SubSeqProperties
  <2> QED
    BY <2>1, <2>2
<1>3. Len(t) = IF a <= e THEN e - a ELSE 0
  BY <1>2
<1>4. \A i \in 1 .. Len(t) : t[i] = file[a + i]
  BY <1>2, <1>3
<1> HIDE DEF t
<1>5. t # <<>> => a + Len(t) <= Len(file)
  <2>1. ASSUME t # <<>> PROVE Len(t) \in Nat \ {0}
    BY <2>1, <1>2, EmptySeq
  <2> QED
    BY <2>1, <1>3, <1>1
<1>6. Lies(t, a)
  BY <1>2, <1>4, <1>5 DEF Lies, Units
<1> QED
  BY <1>3, <1>6 DEF t

(* What a refill may bring, as the loops use it. *)
Refill(r) ==
  /\ r.status \in Statuses
  /\ Lies(r.data, filePos)
  /\ r.at = filePos + Len(r.data)
  /\ r.data = <<>> => r.status # "OK"
  /\ r.status = "OUT_OF_RANGE" => r.at >= Len(file)

(* RandomAccessFile::Read brings bytes of the file, all that were asked    *)
(* for when it says OK, and with OUT_OF_RANGE fewer, up to the end.        *)
LEMMA ReadBrings ==
  ASSUME file \in Units, NEW a \in Nat, NEW n \in Nat \ {0}
  PROVE  \A r \in IB!FileRead(file, a, n) \cup BS!FileRead(file, a, n) :
           /\ r.status \in Statuses
           /\ Lies(r.data, a)
           /\ Len(r.data) <= n
           /\ r.status = "OK" => Len(r.data) = n
           /\ r.status = "OUT_OF_RANGE" => a + Len(r.data) >= Len(file) /\ Len(r.data) # n
<1> DEFINE m == Len(file)
           e == IF a + n <= m THEN a + n ELSE m
           there == SubSeq(file, a + 1, e)
           Good(r) == /\ r.status \in Statuses
                      /\ Lies(r.data, a)
                      /\ Len(r.data) <= n
                      /\ r.status = "OK" => Len(r.data) = n
                      /\ r.status = "OUT_OF_RANGE" => a + Len(r.data) >= m /\ Len(r.data) # n
<1>1. m \in Nat
  BY FileSize
<1>2. e \in Nat /\ e <= m
  BY <1>1
<1>3. /\ Lies(there, a)
      /\ Len(there) = IF a <= e THEN e - a ELSE 0
  <2> HIDE DEF e
  <2> QED
    BY <1>2, FilePart
<1> DEFINE k0 == Len(there)
<1>4. /\ k0 \in Nat /\ k0 <= n
      /\ k0 # n => a + k0 >= m
  <2> HIDE DEF there
  <2> QED
    BY <1>1, <1>3
<1> HIDE DEF e, there
<1>5. Good([status |-> IF k0 = n THEN "OK" ELSE "OUT_OF_RANGE", data |-> there])
  BY <1>3, <1>4 DEF Statuses
<1>6. ASSUME NEW k \in Nat, k <= k0
      PROVE  Good([status |-> "IO_ERROR", data |-> SubSeq(there, 1, k)])
  <2>1. Lies(SubSeq(there, 1, k), a) /\ Len(SubSeq(there, 1, k)) = k
    BY <1>3, <1>6, PrefixLies
  <2>2. k <= n
    BY <1>4, <1>6
  <2> QED
    BY <2>1, <2>2 DEF Statuses
<1>7. \A b \in BOOLEAN :
        \A k \in {j \in 0 .. (IF k0 <= n - 1 THEN k0 ELSE n - 1) : j = 0 \/ b} :
          k \in Nat /\ k <= k0
  BY <1>4
<1> HIDE DEF Good
<1>8. \A r \in IB!FileRead(file, a, n) : Good(r)
  <2>1. IB!FileRead(file, a, n) =
          {[status |-> IF k0 = n THEN "OK" ELSE "OUT_OF_RANGE", data |-> there]}
          \cup {[status |-> "IO_ERROR", data |-> SubSeq(there, 1, k)] :
                  k \in {j \in 0 .. (IF k0 <= n - 1 THEN k0 ELSE n - 1) : j = 0 \/ TRUE}}
    BY DEF IB!FileRead, IB!Least, there, e
  <2> HIDE DEF k0
  <2> QED
    BY <2>1, <1>5, <1>6, <1>7
<1>9. \A r \in BS!FileRead(file, a, n) : Good(r)
  <2>1. BS!FileRead(file, a, n) =
          {[status |-> IF k0 = n THEN "OK" ELSE "OUT_OF_RANGE", data |-> there]}
          \cup {[status |-> "IO_ERROR", data |-> SubSeq(there, 1, k)] :
                  k \in {j \in 0 .. (IF k0 <= n - 1 THEN k0 ELSE n - 1) : j = 0 \/ FALSE}}
    BY DEF BS!FileRead, BS!Least, there, e
  <2> HIDE DEF k0
  <2> QED
    BY <2>1, <1>5, <1>6, <1>7
<1> QED
  BY <1>8, <1>9 DEF Good

(* FillBuffer of InputBuffer brings what the loops count on                *)
(* (inputbuffer.cc:17-27).                                                 *)
LEMMA InputBufferFills ==
  ASSUME StreamAssumption, file \in Units, filePos \in Nat
  PROVE  \A r \in IB!FillBuffer : Refill(r)
<1> SUFFICES ASSUME NEW r \in IB!FillBuffer PROVE Refill(r)
  OBVIOUS
<1>1. PICK q \in IB!FileRead(file, filePos, BufferSize) :
             r = [status |-> q.status, data |-> q.data, at |-> filePos + Len(q.data)]
  BY DEF IB!FillBuffer
<1>2. /\ q.status \in Statuses
      /\ Lies(q.data, filePos)
      /\ q.status = "OK" => Len(q.data) = BufferSize
      /\ q.status = "OUT_OF_RANGE" => filePos + Len(q.data) >= Len(file)
  BY <1>1, ReadBrings DEF StreamAssumption
<1>3. q.data = <<>> => q.status # "OK"
  BY <1>2 DEF StreamAssumption
<1> QED
  BY <1>1, <1>2, <1>3 DEF Refill

(* The stream below BufferedInputStream brings the same, and its position  *)
(* moves by what it brought (random_inputstream.cc:17-43).                 *)
LEMMA StreamBrings ==
  ASSUME file \in Units, NEW a \in Nat, NEW n \in Nat \ {0}
  PROVE  \A r \in BS!StreamRead(file, a, n) :
           /\ r.status \in Statuses
           /\ Lies(r.data, a)
           /\ r.at = a + Len(r.data)
           /\ Len(r.data) <= n
           /\ r.status = "OK" => Len(r.data) = n
           /\ r.status = "OUT_OF_RANGE" => r.at >= Len(file) /\ Len(r.data) # n
<1> SUFFICES ASSUME NEW r \in BS!StreamRead(file, a, n)
             PROVE  /\ r.status \in Statuses
                    /\ Lies(r.data, a)
                    /\ r.at = a + Len(r.data)
                    /\ Len(r.data) <= n
                    /\ r.status = "OK" => Len(r.data) = n
                    /\ r.status = "OUT_OF_RANGE" => r.at >= Len(file) /\ Len(r.data) # n
  OBVIOUS
<1>1. PICK q \in BS!FileRead(file, a, n) :
             r = [status |-> q.status, data |-> q.data,
                  at |-> IF q.status = "IO_ERROR" THEN a ELSE a + Len(q.data)]
  BY DEF BS!StreamRead
<1>2. /\ q.status \in Statuses
      /\ Lies(q.data, a)
      /\ Len(q.data) <= n
      /\ q.status = "OK" => Len(q.data) = n
      /\ q.status = "OUT_OF_RANGE" => a + Len(q.data) >= Len(file) /\ Len(q.data) # n
  BY <1>1, ReadBrings
<1>3. q.status = "IO_ERROR" => Len(q.data) = 0
  <2> DEFINE there == SubSeq(file, a + 1, BS!Least(a + n, Len(file)))
  <2>1. ASSUME q.status = "IO_ERROR" PROVE Len(q.data) = 0
    <3>1. PICK k \in {j \in 0 .. BS!Least(Len(there), n - 1) : j = 0 \/ FALSE} :
                 q = [status |-> "IO_ERROR", data |-> SubSeq(there, 1, k)]
      <4>1. q # [status |-> IF Len(there) = n THEN "OK" ELSE "OUT_OF_RANGE", data |-> there]
        BY <2>1
      <4> QED
        BY <4>1, <1>1 DEF BS!FileRead
    <3>2. k = 0 /\ 0 < 1
      OBVIOUS
    <3>3. q.data = <<>>
      <4> HIDE DEF there
      <4>1. SubSeq(there, 1, 0) = <<>>
        BY SubSeqEmpty
      <4> QED
        BY <4>1, <3>1, <3>2
    <3> QED
      BY <3>3
  <2> QED
    BY <2>1
<1>4. r.at = a + Len(q.data)
  <2>1. Len(q.data) \in Nat
    BY <1>2, LenProperties DEF Lies, Units
  <2> QED
    BY <1>1, <1>3, <2>1
<1> QED
  BY <1>1, <1>2, <1>4

(* FillBuffer of BufferedInputStream brings what the loops count on        *)
(* (buffered_inputstream.cc:27-32).                                        *)
LEMMA BufferedFills ==
  ASSUME StreamAssumption, file \in Units, filePos \in Nat
  PROVE  \A r \in BS!FillBuffer : Refill(r)
<1> SUFFICES ASSUME NEW r \in BS!FillBuffer PROVE Refill(r)
  OBVIOUS
<1>1. /\ r.status \in Statuses
      /\ Lies(r.data, filePos)
      /\ r.at = filePos + Len(r.data)
      /\ r.status = "OK" => Len(r.data) = BufferSize
      /\ r.status = "OUT_OF_RANGE" => r.at >= Len(file)
  BY StreamBrings DEF BS!FillBuffer, StreamAssumption
<1>2. r.data = <<>> => r.status # "OK"
  BY <1>1 DEF StreamAssumption
<1> QED
  BY <1>1, <1>2 DEF Refill

(* The types of the readers' variables. *)
ReaderTypes ==
  /\ file \in Units
  /\ filePos \in Nat
  /\ pos \in Nat
  /\ buf \in Units
  /\ call \in [op : IB!Stream!Operations \cup {"none"}, n : Int]
  /\ got \in Units
  /\ status \in Statuses
  /\ from \in Nat

(* The buffer holds the bytes in front of filePos. *)
BufferOK ==
  /\ pos <= Len(buf)
  /\ Len(buf) <= filePos
  /\ Lies(buf, filePos - Len(buf))

(* The call being executed has taken the bytes s. *)
Taken(s) ==
  /\ Lies(s, from)
  /\ IB!Tell = from + Len(s)
  /\ IF call.op = "ReadLine" THEN got = Text(s) /\ \A i \in 1 .. Len(s) : s[i] # LF ELSE got = s
  /\ call.op \in {"ReadNBytes", "SkipNBytes"} => s = <<>> \/ Len(s) <= call.n
  /\ call.op = "ReadVarint32" =>
       status = "OK" /\ Len(s) <= VarintMax /\ \A i \in 1 .. Len(s) : s[i] \in High
  /\ call.op \in {"Seek", "Reset"} => s = <<>>

(* The inductive invariant of a reader that does not skip. *)
ReaderInv ==
  /\ ReaderTypes
  /\ BufferOK
  /\ call # IB!Idle => \E s : Taken(s)

(* What a turn of a loop works on. *)
Turn(b) ==
  /\ b.status \in Statuses
  /\ b.buf \in Units /\ b.pos \in Nat /\ b.at \in Nat
  /\ Len(b.buf) <= b.at
  /\ Lies(b.buf, b.at - Len(b.buf))
  /\ b.at - Len(b.buf) + b.pos = IB!Tell
  /\ b.buf # <<>> => b.pos < Len(b.buf)
  /\ b.buf = <<>> => /\ b.pos = 0 /\ b.at = IB!Tell
                     /\ b.status # "OK"
                     /\ b.status = "OUT_OF_RANGE" => b.at >= Len(file)

(* The length of a stream is a number, 0 for the empty one only. *)
LEMMA SizeIs == \A s \in Units : Len(s) \in Nat /\ (s = <<>> <=> Len(s) = 0)
BY LenProperties, EmptySeq DEF Units

(* The buffer a turn works on, at hand or refilled, holds the bytes of the *)
(* file around the stream's position; it is empty only when the refill     *)
(* brought nothing (inputbuffer.cc:79-85).                                 *)
LEMMA AtHandIs ==
  ASSUME ReaderTypes, BufferOK, NEW refills, \A r \in refills : Refill(r),
         NEW b \in IB!AtHand(refills)
  PROVE  Turn(b)
<1>1. Len(buf) \in Nat
  BY SizeIs DEF ReaderTypes
<1>2. CASE pos < Len(buf)
  <2>1. b = [status |-> status, buf |-> buf, pos |-> pos, at |-> filePos]
    BY <1>2 DEF IB!AtHand
  <2>2. buf # <<>>
    BY <1>1, <1>2, SizeIs DEF ReaderTypes
  <2>3. IB!Tell = filePos - Len(buf) + pos
    BY <1>1 DEF IB!Tell, ReaderTypes
  <2> QED
    BY <1>1, <1>2, <2>1, <2>2, <2>3 DEF ReaderTypes, BufferOK, Turn
<1>3. CASE ~(pos < Len(buf))
  <2>1. PICK r \in refills : b = [status |-> r.status, buf |-> r.data, pos |-> 0, at |-> r.at]
    BY <1>3 DEF IB!AtHand
  <2>2. pos = Len(buf)
    BY <1>1, <1>3 DEF ReaderTypes, BufferOK
  <2>3. IB!Tell = filePos
    BY <1>1, <2>2 DEF IB!Tell, ReaderTypes
  <2>4. r.data \in Units /\ Len(r.data) \in Nat /\ (r.data = <<>> <=> Len(r.data) = 0)
    BY SizeIs DEF Refill, Lies
  <2>5. r.at = filePos + Len(r.data) /\ r.at \in Nat /\ r.at - Len(r.data) = filePos
    BY <2>4 DEF Refill, ReaderTypes
  <2>6. r.data = <<>> => r.at = filePos
    BY <2>4, <2>5 DEF ReaderTypes
  <2>7. Refill(r)
    OBVIOUS
  <2>8. /\ b.status = r.status /\ b.buf = r.data /\ b.pos = 0 /\ b.at = r.at
    BY <2>1
  <2>9. Len(r.data) <= r.at
    BY <2>4, <2>5 DEF ReaderTypes
  <2>10. Lies(b.buf, b.at - Len(b.buf))
    BY <2>5, <2>7, <2>8 DEF Refill
  <2>11. b.at - Len(b.buf) + b.pos = IB!Tell
    BY <2>3, <2>5, <2>8 DEF ReaderTypes
  <2> QED
    BY <2>3, <2>4, <2>5, <2>6, <2>7, <2>8, <2>9, <2>10, <2>11 DEF Refill, Turn
<1> QED
  BY <1>2, <1>3

(* The byte of the file at the stream's position is the next of the        *)
(* buffer.                                                                 *)
LEMMA NextByte ==
  ASSUME ReaderTypes, NEW b, Turn(b), b.buf # <<>>
  PROVE  /\ b.buf[b.pos + 1] = file[IB!Tell + 1]
         /\ IB!Tell < Len(file)
         /\ IB!Tell \in Nat
<1>1. Len(b.buf) \in Nat /\ b.pos < Len(b.buf)
  BY SizeIs DEF Turn
<1>2. b.at - Len(b.buf) \in Nat /\ b.at <= Len(file)
  BY <1>1 DEF Turn, Lies
<1>3. b.pos + 1 \in 1 .. Len(b.buf) /\ (b.at - Len(b.buf)) + (b.pos + 1) = IB!Tell + 1
  BY <1>1, <1>2 DEF Turn
<1>4. b.buf[b.pos + 1] = file[(b.at - Len(b.buf)) + (b.pos + 1)]
  BY <1>3 DEF Turn, Lies
<1>5. Len(file) \in Nat
  BY FileSize DEF ReaderTypes
<1>6. IB!Tell < Len(file) /\ IB!Tell \in Nat
  <2>1. \A l, p, a, t, f \in Int :
          0 <= p /\ p < l /\ l <= a /\ a <= f /\ a - l + p = t => t < f /\ t \in Nat
    OBVIOUS
  <2>2. b.at - Len(b.buf) + b.pos = IB!Tell /\ b.pos \in Nat /\ b.at \in Nat /\ Len(b.buf) <= b.at
    BY DEF Turn
  <2>3. IB!Tell \in Int
    BY <2>2, <1>1
  <2> QED
    BY <1>1, <1>2, <1>5, <2>1, <2>2, <2>3
<1>7. b.buf[b.pos + 1] = file[IB!Tell + 1]
  BY <1>3, <1>4
<1> QED
  BY <1>6, <1>7

(* Taking k bytes of the buffer keeps the buffer in order and moves the    *)
(* stream.                                                                 *)
LEMMA BufferMoves ==
  ASSUME ReaderTypes, NEW b, Turn(b), IB!SetBuffer(b), file' = file,
         NEW k \in Nat, b.pos + k <= Len(b.buf), pos' = b.pos + k
  PROVE  /\ BufferOK'
         /\ filePos' \in Nat /\ pos' \in Nat /\ buf' \in Units /\ file' \in Units
         /\ IB!Tell' = IB!Tell + k
<1>1. Len(b.buf) \in Nat
  BY SizeIs DEF Turn
<1>2. Lies(b.buf, b.at - Len(b.buf))'
  <2>1. Lies(b.buf, b.at - Len(b.buf))
    BY DEF Turn
  <2> QED
    BY <2>1 DEF Lies, IB!SetBuffer
<1>3. /\ buf' = b.buf /\ filePos' = b.at
      /\ b.pos \in Nat /\ b.at \in Nat /\ Len(b.buf) <= b.at /\ b.buf \in Units
      /\ b.at - Len(b.buf) + b.pos = IB!Tell
  BY DEF IB!SetBuffer, Turn
<1>4. pos' \in Nat /\ pos' <= Len(b.buf)
  BY <1>1, <1>3
<1>5. BufferOK'
  BY <1>2, <1>3, <1>4 DEF BufferOK
<1>6. IB!Tell' = IB!Tell + k
  <2>1. IB!Tell' = b.at - (Len(b.buf) - (b.pos + k))
    BY <1>3 DEF IB!Tell
  <2> QED
    BY <2>1, <1>1, <1>3, SMTT(30)
<1>7. file' \in Units
  BY DEF ReaderTypes
<1> QED
  BY <1>3, <1>4, <1>5, <1>6, <1>7

(* A step of ByteStream, or none. *)
StreamStep == IB!Stream!Next \/ UNCHANGED IB!Stream!vars

(* A call that returns answers as the stream would. *)
LEMMA ReturnMoves ==
  ASSUME call # IB!Idle, NEW st, NEW d, IB!End(st, d)
  PROVE  /\ IB!Offset = from
         /\ IB!Stream!Move(call.op, st, d, IB!Tell')
         /\ call' = IB!Idle
BY DEF IB!End, IB!Idle, IB!Offset, IB!Stream!Move, IB!Stream!Idle, IB!Stream!Answer

(* A turn of a loop is nothing to the stream's caller. *)
LEMMA TurnStutters ==
  ASSUME call # IB!Idle, UNCHANGED <<file, call, reply, from>>
  PROVE  UNCHANGED IB!Stream!vars
BY DEF IB!Offset, IB!Stream!vars

(* What a count or a varint has taken, when it is all that was asked for,  *)
(* or all there is.                                                        *)
LEMMA TakenIsNext ==
  ASSUME file \in Units, from \in Nat, IB!Offset = from, NEW s, Lies(s, from), NEW n \in Nat,
         Len(s) <= n, Len(s) = n \/ from + Len(s) >= Len(file)
  PROVE  IB!Stream!NextBytes(n) = s
<1> DEFINE m == Len(file)
           e == IF from + n <= m THEN from + n ELSE m
<1>1. m \in Nat /\ Len(s) \in Nat /\ (s = <<>> <=> Len(s) = 0)
  BY FileSize, SizeIs DEF Lies
<1>2. e \in Nat /\ e <= m
  BY <1>1
<1>7. PICK z \in Nat : z = e
  BY <1>2
<1>3. IB!Stream!NextBytes(n) = SubSeq(file, from + 1, e)
  BY DEF IB!Stream!NextBytes, IB!Stream!Least
<1>4. s # <<>> => from + Len(s) <= m
  BY DEF Lies
<1>5. (from <= z => z - from = Len(s)) /\ (~(from <= z) => 0 = Len(s))
  BY <1>1, <1>4, <1>7
<1>6. Lies(SubSeq(file, from + 1, e), from) /\ Len(SubSeq(file, from + 1, e)) = Len(s)
  <2> HIDE DEF e
  <2>1. /\ Lies(SubSeq(file, from + 1, z), from)
        /\ Len(SubSeq(file, from + 1, z)) = IF from <= z THEN z - from ELSE 0
    BY <1>2, <1>7, FilePart
  <2> QED
    BY <2>1, <1>5, <1>7
<1> HIDE DEF e
<1> QED
  BY <1>3, <1>6, LiesEqual

(* ... and in any case, it is what is ahead. *)
LEMMA TakenIsAhead ==
  ASSUME file \in Units, from \in Nat, IB!Offset = from, NEW s, Lies(s, from)
  PROVE  /\ SubSeq(IB!Stream!Ahead, 1, Len(s)) = s
         /\ Len(s) \in 0 .. Len(IB!Stream!Ahead)
         /\ Lies(IB!Stream!Ahead, from)
         /\ from + Len(s) >= Len(file) => IB!Stream!Ahead = s
         /\ Len(IB!Stream!Ahead) \in Nat
         /\ from <= Len(file) => from + Len(IB!Stream!Ahead) = Len(file)
<1> DEFINE m == Len(file)
           t == IB!Stream!Ahead
<1>1. m \in Nat /\ Len(s) \in Nat /\ (s = <<>> <=> Len(s) = 0) /\ (s # <<>> => from + Len(s) <= m)
  BY FileSize, SizeIs DEF Lies
<1>2. t = SubSeq(file, from + 1, m)
  BY DEF IB!Stream!Ahead
<1>3. Lies(t, from) /\ Len(t) = IF from <= m THEN m - from ELSE 0
  <2>1. PICK z \in Nat : z = m
    BY <1>1
  <2>2. z <= Len(file)
    BY <2>1, <1>1
  <2>3. /\ Lies(SubSeq(file, from + 1, z), from)
        /\ Len(SubSeq(file, from + 1, z)) = IF from <= z THEN z - from ELSE 0
    BY <2>2, FilePart
  <2> QED
    BY <2>1, <2>3, <1>2
<1> HIDE DEF t
<1>4. Len(t) \in Nat /\ Len(s) <= Len(t)
  BY <1>1, <1>3
<1>5. PICK k \in Nat : k = Len(s)
  BY <1>1
<1>6. Lies(SubSeq(t, 1, k), from) /\ Len(SubSeq(t, 1, k)) = k
  BY <1>3, <1>4, <1>5, PrefixLies
<1>7. SubSeq(t, 1, Len(s)) = s
  BY <1>5, <1>6, LiesEqual
<1>8. ASSUME from + Len(s) >= m PROVE t = s
  <2>1. Len(t) = Len(s)
    BY <1>8, <1>1, <1>3
  <2> QED
    BY <2>1, <1>3, LiesEqual
<1> QED
  BY <1>1, <1>3, <1>4, <1>7, <1>8 DEF t

(* A call that has returned leaves a reader in order. *)
LEMMA Returned ==
  ASSUME NEW st, NEW d, IB!End(st, d),
         BufferOK', filePos' \in Nat, pos' \in Nat, buf' \in Units, file' \in Units
  PROVE  ReaderInv'
<1>1. call' = IB!Idle /\ got' = <<>> /\ status' = "OK" /\ from' = 0
  BY DEF IB!End
<1>2. call' \in [op : IB!Stream!Operations \cup {"none"}, n : Int]
  BY <1>1 DEF IB!Idle
<1>3. <<>> \in Units
  BY DEF Units
<1> QED
  BY <1>1, <1>2, <1>3 DEF ReaderInv, ReaderTypes, Statuses

(* A turn of the loop over a count (inputbuffer.cc:78-93). *)
LEMMA CountTurnKeeps ==
  ASSUME StreamAssumption, ReaderInv, NEW refills, \A r \in refills : Refill(r),
         NEW op \in {"ReadNBytes", "SkipNBytes"}, IB!CountTurn(op, refills)
  PROVE  ReaderInv' /\ StreamStep
<1>1. call.op = op /\ Len(got) < call.n /\ call # IB!Idle
  BY DEF IB!CountTurn, IB!Idle
<1>2. PICK b \in IB!AtHand(refills) :
       /\ IB!SetBuffer(b)
       /\ \/ /\ b.buf = <<>>
             /\ pos' = 0
             /\ IB!End(b.status, IF op = "ReadNBytes" THEN got ELSE <<>>)
          \/ /\ b.buf # <<>>
             /\ LET k == IB!Least(Len(b.buf) - b.pos, call.n - Len(got))
                IN /\ pos' = b.pos + k
                   /\ got' = got \o SubSeq(b.buf, b.pos + 1, b.pos + k)
             /\ status' = b.status
             /\ UNCHANGED <<file, call, reply, from>>
  BY DEF IB!CountTurn
<1>3. ReaderTypes /\ BufferOK
  BY DEF ReaderInv
<1>4. Turn(b)
  BY <1>2, <1>3, AtHandIs
<1>5. PICK s : Taken(s)
  BY <1>1 DEF ReaderInv
<1>6. got = s /\ Lies(s, from) /\ IB!Tell = from + Len(s)
  BY <1>1, <1>5 DEF Taken
<1>7. Len(s) \in Nat /\ call.n \in Nat /\ Len(s) < call.n /\ from \in Nat /\ file \in Units
  <2>1. Len(s) \in Nat
    BY <1>6, SizeIs DEF Lies
  <2>2. call.n \in Int
    BY <1>3 DEF ReaderTypes
  <2> QED
    BY <2>1, <2>2, <1>1, <1>3, <1>6 DEF ReaderTypes
<1>8. CASE b.buf = <<>>
  <2>1. IB!End(b.status, IF op = "ReadNBytes" THEN got ELSE <<>>) /\ pos' = 0
    BY <1>2, <1>8
  <2>2. /\ IB!Offset = from
        /\ IB!Stream!Move(op, b.status, IF op = "ReadNBytes" THEN got ELSE <<>>, IB!Tell')
    BY <1>1, <2>1, ReturnMoves
  <2>3. b.pos = 0 /\ b.at = IB!Tell /\ Len(b.buf) = 0 /\ b.status # "OK" /\ b.status \in Statuses
    BY <1>4, <1>8 DEF Turn
  <2>4. file' = file
    BY <2>1 DEF IB!End
  <2>5. 0 \in Nat /\ b.pos + 0 <= Len(b.buf) /\ pos' = b.pos + 0
    BY <2>1, <2>3
  <2>6. /\ BufferOK' /\ filePos' \in Nat /\ pos' \in Nat /\ buf' \in Units /\ file' \in Units
        /\ IB!Tell' = IB!Tell + 0
    BY <1>2, <1>3, <1>4, <2>4, <2>5, BufferMoves
  <2>7. IB!Tell' = from + Len(got)
    BY <2>6, <1>6, <1>7
  <2>8. ReaderInv'
    BY <2>1, <2>6, Returned
  <2>9. CASE b.status = "OUT_OF_RANGE"
    <3>1. from + Len(got) >= Len(file)
      BY <1>4, <1>6, <1>8, <2>9 DEF Turn
    <3>2. IB!Stream!NextBytes(call.n) = got
      BY <3>1, <1>6, <1>7, <2>2, TakenIsNext
    <3>3. call.n >= 0 /\ Len(got) # call.n
      BY <1>6, <1>7
    <3>4. CASE op = "ReadNBytes"
      <4>1. IB!Stream!ReadNBytes
        BY <2>2, <2>7, <2>9, <3>2, <3>3, <3>4 DEF IB!Stream!ReadNBytes
      <4> QED
        BY <4>1, <2>8 DEF StreamStep, IB!Stream!Next
    <3>5. CASE op = "SkipNBytes"
      <4>1. IB!Stream!SkipNBytes
        BY <2>2, <2>7, <2>9, <3>2, <3>3, <3>5 DEF IB!Stream!SkipNBytes
      <4> QED
        BY <4>1, <2>8 DEF StreamStep, IB!Stream!Next
    <3> QED
      BY <3>4, <3>5
  <2>10. CASE b.status = "IO_ERROR"
    <3>1. SubSeq(IB!Stream!Ahead, 1, Len(got)) = got /\ Len(got) \in 0 .. Len(IB!Stream!Ahead)
      BY <1>6, <1>7, <2>2, TakenIsAhead
    <3>2. Len(got) <= call.n /\ b.status \in IB!Stream!Errors
      BY <1>6, <1>7, <2>10 DEF IB!Stream!Errors
    <3>3. \/ IB!Stream!Move("ReadNBytes", b.status, got, from + Len(got))
          \/ IB!Stream!Move("SkipNBytes", b.status, <<>>, from + Len(got))
      BY <2>2, <2>7
    <3>4. IB!Stream!ReadFails
      BY <3>1, <3>2, <3>3, <2>2 DEF IB!Stream!ReadFails
    <3> QED
      BY <3>4, <2>8 DEF StreamStep, IB!Stream!Next
  <2> QED
    BY <2>3, <2>9, <2>10 DEF Statuses
<1>9. CASE b.buf # <<>>
  <2>1. PICK k : /\ k = IB!Least(Len(b.buf) - b.pos, call.n - Len(got))
                 /\ pos' = b.pos + k
                 /\ got' = got \o SubSeq(b.buf, b.pos + 1, b.pos + k)
    BY <1>2, <1>9
  <2>2. status' = b.status /\ UNCHANGED <<file, call, reply, from>>
    BY <1>2, <1>9
  <2>3. k \in Nat /\ b.pos + k <= Len(b.buf) /\ Len(s) + k <= call.n
    <3>1. Len(b.buf) \in Nat /\ b.pos \in Nat /\ b.pos < Len(b.buf)
      BY <1>4, <1>9, SizeIs DEF Turn
    <3>2. \A l, p, c, g \in Int :
            0 <= p /\ p < l /\ 0 <= g /\ g < c =>
              /\ IB!Least(l - p, c - g) \in Nat
              /\ p + IB!Least(l - p, c - g) <= l
              /\ g + IB!Least(l - p, c - g) <= c
      BY DEF IB!Least
    <3> QED
      <4>1. /\ Len(b.buf) \in Int /\ b.pos \in Int /\ call.n \in Int /\ Len(s) \in Int
            /\ 0 <= b.pos /\ b.pos < Len(b.buf) /\ 0 <= Len(s) /\ Len(s) < call.n
        BY <3>1, <1>7
      <4>2. k = IB!Least(Len(b.buf) - b.pos, call.n - Len(s))
        BY <2>1, <1>6
      <4> QED
        BY <4>1, <4>2, <3>2
  <2>4. /\ BufferOK' /\ filePos' \in Nat /\ pos' \in Nat /\ buf' \in Units /\ file' \in Units
        /\ IB!Tell' = IB!Tell + k
    BY <1>2, <1>3, <1>4, <2>1, <2>2, <2>3, BufferMoves
  <2> DEFINE t == SubSeq(b.buf, b.pos + 1, b.pos + k)
  <2>5. Lies(t, from + Len(s)) /\ Len(t) = k
    <3>1. PICK a \in Nat : a = b.at - Len(b.buf)
      BY <1>4, SizeIs DEF Turn
    <3>2. Lies(b.buf, a) /\ a + b.pos = from + Len(s) /\ b.pos \in Nat
      BY <3>1, <1>4, <1>6 DEF Turn
    <3>3. PICK p \in Nat : p = b.pos
      BY <3>2
    <3>4. p + k <= Len(b.buf)
      BY <3>3, <2>3
    <3>5. Lies(Part(b.buf, p, k), a + p) /\ Len(Part(b.buf, p, k)) = k
      BY <3>2, <3>4, <2>3, <1>7, PartLies
    <3> QED
      BY <3>2, <3>3, <3>5 DEF Part
  <2> HIDE DEF t
  <2>6. Lies(s \o t, from) /\ Len(s \o t) = Len(s) + k
    BY <2>5, <1>6, <1>7, LiesLonger
  <2>7. got' = s \o t
    BY <2>1, <1>6 DEF t
  <2>8. Taken(s \o t)'
    <3>1. Lies(s \o t, from)'
      BY <2>2, <2>6, <2>7 DEF Lies
    <3>2. call'.op = op /\ call' = call /\ from' = from
      BY <2>2, <1>1
    <3>3. IB!Tell' = from + Len(s \o t)
      BY <2>4, <2>6, <1>6, <1>7, <2>3
    <3>4. Len(s \o t) <= call.n
      BY <2>6, <2>3
    <3> HIDE DEF t
    <3> DEFINE u == s \o t
    <3>5. Lies(u, from)' /\ got' = u /\ IB!Tell' = from' + Len(u) /\ Len(u) <= call'.n
      BY <2>7, <3>1, <3>2, <3>3, <3>4
    <3> HIDE DEF u
    <3>6. Taken(u)'
      BY <3>2, <3>5 DEF Taken
    <3> QED
      BY <3>6 DEF u
  <2>9. ReaderTypes'
    BY <1>3, <1>4, <2>2, <2>4, <2>6, <2>7 DEF ReaderTypes, Turn, Lies
  <2>10. ReaderInv'
    BY <2>4, <2>8, <2>9 DEF ReaderInv
  <2> QED
    BY <2>10, <2>2, <1>1, TurnStutters DEF StreamStep
<1> QED
  BY <1>8, <1>9

(* The end of that loop with everything read (inputbuffer.cc:94-98). *)
LEMMA CountEndKeeps ==
  ASSUME StreamAssumption, ReaderInv,
         NEW op \in {"ReadNBytes", "SkipNBytes"}, IB!CountEnd(op)
  PROVE  ReaderInv' /\ StreamStep
<1> DEFINE d == IF op = "ReadNBytes" THEN got ELSE <<>>
           st == IB!CountStatus(status)
<1>1. /\ call.op = op /\ call.n >= 0 /\ Len(got) = call.n /\ call # IB!Idle
      /\ IB!End(st, d) /\ UNCHANGED <<filePos, buf, pos>>
  BY DEF IB!CountEnd, IB!EndAt, IB!Idle
<1> HIDE DEF d, st
<1>2. ReaderTypes /\ BufferOK
  BY DEF ReaderInv
<1>3. PICK s : Taken(s)
  BY <1>1 DEF ReaderInv
<1>4. got = s /\ Lies(s, from) /\ IB!Tell = from + Len(s)
  BY <1>1, <1>3 DEF Taken
<1>5. /\ IB!Offset = from
      /\ IB!Stream!Move(op, st, d, IB!Tell')
  BY <1>1, ReturnMoves
<1>6. file' = file
  BY <1>1 DEF IB!End
<1>7. BufferOK' /\ IB!Tell' = IB!Tell
  BY <1>1, <1>2, <1>6 DEF BufferOK, IB!Tell, Lies
<1>8. ReaderInv'
  BY <1>1, <1>2, <1>6, <1>7, Returned DEF ReaderTypes
<1>9. Len(got) \in Nat /\ call.n \in Nat /\ from \in Nat /\ file \in Units
  BY <1>1, <1>2, SizeIs DEF ReaderTypes
<1>10. IB!Stream!Move(op, st, d, from + Len(got))
  BY <1>4, <1>5, <1>7
<1>11. CASE st = "OK"
  <2>1. IB!Stream!NextBytes(call.n) = got
    BY <1>1, <1>4, <1>5, <1>9, TakenIsNext
  <2>2. CASE op = "ReadNBytes"
    <3>1. IB!Stream!ReadNBytes
      BY <1>1, <1>10, <1>11, <1>5, <2>1, <2>2 DEF IB!Stream!ReadNBytes, d
    <3> QED
      BY <3>1, <1>8 DEF StreamStep, IB!Stream!Next
  <2>3. CASE op = "SkipNBytes"
    <3>1. IB!Stream!SkipNBytes
      BY <1>1, <1>10, <1>11, <1>5, <2>1, <2>3 DEF IB!Stream!SkipNBytes, d
    <3> QED
      BY <3>1, <1>8 DEF StreamStep, IB!Stream!Next
  <2> QED
    BY <2>2, <2>3
<1>12. CASE st = "IO_ERROR"
  <2>1. SubSeq(IB!Stream!Ahead, 1, Len(got)) = got /\ Len(got) \in 0 .. Len(IB!Stream!Ahead)
    BY <1>4, <1>5, <1>9, TakenIsAhead
  <2>2. Len(got) <= call.n /\ st \in IB!Stream!Errors
    BY <1>1, <1>9, <1>12 DEF IB!Stream!Errors
  <2>3. \/ IB!Stream!Move("ReadNBytes", st, got, from + Len(got))
        \/ IB!Stream!Move("SkipNBytes", st, <<>>, from + Len(got))
    BY <1>10 DEF d
  <2>4. IB!Stream!ReadFails
    BY <2>1, <2>2, <2>3, <1>5 DEF IB!Stream!ReadFails
  <2> QED
    BY <2>4, <1>8 DEF StreamStep, IB!Stream!Next
<1>13. st \in {"OK", "IO_ERROR"}
  BY <1>1, <1>2 DEF st, IB!CountStatus, ReaderTypes, Statuses
<1> QED
  BY <1>11, <1>12, <1>13

(* A negative count or position (inputbuffer.cc:72-75). *)
LEMMA RefuseKeeps ==
  ASSUME ReaderInv, NEW op \in {"ReadNBytes", "SkipNBytes", "Seek"}, IB!Refuse(op)
  PROVE  ReaderInv' /\ StreamStep
<1>1. /\ call.op = op /\ call.n < 0 /\ call # IB!Idle
      /\ IB!End("INVALID_ARGUMENT", <<>>) /\ UNCHANGED <<filePos, buf, pos>>
  BY DEF IB!Refuse, IB!EndAt, IB!Idle
<1>2. ReaderTypes /\ BufferOK
  BY DEF ReaderInv
<1>3. PICK s : Taken(s)
  BY <1>1 DEF ReaderInv
<1>4. s = <<>> /\ IB!Tell = from + Len(s)
  <2>1. Len(s) \in Nat /\ call.n \in Int
    BY <1>2, <1>3, SizeIs DEF Taken, Lies, ReaderTypes
  <2> QED
    BY <2>1, <1>1, <1>3 DEF Taken
<1>5. IB!Tell = from
  BY <1>2, <1>4 DEF ReaderTypes
<1>6. /\ IB!Offset = from
      /\ IB!Stream!Move(op, "INVALID_ARGUMENT", <<>>, IB!Tell')
  BY <1>1, ReturnMoves
<1>7. file' = file
  BY <1>1 DEF IB!End
<1>8. BufferOK' /\ IB!Tell' = IB!Tell
  BY <1>1, <1>2, <1>7 DEF BufferOK, IB!Tell, Lies
<1>9. ReaderInv'
  BY <1>1, <1>2, <1>7, <1>8, Returned DEF ReaderTypes
<1>10. IB!Stream!Refuse
  BY <1>1, <1>5, <1>6, <1>8 DEF IB!Stream!Refuse
<1> QED
  BY <1>9, <1>10 DEF StreamStep, IB!Stream!Next

(* A byte more: the call has taken the next one of the buffer. *)
LEMMA OneMoreTaken ==
  ASSUME ReaderTypes, NEW s, Lies(s, from), IB!Tell = from + Len(s), NEW b, Turn(b), b.buf # <<>>,
         NEW c, c = b.buf[b.pos + 1], IB!SetBuffer(b), pos' = b.pos + 1, file' = file
  PROVE  /\ Lies(Append(s, c), from) /\ Len(Append(s, c)) = Len(s) + 1
         /\ c \in Nat
         /\ BufferOK' /\ filePos' \in Nat /\ pos' \in Nat /\ buf' \in Units /\ file' \in Units
         /\ IB!Tell' = from + Len(Append(s, c))
         /\ \A i \in 1 .. Len(s) : Append(s, c)[i] = s[i]
         /\ Append(s, c)[Len(s) + 1] = c
<1>1. /\ c = file[IB!Tell + 1] /\ IB!Tell < Len(file) /\ IB!Tell \in Nat
  BY NextByte
<1>2. from \in Nat /\ Len(s) \in Nat /\ file \in Units /\ s \in Units
  BY SizeIs DEF ReaderTypes, Lies
<1>3. from + Len(s) < Len(file) /\ c = file[from + Len(s) + 1]
  BY <1>1
<1>4. Lies(Append(s, c), from) /\ Len(Append(s, c)) = Len(s) + 1 /\ c \in Nat
  BY <1>2, <1>3, LiesOneMore
<1>5. 1 \in Nat /\ b.pos + 1 <= Len(b.buf)
  BY SizeIs DEF Turn
<1>6. /\ BufferOK' /\ filePos' \in Nat /\ pos' \in Nat /\ buf' \in Units /\ file' \in Units
      /\ IB!Tell' = IB!Tell + 1
  BY <1>5, BufferMoves
<1>7. /\ \A i \in 1 .. Len(s) : Append(s, c)[i] = s[i]
      /\ Append(s, c)[Len(s) + 1] = c
  BY <1>2, <1>4, AppendProperties DEF Units
<1>8. IB!Tell' = from + Len(Append(s, c))
  BY <1>2, <1>4, <1>6
<1> QED
  BY <1>4, <1>6, <1>7, <1>8

(* What has been taken lies where it lay. *)
LEMMA LiesStill ==
  ASSUME NEW u, Lies(u, from), file' = file, from' = from
  PROVE  Lies(u, from)'
BY DEF Lies

(* A turn of a loop over a line has taken another byte. *)
LEMMA LineGoesOn ==
  ASSUME ReaderTypes, call.op = "ReadLine", UNCHANGED <<file, call, reply, from>>,
         status' \in Statuses,
         BufferOK', filePos' \in Nat, pos' \in Nat, buf' \in Units,
         NEW u, Lies(u, from), IB!Tell' = from + Len(u),
         got' = Text(u), \A i \in 1 .. Len(u) : u[i] # LF
  PROVE  ReaderInv'
<1>1. u \in Units /\ Text(u) \in Units
  BY TextTyped DEF Lies
<1>2. ReaderTypes'
  BY <1>1 DEF ReaderTypes
<1>3. Lies(u, from)'
  BY LiesStill
<1>4. Taken(u)'
  BY <1>3 DEF Taken
<1> QED
  BY <1>2, <1>4 DEF ReaderInv

(* The first of a set of numbers. *)
LEMMA FirstOfIs ==
  ASSUME NEW S, S \subseteq Nat, NEW f \in S, \A i \in S : f <= i
  PROVE  (CHOOSE i \in S : \A j \in S : i <= j) = f
<1>1. \A i \in S : (\A j \in S : i <= j) => i = f
  BY SMT
<1> QED
  BY <1>1

(* A turn of the loop over a line (inputbuffer.cc:33-54). *)
LEMMA LineTurnKeeps ==
  ASSUME StreamAssumption, ReaderInv, call.op = "ReadLine",
         NEW refills, \A r \in refills : Refill(r),
         IB!LineTurn(refills, IF call.n = 1 THEN <<LF>> ELSE <<>>)
  PROVE  ReaderInv' /\ StreamStep
<1> DEFINE eol == IF call.n = 1 THEN <<LF>> ELSE <<>>
<1>1. call # IB!Idle
  BY DEF IB!Idle
<1>2. PICK b \in IB!AtHand(refills) :
    /\ IB!SetBuffer(b)
    /\ \/ /\ b.buf = <<>>
          /\ pos' = 0
          /\ IB!End(IF b.status = "OUT_OF_RANGE" /\ got # <<>> THEN "OK" ELSE b.status, got)
       \/ /\ b.buf # <<>>
          /\ pos' = b.pos + 1
          /\ LET c == b.buf[b.pos + 1]
             IN \/ c = LF /\ IB!End("OK", got \o eol)
                \/ /\ c # LF
                   /\ got' = IF c = CR THEN got ELSE Append(got, c)
                   /\ status' = b.status
                   /\ UNCHANGED <<file, call, reply, from>>
  BY DEF IB!LineTurn
<1> HIDE DEF eol
<1>3. ReaderTypes /\ BufferOK
  BY DEF ReaderInv
<1>4. Turn(b)
  BY <1>2, <1>3, AtHandIs
<1>5. PICK s : Taken(s)
  BY <1>1 DEF ReaderInv
<1>6. /\ got = Text(s) /\ Lies(s, from) /\ IB!Tell = from + Len(s)
      /\ \A i \in 1 .. Len(s) : s[i] # LF
  BY <1>5 DEF Taken
<1>7. /\ Len(s) \in Nat /\ from \in Nat /\ file \in Units /\ s \in Units
  BY <1>3, <1>6, SizeIs DEF ReaderTypes, Lies
<1> DEFINE ahead == IB!Stream!Ahead
           ends == {i \in 1 .. Len(ahead) : ahead[i] = LF}
<1>8. CASE b.buf = <<>>
  <2> DEFINE st == IF b.status = "OUT_OF_RANGE" /\ got # <<>> THEN "OK" ELSE b.status
  <2>1. IB!End(st, got) /\ pos' = 0
    BY <1>2, <1>8
  <2> HIDE DEF st
  <2>2. IB!Offset = from /\ IB!Stream!Move("ReadLine", st, got, IB!Tell')
    BY <1>1, <2>1, ReturnMoves
  <2>3. b.pos = 0 /\ b.at = IB!Tell /\ Len(b.buf) = 0 /\ b.status # "OK" /\ b.status \in Statuses
    BY <1>4, <1>8 DEF Turn
  <2>4. file' = file
    BY <2>1 DEF IB!End
  <2>5. 0 \in Nat /\ b.pos + 0 <= Len(b.buf) /\ pos' = b.pos + 0
    BY <2>1, <2>3
  <2>6. /\ BufferOK' /\ filePos' \in Nat /\ pos' \in Nat /\ buf' \in Units /\ file' \in Units
        /\ IB!Tell' = IB!Tell + 0
    BY <1>2, <1>3, <1>4, <2>4, <2>5, BufferMoves
  <2>7. IB!Tell' = from + Len(s)
    BY <2>6, <1>6, <1>7
  <2>8. ReaderInv'
    BY <2>1, <2>6, Returned
  <2>9. CASE b.status = "OUT_OF_RANGE"
    <3>1. from + Len(s) >= Len(file)
      BY <1>4, <1>6, <1>8, <2>9 DEF Turn
    <3>2. ahead = s
      BY <3>1, <1>6, <1>7, <2>2, TakenIsAhead
    <3>3. ends = {}
      BY <3>2, <1>6
    <3>4. st = IF Text(ahead) = <<>> THEN "OUT_OF_RANGE" ELSE "OK"
      BY <3>2, <1>6, <2>9 DEF st
    <3>5. IB!Stream!ReadLine
      <4>1. IB!Stream!Move("ReadLine", IF Text(ahead) = <<>> THEN "OUT_OF_RANGE" ELSE "OK",
                           Text(ahead), from + Len(ahead))
        BY <2>2, <2>7, <3>2, <3>4, <1>6
      <4> QED
        BY <4>1, <2>2, <3>3 DEF IB!Stream!ReadLine, Text
    <3> QED
      BY <3>5, <2>8 DEF StreamStep, IB!Stream!Next
  <2>10. CASE b.status = "IO_ERROR"
    <3>1. SubSeq(ahead, 1, Len(s)) = s /\ Len(s) \in 0 .. Len(ahead)
      BY <1>6, <1>7, <2>2, TakenIsAhead
    <3>2. st \in IB!Stream!Errors /\ st = "IO_ERROR"
      BY <2>10 DEF IB!Stream!Errors, st
    <3>3. IB!Stream!Move("ReadLine", st, IB!Stream!Text(s), from + Len(s))
      BY <2>2, <2>7, <1>6 DEF Text
    <3>4. IB!Stream!ReadFails
      BY <3>1, <3>2, <3>3, <2>2, <1>6 DEF IB!Stream!ReadFails
    <3> QED
      BY <3>4, <2>8 DEF StreamStep, IB!Stream!Next
  <2> QED
    BY <2>3, <2>9, <2>10 DEF Statuses
<1>9. CASE b.buf # <<>>
  <2> DEFINE c == b.buf[b.pos + 1]
             t == Append(s, c)
  <2>1. pos' = b.pos + 1
    BY <1>2, <1>9
  <2>2. \/ c = LF /\ IB!End("OK", got \o eol)
        \/ /\ c # LF
           /\ got' = IF c = CR THEN got ELSE Append(got, c)
           /\ status' = b.status
           /\ UNCHANGED <<file, call, reply, from>>
    BY <1>2, <1>9
  <2>3. file' = file
    BY <2>2 DEF IB!End
  <2>4. /\ Lies(t, from) /\ Len(t) = Len(s) + 1
        /\ c \in Nat
        /\ BufferOK' /\ filePos' \in Nat /\ pos' \in Nat /\ buf' \in Units /\ file' \in Units
        /\ IB!Tell' = from + Len(t)
        /\ \A i \in 1 .. Len(s) : t[i] = s[i]
        /\ t[Len(s) + 1] = c
    <3>1. \A d : d = b.buf[b.pos + 1] =>
           /\ Lies(Append(s, d), from) /\ Len(Append(s, d)) = Len(s) + 1
           /\ d \in Nat
           /\ BufferOK' /\ filePos' \in Nat /\ pos' \in Nat /\ buf' \in Units /\ file' \in Units
           /\ IB!Tell' = from + Len(Append(s, d))
           /\ \A i \in 1 .. Len(s) : Append(s, d)[i] = s[i]
           /\ Append(s, d)[Len(s) + 1] = d
      BY <1>2, <1>3, <1>4, <1>6, <1>9, <2>1, <2>3, OneMoreTaken
    <3> QED
      BY <3>1
  <2> HIDE DEF t, c
  <2>5. CASE c = LF /\ IB!End("OK", got \o eol)
    <3>1. IB!Offset = from /\ IB!Stream!Move("ReadLine", "OK", got \o eol, IB!Tell')
      BY <1>1, <2>5, ReturnMoves
    <3>2. ReaderInv'
      BY <2>4, <2>5, Returned
    <3>3. SubSeq(ahead, 1, Len(s)) = s /\ Len(s) \in 0 .. Len(ahead)
      BY <1>6, <1>7, <3>1, TakenIsAhead
    <3>4. SubSeq(ahead, 1, Len(t)) = t /\ Len(t) \in 0 .. Len(ahead) /\ Lies(ahead,
        from) /\ Len(ahead) \in Nat
      BY <2>4, <1>7, <3>1, TakenIsAhead
    <3> DEFINE n == Len(s) + 1
    <3>5. n \in 1 .. Len(ahead) /\ n \in 1 .. Len(t) /\ n \in Nat
      BY <3>4, <2>4, <1>7
    <3>6. ahead[n] = LF
      <4>1. ahead[n] = file[from + n] /\ t[n] = file[from + n]
        BY <3>4, <3>5, <2>4 DEF Lies
      <4> QED
        BY <4>1, <2>4, <2>5
    <3>7. \A i \in 1 .. Len(s) : ahead[i] # LF
      <4> SUFFICES ASSUME NEW i \in 1 .. Len(s) PROVE ahead[i] # LF
        OBVIOUS
      <4>1. i \in 1 .. Len(ahead)
        BY <3>5
      <4>2. ahead[i] = file[from + i] /\ s[i] = file[from + i]
        BY <4>1, <3>4, <1>6 DEF Lies
      <4> QED
        BY <4>2, <1>6
    <3>8. n \in ends /\ (\A i \in ends : n <= i) /\ ends \subseteq Nat /\ ends # {}
      BY <3>4, <3>5, <3>6, <3>7, <1>7
    <3>9. (CHOOSE i \in ends : \A j \in ends : i <= j) = n
      <4> HIDE DEF ends, n
      <4> QED
        BY <3>8, FirstOfIs
    <3>10. n - 1 = Len(s) /\ from + n = IB!Tell'
      BY <1>7, <2>4
    <3>11. IB!Stream!ReadLine
      <4>1. IB!Stream!Move("ReadLine", "OK", IB!Stream!Text(SubSeq(ahead, 1, n - 1)) \o eol,
          from + n)
        BY <3>1, <3>3, <3>10, <1>6 DEF Text
      <4> HIDE DEF n
      <4> QED
        BY <4>1, <3>1, <3>8, <3>9 DEF IB!Stream!ReadLine, eol
    <3> QED
      BY <3>2, <3>11 DEF StreamStep, IB!Stream!Next
  <2>6. CASE /\ c # LF
             /\ got' = IF c = CR THEN got ELSE Append(got, c)
             /\ status' = b.status
             /\ UNCHANGED <<file, call, reply, from>>
    <3>1. got' = Text(t)
      BY <2>4, <2>6, <1>6, <1>7, TextGrows DEF t
    <3>2. \A i \in 1 .. Len(t) : t[i] # LF
      BY <2>4, <2>6, <1>6, <1>7, SMTT(30)
    <3>3. UNCHANGED <<file, call, reply, from>> /\ status' \in Statuses
      BY <2>6, <1>4 DEF Turn
    <3>4. \A u : /\ Lies(u, from) /\ IB!Tell' = from + Len(u)
                 /\ got' = Text(u) /\ \A i \in 1 .. Len(u) : u[i] # LF
            => ReaderInv'
      BY <1>3, <2>4, <3>3, LineGoesOn
    <3>5. ReaderInv'
      BY <2>4, <3>1, <3>2, <3>4
    <3> QED
      BY <3>5, <3>3, <1>1, TurnStutters DEF StreamStep
  <2> QED
    BY <2>2, <2>5, <2>6
<1> QED
  BY <1>8, <1>9

(* The next bytes of the stream, and what a call has taken of them. *)
LEMMA NextBytesBegin ==
  ASSUME file \in Units, from \in Nat, IB!Offset = from, NEW s, Lies(s, from), NEW n \in Nat,
         Len(s) <= n
  PROVE  /\ Lies(IB!Stream!NextBytes(n), from)
         /\ Len(IB!Stream!NextBytes(n)) \in Nat
         /\ Len(s) <= Len(IB!Stream!NextBytes(n))
         /\ SubSeq(IB!Stream!NextBytes(n), 1, Len(s)) = s
<1> DEFINE m == Len(file)
           e == IF from + n <= m THEN from + n ELSE m
           t == IB!Stream!NextBytes(n)
<1>1. m \in Nat /\ Len(s) \in Nat /\ (s = <<>> <=> Len(s) = 0)
  BY FileSize, SizeIs DEF Lies
<1>2. PICK z \in Nat : z = e /\ z <= m
  BY <1>1
<1>3. t = SubSeq(file, from + 1, z)
  BY <1>2 DEF IB!Stream!NextBytes, IB!Stream!Least
<1>4. s # <<>> => from + Len(s) <= m
  BY DEF Lies
<1>5. Lies(t, from) /\ Len(t) = IF from <= z THEN z - from ELSE 0
  <2> HIDE DEF t, e
  <2> QED
    BY <1>2, <1>3, FilePart
<1>6. (IF from <= z THEN z - from ELSE 0) >= Len(s)
  BY <1>1, <1>2, <1>4
<1> HIDE DEF t, e
<1>7. Len(t) \in Nat /\ Len(s) <= Len(t)
  BY <1>1, <1>5, <1>6
<1>8. PICK k \in Nat : k = Len(s)
  BY <1>1
<1>9. Lies(SubSeq(t, 1, k), from) /\ Len(SubSeq(t, 1, k)) = k
  BY <1>5, <1>7, <1>8, PrefixLies
<1>10. SubSeq(t, 1, Len(s)) = s
  BY <1>8, <1>9, LiesEqual
<1> QED
  BY <1>5, <1>7, <1>10 DEF t

(* A varint parsed in place (inputbuffer.h:85-96). *)
LEMMA VarintAtHandKeeps ==
  ASSUME StreamAssumption, ReaderInv, IB!VarintAtHand
  PROVE  ReaderInv' /\ StreamStep
<1> DEFINE ends == {i \in 1 .. VarintMax : buf[pos + i] \notin High}
           len == CHOOSE i \in ends : \A j \in ends : i <= j
<1>1. /\ call.op = "ReadVarint32" /\ got = <<>> /\ pos + VarintMax <= Len(buf)
      /\ call # IB!Idle
      /\ \/ /\ ends # {}
            /\ pos' = pos + len
            /\ IB!End("OK", SubSeq(buf, pos + 1, pos + len))
            /\ UNCHANGED <<filePos, buf>>
         \/ /\ ends = {}
            /\ IB!EndAt("OUT_OF_RANGE", <<>>)
  BY DEF IB!VarintAtHand, IB!HasVarint, IB!Idle
<1>2. ReaderTypes /\ BufferOK
  BY DEF ReaderInv
<1>3. PICK s : Taken(s)
  BY <1>1 DEF ReaderInv
<1>4. s = <<>> /\ IB!Tell = from + Len(s) /\ Lies(s, from)
  BY <1>1, <1>3 DEF Taken
<1>5. /\ file \in Units /\ from \in Nat /\ filePos \in Nat /\ pos \in Nat /\ Len(buf) \in Nat
      /\ VarintMax \in Nat \ {0} /\ Len(s) = 0 /\ IB!Tell = from
      /\ Len(buf) <= filePos /\ Lies(buf, filePos - Len(buf))
  BY <1>2, <1>4, SizeIs DEF ReaderTypes, BufferOK, StreamAssumption
<1>6. PICK a \in Nat : a = filePos - Len(buf) /\ a + pos = from
  <2>1. filePos - Len(buf) \in Nat /\ (filePos - Len(buf)) + pos = from
    BY <1>5 DEF IB!Tell
  <2> QED
    BY <2>1
<1>7. Lies(buf, a)
  BY <1>5, <1>6
<1> DEFINE v == Part(buf, pos, VarintMax)
<1>8. Lies(v, from) /\ Len(v) = VarintMax
  BY <1>1, <1>5, <1>6, <1>7, PartLies
<1>9. \A i \in 1 .. VarintMax : v[i] = buf[pos + i]
  <2> SUFFICES ASSUME NEW i \in 1 .. VarintMax PROVE v[i] = buf[pos + i]
    OBVIOUS
  <2>1. v[i] = file[from + i]
    BY <1>8 DEF Lies
  <2>2. pos + i \in 1 .. Len(buf) /\ a + (pos + i) = from + i
    <3>1. \A v0, l, p, j, a0, f \in Int :
            1 <= j /\ j <= v0 /\ 0 <= p /\ p + v0 <= l /\ a0 + p = f =>
              p + j \in 1 .. l /\ a0 + (p + j) = f + j
      OBVIOUS
    <3>2. i \in Int /\ 1 <= i /\ i <= VarintMax /\ VarintMax \in Int /\ pos \in Int /\ 0 <= pos
          /\ Len(buf) \in Int /\ a \in Int /\ from \in Int /\ pos + VarintMax <= Len(buf)
          /\ a + pos = from
      BY <1>1, <1>5, <1>6
    <3> QED
      BY <3>1, <3>2
  <2>3. buf[pos + i] = file[a + (pos + i)]
    BY <1>7, <2>2 DEF Lies
  <2> QED
    BY <2>1, <2>2, <2>3
<1> HIDE DEF v
<1> DEFINE bytes == IB!Stream!NextBytes(VarintMax)
           ends2 == {i \in 1 .. Len(bytes) : bytes[i] \notin High}
           first == CHOOSE i \in ends2 : \A j \in ends2 : i <= j
<1>10. CASE ends = {}
  <2>1. IB!End("OUT_OF_RANGE", <<>>) /\ UNCHANGED <<filePos, buf, pos>>
    BY <1>1, <1>10 DEF IB!EndAt
  <2>2. IB!Offset = from /\ IB!Stream!Move("ReadVarint32", "OUT_OF_RANGE", <<>>, IB!Tell')
    BY <1>1, <2>1, ReturnMoves
  <2>3. file' = file
    BY <2>1 DEF IB!End
  <2>4. BufferOK' /\ IB!Tell' = IB!Tell
    BY <2>1, <1>2, <2>3 DEF BufferOK, IB!Tell, Lies
  <2>5. ReaderInv'
    BY <2>1, <1>2, <2>3, <2>4, Returned DEF ReaderTypes
  <2>6. bytes = v
    BY <1>5, <1>8, <2>2, TakenIsNext
  <2>7. ends2 = {} /\ Len(bytes) = VarintMax
    BY <1>8, <1>9, <1>10, <2>6
  <2>8. IB!Stream!Move("ReadVarint32", "OUT_OF_RANGE", <<>>, IB!Offset)
    BY <2>2, <2>4, <1>5
  <2>9. IB!Stream!ReadVarint32
    BY <2>7, <2>8 DEF IB!Stream!ReadVarint32
  <2> QED
    BY <2>5, <2>9 DEF StreamStep, IB!Stream!Next
<1>11. CASE ends # {}
  <2>1. /\ pos' = pos + len
        /\ IB!End("OK", SubSeq(buf, pos + 1, pos + len))
        /\ UNCHANGED <<filePos, buf>>
    BY <1>1, <1>11
  <2>2. PICK f \in ends : \A i \in ends : f <= i
    <3>1. ends \subseteq Nat
      OBVIOUS
    <3> HIDE DEF ends
    <3> QED
      BY <1>11, <3>1, LeastNumber
  <2>3. len = f
    <3>1. ends \subseteq Nat
      OBVIOUS
    <3> HIDE DEF ends
    <3> QED
      BY <3>1, <2>2, FirstOfIs
  <2> HIDE DEF len
  <2>4. f \in 1 .. VarintMax /\ f \in Nat /\ f <= VarintMax
    BY <1>5, <2>2
  <2>5. /\ IB!Offset = from
        /\ IB!Stream!Move("ReadVarint32", "OK", SubSeq(buf, pos + 1, pos + f), IB!Tell')
    BY <1>1, <2>1, <2>3, ReturnMoves
  <2>6. file' = file
    BY <2>1 DEF IB!End
  <2>7. /\ BufferOK' /\ filePos' \in Nat /\ pos' \in Nat /\ buf' \in Units /\ file' \in Units
        /\ IB!Tell' = from + f
    <3>1. pos' = pos + f /\ pos' \in Nat /\ pos' <= Len(buf)
      BY <2>1, <2>3, <2>4, <1>1, <1>5
    <3>2. Lies(buf, filePos - Len(buf))'
      BY <1>5, <2>1, <2>6 DEF Lies
    <3>3. IB!Tell' = from + f
      <4>1. IB!Tell' = filePos - (Len(buf) - (pos + f)) /\ IB!Tell = filePos - (Len(buf) - pos)
        BY <2>1, <3>1 DEF IB!Tell
      <4> QED
        BY <4>1, <1>5, <2>4
    <3> QED
      BY <3>1, <3>2, <3>3, <2>1, <2>6, <1>2, <1>5 DEF ReaderTypes, BufferOK
  <2>8. ReaderInv'
    BY <2>1, <2>7, Returned
  <2>9. bytes = v
    BY <1>5, <1>8, <2>5, TakenIsNext
  <2>10. ends2 = ends
    BY <1>8, <1>9, <2>9
  <2>11. first = f
    BY <2>3, <2>10 DEF len
  <2>12. SubSeq(bytes, 1, f) = SubSeq(buf, pos + 1, pos + f)
    <3>1. Lies(SubSeq(v, 1, f), from) /\ Len(SubSeq(v, 1, f)) = f
      BY <1>5, <1>8, <2>4, PrefixLies
    <3>2. PICK p \in Nat : p = pos
      BY <1>5
    <3>3. p + f <= Len(buf) /\ a + p = from
      BY <3>2, <1>1, <1>5, <1>6, <2>4
    <3>4. Lies(Part(buf, p, f), a + p) /\ Len(Part(buf, p, f)) = f
      BY <3>3, <1>5, <1>7, <2>4, PartLies
    <3>5. SubSeq(v, 1, f) = Part(buf, p, f)
      BY <3>1, <3>3, <3>4, <1>5, LiesEqual
    <3> QED
      BY <3>2, <3>5, <2>9 DEF Part
  <2>13. IB!Stream!ReadVarint32
    <3>1. ends2 # {}
      BY <1>11, <2>10
    <3>2. IB!Stream!Move("ReadVarint32", "OK", SubSeq(bytes, 1, first), IB!Offset + first)
      BY <2>5, <2>7, <2>11, <2>12
    <3> QED
      BY <3>1, <3>2 DEF IB!Stream!ReadVarint32
  <2> QED
    BY <2>8, <2>13 DEF StreamStep, IB!Stream!Next
<1> QED
  BY <1>10, <1>11

(* A turn of the loop over a varint has taken another byte. *)
LEMMA VarintGoesOn ==
  ASSUME ReaderTypes, call.op = "ReadVarint32", UNCHANGED <<file, call, status, reply, from>>,
         status = "OK",
         BufferOK', filePos' \in Nat, pos' \in Nat, buf' \in Units,
         NEW u, Lies(u, from), IB!Tell' = from + Len(u),
         got' = u, Len(u) <= VarintMax, \A i \in 1 .. Len(u) : u[i] \in High
  PROVE  ReaderInv'
<1>1. u \in Units
  BY DEF Lies
<1>2. ReaderTypes'
  BY <1>1 DEF ReaderTypes
<1>3. Lies(u, from)'
  BY LiesStill
<1>4. Taken(u)'
  BY <1>3 DEF Taken
<1> QED
  BY <1>2, <1>4 DEF ReaderInv

(* A turn of ReadVarint32Fallback (inputbuffer.cc:101-111). *)
LEMMA VarintByteKeeps ==
  ASSUME StreamAssumption, ReaderInv, IB!VarintByte
  PROVE  ReaderInv' /\ StreamStep
<1>1. call.op = "ReadVarint32" /\ Len(got) < VarintMax /\ call # IB!Idle
  BY DEF IB!VarintByte, IB!Idle
<1>2. PICK b \in IB!AtHand(IB!FillBuffer) :
       /\ IB!SetBuffer(b)
       /\ \/ /\ b.buf = <<>>
             /\ pos' = 0
             /\ IB!End(b.status, <<>>)
          \/ /\ b.buf # <<>>
             /\ pos' = b.pos + 1
             /\ LET byte == b.buf[b.pos + 1]
                IN \/ b.status = "IO_ERROR" /\ IB!End("IO_ERROR", <<>>)
                   \/ /\ b.status # "IO_ERROR"
                      /\ byte \notin High
                      /\ IB!End("OK", Append(got, byte))
                   \/ /\ b.status # "IO_ERROR"
                      /\ byte \in High
                      /\ got' = Append(got, byte)
                      /\ UNCHANGED <<file, call, status, reply, from>>
  BY DEF IB!VarintByte
<1>3. ReaderTypes /\ BufferOK
  BY DEF ReaderInv
<1>4. Turn(b)
  <2>1. \A r \in IB!FillBuffer : Refill(r)
    BY <1>3, InputBufferFills DEF ReaderTypes
  <2> QED
    BY <2>1, <1>2, <1>3, AtHandIs
<1>5. PICK s : Taken(s)
  BY <1>1 DEF ReaderInv
<1>6. /\ got = s /\ Lies(s, from) /\ IB!Tell = from + Len(s)
      /\ status = "OK" /\ \A i \in 1 .. Len(s) : s[i] \in High
  BY <1>1, <1>5 DEF Taken
<1>7. /\ Len(s) \in Nat /\ VarintMax \in Nat /\ Len(s) < VarintMax /\ from \in Nat
      /\ file \in Units /\ s \in Units
  BY <1>1, <1>3, <1>6, SizeIs DEF StreamAssumption, ReaderTypes, Lies
<1> DEFINE bytes == IB!Stream!NextBytes(VarintMax)
           ends == {i \in 1 .. Len(bytes) : bytes[i] \notin High}
<1>8. CASE b.buf = <<>>
  <2>1. IB!End(b.status, <<>>) /\ pos' = 0
    BY <1>2, <1>8
  <2>2. IB!Offset = from /\ IB!Stream!Move("ReadVarint32", b.status, <<>>, IB!Tell')
    BY <1>1, <2>1, ReturnMoves
  <2>3. b.pos = 0 /\ b.at = IB!Tell /\ Len(b.buf) = 0 /\ b.status # "OK" /\ b.status \in Statuses
    BY <1>4, <1>8 DEF Turn
  <2>4. file' = file
    BY <2>1 DEF IB!End
  <2>5. 0 \in Nat /\ b.pos + 0 <= Len(b.buf) /\ pos' = b.pos + 0
    BY <2>1, <2>3
  <2>6. /\ BufferOK' /\ filePos' \in Nat /\ pos' \in Nat /\ buf' \in Units /\ file' \in Units
        /\ IB!Tell' = IB!Tell + 0
    BY <1>2, <1>3, <1>4, <2>4, <2>5, BufferMoves
  <2>7. IB!Tell' = from + Len(s)
    BY <2>6, <1>6, <1>7
  <2>8. ReaderInv'
    BY <2>1, <2>6, Returned
  <2>9. CASE b.status = "OUT_OF_RANGE"
    <3>1. from + Len(s) >= Len(file)
      BY <1>4, <1>6, <1>8, <2>9 DEF Turn
    <3>2. bytes = s
      BY <3>1, <1>6, <1>7, <2>2, TakenIsNext
    <3>3. ends = {} /\ Len(bytes) < VarintMax
      BY <3>2, <1>6, <1>7
    <3>4. IB!Stream!Move("ReadVarint32", "OUT_OF_RANGE", <<>>, IB!Offset + Len(bytes))
      BY <2>2, <2>7, <2>9, <3>2
    <3>5. IB!Stream!ReadVarint32
      BY <3>3, <3>4 DEF IB!Stream!ReadVarint32
    <3> QED
      BY <3>5, <2>8 DEF StreamStep, IB!Stream!Next
  <2>10. CASE b.status = "IO_ERROR"
    <3>1. Len(s) \in 0 .. Len(IB!Stream!Ahead)
      BY <1>6, <1>7, <2>2, TakenIsAhead
    <3>2. b.status \in IB!Stream!Errors /\ Len(s) <= VarintMax
      BY <2>10, <1>7 DEF IB!Stream!Errors
    <3>3. IB!Stream!Move("ReadVarint32", b.status, <<>>, IB!Offset + Len(s))
      BY <2>2, <2>7
    <3>4. IB!Stream!ReadFails
      BY <3>1, <3>2, <3>3 DEF IB!Stream!ReadFails
    <3> QED
      BY <3>4, <2>8 DEF StreamStep, IB!Stream!Next
  <2> QED
    BY <2>3, <2>9, <2>10 DEF Statuses
<1>9. CASE b.buf # <<>>
  <2> DEFINE c == b.buf[b.pos + 1]
             t == Append(s, c)
  <2>1. pos' = b.pos + 1
    BY <1>2, <1>9
  <2>2. \/ b.status = "IO_ERROR" /\ IB!End("IO_ERROR", <<>>)
        \/ /\ c \notin High
           /\ IB!End("OK", t)
        \/ /\ c \in High
           /\ got' = t
           /\ UNCHANGED <<file, call, status, reply, from>>
    BY <1>2, <1>6, <1>9
  <2>3. file' = file
    BY <2>2 DEF IB!End
  <2>4. /\ Lies(t, from) /\ Len(t) = Len(s) + 1
        /\ BufferOK' /\ filePos' \in Nat /\ pos' \in Nat /\ buf' \in Units /\ file' \in Units
        /\ IB!Tell' = from + Len(t)
        /\ \A i \in 1 .. Len(s) : t[i] = s[i]
        /\ t[Len(s) + 1] = c
    <3>1. \A d : d = b.buf[b.pos + 1] =>
           /\ Lies(Append(s, d), from) /\ Len(Append(s, d)) = Len(s) + 1
           /\ d \in Nat
           /\ BufferOK' /\ filePos' \in Nat /\ pos' \in Nat /\ buf' \in Units /\ file' \in Units
           /\ IB!Tell' = from + Len(Append(s, d))
           /\ \A i \in 1 .. Len(s) : Append(s, d)[i] = s[i]
           /\ Append(s, d)[Len(s) + 1] = d
      BY <1>2, <1>3, <1>4, <1>6, <1>9, <2>1, <2>3, OneMoreTaken
    <3> QED
      BY <3>1
  <2> HIDE DEF t, c
  <2>5. Len(t) \in Nat /\ Len(t) <= VarintMax
    BY <2>4, <1>7
  <2>6. CASE b.status = "IO_ERROR" /\ IB!End("IO_ERROR", <<>>)
    <3>1. IB!Offset = from /\ IB!Stream!Move("ReadVarint32", "IO_ERROR", <<>>, IB!Tell')
      BY <1>1, <2>6, ReturnMoves
    <3>2. ReaderInv'
      BY <2>4, <2>6, Returned
    <3>3. Len(t) \in 0 .. Len(IB!Stream!Ahead)
      BY <2>4, <1>7, <3>1, TakenIsAhead
    <3>4. IB!Stream!Move("ReadVarint32", "IO_ERROR", <<>>, IB!Offset + Len(t))
      BY <3>1, <2>4
    <3>5. "IO_ERROR" \in IB!Stream!Errors
      BY DEF IB!Stream!Errors
    <3>6. IB!Stream!ReadFails
      BY <2>5, <3>3, <3>4, <3>5 DEF IB!Stream!ReadFails
    <3> QED
      BY <3>2, <3>6 DEF StreamStep, IB!Stream!Next
  <2>7. CASE c \notin High /\ IB!End("OK", t)
    <3>1. IB!Offset = from /\ IB!Stream!Move("ReadVarint32", "OK", t, IB!Tell')
      BY <1>1, <2>7, ReturnMoves
    <3>2. ReaderInv'
      BY <2>4, <2>7, Returned
    <3>3. /\ Lies(bytes, from) /\ Len(bytes) \in Nat /\ Len(t) <= Len(bytes)
          /\ SubSeq(bytes, 1, Len(t)) = t
      BY <2>4, <2>5, <1>7, <3>1, NextBytesBegin
    <3> HIDE DEF bytes
    <3> DEFINE n == Len(t)
    <3>4. n \in Nat /\ n = Len(s) + 1 /\ n \in 1 .. Len(bytes) /\ n \in 1 .. Len(t)
      BY <2>4, <2>5, <3>3, <1>7
    <3> HIDE DEF n
    <3>5. \A i \in 1 .. n : bytes[i] = t[i]
      <4>1. \A i \in 1 .. n : i \in 1 .. Len(bytes)
        BY <3>3, <3>4
      <4>2. \A i \in 1 .. Len(bytes) : bytes[i] = file[from + i]
        BY <3>3 DEF Lies
      <4>3. \A i \in 1 .. n : t[i] = file[from + i]
        BY <2>4 DEF Lies, n
      <4> QED
        BY <4>1, <4>2, <4>3
    <3>6. bytes[n] \notin High
      BY <3>4, <3>5, <2>4, <2>7
    <3>7. \A i \in 1 .. Len(s) : bytes[i] \in High
      BY <3>4, <3>5, <2>4, <1>6, <1>7, SMTT(30)
    <3>8. n \in ends /\ ends \subseteq Nat /\ (\A i \in ends : n <= i) /\ ends # {}
      BY <3>3, <3>4, <3>6, <3>7, <1>7
    <3>9. (CHOOSE i \in ends : \A j \in ends : i <= j) = n
      <4> HIDE DEF ends
      <4> QED
        BY <3>8, FirstOfIs
    <3>10. IB!Stream!ReadVarint32
      <4>1. SubSeq(bytes, 1, n) = t /\ from + n = IB!Tell'
        BY <3>3, <2>4 DEF n
      <4>2. IB!Stream!Move("ReadVarint32", "OK", SubSeq(bytes, 1, n), IB!Offset + n)
        BY <3>1, <4>1
      <4> QED
        BY <4>2, <3>8, <3>9 DEF IB!Stream!ReadVarint32, bytes
    <3> QED
      BY <3>2, <3>10 DEF StreamStep, IB!Stream!Next
  <2>8. CASE c \in High /\ got' = t /\ UNCHANGED <<file, call, status, reply, from>>
    <3>1. \A i \in 1 .. Len(t) : t[i] \in High
      BY <2>4, <2>8, <1>6, <1>7, SMTT(30)
    <3>2. ReaderInv'
      BY <1>1, <1>3, <1>6, <2>4, <2>5, <2>8, <3>1, VarintGoesOn
    <3> QED
      BY <3>2, <2>8, <1>1, TurnStutters DEF StreamStep
  <2> QED
    BY <2>2, <2>6, <2>7, <2>8
<1> QED
  BY <1>8, <1>9

(* An answer given without touching the buffer. *)
LEMMA AnswersInPlace ==
  ASSUME ReaderInv, call # IB!Idle, NEW st, NEW d, IB!EndAt(st, d)
  PROVE  /\ ReaderInv'
         /\ IB!Offset = from
         /\ IB!Stream!Move(call.op, st, d, IB!Tell)
<1>1. IB!End(st, d) /\ UNCHANGED <<filePos, buf, pos>> /\ file' = file
  BY DEF IB!EndAt, IB!End
<1>2. ReaderTypes /\ BufferOK
  BY DEF ReaderInv
<1>3. BufferOK' /\ IB!Tell' = IB!Tell
  BY <1>1, <1>2 DEF BufferOK, IB!Tell, Lies
<1>4. ReaderInv'
  BY <1>1, <1>2, <1>3, Returned DEF ReaderTypes
<1>5. IB!Offset = from /\ IB!Stream!Move(call.op, st, d, IB!Tell')
  BY <1>1, ReturnMoves
<1> QED
  BY <1>3, <1>4, <1>5

(* ReadVarint32Fallback gives up (inputbuffer.cc:112). *)
LEMMA VarintTooLongKeeps ==
  ASSUME StreamAssumption, ReaderInv, IB!VarintTooLong
  PROVE  ReaderInv' /\ StreamStep
<1>1. /\ call.op = "ReadVarint32" /\ Len(got) = VarintMax /\ call # IB!Idle
      /\ IB!EndAt("DATA_LOSS", <<>>)
  BY DEF IB!VarintTooLong, IB!Idle
<1>2. PICK s : Taken(s)
  BY <1>1 DEF ReaderInv
<1>3. /\ got = s /\ Lies(s, from) /\ IB!Tell = from + Len(s) /\ \A i \in 1 .. Len(s) : s[i] \in High
  BY <1>1, <1>2 DEF Taken
<1>4. /\ ReaderInv' /\ IB!Offset = from
      /\ IB!Stream!Move("ReadVarint32", "DATA_LOSS", <<>>, IB!Tell)
  BY <1>1, AnswersInPlace
<1>5. file \in Units /\ from \in Nat /\ VarintMax \in Nat
  BY DEF ReaderInv, ReaderTypes, StreamAssumption
<1> DEFINE bytes == IB!Stream!NextBytes(VarintMax)
<1>6. bytes = s
  BY <1>1, <1>3, <1>4, <1>5, TakenIsNext
<1>7. Len(bytes) = VarintMax /\ {i \in 1 .. Len(bytes) : bytes[i] \notin High} = {}
  BY <1>1, <1>3, <1>6
<1>8. IB!Stream!Move("ReadVarint32", "DATA_LOSS", <<>>, IB!Offset + VarintMax)
  BY <1>1, <1>3, <1>4
<1>9. IB!Stream!ReadVarint32
  BY <1>7, <1>8 DEF IB!Stream!ReadVarint32
<1> QED
  BY <1>4, <1>9 DEF StreamStep, IB!Stream!Next

(* InputBuffer::Seek, inside and outside the buffer                        *)
(* (inputbuffer.cc:141-158).                                               *)
LEMMA SeekKeeps ==
  ASSUME ReaderInv, IB!Seek
  PROVE  ReaderInv' /\ StreamStep
<1>1. /\ call.op = "Seek" /\ call.n >= 0 /\ call # IB!Idle /\ IB!End("OK", <<>>)
      /\ IF filePos - Len(buf) <= call.n /\ call.n < filePos
         THEN pos' = call.n - (filePos - Len(buf)) /\ UNCHANGED <<buf, filePos>>
         ELSE pos' = 0 /\ buf' = <<>> /\ filePos' = call.n
  BY DEF IB!Seek, IB!Idle
<1>2. ReaderTypes /\ BufferOK
  BY DEF ReaderInv
<1>3. call.n \in Nat /\ Len(buf) \in Nat /\ filePos \in Nat /\ file \in Units /\ file' = file
  BY <1>1, <1>2, SizeIs DEF ReaderTypes, IB!End
<1>4. /\ IB!Offset = from /\ IB!Stream!Move("Seek", "OK", <<>>, IB!Tell')
  BY <1>1, ReturnMoves
<1>5. /\ BufferOK' /\ filePos' \in Nat /\ pos' \in Nat /\ buf' \in Units
      /\ IB!Tell' = call.n
  <2>1. CASE filePos - Len(buf) <= call.n /\ call.n < filePos
    <3>1. pos' = call.n - (filePos - Len(buf)) /\ UNCHANGED <<buf, filePos>>
      BY <1>1, <2>1
    <3>2. Lies(buf, filePos - Len(buf))'
      BY <1>2, <1>3, <3>1 DEF BufferOK, Lies
    <3> QED
      BY <3>1, <3>2, <2>1, <1>2, <1>3 DEF BufferOK, ReaderTypes, IB!Tell
  <2>2. CASE ~(filePos - Len(buf) <= call.n /\ call.n < filePos)
    <3>1. pos' = 0 /\ buf' = <<>> /\ filePos' = call.n
      BY <1>1, <2>2
    <3>2. <<>> \in Units /\ Len(<<>>) = 0
      BY DEF Units
    <3>3. Lies(buf, filePos - Len(buf))'
      BY <3>1, <3>2 DEF Lies
    <3> QED
      BY <3>1, <3>2, <3>3, <1>3 DEF BufferOK, IB!Tell
  <2> QED
    BY <2>1, <2>2
<1>6. ReaderInv'
  BY <1>1, <1>3, <1>5, Returned
<1>7. IB!Stream!Seek
  BY <1>1, <1>4, <1>5 DEF IB!Stream!Seek
<1> QED
  BY <1>6, <1>7 DEF StreamStep, IB!Stream!Next

(* A call begins where the stream is. *)
LEMMA BeginKeeps ==
  ASSUME StreamAssumption, ReaderInv, NEW op \in IB!Stream!Operations, NEW n \in Int,
         IB!Begin(op, n)
  PROVE  ReaderInv' /\ StreamStep
<1>1. /\ call = IB!Idle /\ call' = [op |-> op, n |-> n] /\ got' = <<>> /\ status' = "OK"
      /\ reply' = [status |-> "none", data |-> <<>>]
      /\ from' = IB!Tell
      /\ UNCHANGED <<file, filePos, buf, pos>>
  BY DEF IB!Begin
<1>2. ReaderTypes /\ BufferOK
  BY DEF ReaderInv
<1>3. IB!Tell \in Nat /\ IB!Tell' = IB!Tell
  <2>1. Len(buf) \in Nat
    BY <1>2, SizeIs DEF ReaderTypes
  <2> QED
    BY <2>1, <1>1, <1>2 DEF IB!Tell, ReaderTypes, BufferOK
<1>4. <<>> \in Units /\ Len(<<>>) = 0
  BY DEF Units
<1>5. BufferOK'
  BY <1>1, <1>2 DEF BufferOK, Lies
<1>6. ReaderTypes'
  BY <1>1, <1>2, <1>3, <1>4 DEF ReaderTypes, Statuses
<1>7. Taken(<<>>)'
  <2>1. Lies(<<>>, from)'
    BY <1>4 DEF Lies
  <2>2. IB!Tell' = from' + Len(<<>>)
    BY <1>1, <1>3, <1>4
  <2>3. got' = <<>> /\ Text(<<>>) = <<>>
    BY <1>1, TextEmpty
  <2>4. \A u : u = <<>> /\ Lies(u, from)' /\ IB!Tell' = from' + Len(u) /\ got' = u
               /\ got' = Text(u) /\ Len(u) = 0 => Taken(u)'
    BY <1>1, <1>4 DEF Taken, StreamAssumption
  <2> QED
    BY <2>1, <2>2, <2>3, <2>4, <1>4
<1>8. ReaderInv'
  BY <1>5, <1>6, <1>7 DEF ReaderInv
<1>9. IB!Stream!Ask
  <2>1. op # "none"
    BY DEF IB!Stream!Operations
  <2>2. call' # IB!Idle
    BY <1>1, <2>1 DEF IB!Idle
  <2>3. IB!Offset' = IB!Offset
    BY <1>1, <2>2 DEF IB!Offset
  <2> QED
    BY <1>1, <2>3 DEF IB!Stream!Ask, IB!Stream!Idle, IB!Idle, IB!Stream!Nothing
<1> QED
  BY <1>8, <1>9 DEF StreamStep, IB!Stream!Next

(* InputBuffer's reader in order: it keeps no '\n' in a line. *)
InputBufferInv ==
  /\ ReaderInv
  /\ call.op = "ReadLine" => call.n = 0

(* A new InputBuffer is in order and stands at the beginning               *)
(* (inputbuffer.cc:7-13).                                                  *)
LEMMA InputBufferInitially ==
  ASSUME StreamAssumption, IB!Init
  PROVE  InputBufferInv /\ IB!Stream!Init
<1>1. /\ file \in Units /\ filePos = 0 /\ buf = <<>> /\ pos = 0 /\ call = IB!Idle /\ got = <<>>
      /\ status = "OK" /\ reply = [status |-> "none", data |-> <<>>] /\ from = 0
  BY DEF IB!Init, StreamAssumption
<1>2. <<>> \in Units /\ Len(<<>>) = 0
  BY DEF Units
<1>3. ReaderTypes
  BY <1>1, <1>2 DEF ReaderTypes, IB!Idle, Statuses
<1>4. BufferOK
  BY <1>1, <1>2 DEF BufferOK, Lies
<1>5. IB!Tell = 0
  <2>1. filePos = 0 /\ Len(buf) = 0 /\ pos = 0
    BY <1>1, <1>2
  <2> QED
    BY <2>1 DEF IB!Tell
<1>6. IB!Stream!Init
  BY <1>1, <1>5 DEF IB!Stream!Init, IB!Stream!Nothing, IB!Stream!Idle, IB!Idle, IB!Offset
<1> QED
  BY <1>1, <1>3, <1>4, <1>6 DEF InputBufferInv, ReaderInv, IB!Idle

(* A step that goes on with a call, or returns from it, keeps what was     *)
(* asked.                                                                  *)
LEMMA CallStays ==
  ASSUME InputBufferInv, call' = call \/ call' = IB!Idle
  PROVE  call'.op = "ReadLine" => call'.n = 0
BY DEF InputBufferInv, IB!Idle

(* The reader stays in order as long as nothing happens to it. *)
LEMMA ReaderStays ==
  ASSUME ReaderInv, UNCHANGED <<file, filePos, buf, pos, call, got, status, reply, from>>
  PROVE  ReaderInv' /\ StreamStep
<1>1. ReaderTypes' /\ BufferOK'
  BY DEF ReaderInv, ReaderTypes, BufferOK, Lies
<1>2. \A s : Taken(s) => Taken(s)'
  BY DEF Taken, Lies, IB!Tell
<1>3. UNCHANGED IB!Stream!vars
  BY DEF IB!Stream!vars, IB!Offset, IB!Tell
<1> QED
  BY <1>1, <1>2, <1>3 DEF ReaderInv, StreamStep

(* Whatever InputBuffer does, it stays in order, and ByteStream sees the   *)
(* step as one of its own (inputbuffer.cc:17-158).                         *)
LEMMA InputBufferKeeps ==
  ASSUME StreamAssumption, InputBufferInv, [IB!Next]_(IB!vars)
  PROVE  InputBufferInv' /\ StreamStep
<1>1. ReaderInv /\ \A r \in IB!FillBuffer : Refill(r)
  BY InputBufferFills DEF InputBufferInv, ReaderInv, ReaderTypes
<1>2. CASE IB!Call
  <2>1. PICK op \in {"ReadNBytes", "SkipNBytes", "Seek", "ReadLine", "ReadVarint32"}, n \in Int :
          IB!Begin(op, n) /\ (op = "ReadLine" => n = 0)
    BY <1>2 DEF IB!Call, StreamAssumption
  <2>2. op \in IB!Stream!Operations
    BY DEF IB!Stream!Operations
  <2>3. ReaderInv' /\ StreamStep
    BY <1>1, <2>1, <2>2, BeginKeeps
  <2> QED
    BY <2>1, <2>3 DEF InputBufferInv, IB!Begin
<1>3. ASSUME NEW op \in {"ReadNBytes", "SkipNBytes"}, IB!CountTurn(op, IB!FillBuffer)
      PROVE  InputBufferInv' /\ StreamStep
  <2>1. ReaderInv' /\ StreamStep
    BY <1>1, <1>3, CountTurnKeeps
  <2>2. call' = call \/ call' = IB!Idle
    BY <1>3 DEF IB!CountTurn, IB!End
  <2> QED
    BY <2>1, <2>2, CallStays DEF InputBufferInv
<1>4. ASSUME NEW op \in {"ReadNBytes", "SkipNBytes"}, IB!CountEnd(op)
      PROVE  InputBufferInv' /\ StreamStep
  <2>1. ReaderInv' /\ StreamStep
    BY <1>1, <1>4, CountEndKeeps
  <2>2. call' = call \/ call' = IB!Idle
    BY <1>4 DEF IB!CountEnd, IB!EndAt, IB!End
  <2> QED
    BY <2>1, <2>2, CallStays DEF InputBufferInv
<1>5. ASSUME NEW op \in {"ReadNBytes", "SkipNBytes", "Seek"}, IB!Refuse(op)
      PROVE  InputBufferInv' /\ StreamStep
  <2>1. ReaderInv' /\ StreamStep
    BY <1>1, <1>5, RefuseKeeps
  <2>2. call' = call \/ call' = IB!Idle
    BY <1>5 DEF IB!Refuse, IB!EndAt, IB!End
  <2> QED
    BY <2>1, <2>2, CallStays DEF InputBufferInv
<1>6. CASE IB!ReadLine
  <2>1. call.op = "ReadLine" /\ call.n = 0 /\ IB!LineTurn(IB!FillBuffer, <<>>)
    BY <1>6 DEF IB!ReadLine, InputBufferInv
  <2>2. IB!LineTurn(IB!FillBuffer, IF call.n = 1 THEN <<LF>> ELSE <<>>)
    BY <2>1
  <2>3. ReaderInv' /\ StreamStep
    BY <1>1, <2>1, <2>2, LineTurnKeeps
  <2>4. call' = call \/ call' = IB!Idle
    BY <2>1 DEF IB!LineTurn, IB!End
  <2> QED
    BY <2>3, <2>4, CallStays DEF InputBufferInv
<1>7. CASE IB!VarintAtHand
  <2>1. ReaderInv' /\ StreamStep
    BY <1>1, <1>7, VarintAtHandKeeps
  <2>2. call' = call \/ call' = IB!Idle
    BY <1>7 DEF IB!VarintAtHand, IB!EndAt, IB!End
  <2> QED
    BY <2>1, <2>2, CallStays DEF InputBufferInv
<1>8. CASE IB!VarintByte
  <2>1. ReaderInv' /\ StreamStep
    BY <1>1, <1>8, VarintByteKeeps
  <2>2. call' = call \/ call' = IB!Idle
    BY <1>8 DEF IB!VarintByte, IB!End
  <2> QED
    BY <2>1, <2>2, CallStays DEF InputBufferInv
<1>9. CASE IB!VarintTooLong
  <2>1. ReaderInv' /\ StreamStep
    BY <1>1, <1>9, VarintTooLongKeeps
  <2>2. call' = call \/ call' = IB!Idle
    BY <1>9 DEF IB!VarintTooLong, IB!EndAt, IB!End
  <2> QED
    BY <2>1, <2>2, CallStays DEF InputBufferInv
<1>10. CASE IB!Seek
  <2>1. ReaderInv' /\ StreamStep
    BY <1>1, <1>10, SeekKeeps
  <2>2. call' = call \/ call' = IB!Idle
    BY <1>10 DEF IB!Seek, IB!End
  <2> QED
    BY <2>1, <2>2, CallStays DEF InputBufferInv
<1>11. CASE UNCHANGED IB!vars
  BY <1>11, ReaderStays DEF InputBufferInv, IB!vars
<1> QED
  BY <1>2, <1>3, <1>4, <1>5, <1>6, <1>7, <1>8, <1>9, <1>10, <1>11
     DEF IB!Next, IB!ReadNBytes, IB!SkipNBytes

(* The two readers share the loops; the instances' copies are equal. *)
LEMMA SameReader ==
  /\ BS!Idle = IB!Idle /\ BS!Tell = IB!Tell /\ BS!Offset = IB!Offset /\ BS!vars = IB!vars
  /\ BS!Init <=> IB!Init
  /\ \A op, n : BS!Begin(op, n) <=> IB!Begin(op, n)
  /\ \A st, d : BS!End(st, d) <=> IB!End(st, d)
  /\ \A st, d : BS!EndAt(st, d) <=> IB!EndAt(st, d)
  /\ \A st : BS!CountStatus(st) = IB!CountStatus(st)
  /\ \A op : BS!Refuse(op) <=> IB!Refuse(op)
  /\ \A op : BS!CountEnd(op) <=> IB!CountEnd(op)
  /\ \A op, refills : BS!CountTurn(op, refills) <=> IB!CountTurn(op, refills)
  /\ \A refills, eol : BS!LineTurn(refills, eol) <=> IB!LineTurn(refills, eol)
<1>1. /\ BS!Idle = IB!Idle /\ BS!Tell = IB!Tell /\ BS!Offset = IB!Offset /\ BS!vars = IB!vars
  BY DEF BS!Idle, IB!Idle, BS!Tell, IB!Tell, BS!Offset, IB!Offset, BS!vars, IB!vars
<1>2. BS!Init <=> IB!Init
  BY DEF BS!Init, IB!Init, BS!Idle, IB!Idle
<1>3. \A op, n : BS!Begin(op, n) <=> IB!Begin(op, n)
  BY DEF BS!Begin, IB!Begin, BS!Idle, IB!Idle, BS!Tell, IB!Tell
<1>4. \A st, d : BS!End(st, d) <=> IB!End(st, d)
  BY DEF BS!End, IB!End, BS!Idle, IB!Idle
<1>5. \A st, d : BS!EndAt(st, d) <=> IB!EndAt(st, d)
  BY <1>4 DEF BS!EndAt, IB!EndAt
<1>6. \A st : BS!CountStatus(st) = IB!CountStatus(st)
  BY DEF BS!CountStatus, IB!CountStatus
<1>7. \A op : BS!Refuse(op) <=> IB!Refuse(op)
  BY <1>5 DEF BS!Refuse, IB!Refuse
<1>8. \A op : BS!CountEnd(op) <=> IB!CountEnd(op)
  BY <1>5, <1>6 DEF BS!CountEnd, IB!CountEnd
<1>9. /\ \A refills : BS!AtHand(refills) = IB!AtHand(refills)
      /\ \A b : BS!SetBuffer(b) <=> IB!SetBuffer(b)
      /\ \A n, m : BS!Least(n, m) = IB!Least(n, m)
  BY DEF BS!AtHand, IB!AtHand, BS!SetBuffer, IB!SetBuffer, BS!Least, IB!Least
<1>10. \A op, refills : BS!CountTurn(op, refills) <=> IB!CountTurn(op, refills)
  BY <1>4, <1>9 DEF BS!CountTurn, IB!CountTurn
<1>11. \A refills, eol : BS!LineTurn(refills, eol) <=> IB!LineTurn(refills, eol)
  BY <1>4, <1>9 DEF BS!LineTurn, IB!LineTurn
<1> QED
  BY <1>1, <1>2, <1>3, <1>4, <1>5, <1>6, <1>7, <1>8, <1>10, <1>11

(* ... and so are the copies of ByteStream they refine. *)
LEMMA SameStream ==
  /\ BS!Stream!Init <=> IB!Stream!Init
  /\ BS!Stream!Next <=> IB!Stream!Next
  /\ BS!Stream!vars = IB!Stream!vars
  /\ (BS!Stream!vars)' = (IB!Stream!vars)'
<1>1. BS!Offset = IB!Offset /\ BS!Offset' = IB!Offset'
  BY DEF BS!Idle, IB!Idle, BS!Tell, IB!Tell, BS!Offset, IB!Offset
<1>2. BS!Stream!vars = IB!Stream!vars /\ (BS!Stream!vars)' = (IB!Stream!vars)'
  BY <1>1 DEF BS!Stream!vars, IB!Stream!vars
<1>3. BS!Stream!Init <=> IB!Stream!Init
  BY <1>1 DEF BS!Stream!Init, IB!Stream!Init, BS!Stream!Idle, IB!Stream!Idle,
              BS!Stream!Nothing, IB!Stream!Nothing
<1>4. \A op, st, d, n : BS!Stream!Move(op, st, d, n) <=> IB!Stream!Move(op, st, d, n)
  BY <1>1 DEF BS!Stream!Move, IB!Stream!Move, BS!Stream!Idle, IB!Stream!Idle,
         BS!Stream!Answer, IB!Stream!Answer
<1>5. BS!Stream!Ask <=> IB!Stream!Ask
  BY <1>1 DEF BS!Stream!Ask, IB!Stream!Ask, BS!Stream!Idle, IB!Stream!Idle,
          BS!Stream!Nothing, IB!Stream!Nothing, BS!Stream!Operations, IB!Stream!Operations
<1>6. BS!Stream!Refuse <=> IB!Stream!Refuse
  BY <1>1, <1>4 DEF BS!Stream!Refuse, IB!Stream!Refuse
<1>7. /\ BS!Stream!Ahead = IB!Stream!Ahead
      /\ \A n : BS!Stream!NextBytes(n) = IB!Stream!NextBytes(n)
      /\ \A n, m : BS!Stream!Most(n, m) = IB!Stream!Most(n, m)
      /\ \A s : BS!Stream!Text(s) = IB!Stream!Text(s)
  BY <1>1 DEF BS!Stream!Ahead, IB!Stream!Ahead, BS!Stream!NextBytes, IB!Stream!NextBytes,
          BS!Stream!Least, IB!Stream!Least, BS!Stream!Most, IB!Stream!Most,
          BS!Stream!Text, IB!Stream!Text
<1>8. (BS!Stream!ReadNBytes <=> IB!Stream!ReadNBytes) /\ (BS!Stream!SkipNBytes <=> IB!Stream!SkipNBytes)
  BY <1>1, <1>4, <1>7 DEF BS!Stream!ReadNBytes, IB!Stream!ReadNBytes,
                          BS!Stream!SkipNBytes, IB!Stream!SkipNBytes
<1>9. BS!Stream!ReadLine <=> IB!Stream!ReadLine
  BY <1>1, <1>4, <1>7 DEF BS!Stream!ReadLine, IB!Stream!ReadLine
<1>10. BS!Stream!ReadVarint32 <=> IB!Stream!ReadVarint32
  BY <1>1, <1>4, <1>7 DEF BS!Stream!ReadVarint32, IB!Stream!ReadVarint32
<1>11. (BS!Stream!Seek <=> IB!Stream!Seek) /\ (BS!Stream!Reset <=> IB!Stream!Reset)
  BY <1>1, <1>4, <1>7 DEF BS!Stream!Seek, IB!Stream!Seek, BS!Stream!Reset, IB!Stream!Reset
<1>12. BS!Stream!ReadFails <=> IB!Stream!ReadFails
  BY <1>1, <1>4, <1>7 DEF BS!Stream!ReadFails, IB!Stream!ReadFails, BS!Stream!Errors,
      IB!Stream!Errors
<1>13. BS!Stream!SeekFails <=> IB!Stream!SeekFails
  BY <1>1, <1>4 DEF BS!Stream!SeekFails, IB!Stream!SeekFails
<1> QED
  BY <1>2, <1>3, <1>5, <1>6, <1>8, <1>9, <1>10, <1>11, <1>12, <1>13
     DEF BS!Stream!Next, IB!Stream!Next

(* How many bytes a count finds. *)
LEMMA NextBytesSize ==
  ASSUME file \in Units, from \in Nat, IB!Offset = from, NEW n \in Nat, NEW e \in Nat,
         from <= e, e <= Len(file), from + n = e \/ (from + n >= e /\ e = Len(file))
  PROVE  Len(IB!Stream!NextBytes(n)) = e - from
<1>1. Len(file) \in Nat
  BY FileSize
<1>2. IB!Stream!NextBytes(n) = SubSeq(file, from + 1, e)
  <2>1. (IF from + n <= Len(file) THEN from + n ELSE Len(file)) = e
    BY <1>1
  <2> QED
    BY <2>1 DEF IB!Stream!NextBytes, IB!Stream!Least
<1> QED
  BY <1>2, FilePart

(* While the stream below skips: where it is, and how far it has to go. *)
Skipping ==
  /\ ReaderTypes
  /\ call.op \in {"SkipNBytes", "Seek"} /\ call.n >= 0
  /\ from <= Len(file)
  /\ call.op = "SkipNBytes" => from <= filePos /\ filePos + left = from + call.n
  /\ call.op = "Seek" => (call.n < from \/ from <= filePos) /\ filePos + left = call.n

(* The inductive invariant of BufferedInputStream. *)
BufferedInv ==
  /\ left \in Int /\ left >= BS!NotSkipping
  /\ filePos <= Len(file)
  /\ IF left = BS!NotSkipping
     THEN ReaderInv /\ (call.op = "SkipNBytes" => got = <<>>)
     ELSE Skipping

(* The call that starts to skip, or that seeks, stands where it began. *)
LEMMA StandsAtFrom ==
  ASSUME ReaderInv, call.op = "Seek" \/ (call.op = "SkipNBytes" /\ got = <<>>)
  PROVE  IB!Tell = from /\ from \in Nat /\ call # IB!Idle
<1>1. call # IB!Idle
  BY DEF IB!Idle
<1>2. PICK s : Taken(s)
  BY <1>1 DEF ReaderInv
<1>3. s = <<>> /\ IB!Tell = from + Len(s) /\ Len(s) = 0
  BY <1>2, SizeIs DEF Taken, Lies
<1> QED
  BY <1>1, <1>3 DEF ReaderInv, ReaderTypes

(* A turn does not pass the end of the file. *)
LEMMA InsideFile ==
  ASSUME ReaderTypes, BufferOK, filePos <= Len(file), file' = file,
         NEW refills, \A r \in refills : Refill(r),
         NEW b \in IB!AtHand(refills), IB!SetBuffer(b)
  PROVE  filePos' <= Len(file')
<1>1. Turn(b)
  BY AtHandIs
<1>2. Len(b.buf) \in Nat /\ (b.buf = <<>> <=> Len(b.buf) = 0) /\ Len(file) \in Nat /\ Len(buf) \in Nat
  BY <1>1, SizeIs, FileSize DEF Turn, ReaderTypes
<1>3. b.at <= Len(file)
  <2>1. CASE b.buf = <<>>
    <3>1. b.at = filePos - (Len(buf) - pos)
      BY <1>1, <2>1 DEF Turn, IB!Tell
    <3> QED
      BY <3>1, <1>2 DEF ReaderTypes, BufferOK
  <2>2. CASE b.buf # <<>>
    BY <1>1, <1>2, <2>2 DEF Turn, Lies
  <2> QED
    BY <2>1, <2>2
<1> QED
  BY <1>3 DEF IB!SetBuffer

(* A call that is over with its buffer given up. *)
LEMMA BufferGivenUp ==
  ASSUME file \in Units, file' = file, filePos' \in Nat, filePos' <= Len(file),
         buf' = <<>>, pos' = 0, left' = BS!NotSkipping,
         NEW st, NEW d, IB!End(st, d)
  PROVE  BufferedInv' /\ IB!Tell' = filePos'
<1>1. <<>> \in Units /\ Len(<<>>) = 0
  BY DEF Units
<1>2. BufferOK'
  BY <1>1 DEF BufferOK, Lies
<1>3. ReaderInv'
  BY <1>1, <1>2, Returned
<1>4. IB!Tell' = filePos'
  <2>1. pos' = 0 /\ Len(buf') = 0
    BY <1>1
  <2>2. IB!Tell' = filePos' - (Len(buf') - pos')
    BY DEF IB!Tell
  <2>3. IB!Tell' = filePos' - (0 - 0)
    BY <2>1, <2>2
  <2>4. \A x \in Nat : x - (0 - 0) = x
    OBVIOUS
  <2> QED
    BY <2>3, <2>4
<1>5. call'.op # "SkipNBytes"
  BY DEF IB!End, IB!Idle
<1> QED
  BY <1>3, <1>4, <1>5 DEF BufferedInv, BS!NotSkipping

(* The stream below has skipped what was asked                             *)
(* (buffered_inputstream.cc:108-113).                                      *)
LEMMA SkipEndKeeps ==
  ASSUME BufferedInv, BS!SkipEnd
  PROVE  BufferedInv' /\ StreamStep
<1>1. /\ left = 0 /\ left' = BS!NotSkipping /\ buf' = <<>> /\ pos' = 0 /\ filePos' = filePos
      /\ IB!End("OK", <<>>)
  BY SameReader DEF BS!SkipEnd, BS!SkipDone
<1>2. Skipping /\ ReaderTypes /\ filePos <= Len(file) /\ call # IB!Idle
  BY <1>1 DEF BufferedInv, BS!NotSkipping, Skipping, IB!Idle
<1>3. file' = file /\ file \in Units /\ filePos \in Nat /\ from \in Nat /\ call.n \in Int
      /\ Len(file) \in Nat
  BY <1>1, <1>2, FileSize DEF ReaderTypes, IB!End
<1>4. BufferedInv' /\ IB!Tell' = filePos
  BY <1>1, <1>2, <1>3, BufferGivenUp
<1>5. IB!Offset = from /\ IB!Stream!Move(call.op, "OK", <<>>, filePos)
  BY <1>1, <1>2, <1>4, ReturnMoves
<1>6. CASE call.op = "SkipNBytes"
  <2>1. from <= filePos /\ filePos = from + call.n /\ call.n \in Nat
    BY <1>1, <1>2, <1>3, <1>6 DEF Skipping
  <2>2. Len(IB!Stream!NextBytes(call.n)) = filePos - from
    BY <1>2, <1>3, <1>5, <2>1, NextBytesSize
  <2>3. /\ Len(IB!Stream!NextBytes(call.n)) = call.n
        /\ from + Len(IB!Stream!NextBytes(call.n)) = filePos
    BY <2>1, <2>2, <1>3
  <2>4. IB!Stream!SkipNBytes
    BY <1>5, <1>6, <2>1, <2>3 DEF IB!Stream!SkipNBytes
  <2> QED
    BY <2>4, <1>4 DEF StreamStep, IB!Stream!Next
<1>7. CASE call.op = "Seek"
  <2>1. filePos = call.n /\ call.n >= 0
    BY <1>1, <1>2, <1>3, <1>7 DEF Skipping
  <2>2. IB!Stream!Seek
    BY <1>5, <1>7, <2>1 DEF IB!Stream!Seek
  <2> QED
    BY <2>2, <1>4 DEF StreamStep, IB!Stream!Next
<1> QED
  BY <1>2, <1>6, <1>7 DEF Skipping

(* The stream below skips another piece, or cannot                         *)
(* (inputstream_interface.cc:11-23).                                       *)
LEMMA SkipTurnKeeps ==
  ASSUME StreamAssumption, BufferedInv, BS!SkipTurn
  PROVE  BufferedInv' /\ StreamStep
<1> DEFINE n == BS!Least(MaxSkip, left)
<1>1. PICK r \in BS!StreamRead(file, filePos, n) :
        /\ filePos' = r.at
        /\ IF r.status = "OK"
           THEN left' = left - n /\ UNCHANGED <<file, buf, pos, call, got, status, reply, from>>
           ELSE BS!SkipDone(r.status)
  BY DEF BS!SkipTurn
<1>2. left > 0 /\ left \in Int
  BY DEF BS!SkipTurn, BufferedInv
<1>3. Skipping /\ ReaderTypes /\ filePos <= Len(file) /\ call # IB!Idle
  BY <1>2 DEF BufferedInv, BS!NotSkipping, Skipping, IB!Idle
<1>4. /\ file \in Units /\ filePos \in Nat /\ from \in Nat /\ call.n \in Int /\ Len(file) \in Nat
      /\ from <= Len(file) /\ call.n >= 0
  BY <1>3, FileSize DEF ReaderTypes, Skipping
<1>5. n \in Nat \ {0} /\ n <= left
  BY <1>2 DEF BS!Least, StreamAssumption
<1> HIDE DEF n
<1>6. /\ r.status \in Statuses
      /\ Lies(r.data, filePos)
      /\ r.at = filePos + Len(r.data)
      /\ Len(r.data) <= n
      /\ r.status = "OK" => Len(r.data) = n
      /\ r.status = "OUT_OF_RANGE" => r.at >= Len(file) /\ Len(r.data) # n
  BY <1>1, <1>4, <1>5, StreamBrings
<1>7. Len(r.data) \in Nat /\ (r.data = <<>> <=> Len(r.data) = 0)
  BY <1>6, SizeIs DEF Lies
<1>8. r.at \in Nat /\ filePos <= r.at /\ r.at <= filePos + left /\ r.at <= Len(file)
  <2>1. r.at \in Nat /\ filePos <= r.at /\ r.at <= filePos + left
    BY <1>2, <1>4, <1>5, <1>6, <1>7
  <2>2. r.at <= Len(file)
    BY <1>3, <1>4, <1>6, <1>7 DEF Lies
  <2> QED
    BY <2>1, <2>2
<1>9. CASE r.status = "OK"
  <2>1. left' = left - n /\ UNCHANGED <<file, buf, pos, call, got, status, reply, from>>
    BY <1>1, <1>9
  <2>2. r.at = filePos + n
    BY <1>6, <1>9
  <2>3. left' \in Nat /\ filePos' + left' = filePos + left
    BY <1>1, <1>2, <1>4, <1>5, <2>1, <2>2
  <2>4. ReaderTypes'
    BY <1>1, <1>3, <1>8, <2>1 DEF ReaderTypes
  <2>5. filePos <= filePos'
    BY <1>1, <1>8
  <2>6. Skipping'
    BY <1>3, <1>4, <1>8, <1>1, <2>1, <2>3, <2>4, <2>5 DEF Skipping
  <2>7. BufferedInv'
    BY <1>1, <1>8, <2>1, <2>3, <2>6 DEF BufferedInv, BS!NotSkipping
  <2> QED
    BY <2>7, <2>1, <1>3, TurnStutters DEF StreamStep
<1>10. CASE r.status # "OK"
  <2>1. left' = BS!NotSkipping /\ buf' = <<>> /\ pos' = 0 /\ IB!End(r.status, <<>>) /\ file' = file
    BY <1>1, <1>10, SameReader DEF BS!SkipDone, IB!End
  <2>2. BufferedInv' /\ IB!Tell' = r.at
    BY <1>1, <1>4, <1>8, <2>1, BufferGivenUp
  <2>3. IB!Offset = from /\ IB!Stream!Move(call.op, r.status, <<>>, r.at)
    BY <1>3, <2>1, <2>2, ReturnMoves
  <2>4. CASE call.op = "SkipNBytes"
    <3>1. from <= filePos /\ filePos + left = from + call.n
      BY <1>3, <2>4 DEF Skipping
    <3>2. CASE r.status = "OUT_OF_RANGE"
      <4>1. r.at = Len(file) /\ r.at < filePos + left
        BY <1>2, <1>4, <1>5, <1>6, <1>7, <1>8, <3>2
      <4>2. call.n \in Nat /\ from <= Len(file) /\ from + call.n >= Len(file) /\ from + call.n # Len(file)
        BY <1>2, <1>4, <3>1, <4>1
      <4>3. Len(IB!Stream!NextBytes(call.n)) = Len(file) - from
        <5>1. PICK e \in Nat : e = Len(file)
          BY <1>4
        <5>2. from <= e /\ e <= Len(file) /\ from + call.n >= e
          BY <4>2, <5>1
        <5>3. Len(IB!Stream!NextBytes(call.n)) = e - from
          BY <1>4, <2>3, <4>2, <5>1, <5>2, NextBytesSize
        <5> QED
          BY <5>1, <5>3
      <4>4. /\ Len(IB!Stream!NextBytes(call.n)) # call.n
            /\ from + Len(IB!Stream!NextBytes(call.n)) = r.at
        BY <1>4, <4>1, <4>2, <4>3
      <4>5. IB!Stream!SkipNBytes
        BY <2>3, <2>4, <3>2, <4>2, <4>4 DEF IB!Stream!SkipNBytes
      <4> QED
        BY <4>5, <2>2 DEF StreamStep, IB!Stream!Next
    <3>3. CASE r.status = "IO_ERROR"
      <4>1. PICK k \in Nat : r.at = from + k
        <5>1. r.at - from \in Nat /\ r.at = from + (r.at - from)
          BY <1>4, <1>8, <3>1
        <5> QED
          BY <5>1
      <4>2. k <= call.n /\ k <= Len(file) - from
        BY <1>2, <1>4, <1>8, <3>1, <4>1
      <4>3. k \in 0 .. Len(IB!Stream!Ahead)
        <5>1. Lies(<<>>, from)
          BY EmptySeq DEF Lies, Units
        <5>2. Len(IB!Stream!Ahead) \in Nat /\ from + Len(IB!Stream!Ahead) = Len(file)
          BY <1>4, <2>3, <5>1, TakenIsAhead
        <5> QED
          BY <5>2, <4>2, <1>4
      <4>4. IB!Stream!ReadFails
        BY <2>3, <2>4, <3>3, <4>1, <4>2, <4>3 DEF IB!Stream!ReadFails, IB!Stream!Errors
      <4> QED
        BY <4>4, <2>2 DEF StreamStep, IB!Stream!Next
    <3> QED
      BY <3>2, <3>3, <1>6, <1>10 DEF Statuses
  <2>5. CASE call.op = "Seek"
    <3>1. (call.n < from \/ from <= filePos) /\ filePos + left = call.n
      BY <1>3, <2>5 DEF Skipping
    <3>2. CASE r.status = "OUT_OF_RANGE"
      <4>1. r.at = Len(file) /\ call.n > Len(file)
        BY <1>2, <1>4, <1>5, <1>6, <1>7, <1>8, <3>1, <3>2
      <4>2. IB!Stream!Most(from, Len(file)) = Len(file)
        BY <1>4 DEF IB!Stream!Most
      <4>3. IB!Stream!Seek
        BY <2>3, <2>5, <3>2, <4>1, <4>2, <1>4 DEF IB!Stream!Seek
      <4> QED
        BY <4>3, <2>2 DEF StreamStep, IB!Stream!Next
    <3>3. CASE r.status = "IO_ERROR"
      <4>1. r.at \in 0 .. Len(file) /\ r.at <= call.n /\ (call.n < from \/ r.at >= from)
        BY <1>4, <1>8, <3>1
      <4>2. IB!Stream!SeekFails
        BY <2>3, <2>5, <3>3, <4>1 DEF IB!Stream!SeekFails
      <4> QED
        BY <4>2, <2>2 DEF StreamStep, IB!Stream!Next
    <3> QED
      BY <3>2, <3>3, <1>6, <1>10 DEF Statuses
  <2> QED
    BY <2>4, <2>5, <1>3 DEF Skipping
<1> QED
  BY <1>9, <1>10

(* A move that ends where the caller wanted, inside the buffer. *)
LEMMA MoveInBuffer ==
  ASSUME ReaderInv, filePos <= Len(file), call.op \in {"SkipNBytes", "Seek"}, left = BS!NotSkipping,
         NEW n \in Nat, pos + n < Len(buf), pos' = pos + n, filePos' = filePos, buf' = buf,
         IB!End("OK", <<>>), left' = left
  PROVE  BufferedInv' /\ IB!Tell' = IB!Tell + n /\ IB!Tell + n <= Len(file)
<1>1. /\ ReaderTypes /\ BufferOK /\ file' = file /\ Len(buf) \in Nat /\ filePos \in Nat /\ pos \in Nat
      /\ Len(file) \in Nat
  BY SizeIs, FileSize DEF ReaderInv, ReaderTypes, IB!End
<1>2. BufferOK'
  BY <1>1 DEF BufferOK, Lies
<1>3. ReaderInv'
  BY <1>1, <1>2, Returned DEF ReaderTypes
<1>4. call'.op # "SkipNBytes"
  BY DEF IB!End, IB!Idle
<1>5. IB!Tell' = IB!Tell + n /\ IB!Tell + n <= Len(file)
  BY <1>1 DEF IB!Tell
<1> QED
  BY <1>1, <1>3, <1>4, <1>5 DEF BufferedInv, BS!NotSkipping

(* A move that leaves the buffer lets the stream below skip. *)
LEMMA MoveBegins ==
  ASSUME ReaderInv, IB!Tell <= Len(file), filePos' <= Len(file), filePos' \in Nat,
         call.op \in {"SkipNBytes", "Seek"}, call.n >= 0, from = IB!Tell,
         buf' \in Units, pos' \in Nat, left' \in Nat,
         UNCHANGED <<file, call, got, status, reply, from>>,
         call.op = "SkipNBytes" => from <= filePos' /\ filePos' + left' = from + call.n,
         call.op = "Seek" => (call.n < from \/ from <= filePos') /\ filePos' + left' = call.n
  PROVE  BufferedInv' /\ StreamStep
<1>1. ReaderTypes'
  BY DEF ReaderInv, ReaderTypes
<1>2. Skipping'
  BY <1>1 DEF Skipping
<1>3. BufferedInv'
  BY <1>2 DEF BufferedInv, BS!NotSkipping
<1>4. call # IB!Idle
  BY DEF IB!Idle
<1> QED
  BY <1>3, <1>4, TurnStutters DEF StreamStep

(* Where a call that moves begins. *)
LEMMA MoveFrom ==
  ASSUME BufferedInv, left = BS!NotSkipping, call.op \in {"SkipNBytes", "Seek"}
  PROVE  /\ ReaderInv /\ ReaderTypes /\ BufferOK
         /\ IB!Tell = from /\ from \in Nat /\ call # IB!Idle /\ IB!Offset = from
         /\ filePos <= Len(file)
         /\ from <= filePos /\ from = filePos - (Len(buf) - pos)
         /\ file \in Units /\ filePos \in Nat /\ pos \in Nat /\ Len(buf) \in Nat
         /\ pos <= Len(buf) /\ Len(file) \in Nat /\ call.n \in Int
<1>1. ReaderInv /\ filePos <= Len(file)
  BY DEF BufferedInv
<1>2. IB!Tell = from /\ from \in Nat /\ call # IB!Idle
  BY <1>1, StandsAtFrom DEF BufferedInv
<1>3. ReaderTypes /\ BufferOK /\ Len(buf) \in Nat /\ Len(file) \in Nat
  BY <1>1, SizeIs, FileSize DEF ReaderInv, ReaderTypes
<1>4. from <= filePos /\ from = filePos - (Len(buf) - pos)
  BY <1>2, <1>3 DEF IB!Tell, ReaderTypes, BufferOK
<1> QED
  BY <1>1, <1>2, <1>3, <1>4 DEF ReaderTypes, BufferOK, IB!Offset

(* BufferedInputStream::SkipNBytes, inside the buffer and past it          *)
(* (buffered_inputstream.cc:96-114).                                       *)
LEMMA SkipNBytesKeeps ==
  ASSUME BufferedInv, BS!SkipNBytes
  PROVE  BufferedInv' /\ StreamStep
<1>1. /\ call.op = "SkipNBytes" /\ call.n >= 0 /\ left = BS!NotSkipping
      /\ BS!StartSkip(call.n, buf, pos, filePos)
  BY DEF BS!SkipNBytes
<1>2. /\ ReaderInv /\ ReaderTypes /\ BufferOK
      /\ IB!Tell = from /\ from \in Nat /\ call # IB!Idle /\ IB!Offset = from
      /\ filePos <= Len(file)
      /\ from <= filePos /\ from = filePos - (Len(buf) - pos)
      /\ file \in Units /\ filePos \in Nat /\ pos \in Nat /\ Len(buf) \in Nat
      /\ pos <= Len(buf) /\ Len(file) \in Nat /\ call.n \in Int
  BY <1>1, MoveFrom
<1>3. call.n \in Nat /\ filePos' = filePos /\ buf' = buf
  BY <1>1, <1>2 DEF BS!StartSkip
<1>4. CASE pos + call.n < Len(buf)
  <2>1. pos' = pos + call.n /\ IB!End("OK", <<>>) /\ left' = left
    BY <1>1, <1>4, SameReader DEF BS!StartSkip
  <2>2. BufferedInv' /\ IB!Tell' = from + call.n /\ from + call.n <= Len(file)
    BY <1>1, <1>2, <1>3, <1>4, <2>1, MoveInBuffer
  <2>3. IB!Stream!Move("SkipNBytes", "OK", <<>>, from + call.n)
    BY <1>1, <1>2, <2>1, <2>2, ReturnMoves
  <2>4. Len(IB!Stream!NextBytes(call.n)) = call.n
    <3>1. PICK e \in Nat : e = from + call.n
      BY <1>2, <1>3
    <3>2. from <= e /\ e <= Len(file) /\ from + call.n = e
      BY <3>1, <1>2, <1>3, <2>2
    <3>3. PICK n \in Nat : n = call.n
      BY <1>3
    <3>4. Len(IB!Stream!NextBytes(n)) = e - from
      BY <3>2, <3>3, <1>2, NextBytesSize
    <3> QED
      BY <3>2, <3>3, <3>4, <1>2, SMTT(30)
  <2>5. IB!Stream!SkipNBytes
    BY <1>1, <1>2, <2>3, <2>4 DEF IB!Stream!SkipNBytes
  <2> QED
    BY <2>2, <2>5 DEF StreamStep, IB!Stream!Next
<1>5. CASE ~(pos + call.n < Len(buf))
  <2>1. left' = call.n - (Len(buf) - pos) /\ pos' = pos /\ UNCHANGED <<file, call, got, status,
      reply, from>>
    BY <1>1, <1>5 DEF BS!StartSkip
  <2>2. left' \in Nat /\ filePos' + left' = from + call.n /\ IB!Tell <= Len(file)
    BY <1>2, <1>3, <1>5, <2>1
  <2>3. buf' \in Units /\ pos' \in Nat /\ filePos' \in Nat /\ filePos' <= Len(file) /\ from <= filePos'
    BY <1>2, <1>3, <2>1 DEF ReaderTypes
  <2> QED
    BY <1>1, <1>2, <2>1, <2>2, <2>3, MoveBegins
<1> QED
  BY <1>4, <1>5

(* BufferedInputStream::Seek, forwards and by Reset backwards              *)
(* (buffered_inputstream.cc:120-135).                                      *)
LEMMA BufferedSeekKeeps ==
  ASSUME BufferedInv, BS!Seek
  PROVE  BufferedInv' /\ StreamStep
<1>1. call.op = "Seek" /\ call.n >= 0 /\ left = BS!NotSkipping
  BY DEF BS!Seek
<1>2. /\ ReaderInv /\ ReaderTypes /\ BufferOK
      /\ IB!Tell = from /\ from \in Nat /\ call # IB!Idle /\ IB!Offset = from
      /\ filePos <= Len(file)
      /\ from <= filePos /\ from = filePos - (Len(buf) - pos)
      /\ file \in Units /\ filePos \in Nat /\ pos \in Nat /\ Len(buf) \in Nat
      /\ pos <= Len(buf) /\ Len(file) \in Nat /\ call.n \in Int
  BY <1>1, MoveFrom
<1>3. /\ call.n < from => BS!StartSkip(call.n, <<>>, 0, 0)
      /\ ~(call.n < from) => BS!StartSkip(call.n - from, buf, pos, filePos)
  BY <1>2, SameReader DEF BS!Seek
<1>4. CASE call.n < from
  <2>1. /\ filePos' = 0 /\ buf' = <<>>
        /\ IF 0 + call.n < Len(<<>>)
           THEN pos' = 0 + call.n /\ BS!End("OK", <<>>) /\ UNCHANGED left
           ELSE left' = call.n - (Len(<<>>) - 0) /\ pos' = 0
                /\ UNCHANGED <<file, call, got, status, reply, from>>
    BY <1>3, <1>4 DEF BS!StartSkip
  <2>2. Len(<<>>) = 0 /\ <<>> \in Units
    BY DEF Units
  <2>3. ~(0 + call.n < Len(<<>>)) /\ call.n - (Len(<<>>) - 0) = call.n
    BY <1>1, <1>2, <2>2
  <2>4. /\ filePos' = 0 /\ buf' = <<>> /\ left' = call.n /\ pos' = 0
        /\ UNCHANGED <<file, call, got, status, reply, from>>
    BY <2>1, <2>3
  <2>5. left' \in Nat /\ filePos' + left' = call.n /\ IB!Tell <= Len(file)
        /\ filePos' <= Len(file) /\ filePos' \in Nat /\ buf' \in Units /\ pos' \in Nat
    BY <1>1, <1>2, <2>2, <2>4
  <2> QED
    BY <1>1, <1>2, <1>4, <2>4, <2>5, MoveBegins
<1>5. CASE ~(call.n < from)
  <2>1. PICK n \in Nat : n = call.n - from
    BY <1>2, <1>5
  <2>2. BS!StartSkip(n, buf, pos, filePos)
    BY <1>3, <1>5, <2>1
  <2>3. filePos' = filePos /\ buf' = buf
    BY <2>2 DEF BS!StartSkip
  <2>4. CASE pos + n < Len(buf)
    <3>1. pos' = pos + n /\ IB!End("OK", <<>>) /\ left' = left
      BY <2>2, <2>4, SameReader DEF BS!StartSkip
    <3>2. BufferedInv' /\ IB!Tell' = from + n /\ from + n <= Len(file)
      BY <1>1, <1>2, <2>3, <2>4, <3>1, MoveInBuffer
    <3>3. IB!Stream!Move("Seek", "OK", <<>>, from + n)
      BY <1>1, <1>2, <3>1, <3>2, ReturnMoves
    <3>4. from + n = call.n
      BY <1>2, <2>1
    <3>5. IB!Stream!Seek
      BY <1>1, <3>3, <3>4 DEF IB!Stream!Seek
    <3> QED
      BY <3>2, <3>5 DEF StreamStep, IB!Stream!Next
  <2>5. CASE ~(pos + n < Len(buf))
    <3>1. left' = n - (Len(buf) - pos) /\ pos' = pos /\ UNCHANGED <<file, call, got, status,
        reply, from>>
      BY <2>2, <2>5 DEF BS!StartSkip
    <3>2. left' \in Nat /\ filePos' + left' = call.n /\ IB!Tell <= Len(file)
      <4>1. \A f, l, p, g, c, x \in Int :
              /\ g = f - (l - p) /\ c >= 0 /\ x = c - g /\ ~(p + x < l)
              => x - (l - p) \in Nat /\ f + (x - (l - p)) = c
        OBVIOUS
      <4>2. left' \in Nat /\ filePos + left' = call.n
        <5>1. PICK l \in Int : l = Len(buf)
          BY <1>2
        <5>2. PICK c \in Int : c = call.n
          BY <1>2
        <5>3. left' = n - (l - pos) /\ from = filePos - (l - pos) /\ n = c - from /\ ~(pos + n < l)
              /\ c >= 0 /\ from \in Int /\ filePos \in Int /\ pos \in Int /\ n \in Int
          BY <1>1, <1>2, <2>1, <2>5, <3>1, <5>1, <5>2
        <5> QED
          BY <4>1, <5>2, <5>3
      <4> QED
        BY <4>2, <1>2, <2>3
    <3>3. buf' \in Units /\ pos' \in Nat /\ filePos' \in Nat /\ filePos' <= Len(file) /\ from <= filePos'
      BY <1>2, <2>3, <3>1 DEF ReaderTypes
    <3> QED
      BY <1>1, <1>2, <3>1, <3>2, <3>3, MoveBegins
  <2> QED
    BY <2>4, <2>5
<1> QED
  BY <1>4, <1>5

(* BufferedInputStream::Reset (buffered_inputstream.cc:137-142). *)
LEMMA ResetKeeps ==
  ASSUME BufferedInv, BS!Reset
  PROVE  BufferedInv' /\ StreamStep
<1>1. /\ call.op = "Reset" /\ filePos' = 0 /\ buf' = <<>> /\ pos' = 0
      /\ IB!End("OK", <<>>) /\ left' = left /\ call # IB!Idle
  BY SameReader DEF BS!Reset, IB!Idle
<1>2. left = BS!NotSkipping /\ ReaderTypes
  BY <1>1 DEF BufferedInv, Skipping, ReaderInv
<1>3. file' = file /\ file \in Units /\ Len(file) \in Nat
  BY <1>1, <1>2, FileSize DEF ReaderTypes, IB!End
<1>4. BufferedInv' /\ IB!Tell' = 0
  <2>1. filePos' \in Nat /\ filePos' <= Len(file) /\ left' = BS!NotSkipping
    BY <1>1, <1>2, <1>3
  <2> QED
    BY <1>1, <1>3, <2>1, BufferGivenUp
<1>5. IB!Stream!Move("Reset", "OK", <<>>, 0)
  BY <1>1, <1>4, ReturnMoves
<1> QED
  BY <1>4, <1>5 DEF StreamStep, IB!Stream!Next, IB!Stream!Reset

(* A new BufferedInputStream is in order and stands at the beginning. *)
LEMMA BufferedInitially ==
  ASSUME StreamAssumption, BS!StreamInit
  PROVE  BufferedInv /\ IB!Stream!Init
<1>1. IB!Init /\ left = BS!NotSkipping
  BY SameReader DEF BS!StreamInit
<1>2. InputBufferInv /\ IB!Stream!Init
  BY <1>1, InputBufferInitially
<1>3. filePos = 0 /\ got = <<>> /\ file \in Units
  BY <1>1, <1>2 DEF IB!Init, InputBufferInv, ReaderInv, ReaderTypes
<1>4. filePos <= Len(file)
  BY <1>3, FileSize
<1> QED
  BY <1>1, <1>2, <1>3, <1>4 DEF BufferedInv, InputBufferInv, BS!NotSkipping

(* Whatever BufferedInputStream does, it stays in order, and ByteStream    *)
(* sees the step as one of its own (buffered_inputstream.cc:27-152).       *)
LEMMA BufferedKeeps ==
  ASSUME StreamAssumption, BufferedInv, [BS!Next]_(BS!streamVars)
  PROVE  BufferedInv' /\ StreamStep
<1> DEFINE Reading == left = BS!NotSkipping /\ ReaderInv /\ filePos <= Len(file)
<1>1. ASSUME Reading, ReaderInv', left' = left, filePos' <= Len(file'),
             call'.op = "SkipNBytes" => got' = <<>>
      PROVE  BufferedInv'
  BY <1>1 DEF BufferedInv, BS!NotSkipping
<1>2. ASSUME Reading PROVE \A r \in BS!FillBuffer : Refill(r)
  BY <1>2, BufferedFills DEF ReaderInv, ReaderTypes
<1>3. ASSUME call.op \notin {"SkipNBytes", "Seek"} PROVE Reading
  BY <1>3 DEF BufferedInv, Skipping
<1>4. CASE BS!Call
  <2>1. PICK op \in {"ReadNBytes", "SkipNBytes", "Seek", "ReadLine", "Reset"}, n \in Int :
          IB!Begin(op, n) /\ left' = left
    <3>1. 0 \in Int /\ 1 \in Int
      OBVIOUS
    <3> QED
      BY <1>4, <3>1, SameReader DEF BS!Call, StreamAssumption
  <2>2. op \in IB!Stream!Operations
    BY DEF IB!Stream!Operations
  <2>3. call.op = "none" /\ got' = <<>> /\ UNCHANGED <<file, filePos>>
    BY <2>1 DEF IB!Begin, IB!Idle
  <2>4. Reading
    BY <2>3, <1>3
  <2>5. ReaderInv' /\ StreamStep
    BY <2>1, <2>2, <2>4, BeginKeeps
  <2> QED
    BY <1>1, <2>1, <2>3, <2>4, <2>5
<1>5. ASSUME Reading, call.op = "ReadLine" \/ call.op = "ReadNBytes",
             NEW b \in IB!AtHand(BS!FillBuffer), IB!SetBuffer(b), file' = file
      PROVE  filePos' <= Len(file')
  <2> HIDE DEF BS!FillBuffer
  <2>1. ReaderTypes /\ BufferOK /\ filePos <= Len(file) /\ \A r \in BS!FillBuffer : Refill(r)
    BY <1>5, <1>2 DEF ReaderInv
  <2> QED
    BY <1>5, <2>1, InsideFile
<1>6. CASE BS!ReadLineHelper
  <2>1. /\ call.op = "ReadLine" /\ left' = left
        /\ IB!LineTurn(BS!FillBuffer, IF call.n = 1 THEN <<LF>> ELSE <<>>)
    BY <1>6, SameReader DEF BS!ReadLineHelper
  <2>2. Reading /\ \A r \in BS!FillBuffer : Refill(r)
    BY <2>1, <1>2, <1>3
  <2>3. ReaderInv' /\ StreamStep
    <3>1. \A refills : /\ refills = BS!FillBuffer
                       /\ IB!LineTurn(refills, IF call.n = 1 THEN <<LF>> ELSE <<>>)
                       => ReaderInv' /\ StreamStep
      BY <2>1, <2>2, LineTurnKeeps
    <3> QED
      BY <3>1, <2>1
  <2>4. PICK b \in IB!AtHand(BS!FillBuffer) : /\ IB!SetBuffer(b)
                                              /\ file' = file
                                              /\ call' = call \/ call' = IB!Idle
    BY <2>1 DEF IB!LineTurn, IB!End
  <2>5. filePos' <= Len(file')
    BY <1>5, <2>1, <2>2, <2>4
  <2> QED
    BY <1>1, <2>1, <2>2, <2>3, <2>4, <2>5 DEF IB!Idle
<1>7. CASE BS!ReadNBytes
  <2>1. CASE BS!CountTurn("ReadNBytes", BS!FillBuffer)
    <3>1. call.op = "ReadNBytes" /\ left' = left /\ IB!CountTurn("ReadNBytes", BS!FillBuffer)
      BY <1>7, <2>1, SameReader DEF BS!ReadNBytes, BS!CountTurn
    <3>2. Reading /\ \A r \in BS!FillBuffer : Refill(r)
      BY <3>1, <1>2, <1>3
    <3>3. ReaderInv' /\ StreamStep
      <4>1. \A refills : refills = BS!FillBuffer /\ IB!CountTurn("ReadNBytes", refills)
                         => ReaderInv' /\ StreamStep
        BY <3>1, <3>2, CountTurnKeeps
      <4> QED
        BY <4>1, <3>1
    <3>4. PICK b \in IB!AtHand(BS!FillBuffer) : /\ IB!SetBuffer(b)
                                                /\ file' = file
                                                /\ call' = call \/ call' = IB!Idle
      BY <3>1 DEF IB!CountTurn, IB!End
    <3>5. filePos' <= Len(file')
      BY <1>5, <3>1, <3>2, <3>4
    <3> QED
      BY <1>1, <3>1, <3>2, <3>3, <3>4, <3>5 DEF IB!Idle
  <2>2. CASE BS!CountEnd("ReadNBytes")
    <3>1. call.op = "ReadNBytes" /\ left' = left /\ IB!CountEnd("ReadNBytes")
      BY <1>7, <2>2, SameReader DEF BS!ReadNBytes, BS!CountEnd
    <3>2. UNCHANGED <<file, filePos>> /\ call' = IB!Idle
      BY <3>1 DEF IB!CountEnd, IB!EndAt, IB!End
    <3>3. Reading
      BY <3>1, <1>3
    <3>4. ReaderInv' /\ StreamStep
      BY <3>1, <3>3, CountEndKeeps
    <3> QED
      BY <1>1, <3>1, <3>2, <3>3, <3>4 DEF IB!Idle
  <2>3. CASE BS!Refuse("ReadNBytes")
    <3>1. call.op = "ReadNBytes" /\ left' = left /\ IB!Refuse("ReadNBytes")
      BY <1>7, <2>3, SameReader DEF BS!ReadNBytes, BS!Refuse
    <3>2. UNCHANGED <<file, filePos>> /\ call' = IB!Idle
      BY <3>1 DEF IB!Refuse, IB!EndAt, IB!End
    <3>3. Reading
      BY <3>1, <1>3
    <3>4. ReaderInv' /\ StreamStep
      BY <3>1, <3>3, RefuseKeeps
    <3> QED
      BY <1>1, <3>1, <3>2, <3>3, <3>4 DEF IB!Idle
  <2> QED
    BY <1>7, <2>1, <2>2, <2>3 DEF BS!ReadNBytes
<1>8. CASE BS!RefuseMove
  <2>1. PICK op \in {"SkipNBytes", "Seek"} : IB!Refuse(op) /\ left' = left
    BY <1>8, SameReader DEF BS!RefuseMove
  <2>2. UNCHANGED <<file, filePos>> /\ call' = IB!Idle /\ call.n < 0
    BY <2>1 DEF IB!Refuse, IB!EndAt, IB!End
  <2>3. Reading
    BY <2>2 DEF BufferedInv, Skipping, ReaderTypes
  <2>4. ReaderInv' /\ StreamStep
    BY <2>1, <2>3, RefuseKeeps
  <2> QED
    BY <1>1, <2>1, <2>2, <2>3, <2>4 DEF IB!Idle
<1>9. CASE UNCHANGED BS!streamVars
  <2>1. UNCHANGED <<file, filePos, buf, pos, call, got, status, reply, from, left>>
    BY <1>9 DEF BS!streamVars, BS!vars
  <2>2. CASE Reading
    <3>1. ReaderInv' /\ StreamStep
      BY <2>1, <2>2, ReaderStays
    <3>2. BufferedInv'
      BY <1>1, <2>1, <2>2, <3>1 DEF BufferedInv
    <3> QED
      BY <3>1, <3>2
  <2>3. CASE ~Reading
    <3>1. Skipping /\ left # BS!NotSkipping
      BY <2>3 DEF BufferedInv
    <3>2. Skipping'
      BY <2>1, <3>1 DEF Skipping, ReaderTypes
    <3>3. BufferedInv'
      BY <2>1, <3>1, <3>2 DEF BufferedInv, BS!NotSkipping
    <3>4. UNCHANGED IB!Stream!vars
      BY <2>1 DEF IB!Stream!vars, IB!Offset, IB!Tell
    <3> QED
      BY <3>3, <3>4 DEF StreamStep
  <2> QED
    BY <2>2, <2>3
<1> QED
  BY <1>4, <1>6, <1>7, <1>8, <1>9, SkipNBytesKeeps, BufferedSeekKeeps, SkipTurnKeeps, SkipEndKeeps,
     ResetKeeps DEF BS!Next

-----------------------------------------------------------------------------
(* TableKeys as the order compares them. *)
Words == Seq(Nat)

(* The first n bytes are the same. *)
SameTo(a, b, n) == \A i \in 1 .. n : a[i] = b[i]

(* std::min. *)
LEMMA LesserIs ==
  ASSUME NEW x \in Nat, NEW y \in Nat
  PROVE  /\ TB!Lesser(x, y) \in Nat /\ TB!Lesser(x, y) <= x /\ TB!Lesser(x, y) <= y
         /\ TB!Lesser(x, y) = x \/ TB!Lesser(x, y) = y
BY DEF TB!Lesser

(* The bytes of a key. *)
LEMMA WordIs ==
  ASSUME NEW a \in Words
  PROVE  Len(a) \in Nat /\ \A i \in 1 .. Len(a) : a[i] \in Nat
BY LenProperties, ElementOfSeq DEF Words

(* What two keys have in common (block_builder.cc:70-76). *)
LEMMA CommonIs ==
  ASSUME NEW a \in Words, NEW b \in Words
  PROVE  /\ TB!Common(a, b) \in Nat
         /\ TB!Common(a, b) <= Len(a) /\ TB!Common(a, b) <= Len(b)
         /\ SameTo(a, b, TB!Common(a, b))
         /\ TB!Common(a, b) = Len(a) \/ TB!Common(a, b) = Len(b)
              \/ a[TB!Common(a, b) + 1] # b[TB!Common(a, b) + 1]
<1> DEFINE l == TB!Lesser(Len(a), Len(b))
<1>1. /\ Len(a) \in Nat /\ Len(b) \in Nat
      /\ l \in Nat /\ l <= Len(a) /\ l <= Len(b) /\ (l = Len(a) \/ l = Len(b))
  BY WordIs, LesserIs
<1> HIDE DEF l
<1>2. \E n \in 0 .. l : /\ \A i \in 1 .. n : a[i] = b[i]
                        /\ n < l => a[n + 1] # b[n + 1]
  <2> DEFINE D == {n \in Nat : n = l \/ a[n + 1] # b[n + 1]}
  <2>1. PICK n \in D : \A m \in D : n <= m
    <3>1. l \in D /\ D \subseteq Nat
      BY <1>1
    <3> HIDE DEF D
    <3> QED
      BY <3>1, LeastNumber
  <2>2. n \in 0 .. l
    BY <1>1, <2>1
  <2>3. ASSUME NEW i \in 1 .. n PROVE a[i] = b[i]
    <3>1. i - 1 \in Nat /\ ~(n <= i - 1) /\ (i - 1) + 1 = i
      BY <2>2
    <3> QED
      BY <2>1, <3>1
  <2> QED
    BY <2>1, <2>2, <2>3
<1>3. /\ TB!Common(a, b) \in 0 .. l
      /\ \A i \in 1 .. TB!Common(a, b) : a[i] = b[i]
      /\ TB!Common(a, b) < l => a[TB!Common(a, b) + 1] # b[TB!Common(a, b) + 1]
  BY <1>2 DEF TB!Common, l
<1> DEFINE c == TB!Common(a, b)
<1> HIDE DEF c
<1>4. /\ c \in 0 .. l
      /\ \A i \in 1 .. c : a[i] = b[i]
      /\ c < l => a[c + 1] # b[c + 1]
  BY <1>3 DEF c
<1>5. /\ c \in Nat /\ c <= Len(a) /\ c <= Len(b)
      /\ SameTo(a, b, c)
      /\ c = Len(a) \/ c = Len(b) \/ a[c + 1] # b[c + 1]
  BY <1>1, <1>4 DEF SameTo
<1> QED
  BY <1>5 DEF c

(* a and b have n bytes in common, then a ends or has the smaller byte. *)
BeforeAt(a, b, n) ==
  /\ n \in Nat /\ n <= Len(a) /\ n < Len(b) /\ SameTo(a, b, n)
  /\ n < Len(a) => a[n + 1] < b[n + 1]

(* The order of keys (stringpiece.h:121-131): the first byte that differs  *)
(* decides, or which key ends first.                                       *)
LEMMA BeforeIs ==
  ASSUME NEW a \in Words, NEW b \in Words
  PROVE  TB!Before(a, b) <=> \E n \in Nat : BeforeAt(a, b, n)
<1> DEFINE c == TB!Common(a, b)
<1>1. Len(a) \in Nat /\ Len(b) \in Nat
  BY WordIs
<1>2. /\ c \in Nat /\ c <= Len(a) /\ c <= Len(b) /\ SameTo(a, b, c)
      /\ c = Len(a) \/ c = Len(b) \/ a[c + 1] # b[c + 1]
  BY CommonIs
<1>3. TB!Before(a, b) <=> IF c < Len(a) /\ c < Len(b) THEN a[c + 1] < b[c + 1] ELSE Len(a) < Len(b)
  BY DEF TB!Before
<1> HIDE DEF c
<1>4. ASSUME TB!Before(a, b) PROVE BeforeAt(a, b, c)
  BY <1>1, <1>2, <1>3, <1>4 DEF BeforeAt
<1>5. ASSUME NEW n \in Nat, BeforeAt(a, b, n) PROVE TB!Before(a, b)
  <2>1. /\ n <= Len(a) /\ n < Len(b) /\ SameTo(a, b, n)
        /\ n < Len(a) => a[n + 1] < b[n + 1]
    BY <1>5 DEF BeforeAt
  <2>2. n = c
    <3>1. CASE n < c
      <4>1. n + 1 \in 1 .. c /\ n < Len(a)
        BY <1>1, <1>2, <2>1, <3>1
      <4>2. a[n + 1] = b[n + 1] /\ a[n + 1] \in Nat
        BY <1>1, <1>2, <4>1, WordIs DEF SameTo
      <4> QED
        BY <2>1, <4>1, <4>2
    <3>2. CASE c < n
      <4>1. c + 1 \in 1 .. n
        BY <1>1, <1>2, <2>1, <3>2
      <4> QED
        BY <1>1, <1>2, <2>1, <3>2, <4>1 DEF SameTo
    <3> QED
      BY <1>2, <3>1, <3>2
  <2> QED
    BY <1>1, <1>2, <1>3, <2>1, <2>2
<1> QED
  BY <1>2, <1>4, <1>5

(* The order is strict, *)
LEMMA BeforeIrreflexive ==
  ASSUME NEW a \in Words
  PROVE  ~TB!Before(a, a)
<1>1. ASSUME NEW n \in Nat, BeforeAt(a, a, n) PROVE FALSE
  <2>1. n < Len(a) /\ a[n + 1] < a[n + 1]
    BY <1>1 DEF BeforeAt
  <2>2. n + 1 \in 1 .. Len(a)
    BY <2>1, WordIs
  <2>3. a[n + 1] \in Nat
    BY <2>2, WordIs
  <2> QED
    BY <2>1, <2>3
<1> QED
  BY <1>1, BeforeIs

(* transitive, *)
LEMMA BeforeTransitive ==
  ASSUME NEW a \in Words, NEW b \in Words, NEW c \in Words, TB!Before(a, b), TB!Before(b, c)
  PROVE  TB!Before(a, c)
<1>1. PICK n \in Nat : BeforeAt(a, b, n)
  BY BeforeIs
<1>2. PICK m \in Nat : BeforeAt(b, c, m)
  BY BeforeIs
<1>3. /\ n <= Len(a) /\ n < Len(b) /\ SameTo(a, b, n)
      /\ n < Len(a) => a[n + 1] < b[n + 1]
  BY <1>1 DEF BeforeAt
<1>4. /\ m <= Len(b) /\ m < Len(c) /\ SameTo(b, c, m)
      /\ m < Len(b) => b[m + 1] < c[m + 1]
  BY <1>2 DEF BeforeAt
<1>5. Len(a) \in Nat /\ Len(b) \in Nat /\ Len(c) \in Nat
  BY WordIs
<1>6. CASE n < m
  <2>1. SameTo(a, c, n)
    BY <1>3, <1>4, <1>6 DEF SameTo
  <2>2. n + 1 \in 1 .. m /\ n < Len(c) /\ b[n + 1] = c[n + 1]
    BY <1>4, <1>5, <1>6 DEF SameTo
  <2>3. BeforeAt(a, c, n)
    BY <1>3, <2>1, <2>2 DEF BeforeAt
  <2> QED
    BY <2>3, BeforeIs
<1>7. CASE m < n
  <2>1. SameTo(a, c, m)
    BY <1>3, <1>4, <1>7 DEF SameTo
  <2>2. m + 1 \in 1 .. n /\ m <= Len(a) /\ m < Len(b) /\ a[m + 1] = b[m + 1]
    BY <1>3, <1>4, <1>5, <1>7 DEF SameTo
  <2>3. BeforeAt(a, c, m)
    BY <1>4, <2>1, <2>2 DEF BeforeAt
  <2> QED
    BY <2>3, BeforeIs
<1>8. CASE n = m
  <2>1. SameTo(a, c, n)
    BY <1>3, <1>4, <1>8 DEF SameTo
  <2>2. ASSUME n < Len(a) PROVE a[n + 1] < c[n + 1]
    <3>1. n + 1 \in 1 .. Len(a) /\ n + 1 \in 1 .. Len(b) /\ n + 1 \in 1 .. Len(c)
      BY <1>3, <1>4, <1>5, <1>8, <2>2
    <3>2. a[n + 1] \in Nat /\ b[n + 1] \in Nat /\ c[n + 1] \in Nat
      BY <3>1, WordIs
    <3> QED
      BY <1>3, <1>4, <1>8, <2>2, <3>2
  <2>3. BeforeAt(a, c, n)
    BY <1>3, <1>4, <1>8, <2>1, <2>2 DEF BeforeAt
  <2> QED
    BY <2>3, BeforeIs
<1> QED
  BY <1>6, <1>7, <1>8

(* and total. *)
LEMMA BeforeTotal ==
  ASSUME NEW a \in Words, NEW b \in Words
  PROVE  TB!Before(a, b) \/ TB!Before(b, a) \/ a = b
<1> DEFINE c == TB!Common(a, b)
<1>1. Len(a) \in Nat /\ Len(b) \in Nat
  BY WordIs
<1>2. /\ c \in Nat /\ c <= Len(a) /\ c <= Len(b) /\ SameTo(a, b, c)
      /\ c = Len(a) \/ c = Len(b) \/ a[c + 1] # b[c + 1]
  BY CommonIs
<1> HIDE DEF c
<1>3. SameTo(b, a, c)
  BY <1>2 DEF SameTo
<1>4. CASE c = Len(a) /\ c = Len(b)
  <2>1. a = b
    BY <1>1, <1>2, <1>4, SeqEqual DEF Words, SameTo
  <2> QED
    BY <2>1
<1>5. CASE c = Len(a) /\ c < Len(b)
  <2>1. BeforeAt(a, b, c)
    BY <1>1, <1>2, <1>5 DEF BeforeAt
  <2> QED
    BY <1>2, <2>1, BeforeIs
<1>6. CASE c = Len(b) /\ c < Len(a)
  <2>1. BeforeAt(b, a, c)
    BY <1>1, <1>2, <1>3, <1>6 DEF BeforeAt
  <2> QED
    BY <1>2, <2>1, BeforeIs
<1>7. CASE c < Len(a) /\ c < Len(b)
  <2>1. c + 1 \in 1 .. Len(a) /\ c + 1 \in 1 .. Len(b)
    BY <1>1, <1>2, <1>7
  <2>2. a[c + 1] \in Nat /\ b[c + 1] \in Nat /\ a[c + 1] # b[c + 1]
    BY <1>2, <1>7, <2>1, WordIs
  <2>3. BeforeAt(a, b, c) \/ BeforeAt(b, a, c)
    BY <1>1, <1>2, <1>3, <1>7, <2>2 DEF BeforeAt
  <2> QED
    BY <1>2, <2>3, BeforeIs
<1> QED
  BY <1>1, <1>2, <1>4, <1>5, <1>6, <1>7

(* Not before is at or past. *)
LEMMA BeforeCombines ==
  ASSUME NEW a \in Words, NEW b \in Words, NEW c \in Words
  PROVE  /\ TB!Before(a, b) => ~TB!Before(b, a)
         /\ TB!Before(a, b) /\ ~TB!Before(c, b) => TB!Before(a, c)
         /\ ~TB!Before(b, a) /\ TB!Before(b, c) => TB!Before(a, c)
         /\ ~TB!Before(b, a) /\ ~TB!Before(c, b) => ~TB!Before(c, a)
<1>1. ASSUME TB!Before(a, b) PROVE ~TB!Before(b, a)
  BY <1>1, BeforeTransitive, BeforeIrreflexive
<1>2. ASSUME TB!Before(a, b), ~TB!Before(c, b) PROVE TB!Before(a, c)
  <2>1. c = b \/ TB!Before(b, c)
    BY <1>2, BeforeTotal
  <2> QED
    BY <1>2, <2>1, BeforeTransitive
<1>3. ASSUME ~TB!Before(b, a), TB!Before(b, c) PROVE TB!Before(a, c)
  <2>1. a = b \/ TB!Before(a, b)
    BY <1>3, BeforeTotal
  <2> QED
    BY <1>3, <2>1, BeforeTransitive
<1>4. ASSUME ~TB!Before(b, a), ~TB!Before(c, b), TB!Before(c, a) PROVE FALSE
  <2>1. a = b \/ TB!Before(a, b)
    BY <1>4, BeforeTotal
  <2>2. TB!Before(c, b)
    BY <1>4, <2>1, BeforeTransitive
  <2> QED
    BY <1>4, <2>2
<1> QED
  BY <1>1, <1>2, <1>3, <1>4

(* The start of a key with its next byte one up is past the key. *)
LEMMA Shortened ==
  ASSUME NEW s \in Words, NEW n \in Nat, n < Len(s)
  PROVE  LET w == Append(SubSeq(s, 1, n), s[n + 1] + 1)
         IN /\ w \in Words /\ Len(w) = n + 1
            /\ SameTo(w, s, n) /\ w[n + 1] = s[n + 1] + 1
            /\ TB!Before(s, w)
<1> DEFINE p == SubSeq(s, 1, n)
           w == Append(p, s[n + 1] + 1)
<1>1. Len(s) \in Nat /\ \A i \in 1 .. Len(s) : s[i] \in Nat
  BY WordIs
<1>2. p \in Seq(Nat) /\ Len(p) = n /\ \A i \in 1 .. n : p[i] = s[i]
  <2>1. 1 \in 1 .. Len(s) + 1 /\ n \in 0 .. Len(s) /\ s \in Seq(Nat)
    BY <1>1 DEF Words
  <2>2. \A i \in 1 .. n : s[i] \in Nat
    BY <1>1
  <2>3. /\ p \in Seq(Nat)
        /\ Len(p) = IF 1 <= n THEN n - 1 + 1 ELSE 0
        /\ \A i \in 1 .. n - 1 + 1 : p[i] = s[1 + i - 1]
    BY <2>1, <2>2, SubSeqProperties
  <2> HIDE DEF p
  <2>4. n - 1 + 1 = n /\ \A i \in 1 .. n : 1 + i - 1 = i
    OBVIOUS
  <2> QED
    BY <2>3, <2>4
<1>3. s[n + 1] + 1 \in Nat
  BY <1>1
<1> HIDE DEF p
<1>4. /\ w \in Seq(Nat) /\ Len(w) = n + 1
      /\ \A i \in 1 .. n : w[i] = p[i]
      /\ w[n + 1] = s[n + 1] + 1
  BY <1>2, <1>3, AppendProperties
<1> HIDE DEF w
<1>5. SameTo(w, s, n) /\ SameTo(s, w, n)
  BY <1>2, <1>4 DEF SameTo
<1>6. s[n + 1] < w[n + 1]
  BY <1>1, <1>4
<1>7. BeforeAt(s, w, n)
  BY <1>1, <1>4, <1>5, <1>6 DEF BeforeAt
<1>8. w \in Words /\ TB!Before(s, w)
  BY <1>4, <1>7, BeforeIs DEF Words
<1> QED
  BY <1>4, <1>5, <1>8 DEF w, p

(* The shortened key lies between the two it keeps apart                   *)
(* (table_builder.cc:18-38).                                               *)
LEMMA SeparatorIs ==
  ASSUME NEW s \in Words, NEW l \in Words, TB!Before(s, l)
  PROVE  /\ TB!FindShortestSeparator(s, l) \in Words
         /\ ~TB!Before(TB!FindShortestSeparator(s, l), s)
         /\ TB!Before(TB!FindShortestSeparator(s, l), l)
<1> DEFINE n == TB!Common(s, l)
           w == Append(SubSeq(s, 1, n), s[n + 1] + 1)
           shorten == /\ n < TB!Lesser(Len(s), Len(l))
                      /\ s[n + 1] < MaxByte
                      /\ s[n + 1] + 1 < l[n + 1]
<1>1. TB!FindShortestSeparator(s, l) = IF shorten THEN w ELSE s
  BY DEF TB!FindShortestSeparator
<1>2. n \in Nat /\ n <= Len(s) /\ n <= Len(l) /\ SameTo(s, l, n)
  BY CommonIs
<1>3. CASE shorten
  <2>1. n < Len(s) /\ n < Len(l) /\ s[n + 1] + 1 < l[n + 1]
    <3>1. n < TB!Lesser(Len(s), Len(l)) /\ s[n + 1] + 1 < l[n + 1]
      BY <1>3
    <3>2. Len(s) \in Nat /\ Len(l) \in Nat
      BY WordIs
    <3>3. PICK x \in Nat : /\ x = TB!Lesser(Len(s), Len(l))
                           /\ x <= Len(s) /\ x <= Len(l)
      BY <3>2, LesserIs
    <3> HIDE DEF n
    <3> QED
      BY <1>2, <3>1, <3>2, <3>3
  <2> HIDE DEF n
  <2>2. /\ w \in Words /\ Len(w) = n + 1
        /\ SameTo(w, s, n) /\ w[n + 1] = s[n + 1] + 1
        /\ TB!Before(s, w)
    BY <1>2, <2>1, Shortened
  <2> HIDE DEF w
  <2>3. SameTo(w, l, n)
    BY <1>2, <2>2 DEF SameTo
  <2>4. BeforeAt(w, l, n)
    BY <1>2, <2>1, <2>2, <2>3 DEF BeforeAt
  <2>5. TB!Before(w, l)
    BY <1>2, <2>2, <2>4, BeforeIs
  <2>6. ~TB!Before(w, s)
    BY <2>2, BeforeCombines
  <2>7. TB!FindShortestSeparator(s, l) = w
    BY <1>1, <1>3
  <2> QED
    BY <2>2, <2>5, <2>6, <2>7
<1>4. CASE ~shorten
  <2>1. TB!FindShortestSeparator(s, l) = s
    BY <1>1, <1>4
  <2> QED
    BY <2>1, BeforeIrreflexive
<1> QED
  BY <1>3, <1>4

(* The shortened last key is not before the last key                       *)
(* (table_builder.cc:40-52).                                               *)
LEMMA SuccessorIs ==
  ASSUME NEW k \in Words
  PROVE  TB!FindShortSuccessor(k) \in Words /\ ~TB!Before(TB!FindShortSuccessor(k), k)
<1>1. CASE \A i \in 1 .. Len(k) : k[i] = MaxByte
  <2>1. TB!FindShortSuccessor(k) = k
    BY <1>1 DEF TB!FindShortSuccessor
  <2> QED
    BY <2>1, BeforeIrreflexive
<1>2. CASE ~\A i \in 1 .. Len(k) : k[i] = MaxByte
  <2> DEFINE D == {i \in Nat : i \in 1 .. Len(k) /\ k[i] # MaxByte}
             n == CHOOSE i \in 1 .. Len(k) :
                    k[i] # MaxByte /\ \A j \in 1 .. i - 1 : k[j] = MaxByte
  <2>1. Len(k) \in Nat
    BY WordIs
  <2>2. \E i \in 1 .. Len(k) : k[i] # MaxByte /\ \A j \in 1 .. i - 1 : k[j] = MaxByte
    <3>1. PICK i \in D : \A m \in D : i <= m
      <4>1. D # {} /\ D \subseteq Nat
        BY <1>2, <2>1
      <4> HIDE DEF D
      <4> QED
        BY <4>1, LeastNumber
    <3>2. ASSUME NEW j \in 1 .. i - 1 PROVE k[j] = MaxByte
      <4>1. j \in Nat /\ j \in 1 .. Len(k) /\ ~(i <= j)
        BY <2>1, <3>1
      <4> QED
        BY <3>1, <4>1
    <3> QED
      BY <3>1, <3>2
  <2>3. n \in 1 .. Len(k)
    BY <2>2
  <2>4. TB!FindShortSuccessor(k) = Append(SubSeq(k, 1, n - 1), k[n] + 1)
    BY <1>2 DEF TB!FindShortSuccessor
  <2> HIDE DEF n
  <2>5. PICK m \in Nat : m = n - 1 /\ m + 1 = n /\ m < Len(k)
    BY <2>1, <2>3
  <2> DEFINE w == Append(SubSeq(k, 1, m), k[m + 1] + 1)
  <2>6. w \in Words /\ TB!Before(k, w)
    BY <2>5, Shortened
  <2>7. TB!FindShortSuccessor(k) = w
    BY <2>4, <2>5
  <2> HIDE DEF w
  <2> QED
    BY <2>6, <2>7, BeforeCombines
<1> QED
  BY <1>1, <1>2

(* The entries of a block. *)
EntrySet == [shared : Nat, delta : Words, value : Nat]

(* The key before the i-th. *)
Previous(ks, i) == IF i = 1 THEN <<>> ELSE ks[i - 1]

(* Entry e holds the i-th of the keys ks with its value: what is shared    *)
(* with the key before, then the rest.                                     *)
EntryOK(e, i, ks, vs) ==
  /\ ks[i] \in Words /\ vs[i] \in Nat
  /\ e.value = vs[i]
  /\ e.shared <= Len(Previous(ks, i))
  /\ ks[i] = SubSeq(Previous(ks, i), 1, e.shared) \o e.delta

(* The entries of a block hold the first n of the keys ks with the values  *)
(* vs.                                                                     *)
EntriesOK(es, n, ks, vs) ==
  /\ n \in Nat /\ es \in Seq(EntrySet) /\ Len(es) = n
  /\ \A i \in 1 .. n : EntryOK(es[i], i, ks, vs)

(* The restart points are entries that share nothing, the first one        *)
(* foremost, in order.                                                     *)
RestartsOK(es, rs, n) ==
  /\ rs \in Seq(Nat) /\ Len(rs) >= 1 /\ rs[1] = 0
  /\ n = 0 => Len(rs) = 1
  /\ \A r \in 1 .. Len(rs) : n > 0 => rs[r] < n /\ es[rs[r] + 1].shared = 0
  /\ \A r, q \in 1 .. Len(rs) : r < q => rs[r] < rs[q]

(* The block holds the first n keys and values. *)
Encodes(es, rs, n, ks, vs) == EntriesOK(es, n, ks, vs) /\ RestartsOK(es, rs, n)

(* The empty key. *)
LEMMA EmptyWord == <<>> \in Words /\ Len(<<>>) = 0
BY EmptySeq DEF Words

(* The key before an entry is a key. *)
LEMMA PreviousIs ==
  ASSUME NEW es, NEW n, NEW ks, NEW vs, EntriesOK(es, n, ks, vs), NEW i \in 1 .. n + 1
  PROVE  Previous(ks, i) \in Words
<1>1. n \in Nat /\ \A j \in 1 .. n : ks[j] \in Words
  BY DEF EntriesOK, EntryOK
<1>2. CASE i = 1
  BY <1>2, EmptyWord DEF Previous
<1>3. CASE i # 1
  <2>1. i - 1 \in 1 .. n
    BY <1>1, <1>3
  <2> QED
    BY <1>1, <1>3, <2>1 DEF Previous
<1> QED
  BY <1>2, <1>3

(* Sharing nothing leaves the rest. *)
LEMMA NothingShared ==
  ASSUME NEW a, NEW b \in Words
  PROVE  SubSeq(a, 1, 0) = <<>> /\ SubSeq(a, 1, 0) \o b = b
<1>1. SubSeq(a, 1, 0) = <<>>
  BY SubSeqEmpty
<1>2. <<>> \o b = b
  BY ConcatEmptySeq DEF Words
<1> QED
  BY <1>1, <1>2

(* A key is what it shares and the rest (block_builder.cc:77-91). *)
LEMMA SharedPrefix ==
  ASSUME NEW a \in Words, NEW k \in Words, NEW n \in Nat, n <= Len(a), n <= Len(k), SameTo(a, k, n)
  PROVE  /\ SubSeq(k, n + 1, Len(k)) \in Words
         /\ SubSeq(a, 1, n) \o SubSeq(k, n + 1, Len(k)) = k
<1>1. /\ Len(a) \in Nat /\ \A i \in 1 .. Len(a) : a[i] \in Nat
      /\ Len(k) \in Nat /\ \A i \in 1 .. Len(k) : k[i] \in Nat
  BY WordIs
<1>2. SubSeq(k, n + 1, Len(k)) \in Seq(Nat)
  <2>1. \A i \in n + 1 .. Len(k) : k[i] \in Nat
    BY <1>1
  <2> QED
    BY <1>1, <2>1, SubSeqProperties DEF Words
<1>3. SubSeq(a, 1, n) = SubSeq(k, 1, n)
  <2>1. SubSeq(a, 1, n) = [i \in 1 .. n |-> a[i]]
    <3>1. SubSeq(a, 1, n) = [i \in 1 .. (1 + n - 1) |-> a[1 + i - 1]]
      BY DEF Words
    <3> QED
      BY <3>1
  <2>2. SubSeq(k, 1, n) = [i \in 1 .. n |-> k[i]]
    <3>1. SubSeq(k, 1, n) = [i \in 1 .. (1 + n - 1) |-> k[1 + i - 1]]
      BY DEF Words
    <3> QED
      BY <3>1
  <2> QED
    BY <2>1, <2>2 DEF SameTo
<1>4. SubSeq(k, 1, n) \o SubSeq(k, n + 1, Len(k)) = SubSeq(k, 1, Len(k))
  <2>1. 1 \in 1 .. Len(k) + 1 /\ n \in 1 - 1 .. Len(k) /\ Len(k) \in n .. Len(k)
    BY <1>1
  <2> QED
    BY <2>1, ConcatAdjacentSubSeq DEF Words
<1>5. SubSeq(k, 1, Len(k)) = k
  BY SubSeqFull DEF Words
<1> QED
  BY <1>2, <1>3, <1>4, <1>5 DEF Words

(* A BlockBuilder to which the first n keys and values were added. *)
BuilderHolds(b, n, ks, vs) ==
  /\ Encodes(b.entries, b.restarts, n, ks, vs)
  /\ b.counter \in Nat /\ (n = 0 => b.counter = 0)
  /\ b.lastKey = Previous(ks, n + 1)

(* A new BlockBuilder holds nothing (block_builder.cc:33-46). *)
LEMMA EmptyHolds ==
  ASSUME NEW ks, NEW vs
  PROVE  BuilderHolds(TB!EmptyBuilder, 0, ks, vs) /\ TB!EmptyBuilder.entries = <<>>
<1> DEFINE b == TB!EmptyBuilder
<1>1. b.entries = <<>> /\ b.restarts = <<0>> /\ b.counter = 0 /\ b.lastKey = <<>>
  BY DEF TB!EmptyBuilder
<1> HIDE DEF b
<1>2. <<>> \in Seq(EntrySet) /\ Len(<<>>) = 0
  BY EmptySeq
<1>3. EntriesOK(<<>>, 0, ks, vs)
  BY <1>2 DEF EntriesOK
<1>4. <<0>> \in Seq(Nat) /\ Len(<<0>>) = 1 /\ <<0>>[1] = 0
  OBVIOUS
<1>5. RestartsOK(<<>>, <<0>>, 0)
  BY <1>4 DEF RestartsOK
<1> QED
  BY <1>1, <1>3, <1>5 DEF BuilderHolds, Encodes, Previous, b

(* One entry more. *)
LEMMA AppendedEntry ==
  ASSUME NEW es, NEW n \in Nat, NEW ks, NEW vs, EntriesOK(es, n, ks, vs),
         NEW e \in EntrySet, EntryOK(e, n + 1, ks, vs)
  PROVE  /\ EntriesOK(Append(es, e), n + 1, ks, vs)
         /\ \A i \in 1 .. n : Append(es, e)[i] = es[i]
         /\ Append(es, e)[n + 1] = e
<1> DEFINE f == Append(es, e)
<1>1. n \in Nat /\ es \in Seq(EntrySet) /\ Len(es) = n
  BY DEF EntriesOK
<1>2. /\ f \in Seq(EntrySet) /\ Len(f) = n + 1
      /\ \A i \in 1 .. n : f[i] = es[i]
      /\ f[n + 1] = e
  BY <1>1, AppendProperties
<1> HIDE DEF f
<1>3. ASSUME NEW i \in 1 .. n + 1 PROVE EntryOK(f[i], i, ks, vs)
  <2>1. CASE i \in 1 .. n
    <3>1. EntryOK(es[i], i, ks, vs)
      BY <2>1 DEF EntriesOK
    <3> QED
      BY <1>2, <2>1, <3>1
  <2>2. CASE i = n + 1
    BY <1>2, <2>2
  <2> QED
    BY <1>1, <2>1, <2>2
<1>4. EntriesOK(f, n + 1, ks, vs)
  BY <1>1, <1>2, <1>3 DEF EntriesOK
<1> QED
  BY <1>2, <1>4 DEF f

(* A restart point at the entry that is appended, or none. *)
LEMMA AppendedRestart ==
  ASSUME NEW es, NEW rs, NEW n \in Nat, RestartsOK(es, rs, n), NEW f,
         \A i \in 1 .. n : f[i] = es[i], NEW again \in BOOLEAN,
         again => n > 0, again \/ n = 0 => f[n + 1].shared = 0
  PROVE  RestartsOK(f, IF again THEN Append(rs, n) ELSE rs, n + 1)
<1>1. /\ rs \in Seq(Nat) /\ Len(rs) \in Nat /\ Len(rs) >= 1 /\ rs[1] = 0
      /\ n = 0 => Len(rs) = 1
      /\ \A r, q \in 1 .. Len(rs) : r < q => rs[r] < rs[q]
  BY LenProperties DEF RestartsOK
<1>2. \A r \in 1 .. Len(rs) : rs[r] \in Nat
  BY <1>1, ElementOfSeq
<1>3. ASSUME NEW r \in 1 .. Len(rs) PROVE rs[r] < n + 1 /\ f[rs[r] + 1].shared = 0
  <2>1. CASE n = 0
    <3>2. Len(rs) = 1 /\ rs[1] = 0
      BY <1>1, <2>1
    <3>3. r = 1
      BY <3>2
    <3>1. rs[r] = 0
      BY <3>2, <3>3
    <3> QED
      BY <2>1, <3>1
  <2>2. CASE n > 0
    <3>1. rs[r] < n /\ es[rs[r] + 1].shared = 0
      BY <2>2 DEF RestartsOK
    <3>2. rs[r] + 1 \in 1 .. n
      BY <1>2, <3>1
    <3> QED
      BY <1>2, <3>1, <3>2
  <2> QED
    BY <2>1, <2>2
<1>4. CASE ~again
  <2>1. RestartsOK(f, rs, n + 1)
    BY <1>1, <1>3 DEF RestartsOK
  <2> QED
    BY <1>4, <2>1
<1>5. CASE again
  <2> DEFINE ss == Append(rs, n)
  <2>1. /\ ss \in Seq(Nat) /\ Len(ss) = Len(rs) + 1
        /\ \A r \in 1 .. Len(rs) : ss[r] = rs[r]
        /\ ss[Len(rs) + 1] = n
    BY <1>1, AppendProperties
  <2> HIDE DEF ss
  <2>2. PICK m \in Nat : m = Len(rs)
    BY <1>1
  <2>3. ASSUME NEW r \in 1 .. m + 1 PROVE ss[r] < n + 1 /\ f[ss[r] + 1].shared = 0
    <3>1. CASE r \in 1 .. m
      BY <1>3, <2>1, <2>2, <3>1
    <3>2. CASE r = m + 1
      BY <1>5, <2>1, <2>2, <3>2
    <3> QED
      BY <3>1, <3>2
  <2>4. ASSUME NEW r \in 1 .. m + 1, NEW q \in 1 .. m + 1, r < q PROVE ss[r] < ss[q]
    <3>1. r \in 1 .. m
      BY <2>4
    <3>2. CASE q \in 1 .. m
      BY <1>1, <2>1, <2>2, <2>4, <3>1, <3>2
    <3>3. CASE q = m + 1
      <4>1. rs[r] < n
        BY <1>5, <2>2, <3>1 DEF RestartsOK
      <4> QED
        BY <2>1, <2>2, <3>1, <3>3, <4>1
    <3> QED
      BY <3>2, <3>3
  <2>5. ss[1] = 0
    BY <1>1, <2>1
  <2>6. RestartsOK(f, ss, n + 1)
    BY <1>1, <2>1, <2>2, <2>3, <2>4, <2>5 DEF RestartsOK
  <2> QED
    BY <1>5, <2>6 DEF ss
<1> QED
  BY <1>4, <1>5

(* BlockBuilder::Add adds the next key (block_builder.cc:64-98). *)
LEMMA BlockAddHolds ==
  ASSUME NEW b, NEW n, NEW ks, NEW vs, BuilderHolds(b, n, ks, vs),
         ks[n + 1] \in Words, vs[n + 1] \in Nat, NEW size, NEW interval \in Nat \ {0}
  PROVE  BuilderHolds(TB!BlockAdd(b, ks[n + 1], vs[n + 1], size, interval), n + 1, ks, vs)
<1> DEFINE key == ks[n + 1]
           again == b.counter >= interval
           common == TB!Common(b.lastKey, key)
           shared == IF again THEN 0 ELSE common
           delta == SubSeq(key, shared + 1, Len(key))
           e == [shared |-> shared, delta |-> delta, value |-> vs[n + 1]]
           c == TB!BlockAdd(b, key, vs[n + 1], size, interval)
<1>1. /\ EntriesOK(b.entries, n, ks, vs) /\ RestartsOK(b.entries, b.restarts, n)
      /\ b.counter \in Nat /\ (n = 0 => b.counter = 0)
      /\ b.lastKey = Previous(ks, n + 1)
  BY DEF BuilderHolds, Encodes
<1>2. n \in Nat /\ b.lastKey \in Words /\ key \in Words
  <2>1. n \in Nat
    BY <1>1 DEF EntriesOK
  <2>2. n + 1 \in 1 .. n + 1
    BY <2>1
  <2> QED
    BY <1>1, <2>1, <2>2, PreviousIs
<1>3. /\ c.entries = Append(b.entries, e)
      /\ c.restarts = IF again THEN Append(b.restarts, Len(b.entries)) ELSE b.restarts
      /\ c.counter = IF again THEN 1 ELSE b.counter + 1
      /\ c.lastKey = SubSeq(b.lastKey, 1, shared) \o delta
  BY DEF TB!BlockAdd
<1>4. /\ common \in Nat /\ common <= Len(b.lastKey) /\ common <= Len(key)
      /\ SameTo(b.lastKey, key, common)
  BY <1>2, CommonIs
<1> HIDE DEF common, c, key
<1>5. /\ shared \in Nat /\ shared <= Len(b.lastKey) /\ shared <= Len(key)
      /\ SameTo(b.lastKey, key, shared)
  <2>1. Len(b.lastKey) \in Nat /\ Len(key) \in Nat
    BY <1>2, WordIs
  <2> QED
    BY <1>4, <2>1 DEF SameTo
<1>6. again => n > 0
  BY <1>1, <1>2
<1>7. again \/ n = 0 => shared = 0
  <2>1. CASE n = 0
    <3>1. b.lastKey = <<>>
      BY <1>1, <2>1 DEF Previous
    <3>2. Len(b.lastKey) = 0
      BY <3>1, EmptyWord
    <3> QED
      BY <1>5, <3>2
  <2> QED
    BY <2>1
<1> HIDE DEF shared
<1>8. delta \in Words /\ SubSeq(b.lastKey, 1, shared) \o delta = key
  BY <1>2, <1>5, SharedPrefix
<1> HIDE DEF delta
<1>9. e \in EntrySet /\ e.shared = shared /\ e.delta = delta /\ e.value = vs[n + 1]
  BY <1>5, <1>8 DEF EntrySet
<1> HIDE DEF e
<1>10. /\ EntriesOK(c.entries, n + 1, ks, vs)
       /\ \A i \in 1 .. n : c.entries[i] = b.entries[i]
       /\ c.entries[n + 1] = e
  <2>1. e.shared <= Len(Previous(ks, n + 1))
    BY <1>1, <1>5, <1>9
  <2>2. ks[n + 1] = SubSeq(Previous(ks, n + 1), 1, e.shared) \o e.delta
    BY <1>1, <1>8, <1>9 DEF key
  <2>3. EntryOK(e, n + 1, ks, vs)
    BY <1>9, <2>1, <2>2 DEF EntryOK
  <2>4. PICK es : es = b.entries
    OBVIOUS
  <2>5. EntriesOK(es, n, ks, vs)
    BY <1>1, <2>4
  <2>6. e \in EntrySet
    BY <1>9
  <2>7. /\ EntriesOK(Append(es, e), n + 1, ks, vs)
        /\ \A i \in 1 .. n : Append(es, e)[i] = es[i]
        /\ Append(es, e)[n + 1] = e
    BY <1>2, <2>3, <2>5, <2>6, AppendedEntry
  <2> QED
    BY <1>3, <2>4, <2>7
<1>11. RestartsOK(c.entries, c.restarts, n + 1)
  <2>1. Len(b.entries) = n
    BY <1>1 DEF EntriesOK
  <2>2. PICK a \in BOOLEAN : a <=> again
    OBVIOUS
  <2>3. c.restarts = IF a THEN Append(b.restarts, n) ELSE b.restarts
    BY <1>3, <2>1, <2>2
  <2>4. a \/ n = 0 => c.entries[n + 1].shared = 0
    BY <1>7, <1>9, <1>10, <2>2
  <2>5. a => n > 0
    BY <1>6, <2>2
  <2> HIDE DEF again
  <2>6. RestartsOK(c.entries, IF a THEN Append(b.restarts, n) ELSE b.restarts, n + 1)
    BY <1>1, <1>2, <1>10, <2>4, <2>5, AppendedRestart
  <2> QED
    BY <2>3, <2>6
<1>12. c.lastKey = Previous(ks, n + 1 + 1)
  <2>1. PICK i \in Nat : i = n + 1 + 1 /\ i # 1 /\ i - 1 = n + 1
    BY <1>2
  <2>2. Previous(ks, i) = key
    BY <2>1 DEF Previous, key
  <2> QED
    BY <1>3, <1>8, <2>1, <2>2
<1>13. c.counter \in Nat /\ n + 1 # 0
  BY <1>1, <1>2, <1>3
<1>14. BuilderHolds(c, n + 1, ks, vs)
  BY <1>10, <1>11, <1>12, <1>13 DEF BuilderHolds, Encodes
<1> QED
  BY <1>14 DEF c, key

(* Only the first n keys and values matter. *)
LEMMA HoldsTheSame ==
  ASSUME NEW n \in Nat, NEW ks, NEW vs, NEW ls, NEW ws,
         \A i \in 1 .. n : ks[i] = ls[i] /\ vs[i] = ws[i]
  PROVE  /\ \A es, rs : Encodes(es, rs, n, ks, vs) => Encodes(es, rs, n, ls, ws)
         /\ \A b : BuilderHolds(b, n, ks, vs) => BuilderHolds(b, n, ls, ws)
<1>1. \A i \in 1 .. n + 1 : Previous(ks, i) = Previous(ls, i)
  <2> SUFFICES ASSUME NEW i \in 1 .. n + 1 PROVE Previous(ks, i) = Previous(ls, i)
    OBVIOUS
  <2>1. i = 1 \/ i - 1 \in 1 .. n
    OBVIOUS
  <2> QED
    BY <2>1 DEF Previous
<1>2. ASSUME NEW es, EntriesOK(es, n, ks, vs) PROVE EntriesOK(es, n, ls, ws)
  <2>1. ASSUME NEW i \in 1 .. n PROVE EntryOK(es[i], i, ls, ws)
    <3>1. Previous(ks, i) = Previous(ls, i) /\ ks[i] = ls[i] /\ vs[i] = ws[i]
      BY <1>1
    <3>2. EntryOK(es[i], i, ks, vs)
      BY <1>2 DEF EntriesOK
    <3> QED
      BY <3>1, <3>2 DEF EntryOK
  <2> QED
    BY <1>2, <2>1 DEF EntriesOK
<1>3. \A es, rs : Encodes(es, rs, n, ks, vs) => Encodes(es, rs, n, ls, ws)
  BY <1>2 DEF Encodes
<1>4. Previous(ks, n + 1) = Previous(ls, n + 1)
  <2>1. n + 1 \in 1 .. n + 1
    OBVIOUS
  <2> QED
    BY <1>1, <2>1
<1>5. \A b : BuilderHolds(b, n, ks, vs) => BuilderHolds(b, n, ls, ws)
  BY <1>3, <1>4 DEF BuilderHolds
<1> QED
  BY <1>3, <1>5

(* The contents of a block. *)
Contents(es, rs) == [entries |-> es, restarts |-> rs]

(* Iterators over a block of n entries, and those at entry q of it. *)
Iters(es, rs, n) ==
  [block : {Contents(es, rs)}, current : 0 .. n, key : Words, status : {"OK"}]

(* it is at entry q, or behind the last. *)
At(it, es, rs, n, ks, q) ==
  /\ it \in Iters(es, rs, n) /\ it.current = q
  /\ q < n => it.key = ks[q + 1]

(* What an iterator of a block has. *)
LEMMA IterIs ==
  ASSUME NEW es, NEW rs, NEW n, NEW it, it \in Iters(es, rs, n)
  PROVE  /\ it.block = Contents(es, rs) /\ it.block.entries = es /\ it.block.restarts = rs
         /\ it.current \in 0 .. n /\ it.key \in Words /\ it.status = "OK"
BY DEF Iters, Contents

(* An iterator moved to entry q, *)
MovedTo(it, q) == [it EXCEPT !.current = q]

(* and with the key there. *)
MovedWith(it, q, k) == [it EXCEPT !.current = q, !.key = k]

(* It is an iterator of the same block, *)
LEMMA MovedIs ==
  ASSUME NEW es, NEW rs, NEW n \in Nat, NEW it, it \in Iters(es, rs, n), NEW q \in 0 .. n
  PROVE  MovedTo(it, q) \in Iters(es, rs, n) /\ MovedTo(it, q).current = q
BY DEF Iters, MovedTo

(* also with the key. *)
LEMMA MovedWithIs ==
  ASSUME NEW es, NEW rs, NEW n \in Nat, NEW it, it \in Iters(es, rs, n), NEW q \in 0 .. n,
         NEW k \in Words
  PROVE  /\ MovedWith(it, q, k) \in Iters(es, rs, n)
         /\ MovedWith(it, q, k).current = q /\ MovedWith(it, q, k).key = k
BY DEF Iters, MovedWith

(* What an entry is. *)
LEMMA EntryIs ==
  ASSUME NEW es, NEW n \in Nat, NEW ks, NEW vs, EntriesOK(es, n, ks, vs), NEW i \in 1 .. n
  PROVE  /\ Len(es) = n /\ es[i] \in EntrySet /\ es[i].shared \in Nat /\ es[i].delta \in Words
         /\ EntryOK(es[i], i, ks, vs) /\ ks[i] \in Words
         /\ es[i].shared = 0 => ks[i] = es[i].delta
<1>1. Len(es) = n /\ es[i] \in EntrySet /\ EntryOK(es[i], i, ks, vs)
  BY ElementOfSeq DEF EntriesOK
<1>2. es[i].shared \in Nat /\ es[i].delta \in Words /\ ks[i] \in Words
  BY <1>1 DEF EntrySet, EntryOK
<1>3. ASSUME es[i].shared = 0 PROVE ks[i] = es[i].delta
  <2>1. ks[i] = SubSeq(Previous(ks, i), 1, 0) \o es[i].delta
    BY <1>1, <1>3 DEF EntryOK
  <2> QED
    BY <1>2, <2>1, NothingShared
<1> QED
  BY <1>1, <1>2, <1>3

(* Parsing the entry behind the first q, with the key before it or, where  *)
(* nothing is shared, with any.                                            *)
LEMMA ParseIs ==
  ASSUME NEW es, NEW rs, NEW n \in Nat, NEW ks, NEW vs, EntriesOK(es, n, ks, vs),
         NEW it, it \in Iters(es, rs, n), NEW q \in 0 .. n, NEW k \in Words,
         q < n => k = Previous(ks, q + 1) \/ es[q + 1].shared = 0
  PROVE  At(TB!ParseNextKey(it, q, k), es, rs, n, ks, q)
<1> DEFINE r == TB!ParseNextKey(it, q, k)
           e == es[q + 1]
           l == SubSeq(k, 1, e.shared) \o e.delta
<1>1. it.block.entries = es /\ Len(es) = n
  BY IterIs DEF EntriesOK
<1>2. CASE q = n
  <2>1. r = MovedTo(it, q)
    BY <1>1, <1>2 DEF TB!ParseNextKey, MovedTo
  <2> HIDE DEF r
  <2>2. r \in Iters(es, rs, n) /\ r.current = q
    BY <2>1, MovedIs
  <2>3. At(r, es, rs, n, ks, q)
    BY <1>2, <2>2 DEF At
  <2> QED
    BY <2>3 DEF r
<1>3. CASE q < n
  <2>1. PICK i \in 1 .. n : i = q + 1
    BY <1>3
  <2>2. /\ e.shared \in Nat /\ e.delta \in Words
        /\ EntryOK(e, i, ks, vs) /\ ks[i] \in Words
        /\ e.shared = 0 => ks[i] = e.delta
    BY <2>1, EntryIs
  <2>3. ~(Len(k) < e.shared) /\ l = ks[i]
    <3>1. CASE k = Previous(ks, i)
      <4>1. e.shared <= Len(k) /\ ks[i] = SubSeq(k, 1, e.shared) \o e.delta
        BY <2>2, <3>1 DEF EntryOK
      <4>2. Len(k) \in Nat
        BY WordIs
      <4> QED
        BY <2>2, <4>1, <4>2
    <3>2. CASE e.shared = 0
      <4>1. Len(k) \in Nat
        BY WordIs
      <4>2. SubSeq(k, 1, 0) \o e.delta = e.delta
        BY <2>2, NothingShared
      <4> QED
        BY <2>2, <3>2, <4>1, <4>2
    <3> QED
      BY <1>3, <2>1, <3>1, <3>2
  <2>4. r = MovedWith(it, q, l)
    BY <1>1, <1>3, <2>3 DEF TB!ParseNextKey, MovedWith
  <2> HIDE DEF l, r, e
  <2>5. r \in Iters(es, rs, n) /\ r.current = q /\ r.key = l
    <3>1. PICK w \in Words : w = l
      BY <2>2, <2>3
    <3>2. /\ MovedWith(it, q, w) \in Iters(es, rs, n)
          /\ MovedWith(it, q, w).current = q /\ MovedWith(it, q, w).key = w
      BY MovedWithIs
    <3> QED
      BY <2>4, <3>1, <3>2
  <2>6. At(r, es, rs, n, ks, q)
    BY <2>1, <2>3, <2>5 DEF At
  <2> QED
    BY <2>6 DEF r
<1> QED
  BY <1>2, <1>3

(* Next goes to the next entry (block.cc:130-133). *)
LEMMA IterNextIs ==
  ASSUME NEW es, NEW rs, NEW n \in Nat, NEW ks, NEW vs, EntriesOK(es, n, ks, vs),
         NEW it, NEW q \in 0 .. n, At(it, es, rs, n, ks, q)
  PROVE  /\ q < n => At(TB!IterNext(it), es, rs, n, ks, q + 1)
         /\ q = n => At(TB!IterNext(it), es, rs, n, ks, n)
<1>1. it \in Iters(es, rs, n) /\ it.current = q /\ it.key \in Words /\ it.block.entries = es
  BY IterIs DEF At
<1>2. CASE q < n
  <2>1. PICK p \in 0 .. n : p = q + 1 /\ p # 0 /\ p - 1 = q
    BY <1>2
  <2>2. it.key = Previous(ks, p + 1)
    <3>1. it.key = ks[p]
      BY <1>2, <2>1 DEF At
    <3>2. p + 1 # 1 /\ p + 1 - 1 = p
      BY <2>1
    <3> QED
      BY <3>1, <3>2 DEF Previous
  <2>3. At(TB!ParseNextKey(it, p, it.key), es, rs, n, ks, p)
    BY <1>1, <2>2, ParseIs
  <2>4. TB!IterNext(it) = TB!ParseNextKey(it, p, it.key)
    BY <1>1, <2>1 DEF TB!IterNext
  <2> QED
    BY <1>2, <2>1, <2>3, <2>4
<1>3. CASE q = n
  <2>1. TB!IterNext(it) = MovedTo(it, n)
    BY <1>1, <1>3 DEF TB!IterNext, TB!ParseNextKey, EntriesOK, MovedTo
  <2>2. n \in 0 .. n
    OBVIOUS
  <2>3. MovedTo(it, n) \in Iters(es, rs, n) /\ MovedTo(it, n).current = n
    BY <1>1, <2>2, MovedIs
  <2>4. At(TB!IterNext(it), es, rs, n, ks, n)
    BY <2>1, <2>3 DEF At
  <2> QED
    BY <1>3, <2>4
<1> QED
  BY <1>2, <1>3

(* SeekToFirst goes to the first (block.cc:175-178). *)
LEMMA SeekToFirstIs ==
  ASSUME NEW es, NEW rs, NEW n \in Nat, NEW ks, NEW vs, Encodes(es, rs, n, ks, vs),
         NEW it, it \in Iters(es, rs, n)
  PROVE  At(TB!IterSeekToFirst(it), es, rs, n, ks, 0)
<1>1. EntriesOK(es, n, ks, vs) /\ rs # <<>> /\ rs[1] = 0
  BY EmptyWord DEF Encodes, RestartsOK
<1>2. TB!IterSeekToFirst(it) = TB!ParseNextKey(it, 0, <<>>)
  BY <1>1, IterIs DEF TB!IterSeekToFirst
<1>3. 0 \in 0 .. n /\ <<>> \in Words /\ <<>> = Previous(ks, 0 + 1)
  BY EmptyWord DEF Previous
<1>4. At(TB!ParseNextKey(it, 0, <<>>), es, rs, n, ks, 0)
  BY <1>1, <1>3, ParseIs
<1> QED
  BY <1>2, <1>4

(* A new iterator is behind the last (block.cc:109-117). *)
LEMMA NewIterIs ==
  ASSUME NEW es, NEW rs, NEW n \in Nat, NEW ks, Len(es) = n
  PROVE  At(TB!NewIter(Contents(es, rs)), es, rs, n, ks, n)
<1>1. TB!NewIter(Contents(es, rs)) = [block |-> Contents(es, rs), current |-> n, key |-> <<>>, status |-> "OK"]
  BY DEF TB!NewIter, Contents
<1>2. n \in 0 .. n
  OBVIOUS
<1> QED
  BY <1>1, <1>2, EmptyWord DEF At, Iters

(* The middle is past the left end. *)
LEMMA Half ==
  ASSUME NEW l \in Nat, NEW r \in Nat, l < r
  PROVE  (l + r + 1) \div 2 \in l + 1 .. r
OBVIOUS

(* The middle of the binary search. *)
Middle(b) == (b[1] + b[2] + 1) \div 2

(* f is the binary search among 0 .. m - 1 where S are those before. *)
Finds(f, m, S) ==
  f = [b \in (0 .. m - 1) \X (0 .. m - 1) |->
         IF b[1] >= b[2] THEN b[1]
         ELSE IF Middle(b) \in S THEN f[<<Middle(b), b[2]>>] ELSE f[<<b[1], Middle(b) - 1>>]]

(* The last of l .. r in S, or l. *)
LastOf(l, r, S, k) ==
  /\ k \in l .. r /\ (k = l \/ k \in S)
  /\ \A j \in k + 1 .. r : j \notin S

(* That one. *)
LastIn(l, r, S) == CHOOSE k : LastOf(l, r, S, k)

(* There is one, and only one. *)
LEMMA LastIs ==
  ASSUME NEW l \in Nat, NEW r \in Nat, l <= r, NEW S
  PROVE  /\ \E k : LastOf(l, r, S, k)
         /\ \A k, q : LastOf(l, r, S, k) /\ LastOf(l, r, S, q) => k = q
<1> DEFINE D == {k \in Nat : k \in l .. r /\ \A j \in k + 1 .. r : j \notin S}
<1>1. PICK k \in D : \A q \in D : k <= q
  <2>1. r \in D
    OBVIOUS
  <2>2. D \subseteq Nat /\ D # {}
    BY <2>1
  <2> HIDE DEF D
  <2> QED
    BY <2>2, LeastNumber
<1>2. ASSUME k # l, k \notin S PROVE FALSE
  <2>1. k - 1 \in Nat /\ k - 1 \in l .. r /\ ~(k <= k - 1)
    BY <1>2
  <2>2. \A j \in (k - 1) + 1 .. r : j \notin S
    <3>1. ASSUME NEW j \in (k - 1) + 1 .. r PROVE j \notin S
      <4>1. j = k \/ j \in k + 1 .. r
        OBVIOUS
      <4> QED
        BY <1>2, <4>1
    <3> QED
      BY <3>1
  <2>3. k - 1 \in D
    BY <2>1, <2>2
  <2> HIDE DEF D
  <2> QED
    BY <1>1, <2>1, <2>3
<1>3. LastOf(l, r, S, k)
  BY <1>2 DEF LastOf
<1>4. ASSUME NEW a, NEW b, LastOf(l, r, S, a), LastOf(l, r, S, b) PROVE a = b
  <2>1. a \in l .. r /\ b \in l .. r
    BY <1>4 DEF LastOf
  <2>2. ~(a < b)
    <3>1. ASSUME a < b PROVE FALSE
      <4>1. b \in a + 1 .. r /\ b # l
        BY <2>1, <3>1
      <4> QED
        BY <1>4, <4>1 DEF LastOf
    <3> QED
      BY <3>1
  <2>3. ~(b < a)
    <3>1. ASSUME b < a PROVE FALSE
      <4>1. a \in b + 1 .. r /\ a # l
        BY <2>1, <3>1
      <4> QED
        BY <1>4, <4>1 DEF LastOf
    <3> QED
      BY <3>1
  <2> QED
    BY <2>1, <2>2, <2>3
<1> QED
  BY <1>3, <1>4

(* The binary search has its values. *)
LEMMA SearchExists ==
  ASSUME NEW m \in Nat, NEW S, \A j, k \in 0 .. m - 1 : j < k /\ k \in S => j \in S
  PROVE  \E f : Finds(f, m, S)
<1> DEFINE D == (0 .. m - 1) \X (0 .. m - 1)
           g == [b \in D |-> IF b[1] >= b[2] THEN b[1] ELSE LastIn(b[1], b[2], S)]
<1>1. g = [b \in D |-> g[b]]
  OBVIOUS
<1>2. ASSUME NEW l \in 0 .. m - 1, NEW r \in 0 .. m - 1
      PROVE  /\ <<l, r>> \in D /\ <<l, r>>[1] = l /\ <<l, r>>[2] = r
             /\ l >= r => g[<<l, r>>] = l
             /\ l <= r => LastOf(l, r, S, g[<<l, r>>])
  <2>1. <<l, r>> \in D /\ <<l, r>>[1] = l /\ <<l, r>>[2] = r
    OBVIOUS
  <2>2. g[<<l, r>>] = IF l >= r THEN l ELSE LastIn(l, r, S)
    <3>1. PICK b \in D : b = <<l, r>> /\ b[1] = l /\ b[2] = r
      BY <2>1
    <3>2. g[b] = IF b[1] >= b[2] THEN b[1] ELSE LastIn(b[1], b[2], S)
      OBVIOUS
    <3> HIDE DEF g
    <3> QED
      BY <3>1, <3>2
  <2>3. CASE l < r
    <3>1. g[<<l, r>>] = LastIn(l, r, S)
      BY <2>2, <2>3
    <3>2. LastOf(l, r, S, LastIn(l, r, S))
      <4>1. \E k : LastOf(l, r, S, k)
        BY <2>3, LastIs
      <4> QED
        BY <4>1 DEF LastIn
    <3> HIDE DEF g
    <3> QED
      BY <2>1, <2>3, <3>1, <3>2
  <2>4. CASE l >= r
    <3>1. g[<<l, r>>] = l
      BY <2>2, <2>4
    <3>2. l <= r => LastOf(l, r, S, l)
      BY <2>4 DEF LastOf
    <3> QED
      BY <2>1, <2>4, <3>1, <3>2
  <2> QED
    BY <2>3, <2>4
<1>3. \A b \in D : b = <<b[1], b[2]>> /\ b[1] \in 0 .. m - 1 /\ b[2] \in 0 .. m - 1
  OBVIOUS
<1> HIDE DEF g, D
<1>4. ASSUME NEW l \in 0 .. m - 1, NEW r \in 0 .. m - 1, l < r, NEW h \in l + 1 .. r
      PROVE  g[<<l, r>>] = IF h \in S THEN g[<<h, r>>] ELSE g[<<l, h - 1>>]
  <2>1. h \in 0 .. m - 1 /\ h - 1 \in 0 .. m - 1 /\ h <= r /\ l <= h - 1 /\ l <= r
    BY <1>4
  <2>2. LastOf(l, r, S, g[<<l, r>>])
    BY <1>2, <2>1
  <2>3. CASE h \in S
    <3>1. LastOf(h, r, S, g[<<h, r>>])
      BY <1>2, <2>1
    <3>2. LastOf(l, r, S, g[<<h, r>>])
      BY <2>1, <2>3, <3>1 DEF LastOf
    <3>3. g[<<l, r>>] = g[<<h, r>>]
      BY <2>1, <2>2, <3>2, LastIs
    <3> QED
      BY <2>3, <3>3
  <2>4. CASE h \notin S
    <3>1. LastOf(l, h - 1, S, g[<<l, h - 1>>])
      BY <1>2, <2>1
    <3>2. PICK k \in l .. h - 1 : /\ k = g[<<l, h - 1>>]
                                  /\ k = l \/ k \in S
                                  /\ \A j \in k + 1 .. h - 1 : j \notin S
      BY <3>1 DEF LastOf
    <3>3. ASSUME NEW j \in k + 1 .. r PROVE j \notin S
      <4>1. j \in k + 1 .. h - 1 \/ j = h \/ (h < j /\ j \in 0 .. m - 1)
        BY <2>1
      <4> QED
        BY <2>1, <2>4, <3>2, <4>1
    <3>4. k \in l .. r
      BY <2>1
    <3>5. LastOf(l, r, S, k)
      BY <3>2, <3>3, <3>4 DEF LastOf
    <3>6. g[<<l, r>>] = k
      BY <2>1, <2>2, <3>5, LastIs
    <3> QED
      BY <2>4, <3>2, <3>6
  <2> QED
    BY <2>3, <2>4
<1>5. ASSUME NEW b \in D
      PROVE  g[b] = IF b[1] >= b[2] THEN b[1]
                    ELSE IF Middle(b) \in S THEN g[<<Middle(b), b[2]>>]
                    ELSE g[<<b[1], Middle(b) - 1>>]
  <2>1. PICK l \in 0 .. m - 1 : l = b[1]
    BY <1>3
  <2>2. PICK r \in 0 .. m - 1 : r = b[2]
    BY <1>3
  <2>3. b = <<l, r>>
    BY <1>3, <2>1, <2>2
  <2>4. CASE l >= r
    BY <1>2, <2>1, <2>2, <2>3, <2>4
  <2>5. CASE l < r
    <3>1. PICK h \in l + 1 .. r : h = Middle(b)
      BY <2>1, <2>2, <2>5, Half DEF Middle
    <3>2. g[<<l, r>>] = IF h \in S THEN g[<<h, r>>] ELSE g[<<l, h - 1>>]
      BY <1>4, <2>5
    <3> QED
      BY <2>1, <2>2, <2>3, <2>5, <3>1, <3>2
  <2> QED
    BY <2>4, <2>5
<1>6. Finds(g, m, S)
  BY <1>1, <1>5 DEF Finds, D
<1> QED
  BY <1>6

(* It ends at the first, or at one that is before (block.cc:139-161). *)
LEMMA SearchFinds ==
  ASSUME NEW m \in Nat, m > 0, NEW S, NEW f, Finds(f, m, S)
  PROVE  f[<<0, m - 1>>] \in 0 .. m - 1 /\ (f[<<0, m - 1>>] = 0 \/ f[<<0, m - 1>>] \in S)
<1> DEFINE Good(l, r) == f[<<l, r>>] \in l .. r /\ (f[<<l, r>>] = l \/ f[<<l, r>>] \in S)
           P == {d \in Nat : \A l, r \in 0 .. m - 1 : l <= r /\ r - l <= d => Good(l, r)}
<1>1. ASSUME NEW l \in 0 .. m - 1, NEW r \in 0 .. m - 1
      PROVE  /\ l >= r => f[<<l, r>>] = l
             /\ l < r => \E h \in l + 1 .. r :
                  f[<<l, r>>] = IF h \in S THEN f[<<h, r>>] ELSE f[<<l, h - 1>>]
  <2>1. PICK b \in (0 .. m - 1) \X (0 .. m - 1) : b = <<l, r>> /\ b[1] = l /\ b[2] = r
    <3>1. <<l, r>> \in (0 .. m - 1) \X (0 .. m - 1) /\ <<l, r>>[1] = l /\ <<l, r>>[2] = r
      OBVIOUS
    <3> QED
      BY <3>1
  <2>2. f[b] = IF b[1] >= b[2] THEN b[1]
               ELSE IF Middle(b) \in S THEN f[<<Middle(b), b[2]>>] ELSE f[<<b[1], Middle(b) - 1>>]
    BY DEF Finds
  <2>3. CASE l < r
    <3>1. PICK h \in l + 1 .. r : h = Middle(b)
      BY <2>1, <2>3, Half DEF Middle
    <3>2. f[<<l, r>>] = IF h \in S THEN f[<<h, r>>] ELSE f[<<l, h - 1>>]
      BY <2>1, <2>2, <2>3, <3>1
    <3>3. \E i \in l + 1 .. r :
            f[<<l, r>>] = IF i \in S THEN f[<<i, r>>] ELSE f[<<l, i - 1>>]
      BY <3>2
    <3>4. ~(l >= r)
      BY <2>3
    <3> QED
      BY <3>3, <3>4
  <2>4. CASE l >= r
    BY <2>1, <2>2, <2>4
  <2> QED
    BY <2>3, <2>4
<1>2. ASSUME NEW l \in 0 .. m - 1 PROVE Good(l, l)
  <2> HIDE DEF Good, P
  <2>1. f[<<l, l>>] = l
    <3>1. PICK b \in (0 .. m - 1) \X (0 .. m - 1) : b = <<l, l>> /\ b[1] = l /\ b[2] = l
      <4>1. <<l, l>> \in (0 .. m - 1) \X (0 .. m - 1) /\ <<l, l>>[1] = l /\ <<l, l>>[2] = l
        OBVIOUS
      <4> QED
        BY <4>1
    <3>2. f[b] = IF b[1] >= b[2] THEN b[1]
                 ELSE IF Middle(b) \in S THEN f[<<Middle(b), b[2]>>] ELSE f[<<b[1], Middle(b) - 1>>]
      BY DEF Finds
    <3>3. b[1] >= b[2]
      BY <3>1
    <3>4. f[b] = b[1]
      BY <3>2, <3>3
    <3> QED
      BY <3>1, <3>4
  <2>2. l \in l .. l
    OBVIOUS
  <2> QED
    BY <2>1, <2>2 DEF Good
<1>3. 0 \in P
  <2>1. \A l, r \in 0 .. m - 1 : l <= r /\ r - l <= 0 => l = r
    OBVIOUS
  <2> HIDE DEF Good
  <2> QED
    BY <1>2, <2>1
<1>4. ASSUME NEW d \in Nat, d \in P PROVE d + 1 \in P
  <2> SUFFICES ASSUME NEW l \in 0 .. m - 1, NEW r \in 0 .. m - 1, l <= r, r - l <= d + 1
               PROVE  Good(l, r)
    OBVIOUS
  <2>1. CASE l = r
    <3> HIDE DEF Good
    <3> QED
      BY <1>2, <2>1
  <2>2. CASE l < r
    <3>1. PICK h \in l + 1 .. r : f[<<l, r>>] = IF h \in S THEN f[<<h, r>>] ELSE f[<<l, h - 1>>]
      BY <1>1, <2>2
    <3>2. /\ h \in 0 .. m - 1 /\ h - 1 \in 0 .. m - 1 /\ h <= r /\ l <= h - 1
          /\ r - h <= d /\ (h - 1) - l <= d
      OBVIOUS
    <3>3. Good(h, r) /\ Good(l, h - 1)
      <4> HIDE DEF Good
      <4> QED
        BY <1>4, <3>2
    <3>4. PICK p \in h .. r : p = f[<<h, r>>] /\ (p = h \/ p \in S)
      BY <3>3
    <3>5. PICK q \in l .. h - 1 : q = f[<<l, h - 1>>] /\ (q = l \/ q \in S)
      BY <3>3
    <3>6. PICK x : x = f[<<l, r>>]
      OBVIOUS
    <3>7. x = IF h \in S THEN p ELSE q
      BY <3>1, <3>4, <3>5, <3>6
    <3>8. x \in l .. r /\ (x = l \/ x \in S)
      BY <3>4, <3>5, <3>7
    <3> QED
      BY <3>6, <3>8
  <2> QED
    BY <2>1, <2>2
<1>5. \A d \in Nat : d \in P
  <2> HIDE DEF P
  <2> QED
    BY <1>3, <1>4, Induction
<1>6. m - 1 \in Nat /\ 0 \in 0 .. m - 1 /\ m - 1 \in 0 .. m - 1 /\ 0 <= m - 1 /\ (m - 1) - 0 <= m - 1
  OBVIOUS
<1>7. Good(0, m - 1)
  <2>1. m - 1 \in P
    BY <1>5, <1>6
  <2> HIDE DEF Good
  <2> QED
    BY <1>6, <2>1
<1> QED
  BY <1>7

(* The keys are words in strict order. *)
InOrder(n, ks) ==
  /\ \A i \in 1 .. n : ks[i] \in Words
  /\ \A i, j \in 1 .. n : i < j => TB!Before(ks[i], ks[j])

(* The first t keys are before target, the next one is not. *)
FirstPast(n, ks, target, t) ==
  /\ t \in 0 .. n
  /\ \A i \in 1 .. t : TB!Before(ks[i], target)
  /\ t < n => ~TB!Before(ks[t + 1], target)

(* There is always such a t. *)
LEMMA FirstPastIs ==
  ASSUME NEW n \in Nat, NEW ks, NEW target
  PROVE  \E t \in 0 .. n : FirstPast(n, ks, target, t)
<1> DEFINE S == {t \in Nat : t = n \/ (t < n /\ ~TB!Before(ks[t + 1], target))}
<1>1. S \subseteq Nat /\ n \in S
  OBVIOUS
<1>2. PICK t \in S : \A s \in S : t <= s
  <2> HIDE DEF S
  <2> QED
    BY <1>1, LeastNumber
<1>3. t \in 0 .. n /\ (t < n => ~TB!Before(ks[t + 1], target))
  BY <1>1, <1>2
<1>4. ASSUME NEW i \in 1 .. t PROVE TB!Before(ks[i], target)
  <2>1. PICK h \in Nat : h = i - 1 /\ h + 1 = i /\ h < n /\ h < t
    BY <1>3
  <2>2. h \notin S
    <3> HIDE DEF S
    <3> QED
      BY <1>1, <1>2, <2>1
  <2> QED
    BY <2>1, <2>2
<1> QED
  BY <1>3, <1>4 DEF FirstPast

(* The t keys are all those before target. *)
LEMMA FirstPastSplits ==
  ASSUME NEW n \in Nat, NEW ks, InOrder(n, ks), NEW target \in Words, NEW t \in 0 .. n,
         FirstPast(n, ks, target, t), NEW i \in 1 .. n
  PROVE  TB!Before(ks[i], target) <=> i <= t
<1>1. CASE i <= t
  <2>1. i \in 1 .. t
    BY <1>1
  <2> QED
    BY <1>1, <2>1 DEF FirstPast
<1>2. CASE t < i
  <2>1. PICK h \in 1 .. n : h = t + 1 /\ (h = i \/ h < i)
    BY <1>2
  <2>2. ~TB!Before(ks[h], target) /\ ks[h] \in Words /\ ks[i] \in Words
    BY <1>2, <2>1 DEF FirstPast, InOrder
  <2>3. ~TB!Before(ks[i], target)
    <3>1. CASE h = i
      BY <2>2, <3>1
    <3>2. CASE h < i
      <4>1. TB!Before(ks[h], ks[i])
        BY <3>2 DEF InOrder
      <4> QED
        BY <2>2, <4>1, BeforeTransitive
    <3> QED
      BY <2>1, <3>1, <3>2
  <2> QED
    BY <1>2, <2>3
<1> QED
  BY <1>1, <1>2

(* Where the binary search may stop. *)
EarlyRestart(rs, ks, target, r) ==
  /\ r \in 0 .. Len(rs) - 1
  /\ r = 0 \/ TB!Before(ks[rs[r + 1] + 1], target)

(* f is the search of LastRestartBefore. *)
Searches(f, block, target) ==
  f = [b \in (0 .. Len(block.restarts) - 1) \X (0 .. Len(block.restarts) - 1) |->
         LET low == b[1]
             right == b[2]
             mid == (low + right + 1) \div 2
             e == block.entries[block.restarts[mid + 1] + 1]
         IN IF low >= right THEN low
            ELSE IF e.shared # 0 THEN -1
            ELSE IF TB!Before(e.delta, target) THEN f[<<mid, right>>]
            ELSE f[<<low, mid - 1>>]]

(* A restart point is an entry whose key is there in full. *)
LEMMA RestartIs ==
  ASSUME NEW es, NEW rs, NEW n \in Nat, NEW ks, NEW vs, Encodes(es, rs, n, ks, vs),
         NEW h \in 1 .. Len(rs), n > 0
  PROVE  /\ rs[h] \in Nat /\ rs[h] < n /\ rs[h] + 1 \in 1 .. n
         /\ es[rs[h] + 1].shared = 0 /\ es[rs[h] + 1].delta = ks[rs[h] + 1]
<1>1. rs[h] \in Nat /\ rs[h] < n /\ es[rs[h] + 1].shared = 0
  BY ElementOfSeq DEF Encodes, RestartsOK
<1>2. PICK i \in 1 .. n : i = rs[h] + 1
  BY <1>1
<1>3. es[i].shared = 0 => ks[i] = es[i].delta
  BY EntryIs DEF Encodes
<1> QED
  BY <1>1, <1>2, <1>3

(* LastRestartBefore is the binary search among the restart points that    *)
(* are before.                                                             *)
LEMMA SearchesIs ==
  ASSUME NEW es, NEW rs, NEW n \in Nat, NEW ks, NEW vs, Encodes(es, rs, n, ks, vs),
         NEW target, NEW f
  PROVE  Searches(f, Contents(es, rs), target) <=>
         Finds(f, Len(rs), {j \in 0 .. Len(rs) - 1 : TB!Before(ks[rs[j + 1] + 1], target)})
<1> DEFINE S == {j \in 0 .. Len(rs) - 1 : TB!Before(ks[rs[j + 1] + 1], target)}
           D == (0 .. Len(rs) - 1) \X (0 .. Len(rs) - 1)
           A(b) == LET low == b[1]
                       right == b[2]
                       mid == (low + right + 1) \div 2
                       e == es[rs[mid + 1] + 1]
                   IN IF low >= right THEN low
                      ELSE IF e.shared # 0 THEN -1
                      ELSE IF TB!Before(e.delta, target) THEN f[<<mid, right>>]
                      ELSE f[<<low, mid - 1>>]
           B(b) == IF b[1] >= b[2] THEN b[1]
                   ELSE IF Middle(b) \in S THEN f[<<Middle(b), b[2]>>]
                   ELSE f[<<b[1], Middle(b) - 1>>]
<1>1. Searches(f, Contents(es, rs), target) <=> f = [b \in D |-> A(b)]
  BY DEF Searches, Contents
<1>2. Finds(f, Len(rs), S) <=> f = [b \in D |-> B(b)]
  BY DEF Finds
<1>3. Len(rs) \in Nat /\ Len(rs) >= 1 /\ (n = 0 => Len(rs) = 1)
  BY DEF Encodes, RestartsOK
<1>4. ASSUME NEW b \in D PROVE A(b) = B(b)
  <2>1. PICK l \in 0 .. Len(rs) - 1 : l = b[1]
    OBVIOUS
  <2>2. PICK r \in 0 .. Len(rs) - 1 : r = b[2]
    OBVIOUS
  <2>3. CASE l >= r
    BY <2>1, <2>2, <2>3
  <2>4. CASE l < r
    <3>1. PICK h \in l + 1 .. r : h = (l + r + 1) \div 2 /\ h = Middle(b)
      BY <2>1, <2>2, <2>4, Half DEF Middle
    <3> HIDE DEF S, D
    <3>2. n > 0 /\ h \in 0 .. Len(rs) - 1
      BY <1>3, <2>4
    <3>7. PICK k \in 1 .. Len(rs) : k = h + 1
      BY <1>3, <3>2
    <3>3. es[rs[h + 1] + 1].shared = 0 /\ es[rs[h + 1] + 1].delta = ks[rs[h + 1] + 1]
      BY <3>2, <3>7, RestartIs
    <3>4. A(b) = IF TB!Before(ks[rs[h + 1] + 1], target) THEN f[<<h, r>>] ELSE f[<<l, h - 1>>]
      <4>1. ~(l >= r) /\ (b[1] + b[2] + 1) \div 2 = h /\ b[1] = l /\ b[2] = r
        BY <2>1, <2>2, <2>4, <3>1
      <4>2. A(b) = IF es[rs[h + 1] + 1].shared # 0 THEN -1
                   ELSE IF TB!Before(es[rs[h + 1] + 1].delta, target) THEN f[<<h, r>>]
                   ELSE f[<<l, h - 1>>]
        BY <4>1
      <4> QED
        BY <3>3, <4>2
    <3>5. B(b) = IF h \in S THEN f[<<h, r>>] ELSE f[<<l, h - 1>>]
      <4>1. ~(l >= r)
        BY <2>4
      <4> QED
        BY <2>1, <2>2, <3>1, <4>1
    <3>6. h \in S <=> TB!Before(ks[rs[h + 1] + 1], target)
      BY <3>2 DEF S
    <3> QED
      BY <3>4, <3>5, <3>6
  <2> QED
    BY <2>3, <2>4
<1>5. [b \in D |-> A(b)] = [b \in D |-> B(b)]
  <2> HIDE DEF A, B
  <2> QED
    BY <1>4
<1> QED
  BY <1>1, <1>2, <1>5

(* It ends at the first restart point or at one before target              *)
(* (block.cc:136-161).                                                     *)
LEMMA LastRestartIs ==
  ASSUME NEW es, NEW rs, NEW n \in Nat, NEW ks, NEW vs, Encodes(es, rs, n, ks, vs),
         InOrder(n, ks), NEW target \in Words
  PROVE  EarlyRestart(rs, ks, target, TB!LastRestartBefore(Contents(es, rs), target))
<1> DEFINE m == Len(rs)
           S == {j \in 0 .. m - 1 : TB!Before(ks[rs[j + 1] + 1], target)}
           f == CHOOSE g : Searches(g, Contents(es, rs), target)
<1>1. m \in Nat /\ m > 0 /\ (n = 0 => m = 1)
  BY DEF Encodes, RestartsOK
<1>2. ASSUME NEW j \in 0 .. m - 1, NEW k \in 0 .. m - 1, j < k, k \in S PROVE j \in S
  <2>0. PICK x \in 1 .. m : x = j + 1
    BY <1>1
  <2>8. PICK y \in 1 .. m : y = k + 1
    BY <1>1
  <2>1. n > 0 /\ x < y
    BY <1>1, <1>2, <2>0, <2>8
  <2>2. rs[x] < rs[y]
    BY <2>1 DEF Encodes, RestartsOK
  <2>9. rs[x] \in Nat /\ rs[y] \in Nat
    BY <2>1, RestartIs
  <2>3. PICK a \in 1 .. n : a = rs[x] + 1 /\ a = rs[j + 1] + 1
    BY <2>0, <2>1, RestartIs
  <2>4. PICK c \in 1 .. n : c = rs[y] + 1 /\ c = rs[k + 1] + 1
    BY <2>8, <2>1, RestartIs
  <2>5. a < c
    BY <2>2, <2>3, <2>4, <2>9
  <2>6. TB!Before(ks[a], ks[c]) /\ ks[a] \in Words /\ ks[c] \in Words /\ TB!Before(ks[c], target)
    BY <1>2, <2>4, <2>5 DEF InOrder
  <2>7. TB!Before(ks[a], target)
    BY <2>6, BeforeTransitive
  <2> QED
    BY <2>3, <2>7
<1>3. \E g : Searches(g, Contents(es, rs), target)
  <2>1. \E g : Finds(g, m, S)
    <3> HIDE DEF m, S
    <3> QED
      BY <1>1, <1>2, SearchExists
  <2> QED
    BY <2>1, SearchesIs
<1>4. Finds(f, m, S)
  <2>1. Searches(f, Contents(es, rs), target)
    BY <1>3
  <2> HIDE DEF f
  <2> QED
    BY <2>1, SearchesIs
<1>5. TB!LastRestartBefore(Contents(es, rs), target) = f[<<0, m - 1>>]
  BY DEF TB!LastRestartBefore, Searches, Contents
<1>6. f[<<0, m - 1>>] \in 0 .. m - 1 /\ (f[<<0, m - 1>>] = 0 \/ f[<<0, m - 1>>] \in S)
  <2> HIDE DEF f, m, S
  <2> QED
    BY <1>1, <1>4, SearchFinds
<1> HIDE DEF f
<1> QED
  BY <1>5, <1>6 DEF EarlyRestart

(* One turn of the linear search, and its function.                        *)
Onward(p, target) ==
  IF TB!Valid(p) /\ TB!Before(p.key, target) THEN TB!IterNext(p) ELSE p

(* f are the iterators of LinearSearch. *)
Scans(f, it, origin, last, target) ==
  f = [i \in origin .. last |->
         IF i = origin THEN TB!ParseNextKey(it, origin, <<>>)
         ELSE LET p == f[i - 1]
              IN IF TB!Valid(p) /\ TB!Before(p.key, target) THEN TB!IterNext(p) ELSE p]

(* The iterators of a block that are at one of its entries or behind the   *)
(* last.                                                                   *)
Places(es, rs, n, ks) == {p \in Iters(es, rs, n) : \E q \in 0 .. n : At(p, es, rs, n, ks, q)}

(* A key before target is passed, *)
LEMMA OnwardIs ==
  ASSUME NEW es, NEW rs, NEW n \in Nat, NEW ks, NEW vs, EntriesOK(es, n, ks, vs),
         NEW target, NEW p, NEW q \in 0 .. n, At(p, es, rs, n, ks, q),
         q < n, TB!Before(ks[q + 1], target)
  PROVE  At(Onward(p, target), es, rs, n, ks, q + 1)
<1>1. p \in Iters(es, rs, n) /\ p.current = q /\ p.key = ks[q + 1]
  BY DEF At
<1>2. p.block.entries = es /\ Len(es) = n
  BY <1>1, IterIs DEF EntriesOK
<1>3. TB!Valid(p) /\ TB!Before(p.key, target)
  BY <1>1, <1>2 DEF TB!Valid
<1>4. Onward(p, target) = TB!IterNext(p)
  BY <1>3 DEF Onward
<1>5. At(TB!IterNext(p), es, rs, n, ks, q + 1)
  BY IterNextIs
<1> QED
  BY <1>4, <1>5

(* the first at or past it is kept, *)
LEMMA OnwardEnds ==
  ASSUME NEW es, NEW rs, NEW n \in Nat, NEW ks, NEW vs, EntriesOK(es, n, ks, vs),
         NEW target, NEW p, NEW q \in 0 .. n, At(p, es, rs, n, ks, q),
         q < n => ~TB!Before(ks[q + 1], target)
  PROVE  Onward(p, target) = p
<1>1. p \in Iters(es, rs, n) /\ p.current = q /\ (q < n => p.key = ks[q + 1])
  BY DEF At
<1>2. p.block.entries = es /\ Len(es) = n
  BY <1>1, IterIs DEF EntriesOK
<1>3. ~(TB!Valid(p) /\ TB!Before(p.key, target))
  BY <1>1, <1>2 DEF TB!Valid
<1> QED
  BY <1>3 DEF Onward

(* in the block. *)
LEMMA OnwardStays ==
  ASSUME NEW es, NEW rs, NEW n \in Nat, NEW ks, NEW vs, EntriesOK(es, n, ks, vs),
         NEW target, NEW p \in Places(es, rs, n, ks)
  PROVE  Onward(p, target) \in Places(es, rs, n, ks)
<1>1. PICK q \in 0 .. n : At(p, es, rs, n, ks, q)
  BY DEF Places
<1>2. CASE q < n /\ TB!Before(ks[q + 1], target)
  <2>1. PICK h \in 0 .. n : h = q + 1
    BY <1>2
  <2>2. At(Onward(p, target), es, rs, n, ks, h)
    BY <1>1, <1>2, <2>1, OnwardIs
  <2> QED
    BY <2>2 DEF Places, At
<1>3. CASE ~(q < n /\ TB!Before(ks[q + 1], target))
  <2>1. Onward(p, target) = p
    BY <1>1, <1>3, OnwardEnds
  <2> QED
    BY <2>1
<1> QED
  BY <1>2, <1>3

(* The linear search has its values. *)
LEMMA ScanExists ==
  ASSUME NEW es, NEW rs, NEW n \in Nat, NEW ks, NEW vs, EntriesOK(es, n, ks, vs),
         NEW it, NEW origin \in 0 .. n, NEW target,
         At(TB!ParseNextKey(it, origin, <<>>), es, rs, n, ks, origin)
  PROVE  \E f : Scans(f, it, origin, n, target)
<1> DEFINE V == Places(es, rs, n, ks)
           first == TB!ParseNextKey(it, origin, <<>>)
           turn == [p \in V |-> Onward(p, target)]
           step == [i \in 1 .. n - origin |-> turn]
<1>1. first \in V
  BY DEF Places, At
<1>2. turn \in [V -> V]
  <2>1. \A p \in V : Onward(p, target) \in V
    <3> HIDE DEF V
    <3> QED
      BY OnwardStays DEF V
  <2> HIDE DEF V
  <2> QED
    BY <2>1
<1>3. step \in [1 .. n - origin -> [V -> V]] /\ \A i \in 1 .. n - origin : step[i] = turn
  <2> HIDE DEF turn, V
  <2> QED
    BY <1>2
<1>4. n - origin \in Nat
  OBVIOUS
<1>5. PICK g \in [0 .. n - origin -> V] : Iterates(g, n - origin, first, step)
  <2> HIDE DEF V, first, step
  <2> QED
    BY <1>1, <1>3, <1>4, Iteration
<1> DEFINE f == [i \in origin .. n |-> g[i - origin]]
           next(p) == IF TB!Valid(p) /\ TB!Before(p.key, target) THEN TB!IterNext(p) ELSE p
<1>6. ASSUME NEW i \in origin .. n
      PROVE  f[i] = IF i = origin THEN first ELSE next(f[i - 1])
  <2>1. CASE i = origin
    <3>1. f[i] = g[0]
      BY <2>1
    <3>2. g[0] = first
      BY <1>5 DEF Iterates
    <3> QED
      BY <2>1, <3>1, <3>2
  <2>2. CASE i # origin
    <3>1. PICK d \in 1 .. n - origin : d = i - origin
      BY <2>2
    <3>2. PICK h \in origin .. n : h = i - 1 /\ d - 1 = h - origin
      BY <2>2, <3>1
    <3>3. f[i] = g[d] /\ f[h] = g[d - 1]
      BY <3>1, <3>2
    <3>4. g[d] = step[d][g[d - 1]]
      <4> HIDE DEF step
      <4> QED
        BY <1>5 DEF Iterates
    <3>5. d - 1 \in 0 .. n - origin
      OBVIOUS
    <3>6. g[d - 1] \in V
      BY <3>5
    <3>7. g[d] = Onward(g[d - 1], target)
      <4> HIDE DEF V
      <4>1. step[d] = turn
        BY <1>3
      <4>2. turn[g[d - 1]] = Onward(g[d - 1], target)
        BY <3>6
      <4> QED
        BY <3>4, <4>1, <4>2
    <3>8. f[i] = next(f[h])
      BY <3>3, <3>7 DEF Onward
    <3> QED
      BY <2>2, <3>2, <3>8
  <2> QED
    BY <2>1, <2>2
<1>7. f = [i \in origin .. n |-> IF i = origin THEN first ELSE next(f[i - 1])]
  <2> HIDE DEF first, next
  <2>1. f = [i \in origin .. n |-> f[i]]
    OBVIOUS
  <2> HIDE DEF f
  <2> QED
    BY <1>6, <2>1
<1>8. Scans(f, it, origin, n, target)
  <2> HIDE DEF f
  <2> QED
    BY <1>7 DEF Scans
<1> QED
  BY <1>8

(* The linear search ends at the first key at or past target               *)
(* (block.cc:163-172).                                                     *)
LEMMA ScanIs ==
  ASSUME NEW es, NEW rs, NEW n \in Nat, NEW ks, NEW vs, EntriesOK(es, n, ks, vs),
         NEW it, NEW origin \in 0 .. n, NEW target, NEW t \in 0 .. n,
         FirstPast(n, ks, target, t), origin <= t,
         At(TB!ParseNextKey(it, origin, <<>>), es, rs, n, ks, origin),
         NEW f, Scans(f, it, origin, n, target)
  PROVE  At(f[n], es, rs, n, ks, t)
<1> DEFINE Place(d) == IF origin + d <= t THEN origin + d ELSE t
           P == {d \in Nat : origin + d <= n => At(f[origin + d], es, rs, n, ks, Place(d))}
<1>1. ASSUME NEW i \in origin .. n
      PROVE  /\ i = origin => f[i] = TB!ParseNextKey(it, origin, <<>>)
             /\ i # origin => f[i] = Onward(f[i - 1], target)
  BY DEF Scans, Onward
<1>2. 0 \in P
  <2>1. origin \in origin .. n /\ origin + 0 = origin /\ Place(0) = origin
    OBVIOUS
  <2>2. f[origin] = TB!ParseNextKey(it, origin, <<>>)
    BY <1>1, <2>1
  <2>3. At(f[origin + 0], es, rs, n, ks, Place(0))
    BY <2>1, <2>2
  <2> HIDE DEF Place
  <2> QED
    BY <2>3
<1>3. ASSUME NEW d \in Nat, d \in P PROVE d + 1 \in P
  <2> SUFFICES ASSUME origin + (d + 1) <= n
               PROVE  At(f[origin + (d + 1)], es, rs, n, ks, Place(d + 1))
    OBVIOUS
  <2>1. PICK h \in origin .. n : h = origin + d /\ h < n
    OBVIOUS
  <2>2. PICK i \in origin .. n : i = h + 1 /\ i = origin + (d + 1) /\ i - 1 = h /\ i # origin
    BY <2>1
  <2>3. PICK q \in 0 .. n : q = Place(d) /\ (h <= t => q = h) /\ (h > t => q = t)
    BY <2>1
  <2>4. At(f[h], es, rs, n, ks, q)
    <3> HIDE DEF Place
    <3> QED
      BY <1>3, <2>1, <2>3
  <2>5. f[i] = Onward(f[h], target)
    BY <1>1, <2>2
  <2>6. CASE h < t
    <3>1. q = h /\ q + 1 \in 1 .. t /\ q < n
      BY <2>3, <2>6
    <3>2. TB!Before(ks[q + 1], target)
      BY <3>1 DEF FirstPast
    <3>3. At(f[i], es, rs, n, ks, q + 1)
      BY <2>4, <2>5, <3>1, <3>2, OnwardIs
    <3>4. Place(d + 1) = q + 1
      BY <2>1, <2>6, <3>1
    <3> HIDE DEF Place
    <3> QED
      BY <2>2, <3>3, <3>4
  <2>7. CASE h >= t
    <3>1. q = t
      BY <2>3, <2>7
    <3>2. ~(q < n) \/ ~TB!Before(ks[q + 1], target)
      BY <3>1 DEF FirstPast
    <3>3. f[i] = f[h]
      <4> HIDE DEF Place, P
      <4>0. PICK p : p = f[h]
        OBVIOUS
      <4>3. At(p, es, rs, n, ks, q)
        BY <2>4, <4>0
      <4>1. Onward(p, target) = p
        BY <3>2, <4>3, OnwardEnds
      <4> QED
        BY <2>5, <4>0, <4>1
    <3>4. Place(d + 1) = q
      BY <2>1, <2>7, <3>1
    <3> HIDE DEF Place
    <3> QED
      BY <2>2, <2>4, <3>3, <3>4
  <2> QED
    BY <2>1, <2>6, <2>7
<1>4. \A d \in Nat : d \in P
  <2> HIDE DEF P
  <2> QED
    BY <1>2, <1>3, Induction
<1>5. PICK d \in Nat : d = n - origin /\ origin + d = n /\ Place(d) = t
  <2>1. n - origin \in Nat /\ origin + (n - origin) = n /\ Place(n - origin) = t
    OBVIOUS
  <2> HIDE DEF Place
  <2> QED
    BY <2>1
<1>6. At(f[origin + d], es, rs, n, ks, Place(d))
  <2>1. d \in P
    BY <1>4
  <2> HIDE DEF Place
  <2> QED
    BY <1>5, <2>1
<1> HIDE DEF Place
<1> QED
  BY <1>5, <1>6

(* A search ends at the first key that is not before its target.           *)
LEMMA IterSeekIs ==
  ASSUME NEW es, NEW rs, NEW n \in Nat, NEW ks, NEW vs, Encodes(es, rs, n, ks, vs),
         InOrder(n, ks), NEW target \in Words, NEW t \in 0 .. n, FirstPast(n, ks, target, t),
         NEW it, it \in Iters(es, rs, n)
  PROVE  At(TB!IterSeek(it, target), es, rs, n, ks, t)
<1> DEFINE r == TB!LastRestartBefore(Contents(es, rs), target)
<1>1. /\ it.block = Contents(es, rs) /\ it.block.entries = es /\ it.block.restarts = rs
      /\ EntriesOK(es, n, ks, vs) /\ Len(es) = n /\ Len(rs) \in Nat /\ Len(rs) >= 1
      /\ rs[1] = 0 /\ (n = 0 => Len(rs) = 1)
  BY IterIs DEF Encodes, EntriesOK, RestartsOK
<1>2. r \in 0 .. Len(rs) - 1 /\ (r = 0 \/ TB!Before(ks[rs[r + 1] + 1], target))
  <2> HIDE DEF r
  <2>1. EarlyRestart(rs, ks, target, r)
    BY LastRestartIs DEF r
  <2> QED
    BY <2>1 DEF EarlyRestart
<1> HIDE DEF r
<1>3. PICK h \in 1 .. Len(rs) : h = r + 1
  BY <1>1, <1>2
<1>4. PICK origin \in 0 .. n : origin = rs[h] /\ origin <= t /\ (origin < n => es[origin + 1].shared = 0)
  <2>1. CASE n = 0
    <3>1. h = 1 /\ rs[h] = 0
      <4>1. Len(rs) = 1
        BY <1>1, <2>1
      <4>2. h = 1
        BY <4>1
      <4> QED
        BY <1>1, <4>2
    <3> QED
      BY <2>1, <3>1
  <2>2. CASE n > 0
    <3>1. /\ rs[h] \in Nat /\ rs[h] < n /\ rs[h] + 1 \in 1 .. n
          /\ es[rs[h] + 1].shared = 0
      BY <2>2, RestartIs
    <3>2. PICK x \in Nat : x = rs[h]
      BY <3>1
    <3>3. x <= t
      <4>1. CASE r = 0
        <5>1. rs[1] = 0
          BY DEF Encodes, RestartsOK
        <5> QED
          BY <1>3, <3>2, <4>1, <5>1
      <4>2. CASE r # 0
        <5>1. PICK a \in 1 .. n : a = x + 1
          BY <3>1, <3>2
        <5>2. TB!Before(ks[a], target)
          BY <1>2, <1>3, <3>2, <4>2, <5>1
        <5>3. a <= t
          BY <5>2, FirstPastSplits
        <5> QED
          BY <5>1, <5>3
      <4> QED
        BY <4>1, <4>2
    <3> QED
      BY <3>1, <3>2, <3>3
  <2> QED
    BY <2>1, <2>2
<1>5. At(TB!ParseNextKey(it, origin, <<>>), es, rs, n, ks, origin)
  <2>1. <<>> \in Words
    BY EmptyWord
  <2> QED
    BY <1>1, <1>4, <2>1, ParseIs
<1> DEFINE f == CHOOSE g : Scans(g, it, origin, n, target)
<1>6. Scans(f, it, origin, n, target)
  <2>1. \E g : Scans(g, it, origin, n, target)
    BY <1>1, <1>5, ScanExists
  <2> QED
    BY <2>1
<1>7. TB!LinearSearch(it, origin, target) = f[n]
  BY <1>1 DEF TB!LinearSearch, Scans
<1> HIDE DEF f
<1>8. At(f[n], es, rs, n, ks, t)
  BY <1>1, <1>4, <1>5, <1>6, ScanIs
<1>9. TB!IterSeek(it, target) = TB!LinearSearch(it, origin, target)
  <2>1. rs # <<>> /\ r # -1
    BY <1>1, <1>2, EmptyWord
  <2> QED
    BY <1>1, <1>3, <1>4, <2>1 DEF TB!IterSeek, r
<1> QED
  BY <1>7, <1>8, <1>9

(* Stepping through a block, as KeysOf does.                               *)
Walks(f, es, rs, n) ==
  f = [i \in 1 .. n |-> IF i = 1 THEN TB!IterSeekToFirst(TB!NewIter(Contents(es, rs)))
                        ELSE TB!IterNext(f[i - 1])]

(* There are such iterators. *)
LEMMA WalkExists ==
  ASSUME NEW es, NEW rs, NEW n \in Nat, NEW ks, NEW vs, Encodes(es, rs, n, ks, vs)
  PROVE  \E f : Walks(f, es, rs, n)
<1> DEFINE V == Places(es, rs, n, ks)
           start == TB!NewIter(Contents(es, rs))
           first == TB!IterSeekToFirst(start)
           turn == [p \in V |-> TB!IterNext(p)]
           step == [i \in 1 .. n |-> turn]
<1>0. EntriesOK(es, n, ks, vs) /\ Len(es) = n
  BY DEF Encodes, EntriesOK
<1>1. first \in V
  <2>1. start \in Iters(es, rs, n)
    BY <1>0, NewIterIs DEF At
  <2>2. At(first, es, rs, n, ks, 0)
    <3> HIDE DEF start
    <3> QED
      BY <2>1, SeekToFirstIs
  <2>3. 0 \in 0 .. n
    OBVIOUS
  <2> HIDE DEF first
  <2> QED
    BY <2>2, <2>3 DEF Places, At
<1>2. turn \in [V -> V]
  <2>1. ASSUME NEW p \in V PROVE TB!IterNext(p) \in V
    <3>1. PICK q \in 0 .. n : At(p, es, rs, n, ks, q)
      BY DEF Places
    <3>2. PICK h \in 0 .. n : At(TB!IterNext(p), es, rs, n, ks, h)
      <4>1. CASE q < n
        <5>1. PICK j \in 0 .. n : j = q + 1
          BY <4>1
        <5>2. At(TB!IterNext(p), es, rs, n, ks, j)
          BY <1>0, <3>1, <4>1, <5>1, IterNextIs
        <5> QED
          BY <5>2
      <4>2. CASE q = n
        <5>1. At(TB!IterNext(p), es, rs, n, ks, n)
          BY <1>0, <3>1, <4>2, IterNextIs
        <5> QED
          BY <4>2, <5>1
      <4> QED
        BY <4>1, <4>2
    <3> QED
      BY <3>2 DEF Places, At
  <2> HIDE DEF V
  <2> QED
    BY <2>1
<1>3. step \in [1 .. n -> [V -> V]] /\ \A i \in 1 .. n : step[i] = turn
  <2> HIDE DEF turn, V
  <2> QED
    BY <1>2
<1>4. PICK g \in [0 .. n -> V] : Iterates(g, n, first, step)
  <2> HIDE DEF V, first, step
  <2> QED
    BY <1>1, <1>3, Iteration
<1> DEFINE f == [i \in 1 .. n |-> g[i - 1]]
<1>5. ASSUME NEW i \in 1 .. n
      PROVE  f[i] = IF i = 1 THEN first ELSE TB!IterNext(f[i - 1])
  <2>1. CASE i = 1
    <3>1. f[i] = g[0]
      BY <2>1
    <3>2. g[0] = first
      BY <1>4 DEF Iterates
    <3> QED
      BY <2>1, <3>1, <3>2
  <2>2. CASE i # 1
    <3>1. PICK h \in 1 .. n : h = i - 1
      BY <2>2
    <3>2. PICK e \in 0 .. n : e = h - 1
      OBVIOUS
    <3>3. f[i] = g[h] /\ f[h] = g[e]
      BY <3>1, <3>2
    <3>4. g[h] = step[h][g[h - 1]]
      <4> HIDE DEF step
      <4> QED
        BY <1>4 DEF Iterates
    <3>5. g[e] \in V /\ g[h - 1] = g[e]
      BY <3>2
    <3>6. g[h] = TB!IterNext(g[e])
      <4> HIDE DEF V
      <4>1. step[h] = turn
        BY <1>3
      <4>2. turn[g[e]] = TB!IterNext(g[e])
        BY <3>5
      <4> HIDE DEF turn, step
      <4> QED
        BY <3>4, <3>5, <4>1, <4>2
    <3> QED
      BY <2>2, <3>1, <3>3, <3>6
  <2> QED
    BY <2>1, <2>2
<1>6. f = [i \in 1 .. n |-> IF i = 1 THEN first ELSE TB!IterNext(f[i - 1])]
  <2> HIDE DEF first
  <2>1. f = [i \in 1 .. n |-> f[i]]
    OBVIOUS
  <2> HIDE DEF f
  <2> QED
    BY <1>5, <2>1
<1>7. Walks(f, es, rs, n)
  <2> HIDE DEF f
  <2> QED
    BY <1>6 DEF Walks
<1> QED
  BY <1>7

(* They show the keys of the block. *)
LEMMA WalkIs ==
  ASSUME NEW es, NEW rs, NEW n \in Nat, NEW ks, NEW vs, Encodes(es, rs, n, ks, vs),
         NEW f, Walks(f, es, rs, n)
  PROVE  \A i \in 1 .. n : f[i].key = ks[i]
<1> DEFINE P == {d \in Nat : d < n => At(f[d + 1], es, rs, n, ks, d)}
<1>0. EntriesOK(es, n, ks, vs) /\ Len(es) = n
  BY DEF Encodes, EntriesOK
<1>1. ASSUME NEW i \in 1 .. n
      PROVE  /\ i = 1 => f[i] = TB!IterSeekToFirst(TB!NewIter(Contents(es, rs)))
             /\ i # 1 => f[i] = TB!IterNext(f[i - 1])
  BY DEF Walks
<1>2. 0 \in P
  <2> SUFFICES ASSUME 0 < n PROVE At(f[0 + 1], es, rs, n, ks, 0)
    OBVIOUS
  <2>1. PICK start : start = TB!NewIter(Contents(es, rs))
    OBVIOUS
  <2>2. start \in Iters(es, rs, n)
    BY <1>0, <2>1, NewIterIs DEF At
  <2>3. At(TB!IterSeekToFirst(start), es, rs, n, ks, 0)
    BY <2>2, SeekToFirstIs
  <2>4. PICK i \in 1 .. n : i = 0 + 1 /\ i = 1
    OBVIOUS
  <2>5. f[i] = TB!IterSeekToFirst(start)
    BY <1>1, <2>1, <2>4
  <2> QED
    BY <2>3, <2>4, <2>5
<1>3. ASSUME NEW d \in Nat, d \in P PROVE d + 1 \in P
  <2> SUFFICES ASSUME d + 1 < n PROVE At(f[(d + 1) + 1], es, rs, n, ks, d + 1)
    OBVIOUS
  <2>1. PICK i \in 1 .. n : i = (d + 1) + 1 /\ i # 1 /\ i - 1 = d + 1
    OBVIOUS
  <2>2. PICK p : p = f[d + 1]
    OBVIOUS
  <2>3. At(p, es, rs, n, ks, d) /\ d < n /\ d \in 0 .. n
    BY <1>3, <2>2
  <2>4. f[i] = TB!IterNext(p)
    BY <1>1, <2>1, <2>2
  <2>5. At(TB!IterNext(p), es, rs, n, ks, d + 1)
    BY <1>0, <2>3, IterNextIs
  <2> QED
    BY <2>1, <2>4, <2>5
<1>4. \A d \in Nat : d \in P
  <2> HIDE DEF P
  <2> QED
    BY <1>2, <1>3, Induction
<1>5. ASSUME NEW i \in 1 .. n PROVE f[i].key = ks[i]
  <2>1. PICK d \in Nat : d = i - 1 /\ d + 1 = i /\ d < n
    OBVIOUS
  <2>2. At(f[i], es, rs, n, ks, d)
    BY <1>4, <2>1
  <2> QED
    BY <2>1, <2>2 DEF At
<1> QED
  BY <1>5

(* The keys that are read from a block are those that were added to it. *)
LEMMA KeysOfIs ==
  ASSUME NEW es, NEW rs, NEW n \in Nat, NEW ks, NEW vs, Encodes(es, rs, n, ks, vs)
  PROVE  /\ TB!KeysOf(Contents(es, rs)) = [i \in 1 .. n |-> ks[i]]
         /\ Len(TB!KeysOf(Contents(es, rs))) = n
<1> DEFINE f == CHOOSE g : Walks(g, es, rs, n)
<1>1. Walks(f, es, rs, n)
  <2>1. \E g : Walks(g, es, rs, n)
    BY WalkExists
  <2> QED
    BY <2>1
<1>2. Contents(es, rs).entries = es /\ Len(es) = n
  BY DEF Contents, Encodes, EntriesOK
<1>3. TB!KeysOf(Contents(es, rs)) = [i \in 1 .. n |-> f[i].key]
  BY <1>2 DEF TB!KeysOf, Walks
<1> HIDE DEF f
<1>4. \A i \in 1 .. n : f[i].key = ks[i]
  BY <1>1, WalkIs
<1>5. [i \in 1 .. n |-> f[i].key] = [i \in 1 .. n |-> ks[i]]
  BY <1>4
<1>6. Len([i \in 1 .. n |-> ks[i]]) = n
  OBVIOUS
<1> QED
  BY <1>3, <1>5, <1>6

(* What is added to a table. *)
EntryRecords == [key : Words, size : Nat]

(* The entries added, in order.                                            *)
AddedOK(ad) ==
  /\ ad \in Seq(EntryRecords)
  /\ \A i, j \in 1 .. Len(ad) : i < j => TB!Before(ad[i].key, ad[j].key)

(* The keys behind the first a entries, *)
KeysFrom(ad, a) == [i \in Nat |-> ad[a + i].key]

(* and the sizes. *)
SizesFrom(ad, a) == [i \in Nat |-> ad[a + i].size]

(* A unit is the block of the entries behind the first a, up to b.         *)
BlockHolds(u, ad, a, b) ==
  \E es, rs : /\ u = TB!Body(Contents(es, rs))
              /\ Encodes(es, rs, b - a, KeysFrom(ad, a), SizesFrom(ad, a))

(* The k blocks written: block i, at hs[i], ends at entry c[i].            *)
Blocks(fl, ad, k, c, hs) ==
  /\ k \in Nat /\ c[0] = 0
  /\ \A i \in 0 .. k : c[i] \in Nat /\ c[i] <= Len(ad)
  /\ \A i, j \in 0 .. k : i < j => c[i] < c[j]
  /\ \A i \in 1 .. k : /\ hs[i] \in Nat /\ hs[i] + 1 <= Len(fl)
                       /\ BlockHolds(fl[hs[i] + 1], ad, c[i - 1], c[i])
  /\ \A i, j \in 1 .. k : i < j => hs[i] < hs[j]

(* The index keys keep the blocks apart.                                   *)
Separates(ad, m, c, ss) ==
  \A i \in 1 .. m :
    /\ ss[i] \in Words
    /\ ~TB!Before(ss[i], ad[c[i]].key)
    /\ c[i] < Len(ad) => TB!Before(ss[i], ad[c[i] + 1].key)

(* b goes on where a ends.                                                 *)
Extends(a, b) ==
  /\ Len(a) \in Nat /\ Len(b) \in Nat /\ Len(a) <= Len(b)
  /\ \A i \in 1 .. Len(a) : b[i] = a[i]

(* Appending goes on where a sequence ends. *)
LEMMA AppendExtends ==
  ASSUME NEW S, NEW a \in Seq(S), NEW x \in S
  PROVE  /\ Extends(a, Append(a, x)) /\ Append(a, x) \in Seq(S)
         /\ Len(Append(a, x)) = Len(a) + 1 /\ Append(a, x)[Len(a) + 1] = x
<1>1. Append(a, x) \in Seq(S) /\ Len(Append(a, x)) = Len(a) + 1 /\ Len(a) \in Nat
  OBVIOUS
<1>2. \A i \in 1 .. Len(a) : Append(a, x)[i] = a[i]
  OBVIOUS
<1>3. Append(a, x)[Len(a) + 1] = x
  OBVIOUS
<1> QED
  BY <1>1, <1>2, <1>3 DEF Extends

(* So does what goes on with what goes on. *)
LEMMA ExtendsTransitive ==
  ASSUME NEW a, NEW b, NEW c, Extends(a, b), Extends(b, c)
  PROVE  Extends(a, c)
BY DEF Extends

(* What was added are entries. *)
LEMMA AddedIs ==
  ASSUME NEW ad, AddedOK(ad)
  PROVE  /\ Len(ad) \in Nat
         /\ \A i \in 1 .. Len(ad) : ad[i] \in EntryRecords /\ ad[i].key \in Words /\ ad[i].size \in Nat
<1>1. Len(ad) \in Nat /\ \A i \in 1 .. Len(ad) : ad[i] \in EntryRecords
  BY ElementOfSeq DEF AddedOK
<1> QED
  BY <1>1 DEF EntryRecords

(* The i-th of them. *)
LEMMA KeysFromIs ==
  ASSUME NEW ad, NEW a \in Nat, NEW i \in Nat
  PROVE  KeysFrom(ad, a)[i] = ad[a + i].key /\ SizesFrom(ad, a)[i] = ad[a + i].size
BY DEF KeysFrom, SizesFrom

(* What the entries behind the first a are, as a block has them.           *)
LEMMA KeysFromInOrder ==
  ASSUME NEW ad, AddedOK(ad), NEW a \in Nat, NEW b \in Nat, a <= b, b <= Len(ad)
  PROVE  InOrder(b - a, KeysFrom(ad, a))
<1>1. Len(ad) \in Nat /\ b - a \in Nat
  BY AddedIs
<1>2. ASSUME NEW i \in 1 .. b - a
      PROVE  a + i \in 1 .. Len(ad) /\ KeysFrom(ad, a)[i] = ad[a + i].key
  BY <1>1 DEF KeysFrom
<1>3. ASSUME NEW i \in 1 .. b - a PROVE KeysFrom(ad, a)[i] \in Words
  <2>1. PICK j \in 1 .. Len(ad) : j = a + i
    BY <1>2
  <2> QED
    BY <1>2, <2>1, AddedIs
<1>4. ASSUME NEW i \in 1 .. b - a, NEW j \in 1 .. b - a, i < j
      PROVE  TB!Before(KeysFrom(ad, a)[i], KeysFrom(ad, a)[j])
  <2>1. PICK g \in 1 .. Len(ad) : g = a + i
    BY <1>2
  <2>2. PICK h \in 1 .. Len(ad) : h = a + j
    BY <1>2
  <2>3. TB!Before(ad[g].key, ad[h].key)
    BY <1>4, <2>1, <2>2 DEF AddedOK
  <2> QED
    BY <1>2, <2>1, <2>2, <2>3
<1> QED
  BY <1>3, <1>4 DEF InOrder

(* They stay the same when more is added. *)
LEMMA ExtendedHoldsTheSame ==
  ASSUME NEW ad, NEW be, Extends(ad, be), NEW a \in Nat, NEW n \in Nat, a + n <= Len(ad)
  PROVE  \A i \in 1 .. n : /\ KeysFrom(ad, a)[i] = KeysFrom(be, a)[i]
                           /\ SizesFrom(ad, a)[i] = SizesFrom(be, a)[i]
<1> SUFFICES ASSUME NEW i \in 1 .. n
             PROVE  /\ KeysFrom(ad, a)[i] = KeysFrom(be, a)[i]
                    /\ SizesFrom(ad, a)[i] = SizesFrom(be, a)[i]
  OBVIOUS
<1>1. PICK j \in 1 .. Len(ad) : j = a + i
  BY DEF Extends
<1>2. be[j] = ad[j]
  BY DEF Extends
<1>3. KeysFrom(ad, a)[i] = ad[j].key /\ SizesFrom(ad, a)[i] = ad[j].size
  BY <1>1 DEF KeysFrom, SizesFrom
<1>4. KeysFrom(be, a)[i] = be[j].key /\ SizesFrom(be, a)[i] = be[j].size
  BY <1>1 DEF KeysFrom, SizesFrom
<1> QED
  BY <1>2, <1>3, <1>4

(* A block holds the same entries when more is added, *)
LEMMA BlockStays ==
  ASSUME NEW ad, NEW be, Extends(ad, be), NEW a \in Nat, NEW b \in Nat, a <= b, b <= Len(ad),
         NEW u, BlockHolds(u, ad, a, b)
  PROVE  BlockHolds(u, be, a, b)
<1>1. PICK es, rs : /\ u = TB!Body(Contents(es, rs))
                    /\ Encodes(es, rs, b - a, KeysFrom(ad, a), SizesFrom(ad, a))
  BY DEF BlockHolds
<1>2. PICK n \in Nat : n = b - a /\ a + n <= Len(ad)
  BY DEF Extends
<1>3. \A i \in 1 .. n : /\ KeysFrom(ad, a)[i] = KeysFrom(be, a)[i]
                        /\ SizesFrom(ad, a)[i] = SizesFrom(be, a)[i]
  BY <1>2, ExtendedHoldsTheSame
<1>4. Encodes(es, rs, n, KeysFrom(be, a), SizesFrom(be, a))
  BY <1>1, <1>2, <1>3, HoldsTheSame
<1> QED
  BY <1>1, <1>2, <1>4 DEF BlockHolds

(* and so do all blocks when the file grows. *)
LEMMA BlocksStay ==
  ASSUME NEW fl, NEW gl, Extends(fl, gl), NEW ad, NEW be, Extends(ad, be),
         NEW k, NEW c, NEW hs, Blocks(fl, ad, k, c, hs)
  PROVE  Blocks(gl, be, k, c, hs)
<1>1. /\ k \in Nat /\ c[0] = 0 /\ Len(ad) \in Nat /\ Len(be) \in Nat /\ Len(ad) <= Len(be)
      /\ Len(fl) \in Nat /\ Len(gl) \in Nat /\ Len(fl) <= Len(gl)
  BY DEF Blocks, Extends
<1>2. ASSUME NEW i \in 0 .. k PROVE c[i] \in Nat /\ c[i] <= Len(ad) /\ c[i] <= Len(be)
  <2>1. c[i] \in Nat /\ c[i] <= Len(ad)
    BY DEF Blocks
  <2> QED
    BY <1>1, <2>1
<1>3. ASSUME NEW i \in 1 .. k
      PROVE  /\ hs[i] \in Nat /\ hs[i] + 1 <= Len(gl)
             /\ BlockHolds(gl[hs[i] + 1], be, c[i - 1], c[i])
  <2>1. /\ hs[i] \in Nat /\ hs[i] + 1 <= Len(fl)
        /\ BlockHolds(fl[hs[i] + 1], ad, c[i - 1], c[i])
    BY DEF Blocks
  <2>2. PICK a \in 0 .. k : a = i - 1 /\ a < i
    BY <1>1
  <2>3. i \in 0 .. k
    BY <1>1
  <2>4. PICK x \in Nat : x = c[a] /\ x <= Len(ad)
    BY <1>2
  <2>5. PICK y \in Nat : y = c[i] /\ y <= Len(ad)
    BY <1>2, <2>3
  <2>6. x <= y
    BY <2>2, <2>3, <2>4, <2>5 DEF Blocks
  <2>7. PICK h \in 1 .. Len(fl) : h = hs[i] + 1
    BY <1>1, <2>1
  <2>8. gl[h] = fl[h]
    BY DEF Extends
  <2>9. BlockHolds(fl[h], ad, x, y)
    BY <2>1, <2>2, <2>4, <2>5, <2>7
  <2>10. BlockHolds(fl[h], be, x, y)
    BY <2>4, <2>5, <2>6, <2>9, BlockStays
  <2>11. BlockHolds(gl[hs[i] + 1], be, c[i - 1], c[i])
    BY <2>2, <2>4, <2>5, <2>7, <2>8, <2>10
  <2> QED
    BY <1>1, <2>1, <2>11
<1>4. \A i, j \in 0 .. k : i < j => c[i] < c[j]
  BY DEF Blocks
<1>5. \A i, j \in 1 .. k : i < j => hs[i] < hs[j]
  BY DEF Blocks
<1> QED
  BY <1>1, <1>2, <1>3, <1>4, <1>5 DEF Blocks

(* The block an entry is in.                                               *)
LEMMA InBlock ==
  ASSUME NEW fl, NEW ad, NEW k, NEW c, NEW hs, Blocks(fl, ad, k, c, hs),
         NEW i \in Nat, i >= 1, i <= c[k]
  PROVE  \E j \in 1 .. k : c[j - 1] < i /\ i <= c[j]
<1> DEFINE S == {j \in Nat : j \in 0 .. k /\ i <= c[j]}
<1>1. k \in Nat /\ c[0] = 0 /\ \A j \in 0 .. k : c[j] \in Nat
  BY DEF Blocks
<1>2. S \subseteq Nat /\ k \in S
  BY <1>1
<1>3. PICK j \in S : \A h \in S : j <= h
  <2> HIDE DEF S
  <2> QED
    BY <1>2, LeastNumber
<1>4. j \in 1 .. k
  <2>1. j # 0
    BY <1>1, <1>3
  <2> QED
    BY <1>1, <2>1
<1>5. PICK h \in 0 .. k : h = j - 1 /\ h < j
  BY <1>1, <1>4
<1>6. h \notin S
  <2>1. ~(j <= h) /\ h \in Nat
    BY <1>4, <1>5
  <2> HIDE DEF S
  <2> QED
    BY <1>3, <2>1
<1>7. c[h] < i
  BY <1>1, <1>5, <1>6
<1> QED
  BY <1>3, <1>4, <1>5, <1>7

(* The entries are in the order of their keys. *)
LEMMA KeyOrder ==
  ASSUME NEW ad, AddedOK(ad), NEW i \in 1 .. Len(ad), NEW j \in 1 .. Len(ad)
  PROVE  /\ i < j => TB!Before(ad[i].key, ad[j].key)
         /\ i <= j => ~TB!Before(ad[j].key, ad[i].key)
         /\ ad[i].key = ad[j].key => i = j
<1>1. /\ Len(ad) \in Nat /\ ad[i].key \in Words /\ ad[j].key \in Words
  BY AddedIs
<1>2. i < j => TB!Before(ad[i].key, ad[j].key)
  BY DEF AddedOK
<1>3. j < i => TB!Before(ad[j].key, ad[i].key)
  BY DEF AddedOK
<1>4. ~TB!Before(ad[i].key, ad[i].key) /\ ~TB!Before(ad[j].key, ad[j].key)
  BY <1>1, BeforeIrreflexive
<1>5. i <= j => ~TB!Before(ad[j].key, ad[i].key)
  <2>1. CASE i = j
    BY <1>4, <2>1
  <2>2. CASE i < j
    BY <1>1, <1>2, <2>2, BeforeCombines
  <2>3. CASE j < i
    BY <2>3
  <2> QED
    BY <1>1, <2>1, <2>2, <2>3
<1>6. ad[i].key = ad[j].key => i = j
  BY <1>1, <1>2, <1>3, <1>4
<1> QED
  BY <1>2, <1>5, <1>6

(* Block i and the entries it begins and ends with. *)
LEMMA CutIs ==
  ASSUME NEW fl, NEW ad, AddedOK(ad), NEW k, NEW c, NEW hs, Blocks(fl, ad, k, c, hs),
         NEW i \in 1 .. k
  PROVE  /\ k \in Nat /\ c[i] \in Nat /\ c[i] \in 1 .. Len(ad)
         /\ c[i - 1] \in Nat /\ c[i - 1] < c[i] /\ c[i - 1] + 1 \in 1 .. Len(ad)
         /\ hs[i] \in Nat /\ hs[i] + 1 <= Len(fl)
         /\ BlockHolds(fl[hs[i] + 1], ad, c[i - 1], c[i])
<1>1. k \in Nat /\ Len(ad) \in Nat
  BY AddedIs DEF Blocks
<1>2. PICK h \in 0 .. k : h = i - 1 /\ h < i
  BY <1>1
<1>3. i \in 0 .. k
  BY <1>1
<1>4. c[h] \in Nat /\ c[i] \in Nat /\ c[i] <= Len(ad) /\ c[h] < c[i]
  BY <1>2, <1>3 DEF Blocks
<1>5. /\ hs[i] \in Nat /\ hs[i] + 1 <= Len(fl)
      /\ BlockHolds(fl[hs[i] + 1], ad, c[i - 1], c[i])
  BY DEF Blocks
<1>6. c[i] \in 1 .. Len(ad) /\ c[h] + 1 \in 1 .. Len(ad)
  BY <1>1, <1>4
<1> QED
  BY <1>1, <1>2, <1>4, <1>5, <1>6

(* The i-th index key parts the entries up to c[i] from those behind. *)
LEMMA SeparatorSplits ==
  ASSUME NEW fl, NEW ad, AddedOK(ad), NEW k, NEW c, NEW hs, Blocks(fl, ad, k, c, hs),
         NEW m \in 0 .. k, NEW ss, Separates(ad, m, c, ss),
         NEW i \in 1 .. m, NEW j \in 1 .. Len(ad)
  PROVE  /\ ss[i] \in Words
         /\ TB!Before(ss[i], ad[j].key) <=> c[i] < j
<1>1. k \in Nat /\ Len(ad) \in Nat
  BY AddedIs DEF Blocks
<1>2. PICK e \in 1 .. Len(ad) : e = c[i]
  <2>1. i \in 1 .. k
    BY <1>1
  <2> QED
    BY <2>1, CutIs
<1>3. ss[i] \in Words /\ ~TB!Before(ss[i], ad[e].key) /\ ad[e].key \in Words /\ ad[j].key \in Words
  BY <1>2, AddedIs DEF Separates
<1>4. CASE j <= e
  <2>1. ~TB!Before(ad[e].key, ad[j].key)
    BY <1>4, KeyOrder
  <2>2. ~TB!Before(ss[i], ad[j].key)
    BY <1>3, <2>1, BeforeCombines
  <2> QED
    BY <1>2, <1>3, <1>4, <2>2
<1>5. CASE e < j
  <2>1. PICK f \in 1 .. Len(ad) : f = e + 1 /\ f <= j
    BY <1>1, <1>5
  <2>2. TB!Before(ss[i], ad[f].key) /\ ad[f].key \in Words
    BY <1>1, <1>2, <1>5, <2>1, AddedIs DEF Separates
  <2>3. ~TB!Before(ad[j].key, ad[f].key)
    BY <2>1, KeyOrder
  <2>4. TB!Before(ss[i], ad[j].key)
    BY <1>3, <2>2, <2>3, BeforeCombines
  <2> QED
    BY <1>2, <1>3, <1>5, <2>4
<1> QED
  BY <1>1, <1>4, <1>5

(* The index keys are in order, as BlockBuilder::Add asserts of them. *)
LEMMA SeparatorsInOrder ==
  ASSUME NEW fl, NEW ad, AddedOK(ad), NEW k, NEW c, NEW hs, Blocks(fl, ad, k, c, hs),
         NEW m \in 0 .. k, NEW ss, Separates(ad, m, c, ss)
  PROVE  InOrder(m, ss)
<1>1. \A i \in 1 .. m : ss[i] \in Words
  BY DEF Separates
<1>2. ASSUME NEW i \in 1 .. m, NEW j \in 1 .. m, i < j PROVE TB!Before(ss[i], ss[j])
  <2>1. k \in Nat /\ i \in 1 .. k /\ j \in 1 .. k /\ i \in 0 .. k /\ j \in 0 .. k
    BY DEF Blocks
  <2>2. c[i] < c[j]
    BY <1>2, <2>1 DEF Blocks
  <2>3. PICK e \in 1 .. Len(ad) : e = c[j]
    BY <2>1, CutIs
  <2>4. TB!Before(ss[i], ad[e].key)
    BY <2>2, <2>3, SeparatorSplits
  <2>5. ~TB!Before(ss[j], ad[e].key) /\ ad[e].key \in Words
    BY <2>3, AddedIs DEF Separates
  <2> QED
    BY <1>1, <2>4, <2>5, BeforeCombines
<1> QED
  BY <1>1, <1>2 DEF InOrder

(* The builder, field by field.                                            *)
Rec(f, o, s, d, x, l, p) ==
  [file |-> f, offset |-> o, status |-> s, data |-> d, index |-> x, lastKey |-> l, pending |-> p]

(* One unit appended to a file. *)
Then(f, u) == Append(f, u)

(* Behind a block and its trailer. *)
Past(o) == o + 2

(* One Append to the file, and one that fails (table_builder.cc:191-200).  *)
LEMMA FileAppendIs ==
  ASSUME NEW f, NEW o, NEW s, NEW d, NEW x, NEW l, NEW p, NEW u, NEW ok \in BOOLEAN
  PROVE  /\ ok => TB!FileAppend(Rec(f, o, s, d, x, l, p), u, ok) = Rec(Then(f, u), o, s, d, x, l, p)
         /\ ~ok => TB!FileAppend(Rec(f, o, s, d, x, l, p), u, ok) = Rec(f, o, "IO_ERROR", d, x, l, p)
BY DEF TB!FileAppend, Rec, Then

(* The fields of the builder. *)
LEMMA RecIs ==
  ASSUME NEW f, NEW o, NEW s, NEW d, NEW x, NEW l, NEW p
  PROVE  LET r == Rec(f, o, s, d, x, l, p)
         IN /\ r.file = f /\ r.offset = o /\ r.status = s /\ r.data = d /\ r.index = x
            /\ r.lastKey = l /\ r.pending = p
BY DEF Rec

(* What a failed Append leaves in status. *)
Error == "IO_ERROR"

(* It is not OK. *)
LEMMA ErrorIs == Error # "OK"
BY DEF Error

(* A block with its trailer appended to a file. *)
Written(f, u) == Then(Then(f, u), TB!Trailer)

(* WriteRawBlock with any outcome of its Appends                           *)
(* (table_builder.cc:186-203).                                             *)
LEMMA WriteRawBlockIs ==
  ASSUME NEW f, NEW o, NEW d, NEW x, NEW l, NEW p, NEW cts, NEW b \in BOOLEAN, NEW t \in BOOLEAN
  PROVE  LET w == TB!WriteRawBlock(Rec(f, o, "OK", d, x, l, p), cts, b, t)
         IN \/ w = Rec(f, o, Error, d, x, l, p)
            \/ w = Rec(Then(f, TB!Body(cts)), o, Error, d, x, l, p)
            \/ w = Rec(Written(f, TB!Body(cts)), Past(o), "OK", d, x, l, p)
<1> DEFINE r == Rec(f, o, "OK", d, x, l, p)
           w == TB!WriteRawBlock(r, cts, b, t)
           a == TB!FileAppend(r, TB!Body(cts), b)
           e == TB!FileAppend(a, TB!Trailer, t)
<1>1. w = IF a.status # "OK" THEN a ELSE IF e.status # "OK" THEN e ELSE [e EXCEPT !.offset = @ + 2]
  BY DEF TB!WriteRawBlock
<1>4. /\ b => a = Rec(Then(f, TB!Body(cts)), o, "OK", d, x, l, p)
      /\ ~b => a = Rec(f, o, "IO_ERROR", d, x, l, p)
  BY FileAppendIs
<1>5. ASSUME NEW g, a = Rec(g, o, "OK", d, x, l, p)
      PROVE  /\ t => e = Rec(Then(g, TB!Trailer), o, "OK", d, x, l, p)
             /\ ~t => e = Rec(g, o, "IO_ERROR", d, x, l, p)
  <2> HIDE DEF a
  <2>1. e = TB!FileAppend(Rec(g, o, "OK", d, x, l, p), TB!Trailer, t)
    BY <1>5
  <2> HIDE DEF e
  <2> QED
    BY <2>1, FileAppendIs
<1>2. CASE ~b
  <2>1. a = Rec(f, o, Error, d, x, l, p)
    <3> HIDE DEF a
    <3> QED
      BY <1>2, <1>4 DEF Error
  <2>2. a.status # "OK"
    BY <2>1, RecIs, ErrorIs
  <2> HIDE DEF a, e, w
  <2>3. w = Rec(f, o, Error, d, x, l, p)
    BY <1>1, <2>1, <2>2
  <2> QED
    BY <1>2, <2>3 DEF w
<1>3. CASE b
  <2>1. a = Rec(Then(f, TB!Body(cts)), o, "OK", d, x, l, p)
    <3> HIDE DEF a
    <3> QED
      BY <1>3, <1>4
  <2>2. a.status = "OK"
    BY <2>1, RecIs
  <2>3. CASE ~t
    <3>1. e = Rec(Then(f, TB!Body(cts)), o, Error, d, x, l, p)
      <4> HIDE DEF a, e
      <4> QED
        BY <2>1, <2>3, <1>5 DEF Error
    <3>2. e.status # "OK"
      BY <3>1, RecIs, ErrorIs
    <3> HIDE DEF a, e, w
    <3>3. w = Rec(Then(f, TB!Body(cts)), o, Error, d, x, l, p)
      BY <1>1, <2>2, <3>1, <3>2
    <3> QED
      BY <1>3, <2>3, <3>3 DEF w
  <2>4. CASE t
    <3>1. e = Rec(Written(f, TB!Body(cts)), o, "OK", d, x, l, p)
      <4> HIDE DEF a, e
      <4> QED
        BY <2>1, <2>4, <1>5 DEF Written
    <3>2. e.status = "OK"
      BY <3>1, RecIs
    <3> HIDE DEF a, e, w
    <3>3. w = [e EXCEPT !.offset = @ + 2]
      BY <1>1, <2>2, <3>2
    <3>4. [e EXCEPT !.offset = @ + 2] = Rec(Written(f, TB!Body(cts)), Past(o), "OK", d, x, l, p)
      BY <3>1 DEF Rec, Past
    <3>5. w = Rec(Written(f, TB!Body(cts)), Past(o), "OK", d, x, l, p)
      BY <3>3, <3>4
    <3> QED
      BY <1>3, <2>4, <3>5 DEF w
  <2> QED
    BY <2>3, <2>4
<1> QED
  BY <1>2, <1>3

(* The unit that a BlockBuilder becomes. *)
Fl(d) == TB!Body(TB!Finished(d))

(* Flush with any outcome of its Appends (table_builder.cc:137-184). *)
LEMMA DoFlushIs ==
  ASSUME NEW f, NEW o, NEW s, NEW d, NEW x, NEW l, NEW p, NEW b \in BOOLEAN, NEW t \in BOOLEAN
  PROVE  LET r == Rec(f, o, s, d, x, l, p)
             w == TB!DoFlush(r, b, t)
         IN /\ s # "OK" \/ d.entries = <<>> => w = r
            /\ s = "OK" /\ d.entries # <<>> =>
                 \/ w = Rec(f, o, Error, TB!EmptyBuilder, x, l, p)
                 \/ w = Rec(Then(f, Fl(d)), o, Error, TB!EmptyBuilder, x, l, p)
                 \/ w = Rec(Written(f, Fl(d)), Past(o), "OK", TB!EmptyBuilder, x, l, o)
<1> DEFINE r == Rec(f, o, s, d, x, l, p)
           w == TB!DoFlush(r, b, t)
           a == TB!WriteRawBlock(r, TB!Finished(d), b, t)
           e == [a EXCEPT !.data = TB!EmptyBuilder]
<1>1. r.status = s /\ r.data = d /\ r.offset = o
  BY RecIs
<1>4. ASSUME s = "OK"
      PROVE  \/ a = Rec(f, o, Error, d, x, l, p)
             \/ a = Rec(Then(f, Fl(d)), o, Error, d, x, l, p)
             \/ a = Rec(Written(f, Fl(d)), Past(o), "OK", d, x, l, p)
  <2>1. PICK cts : cts = TB!Finished(d)
    OBVIOUS
  <2>2. a = TB!WriteRawBlock(Rec(f, o, "OK", d, x, l, p), cts, b, t) /\ Fl(d) = TB!Body(cts)
    BY <1>4, <2>1 DEF Fl
  <2>3. LET raw == TB!WriteRawBlock(Rec(f, o, "OK", d, x, l, p), cts, b, t)
        IN \/ raw = Rec(f, o, Error, d, x, l, p)
           \/ raw = Rec(Then(f, TB!Body(cts)), o, Error, d, x, l, p)
           \/ raw = Rec(Written(f, TB!Body(cts)), Past(o), "OK", d, x, l, p)
    BY WriteRawBlockIs
  <2> HIDE DEF a
  <2> QED
    BY <2>2, <2>3
<1>2. CASE s # "OK" \/ d.entries = <<>>
  <2>1. w = r
    BY <1>1, <1>2 DEF TB!DoFlush
  <2> HIDE DEF w, r
  <2>2. QED
    BY <1>2, <2>1 DEF w, r
<1>3. CASE s = "OK" /\ d.entries # <<>>
  <2>1. w = IF e.status = "OK" THEN [e EXCEPT !.pending = o] ELSE e
    <3> HIDE DEF r
    <3> QED
      BY <1>1, <1>3 DEF TB!DoFlush
  <2> HIDE DEF a
  <2>3. CASE a = Rec(f, o, Error, d, x, l, p)
    <3>2. e = Rec(f, o, Error, TB!EmptyBuilder, x, l, p)
      BY <2>3 DEF Rec
    <3> HIDE DEF e, w
    <3>3. e.status # "OK"
      BY <3>2, RecIs, ErrorIs
    <3>4. w = Rec(f, o, Error, TB!EmptyBuilder, x, l, p)
      BY <2>1, <3>2, <3>3
    <3> QED
      BY <1>3, <3>4 DEF w
  <2>4. CASE a = Rec(Then(f, Fl(d)), o, Error, d, x, l, p)
    <3>2. e = Rec(Then(f, Fl(d)), o, Error, TB!EmptyBuilder, x, l, p)
      BY <2>4 DEF Rec
    <3> HIDE DEF e, w
    <3>3. e.status # "OK"
      BY <3>2, RecIs, ErrorIs
    <3>4. w = Rec(Then(f, Fl(d)), o, Error, TB!EmptyBuilder, x, l, p)
      BY <2>1, <3>2, <3>3
    <3> QED
      BY <1>3, <3>4 DEF w
  <2>5. CASE a = Rec(Written(f, Fl(d)), Past(o), "OK", d, x, l, p)
    <3>2. e = Rec(Written(f, Fl(d)), Past(o), "OK", TB!EmptyBuilder, x, l, p)
      BY <2>5 DEF Rec
    <3> HIDE DEF e, w
    <3>3. e.status = "OK"
      BY <3>2, RecIs
    <3>4. w = [e EXCEPT !.pending = o]
      BY <2>1, <3>3
    <3>5. [e EXCEPT !.pending = o] = Rec(Written(f, Fl(d)), Past(o), "OK", TB!EmptyBuilder, x, l, o)
      BY <3>2 DEF Rec
    <3>6. w = Rec(Written(f, Fl(d)), Past(o), "OK", TB!EmptyBuilder, x, l, o)
      BY <3>4, <3>5
    <3> QED
      BY <1>3, <3>6 DEF w
  <2> QED
    BY <1>3, <1>4, <2>3, <2>4, <2>5
<1> QED
  BY <1>2, <1>3

(* A builder with another last key, *)
WithKey(r, k) == [r EXCEPT !.lastKey = k]

(* another pending handle, *)
WithPending(r, h) == [r EXCEPT !.pending = h]

(* another index block. *)
WithIndex(r, y) == [r EXCEPT !.index = y]

(* What these are. *)
LEMMA WithIs ==
  ASSUME NEW f, NEW o, NEW s, NEW d, NEW x, NEW l, NEW p, NEW v
  PROVE  /\ WithKey(Rec(f, o, s, d, x, l, p), v) = Rec(f, o, s, d, x, v, p)
         /\ WithPending(Rec(f, o, s, d, x, l, p), v) = Rec(f, o, s, d, x, l, v)
         /\ WithIndex(Rec(f, o, s, d, x, l, p), v) = Rec(f, o, s, d, v, l, p)
BY DEF WithKey, WithPending, WithIndex, Rec

(* The pending index entry is added (table_builder.cc:118-125). *)
LEMMA AddIndexEntryIs ==
  ASSUME NEW f, NEW o, NEW s, NEW d, NEW x, NEW l, NEW p, NEW key
  PROVE  TB!AddIndexEntry(Rec(f, o, s, d, x, l, p), key)
           = Rec(f, o, s, d, TB!BlockAdd(x, key, p, 2, 1), key, TB!NoHandle)
<1> DEFINE r == Rec(f, o, s, d, x, l, p)
<1>1. r.pending = p /\ r.index = x
  BY RecIs
<1>2. TB!AddIndexEntry(r, key) =
        [r EXCEPT !.lastKey = key, !.pending = TB!NoHandle,
                  !.index = TB!BlockAdd(@, key, r.pending, TB!HandleSize, 1)]
  BY DEF TB!AddIndexEntry
<1>3. PICK y : y = TB!BlockAdd(x, key, p, 2, 1)
  OBVIOUS
<1>4. [r EXCEPT !.lastKey = key, !.pending = TB!NoHandle, !.index = y]
        = Rec(f, o, s, d, y, key, TB!NoHandle)
  <2> HIDE DEF r
  <2>1. [r EXCEPT !.lastKey = key, !.pending = TB!NoHandle, !.index = y]
          = WithIndex(WithPending(WithKey(r, key), TB!NoHandle), y)
    BY DEF WithKey, WithPending, WithIndex
  <2>2. WithIndex(WithPending(WithKey(r, key), TB!NoHandle), y)
          = Rec(f, o, s, d, y, key, TB!NoHandle)
    BY WithIs DEF r
  <2> QED
    BY <2>1, <2>2
<1>5. [r EXCEPT !.lastKey = key, !.pending = TB!NoHandle,
                !.index = TB!BlockAdd(@, key, r.pending, TB!HandleSize, 1)]
        = [r EXCEPT !.lastKey = key, !.pending = TB!NoHandle, !.index = y]
  BY <1>1, <1>3 DEF TB!HandleSize, Rec
<1> QED
  BY <1>2, <1>3, <1>4, <1>5

(* The end of Add (table_builder.cc:118-129). *)
LEMMA PutEntryIs ==
  ASSUME NEW f, NEW o, NEW s, NEW d, NEW x, NEW l, NEW p, NEW key, NEW size
  PROVE  LET w == TB!PutEntry(Rec(f, o, s, d, x, l, p), key, size)
             e == TB!BlockAdd(d, key, size, size, RestartInterval)
             y == TB!BlockAdd(x, TB!FindShortestSeparator(l, key), p, 2, 1)
         IN /\ p = TB!NoHandle => w = Rec(f, o, s, e, x, key, TB!NoHandle)
            /\ p # TB!NoHandle => w = Rec(f, o, s, e, y, key, TB!NoHandle)
<1> DEFINE r == Rec(f, o, s, d, x, l, p)
           w == TB!PutEntry(r, key, size)
           e == TB!BlockAdd(d, key, size, size, RestartInterval)
           sep == TB!FindShortestSeparator(l, key)
           y == TB!BlockAdd(x, sep, p, 2, 1)
           i == IF p = TB!NoHandle THEN r ELSE TB!AddIndexEntry(r, sep)
<1>1. r.pending = p /\ r.lastKey = l
  BY RecIs
<1>2. w = [i EXCEPT !.lastKey = key, !.data = TB!BlockAdd(@, key, size, size, RestartInterval)]
  BY <1>1 DEF TB!PutEntry
<1>3. CASE p = TB!NoHandle
  <2>1. i = Rec(f, o, s, d, x, l, TB!NoHandle)
    BY <1>3
  <2> HIDE DEF i, w, e
  <2>2. w = Rec(f, o, s, e, x, key, TB!NoHandle)
    BY <1>2, <2>1 DEF Rec, e
  <2> QED
    BY <1>3, <2>2 DEF w, e
<1>4. CASE p # TB!NoHandle
  <2>1. i = Rec(f, o, s, d, y, sep, TB!NoHandle)
    BY <1>4, AddIndexEntryIs
  <2> HIDE DEF i, w, e, y, sep
  <2>2. w = Rec(f, o, s, e, y, key, TB!NoHandle)
    BY <1>2, <2>1 DEF Rec, e
  <2> QED
    BY <1>4, <2>2 DEF w, e, y, sep
<1> QED
  BY <1>3, <1>4

(* What a step leaves in the builder's fields. *)
LEMMA BecomeIs ==
  ASSUME NEW f, NEW o, NEW s, NEW d, NEW x, NEW l, NEW p
  PROVE  TB!Become(Rec(f, o, s, d, x, l, p)) <=>
           /\ file_t' = f /\ offset' = o /\ status_t' = s
           /\ dataBlock' = d /\ indexBlock' = x
           /\ lastKey' = l /\ pending' = p
BY RecIs DEF TB!Become

(* The builder's fields as a record. *)
LEMMA BuilderIs ==
  TB!Builder = Rec(file_t, offset, status_t, dataBlock, indexBlock, lastKey, pending)
BY DEF TB!Builder, Rec

(* The contents of blocks. *)
ContentSet == [entries : Seq(EntrySet), restarts : Seq(Nat)]

(* What a file holds that has no footer. *)
FileUnits == {TB!Trailer} \cup {TB!Body(cts) : cts \in ContentSet}

(* Open refuses such a file (format.cc:29-39). *)
LEMMA UnitsAreNoFooters ==
  ASSUME NEW u \in FileUnits
  PROVE  u.unit # "footer"
BY DEF FileUnits, TB!Body, TB!Trailer

(* What BlockBuilder::Finish returns (block_builder.cc:54-62). *)
LEMMA BuilderContents ==
  ASSUME NEW b, NEW n, NEW ks, NEW vs, BuilderHolds(b, n, ks, vs)
  PROVE  /\ TB!Finished(b) = Contents(b.entries, b.restarts)
         /\ TB!Body(TB!Finished(b)) \in FileUnits
         /\ Encodes(b.entries, b.restarts, n, ks, vs)
         /\ n \in Nat /\ (b.entries = <<>> <=> n = 0)
<1>1. Encodes(b.entries, b.restarts, n, ks, vs)
  BY DEF BuilderHolds
<1>2. b.entries \in Seq(EntrySet) /\ b.restarts \in Seq(Nat) /\ n \in Nat /\ Len(b.entries) = n
  BY <1>1 DEF Encodes, EntriesOK, RestartsOK
<1>3. b.entries = <<>> <=> n = 0
  BY <1>2
<1>4. TB!Finished(b) = Contents(b.entries, b.restarts)
  BY DEF TB!Finished, Contents
<1>5. Contents(b.entries, b.restarts) \in ContentSet
  BY <1>2 DEF Contents, ContentSet
<1>6. TB!Body(TB!Finished(b)) \in FileUnits
  BY <1>4, <1>5 DEF FileUnits
<1> QED
  BY <1>1, <1>2, <1>3, <1>4, <1>6

(* f with v at i. *)
With(f, i, v) == [j \in Nat |-> IF j = i THEN v ELSE f[j]]

(* What it is at i, and elsewhere. *)
LEMMA WithAt ==
  ASSUME NEW f, NEW i \in Nat, NEW v
  PROVE  With(f, i, v)[i] = v /\ \A j \in Nat : j # i => With(f, i, v)[j] = f[j]
BY DEF With

(* How much of what the blocks hold the index knows.                       *)
IndexHolds(x, ad, k, m, c, hs, ss) ==
  m \in 0 .. k /\ BuilderHolds(x, m, ss, hs) /\ Separates(ad, m, c, ss)

(* A block waits for its index entry until the next key is known.          *)
Awaits(s, d, p, ad, k, m, c, hs) ==
  \/ p = TB!NoHandle /\ m = k /\ (k > 0 => c[k] < Len(ad))
  \/ p # TB!NoHandle /\ k = m + 1 /\ p = hs[k] /\ d.entries = <<>> /\ s = "OK"

(* The data block has what the blocks written do not have.                 *)
RestHolds(f, o, s, d, ad, k, c) ==
  s = "OK" => /\ o = Len(f)
              /\ BuilderHolds(d, Len(ad) - c[k], KeysFrom(ad, c[k]), SizesFrom(ad, c[k]))

(* last_key is the key of the last entry. *)
LastIsKey(l, ad) == Len(ad) > 0 => l = ad[Len(ad)].key

(* What a TableBuilder, by its fields, has made of the entries ad: k       *)
(* blocks in the file, m of them in the index, the rest in the data block. *)
(* After an error the data block may have lost its entries; nothing is     *)
(* added any more then.                                                    *)
WellBuilt(f, o, s, d, x, l, p, ad, k, m, c, hs, ss) ==
  /\ f \in Seq(FileUnits) /\ Blocks(f, ad, k, c, hs) /\ AddedOK(ad)
  /\ IndexHolds(x, ad, k, m, c, hs, ss)
  /\ Awaits(s, d, p, ad, k, m, c, hs)
  /\ RestHolds(f, o, s, d, ad, k, c)
  /\ LastIsKey(l, ad)

(* A file only grows. *)
LEMMA FileExtends ==
  ASSUME NEW f \in Seq(FileUnits), NEW u \in FileUnits
  PROVE  /\ Then(f, u) \in Seq(FileUnits) /\ Extends(f, Then(f, u))
         /\ Written(f, u) \in Seq(FileUnits) /\ Extends(f, Written(f, u))
         /\ Len(f) \in Nat /\ Len(Written(f, u)) = Len(f) + 2 /\ Written(f, u)[Len(f) + 1] = u
<1> DEFINE g == Then(f, u)
<1>1. Extends(f, g) /\ g \in Seq(FileUnits) /\ Len(g) = Len(f) + 1 /\ g[Len(f) + 1] = u
  BY AppendExtends DEF Then
<1>2. TB!Trailer \in FileUnits /\ Written(f, u) = Then(g, TB!Trailer)
  BY DEF FileUnits, Written
<1> HIDE DEF g
<1>3. /\ Extends(g, Written(f, u)) /\ Written(f, u) \in Seq(FileUnits)
      /\ Len(Written(f, u)) = Len(g) + 1
  BY <1>1, <1>2, AppendExtends DEF Then
<1>4. Len(f) \in Nat /\ Len(g) \in Nat
  BY <1>1
<1>5. Written(f, u)[Len(f) + 1] = u
  <2>1. PICK i \in 1 .. Len(g) : i = Len(f) + 1
    BY <1>1, <1>4
  <2>2. Written(f, u)[i] = g[i]
    BY <1>3 DEF Extends
  <2> QED
    BY <1>1, <2>1, <2>2
<1>6. Extends(f, Written(f, u))
  BY <1>1, <1>3, ExtendsTransitive
<1>7. Len(Written(f, u)) = Len(f) + 2
  BY <1>1, <1>3, <1>4
<1> QED
  BY <1>1, <1>3, <1>4, <1>5, <1>6, <1>7 DEF g

(* Or stays. *)
LEMMA ExtendsItself ==
  ASSUME NEW a, Len(a) \in Nat
  PROVE  Extends(a, a)
BY DEF Extends

(* A block that was not written whole leaves the builder with an error.    *)
LEMMA FailedFlushIs ==
  ASSUME NEW f, NEW o, NEW d, NEW x, NEW l, NEW p, NEW ad, NEW k, NEW m, NEW c, NEW hs, NEW ss,
         WellBuilt(f, o, "OK", d, x, l, p, ad, k, m, c, hs, ss), d.entries # <<>>
  PROVE  /\ WellBuilt(f, o, Error, TB!EmptyBuilder, x, l, p, ad, k, m, c, hs, ss)
         /\ WellBuilt(Then(f, Fl(d)), o, Error, TB!EmptyBuilder, x, l, p, ad, k, m, c, hs, ss)
<1>1. /\ f \in Seq(FileUnits) /\ Blocks(f, ad, k, c, hs) /\ AddedOK(ad)
      /\ IndexHolds(x, ad, k, m, c, hs, ss) /\ LastIsKey(l, ad)
  BY DEF WellBuilt
<1>2. p = TB!NoHandle /\ m = k /\ (k > 0 => c[k] < Len(ad))
  BY DEF WellBuilt, Awaits
<1>3. Awaits(Error, TB!EmptyBuilder, p, ad, k, m, c, hs)
  BY <1>2 DEF Awaits
<1>4. \A g : RestHolds(g, o, Error, TB!EmptyBuilder, ad, k, c)
  BY ErrorIs DEF RestHolds
<1>5. Fl(d) \in FileUnits
  <2>1. BuilderHolds(d, Len(ad) - c[k], KeysFrom(ad, c[k]), SizesFrom(ad, c[k]))
    BY DEF WellBuilt, RestHolds
  <2> QED
    BY <2>1, BuilderContents DEF Fl
<1>6. Then(f, Fl(d)) \in Seq(FileUnits) /\ Extends(f, Then(f, Fl(d))) /\ Extends(ad, ad)
  BY <1>1, <1>5, FileExtends, ExtendsItself, AddedIs
<1>7. Blocks(Then(f, Fl(d)), ad, k, c, hs)
  BY <1>1, <1>6, BlocksStay
<1> QED
  BY <1>1, <1>3, <1>4, <1>6, <1>7 DEF WellBuilt

(* A block that was written is one more.                                   *)
LEMMA FlushIs ==
  ASSUME NEW f, NEW o, NEW d, NEW x, NEW l, NEW p, NEW ad, NEW k, NEW m, NEW c, NEW hs, NEW ss,
         WellBuilt(f, o, "OK", d, x, l, p, ad, k, m, c, hs, ss), d.entries # <<>>
  PROVE  WellBuilt(Written(f, Fl(d)), Past(o), "OK", TB!EmptyBuilder, x, l, o, ad, k + 1, m,
                   With(c, k + 1, Len(ad)), With(hs, k + 1, o), ss)
<1> DEFINE g == Written(f, Fl(d))
           b == With(c, k + 1, Len(ad))
           gs == With(hs, k + 1, o)
           n == Len(ad) - c[k]
<1>1. /\ f \in Seq(FileUnits) /\ Blocks(f, ad, k, c, hs) /\ AddedOK(ad)
      /\ IndexHolds(x, ad, k, m, c, hs, ss) /\ LastIsKey(l, ad)
  BY DEF WellBuilt
<1>2. p = TB!NoHandle /\ m = k /\ (k > 0 => c[k] < Len(ad))
  BY DEF WellBuilt, Awaits
<1>3. o = Len(f) /\ BuilderHolds(d, n, KeysFrom(ad, c[k]), SizesFrom(ad, c[k]))
  BY DEF WellBuilt, RestHolds
<1>4. /\ TB!Finished(d) = Contents(d.entries, d.restarts) /\ Fl(d) \in FileUnits
      /\ Encodes(d.entries, d.restarts, n, KeysFrom(ad, c[k]), SizesFrom(ad, c[k]))
      /\ n \in Nat /\ n # 0
  <2> HIDE DEF n
  <2> QED
    BY <1>3, BuilderContents DEF Fl
<1>5. k \in Nat /\ Len(ad) \in Nat /\ k \in 0 .. k /\ c[k] \in Nat /\ c[k] < Len(ad) /\ c[0] = 0
  <2>1. k \in Nat /\ Len(ad) \in Nat /\ c[0] = 0
    BY <1>1, AddedIs DEF Blocks
  <2>2. k \in 0 .. k
    BY <2>1
  <2>3. c[k] \in Nat /\ c[k] <= Len(ad)
    BY <1>1, <2>2 DEF Blocks
  <2>4. c[k] < Len(ad)
    BY <1>4, <2>1, <2>3
  <2> QED
    BY <2>1, <2>2, <2>3, <2>4
<1>6. /\ g \in Seq(FileUnits) /\ Extends(f, g) /\ Extends(ad, ad)
      /\ o \in Nat /\ Len(g) = o + 2 /\ g[o + 1] = Fl(d)
  <2> HIDE DEF g
  <2> QED
    BY <1>1, <1>3, <1>4, <1>5, FileExtends, ExtendsItself DEF g
<1>7. BlockHolds(g[o + 1], ad, c[k], Len(ad))
  BY <1>4, <1>6 DEF BlockHolds, Fl
<1>8. Blocks(g, ad, k, c, hs)
  <2> HIDE DEF g
  <2> QED
    BY <1>1, <1>6, BlocksStay
<1>9. PICK z \in Nat : z = k + 1
  BY <1>5
<1>10. /\ b[z] = Len(ad) /\ \A j \in Nat : j # z => b[j] = c[j]
       /\ gs[z] = o /\ \A j \in Nat : j # z => gs[j] = hs[j]
  <2>1. b = With(c, z, Len(ad)) /\ gs = With(hs, z, o)
    BY <1>9
  <2> HIDE DEF b, gs
  <2>2. PICK v : v = Len(ad)
    OBVIOUS
  <2>3. With(c, z, v)[z] = v /\ \A j \in Nat : j # z => With(c, z, v)[j] = c[j]
    BY WithAt
  <2>4. With(hs, z, o)[z] = o /\ \A j \in Nat : j # z => With(hs, z, o)[j] = hs[j]
    BY WithAt
  <2> QED
    BY <2>1, <2>2, <2>3, <2>4
<1> HIDE DEF g, b, gs
<1>11. Blocks(g, ad, z, b, gs)
  <2>0. /\ \A i \in 0 .. z : i = z \/ (i \in 0 .. k /\ b[i] = c[i])
        /\ \A i \in 1 .. z : i = z \/ (i \in 1 .. k /\ gs[i] = hs[i])
    BY <1>5, <1>9, <1>10
  <2>1. b[0] = 0
    BY <1>5, <1>9, <1>10
  <2>2. ASSUME NEW i \in 0 .. z PROVE b[i] \in Nat /\ b[i] <= Len(ad)
    <3>1. CASE i = z
      BY <1>5, <1>10, <3>1
    <3>2. CASE i # z
      BY <1>8, <2>0, <3>2 DEF Blocks
    <3> QED
      BY <3>1, <3>2
  <2>3. ASSUME NEW i \in 0 .. z, NEW j \in 0 .. z, i < j PROVE b[i] < b[j]
    <3>1. i \in 0 .. k /\ b[i] = c[i] /\ i <= k
      BY <1>9, <2>0, <2>3
    <3>2. CASE j = z
      <4>1. c[i] <= c[k]
        <5>1. CASE i = k
          BY <1>5, <5>1
        <5>2. CASE i # k
          BY <1>5, <1>8, <3>1, <5>2 DEF Blocks
        <5> QED
          BY <5>1, <5>2
      <4>2. c[i] \in Nat
        BY <1>8, <3>1 DEF Blocks
      <4> QED
        BY <1>5, <1>10, <3>1, <3>2, <4>1, <4>2
    <3>3. CASE j # z
      BY <1>8, <2>0, <2>3, <3>1, <3>3 DEF Blocks
    <3> QED
      BY <3>2, <3>3
  <2>4. ASSUME NEW i \in 1 .. z
        PROVE  /\ gs[i] \in Nat /\ gs[i] + 1 <= Len(g)
               /\ BlockHolds(g[gs[i] + 1], ad, b[i - 1], b[i])
    <3>1. CASE i = z
      <4>1. b[i - 1] = c[k] /\ b[i] = Len(ad) /\ gs[i] = o
        BY <1>5, <1>9, <1>10, <3>1
      <4>2. o + 1 <= o + 2
        BY <1>6
      <4> QED
        BY <1>6, <1>7, <4>1, <4>2
    <3>2. CASE i # z
      <4>1. i \in 1 .. k /\ gs[i] = hs[i]
        BY <2>0, <3>2
      <4>2. PICK h \in Nat : h = i - 1 /\ h # z /\ i # z /\ i \in Nat
        BY <1>5, <1>9, <4>1
      <4>3. b[h] = c[h] /\ b[i] = c[i]
        BY <1>10, <4>2
      <4>4. /\ hs[i] \in Nat /\ hs[i] + 1 <= Len(g)
            /\ BlockHolds(g[hs[i] + 1], ad, c[i - 1], c[i])
        BY <1>8, <4>1 DEF Blocks
      <4> QED
        BY <4>1, <4>2, <4>3, <4>4
    <3> QED
      BY <3>1, <3>2
  <2>5. ASSUME NEW i \in 1 .. z, NEW j \in 1 .. z, i < j PROVE gs[i] < gs[j]
    <3>1. i \in 1 .. k /\ gs[i] = hs[i]
      BY <1>9, <2>0, <2>5
    <3>2. CASE j = z
      <4>1. hs[i] \in Nat /\ hs[i] + 1 <= Len(f)
        BY <1>1, <3>1 DEF Blocks
      <4> QED
        BY <1>3, <1>6, <1>10, <3>1, <3>2, <4>1
    <3>3. CASE j # z
      BY <1>8, <2>0, <2>5, <3>1, <3>3 DEF Blocks
    <3> QED
      BY <3>2, <3>3
  <2> QED
    BY <2>1, <2>2, <2>3, <2>4, <2>5 DEF Blocks
<1>12. IndexHolds(x, ad, z, m, b, gs, ss)
  <2>1. m \in Nat /\ m \in 0 .. z /\ \A i \in 1 .. m : i \in Nat /\ i # z
    BY <1>2, <1>5, <1>9
  <2>2. \A i \in 1 .. m : ss[i] = ss[i] /\ hs[i] = gs[i] /\ b[i] = c[i]
    BY <1>10, <2>1
  <2>3. BuilderHolds(x, m, ss, gs)
    BY <1>1, <2>1, <2>2, HoldsTheSame DEF IndexHolds
  <2>4. Separates(ad, m, b, ss)
    BY <1>1, <2>2 DEF IndexHolds, Separates
  <2> QED
    BY <2>1, <2>3, <2>4 DEF IndexHolds
<1>13. Awaits("OK", TB!EmptyBuilder, o, ad, z, m, b, gs)
  <2>1. o # TB!NoHandle
    BY <1>6 DEF TB!NoHandle
  <2>2. TB!EmptyBuilder.entries = <<>>
    BY EmptyHolds
  <2> QED
    BY <1>2, <1>9, <1>10, <2>1, <2>2 DEF Awaits
<1>14. RestHolds(g, Past(o), "OK", TB!EmptyBuilder, ad, z, b)
  <2>1. Past(o) = Len(g)
    BY <1>6 DEF Past
  <2>2. Len(ad) - b[z] = 0
    BY <1>5, <1>10
  <2>3. BuilderHolds(TB!EmptyBuilder, 0, KeysFrom(ad, b[z]), SizesFrom(ad, b[z]))
    BY EmptyHolds
  <2> QED
    BY <2>1, <2>2, <2>3 DEF RestHolds
<1>15. WellBuilt(g, Past(o), "OK", TB!EmptyBuilder, x, l, o, ad, z, m, b, gs, ss)
  BY <1>1, <1>6, <1>11, <1>12, <1>13, <1>14 DEF WellBuilt
<1> QED
  BY <1>9, <1>15 DEF g, b, gs

(* One more entry, behind the last.                                        *)
LEMMA AddedGrows ==
  ASSUME NEW ad, AddedOK(ad), NEW e \in EntryRecords,
         Len(ad) > 0 => TB!Before(ad[Len(ad)].key, e.key)
  PROVE  /\ AddedOK(Append(ad, e)) /\ Extends(ad, Append(ad, e))
         /\ Len(Append(ad, e)) = Len(ad) + 1 /\ Append(ad, e)[Len(ad) + 1] = e
<1> DEFINE be == Append(ad, e)
<1>1. ad \in Seq(EntryRecords) /\ Len(ad) \in Nat
  BY AddedIs DEF AddedOK
<1>2. /\ be \in Seq(EntryRecords) /\ Extends(ad, be)
      /\ Len(be) = Len(ad) + 1 /\ be[Len(ad) + 1] = e
  BY <1>1, AppendExtends
<1> HIDE DEF be
<1>3. ASSUME NEW i \in 1 .. Len(be), NEW j \in 1 .. Len(be), i < j
      PROVE  TB!Before(be[i].key, be[j].key)
  <2>1. PICK g \in 1 .. Len(ad) : g = i /\ be[g] = ad[g]
    BY <1>1, <1>2, <1>3 DEF Extends
  <2>2. CASE j = Len(ad) + 1
    <3>1. PICK h \in 1 .. Len(ad) : h = Len(ad)
      BY <1>1
    <3>2. ad[g].key \in Words /\ ad[h].key \in Words /\ e.key \in Words
      BY AddedIs DEF EntryRecords
    <3>3. TB!Before(ad[h].key, e.key)
      BY <3>1
    <3>4. TB!Before(ad[g].key, e.key)
      <4>1. CASE g = h
        BY <3>3, <4>1
      <4>2. CASE g # h
        <5>1. TB!Before(ad[g].key, ad[h].key)
          BY <3>1, <4>2, KeyOrder
        <5> QED
          BY <3>2, <3>3, <5>1, BeforeTransitive
      <4> QED
        BY <4>1, <4>2
    <3> QED
      BY <1>2, <2>1, <2>2, <3>4
  <2>3. CASE j # Len(ad) + 1
    <3>1. PICK h \in 1 .. Len(ad) : h = j /\ be[h] = ad[h]
      BY <1>1, <1>2, <2>3 DEF Extends
    <3> QED
      BY <1>3, <2>1, <3>1 DEF AddedOK
  <2> QED
    BY <2>2, <2>3
<1>4. AddedOK(be)
  BY <1>2, <1>3 DEF AddedOK
<1> QED
  BY <1>2, <1>4 DEF be

(* The data block takes the next entry (table_builder.cc:127-129). *)
LEMMA DataGrows ==
  ASSUME NEW f, NEW o, NEW s, NEW d, NEW ad, AddedOK(ad), NEW e \in EntryRecords,
         NEW be, AddedOK(be), Extends(ad, be), Len(be) = Len(ad) + 1, be[Len(ad) + 1] = e,
         NEW k, NEW c, c[k] \in Nat, c[k] <= Len(ad), RestHolds(f, o, s, d, ad, k, c)
  PROVE  RestHolds(f, o, s, TB!BlockAdd(d, e.key, e.size, e.size, RestartInterval), be, k, c)
<1> SUFFICES ASSUME s = "OK"
             PROVE  /\ o = Len(f)
                    /\ BuilderHolds(TB!BlockAdd(d, e.key, e.size, e.size, RestartInterval),
                                    Len(be) - c[k], KeysFrom(be, c[k]), SizesFrom(be, c[k]))
  BY DEF RestHolds
<1>1. PICK a \in Nat : a = c[k]
  OBVIOUS
<1>2. PICK n \in Nat : n = Len(ad) - a /\ Len(be) - a = n + 1 /\ a + (n + 1) = Len(ad) + 1
                        /\ a + n = Len(ad)
  <2>1. PICK z \in Nat : z = Len(ad) /\ Len(be) = z + 1 /\ a <= z
    <3>1. Len(ad) \in Nat
      BY AddedIs
    <3> QED
      BY <1>1, <3>1
  <2>4. a \in Nat /\ z \in Nat /\ a <= z
    BY <1>1, <2>1
  <2>5. z - a \in Nat
    BY <2>4
  <2>2. PICK h \in Nat : h = z - a
    BY <2>5
  <2>3. (z + 1) - a = h + 1 /\ a + (h + 1) = z + 1 /\ a + h = z
    BY <2>2
  <2> QED
    BY <2>1, <2>2, <2>3
<1>3. o = Len(f) /\ BuilderHolds(d, n, KeysFrom(ad, a), SizesFrom(ad, a))
  BY <1>1, <1>2 DEF RestHolds
<1>4. BuilderHolds(d, n, KeysFrom(be, a), SizesFrom(be, a))
  <2>1. \A i \in 1 .. n : /\ KeysFrom(ad, a)[i] = KeysFrom(be, a)[i]
                          /\ SizesFrom(ad, a)[i] = SizesFrom(be, a)[i]
    BY <1>2, ExtendedHoldsTheSame
  <2> QED
    BY <1>3, <2>1, HoldsTheSame
<1>5. /\ KeysFrom(be, a)[n + 1] = e.key /\ SizesFrom(be, a)[n + 1] = e.size
      /\ e.key \in Words /\ e.size \in Nat
  <2>1. PICK i \in Nat : i = n + 1
    OBVIOUS
  <2>2. KeysFrom(be, a)[i] = be[a + i].key /\ SizesFrom(be, a)[i] = be[a + i].size
    BY KeysFromIs
  <2> QED
    BY <1>2, <2>1, <2>2 DEF EntryRecords
<1>6. RestartInterval \in Nat \ {0}
  BY TableHolds DEF TB!TableAssumption
<1>7. BuilderHolds(TB!BlockAdd(d, KeysFrom(be, a)[n + 1], SizesFrom(be, a)[n + 1],
                               e.size, RestartInterval),
                   n + 1, KeysFrom(be, a), SizesFrom(be, a))
  <2>1. PICK ks : ks = KeysFrom(be, a)
    OBVIOUS
  <2>2. PICK vs : vs = SizesFrom(be, a)
    OBVIOUS
  <2>3. BuilderHolds(TB!BlockAdd(d, ks[n + 1], vs[n + 1], e.size, RestartInterval), n + 1, ks, vs)
    BY <1>4, <1>5, <1>6, <2>1, <2>2, BlockAddHolds
  <2> QED
    BY <2>1, <2>2, <2>3
<1> QED
  BY <1>1, <1>2, <1>3, <1>5, <1>7

(* An entry goes into the data block, and the block that was waiting gets  *)
(* its entry in the index.                                                 *)
LEMMA PutEntryHolds ==
  ASSUME NEW f, NEW o, NEW s, NEW d, NEW x, NEW l, NEW p, NEW ad, NEW k, NEW m, NEW c, NEW hs,
         NEW ss, WellBuilt(f, o, s, d, x, l, p, ad, k, m, c, hs, ss), NEW e \in EntryRecords,
         Len(ad) > 0 => TB!Before(ad[Len(ad)].key, e.key)
  PROVE  LET b == TB!BlockAdd(d, e.key, e.size, e.size, RestartInterval)
             q == TB!FindShortestSeparator(l, e.key)
             be == Append(ad, e)
         IN /\ p = TB!NoHandle =>
                 WellBuilt(f, o, s, b, x, e.key, TB!NoHandle, be, k, m, c, hs, ss)
            /\ p # TB!NoHandle =>
                 WellBuilt(f, o, s, b, TB!BlockAdd(x, q, p, 2, 1), e.key, TB!NoHandle,
                           be, k, k, c, hs, With(ss, k, q))
<1> DEFINE b == TB!BlockAdd(d, e.key, e.size, e.size, RestartInterval)
           q == TB!FindShortestSeparator(l, e.key)
           be == Append(ad, e)
<1>1. /\ f \in Seq(FileUnits) /\ Blocks(f, ad, k, c, hs) /\ AddedOK(ad)
      /\ IndexHolds(x, ad, k, m, c, hs, ss) /\ LastIsKey(l, ad)
      /\ RestHolds(f, o, s, d, ad, k, c) /\ Awaits(s, d, p, ad, k, m, c, hs)
  BY DEF WellBuilt
<1>2. /\ AddedOK(be) /\ Extends(ad, be) /\ Len(be) = Len(ad) + 1 /\ be[Len(ad) + 1] = e
      /\ Len(ad) \in Nat
  BY <1>1, AddedGrows, AddedIs
<1> HIDE DEF be, b, q
<1>3. /\ k \in Nat /\ k \in 0 .. k /\ c[k] \in Nat /\ c[k] <= Len(ad) /\ c[0] = 0
      /\ m \in 0 .. k /\ BuilderHolds(x, m, ss, hs) /\ Separates(ad, m, c, ss)
  <2>1. k \in Nat /\ c[0] = 0
    BY <1>1 DEF Blocks
  <2>2. k \in 0 .. k
    BY <2>1
  <2> QED
    BY <1>1, <2>1, <2>2 DEF Blocks, IndexHolds
<1>4. Blocks(f, be, k, c, hs)
  <2>1. Extends(f, f)
    BY <1>1, ExtendsItself
  <2> QED
    BY <1>1, <1>2, <2>1, BlocksStay
<1>5. RestHolds(f, o, s, b, be, k, c)
  BY <1>1, <1>2, <1>3, DataGrows DEF b
<1>6. LastIsKey(e.key, be)
  BY <1>2 DEF LastIsKey
<1>7. e.key \in Words
  BY DEF EntryRecords
<1>8. ASSUME NEW i \in 1 .. m, c[i] < Len(ad)
      PROVE  /\ ss[i] \in Words /\ ~TB!Before(ss[i], be[c[i]].key)
             /\ c[i] < Len(be) => TB!Before(ss[i], be[c[i] + 1].key)
  <2>1. i \in 1 .. k
    BY <1>3
  <2>2. PICK g \in 1 .. Len(ad) : g = c[i]
    BY <1>1, <2>1, CutIs
  <2>3. PICK h \in 1 .. Len(ad) : h = c[i] + 1
    BY <1>2, <1>8, <2>2
  <2>4. be[g] = ad[g] /\ be[h] = ad[h]
    BY <1>2 DEF Extends
  <2>5. ss[i] \in Words /\ ~TB!Before(ss[i], ad[g].key) /\ TB!Before(ss[i], ad[h].key)
    BY <1>3, <1>8, <2>2, <2>3 DEF Separates
  <2> QED
    BY <2>2, <2>3, <2>4, <2>5
<1>9. CASE p = TB!NoHandle
  <2>1. m = k /\ (k > 0 => c[k] < Len(ad))
    BY <1>1, <1>9 DEF Awaits
  <2>2. ASSUME NEW i \in 1 .. m PROVE c[i] < Len(ad)
    <3>1. i \in 0 .. k /\ k > 0
      BY <1>3, <2>1
    <3>2. CASE i = k
      BY <2>1, <3>1, <3>2
    <3>3. CASE i # k
      <4>1. c[i] < c[k] /\ c[i] \in Nat
        BY <1>1, <1>3, <3>1, <3>3 DEF Blocks
      <4> QED
        BY <1>2, <1>3, <2>1, <3>1, <4>1
    <3> QED
      BY <3>2, <3>3
  <2>3. Separates(be, m, c, ss)
    BY <1>8, <2>2 DEF Separates
  <2>4. IndexHolds(x, be, k, m, c, hs, ss)
    BY <1>3, <2>3 DEF IndexHolds
  <2>5. Awaits(s, b, TB!NoHandle, be, k, m, c, hs)
    <3>1. k > 0 => c[k] < Len(be)
      BY <1>2, <1>3
    <3> QED
      BY <2>1, <3>1 DEF Awaits
  <2>6. WellBuilt(f, o, s, b, x, e.key, TB!NoHandle, be, k, m, c, hs, ss)
    BY <1>1, <1>2, <1>4, <1>5, <1>6, <2>4, <2>5 DEF WellBuilt
  <2> QED
    BY <1>9, <2>6 DEF b, be
<1>10. CASE p # TB!NoHandle
  <2> DEFINE y == TB!BlockAdd(x, q, p, 2, 1)
             ts == With(ss, k, q)
  <2>1. k = m + 1 /\ p = hs[k] /\ d.entries = <<>> /\ s = "OK"
    BY <1>1, <1>10 DEF Awaits
  <2>2. c[k] = Len(ad) /\ k \in 1 .. k /\ m \in Nat
    <3>1. BuilderHolds(d, Len(ad) - c[k], KeysFrom(ad, c[k]), SizesFrom(ad, c[k]))
      BY <1>1, <2>1 DEF RestHolds
    <3>2. PICK n : n = Len(ad) - c[k]
      OBVIOUS
    <3>3. BuilderHolds(d, n, KeysFrom(ad, c[k]), SizesFrom(ad, c[k]))
      BY <3>1, <3>2
    <3>4. n = 0
      BY <2>1, <3>3, BuilderContents
    <3> QED
      BY <1>2, <1>3, <2>1, <3>2, <3>4
  <2>3. PICK j \in 1 .. Len(ad) : j = Len(ad) /\ j = c[k]
    BY <1>1, <2>2, CutIs
  <2>4. l = ad[j].key /\ l \in Words /\ TB!Before(l, e.key) /\ be[j] = ad[j]
    <3>1. Len(ad) > 0
      BY <2>3
    <3>2. l = ad[j].key /\ TB!Before(ad[j].key, e.key)
      BY <1>1, <2>3, <3>1 DEF LastIsKey
    <3>3. ad[j].key \in Words
      BY <1>1, AddedIs
    <3>4. be[j] = ad[j]
      BY <1>2 DEF Extends
    <3> QED
      BY <3>2, <3>3, <3>4
  <2>5. q \in Words /\ ~TB!Before(q, l) /\ TB!Before(q, e.key)
    BY <1>7, <2>4, SeparatorIs DEF q
  <2>6. /\ ts[k] = q /\ \A i \in Nat : i # k => ts[i] = ss[i]
    BY <1>3, WithAt
  <2> HIDE DEF y, ts
  <2>7. BuilderHolds(y, k, ts, hs)
    <3>1. \A i \in 1 .. m : i \in Nat /\ i # k
      BY <2>1, <2>2
    <3>2. BuilderHolds(x, m, ts, hs)
      <4>1. \A i \in 1 .. m : ss[i] = ts[i] /\ hs[i] = hs[i]
        BY <2>6, <3>1
      <4> QED
        BY <1>3, <2>2, <4>1, HoldsTheSame
    <3>3. hs[k] \in Nat
      BY <1>1, <2>2, CutIs
    <3>4. ts[m + 1] = q /\ hs[m + 1] = p /\ ts[m + 1] \in Words /\ hs[m + 1] \in Nat /\ 1 \in Nat \ {0}
      BY <2>1, <2>5, <2>6, <3>3
    <3>5. BuilderHolds(TB!BlockAdd(x, ts[m + 1], hs[m + 1], 2, 1), m + 1, ts, hs)
      BY <3>2, <3>4, BlockAddHolds
    <3> QED
      BY <2>1, <3>4, <3>5 DEF y
  <2>8. Separates(be, k, c, ts)
    <3>1. ASSUME NEW i \in 1 .. k
          PROVE  /\ ts[i] \in Words /\ ~TB!Before(ts[i], be[c[i]].key)
                 /\ c[i] < Len(be) => TB!Before(ts[i], be[c[i] + 1].key)
      <4>1. CASE i = k
        <5>1. ts[i] = q /\ be[c[i]] = ad[j] /\ be[c[i] + 1] = e
          BY <1>2, <2>3, <2>4, <2>6, <4>1
        <5> QED
          BY <2>4, <2>5, <5>1
      <4>2. CASE i # k
        <5>1. i \in 1 .. m /\ i \in 0 .. k /\ ts[i] = ss[i] /\ i < k
          BY <2>1, <2>2, <2>6, <4>2
        <5>2. c[i] < Len(ad)
          BY <1>1, <1>3, <2>2, <5>1 DEF Blocks
        <5> QED
          BY <1>8, <5>1, <5>2
      <4> QED
        BY <4>1, <4>2
    <3> QED
      BY <3>1 DEF Separates
  <2>9. IndexHolds(y, be, k, k, c, hs, ts)
    BY <1>3, <2>7, <2>8 DEF IndexHolds
  <2>10. Awaits(s, b, TB!NoHandle, be, k, k, c, hs)
    <3>1. c[k] < Len(be)
      BY <1>2, <1>3
    <3> QED
      BY <3>1 DEF Awaits
  <2>11. WellBuilt(f, o, s, b, y, e.key, TB!NoHandle, be, k, k, c, hs, ts)
    BY <1>1, <1>2, <1>4, <1>5, <1>6, <2>9, <2>10 DEF WellBuilt
  <2> QED
    BY <1>10, <2>11 DEF b, be, q, y, ts
<1> QED
  BY <1>9, <1>10

(* The file f of a table that was finished with the entries ad.            *)
Complete(f, ad, k, c, hs, ss, es, rs) ==
  /\ Blocks(f, ad, k, c, hs) /\ AddedOK(ad) /\ Separates(ad, k, c, ss)
  /\ c[k] = Len(ad)
  /\ Encodes(es, rs, k, ss, hs)
  /\ \E at, meta \in Nat : /\ Len(f) \in Nat /\ Len(f) > 0 /\ at + 1 <= Len(f)
                           /\ f[Len(f)] = TB!Footer(at, meta)
                           /\ f[at + 1] = TB!Body(Contents(es, rs))
                           /\ \A i \in 1 .. k : hs[i] <= meta

(* The file f of a table that was finished with the entries ad, whatever   *)
(* its blocks.                                                             *)
Completed(f, ad) == \E k, c, hs, ss, es, rs : Complete(f, ad, k, c, hs, ss, es, rs)

(* An error in one of the steps of Finish.                                 *)
Failed(r) == r.file \in Seq(FileUnits) /\ r.status # "OK"

(* The builder after an Append that failed. *)
LEMMA FailedIs ==
  ASSUME NEW f \in Seq(FileUnits), NEW o, NEW d, NEW x, NEW l, NEW p
  PROVE  Failed(Rec(f, o, Error, d, x, l, p))
BY ErrorIs, RecIs DEF Failed

(* Without entries in the data block the blocks hold them all. *)
LEMMA NothingLeft ==
  ASSUME NEW f, NEW o, NEW d, NEW x, NEW l, NEW p, NEW ad, NEW k, NEW m, NEW c, NEW hs, NEW ss,
         WellBuilt(f, o, "OK", d, x, l, p, ad, k, m, c, hs, ss), d.entries = <<>>
  PROVE  c[k] = Len(ad) /\ k \in Nat /\ Len(ad) \in Nat
<1>1. BuilderHolds(d, Len(ad) - c[k], KeysFrom(ad, c[k]), SizesFrom(ad, c[k]))
  BY DEF WellBuilt, RestHolds
<1>2. PICK n : n = Len(ad) - c[k]
  OBVIOUS
<1>3. BuilderHolds(d, n, KeysFrom(ad, c[k]), SizesFrom(ad, c[k]))
  BY <1>1, <1>2
<1>4. n = 0
  BY <1>3, BuilderContents
<1>5. k \in Nat /\ Len(ad) \in Nat
  BY AddedIs DEF WellBuilt, Blocks
<1>6. k \in 0 .. k
  BY <1>5
<1>7. c[k] \in Nat
  BY <1>6 DEF WellBuilt, Blocks
<1> QED
  BY <1>2, <1>4, <1>5, <1>7

(* The metaindex block is written behind the data blocks                   *)
(* (table_builder.cc:215-220).                                             *)
LEMMA MetaindexIs ==
  ASSUME NEW f, NEW o, NEW d, NEW x, NEW l, NEW p, NEW ad, NEW k, NEW m, NEW c, NEW hs, NEW ss,
         WellBuilt(f, o, "OK", d, x, l, p, ad, k, m, c, hs, ss),
         NEW b \in BOOLEAN, NEW t \in BOOLEAN
  PROVE  LET w == TB!WriteMetaindex(Rec(f, o, "OK", d, x, l, p), b, t)
         IN \/ Failed(w)
            \/ \E g : /\ w = Rec(g, Past(o), "OK", d, x, l, p)
                      /\ WellBuilt(g, Past(o), "OK", d, x, l, p, ad, k, m, c, hs, ss)
<1> DEFINE u == TB!Body(TB!Finished(TB!EmptyBuilder))
           r == Rec(f, o, "OK", d, x, l, p)
           w == TB!WriteMetaindex(r, b, t)
           g == Written(f, u)
<1>1. w = TB!WriteRawBlock(r, TB!Finished(TB!EmptyBuilder), b, t)
  <2>1. r.status = "OK"
    BY RecIs
  <2> HIDE DEF r
  <2> QED
    BY <2>1 DEF TB!WriteMetaindex
<1>2. \/ w = Rec(f, o, Error, d, x, l, p)
      \/ w = Rec(Then(f, u), o, Error, d, x, l, p)
      \/ w = Rec(g, Past(o), "OK", d, x, l, p)
  <2> HIDE DEF w, g
  <2>1. PICK cts : cts = TB!Finished(TB!EmptyBuilder)
    OBVIOUS
  <2>2. LET v == TB!WriteRawBlock(Rec(f, o, "OK", d, x, l, p), cts, b, t)
        IN \/ v = Rec(f, o, Error, d, x, l, p)
           \/ v = Rec(Then(f, TB!Body(cts)), o, Error, d, x, l, p)
           \/ v = Rec(Written(f, TB!Body(cts)), Past(o), "OK", d, x, l, p)
    BY WriteRawBlockIs
  <2> QED
    BY <1>1, <2>1, <2>2 DEF g
<1>3. u \in FileUnits
  <2>1. \A ks, vs : BuilderHolds(TB!EmptyBuilder, 0, ks, vs)
    BY EmptyHolds
  <2>2. BuilderHolds(TB!EmptyBuilder, 0, ss, hs)
    BY <2>1
  <2> QED
    BY <2>2, BuilderContents
<1> HIDE DEF u
<1>4. f \in Seq(FileUnits) /\ Blocks(f, ad, k, c, hs) /\ AddedOK(ad) /\ o = Len(f)
  BY DEF WellBuilt, RestHolds
<1>5. /\ Then(f, u) \in Seq(FileUnits) /\ g \in Seq(FileUnits) /\ Extends(f, g)
      /\ Len(f) \in Nat /\ Len(g) = Len(f) + 2
  BY <1>3, <1>4, FileExtends
<1> HIDE DEF g
<1>6. Blocks(g, ad, k, c, hs)
  <2>1. Extends(ad, ad)
    BY <1>4, ExtendsItself, AddedIs
  <2> QED
    BY <1>4, <1>5, <2>1, BlocksStay
<1>7. RestHolds(g, Past(o), "OK", d, ad, k, c)
  <2>1. Past(o) = Len(g)
    BY <1>4, <1>5 DEF Past
  <2> QED
    BY <2>1 DEF WellBuilt, RestHolds
<1>8. WellBuilt(g, Past(o), "OK", d, x, l, p, ad, k, m, c, hs, ss)
  BY <1>5, <1>6, <1>7 DEF WellBuilt
<1>9. CASE w = Rec(f, o, Error, d, x, l, p)
  <2>1. Failed(Rec(f, o, Error, d, x, l, p))
    BY <1>4, FailedIs
  <2> HIDE DEF w
  <2>2. Failed(w)
    BY <1>9, <2>1
  <2> QED
    BY <2>2 DEF w
<1>10. CASE w = Rec(Then(f, u), o, Error, d, x, l, p)
  <2>1. Failed(Rec(Then(f, u), o, Error, d, x, l, p))
    BY <1>5, FailedIs
  <2> HIDE DEF w
  <2>2. Failed(w)
    BY <1>10, <2>1
  <2> QED
    BY <2>2 DEF w
<1>11. CASE w = Rec(g, Past(o), "OK", d, x, l, p)
  <2> HIDE DEF w
  <2>1. \E h : /\ w = Rec(h, Past(o), "OK", d, x, l, p)
               /\ WellBuilt(h, Past(o), "OK", d, x, l, p, ad, k, m, c, hs, ss)
    BY <1>8, <1>11
  <2> QED
    BY <2>1 DEF w
<1> QED
  BY <1>2, <1>9, <1>10, <1>11

(* The index, with its last entry.                                         *)
HoldsAllKeys(y, ad, k, c, hs, ts) ==
  BuilderHolds(y, k, ts, hs) /\ Separates(ad, k, c, ts)

(* The last block gets its index entry (table_builder.cc:222-227). *)
LEMMA LastIndexEntry ==
  ASSUME NEW f, NEW o, NEW d, NEW x, NEW l, NEW p, NEW ad, NEW k, NEW m, NEW c, NEW hs, NEW ss,
         WellBuilt(f, o, "OK", d, x, l, p, ad, k, m, c, hs, ss), d.entries = <<>>
  PROVE  /\ p = TB!NoHandle => HoldsAllKeys(x, ad, k, c, hs, ss)
         /\ p # TB!NoHandle =>
              HoldsAllKeys(TB!BlockAdd(x, TB!FindShortSuccessor(l), p, 2, 1), ad, k, c, hs,
                            With(ss, k, TB!FindShortSuccessor(l)))
<1> DEFINE q == TB!FindShortSuccessor(l)
           y == TB!BlockAdd(x, q, p, 2, 1)
           ts == With(ss, k, q)
<1>1. /\ Blocks(f, ad, k, c, hs) /\ AddedOK(ad) /\ m \in 0 .. k
      /\ BuilderHolds(x, m, ss, hs) /\ Separates(ad, m, c, ss)
      /\ Awaits("OK", d, p, ad, k, m, c, hs) /\ LastIsKey(l, ad)
  BY DEF WellBuilt, IndexHolds
<1>2. c[k] = Len(ad) /\ k \in Nat /\ Len(ad) \in Nat
  BY NothingLeft
<1>3. CASE p = TB!NoHandle
  <2>1. m = k
    BY <1>1, <1>3 DEF Awaits
  <2> QED
    BY <1>1, <1>3, <2>1 DEF HoldsAllKeys
<1>4. CASE p # TB!NoHandle
  <2>1. k = m + 1 /\ p = hs[k] /\ m \in Nat /\ k \in 1 .. k
    BY <1>1, <1>2, <1>4 DEF Awaits
  <2>2. PICK j \in 1 .. Len(ad) : j = Len(ad) /\ j = c[k]
    BY <1>1, <1>2, <2>1, CutIs
  <2>3. l = ad[j].key /\ l \in Words
    <3>1. Len(ad) > 0
      BY <2>2
    <3>2. l = ad[j].key
      BY <1>1, <2>2, <3>1 DEF LastIsKey
    <3>3. ad[j].key \in Words
      BY <1>1, AddedIs
    <3> QED
      BY <3>2, <3>3
  <2>4. q \in Words /\ ~TB!Before(q, l)
    BY <2>3, SuccessorIs
  <2> HIDE DEF q
  <2>5. ts[k] = q /\ \A i \in Nat : i # k => ts[i] = ss[i]
    BY <1>2, WithAt
  <2> HIDE DEF y, ts
  <2>6. BuilderHolds(y, k, ts, hs)
    <3>1. \A i \in 1 .. m : i \in Nat /\ i # k
      BY <2>1
    <3>2. BuilderHolds(x, m, ts, hs)
      <4>1. \A i \in 1 .. m : ss[i] = ts[i] /\ hs[i] = hs[i]
        BY <2>5, <3>1
      <4> QED
        BY <1>1, <2>1, <4>1, HoldsTheSame
    <3>3. hs[k] \in Nat
      BY <1>1, <2>1, CutIs
    <3>4. ts[m + 1] = q /\ hs[m + 1] = p /\ ts[m + 1] \in Words /\ hs[m + 1] \in Nat /\ 1 \in Nat \ {0}
      BY <2>1, <2>4, <2>5, <3>3
    <3>5. BuilderHolds(TB!BlockAdd(x, ts[m + 1], hs[m + 1], 2, 1), m + 1, ts, hs)
      BY <3>2, <3>4, BlockAddHolds
    <3> QED
      BY <2>1, <3>4, <3>5 DEF y
  <2>7. Separates(ad, k, c, ts)
    <3>1. ASSUME NEW i \in 1 .. k
          PROVE  /\ ts[i] \in Words /\ ~TB!Before(ts[i], ad[c[i]].key)
                 /\ c[i] < Len(ad) => TB!Before(ts[i], ad[c[i] + 1].key)
      <4>1. CASE i = k
        <5>1. ts[i] = q /\ ad[c[i]].key = l /\ ~(c[i] < Len(ad))
          BY <1>2, <2>2, <2>3, <2>5, <4>1
        <5> QED
          BY <2>4, <5>1
      <4>2. CASE i # k
        <5>1. i \in 1 .. m /\ ts[i] = ss[i]
          BY <2>1, <2>5, <4>2
        <5> QED
          BY <1>1, <5>1 DEF Separates
      <4> QED
        BY <4>1, <4>2
    <3> QED
      BY <3>1 DEF Separates
  <2>8. HoldsAllKeys(y, ad, k, c, hs, ts)
    BY <2>6, <2>7 DEF HoldsAllKeys
  <2> QED
    BY <1>4, <2>8 DEF y, ts, q
<1> QED
  BY <1>3, <1>4

(* A builder with an empty index block. *)
WithBlank(r) == [r EXCEPT !.index = TB!EmptyBuilder]

(* What it is. *)
LEMMA BlankIs ==
  ASSUME NEW f, NEW o, NEW s, NEW d, NEW x, NEW l, NEW p
  PROVE  WithBlank(Rec(f, o, s, d, x, l, p)) = Rec(f, o, s, d, TB!EmptyBuilder, l, p)
BY DEF WithBlank, Rec

(* The index block is written where the metaindex block ends.              *)
LEMMA WriteIndexIs ==
  ASSUME NEW f, NEW o, NEW d, NEW x, NEW l, NEW p, NEW ad, NEW k, NEW m, NEW c, NEW hs, NEW ss,
         WellBuilt(f, o, "OK", d, x, l, p, ad, k, m, c, hs, ss), d.entries = <<>>,
         NEW b \in BOOLEAN, NEW t \in BOOLEAN
  PROVE  LET w == TB!WriteIndex(Rec(f, o, "OK", d, x, l, p), b, t)
         IN \/ Failed(w)
            \/ \E y, ts, h : /\ HoldsAllKeys(y, ad, k, c, hs, ts)
                             /\ w = Rec(Written(f, Fl(y)), Past(o), "OK", d, TB!EmptyBuilder,
                                        h, TB!NoHandle)
<1> DEFINE r == Rec(f, o, "OK", d, x, l, p)
           w == TB!WriteIndex(r, b, t)
           q == TB!FindShortSuccessor(l)
           i == IF p = TB!NoHandle THEN r ELSE TB!AddIndexEntry(r, q)
<1>1. r.status = "OK" /\ r.pending = p /\ r.lastKey = l
  BY RecIs
<1>2. w = [TB!WriteRawBlock(i, TB!Finished(i.index), b, t) EXCEPT !.index = TB!EmptyBuilder]
  <2> HIDE DEF r
  <2> QED
    BY <1>1 DEF TB!WriteIndex
<1>3. PICK y, ts : /\ HoldsAllKeys(y, ad, k, c, hs, ts)
                   /\ \E h : i = Rec(f, o, "OK", d, y, h, TB!NoHandle)
  <2>1. CASE p = TB!NoHandle
    <3>1. HoldsAllKeys(x, ad, k, c, hs, ss)
      BY <2>1, LastIndexEntry
    <3>2. i = Rec(f, o, "OK", d, x, l, TB!NoHandle)
      BY <2>1
    <3> HIDE DEF i
    <3> QED
      BY <3>1, <3>2
  <2>2. CASE p # TB!NoHandle
    <3>1. HoldsAllKeys(TB!BlockAdd(x, q, p, 2, 1), ad, k, c, hs, With(ss, k, q))
      BY <2>2, LastIndexEntry
    <3>2. i = TB!AddIndexEntry(r, q)
      BY <2>2
    <3>3. TB!AddIndexEntry(r, q) = Rec(f, o, "OK", d, TB!BlockAdd(x, q, p, 2, 1), q, TB!NoHandle)
      <4> HIDE DEF q
      <4> QED
        BY AddIndexEntryIs
    <3>4. i = Rec(f, o, "OK", d, TB!BlockAdd(x, q, p, 2, 1), q, TB!NoHandle)
      BY <3>2, <3>3
    <3> HIDE DEF i, q
    <3> QED
      BY <3>1, <3>4
  <2> QED
    BY <2>1, <2>2
<1>4. PICK h : i = Rec(f, o, "OK", d, y, h, TB!NoHandle)
  BY <1>3
<1> DEFINE a == TB!WriteRawBlock(i, TB!Finished(i.index), b, t)
<1>5. w = WithBlank(a)
  BY <1>2 DEF WithBlank
<1>6. \/ a = Rec(f, o, Error, d, y, h, TB!NoHandle)
      \/ a = Rec(Then(f, Fl(y)), o, Error, d, y, h, TB!NoHandle)
      \/ a = Rec(Written(f, Fl(y)), Past(o), "OK", d, y, h, TB!NoHandle)
  <2>1. PICK cts : cts = TB!Finished(y)
    OBVIOUS
  <2>2. LET v == TB!WriteRawBlock(Rec(f, o, "OK", d, y, h, TB!NoHandle), cts, b, t)
        IN \/ v = Rec(f, o, Error, d, y, h, TB!NoHandle)
           \/ v = Rec(Then(f, TB!Body(cts)), o, Error, d, y, h, TB!NoHandle)
           \/ v = Rec(Written(f, TB!Body(cts)), Past(o), "OK", d, y, h, TB!NoHandle)
    BY WriteRawBlockIs
  <2> HIDE DEF i
  <2>3. i.index = y
    BY <1>4, RecIs
  <2>4. a = TB!WriteRawBlock(Rec(f, o, "OK", d, y, h, TB!NoHandle), cts, b, t)
    BY <1>4, <2>1, <2>3
  <2> HIDE DEF a
  <2> QED
    BY <2>1, <2>2, <2>4 DEF Fl
<1>7. Fl(y) \in FileUnits /\ f \in Seq(FileUnits)
  <2>1. BuilderHolds(y, k, ts, hs)
    BY <1>3 DEF HoldsAllKeys
  <2> QED
    BY <2>1, BuilderContents DEF Fl, WellBuilt
<1>8. Then(f, Fl(y)) \in Seq(FileUnits)
  BY <1>7, FileExtends
<1> HIDE DEF a, w, i, r
<1>9. CASE a = Rec(f, o, Error, d, y, h, TB!NoHandle)
  <2>1. w = Rec(f, o, Error, d, TB!EmptyBuilder, h, TB!NoHandle)
    BY <1>5, <1>9, BlankIs
  <2>2. Failed(w)
    BY <1>7, <2>1, FailedIs
  <2> QED
    BY <2>2 DEF w, r
<1>10. CASE a = Rec(Then(f, Fl(y)), o, Error, d, y, h, TB!NoHandle)
  <2>1. w = Rec(Then(f, Fl(y)), o, Error, d, TB!EmptyBuilder, h, TB!NoHandle)
    BY <1>5, <1>10, BlankIs
  <2>2. Failed(w)
    BY <1>8, <2>1, FailedIs
  <2> QED
    BY <2>2 DEF w, r
<1>11. CASE a = Rec(Written(f, Fl(y)), Past(o), "OK", d, y, h, TB!NoHandle)
  <2>1. w = Rec(Written(f, Fl(y)), Past(o), "OK", d, TB!EmptyBuilder, h, TB!NoHandle)
    BY <1>5, <1>11, BlankIs
  <2> QED
    BY <1>3, <2>1 DEF w, r
<1> QED
  BY <1>6, <1>9, <1>10, <1>11

(* The footer makes the table complete.                                    *)
LEMMA FooterCompletes ==
  ASSUME NEW f, NEW o, NEW d, NEW x, NEW l, NEW p, NEW ad, NEW k, NEW m, NEW c, NEW hs, NEW ss,
         WellBuilt(f, o, "OK", d, x, l, p, ad, k, m, c, hs, ss), d.entries = <<>>,
         NEW y, NEW ts, HoldsAllKeys(y, ad, k, c, hs, ts),
         NEW meta \in Nat, \A i \in 1 .. k : hs[i] <= meta
  PROVE  Completed(Append(Written(f, Fl(y)), TB!Footer(o, meta)), ad)
<1> DEFINE g == Written(f, Fl(y))
           u == TB!Footer(o, meta)
           h == Append(g, u)
<1>1. f \in Seq(FileUnits) /\ Blocks(f, ad, k, c, hs) /\ AddedOK(ad) /\ o = Len(f)
  BY DEF WellBuilt, RestHolds
<1>2. c[k] = Len(ad) /\ k \in Nat /\ Len(ad) \in Nat
  BY NothingLeft
<1>3. /\ Fl(y) \in FileUnits /\ Fl(y) = TB!Body(Contents(y.entries, y.restarts))
      /\ Encodes(y.entries, y.restarts, k, ts, hs) /\ Separates(ad, k, c, ts)
  <2>1. BuilderHolds(y, k, ts, hs) /\ Separates(ad, k, c, ts)
    BY DEF HoldsAllKeys
  <2> QED
    BY <2>1, BuilderContents DEF Fl
<1>4. /\ g \in Seq(FileUnits) /\ Extends(f, g)
      /\ Len(f) \in Nat /\ Len(g) = Len(f) + 2 /\ g[Len(f) + 1] = Fl(y)
  BY <1>1, <1>3, FileExtends
<1> HIDE DEF g, u
<1>5. g \in Seq(FileUnits \cup {u}) /\ u \in FileUnits \cup {u}
  BY <1>4
<1>6. Extends(g, h) /\ Len(h) = Len(g) + 1 /\ h[Len(g) + 1] = u
  BY <1>5, AppendExtends
<1> HIDE DEF h
<1>7. Blocks(h, ad, k, c, hs)
  <2>1. Extends(f, h) /\ Extends(ad, ad)
    BY <1>2, <1>4, <1>6, ExtendsTransitive, ExtendsItself
  <2> QED
    BY <1>1, <2>1, BlocksStay
<1>8. /\ Len(h) \in Nat /\ Len(h) > 0 /\ o \in Nat /\ o + 1 <= Len(h)
      /\ h[Len(h)] = TB!Footer(o, meta)
  BY <1>1, <1>4, <1>6 DEF u
<1>9. h[o + 1] = TB!Body(Contents(y.entries, y.restarts))
  <2>1. PICK i \in 1 .. Len(g) : i = o + 1
    BY <1>1, <1>4
  <2>2. h[i] = g[i]
    BY <1>6 DEF Extends
  <2> QED
    BY <1>1, <1>3, <1>4, <2>1, <2>2
<1>10. \E at, mi \in Nat : /\ Len(h) \in Nat /\ Len(h) > 0 /\ at + 1 <= Len(h)
                           /\ h[Len(h)] = TB!Footer(at, mi)
                           /\ h[at + 1] = TB!Body(Contents(y.entries, y.restarts))
                           /\ \A i \in 1 .. k : hs[i] <= mi
  BY <1>8, <1>9
<1>11. Complete(h, ad, k, c, hs, ts, y.entries, y.restarts)
  BY <1>1, <1>2, <1>3, <1>7, <1>10 DEF Complete
<1>12. Completed(h, ad)
  BY <1>11 DEF Completed
<1> QED
  BY <1>12 DEF h, g, u

(* After an error the steps of Finish do nothing                           *)
(* (table_builder.cc:215-234).                                             *)
LEMMA FailedStays ==
  ASSUME NEW r, Failed(r), NEW b \in BOOLEAN, NEW t \in BOOLEAN
  PROVE  /\ TB!WriteMetaindex(r, b, t) = r /\ TB!WriteIndex(r, b, t) = r
         /\ \A at, meta : TB!WriteFooter(r, meta, at, t) = r
BY DEF Failed, TB!WriteMetaindex, TB!WriteIndex, TB!WriteFooter

(* A builder that is well built, whatever its fields are.                  *)
BuiltRec(r, ad) ==
  \E f, o, s, d, x, l, p, k, m, c, hs, ss :
    /\ r = Rec(f, o, s, d, x, l, p)
    /\ WellBuilt(f, o, s, d, x, l, p, ad, k, m, c, hs, ss)

(* A builder whose entries are all in the file. *)
Flushed(r, ad) ==
  \E f, o, d, x, l, p, k, m, c, hs, ss :
    /\ r = Rec(f, o, "OK", d, x, l, p) /\ d.entries = <<>>
    /\ WellBuilt(f, o, "OK", d, x, l, p, ad, k, m, c, hs, ss)

(* Flush leaves a builder well built, and flushed unless an Append failed. *)
LEMMA DoFlushHolds ==
  ASSUME NEW r, NEW ad, BuiltRec(r, ad), NEW b \in BOOLEAN, NEW t \in BOOLEAN
  PROVE  /\ BuiltRec(TB!DoFlush(r, b, t), ad)
         /\ Failed(TB!DoFlush(r, b, t)) \/ Flushed(TB!DoFlush(r, b, t), ad)
<1>1. PICK f, o, s, d, x, l, p, k, m, c, hs, ss :
        /\ r = Rec(f, o, s, d, x, l, p)
        /\ WellBuilt(f, o, s, d, x, l, p, ad, k, m, c, hs, ss)
  BY DEF BuiltRec
<1> DEFINE w == TB!DoFlush(r, b, t)
           z == TB!EmptyBuilder
<1>2. /\ s # "OK" \/ d.entries = <<>> => w = Rec(f, o, s, d, x, l, p)
      /\ s = "OK" /\ d.entries # <<>> =>
           \/ w = Rec(f, o, Error, z, x, l, p)
           \/ w = Rec(Then(f, Fl(d)), o, Error, z, x, l, p)
           \/ w = Rec(Written(f, Fl(d)), Past(o), "OK", z, x, l, o)
  <2>1. w = TB!DoFlush(Rec(f, o, s, d, x, l, p), b, t)
    BY <1>1
  <2>2. LET v == TB!DoFlush(Rec(f, o, s, d, x, l, p), b, t)
        IN /\ s # "OK" \/ d.entries = <<>> => v = Rec(f, o, s, d, x, l, p)
           /\ s = "OK" /\ d.entries # <<>> =>
                \/ v = Rec(f, o, Error, TB!EmptyBuilder, x, l, p)
                \/ v = Rec(Then(f, Fl(d)), o, Error, TB!EmptyBuilder, x, l, p)
                \/ v = Rec(Written(f, Fl(d)), Past(o), "OK", TB!EmptyBuilder, x, l, o)
    BY DoFlushIs
  <2> HIDE DEF w
  <2> QED
    BY <2>1, <2>2
<1> HIDE DEF w
<1>3. f \in Seq(FileUnits)
  BY <1>1 DEF WellBuilt
<1>4. CASE s # "OK" \/ d.entries = <<>>
  <2>1. w = Rec(f, o, s, d, x, l, p)
    BY <1>2, <1>4
  <2>2. BuiltRec(w, ad)
    BY <1>1, <2>1 DEF BuiltRec
  <2>3. s # "OK" => Failed(w)
    BY <1>3, <2>1, RecIs DEF Failed
  <2>4. s = "OK" => Flushed(w, ad)
    <3> SUFFICES ASSUME s = "OK" PROVE Flushed(w, ad)
      OBVIOUS
    <3>1. /\ w = Rec(f, o, "OK", d, x, l, p) /\ d.entries = <<>>
          /\ WellBuilt(f, o, "OK", d, x, l, p, ad, k, m, c, hs, ss)
      BY <1>1, <1>4, <2>1
    <3> QED
      BY <3>1 DEF Flushed
  <2> QED
    BY <2>2, <2>3, <2>4 DEF w
<1>5. CASE s = "OK" /\ d.entries # <<>>
  <2>1. WellBuilt(f, o, "OK", d, x, l, p, ad, k, m, c, hs, ss)
    BY <1>1, <1>5
  <2>2. /\ WellBuilt(f, o, Error, z, x, l, p, ad, k, m, c, hs, ss)
        /\ WellBuilt(Then(f, Fl(d)), o, Error, z, x, l, p, ad, k, m, c, hs, ss)
    BY <1>5, <2>1, FailedFlushIs
  <2>3. WellBuilt(Written(f, Fl(d)), Past(o), "OK", z, x, l, o, ad, k + 1, m,
                  With(c, k + 1, Len(ad)), With(hs, k + 1, o), ss)
    BY <1>5, <2>1, FlushIs
  <2>4. z.entries = <<>>
    BY EmptyHolds
  <2> HIDE DEF z
  <2>5. CASE w = Rec(f, o, Error, z, x, l, p)
    <3>1. BuiltRec(w, ad)
      BY <2>2, <2>5 DEF BuiltRec
    <3>2. Failed(w)
      BY <1>3, <2>5, FailedIs
    <3> QED
      BY <3>1, <3>2 DEF w
  <2>6. CASE w = Rec(Then(f, Fl(d)), o, Error, z, x, l, p)
    <3>1. BuiltRec(w, ad)
      BY <2>2, <2>6 DEF BuiltRec
    <3>2. Then(f, Fl(d)) \in Seq(FileUnits)
      BY <2>2 DEF WellBuilt
    <3>3. Failed(w)
      BY <2>6, <3>2, FailedIs
    <3> QED
      BY <3>1, <3>3 DEF w
  <2>7. CASE w = Rec(Written(f, Fl(d)), Past(o), "OK", z, x, l, o)
    <3>1. BuiltRec(w, ad)
      BY <2>3, <2>7 DEF BuiltRec
    <3>2. Flushed(w, ad)
      BY <2>3, <2>4, <2>7 DEF Flushed
    <3> QED
      BY <3>1, <3>2 DEF w
  <2> QED
    BY <1>2, <1>5, <2>5, <2>6, <2>7
<1> QED
  BY <1>4, <1>5

(* The end of Add leaves it well built, with one entry more. *)
LEMMA PutHolds ==
  ASSUME NEW r, NEW ad, BuiltRec(r, ad), NEW e \in EntryRecords,
         Len(ad) > 0 => TB!Before(ad[Len(ad)].key, e.key)
  PROVE  BuiltRec(TB!PutEntry(r, e.key, e.size), Append(ad, e))
<1>1. PICK f, o, s, d, x, l, p, k, m, c, hs, ss :
        /\ r = Rec(f, o, s, d, x, l, p)
        /\ WellBuilt(f, o, s, d, x, l, p, ad, k, m, c, hs, ss)
  BY DEF BuiltRec
<1> DEFINE w == TB!PutEntry(r, e.key, e.size)
           b == TB!BlockAdd(d, e.key, e.size, e.size, RestartInterval)
           q == TB!FindShortestSeparator(l, e.key)
           y == TB!BlockAdd(x, q, p, 2, 1)
           be == Append(ad, e)
<1>2. PICK key : key = e.key
  OBVIOUS
<1>3. PICK size : size = e.size
  OBVIOUS
<1>4. LET v == TB!PutEntry(Rec(f, o, s, d, x, l, p), key, size)
          ee == TB!BlockAdd(d, key, size, size, RestartInterval)
          yy == TB!BlockAdd(x, TB!FindShortestSeparator(l, key), p, 2, 1)
      IN /\ p = TB!NoHandle => v = Rec(f, o, s, ee, x, key, TB!NoHandle)
         /\ p # TB!NoHandle => v = Rec(f, o, s, ee, yy, key, TB!NoHandle)
  BY PutEntryIs
<1>5. /\ p = TB!NoHandle => w = Rec(f, o, s, b, x, e.key, TB!NoHandle)
      /\ p # TB!NoHandle => w = Rec(f, o, s, b, y, e.key, TB!NoHandle)
  <2>1. w = TB!PutEntry(Rec(f, o, s, d, x, l, p), key, size)
    BY <1>1, <1>2, <1>3
  <2>2. b = TB!BlockAdd(d, key, size, size, RestartInterval)
    BY <1>2, <1>3
  <2>3. y = TB!BlockAdd(x, TB!FindShortestSeparator(l, key), p, 2, 1)
    BY <1>2
  <2> HIDE DEF w, b, y, q
  <2> QED
    BY <1>2, <1>4, <2>1, <2>2, <2>3
<1>6. /\ p = TB!NoHandle =>
           WellBuilt(f, o, s, b, x, e.key, TB!NoHandle, be, k, m, c, hs, ss)
      /\ p # TB!NoHandle =>
           WellBuilt(f, o, s, b, y, e.key, TB!NoHandle, be, k, k, c, hs, With(ss, k, q))
  <2>1. LET bb == TB!BlockAdd(d, e.key, e.size, e.size, RestartInterval)
            qq == TB!FindShortestSeparator(l, e.key)
            bbe == Append(ad, e)
        IN /\ p = TB!NoHandle =>
                WellBuilt(f, o, s, bb, x, e.key, TB!NoHandle, bbe, k, m, c, hs, ss)
           /\ p # TB!NoHandle =>
                WellBuilt(f, o, s, bb, TB!BlockAdd(x, qq, p, 2, 1), e.key, TB!NoHandle,
                          bbe, k, k, c, hs, With(ss, k, qq))
    BY <1>1, PutEntryHolds
  <2> QED
    BY <2>1
<1> HIDE DEF w, b, y, q, be
<1>7. CASE p = TB!NoHandle
  <2>1. /\ w = Rec(f, o, s, b, x, e.key, TB!NoHandle)
        /\ WellBuilt(f, o, s, b, x, e.key, TB!NoHandle, be, k, m, c, hs, ss)
    BY <1>5, <1>6, <1>7
  <2>2. BuiltRec(w, be)
    BY <2>1 DEF BuiltRec
  <2> QED
    BY <2>2 DEF w, be
<1>8. CASE p # TB!NoHandle
  <2>1. /\ w = Rec(f, o, s, b, y, e.key, TB!NoHandle)
        /\ WellBuilt(f, o, s, b, y, e.key, TB!NoHandle, be, k, k, c, hs, With(ss, k, q))
    BY <1>5, <1>6, <1>8
  <2>2. BuiltRec(w, be)
    BY <2>1 DEF BuiltRec
  <2> QED
    BY <2>2 DEF w, be
<1> QED
  BY <1>7, <1>8

(* The steps of Finish.                                                    *)
LEMMA FinishIs ==
  ASSUME NEW r, NEW ad, Failed(r) \/ Flushed(r, ad),
         NEW b3 \in BOOLEAN, NEW b4 \in BOOLEAN, NEW b5 \in BOOLEAN, NEW b6 \in BOOLEAN,
         NEW b7 \in BOOLEAN
  PROVE  LET meta == TB!WriteMetaindex(r, b3, b4)
             w == TB!WriteFooter(TB!WriteIndex(meta, b5, b6), r.offset, meta.offset, b7)
         IN w.file \in Seq(FileUnits) \/ Completed(w.file, ad)
<1> DEFINE meta == TB!WriteMetaindex(r, b3, b4)
           ix == TB!WriteIndex(meta, b5, b6)
           w == TB!WriteFooter(ix, r.offset, meta.offset, b7)
<1>1. ASSUME Failed(ix) PROVE w.file \in Seq(FileUnits)
  <2> HIDE DEF ix, meta
  <2>1. PICK at : at = meta.offset
    OBVIOUS
  <2>2. PICK mi : mi = r.offset
    OBVIOUS
  <2>3. TB!WriteFooter(ix, mi, at, b7) = ix
    BY <1>1, FailedStays
  <2>4. w = ix
    BY <2>1, <2>2, <2>3
  <2> HIDE DEF w
  <2> QED
    BY <1>1, <2>4 DEF Failed
<1>2. ASSUME Failed(meta) PROVE Failed(ix)
  <2> HIDE DEF meta
  <2>1. ix = meta
    BY <1>2, FailedStays
  <2> HIDE DEF ix
  <2> QED
    BY <1>2, <2>1
<1>3. ASSUME Failed(r) PROVE Failed(meta)
  <2>1. meta = r
    BY <1>3, FailedStays
  <2> HIDE DEF meta
  <2> QED
    BY <1>3, <2>1
<1>4. CASE Flushed(r, ad)
  <2>1. PICK f, o, d, x, l, p, k, m, c, hs, ss :
          /\ r = Rec(f, o, "OK", d, x, l, p) /\ d.entries = <<>>
          /\ WellBuilt(f, o, "OK", d, x, l, p, ad, k, m, c, hs, ss)
    BY <1>4 DEF Flushed
  <2>2. LET v == TB!WriteMetaindex(Rec(f, o, "OK", d, x, l, p), b3, b4)
        IN \/ Failed(v)
           \/ \E g : /\ v = Rec(g, Past(o), "OK", d, x, l, p)
                     /\ WellBuilt(g, Past(o), "OK", d, x, l, p, ad, k, m, c, hs, ss)
    BY <2>1, MetaindexIs
  <2>3. \/ Failed(meta)
        \/ \E g : /\ meta = Rec(g, Past(o), "OK", d, x, l, p)
                  /\ WellBuilt(g, Past(o), "OK", d, x, l, p, ad, k, m, c, hs, ss)
    <3>1. meta = TB!WriteMetaindex(Rec(f, o, "OK", d, x, l, p), b3, b4)
      BY <2>1
    <3> HIDE DEF meta
    <3> QED
      BY <2>2, <3>1
  <2>4. CASE ~Failed(meta) /\ ~Failed(ix)
    <3>1. PICK g : /\ meta = Rec(g, Past(o), "OK", d, x, l, p)
                   /\ WellBuilt(g, Past(o), "OK", d, x, l, p, ad, k, m, c, hs, ss)
      <4> HIDE DEF meta, ix
      <4> QED
        BY <2>3, <2>4
    <3>2. PICK n : n = Past(o)
      OBVIOUS
    <3>3. WellBuilt(g, n, "OK", d, x, l, p, ad, k, m, c, hs, ss)
      BY <3>1, <3>2
    <3>4. LET v == TB!WriteIndex(Rec(g, n, "OK", d, x, l, p), b5, b6)
          IN \/ Failed(v)
             \/ \E y, ts, h : /\ HoldsAllKeys(y, ad, k, c, hs, ts)
                              /\ v = Rec(Written(g, Fl(y)), Past(n), "OK", d, TB!EmptyBuilder,
                                         h, TB!NoHandle)
      BY <2>1, <3>3, WriteIndexIs
    <3>5. \E y, ts, h : /\ HoldsAllKeys(y, ad, k, c, hs, ts)
                        /\ ix = Rec(Written(g, Fl(y)), Past(n), "OK", d, TB!EmptyBuilder,
                                    h, TB!NoHandle)
      <4> HIDE DEF meta
      <4>1. ix = TB!WriteIndex(Rec(g, n, "OK", d, x, l, p), b5, b6)
        BY <3>1, <3>2
      <4> HIDE DEF ix
      <4> QED
        BY <2>4, <3>4, <4>1
    <3>6. PICK y, ts, h : /\ HoldsAllKeys(y, ad, k, c, hs, ts)
                          /\ ix = Rec(Written(g, Fl(y)), Past(n), "OK", d, TB!EmptyBuilder,
                                      h, TB!NoHandle)
      BY <3>5
    <3> HIDE DEF ix, meta
    <3>7. r.offset = o /\ meta.offset = n
      BY <2>1, <3>1, <3>2, RecIs
    <3>8. o \in Nat /\ \A i \in 1 .. k : hs[i] <= o
      <4>1. /\ f \in Seq(FileUnits) /\ o = Len(f)
            /\ \A i \in 1 .. k : hs[i] \in Nat /\ hs[i] + 1 <= Len(f)
        BY <2>1 DEF WellBuilt, Blocks, RestHolds
      <4>2. Len(f) \in Nat
        BY <4>1
      <4> QED
        BY <4>1, <4>2
    <3> DEFINE u == TB!Footer(n, o)
               fl == Written(g, Fl(y))
               a == TB!FileAppend(ix, u, b7)
    <3>9. ix.status = "OK"
      BY <3>6, RecIs
    <3>10. w = IF a.status = "OK" THEN [a EXCEPT !.offset = @ + 1] ELSE a
      BY <3>7, <3>9 DEF TB!WriteFooter
    <3>11. /\ b7 => a = Rec(Then(fl, u), Past(n), "OK", d, TB!EmptyBuilder, h, TB!NoHandle)
           /\ ~b7 => a = Rec(fl, Past(n), Error, d, TB!EmptyBuilder, h, TB!NoHandle)
      <4> HIDE DEF fl, u
      <4>1. a = TB!FileAppend(Rec(fl, Past(n), "OK", d, TB!EmptyBuilder, h, TB!NoHandle), u, b7)
        BY <3>6 DEF fl
      <4> HIDE DEF a
      <4> QED
        BY <4>1, FileAppendIs DEF Error
    <3> HIDE DEF a, w
    <3>12. CASE ~b7
      <4>1. a.status # "OK" /\ a.file = fl
        <5> HIDE DEF fl
        <5> QED
          BY <3>11, <3>12, RecIs, ErrorIs
      <4>2. w.file = fl
        BY <3>10, <4>1
      <4>3. fl \in Seq(FileUnits)
        <5>1. BuilderHolds(y, k, ts, hs)
          BY <3>6 DEF HoldsAllKeys
        <5>2. Fl(y) \in FileUnits
          BY <5>1, BuilderContents DEF Fl
        <5>3. g \in Seq(FileUnits)
          BY <3>3 DEF WellBuilt
        <5> QED
          BY <5>2, <5>3, FileExtends
      <4> HIDE DEF fl
      <4> QED
        BY <4>2, <4>3 DEF w, ix, meta
    <3>13. CASE b7
      <4> HIDE DEF fl, u
      <4>0. a = Rec(Then(fl, u), Past(n), "OK", d, TB!EmptyBuilder, h, TB!NoHandle)
        BY <3>11, <3>13
      <4>1. a.status = "OK" /\ a.file = Then(fl, u)
        BY <4>0, RecIs
      <4>2. w.file = Then(fl, u)
        <5>1. [a EXCEPT !.offset = @ + 1].file = Then(fl, u)
          BY <4>0 DEF Rec
        <5> QED
          BY <3>10, <4>1, <5>1
      <4>3. Completed(Append(Written(g, Fl(y)), TB!Footer(n, o)), ad)
        BY <2>1, <3>3, <3>6, <3>8, FooterCompletes
      <4>4. Completed(w.file, ad)
        BY <4>2, <4>3 DEF Then, fl, u
      <4> QED
        BY <4>4 DEF w, ix, meta
    <3> QED
      BY <3>12, <3>13
  <2>5. CASE Failed(meta) \/ Failed(ix)
    <3>1. w.file \in Seq(FileUnits)
      <4> HIDE DEF w, ix, meta
      <4> QED
        BY <1>1, <1>2, <2>5
    <3> QED
      BY <3>1
  <2> QED
    BY <2>4, <2>5
<1>5. CASE Failed(r)
  <2>1. w.file \in Seq(FileUnits)
    <3> HIDE DEF w, ix, meta
    <3> QED
      BY <1>1, <1>2, <1>3, <1>5
  <2> QED
    BY <2>1
<1> QED
  BY <1>4, <1>5

(* The builder is well built. *)
Built == BuiltRec(Rec(file_t, offset, status_t, dataBlock, indexBlock, lastKey, pending), added)

(* The table is complete, and the index iterator is in its index block.    *)
Searchable ==
  \E k, c, hs, ss, es, rs :
    /\ Complete(file_t, added, k, c, hs, ss, es, rs)
    /\ opened = "OK" => index \in Places(es, rs, k, ss)

(* The inductive invariant of Table. *)
TableInv ==
  /\ opened # "none" => closed
  /\ ~closed => Built
  /\ closed => (opened # "OK" /\ file_t \in Seq(FileUnits)) \/ Searchable

(* An empty builder is well built. *)
LEMMA TableInit ==
  ASSUME TB!Init
  PROVE  TableInv
<1>1. /\ file_t = <<>> /\ offset = 0 /\ status_t = "OK"
      /\ dataBlock = TB!EmptyBuilder /\ indexBlock = TB!EmptyBuilder
      /\ lastKey = <<>> /\ pending = TB!NoHandle /\ closed = FALSE /\ added = <<>>
      /\ opened = "none"
  BY DEF TB!Init, TB!BuilderInit
<1> DEFINE z == TB!EmptyBuilder
           c == [i \in Nat |-> 0]
<1>2. file_t \in Seq(FileUnits) /\ Len(file_t) = 0 /\ added \in Seq(EntryRecords) /\ Len(added) = 0
  BY <1>1
<1>3. AddedOK(added)
  BY <1>2 DEF AddedOK
<1>4. Blocks(file_t, added, 0, c, c)
  <2>1. c[0] = 0 /\ (\A i \in 0 .. 0 : c[i] \in Nat /\ c[i] <= Len(added))
    BY <1>2
  <2>2. \A i, j \in 0 .. 0 : ~(i < j)
    OBVIOUS
  <2>3. 1 .. 0 = {}
    OBVIOUS
  <2> HIDE DEF c
  <2> QED
    BY <2>1, <2>2, <2>3 DEF Blocks
<1>5. \A ks, vs : BuilderHolds(z, 0, ks, vs)
  BY EmptyHolds
<1>6. c[0] = 0
  OBVIOUS
<1> HIDE DEF z, c
<1>7. IndexHolds(z, added, 0, 0, c, c, c)
  <2>1. 1 .. 0 = {} /\ 0 \in 0 .. 0
    OBVIOUS
  <2>2. BuilderHolds(z, 0, c, c)
    BY <1>5
  <2> QED
    BY <2>1, <2>2 DEF IndexHolds, Separates
<1>8. Awaits("OK", z, TB!NoHandle, added, 0, 0, c, c)
  BY DEF Awaits
<1>9. RestHolds(file_t, 0, "OK", z, added, 0, c)
  <2>1. Len(added) - c[0] = 0
    BY <1>2, <1>6
  <2>2. BuilderHolds(z, 0, KeysFrom(added, c[0]), SizesFrom(added, c[0]))
    BY <1>5
  <2> QED
    BY <1>2, <2>1, <2>2 DEF RestHolds
<1>10. LastIsKey(lastKey, added)
  BY <1>2 DEF LastIsKey
<1>11. WellBuilt(file_t, 0, "OK", z, z, lastKey, TB!NoHandle, added, 0, 0, c, c, c)
  BY <1>2, <1>3, <1>4, <1>7, <1>8, <1>9, <1>10 DEF WellBuilt
<1>12. WellBuilt(file_t, offset, status_t, dataBlock, indexBlock, lastKey, pending, added,
                 0, 0, c, c, c)
  BY <1>1, <1>11 DEF z
<1>13. Built
  BY <1>12 DEF Built, BuiltRec
<1> QED
  BY <1>1, <1>13 DEF TableInv

(* What a closed builder and a reader leave alone.                         *)
Unread == file_t' = file_t /\ added' = added

(* The keys of the instance are keys. *)
LEMMA KeyIsWord ==
  ASSUME NEW key \in TableKeys
  PROVE  key \in Words
<1>1. key \in Seq(0 .. MaxByte) /\ MaxByte \in Nat
  BY TableHolds DEF TB!TableAssumption
<1>2. 0 .. MaxByte \subseteq Nat
  BY <1>1
<1> QED
  BY <1>1, <1>2 DEF Words

(* The builder's fields after a step. *)
BecomesRec(r) ==
  Rec(file_t', offset', status_t', dataBlock', indexBlock', lastKey', pending') = r

(* They are what the step makes of them. *)
LEMMA Becoming ==
  ASSUME NEW r, NEW ad, BuiltRec(r, ad), TB!Become(r)
  PROVE  BecomesRec(r)
<1>1. PICK f, o, s, d, x, l, p : r = Rec(f, o, s, d, x, l, p)
  BY DEF BuiltRec
<1>2. /\ file_t' = f /\ offset' = o /\ status_t' = s
      /\ dataBlock' = d /\ indexBlock' = x
      /\ lastKey' = l /\ pending' = p
  <2>1. TB!Become(Rec(f, o, s, d, x, l, p))
    BY <1>1
  <2> QED
    BY <2>1, BecomeIs
<1> QED
  BY <1>1, <1>2 DEF BecomesRec

(* Add keeps the invariant (table_builder.cc:103-135), *)
LEMMA Adds ==
  ASSUME TableInv, NEW key \in TableKeys, NEW size \in Sizes, TB!Add(key, size), opened' = opened
  PROVE  TableInv'
<1> DEFINE e == [key |-> key, size |-> size]
<1>1. ~closed /\ closed' = closed /\ added' = Append(added, e)
  BY DEF TB!Add
<1>2. Built
  BY <1>1 DEF TableInv
<1>3. PICK b1 \in BOOLEAN, b2 \in BOOLEAN, b3 \in BOOLEAN, b4 \in BOOLEAN :
        LET f == IF TB!OverlyLarge(key, size) THEN TB!DoFlush(TB!Builder, b1, b2) ELSE TB!Builder
            p == TB!PutEntry(f, key, size)
        IN TB!Become(IF TB!CurrentSizeEstimate(p.data) >= BlockSize
                     THEN TB!DoFlush(p, b3, b4) ELSE p)
  BY DEF TB!Add
<1> DEFINE r == Rec(file_t, offset, status_t, dataBlock, indexBlock, lastKey, pending)
           f == IF TB!OverlyLarge(key, size) THEN TB!DoFlush(TB!Builder, b1, b2) ELSE TB!Builder
           p == TB!PutEntry(f, key, size)
           w == IF TB!CurrentSizeEstimate(p.data) >= BlockSize THEN TB!DoFlush(p, b3, b4) ELSE p
<1>4. BuiltRec(r, added) /\ TB!Builder = r
  BY <1>2, BuilderIs DEF Built
<1>5. BuiltRec(f, added)
  <2>1. f = TB!Builder \/ f = TB!DoFlush(TB!Builder, b1, b2)
    OBVIOUS
  <2> HIDE DEF f, r
  <2>2. BuiltRec(TB!DoFlush(r, b1, b2), added)
    BY <1>4, DoFlushHolds
  <2> QED
    BY <1>4, <2>1, <2>2
<1>6. e \in EntryRecords /\ e.key = key /\ e.size = size
  <2>1. size \in Nat
    BY TableHolds DEF TB!TableAssumption
  <2> QED
    BY <2>1, KeyIsWord DEF EntryRecords
<1>7. Len(added) > 0 => TB!Before(added[Len(added)].key, e.key)
  <2>1. added # <<>> => TB!Before(added[Len(added)].key, key)
    BY DEF TB!Add
  <2>2. Len(added) > 0 => added # <<>>
    OBVIOUS
  <2> QED
    BY <2>1, <2>2
<1>8. BuiltRec(p, Append(added, e))
  <2>1. p = TB!PutEntry(f, e.key, e.size)
    BY <1>6
  <2> HIDE DEF p, f, e
  <2>2. BuiltRec(TB!PutEntry(f, e.key, e.size), Append(added, e))
    BY <1>5, <1>6, <1>7, PutHolds
  <2> QED
    BY <2>1, <2>2
<1>9. BuiltRec(w, Append(added, e)) /\ TB!Become(w)
  <2>0. TB!Become(w)
    BY <1>3
  <2>1. w = p \/ w = TB!DoFlush(p, b3, b4)
    OBVIOUS
  <2> HIDE DEF w, p, e
  <2>2. PICK be : be = Append(added, e)
    OBVIOUS
  <2>3. BuiltRec(TB!DoFlush(p, b3, b4), be)
    BY <1>8, <2>2, DoFlushHolds
  <2> QED
    BY <1>8, <2>0, <2>1, <2>2, <2>3
<1> HIDE DEF w, e
<1>10. BecomesRec(w)
  BY <1>9, Becoming
<1>11. Built'
  BY <1>1, <1>9, <1>10 DEF Built, BecomesRec
<1> QED
  BY <1>1, <1>11 DEF TableInv

(* Flush does (table_builder.cc:137-148), *)
LEMMA Flushes ==
  ASSUME TableInv, TB!Flush, opened' = opened
  PROVE  TableInv'
<1>1. ~closed /\ closed' = closed /\ added' = added
  BY DEF TB!Flush
<1>2. Built
  BY <1>1 DEF TableInv
<1>3. PICK b1 \in BOOLEAN, b2 \in BOOLEAN : TB!Become(TB!DoFlush(TB!Builder, b1, b2))
  BY DEF TB!Flush
<1> DEFINE r == Rec(file_t, offset, status_t, dataBlock, indexBlock, lastKey, pending)
           w == TB!DoFlush(r, b1, b2)
<1>4. BuiltRec(r, added) /\ TB!Builder = r
  BY <1>2, BuilderIs DEF Built
<1>5. BuiltRec(w, added) /\ TB!Become(w)
  <2> HIDE DEF r
  <2> QED
    BY <1>3, <1>4, DoFlushHolds
<1> HIDE DEF w
<1>6. BecomesRec(w)
  BY <1>5, Becoming
<1>7. Built'
  BY <1>1, <1>5, <1>6 DEF Built, BecomesRec
<1> QED
  BY <1>1, <1>7 DEF TableInv

(* A closed table that was not opened: its file has no footer or is whole. *)
LEMMA Closes ==
  ASSUME opened' = "none" \/ opened' # "OK", closed',
         file_t' \in Seq(FileUnits) \/ Completed(file_t', added')
  PROVE  TableInv'
<1>1. opened' # "OK"
  OBVIOUS
<1>2. CASE file_t' \in Seq(FileUnits)
  BY <1>1, <1>2 DEF TableInv
<1>3. CASE Completed(file_t', added')
  <2>1. PICK k, c, hs, ss, es, rs : Complete(file_t', added', k, c, hs, ss, es, rs)
    BY <1>3 DEF Completed
  <2>2. Searchable'
    BY <1>1, <2>1 DEF Searchable, Complete
  <2> QED
    BY <2>2 DEF TableInv
<1> QED
  BY <1>2, <1>3

(* Finish, with the outcomes of its seven Appends.                         *)
Finishing(b1, b2, b3, b4, b5, b6, b7) ==
  LET data_ == TB!DoFlush(TB!Builder, b1, b2)
      meta == TB!WriteMetaindex(data_, b3, b4)
      ix == TB!WriteIndex(meta, b5, b6)
  IN TB!Become(TB!WriteFooter(ix, data_.offset, meta.offset, b7))

(* Finish does, whichever Append fails (table_builder.cc:207-247), *)
LEMMA Finishes ==
  ASSUME TableInv, TB!Finish, opened' = opened
  PROVE  TableInv'
<1>1. ~closed /\ closed' /\ added' = added
  BY DEF TB!Finish
<1>2. Built /\ opened' = "none"
  BY <1>1 DEF TableInv
<1>3. PICK fails \in 0 .. 7 :
        Finishing(fails # 1, fails # 2, fails # 3, fails # 4, fails # 5, fails # 6,
                  fails # 7)
  BY DEF TB!Finish, Finishing
<1>10. PICK b1 \in BOOLEAN, b2 \in BOOLEAN, b3 \in BOOLEAN, b4 \in BOOLEAN, b5 \in BOOLEAN,
            b6 \in BOOLEAN, b7 \in BOOLEAN : Finishing(b1, b2, b3, b4, b5, b6, b7)
  BY <1>3
<1>4. LET data_ == TB!DoFlush(TB!Builder, b1, b2)
          meta == TB!WriteMetaindex(data_, b3, b4)
          ix == TB!WriteIndex(meta, b5, b6)
      IN TB!Become(TB!WriteFooter(ix, data_.offset, meta.offset, b7))
  BY <1>10 DEF Finishing
<1> DEFINE r == Rec(file_t, offset, status_t, dataBlock, indexBlock, lastKey, pending)
           q == TB!DoFlush(TB!Builder, b1, b2)
           meta == TB!WriteMetaindex(q, b3, b4)
           w == TB!WriteFooter(TB!WriteIndex(meta, b5, b6), q.offset, meta.offset, b7)
<1>5. BuiltRec(r, added) /\ TB!Builder = r
  BY <1>2, BuilderIs DEF Built
<1>6. Failed(q) \/ Flushed(q, added)
  <2>1. q = TB!DoFlush(r, b1, b2)
    BY <1>5
  <2> HIDE DEF r, q
  <2>2. Failed(TB!DoFlush(r, b1, b2)) \/ Flushed(TB!DoFlush(r, b1, b2), added)
    BY <1>5, DoFlushHolds
  <2> QED
    BY <2>1, <2>2
<1>7. w.file \in Seq(FileUnits) \/ Completed(w.file, added)
  <2> HIDE DEF q
  <2>1. LET mt == TB!WriteMetaindex(q, b3, b4)
            v == TB!WriteFooter(TB!WriteIndex(mt, b5, b6), q.offset, mt.offset, b7)
        IN v.file \in Seq(FileUnits) \/ Completed(v.file, added)
    BY <1>6, FinishIs
  <2> QED
    BY <2>1
<1>8. TB!Become(w)
  BY <1>4
<1> HIDE DEF w
<1>9. file_t' = w.file
  BY <1>8 DEF TB!Become
<1> QED
  BY <1>1, <1>2, <1>7, <1>9, Closes

(* A table that is not finished has no footer. *)
LEMMA BuiltFile ==
  ASSUME Built
  PROVE  file_t \in Seq(FileUnits)
<1>1. PICK f, o, s, d, x, l, p, k, m, c, hs, ss :
        /\ Rec(file_t, offset, status_t, dataBlock, indexBlock, lastKey, pending)
             = Rec(f, o, s, d, x, l, p)
        /\ WellBuilt(f, o, s, d, x, l, p, added, k, m, c, hs, ss)
  BY DEF Built, BuiltRec
<1>2. file_t = f
  BY <1>1, RecIs
<1> QED
  BY <1>1, <1>2 DEF WellBuilt

(* Abandon and a crash do (table_builder.cc:249-253). *)
LEMMA Ends ==
  ASSUME TableInv, TB!Abandon \/ TB!Crash, opened' = opened
  PROVE  TableInv'
<1>1. ~closed /\ closed'
  BY DEF TB!Abandon, TB!Crash
<1>2. Built /\ opened' = "none" /\ file_t \in Seq(FileUnits)
  BY <1>1, BuiltFile DEF TableInv
<1>3. file_t' \in Seq(FileUnits)
  <2>1. CASE TB!Abandon
    BY <1>2, <2>1 DEF TB!Abandon
  <2>2. CASE TB!Crash
    <3>1. PICK n \in 0 .. Len(file_t) : file_t' = SubSeq(file_t, 1, n)
      BY <2>2 DEF TB!Crash
    <3>2. SubSeq(file_t, 1, n) \in Seq(FileUnits)
      BY <1>2
    <3> QED
      BY <3>1, <3>2
  <2> QED
    BY <2>1, <2>2
<1> QED
  BY <1>1, <1>2, <1>3, Closes

(* What holds of a table that was finished. *)
LEMMA CompleteIs ==
  ASSUME NEW f, NEW ad, NEW k, NEW c, NEW hs, NEW ss, NEW es, NEW rs,
         Complete(f, ad, k, c, hs, ss, es, rs)
  PROVE  /\ k \in Nat /\ k \in 0 .. k /\ AddedOK(ad) /\ Len(ad) \in Nat /\ Blocks(f, ad, k, c, hs)
         /\ Separates(ad, k, c, ss) /\ c[k] = Len(ad) /\ InOrder(k, ss)
         /\ Encodes(es, rs, k, ss, hs) /\ EntriesOK(es, k, ss, hs) /\ Len(es) = k
<1>1. /\ AddedOK(ad) /\ Blocks(f, ad, k, c, hs) /\ Separates(ad, k, c, ss) /\ c[k] = Len(ad)
      /\ Encodes(es, rs, k, ss, hs)
  BY DEF Complete
<1>2. k \in Nat /\ Len(ad) \in Nat
  BY <1>1, AddedIs DEF Blocks
<1>3. k \in 0 .. k
  BY <1>2
<1>4. InOrder(k, ss)
  BY <1>1, <1>3, SeparatorsInOrder
<1>5. EntriesOK(es, k, ss, hs) /\ Len(es) = k
  BY <1>1 DEF Encodes, EntriesOK
<1> QED
  BY <1>1, <1>2, <1>3, <1>4, <1>5

(* Wherever an iterator of a block is moved to, it is at one of its        *)
(* entries or behind the last.                                             *)
LEMMA MovesInside ==
  ASSUME NEW es, NEW rs, NEW n \in Nat, NEW ks, NEW vs, Encodes(es, rs, n, ks, vs), InOrder(n, ks),
         NEW it, it \in Places(es, rs, n, ks)
  PROVE  /\ TB!IterNext(it) \in Places(es, rs, n, ks)
         /\ TB!IterSeekToFirst(it) \in Places(es, rs, n, ks)
         /\ \A target \in Words : TB!IterSeek(it, target) \in Places(es, rs, n, ks)
<1>1. EntriesOK(es, n, ks, vs) /\ it \in Iters(es, rs, n)
  BY DEF Encodes, Places
<1>2. ASSUME NEW p, NEW q \in 0 .. n, At(p, es, rs, n, ks, q)
      PROVE  p \in Places(es, rs, n, ks)
  BY <1>2 DEF Places, At
<1>3. TB!IterNext(it) \in Places(es, rs, n, ks)
  <2>1. PICK q \in 0 .. n : At(it, es, rs, n, ks, q)
    BY DEF Places
  <2>2. CASE q < n
    <3>1. PICK h \in 0 .. n : h = q + 1
      BY <2>2
    <3>2. At(TB!IterNext(it), es, rs, n, ks, h)
      BY <1>1, <2>1, <2>2, <3>1, IterNextIs
    <3> QED
      BY <1>2, <3>2
  <2>3. CASE q = n
    <3>1. At(TB!IterNext(it), es, rs, n, ks, n)
      BY <1>1, <2>1, <2>3, IterNextIs
    <3> QED
      BY <1>2, <2>3, <3>1
  <2> QED
    BY <2>2, <2>3
<1>4. TB!IterSeekToFirst(it) \in Places(es, rs, n, ks)
  <2>1. At(TB!IterSeekToFirst(it), es, rs, n, ks, 0)
    BY <1>1, SeekToFirstIs
  <2>2. 0 \in 0 .. n
    OBVIOUS
  <2> QED
    BY <1>2, <2>1, <2>2
<1>5. ASSUME NEW target \in Words PROVE TB!IterSeek(it, target) \in Places(es, rs, n, ks)
  <2>1. PICK t \in 0 .. n : FirstPast(n, ks, target, t)
    BY FirstPastIs
  <2>2. At(TB!IterSeek(it, target), es, rs, n, ks, t)
    BY <1>1, <2>1, IterSeekIs
  <2> QED
    BY <1>2, <2>2
<1> QED
  BY <1>3, <1>4, <1>5

(* So is a new iterator. *)
LEMMA NewIterInside ==
  ASSUME NEW es, NEW rs, NEW n \in Nat, NEW ks, NEW vs, Encodes(es, rs, n, ks, vs)
  PROVE  TB!NewIter(Contents(es, rs)) \in Places(es, rs, n, ks)
<1>1. Len(es) = n /\ n \in 0 .. n
  BY DEF Encodes, EntriesOK
<1>2. At(TB!NewIter(Contents(es, rs)), es, rs, n, ks, n)
  BY <1>1, NewIterIs
<1> QED
  BY <1>1, <1>2 DEF Places, At

(* Open finds the index where the footer says (table.cc:26-69). *)
LEMMA Opens ==
  ASSUME TableInv, TB!Open
  PROVE  TableInv'
<1>1. closed /\ opened = "none" /\ closed' = closed /\ file_t' = file_t /\ added' = added
  BY DEF TB!Open, TB!builderVars
<1>2. CASE file_t \in Seq(FileUnits)
  <2>1. file_t # <<>> => file_t[Len(file_t)].unit # "footer"
    <3> SUFFICES ASSUME file_t # <<>> PROVE file_t[Len(file_t)].unit # "footer"
      OBVIOUS
    <3>1. file_t[Len(file_t)] \in FileUnits
      BY <1>2
    <3> QED
      BY <3>1, UnitsAreNoFooters
  <2>2. opened' = "DATA_LOSS"
    BY <2>1 DEF TB!Open
  <2> QED
    BY <1>1, <1>2, <2>2 DEF TableInv
<1>3. CASE Searchable
  <2>1. PICK k, c, hs, ss, es, rs : Complete(file_t, added, k, c, hs, ss, es, rs)
    BY <1>3 DEF Searchable
  <2>2. PICK at \in Nat : /\ Len(file_t) \in Nat /\ Len(file_t) > 0
                          /\ file_t[Len(file_t)].unit = "footer"
                          /\ file_t[Len(file_t)].index = at
                          /\ file_t[at + 1] = TB!Body(Contents(es, rs))
    <3>1. PICK at \in Nat, meta \in Nat :
            /\ Len(file_t) \in Nat /\ Len(file_t) > 0 /\ at + 1 <= Len(file_t)
            /\ file_t[Len(file_t)] = TB!Footer(at, meta)
            /\ file_t[at + 1] = TB!Body(Contents(es, rs))
      BY <2>1 DEF Complete
    <3>2. TB!Footer(at, meta).unit = "footer" /\ TB!Footer(at, meta).index = at
      BY DEF TB!Footer
    <3> QED
      BY <3>1, <3>2
  <2>3. file_t # <<>> /\ file_t[at + 1].contents = Contents(es, rs)
    BY <2>2 DEF TB!Body
  <2>4. PICK it \in TB!BlockReader(at) : IF it.status = "OK" THEN opened' = "OK" /\ index' = it
                                          ELSE opened' = it.status /\ UNCHANGED index
    BY <2>2, <2>3 DEF TB!Open
  <2>5. opened' = "OK" => index' \in Places(es, rs, k, ss)
    <3> SUFFICES ASSUME opened' = "OK" PROVE index' \in Places(es, rs, k, ss)
      OBVIOUS
    <3>1. it.status = "OK" /\ index' = it
      BY <2>4
    <3>2. it \notin {TB!ErrorIter(e) : e \in ReadErrors}
      <4>1. ASSUME NEW e \in ReadErrors, it = TB!ErrorIter(e) PROVE FALSE
        <5>1. it.status = e
          BY <4>1 DEF TB!ErrorIter
        <5> QED
          BY <3>1, <5>1, TableHolds DEF TB!TableAssumption
      <4> QED
        BY <4>1
    <3>3. it = TB!NewIter(Contents(es, rs))
      BY <2>3, <2>4, <3>2 DEF TB!BlockReader
    <3>4. k \in Nat /\ Encodes(es, rs, k, ss, hs)
      BY <2>1, CompleteIs
    <3> QED
      BY <3>1, <3>3, <3>4, NewIterInside
  <2>6. Complete(file_t', added', k, c, hs, ss, es, rs)
    BY <1>1, <2>1
  <2>7. Searchable'
    BY <2>5, <2>6 DEF Searchable
  <2> QED
    BY <1>1, <2>7 DEF TableInv
<1> QED
  BY <1>1, <1>2, <1>3 DEF TableInv

(* A step of the iterator.                                                 *)
LEMMA Moves ==
  ASSUME TableInv, opened' = opened, closed' = closed, file_t' = file_t, added' = added,
         UNCHANGED <<offset, status_t, dataBlock, indexBlock, lastKey, pending>>,
         \/ index' = index
         \/ index' = TB!IterNext(index)
         \/ index' = TB!IterSeekToFirst(index)
         \/ \E target \in Words : index' = TB!IterSeek(index, target)
  PROVE  TableInv'
<1>1. Built => Built'
  BY DEF Built
<1>2. Searchable => Searchable'
  <2> SUFFICES ASSUME Searchable PROVE Searchable'
    OBVIOUS
  <2>1. PICK k, c, hs, ss, es, rs :
          /\ Complete(file_t, added, k, c, hs, ss, es, rs)
          /\ opened = "OK" => index \in Places(es, rs, k, ss)
    BY DEF Searchable
  <2>2. k \in Nat /\ Encodes(es, rs, k, ss, hs) /\ InOrder(k, ss)
    BY <2>1, CompleteIs
  <2>3. opened' = "OK" => index' \in Places(es, rs, k, ss)
    <3> SUFFICES ASSUME opened = "OK" PROVE index' \in Places(es, rs, k, ss)
      OBVIOUS
    <3>1. index \in Places(es, rs, k, ss)
      BY <2>1
    <3>2. /\ TB!IterNext(index) \in Places(es, rs, k, ss)
          /\ TB!IterSeekToFirst(index) \in Places(es, rs, k, ss)
          /\ \A target \in Words : TB!IterSeek(index, target) \in Places(es, rs, k, ss)
      BY <2>2, <3>1, MovesInside
    <3> QED
      BY <3>1, <3>2
  <2>4. Complete(file_t', added', k, c, hs, ss, es, rs)
    BY <2>1
  <2> QED
    BY <2>3, <2>4 DEF Searchable
<1> QED
  BY <1>1, <1>2 DEF TableInv

(* Every step of Table keeps the invariant. *)
LEMMA TableStep ==
  ASSUME TableInv, TB!Step
  PROVE  TableInv'
<1>1. CASE TB!Build /\ UNCHANGED TB!readVars
  <2>1. opened' = opened
    BY <1>1 DEF TB!readVars
  <2>2. CASE \E key \in TableKeys, size \in Sizes : TB!Add(key, size)
    BY <2>1, <2>2, Adds
  <2>3. CASE TB!Flush
    BY <2>1, <2>3, Flushes
  <2>4. CASE TB!Finish
    BY <2>1, <2>4, Finishes
  <2>5. CASE TB!Abandon \/ TB!Crash
    BY <2>1, <2>5, Ends
  <2> QED
    BY <1>1, <2>2, <2>3, <2>4, <2>5 DEF TB!Build
<1>2. CASE TB!Open
  BY <1>2, Opens
<1>3. ASSUME NEW target \in TableKeys, TB!Seek(target) PROVE TableInv'
  <2>1. /\ opened' = opened /\ closed' = closed /\ file_t' = file_t /\ added' = added
        /\ UNCHANGED <<offset, status_t, dataBlock, indexBlock, lastKey, pending>>
        /\ index' = TB!IterSeek(index, target)
    BY <1>3 DEF TB!Seek, TB!Call, TB!builderVars
  <2>2. target \in Words
    BY KeyIsWord
  <2> QED
    BY <2>1, <2>2, Moves
<1>4. CASE TB!SeekToFirst
  <2>1. /\ opened' = opened /\ closed' = closed /\ file_t' = file_t /\ added' = added
        /\ UNCHANGED <<offset, status_t, dataBlock, indexBlock, lastKey, pending>>
        /\ index' = TB!IterSeekToFirst(index)
    BY <1>4 DEF TB!SeekToFirst, TB!Call, TB!builderVars
  <2> QED
    BY <2>1, Moves
<1>5. CASE TB!Next
  <2>1. /\ opened' = opened /\ closed' = closed /\ file_t' = file_t /\ added' = added
        /\ UNCHANGED <<offset, status_t, dataBlock, indexBlock, lastKey, pending>>
        /\ index' = index
    BY <1>5 DEF TB!Next, TB!Call, TB!builderVars
  <2> QED
    BY <2>1, Moves
<1>6. CASE TB!SkipEmptyDataBlocksForward
  <2>1. /\ opened' = opened /\ closed' = closed /\ file_t' = file_t /\ added' = added
        /\ UNCHANGED <<offset, status_t, dataBlock, indexBlock, lastKey, pending>>
    BY <1>6 DEF TB!SkipEmptyDataBlocksForward, TB!builderVars
  <2>2. index' = index \/ index' = TB!IterNext(index)
    BY <1>6 DEF TB!SkipEmptyDataBlocksForward, TB!iterVars
  <2> QED
    BY <2>1, <2>2, Moves
<1> QED
  BY <1>1, <1>2, <1>3, <1>4, <1>5, <1>6 DEF TB!Step

(* What an iterator at entry q of a block shows.                           *)
LEMMA ShowsIs ==
  ASSUME NEW es, NEW rs, NEW n \in Nat, NEW ks, NEW vs, EntriesOK(es, n, ks, vs),
         NEW p, NEW q \in 0 .. n, At(p, es, rs, n, ks, q)
  PROVE  /\ TB!Valid(p) <=> q < n
         /\ q < n => p.key = ks[q + 1] /\ TB!Value(p) = vs[q + 1]
<1>1. p \in Iters(es, rs, n) /\ p.current = q /\ (q < n => p.key = ks[q + 1])
  BY DEF At
<1>2. p.block.entries = es /\ Len(es) = n
  BY <1>1, IterIs DEF EntriesOK
<1>3. TB!Valid(p) <=> q < n
  BY <1>1, <1>2 DEF TB!Valid
<1>4. ASSUME q < n PROVE TB!Value(p) = vs[q + 1]
  <2>1. PICK h \in 1 .. n : h = q + 1
    BY <1>4
  <2>2. es[h].value = vs[h]
    BY EntryIs DEF EntryOK
  <2>3. TB!Value(p) = es[h].value
    BY <1>1, <1>2, <2>1 DEF TB!Value
  <2> QED
    BY <2>1, <2>2, <2>3
<1> QED
  BY <1>1, <1>3, <1>4

(* Where the index leads.                                                  *)
LEMMA IndexSeekIs ==
  ASSUME NEW f, NEW ad, NEW k, NEW c, NEW hs, NEW ss, NEW es, NEW rs,
         Complete(f, ad, k, c, hs, ss, es, rs), NEW it, it \in Places(es, rs, k, ss),
         NEW target \in Words
  PROVE  \E t \in 0 .. k :
           /\ FirstPast(k, ss, target, t)
           /\ TB!Valid(TB!IterSeek(it, target)) <=> t < k
           /\ t < k => TB!Value(TB!IterSeek(it, target)) = hs[t + 1]
<1>1. k \in Nat /\ Encodes(es, rs, k, ss, hs) /\ EntriesOK(es, k, ss, hs) /\ InOrder(k, ss)
  BY CompleteIs
<1>2. it \in Iters(es, rs, k)
  BY DEF Places
<1>3. PICK t \in 0 .. k : FirstPast(k, ss, target, t)
  BY <1>1, FirstPastIs
<1>4. PICK p : p = TB!IterSeek(it, target)
  OBVIOUS
<1>5. At(p, es, rs, k, ss, t)
  BY <1>1, <1>2, <1>3, <1>4, IterSeekIs
<1>6. /\ TB!Valid(p) <=> t < k
      /\ t < k => TB!Value(p) = hs[t + 1]
  BY <1>1, <1>5, ShowsIs
<1> QED
  BY <1>3, <1>4, <1>6

(* it is at the first of the entries a + 1 .. b at or past target, e, or   *)
(* behind b.                                                               *)
Finding(it, ad, a, b, target, e) ==
  /\ e \in a + 1 .. b + 1
  /\ \A i \in a + 1 .. e - 1 : TB!Before(ad[i].key, target)
  /\ e <= b => /\ ~TB!Before(ad[e].key, target)
               /\ TB!Valid(it) /\ it.key = ad[e].key /\ TB!Value(it) = ad[e].size
  /\ e = b + 1 => ~TB!Valid(it)

(* Seek in a block finds the first of its entries at or past target        *)
(* (block.cc:135-173).                                                     *)
LEMMA BlockSeekIs ==
  ASSUME NEW ad, AddedOK(ad), NEW a \in Nat, NEW b \in Nat, a <= b, b <= Len(ad),
         NEW u, BlockHolds(u, ad, a, b), NEW target \in Words
  PROVE  \E e \in Nat : Finding(TB!IterSeek(TB!NewIter(u.contents), target), ad, a, b, target, e)
<1>1. PICK es, rs : /\ u = TB!Body(Contents(es, rs))
                    /\ Encodes(es, rs, b - a, KeysFrom(ad, a), SizesFrom(ad, a))
  BY DEF BlockHolds
<1>2. PICK n \in Nat : n = b - a
  OBVIOUS
<1>3. PICK ks : ks = KeysFrom(ad, a)
  OBVIOUS
<1>4. PICK vs : vs = SizesFrom(ad, a)
  OBVIOUS
<1>5. \A i \in Nat : ks[i] = ad[a + i].key /\ vs[i] = ad[a + i].size
  BY <1>3, <1>4 DEF KeysFrom, SizesFrom
<1>6. Encodes(es, rs, n, ks, vs) /\ EntriesOK(es, n, ks, vs)
  BY <1>1, <1>2, <1>3, <1>4 DEF Encodes
<1>7. InOrder(n, ks)
  BY <1>2, <1>3, KeysFromInOrder
<1>8. PICK it : it = TB!NewIter(Contents(es, rs))
  OBVIOUS
<1>9. u.contents = Contents(es, rs) /\ it \in Iters(es, rs, n)
  <2>1. it \in Places(es, rs, n, ks)
    BY <1>6, <1>8, NewIterInside
  <2> QED
    BY <1>1, <2>1 DEF Places, TB!Body
<1>10. PICK t \in 0 .. n : FirstPast(n, ks, target, t)
  BY FirstPastIs
<1>11. PICK p : p = TB!IterSeek(it, target)
  OBVIOUS
<1>12. At(p, es, rs, n, ks, t)
  BY <1>6, <1>7, <1>9, <1>10, <1>11, IterSeekIs
<1>13. /\ TB!Valid(p) <=> t < n
       /\ t < n => p.key = ks[t + 1] /\ TB!Value(p) = vs[t + 1]
  BY <1>6, <1>12, ShowsIs
<1>14. PICK e \in Nat : e = a + t + 1 /\ t + 1 \in Nat /\ a + (t + 1) = e
  BY <1>10
<1>15. e \in a + 1 .. b + 1 /\ (e <= b <=> t < n)
  BY <1>2, <1>10, <1>14
<1>16. ASSUME NEW i \in a + 1 .. e - 1 PROVE TB!Before(ad[i].key, target)
  <2>1. PICK j \in 1 .. t : j = i - a /\ a + j = i
    BY <1>10, <1>14
  <2>2. TB!Before(ks[j], target)
    BY <1>10 DEF FirstPast
  <2> QED
    BY <1>5, <2>1, <2>2
<1>17. ks[t + 1] = ad[e].key /\ vs[t + 1] = ad[e].size
  BY <1>5, <1>14
<1>18. t < n => ~TB!Before(ad[e].key, target)
  BY <1>10, <1>17 DEF FirstPast
<1>19. Finding(p, ad, a, b, target, e)
  BY <1>13, <1>15, <1>16, <1>17, <1>18 DEF Finding
<1> QED
  BY <1>8, <1>9, <1>11, <1>19

(* InternalGet, in the file f with the index at ix.                        *)
Got(f, ix, target) ==
  LET it == TB!IterSeek(TB!NewIter(f[TB!Value(ix) + 1].contents), target)
  IN IF TB!Valid(ix) /\ TB!Valid(it) THEN [key |-> it.key, size |-> TB!Value(it)] ELSE <<>>

(* InternalGet searches the index, then the block (table.cc:115-136). *)
LEMMA GetIs ==
  ASSUME NEW key
  PROVE  TB!InternalGet(key) = Got(file_t, TB!IterSeek(index, key), key)
BY DEF TB!InternalGet, Got

(* InternalGet looks into the block behind the t-th.                       *)
LEMMA GotIs ==
  ASSUME NEW f, NEW ad, NEW k, NEW c, NEW hs, NEW ss, NEW es, NEW rs,
         Complete(f, ad, k, c, hs, ss, es, rs), NEW target \in Words,
         NEW ix, NEW t \in 0 .. k, TB!Valid(ix) <=> t < k, t < k => TB!Value(ix) = hs[t + 1]
  PROVE  /\ t = k => Got(f, ix, target) = <<>>
         /\ t < k => \E e \in Nat :
              /\ e \in c[t] + 1 .. c[t + 1] + 1 /\ c[t + 1] \in 1 .. Len(ad) /\ c[t] \in Nat
              /\ \A i \in c[t] + 1 .. e - 1 : TB!Before(ad[i].key, target)
              /\ e <= c[t + 1] => /\ ~TB!Before(ad[e].key, target)
                                  /\ Got(f, ix, target) = [key |-> ad[e].key, size |-> ad[e].size]
              /\ e = c[t + 1] + 1 => Got(f, ix, target) = <<>>
<1>1. k \in Nat /\ AddedOK(ad) /\ Blocks(f, ad, k, c, hs) /\ Len(ad) \in Nat
  BY CompleteIs
<1>2. t = k => Got(f, ix, target) = <<>>
  BY <1>1 DEF Got
<1>3. ASSUME t < k
      PROVE  \E e \in Nat :
              /\ e \in c[t] + 1 .. c[t + 1] + 1 /\ c[t + 1] \in 1 .. Len(ad) /\ c[t] \in Nat
              /\ \A i \in c[t] + 1 .. e - 1 : TB!Before(ad[i].key, target)
              /\ e <= c[t + 1] => /\ ~TB!Before(ad[e].key, target)
                                  /\ Got(f, ix, target) = [key |-> ad[e].key, size |-> ad[e].size]
              /\ e = c[t + 1] + 1 => Got(f, ix, target) = <<>>
  <2>1. PICK j \in 1 .. k : j = t + 1 /\ j - 1 = t
    BY <1>1, <1>3
  <2>2. /\ c[j] \in Nat /\ c[j] \in 1 .. Len(ad) /\ c[t] \in Nat /\ c[t] < c[j]
        /\ hs[j] \in Nat /\ BlockHolds(f[hs[j] + 1], ad, c[t], c[j])
    BY <1>1, <2>1, CutIs
  <2>3. PICK a \in Nat : a = c[t]
    BY <2>2
  <2>4. PICK b \in Nat : b = c[j]
    BY <2>2
  <2>5. PICK u : u = f[hs[j] + 1]
    OBVIOUS
  <2>6. a <= b /\ b <= Len(ad) /\ BlockHolds(u, ad, a, b)
    BY <1>1, <2>2, <2>3, <2>4, <2>5
  <2>7. PICK it : it = TB!IterSeek(TB!NewIter(u.contents), target)
    OBVIOUS
  <2>8. PICK e \in Nat : Finding(it, ad, a, b, target, e)
    BY <1>1, <2>6, <2>7, BlockSeekIs
  <2>9. Got(f, ix, target) = IF TB!Valid(it) THEN [key |-> it.key, size |-> TB!Value(it)] ELSE <<>>
    BY <1>3, <2>1, <2>5, <2>7 DEF Got
  <2>10. /\ e \in a + 1 .. b + 1 /\ \A i \in a + 1 .. e - 1 : TB!Before(ad[i].key, target)
         /\ e <= b => /\ ~TB!Before(ad[e].key, target)
                      /\ Got(f, ix, target) = [key |-> ad[e].key, size |-> ad[e].size]
         /\ e = b + 1 => Got(f, ix, target) = <<>>
    BY <2>8, <2>9 DEF Finding
  <2> QED
    BY <2>1, <2>2, <2>3, <2>4, <2>10
<1> QED
  BY <1>2, <1>3

(* The entry asked for is found.                                           *)
LEMMA FindsWhatWasAdded ==
  ASSUME Searchable, opened = "OK", NEW i \in 1 .. Len(added)
  PROVE  TB!InternalGet(added[i].key) = added[i]
<1>1. PICK k, c, hs, ss, es, rs :
        /\ Complete(file_t, added, k, c, hs, ss, es, rs)
        /\ index \in Places(es, rs, k, ss)
  BY DEF Searchable
<1>2. /\ k \in Nat /\ k \in 0 .. k /\ AddedOK(added) /\ Blocks(file_t, added, k, c, hs)
      /\ Len(added) \in Nat /\ Separates(added, k, c, ss) /\ c[k] = Len(added) /\ InOrder(k, ss)
  BY <1>1, CompleteIs
<1>3. PICK key : key = added[i].key
  OBVIOUS
<1>4. key \in Words /\ added[i] = [key |-> key, size |-> added[i].size]
  <2>1. added[i] \in EntryRecords /\ added[i].key \in Words
    BY <1>2, AddedIs
  <2> QED
    BY <1>3, <2>1 DEF EntryRecords
<1>5. PICK ix : ix = TB!IterSeek(index, key)
  OBVIOUS
<1>6. PICK t \in 0 .. k : /\ FirstPast(k, ss, key, t)
                          /\ TB!Valid(ix) <=> t < k
                          /\ t < k => TB!Value(ix) = hs[t + 1]
  BY <1>1, <1>4, <1>5, IndexSeekIs
<1>7. PICK j \in 1 .. k : c[j - 1] < i /\ i <= c[j]
  <2>1. i \in Nat /\ i >= 1 /\ i <= c[k]
    BY <1>2
  <2> QED
    BY <1>2, <2>1, InBlock
<1>8. ~(j <= t)
  <2>1. TB!Before(ss[j], added[i].key) <=> c[j] < i
    BY <1>2, SeparatorSplits
  <2>2. c[j] \in Nat
    BY <1>2, CutIs
  <2>3. ~TB!Before(ss[j], key)
    BY <1>2, <1>3, <1>7, <2>1, <2>2
  <2> QED
    BY <1>2, <1>4, <1>6, <2>3, FirstPastSplits
<1>9. j - 1 <= t
  <2>1. CASE j = 1
    BY <1>6, <2>1
  <2>2. CASE j # 1
    <3>1. PICK h \in 1 .. k : h = j - 1
      BY <1>2, <2>2
    <3>2. TB!Before(ss[h], added[i].key) <=> c[h] < i
      BY <1>2, SeparatorSplits
    <3>3. TB!Before(ss[h], key)
      BY <1>3, <1>7, <3>1, <3>2
    <3>4. h <= t
      BY <1>2, <1>4, <1>6, <3>3, FirstPastSplits
    <3> QED
      BY <3>1, <3>4
  <2> QED
    BY <2>1, <2>2
<1>10. t < k /\ t + 1 = j /\ j - 1 = t
  BY <1>2, <1>6, <1>7, <1>8, <1>9
<1>11. PICK e \in Nat :
         /\ e \in c[t] + 1 .. c[t + 1] + 1 /\ c[t + 1] \in 1 .. Len(added) /\ c[t] \in Nat
         /\ \A x \in c[t] + 1 .. e - 1 : TB!Before(added[x].key, key)
         /\ e <= c[t + 1] => /\ ~TB!Before(added[e].key, key)
                             /\ Got(file_t, ix, key) = [key |-> added[e].key, size |-> added[e].size]
         /\ e = c[t + 1] + 1 => Got(file_t, ix, key) = <<>>
  BY <1>1, <1>4, <1>6, <1>10, GotIs
<1>12. ~TB!Before(added[i].key, key)
  BY <1>3, <1>4, BeforeIrreflexive
<1>13. c[t] < i /\ i <= c[t + 1]
  BY <1>7, <1>10
<1>14. e <= i
  <2> SUFFICES ASSUME i < e PROVE FALSE
    BY <1>11
  <2>1. i \in c[t] + 1 .. e - 1
    BY <1>11, <1>13
  <2> QED
    BY <1>11, <1>12, <2>1
<1>15. e \in 1 .. Len(added) /\ e <= c[t + 1]
  BY <1>2, <1>11, <1>13, <1>14
<1>16. ~(e < i)
  <2>1. e < i => TB!Before(added[e].key, added[i].key)
    BY <1>2, <1>15, KeyOrder
  <2> QED
    BY <1>3, <1>11, <1>15, <2>1
<1>17. e = i
  BY <1>14, <1>15, <1>16
<1>18. Got(file_t, ix, key) = added[i]
  BY <1>3, <1>4, <1>11, <1>15, <1>17
<1> QED
  BY <1>3, <1>5, <1>18, GetIs

(* Nothing before the key asked for is found.                              *)
LEMMA FindsNothingBefore ==
  ASSUME Searchable, opened = "OK", NEW key \in Words
  PROVE  TB!InternalGet(key) # <<>> => ~TB!Before(TB!InternalGet(key).key, key)
<1>1. PICK k, c, hs, ss, es, rs :
        /\ Complete(file_t, added, k, c, hs, ss, es, rs)
        /\ index \in Places(es, rs, k, ss)
  BY DEF Searchable
<1>2. PICK ix : ix = TB!IterSeek(index, key)
  OBVIOUS
<1>3. PICK t \in 0 .. k : /\ FirstPast(k, ss, key, t)
                          /\ TB!Valid(ix) <=> t < k
                          /\ t < k => TB!Value(ix) = hs[t + 1]
  BY <1>1, <1>2, IndexSeekIs
<1>4. PICK g : g = Got(file_t, ix, key)
  OBVIOUS
<1>5. CASE t = k
  <2>1. g = <<>>
    BY <1>1, <1>3, <1>4, <1>5, GotIs
  <2> QED
    BY <1>2, <1>4, <2>1, GetIs
<1>6. CASE t < k
  <2>1. PICK e \in Nat :
         /\ e \in c[t] + 1 .. c[t + 1] + 1 /\ c[t + 1] \in 1 .. Len(added) /\ c[t] \in Nat
         /\ \A x \in c[t] + 1 .. e - 1 : TB!Before(added[x].key, key)
         /\ e <= c[t + 1] => /\ ~TB!Before(added[e].key, key)
                             /\ g = [key |-> added[e].key, size |-> added[e].size]
         /\ e = c[t + 1] + 1 => g = <<>>
    BY <1>1, <1>3, <1>4, <1>6, GotIs
  <2>2. CASE e <= c[t + 1]
    <3>1. g.key = added[e].key /\ ~TB!Before(added[e].key, key)
      BY <2>1, <2>2
    <3> QED
      BY <1>2, <1>4, <3>1, GetIs
  <2>3. CASE e = c[t + 1] + 1
    BY <1>2, <1>4, <2>1, <2>3, GetIs
  <2> QED
    BY <2>1, <2>2, <2>3
<1>7. t < k \/ t = k
  <2>1. k \in Nat
    BY <1>1, CompleteIs
  <2> QED
    BY <1>3, <2>1
<1> QED
  BY <1>5, <1>6, <1>7

(* Offsets go on as keys do.                                               *)
LEMMA OffsetsGoOn ==
  ASSUME Searchable, opened = "OK", NEW a \in Words, NEW b \in Words, TB!Before(a, b)
  PROVE  TB!ApproximateOffsetOf(a) <= TB!ApproximateOffsetOf(b)
<1>1. PICK k, c, hs, ss, es, rs :
        /\ Complete(file_t, added, k, c, hs, ss, es, rs)
        /\ index \in Places(es, rs, k, ss)
  BY DEF Searchable
<1>2. k \in Nat /\ Blocks(file_t, added, k, c, hs) /\ InOrder(k, ss)
  BY <1>1, CompleteIs
<1>3. PICK meta \in Nat : /\ file_t[Len(file_t)].metaindex = meta
                          /\ \A i \in 1 .. k : hs[i] \in Nat /\ hs[i] <= meta
  <2>1. PICK at \in Nat, meta \in Nat : /\ file_t[Len(file_t)] = TB!Footer(at, meta)
                                        /\ \A i \in 1 .. k : hs[i] <= meta
    BY <1>1 DEF Complete
  <2>2. \A i \in 1 .. k : hs[i] \in Nat
    BY <1>2 DEF Blocks
  <2>3. TB!Footer(at, meta).metaindex = meta
    BY DEF TB!Footer
  <2> QED
    BY <2>1, <2>2, <2>3
<1>4. PICK x : x = TB!IterSeek(index, a)
  OBVIOUS
<1>5. PICK y : y = TB!IterSeek(index, b)
  OBVIOUS
<1>6. PICK t \in 0 .. k : /\ FirstPast(k, ss, a, t)
                          /\ TB!Valid(x) <=> t < k
                          /\ t < k => TB!Value(x) = hs[t + 1]
  BY <1>1, <1>4, IndexSeekIs
<1>7. PICK u \in 0 .. k : /\ FirstPast(k, ss, b, u)
                          /\ TB!Valid(y) <=> u < k
                          /\ u < k => TB!Value(y) = hs[u + 1]
  BY <1>1, <1>5, IndexSeekIs
<1>8. t <= u
  <2> SUFFICES ASSUME u < t PROVE FALSE
    OBVIOUS
  <2>1. PICK j \in 1 .. k : j = u + 1 /\ j \in 1 .. t
    BY <1>2
  <2>2. TB!Before(ss[j], a) /\ ss[j] \in Words
    BY <1>2, <1>6, <2>1 DEF FirstPast, InOrder
  <2>3. TB!Before(ss[j], b)
    BY <2>2, BeforeTransitive
  <2>4. u < k
    BY <1>2
  <2>5. ~TB!Before(ss[j], b)
    BY <1>7, <2>1, <2>4 DEF FirstPast
  <2> QED
    BY <2>3, <2>5
<1>9. /\ TB!ApproximateOffsetOf(a) = IF t < k THEN hs[t + 1] ELSE meta
      /\ TB!ApproximateOffsetOf(b) = IF u < k THEN hs[u + 1] ELSE meta
  BY <1>3, <1>4, <1>5, <1>6, <1>7 DEF TB!ApproximateOffsetOf
<1>10. CASE u < k
  <2>1. PICK i \in 1 .. k : i = t + 1
    BY <1>2, <1>8, <1>10
  <2>2. PICK j \in 1 .. k : j = u + 1
    BY <1>2, <1>10
  <2>3. i = j \/ i < j
    BY <1>8, <2>1, <2>2
  <2>4. hs[i] <= hs[j]
    <3>1. i < j => hs[i] < hs[j]
      BY <1>2 DEF Blocks
    <3>2. hs[i] \in Nat /\ hs[j] \in Nat
      BY <1>3
    <3> QED
      BY <2>3, <3>1, <3>2
  <2>5. t < k
    BY <1>2, <1>8, <1>10
  <2> QED
    BY <1>9, <1>10, <2>1, <2>2, <2>4, <2>5
<1>11. CASE u = k /\ t < k
  <2>1. PICK i \in 1 .. k : i = t + 1
    BY <1>2, <1>11
  <2>2. hs[i] <= meta
    BY <1>3
  <2> QED
    BY <1>9, <1>11, <2>1, <2>2
<1>12. CASE u = k /\ t = k
  BY <1>9, <1>12, <1>3
<1> QED
  BY <1>2, <1>10, <1>11, <1>12

(* The keys of the index while the table is built.                         *)
LEMMA BuiltIndexSeparates ==
  ASSUME Built
  PROVE  TB!IndexSeparates
<1> SUFFICES ASSUME ~closed
    PROVE  LET separators == TB!KeysOf(TB!Finished(indexBlock))
               block(i) == TB!KeysOf(file_t[indexBlock.entries[i].value + 1].contents)
           IN /\ pending # TB!NoHandle => dataBlock.entries = <<>>
              /\ \A i \in 1 .. Len(separators) :
                   /\ \A j \in 1 .. Len(block(i)) : ~TB!Before(separators[i], block(i)[j])
                   /\ i > 1 => /\ TB!Before(separators[i - 1], separators[i])
                               /\ TB!Before(separators[i - 1], block(i)[1])
  BY DEF TB!IndexSeparates
<1>1. PICK f, o, s, d, x, l, p, k, m, c, hs, ss :
        /\ Rec(file_t, offset, status_t, dataBlock, indexBlock, lastKey, pending)
             = Rec(f, o, s, d, x, l, p)
        /\ WellBuilt(f, o, s, d, x, l, p, added, k, m, c, hs, ss)
  BY DEF Built, BuiltRec
<1>2. f = file_t /\ d = dataBlock /\ x = indexBlock /\ p = pending
  BY <1>1, RecIs
<1>3. /\ Blocks(file_t, added, k, c, hs) /\ AddedOK(added) /\ m \in 0 .. k /\ k \in Nat
      /\ BuilderHolds(indexBlock, m, ss, hs) /\ Separates(added, m, c, ss)
      /\ pending # TB!NoHandle => dataBlock.entries = <<>>
  BY <1>1, <1>2 DEF WellBuilt, IndexHolds, Awaits, Blocks
<1>4. InOrder(m, ss) /\ m \in Nat
  BY <1>3, SeparatorsInOrder
<1>5. PICK es : es = indexBlock.entries
  OBVIOUS
<1>6. PICK rs : rs = indexBlock.restarts
  OBVIOUS
<1>7. TB!Finished(indexBlock) = Contents(es, rs) /\ Encodes(es, rs, m, ss, hs)
  BY <1>3, <1>5, <1>6, BuilderContents
<1>8. PICK separators : separators = TB!KeysOf(TB!Finished(indexBlock))
  OBVIOUS
<1>9. Len(separators) = m /\ \A i \in 1 .. m : separators[i] = ss[i]
  BY <1>4, <1>7, <1>8, KeysOfIs
<1>10. ASSUME NEW i \in 1 .. m
       PROVE  LET block == TB!KeysOf(file_t[es[i].value + 1].contents)
              IN /\ Len(block) = c[i] - c[i - 1]
                 /\ \A j \in 1 .. Len(block) : block[j] = added[c[i - 1] + j].key
  <2>1. i \in 1 .. k
    BY <1>3
  <2>2. /\ c[i] \in Nat /\ c[i] \in 1 .. Len(added) /\ c[i - 1] \in Nat /\ c[i - 1] < c[i]
        /\ BlockHolds(file_t[hs[i] + 1], added, c[i - 1], c[i])
    BY <1>3, <2>1, CutIs
  <2>3. es[i].value = hs[i]
    <3>1. EntriesOK(es, m, ss, hs) /\ m \in Nat
      BY <1>4, <1>7 DEF Encodes
    <3>2. EntryOK(es[i], i, ss, hs)
      BY <3>1 DEF EntriesOK
    <3> QED
      BY <3>2 DEF EntryOK
  <2>4. PICK a \in Nat : a = c[i - 1]
    BY <2>2
  <2>5. PICK n \in Nat : n = c[i] - c[i - 1]
    BY <2>2
  <2>6. PICK e, r : /\ file_t[hs[i] + 1] = TB!Body(Contents(e, r))
                    /\ Encodes(e, r, n, KeysFrom(added, a), SizesFrom(added, a))
    BY <2>2, <2>4, <2>5 DEF BlockHolds
  <2>7. PICK ks : ks = KeysFrom(added, a)
    OBVIOUS
  <2>8. PICK vs : vs = SizesFrom(added, a)
    OBVIOUS
  <2>9. Encodes(e, r, n, ks, vs)
    BY <2>6, <2>7, <2>8
  <2>10. file_t[hs[i] + 1].contents = Contents(e, r)
    BY <2>6 DEF TB!Body
  <2>11. PICK block : block = TB!KeysOf(Contents(e, r))
    OBVIOUS
  <2>12. Len(block) = n /\ \A j \in 1 .. n : block[j] = ks[j]
    BY <2>9, <2>11, KeysOfIs
  <2>13. \A j \in 1 .. n : ks[j] = added[a + j].key
    BY <2>7 DEF KeysFrom
  <2> QED
    BY <2>3, <2>4, <2>5, <2>10, <2>11, <2>12, <2>13
<1>11. ASSUME NEW i \in 1 .. m
       PROVE  LET block == TB!KeysOf(file_t[es[i].value + 1].contents)
              IN /\ \A j \in 1 .. Len(block) : ~TB!Before(separators[i], block[j])
                 /\ i > 1 => /\ TB!Before(separators[i - 1], separators[i])
                             /\ TB!Before(separators[i - 1], block[1])
  <2>1. PICK block : block = TB!KeysOf(file_t[es[i].value + 1].contents)
    OBVIOUS
  <2>2. i \in 1 .. k
    BY <1>3
  <2>3. c[i] \in Nat /\ c[i] \in 1 .. Len(added) /\ c[i - 1] \in Nat /\ c[i - 1] < c[i]
    BY <1>3, <2>2, CutIs
  <2>4. PICK n \in Nat : n = c[i] - c[i - 1] /\ n >= 1
    BY <2>3
  <2>5. Len(block) = n /\ \A j \in 1 .. n : block[j] = added[c[i - 1] + j].key
    BY <1>10, <2>1, <2>4
  <2>6. ASSUME NEW j \in 1 .. n PROVE ~TB!Before(separators[i], block[j])
    <3>1. PICK g \in 1 .. Len(added) : g = c[i - 1] + j /\ g <= c[i]
      BY <2>3, <2>4
    <3>2. TB!Before(ss[i], added[g].key) <=> c[i] < g
      BY <1>3, SeparatorSplits
    <3>3. block[j] = added[g].key
      BY <2>5, <3>1
    <3> QED
      BY <1>9, <2>3, <3>1, <3>2, <3>3
  <2>7. ASSUME i > 1
        PROVE  TB!Before(separators[i - 1], separators[i]) /\ TB!Before(separators[i - 1], block[1])
    <3>1. PICK h \in 1 .. m : h = i - 1 /\ h < i
      BY <1>4, <2>7
    <3>2. TB!Before(ss[h], ss[i])
      BY <1>4, <3>1 DEF InOrder
    <3>3. PICK g \in 1 .. Len(added) : g = c[h] + 1
      BY <2>3, <3>1
    <3>4. TB!Before(ss[h], added[g].key) <=> c[h] < g
      BY <1>3, SeparatorSplits
    <3>5. c[h] \in Nat /\ c[h] < g
      BY <2>3, <3>1, <3>3
    <3>6. 1 \in 1 .. n
      BY <2>4
    <3>7. block[1] = added[g].key
      BY <2>5, <3>1, <3>3, <3>6
    <3> QED
      BY <1>9, <3>1, <3>2, <3>4, <3>5, <3>7
  <2> QED
    BY <2>1, <2>5, <2>6, <2>7
<1> QED
  BY <1>3, <1>5, <1>8, <1>9, <1>11

(* The invariant says that lookups find. *)
LEMMA TableFinds ==
  ASSUME TableInv
  PROVE  TB!LookupsFind
<1>1. TB!IndexSeparates
  <2>1. CASE closed
    BY <2>1 DEF TB!IndexSeparates
  <2>2. CASE ~closed
    BY <2>2, BuiltIndexSeparates DEF TableInv
  <2> QED
    BY <2>1, <2>2
<1>2. ASSUME opened = "OK"
      PROVE  /\ \A i \in 1 .. Len(added) : TB!InternalGet(added[i].key) = added[i]
             /\ \A k \in TableKeys : TB!InternalGet(k) # <<>> => ~TB!Before(TB!InternalGet(k).key, k)
             /\ \A k, l \in TableKeys : TB!Before(k, l) =>
                  TB!ApproximateOffsetOf(k) <= TB!ApproximateOffsetOf(l)
  <2>1. Searchable
    BY <1>2 DEF TableInv
  <2>2. \A i \in 1 .. Len(added) : TB!InternalGet(added[i].key) = added[i]
    BY <1>2, <2>1, FindsWhatWasAdded
  <2>3. \A k \in TableKeys : TB!InternalGet(k) # <<>> => ~TB!Before(TB!InternalGet(k).key, k)
    BY <1>2, <2>1, KeyIsWord, FindsNothingBefore
  <2>4. \A k, l \in TableKeys : TB!Before(k, l) =>
          TB!ApproximateOffsetOf(k) <= TB!ApproximateOffsetOf(l)
    BY <1>2, <2>1, KeyIsWord, OffsetsGoOn
  <2> QED
    BY <2>2, <2>3, <2>4
<1> QED
  BY <1>1, <1>2 DEF TB!LookupsFind
=============================================================================

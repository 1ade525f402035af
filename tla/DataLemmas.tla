------------------------------ MODULE DataLemmas ------------------------------
(***************************************************************************)
(* Facts about naturals, recursive functions and sequences that the proofs  *)
(* about several components use.  Induction is stated over a set of         *)
(* naturals instead of a predicate, and rests on the well-foundedness of    *)
(* the order of the naturals.                                               *)
(***************************************************************************)
EXTENDS Integers, SequenceTheorems, WellFoundedInduction, TLAPS

(* A non-empty set of naturals has a least element. *)
LEMMA LeastNatural ==
  ASSUME NEW T, T \subseteq Nat, T # {}
  PROVE  \E x \in T : \A y \in T : x <= y
<1> DEFINE R == OpToRel(<, Nat)
<1>1. IsWellFoundedOn(R, Nat)
  BY NatLessThanWellFounded
<1>2. \A x, y \in Nat : <<x, y>> \in R <=> x < y
  BY DEF OpToRel
<1> HIDE DEF R
<1>3. PICK x \in T : \A y \in T : ~ (<<y, x>> \in R)
  BY <1>1, WFMin
<1>4. \A y \in T : ~ (y < x)
  BY <1>2, <1>3, Zenon
<1> QED
  BY <1>4

(* A set of naturals that has zero and every successor has them all. *)
LEMMA SetInduction ==
  ASSUME NEW S, 0 \in S, \A n \in Nat : n \in S => n + 1 \in S
  PROVE  Nat \subseteq S
<1> SUFFICES ASSUME Nat \ S # {} PROVE FALSE
  OBVIOUS
<1>1. PICK x \in Nat \ S : \A y \in Nat \ S : x <= y
  BY LeastNatural
<1>2. x # 0 /\ x - 1 \in Nat /\ x - 1 \in S
  BY <1>1
<1> QED
  BY <1>1, <1>2

(* The same up to a bound. *)
LEMMA BoundedInduction ==
  ASSUME NEW n \in Nat, NEW S, 0 \in S, \A i \in 1 .. n : i - 1 \in S => i \in S
  PROVE  0 .. n \subseteq S
<1> DEFINE T == S \cup {i \in Nat : i > n}
<1>1. 0 \in T
  OBVIOUS
<1>2. \A i \in Nat : i \in T => i + 1 \in T
  <2> TAKE i \in Nat
  <2>1. CASE i + 1 > n
    BY <2>1
  <2>2. CASE ~(i + 1 > n)
    <3>1. i + 1 \in 1 .. n /\ (i + 1) - 1 = i
      BY <2>2
    <3> QED
      BY <2>2, <3>1
  <2> QED
    BY <2>1, <2>2
<1> HIDE DEF T
<1>3. Nat \subseteq T
  BY <1>1, <1>2, SetInduction
<1> QED
  BY <1>3 DEF T

-----------------------------------------------------------------------------
(* Recursive functions.                                                     *)

(* A function on 0 .. n whose value at i is a step from its value at i - 1. *)
Iterates(f, n, b, step) == f = [i \in 0 .. n |-> IF i = 0 THEN b ELSE step[i][f[i - 1]]]

(* There is one, *)
LEMMA IterationExists ==
  ASSUME NEW S, NEW n \in Nat, NEW b \in S, NEW step \in [1 .. n -> [S -> S]]
  PROVE  \E f \in [0 .. n -> S] : Iterates(f, n, b, step)
<1> DEFINE F(m) == {f \in [0 .. m -> S] : f[0] = b /\ \A i \in 1 .. m : f[i] = step[i][f[i - 1]]}
<1> DEFINE G == {m \in Nat : F(m) # {}}
<1>1. 0 \in G
  <2>1. [i \in 0 .. 0 |-> b] \in F(0)
    OBVIOUS
  <2> QED
    BY <2>1
<1>2. \A m \in 1 .. n : m - 1 \in G => m \in G
  <2> SUFFICES ASSUME NEW m \in 1 .. n, m - 1 \in G PROVE F(m) # {}
    <3> HIDE DEF F
    <3> QED
      OBVIOUS
  <2>1. PICK f \in F(m - 1) : TRUE
    OBVIOUS
  <2> DEFINE g == [i \in 0 .. m |-> IF i <= m - 1 THEN f[i] ELSE step[m][f[m - 1]]]
  <2>2. f[m - 1] \in S /\ step[m] \in [S -> S]
    OBVIOUS
  <2>3. g \in [0 .. m -> S] /\ g[0] = b
    BY <2>2
  <2>4. ASSUME NEW i \in 1 .. m PROVE g[i] = step[i][g[i - 1]]
    <3>1. CASE i <= m - 1
      BY <3>1
    <3>2. CASE i = m
      BY <3>2
    <3> QED
      BY <3>1, <3>2
  <2> QED
    BY <2>3, <2>4
<1> HIDE DEF G
<1>3. n \in G
  <2>1. 0 .. n \subseteq G
    BY <1>1, <1>2, BoundedInduction
  <2> QED
    BY <2>1
<1>4. PICK f \in F(n) : TRUE
  BY <1>3 DEF G
<1> QED
  BY <1>4 DEF Iterates

(* Two functions that start alike and take the same steps. *)
SameSteps(f, g, m) == f[0] = g[0] /\ \A i \in 1 .. m : f[i - 1] = g[i - 1] => f[i] = g[i]
Agree(f, g, m) == \A i \in 0 .. m : f[i] = g[i]

(* They agree as far as they do so. *)
LEMMA IterationUnique ==
  ASSUME NEW m \in Nat, NEW f, NEW g, SameSteps(f, g, m)
  PROVE  Agree(f, g, m)
<1> DEFINE S == {i \in 0 .. m : f[i] = g[i]}
<1>1. 0 \in S
  BY DEF SameSteps
<1>2. \A i \in 1 .. m : i - 1 \in S => i \in S
  BY DEF SameSteps
<1> HIDE DEF S
<1>3. 0 .. m \subseteq S
  BY <1>1, <1>2, BoundedInduction
<1> QED
  BY <1>3 DEF S, Agree

-----------------------------------------------------------------------------
(* Sequences.                                                               *)

(* A queue that gives up its oldest element to the end of another sequence  *)
(* leaves the concatenation of the two as it was.                           *)
LEMMA MoveHead ==
  ASSUME NEW S, NEW s \in Seq(S), NEW q \in Seq(S), q # <<>>
  PROVE  /\ Append(s, Head(q)) \o Tail(q) = s \o q
         /\ Append(s, Head(q)) \in Seq(S) /\ Tail(q) \in Seq(S) /\ Len(Tail(q)) <= Len(q)
<1>1. /\ Head(q) = q[1] /\ q[1] \in S /\ Tail(q) \in Seq(S) /\ Len(Tail(q)) = Len(q) - 1
      /\ \A i \in 1 .. Len(q) - 1 : Tail(q)[i] = q[i + 1]
  BY HeadTailProperties, EmptySeq
<1> DEFINE a == Append(s, Head(q))
<1>2. /\ a \in Seq(S) /\ Len(a) = Len(s) + 1 /\ a[Len(s) + 1] = q[1]
      /\ \A i \in 1 .. Len(s) : a[i] = s[i]
  BY <1>1, AppendProperties
<1> HIDE DEF a
<1>3. /\ a \o Tail(q) \in Seq(S) /\ Len(a \o Tail(q)) = Len(s) + Len(q)
      /\ \A i \in 1 .. Len(s) + Len(q) :
           (a \o Tail(q))[i] = IF i <= Len(s) + 1 THEN a[i] ELSE Tail(q)[i - (Len(s) + 1)]
  <2>1. /\ a \o Tail(q) \in Seq(S) /\ Len(a \o Tail(q)) = Len(a) + Len(Tail(q))
        /\ \A i \in 1 .. Len(a) + Len(Tail(q)) :
             (a \o Tail(q))[i] = IF i <= Len(a) THEN a[i] ELSE Tail(q)[i - Len(a)]
    BY <1>1, <1>2, ConcatProperties
  <2>2. Len(a) + Len(Tail(q)) = Len(s) + Len(q)
    BY <1>1, <1>2
  <2> QED
    BY <1>2, <2>1, <2>2
<1>4. /\ s \o q \in Seq(S) /\ Len(s \o q) = Len(s) + Len(q)
      /\ \A i \in 1 .. Len(s) + Len(q) : (s \o q)[i] = IF i <= Len(s) THEN s[i] ELSE q[i - Len(s)]
  BY ConcatProperties
<1>5. \A i \in 1 .. Len(s) + Len(q) : (a \o Tail(q))[i] = (s \o q)[i]
  BY <1>1, <1>2, <1>3, <1>4
<1>6. a \o Tail(q) = s \o q
  BY <1>3, <1>4, <1>5, SeqEqual
<1>7. Len(Tail(q)) <= Len(q)
  BY <1>1, LenProperties
<1> QED
  BY <1>1, <1>2, <1>6, <1>7, Zenon DEF a

(* Appending commutes with concatenation. *)
LEMMA AppendConcat ==
  \A s, q \in Seq(Nat), e \in Nat : s \o Append(q, e) = Append(s \o q, e)
<1> TAKE s, q \in Seq(Nat), e \in Nat
<1>1. Append(q, e) = q \o <<e>> /\ <<e>> \in Seq(Nat) /\ s \o q \in Seq(Nat)
  BY AppendIsConcat, ConcatProperties
<1>2. Append(s \o q, e) = (s \o q) \o <<e>>
  BY <1>1, AppendIsConcat
<1> QED
  BY <1>1, <1>2, ConcatAssociative

(* A function on 1 .. n is a sequence of length n. *)
LEMMA FunctionIsSeq ==
  ASSUME NEW S, NEW n \in Nat, NEW f \in [1 .. n -> S]
  PROVE  f \in Seq(S) /\ Len(f) = n
<1>1. f \in Seq(S)
  BY SeqDef
<1>2. DOMAIN f = 1 .. Len(f) /\ DOMAIN f = 1 .. n /\ Len(f) \in Nat
  BY <1>1, LenProperties
<1> QED
  BY <1>1, <1>2

=============================================================================

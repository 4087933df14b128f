----------------------------- MODULE DataLemmas -----------------------------
(***************************************************************************)
(* Facts about data that the proofs share: what sending to and receiving   *)
(* from a channel, a sequence in the models, do to the set of its elements *)
(* and to their order; induction and recursion on numbers.                 *)
(***************************************************************************)
EXTENDS SequencesExt, SequenceTheorems, FiniteSetTheorems, TLAPS

\* Receiving from a non-empty channel yields an element of the channel's type
\* and leaves a channel of that type.
LEMMA ReceiveType ==
    ASSUME NEW S, NEW s \in Seq(S), s # <<>>
    PROVE  /\ Head(s) \in S
           /\ Tail(s) \in Seq(S)
           /\ Head(s) \in ToSet(s)
  BY HeadTailProperties, EmptySeq, LenProperties DEF ToSet

\* An element of a channel has the channel's type.
LEMMA MemberType ==
    ASSUME NEW S, NEW s \in Seq(S)
    PROVE  ToSet(s) \subseteq S
  BY LenProperties, ElementOfSeq DEF ToSet

LEMMA NoMembers == ToSet(<<>>) = {}
  BY DEF ToSet

\* A send adds one element and nothing else; a channel whose elements are
\* all different stays so if the new one is not among them.
LEMMA SendMembers ==
    ASSUME NEW S, NEW s \in Seq(S), NEW e \in S
    PROVE  /\ ToSet(Append(s, e)) = ToSet(s) \cup {e}
           /\ IsInjective(s) /\ e \notin ToSet(s) => IsInjective(Append(s, e))
<1>1. /\ DOMAIN s = 1..Len(s) /\ Len(s) \in Nat
      /\ DOMAIN Append(s, e) = 1..(Len(s) + 1)
      /\ \A i \in 1..Len(s) : Append(s, e)[i] = s[i]
      /\ Append(s, e)[Len(s) + 1] = e
  BY AppendProperties, LenProperties
<1>2. ToSet(Append(s, e)) \subseteq ToSet(s) \cup {e}
  <2>1. SUFFICES ASSUME NEW i \in 1..(Len(s) + 1) PROVE Append(s, e)[i] \in ToSet(s) \cup {e}
    BY <1>1 DEF ToSet
  <2>2. i \in 1..Len(s) \/ i = Len(s) + 1
    BY <1>1
  <2>3. QED
    BY <1>1, <2>2 DEF ToSet
<1>3. ToSet(s) \cup {e} \subseteq ToSet(Append(s, e))
  <2>1. 1..Len(s) \subseteq 1..(Len(s) + 1) /\ Len(s) + 1 \in 1..(Len(s) + 1)
    BY <1>1
  <2>2. QED
    BY <1>1, <2>1 DEF ToSet
<1>4. ASSUME IsInjective(s), e \notin ToSet(s)
      PROVE  IsInjective(Append(s, e))
  <2>1. SUFFICES ASSUME NEW i \in 1..(Len(s) + 1), NEW j \in 1..(Len(s) + 1),
                        Append(s, e)[i] = Append(s, e)[j]
                 PROVE  i = j
    BY <1>1 DEF IsInjective
  <2>2. \A k \in 1..Len(s) : s[k] # e
    BY <1>1, <1>4 DEF ToSet
  <2>3. (i \in 1..Len(s) \/ i = Len(s) + 1) /\ (j \in 1..Len(s) \/ j = Len(s) + 1)
    BY <1>1
  <2>4. QED
    BY <1>1, <1>4, <2>1, <2>2, <2>3 DEF IsInjective
<1>5. QED
  BY <1>2, <1>3, <1>4

\* A receive takes an element out; of a channel whose elements are all
\* different, it takes exactly that one.
LEMMA ReceiveMembers ==
    ASSUME NEW S, NEW s \in Seq(S), s # <<>>
    PROVE  /\ Head(s) \in ToSet(s)
           /\ ToSet(Tail(s)) \subseteq ToSet(s)
           /\ ToSet(s) \subseteq ToSet(Tail(s)) \cup {Head(s)}
           /\ IsInjective(s) => /\ IsInjective(Tail(s))
                                /\ Head(s) \notin ToSet(Tail(s))
<1>1. /\ DOMAIN s = 1..Len(s) /\ Len(s) \in Nat /\ Len(s) > 0
      /\ DOMAIN Tail(s) = 1..(Len(s) - 1)
      /\ \A i \in 1..(Len(s) - 1) : Tail(s)[i] = s[i + 1]
      /\ Head(s) = s[1]
  BY HeadTailProperties, LenProperties, EmptySeq
<1>2. \A i \in 1..(Len(s) - 1) : i + 1 \in 1..Len(s) /\ i + 1 # 1
  BY <1>1
<1>3. ToSet(Tail(s)) \subseteq ToSet(s) /\ Head(s) \in ToSet(s)
  BY <1>1, <1>2, ReceiveType DEF ToSet
<1>4. ToSet(s) \subseteq ToSet(Tail(s)) \cup {Head(s)}
  <2>1. SUFFICES ASSUME NEW i \in 1..Len(s), i # 1 PROVE s[i] \in ToSet(Tail(s))
    BY <1>1 DEF ToSet
  <2>2. i - 1 \in 1..(Len(s) - 1) /\ (i - 1) + 1 = i
    BY <1>1, <2>1
  <2>3. QED
    BY <1>1, <2>2 DEF ToSet
<1>5. ASSUME IsInjective(s) PROVE IsInjective(Tail(s)) /\ Head(s) \notin ToSet(Tail(s))
  <2>1. \A i, j \in 1..Len(s) : s[i] = s[j] => i = j
    BY <1>1, <1>5 DEF IsInjective
  <2>2. \A i, j \in 1..(Len(s) - 1) : Tail(s)[i] = Tail(s)[j] => i = j
    <3>1. SUFFICES ASSUME NEW i \in 1..(Len(s) - 1), NEW j \in 1..(Len(s) - 1),
                          Tail(s)[i] = Tail(s)[j]
                   PROVE  i = j
      OBVIOUS
    <3>2. s[i + 1] = s[j + 1] /\ i + 1 \in 1..Len(s) /\ j + 1 \in 1..Len(s)
      BY <1>1, <1>2, <3>1
    <3>3. i + 1 = j + 1
      BY <2>1, <3>2
    <3>4. QED
      BY <1>1, <3>3
  <2>3. \A i \in 1..(Len(s) - 1) : Tail(s)[i] # Head(s)
    BY <1>1, <1>2, <2>1
  <2>4. QED
    BY <1>1, <2>2, <2>3 DEF IsInjective, ToSet
<1>6. QED
  BY <1>3, <1>4, <1>5

\* What is left of a queue whose first p elements were taken.
LEMMA SuffixElements ==
    ASSUME NEW S, NEW s \in Seq(S), NEW p \in 1..Len(s)
    PROVE  /\ SubSeq(s, p + 1, Len(s)) \in Seq(S)
           /\ Len(SubSeq(s, p + 1, Len(s))) = Len(s) - p
           /\ DOMAIN SubSeq(s, p + 1, Len(s)) = 1..(Len(s) - p)
           /\ \A i \in 1..(Len(s) - p) : /\ SubSeq(s, p + 1, Len(s))[i] = s[p + i]
                                         /\ p + i \in DOMAIN s /\ p + i # p
<1> DEFINE v == SubSeq(s, p + 1, Len(s))
<1>1. Len(s) \in Nat /\ p \in Nat /\ 1 <= p /\ p <= Len(s)
  BY LenProperties
<1>2. \A x \in (p + 1)..Len(s) : s[x] \in S
  BY <1>1, ElementOfSeq
<1>3. /\ v \in Seq(S)
      /\ Len(v) = IF p + 1 <= Len(s) THEN Len(s) - (p + 1) + 1 ELSE 0
      /\ \A i \in 1..(Len(s) - (p + 1) + 1) : v[i] = s[(p + 1) + i - 1]
  BY <1>1, <1>2, SubSeqProperties
<1> HIDE DEF v
<1>4. /\ Len(s) - (p + 1) + 1 = Len(s) - p
      /\ \A i \in 1..(Len(s) - p) : /\ (p + 1) + i - 1 = p + i
                                    /\ p + i \in 1..Len(s) /\ p + i # p
  BY <1>1
<1>5. Len(v) = Len(s) - p
  <2>1. CASE p + 1 <= Len(s)
    <3>1. Len(v) = Len(s) - (p + 1) + 1
      BY <1>3, <2>1
    <3>2. QED
      BY <1>4, <3>1
  <2>2. CASE ~(p + 1 <= Len(s))
    BY <1>1, <1>3, <2>2
  <2>3. QED
    BY <2>1, <2>2
<1>6. DOMAIN v = 1..(Len(s) - p)
  BY <1>3, <1>5, LenProperties
<1>7. \A i \in 1..(Len(s) - p) : v[i] = s[p + i] /\ p + i \in DOMAIN s /\ p + i # p
  BY <1>3, <1>4, LenProperties
<1>8. QED
  BY <1>3, <1>5, <1>6, <1>7 DEF v

\* A send does not change who comes next.
LEMMA HeadOfAppend ==
    ASSUME NEW S, NEW s \in Seq(S), NEW e \in S, s # <<>>
    PROVE  Append(s, e) # <<>> /\ Head(Append(s, e)) = Head(s)
<1>1. Len(s) \in Nat /\ Len(s) # 0
  BY EmptySeq, LenProperties
<1>2. /\ Append(s, e) \in Seq(S) /\ Len(Append(s, e)) = Len(s) + 1
      /\ \A i \in 1..Len(s) : Append(s, e)[i] = s[i]
  BY AppendProperties
<1>3. 1 \in 1..Len(s) /\ Len(s) + 1 # 0
  BY <1>1
<1>4. Append(s, e)[1] = s[1] /\ Append(s, e) # <<>>
  BY <1>2, <1>3, EmptySeq
<1>5. Head(s) = s[1] /\ Head(Append(s, e)) = Append(s, e)[1]
  BY <1>2, <1>4, HeadTailProperties
<1>6. QED
  BY <1>4, <1>5

-----------------------------------------------------------------------------
(***************************************************************************)
(* Induction and recursion on numbers, stated with sets and functions in   *)
(* place of predicates and operators.                                      *)
(***************************************************************************)
\* A set of natural numbers that is not empty has a least element.
LEMMA LeastNat ==
    ASSUME NEW T, T \subseteq Nat, T # {}
    PROVE  \E n \in T : \A m \in T : n <= m
<1> DEFINE R == OpToRel(<, Nat)
<1>1. IsWellFoundedOn(R, Nat)
  BY NatLessThanWellFounded
<1>2. \A a, b \in Nat : a < b => <<a, b>> \in R
  BY DEF OpToRel
<1> HIDE DEF R
<1>3. PICK x \in T : \A y \in T : ~(<<y, x>> \in R)
  BY <1>1, WFMin
<1>4. \A y \in T : y \in Nat /\ x \in Nat
  OBVIOUS
<1>5. \A y \in T : ~(y < x)
  BY <1>2, <1>3, <1>4
<1>6. \A y \in T : x <= y
  BY <1>4, <1>5
<1>7. QED
  BY <1>6

\* Induction up to n on a set of numbers.
LEMMA UpTo ==
    ASSUME NEW n \in Nat, NEW P, 0 \in P, \A i \in 1 .. n : i - 1 \in P => i \in P
    PROVE  \A i \in 0 .. n : i \in P
<1> DEFINE T == {i \in 0 .. n : i \notin P}
<1>1. SUFFICES ASSUME T # {} PROVE FALSE
  OBVIOUS
<1>2. PICK k \in T : \A m \in T : k <= m
  <2>1. T \subseteq Nat
    OBVIOUS
  <2> HIDE DEF T
  <2>2. QED
    BY <1>1, <2>1, LeastNat
<1>3. k \in 0 .. n /\ k \notin P /\ k # 0
  BY <1>2
<1>4. k \in 1 .. n /\ k - 1 \in 0 .. n
  BY <1>3
<1>5. k - 1 \in P
  BY <1>2, <1>3, <1>4
<1>6. QED
  BY <1>3, <1>4, <1>5

\* f[0] is c, and a step leads from each f[i - 1] to f[i].
Recurs(f, n, c, step) == f[0] = c /\ \A i \in 1 .. n : f[i] = step[<<f[i - 1], i>>]
Steps(S, n) == [S \X (1 .. n) -> S]

\* A function that is defined by recursion on 0 .. n exists.
LEMMA RecursionExists ==
    ASSUME NEW S, NEW n \in Nat, NEW c \in S, NEW step \in Steps(S, n)
    PROVE  \E f \in [0 .. n -> S] : Recurs(f, n, c, step)
<1> USE DEF Recurs, Steps
<1> DEFINE P == {k \in 0 .. n : \E f \in [0 .. k -> S] :
                    f[0] = c /\ \A i \in 1 .. k : f[i] = step[<<f[i - 1], i>>]}
<1>1. 0 \in P
  <2> DEFINE f == [i \in 0 .. 0 |-> c]
  <2>1. f \in [0 .. 0 -> S] /\ f[0] = c /\ \A i \in 1 .. 0 : f[i] = step[<<f[i - 1], i>>]
    OBVIOUS
  <2> HIDE DEF f
  <2>2. QED
    BY <2>1
<1>2. ASSUME NEW k \in 1 .. n, k - 1 \in P PROVE k \in P
  <2>1. PICK f \in [0 .. (k - 1) -> S] :
            f[0] = c /\ \A i \in 1 .. (k - 1) : f[i] = step[<<f[i - 1], i>>]
    BY <1>2
  <2>2. step[<<f[k - 1], k>>] \in S
    BY <2>1
  <2> DEFINE x == step[<<f[k - 1], k>>]
             g == [i \in 0 .. k |-> IF i = k THEN x ELSE f[i]]
  <2>3. g \in [0 .. k -> S]
    BY <2>1, <2>2
  <2>4. g[0] = c /\ g[k] = x
    BY <2>1
  <2>5. \A i \in 0 .. (k - 1) : g[i] = f[i]
    OBVIOUS
  <2>6. \A i \in 1 .. k : g[i] = step[<<g[i - 1], i>>]
    <3> HIDE DEF g
    <3> TAKE i \in 1 .. k
    <3>1. CASE i = k
      BY <2>4, <2>5, <3>1
    <3>2. CASE i # k
      BY <2>1, <2>5, <3>2
    <3>3. QED
      BY <3>1, <3>2
  <2> HIDE DEF g
  <2>7. k \in 0 .. n
    OBVIOUS
  <2>8. QED
    BY <2>3, <2>4, <2>6, <2>7
<1> HIDE DEF P
<1>3. n \in P
  BY <1>1, <1>2, UpTo
<1>4. QED
  BY <1>3 DEF P

\* The sums of the first elements of a exist.
LEMMA SumsExist ==
    ASSUME NEW n \in Nat, NEW a \in [1 .. n -> Nat]
    PROVE  \E f \in [0 .. n -> Nat] : f[0] = 0 /\ \A i \in 1 .. n : f[i] = f[i - 1] + a[i]
<1> DEFINE step == [x \in Nat \X (1 .. n) |-> x[1] + a[x[2]]]
<1>1. step \in [Nat \X (1 .. n) -> Nat]
  OBVIOUS
<1>2. \A k \in Nat, i \in 1 .. n : step[<<k, i>>] = k + a[i]
  OBVIOUS
<1> HIDE DEF step
<1>3. PICK f \in [0 .. n -> Nat] : f[0] = 0 /\ \A i \in 1 .. n : f[i] = step[<<f[i - 1], i>>]
  <2> DEFINE S == Nat
             c == 0
  <2>1. step \in Steps(S, n) /\ c \in S
    BY <1>1 DEF Steps
  <2> HIDE DEF S, c
  <2>2. \E f \in [0 .. n -> S] : Recurs(f, n, c, step)
    BY <2>1, RecursionExists
  <2>3. QED
    BY <2>2 DEF S, c, Recurs
<1>4. ASSUME NEW i \in 1 .. n PROVE f[i] = f[i - 1] + a[i]
  <2>1. i - 1 \in 0 .. n /\ f[i - 1] \in Nat
    OBVIOUS
  <2>2. QED
    BY <1>2, <1>3, <2>1
<1>5. QED
  BY <1>3, <1>4
=============================================================================

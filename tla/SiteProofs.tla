----------------------------- MODULE SiteProofs -----------------------------
(***************************************************************************)
(* Theorems about the mux, the file server and the client that follows     *)
(* redirects through them.                                                 *)
(***************************************************************************)
EXTENDS Site, DataLemmas

-----------------------------------------------------------------------------
(***************************************************************************)
(* Paths.  What Clean returns is a path again.                             *)
(***************************************************************************)
LEMMA FrontFields ==
    ASSUME NEW S, NEW s \in Seq(S), s # <<>>
    PROVE  /\ Front(s) \in Seq(S) /\ Len(Front(s)) = Len(s) - 1 /\ Len(s) \in Nat \ {0}
           /\ \A i \in 1 .. Len(s) - 1 : Front(s)[i] = s[i]
           /\ Last(s) \in S
<1>1. Len(s) \in Nat \ {0} /\ \A i \in 1 .. Len(s) : s[i] \in S
  BY EmptySeq, ElementOfSeq
<1>2. 1 \in Int /\ Len(s) - 1 \in Int /\ \A i \in 1 .. (Len(s) - 1) : s[i] \in S
  BY <1>1
<1>3. /\ SubSeq(s, 1, Len(s) - 1) \in Seq(S)
      /\ Len(SubSeq(s, 1, Len(s) - 1)) = IF 1 <= Len(s) - 1 THEN (Len(s) - 1) - 1 + 1 ELSE 0
      /\ \A i \in 1 .. (Len(s) - 1) - 1 + 1 : SubSeq(s, 1, Len(s) - 1)[i] = s[1 + i - 1]
  BY <1>2, SubSeqProperties
<1>4. Front(s) \in Seq(S) /\ Len(Front(s)) = Len(s) - 1
  <2> DEFINE k == Len(s) - 1
             u == SubSeq(s, 1, k)
  <2>1. u \in Seq(S) /\ Len(u) = (IF 1 <= k THEN (k - 1) + 1 ELSE 0) /\ k \in Nat
    BY <1>1, <1>3
  <2> HIDE DEF u, k
  <2>2. Len(u) = k
    BY <2>1
  <2>3. QED
    BY <2>1, <2>2 DEF Front, u, k
<1>5. \A i \in 1 .. Len(s) - 1 : Front(s)[i] = s[i]
  BY <1>1, <1>3 DEF Front
<1>6. Last(s) \in S
  BY <1>1 DEF Last
<1>7. QED
  BY <1>1, <1>4, <1>5, <1>6

LEMMA CleanStepTyped ==
    ASSUME NEW d \in Seq(Segment), NEW x \in Segment
    PROVE  CleanStep(d, x) \in Seq(Segment)
<1>1. Append(d, x) \in Seq(Segment)
  BY AppendProperties
<1>2. d # <<>> => Front(d) \in Seq(Segment)
  BY FrontFields
<1>3. QED
  BY <1>1, <1>2 DEF CleanStep

\* f holds what is clean of the first segments of s.
Cleans(f, s) == f[0] = <<>> /\ \A i \in 1 .. Len(s) : f[i] = CleanStep(f[i - 1], s[i])

LEMMA CleanAdds ==
    ASSUME NEW s \in Seq(Segment)
    PROVE  \E f \in [0 .. Len(s) -> Seq(Segment)] : Clean(s) = f[Len(s)] /\ Cleans(f, s)
<1> DEFINE n == Len(s)
           E(g) == [i \in 0 .. n |-> IF i = 0 THEN <<>> ELSE CleanStep(g[i - 1], s[i])]
           S == Seq(Segment)
           c == <<>>
<1>1. n \in Nat /\ \A i \in 1 .. n : s[i] \in Segment
  BY LenProperties, ElementOfSeq
<1>2. c \in S
  BY EmptySeq
<1>3. \E g : g = E(g)
  <2> DEFINE step == [x \in S \X (1 .. n) |-> CleanStep(x[1], s[x[2]])]
  <2>1. ASSUME NEW x \in S \X (1 .. n) PROVE CleanStep(x[1], s[x[2]]) \in S
    <3>1. x[1] \in Seq(Segment) /\ s[x[2]] \in Segment
      BY <1>1, <2>1
    <3>2. QED
      BY <3>1, CleanStepTyped
  <2>2. step \in [S \X (1 .. n) -> S]
    BY <2>1
  <2>3. \A d \in S, i \in 1 .. n : step[<<d, i>>] = CleanStep(d, s[i])
    OBVIOUS
  <2> HIDE DEF step, S, c, n
  <2>4. PICK g \in [0 .. n -> S] : Recurs(g, n, c, step)
    BY <1>1, <1>2, <2>2, RecursionExists DEF Steps
  <2>5. g[0] = c /\ \A i \in 1 .. n : g[i] = CleanStep(g[i - 1], s[i])
    <3>1. g[0] = c /\ \A i \in 1 .. n : g[i] = step[<<g[i - 1], i>>]
      BY <2>4 DEF Recurs
    <3>2. \A i \in 1 .. n : g[i - 1] \in S
      BY <1>1
    <3>3. QED
      BY <2>3, <3>1, <3>2
  <2>6. g = E(g)
    <3>1. \A i \in 0 .. n : g[i] = E(g)[i]
      BY <1>1, <2>5 DEF c
    <3>2. g = [i \in 0 .. n |-> g[i]]
      OBVIOUS
    <3>3. QED
      BY <3>1, <3>2
  <2>7. QED
    BY <2>6
<1>4. PICK f : Clean(s) = f[n] /\ f = E(f)
  BY <1>3 DEF Clean
<1>5. DOMAIN f = 0 .. n /\ f[0] = <<>> /\ \A i \in 1 .. n : f[i] = CleanStep(f[i - 1], s[i])
  <2>1. \A i \in 0 .. n : f[i] = E(f)[i]
    BY <1>4
  <2>2. DOMAIN f = 0 .. n
    BY <1>4
  <2>3. QED
    BY <1>1, <2>1, <2>2
<1>6. \A i \in 0 .. n : f[i] \in Seq(Segment)
  <2> DEFINE P == {i \in 0 .. n : f[i] \in Seq(Segment)}
  <2>1. 0 \in P
    <3>1. f[0] = c /\ 0 \in 0 .. n
      BY <1>1, <1>5
    <3> HIDE DEF c
    <3>2. QED
      BY <1>2, <3>1
  <2>2. ASSUME NEW i \in 1 .. n, i - 1 \in P PROVE i \in P
    <3>1. f[i - 1] \in Seq(Segment) /\ s[i] \in Segment /\ f[i] = CleanStep(f[i - 1], s[i])
      BY <1>1, <1>5, <2>2
    <3>2. f[i] \in Seq(Segment)
      BY <3>1, CleanStepTyped
    <3>3. QED
      BY <3>2
  <2>3. \A i \in 0 .. n : i \in P
    <3> HIDE DEF P, n
    <3>1. QED
      BY <1>1, <2>1, <2>2, UpTo
  <2>4. QED
    BY <2>3
<1>7. f \in [0 .. n -> Seq(Segment)]
  <2>1. f = [i \in 0 .. n |-> f[i]]
    BY <1>4, <1>5
  <2>2. QED
    BY <1>6, <2>1
<1>8. QED
  BY <1>4, <1>5, <1>7 DEF Cleans

LEMMA CleanTyped ==
    ASSUME NEW s \in Seq(Segment)
    PROVE  Clean(s) \in Seq(Segment)
<1>1. PICK f \in [0 .. Len(s) -> Seq(Segment)] : Clean(s) = f[Len(s)] /\ Cleans(f, s)
  BY CleanAdds
<1>2. Len(s) \in 0 .. Len(s)
  BY LenProperties
<1>3. QED
  BY <1>1, <1>2

\* One segment more is one step more.
LEMMA CleanAppend ==
    ASSUME NEW s \in Seq(Segment), NEW x \in Segment
    PROVE  Clean(Append(s, x)) = CleanStep(Clean(s), x)
<1> DEFINE t == Append(s, x)
           n == Len(s)
<1>1. /\ t \in Seq(Segment) /\ Len(t) = n + 1 /\ t[n + 1] = x /\ n \in Nat
      /\ \A i \in 1 .. n : t[i] = s[i]
  <2>1. n \in Nat
    BY LenProperties
  <2>2. t \in Seq(Segment) /\ Len(t) = n + 1
    BY AppendProperties
  <2>2a. t[n + 1] = x /\ \A i \in 1 .. n : t[i] = s[i]
    BY AppendProperties
  <2>3. QED
    BY <2>1, <2>2, <2>2a
<1>2. PICK f \in [0 .. n -> Seq(Segment)] : Clean(s) = f[n] /\ Cleans(f, s)
  BY CleanAdds
<1> HIDE DEF t
<1>3. PICK g \in [0 .. Len(t) -> Seq(Segment)] : Clean(t) = g[Len(t)] /\ Cleans(g, t)
  BY <1>1, CleanAdds
<1>4. \A i \in 0 .. n : g[i] = f[i]
  <2> DEFINE P == {i \in 0 .. n : g[i] = f[i]}
  <2>1. 0 \in P
    BY <1>1, <1>2, <1>3 DEF Cleans
  <2>2. \A i \in 1 .. n : i - 1 \in P => i \in P
    <3> SUFFICES ASSUME NEW i \in 1 .. n, i - 1 \in P PROVE g[i] = f[i]
      BY <1>1
    <3>1. i \in 1 .. Len(t) /\ t[i] = s[i] /\ g[i - 1] = f[i - 1]
      BY <1>1
    <3>2. QED
      BY <1>2, <1>3, <3>1 DEF Cleans
  <2>3. \A i \in 0 .. n : i \in P
    <3> HIDE DEF P, n
    <3>1. QED
      BY <1>1, <2>1, <2>2, UpTo
  <2>4. QED
    BY <2>3
<1>5. g[n + 1] = CleanStep(g[n], x)
  <2>1. n + 1 \in 1 .. Len(t) /\ (n + 1) - 1 = n
    BY <1>1
  <2>2. QED
    BY <1>1, <1>3, <2>1 DEF Cleans
<1>6. g[n] = f[n]
  BY <1>1, <1>4
<1>7. Clean(t) = CleanStep(Clean(s), x)
  BY <1>1, <1>2, <1>3, <1>5, <1>6
<1>8. QED
  BY <1>7 DEF t

LEMMA CleanEmpty == Clean(<<>>) = <<>>
<1>1. <<>> \in Seq(Segment) /\ Len(<<>>) = 0
  BY EmptySeq
<1>2. PICK f \in [0 .. Len(<<>>) -> Seq(Segment)] : Clean(<<>>) = f[Len(<<>>)] /\ Cleans(f, <<>>)
  BY <1>1, CleanAdds
<1>3. QED
  BY <1>1, <1>2 DEF Cleans

LEMMA CleanPathTyped ==
    ASSUME NEW p \in Paths
    PROVE  cleanPath(p) \in Paths /\ cleanPath(p).segs = Clean(p.segs)
<1>1. p.segs \in Seq(Segment) /\ p.slash \in BOOLEAN
  BY DEF Paths
<1>2. Clean(p.segs) \in Seq(Segment)
  BY <1>1, CleanTyped
<1>3. QED
  BY <1>1, <1>2 DEF cleanPath, Path, Paths

-----------------------------------------------------------------------------
(***************************************************************************)
(* The mux.  Whatever the order in which the patterns come, its map is     *)
(* that of the patterns registered so far: an explicit entry for each, and *)
(* an implicit one for the path of a tree that has no explicit one.        *)
(***************************************************************************)
Registered == DOMAIN Handlers \ todo

Tree(k) == [k EXCEPT !.slash = TRUE]
Implied(k, R) == k \in Patterns /\ ~k.slash /\ k \notin R /\ Tree(k) \in R

MuxOf(m, R) ==
    /\ DOMAIN m = R \cup {k \in Patterns : Implied(k, R)}
    /\ \A k \in R : m[k] = [explicit |-> TRUE, h |-> Handlers[k]]
    /\ \A k \in Patterns : Implied(k, R) => m[k] = [explicit |-> FALSE, h |-> RedirectHandler(Tree(k))]

MuxInv == todo \subseteq DOMAIN Handlers /\ MuxOf(mux, Registered)

LEMMA PatternFields ==
    /\ \A k \in Patterns : Tree(k) \in Patterns /\ Tree(k).slash /\ Tree(k).segs = k.segs
                           /\ Tree(k).host = k.host
    /\ \A k, j \in Patterns : k = j <=> k.host = j.host /\ k.segs = j.segs /\ k.slash = j.slash
    /\ \A k \in Patterns : LET b == [k EXCEPT !.slash = FALSE] IN
          b \in Patterns /\ ~b.slash /\ b.segs = k.segs /\ b.host = k.host
    /\ \A h, s, l : h \in Segment \cup {AnyHost} /\ s \in Seq(Segment) /\ l \in BOOLEAN
                    => Pattern(h, s, l) \in Patterns
    /\ \A h, s, l : LET k == Pattern(h, s, l) IN k.host = h /\ k.segs = s /\ k.slash = l
<1>1. \A k \in Patterns : Tree(k) \in Patterns /\ Tree(k).slash /\ Tree(k).segs = k.segs
                          /\ Tree(k).host = k.host
  BY DEF Patterns, Tree
<1>2. ASSUME NEW k \in Patterns, NEW j \in Patterns,
             k.host = j.host, k.segs = j.segs, k.slash = j.slash
      PROVE  k = j
  <2>1. /\ k = [host |-> k.host, segs |-> k.segs, slash |-> k.slash]
        /\ j = [host |-> j.host, segs |-> j.segs, slash |-> j.slash]
    BY DEF Patterns
  <2>2. QED
    BY <1>2, <2>1
<1>3. \A k \in Patterns : LET b == [k EXCEPT !.slash = FALSE] IN
          b \in Patterns /\ ~b.slash /\ b.segs = k.segs /\ b.host = k.host
  BY DEF Patterns
<1>4. \A h, s, l : h \in Segment \cup {AnyHost} /\ s \in Seq(Segment) /\ l \in BOOLEAN
                   => Pattern(h, s, l) \in Patterns
  BY DEF Patterns, Pattern
<1>5. \A h, s, l : LET k == Pattern(h, s, l) IN k.host = h /\ k.segs = s /\ k.slash = l
  BY DEF Pattern
<1>6. QED
  BY <1>1, <1>2, <1>3, <1>4, <1>5

LEMMA SamePattern ==
    ASSUME NEW j \in Patterns, NEW k \in Patterns, j.host = k.host, j.segs = k.segs,
           j.slash <=> k.slash
    PROVE  j = k
<1>1. j.slash = k.slash
  BY DEF Patterns
<1>2. QED
  BY <1>1, PatternFields

LEMMA LengthOf ==
    ASSUME NEW k \in Patterns
    PROVE  /\ Len(k.segs) \in Nat /\ k.segs \in Seq(Segment)
           /\ k.slash => PatternLen(k) = 2 * Len(k.segs) + 1
           /\ ~k.slash => PatternLen(k) = 2 * Len(k.segs)
<1>1. k.segs \in Seq(Segment) /\ k.slash \in BOOLEAN
  BY DEF Patterns
<1>2. Len(k.segs) \in Nat
  BY <1>1, LenProperties
<1> DEFINE n == Len(k.segs)
<1>3. PatternLen(k) = 2 * n + (IF k.slash THEN 1 ELSE 0) /\ n \in Nat
  BY <1>2 DEF PatternLen
<1> HIDE DEF n
<1>4. k.slash => PatternLen(k) = 2 * n + 1
  BY <1>3
<1>5. ~k.slash => PatternLen(k) = 2 * n
  BY <1>3
<1>6. QED
  BY <1>1, <1>2, <1>4, <1>5 DEF n

LEMMA HandleKeeps ==
    ASSUME NEW m, NEW R, MuxOf(m, R), R \subseteq Patterns, NEW q \in Patterns \ R
    PROVE  MuxOf(Handle(m, q, Handlers[q]), R \cup {q})
<1> DEFINE tree == [q EXCEPT !.slash = FALSE]
           implicit == q.slash /\ ~(tree \in DOMAIN m /\ m[tree].explicit)
           keys == DOMAIN m \cup {q} \cup (IF implicit THEN {tree} ELSE {})
           n == Handle(m, q, Handlers[q])
           T == R \cup {q}
<1>0. tree \in Patterns /\ ~tree.slash /\ tree.segs = q.segs /\ tree.host = q.host
  BY PatternFields
<1>1. /\ DOMAIN n = keys
      /\ \A k \in keys : n[k] =
            IF k = q THEN [explicit |-> TRUE, h |-> Handlers[q]]
            ELSE IF implicit /\ k = tree THEN [explicit |-> FALSE, h |-> RedirectHandler(q)]
            ELSE m[k]
  BY DEF Handle
<1>2. ASSUME NEW k \in Patterns, Tree(k) = q PROVE q.slash /\ (~k.slash => k = tree)
  <2>1. q.slash /\ q.segs = k.segs /\ q.host = k.host
    BY <1>2, PatternFields
  <2>2. k.slash \in BOOLEAN /\ tree.slash \in BOOLEAN
    BY <1>0 DEF Patterns
  <2> HIDE DEF tree
  <2>3. ~k.slash => k.slash = tree.slash
    BY <1>0, <2>2
  <2>4. QED
    BY <1>0, <2>1, <2>3, PatternFields
<1>3. q.slash => Tree(tree) = q
  <2>1. Tree(tree) \in Patterns /\ Tree(tree).slash /\ Tree(tree).segs = q.segs
        /\ Tree(tree).host = q.host
    BY <1>0, PatternFields
  <2>2. q \in Patterns /\ q.slash \in BOOLEAN
    BY DEF Patterns
  <2>3. QED
    BY <2>1, <2>2, PatternFields
<1>4. implicit <=> q.slash /\ tree \notin R
  <2>1. CASE tree \in R
    <3>1. tree \in DOMAIN m /\ m[tree] = [explicit |-> TRUE, h |-> Handlers[tree]]
      BY <2>1 DEF MuxOf
    <3>2. QED
      BY <2>1, <3>1
  <2>2. CASE tree \notin R
    <3>1. tree \in DOMAIN m => Implied(tree, R)
      BY <2>2 DEF MuxOf
    <3>2. tree \in DOMAIN m => m[tree] = [explicit |-> FALSE, h |-> RedirectHandler(Tree(tree))]
      BY <1>0, <3>1 DEF MuxOf
    <3>3. tree \in DOMAIN m => ~m[tree].explicit
      BY <3>2
    <3>4. QED
      BY <2>2, <3>3
  <2>3. QED
    BY <2>1, <2>2
<1>5. q.slash => tree # q
  BY <1>0
<1> HIDE DEF tree, implicit, n
<1>6. \A k \in Patterns : Implied(k, T) <=> k # q /\ (Implied(k, R) \/ (implicit /\ k = tree))
  <2> SUFFICES ASSUME NEW k \in Patterns
               PROVE  Implied(k, T) <=> k # q /\ (Implied(k, R) \/ (implicit /\ k = tree))
    OBVIOUS
  <2>1. ASSUME Implied(k, T) PROVE k # q /\ (Implied(k, R) \/ (implicit /\ k = tree))
    BY <1>2, <1>4, <2>1 DEF Implied
  <2>2. ASSUME k # q, Implied(k, R) PROVE Implied(k, T)
    BY <2>2 DEF Implied
  <2>3. ASSUME k # q, implicit, k = tree PROVE Implied(k, T)
    BY <1>0, <1>3, <1>4, <2>3 DEF Implied
  <2>4. QED
    BY <2>1, <2>2, <2>3
<1>7. DOMAIN n = T \cup {k \in Patterns : Implied(k, T)}
  <2>1. DOMAIN m = R \cup {k \in Patterns : Implied(k, R)}
    BY DEF MuxOf
  <2>2. keys = R \cup {q} \cup {k \in Patterns : Implied(k, R) \/ (implicit /\ k = tree)}
    BY <1>0, <2>1
  <2> HIDE DEF keys
  <2>3. QED
    BY <1>1, <1>6, <2>2
<1>8. ASSUME NEW k \in T PROVE n[k] = [explicit |-> TRUE, h |-> Handlers[k]]
  <2>1. CASE k = q
    BY <1>1, <2>1
  <2>2. CASE k # q
    <3>1. k \in R /\ k \in keys /\ m[k] = [explicit |-> TRUE, h |-> Handlers[k]]
      BY <1>8, <2>2 DEF MuxOf
    <3>2. ~(implicit /\ k = tree)
      BY <1>4, <3>1
    <3>3. QED
      BY <1>1, <2>2, <3>1, <3>2
  <2>3. QED
    BY <2>1, <2>2
<1>9. ASSUME NEW k \in Patterns, Implied(k, T)
      PROVE  n[k] = [explicit |-> FALSE, h |-> RedirectHandler(Tree(k))]
  <2>1. CASE implicit /\ k = tree
    <3>1. k \in keys /\ k # q /\ Tree(k) = q
      BY <1>3, <1>4, <1>6, <1>9, <2>1
    <3>2. QED
      BY <1>1, <2>1, <3>1
  <2>2. CASE ~(implicit /\ k = tree)
    <3>1. Implied(k, R) /\ k # q
      BY <1>6, <1>9, <2>2
    <3>2. k \in keys /\ m[k] = [explicit |-> FALSE, h |-> RedirectHandler(Tree(k))]
      BY <3>1 DEF MuxOf
    <3>3. QED
      BY <1>1, <2>2, <3>1, <3>2
  <2>3. QED
    BY <2>1, <2>2
<1>10. MuxOf(n, T)
  BY <1>7, <1>8, <1>9 DEF MuxOf
<1>11. QED
  BY <1>10 DEF n

LEMMA MuxInit ==
    ASSUME Init
    PROVE  MuxInv
<1>1. todo = DOMAIN Handlers /\ mux = <<>> /\ Registered = {}
  BY DEF Init, Registered
<1>2. MuxOf(<<>>, {})
  BY DEF MuxOf, Implied
<1>3. QED
  BY <1>1, <1>2 DEF MuxInv

\* The mux changes where a pattern is registered, and nowhere else.
LEMMA MuxFrame ==
    ASSUME [Next]_vars
    PROVE  UNCHANGED <<mux, todo>> \/ \E pattern \in todo : Register(pattern)
  BY DEF Next, vars, StartGet, Get, Send, Follow, GiveUp, Got, BodyEnds, CloseBody, Keep, Serve,
     CopyByte, CopyEnds, WritePart, PartFails, Swap, Rewrite, Changed

LEMMA MuxNext ==
    ASSUME MuxInv, [Next]_vars
    PROVE  MuxInv'
<1>1. CASE UNCHANGED <<mux, todo>>
  BY <1>1 DEF MuxInv, Registered
<1>2. ASSUME NEW q \in todo, Register(q) PROVE MuxInv'
  <2>1. mux' = Handle(mux, q, Handlers[q]) /\ todo' = todo \ {q}
    BY <1>2 DEF Register
  <2>2. /\ q \in Patterns \ Registered /\ Registered \subseteq Patterns
        /\ todo \subseteq DOMAIN Handlers
    BY SiteAssumption DEF MuxInv, Registered
  <2>3. Registered' = Registered \cup {q}
    BY <2>1, <2>2 DEF Registered
  <2>4. MuxOf(mux', Registered \cup {q})
    BY <2>1, <2>2, HandleKeeps DEF MuxInv
  <2>5. QED
    BY <2>1, <2>2, <2>3, <2>4 DEF MuxInv, MuxOf
<1>3. QED
  BY <1>1, <1>2, MuxFrame

LEMMA SamePrefix ==
    ASSUME NEW S, NEW s \in Seq(S), NEW t \in Seq(S), NEW u \in Seq(S)
    PROVE  /\ IsPrefix(s, u) /\ IsPrefix(t, u) /\ Len(s) = Len(t) => s = t
           /\ IsPrefix(u, u)
           /\ IsPrefix(s, u) => Len(s) <= Len(u)
           /\ Len(s) \in Nat
<1>1. SubSeq(s, 1, Len(s)) = s /\ SubSeq(t, 1, Len(t)) = t /\ Len(s) \in Nat /\ Len(u) \in Nat
  BY SubSeqFull, LenProperties
<1>2. IsPrefix(s, u) /\ IsPrefix(t, u) /\ Len(s) = Len(t) => s = t
  BY <1>1 DEF IsPrefix
<1>3. IsPrefix(u, u) /\ (IsPrefix(s, u) => Len(s) <= Len(u))
  BY <1>1 DEF IsPrefix
<1>4. QED
  BY <1>1, <1>2, <1>3

\* Two patterns that match one path and have one length are one pattern.
LEMMA OneLongest ==
    ASSUME NEW host, NEW p \in Paths, NEW j \in Patterns, NEW k \in Patterns,
           pathMatch(j, host, p), pathMatch(k, host, p), PatternLen(j) = PatternLen(k)
    PROVE  j = k
<1>1. /\ j.segs \in Seq(Segment) /\ k.segs \in Seq(Segment) /\ p.segs \in Seq(Segment)
      /\ j.slash \in BOOLEAN /\ k.slash \in BOOLEAN
  BY DEF Patterns, Paths
<1>2. Len(j.segs) \in Nat /\ Len(k.segs) \in Nat
  BY <1>1, LenProperties
<1>3. (j.slash <=> k.slash) /\ Len(j.segs) = Len(k.segs)
  <2> DEFINE a == Len(j.segs)
             b == Len(k.segs)
  <2>1. /\ j.slash => PatternLen(j) = 2 * a + 1
        /\ ~j.slash => PatternLen(j) = 2 * a
        /\ k.slash => PatternLen(k) = 2 * b + 1
        /\ ~k.slash => PatternLen(k) = 2 * b
        /\ a \in Nat /\ b \in Nat
    BY LengthOf
  <2> HIDE DEF a, b
  <2>2. QED
    BY <2>1 DEF a, b
<1>4. IsPrefix(j.segs, p.segs) /\ IsPrefix(k.segs, p.segs) /\ j.host = host /\ k.host = host
  BY <1>1, SamePrefix DEF pathMatch
<1>5. j.segs = k.segs
  BY <1>1, <1>3, <1>4, SamePrefix
<1>6. QED
  BY <1>3, <1>4, <1>5, SamePattern

LEMMA Chosen ==
    ASSUME NEW host, NEW p \in Paths, NEW F \in SUBSET Patterns,
           \A k \in F : pathMatch(k, host, p),
           NEW e \in F, \A j \in F : PatternLen(j) <= PatternLen(e)
    PROVE  (CHOOSE k \in F : \A j \in F : PatternLen(j) <= PatternLen(k)) = e
<1> DEFINE c == CHOOSE k \in F : \A j \in F : PatternLen(j) <= PatternLen(k)
<1>1. c \in F /\ \A j \in F : PatternLen(j) <= PatternLen(c)
  OBVIOUS
<1> HIDE DEF c
<1>2. PatternLen(e) \in Int /\ PatternLen(c) \in Int
  <2>1. \A k \in Patterns : Len(k.segs) \in Nat
    BY LenProperties DEF Patterns
  <2>2. QED
    BY <1>1, <2>1 DEF PatternLen
<1>3. PatternLen(c) = PatternLen(e)
  BY <1>1, <1>2
<1>4. c = e
  BY <1>1, <1>3, OneLongest
<1>5. QED
  BY <1>4 DEF c

LEMMA MatchIsRoute ==
    ASSUME NEW m, MuxOf(m, DOMAIN Handlers), NEW host \in Segment \cup {AnyHost}, NEW p \in Paths
    PROVE  /\ match(m, host, p) = Route(host, p)
           /\ \/ Route(host, p) = Nil
              \/ \E k \in DOMAIN Handlers :
                    Route(host, p) \in {Handlers[k], RedirectHandler(k)} /\ k.host = host
<1> DEFINE R == DOMAIN Handlers
           found == {k \in DOMAIN m : pathMatch(k, host, p)}
           exact == Pattern(host, p.segs, p.slash)
           tree == Pattern(host, p.segs, TRUE)
           above == {k \in R : k.host = host /\ k.slash /\ IsPrefix(k.segs, p.segs)}
<1>1. p.segs \in Seq(Segment) /\ p.slash \in BOOLEAN /\ Len(p.segs) \in Nat
  BY LenProperties DEF Paths
<1>2. R \subseteq Patterns
  BY SiteAssumption
<1>3. found \subseteq Patterns /\ DOMAIN m = R \cup {k \in Patterns : Implied(k, R)}
  BY <1>2 DEF MuxOf
<1>4. /\ exact \in Patterns /\ exact.host = host /\ exact.segs = p.segs /\ exact.slash = p.slash
      /\ tree \in Patterns /\ tree.host = host /\ tree.segs = p.segs /\ tree.slash = TRUE
  <2>1. exact \in Patterns /\ tree \in Patterns
    BY <1>1 DEF Patterns, Pattern
  <2>2. QED
    BY <2>1 DEF Pattern
<1>5. pathMatch(exact, host, p)
  BY <1>1, <1>4, SamePrefix DEF pathMatch
<1>6. \A k \in Patterns : /\ Len(k.segs) \in Nat /\ k.slash \in BOOLEAN /\ k.segs \in Seq(Segment)
                          /\ k.slash => PatternLen(k) = 2 * Len(k.segs) + 1
                          /\ ~k.slash => PatternLen(k) = 2 * Len(k.segs)
  <2>1. \A k \in Patterns : k.slash \in BOOLEAN
    BY DEF Patterns
  <2>2. QED
    BY <2>1, LengthOf
<1>7. ASSUME NEW j \in Patterns, pathMatch(j, host, p) PROVE PatternLen(j) <= PatternLen(exact)
  <2>1. Len(j.segs) \in Nat /\ Len(exact.segs) = Len(p.segs)
    BY <1>4, <1>6
  <2>2. CASE ~j.slash
    <3>1. j.segs = p.segs /\ ~p.slash
      BY <1>7, <2>2 DEF pathMatch
    <3>2. QED
      BY <1>1, <1>4, <1>6, <2>2, <3>1
  <2>3. CASE j.slash
    <3>1. Len(j.segs) <= Len(p.segs) /\ (Len(p.segs) > Len(j.segs) \/ p.slash)
      BY <1>7, <2>3 DEF pathMatch, IsPrefix
    <3>2. QED
      BY <1>1, <1>4, <1>6, <2>1, <2>3, <3>1
  <2>4. QED
    BY <2>2, <2>3
<1> HIDE DEF exact, tree
<1>8. CASE exact \in DOMAIN m
  <2>1. exact \in found
    BY <1>5, <1>8
  <2>2. (CHOOSE k \in found : \A j \in found : PatternLen(j) <= PatternLen(k)) = exact
    <3>1. \A k \in found : pathMatch(k, host, p)
      OBVIOUS
    <3>2. \A j \in found : PatternLen(j) <= PatternLen(exact)
      BY <1>3, <1>7
    <3> HIDE DEF found
    <3>3. QED
      BY <1>3, <2>1, <3>1, <3>2, Chosen
  <2>3. match(m, host, p) = m[exact].h
    BY <2>1, <2>2 DEF match
  <2>4. CASE exact \in R
    <3>1. m[exact] = [explicit |-> TRUE, h |-> Handlers[exact]]
      BY <2>4 DEF MuxOf
    <3>2. Route(host, p) = Handlers[exact]
      BY <2>4 DEF Route, exact
    <3>3. QED
      BY <1>4, <2>3, <2>4, <3>1, <3>2
  <2>5. CASE exact \notin R
    <3>1. Implied(exact, R)
      BY <1>3, <1>8, <2>5
    <3>2. Tree(exact) = tree
      <4>1. Tree(exact) \in Patterns /\ Tree(exact).slash = TRUE /\ Tree(exact).segs = p.segs
            /\ Tree(exact).host = host
        BY <1>4, PatternFields DEF Tree, Patterns
      <4>2. QED
        BY <1>4, <4>1, SamePattern
    <3>3. tree \in R /\ m[exact] = [explicit |-> FALSE, h |-> RedirectHandler(tree)]
      BY <1>4, <3>1, <3>2 DEF MuxOf, Implied
    <3>4. Route(host, p) = RedirectHandler(tree)
      BY <2>5, <3>3 DEF Route, exact, tree
    <3>5. QED
      BY <1>4, <2>3, <3>3, <3>4
  <2>6. QED
    BY <2>4, <2>5
<1>9. CASE exact \notin DOMAIN m
  <2>1. exact \notin R /\ tree \notin R
    <3>1. exact \notin R /\ ~Implied(exact, R)
      BY <1>3, <1>4, <1>9
    <3>2. CASE p.slash
      <4>1. exact = tree
        BY <1>1, <1>4, <3>2, SamePattern
      <4>2. QED
        BY <3>1, <4>1
    <3>3. CASE ~p.slash
      <4>1. Tree(exact) \notin R
        BY <1>4, <3>1, <3>3 DEF Implied
      <4>2. Tree(exact) \in Patterns /\ Tree(exact).slash = TRUE /\ Tree(exact).segs = p.segs
            /\ Tree(exact).host = host
        BY <1>4, PatternFields DEF Tree, Patterns
      <4>3. Tree(exact) = tree
        BY <1>4, <4>2, SamePattern
      <4>4. QED
        BY <3>1, <4>1, <4>3
    <3>4. QED
      BY <1>1, <3>2, <3>3
  <2>2. ASSUME NEW k \in found PROVE k \in above
    <3>1. k \in Patterns /\ pathMatch(k, host, p) /\ k.host = host
      BY <1>3 DEF pathMatch
    <3>2. k.slash
      <4>1. SUFFICES ASSUME ~k.slash PROVE FALSE
        OBVIOUS
      <4>2. k.segs = p.segs /\ ~p.slash
        BY <3>1, <4>1 DEF pathMatch
      <4>3. k = exact
        BY <1>1, <1>4, <1>6, <3>1, <4>1, <4>2, SamePattern
      <4>4. QED
        BY <1>9, <4>3
    <3>3. k \in R
      BY <1>3, <3>2 DEF Implied
    <3>4. QED
      BY <3>1, <3>2, <3>3 DEF pathMatch
  <2>3. ASSUME NEW k \in above PROVE k \in found
    <3>1. k \in Patterns /\ k \in DOMAIN m /\ Len(k.segs) \in Nat /\ Len(k.segs) <= Len(p.segs)
      BY <1>2, <1>3, <1>6 DEF IsPrefix
    <3>2. Len(k.segs) # Len(p.segs)
      <4>1. SUFFICES ASSUME Len(k.segs) = Len(p.segs) PROVE FALSE
        OBVIOUS
      <4>2. k.segs = p.segs
        BY <1>1, <1>6, <3>1, <4>1, SamePrefix
      <4>3. k = tree
        BY <1>4, <1>6, <3>1, <4>2, SamePattern
      <4>4. QED
        BY <2>1, <4>3
    <3>3. QED
      BY <1>1, <3>1, <3>2 DEF pathMatch
  <2>4. found = above
    BY <2>2, <2>3
  <2>5. CASE above = {}
    BY <2>1, <2>4, <2>5 DEF match, Route, exact, tree
  <2>6. CASE above # {}
    <3> DEFINE D == {Len(p.segs) - Len(k.segs) : k \in above}
    <3>1. \A k \in above : k \in Patterns /\ k.slash /\ Len(k.segs) \in Nat /\ Len(k.segs) <= Len(p.segs)
                           /\ pathMatch(k, host, p)
      BY <1>2, <1>6, <2>4 DEF IsPrefix
    <3> HIDE DEF above
    <3>2. D \subseteq Nat /\ D # {}
      <4>1. \A k \in above : Len(p.segs) - Len(k.segs) \in Nat
        BY <1>1, <3>1
      <4>2. QED
        BY <2>6, <4>1
    <3>3. PICK d \in D : \A x \in D : d <= x
      <4> HIDE DEF D
      <4>1. QED
        BY <3>2, LeastNat
    <3>4. PICK e \in above : d = Len(p.segs) - Len(e.segs)
      OBVIOUS
    <3>5. \A j \in above : Len(j.segs) <= Len(e.segs)
      <4>1. \A j \in above : Len(p.segs) - Len(e.segs) <= Len(p.segs) - Len(j.segs)
        BY <3>3, <3>4
      <4>2. QED
        BY <1>1, <3>1, <4>1
    <3>6. \A j \in above : PatternLen(j) <= PatternLen(e)
      BY <1>6, <3>1, <3>5
    <3>7. (CHOOSE k \in above : \A j \in above : PatternLen(j) <= PatternLen(k)) = e
      BY <3>1, <3>6, Chosen
    <3>8. (CHOOSE k \in above : \A j \in above : Len(j.segs) <= Len(k.segs)) = e
      <4> DEFINE c == CHOOSE k \in above : \A j \in above : Len(j.segs) <= Len(k.segs)
      <4>1. c \in above /\ \A j \in above : Len(j.segs) <= Len(c.segs)
        BY <3>5
      <4> HIDE DEF c
      <4>2. Len(c.segs) = Len(e.segs)
        BY <3>1, <3>5, <4>1
      <4>3. PatternLen(c) = PatternLen(e)
        BY <1>6, <3>1, <4>1, <4>2
      <4>4. c = e
        BY <3>1, <4>1, <4>3, OneLongest
      <4>5. QED
        BY <4>4 DEF c
    <3>9. match(m, host, p) = m[e].h
      BY <2>4, <2>6, <3>7 DEF match
    <3>10. e \in R /\ m[e] = [explicit |-> TRUE, h |-> Handlers[e]]
      BY DEF above, MuxOf
    <3>11. Route(host, p) = Handlers[e]
      BY <2>1, <2>6, <3>8 DEF Route, above, exact, tree
    <3>12. e.host = host
      BY DEF above
    <3>13. QED
      BY <3>9, <3>10, <3>11, <3>12
  <2>7. QED
    BY <2>5, <2>6
<1>10. QED
  BY <1>8, <1>9

LEMMA HandlerIsRoute ==
    ASSUME MuxInv, todo = {}, NEW p \in Paths
    PROVE  handler(mux, Host, p) = RouteOf(p)
<1>1. Host \in Segment
  BY SiteAssumption
<1>2. MuxOf(mux, DOMAIN Handlers)
  BY DEF MuxInv, Registered
<1>3. match(mux, Host, p) = Route(Host, p) /\ match(mux, AnyHost, p) = Route(AnyHost, p)
  BY <1>1, <1>2, MatchIsRoute
<1>4. QED
  BY <1>3 DEF handler, RouteOf

\* Once all patterns are registered, in whatever order Handle was called, the mux routes
\* by the set of patterns alone: the path itself, then the tree of that name, then the
\* longest tree around it, with a host first.  An implicit redirect that Handle adds for
\* a tree never takes the place of an explicit handler, whichever of the two came first,
\* for any set of patterns.
THEOREM MuxRoutesByPattern == Spec => []RoutesByPattern
<1>1. ASSUME MuxInv PROVE RoutesByPattern
  <2> SUFFICES ASSUME todo = {}, NEW ask \in Gets
               PROVE  handler(mux, Host, cleanPath(ask.path)) = RouteOf(cleanPath(ask.path))
    BY DEF RoutesByPattern
  <2>1. cleanPath(ask.path) \in Paths
    BY SiteAssumption, CleanPathTyped
  <2>2. QED
    BY <1>1, <2>1, HandlerIsRoute
<1>2. Init => MuxInv
  BY MuxInit
<1>3. MuxInv /\ [Next]_vars => MuxInv'
  BY MuxNext
<1>4. QED
  BY <1>1, <1>2, <1>3, PTL DEF Spec

-----------------------------------------------------------------------------
(***************************************************************************)
(* What a request gets.  Every reply has its type; one with content has    *)
(* at least one range, and no range is negative.                           *)
(***************************************************************************)
RangeSet == [start : Nat, length : Nat]
ReplyFields == {"code", "page", "location", "lastmod", "file", "ranges", "multi"}

GoodReply(r) ==
    /\ DOMAIN r = ReplyFields /\ r.page \in Pages /\ r.code \in Nat
    /\ r.location \in Refs \cup {Nil} /\ r.lastmod \in Nat \cup {Nil}
    /\ r.page = "content" =>
          /\ r.file \in DOMAIN FirstFiles /\ r.multi = (Len(r.ranges) > 1)
          /\ r.ranges \in Seq(RangeSet) /\ r.ranges # <<>>

GoodRequest(q) ==
    /\ DOMAIN q = {"scheme", "path", "method", "creds", "range", "since"}
    /\ q.scheme \in {"http", "file"} /\ q.path \in Paths
    /\ q.range \in Specs \cup {Nil} /\ q.since \in Nat \cup {Nil}

GoodRoute(h) ==
    /\ h \in Routes
    /\ h.kind = "redirect" => h.to # Nil /\ h.code \in {301, 302, 303, 307}

LEMMA PlainReply ==
    ASSUME NEW code \in Nat, NEW page \in Pages, NEW location \in Refs \cup {Nil}
    PROVE  /\ page # "content" => GoodReply(Reply(code, page, location))
           /\ Reply(code, page, location).code = code
           /\ Reply(code, page, location).page = page
           /\ Reply(code, page, location).location = location
           /\ Reply(code, page, location).lastmod = Nil
<1> DEFINE r == Reply(code, page, location)
<1>1. /\ DOMAIN r = ReplyFields /\ r.code = code /\ r.page = page /\ r.location = location
      /\ r.lastmod = Nil
  BY DEF Reply, ReplyFields
<1> HIDE DEF r
<1>2. page # "content" => GoodReply(r)
  BY <1>1 DEF GoodReply
<1>3. QED
  BY <1>1, <1>2 DEF r

LEMMA OneRangeTyped ==
    ASSUME NEW size \in Nat, NEW spec \in [start : Nat \cup {Nil}, end : Nat \cup {Nil}],
           ~BadRange(spec, size)
    PROVE  OneRange(spec, size) \in RangeSet
<1>0. Nil \notin Nat
  BY SiteAssumption
<1>1. CASE spec.start = Nil
  <2>1. spec.end \in Nat
    BY <1>1 DEF BadRange
  <2>2. Least(spec.end, size) \in Nat /\ size - Least(spec.end, size) \in Nat
    BY <2>1 DEF Least
  <2>3. QED
    BY <1>1, <2>2 DEF OneRange, RangeSet
<1>2. CASE spec.start # Nil /\ spec.end = Nil
  <2>1. spec.start \in Nat /\ spec.start <= size
    BY <1>2 DEF BadRange
  <2>2. size - spec.start \in Nat
    BY <2>1
  <2>3. QED
    BY <1>2, <2>1, <2>2 DEF OneRange, RangeSet
<1>3. CASE spec.start # Nil /\ spec.end # Nil
  <2>1. spec.start \in Nat /\ spec.end \in Nat /\ spec.start <= size /\ spec.start <= spec.end
    BY <1>3 DEF BadRange
  <2>2. Least(spec.end, size - 1) - spec.start + 1 \in Nat
    BY <2>1 DEF Least
  <2>3. QED
    BY <1>3, <2>1, <2>2 DEF OneRange, RangeSet
<1>4. QED
  BY <1>1, <1>2, <1>3

LEMMA ParseTyped ==
    ASSUME NEW size \in Nat, NEW header \in Specs \cup {Nil}, parseRange(header, size) # Nil
    PROVE  parseRange(header, size) \in Seq(RangeSet)
<1>1. CASE header = Nil
  BY <1>1, EmptySeq DEF parseRange
<1>2. CASE header # Nil
  <2> DEFINE n == Len(header)
             f == [i \in 1 .. n |-> OneRange(header[i], size)]
  <2>1. /\ n \in Nat /\ DOMAIN header = 1 .. n
        /\ \A i \in 1 .. n : header[i] \in [start : Nat \cup {Nil}, end : Nat \cup {Nil}]
    BY <1>2, LenProperties, ElementOfSeq DEF Specs
  <2>2. \A i \in 1 .. n : ~BadRange(header[i], size)
    BY <1>2, <2>1 DEF parseRange
  <2>3. parseRange(header, size) = f
    BY <1>2, <2>1, <2>2 DEF parseRange
  <2>4. \A i \in 1 .. n : OneRange(header[i], size) \in RangeSet
    BY <2>1, <2>2, OneRangeTyped
  <2>5. f \in [1 .. n -> RangeSet]
    BY <2>4
  <2> HIDE DEF f, n
  <2>6. f \in Seq(RangeSet)
    BY <2>1, <2>5
  <2>7. QED
    BY <2>3, <2>6
<1>3. QED
  BY <1>1, <1>2

\* f holds the sums of the first lengths.
Totals(f, rs) == f[0] = 0 /\ \A i \in 1 .. Len(rs) : f[i] = f[i - 1] + rs[i].length

LEMMA SumAdds ==
    ASSUME NEW rs \in Seq(RangeSet)
    PROVE  \E f \in [0 .. Len(rs) -> Nat] : sumRangesSize(rs) = f[Len(rs)] /\ Totals(f, rs)
<1> DEFINE n == Len(rs)
           E(g) == [i \in 0 .. n |-> IF i = 0 THEN 0 ELSE g[i - 1] + rs[i].length]
<1>1. n \in Nat /\ \A i \in 1 .. n : rs[i].length \in Nat
  <2>1. n \in Nat
    BY LenProperties
  <2>2. \A i \in 1 .. n : rs[i] \in RangeSet
    BY ElementOfSeq
  <2>3. QED
    BY <2>1, <2>2 DEF RangeSet
<1>2. \E g : g = E(g)
  <2> DEFINE a == [i \in 1 .. n |-> rs[i].length]
  <2>1. a \in [1 .. n -> Nat] /\ \A i \in 1 .. n : a[i] = rs[i].length
    BY <1>1
  <2> HIDE DEF a, n
  <2>2. PICK g \in [0 .. n -> Nat] : g[0] = 0 /\ \A i \in 1 .. n : g[i] = g[i - 1] + a[i]
    BY <1>1, <2>1, SumsExist
  <2>3. \A i \in 1 .. n : g[i] = g[i - 1] + rs[i].length
    BY <2>1, <2>2
  <2>4. g = E(g)
    <3>1. \A i \in 0 .. n : g[i] = E(g)[i]
      BY <1>1, <2>2, <2>3
    <3>2. g = [i \in 0 .. n |-> g[i]]
      OBVIOUS
    <3>3. QED
      BY <3>1, <3>2
  <2>5. QED
    BY <2>4
<1>3. PICK f : sumRangesSize(rs) = f[n] /\ f = E(f)
  BY <1>2 DEF sumRangesSize
<1>4. DOMAIN f = 0 .. n /\ f[0] = 0 /\ \A i \in 1 .. n : f[i] = f[i - 1] + rs[i].length
  <2>1. \A i \in 0 .. n : f[i] = E(f)[i]
    BY <1>3
  <2>2. DOMAIN f = 0 .. n
    BY <1>3
  <2>3. QED
    BY <1>1, <2>1, <2>2
<1>5. \A i \in 0 .. n : f[i] \in Nat
  <2> DEFINE P == {i \in 0 .. n : f[i] \in Nat}
  <2>1. 0 \in P
    BY <1>1, <1>4
  <2>2. \A i \in 1 .. n : i - 1 \in P => i \in P
    BY <1>1, <1>4
  <2>3. \A i \in 0 .. n : i \in P
    <3> HIDE DEF P, n
    <3>1. QED
      BY <1>1, <2>1, <2>2, UpTo
  <2>4. QED
    BY <2>3
<1>6. f \in [0 .. n -> Nat]
  <2>1. f = [i \in 0 .. n |-> f[i]]
    BY <1>3, <1>4
  <2>2. QED
    BY <1>5, <2>1
<1>7. QED
  BY <1>3, <1>4, <1>6 DEF Totals

LEMMA SumTyped ==
    ASSUME NEW rs \in Seq(RangeSet)
    PROVE  sumRangesSize(rs) \in Nat /\ rangesMIMESize(rs) \in Nat
<1>1. PICK f \in [0 .. Len(rs) -> Nat] : sumRangesSize(rs) = f[Len(rs)]
  BY SumAdds
<1>2. Len(rs) \in Nat
  BY LenProperties
<1>3. sumRangesSize(rs) \in Nat
  BY <1>1, <1>2
<1>4. QED
  BY <1>2, <1>3 DEF rangesMIMESize

LEMMA SendSizeTyped ==
    ASSUME NEW r, GoodReply(r), r.page = "content"
    PROVE  SendSize(r) \in Nat /\ r.ranges[1] \in RangeSet /\ r.ranges[1].start \in Nat
<1>1. r.ranges \in Seq(RangeSet) /\ r.ranges # <<>>
  BY DEF GoodReply
<1>2. r.ranges[1] \in RangeSet
  <2>1. Len(r.ranges) \in Nat \ {0}
    BY <1>1, EmptySeq
  <2>2. 1 \in 1 .. Len(r.ranges)
    BY <2>1
  <2>3. QED
    BY <1>1, <2>2, ElementOfSeq
<1>3. r.ranges[1].length \in Nat /\ r.ranges[1].start \in Nat
  BY <1>2 DEF RangeSet
<1>4. rangesMIMESize(r.ranges) \in Nat
  BY <1>1, SumTyped
<1>5. QED
  BY <1>2, <1>3, <1>4 DEF SendSize

\* A reply with content: serveContent with one range for the whole, or several.
IsContent(r, code, name, rs, f) ==
    /\ DOMAIN r = ReplyFields /\ r.code = code /\ r.page = "content" /\ r.location = Nil
    /\ r.lastmod = LastModified(f.modtime) /\ r.file = name /\ r.ranges = rs
    /\ r.multi = (Len(rs) > 1)

Whole(f) == <<[start |-> 0, length |-> f.size]>>

LEMMA ServeContentCases ==
    ASSUME NEW q, GoodRequest(q), NEW name, NEW f \in Stats
    PROVE  LET r == serveContent(q, name, f) IN
           \/ checkLastModified(q, f.modtime) /\ r = NotModified
           \/ GoodReply(r) /\ r.page = "bad range" /\ r.code = 416
           \/ IsContent(r, 200, name, Whole(f), f)
           \/ /\ q.range # Nil /\ parseRange(q.range, f.size) \in Seq(RangeSet)
              /\ parseRange(q.range, f.size) # <<>> /\ parseRange(q.range, f.size) # Nil
              /\ IsContent(r, 206, name, parseRange(q.range, f.size), f)
<1> DEFINE asked == parseRange(q.range, f.size)
           ranges == IF asked = Nil \/ sumRangesSize(asked) >= f.size THEN <<>> ELSE asked
           content(code, rs) ==
               [Reply(code, "content", Nil) EXCEPT
                   !.file = name, !.ranges = rs, !.multi = Len(rs) > 1,
                   !.lastmod = LastModified(f.modtime)]
           bad == [Reply(416, "bad range", Nil) EXCEPT !.lastmod = LastModified(f.modtime)]
           r == serveContent(q, name, f)
<1>1. f.size \in Nat /\ f.modtime \in Nat /\ q.range \in Specs \cup {Nil}
  BY DEF Stats, GoodRequest
<1>2. LastModified(f.modtime) \in Nat \cup {Nil}
  BY <1>1 DEF LastModified
<1>3. ASSUME NEW code, NEW rs, NEW v, v = content(code, rs) PROVE IsContent(v, code, name, rs, f)
  BY <1>3 DEF Reply, IsContent, ReplyFields
<1>4. GoodReply(bad) /\ bad.page = "bad range" /\ bad.code = 416
  <2>1. /\ DOMAIN bad = ReplyFields /\ bad.page = "bad range" /\ bad.code = 416
        /\ bad.location = Nil /\ bad.lastmod = LastModified(f.modtime)
    BY DEF Reply, ReplyFields
  <2> HIDE DEF bad
  <2>2. "bad range" \in Pages /\ "bad range" # "content" /\ 416 \in Nat
    BY DEF Pages
  <2>3. bad.page \in Pages /\ bad.page # "content" /\ bad.code \in Nat
    BY <2>1, <2>2
  <2>4. QED
    BY <1>2, <2>1, <2>3 DEF GoodReply
<1>5. asked # Nil => asked \in Seq(RangeSet)
  BY <1>1, ParseTyped
<1>6. asked = <<>> \/ q.range # Nil
  BY DEF parseRange
<1>7. CASE checkLastModified(q, f.modtime)
  BY <1>7 DEF serveContent
<1>8. CASE ~checkLastModified(q, f.modtime) /\ asked = Nil
  <2>1. r = bad
    BY <1>8 DEF serveContent
  <2>2. QED
    BY <1>4, <2>1
<1>9. CASE ~checkLastModified(q, f.modtime) /\ asked # Nil /\ ranges = <<>>
  <2>1. r = content(200, Whole(f))
    BY <1>9 DEF serveContent, Whole
  <2>2. IsContent(r, 200, name, Whole(f), f)
    <3> HIDE DEF r, content
    <3>1. QED
      BY <1>3, <2>1
  <2>3. QED
    BY <2>2
<1>10. CASE ~checkLastModified(q, f.modtime) /\ asked # Nil /\ ranges # <<>>
  <2>1. ranges = asked
    BY <1>10
  <2>2. r = content(206, asked)
    BY <1>10, <2>1 DEF serveContent
  <2>3. IsContent(r, 206, name, asked, f)
    <3> HIDE DEF r, content, asked
    <3>1. QED
      BY <1>3, <2>2
  <2>4. asked \in Seq(RangeSet) /\ asked # <<>> /\ asked # Nil /\ q.range # Nil
    BY <1>5, <1>6, <1>10, <2>1
  <2>5. QED
    <3> HIDE DEF r, asked
    <3>1. q.range # Nil /\ asked \in Seq(RangeSet) /\ asked # <<>> /\ asked # Nil
          /\ IsContent(r, 206, name, asked, f)
      BY <2>3, <2>4, Zenon
    <3>2. QED
      BY <3>1, Zenon DEF r, asked
<1>11. QED
  BY <1>7, <1>8, <1>9, <1>10

LEMMA ContentGood ==
    ASSUME NEW r, NEW code \in Nat, NEW name \in DOMAIN FirstFiles, NEW rs \in Seq(RangeSet),
           rs # <<>>, NEW f \in Stats, IsContent(r, code, name, rs, f)
    PROVE  GoodReply(r)
<1>1. LastModified(f.modtime) \in Nat \cup {Nil}
  BY DEF LastModified, Stats
<1>2. QED
  BY <1>1 DEF IsContent, GoodReply, Pages

LEMMA WholeTyped ==
    ASSUME NEW f \in Stats
    PROVE  /\ Whole(f) \in Seq(RangeSet) /\ Whole(f) # <<>> /\ Len(Whole(f)) = 1
           /\ Whole(f)[1].start = 0 /\ Whole(f)[1].length = f.size
<1>1. [start |-> 0, length |-> f.size] \in RangeSet
  BY DEF RangeSet, Stats
<1>2. QED
  BY <1>1 DEF Whole

LEMMA NotModifiedGood ==
    GoodReply(NotModified) /\ NotModified.page = "not modified" /\ NotModified.code = 304
<1> DEFINE code == 304
           page == "not modified"
           r == Reply(code, page, Nil)
<1>1. code \in Nat /\ page \in Pages /\ page # "content" /\ Nil \in Refs \cup {Nil}
  BY DEF Pages
<1>2. NotModified = r /\ code = 304 /\ page = "not modified"
  BY DEF NotModified
<1> HIDE DEF code, page
<1>3. GoodReply(r) /\ r.code = code /\ r.page = page
  BY <1>1, PlainReply
<1> HIDE DEF r
<1>4. QED
  BY <1>2, <1>3, Zenon

LEMMA ServeContentGood ==
    ASSUME NEW q, GoodRequest(q), NEW name \in DOMAIN FirstFiles, NEW f \in Stats
    PROVE  GoodReply(serveContent(q, name, f))
<1> DEFINE r == serveContent(q, name, f)
<1>1. \/ r = NotModified
      \/ GoodReply(r)
      \/ IsContent(r, 200, name, Whole(f), f)
      \/ /\ parseRange(q.range, f.size) \in Seq(RangeSet) /\ parseRange(q.range, f.size) # <<>>
         /\ IsContent(r, 206, name, parseRange(q.range, f.size), f)
  BY ServeContentCases
<1> HIDE DEF r
<1>2. CASE r = NotModified
  BY <1>2, NotModifiedGood DEF r
<1>3. CASE IsContent(r, 200, name, Whole(f), f)
  <2>1. GoodReply(r)
    BY <1>3, WholeTyped, ContentGood
  <2>2. QED
    BY <2>1 DEF r
<1>4. CASE /\ parseRange(q.range, f.size) \in Seq(RangeSet) /\ parseRange(q.range, f.size) # <<>>
           /\ IsContent(r, 206, name, parseRange(q.range, f.size), f)
  <2>1. GoodReply(r)
    BY <1>4, ContentGood
  <2>2. QED
    BY <2>1 DEF r
<1>5. CASE GoodReply(r)
  BY <1>5 DEF r
<1>6. QED
  BY <1>1, <1>2, <1>3, <1>4, <1>5

LEMMA RefTyped ==
    ASSUME NEW abs \in BOOLEAN, NEW segs \in Seq(Segment), NEW slash \in BOOLEAN
    PROVE  Ref(abs, segs, slash) \in Refs
  BY DEF Ref, Refs

LEMMA DirTyped ==
    ASSUME NEW p \in Paths
    PROVE  Dir(p) \in Seq(Segment) /\ (p.segs # <<>> => Base(p) \in Segment)
<1>1. p.segs \in Seq(Segment)
  BY DEF Paths
<1>2. p.segs # <<>> => Front(p.segs) \in Seq(Segment) /\ Last(p.segs) \in Segment
  BY <1>1, FrontFields
<1>3. QED
  BY <1>1, <1>2 DEF Dir, Base

\* The path that a Location leads to.
LEMMA ResolveTyped ==
    ASSUME NEW p \in Paths, NEW ref \in Refs
    PROVE  Resolve(p, ref) \in Paths
<1> DEFINE s == IF ref.abs THEN ref.segs ELSE Dir(p) \o ref.segs
<1>1. ref.segs \in Seq(Segment) /\ ref.slash \in BOOLEAN /\ ref.abs \in BOOLEAN
  BY DEF Refs
<1>2. Dir(p) \in Seq(Segment)
  BY DirTyped
<1>3. Dir(p) \o ref.segs \in Seq(Segment)
  BY <1>1, <1>2, ConcatProperties
<1>4. s \in Seq(Segment)
  BY <1>1, <1>3
<1>5. Clean(s) \in Seq(Segment)
  <2> HIDE DEF s
  <2>1. QED
    BY <1>4, CleanTyped
<1>6. QED
  BY <1>1, <1>5 DEF Resolve, Path, Paths

LEMMA RedirectGood ==
    ASSUME NEW p \in Paths, NEW ref \in Refs, NEW code \in Nat
    PROVE  /\ GoodReply(Redirect(p, ref, code))
           /\ Redirect(p, ref, code).page = "redirect" /\ Redirect(p, ref, code).code = code
<1> DEFINE s == IF ref.abs THEN ref.segs ELSE Dir(p) \o ref.segs
           to == Ref(TRUE, Clean(s), ref.slash \/ Clean(s) = <<>>)
<1>1. ref.segs \in Seq(Segment) /\ ref.slash \in BOOLEAN
  BY DEF Refs
<1>2. Dir(p) \in Seq(Segment)
  BY DirTyped
<1>3. Dir(p) \o ref.segs \in Seq(Segment)
  BY <1>1, <1>2, ConcatProperties
<1>4. s \in Seq(Segment)
  BY <1>1, <1>3
<1>5. to \in Refs
  <2> HIDE DEF s
  <2>1. Clean(s) \in Seq(Segment) /\ (ref.slash \/ Clean(s) = <<>>) \in BOOLEAN
    BY <1>4, CleanTyped
  <2>2. QED
    BY <2>1, RefTyped
<1>6. Redirect(p, ref, code) = Reply(code, "redirect", to)
  BY DEF Redirect
<1>7. "redirect" \in Pages /\ "redirect" # "content" /\ to \in Refs \cup {Nil}
  BY <1>5 DEF Pages
<1> HIDE DEF to
<1>8. GoodReply(Reply(code, "redirect", to))
  BY <1>7, PlainReply
<1>9. Reply(code, "redirect", to).page = "redirect" /\ Reply(code, "redirect", to).code = code
  BY <1>7, PlainReply
<1>10. QED
  BY <1>6, <1>8, <1>9

LEMMA LocalRedirectGood ==
    ASSUME NEW ref \in Refs
    PROVE  /\ GoodReply(localRedirect(ref))
           /\ localRedirect(ref).page = "redirect" /\ localRedirect(ref).code = 301
           /\ localRedirect(ref).location = ref
<1> DEFINE code == 301
           page == "redirect"
           r == Reply(code, page, ref)
<1>1. code \in Nat /\ page \in Pages /\ page # "content" /\ ref \in Refs \cup {Nil}
  BY DEF Pages
<1>2. localRedirect(ref) = r /\ code = 301 /\ page = "redirect"
  BY DEF localRedirect
<1> HIDE DEF code, page
<1>3. GoodReply(r) /\ r.code = code /\ r.page = page /\ r.location = ref
  BY <1>1, PlainReply
<1> HIDE DEF r
<1>4. QED
  BY <1>2, <1>3, Zenon

LEMMA NotFoundGood == GoodReply(NotFound) /\ NotFound.page = "not found" /\ NotFound.code = 404
<1> DEFINE code == 404
           page == "not found"
           r == Reply(code, page, Nil)
<1>1. code \in Nat /\ page \in Pages /\ page # "content" /\ Nil \in Refs \cup {Nil}
  BY DEF Pages
<1>2. NotFound = r /\ code = 404 /\ page = "not found"
  BY DEF NotFound
<1> HIDE DEF code, page
<1>3. GoodReply(r) /\ r.code = code /\ r.page = page
  BY <1>1, PlainReply
<1> HIDE DEF r
<1>4. QED
  BY <1>2, <1>3, Zenon

\* The file system has the names it had.
FilesOK ==
    /\ files \in [DOMAIN FirstFiles -> Stats] /\ files[<<>>].dir
    /\ \A n \in DOMAIN FirstFiles \ {<<>>} : files[Front(n)].dir

Listing(name, f) ==
    [Reply(200, "listing", Nil) EXCEPT !.file = name, !.lastmod = LastModified(f.modtime)]

LEMMA ListingGood ==
    ASSUME NEW name, NEW f \in Stats
    PROVE  /\ GoodReply(Listing(name, f)) /\ Listing(name, f).page = "listing"
           /\ Listing(name, f).code = 200 /\ Listing(name, f).file = name
           /\ Listing(name, f).lastmod = LastModified(f.modtime)
<1> DEFINE r == Listing(name, f)
<1>1. /\ DOMAIN r = ReplyFields /\ r.page = "listing" /\ r.code = 200 /\ r.location = Nil
      /\ r.file = name /\ r.lastmod = LastModified(f.modtime)
  BY DEF Listing, Reply, ReplyFields
<1>2. LastModified(f.modtime) \in Nat \cup {Nil} /\ 200 \in Nat
  BY DEF LastModified, Stats
<1>3. "listing" \in Pages /\ "listing" # "content"
  BY DEF Pages
<1> HIDE DEF r
<1>4. r.page \in Pages /\ r.page # "content" /\ r.code \in Nat
  BY <1>1, <1>2, <1>3
<1>5. GoodReply(r)
  BY <1>1, <1>2, <1>4 DEF GoodReply
<1>6. QED
  BY <1>1, <1>5 DEF r

LEMMA ShownThere ==
    ASSUME NEW fs, NEW name \in DOMAIN fs
    PROVE  Shown(fs, name) \in DOMAIN fs /\ (Shown(fs, name) = name \/ Shown(fs, name) = Append(name, INDEX))
  BY DEF Shown

\* The replies of the file server.
ServedAs(r, fs, q, p) ==
    LET name == Clean(p.segs)
        shown == Shown(fs, name)
        named == name \in DOMAIN fs
        index == ~p.slash /\ p.segs # <<>> /\ Last(p.segs) = INDEX
        dir == fs[name].dir
    IN \/ index /\ r = localRedirect(Ref(FALSE, <<".">>, TRUE))
       \/ ~index /\ ~named /\ r = NotFound
       \/ ~index /\ named /\ dir /\ ~p.slash /\ p.segs # <<>> /\ r = DirRedirect(p)
       \/ ~index /\ named /\ ~dir /\ p.slash /\ r = FileRedirect(p)
       \/ /\ ~index /\ named /\ (dir => p.slash \/ p.segs = <<>>) /\ (~dir => ~p.slash)
          /\ \/ ~fs[shown].dir /\ r = serveContent(q, shown, fs[shown])
             \/ fs[shown].dir /\ checkLastModified(q, fs[shown].modtime) /\ r = NotModified
             \/ fs[shown].dir /\ r = Listing(shown, fs[shown])

LEMMA ServeFileCases ==
    ASSUME NEW fs, NEW q, NEW p
    PROVE  ServedAs(serveFile(fs, q, p), fs, q, p)
<1> DEFINE name == Clean(p.segs)
           shown == Shown(fs, name)
           index == ~p.slash /\ p.segs # <<>> /\ Last(p.segs) = INDEX
           r == serveFile(fs, q, p)
<1>1. CASE index
  <2>1. r = localRedirect(Ref(FALSE, <<".">>, TRUE))
    BY <1>1 DEF serveFile
  <2>2. QED
    BY <1>1, <2>1 DEF ServedAs
<1>2. CASE ~index /\ name \notin DOMAIN fs
  <2>1. r = NotFound
    BY <1>2 DEF serveFile
  <2>2. QED
    BY <1>2, <2>1 DEF ServedAs
<1>3. CASE ~index /\ name \in DOMAIN fs /\ fs[name].dir /\ ~p.slash /\ p.segs # <<>>
  <2>1. r = DirRedirect(p)
    BY <1>3 DEF serveFile
  <2>2. QED
    BY <1>3, <2>1 DEF ServedAs
<1>4. CASE ~index /\ name \in DOMAIN fs /\ ~fs[name].dir /\ p.slash
  <2>1. r = FileRedirect(p)
    BY <1>4 DEF serveFile
  <2>2. QED
    BY <1>4, <2>1 DEF ServedAs
<1>5. CASE /\ ~index /\ name \in DOMAIN fs /\ (fs[name].dir => p.slash \/ p.segs = <<>>)
           /\ (~fs[name].dir => ~p.slash)
  <2>1. r = IF ~fs[shown].dir THEN serveContent(q, shown, fs[shown])
            ELSE IF checkLastModified(q, fs[shown].modtime) THEN NotModified
            ELSE Listing(shown, fs[shown])
    BY <1>5 DEF serveFile, Listing
  <2> HIDE DEF r
  <2>2. \/ ~fs[shown].dir /\ r = serveContent(q, shown, fs[shown])
        \/ fs[shown].dir /\ checkLastModified(q, fs[shown].modtime) /\ r = NotModified
        \/ fs[shown].dir /\ r = Listing(shown, fs[shown])
    BY <2>1
  <2>3. ServedAs(r, fs, q, p)
    BY <1>5, <2>2 DEF ServedAs
  <2>4. QED
    BY <2>3 DEF r
<1>6. QED
  BY <1>1, <1>2, <1>3, <1>4, <1>5

LEMMA ServeFileGood ==
    ASSUME FilesOK, NEW q, GoodRequest(q), NEW p \in Paths
    PROVE  GoodReply(serveFile(files, q, p))
<1> DEFINE r == serveFile(files, q, p)
           shown == Shown(files, Clean(p.segs))
<1>1. ServedAs(r, files, q, p)
  BY ServeFileCases
<1> HIDE DEF r
<1>2. p.segs \in Seq(Segment) /\ DOMAIN files = DOMAIN FirstFiles
  BY DEF Paths, FilesOK
<1>3. CASE r = localRedirect(Ref(FALSE, <<".">>, TRUE))
  <2>1. <<".">> \in Seq(Segment)
    BY SegmentAssumption
  <2>2. Ref(FALSE, <<".">>, TRUE) \in Refs
    BY <2>1, RefTyped
  <2>3. GoodReply(r)
    BY <1>3, <2>2, LocalRedirectGood
  <2>4. QED
    BY <2>3 DEF r
<1>4. CASE r = NotFound
  BY <1>4, NotFoundGood DEF r
<1>5. CASE p.segs # <<>> /\ (r = DirRedirect(p) \/ r = FileRedirect(p))
  <2>1. Base(p) \in Segment /\ ".." \in Segment
    BY <1>5, DirTyped, SegmentAssumption
  <2>2. <<Base(p)>> \in Seq(Segment) /\ <<"..", Base(p)>> \in Seq(Segment)
    BY <2>1
  <2>3. Ref(FALSE, <<Base(p)>>, TRUE) \in Refs /\ Ref(FALSE, <<"..", Base(p)>>, FALSE) \in Refs
    BY <2>2, RefTyped
  <2>4. GoodReply(DirRedirect(p)) /\ GoodReply(FileRedirect(p))
    BY <2>3, LocalRedirectGood DEF DirRedirect, FileRedirect
  <2>5. QED
    BY <1>5, <2>4 DEF r
<1>6. CASE p.segs = <<>> /\ r = FileRedirect(p) /\ ~files[Clean(p.segs)].dir
           /\ Clean(p.segs) \in DOMAIN files
  \* the root is a directory
  <2>1. Clean(p.segs) = <<>>
    BY <1>6, CleanEmpty
  <2>2. QED
    BY <1>6, <2>1 DEF FilesOK
<1>7. CASE Clean(p.segs) \in DOMAIN files /\ r = serveContent(q, shown, files[shown])
  <2>1. shown \in DOMAIN FirstFiles /\ files[shown] \in Stats
    BY <1>2, <1>7, ShownThere DEF FilesOK
  <2>2. GoodReply(serveContent(q, shown, files[shown]))
    <3> HIDE DEF shown
    <3>1. QED
      BY <2>1, ServeContentGood
  <2>3. QED
    BY <1>7, <2>2 DEF r
<1>8. CASE r = NotModified
  BY <1>8, NotModifiedGood DEF r
<1>9. CASE Clean(p.segs) \in DOMAIN files /\ r = Listing(shown, files[shown])
  <2>1. shown \in DOMAIN FirstFiles /\ files[shown] \in Stats
    BY <1>2, <1>9, ShownThere DEF FilesOK
  <2>2. GoodReply(Listing(shown, files[shown]))
    <3> HIDE DEF shown
    <3>1. QED
      BY <2>1, ListingGood
  <2>3. QED
    BY <1>9, <2>2 DEF r
<1>10. QED
  BY <1>1, <1>3, <1>4, <1>5, <1>6, <1>7, <1>8, <1>9 DEF ServedAs

-----------------------------------------------------------------------------
(***************************************************************************)
(* The handlers that a request may get, and their replies.                 *)
(***************************************************************************)
LEMMA NilApart ==
    /\ \A x \in Nat : x # Nil
    /\ \A x \in Refs : x # Nil
    /\ \A x \in Routes : x # Nil
    /\ \A x \in Paths : x # Nil
  BY SiteAssumption

LEMMA ImplicitGood ==
    ASSUME NEW k \in DOMAIN Handlers
    PROVE  GoodRoute(RedirectHandler(k))
<1>1. k \in Patterns
  BY SiteAssumption
<1>2. k.segs \in Seq(Segment) /\ k.slash \in BOOLEAN /\ k.host \in Segment \cup {AnyHost}
  BY <1>1 DEF Patterns
<1> DEFINE to == IF k.host = AnyHost THEN Ref(TRUE, k.segs, k.slash)
                 ELSE Ref(FALSE, <<k.host>> \o k.segs, k.slash)
<1>3. to \in Refs
  <2>1. CASE k.host = AnyHost
    <3>1. Ref(TRUE, k.segs, k.slash) \in Refs
      BY <1>2, RefTyped
    <3>2. QED
      BY <2>1, <3>1
  <2>2. CASE k.host # AnyHost
    <3>1. <<k.host>> \in Seq(Segment)
      BY <1>2, <2>2
    <3>2. <<k.host>> \o k.segs \in Seq(Segment)
      BY <1>2, <3>1, ConcatProperties
    <3>3. Ref(FALSE, <<k.host>> \o k.segs, k.slash) \in Refs
      BY <1>2, <3>2, RefTyped
    <3>4. QED
      BY <2>2, <3>3
  <2>3. QED
    BY <2>1, <2>2
<1>4. to # Nil
  <2> HIDE DEF to
  <2>1. QED
    BY <1>3, NilApart
<1>5. RedirectHandler(k) = [kind |-> "redirect", code |-> 301, prefix |-> <<>>, to |-> to]
  BY DEF RedirectHandler
<1> HIDE DEF to
<1>6. RedirectHandler(k) \in Routes
  BY <1>3, <1>5, EmptySeq DEF Routes
<1>7. QED
  BY <1>4, <1>5, <1>6 DEF GoodRoute

LEMMA CleanerGood ==
    ASSUME NEW p \in Paths
    PROVE  GoodRoute(Cleaner(p)) /\ Cleaner(p) # Nil
<1> DEFINE to == Ref(TRUE, p.segs, p.slash)
<1>1. to \in Refs
  BY RefTyped DEF Paths
<1>2. to # Nil
  <2> HIDE DEF to
  <2>1. QED
    BY <1>1, NilApart
<1>3. Cleaner(p) = [kind |-> "redirect", code |-> 301, prefix |-> <<>>, to |-> to]
  BY DEF Cleaner
<1> HIDE DEF to
<1>4. Cleaner(p) \in Routes
  BY <1>1, <1>3, EmptySeq DEF Routes
<1>5. Cleaner(p) # Nil
  BY <1>4, SiteAssumption
<1>6. Cleaner(p).to = to /\ Cleaner(p).code = 301
  BY <1>3
<1>7. GoodRoute(Cleaner(p))
  BY <1>2, <1>4, <1>6 DEF GoodRoute
<1>8. QED
  BY <1>5, <1>7

LEMMA RouteTyped ==
    ASSUME NEW kind \in {"proxy", "redirect", "files"}, NEW code \in Nat,
           NEW prefix \in Seq(Segment), NEW to \in Refs \cup {Nil}
    PROVE  [kind |-> kind, code |-> code, prefix |-> prefix, to |-> to] \in Routes
  BY DEF Routes

LEMMA FilesAtGood == GoodRoute(FilesAt(<<>>)) /\ FilesAt(<<>>) # Nil
<1>1. FilesAt(<<>>) = [kind |-> "files", code |-> 200, prefix |-> <<>>, to |-> Nil]
  BY DEF FilesAt
<1>2. FilesAt(<<>>) \in Routes
  <2>1. <<>> \in Seq(Segment) /\ Nil \in Refs \cup {Nil} /\ 200 \in Nat
    BY EmptySeq
  <2>2. "files" \in {"proxy", "redirect", "files"}
    OBVIOUS
  <2>3. [kind |-> "files", code |-> 200, prefix |-> <<>>, to |-> Nil] \in Routes
    BY ONLY <2>1, <2>2, RouteTyped, Zenon
  <2>4. QED
    BY ONLY <1>1, <2>3, Zenon
<1>3. FilesAt(<<>>) # Nil
  BY <1>2, SiteAssumption
<1>4. FilesAt(<<>>).kind # "redirect"
  BY <1>1
<1>5. QED
  BY <1>2, <1>3, <1>4 DEF GoodRoute

\* Once all patterns are registered, the mux finds a handler or nothing.
LEMMA HandlerGood ==
    ASSUME MuxInv, todo = {}, NEW p \in Paths
    PROVE  handler(mux, Host, p) = Nil \/ GoodRoute(handler(mux, Host, p))
<1>1. MuxOf(mux, DOMAIN Handlers)
  BY DEF MuxInv, Registered
<1>2. ASSUME NEW k \in DOMAIN Handlers PROVE GoodRoute(Handlers[k])
  <2>1. Handlers[k] \in Routes
    BY SiteAssumption
  <2>2. Handlers[k].kind = "redirect" =>
            Handlers[k].to # Nil /\ Handlers[k].code \in {301, 302, 303, 307}
    BY SiteAssumption
  <2>3. QED
    BY <2>1, <2>2 DEF GoodRoute
<1>3. ASSUME NEW host \in Segment \cup {AnyHost}
      PROVE  match(mux, host, p) = Nil \/ GoodRoute(match(mux, host, p))
  <2>1. match(mux, host, p) = Route(host, p)
    BY <1>1, MatchIsRoute
  <2>2. \/ Route(host, p) = Nil
        \/ \E k \in DOMAIN Handlers : Route(host, p) \in {Handlers[k], RedirectHandler(k)}
    BY <1>1, MatchIsRoute
  <2>3. QED
    BY <1>2, <2>1, <2>2, ImplicitGood
<1>4. Host \in Segment
  BY SiteAssumption
<1>5. /\ match(mux, Host, p) = Nil \/ GoodRoute(match(mux, Host, p))
      /\ match(mux, AnyHost, p) = Nil \/ GoodRoute(match(mux, AnyHost, p))
  BY <1>3, <1>4
<1>6. QED
  BY <1>5 DEF handler

LEMMA DispatchGood ==
    ASSUME MuxInv, todo = {}, NEW q, GoodRequest(q)
    PROVE  Dispatch(q) = Nil \/ GoodRoute(Dispatch(q))
<1>1. q.path \in Paths
  BY DEF GoodRequest
<1>2. cleanPath(q.path) \in Paths
  BY <1>1, CleanPathTyped
<1>3. GoodRoute(Cleaner(cleanPath(q.path)))
  BY <1>2, CleanerGood
<1>4. handler(mux, Host, q.path) = Nil \/ GoodRoute(handler(mux, Host, q.path))
  BY <1>1, HandlerGood
<1>5. QED
  BY <1>3, <1>4, FilesAtGood DEF Dispatch

LEMMA StripTyped ==
    ASSUME NEW prefix \in Seq(Segment), NEW p \in Paths, StripPrefix(prefix, p) # Nil
    PROVE  /\ StripPrefix(prefix, p) \in Paths
           /\ StripPrefix(prefix, p) = Path(SubSeq(p.segs, Len(prefix) + 1, Len(p.segs)), p.slash)
           /\ IsPrefix(prefix, p.segs)
<1>1. p.segs \in Seq(Segment) /\ p.slash \in BOOLEAN
  BY DEF Paths
<1>2. Len(prefix) \in Nat /\ Len(p.segs) \in Nat
  BY <1>1, LenProperties
<1>3. SubSeq(p.segs, Len(prefix) + 1, Len(p.segs)) \in Seq(Segment)
  <2> DEFINE m == Len(prefix) + 1
             n == Len(p.segs)
  <2>1. m \in Int /\ n \in Int /\ \A i \in m .. n : i \in 1 .. Len(p.segs)
    BY <1>2
  <2>2. QED
    BY <1>1, <2>1, SubSeqProperties
<1>4. /\ StripPrefix(prefix, p) = Path(SubSeq(p.segs, Len(prefix) + 1, Len(p.segs)), p.slash)
      /\ IsPrefix(prefix, p.segs)
  BY DEF StripPrefix
<1>5. QED
  BY <1>1, <1>3, <1>4 DEF Path, Paths

\* The pages of the proxy.
LEMMA PageGood ==
    ASSUME NEW code \in Nat, NEW page \in Pages \ {"content"}
    PROVE  GoodReply(Reply(code, page, Nil))
  BY PlainReply

LEMMA AuthGood ==
    ASSUME NEW r, GoodReply(r), NEW perm, NEW q, NEW up
    PROVE  GoodReply(makeAuthHandler(r, perm, q, up))
<1>1. "unauthorized" \in Pages \ {"content"} /\ 401 \in Nat
  BY DEF Pages
<1>2. GoodReply(AuthenticationError)
  BY <1>1, PageGood DEF AuthenticationError
<1>3. QED
  BY <1>2 DEF makeAuthHandler

LEMMA AdminGood ==
    ASSUME NEW p
    PROVE  GoodReply(adminHandler(p))
<1>1. "admin" \in Pages \ {"content"} /\ "empty" \in Pages \ {"content"} /\ 200 \in Nat
  BY DEF Pages
<1>2. "redirect" \in Pages /\ "redirect" # "content" /\ 301 \in Nat
  BY DEF Pages
<1>3. Ref(TRUE, <<"admin">>, FALSE) \in Refs \cup {Nil}
  <2>1. <<"admin">> \in Seq(Segment)
    BY SegmentAssumption
  <2>2. QED
    BY <2>1, RefTyped
<1>4. GoodReply(Reply(200, "admin", Nil)) /\ GoodReply(Reply(200, "empty", Nil))
  BY <1>1, PageGood
<1>5. GoodReply(Reply(301, "redirect", Ref(TRUE, <<"admin">>, FALSE)))
  <2> DEFINE ref == Ref(TRUE, <<"admin">>, FALSE)
  <2> HIDE DEF ref
  <2>1. ref \in Refs \cup {Nil}
    BY <1>3 DEF ref
  <2>2. GoodReply(Reply(301, "redirect", ref))
    BY <1>2, <2>1, PlainReply
  <2>3. QED
    BY <2>2 DEF ref
<1>6. \/ adminHandler(p) = Reply(200, "admin", Nil)
      \/ adminHandler(p) = Reply(301, "redirect", Ref(TRUE, <<"admin">>, FALSE))
      \/ adminHandler(p) = Reply(200, "empty", Nil)
  <2> DEFINE a == Reply(200, "admin", Nil)
             b == Reply(301, "redirect", Ref(TRUE, <<"admin">>, FALSE))
             c == Reply(200, "empty", Nil)
             A == p = Path(<<"admin">>, FALSE)
             B == p = Path(<<"admin", "kick">>, FALSE)
  <2>1. adminHandler(p) = CASE A -> a [] B -> b [] OTHER -> c
    BY Zenon DEF adminHandler
  <2> HIDE DEF a, b, c, A, B
  <2>2. adminHandler(p) = a \/ adminHandler(p) = b \/ adminHandler(p) = c
    BY <2>1
  <2>3. QED
    BY <2>2, Zenon DEF a, b, c
<1>7. QED
  BY <1>4, <1>5, <1>6

LEMMA MainGood ==
    ASSUME NEW q, NEW up
    PROVE  GoodReply(mainHandler(q, up))
<1> DEFINE source == Reply(200, "source", Nil)
           metadata == Reply(200, "metadata", Nil)
           listclients == Reply(200, "listclients", Nil)
           empty == Reply(200, "empty", Nil)
<1>1. /\ "source" \in Pages \ {"content"} /\ "metadata" \in Pages \ {"content"}
      /\ "listclients" \in Pages \ {"content"} /\ "empty" \in Pages \ {"content"} /\ 200 \in Nat
  BY DEF Pages
<1>2. GoodReply(source) /\ GoodReply(metadata) /\ GoodReply(listclients) /\ GoodReply(empty)
  BY <1>1, PageGood
<1> HIDE DEF source, metadata, listclients, empty
<1>3. \/ mainHandler(q, up) = makeAuthHandler(source, PERM_SOURCE, q, up)
      \/ mainHandler(q, up) = makeAuthHandler(metadata, PERM_META, q, up)
      \/ mainHandler(q, up) = makeAuthHandler(listclients, PERM_SOURCE, q, up)
      \/ mainHandler(q, up) = makeAuthHandler(adminHandler(q.path), PERM_ADMIN, q, up)
      \/ mainHandler(q, up) = NotFound
      \/ mainHandler(q, up) = empty
  <2> DEFINE a == makeAuthHandler(source, PERM_SOURCE, q, up)
             b == makeAuthHandler(metadata, PERM_META, q, up)
             c == makeAuthHandler(listclients, PERM_SOURCE, q, up)
             d == makeAuthHandler(adminHandler(q.path), PERM_ADMIN, q, up)
             A == q.method = "SOURCE"
             B == q.method = "GET" /\ q.path = Path(<<"admin", "metadata">>, FALSE)
             C == q.method = "GET" /\ q.path = Path(<<"admin", "listclients">>, FALSE)
             D == /\ q.method = "GET" /\ q.path.segs # <<>> /\ Head(q.path.segs) \in AdminNames
                  /\ q.path \notin {Path(<<"admin", "metadata">>, FALSE),
                                    Path(<<"admin", "listclients">>, FALSE)}
             E == q.method = "GET" /\ (q.path.segs = <<>> \/ Head(q.path.segs) \notin AdminNames)
             m == mainHandler(q, up)
  <2>1. m = CASE A -> a [] B -> b [] C -> c [] D -> d [] E -> NotFound [] OTHER -> empty
    BY Zenon DEF mainHandler, source, metadata, listclients, empty
  <2> HIDE DEF a, b, c, d, A, B, C, D, E, m
  <2>2. m = a \/ m = b \/ m = c \/ m = d \/ m = NotFound \/ m = empty
    BY <2>1
  <2>3. QED
    BY <2>2, Zenon DEF a, b, c, d, m
<1>4. QED
  BY <1>2, <1>3, AuthGood, AdminGood, NotFoundGood

LEMMA RoundTripGood ==
    ASSUME FilesOK, NEW q, GoodRequest(q), NEW h, h = Nil \/ GoodRoute(h), NEW up
    PROVE  GoodReply(RoundTrip(h, q, IF h = Nil THEN Nil ELSE StripPrefix(h.prefix, q.path), up))
<1> DEFINE p == IF h = Nil THEN Nil ELSE StripPrefix(h.prefix, q.path)
           r == RoundTrip(h, q, p, up)
<1>1. q.path \in Paths
  BY DEF GoodRequest
<1>2. CASE h = Nil
  BY <1>2, NotFoundGood DEF RoundTrip
<1>3. CASE h # Nil /\ h.kind = "proxy"
  <2>1. r = mainHandler(q, up)
    BY <1>3 DEF RoundTrip
  <2>2. QED
    BY <2>1, MainGood
<1>4. CASE h # Nil /\ h.kind = "redirect"
  <2>1. r = Redirect(q.path, h.to, h.code)
    BY <1>4 DEF RoundTrip
  <2>2. h.to \in Refs /\ h.code \in Nat
    BY <1>4 DEF GoodRoute, Routes
  <2>3. QED
    BY <1>1, <2>1, <2>2, RedirectGood
<1>5. CASE h # Nil /\ h.kind = "files" /\ p = Nil
  <2>1. r = NotFound
    BY <1>5 DEF RoundTrip
  <2>2. QED
    BY <2>1, NotFoundGood
<1>6. CASE h # Nil /\ h.kind = "files" /\ p # Nil
  <2>1. r = serveFile(files, q, p)
    BY <1>6 DEF RoundTrip
  <2>2. h.prefix \in Seq(Segment)
    BY <1>6 DEF GoodRoute, Routes
  <2>3. p \in Paths
    BY <1>1, <1>6, <2>2, StripTyped
  <2> HIDE DEF p
  <2>4. QED
    BY <2>1, <2>3, ServeFileGood DEF p
<1>7. h # Nil => h.kind \in {"proxy", "redirect", "files"}
  BY DEF GoodRoute, Routes
<1>8. QED
  BY <1>2, <1>3, <1>4, <1>5, <1>6, <1>7

-----------------------------------------------------------------------------
(***************************************************************************)
(* The client, the file system and the goroutines that copy.               *)
(***************************************************************************)
ClientFields == {"at", "num", "ask", "req", "via", "reply", "copied", "steady", "closed"}
CopyFields == {"at", "file", "ranges", "multi", "left", "off", "sent"}
PartFields == {"at", "part", "off"}
NoPart == [at |-> "none", part |-> 1, off |-> -1]

ClientOK ==
    /\ DOMAIN client = ClientFields
    /\ client.at \in {"idle", "send", "reply", "body", "done"}
    /\ client.num \in 0 .. MaxGets /\ client.via \in 0 .. RedirectLimit - 1
    /\ client.at # "idle" =>
          client.num >= 1 /\ todo = {} /\ client.ask \in Gets /\ GoodRequest(client.req)
    /\ client.at \in {"reply", "body", "done"} => GoodReply(client.reply)
    /\ client.reply # Nil => GoodReply(client.reply)
    /\ client.at = "body" => client.reply.page = "content"
    /\ client.copied # Nil => client.copied.lastmod \in Nat

\* One goroutine that copies, and the one that writes its parts.
CopyTyped(c) ==
    /\ DOMAIN c = CopyFields /\ c.at \in {"none", "copy", "ended"} /\ c.left \in Nat
    /\ c.ranges \in Seq(RangeSet) /\ c.off \in Nat /\ c.sent \in Seq(Int)

PartTyped(w, n) ==
    /\ DOMAIN w = PartFields /\ w.at \in {"none", "parts", "exit"}
    /\ w.part \in 1 .. n + 1 /\ w.off \in Int /\ w.off >= -1

\* The Gets whose content no goroutine has begun to copy.
Before(g) == g > client.num \/ (g = client.num /\ client.at \in {"send", "reply"})

CopyOK ==
    /\ DOMAIN copy = 1 .. MaxGets /\ DOMAIN parts = 1 .. MaxGets
    /\ copy = [g \in 1 .. MaxGets |-> copy[g]] /\ parts = [g \in 1 .. MaxGets |-> parts[g]]
    /\ \A g \in 1 .. MaxGets : CopyTyped(copy[g]) /\ PartTyped(parts[g], Len(copy[g].ranges))
    /\ \A g \in 1 .. MaxGets : Before(g) => copy[g] = NoCopy /\ parts[g] = NoPart

SiteInv == MuxInv /\ FilesOK /\ ClientOK /\ CopyOK /\ changes \in 0 .. MaxChanges

LEMMA NoCopyTyped == CopyTyped(NoCopy) /\ PartTyped(NoPart, Len(NoCopy.ranges)) /\ NoCopy.ranges = <<>>
<1>1. NoCopy.ranges = <<>> /\ NoCopy.sent = <<>> /\ NoCopy.left = 0 /\ NoCopy.off = 0
  BY DEF NoCopy
<1>2. DOMAIN NoCopy = CopyFields /\ NoCopy.at = "none"
  BY DEF NoCopy, CopyFields
<1>3. <<>> \in Seq(RangeSet) /\ <<>> \in Seq(Int) /\ Len(<<>>) = 0
  BY EmptySeq
<1>4. CopyTyped(NoCopy)
  BY <1>1, <1>2, <1>3 DEF CopyTyped
<1>5. DOMAIN NoPart = PartFields /\ NoPart.at = "none"
  BY DEF NoPart, PartFields
<1>6. NoPart.part = 1 /\ NoPart.off = -1
  BY DEF NoPart
<1>7. PartTyped(NoPart, 0)
  BY <1>5, <1>6 DEF PartTyped
<1>8. QED
  BY <1>1, <1>3, <1>4, <1>7

LEMMA SiteInit == Init => SiteInv
<1> SUFFICES ASSUME Init PROVE SiteInv
  OBVIOUS
<1>1. MuxInv
  BY MuxInit
<1>2. FilesOK
  BY SiteAssumption DEF Init, FilesOK
<1>3. ClientOK
  <2>1. /\ client.num = 0 /\ client.via = 0
        /\ client.reply = Nil /\ client.copied = Nil
    BY DEF Init
  <2>2. DOMAIN client = ClientFields /\ client.at = "idle"
    BY DEF Init, ClientFields
  <2>3. MaxGets \in Nat
    BY SiteAssumption
  <2>4. QED
    BY <2>1, <2>2, <2>3 DEF ClientOK, RedirectLimit
<1>4. CopyOK
  <2>1. /\ DOMAIN copy = 1 .. MaxGets /\ DOMAIN parts = 1 .. MaxGets
        /\ copy = [g \in 1 .. MaxGets |-> copy[g]] /\ parts = [g \in 1 .. MaxGets |-> parts[g]]
    BY DEF Init
  <2>2. \A g \in 1 .. MaxGets : copy[g] = NoCopy /\ parts[g] = NoPart
    BY DEF Init, NoPart
  <2>3. QED
    BY <2>1, <2>2, NoCopyTyped DEF CopyOK
<1>5. changes \in 0 .. MaxChanges
  BY SiteAssumption DEF Init
<1>6. QED
  BY <1>1, <1>2, <1>3, <1>4, <1>5 DEF SiteInv

\* A conditional request is a request.
LEMMA ConditionalGood ==
    ASSUME ClientOK, NEW ask \in Gets, NEW q \in Conditional(ask)
    PROVE  /\ GoodRequest(q) /\ q.path = ask.path /\ q.scheme = ask.scheme /\ q.range = ask.range
           /\ q.method = ask.method
           /\ q.since # Nil => client.copied # Nil /\ client.copied.ask = ask
                               /\ q.since = client.copied.lastmod
<1>1. /\ DOMAIN ask = {"scheme", "path", "method", "creds", "range", "since"}
      /\ ask.scheme \in {"http", "file"} /\ ask.path \in Paths
      /\ ask.range \in Specs \cup {Nil} /\ ask.since = Nil
  BY SiteAssumption
<1>2. CASE q = ask
  BY <1>1, <1>2 DEF GoodRequest
<1>3. CASE /\ client.copied # Nil /\ client.copied.ask = ask
           /\ q = [ask EXCEPT !.since = client.copied.lastmod]
  <2>1. client.copied.lastmod \in Nat
    BY <1>3 DEF ClientOK
  <2>2. /\ DOMAIN q = DOMAIN ask /\ q.since = client.copied.lastmod /\ q.range = ask.range
        /\ q.path = ask.path
    BY <1>1, <1>3
  <2>3. q.scheme = ask.scheme /\ q.method = ask.method
    BY <1>1, <1>3
  <2>4. GoodRequest(q)
    BY <1>1, <2>1, <2>2, <2>3 DEF GoodRequest
  <2>5. QED
    BY <1>3, <2>2, <2>3, <2>4
<1>4. q = ask \/ (/\ client.copied # Nil /\ client.copied.ask = ask
                  /\ q = [ask EXCEPT !.since = client.copied.lastmod])
  BY DEF Conditional
<1>5. QED
  BY <1>2, <1>3, <1>4

\* The steps of the caller.
CallerFrame == UNCHANGED <<mux, todo, files, changes, copy, parts>>

LEMMA CallerKeeps ==
    ASSUME SiteInv, CallerFrame, ClientOK', \A g \in 1 .. MaxGets : Before(g)' => Before(g)
    PROVE  SiteInv'
<1>1. MuxInv' /\ FilesOK' /\ changes' \in 0 .. MaxChanges
  BY DEF SiteInv, CallerFrame, MuxInv, Registered, FilesOK
<1>2. CopyOK'
  BY DEF SiteInv, CallerFrame, CopyOK
<1>3. QED
  BY <1>1, <1>2 DEF SiteInv

LEMMA StartGetKeeps ==
    ASSUME SiteInv, NEW ask \in Gets, StartGet(ask)
    PROVE  SiteInv'
<1>1. PICK q \in Conditional(ask) :
        client' = [client EXCEPT !.at = "send", !.num = @ + 1, !.ask = ask, !.req = q,
                                 !.via = 0, !.reply = Nil, !.steady = TRUE, !.closed = FALSE]
  BY DEF StartGet
<1>2. DOMAIN client = ClientFields /\ client.num \in 0 .. MaxGets /\ ClientOK
  BY DEF SiteInv, ClientOK
<1>3. client.at = "idle" /\ todo = {}
  BY DEF StartGet
<1>4. client.num < MaxGets /\ CallerFrame
  BY DEF StartGet, CallerFrame
<1>5. GoodRequest(q)
  BY <1>2, ConditionalGood
<1>6. DOMAIN client' = ClientFields /\ client'.at = "send"
  BY <1>1, <1>2 DEF ClientFields
<1>7. client'.num = client.num + 1 /\ client'.via = 0
  BY <1>1, <1>2 DEF ClientFields
<1>8. client'.ask = ask /\ client'.req = q /\ client'.reply = Nil /\ client'.copied = client.copied
  BY <1>1, <1>2 DEF ClientFields
<1>9. MaxGets \in Nat
  BY SiteAssumption
<1>10. client'.num \in 0 .. MaxGets /\ client'.num >= 1 /\ client'.via \in 0 .. RedirectLimit - 1
  BY <1>2, <1>4, <1>7, <1>9 DEF RedirectLimit
<1>11. client.copied # Nil => client.copied.lastmod \in Nat
  BY <1>2 DEF ClientOK
<1>12. todo' = {}
  BY <1>3, <1>4 DEF CallerFrame
<1>13. ClientOK'
  BY <1>5, <1>6, <1>8, <1>10, <1>11, <1>12 DEF ClientOK
<1>14. \A g \in 1 .. MaxGets : Before(g)' => Before(g)
  BY <1>2, <1>7, <1>9 DEF Before
<1>15. QED
  BY <1>4, <1>13, <1>14, CallerKeeps

LEMMA FollowKeeps ==
    ASSUME SiteInv, Follow
    PROVE  /\ SiteInv'
           /\ client'.at = "send" /\ client'.num = client.num /\ client'.ask = client.ask
           /\ client'.via = client.via + 1 /\ client'.reply = client.reply
           /\ client'.copied = client.copied /\ client'.steady = client.steady
           /\ client'.req.path = Resolve(client.req.path, client.reply.location)
           /\ client'.req.since = Nil /\ client'.req.scheme = client.req.scheme
<1>1. ClientOK /\ DOMAIN client = ClientFields
  BY DEF SiteInv, ClientOK
<1>2. client.at = "reply" /\ client.reply.location # Nil
  BY DEF Follow
<1>3. GoodRequest(client.req) /\ GoodReply(client.reply) /\ todo = {} /\ client.ask \in Gets
  BY <1>1, <1>2 DEF ClientOK
<1> DEFINE to == Resolve(client.req.path, client.reply.location)
<1>4. to \in Paths
  BY <1>2, <1>3, ResolveTyped DEF GoodRequest, GoodReply
<1>5. client' = [client EXCEPT !.at = "send", !.req.path = to,
                               !.req.since = Nil, !.req.range = Nil, !.via = @ + 1]
  BY DEF Follow
<1> HIDE DEF to
<1>6. DOMAIN client.req = {"scheme", "path", "method", "creds", "range", "since"}
  BY <1>3 DEF GoodRequest
<1>7. DOMAIN client' = ClientFields /\ client'.at = "send"
  BY <1>1, <1>5 DEF ClientFields
<1>8. client'.num = client.num /\ client'.via = client.via + 1
  BY <1>1, <1>5 DEF ClientFields
<1>9. /\ client'.ask = client.ask /\ client'.reply = client.reply /\ client'.copied = client.copied
      /\ client'.steady = client.steady
  BY <1>1, <1>5 DEF ClientFields
<1>10. client'.req = [client.req EXCEPT !.path = to, !.since = Nil, !.range = Nil]
  BY <1>1, <1>5, <1>6 DEF ClientFields
<1>11. /\ DOMAIN client'.req = DOMAIN client.req /\ client'.req.path = to
       /\ client'.req.since = Nil /\ client'.req.range = Nil
  BY <1>6, <1>10
<1>12. client'.req.scheme = client.req.scheme
  BY <1>6, <1>10
<1>13. GoodRequest(client'.req)
  BY <1>3, <1>4, <1>11, <1>12 DEF GoodRequest
<1>14. /\ client'.num \in 0 .. MaxGets /\ client'.num >= 1
       /\ client'.via \in 0 .. RedirectLimit - 1
  <2>1. client.num \in 0 .. MaxGets /\ client.num >= 1 /\ client.via \in 0 .. RedirectLimit - 1
    BY <1>1, <1>2 DEF ClientOK
  <2>2. client.via + 1 < RedirectLimit
    BY DEF Follow, defaultCheckRedirect
  <2>3. QED
    BY <1>8, <2>1, <2>2 DEF RedirectLimit
<1>15. CallerFrame
  BY DEF Follow, CallerFrame
<1>16. ClientOK'
  <2>1. client.copied # Nil => client.copied.lastmod \in Nat
    BY <1>1 DEF ClientOK
  <2>2. todo' = {}
    BY <1>3, <1>15 DEF CallerFrame
  <2>3. QED
    BY <1>3, <1>7, <1>9, <1>13, <1>14, <2>1, <2>2 DEF ClientOK
<1>17. \A g \in 1 .. MaxGets : Before(g)' => Before(g)
  BY <1>2, <1>8 DEF Before
<1>18. SiteInv'
  BY <1>15, <1>16, <1>17, CallerKeeps
<1>19. QED
  BY <1>7, <1>8, <1>9, <1>11, <1>12, <1>18 DEF to

\* What ends a Get leaves the client as it is, except for its reply.
LEMMA EndsKeep ==
    ASSUME SiteInv, CallerFrame, client.at \in {"reply", "body"},
           NEW r, GoodReply(r), NEW closed,
           client' = [client EXCEPT !.at = "done", !.reply = r, !.closed = closed]
    PROVE  /\ SiteInv'
           /\ client'.at = "done" /\ client'.num = client.num /\ client'.ask = client.ask
           /\ client'.via = client.via /\ client'.reply = r /\ client'.closed = closed
           /\ client'.copied = client.copied /\ client'.steady = client.steady
           /\ client'.req = client.req
<1>1. ClientOK /\ DOMAIN client = ClientFields
  BY DEF SiteInv, ClientOK
<1>2. DOMAIN client' = ClientFields /\ client'.at = "done"
  BY <1>1 DEF ClientFields
<1>3. client'.num = client.num /\ client'.via = client.via
  BY <1>1 DEF ClientFields
<1>4. /\ client'.ask = client.ask /\ client'.reply = r /\ client'.copied = client.copied
      /\ client'.req = client.req /\ client'.steady = client.steady /\ client'.closed = closed
  BY <1>1 DEF ClientFields
<1>5. /\ GoodRequest(client.req) /\ todo = {} /\ client.ask \in Gets
      /\ client.num >= 1 /\ client.num \in 0 .. MaxGets /\ client.via \in 0 .. RedirectLimit - 1
      /\ client.copied # Nil => client.copied.lastmod \in Nat
  BY <1>1 DEF ClientOK
<1>6. todo' = {}
  BY <1>5 DEF CallerFrame
<1>7. ClientOK'
  BY <1>2, <1>3, <1>4, <1>5, <1>6 DEF ClientOK
<1>8. \A g \in 1 .. MaxGets : Before(g)' => Before(g)
  BY <1>2, <1>3 DEF Before
<1>9. SiteInv'
  BY <1>7, <1>8, CallerKeeps
<1>10. QED
  BY <1>2, <1>3, <1>4, <1>9

\* The steps that end a Get: the reply that stays, and whether the body was closed.
EndStep(r, closed) ==
    /\ CallerFrame /\ client.at \in {"reply", "body"} /\ GoodReply(r)
    /\ client' = [client EXCEPT !.at = "done", !.reply = r, !.closed = closed]

LEMMA EndSteps ==
    ASSUME SiteInv
    PROVE  /\ GiveUp => client.at = "reply" /\ EndStep(Reply(0, "error", Nil), client.closed)
           /\ Got => client.at = "reply" /\ EndStep(client.reply, client.closed)
           /\ BodyEnds => /\ client.at = "body" /\ copy[client.num].at = "ended"
                          /\ EndStep(client.reply, client.closed)
           /\ CloseBody => client.at = "body" /\ EndStep(client.reply, TRUE)
<1>1. ClientOK /\ DOMAIN client = ClientFields
  BY DEF SiteInv, ClientOK
<1>2. client.at \in {"reply", "body"} => GoodReply(client.reply)
  BY <1>1 DEF ClientOK
<1>3. GoodReply(Reply(0, "error", Nil))
  <2>1. 0 \in Nat /\ "error" \in Pages \ {"content"}
    BY DEF Pages
  <2>2. QED
    BY <2>1, PageGood
<1>4. ASSUME NEW e, e = [client EXCEPT !.at = "done"]
      PROVE  e = [client EXCEPT !.at = "done", !.reply = client.reply, !.closed = client.closed]
  BY <1>1, <1>4 DEF ClientFields
<1>5. ASSUME NEW e, e = [client EXCEPT !.at = "done", !.closed = TRUE]
      PROVE  e = [client EXCEPT !.at = "done", !.reply = client.reply, !.closed = TRUE]
  BY <1>1, <1>5 DEF ClientFields
<1>6. ASSUME NEW r, NEW e, e = [client EXCEPT !.at = "done", !.reply = r]
      PROVE  e = [client EXCEPT !.at = "done", !.reply = r, !.closed = client.closed]
  BY <1>1, <1>6 DEF ClientFields
<1>7. GiveUp => client.at = "reply" /\ EndStep(Reply(0, "error", Nil), client.closed)
  <2>1. SUFFICES ASSUME GiveUp PROVE client.at = "reply" /\ EndStep(Reply(0, "error", Nil), client.closed)
    OBVIOUS
  <2>2. /\ client.at = "reply" /\ CallerFrame
        /\ client' = [client EXCEPT !.at = "done", !.reply = Reply(0, "error", Nil)]
    BY <2>1 DEF GiveUp, CallerFrame
  <2>3. client' = [client EXCEPT !.at = "done", !.reply = Reply(0, "error", Nil), !.closed = client.closed]
    BY <1>6, <2>2
  <2>4. QED
    BY <1>3, <2>2, <2>3 DEF EndStep
<1>8. Got => client.at = "reply" /\ EndStep(client.reply, client.closed)
  <2>1. SUFFICES ASSUME Got PROVE client.at = "reply" /\ EndStep(client.reply, client.closed)
    OBVIOUS
  <2>2. client.at = "reply" /\ CallerFrame /\ client' = [client EXCEPT !.at = "done"]
    BY <2>1 DEF Got, CallerFrame
  <2>3. QED
    BY <1>2, <1>4, <2>2 DEF EndStep
<1>9. BodyEnds => /\ client.at = "body" /\ copy[client.num].at = "ended"
                  /\ EndStep(client.reply, client.closed)
  <2>1. SUFFICES ASSUME BodyEnds
                 PROVE  /\ client.at = "body" /\ copy[client.num].at = "ended"
                        /\ EndStep(client.reply, client.closed)
    OBVIOUS
  <2>2. /\ client.at = "body" /\ copy[client.num].at = "ended" /\ CallerFrame
        /\ client' = [client EXCEPT !.at = "done"]
    BY <2>1 DEF BodyEnds, CallerFrame
  <2>3. QED
    BY <1>2, <1>4, <2>2 DEF EndStep
<1>10. CloseBody => client.at = "body" /\ EndStep(client.reply, TRUE)
  <2>1. SUFFICES ASSUME CloseBody PROVE client.at = "body" /\ EndStep(client.reply, TRUE)
    OBVIOUS
  <2>2. client.at = "body" /\ CallerFrame /\ client' = [client EXCEPT !.at = "done", !.closed = TRUE]
    BY <2>1 DEF CloseBody, CallerFrame
  <2>3. QED
    BY <1>2, <1>5, <2>2 DEF EndStep
<1>11. QED
  BY <1>7, <1>8, <1>9, <1>10

LEMMA KeepKeeps ==
    ASSUME SiteInv, Keep
    PROVE  SiteInv'
<1>1. ClientOK /\ DOMAIN client = ClientFields /\ client.at = "done"
  BY DEF SiteInv, ClientOK, Keep
<1> DEFINE copied == IF client.reply.lastmod # Nil /\ client.reply.code = 200 /\ ~client.closed
                     THEN [ask |-> client.ask, lastmod |-> client.reply.lastmod,
                           file |-> client.reply.file, modtime |-> files[client.reply.file].modtime]
                     ELSE client.copied
<1>2. client' = [client EXCEPT !.at = "idle", !.copied = copied]
  BY <1>1 DEF Keep, ClientFields
<1>3. client.reply.lastmod \in Nat \cup {Nil}
  BY <1>1 DEF ClientOK, GoodReply
<1>4. client.copied # Nil => client.copied.lastmod \in Nat
  BY <1>1 DEF ClientOK
<1>5. copied # Nil => copied.lastmod \in Nat
  BY <1>3, <1>4
<1> HIDE DEF copied
<1>6. DOMAIN client' = ClientFields /\ client'.at = "idle"
  BY <1>1, <1>2 DEF ClientFields
<1>7. client'.num = client.num /\ client'.via = client.via
  BY <1>1, <1>2 DEF ClientFields
<1>8. client'.reply = client.reply /\ client'.copied = copied
  BY <1>1, <1>2 DEF ClientFields
<1>9. client.num \in 0 .. MaxGets /\ client.via \in 0 .. RedirectLimit - 1
  BY <1>1 DEF ClientOK
<1>10. GoodReply(client.reply)
  BY <1>1 DEF ClientOK
<1>11. ClientOK'
  BY <1>5, <1>6, <1>7, <1>8, <1>9, <1>10 DEF ClientOK
<1>12. CallerFrame
  BY DEF Keep, CallerFrame
<1>13. \A g \in 1 .. MaxGets : Before(g)' => Before(g)
  BY <1>6, <1>7 DEF Before
<1>14. QED
  BY <1>11, <1>12, <1>13, CallerKeeps

-----------------------------------------------------------------------------
\* The goroutines after the step of one Get.
LEMMA CopyStep ==
    ASSUME CopyOK, NEW g \in 1 .. MaxGets, NEW c, NEW w, CopyTyped(c), PartTyped(w, Len(c.ranges)),
           copy' = [copy EXCEPT ![g] = c], parts' = [parts EXCEPT ![g] = w],
           \A h \in 1 .. MaxGets : Before(h)' => Before(h) /\ h # g
    PROVE  CopyOK'
<1>1. DOMAIN copy = 1 .. MaxGets /\ DOMAIN parts = 1 .. MaxGets
  BY DEF CopyOK
<1>2. /\ DOMAIN copy' = 1 .. MaxGets /\ DOMAIN parts' = 1 .. MaxGets
      /\ copy' = [h \in 1 .. MaxGets |-> copy'[h]] /\ parts' = [h \in 1 .. MaxGets |-> parts'[h]]
  BY <1>1
<1>3. copy'[g] = c /\ parts'[g] = w
  BY <1>1
<1>4. \A h \in 1 .. MaxGets : h # g => copy'[h] = copy[h] /\ parts'[h] = parts[h]
  BY <1>1
<1>5. ASSUME NEW h \in 1 .. MaxGets
      PROVE  CopyTyped(copy'[h]) /\ PartTyped(parts'[h], Len(copy'[h].ranges))
  <2>1. CopyTyped(copy[h]) /\ PartTyped(parts[h], Len(copy[h].ranges))
    BY DEF CopyOK
  <2>2. CASE h = g
    BY <1>3, <2>2
  <2>3. CASE h # g
    BY <1>4, <2>1, <2>3
  <2>4. QED
    BY <2>2, <2>3
<1>6. \A h \in 1 .. MaxGets : Before(h)' => copy'[h] = NoCopy /\ parts'[h] = NoPart
  BY <1>4 DEF CopyOK
<1>7. QED
  BY <1>2, <1>5, <1>6 DEF CopyOK

\* What send does: the reply of the handler that the request gets, and the goroutines
\* that are started for its content.
Handed(r) ==
    /\ client.at = "send" /\ UNCHANGED <<mux, todo, files, changes>>
    /\ client' = [client EXCEPT !.at = IF Copying(r) THEN "body" ELSE "reply", !.reply = r]
    /\ \/ Copying(r) /\ StartCopy(client.num, r)
       \/ ~Copying(r) /\ UNCHANGED <<copy, parts>>

Answer(q, up) ==
    LET h == Dispatch(q)
    IN RoundTrip(h, q, IF h = Nil THEN Nil ELSE StripPrefix(h.prefix, q.path), up)

LEMMA SendIs ==
    ASSUME NEW up, Send(up)
    PROVE  Handed(Answer(client.req, up))
<1> DEFINE h == Dispatch(client.req)
           p == IF h = Nil THEN Nil ELSE StripPrefix(h.prefix, client.req.path)
           r == RoundTrip(h, client.req, p, up)
<1>1. r = Answer(client.req, up)
  BY Zenon DEF Answer
<1>2. /\ client.at = "send" /\ UNCHANGED <<mux, todo, files, changes>>
      /\ client' = [client EXCEPT !.at = IF Copying(r) THEN "body" ELSE "reply", !.reply = r]
      /\ \/ Copying(r) /\ StartCopy(client.num, r)
         \/ ~Copying(r) /\ UNCHANGED <<copy, parts>>
  BY Zenon DEF Send
<1>3. Handed(r)
  <2> HIDE DEF r
  <2>1. QED
    BY <1>2, Zenon DEF Handed
<1>4. QED
  BY <1>1, <1>3

LEMMA AnswerGood ==
    ASSUME SiteInv, client.at = "send", NEW up
    PROVE  GoodReply(Answer(client.req, up))
<1>1. MuxInv /\ FilesOK /\ todo = {} /\ GoodRequest(client.req)
  BY DEF SiteInv, ClientOK
<1> DEFINE h == Dispatch(client.req)
<1>2. h = Nil \/ GoodRoute(h)
  BY <1>1, DispatchGood
<1> HIDE DEF h
<1>3. GoodReply(RoundTrip(h, client.req, IF h = Nil THEN Nil ELSE StripPrefix(h.prefix, client.req.path), up))
  BY <1>1, <1>2, RoundTripGood
<1>4. QED
  BY <1>3 DEF Answer, h

LEMMA HandedKeeps ==
    ASSUME SiteInv, NEW r, GoodReply(r), Handed(r)
    PROVE  /\ SiteInv'
           /\ client'.at = (IF Copying(r) THEN "body" ELSE "reply") /\ client'.reply = r
           /\ client'.num = client.num /\ client'.ask = client.ask /\ client'.req = client.req
           /\ client'.via = client.via /\ client'.copied = client.copied
           /\ client'.steady = client.steady /\ client'.closed = client.closed
<1>1. ClientOK /\ DOMAIN client = ClientFields /\ client.at = "send" /\ CopyOK
  BY DEF SiteInv, ClientOK, Handed
<1> DEFINE at == IF Copying(r) THEN "body" ELSE "reply"
<1>2. client' = [client EXCEPT !.at = at, !.reply = r]
  BY DEF Handed
<1>3. at \in {"body", "reply"} /\ (at = "body" => r.page = "content")
  BY DEF Copying
<1> HIDE DEF at
<1>4. DOMAIN client' = ClientFields /\ client'.at = at
  BY <1>1, <1>2 DEF ClientFields
<1>5. client'.num = client.num /\ client'.via = client.via
  BY <1>1, <1>2 DEF ClientFields
<1>6. /\ client'.ask = client.ask /\ client'.req = client.req /\ client'.copied = client.copied
      /\ client'.steady = client.steady /\ client'.closed = client.closed
  BY <1>1, <1>2 DEF ClientFields
<1>7. client'.reply = r
  BY <1>1, <1>2 DEF ClientFields
<1>8. /\ GoodRequest(client.req) /\ todo = {} /\ client.ask \in Gets
      /\ client.num >= 1 /\ client.num \in 0 .. MaxGets /\ client.via \in 0 .. RedirectLimit - 1
      /\ client.copied # Nil => client.copied.lastmod \in Nat
  BY <1>1 DEF ClientOK
<1>9. UNCHANGED <<mux, todo, files, changes>>
  BY DEF Handed
<1>10. ClientOK'
  BY <1>3, <1>4, <1>5, <1>6, <1>7, <1>8, <1>9 DEF ClientOK
<1>11. MuxInv' /\ FilesOK' /\ changes' \in 0 .. MaxChanges
  BY <1>9 DEF SiteInv, MuxInv, Registered, FilesOK
<1>12. CopyOK'
  <2>1. CASE ~Copying(r)
    <3>1. UNCHANGED <<copy, parts>>
      BY <2>1 DEF Handed
    <3>2. \A g \in 1 .. MaxGets : Before(g)' => Before(g)
      BY <1>1, <1>5 DEF Before
    <3>3. QED
      BY <1>1, <3>1, <3>2 DEF CopyOK
  <2>2. CASE Copying(r)
    <3> DEFINE g == client.num
               c == [at |-> "copy", file |-> r.file, ranges |-> r.ranges, multi |-> r.multi,
                     left |-> IF client.req.method = "HEAD" THEN 0 ELSE SendSize(r),
                     off |-> r.ranges[1].start, sent |-> <<>>]
               w == [parts[g] EXCEPT !.at = IF r.multi THEN "parts" ELSE @]
    <3>1. copy' = [copy EXCEPT ![g] = c]
      BY <2>2 DEF Handed, StartCopy
    <3>2. parts' = [parts EXCEPT ![g] = w]
      BY <2>2 DEF Handed, StartCopy
    <3>3. g \in 1 .. MaxGets
      BY <1>8
    <3>4. CopyTyped(c)
      <4>1. SendSize(r) \in Nat /\ r.ranges[1].start \in Nat /\ r.ranges \in Seq(RangeSet)
        BY <2>2, SendSizeTyped DEF Copying, GoodReply
      <4>2. DOMAIN c = CopyFields /\ c.at = "copy"
        BY DEF CopyFields
      <4>3. c.ranges = r.ranges /\ c.off = r.ranges[1].start /\ c.sent = <<>>
        OBVIOUS
      <4>4. c.left = IF client.req.method = "HEAD" THEN 0 ELSE SendSize(r)
        OBVIOUS
      <4> HIDE DEF c
      <4>5. c.left \in Nat
        BY <4>1, <4>4
      <4>6. <<>> \in Seq(Int)
        BY EmptySeq
      <4>7. QED
        BY <4>1, <4>2, <4>3, <4>5, <4>6 DEF CopyTyped
    <3>5. PartTyped(w, Len(c.ranges))
      <4>1. Before(g)
        BY <1>1 DEF Before
      <4>2. parts[g] = NoPart
        BY <1>1, <3>3, <4>1 DEF CopyOK
      <4>3. DOMAIN w = PartFields /\ w.at \in {"none", "parts"}
        BY <4>2 DEF NoPart, PartFields
      <4>4. w.part = 1 /\ w.off = -1
        BY <4>2 DEF NoPart
      <4>5. c.ranges = r.ranges /\ r.ranges \in Seq(RangeSet)
        BY <2>2 DEF Copying, GoodReply
      <4>6. Len(c.ranges) \in Nat
        BY <4>5, LenProperties
      <4> HIDE DEF w, c
      <4>7. QED
        BY <4>3, <4>4, <4>6 DEF PartTyped
    <3>6. \A h \in 1 .. MaxGets : Before(h)' => Before(h) /\ h # g
      <4>1. client'.at = "body"
        BY <2>2, <1>4 DEF at
      <4>2. QED
        BY <1>5, <1>8, <4>1 DEF Before
    <3> HIDE DEF c, w, g
    <3>7. QED
      BY <1>1, <3>1, <3>2, <3>3, <3>4, <3>5, <3>6, CopyStep
  <2>3. QED
    BY <2>1, <2>2
<1>13. SiteInv'
  BY <1>10, <1>11, <1>12 DEF SiteInv
<1>14. QED
  BY <1>4, <1>5, <1>6, <1>7, <1>13 DEF at

\* The steps of the goroutines leave the caller alone.
ServerFrame == UNCHANGED <<mux, todo, files, changes, client>>

LEMMA ServerKeeps ==
    ASSUME SiteInv, ServerFrame, NEW g \in 1 .. MaxGets, ~Before(g), NEW c, NEW w,
           CopyTyped(c), PartTyped(w, Len(c.ranges)),
           copy' = [copy EXCEPT ![g] = c], parts' = [parts EXCEPT ![g] = w]
    PROVE  SiteInv'
<1>1. MuxInv' /\ FilesOK' /\ changes' \in 0 .. MaxChanges
  BY DEF SiteInv, ServerFrame, MuxInv, Registered, FilesOK
<1>2. ClientOK'
  BY DEF SiteInv, ServerFrame, ClientOK
<1>3. \A h \in 1 .. MaxGets : Before(h)' => Before(h) /\ h # g
  BY DEF Before, ServerFrame
<1>4. CopyOK'
  BY <1>3, CopyStep DEF SiteInv
<1>5. QED
  BY <1>1, <1>2, <1>4 DEF SiteInv

\* A goroutine that is at work has begun.
LEMMA BegunAt ==
    ASSUME SiteInv, NEW g \in 1 .. MaxGets, copy[g].at # "none" \/ parts[g].at # "none"
    PROVE  /\ ~Before(g) /\ CopyTyped(copy[g]) /\ PartTyped(parts[g], Len(copy[g].ranges))
           /\ g \in DOMAIN copy /\ g \in DOMAIN parts
           /\ copy = [copy EXCEPT ![g] = copy[g]] /\ parts = [parts EXCEPT ![g] = parts[g]]
<1>1. NoCopy.at = "none" /\ NoPart.at = "none"
  BY DEF NoCopy, NoPart
<1>2. g \in DOMAIN copy /\ g \in DOMAIN parts
  BY DEF SiteInv, CopyOK
<1>3. copy = [h \in 1 .. MaxGets |-> copy[h]] /\ parts = [h \in 1 .. MaxGets |-> parts[h]]
  BY DEF SiteInv, CopyOK
<1>4. copy = [copy EXCEPT ![g] = copy[g]] /\ parts = [parts EXCEPT ![g] = parts[g]]
  BY <1>3
<1>5. QED
  BY <1>1, <1>2, <1>4 DEF SiteInv, CopyOK

\* One unit is handed over.
LEMMA PutTyped ==
    ASSUME NEW c, CopyTyped(c), c.left > 0, NEW unit \in Int
    PROVE  /\ CopyTyped(Put(c, unit)) /\ DOMAIN Put(c, unit) = DOMAIN c
           /\ Put(c, unit).at = c.at /\ Put(c, unit).file = c.file /\ Put(c, unit).ranges = c.ranges
           /\ Put(c, unit).multi = c.multi /\ Put(c, unit).off = c.off
           /\ Put(c, unit).left = c.left - 1 /\ Put(c, unit).sent = Append(c.sent, unit)
<1> DEFINE d == Put(c, unit)
<1>1. DOMAIN c = CopyFields
  BY DEF CopyTyped
<1>2. DOMAIN d = CopyFields /\ d.at = c.at /\ d.file = c.file /\ d.multi = c.multi
  BY <1>1 DEF Put, CopyFields
<1>3. d.ranges = c.ranges /\ d.sent = Append(c.sent, unit)
  BY <1>1 DEF Put, CopyFields
<1>4. d.left = c.left - 1 /\ d.off = c.off
  BY <1>1 DEF Put, CopyFields
<1> HIDE DEF d
<1>5. d.left \in Nat /\ d.off \in Nat
  BY <1>4 DEF CopyTyped
<1>6. d.sent \in Seq(Int)
  BY <1>3, AppendProperties DEF CopyTyped
<1>7. CopyTyped(d)
  BY <1>2, <1>3, <1>5, <1>6 DEF CopyTyped
<1>8. QED
  BY <1>1, <1>2, <1>3, <1>4, <1>7 DEF d

LEMMA CopyByteKeeps ==
    ASSUME SiteInv, NEW g \in 1 .. MaxGets, CopyByte(g)
    PROVE  SiteInv'
<1> DEFINE c == copy[g]
           d == Put(c, c.off)
           e == [d EXCEPT !.off = @ + 1]
<1>1. c.at = "copy" /\ c.left > 0 /\ ServerFrame
  BY DEF CopyByte, ServerFrame
<1>2. /\ ~Before(g) /\ CopyTyped(c) /\ PartTyped(parts[g], Len(c.ranges))
      /\ parts = [parts EXCEPT ![g] = parts[g]]
  BY <1>1, BegunAt
<1>3. copy' = [copy EXCEPT ![g] = e]
  BY DEF CopyByte
<1>4. parts' = [parts EXCEPT ![g] = parts[g]]
  BY <1>2 DEF CopyByte
<1>5. CopyTyped(d) /\ d.ranges = c.ranges
  <2> HIDE DEF c
  <2>1. c.off \in Int
    BY <1>2 DEF CopyTyped
  <2>2. QED
    BY <1>1, <1>2, <2>1, PutTyped
<1> HIDE DEF c, d
<1>6. DOMAIN d = CopyFields /\ d.off \in Nat
  BY <1>5 DEF CopyTyped
<1>7. DOMAIN e = CopyFields /\ e.at = d.at
  BY <1>6 DEF CopyFields
<1>8. e.left = d.left /\ e.off = d.off + 1
  BY <1>6 DEF CopyFields
<1>9. e.ranges = d.ranges /\ e.sent = d.sent
  BY <1>6 DEF CopyFields
<1> HIDE DEF e
<1>10. CopyTyped(e)
  <2>1. e.off \in Nat
    BY <1>6, <1>8
  <2>2. QED
    BY <1>5, <1>7, <1>8, <1>9, <2>1 DEF CopyTyped
<1>11. PartTyped(parts[g], Len(e.ranges))
  BY <1>2, <1>5, <1>9
<1>12. QED
  BY <1>1, <1>2, <1>3, <1>4, <1>10, <1>11, ServerKeeps

LEMMA CopyEndsKeeps ==
    ASSUME SiteInv, NEW g \in 1 .. MaxGets, CopyEnds(g)
    PROVE  SiteInv'
<1> DEFINE c == copy[g]
           e == [c EXCEPT !.at = "ended"]
<1>1. c.at = "copy" /\ ServerFrame
  BY DEF CopyEnds, ServerFrame
<1>2. /\ ~Before(g) /\ CopyTyped(c) /\ PartTyped(parts[g], Len(c.ranges))
      /\ parts = [parts EXCEPT ![g] = parts[g]]
  BY <1>1, BegunAt
<1>3. copy' = [copy EXCEPT ![g] = e]
  BY DEF CopyEnds
<1>4. parts' = [parts EXCEPT ![g] = parts[g]]
  BY <1>2 DEF CopyEnds
<1> HIDE DEF c
<1>5. DOMAIN c = CopyFields
  BY <1>2 DEF CopyTyped
<1>6. DOMAIN e = CopyFields /\ e.at = "ended" /\ e.ranges = c.ranges /\ e.sent = c.sent
  BY <1>5 DEF CopyFields
<1>7. e.left = c.left /\ e.off = c.off
  BY <1>5 DEF CopyFields
<1> HIDE DEF e
<1>8. CopyTyped(e)
  BY <1>2, <1>6, <1>7 DEF CopyTyped
<1>9. PartTyped(parts[g], Len(e.ranges))
  BY <1>2, <1>6
<1>10. QED
  BY <1>1, <1>2, <1>3, <1>4, <1>8, <1>9, ServerKeeps

\* The unit that is written next, and where the goroutine stands after it.
LEMMA UnitTyped ==
    ASSUME NEW g, CopyTyped(copy[g]), PartTyped(parts[g], Len(copy[g].ranges))
    PROVE  /\ PartUnit(g) \in Int /\ PartUnit(g) >= -2
           /\ PartUnit(g) = -2 <=> parts[g].part > Len(copy[g].ranges)
           /\ parts[g].part <= Len(copy[g].ranges) =>
                /\ copy[g].ranges[parts[g].part] \in RangeSet
                /\ copy[g].ranges[parts[g].part].start \in Nat
                /\ copy[g].ranges[parts[g].part].length \in Nat
<1> DEFINE rs == copy[g].ranges
           w == parts[g]
           n == Len(rs)
<1>1. rs \in Seq(RangeSet) /\ n \in Nat /\ w.part \in 1 .. n + 1 /\ w.off \in Int /\ w.off >= -1
  BY LenProperties DEF CopyTyped, PartTyped
<1>2. w.part <= n => rs[w.part] \in RangeSet
  <2>1. w.part <= n => w.part \in 1 .. n
    BY <1>1
  <2>2. QED
    BY <1>1, <2>1, ElementOfSeq
<1>3. w.part <= n => rs[w.part].start \in Nat /\ rs[w.part].length \in Nat
  BY <1>2 DEF RangeSet
<1>4. PartUnit(g) = IF w.part > n THEN -2 ELSE IF w.off < 0 THEN -1 ELSE rs[w.part].start + w.off
  BY DEF PartUnit
<1> HIDE DEF rs, w, n
<1>5. /\ PartUnit(g) \in Int /\ PartUnit(g) >= -2
      /\ PartUnit(g) = -2 <=> w.part > n
  BY <1>1, <1>3, <1>4
<1>6. QED
  BY <1>2, <1>3, <1>5 DEF rs, w, n

LEMMA AfterUnitTyped ==
    ASSUME NEW g, CopyTyped(copy[g]), PartTyped(parts[g], Len(copy[g].ranges))
    PROVE  PartTyped(AfterUnit(g), Len(copy[g].ranges))
<1> DEFINE rs == copy[g].ranges
           w == parts[g]
           n == Len(rs)
           v == AfterUnit(g)
<1>1. DOMAIN w = PartFields
  BY DEF PartTyped
<1>2. /\ w.part \in 1 .. n + 1 /\ w.off \in Int /\ w.off >= -1 /\ n \in Nat
      /\ w.at \in {"none", "parts", "exit"}
  BY LenProperties DEF CopyTyped, PartTyped
<1>3. PartUnit(g) # -2 => w.part <= n /\ rs[w.part].length \in Nat
  BY <1>2, UnitTyped
<1>4. CASE PartUnit(g) = -2
  <2>1. v = [w EXCEPT !.at = "exit"]
    BY <1>4 DEF AfterUnit
  <2>2. DOMAIN v = PartFields /\ v.at = "exit"
    BY <1>1, <2>1 DEF PartFields
  <2>3. v.part = w.part /\ v.off = w.off
    BY <1>1, <2>1 DEF PartFields
  <2> HIDE DEF v, w, n
  <2>4. PartTyped(v, n)
    BY <1>2, <2>2, <2>3 DEF PartTyped
  <2>5. QED
    BY <2>4 DEF v, n
<1>5. CASE PartUnit(g) # -2 /\ w.off + 1 < rs[w.part].length
  <2>1. v = [w EXCEPT !.off = @ + 1]
    <3>1. ~(w.off + 1 >= rs[w.part].length)
      BY <1>2, <1>3, <1>5
    <3>2. QED
      BY <1>5, <3>1 DEF AfterUnit
  <2>2. DOMAIN v = PartFields /\ v.at = w.at
    BY <1>1, <2>1 DEF PartFields
  <2>3. v.part = w.part /\ v.off = w.off + 1
    BY <1>1, <2>1 DEF PartFields
  <2> HIDE DEF v, w, n
  <2>4. PartTyped(v, n)
    BY <1>2, <2>2, <2>3 DEF PartTyped
  <2>5. QED
    BY <2>4 DEF v, n
<1>6. CASE PartUnit(g) # -2 /\ w.off + 1 >= rs[w.part].length
  <2>1. v = [w EXCEPT !.part = @ + 1, !.off = -1]
    <3>1. ~(w.off + 1 < rs[w.part].length)
      BY <1>2, <1>3, <1>6
    <3>2. QED
      BY <1>6, <3>1 DEF AfterUnit
  <2>2. DOMAIN v = PartFields /\ v.at = w.at
    BY <1>1, <2>1 DEF PartFields
  <2>3. v.part = w.part + 1 /\ v.off = -1
    BY <1>1, <2>1 DEF PartFields
  <2>4. w.part <= n
    BY <1>3, <1>6
  <2> HIDE DEF v, w, n
  <2>5. PartTyped(v, n)
    BY <1>2, <2>2, <2>3, <2>4 DEF PartTyped
  <2>6. QED
    BY <2>5 DEF v, n
<1>7. QED
  <2>1. PartUnit(g) = -2 \/ (w.off + 1 < rs[w.part].length) \/ (w.off + 1 >= rs[w.part].length)
    BY <1>2, <1>3
  <2>2. QED
    BY <1>4, <1>5, <1>6, <2>1

LEMMA WritePartKeeps ==
    ASSUME SiteInv, NEW g \in 1 .. MaxGets, WritePart(g)
    PROVE  SiteInv'
<1> DEFINE c == copy[g]
           unit == PartUnit(g)
           d == Put(c, unit)
           v == AfterUnit(g)
<1>1. c.at = "copy" /\ c.left > 0 /\ ServerFrame
  BY DEF WritePart, ServerFrame
<1>2. ~Before(g) /\ CopyTyped(c) /\ PartTyped(parts[g], Len(c.ranges))
  BY <1>1, BegunAt
<1>3. copy' = [copy EXCEPT ![g] = d] /\ parts' = [parts EXCEPT ![g] = v]
  BY DEF WritePart
<1>4. unit \in Int /\ PartTyped(v, Len(c.ranges))
  BY <1>2, UnitTyped, AfterUnitTyped
<1> HIDE DEF c, unit, v
<1>5. CopyTyped(d) /\ d.ranges = c.ranges
  BY <1>1, <1>2, <1>4, PutTyped
<1> HIDE DEF d
<1>6. QED
  BY <1>1, <1>2, <1>3, <1>4, <1>5, ServerKeeps

LEMMA PartFailsKeeps ==
    ASSUME SiteInv, NEW g \in 1 .. MaxGets, PartFails(g)
    PROVE  SiteInv'
<1> DEFINE w == parts[g]
           v == [w EXCEPT !.at = "exit"]
<1>1. w.at = "parts" /\ ServerFrame
  BY DEF PartFails, ServerFrame
<1>2. /\ ~Before(g) /\ CopyTyped(copy[g]) /\ PartTyped(w, Len(copy[g].ranges))
      /\ copy = [copy EXCEPT ![g] = copy[g]]
  BY <1>1, BegunAt
<1>3. parts' = [parts EXCEPT ![g] = v]
  BY DEF PartFails
<1>4. copy' = [copy EXCEPT ![g] = copy[g]]
  BY <1>2 DEF PartFails
<1> HIDE DEF w
<1>5. DOMAIN w = PartFields
  BY <1>2 DEF PartTyped
<1>6. DOMAIN v = PartFields /\ v.at = "exit"
  BY <1>5 DEF PartFields
<1>7. v.part = w.part /\ v.off = w.off
  BY <1>5 DEF PartFields
<1> HIDE DEF v
<1>8. PartTyped(v, Len(copy[g].ranges))
  BY <1>2, <1>6, <1>7 DEF PartTyped
<1>9. QED
  BY <1>1, <1>2, <1>3, <1>4, <1>8, ServerKeeps

\* The file system changes.
LEMMA ChangedKeeps ==
    ASSUME SiteInv, Changed, FilesOK'
    PROVE  /\ SiteInv' /\ client'.at = client.at /\ client'.num = client.num
           /\ client'.ask = client.ask /\ client'.req = client.req /\ client'.via = client.via
           /\ client'.reply = client.reply /\ client'.copied = client.copied
           /\ ~client'.steady
<1>1. ClientOK /\ DOMAIN client = ClientFields /\ changes \in 0 .. MaxChanges
  BY DEF SiteInv, ClientOK
<1>2. /\ client' = [client EXCEPT !.steady = FALSE] /\ UNCHANGED <<mux, todo, copy, parts>>
      /\ changes < MaxChanges /\ changes' = changes + 1
  BY DEF Changed
<1>3. DOMAIN client' = ClientFields /\ client'.at = client.at
  BY <1>1, <1>2 DEF ClientFields
<1>4. client'.num = client.num /\ client'.via = client.via
  BY <1>1, <1>2 DEF ClientFields
<1>5. /\ client'.ask = client.ask /\ client'.req = client.req /\ client'.copied = client.copied
      /\ client'.reply = client.reply
  BY <1>1, <1>2 DEF ClientFields
<1>6. ~client'.steady
  BY <1>1, <1>2 DEF ClientFields
<1>7. ClientOK'
  BY <1>1, <1>2, <1>3, <1>4, <1>5 DEF ClientOK
<1>8. MuxInv'
  BY <1>2 DEF SiteInv, MuxInv, Registered
<1>9. changes' \in 0 .. MaxChanges
  BY <1>1, <1>2, SiteAssumption
<1>10. CopyOK'
  <2>1. \A g \in 1 .. MaxGets : Before(g)' = Before(g)
    BY <1>3, <1>4 DEF Before
  <2>2. QED
    BY <1>2, <2>1 DEF SiteInv, CopyOK
<1>11. SiteInv'
  BY <1>7, <1>8, <1>9, <1>10 DEF SiteInv
<1>12. QED
  BY <1>3, <1>4, <1>5, <1>6, <1>11

LEMMA RewriteFiles ==
    ASSUME FilesOK, NEW name \in DOMAIN files, NEW size \in Nat, NEW later \in Nat,
           Rewrite(name, size, later)
    PROVE  /\ FilesOK'
           /\ \A n \in DOMAIN FirstFiles :
                /\ files'[n].dir <=> files[n].dir
                /\ files'[n].modtime = IF n = name THEN files[n].modtime + later ELSE files[n].modtime
<1>1. /\ files \in [DOMAIN FirstFiles -> Stats] /\ name \in DOMAIN FirstFiles
      /\ files' = [files EXCEPT ![name].size = size, ![name].modtime = @ + later]
  BY DEF FilesOK, Rewrite
<1>2. files[name] \in Stats
  BY <1>1
<1> DEFINE f == [files[name] EXCEPT !.size = size, !.modtime = @ + later]
<1>3. /\ f \in Stats /\ (f.dir <=> files[name].dir) /\ f.modtime = files[name].modtime + later
  <2> DEFINE g == files[name]
             m == g.modtime + later
  <2>1. g \in Stats /\ m \in Nat
    BY <1>2 DEF Stats
  <2>2. f = [g EXCEPT !.size = size, !.modtime = m]
    OBVIOUS
  <2> HIDE DEF f, g, m
  <2>3. f \in Stats
    BY <2>1, <2>2 DEF Stats
  <2>4. f.dir = g.dir
    BY <2>1, <2>2 DEF Stats
  <2>5. f.modtime = m
    BY <2>1, <2>2 DEF Stats
  <2>6. QED
    BY <2>3, <2>4, <2>5 DEF g, m
<1>4. files' = [files EXCEPT ![name] = f]
  BY <1>1
<1> HIDE DEF f
<1>5. files' \in [DOMAIN FirstFiles -> Stats]
  BY <1>1, <1>3, <1>4
<1>6. \A n \in DOMAIN FirstFiles :
        /\ files'[n].dir <=> files[n].dir
        /\ files'[n].modtime = IF n = name THEN files[n].modtime + later ELSE files[n].modtime
  BY <1>1, <1>3, <1>4
<1>7. <<>> \in DOMAIN FirstFiles /\ \A n \in DOMAIN FirstFiles \ {<<>>} : Front(n) \in DOMAIN FirstFiles
  BY SiteAssumption
<1>8. FilesOK'
  BY <1>5, <1>6, <1>7 DEF FilesOK
<1>9. QED
  BY <1>6, <1>8

\* What lies in a directory lies under its name.
LEMMA FrontAbove ==
    ASSUME NEW n \in Seq(Segment), n # <<>>
    PROVE  IsPrefix(Front(n), n) /\ Front(n) # n
<1>1. Front(n) = SubSeq(n, 1, Len(n) - 1) /\ Len(n) \in Nat \ {0}
  BY EmptySeq, LenProperties DEF Front
<1>2. /\ Len(Front(n)) = Len(n) - 1 /\ Front(n) \in Seq(Segment)
      /\ \A i \in 1 .. Len(n) - 1 : Front(n)[i] = n[i]
  BY FrontFields
<1>3. Front(n) = SubSeq(n, 1, Len(Front(n)))
  BY <1>1, <1>2
<1>4. QED
  BY <1>1, <1>2, <1>3 DEF IsPrefix

LEMMA SwapFiles ==
    ASSUME FilesOK, NEW name \in DOMAIN files, Swap(name)
    PROVE  /\ FilesOK'
           /\ \A n \in DOMAIN FirstFiles :
                /\ files'[n].dir <=> IF n = name THEN ~files[n].dir ELSE files[n].dir
                /\ files'[n].modtime = IF n = name THEN files[n].modtime + 2 ELSE files[n].modtime
           /\ \A n \in DOMAIN FirstFiles \ {<<>>} : Front(n) # name
<1>1. /\ files \in [DOMAIN FirstFiles -> Stats] /\ name \in DOMAIN FirstFiles /\ name # <<>>
      /\ files' = [files EXCEPT ![name].dir = ~@, ![name].modtime = @ + 2]
      /\ \A n \in DOMAIN FirstFiles : IsPrefix(name, n) => n = name
  BY DEF FilesOK, Swap
<1>2. files[name] \in Stats
  BY <1>1
<1> DEFINE f == [files[name] EXCEPT !.dir = ~@, !.modtime = @ + 2]
<1>3. f \in Stats /\ (f.dir <=> ~files[name].dir) /\ f.modtime = files[name].modtime + 2
  <2> DEFINE g == files[name]
             m == g.modtime + 2
             d == ~g.dir
  <2>1. g \in Stats /\ m \in Nat /\ d \in BOOLEAN
    BY <1>2 DEF Stats
  <2>2. f = [g EXCEPT !.dir = d, !.modtime = m]
    OBVIOUS
  <2> HIDE DEF f, g, m, d
  <2>3. f \in Stats
    BY <2>1, <2>2 DEF Stats
  <2>4. f.dir = d
    BY <2>1, <2>2 DEF Stats
  <2>5. f.modtime = m
    BY <2>1, <2>2 DEF Stats
  <2>6. QED
    BY <2>3, <2>4, <2>5 DEF g, m, d
<1>4. files' = [files EXCEPT ![name] = f]
  BY <1>1
<1> HIDE DEF f
<1>5. files' \in [DOMAIN FirstFiles -> Stats]
  BY <1>1, <1>3, <1>4
<1>6. \A n \in DOMAIN FirstFiles :
        /\ files'[n].dir <=> IF n = name THEN ~files[n].dir ELSE files[n].dir
        /\ files'[n].modtime = IF n = name THEN files[n].modtime + 2 ELSE files[n].modtime
  BY <1>1, <1>3, <1>4
<1>7. \A n \in DOMAIN FirstFiles \ {<<>>} : Front(n) \in DOMAIN FirstFiles /\ n \in Seq(Segment)
  BY SiteAssumption
<1>8. \A n \in DOMAIN FirstFiles \ {<<>>} : Front(n) # name
  BY <1>1, <1>7, FrontAbove
<1>9. <<>> \in DOMAIN FirstFiles
  BY SiteAssumption
<1>10. FilesOK'
  BY <1>1, <1>5, <1>6, <1>7, <1>8, <1>9 DEF FilesOK
<1>11. QED
  BY <1>6, <1>8, <1>10

LEMMA RegisterKeeps ==
    ASSUME SiteInv, NEW pattern \in todo, Register(pattern)
    PROVE  SiteInv'
<1>1. MuxInv'
  BY MuxNext DEF SiteInv, Next
<1>2. UNCHANGED <<files, changes, client, copy, parts>> /\ todo' = todo \ {pattern}
  BY DEF Register
<1>3. ClientOK'
  BY <1>2 DEF SiteInv, ClientOK
<1>4. CopyOK'
  BY <1>2 DEF SiteInv, CopyOK, Before
<1>5. FilesOK' /\ changes' \in 0 .. MaxChanges
  BY <1>2 DEF SiteInv, FilesOK
<1>6. QED
  BY <1>1, <1>3, <1>4, <1>5 DEF SiteInv

LEMMA SiteNext ==
    ASSUME SiteInv, [Next]_vars
    PROVE  SiteInv'
<1>1. CASE UNCHANGED vars
  BY <1>1 DEF vars, SiteInv, MuxInv, Registered, FilesOK, ClientOK, CopyOK, Before
<1>2. CASE \E pattern \in todo : Register(pattern)
  BY <1>2, RegisterKeeps
<1>3. CASE \E ask \in Gets : StartGet(ask)
  BY <1>3, StartGetKeeps
<1>4. CASE \E up \in BOOLEAN : Send(up)
  <2>1. PICK up \in BOOLEAN : Send(up)
    BY <1>4
  <2>2. client.at = "send" /\ Handed(Answer(client.req, up))
    BY <2>1, SendIs DEF Send
  <2>3. GoodReply(Answer(client.req, up))
    BY <2>2, AnswerGood
  <2>4. QED
    BY <2>2, <2>3, HandedKeeps
<1>5. CASE Follow
  BY <1>5, FollowKeeps
<1>6. CASE GiveUp \/ Got \/ BodyEnds \/ CloseBody
  <2>1. \E r, closed : EndStep(r, closed)
    BY <1>6, EndSteps
  <2>2. QED
    BY <2>1, EndsKeep DEF EndStep
<1>7. CASE Keep
  BY <1>7, KeepKeeps
<1>8. CASE \E g \in 1 .. MaxGets : Serve(g) \/ PartFails(g)
  BY <1>8, CopyByteKeeps, CopyEndsKeeps, WritePartKeeps, PartFailsKeeps DEF Serve
<1>9. CASE \E name \in DOMAIN files : Swap(name)
  BY <1>9, SwapFiles, ChangedKeeps DEF Swap, SiteInv
<1>10. CASE \E name \in DOMAIN files, s \in Sizes, l \in {1, 2} : Rewrite(name, s, l)
  <2>1. PICK name \in DOMAIN files, s \in Sizes, l \in {1, 2} : Rewrite(name, s, l)
    BY <1>10
  <2>2. s \in Nat /\ l \in Nat
    BY SiteAssumption
  <2>3. FilesOK' /\ Changed
    BY <2>1, <2>2, RewriteFiles DEF Rewrite, SiteInv
  <2>4. QED
    BY <2>3, ChangedKeeps
<1>11. QED
  BY <1>1, <1>2, <1>3, <1>4, <1>5, <1>6, <1>7, <1>8, <1>9, <1>10 DEF Next, Get

\* The mux, the client and the goroutines that copy keep their type, whatever requests
\* are made and however files change: no copy has less than nothing left, no part is
\* written behind the last one, and every reply is one of the known pages.
THEOREM SiteTyped == Spec => []TypeOK
<1>1. SiteInv => TypeOK
  <2> SUFFICES ASSUME SiteInv PROVE TypeOK
    OBVIOUS
  <2>1. todo \subseteq DOMAIN Handlers /\ changes \in 0 .. MaxChanges
    BY DEF SiteInv, MuxInv
  <2>2. /\ client.at \in {"idle", "send", "reply", "body", "done"}
        /\ client.reply # Nil => client.reply.page \in Pages
    BY DEF SiteInv, ClientOK, GoodReply
  <2>3. client.num \in 0 .. MaxGets /\ client.via \in 0 .. RedirectLimit
    BY DEF SiteInv, ClientOK, RedirectLimit
  <2>4. \A g \in 1 .. MaxGets : CopyTyped(copy[g]) /\ PartTyped(parts[g], Len(copy[g].ranges))
    BY DEF SiteInv, CopyOK
  <2>5. QED
    BY <2>1, <2>2, <2>3, <2>4 DEF TypeOK, CopyTyped, PartTyped
<1>2. Init => SiteInv
  BY SiteInit
<1>3. SiteInv /\ [Next]_vars => SiteInv'
  BY SiteNext
<1>4. QED
  BY <1>1, <1>2, <1>3, PTL DEF Spec

-----------------------------------------------------------------------------
(***************************************************************************)
(* Redirects.  A path that has been cleaned has no dots, and a path without*)
(* dots is clean.                                                          *)
(***************************************************************************)
Ordinary(x) == x \notin {"", ".", ".."}
Plain(s) == \A i \in 1 .. Len(s) : Ordinary(s[i])

LEMMA FrontLast ==
    ASSUME NEW S, NEW s \in Seq(S), s # <<>>
    PROVE  s = Append(Front(s), Last(s))
<1>1. /\ Front(s) \in Seq(S) /\ Len(Front(s)) = Len(s) - 1 /\ Len(s) \in Nat \ {0}
      /\ \A i \in 1 .. Len(s) - 1 : Front(s)[i] = s[i]
      /\ Last(s) \in S
  BY FrontFields
<1> DEFINE t == Append(Front(s), Last(s))
<1>2. t \in Seq(S) /\ Len(t) = Len(s)
  BY <1>1, AppendProperties
<1>3. \A i \in 1 .. Len(s) - 1 : t[i] = s[i]
  BY <1>1, AppendProperties
<1>4. t[Len(s)] = s[Len(s)]
  BY <1>1, AppendProperties DEF Last
<1>5. \A i \in 1 .. Len(s) : t[i] = s[i]
  BY <1>1, <1>3, <1>4
<1> HIDE DEF t
<1>6. s = t
  BY <1>2, <1>5, SeqEqual
<1>7. QED
  BY <1>6 DEF t

LEMMA AppendFront ==
    ASSUME NEW S, NEW s \in Seq(S), NEW x \in S
    PROVE  Append(s, x) # <<>> /\ Front(Append(s, x)) = s /\ Last(Append(s, x)) = x
<1> DEFINE t == Append(s, x)
<1>1. Len(s) \in Nat /\ t \in Seq(S) /\ Len(t) = Len(s) + 1
  BY LenProperties, AppendProperties
<1>2. t # <<>>
  <2>1. Len(<<>>) = 0
    BY EmptySeq
  <2> HIDE DEF t
  <2>2. QED
    BY <1>1, <2>1
<1>3. (\A i \in 1 .. Len(s) : t[i] = s[i]) /\ t[Len(s) + 1] = x
  BY AppendProperties
<1> HIDE DEF t
<1>4. Last(t) = x
  BY <1>1, <1>3 DEF Last
<1>5. /\ Front(t) \in Seq(S) /\ Len(Front(t)) = Len(t) - 1
      /\ \A i \in 1 .. Len(t) - 1 : Front(t)[i] = t[i]
  BY <1>1, <1>2, FrontFields
<1>6. Len(Front(t)) = Len(s) /\ \A i \in 1 .. Len(s) : Front(t)[i] = s[i]
  BY <1>1, <1>3, <1>5
<1>7. Front(t) = s
  BY <1>5, <1>6, SeqEqual
<1>8. QED
  BY <1>2, <1>4, <1>7 DEF t

LEMMA PlainParts ==
    ASSUME NEW s \in Seq(Segment), Plain(s)
    PROVE  /\ s # <<>> => Plain(Front(s)) /\ Ordinary(Last(s))
           /\ \A x \in Segment : Ordinary(x) => Plain(Append(s, x))
<1>1. ASSUME s # <<>> PROVE Plain(Front(s)) /\ Ordinary(Last(s))
  <2>1. /\ Len(Front(s)) = Len(s) - 1 /\ Len(s) \in Nat \ {0}
        /\ \A i \in 1 .. Len(s) - 1 : Front(s)[i] = s[i]
    BY <1>1, FrontFields
  <2>2. QED
    BY <2>1 DEF Plain, Last
<1>2. ASSUME NEW x \in Segment, Ordinary(x) PROVE Plain(Append(s, x))
  <2> DEFINE t == Append(s, x)
  <2>1. /\ Len(s) \in Nat /\ Len(t) = Len(s) + 1
        /\ (\A i \in 1 .. Len(s) : t[i] = s[i]) /\ t[Len(s) + 1] = x
    BY LenProperties, AppendProperties
  <2> HIDE DEF t
  <2>2. \A i \in 1 .. Len(t) : i \in 1 .. Len(s) \/ i = Len(s) + 1
    BY <2>1
  <2>3. Plain(t)
    BY <1>2, <2>1, <2>2 DEF Plain
  <2>4. QED
    BY <2>3 DEF t
<1>3. QED
  BY <1>1, <1>2

LEMMA CleanStepPlain ==
    ASSUME NEW d \in Seq(Segment), Plain(d), NEW x \in Segment
    PROVE  Plain(CleanStep(d, x)) /\ (Ordinary(x) => CleanStep(d, x) = Append(d, x))
<1>1. Ordinary(x) => CleanStep(d, x) = Append(d, x)
  BY DEF Ordinary, CleanStep
<1>2. CASE Ordinary(x)
  BY <1>1, <1>2, PlainParts
<1>3. CASE ~Ordinary(x)
  <2>1. CleanStep(d, x) = d \/ (d # <<>> /\ CleanStep(d, x) = Front(d))
    BY <1>3 DEF CleanStep, Ordinary
  <2>2. QED
    BY <1>1, <1>3, <2>1, PlainParts
<1>4. QED
  BY <1>2, <1>3, <1>1

LEMMA CleanIsPlain ==
    ASSUME NEW s \in Seq(Segment)
    PROVE  Plain(Clean(s))
<1> DEFINE n == Len(s)
<1>1. PICK f \in [0 .. n -> Seq(Segment)] : Clean(s) = f[n] /\ Cleans(f, s)
  BY CleanAdds
<1>2. n \in Nat /\ \A i \in 1 .. n : s[i] \in Segment
  BY LenProperties, ElementOfSeq
<1> DEFINE P == {i \in 0 .. n : Plain(f[i])}
<1>3. 0 \in P
  <2>1. f[0] = <<>> /\ Len(<<>>) = 0
    BY <1>1, EmptySeq DEF Cleans
  <2>2. Plain(f[0])
    BY <2>1 DEF Plain
  <2>3. QED
    BY <1>2, <2>2
<1>4. ASSUME NEW i \in 1 .. n, i - 1 \in P PROVE i \in P
  <2>1. f[i] = CleanStep(f[i - 1], s[i]) /\ f[i - 1] \in Seq(Segment) /\ Plain(f[i - 1])
    BY <1>1, <1>2, <1>4 DEF Cleans
  <2>2. Plain(f[i])
    BY <1>2, <2>1, CleanStepPlain
  <2>3. QED
    BY <1>2, <2>2
<1>5. \A i \in 0 .. n : i \in P
  <2> HIDE DEF P, n
  <2>1. QED
    BY <1>2, <1>3, <1>4, UpTo
<1>6. QED
  BY <1>1, <1>2, <1>5

LEMMA PlainIsClean ==
    ASSUME NEW s \in Seq(Segment), Plain(s)
    PROVE  Clean(s) = s
<1> DEFINE n == Len(s)
<1>1. PICK f \in [0 .. n -> Seq(Segment)] : Clean(s) = f[n] /\ Cleans(f, s)
  BY CleanAdds
<1>2. n \in Nat /\ \A i \in 1 .. n : s[i] \in Segment /\ Ordinary(s[i])
  BY LenProperties, ElementOfSeq DEF Plain
<1> DEFINE P == {i \in 0 .. n : Len(f[i]) = i /\ \A j \in 1 .. i : f[i][j] = s[j]}
<1>3. 0 \in P
  <2>1. f[0] = <<>> /\ Len(<<>>) = 0
    BY <1>1, EmptySeq DEF Cleans
  <2>2. Len(f[0]) = 0
    BY <2>1
  <2>3. QED
    BY <1>2, <2>2
<1>4. ASSUME NEW i \in 1 .. n, i - 1 \in P PROVE i \in P
  <2> DEFINE d == f[i - 1]
  <2>1. /\ f[i] = CleanStep(d, s[i]) /\ d \in Seq(Segment) /\ Len(d) = i - 1
        /\ \A j \in 1 .. i - 1 : d[j] = s[j]
    BY <1>1, <1>2, <1>4 DEF Cleans
  <2> HIDE DEF d
  <2>2. f[i] = Append(d, s[i])
    BY <1>2, <2>1 DEF CleanStep, Ordinary
  <2>3. Len(f[i]) = i /\ (\A j \in 1 .. Len(d) : f[i][j] = d[j]) /\ f[i][i] = s[i]
    BY <1>2, <2>1, <2>2, AppendProperties
  <2>4. \A j \in 1 .. i : j \in 1 .. i - 1 \/ j = i
    BY <1>2
  <2>5. \A j \in 1 .. i : f[i][j] = s[j]
    BY <2>1, <2>3, <2>4
  <2>6. i \in 0 .. n
    BY <1>2
  <2>7. QED
    BY <2>3, <2>5, <2>6
<1>5. \A i \in 0 .. n : i \in P
  <2> HIDE DEF P, n
  <2>1. QED
    BY <1>2, <1>3, <1>4, UpTo
<1>6. f[n] \in Seq(Segment) /\ Len(f[n]) = Len(s) /\ \A j \in 1 .. Len(f[n]) : f[n][j] = s[j]
  BY <1>1, <1>2, <1>5
<1>7. f[n] = s
  <2> DEFINE t == f[n]
  <2> HIDE DEF t
  <2>1. t = s
    BY <1>6, SeqEqual DEF t
  <2>2. QED
    BY <2>1 DEF t
<1>8. QED
  BY <1>1, <1>7

LEMMA ConcatOne ==
    ASSUME NEW s \in Seq(Segment), NEW x \in Segment
    PROVE  s \o <<x>> = Append(s, x)
  BY AppendIsConcat

LEMMA ConcatTwo ==
    ASSUME NEW s \in Seq(Segment), NEW x \in Segment, NEW y \in Segment
    PROVE  s \o <<x, y>> = Append(Append(s, x), y)
<1> DEFINE u == s \o <<x, y>>
           a == Append(s, x)
           v == Append(a, y)
<1>1. Len(s) \in Nat /\ <<x, y>> \in Seq(Segment) /\ Len(<<x, y>>) = 2
  BY LenProperties
<1>2. u \in Seq(Segment) /\ Len(u) = Len(s) + 2
  BY <1>1, ConcatProperties
<1>3. /\ \A i \in 1 .. Len(s) : u[i] = s[i]
      /\ u[Len(s) + 1] = x /\ u[Len(s) + 2] = y
  BY <1>1, ConcatProperties
<1>4. /\ a \in Seq(Segment) /\ Len(a) = Len(s) + 1
      /\ (\A i \in 1 .. Len(s) : a[i] = s[i]) /\ a[Len(s) + 1] = x
  BY <1>1, AppendProperties
<1> HIDE DEF u, a
<1>5. /\ v \in Seq(Segment) /\ Len(v) = Len(s) + 2
      /\ (\A i \in 1 .. Len(a) : v[i] = a[i]) /\ v[Len(s) + 2] = y
  <2>1. v \in Seq(Segment) /\ Len(v) = Len(a) + 1
    BY <1>4, AppendProperties
  <2>2. (\A i \in 1 .. Len(a) : v[i] = a[i]) /\ v[Len(a) + 1] = y
    BY <1>4, AppendProperties
  <2>3. Len(a) + 1 = Len(s) + 2
    BY <1>1, <1>4
  <2>4. QED
    BY <2>1, <2>2, <2>3
<1> HIDE DEF v
<1>6. \A i \in 1 .. Len(u) : u[i] = v[i]
  <2> TAKE i \in 1 .. Len(u)
  <2>1. CASE i \in 1 .. Len(s)
    BY <1>1, <1>3, <1>4, <1>5, <2>1
  <2>2. CASE i = Len(s) + 1
    BY <1>1, <1>3, <1>4, <1>5, <2>2
  <2>3. CASE i = Len(s) + 2
    BY <1>3, <1>5, <2>3
  <2>4. QED
    BY <1>1, <1>2, <2>1, <2>2, <2>3
<1>7. u = v
  BY <1>2, <1>5, <1>6, SeqEqual
<1>8. QED
  BY <1>7 DEF u, v, a

\* Where the redirects of the file server lead from a path: "./" to the directory, "b/"
\* to the path with a slash, "../b" to the path without one.
LEMMA LocalResolve ==
    ASSUME NEW p \in Paths, p.segs # <<>>
    PROVE  LET b == Last(p.segs)
               c == Clean(p.segs)
               f == Front(p.segs)
           IN /\ b \in Segment /\ f \in Seq(Segment) /\ c = CleanStep(Clean(f), b)
              /\ ~p.slash => Resolve(p, Ref(FALSE, <<".">>, TRUE)) = Path(Clean(f), TRUE)
              /\ ~p.slash => Resolve(p, Ref(FALSE, <<b>>, TRUE)) = Path(c, TRUE)
              /\ p.slash /\ Ordinary(b) =>
                    Resolve(p, Ref(FALSE, <<"..", b>>, FALSE)) = Path(c, FALSE)
              /\ Ordinary(b) => c = Append(Clean(f), b) /\ c # <<>>
<1> DEFINE b == Last(p.segs)
           c == Clean(p.segs)
           f == Front(p.segs)
<1>1. p.segs \in Seq(Segment) /\ p.slash \in BOOLEAN
  BY DEF Paths
<1>2. b \in Segment /\ f \in Seq(Segment) /\ p.segs = Append(f, b)
  BY <1>1, FrontFields, FrontLast
<1>3. c = CleanStep(Clean(f), b) /\ Clean(f) \in Seq(Segment) /\ c \in Seq(Segment)
  <2> HIDE DEF b, f
  <2>1. Clean(p.segs) = CleanStep(Clean(f), b)
    BY <1>2, CleanAppend
  <2>2. QED
    BY <1>1, <1>2, <2>1, CleanTyped
<1>4. "." \in Segment /\ ".." \in Segment
  BY SegmentAssumption
<1>5. ~p.slash => Dir(p) = f
  BY <1>2 DEF Dir
<1>6. p.slash => Dir(p) = p.segs
  BY DEF Dir
<1>7. ASSUME ~p.slash PROVE Resolve(p, Ref(FALSE, <<".">>, TRUE)) = Path(Clean(f), TRUE)
  <2>1. Clean(f \o <<".">>) = CleanStep(Clean(f), ".")
    <3> HIDE DEF f
    <3>1. f \o <<".">> = Append(f, ".")
      BY <1>2, <1>4, ConcatOne
    <3>2. Clean(Append(f, ".")) = CleanStep(Clean(f), ".")
      BY <1>2, <1>4, CleanAppend
    <3>3. QED
      BY <3>1, <3>2
  <2>2. CleanStep(Clean(f), ".") = Clean(f)
    BY DEF CleanStep
  <2>3. Resolve(p, Ref(FALSE, <<".">>, TRUE)) = Path(Clean(Dir(p) \o <<".">>), TRUE)
    BY DEF Resolve, Ref
  <2>4. QED
    BY <1>5, <1>7, <2>1, <2>2, <2>3
<1>8. ASSUME ~p.slash PROVE Resolve(p, Ref(FALSE, <<b>>, TRUE)) = Path(c, TRUE)
  <2>1. f \o <<b>> = p.segs
    <3> HIDE DEF f, b
    <3>1. QED
      BY <1>2, ConcatOne
  <2>2. Resolve(p, Ref(FALSE, <<b>>, TRUE)) = Path(Clean(Dir(p) \o <<b>>), TRUE)
    BY DEF Resolve, Ref
  <2>3. QED
    BY <1>5, <1>8, <2>1, <2>2
<1>9. ASSUME Ordinary(b) PROVE c = Append(Clean(f), b) /\ c # <<>>
  <2> HIDE DEF b, f, c
  <2>1. c = Append(Clean(f), b)
    BY <1>3, <1>9 DEF CleanStep, Ordinary
  <2>2. Append(Clean(f), b) # <<>>
    BY <1>2, <1>3, AppendFront
  <2>3. QED
    BY <2>1, <2>2
<1>10. ASSUME p.slash, Ordinary(b) PROVE Resolve(p, Ref(FALSE, <<"..", b>>, FALSE)) = Path(c, FALSE)
  <2> DEFINE s == Dir(p) \o <<"..", b>>
             e == Append(p.segs, "..")
  <2>1. s = Append(e, b)
    <3> HIDE DEF b
    <3>1. p.segs \o <<"..", b>> = Append(Append(p.segs, ".."), b)
      BY <1>1, <1>2, <1>4, ConcatTwo
    <3>2. QED
      BY <1>6, <1>10, <3>1
  <2>2. Clean(e) = Clean(f)
    <3>1. Clean(e) = CleanStep(c, "..")
      BY <1>1, <1>4, CleanAppend
    <3>2. c # <<>> /\ Front(c) = Clean(f)
      <4> HIDE DEF b, f, c
      <4>1. QED
        BY <1>2, <1>3, <1>9, <1>10, AppendFront
    <3>3. QED
      BY <3>1, <3>2 DEF CleanStep
  <2>3. Clean(s) = c
    <3>1. e \in Seq(Segment)
      BY <1>1, <1>4, AppendProperties
    <3> HIDE DEF e, b, f, s
    <3>2. Clean(Append(e, b)) = CleanStep(Clean(e), b)
      BY <1>2, <3>1, CleanAppend
    <3>3. QED
      BY <1>3, <2>1, <2>2, <3>2
  <2>4. Resolve(p, Ref(FALSE, <<"..", b>>, FALSE)) = Path(Clean(s), FALSE \/ Clean(s) = <<>>)
    BY DEF Resolve, Ref
  <2>5. (FALSE \/ Clean(s) = <<>>) = FALSE
    BY <1>9, <1>10, <2>3
  <2>6. QED
    BY <2>3, <2>4, <2>5
<1>11. QED
  BY <1>2, <1>3, <1>7, <1>8, <1>9, <1>10

\* What a path stands for does not depend on how the files change.
Index(p) == ~p.slash /\ p.segs # <<>> /\ Last(p.segs) = INDEX
Named(p) == IF Index(p) THEN Front(Clean(p.segs)) ELSE Clean(p.segs)
Goal(n) == IF Append(n, INDEX) \in DOMAIN FirstFiles THEN Append(n, INDEX) ELSE n
Aim(p) == IF Named(p) \notin DOMAIN FirstFiles THEN Nil ELSE Goal(Named(p))

LEMMA FileNames ==
    ASSUME FilesOK
    PROVE  /\ DOMAIN files = DOMAIN FirstFiles /\ <<>> \in DOMAIN FirstFiles
           /\ Nil \notin DOMAIN FirstFiles
           /\ \A n \in DOMAIN FirstFiles :
                /\ n \in Seq(Segment) /\ files[n] \in Stats
                /\ n # <<>> => Front(n) \in DOMAIN FirstFiles /\ files[Front(n)].dir
<1>1. files \in [DOMAIN FirstFiles -> Stats]
  BY DEF FilesOK
<1>2. <<>> \in DOMAIN FirstFiles /\ Nil \notin DOMAIN FirstFiles
      /\ DOMAIN FirstFiles \subseteq Seq(Segment)
      /\ \A n \in DOMAIN FirstFiles \ {<<>>} : Front(n) \in DOMAIN FirstFiles
  BY SiteAssumption
<1>3. \A n \in DOMAIN FirstFiles \ {<<>>} : files[Front(n)].dir
  BY DEF FilesOK
<1>4. QED
  BY <1>1, <1>2, <1>3

LEMMA ShownFixed ==
    ASSUME FilesOK, NEW n \in DOMAIN FirstFiles
    PROVE  /\ Shown(files, n) = Goal(n) /\ Goal(n) \in DOMAIN FirstFiles
           /\ Goal(n) # n => files[n].dir
<1>1. DOMAIN files = DOMAIN FirstFiles /\ n \in Seq(Segment)
  BY FileNames
<1>2. INDEX \in Segment
  BY SegmentAssumption
<1>3. Append(n, INDEX) # <<>> /\ Front(Append(n, INDEX)) = n
  BY <1>1, <1>2, AppendFront
<1>4. Append(n, INDEX) \in DOMAIN FirstFiles => files[n].dir
  BY <1>3, FileNames
<1>5. QED
  BY <1>1, <1>4 DEF Shown, Goal

LEMMA DenotedIsAim ==
    ASSUME FilesOK, NEW p
    PROVE  Denoted(files, p) = Aim(p)
<1> DEFINE n == Named(p)
<1>1. Denoted(files, p) = IF n \notin DOMAIN files THEN Nil ELSE Shown(files, n)
  BY DEF Denoted, Named, Index
<1> HIDE DEF n
<1>2. DOMAIN files = DOMAIN FirstFiles
  BY FileNames
<1>3. n \in DOMAIN FirstFiles => Shown(files, n) = Goal(n)
  BY ShownFixed
<1>4. QED
  BY <1>1, <1>2, <1>3 DEF Aim, n

LEMMA AimThere ==
    ASSUME FilesOK, NEW p
    PROVE  /\ Aim(p) = Nil <=> Named(p) \notin DOMAIN FirstFiles
           /\ Aim(p) # Nil => Aim(p) \in DOMAIN FirstFiles
<1>1. Named(p) \in DOMAIN FirstFiles => Goal(Named(p)) \in DOMAIN FirstFiles
  BY ShownFixed
<1>2. Nil \notin DOMAIN FirstFiles
  BY FileNames
<1>3. QED
  BY <1>1, <1>2 DEF Aim

\* A bound on the redirects of the file server from a path, while files stay.
FileAt(fs, n) == n \in DOMAIN fs /\ ~fs[n].dir
DirAt(fs, n) == n \in DOMAIN fs /\ fs[n].dir
Rank(fs, p) ==
    IF Index(p) THEN IF FileAt(fs, Front(Clean(p.segs))) THEN 3 ELSE 1
    ELSE IF FileAt(fs, Clean(p.segs)) /\ p.slash THEN 2
    ELSE IF DirAt(fs, Clean(p.segs)) /\ ~p.slash /\ p.segs # <<>> THEN 1 ELSE 0

Tidy(p) == p.slash /\ p.segs # <<>> => Ordinary(Last(p.segs))

\* The three redirects of the file server: the Location, and the path that it leads to.
ToIndex(p, ref, t) ==
    Index(p) /\ ref = Ref(FALSE, <<".">>, TRUE) /\ t = Path(Front(Clean(p.segs)), TRUE)
ToDir(p, ref, t) ==
    /\ ~Index(p) /\ ~p.slash /\ p.segs # <<>>
    /\ ref = Ref(FALSE, <<Last(p.segs)>>, TRUE) /\ t = Path(Clean(p.segs), TRUE)
ToFile(p, ref, t) ==
    /\ p.slash /\ p.segs # <<>>
    /\ ref = Ref(FALSE, <<"..", Last(p.segs)>>, FALSE) /\ t = Path(Clean(p.segs), FALSE)
Led(p, ref, t) == ToIndex(p, ref, t) \/ ToDir(p, ref, t) \/ ToFile(p, ref, t)

LEMMA IndexOrdinary == INDEX \in Segment /\ Ordinary(INDEX)
  BY SegmentAssumption DEF Ordinary, INDEX

LEMMA CleanTwice ==
    ASSUME NEW s \in Seq(Segment)
    PROVE  /\ Clean(s) \in Seq(Segment) /\ Plain(Clean(s)) /\ Clean(Clean(s)) = Clean(s)
           /\ Clean(s) # <<>> => /\ Front(Clean(s)) \in Seq(Segment) /\ Plain(Front(Clean(s)))
                                 /\ Clean(Front(Clean(s))) = Front(Clean(s))
                                 /\ Ordinary(Last(Clean(s)))
<1> DEFINE c == Clean(s)
<1>1. c \in Seq(Segment) /\ Plain(c)
  BY CleanTyped, CleanIsPlain
<1> HIDE DEF c
<1>2. Clean(c) = c
  BY <1>1, PlainIsClean
<1>3. c # <<>> => Front(c) \in Seq(Segment) /\ Plain(Front(c)) /\ Ordinary(Last(c))
  BY <1>1, FrontFields, PlainParts
<1>4. c # <<>> => Clean(Front(c)) = Front(c)
  BY <1>3, PlainIsClean
<1>5. QED
  BY <1>1, <1>2, <1>3, <1>4 DEF c

\* Each of them leads to the same file, and is one redirect less from it.
LEMMA LedKeepsAim ==
    ASSUME FilesOK, NEW p \in Paths, Tidy(p), NEW ref, NEW t, Led(p, ref, t),
           ToDir(p, ref, t) => DirAt(files, Clean(p.segs)), ToFile(p, ref, t) => FileAt(files, Clean(p.segs))
    PROVE  /\ t \in Paths /\ Plain(t.segs) /\ Tidy(t) /\ Aim(t) = Aim(p)
           /\ Rank(files, t) \in Nat /\ Rank(files, p) \in Nat /\ Rank(files, t) < Rank(files, p)
<1> DEFINE c == Clean(p.segs)
           f == Front(c)
<1>1. p.segs \in Seq(Segment) /\ p.slash \in BOOLEAN
  BY DEF Paths
<1>2. /\ c \in Seq(Segment) /\ Plain(c) /\ Clean(c) = c
      /\ c # <<>> => f \in Seq(Segment) /\ Plain(f) /\ Clean(f) = f /\ Ordinary(Last(c))
  BY <1>1, CleanTwice
<1>3. DOMAIN files = DOMAIN FirstFiles
  BY FileNames
<1>4. Rank(files, t) \in Nat /\ Rank(files, p) \in Nat
  BY DEF Rank
<1>5. ASSUME NEW s \in Seq(Segment), NEW l \in BOOLEAN
      PROVE  Path(s, l) \in Paths /\ Path(s, l).segs = s /\ Path(s, l).slash = l
  BY DEF Path, Paths
<1>6. CASE ToIndex(p, ref, t)
  <2>1. Index(p) /\ t = Path(f, TRUE) /\ p.segs # <<>> /\ Last(p.segs) = INDEX
    BY <1>6 DEF ToIndex, Index
  <2>2. c # <<>>
    BY <2>1, LocalResolve, IndexOrdinary
  <2>3. t \in Paths /\ t.segs = f /\ t.slash /\ Clean(f) = f /\ Plain(f)
    BY <1>2, <1>5, <2>1, <2>2
  <2>4. Named(p) = f /\ Named(t) = f /\ ~Index(t)
    BY <2>1, <2>3 DEF Named, Index
  <2>5. Aim(t) = Aim(p)
    BY <2>4 DEF Aim
  <2>6. Tidy(t)
    BY <1>2, <2>2, <2>3, PlainParts DEF Tidy
  <2>7. Rank(files, t) = IF FileAt(files, f) THEN 2 ELSE 0
    BY <2>3, <2>4 DEF Rank
  <2>8. Rank(files, p) = IF FileAt(files, f) THEN 3 ELSE 1
    BY <2>1 DEF Rank
  <2>9. QED
    BY <1>4, <2>3, <2>5, <2>6, <2>7, <2>8
<1>7. CASE ToDir(p, ref, t)
  <2>1. ~Index(p) /\ t = Path(c, TRUE) /\ ~p.slash /\ p.segs # <<>> /\ DirAt(files, c)
    BY <1>7 DEF ToDir
  <2>2. t \in Paths /\ t.segs = c /\ t.slash
    BY <1>2, <1>5, <2>1
  <2>3. Named(p) = c /\ Named(t) = c /\ ~Index(t)
    BY <1>2, <2>1, <2>2 DEF Named, Index
  <2>4. Aim(t) = Aim(p)
    BY <2>3 DEF Aim
  <2>5. Tidy(t)
    BY <1>2, <2>2 DEF Tidy
  <2>6. ~FileAt(files, c)
    BY <2>1 DEF FileAt, DirAt
  <2>7. Rank(files, t) = 0
    BY <1>2, <2>2, <2>3, <2>6 DEF Rank
  <2>8. Rank(files, p) = 1
    BY <2>1, <2>6 DEF Rank
  <2>9. QED
    BY <1>2, <1>4, <2>2, <2>4, <2>5, <2>7, <2>8
<1>8. CASE ToFile(p, ref, t)
  <2>1. t = Path(c, FALSE) /\ p.slash /\ p.segs # <<>> /\ FileAt(files, c) /\ ~Index(p)
    BY <1>8 DEF ToFile, Index
  <2>2. t \in Paths /\ t.segs = c /\ ~t.slash
    BY <1>2, <1>5, <2>1
  <2>3. Tidy(t) /\ Named(p) = c /\ Rank(files, p) = 2 /\ c \in DOMAIN FirstFiles /\ ~DirAt(files, c)
    BY <1>3, <2>1, <2>2 DEF Tidy, Named, Rank, FileAt, DirAt
  <2>4. Goal(c) = c
    <3>1. ~files[c].dir
      BY <2>1 DEF FileAt
    <3>2. QED
      BY <2>3, <3>1, ShownFixed
  <2>5. CASE Index(t)
    <3>1. c # <<>> /\ Last(c) = INDEX /\ Named(t) = f
      BY <1>2, <2>2, <2>5 DEF Index, Named
    <3>2. f \in DOMAIN FirstFiles /\ files[f].dir
      BY <2>3, <3>1, FileNames
    <3>3. c = Append(f, INDEX)
      BY <1>2, <3>1, FrontLast
    <3>4. Goal(f) = c
      BY <2>3, <3>3 DEF Goal
    <3>5. Aim(t) = Aim(p)
      BY <2>3, <2>4, <3>1, <3>2, <3>4 DEF Aim
    <3>6. Rank(files, t) = 1
      BY <1>2, <2>2, <2>5, <3>2 DEF Rank, FileAt
    <3>7. QED
      BY <1>2, <1>4, <2>2, <2>3, <3>5, <3>6
  <2>6. CASE ~Index(t)
    <3>1. Named(t) = c
      BY <1>2, <2>2, <2>6 DEF Named
    <3>2. Aim(t) = Aim(p)
      BY <2>3, <3>1 DEF Aim
    <3>3. Rank(files, t) = 0
      BY <1>2, <2>2, <2>3, <2>6 DEF Rank
    <3>4. QED
      BY <1>2, <1>4, <2>2, <2>3, <3>2, <3>3
  <2>7. QED
    BY <2>5, <2>6
<1>9. QED
  BY <1>6, <1>7, <1>8 DEF Led

\* What the file server replies to a request with the path p left of it.
ToRedirect(r, p) ==
    \E ref \in Refs, t \in Paths :
        /\ r = localRedirect(ref) /\ Led(p, ref, t)
        /\ ToDir(p, ref, t) => DirAt(files, Clean(p.segs))
        /\ ToFile(p, ref, t) => FileAt(files, Clean(p.segs))
BadRangeReply(r) == r.page = "bad range" /\ r.code = 416

ToPage(r, q, p) ==
    \/ r = NotFound /\ Aim(p) = Nil
    \/ /\ Aim(p) \in DOMAIN FirstFiles /\ r.page \in {"content", "listing"} /\ r.code \in {200, 206}
       /\ r.file = Aim(p) /\ r.lastmod = LastModified(files[Aim(p)].modtime)
    \/ /\ Aim(p) \in DOMAIN FirstFiles /\ r = NotModified
       /\ checkLastModified(q, files[Aim(p)].modtime)
    \/ Aim(p) \in DOMAIN FirstFiles /\ BadRangeReply(r)

LEMMA ServeContentOutcome ==
    ASSUME NEW q, GoodRequest(q), NEW a, NEW f \in Stats
    PROVE  LET r == serveContent(q, a, f) IN
           \/ checkLastModified(q, f.modtime) /\ r = NotModified
           \/ BadRangeReply(r)
           \/ /\ r.page \in {"content", "listing"} /\ r.code \in {200, 206}
              /\ r.file = a /\ r.lastmod = LastModified(f.modtime)
<1> DEFINE r == serveContent(q, a, f)
           content == /\ r.page \in {"content", "listing"} /\ r.code \in {200, 206}
                      /\ r.file = a /\ r.lastmod = LastModified(f.modtime)
           whole == IsContent(r, 200, a, Whole(f), f)
           some == IsContent(r, 206, a, parseRange(q.range, f.size), f)
           same == checkLastModified(q, f.modtime) /\ r = NotModified
<1>1. same \/ (r.page = "bad range" /\ r.code = 416) \/ whole \/ some
  BY ServeContentCases
<1> HIDE DEF r
<1>2. r.page = "bad range" /\ r.code = 416 => BadRangeReply(r)
  BY DEF BadRangeReply
<1>3. whole => content
  BY DEF IsContent
<1>4. some => content
  BY DEF IsContent
<1> HIDE DEF content, whole, some, same
<1>5. same \/ BadRangeReply(r) \/ content
  BY <1>1, <1>2, <1>3, <1>4
<1>6. QED
  BY <1>5 DEF same, content, r

LEMMA LedTyped ==
    ASSUME NEW p \in Paths, p.segs # <<>>
    PROVE  /\ Ref(FALSE, <<".">>, TRUE) \in Refs /\ Ref(FALSE, <<Last(p.segs)>>, TRUE) \in Refs
           /\ Ref(FALSE, <<"..", Last(p.segs)>>, FALSE) \in Refs
           /\ Path(Clean(p.segs), TRUE) \in Paths /\ Path(Clean(p.segs), FALSE) \in Paths
<1> DEFINE b == Last(p.segs)
<1>1. p.segs \in Seq(Segment) /\ b \in Segment /\ "." \in Segment /\ ".." \in Segment
  BY FrontFields, SegmentAssumption DEF Paths
<1> HIDE DEF b
<1>2. <<".">> \in Seq(Segment) /\ <<b>> \in Seq(Segment) /\ <<"..", b>> \in Seq(Segment)
  BY <1>1
<1>3. /\ Ref(FALSE, <<".">>, TRUE) \in Refs /\ Ref(FALSE, <<b>>, TRUE) \in Refs
      /\ Ref(FALSE, <<"..", b>>, FALSE) \in Refs
  BY <1>2, RefTyped
<1>4. Clean(p.segs) \in Seq(Segment)
  BY <1>1, CleanTyped
<1>5. Path(Clean(p.segs), TRUE) \in Paths /\ Path(Clean(p.segs), FALSE) \in Paths
  BY <1>4 DEF Path, Paths
<1>6. QED
  BY <1>3, <1>5 DEF b

LEMMA FileOutcome ==
    ASSUME FilesOK, NEW q, GoodRequest(q), NEW p \in Paths
    PROVE  ToRedirect(serveFile(files, q, p), p) \/ ToPage(serveFile(files, q, p), q, p)
<1> DEFINE r == serveFile(files, q, p)
           name == Clean(p.segs)
           shown == Shown(files, name)
<1>1. ServedAs(r, files, q, p)
  BY ServeFileCases
<1>2. p.segs \in Seq(Segment) /\ p.slash \in BOOLEAN /\ DOMAIN files = DOMAIN FirstFiles
  BY FileNames DEF Paths
<1> HIDE DEF r, name
<1>3. CASE Index(p) /\ r = localRedirect(Ref(FALSE, <<".">>, TRUE))
  <2> DEFINE ref == Ref(FALSE, <<".">>, TRUE)
             t == Path(Front(Clean(p.segs)), TRUE)
  <2>1. p.segs # <<>> /\ ref \in Refs /\ ToIndex(p, ref, t)
    BY <1>3, LedTyped DEF Index, ToIndex
  <2>2. t \in Paths
    <3>1. Clean(p.segs) # <<>>
      BY <1>3, <2>1, LocalResolve, IndexOrdinary DEF Index
    <3>2. Front(Clean(p.segs)) \in Seq(Segment)
      BY <1>2, <3>1, CleanTwice
    <3>3. QED
      BY <3>2 DEF Path, Paths
  <2>3. ~ToDir(p, ref, t) /\ ~ToFile(p, ref, t)
    BY <1>3 DEF ToDir, ToFile, Index
  <2> HIDE DEF ref, t
  <2>4. r = localRedirect(ref)
    BY <1>3 DEF ref
  <2>5. QED
    BY <2>1, <2>2, <2>3, <2>4 DEF ToRedirect, Led, r
<1>4. CASE /\ ~Index(p) /\ name \in DOMAIN files /\ files[name].dir /\ ~p.slash /\ p.segs # <<>>
           /\ r = DirRedirect(p)
  <2> DEFINE ref == Ref(FALSE, <<Last(p.segs)>>, TRUE)
             t == Path(Clean(p.segs), TRUE)
  <2>1. ref \in Refs /\ t \in Paths /\ ToDir(p, ref, t)
    BY <1>4, LedTyped DEF ToDir
  <2>2. DirAt(files, Clean(p.segs)) /\ ~ToFile(p, ref, t)
    BY <1>4 DEF DirAt, name, ToFile
  <2> HIDE DEF ref, t
  <2>3. r = localRedirect(ref)
    BY <1>4 DEF ref, DirRedirect, Base
  <2>4. QED
    BY <2>1, <2>2, <2>3 DEF ToRedirect, Led, r
<1>5. CASE ~Index(p) /\ name \in DOMAIN files /\ ~files[name].dir /\ p.slash /\ r = FileRedirect(p)
  <2> DEFINE ref == Ref(FALSE, <<"..", Last(p.segs)>>, FALSE)
             t == Path(Clean(p.segs), FALSE)
  \* the root is a directory
  <2>1. p.segs # <<>>
    BY <1>5, CleanEmpty DEF FilesOK, name
  <2>2. ref \in Refs /\ t \in Paths /\ ToFile(p, ref, t)
    BY <1>5, <2>1, LedTyped DEF ToFile
  <2>3. FileAt(files, Clean(p.segs)) /\ ~ToDir(p, ref, t)
    BY <1>5 DEF FileAt, name, ToDir
  <2> HIDE DEF ref, t
  <2>4. r = localRedirect(ref)
    BY <1>5 DEF ref, FileRedirect, Base
  <2>5. QED
    BY <2>2, <2>3, <2>4 DEF ToRedirect, Led, r
<1>6. CASE ~Index(p) /\ name \notin DOMAIN files /\ r = NotFound
  <2>1. Aim(p) = Nil
    BY <1>2, <1>6 DEF Aim, Named, name
  <2>2. QED
    BY <1>6, <2>1 DEF ToPage, r
<1>7. CASE /\ ~Index(p) /\ name \in DOMAIN files
           /\ \/ r = serveContent(q, shown, files[shown])
              \/ checkLastModified(q, files[shown].modtime) /\ r = NotModified
              \/ r = Listing(shown, files[shown])
  <2> DEFINE a == Aim(p)
  <2>1. a = shown /\ shown \in DOMAIN FirstFiles
    BY <1>2, <1>7, ShownFixed DEF Aim, Named, name
  <2> HIDE DEF a, shown
  <2>2. files[a] \in Stats /\ a \in DOMAIN FirstFiles
    BY <2>1 DEF FilesOK
  <2>3. CASE checkLastModified(q, files[a].modtime) /\ r = NotModified
    BY <2>2, <2>3 DEF ToPage, a, r
  <2>4. CASE r = Listing(a, files[a])
    <3>1. r.page = "listing" /\ r.code = 200 /\ r.file = a /\ r.lastmod = LastModified(files[a].modtime)
      BY <2>2, <2>4, ListingGood
    <3>2. r.page \in {"content", "listing"} /\ r.code \in {200, 206}
      BY <3>1
    <3>3. QED
      BY <2>2, <3>1, <3>2 DEF ToPage, a, r
  <2>5. CASE r = serveContent(q, a, files[a])
    <3>1. \/ checkLastModified(q, files[a].modtime) /\ r = NotModified
          \/ BadRangeReply(r)
          \/ /\ r.page \in {"content", "listing"} /\ r.code \in {200, 206}
             /\ r.file = a /\ r.lastmod = LastModified(files[a].modtime)
      BY <2>2, <2>5, ServeContentOutcome
    <3>2. ToPage(r, q, p)
      BY <2>2, <3>1 DEF ToPage, a
    <3>3. QED
      BY <3>2 DEF r
  <2>6. QED
    BY <1>7, <2>1, <2>3, <2>4, <2>5
<1>8. QED
  <2>1. Index(p) <=> ~p.slash /\ p.segs # <<>> /\ Last(p.segs) = INDEX
    BY DEF Index
  <2>2. QED
    BY <1>1, <1>3, <1>4, <1>5, <1>6, <1>7, <2>1 DEF ServedAs, name

\* Paths in the tree of a pattern, but for the path of the tree without its slash.
InTree(k, p) == IsPrefix(k.segs, p.segs) /\ (p.slash \/ Len(p.segs) > Len(k.segs))

\* The handler of a tree of files, where no other pattern lies in the tree.
FileTree(k) ==
    /\ k \in DOMAIN Handlers /\ Handlers[k].kind = "files" /\ k.slash /\ Handlers[k].prefix = k.segs
    /\ \A j \in DOMAIN Handlers : IsPrefix(k.segs, j.segs) => j = k

LEMMA LongestThere ==
    ASSUME NEW p \in Paths, NEW A, A \subseteq Patterns, A # {},
           \A k \in A : IsPrefix(k.segs, p.segs)
    PROVE  \E e \in A : \A j \in A : Len(j.segs) <= Len(e.segs)
<1>1. p.segs \in Seq(Segment) /\ Len(p.segs) \in Nat
  BY LenProperties DEF Paths
<1>2. \A k \in A : Len(k.segs) \in Nat /\ Len(k.segs) <= Len(p.segs)
  <2>1. \A k \in A : k.segs \in Seq(Segment)
    BY DEF Patterns
  <2>2. QED
    BY <1>1, <2>1, SamePrefix
<1> DEFINE D == {Len(p.segs) - Len(k.segs) : k \in A}
<1>3. D \subseteq Nat /\ D # {}
  <2>1. \A k \in A : Len(p.segs) - Len(k.segs) \in Nat
    BY <1>1, <1>2
  <2>2. QED
    BY <2>1
<1>4. PICK d \in D : \A x \in D : d <= x
  <2> HIDE DEF D
  <2>1. QED
    BY <1>3, LeastNat
<1>5. PICK e \in A : d = Len(p.segs) - Len(e.segs)
  OBVIOUS
<1>6. \A j \in A : Len(p.segs) - Len(e.segs) <= Len(p.segs) - Len(j.segs)
  BY <1>4, <1>5
<1>7. \A j \in A : Len(j.segs) <= Len(e.segs)
  BY <1>1, <1>2, <1>6
<1>8. QED
  BY <1>7

\* Of two prefixes of one sequence, one is a prefix of the other.
LEMMA PrefixOfPrefix ==
    ASSUME NEW S, NEW s \in Seq(S), NEW t \in Seq(S), NEW u \in Seq(S),
           IsPrefix(s, u), IsPrefix(t, u), Len(s) <= Len(t)
    PROVE  IsPrefix(s, t)
<1>1. Len(s) \in Nat /\ Len(t) \in Nat /\ Len(u) \in Nat /\ Len(t) <= Len(u)
  BY LenProperties, SamePrefix
<1>2. s = SubSeq(u, 1, Len(s)) /\ t = SubSeq(u, 1, Len(t))
  BY DEF IsPrefix
<1>3. /\ \A i \in 1 .. Len(s) : s[i] = u[i]
      /\ \A i \in 1 .. Len(t) : t[i] = u[i]
  <2>1. ASSUME NEW n \in Nat, n <= Len(u) PROVE \A i \in 1 .. n : SubSeq(u, 1, n)[i] = u[i]
    <3>1. 1 \in Int /\ n \in Int /\ \A i \in 1 .. n : u[i] \in S
      BY <1>1, <2>1, ElementOfSeq
    <3>2. \A i \in 1 .. n - 1 + 1 : SubSeq(u, 1, n)[i] = u[1 + i - 1]
      BY <3>1, SubSeqProperties
    <3>3. QED
      BY <2>1, <3>2
  <2>2. Len(s) <= Len(u)
    BY <1>1
  <2>3. QED
    BY <1>1, <1>2, <2>1, <2>2
<1> DEFINE v == SubSeq(t, 1, Len(s))
<1>4. v \in Seq(S) /\ Len(v) = Len(s) /\ \A i \in 1 .. Len(s) : v[i] = t[i]
  <2> DEFINE n == Len(s)
  <2>1. 1 \in Int /\ n \in Int /\ n \in Nat /\ \A i \in 1 .. n : t[i] \in S
    BY <1>1, ElementOfSeq
  <2>2. /\ SubSeq(t, 1, n) \in Seq(S)
        /\ Len(SubSeq(t, 1, n)) = IF 1 <= n THEN n - 1 + 1 ELSE 0
        /\ \A i \in 1 .. n - 1 + 1 : SubSeq(t, 1, n)[i] = t[1 + i - 1]
    BY <2>1, SubSeqProperties
  <2> HIDE DEF n
  <2>3. SubSeq(t, 1, n) \in Seq(S) /\ Len(SubSeq(t, 1, n)) = n
    BY <2>1, <2>2
  <2>4. \A i \in 1 .. n : SubSeq(t, 1, n)[i] = t[i]
    BY <2>1, <2>2
  <2>5. QED
    BY <2>3, <2>4 DEF n
<1> HIDE DEF v
<1>5. \A i \in 1 .. Len(s) : v[i] = s[i]
  BY <1>1, <1>3, <1>4
<1>6. v = s
  BY <1>4, <1>5, SeqEqual
<1>7. QED
  BY <1>1, <1>6 DEF IsPrefix, v

\* Where the route of a path is a tree of files, the path lies in that tree.
LEMMA FilesBelow ==
    ASSUME OrderlySite, NEW host \in Segment \cup {AnyHost}, NEW p \in Paths,
           FilesRoute(Route(host, p))
    PROVE  \E k : FileTree(k) /\ InTree(k, p) /\ Handlers[k] = Route(host, p)
<1> DEFINE exact == Pattern(host, p.segs, p.slash)
           tree == Pattern(host, p.segs, TRUE)
           above == {k \in DOMAIN Handlers : k.host = host /\ k.slash /\ IsPrefix(k.segs, p.segs)}
<1>1. p.segs \in Seq(Segment) /\ p.slash \in BOOLEAN /\ Len(p.segs) \in Nat /\ IsPrefix(p.segs, p.segs)
  BY LenProperties, SamePrefix DEF Paths
<1>2. /\ exact \in Patterns /\ exact.segs = p.segs /\ (exact.slash <=> p.slash)
      /\ tree \in Patterns /\ tree.host = host /\ tree.segs = p.segs /\ tree.slash
  <2>1. exact \in Patterns /\ tree \in Patterns
    BY <1>1, PatternFields
  <2>2. QED
    BY <2>1 DEF Pattern
<1>3. ASSUME NEW k \in DOMAIN Handlers, Handlers[k].kind = "files" PROVE FileTree(k) /\ k \in Patterns
  BY <1>3, SiteAssumption DEF OrderlySite, FileTree
<1>4. Route(host, p) = IF exact \in DOMAIN Handlers THEN Handlers[exact]
       ELSE IF tree \in DOMAIN Handlers THEN RedirectHandler(tree)
       ELSE IF above = {} THEN Nil
       ELSE Handlers[CHOOSE k \in above : \A j \in above : Len(j.segs) <= Len(k.segs)]
  BY DEF Route
<1>5. Route(host, p) # Nil /\ Route(host, p).kind = "files"
  BY DEF FilesRoute
<1> HIDE DEF exact, tree
<1>6. CASE exact \in DOMAIN Handlers
  <2>1. Handlers[exact] = Route(host, p)
    BY <1>4, <1>6
  <2>2. FileTree(exact)
    BY <1>3, <1>5, <1>6, <2>1
  <2>3. exact.slash
    BY <2>2 DEF FileTree
  <2>4. InTree(exact, p)
    BY <1>1, <1>2, <2>3 DEF InTree
  <2>5. QED
    BY <2>1, <2>2, <2>4
<1>7. CASE exact \notin DOMAIN Handlers /\ tree \in DOMAIN Handlers
  <2>1. Route(host, p) = RedirectHandler(tree)
    BY <1>4, <1>7
  <2>2. RedirectHandler(tree).kind = "redirect"
    BY DEF RedirectHandler
  <2>3. QED
    BY <1>5, <2>1, <2>2
<1>8. CASE exact \notin DOMAIN Handlers /\ tree \notin DOMAIN Handlers /\ above = {}
  BY <1>4, <1>5, <1>8
<1>9. CASE exact \notin DOMAIN Handlers /\ tree \notin DOMAIN Handlers /\ above # {}
  <2> DEFINE k == CHOOSE k \in above : \A j \in above : Len(j.segs) <= Len(k.segs)
  <2>1. k \in above
    <3>1. above \subseteq Patterns /\ \A j \in above : IsPrefix(j.segs, p.segs)
      BY SiteAssumption
    <3> HIDE DEF above
    <3>2. \E e \in above : \A j \in above : Len(j.segs) <= Len(e.segs)
      BY <1>9, <3>1, LongestThere
    <3>3. QED
      BY <3>2
  <2>2. Route(host, p) = Handlers[k]
    BY <1>4, <1>9
  <2> HIDE DEF k
  <2>3. k \in DOMAIN Handlers /\ k.host = host /\ k.slash /\ IsPrefix(k.segs, p.segs)
    BY <2>1
  <2>4. FileTree(k) /\ k \in Patterns
    BY <1>3, <1>5, <2>2, <2>3
  <2>5. Len(p.segs) > Len(k.segs)
    <3>1. k.segs \in Seq(Segment) /\ Len(k.segs) \in Nat /\ Len(k.segs) <= Len(p.segs)
      BY <1>1, <2>3, <2>4, SamePrefix, LengthOf
    <3>2. ASSUME Len(k.segs) = Len(p.segs) PROVE FALSE
      <4>1. k.segs = p.segs
        BY <1>1, <2>3, <3>1, <3>2, SamePrefix
      <4>2. k = tree
        BY <1>2, <2>3, <2>4, <4>1, SamePattern
      <4>3. QED
        BY <1>9, <2>3, <4>2
    <3>3. QED
      BY <1>1, <3>1, <3>2
  <2>6. InTree(k, p)
    BY <2>3, <2>5 DEF InTree
  <2>7. QED
    BY <2>2, <2>4, <2>6
<1>10. QED
  BY <1>6, <1>7, <1>8, <1>9

LEMMA PrefixThrough ==
    ASSUME NEW S, NEW s \in Seq(S), NEW t \in Seq(S), NEW u \in Seq(S),
           IsPrefix(s, t), IsPrefix(t, u)
    PROVE  IsPrefix(s, u)
<1>1. /\ Len(s) \in Nat /\ Len(t) \in Nat /\ Len(u) \in Nat
      /\ Len(s) <= Len(t) /\ Len(t) <= Len(u)
  BY LenProperties, SamePrefix
<1>2. s = SubSeq(t, 1, Len(s)) /\ t = SubSeq(u, 1, Len(t))
  BY DEF IsPrefix
<1>3. ASSUME NEW v \in Seq(S), NEW n \in Nat, n <= Len(v)
      PROVE  /\ SubSeq(v, 1, n) \in Seq(S) /\ Len(SubSeq(v, 1, n)) = n
             /\ \A i \in 1 .. n : SubSeq(v, 1, n)[i] = v[i]
  <2>1. 1 \in Int /\ n \in Int /\ \A i \in 1 .. n : v[i] \in S
    BY <1>3, ElementOfSeq, LenProperties
  <2>2. /\ SubSeq(v, 1, n) \in Seq(S)
        /\ Len(SubSeq(v, 1, n)) = IF 1 <= n THEN n - 1 + 1 ELSE 0
        /\ \A i \in 1 .. n - 1 + 1 : SubSeq(v, 1, n)[i] = v[1 + i - 1]
    BY <2>1, SubSeqProperties
  <2>3. SubSeq(v, 1, n) \in Seq(S) /\ Len(SubSeq(v, 1, n)) = n
    BY <2>1, <2>2
  <2>4. \A i \in 1 .. n : SubSeq(v, 1, n)[i] = v[i]
    BY <2>1, <2>2
  <2>5. QED
    BY <2>3, <2>4
<1> DEFINE w == SubSeq(u, 1, Len(s))
<1>4. w \in Seq(S) /\ Len(w) = Len(s) /\ \A i \in 1 .. Len(s) : w[i] = u[i]
  <2>1. Len(s) <= Len(u)
    BY <1>1
  <2>2. QED
    BY <1>1, <1>3, <2>1
<1>5. \A i \in 1 .. Len(s) : s[i] = t[i]
  BY <1>1, <1>2, <1>3
<1>6. \A i \in 1 .. Len(t) : t[i] = u[i]
  BY <1>1, <1>2, <1>3
<1> HIDE DEF w
<1>7. \A i \in 1 .. Len(s) : w[i] = s[i]
  BY <1>1, <1>4, <1>5, <1>6
<1>8. w = s
  BY <1>4, <1>7, SeqEqual
<1>9. QED
  BY <1>1, <1>8 DEF IsPrefix, w

\* What the patterns of a host make of a tree of files is the same all over the tree.
Around(host, k) ==
    LET above == {j \in DOMAIN Handlers : j.host = host /\ j.slash /\ IsPrefix(j.segs, k.segs)}
    IN IF above = {} THEN Nil
       ELSE Handlers[CHOOSE j \in above : \A i \in above : Len(i.segs) <= Len(j.segs)]

LEMMA TreeRoute ==
    ASSUME NEW host \in Segment \cup {AnyHost}, NEW p \in Paths, NEW k, FileTree(k), InTree(k, p)
    PROVE  Route(host, p) = IF k.host = host THEN Handlers[k] ELSE Around(host, k)
<1> DEFINE exact == Pattern(host, p.segs, p.slash)
           tree == Pattern(host, p.segs, TRUE)
           above == {j \in DOMAIN Handlers : j.host = host /\ j.slash /\ IsPrefix(j.segs, p.segs)}
           around == {j \in DOMAIN Handlers : j.host = host /\ j.slash /\ IsPrefix(j.segs, k.segs)}
<1>1. p.segs \in Seq(Segment) /\ p.slash \in BOOLEAN /\ Len(p.segs) \in Nat
  BY LenProperties DEF Paths
<1>2. /\ exact \in Patterns /\ exact.host = host /\ exact.segs = p.segs /\ (exact.slash <=> p.slash)
      /\ tree \in Patterns /\ tree.host = host /\ tree.segs = p.segs /\ tree.slash
  <2>1. exact \in Patterns /\ tree \in Patterns
    BY <1>1, PatternFields
  <2>2. QED
    BY <2>1 DEF Pattern
<1>3. /\ k \in DOMAIN Handlers /\ k.slash /\ IsPrefix(k.segs, p.segs)
      /\ \A j \in DOMAIN Handlers : IsPrefix(k.segs, j.segs) => j = k
      /\ p.slash \/ Len(p.segs) > Len(k.segs)
  BY DEF FileTree, InTree
<1>4. \A j \in DOMAIN Handlers : j \in Patterns /\ j.segs \in Seq(Segment) /\ Len(j.segs) \in Nat
  BY SiteAssumption, LengthOf
<1>5. Route(host, p) = IF exact \in DOMAIN Handlers THEN Handlers[exact]
       ELSE IF tree \in DOMAIN Handlers THEN RedirectHandler(tree)
       ELSE IF above = {} THEN Nil
       ELSE Handlers[CHOOSE j \in above : \A i \in above : Len(i.segs) <= Len(j.segs)]
  BY DEF Route
<1> HIDE DEF exact, tree
<1>6. (exact \in DOMAIN Handlers => exact = k) /\ (tree \in DOMAIN Handlers => tree = k)
  BY <1>2, <1>3
<1>7. tree \in DOMAIN Handlers => exact \in DOMAIN Handlers
  <2>1. SUFFICES ASSUME tree \in DOMAIN Handlers PROVE exact \in DOMAIN Handlers
    OBVIOUS
  <2>2. k.segs = p.segs
    BY <1>2, <1>6, <2>1
  <2>3. p.slash
    BY <1>1, <1>3, <2>2
  <2>4. exact = tree
    BY <1>2, <2>3, SamePattern
  <2>5. QED
    BY <2>1, <2>4
<1>8. ASSUME NEW j \in DOMAIN Handlers, IsPrefix(j.segs, p.segs)
      PROVE  Len(j.segs) <= Len(k.segs) /\ IsPrefix(j.segs, k.segs)
  <2>1. CASE Len(j.segs) <= Len(k.segs)
    BY <1>1, <1>3, <1>4, <1>8, <2>1, PrefixOfPrefix
  <2>2. CASE Len(k.segs) <= Len(j.segs)
    <3>1. IsPrefix(k.segs, j.segs)
      BY <1>1, <1>3, <1>4, <1>8, <2>2, PrefixOfPrefix
    <3>2. j = k
      BY <1>3, <3>1
    <3>3. QED
      BY <1>3, <1>4, <3>2, SamePrefix
  <2>3. QED
    BY <1>3, <1>4, <2>1, <2>2
<1>9. above = around
  <2>1. \A j \in DOMAIN Handlers : IsPrefix(j.segs, k.segs) => IsPrefix(j.segs, p.segs)
    BY <1>1, <1>3, <1>4, PrefixThrough
  <2>2. QED
    BY <1>8, <2>1
<1>10. CASE k.host = host
  <2>1. CASE exact \in DOMAIN Handlers
    BY <1>5, <1>6, <1>10, <2>1
  <2>2. CASE exact \notin DOMAIN Handlers
    <3>1. k \in above
      BY <1>3, <1>10
    <3>2. \A j \in above : Len(j.segs) <= Len(k.segs)
      BY <1>8
    <3> DEFINE c == CHOOSE j \in above : \A i \in above : Len(i.segs) <= Len(j.segs)
    <3>3. c \in above /\ \A i \in above : Len(i.segs) <= Len(c.segs)
      BY <3>1, <3>2
    <3>4. Route(host, p) = Handlers[c]
      BY <1>5, <1>7, <2>2, <3>1
    <3> HIDE DEF c
    <3>5. c \in DOMAIN Handlers /\ IsPrefix(c.segs, p.segs)
      BY <3>3
    <3>6. Len(c.segs) = Len(k.segs)
      BY <1>3, <1>4, <3>1, <3>2, <3>3, <3>5
    <3>7. c.segs = k.segs
      BY <1>1, <1>3, <1>4, <3>5, <3>6, SamePrefix
    <3>8. IsPrefix(k.segs, c.segs)
      BY <1>3, <1>4, <3>7, SamePrefix
    <3>9. c = k
      BY <1>3, <3>5, <3>8
    <3>10. QED
      BY <1>10, <3>4, <3>9
  <2>3. QED
    BY <2>1, <2>2
<1>11. CASE k.host # host
  <2>1. exact \notin DOMAIN Handlers /\ tree \notin DOMAIN Handlers
    BY <1>2, <1>6, <1>11
  <2>2. Route(host, p) = IF around = {} THEN Nil
            ELSE Handlers[CHOOSE j \in around : \A i \in around : Len(i.segs) <= Len(j.segs)]
    BY <1>5, <1>9, <2>1
  <2>3. Route(host, p) = Around(host, k)
    BY <2>2 DEF Around
  <2>4. QED
    BY <1>11, <2>3
<1>12. QED
  BY <1>10, <1>11

LEMMA TreeIsOne ==
    ASSUME OrderlySite, NEW p \in Paths, FilesRoute(RouteOf(p))
    PROVE  \E k : /\ FileTree(k) /\ InTree(k, p) /\ Handlers[k] = RouteOf(p)
                  /\ \A t \in Paths : InTree(k, t) => RouteOf(t) = RouteOf(p)
<1>1. Host \in Segment \cup {AnyHost} /\ AnyHost \in Segment \cup {AnyHost}
  BY SiteAssumption
<1>2. RouteOf(p) = Route(Host, p) \/ RouteOf(p) = Route(AnyHost, p)
  BY DEF RouteOf
<1>3. PICK k : FileTree(k) /\ InTree(k, p) /\ Handlers[k] = RouteOf(p)
  BY <1>1, <1>2, FilesBelow
<1>4. ASSUME NEW t \in Paths, InTree(k, t) PROVE RouteOf(t) = RouteOf(p)
  <2>1. Route(Host, t) = Route(Host, p) /\ Route(AnyHost, t) = Route(AnyHost, p)
    BY <1>1, <1>3, <1>4, TreeRoute
  <2>2. QED
    BY <2>1 DEF RouteOf
<1>5. QED
  BY <1>3, <1>4

\* A path behind a prefix, and back.
Joined(pre, x) == Path(pre \o x.segs, x.slash)

LEMMA PathTyped ==
    ASSUME NEW s \in Seq(Segment), NEW l \in BOOLEAN
    PROVE  Path(s, l) \in Paths /\ Path(s, l).segs = s /\ Path(s, l).slash = l
  BY DEF Path, Paths

LEMMA PathIs ==
    ASSUME NEW p \in Paths
    PROVE  p = Path(p.segs, p.slash) /\ p.segs \in Seq(Segment) /\ p.slash \in BOOLEAN
  BY DEF Path, Paths

LEMMA StripJoin ==
    ASSUME NEW pre \in Seq(Segment), NEW p \in Paths, IsPrefix(pre, p.segs)
    PROVE  /\ StripPrefix(pre, p) \in Paths /\ p = Joined(pre, StripPrefix(pre, p))
           /\ StripPrefix(pre, p).slash = p.slash
           /\ Len(p.segs) = Len(pre) + Len(StripPrefix(pre, p).segs)
           /\ Plain(p.segs) => Plain(pre) /\ Plain(StripPrefix(pre, p).segs)
<1> DEFINE m == Len(pre)
           n == Len(p.segs)
           r == SubSeq(p.segs, m + 1, n)
           u == pre \o r
<1>1. p.segs \in Seq(Segment) /\ p.slash \in BOOLEAN /\ p = Path(p.segs, p.slash)
  BY PathIs
<1>2. m \in Nat /\ n \in Nat /\ m <= n
  BY <1>1, LenProperties, SamePrefix
<1>3. /\ r \in Seq(Segment) /\ Len(r) = n - m
      /\ \A i \in 1 .. n - m : r[i] = p.segs[m + i]
  <2> DEFINE a == m + 1
  <2>1. a \in Int /\ n \in Int /\ \A i \in a .. n : p.segs[i] \in Segment
    BY <1>1, <1>2, ElementOfSeq
  <2>2. /\ SubSeq(p.segs, a, n) \in Seq(Segment)
        /\ Len(SubSeq(p.segs, a, n)) = IF a <= n THEN n - a + 1 ELSE 0
        /\ \A i \in 1 .. n - a + 1 : SubSeq(p.segs, a, n)[i] = p.segs[a + i - 1]
    <3> HIDE DEF a, n
    <3>1. QED
      BY <2>1, SubSeqProperties
  <2>3. r = SubSeq(p.segs, a, n)
    OBVIOUS
  <2> HIDE DEF r, m, n
  <2>4. Len(r) = n - m
    BY <1>2, <2>2, <2>3
  <2>5. \A i \in 1 .. n - m : r[i] = p.segs[m + i]
    BY <1>2, <2>2, <2>3
  <2>6. QED
    BY <2>2, <2>3, <2>4, <2>5
<1>4. \A i \in 1 .. m : pre[i] = p.segs[i]
  <2>1. pre = SubSeq(p.segs, 1, m)
    BY DEF IsPrefix
  <2>2. 1 \in Int /\ m \in Int /\ \A i \in 1 .. m : p.segs[i] \in Segment
    BY <1>1, <1>2, ElementOfSeq
  <2> HIDE DEF m
  <2>3. \A i \in 1 .. m - 1 + 1 : SubSeq(p.segs, 1, m)[i] = p.segs[1 + i - 1]
    BY <2>2, SubSeqProperties
  <2>4. QED
    BY <1>2, <2>1, <2>3
<1> HIDE DEF r
<1>5. /\ u \in Seq(Segment) /\ Len(u) = m + Len(r)
      /\ \A i \in 1 .. m : u[i] = pre[i]
      /\ \A i \in 1 .. Len(r) : u[m + i] = r[i]
  BY <1>3, ConcatProperties
<1> HIDE DEF u, m, n
<1>6. Len(u) = n
  BY <1>2, <1>3, <1>5
<1>7. ASSUME NEW i \in 1 .. n PROVE u[i] = p.segs[i]
  <2>1. CASE i <= m
    BY <1>2, <1>4, <1>5, <2>1
  <2>2. CASE i > m
    <3>1. i - m \in 1 .. n - m /\ m + (i - m) = i
      BY <1>2, <2>2
    <3>2. QED
      BY <1>3, <1>5, <3>1
  <2>3. QED
    BY <1>2, <2>1, <2>2
<1>8. u = p.segs
  BY <1>1, <1>5, <1>6, <1>7, SeqEqual DEF n
<1>9. StripPrefix(pre, p) = Path(r, p.slash)
  BY DEF StripPrefix, r, m, n
<1>10. Path(r, p.slash) \in Paths /\ Path(r, p.slash).segs = r /\ Path(r, p.slash).slash = p.slash
  BY <1>1, <1>3, PathTyped
<1>11. p = Joined(pre, StripPrefix(pre, p))
  BY <1>1, <1>8, <1>9, <1>10 DEF Joined, u
<1>12. ASSUME Plain(p.segs) PROVE Plain(pre) /\ Plain(r)
  <2>1. \A i \in 1 .. n : Ordinary(p.segs[i])
    BY <1>12 DEF Plain, n
  <2>2. \A i \in 1 .. m : Ordinary(pre[i])
    BY <1>2, <1>4, <2>1
  <2>3. \A i \in 1 .. n - m : Ordinary(r[i])
    BY <1>2, <1>3, <2>1
  <2>4. QED
    BY <1>3, <2>2, <2>3 DEF Plain, m
<1>13. Len(p.segs) = Len(pre) + Len(r)
  BY <1>2, <1>3 DEF m, n
<1>14. QED
  BY <1>9, <1>10, <1>11, <1>12, <1>13

LEMMA JoinStrip ==
    ASSUME NEW pre \in Seq(Segment), NEW x \in Paths
    PROVE  /\ Joined(pre, x) \in Paths /\ IsPrefix(pre, Joined(pre, x).segs)
           /\ Joined(pre, x).slash = x.slash
           /\ Len(Joined(pre, x).segs) = Len(pre) + Len(x.segs)
           /\ StripPrefix(pre, Joined(pre, x)) = x
           /\ Plain(pre) /\ Plain(x.segs) => Plain(Joined(pre, x).segs)
<1> DEFINE m == Len(pre)
           n == Len(x.segs)
           u == pre \o x.segs
           r == SubSeq(u, m + 1, m + n)
<1>1. x.segs \in Seq(Segment) /\ x.slash \in BOOLEAN /\ x = Path(x.segs, x.slash)
  BY PathIs
<1>2. m \in Nat /\ n \in Nat
  BY <1>1, LenProperties
<1>3. /\ u \in Seq(Segment) /\ Len(u) = m + n
      /\ \A i \in 1 .. m : u[i] = pre[i]
      /\ \A i \in 1 .. n : u[m + i] = x.segs[i]
  BY <1>1, ConcatProperties
<1>4. Joined(pre, x) \in Paths /\ Joined(pre, x).segs = u /\ Joined(pre, x).slash = x.slash
  <2> HIDE DEF u
  <2>1. Path(u, x.slash) \in Paths /\ Path(u, x.slash).segs = u /\ Path(u, x.slash).slash = x.slash
    BY <1>1, <1>3, PathTyped
  <2>2. QED
    BY <2>1 DEF Joined, u
<1> HIDE DEF u, m, n
<1>5. IsPrefix(pre, u)
  <2> DEFINE v == SubSeq(u, 1, m)
  <2>1. 1 \in Int /\ m \in Int /\ \A i \in 1 .. m : u[i] \in Segment
    BY <1>2, <1>3, ElementOfSeq
  <2>2. /\ SubSeq(u, 1, m) \in Seq(Segment)
        /\ Len(SubSeq(u, 1, m)) = IF 1 <= m THEN m - 1 + 1 ELSE 0
        /\ \A i \in 1 .. m - 1 + 1 : SubSeq(u, 1, m)[i] = u[1 + i - 1]
    BY <2>1, SubSeqProperties
  <2>3. v \in Seq(Segment) /\ Len(v) = m
    BY <1>2, <2>2
  <2>4. \A i \in 1 .. m : v[i] = pre[i]
    BY <1>2, <1>3, <2>2
  <2>5. v = pre
    <3> HIDE DEF v
    <3>1. QED
      BY <2>3, <2>4, SeqEqual DEF m
  <2>6. QED
    BY <1>2, <1>3, <2>5 DEF IsPrefix, m
<1>6. r = x.segs
  <2> DEFINE a == m + 1
             b == m + n
  <2>1. a \in Int /\ b \in Int /\ \A i \in a .. b : u[i] \in Segment
    BY <1>2, <1>3, ElementOfSeq
  <2>2. /\ SubSeq(u, a, b) \in Seq(Segment)
        /\ Len(SubSeq(u, a, b)) = IF a <= b THEN b - a + 1 ELSE 0
        /\ \A i \in 1 .. b - a + 1 : SubSeq(u, a, b)[i] = u[a + i - 1]
    <3> HIDE DEF a, b
    <3>1. QED
      BY <2>1, SubSeqProperties
  <2>3. r = SubSeq(u, a, b)
    OBVIOUS
  <2> HIDE DEF r
  <2>4. r \in Seq(Segment) /\ Len(r) = n
    BY <1>2, <2>2, <2>3
  <2>5. \A i \in 1 .. n : r[i] = x.segs[i]
    BY <1>2, <1>3, <2>2, <2>3
  <2>6. QED
    BY <1>1, <2>4, <2>5, SeqEqual DEF n
<1>7. StripPrefix(pre, Joined(pre, x)) = Path(r, x.slash)
  BY <1>3, <1>4, <1>5 DEF StripPrefix, m
<1>8. ASSUME Plain(pre), Plain(x.segs) PROVE Plain(u)
  <2>1. ASSUME NEW i \in 1 .. m + n PROVE Ordinary(u[i])
    <3>1. CASE i <= m
      BY <1>2, <1>3, <1>8, <3>1 DEF Plain, m
    <3>2. CASE i > m
      <4>1. i - m \in 1 .. n /\ m + (i - m) = i
        BY <1>2, <3>2
      <4>2. u[i] = x.segs[i - m]
        BY <1>3, <4>1
      <4>3. QED
        BY <1>8, <4>1, <4>2 DEF Plain, n
    <3>3. QED
      BY <1>2, <3>1, <3>2
  <2>2. QED
    BY <1>3, <2>1 DEF Plain
<1>9. Len(u) = Len(pre) + Len(x.segs)
  BY <1>3 DEF m, n
<1>10. QED
  BY <1>1, <1>4, <1>5, <1>6, <1>7, <1>8, <1>9

LEMMA JoinedEnds ==
    ASSUME NEW pre \in Seq(Segment), NEW x \in Paths, x.segs # <<>>
    PROVE  /\ Joined(pre, x).segs # <<>> /\ Last(Joined(pre, x).segs) = Last(x.segs)
           /\ Front(Joined(pre, x).segs) = pre \o Front(x.segs)
<1> DEFINE s == x.segs
           f == Front(s)
           b == Last(s)
           u == pre \o s
           g == pre \o f
<1>1. s \in Seq(Segment) /\ x.slash \in BOOLEAN
  BY PathIs
<1>2. f \in Seq(Segment) /\ b \in Segment /\ s = Append(f, b)
  BY <1>1, FrontFields, FrontLast
<1>3. Joined(pre, x).segs = u
  BY DEF Joined, Path
<1>4. g \in Seq(Segment)
  BY <1>2, ConcatProperties
<1>5. u = Append(g, b)
  <2> HIDE DEF f, b, s
  <2>1. s = f \o <<b>> /\ <<b>> \in Seq(Segment)
    BY <1>2, ConcatOne
  <2>2. pre \o (f \o <<b>>) = (pre \o f) \o <<b>>
    BY <1>2, <2>1, ConcatAssociative
  <2>3. g \o <<b>> = Append(g, b)
    BY <1>2, <1>4, ConcatOne
  <2>4. QED
    BY <2>1, <2>2, <2>3
<1> HIDE DEF u, g, b, f
<1>6. u # <<>> /\ Last(u) = b /\ Front(u) = g
  BY <1>2, <1>4, <1>5, AppendFront
<1>7. QED
  BY <1>3, <1>6 DEF g, b, f

LEMMA CleanPathIs ==
    ASSUME NEW p \in Paths
    PROVE  /\ cleanPath(p) \in Paths /\ Plain(cleanPath(p).segs)
           /\ cleanPath(p).segs = <<>> => cleanPath(p).slash
           /\ cleanPath(cleanPath(p)) = cleanPath(p)
           /\ Plain(p.segs) /\ (p.segs = <<>> => p.slash) => cleanPath(p) = p
<1>1. p.segs \in Seq(Segment) /\ p.slash \in BOOLEAN /\ p = Path(p.segs, p.slash)
  BY PathIs
<1> DEFINE c == Clean(p.segs)
           l == p.slash \/ c = <<>>
<1>2. c \in Seq(Segment) /\ Plain(c) /\ Clean(c) = c
  BY <1>1, CleanTwice
<1>3. cleanPath(p) = Path(c, l) /\ l \in BOOLEAN
  BY DEF cleanPath
<1>4. Path(c, l) \in Paths /\ Path(c, l).segs = c /\ Path(c, l).slash = l
  <2> HIDE DEF c, l
  <2>1. QED
    BY <1>2, <1>3, PathTyped
<1>5. cleanPath(Path(c, l)) = Path(c, l)
  <2>1. cleanPath(Path(c, l)) = Path(c, l \/ c = <<>>)
    <3> HIDE DEF c, l
    <3>1. QED
      BY <1>2, <1>4 DEF cleanPath
  <2>2. (l \/ c = <<>>) = l
    BY <1>1
  <2>3. QED
    BY <2>1, <2>2
<1>6. ASSUME Plain(p.segs), p.segs = <<>> => p.slash PROVE cleanPath(p) = p
  <2>1. c = p.segs
    BY <1>1, <1>6, PlainIsClean
  <2>2. l = p.slash
    BY <1>1, <1>6, <2>1
  <2>3. QED
    BY <1>1, <1>3, <2>1, <2>2
<1>7. c = <<>> => l
  OBVIOUS
<1> HIDE DEF c, l
<1>8. QED
  BY <1>2, <1>3, <1>4, <1>5, <1>6, <1>7

\* Each redirect of the file server is resolved to the path that is meant.
LEMMA LedResolves ==
    ASSUME NEW p \in Paths, Tidy(p), NEW ref, NEW t, Led(p, ref, t)
    PROVE  Resolve(p, ref) = t
<1> DEFINE b == Last(p.segs)
           c == Clean(p.segs)
           f == Front(p.segs)
<1>1. p.segs # <<>> /\ p.segs \in Seq(Segment)
  BY PathIs DEF Led, ToIndex, ToDir, ToFile, Index
<1>2. /\ b \in Segment /\ f \in Seq(Segment)
      /\ ~p.slash => Resolve(p, Ref(FALSE, <<".">>, TRUE)) = Path(Clean(f), TRUE)
      /\ ~p.slash => Resolve(p, Ref(FALSE, <<b>>, TRUE)) = Path(c, TRUE)
      /\ p.slash /\ Ordinary(b) => Resolve(p, Ref(FALSE, <<"..", b>>, FALSE)) = Path(c, FALSE)
      /\ Ordinary(b) => c = Append(Clean(f), b)
  BY <1>1, LocalResolve
<1>3. CASE ToIndex(p, ref, t)
  <2>1. ~p.slash /\ b = INDEX /\ ref = Ref(FALSE, <<".">>, TRUE) /\ t = Path(Front(c), TRUE)
    BY <1>3 DEF ToIndex, Index
  <2>2. Clean(f) \in Seq(Segment) /\ c = Append(Clean(f), b)
    BY <1>2, <2>1, IndexOrdinary, CleanTyped
  <2> HIDE DEF b, c, f
  <2>3. Front(c) = Clean(f)
    BY <1>2, <2>2, AppendFront
  <2>4. QED
    BY <1>2, <2>1, <2>3
<1>4. CASE ToDir(p, ref, t)
  BY <1>2, <1>4 DEF ToDir
<1>5. CASE ToFile(p, ref, t)
  BY <1>2, <1>5 DEF ToFile, Tidy
<1>6. QED
  BY <1>3, <1>4, <1>5 DEF Led

\* They are the same behind a prefix.
LEMMA LedJoins ==
    ASSUME NEW pre \in Seq(Segment), Plain(pre), NEW x \in Paths, Plain(x.segs),
           NEW ref, NEW t, Led(x, ref, t)
    PROVE  /\ Led(Joined(pre, x), ref, Joined(pre, t))
           /\ t \in Paths /\ Plain(t.segs) /\ (t.slash \/ t.segs # <<>>)
<1> DEFINE p == Joined(pre, x)
<1>1. x.segs \in Seq(Segment) /\ x.slash \in BOOLEAN /\ x.segs # <<>>
  BY PathIs DEF Led, ToIndex, ToDir, ToFile, Index
<1>2. p \in Paths /\ p.slash = x.slash /\ Plain(p.segs)
  BY JoinStrip
<1>3. p.segs # <<>> /\ Last(p.segs) = Last(x.segs) /\ Front(p.segs) = pre \o Front(x.segs)
  BY <1>1, JoinedEnds
<1>4. p.segs = pre \o x.segs
  BY DEF Joined, Path
<1>5. Clean(p.segs) = p.segs /\ Clean(x.segs) = x.segs
  BY <1>1, <1>2, PathIs, PlainIsClean
<1>6. Front(x.segs) \in Seq(Segment) /\ Plain(Front(x.segs))
  BY <1>1, FrontFields, PlainParts
<1>7. Index(p) <=> Index(x)
  <2> HIDE DEF p
  <2>1. QED
    BY <1>1, <1>2, <1>3 DEF Index
<1>8. ASSUME NEW s \in Seq(Segment), NEW l \in BOOLEAN, t = Path(s, l)
      PROVE  t \in Paths /\ t.segs = s /\ t.slash = l /\ Joined(pre, t) = Path(pre \o s, l)
  BY <1>8, PathTyped DEF Joined
<1> HIDE DEF p
<1>9. CASE ToIndex(x, ref, t)
  <2>1. Index(x) /\ ref = Ref(FALSE, <<".">>, TRUE) /\ t = Path(Front(x.segs), TRUE)
    BY <1>5, <1>9 DEF ToIndex
  <2>2. /\ t \in Paths /\ t.segs = Front(x.segs) /\ t.slash
        /\ Joined(pre, t) = Path(Front(p.segs), TRUE)
    BY <1>3, <1>6, <1>8, <2>1
  <2>3. ToIndex(p, ref, Joined(pre, t))
    BY <1>5, <1>7, <2>1, <2>2 DEF ToIndex
  <2>4. QED
    BY <1>6, <2>2, <2>3 DEF Led, p
<1>10. CASE ToDir(x, ref, t)
  <2>1. ~Index(x) /\ ~x.slash /\ ref = Ref(FALSE, <<Last(x.segs)>>, TRUE) /\ t = Path(x.segs, TRUE)
    BY <1>5, <1>10 DEF ToDir
  <2>2. t \in Paths /\ t.segs = x.segs /\ t.slash /\ Joined(pre, t) = Path(p.segs, TRUE)
    BY <1>1, <1>4, <1>8, <2>1
  <2>3. ToDir(p, ref, Joined(pre, t))
    BY <1>2, <1>3, <1>5, <1>7, <2>1, <2>2 DEF ToDir
  <2>4. QED
    BY <2>2, <2>3 DEF Led, p
<1>11. CASE ToFile(x, ref, t)
  <2>1. x.slash /\ ref = Ref(FALSE, <<"..", Last(x.segs)>>, FALSE) /\ t = Path(x.segs, FALSE)
    BY <1>5, <1>11 DEF ToFile
  <2>2. t \in Paths /\ t.segs = x.segs /\ Joined(pre, t) = Path(p.segs, FALSE)
    BY <1>1, <1>4, <1>8, <2>1
  <2>3. ToFile(p, ref, Joined(pre, t))
    BY <1>2, <1>3, <1>5, <2>1, <2>2 DEF ToFile
  <2>4. QED
    BY <1>1, <2>2, <2>3 DEF Led, p
<1>12. QED
  BY <1>9, <1>10, <1>11 DEF Led

-----------------------------------------------------------------------------
\* A request that the mux does not send back to be cleaned.
Direct(q) == q.scheme = "http" => cleanPath(q.path) = q.path

\* A request for a tree of files, and what is left of its path there.
LEMMA FilesLocal ==
    ASSUME OrderlySite, NEW q, q.path \in Paths, q.scheme # "file", ToFiles(q)
    PROVE  LET c == cleanPath(q.path)
               x == LocalPath(q)
           IN \E k : /\ FileTree(k) /\ k.segs \in Seq(Segment) /\ Plain(k.segs) /\ InTree(k, c)
                     /\ c = Joined(k.segs, x) /\ x \in Paths /\ Plain(x.segs)
                     /\ Handlers[k] = RouteOf(c)
                     /\ \A t \in Paths : InTree(k, t) => RouteOf(t) = RouteOf(c)
<1> DEFINE c == cleanPath(q.path)
           x == LocalPath(q)
<1>1. c \in Paths /\ Plain(c.segs)
  BY CleanPathIs
<1>2. FilesRoute(RouteOf(c)) /\ x = StripPrefix(RouteOf(c).prefix, c)
  BY DEF ToFiles, LocalPath
<1> HIDE DEF c, x
<1>3. PICK k : /\ FileTree(k) /\ InTree(k, c) /\ Handlers[k] = RouteOf(c)
               /\ \A t \in Paths : InTree(k, t) => RouteOf(t) = RouteOf(c)
  BY <1>1, <1>2, TreeIsOne
<1>4. k.segs \in Seq(Segment) /\ RouteOf(c).prefix = k.segs /\ IsPrefix(k.segs, c.segs)
  <2>1. k \in DOMAIN Handlers /\ Handlers[k].prefix = k.segs
    BY <1>3 DEF FileTree
  <2>2. k \in Patterns
    BY <2>1, SiteAssumption
  <2>3. k.segs \in Seq(Segment)
    BY <2>2, LengthOf
  <2>4. QED
    BY <1>3, <2>1, <2>3 DEF InTree
<1>5. x = StripPrefix(k.segs, c)
  BY <1>2, <1>4
<1>6. x \in Paths /\ c = Joined(k.segs, x) /\ Plain(k.segs) /\ Plain(x.segs)
  BY <1>1, <1>4, <1>5, StripJoin
<1>7. QED
  BY <1>3, <1>4, <1>6 DEF c, x

\* A redirect of the file server is a redirect within its tree.
LEMMA LedLifts ==
    ASSUME OrderlySite, NEW q, q.path \in Paths, Direct(q), ToFiles(q), Tidy(LocalPath(q)),
           q.scheme \in {"http", "file"},
           NEW ref, NEW t \in Paths, Led(LocalPath(q), ref, t),
           NEW n, n.scheme = q.scheme, n.path = Resolve(q.path, ref)
    PROVE  ToFiles(n) /\ Direct(n) /\ LocalPath(n) = t
<1>1. CASE q.scheme = "file"
  <2>1. LocalPath(q) = q.path
    BY <1>1 DEF LocalPath
  <2>2. n.path = t
    BY <2>1, LedResolves
  <2>3. QED
    BY <1>1, <2>2 DEF ToFiles, Direct, LocalPath
<1>2. CASE q.scheme # "file"
  <2> DEFINE x == LocalPath(q)
             p == q.path
  <2>1. cleanPath(p) = p
    BY <1>2 DEF Direct
  <2>2. PICK k : /\ FileTree(k) /\ k.segs \in Seq(Segment) /\ Plain(k.segs)
                 /\ p = Joined(k.segs, x) /\ x \in Paths /\ Plain(x.segs)
                 /\ Handlers[k] = RouteOf(p)
                 /\ \A s \in Paths : InTree(k, s) => RouteOf(s) = RouteOf(p)
    BY <1>2, <2>1, FilesLocal
  <2> HIDE DEF x, p
  <2>3. Led(p, ref, Joined(k.segs, t)) /\ Plain(t.segs) /\ (t.slash \/ t.segs # <<>>)
    BY <2>2, LedJoins DEF x
  <2>4. p \in Paths /\ Plain(p.segs)
    BY <2>1, CleanPathIs DEF p
  <2>5. Tidy(p)
    BY <2>4, PathIs, PlainParts DEF Tidy
  <2> DEFINE w == Joined(k.segs, t)
  <2>6. n.path = w
    BY <2>3, <2>4, <2>5, LedResolves DEF p
  <2>7. /\ w \in Paths /\ IsPrefix(k.segs, w.segs) /\ w.slash = t.slash /\ Plain(w.segs)
        /\ Len(w.segs) = Len(k.segs) + Len(t.segs) /\ StripPrefix(k.segs, w) = t
    BY <2>2, <2>3, JoinStrip
  <2> HIDE DEF w
  <2>8. Len(k.segs) \in Nat /\ Len(t.segs) \in Nat /\ (t.segs # <<>> => Len(t.segs) > 0)
    <3>1. t.segs \in Seq(Segment)
      BY PathIs
    <3>2. Len(t.segs) \in Nat /\ Len(k.segs) \in Nat
      BY <2>2, <3>1, LenProperties
    <3>3. t.segs # <<>> => Len(t.segs) # 0
      BY <3>1, EmptySeq
    <3>4. QED
      BY <3>2, <3>3
  <2> DEFINE a == Len(k.segs)
             b == Len(t.segs)
             d == Len(w.segs)
  <2>8a. a \in Nat /\ b \in Nat /\ d = a + b /\ (t.segs # <<>> => b > 0)
    BY <2>7, <2>8
  <2> HIDE DEF a, b, d
  <2>8b. (t.segs # <<>> => d > a) /\ (d = 0 => t.segs = <<>>)
    <3>1. b > 0 => d > a /\ d # 0
      BY <2>8a
    <3>2. QED
      BY <2>8a, <3>1
  <2>9. InTree(k, w)
    BY <2>3, <2>7, <2>8b DEF InTree, a, d
  <2>10. cleanPath(w) = w
    <3>1. w.segs = <<>> => d = 0
      BY EmptySeq DEF d
    <3>2. w.segs = <<>> => w.slash
      BY <2>3, <2>7, <2>8b, <3>1
    <3>3. QED
      BY <2>7, <3>2, CleanPathIs
  <2>11. RouteOf(w) = Handlers[k]
    BY <2>2, <2>7, <2>9
  <2>12. FilesRoute(RouteOf(w)) /\ RouteOf(w).prefix = k.segs
    <3>1. FilesRoute(RouteOf(p))
      BY <1>2, <2>1 DEF ToFiles, p
    <3>2. QED
      BY <2>2, <2>11, <3>1 DEF FileTree
  <2>13. ToFiles(n) /\ Direct(n)
    BY <2>6, <2>10, <2>12 DEF ToFiles, Direct
  <2>14. LocalPath(n) = t
    BY <1>2, <2>6, <2>7, <2>10, <2>12 DEF LocalPath
  <2>15. QED
    BY <2>13, <2>14
<1>3. QED
  BY <1>1, <1>2

\* A path that is not clean is sent to the one that is.
LEMMA CleanerLeads ==
    ASSUME NEW p \in Paths,
           NEW r, r = Redirect(p, Ref(TRUE, cleanPath(p).segs, cleanPath(p).slash), 301)
    PROVE  r.code = 301 /\ r.page = "redirect" /\ r.location \in Refs /\ Resolve(p, r.location) = cleanPath(p)
<1> DEFINE c == cleanPath(p)
           s == c.segs
           ref == Ref(TRUE, s, c.slash)
<1>1. c \in Paths /\ Plain(s) /\ (s = <<>> => c.slash)
  BY CleanPathIs
<1> HIDE DEF c
<1>2. s \in Seq(Segment) /\ c.slash \in BOOLEAN /\ c = Path(s, c.slash)
  BY <1>1, PathIs
<1>3. Clean(s) = s /\ (c.slash \/ s = <<>>) = c.slash
  BY <1>1, <1>2, PlainIsClean
<1>4. ref.abs /\ ref.segs = s /\ ref.slash = c.slash /\ ref \in Refs
  BY <1>2, RefTyped DEF Ref
<1> HIDE DEF s
<1>5. Redirect(p, ref, 301) = Reply(301, "redirect", Ref(TRUE, Clean(s), c.slash \/ Clean(s) = <<>>))
  BY <1>4 DEF Redirect
<1>6. Redirect(p, ref, 301) = Reply(301, "redirect", ref)
  BY <1>3, <1>5
<1>7. Resolve(p, ref) = c
  <2>1. Resolve(p, ref) = Path(Clean(s), c.slash \/ Clean(s) = <<>>)
    BY <1>4 DEF Resolve
  <2>2. QED
    BY <1>2, <1>3, <2>1
<1>8. r = Redirect(p, ref, 301)
  BY DEF s, c
<1> HIDE DEF ref
<1>9. r.code = 301 /\ r.page = "redirect" /\ r.location = ref
  <2>1. r = localRedirect(ref)
    BY <1>6, <1>8 DEF localRedirect
  <2>2. QED
    BY ONLY <1>4, <2>1, LocalRedirectGood, Zenon
<1>10. QED
  BY <1>4, <1>7, <1>9 DEF c

LEMMA StripNothing ==
    ASSUME NEW p \in Paths
    PROVE  StripPrefix(<<>>, p) = p
<1>1. p.segs \in Seq(Segment) /\ p = Path(p.segs, p.slash)
  BY PathIs
<1>2. <<>> \in Seq(Segment) /\ <<>> \o p.segs = p.segs
  BY <1>1, EmptySeq, ConcatEmptySeq
<1>3. Joined(<<>>, p) = p
  BY <1>1, <1>2 DEF Joined
<1>4. QED
  BY <1>2, <1>3, JoinStrip

\* The reply to a request, once the mux is full.
LEMMA AnswerCases ==
    ASSUME MuxInv, todo = {}, NEW q, GoodRequest(q), NEW up
    PROVE  LET r == Answer(q, up)
               h == RouteOf(q.path)
           IN \/ /\ q.scheme = "http" /\ ~Direct(q) /\ r.code = 301 /\ r.page = "redirect"
                 /\ r.location \in Refs /\ Resolve(q.path, r.location) = cleanPath(q.path)
              \/ q.scheme = "file" /\ r = serveFile(files, q, q.path)
              \/ /\ q.scheme = "http" /\ cleanPath(q.path) = q.path /\ (h = Nil \/ GoodRoute(h))
                 /\ r = RoundTrip(h, q, IF h = Nil THEN Nil ELSE StripPrefix(h.prefix, q.path), up)
<1> DEFINE d == Dispatch(q)
           h == RouteOf(q.path)
           p == IF d = Nil THEN Nil ELSE StripPrefix(d.prefix, q.path)
           r == Answer(q, up)
<1>1. q.path \in Paths /\ q.scheme \in {"http", "file"}
  BY DEF GoodRequest
<1>2. r = RoundTrip(d, q, p, up)
  BY Zenon DEF Answer
<1> HIDE DEF r
<1>3. CASE q.scheme = "file"
  <2>1. d = FilesAt(<<>>) /\ d # Nil
    BY <1>3, FilesAtGood DEF Dispatch
  <2>2. d.kind = "files" /\ d.prefix = <<>>
    BY <2>1 DEF FilesAt
  <2>3. p = q.path /\ p # Nil
    BY <1>1, <2>1, <2>2, StripNothing, NilApart
  <2> HIDE DEF d, p
  <2>4. RoundTrip(d, q, p, up) = serveFile(files, q, p)
    BY <2>1, <2>2, <2>3 DEF RoundTrip
  <2>5. r = serveFile(files, q, q.path)
    BY <1>2, <2>3, <2>4
  <2>6. QED
    BY <1>3, <2>5 DEF r
<1>4. CASE q.scheme = "http" /\ cleanPath(q.path) # q.path
  <2> DEFINE c == cleanPath(q.path)
             ref == Ref(TRUE, c.segs, c.slash)
  <2>1. d = Cleaner(c) /\ d # Nil
    BY <1>1, <1>4, CleanerGood, CleanPathTyped DEF Dispatch
  <2>2. d.kind = "redirect" /\ d.to = ref /\ d.code = 301
    BY <2>1 DEF Cleaner
  <2> HIDE DEF d, p, c, ref
  <2>3. RoundTrip(d, q, p, up) = Redirect(q.path, d.to, d.code)
    BY <2>1, <2>2 DEF RoundTrip
  <2>4. r = Redirect(q.path, ref, 301)
    BY <1>2, <2>2, <2>3
  <2>5. /\ r.code = 301 /\ r.page = "redirect" /\ r.location \in Refs
        /\ Resolve(q.path, r.location) = cleanPath(q.path)
    <3>1. r = Redirect(q.path, Ref(TRUE, cleanPath(q.path).segs, cleanPath(q.path).slash), 301)
      BY <2>4 DEF ref, c
    <3>2. \A s : s = Redirect(q.path, Ref(TRUE, cleanPath(q.path).segs, cleanPath(q.path).slash), 301) =>
             /\ s.code = 301 /\ s.page = "redirect" /\ s.location \in Refs
             /\ Resolve(q.path, s.location) = cleanPath(q.path)
      BY <1>1, CleanerLeads
    <3>3. QED
      BY <3>1, <3>2, Zenon
  <2>6. QED
    BY <1>4, <2>5 DEF Direct, r
<1>5. CASE q.scheme = "http" /\ cleanPath(q.path) = q.path
  <2>1. d = handler(mux, Host, q.path)
    BY <1>5 DEF Dispatch
  <2>2. d = h
    BY <1>1, <2>1, HandlerIsRoute
  <2>3. h = Nil \/ GoodRoute(h)
    BY <2>2, DispatchGood
  <2> HIDE DEF d, h
  <2>4. r = RoundTrip(h, q, IF h = Nil THEN Nil ELSE StripPrefix(h.prefix, q.path), up)
    BY <1>2, <2>2
  <2>5. QED
    BY <1>5, <2>3, <2>4 DEF r, h
<1>6. QED
  BY <1>1, <1>3, <1>4, <1>5

\* A request for a tree of files.
LEMMA FilesAnswer ==
    ASSUME OrderlySite, MuxInv, todo = {}, NEW q, GoodRequest(q), ToFiles(q), NEW up
    PROVE  LET r == Answer(q, up) IN
           \/ /\ q.scheme = "http" /\ ~Direct(q) /\ r.code = 301 /\ r.page = "redirect"
              /\ r.location \in Refs /\ Resolve(q.path, r.location) = cleanPath(q.path)
           \/ Direct(q) /\ LocalPath(q) \in Paths /\ r = serveFile(files, q, LocalPath(q))
<1> DEFINE r == Answer(q, up)
           h == RouteOf(q.path)
           x == LocalPath(q)
<1>1. q.path \in Paths /\ q.scheme \in {"http", "file"}
  BY DEF GoodRequest
<1>2. CASE q.scheme = "file"
  <2>1. r = serveFile(files, q, q.path)
    BY <1>2, AnswerCases
  <2>2. LocalPath(q) = q.path /\ Direct(q)
    BY <1>2 DEF LocalPath, Direct
  <2>3. QED
    BY <1>1, <2>1, <2>2
<1>3. CASE q.scheme = "http" /\ cleanPath(q.path) = q.path
  <2>1. r = RoundTrip(h, q, IF h = Nil THEN Nil ELSE StripPrefix(h.prefix, q.path), up)
    BY <1>3, AnswerCases DEF Direct
  <2>2. h # Nil /\ h.kind = "files"
    BY <1>3 DEF ToFiles, FilesRoute
  <2>3. x = StripPrefix(h.prefix, q.path)
    BY <1>3 DEF LocalPath
  <2>4. x \in Paths
    BY <1>1, <1>3, FilesLocal
  <2> HIDE DEF r, h, x
  <2>5. x # Nil
    BY <2>4, NilApart
  <2>6. r = RoundTrip(h, q, x, up)
    BY <2>1, <2>2, <2>3
  <2>7. r = serveFile(files, q, x)
    BY <2>2, <2>5, <2>6 DEF RoundTrip
  <2>8. QED
    BY <1>3, <2>4, <2>7 DEF Direct, r, x
<1>4. CASE q.scheme = "http" /\ cleanPath(q.path) # q.path
  <2>1. ~Direct(q)
    BY <1>4 DEF Direct
  <2>2. QED
    BY <1>4, <2>1, AnswerCases
<1>5. QED
  BY <1>1, <1>2, <1>3, <1>4

\* What the pages of the proxy may be: none of them is a file's, and the one redirect
\* leads to the page of the administrator from elsewhere.
AdminPage == Path(<<"admin">>, FALSE)
Proxied(r, p) ==
    /\ r.page \notin {"content", "listing", "error"}
    /\ \/ r.code \in {200, 401, 404}
       \/ r.code = 301 /\ r.location = Ref(TRUE, <<"admin">>, FALSE) /\ p # AdminPage

LEMMA PlainProxied ==
    ASSUME NEW code \in {200, 401, 404}, NEW page, page \notin {"content", "listing", "error"}, NEW p
    PROVE  Proxied(Reply(code, page, Nil), p)
<1> DEFINE r == Reply(code, page, Nil)
<1>1. r.code = code /\ r.page = page
  BY DEF Reply
<1> HIDE DEF r
<1>2. Proxied(r, p)
  BY <1>1 DEF Proxied
<1>3. QED
  BY <1>2 DEF r

LEMMA AdminProxied ==
    ASSUME NEW p
    PROVE  Proxied(adminHandler(p), p)
<1> DEFINE a == Reply(200, "admin", Nil)
           b == Reply(301, "redirect", Ref(TRUE, <<"admin">>, FALSE))
           c == Reply(200, "empty", Nil)
           A == p = Path(<<"admin">>, FALSE)
           B == p = Path(<<"admin", "kick">>, FALSE)
<1>1. adminHandler(p) = CASE A -> a [] B -> b [] OTHER -> c
  BY Zenon DEF adminHandler
<1>2. Proxied(a, p) /\ Proxied(c, p)
  <2>1. 200 \in {200, 401, 404}
    OBVIOUS
  <2>2. "admin" \notin {"content", "listing", "error"} /\ "empty" \notin {"content", "listing", "error"}
    OBVIOUS
  <2>3. QED
    BY <2>1, <2>2, PlainProxied
<1>3. ~A => Proxied(b, p)
  <2>1. b.page = "redirect"
    BY DEF Reply
  <2>2. b.code = 301 /\ b.location = Ref(TRUE, <<"admin">>, FALSE)
    BY DEF Reply
  <2>3. "redirect" \notin {"content", "listing", "error"}
    OBVIOUS
  <2>4. ~A => p # AdminPage
    BY DEF AdminPage
  <2> HIDE DEF b, A
  <2>5. QED
    BY <2>1, <2>2, <2>3, <2>4 DEF Proxied
<1> HIDE DEF a, b, c, A, B
<1>4. adminHandler(p) = a \/ (~A /\ adminHandler(p) = b) \/ adminHandler(p) = c
  <2>1. CASE A /\ ~B
    BY <1>1, <2>1
  <2>2. CASE ~A
    BY <1>1, <2>2
  <2>3. ~(A /\ B)
    <3>1. Len(<<"admin">>) # Len(<<"admin", "kick">>)
      OBVIOUS
    <3>2. <<"admin">> # <<"admin", "kick">>
      BY <3>1
    <3>3. Path(<<"admin">>, FALSE).segs = <<"admin">> /\ Path(<<"admin", "kick">>, FALSE).segs = <<"admin", "kick">>
      BY DEF Path
    <3>4. QED
      BY <3>2, <3>3 DEF A, B
  <2>4. QED
    BY <2>1, <2>2, <2>3
<1>5. QED
  BY <1>2, <1>3, <1>4

LEMMA MainProxied ==
    ASSUME NEW q, NEW up
    PROVE  Proxied(mainHandler(q, up), q.path)
<1> DEFINE source == Reply(200, "source", Nil)
           metadata == Reply(200, "metadata", Nil)
           listclients == Reply(200, "listclients", Nil)
           empty == Reply(200, "empty", Nil)
<1>1. /\ Proxied(source, q.path) /\ Proxied(metadata, q.path) /\ Proxied(listclients, q.path)
      /\ Proxied(empty, q.path) /\ Proxied(NotFound, q.path) /\ Proxied(AuthenticationError, q.path)
  <2>1. 200 \in {200, 401, 404} /\ 401 \in {200, 401, 404} /\ 404 \in {200, 401, 404}
    OBVIOUS
  <2>2. Proxied(source, q.path)
    <3>1. "source" \notin {"content", "listing", "error"}
      OBVIOUS
    <3>2. Proxied(Reply(200, "source", Nil), q.path)
      BY <2>1, <3>1, PlainProxied
    <3>3. QED
      BY <3>2
  <2>3. Proxied(metadata, q.path)
    <3>1. "metadata" \notin {"content", "listing", "error"}
      OBVIOUS
    <3>2. Proxied(Reply(200, "metadata", Nil), q.path)
      BY <2>1, <3>1, PlainProxied
    <3>3. QED
      BY <3>2
  <2>4. Proxied(listclients, q.path)
    <3>1. "listclients" \notin {"content", "listing", "error"}
      OBVIOUS
    <3>2. Proxied(Reply(200, "listclients", Nil), q.path)
      BY <2>1, <3>1, PlainProxied
    <3>3. QED
      BY <3>2
  <2>5. Proxied(empty, q.path)
    <3>1. "empty" \notin {"content", "listing", "error"}
      OBVIOUS
    <3>2. Proxied(Reply(200, "empty", Nil), q.path)
      BY <2>1, <3>1, PlainProxied
    <3>3. QED
      BY <3>2
  <2>6. Proxied(NotFound, q.path)
    <3> DEFINE page == "not found"
    <3>1. page \notin {"content", "listing", "error"} /\ NotFound = Reply(404, page, Nil)
      BY DEF NotFound
    <3> HIDE DEF page
    <3>2. Proxied(Reply(404, page, Nil), q.path)
      BY <2>1, <3>1, PlainProxied
    <3>3. QED
      BY <3>1, <3>2
  <2>7. Proxied(AuthenticationError, q.path)
    <3>1. "unauthorized" \notin {"content", "listing", "error"}
      OBVIOUS
    <3>2. Proxied(Reply(401, "unauthorized", Nil), q.path)
      BY <2>1, <3>1, PlainProxied
    <3>3. QED
      BY <3>2 DEF AuthenticationError
  <2>8. QED
    BY <2>2, <2>3, <2>4, <2>5, <2>6, <2>7
<1> HIDE DEF source, metadata, listclients, empty
<1>2. ASSUME NEW r, Proxied(r, q.path), NEW perm PROVE Proxied(makeAuthHandler(r, perm, q, up), q.path)
  BY <1>1, <1>2 DEF makeAuthHandler
<1>3. Proxied(adminHandler(q.path), q.path)
  BY AdminProxied
<1> DEFINE a == makeAuthHandler(source, PERM_SOURCE, q, up)
           b == makeAuthHandler(metadata, PERM_META, q, up)
           c == makeAuthHandler(listclients, PERM_SOURCE, q, up)
           d == makeAuthHandler(adminHandler(q.path), PERM_ADMIN, q, up)
           A == q.method = "SOURCE"
           B == q.method = "GET" /\ q.path = Path(<<"admin", "metadata">>, FALSE)
           C == q.method = "GET" /\ q.path = Path(<<"admin", "listclients">>, FALSE)
           D == /\ q.method = "GET" /\ q.path.segs # <<>> /\ Head(q.path.segs) \in AdminNames
                /\ q.path \notin {Path(<<"admin", "metadata">>, FALSE),
                                  Path(<<"admin", "listclients">>, FALSE)}
           E == q.method = "GET" /\ (q.path.segs = <<>> \/ Head(q.path.segs) \notin AdminNames)
           m == mainHandler(q, up)
<1>4. m = CASE A -> a [] B -> b [] C -> c [] D -> d [] E -> NotFound [] OTHER -> empty
  BY Zenon DEF mainHandler, source, metadata, listclients, empty
<1>5. Proxied(a, q.path) /\ Proxied(b, q.path) /\ Proxied(c, q.path) /\ Proxied(d, q.path)
  BY <1>1, <1>2, <1>3
<1> HIDE DEF a, b, c, d, A, B, C, D, E, m
<1>6. m = a \/ m = b \/ m = c \/ m = d \/ m = NotFound \/ m = empty
  BY <1>4
<1>7. Proxied(m, q.path)
  BY <1>1, <1>5, <1>6
<1>8. QED
  BY <1>7 DEF m

\* A request for a page of the proxy.
LEMMA ProxyAnswer ==
    ASSUME MuxInv, todo = {}, NEW q, GoodRequest(q), ToProxy(q), NEW up
    PROVE  LET r == Answer(q, up) IN
           \/ /\ ~Direct(q) /\ r.code = 301 /\ r.page = "redirect"
              /\ r.location \in Refs /\ Resolve(q.path, r.location) = cleanPath(q.path)
           \/ Direct(q) /\ Proxied(r, q.path)
<1> DEFINE r == Answer(q, up)
           h == RouteOf(q.path)
<1>1. q.scheme = "http"
  BY DEF ToProxy
<1>2. CASE cleanPath(q.path) = q.path
  <2>1. r = RoundTrip(h, q, IF h = Nil THEN Nil ELSE StripPrefix(h.prefix, q.path), up)
    BY <1>1, <1>2, AnswerCases DEF Direct
  <2>2. h # Nil /\ h.kind = "proxy"
    BY <1>2 DEF ToProxy
  <2> HIDE DEF r, h
  <2>3. r = mainHandler(q, up)
    BY <2>1, <2>2 DEF RoundTrip
  <2>4. Proxied(r, q.path)
    BY <2>3, MainProxied
  <2>5. QED
    BY <1>2, <2>4 DEF Direct, r
<1>3. CASE cleanPath(q.path) # q.path
  <2>1. ~Direct(q)
    BY <1>1, <1>3 DEF Direct
  <2>2. QED
    BY <1>1, <1>3, <2>1, AnswerCases
<1>4. QED
  BY <1>2, <1>3

\* Only the file server says that a file is not modified.
LEMMA NotModifiedFrom ==
    ASSUME MuxInv, todo = {}, NEW q, GoodRequest(q), NEW up, Answer(q, up).code = 304
    PROVE  ToFiles(q) /\ Direct(q)
<1> DEFINE r == Answer(q, up)
           h == RouteOf(q.path)
           p == IF h = Nil THEN Nil ELSE StripPrefix(h.prefix, q.path)
<1>0. q.path \in Paths
  BY DEF GoodRequest
<1>1. CASE q.scheme = "file"
  BY <1>1 DEF ToFiles, Direct
<1>2. CASE /\ q.scheme = "http" /\ cleanPath(q.path) = q.path /\ (h = Nil \/ GoodRoute(h))
           /\ r = RoundTrip(h, q, p, up)
  <2>1. FilesRoute(h)
    <3>1. SUFFICES ASSUME ~FilesRoute(h) PROVE FALSE
      OBVIOUS
    <3>2. h # Nil => h.kind \in {"proxy", "redirect"}
      <4>1. SUFFICES ASSUME h # Nil PROVE h.kind \in {"proxy", "redirect"}
        OBVIOUS
      <4>2. h \in Routes
        BY <1>2, <4>1 DEF GoodRoute
      <4> HIDE DEF h
      <4>3. h.kind \in {"proxy", "redirect", "files"}
        BY <4>2 DEF Routes
      <4>4. h.kind # "files"
        BY <3>1, <4>1 DEF FilesRoute
      <4>5. QED
        BY <4>3, <4>4
    <3> HIDE DEF h, p, r
    <3>3. CASE h = Nil
      <4>1. r = NotFound
        BY <1>2, <3>3 DEF RoundTrip
      <4>2. r.code = 404
        BY <4>1, NotFoundGood
      <4>3. QED
        BY <4>2 DEF r
    <3>4. CASE h # Nil /\ h.kind = "proxy"
      <4>1. r = mainHandler(q, up)
        BY <1>2, <3>4 DEF RoundTrip
      <4>2. Proxied(r, q.path)
        BY <4>1, MainProxied
      <4>3. r.code = 200 \/ r.code = 401 \/ r.code = 404 \/ r.code = 301
        BY <4>2, Zenon DEF Proxied
      <4>4. r.code # 304
        BY <4>3
      <4>5. QED
        BY <4>4 DEF r
    <3>5. CASE h # Nil /\ h.kind = "redirect"
      <4>1. r = Redirect(q.path, h.to, h.code)
        BY <1>2, <3>5 DEF RoundTrip
      <4>2. h.to \in Refs /\ h.code \in {301, 302, 303, 307}
        BY <1>2, <3>5 DEF GoodRoute, Routes
      <4>3. r.code = h.code
        BY <1>0, <4>1, <4>2, RedirectGood
      <4>4. QED
        BY <4>2, <4>3 DEF r
    <3>6. QED
      BY <3>2, <3>3, <3>4, <3>5
  <2>2. QED
    BY <1>2, <2>1 DEF ToFiles, Direct
<1>3. QED
  BY <1>1, <1>2, AnswerCases

-----------------------------------------------------------------------------
(***************************************************************************)
(* One request after the other.  What is asked for stays what it is, and   *)
(* the redirects that are left to follow become fewer.                     *)
(***************************************************************************)
LEMMA SameRequest ==
    ASSUME NEW q, NEW n, n.scheme = q.scheme, n.path = q.path
    PROVE  /\ ToFiles(n) <=> ToFiles(q)
           /\ ToProxy(n) <=> ToProxy(q)
           /\ Direct(n) <=> Direct(q)
           /\ LocalPath(n) = LocalPath(q)
<1>1. ToFiles(n) <=> ToFiles(q)
  BY DEF ToFiles
<1>2. ToProxy(n) <=> ToProxy(q)
  BY DEF ToProxy
<1>3. Direct(n) <=> Direct(q)
  BY DEF Direct
<1>4. LocalPath(n) = LocalPath(q)
  BY DEF LocalPath
<1>5. QED
  BY <1>1, <1>2, <1>3, <1>4

LEMMA CleanRequest ==
    ASSUME NEW q, q.path \in Paths, q.scheme = "http",
           NEW n, n.scheme = q.scheme, n.path = cleanPath(q.path)
    PROVE  /\ ToFiles(n) <=> ToFiles(q)
           /\ ToProxy(n) <=> ToProxy(q)
           /\ Direct(n) /\ LocalPath(n) = LocalPath(q)
<1>1. cleanPath(n.path) = cleanPath(q.path) /\ n.path \in Paths
  BY CleanPathIs
<1>2. ToFiles(n) <=> ToFiles(q)
  BY <1>1 DEF ToFiles
<1>3. ToProxy(n) <=> ToProxy(q)
  BY <1>1 DEF ToProxy
<1>4. Direct(n)
  BY <1>1 DEF Direct
<1>5. LocalPath(n) = LocalPath(q)
  BY <1>1 DEF LocalPath
<1>6. QED
  BY <1>2, <1>3, <1>4, <1>5

\* A request for what the caller asked the file server for.
Toward(q, a) == ToFiles(q) /\ Tidy(LocalPath(q)) /\ Aim(LocalPath(q)) = a

\* A bound on the redirects that are left, while files stay.
Cost(fs, q) == IF Direct(q) THEN Rank(fs, LocalPath(q)) ELSE 4

LEMMA CostBound ==
    ASSUME NEW q
    PROVE  Cost(files, q) \in 0 .. 4 /\ (Direct(q) => Cost(files, q) = Rank(files, LocalPath(q)) /\ Cost(files, q) < 4)
<1> DEFINE p == LocalPath(q)
<1>1. Rank(files, p) \in 0 .. 3
  BY DEF Rank
<1> HIDE DEF p
<1>2. CASE Direct(q)
  <2>1. Cost(files, q) = Rank(files, p)
    BY <1>2 DEF Cost, p
  <2>2. QED
    BY <1>1, <2>1 DEF p
<1>3. CASE ~Direct(q)
  <2>1. Cost(files, q) = 4
    BY <1>3 DEF Cost
  <2>2. QED
    BY <1>3, <2>1
<1>4. QED
  BY <1>2, <1>3

\* What a redirect of request q leads to.
Follows(n, q, ref) == n.scheme = q.scheme /\ n.path = Resolve(q.path, ref)

\* The answer to a request for files: a redirect, or the page.
Paged(r, a) ==
    \/ a = Nil /\ r.page = "not found" /\ r.code = 404
    \/ a # Nil /\ r.page \in {"content", "listing"} /\ r.file = a /\ r.code \in {200, 206}
    \/ a # Nil /\ r.page \in {"not modified", "bad range"} /\ r.code \in {304, 416}

LEMMA PageIsPaged ==
    ASSUME FilesOK, NEW q, NEW p, NEW r, ToPage(r, q, p)
    PROVE  /\ Paged(r, Aim(p))
           /\ r.page \in {"content", "listing"} => r.lastmod = LastModified(files[Aim(p)].modtime)
           /\ r.code = 304 => checkLastModified(q, files[Aim(p)].modtime)
<1> DEFINE a == Aim(p)
<1>1. Nil \notin DOMAIN FirstFiles
  BY SiteAssumption
<1> HIDE DEF a
<1>2. CASE r = NotFound /\ a = Nil
  <2>1. r.page = "not found" /\ r.code = 404
    BY <1>2, NotFoundGood
  <2>2. Paged(r, a)
    BY <1>2, <2>1, Zenon DEF Paged
  <2>3. r.code # 304
    <3>1. r.code = 404
      BY <2>1
    <3>2. QED
      BY <3>1
  <2>4. r.page \notin {"content", "listing"}
    BY <2>1
  <2>5. QED
    BY <2>2, <2>3, <2>4 DEF a
<1>3. CASE /\ a \in DOMAIN FirstFiles /\ r.page \in {"content", "listing"} /\ r.code \in {200, 206}
           /\ r.file = a /\ r.lastmod = LastModified(files[a].modtime)
  <2>0. a # Nil
    BY <1>1, <1>3
  <2>1. Paged(r, a)
    BY <1>3, <2>0, Zenon DEF Paged
  <2>2. r.code \in {200, 206}
    BY <1>3, Zenon
  <2>3. r.code # 304
    BY <2>2
  <2>4. QED
    BY <1>3, <2>1, <2>3, Zenon DEF a
<1>4. CASE /\ a \in DOMAIN FirstFiles /\ r = NotModified /\ checkLastModified(q, files[a].modtime)
  <2>1. r.page = "not modified" /\ r.code = 304
    BY <1>4, NotModifiedGood
  <2>2. a # Nil
    BY <1>1, <1>4
  <2>3. r.page \in {"not modified", "bad range"} /\ r.page \notin {"content", "listing"}
    BY <2>1
  <2>4. r.code \in {304, 416}
    BY <2>1
  <2>5. Paged(r, a)
    BY <2>2, <2>3, <2>4, Zenon DEF Paged
  <2>6. QED
    BY <1>4, <2>3, <2>5, Zenon DEF a
<1>5. CASE a \in DOMAIN FirstFiles /\ BadRangeReply(r)
  <2>0. r.page = "bad range" /\ r.code = 416
    BY <1>5, Zenon DEF BadRangeReply
  <2>1. a # Nil
    BY <1>1, <1>5
  <2>2. r.page \in {"not modified", "bad range"} /\ r.page \notin {"content", "listing"}
    BY <2>0
  <2>3. r.code \in {304, 416} /\ r.code # 304
    <3>1. r.code = 416
      BY <2>0
    <3>2. QED
      BY <3>1
  <2>4. Paged(r, a)
    BY <2>1, <2>2, <2>3, Zenon DEF Paged
  <2>5. QED
    BY <2>2, <2>3, <2>4, Zenon DEF a
<1>6. QED
  BY <1>2, <1>3, <1>4, <1>5 DEF ToPage, a

\* A redirect leads toward a, and leaves fewer redirects to follow.
Leads(r, q, a) ==
    /\ r.code = 301 /\ r.location \in Refs
    /\ \A n : Follows(n, q, r.location) => Toward(n, a) /\ Cost(files, n) < Cost(files, q)

LEMMA FilesStep ==
    ASSUME OrderlySite, FilesOK, MuxInv, todo = {}, NEW q, GoodRequest(q), NEW a, Toward(q, a), NEW up
    PROVE  LET r == Answer(q, up) IN
           \/ Leads(r, q, a) /\ r.page = "redirect"
           \/ /\ Paged(r, a)
              /\ r.page \in {"content", "listing"} => r.lastmod = LastModified(files[a].modtime)
              /\ r.code = 304 => checkLastModified(q, files[a].modtime)
<1> DEFINE r == Answer(q, up)
           x == LocalPath(q)
<1>1. q.path \in Paths /\ q.scheme \in {"http", "file"}
  BY DEF GoodRequest
<1>2. ToFiles(q) /\ Tidy(x) /\ Aim(x) = a
  BY DEF Toward
<1>3. CASE /\ q.scheme = "http" /\ ~Direct(q) /\ r.code = 301 /\ r.page = "redirect"
           /\ r.location \in Refs /\ Resolve(q.path, r.location) = cleanPath(q.path)
  <2> HIDE DEF r, x
  <2>1. ASSUME NEW n, Follows(n, q, r.location) PROVE Toward(n, a) /\ Cost(files, n) < Cost(files, q)
    <3>1. n.scheme = q.scheme /\ n.path = cleanPath(q.path)
      BY <1>3, <2>1 DEF Follows
    <3>2. ToFiles(n) /\ Direct(n) /\ LocalPath(n) = x
      BY <1>1, <1>2, <1>3, <3>1, CleanRequest DEF x
    <3>3. Toward(n, a)
      BY <1>2, <3>2 DEF Toward
    <3>4. Cost(files, n) \in 0 .. 4 /\ Cost(files, n) < 4
      BY <3>2, CostBound
    <3>5. Cost(files, q) = 4
      BY <1>3 DEF Cost
    <3>6. QED
      BY <3>3, <3>4, <3>5
  <2>2. Leads(r, q, a)
    BY <1>3, <2>1 DEF Leads
  <2>3. QED
    BY <1>3, <2>2 DEF r
<1>4. CASE Direct(q) /\ x \in Paths /\ r = serveFile(files, q, x)
  <2> HIDE DEF r, x
  <2>1. ToRedirect(r, x) \/ ToPage(r, q, x)
    BY <1>4, FileOutcome
  <2>2. CASE ToPage(r, q, x)
    <3>1. /\ Paged(r, Aim(x))
          /\ r.page \in {"content", "listing"} => r.lastmod = LastModified(files[Aim(x)].modtime)
          /\ r.code = 304 => checkLastModified(q, files[Aim(x)].modtime)
      BY <2>2, PageIsPaged
    <3>2. QED
      BY <1>2, <3>1 DEF r
  <2>3. CASE ToRedirect(r, x)
    <3>1. PICK ref \in Refs, t \in Paths :
            /\ r = localRedirect(ref) /\ Led(x, ref, t)
            /\ ToDir(x, ref, t) => DirAt(files, Clean(x.segs))
            /\ ToFile(x, ref, t) => FileAt(files, Clean(x.segs))
      BY <2>3 DEF ToRedirect
    <3>2. r.location = ref /\ r.code = 301
      BY <3>1, LocalRedirectGood
    <3>3. r.page = "redirect"
      BY <3>1, LocalRedirectGood
    <3>4. Tidy(t) /\ Aim(t) = a /\ Rank(files, t) \in Nat /\ Rank(files, x) \in Nat /\ Rank(files, t) < Rank(files, x)
      BY <1>2, <1>4, <3>1, LedKeepsAim
    <3>5. ASSUME NEW n, Follows(n, q, ref) PROVE Toward(n, a) /\ Cost(files, n) < Cost(files, q)
      <4>1. n.scheme = q.scheme /\ n.path = Resolve(q.path, ref)
        BY <3>5 DEF Follows
      <4>2. Led(LocalPath(q), ref, t) /\ Tidy(LocalPath(q))
        BY <1>2, <3>1 DEF x
      <4>3. ToFiles(n) /\ Direct(n) /\ LocalPath(n) = t
        BY <1>1, <1>2, <1>4, <4>1, <4>2, LedLifts
      <4>4. Toward(n, a)
        BY <3>4, <4>3 DEF Toward
      <4>5. Cost(files, n) = Rank(files, t) /\ Cost(files, q) = Rank(files, x)
        BY <1>4, <4>3 DEF Cost, x
      <4>6. QED
        BY <3>4, <4>4, <4>5
    <3>6. Leads(r, q, a)
      BY <3>2, <3>5 DEF Leads
    <3>7. QED
      BY <3>3, <3>6 DEF r
  <2>4. QED
    BY <2>1, <2>2, <2>3
<1>5. QED
  BY <1>2, <1>3, <1>4, FilesAnswer

\* A bound on the redirects that are left on the way to a page of the proxy.
ProxyCost(q) == IF ~Direct(q) THEN 2 ELSE IF q.path = AdminPage THEN 0 ELSE 1

LEMMA AdminIsClean == AdminPage \in Paths /\ cleanPath(AdminPage) = AdminPage
<1> DEFINE s == <<"admin">>
<1>1. "admin" \in Segment /\ Ordinary("admin")
  BY SegmentAssumption DEF Ordinary
<1>2. s \in Seq(Segment) /\ Len(s) = 1 /\ s[1] = "admin"
  BY <1>1
<1>3. Plain(s) /\ s # <<>>
  BY <1>1, <1>2 DEF Plain
<1>4. AdminPage = Path(s, FALSE)
  BY DEF AdminPage
<1> HIDE DEF s
<1>5. AdminPage \in Paths /\ AdminPage.segs = s
  BY <1>2, <1>4 DEF Path, Paths
<1>6. cleanPath(AdminPage) = AdminPage
  BY <1>3, <1>5, CleanPathIs
<1>7. QED
  BY <1>5, <1>6

LEMMA AdminResolves ==
    ASSUME NEW p
    PROVE  Resolve(p, Ref(TRUE, <<"admin">>, FALSE)) = AdminPage
<1> DEFINE s == <<"admin">>
           ref == Ref(TRUE, s, FALSE)
<1>1. "admin" \in Segment /\ Ordinary("admin")
  BY SegmentAssumption DEF Ordinary
<1>2. s \in Seq(Segment) /\ Len(s) = 1 /\ s[1] = "admin"
  BY <1>1
<1>3. Plain(s) /\ s # <<>>
  BY <1>1, <1>2 DEF Plain
<1>4. ref.abs /\ ref.segs = s /\ ref.slash = FALSE
  BY DEF Ref
<1>5. AdminPage = Path(s, FALSE)
  BY DEF AdminPage
<1> HIDE DEF s
<1>6. Clean(s) = s
  BY <1>2, <1>3, PlainIsClean
<1> HIDE DEF ref
<1>7. Resolve(p, ref) = Path(Clean(s), ref.slash \/ Clean(s) = <<>>)
  BY <1>4 DEF Resolve
<1>8. (ref.slash \/ Clean(s) = <<>>) = FALSE
  BY <1>3, <1>4, <1>6
<1>9. Resolve(p, ref) = AdminPage
  BY <1>5, <1>6, <1>7, <1>8
<1>10. QED
  BY <1>9 DEF ref, s

LEMMA ProxyStep ==
    ASSUME OrderlySite, MuxInv, todo = {}, NEW q, GoodRequest(q), ToProxy(q), NEW up
    PROVE  LET r == Answer(q, up) IN
           /\ r.page \notin {"content", "listing", "error"}
           /\ \/ r.code \in {200, 401, 404}
              \/ /\ r.code = 301 /\ r.location \in Refs
                 /\ \A n : Follows(n, q, r.location) => ToProxy(n) /\ ProxyCost(n) < ProxyCost(q)
<1> DEFINE r == Answer(q, up)
<1>1. q.path \in Paths /\ q.scheme = "http"
  BY DEF GoodRequest, ToProxy
<1>2. CASE /\ ~Direct(q) /\ r.code = 301 /\ r.page = "redirect"
           /\ r.location \in Refs /\ Resolve(q.path, r.location) = cleanPath(q.path)
  <2> HIDE DEF r
  <2>1. ASSUME NEW n, Follows(n, q, r.location) PROVE ToProxy(n) /\ ProxyCost(n) < ProxyCost(q)
    <3>1. n.scheme = q.scheme /\ n.path = cleanPath(q.path)
      BY <1>2, <2>1 DEF Follows
    <3>2. ToProxy(n) /\ Direct(n)
      BY <1>1, <3>1, CleanRequest
    <3>3. ProxyCost(n) = 0 \/ ProxyCost(n) = 1
      BY <3>2 DEF ProxyCost
    <3>4. ProxyCost(q) = 2
      BY <1>2 DEF ProxyCost
    <3>5. QED
      BY <3>2, <3>3, <3>4
  <2>2. r.page = "redirect"
    BY <1>2
  <2>3. r.page \notin {"content", "listing", "error"}
    BY <2>2
  <2>4. r.code = 301 /\ r.location \in Refs
    BY <1>2
  <2>5. QED
    BY <2>1, <2>3, <2>4, Zenon DEF r
<1>3. CASE Direct(q) /\ Proxied(r, q.path)
  <2> HIDE DEF r
  <2>1. r.page \notin {"content", "listing", "error"}
    BY <1>3, Zenon DEF Proxied
  <2>2. CASE r.code \in {200, 401, 404}
    BY <2>1, <2>2, Zenon DEF r
  <2> DEFINE ref == Ref(TRUE, <<"admin">>, FALSE)
  <2>a. ref \in Refs
    <3>1. "admin" \in Segment
      BY SegmentAssumption
    <3>2. <<"admin">> \in Seq(Segment)
      BY <3>1
    <3>3. QED
      BY <3>2, RefTyped
  <2>b. Resolve(q.path, ref) = AdminPage
    BY AdminResolves
  <2> HIDE DEF ref
  <2>3. CASE r.code = 301 /\ r.location = ref /\ q.path # AdminPage
    <3>1. r.location \in Refs
      BY <2>3, <2>a
    <3>2. ASSUME NEW n, Follows(n, q, r.location) PROVE ToProxy(n) /\ ProxyCost(n) < ProxyCost(q)
      <4>1. n.scheme = "http" /\ n.path = AdminPage
        BY <1>1, <2>3, <2>b, <3>2 DEF Follows
      <4>2. cleanPath(n.path) = n.path /\ Direct(n)
        BY <4>1, AdminIsClean DEF Direct
      <4>3. ToProxy([scheme |-> "http", path |-> AdminPage])
        BY DEF OrderlySite, AdminPage
      <4>4. ToProxy(n)
        BY <4>1, <4>3, SameRequest
      <4>5. ProxyCost(n) = 0
        BY <4>1, <4>2 DEF ProxyCost
      <4>6. ProxyCost(q) = 1
        BY <1>3, <2>3 DEF ProxyCost
      <4>7. QED
        BY <4>4, <4>5, <4>6
    <3>3. r.code = 301
      BY <2>3
    <3>4. QED
      BY <2>1, <3>1, <3>2, <3>3, Zenon DEF r
  <2>4. QED
    BY <1>3, <2>2, <2>3, Zenon DEF Proxied, ref
<1>4. QED
  BY <1>2, <1>3, ProxyAnswer

-----------------------------------------------------------------------------
(***************************************************************************)
(* The caller on its way: from the request to the reply it is left with.   *)
(***************************************************************************)
Wanted(ask) == Aim(LocalPath(ask))

\* Four redirects at most lead to a file that stays as it is.
FilesInv ==
    client.at # "idle" /\ ToFiles(client.ask) =>
      /\ client.at = "send" =>
           /\ Toward(client.req, Wanted(client.ask))
           /\ client.steady => client.via + Cost(files, client.req) <= 4
      /\ client.at = "reply" =>
           \/ Paged(client.reply, Wanted(client.ask))
           \/ /\ client.reply.code = 301 /\ client.reply.location \in Refs
              /\ \A n : Follows(n, client.req, client.reply.location) =>
                   /\ Toward(n, Wanted(client.ask))
                   /\ client.steady => client.via + Cost(files, n) < 4
      /\ client.at = "body" => Paged(client.reply, Wanted(client.ask))
      /\ client.at = "done" =>
           \/ Paged(client.reply, Wanted(client.ask))
           \/ client.reply.page = "error" /\ client.reply.lastmod = Nil /\ ~client.steady

\* Two redirects at most lead to a page of the proxy.
ProxyInv ==
    client.at # "idle" /\ ToProxy(client.ask) =>
      /\ client.at = "send" => ToProxy(client.req) /\ client.via + ProxyCost(client.req) <= 2
      /\ client.at \in {"reply", "body", "done"} =>
           client.reply.page \notin {"content", "listing", "error"}
      /\ client.at = "reply" =>
           \/ client.reply.code \in {200, 401, 404}
           \/ /\ client.reply.code = 301 /\ client.reply.location \in Refs
              /\ \A n : Follows(n, client.req, client.reply.location) =>
                   ToProxy(n) /\ client.via + ProxyCost(n) < 2

\* Files become younger, never older: what a copy says of its date stays a lower bound.
DatedBy(lastmod, a) == a \in DOMAIN FirstFiles /\ 2 * lastmod <= files[a].modtime

DateInv ==
    client.at \in {"reply", "body", "done"} /\ ToFiles(client.ask) /\ client.reply.lastmod # Nil
    /\ client.reply.page \in {"content", "listing"} =>
      client.reply.file = Wanted(client.ask) /\ DatedBy(client.reply.lastmod, Wanted(client.ask))

CopiedInv ==
    client.copied # Nil /\ ToFiles(client.copied.ask) =>
      /\ client.copied.file = Wanted(client.copied.ask)
      /\ DatedBy(client.copied.lastmod, Wanted(client.copied.ask))

\* Only the first request of a Get is conditional, and the file server is the only one
\* to answer the condition.
SinceInv ==
    client.at = "send" /\ client.req.since # Nil =>
      /\ client.copied # Nil /\ client.copied.ask = client.ask
      /\ client.req.since = client.copied.lastmod
      /\ client.req.path = client.ask.path /\ client.req.scheme = client.ask.scheme

UnmodifiedInv ==
    client.at \in {"reply", "body", "done"} /\ client.reply.code = 304 =>
      /\ ToFiles(client.ask) /\ client.copied # Nil /\ client.copied.ask = client.ask
      /\ client.steady =>
           files[Wanted(client.ask)].modtime < 2 * client.copied.lastmod + 2

WayInv == FilesInv /\ ProxyInv /\ DateInv /\ CopiedInv /\ SinceInv /\ UnmodifiedInv

LEMMA WayInit == Init => WayInv
<1> SUFFICES ASSUME Init PROVE WayInv
  OBVIOUS
<1>1. client.at = "idle"
  BY DEF Init
<1>2. client.copied = Nil
  BY DEF Init
<1>3. QED
  BY <1>1, <1>2 DEF WayInv, FilesInv, ProxyInv, DateInv, CopiedInv, SinceInv, UnmodifiedInv

LEMMA WayFrame ==
    ASSUME WayInv, UNCHANGED <<client, files>>
    PROVE  WayInv'
BY DEF WayInv, FilesInv, ProxyInv, DateInv, CopiedInv, SinceInv, UnmodifiedInv, DatedBy

\* A file that changes leaves the caller without a claim to what it asked for.
LEMMA WayChanged ==
    ASSUME SiteInv, WayInv, Changed,
           \A n \in DOMAIN FirstFiles : files[n].modtime \in Nat /\ files'[n].modtime \in Nat
                                        /\ files'[n].modtime >= files[n].modtime
    PROVE  WayInv'
<1>0. DOMAIN client = ClientFields
  BY DEF SiteInv, ClientOK
<1>1. /\ client'.at = client.at /\ client'.ask = client.ask /\ client'.req = client.req
      /\ client'.reply = client.reply /\ client'.copied = client.copied
  BY <1>0 DEF ClientFields, Changed
<1>2. client'.steady = FALSE /\ client'.via = client.via
  BY <1>0 DEF ClientFields, Changed
<1>3. FilesInv'
  BY <1>1, <1>2 DEF WayInv, FilesInv
<1>4. ProxyInv'
  BY <1>1, <1>2 DEF WayInv, ProxyInv
<1>5. SinceInv'
  BY <1>1 DEF WayInv, SinceInv
<1>6. UnmodifiedInv'
  BY <1>1, <1>2 DEF WayInv, UnmodifiedInv
<1>7. ASSUME NEW m \in Nat, NEW a, DatedBy(m, a) PROVE DatedBy(m, a)'
  <2>1. a \in DOMAIN FirstFiles /\ 2 * m <= files[a].modtime
    BY <1>7 DEF DatedBy
  <2>2. files[a].modtime \in Nat /\ files'[a].modtime \in Nat /\ files'[a].modtime >= files[a].modtime
    BY <2>1
  <2>3. 2 * m <= files'[a].modtime
    BY <2>1, <2>2
  <2>4. QED
    BY <2>1, <2>3 DEF DatedBy
<1>8. DateInv'
  <2>1. SUFFICES ASSUME client.at \in {"reply", "body", "done"}, ToFiles(client.ask),
                        client.reply.lastmod # Nil, client.reply.page \in {"content", "listing"}
                 PROVE  /\ client.reply.file = Wanted(client.ask)
                        /\ DatedBy(client.reply.lastmod, Wanted(client.ask))'
    BY <1>1 DEF DateInv, DatedBy
  <2>2. client.reply.lastmod \in Nat
    BY <2>1 DEF SiteInv, ClientOK, GoodReply
  <2>3. client.reply.file = Wanted(client.ask) /\ DatedBy(client.reply.lastmod, Wanted(client.ask))
    BY <2>1 DEF WayInv, DateInv
  <2>4. DatedBy(client.reply.lastmod, Wanted(client.ask))'
    BY <1>1, <1>7, <2>2, <2>3
  <2>5. QED
    BY <2>3, <2>4
<1>9. CopiedInv'
  <2>1. SUFFICES ASSUME client.copied # Nil, ToFiles(client.copied.ask)
                 PROVE  /\ client.copied.file = Wanted(client.copied.ask)
                        /\ DatedBy(client.copied.lastmod, Wanted(client.copied.ask))'
    BY <1>1 DEF CopiedInv, DatedBy
  <2>2. client.copied.lastmod \in Nat
    BY <2>1 DEF SiteInv, ClientOK
  <2>3. client.copied.file = Wanted(client.copied.ask)
        /\ DatedBy(client.copied.lastmod, Wanted(client.copied.ask))
    BY <2>1 DEF WayInv, CopiedInv
  <2>4. QED
    BY <1>1, <1>7, <2>2, <2>3
<1>10. QED
  BY <1>3, <1>4, <1>5, <1>6, <1>8, <1>9 DEF WayInv

LEMMA AskTidy ==
    ASSUME OrderlySite, NEW ask \in Gets, ToFiles(ask)
    PROVE  Tidy(LocalPath(ask))
<1>1. ask.path \in Paths /\ ask.scheme \in {"http", "file"}
  BY SiteAssumption
<1>2. CASE ask.scheme = "file"
  <2>1. LocalPath(ask) = ask.path
    BY <1>2 DEF LocalPath
  <2>2. ask.path.slash /\ ask.path.segs # <<>> => Last(ask.path.segs) \notin {"", ".", ".."}
    BY <1>2 DEF OrderlySite
  <2>3. QED
    BY <2>1, <2>2 DEF Tidy, Ordinary
<1>3. CASE ask.scheme # "file"
  <2>1. LocalPath(ask) \in Paths /\ Plain(LocalPath(ask).segs)
    BY <1>1, <1>3, FilesLocal
  <2>2. LocalPath(ask).segs \in Seq(Segment)
    BY <2>1 DEF Paths
  <2>3. LocalPath(ask).segs # <<>> => Ordinary(Last(LocalPath(ask).segs))
    BY <2>1, <2>2, PlainParts
  <2>4. QED
    BY <2>3 DEF Tidy
<1>4. QED
  BY <1>2, <1>3

LEMMA WayStart ==
    ASSUME OrderlySite, SiteInv, WayInv, NEW ask \in Gets, StartGet(ask)
    PROVE  WayInv'
<1>1. PICK q \in Conditional(ask) :
        client' = [client EXCEPT !.at = "send", !.num = @ + 1, !.ask = ask, !.req = q,
                                 !.via = 0, !.reply = Nil, !.steady = TRUE, !.closed = FALSE]
  BY DEF StartGet
<1>2. DOMAIN client = ClientFields /\ ClientOK
  BY DEF SiteInv, ClientOK
<1>3. client'.at = "send" /\ client'.ask = ask /\ client'.req = q /\ client'.copied = client.copied
  BY <1>1, <1>2 DEF ClientFields
<1>4. client'.via = 0
  BY <1>1, <1>2 DEF ClientFields
<1>5. files' = files
  BY DEF StartGet
<1>6. /\ q.path = ask.path /\ q.scheme = ask.scheme
      /\ q.since # Nil => client.copied # Nil /\ client.copied.ask = ask
                          /\ q.since = client.copied.lastmod
  BY <1>2, ConditionalGood
<1>7. /\ ToFiles(q) <=> ToFiles(ask)
      /\ ToProxy(q) <=> ToProxy(ask)
      /\ LocalPath(q) = LocalPath(ask)
  BY <1>6, SameRequest
<1>8. FilesInv'
  <2>1. ASSUME ToFiles(ask) PROVE Toward(q, Wanted(ask))
    BY <1>7, <2>1, AskTidy DEF Toward, Wanted
  <2>2. Cost(files, q) \in 0 .. 4
    BY CostBound
  <2>3. client'.via + Cost(files, q) <= 4
    BY <1>4, <2>2
  <2>4. QED
    BY <1>3, <1>5, <2>1, <2>3 DEF FilesInv
<1>9. ProxyInv'
  <2>1. ProxyCost(q) \in 0 .. 2
    BY DEF ProxyCost
  <2>2. client'.via + ProxyCost(q) <= 2
    BY <1>4, <2>1
  <2>3. QED
    BY <1>3, <1>7, <2>2 DEF ProxyInv
<1>10. DateInv' /\ UnmodifiedInv'
  BY <1>3 DEF DateInv, UnmodifiedInv
<1>11. CopiedInv'
  BY <1>3, <1>5 DEF WayInv, CopiedInv, DatedBy
<1>12. SinceInv'
  BY <1>3, <1>6 DEF SinceInv
<1>13. QED
  BY <1>8, <1>9, <1>10, <1>11, <1>12 DEF WayInv

\* What a 304 says: the file was there, and not younger than the date of the request.
LEMMA NotModifiedMeans ==
    ASSUME OrderlySite, FilesOK, MuxInv, todo = {}, NEW q, GoodRequest(q), NEW up,
           Answer(q, up).code = 304
    PROVE  ToFiles(q) /\ checkLastModified(q, files[Wanted(q)].modtime)
<1> DEFINE r == Answer(q, up)
           x == LocalPath(q)
<1>1. ToFiles(q) /\ Direct(q)
  BY NotModifiedFrom
<1>2. x \in Paths /\ r = serveFile(files, q, x)
  BY <1>1, FilesAnswer
<1>3. r.code = 304
  OBVIOUS
<1> HIDE DEF r, x
<1>4. ~ToRedirect(r, x)
  <2>1. \A ref \in Refs : localRedirect(ref).code = 301
    BY LocalRedirectGood
  <2>2. ASSUME NEW ref \in Refs, r = localRedirect(ref) PROVE FALSE
    BY <1>3, <2>1, <2>2
  <2>3. QED
    BY <2>2 DEF ToRedirect
<1>5. ToPage(r, q, x)
  BY <1>2, <1>4, FileOutcome
<1>6. checkLastModified(q, files[Aim(x)].modtime)
  BY <1>3, <1>5, PageIsPaged
<1>7. QED
  BY <1>1, <1>6 DEF Wanted, x

LEMMA WaySend ==
    ASSUME OrderlySite, SiteInv, WayInv, NEW up, Send(up)
    PROVE  WayInv'
<1> DEFINE q == client.req
           r == Answer(q, up)
           a == Wanted(client.ask)
<1>1. GoodReply(r) /\ Handed(r) /\ client.at = "send"
  BY SendIs, AnswerGood DEF Handed
<1>2. MuxInv /\ FilesOK /\ todo = {} /\ GoodRequest(q) /\ ClientOK
  BY <1>1 DEF SiteInv, ClientOK
<1>3. ToFiles(client.ask) =>
        \/ Leads(r, q, a) /\ r.page = "redirect"
        \/ /\ Paged(r, a)
           /\ r.page \in {"content", "listing"} => r.lastmod = LastModified(files[a].modtime)
  <2>1. ToFiles(client.ask) => Toward(q, a)
    BY <1>1 DEF WayInv, FilesInv
  <2> HIDE DEF a, q
  <2>2. QED
    BY <1>2, <2>1, FilesStep
<1>4. ToProxy(client.ask) =>
           /\ r.page \notin {"content", "listing", "error"}
           /\ \/ r.code \in {200, 401, 404}
              \/ /\ r.code = 301 /\ r.location \in Refs
                 /\ \A n : Follows(n, q, r.location) => ToProxy(n) /\ ProxyCost(n) < ProxyCost(q)
  <2>1. ToProxy(client.ask) => ToProxy(q)
    BY <1>1 DEF WayInv, ProxyInv
  <2> HIDE DEF q
  <2>2. QED
    BY <1>2, <2>1, ProxyStep
<1>5. r.code = 304 => ToFiles(q) /\ checkLastModified(q, files[Wanted(q)].modtime)
  BY <1>2, NotModifiedMeans
<1> HIDE DEF r
<1>6. /\ client'.at = (IF Copying(r) THEN "body" ELSE "reply") /\ client'.reply = r
      /\ client'.ask = client.ask /\ client'.req = q
      /\ client'.via = client.via /\ client'.copied = client.copied
      /\ client'.steady = client.steady
  BY <1>1, HandedKeeps
<1>7. client'.at \in {"reply", "body"} /\ (client'.at = "body" <=> r.page = "content")
  BY <1>6 DEF Copying
<1>8. files' = files /\ client.via \in 0 .. RedirectLimit - 1
  BY <1>1, <1>2 DEF Handed, ClientOK
<1> HIDE DEF a
<1>9. FilesInv'
  <2>1. SUFFICES ASSUME ToFiles(client.ask)
                 PROVE  \/ Paged(r, a)
                        \/ /\ client'.at = "reply" /\ r.code = 301 /\ r.location \in Refs
                           /\ \A n : Follows(n, q, r.location) =>
                                Toward(n, a) /\ (client.steady => client.via + Cost(files, n) < 4)
    <3>1. a = Wanted(client'.ask)
      BY <1>6 DEF a
    <3> HIDE DEF q
    <3>2. QED
      BY <1>6, <1>7, <1>8, <3>1 DEF FilesInv
  <2>2. CASE Leads(r, q, a) /\ r.page = "redirect"
    <3>1. client'.at = "reply"
      <4>1. r.page # "content"
        BY <2>2
      <4>2. QED
        BY <1>7, <4>1
    <3>2. client.steady => client.via + Cost(files, q) <= 4
      BY <1>1, <2>1 DEF WayInv, FilesInv
    <3> HIDE DEF q
    <3>3. ASSUME NEW n, Follows(n, q, r.location)
          PROVE  Toward(n, a) /\ (client.steady => client.via + Cost(files, n) < 4)
      <4>1. Toward(n, a) /\ Cost(files, n) < Cost(files, q)
        BY <2>2, <3>3 DEF Leads
      <4>2. Cost(files, n) \in 0 .. 4 /\ Cost(files, q) \in 0 .. 4
        BY CostBound
      <4>3. client.via \in Nat
        BY <1>8 DEF RedirectLimit
      <4>4. QED
        BY <3>2, <4>1, <4>2, <4>3
    <3>4. r.code = 301 /\ r.location \in Refs
      BY <2>2 DEF Leads
    <3>5. QED
      BY <3>1, <3>3, <3>4
  <2>3. QED
    BY <1>3, <2>1, <2>2
<1>10. ProxyInv'
  <2>1. SUFFICES ASSUME ToProxy(client.ask)
                 PROVE  /\ r.page \notin {"content", "listing", "error"}
                        /\ \/ r.code \in {200, 401, 404}
                           \/ /\ r.code = 301 /\ r.location \in Refs
                              /\ \A n : Follows(n, q, r.location) =>
                                   ToProxy(n) /\ client.via + ProxyCost(n) < 2
    <3> HIDE DEF q
    <3>1. QED
      BY <1>6, <1>7 DEF ProxyInv
  <2>2. client.via + ProxyCost(q) <= 2
    BY <1>1, <2>1 DEF WayInv, ProxyInv
  <2> HIDE DEF q
  <2>3. ASSUME NEW n, ProxyCost(n) < ProxyCost(q) PROVE client.via + ProxyCost(n) < 2
    <3>1. ProxyCost(n) \in Nat /\ ProxyCost(q) \in Nat
      BY DEF ProxyCost
    <3>2. client.via \in Nat
      BY <1>8 DEF RedirectLimit
    <3>3. QED
      BY <2>2, <2>3, <3>1, <3>2
  <2>4. QED
    BY <1>4, <2>1, <2>3
<1>11. DateInv'
  <2>1. SUFFICES ASSUME ToFiles(client.ask), r.lastmod # Nil, r.page \in {"content", "listing"}
                 PROVE  r.file = a /\ DatedBy(r.lastmod, a)
    <3>1. a = Wanted(client'.ask)
      BY <1>6 DEF a
    <3>2. QED
      BY <1>6, <1>8, <3>1 DEF DateInv, DatedBy
  <2>2. Paged(r, a) /\ r.lastmod = LastModified(files[a].modtime)
    <3>1. r.page # "redirect"
      BY <2>1
    <3>2. QED
      BY <1>3, <2>1, <3>1
  <2>3. a # Nil /\ r.file = a
    <3>1. r.page \notin {"not found", "not modified", "bad range"}
      BY <2>1
    <3>2. QED
      BY <2>2, <3>1, Zenon DEF Paged
  <2>4. a \in DOMAIN FirstFiles
    BY <1>2, <2>3, AimThere DEF a, Wanted
  <2>5. files[a] \in Stats
    BY <1>2, <2>4 DEF FilesOK
  <2>6. files[a].modtime \in Nat
    BY <2>5 DEF Stats
  <2>7. r.lastmod = files[a].modtime \div 2
    BY <2>1, <2>2 DEF LastModified
  <2>8. 2 * r.lastmod <= files[a].modtime
    BY <2>6, <2>7
  <2>9. QED
    BY <2>3, <2>4, <2>8 DEF DatedBy
<1>12. CopiedInv'
  BY <1>6, <1>8 DEF WayInv, CopiedInv, DatedBy
<1>13. SinceInv'
  BY <1>7 DEF SinceInv
<1>14. UnmodifiedInv'
  <2>1. SUFFICES ASSUME r.code = 304
                 PROVE  /\ ToFiles(client.ask) /\ client.copied # Nil
                        /\ client.copied.ask = client.ask
                        /\ files[a].modtime < 2 * client.copied.lastmod + 2
    <3>1. a = Wanted(client'.ask)
      BY <1>6 DEF a
    <3>2. QED
      BY <1>6, <1>8, <3>1 DEF UnmodifiedInv
  <2>2. /\ ToFiles(q) /\ q.since # Nil
        /\ files[Wanted(q)].modtime < 2 * q.since + 2
    BY <1>5, <2>1 DEF checkLastModified
  <2>3. /\ client.copied # Nil /\ client.copied.ask = client.ask /\ q.since = client.copied.lastmod
        /\ q.path = client.ask.path /\ q.scheme = client.ask.scheme
    BY <1>1, <2>2 DEF WayInv, SinceInv
  <2>4. ToFiles(client.ask) /\ LocalPath(q) = LocalPath(client.ask)
    BY <2>2, <2>3, SameRequest
  <2>5. Wanted(q) = a
    BY <2>4 DEF Wanted, a
  <2> HIDE DEF q
  <2>6. QED
    BY <2>2, <2>3, <2>4, <2>5
<1>15. QED
  BY <1>9, <1>10, <1>11, <1>12, <1>13, <1>14 DEF WayInv

LEMMA PagedStays ==
    ASSUME NEW r, NEW a, Paged(r, a)
    PROVE  r.code # 301 /\ ~shouldRedirect(r.code)
<1>1. r.code \in {404, 200, 206, 304, 416}
  <2>1. r.code = 404 \/ r.code \in {200, 206} \/ r.code \in {304, 416}
    BY Zenon DEF Paged
  <2>2. QED
    BY <2>1
<1>2. QED
  BY <1>1 DEF shouldRedirect

\* What a redirect leads to, as a request.
LEMMA FollowsIs ==
    ASSUME NEW q, NEW ref
    PROVE  \E n : Follows(n, q, ref)
<1> DEFINE n == [scheme |-> q.scheme, path |-> Resolve(q.path, ref)]
<1>1. n.scheme = q.scheme /\ n.path = Resolve(q.path, ref)
  OBVIOUS
<1> HIDE DEF n
<1>2. Follows(n, q, ref)
  BY <1>1 DEF Follows
<1>3. QED
  BY <1>2

LEMMA WayFollow ==
    ASSUME OrderlySite, SiteInv, WayInv, Follow
    PROVE  WayInv'
<1> DEFINE n == client'.req
           q == client.req
           a == Wanted(client.ask)
<1>1. /\ client'.at = "send" /\ client'.ask = client.ask
      /\ client'.via = client.via + 1
      /\ client'.copied = client.copied /\ client'.steady = client.steady
      /\ n.since = Nil /\ Follows(n, q, client.reply.location)
  BY FollowKeeps DEF Follows
<1>2. client.at = "reply" /\ shouldRedirect(client.reply.code) /\ files' = files
  BY DEF Follow
<1>3. client.via \in Nat
  BY DEF SiteInv, ClientOK, RedirectLimit
<1> HIDE DEF n, q
<1>4. FilesInv'
  <2>1. SUFFICES ASSUME ToFiles(client.ask)
                 PROVE  Toward(n, a) /\ (client.steady => client.via + 1 + Cost(files, n) <= 4)
    <3>1. Wanted(client'.ask) = a
      BY <1>1
    <3> HIDE DEF a
    <3>2. QED
      BY <1>1, <1>2, <3>1 DEF FilesInv, n
  <2>2. ~Paged(client.reply, a)
    BY <1>2, PagedStays
  <2>3. Toward(n, a) /\ (client.steady => client.via + Cost(files, n) < 4)
    BY <1>1, <1>2, <2>1, <2>2 DEF WayInv, FilesInv, q
  <2>4. Cost(files, n) \in Nat
    BY CostBound
  <2>5. QED
    BY <1>3, <2>3, <2>4
<1>5. ProxyInv'
  <2>1. SUFFICES ASSUME ToProxy(client.ask)
                 PROVE  ToProxy(n) /\ client.via + 1 + ProxyCost(n) <= 2
    BY <1>1 DEF ProxyInv, n
  <2>2. client.reply.code \notin {200, 401, 404}
    BY <1>2 DEF shouldRedirect
  <2>3. ToProxy(n) /\ client.via + ProxyCost(n) < 2
    BY <1>1, <1>2, <2>1, <2>2 DEF WayInv, ProxyInv, q
  <2>4. ProxyCost(n) \in Nat
    BY DEF ProxyCost
  <2>5. QED
    BY <1>3, <2>3, <2>4
<1>6. DateInv' /\ UnmodifiedInv'
  BY <1>1 DEF DateInv, UnmodifiedInv
<1>7. CopiedInv'
  BY <1>1, <1>2 DEF WayInv, CopiedInv, DatedBy
<1>8. SinceInv'
  BY <1>1 DEF SinceInv, n
<1>9. QED
  BY <1>4, <1>5, <1>6, <1>7, <1>8 DEF WayInv

\* The Get is over with the reply it has, or with an error, which is what the limit on
\* redirects and the lack of a Location come to, and neither of them happens on the way
\* to a page of the proxy or to files that stay.
LEMMA WayEnds ==
    ASSUME SiteInv, WayInv, NEW r, NEW closed, EndStep(r, closed),
           \/ /\ r = client.reply
              /\ client.at = "body" \/ ~shouldRedirect(client.reply.code)
           \/ /\ r = Reply(0, "error", Nil) /\ GiveUp
    PROVE  WayInv'
<1> DEFINE a == Wanted(client.ask)
           q == client.req
<1>1. /\ client'.at = "done" /\ client'.ask = client.ask
      /\ client'.via = client.via /\ client'.reply = r
      /\ client'.copied = client.copied /\ client'.steady = client.steady
  BY EndsKeep DEF EndStep
<1>2. client.at \in {"reply", "body"} /\ files' = files
  BY DEF EndStep, CallerFrame
<1>3. client.via \in Nat
  BY DEF SiteInv, ClientOK, RedirectLimit
<1>4. Wanted(client'.ask) = a
  BY <1>1
<1> HIDE DEF a
<1>5. CopiedInv' /\ SinceInv'
  BY <1>1, <1>2 DEF WayInv, CopiedInv, SinceInv, DatedBy
<1>6. CASE /\ r = client.reply
           /\ client.at = "body" \/ ~shouldRedirect(client.reply.code)
  <2>1. r.code = 301 => client.at = "body"
    BY <1>6 DEF shouldRedirect
  <2>2. FilesInv'
    <3>1. ToFiles(client.ask) => Paged(r, a)
      BY <1>2, <1>6, <2>1 DEF WayInv, FilesInv, a
    <3>2. QED
      BY <1>1, <1>4, <3>1 DEF FilesInv
  <2>3. ProxyInv'
    BY <1>1, <1>2, <1>6 DEF WayInv, ProxyInv
  <2>4. DateInv'
    BY <1>1, <1>2, <1>4, <1>6 DEF WayInv, DateInv, DatedBy, a
  <2>5. UnmodifiedInv'
    BY <1>1, <1>2, <1>4, <1>6 DEF WayInv, UnmodifiedInv, a
  <2>6. QED
    BY <1>5, <2>2, <2>3, <2>4, <2>5 DEF WayInv
<1>7. CASE r = Reply(0, "error", Nil) /\ GiveUp
  <2>1. /\ client.at = "reply" /\ shouldRedirect(client.reply.code)
        /\ client.reply.location = Nil \/ client.via + 1 >= 10
    BY <1>3, <1>7 DEF GiveUp, defaultCheckRedirect, RedirectLimit
  <2>2. r.page = "error" /\ r.lastmod = Nil
    BY <1>7 DEF Reply
  <2>3. r.code = 0
    BY <1>7 DEF Reply
  <2>4. PICK n : Follows(n, q, client.reply.location)
    BY FollowsIs
  <2>5. ToFiles(client.ask) => ~client.steady
    <3>1. SUFFICES ASSUME ToFiles(client.ask), client.steady PROVE FALSE
      OBVIOUS
    <3>2. ~Paged(client.reply, a)
      BY <2>1, PagedStays
    <3>3. client.reply.location \in Refs /\ client.via + Cost(files, n) < 4
      BY <2>1, <2>4, <3>1, <3>2 DEF WayInv, FilesInv, a
    <3>4. Cost(files, n) \in Nat
      BY CostBound
    <3>5. client.reply.location # Nil
      BY <3>3, NilApart
    <3>6. QED
      BY <1>3, <2>1, <3>3, <3>4, <3>5
  <2>6. ~ToProxy(client.ask)
    <3>1. SUFFICES ASSUME ToProxy(client.ask) PROVE FALSE
      OBVIOUS
    <3>2. client.reply.code \notin {200, 401, 404}
      BY <2>1 DEF shouldRedirect
    <3>3. client.reply.location \in Refs /\ client.via + ProxyCost(n) < 2
      BY <2>1, <2>4, <3>1, <3>2 DEF WayInv, ProxyInv
    <3>4. ProxyCost(n) \in Nat
      BY DEF ProxyCost
    <3>5. client.reply.location # Nil
      BY <3>3, NilApart
    <3>6. QED
      BY <1>3, <2>1, <3>3, <3>4, <3>5
  <2>7. FilesInv'
    BY <1>1, <2>2, <2>5 DEF FilesInv
  <2>8. ProxyInv'
    BY <1>1, <2>6 DEF ProxyInv
  <2>9. DateInv'
    BY <1>1, <2>2 DEF DateInv
  <2>10. UnmodifiedInv'
    <3>1. r.code # 304
      BY <2>3
    <3>2. QED
      BY <1>1, <3>1 DEF UnmodifiedInv
  <2>11. QED
    BY <1>5, <2>7, <2>8, <2>9, <2>10 DEF WayInv
<1>8. QED
  BY <1>6, <1>7

LEMMA WayKeep ==
    ASSUME SiteInv, WayInv, Keep
    PROVE  WayInv'
<1> DEFINE r == client.reply
           a == Wanted(client.ask)
           copied == [ask |-> client.ask, lastmod |-> client.reply.lastmod,
                      file |-> client.reply.file, modtime |-> files[client.reply.file].modtime]
<1>1. DOMAIN client = ClientFields /\ client.at = "done" /\ files' = files
  BY DEF SiteInv, ClientOK, Keep
<1>2. client'.at = "idle"
  BY <1>1 DEF Keep, ClientFields
<1>3. \/ client'.copied = client.copied
      \/ client'.copied = copied /\ r.lastmod # Nil /\ r.code = 200
  BY <1>1 DEF Keep, ClientFields
<1>4. copied.ask = client.ask /\ copied.lastmod = r.lastmod /\ copied.file = r.file
  OBVIOUS
<1> HIDE DEF copied, r
<1>5. CopiedInv'
  <2>1. CASE client'.copied = client.copied
    BY <1>1, <2>1 DEF WayInv, CopiedInv, DatedBy
  <2>2. CASE client'.copied = copied /\ r.lastmod # Nil /\ r.code = 200
    <3>1. ASSUME ToFiles(client.ask) PROVE r.file = a /\ DatedBy(r.lastmod, a)
      <4>1. Paged(r, a)
        BY <1>1, <2>2, <3>1 DEF WayInv, FilesInv, r
      <4>2. r.page \in {"content", "listing"}
        <5>1. r.code = 200
          BY <2>2
        <5>2. r.code # 404 /\ r.code \notin {304, 416}
          BY <5>1
        <5>3. QED
          BY <4>1, <5>2, Zenon DEF Paged
      <4>3. QED
        BY <1>1, <2>2, <3>1, <4>2 DEF WayInv, DateInv, r
    <3>2. QED
      BY <1>1, <1>4, <2>2, <3>1 DEF CopiedInv, DatedBy
  <2>3. QED
    BY <1>3, <2>1, <2>2
<1>6. QED
  BY <1>2, <1>5 DEF WayInv, FilesInv, ProxyInv, DateInv, SinceInv, UnmodifiedInv

LEMMA WayNext ==
    ASSUME OrderlySite, SiteInv, WayInv, [Next]_vars
    PROVE  WayInv'
<1>1. CASE UNCHANGED vars
  BY <1>1, WayFrame DEF vars
<1>2. CASE \E pattern \in todo : Register(pattern)
  BY <1>2, WayFrame DEF Register
<1>3. ASSUME NEW ask \in Gets, StartGet(ask) PROVE WayInv'
  BY <1>3, WayStart
<1>4. ASSUME NEW up, Send(up) PROVE WayInv'
  BY <1>4, WaySend
<1>5. CASE Follow
  BY <1>5, WayFollow
<1>6. CASE GiveUp
  BY <1>6, EndSteps, WayEnds
<1>7. CASE Got
  BY <1>7, EndSteps, WayEnds DEF Got
<1>8. CASE BodyEnds
  BY <1>8, EndSteps, WayEnds
<1>9. CASE CloseBody
  BY <1>9, EndSteps, WayEnds
<1>10. CASE Keep
  BY <1>10, WayKeep
<1>11. ASSUME NEW g \in 1 .. MaxGets, Serve(g) \/ PartFails(g) PROVE WayInv'
  BY <1>11, WayFrame DEF Serve, CopyByte, CopyEnds, WritePart, PartFails
<1>12. FilesOK /\ Sizes \subseteq Nat
  BY SiteAssumption DEF SiteInv
<1>13. \A n \in DOMAIN FirstFiles : files[n].modtime \in Nat
  <2>1. \A n \in DOMAIN FirstFiles : files[n] \in Stats
    BY <1>12 DEF FilesOK
  <2>2. QED
    BY <2>1 DEF Stats
<1>14. ASSUME NEW name \in DOMAIN files, Swap(name) PROVE WayInv'
  <2>1. \A n \in DOMAIN FirstFiles :
          files'[n].modtime = IF n = name THEN files[n].modtime + 2 ELSE files[n].modtime
    BY <1>12, <1>14, SwapFiles
  <2>2. \A n \in DOMAIN FirstFiles : files[n].modtime \in Nat /\ files'[n].modtime \in Nat
                                     /\ files'[n].modtime >= files[n].modtime
    BY <1>13, <2>1
  <2>3. QED
    BY <1>14, <2>2, WayChanged DEF Swap
<1>15. ASSUME NEW name \in DOMAIN files, NEW s \in Sizes, NEW l \in {1, 2}, Rewrite(name, s, l)
       PROVE  WayInv'
  <2>0. s \in Nat /\ l \in Nat
    BY <1>12
  <2>1. \A n \in DOMAIN FirstFiles :
          files'[n].modtime = IF n = name THEN files[n].modtime + l ELSE files[n].modtime
    BY <1>12, <1>15, <2>0, RewriteFiles
  <2>2. \A n \in DOMAIN FirstFiles : files[n].modtime \in Nat /\ files'[n].modtime \in Nat
                                     /\ files'[n].modtime >= files[n].modtime
    BY <1>13, <2>0, <2>1
  <2>3. QED
    BY <1>15, <2>2, WayChanged DEF Rewrite
<1>16. QED
  BY <1>1, <1>2, <1>3, <1>4, <1>5, <1>6, <1>7, <1>8, <1>9, <1>10, <1>11, <1>14, <1>15 DEF Next, Get

LEMMA WayAlways == OrderlySite => (Spec => [](SiteInv /\ WayInv))
<1> SUFFICES ASSUME OrderlySite PROVE Spec => [](SiteInv /\ WayInv)
  OBVIOUS
<1>1. Init => SiteInv /\ WayInv
  BY SiteInit, WayInit
<1>2. SiteInv /\ WayInv /\ [Next]_vars => (SiteInv /\ WayInv)'
  BY SiteNext, WayNext
<1>3. QED
  BY <1>1, <1>2, PTL DEF Spec

\* While files stay, whatever a caller asks the file server for and however it spells
\* it, the redirects of serveFile and of ServeMux lead to the file or the directory
\* that the path denotes, or to "not found" if there is none, before
\* defaultCheckRedirect gives up; and a request for a page of the proxy never ends
\* with a file or an error.
THEOREM RedirectsLeadToTarget == OrderlySite => (Spec => []RedirectsKeepTarget)
<1>1. ASSUME SiteInv, WayInv PROVE RedirectsKeepTarget
  <2> DEFINE d == Denoted(files, LocalPath(client.ask))
  <2>1. d = Wanted(client.ask)
    BY <1>1, DenotedIsAim DEF SiteInv, Wanted
  <2> HIDE DEF d
  <2>2. SUFFICES ASSUME client.at = "done", client.steady
                 PROVE  /\ ToFiles(client.ask) =>
                             IF d = Nil THEN client.reply.page = "not found"
                             ELSE \/ client.reply.page \in {"content", "listing"}
                                     /\ client.reply.file = d
                                  \/ client.reply.page \in {"not modified", "bad range"}
                        /\ ToProxy(client.ask) =>
                             client.reply.page \notin {"content", "listing", "error"}
    BY DEF RedirectsKeepTarget, d
  <2>3. ASSUME ToFiles(client.ask)
        PROVE  IF d = Nil THEN client.reply.page = "not found"
               ELSE \/ client.reply.page \in {"content", "listing"} /\ client.reply.file = d
                    \/ client.reply.page \in {"not modified", "bad range"}
    <3>1. Paged(client.reply, d)
      BY <1>1, <2>1, <2>2, <2>3 DEF WayInv, FilesInv
    <3>2. QED
      BY <3>1, Zenon DEF Paged
  <2>4. ToProxy(client.ask) => client.reply.page \notin {"content", "listing", "error"}
    BY <1>1, <2>2 DEF WayInv, ProxyInv
  <2>5. QED
    BY <2>3, <2>4
<1>2. QED
  BY <1>1, WayAlways, PTL

\* checkLastModified answers 304 only to a caller that has a copy, and the copy is the
\* file as it is or as it was in the same second, which is all that Last-Modified tells.
THEOREM NotModifiedHolds == OrderlySite => (Spec => []NotModifiedIsTrue)
<1>1. ASSUME SiteInv, WayInv PROVE NotModifiedIsTrue
  <2>1. SUFFICES ASSUME client.at = "done", client.reply.code = 304
                 PROVE  /\ client.copied # Nil
                        /\ client.steady =>
                             files[client.copied.file].modtime \div 2 = client.copied.lastmod
    BY DEF NotModifiedIsTrue
  <2> DEFINE a == Wanted(client.ask)
  <2>2. /\ ToFiles(client.ask) /\ client.copied # Nil /\ client.copied.ask = client.ask
        /\ client.steady => files[a].modtime < 2 * client.copied.lastmod + 2
    BY <1>1, <2>1 DEF WayInv, UnmodifiedInv
  <2>3. client.copied.file = a /\ DatedBy(client.copied.lastmod, a)
    BY <1>1, <2>2 DEF WayInv, CopiedInv
  <2> HIDE DEF a
  <2>4. client.copied.lastmod \in Nat
    BY <1>1, <2>2 DEF SiteInv, ClientOK
  <2>5. a \in DOMAIN FirstFiles /\ 2 * client.copied.lastmod <= files[a].modtime
    BY <2>3 DEF DatedBy
  <2>6. files[a].modtime \in Nat
    <3>1. files[a] \in Stats
      BY <1>1, <2>5 DEF SiteInv, FilesOK
    <3>2. QED
      BY <3>1 DEF Stats
  <2> DEFINE m == files[a].modtime
             l == client.copied.lastmod
  <2>7. m \in Nat /\ l \in Nat /\ 2 * l <= m
    BY <2>4, <2>5, <2>6
  <2>8. client.steady => m < 2 * l + 2
    BY <2>2
  <2>9. client.copied.file = a
    BY <2>3
  <2> HIDE DEF m, l
  <2>10. client.steady => m \div 2 = l
    BY <2>7, <2>8
  <2>11. QED
    BY <2>2, <2>9, <2>10 DEF m, l
<1>2. QED
  BY <1>1, WayAlways, PTL

-----------------------------------------------------------------------------
(***************************************************************************)
(* What is copied.  The first bytes of a range, a part as far as it is     *)
(* written, and the parts one behind the other.                            *)
(***************************************************************************)
First(r, n) == [k \in 1 .. n |-> r.start + k - 1]
Begun(r, off) == IF off < 0 THEN <<>> ELSE <<-1>> \o First(r, off)
Part(r) == <<-1>> \o First(r, r.length)

\* f holds the first parts of rs.
PartsOf(f, rs) ==
    /\ f \in [0 .. Len(rs) -> Seq(Int)] /\ f[0] = <<>>
    /\ \A i \in 1 .. Len(rs) : f[i] = f[i - 1] \o Part(rs[i])

LEMMA RangeFields ==
    ASSUME NEW r \in RangeSet
    PROVE  r.start \in Nat /\ r.length \in Nat
  BY DEF RangeSet

LEMMA FirstTyped ==
    ASSUME NEW r \in RangeSet, NEW n \in Nat
    PROVE  /\ First(r, n) \in Seq(Int) /\ Len(First(r, n)) = n
           /\ \A k \in 1 .. n : First(r, n)[k] = r.start + k - 1
<1> DEFINE s == [k \in 1 .. n |-> r.start + k - 1]
<1>1. r.start \in Nat
  BY RangeFields
<1>2. s \in [1 .. n -> Int]
  BY <1>1
<1>3. /\ \A k \in 1 .. n : s[k] = r.start + k - 1
      /\ DOMAIN s = 1 .. n
  OBVIOUS
<1> HIDE DEF s
<1>4. s \in Seq(Int)
  BY <1>2
<1>5. Len(s) = n
  BY <1>3, <1>4, LenProperties
<1>6. QED
  BY <1>3, <1>4, <1>5 DEF First, s

LEMMA FirstGrows ==
    ASSUME NEW r \in RangeSet, NEW n \in Nat
    PROVE  Append(First(r, n), r.start + n) = First(r, n + 1) /\ First(r, 0) = <<>>
<1> DEFINE s == First(r, n)
           t == First(r, n + 1)
           u == r.start + n
<1>1. r.start \in Nat /\ n + 1 \in Nat /\ u \in Int
  BY RangeFields
<1>2. s \in Seq(Int) /\ Len(s) = n /\ \A k \in 1 .. n : s[k] = r.start + k - 1
  BY FirstTyped
<1>3. t \in Seq(Int) /\ Len(t) = n + 1 /\ \A k \in 1 .. n + 1 : t[k] = r.start + k - 1
  BY <1>1, FirstTyped
<1> HIDE DEF s, t
<1>4. u = r.start + (n + 1) - 1
  BY <1>1
<1> HIDE DEF u
<1>5. /\ Append(s, u) \in Seq(Int) /\ Len(Append(s, u)) = n + 1
      /\ \A k \in 1 .. n : Append(s, u)[k] = s[k]
      /\ Append(s, u)[n + 1] = u
  BY <1>1, <1>2, AppendProperties
<1>6. \A k \in 1 .. n + 1 : Append(s, u)[k] = t[k]
  <2> TAKE k \in 1 .. n + 1
  <2>1. CASE k \in 1 .. n
    BY <1>2, <1>3, <1>5, <2>1
  <2>2. CASE k = n + 1
    <3>1. t[n + 1] = r.start + (n + 1) - 1
      BY <1>1, <1>3
    <3>2. QED
      BY <1>4, <1>5, <2>2, <3>1
  <2>3. k \in 1 .. n \/ k = n + 1
    OBVIOUS
  <2>4. QED
    BY <2>1, <2>2, <2>3
<1>7. Append(s, u) = t
  BY <1>3, <1>5, <1>6, SeqEqual
<1>8. First(r, 0) = <<>>
  <2>1. First(r, 0) \in Seq(Int) /\ Len(First(r, 0)) = 0
    BY FirstTyped
  <2> HIDE DEF First
  <2>2. QED
    BY <2>1, EmptySeq
<1>9. QED
  BY <1>7, <1>8 DEF s, t, u

\* Sequences of units.
LEMMA UnitsJoined ==
    ASSUME NEW s \in Seq(Int), NEW t \in Seq(Int)
    PROVE  /\ s \o t \in Seq(Int) /\ Len(s \o t) = Len(s) + Len(t)
           /\ s \o <<>> = s /\ <<>> \o s = s
           /\ \A x \in Int : Append(s \o t, x) = s \o Append(t, x)
<1> DEFINE S == Int
<1>1. s \in Seq(S) /\ t \in Seq(S)
  OBVIOUS
<1> HIDE DEF S
<1>2. s \o t \in Seq(S) /\ Len(s \o t) = Len(s) + Len(t)
  BY <1>1, ConcatProperties
<1>3. s \o <<>> = s /\ <<>> \o s = s
  BY <1>1, ConcatEmptySeq
<1>4. ASSUME NEW x \in S PROVE Append(s \o t, x) = s \o Append(t, x)
  <2>1. <<x>> \in Seq(S)
    OBVIOUS
  <2>2. Append(s \o t, x) = (s \o t) \o <<x>> /\ Append(t, x) = t \o <<x>>
    BY <1>1, <1>2, AppendIsConcat
  <2>3. QED
    BY <1>1, <2>1, <2>2, ConcatAssociative
<1>5. QED
  BY <1>2, <1>3, <1>4 DEF S

LEMMA BegunTyped ==
    ASSUME NEW r \in RangeSet, NEW off \in Int, off >= -1
    PROVE  /\ Begun(r, off) \in Seq(Int) /\ Len(Begun(r, off)) = off + 1
           /\ Append(Begun(r, off), IF off < 0 THEN -1 ELSE r.start + off) = Begun(r, off + 1)
<1> DEFINE h == <<-1>>
<1>1. h \in Seq(Int) /\ Len(h) = 1
  OBVIOUS
<1>2. CASE off < 0
  <2>1. off + 1 = 0
    BY <1>2
  <2>2. Begun(r, off) = <<>> /\ Begun(r, off + 1) = h \o First(r, 0)
    BY <1>2, <2>1 DEF Begun
  <2>3. First(r, 0) = <<>>
    BY FirstGrows
  <2>4. h \o <<>> = h
    BY <1>1, UnitsJoined
  <2>5. Append(<<>>, -1) = h
    OBVIOUS
  <2>6. QED
    BY <1>2, <2>1, <2>2, <2>3, <2>4, <2>5
<1>3. CASE ~(off < 0)
  <2> DEFINE s == First(r, off)
             u == r.start + off
  <2>1. off \in Nat /\ r.start \in Nat /\ u \in Int
    BY <1>3, RangeFields
  <2>2. Begun(r, off) = h \o s
    BY <1>3 DEF Begun
  <2>3. Begun(r, off + 1) = h \o First(r, off + 1)
    BY <2>1 DEF Begun
  <2>4. s \in Seq(Int) /\ Len(s) = off
    BY <2>1, FirstTyped
  <2>5. Append(s, u) = First(r, off + 1)
    BY <2>1, FirstGrows
  <2> HIDE DEF s, u, h
  <2>6. h \o s \in Seq(Int) /\ Len(h \o s) = 1 + off
    BY <1>1, <2>4, UnitsJoined
  <2>7. Append(h \o s, u) = h \o Append(s, u)
    BY <1>1, <2>1, <2>4, UnitsJoined
  <2>8. (IF off < 0 THEN -1 ELSE r.start + off) = u /\ 1 + off = off + 1
    BY <1>3 DEF u
  <2>9. Append(Begun(r, off), u) = Begun(r, off + 1)
    BY <2>2, <2>3, <2>5, <2>7
  <2>10. QED
    BY <2>2, <2>6, <2>8, <2>9
<1>4. QED
  BY <1>2, <1>3

\* A part that is written to its last byte is the part.
LEMMA BegunWhole ==
    ASSUME NEW r \in RangeSet
    PROVE  Begun(r, r.length) = Part(r) /\ Part(r) \in Seq(Int) /\ Len(Part(r)) = r.length + 1
<1>1. r.length \in Nat /\ r.length \in Int /\ r.length >= -1
  BY RangeFields
<1>2. Begun(r, r.length) = Part(r)
  BY <1>1 DEF Begun, Part
<1>3. QED
  BY <1>1, <1>2, BegunTyped

LEMMA RangeAt ==
    ASSUME NEW rs \in Seq(RangeSet)
    PROVE  /\ Len(rs) \in Nat
           /\ \A i \in 1 .. Len(rs) :
                rs[i] \in RangeSet /\ rs[i].start \in Nat /\ rs[i].length \in Nat
                /\ Part(rs[i]) \in Seq(Int) /\ Len(Part(rs[i])) = rs[i].length + 1
<1>1. Len(rs) \in Nat
  BY LenProperties
<1>2. \A i \in 1 .. Len(rs) : rs[i] \in RangeSet
  BY ElementOfSeq
<1>3. QED
  BY <1>1, <1>2, RangeFields, BegunWhole

LEMMA PartsExist ==
    ASSUME NEW rs \in Seq(RangeSet)
    PROVE  \E f : PartsOf(f, rs)
<1> DEFINE n == Len(rs)
           S == Seq(Int)
           step == [x \in S \X (1 .. n) |-> x[1] \o Part(rs[x[2]])]
<1>1. n \in Nat /\ <<>> \in S
  BY LenProperties
<1>2. \A s \in S, i \in 1 .. n : s \o Part(rs[i]) \in S
  BY RangeAt, UnitsJoined
<1> HIDE DEF S, n
<1>3. step \in Steps(S, n)
  BY <1>2 DEF Steps
<1>4. \A s \in S, i \in 1 .. n : step[<<s, i>>] = s \o Part(rs[i])
  OBVIOUS
<1> HIDE DEF step
<1> DEFINE c == <<>>
<1>5. c \in S
  BY <1>1
<1> HIDE DEF c
<1>6. PICK f \in [0 .. n -> S] : Recurs(f, n, c, step)
  BY <1>1, <1>3, <1>5, RecursionExists
<1>7. f[0] = <<>> /\ \A i \in 1 .. n : f[i] = f[i - 1] \o Part(rs[i])
  <2>1. f[0] = c /\ \A i \in 1 .. n : f[i] = step[<<f[i - 1], i>>]
    BY <1>6 DEF Recurs
  <2>2. \A i \in 1 .. n : i - 1 \in 0 .. n
    BY <1>1
  <2>3. \A i \in 1 .. n : f[i - 1] \in S
    BY <2>2
  <2>4. QED
    BY <1>4, <2>1, <2>3 DEF c
<1>8. QED
  BY <1>7 DEF PartsOf, n, S

\* All parts together are as long as rangesMIMESize says, without the last boundary, and
\* no part reaches behind them.
LEMMA PartsSize ==
    ASSUME NEW rs \in Seq(RangeSet), NEW f, PartsOf(f, rs)
    PROVE  LET n == Len(rs) IN
           /\ \A i \in 0 .. n : f[i] \in Seq(Int) /\ Len(f[i]) \in Nat
           /\ rangesMIMESize(rs) = Len(f[n]) + 1
           /\ \A i \in 1 .. n : Len(f[i - 1]) + rs[i].length + 1 <= Len(f[n])
<1> DEFINE n == Len(rs)
           len(i) == Len(f[i])
<1>1. n \in Nat /\ \A i \in 1 .. n : rs[i].length \in Nat
  BY RangeAt
<1>2. \A i \in 0 .. n : f[i] \in Seq(Int) /\ len(i) \in Nat
  <2>1. \A i \in 0 .. n : f[i] \in Seq(Int)
    BY DEF PartsOf
  <2>2. QED
    BY <2>1, LenProperties
<1>3. len(0) = 0
  BY DEF PartsOf
<1>4. \A i \in 1 .. n : len(i) = len(i - 1) + rs[i].length + 1
  <2> TAKE i \in 1 .. n
  <2>1. f[i] = f[i - 1] \o Part(rs[i])
    BY DEF PartsOf
  <2>2. f[i - 1] \in Seq(Int)
    BY <1>1, <1>2
  <2>3. Part(rs[i]) \in Seq(Int) /\ Len(Part(rs[i])) = rs[i].length + 1
    BY RangeAt
  <2> HIDE DEF n
  <2>4. len(i) = len(i - 1) + Len(Part(rs[i]))
    BY <2>1, <2>2, <2>3, UnitsJoined
  <2>5. len(i - 1) \in Nat
    BY <1>1, <1>2
  <2> HIDE DEF len
  <2>6. QED
    BY <1>1, <2>3, <2>4, <2>5
<1>5. PICK t \in [0 .. n -> Nat] : sumRangesSize(rs) = t[n] /\ Totals(t, rs)
  BY SumAdds
<1>6. t[0] = 0 /\ \A i \in 1 .. n : t[i] = t[i - 1] + rs[i].length
  BY <1>5 DEF Totals
<1> HIDE DEF n, len
<1>7. \A i \in 0 .. n : len(i) = t[i] + i
  <2> DEFINE P == {i \in 0 .. n : len(i) = t[i] + i}
  <2>1. 0 \in P
    BY <1>1, <1>3, <1>6
  <2>2. ASSUME NEW i \in 1 .. n, i - 1 \in P PROVE i \in P
    <3>1. len(i - 1) = t[i - 1] + (i - 1) /\ t[i - 1] \in Nat
      BY <1>1, <2>2
    <3>2. len(i) = len(i - 1) + rs[i].length + 1 /\ t[i] = t[i - 1] + rs[i].length
      BY <1>4, <1>6
    <3>3. rs[i].length \in Nat
      BY <1>1
    <3>4. len(i) = t[i] + i
      BY <3>1, <3>2, <3>3
    <3>5. QED
      BY <1>1, <3>4
  <2> HIDE DEF P
  <2>3. \A i \in 0 .. n : i \in P
    BY <1>1, <2>1, <2>2, UpTo
  <2>4. QED
    BY <2>3 DEF P
<1>8. \A i \in 0 .. n : len(i) <= len(n)
  <2> DEFINE P == {k \in 0 .. n : \A i \in 0 .. k : len(i) <= len(k)}
  <2>1. 0 \in P
    BY <1>1, <1>3
  <2>2. ASSUME NEW k \in 1 .. n, k - 1 \in P PROVE k \in P
    <3>1. \A i \in 0 .. k - 1 : len(i) <= len(k - 1)
      BY <2>2
    <3>2. len(k - 1) \in Nat /\ len(k) \in Nat /\ rs[k].length \in Nat
      BY <1>1, <1>2
    <3>3. len(k) = len(k - 1) + rs[k].length + 1
      BY <1>4
    <3>4. len(k - 1) <= len(k)
      BY <3>2, <3>3
    <3>5. ASSUME NEW i \in 0 .. k PROVE len(i) <= len(k)
      <4>1. CASE i = k
        BY <3>2, <4>1
      <4>2. CASE i \in 0 .. k - 1
        <5>1. len(i) <= len(k - 1) /\ len(i) \in Nat
          BY <1>1, <1>2, <3>1, <4>2
        <5>2. QED
          BY <3>2, <3>4, <5>1
      <4>3. QED
        BY <4>1, <4>2
    <3>6. QED
      BY <3>5
  <2> HIDE DEF P
  <2>3. \A i \in 0 .. n : i \in P
    BY <1>1, <2>1, <2>2, UpTo
  <2>4. QED
    BY <1>1, <2>3 DEF P
<1>9. rangesMIMESize(rs) = len(n) + 1
  <2>1. len(n) = t[n] + n /\ t[n] \in Nat
    BY <1>1, <1>7
  <2>2. rangesMIMESize(rs) = t[n] + n + 1
    BY <1>5 DEF rangesMIMESize, n
  <2>3. QED
    BY <2>1, <2>2
<1>10. ASSUME NEW i \in 1 .. n PROVE len(i - 1) + rs[i].length + 1 <= len(n)
  <2>1. len(i) = len(i - 1) + rs[i].length + 1 /\ len(i) <= len(n)
    BY <1>1, <1>4, <1>8
  <2>2. QED
    BY <2>1
<1>11. QED
  BY <1>2, <1>9, <1>10 DEF len, n

\* The numbers of an interval in order.
LEMMA IntervalInOrder ==
    ASSUME NEW r \in RangeSet
    PROVE  InOrder(r.start .. (r.start + r.length - 1)) = First(r, r.length)
<1> DEFINE a == r.start
           n == r.length
           set == a .. (a + n - 1)
           below(y) == {z \in set : z < y}
           x(k) == CHOOSE y \in set : Cardinality(below(y)) = k - 1
<1>0. a \in Nat /\ n \in Nat
  BY RangeFields
<1> HIDE DEF a, n
<1>1. \A y : y \in set <=> y \in Int /\ a <= y /\ y <= a + n - 1
  BY <1>0
<1>2. Cardinality(set) = n
  <2>1. Cardinality(a .. (a + n - 1)) = IF a > a + n - 1 THEN 0 ELSE (a + n - 1) - a + 1
    BY <1>0, FS_Interval
  <2>2. QED
    BY <1>0, <2>1
<1> HIDE DEF x
<1>3. \A y \in set : Cardinality(below(y)) = y - a
  <2> TAKE y \in set
  <2>1. y \in Int /\ a <= y /\ y <= a + n - 1
    BY <1>1
  <2>2. below(y) = a .. (y - 1)
    BY <1>0, <2>1
  <2>3. Cardinality(a .. (y - 1)) = IF a > y - 1 THEN 0 ELSE (y - 1) - a + 1
    BY <1>0, <2>1, FS_Interval
  <2>4. (IF a > y - 1 THEN 0 ELSE (y - 1) - a + 1) = y - a
    BY <1>0, <2>1
  <2>5. QED
    BY <2>2, <2>3, <2>4
<1> HIDE DEF set, below
<1>4. \A k \in 1 .. n : x(k) = a + k - 1
  <2> TAKE k \in 1 .. n
  <2>1. a + k - 1 \in set
    BY <1>0, <1>1
  <2>2. (a + k - 1) - a = k - 1
    BY <1>0
  <2>3. \A y \in set : Cardinality(below(y)) = k - 1 => y = a + k - 1
    <3> TAKE y \in set
    <3>1. Cardinality(below(y)) = y - a /\ y \in Int
      BY <1>1, <1>3
    <3>2. y - a = k - 1 => y = a + k - 1
      BY <1>0, <3>1
    <3>3. QED
      BY <3>1, <3>2
  <2>4. \E y \in set : Cardinality(below(y)) = k - 1
    BY <1>3, <2>1, <2>2
  <2>5. QED
    BY <2>3, <2>4 DEF x
<1>5. InOrder(set) = [k \in 1 .. n |-> x(k)]
  BY <1>2 DEF InOrder, x, below
<1>6. InOrder(set) = [k \in 1 .. n |-> a + k - 1]
  BY <1>4, <1>5
<1>7. QED
  BY <1>6 DEF First, a, n, set

LEMMA RangeIsAsked ==
    ASSUME NEW size \in Nat, NEW spec \in [start : Nat \cup {Nil}, end : Nat \cup {Nil}],
           ~BadRange(spec, size)
    PROVE  LET r == OneRange(spec, size) IN
           /\ r \in RangeSet /\ r.start + r.length <= size
           /\ InOrder(Asked(spec, size)) = First(r, r.length)
<1> DEFINE r == OneRange(spec, size)
           s == spec.start
           e == spec.end
           all == 0 .. (size - 1)
           set == Asked(spec, size)
<1>0. Nil \notin Nat /\ s \in Nat \cup {Nil} /\ e \in Nat \cup {Nil}
  BY SiteAssumption
<1>1. r \in RangeSet
  BY OneRangeTyped
<1>2. CASE s = Nil
  <2> DEFINE l == Least(e, size)
  <2>1. e \in Nat
    BY <1>0, <1>2 DEF BadRange
  <2>2. l \in Nat /\ l <= size /\ l = (IF e < size THEN e ELSE size)
    BY <2>1 DEF Least
  <2>3. r.start = size - l /\ r.length = l
    BY <1>2 DEF OneRange
  <2>4. set = {k \in all : k >= size - e}
    BY <1>2 DEF Asked
  <2> HIDE DEF r, s, e, set, l
  <2>5. {k \in all : k >= size - e} = (size - l) .. (size - 1)
    BY <2>1, <2>2
  <2>6. r.start + r.length - 1 = size - 1 /\ r.start + r.length <= size
    BY <2>2, <2>3
  <2>7. set = r.start .. (r.start + r.length - 1)
    BY <2>3, <2>4, <2>5, <2>6
  <2>8. InOrder(set) = First(r, r.length)
    BY <1>1, <2>7, IntervalInOrder
  <2>9. QED
    BY <1>1, <2>6, <2>8 DEF r, set
<1>3. CASE s # Nil /\ e = Nil
  <2>1. s \in Nat /\ s <= size
    BY <1>0, <1>3 DEF BadRange
  <2>2. r.start = s /\ r.length = size - s
    BY <1>3 DEF OneRange
  <2>3. set = {k \in all : k >= s}
    BY <1>3 DEF Asked
  <2> HIDE DEF r, s, e, set
  <2>4. {k \in all : k >= s} = s .. (size - 1)
    BY <2>1
  <2>5. r.start + r.length - 1 = size - 1 /\ r.start + r.length <= size
    BY <2>1, <2>2
  <2>6. set = r.start .. (r.start + r.length - 1)
    BY <2>2, <2>3, <2>4, <2>5
  <2>7. InOrder(set) = First(r, r.length)
    BY <1>1, <2>6, IntervalInOrder
  <2>8. QED
    BY <1>1, <2>5, <2>7 DEF r, set
<1>4. CASE s # Nil /\ e # Nil
  <2> DEFINE l == Least(e, size - 1)
  <2>1. s \in Nat /\ s <= size /\ e \in Nat /\ s <= e
    BY <1>0, <1>4 DEF BadRange
  <2>2. l \in Int /\ l = (IF e < size - 1 THEN e ELSE size - 1)
    BY <2>1 DEF Least
  <2>3. r.start = s /\ r.length = l - s + 1
    BY <1>4 DEF OneRange
  <2>4. set = {k \in all : k >= s /\ k <= e}
    BY <1>4 DEF Asked
  <2> HIDE DEF r, s, e, set, l
  <2>5. {k \in all : k >= s /\ k <= e} = s .. l
    BY <2>1, <2>2
  <2>6. r.start + r.length - 1 = l /\ r.start + r.length <= size
    BY <2>1, <2>2, <2>3
  <2>7. set = r.start .. (r.start + r.length - 1)
    BY <2>3, <2>4, <2>5, <2>6
  <2>8. InOrder(set) = First(r, r.length)
    BY <1>1, <2>7, IntervalInOrder
  <2>9. QED
    BY <1>1, <2>6, <2>8 DEF r, set
<1>5. QED
  BY <1>2, <1>3, <1>4

\* The sequences one behind the other.
LEMMA FlattenIs ==
    ASSUME NEW n \in Nat, n > 0, NEW s \in [1 .. n -> Seq(Int)], NEW f \in [0 .. n -> Seq(Int)],
           f[0] = <<>>, \A i \in 1 .. n : f[i] = f[i - 1] \o s[i]
    PROVE  FlattenSeq(s) = f[n]
<1> DEFINE E(g) == [i \in 1 .. n |-> IF i = 1 THEN s[i] ELSE g[i - 1] \o s[i]]
<1>1. s \in Seq(Seq(Int)) /\ Len(s) = n
  <2> DEFINE S == Seq(Int)
  <2>1. s \in [1 .. n -> S]
    OBVIOUS
  <2> HIDE DEF S
  <2>2. s \in Seq(S)
    BY <2>1
  <2>3. Len(s) = n
    BY <2>1, <2>2, LenProperties
  <2>4. QED
    BY <2>2, <2>3 DEF S
<1>2. f[1] = s[1]
  <2>1. 1 \in 1 .. n /\ 1 - 1 = 0
    OBVIOUS
  <2>2. f[1] = <<>> \o s[1] /\ s[1] \in Seq(Int)
    BY <2>1
  <2>3. <<>> \o s[1] = s[1]
    <3> DEFINE t == s[1]
    <3>1. t \in Seq(Int)
      BY <2>2
    <3> HIDE DEF t
    <3>2. <<>> \o t = t
      BY <3>1, UnitsJoined
    <3>3. QED
      BY <3>2 DEF t
  <2>4. QED
    BY <2>2, <2>3
<1>3. \E g : g = E(g)
  <2> DEFINE g == [i \in 1 .. n |-> f[i]]
  <2>1. \A i \in 1 .. n : g[i] = f[i]
    OBVIOUS
  <2>2. \A i \in 1 .. n : g[i] = IF i = 1 THEN s[i] ELSE g[i - 1] \o s[i]
    <3> TAKE i \in 1 .. n
    <3>1. CASE i = 1
      BY <1>2, <2>1, <3>1
    <3>2. CASE i # 1
      <4>1. i - 1 \in 1 .. n
        BY <3>2
      <4>2. g[i] = f[i] /\ g[i - 1] = f[i - 1]
        BY <2>1, <4>1
      <4> HIDE DEF g
      <4>3. QED
        BY <3>2, <4>2
    <3>3. QED
      BY <3>1, <3>2
  <2>3. g = [i \in 1 .. n |-> g[i]]
    OBVIOUS
  <2> HIDE DEF g
  <2>4. g = E(g)
    BY <2>2, <2>3
  <2>5. QED
    BY <2>4
<1>4. PICK g : FlattenSeq(s) = g[n] /\ g = E(g)
  <2> DEFINE C == CHOOSE h : h = E(h)
  <2>1. FlattenSeq(s) = C[n]
    BY <1>1 DEF FlattenSeq
  <2>2. C = E(C)
    BY <1>3
  <2> HIDE DEF C
  <2>3. QED
    BY <2>1, <2>2
<1>5. \A i \in 1 .. n : g[i] = IF i = 1 THEN s[i] ELSE g[i - 1] \o s[i]
  <2> TAKE i \in 1 .. n
  <2>1. g[i] = E(g)[i]
    BY <1>4, Zenon
  <2>2. QED
    BY <2>1
<1>6. \A i \in 0 .. n : i = 0 \/ g[i] = f[i]
  <2> DEFINE P == {i \in 0 .. n : i = 0 \/ g[i] = f[i]}
  <2>1. 0 \in P
    OBVIOUS
  <2>2. ASSUME NEW i \in 1 .. n, i - 1 \in P PROVE i \in P
    <3>1. i \in 0 .. n
      OBVIOUS
    <3>2. CASE i = 1
      <4>1. g[1] = s[1]
        BY <1>5, <3>2
      <4>2. QED
        BY <1>2, <3>1, <3>2, <4>1
    <3>3. CASE i # 1
      <4>1. g[i] = g[i - 1] \o s[i] /\ f[i] = f[i - 1] \o s[i]
        BY <1>5, <3>3
      <4>2. g[i - 1] = f[i - 1]
        BY <2>2, <3>3
      <4>3. QED
        BY <3>1, <4>1, <4>2
    <3>4. QED
      BY <3>2, <3>3
  <2> HIDE DEF P
  <2>3. \A i \in 0 .. n : i \in P
    BY <2>1, <2>2, UpTo
  <2>4. QED
    BY <2>3 DEF P
<1>7. g[n] = f[n]
  <2>1. n \in 0 .. n /\ n # 0
    OBVIOUS
  <2>2. QED
    BY <1>6, <2>1
<1>8. QED
  BY <1>4, <1>7, Zenon

\* A Range header that is not refused: its specifications and the ranges they make.
LEMMA ParsedRanges ==
    ASSUME NEW size \in Nat, NEW spec \in Specs, spec # Nil, parseRange(spec, size) # Nil
    PROVE  LET rs == parseRange(spec, size) IN
           /\ rs \in Seq(RangeSet) /\ Len(rs) = Len(spec) /\ DOMAIN spec = 1 .. Len(spec)
           /\ \A i \in 1 .. Len(spec) :
                /\ rs[i].start + rs[i].length <= size
                /\ InOrder(Asked(spec[i], size)) = First(rs[i], rs[i].length)
<1> DEFINE n == Len(spec)
           rs == parseRange(spec, size)
           g == [i \in 1 .. n |-> OneRange(spec[i], size)]
<1>1. /\ n \in Nat /\ DOMAIN spec = 1 .. n
      /\ \A i \in 1 .. n : spec[i] \in [start : Nat \cup {Nil}, end : Nat \cup {Nil}]
  BY LenProperties, ElementOfSeq DEF Specs
<1>2. \A i \in 1 .. n : ~BadRange(spec[i], size)
  BY <1>1 DEF parseRange
<1>3. rs = g
  BY <1>1, <1>2 DEF parseRange
<1>4. rs \in Seq(RangeSet)
  BY ParseTyped
<1> HIDE DEF rs
<1>5. \A i \in 1 .. n : rs[i] = OneRange(spec[i], size)
  BY <1>3
<1>6. DOMAIN rs = 1 .. n
  BY <1>3
<1> HIDE DEF g, n
<1>7. Len(rs) = n
  BY <1>1, <1>4, <1>6, LenProperties
<1>8. ASSUME NEW i \in 1 .. n
      PROVE  /\ rs[i].start + rs[i].length <= size
             /\ InOrder(Asked(spec[i], size)) = First(rs[i], rs[i].length)
  <2> DEFINE x == spec[i]
  <2>1. x \in [start : Nat \cup {Nil}, end : Nat \cup {Nil}] /\ ~BadRange(x, size)
    BY <1>1, <1>2
  <2> HIDE DEF x
  <2>2. /\ OneRange(x, size).start + OneRange(x, size).length <= size
        /\ InOrder(Asked(x, size)) = First(OneRange(x, size), OneRange(x, size).length)
    BY <2>1, RangeIsAsked
  <2>3. rs[i] = OneRange(x, size)
    BY <1>5 DEF x
  <2>4. QED
    BY <2>2, <2>3 DEF x
<1>9. QED
  BY <1>1, <1>4, <1>7, <1>8 DEF rs, n

\* How far one range has been copied, and several: the writer of the parts stands in a
\* part that it has not finished, and everything in front of it has been sent.
Single(c) ==
    /\ c.sent = First(c.ranges[1], Len(c.sent)) /\ c.off = c.ranges[1].start + Len(c.sent)
    /\ Len(c.sent) + c.left = c.ranges[1].length

Unfinished(w, rs) ==
    IF w.part > Len(rs) THEN w.off = -1 ELSE w.off < 0 \/ w.off < rs[w.part].length

Written(c, w, f) ==
    /\ w.at = "exit" => c.sent = Append(f[Len(c.ranges)], -2)
    /\ w.at = "parts" => c.sent = f[w.part - 1] \o Begun(c.ranges[w.part], w.off)

Parted(c, w) ==
    /\ w.at \in {"parts", "exit"} /\ (w.at = "parts" => Unfinished(w, c.ranges))
    /\ Len(c.sent) + c.left = rangesMIMESize(c.ranges)
    /\ \A f : PartsOf(f, c.ranges) => Written(c, w, f)

LEMMA PartedStarts ==
    ASSUME NEW c, CopyTyped(c), c.sent = <<>>, c.left = rangesMIMESize(c.ranges),
           NEW w, w.at = "parts", w.part = 1, w.off = -1
    PROVE  Parted(c, w)
<1>1. Unfinished(w, c.ranges)
  BY DEF Unfinished
<1>2. Len(c.sent) + c.left = rangesMIMESize(c.ranges)
  <2>1. Len(c.sent) = 0 /\ c.left \in Nat
    BY DEF CopyTyped
  <2>2. QED
    BY <2>1
<1>3. ASSUME NEW f, PartsOf(f, c.ranges) PROVE Written(c, w, f)
  <2>1. f[0] = <<>>
    BY <1>3 DEF PartsOf
  <2>2. w.part - 1 = 0
    OBVIOUS
  <2>3. Begun(c.ranges[w.part], w.off) = <<>>
    BY DEF Begun
  <2>4. <<>> \o <<>> = <<>>
    BY UnitsJoined
  <2>5. w.at # "exit"
    OBVIOUS
  <2>6. QED
    BY <2>1, <2>2, <2>3, <2>4, <2>5 DEF Written
<1>4. QED
  BY <1>1, <1>2, <1>3 DEF Parted

\* Bytes are left as long as there are parts to write, and none when the last boundary
\* has been written.
LEMMA PartedLeft ==
    ASSUME NEW c, CopyTyped(c), NEW w, PartTyped(w, Len(c.ranges)), Parted(c, w)
    PROVE  (w.at = "parts" => c.left > 0) /\ (w.at = "exit" => c.left = 0)
<1> DEFINE rs == c.ranges
           n == Len(rs)
<1>1. rs \in Seq(RangeSet) /\ n \in Nat /\ c.left \in Nat
  BY LenProperties DEF CopyTyped
<1>2. w.part \in 1 .. n + 1 /\ w.off \in Int /\ w.off >= -1
  BY DEF PartTyped
<1>3. Len(c.sent) + c.left = rangesMIMESize(rs) /\ (w.at = "parts" => Unfinished(w, rs))
  BY DEF Parted
<1> HIDE DEF rs
<1>4. PICK f : PartsOf(f, rs)
  BY <1>1, PartsExist
<1>5. Written(c, w, f)
  BY <1>4 DEF Parted, rs
<1>6. /\ \A i \in 0 .. n : f[i] \in Seq(Int) /\ Len(f[i]) \in Nat
      /\ rangesMIMESize(rs) = Len(f[n]) + 1
      /\ \A i \in 1 .. n : Len(f[i - 1]) + rs[i].length + 1 <= Len(f[n])
  BY <1>1, <1>4, PartsSize
<1>7. CASE w.at = "exit"
  <2>1. c.sent = Append(f[n], -2)
    BY <1>5, <1>7 DEF Written, rs
  <2>2. f[n] \in Seq(Int) /\ Len(f[n]) \in Nat
    BY <1>1, <1>6
  <2>3. Len(c.sent) = Len(f[n]) + 1
    BY <2>1, <2>2
  <2>4. c.left = 0
    BY <1>1, <1>3, <1>6, <2>2, <2>3
  <2>5. QED
    BY <1>7, <2>4
<1>8. CASE w.at = "parts"
  <2> DEFINE p == w.part
             b == Begun(rs[p], w.off)
             h == f[p - 1]
  <2>1. c.sent = h \o b
    BY <1>5, <1>8 DEF Written, rs
  <2>2. h \in Seq(Int) /\ Len(h) \in Nat
    BY <1>1, <1>2, <1>6
  <2>3. CASE p > n
    <3>1. p - 1 = n /\ w.off < 0
      BY <1>1, <1>2, <1>3, <1>8, <2>3 DEF Unfinished
    <3>2. b = <<>>
      BY <3>1 DEF Begun
    <3>3. h = f[n]
      BY <3>1
    <3> HIDE DEF b, h
    <3>4. c.sent = h
      BY <2>1, <2>2, <3>2, UnitsJoined
    <3>5. QED
      BY <1>1, <1>3, <1>6, <1>8, <2>2, <3>3, <3>4
  <2>4. CASE ~(p > n)
    <3>1. p \in 1 .. n
      BY <1>1, <1>2, <2>4
    <3>2. rs[p] \in RangeSet /\ rs[p].length \in Nat
      BY <1>1, <3>1, RangeAt
    <3>3. w.off < rs[p].length
      BY <1>2, <1>3, <1>8, <2>4, <3>2 DEF Unfinished
    <3>4. b \in Seq(Int) /\ Len(b) = w.off + 1
      BY <1>2, <3>2, BegunTyped
    <3>5. Len(h) + rs[p].length + 1 <= Len(f[n]) /\ Len(f[n]) \in Nat
      BY <1>1, <1>6, <3>1
    <3> HIDE DEF b, h
    <3>6. Len(c.sent) = Len(h) + Len(b)
      BY <2>1, <2>2, <3>4, UnitsJoined
    <3>7. Len(c.sent) < Len(f[n]) + 1
      <4> DEFINE l == rs[p].length
                 m == Len(f[n])
                 k == Len(h)
      <4>1. l \in Nat /\ m \in Nat /\ k \in Nat /\ k + l + 1 <= m
        BY <2>2, <3>2, <3>5
      <4>2. Len(c.sent) = k + (w.off + 1) /\ w.off < l /\ w.off \in Int
        BY <1>2, <3>3, <3>4, <3>6
      <4> HIDE DEF l, m, k
      <4>3. QED
        BY <4>1, <4>2 DEF m
    <3>8. c.left > 0
      <4>1. Len(c.sent) \in Nat
        BY <1>2, <2>2, <3>4, <3>6
      <4>2. QED
        BY <1>1, <1>3, <1>6, <3>5, <3>7, <4>1
    <3>9. QED
      BY <1>8, <3>8
  <2>5. QED
    BY <2>3, <2>4
<1>9. QED
  BY <1>7, <1>8

\* No part asks for more than the file has.
LEMMA PartedInFile ==
    ASSUME NEW g, CopyTyped(copy[g]), PartTyped(parts[g], Len(copy[g].ranges)),
           Parted(copy[g], parts[g]), parts[g].at = "parts", NEW size \in Nat,
           \A i \in 1 .. Len(copy[g].ranges) :
              copy[g].ranges[i].start + copy[g].ranges[i].length <= size
    PROVE  PartUnit(g) < size
<1> DEFINE rs == copy[g].ranges
           w == parts[g]
           n == Len(rs)
<1>1. rs \in Seq(RangeSet) /\ n \in Nat
  BY LenProperties DEF CopyTyped
<1>2. w.part \in 1 .. n + 1 /\ w.off \in Int /\ w.off >= -1
  BY DEF PartTyped
<1>3. Unfinished(w, rs)
  BY DEF Parted
<1>4. PartUnit(g) = IF w.part > n THEN -2 ELSE IF w.off < 0 THEN -1 ELSE rs[w.part].start + w.off
  BY DEF PartUnit
<1>5. \A i \in 1 .. n : rs[i].start + rs[i].length <= size
  OBVIOUS
<1> HIDE DEF rs, w, n
<1>6. CASE w.part > n \/ w.off < 0
  BY <1>4, <1>6
<1>7. CASE ~(w.part > n) /\ ~(w.off < 0)
  <2>1. w.part \in 1 .. n
    BY <1>1, <1>2, <1>7
  <2>2. rs[w.part].start \in Nat /\ rs[w.part].length \in Nat
    BY <1>1, <2>1, RangeAt DEF n
  <2>3. w.off < rs[w.part].length
    BY <1>3, <1>7 DEF Unfinished, n
  <2>4. rs[w.part].start + rs[w.part].length <= size
    BY <1>5, <2>1
  <2>5. rs[w.part].start + w.off < size
    BY <1>2, <2>2, <2>3, <2>4
  <2>6. QED
    BY <1>4, <1>7, <2>5
<1>8. QED
  BY <1>6, <1>7

\* Where the writer of the parts stands when it has written a unit.
LEMMA AfterUnitIs ==
    ASSUME NEW g, CopyTyped(copy[g]), PartTyped(parts[g], Len(copy[g].ranges))
    PROVE  LET rs == copy[g].ranges
               w == parts[g]
               v == AfterUnit(g)
           IN \/ /\ w.part > Len(rs) /\ v.at = "exit"
              \/ /\ w.part <= Len(rs) /\ w.off + 1 < rs[w.part].length
                 /\ v.at = w.at /\ v.part = w.part /\ v.off = w.off + 1
              \/ /\ w.part <= Len(rs) /\ w.off + 1 >= rs[w.part].length
                 /\ v.at = w.at /\ v.part = w.part + 1 /\ v.off = -1
<1> DEFINE rs == copy[g].ranges
           w == parts[g]
           n == Len(rs)
           v == AfterUnit(g)
<1>1. DOMAIN w = PartFields
  BY DEF PartTyped
<1>2. w.part \in 1 .. n + 1 /\ w.off \in Int /\ n \in Nat
  BY LenProperties DEF CopyTyped, PartTyped
<1>3. PartUnit(g) = -2 <=> w.part > n
  BY UnitTyped
<1>4. w.part <= n => rs[w.part].length \in Nat
  BY UnitTyped
<1>5. CASE w.part > n
  <2>1. v = [w EXCEPT !.at = "exit"]
    BY <1>3, <1>5 DEF AfterUnit
  <2>2. v.at = "exit"
    BY <1>1, <2>1 DEF PartFields
  <2>3. QED
    BY <1>5, <2>2
<1>6. CASE w.part <= n /\ w.off + 1 < rs[w.part].length
  <2>1. PartUnit(g) # -2 /\ ~(w.off + 1 >= rs[w.part].length)
    <3> DEFINE l == rs[w.part].length
               o == w.off
    <3>1. l \in Nat /\ o \in Int /\ o + 1 < l
      BY <1>2, <1>4, <1>6
    <3> HIDE DEF l, o
    <3>2. ~(o + 1 >= l)
      BY <3>1
    <3>3. PartUnit(g) # -2
      BY <1>2, <1>3, <1>6
    <3>4. QED
      BY <3>2, <3>3 DEF l, o
  <2>2. v = [w EXCEPT !.off = @ + 1]
    BY <1>6, <2>1 DEF AfterUnit
  <2>3. v.at = w.at /\ v.part = w.part /\ v.off = w.off + 1
    BY <1>1, <2>2 DEF PartFields
  <2>4. QED
    BY <1>6, <2>3
<1>7. CASE w.part <= n /\ w.off + 1 >= rs[w.part].length
  <2>1. PartUnit(g) # -2 /\ ~(w.off + 1 < rs[w.part].length)
    <3> DEFINE l == rs[w.part].length
               o == w.off
    <3>1. l \in Nat /\ o \in Int /\ o + 1 >= l
      BY <1>2, <1>4, <1>7
    <3> HIDE DEF l, o
    <3>2. ~(o + 1 < l)
      BY <3>1
    <3>3. PartUnit(g) # -2
      BY <1>2, <1>3, <1>7
    <3>4. QED
      BY <3>2, <3>3 DEF l, o
  <2>2. v = [w EXCEPT !.part = @ + 1, !.off = -1]
    BY <1>7, <2>1 DEF AfterUnit
  <2>3. v.at = w.at /\ v.part = w.part + 1 /\ v.off = -1
    BY <1>1, <2>2 DEF PartFields
  <2>4. QED
    BY <1>7, <2>3
<1>8. QED
  <2>1. w.part > n \/ w.part <= n
    BY <1>2
  <2>2. w.part <= n => w.off + 1 < rs[w.part].length \/ w.off + 1 >= rs[w.part].length
    BY <1>2, <1>4
  <2>3. QED
    BY <1>5, <1>6, <1>7, <2>1, <2>2

LEMMA PartedStep ==
    ASSUME NEW g, CopyTyped(copy[g]), PartTyped(parts[g], Len(copy[g].ranges)),
           Parted(copy[g], parts[g]), parts[g].at = "parts", copy[g].left > 0
    PROVE  Parted(Put(copy[g], PartUnit(g)), AfterUnit(g))
<1> DEFINE c == copy[g]
           rs == c.ranges
           w == parts[g]
           n == Len(rs)
           v == AfterUnit(g)
           u == PartUnit(g)
           d == Put(c, u)
           r == rs[w.part]
<1>1. /\ rs \in Seq(RangeSet) /\ n \in Nat /\ c.left \in Nat /\ c.sent \in Seq(Int)
      /\ Len(c.sent) \in Nat
  BY LenProperties DEF CopyTyped
<1>2. w.part \in 1 .. n + 1 /\ w.off \in Int /\ w.off >= -1
  BY DEF PartTyped
<1>3. Unfinished(w, rs) /\ Len(c.sent) + c.left = rangesMIMESize(rs)
  BY DEF Parted
<1>4. /\ u \in Int
      /\ u = IF w.part > n THEN -2 ELSE IF w.off < 0 THEN -1 ELSE r.start + w.off
  BY UnitTyped DEF PartUnit
<1>5. d.ranges = rs /\ d.left = c.left - 1 /\ d.sent = Append(c.sent, u)
  BY <1>4, PutTyped
<1>6. \/ w.part > n /\ v.at = "exit"
      \/ /\ w.part <= n /\ w.off + 1 < r.length
         /\ v.at = "parts" /\ v.part = w.part /\ v.off = w.off + 1
      \/ /\ w.part <= n /\ w.off + 1 >= r.length
         /\ v.at = "parts" /\ v.part = w.part + 1 /\ v.off = -1
  BY AfterUnitIs
<1>7. \A f : PartsOf(f, rs) => c.sent = f[w.part - 1] \o Begun(r, w.off)
  BY DEF Parted, Written
<1>8. w.part <= n => w.part \in 1 .. n /\ r \in RangeSet /\ r.length \in Nat
  <2>1. w.part <= n => w.part \in 1 .. n
    BY <1>1, <1>2
  <2>2. QED
    BY <1>1, <2>1, RangeAt
<1> HIDE DEF v, u, d
<1>9. v.at \in {"parts", "exit"}
  BY <1>6
<1>10. v.at = "parts" => Unfinished(v, rs)
  <2>1. SUFFICES ASSUME v.at = "parts" PROVE Unfinished(v, rs)
    OBVIOUS
  <2>2. \/ w.part <= n /\ w.off + 1 < r.length /\ v.part = w.part /\ v.off = w.off + 1
        \/ v.off = -1
    BY <1>6, <2>1
  <2>3. CASE w.part <= n /\ w.off + 1 < r.length /\ v.part = w.part /\ v.off = w.off + 1
    <3>1. ~(v.part > n)
      BY <1>1, <1>2, <2>3
    <3>2. v.off < rs[v.part].length
      BY <2>3
    <3>3. QED
      BY <3>1, <3>2 DEF Unfinished
  <2>4. CASE v.off = -1
    BY <2>4 DEF Unfinished
  <2>5. QED
    BY <2>2, <2>3, <2>4
<1>11. Len(d.sent) + d.left = rangesMIMESize(rs)
  <2>1. Len(d.sent) = Len(c.sent) + 1
    BY <1>1, <1>5
  <2> DEFINE k == Len(c.sent)
             l == c.left
             m == rangesMIMESize(rs)
             x == Len(d.sent)
  <2>2. k \in Nat /\ l \in Nat /\ k + l = m /\ x = k + 1
    BY <1>1, <1>3, <2>1
  <2>3. d.left = l - 1
    BY <1>5
  <2> HIDE DEF k, l, m, x
  <2>4. x + d.left = m
    BY <2>2, <2>3
  <2>5. QED
    BY <2>4 DEF x, m
<1>12. ASSUME NEW f, PartsOf(f, rs) PROVE Written(d, v, f)
  <2> DEFINE h == f[w.part - 1]
             b == Begun(r, w.off)
  <2>1. c.sent = h \o b
    BY <1>7, <1>12
  <2>2. h \in Seq(Int)
    <3>1. \A i \in 0 .. n : f[i] \in Seq(Int)
      BY <1>12 DEF PartsOf
    <3>2. w.part - 1 \in 0 .. n
      BY <1>1, <1>2
    <3>3. QED
      BY <3>1, <3>2
  <2>3. CASE w.part > n
    <3>1. w.part - 1 = n /\ w.off < 0 /\ u = -2
      BY <1>1, <1>2, <1>3, <1>4, <2>3 DEF Unfinished
    <3>2. b = <<>> /\ h = f[n]
      BY <3>1 DEF Begun
    <3>3. v.at = "exit" /\ v.at # "parts"
      <4>1. ~(w.part <= n)
        BY <1>1, <1>2, <2>3
      <4>2. QED
        BY <1>6, <4>1
    <3> HIDE DEF b, h
    <3>4. c.sent = f[n]
      BY <2>1, <2>2, <3>2, UnitsJoined
    <3>5. d.sent = Append(f[n], -2)
      BY <1>5, <3>1, <3>4
    <3>6. QED
      BY <1>5, <3>3, <3>5 DEF Written
  <2>4. CASE w.part <= n
    <3>1. u = IF w.off < 0 THEN -1 ELSE r.start + w.off
      BY <1>1, <1>2, <1>4, <2>4
    <3>2. b \in Seq(Int) /\ Append(b, u) = Begun(r, w.off + 1)
      BY <1>2, <1>8, <2>4, <3>1, BegunTyped
    <3> HIDE DEF b, h, r
    <3>3. d.sent = h \o Begun(r, w.off + 1)
      <4>0. u \in Int /\ h \in Seq(Int) /\ b \in Seq(Int)
        BY <1>4, <2>2, <3>2
      <4>1. Append(h \o b, u) = h \o Append(b, u)
        BY <4>0, UnitsJoined
      <4>2. QED
        BY <1>5, <2>1, <3>2, <4>1
    <3>4. CASE w.off + 1 < r.length /\ v.at = "parts" /\ v.part = w.part /\ v.off = w.off + 1
      <4>1. d.sent = f[v.part - 1] \o Begun(rs[v.part], v.off)
        BY <3>3, <3>4 DEF h, r
      <4>2. QED
        BY <1>5, <3>4, <4>1 DEF Written
    <3>5. CASE w.off + 1 >= r.length /\ v.at = "parts" /\ v.part = w.part + 1 /\ v.off = -1
      <4>1. w.off + 1 = r.length
        <5>1. w.off < 0 \/ w.off < r.length
          BY <1>1, <1>2, <1>3, <2>4 DEF Unfinished, r
        <5>2. QED
          BY <1>2, <1>8, <2>4, <3>5, <5>1
      <4>2. Begun(r, w.off + 1) = Part(r) /\ Part(r) \in Seq(Int)
        BY <1>8, <2>4, <4>1, BegunWhole
      <4>3. f[w.part] = h \o Part(r)
        BY <1>8, <1>12, <2>4 DEF PartsOf, h, r
      <4>4. f[w.part] \in Seq(Int)
        BY <2>2, <4>2, <4>3, UnitsJoined
      <4>5. f[w.part] \o <<>> = f[w.part]
        <5> DEFINE x == f[w.part]
        <5>1. x \in Seq(Int)
          BY <4>4
        <5> HIDE DEF x
        <5>2. x \o <<>> = x
          BY <5>1, UnitsJoined
        <5>3. QED
          BY <5>2 DEF x
      <4>6. Begun(rs[v.part], v.off) = <<>> /\ v.part - 1 = w.part
        BY <1>2, <3>5 DEF Begun
      <4>7. d.sent = f[v.part - 1] \o Begun(rs[v.part], v.off)
        BY <3>3, <4>2, <4>3, <4>5, <4>6
      <4>8. QED
        BY <1>5, <3>5, <4>7 DEF Written
    <3>6. QED
      BY <1>1, <1>2, <1>6, <2>4, <3>4, <3>5 DEF r
  <2>5. QED
    BY <1>1, <1>2, <2>3, <2>4
<1>13. Parted(d, v)
  BY <1>5, <1>9, <1>10, <1>11, <1>12 DEF Parted
<1>14. QED
  BY <1>13 DEF d, u, v

\* One range: nothing has been copied, one byte more, and all of it.
LEMMA SingleStarts ==
    ASSUME NEW c, CopyTyped(c), c.ranges # <<>>, c.sent = <<>>, c.off = c.ranges[1].start,
           c.left = c.ranges[1].length
    PROVE  Single(c)
<1> DEFINE r == c.ranges[1]
<1>1. Len(c.ranges) \in Nat \ {0} /\ c.ranges \in Seq(RangeSet)
  BY EmptySeq DEF CopyTyped
<1>2. 1 \in 1 .. Len(c.ranges)
  BY <1>1
<1>3. r \in RangeSet /\ r.start \in Nat /\ r.length \in Nat
  BY <1>1, <1>2, RangeAt
<1>4. Len(c.sent) = 0
  OBVIOUS
<1> HIDE DEF r
<1>5. First(r, 0) = <<>>
  BY <1>3, FirstGrows
<1>6. c.off = r.start + Len(c.sent) /\ Len(c.sent) + c.left = r.length
  BY <1>3, <1>4 DEF r
<1>7. c.sent = First(r, Len(c.sent))
  BY <1>4, <1>5
<1>8. QED
  BY <1>6, <1>7 DEF Single, r

LEMMA SingleStep ==
    ASSUME NEW c, CopyTyped(c), c.ranges # <<>>, Single(c), c.left > 0,
           NEW d, d.ranges = c.ranges, d.sent = Append(c.sent, c.off), d.off = c.off + 1,
           d.left = c.left - 1
    PROVE  Single(d)
<1> DEFINE r == c.ranges[1]
           n == Len(c.sent)
           l == c.left
           o == c.off
<1>1. Len(c.ranges) \in Nat \ {0} /\ c.ranges \in Seq(RangeSet)
  BY EmptySeq DEF CopyTyped
<1>2. 1 \in 1 .. Len(c.ranges)
  BY <1>1
<1>3. r \in RangeSet /\ r.start \in Nat /\ r.length \in Nat
  BY <1>1, <1>2, RangeAt
<1>4. c.sent \in Seq(Int) /\ n \in Nat /\ l \in Nat /\ o \in Nat
  BY LenProperties DEF CopyTyped
<1>5. c.sent = First(r, n) /\ o = r.start + n /\ n + l = r.length
  BY DEF Single
<1>6. Len(d.sent) = n + 1
  BY <1>4
<1>7. d.off = o + 1 /\ d.left = l - 1 /\ d.ranges[1] = r
  OBVIOUS
<1>8. Append(c.sent, o) = d.sent
  OBVIOUS
<1> HIDE DEF r, n, l, o
<1>9. Append(First(r, n), r.start + n) = First(r, n + 1)
  BY <1>3, <1>4, FirstGrows
<1>10. d.sent = First(r, n + 1)
  BY <1>5, <1>8, <1>9
<1>11. d.off = r.start + (n + 1) /\ (n + 1) + d.left = r.length
  <2> DEFINE a == r.start
             b == r.length
  <2>1. a \in Nat /\ b \in Nat /\ o = a + n /\ n + l = b
    BY <1>3, <1>5
  <2> HIDE DEF a, b
  <2>2. o + 1 = a + (n + 1) /\ (n + 1) + (l - 1) = b
    BY <1>4, <2>1
  <2>3. QED
    BY <1>7, <2>2 DEF a, b
<1>12. /\ d.sent = First(d.ranges[1], Len(d.sent)) /\ d.off = d.ranges[1].start + Len(d.sent)
       /\ Len(d.sent) + d.left = d.ranges[1].length
  BY <1>6, <1>7, <1>10, <1>11, Zenon
<1>13. QED
  BY <1>12, Zenon DEF Single

LEMMA SingleEnds ==
    ASSUME NEW c, CopyTyped(c), c.ranges # <<>>, Single(c), NEW size \in Nat, c.off >= size,
           c.ranges[1].start + c.ranges[1].length <= size
    PROVE  c.left = 0
<1> DEFINE r == c.ranges[1]
           n == Len(c.sent)
           l == c.left
           o == c.off
<1>1. Len(c.ranges) \in Nat \ {0} /\ c.ranges \in Seq(RangeSet)
  BY EmptySeq DEF CopyTyped
<1>2. 1 \in 1 .. Len(c.ranges)
  BY <1>1
<1>3. r.start \in Nat /\ r.length \in Nat
  BY <1>1, <1>2, RangeAt
<1>4. n \in Nat /\ l \in Nat /\ o \in Nat
  BY LenProperties DEF CopyTyped
<1>5. o = r.start + n /\ n + l = r.length /\ o >= size /\ r.start + r.length <= size
  BY DEF Single
<1> HIDE DEF r, n, l, o
<1>6. l = 0
  BY <1>3, <1>4, <1>5
<1>7. QED
  BY <1>6 DEF l

\* A reply with content announces the whole file, or the ranges that the request asks for.
AsAsked(q, r, f) ==
    \/ r.code = 200 /\ r.ranges = Whole(f)
    \/ /\ r.code = 206 /\ q.range # Nil /\ parseRange(q.range, f.size) # Nil
       /\ r.ranges = parseRange(q.range, f.size)

LEMMA ServeContentAsked ==
    ASSUME NEW q, GoodRequest(q), NEW name, NEW f \in Stats,
           serveContent(q, name, f).page = "content"
    PROVE  serveContent(q, name, f).file = name /\ AsAsked(q, serveContent(q, name, f), f)
<1> DEFINE r == serveContent(q, name, f)
           rs == parseRange(q.range, f.size)
<1>1. \/ r = NotModified
      \/ r.page = "bad range"
      \/ IsContent(r, 200, name, Whole(f), f)
      \/ q.range # Nil /\ rs # Nil /\ IsContent(r, 206, name, rs, f)
  BY ServeContentCases
<1>2. r.page = "content"
  OBVIOUS
<1> HIDE DEF r, rs
<1>3. r # NotModified /\ r.page # "bad range"
  BY <1>2, NotModifiedGood
<1>4. CASE IsContent(r, 200, name, Whole(f), f)
  <2>1. r.file = name /\ r.code = 200 /\ r.ranges = Whole(f)
    BY <1>4 DEF IsContent
  <2>2. QED
    BY <2>1 DEF AsAsked, r
<1>5. CASE q.range # Nil /\ rs # Nil /\ IsContent(r, 206, name, rs, f)
  <2>1. r.file = name /\ r.code = 206 /\ r.ranges = rs
    BY <1>5 DEF IsContent
  <2>2. QED
    BY <1>5, <2>1 DEF AsAsked, r, rs
<1>6. QED
  BY <1>1, <1>3, <1>4, <1>5

\* Only serveContent replies with content.
LEMMA ServeFileAsked ==
    ASSUME FilesOK, NEW q, GoodRequest(q), NEW p, serveFile(files, q, p).page = "content"
    PROVE  AsAsked(q, serveFile(files, q, p), files[serveFile(files, q, p).file])
<1> DEFINE r == serveFile(files, q, p)
           shown == Shown(files, Clean(p.segs))
<1>1. ServedAs(r, files, q, p) /\ r.page = "content"
  BY ServeFileCases
<1> HIDE DEF r
<1>2. r # NotFound /\ r # NotModified
  BY <1>1, NotFoundGood, NotModifiedGood
<1>3. \A ref : r # localRedirect(ref)
  BY <1>1 DEF localRedirect, Reply
<1>4. r # DirRedirect(p) /\ r # FileRedirect(p)
  BY <1>3 DEF DirRedirect, FileRedirect
<1>5. \A name, f : r # Listing(name, f)
  BY <1>1 DEF Listing, Reply
<1>6. Clean(p.segs) \in DOMAIN files /\ r = serveContent(q, shown, files[shown])
  BY <1>1, <1>2, <1>3, <1>4, <1>5 DEF ServedAs
<1>7. files[shown] \in Stats
  BY <1>6, ShownThere DEF FilesOK
<1> HIDE DEF shown
<1>8. r.file = shown /\ AsAsked(q, r, files[shown])
  BY <1>1, <1>6, <1>7, ServeContentAsked
<1>9. QED
  BY <1>8 DEF r

LEMMA AnswerAsked ==
    ASSUME SiteInv, client.at = "send", NEW up, Answer(client.req, up).page = "content"
    PROVE  AsAsked(client.req, Answer(client.req, up), files[Answer(client.req, up).file])
<1> DEFINE q == client.req
           r == Answer(q, up)
           h == RouteOf(q.path)
           p == IF h = Nil THEN Nil ELSE StripPrefix(h.prefix, q.path)
<1>1. MuxInv /\ FilesOK /\ todo = {} /\ GoodRequest(q)
  BY DEF SiteInv, ClientOK
<1>2. q.path \in Paths
  BY <1>1 DEF GoodRequest
<1>3. \/ r.page = "redirect"
      \/ r = serveFile(files, q, q.path)
      \/ (h = Nil \/ GoodRoute(h)) /\ r = RoundTrip(h, q, p, up)
  BY <1>1, AnswerCases
<1>4. r.page = "content"
  OBVIOUS
<1> HIDE DEF r, h, p, q
<1>5. CASE r = serveFile(files, q, q.path)
  <2>1. AsAsked(q, r, files[r.file])
    BY <1>1, <1>4, <1>5, ServeFileAsked
  <2>2. QED
    BY <2>1 DEF r, q
<1>6. CASE (h = Nil \/ GoodRoute(h)) /\ r = RoundTrip(h, q, p, up)
  <2>1. r # NotFound /\ ~Proxied(r, q.path)
    BY <1>4, NotFoundGood DEF Proxied
  <2>2. h # Nil /\ h \in Routes
    BY <1>6, <2>1 DEF RoundTrip, GoodRoute
  <2>3. h.kind \in {"proxy", "redirect", "files"} /\ h.code \in Nat /\ h.to \in Refs \cup {Nil}
    BY <2>2 DEF Routes
  <2>4. h.kind # "proxy"
    <3>1. h.kind = "proxy" => r = mainHandler(q, up)
      BY <1>6, <2>2 DEF RoundTrip
    <3>2. QED
      BY <2>1, <3>1, MainProxied
  <2>5. h.kind # "redirect"
    <3>1. SUFFICES ASSUME h.kind = "redirect" PROVE FALSE
      OBVIOUS
    <3>2. r = Redirect(q.path, h.to, h.code) /\ h.to \in Refs
      BY <1>6, <2>2, <2>3, <3>1 DEF RoundTrip, GoodRoute
    <3>3. q.path \in Paths
      BY <1>2 DEF q
    <3>4. r.page = "redirect"
      BY <2>3, <3>2, <3>3, RedirectGood
    <3>5. QED
      BY <1>4, <3>4
  <2>6. h.kind = "files"
    BY <2>3, <2>4, <2>5
  <2>7. p # Nil /\ r = serveFile(files, q, p)
    BY <1>6, <2>1, <2>2, <2>6 DEF RoundTrip
  <2>8. AsAsked(q, r, files[r.file])
    BY <1>1, <1>4, <2>7, ServeFileAsked
  <2>9. QED
    BY <2>8 DEF r, q
<1>7. QED
  BY <1>3, <1>4, <1>5, <1>6

LEMMA AskedWithin ==
    ASSUME NEW f \in Stats, NEW q, GoodRequest(q), NEW r, AsAsked(q, r, f)
    PROVE  /\ f.size \in Nat /\ Len(r.ranges) \in Nat
           /\ \A i \in 1 .. Len(r.ranges) : r.ranges[i].start + r.ranges[i].length <= f.size
<1>1. f.size \in Nat /\ q.range \in Specs \cup {Nil}
  BY DEF Stats, GoodRequest
<1>2. CASE r.ranges = Whole(f)
  <2> DEFINE rs == Whole(f)
  <2>1. Len(rs) = 1 /\ rs[1].start = 0 /\ rs[1].length = f.size
    BY WholeTyped
  <2> HIDE DEF rs
  <2>2. \A i \in 1 .. Len(rs) : rs[i].start + rs[i].length <= f.size
    BY <1>1, <2>1
  <2>3. QED
    BY <1>1, <1>2, <2>1, <2>2 DEF rs
<1>3. CASE /\ q.range # Nil /\ parseRange(q.range, f.size) # Nil
           /\ r.ranges = parseRange(q.range, f.size)
  <2> DEFINE rs == parseRange(q.range, f.size)
             n == Len(q.range)
             size == f.size
  <2>1. q.range \in Specs
    BY <1>1, <1>3
  <2>2. /\ rs \in Seq(RangeSet) /\ Len(rs) = n
        /\ \A i \in 1 .. n : rs[i].start + rs[i].length <= size
    BY <1>1, <1>3, <2>1, ParsedRanges
  <2> HIDE DEF rs, n, size
  <2>3. Len(rs) \in Nat
    BY <2>2, LenProperties
  <2>4. QED
    BY <1>1, <1>3, <2>2, <2>3 DEF rs, size
<1>4. QED
  BY <1>2, <1>3 DEF AsAsked

\* The bodies that ContentAsAsked speaks of, as long as they are read: the goroutine copies
\* what the reply announced, and has not ended before it has copied everything.
Reading ==
    /\ client.at \in {"body", "done"} /\ client.reply.page = "content"
    /\ client.steady /\ ~client.closed /\ client.req.method # "HEAD"

Copied(c, w) ==
    /\ c.at \in {"copy", "ended"} /\ (c.at = "ended" => c.left = 0)
    /\ IF c.multi THEN Parted(c, w) ELSE Single(c) /\ w.at = "none"

Announced(c, q, r) ==
    c.file = r.file /\ c.ranges = r.ranges /\ c.multi = r.multi /\ AsAsked(q, r, files[r.file])

BodyInv ==
    /\ client.at = "reply" => client.reply.page # "content"
    /\ Reading =>
         /\ Announced(copy[client.num], client.req, client.reply)
         /\ Copied(copy[client.num], parts[client.num])
         /\ client.at = "done" => copy[client.num].at = "ended"

LEMMA ReadFacts ==
    ASSUME SiteInv, BodyInv, Reading
    PROVE  LET g == client.num
               c == copy[g]
               size == files[c.file].size
           IN /\ g \in 1 .. MaxGets /\ g \in DOMAIN copy /\ g \in DOMAIN parts
              /\ CopyTyped(c) /\ PartTyped(parts[g], Len(c.ranges))
              /\ c.ranges # <<>> /\ c.multi = (Len(c.ranges) > 1) /\ size \in Nat
              /\ \A i \in 1 .. Len(c.ranges) : c.ranges[i].start + c.ranges[i].length <= size
<1> DEFINE g == client.num
           c == copy[g]
           r == client.reply
           f == files[r.file]
<1>1. /\ client.num \in 0 .. MaxGets /\ client.num >= 1 /\ GoodRequest(client.req) /\ GoodReply(r)
  BY DEF SiteInv, ClientOK, Reading
<1>2. g \in 1 .. MaxGets
  BY <1>1, SiteAssumption
<1>3. /\ DOMAIN copy = 1 .. MaxGets /\ DOMAIN parts = 1 .. MaxGets
      /\ CopyTyped(c) /\ PartTyped(parts[g], Len(c.ranges))
  BY <1>2 DEF SiteInv, CopyOK
<1>4. c.file = r.file /\ c.ranges = r.ranges /\ c.multi = r.multi /\ AsAsked(client.req, r, f)
  BY DEF BodyInv, Announced
<1>5. r.file \in DOMAIN FirstFiles /\ r.multi = (Len(r.ranges) > 1) /\ r.ranges # <<>>
  BY <1>1 DEF GoodReply, Reading
<1>6. f \in Stats
  BY <1>5 DEF SiteInv, FilesOK
<1> HIDE DEF r, f, g, c
<1>7. f.size \in Nat /\ \A i \in 1 .. Len(r.ranges) : r.ranges[i].start + r.ranges[i].length <= f.size
  BY <1>1, <1>4, <1>6, AskedWithin
<1>8. files[c.file].size = f.size
  BY <1>4 DEF f
<1>9. QED
  BY <1>2, <1>3, <1>4, <1>5, <1>7, <1>8 DEF g, c

LEMMA BodyInit == Init => BodyInv
<1> SUFFICES ASSUME Init PROVE BodyInv
  OBVIOUS
<1>1. client.at = "idle"
  BY DEF Init
<1>2. QED
  BY <1>1 DEF BodyInv, Reading

LEMMA BodyFrame ==
    ASSUME BodyInv, UNCHANGED <<client, copy, parts, files>>
    PROVE  BodyInv'
  BY DEF BodyInv, Reading, Announced

\* A step of the goroutines of one Get.
LEMMA ServerBody ==
    ASSUME SiteInv, BodyInv, ServerFrame, NEW g \in 1 .. MaxGets, NEW d, NEW v,
           copy' = [copy EXCEPT ![g] = d], parts' = [parts EXCEPT ![g] = v],
           g = client.num /\ Reading =>
              /\ d.file = copy[g].file /\ d.ranges = copy[g].ranges /\ d.multi = copy[g].multi
              /\ Copied(d, v) /\ (client.at = "done" => d.at = "ended")
    PROVE  BodyInv'
<1>1. client' = client /\ files' = files
  BY DEF ServerFrame
<1>2. Reading' = Reading
  BY <1>1 DEF Reading
<1>3. ASSUME Reading
      PROVE  /\ Announced(copy'[client.num], client.req, client.reply)
             /\ Copied(copy'[client.num], parts'[client.num])
             /\ client.at = "done" => copy'[client.num].at = "ended"
  <2> DEFINE k == client.num
  <2>1. k \in DOMAIN copy /\ k \in DOMAIN parts
    BY <1>3, ReadFacts
  <2>2. /\ Announced(copy[k], client.req, client.reply) /\ Copied(copy[k], parts[k])
        /\ client.at = "done" => copy[k].at = "ended"
    BY <1>3 DEF BodyInv
  <2>3. CASE k = g
    <3>1. copy'[k] = d /\ parts'[k] = v
      BY <2>1, <2>3
    <3> HIDE DEF k
    <3>2. Announced(d, client.req, client.reply)
      BY <1>3, <2>2, <2>3 DEF Announced, k
    <3>3. Copied(d, v) /\ (client.at = "done" => d.at = "ended")
      BY <1>3, <2>3 DEF k
    <3>4. QED
      BY <3>1, <3>2, <3>3 DEF k
  <2>4. CASE k # g
    <3>1. copy'[k] = copy[k] /\ parts'[k] = parts[k]
      BY <2>1, <2>4
    <3>2. QED
      BY <2>2, <3>1
  <2>5. QED
    BY <2>3, <2>4
<1>4. QED
  BY <1>1, <1>2, <1>3 DEF BodyInv, Announced

LEMMA CopyByteBody ==
    ASSUME SiteInv, BodyInv, NEW g \in 1 .. MaxGets, CopyByte(g)
    PROVE  BodyInv'
<1> DEFINE c == copy[g]
           d == Put(c, c.off)
           e == [d EXCEPT !.off = @ + 1]
<1>1. c.at = "copy" /\ c.left > 0 /\ ~c.multi /\ ServerFrame
  BY DEF CopyByte, ServerFrame
<1>2. CopyTyped(c) /\ parts = [parts EXCEPT ![g] = parts[g]]
  BY <1>1, BegunAt
<1>3. copy' = [copy EXCEPT ![g] = e]
  BY DEF CopyByte
<1>4. parts' = [parts EXCEPT ![g] = parts[g]]
  BY <1>2 DEF CopyByte
<1>5. g = client.num /\ Reading =>
         /\ c.ranges # <<>> /\ Copied(c, parts[g]) /\ (client.at = "done" => c.at = "ended")
  BY ReadFacts DEF BodyInv
<1> HIDE DEF c
<1>6. /\ CopyTyped(d) /\ d.at = c.at /\ d.file = c.file /\ d.ranges = c.ranges
      /\ d.multi = c.multi /\ d.off = c.off /\ d.left = c.left - 1
      /\ d.sent = Append(c.sent, c.off)
  <2>1. c.off \in Int
    BY <1>2 DEF CopyTyped
  <2>2. QED
    BY <1>1, <1>2, <2>1, PutTyped
<1> HIDE DEF d
<1>7. DOMAIN d = CopyFields
  BY <1>6 DEF CopyTyped
<1>8. e.at = d.at /\ e.file = d.file /\ e.ranges = d.ranges /\ e.multi = d.multi
  BY <1>7 DEF CopyFields
<1>9. e.sent = d.sent /\ e.left = d.left /\ e.off = d.off + 1
  BY <1>7 DEF CopyFields
<1> HIDE DEF e
<1>10. ASSUME g = client.num /\ Reading
       PROVE  Copied(e, parts[g]) /\ (client.at = "done" => e.at = "ended")
  <2>1. Single(c) /\ parts[g].at = "none"
    BY <1>1, <1>5, <1>10 DEF Copied
  <2>2. e.ranges = c.ranges /\ e.sent = Append(c.sent, c.off) /\ e.left = c.left - 1
    BY <1>6, <1>8, <1>9
  <2>3. e.off = c.off + 1
    BY <1>6, <1>9
  <2>4. Single(e)
    BY <1>1, <1>2, <1>5, <1>10, <2>1, <2>2, <2>3, SingleStep
  <2>5. e.at = "copy" /\ ~e.multi /\ client.at # "done"
    BY <1>1, <1>5, <1>6, <1>8, <1>10
  <2>6. QED
    BY <2>1, <2>4, <2>5 DEF Copied
<1>11. g = client.num /\ Reading =>
          /\ e.file = copy[g].file /\ e.ranges = copy[g].ranges /\ e.multi = copy[g].multi
          /\ Copied(e, parts[g]) /\ (client.at = "done" => e.at = "ended")
  BY <1>6, <1>8, <1>10 DEF c
<1>12. QED
  BY <1>1, <1>3, <1>4, <1>11, ServerBody

\* CopyN ends a body that is read only when there is nothing left: the file is long enough,
\* and the writer of the parts does not exit before.
LEMMA EndsWhole ==
    ASSUME SiteInv, BodyInv, Reading, NEW g, g = client.num, CopyEnds(g)
    PROVE  copy[g].left = 0
<1> DEFINE c == copy[g]
           w == parts[g]
           size == files[c.file].size
<1>1. /\ c.at = "copy"
      /\ \/ c.left = 0
         \/ ~Listening(g)
         \/ ~c.multi /\ c.off >= size
         \/ c.multi /\ w.at = "exit"
  BY DEF CopyEnds
<1>2. /\ CopyTyped(c) /\ PartTyped(w, Len(c.ranges)) /\ c.ranges # <<>> /\ size \in Nat
      /\ \A i \in 1 .. Len(c.ranges) : c.ranges[i].start + c.ranges[i].length <= size
  BY ReadFacts
<1>3. Copied(c, w) /\ (client.at = "done" => c.at = "ended")
  BY DEF BodyInv
<1>4. Listening(g)
  BY <1>1, <1>3 DEF Reading, Listening
<1> HIDE DEF c, w, size
<1>5. CASE ~c.multi /\ c.off >= size
  <2>1. Single(c)
    BY <1>3, <1>5 DEF Copied
  <2>2. 1 \in 1 .. Len(c.ranges)
    <3>1. Len(c.ranges) \in Nat \ {0}
      BY <1>2, EmptySeq DEF CopyTyped
    <3>2. QED
      BY <3>1
  <2>3. c.ranges[1].start + c.ranges[1].length <= size
    BY <1>2, <2>2
  <2>4. c.left = 0
    BY <1>2, <1>5, <2>1, <2>3, SingleEnds
  <2>5. QED
    BY <2>4 DEF c
<1>6. CASE c.multi /\ w.at = "exit"
  <2>1. Parted(c, w)
    BY <1>3, <1>6 DEF Copied
  <2>2. c.left = 0
    BY <1>2, <1>6, <2>1, PartedLeft
  <2>3. QED
    BY <2>2 DEF c
<1>7. QED
  BY <1>1, <1>4, <1>5, <1>6 DEF c

LEMMA CopyEndsBody ==
    ASSUME SiteInv, BodyInv, NEW g \in 1 .. MaxGets, CopyEnds(g)
    PROVE  BodyInv'
<1> DEFINE c == copy[g]
           e == [c EXCEPT !.at = "ended"]
<1>1. c.at = "copy" /\ ServerFrame
  BY DEF CopyEnds, ServerFrame
<1>2. CopyTyped(c) /\ parts = [parts EXCEPT ![g] = parts[g]]
  BY <1>1, BegunAt
<1>3. copy' = [copy EXCEPT ![g] = e]
  BY DEF CopyEnds
<1>4. parts' = [parts EXCEPT ![g] = parts[g]]
  BY <1>2 DEF CopyEnds
<1>5. g = client.num /\ Reading => c.left = 0 /\ Copied(c, parts[g])
  BY EndsWhole DEF BodyInv
<1> HIDE DEF c
<1>6. DOMAIN c = CopyFields
  BY <1>2 DEF CopyTyped
<1>7. e.at = "ended" /\ e.file = c.file /\ e.ranges = c.ranges /\ e.multi = c.multi
  BY <1>6 DEF CopyFields
<1>8. e.sent = c.sent /\ e.left = c.left /\ e.off = c.off
  BY <1>6 DEF CopyFields
<1> HIDE DEF e
<1>9. ASSUME g = client.num /\ Reading PROVE Copied(e, parts[g])
  <2>1. Single(c) => Single(e)
    BY <1>7, <1>8 DEF Single
  <2>2. Parted(c, parts[g]) => Parted(e, parts[g])
    BY <1>7, <1>8 DEF Parted, Written
  <2>3. QED
    BY <1>5, <1>7, <1>8, <1>9, <2>1, <2>2 DEF Copied
<1>10. g = client.num /\ Reading =>
          /\ e.file = copy[g].file /\ e.ranges = copy[g].ranges /\ e.multi = copy[g].multi
          /\ Copied(e, parts[g]) /\ (client.at = "done" => e.at = "ended")
  BY <1>7, <1>9 DEF c
<1>11. QED
  BY <1>1, <1>3, <1>4, <1>10, ServerBody

LEMMA WritePartBody ==
    ASSUME SiteInv, BodyInv, NEW g \in 1 .. MaxGets, WritePart(g)
    PROVE  BodyInv'
<1> DEFINE c == copy[g]
           w == parts[g]
           unit == PartUnit(g)
           d == Put(c, unit)
           v == AfterUnit(g)
<1>1. c.at = "copy" /\ c.left > 0 /\ w.at = "parts" /\ ServerFrame
  BY DEF WritePart, ServerFrame
<1>2. CopyTyped(c) /\ PartTyped(w, Len(c.ranges))
  BY <1>1, BegunAt
<1>3. copy' = [copy EXCEPT ![g] = d] /\ parts' = [parts EXCEPT ![g] = v]
  BY DEF WritePart
<1>4. unit \in Int
  BY <1>2, UnitTyped
<1>5. ASSUME g = client.num /\ Reading
      PROVE  c.multi /\ Parted(c, w) /\ client.at # "done"
  <2>1. Copied(c, w) /\ (client.at = "done" => c.at = "ended")
    BY <1>5 DEF BodyInv
  <2>2. QED
    BY <1>1, <2>1 DEF Copied
<1>6. g = client.num /\ Reading => Parted(d, v)
  BY <1>1, <1>2, <1>5, PartedStep
<1> HIDE DEF c, w, unit, v
<1>7. /\ d.at = c.at /\ d.file = c.file /\ d.ranges = c.ranges /\ d.multi = c.multi
  BY <1>1, <1>2, <1>4, PutTyped
<1> HIDE DEF d
<1>8. g = client.num /\ Reading =>
         /\ d.file = copy[g].file /\ d.ranges = copy[g].ranges /\ d.multi = copy[g].multi
         /\ Copied(d, v) /\ (client.at = "done" => d.at = "ended")
  <2>1. SUFFICES ASSUME g = client.num /\ Reading
                 PROVE  /\ d.file = c.file /\ d.ranges = c.ranges /\ d.multi = c.multi
                        /\ Copied(d, v) /\ client.at # "done"
    BY DEF c
  <2>2. d.multi /\ d.at = "copy" /\ Parted(d, v) /\ client.at # "done"
    BY <1>1, <1>5, <1>6, <1>7, <2>1
  <2>3. QED
    BY <1>7, <2>2 DEF Copied
<1>9. QED
  BY <1>1, <1>3, <1>8, ServerBody

\* The writer of the parts of a body that is read does not fail.
LEMMA PartFailsBody ==
    ASSUME SiteInv, BodyInv, NEW g \in 1 .. MaxGets, PartFails(g)
    PROVE  BodyInv'
<1> DEFINE c == copy[g]
           w == parts[g]
           v == [w EXCEPT !.at = "exit"]
           size == files[c.file].size
<1>1. w.at = "parts" /\ (c.at = "ended" \/ PartUnit(g) >= size) /\ ServerFrame
  BY DEF PartFails, ServerFrame
<1>2. CopyTyped(c) /\ PartTyped(w, Len(c.ranges)) /\ copy = [copy EXCEPT ![g] = copy[g]]
  BY <1>1, BegunAt
<1>3. parts' = [parts EXCEPT ![g] = v]
  BY DEF PartFails
<1>4. copy' = [copy EXCEPT ![g] = copy[g]]
  BY <1>2 DEF PartFails
<1>5. ~(g = client.num /\ Reading)
  <2>1. SUFFICES ASSUME g = client.num /\ Reading PROVE FALSE
    OBVIOUS
  <2>2. /\ size \in Nat
        /\ \A i \in 1 .. Len(c.ranges) : c.ranges[i].start + c.ranges[i].length <= size
    BY <2>1, ReadFacts
  <2>3. Copied(c, w)
    BY <2>1 DEF BodyInv
  <2>4. Parted(c, w)
    BY <1>1, <2>3 DEF Copied
  <2>5. c.left > 0
    BY <1>1, <1>2, <2>4, PartedLeft
  <2>6. PartUnit(g) < size
    BY <1>1, <1>2, <2>2, <2>4, PartedInFile
  <2>7. c.at # "ended"
    BY <2>3, <2>5 DEF Copied
  <2>8. PartUnit(g) \in Int
    BY <1>2, UnitTyped
  <2>9. QED
    BY <1>1, <2>2, <2>6, <2>7, <2>8
<1> HIDE DEF v
<1>6. QED
  BY <1>1, <1>3, <1>4, <1>5, ServerBody

\* The goroutines are started for what the reply announces.
LEMMA SendBody ==
    ASSUME SiteInv, BodyInv, NEW up, Send(up)
    PROVE  BodyInv'
<1> DEFINE r == Answer(client.req, up)
           g == client.num
           head == client.req.method = "HEAD"
<1>1. Handed(r) /\ client.at = "send"
  BY SendIs DEF Send
<1>2. GoodReply(r)
  BY <1>1, AnswerGood
<1>3. r.page = "content" => AsAsked(client.req, r, files[r.file])
  BY <1>1, AnswerAsked
<1> HIDE DEF r
<1>4. /\ client'.at = (IF Copying(r) THEN "body" ELSE "reply") /\ client'.reply = r
      /\ client'.num = g /\ client'.req = client.req
  BY <1>1, <1>2, HandedKeeps
<1>5. files' = files
  BY <1>1 DEF Handed
<1>6. CASE ~Copying(r)
  BY <1>4, <1>6 DEF BodyInv, Reading, Copying
<1>7. CASE Copying(r)
  <2> DEFINE c == [at |-> "copy", file |-> r.file, ranges |-> r.ranges, multi |-> r.multi,
                   left |-> IF client.req.method = "HEAD" THEN 0 ELSE SendSize(r),
                   off |-> r.ranges[1].start, sent |-> <<>>]
             w == [NoPart EXCEPT !.at = IF r.multi THEN "parts" ELSE @]
  <2>1. g \in 1 .. MaxGets /\ g \in DOMAIN copy /\ g \in DOMAIN parts /\ parts[g] = NoPart
    <3>1. g >= 1 /\ g \in 0 .. MaxGets /\ CopyOK /\ MaxGets \in Nat
      BY <1>1, SiteAssumption DEF SiteInv, ClientOK
    <3>2. g \in 1 .. MaxGets /\ Before(g)
      BY <1>1, <3>1 DEF Before
    <3>3. QED
      BY <3>1, <3>2 DEF CopyOK
  <2>2. copy' = [copy EXCEPT ![g] = c]
    BY <1>1, <1>7 DEF Handed, StartCopy
  <2>3. parts' = [parts EXCEPT ![g].at = IF r.multi THEN "parts" ELSE @]
    BY <1>1, <1>7 DEF Handed, StartCopy
  <2>4. copy'[g] = c
    BY <2>1, <2>2
  <2>5. parts'[g] = w
    BY <2>1, <2>3
  <2>6. r.page = "content" /\ client'.at = "body"
    BY <1>4, <1>7 DEF Copying
  <2>7. /\ r.file \in DOMAIN FirstFiles /\ r.multi = (Len(r.ranges) > 1)
        /\ r.ranges \in Seq(RangeSet) /\ r.ranges # <<>>
    BY <1>2, <2>6 DEF GoodReply
  <2>8. c.at = "copy" /\ c.file = r.file /\ c.ranges = r.ranges /\ c.multi = r.multi
    OBVIOUS
  <2>9. /\ c.off = r.ranges[1].start /\ c.sent = <<>>
        /\ c.left = IF client.req.method = "HEAD" THEN 0 ELSE SendSize(r)
    OBVIOUS
  <2>10. w.part = 1 /\ w.off = -1 /\ w.at = IF r.multi THEN "parts" ELSE "none"
    BY DEF NoPart
  <2>11. CopyTyped(copy'[g])
    <3>1. CopyOK'
      BY <1>1, <1>2, HandedKeeps DEF SiteInv
    <3>2. QED
      BY <2>1, <3>1 DEF CopyOK
  <2> HIDE DEF c, w, g
  <2>12. CopyTyped(c)
    BY <2>4, <2>11
  <2>13. ASSUME ~head PROVE Copied(c, w)
    <3>1. c.left = SendSize(r)
      BY <2>9, <2>13
    <3>2. CASE r.multi
      <4>1. c.left = rangesMIMESize(c.ranges)
        BY <2>8, <3>1, <3>2 DEF SendSize
      <4>2. w.at = "parts"
        BY <2>10, <3>2
      <4>3. Parted(c, w)
        BY <2>9, <2>10, <2>12, <4>1, <4>2, PartedStarts
      <4>4. QED
        BY <2>8, <3>2, <4>3 DEF Copied
    <3>3. CASE ~r.multi
      <4>1. c.left = c.ranges[1].length
        BY <2>8, <3>1, <3>3 DEF SendSize
      <4>2. Single(c)
        BY <2>7, <2>8, <2>9, <2>12, <4>1, SingleStarts
      <4>3. w.at = "none"
        BY <2>10, <3>3
      <4>4. QED
        BY <2>8, <3>3, <4>2, <4>3 DEF Copied
    <3>4. QED
      BY <3>2, <3>3
  <2>14. Announced(c, client.req, r)
    BY <1>3, <2>6, <2>8 DEF Announced
  <2>15. Reading' => ~head
    BY <1>4 DEF Reading
  <2>16. copy'[client'.num] = c /\ parts'[client'.num] = w
    BY <1>4, <2>4, <2>5
  <2>17. QED
    BY <1>4, <1>5, <2>6, <2>13, <2>14, <2>15, <2>16 DEF BodyInv, Announced
<1>8. QED
  BY <1>6, <1>7

\* The end of a Get: its body has been copied in full, or it is closed, or it has none.
LEMMA EndBody ==
    ASSUME SiteInv, BodyInv, NEW r, NEW closed, EndStep(r, closed),
           \/ closed
           \/ r.page # "content"
           \/ /\ client.at = "body" /\ copy[client.num].at = "ended"
              /\ r = client.reply /\ closed = client.closed
    PROVE  BodyInv'
<1>1. /\ client'.at = "done" /\ client'.num = client.num /\ client'.reply = r
      /\ client'.closed = closed /\ client'.steady = client.steady /\ client'.req = client.req
  BY EndsKeep DEF EndStep
<1>2. files' = files /\ copy' = copy /\ parts' = parts
  BY DEF EndStep, CallerFrame
<1>3. CASE closed \/ r.page # "content"
  BY <1>1, <1>3 DEF BodyInv, Reading
<1>4. CASE /\ client.at = "body" /\ copy[client.num].at = "ended"
           /\ r = client.reply /\ closed = client.closed
  <2>1. Reading' => Reading
    BY <1>1, <1>4 DEF Reading
  <2>2. QED
    BY <1>1, <1>2, <1>4, <2>1 DEF BodyInv, Announced
<1>5. QED
  BY <1>3, <1>4

LEMMA BodyNext ==
    ASSUME SiteInv, BodyInv, [Next]_vars
    PROVE  BodyInv'
<1>0. DOMAIN client = ClientFields /\ FilesOK /\ Sizes \subseteq Nat
  BY SiteAssumption DEF SiteInv, ClientOK
<1>1. CASE UNCHANGED vars
  BY <1>1, BodyFrame DEF vars
<1>2. CASE \E pattern \in todo : Register(pattern)
  BY <1>2, BodyFrame DEF Register
\* The next request is yet to be sent, or the caller is idle.
<1>3. CASE client'.at \in {"idle", "send"}
  BY <1>3 DEF BodyInv, Reading
<1>4. ASSUME NEW ask \in Gets, StartGet(ask) PROVE BodyInv'
  <2>1. client'.at = "send"
    BY <1>0, <1>4 DEF StartGet, ClientFields
  <2>2. QED
    BY <1>3, <2>1
<1>5. ASSUME NEW up, Send(up) PROVE BodyInv'
  BY <1>5, SendBody
<1>6. CASE Follow
  BY <1>3, <1>6, FollowKeeps
<1>7. CASE GiveUp
  <2>1. Reply(0, "error", Nil).page # "content"
    BY DEF Reply
  <2>2. EndStep(Reply(0, "error", Nil), client.closed)
    BY <1>7, EndSteps
  <2>3. QED
    BY <2>1, <2>2, EndBody
<1>8. CASE Got
  <2>1. client.at = "reply" /\ EndStep(client.reply, client.closed)
    BY <1>8, EndSteps
  <2>2. client.reply.page # "content"
    BY <2>1 DEF BodyInv
  <2>3. QED
    BY <2>1, <2>2, EndBody
<1>9. CASE BodyEnds
  <2>1. /\ client.at = "body" /\ copy[client.num].at = "ended"
        /\ EndStep(client.reply, client.closed)
    BY <1>9, EndSteps
  <2>2. QED
    BY <2>1, EndBody
<1>10. CASE CloseBody
  <2>1. EndStep(client.reply, TRUE)
    BY <1>10, EndSteps
  <2>2. QED
    BY <2>1, EndBody
<1>11. CASE Keep
  <2>1. client'.at = "idle"
    BY <1>0, <1>11 DEF Keep, ClientFields
  <2>2. QED
    BY <1>3, <2>1
<1>12. ASSUME NEW g \in 1 .. MaxGets, Serve(g) \/ PartFails(g) PROVE BodyInv'
  BY <1>12, CopyByteBody, CopyEndsBody, WritePartBody, PartFailsBody DEF Serve
\* While a file changes the caller has no claim to it, before or after.
<1>13. ASSUME Changed, FilesOK' PROVE BodyInv'
  <2>1. client'.at = client.at /\ client'.reply = client.reply /\ ~client'.steady
    BY <1>13, ChangedKeeps
  <2>2. QED
    BY <2>1 DEF BodyInv, Reading
<1>14. ASSUME NEW name \in DOMAIN files, Swap(name) PROVE BodyInv'
  BY <1>0, <1>13, <1>14, SwapFiles DEF Swap
<1>15. ASSUME NEW name \in DOMAIN files, NEW s \in Sizes, NEW l \in {1, 2}, Rewrite(name, s, l)
       PROVE  BodyInv'
  <2>1. s \in Nat /\ l \in Nat
    BY <1>0
  <2>2. QED
    BY <1>0, <1>13, <1>15, <2>1, RewriteFiles DEF Rewrite
<1>16. QED
  BY <1>1, <1>2, <1>4, <1>5, <1>6, <1>7, <1>8, <1>9, <1>10, <1>11, <1>12, <1>14, <1>15 DEF Next, Get

\* A single range that has been copied in full, and several with their headers and the last
\* boundary.
LEMMA SingleWhole ==
    ASSUME NEW c, CopyTyped(c), Single(c), c.left = 0, c.ranges # <<>>
    PROVE  c.sent = First(c.ranges[1], c.ranges[1].length) /\ Len(c.sent) = c.ranges[1].length
<1>1. Len(c.sent) \in Nat
  BY LenProperties DEF CopyTyped
<1>2. Len(c.sent) + 0 = c.ranges[1].length /\ c.sent = First(c.ranges[1], Len(c.sent))
  BY DEF Single
<1>3. Len(c.sent) = c.ranges[1].length
  BY <1>1, <1>2
<1>4. QED
  BY <1>2, <1>3

LEMMA PartedWhole ==
    ASSUME NEW c, CopyTyped(c), NEW w, PartTyped(w, Len(c.ranges)), Parted(c, w), c.left = 0,
           c.ranges # <<>>
    PROVE  /\ c.sent = FlattenSeq([i \in 1 .. Len(c.ranges) |-> Part(c.ranges[i])]) \o <<-2>>
           /\ Len(c.sent) = rangesMIMESize(c.ranges)
<1> DEFINE rs == c.ranges
           n == Len(rs)
           s == [i \in 1 .. n |-> Part(rs[i])]
<1>1. rs \in Seq(RangeSet) /\ n \in Nat /\ n > 0 /\ c.sent \in Seq(Int) /\ Len(c.sent) \in Nat
  BY EmptySeq, LenProperties DEF CopyTyped
<1>2. w.at = "exit"
  <2>1. ~(c.left > 0)
    OBVIOUS
  <2>2. QED
    BY <2>1, PartedLeft DEF Parted
<1>3. Len(c.sent) + 0 = rangesMIMESize(rs)
  BY DEF Parted
<1> HIDE DEF rs
<1>4. PICK f : PartsOf(f, rs)
  BY <1>1, PartsExist
<1>5. c.sent = Append(f[n], -2)
  BY <1>2, <1>4 DEF Parted, Written, rs
<1>6. f \in [0 .. n -> Seq(Int)] /\ f[0] = <<>> /\ \A i \in 1 .. n : f[i] = f[i - 1] \o Part(rs[i])
  BY <1>4 DEF PartsOf
<1>7. \A i \in 1 .. n : Part(rs[i]) \in Seq(Int)
  BY <1>1, RangeAt
<1> HIDE DEF n
<1>8. s \in [1 .. n -> Seq(Int)] /\ \A i \in 1 .. n : s[i] = Part(rs[i])
  BY <1>7
<1> HIDE DEF s
<1>9. FlattenSeq(s) = f[n]
  <2>1. \A i \in 1 .. n : f[i] = f[i - 1] \o s[i]
    BY <1>6, <1>8
  <2>2. QED
    BY <1>1, <1>6, <1>8, <2>1, FlattenIs
<1>10. f[n] \in Seq(Int)
  BY <1>1, <1>6
<1>11. f[n] \o <<-2>> = Append(f[n], -2)
  <2> DEFINE x == f[n]
  <2>1. x \in Seq(Int)
    BY <1>10
  <2> HIDE DEF x
  <2>2. x \o <<-2>> = Append(x, -2)
    BY <2>1
  <2>3. QED
    BY <2>2 DEF x
<1>12. c.sent = FlattenSeq(s) \o <<-2>>
  BY <1>5, <1>9, <1>11
<1>13. Len(c.sent) = rangesMIMESize(rs)
  BY <1>1, <1>3
<1>14. QED
  BY <1>12, <1>13 DEF s, rs, n

\* The ranges that a caller finds in a body, as the Range header asks for them.
LEMMA RangesRead ==
    ASSUME NEW size \in Nat, NEW spec \in Specs, spec # Nil, parseRange(spec, size) # Nil,
           NEW c, CopyTyped(c), c.ranges # <<>>, c.ranges = parseRange(spec, size),
           NEW w, PartTyped(w, Len(c.ranges)), c.left = 0,
           IF Len(c.ranges) > 1 THEN Parted(c, w) ELSE Single(c)
    PROVE  LET part(i) == <<-1>> \o InOrder(Asked(spec[i], size)) IN
           /\ Len(spec) = 1 => c.sent = InOrder(Asked(spec[1], size))
           /\ Len(spec) > 1 => c.sent = FlattenSeq([i \in DOMAIN spec |-> part(i)]) \o <<-2>>
<1> DEFINE n == Len(spec)
           rs == c.ranges
           part(i) == <<-1>> \o InOrder(Asked(spec[i], size))
<1>1. /\ rs \in Seq(RangeSet) /\ Len(rs) = n /\ DOMAIN spec = 1 .. n
      /\ \A i \in 1 .. n : InOrder(Asked(spec[i], size)) = First(rs[i], rs[i].length)
  BY ParsedRanges
<1>2. n \in Nat
  BY <1>1, LenProperties
<1>3. n = 1 => c.sent = InOrder(Asked(spec[1], size))
  <2>1. SUFFICES ASSUME n = 1 PROVE c.sent = InOrder(Asked(spec[1], size))
    OBVIOUS
  <2>2. Single(c)
    BY <1>1, <2>1
  <2>3. c.sent = First(rs[1], rs[1].length)
    BY <2>2, SingleWhole
  <2>4. 1 \in 1 .. n
    BY <2>1
  <2>5. InOrder(Asked(spec[1], size)) = First(rs[1], rs[1].length)
    BY <1>1, <2>4
  <2>6. QED
    BY <2>3, <2>5
<1>4. n > 1 => c.sent = FlattenSeq([i \in DOMAIN spec |-> part(i)]) \o <<-2>>
  <2>1. SUFFICES ASSUME n > 1 PROVE c.sent = FlattenSeq([i \in DOMAIN spec |-> part(i)]) \o <<-2>>
    OBVIOUS
  <2>2. Parted(c, w)
    BY <1>1, <2>1
  <2>3. c.sent = FlattenSeq([i \in 1 .. Len(rs) |-> Part(rs[i])]) \o <<-2>>
    BY <2>2, PartedWhole
  <2>4. \A i \in 1 .. n : Part(rs[i]) = part(i)
    BY <1>1 DEF Part
  <2>5. [i \in 1 .. Len(rs) |-> Part(rs[i])] = [i \in DOMAIN spec |-> part(i)]
    BY <1>1, <2>4
  <2>6. QED
    BY <2>3, <2>5
<1>5. QED
  BY <1>3, <1>4

\* Whatever is asked for and however copying, the writing of the parts and the caller
\* interleave: a body that serveContent announces and the caller reads to its end, from
\* a file that nobody changes meanwhile, is the file, or the ranges of the header with
\* their part headers and the last boundary, in order, and as long as SendSize says.
\* CopyN never stops short of it, and the writer of the parts never fails.
THEOREM ContentIsAsAsked == Spec => []ContentAsAsked
<1>1. ASSUME SiteInv, BodyInv PROVE ContentAsAsked
  <2> DEFINE g == client.num
             c == copy[g]
             w == parts[g]
             r == client.reply
             q == client.req
             spec == q.range
             f == files[c.file]
             part(i) == <<-1>> \o InOrder(Asked(spec[i], f.size))
  <2>1. SUFFICES ASSUME /\ client.at = "done" /\ client.steady /\ r.page = "content"
                        /\ ~client.closed /\ q.method # "HEAD"
                 PROVE  /\ Len(c.sent) = SendSize(r)
                        /\ r.code = 200 => c.sent = InOrder(0 .. f.size - 1)
                        /\ r.code = 206 /\ Len(spec) = 1 =>
                             c.sent = InOrder(Asked(spec[1], f.size))
                        /\ r.code = 206 /\ Len(spec) > 1 =>
                             c.sent = FlattenSeq([i \in DOMAIN spec |-> part(i)]) \o <<-2>>
    BY Zenon DEF ContentAsAsked
  <2>2. Reading
    BY <2>1 DEF Reading
  <2>3. /\ c.file = r.file /\ c.ranges = r.ranges /\ c.multi = r.multi
        /\ AsAsked(q, r, files[r.file]) /\ Copied(c, w) /\ c.at = "ended"
    BY <1>1, <2>1, <2>2 DEF BodyInv, Announced
  <2>4. /\ CopyTyped(c) /\ PartTyped(w, Len(c.ranges)) /\ c.ranges # <<>>
        /\ c.multi = (Len(c.ranges) > 1) /\ f.size \in Nat
    BY <1>1, <2>2, ReadFacts
  <2>5. GoodRequest(q) /\ r.file \in DOMAIN FirstFiles
    BY <1>1, <2>1 DEF SiteInv, ClientOK, GoodReply
  <2>6. f \in Stats /\ AsAsked(q, r, f)
    BY <1>1, <2>3, <2>5 DEF SiteInv, FilesOK
  <2>7. c.left = 0 /\ (IF c.multi THEN Parted(c, w) ELSE Single(c))
    BY <2>3 DEF Copied
  <2> HIDE DEF c, w, r, q, f
  <2>8. Len(c.sent) = SendSize(r)
    <3>1. CASE c.multi
      BY <2>3, <2>4, <2>7, <3>1, PartedWhole DEF SendSize
    <3>2. CASE ~c.multi
      BY <2>3, <2>4, <2>7, <3>2, SingleWhole DEF SendSize
    <3>3. QED
      BY <3>1, <3>2
  <2>9. r.code = 200 => c.sent = InOrder(0 .. f.size - 1)
    <3>1. SUFFICES ASSUME r.code = 200 PROVE c.sent = InOrder(0 .. f.size - 1)
      OBVIOUS
    <3>2. c.ranges = Whole(f)
      <4>1. r.code # 206
        BY <3>1
      <4>2. QED
        BY <2>3, <2>6, <4>1 DEF AsAsked
    <3> DEFINE o == Whole(f)[1]
               size == f.size
    <3>3. Len(c.ranges) = 1 /\ o.start = 0 /\ o.length = size /\ c.ranges[1] = o
      BY <2>6, <3>2, WholeTyped
    <3>4. o \in RangeSet
      <4>1. Whole(f) \in Seq(RangeSet) /\ Len(Whole(f)) = 1
        BY <2>6, WholeTyped
      <4>2. QED
        BY <4>1, ElementOfSeq
    <3>5. ~c.multi
      <4>1. ~(Len(c.ranges) > 1)
        BY <3>3
      <4>2. QED
        BY <2>4, <4>1
    <3> HIDE DEF o, size
    <3>6. c.sent = First(o, o.length)
      BY <2>4, <2>7, <3>3, <3>5, SingleWhole
    <3>7. InOrder(o.start .. (o.start + o.length - 1)) = First(o, o.length)
      BY <3>4, IntervalInOrder
    <3>8. o.start + o.length - 1 = size - 1 /\ o.start = 0
      BY <2>4, <3>3 DEF size
    <3>9. QED
      BY <3>6, <3>7, <3>8 DEF size
  <2>10. r.code = 206 =>
           /\ Len(spec) = 1 => c.sent = InOrder(Asked(spec[1], f.size))
           /\ Len(spec) > 1 => c.sent = FlattenSeq([i \in DOMAIN spec |-> part(i)]) \o <<-2>>
    <3>1. SUFFICES ASSUME r.code = 206
                   PROVE  /\ Len(spec) = 1 => c.sent = InOrder(Asked(spec[1], f.size))
                          /\ Len(spec) > 1 => c.sent = FlattenSeq([i \in DOMAIN spec |-> part(i)]) \o <<-2>>
      OBVIOUS
    <3> DEFINE size == f.size
    <3>2. /\ spec # Nil /\ parseRange(spec, size) # Nil /\ c.ranges = parseRange(spec, size)
      <4>1. r.code # 200
        BY <3>1
      <4>2. QED
        BY <2>3, <2>6, <4>1 DEF AsAsked
    <3>3. spec \in Specs /\ size \in Nat
      BY <2>4, <2>5, <3>2 DEF GoodRequest
    <3>4. IF Len(c.ranges) > 1 THEN Parted(c, w) ELSE Single(c)
      BY <2>4, <2>7
    <3> HIDE DEF spec, size
    <3>5. LET part2(i) == <<-1>> \o InOrder(Asked(spec[i], size)) IN
          /\ Len(spec) = 1 => c.sent = InOrder(Asked(spec[1], size))
          /\ Len(spec) > 1 => c.sent = FlattenSeq([i \in DOMAIN spec |-> part2(i)]) \o <<-2>>
      BY <2>4, <2>7, <3>2, <3>3, <3>4, RangesRead
    <3>6. QED
      BY <3>5 DEF size
  <2>11. QED
    BY <2>8, <2>9, <2>10
<1>2. Init => SiteInv /\ BodyInv
  BY SiteInit, BodyInit
<1>3. SiteInv /\ BodyInv /\ [Next]_vars => (SiteInv /\ BodyInv)'
  BY SiteNext, BodyNext
<1>4. QED
  BY <1>1, <1>2, <1>3, PTL DEF Spec
=============================================================================

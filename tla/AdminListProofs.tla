-------------------------- MODULE AdminListProofs ---------------------------
(***************************************************************************)
(* Theorems about what the /admin page shows: HandlerMounts against the    *)
(* mounts of the manager, which the event handlers follow step by step.    *)
(***************************************************************************)
EXTENDS SuccessionProofs

(***************************************************************************)
(* What the list operations do to elements and to their order.             *)
(***************************************************************************)
LEMMA RemoveAtElements ==
    ASSUME NEW S, NEW s \in Seq(S), NEW p \in 1..Len(s)
    PROVE  /\ RemoveAt(s, p) \in Seq(S)
           /\ Len(RemoveAt(s, p)) = Len(s) - 1
           /\ \A i \in 1..(Len(s) - 1) :
                 RemoveAt(s, p)[i] = IF i < p THEN s[i] ELSE s[i + 1]
<1> DEFINE u == SubSeq(s, 1, p - 1)
           v == SubSeq(s, p + 1, Len(s))
<1>1. Len(s) \in Nat /\ p \in Nat /\ 1 <= p /\ p <= Len(s)
  BY LenProperties
<1>2. u \in Seq(S) /\ Len(u) = p - 1 /\ \A i \in 1..(p - 1) : u[i] = s[i]
  <2>1. \A x \in 1..(p - 1) : s[x] \in S
    BY <1>1, ElementOfSeq
  <2>2. /\ u \in Seq(S)
        /\ Len(u) = IF 1 <= p - 1 THEN (p - 1) - 1 + 1 ELSE 0
        /\ \A i \in 1..((p - 1) - 1 + 1) : u[i] = s[1 + i - 1]
    BY <1>1, <2>1, SubSeqProperties
  <2>3. (p - 1) - 1 + 1 = p - 1 /\ \A i \in 1..(p - 1) : 1 + i - 1 = i
    BY <1>1
  <2>4. QED
    BY <1>1, <2>2, <2>3
<1>3. /\ v \in Seq(S) /\ Len(v) = Len(s) - p
      /\ \A i \in 1..(Len(s) - p) : v[i] = s[p + i]
  BY SuffixElements
<1> HIDE DEF u, v
<1>4. /\ u \o v \in Seq(S) /\ Len(u \o v) = Len(s) - 1
      /\ \A i \in 1..(Len(s) - 1) : (u \o v)[i] = IF i <= p - 1 THEN u[i] ELSE v[i - (p - 1)]
  <2>1. Len(u) + Len(v) = Len(s) - 1
    BY <1>1, <1>2, <1>3
  <2>2. /\ u \o v \in Seq(S) /\ Len(u \o v) = Len(u) + Len(v)
        /\ \A i \in 1..(Len(u) + Len(v)) :
              (u \o v)[i] = IF i <= Len(u) THEN u[i] ELSE v[i - Len(u)]
    BY <1>2, <1>3, ConcatProperties
  <2>3. QED
    BY <1>2, <2>1, <2>2
<1>5. ASSUME NEW i \in 1..(Len(s) - 1)
      PROVE  (u \o v)[i] = IF i < p THEN s[i] ELSE s[i + 1]
  <2>1. CASE i < p
    BY <1>1, <1>2, <1>4, <2>1
  <2>2. CASE ~(i < p)
    <3>1. i - (p - 1) \in 1..(Len(s) - p) /\ p + (i - (p - 1)) = i + 1 /\ ~(i <= p - 1)
      BY <1>1, <2>2
    <3>2. QED
      BY <1>3, <1>4, <2>2, <3>1
  <2>3. QED
    BY <2>1, <2>2
<1>6. RemoveAt(s, p) = u \o v
  BY DEF RemoveAt, u, v
<1>7. QED
  BY <1>4, <1>5, <1>6

\* Without takes one client out of a list without repetitions, and keeps the
\* order of the others.
LEMMA WithoutElements ==
    ASSUME NEW S, NEW s \in Seq(S), NEW c \in S, IsInjective(s)
    PROVE  /\ Without(s, c) \in Seq(S)
           /\ IsInjective(Without(s, c))
           /\ ToSet(Without(s, c)) = ToSet(s) \ {c}
           /\ \A i, j \in DOMAIN Without(s, c) : i < j =>
                 \E a, b \in DOMAIN s : a < b /\ s[a] = Without(s, c)[i]
                                               /\ s[b] = Without(s, c)[j]
           /\ s # <<>> /\ Head(s) # c => /\ Without(s, c) # <<>>
                                          /\ Head(Without(s, c)) = Head(s)
<1> DEFINE w == Without(s, c)
<1>1. DOMAIN s = 1..Len(s) /\ Len(s) \in Nat
  BY LenProperties
<1>2. CASE c \notin ToSet(s)
  <2>1. w = s
    BY <1>2 DEF Without
  <2>2. QED
    BY <1>2, <2>1
<1>3. CASE c \in ToSet(s)
  <2> DEFINE p == IndexIn(s, c)
  <2>1. p \in 1..Len(s) /\ s[p] = c
    BY <1>1, <1>3 DEF IndexIn, ToSet
  <2>2. w = RemoveAt(s, p)
    BY <1>3 DEF Without
  <2>3. /\ w \in Seq(S) /\ Len(w) = Len(s) - 1
        /\ \A i \in 1..(Len(s) - 1) : w[i] = IF i < p THEN s[i] ELSE s[i + 1]
    <3> HIDE DEF p
    <3>1. QED
      BY <2>1, <2>2, RemoveAtElements
  <2>4. DOMAIN w = 1..(Len(s) - 1)
    BY <2>3, LenProperties
  <2> DEFINE From(i) == IF i < p THEN i ELSE i + 1
  <2> HIDE DEF w, p
  <2>5. /\ \A i \in DOMAIN w : From(i) \in DOMAIN s /\ From(i) # p /\ w[i] = s[From(i)]
        /\ \A i, j \in DOMAIN w : i < j => From(i) < From(j)
        /\ \A i, j \in DOMAIN w : i # j => From(i) # From(j)
    BY <1>1, <2>1, <2>3, <2>4
  <2>6. \A a \in DOMAIN s : a # p => \E i \in DOMAIN w : From(i) = a
    <3>1. SUFFICES ASSUME NEW a \in 1..Len(s), a # p PROVE \E i \in 1..(Len(s) - 1) : From(i) = a
      BY <1>1, <2>4
    <3>2. CASE a < p
      BY <1>1, <2>1, <3>1, <3>2
    <3>3. CASE a > p
      <4>1. a - 1 \in 1..(Len(s) - 1) /\ ~(a - 1 < p) /\ (a - 1) + 1 = a
        BY <1>1, <2>1, <3>1, <3>3
      <4>2. From(a - 1) = a
        BY <4>1
      <4>3. QED
        BY <4>1, <4>2
    <3>4. QED
      BY <1>1, <2>1, <3>1, <3>2, <3>3
  <2>7. \A a \in DOMAIN s : s[a] = c <=> a = p
    BY <1>1, <2>1 DEF IsInjective
  <2> HIDE DEF From
  <2>8. IsInjective(w)
    <3>1. SUFFICES ASSUME NEW i \in DOMAIN w, NEW j \in DOMAIN w, w[i] = w[j] PROVE i = j
      BY DEF IsInjective
    <3>2. From(i) = From(j)
      BY <2>5, <3>1 DEF IsInjective
    <3>3. QED
      BY <2>5, <3>2
  <2>9. ToSet(w) = ToSet(s) \ {c}
    <3>1. ToSet(w) \subseteq ToSet(s) \ {c}
      BY <2>5, <2>7 DEF ToSet
    <3>2. ToSet(s) \ {c} \subseteq ToSet(w)
      BY <2>5, <2>6, <2>7 DEF ToSet
    <3>3. QED
      BY <3>1, <3>2
  <2>10. s # <<>> /\ Head(s) # c => w # <<>> /\ Head(w) = Head(s)
    <3>1. SUFFICES ASSUME s # <<>>, Head(s) # c PROVE w # <<>> /\ Head(w) = Head(s)
      OBVIOUS
    <3>2. Head(s) = s[1] /\ 1 # p
      BY <2>7, <2>1, <3>1
    <3>3. 1 \in 1..(Len(s) - 1) /\ 1 < p
      BY <1>1, <2>1, <3>2
    <3>4. w[1] = s[1] /\ w # <<>>
      BY <2>3, <2>4, <3>3
    <3>5. QED
      BY <3>2, <3>4
  <2>11. QED
    BY <2>3, <2>5, <2>8, <2>9, <2>10 DEF w
<1>4. QED
  BY <1>2, <1>3

\* A client that goes live moves from its place in the list to the front.
LEMMA LiveElements ==
    ASSUME NEW S, NEW s \in Seq(S), NEW c \in S, IsInjective(s), c \in ToSet(s)
    PROVE  /\ HandleClientLive(s, c) \in Seq(S)
           /\ IsInjective(HandleClientLive(s, c))
           /\ ToSet(HandleClientLive(s, c)) = ToSet(s)
           /\ HandleClientLive(s, c) # <<>> /\ Head(HandleClientLive(s, c)) = c
           /\ \A i, j \in DOMAIN HandleClientLive(s, c) :
                 i < j /\ HandleClientLive(s, c)[i] # c =>
                    \E a, b \in DOMAIN s : a < b /\ s[a] = HandleClientLive(s, c)[i]
                                                  /\ s[b] = HandleClientLive(s, c)[j]
<1> DEFINE w == Without(s, c)
           t == HandleClientLive(s, c)
<1>1. /\ w \in Seq(S) /\ IsInjective(w) /\ ToSet(w) = ToSet(s) \ {c}
      /\ \A i, j \in DOMAIN w : i < j =>
            \E a, b \in DOMAIN s : a < b /\ s[a] = w[i] /\ s[b] = w[j]
  BY WithoutElements
<1>2. t = <<c>> \o w
  BY DEF HandleClientLive
<1> HIDE DEF w, t
<1>3. /\ Len(w) \in Nat /\ DOMAIN w = 1..Len(w)
      /\ <<c>> \in Seq(S) /\ Len(<<c>>) = 1
  BY <1>1, LenProperties
<1>4. /\ t \in Seq(S) /\ Len(t) = Len(w) + 1 /\ DOMAIN t = 1..(Len(w) + 1) /\ t[1] = c
      /\ \A i \in 2..(Len(w) + 1) : t[i] = w[i - 1] /\ i - 1 \in DOMAIN w
  <2>1. /\ t \in Seq(S) /\ Len(t) = 1 + Len(w)
        /\ \A i \in 1..(1 + Len(w)) : t[i] = IF i <= 1 THEN <<c>>[i] ELSE w[i - 1]
    BY <1>1, <1>2, <1>3, ConcatProperties
  <2>2. Len(t) = Len(w) + 1 /\ DOMAIN t = 1..(Len(w) + 1)
    BY <1>3, <2>1, LenProperties
  <2>3. t[1] = c
    BY <1>3, <2>1
  <2>4. \A i \in 2..(Len(w) + 1) : t[i] = w[i - 1] /\ i - 1 \in DOMAIN w
    BY <1>3, <2>1
  <2>5. QED
    BY <2>1, <2>2, <2>3, <2>4
<1>5. t # <<>> /\ Head(t) = c
  BY <1>3, <1>4
<1>6. \A i \in DOMAIN t : i = 1 \/ i \in 2..(Len(w) + 1)
  BY <1>3, <1>4
<1>7. \A k \in DOMAIN w : w[k] # c
  BY <1>1 DEF ToSet
<1>8. IsInjective(t)
  <2>1. SUFFICES ASSUME NEW i \in DOMAIN t, NEW j \in DOMAIN t, t[i] = t[j] PROVE i = j
    BY DEF IsInjective
  <2>2. CASE i = 1 \/ j = 1
    BY <1>4, <1>6, <1>7, <2>1, <2>2
  <2>3. CASE i \in 2..(Len(w) + 1) /\ j \in 2..(Len(w) + 1)
    <3>1. i - 1 = j - 1
      BY <1>1, <1>4, <2>1, <2>3 DEF IsInjective
    <3>2. QED
      BY <2>3, <3>1
  <2>4. QED
    BY <1>6, <2>2, <2>3
<1>9. ToSet(t) = ToSet(s)
  <2>1. ToSet(t) \subseteq ToSet(w) \cup {c}
    BY <1>4, <1>6 DEF ToSet
  <2>2. ToSet(w) \subseteq ToSet(t)
    <3>1. SUFFICES ASSUME NEW k \in 1..Len(w) PROVE \E i \in DOMAIN t : t[i] = w[k]
      BY <1>3 DEF ToSet
    <3>2. k + 1 \in 2..(Len(w) + 1) /\ (k + 1) - 1 = k /\ k + 1 \in 1..(Len(w) + 1)
      BY <1>3
    <3>3. QED
      BY <1>4, <3>2
  <2>3. c \in ToSet(t)
    BY <1>3, <1>4 DEF ToSet
  <2>4. ToSet(t) = ToSet(w) \cup {c}
    BY <2>1, <2>2, <2>3
  <2>5. ToSet(w) \cup {c} = ToSet(s)
    <3>1. ToSet(w) = ToSet(s) \ {c}
      BY <1>1
    <3>2. QED
      BY <3>1
  <2>6. QED
    BY <2>4, <2>5
<1>10. ASSUME NEW i \in DOMAIN t, NEW j \in DOMAIN t, i < j, t[i] # c
       PROVE  \E a, b \in DOMAIN s : a < b /\ s[a] = t[i] /\ s[b] = t[j]
  <2>1. i \in 2..(Len(w) + 1) /\ j \in 2..(Len(w) + 1)
    BY <1>3, <1>4, <1>6, <1>10
  <2>2. i - 1 < j - 1
    BY <1>10, <2>1
  <2>3. i - 1 \in DOMAIN w /\ j - 1 \in DOMAIN w /\ t[i] = w[i - 1] /\ t[j] = w[j - 1]
    BY <1>4, <2>1
  <2>4. QED
    BY <1>1, <2>2, <2>3
<1>11. QED
  BY <1>4, <1>5, <1>8, <1>9, <1>10 DEF t

-----------------------------------------------------------------------------
(***************************************************************************)
(* The order of the list.  ClientQueue may still hold clients that left,   *)
(* and the list holds the live client, so the two agree where they name    *)
(* the same clients.                                                       *)
(***************************************************************************)
Agree(list, line) ==
    \A i, j \in DOMAIN list, k, l \in DOMAIN line :
        i < j /\ list[i] = line[k] /\ list[j] = line[l] => k < l

\* A newcomer that is last in line goes to the end of the list.
LEMMA AgreeConnect ==
    ASSUME NEW S, NEW list \in Seq(S), NEW line \in Seq(S), NEW c \in S, Agree(list, line),
           IsInjective(line), c \notin ToSet(list), \A k \in DOMAIN line : line[k] = c => k = Len(line)
    PROVE  Agree(Append(list, c), line)
<1> DEFINE t == Append(list, c)
<1>1. /\ DOMAIN list = 1..Len(list) /\ Len(list) \in Nat
      /\ DOMAIN t = 1..(Len(list) + 1) /\ t[Len(list) + 1] = c
      /\ \A i \in 1..Len(list) : t[i] = list[i]
      /\ DOMAIN line = 1..Len(line) /\ Len(line) \in Nat
  BY AppendProperties, LenProperties
<1> HIDE DEF t
<1>2. SUFFICES ASSUME NEW i \in DOMAIN t, NEW j \in DOMAIN t, NEW k \in DOMAIN line,
                      NEW l \in DOMAIN line, i < j, t[i] = line[k], t[j] = line[l]
               PROVE  k < l
  BY DEF Agree, t
<1>3. i \in 1..Len(list) /\ t[i] = list[i]
  BY <1>1, <1>2
<1>4. CASE j \in 1..Len(list)
  BY <1>1, <1>2, <1>3, <1>4 DEF Agree
<1>5. CASE j = Len(list) + 1
  <2>1. l = Len(line)
    BY <1>1, <1>2, <1>5
  <2>2. list[i] # c
    BY <1>1, <1>3 DEF ToSet
  <2>3. k # l
    BY <1>1, <1>2, <1>3, <1>5, <2>2
  <2>4. QED
    BY <1>1, <1>2, <2>1, <2>3
<1>6. QED
  BY <1>1, <1>2, <1>4, <1>5

\* Somebody who is not listed yet joins the line.
LEMMA AgreeJoin ==
    ASSUME NEW S, NEW list \in Seq(S), NEW line \in Seq(S), NEW c \in S, Agree(list, line),
           c \notin ToSet(list)
    PROVE  Agree(list, Append(line, c))
<1> DEFINE t == Append(line, c)
<1>1. /\ DOMAIN line = 1..Len(line) /\ Len(line) \in Nat
      /\ DOMAIN t = 1..(Len(line) + 1) /\ t[Len(line) + 1] = c
      /\ \A i \in 1..Len(line) : t[i] = line[i]
  BY AppendProperties, LenProperties
<1> HIDE DEF t
<1>2. SUFFICES ASSUME NEW i \in DOMAIN list, NEW j \in DOMAIN list, NEW k \in DOMAIN t,
                      NEW l \in DOMAIN t, i < j, list[i] = t[k], list[j] = t[l]
               PROVE  k < l
  BY DEF Agree, t
<1>3. t[k] # c /\ t[l] # c
  BY <1>2 DEF ToSet
<1>4. k \in 1..Len(line) /\ l \in 1..Len(line)
  BY <1>1, <1>2, <1>3
<1>5. QED
  BY <1>1, <1>2, <1>4 DEF Agree

LEMMA AgreeDisconnect ==
    ASSUME NEW S, NEW list \in Seq(S), NEW line, NEW c \in S, Agree(list, line),
           IsInjective(list)
    PROVE  Agree(Without(list, c), line)
<1> DEFINE t == Without(list, c)
<1>1. \A i, j \in DOMAIN t : i < j =>
         \E a, b \in DOMAIN list : a < b /\ list[a] = t[i] /\ list[b] = t[j]
  BY WithoutElements
<1> HIDE DEF t
<1>2. SUFFICES ASSUME NEW i \in DOMAIN t, NEW j \in DOMAIN t, NEW k \in DOMAIN line,
                      NEW l \in DOMAIN line, i < j, t[i] = line[k], t[j] = line[l]
               PROVE  k < l
  BY DEF Agree, t
<1>3. PICK a \in DOMAIN list, b \in DOMAIN list : a < b /\ list[a] = t[i] /\ list[b] = t[j]
  BY <1>1, <1>2
<1>4. QED
  BY <1>2, <1>3 DEF Agree

\* The one that goes live moves to the front of the list and out of the line,
\* together with all that were before it in line.
LEMMA AgreeLive ==
    ASSUME NEW S, NEW list \in Seq(S), NEW line \in Seq(S), NEW p \in 1..Len(line),
           Agree(list, line), IsInjective(list), IsInjective(line)
    PROVE  Agree(HandleClientLive(list, line[p]), SubSeq(line, p + 1, Len(line)))
<1> DEFINE c == line[p]
           t == HandleClientLive(list, c)
           r == SubSeq(line, p + 1, Len(line))
<1>1. Len(line) \in Nat /\ DOMAIN line = 1..Len(line) /\ c \in S
  BY LenProperties, ElementOfSeq
<1>2. /\ DOMAIN r = 1..(Len(line) - p)
      /\ \A k \in 1..(Len(line) - p) : r[k] = line[p + k] /\ p + k \in DOMAIN line /\ p + k # p
  BY SuffixElements
<1>3. \A i, j \in DOMAIN t : i < j /\ t[i] # c =>
         \E a, b \in DOMAIN list : a < b /\ list[a] = t[i] /\ list[b] = t[j]
  <2>1. CASE c \in ToSet(list)
    <3> HIDE DEF c
    <3>1. QED
      BY <1>1, <2>1, LiveElements
  <2>2. CASE c \notin ToSet(list)
    <3>1. t = list
      BY <2>2 DEF HandleClientLive
    <3>2. QED
      BY <3>1
  <2>3. QED
    BY <2>1, <2>2
<1> HIDE DEF t, r
<1>4. SUFFICES ASSUME NEW i \in DOMAIN t, NEW j \in DOMAIN t, NEW k \in DOMAIN r,
                      NEW l \in DOMAIN r, i < j, t[i] = r[k], t[j] = r[l]
               PROVE  k < l
  BY DEF Agree, t, r
<1>5. /\ k \in 1..(Len(line) - p) /\ l \in 1..(Len(line) - p)
      /\ r[k] = line[p + k] /\ p + k \in DOMAIN line /\ p + k # p
      /\ r[l] = line[p + l] /\ p + l \in DOMAIN line
  BY <1>2, <1>4
<1>6. t[i] # c
  BY <1>1, <1>4, <1>5 DEF IsInjective
<1>7. PICK a \in DOMAIN list, b \in DOMAIN list : a < b /\ list[a] = t[i] /\ list[b] = t[j]
  BY <1>3, <1>4, <1>6
<1>8. p + k < p + l
  BY <1>4, <1>5, <1>7 DEF Agree
<1>9. QED
  BY <1>1, <1>5, <1>8

-----------------------------------------------------------------------------
(***************************************************************************)
(* The list against the manager's own books.  A client is put on the list  *)
(* after it joined the line, at most once because its reader starts then,  *)
(* and on the list of its own mountpoint.  A mount that is created later   *)
(* under the same name, after a restart even with the old rows still       *)
(* listed, starts with an empty line.                                      *)
(***************************************************************************)
ListedOnce ==
    \A n \in MountNames : /\ IsInjective(handlerMounts[n])
                          /\ \A c \in ToSet(handlerMounts[n]) : reader[c] # "none" /\ MountOf[c] = n
EveryoneListed ==
    \A n \in MountNames : mounts[n] # Nil => byID[mounts[n]] \ {cur} \subseteq ToSet(handlerMounts[n])
SameOrder ==
    \A n \in MountNames : mounts[n] # Nil => Agree(handlerMounts[n], clientQueue[mounts[n]])
NewcomerIsLast ==
    pc \in {"stored", "connect"} =>
        \A k \in DOMAIN clientQueue[MountFor(cur)] :
            clientQueue[MountFor(cur)][k] = cur => k = Len(clientQueue[MountFor(cur)])
NewMountIsEmpty ==
    /\ \A n \in MountNames : mounts[n] # Nil => Adopted(mounts[n])
    /\ \A m \in Clients : ~Adopted(m) => clientQueue[m] = <<>>

OrderInv == ListedOnce /\ EveryoneListed /\ SameOrder /\ NewcomerIsLast /\ NewMountIsEmpty

\* The leaving client is on no registered mount any more.
LEMMA GoneFromMounts ==
    ASSUME Basis, BookInv, pc \in {"disconnect", "collect"}
    PROVE  \A n \in MountNames : mounts[n] # Nil => cur \notin byID[mounts[n]]
<1>1. /\ cur \notin byID[MountFor(cur)]
      /\ mounts \in [MountNames -> Clients \cup {Nil}]
  BY DEF BookInv, LeavingIsClosed, Basis, TypeInv, TypeOK
<1>2. SUFFICES ASSUME NEW n \in MountNames, mounts[n] # Nil, cur \in byID[mounts[n]]
               PROVE  FALSE
  OBVIOUS
<1>3. MountOf[cur] = MountOf[mounts[n]] /\ MountOf[mounts[n]] = n
  BY <1>1, <1>2 DEF BookInv, OwnMountpoint, Basis, MountInv, RegisteredUnderOwnName
<1>4. QED
  BY <1>1, <1>2, <1>3 DEF MountFor

\* Steps that may take a client off, a line away or a mount away.
LEMMA OrderFrame ==
    ASSUME Basis, OrderInv, handlerMounts' = handlerMounts,
           \A n \in MountNames : mounts'[n] \in {mounts[n], Nil},
           \A m \in Clients : byID'[m] \subseteq byID[m] /\ clientQueue'[m] \in {clientQueue[m], <<>>},
           \A c \in Clients : /\ reader'[c] = "none" => reader[c] = "none"
                              /\ source[c] = "adopted" => source'[c] = "adopted",
           \/ cur' = cur
           \/ \A n \in MountNames : mounts'[n] # Nil => cur \notin byID[mounts[n]],
           pc' \in {"stored", "connect"} =>
               pc \in {"stored", "connect"} /\ UNCHANGED <<cur, mounts, clientQueue>>
    PROVE  OrderInv'
<1>1. /\ mounts \in [MountNames -> Clients \cup {Nil}]
      /\ \A n \in MountNames : ToSet(handlerMounts[n]) \subseteq Clients
  BY MemberType DEF Basis, TypeInv, TypeOK
<1>2. \A n \in MountNames : mounts'[n] # Nil => mounts'[n] = mounts[n] /\ mounts[n] \in Clients
  BY <1>1
<1>3. ListedOnce'
  BY <1>1 DEF OrderInv, ListedOnce
<1>4. EveryoneListed'
  BY <1>2 DEF OrderInv, EveryoneListed
<1>5. SameOrder'
  <2>1. \A list : Agree(list, <<>>)
    BY DEF Agree
  <2>2. SUFFICES ASSUME NEW n \in MountNames, mounts'[n] # Nil
                 PROVE  Agree(handlerMounts[n], clientQueue'[mounts'[n]])
    BY DEF SameOrder
  <2>3. clientQueue'[mounts'[n]] \in {clientQueue[mounts[n]], <<>>} /\ mounts[n] # Nil
    BY <1>2, <2>2
  <2>4. Agree(handlerMounts[n], clientQueue[mounts[n]])
    BY <2>3 DEF OrderInv, SameOrder
  <2>5. QED
    BY <2>1, <2>3, <2>4
<1>6. NewcomerIsLast'
  BY DEF OrderInv, NewcomerIsLast, MountFor
<1>7. NewMountIsEmpty'
  BY <1>2 DEF OrderInv, NewMountIsEmpty, Adopted
<1>8. QED
  BY <1>3, <1>4, <1>5, <1>6, <1>7 DEF OrderInv

LEMMA OrderAddFirst ==
    ASSUME Basis, OrderInv, AddFirstClient
    PROVE  OrderInv'
<1> DEFINE c == Head(receiver)
<1>1. /\ TakeClient /\ MountFor(c) = Nil /\ pc = "select"
      /\ mounts' = [mounts EXCEPT ![MountOf[c]] = c]
      /\ byID' = [byID EXCEPT ![c] = {c}]
      /\ source' = [source EXCEPT ![c] = "adopted"]
      /\ UNCHANGED <<clientQueue, handlerMounts, reader>>
  BY DEF AddFirstClient, TakeClient, handlerVars
<1>2. /\ c \in Clients /\ MountOf[c] \in MountNames /\ cur' = c /\ source[c] = "queued"
      /\ \A k \in Clients : c \notin byID[k]
      /\ \A d : source[d] = "adopted" => source'[d] = "adopted"
      /\ source'[c] = "adopted" /\ cur = Nil
  BY <1>1, TakenClient, HashType DEF Basis, PlaceInv, HandledClient
<1>3. /\ mounts \in [MountNames -> Clients \cup {Nil}] /\ byID \in [Clients -> SUBSET Clients]
  BY DEF Basis, TypeInv, TypeOK
<1>4. /\ mounts'[MountOf[c]] = c /\ byID'[c] = {c}
      /\ \A m \in Clients : m # c => byID'[m] = byID[m]
      /\ \A n \in MountNames : n # MountOf[c] => mounts'[n] = mounts[n]
  BY <1>1, <1>2, <1>3
<1>5. clientQueue[c] = <<>> /\ \A n \in MountNames : mounts[n] # c
  BY <1>2, ConstantsAssumption DEF OrderInv, NewMountIsEmpty, Adopted
<1>6. ListedOnce'
  BY <1>1 DEF OrderInv, ListedOnce
<1>7. EveryoneListed'
  <2>1. SUFFICES ASSUME NEW n \in MountNames, mounts'[n] # Nil
                 PROVE  byID'[mounts'[n]] \ {c} \subseteq ToSet(handlerMounts[n])
    BY <1>1, <1>2 DEF EveryoneListed
  <2>2. CASE n = MountOf[c]
    BY <1>4, <2>2
  <2>3. CASE n # MountOf[c]
    <3>1. mounts'[n] = mounts[n] /\ mounts[n] \in Clients /\ byID'[mounts[n]] = byID[mounts[n]]
      BY <1>3, <1>4, <1>5, <2>1, <2>3
    <3>2. Nil \notin byID[mounts[n]]
      BY <1>3, <3>1, ConstantsAssumption
    <3>3. QED
      BY <1>2, <2>1, <3>1, <3>2 DEF OrderInv, EveryoneListed
  <2>4. QED
    BY <2>2, <2>3
<1>8. SameOrder'
  <2>1. Agree(handlerMounts[MountOf[c]], <<>>)
    BY DEF Agree
  <2>2. QED
    BY <1>1, <1>4, <1>5, <2>1 DEF OrderInv, SameOrder
<1>9. NewcomerIsLast'
  <2>1. clientQueue'[MountFor(cur)'] = <<>>
    BY <1>1, <1>2, <1>4, <1>5 DEF MountFor
  <2>2. QED
    BY <2>1 DEF NewcomerIsLast
<1>10. NewMountIsEmpty'
  BY <1>1, <1>2, <1>4 DEF OrderInv, NewMountIsEmpty, Adopted
<1>11. QED
  BY <1>6, <1>7, <1>8, <1>9, <1>10 DEF OrderInv

LEMMA OrderAddWaiting ==
    ASSUME Basis, OrderInv, AddWaitingClient
    PROVE  OrderInv'
<1> DEFINE c == Head(receiver)
           m == MountFor(c)
<1>1. /\ TakeClient /\ m # Nil /\ pc = "select"
      /\ byID' = [byID EXCEPT ![m] = @ \cup {c}]
      /\ \/ clientQueue' = [clientQueue EXCEPT ![m] = Append(@, c)]
         \/ clientQueue' = clientQueue /\ pc' = "remove"
      /\ UNCHANGED <<mounts, handlerMounts, reader>>
  BY DEF AddWaitingClient, TakeClient, handlerVars
<1>2. /\ c \in Clients /\ MountOf[c] \in MountNames /\ cur' = c /\ reader[c] = "none"
      /\ \A k \in Clients : c \notin byID[k] /\ c \notin ToSet(clientQueue[k])
      /\ \A d : source[d] = "adopted" => source'[d] = "adopted"
      /\ cur = Nil
  BY <1>1, TakenClient, HashType DEF Basis, PlaceInv, HandledClient
<1>3. /\ byID \in [Clients -> SUBSET Clients] /\ clientQueue \in [Clients -> Seq(Clients)]
      /\ mounts \in [MountNames -> Clients \cup {Nil}]
      /\ handlerMounts \in [MountNames -> Seq(Clients)]
      /\ m \in Clients
  BY <1>1, <1>2 DEF Basis, TypeInv, TypeOK, MountFor
<1>4. /\ byID'[m] = byID[m] \cup {c}
      /\ \A k \in Clients : k # m => byID'[k] = byID[k] /\ clientQueue'[k] = clientQueue[k]
      /\ \/ clientQueue'[m] = Append(clientQueue[m], c)
         \/ clientQueue'[m] = clientQueue[m] /\ pc' = "remove"
  BY <1>1, <1>2, <1>3
<1>5. ListedOnce'
  BY <1>1 DEF OrderInv, ListedOnce
<1>6. EveryoneListed'
  <2>1. SUFFICES ASSUME NEW n \in MountNames, mounts[n] # Nil
                 PROVE  byID'[mounts[n]] \ {c} \subseteq ToSet(handlerMounts[n])
    BY <1>1, <1>2 DEF EveryoneListed
  <2>2. mounts[n] \in Clients /\ byID'[mounts[n]] \subseteq byID[mounts[n]] \cup {c}
    BY <1>3, <1>4, <2>1
  <2>3. Nil \notin byID[mounts[n]]
    BY <1>3, <2>2, ConstantsAssumption
  <2>4. QED
    BY <1>2, <2>1, <2>2, <2>3 DEF OrderInv, EveryoneListed
<1>7. SameOrder'
  <2>1. SUFFICES ASSUME NEW n \in MountNames, mounts[n] # Nil
                 PROVE  Agree(handlerMounts[n], clientQueue'[mounts[n]])
    BY <1>1 DEF SameOrder
  <2>2. Agree(handlerMounts[n], clientQueue[mounts[n]]) /\ mounts[n] \in Clients
    BY <1>3, <2>1 DEF OrderInv, SameOrder
  <2>3. handlerMounts[n] \in Seq(Clients) /\ clientQueue[m] \in Seq(Clients)
    BY <1>3
  <2>4. c \notin ToSet(handlerMounts[n])
    BY <1>2 DEF OrderInv, ListedOnce
  <2>5. mounts[n] = m => Agree(handlerMounts[n], Append(clientQueue[m], c))
    BY <1>2, <2>2, <2>3, <2>4, AgreeJoin
  <2>6. QED
    BY <1>4, <2>2, <2>5
<1>8. NewcomerIsLast'
  <2>1. SUFFICES ASSUME clientQueue'[m] = Append(clientQueue[m], c),
                        NEW k \in DOMAIN clientQueue'[m], clientQueue'[m][k] = c
                 PROVE  k = Len(clientQueue'[m])
    BY <1>1, <1>2, <1>4 DEF NewcomerIsLast, MountFor
  <2>2. clientQueue[m] \in Seq(Clients) /\ Len(clientQueue[m]) \in Nat
    BY <1>3, LenProperties
  <2>3. /\ DOMAIN Append(clientQueue[m], c) = 1..(Len(clientQueue[m]) + 1)
        /\ Len(Append(clientQueue[m], c)) = Len(clientQueue[m]) + 1
        /\ \A i \in 1..Len(clientQueue[m]) : Append(clientQueue[m], c)[i] = clientQueue[m][i]
    BY <1>2, <2>2, AppendProperties, LenProperties
  <2>4. \A i \in 1..Len(clientQueue[m]) : clientQueue[m][i] # c
    BY <1>2, <1>3, <2>2, LenProperties DEF ToSet
  <2>5. QED
    BY <2>1, <2>2, <2>3, <2>4
<1>9. NewMountIsEmpty'
  <2>1. source[m] = "adopted"
    BY <1>1, <1>2 DEF OrderInv, NewMountIsEmpty, Adopted, MountFor
  <2>2. QED
    BY <1>1, <1>2, <1>4, <2>1 DEF OrderInv, NewMountIsEmpty, Adopted
<1>10. QED
  BY <1>5, <1>6, <1>7, <1>8, <1>9 DEF OrderInv

LEMMA OrderConnect ==
    ASSUME Basis, BookInv, OrderInv, ConnectClient
    PROVE  OrderInv'
<1> DEFINE n0 == MountOf[cur]
           L == handlerMounts[n0]
<1>1. /\ pc = "connect" /\ pc' = "select" /\ cur' = Nil
      /\ handlerMounts' = [handlerMounts EXCEPT ![n0] = Append(@, cur)]
      /\ reader' = [reader EXCEPT ![cur] = "reading"]
      /\ UNCHANGED <<mounts, byID, clientQueue, source>>
  BY DEF ConnectClient, HandleClientConnect, mountVars
<1>2. /\ cur \in Clients /\ n0 \in MountNames /\ reader[cur] = "none"
      /\ reader \in [Clients -> {"none", "reading", "done"}]
      /\ mounts \in [MountNames -> Clients \cup {Nil}]
      /\ handlerMounts \in [MountNames -> Seq(Clients)]
      /\ clientQueue \in [Clients -> Seq(Clients)]
  BY <1>1, HashType DEF Basis, TypeInv, TypeOK, LoopOK, PlaceInv, HandledClient
<1>3. /\ handlerMounts'[n0] = Append(L, cur) /\ L \in Seq(Clients)
      /\ \A n \in MountNames : n # n0 => handlerMounts'[n] = handlerMounts[n]
      /\ \A d \in Clients : reader[d] # "none" => reader'[d] # "none"
      /\ reader'[cur] # "none"
  BY <1>1, <1>2
<1>4. cur \notin ToSet(L)
  BY <1>2 DEF OrderInv, ListedOnce
<1>5. ToSet(handlerMounts'[n0]) = ToSet(L) \cup {cur} /\ IsInjective(handlerMounts'[n0])
  BY <1>2, <1>3, <1>4, SendMembers DEF OrderInv, ListedOnce
<1>6. ListedOnce'
  <2>1. \A n \in MountNames : ToSet(handlerMounts[n]) \subseteq Clients
    BY <1>2, MemberType
  <2>2. SUFFICES ASSUME NEW n \in MountNames
                 PROVE  /\ IsInjective(handlerMounts'[n])
                        /\ \A d \in ToSet(handlerMounts'[n]) : reader'[d] # "none" /\ MountOf[d] = n
    BY DEF ListedOnce
  <2>3. /\ IsInjective(handlerMounts[n])
        /\ \A d \in ToSet(handlerMounts[n]) : reader'[d] # "none" /\ MountOf[d] = n
    BY <1>3, <2>1 DEF OrderInv, ListedOnce
  <2>4. CASE n = n0
    BY <1>3, <1>5, <2>3, <2>4
  <2>5. CASE n # n0
    BY <1>3, <2>3, <2>5
  <2>6. QED
    BY <2>4, <2>5
<1>7. EveryoneListed'
  <2>1. SUFFICES ASSUME NEW n \in MountNames, mounts[n] # Nil, NEW d \in byID[mounts[n]]
                 PROVE  d \in ToSet(handlerMounts'[n])
    BY <1>1 DEF EveryoneListed
  <2>2. ToSet(handlerMounts[n]) \subseteq ToSet(handlerMounts'[n])
    BY <1>3, <1>5
  <2>3. CASE d # cur
    BY <2>1, <2>2, <2>3 DEF OrderInv, EveryoneListed
  <2>4. CASE d = cur
    <3>1. MountOf[cur] = MountOf[mounts[n]] /\ MountOf[mounts[n]] = n
      BY <1>2, <2>1, <2>4 DEF BookInv, OwnMountpoint, Basis, MountInv, RegisteredUnderOwnName
    <3>2. QED
      BY <1>5, <2>4, <3>1
  <2>5. QED
    BY <2>3, <2>4
<1>8. SameOrder'
  <2>1. SUFFICES ASSUME NEW n \in MountNames, mounts[n] # Nil
                 PROVE  Agree(handlerMounts'[n], clientQueue[mounts[n]])
    BY <1>1 DEF SameOrder
  <2>2. Agree(handlerMounts[n], clientQueue[mounts[n]])
    BY <2>1 DEF OrderInv, SameOrder
  <2>3. CASE n # n0
    BY <1>3, <2>2, <2>3
  <2>4. CASE n = n0
    <3>1. mounts[n0] \in Clients /\ clientQueue[mounts[n0]] \in Seq(Clients)
      BY <1>2, <2>1, <2>4
    <3>2. /\ IsInjective(clientQueue[mounts[n0]])
          /\ \A k \in DOMAIN clientQueue[mounts[n0]] :
                clientQueue[mounts[n0]][k] = cur => k = Len(clientQueue[mounts[n0]])
      BY <1>1, <3>1 DEF Basis, PlaceInv, QueueHoldsAdopted, OrderInv, NewcomerIsLast, MountFor
    <3>3. Agree(Append(L, cur), clientQueue[mounts[n0]])
      BY <1>2, <1>3, <1>4, <2>2, <2>4, <3>1, <3>2, AgreeConnect
    <3>4. QED
      BY <1>3, <2>4, <3>3
  <2>5. QED
    BY <2>3, <2>4
<1>9. NewcomerIsLast' /\ NewMountIsEmpty'
  BY <1>1 DEF OrderInv, NewcomerIsLast, NewMountIsEmpty, Adopted
<1>10. QED
  BY <1>6, <1>7, <1>8, <1>9 DEF OrderInv

LEMMA OrderSwap ==
    ASSUME Basis, OrderInv, SwapLiveClient
    PROVE  OrderInv'
<1> DEFINE n0 == MountOf[cur]
           m == MountFor(cur)
           q == clientQueue[m]
           L == handlerMounts[n0]
<1>1. /\ cur \in Clients /\ n0 \in MountNames /\ m \in Clients /\ m = mounts[n0]
      /\ pc' = "swap" /\ UNCHANGED <<cur, mounts, byID, reader, source>>
  BY HashType DEF SwapLiveClient, Basis, TypeInv, TypeOK, LoopOK, MountFor, clientVars
<1>2. PICK i \in NextInLine(m) :
         /\ clientQueue' = [clientQueue EXCEPT ![m] = QueueAfter(m, i)]
         /\ handlerMounts' = [handlerMounts EXCEPT ![n0] = HandleClientLive(@, q[i])]
  BY DEF SwapLiveClient
<1>3. /\ clientQueue \in [Clients -> Seq(Clients)]
      /\ handlerMounts \in [MountNames -> Seq(Clients)]
      /\ mounts \in [MountNames -> Clients \cup {Nil}]
  BY DEF Basis, TypeInv, TypeOK
<1>4. /\ clientQueue'[m] = QueueAfter(m, i) /\ handlerMounts'[n0] = HandleClientLive(L, q[i])
      /\ \A k \in Clients : k # m => clientQueue'[k] = clientQueue[k]
      /\ \A n \in MountNames : n # n0 => handlerMounts'[n] = handlerMounts[n]
  BY <1>1, <1>2, <1>3
<1>5. /\ q \in Seq(Clients) /\ i \in 1..Len(q) /\ q[i] \in Clients
      /\ L \in Seq(Clients)
  <2>1. q \in Seq(Clients) /\ L \in Seq(Clients)
    BY <1>1, <1>3
  <2>2. i \in DOMAIN q
    BY DEF NextInLine, Successors
  <2>3. QED
    BY <2>1, <2>2, LenProperties, ElementOfSeq
<1>6. IsInjective(L) /\ IsInjective(q)
  BY <1>1 DEF OrderInv, ListedOnce, Basis, PlaceInv, QueueHoldsAdopted
<1>7. /\ IsInjective(handlerMounts'[n0]) /\ ToSet(handlerMounts'[n0]) = ToSet(L)
  <2>1. CASE q[i] \in ToSet(L)
    <3> HIDE DEF q, L
    <3>1. QED
      BY <1>4, <1>5, <1>6, <2>1, LiveElements
  <2>2. CASE q[i] \notin ToSet(L)
    BY <1>4, <1>6, <2>2 DEF HandleClientLive
  <2>3. QED
    BY <2>1, <2>2
<1>8. /\ \A n \in MountNames : ToSet(handlerMounts'[n]) = ToSet(handlerMounts[n])
      /\ \A n \in MountNames : IsInjective(handlerMounts'[n])
  BY <1>4, <1>7 DEF OrderInv, ListedOnce
<1>9. ListedOnce' /\ EveryoneListed'
  BY <1>1, <1>8 DEF OrderInv, ListedOnce, EveryoneListed
<1>10. SameOrder'
  <2>1. SUFFICES ASSUME NEW n \in MountNames, mounts[n] # Nil
                 PROVE  Agree(handlerMounts'[n], clientQueue'[mounts[n]])
    BY <1>1 DEF SameOrder
  <2>2. Agree(handlerMounts[n], clientQueue[mounts[n]]) /\ mounts[n] \in Clients
    BY <1>3, <2>1 DEF OrderInv, SameOrder
  <2>3. CASE n # n0
    <3>1. mounts[n] # m
      BY <1>1, <2>1, <2>3, ConstantsAssumption DEF Basis, MountInv, RegisteredUnderOwnName
    <3>2. QED
      BY <1>4, <2>2, <2>3, <3>1
  <2>4. CASE n = n0
    <3>1. Agree(L, q)
      BY <1>1, <2>2, <2>4
    <3>2. Agree(HandleClientLive(L, q[i]), SubSeq(q, i + 1, Len(q)))
      <4> HIDE DEF q, L
      <4>1. QED
        BY <1>5, <1>6, <3>1, AgreeLive
    <3>3. QED
      BY <1>1, <1>4, <2>4, <3>2 DEF QueueAfter
  <2>5. QED
    BY <2>3, <2>4
<1>11. NewcomerIsLast' /\ NewMountIsEmpty'
  <2>1. source[m] = "adopted"
    BY <1>1, ConstantsAssumption DEF OrderInv, NewMountIsEmpty, Adopted
  <2>2. QED
    BY <1>1, <1>4, <2>1 DEF OrderInv, NewcomerIsLast, NewMountIsEmpty, Adopted
<1>12. QED
  BY <1>9, <1>10, <1>11 DEF OrderInv

LEMMA OrderDisconnect ==
    ASSUME Basis, BookInv, OrderInv, DisconnectClient
    PROVE  OrderInv'
<1> DEFINE n0 == MountOf[cur]
           L == handlerMounts[n0]
<1>1. /\ pc = "disconnect" /\ pc' \in {"collect", "select"} /\ cur' \in {cur, Nil}
      /\ \/ handlerMounts' = handlerMounts
         \/ handlerMounts' = [handlerMounts EXCEPT ![n0] = Without(@, cur)]
      /\ UNCHANGED <<mounts, byID, clientQueue, reader, source>>
  BY DEF DisconnectClient, HandleClientDisconnect, mountVars, clientVars
<1>2. /\ cur \in Clients /\ n0 \in MountNames
      /\ handlerMounts \in [MountNames -> Seq(Clients)]
  BY <1>1, HashType DEF Basis, TypeInv, TypeOK, LoopOK
<1>3. \A n \in MountNames : mounts[n] # Nil => cur \notin byID[mounts[n]]
  BY <1>1, GoneFromMounts
<1>4. CASE handlerMounts' = handlerMounts
  BY <1>1, <1>3, <1>4, OrderFrame
<1>5. CASE handlerMounts' = [handlerMounts EXCEPT ![n0] = Without(@, cur)]
  <2>1. /\ handlerMounts'[n0] = Without(L, cur) /\ L \in Seq(Clients)
        /\ \A n \in MountNames : n # n0 => handlerMounts'[n] = handlerMounts[n]
    BY <1>2, <1>5
  <2>2. IsInjective(L)
    BY <1>2 DEF OrderInv, ListedOnce
  <2>3. /\ IsInjective(handlerMounts'[n0]) /\ ToSet(handlerMounts'[n0]) = ToSet(L) \ {cur}
    BY <1>2, <2>1, <2>2, WithoutElements
  <2>4. \A n \in MountNames : /\ IsInjective(handlerMounts'[n])
                              /\ ToSet(handlerMounts'[n]) \subseteq ToSet(handlerMounts[n])
                              /\ ToSet(handlerMounts[n]) \ {cur} \subseteq ToSet(handlerMounts'[n])
    BY <2>1, <2>3 DEF OrderInv, ListedOnce
  <2>5. ListedOnce'
    BY <1>1, <2>4 DEF OrderInv, ListedOnce
  <2>6. EveryoneListed'
    <3>1. SUFFICES ASSUME NEW n \in MountNames, mounts[n] # Nil, NEW d \in byID[mounts[n]]
                   PROVE  d \in ToSet(handlerMounts'[n])
      BY <1>1 DEF EveryoneListed
    <3>2. d # cur /\ d \in ToSet(handlerMounts[n])
      BY <1>3, <3>1 DEF OrderInv, EveryoneListed
    <3>3. QED
      BY <2>4, <3>2
  <2>7. SameOrder'
    <3>1. SUFFICES ASSUME NEW n \in MountNames, mounts[n] # Nil
                   PROVE  Agree(handlerMounts'[n], clientQueue[mounts[n]])
      BY <1>1 DEF SameOrder
    <3>2. Agree(handlerMounts[n], clientQueue[mounts[n]])
      BY <3>1 DEF OrderInv, SameOrder
    <3>3. n = n0 => Agree(Without(L, cur), clientQueue[mounts[n]])
      BY <1>2, <2>1, <2>2, <3>2, AgreeDisconnect
    <3>4. QED
      BY <2>1, <3>2, <3>3
  <2>8. NewcomerIsLast' /\ NewMountIsEmpty'
    BY <1>1 DEF OrderInv, NewcomerIsLast, NewMountIsEmpty, Adopted
  <2>9. QED
    BY <2>5, <2>6, <2>7, <2>8 DEF OrderInv
<1>6. QED
  BY <1>1, <1>4, <1>5

LEMMA OrderNext ==
    ASSUME Basis, BookInv, OrderInv, [Next]_vars
    PROVE  OrderInv'
<1>1. CASE UNCHANGED vars
  BY <1>1, OrderFrame DEF vars, loopVars, mountVars, clientVars, handlerVars
<1>2. CASE OtherStep
  <2>1. /\ UNCHANGED <<cur, mounts, byID, clientQueue, handlerMounts>>
        /\ pc' \in {pc, "crashed"}
    BY <1>2 DEF OtherStep, SourceRequest, SendClient, ReadData, ReadError, PostMetadata,
       ResendMetadata, StaleTimerFires, AdminListBegin, AdminListEnd, Kick, KickOutOfRange,
       loopVars, mountVars, handlerVars
  <2>2. \A c \in Clients : /\ reader'[c] = "none" => reader[c] = "none"
                           /\ source[c] = "adopted" => source'[c] = "adopted"
    <3>1. \/ UNCHANGED <<reader, source>>
          \/ \E c \in Clients : \/ SourceRequest(c) \/ SendClient(c) \/ ReadError(c)
      BY <1>2 DEF OtherStep, ReadData, PostMetadata, ResendMetadata, StaleTimerFires,
         AdminListBegin, AdminListEnd, Kick, KickOutOfRange, clientVars
    <3>2. /\ reader \in [Clients -> {"none", "reading", "done"}]
          /\ source \in [Clients -> {"idle", "loaded", "queued", "adopted", "stranded"}]
      BY DEF Basis, TypeInv, TypeOK
    <3>3. ASSUME NEW c \in Clients, SourceRequest(c) \/ SendClient(c) \/ ReadError(c)
          PROVE  \A d \in Clients : /\ reader'[d] = "none" => reader[d] = "none"
                                    /\ source[d] = "adopted" => source'[d] = "adopted"
      BY <3>2, <3>3 DEF SourceRequest, SendClient, ReadError
    <3>4. QED
      BY <3>1, <3>3
  <2>3. QED
    BY <2>1, <2>2, OrderFrame
<1>3. CASE ManagerStep
  <2>1. CASE AddFirstClient \/ AddWaitingClient \/ ConnectClient \/ SwapLiveClient
             \/ DisconnectClient
    BY <2>1, OrderAddFirst, OrderAddWaiting, OrderConnect, OrderSwap, OrderDisconnect
  <2>2. CASE SendStoredMetadata \/ RemoveFromUnknownMount \/ SwapRacesAdmin
             \/ AbortCollection \/ DiscardData \/ HandleData \/ StoreMetadata
             \/ DiscardMetadata \/ SaveMetadata \/ DelayMetadata \/ SendMetadata
             \/ ForgetStoredMetadata
    <3>1. /\ UNCHANGED <<cur, mounts, byID, clientQueue, handlerMounts, reader, source>>
          /\ pc' \in {"stored", "connect"} => pc \in {"stored", "connect"}
      BY <2>2 DEF SendStoredMetadata, RemoveFromUnknownMount, SwapRacesAdmin, AbortCollection,
         DiscardData, HandleData, TakeData, StoreMetadata, DiscardMetadata, SaveMetadata,
         DelayMetadata, SendMetadata, TakeMeta, ForgetStoredMetadata, loopVars, mountVars,
         clientVars, handlerVars
    <3>2. QED
      BY <3>1, OrderFrame
  <2>3. CASE ReceiveError \/ RegisterEmptyMount
    <3>1. /\ UNCHANGED <<mounts, byID, clientQueue, handlerMounts, reader, source>>
          /\ pc' \notin {"stored", "connect"}
          /\ pc = "select" \/ pc = "collect"
      BY <2>3 DEF ReceiveError, RegisterEmptyMount, mountVars, clientVars, handlerVars
    <3>2. \A n \in MountNames : mounts[n] # Nil => cur \notin byID[mounts[n]]
      <4>1. CASE pc = "select"
        <5>1. cur = Nil
          BY <4>1 DEF Basis, PlaceInv, HandledClient
        <5>2. QED
          BY <5>1, ConstantsAssumption DEF Basis, TypeInv, TypeOK
      <4>2. CASE pc = "collect"
        BY <4>2, GoneFromMounts
      <4>3. QED
        BY <3>1, <4>1, <4>2
    <3>3. QED
      BY <3>1, <3>2, OrderFrame
  <2>4. CASE RemoveWaitingClient \/ RemoveLastLiveClient \/ SendSwapMetadata
    <3>1. /\ UNCHANGED <<cur, mounts, handlerMounts, reader, source>> /\ pc' = "disconnect"
          /\ byID' = [byID EXCEPT ![MountFor(cur)] = @ \ {cur}]
          /\ \/ clientQueue' = clientQueue
             \/ clientQueue' = [clientQueue EXCEPT ![MountFor(cur)] = <<>>]
      BY <2>4 DEF RemoveWaitingClient, RemoveLastLiveClient, SendSwapMetadata, Detach,
         handlerVars
    <3>2. \A m \in Clients : byID'[m] \subseteq byID[m] /\ clientQueue'[m] \in {clientQueue[m], <<>>}
      BY <3>1 DEF Basis, TypeInv, TypeOK
    <3>3. QED
      BY <3>1, <3>2, OrderFrame
  <2>5. CASE CollectMount
    <3>1. /\ UNCHANGED <<cur, byID, clientQueue, handlerMounts, reader, source>>
          /\ pc' \in {"select", "crashed"}
          /\ \/ mounts' = mounts
             \/ mounts' = [mounts EXCEPT ![MountOf[Head(mountCollector)]] = Nil]
      BY <2>5 DEF CollectMount, TakeMount, Deregister, mountVars, handlerVars
    <3>2. \A n \in MountNames : mounts'[n] \in {mounts[n], Nil}
      BY <3>1 DEF Basis, TypeInv, TypeOK
    <3>3. QED
      BY <3>1, <3>2, OrderFrame
  <2>6. CASE Restart
    <3>1. /\ UNCHANGED <<byID, clientQueue, handlerMounts>> /\ pc' = "select"
          /\ mounts' = [n \in MountNames |-> Nil]
          /\ reader' = [c \in Clients |-> IF reader[c] = "reading" THEN "done" ELSE reader[c]]
          /\ source' = [c \in Clients |-> IF source[c] \in {"loaded", "queued"}
                                          THEN "stranded" ELSE source[c]]
      BY <2>6 DEF Restart, NewMounts, NewErrors, mountVars, handlerVars
    <3>2. QED
      BY <3>1, OrderFrame
  <2>7. QED
    BY <1>3, <2>1, <2>2, <2>3, <2>4, <2>5, <2>6 DEF ManagerStep
<1>4. QED
  BY <1>1, <1>2, <1>3 DEF Next

LEMMA OrderInvariant == Spec => [](Basis /\ BookInv /\ OrderInv)
<1>1. Init => OrderInv
  BY NoMembers DEF Init, OrderInv, ListedOnce, EveryoneListed, SameOrder, NewcomerIsLast,
     NewMountIsEmpty, IsInjective
<1>2. QED
  BY <1>1, BookInvariant, OrderNext, PTL DEF Spec

\* The /admin page lists every waiting client of a mount, and in the order in
\* which NextLiveClient will choose them: the event handlers, which see only
\* connects, swaps and disconnects, arrive at the same order as ClientQueue,
\* also when rows of a manager that panicked are still listed.
THEOREM AdminListFollowsSuccession == Spec => []AdminListsInSuccessionOrder
<1>1. Basis /\ OrderInv /\ WaitingClientsAreQueued => AdminListsInSuccessionOrder
  <2>1. SUFFICES ASSUME Basis, OrderInv, WaitingClientsAreQueued, NEW n \in MountNames,
                        mounts[n] # Nil
                 PROVE  LET m       == mounts[n]
                            waiting == byID[m] \ {active[m], cur}
                            list    == handlerMounts[n]
                            line    == clientQueue[m]
                        IN /\ waiting \subseteq ToSet(list)
                           /\ \A i, j \in DOMAIN list :
                                 i < j /\ {list[i], list[j]} \subseteq waiting =>
                                     \E k, l \in DOMAIN line :
                                         k < l /\ line[k] = list[i] /\ line[l] = list[j]
    BY DEF AdminListsInSuccessionOrder
  <2> DEFINE m       == mounts[n]
             waiting == byID[m] \ {active[m], cur}
             list    == handlerMounts[n]
             line    == clientQueue[m]
  <2>2. waiting \subseteq ToSet(list)
    BY <2>1 DEF OrderInv, EveryoneListed
  <2>3. \A c \in waiting : \E k \in DOMAIN line : line[k] = c
    <3>1. m \in Clients
      BY <2>1 DEF Basis, TypeInv, TypeOK
    <3>2. waiting \subseteq ToSet(line)
      BY <2>1, <3>1 DEF WaitingClientsAreQueued
    <3>3. QED
      BY <3>2 DEF ToSet
  <2>4. Agree(list, line)
    BY <2>1 DEF OrderInv, SameOrder
  <2>5. ASSUME NEW i \in DOMAIN list, NEW j \in DOMAIN list, i < j,
               {list[i], list[j]} \subseteq waiting
        PROVE  \E k, l \in DOMAIN line : k < l /\ line[k] = list[i] /\ line[l] = list[j]
    <3>1. PICK k \in DOMAIN line : line[k] = list[i]
      BY <2>3, <2>5
    <3>2. PICK l \in DOMAIN line : line[l] = list[j]
      BY <2>3, <2>5
    <3>3. k < l
      BY <2>4, <2>5, <3>1, <3>2 DEF Agree
    <3>4. QED
      BY <3>1, <3>2, <3>3
  <2>6. QED
    BY <2>2, <2>5
<1>2. QED
  BY <1>1, OrderInvariant, NobodyIsForgotten, PTL

-----------------------------------------------------------------------------
(***************************************************************************)
(* The first row.  Until a manager is replaced, the list has no rows of    *)
(* clients that are gone, except of the one whose handler is about to run, *)
(* so that the first client of a new mount also comes first in the list.   *)
(***************************************************************************)
Undisturbed == fatals = 0 /\ ~freedUse

NoListWithoutMount == \A n \in MountNames : mounts[n] = Nil => handlerMounts[n] = <<>>
NoRowWithoutClient ==
    \A n \in MountNames : mounts[n] # Nil =>
        \A c \in ToSet(handlerMounts[n]) :
            c \in byID[mounts[n]] \/ (c = cur /\ pc \in {"disconnect", "crashed"})
NoOldRows == NoListWithoutMount /\ NoRowWithoutClient
FirstIsAlone ==
    pc \in {"stored", "connect"} /\ active[MountFor(cur)] = cur => handlerMounts[MountOf[cur]] = <<>>
LiveFirst ==
    \A n \in MountNames : mounts[n] # Nil =>
        LET m == mounts[n] IN
        active[m] \in byID[m] \ {cur} => handlerMounts[n] # <<>> /\ Head(handlerMounts[n]) = active[m]

RowsInv == Undisturbed => pc # "panic" /\ NoOldRows /\ FirstIsAlone /\ LiveFirst

LEMMA RowsFrame ==
    ASSUME RowsInv, Undisturbed' => Undisturbed,
           UNCHANGED <<cur, mounts, byID, active, handlerMounts>>,
           pc' \in {pc, "crashed"} \/ (pc = "stored" /\ pc' = "connect") \/ ~Undisturbed'
    PROVE  RowsInv'
<1>1. SUFFICES ASSUME Undisturbed' PROVE (pc # "panic" /\ NoOldRows /\ FirstIsAlone /\ LiveFirst)'
  BY DEF RowsInv
<1>2. pc # "panic" /\ NoOldRows /\ FirstIsAlone /\ LiveFirst
  BY <1>1 DEF RowsInv
<1>3. pc' # "panic" /\ NoOldRows' /\ FirstIsAlone' /\ LiveFirst'
  BY <1>1, <1>2 DEF NoOldRows, NoListWithoutMount, NoRowWithoutClient, FirstIsAlone, LiveFirst, MountFor
<1>4. QED
  BY <1>3

LEMMA RowsAddFirst ==
    ASSUME Basis, BookInv, OrderInv, RowsInv, AddFirstClient
    PROVE  RowsInv'
<1> DEFINE c == Head(receiver)
<1>1. /\ TakeClient /\ MountFor(c) = Nil /\ pc = "select" /\ pc' \in {"stored", "connect"}
      /\ mounts' = [mounts EXCEPT ![MountOf[c]] = c]
      /\ byID' = [byID EXCEPT ![c] = {c}]
      /\ active' = [active EXCEPT ![c] = c]
      /\ UNCHANGED <<handlerMounts, fatals, freedUse>>
  BY DEF AddFirstClient, TakeClient, handlerVars, faultVars
<1>2. /\ c \in Clients /\ MountOf[c] \in MountNames /\ cur' = c /\ cur = Nil
      /\ source[c] = "queued" /\ \A k \in Clients : c \notin byID[k]
  BY <1>1, TakenClient, HashType DEF Basis, PlaceInv, HandledClient
<1>3. /\ mounts \in [MountNames -> Clients \cup {Nil}] /\ byID \in [Clients -> SUBSET Clients]
      /\ active \in [Clients -> Clients \cup {Nil}]
  BY DEF Basis, TypeInv, TypeOK
<1>4. \A n \in MountNames : mounts[n] # c
  BY <1>2, ConstantsAssumption DEF OrderInv, NewMountIsEmpty, Adopted
<1>5. /\ mounts'[MountOf[c]] = c /\ byID'[c] = {c} /\ active'[c] = c
      /\ \A n \in MountNames : n # MountOf[c] /\ mounts[n] # Nil =>
            /\ mounts'[n] = mounts[n] /\ mounts[n] \in Clients
            /\ byID'[mounts[n]] = byID[mounts[n]] /\ active'[mounts[n]] = active[mounts[n]]
      /\ \A n \in MountNames : n # MountOf[c] => mounts'[n] = mounts[n]
  BY <1>1, <1>2, <1>3, <1>4
<1>6. SUFFICES ASSUME Undisturbed
               PROVE  NoOldRows' /\ FirstIsAlone' /\ LiveFirst'
  BY <1>1 DEF RowsInv, Undisturbed
<1>7. NoOldRows /\ LiveFirst
  BY <1>6 DEF RowsInv
<1>8. handlerMounts[MountOf[c]] = <<>>
  BY <1>1, <1>2, <1>7 DEF NoOldRows, NoListWithoutMount, NoRowWithoutClient, MountFor
<1>9. NoOldRows'
  <2>1. NoListWithoutMount'
    BY <1>1, <1>5, <1>7, <1>8 DEF NoOldRows, NoListWithoutMount
  <2>2. SUFFICES ASSUME NEW n \in MountNames, mounts'[n] # Nil, NEW d \in ToSet(handlerMounts[n])
                 PROVE  d \in byID'[mounts'[n]]
    BY <1>1, <2>1 DEF NoOldRows, NoRowWithoutClient
  <2>3. n # MountOf[c]
    BY <1>8, <2>2, NoMembers
  <2>4. QED
    BY <1>1, <1>5, <1>7, <2>2, <2>3 DEF NoOldRows, NoRowWithoutClient
<1>10. FirstIsAlone'
  BY <1>1, <1>2, <1>8 DEF FirstIsAlone
<1>11. LiveFirst'
  <2>1. SUFFICES ASSUME NEW n \in MountNames, mounts'[n] # Nil,
                        active'[mounts'[n]] \in byID'[mounts'[n]] \ {c}
                 PROVE  handlerMounts[n] # <<>> /\ Head(handlerMounts[n]) = active'[mounts'[n]]
    BY <1>1, <1>2 DEF LiveFirst
  <2>2. n # MountOf[c]
    BY <1>5, <2>1
  <2>3. mounts[n] # Nil /\ active[mounts[n]] \in byID[mounts[n]] \ {cur}
    BY <1>2, <1>3, <1>5, <2>1, <2>2, ConstantsAssumption
  <2>4. QED
    BY <1>5, <1>7, <2>2, <2>3 DEF LiveFirst
<1>12. QED
  BY <1>9, <1>10, <1>11

LEMMA RowsAddWaiting ==
    ASSUME Basis, BookInv, RowsInv, AddWaitingClient
    PROVE  RowsInv'
<1> DEFINE c == Head(receiver)
           m == MountFor(c)
<1>1. /\ TakeClient /\ m # Nil /\ pc = "select" /\ pc' \in {"connect", "remove"}
      /\ byID' = [byID EXCEPT ![m] = @ \cup {c}]
      /\ UNCHANGED <<mounts, active, handlerMounts, fatals, freedUse>>
  BY DEF AddWaitingClient, TakeClient, handlerVars, faultVars
<1>2. /\ c \in Clients /\ MountOf[c] \in MountNames /\ cur' = c /\ cur = Nil
      /\ \A k \in Clients : active[k] # c
  BY <1>1, TakenClient, HashType DEF Basis, PlaceInv, HandledClient
<1>3. /\ mounts \in [MountNames -> Clients \cup {Nil}] /\ byID \in [Clients -> SUBSET Clients]
      /\ m \in Clients
  BY <1>1, <1>2 DEF Basis, TypeInv, TypeOK, MountFor
<1>4. \A k \in Clients : byID[k] \subseteq byID'[k] /\ byID'[k] \subseteq byID[k] \cup {c}
  BY <1>1, <1>2, <1>3
<1>5. SUFFICES ASSUME Undisturbed
               PROVE  NoOldRows' /\ FirstIsAlone' /\ LiveFirst'
  BY <1>1 DEF RowsInv, Undisturbed
<1>6. NoOldRows /\ LiveFirst
  BY <1>5 DEF RowsInv
<1>7. NoOldRows'
  BY <1>1, <1>3, <1>4, <1>6 DEF NoOldRows, NoListWithoutMount, NoRowWithoutClient
<1>8. FirstIsAlone'
  BY <1>1, <1>2, <1>3 DEF FirstIsAlone, MountFor
<1>9. LiveFirst'
  <2>1. SUFFICES ASSUME NEW n \in MountNames, mounts[n] # Nil,
                        active[mounts[n]] \in byID'[mounts[n]] \ {c}
                 PROVE  handlerMounts[n] # <<>> /\ Head(handlerMounts[n]) = active[mounts[n]]
    BY <1>1, <1>2 DEF LiveFirst
  <2>2. mounts[n] \in Clients /\ active[mounts[n]] \in byID[mounts[n]]
    BY <1>3, <1>4, <2>1
  <2>3. active[mounts[n]] # Nil
    BY <1>3, <2>2, ConstantsAssumption
  <2>4. QED
    BY <1>2, <1>6, <2>1, <2>2, <2>3 DEF LiveFirst
<1>10. QED
  BY <1>7, <1>8, <1>9

LEMMA RowsConnect ==
    ASSUME Basis, BookInv, OrderInv, RowsInv, ConnectClient
    PROVE  RowsInv'
<1> DEFINE n0 == MountOf[cur]
           L == handlerMounts[n0]
<1>1. /\ pc = "connect" /\ pc' = "select" /\ cur' = Nil
      /\ handlerMounts' = [handlerMounts EXCEPT ![n0] = Append(@, cur)]
      /\ UNCHANGED <<mounts, byID, active, fatals, freedUse>>
  BY DEF ConnectClient, HandleClientConnect, mountVars, faultVars
<1>2. /\ cur \in Clients /\ n0 \in MountNames
      /\ mounts \in [MountNames -> Clients \cup {Nil}]
      /\ handlerMounts \in [MountNames -> Seq(Clients)]
  BY <1>1, HashType DEF Basis, TypeInv, TypeOK, LoopOK
<1>3. /\ handlerMounts'[n0] = Append(L, cur) /\ L \in Seq(Clients)
      /\ \A n \in MountNames : n # n0 => handlerMounts'[n] = handlerMounts[n]
  BY <1>1, <1>2
<1>4. SUFFICES ASSUME Undisturbed
               PROVE  NoOldRows' /\ FirstIsAlone' /\ LiveFirst'
  BY <1>1 DEF RowsInv, Undisturbed
<1>5. NoOldRows /\ FirstIsAlone /\ LiveFirst
  BY <1>4 DEF RowsInv
<1>6. mounts[n0] # Nil /\ cur \in byID[mounts[n0]]
  BY <1>1, <1>4 DEF BookInv, SoundBooks, HandledOnMount, OnMount, MountFor, Undisturbed
<1>7. ToSet(handlerMounts'[n0]) = ToSet(L) \cup {cur}
  BY <1>2, <1>3, SendMembers
<1>8. NoOldRows'
  <2>1. NoListWithoutMount'
    BY <1>1, <1>3, <1>5, <1>6 DEF NoOldRows, NoListWithoutMount
  <2>2. SUFFICES ASSUME NEW n \in MountNames, mounts[n] # Nil, NEW d \in ToSet(handlerMounts'[n])
                 PROVE  d \in byID[mounts[n]]
    BY <1>1, <2>1 DEF NoOldRows, NoRowWithoutClient
  <2>3. \A e \in ToSet(handlerMounts[n]) : e \in byID[mounts[n]]
    BY <1>1, <1>5, <2>2 DEF NoOldRows, NoRowWithoutClient
  <2>4. QED
    BY <1>3, <1>6, <1>7, <2>2, <2>3
<1>9. FirstIsAlone'
  BY <1>1 DEF FirstIsAlone
<1>10. LiveFirst'
  <2>1. SUFFICES ASSUME NEW n \in MountNames, mounts[n] # Nil,
                        active[mounts[n]] \in byID[mounts[n]]
                 PROVE  handlerMounts'[n] # <<>> /\ Head(handlerMounts'[n]) = active[mounts[n]]
    BY <1>1 DEF LiveFirst
  <2>2. CASE active[mounts[n]] = cur
    <3>1. MountOf[cur] = MountOf[mounts[n]] /\ MountOf[mounts[n]] = n
      BY <1>2, <2>1, <2>2 DEF BookInv, OwnMountpoint, Basis, MountInv, RegisteredUnderOwnName
    <3>2. L = <<>>
      BY <1>1, <1>5, <2>2, <3>1 DEF FirstIsAlone, MountFor
    <3>3. handlerMounts'[n] = <<cur>>
      BY <1>3, <3>1, <3>2
    <3>4. QED
      BY <2>2, <3>3
  <2>3. CASE active[mounts[n]] # cur
    <3>1. handlerMounts[n] # <<>> /\ Head(handlerMounts[n]) = active[mounts[n]]
      BY <1>5, <2>1, <2>3 DEF LiveFirst
    <3>2. L # <<>> => Append(L, cur) # <<>> /\ Head(Append(L, cur)) = Head(L)
      BY <1>2, <1>3, HeadOfAppend
    <3>3. QED
      BY <1>3, <3>1, <3>2
  <2>4. QED
    BY <2>2, <2>3
<1>11. QED
  BY <1>8, <1>9, <1>10

LEMMA RowsSwap ==
    ASSUME Basis, BookInv, OrderInv, RowsInv, SwapLiveClient
    PROVE  RowsInv'
<1> DEFINE n0 == MountOf[cur]
           m == MountFor(cur)
           L == handlerMounts[n0]
<1>1. /\ cur \in Clients /\ n0 \in MountNames /\ m \in Clients /\ m = mounts[n0]
      /\ pc = "remove" /\ pc' = "swap" /\ active[m] = cur
      /\ UNCHANGED <<cur, mounts, byID, fatals, freedUse>>
  BY HashType DEF SwapLiveClient, IsLive, Basis, TypeInv, TypeOK, LoopOK, MountFor, faultVars
<1>2. PICK i \in NextInLine(m) :
         /\ active' = [active EXCEPT ![m] = clientQueue[m][i]]
         /\ handlerMounts' = [handlerMounts EXCEPT ![n0] = HandleClientLive(@, clientQueue[m][i])]
  BY DEF SwapLiveClient
<1> DEFINE next == clientQueue[m][i]
<1>3. /\ handlerMounts \in [MountNames -> Seq(Clients)]
      /\ mounts \in [MountNames -> Clients \cup {Nil}] /\ active \in [Clients -> Clients \cup {Nil}]
      /\ byID \in [Clients -> SUBSET Clients]
  BY DEF Basis, TypeInv, TypeOK
<1>4. next \in Clients /\ next \in byID[m] /\ next # cur
  <2>1. next \in byID[m] /\ next \in ToSet(clientQueue[m])
    BY <1>1, QueueAfterNext DEF Basis, PlaceInv, QueueHoldsAdopted
  <2>2. QED
    BY <1>1, <1>3, <2>1 DEF Basis, PlaceInv, LiveClientNotInLine
<1>5. L \in Seq(Clients) /\ IsInjective(L) /\ next \in ToSet(L)
  BY <1>1, <1>3, <1>4, ConstantsAssumption DEF OrderInv, ListedOnce, EveryoneListed
<1> HIDE DEF next
<1>6. /\ handlerMounts'[n0] = HandleClientLive(L, next) /\ active'[m] = next
      /\ \A k \in Clients : k # m => active'[k] = active[k]
      /\ \A n \in MountNames : n # n0 => handlerMounts'[n] = handlerMounts[n]
  BY <1>1, <1>2, <1>3 DEF next
<1>7. /\ ToSet(handlerMounts'[n0]) = ToSet(L)
      /\ handlerMounts'[n0] # <<>> /\ Head(handlerMounts'[n0]) = next
  BY <1>4, <1>5, <1>6, LiveElements
<1>8. SUFFICES ASSUME Undisturbed
               PROVE  NoOldRows' /\ FirstIsAlone' /\ LiveFirst'
  BY <1>1 DEF RowsInv, Undisturbed
<1>9. NoOldRows /\ LiveFirst
  BY <1>8 DEF RowsInv
<1>10. NoOldRows'
  <2>1. NoListWithoutMount'
    BY <1>1, <1>6, <1>9, ConstantsAssumption DEF NoOldRows, NoListWithoutMount
  <2>2. \A n \in MountNames : ToSet(handlerMounts'[n]) = ToSet(handlerMounts[n])
    BY <1>6, <1>7
  <2>3. QED
    BY <1>1, <1>9, <2>1, <2>2 DEF NoOldRows, NoRowWithoutClient
<1>11. FirstIsAlone'
  BY <1>1 DEF FirstIsAlone
<1>12. LiveFirst'
  <2>1. SUFFICES ASSUME NEW n \in MountNames, mounts[n] # Nil,
                        active'[mounts[n]] \in byID[mounts[n]] \ {cur}
                 PROVE  handlerMounts'[n] # <<>> /\ Head(handlerMounts'[n]) = active'[mounts[n]]
    BY <1>1 DEF LiveFirst
  <2>2. CASE n = n0
    BY <1>1, <1>6, <1>7, <2>2
  <2>3. CASE n # n0
    <3>1. mounts[n] # m /\ mounts[n] \in Clients
      BY <1>1, <1>3, <2>1, <2>3, ConstantsAssumption DEF Basis, MountInv, RegisteredUnderOwnName
    <3>2. QED
      BY <1>6, <1>9, <2>1, <2>3, <3>1 DEF LiveFirst
  <2>4. QED
    BY <2>2, <2>3
<1>13. QED
  BY <1>10, <1>11, <1>12

LEMMA RowsDetach ==
    ASSUME Basis, BookInv, RowsInv,
           RemoveWaitingClient \/ RemoveLastLiveClient \/ SendSwapMetadata
    PROVE  RowsInv'
<1> DEFINE m == MountFor(cur)
<1>1. /\ UNCHANGED <<mounts, cur, active, handlerMounts, fatals, freedUse>>
      /\ pc \in {"remove", "swap"} /\ pc' = "disconnect"
      /\ byID' = [byID EXCEPT ![m] = @ \ {cur}]
  BY DEF RemoveWaitingClient, RemoveLastLiveClient, SendSwapMetadata, Detach, handlerVars,
     faultVars
<1>2. /\ byID \in [Clients -> SUBSET Clients] /\ mounts \in [MountNames -> Clients \cup {Nil}]
  BY DEF Basis, TypeInv, TypeOK
<1>3. \A k \in Clients : byID[k] \ {cur} \subseteq byID'[k] /\ byID'[k] \subseteq byID[k]
  BY <1>1, <1>2
<1>4. SUFFICES ASSUME Undisturbed
               PROVE  NoOldRows' /\ FirstIsAlone' /\ LiveFirst'
  BY <1>1 DEF RowsInv, Undisturbed
<1>5. NoOldRows /\ LiveFirst
  BY <1>4 DEF RowsInv
<1>6. NoOldRows'
  <2>1. NoListWithoutMount'
    BY <1>1, <1>5 DEF NoOldRows, NoListWithoutMount
  <2>2. NoRowWithoutClient'
    BY <1>1, <1>2, <1>3, <1>5 DEF NoOldRows, NoRowWithoutClient
  <2>3. QED
    BY <2>1, <2>2 DEF NoOldRows
<1>7. LiveFirst'
  BY <1>1, <1>2, <1>3, <1>5 DEF LiveFirst
<1>8. QED
  BY <1>1, <1>6, <1>7 DEF FirstIsAlone

\* The end of a handler, and its beginning in the error case: cur changes, but
\* no registered mount holds the client it named.
LEMMA RowsCurMoves ==
    ASSUME Basis, BookInv, RowsInv, ReceiveError \/ RegisterEmptyMount
    PROVE  RowsInv'
<1>1. /\ UNCHANGED <<mounts, byID, active, handlerMounts, fatals, freedUse>>
      /\ pc' \in {"remove", "select"}
      /\ pc = "select" \/ pc = "collect"
  BY DEF ReceiveError, RegisterEmptyMount, mountVars, handlerVars, faultVars
<1>2. \A n \in MountNames : mounts[n] # Nil => cur \notin byID[mounts[n]]
  <2>1. CASE pc = "select"
    <3>1. cur = Nil
      BY <2>1 DEF Basis, PlaceInv, HandledClient
    <3>2. QED
      BY <3>1, ConstantsAssumption DEF Basis, TypeInv, TypeOK
  <2>2. CASE pc = "collect"
    BY <2>2, GoneFromMounts
  <2>3. QED
    BY <1>1, <2>1, <2>2
<1>3. SUFFICES ASSUME Undisturbed
               PROVE  NoOldRows' /\ FirstIsAlone' /\ LiveFirst'
  BY <1>1 DEF RowsInv, Undisturbed
<1>4. NoOldRows /\ LiveFirst
  BY <1>3 DEF RowsInv
<1>5. NoOldRows' /\ FirstIsAlone'
  BY <1>1, <1>4 DEF NoOldRows, NoListWithoutMount, NoRowWithoutClient, FirstIsAlone
<1>6. LiveFirst'
  BY <1>1, <1>2, <1>4 DEF LiveFirst
<1>7. QED
  BY <1>5, <1>6

LEMMA RowsDisconnect ==
    ASSUME Basis, BookInv, OrderInv, RowsInv, DisconnectClient
    PROVE  RowsInv'
<1> DEFINE n0 == MountOf[cur]
           L == handlerMounts[n0]
<1>1. /\ pc = "disconnect" /\ pc' \in {"collect", "select"} /\ cur' \in {cur, Nil}
      /\ \/ handlerMounts' = handlerMounts /\ L = <<>>
         \/ handlerMounts' = [handlerMounts EXCEPT ![n0] = Without(@, cur)]
      /\ UNCHANGED <<mounts, byID, active, fatals, freedUse>>
  BY DEF DisconnectClient, HandleClientDisconnect, mountVars, faultVars
<1>2. /\ cur \in Clients /\ n0 \in MountNames /\ mounts[n0] # Nil
      /\ handlerMounts \in [MountNames -> Seq(Clients)]
      /\ mounts \in [MountNames -> Clients \cup {Nil}]
  BY <1>1, HashType DEF Basis, TypeInv, TypeOK, LoopOK, MountFor
<1>3. \A n \in MountNames : mounts[n] # Nil => cur \notin byID[mounts[n]]
  BY <1>1, GoneFromMounts
<1>4. L \in Seq(Clients) /\ IsInjective(L)
  BY <1>2 DEF OrderInv, ListedOnce
<1>5. /\ \A n \in MountNames : n # n0 => handlerMounts'[n] = handlerMounts[n]
      /\ ToSet(handlerMounts'[n0]) = ToSet(L) \ {cur}
      /\ L # <<>> /\ Head(L) # cur => handlerMounts'[n0] # <<>> /\ Head(handlerMounts'[n0]) = Head(L)
  <2>1. CASE handlerMounts' = handlerMounts /\ L = <<>>
    BY <2>1, NoMembers
  <2>2. CASE handlerMounts' = [handlerMounts EXCEPT ![n0] = Without(@, cur)]
    <3>1. handlerMounts'[n0] = Without(L, cur)
      BY <1>2, <2>2
    <3>2. \A n \in MountNames : n # n0 => handlerMounts'[n] = handlerMounts[n]
      BY <1>2, <2>2
    <3>3. /\ ToSet(Without(L, cur)) = ToSet(L) \ {cur}
          /\ L # <<>> /\ Head(L) # cur => Without(L, cur) # <<>> /\ Head(Without(L, cur)) = Head(L)
      <4> HIDE DEF L
      <4>1. QED
        BY <1>2, <1>4, WithoutElements
    <3>4. QED
      BY <3>1, <3>2, <3>3
  <2>3. QED
    BY <1>1, <2>1, <2>2
<1>6. SUFFICES ASSUME Undisturbed
               PROVE  NoOldRows' /\ FirstIsAlone' /\ LiveFirst'
  BY <1>1 DEF RowsInv, Undisturbed
<1>7. NoOldRows /\ LiveFirst
  BY <1>6 DEF RowsInv
<1>8. NoOldRows'
  <2>1. NoListWithoutMount'
    BY <1>1, <1>2, <1>5, <1>7 DEF NoOldRows, NoListWithoutMount
  <2>2. SUFFICES ASSUME NEW n \in MountNames, mounts[n] # Nil, NEW d \in ToSet(handlerMounts'[n])
                 PROVE  d \in byID[mounts[n]]
    BY <1>1, <2>1 DEF NoOldRows, NoRowWithoutClient
  <2>3. d \in ToSet(handlerMounts[n]) /\ d # cur
    <3>1. CASE n = n0
      BY <1>5, <2>2, <3>1
    <3>2. CASE n # n0
      <4>1. MountOf[d] = n /\ d \in ToSet(handlerMounts[n])
        BY <1>5, <2>2, <3>2 DEF OrderInv, ListedOnce
      <4>2. QED
        BY <3>2, <4>1
    <3>3. QED
      BY <3>1, <3>2
  <2>4. QED
    BY <1>7, <2>2, <2>3 DEF NoOldRows, NoRowWithoutClient
<1>9. FirstIsAlone'
  BY <1>1 DEF FirstIsAlone
<1>10. LiveFirst'
  <2>1. SUFFICES ASSUME NEW n \in MountNames, mounts[n] # Nil,
                        active[mounts[n]] \in byID[mounts[n]]
                 PROVE  handlerMounts'[n] # <<>> /\ Head(handlerMounts'[n]) = active[mounts[n]]
    BY <1>1 DEF LiveFirst
  <2>2. active[mounts[n]] # cur
    BY <1>3, <2>1
  <2>3. handlerMounts[n] # <<>> /\ Head(handlerMounts[n]) = active[mounts[n]]
    BY <1>7, <2>1, <2>2 DEF LiveFirst
  <2>4. QED
    BY <1>5, <2>2, <2>3
<1>11. QED
  BY <1>8, <1>9, <1>10

\* The mount that is collected has no clients, by Length, and hence no rows.
LEMMA RowsCollect ==
    ASSUME Basis, BookInv, RowsInv, CollectMount
    PROVE  RowsInv'
<1> DEFINE m == Head(mountCollector)
<1>1. /\ UNCHANGED <<byID, active, cur, handlerMounts, fatals>> /\ (freedUse => freedUse')
      /\ pc = "select" /\ mountCollector # <<>> /\ length[m] <= 0
      /\ \/ freedUse'
         \/ /\ mounts' = [mounts EXCEPT ![MountOf[m]] = Nil]
            /\ pc' = pc /\ shout[m] # "freed"
  BY DEF CollectMount, TakeMount, NoClientsLeft, Deregister, mountVars, handlerVars
<1>2. /\ mountCollector \in Seq(Clients)
      /\ mounts \in [MountNames -> Clients \cup {Nil}]
      /\ shout \in [Clients -> {"none", "closed", "open", "freed"}]
      /\ handlerMounts \in [MountNames -> Seq(Clients)]
  BY DEF Basis, TypeInv, TypeOK
<1>3. m \in Clients /\ m \in ToSet(mountCollector) /\ MountOf[m] \in MountNames
  BY <1>1, <1>2, ReceiveMembers, ReceiveType, HashType
<1>4. SUFFICES ASSUME Undisturbed, ~freedUse'
               PROVE  NoOldRows' /\ FirstIsAlone' /\ LiveFirst'
  BY <1>1 DEF RowsInv, Undisturbed
<1>5. NoOldRows /\ LiveFirst /\ SoundBooks
  BY <1>4 DEF RowsInv, BookInv, Undisturbed
<1>6. /\ mounts'[MountOf[m]] = Nil
      /\ \A n \in MountNames : n # MountOf[m] => mounts'[n] = mounts[n]
  BY <1>1, <1>2, <1>3, <1>4
<1>7. mounts[MountOf[m]] = m
  <2>1. shout[m] \in {"closed", "open"}
    BY <1>1, <1>2, <1>3, <1>4 DEF BookInv, CollectorHasMounts
  <2>2. QED
    BY <1>3, <1>5, <2>1 DEF SoundBooks, OpenIsRegistered, MountFor
<1>8. byID[m] = {}
  <2>1. IsFiniteSet(byID[m]) /\ length[m] = Cardinality(byID[m])
    BY <1>3, <1>5 DEF BookInv, FiniteMounts, SoundBooks, Counted
  <2>2. Cardinality(byID[m]) \in Nat
    BY <2>1, FS_CardinalityType
  <2>3. Cardinality(byID[m]) = 0
    BY <1>1, <2>1, <2>2
  <2>4. QED
    BY <2>1, <2>3, FS_EmptySet
<1>9. handlerMounts[MountOf[m]] = <<>>
  <2>1. ToSet(handlerMounts[MountOf[m]]) = {}
    BY <1>1, <1>3, <1>5, <1>7, <1>8, ConstantsAssumption DEF NoOldRows, NoRowWithoutClient
  <2>2. handlerMounts[MountOf[m]] \in Seq(Clients)
    BY <1>2, <1>3
  <2>3. QED
    BY <2>1, <2>2, ReceiveType
<1>10. NoOldRows'
  <2>1. NoListWithoutMount'
    BY <1>1, <1>5, <1>6, <1>9 DEF NoOldRows, NoListWithoutMount
  <2>2. NoRowWithoutClient'
    BY <1>1, <1>4, <1>5, <1>6 DEF NoOldRows, NoRowWithoutClient
  <2>3. QED
    BY <2>1, <2>2 DEF NoOldRows
<1>11. FirstIsAlone' /\ LiveFirst'
  BY <1>1, <1>4, <1>5, <1>6 DEF FirstIsAlone, LiveFirst
<1>12. QED
  BY <1>10, <1>11

LEMMA RowsNext ==
    ASSUME Basis, BookInv, OrderInv, RowsInv, [Next]_vars
    PROVE  RowsInv'
<1>1. CASE UNCHANGED vars
  BY <1>1, RowsFrame DEF vars, loopVars, mountVars, handlerVars, faultVars, Undisturbed
<1>2. CASE OtherStep
  <2>1. /\ UNCHANGED <<cur, mounts, byID, active, handlerMounts, freedUse, fatals>>
        /\ pc' \in {pc, "crashed"}
    BY <1>2 DEF OtherStep, SourceRequest, SendClient, ReadData, ReadError, PostMetadata,
       ResendMetadata, StaleTimerFires, AdminListBegin, AdminListEnd, Kick, KickOutOfRange,
       loopVars, mountVars, handlerVars, faultVars
  <2>2. QED
    BY <2>1, RowsFrame DEF Undisturbed
<1>3. CASE ManagerStep
  <2>1. CASE AddFirstClient \/ AddWaitingClient \/ ConnectClient \/ SwapLiveClient
             \/ RemoveWaitingClient \/ RemoveLastLiveClient \/ SendSwapMetadata
             \/ ReceiveError \/ RegisterEmptyMount \/ DisconnectClient \/ CollectMount
    BY <2>1, RowsAddFirst, RowsAddWaiting, RowsConnect, RowsSwap, RowsDetach, RowsCurMoves,
       RowsDisconnect, RowsCollect
  <2>2. CASE SendStoredMetadata \/ SwapRacesAdmin
             \/ AbortCollection \/ DiscardData \/ StoreMetadata
             \/ DiscardMetadata \/ SaveMetadata \/ DelayMetadata \/ SendMetadata
             \/ ForgetStoredMetadata
    <3>1. /\ UNCHANGED <<cur, mounts, byID, active, handlerMounts, freedUse, fatals>>
          /\ pc' \in {pc, "crashed"} \/ (pc = "stored" /\ pc' = "connect")
      BY <2>2 DEF SendStoredMetadata, SwapRacesAdmin, AbortCollection, DiscardData,
         StoreMetadata, DiscardMetadata, SaveMetadata, DelayMetadata, SendMetadata,
         ForgetStoredMetadata, loopVars, mountVars, handlerVars, faultVars
    <3>2. QED
      BY <3>1, RowsFrame DEF Undisturbed
  <2>3. CASE HandleData
    <3>1. /\ UNCHANGED <<cur, mounts, byID, active, handlerMounts, freedUse>>
          /\ \/ pc' = pc /\ fatals' = fatals
             \/ fatals' = fatals + 1
      BY <2>3 DEF HandleData, mountVars, handlerVars
    <3>2. fatals \in Nat
      BY DEF Basis, TypeInv, TypeOK
    <3>3. fatals' = 0 => pc' = pc /\ fatals = 0
      BY <3>1, <3>2
    <3>4. QED
      BY <3>1, <3>3, RowsFrame DEF Undisturbed
  <2>4. CASE RemoveFromUnknownMount
    <3>1. freedUse' = freedUse /\ pc = "remove" /\ MountFor(cur) = Nil
      BY <2>4 DEF RemoveFromUnknownMount, faultVars
    <3>2. freedUse
      BY <3>1 DEF BookInv, SoundBooks, HandledOnMount, OnMount
    <3>3. QED
      BY <3>1, <3>2 DEF RowsInv, Undisturbed
  <2>5. CASE Restart
    <3>1. freedUse' = freedUse /\ fatals' = fatals /\ pc = "panic"
      BY <2>5 DEF Restart, NewMounts, NewErrors
    <3>2. QED
      BY <3>1 DEF RowsInv, Undisturbed
  <2>6. QED
    BY <1>3, <2>1, <2>2, <2>3, <2>4, <2>5 DEF ManagerStep
<1>4. QED
  BY <1>1, <1>2, <1>3 DEF Next

\* The row that the /admin page prints in bold, the first one, is the live
\* client, as long as no manager was replaced after a panic and no destroyed
\* instance was used: HandleClientLive reorders the list at the right moment
\* and no handler moves anybody in front of the live client.
THEOREM FirstRowIsLive == Spec => []AdminShowsLiveFirst
<1>1. Init => RowsInv
  BY NoMembers DEF Init, RowsInv, NoOldRows, NoListWithoutMount, NoRowWithoutClient,
     FirstIsAlone, LiveFirst
<1>2. RowsInv => AdminShowsLiveFirst
  BY DEF RowsInv, Undisturbed, LiveFirst, AdminShowsLiveFirst
<1>3. QED
  BY <1>1, <1>2, OrderInvariant, RowsNext, PTL DEF Spec
=============================================================================

---------------------------- MODULE ArchiveProofs ----------------------------
(***************************************************************************)
(* Proofs about the archive-bit repair, for every tree on the card and     *)
(* any list of folders to repair: whatever fails and wherever it is cut    *)
(* no file is lost, and a repair that counts no error puts every file back *)
(* where it was.                                                           *)
(*                                                                         *)
(* The invariant rests on one fact about processDirectory's recursion: a   *)
(* call renames its own directory only after the calls for its             *)
(* subdirectories have returned, so no directory but the innermost call's  *)
(* is ever away from its name.                                             *)
(***************************************************************************)
EXTENDS ArchiveBit, WellFoundedInduction, TLAPS

\* A set of natural numbers that is not empty has a least element.
LEMMA LeastNumber ==
    ASSUME NEW S \in SUBSET Nat, S # {}
    PROVE  \E n \in S : \A m \in S : n <= m
  <1>1. PICK n \in S : \A m \in S : ~(<<m, n>> \in OpToRel(<, Nat))
    BY WFMin, NatLessThanWellFounded, Zenon
  <1>2. \A m \in S : ~(m < n)
    BY <1>1, Zenon DEF OpToRel
  <1> QED
    BY <1>2

\* Induction over the natural numbers, for a set.
LEMMA NumberInduction ==
    ASSUME NEW S, 0 \in S, \A n \in Nat : n \in S => n + 1 \in S
    PROVE  \A n \in Nat : n \in S
  <1> SUFFICES ASSUME Nat \ S # {} PROVE FALSE
    OBVIOUS
  <1>1. PICK n \in Nat \ S : \A m \in Nat \ S : n <= m
    BY LeastNumber, Nat \ S \in SUBSET Nat, Zenon
  <1>2. n \in Nat /\ n # 0
    OBVIOUS
  <1>3. n - 1 \in Nat
    BY <1>2
  <1>4. n - 1 \in S
    BY <1>1, <1>3
  <1> QED
    BY <1>3, <1>4

\* A sequence is its items.
LEMMA SameItems ==
    ASSUME NEW S, NEW s \in Seq(S), NEW t \in Seq(S), Len(s) = Len(t),
           \A i \in 1..Len(s) : s[i] = t[i]
    PROVE  s = t
  OBVIOUS

\* A sequence without its last item.
LEMMA WithoutLast ==
    ASSUME NEW S, NEW s \in Seq(S), Len(s) # 0
    PROVE  /\ SubSeq(s, 1, Len(s) - 1) \in Seq(S) /\ Len(SubSeq(s, 1, Len(s) - 1)) = Len(s) - 1
           /\ \A i \in 1..Len(s) - 1 : SubSeq(s, 1, Len(s) - 1)[i] = s[i]
  <1> DEFINE n == Len(s) - 1
  <1>1. n \in Nat /\ n <= Len(s)
    OBVIOUS
  <1>2. SubSeq(s, 1, n) \in Seq(S)
    BY <1>1
  <1>3. Len(SubSeq(s, 1, n)) = n
    <2>1. CASE n = 0
      BY <2>1
    <2>2. CASE n > 0
      BY <1>1, <2>2
    <2>3. \A k \in Nat : k = 0 \/ k > 0
      OBVIOUS
    <2> QED
      BY <1>1, <2>1, <2>2, <2>3, Zenon
  <1>4. \A i \in 1..n : SubSeq(s, 1, n)[i] = s[i]
    BY <1>1
  <1> QED
    BY <1>2, <1>3, <1>4

\* The parent and the temporary name of a path.
LEMMA ParentParts ==
    ASSUME NEW p \in CardPath
    PROVE  /\ Len(p) \in Nat \ {0} /\ DOMAIN p = 1..Len(p)
           /\ \A i \in 1..Len(p) : p[i] \in STRING \X Nat
           /\ Filename(p) \in STRING \X Nat
           /\ Parent(p) \in Seq(STRING \X Nat) /\ Len(Parent(p)) = Len(p) - 1
           /\ \A i \in 1..Len(p) - 1 : Parent(p)[i] = p[i]
           /\ Parent(p) # <<>> => Parent(p) \in CardPath
           /\ Parent(p) = <<>> <=> Len(p) = 1
  <1>1. p \in Seq(STRING \X Nat) /\ p # <<>>
    BY DEF CardPath
  <1>2. Len(p) \in Nat \ {0} /\ DOMAIN p = 1..Len(p) /\ \A i \in 1..Len(p) : p[i] \in STRING \X Nat
    BY <1>1
  <1>3. Parent(p) \in Seq(STRING \X Nat) /\ Len(Parent(p)) = Len(p) - 1
    BY <1>1, <1>2, WithoutLast DEF Parent
  <1>4. \A i \in 1..Len(p) - 1 : Parent(p)[i] = p[i]
    BY <1>1, <1>2, WithoutLast DEF Parent
  <1>5. Parent(p) = <<>> <=> Len(p) = 1
    <2>1. \A s \in Seq(STRING \X Nat) : s = <<>> <=> Len(s) = 0
      OBVIOUS
    <2>2. Parent(p) = <<>> <=> Len(p) - 1 = 0
      BY <1>3, <2>1, Zenon
    <2> QED
      BY <1>2, <2>2
  <1>6. Filename(p) \in STRING \X Nat
    BY <1>2 DEF Filename
  <1>7. Parent(p) # <<>> => Parent(p) \in CardPath
    BY <1>3, Zenon DEF CardPath
  <1> QED
    BY <1>2, <1>3, <1>4, <1>5, <1>6, <1>7, Zenon

\* An entry put into a directory.
LEMMA AppendPath ==
    ASSUME NEW d \in Seq(STRING \X Nat), NEW x \in STRING \X Nat
    PROVE  /\ Append(d, x) \in CardPath /\ Len(Append(d, x)) = Len(d) + 1
           /\ Parent(Append(d, x)) = d /\ Filename(Append(d, x)) = x
           /\ \A i \in 1..Len(d) : Append(d, x)[i] = d[i]
  <1> DEFINE p == Append(d, x)
  <1>1. /\ p \in Seq(STRING \X Nat) /\ Len(p) = Len(d) + 1 /\ Len(d) \in Nat
        /\ p[Len(p)] = x /\ \A i \in 1..Len(d) : p[i] = d[i]
    OBVIOUS
  <1> HIDE DEF p
  <1>2. p \in CardPath
    BY <1>1 DEF CardPath
  <1>3. Parent(p) = d
    <2>1. /\ Parent(p) \in Seq(STRING \X Nat) /\ Len(Parent(p)) = Len(p) - 1
          /\ \A i \in 1..Len(p) - 1 : Parent(p)[i] = p[i]
      BY <1>2, ParentParts, Zenon
    <2>2. Len(Parent(p)) = Len(d)
      BY <1>1, <2>1
    <2>3. \A i \in 1..Len(Parent(p)) : Parent(p)[i] = d[i]
      BY <1>1, <2>1, <2>2
    <2> QED
      BY <2>1, <2>2, <2>3, SameItems, Zenon
  <1> QED
    BY <1>1, <1>2, <1>3, Zenon DEF p, Filename

\* A directory and its temporary name have the same parent and are two names.
LEMMA TempParts ==
    ASSUME NEW d \in CardPath, ~IsFile(d)
    PROVE  /\ tempDir(d) \in CardPath /\ ~IsFile(tempDir(d)) /\ Len(tempDir(d)) = Len(d)
           /\ Parent(tempDir(d)) = Parent(d) /\ tempDir(d)[Len(d)] # d[Len(d)]
           /\ \A i \in 1..Len(d) - 1 : tempDir(d)[i] = d[i]
  <1> DEFINE x == <<Filename(d)[1], Filename(d)[2] + 1>>
  <1>1. x \in STRING \X Nat /\ x # Filename(d) /\ x[1] = Filename(d)[1]
    BY ParentParts
  <1>2. tempDir(d) = Append(Parent(d), x)
    BY DEF tempDir
  <1> HIDE DEF x
  <1>3. Len(d) \in Nat \ {0} /\ Parent(d) \in Seq(STRING \X Nat) /\ Len(Parent(d)) = Len(d) - 1
    BY ParentParts
  <1>4. /\ tempDir(d) \in CardPath /\ Len(tempDir(d)) = Len(d)
        /\ Parent(tempDir(d)) = Parent(d) /\ Filename(tempDir(d)) = x
        /\ \A i \in 1..Len(d) - 1 : tempDir(d)[i] = Parent(d)[i]
    BY <1>1, <1>2, <1>3, AppendPath
  <1> QED
    BY <1>1, <1>4, ParentParts DEF IsFile, Filename

\* What a rename makes of a path.
LEMMA Unmoved ==
    ASSUME NEW p, NEW from, NEW to, ~Within(p, from)
    PROVE  Moved(p, from, to) = p
  BY DEF Moved

\* q is p after a rename of what it is within.
IsMoved(q, p, from, to) ==
    /\ q \in CardPath /\ Len(q) = Len(to) + Len(p) - Len(from)
    /\ \A i \in 1..Len(to) : q[i] = to[i]
    /\ \A i \in 1..Len(p) - Len(from) : q[Len(to) + i] = p[Len(from) + i]

\* A path within what is renamed keeps what is behind it.
LEMMA MovedWithin ==
    ASSUME NEW p \in CardPath, NEW from \in CardPath, NEW to \in CardPath, Within(p, from)
    PROVE  IsMoved(Moved(p, from, to), p, from, to)
  <1> DEFINE q == Moved(p, from, to)
             N == STRING \X Nat
             rest == SubSeq(p, Len(from) + 1, Len(p))
  <1>1. /\ p \in Seq(N) /\ from \in Seq(N) /\ to \in Seq(N)
        /\ Len(p) \in Nat \ {0} /\ Len(from) \in Nat \ {0} /\ Len(to) \in Nat \ {0}
    BY ParentParts DEF CardPath
  <1>2. q = to \o rest
    BY DEF Moved
  <1>3. Len(from) <= Len(p)
    BY DEF Within
  <1>4. /\ rest \in Seq(N) /\ Len(rest) = Len(p) - Len(from)
        /\ \A i \in 1..Len(p) - Len(from) : rest[i] = p[Len(from) + i]
    BY <1>1, <1>3, SMTT(30)
  <1> HIDE DEF rest, N, q
  <1>5. /\ q \in Seq(N) /\ Len(q) = Len(to) + Len(rest)
        /\ \A i \in 1..Len(to) : q[i] = to[i]
        /\ \A i \in 1..Len(rest) : q[Len(to) + i] = rest[i]
    <2>1. /\ \A s, t \in Seq(N) :
            /\ s \o t \in Seq(N) /\ Len(s \o t) = Len(s) + Len(t)
            /\ \A i \in 1..Len(s) : (s \o t)[i] = s[i]
            /\ \A i \in 1..Len(t) : (s \o t)[Len(s) + i] = t[i]
      OBVIOUS
    <2> QED
      BY <1>1, <1>2, <1>4, <2>1, ZenonT(60)
  <1>6. q \in CardPath
    BY <1>1, <1>4, <1>5 DEF CardPath, N
  <1>7. Len(q) = Len(to) + Len(p) - Len(from)
    BY <1>1, <1>3, <1>4, <1>5
  <1>8. \A i \in 1..Len(p) - Len(from) : q[Len(to) + i] = p[Len(from) + i]
    BY <1>4, <1>5
  <1> QED
    BY <1>5, <1>6, <1>7, <1>8, Zenon DEF q, IsMoved

\* What is renamed gets the new name.
LEMMA MovedItself ==
    ASSUME NEW p \in CardPath, NEW from \in CardPath, NEW to \in CardPath, Within(p, from),
           Len(p) = Len(from)
    PROVE  p = from /\ Moved(p, from, to) = to
  <1> DEFINE q == Moved(p, from, to)
             N == STRING \X Nat
  <1>1. /\ p \in Seq(N) /\ from \in Seq(N) /\ to \in Seq(N)
        /\ Len(p) \in Nat /\ Len(to) \in Nat /\ DOMAIN from = 1..Len(from)
    BY ParentParts DEF CardPath
  <1>2. q \in Seq(N) /\ Len(q) = Len(to) /\ \A i \in 1..Len(to) : q[i] = to[i]
    <2>1. /\ q \in CardPath /\ Len(q) = Len(to) + Len(p) - Len(from)
          /\ \A i \in 1..Len(to) : q[i] = to[i]
      BY MovedWithin, ZenonT(40) DEF IsMoved
    <2> HIDE DEF q
    <2> QED
      BY <1>1, <2>1 DEF CardPath
  <1>3. \A i \in 1..Len(p) : p[i] = from[i]
    BY <1>1 DEF Within
  <1> HIDE DEF q, N
  <1>4. p = from
    BY <1>1, <1>3, SameItems, Zenon
  <1>5. q = to
    BY <1>1, <1>2, SameItems, Zenon
  <1> QED
    BY <1>4, <1>5, Zenon DEF q

\* Only what is renamed itself can change its name.
LEMMA MovedParts ==
    ASSUME NEW p \in CardPath, NEW from \in CardPath, NEW to \in CardPath
    PROVE  /\ Moved(p, from, to) \in CardPath
           /\ Filename(Moved(p, from, to)) = IF p = from THEN Filename(to) ELSE Filename(p)
  <1> DEFINE q == Moved(p, from, to)
  <1>1. /\ Len(p) \in Nat \ {0} /\ Len(from) \in Nat \ {0} /\ Len(to) \in Nat \ {0}
        /\ DOMAIN from = 1..Len(from)
    BY ParentParts
  <1>2. CASE ~Within(p, from)
    <2>1. q = p
      BY <1>2, Unmoved, Zenon
    <2>2. p # from
      BY <1>1, <1>2 DEF Within
    <2> QED
      BY <2>1, <2>2, Zenon
  <1>3. CASE Within(p, from) /\ Len(p) = Len(from)
    <2>1. p = from /\ q = to
      BY <1>3, MovedItself, Zenon
    <2> QED
      BY <2>1, Zenon
  <1>4. CASE Within(p, from) /\ Len(p) # Len(from)
    <2>1. /\ q \in CardPath /\ Len(q) = Len(to) + Len(p) - Len(from)
          /\ \A i \in 1..Len(p) - Len(from) : q[Len(to) + i] = p[Len(from) + i]
      BY <1>4, MovedWithin, Zenon DEF IsMoved
    <2>2. Len(from) < Len(p)
      BY <1>1, <1>4 DEF Within
    <2> HIDE DEF q
    <2> DEFINE k == Len(p) - Len(from)
    <2>3. /\ k \in 1..Len(p) - Len(from) /\ Len(q) = Len(to) + k /\ Len(p) = Len(from) + k
      BY <1>1, <2>1, <2>2
    <2> HIDE DEF k
    <2>4. Filename(q) = Filename(p)
      BY <2>1, <2>3, Zenon DEF Filename
    <2> QED
      BY <1>4, <2>1, <2>4, Zenon DEF q
  <1> QED
    BY <1>2, <1>3, <1>4, Zenon

\* The paths on a card whose directories exist.
Tree(c) == c \subseteq CardPath /\ \A p \in c : Parent(p) \in c \cup {<<>>}

\* Every file is there, once.
Once(c) ==
    \A f \in Layout : IsFile(f) =>
        \E p \in c : Filename(p) = Filename(f) /\ \A q \in c : Filename(q) = Filename(f) => q = p

\* The files among the paths.
Files(c) == {p \in c : IsFile(p)}

\* A rename into a directory that exists keeps the tree.
LEMMA RenamedTree ==
    ASSUME Tree(card), NEW from \in CardPath, NEW to \in CardPath, Len(to) = Len(from),
           Parent(to) \in card \cup {<<>>}
    PROVE  Tree(Renamed(from, to))
  <1> DEFINE m(p) == Moved(p, from, to)
  <1>1. card \subseteq CardPath /\ Renamed(from, to) = {m(p) : p \in card}
    BY DEF Tree, Renamed
  <1>2. \A p \in card : m(p) \in CardPath
    BY <1>1, MovedParts, Zenon
  <1>3. ASSUME NEW r \in card, ~Within(r, from)
        PROVE  r \in Renamed(from, to)
    <2>1. m(r) = r
      BY <1>3, Unmoved, Zenon
    <2> HIDE DEF m
    <2> QED
      BY <1>1, <2>1, Zenon
  <1>4. ASSUME NEW p \in card
        PROVE  Parent(m(p)) \in Renamed(from, to) \cup {<<>>}
    <2> DEFINE r == Parent(p)
    <2>1. /\ p \in CardPath /\ r \in card \cup {<<>>}
          /\ Len(p) \in Nat \ {0} /\ Len(from) \in Nat \ {0} /\ Len(to) = Len(from)
          /\ DOMAIN from = 1..Len(from)
          /\ Len(r) = Len(p) - 1 /\ \A i \in 1..Len(p) - 1 : r[i] = p[i]
      BY <1>1, <1>4, ParentParts, SMTT(30) DEF Tree
    <2>2. CASE ~Within(p, from)
      <3>1. m(p) = p
        BY <2>2, Unmoved, Zenon
      <3>2. ~Within(r, from)
        BY <2>1, <2>2 DEF Within
      <3> QED
        BY <1>3, <2>1, <3>1, <3>2, Zenon
    <2>3. CASE Within(p, from) /\ Len(p) = Len(from)
      <3>1. m(p) = to
        BY <2>1, <2>3, MovedItself, Zenon
      <3>2. ~Within(Parent(to), from)
        <4>1. Len(Parent(to)) = Len(to) - 1
          BY ParentParts
        <4> QED
          BY <2>1, <4>1 DEF Within
      <3> QED
        BY <1>3, <3>1, <3>2, Zenon
    <2>4. CASE Within(p, from) /\ Len(p) # Len(from)
      <3>1. Len(from) < Len(p) /\ \A i \in 1..Len(from) : p[i] = from[i]
        BY <2>1, <2>4 DEF Within
      <3>2. r # <<>> /\ Len(from) <= Len(r) /\ \A i \in 1..Len(from) : r[i] = from[i]
        BY <2>1, <3>1
      <3>3. r \in card /\ r \in CardPath
        BY <1>1, <2>1, <3>2, Zenon
      <3>4. Within(r, from)
        BY <2>1, <3>2 DEF Within
      <3> DEFINE N == STRING \X Nat
                 q == m(p)
                 s == m(r)
      <3>5. /\ q \in CardPath /\ Len(q) = Len(to) + Len(p) - Len(from)
            /\ \A i \in 1..Len(to) : q[i] = to[i]
            /\ \A i \in 1..Len(p) - Len(from) : q[Len(to) + i] = p[Len(from) + i]
        BY <2>1, <2>4, MovedWithin, ZenonT(60) DEF IsMoved
      <3>6. /\ s \in CardPath /\ Len(s) = Len(to) + Len(r) - Len(from)
            /\ \A i \in 1..Len(to) : s[i] = to[i]
            /\ \A i \in 1..Len(r) - Len(from) : s[Len(to) + i] = r[Len(from) + i]
        BY <3>3, <3>4, MovedWithin, Zenon DEF IsMoved
      <3> HIDE DEF m, q, s, r
      <3>7. /\ Parent(q) \in Seq(N) /\ Len(Parent(q)) = Len(q) - 1
            /\ \A i \in 1..Len(q) - 1 : Parent(q)[i] = q[i]
            /\ s \in Seq(N)
        BY <3>5, <3>6, ParentParts, Zenon DEF CardPath
      <3>8. Len(q) = Len(p) /\ Len(s) = Len(p) - 1
        BY <2>1, <3>1, <3>5, <3>6
      <3>9. ASSUME NEW i \in 1..Len(s)
            PROVE  s[i] = Parent(q)[i]
        <4>1. Parent(q)[i] = q[i]
          BY <2>1, <3>7, <3>8, <3>9
        <4>2. CASE i <= Len(to)
          BY <2>1, <3>5, <3>6, <3>8, <4>1, <4>2
        <4>3. CASE i > Len(to)
          <5> DEFINE k == i - Len(to)
          <5>1. /\ k \in 1..Len(r) - Len(from) /\ k \in 1..Len(p) - Len(from)
                /\ i = Len(to) + k /\ Len(from) + k \in 1..Len(p) - 1
            BY <2>1, <3>1, <3>8, <3>9, <4>3
          <5> HIDE DEF k
          <5> QED
            BY <2>1, <3>5, <3>6, <4>1, <5>1, ZenonT(30)
        <4> QED
          BY <2>1, <3>8, <4>2, <4>3
      <3>10. Parent(q) = s
        BY <3>7, <3>8, <3>9, SameItems, SMTT(30)
      <3> QED
        BY <1>1, <3>3, <3>10, Zenon DEF m, q, s
    <2> QED
      BY <2>2, <2>3, <2>4
  <1> QED
    BY <1>1, <1>2, <1>4, Zenon DEF Tree

\* What is renamed keeps its name, or is no file before and after.
LEMMA RenamedFile ==
    ASSUME NEW p \in CardPath, NEW from \in CardPath, NEW to \in CardPath,
           Filename(to) = Filename(from) \/ (~IsFile(from) /\ ~IsFile(to))
    PROVE  /\ IsFile(Moved(p, from, to)) <=> IsFile(p)
           /\ \A f \in CardPath : IsFile(f) =>
                (Filename(Moved(p, from, to)) = Filename(f) <=> Filename(p) = Filename(f))
  <1>1. Filename(Moved(p, from, to)) = IF p = from THEN Filename(to) ELSE Filename(p)
    BY MovedParts, Zenon
  <1>2. CASE p = from
    BY <1>1, <1>2, Zenon DEF IsFile
  <1>3. CASE p # from
    BY <1>1, <1>3, Zenon DEF IsFile
  <1> QED
    BY <1>2, <1>3, Zenon

\* So every file is still there, once.
LEMMA RenamedOnce ==
    ASSUME card \subseteq CardPath, Once(card), NEW from \in CardPath, NEW to \in CardPath,
           Filename(to) = Filename(from) \/ (~IsFile(from) /\ ~IsFile(to))
    PROVE  Once(Renamed(from, to))
  <1> DEFINE m(p) == Moved(p, from, to)
  <1>1. Renamed(from, to) = {m(p) : p \in card}
    BY DEF Renamed
  <1>2. ASSUME NEW f \in Layout, IsFile(f)
        PROVE  \E p \in Renamed(from, to) :
                 /\ Filename(p) = Filename(f)
                 /\ \A q \in Renamed(from, to) : Filename(q) = Filename(f) => q = p
    <2>1. \A p \in card : Filename(m(p)) = Filename(f) <=> Filename(p) = Filename(f)
      <3>1. f \in CardPath
        BY RepairAssumption
      <3> QED
        BY <1>2, <3>1, RenamedFile
    <2>2. PICK p \in card :
            Filename(p) = Filename(f) /\ \A q \in card : Filename(q) = Filename(f) => q = p
      BY <1>2, Zenon DEF Once
    <2> HIDE DEF m
    <2>3. m(p) \in Renamed(from, to) /\ Filename(m(p)) = Filename(f)
      BY <1>1, <2>1, <2>2, Zenon
    <2>4. \A q \in Renamed(from, to) : Filename(q) = Filename(f) => q = m(p)
      BY <1>1, <2>1, <2>2, Zenon
    <2> QED
      BY <2>3, <2>4, Zenon
  <1> QED
    BY <1>2, Zenon DEF Once

\* The directories above a path are there.
LEMMA Ancestors ==
    ASSUME Tree(card), NEW p \in card, NEW n \in 1..Len(p)
    PROVE  SubSeq(p, 1, n) \in card
  <1> DEFINE S == {k \in Nat : k < Len(p) => SubSeq(p, 1, Len(p) - k) \in card}
  <1>1. p \in Seq(STRING \X Nat) /\ Len(p) \in Nat \ {0} /\ card \subseteq CardPath
    BY ParentParts DEF Tree, CardPath
  <1>2. 0 \in S
    <2>1. SubSeq(p, 1, Len(p) - 0) = p
      BY <1>1
    <2> QED
      BY <2>1, ZenonT(30)
  <1>3. ASSUME NEW k \in Nat, k \in S
        PROVE  k + 1 \in S
    <2>1. SUFFICES ASSUME k + 1 < Len(p) PROVE SubSeq(p, 1, Len(p) - (k + 1)) \in card
      OBVIOUS
    <2> DEFINE q == SubSeq(p, 1, Len(p) - k)
               r == SubSeq(p, 1, Len(p) - (k + 1))
    <2>2. q \in card
      BY <1>1, <1>3, <2>1
    <2>3. /\ q \in Seq(STRING \X Nat) /\ Len(q) = Len(p) - k
          /\ \A i \in 1..Len(q) : q[i] = p[i]
      BY <1>1, <2>1, SMTT(30)
    <2>4. /\ r \in Seq(STRING \X Nat) /\ Len(r) = Len(p) - (k + 1)
          /\ \A i \in 1..Len(r) : r[i] = p[i]
      BY <1>1, <2>1, SMTT(30)
    <2> HIDE DEF q, r
    <2>5. /\ Parent(q) \in Seq(STRING \X Nat) /\ Len(Parent(q)) = Len(q) - 1
          /\ \A i \in 1..Len(q) - 1 : Parent(q)[i] = q[i]
          /\ Parent(q) = <<>> <=> Len(q) = 1
      BY <1>1, <2>2, ParentParts, SMTT(30)
    <2>6. Len(r) = Len(Parent(q)) /\ \A i \in 1..Len(r) : r[i] = Parent(q)[i]
      BY <1>1, <2>1, <2>3, <2>4, <2>5
    <2>7. r = Parent(q)
      BY <2>4, <2>5, <2>6, SameItems, Zenon
    <2>8. Parent(q) # <<>>
      BY <1>1, <2>1, <2>3, <2>5
    <2> QED
      BY <2>2, <2>7, <2>8, Zenon DEF Tree, r
  <1> HIDE DEF S
  <1>4. \A k \in Nat : k \in S
    BY <1>2, <1>3, NumberInduction, Zenon
  <1>5. Len(p) - n \in Nat /\ Len(p) - n < Len(p) /\ Len(p) - (Len(p) - n) = n
    BY <1>1
  <1>6. SubSeq(p, 1, Len(p) - (Len(p) - n)) \in card
    BY <1>4, <1>5, Zenon DEF S
  <1> QED
    BY <1>5, <1>6

\* What a path is within is on the card, and so is its entry on the way.
LEMMA OnTheWay ==
    ASSUME Tree(card), NEW p \in card, NEW t \in CardPath, Within(p, t)
    PROVE  /\ t \in card
           /\ Len(p) # Len(t) => \E e \in card : Parent(e) = t
  <1>1. /\ p \in Seq(STRING \X Nat) /\ Len(p) \in Nat \ {0}
        /\ t \in Seq(STRING \X Nat) /\ Len(t) \in Nat \ {0} /\ DOMAIN t = 1..Len(t)
    BY ParentParts DEF Tree, CardPath
  <1>2. Len(t) <= Len(p) /\ \A i \in 1..Len(t) : p[i] = t[i]
    BY <1>1, ZenonT(30) DEF Within
  <1>3. t \in card
    <2> DEFINE q == SubSeq(p, 1, Len(t))
    <2>1. q \in Seq(STRING \X Nat) /\ Len(q) = Len(t) /\ \A i \in 1..Len(q) : q[i] = p[i]
      BY <1>1, <1>2
    <2>2. q \in card
      BY <1>1, <1>2, Ancestors
    <2> HIDE DEF q
    <2>3. \A i \in 1..Len(q) : q[i] = t[i]
      BY <1>2, <2>1
    <2>4. q = t
      BY <1>1, <2>1, <2>3, SameItems, Zenon
    <2> QED
      BY <2>2, <2>4, Zenon
  <1>4. ASSUME Len(p) # Len(t)
        PROVE  \E e \in card : Parent(e) = t
    <2> DEFINE e == SubSeq(p, 1, Len(t) + 1)
    <2>1. /\ e \in Seq(STRING \X Nat) /\ Len(e) = Len(t) + 1 /\ \A i \in 1..Len(e) : e[i] = p[i]
      BY <1>1, <1>2, <1>4, SMTT(30)
    <2>2. e \in card
      BY <1>1, <1>2, <1>4, Ancestors
    <2> HIDE DEF e
    <2>3. /\ Parent(e) \in Seq(STRING \X Nat) /\ Len(Parent(e)) = Len(e) - 1
          /\ \A i \in 1..Len(e) - 1 : Parent(e)[i] = e[i]
      BY <2>2, ParentParts DEF Tree
    <2>4. Len(Parent(e)) = Len(t) /\ \A i \in 1..Len(Parent(e)) : Parent(e)[i] = t[i]
      <3>1. Len(Parent(e)) = Len(t) /\ Len(e) - 1 = Len(t) /\ Len(t) \in Nat
        BY <1>1, <2>1, <2>3
      <3>2. ASSUME NEW i \in 1..Len(t) PROVE Parent(e)[i] = t[i]
        <4>1. i \in 1..Len(e) /\ i \in 1..Len(e) - 1
          BY <3>1
        <4> QED
          BY <1>2, <2>1, <2>3, <4>1, Zenon
      <3> QED
        BY <3>1, <3>2, Zenon
    <2>5. Parent(e) = t
      BY <1>1, <2>3, <2>4, SameItems, Zenon
    <2> QED
      BY <2>2, <2>5, Zenon
  <1> QED
    BY <1>3, <1>4, Zenon

\* What is moved to a path and back again is where it was.
LEMMA ThereAndBack ==
    ASSUME Tree(card), NEW d \in CardPath, NEW t \in CardPath, t \notin card, NEW p \in card
    PROVE  Moved(Moved(p, d, t), t, d) = p
  <1>1. p \in CardPath /\ ~Within(p, t)
    BY OnTheWay DEF Tree
  <1>2. CASE ~Within(p, d)
    <2>1. Moved(p, d, t) = p
      BY <1>2, Unmoved, Zenon
    <2>2. Moved(p, t, d) = p
      BY <1>1, Unmoved, Zenon
    <2> QED
      BY <2>1, <2>2, Zenon
  <1>3. CASE Within(p, d)
    <2> DEFINE q == Moved(p, d, t)
               r == Moved(q, t, d)
    <2>1. /\ q \in CardPath /\ Len(q) = Len(t) + Len(p) - Len(d)
          /\ \A i \in 1..Len(t) : q[i] = t[i]
          /\ \A i \in 1..Len(p) - Len(d) : q[Len(t) + i] = p[Len(d) + i]
      BY <1>1, <1>3, MovedWithin, Zenon DEF IsMoved
    <2> HIDE DEF q
    <2>2. /\ p \in Seq(STRING \X Nat) /\ Len(p) \in Nat \ {0} /\ DOMAIN d = 1..Len(d)
          /\ Len(d) \in Nat \ {0} /\ Len(t) \in Nat \ {0} /\ DOMAIN t = 1..Len(t)
      BY <1>1, ParentParts DEF CardPath
    <2>3. Len(d) <= Len(p) /\ \A i \in 1..Len(d) : p[i] = d[i]
      BY <1>3, <2>2 DEF Within
    <2>4. Within(q, t) /\ Len(q) - Len(t) = Len(p) - Len(d)
      BY <2>1, <2>2, <2>3 DEF Within
    <2>5. /\ r \in CardPath /\ Len(r) = Len(d) + Len(q) - Len(t)
          /\ \A i \in 1..Len(d) : r[i] = d[i]
          /\ \A i \in 1..Len(q) - Len(t) : r[Len(d) + i] = q[Len(t) + i]
      BY <2>1, <2>4, MovedWithin, Zenon DEF IsMoved
    <2> HIDE DEF r
    <2>6. r \in Seq(STRING \X Nat) /\ Len(r) = Len(p)
      BY <2>1, <2>2, <2>5 DEF CardPath
    <2>7. ASSUME NEW i \in 1..Len(r) PROVE r[i] = p[i]
      <3>1. CASE i <= Len(d)
        BY <2>2, <2>3, <2>5, <2>6, <3>1, SMTT(30)
      <3>2. CASE i > Len(d)
        <4> DEFINE k == i - Len(d)
        <4>1. k \in 1..Len(p) - Len(d) /\ i = Len(d) + k
          BY <2>2, <2>6, <3>2
        <4> HIDE DEF k
        <4> QED
          BY <2>1, <2>4, <2>5, <4>1, ZenonT(30)
      <3> QED
        BY <2>2, <2>6, <3>1, <3>2
    <2> QED
      BY <2>2, <2>6, <2>7, SameItems, Zenon DEF q, r
  <1> QED
    BY <1>2, <1>3

\* An entry of t that is moved into d goes where all of t is to go.
LEMMA EntryGoesHome ==
    ASSUME NEW d \in CardPath, NEW t \in CardPath, Len(t) = Len(d), t[Len(d)] # d[Len(d)],
           NEW e \in CardPath, Parent(e) = t, NEW p \in CardPath
    PROVE  Moved(Moved(p, e, Append(d, Filename(e))), t, d) = Moved(p, t, d)
  <1> DEFINE to == Append(d, Filename(e))
  <1>1. CASE ~Within(p, e)
    <2>1. Moved(p, e, to) = p
      BY <1>1, Unmoved, Zenon
    <2> QED
      BY <2>1, Zenon
  <1>2. CASE Within(p, e)
    <2> DEFINE q == Moved(p, e, to)
               r == Moved(p, t, d)
    <2>1. /\ p \in Seq(STRING \X Nat) /\ Len(p) \in Nat \ {0} /\ DOMAIN e = 1..Len(e)
          /\ Len(d) \in Nat \ {0} /\ Len(t) \in Nat \ {0} /\ DOMAIN t = 1..Len(t)
          /\ Len(e) \in Nat \ {0} /\ Filename(e) \in STRING \X Nat /\ d \in Seq(STRING \X Nat)
          /\ Len(e) = Len(t) + 1 /\ \A i \in 1..Len(t) : e[i] = t[i]
      <3>1. Len(Parent(e)) = Len(e) - 1 /\ \A i \in 1..Len(e) - 1 : Parent(e)[i] = e[i]
        BY ParentParts, Zenon
      <3>2. Len(e) \in Nat \ {0} /\ Len(t) \in Nat \ {0}
        BY ParentParts, Zenon
      <3>3. Len(e) = Len(t) + 1
        BY <3>1, <3>2
      <3>4. Len(e) - 1 = Len(t)
        BY <3>2, <3>3
      <3>5. \A i \in 1..Len(t) : e[i] = t[i]
        BY <3>1, <3>4
      <3> QED
        BY <3>3, <3>5, ParentParts DEF CardPath
    <2>2. /\ to \in CardPath /\ Len(to) = Len(d) + 1 /\ to[Len(d) + 1] = Filename(e)
          /\ \A i \in 1..Len(d) : to[i] = d[i]
      <3>1. /\ to \in CardPath /\ Len(to) = Len(d) + 1 /\ Filename(to) = Filename(e)
            /\ \A i \in 1..Len(d) : to[i] = d[i]
        BY <2>1, AppendPath, Zenon
      <3> HIDE DEF to
      <3> QED
        BY <3>1, Zenon DEF Filename
    <2> HIDE DEF to
    <2>3. Len(e) <= Len(p) /\ \A i \in 1..Len(e) : p[i] = e[i]
      BY <1>2, <2>1, SMTT(30) DEF Within
    <2>4. Within(p, t)
      BY <2>1, <2>3, SMTT(30) DEF Within
    <2>5. /\ q \in CardPath /\ Len(q) = Len(to) + Len(p) - Len(e)
          /\ \A i \in 1..Len(to) : q[i] = to[i]
          /\ \A i \in 1..Len(p) - Len(e) : q[Len(to) + i] = p[Len(e) + i]
      <3>1. to \in CardPath
        BY <2>2, Zenon
      <3>2. IsMoved(q, p, e, to)
        BY <1>2, <3>1, MovedWithin, Zenon
      <3> QED
        BY <3>2, Zenon DEF IsMoved
    <2>6. /\ r \in CardPath /\ Len(r) = Len(d) + Len(p) - Len(t)
          /\ \A i \in 1..Len(d) : r[i] = d[i]
          /\ \A i \in 1..Len(p) - Len(t) : r[Len(d) + i] = p[Len(t) + i]
      BY <2>4, MovedWithin, ZenonT(60) DEF IsMoved
    <2> HIDE DEF q, r
    <2>7. /\ q \in Seq(STRING \X Nat) /\ r \in Seq(STRING \X Nat)
          /\ Len(q) = Len(p) /\ Len(r) = Len(p)
      BY <2>1, <2>2, <2>5, <2>6 DEF CardPath
    <2>8. ASSUME NEW i \in 1..Len(q) PROVE q[i] = r[i]
      <3>1. CASE i <= Len(d)
        <4>1. i \in 1..Len(d) /\ i \in 1..Len(to)
          BY <2>1, <2>2, <3>1
        <4> QED
          BY <2>2, <2>5, <2>6, <4>1, Zenon
      <3>2. CASE i = Len(d) + 1
        <4>1. /\ i \in 1..Len(to) /\ 1 \in 1..Len(p) - Len(t) /\ Len(t) + 1 = Len(e)
              /\ Len(e) \in 1..Len(e)
          BY <2>1, <2>2, <2>3, <3>2
        <4>2. q[i] = Filename(e)
          BY <2>2, <2>5, <3>2, <4>1, Zenon
        <4>3. r[i] = p[Len(t) + 1] /\ p[Len(e)] = e[Len(e)]
          BY <2>3, <2>6, <3>2, <4>1, Zenon
        <4> QED
          BY <4>1, <4>2, <4>3, Zenon DEF Filename
      <3>3. CASE i > Len(d) + 1
        <4> DEFINE k == i - (Len(d) + 1)
        <4>1. /\ k \in 1..Len(p) - Len(e) /\ i = Len(to) + k /\ i = Len(d) + (k + 1)
              /\ k + 1 \in 1..Len(p) - Len(t) /\ Len(t) + (k + 1) = Len(e) + k
          <5>1. /\ Len(p) \in Nat /\ Len(d) \in Nat /\ Len(e) = Len(d) + 1 /\ Len(t) = Len(d)
                /\ Len(to) = Len(d) + 1 /\ i \in 1..Len(p)
            BY <2>1, <2>2, <2>7
          <5> QED
            BY <3>3, <5>1
        <4> HIDE DEF k
        <4>2. q[i] = p[Len(e) + k]
          BY <2>5, <4>1, Zenon
        <4>3. r[i] = p[Len(t) + (k + 1)]
          BY <2>6, <4>1, Zenon
        <4> QED
          BY <4>1, <4>2, <4>3, Zenon
      <3> QED
        BY <2>1, <2>7, <3>1, <3>2, <3>3
    <2>9. q = r
      BY <2>7, <2>8, SameItems, Zenon
    <2>10. ~Within(q, t)
      <3>1. Len(d) \in 1..Len(d) /\ Len(d) \in 1..Len(to) /\ Len(d) \in DOMAIN t
        BY <2>1, <2>2
      <3>2. q[Len(d)] = d[Len(d)]
        BY <2>2, <2>5, <3>1, Zenon
      <3> QED
        BY <3>1, <3>2, Zenon DEF Within
    <2>11. Moved(q, t, d) = q
      BY <2>10, Unmoved, Zenon
    <2> QED
      BY <2>9, <2>11, Zenon DEF q, r, to
  <1> QED
    BY <1>1, <1>2

\* The calls of processDirectory: only the innermost has its directory away, the
\* others are in their listings or have not begun.
RepairCall ==
    [dir : {d \in CardPath : ~IsFile(d)}, at : {"enter", "walk", "rename", "create", "move"},
     left : SUBSET CardPath]
CallsInv ==
    /\ calls \in Seq(RepairCall)
    /\ \A i \in 1..Len(calls) - 1 : calls[i].at \in {"enter", "walk"}

\* The directory of the innermost call has its temporary name, or lies in pieces.
Away == In("create") \/ In("move")

\* The card as it is when the innermost call has given everything back.
Restored == IF Away THEN Renamed(tempDir(top.dir), top.dir) ELSE card

\* The inductive invariant.  Until there is an error, putting back what is away
\* now restores the files of the card the repair began with.
RepairInv ==
    /\ Tree(card) /\ Once(card) /\ CallsInv
    /\ Away => Parent(top.dir) \in card \cup {<<>>}
    /\ In("move") => top.dir \in card
    /\ errors \in Nat
    /\ errors = 0 => Files(Restored) = Files(earlier)

\* The innermost call works on a directory.
LEMMA TopCall ==
    ASSUME CallsInv, calls # <<>>
    PROVE  /\ Len(calls) \in Nat \ {0} /\ DOMAIN calls = 1..Len(calls) /\ top \in RepairCall
           /\ top.dir \in CardPath /\ ~IsFile(top.dir)
  <1>1. calls \in Seq(RepairCall)
    BY DEF CallsInv
  <1>2. Len(calls) \in Nat \ {0} /\ DOMAIN calls = 1..Len(calls) /\ calls[Len(calls)] \in RepairCall
    BY <1>1
  <1> QED
    BY <1>2 DEF top, RepairCall

\* When a call returns, the one below goes on with its listing.
LEMMA ReturnCalls ==
    ASSUME CallsInv, calls # <<>>, Return
    PROVE  CallsInv' /\ ~Away' /\ ~In("move")'
  <1>1. calls \in Seq(RepairCall) /\ Len(calls) \in Nat \ {0}
    BY TopCall DEF CallsInv
  <1>2. /\ calls' \in Seq(RepairCall) /\ Len(calls') = Len(calls) - 1
        /\ \A i \in 1..Len(calls') : calls'[i] = calls[i]
    <2> DEFINE s == SubSeq(calls, 1, Len(calls) - 1)
    <2>1. Len(calls) # 0
      BY <1>1
    <2>2. /\ s \in Seq(RepairCall) /\ Len(s) = Len(calls) - 1
          /\ \A i \in 1..Len(calls) - 1 : s[i] = calls[i]
      BY <1>1, <2>1, WithoutLast, Zenon
    <2>3. calls' = s
      BY DEF Return
    <2> HIDE DEF s
    <2> QED
      BY <2>2, <2>3, Zenon
  <1>3. \A i \in 1..Len(calls') : calls'[i].at \in {"enter", "walk"}
    BY <1>2 DEF CallsInv
  <1>4. calls' # <<>> => Len(calls') \in 1..Len(calls')
    BY <1>2
  <1>5. CallsInv'
    BY <1>2, <1>3 DEF CallsInv
  <1> QED
    BY <1>3, <1>4, <1>5 DEF Away, In, top

\* A call that goes on keeps its directory.
LEMMA GotoCalls ==
    ASSUME CallsInv, calls # <<>>,
           NEW at \in {"enter", "walk", "rename", "create", "move"}, Goto(at)
    PROVE  CallsInv' /\ calls' # <<>> /\ top'.dir = top.dir /\ top'.at = at
  <1>1. calls \in Seq(RepairCall) /\ Len(calls) \in Nat \ {0} /\ top \in RepairCall
    BY TopCall DEF CallsInv
  <1> DEFINE c == [top EXCEPT !.at = at]
  <1>2. c \in RepairCall /\ c.dir = top.dir /\ c.at = at
    BY <1>1 DEF RepairCall
  <1>3. calls' = [calls EXCEPT ![Len(calls)] = c]
    BY DEF Goto, top
  <1> HIDE DEF c
  <1>4. /\ calls' \in Seq(RepairCall) /\ Len(calls') = Len(calls) /\ calls'[Len(calls)] = c
        /\ \A i \in 1..Len(calls) - 1 : calls'[i] = calls[i]
    BY <1>1, <1>2, <1>3
  <1>5. top' = c
    BY <1>4 DEF top
  <1>6. CallsInv'
    BY <1>1, <1>4 DEF CallsInv
  <1>7. calls' # <<>>
    BY <1>1, <1>4
  <1> QED
    BY <1>2, <1>5, <1>6, <1>7

\* A step that leaves the card, the errors and where the innermost call is.
LEMMA CardKept ==
    ASSUME RepairInv, CallsInv', ~Away', ~Away, UNCHANGED <<card, errors, earlier>>
    PROVE  RepairInv'
  <1>1. ~In("move")'
    BY DEF Away
  <1>2. Restored' = Restored
    BY DEF Restored
  <1>3. Tree(card') /\ Once(card') /\ Files(Restored') = Files(Restored)
    BY <1>2 DEF RepairInv
  <1> QED
    BY <1>1, <1>3 DEF RepairInv

\* After an error only the tree and the files matter.
LEMMA Failed ==
    ASSUME RepairInv, Tree(card'), Once(card'), CallsInv', ~Away', errors' = errors + 1
    PROVE  RepairInv'
  <1>1. errors' \in Nat /\ errors' # 0
    BY DEF RepairInv
  <1> QED
    BY <1>1 DEF RepairInv, Away

\* The listings of processDirectory.
LEMMA ListingKept ==
    ASSUME RepairInv, Enter \/ Walk \/ Walked
    PROVE  RepairInv'
  <1>1. CallsInv /\ calls # <<>> /\ UNCHANGED <<card, errors, earlier>> /\ ~Away
    BY DEF RepairInv, Enter, Walk, Walked, In, Away
  <1>2. Len(calls) \in Nat \ {0} /\ calls \in Seq(RepairCall) /\ top \in RepairCall
    BY <1>1, TopCall DEF CallsInv
  <1>3. \A d : Subdirectories(d) \in SUBSET {p \in CardPath : ~IsFile(p)}
    BY DEF Subdirectories, Entries, RepairInv, Tree
  <1>4. CASE Enter
    <2>1. CASE Return
      BY <1>1, <2>1, ReturnCalls, CardKept
    <2>2. CASE ~Return
      <3> DEFINE c == [dir |-> top.dir, at |-> "walk", left |-> Subdirectories(top.dir)]
      <3>1. calls' = [calls EXCEPT ![Len(calls)] = c]
        BY <1>4, <2>2 DEF Enter
      <3>2. c \in RepairCall /\ c.at = "walk"
        BY <1>2, <1>3 DEF RepairCall
      <3> HIDE DEF c
      <3>3. /\ calls' \in Seq(RepairCall) /\ Len(calls') = Len(calls) /\ calls'[Len(calls)] = c
            /\ \A i \in 1..Len(calls) - 1 : calls'[i] = calls[i]
        BY <1>2, <3>1, <3>2
      <3>4. CallsInv'
        BY <1>1, <3>3 DEF CallsInv
      <3>5. top' = c
        BY <3>3 DEF top
      <3>6. ~Away'
        BY <3>2, <3>5 DEF Away, In
      <3> QED
        BY <1>1, <3>4, <3>6, CardKept
    <2> QED
      BY <2>1, <2>2
  <1>5. CASE Walk
    <2>1. PICK d \in Subdirectories(top.dir) :
            calls' = Append([calls EXCEPT ![Len(calls)].left = @ \ {d}], Call(d))
      BY <1>5, ZenonT(30) DEF Walk
    <2> DEFINE c == [top EXCEPT !.left = @ \ {d}]
               b == [calls EXCEPT ![Len(calls)] = c]
    <2>2. c \in RepairCall /\ c.at = "walk"
      BY <1>2, <1>5 DEF RepairCall, Walk, In
    <2>3. Call(d) \in RepairCall /\ Call(d).at = "enter"
      BY <1>3, <2>1 DEF Call, RepairCall
    <2>4. calls' = Append(b, Call(d))
      BY <2>1 DEF top
    <2> HIDE DEF c
    <2>5. /\ b \in Seq(RepairCall) /\ Len(b) = Len(calls) /\ b[Len(calls)] = c
          /\ \A i \in 1..Len(calls) - 1 : b[i] = calls[i]
      BY <1>2, <2>2
    <2> HIDE DEF b
    <2>6. /\ calls' \in Seq(RepairCall) /\ Len(calls') = Len(calls) + 1
          /\ calls'[Len(calls) + 1] = Call(d) /\ \A i \in 1..Len(calls) : calls'[i] = b[i]
      BY <1>2, <2>3, <2>4, <2>5
    <2>7. \A i \in 1..Len(calls) : b[i].at \in {"enter", "walk"}
      <3>1. \A i \in 1..Len(calls) : i = Len(calls) \/ i \in 1..Len(calls) - 1
        BY <1>2
      <3> QED
        BY <1>1, <2>2, <2>5, <3>1 DEF CallsInv
    <2>8. CallsInv'
      BY <1>2, <2>6, <2>7 DEF CallsInv
    <2>9. ~Away'
      BY <2>3, <2>6 DEF Away, In, top
    <2> QED
      BY <1>1, <2>8, <2>9, CardKept
  <1>6. CASE Walked
    <2>1. CallsInv' /\ calls' # <<>> /\ top'.at = "rename"
      BY <1>1, <1>6, GotoCalls DEF Walked
    <2>2. ~Away'
      BY <2>1 DEF Away, In
    <2> QED
      BY <1>1, <2>1, <2>2, CardKept
  <1> QED
    BY <1>4, <1>5, <1>6

\* The directory and its temporary name in the steps of the innermost call.
LEMMA TopNames ==
    ASSUME RepairInv, calls # <<>>
    PROVE  /\ CallsInv /\ Tree(card) /\ Once(card) /\ card \subseteq CardPath
           /\ top.dir \in CardPath /\ ~IsFile(top.dir)
           /\ tempDir(top.dir) \in CardPath /\ ~IsFile(tempDir(top.dir))
           /\ Len(tempDir(top.dir)) = Len(top.dir)
           /\ Parent(tempDir(top.dir)) = Parent(top.dir)
           /\ tempDir(top.dir)[Len(top.dir)] # top.dir[Len(top.dir)]
  <1>1. CallsInv /\ Tree(card) /\ Once(card) /\ card \subseteq CardPath
    BY DEF RepairInv, Tree
  <1>2. top.dir \in CardPath /\ ~IsFile(top.dir)
    BY <1>1, TopCall, Zenon
  <1> QED
    BY <1>1, <1>2, TempParts, Zenon

\* Renamed away, the directory can be put back as it was.
LEMMA RenameAwayKept ==
    ASSUME RepairInv, RenameAway
    PROVE  RepairInv'
  <1> DEFINE d == top.dir
             t == tempDir(top.dir)
  <1>1. calls # <<>> /\ ~Away /\ earlier' = earlier
    BY DEF RenameAway, In, Away
  <1>2. /\ CallsInv /\ Tree(card) /\ Once(card) /\ card \subseteq CardPath
        /\ d \in CardPath /\ ~IsFile(d) /\ t \in CardPath /\ ~IsFile(t)
        /\ Len(t) = Len(d) /\ Parent(t) = Parent(d)
    BY <1>1, TopNames, Zenon
  <1>3. CASE errors' = errors + 1 /\ Return /\ UNCHANGED card
    <2>1. CallsInv' /\ ~Away'
      BY <1>1, <1>2, <1>3, ReturnCalls, Zenon
    <2>2. Tree(card') /\ Once(card')
      BY <1>2, <1>3
    <2> QED
      BY <1>3, <2>1, <2>2, Failed, Zenon
  <1>4. CASE CanRename(d, t) /\ card' = Renamed(d, t) /\ Goto("create") /\ UNCHANGED errors
    <2>1. d \in card /\ t \notin card /\ errors' = errors
      BY <1>4 DEF CanRename
    <2>2. CallsInv' /\ calls' # <<>> /\ top'.dir = d /\ top'.at = "create"
      BY <1>1, <1>2, <1>4, GotoCalls, Zenon
    <2>3. Away' /\ ~In("move")'
      BY <2>2 DEF Away, In
    <2>4. Restored' = {Moved(q, t, d) : q \in card'}
      BY <2>2, <2>3 DEF Restored, Renamed, tempDir
    <2> HIDE DEF d, t
    <2>5. Tree(card')
      <3>1. Parent(t) \in card \cup {<<>>}
        BY <1>2, <2>1, Zenon DEF Tree
      <3> QED
        BY <1>2, <1>4, <3>1, RenamedTree, Zenon
    <2>6. Once(card')
      BY <1>2, <1>4, RenamedOnce, Zenon
    <2>7. t \in card'
      <3>1. Within(d, d)
        BY <1>2, ParentParts DEF Within
      <3>2. Moved(d, d, t) = t
        BY <1>2, <3>1, MovedItself, Zenon
      <3> QED
        BY <1>4, <2>1, <3>2, Zenon DEF Renamed
    <2>8. Parent(d) \in card' \cup {<<>>}
      BY <1>2, <2>5, <2>7, Zenon DEF Tree
    <2>9. Restored' = card
      <3>1. card' = {Moved(p, d, t) : p \in card}
        BY <1>4, Zenon DEF Renamed
      <3>2. \A p \in card : Moved(Moved(p, d, t), t, d) = p
        BY <1>2, <2>1, ThereAndBack, Zenon
      <3> QED
        BY <2>4, <3>1, <3>2
    <2>10. Restored = card
      BY <1>1, Zenon DEF Restored
    <2> QED
      BY <1>1, <2>1, <2>2, <2>3, <2>5, <2>6, <2>8, <2>9, <2>10, Zenon DEF RepairInv
  <1> QED
    BY <1>3, <1>4, Zenon DEF RenameAway

\* The new directory is empty, or the old one gets its name back.
LEMMA CreateKept ==
    ASSUME RepairInv, Create
    PROVE  RepairInv'
  <1> DEFINE d == top.dir
             t == tempDir(top.dir)
  <1>1. calls # <<>> /\ Away /\ earlier' = earlier
    BY DEF Create, In, Away
  <1>2. /\ CallsInv /\ Tree(card) /\ Once(card) /\ card \subseteq CardPath
        /\ d \in CardPath /\ ~IsFile(d) /\ t \in CardPath /\ ~IsFile(t)
        /\ Len(t) = Len(d) /\ Parent(d) \in card \cup {<<>>}
    <2>1. Parent(d) \in card \cup {<<>>}
      BY <1>1, Zenon DEF RepairInv
    <2> QED
      BY <1>1, <2>1, TopNames, Zenon
  <1>3. CASE card' \in {card, Renamed(t, d)} /\ errors' = errors + 1 /\ Return
    <2>1. CallsInv' /\ ~Away'
      BY <1>1, <1>2, <1>3, ReturnCalls, Zenon
    <2> HIDE DEF d, t
    <2>2. Tree(Renamed(t, d))
      BY <1>2, RenamedTree
    <2>3. Once(Renamed(t, d))
      BY <1>2, RenamedOnce, Zenon
    <2>4. Tree(card') /\ Once(card')
      BY <1>2, <1>3, <2>2, <2>3
    <2> QED
      BY <1>3, <2>1, <2>4, Failed, Zenon
  <1>4. CASE card' = card \cup {d} /\ Goto("move") /\ UNCHANGED errors
    <2>1. CallsInv' /\ calls' # <<>> /\ top'.dir = d /\ top'.at = "move"
      BY <1>1, <1>2, <1>4, GotoCalls, Zenon
    <2>2. Away'
      BY <2>1 DEF Away, In
    <2>3. Restored' = {Moved(q, t, d) : q \in card'} /\ Restored = {Moved(q, t, d) : q \in card}
      BY <1>1, <2>1, <2>2 DEF Restored, Renamed, tempDir
    <2> HIDE DEF d, t
    <2>4. Tree(card') /\ Parent(d) \in card' \cup {<<>>} /\ d \in card'
      BY <1>2, <1>4 DEF Tree
    <2>5. Once(card')
      BY <1>2, <1>4, ZenonT(60) DEF Once, IsFile
    <2>6. Files(Restored') = Files(Restored)
      <3>1. ~IsFile(Moved(d, t, d))
        BY <1>2, RenamedFile, Zenon
      <3> QED
        BY <1>4, <2>3, <3>1 DEF Files
    <2>7. errors' = errors
      BY <1>4
    <2> QED
      BY <1>1, <2>1, <2>2, <2>4, <2>5, <2>6, <2>7, Zenon DEF RepairInv
  <1> QED
    BY <1>3, <1>4, Zenon DEF Create

\* Each entry that is moved back is one less to put back.
LEMMA MoveBackKept ==
    ASSUME RepairInv, MoveBack
    PROVE  RepairInv'
  <1> DEFINE d == top.dir
             t == tempDir(top.dir)
  <1>1. calls # <<>> /\ Away /\ In("move") /\ earlier' = earlier
    BY DEF MoveBack, In, Away
  <1>2. /\ CallsInv /\ Tree(card) /\ Once(card) /\ card \subseteq CardPath
        /\ d \in CardPath /\ ~IsFile(d) /\ t \in CardPath /\ ~IsFile(t)
        /\ Len(t) = Len(d) /\ t[Len(d)] # d[Len(d)] /\ d \in card
    <2>1. d \in card
      BY <1>1, Zenon DEF RepairInv
    <2> QED
      BY <1>1, <2>1, TopNames, Zenon
  <1>3. CASE errors' = errors + 1 /\ Return /\ UNCHANGED card
    <2>1. CallsInv' /\ ~Away'
      BY <1>1, <1>2, <1>3, ReturnCalls, Zenon
    <2>2. Tree(card') /\ Once(card')
      BY <1>2, <1>3
    <2> QED
      BY <1>3, <2>1, <2>2, Failed, Zenon
  <1>4. ASSUME NEW e \in Entries(t), card' = Renamed(e, Append(d, Filename(e))),
               UNCHANGED <<calls, errors>>
        PROVE  RepairInv'
    <2> DEFINE to == Append(d, Filename(e))
    <2>1. /\ top' = top /\ errors' = errors
          /\ CallsInv' = CallsInv /\ Away' = Away /\ In("move")' = In("move")
      BY <1>4 DEF top, CallsInv, Away, In
    <2>2. /\ Restored' = {Moved(q, t, d) : q \in card'}
          /\ Restored = {Moved(q, t, d) : q \in card}
      BY <1>1, <2>1 DEF Restored, Renamed, tempDir
    <2> HIDE DEF d, t
    <2>3. e \in card /\ e \in CardPath /\ Parent(e) = t /\ Filename(e) \in STRING \X Nat
      BY <1>2, <1>4, ParentParts DEF Entries
    <2>4. /\ to \in CardPath /\ Len(to) = Len(d) + 1 /\ Parent(to) = d /\ Filename(to) = Filename(e)
      BY <1>2, <2>3, AppendPath DEF CardPath
    <2> HIDE DEF to
    <2>5. Len(e) = Len(d) + 1 /\ Len(d) \in Nat
      BY <1>2, <2>3, ParentParts, SMTT(30)
    <2>6. Tree(card')
      <3>1. Len(to) = Len(e) /\ Parent(to) \in card \cup {<<>>}
        BY <1>2, <2>4, <2>5, Zenon
      <3> QED
        BY <1>2, <1>4, <2>3, <2>4, <3>1, RenamedTree, Zenon DEF to
    <2>7. Once(card')
      BY <1>2, <1>4, <2>3, <2>4, RenamedOnce, Zenon DEF to
    <2>8. d \in card'
      <3>1. ~Within(d, e)
        BY <2>5 DEF Within
      <3>2. Moved(d, e, to) = d
        BY <3>1, Unmoved, Zenon
      <3> QED
        BY <1>2, <1>4, <3>2, Zenon DEF Renamed, to
    <2>9. Parent(d) \in card' \cup {<<>>}
      BY <2>6, <2>8, Zenon DEF Tree
    <2>10. Restored' = Restored
      <3>1. card' = {Moved(p, e, to) : p \in card}
        BY <1>4, Zenon DEF Renamed, to
      <3>2. \A p \in card : Moved(Moved(p, e, to), t, d) = Moved(p, t, d)
        <4>1. SUFFICES ASSUME NEW p \in card
                       PROVE  Moved(Moved(p, e, to), t, d) = Moved(p, t, d)
          OBVIOUS
        <4>2. p \in CardPath
          BY <1>2, Zenon
        <4>3. /\ d \in CardPath /\ t \in CardPath /\ Len(t) = Len(d) /\ t[Len(d)] # d[Len(d)]
              /\ e \in CardPath /\ Parent(e) = t
          BY <1>2, <2>3, Zenon
        <4> QED
          BY <4>2, <4>3, EntryGoesHome DEF to
      <3> QED
        BY <2>2, <3>1, <3>2
    <2>11. top'.dir = d
      BY <2>1 DEF d
    <2> QED
      BY <1>1, <1>2, <2>1, <2>6, <2>7, <2>8, <2>9, <2>10, <2>11, Zenon DEF RepairInv
  <1> QED
    BY <1>3, <1>4, Zenon DEF MoveBack

\* What is removed is empty, so that everything has been put back.
LEMMA RemoveTempKept ==
    ASSUME RepairInv, RemoveTemp
    PROVE  RepairInv'
  <1> DEFINE d == top.dir
             t == tempDir(top.dir)
  <1>1. /\ calls # <<>> /\ Away /\ Return /\ Entries(t) = {}
        /\ earlier' = earlier /\ errors' = errors /\ card' \in {card, card \ {t}}
    BY DEF RemoveTemp, In, Away
  <1>2. /\ CallsInv /\ Tree(card) /\ Once(card) /\ card \subseteq CardPath
        /\ d \in CardPath /\ ~IsFile(d) /\ t \in CardPath /\ ~IsFile(t)
    BY <1>1, TopNames, Zenon
  <1>3. CallsInv' /\ ~Away' /\ ~In("move")'
    BY <1>1, <1>2, ReturnCalls, Zenon
  <1>4. Restored = {Moved(q, t, d) : q \in card} /\ Restored' = card'
    BY <1>1, <1>3 DEF Restored, Renamed
  <1> HIDE DEF d, t
  <1>5. \A p \in card : Parent(p) # t
    BY <1>1 DEF Entries
  <1>6. Tree(card')
    BY <1>1, <1>2, <1>5 DEF Tree
  <1>7. Once(card') /\ Files(card') = Files(card)
    BY <1>1, <1>2 DEF Once, Files, IsFile
  <1>8. Files(Restored) = Files(card)
    <2>1. ASSUME NEW p \in card, IsFile(p)
          PROVE  Moved(p, t, d) = p
      <3>1. ~Within(p, t)
        <4>1. SUFFICES ASSUME Within(p, t) PROVE FALSE
          OBVIOUS
        <4>2. CASE Len(p) = Len(t)
          <5>1. p = t
            BY <1>2, <4>1, <4>2, MovedItself, Zenon
          <5> QED
            BY <1>2, <2>1, <5>1, Zenon
        <4>3. CASE Len(p) # Len(t)
          BY <1>2, <1>5, <4>1, <4>3, OnTheWay, Zenon
        <4> QED
          BY <4>2, <4>3, Zenon
      <3> QED
        BY <3>1, Unmoved, Zenon
    <2>2. \A p \in card : IsFile(Moved(p, t, d)) <=> IsFile(p)
      BY <1>2, RenamedFile
    <2> QED
      BY <1>4, <2>1, <2>2 DEF Files
  <1> QED
    BY <1>1, <1>3, <1>4, <1>6, <1>7, <1>8, Zenon DEF RepairInv

\* Every step of the repair, every fault and every cut keeps the invariant.
LEMMA StepKeepsRepair ==
    ASSUME RepairInv, [RepairNext]_repairVars
    PROVE  RepairInv'
  <1>1. CASE BeginRepair
    <2>1. /\ calls = <<>> /\ card' = card /\ earlier' = card /\ errors' = 0
          /\ calls' = [i \in DOMAIN Targets |-> Call(Targets[Len(Targets) + 1 - i])]
      BY <1>1 DEF BeginRepair
    <2>2. calls' \in Seq(RepairCall) /\ \A i \in 1..Len(calls') : calls'[i].at = "enter"
      <3>1. /\ Targets \in Seq({d \in CardPath : ~IsFile(d)}) /\ Len(Targets) \in Nat
            /\ DOMAIN Targets = 1..Len(Targets)
        BY RepairAssumption
      <3>2. \A i \in 1..Len(Targets) :
              LET d == Targets[Len(Targets) + 1 - i] IN d \in CardPath /\ ~IsFile(d)
        BY <3>1
      <3>3. \A d \in CardPath : ~IsFile(d) => Call(d) \in RepairCall /\ Call(d).at = "enter"
        BY DEF Call, RepairCall
      <3>4. /\ calls' \in [1..Len(Targets) -> RepairCall]
            /\ \A i \in 1..Len(Targets) : calls'[i].at = "enter"
        BY <2>1, <3>1, <3>2, <3>3
      <3>5. calls' \in Seq(RepairCall) /\ Len(calls') = Len(Targets)
        BY <3>1, <3>4
      <3> QED
        BY <3>4, <3>5
    <2>3. CallsInv' /\ ~Away' /\ ~In("move")'
      <3>1. calls' # <<>> => Len(calls') \in 1..Len(calls')
        BY <2>2
      <3>2. CallsInv'
        BY <2>2 DEF CallsInv
      <3> QED
        BY <2>2, <3>1, <3>2 DEF Away, In, top
    <2>4. Restored' = card'
      BY <2>3 DEF Restored
    <2> QED
      BY <2>1, <2>3, <2>4 DEF RepairInv
  <1>2. CASE Enter \/ Walk \/ Walked
    BY <1>2, ListingKept
  <1>3. CASE RenameAway
    BY <1>3, RenameAwayKept
  <1>4. CASE Create
    BY <1>4, CreateKept
  <1>5. CASE MoveBack
    BY <1>5, MoveBackKept
  <1>6. CASE RemoveTemp
    BY <1>6, RemoveTempKept
  <1>7. CASE Outage
    <2>1. calls' = <<>> /\ card' = card /\ earlier' = card /\ errors' = 0
      BY <1>7 DEF Outage
    <2>2. CallsInv' /\ ~Away' /\ ~In("move")'
      BY <2>1 DEF CallsInv, Away, In
    <2>3. Restored' = card'
      BY <2>2 DEF Restored
    <2> QED
      BY <2>1, <2>2, <2>3 DEF RepairInv
  <1>8. CASE Stop \/ UNCHANGED repairVars
    <2>1. UNCHANGED <<card, calls, errors, earlier>>
      BY <1>8 DEF Stop, repairVars
    <2> QED
      BY <2>1 DEF RepairInv, CallsInv, Away, In, top, Restored, Renamed, tempDir
  <1> QED
    BY <1>1, <1>2, <1>3, <1>4, <1>5, <1>6, <1>7, <1>8 DEF RepairNext

\* Before the first repair the card is the one the repair is to keep.
LEMMA RepairInvariant == RepairSpec => []RepairInv
  <1>1. RepairInit => RepairInv
    <2> SUFFICES ASSUME RepairInit PROVE RepairInv
      OBVIOUS
    <2>1. card = Layout /\ earlier = Layout /\ calls = <<>> /\ errors = 0
      BY DEF RepairInit
    <2>2. CallsInv /\ ~Away /\ ~In("move")
      BY <2>1 DEF CallsInv, Away, In
    <2>3. Restored = card
      BY <2>2 DEF Restored
    <2>4. Tree(card)
      BY <2>1, RepairAssumption, Zenon DEF Tree
    <2>5. Once(card)
      BY <2>1, RepairAssumption, Zenon DEF Once
    <2> QED
      BY <2>1, <2>2, <2>3, <2>4, <2>5 DEF RepairInv
  <1> QED
    BY <1>1, StepKeepsRepair, PTL DEF RepairSpec

\* Whatever fails and wherever the repair is cut, every file stays on the card,
\* once, in a directory that exists, however deep the directories are nested and
\* however many repairs follow.
THEOREM FilesKeptAlways == RepairSpec => []FilesKept
  <1>1. RepairInv => FilesKept
    BY DEF RepairInv, FilesKept, Tree, Once
  <1> QED
    BY <1>1, RepairInvariant, PTL

\* A repair that was not cut and counted no error has put every file back where
\* it was.
THEOREM CleanRepairRestoresAlways == RepairSpec => []CleanRepairRestores
  <1>1. RepairInv => CleanRepairRestores
    BY DEF RepairInv, CleanRepairRestores, Restored, Away, In, Files
  <1> QED
    BY <1>1, RepairInvariant, PTL
=============================================================================

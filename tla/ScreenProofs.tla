----------------------------- MODULE ScreenProofs -----------------------------
(***************************************************************************)
(* The inductive invariant of the screen, and what the operations of the   *)
(* view stack do to it: pushView, popView, the ends of the tweens and the  *)
(* callbacks that are due.  AppShellProofs puts them together.             *)
(***************************************************************************)
EXTENDS AppShell, FiniteSets, TLAPS

-----------------------------------------------------------------------------
(* The view stack. *)

\* The dialogs that ask before something is written to the card or another
\* program is started, and the callbacks they end with.
Asks == {Confirm(t) : t \in Tabs} \cup {Ask(tool) : tool \in Tool} \cup {Choice, Daybreak}
Writes == {Installs(t) : t \in Tabs} \cup Tool \cup {"payload", "daybreak"}

\* What can be on the stack, and what can be called when it has gone.
View ==
    {Root, Splash, None, Startup, Restart} \cup Asks \cup {Report(tool) : tool \in Tool}
      \cup {Progress(t) : t \in Tabs} \cup {Result(t) : t \in Tabs}
Callback == {"none", "unblock", "current", "offer", "restart"} \cup Writes

\* A tween on the alpha of a view, and the state of the application.
Tween == [view : View, kind : {"show", "hide"}, cb : Callback]

AppRecord ==
    [stack : Seq(View), anims : Seq(Tween), tokens : Nat, focus : View,
     focusStack : Seq(View), hidden : SUBSET View, freed : SUBSET View]

\* The tweens that run, each of another view.
Tweens(a) == {a.anims[i] : i \in 1 .. Len(a.anims)}

\* kill() sees to it that a view has one tween at most.
OneTweenEach(a) ==
    \A i, j \in 1 .. Len(a.anims) : a.anims[i].view = a.anims[j].view => i = j

\* Tween x ends before tween y.
EndsBefore(a, x, y) ==
    \E i, j \in 1 .. Len(a.anims) : i < j /\ a.anims[i] = x /\ a.anims[j] = y

\* The views whose tween ends with unblockInputs().
Blocks(x) == x.kind = "hide" \/ x.cb = "unblock"
Blocking(a) == {x.view : x \in {y \in Tweens(a) : Blocks(y)}}

\* A tween was killed before it could unblock the inputs: they stay blocked.
Leaked(a) == Cardinality(Blocking(a)) < a.tokens

\* popView's work is under way: its tween, or that of the view it uncovered.
Leaves(x) == x.cb # "unblock"

\* As long as nothing leaked, one view leaves at a time, and the view on top
\* has a tween that ends no earlier.
Orderly(a) ==
    \A x \in Tweens(a) : Leaves(x) =>
        /\ \A y \in Tweens(a) : Leaves(y) => y = x
        /\ \E y \in Tweens(a) :
             /\ y.view = Top(a.stack)
             /\ y = x \/ (Blocks(y) /\ EndsBefore(a, x, y))

\* The views that have or will get back the focus, the next one last.
Foci(a) == IF a.focus = None THEN a.focusStack ELSE Append(a.focusStack, a.focus)

\* Root is at the bottom of a stack, and nowhere else.
Rooted(s) == s # <<>> /\ s[1] = Root /\ \A i \in 2 .. Len(s) : s[i] # Root

\* The tweens and tokens, whatever happened.
Sane(a) ==
    /\ a \in AppRecord
    /\ OneTweenEach(a)
    /\ \A x \in Tweens(a) : x.kind = "hide" => Leaves(x)
    /\ IsFiniteSet(Blocking(a)) /\ Cardinality(Blocking(a)) <= a.tokens

\* One hides while its tween runs.
Hiding(a) == IF \E x \in Tweens(a) : x.kind = "hide" THEN 1 ELSE 0

\* The stack as long as no tween was killed that would have unblocked the inputs.
Calm(a) ==
    /\ ~Leaked(a)
    /\ Orderly(a)
    /\ Rooted(a.stack) /\ Rooted(Foci(a))
    /\ \A i \in 1 .. Len(a.focusStack) : a.focusStack[i] # None
    /\ \A x \in Tweens(a) : x.kind = "hide" => x.view # Root
    /\ Len(a.stack) > Hiding(a)

\* The invariant of the view stack.
StackInv(a) == Sane(a) /\ (Leaked(a) \/ Calm(a))

-----------------------------------------------------------------------------
(* The tweens. *)

\* A function on 1 .. n is a sequence.
LEMMA IsSequence ==
    ASSUME NEW n \in Nat, NEW S, NEW f \in [1 .. n -> S]
    PROVE  f \in Seq(S) /\ Len(f) = n
  OBVIOUS

\* Each tween is of the type of tweens.
LEMMA TweensTyped ==
    ASSUME NEW a \in AppRecord
    PROVE  /\ a.anims \in Seq(Tween) /\ Len(a.anims) \in Nat
           /\ \A i \in 1 .. Len(a.anims) : a.anims[i] \in Tween
           /\ \A x \in Tweens(a) : x \in Tween
           /\ \A x \in Tween : x.view \in View /\ x.kind \in {"show", "hide"} /\ x.cb \in Callback
           /\ a.stack \in Seq(View) /\ a.tokens \in Nat /\ a.focus \in View
           /\ a.focusStack \in Seq(View)
  <1>1. a.anims \in Seq(Tween) /\ a.stack \in Seq(View) /\ a.tokens \in Nat /\ a.focus \in View
        /\ a.focusStack \in Seq(View)
    BY DEF AppRecord
  <1>2. Len(a.anims) \in Nat /\ \A i \in 1 .. Len(a.anims) : a.anims[i] \in Tween
    BY <1>1
  <1>3. \A x \in Tween : x.view \in View /\ x.kind \in {"show", "hide"} /\ x.cb \in Callback
    BY DEF Tween
  <1> QED
    BY <1>1, <1>2, <1>3, Zenon DEF Tweens

\* A record with other tweens is still one.
LEMMA WithAnims ==
    ASSUME NEW a \in AppRecord, NEW s \in Seq(Tween)
    PROVE  /\ [a EXCEPT !.anims = s] \in AppRecord
           /\ [a EXCEPT !.anims = s].anims = s
           /\ [a EXCEPT !.anims = s].stack = a.stack
           /\ [a EXCEPT !.anims = s].tokens = a.tokens
           /\ [a EXCEPT !.anims = s].focus = a.focus
           /\ [a EXCEPT !.anims = s].focusStack = a.focusStack
           /\ [a EXCEPT !.anims = s].hidden = a.hidden
           /\ [a EXCEPT !.anims = s].freed = a.freed
  BY Zenon DEF AppRecord

\* Everything of b but its tweens is that of a.
SameButAnims(a, b) ==
    /\ b.stack = a.stack /\ b.tokens = a.tokens /\ b.focus = a.focus
    /\ b.focusStack = a.focusStack /\ b.hidden = a.hidden /\ b.freed = a.freed

\* menu_animation_kill_by_tag takes the tween of the view out and leaves the
\* others in their order.
LEMMA KillDrops ==
    ASSUME NEW a \in AppRecord, OneTweenEach(a), NEW v
    PROVE  /\ kill(a, v) \in AppRecord
           /\ OneTweenEach(kill(a, v))
           /\ Tweens(kill(a, v)) = {x \in Tweens(a) : x.view # v}
           /\ SameButAnims(a, kill(a, v))
  <1> DEFINE s == a.anims
             n == Len(s)
  <1>0. s \in Seq(Tween) /\ n \in Nat /\ DOMAIN s = 1 .. n /\ \A i \in 1 .. n : s[i] \in Tween
    BY TweensTyped
  <1>1. CASE ~\E i \in DOMAIN s : s[i].view = v
    <2>1. kill(a, v) = a
      BY <1>1 DEF kill
    <2>2. Tweens(a) = {x \in Tweens(a) : x.view # v}
      BY <1>0, <1>1, Zenon DEF Tweens
    <2> QED
      BY <2>1, <2>2, Zenon DEF SameButAnims
  <1>2. CASE \E i \in DOMAIN s : s[i].view = v
    <2> DEFINE k == CHOOSE i \in DOMAIN s : s[i].view = v
               r == [i \in 1 .. n - 1 |-> s[IF i < k THEN i ELSE i + 1]]
               b == [a EXCEPT !.anims = r]
    <2>1. k \in 1 .. n /\ s[k].view = v
      BY <1>0, <1>2, Zenon
    <2> HIDE DEF k, s
    <2>2. r \in Seq(Tween) /\ Len(r) = n - 1
      <3>1. n - 1 \in Nat /\ r \in [1 .. n - 1 -> Tween]
        BY <1>0, <2>1
      <3> QED
        BY <3>1, IsSequence
    <2>3. \A i \in 1 .. n - 1 : r[i] = s[IF i < k THEN i ELSE i + 1]
      OBVIOUS
    <2>4. \A i \in 1 .. n - 1 : /\ (IF i < k THEN i ELSE i + 1) \in 1 .. n
                                /\ (IF i < k THEN i ELSE i + 1) # k
      BY <1>0, <2>1
    <2>5. \A i, j \in 1 .. n - 1 :
            (IF i < k THEN i ELSE i + 1) = (IF j < k THEN j ELSE j + 1) => i = j
      BY <1>0, <2>1
    <2>6. \A i \in 1 .. n : i # k => \E j \in 1 .. n - 1 : i = (IF j < k THEN j ELSE j + 1)
      <3> SUFFICES ASSUME NEW i \in 1 .. n, i # k
                   PROVE  \E j \in 1 .. n - 1 : i = (IF j < k THEN j ELSE j + 1)
        BY Zenon
      <3>1. CASE i < k
        BY <1>0, <2>1, <3>1
      <3>2. CASE i > k
        <4>1. i - 1 \in 1 .. n - 1 /\ i = (IF i - 1 < k THEN i - 1 ELSE i - 1 + 1)
          BY <1>0, <2>1, <3>2
        <4> QED
          BY <4>1, Zenon
      <3> QED
        BY <1>0, <2>1, <3>1, <3>2
    <2>7. kill(a, v) = b
      BY <1>2 DEF kill, k, s
    <2>8. b \in AppRecord /\ b.anims = r /\ SameButAnims(a, b)
      BY <2>2, WithAnims, ZenonT(30) DEF SameButAnims
    <2> DEFINE at(i) == IF i < k THEN i ELSE i + 1
    <2> HIDE DEF r, b, at, n
    <2>9. /\ \A i \in 1 .. n - 1 : r[i] = s[at(i)] /\ at(i) \in 1 .. n /\ at(i) # k
          /\ \A i, j \in 1 .. n - 1 : at(i) = at(j) => i = j
          /\ \A i \in 1 .. n : i # k => \E j \in 1 .. n - 1 : i = at(j)
      BY <2>3, <2>4, <2>5, <2>6, Zenon DEF at
    <2>10. \A i, j \in 1 .. n : s[i].view = s[j].view => i = j
      BY Zenon DEF OneTweenEach, s, n
    <2>11. OneTweenEach(b)
      <3>1. ASSUME NEW i \in 1 .. n - 1, NEW j \in 1 .. n - 1, r[i].view = r[j].view
            PROVE  i = j
        <4>1. s[at(i)].view = s[at(j)].view /\ at(i) \in 1 .. n /\ at(j) \in 1 .. n
          BY <2>9, <3>1, Zenon
        <4> QED
          BY <2>9, <2>10, <4>1, Zenon
      <3> QED
        BY <2>2, <2>8, <3>1, Zenon DEF OneTweenEach
    <2>12. Tweens(b) = {r[i] : i \in 1 .. n - 1} /\ Tweens(a) = {s[i] : i \in 1 .. n}
      BY <2>2, <2>8, Zenon DEF Tweens, s, n
    <2>13. Tweens(b) = {x \in Tweens(a) : x.view # v}
      <3>1. ASSUME NEW x \in Tweens(b)
            PROVE  x \in Tweens(a) /\ x.view # v
        <4>1. PICK i \in 1 .. n - 1 : x = r[i]
          BY <2>12, Zenon
        <4>2. x = s[at(i)] /\ at(i) \in 1 .. n /\ at(i) # k
          BY <2>9, <4>1, Zenon
        <4> QED
          BY <2>1, <2>10, <2>12, <4>2, Zenon
      <3>2. ASSUME NEW x \in Tweens(a), x.view # v
            PROVE  x \in Tweens(b)
        <4>1. PICK i \in 1 .. n : x = s[i]
          BY <2>12, Zenon
        <4>2. PICK j \in 1 .. n - 1 : i = at(j)
          BY <2>1, <2>9, <3>2, <4>1, Zenon
        <4>3. x = r[j]
          BY <2>9, <4>1, <4>2, Zenon
        <4> QED
          BY <2>12, <4>3, Zenon
      <3> QED
        BY <3>1, <3>2, Zenon
    <2> QED
      BY <2>7, <2>8, <2>11, <2>13, Zenon
  <1> QED
    BY <1>1, <1>2, Zenon

\* A tween that is started ends after all others.
LEMMA StartTween ==
    ASSUME NEW a \in AppRecord, OneTweenEach(a), NEW x \in Tween, NEW b,
           \A y \in Tweens(a) : y.view # x.view,
           b.anims = Append(a.anims, x)
    PROVE  /\ OneTweenEach(b)
           /\ Tweens(b) = Tweens(a) \cup {x}
           /\ \A y \in Tweens(a) : EndsBefore(b, y, x)
  <1> DEFINE s == a.anims
             n == Len(s)
             r == Append(s, x)
  <1>1. s \in Seq(Tween) /\ n \in Nat
    BY TweensTyped
  <1>2. /\ Len(r) = n + 1 /\ r[n + 1] = x
        /\ \A i \in 1 .. n : r[i] = s[i]
    BY <1>1
  <1>3. /\ n + 1 \in 1 .. n + 1
        /\ \A i \in 1 .. n + 1 : i = n + 1 \/ i \in 1 .. n
        /\ \A i \in 1 .. n : i \in 1 .. n + 1 /\ i < n + 1
    BY <1>1
  <1>4. \A i \in 1 .. n : s[i] \in Tweens(a)
    BY Zenon DEF Tweens
  <1>5. b.anims = r
    OBVIOUS
  <1> HIDE DEF s, n, r
  <1>6. Tweens(a) = {s[i] : i \in 1 .. n} /\ Tweens(b) = {r[i] : i \in 1 .. n + 1}
    BY <1>2, <1>5, Zenon DEF Tweens, s, n
  <1>7. OneTweenEach(b)
    <2>1. \A i, j \in 1 .. n : s[i].view = s[j].view => i = j
      BY Zenon DEF OneTweenEach, s, n
    <2>2. \A i \in 1 .. n : s[i].view # x.view
      BY <1>4, Zenon
    <2>3. \A i, j \in 1 .. n + 1 : r[i].view = r[j].view => i = j
      BY <1>2, <1>3, <2>1, <2>2, Zenon
    <2> QED
      BY <1>2, <1>5, <2>3, Zenon DEF OneTweenEach
  <1>8. Tweens(b) = Tweens(a) \cup {x}
    BY <1>2, <1>3, <1>6, ZenonT(30)
  <1>9. \A y \in Tweens(a) : EndsBefore(b, y, x)
    BY <1>2, <1>3, <1>5, <1>6, Zenon DEF EndsBefore
  <1> QED
    BY <1>7, <1>8, <1>9, Zenon

\* The first tween ends, and the others stay in their order.
LEMMA TweenEnds ==
    ASSUME NEW a \in AppRecord, OneTweenEach(a), a.anims # <<>>, NEW b,
           b.anims = Tail(a.anims)
    PROVE  /\ b.anims \in Seq(Tween) /\ OneTweenEach(b)
           /\ Head(a.anims) \in Tweens(a)
           /\ Tweens(b) = Tweens(a) \ {Head(a.anims)}
           /\ \A x \in Tweens(b) : x.view # Head(a.anims).view
           /\ \A x, y : EndsBefore(a, x, y) /\ x # Head(a.anims) => EndsBefore(b, x, y)
  <1> DEFINE s == a.anims
             n == Len(s)
             r == Tail(s)
             h == Head(s)
  <1>1. s \in Seq(Tween) /\ n \in Nat
    BY TweensTyped
  <1>2. /\ n >= 1 /\ Len(r) = n - 1 /\ h = s[1] /\ r \in Seq(Tween)
        /\ \A i \in 1 .. n - 1 : r[i] = s[i + 1]
    BY <1>1
  <1>3. /\ 1 \in 1 .. n
        /\ \A i \in 1 .. n - 1 : i + 1 \in 1 .. n /\ i + 1 # 1
        /\ \A i \in 1 .. n : i # 1 => i - 1 \in 1 .. n - 1 /\ (i - 1) + 1 = i
        /\ \A i, j \in 1 .. n - 1 : i + 1 = j + 1 => i = j
        /\ \A i, j \in 1 .. n : i < j => i - 1 < j - 1 /\ j # 1
    BY <1>1, <1>2
  <1>4. b.anims = r
    OBVIOUS
  <1> HIDE DEF s, n, r, h
  <1>5. Tweens(a) = {s[i] : i \in 1 .. n} /\ Tweens(b) = {r[i] : i \in 1 .. n - 1}
    BY <1>2, <1>4, Zenon DEF Tweens, s, n
  <1>6. \A i, j \in 1 .. n : s[i].view = s[j].view => i = j
    BY Zenon DEF OneTweenEach, s, n
  <1>7. OneTweenEach(b)
    <2>1. ASSUME NEW i \in 1 .. n - 1, NEW j \in 1 .. n - 1, r[i].view = r[j].view
          PROVE  i = j
      <3>1. s[i + 1].view = s[j + 1].view /\ i + 1 \in 1 .. n /\ j + 1 \in 1 .. n
        BY <1>2, <1>3, <2>1, Zenon
      <3> QED
        BY <1>3, <1>6, <3>1, Zenon
    <2> QED
      BY <1>2, <1>4, <2>1, Zenon DEF OneTweenEach
  <1>8. h \in Tweens(a)
    BY <1>2, <1>3, <1>5, Zenon
  <1>9. ASSUME NEW x \in Tweens(b)
        PROVE  x \in Tweens(a) /\ x.view # h.view
    <2>1. PICK i \in 1 .. n - 1 : x = r[i]
      BY <1>5, Zenon
    <2>2. x = s[i + 1] /\ i + 1 \in 1 .. n /\ i + 1 # 1
      BY <1>2, <1>3, <2>1, Zenon
    <2> QED
      BY <1>2, <1>3, <1>5, <1>6, <2>2, Zenon
  <1>10. Tweens(b) = Tweens(a) \ {h}
    <2>1. ASSUME NEW x \in Tweens(b)
          PROVE  x \in Tweens(a) /\ x # h
      BY <1>9, <2>1, Zenon
    <2>2. ASSUME NEW x \in Tweens(a), x # h
          PROVE  x \in Tweens(b)
      <3>1. PICK i \in 1 .. n : x = s[i]
        BY <1>5, Zenon
      <3>2. i # 1
        BY <1>2, <2>2, <3>1, Zenon
      <3>3. r[i - 1] = s[i] /\ i - 1 \in 1 .. n - 1
        BY <1>2, <1>3, <3>2, Zenon
      <3> QED
        BY <1>5, <3>1, <3>3, Zenon
    <2> QED
      BY <2>1, <2>2, Zenon
  <1>11. ASSUME NEW x, NEW y, EndsBefore(a, x, y), x # h
         PROVE  EndsBefore(b, x, y)
    <2>1. PICK i, j \in 1 .. n : i < j /\ s[i] = x /\ s[j] = y
      BY <1>11, Zenon DEF EndsBefore, s, n
    <2>2. i # 1 /\ j # 1 /\ i - 1 < j - 1
      BY <1>2, <1>3, <1>11, <2>1, Zenon
    <2>3. /\ i - 1 \in 1 .. n - 1 /\ r[i - 1] = x
          /\ j - 1 \in 1 .. n - 1 /\ r[j - 1] = y
      BY <1>2, <1>3, <2>1, <2>2, Zenon
    <2> QED
      BY <1>2, <1>4, <2>2, <2>3, Zenon DEF EndsBefore
  <1> QED
    BY <1>2, <1>4, <1>7, <1>8, <1>9, <1>10, <1>11, Zenon DEF h, r, s

-----------------------------------------------------------------------------
(* Counting the tweens that unblock the inputs. *)

\* What is needed of counting; proved last, from the library.
Counting ==
    /\ \A S : IsFiniteSet(S) => Cardinality(S) \in Nat
    /\ IsFiniteSet({}) /\ Cardinality({}) = 0
    /\ \A S, x : IsFiniteSet(S) /\ x \notin S =>
         IsFiniteSet(S \cup {x}) /\ Cardinality(S \cup {x}) = Cardinality(S) + 1
    /\ \A S : \A x \in S : IsFiniteSet(S) =>
         IsFiniteSet(S \ {x}) /\ Cardinality(S \ {x}) = Cardinality(S) - 1

\* One more, or one less.
LEMMA CountOne ==
    ASSUME Counting, NEW S, IsFiniteSet(S), NEW x
    PROVE  /\ Cardinality(S) \in Nat
           /\ IsFiniteSet(S \cup {x}) /\ Cardinality(S \cup {x}) \in Nat
           /\ x \in S => Cardinality(S \cup {x}) = Cardinality(S)
           /\ x \notin S => Cardinality(S \cup {x}) = Cardinality(S) + 1
           /\ IsFiniteSet(S \ {x}) /\ Cardinality(S \ {x}) \in Nat
           /\ x \in S => Cardinality(S) = Cardinality(S \ {x}) + 1
           /\ x \notin S => Cardinality(S \ {x}) = Cardinality(S)
  <1>1. CASE x \in S
    <2>1. S \cup {x} = S
      BY <1>1, Zenon
    <2>2. IsFiniteSet(S \ {x}) /\ Cardinality(S \ {x}) = Cardinality(S) - 1
      BY <1>1, Zenon DEF Counting
    <2>3. Cardinality(S) \in Nat /\ Cardinality(S \ {x}) \in Nat
      BY <2>2, Zenon DEF Counting
    <2>4. Cardinality(S) = Cardinality(S \ {x}) + 1
      BY <2>2, <2>3
    <2> QED
      BY <1>1, <2>1, <2>2, <2>3, <2>4, Zenon
  <1>2. CASE x \notin S
    <2>1. S \ {x} = S
      BY <1>2, Zenon
    <2>2. IsFiniteSet(S \cup {x}) /\ Cardinality(S \cup {x}) = Cardinality(S) + 1
      BY <1>2, Zenon DEF Counting
    <2>3. Cardinality(S) \in Nat /\ Cardinality(S \cup {x}) \in Nat
      BY <2>2, Zenon DEF Counting
    <2> QED
      BY <1>2, <2>1, <2>2, <2>3, Zenon
  <1> QED
    BY <1>1, <1>2, Zenon

\* The tween of v is replaced by x, which will unblock the inputs and has
\* blocked them once more.  If the old one was to unblock them too, that is lost.
LEMMA BlockedAgain ==
    ASSUME Counting, NEW a, NEW b, Sane(a), NEW x, Blocks(x),
           Tweens(b) = {y \in Tweens(a) : y.view # x.view} \cup {x},
           b.tokens = a.tokens + 1
    PROVE  /\ IsFiniteSet(Blocking(b)) /\ Cardinality(Blocking(b)) <= b.tokens
           /\ Leaked(a) => Leaked(b)
           /\ x.view \in Blocking(a) => Leaked(b)
  <1>1. Blocking(b) = Blocking(a) \cup {x.view}
    BY Zenon DEF Blocking
  <1>2. a.tokens \in Nat /\ IsFiniteSet(Blocking(a)) /\ Cardinality(Blocking(a)) <= a.tokens
    BY TweensTyped, Zenon DEF Sane
  <1>3. /\ Cardinality(Blocking(a)) \in Nat /\ IsFiniteSet(Blocking(b))
        /\ Cardinality(Blocking(b)) \in Nat
        /\ x.view \in Blocking(a) => Cardinality(Blocking(b)) = Cardinality(Blocking(a))
        /\ x.view \notin Blocking(a) => Cardinality(Blocking(b)) = Cardinality(Blocking(a)) + 1
    <2>1. /\ Cardinality(Blocking(a)) \in Nat /\ IsFiniteSet(Blocking(a) \cup {x.view})
          /\ Cardinality(Blocking(a) \cup {x.view}) \in Nat
          /\ x.view \in Blocking(a) =>
               Cardinality(Blocking(a) \cup {x.view}) = Cardinality(Blocking(a))
          /\ x.view \notin Blocking(a) =>
               Cardinality(Blocking(a) \cup {x.view}) = Cardinality(Blocking(a)) + 1
      BY <1>2, CountOne, Zenon
    <2> QED
      BY <1>1, <2>1, Zenon
  <1> QED
    BY <1>2, <1>3 DEF Leaked

\* A tween ends and unblocks the inputs.
LEMMA UnblockedOnce ==
    ASSUME Counting, NEW a, NEW b, Sane(a), NEW x \in Tweens(a), Blocks(x),
           Tweens(b) = Tweens(a) \ {x}, \A y \in Tweens(b) : y.view # x.view,
           b.tokens = IF a.tokens > 0 THEN a.tokens - 1 ELSE 0
    PROVE  /\ IsFiniteSet(Blocking(b)) /\ Cardinality(Blocking(b)) <= b.tokens
           /\ a.tokens > 0 /\ b.tokens \in Nat
           /\ Leaked(a) <=> Leaked(b)
  <1>1. Blocking(b) = Blocking(a) \ {x.view} /\ x.view \in Blocking(a)
    BY Zenon DEF Blocking
  <1>2. a.tokens \in Nat /\ IsFiniteSet(Blocking(a)) /\ Cardinality(Blocking(a)) <= a.tokens
    BY TweensTyped, Zenon DEF Sane
  <1>3. /\ Cardinality(Blocking(b)) \in Nat /\ IsFiniteSet(Blocking(b))
        /\ Cardinality(Blocking(a)) = Cardinality(Blocking(b)) + 1
    <2>1. /\ Cardinality(Blocking(a)) \in Nat /\ IsFiniteSet(Blocking(a) \ {x.view})
          /\ Cardinality(Blocking(a) \ {x.view}) \in Nat
          /\ x.view \in Blocking(a) =>
               Cardinality(Blocking(a)) = Cardinality(Blocking(a) \ {x.view}) + 1
          /\ x.view \notin Blocking(a) =>
               Cardinality(Blocking(a) \ {x.view}) = Cardinality(Blocking(a))
      BY <1>2, CountOne, Zenon
    <2> QED
      BY <1>1, <2>1, Zenon
  <1> QED
    BY <1>2, <1>3 DEF Leaked

\* The tween of v is replaced by x, which will not unblock the inputs.  If the
\* old one was to, that is lost.
LEMMA BlockedNoMore ==
    ASSUME Counting, NEW a, NEW b, Sane(a), NEW x, ~Blocks(x),
           Tweens(b) = {y \in Tweens(a) : y.view # x.view} \cup {x},
           b.tokens = a.tokens
    PROVE  /\ IsFiniteSet(Blocking(b)) /\ Cardinality(Blocking(b)) <= b.tokens
           /\ Leaked(a) => Leaked(b)
           /\ x.view \in Blocking(a) => Leaked(b)
  <1>1. Blocking(b) = Blocking(a) \ {x.view}
    BY Zenon DEF Blocking
  <1>2. a.tokens \in Nat /\ IsFiniteSet(Blocking(a)) /\ Cardinality(Blocking(a)) <= a.tokens
    BY TweensTyped, Zenon DEF Sane
  <1>3. /\ Cardinality(Blocking(b)) \in Nat /\ IsFiniteSet(Blocking(b))
        /\ x.view \in Blocking(a) => Cardinality(Blocking(a)) = Cardinality(Blocking(b)) + 1
        /\ x.view \notin Blocking(a) => Cardinality(Blocking(b)) = Cardinality(Blocking(a))
    <2>1. /\ Cardinality(Blocking(a)) \in Nat /\ IsFiniteSet(Blocking(a) \ {x.view})
          /\ Cardinality(Blocking(a) \ {x.view}) \in Nat
          /\ x.view \in Blocking(a) =>
               Cardinality(Blocking(a)) = Cardinality(Blocking(a) \ {x.view}) + 1
          /\ x.view \notin Blocking(a) =>
               Cardinality(Blocking(a) \ {x.view}) = Cardinality(Blocking(a))
      BY <1>2, CountOne, Zenon
    <2> QED
      BY <1>1, <2>1, Zenon
  <1> QED
    BY <1>2, <1>3 DEF Leaked

\* A tween ends that has nothing to unblock.
LEMMA UnblockedNothing ==
    ASSUME NEW a, NEW b, Sane(a), NEW x \in Tweens(a), ~Blocks(x),
           Tweens(b) = Tweens(a) \ {x}, b.tokens = a.tokens
    PROVE  /\ IsFiniteSet(Blocking(b)) /\ Cardinality(Blocking(b)) <= b.tokens
           /\ Leaked(a) <=> Leaked(b)
  <1>1. Blocking(b) = Blocking(a)
    BY Zenon DEF Blocking
  <1> QED
    BY <1>1, Zenon DEF Leaked, Sane

\* With no token left nothing has leaked, and whatever leaves is on top.
LEMMA NoTokens ==
    ASSUME Counting, NEW a, StackInv(a), a.tokens = 0
    PROVE  /\ Calm(a) /\ Blocking(a) = {}
           /\ \A x \in Tweens(a) : x.kind = "show"
           /\ \A x \in Tweens(a) : Leaves(x) => x.view = Top(a.stack)
  <1>1. /\ IsFiniteSet(Blocking(a)) /\ Cardinality(Blocking(a)) <= 0
        /\ Cardinality(Blocking(a)) \in Nat
    BY Zenon DEF StackInv, Sane, Counting
  <1>2. Calm(a)
    BY <1>1 DEF StackInv, Leaked
  <1>3. ASSUME NEW v \in Blocking(a)
        PROVE  FALSE
    <2>1. /\ Cardinality(Blocking(a) \ {v}) \in Nat
          /\ Cardinality(Blocking(a)) = Cardinality(Blocking(a) \ {v}) + 1
      BY <1>1, CountOne, Zenon
    <2> QED
      BY <1>1, <2>1
  <1>4. \A x \in Tweens(a) : ~Blocks(x)
    BY <1>3, Zenon DEF Blocking
  <1>5. \A x \in Tweens(a) : x.kind = "show"
    BY <1>4, TweensTyped, Zenon DEF Blocks, StackInv, Sane
  <1> QED
    BY <1>2, <1>3, <1>4, <1>5, Zenon DEF Calm, Orderly

-----------------------------------------------------------------------------
(* What show, hide, pushView and popView do. *)

\* What push_back() leaves, and pop_back() after it.
LEMMA PushedAndPopped ==
    ASSUME NEW S, NEW s \in Seq(S), NEW x \in S
    PROVE  /\ Append(s, x) \in Seq(S) /\ Len(Append(s, x)) = Len(s) + 1
           /\ \A i \in 1 .. Len(s) : Append(s, x)[i] = s[i]
           /\ Append(s, x)[Len(s) + 1] = x
           /\ Top(Append(s, x)) = x /\ Below(Append(s, x)) = s /\ Append(s, x) # <<>>
  <1>1. /\ Append(s, x) \in Seq(S) /\ Len(Append(s, x)) = Len(s) + 1
        /\ \A i \in 1 .. Len(s) : Append(s, x)[i] = s[i]
        /\ Append(s, x)[Len(s) + 1] = x
    OBVIOUS
  <1>2. Top(Append(s, x)) = x /\ Append(s, x) # <<>>
    BY <1>1 DEF Top
  <1>3. Below(Append(s, x)) = s
    BY <1>1 DEF Below
  <1> QED
    BY <1>1, <1>2, <1>3, Zenon

\* The end of a sequence.
LEMMA EndOfSequence ==
    ASSUME NEW S, NEW s \in Seq(S)
    PROVE  /\ Len(s) \in Nat /\ (s # <<>> <=> Len(s) > 0)
           /\ s # <<>> =>
                /\ Top(s) \in S /\ Below(s) \in Seq(S) /\ Len(Below(s)) = Len(s) - 1
                /\ \A i \in 1 .. Len(s) - 1 : Below(s)[i] = s[i]
                /\ Append(Below(s), Top(s)) = s
           /\ \A x \in S :
                /\ Append(s, x) \in Seq(S) /\ Len(Append(s, x)) = Len(s) + 1
                /\ \A i \in 1 .. Len(s) : Append(s, x)[i] = s[i]
                /\ Append(s, x)[Len(s) + 1] = x
                /\ Top(Append(s, x)) = x /\ Below(Append(s, x)) = s /\ Append(s, x) # <<>>
  <1>1. Len(s) \in Nat /\ (s # <<>> <=> Len(s) > 0)
    OBVIOUS
  <1>2. ASSUME s # <<>>
        PROVE  /\ Top(s) \in S /\ Below(s) \in Seq(S) /\ Len(Below(s)) = Len(s) - 1
               /\ \A i \in 1 .. Len(s) - 1 : Below(s)[i] = s[i]
               /\ Append(Below(s), Top(s)) = s
    <2>1. /\ Top(s) \in S /\ Below(s) \in Seq(S) /\ Len(Below(s)) = Len(s) - 1
          /\ \A i \in 1 .. Len(s) - 1 : Below(s)[i] = s[i]
      <3>1. Len(s) \in Nat /\ Len(s) \in 1 .. Len(s) /\ Len(s) - 1 \in Nat
        BY <1>1, <1>2
      <3>2. Top(s) \in S
        BY <3>1 DEF Top
      <3>3. \A i \in 1 .. Len(s) - 1 : i \in 1 .. Len(s) /\ s[i] \in S
        BY <3>1
      <3>4. Len(Below(s)) = Len(s) - 1
        <4>1. CASE Len(s) = 1
          BY <3>1, <4>1 DEF Below
        <4>2. CASE Len(s) > 1
          BY <3>1, <4>2 DEF Below
        <4>3. \A n \in Nat : n > 0 => n = 1 \/ n > 1
          OBVIOUS
        <4> QED
          BY <1>1, <1>2, <4>1, <4>2, <4>3, Zenon
      <3>5. \A i \in 1 .. Len(s) - 1 : Below(s)[i] = s[i]
        BY <3>1 DEF Below
      <3>6. Below(s) \in Seq(S)
        BY <3>1 DEF Below
      <3> QED
        BY <3>2, <3>4, <3>5, <3>6, Zenon
    <2>2. Append(Below(s), Top(s)) = s
      BY <1>2, <2>1 DEF Top
    <2> QED
      BY <2>1, <2>2, Zenon
  <1>3. ASSUME NEW x \in S
        PROVE  /\ Append(s, x) \in Seq(S) /\ Len(Append(s, x)) = Len(s) + 1
               /\ \A i \in 1 .. Len(s) : Append(s, x)[i] = s[i]
               /\ Append(s, x)[Len(s) + 1] = x
               /\ Top(Append(s, x)) = x /\ Below(Append(s, x)) = s /\ Append(s, x) # <<>>
    BY PushedAndPopped, ZenonT(30)
  <1> QED
    BY <1>1, <1>2, <1>3, Zenon

\* The tween of a view is replaced by x, which then ends last.
Replaces(a, b, x) ==
    /\ OneTweenEach(b)
    /\ Tweens(b) = {y \in Tweens(a) : y.view # x.view} \cup {x}
    /\ \A y \in Tweens(b) : y # x => EndsBefore(b, y, x)

\* The tweens that show() and hide() start.
ShowOf(v, cb) == [view |-> v, kind |-> "show", cb |-> cb]
HideOf(v, cb) == [view |-> v, kind |-> "hide", cb |-> cb]

\* Tweens are compared by what they are.
LEMMA TweenParts ==
    ASSUME NEW v \in View, NEW cb \in Callback
    PROVE  /\ ShowOf(v, cb) \in Tween /\ HideOf(v, cb) \in Tween
           /\ ShowOf(v, cb).view = v /\ ShowOf(v, cb).kind = "show" /\ ShowOf(v, cb).cb = cb
           /\ HideOf(v, cb).view = v /\ HideOf(v, cb).kind = "hide" /\ HideOf(v, cb).cb = cb
           /\ (Leaves(ShowOf(v, cb)) <=> cb # "unblock")
           /\ (Leaves(HideOf(v, cb)) <=> cb # "unblock")
           /\ (Blocks(ShowOf(v, cb)) <=> cb = "unblock") /\ Blocks(HideOf(v, cb))
  BY DEF ShowOf, HideOf, Tween, Leaves, Blocks

\* show() and hide() replace the tween of the view.
LEMMA ShowReplaces ==
    ASSUME NEW a \in AppRecord, OneTweenEach(a), NEW v \in View, NEW cb \in Callback
    PROVE  /\ show(a, v, cb) \in AppRecord /\ Replaces(a, show(a, v, cb), ShowOf(v, cb))
           /\ show(a, v, cb).stack = a.stack /\ show(a, v, cb).tokens = a.tokens
           /\ show(a, v, cb).focus = a.focus /\ show(a, v, cb).focusStack = a.focusStack
  <1> DEFINE c == kill(a, v)
             x == ShowOf(v, cb)
             b == show(a, v, cb)
  <1>1. /\ c \in AppRecord /\ OneTweenEach(c) /\ Tweens(c) = {y \in Tweens(a) : y.view # v}
        /\ SameButAnims(a, c)
    BY KillDrops, Zenon
  <1>2. x \in Tween /\ x.view = v
    BY TweenParts
  <1>3. b = [c EXCEPT !.hidden = @ \ {v}, !.anims = Append(@, x)]
    BY Zenon DEF show, ShowOf
  <1> HIDE DEF c, x, b
  <1>4. /\ b \in AppRecord /\ b.anims = Append(c.anims, x)
        /\ b.stack = c.stack /\ b.tokens = c.tokens
        /\ b.focus = c.focus /\ b.focusStack = c.focusStack
    <2>1. c.anims \in Seq(Tween) /\ Append(c.anims, x) \in Seq(Tween)
      BY <1>1, <1>2, TweensTyped
    <2> QED
      BY <1>1, <1>3, <2>1, Zenon DEF AppRecord
  <1>5. \A y \in Tweens(c) : y.view # x.view
    BY <1>1, <1>2, Zenon
  <1>6. /\ OneTweenEach(b) /\ Tweens(b) = Tweens(c) \cup {x}
        /\ \A y \in Tweens(c) : EndsBefore(b, y, x)
    BY <1>1, <1>2, <1>4, <1>5, StartTween, Zenon
  <1>7. Replaces(a, b, x)
    BY <1>1, <1>2, <1>6, Zenon DEF Replaces
  <1> QED
    BY <1>1, <1>4, <1>7, Zenon DEF b, x, SameButAnims

\* hide() replaces the tween of the view, if it has one, by its own.
LEMMA HideReplaces ==
    ASSUME NEW a \in AppRecord, OneTweenEach(a), NEW v \in View, NEW cb \in Callback
    PROVE  /\ hide(a, v, cb) \in AppRecord /\ Replaces(a, hide(a, v, cb), HideOf(v, cb))
           /\ hide(a, v, cb).stack = a.stack /\ hide(a, v, cb).tokens = a.tokens
           /\ hide(a, v, cb).focus = a.focus /\ hide(a, v, cb).focusStack = a.focusStack
  <1> DEFINE c == kill(a, v)
             x == HideOf(v, cb)
             b == hide(a, v, cb)
  <1>1. /\ c \in AppRecord /\ OneTweenEach(c) /\ Tweens(c) = {y \in Tweens(a) : y.view # v}
        /\ SameButAnims(a, c)
    BY KillDrops, Zenon
  <1>2. x \in Tween /\ x.view = v
    BY TweenParts
  <1>3. b = [c EXCEPT !.hidden = @ \cup {v}, !.anims = Append(@, x)]
    BY Zenon DEF hide, HideOf
  <1> HIDE DEF c, x, b
  <1>4. /\ b \in AppRecord /\ b.anims = Append(c.anims, x)
        /\ b.stack = c.stack /\ b.tokens = c.tokens
        /\ b.focus = c.focus /\ b.focusStack = c.focusStack
    <2>1. c.anims \in Seq(Tween) /\ Append(c.anims, x) \in Seq(Tween)
      BY <1>1, <1>2, TweensTyped
    <2> QED
      BY <1>1, <1>3, <2>1, Zenon DEF AppRecord
  <1>5. \A y \in Tweens(c) : y.view # x.view
    BY <1>1, <1>2, Zenon
  <1>6. /\ OneTweenEach(b) /\ Tweens(b) = Tweens(c) \cup {x}
        /\ \A y \in Tweens(c) : EndsBefore(b, y, x)
    BY <1>1, <1>2, <1>4, <1>5, StartTween, Zenon
  <1>7. Replaces(a, b, x)
    BY <1>1, <1>2, <1>6, Zenon DEF Replaces
  <1> QED
    BY <1>1, <1>4, <1>7, Zenon DEF b, x, SameButAnims

\* The views that get the focus are views.
LEMMA FociTyped ==
    ASSUME NEW a \in AppRecord
    PROVE  Foci(a) \in Seq(View) /\ Len(Foci(a)) \in Nat
  <1>1. a.focusStack \in Seq(View) /\ a.focus \in View
    BY TweensTyped
  <1> QED
    BY <1>1 DEF Foci

\* Root stays at the bottom.
LEMMA RootStays ==
    ASSUME NEW s \in Seq(View), Rooted(s)
    PROVE  /\ \A v \in View \ {Root} : Rooted(Append(s, v))
           /\ Len(s) > 1 => Rooted(Below(s)) /\ Top(s) # Root
           /\ (\A i \in 1 .. Len(s) : s[i] # Root) => FALSE
  <1>1. Len(s) \in Nat /\ Len(s) > 0 /\ s[1] = Root /\ \A i \in 2 .. Len(s) : s[i] # Root
    BY EndOfSequence DEF Rooted
  <1>2. ASSUME NEW v \in View \ {Root}
        PROVE  Rooted(Append(s, v))
    <2>1. /\ Len(Append(s, v)) = Len(s) + 1 /\ Append(s, v) # <<>>
          /\ \A i \in 1 .. Len(s) : Append(s, v)[i] = s[i]
          /\ Append(s, v)[Len(s) + 1] = v
      BY EndOfSequence
    <2>2. Append(s, v)[1] = Root
      BY <1>1, <2>1
    <2>3. \A i \in 2 .. Len(s) + 1 : i \in 2 .. Len(s) \/ i = Len(s) + 1
      BY <1>1
    <2>4. \A i \in 2 .. Len(s) : i \in 1 .. Len(s)
      BY <1>1
    <2>5. \A i \in 2 .. Len(s) + 1 : Append(s, v)[i] # Root
      BY <1>1, <2>1, <2>3, <2>4, Zenon
    <2> QED
      BY <2>1, <2>2, <2>5, Zenon DEF Rooted
  <1>3. ASSUME Len(s) > 1
        PROVE  Rooted(Below(s)) /\ Top(s) # Root
    <2>1. /\ Len(Below(s)) = Len(s) - 1 /\ Below(s) \in Seq(View)
          /\ \A i \in 1 .. Len(s) - 1 : Below(s)[i] = s[i]
      BY <1>1, EndOfSequence
    <2>2. Below(s) # <<>>
      BY <1>1, <1>3, <2>1
    <2>3. Below(s)[1] = Root /\ \A i \in 2 .. Len(s) - 1 : Below(s)[i] # Root
      BY <1>1, <1>3, <2>1
    <2>4. Top(s) # Root
      BY <1>1, <1>3 DEF Top
    <2> QED
      BY <2>1, <2>2, <2>3, <2>4, Zenon DEF Rooted
  <1>4. ASSUME \A i \in 1 .. Len(s) : s[i] # Root
        PROVE  FALSE
    BY <1>1, <1>4
  <1> QED
    BY <1>2, <1>3, <1>4, Zenon

\* What pushView does that matters to the tabs.
Pushes(a, b, v) ==
    /\ Tweens(b) = {y \in Tweens(a) : y.view # v} \cup {ShowOf(v, "unblock")}
    /\ Leaked(a) => Leaked(b)
    /\ ~Leaked(b) =>
         /\ Calm(a) /\ Hiding(b) = Hiding(a)
         /\ b.stack = Append(a.stack, v)
         /\ Foci(b) = Append(Foci(a), v)

\* pushView keeps the order on the stack, or blocks the inputs for good.
LEMMA PushKeeps ==
    ASSUME Counting, NEW a, StackInv(a), NEW v \in View, v \notin {Root, Splash, None}
    PROVE  StackInv(pushView(a, v)) /\ Pushes(a, pushView(a, v), v)
  <1> DEFINE c == show(a, v, "unblock")
             b == pushView(a, v)
             x == ShowOf(v, "unblock")
             fs == IF a.stack # <<>> /\ a.focus # None THEN Append(a.focusStack, a.focus)
                   ELSE a.focusStack
  <1>0. "unblock" \in Callback
    BY Zenon DEF Callback
  <1>1. Sane(a) /\ a \in AppRecord /\ OneTweenEach(a)
    BY Zenon DEF StackInv, Sane
  <1>2. /\ c \in AppRecord /\ Replaces(a, c, x)
        /\ c.stack = a.stack /\ c.tokens = a.tokens
        /\ c.focus = a.focus /\ c.focusStack = a.focusStack
    BY <1>0, <1>1, ShowReplaces, Zenon
  <1>3. /\ a.stack \in Seq(View) /\ a.tokens \in Nat /\ a.focus \in View
        /\ a.focusStack \in Seq(View)
        /\ c.anims \in Seq(Tween)
    BY <1>1, <1>2, TweensTyped
  <1>4. fs \in Seq(View) /\ Append(a.stack, v) \in Seq(View)
    BY <1>3
  <1>5. b = [c EXCEPT !.tokens = a.tokens + 1, !.focusStack = fs, !.focus = v,
                      !.freed = c.freed \ {v}, !.stack = Append(a.stack, v)]
    BY <1>2, Zenon DEF pushView
  <1>6. x \in Tween /\ x.view = v /\ x.kind = "show" /\ ~Leaves(x) /\ Blocks(x)
    BY <1>0, TweenParts
  <1> HIDE DEF b, c, x, fs
  <1>7. /\ b \in AppRecord /\ b.anims = c.anims /\ b.tokens = a.tokens + 1
        /\ b.stack = Append(a.stack, v) /\ b.focus = v /\ b.focusStack = fs
    <2>1. a.tokens + 1 \in Nat /\ c.freed \ {v} \in SUBSET View
      BY <1>2, <1>3 DEF AppRecord
    <2> QED
      BY <1>2, <1>4, <1>5, <2>1, Zenon DEF AppRecord
  <1>8. /\ OneTweenEach(b) /\ Tweens(b) = {y \in Tweens(a) : y.view # v} \cup {x}
        /\ \A y \in Tweens(b) : y # x => EndsBefore(b, y, x)
    <2>1. Tweens(b) = Tweens(c) /\ (OneTweenEach(c) => OneTweenEach(b))
      BY <1>7, Zenon DEF OneTweenEach, Tweens
    <2>2. \A y : EndsBefore(c, y, x) => EndsBefore(b, y, x)
      BY <1>7, Zenon DEF EndsBefore
    <2> QED
      BY <1>2, <1>6, <2>1, <2>2, Zenon DEF Replaces
  <1>9. /\ IsFiniteSet(Blocking(b)) /\ Cardinality(Blocking(b)) <= b.tokens
        /\ Leaked(a) => Leaked(b)
        /\ v \in Blocking(a) => Leaked(b)
    <2>1. Tweens(b) = {y \in Tweens(a) : y.view # x.view} \cup {x}
      BY <1>6, <1>8, Zenon
    <2>2. x.view \in Blocking(a) => Leaked(b)
      BY <1>1, <1>6, <1>7, <2>1, BlockedAgain, Zenon
    <2> QED
      BY <1>1, <1>6, <1>7, <2>1, <2>2, BlockedAgain, Zenon
  <1>10. \A y \in Tweens(b) : y.kind = "hide" => Leaves(y) /\ y \in Tweens(a)
    BY <1>1, <1>6, <1>8, Zenon DEF Sane
  <1>11. Sane(b)
    BY <1>7, <1>8, <1>9, <1>10, Zenon DEF Sane
  <1>12. ASSUME ~Leaked(b)
         PROVE  /\ Calm(a) /\ Hiding(b) = Hiding(a)
                /\ Foci(b) = Append(Foci(a), v)
                /\ Calm(b)
    <2>1. Calm(a) /\ v \notin Blocking(a)
      BY <1>9, <1>12, Zenon DEF StackInv
    <2>2. \A y \in Tweens(a) : y.kind = "hide" => y \in Tweens(b)
      BY <1>8, <2>1, Zenon DEF Blocking, Blocks
    <2>3. Hiding(b) = Hiding(a)
      BY <1>10, <2>2, Zenon DEF Hiding
    <2>4. a.stack # <<>>
      BY <2>1, Zenon DEF Calm, Rooted
    <2>5. fs = Foci(a)
      BY <2>4, Zenon DEF fs, Foci
    <2>6. Foci(b) = Append(Foci(a), v)
      BY <1>7, <2>5, Zenon DEF Foci
    <2>7. Rooted(Foci(b)) /\ Rooted(b.stack)
      BY <1>1, <1>3, <1>7, <2>1, <2>6, RootStays, FociTyped, Zenon DEF Calm
    <2>8. \A i \in 1 .. Len(fs) : fs[i] # None
      <3>1. CASE a.focus = None
        BY <2>1, <3>1, Zenon DEF fs, Calm
      <3>2. CASE a.focus # None
        <4>1. fs = Append(a.focusStack, a.focus)
          BY <2>4, <3>2, Zenon DEF fs
        <4>2. \A i \in 1 .. Len(a.focusStack) : a.focusStack[i] # None
          BY <2>1, Zenon DEF Calm
        <4> QED
          BY <1>3, <3>2, <4>1, <4>2, SMTT(30)
      <3> QED
        BY <3>1, <3>2, Zenon
    <2>9. Orderly(b)
      <3>1. Top(b.stack) = v
        BY <1>3, <1>7 DEF Top
      <3>2. ASSUME NEW y \in Tweens(b), Leaves(y)
            PROVE  y \in Tweens(a) /\ y # x
        BY <1>6, <1>8, <3>2, Zenon
      <3>3. x \in Tweens(b)
        BY <1>8, Zenon
      <3>4. Orderly(a)
        BY <2>1, Zenon DEF Calm
      <3> QED
        BY <1>6, <1>8, <3>1, <3>2, <3>3, <3>4, Zenon DEF Orderly
    <2>10. Len(b.stack) > Hiding(b)
      <3>1. Len(a.stack) > Hiding(a) /\ Hiding(a) \in {0, 1}
        BY <2>1 DEF Calm, Hiding
      <3> QED
        BY <1>3, <1>7, <2>3, <3>1
    <2>11. \A y \in Tweens(b) : y.kind = "hide" => y.view # Root
      BY <1>10, <2>1, Zenon DEF Calm
    <2> QED
      BY <1>7, <1>12, <2>1, <2>3, <2>6, <2>7, <2>8, <2>9, <2>10, <2>11, Zenon DEF Calm
  <1>13. StackInv(b)
    BY <1>11, <1>12, Zenon DEF StackInv
  <1>14. Pushes(a, b, v)
    BY <1>7, <1>8, <1>9, <1>12, Zenon DEF Pushes, x
  <1> QED
    BY <1>13, <1>14, Zenon DEF b

\* What popView does that matters to the tabs.
Pops(a, b, cb) ==
    /\ Tweens(b) = {y \in Tweens(a) : y.view # Top(a.stack)} \cup {HideOf(Top(a.stack), cb)}
    /\ Leaked(a) => Leaked(b)
    /\ ~Leaked(b) =>
         /\ Calm(a) /\ Hiding(a) = 0 /\ Hiding(b) = 1
         /\ b.stack = a.stack
         /\ Foci(b) = IF a.focus = None \/ a.focusStack = <<>> THEN Foci(a) ELSE Below(Foci(a))

\* popView keeps the order on the stack, or blocks the inputs for good.
LEMMA PopKeeps ==
    ASSUME Counting, NEW a, StackInv(a), NEW cb \in Callback, cb # "unblock", Len(a.stack) > 1
    PROVE  StackInv(popView(a, cb)) /\ Pops(a, popView(a, cb), cb)
  <1> DEFINE v == Top(a.stack)
             c == hide(a, v, cb)
             b == popView(a, cb)
             x == HideOf(v, cb)
             f == IF a.focusStack # <<>> THEN Top(a.focusStack) ELSE a.focus
             fs == IF a.focusStack # <<>> THEN Below(a.focusStack) ELSE a.focusStack
  <1>1. Sane(a) /\ a \in AppRecord /\ OneTweenEach(a)
    BY Zenon DEF StackInv, Sane
  <1>2. /\ a.stack \in Seq(View) /\ a.tokens \in Nat /\ a.focus \in View
        /\ a.focusStack \in Seq(View)
        /\ a.stack # <<>> /\ v \in View
    <2>1. /\ a.stack \in Seq(View) /\ a.tokens \in Nat /\ a.focus \in View
          /\ a.focusStack \in Seq(View)
      BY <1>1, TweensTyped, Zenon
    <2>2. a.stack # <<>>
      BY <2>1
    <2> QED
      BY <2>1, <2>2, EndOfSequence, Zenon
  <1>3. /\ c \in AppRecord /\ Replaces(a, c, x)
        /\ c.stack = a.stack /\ c.tokens = a.tokens
        /\ c.focus = a.focus /\ c.focusStack = a.focusStack
    BY <1>1, <1>2, HideReplaces, Zenon
  <1>4. f \in View /\ fs \in Seq(View)
    BY <1>2, EndOfSequence, Zenon
  <1>5. b = [c EXCEPT !.tokens = a.tokens + 1, !.focus = f, !.focusStack = fs]
    BY <1>2, <1>3 DEF popView
  <1>6. x \in Tween /\ x.view = v /\ x.kind = "hide" /\ Leaves(x) /\ Blocks(x)
    BY <1>2, TweenParts
  <1> HIDE DEF v, b, c, x, f, fs
  <1>7. /\ b \in AppRecord /\ b.anims = c.anims /\ b.tokens = a.tokens + 1
        /\ b.stack = a.stack /\ b.focus = f /\ b.focusStack = fs
    <2>1. a.tokens + 1 \in Nat
      BY <1>2
    <2> QED
      BY <1>3, <1>4, <1>5, <2>1, Zenon DEF AppRecord
  <1>8. /\ OneTweenEach(b) /\ Tweens(b) = {y \in Tweens(a) : y.view # v} \cup {x}
    <2>1. Tweens(b) = Tweens(c) /\ (OneTweenEach(c) => OneTweenEach(b))
      BY <1>7, Zenon DEF OneTweenEach, Tweens
    <2> QED
      BY <1>3, <1>6, <2>1, Zenon DEF Replaces
  <1>9. /\ IsFiniteSet(Blocking(b)) /\ Cardinality(Blocking(b)) <= b.tokens
        /\ Leaked(a) => Leaked(b)
        /\ v \in Blocking(a) => Leaked(b)
    <2>1. Tweens(b) = {y \in Tweens(a) : y.view # x.view} \cup {x}
      BY <1>6, <1>8, Zenon
    <2>2. x.view \in Blocking(a) => Leaked(b)
      BY <1>1, <1>6, <1>7, <2>1, BlockedAgain, Zenon
    <2> QED
      BY <1>1, <1>6, <1>7, <2>1, <2>2, BlockedAgain, Zenon
  <1>10. \A y \in Tweens(b) : y.kind = "hide" => Leaves(y)
    BY <1>1, <1>6, <1>8, Zenon DEF Sane
  <1>11. Sane(b)
    BY <1>7, <1>8, <1>9, <1>10, Zenon DEF Sane
  <1>12. ASSUME ~Leaked(b)
         PROVE  /\ Calm(a) /\ Hiding(a) = 0 /\ Hiding(b) = 1
                /\ Foci(b) = IF a.focus = None \/ a.focusStack = <<>> THEN Foci(a)
                             ELSE Below(Foci(a))
                /\ Calm(b)
    <2>1. Calm(a) /\ v \notin Blocking(a)
      BY <1>9, <1>12, Zenon DEF StackInv
    <2>2. \A y \in Tweens(a) : Leaves(y) => y.view = v
      BY <2>1, Zenon DEF Calm, Orderly, Blocking, v
    <2>3. \A y \in Tweens(b) : Leaves(y) => y = x
      BY <1>8, <2>2, Zenon
    <2>4. Hiding(a) = 0
      BY <1>1, <2>1, <2>2, Zenon DEF Hiding, Sane, Blocking, Blocks
    <2>5. Hiding(b) = 1
      BY <1>6, <1>8, Zenon DEF Hiding
    <2>6. \A i \in 1 .. Len(a.focusStack) : a.focusStack[i] # None
      BY <2>1, Zenon DEF Calm
    <2>7. ASSUME a.focusStack # <<>>
          PROVE  /\ Foci(b) = a.focusStack /\ Rooted(a.focusStack)
                 /\ a.focus # None => Below(Foci(a)) = a.focusStack
                 /\ \A i \in 1 .. Len(fs) : fs[i] # None
      <3>1. f = Top(a.focusStack) /\ fs = Below(a.focusStack)
        BY <2>7, Zenon DEF f, fs
      <3>2. f # None
        BY <1>2, <2>6, <2>7, <3>1 DEF Top
      <3>3. Foci(b) = a.focusStack
        <4>1. Append(Below(a.focusStack), Top(a.focusStack)) = a.focusStack
          BY <1>2, <2>7, EndOfSequence, Zenon
        <4> QED
          BY <1>7, <3>1, <3>2, <4>1, Zenon DEF Foci
      <3>4. ASSUME a.focus # None
            PROVE  Below(Foci(a)) = a.focusStack /\ Rooted(a.focusStack)
        <4>1. Foci(a) = Append(a.focusStack, a.focus) /\ Rooted(Foci(a))
          BY <2>1, <3>4, Zenon DEF Foci, Calm
        <4>2. Below(Foci(a)) = a.focusStack
          <5>1. Below(Append(a.focusStack, a.focus)) = a.focusStack
            BY <1>2 DEF Below
          <5> QED
            BY <4>1, <5>1, Zenon
        <4>3. Foci(a) \in Seq(View) /\ Len(Foci(a)) > 1
          BY <1>2, <2>7, <4>1
        <4> QED
          BY <4>1, <4>2, <4>3, RootStays, Zenon
      <3>5. ASSUME a.focus = None
            PROVE  Rooted(a.focusStack)
        BY <2>1, <3>5, Zenon DEF Foci, Calm
      <3>6. \A i \in 1 .. Len(fs) : fs[i] # None
        <4>1. Len(fs) = Len(a.focusStack) - 1 /\ Len(a.focusStack) \in Nat
          BY <1>2, <2>7, <3>1, EndOfSequence, Zenon
        <4>2. \A i \in 1 .. Len(a.focusStack) - 1 : i \in 1 .. Len(a.focusStack)
          BY <4>1
        <4>3. \A i \in 1 .. Len(a.focusStack) - 1 : fs[i] = a.focusStack[i]
          BY <1>2, <2>7, <3>1, EndOfSequence, ZenonT(30)
        <4> QED
          BY <2>6, <4>1, <4>2, <4>3, Zenon
      <3> QED
        BY <3>3, <3>4, <3>5, <3>6, Zenon
    <2>8. ASSUME a.focusStack = <<>>
          PROVE  Foci(b) = Foci(a) /\ fs = a.focusStack
      BY <1>7, <2>8, Zenon DEF Foci, f, fs
    <2>9. Foci(b) = IF a.focus = None \/ a.focusStack = <<>> THEN Foci(a) ELSE Below(Foci(a))
      <3>1. CASE a.focusStack = <<>>
        BY <2>8, <3>1, Zenon
      <3>2. CASE a.focusStack # <<>> /\ a.focus = None
        BY <2>7, <3>2, Zenon DEF Foci
      <3>3. CASE a.focusStack # <<>> /\ a.focus # None
        BY <2>7, <3>3, Zenon
      <3> QED
        BY <3>1, <3>2, <3>3, Zenon
    <2>10. Rooted(Foci(b)) /\ \A i \in 1 .. Len(b.focusStack) : b.focusStack[i] # None
      BY <1>7, <2>1, <2>6, <2>7, <2>8, Zenon DEF Calm
    <2>11. Orderly(b)
      BY <1>6, <1>7, <1>8, <2>3, Zenon DEF Orderly, v
    <2>12. \A y \in Tweens(b) : y.kind = "hide" => y.view # Root
      <3>1. v # Root
        BY <1>2, <2>1, RootStays, Zenon DEF Calm, v
      <3> QED
        BY <1>6, <1>10, <2>3, <3>1, Zenon
    <2>13. Len(b.stack) > Hiding(b) /\ Rooted(b.stack)
      BY <1>7, <2>1, <2>5, Zenon DEF Calm
    <2> QED
      BY <1>12, <2>1, <2>4, <2>5, <2>9, <2>10, <2>11, <2>12, <2>13, Zenon DEF Calm
  <1>13. StackInv(b)
    BY <1>11, <1>12, Zenon DEF StackInv
  <1>14. Pops(a, b, cb)
    BY <1>7, <1>8, <1>9, <1>12, Zenon DEF Pops, x, v
  <1> QED
    BY <1>13, <1>14, Zenon DEF b

\* The first tween ends, and its callback is not run yet.
LEMMA FirstEnds ==
    ASSUME NEW b \in AppRecord, Sane(app), app.anims # <<>>, b.anims = Tail(app.anims)
    PROVE  /\ OneTweenEach(b) /\ Ending \in Tweens(app) /\ Ending \in Tween
           /\ Tweens(b) = Tweens(app) \ {Ending}
           /\ \A x \in Tweens(b) : x.view # Ending.view /\ (x.kind = "hide" => Leaves(x))
           /\ Orderly(app) /\ b.stack = app.stack => Orderly(b)
           /\ Orderly(app) /\ Leaves(Ending) => \A x \in Tweens(b) : ~Leaves(x)
  <1>1. app \in AppRecord /\ OneTweenEach(app)
    BY Zenon DEF Sane
  <1>2. /\ OneTweenEach(b)
        /\ Ending \in Tweens(app)
        /\ Tweens(b) = Tweens(app) \ {Ending}
        /\ \A x \in Tweens(b) : x.view # Ending.view
        /\ \A x, y : EndsBefore(app, x, y) /\ x # Ending => EndsBefore(b, x, y)
    BY <1>1, TweenEnds, Zenon DEF Ending
  <1>3. Ending \in Tween
    BY <1>1, <1>2, TweensTyped, Zenon
  <1>4. \A x \in Tweens(b) : x.kind = "hide" => Leaves(x)
    BY <1>2, Zenon DEF Sane
  <1>5. ASSUME Orderly(app), b.stack = app.stack
        PROVE  Orderly(b)
    <2>1. ASSUME NEW x \in Tweens(b), Leaves(x)
          PROVE  \E y \in Tweens(b) :
                    /\ y.view = Top(b.stack)
                    /\ y = x \/ (Blocks(y) /\ EndsBefore(b, x, y))
      <3>1. x \in Tweens(app) /\ x # Ending
        BY <1>2, <2>1, Zenon
      <3>2. PICK y \in Tweens(app) :
               /\ y.view = Top(b.stack)
               /\ y = x \/ (Blocks(y) /\ EndsBefore(app, x, y))
        BY <1>5, <2>1, <3>1, Zenon DEF Orderly
      <3>3. CASE y = x
        BY <2>1, <3>2, <3>3, Zenon
      <3>4. CASE Blocks(y) /\ EndsBefore(app, x, y)
        <4>1. EndsBefore(b, x, y)
          BY <1>2, <3>1, <3>4, Zenon
        <4>2. y \in Tweens(b)
          BY <4>1, Zenon DEF EndsBefore, Tweens
        <4> QED
          BY <3>2, <3>4, <4>1, <4>2, Zenon
      <3> QED
        BY <3>2, <3>3, <3>4, Zenon
    <2>2. ASSUME NEW x \in Tweens(b), Leaves(x)
          PROVE  \A y \in Tweens(b) : Leaves(y) => y = x
      BY <1>2, <1>5, <2>2, Zenon DEF Orderly
    <2> QED
      BY <2>1, <2>2, Zenon DEF Orderly
  <1>6. ASSUME Orderly(app), Leaves(Ending)
        PROVE  \A x \in Tweens(b) : ~Leaves(x)
    BY <1>2, <1>6, Zenon DEF Orderly
  <1> QED
    BY <1>2, <1>3, <1>4, <1>5, <1>6, Zenon

\* What the end of a tween does that leaves the stack alone.
Ends(b) ==
    /\ Tweens(b) = Tweens(app) \ {Ending}
    /\ Leaked(app) <=> Leaked(b)
    /\ b.stack = app.stack /\ Foci(b) = Foci(app) /\ b.focus = app.focus
    /\ ~Leaked(b) => Hiding(b) = Hiding(app)
    /\ ~Leaked(b) /\ Leaves(Ending) => \A x \in Tweens(b) : ~Leaves(x)

\* A view that was shown gives the inputs back.
LEMMA UnblockKeeps ==
    ASSUME Counting, StackInv(app), app.anims # <<>>, Ending.kind = "show", Ending.cb = "unblock"
    PROVE  StackInv(unblockInputs(Dequeued)) /\ Ends(unblockInputs(Dequeued))
  <1> DEFINE n == IF app.tokens > 0 THEN app.tokens - 1 ELSE 0
             b == unblockInputs(Dequeued)
  <1>1. Sane(app) /\ app \in AppRecord /\ OneTweenEach(app)
    BY Zenon DEF StackInv, Sane
  <1>2. app.tokens \in Nat /\ app.anims \in Seq(Tween)
    BY <1>1, TweensTyped, Zenon
  <1>3. n \in Nat /\ Tail(app.anims) \in Seq(Tween)
    BY <1>2
  <1>4. b = [app EXCEPT !.anims = Tail(app.anims), !.tokens = n]
    BY <1>1 DEF unblockInputs, Dequeued, AppRecord
  <1> HIDE DEF n, b
  <1>5. /\ b \in AppRecord /\ b.anims = Tail(app.anims) /\ b.tokens = n /\ b.stack = app.stack
        /\ b.focus = app.focus /\ b.focusStack = app.focusStack
    BY <1>1, <1>3, <1>4, Zenon DEF AppRecord
  <1>6. /\ OneTweenEach(b) /\ Ending \in Tweens(app)
        /\ Tweens(b) = Tweens(app) \ {Ending}
        /\ \A x \in Tweens(b) : x.view # Ending.view /\ (x.kind = "hide" => Leaves(x))
        /\ Orderly(app) => Orderly(b)
    BY <1>1, <1>5, FirstEnds, Zenon
  <1>7. /\ IsFiniteSet(Blocking(b)) /\ Cardinality(Blocking(b)) <= b.tokens
        /\ Leaked(app) <=> Leaked(b)
    <2>1. Blocks(Ending)
      BY Zenon DEF Blocks
    <2> QED
      BY <1>1, <1>5, <1>6, <2>1, UnblockedOnce, Zenon DEF n
  <1>8. Sane(b)
    BY <1>5, <1>6, <1>7, Zenon DEF Sane
  <1>9. Foci(b) = Foci(app)
    BY <1>5, Zenon DEF Foci
  <1>10. Hiding(b) = Hiding(app)
    <2>1. Ending.kind # "hide"
      OBVIOUS
    <2>2. (\E x \in Tweens(b) : x.kind = "hide") <=> (\E x \in Tweens(app) : x.kind = "hide")
      BY <1>6, <2>1, Zenon
    <2> QED
      BY <2>2, Zenon DEF Hiding
  <1>11. Ends(b)
    BY <1>5, <1>6, <1>7, <1>9, <1>10, Zenon DEF Ends, Leaves
  <1>12. ASSUME ~Leaked(b)
         PROVE  Calm(b)
    <2>1. Calm(app)
      BY <1>7, <1>12, Zenon DEF StackInv
    <2> QED
      BY <1>5, <1>6, <1>9, <1>10, <1>12, <2>1, Zenon DEF Calm
  <1> QED
    BY <1>8, <1>11, <1>12, Zenon DEF StackInv, b

\* The view below is shown again, and the callback is due.
LEMMA DequeueKeeps ==
    ASSUME Counting, StackInv(app), app.anims # <<>>, Ending.kind = "show", Ending.cb # "unblock"
    PROVE  StackInv(Dequeued) /\ Ends(Dequeued)
  <1> DEFINE b == Dequeued
  <1>1. Sane(app) /\ app \in AppRecord /\ OneTweenEach(app)
    BY Zenon DEF StackInv, Sane
  <1>2. Tail(app.anims) \in Seq(Tween)
    <2>1. app.anims \in Seq(Tween)
      BY <1>1, TweensTyped, Zenon
    <2> QED
      BY <2>1
  <1>3. b = [app EXCEPT !.anims = Tail(app.anims)]
    BY <1>1 DEF Dequeued, AppRecord
  <1> HIDE DEF b
  <1>4. /\ b \in AppRecord /\ b.anims = Tail(app.anims) /\ b.tokens = app.tokens
        /\ b.stack = app.stack /\ b.focus = app.focus /\ b.focusStack = app.focusStack
    BY <1>1, <1>2, <1>3, WithAnims, ZenonT(30)
  <1>5. /\ OneTweenEach(b) /\ Ending \in Tweens(app)
        /\ Tweens(b) = Tweens(app) \ {Ending}
        /\ \A x \in Tweens(b) : x.view # Ending.view /\ (x.kind = "hide" => Leaves(x))
        /\ Orderly(app) => Orderly(b)
        /\ Orderly(app) /\ Leaves(Ending) => \A x \in Tweens(b) : ~Leaves(x)
    BY <1>1, <1>4, FirstEnds, Zenon
  <1>6. Ending.kind # "hide"
    OBVIOUS
  <1>7. /\ IsFiniteSet(Blocking(b)) /\ Cardinality(Blocking(b)) <= b.tokens
        /\ Leaked(app) <=> Leaked(b)
    <2>1. ~Blocks(Ending)
      BY <1>6, Zenon DEF Blocks
    <2> QED
      BY <1>1, <1>4, <1>5, <2>1, UnblockedNothing, Zenon
  <1>8. Sane(b)
    BY <1>4, <1>5, <1>7, Zenon DEF Sane
  <1>9. Foci(b) = Foci(app)
    BY <1>4, Zenon DEF Foci
  <1>10. Hiding(b) = Hiding(app)
    <2>1. (\E x \in Tweens(b) : x.kind = "hide") <=> (\E x \in Tweens(app) : x.kind = "hide")
      BY <1>5, <1>6, Zenon
    <2> QED
      BY <2>1, Zenon DEF Hiding
  <1>11. ASSUME ~Leaked(b)
         PROVE  Calm(b) /\ Orderly(app)
    <2>1. Calm(app)
      BY <1>7, <1>11, Zenon DEF StackInv
    <2> QED
      BY <1>4, <1>5, <1>9, <1>10, <1>11, <2>1, Zenon DEF Calm
  <1>12. Ends(b)
    BY <1>4, <1>5, <1>7, <1>9, <1>10, <1>11, Zenon DEF Ends
  <1> QED
    BY <1>8, <1>11, <1>12, Zenon DEF StackInv, b

\* What the end of popView's tween does.
Drops(b) ==
    /\ Tweens(b) = Tweens(app) \ {Ending}
    /\ Leaked(app) <=> Leaked(b)
    /\ ~Leaked(b) =>
         /\ Calm(app) /\ Hiding(app) = 1 /\ Hiding(b) = 0
         /\ b.stack = Below(app.stack)
         /\ Foci(b) = IF app.focus = Ending.view THEN app.focusStack ELSE Foci(app)
         /\ \A x \in Tweens(b) : ~Leaves(x)

\* A view that has been hidden is taken off the stack.
LEMMA DropKeeps ==
    ASSUME Counting, StackInv(app), app.anims # <<>>, Ending.kind = "hide"
    PROVE  StackInv(Popped) /\ Drops(Popped)
  <1> DEFINE n == IF app.tokens > 0 THEN app.tokens - 1 ELSE 0
             f == IF app.focus = Ending.view THEN None ELSE app.focus
             s == Below(app.stack)
             b == Popped
  <1>1. Sane(app) /\ app \in AppRecord /\ OneTweenEach(app)
    BY Zenon DEF StackInv, Sane
  <1>2. /\ app.tokens \in Nat /\ app.anims \in Seq(Tween) /\ app.stack \in Seq(View)
        /\ app.focus \in View /\ app.focusStack \in Seq(View)
    BY <1>1, TweensTyped, Zenon
  <1>3. n \in Nat /\ Tail(app.anims) \in Seq(Tween) /\ s \in Seq(View) /\ None \in View
    <2>1. s \in Seq(View)
      <3>1. CASE app.stack = <<>>
        BY <3>1 DEF Below
      <3>2. CASE app.stack # <<>>
        BY <1>2, <3>2, EndOfSequence, Zenon
      <3> QED
        BY <3>1, <3>2, Zenon
    <2>2. n \in Nat /\ Tail(app.anims) \in Seq(Tween)
      BY <1>2
    <2>3. None \in View
      BY Zenon DEF View
    <2> QED
      BY <2>1, <2>2, <2>3, Zenon
  <1>4. f \in View
    BY <1>2, <1>3, Zenon
  <1>5. Ending \in Tween
    <2>1. Head(app.anims) \in Tween
      BY <1>2
    <2> QED
      BY <2>1, Zenon DEF Ending
  <1>6. Ending.view \in View
    BY <1>1, <1>5, TweensTyped, Zenon
  <1>7. b = [app EXCEPT !.anims = Tail(app.anims), !.tokens = n, !.stack = s,
                        !.freed = app.freed \cup {Ending.view}, !.focus = f]
    BY <1>1, Zenon DEF Popped, unblockInputs, Dequeued, AppRecord
  <1> HIDE DEF n, f, s, b
  <1>8. /\ b \in AppRecord /\ b.anims = Tail(app.anims) /\ b.tokens = n /\ b.stack = s
        /\ b.focus = f /\ b.focusStack = app.focusStack
    <2>1. app.freed \cup {Ending.view} \in SUBSET View
      BY <1>1, <1>6 DEF AppRecord
    <2> QED
      BY <1>1, <1>3, <1>4, <1>7, <2>1, Zenon DEF AppRecord
  <1>9. /\ OneTweenEach(b) /\ Ending \in Tweens(app)
        /\ Tweens(b) = Tweens(app) \ {Ending}
        /\ \A x \in Tweens(b) : x.view # Ending.view /\ (x.kind = "hide" => Leaves(x))
        /\ Orderly(app) /\ Leaves(Ending) => \A x \in Tweens(b) : ~Leaves(x)
    BY <1>1, <1>8, FirstEnds, Zenon
  <1>10. Leaves(Ending) /\ Blocks(Ending)
    BY <1>1, <1>9, Zenon DEF Sane, Blocks
  <1>11. /\ IsFiniteSet(Blocking(b)) /\ Cardinality(Blocking(b)) <= b.tokens
         /\ Leaked(app) <=> Leaked(b)
    BY <1>1, <1>8, <1>9, <1>10, UnblockedOnce, Zenon DEF n
  <1>12. Sane(b)
    BY <1>8, <1>9, <1>11, Zenon DEF Sane
  <1>13. ASSUME ~Leaked(b)
         PROVE  /\ Calm(app) /\ Hiding(app) = 1 /\ Hiding(b) = 0
                /\ Foci(b) = IF app.focus = Ending.view THEN app.focusStack ELSE Foci(app)
                /\ \A x \in Tweens(b) : ~Leaves(x)
                /\ Calm(b)
    <2>1. Calm(app)
      BY <1>11, <1>13, Zenon DEF StackInv
    <2>2. \A x \in Tweens(b) : ~Leaves(x) /\ x.kind # "hide"
      BY <1>9, <1>10, <2>1, Zenon DEF Calm
    <2>3. Hiding(app) = 1 /\ Hiding(b) = 0
      BY <1>9, <2>2, Zenon DEF Hiding
    <2>4. Foci(b) = IF app.focus = Ending.view THEN app.focusStack ELSE Foci(app)
      BY <1>8, Zenon DEF Foci, f
    <2>5. Len(app.stack) > 1 /\ Rooted(app.stack)
      BY <2>1, <2>3, Zenon DEF Calm
    <2>6. Rooted(b.stack) /\ Len(b.stack) > 0
      <3>1. Rooted(b.stack)
        BY <1>2, <1>8, <2>5, RootStays, Zenon DEF s
      <3>2. b.stack # <<>> /\ b.stack \in Seq(View)
        BY <1>3, <1>8, <3>1, Zenon DEF Rooted
      <3> QED
        BY <3>1, <3>2, EndOfSequence, Zenon
    <2>7. Rooted(Foci(b))
      <3>1. CASE app.focus # Ending.view
        BY <2>1, <2>4, <3>1, Zenon DEF Calm
      <3>2. CASE app.focus = Ending.view /\ app.focus = None
        BY <2>1, <2>4, <3>2, Zenon DEF Calm, Foci
      <3>3. CASE app.focus = Ending.view /\ app.focus # None
        <4>1. app.focus # Root
          BY <1>9, <2>1, <3>3, Zenon DEF Calm
        <4>2. Rooted(Append(app.focusStack, app.focus))
          BY <2>1, <3>3, Zenon DEF Calm, Foci
        <4>3. Rooted(app.focusStack)
          BY <1>2, <4>1, <4>2 DEF Rooted
        <4> QED
          BY <2>4, <3>3, <4>3, Zenon
      <3> QED
        BY <3>1, <3>2, <3>3, Zenon
    <2>8. Orderly(b)
      BY <2>2, Zenon DEF Orderly
    <2> QED
      BY <1>8, <1>13, <2>1, <2>2, <2>3, <2>4, <2>6, <2>7, <2>8, Zenon DEF Calm
  <1>14. Drops(b)
    BY <1>8, <1>9, <1>11, <1>13, Zenon DEF Drops, s
  <1> QED
    BY <1>12, <1>13, <1>14, Zenon DEF StackInv, b

\* The same when the view below is shown again before the callback: its tween
\* takes the callback over.
Uncovers(b) ==
    /\ \E w : Tweens(b) \subseteq (Tweens(app) \ {Ending}) \cup {ShowOf(w, Ending.cb)}
    /\ Leaked(app) => Leaked(b)
    /\ ~Leaked(b) =>
         /\ Calm(app) /\ Hiding(app) = 1 /\ Hiding(b) = 0
         /\ b.stack = Below(app.stack)
         /\ Foci(b) = IF app.focus = Ending.view THEN app.focusStack ELSE Foci(app)

\* A view that has been hidden is taken off the stack, and the one below shown.
LEMMA UncoverKeeps ==
    ASSUME Counting, StackInv(app), app.anims # <<>>, Ending.kind = "hide"
    PROVE  StackInv(Uncovered) /\ Uncovers(Uncovered)
  <1> DEFINE a == Popped
             w == Top(a.stack)
             x == ShowOf(w, Ending.cb)
             b == show(a, w, Ending.cb)
  <1>1. StackInv(a) /\ Drops(a)
    BY DropKeeps, Zenon
  <1>2. CASE a.stack = <<>>
    <2>1. Uncovered = a
      BY <1>2, Zenon DEF Uncovered
    <2>2. Uncovers(a)
      BY <1>1, Zenon DEF Drops, Uncovers
    <2> QED
      BY <1>1, <2>1, <2>2, Zenon
  <1>3. CASE a.stack # <<>>
    <2>1. Uncovered = b
      BY <1>3, Zenon DEF Uncovered
    <2>2. Sane(a) /\ a \in AppRecord /\ OneTweenEach(a)
      BY <1>1, Zenon DEF StackInv, Sane
    <2>3. a.stack \in Seq(View) /\ w \in View
      BY <1>3, <2>2, TweensTyped, EndOfSequence, Zenon
    <2>4. Ending.cb \in Callback /\ Ending.cb # "unblock"
      <3>1. Sane(app) /\ app \in AppRecord
        BY Zenon DEF StackInv, Sane
      <3>2. Ending \in Tweens(app)
        <4>1. app.anims \in Seq(Tween)
          BY <3>1, TweensTyped, Zenon
        <4>2. Head(app.anims) = app.anims[1] /\ 1 \in 1 .. Len(app.anims)
          BY <4>1
        <4> QED
          BY <4>2, Zenon DEF Ending, Tweens
      <3> QED
        BY <3>1, <3>2, TweensTyped, Zenon DEF Sane, Leaves
    <2>5. /\ b \in AppRecord /\ Replaces(a, b, x)
          /\ b.stack = a.stack /\ b.tokens = a.tokens
          /\ b.focus = a.focus /\ b.focusStack = a.focusStack
      BY <2>2, <2>3, <2>4, ShowReplaces, Zenon
    <2>6. /\ x.view = w /\ x.kind = "show" /\ ~Blocks(x) /\ Leaves(x)
      BY <2>4 DEF ShowOf, Blocks, Leaves
    <2> HIDE DEF a, w, x, b
    <2>7. OneTweenEach(b) /\ Tweens(b) = {y \in Tweens(a) : y.view # x.view} \cup {x}
      BY <2>5, Zenon DEF Replaces
    <2>8. /\ IsFiniteSet(Blocking(b)) /\ Cardinality(Blocking(b)) <= b.tokens
          /\ Leaked(a) => Leaked(b)
      BY <2>2, <2>5, <2>6, <2>7, BlockedNoMore, Zenon
    <2>9. Sane(b)
      <3>1. \A y \in Tweens(b) : y.kind = "hide" => Leaves(y)
        BY <2>2, <2>6, <2>7, Zenon DEF Sane
      <3> QED
        BY <2>5, <2>7, <2>8, <3>1, Zenon DEF Sane
    <2>10. Foci(b) = Foci(a)
      BY <2>5, Zenon DEF Foci
    <2>11. ASSUME ~Leaked(b)
           PROVE  Calm(b) /\ Hiding(b) = 0 /\ ~Leaked(a)
      <3>1. ~Leaked(a) /\ Calm(a)
        BY <1>1, <2>8, <2>11, Zenon DEF StackInv
      <3>2. \A y \in Tweens(b) : Leaves(y) => y = x
        BY <1>1, <2>7, <3>1, Zenon DEF Drops
      <3>3. \A y \in Tweens(b) : y.kind # "hide"
        <4>1. ASSUME NEW y \in Tweens(b), y.kind = "hide"
              PROVE  FALSE
          <5>1. y = x
            BY <2>9, <3>2, <4>1, Zenon DEF Sane
          <5>2. x.kind = "hide"
            BY <4>1, <5>1, Zenon
          <5> QED
            BY <2>6, <5>2
        <4> QED
          BY <4>1, Zenon
      <3>4. Hiding(b) = 0
        BY <3>3, Zenon DEF Hiding
      <3>5. Orderly(b)
        <4>1. x \in Tweens(b) /\ x.view = Top(b.stack)
          BY <2>5, <2>6, <2>7, Zenon DEF w
        <4> QED
          BY <3>2, <4>1, Zenon DEF Orderly
      <3>6. Len(b.stack) > Hiding(b)
        <4>1. b.stack # <<>> /\ b.stack \in Seq(View)
          BY <1>3, <2>3, <2>5, Zenon
        <4> QED
          BY <3>4, <4>1, EndOfSequence, Zenon
      <3> QED
        BY <2>5, <2>10, <2>11, <3>1, <3>3, <3>4, <3>5, <3>6, Zenon DEF Calm
    <2>12. Uncovers(b)
      <3>1. Tweens(b) \subseteq (Tweens(app) \ {Ending}) \cup {ShowOf(w, Ending.cb)}
        BY <1>1, <2>7, Zenon DEF Drops, x
      <3>2. Leaked(app) => Leaked(b)
        BY <1>1, <2>8, Zenon DEF Drops
      <3>3. ASSUME ~Leaked(b)
            PROVE  /\ Calm(app) /\ Hiding(app) = 1
                   /\ b.stack = Below(app.stack)
                   /\ Foci(b) = IF app.focus = Ending.view THEN app.focusStack ELSE Foci(app)
        BY <1>1, <2>5, <2>10, <2>11, <3>3, Zenon DEF Drops
      <3> QED
        BY <2>11, <3>1, <3>2, <3>3, Zenon DEF Uncovers
    <2>13. StackInv(b)
      BY <2>9, <2>11, Zenon DEF StackInv
    <2> QED
      BY <2>1, <2>12, <2>13, Zenon
  <1> QED
    BY <1>2, <1>3, Zenon

-----------------------------------------------------------------------------
(* The install tabs and the tools tab: what is on the stack a while the tabs *)
(* have the installing flags ins, the catalogues cat and the outcomes out.   *)

\* The view gets the focus, now or later, and nothing that asks does so before.
Awaits(a, v, l) ==
    Foci(a)[l] = v /\ \A k \in l + 1 .. Len(Foci(a)) : Foci(a)[k] \notin Asks

\* The progress dialog of t awaits the focus, and popView meets the views that
\* get it before when it takes them off the stack.
HeldBy(a, t) ==
    \E l \in 1 .. Len(Foci(a)) :
        /\ Awaits(a, Progress(t), l)
        /\ \A k \in 1 .. Len(a.stack) :
             k + Len(Foci(a)) > Len(a.stack) - Hiding(a) + l => a.stack[k] # Progress(t)

\* The firmware was unpacked, and stays so.
Unpacked(ins, out) == "firmware" \in Tabs /\ out["firmware"] = "Done" /\ ~ins["firmware"]

\* The callbacks that will be called, if anything is.
Pending(a, ins, cat, out) ==
    /\ \A x \in Tweens(a) : x.cb \in Writes =>
         /\ \A y \in Tweens(a) : y.cb \in Writes => x = y
         /\ \A t \in Tabs : ~ins[t]
    /\ \A x \in Tweens(a), t \in Tabs : x.cb = Installs(t) => cat[t] = "listed"
    /\ \A x \in Tweens(a) : x.cb = "daybreak" => Unpacked(ins, out)

\* The dialogs that the user will reach.
Reached(a, ins, cat, out) ==
    /\ \A t \in Tabs : ins[t] =>
         /\ HeldBy(a, t)
         /\ \A x \in Tweens(a) : x.kind = "hide" => x.view # Progress(t)
    /\ \A l \in 1 .. Len(Foci(a)) :
         /\ \A t \in Tabs : Foci(a)[l] = Confirm(t) => cat[t] = "listed"
         /\ Foci(a)[l] = Daybreak =>
              /\ Awaits(a, Daybreak, l) /\ Unpacked(ins, out)
              /\ \A t \in Tabs : ~ins[t]
              /\ \A x \in Tweens(a) : x.cb \notin Writes

\* The stack and the tabs together.
Screen(a, ins, cat, out) ==
    /\ StackInv(a)
    /\ Pending(a, ins, cat, out)
    /\ ~Leaked(a) => Reached(a, ins, cat, out)

\* What the tabs remember besides.
TabsInv ==
    /\ installing = progress
    /\ \A t, u \in Tabs : installing[t] /\ installing[u] => t = u
    /\ \A t \in Tabs : catalogue[t] = "listed" /\ running(t) => installing[t]
    /\ Loop => chainload = "none"
    /\ chainload = "daybreak" => Unpacked(installing, outcome)

\* Until the splash screen has left no view has the focus, and nothing but the
\* two fetches and the check of the splash screen goes on.
SplashInv ==
    Loop /\ splash # "left" =>
        /\ app.focus = None
        /\ \A x \in Tweens(app) : ~Leaves(x)
        /\ \A t \in Tabs : ~installing[t]
        /\ ~updating
        /\ job["archive"] = Idle

\* The inductive invariant.  Outside the main loop the stack is not looked at
\* any more, but for the callbacks that were under way.
ScreenInv ==
    /\ TabsInv
    /\ app.anims \in Seq(Tween)
    /\ Pending(app, installing, catalogue, outcome)
    /\ Loop => Screen(app, installing, catalogue, outcome)
    /\ SplashInv

\* Dialogs are told apart by what they are for, and callbacks by what they do.
LEMMA Differ ==
    /\ \A t, u \in Tabs : Installs(t) = Installs(u) => t = u
    /\ \A t \in Tabs : Installs(t) \in Writes /\ Installs(t) # "daybreak"
    /\ {"none", "unblock", "current", "offer", "restart"} \cap Writes = {}
    /\ Writes \subseteq Callback /\ "daybreak" \in Writes
    /\ \A tool \in Tool : tool \in Writes /\ tool # "daybreak" /\ \A t \in Tabs : tool # Installs(t)
    /\ "payload" \in Writes /\ "payload" # "daybreak" /\ \A t \in Tabs : "payload" # Installs(t)
    /\ {Root, Splash, None, Startup, Restart} \cap Asks = {}
    /\ \A t \in Tabs : Progress(t) \notin Asks /\ Result(t) \notin Asks
    /\ \A tool \in Tool : Report(tool) \notin Asks
    /\ \A t \in Tabs : Progress(t) \notin {Root, Splash, None, Startup, Restart}
    /\ \A t, u \in Tabs : Progress(t) # Result(u) /\ (Progress(t) = Progress(u) => t = u)
    /\ \A t \in Tabs, tool \in Tool : Progress(t) # Report(tool)
    /\ \A t, u \in Tabs : Confirm(t) = Confirm(u) => t = u
    /\ \A t \in Tabs : Confirm(t) # Daybreak /\ Confirm(t) # Choice
    /\ \A t \in Tabs, tool \in Tool : Confirm(t) # Ask(tool)
    /\ \A tool \in Tool : Ask(tool) # Daybreak
    /\ Choice # Daybreak
  <1>1. \A t, u \in Tabs : Installs(t) = Installs(u) => t = u
    BY TabsAssumption DEF Installs
  <1>2. \A t \in Tabs : Installs(t) \in {"install_cfw", "install_firmware"}
    BY Zenon DEF Installs
  <1>3. \A cb \in Writes : cb \in {"install_cfw", "install_firmware", "archive", "purge", "reboot",
                                   "payload", "daybreak"}
    BY <1>2, Zenon DEF Writes, Tool
  <1>4. {"none", "unblock", "current", "offer", "restart"} \cap Writes = {}
    BY <1>3
  <1>5. /\ \A t \in Tabs : Installs(t) \in Writes /\ Installs(t) # "daybreak"
        /\ Writes \subseteq Callback /\ "daybreak" \in Writes /\ "payload" \in Writes
        /\ \A tool \in Tool : tool \in Writes
    <2>1. \A t \in Tabs : Installs(t) # "daybreak"
      BY <1>2
    <2> QED
      BY <2>1, Zenon DEF Writes, Callback
  <1>6. /\ \A tool \in Tool : tool # "daybreak" /\ \A t \in Tabs : tool # Installs(t)
        /\ "payload" # "daybreak" /\ \A t \in Tabs : "payload" # Installs(t)
    BY <1>2 DEF Tool
  <1>7. \A v \in Asks : v[1] \in {"confirm", "ask", "choose", "daybreak"}
    BY DEF Asks, Confirm, Ask, Choice, Daybreak
  <1>8. /\ Root[1] = "root" /\ Splash[1] = "splash" /\ None[1] = "none" /\ Startup[1] = "startup"
        /\ Restart[1] = "restart"
        /\ \A t : Progress(t)[1] = "progress" /\ Result(t)[1] = "result" /\ Report(t)[1] = "report"
    BY DEF Root, Splash, None, Startup, Restart, Progress, Result, Report
  <1>9. /\ {Root, Splash, None, Startup, Restart} \cap Asks = {}
        /\ \A t \in Tabs : Progress(t) \notin Asks /\ Result(t) \notin Asks
        /\ \A tool \in Tool : Report(tool) \notin Asks
    BY <1>7, <1>8
  <1>10. \A t \in Tabs : Progress(t) \notin {Root, Splash, None, Startup, Restart}
    BY <1>8
  <1>11. \A t, u : Progress(t) # Result(u) /\ Progress(t) # Report(u)
    BY <1>8
  <1>12. \A t, u : (Progress(t) = Progress(u) => t = u) /\ (Confirm(t) = Confirm(u) => t = u)
    BY DEF Progress, Confirm
  <1>13. \A t, u : Confirm(t) # Daybreak /\ Confirm(t) # Choice /\ Confirm(t) # Ask(u)
                     /\ Ask(u) # Daybreak /\ Choice # Daybreak
    BY DEF Confirm, Daybreak, Choice, Ask
  <1> QED
    BY <1>1, <1>4, <1>5, <1>6, <1>9, <1>10, <1>11, <1>12, <1>13, Zenon

\* s is the beginning of r.
Begins(s, r) == Len(s) <= Len(r) /\ \A i \in 1 .. Len(s) : s[i] = r[i]

\* What ends an operation that adds no callback that writes.
LEMMA PendingFewer ==
    ASSUME NEW a, NEW b, NEW ins, NEW cat, NEW out, Pending(a, ins, cat, out),
           \A x \in Tweens(b) : x \in Tweens(a) \/ x.cb \notin Writes
    PROVE  Pending(b, ins, cat, out)
  <1>1. \A x \in Tweens(b) : x.cb \in Writes => x \in Tweens(a)
    BY Zenon
  <1>2. \A x \in Tweens(b), t \in Tabs : x.cb = Installs(t) => cat[t] = "listed"
    <2>1. \A t \in Tabs : Installs(t) \in Writes
      BY Differ, Zenon
    <2> QED
      BY <1>1, <2>1, Zenon DEF Pending
  <1>3. \A x \in Tweens(b) : x.cb = "daybreak" => Unpacked(ins, out)
    <2>1. "daybreak" \in Writes
      BY Differ, Zenon
    <2> QED
      BY <1>1, <2>1, Zenon DEF Pending
  <1>4. ASSUME NEW x \in Tweens(b), x.cb \in Writes
        PROVE  (\A y \in Tweens(b) : y.cb \in Writes => x = y) /\ \A t \in Tabs : ~ins[t]
    BY <1>1, <1>4, Zenon DEF Pending
  <1> QED
    BY <1>2, <1>3, <1>4, Zenon DEF Pending

\* A progress dialog still awaits the focus when other views were taken off.
LEMMA HeldOn ==
    ASSUME NEW a \in AppRecord, NEW b \in AppRecord, NEW t \in Tabs, HeldBy(a, t),
           Begins(Foci(b), Foci(a)), Begins(b.stack, a.stack),
           Len(b.stack) - Hiding(b) - Len(Foci(b)) >= Len(a.stack) - Hiding(a) - Len(Foci(a)),
           \A i \in Len(Foci(b)) + 1 .. Len(Foci(a)) : Foci(a)[i] # Progress(t)
    PROVE  HeldBy(b, t)
  <1> DEFINE F == Len(Foci(a))
             G == Len(Foci(b))
             S == Len(a.stack)
             R == Len(b.stack)
  <1>1. F \in Nat /\ G \in Nat /\ S \in Nat /\ R \in Nat /\ Hiding(a) \in Nat /\ Hiding(b) \in Nat
    <2>1. F \in Nat /\ G \in Nat
      BY FociTyped, Zenon
    <2>2. a.stack \in Seq(View) /\ b.stack \in Seq(View)
      BY TweensTyped, Zenon
    <2>3. S \in Nat /\ R \in Nat
      BY <2>2
    <2>4. Hiding(a) \in Nat /\ Hiding(b) \in Nat
      BY DEF Hiding
    <2> QED
      BY <2>1, <2>3, <2>4, Zenon
  <1>2. PICK l \in 1 .. F :
           /\ Awaits(a, Progress(t), l)
           /\ \A k \in 1 .. S : k + F > S - Hiding(a) + l => a.stack[k] # Progress(t)
    BY Zenon DEF HeldBy
  <1>3. Foci(a)[l] = Progress(t) /\ \A k \in l + 1 .. F : Foci(a)[k] \notin Asks
    BY <1>2, Zenon DEF Awaits
  <1>4. l \in 1 .. G
    <2>1. l \notin G + 1 .. F
      BY <1>3, Zenon
    <2> QED
      BY <1>1, <2>1
  <1>5. G <= F /\ \A i \in 1 .. G : Foci(b)[i] = Foci(a)[i]
    BY Zenon DEF Begins
  <1>6. R <= S /\ \A i \in 1 .. R : b.stack[i] = a.stack[i]
    BY Zenon DEF Begins
  <1>7. Awaits(b, Progress(t), l)
    <2>1. \A k \in l + 1 .. G : k \in l + 1 .. F /\ k \in 1 .. G
      BY <1>1, <1>4, <1>5
    <2>2. Foci(b)[l] = Progress(t)
      BY <1>3, <1>4, <1>5, Zenon
    <2>3. ASSUME NEW k \in l + 1 .. G
          PROVE  Foci(b)[k] \notin Asks
      <3>1. Foci(b)[k] = Foci(a)[k] /\ Foci(a)[k] \notin Asks
        BY <1>3, <1>5, <2>1, Zenon
      <3> QED
        BY <3>1, Zenon
    <2> QED
      BY <2>2, <2>3, Zenon DEF Awaits
  <1>8. ASSUME NEW k \in 1 .. R, k + G > R - Hiding(b) + l
        PROVE  b.stack[k] # Progress(t)
    <2>1. k \in 1 .. S /\ k + F > S - Hiding(a) + l
      <3>1. \A f, g, s, r, h, j, m, i \in Nat :
               r - j - g >= s - h - f /\ i + g > r - j + m => i + f > s - h + m
        OBVIOUS
      <3>2. k \in 1 .. S /\ k \in Nat /\ l \in Nat
        BY <1>1, <1>4, <1>6, SMTT(30)
      <3> QED
        BY <1>1, <1>8, <3>1, <3>2, Zenon
    <2>2. a.stack[k] # Progress(t)
      BY <1>2, <2>1, Zenon
    <2> QED
      BY <1>6, <2>2, Zenon
  <1> QED
    BY <1>4, <1>7, <1>8, Zenon DEF HeldBy

\* Views were taken off the stack, and none was put on it.
LEMMA Receding ==
    ASSUME NEW a, NEW b, NEW ins, NEW cat, NEW out, Screen(a, ins, cat, out),
           StackInv(b), Pending(b, ins, cat, out),
           ~Leaked(b) =>
             /\ ~Leaked(a) /\ Begins(Foci(b), Foci(a))
             /\ \A t \in Tabs : ins[t] =>
                  HeldBy(b, t) /\ \A x \in Tweens(b) : x.kind = "hide" => x.view # Progress(t)
             /\ \A l \in 1 .. Len(Foci(b)) :
                  Foci(b)[l] = Daybreak => \A x \in Tweens(b) : x.cb \notin Writes
    PROVE  Screen(b, ins, cat, out)
  <1> SUFFICES ASSUME ~Leaked(b)
               PROVE  \A l \in 1 .. Len(Foci(b)) :
                        /\ \A t \in Tabs : Foci(b)[l] = Confirm(t) => cat[t] = "listed"
                        /\ Foci(b)[l] = Daybreak =>
                             /\ Awaits(b, Daybreak, l) /\ Unpacked(ins, out)
                             /\ \A t \in Tabs : ~ins[t]
    BY Zenon DEF Screen, Reached
  <1>1. Reached(a, ins, cat, out) /\ Begins(Foci(b), Foci(a))
    BY Zenon DEF Screen
  <1>2. Len(Foci(a)) \in Nat /\ Len(Foci(b)) \in Nat
    BY FociTyped, Zenon DEF Screen, StackInv, Sane
  <1>3. Len(Foci(b)) <= Len(Foci(a)) /\ \A i \in 1 .. Len(Foci(b)) : Foci(b)[i] = Foci(a)[i]
    BY <1>1, Zenon DEF Begins
  <1>4. /\ \A l \in 1 .. Len(Foci(b)) : l \in 1 .. Len(Foci(a))
        /\ \A l \in 1 .. Len(Foci(b)) : \A k \in l + 1 .. Len(Foci(b)) :
             k \in l + 1 .. Len(Foci(a)) /\ k \in 1 .. Len(Foci(b))
    BY <1>2, <1>3
  <1>5. TAKE l \in 1 .. Len(Foci(b))
  <1>6. Foci(b)[l] = Foci(a)[l] /\ l \in 1 .. Len(Foci(a))
    BY <1>3, <1>4, Zenon
  <1>7. ASSUME NEW t \in Tabs, Foci(b)[l] = Confirm(t)
        PROVE  cat[t] = "listed"
    BY <1>1, <1>6, <1>7, Zenon DEF Reached
  <1>8. ASSUME Foci(b)[l] = Daybreak
        PROVE  /\ Awaits(b, Daybreak, l) /\ Unpacked(ins, out)
               /\ \A t \in Tabs : ~ins[t]
    <2>1. /\ Awaits(a, Daybreak, l) /\ Unpacked(ins, out)
          /\ \A t \in Tabs : ~ins[t]
      BY <1>1, <1>6, <1>8, Zenon DEF Reached
    <2>2. ASSUME NEW k \in l + 1 .. Len(Foci(b))
          PROVE  Foci(b)[k] \notin Asks
      <3>1. k \in l + 1 .. Len(Foci(a)) /\ Foci(b)[k] = Foci(a)[k]
        BY <1>3, <1>4, Zenon
      <3> QED
        BY <2>1, <3>1, Zenon DEF Awaits
    <2> QED
      BY <1>8, <2>1, <2>2, Zenon DEF Awaits
  <1> QED
    BY <1>7, <1>8, Zenon

\* A dialog v may be pushed: it is not one that asks while an install runs, or
\* on top of the question about Daybreak.
Welcome(a, v, ins, cat, out) ==
    /\ v \in View \ {Root, Splash, None}
    /\ \A t \in Tabs : ins[t] => v # Progress(t) /\ v \notin Asks
    /\ \A t \in Tabs : v = Confirm(t) => cat[t] = "listed"
    /\ v \in Asks /\ ~Leaked(a) => \A l \in 1 .. Len(Foci(a)) : Foci(a)[l] # Daybreak
    /\ v = Daybreak =>
         /\ Unpacked(ins, out)
         /\ \A t \in Tabs : ~ins[t]
         /\ \A x \in Tweens(a) : x.cb \notin Writes

\* A progress dialog awaits the focus below the view that is pushed.
LEMMA HeldBelow ==
    ASSUME NEW a \in AppRecord, NEW b \in AppRecord, NEW t \in Tabs, HeldBy(a, t), NEW v \in View,
           v # Progress(t), v \notin Asks,
           Foci(b) = Append(Foci(a), v), b.stack = Append(a.stack, v), Hiding(b) = Hiding(a)
    PROVE  HeldBy(b, t)
  <1> DEFINE F == Len(Foci(a))
             S == Len(a.stack)
  <1>1. Foci(a) \in Seq(View) /\ a.stack \in Seq(View) /\ F \in Nat /\ S \in Nat
    BY FociTyped, TweensTyped, EndOfSequence, Zenon
  <1>2. Hiding(a) \in Nat
    BY DEF Hiding
  <1>3. /\ Len(Foci(b)) = F + 1 /\ Foci(b)[F + 1] = v
        /\ \A i \in 1 .. F : Foci(b)[i] = Foci(a)[i]
    BY <1>1
  <1>4. /\ Len(b.stack) = S + 1 /\ b.stack[S + 1] = v
        /\ \A i \in 1 .. S : b.stack[i] = a.stack[i]
    BY <1>1
  <1>5. PICK l \in 1 .. F :
           /\ Awaits(a, Progress(t), l)
           /\ \A k \in 1 .. S : k + F > S - Hiding(a) + l => a.stack[k] # Progress(t)
    BY Zenon DEF HeldBy
  <1>6. l \in 1 .. F + 1 /\ l \in Nat
    BY <1>1
  <1>7. Awaits(b, Progress(t), l)
    <2>1. \A k \in l + 1 .. F + 1 : k = F + 1 \/ (k \in l + 1 .. F /\ k \in 1 .. F)
      <3>1. \A n, m \in Nat : \A k \in m + 1 .. n + 1 :
               k = n + 1 \/ (k \in m + 1 .. n /\ k \in 1 .. n)
        OBVIOUS
      <3> QED
        BY <1>1, <1>6, <3>1, Zenon
    <2>2. Foci(b)[l] = Progress(t)
      BY <1>3, <1>5, Zenon DEF Awaits
    <2>3. ASSUME NEW k \in l + 1 .. F + 1
          PROVE  Foci(b)[k] \notin Asks
      <3>1. CASE k = F + 1
        BY <1>3, <3>1, Zenon
      <3>2. CASE k \in l + 1 .. F /\ k \in 1 .. F
        BY <1>3, <1>5, <3>2, Zenon DEF Awaits
      <3> QED
        BY <2>1, <3>1, <3>2, Zenon
    <2> QED
      BY <1>3, <2>2, <2>3, Zenon DEF Awaits
  <1>8. ASSUME NEW k \in 1 .. S + 1, k + (F + 1) > (S + 1) - Hiding(a) + l
        PROVE  b.stack[k] # Progress(t)
    <2>1. k = S + 1 \/ (k \in 1 .. S /\ k + F > S - Hiding(a) + l)
      BY <1>1, <1>2, <1>6, <1>8, SMTT(30)
    <2>2. CASE k = S + 1
      BY <1>4, <2>2, Zenon
    <2>3. CASE k \in 1 .. S /\ k + F > S - Hiding(a) + l
      BY <1>4, <1>5, <2>3, Zenon
    <2> QED
      BY <2>1, <2>2, <2>3, Zenon
  <1> QED
    BY <1>3, <1>4, <1>6, <1>7, <1>8, Zenon DEF HeldBy

\* A dialog that may be pushed.
LEMMA PushScreen ==
    ASSUME Counting, NEW a, NEW v, NEW ins, NEW cat, NEW out, Screen(a, ins, cat, out),
           Welcome(a, v, ins, cat, out)
    PROVE  Screen(pushView(a, v), ins, cat, out)
  <1> DEFINE b == pushView(a, v)
  <1>1. v \in View /\ v \notin {Root, Splash, None} /\ StackInv(a)
    BY Zenon DEF Screen, Welcome
  <1>2. StackInv(b) /\ Pushes(a, b, v)
    BY <1>1, PushKeeps, Zenon
  <1>3. ShowOf(v, "unblock").cb = "unblock" /\ ShowOf(v, "unblock").kind = "show"
    BY DEF ShowOf
  <1> HIDE DEF b
  <1>4. \A x \in Tweens(b) : x \in Tweens(a) \/ (x.cb \notin Writes /\ x.kind # "hide")
    <2>1. "unblock" \notin Writes
      BY Differ, Zenon
    <2>2. "show" # "hide"
      OBVIOUS
    <2> QED
      BY <1>2, <1>3, <2>1, <2>2, Zenon DEF Pushes
  <1>5. Pending(b, ins, cat, out)
    BY <1>4, PendingFewer, Zenon DEF Screen
  <1>6. ASSUME ~Leaked(b)
        PROVE  Reached(b, ins, cat, out)
    <2>1. /\ ~Leaked(a) /\ Reached(a, ins, cat, out)
          /\ b.stack = Append(a.stack, v) /\ Foci(b) = Append(Foci(a), v) /\ Hiding(b) = Hiding(a)
      BY <1>2, <1>6, Zenon DEF Pushes, Screen
    <2>2. a \in AppRecord /\ b \in AppRecord
      BY <1>1, <1>2, Zenon DEF StackInv, Sane
    <2>3. Foci(a) \in Seq(View) /\ Len(Foci(a)) \in Nat
      BY <2>2, FociTyped, Zenon
    <2>4. /\ Len(Foci(b)) = Len(Foci(a)) + 1 /\ Foci(b)[Len(Foci(a)) + 1] = v
          /\ \A i \in 1 .. Len(Foci(a)) : Foci(b)[i] = Foci(a)[i]
      BY <1>1, <2>1, <2>3
    <2>5. ASSUME NEW t \in Tabs, ins[t]
          PROVE  HeldBy(b, t) /\ \A x \in Tweens(b) : x.kind = "hide" => x.view # Progress(t)
      <3>1. v # Progress(t) /\ v \notin Asks /\ HeldBy(a, t)
        BY <2>1, <2>5, Zenon DEF Welcome, Reached
      <3>2. HeldBy(b, t)
        BY <1>1, <2>1, <2>2, <3>1, HeldBelow, Zenon
      <3>3. \A x \in Tweens(b) : x.kind = "hide" => x.view # Progress(t)
        BY <1>4, <2>1, <2>5, Zenon DEF Reached
      <3> QED
        BY <3>2, <3>3, Zenon
    <2>6. ASSUME NEW l \in 1 .. Len(Foci(b))
          PROVE  /\ \A t \in Tabs : Foci(b)[l] = Confirm(t) => cat[t] = "listed"
                 /\ Foci(b)[l] = Daybreak =>
                      /\ Awaits(b, Daybreak, l) /\ Unpacked(ins, out)
                      /\ \A t \in Tabs : ~ins[t]
                      /\ \A x \in Tweens(b) : x.cb \notin Writes
      <3>1. l \in 1 .. Len(Foci(a)) \/ l = Len(Foci(a)) + 1
        BY <2>3, <2>4
      <3>2. CASE l = Len(Foci(a)) + 1
        <4>1. Foci(b)[l] = v /\ l + 1 .. Len(Foci(b)) = {}
          BY <2>3, <2>4, <3>2
        <4>2. Foci(b)[l] = Daybreak => Awaits(b, Daybreak, l)
          BY <4>1, Zenon DEF Awaits
        <4> QED
          BY <1>4, <4>1, <4>2, Zenon DEF Welcome
      <3>3. CASE l \in 1 .. Len(Foci(a))
        <4>1. Foci(b)[l] = Foci(a)[l]
          BY <2>4, <3>3, Zenon
        <4>2. ASSUME Foci(a)[l] = Daybreak
              PROVE  Awaits(b, Daybreak, l)
          <5>1. v \notin Asks /\ Awaits(a, Daybreak, l)
            BY <2>1, <3>3, <4>2, Zenon DEF Reached, Welcome
          <5>2. \A k \in l + 1 .. Len(Foci(b)) :
                   k = Len(Foci(a)) + 1 \/ (k \in l + 1 .. Len(Foci(a)) /\ k \in 1 .. Len(Foci(a)))
            <6>1. \A n, m \in Nat : \A k \in m + 1 .. n + 1 :
                     k = n + 1 \/ (k \in m + 1 .. n /\ k \in 1 .. n)
              OBVIOUS
            <6>2. l \in Nat
              BY <2>3, <3>3
            <6> QED
              BY <2>3, <2>4, <6>1, <6>2, Zenon
          <5>3. ASSUME NEW k \in l + 1 .. Len(Foci(b))
                PROVE  Foci(b)[k] \notin Asks
            BY <2>4, <5>1, <5>2, Zenon DEF Awaits
          <5> QED
            BY <4>1, <4>2, <5>3, Zenon DEF Awaits
        <4>3. /\ \A t \in Tabs : Foci(a)[l] = Confirm(t) => cat[t] = "listed"
              /\ Foci(a)[l] = Daybreak =>
                   /\ Unpacked(ins, out) /\ \A t \in Tabs : ~ins[t]
                   /\ \A x \in Tweens(a) : x.cb \notin Writes
          BY <2>1, <3>3, Zenon DEF Reached
        <4> QED
          BY <1>4, <4>1, <4>2, <4>3, Zenon
      <3> QED
        BY <3>1, <3>2, <3>3, Zenon
    <2> QED
      BY <2>5, <2>6, Zenon DEF Reached
  <1> QED
    BY <1>2, <1>5, <1>6, Zenon DEF Screen, b

\* A sequence begins itself, and so does what is left of it.
LEMMA BeginsBelow ==
    ASSUME NEW S, NEW s \in Seq(S)
    PROVE  /\ Begins(s, s)
           /\ s # <<>> => Begins(Below(s), s) /\ Len(Below(s)) = Len(s) - 1
           /\ \A x \in S : Begins(s, Append(s, x)) /\ Len(Append(s, x)) = Len(s) + 1
  <1>1. Len(s) \in Nat /\ (s # <<>> => Len(Below(s)) = Len(s) - 1)
    BY EndOfSequence, Zenon
  <1>2. Begins(s, s)
    BY <1>1 DEF Begins
  <1>3. ASSUME s # <<>>
        PROVE  Begins(Below(s), s)
    <2>1. \A i \in 1 .. Len(s) - 1 : Below(s)[i] = s[i]
      BY <1>3, EndOfSequence, Zenon
    <2>2. Len(s) - 1 <= Len(s)
      BY <1>1
    <2> QED
      BY <1>1, <1>3, <2>1, <2>2, Zenon DEF Begins
  <1>4. ASSUME NEW x \in S
        PROVE  Begins(s, Append(s, x)) /\ Len(Append(s, x)) = Len(s) + 1
    BY <1>1 DEF Begins
  <1> QED
    BY <1>1, <1>2, <1>3, <1>4, ZenonT(30)

\* The focus is taken from view v.
LEMMA FocusTaken ==
    ASSUME NEW a \in AppRecord, NEW v, NEW s,
           s = IF a.focus = v THEN a.focusStack ELSE Foci(a)
    PROVE  /\ Begins(s, Foci(a)) /\ Len(s) \in Nat
           /\ \A i \in Len(s) + 1 .. Len(Foci(a)) : Foci(a)[i] = v
  <1>1. /\ Foci(a) \in Seq(View) /\ Len(Foci(a)) \in Nat
        /\ a.focusStack \in Seq(View) /\ a.focus \in View
    BY TweensTyped, FociTyped, Zenon
  <1>2. CASE s = Foci(a)
    <2>1. Begins(Foci(a), Foci(a))
      BY <1>1, BeginsBelow, Zenon
    <2>2. Len(Foci(a)) + 1 .. Len(Foci(a)) = {}
      BY <1>1
    <2> QED
      BY <1>1, <1>2, <2>1, <2>2, Zenon
  <1>3. CASE a.focus = v /\ a.focus # None
    <2>1. s = a.focusStack /\ Foci(a) = Append(a.focusStack, a.focus)
      BY <1>3, Zenon DEF Foci
    <2>2. /\ Begins(a.focusStack, Append(a.focusStack, a.focus))
          /\ Len(Append(a.focusStack, a.focus)) = Len(a.focusStack) + 1
      BY <1>1, BeginsBelow, Zenon
    <2>3. /\ Append(a.focusStack, a.focus)[Len(a.focusStack) + 1] = a.focus
          /\ Len(a.focusStack) \in Nat
      BY <1>1
    <2>4. \A n \in Nat : \A i \in n + 1 .. n + 1 : i = n + 1
      OBVIOUS
    <2>5. \A i \in Len(s) + 1 .. Len(Foci(a)) : i = Len(a.focusStack) + 1
      BY <2>1, <2>2, <2>3, <2>4, Zenon
    <2> QED
      BY <1>3, <2>1, <2>2, <2>3, <2>5, Zenon
  <1>4. a.focus = v /\ a.focus = None => s = Foci(a)
    BY Zenon DEF Foci
  <1> QED
    BY <1>2, <1>3, <1>4, Zenon

\* A tween ends, and the stack stays what it was.
LEMMA EndScreen ==
    ASSUME NEW b, NEW ins, NEW cat, NEW out, Screen(app, ins, cat, out), StackInv(b), Ends(b)
    PROVE  Screen(b, ins, cat, out)
  <1>1. Tweens(b) \subseteq Tweens(app)
    BY Zenon DEF Ends
  <1>2. Pending(b, ins, cat, out)
    BY <1>1, PendingFewer, Zenon DEF Screen
  <1>3. ASSUME ~Leaked(b)
        PROVE  /\ ~Leaked(app) /\ Begins(Foci(b), Foci(app))
               /\ \A t \in Tabs : ins[t] =>
                    HeldBy(b, t) /\ \A x \in Tweens(b) : x.kind = "hide" => x.view # Progress(t)
               /\ \A l \in 1 .. Len(Foci(b)) :
                    Foci(b)[l] = Daybreak => \A x \in Tweens(b) : x.cb \notin Writes
    <2>1. /\ ~Leaked(app) /\ Reached(app, ins, cat, out)
          /\ Foci(b) = Foci(app) /\ b.stack = app.stack /\ Hiding(b) = Hiding(app)
      BY <1>3, Zenon DEF Ends, Screen
    <2>2. Begins(Foci(b), Foci(app))
      BY <2>1, FociTyped, BeginsBelow, Zenon DEF Screen, StackInv, Sane
    <2>3. \A t \in Tabs : HeldBy(app, t) => HeldBy(b, t)
      BY <2>1, Zenon DEF HeldBy, Awaits
    <2> QED
      BY <1>1, <2>1, <2>2, <2>3, Zenon DEF Reached
  <1> QED
    BY <1>2, <1>3, Receding, Zenon

\* popView's tween ends.
LEMMA UncoverScreen ==
    ASSUME NEW b, NEW ins, NEW cat, NEW out, Screen(app, ins, cat, out), StackInv(b), Uncovers(b),
           Ending \in Tweens(app), Ending.kind = "hide"
    PROVE  Screen(b, ins, cat, out)
  <1>1. PICK w : Tweens(b) \subseteq (Tweens(app) \ {Ending}) \cup {ShowOf(w, Ending.cb)}
    BY Zenon DEF Uncovers
  <1>2. ShowOf(w, Ending.cb).cb = Ending.cb /\ ShowOf(w, Ending.cb).kind = "show"
    BY DEF ShowOf
  <1>3. \A x \in Tweens(b) : \E y \in Tweens(app) : x.cb = y.cb
    BY <1>1, <1>2, Zenon
  <1>4. Pending(app, ins, cat, out)
    BY Zenon DEF Screen
  <1>5. Pending(b, ins, cat, out)
    <2>1. ASSUME NEW x \in Tweens(b), x.cb \in Writes
          PROVE  (\A y \in Tweens(b) : y.cb \in Writes => x = y) /\ \A t \in Tabs : ~ins[t]
      <3>1. \A t \in Tabs : ~ins[t]
        BY <1>3, <1>4, <2>1, Zenon DEF Pending
      <3>2. ASSUME NEW y \in Tweens(b), y.cb \in Writes
            PROVE  x = y
        <4>1. CASE x \in Tweens(app) \ {Ending} /\ y \in Tweens(app) \ {Ending}
          BY <1>4, <2>1, <3>2, <4>1, Zenon DEF Pending
        <4>2. CASE x = ShowOf(w, Ending.cb) /\ y = ShowOf(w, Ending.cb)
          BY <4>2, Zenon
        <4>3. CASE x \in Tweens(app) \ {Ending} /\ y = ShowOf(w, Ending.cb)
          <5>1. Ending.cb \in Writes
            BY <1>2, <3>2, <4>3, Zenon
          <5> QED
            BY <1>4, <2>1, <4>3, <5>1, Zenon DEF Pending
        <4>4. CASE y \in Tweens(app) \ {Ending} /\ x = ShowOf(w, Ending.cb)
          <5>1. Ending.cb \in Writes
            BY <1>2, <2>1, <4>4, Zenon
          <5> QED
            BY <1>4, <3>2, <4>4, <5>1, Zenon DEF Pending
        <4> QED
          BY <1>1, <4>1, <4>2, <4>3, <4>4, Zenon
      <3> QED
        BY <3>1, <3>2, Zenon
    <2>2. \A x \in Tweens(b), t \in Tabs : x.cb = Installs(t) => cat[t] = "listed"
      BY <1>3, <1>4, ZenonT(30) DEF Pending
    <2>3. \A x \in Tweens(b) : x.cb = "daybreak" => Unpacked(ins, out)
      BY <1>3, <1>4, Zenon DEF Pending
    <2> QED
      BY <2>1, <2>2, <2>3, Zenon DEF Pending
  <1>6. ASSUME ~Leaked(b)
        PROVE  /\ ~Leaked(app) /\ Begins(Foci(b), Foci(app))
               /\ \A t \in Tabs : ins[t] =>
                    HeldBy(b, t) /\ \A x \in Tweens(b) : x.kind = "hide" => x.view # Progress(t)
               /\ \A l \in 1 .. Len(Foci(b)) :
                    Foci(b)[l] = Daybreak => \A x \in Tweens(b) : x.cb \notin Writes
    <2>1. /\ ~Leaked(app) /\ Reached(app, ins, cat, out) /\ Calm(app)
          /\ b.stack = Below(app.stack) /\ Hiding(app) = 1 /\ Hiding(b) = 0
          /\ Foci(b) = IF app.focus = Ending.view THEN app.focusStack ELSE Foci(app)
      BY <1>6, Zenon DEF Uncovers, Screen
    <2>2. app \in AppRecord /\ b \in AppRecord
      BY Zenon DEF Screen, StackInv, Sane
    <2>3. /\ app.stack \in Seq(View) /\ Foci(app) \in Seq(View) /\ Len(Foci(app)) \in Nat
          /\ app.focusStack \in Seq(View) /\ app.focus \in View
      BY <2>2, TweensTyped, FociTyped, Zenon
    <2>4. Begins(b.stack, app.stack) /\ Len(b.stack) = Len(app.stack) - 1 /\ Len(app.stack) \in Nat
      <3>1. app.stack # <<>>
        BY <2>1, Zenon DEF Calm, Rooted
      <3> QED
        BY <2>1, <2>3, <3>1, BeginsBelow, EndOfSequence, Zenon
    <2>5. /\ Begins(Foci(b), Foci(app)) /\ Len(Foci(b)) \in Nat
          /\ \A i \in Len(Foci(b)) + 1 .. Len(Foci(app)) : Foci(app)[i] = Ending.view
      BY <2>1, <2>2, FocusTaken, ZenonT(30)
    <2>6. Len(b.stack) - Hiding(b) - Len(Foci(b)) >= Len(app.stack) - Hiding(app) - Len(Foci(app))
      <3>1. Len(Foci(b)) <= Len(Foci(app))
        BY <2>5, Zenon DEF Begins
      <3> QED
        BY <2>1, <2>3, <2>4, <2>5, <3>1
    <2>7. ASSUME NEW t \in Tabs, ins[t]
          PROVE  HeldBy(b, t) /\ \A x \in Tweens(b) : x.kind = "hide" => x.view # Progress(t)
      <3>1. HeldBy(app, t) /\ \A x \in Tweens(app) : x.kind = "hide" => x.view # Progress(t)
        BY <2>1, <2>7, Zenon DEF Reached
      <3>2. \A i \in Len(Foci(b)) + 1 .. Len(Foci(app)) : Foci(app)[i] # Progress(t)
        BY <2>5, <3>1, Zenon
      <3>3. HeldBy(b, t)
        BY <2>2, <2>4, <2>5, <2>6, <3>1, <3>2, HeldOn, Zenon
      <3>4. "show" # "hide"
        OBVIOUS
      <3> QED
        BY <1>1, <1>2, <3>1, <3>3, <3>4, Zenon
    <2>8. ASSUME NEW l \in 1 .. Len(Foci(b)), Foci(b)[l] = Daybreak
          PROVE  \A x \in Tweens(b) : x.cb \notin Writes
      <3>1. l \in 1 .. Len(Foci(app)) /\ Foci(app)[l] = Daybreak
        <4>1. Len(Foci(b)) <= Len(Foci(app)) /\ Foci(b)[l] = Foci(app)[l]
          BY <2>5, Zenon DEF Begins
        <4> QED
          BY <2>3, <2>5, <2>8, <4>1
      <3> QED
        BY <1>3, <2>1, <3>1, Zenon DEF Reached
    <2> QED
      BY <2>1, <2>5, <2>7, <2>8, Zenon
  <1> QED
    BY <1>5, <1>6, Receding, Zenon

\* A view that has the focus after views were taken off had it before.
LEMMA WithinBeginning ==
    ASSUME NEW a, NEW b, StackInv(a), StackInv(b), Begins(Foci(b), Foci(a)),
           NEW l \in 1 .. Len(Foci(b))
    PROVE  l \in 1 .. Len(Foci(a)) /\ Foci(b)[l] = Foci(a)[l]
  <1>1. Len(Foci(b)) <= Len(Foci(a)) /\ Foci(b)[l] = Foci(a)[l]
    BY Zenon DEF Begins
  <1>2. Len(Foci(b)) \in Nat /\ Len(Foci(a)) \in Nat
    BY FociTyped, Zenon DEF StackInv, Sane
  <1>3. \A n, m \in Nat : n <= m => \A i \in 1 .. n : i \in 1 .. m
    OBVIOUS
  <1> QED
    BY <1>1, <1>2, <1>3, Zenon

\* The stack when a callback is reached.
Called(b) ==
    /\ Tweens(b) = Tweens(app) \ {Ending}
    /\ Leaked(app) <=> Leaked(b)
    /\ ~Leaked(b) => Begins(Foci(b), Foci(app)) /\ \A x \in Tweens(b) : ~Leaves(x)

\* Nothing that was on the screen is lost when a callback is reached.
LEMMA CallbackScreen ==
    ASSUME Counting, NEW ins, NEW cat, NEW out, Screen(app, ins, cat, out),
           NEW cb, cb # "unblock", Due(cb)
    PROVE  /\ Screen(AtCallback, ins, cat, out) /\ Called(AtCallback)
           /\ Ending \in Tweens(app) /\ Ending.cb = cb /\ Leaves(Ending)
  <1>1. StackInv(app) /\ Sane(app) /\ app \in AppRecord
    BY Zenon DEF Screen, StackInv, Sane
  <1>2. app.anims # <<>> /\ Ending.cb = cb /\ Leaves(Ending)
    BY Zenon DEF Due, Leaves
  <1>3. Ending \in Tweens(app)
    <2>1. app.anims \in Seq(Tween)
      BY <1>1, TweensTyped, Zenon
    <2>2. Head(app.anims) = app.anims[1] /\ 1 \in 1 .. Len(app.anims)
      BY <1>2, <2>1
    <2> QED
      BY <2>2, Zenon DEF Ending, Tweens
  <1>4. Ending.kind \in {"show", "hide"}
    BY <1>1, <1>3, TweensTyped, Zenon
  <1>5. CASE Ending.kind = "hide"
    <2>1. StackInv(Popped) /\ Drops(Popped)
      BY <1>1, <1>2, <1>5, DropKeeps, Zenon
    <2>2. Uncovers(Popped)
      BY <2>1, Zenon DEF Drops, Uncovers
    <2>3. Screen(Popped, ins, cat, out)
      BY <1>3, <1>5, <2>1, <2>2, UncoverScreen, Zenon
    <2>4. Called(Popped)
      <3>1. ASSUME ~Leaked(Popped)
            PROVE  Begins(Foci(Popped), Foci(app))
        <4>1. Foci(Popped) = IF app.focus = Ending.view THEN app.focusStack ELSE Foci(app)
          BY <2>1, <3>1, Zenon DEF Drops
        <4> QED
          BY <1>1, <4>1, FocusTaken, Zenon
      <3> QED
        BY <2>1, <3>1, Zenon DEF Drops, Called
    <2> QED
      BY <1>2, <1>3, <1>5, <2>3, <2>4, Zenon DEF AtCallback
  <1>6. CASE Ending.kind = "show"
    <2>1. StackInv(Dequeued) /\ Ends(Dequeued)
      BY <1>1, <1>2, <1>6, DequeueKeeps, Zenon
    <2>2. Screen(Dequeued, ins, cat, out)
      BY <2>1, EndScreen, Zenon
    <2>3. Called(Dequeued)
      <3>1. Begins(Foci(app), Foci(app))
        BY <1>1, FociTyped, BeginsBelow, Zenon
      <3> QED
        BY <1>2, <2>1, <3>1, Zenon DEF Ends, Called
    <2>4. Ending.kind # "hide"
      BY <1>6
    <2> QED
      BY <1>2, <1>3, <2>2, <2>3, <2>4, Zenon DEF AtCallback
  <1> QED
    BY <1>4, <1>5, <1>6, Zenon

\* A callback that writes is the only one, and no install runs.
LEMMA WritesDue ==
    ASSUME Counting, NEW ins, NEW cat, NEW out, Screen(app, ins, cat, out),
           NEW cb \in Writes, Due(cb)
    PROVE  /\ \A t \in Tabs : ~ins[t] /\ (cb = Installs(t) => cat[t] = "listed")
           /\ cb = "daybreak" => Unpacked(ins, out)
           /\ \A x \in Tweens(AtCallback) : x.cb \notin Writes
           /\ ~Leaked(AtCallback) =>
                \A l \in 1 .. Len(Foci(AtCallback)) : Foci(AtCallback)[l] # Daybreak
  <1>1. cb # "unblock"
    BY Differ, Zenon
  <1>2. /\ Screen(AtCallback, ins, cat, out) /\ Called(AtCallback)
        /\ Ending \in Tweens(app) /\ Ending.cb = cb
    BY <1>1, CallbackScreen, Zenon
  <1>3. Pending(app, ins, cat, out)
    BY Zenon DEF Screen
  <1>4. /\ \A t \in Tabs : ~ins[t] /\ (cb = Installs(t) => cat[t] = "listed")
        /\ cb = "daybreak" => Unpacked(ins, out)
    BY <1>2, <1>3, Zenon DEF Pending
  <1>5. \A x \in Tweens(AtCallback) : x.cb \notin Writes
    <2>1. \A x \in Tweens(AtCallback) : x \in Tweens(app) /\ x # Ending
      BY <1>2, Zenon DEF Called
    <2> QED
      BY <1>2, <1>3, <2>1, Zenon DEF Pending
  <1>6. ASSUME ~Leaked(AtCallback), NEW l \in 1 .. Len(Foci(AtCallback)),
               Foci(AtCallback)[l] = Daybreak
        PROVE  FALSE
    <2>1. ~Leaked(app) /\ Begins(Foci(AtCallback), Foci(app))
      BY <1>2, <1>6, Zenon DEF Called
    <2>2. Foci(app)[l] = Daybreak /\ l \in 1 .. Len(Foci(app))
      BY <1>2, <1>6, <2>1, WithinBeginning, Zenon DEF Screen
    <2>3. Reached(app, ins, cat, out)
      BY <2>1, Zenon DEF Screen
    <2> QED
      BY <1>2, <2>2, <2>3, Zenon DEF Reached
  <1> QED
    BY <1>4, <1>5, <1>6, Zenon

\* The ends of tweens that call nothing back.
LEMMA SettleScreen ==
    ASSUME Counting, NEW ins, NEW cat, NEW out, Screen(app, ins, cat, out), Settle
    PROVE  Screen(app', ins, cat, out)
  <1>1. StackInv(app) /\ app \in AppRecord /\ app.anims # <<>>
    BY Zenon DEF Screen, StackInv, Sane, Settle
  <1>2. CASE Ending.kind = "show" /\ Ending.cb = "unblock" /\ app' = unblockInputs(Dequeued)
    BY <1>1, <1>2, UnblockKeeps, EndScreen, Zenon
  <1>3. CASE Due("none") /\ app' = AtCallback
    <2>1. "none" # "unblock"
      OBVIOUS
    <2> QED
      BY <1>3, <2>1, CallbackScreen, Zenon
  <1>4. CASE Ending.kind = "hide" /\ app' = Uncovered
    <2>1. Ending \in Tweens(app)
      <3>1. app.anims \in Seq(Tween)
        BY <1>1, TweensTyped, Zenon
      <3>2. Head(app.anims) = app.anims[1] /\ 1 \in 1 .. Len(app.anims)
        BY <1>1, <3>1
      <3> QED
        BY <3>2, Zenon DEF Ending, Tweens
    <2> QED
      BY <1>1, <1>4, <2>1, UncoverKeeps, UncoverScreen, Zenon
  <1> QED
    BY <1>2, <1>3, <1>4, Zenon DEF Settle

\* Whatever popView is called for, it uncovers no view that was not below.
LEMMA AnyPop ==
    ASSUME Counting, NEW a, StackInv(a), NEW cb \in Callback, cb # "unblock"
    PROVE  /\ StackInv(popView(a, cb))
           /\ \A x \in Tweens(popView(a, cb)) : x \in Tweens(a) \/ x.cb = cb
           /\ Leaked(a) => Leaked(popView(a, cb))
           /\ ~Leaked(popView(a, cb)) => Begins(Foci(popView(a, cb)), Foci(a))
  <1> DEFINE b == popView(a, cb)
  <1>1. a \in AppRecord /\ Foci(a) \in Seq(View) /\ a.stack \in Seq(View) /\ Len(a.stack) \in Nat
    BY FociTyped, TweensTyped, EndOfSequence, Zenon DEF StackInv, Sane
  <1>2. Begins(Foci(a), Foci(a))
    BY <1>1, BeginsBelow, Zenon
  <1>3. CASE Len(a.stack) <= 1
    <2>1. b = a
      BY <1>3, Zenon DEF popView
    <2> QED
      BY <1>2, <2>1, Zenon
  <1>4. CASE Len(a.stack) > 1
    <2>1. StackInv(b) /\ Pops(a, b, cb)
      BY <1>4, PopKeeps, Zenon
    <2>2. HideOf(Top(a.stack), cb).cb = cb
      BY DEF HideOf
    <2>3. ASSUME ~Leaked(b)
          PROVE  Begins(Foci(b), Foci(a))
      <3>1. Calm(a) /\ Foci(b) \in {Foci(a), Below(Foci(a))}
        BY <2>1, <2>3, Zenon DEF Pops
      <3>2. Foci(a) # <<>>
        BY <3>1, Zenon DEF Calm, Rooted
      <3> QED
        BY <1>1, <1>2, <3>1, <3>2, BeginsBelow, Zenon
    <2> QED
      BY <2>1, <2>2, <2>3, Zenon DEF Pops
  <1>5. Len(a.stack) <= 1 \/ Len(a.stack) > 1
    BY <1>1
  <1> QED
    BY <1>3, <1>4, <1>5, Zenon

\* popView with no install running, and with nothing to write afterwards.
LEMMA QuietPop ==
    ASSUME Counting, NEW a, NEW ins, NEW cat, NEW out, Screen(a, ins, cat, out),
           NEW cb \in Callback, cb # "unblock", cb \notin Writes, \A t \in Tabs : ~ins[t]
    PROVE  Screen(popView(a, cb), ins, cat, out)
  <1> DEFINE b == popView(a, cb)
  <1>1. StackInv(a)
    BY Zenon DEF Screen
  <1>2. /\ StackInv(b)
        /\ \A x \in Tweens(b) : x \in Tweens(a) \/ x.cb = cb
        /\ Leaked(a) => Leaked(b)
        /\ ~Leaked(b) => Begins(Foci(b), Foci(a))
    BY <1>1, AnyPop, Zenon
  <1> HIDE DEF b
  <1>3. \A x \in Tweens(b) : x \in Tweens(a) \/ x.cb \notin Writes
    BY <1>2, Zenon
  <1>4. Pending(b, ins, cat, out)
    BY <1>3, PendingFewer, Zenon DEF Screen
  <1>5. ASSUME ~Leaked(b), NEW l \in 1 .. Len(Foci(b)), Foci(b)[l] = Daybreak
        PROVE  \A x \in Tweens(b) : x.cb \notin Writes
    <2>1. Begins(Foci(b), Foci(a)) /\ Reached(a, ins, cat, out)
      BY <1>2, <1>5, Zenon DEF Screen
    <2>2. Foci(a)[l] = Daybreak /\ l \in 1 .. Len(Foci(a))
      BY <1>1, <1>2, <1>5, <2>1, WithinBeginning, Zenon
    <2> QED
      BY <1>3, <2>1, <2>2, Zenon DEF Reached
  <1>6. Screen(b, ins, cat, out)
    BY <1>2, <1>4, <1>5, Receding, Zenon
  <1> QED
    BY <1>6, Zenon DEF b

\* Fewer installs run, more catalogues are listed, and the firmware stays.
LEMMA ScreenStays ==
    ASSUME NEW a, NEW ins, NEW cat, NEW out, NEW ins2, NEW cat2, NEW out2,
           \A t \in Tabs : ins2[t] => ins[t],
           \A t \in Tabs : cat[t] = "listed" => cat2[t] = "listed",
           Unpacked(ins, out) => Unpacked(ins2, out2)
    PROVE  /\ Pending(a, ins, cat, out) => Pending(a, ins2, cat2, out2)
           /\ Screen(a, ins, cat, out) => Screen(a, ins2, cat2, out2)
  <1>1. ASSUME Pending(a, ins, cat, out)
        PROVE  Pending(a, ins2, cat2, out2)
    BY <1>1, Zenon DEF Pending
  <1>2. ASSUME Reached(a, ins, cat, out)
        PROVE  Reached(a, ins2, cat2, out2)
    <2>1. ASSUME NEW t \in Tabs, ins2[t]
          PROVE  HeldBy(a, t) /\ \A x \in Tweens(a) : x.kind = "hide" => x.view # Progress(t)
      BY <1>2, <2>1, Zenon DEF Reached
    <2>2. ASSUME NEW l \in 1 .. Len(Foci(a))
          PROVE  /\ \A t \in Tabs : Foci(a)[l] = Confirm(t) => cat2[t] = "listed"
                 /\ Foci(a)[l] = Daybreak =>
                      /\ Awaits(a, Daybreak, l) /\ Unpacked(ins2, out2)
                      /\ \A t \in Tabs : ~ins2[t]
                      /\ \A x \in Tweens(a) : x.cb \notin Writes
      BY <1>2, Zenon DEF Reached
    <2> QED
      BY <2>1, <2>2, Zenon DEF Reached
  <1> QED
    BY <1>1, <1>2, Zenon DEF Screen

\* With the focus on the sidebar nothing is on top of the root view.
LEMMA OnlyRoot ==
    ASSUME Counting, NEW a, NEW ins, NEW cat, NEW out, Screen(a, ins, cat, out),
           a.tokens = 0, a.focus = Root
    PROVE  /\ \A t \in Tabs : ~ins[t]
           /\ ~Leaked(a) /\ \A l \in 1 .. Len(Foci(a)) : Foci(a)[l] = Root
  <1>1. Calm(a) /\ a \in AppRecord
    BY NoTokens, Zenon DEF Screen, StackInv, Sane
  <1>2. a.focusStack \in Seq(View) /\ Rooted(Foci(a)) /\ Root # None
    BY <1>1, TweensTyped DEF Calm, Root, None
  <1>3. Foci(a) = Append(a.focusStack, Root)
    BY <1>2, Zenon DEF Foci
  <1>4. \A l \in 1 .. Len(Foci(a)) : Foci(a)[l] = Root
    <2>1. Len(Foci(a)) = Len(a.focusStack) + 1 /\ Len(a.focusStack) \in Nat
      BY <1>2, <1>3
    <2>2. Foci(a)[Len(a.focusStack) + 1] = Root
      BY <1>2, <1>3
    <2>3. Len(a.focusStack) + 1 \notin 2 .. Len(Foci(a))
      BY <1>2, <2>2, Zenon DEF Rooted
    <2>4. \A l \in 1 .. Len(Foci(a)) : l = Len(a.focusStack) + 1
      BY <2>1, <2>3
    <2> QED
      BY <2>2, <2>4, Zenon
  <1>5. ASSUME NEW t \in Tabs, ins[t]
        PROVE  FALSE
    <2>1. HeldBy(a, t)
      BY <1>1, <1>5, Zenon DEF Calm, Screen, Reached
    <2>2. PICK l \in 1 .. Len(Foci(a)) : Foci(a)[l] = Progress(t)
      BY <2>1, Zenon DEF HeldBy, Awaits
    <2> QED
      BY <1>4, <2>2, Differ, Zenon
  <1> QED
    BY <1>1, <1>4, <1>5, Zenon DEF Calm

\* A dialog v, not one of an install, is closed by its button, and what it was
\* asking for is called back.
LEMMA PressScreen ==
    ASSUME Counting, NEW a, NEW ins, NEW cat, NEW out, Screen(a, ins, cat, out),
           NEW v \in View \ {None}, a.tokens = 0, a.focus = v, \A t \in Tabs : v # Progress(t),
           NEW cb \in Callback, cb # "unblock",
           cb \in Writes =>
             /\ v \in Asks
             /\ \A t \in Tabs : cb = Installs(t) => v = Confirm(t)
             /\ cb = "daybreak" => v = Daybreak
    PROVE  Screen(popView(a, cb), ins, cat, out)
  <1> DEFINE b == popView(a, cb)
             F == Len(Foci(a))
             S == Len(a.stack)
             x == HideOf(Top(a.stack), cb)
  <1>1. /\ StackInv(a) /\ a \in AppRecord /\ Calm(a) /\ ~Leaked(a) /\ Reached(a, ins, cat, out)
        /\ \A y \in Tweens(a) : y.kind = "show"
        /\ \A y \in Tweens(a) : Leaves(y) => y.view = Top(a.stack)
    <2>1. StackInv(a)
      BY Zenon DEF Screen
    <2>2. /\ Calm(a) /\ \A y \in Tweens(a) : y.kind = "show"
          /\ \A y \in Tweens(a) : Leaves(y) => y.view = Top(a.stack)
      BY <2>1, NoTokens, Zenon
    <2> QED
      BY <2>1, <2>2, Zenon DEF Screen, Calm, StackInv, Sane
  <1>2. /\ Foci(a) \in Seq(View) /\ a.stack \in Seq(View) /\ a.focusStack \in Seq(View)
        /\ F \in Nat /\ S \in Nat
    BY <1>1, FociTyped, TweensTyped, EndOfSequence, Zenon
  <1>3. Foci(a) = Append(a.focusStack, v)
    BY Zenon DEF Foci
  <1>4. /\ F = Len(a.focusStack) + 1 /\ Foci(a)[F] = v /\ F \in 1 .. F /\ Foci(a) # <<>>
        /\ Len(a.focusStack) \in Nat
    BY <1>2, <1>3
  <1>5. \A l \in 1 .. F : l # F => F \in l + 1 .. F
    BY <1>2
  <1>6. S <= 1 \/ S > 1
    BY <1>2
  <1>7. CASE S <= 1
    <2>1. b = a
      BY <1>7, Zenon DEF popView
    <2> QED
      BY <2>1, Zenon
  <1>8. CASE S > 1
    <2>1. StackInv(b) /\ Pops(a, b, cb)
      BY <1>1, <1>8, PopKeeps, Zenon
    <2>2. x.cb = cb /\ x.kind = "hide" /\ x.view = Top(a.stack)
      BY DEF HideOf
    <2> HIDE DEF b, x
    <2>3. Tweens(b) = {y \in Tweens(a) : y.view # Top(a.stack)} \cup {x}
      BY <2>1, Zenon DEF Pops, x
    <2>4. \A y \in Tweens(b) : y = x \/ (y \in Tweens(a) /\ y.cb \notin Writes /\ y.kind # "hide")
      <3>1. "unblock" \notin Writes
        BY Differ, Zenon
      <3>2. "show" # "hide"
        OBVIOUS
      <3> QED
        BY <1>1, <2>3, <3>1, <3>2, Zenon DEF Leaves
    <2>5. ASSUME NEW l \in 1 .. F, Foci(a)[l] = Daybreak, cb \in Writes
          PROVE  l = F
      <3>1. Awaits(a, Daybreak, l)
        BY <1>1, <2>5, Zenon DEF Reached
      <3> QED
        BY <1>4, <1>5, <2>5, <3>1, Zenon DEF Awaits
    <2>6. ASSUME NEW t \in Tabs, ins[t]
          PROVE  /\ cb \notin Writes
                 /\ \E l \in 1 .. F :
                      /\ l # F /\ Foci(a)[l] = Progress(t)
                      /\ \A k \in 1 .. S : k + F > S - Hiding(a) + l => a.stack[k] # Progress(t)
      <3>1. PICK l \in 1 .. F :
               /\ Awaits(a, Progress(t), l)
               /\ \A k \in 1 .. S : k + F > S - Hiding(a) + l => a.stack[k] # Progress(t)
        BY <1>1, <2>6, Zenon DEF Reached, HeldBy
      <3>2. l # F /\ Foci(a)[l] = Progress(t)
        BY <1>4, <3>1, Zenon DEF Awaits
      <3>3. v \notin Asks
        BY <1>4, <1>5, <3>1, <3>2, Zenon DEF Awaits
      <3> QED
        BY <3>1, <3>2, <3>3, Zenon
    <2>7. Pending(b, ins, cat, out)
      <3>1. CASE cb \notin Writes
        BY <2>2, <2>4, <3>1, PendingFewer, Zenon DEF Screen
      <3>2. CASE cb \in Writes
        <4>1. \A y \in Tweens(b) : y.cb \in Writes => y = x
          BY <2>4, Zenon
        <4>2. \A t \in Tabs : ~ins[t]
          BY <2>6, <3>2, Zenon
        <4>3. \A t \in Tabs : cb = Installs(t) => cat[t] = "listed"
          BY <1>1, <1>4, <3>2, Zenon DEF Reached
        <4>4. cb = "daybreak" => Unpacked(ins, out)
          BY <1>1, <1>4, <3>2, Zenon DEF Reached
        <4>5. \A y \in Tweens(b), t \in Tabs : y.cb = Installs(t) => cat[t] = "listed"
          <5>1. \A t \in Tabs : Installs(t) \in Writes
            BY Differ, Zenon
          <5> QED
            BY <2>2, <4>1, <4>3, <5>1, Zenon
        <4>6. \A y \in Tweens(b) : y.cb = "daybreak" => Unpacked(ins, out)
          <5>1. "daybreak" \in Writes
            BY Differ, Zenon
          <5> QED
            BY <2>2, <4>1, <4>4, <5>1, Zenon
        <4> QED
          BY <4>1, <4>2, <4>5, <4>6, Zenon DEF Pending
      <3> QED
        BY <3>1, <3>2, Zenon
    <2>8. ASSUME ~Leaked(b)
          PROVE  /\ Begins(Foci(b), Foci(a))
                 /\ \A t \in Tabs : ins[t] =>
                      HeldBy(b, t) /\ \A y \in Tweens(b) : y.kind = "hide" => y.view # Progress(t)
                 /\ \A l \in 1 .. Len(Foci(b)) :
                      Foci(b)[l] = Daybreak => \A y \in Tweens(b) : y.cb \notin Writes
      <3>1. /\ Hiding(a) = 0 /\ Hiding(b) = 1 /\ b.stack = a.stack
            /\ Foci(b) = IF a.focusStack = <<>> THEN Foci(a) ELSE Below(Foci(a))
        BY <2>1, <2>8, Zenon DEF Pops
      <3>2. Begins(Foci(b), Foci(a))
        BY <1>2, <1>4, <3>1, BeginsBelow, Zenon
      <3>3. b \in AppRecord
        BY <2>1, Zenon DEF StackInv, Sane
      <3>4. ASSUME NEW t \in Tabs, ins[t]
            PROVE  HeldBy(b, t) /\ \A y \in Tweens(b) : y.kind = "hide" => y.view # Progress(t)
        <4>1. PICK l \in 1 .. F :
                 /\ l # F /\ Foci(a)[l] = Progress(t)
                 /\ \A k \in 1 .. S : k + F > S - Hiding(a) + l => a.stack[k] # Progress(t)
          BY <2>6, <3>4, Zenon
        <4>2. S \in 1 .. S /\ S + F > S - 0 + l /\ F > 1
          BY <1>2, <1>8, <4>1
        <4>3. Top(a.stack) # Progress(t)
          BY <3>1, <4>1, <4>2, Zenon DEF Top
        <4>4. \A y \in Tweens(b) : y.kind = "hide" => y.view # Progress(t)
          BY <2>2, <2>4, <4>3, Zenon
        <4>5. a.focusStack # <<>>
          BY <1>4, <4>2
        <4>6. Foci(b) = Below(Foci(a)) /\ Len(Foci(b)) = F - 1
          BY <1>2, <1>4, <3>1, <4>5, BeginsBelow, Zenon
        <4>7. Begins(b.stack, a.stack)
          BY <1>2, <3>1, BeginsBelow, Zenon
        <4>8. Len(b.stack) - Hiding(b) - Len(Foci(b)) >= Len(a.stack) - Hiding(a) - Len(Foci(a))
          <5>1. \A s, f \in Nat : s - 1 - (f - 1) >= s - 0 - f
            OBVIOUS
          <5> QED
            BY <1>2, <3>1, <4>6, <5>1, Zenon
        <4>9. \A i \in Len(Foci(b)) + 1 .. Len(Foci(a)) : Foci(a)[i] # Progress(t)
          <5>1. \A i \in Len(Foci(b)) + 1 .. F : i = F
            BY <1>2, <4>6
          <5> QED
            BY <1>4, <5>1, Zenon
        <4>10. HeldBy(a, t)
          BY <1>1, <3>4, Zenon DEF Reached
        <4>11. HeldBy(b, t)
          BY <1>1, <3>2, <3>3, <4>7, <4>8, <4>9, <4>10, HeldOn, Zenon
        <4> QED
          BY <4>4, <4>11, Zenon
      <3>5. ASSUME NEW l \in 1 .. Len(Foci(b)), Foci(b)[l] = Daybreak
            PROVE  \A y \in Tweens(b) : y.cb \notin Writes
        <4>1. l \in 1 .. F /\ Foci(a)[l] = Daybreak
          BY <1>1, <2>1, <3>2, <3>5, WithinBeginning, Zenon
        <4>2. CASE cb \notin Writes
          BY <2>2, <2>4, <4>2, Zenon
        <4>3. CASE cb \in Writes
          <5>1. l = F
            BY <2>5, <4>1, <4>3, Zenon
          <5>2. CASE a.focusStack # <<>>
            <6>1. Len(Foci(b)) = F - 1
              BY <1>2, <1>4, <3>1, <5>2, BeginsBelow, Zenon
            <6> QED
              BY <1>2, <5>1, <6>1
          <5>3. CASE a.focusStack = <<>>
            <6>1. F = 1
              BY <1>4, <5>3
            <6>2. Foci(a)[1] = Root
              BY <1>1, Zenon DEF Calm, Rooted
            <6>3. Root # Daybreak
              BY DEF Root, Daybreak
            <6> QED
              BY <4>1, <5>1, <6>1, <6>2, <6>3, Zenon
          <5> QED
            BY <5>2, <5>3, Zenon
        <4> QED
          BY <4>2, <4>3, Zenon
      <3> QED
        BY <3>2, <3>4, <3>5, Zenon
    <2>9. Screen(b, ins, cat, out)
      BY <1>1, <2>1, <2>7, <2>8, Receding, Zenon
    <2> QED
      BY <2>9, Zenon DEF b
  <1> QED
    BY <1>6, <1>7, <1>8, Zenon

\* startInstall puts its progress dialog on top of everything.
LEMMA StartScreen ==
    ASSUME Counting, NEW a, NEW ins, NEW cat, NEW out, Screen(a, ins, cat, out),
           NEW t \in Tabs, NEW ins2, NEW out2,
           \A u \in Tabs : ins2[u] => u = t,
           \A x \in Tweens(a) : x.cb \notin Writes,
           ~Leaked(a) =>
             /\ \A x \in Tweens(a) : ~Leaves(x)
             /\ \A l \in 1 .. Len(Foci(a)) : Foci(a)[l] # Daybreak
    PROVE  Screen(pushView(a, Progress(t)), ins2, cat, out2)
  <1> DEFINE v == Progress(t)
             b == pushView(a, v)
  <1>1. v \in View /\ v \notin {Root, Splash, None} /\ StackInv(a)
    <2>1. v \in View
      BY Zenon DEF View
    <2> QED
      BY <2>1, Differ, Zenon DEF Screen
  <1>2. StackInv(b) /\ Pushes(a, b, v)
    BY <1>1, PushKeeps, Zenon
  <1>3. ShowOf(v, "unblock").cb = "unblock" /\ ShowOf(v, "unblock").kind = "show"
    BY DEF ShowOf
  <1> HIDE DEF b
  <1>4. \A x \in Tweens(b) : x.cb \notin Writes
    <2>1. "unblock" \notin Writes
      BY Differ, Zenon
    <2> QED
      BY <1>2, <1>3, <2>1, Zenon DEF Pushes
  <1>5. Pending(b, ins2, cat, out2)
    <2>1. "daybreak" \in Writes /\ \A u \in Tabs : Installs(u) \in Writes
      BY Differ, Zenon
    <2> QED
      BY <1>4, <2>1, Zenon DEF Pending
  <1>6. ASSUME ~Leaked(b)
        PROVE  Reached(b, ins2, cat, out2)
    <2>1. /\ ~Leaked(a) /\ Reached(a, ins, cat, out)
          /\ b.stack = Append(a.stack, v) /\ Foci(b) = Append(Foci(a), v) /\ Hiding(b) = Hiding(a)
      BY <1>2, <1>6, Zenon DEF Pushes, Screen
    <2>2. a \in AppRecord
      BY <1>1, Zenon DEF StackInv, Sane
    <2>3. /\ Foci(a) \in Seq(View) /\ Len(Foci(a)) \in Nat
          /\ a.stack \in Seq(View) /\ Len(a.stack) \in Nat
      BY <2>2, FociTyped, TweensTyped, EndOfSequence, Zenon
    <2>4. /\ Len(Foci(b)) = Len(Foci(a)) + 1 /\ Foci(b)[Len(Foci(a)) + 1] = v
          /\ \A i \in 1 .. Len(Foci(a)) : Foci(b)[i] = Foci(a)[i]
      BY <1>1, <2>1, <2>3
    <2>5. Len(b.stack) = Len(a.stack) + 1
      BY <1>1, <2>1, <2>3
    <2>6. Hiding(b) = 0 /\ \A x \in Tweens(b) : x.kind # "hide"
      <3>1. \A x \in Tweens(a) : x.kind # "hide"
        BY <1>1, <2>1, Zenon DEF StackInv, Sane
      <3>2. Hiding(a) = 0
        BY <3>1, Zenon DEF Hiding
      <3>3. "show" # "hide"
        OBVIOUS
      <3> QED
        BY <1>2, <1>3, <2>1, <3>1, <3>2, <3>3, Zenon DEF Pushes
    <2>7. HeldBy(b, t)
      <3> DEFINE l == Len(Foci(a)) + 1
      <3>1. l \in 1 .. Len(Foci(b)) /\ l + 1 .. Len(Foci(b)) = {}
        BY <2>3, <2>4
      <3>2. Awaits(b, Progress(t), l)
        BY <2>4, <3>1, Zenon DEF Awaits
      <3>3. \A k \in 1 .. Len(b.stack) : ~(k + Len(Foci(b)) > Len(b.stack) - Hiding(b) + l)
        <4>1. \A f, s \in Nat : \A k \in 1 .. s + 1 : ~(k + (f + 1) > (s + 1) - 0 + (f + 1))
          OBVIOUS
        <4> QED
          BY <2>3, <2>4, <2>5, <2>6, <4>1, Zenon
      <3> QED
        BY <3>1, <3>2, <3>3, Zenon DEF HeldBy
    <2>8. ASSUME NEW l \in 1 .. Len(Foci(b))
          PROVE  /\ \A u \in Tabs : Foci(b)[l] = Confirm(u) => cat[u] = "listed"
                 /\ Foci(b)[l] # Daybreak
      <3>1. l \in 1 .. Len(Foci(a)) \/ l = Len(Foci(a)) + 1
        BY <2>3, <2>4
      <3>2. CASE l = Len(Foci(a)) + 1
        <4>1. Foci(b)[l] \notin Asks
          BY <2>4, <3>2, Differ, Zenon
        <4>2. Daybreak \in Asks /\ \A u \in Tabs : Confirm(u) \in Asks
          BY Zenon DEF Asks
        <4> QED
          BY <4>1, <4>2, Zenon
      <3>3. CASE l \in 1 .. Len(Foci(a))
        BY <2>1, <2>4, <3>3, Zenon DEF Reached
      <3> QED
        BY <3>1, <3>2, <3>3, Zenon
    <2>9. \A u \in Tabs : ins2[u] =>
             HeldBy(b, u) /\ \A x \in Tweens(b) : x.kind = "hide" => x.view # Progress(u)
      BY <2>6, <2>7, Zenon
    <2> QED
      BY <2>8, <2>9, Zenon DEF Reached
  <1> QED
    BY <1>2, <1>5, <1>6, Zenon DEF Screen, b
=============================================================================

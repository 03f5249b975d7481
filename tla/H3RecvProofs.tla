------------------------------ MODULE H3RecvProofs ------------------------------
(***************************************************************************)
(* Proofs about H3Recv, for streams, fragments and chunks of any number.   *)
(*                                                                         *)
(* What a chunk shows is a sum over its fragments, and Advance a walk over *)
(* them, both recursive functions: that they exist, and what they are,     *)
(* rests on an induction on Nat that is derived here, for sets, from the   *)
(* order of the numbers being well-founded.                                *)
(***************************************************************************)
EXTENDS H3Recv, SequenceTheorems, WellFoundedInduction, TLAPS

(* Induction and recursion on the numbers *)

LEMMA SetInduction ==
  ASSUME NEW S, 0 \in S, \A n \in Nat : n \in S => n + 1 \in S
  PROVE  Nat \subseteq S
<1> DEFINE T == Nat \ S
           R == {ss \in Nat \X Nat : ss[1] < ss[2]}
<1>1. \A m, n \in Nat : m < n => <<m, n>> \in R
  OBVIOUS
<1>2. IsWellFoundedOn(R, Nat)
  BY NatLessThanWellFounded DEF OpToRel
<1> HIDE DEF R
<1>3. SUFFICES ASSUME T # {} PROVE FALSE
  OBVIOUS
<1>4. PICK x \in T : \A y \in T : ~ (<<y, x>> \in R)
  BY <1>2, <1>3, WFMin
<1>5. x \in Nat \ {0} /\ x - 1 \in Nat
  OBVIOUS
<1>6. x - 1 \in T
  <2>1. (x - 1) + 1 = x
    BY <1>5
  <2> QED BY <1>5, <2>1
<1>7. <<x - 1, x>> \in R
  BY <1>1, <1>5
<1> QED BY <1>4, <1>6, <1>7

\* F[<<n, s>>] is what follows s after n steps.
Iterates(g, F, s0) == g[0] = s0 /\ \A n \in Nat : g[n + 1] = F[<<n, g[n]>>]

LEMMA Recursion ==
  ASSUME NEW S, NEW s0 \in S, NEW F \in [Nat \X S -> S]
  PROVE  \E g \in [Nat -> S] : Iterates(g, F, s0)
<1> DEFINE Runs(n) == {h \in [0..n -> S] :
                         h[0] = s0 /\ \A i \in 0 .. (n - 1) : h[i + 1] = F[<<i, h[i]>>]}
           Reached == {n \in Nat : Runs(n) # {}}
           Agreed == {i \in Nat : \A m, n \in Nat : i <= m /\ i <= n =>
                                    \A g \in Runs(m) : \A h \in Runs(n) : g[i] = h[i]}
\* There is a run of every length.
<1>1. Nat \subseteq Reached
  <2>1. [i \in 0..0 |-> s0] \in Runs(0)
    OBVIOUS
  <2>2. ASSUME NEW n \in Nat, n \in Reached PROVE n + 1 \in Reached
    <3>1. PICK h : h \in Runs(n)
      BY <2>2
    <3>2. h \in [0..n -> S] /\ h[n] \in S /\ F[<<n, h[n]>>] \in S
      BY <3>1
    <3>3. [i \in 0 .. (n + 1) |-> IF i = n + 1 THEN F[<<n, h[n]>>] ELSE h[i]] \in Runs(n + 1)
      <4> DEFINE k == [i \in 0 .. (n + 1) |-> IF i = n + 1 THEN F[<<n, h[n]>>] ELSE h[i]]
      <4>1. k \in [0 .. (n + 1) -> S]
        BY <3>2
      <4>2. k[0] = s0
        BY <3>1
      <4>3. ASSUME NEW i \in 0 .. ((n + 1) - 1) PROVE k[i + 1] = F[<<i, k[i]>>]
        <5>a. i \in 0 .. n
          OBVIOUS
        <5>1. k[i] = h[i] /\ k[i + 1] = IF i = n THEN F[<<n, h[n]>>] ELSE h[i + 1]
          BY <5>a
        <5> HIDE DEF k
        <5>2. i # n => h[i + 1] = F[<<i, h[i]>>]
          BY <3>1, <5>a
        <5> QED BY <5>1, <5>2
      <4>4. k \in {z \in [0 .. (n + 1) -> S] : z[0] = s0 /\
                     \A i \in 0 .. ((n + 1) - 1) : z[i + 1] = F[<<i, z[i]>>]}
        <5> HIDE DEF k
        <5> QED BY <4>1, <4>2, <4>3
      <4> QED BY <4>4
    <3> HIDE DEF Runs
    <3> QED BY <3>3
  <2> HIDE DEF Runs
  <2> QED BY <2>1, <2>2, SetInduction
\* The runs agree as far as they go.
<1>2. Nat \subseteq Agreed
  <2>1. 0 \in Agreed
    OBVIOUS
  <2>2. ASSUME NEW i \in Nat, i \in Agreed PROVE i + 1 \in Agreed
    <3> SUFFICES ASSUME NEW m \in Nat, NEW n \in Nat, i + 1 <= m, i + 1 <= n,
                        NEW g \in Runs(m), NEW h \in Runs(n)
                 PROVE  g[i + 1] = h[i + 1]
      <4> HIDE DEF Runs
      <4> QED OBVIOUS
    <3>1. g[i] = h[i]
      <4>1. i <= m /\ i <= n
        OBVIOUS
      <4> HIDE DEF Runs
      <4> QED BY <2>2, <4>1
    <3>2. i \in 0 .. (m - 1) /\ i \in 0 .. (n - 1)
      OBVIOUS
    <3> QED BY <3>1, <3>2
  <2> HIDE DEF Agreed
  <2> QED BY <2>1, <2>2, SetInduction
<1> DEFINE run(n) == CHOOSE h : h \in Runs(n)
           g == [n \in Nat |-> run(n)[n]]
<1>3. \A n \in Nat : run(n) \in Runs(n)
  BY <1>1
<1> HIDE DEF run
<1>4. g \in [Nat -> S]
  BY <1>3
<1>5. g[0] = s0
  BY <1>3
<1>6. ASSUME NEW n \in Nat PROVE g[n + 1] = F[<<n, g[n]>>]
  <2>1. run(n + 1) \in Runs(n + 1) /\ run(n) \in Runs(n) /\ n \in Agreed
    <3> HIDE DEF Runs, Agreed
    <3> QED BY <1>2, <1>3
  <2>2. run(n + 1)[n + 1] = F[<<n, run(n + 1)[n]>>]
    BY <2>1
  <2>3. run(n + 1)[n] = run(n)[n]
    <3>1. n + 1 \in Nat /\ n <= n /\ n <= n + 1
      OBVIOUS
    <3> HIDE DEF Runs
    <3> QED BY <2>1, <3>1
  <2> QED BY <2>2, <2>3
<1> HIDE DEF g
<1> QED BY <1>4, <1>5, <1>6 DEF Iterates

--------------------------------------------------------------------------------
(* Sums *)

LEMMA SumsFacts ==
  ASSUME NEW l \in Seq(Nat)
  PROVE  /\ Sums(l) \in [0 .. Len(l) -> Nat]
         /\ Sums(l)[0] = 0
         /\ \A i \in 1 .. Len(l) : Sums(l)[i] = Sums(l)[i - 1] + l[i]
<1> DEFINE Sum(g) == [i \in 0 .. Len(l) |-> IF i = 0 THEN 0 ELSE g[i - 1] + l[i]]
           F == [ns \in Nat \X Nat |-> ns[2] + IF ns[1] < Len(l) THEN l[ns[1] + 1] ELSE 0]
<1>0. \A i \in 1 .. Len(l) : l[i] \in Nat
  OBVIOUS
<1>1. F \in [Nat \X Nat -> Nat]
  OBVIOUS
<1>2. PICK g \in [Nat -> Nat] : Iterates(g, F, 0)
  <2> HIDE DEF F
  <2>1. 0 \in Nat
    OBVIOUS
  <2> QED BY <1>1, <2>1, Recursion
<1> DEFINE s == [i \in 0 .. Len(l) |-> g[i]]
<1>3. s = Sum(s)
  <2>1. \A n \in Nat : n < Len(l) => g[n + 1] = g[n] + l[n + 1]
    BY <1>2 DEF Iterates
  <2>2. ASSUME NEW i \in 1 .. Len(l) PROVE s[i] = s[i - 1] + l[i]
    <3>1. i - 1 \in Nat /\ i - 1 < Len(l) /\ (i - 1) + 1 = i
      OBVIOUS
    <3>2. g[(i - 1) + 1] = g[i - 1] + l[(i - 1) + 1]
      BY <2>1, <3>1
    <3>3. s[i] = g[i] /\ s[i - 1] = g[i - 1]
      OBVIOUS
    <3> QED BY <3>1, <3>2, <3>3
  <2>3. s[0] = 0
    BY <1>2 DEF Iterates
  <2>4. \A i \in 0 .. Len(l) : s[i] = Sum(s)[i]
    <3>1. \A i \in 0 .. Len(l) : i = 0 \/ i \in 1 .. Len(l)
      OBVIOUS
    <3> HIDE DEF s
    <3> QED BY <2>2, <2>3, <3>1
  <2>5. s = [i \in 0 .. Len(l) |-> s[i]]
    OBVIOUS
  <2> HIDE DEF s
  <2> QED BY <2>4, <2>5
<1> HIDE DEF s
<1>4. Sums(l) = Sum(Sums(l))
  <2>1. Sums(l) = CHOOSE h : h = Sum(h)
    BY DEF Sums
  <2> HIDE DEF Sum
  <2> QED BY <1>3, <2>1
<1> DEFINE t == Sums(l)
<1> HIDE DEF t
<1>5. /\ t[0] = 0
      /\ \A i \in 1 .. Len(l) : t[i] = t[i - 1] + l[i]
  <2>1. t = [i \in 0 .. Len(l) |-> IF i = 0 THEN 0 ELSE t[i - 1] + l[i]]
    BY <1>4 DEF t
  <2>2. 0 \in 0 .. Len(l) /\ 1 .. Len(l) \subseteq 0 .. Len(l) /\ 0 \notin 1 .. Len(l)
    OBVIOUS
  <2> QED BY <2>1, <2>2
<1>6. Nat \subseteq {n \in Nat : n <= Len(l) => t[n] \in Nat}
  <2> DEFINE A == {n \in Nat : n <= Len(l) => t[n] \in Nat}
  <2>1. 0 \in A
    BY <1>5
  <2>2. ASSUME NEW n \in Nat, n \in A PROVE n + 1 \in A
    <3> SUFFICES ASSUME n + 1 <= Len(l) PROVE t[n + 1] \in Nat
      OBVIOUS
    <3>1. n + 1 \in 1 .. Len(l) /\ n <= Len(l) /\ (n + 1) - 1 = n
      OBVIOUS
    <3>2. t[n] \in Nat
      BY <2>2, <3>1
    <3>3. l[n + 1] \in Nat
      BY <1>0, <3>1
    <3>4. t[n + 1] = t[(n + 1) - 1] + l[n + 1]
      BY <1>5, <3>1
    <3> HIDE DEF t
    <3>5. t[n + 1] = t[n] + l[n + 1]
      BY <3>1, <3>4
    <3>6. \A x, y \in Nat : x + y \in Nat
      OBVIOUS
    <3> QED BY <3>2, <3>3, <3>5, <3>6
  <2> HIDE DEF A
  <2>3. Nat \subseteq A
    BY <2>1, <2>2, SetInduction
  <2> QED BY <2>3 DEF A
<1>7. t \in [0 .. Len(l) -> Nat]
  <2>1. t = [i \in 0 .. Len(l) |-> t[i]]
    BY <1>4 DEF t
  <2>2. \A i \in 0 .. Len(l) : t[i] \in Nat
    BY <1>6
  <2> QED BY <2>1, <2>2
<1> QED BY <1>5, <1>7 DEF t

\* They grow with every length.
LEMMA SumsGrow ==
  ASSUME NEW l \in Seq(Nat), NEW i \in 0 .. Len(l), NEW j \in i .. Len(l)
  PROVE  Sums(l)[i] <= Sums(l)[j]
<1> DEFINE A == {n \in Nat : i + n <= Len(l) => Sums(l)[i] <= Sums(l)[i + n]}
<1>1. 0 \in A
  <2>1. i + 0 = i /\ Sums(l)[i] \in Nat
    <3>1. Sums(l) \in [0 .. Len(l) -> Nat]
      BY SumsFacts
    <3> QED BY <3>1
  <2> QED BY <2>1
<1>2. ASSUME NEW n \in Nat, n \in A PROVE n + 1 \in A
  <2> SUFFICES ASSUME i + (n + 1) <= Len(l) PROVE Sums(l)[i] <= Sums(l)[i + (n + 1)]
    OBVIOUS
  <2>1. /\ i + (n + 1) \in 1 .. Len(l) /\ (i + (n + 1)) - 1 = i + n
        /\ i + n \in 0 .. Len(l) /\ l[i + (n + 1)] \in Nat
    OBVIOUS
  <2>2. Sums(l)[i + (n + 1)] = Sums(l)[i + n] + l[i + (n + 1)]
    BY <2>1, SumsFacts
  <2>3. Sums(l)[i + n] \in Nat /\ Sums(l)[i] \in Nat
    BY <2>1, SumsFacts
  <2> QED BY <1>2, <2>1, <2>2, <2>3
<1> HIDE DEF A
<1>3. Nat \subseteq A
  BY <1>1, <1>2, SetInduction
<1>4. j - i \in Nat /\ i + (j - i) = j /\ j <= Len(l)
  OBVIOUS
<1>5. j - i \in A
  BY <1>3, <1>4
<1> QED BY <1>4, <1>5 DEF A

--------------------------------------------------------------------------------
(* What is left of a chunk *)

Views == [off : Nat, buffers : Seq(Nat \ {0}), len : Nat,
          cursor : Int, inBuffer : Int, fin : BOOLEAN]

\* The cursor is at a byte of the chunk.
Live(c) ==
  /\ c \in Views /\ c.len = Total(c.buffers)
  /\ c.cursor \in Nat /\ c.cursor < Len(c.buffers)
  /\ c.inBuffer \in Nat /\ c.inBuffer < c.buffers[c.cursor + 1]

\* The bytes before the cursor.
Place(c) == Sums(c.buffers)[c.cursor] + c.inBuffer

\* d is c, n bytes on.
Moved(c, d, n) ==
  /\ d \in Views /\ d.off = c.off /\ d.len = c.len /\ d.buffers = c.buffers
  /\ \/ Live(d) /\ Place(d) = Place(c) + n
     \/ Remaining(d) = 0 /\ c.len = Place(c) + n

\* The sums of a view, at the cursor and after the fragment it is in.
LEMMA SumsOfView ==
  ASSUME NEW c \in Views
  PROVE  /\ c.buffers \in Seq(Nat) /\ Len(c.buffers) \in Nat
         /\ Sums(c.buffers) \in [0 .. Len(c.buffers) -> Nat] /\ Sums(c.buffers)[0] = 0
         /\ \A i \in 1 .. Len(c.buffers) :
              /\ c.buffers[i] \in Nat \ {0}
              /\ Sums(c.buffers)[i] = Sums(c.buffers)[i - 1] + c.buffers[i]
              /\ Sums(c.buffers)[i] <= Total(c.buffers)
<1>1. c.buffers \in Seq(Nat \ {0}) /\ c.buffers \in Seq(Nat) /\ Len(c.buffers) \in Nat
  BY DEF Views
<1>2. ASSUME NEW i \in 1 .. Len(c.buffers) PROVE Sums(c.buffers)[i] <= Total(c.buffers)
  <2>1. i \in 0 .. Len(c.buffers) /\ Len(c.buffers) \in i .. Len(c.buffers)
    BY <1>1
  <2> QED BY <1>1, <2>1, SumsGrow DEF Total
<1>3. \A i \in 1 .. Len(c.buffers) : c.buffers[i] \in Nat \ {0}
  BY <1>1
<1> QED BY <1>1, <1>2, <1>3, SumsFacts

LEMMA LiveFacts ==
  ASSUME NEW c, Live(c)
  PROVE  /\ Place(c) \in Nat /\ c.off \in Nat /\ c.len \in Nat
         /\ c.cursor + 1 \in 1 .. Len(c.buffers) /\ ~ Exhausted(c)
         /\ Sums(c.buffers)[c.cursor] \in Nat /\ c.buffers[c.cursor + 1] \in Nat \ {0}
         /\ Sums(c.buffers)[c.cursor + 1] = Sums(c.buffers)[c.cursor] + c.buffers[c.cursor + 1]
         /\ Sums(c.buffers)[c.cursor + 1] <= c.len
         /\ Remaining(c) = c.len - Place(c) /\ Remaining(c) \in Nat \ {0}
         /\ At(c) = c.off + Place(c)
<1>1. c \in Views /\ c.len = Total(c.buffers) /\ c.len \in Nat /\ c.off \in Nat
  BY DEF Live, Views
<1>2. /\ c.cursor \in Nat /\ c.inBuffer \in Nat /\ Len(c.buffers) \in Nat
      /\ c.cursor < Len(c.buffers) /\ c.inBuffer < c.buffers[c.cursor + 1]
  BY <1>1, SumsOfView DEF Live
<1>3. /\ c.cursor + 1 \in 1 .. Len(c.buffers) /\ c.cursor \in 0 .. Len(c.buffers)
      /\ (c.cursor + 1) - 1 = c.cursor
  BY <1>2
<1> DEFINE s == Sums(c.buffers)
           n == c.buffers[c.cursor + 1]
<1>4. s \in [0 .. Len(c.buffers) -> Nat]
  BY <1>1, SumsOfView
<1>5. s[c.cursor] \in Nat
  BY <1>3, <1>4
<1>6. n \in Nat \ {0} /\ s[c.cursor + 1] = s[(c.cursor + 1) - 1] + n /\ s[c.cursor + 1] <= c.len
  BY <1>1, <1>3, SumsOfView
<1>7. s[c.cursor + 1] = s[c.cursor] + n
  BY <1>3, <1>6
<1>8. ~ Exhausted(c)
  BY <1>2 DEF Exhausted
<1>9. Remaining(c) = c.len - s[c.cursor] - c.inBuffer
  BY <1>8 DEF Remaining
<1>10. Place(c) = s[c.cursor] + c.inBuffer
  BY DEF Place
<1>11. At(c) = c.off + c.len - Remaining(c)
  BY DEF At
<1> HIDE DEF s, n
<1>12. Place(c) \in Nat /\ Place(c) < c.len
  BY <1>1, <1>2, <1>5, <1>6, <1>7, <1>10 DEF n
<1>13. Remaining(c) = c.len - Place(c) /\ Remaining(c) \in Nat \ {0}
  BY <1>1, <1>2, <1>5, <1>9, <1>10, <1>12
<1>14. At(c) = c.off + Place(c)
  BY <1>1, <1>11, <1>12, <1>13
<1> QED BY <1>1, <1>3, <1>5, <1>6, <1>7, <1>8, <1>12, <1>13, <1>14 DEF s, n

CursorAt(c, x, y) == [c EXCEPT !.cursor = x, !.inBuffer = y]

LEMMA CursorSet ==
  ASSUME NEW c \in Views, NEW x \in Int, NEW y \in Int
  PROVE  LET d == CursorAt(c, x, y) IN
         /\ d \in Views /\ d.off = c.off /\ d.len = c.len /\ d.buffers = c.buffers
         /\ d.cursor = x /\ d.inBuffer = y
<1> DEFINE d == CursorAt(c, x, y)
           e == [c EXCEPT !.cursor = x]
<1>1. /\ c.off \in Nat /\ c.buffers \in Seq(Nat \ {0}) /\ c.len \in Nat
      /\ c.fin \in BOOLEAN
  BY DEF Views
<1>2. e = [off |-> c.off, buffers |-> c.buffers, len |-> c.len,
           cursor |-> x, inBuffer |-> c.inBuffer, fin |-> c.fin]
  <2>1. c = [off |-> c.off, buffers |-> c.buffers, len |-> c.len,
             cursor |-> c.cursor, inBuffer |-> c.inBuffer, fin |-> c.fin]
    BY DEF Views
  <2> QED BY <2>1
<1>3. d = [e EXCEPT !.inBuffer = y]
  BY DEF CursorAt
<1> HIDE DEF e
<1>4. d = [off |-> c.off, buffers |-> c.buffers, len |-> c.len,
           cursor |-> x, inBuffer |-> y, fin |-> c.fin]
  <2> HIDE DEF d
  <2> QED BY <1>2, <1>3
<1> HIDE DEF d
<1>5. d \in Views
  BY <1>1, <1>4 DEF Views
<1>6. /\ d.off = c.off /\ d.len = c.len /\ d.buffers = c.buffers
      /\ d.cursor = x /\ d.inBuffer = y
  BY <1>4
<1> QED BY <1>5, <1>6 DEF d

\* The two ways in which the cursor moves: within a fragment, and into the next.
LEMMA WithinFragment ==
  ASSUME NEW c, Live(c), NEW n \in Nat, c.inBuffer + n < c.buffers[c.cursor + 1]
  PROVE  Moved(c, [c EXCEPT !.inBuffer = @ + n], n) /\ Live([c EXCEPT !.inBuffer = @ + n])
<1> DEFINE d == [c EXCEPT !.inBuffer = @ + n]
<1>1. c \in Views
  BY DEF Live
<1>2. /\ d \in Views /\ d.off = c.off /\ d.len = c.len /\ d.buffers = c.buffers
      /\ d.cursor = c.cursor /\ d.inBuffer = c.inBuffer + n
  <2>1. /\ c.off \in Nat /\ c.buffers \in Seq(Nat \ {0}) /\ c.len \in Nat
        /\ c.cursor \in Int /\ c.inBuffer \in Int /\ c.fin \in BOOLEAN
    BY <1>1 DEF Views
  <2>2. d = [off |-> c.off, buffers |-> c.buffers, len |-> c.len,
             cursor |-> c.cursor, inBuffer |-> c.inBuffer + n, fin |-> c.fin]
    BY <1>1 DEF Views
  <2> HIDE DEF d
  <2> QED BY <2>1, <2>2 DEF Views
<1> HIDE DEF d
<1>3. Live(d)
  BY <1>2 DEF Live
<1>4. Place(d) = Place(c) + n
  <2>1. Sums(c.buffers)[c.cursor] \in Nat /\ c.inBuffer \in Nat
    BY LiveFacts DEF Live
  <2> QED BY <1>2, <2>1 DEF Place
<1> QED BY <1>2, <1>3, <1>4 DEF Moved, d

LEMMA NextFragment ==
  ASSUME NEW c, Live(c)
  PROVE  LET d == [c EXCEPT !.cursor = @ + 1, !.inBuffer = 0] IN
         /\ Moved(c, d, c.buffers[c.cursor + 1] - c.inBuffer)
         /\ c.cursor + 1 < Len(c.buffers) => Live(d)
<1> DEFINE d == [c EXCEPT !.cursor = @ + 1, !.inBuffer = 0]
           n == c.buffers[c.cursor + 1]
<1>1. c \in Views /\ c.cursor \in Nat /\ c.inBuffer \in Nat /\ c.len = Total(c.buffers)
  BY DEF Live
<1>2. /\ d \in Views /\ d.off = c.off /\ d.len = c.len /\ d.buffers = c.buffers
      /\ d.cursor = c.cursor + 1 /\ d.inBuffer = 0
  <2>1. c.cursor + 1 \in Int /\ 0 \in Int
    BY <1>1
  <2>2. c \in Views
    BY <1>1
  <2>3. d = CursorAt(c, c.cursor + 1, 0)
    BY DEF CursorAt
  <2> HIDE DEF d
  <2> QED BY <2>1, <2>2, <2>3, CursorSet
<1>3. /\ Sums(c.buffers)[c.cursor + 1] = Sums(c.buffers)[c.cursor] + n
      /\ Sums(c.buffers)[c.cursor] \in Nat /\ n \in Nat \ {0}
      /\ c.cursor + 1 \in 1 .. Len(c.buffers)
  BY LiveFacts
<1> HIDE DEF d, n
<1>4. Place(c) = Sums(c.buffers)[c.cursor] + c.inBuffer
  BY DEF Place
<1>5. CASE c.cursor + 1 < Len(c.buffers)
  <2>1. (c.cursor + 1) + 1 \in 1 .. Len(c.buffers)
    BY <1>1, <1>3, <1>5
  <2>2. c.buffers[(c.cursor + 1) + 1] \in Nat \ {0}
    BY <1>1, <2>1, SumsOfView
  <2>3. Live(d)
    BY <1>1, <1>2, <1>5, <2>2 DEF Live
  <2>4. Place(d) = Place(c) + (n - c.inBuffer)
    BY <1>1, <1>2, <1>3, <1>4 DEF Place
  <2> QED BY <1>2, <2>3, <2>4 DEF Moved, d, n
<1>6. CASE ~ (c.cursor + 1 < Len(c.buffers))
  <2>1. c.cursor + 1 = Len(c.buffers)
    BY <1>1, <1>3, <1>6, SumsOfView
  <2>2. Remaining(d) = 0
    BY <1>1, <1>2, <2>1, SumsOfView DEF Remaining, Exhausted
  <2>3. c.len = Sums(c.buffers)[c.cursor + 1]
    BY <1>1, <2>1 DEF Total
  <2>4. c.len = Place(c) + (n - c.inBuffer)
    BY <1>1, <1>3, <1>4, <2>3
  <2> QED BY <1>2, <1>6, <2>2, <2>4 DEF Moved, d, n
<1> QED BY <1>5, <1>6

\* buffer.rs:102-120: get_bytes_upto_size moves the cursor by what it returns, at
\* least a byte, wherever the fragment ends.
THEOREM GetBytesMoves ==
  ASSUME NEW c, Live(c), NEW size \in Nat \ {0}
  PROVE  SliceUpTo(c, size) \in Nat \ {0} /\ Moved(c, GetBytes(c, size), SliceUpTo(c, size))
<1> DEFINE n == c.buffers[c.cursor + 1]
           k == SliceUpTo(c, size)
<1>1. n \in Nat \ {0} /\ c.inBuffer \in Nat /\ c.inBuffer < n /\ ~ Exhausted(c) /\ c \in Views
  BY LiveFacts DEF Live
<1>2. k = IF n - c.inBuffer < size THEN n - c.inBuffer ELSE size
  BY <1>1 DEF SliceUpTo, Lesser
<1>3. GetBytes(c, size) = IF c.inBuffer + k >= n
                          THEN [c EXCEPT !.cursor = @ + 1, !.inBuffer = 0]
                          ELSE [c EXCEPT !.inBuffer = c.inBuffer + k]
  BY <1>1 DEF GetBytes
<1> HIDE DEF k
<1>4. k \in Nat \ {0} /\ k <= n - c.inBuffer
  BY <1>1, <1>2
<1>5. CASE c.inBuffer + k >= n
  <2>1. k = n - c.inBuffer
    BY <1>1, <1>4, <1>5
  <2> QED BY <1>3, <1>4, <1>5, <2>1, NextFragment DEF k
<1>6. CASE ~ (c.inBuffer + k >= n)
  <2>1. [c EXCEPT !.inBuffer = c.inBuffer + k] = [c EXCEPT !.inBuffer = @ + k]
    OBVIOUS
  <2>2. c.inBuffer + k < n
    BY <1>1, <1>4, <1>6
  <2> QED BY <1>3, <1>4, <1>6, <2>1, <2>2, WithinFragment DEF k
<1> QED BY <1>5, <1>6

--------------------------------------------------------------------------------
(* Advance *)

\* The loop of Advance(c, k) before fragment i + 1: s.b is c moved by what was
\* passed, and is at that fragment when something is left to pass.
Passes(c, k, i, s) ==
  /\ s.count \in 0 .. k
  /\ s.b \in Views /\ Moved(c, s.b, k - s.count)
  /\ s.count > 0 => Live(s.b) /\ s.b.cursor = i

LEMMA MovedOn ==
  ASSUME NEW c, NEW d, NEW e, NEW m \in Int, NEW n \in Int,
         Live(c), Live(d), Moved(c, d, m), Moved(d, e, n), Place(d) = Place(c) + m
  PROVE  Moved(c, e, m + n)
<1>1. Place(c) \in Nat /\ Place(d) \in Nat /\ c.len = d.len
  BY LiveFacts DEF Moved
<1>2. CASE Live(e) /\ Place(e) = Place(d) + n
  BY <1>1, <1>2 DEF Moved
<1>3. CASE Remaining(e) = 0 /\ d.len = Place(d) + n
  BY <1>1, <1>3 DEF Moved
<1> QED BY <1>2, <1>3 DEF Moved

LEMMA AdvanceOverFacts ==
  ASSUME NEW c, Live(c), NEW k \in Nat, k <= Remaining(c),
         NEW i \in c.cursor .. (Len(c.buffers) - 1), NEW s, Passes(c, k, i, s)
  PROVE  Passes(c, k, i + 1, AdvanceOver(s, c.buffers[i + 1]))
<1> DEFINE d == s.b
           n == c.buffers[i + 1]
           left == n - d.inBuffer
           t == AdvanceOver(s, n)
<1>1. s.count \in Nat /\ s.count <= k /\ c.cursor \in Nat /\ Len(c.buffers) \in Nat /\ c \in Views
  BY SumsOfView DEF Passes, Live
<1>2. CASE s.count = 0
  <2>1. t = s
    BY <1>2 DEF AdvanceOver
  <2> QED BY <1>2, <2>1 DEF Passes
<1>3. CASE s.count > 0
  <2>1. Live(d) /\ d.cursor = i /\ d.buffers = c.buffers /\ d.len = c.len /\ Moved(c, d, k - s.count)
    BY <1>3 DEF Passes, Moved
  <2>2. d.inBuffer \in Nat /\ n \in Nat \ {0} /\ left \in Nat \ {0}
    <3>1. d.buffers[d.cursor + 1] = n
      BY <2>1
    <3>2. d.inBuffer \in Nat /\ d.inBuffer < n /\ n \in Nat \ {0}
      BY <2>1, <3>1, LiveFacts DEF Live
    <3> HIDE DEF d, n
    <3> QED BY <3>2
  <2>3. Place(d) = Place(c) + (k - s.count)
    <3>1. Remaining(d) # 0
      BY <2>1, LiveFacts
    <3> QED BY <2>1, <3>1 DEF Moved
  <2>4. CASE s.count < left
    <3> DEFINE e == [d EXCEPT !.inBuffer = @ + s.count]
    <3>1. t = [b |-> e, count |-> 0]
      BY <1>3, <2>4 DEF AdvanceOver
    <3>2. Moved(d, e, s.count)
      <4>1. d.inBuffer + s.count < d.buffers[d.cursor + 1]
        BY <1>1, <2>1, <2>2, <2>4
      <4> HIDE DEF d
      <4> QED BY <1>1, <2>1, <4>1, WithinFragment
    <3> HIDE DEF e
    <3>3. Moved(c, e, (k - s.count) + s.count)
      BY <1>1, <2>1, <2>3, <3>2, MovedOn
    <3>4. (k - s.count) + s.count = k /\ k - 0 = k /\ 0 \in 0 .. k
      BY <1>1
    <3> HIDE DEF t
    <3>5. t.b = e /\ t.count = 0
      BY <3>1
    <3>6. Moved(c, t.b, k - t.count) /\ t.b \in Views
      BY <3>3, <3>4, <3>5 DEF Moved
    <3>7. Passes(c, k, i + 1, t)
      BY <3>4, <3>5, <3>6 DEF Passes
    <3> QED BY <3>7 DEF t
  <2>5. CASE ~ (s.count < left)
    <3> DEFINE e == [d EXCEPT !.cursor = @ + 1, !.inBuffer = 0]
    <3>1. t = [b |-> e, count |-> s.count - left]
      BY <1>3, <2>5 DEF AdvanceOver
    <3>2. Moved(d, e, left) /\ (i + 1 < Len(c.buffers) => Live(e)) /\ e.cursor = i + 1
      <4>1. e.cursor = i + 1
        BY <2>1 DEF Live, Views
      <4> QED BY <2>1, <4>1, NextFragment
    <3> HIDE DEF e
    <3>3. Moved(c, e, (k - s.count) + left)
      BY <1>1, <2>1, <2>2, <2>3, <3>2, MovedOn
    <3>4. (k - s.count) + left = k - (s.count - left) /\ s.count - left \in 0 .. k
      BY <1>1, <2>2, <2>5
    <3>5. s.count - left > 0 => Live(e)
      <4> SUFFICES ASSUME ~ (i + 1 < Len(c.buffers)), ~ Live(e) PROVE s.count - left = 0
        BY <3>2, <3>4
      <4>1. c.len = Place(c) + (k - (s.count - left))
        BY <3>3, <3>4 DEF Moved
      <4>2. Place(c) \in Nat /\ c.len \in Nat /\ k <= c.len - Place(c)
        BY LiveFacts
      <4> HIDE DEF left
      <4> QED BY <3>4, <4>1, <4>2
    <3> HIDE DEF t, left
    <3>6. t.b = e /\ t.count = s.count - left
      BY <3>1
    <3>7. Moved(c, t.b, k - t.count) /\ t.b \in Views
      BY <3>3, <3>4, <3>6 DEF Moved
    <3>8. Passes(c, k, i + 1, t)
      BY <3>2, <3>4, <3>5, <3>6, <3>7 DEF Passes
    <3> QED BY <3>8 DEF t
  <2> QED BY <2>4, <2>5
<1> QED BY <1>1, <1>2, <1>3

\* buffer.rs:146-162: advance moves the cursor by count, over fragments of any
\* number and length.
THEOREM AdvanceMoves ==
  ASSUME NEW c, Live(c), NEW k \in Nat, k <= Remaining(c)
  PROVE  Moved(c, Advance(c, k), k)
<1> DEFINE m == Len(c.buffers)
           S == [b : Views, count : Int]
           s0 == [b |-> c, count |-> k]
           F == [ns \in Nat \X S |->
                   IF c.cursor + ns[1] < m
                   THEN AdvanceOver(ns[2], c.buffers[c.cursor + ns[1] + 1]) ELSE ns[2]]
           After(g) == [i \in c.cursor .. m |->
                          IF i = c.cursor THEN s0 ELSE AdvanceOver(g[i - 1], c.buffers[i])]
<1>1. /\ c \in Views /\ c.cursor \in Nat /\ m \in Nat /\ c.cursor < m
      /\ \A i \in 1 .. m : c.buffers[i] \in Nat
  BY SumsOfView DEF Live
<1>2. s0 \in S
  BY <1>1
<1>3. F \in [Nat \X S -> S]
  <2>1. ASSUME NEW s \in S, NEW n \in Nat PROVE AdvanceOver(s, n) \in S
    <3>1. s.b \in Views /\ s.count \in Int /\ s.b.inBuffer \in Int /\ s.b.cursor \in Int
      BY DEF Views
    <3>2. [s.b EXCEPT !.inBuffer = @ + s.count] \in Views
      <4>1. s.b.inBuffer + s.count \in Int
        BY <3>1
      <4> QED BY <3>1, <4>1 DEF Views
    <3>3. [s.b EXCEPT !.cursor = @ + 1, !.inBuffer = 0] \in Views
      <4>1. s.b.cursor + 1 \in Int /\ 0 \in Int
        BY <3>1
      <4>2. CursorAt(s.b, s.b.cursor + 1, 0) \in Views
        BY <3>1, <4>1, CursorSet
      <4> QED BY <4>2 DEF CursorAt
    <3> QED BY <3>1, <3>2, <3>3 DEF AdvanceOver
  <2>2. ASSUME NEW i \in Nat, c.cursor + i < m PROVE c.buffers[c.cursor + i + 1] \in Nat
    <3>1. c.cursor + i + 1 \in 1 .. m
      BY <1>1, <2>2
    <3> QED BY <1>1, <3>1
  <2>3. ASSUME NEW i \in Nat, NEW s \in S
        PROVE  (IF c.cursor + i < m THEN AdvanceOver(s, c.buffers[c.cursor + i + 1]) ELSE s) \in S
    <3> HIDE DEF S
    <3> QED BY <2>1, <2>2
  <2> HIDE DEF S
  <2> QED BY <2>3
<1>4. PICK g \in [Nat -> S] : Iterates(g, F, s0)
  <2> HIDE DEF S, s0, F
  <2> QED BY <1>2, <1>3, Recursion
<1> DEFINE h == [i \in c.cursor .. m |-> g[i - c.cursor]]
<1>5. h = After(h)
  <2>1. h[c.cursor] = s0
    <3>1. c.cursor \in c.cursor .. m /\ c.cursor - c.cursor = 0
      BY <1>1
    <3> HIDE DEF s0, F
    <3> QED BY <1>4, <3>1 DEF Iterates
  <2>2. ASSUME NEW i \in (c.cursor + 1) .. m PROVE h[i] = AdvanceOver(h[i - 1], c.buffers[i])
    <3> DEFINE j == (i - 1) - c.cursor
    <3>1. /\ j \in Nat /\ j + 1 = i - c.cursor /\ c.cursor + j < m /\ c.cursor + j + 1 = i
          /\ i \in c.cursor .. m /\ i - 1 \in c.cursor .. m
      <4> HIDE DEF m
      <4> QED BY <1>1
    <3>2. h[i] = g[j + 1] /\ h[i - 1] = g[j]
      BY <3>1
    <3>3. g[j] \in S /\ <<j, g[j]>> \in Nat \X S
      BY <3>1
    <3> HIDE DEF j, h, S, s0
    <3>4. F[<<j, g[j]>>] = AdvanceOver(g[j], c.buffers[i])
      BY <3>1, <3>3
    <3> HIDE DEF F
    <3>5. g[j + 1] = F[<<j, g[j]>>]
      BY <1>4, <3>1 DEF Iterates
    <3> QED BY <3>2, <3>4, <3>5
  <2>3. \A i \in c.cursor .. m : h[i] = After(h)[i]
    <3>1. \A i \in c.cursor .. m : i = c.cursor \/ i \in (c.cursor + 1) .. m
      BY <1>1
    <3> HIDE DEF h, s0
    <3> QED BY <2>1, <2>2, <3>1
  <2>4. h = [i \in c.cursor .. m |-> h[i]]
    OBVIOUS
  <2> HIDE DEF h, s0
  <2> QED BY <2>3, <2>4
<1> DEFINE a == CHOOSE f : f = After(f)
<1>6. a = After(a)
  <2> HIDE DEF h, After
  <2> QED BY <1>5
<1>7. Advance(c, k) = a[m].b
  BY DEF Advance
<1> HIDE DEF a
<1>8. /\ a[c.cursor] = s0
      /\ \A i \in (c.cursor + 1) .. m : a[i] = AdvanceOver(a[i - 1], c.buffers[i])
  <2>1. /\ c.cursor \in c.cursor .. m /\ c.cursor \notin (c.cursor + 1) .. m
        /\ (c.cursor + 1) .. m \subseteq c.cursor .. m
    BY <1>1
  <2> HIDE DEF s0, m
  <2> QED BY <1>6, <2>1
<1> DEFINE A == {n \in Nat : c.cursor + n <= m => Passes(c, k, c.cursor + n, a[c.cursor + n])}
<1>9. 0 \in A
  <2>1. c.cursor + 0 = c.cursor /\ k - k = 0 /\ k \in 0 .. k
    BY <1>1
  <2>2. Moved(c, c, 0)
    BY <1>1, LiveFacts DEF Moved
  <2>3. Passes(c, k, c.cursor, s0)
    BY <1>1, <2>1, <2>2 DEF Passes
  <2> HIDE DEF s0
  <2> QED BY <1>8, <2>1, <2>3
<1>10. ASSUME NEW n \in Nat, n \in A PROVE n + 1 \in A
  <2> SUFFICES ASSUME c.cursor + (n + 1) <= m
               PROVE  Passes(c, k, c.cursor + (n + 1), a[c.cursor + (n + 1)])
    OBVIOUS
  <2> DEFINE i == c.cursor + n
  <2>1. /\ i \in c.cursor .. (m - 1) /\ c.cursor + (n + 1) = i + 1 /\ i <= m
        /\ i + 1 \in (c.cursor + 1) .. m /\ (i + 1) - 1 = i
    <3> HIDE DEF m
    <3> QED BY <1>1
  <2>2. Passes(c, k, i, a[i])
    BY <1>10, <2>1
  <2> HIDE DEF i
  <2>3. a[i + 1] = AdvanceOver(a[i], c.buffers[i + 1])
    BY <1>8, <2>1
  <2> QED BY <2>1, <2>2, <2>3, AdvanceOverFacts
<1>11. Passes(c, k, m, a[m])
  <2> HIDE DEF A
  <2>1. Nat \subseteq A
    BY <1>9, <1>10, SetInduction
  <2>2. m - c.cursor \in Nat /\ c.cursor + (m - c.cursor) = m /\ m <= m
    BY <1>1
  <2>3. m - c.cursor \in A
    BY <2>1, <2>2
  <2> HIDE DEF m
  <2> QED BY <2>2, <2>3 DEF A
<1>12. a[m].count = 0
  <2>1. a[m].count > 0 => a[m].b.cursor < Len(a[m].b.buffers) /\ a[m].b.cursor = m /\ a[m].b.buffers = c.buffers
    BY <1>11 DEF Passes, Live, Moved
  <2>2. a[m].count \in 0 .. k
    BY <1>11 DEF Passes
  <2>3. ~ (a[m].count > 0)
    BY <1>1, <2>1
  <2> QED BY <2>2, <2>3
<1> QED BY <1>7, <1>11, <1>12 DEF Passes

\* buffer.rs:172-187: the slices of chunks_vectored make up what remains.
THEOREM VectoredIsRest ==
  ASSUME NEW c, Live(c), NEW n \in Nat, Len(c.buffers) <= n
  PROVE  Total(ChunksVectored(c, n)) = Remaining(c)
<1> DEFINE m == Len(c.buffers) - c.cursor
           s == Sums(c.buffers)
           rest == SubSeq(c.buffers, c.cursor + 1, Len(c.buffers))
           v == ChunksVectored(c, n)
<1>1. /\ c \in Views /\ c.cursor \in Nat /\ c.inBuffer \in Nat /\ Len(c.buffers) \in Nat
      /\ c.cursor < Len(c.buffers) /\ c.inBuffer < c.buffers[c.cursor + 1]
      /\ c.len = Total(c.buffers) /\ c.buffers \in Seq(Nat)
  BY SumsOfView DEF Live
<1>2. m \in Nat \ {0} /\ c.cursor + m = Len(c.buffers) /\ m <= n
  BY <1>1
<1>3. Len(rest) = m /\ \A i \in 1 .. m : rest[i] = c.buffers[c.cursor + i]
  <2>1. /\ c.cursor + 1 \in Int /\ Len(c.buffers) \in Int /\ c.cursor + 1 <= Len(c.buffers)
        /\ \A i \in (c.cursor + 1) .. Len(c.buffers) : c.buffers[i] \in Nat
    <3>1. \A i \in 1 .. Len(c.buffers) : c.buffers[i] \in Nat
      BY <1>1
    <3>2. (c.cursor + 1) .. Len(c.buffers) \subseteq 1 .. Len(c.buffers)
      BY <1>1
    <3> HIDE DEF rest
    <3> QED BY <1>1, <3>1, <3>2
  <2>2. /\ Len(rest) = Len(c.buffers) - (c.cursor + 1) + 1
        /\ \A i \in 1 .. (Len(c.buffers) - (c.cursor + 1) + 1) :
             rest[i] = c.buffers[(c.cursor + 1) + i - 1]
    BY <2>1, SubSeqProperties
  <2>3. Len(c.buffers) - (c.cursor + 1) + 1 = m
    BY <1>1
  <2>4. \A i \in 1 .. m : (c.cursor + 1) + i - 1 = c.cursor + i
    BY <1>1
  <2> HIDE DEF rest, m
  <2> QED BY <2>2, <2>3, <2>4
<1> HIDE DEF rest
<1>4. v = [i \in 1 .. m |-> c.buffers[c.cursor + i] - (IF i = 1 THEN c.inBuffer ELSE 0)]
  <2>1. Lesser(n, Len(rest)) = m
    BY <1>2, <1>3 DEF Lesser
  <2>2. v = [i \in 1 .. m |-> rest[i] - (IF i = 1 THEN c.inBuffer ELSE 0)]
    BY <2>1 DEF ChunksVectored, rest
  <2> HIDE DEF m, v
  <2> QED BY <1>3, <2>2
<1>5. \A i \in 1 .. m : c.cursor + i \in 1 .. Len(c.buffers)
  BY <1>1
<1>6. \A i \in 1 .. m : c.buffers[c.cursor + i] \in Nat
  BY <1>1, <1>5, SumsOfView
<1> HIDE DEF m, v
<1>7. v \in Seq(Nat) /\ Len(v) = m
  <2>1. ASSUME NEW i \in 1 .. m
        PROVE  c.buffers[c.cursor + i] - (IF i = 1 THEN c.inBuffer ELSE 0) \in Nat
    <3>1. i = 1 => c.inBuffer < c.buffers[c.cursor + i]
      BY <1>1
    <3>2. c.inBuffer \in Nat /\ c.buffers[c.cursor + i] \in Nat
      BY <1>1, <1>6
    <3> QED BY <3>1, <3>2
  <2>2. v \in [1 .. m -> Nat]
    BY <1>4, <2>1
  <2> QED BY <1>2, <2>2
<1>8. /\ s \in [0 .. Len(c.buffers) -> Nat]
      /\ \A i \in 1 .. m : s[c.cursor + i] = s[c.cursor + (i - 1)] + c.buffers[c.cursor + i]
  <2>1. s \in [0 .. Len(c.buffers) -> Nat]
    BY <1>1, SumsOfView
  <2>2. ASSUME NEW i \in 1 .. m
        PROVE  s[c.cursor + i] = s[c.cursor + (i - 1)] + c.buffers[c.cursor + i]
    <3>1. s[c.cursor + i] = s[(c.cursor + i) - 1] + c.buffers[c.cursor + i]
      BY <1>1, <1>5, SumsOfView
    <3>2. (c.cursor + i) - 1 = c.cursor + (i - 1)
      BY <1>1
    <3> QED BY <3>1, <3>2
  <2> QED BY <2>1, <2>2
<1>9. \A i \in 0 .. m : s[c.cursor + i] \in Nat
  <2>1. \A i \in 0 .. m : c.cursor + i \in 0 .. Len(c.buffers)
    BY <1>1, <1>2
  <2> HIDE DEF s
  <2> QED BY <1>8, <2>1
<1> DEFINE w == Sums(v)
<1>10. /\ w \in [0 .. m -> Nat] /\ w[0] = 0
       /\ \A i \in 1 .. m : w[i] = w[i - 1] + v[i]
  BY <1>7, SumsFacts
<1>11. w[m] = Total(v)
  BY <1>7 DEF Total
<1> HIDE DEF w, s
<1> DEFINE A == {i \in Nat : i + 1 <= m => w[i + 1] = s[c.cursor + (i + 1)] - s[c.cursor] - c.inBuffer}
<1>12. 0 \in A
  <2>1. 1 \in 1 .. m /\ c.cursor + 0 = c.cursor /\ 1 - 1 = 0 /\ 0 \in 0 .. m
    BY <1>1, <1>2
  <2>2. v[1] = c.buffers[c.cursor + 1] - c.inBuffer
    BY <1>4, <2>1
  <2>3. w[1] = w[0] + v[1] /\ s[c.cursor + 1] = s[c.cursor] + c.buffers[c.cursor + 1]
    BY <1>8, <1>10, <2>1
  <2>4. s[c.cursor] \in Nat /\ c.buffers[c.cursor + 1] \in Nat
    BY <1>6, <1>9, <2>1
  <2>5. w[1] = s[c.cursor + 1] - s[c.cursor] - c.inBuffer
    BY <1>1, <1>10, <2>2, <2>3, <2>4
  <2>6. 0 + 1 = 1
    OBVIOUS
  <2> QED BY <2>5, <2>6
<1>13. ASSUME NEW i \in Nat, i \in A PROVE i + 1 \in A
  <2> SUFFICES ASSUME (i + 1) + 1 <= m
               PROVE  w[(i + 1) + 1] = s[c.cursor + ((i + 1) + 1)] - s[c.cursor] - c.inBuffer
    OBVIOUS
  <2> DEFINE j == i + 1
             k == j + 1
  <2>1. j <= m /\ j \in 0 .. m /\ k \in 1 .. m /\ k \in 0 .. m /\ k # 1 /\ k - 1 = j /\ 0 \in 0 .. m
    BY <1>2
  <2>2. w[j] = s[c.cursor + j] - s[c.cursor] - c.inBuffer
    BY <1>13, <2>1
  <2> HIDE DEF A, j, k
  <2>3. v[k] = c.buffers[c.cursor + k]
    BY <1>4, <1>6, <2>1
  <2>4. w[k] = w[j] + v[k] /\ s[c.cursor + k] = s[c.cursor + j] + c.buffers[c.cursor + k]
    <3>1. w[k] = w[k - 1] + v[k] /\ s[c.cursor + k] = s[c.cursor + (k - 1)] + c.buffers[c.cursor + k]
      BY <1>8, <1>10, <2>1
    <3> QED BY <2>1, <3>1
  <2>5. /\ s[c.cursor + j] \in Nat /\ c.buffers[c.cursor + k] \in Nat /\ w[j] \in Nat
        /\ s[c.cursor + 0] \in Nat /\ c.cursor + 0 = c.cursor
    <3>1. s[c.cursor + j] \in Nat /\ s[c.cursor + 0] \in Nat
      BY <1>9, <2>1
    <3>2. c.buffers[c.cursor + k] \in Nat
      BY <1>6, <2>1
    <3>3. w[j] \in Nat
      BY <1>10, <2>1
    <3> QED BY <1>1, <3>1, <3>2, <3>3
  <2>6. w[k] = s[c.cursor + k] - s[c.cursor] - c.inBuffer
    <3>1. /\ s[c.cursor] \in Nat /\ s[c.cursor + j] \in Nat /\ c.inBuffer \in Nat
          /\ c.buffers[c.cursor + k] \in Nat
      BY <1>1, <2>5
    <3>2. \A x, y, z, q \in Nat : (x - y - q) + z = (x + z) - y - q
      OBVIOUS
    <3>3. w[k] = (s[c.cursor + j] - s[c.cursor] - c.inBuffer) + c.buffers[c.cursor + k]
      BY <2>2, <2>3, <2>4
    <3>4. (s[c.cursor + j] - s[c.cursor] - c.inBuffer) + c.buffers[c.cursor + k]
            = (s[c.cursor + j] + c.buffers[c.cursor + k]) - s[c.cursor] - c.inBuffer
      BY <3>1, <3>2
    <3> QED BY <2>4, <3>3, <3>4
  <2> QED BY <2>6 DEF j, k
<1>14. w[m] = s[c.cursor + m] - s[c.cursor] - c.inBuffer
  <2> HIDE DEF A
  <2>1. m - 1 \in A
    BY <1>2, <1>12, <1>13, SetInduction
  <2>2. (m - 1) + 1 = m /\ m <= m
    BY <1>2
  <2> QED BY <2>1, <2>2 DEF A
<1>15. Remaining(c) = c.len - s[c.cursor] - c.inBuffer
  BY LiveFacts DEF Remaining, s
<1> QED BY <1>1, <1>2, <1>11, <1>14, <1>15 DEF Total, s, v

--------------------------------------------------------------------------------
(* The inductive invariant *)

\* The chunks of cs lie one after the other, from one byte of the stream to
\* another, and each has something left.
InOrder(cs, from, to) ==
  /\ cs \in Seq(Views)
  /\ \A i \in 1 .. Len(cs) : Live(cs[i]) /\ Len(cs[i].buffers) <= MaxFragments
  /\ from = IF cs = << >> THEN to ELSE At(cs[1])
  /\ \A i \in 1 .. Len(cs) :
       cs[i].off + cs[i].len = IF i = Len(cs) THEN to ELSE At(cs[i + 1])

StreamType ==
  /\ arrived \in Nat /\ given \in 0 .. arrived /\ complete \in BOOLEAN
  /\ finTaken \in BOOLEAN

Told ==
  /\ handed = given
  /\ finTaken => complete /\ given = arrived
  /\ EndMeansAll

\* The stream is in one place.
Held == stream \in BOOLEAN /\ reading = ~ stream /\ PanicsOnlyOnPendingRead

RecvInv == StreamType /\ InOrder(chunks, pos, given) /\ Told /\ Held

LEMMA AppendInOrder ==
  ASSUME NEW cs, NEW from, NEW to \in Nat, InOrder(cs, from, to),
         NEW c, Live(c), Len(c.buffers) <= MaxFragments, At(c) = to
  PROVE  InOrder(Append(cs, c), from, c.off + c.len)
<1> DEFINE ds == Append(cs, c)
<1>1. cs \in Seq(Views) /\ c \in Views /\ Len(cs) \in Nat
  BY DEF InOrder, Live
<1>2. /\ ds \in Seq(Views) /\ Len(ds) = Len(cs) + 1 /\ ds[Len(cs) + 1] = c
      /\ \A i \in 1 .. Len(cs) : ds[i] = cs[i]
  BY <1>1
<1>3. ds # << >> /\ (cs = << >> => Len(cs) = 0) /\ (cs # << >> => 1 \in 1 .. Len(cs))
  BY <1>1, <1>2, EmptySeq
<1> HIDE DEF ds
<1>4. from = At(ds[1])
  BY <1>2, <1>3 DEF InOrder
<1>5. ASSUME NEW i \in 1 .. Len(ds)
      PROVE  /\ Live(ds[i]) /\ Len(ds[i].buffers) <= MaxFragments
             /\ ds[i].off + ds[i].len = IF i = Len(ds) THEN c.off + c.len ELSE At(ds[i + 1])
  <2>1. CASE i = Len(cs) + 1
    BY <1>2, <2>1
  <2>2. CASE i = Len(cs)
    <3>1. i \in 1 .. Len(cs) /\ i # Len(ds)
      BY <1>1, <1>2, <2>2
    <3> QED BY <1>2, <2>2, <3>1 DEF InOrder
  <2>3. CASE i # Len(cs) + 1 /\ i # Len(cs)
    <3>1. i \in 1 .. Len(cs) /\ i + 1 \in 1 .. Len(cs) /\ i # Len(ds)
      BY <1>1, <1>2, <2>3
    <3> QED BY <1>2, <2>3, <3>1 DEF InOrder
  <2> QED BY <2>1, <2>2, <2>3
<1> QED BY <1>2, <1>3, <1>4, <1>5 DEF InOrder, ds

LEMMA FrontInOrder ==
  ASSUME NEW cs, NEW from, NEW to, InOrder(cs, from, to), cs # << >>,
         NEW d, NEW n \in Nat, Moved(cs[1], d, n), Remaining(d) > 0
  PROVE  InOrder([cs EXCEPT ![1] = d], from + n, to)
<1> DEFINE c == cs[1]
           ds == [cs EXCEPT ![1] = d]
<1>1. cs \in Seq(Views) /\ 1 \in 1 .. Len(cs) /\ Len(cs) \in Nat
  BY EmptySeq DEF InOrder
<1>2. Live(c) /\ from = At(c) /\ Len(c.buffers) <= MaxFragments
  BY <1>1 DEF InOrder
<1>3. d \in Views /\ Live(d) /\ Place(d) = Place(c) + n
      /\ d.off = c.off /\ d.len = c.len /\ d.buffers = c.buffers
  BY DEF Moved
<1>4. At(d) = from + n
  <2>1. At(d) = d.off + Place(d) /\ At(c) = c.off + Place(c) /\ c.off \in Nat /\ Place(c) \in Nat
    BY <1>2, <1>3, LiveFacts
  <2> QED BY <1>2, <1>3, <2>1
<1>5. /\ ds \in Seq(Views) /\ Len(ds) = Len(cs) /\ ds[1] = d /\ ds # << >>
      /\ \A i \in 2 .. Len(cs) : ds[i] = cs[i]
  <2>1. /\ ds \in Seq(Views) /\ Len(ds) = Len(cs) /\ ds[1] = d
        /\ \A i \in 2 .. Len(cs) : ds[i] = cs[i]
    BY <1>1, <1>3
  <2> HIDE DEF ds
  <2> QED BY <1>1, <2>1, EmptySeq
<1> HIDE DEF ds, c
<1>6. ASSUME NEW i \in 1 .. Len(ds)
      PROVE  /\ Live(ds[i]) /\ Len(ds[i].buffers) <= MaxFragments
             /\ ds[i].off + ds[i].len = IF i = Len(ds) THEN to ELSE At(ds[i + 1])
  <2>1. i \in 1 .. Len(cs) /\ (i # Len(ds) => i + 1 \in 2 .. Len(cs)) /\ (i # 1 => i \in 2 .. Len(cs))
    BY <1>1, <1>5
  <2>2. Live(ds[i]) /\ Len(ds[i].buffers) <= MaxFragments
    BY <1>2, <1>3, <1>5, <2>1 DEF InOrder, c
  <2>3. ds[i].off + ds[i].len = cs[i].off + cs[i].len
    BY <1>3, <1>5, <2>1 DEF c
  <2>4. i # Len(ds) => At(ds[i + 1]) = At(cs[i + 1])
    BY <1>5, <2>1
  <2>5. cs[i].off + cs[i].len = IF i = Len(cs) THEN to ELSE At(cs[i + 1])
    BY <2>1 DEF InOrder
  <2> QED BY <1>5, <2>2, <2>3, <2>4, <2>5
<1> QED BY <1>4, <1>5, <1>6 DEF InOrder, ds

LEMMA TailInOrder ==
  ASSUME NEW cs, NEW from, NEW to, InOrder(cs, from, to), cs # << >>,
         NEW d, NEW n \in Nat, Moved(cs[1], d, n), ~ (Remaining(d) > 0)
  PROVE  InOrder(Tail(cs), from + n, to)
<1> DEFINE c == cs[1]
           ds == Tail(cs)
<1>1. cs \in Seq(Views) /\ 1 \in 1 .. Len(cs) /\ Len(cs) \in Nat
  BY EmptySeq DEF InOrder
<1>2. Live(c) /\ from = At(c)
  BY <1>1 DEF InOrder
<1>3. c.len = Place(c) + n
  <2>1. ~ Live(d)
    BY LiveFacts
  <2> QED BY <2>1 DEF Moved
<1>4. from + n = c.off + c.len
  <2>1. At(c) = c.off + Place(c) /\ c.off \in Nat /\ Place(c) \in Nat
    BY <1>2, LiveFacts
  <2> QED BY <1>2, <1>3, <2>1
<1>5. /\ ds \in Seq(Views) /\ Len(ds) = Len(cs) - 1
      /\ \A i \in 1 .. Len(ds) : ds[i] = cs[i + 1]
  BY <1>1, HeadTailProperties
<1>6. c.off + c.len = IF Len(cs) = 1 THEN to ELSE At(cs[2])
  <2>1. 1 + 1 = 2
    OBVIOUS
  <2> QED BY <1>1, <2>1 DEF InOrder
<1> HIDE DEF ds, c
<1>7. from + n = IF ds = << >> THEN to ELSE At(ds[1])
  <2>1. ds = << >> <=> Len(cs) = 1
    BY <1>1, <1>5, EmptySeq
  <2>2. ds # << >> => 1 \in 1 .. Len(ds)
    BY <1>5, EmptySeq
  <2>3. 1 + 1 = 2
    OBVIOUS
  <2> QED BY <1>4, <1>5, <1>6, <2>1, <2>2, <2>3
<1>8. ASSUME NEW i \in 1 .. Len(ds)
      PROVE  /\ Live(ds[i]) /\ Len(ds[i].buffers) <= MaxFragments
             /\ ds[i].off + ds[i].len = IF i = Len(ds) THEN to ELSE At(ds[i + 1])
  <2> DEFINE j == i + 1
  <2>1. /\ j \in 1 .. Len(cs) /\ (i = Len(ds) <=> j = Len(cs))
        /\ (i # Len(ds) => i + 1 \in 1 .. Len(ds))
    BY <1>1, <1>5
  <2>2. ds[i] = cs[j] /\ (i # Len(ds) => ds[i + 1] = cs[j + 1])
    BY <1>5, <2>1
  <2> HIDE DEF j
  <2>3. /\ Live(cs[j]) /\ Len(cs[j].buffers) <= MaxFragments
        /\ cs[j].off + cs[j].len = IF j = Len(cs) THEN to ELSE At(cs[j + 1])
    BY <2>1 DEF InOrder
  <2> QED BY <2>1, <2>2, <2>3
<1> QED BY <1>5, <1>7, <1>8 DEF InOrder, ds

--------------------------------------------------------------------------------
(* The steps *)

LEMMA InitInv == Init => RecvInv
<1> SUFFICES ASSUME Init PROVE RecvInv
  OBVIOUS
<1>1. InOrder(<< >>, 0, 0)
  <2>1. << >> \in Seq(Views) /\ Len(<< >>) = 0 /\ 1 .. 0 = {}
    BY EmptySeq
  <2> QED BY <2>1 DEF InOrder
<1>2. InOrder(chunks, pos, given)
  BY <1>1 DEF Init, StreamInit
<1>3. StreamType
  <2>1. 0 \in Nat /\ 0 \in 0 .. 0
    OBVIOUS
  <2> QED BY <2>1 DEF Init, StreamInit, StreamType
<1>4. Told
  BY DEF Init, StreamInit, Told, EndMeansAll
<1>5. Held
  BY DEF Init, Held, PanicsOnlyOnPendingRead
<1> QED BY <1>2, <1>3, <1>4, <1>5 DEF RecvInv

LEMMA ReceiveInv == RecvInv /\ Receive => RecvInv'
  BY H3RecvAssumption
  DEF Receive, Arrive, adapterVars, RecvInv, StreamType, InOrder, Told, EndMeansAll, Held,
      PanicsOnlyOnPendingRead

\* A chunk that h3 is handed has bytes, and the one it is not has none.
LEMMA NewChunk ==
  ASSUME NEW off \in Nat, NEW n \in Nat, NEW f \in Fragments(n), NEW last \in BOOLEAN,
         n = 0 => last
  PROVE  LET b == NewBuffer(off, f, last) IN
         /\ b.len = n
         /\ Hidden(b) => n = 0
         /\ ~ Hidden(b) => /\ Live(b) /\ Len(b.buffers) <= MaxFragments
                           /\ At(b) = off /\ b.off = off
<1> DEFINE b == NewBuffer(off, f, last)
<1>1. /\ b.off = off /\ b.buffers = f /\ b.len = Total(f) /\ b.cursor = 0 /\ b.inBuffer = 0
      /\ b.fin = last
  BY DEF NewBuffer
<1>2. b = [off |-> off, buffers |-> f, len |-> Total(f), cursor |-> 0, inBuffer |-> 0, fin |-> last]
  BY DEF NewBuffer
<1> HIDE DEF b
<1>3. CASE n = 0
  <2>1. f \in Seq(Nat) /\ Total(f) = 0 /\ Len(f) \in Nat
    <3>1. CASE f = <<0>>
      <4>1. f \in Seq(Nat) /\ Len(f) = 1 /\ f[1] = 0
        BY <3>1
      <4>2. 1 \in 1 .. Len(f) /\ 1 - 1 = 0
        BY <4>1
      <4>3. Sums(f)[1] = Sums(f)[0] + f[1] /\ Sums(f)[0] = 0
        BY <4>1, <4>2, SumsFacts
      <4> QED BY <4>1, <4>3 DEF Total
    <3>2. CASE f # <<0>>
      <4>1. PICK m \in 0 .. MaxFragments : f \in [1 .. m -> 1 .. n] /\ Total(f) = n
        BY <3>2 DEF Fragments
      <4>2. f \in Seq(Nat)
        BY <4>1, H3RecvAssumption
      <4> QED BY <1>3, <4>1, <4>2
    <3> QED BY <3>1, <3>2
  <2>2. Sums(f)[0] = 0
    BY <2>1, SumsFacts
  <2>3. Remaining(b) = 0
    BY <1>1, <2>1, <2>2 DEF Remaining, Exhausted
  <2> QED BY <1>1, <1>3, <2>1, <2>3 DEF Hidden, IsEmpty, b
<1>4. CASE n # 0
  <2>1. PICK m \in 0 .. MaxFragments : f \in [1 .. m -> 1 .. n] /\ Total(f) = n
    BY <1>4 DEF Fragments
  <2>2. m \in Nat /\ f \in Seq(Nat \ {0}) /\ f \in Seq(Nat) /\ Len(f) = m /\ m <= MaxFragments
    BY <2>1, H3RecvAssumption
  <2>3. Sums(f)[0] = 0
    BY <2>2, SumsFacts
  <2>4. m # 0
    BY <1>4, <2>1, <2>2, <2>3 DEF Total
  <2>5. f[0 + 1] \in Nat \ {0}
    <3>1. 1 \in 1 .. m /\ 0 + 1 = 1
      BY <2>2, <2>4
    <3> QED BY <2>1, <3>1
  <2>6. b \in Views
    BY <1>2, <2>1, <2>2 DEF Views
  <2>7. Live(b)
    BY <1>1, <2>2, <2>4, <2>5, <2>6 DEF Live
  <2>8. Place(b) = 0
    BY <1>1, <2>3 DEF Place
  <2>9. ~ Hidden(b)
    BY <2>7, LiveFacts DEF Hidden, IsEmpty
  <2>10. At(b) = off
    BY <1>1, <2>7, <2>8, LiveFacts
  <2> QED BY <1>1, <2>1, <2>2, <2>7, <2>9, <2>10 DEF b
<1> QED BY <1>3, <1>4

LEMMA PollDataInv == RecvInv /\ PollData => RecvInv'
<1> SUFFICES ASSUME RecvInv, PollData PROVE RecvInv'
  OBVIOUS
<1>1. /\ arrived \in Nat /\ given \in Nat /\ given <= arrived /\ complete \in BOOLEAN
      /\ finTaken \in BOOLEAN /\ InOrder(chunks, pos, given) /\ handed = given
  BY DEF RecvInv, StreamType, Told
<1>2. ~ panicked /\ UNCHANGED <<broken, pos, panicked>>
  BY DEF PollData
\* A chunk: as h3 is handed it, or the end that it stands for.
<1>3. ASSUME NEW n \in given .. arrived, NEW last \in BOOLEAN, ReadsChunk(n, last), Restore(FALSE),
             NEW f \in Fragments(given' - given),
             LET b == NewBuffer(given, f, finTaken') IN
             IF Hidden(b) THEN end' = TRUE /\ UNCHANGED <<chunks, handed>>
             ELSE chunks' = Append(chunks, b) /\ handed' = handed + b.len /\ UNCHANGED end
      PROVE  RecvInv'
  <2> DEFINE b == NewBuffer(given, f, finTaken')
  <2>1. /\ given' = n /\ finTaken' = last /\ n \in Nat /\ n - given \in Nat
        /\ UNCHANGED <<arrived, complete, abandoned>>
        /\ last => complete /\ n = arrived
        /\ n = given => last
        /\ ~ finTaken /\ ~ abandoned
    BY <1>1, <1>3 DEF ReadsChunk, Read
  <2>2. n - given = 0 => last
    BY <1>1, <2>1
  <2>3. /\ b.len = n - given
        /\ Hidden(b) => n - given = 0
        /\ ~ Hidden(b) => /\ Live(b) /\ Len(b.buffers) <= MaxFragments
                          /\ At(b) = given /\ b.off = given
    BY <1>1, <1>3, <2>1, <2>2, NewChunk
  <2>4. IF Hidden(b) THEN end' = TRUE /\ UNCHANGED <<chunks, handed>>
        ELSE chunks' = Append(chunks, b) /\ handed' = handed + b.len /\ UNCHANGED end
    BY <1>3
  <2> HIDE DEF b
  <2>5. StreamType'
    BY <1>1, <2>1 DEF StreamType
  <2>6. InOrder(chunks, pos, given)' /\ handed' = given' /\ (end' = end \/ (end' = TRUE /\ last))
    <3>1. CASE Hidden(b)
      <4>1. n = given
        BY <1>1, <2>1, <2>3, <3>1
      <4> QED BY <1>1, <1>2, <2>1, <2>2, <2>3, <2>4, <3>1, <4>1 DEF InOrder
    <3>2. CASE ~ Hidden(b)
      <4>1. b.off + b.len = n /\ handed + b.len = n
        BY <1>1, <2>1, <2>3, <3>2
      <4>2. InOrder(Append(chunks, b), pos, n)
        BY <1>1, <2>3, <3>2, <4>1, AppendInOrder
      <4> QED BY <1>2, <2>1, <2>4, <3>2, <4>1, <4>2 DEF InOrder
    <3> QED BY <3>1, <3>2
  <2>7. Told'
    BY <1>1, <2>1, <2>6 DEF Told, EndMeansAll, RecvInv
  <2>8. Held'
    BY <1>2, <1>3 DEF Restore, Held, PanicsOnlyOnPendingRead
  <2> QED BY <2>5, <2>6, <2>7, <2>8 DEF RecvInv
<1>4. ASSUME ReadsEnd, Restore(FALSE), end' = TRUE, UNCHANGED <<chunks, handed>> PROVE RecvInv'
  BY <1>2, <1>4
  DEF ReadsEnd, Read, Restore, RecvInv, StreamType, InOrder, Told, EndMeansAll, Held,
      PanicsOnlyOnPendingRead
<1>5. ASSUME UNCHANGED <<streamVars, finTaken>>, UNCHANGED <<chunks, handed, end>>,
             reading' = ~ stream', stream' \in BOOLEAN
      PROVE  RecvInv'
  BY <1>2, <1>5
  DEF streamVars, RecvInv, StreamType, InOrder, Told, EndMeansAll, Held, PanicsOnlyOnPendingRead
<1>6. ASSUME ReadsError, Restore(TRUE), UNCHANGED <<chunks, handed, end>> PROVE RecvInv'
  BY <1>5, <1>6 DEF ReadsError, Restore
<1>7. ASSUME ReadPends, stream' = FALSE, reading' = TRUE, UNCHANGED <<chunks, handed, end>>
      PROVE  RecvInv'
  BY <1>5, <1>7 DEF ReadPends
<1> QED BY <1>3, <1>4, <1>6, <1>7 DEF PollData

LEMMA PanicInv == RecvInv /\ Panic => RecvInv'
<1> SUFFICES ASSUME RecvInv, Panic PROVE RecvInv'
  OBVIOUS
<1>1. (StreamType /\ InOrder(chunks, pos, given) /\ Told)'
  BY DEF Panic, streamVars, adapterVars, RecvInv, StreamType, InOrder, Told, EndMeansAll
<1>2. Held'
  BY DEF Panic, adapterVars, RecvInv, Held, PanicsOnlyOnPendingRead
<1> QED BY <1>1, <1>2 DEF RecvInv

LEMMA StopSendingInv == RecvInv /\ StopSending => RecvInv'
  BY DEF StopSending, Abandon, streamVars, adapterVars, RecvInv, StreamType, InOrder, Told,
         EndMeansAll, Held, PanicsOnlyOnPendingRead

LEMMA ConsumeInv ==
  ASSUME RecvInv, chunks # << >>, NEW b, NEW k \in Nat, Moved(chunks[1], b, k), Consume(b, k)
  PROVE  RecvInv'
<1>1. UNCHANGED <<arrived, complete, given, abandoned, finTaken, stream, reading, handed, end, panicked>>
  BY DEF Consume, Release, streamVars, adapterVars
<1>2. InOrder(chunks, pos, given)'
  <2>1. pos' = pos + k /\ InOrder(chunks, pos, given)
    BY DEF Consume, RecvInv
  <2>2. CASE Remaining(b) > 0
    <3>1. InOrder([chunks EXCEPT ![1] = b], pos + k, given)
      BY <2>1, <2>2, FrontInOrder
    <3> QED BY <1>1, <2>1, <2>2, <3>1 DEF Consume, InOrder
  <2>3. CASE ~ (Remaining(b) > 0)
    <3>1. InOrder(Tail(chunks), pos + k, given)
      BY <2>1, <2>3, TailInOrder
    <3> QED BY <1>1, <2>1, <2>3, <3>1 DEF Consume, InOrder
  <2> QED BY <2>2, <2>3
<1> QED BY <1>1, <1>2
        DEF RecvInv, StreamType, Told, EndMeansAll, Held, PanicsOnlyOnPendingRead

LEMMA StepInv ==
  ASSUME RecvInv, [Next]_vars
  PROVE  RecvInv'
<1>1. ASSUME chunks # << >> PROVE Live(chunks[1])
  <2>1. 1 \in 1 .. Len(chunks)
    BY <1>1, EmptySeq DEF RecvInv, InOrder
  <2> QED BY <2>1 DEF RecvInv, InOrder
<1>2. ASSUME NEW k \in 1 .. MaxBytes, ConsumeByAdvance(k) PROVE RecvInv'
  <2>1. chunks # << >> /\ k <= Remaining(chunks[1]) /\ Consume(Advance(chunks[1], k), k) /\ k \in Nat
    BY <1>2, H3RecvAssumption DEF ConsumeByAdvance
  <2>2. Moved(chunks[1], Advance(chunks[1], k), k)
    BY <1>1, <2>1, AdvanceMoves
  <2> QED BY <2>1, <2>2, ConsumeInv
<1>3. ASSUME NEW k \in 1 .. MaxBytes, ConsumeByGetBytes(k) PROVE RecvInv'
  <2> DEFINE n == SliceUpTo(chunks[1], k)
  <2>1. chunks # << >> /\ Consume(GetBytes(chunks[1], k), n) /\ k \in Nat \ {0}
    BY <1>3, H3RecvAssumption DEF ConsumeByGetBytes
  <2>2. Moved(chunks[1], GetBytes(chunks[1], k), n) /\ n \in Nat
    BY <1>1, <2>1, GetBytesMoves
  <2> HIDE DEF n
  <2> QED BY <2>1, <2>2, ConsumeInv
<1>4. CASE Break \/ UNCHANGED vars
  BY <1>4
  DEF Break, vars, streamVars, adapterVars, RecvInv, StreamType, InOrder, Told, EndMeansAll,
      Held, PanicsOnlyOnPendingRead
<1> QED BY <1>2, <1>3, <1>4, ReceiveInv, PollDataInv, PanicInv, StopSendingInv DEF Next

LEMMA RecvInvariance == Spec => []RecvInv
<1>1. RecvInv /\ [Next]_vars => RecvInv'
  BY StepInv
<1> QED BY <1>1, InitInv, PTL DEF Spec

--------------------------------------------------------------------------------
(* The properties *)

\* buffer.rs:102-187: for chunks of any number of fragments of any length, moved
\* by any calls of advance and get_bytes_upto_size, what h3 sees of the stream is
\* the next byte and all that follows it, without a gap.
THEOREM ViewsNext == Spec => []BufferViewsNext
<1>1. RecvInv => BufferViewsNext
  <2> SUFFICES ASSUME RecvInv PROVE BufferViewsNext
    OBVIOUS
  <2>1. InOrder(chunks, pos, given) /\ Len(chunks) \in Nat /\ DOMAIN chunks = 1 .. Len(chunks)
    BY DEF RecvInv, InOrder
  <2>2. chunks # << >> => At(chunks[1]) = pos
    BY <2>1 DEF InOrder
  <2>3. ASSUME NEW i \in 1 .. Len(chunks)
        PROVE  /\ Remaining(chunks[i]) = Total(ChunksVectored(chunks[i], MaxFragments))
               /\ Chunk(chunks[i]) > 0
    <3>1. Live(chunks[i]) /\ Len(chunks[i].buffers) <= MaxFragments
      BY <2>1 DEF InOrder
    <3>2. Chunk(chunks[i]) \in Nat \ {0}
      BY <3>1, LiveFacts, GetBytesMoves DEF Chunk
    <3> QED BY <3>1, <3>2, VectoredIsRest, H3RecvAssumption
  <2>4. ASSUME NEW i \in 1 .. Len(chunks), i > 1
        PROVE  At(chunks[i]) = chunks[i - 1].off + chunks[i - 1].len
    <3>1. i - 1 \in 1 .. Len(chunks) /\ i - 1 # Len(chunks) /\ (i - 1) + 1 = i
      BY <2>1, <2>4
    <3> QED BY <2>1, <3>1 DEF InOrder
  <2> QED BY <2>1, <2>2, <2>3, <2>4 DEF BufferViewsNext
<1> QED BY <1>1, RecvInvariance, PTL

\* lib.rs:421-438: h3 is told of the end when it was handed every byte, for any
\* stream, or when it stopped the stream itself.
THEOREM EndAfterAll == Spec => []EndMeansAll
  BY RecvInvariance, PTL DEF RecvInv, Told

\* lib.rs:441-454: stop_sending and recv_id find no stream only while a read of
\* h3's is pending.
THEOREM PanicsWhilePending == Spec => []PanicsOnlyOnPendingRead
  BY RecvInvariance, PTL DEF RecvInv, Held
================================================================================

----------------------------- MODULE TreeProofs -----------------------------
(***************************************************************************)
(* The tree of the timers is a red-black tree, in the order of the keys,   *)
(* whatever is inserted and removed: for every set of entries and of keys. *)
(* The proof gives each entry of the tree its position in the order of the *)
(* tree and the positions of the first and the last entry below it, which  *)
(* the program does not have (Shape); the number of black entries below it *)
(* (Heights); and the only entry whose color may be wrong (Colors).  Every *)
(* rotation, every turn of the two repairs and both operations are stated  *)
(* with them.  A loop of the code is a function of what it changes; it     *)
(* exists whatever its turns do (LoopExists), and it ends because a number *)
(* falls with each turn.                                                   *)
(***************************************************************************)
EXTENDS IntervalTree, ListLemmas

-----------------------------------------------------------------------------
(* Loops *)

(* h is the way of a loop from s to u, in n turns. *)
Way(S, Stop, next, s, u, n, h) ==
  /\ h \in [0 .. n -> S] /\ h[0] = s /\ h[n] = u
  /\ \A i \in 0 .. n - 1 : h[i] \notin Stop /\ h[i + 1] = next[h[i]]

(* The states in Stop to which a loop comes from s, one turn after another.*)
Ends(S, Stop, next, s) ==
  {u \in Stop : \E n \in Nat : \E h : Way(S, Stop, next, s, u, n, h)}

(* A turn changes nothing of where a loop ends. *)
LEMMA SameEnds ==
  ASSUME NEW S, NEW Stop, Stop \subseteq S, NEW next, NEW s \in S \ Stop,
         next[s] \in S
  PROVE  Ends(S, Stop, next, s) = Ends(S, Stop, next, next[s])
  <1>1. ASSUME NEW u \in Ends(S, Stop, next, s)
        PROVE  u \in Ends(S, Stop, next, next[s])
    <2>0. PICK n \in Nat : \E h : Way(S, Stop, next, s, u, n, h)
          BY <1>1 DEF Ends
    <2>1. PICK h : Way(S, Stop, next, s, u, n, h)
          BY <2>0
    <2>2. u \in Stop
          BY <1>1 DEF Ends
    <2>3. n # 0
          BY <2>1, <2>2 DEF Way
    <2> DEFINE m == n - 1
               g == [i \in 0 .. m |-> h[i + 1]]
    <2>4. m \in Nat /\ m + 1 = n
          BY <2>3
    <2>5. g \in [0 .. m -> S]
          BY <2>1, <2>4 DEF Way
    <2>6. g[0] = next[s] /\ g[m] = u
          BY <2>1, <2>4 DEF Way
    <2>7. \A i \in 0 .. m - 1 : g[i] \notin Stop /\ g[i + 1] = next[g[i]]
      <3> TAKE i \in 0 .. m - 1
      <3>1. i + 1 \in 0 .. n - 1 /\ i \in 0 .. m /\ i + 1 \in 0 .. m
            BY <2>4
      <3> QED BY <2>1, <3>1 DEF Way
    <2> HIDE DEF g, m
    <2> QED BY <2>2, <2>4, <2>5, <2>6, <2>7 DEF Ends, Way
  <1>2. ASSUME NEW u \in Ends(S, Stop, next, next[s])
        PROVE  u \in Ends(S, Stop, next, s)
    <2>0. PICK n \in Nat : \E h : Way(S, Stop, next, next[s], u, n, h)
          BY <1>2 DEF Ends
    <2>1. PICK h : Way(S, Stop, next, next[s], u, n, h)
          BY <2>0
    <2>2. u \in Stop
          BY <1>2 DEF Ends
    <2> DEFINE m == n + 1
               g == [i \in 0 .. m |-> IF i = 0 THEN s ELSE h[i - 1]]
    <2>3. m \in Nat /\ m - 1 = n /\ m # 0
          OBVIOUS
    <2>4. g \in [0 .. m -> S]
      <3>1. \A i \in 0 .. m : i # 0 => i - 1 \in 0 .. n
            OBVIOUS
      <3> QED BY <2>1, <3>1 DEF Way
    <2>5. g[0] = s /\ g[m] = u
          BY <2>1, <2>3 DEF Way
    <2>6. \A i \in 0 .. m - 1 : g[i] \notin Stop /\ g[i + 1] = next[g[i]]
      <3> TAKE i \in 0 .. m - 1
      <3>1. i \in 0 .. m /\ i + 1 \in 0 .. m /\ i + 1 # 0 /\ (i + 1) - 1 = i
            BY <2>3
      <3>2. g[i + 1] = h[i]
            BY <3>1
      <3>3. CASE i = 0
            BY <2>1, <3>2, <3>3 DEF Way
      <3>4. CASE i # 0
        <4>1. i - 1 \in 0 .. n - 1 /\ (i - 1) + 1 = i
              BY <2>3, <3>4
        <4>2. g[i] = h[i - 1]
              BY <3>1, <3>4
        <4> QED BY <2>1, <3>2, <4>1, <4>2 DEF Way
      <3> QED BY <3>3, <3>4
    <2> HIDE DEF g, m
    <2> QED BY <2>2, <2>3, <2>4, <2>5, <2>6 DEF Ends, Way
  <1> QED BY <1>1, <1>2

(* next leads from a state of S in which the loop does not stop to another,*)
(* and f is the loop: in Stop its value is given by g.                     *)
Loops(S, Stop, next) == Stop \subseteq S /\ \A s \in S \ Stop : next[s] \in S

IsLoop(S, Stop, g, next, f) ==
  f = [s \in S |-> IF s \in Stop THEN g[s] ELSE f[next[s]]]

(* Inv[n] holds when at most n turns are left. *)
Descends(S, Stop, next, Inv) ==
  /\ \A n \in Nat : Inv[n] \subseteq S
  /\ \A n \in Nat : \A s \in Inv[n] \ Stop :
       \E m \in Nat : m < n /\ next[s] \in Inv[m]

(* A loop is a function: of the state in which it stops, if it does.       *)
LEMMA LoopExists ==
  ASSUME NEW S, NEW Stop, NEW g, NEW next, Loops(S, Stop, next)
  PROVE  \E f : IsLoop(S, Stop, g, next, f)
  <1>0. Stop \subseteq S /\ \A s \in S \ Stop : next[s] \in S
        BY DEF Loops
  <1> USE <1>0
  <1> DEFINE E(s) == Ends(S, Stop, next, s)
             f == [s \in S |-> g[CHOOSE u \in E(s) : TRUE]]
  <1>1. ASSUME NEW s \in Stop PROVE E(s) = {s}
    <2>1. s \in E(s)
      <3> DEFINE h == [i \in 0 .. 0 |-> s]
      <3>1. h \in [0 .. 0 -> S] /\ h[0] = s
            OBVIOUS
      <3>2. \A i \in 0 .. 0 - 1 : h[i] \notin Stop /\ h[i + 1] = next[h[i]]
            OBVIOUS
      <3> HIDE DEF h
      <3>3. Way(S, Stop, next, s, s, 0, h)
            BY <3>1, <3>2 DEF Way
      <3> QED BY <3>3 DEF Ends
    <2>2. ASSUME NEW u \in E(s) PROVE u = s
      <3>0. PICK n \in Nat : \E h : Way(S, Stop, next, s, u, n, h)
            BY <2>2 DEF Ends
      <3>1. PICK h : Way(S, Stop, next, s, u, n, h)
            BY <3>0
      <3>2. n = 0
        <4>1. n # 0 => 0 \in 0 .. n - 1
              OBVIOUS
        <4> QED BY <3>1, <4>1 DEF Way
      <3> QED BY <3>1, <3>2 DEF Way
    <2> QED BY <2>1, <2>2
  <1>2. ASSUME NEW s \in S \ Stop PROVE E(s) = E(next[s])
        BY SameEnds
  <1> HIDE DEF E
  <1>3. ASSUME NEW s \in S
        PROVE  f[s] = IF s \in Stop THEN g[s] ELSE f[next[s]]
    <2>1. CASE s \in Stop
      <3>1. (CHOOSE u \in E(s) : TRUE) = s
        <4>1. \A u : u \in E(s) <=> u = s
              BY <1>1, <2>1
        <4> QED BY <4>1
      <3>2. f[s] = g[CHOOSE u \in E(s) : TRUE]
            OBVIOUS
      <3> HIDE DEF f
      <3> QED BY <2>1, <3>1, <3>2
    <2>2. CASE s \notin Stop
          BY <1>2, <2>2
    <2> QED BY <2>1, <2>2
  <1>4. f = [s \in S |-> IF s \in Stop THEN g[s] ELSE f[next[s]]]
        BY <1>3
  <1> QED BY <1>4 DEF IsLoop

(* A loop that descends ends in one of these states. *)
LEMMA LoopEnds ==
  ASSUME NEW S, NEW Stop, NEW g, NEW next, NEW f,
         IsLoop(S, Stop, g, next, f),
         NEW Inv, Descends(S, Stop, next, Inv), NEW k \in Nat, NEW s0 \in Inv[k]
  PROVE  \E m \in Nat : \E u \in Inv[m] : u \in Stop /\ f[s0] = g[u]
  <1>0. /\ f = [s \in S |-> IF s \in Stop THEN g[s] ELSE f[next[s]]]
        /\ \A n \in Nat : Inv[n] \subseteq S
        /\ \A n \in Nat : \A s \in Inv[n] \ Stop :
             \E m \in Nat : m < n /\ next[s] \in Inv[m]
        BY DEF IsLoop, Descends
  <1> USE <1>0
  <1> DEFINE Comes(s) == \E m \in Nat : \E u \in Inv[m] : u \in Stop /\ f[s] = g[u]
             Bad == {n \in Nat : \E s \in Inv[n] : ~Comes(s)}
  <1>1. ASSUME Bad # {} PROVE FALSE
    <2>1. PICK n \in Bad : \A m \in Bad : n <= m
      <3>1. Bad \subseteq Nat
            OBVIOUS
      <3> HIDE DEF Bad
      <3> QED BY <1>1, <3>1, MinOfNaturals
    <2>2. PICK s \in Inv[n] : ~Comes(s)
          BY <2>1
    <2>3. n \in Nat /\ s \in S
          BY <2>1
    <2>4. CASE s \in Stop
      <3>1. f[s] = g[s]
            BY <2>3, <2>4
      <3> QED BY <2>2, <2>3, <2>4, <3>1
    <2>5. CASE s \notin Stop
      <3>1. PICK m \in Nat : m < n /\ next[s] \in Inv[m]
            BY <2>3, <2>5
      <3>2. m \notin Bad
            BY <2>1, <2>3, <3>1
      <3>3. Comes(next[s])
            BY <3>1, <3>2
      <3>4. f[s] = f[next[s]]
            BY <2>3, <2>5
      <3> QED BY <2>2, <3>3, <3>4
    <2> QED BY <2>4, <2>5
  <1> QED BY <1>1

(* The sides. *)
LEMMA TwoSides ==
  ASSUME NEW d \in Sides
  PROVE  /\ Opposite(d) \in Sides /\ Opposite(d) # d
         /\ Opposite(Opposite(d)) = d
         /\ \A s \in Sides : s # d => s = Opposite(d)
  BY DEF Sides, Opposite

(* The links of a tree, by their side. *)
LEMMA Links ==
  ASSUME NEW t \in TreeRecords, NEW d \in Sides
  PROVE  /\ t[d] = IF d = "left" THEN t.left ELSE t.right
         /\ t[d] \in [Pointers -> Pointers] /\ t.up \in [Pointers -> Pointers]
         /\ t.color \in [Pointers -> {"red", "black", "invalid"}]
         /\ t.root \in Pointers
  BY DEF Sides, TreeRecords

(* Writing a link, a parent or a color changes nothing else. *)
LEMMA Linked ==
  ASSUME NEW t \in TreeRecords, NEW d \in Sides, NEW n \in Pointers,
         NEW c \in Pointers
  PROVE  LET u == Link(t, n, d, c)
         IN /\ u \in TreeRecords
            /\ u[d] = [t[d] EXCEPT ![n] = c]
            /\ u[Opposite(d)] = t[Opposite(d)]
            /\ u.up = t.up /\ u.root = t.root /\ u.color = t.color
  <1>1. CASE d = "left"
        BY <1>1 DEF Sides, TreeRecords, Link, Opposite
  <1>2. CASE d = "right"
        BY <1>2 DEF Sides, TreeRecords, Link, Opposite
  <1> QED BY <1>1, <1>2 DEF Sides

(* SetUp changes rbe_up and nothing else. *)
LEMMA ParentSet ==
  ASSUME NEW t \in TreeRecords, NEW n \in Pointers, NEW c \in Pointers
  PROVE  LET u == SetUp(t, n, c)
         IN /\ u \in TreeRecords
            /\ u.up = IF n = NULL THEN t.up ELSE [t.up EXCEPT ![n] = c]
            /\ \A d \in Sides : u[d] = t[d]
            /\ u.root = t.root /\ u.color = t.color
  BY DEF SetUp, TreeRecords, Sides

(* Paint changes rbe_color and nothing else. *)
LEMMA Painted ==
  ASSUME NEW t \in TreeRecords, NEW n \in Pointers,
         NEW c \in {"red", "black", "invalid"}
  PROVE  LET u == Paint(t, n, c)
         IN /\ u \in TreeRecords
            /\ u.color = [t.color EXCEPT ![n] = c]
            /\ \A d \in Sides : u[d] = t[d]
            /\ u.root = t.root /\ u.up = t.up
  BY DEF Paint, TreeRecords, Sides

(* n takes the place of old, a child of p on the side s, or the root. *)
LEMMA Replaced ==
  ASSUME NEW t \in TreeRecords, NEW old \in Pointers, NEW p \in Pointers,
         NEW n \in Pointers, NEW s \in Sides,
         p # NULL => t[s][p] = old /\ t[Opposite(s)][p] # old
  PROVE  LET u == Replace(t, old, p, n)
         IN /\ u \in TreeRecords
            /\ u.root = IF p = NULL THEN n ELSE t.root
            /\ \A d \in Sides :
                 u[d] = IF p # NULL /\ d = s THEN [t[d] EXCEPT ![p] = n] ELSE t[d]
            /\ u.up = t.up /\ u.color = t.color
  <1>1. CASE p = NULL
        BY <1>1 DEF Replace, TreeRecords, Sides
  <1>2. CASE p # NULL
    <2>1. (IF old = t.left[p] THEN "left" ELSE "right") = s
          BY <1>2 DEF Sides, Opposite, TreeRecords
    <2>2. Replace(t, old, p, n) = Link(t, p, s, n)
          BY <1>2, <2>1 DEF Replace
    <2> DEFINE u == Link(t, p, s, n)
    <2>3. /\ u \in TreeRecords /\ u[s] = [t[s] EXCEPT ![p] = n]
          /\ u[Opposite(s)] = t[Opposite(s)]
          /\ u.up = t.up /\ u.root = t.root /\ u.color = t.color
          BY Linked
    <2> HIDE DEF u
    <2>4. \A d \in Sides : d = s \/ d = Opposite(s)
          BY TwoSides
    <2>5. Opposite(s) # s
          BY TwoSides
    <2>6. \A d \in Sides : u[d] = IF d = s THEN [t[d] EXCEPT ![p] = n] ELSE t[d]
          BY <2>3, <2>4, <2>5
    <2> QED BY <1>2, <2>2, <2>3, <2>6 DEF u
  <1> QED BY <1>1, <1>2

-----------------------------------------------------------------------------
(* The shape of a tree *)

Near(d) == IF d = "left" THEN -1 ELSE 1

(* The tree t has the entries M, N of them, at the positions pos of its    *)
(* order; the entries below n are those from e.left[n] to e.right[n].      *)
Root(t, M, N, e) ==
  IF t.root = NULL THEN M = {} /\ N = 0
  ELSE /\ t.root \in M /\ t.up[t.root] = NULL
       /\ e["left"][t.root] = 1 /\ e["right"][t.root] = N

Kid(t, M, pos, e, n, d) ==
  IF t[d][n] = NULL THEN e[d][n] = pos[n]
  ELSE /\ t[d][n] \in M /\ t.up[t[d][n]] = n
       /\ e[d][t[d][n]] = e[d][n]
       /\ e[Opposite(d)][t[d][n]] = pos[n] + Near(d)

Up(t, M, n) ==
  n # t.root => t.up[n] \in M /\ \E d \in Sides : t[d][t.up[n]] = n

Spans(N, pos, e, n) ==
  1 <= e["left"][n] /\ e["left"][n] <= pos[n]
    /\ pos[n] <= e["right"][n] /\ e["right"][n] <= N

Ghosts(M, N, pos, e) ==
  /\ M \subseteq Entries /\ N \in Nat
  /\ pos \in [Entries -> Int] /\ e \in [Sides -> [Entries -> Int]]

Shape(t, M, N, pos, e) ==
  /\ t \in TreeRecords /\ Ghosts(M, N, pos, e) /\ Root(t, M, N, e)
  /\ \A n \in M : /\ Spans(N, pos, e, n) /\ Up(t, M, n)
                  /\ \A d \in Sides : Kid(t, M, pos, e, n, d)

(* What Shape says of the number of entries below n. *)
Size(e, n) == e["right"][n] - e["left"][n]

(* The numbers of an entry of the tree, and their order. *)
LEMMA Numbers ==
  ASSUME NEW t, NEW M, NEW N, NEW pos, NEW e, Shape(t, M, N, pos, e),
         NEW n \in M
  PROVE  /\ n \in Entries /\ n \in Pointers /\ n # NULL /\ pos[n] \in Int
         /\ \A d \in Sides : e[d][n] \in Int
         /\ Size(e, n) \in Nat /\ Size(e, n) < N
         /\ e["left"][n] <= pos[n] /\ pos[n] <= e["right"][n]
         /\ 1 <= e["left"][n] /\ e["right"][n] <= N /\ N \in Nat
  <1>1. Ghosts(M, N, pos, e) /\ Spans(N, pos, e, n)
        BY DEF Shape
  <1>2. /\ n \in Entries /\ n \in Pointers /\ n # NULL /\ pos[n] \in Int
        /\ \A d \in Sides : e[d][n] \in Int
        BY <1>1, KeysAssumption DEF Ghosts, Pointers, KeysAssumption
  <1>3. e["left"][n] \in Int /\ e["right"][n] \in Int /\ N \in Nat
        BY <1>1, <1>2 DEF Sides, Ghosts
  <1> QED BY <1>1, <1>2, <1>3 DEF Size, Spans

(* A child, and that it is smaller than its parent. *)
LEMMA KidOf ==
  ASSUME NEW t, NEW M, NEW N, NEW pos, NEW e, Shape(t, M, N, pos, e),
         NEW n \in M, NEW d \in Sides, NEW c, c = t[d][n], c # NULL
  PROVE  /\ c \in M /\ t.up[c] = n /\ c # t.root
         /\ e[d][c] = e[d][n] /\ e[Opposite(d)][c] = pos[n] + Near(d)
         /\ Size(e, c) < Size(e, n) /\ c # n /\ t[Opposite(d)][n] # c
  <1>1. /\ c \in M /\ t.up[c] = n /\ e[d][c] = e[d][n]
        /\ e[Opposite(d)][c] = pos[n] + Near(d)
        BY DEF Shape, Kid
  <1>2. /\ pos[n] \in Int /\ pos[c] \in Int
        /\ e["left"][n] \in Int /\ e["right"][n] \in Int
        /\ e["left"][c] \in Int /\ e["right"][c] \in Int
        /\ e["left"][n] <= pos[n] /\ pos[n] <= e["right"][n]
        /\ e["left"][c] <= pos[c] /\ pos[c] <= e["right"][c]
        /\ n # NULL
        BY <1>1, Numbers DEF Sides
  <1>3. Size(e, c) < Size(e, n)
        BY <1>1, <1>2 DEF Size, Sides, Opposite, Near
  <1>4. c # t.root
        BY <1>1, <1>2 DEF Shape, Root
  <1>5. c # n
        BY <1>2, <1>3 DEF Size
  <1>6. t[Opposite(d)][n] # c
    <2>1. Kid(t, M, pos, e, n, Opposite(d))
          BY TwoSides DEF Shape
    <2>2. t[Opposite(d)][n] = c => e[Opposite(d)][c] = e[Opposite(d)][n]
                                /\ e[d][c] = pos[n] + Near(Opposite(d))
          BY <2>1, TwoSides DEF Kid
    <2> QED BY <1>1, <1>2, <2>2 DEF Sides, Opposite, Near
  <1> QED BY <1>1, <1>3, <1>4, <1>5, <1>6

(* A parent. *)
LEMMA ParentOf ==
  ASSUME NEW t, NEW M, NEW N, NEW pos, NEW e, Shape(t, M, N, pos, e),
         NEW n \in M
  PROVE  /\ n = t.root <=> t.up[n] = NULL
         /\ n # t.root => /\ t.up[n] \in M
                          /\ SideOf(t, n) \in Sides
                          /\ t[SideOf(t, n)][t.up[n]] = n
                          /\ t[Opposite(SideOf(t, n))][t.up[n]] # n
                          /\ Size(e, n) < Size(e, t.up[n])
  <1>1. n # NULL
        BY Numbers
  <1>2. n = t.root => t.up[n] = NULL
        BY <1>1 DEF Shape, Root
  <1>3. ASSUME n # t.root
        PROVE  /\ t.up[n] \in M /\ t.up[n] # NULL
               /\ SideOf(t, n) \in Sides
               /\ t[SideOf(t, n)][t.up[n]] = n
               /\ t[Opposite(SideOf(t, n))][t.up[n]] # n
               /\ Size(e, n) < Size(e, t.up[n])
    <2>1. Up(t, M, n)
          BY DEF Shape
    <2>2. PICK d \in Sides : t[d][t.up[n]] = n
          BY <1>3, <2>1 DEF Up
    <2>3. t.up[n] \in M
          BY <1>3, <2>1 DEF Up
    <2>4. /\ t[Opposite(d)][t.up[n]] # n
          /\ Size(e, n) < Size(e, t.up[n])
          BY <1>1, <2>2, <2>3, KidOf
    <2>5. t \in TreeRecords
          BY DEF Shape
    <2>6. SideOf(t, n) = d
          BY <2>2, <2>4, <2>5, Links DEF SideOf, Sides, Opposite
    <2> QED BY <2>2, <2>3, <2>4, <2>6, Numbers
  <1> QED BY <1>2, <1>3

(* Around a rotation: x, its child y, the child of y that changes parents, *)
(* and the parent of x are different entries.                              *)
LEMMA Around ==
  ASSUME NEW t, NEW M, NEW N, NEW pos, NEW e, Shape(t, M, N, pos, e),
         NEW x \in M, NEW d \in Sides, NEW y, y = t[Opposite(d)][x], y # NULL
  PROVE  /\ y \in M /\ y # x /\ t.up[y] = x /\ y # t.root
         /\ \A s \in Sides : LET c == t[s][y]
                             IN c # NULL => c \in M /\ c # x /\ c # y
                                            /\ t.up[c] = y
         /\ t[d][x] # y
         /\ t[d][x] # NULL => /\ t[d][x] \in M /\ t.up[t[d][x]] = x
                              /\ t[d][x] # x
                              /\ \A s \in Sides : t[s][y] # t[d][x]
         /\ t[d][y] # NULL => t[d][y] # t[Opposite(d)][y]
         /\ x # t.root => LET p == t.up[x]
                          IN /\ p \in M /\ p # x /\ p # y /\ p # NULL
                             /\ SideOf(t, x) \in Sides
                             /\ t[SideOf(t, x)][p] = x
                             /\ t[Opposite(SideOf(t, x))][p] # x
         /\ x = t.root <=> t.up[x] = NULL
  <1>1. Opposite(d) \in Sides /\ Opposite(Opposite(d)) = d
        BY TwoSides
  <1>2. /\ y \in M /\ y # x /\ t.up[y] = x /\ y # t.root
        /\ t[d][x] # y /\ Size(e, y) < Size(e, x)
        BY <1>1, KidOf
  <1>3. ASSUME NEW s \in Sides, NEW c, c = t[s][y], c # NULL
        PROVE  /\ c \in M /\ c # y /\ t.up[c] = y /\ c # x
               /\ t[Opposite(s)][y] # c
    <2>1. /\ c \in M /\ c # y /\ t.up[c] = y /\ Size(e, c) < Size(e, y)
          /\ t[Opposite(s)][y] # c
          BY <1>2, <1>3, KidOf
    <2>2. Size(e, c) \in Nat /\ Size(e, y) \in Nat /\ Size(e, x) \in Nat
          BY <1>2, <2>1, Numbers
    <2> QED BY <1>2, <2>1, <2>2
  <1>4. ASSUME t[d][x] # NULL
        PROVE  t[d][x] \in M /\ t.up[t[d][x]] = x /\ t[d][x] # x
        BY <1>4, KidOf
  <1>5. ASSUME t[d][x] # NULL, NEW s \in Sides, t[s][y] = t[d][x]
        PROVE  FALSE
        BY <1>2, <1>3, <1>4, <1>5
  <1>6. ASSUME x # t.root
        PROVE  LET p == t.up[x]
               IN /\ p \in M /\ p # x /\ p # y /\ p # NULL
                  /\ SideOf(t, x) \in Sides
                  /\ t[SideOf(t, x)][p] = x
                  /\ t[Opposite(SideOf(t, x))][p] # x
    <2> DEFINE p == t.up[x]
    <2>1. /\ p \in M /\ SideOf(t, x) \in Sides
          /\ t[SideOf(t, x)][p] = x
          /\ t[Opposite(SideOf(t, x))][p] # x
          /\ Size(e, x) < Size(e, p)
          BY <1>6, ParentOf
    <2>2. /\ Size(e, p) \in Nat /\ Size(e, y) \in Nat /\ Size(e, x) \in Nat
          /\ p # NULL
          BY <1>2, <2>1, Numbers
    <2> QED BY <1>2, <2>1, <2>2
  <1>7. x = t.root <=> t.up[x] = NULL
        BY ParentOf
  <1>8. t[d][y] # NULL => t[d][y] # t[Opposite(d)][y]
        BY <1>3
  <1> HIDE DEF Shape
  <1> QED BY <1>2, <1>3, <1>4, <1>5, <1>6, <1>7, <1>8

(* A rotation, step by step. *)
LEMMA RotateSteps ==
  ASSUME NEW t, NEW x, NEW d, NEW y, y = t[Opposite(d)][x],
         NEW a, a = Hang(t, x, Opposite(d), t[d][y]),
         NEW f, f = Lift(a, x, y)
  PROVE  Rotate(t, x, d) = Hang(f, y, d, x)
  BY DEF Rotate

(* What a rotation writes. *)
LEMMA Rotated ==
  ASSUME NEW t, NEW M, NEW N, NEW pos, NEW e, Shape(t, M, N, pos, e),
         NEW x \in M, NEW d \in Sides, NEW y, y = t[Opposite(d)][x], y # NULL,
         NEW r, r = Rotate(t, x, d)
  PROVE  /\ r \in TreeRecords /\ r.color = t.color
         /\ r.root = IF x = t.root THEN y ELSE t.root
         /\ \A n \in Pointers : \A s \in Sides :
              r[s][n] = IF n = x /\ s = Opposite(d) THEN t[d][y]
                        ELSE IF n = y /\ s = d THEN x
                        ELSE IF n = t.up[x] /\ x # t.root /\ s = SideOf(t, x)
                             THEN y
                        ELSE t[s][n]
         /\ \A n \in Pointers :
              r.up[n] = IF n = x THEN y
                        ELSE IF n = y THEN t.up[x]
                        ELSE IF n = t[d][y] /\ n # NULL THEN x
                        ELSE t.up[n]
  <1> DEFINE o == Opposite(d)
             in == t[d][y]
             p == t.up[x]
             a == Link(t, x, o, in)
             b == SetUp(a, in, x)
             c == SetUp(b, y, p)
             f == Replace(c, x, p, y)
             g == Link(f, y, d, x)
             q == IF x = t.root THEN "left" ELSE SideOf(t, x)
  <1>1. /\ b = Hang(t, x, Opposite(d), t[d][y])
        /\ SetUp(g, x, y) = Hang(f, y, d, x)
        BY DEF Hang
  <1>2. t \in TreeRecords /\ o \in Sides /\ o # d /\ Opposite(o) = d
        /\ \A s \in Sides : s # d => s = o
        BY TwoSides DEF Shape
  <1>3. M \subseteq Pointers /\ NULL \notin M
        BY Numbers
  <1>4. /\ x \in Pointers /\ y \in Pointers /\ in \in Pointers /\ p \in Pointers
        /\ x # NULL /\ x # y /\ in # x /\ in # y
        BY <1>2, <1>3, Around, Links DEF Pointers
  <1>5. /\ p # NULL => p # x /\ p # y /\ t[q][p] = x /\ t[Opposite(q)][p] # x
        /\ q \in Sides /\ Opposite(q) \in Sides
        /\ x = t.root <=> p = NULL
        /\ \A s \in Sides : s # q => s = Opposite(q)
    <2>1. q \in Sides
          BY Around DEF Sides
    <2> QED BY <2>1, Around, TwoSides
  <1>6. /\ a \in TreeRecords /\ a[o] = [t[o] EXCEPT ![x] = in] /\ a[d] = t[d]
        /\ a.up = t.up /\ a.root = t.root /\ a.color = t.color
        BY <1>2, <1>4, Linked
  <1> HIDE DEF a
  <1>7. /\ b \in TreeRecords
        /\ b.up = IF in = NULL THEN t.up ELSE [t.up EXCEPT ![in] = x]
        /\ \A s \in Sides : b[s] = a[s]
        /\ b.root = t.root /\ b.color = t.color
        BY <1>4, <1>6, ParentSet
  <1> HIDE DEF b
  <1>8. /\ c \in TreeRecords
        /\ c.up = [b.up EXCEPT ![y] = p]
        /\ \A s \in Sides : c[s] = b[s]
        /\ c.root = t.root /\ c.color = t.color
        BY <1>4, <1>7, ParentSet
  <1> HIDE DEF c
  <1>9. \A s \in Sides : \A n \in Pointers : n # x => c[s][n] = t[s][n]
    <2>1. \A s \in Sides : c[s] = a[s]
          BY <1>7, <1>8
    <2>2. t[o] \in [Pointers -> Pointers]
          BY <1>2, Links
    <2> HIDE DEF o, in
    <2> QED BY <1>2, <1>6, <2>1, <2>2
  <1>10. p # NULL => c[q][p] = x /\ c[Opposite(q)][p] # x
        BY <1>4, <1>5, <1>9
  <1>11. /\ f \in TreeRecords
         /\ f.root = IF p = NULL THEN y ELSE c.root
         /\ \A s \in Sides :
              f[s] = IF p # NULL /\ s = q THEN [c[s] EXCEPT ![p] = y] ELSE c[s]
         /\ f.up = c.up /\ f.color = c.color
    <2> HIDE DEF q, p
    <2> QED BY <1>4, <1>5, <1>8, <1>10, Replaced
  <1> HIDE DEF f
  <1>12. /\ g \in TreeRecords /\ g[d] = [f[d] EXCEPT ![y] = x] /\ g[o] = f[o]
         /\ g.up = f.up /\ g.root = f.root /\ g.color = f.color
         BY <1>2, <1>4, <1>11, Linked
  <1> HIDE DEF g
  <1>20. b.up[x] = p
    <2>1. t.up \in [Pointers -> Pointers]
          BY <1>2, Links
    <2> HIDE DEF in, p
    <2>2. b.up[x] = t.up[x]
          BY <1>4, <1>7, <2>1
    <2> QED BY <2>2 DEF p
  <1>21. r = SetUp(g, x, y)
    <2>1. f = Lift(b, x, y)
          BY <1>20 DEF Lift, f, c
    <2> QED BY <1>1, <2>1, RotateSteps
  <1>13. /\ r \in TreeRecords /\ r.up = [g.up EXCEPT ![x] = y]
         /\ \A s \in Sides : r[s] = g[s]
         /\ r.root = g.root /\ r.color = g.color
         BY <1>4, <1>12, <1>21, ParentSet
  <1>14. /\ r.color = t.color
         /\ r.root = IF x = t.root THEN y ELSE t.root
         BY <1>5, <1>8, <1>11, <1>12, <1>13
  <1>15. ASSUME NEW n \in Pointers
         PROVE  r.up[n] = IF n = x THEN y
                          ELSE IF n = y THEN p
                          ELSE IF n = in /\ n # NULL THEN x
                          ELSE t.up[n]
    <2>1. t.up \in [Pointers -> Pointers] /\ b.up \in [Pointers -> Pointers]
          /\ c.up \in [Pointers -> Pointers]
          BY <1>2, <1>7, <1>8, Links
    <2> HIDE DEF in, p
    <2>2. r.up[n] = IF n = x THEN y ELSE c.up[n]
          BY <1>11, <1>12, <1>13, <2>1
    <2>3. c.up[n] = IF n = y THEN p ELSE b.up[n]
          BY <1>8, <2>1
    <2>4. b.up[n] = IF n = in /\ n # NULL THEN x ELSE t.up[n]
          BY <1>7, <2>1
    <2> QED BY <2>2, <2>3, <2>4
  <1>16. ASSUME NEW n \in Pointers, NEW s \in Sides
         PROVE  r[s][n] = IF n = x /\ s = o THEN in
                          ELSE IF n = y /\ s = d THEN x
                          ELSE IF n = p /\ x # t.root /\ s = q THEN y
                          ELSE t[s][n]
    <2>1. /\ t[s] \in [Pointers -> Pointers] /\ f[s] \in [Pointers -> Pointers]
          /\ c[s] \in [Pointers -> Pointers] /\ a[s] \in [Pointers -> Pointers]
          BY <1>2, <1>6, <1>8, <1>11, Links
    <2> HIDE DEF in, p, o, q
    <2>2. r[s][n] = IF n = y /\ s = d THEN x ELSE f[s][n]
          BY <1>2, <1>12, <1>13, <2>1
    <2>3. f[s][n] = IF n = p /\ p # NULL /\ s = q THEN y ELSE c[s][n]
          BY <1>11, <2>1
    <2>4. c[s][n] = a[s][n]
          BY <1>7, <1>8
    <2>5. a[s][n] = IF n = x /\ s = o THEN in ELSE t[s][n]
          BY <1>2, <1>6, <2>1
    <2> QED BY <1>2, <1>4, <1>5, <2>2, <2>3, <2>4, <2>5
  <1> QED BY <1>13, <1>14, <1>15, <1>16

(* A rotation keeps the order of the entries. *)
LEMMA RotateShape ==
  ASSUME NEW t, NEW M, NEW N, NEW pos, NEW e, Shape(t, M, N, pos, e),
         NEW x \in M, NEW d \in Sides, NEW y, y = t[Opposite(d)][x], y # NULL,
         NEW r, r = Rotate(t, x, d)
  PROVE  \E e2 : Shape(r, M, N, pos, e2)
  <1> DEFINE o == Opposite(d)
             in == t[d][y]
             p == t.up[x]
             q == SideOf(t, x)
             e2 == [s \in Sides |-> [n \in Entries |->
                      IF s = d /\ n = y THEN e[d][x]
                      ELSE IF s = o /\ n = x THEN pos[y] + Near(d)
                      ELSE e[s][n]]]
  <1>1. /\ r \in TreeRecords
        /\ r.root = IF x = t.root THEN y ELSE t.root
        /\ \A n \in Pointers : \A s \in Sides :
             r[s][n] = IF n = x /\ s = o THEN in
                       ELSE IF n = y /\ s = d THEN x
                       ELSE IF n = p /\ x # t.root /\ s = q THEN y
                       ELSE t[s][n]
        /\ \A n \in Pointers :
             r.up[n] = IF n = x THEN y ELSE IF n = y THEN p
                       ELSE IF n = in /\ n # NULL THEN x ELSE t.up[n]
        BY Rotated
  <1>2. /\ o \in Sides /\ d # o /\ Opposite(o) = d
        /\ \A s \in Sides : s = d \/ s = o
        /\ Near(d) \in Int /\ Near(o) = 0 - Near(d)
        BY TwoSides DEF Near, Sides, Opposite
  <1>3. /\ y \in M /\ y # x /\ t.up[y] = x /\ y # t.root
        /\ in # NULL => in \in M /\ in # x /\ in # y /\ t.up[in] = y
        /\ \A s \in Sides : t[s][y] # NULL =>
             t[s][y] \in M /\ t[s][y] # x /\ t[s][y] # y /\ t.up[t[s][y]] = y
        /\ in # NULL => in # t[o][y]
        /\ x # t.root => /\ p \in M /\ p # x /\ p # y /\ q \in Sides
                         /\ t[q][p] = x /\ t[Opposite(q)][p] # x
        /\ x = t.root => p = NULL
        /\ t[d][x] # y
        BY Around
  <1>4. Ghosts(M, N, pos, e2)
    <2>1. Ghosts(M, N, pos, e)
          BY DEF Shape
    <2>2. pos[y] + Near(d) \in Int /\ e[d][x] \in Int
          BY <1>2, <1>3, Numbers
    <2>3. \A s \in Sides : \A n \in Entries : e[s][n] \in Int
          BY <2>1 DEF Ghosts
    <2> HIDE DEF o
    <2> QED BY <2>1, <2>2, <2>3 DEF Ghosts
  <1>5. \A n \in M : \A s \in Sides :
          e2[s][n] = IF s = d /\ n = y THEN e[d][x]
                     ELSE IF s = o /\ n = x THEN pos[y] + Near(d)
                     ELSE e[s][n]
        BY Numbers
  <1>6. \A n \in M : /\ n \in Pointers /\ n # NULL /\ pos[n] \in Int
                     /\ e[d][n] \in Int /\ e[o][n] \in Int
        BY <1>2, Numbers
  <1> HIDE DEF e2
  <1>7. /\ e[o][y] = e[o][x] /\ e[d][y] = pos[x] + Near(o)
        /\ in # NULL => e[d][in] = e[d][y] /\ e[o][in] = pos[y] + Near(d)
        /\ in = NULL => e[d][y] = pos[y]
    <2>1. Kid(t, M, pos, e, x, o) /\ Kid(t, M, pos, e, y, d)
          BY <1>2, <1>3 DEF Shape
    <2> QED BY <1>2, <2>1 DEF Kid
  <1>8. \A s \in Sides : e2[s][y] = e[s][x]
        BY <1>2, <1>3, <1>5, <1>7
  <1>9. ASSUME NEW n \in M
        PROVE  Spans(N, pos, e2, n)
    <2>1. /\ Spans(N, pos, e, n) /\ Spans(N, pos, e, x) /\ Spans(N, pos, e, y)
          /\ N \in Int
          BY <1>3 DEF Shape, Ghosts
    <2>2. /\ pos[n] \in Int /\ pos[x] \in Int /\ pos[y] \in Int
          /\ \A s \in Sides : e[s][n] \in Int /\ e[s][x] \in Int /\ e[s][y] \in Int
          BY <1>3, Numbers
    <2>3. CASE d = "left"
          BY <1>2, <1>3, <1>5, <1>7, <2>1, <2>2, <2>3
          DEF Spans, Sides, Near, Opposite
    <2>4. CASE d = "right"
          BY <1>2, <1>3, <1>5, <1>7, <2>1, <2>2, <2>4
          DEF Spans, Sides, Near, Opposite
    <2> QED BY <2>3, <2>4 DEF Sides
  <1>10. ASSUME NEW n \in M, n # r.root
         PROVE  r.up[n] \in M /\ \E s \in Sides : r[s][r.up[n]] = n
    <2> HIDE DEF in, o, p, q
    <2>1. CASE n = x
          BY <1>1, <1>2, <1>3, <1>6, <2>1
    <2>2. CASE n = y
          BY <1>1, <1>2, <1>3, <1>6, <1>10, <2>2
    <2>3. CASE n = in
          BY <1>1, <1>2, <1>3, <1>6, <2>3
    <2>4. CASE n # x /\ n # y /\ n # in
      <3>1. n # t.root
            BY <1>1, <1>10, <2>4
      <3>2. t.up[n] \in M /\ \E s \in Sides : t[s][t.up[n]] = n
            BY <3>1 DEF Shape, Up
      <3>3. PICK s \in Sides : t[s][t.up[n]] = n
            BY <3>2
      <3>4. r.up[n] = t.up[n]
            BY <1>1, <1>6, <2>4
      <3>5. r[s][t.up[n]] = n
        <4>1. ~(t.up[n] = x /\ s = o)
              BY <2>4, <3>3 DEF o
        <4>2. ~(t.up[n] = y /\ s = d)
              BY <2>4, <3>3 DEF in
        <4>3. ~(t.up[n] = p /\ x # t.root /\ s = q)
              BY <1>3, <2>4, <3>3
        <4> QED BY <1>1, <1>6, <3>2, <3>3, <4>1, <4>2, <4>3
      <3> QED BY <3>2, <3>4, <3>5
    <2> QED BY <2>1, <2>2, <2>3, <2>4
  <1>11. ASSUME NEW n \in M, NEW s \in Sides
         PROVE  Kid(r, M, pos, e2, n, s)
    <2> HIDE DEF in, o, p, q
    <2>1. CASE n = x /\ s = o
          BY <1>1, <1>2, <1>3, <1>5, <1>6, <1>7, <2>1 DEF Kid
    <2>2. CASE n = y /\ s = d
          BY <1>1, <1>2, <1>3, <1>5, <1>6, <2>2 DEF Kid, o
    <2>3. CASE n = p /\ x # t.root /\ s = q
      <3>1. /\ e[s][x] = e[s][n] /\ e[Opposite(s)][x] = pos[n] + Near(s)
            BY <1>3, <1>6, <2>3, KidOf DEF p, q
      <3>2. Opposite(s) \in Sides /\ n # x /\ n # y
            BY <1>3, <2>3, TwoSides
      <3>3. e2[s][n] = e[s][n]
            BY <1>5, <3>2
      <3>4. r[s][n] = y /\ r.up[y] = n
            BY <1>1, <1>2, <1>3, <1>6, <2>3, <3>2
      <3> QED BY <1>3, <1>6, <1>8, <3>1, <3>2, <3>3, <3>4 DEF Kid
    <2>4. CASE ~(n = x /\ s = o) /\ ~(n = y /\ s = d)
               /\ ~(n = p /\ x # t.root /\ s = q)
      <3> DEFINE c == t[s][n]
      <3>1. r[s][n] = c /\ Kid(t, M, pos, e, n, s)
            BY <1>1, <1>6, <2>4 DEF Shape
      <3>2. e2[s][n] = e[s][n]
            BY <1>2, <1>5, <1>8, <2>4
      <3>3. CASE c = NULL
            BY <3>1, <3>2, <3>3 DEF Kid
      <3>4. CASE c # NULL
        <4>1. /\ c \in M /\ t.up[c] = n /\ c # t.root /\ c # n
              /\ e[s][c] = e[s][n] /\ e[Opposite(s)][c] = pos[n] + Near(s)
              BY <3>4, KidOf
        <4>2. c # y
              BY <1>2, <1>3, <2>4, <4>1 DEF o
        <4>3. c # x
          <5>1. \A u \in Sides : x # t.root => u = q \/ u = Opposite(q)
                BY <1>3, TwoSides
          <5> QED BY <1>3, <2>4, <4>1, <5>1 DEF p
        <4>4. c # in
              BY <1>2, <1>3, <2>4, <4>1, <3>4
        <4>5. r.up[c] = n /\ \A u \in Sides : e2[u][c] = e[u][c]
              BY <1>1, <1>5, <1>6, <4>1, <4>2, <4>3, <4>4
        <4> QED BY <3>1, <3>2, <4>1, <4>5, TwoSides DEF Kid
      <3> QED BY <3>3, <3>4
    <2> QED BY <2>1, <2>2, <2>3, <2>4
  <1>12. Root(r, M, N, e2)
    <2> HIDE DEF in, o, p, q
    <2>1. t.root # NULL /\ Root(t, M, N, e)
          BY Numbers DEF Shape, Root
    <2>2. CASE x = t.root
          BY <1>1, <1>3, <1>6, <1>8, <2>1, <2>2 DEF Root, Sides
    <2>3. CASE x # t.root
      <3>1. t.root \in M /\ t.up[t.root] = NULL /\ t.root # in
            BY <1>3, <1>6, <2>1 DEF Root
      <3>2. r.root = t.root /\ r.up[r.root] = NULL
            BY <1>1, <1>3, <1>6, <2>3, <3>1
      <3>3. \A s \in Sides : e2[s][t.root] = e[s][t.root]
            BY <1>3, <1>5, <2>3, <3>1
      <3> QED BY <2>1, <3>1, <3>2, <3>3 DEF Root, Sides
    <2> QED BY <2>2, <2>3
  <1>13. Shape(r, M, N, pos, e2)
        BY <1>1, <1>4, <1>9, <1>10, <1>11, <1>12 DEF Shape, Up
  <1> QED BY <1>13

(***************************************************************************)
(* Heights and colors                                                      *)
(***************************************************************************)
(* b[n] is one more than the number of black entries on the paths down     *)
(* from n; one black entry lacks on those that leave p on the side d.      *)
Blacks(t, n) == IF t.color[n] = "black" THEN 1 ELSE 0

Even(t, b, n, p, d) ==
  \A s \in Sides :
    b[n] = b[t[s][n]] + Blacks(t, n) + (IF n = p /\ s = d THEN 1 ELSE 0)

EvenBut(t, M, b, p, d, x, y) == \A n \in M \ {x, y} : Even(t, b, n, p, d)

Heights(t, M, b, p, d) ==
  /\ b \in [Pointers -> Nat \ {0}] /\ b[NULL] = 1
  /\ \A n \in M : Even(t, b, n, p, d)

(* A red entry, unless it is a, has black children, unless they are c. *)
Calm(t, n, a, c) ==
  t.color[n] = "red" /\ n # a =>
    \A s \in Sides : t[s][n] = c \/ Color(t, t[s][n]) = "black"

Colors(t, M, a, c) ==
  /\ \A n \in M : t.color[n] \in {"red", "black"} /\ Calm(t, n, a, c)
  /\ t.root = c \/ Color(t, t.root) = "black"

(* The children in the rotated tree. *)
LEMMA RotateKids ==
  ASSUME NEW t, NEW M, NEW N, NEW pos, NEW e, Shape(t, M, N, pos, e),
         NEW x \in M, NEW d \in Sides, NEW y, y = t[Opposite(d)][x], y # NULL,
         NEW r, r = Rotate(t, x, d)
  PROVE  /\ y \in M /\ y # x
         /\ r.color = t.color
         /\ r.root = IF x = t.root THEN y ELSE t.root
         /\ r[d][x] = t[d][x] /\ r[Opposite(d)][x] = t[d][y]
         /\ r[d][y] = x /\ r[Opposite(d)][y] = t[Opposite(d)][y]
         /\ t[d][x] \notin {x, y}
         /\ t[d][y] \notin {x, y} /\ t[Opposite(d)][y] \notin {x, y}
         /\ \A n \in M \ {x, y} : \A s \in Sides :
              \/ r[s][n] = t[s][n] /\ t[s][n] \notin {x, y}
              \/ n = t.up[x] /\ t[s][n] = x /\ r[s][n] = y
  <1>1. /\ r.color = t.color
        /\ r.root = IF x = t.root THEN y ELSE t.root
        /\ \A n \in Pointers : \A s \in Sides :
             r[s][n] = IF n = x /\ s = Opposite(d) THEN t[d][y]
                       ELSE IF n = y /\ s = d THEN x
                       ELSE IF n = t.up[x] /\ x # t.root /\ s = SideOf(t, x)
                            THEN y
                       ELSE t[s][n]
        BY Rotated
  <1>2. /\ y \in M /\ y # x /\ t.up[y] = x /\ y # t.root
        /\ \A s \in Sides : t[s][y] # x /\ t[s][y] # y
        /\ t[d][x] # y /\ t[d][x] # x
        /\ x # t.root => /\ t.up[x] # x /\ t.up[x] # y
                         /\ SideOf(t, x) \in Sides
                         /\ t[SideOf(t, x)][t.up[x]] = x
                         /\ t[Opposite(SideOf(t, x))][t.up[x]] # x
        /\ x = t.root <=> t.up[x] = NULL
        /\ x # NULL
        BY Around, Numbers
  <1>3. /\ Opposite(d) \in Sides /\ Opposite(d) # d
        BY TwoSides
  <1>4. x \in Pointers /\ y \in Pointers /\ x # NULL /\ y # NULL
        BY <1>2, Numbers
  <1>5. /\ r[d][x] = t[d][x] /\ r[Opposite(d)][x] = t[d][y]
        /\ r[d][y] = x /\ r[Opposite(d)][y] = t[Opposite(d)][y]
        BY <1>1, <1>2, <1>3, <1>4
  <1>6. ASSUME NEW n \in M \ {x, y}, NEW s \in Sides
        PROVE  \/ r[s][n] = t[s][n] /\ t[s][n] \notin {x, y}
               \/ n = t.up[x] /\ t[s][n] = x /\ r[s][n] = y
    <2>1. n \in Pointers /\ n # NULL
          BY Numbers
    <2>2. t[s][n] = y => t.up[y] = n
          BY <1>4, KidOf
    <2>3. t[s][n] = x => t.up[x] = n /\ x # t.root
          BY <1>4, KidOf
    <2>4. x # t.root => s = SideOf(t, x) \/ s = Opposite(SideOf(t, x))
          BY <1>2, TwoSides
    <2> QED BY <1>1, <1>2, <2>1, <2>2, <2>3, <2>4
  <1> QED BY <1>1, <1>2, <1>3, <1>5, <1>6

(* The heights b2 are those of b except at x and y, which is a child of x  *)
(* and has the height of x when x goes down on the side d.                 *)
Turned(t, b, b2, x, y, d, p, w) ==
  /\ b2 \in [Pointers -> Nat \ {0}] /\ b2[NULL] = 1
  /\ \A n \in Pointers \ {x, y} : b2[n] = b[n]
  /\ b2[x] = b[t[d][x]] + Blacks(t, x) + (IF x = p /\ d = w THEN 1 ELSE 0)
  /\ b2[x] = b[t[d][y]] + Blacks(t, x)
             + (IF x = p /\ Opposite(d) = w THEN 1 ELSE 0)
  /\ b2[y] = b[x] /\ b[x] = b2[x] + Blacks(t, y)
  /\ b[x] = b[t[Opposite(d)][y]] + Blacks(t, y)

(* A rotation and the heights. *)
LEMMA RotateHeights ==
  ASSUME NEW t, NEW M, NEW N, NEW pos, NEW e, Shape(t, M, N, pos, e),
         NEW x \in M, NEW d \in Sides, NEW y, y = t[Opposite(d)][x], y # NULL,
         NEW r, r = Rotate(t, x, d),
         NEW p, NEW w, p # y, NEW b, EvenBut(t, M, b, p, w, x, y),
         NEW b2, Turned(t, b, b2, x, y, d, p, w)
  PROVE  Heights(r, M, b2, p, w)
  <1>1. /\ y \in M /\ y # x /\ r.color = t.color
        /\ r[d][x] = t[d][x] /\ r[Opposite(d)][x] = t[d][y]
        /\ r[d][y] = x /\ r[Opposite(d)][y] = t[Opposite(d)][y]
        /\ t[d][x] \notin {x, y}
        /\ t[d][y] \notin {x, y} /\ t[Opposite(d)][y] \notin {x, y}
        /\ \A n \in M \ {x, y} : \A s \in Sides :
             \/ r[s][n] = t[s][n] /\ t[s][n] \notin {x, y}
             \/ n = t.up[x] /\ t[s][n] = x /\ r[s][n] = y
        BY RotateKids
  <1>2. /\ \A s \in Sides : s = d \/ s = Opposite(d)
        /\ Opposite(d) \in Sides /\ Opposite(d) # d
        BY TwoSides
  <1>3. x \in Pointers /\ y \in Pointers /\ x # NULL /\ y # NULL
        BY <1>1, Numbers
  <1>4. \A s \in Sides : \A n \in Pointers : t[s][n] \in Pointers
        BY Links DEF Shape
  <1>5. /\ b2 \in [Pointers -> Nat \ {0}] /\ b2[NULL] = 1 /\ b2[y] = b[x]
        /\ \A n \in Pointers \ {x, y} : b2[n] = b[n]
        BY DEF Turned
  <1>7. \A n : Blacks(r, n) = Blacks(t, n)
        BY <1>1 DEF Blacks
  <1>8. Even(r, b2, x, p, w)
    <2>1. b2[t[d][x]] = b[t[d][x]] /\ b2[t[d][y]] = b[t[d][y]]
          BY <1>1, <1>3, <1>4, <1>5
    <2>2. /\ b2[x] = b[t[d][x]] + Blacks(t, x)
                     + (IF x = p /\ d = w THEN 1 ELSE 0)
          /\ b2[x] = b[t[d][y]] + Blacks(t, x)
                     + (IF x = p /\ Opposite(d) = w THEN 1 ELSE 0)
          BY DEF Turned
    <2> QED BY <1>1, <1>2, <1>7, <2>1, <2>2 DEF Even
  <1>9. Even(r, b2, y, p, w)
    <2>1. b2[t[Opposite(d)][y]] = b[t[Opposite(d)][y]]
          BY <1>1, <1>2, <1>3, <1>4, <1>5
    <2>2. Blacks(t, y) \in Nat /\ b2[x] \in Nat /\ b2[t[Opposite(d)][y]] \in Nat
          BY <1>1, <1>2, <1>3, <1>4, <1>5 DEF Blacks
    <2>3. /\ b2[y] = b2[x] + Blacks(t, y)
          /\ b2[y] = b[t[Opposite(d)][y]] + Blacks(t, y)
          BY DEF Turned
    <2>4. \A s \in Sides : b2[y] = b2[r[s][y]] + Blacks(t, y)
          BY <1>1, <1>2, <2>1, <2>3
    <2> QED BY <1>2, <1>3, <1>4, <1>7, <1>1, <2>1, <2>2, <2>4 DEF Even
  <1>10. ASSUME NEW n \in M \ {x, y}
         PROVE  Even(r, b2, n, p, w)
    <2>1. Even(t, b, n, p, w) /\ n \in Pointers
          BY Numbers DEF EvenBut
    <2>2. ASSUME NEW s \in Sides PROVE b2[r[s][n]] = b[t[s][n]]
          BY <1>1, <1>4, <1>5, <2>1
    <2>3. b2[n] = b[n]
          BY <1>5, <2>1
    <2> QED BY <1>7, <2>1, <2>2, <2>3 DEF Even
  <1> QED BY <1>5, <1>8, <1>9, <1>10 DEF Heights

(* A rotation and the colors. *)
LEMMA RotateColors ==
  ASSUME NEW t, NEW M, NEW N, NEW pos, NEW e, Shape(t, M, N, pos, e),
         NEW x \in M, NEW d \in Sides, NEW y, y = t[Opposite(d)][x], y # NULL,
         NEW r, r = Rotate(t, x, d), NEW a, NEW c,
         \A n \in M : t.color[n] \in {"red", "black"},
         \A n \in M \ {x, y} : t.color[n] = "red" /\ n # a =>
           \A s \in Sides : t[s][n] \in {x, c} \/ Color(t, t[s][n]) = "black",
         t.up[x] # NULL => \/ t.color[t.up[x]] = "black" \/ t.up[x] = a
                           \/ y = c \/ t.color[y] = "black",
         t.color[x] = "red" /\ x # a =>
           /\ t[d][x] = c \/ Color(t, t[d][x]) = "black"
           /\ t[d][y] = c \/ Color(t, t[d][y]) = "black",
         t.color[y] = "red" /\ y # a =>
           /\ x = c \/ t.color[x] = "black"
           /\ t[Opposite(d)][y] = c \/ Color(t, t[Opposite(d)][y]) = "black",
         IF x = t.root THEN y = c \/ t.color[y] = "black"
         ELSE t.root = c \/ Color(t, t.root) = "black"
  PROVE  Colors(r, M, a, c)
  <1>1. /\ y \in M /\ y # x /\ r.color = t.color
        /\ r.root = IF x = t.root THEN y ELSE t.root
        /\ r[d][x] = t[d][x] /\ r[Opposite(d)][x] = t[d][y]
        /\ r[d][y] = x /\ r[Opposite(d)][y] = t[Opposite(d)][y]
        /\ \A n \in M \ {x, y} : \A s \in Sides :
             \/ r[s][n] = t[s][n] /\ t[s][n] \notin {x, y}
             \/ n = t.up[x] /\ t[s][n] = x /\ r[s][n] = y
        BY RotateKids
  <1>2. /\ \A s \in Sides : s = d \/ s = Opposite(d)
        BY TwoSides
  <1>3. /\ \A n \in M : n # NULL
        BY Numbers
  <1>4. \A n : Color(r, n) = Color(t, n)
        BY <1>1 DEF Color
  <1>5. Calm(r, x, a, c)
        BY <1>1, <1>2, <1>4 DEF Calm
  <1>6. Calm(r, y, a, c)
        BY <1>1, <1>2, <1>3, <1>4 DEF Calm, Color
  <1>7. ASSUME NEW n \in M \ {x, y}
        PROVE  Calm(r, n, a, c)
    <2>2. ASSUME NEW s \in Sides, t.color[n] = "red", n # a
          PROVE  r[s][n] = c \/ Color(r, r[s][n]) = "black"
      <3>1. CASE r[s][n] = t[s][n] /\ t[s][n] # x
            BY <1>4, <2>2, <3>1
      <3>2. CASE n = t.up[x] /\ r[s][n] = y
            BY <1>1, <1>3, <1>4, <2>2, <3>2 DEF Color
      <3> QED BY <1>1, <3>1, <3>2
    <2> QED BY <1>1, <2>2 DEF Calm
  <1>8. r.root = c \/ Color(r, r.root) = "black"
        BY <1>1, <1>3, <1>4 DEF Color
  <1> QED BY <1>1, <1>5, <1>6, <1>7, <1>8 DEF Colors

(* The shape of a tree is in its links, not in its colors. *)
LEMMA SameShape ==
  ASSUME NEW t, NEW M, NEW N, NEW pos, NEW e, Shape(t, M, N, pos, e),
         NEW u \in TreeRecords, u.root = t.root, u.up = t.up,
         \A s \in Sides : u[s] = t[s]
  PROVE  Shape(u, M, N, pos, e)
  <1>1. Root(u, M, N, e)
        BY DEF Shape, Root
  <1>2. \A n \in M : Up(u, M, n) /\ \A s \in Sides : Kid(u, M, pos, e, n, s)
        BY DEF Shape, Up, Kid
  <1> QED BY <1>1, <1>2 DEF Shape

(* In u the entry n has the color c, and the rest is as in t. *)
Repainted(t, u, n, c) ==
  /\ u.root = t.root /\ u.up = t.up /\ \A s \in Sides : u[s] = t[s]
  /\ \A m \in Pointers : u.color[m] = IF m = n THEN c ELSE t.color[m]
  /\ \A m \in Pointers : Color(u, m) = IF m = n THEN c ELSE Color(t, m)

(* A new color leaves the shape. *)
LEMMA PaintShape ==
  ASSUME NEW t, NEW M, NEW N, NEW pos, NEW e, Shape(t, M, N, pos, e),
         NEW n \in M, NEW c \in {"red", "black"}, NEW u, u = Paint(t, n, c)
  PROVE  Shape(u, M, N, pos, e) /\ Repainted(t, u, n, c)
  <1>1. t \in TreeRecords /\ n \in Pointers /\ n # NULL
        BY Numbers DEF Shape
  <1>2. t.color \in [Pointers -> {"red", "black", "invalid"}]
        BY <1>1 DEF TreeRecords
  <1>6. c \in {"red", "black", "invalid"}
        OBVIOUS
  <1>3. /\ u \in TreeRecords /\ u.color = [t.color EXCEPT ![n] = c]
        /\ \A s \in Sides : u[s] = t[s]
        /\ u.root = t.root /\ u.up = t.up
        BY <1>1, <1>6 DEF Paint, TreeRecords, Sides
  <1>4. \A m \in Pointers : u.color[m] = IF m = n THEN c ELSE t.color[m]
        BY <1>2, <1>3
  <1>5. \A m \in Pointers : Color(u, m) = IF m = n THEN c ELSE Color(t, m)
        BY <1>1, <1>4 DEF Color
  <1> QED BY <1>3, <1>4, <1>5, SameShape DEF Repainted

(* The links of the entries outside M are what they were. *)
Untouched(t, u, M) == \A n \in Pointers \ M : \A s \in Sides : u[s][n] = t[s][n]

(* A rotation writes nothing in the entries outside the tree. *)
LEMMA RotateUntouched ==
  ASSUME NEW t, NEW M, NEW N, NEW pos, NEW e, Shape(t, M, N, pos, e),
         NEW x \in M, NEW d \in Sides, NEW y, y = t[Opposite(d)][x], y # NULL
  PROVE  Untouched(t, Rotate(t, x, d), M)
  <1>1. y \in M /\ (x # t.root => t.up[x] \in M)
        BY Around
  <1> QED BY <1>1, Rotated DEF Untouched

(* The tree t with the colors of its entries only. *)
Balance(t, M, N, pos, b, p, d, a, c) ==
  /\ \E e : Shape(t, M, N, pos, e)
  /\ Heights(t, M, b, p, d) /\ Colors(t, M, a, c)

(* Raise ends the repair. *)
LEMMA Raised ==
  ASSUME NEW t, NEW M, NEW N, NEW pos, NEW e, Shape(t, M, N, pos, e),
         NEW b, Heights(t, M, b, NULL, "left"),
         NEW x \in M, Colors(t, M, NULL, x), NEW d \in Sides,
         NEW p \in M, t[d][p] = x, NEW gp \in M, t[d][gp] = p,
         t.color[x] = "red", t.color[p] = "red", t.color[gp] = "black",
         Color(t, t[Opposite(d)][gp]) = "black",
         NEW u, u = Raise(t, x, d)
  PROVE  /\ \E b2 : Balance(u, M, N, pos, b2, NULL, "left", NULL, x)
         /\ u.color[x] = "red" /\ Color(u, u.up[x]) = "black"
         /\ Untouched(t, u, M)
  <1> DEFINE o == Opposite(d)
             t1 == Paint(t, p, "black")
             t2 == Paint(t1, gp, "red")
  <1>1. /\ x # NULL /\ p # NULL /\ gp # NULL /\ M \subseteq Pointers
        /\ NULL \notin M
        BY Numbers
  <1>2. /\ t.up[x] = p /\ t.up[p] = gp /\ x # p /\ p # gp /\ x # gp
        BY <1>1, KidOf
  <1>3. t \in TreeRecords
        BY DEF Shape
  <1>4. Shape(t1, M, N, pos, e) /\ Repainted(t, t1, p, "black")
        BY PaintShape
  <1> HIDE DEF t1
  <1>5. Shape(t2, M, N, pos, e) /\ Repainted(t1, t2, gp, "red")
        BY <1>4, PaintShape
  <1> HIDE DEF t2
  <1>6. \A n \in Pointers : t2.color[n] = IF n = gp THEN "red"
                                      ELSE IF n = p THEN "black" ELSE t.color[n]
        BY <1>4, <1>5 DEF Repainted
  <1>7. /\ Shape(t2, M, N, pos, e) /\ t2.root = t.root /\ t2.up = t.up
        /\ \A s \in Sides : t2[s] = t[s]
        BY <1>4, <1>5 DEF Repainted
  <1>8. o \in Sides /\ Opposite(o) = d /\ o # d /\ \A s \in Sides : s = d \/ s = o
        BY TwoSides
  <1> HIDE DEF o
  <1>9. u = Rotate(t2, gp, o) /\ p = t2[Opposite(o)][gp] /\ p # NULL
    <2>1. u = Rotate(t2, gp, o)
          BY <1>2 DEF Raise, o, t1, t2
    <2> QED BY <1>1, <1>7, <1>8, <2>1
  <1>10. /\ t[o][gp] \in Pointers /\ t[o][p] \in Pointers
         BY <1>1, <1>3, <1>8, Links
  <1>11. \A n \in M : Blacks(t2, n) = IF n = gp THEN 0 ELSE IF n = p THEN 1
                                      ELSE Blacks(t, n)
         BY <1>1, <1>6 DEF Blacks
  <1> DEFINE b2 == [b EXCEPT ![gp] = b[p], ![p] = b[gp]]
  <1>12. Heights(u, M, b2, NULL, "left")
    <2>1. /\ b \in [Pointers -> Nat \ {0}] /\ b[NULL] = 1
          /\ \A n \in M : Even(t, b, n, NULL, "left")
          BY DEF Heights
    <2>2. EvenBut(t2, M, b, NULL, "left", gp, p)
          BY <1>7, <1>11, <2>1 DEF Even, EvenBut
    <2>3. /\ b[gp] = b[p] + 1 /\ b[gp] = b[t[o][gp]] + 1
          /\ b[p] = b[x] /\ b[p] = b[t[o][p]]
          /\ b[gp] \in Int /\ b[p] \in Int /\ b[x] \in Int
          /\ b[t[o][gp]] \in Int /\ b[t[o][p]] \in Int
      <3>1. Even(t, b, gp, NULL, "left") /\ Even(t, b, p, NULL, "left")
            BY <2>1
      <3> QED BY <1>1, <1>8, <1>10, <2>1, <3>1 DEF Even, Blacks
    <2>4. Turned(t2, b, b2, gp, p, o, NULL, "left")
      <3>1. Blacks(t2, gp) = 0 /\ Blacks(t2, p) = 1
            BY <1>1, <1>2, <1>11
      <3>2. /\ t2[o][gp] = t[o][gp] /\ t2[o][p] = t[o][p]
            /\ t2[Opposite(o)][p] = x
            BY <1>7, <1>8
      <3>3. /\ b2 \in [Pointers -> Nat \ {0}] /\ b2[NULL] = 1
            /\ \A n \in Pointers \ {gp, p} : b2[n] = b[n]
            /\ b2[gp] = b[p] /\ b2[p] = b[gp]
        <4>1. gp \in Pointers /\ p \in Pointers /\ NULL \in Pointers
              BY <1>1 DEF Pointers
        <4> QED BY <1>1, <1>2, <2>1, <4>1
      <3> HIDE DEF b2
      <3>4. b[t[o][gp]] = b[p]
            BY <2>3
      <3>5. b[t[o][p]] = b[p] /\ b[x] = b[p]
            BY <2>3, Zenon
      <3>6. /\ b[t2[o][gp]] = b[p] /\ b[t2[o][p]] = b[p]
            /\ b[t2[Opposite(o)][p]] = b[p]
            BY <3>2, <3>4, <3>5, Zenon
      <3>7. b[gp] = b[p] + 1 /\ b[p] \in Int /\ gp # NULL
            BY <1>1, <2>3
      <3> QED BY <3>1, <3>3, <3>6, <3>7 DEF Turned
    <2> HIDE DEF b2
    <2> QED BY <1>1, <1>7, <1>8, <1>9, <2>2, <2>4, RotateHeights
  <1>13. Colors(u, M, NULL, x)
    <2>1. \A n \in M : t.color[n] \in {"red", "black"} /\ Calm(t, n, NULL, x)
          BY DEF Colors
    <2>2. \A n \in M : t2.color[n] \in {"red", "black"}
          BY <1>1, <1>6, <2>1
    <2>3. \A n \in Pointers : Color(t2, n) = IF n = gp THEN "red"
                                         ELSE IF n = p THEN "black" ELSE Color(t, n)
          BY <1>4, <1>5 DEF Repainted
    <2>4. ASSUME NEW n \in M \ {gp, p}, t2.color[n] = "red", NEW s \in Sides
          PROVE  t2[s][n] \in {gp, x} \/ Color(t2, t2[s][n]) = "black"
      <3>1. t.color[n] = "red" /\ n # NULL
            BY <1>1, <1>6, <2>4
      <3>2. t[s][n] = x \/ Color(t, t[s][n]) = "black"
            BY <2>1, <3>1 DEF Calm
      <3>3. t[s][n] \in Pointers
            BY <1>1, <1>3, Links
      <3> QED BY <1>7, <2>3, <3>2, <3>3
    <2>5. /\ t2[o][gp] = x \/ Color(t2, t2[o][gp]) = "black"
      <3>1. t[o][gp] # gp
            BY <1>1, <1>8, <1>10, KidOf
      <3> QED BY <1>1, <1>7, <1>8, <1>10, <2>3, <3>1 DEF o
    <2>6. t2[o][p] = x \/ Color(t2, t2[o][p]) = "black"
      <3>1. t[o][p] = x \/ Color(t, t[o][p]) = "black"
            BY <1>1, <1>8, <2>1 DEF Calm
      <3>2. t[o][p] # gp
        <4>1. Size(e, p) < Size(e, gp) /\ Size(e, p) \in Nat /\ Size(e, gp) \in Nat
              BY <1>1, KidOf, Numbers
        <4>2. t[o][p] = gp => Size(e, gp) < Size(e, p)
              BY <1>1, <1>8, KidOf
        <4> QED BY <4>1, <4>2
      <3> QED BY <1>1, <1>2, <1>7, <1>8, <1>10, <2>3, <3>1, <3>2
    <2>7. IF gp = t2.root THEN p = x \/ t2.color[p] = "black"
          ELSE t2.root = x \/ Color(t2, t2.root) = "black"
      <3>1. t.root = x \/ Color(t, t.root) = "black"
            BY DEF Colors
      <3>2. t.root \in Pointers
            BY <1>3, Links
      <3> QED BY <1>1, <1>2, <1>7, <1>6, <2>3, <3>1, <3>2
    <2>8. t2.color[p] = "black"
          BY <1>1, <1>2, <1>6
    <2> QED BY <1>7, <1>8, <1>9, <2>2, <2>4, <2>5, <2>6, <2>7, <2>8, RotateColors
  <1>14. \E e2 : Shape(u, M, N, pos, e2)
         BY <1>7, <1>8, <1>9, RotateShape
  <1>15. Untouched(t, u, M)
    <2>1. Untouched(t2, u, M)
          BY <1>7, <1>8, <1>9, RotateUntouched
    <2> QED BY <1>7, <2>1 DEF Untouched
  <1>16. u.color[x] = "red" /\ Color(u, u.up[x]) = "black"
    <2>1. /\ u.color = t2.color /\ u.up[x] = t2.up[x]
      <3>1. t2[o][p] # x
            BY <1>1, <1>2, <1>7, <1>8, KidOf DEF o
      <3> QED BY <1>1, <1>2, <1>7, <1>8, <1>9, <3>1, Rotated
    <2> QED BY <1>1, <1>2, <1>6, <1>7, <2>1 DEF Color
  <1> QED BY <1>12, <1>13, <1>14, <1>15, <1>16 DEF Balance

(* Around a red entry whose parent is red too. *)
LEMMA RedPair ==
  ASSUME NEW t, NEW M, NEW N, NEW pos, NEW e, Shape(t, M, N, pos, e),
         NEW x \in M, Colors(t, M, NULL, x), t.color[x] = "red",
         NEW p, p = t.up[x], Color(t, p) = "red",
         NEW gp, gp = t.up[p], NEW d, d = SideOf(t, p)
  PROVE  /\ p \in M /\ gp \in M /\ d \in Sides /\ x # t.root /\ p # t.root
         /\ t[d][gp] = p /\ t[Opposite(d)][gp] # p
         /\ t.color[p] = "red" /\ t.color[gp] = "black"
         /\ x # p /\ p # gp /\ x # gp
         /\ SideOf(t, x) \in Sides /\ t[SideOf(t, x)][p] = x
         /\ t[Opposite(SideOf(t, x))][p] # x
  <1>1. p # NULL
        BY DEF Color
  <1>2. /\ x # t.root /\ p \in M /\ SideOf(t, x) \in Sides
        /\ t[SideOf(t, x)][p] = x /\ t[Opposite(SideOf(t, x))][p] # x
        /\ Size(e, x) < Size(e, p) /\ Size(e, x) \in Nat /\ Size(e, p) \in Nat
        BY <1>1, ParentOf, Numbers
  <1>3. p # t.root
        BY <1>2 DEF Colors
  <1>4. /\ gp \in M /\ d \in Sides /\ t[d][gp] = p /\ t[Opposite(d)][gp] # p
        /\ Size(e, p) < Size(e, gp) /\ Size(e, gp) \in Nat
        BY <1>2, <1>3, ParentOf, Numbers
  <1>5. t.color[p] = "red"
        BY <1>1 DEF Color
  <1>6. x # p /\ p # gp /\ x # gp
        BY <1>2, <1>4
  <1>7. t.color[gp] = "black"
    <2>1. t.color[gp] \in {"red", "black"} /\ Calm(t, gp, NULL, x)
          BY <1>4 DEF Colors
    <2>2. gp # NULL
          BY <1>4, Numbers
    <2> QED BY <1>4, <1>6, <2>1, <2>2 DEF Calm
  <1> QED BY <1>2, <1>3, <1>4, <1>5, <1>6, <1>7

(* What a turn of the loop of itree_insert_fix leaves. *)
AfterTurn(t, M, N, pos, e, x, u, x2) ==
  /\ x2 \in M /\ u.color[x2] = "red"
  /\ \E b : Balance(u, M, N, pos, b, NULL, "left", NULL, x2)
  /\ Untouched(t, u, M)
  /\ \/ Color(u, u.up[x2]) # "red"
     \/ Shape(u, M, N, pos, e) /\ Size(e, x) < Size(e, x2)

(* In u the entries p and y are black and gp is red, the rest is as in t.  *)
Recolored(t, u, p, y, gp) ==
  /\ u.root = t.root /\ u.up = t.up /\ \A s \in Sides : u[s] = t[s]
  /\ \A n \in Pointers :
       u.color[n] = IF n = gp THEN "red"
                    ELSE IF n = p \/ n = y THEN "black" ELSE t.color[n]
  /\ \A n \in Pointers :
       Color(u, n) = IF n = gp THEN "red"
                     ELSE IF n = p \/ n = y THEN "black" ELSE Color(t, n)

(* p and y are the children of gp. *)
Family(t, M, p, y, gp) ==
  /\ p \in M /\ y \in M /\ gp \in M /\ p # y /\ p # gp /\ y # gp
  /\ M \subseteq Pointers /\ NULL \notin M /\ NULL \in Pointers
  /\ t.root \in Pointers
  /\ \A s \in Sides : t[s][gp] = p \/ t[s][gp] = y
  /\ \E s \in Sides : t[s][gp] = p
  /\ \E s \in Sides : t[s][gp] = y
  /\ \A s \in Sides : \A n \in M \ {gp} : t[s][n] # p /\ t[s][n] # y
  /\ \A s \in Sides : \A n \in M : t[s][n] \in Pointers

(* Three new colors leave the shape. *)
LEMMA Painted3 ==
  ASSUME NEW t, NEW M, NEW N, NEW pos, NEW e, Shape(t, M, N, pos, e),
         NEW p \in M, NEW y \in M, NEW gp \in M,
         NEW u, u = Paint(Paint(Paint(t, p, "black"), y, "black"), gp, "red")
  PROVE  Shape(u, M, N, pos, e) /\ Recolored(t, u, p, y, gp)
  <1> DEFINE t1 == Paint(t, p, "black")
             t2 == Paint(t1, y, "black")
  <1>1. Shape(t1, M, N, pos, e) /\ Repainted(t, t1, p, "black")
        BY PaintShape
  <1> HIDE DEF t1
  <1>2. Shape(t2, M, N, pos, e) /\ Repainted(t1, t2, y, "black")
        BY <1>1, PaintShape
  <1>3. u = Paint(t2, gp, "red")
        BY DEF t1
  <1> HIDE DEF t2
  <1>4. Shape(u, M, N, pos, e) /\ Repainted(t2, u, gp, "red")
        BY <1>2, <1>3, PaintShape
  <1> QED BY <1>1, <1>2, <1>4 DEF Repainted, Recolored

(* The two children of gp: a family. *)
LEMMA Siblings ==
  ASSUME NEW t, NEW M, NEW N, NEW pos, NEW e, Shape(t, M, N, pos, e),
         NEW gp \in M, NEW d \in Sides, NEW p \in M, t[d][gp] = p,
         NEW y, t[Opposite(d)][gp] = y, y # NULL
  PROVE  Family(t, M, p, y, gp)
  <1>1. p # NULL /\ Opposite(d) \in Sides /\ Opposite(Opposite(d)) = d
        /\ \A s \in Sides : s = d \/ s = Opposite(d)
        BY Numbers, TwoSides
  <1>2. y \in M /\ p # gp /\ y # gp /\ p # y /\ t.up[p] = gp /\ t.up[y] = gp
        BY <1>1, KidOf
  <1>3. \A s \in Sides : \A n \in M : t[s][n] # NULL => t.up[t[s][n]] = n
        BY KidOf
  <1>4. M \subseteq Pointers /\ NULL \notin M /\ t.root \in Pointers
        /\ \A s \in Sides : \A n \in Pointers : t[s][n] \in Pointers
        BY Numbers, Links DEF Shape
  <1> QED BY <1>1, <1>2, <1>3, <1>4 DEF Family, Pointers

(* Two red children take their color from their black parent: the paths keep
   their black entries. *)
LEMMA RecoloredHeights ==
  ASSUME NEW t, NEW u, NEW M, NEW b, NEW p, NEW y, NEW gp,
         Heights(t, M, b, NULL, "left"), Family(t, M, p, y, gp),
         t.color[p] = "red", t.color[y] = "red", t.color[gp] = "black",
         Recolored(t, u, p, y, gp)
  PROVE  \E b2 : Heights(u, M, b2, NULL, "left")
  <1> DEFINE b2 == [b EXCEPT ![p] = b[gp], ![y] = b[gp]]
  <1>1. /\ p \in M /\ y \in M /\ gp \in M /\ p # y /\ p # gp /\ y # gp
        /\ M \subseteq Pointers /\ NULL \notin M /\ NULL \in Pointers
        /\ \A s \in Sides : \A n \in M : t[s][n] \in Pointers
        BY DEF Family
  <1>2. /\ \A s \in Sides : u[s] = t[s]
        /\ \A n \in Pointers :
             u.color[n] = IF n = gp THEN "red"
                          ELSE IF n = p \/ n = y THEN "black" ELSE t.color[n]
        BY DEF Recolored
  <1>3. /\ b \in [Pointers -> Nat \ {0}] /\ b[NULL] = 1
        /\ \A n \in M : Even(t, b, n, NULL, "left")
        BY DEF Heights
  <1>4. /\ b2 \in [Pointers -> Nat \ {0}] /\ b2[NULL] = 1
        /\ b2[p] = b[gp] /\ b2[y] = b[gp]
        /\ \A n \in Pointers \ {p, y} : b2[n] = b[n]
        BY <1>1, <1>3
  <1> HIDE DEF b2
  <1>5. b[gp] = b[p] + 1 /\ b[gp] = b[y] + 1 /\ b[p] \in Int /\ b[y] \in Int
        /\ b[gp] \in Int
    <2>1. Even(t, b, gp, NULL, "left")
          BY <1>1, <1>3
    <2>2. PICK s \in Sides : t[s][gp] = p
          BY DEF Family
    <2>3. PICK r \in Sides : t[r][gp] = y
          BY DEF Family
    <2>4. b[p] \in Int /\ b[y] \in Int /\ b[gp] \in Int
          BY <1>1, <1>3
    <2> QED BY <1>1, <2>1, <2>2, <2>3, <2>4 DEF Even, Blacks
  <1>6. ASSUME NEW n \in M \ {gp, p, y}
        PROVE  Even(u, b2, n, NULL, "left")
    <2>1. Even(t, b, n, NULL, "left") /\ n \in Pointers /\ n # NULL
          BY <1>1, <1>3
    <2>2. Blacks(u, n) = Blacks(t, n)
          BY <1>2, <2>1 DEF Blacks
    <2>3. \A s \in Sides : b2[u[s][n]] = b[t[s][n]]
          BY <1>1, <1>2, <1>4 DEF Family
    <2> QED BY <1>4, <2>1, <2>2, <2>3 DEF Even
  <1>7. ASSUME NEW n \in {p, y}
        PROVE  Even(u, b2, n, NULL, "left")
    <2>1. Even(t, b, n, NULL, "left") /\ n \in Pointers /\ n # NULL
          BY <1>1, <1>3
    <2>2. Blacks(u, n) = 1 /\ Blacks(t, n) = 0
          BY <1>1, <1>2, <2>1 DEF Blacks
    <2>3. \A s \in Sides : b2[u[s][n]] = b[t[s][n]] /\ b[t[s][n]] \in Int
          BY <1>1, <1>2, <1>3, <1>4 DEF Family
    <2>4. b2[n] = b[n] + 1 /\ b[n] \in Int
          BY <1>4, <1>5
    <2> QED BY <2>1, <2>2, <2>3, <2>4 DEF Even
  <1>8. Even(u, b2, gp, NULL, "left")
    <2>1. Blacks(u, gp) = 0 /\ gp # NULL
          BY <1>1, <1>2 DEF Blacks
    <2>2. b2[gp] = b[gp]
          BY <1>1, <1>4
    <2>3. \A s \in Sides : b2[u[s][gp]] = b[gp]
          BY <1>2, <1>4 DEF Family
    <2> QED BY <1>5, <2>1, <2>2, <2>3 DEF Even
  <1>9. Heights(u, M, b2, NULL, "left")
        BY <1>4, <1>6, <1>7, <1>8 DEF Heights
  <1> QED BY <1>9

(* If x and its red parent p were the only red pair, then only the parent of
   gp may be red above gp, which is red now. *)
LEMMA RecoloredColors ==
  ASSUME NEW t, NEW u, NEW M, NEW x, NEW p, NEW y, NEW gp,
         Colors(t, M, NULL, x), Family(t, M, p, y, gp), x # t.root,
         \A n \in M \ {p} : \A s \in Sides : t[s][n] # x,
         Recolored(t, u, p, y, gp)
  PROVE  Colors(u, M, NULL, gp)
  <1>1. /\ p \in M /\ y \in M /\ gp \in M /\ p # y /\ p # gp /\ y # gp
        /\ M \subseteq Pointers /\ NULL \notin M /\ t.root \in Pointers
        /\ \A s \in Sides : \A n \in M : t[s][n] \in Pointers
        /\ \A s \in Sides : t[s][gp] = p \/ t[s][gp] = y
        BY DEF Family
  <1>2. /\ u.root = t.root /\ \A s \in Sides : u[s] = t[s]
        /\ \A n \in Pointers :
             u.color[n] = IF n = gp THEN "red"
                          ELSE IF n = p \/ n = y THEN "black" ELSE t.color[n]
        /\ \A n \in Pointers :
             Color(u, n) = IF n = gp THEN "red"
                           ELSE IF n = p \/ n = y THEN "black" ELSE Color(t, n)
        BY DEF Recolored
  <1>3. \A n \in M : t.color[n] \in {"red", "black"} /\ Calm(t, n, NULL, x)
        BY DEF Colors
  <1>4. \A n \in M : u.color[n] \in {"red", "black"}
        BY <1>1, <1>2, <1>3
  <1>5. ASSUME NEW n \in M, u.color[n] = "red", NEW s \in Sides
        PROVE  u[s][n] = gp \/ Color(u, u[s][n]) = "black"
    <2>1. CASE n = gp
          BY <1>1, <1>2, <2>1
    <2>2. CASE n # gp
      <3>1. n # NULL /\ n \in Pointers /\ t.color[n] = "red" /\ n # p
            BY <1>1, <1>2, <1>5, <2>2
      <3>2. Color(t, t[s][n]) = "black"
            BY <1>3, <3>1 DEF Calm
      <3> QED BY <1>1, <1>2, <3>1, <3>2
    <2> QED BY <2>1, <2>2
  <1>6. u.root = gp \/ Color(u, u.root) = "black"
    <2>1. Color(t, t.root) = "black"
          BY DEF Colors
    <2> QED BY <1>1, <1>2, <2>1
  <1> QED BY <1>4, <1>5, <1>6 DEF Colors, Calm

(* A red uncle: the red pair, if there is one, is higher up. *)
LEMMA RedUncle ==
  ASSUME NEW t, NEW M, NEW N, NEW pos, NEW e, Shape(t, M, N, pos, e),
         NEW b, Heights(t, M, b, NULL, "left"),
         NEW x \in M, Colors(t, M, NULL, x), t.color[x] = "red", t.up[x] # NULL,
         NEW gp \in M, NEW d \in Sides, NEW p \in M, t[d][gp] = p,
         NEW f \in Sides, t[f][p] = x, t[Opposite(f)][p] # x,
         NEW y, t[Opposite(d)][gp] = y, Color(t, y) = "red",
         t.color[p] = "red", t.color[gp] = "black",
         NEW u, u = Paint(Paint(Paint(t, p, "black"), y, "black"), gp, "red")
  PROVE  AfterTurn(t, M, N, pos, e, x, u, gp)
  <1>1. y # NULL /\ t.color[y] = "red"
        BY DEF Color
  <1>2. Family(t, M, p, y, gp)
        BY <1>1, Siblings
  <1>3. y \in M
        BY <1>2 DEF Family
  <1>4. Shape(u, M, N, pos, e) /\ Recolored(t, u, p, y, gp)
        BY <1>3, Painted3
  <1>5. PICK b2 : Heights(u, M, b2, NULL, "left")
        BY <1>1, <1>2, <1>4, RecoloredHeights
  <1>6. /\ x # NULL /\ p # NULL /\ gp # NULL /\ M \subseteq Pointers
        /\ NULL \notin M
        BY Numbers
  <1>7. /\ x # t.root /\ t.up[x] = p /\ Size(e, x) < Size(e, p)
        /\ Size(e, p) < Size(e, gp)
        BY <1>6, KidOf
  <1>8. \A n \in M \ {p} : \A s \in Sides : t[s][n] # x
        BY <1>6, <1>7, KidOf
  <1>9. Colors(u, M, NULL, gp)
        BY <1>2, <1>4, <1>7, <1>8, RecoloredColors
  <1>10. Size(e, x) < Size(e, gp)
    <2>1. Size(e, x) \in Nat /\ Size(e, p) \in Nat /\ Size(e, gp) \in Nat
          BY Numbers
    <2> QED BY <1>7, <2>1
  <1>11. Untouched(t, u, M) /\ u.color[gp] = "red"
         BY <1>4, <1>6 DEF Untouched, Recolored
  <1> QED BY <1>4, <1>5, <1>9, <1>10, <1>11 DEF AfterTurn, Balance

(* The inner rotation: x is now the parent of p, on the side d of gp. *)
LEMMA InnerTurn ==
  ASSUME NEW t, NEW M, NEW N, NEW pos, NEW e, Shape(t, M, N, pos, e),
         NEW b, Heights(t, M, b, NULL, "left"),
         NEW x \in M, Colors(t, M, NULL, x), t.color[x] = "red",
         NEW gp \in M, NEW d \in Sides, NEW p \in M, t[d][gp] = p,
         t[Opposite(d)][p] = x,
         t.color[p] = "red", t.color[gp] = "black",
         NEW r, r = Rotate(t, p, d)
  PROVE  /\ \E e2 : Shape(r, M, N, pos, e2)
         /\ Heights(r, M, b, NULL, "left") /\ Colors(r, M, NULL, p)
         /\ r[d][gp] = x /\ r[d][x] = p /\ r.color = t.color
         /\ r[Opposite(d)][gp] = t[Opposite(d)][gp] /\ Untouched(t, r, M)
  <1>1. /\ x # NULL /\ p # NULL /\ gp # NULL /\ M \subseteq Pointers
        /\ NULL \notin M /\ x = t[Opposite(d)][p]
        BY Numbers
  <1>2. /\ Opposite(d) \in Sides /\ Opposite(d) # d /\ Opposite(Opposite(d)) = d
        /\ \A s \in Sides : s = d \/ s = Opposite(d)
        BY TwoSides
  <1>3. /\ t.up[x] = p /\ t.up[p] = gp /\ x # p /\ p # gp /\ x # gp
        /\ x # t.root /\ p # t.root /\ t[d][p] # x
        /\ t[Opposite(d)][gp] # p
    <2>1. /\ t.up[x] = p /\ t.up[p] = gp /\ Size(e, x) < Size(e, p)
          /\ Size(e, p) < Size(e, gp) /\ x # t.root /\ p # t.root
          /\ t[d][p] # x /\ t[Opposite(d)][gp] # p
          BY <1>1, <1>2, KidOf
    <2>2. Size(e, x) \in Nat /\ Size(e, p) \in Nat /\ Size(e, gp) \in Nat
          BY Numbers
    <2> QED BY <2>1, <2>2
  <1>4. /\ r.color = t.color /\ r[d][x] = p
        /\ \A n \in M \ {p, x} : \A s \in Sides :
              \/ r[s][n] = t[s][n] /\ t[s][n] \notin {p, x}
              \/ n = t.up[p] /\ t[s][n] = p /\ r[s][n] = x
        BY <1>1, RotateKids
  <1>5. r[d][gp] = x /\ r[Opposite(d)][gp] = t[Opposite(d)][gp]
        BY <1>2, <1>3, <1>4
  <1>6. Untouched(t, r, M) /\ \E e2 : Shape(r, M, N, pos, e2)
        BY <1>1, RotateUntouched, RotateShape
  <1>7. /\ b \in [Pointers -> Nat \ {0}] /\ b[NULL] = 1
        /\ \A n \in M : Even(t, b, n, NULL, "left")
        BY DEF Heights
  <1>8. \A s \in Sides : \A n \in Pointers : t[s][n] \in Pointers
        BY Links DEF Shape
  <1>9. Heights(r, M, b, NULL, "left")
    <2>1. Turned(t, b, b, p, x, d, NULL, "left")
      <3>1. Even(t, b, p, NULL, "left") /\ Even(t, b, x, NULL, "left")
            BY <1>7
      <3>2. Blacks(t, p) = 0 /\ Blacks(t, x) = 0
            BY DEF Blacks
      <3>3. /\ t[d][x] \in Pointers /\ t[Opposite(d)][x] \in Pointers
            /\ t[d][p] \in Pointers /\ x \in Pointers /\ p \in Pointers
            BY <1>1, <1>2, <1>8
      <3>4. /\ b[x] \in Int /\ b[p] \in Int /\ b[t[d][x]] \in Int
            /\ b[t[d][p]] \in Int /\ b[t[Opposite(d)][x]] \in Int
            BY <1>7, <3>3
      <3>5. /\ b[p] = b[t[d][p]] /\ b[p] = b[x] /\ b[x] = b[t[d][x]]
            /\ b[x] = b[t[Opposite(d)][x]]
            BY <1>1, <1>2, <3>1, <3>2, <3>4 DEF Even
      <3> QED BY <1>1, <1>7, <3>2, <3>4, <3>5 DEF Turned
    <2>2. EvenBut(t, M, b, NULL, "left", p, x)
          BY <1>7 DEF EvenBut
    <2> QED BY <1>1, <2>1, <2>2, RotateHeights
  <1>10. Colors(r, M, NULL, p)
    <2>1. \A n \in M : t.color[n] \in {"red", "black"} /\ Calm(t, n, NULL, x)
          BY DEF Colors
    <2>2. \A n \in M \ {p} : \A s \in Sides : t[s][n] # x
          BY <1>1, <1>3, KidOf
    <2>3. ASSUME NEW n \in M, t.color[n] = "red", NEW s \in Sides, t[s][n] # x
          PROVE  Color(t, t[s][n]) = "black"
          BY <1>1, <2>1, <2>3 DEF Calm
    <2>4. \A n \in M \ {p, x} : t.color[n] = "red" /\ n # NULL =>
            \A s \in Sides : t[s][n] \in {p, p} \/ Color(t, t[s][n]) = "black"
          BY <2>2, <2>3
    <2>5. /\ Color(t, t[d][p]) = "black" /\ Color(t, t[d][x]) = "black"
          /\ Color(t, t[Opposite(d)][x]) = "black"
          BY <1>2, <1>3, <2>2, <2>3
    <2>6. t.root = p \/ Color(t, t.root) = "black"
          BY <1>3 DEF Colors
    <2> QED BY <1>1, <1>3, <2>1, <2>4, <2>5, <2>6, RotateColors
  <1> QED BY <1>4, <1>5, <1>6, <1>9, <1>10

(***************************************************************************)
(* The repair of an insertion                                              *)
(***************************************************************************)
(* The operations keep the type of a tree. *)
LEMMA TypedLift ==
  ASSUME NEW t \in TreeRecords, NEW x \in Pointers, NEW y \in Pointers
  PROVE  Lift(t, x, y) \in TreeRecords
  <1> DEFINE a == SetUp(t, y, t.up[x])
             s == IF x = a.left[t.up[x]] THEN "left" ELSE "right"
  <1>1. t.up[x] \in Pointers
        BY Links DEF TreeRecords
  <1>2. a \in TreeRecords
        BY <1>1, ParentSet
  <1>3. s \in Sides
        BY DEF Sides
  <1>4. Lift(t, x, y) = IF t.up[x] = NULL THEN [a EXCEPT !.root = y]
                        ELSE Link(a, t.up[x], s, y)
        BY DEF Lift, Replace
  <1> HIDE DEF a, s
  <1>5. [a EXCEPT !.root = y] \in TreeRecords
        BY <1>2 DEF TreeRecords
  <1>6. Link(a, t.up[x], s, y) \in TreeRecords
        BY <1>1, <1>2, <1>3, Linked
  <1> QED BY <1>4, <1>5, <1>6

(* Hang keeps the types. *)
LEMMA TypedHang ==
  ASSUME NEW t \in TreeRecords, NEW n \in Pointers, NEW d \in Sides,
         NEW c \in Pointers
  PROVE  Hang(t, n, d, c) \in TreeRecords
  <1>1. Link(t, n, d, c) \in TreeRecords
        BY Linked
  <1> QED BY <1>1, ParentSet DEF Hang

(* Rotate keeps the types. *)
LEMMA TypedRotate ==
  ASSUME NEW t \in TreeRecords, NEW x \in Pointers, NEW d \in Sides
  PROVE  Rotate(t, x, d) \in TreeRecords
  <1> DEFINE y == t[Opposite(d)][x]
             a == Hang(t, x, Opposite(d), t[d][y])
             f == Lift(a, x, y)
  <1>1. Opposite(d) \in Sides
        BY TwoSides
  <1>2. y \in Pointers
        BY <1>1, Links
  <1>3. t[d][y] \in Pointers
        BY <1>2, Links
  <1>4. a \in TreeRecords
        BY <1>1, <1>2, <1>3, TypedHang
  <1>5. f \in TreeRecords
        BY <1>2, <1>4, TypedLift
  <1>6. Rotate(t, x, d) = Hang(f, y, d, x)
    <2> HIDE DEF y, a, f
    <2> QED BY RotateSteps DEF y, a, f
  <1> QED BY <1>2, <1>5, <1>6, TypedHang

(* Paint keeps the types. *)
LEMMA TypedPaint ==
  ASSUME NEW t \in TreeRecords, NEW n \in Pointers,
         NEW c \in {"red", "black", "invalid"}
  PROVE  Paint(t, n, c) \in TreeRecords
  BY DEF Paint, TreeRecords

(* A turn of the loop, by its cases. *)
LEMMA InsertCases ==
  ASSUME NEW t, NEW x, NEW p, p = t.up[x], NEW gp, gp = t.up[p],
         NEW d, d = SideOf(t, p), NEW y, y = t[Opposite(d)][gp]
  PROVE  InsertTurn(t, x) =
           IF Color(t, y) = "red"
           THEN <<Paint(Paint(Paint(t, p, "black"), y, "black"), gp, "red"), gp>>
           ELSE IF SideOf(t, x) # d THEN <<Raise(Rotate(t, p, d), p, d), p>>
           ELSE <<Raise(t, x, d), x>>
  BY DEF InsertTurn

(* Raise keeps the types. *)
LEMMA TypedRaise ==
  ASSUME NEW t \in TreeRecords, NEW x \in Pointers, NEW d \in Sides
  PROVE  Raise(t, x, d) \in TreeRecords
  <1> DEFINE p == t.up[x]
             gp == t.up[p]
             a == Paint(t, p, "black")
             f == Paint(a, gp, "red")
  <1>1. p \in Pointers /\ gp \in Pointers
        BY DEF TreeRecords
  <1>2. a \in TreeRecords
        BY <1>1, TypedPaint
  <1>3. f \in TreeRecords
        BY <1>1, <1>2, TypedPaint
  <1>4. Raise(t, x, d) = Rotate(f, gp, Opposite(d))
        BY DEF Raise
  <1> QED BY <1>1, <1>3, <1>4, TwoSides, TypedRotate

(* A turn of the loop of itree_insert_fix keeps the types. *)
LEMMA TypedInsertTurn ==
  ASSUME NEW t \in TreeRecords, NEW x \in Pointers
  PROVE  InsertTurn(t, x) \in TreeRecords \X Pointers
  <1> DEFINE p == t.up[x]
             gp == t.up[p]
             d == SideOf(t, p)
             y == t[Opposite(d)][gp]
             a == Paint(t, p, "black")
             f == Paint(a, y, "black")
  <1>1. p \in Pointers /\ gp \in Pointers
        BY DEF TreeRecords
  <1>2. d \in Sides
        BY DEF SideOf, Sides
  <1> HIDE DEF d
  <1>3. Opposite(d) \in Sides
        BY <1>2, TwoSides
  <1>4. y \in Pointers
        BY <1>1, <1>3, Links
  <1>5. a \in TreeRecords
        BY <1>1, TypedPaint
  <1>6. f \in TreeRecords
        BY <1>4, <1>5, TypedPaint
  <1>7. Paint(f, gp, "red") \in TreeRecords
        BY <1>1, <1>6, TypedPaint
  <1>8. Raise(Rotate(t, p, d), p, d) \in TreeRecords
        BY <1>1, <1>2, TypedRotate, TypedRaise
  <1>9. Raise(t, x, d) \in TreeRecords
        BY <1>2, TypedRaise
  <1>10. InsertTurn(t, x) =
           IF Color(t, y) = "red" THEN <<Paint(f, gp, "red"), gp>>
           ELSE IF SideOf(t, x) # d THEN <<Raise(Rotate(t, p, d), p, d), p>>
           ELSE <<Raise(t, x, d), x>>
    <2> HIDE DEF p, gp, y
    <2> QED BY InsertCases DEF p, gp, y, d
  <1> HIDE DEF p, gp, y, f
  <1> QED BY <1>1, <1>7, <1>8, <1>9, <1>10

(* A turn of the loop of itree_insert_fix. *)
LEMMA InsertTurned ==
  ASSUME NEW t, NEW M, NEW N, NEW pos, NEW e, Shape(t, M, N, pos, e),
         NEW b, Heights(t, M, b, NULL, "left"),
         NEW x \in M, Colors(t, M, NULL, x), t.color[x] = "red",
         Color(t, t.up[x]) = "red", NEW r, r = InsertTurn(t, x)
  PROVE  AfterTurn(t, M, N, pos, e, x, r[1], r[2])
  <1> DEFINE p == t.up[x]
             gp == t.up[p]
             d == SideOf(t, p)
             y == t[Opposite(d)][gp]
             w == Paint(Paint(Paint(t, p, "black"), y, "black"), gp, "red")
             q == Rotate(t, p, d)
  <1>1. /\ p \in M /\ gp \in M /\ d \in Sides /\ x # t.root /\ p # t.root
        /\ t[d][gp] = p /\ t[Opposite(d)][gp] # p
        /\ t.color[p] = "red" /\ t.color[gp] = "black"
        /\ x # p /\ p # gp /\ x # gp
        /\ SideOf(t, x) \in Sides /\ t[SideOf(t, x)][p] = x
        /\ t[Opposite(SideOf(t, x))][p] # x
    <2> HIDE DEF p, gp, d
    <2> QED BY RedPair DEF p, gp, d
  <1>2. r = IF Color(t, y) = "red" THEN <<w, gp>>
            ELSE IF SideOf(t, x) # d THEN <<Raise(q, p, d), p>>
            ELSE <<Raise(t, x, d), x>>
    <2> HIDE DEF p, gp, d, y
    <2> QED BY InsertCases DEF p, gp, d, y
  <1>3. t.up[x] # NULL
        BY DEF Color
  <1>4. y = t[Opposite(d)][gp] /\ q = Rotate(t, p, d)
        /\ w = Paint(Paint(Paint(t, p, "black"), y, "black"), gp, "red")
        OBVIOUS
  <1> HIDE DEF p, gp, d, y, w, q
  <1>5. CASE Color(t, y) = "red"
    <2>1. r[1] = w /\ r[2] = gp
          BY <1>2, <1>5
    <2>2. AfterTurn(t, M, N, pos, e, x, w, gp)
          BY <1>1, <1>3, <1>4, <1>5, RedUncle
    <2> QED BY <2>1, <2>2
  <1>6. CASE Color(t, y) # "red" /\ SideOf(t, x) = d
    <2> DEFINE v == Raise(t, x, d)
    <2>1. r[1] = v /\ r[2] = x
          BY <1>2, <1>6
    <2>2. Color(t, y) = "black"
      <3>1. y # NULL => y \in M
            BY <1>1, <1>4, TwoSides, KidOf
      <3> QED BY <1>6, <3>1 DEF Colors, Color
    <2>3. v = Raise(t, x, d)
          OBVIOUS
    <2> HIDE DEF v
    <2>4. t[d][p] = x /\ Color(t, t[Opposite(d)][gp]) = "black"
          BY <1>1, <1>4, <1>6, <2>2
    <2>5. /\ \E b2 : Balance(v, M, N, pos, b2, NULL, "left", NULL, x)
          /\ v.color[x] = "red" /\ Color(v, v.up[x]) = "black"
          /\ Untouched(t, v, M)
          BY <1>1, <2>3, <2>4, Raised
    <2> QED BY <2>1, <2>5 DEF AfterTurn
  <1>7. CASE Color(t, y) # "red" /\ SideOf(t, x) # d
    <2> DEFINE v == Raise(q, p, d)
    <2>1. r[1] = v /\ r[2] = p
          BY <1>2, <1>7
    <2>2. Color(t, y) = "black"
      <3>1. y # NULL => y \in M
            BY <1>1, <1>4, TwoSides, KidOf
      <3> QED BY <1>7, <3>1 DEF Colors, Color
    <2>3. v = Raise(q, p, d)
          OBVIOUS
    <2> HIDE DEF v
    <2>4. t[Opposite(d)][p] = x
      <3>1. SideOf(t, x) = Opposite(d)
            BY <1>1, <1>7, TwoSides
      <3> QED BY <1>1, <3>1
    <2>5. /\ \E e2 : Shape(q, M, N, pos, e2)
          /\ Heights(q, M, b, NULL, "left") /\ Colors(q, M, NULL, p)
          /\ q[d][gp] = x /\ q[d][x] = p /\ q.color = t.color
          /\ q[Opposite(d)][gp] = t[Opposite(d)][gp] /\ Untouched(t, q, M)
          BY <1>1, <1>4, <2>4, InnerTurn
    <2>6. PICK e2 : Shape(q, M, N, pos, e2)
          BY <2>5
    <2>7. Color(q, q[Opposite(d)][gp]) = "black"
          BY <1>4, <2>2, <2>5 DEF Color
    <2>8. q.color[x] = "red" /\ q.color[p] = "red" /\ q.color[gp] = "black"
          BY <1>1, <2>5
    <2>9. /\ \E b2 : Balance(v, M, N, pos, b2, NULL, "left", NULL, p)
          /\ v.color[p] = "red" /\ Color(v, v.up[p]) = "black"
          /\ Untouched(q, v, M)
          BY <1>1, <2>3, <2>5, <2>6, <2>7, <2>8, Raised
    <2>10. Untouched(t, v, M)
           BY <2>5, <2>9 DEF Untouched
    <2> QED BY <1>1, <2>1, <2>9, <2>10 DEF AfterTurn
  <1> QED BY <1>5, <1>6, <1>7

(* The loop of itree_insert_fix is a function. *)
LEMMA InsertLoopEquation ==
  InsertLoop = [s \in TreeRecords \X Pointers |->
                  IF Color(s[1], s[1].up[s[2]]) # "red" THEN s[1]
                  ELSE InsertLoop[InsertTurn(s[1], s[2])]]
  <1> DEFINE S == TreeRecords \X Pointers
             Stop == {s \in S : Color(s[1], s[1].up[s[2]]) # "red"}
             g == [s \in S |-> s[1]]
             next == [s \in S |-> InsertTurn(s[1], s[2])]
             G(f) == [s \in S |-> IF Color(s[1], s[1].up[s[2]]) # "red" THEN s[1]
                                  ELSE f[InsertTurn(s[1], s[2])]]
  <1>1. \A f : IsLoop(S, Stop, g, next, f) <=> f = G(f)
    <2>1. ASSUME NEW f
          PROVE  [s \in S |-> IF s \in Stop THEN g[s] ELSE f[next[s]]] = G(f)
          OBVIOUS
    <2> HIDE DEF S, Stop, g, next, G
    <2> QED BY <2>1 DEF IsLoop
  <1>2. Loops(S, Stop, next)
    <2>1. \A s \in S : next[s] \in S
          BY TypedInsertTurn
    <2> QED BY <2>1 DEF Loops
  <1>4. \E f : IsLoop(S, Stop, g, next, f)
    <2> HIDE DEF S, Stop, g, next
    <2> QED BY <1>2, LoopExists
  <1>5. \E f : f = G(f)
    <2> HIDE DEF S, Stop, g, next, G
    <2> QED BY <1>1, <1>4
  <1>6. InsertLoop = CHOOSE f : f = G(f)
        BY DEF InsertLoop
  <1> HIDE DEF G
  <1>7. InsertLoop = G(InsertLoop)
        BY <1>5, <1>6
  <1> QED BY <1>7 DEF G

(* The state of the loop of itree_insert_fix: from t0, at most n turns are *)
(* to come.                                                                *)
InsertState(t0, t, x, M, N, pos, n) ==
  /\ t \in TreeRecords /\ x \in M /\ t.color[x] = "red" /\ Untouched(t0, t, M)
  /\ \E b : Heights(t, M, b, NULL, "left") /\ Colors(t, M, NULL, x)
  /\ \E e : /\ Shape(t, M, N, pos, e)
            /\ Color(t, t.up[x]) = "red" => N - Size(e, x) <= n

(* A turn keeps the state of the loop, and goes up or ends it. *)
LEMMA InsertStep ==
  ASSUME NEW t0, NEW t, NEW x, NEW M, NEW N, NEW pos, NEW n \in Nat,
         InsertState(t0, t, x, M, N, pos, n), Color(t, t.up[x]) = "red",
         NEW r, r = InsertTurn(t, x)
  PROVE  n > 0 /\ InsertState(t0, r[1], r[2], M, N, pos, n - 1)
  <1>1. /\ x \in M /\ t.color[x] = "red" /\ Untouched(t0, t, M)
        BY DEF InsertState
  <1>2. PICK b : Heights(t, M, b, NULL, "left") /\ Colors(t, M, NULL, x)
        BY DEF InsertState
  <1>3. PICK e : Shape(t, M, N, pos, e) /\ N - Size(e, x) <= n
        BY DEF InsertState
  <1>4. AfterTurn(t, M, N, pos, e, x, r[1], r[2])
        BY <1>1, <1>2, <1>3, InsertTurned
  <1>5. Size(e, x) \in Nat /\ Size(e, x) < N /\ N \in Nat
        BY <1>1, <1>3, Numbers
  <1>6. n > 0
        BY <1>3, <1>5
  <1>7. Untouched(t0, r[1], M)
        BY <1>1, <1>4 DEF AfterTurn, Untouched
  <1>8. /\ r[2] \in M /\ r[1].color[r[2]] = "red"
        /\ \E b2 : Balance(r[1], M, N, pos, b2, NULL, "left", NULL, r[2])
        BY <1>4 DEF AfterTurn
  <1>9. PICK b2 : Balance(r[1], M, N, pos, b2, NULL, "left", NULL, r[2])
        BY <1>8
  <1>10. r[1] \in TreeRecords
         BY <1>9 DEF Balance, Shape
  <1>11. \E e2 : /\ Shape(r[1], M, N, pos, e2)
                 /\ Color(r[1], r[1].up[r[2]]) = "red" => N - Size(e2, r[2]) <= n - 1
    <2>1. CASE Color(r[1], r[1].up[r[2]]) # "red"
          BY <1>9, <2>1 DEF Balance
    <2>2. CASE Shape(r[1], M, N, pos, e) /\ Size(e, x) < Size(e, r[2])
      <3>1. Size(e, r[2]) \in Nat
            BY <1>8, <2>2, Numbers
      <3>2. N - Size(e, r[2]) <= n - 1
            BY <1>3, <1>5, <2>2, <3>1
      <3> QED BY <2>2, <3>2
    <2> QED BY <1>4, <2>1, <2>2 DEF AfterTurn
  <1> QED BY <1>6, <1>7, <1>8, <1>9, <1>10, <1>11 DEF InsertState, Balance

(* Where the loop of itree_insert_fix ends. *)
LEMMA InsertLooped ==
  ASSUME NEW t, NEW x, NEW M, NEW N, NEW pos, NEW n \in Nat,
         InsertState(t, t, x, M, N, pos, n)
  PROVE  \E y : /\ InsertState(t, InsertLoop[<<t, x>>], y, M, N, pos, 0)
                /\ LET u == InsertLoop[<<t, x>>] IN Color(u, u.up[y]) # "red"
  <1> DEFINE S == TreeRecords \X Pointers
             Stop == {s \in S : Color(s[1], s[1].up[s[2]]) # "red"}
             g == [s \in S |-> s[1]]
             next == [s \in S |-> InsertTurn(s[1], s[2])]
             Inv == [i \in Nat |-> {s \in S : InsertState(t, s[1], s[2], M, N, pos, i)}]
             f == InsertLoop
  <1>1. IsLoop(S, Stop, g, next, f)
    <2>1. f = [s \in S |-> IF Color(s[1], s[1].up[s[2]]) # "red" THEN s[1]
                           ELSE f[InsertTurn(s[1], s[2])]]
          BY InsertLoopEquation
    <2> HIDE DEF f
    <2>2. [s \in S |-> IF Color(s[1], s[1].up[s[2]]) # "red" THEN s[1]
                       ELSE f[InsertTurn(s[1], s[2])]]
            = [s \in S |-> IF s \in Stop THEN g[s] ELSE f[next[s]]]
          OBVIOUS
    <2> HIDE DEF S, Stop, g, next
    <2> QED BY <2>1, <2>2 DEF IsLoop, S
  <1> HIDE DEF f
  <1>2. \A i \in Nat : Inv[i] \subseteq S
        OBVIOUS
  <1>3. ASSUME NEW i \in Nat, NEW s \in Inv[i] \ Stop
        PROVE  \E m \in Nat : m < i /\ next[s] \in Inv[m]
    <2>1. /\ s \in S /\ InsertState(t, s[1], s[2], M, N, pos, i)
          /\ Color(s[1], s[1].up[s[2]]) = "red"
          BY <1>3
    <2>2. next[s] = InsertTurn(s[1], s[2]) /\ next[s] \in S
      <3>1. s[1] \in TreeRecords /\ s[2] \in Pointers
            BY <2>1
      <3>2. next[s] = InsertTurn(s[1], s[2])
            BY <2>1
      <3> QED BY <3>1, <3>2, TypedInsertTurn
    <2>3. i > 0 /\ InsertState(t, next[s][1], next[s][2], M, N, pos, i - 1)
      <3> HIDE DEF next, S
      <3> QED BY <2>1, <2>2, InsertStep
    <2>4. i - 1 \in Nat /\ i - 1 < i
          BY <2>3
    <2>5. next[s] \in Inv[i - 1]
      <3> HIDE DEF next, S
      <3> QED BY <2>2, <2>3, <2>4
    <2> QED BY <2>4, <2>5
  <1>4. <<t, x>> \in Inv[n]
    <2>1. t \in TreeRecords /\ x \in Pointers
      <3>1. x \in M /\ \E e : Shape(t, M, N, pos, e)
            BY DEF InsertState
      <3> QED BY <3>1, Numbers DEF InsertState
    <2> QED BY <2>1
  <1>5. \E m \in Nat : \E s \in Inv[m] : s \in Stop /\ f[<<t, x>>] = g[s]
    <2> HIDE DEF S, Stop, g, next, Inv
    <2>1. Descends(S, Stop, next, Inv)
          BY <1>2, <1>3 DEF Descends
    <2> QED BY <1>1, <1>4, <2>1, LoopEnds
  <1>6. PICK m \in Nat : \E s \in Inv[m] : s \in Stop /\ f[<<t, x>>] = g[s]
        BY <1>5
  <1>7. PICK s \in Inv[m] : s \in Stop /\ f[<<t, x>>] = g[s]
        BY <1>6
  <1>8. /\ f[<<t, x>>] = s[1] /\ Color(s[1], s[1].up[s[2]]) # "red"
        /\ InsertState(t, s[1], s[2], M, N, pos, m)
        BY <1>7
  <1>9. InsertState(t, s[1], s[2], M, N, pos, 0)
        BY <1>8 DEF InsertState
  <1> QED BY <1>8, <1>9 DEF f

(* The tree after the repair of an insertion. *)
Repaired(t, u, M, N, pos) ==
  /\ u \in TreeRecords /\ Untouched(t, u, M)
  /\ \E e : Shape(u, M, N, pos, e)
  /\ \E b : Heights(u, M, b, NULL, "left") /\ Colors(u, M, NULL, NULL)

(* A red root becomes black: each path has one black entry more. *)
LEMMA BlackRoot ==
  ASSUME NEW t, NEW M, NEW N, NEW pos, NEW e, Shape(t, M, N, pos, e),
         NEW b, Heights(t, M, b, NULL, "left"), t.root # NULL,
         \A n \in M : t.color[n] \in {"red", "black"} /\ Calm(t, n, NULL, NULL),
         NEW u, u = Paint(t, t.root, "black")
  PROVE  Repaired(t, u, M, N, pos)
  <1> DEFINE z == t.root
             b2 == [b EXCEPT ![z] = b[z] + 1 - Blacks(t, z)]
  <1>0. z \in M
        BY DEF Shape, Root
  <1>1. z \in M /\ z # NULL /\ z \in Pointers /\ M \subseteq Pointers
        /\ NULL \notin M
        BY <1>0, Numbers
  <1>2. u = Paint(t, z, "black")
        OBVIOUS
  <1> HIDE DEF z
  <1>3. Shape(u, M, N, pos, e) /\ Repainted(t, u, z, "black")
        BY <1>1, <1>2, PaintShape
  <1>4. /\ u.root = t.root /\ \A s \in Sides : u[s] = t[s]
        BY <1>3 DEF Repainted
  <1>5. /\ \A m \in Pointers : u.color[m] = IF m = z THEN "black" ELSE t.color[m]
        /\ \A m \in Pointers : Color(u, m) = IF m = z THEN "black" ELSE Color(t, m)
        BY <1>3 DEF Repainted
  <1>6. \A s \in Sides : \A n \in M : t[s][n] # z /\ t[s][n] \in Pointers
    <2>1. t \in TreeRecords
          BY DEF Shape
    <2> QED BY <1>1, <2>1, KidOf, Links DEF z
  <1>7. /\ b \in [Pointers -> Nat \ {0}] /\ b[NULL] = 1
        /\ \A n \in M : Even(t, b, n, NULL, "left")
        BY DEF Heights
  <1>8. Blacks(t, z) \in {0, 1} /\ b[z] \in Nat \ {0}
        BY <1>1, <1>7 DEF Blacks
  <1>9. /\ b2 \in [Pointers -> Nat \ {0}] /\ b2[NULL] = 1
        /\ b2[z] = b[z] + 1 - Blacks(t, z)
        /\ \A n \in Pointers \ {z} : b2[n] = b[n]
        BY <1>1, <1>7, <1>8 DEF Pointers
  <1> HIDE DEF b2
  <1>10. ASSUME NEW n \in M PROVE Even(u, b2, n, NULL, "left")
    <2>1. \A s \in Sides : b2[u[s][n]] = b[t[s][n]] /\ b[t[s][n]] \in Int
          BY <1>4, <1>6, <1>7, <1>9
    <2>2. Even(t, b, n, NULL, "left") /\ n # NULL /\ n \in Pointers
          BY <1>1, <1>7
    <2>3. CASE n = z
      <3>1. Blacks(u, n) = 1
            BY <1>5, <2>2, <2>3 DEF Blacks
      <3> QED BY <1>8, <1>9, <2>1, <2>2, <2>3, <3>1 DEF Even
    <2>4. CASE n # z
      <3>1. Blacks(u, n) = Blacks(t, n)
            BY <1>5, <2>2, <2>4 DEF Blacks
      <3> QED BY <1>9, <2>1, <2>2, <2>4, <3>1 DEF Even
    <2> QED BY <2>3, <2>4
  <1>11. Heights(u, M, b2, NULL, "left")
         BY <1>9, <1>10 DEF Heights
  <1>12. ASSUME NEW n \in M
         PROVE  u.color[n] \in {"red", "black"} /\ Calm(u, n, NULL, NULL)
    <2>1. Calm(t, n, NULL, NULL) /\ t.color[n] \in {"red", "black"}
          /\ n # NULL /\ n \in Pointers
          BY <1>1
    <2> QED BY <1>4, <1>5, <1>6, <2>1 DEF Calm
  <1>13. Colors(u, M, NULL, NULL)
    <2>1. Color(u, u.root) = "black"
          BY <1>1, <1>4, <1>5 DEF z
    <2> QED BY <1>12, <2>1 DEF Colors
  <1>14. u \in TreeRecords /\ Untouched(t, u, M)
         BY <1>3, <1>4 DEF Shape, Untouched
  <1> QED BY <1>3, <1>11, <1>13, <1>14 DEF Repaired

(* itree_insert_fix. *)
LEMMA InsertFixed ==
  ASSUME NEW t, NEW M, NEW N, NEW pos, NEW e, Shape(t, M, N, pos, e),
         NEW b, Heights(t, M, b, NULL, "left"),
         NEW x \in M, Colors(t, M, NULL, x), t.color[x] = "red"
  PROVE  Repaired(t, InsertFix(t, x), M, N, pos)
  <1> DEFINE t1 == InsertLoop[<<t, x>>]
             u == Paint(t1, t1.root, "black")
  <1>1. N \in Nat /\ Size(e, x) \in Nat /\ t \in TreeRecords
        BY Numbers DEF Shape
  <1>2. InsertState(t, t, x, M, N, pos, N)
        BY <1>1 DEF InsertState, Untouched
  <1>3. \E y : /\ InsertState(t, t1, y, M, N, pos, 0)
               /\ Color(t1, t1.up[y]) # "red"
        BY <1>1, <1>2, InsertLooped
  <1>4. InsertFix(t, x) = u
        BY DEF InsertFix
  <1>5. u = Paint(t1, t1.root, "black")
        OBVIOUS
  <1> HIDE DEF t1, u
  <1>6. PICK y : InsertState(t, t1, y, M, N, pos, 0) /\ Color(t1, t1.up[y]) # "red"
        BY <1>3
  <1>7. PICK b1 : Heights(t1, M, b1, NULL, "left") /\ Colors(t1, M, NULL, y)
        BY <1>6 DEF InsertState
  <1>8. PICK e1 : Shape(t1, M, N, pos, e1)
        BY <1>6 DEF InsertState
  <1>9. y \in M /\ Untouched(t, t1, M) /\ y # NULL
        BY <1>6, <1>8, Numbers DEF InsertState
  <1>10. ASSUME NEW n \in M
         PROVE  t1.color[n] \in {"red", "black"} /\ Calm(t1, n, NULL, NULL)
    <2>1. t1.color[n] \in {"red", "black"} /\ Calm(t1, n, NULL, y)
          BY <1>7 DEF Colors
    <2>2. n # NULL
          BY <1>8, Numbers
    <2>3. t1.color[n] = "red" => \A s \in Sides : t1[s][n] # y
          BY <1>6, <1>8, <1>9, <2>2, KidOf DEF Color
    <2> QED BY <2>1, <2>3 DEF Calm
  <1>11. t1.root # NULL
         BY <1>8, <1>9 DEF Shape, Root
  <1>12. Repaired(t1, u, M, N, pos)
         BY <1>5, <1>7, <1>8, <1>10, <1>11, BlackRoot
  <1> QED BY <1>4, <1>9, <1>12 DEF Repaired, Untouched

(***************************************************************************)
(* A new leaf                                                              *)
(***************************************************************************)
(* The position of a new child of y, on the side d. *)
Gap(pos, y, d) == IF d = "left" THEN pos[y] ELSE pos[y] + 1

(* pos2 are the positions when z has come in at q. *)
MadeRoom(M, pos, pos2, z, q) ==
  /\ pos2 \in [Entries -> Int] /\ pos2[z] = q /\ q \in Int
  /\ \A m \in M : pos2[m] = IF pos[m] < q THEN pos[m] ELSE pos[m] + 1

(* u is t with z as a leaf, the child of y on the side d. *)
Grown(t, u, z, y, d) ==
  /\ u \in TreeRecords /\ u.root = t.root
  /\ \A n \in Pointers : u.up[n] = IF n = z THEN y ELSE t.up[n]
  /\ \A n \in Pointers : \A s \in Sides :
       u[s][n] = IF n = z THEN NULL ELSE IF n = y /\ s = d THEN z ELSE t[s][n]
  /\ \A n \in Pointers : u.color[n] = IF n = z THEN "red" ELSE t.color[n]

(* A leaf more, where there was no child. *)
LEMMA GrownShape ==
  ASSUME NEW t, NEW M, NEW N, NEW pos, NEW e, Shape(t, M, N, pos, e),
         NEW z \in Entries \ M, NEW y \in M, NEW d \in Sides, t[d][y] = NULL,
         \A m \in M \ {y} : pos[m] # pos[y],
         NEW u, Grown(t, u, z, y, d),
         NEW pos2, MadeRoom(M, pos, pos2, z, Gap(pos, y, d))
  PROVE  \E e2 : Shape(u, M \cup {z}, N + 1, pos2, e2)
  <1> DEFINE P == pos[y]
             q == Gap(pos, y, d)
             K == M \cup {z}
             e2 == [s \in Sides |-> [n \in Entries |->
                      IF n = z THEN q
                      ELSE IF s = "left"
                      THEN (IF e[s][n] > P THEN e[s][n] + 1 ELSE e[s][n])
                      ELSE (IF e[s][n] >= P THEN e[s][n] + 1 ELSE e[s][n])]]
  <1>1. /\ Ghosts(M, N, pos, e) /\ Root(t, M, N, e)
        /\ \A n \in M : /\ Spans(N, pos, e, n) /\ Up(t, M, n)
                        /\ \A s \in Sides : Kid(t, M, pos, e, n, s)
        BY DEF Shape
  <1>2. /\ M \subseteq Entries /\ N \in Nat /\ pos \in [Entries -> Int]
        /\ e \in [Sides -> [Entries -> Int]]
        BY <1>1 DEF Ghosts
  <1>3. P \in Int /\ q \in Int /\ q = IF d = "left" THEN P ELSE P + 1
        BY <1>2 DEF Gap
  <1>4. e2 \in [Sides -> [Entries -> Int]]
    <2>1. \A s \in Sides : \A n \in Entries : e[s][n] \in Int
          BY <1>2
    <2> HIDE DEF P, q
    <2> QED BY <1>3, <2>1
  <1>5. /\ \A s \in Sides : e2[s][z] = q
        /\ \A n \in M : /\ e2["left"][n] = IF e["left"][n] > P THEN e["left"][n] + 1
                                                         ELSE e["left"][n]
                        /\ e2["right"][n] = IF e["right"][n] >= P THEN e["right"][n] + 1
                                                           ELSE e["right"][n]
        BY <1>2 DEF Sides
  <1>6. /\ \A n \in M : pos2[n] = IF pos[n] < q THEN pos[n] ELSE pos[n] + 1
        /\ pos2[z] = q /\ pos2 \in [Entries -> Int]
        BY DEF MadeRoom
  <1>7. Ghosts(K, N + 1, pos2, e2)
        BY <1>2, <1>4, <1>6 DEF Ghosts
  <1>8. \A n \in M : /\ n # z /\ n # NULL /\ n \in Pointers /\ pos[n] \in Int
                     /\ e["left"][n] \in Int /\ e["right"][n] \in Int
        BY Numbers DEF Sides
  <1> HIDE DEF e2, P, q
  <1>9. ASSUME NEW n \in M
        PROVE  Spans(N + 1, pos2, e2, n)
    <2>1. Spans(N, pos, e, n) /\ (n = y => pos[n] = P)
          BY <1>1 DEF P
    <2> QED BY <1>2, <1>3, <1>5, <1>6, <1>8, <2>1 DEF Spans
  <1>10. Spans(N + 1, pos2, e2, z)
    <2>1. Spans(N, pos, e, y) /\ pos[y] = P
          BY <1>1 DEF P
    <2> QED BY <1>2, <1>3, <1>5, <1>6, <1>8, <2>1 DEF Spans, Sides
  <1>11. /\ u.root = t.root
         /\ \A n \in Pointers : u.up[n] = IF n = z THEN y ELSE t.up[n]
         /\ \A n \in Pointers : \A s \in Sides :
              u[s][n] = IF n = z THEN NULL
                        ELSE IF n = y /\ s = d THEN z ELSE t[s][n]
         /\ u \in TreeRecords
         BY DEF Grown
  <1>12. z \in Pointers /\ z # NULL /\ z \notin M
         BY KeysAssumption DEF Pointers, KeysAssumption
  <1>13. ASSUME NEW n \in K, n # u.root
         PROVE  u.up[n] \in K /\ \E s \in Sides : u[s][u.up[n]] = n
    <2>1. CASE n = z
          BY <1>8, <1>11, <1>12, <2>1
    <2>2. CASE n # z
      <3>1. n \in M /\ Up(t, M, n)
            BY <1>1, <2>2
      <3>2. t.up[n] \in M /\ \E s \in Sides : t[s][t.up[n]] = n
            BY <1>11, <1>13, <3>1 DEF Up
      <3>3. PICK s \in Sides : t[s][t.up[n]] = n
            BY <3>2
      <3>4. u.up[n] = t.up[n] /\ n # NULL
            BY <1>8, <1>11, <2>2, <3>1
      <3>5. ~(t.up[n] = y /\ s = d)
            BY <3>3, <3>4
      <3>6. u[s][t.up[n]] = n
            BY <1>8, <1>11, <3>2, <3>3, <3>5
      <3> QED BY <3>2, <3>4, <3>6
    <2> QED BY <2>1, <2>2
  <1>14. ASSUME NEW n \in K, NEW s \in Sides
         PROVE  Kid(u, K, pos2, e2, n, s)
    <2>1. CASE n = z
          BY <1>5, <1>6, <1>11, <1>12, <2>1 DEF Kid
    <2>2. CASE n = y /\ s = d
      <3>1. e[d][y] = P /\ pos[y] = P /\ n \in M
            BY <1>1, <2>2 DEF Kid, P
      <3>2. u[s][n] = z /\ u.up[z] = n
            BY <1>8, <1>11, <1>12, <2>2
      <3>3. Opposite(s) \in Sides
            BY TwoSides
      <3>4. e2[s][z] = e2[s][n] /\ e2[Opposite(s)][z] = pos2[n] + Near(s)
        <4>1. e2[d][y] = q /\ pos2[y] + Near(d) = q
          <5>1. CASE d = "left"
            <6>1. e["left"][y] = P /\ q = P /\ Near(d) = -1 /\ pos2[y] = P + 1
                  BY <1>3, <1>6, <3>1, <5>1 DEF Near
            <6> QED BY <1>3, <1>5, <5>1, <6>1
          <5>2. CASE d = "right"
            <6>1. e["right"][y] = P /\ q = P + 1 /\ Near(d) = 1 /\ pos2[y] = P
                  BY <1>3, <1>6, <3>1, <5>2 DEF Near
            <6> QED BY <1>3, <1>5, <5>2, <6>1
          <5> QED BY <5>1, <5>2 DEF Sides
        <4> QED BY <1>5, <2>2, <3>3, <4>1
      <3> QED BY <1>12, <3>2, <3>4 DEF Kid
    <2>3. CASE n # z /\ ~(n = y /\ s = d)
      <3>1. n \in M /\ Kid(t, M, pos, e, n, s) /\ (n # y => pos[n] # P)
            /\ (n = y => pos[n] = P)
            BY <1>1, <2>3 DEF P
      <3>2. u[s][n] = t[s][n]
            BY <1>8, <1>11, <2>3, <3>1
      <3>3. CASE t[s][n] = NULL
        <4>1. e[s][n] = pos[n]
              BY <3>1, <3>3 DEF Kid
        <4>2. e2[s][n] = pos2[n]
          <5>1. CASE s = "left"
                BY <1>3, <1>5, <1>6, <1>8, <2>3, <3>1, <4>1, <5>1 DEF Sides
          <5>2. CASE s = "right"
                BY <1>3, <1>5, <1>6, <1>8, <2>3, <3>1, <4>1, <5>2 DEF Sides
          <5> QED BY <5>1, <5>2 DEF Sides
        <4> QED BY <3>2, <3>3, <4>2 DEF Kid
      <3>4. CASE t[s][n] # NULL
        <4> DEFINE c == t[s][n]
        <4>1. /\ c \in M /\ t.up[c] = n /\ e[s][c] = e[s][n]
              /\ e[Opposite(s)][c] = pos[n] + Near(s)
              BY <3>1, <3>4 DEF Kid
        <4>2. u.up[c] = n
              BY <1>8, <1>11, <4>1
        <4> HIDE DEF c
        <4>3. n = y => s = Opposite(d)
              BY <2>3, TwoSides
        <4>4. e2[s][c] = e2[s][n] /\ e2[Opposite(s)][c] = pos2[n] + Near(s)
          <5>1. CASE s = "left"
                BY <1>3, <1>5, <1>6, <1>8, <3>1, <4>1, <4>3, <5>1
                DEF Near, Opposite, Sides
          <5>2. CASE s = "right"
                BY <1>3, <1>5, <1>6, <1>8, <3>1, <4>1, <4>3, <5>2
                DEF Near, Opposite, Sides
          <5> QED BY <5>1, <5>2 DEF Sides
        <4> QED BY <3>2, <3>4, <4>1, <4>2, <4>4 DEF Kid, c
      <3> QED BY <3>3, <3>4
    <2> QED BY <2>1, <2>2, <2>3
  <1>15. Root(u, K, N + 1, e2)
    <2>1. t.root # NULL
          BY <1>1 DEF Root
    <2>2. /\ t.root \in M /\ t.up[t.root] = NULL
          /\ e["left"][t.root] = 1 /\ e["right"][t.root] = N
          BY <1>1, <2>1 DEF Root
    <2>3. 1 <= P /\ P <= N
      <3>1. Spans(N, pos, e, y)
            BY <1>1
      <3> QED BY <1>2, <1>3, <1>8, <3>1 DEF Spans, P
    <2>4. u.up[t.root] = NULL
          BY <1>8, <1>11, <2>2
    <2>5. e2["left"][t.root] = 1 /\ e2["right"][t.root] = N + 1
      <3>1. ~(e["left"][t.root] > P) /\ e["right"][t.root] >= P
            BY <1>2, <1>3, <2>2, <2>3
      <3> QED BY <1>5, <2>2, <3>1
    <2> QED BY <1>11, <2>1, <2>2, <2>4, <2>5 DEF Root
  <1>16. Shape(u, K, N + 1, pos2, e2)
         BY <1>7, <1>9, <1>10, <1>11, <1>13, <1>14, <1>15 DEF Shape, Up
  <1> QED BY <1>16

(* The entries are in the order of their keys. *)
Sorted(M, pos) ==
  \A m, n \in M : pos[m] <= pos[n] => keyOf[m] <= keyOf[n]

(* The keys before the position q are k or less, the others are more. *)
Parts(M, pos, q, k) ==
  \A m \in M : (pos[m] < q => keyOf[m] <= k) /\ (pos[m] >= q => keyOf[m] > k)

(* The state of the descent of itree_insert. *)
Below(M, pos, e, k, x) ==
  \A m \in M : /\ pos[m] < e["left"][x] => keyOf[m] <= k
               /\ pos[m] > e["right"][x] => keyOf[m] > k

(* A step of the descent goes to the side of the key. *)
LEMMA BelowStep ==
  ASSUME NEW t, NEW M, NEW N, NEW pos, NEW e, Shape(t, M, N, pos, e),
         keyOf \in [Entries -> Nat], NEW k \in Nat, Sorted(M, pos),
         NEW x \in M, Below(M, pos, e, k, x)
  PROVE  LET d == SideFor(k, x)
             c == t[d][x]
         IN /\ d \in Sides
            /\ c = NULL => Parts(M, pos, Gap(pos, x, d), k)
            /\ c # NULL => c \in M /\ Size(e, c) < Size(e, x) /\ Below(M, pos, e, k, c)
  <1> DEFINE d == SideFor(k, x)
             c == t[d][x]
  <1>1. /\ \A m \in M : pos[m] \in Int /\ keyOf[m] \in Nat
        /\ e["left"][x] \in Int /\ e["right"][x] \in Int
        BY Numbers DEF Sides
  <1>2. /\ \A m \in M : pos[m] < e["left"][x] => keyOf[m] <= k
        /\ \A m \in M : pos[m] > e["right"][x] => keyOf[m] > k
        BY DEF Below
  <1>3. /\ \A m \in M : pos[m] <= pos[x] => keyOf[m] <= keyOf[x]
        /\ \A m \in M : pos[x] <= pos[m] => keyOf[x] <= keyOf[m]
        BY DEF Sorted
  <1>4. c = t[d][x] /\ d \in Sides
        /\ (d = "left" => k < keyOf[x]) /\ (d = "right" => keyOf[x] <= k)
        BY <1>1 DEF SideFor, GoLeft, Sides
  <1> HIDE DEF d, c
  <1>5. ASSUME c = NULL PROVE Parts(M, pos, Gap(pos, x, d), k)
    <2>1. Kid(t, M, pos, e, x, d)
          BY <1>4 DEF Shape
    <2>2. e[d][x] = pos[x]
          BY <1>4, <1>5, <2>1 DEF Kid
    <2>3. CASE d = "left"
          BY <1>1, <1>2, <1>3, <1>4, <2>2, <2>3 DEF Parts, Gap
    <2>4. CASE d = "right"
          BY <1>1, <1>2, <1>3, <1>4, <2>2, <2>4 DEF Parts, Gap
    <2> QED BY <1>4, <2>3, <2>4 DEF Sides
  <1>6. ASSUME c # NULL
        PROVE  c \in M /\ Size(e, c) < Size(e, x) /\ Below(M, pos, e, k, c)
    <2>1. /\ c \in M /\ Size(e, c) < Size(e, x)
          /\ e[d][c] = e[d][x] /\ e[Opposite(d)][c] = pos[x] + Near(d)
          BY <1>4, <1>6, KidOf
    <2>2. CASE d = "left"
      <3>1. e["left"][c] = e["left"][x] /\ e["right"][c] = pos[x] - 1
            BY <1>1, <2>1, <2>2 DEF Opposite, Near
      <3> QED BY <1>1, <1>2, <1>3, <1>4, <2>1, <2>2, <3>1 DEF Below
    <2>3. CASE d = "right"
      <3>1. e["right"][c] = e["right"][x] /\ e["left"][c] = pos[x] + 1
            BY <1>1, <2>1, <2>3 DEF Opposite, Near
      <3> QED BY <1>1, <1>2, <1>3, <1>4, <2>1, <2>3, <3>1 DEF Below
    <2> QED BY <1>4, <2>2, <2>3 DEF Sides
  <1> QED BY <1>4, <1>5, <1>6 DEF d, c

(* Where the descent ends. *)
LEMMA Descended ==
  ASSUME NEW t, NEW M, NEW N, NEW pos, NEW e, Shape(t, M, N, pos, e),
         keyOf \in [Entries -> Nat], NEW k \in Nat, Sorted(M, pos),
         t.root # NULL
  PROVE  LET y == Descend(t, k)
             d == SideFor(k, y)
         IN /\ y \in M /\ d \in Sides /\ t[d][y] = NULL
            /\ Parts(M, pos, Gap(pos, y, d), k)
  <1> DEFINE S == Entries
             Stop == {x \in S : t[SideFor(k, x)][x] = NULL}
             g == [x \in S |-> x]
             next == [x \in S |-> t[SideFor(k, x)][x]]
             G(f) == [x \in Entries |-> LET c == t[SideFor(k, x)][x]
                                        IN IF c = NULL THEN x ELSE f[c]]
             f == CHOOSE h : h = G(h)
             Inv == [i \in Nat |-> {x \in M : Size(e, x) <= i
                                              /\ Below(M, pos, e, k, x)}]
  <1>1. \A h : IsLoop(S, Stop, g, next, h) <=> h = G(h)
    <2>1. ASSUME NEW h
          PROVE  [x \in S |-> IF x \in Stop THEN g[x] ELSE h[next[x]]] = G(h)
          OBVIOUS
    <2> HIDE DEF S, Stop, g, next, G
    <2> QED BY <2>1 DEF IsLoop
  <1>2. Loops(S, Stop, next)
    <2>1. ASSUME NEW x \in S \ Stop PROVE next[x] \in S
      <3>1. SideFor(k, x) \in Sides /\ x \in Pointers /\ t \in TreeRecords
            BY DEF SideFor, Sides, Pointers, Shape
      <3>2. t[SideFor(k, x)][x] \in Pointers
            BY <3>1, Links
      <3> QED BY <3>2 DEF Pointers
    <2> HIDE DEF next
    <2> QED BY <2>1 DEF Loops
  <1>3. IsLoop(S, Stop, g, next, f)
    <2> HIDE DEF S, Stop, g, next, G
    <2>1. \E h : IsLoop(S, Stop, g, next, h)
          BY <1>2, LoopExists
    <2> QED BY <1>1, <2>1
  <1>4. Descend(t, k) = f[t.root]
        BY DEF Descend
  <1> HIDE DEF f, G
  <1>5. M \subseteq S /\ t.root \in M /\ N \in Nat
        /\ e["left"][t.root] = 1 /\ e["right"][t.root] = N
        BY DEF Shape, Root, Ghosts
  <1>6. ASSUME NEW i \in Nat, NEW x \in Inv[i] \ Stop
        PROVE  \E m \in Nat : m < i /\ next[x] \in Inv[m]
    <2>1. x \in M /\ Size(e, x) <= i /\ Below(M, pos, e, k, x)
          /\ t[SideFor(k, x)][x] # NULL /\ next[x] = t[SideFor(k, x)][x]
          BY <1>5, <1>6
    <2>2. /\ next[x] \in M /\ Size(e, next[x]) < Size(e, x)
          /\ Below(M, pos, e, k, next[x])
          BY <2>1, BelowStep
    <2>3. Size(e, next[x]) \in Nat /\ Size(e, x) \in Nat
          BY <2>1, <2>2, Numbers
    <2>4. Size(e, next[x]) < i /\ next[x] \in Inv[Size(e, next[x])]
      <3> HIDE DEF next
      <3> QED BY <2>1, <2>2, <2>3
    <2> QED BY <2>3, <2>4
  <1>7. t.root \in Inv[N]
    <2>1. \A m \in M : 1 <= pos[m] /\ pos[m] <= N
      <3>1. \A m \in M : Spans(N, pos, e, m) /\ pos[m] \in Int
                         /\ e["left"][m] \in Int /\ e["right"][m] \in Int
            BY Numbers DEF Shape, Sides
      <3> QED BY <1>5, <3>1 DEF Spans
    <2>2. Below(M, pos, e, k, t.root)
      <3>1. \A m \in M : pos[m] \in Int
            BY Numbers
      <3> QED BY <1>5, <2>1, <3>1 DEF Below
    <2>3. Size(e, t.root) <= N
          BY <1>5, Numbers
    <2> QED BY <1>5, <2>2, <2>3
  <1>8. \A i \in Nat : Inv[i] \subseteq S
        BY <1>5
  <1>9. \E m \in Nat : \E x \in Inv[m] : x \in Stop /\ f[t.root] = g[x]
    <2> HIDE DEF S, Stop, g, next, Inv
    <2>1. Descends(S, Stop, next, Inv)
          BY <1>6, <1>8 DEF Descends
    <2> QED BY <1>3, <1>5, <1>7, <2>1, LoopEnds
  <1>10. PICK x \in M : x \in Stop /\ f[t.root] = g[x] /\ Below(M, pos, e, k, x)
         BY <1>9
  <1>11. x = Descend(t, k) /\ t[SideFor(k, x)][x] = NULL
         BY <1>4, <1>5, <1>10
  <1>12. SideFor(k, x) \in Sides /\ Parts(M, pos, Gap(pos, x, SideFor(k, x)), k)
         BY <1>10, <1>11, BelowStep
  <1> QED BY <1>11, <1>12

(* A red leaf changes the height of no other entry. *)
LEMMA GrownBalance ==
  ASSUME NEW t, NEW M, NEW N, NEW pos, NEW e, Shape(t, M, N, pos, e),
         NEW b, Heights(t, M, b, NULL, "left"), Colors(t, M, NULL, NULL),
         NEW z \in Entries \ M, NEW y \in M, NEW d \in Sides, t[d][y] = NULL,
         NEW u, Grown(t, u, z, y, d)
  PROVE  /\ \E b2 : Heights(u, M \cup {z}, b2, NULL, "left")
         /\ Colors(u, M \cup {z}, NULL, z) /\ u.color[z] = "red"
  <1> DEFINE b2 == [b EXCEPT ![z] = 1]
  <1>1. /\ u.root = t.root
        /\ \A n \in Pointers : \A s \in Sides :
             u[s][n] = IF n = z THEN NULL
                       ELSE IF n = y /\ s = d THEN z ELSE t[s][n]
        /\ \A n \in Pointers :
             u.color[n] = IF n = z THEN "red" ELSE t.color[n]
        BY DEF Grown
  <1>2. /\ z \in Pointers /\ z # NULL /\ z \notin M /\ NULL \in Pointers
        /\ NULL \notin M /\ M \subseteq Pointers /\ t \in TreeRecords
        BY KeysAssumption, Numbers DEF Pointers, KeysAssumption, Shape
  <1>3. \A n \in M : \A s \in Sides : t[s][n] \in Pointers /\ t[s][n] # z
        BY <1>2, Links, KidOf
  <1>4. /\ b \in [Pointers -> Nat \ {0}] /\ b[NULL] = 1
        /\ \A n \in M : Even(t, b, n, NULL, "left")
        BY DEF Heights
  <1>5. /\ b2 \in [Pointers -> Nat \ {0}] /\ b2[NULL] = 1 /\ b2[z] = 1
        /\ \A n \in Pointers \ {z} : b2[n] = b[n]
        BY <1>2, <1>4
  <1> HIDE DEF b2
  <1>6. ASSUME NEW n \in M PROVE Even(u, b2, n, NULL, "left")
    <2>1. Even(t, b, n, NULL, "left") /\ n \in Pointers /\ n # NULL /\ n # z
          BY <1>2, <1>4
    <2>2. Blacks(u, n) = Blacks(t, n)
          BY <1>1, <2>1 DEF Blacks
    <2>3. \A s \in Sides : b2[u[s][n]] = b[t[s][n]]
          BY <1>1, <1>2, <1>3, <1>4, <1>5, <2>1
    <2>4. b2[n] = b[n]
          BY <1>5, <2>1
    <2> QED BY <2>1, <2>2, <2>3, <2>4 DEF Even
  <1>7. Even(u, b2, z, NULL, "left")
    <2>1. Blacks(u, z) = 0 /\ \A s \in Sides : b2[u[s][z]] = 1
          BY <1>1, <1>2, <1>5 DEF Blacks
    <2> QED BY <1>2, <1>5, <2>1 DEF Even
  <1>8. Heights(u, M \cup {z}, b2, NULL, "left")
        BY <1>5, <1>6, <1>7 DEF Heights
  <1>9. \A n \in Pointers \ {z} : Color(u, n) = Color(t, n)
        BY <1>1 DEF Color
  <1>10. ASSUME NEW n \in M \cup {z}
         PROVE  u.color[n] \in {"red", "black"} /\ Calm(u, n, NULL, z)
    <2>1. CASE n = z
          BY <1>1, <1>2, <2>1 DEF Calm, Color
    <2>2. CASE n \in M
      <3>1. t.color[n] \in {"red", "black"} /\ Calm(t, n, NULL, NULL)
            BY <2>2 DEF Colors
      <3>2. u.color[n] = t.color[n] /\ n # NULL
            BY <1>1, <1>2, <2>2
      <3>3. \A s \in Sides : u[s][n] = z \/ u[s][n] = t[s][n]
            BY <1>1, <1>2, <2>2
      <3>4. \A s \in Sides : t[s][n] = NULL => Color(t, t[s][n]) = "black"
            BY DEF Color
      <3> QED BY <1>3, <1>9, <2>2, <3>1, <3>2, <3>3, <3>4 DEF Calm
    <2> QED BY <2>1, <2>2
  <1>11. u.root = z \/ Color(u, u.root) = "black"
    <2>1. t.root \in Pointers
          BY <1>2, Links
    <2>2. Color(t, t.root) = "black"
          BY DEF Colors, Color
    <2> QED BY <1>1, <1>2, <1>9, <2>1, <2>2
  <1>12. u.color[z] = "red"
         BY <1>1, <1>2
  <1> QED BY <1>8, <1>10, <1>11, <1>12 DEF Colors

(* z is the only entry of u. *)
Alone(u, z) ==
  /\ u \in TreeRecords /\ u.root = z /\ u.up[z] = NULL /\ u.color[z] = "red"
  /\ \A s \in Sides : u[s][z] = NULL

(* The tree of one entry. *)
LEMMA AloneShape ==
  ASSUME NEW u, NEW z \in Entries, Alone(u, z),
         NEW pos \in [Entries -> Int], pos[z] = 1
  PROVE  /\ \E e : Shape(u, {z}, 1, pos, e)
         /\ \E b : Heights(u, {z}, b, NULL, "left")
         /\ Colors(u, {z}, NULL, z)
  <1> DEFINE e == [s \in Sides |-> [n \in Entries |-> 1]]
             b == [n \in Pointers |-> 1]
  <1>1. z # NULL /\ NULL \in Pointers /\ z \in Pointers
        BY KeysAssumption DEF KeysAssumption, Pointers
  <1>2. Ghosts({z}, 1, pos, e) /\ \A s \in Sides : e[s][z] = 1
        BY DEF Ghosts
  <1>3. b \in [Pointers -> Nat \ {0}] /\ \A n \in Pointers : b[n] = 1
        OBVIOUS
  <1> HIDE DEF e, b
  <1>4. Shape(u, {z}, 1, pos, e)
        BY <1>1, <1>2 DEF Shape, Alone, Root, Spans, Up, Kid, Sides
  <1>5. Heights(u, {z}, b, NULL, "left")
        BY <1>1, <1>3 DEF Heights, Even, Blacks, Alone
  <1>6. Colors(u, {z}, NULL, z)
        BY <1>1 DEF Colors, Calm, Alone, Color
  <1> QED BY <1>4, <1>5, <1>6

(* itree_insert, as far as its repair. *)
LEMMA LeafAdded ==
  ASSUME NEW t \in TreeRecords, NEW z \in Entries, NEW k,
         NEW y \in Pointers, y = Descend(t, k), y # z
  PROVE  \E u : /\ Inserted(t, z, k) = InsertFix(u, z)
                /\ y = NULL => Alone(u, z) /\ \A n \in Pointers \ {z} :
                                               \A s \in Sides : u[s][n] = t[s][n]
                /\ y # NULL => Grown(t, u, z, y, SideFor(k, y))
  <1> DEFINE t1 == [t EXCEPT !.left[z] = NULL, !.right[z] = NULL, !.up[z] = y,
                             !.color[z] = "red"]
             d == SideFor(k, y)
             t2 == IF y = NULL THEN [t1 EXCEPT !.root = z] ELSE Link(t1, y, d, z)
  <1>1. Inserted(t, z, k) = InsertFix(t2, z)
        BY DEF Inserted
  <1>2. z \in Pointers /\ NULL \in Pointers /\ d \in Sides
        BY DEF Pointers, SideFor, Sides
  <1>3. /\ t1 \in TreeRecords /\ t1.root = t.root
        /\ \A n \in Pointers : t1.up[n] = IF n = z THEN y ELSE t.up[n]
        /\ \A n \in Pointers : t1.left[n] = IF n = z THEN NULL ELSE t.left[n]
        /\ \A n \in Pointers : t1.right[n] = IF n = z THEN NULL ELSE t.right[n]
        /\ \A n \in Pointers : t1.color[n] = IF n = z THEN "red" ELSE t.color[n]
        BY <1>2 DEF TreeRecords
  <1>5. t2 = IF y = NULL THEN [t1 EXCEPT !.root = z] ELSE Link(t1, y, d, z)
        OBVIOUS
  <1> HIDE DEF t1, d, t2
  <1>4. ASSUME NEW n \in Pointers, NEW s \in Sides
        PROVE  t1[s][n] = IF n = z THEN NULL ELSE t[s][n]
    <2>1. CASE s = "left"
          BY <1>3, <2>1
    <2>2. CASE s = "right"
          BY <1>3, <2>2
    <2> QED BY <2>1, <2>2 DEF Sides
  <1>6. ASSUME y = NULL
        PROVE  Alone(t2, z) /\ \A n \in Pointers \ {z} :
                                 \A s \in Sides : t2[s][n] = t[s][n]
    <2>1. /\ t2 \in TreeRecords /\ t2.root = z /\ t2.up = t1.up
          /\ t2.color = t1.color /\ t2.left = t1.left /\ t2.right = t1.right
          BY <1>2, <1>3, <1>5, <1>6 DEF TreeRecords
    <2>2. \A s \in Sides : t2[s] = t1[s]
          BY <1>3, <2>1, Links
    <2> QED BY <1>2, <1>3, <1>4, <1>6, <2>1, <2>2 DEF Alone
  <1>7. ASSUME y # NULL
        PROVE  Grown(t, t2, z, y, d)
    <2>1. t2 = Link(t1, y, d, z)
          BY <1>5, <1>7
    <2>2. /\ t2 \in TreeRecords /\ t2[d] = [t1[d] EXCEPT ![y] = z]
          /\ t2[Opposite(d)] = t1[Opposite(d)]
          /\ t2.up = t1.up /\ t2.root = t1.root /\ t2.color = t1.color
          BY <1>2, <1>3, <2>1, Linked
    <2>3. \A s \in Sides : s = d \/ s = Opposite(d)
          BY <1>2, TwoSides
    <2>4. t1[d] \in [Pointers -> Pointers] /\ Opposite(d) # d
          BY <1>2, <1>3, Links, TwoSides
    <2>5. \A n \in Pointers : \A s \in Sides :
            t2[s][n] = IF n = y /\ s = d THEN z ELSE t1[s][n]
          BY <2>2, <2>3, <2>4
    <2>6. \A n \in Pointers : \A s \in Sides :
            t2[s][n] = IF n = z THEN NULL
                       ELSE IF n = y /\ s = d THEN z ELSE t[s][n]
          BY <1>4, <2>5
    <2> QED BY <1>3, <2>2, <2>6 DEF Grown
  <1> QED BY <1>1, <1>6, <1>7 DEF d

-----------------------------------------------------------------------------
(* The links of the entries outside the tree are NULL. *)
Outside(t, M) == \A n \in Pointers \ M : \A s \in Sides : t[s][n] = NULL

(* A red-black tree of the entries M, at the positions pos. *)
Tree(t, M, N, pos) ==
  /\ Outside(t, M) /\ \E e : Shape(t, M, N, pos, e)
  /\ \E b : Heights(t, M, b, NULL, "left") /\ Colors(t, M, NULL, NULL)

(* The position of each entry is its own. *)
Apart(M, pos) == \A m, n \in M : pos[m] = pos[n] => m = n

(* itree_insert: the tree stays a red-black tree, and z comes behind the
   entries whose keys are not larger. *)
LEMMA InsertedTree ==
  ASSUME NEW t, NEW M, NEW N, NEW pos, Tree(t, M, N, pos), Apart(M, pos),
         keyOf \in [Entries -> Nat], NEW k \in Nat, Sorted(M, pos),
         NEW z \in Entries \ M
  PROVE  \E q \in 1 .. N + 1 :
           /\ Parts(M, pos, q, k)
           /\ \A pos2 : MadeRoom(M, pos, pos2, z, q) =>
                Tree(Inserted(t, z, k), M \cup {z}, N + 1, pos2)
  <1> DEFINE y == Descend(t, k)
  <1>1. PICK e : Shape(t, M, N, pos, e)
        BY DEF Tree
  <1>2. PICK b : Heights(t, M, b, NULL, "left")
        BY DEF Tree
  <1>3. Outside(t, M) /\ Colors(t, M, NULL, NULL)
        BY DEF Tree
  <1>4. /\ t \in TreeRecords /\ M \subseteq Entries /\ N \in Nat
        /\ Root(t, M, N, e)
        BY <1>1 DEF Shape, Ghosts
  <1>5. t.root = NULL => y = NULL
        BY DEF Descend
  <1>6. t.root # NULL => /\ y \in M /\ SideFor(k, y) \in Sides
                         /\ t[SideFor(k, y)][y] = NULL
                         /\ Parts(M, pos, Gap(pos, y, SideFor(k, y)), k)
        BY <1>1, Descended
  <1>7. y \in Pointers /\ y # z
    <2>1. z # NULL
          BY KeysAssumption DEF KeysAssumption
    <2> HIDE DEF y
    <2> QED BY <1>4, <1>5, <1>6, <2>1 DEF Pointers
  <1>8. y = Descend(t, k)
        OBVIOUS
  <1> HIDE DEF y
  <1>9. \E u : /\ Inserted(t, z, k) = InsertFix(u, z)
               /\ y = NULL => Alone(u, z) /\ \A n \in Pointers \ {z} :
                                              \A s \in Sides : u[s][n] = t[s][n]
               /\ y # NULL => Grown(t, u, z, y, SideFor(k, y))
        BY <1>4, <1>7, <1>8, LeafAdded
  <1>10. PICK u : /\ Inserted(t, z, k) = InsertFix(u, z)
                  /\ y = NULL => Alone(u, z) /\ \A n \in Pointers \ {z} :
                                              \A s \in Sides : u[s][n] = t[s][n]
                  /\ y # NULL => Grown(t, u, z, y, SideFor(k, y))
         BY <1>9
  <1> DEFINE v == InsertFix(u, z)
  <1>11. v = InsertFix(u, z) /\ v = Inserted(t, z, k)
         BY <1>10
  <1> HIDE DEF v
  <1>12. CASE t.root = NULL
    <2>1. M = {} /\ N = 0 /\ y = NULL
          BY <1>4, <1>5, <1>12 DEF Root
    <2>2. /\ Alone(u, z)
          /\ \A n \in Pointers \ {z} : \A s \in Sides : u[s][n] = t[s][n]
          BY <1>10, <2>1
    <2>3. ASSUME NEW pos2, MadeRoom(M, pos, pos2, z, 1)
          PROVE  Tree(v, {z}, 1, pos2)
      <3>1. /\ \E e2 : Shape(u, {z}, 1, pos2, e2)
            /\ \E b2 : Heights(u, {z}, b2, NULL, "left")
            /\ Colors(u, {z}, NULL, z)
            BY <2>2, <2>3, AloneShape DEF MadeRoom
      <3>2. PICK e2 : Shape(u, {z}, 1, pos2, e2)
            BY <3>1
      <3>3. PICK b2 : Heights(u, {z}, b2, NULL, "left")
            BY <3>1
      <3>4. Repaired(u, v, {z}, 1, pos2)
        <4>1. z \in {z} /\ u.color[z] = "red" /\ Colors(u, {z}, NULL, z)
              BY <2>2, <3>1 DEF Alone
        <4>2. Repaired(u, InsertFix(u, z), {z}, 1, pos2)
              BY <3>2, <3>3, <4>1, InsertFixed
        <4> QED BY <1>11, <4>2
      <3>5. Outside(v, {z})
            BY <1>3, <2>1, <2>2, <3>4 DEF Repaired, Untouched, Outside
      <3> QED BY <3>4, <3>5 DEF Repaired, Tree
    <2>4. Parts(M, pos, 1, k) /\ 1 \in 1 .. N + 1 /\ M \cup {z} = {z} /\ N + 1 = 1
          BY <2>1 DEF Parts
    <2> QED BY <1>11, <2>3, <2>4
  <1>13. CASE t.root # NULL
    <2> DEFINE d == SideFor(k, y)
               q == Gap(pos, y, d)
    <2>1. y \in M /\ d \in Sides /\ t[d][y] = NULL /\ Parts(M, pos, q, k)
          BY <1>6, <1>13
    <2>2. y # NULL /\ pos[y] \in Int /\ Spans(N, pos, e, y)
          /\ e["left"][y] \in Int /\ e["right"][y] \in Int
          BY <1>1, <2>1, Numbers DEF Sides, Shape
    <2>3. q \in 1 .. N + 1
          BY <1>4, <2>2 DEF Spans, Gap
    <2>4. Grown(t, u, z, y, d)
          BY <1>10, <2>2
    <2> HIDE DEF d
    <2>5. /\ \E b2 : Heights(u, M \cup {z}, b2, NULL, "left")
          /\ Colors(u, M \cup {z}, NULL, z) /\ u.color[z] = "red"
          BY <1>1, <1>2, <1>3, <2>1, <2>4, GrownBalance
    <2>6. PICK b2 : Heights(u, M \cup {z}, b2, NULL, "left")
          BY <2>5
    <2>7. \A m \in M \ {y} : pos[m] # pos[y]
          BY <2>1 DEF Apart
    <2>8. ASSUME NEW pos2, MadeRoom(M, pos, pos2, z, q)
          PROVE  Tree(v, M \cup {z}, N + 1, pos2)
      <3>1. \E e2 : Shape(u, M \cup {z}, N + 1, pos2, e2)
            BY <1>1, <2>1, <2>4, <2>7, <2>8, GrownShape
      <3>2. PICK e2 : Shape(u, M \cup {z}, N + 1, pos2, e2)
            BY <3>1
      <3>3. Repaired(u, v, M \cup {z}, N + 1, pos2)
        <4>1. z \in M \cup {z}
              OBVIOUS
        <4>2. Repaired(u, InsertFix(u, z), M \cup {z}, N + 1, pos2)
              BY <2>5, <2>6, <3>2, <4>1, InsertFixed
        <4> QED BY <1>11, <4>2
      <3>4. Outside(v, M \cup {z})
        <4>1. \A n \in Pointers \ (M \cup {z}) : \A s \in Sides : u[s][n] = t[s][n]
              BY <2>1, <2>4 DEF Grown
        <4> QED BY <1>3, <3>3, <4>1 DEF Repaired, Untouched, Outside
      <3> QED BY <3>3, <3>4 DEF Repaired, Tree
    <2> HIDE DEF q
    <2> QED BY <1>11, <2>1, <2>3, <2>8
  <1> QED BY <1>12, <1>13

(***************************************************************************)
(* The repair of a removal                                                 *)
(***************************************************************************)
(* x, which is black and goes down on the side d, gets the color of its    *)
(* red child, which goes up.                                               *)
LEMMA PushedDown ==
  ASSUME NEW t, NEW M, NEW N, NEW pos, NEW e, Shape(t, M, N, pos, e),
         NEW b, NEW p, NEW f, Heights(t, M, b, p, f), Colors(t, M, NULL, NULL),
         NEW x \in M, NEW d \in Sides, NEW y \in M, t[Opposite(d)][x] = y,
         t.color[x] = "black", t.color[y] = "red",
         Color(t, t[d][x]) = "black", p # y, p = x => f = d,
         NEW r, r = Rotate(Paint(Paint(t, y, "black"), x, "red"), x, d)
  PROVE  /\ \E e2 : Shape(r, M, N, pos, e2)
         /\ \E b2 : Heights(r, M, b2, p, f)
         /\ Colors(r, M, NULL, NULL) /\ Untouched(t, r, M)
         /\ r[d][x] = t[d][x] /\ r[Opposite(d)][x] = t[d][y]
         /\ r[d][y] = x /\ r[Opposite(d)][y] = t[Opposite(d)][y]
         /\ \A n \in M \ {x, y} : \A s \in Sides :
               t[s][n] = x => r[s][n] = y
         /\ \A n \in M \ {x, y} : \A s \in Sides :
               t[s][n] # x => r[s][n] = t[s][n]
         /\ \A n \in Pointers : r.color[n] = IF n = x THEN "red"
                                         ELSE IF n = y THEN "black" ELSE t.color[n]
  <1> DEFINE o == Opposite(d)
             t1 == Paint(t, y, "black")
             t2 == Paint(t1, x, "red")
  <1>1. /\ x # NULL /\ y # NULL /\ M \subseteq Pointers /\ NULL \notin M
        /\ t \in TreeRecords /\ NULL \in Pointers
        BY Numbers DEF Shape, Pointers
  <1>2. o \in Sides /\ Opposite(o) = d /\ o # d /\ \A s \in Sides : s = d \/ s = o
        BY TwoSides
  <1>3. /\ t.up[y] = x /\ x # y /\ t[d][x] # y /\ y # t.root
        BY <1>1, <1>2, KidOf
  <1>4. Shape(t1, M, N, pos, e) /\ Repainted(t, t1, y, "black")
        BY PaintShape
  <1> HIDE DEF t1
  <1>5. Shape(t2, M, N, pos, e) /\ Repainted(t1, t2, x, "red")
        BY <1>4, PaintShape
  <1>6. r = Rotate(t2, x, d)
        BY DEF t1
  <1> HIDE DEF t2
  <1>7. /\ t2.root = t.root /\ t2.up = t.up /\ \A s \in Sides : t2[s] = t[s]
        /\ \A n \in Pointers : t2.color[n] = IF n = x THEN "red"
                                         ELSE IF n = y THEN "black" ELSE t.color[n]
        /\ \A n \in Pointers : Color(t2, n) = IF n = x THEN "red"
                                          ELSE IF n = y THEN "black" ELSE Color(t, n)
        BY <1>4, <1>5 DEF Repainted
  <1>8. y = t2[Opposite(d)][x]
        BY <1>2, <1>7 DEF o
  <1>9. /\ r.color = t2.color
        /\ r.root = IF x = t2.root THEN y ELSE t2.root
        /\ r[d][x] = t2[d][x] /\ r[o][x] = t2[d][y]
        /\ r[d][y] = x /\ r[o][y] = t2[o][y]
        /\ t2[d][x] \notin {x, y}
        /\ t2[d][y] \notin {x, y} /\ t2[o][y] \notin {x, y}
        /\ \A n \in M \ {x, y} : \A s \in Sides :
              \/ r[s][n] = t2[s][n] /\ t2[s][n] \notin {x, y}
              \/ n = t2.up[x] /\ t2[s][n] = x /\ r[s][n] = y
    <2> HIDE DEF o
    <2> QED BY <1>1, <1>5, <1>6, <1>8, RotateKids DEF o
  <1> HIDE DEF o
  <1>10. /\ r[d][x] = t[d][x] /\ r[o][x] = t[d][y]
         /\ r[d][y] = x /\ r[o][y] = t[o][y]
         /\ t[d][x] \notin {x, y} /\ t[d][y] \notin {x, y}
         /\ t[o][y] \notin {x, y}
         /\ \A n \in M \ {x, y} : \A s \in Sides :
               \/ r[s][n] = t[s][n] /\ t[s][n] \notin {x, y}
               \/ t[s][n] = x /\ r[s][n] = y
         BY <1>2, <1>7, <1>9
  <1>11. \E e2 : Shape(r, M, N, pos, e2)
         BY <1>1, <1>5, <1>6, <1>8, RotateShape
  <1>12. Untouched(t, r, M)
    <2>1. Untouched(t2, r, M)
          BY <1>1, <1>5, <1>6, <1>8, RotateUntouched
    <2> QED BY <1>7, <2>1 DEF Untouched
  <1>13. \A s \in Sides : \A n \in M : t[s][n] \in Pointers
         BY <1>1, Links
  <1>14. Colors(r, M, NULL, NULL)
    <2>1. /\ \A n \in M : t.color[n] \in {"red", "black"} /\ Calm(t, n, NULL, NULL)
          /\ Color(t, t.root) = "black"
          BY DEF Colors, Color
    <2>2. \A n \in M : t2.color[n] \in {"red", "black"}
          BY <1>1, <1>7, <2>1
    <2>3. ASSUME NEW n \in M, t.color[n] = "red", NEW s \in Sides
          PROVE  Color(t, t[s][n]) = "black"
          BY <1>1, <2>1, <2>3 DEF Calm, Color
    <2>4. \A n \in M \ {x, y} : t2.color[n] = "red" /\ n # NULL =>
            \A s \in Sides : t2[s][n] \in {x, NULL} \/ Color(t2, t2[s][n]) = "black"
          BY <1>1, <1>7, <1>13, <2>3
    <2>5. Color(t2, t2[d][x]) = "black" /\ Color(t2, t2[d][y]) = "black"
      <3>1. t[d][x] \in Pointers /\ t[d][y] \in Pointers
            BY <1>13
      <3> QED BY <1>7, <1>10, <2>3, <3>1
    <2>6. t2.color[y] = "black"
          BY <1>1, <1>3, <1>7
    <2>7. x # t2.root => Color(t2, t2.root) = "black"
      <3>1. t.root \in Pointers
            BY <1>1, Links
      <3> QED BY <1>7, <2>1, <3>1
    <2> QED BY <1>1, <1>5, <1>6, <1>7, <1>8, <2>2, <2>4, <2>5, <2>6, <2>7, RotateColors
  <1>15. \E b2 : Heights(r, M, b2, p, f)
    <2> DEFINE b2 == [b EXCEPT ![x] = b[x] - 1, ![y] = b[x]]
    <2>1. /\ b \in [Pointers -> Nat \ {0}] /\ b[NULL] = 1
          /\ \A n \in M : Even(t, b, n, p, f)
          BY DEF Heights
    <2>2. /\ b[x] \in Int /\ b[y] \in Int /\ b[t[d][x]] \in Int
          /\ b[t[d][y]] \in Int /\ b[t[o][y]] \in Int /\ b[y] >= 1
          BY <1>1, <1>2, <1>13, <2>1
    <2>3. Blacks(t, x) = 1 /\ Blacks(t, y) = 0 /\ Blacks(t2, x) = 0 /\ Blacks(t2, y) = 1
          BY <1>1, <1>3, <1>7 DEF Blacks
    <2>4. b[x] = b[y] + 1
      <3>1. b[x] = b[t[o][x]] + Blacks(t, x) + (IF x = p /\ o = f THEN 1 ELSE 0)
            BY <1>2, <2>1 DEF Even
      <3>2. t[o][x] = y /\ ~(x = p /\ o = f)
            BY <1>2 DEF o
      <3> QED BY <2>2, <2>3, <3>1, <3>2
    <2>5. b[y] = b[t[d][y]] /\ b[y] = b[t[o][y]]
      <3>1. \A s \in Sides : b[y] = b[t[s][y]] + 0 + 0
            BY <2>1, <2>3 DEF Even
      <3> QED BY <1>2, <2>2, <3>1
    <2>6. b[x] = b[t[d][x]] + 1 + (IF x = p /\ d = f THEN 1 ELSE 0)
          BY <2>1, <2>3 DEF Even
    <2>7. /\ b2 \in [Pointers -> Nat \ {0}] /\ b2[NULL] = 1
          /\ b2[x] = b[x] - 1 /\ b2[y] = b[x]
          /\ \A n \in Pointers \ {x, y} : b2[n] = b[n]
      <3>1. b[x] - 1 \in Nat \ {0} /\ b[x] \in Nat \ {0}
            BY <2>2, <2>4
      <3> QED BY <1>1, <1>3, <2>1, <3>1
    <2> HIDE DEF b2
    <2>8. Turned(t2, b, b2, x, y, d, p, f)
      <3>1. /\ b2[x] = b[t[d][x]] + 0 + (IF x = p /\ d = f THEN 1 ELSE 0)
            BY <2>2, <2>6, <2>7
      <3>2. ~(x = p /\ o = f)
            BY <1>2
      <3>3. /\ b2[x] = b[t[d][y]] + 0 + 0
            /\ b2[y] = b[x] /\ b[x] = b2[x] + 1 /\ b[x] = b[t[o][y]] + 1
            BY <2>2, <2>4, <2>5, <2>7
      <3>4. t2[d][x] = t[d][x] /\ t2[d][y] = t[d][y]
            /\ t2[Opposite(d)][y] = t[o][y]
            BY <1>2, <1>7 DEF o
      <3> QED BY <2>3, <2>7, <3>1, <3>2, <3>3, <3>4 DEF Turned, o
    <2>9. EvenBut(t2, M, b, p, f, x, y)
      <3>1. \A n \in M \ {x, y} : Blacks(t2, n) = Blacks(t, n)
            BY <1>1, <1>7 DEF Blacks
      <3>2. ASSUME NEW n \in M \ {x, y} PROVE Even(t2, b, n, p, f)
        <4>1. Even(t, b, n, p, f)
              BY <2>1
        <4> QED BY <1>7, <3>1, <4>1 DEF Even
      <3> QED BY <3>2 DEF EvenBut
    <2>10. Heights(r, M, b2, p, f)
           BY <1>1, <1>5, <1>6, <1>8, <2>8, <2>9, RotateHeights
    <2> QED BY <2>10
  <1>16. /\ \A n \in M \ {x, y} : \A s \in Sides : t[s][n] = x => r[s][n] = y
         /\ \A n \in M \ {x, y} : \A s \in Sides :
               t[s][n] # x => r[s][n] = t[s][n]
         BY <1>10
  <1> QED BY <1>7, <1>9, <1>10, <1>11, <1>12, <1>14, <1>15, <1>16 DEF o

(* The paths through x, the child of p on the side d, lack a black entry.  *)
Lacking(t, M, N, pos, x, p, d) ==
  /\ p \in M /\ d \in Sides /\ t[d][p] = x /\ Color(t, x) = "black"
  /\ \E e : Shape(t, M, N, pos, e)
  /\ \E b : Heights(t, M, b, p, d)
  /\ Colors(t, M, NULL, NULL)

(* The children of a red entry are black. *)
LEMMA RedIsCalm ==
  ASSUME NEW t, NEW M, NULL \notin M, Colors(t, M, NULL, NULL)
  PROVE  /\ \A n \in M : t.color[n] = "red" => \A s \in Sides : Color(t, t[s][n]) = "black"
         /\ \A n \in M : t.color[n] \in {"red", "black"}
         /\ Color(t, t.root) = "black"
  BY DEF Colors, Calm, Color

(* The sibling of x, the numbers of black entries, and its children. *)
LEMMA Sibling ==
  ASSUME NEW t, NEW M, NEW N, NEW pos, NEW e, Shape(t, M, N, pos, e),
         NEW p \in M, NEW d \in Sides, NEW x, t[d][p] = x,
         NEW b, Heights(t, M, b, p, d),
         NEW w, w = t[Opposite(d)][p]
  PROVE  /\ w \in M /\ w # p /\ w # x /\ x # p /\ t.up[w] = p /\ w # t.root
         /\ x \in Pointers /\ b[x] \in Nat \ {0} /\ b[w] = b[x] + 1
         /\ b[p] = b[w] + Blacks(t, p)
         /\ \A s \in Sides : /\ t[s][w] \in Pointers
                             /\ t[s][w] \notin {p, w} /\ (x # NULL => t[s][w] # x)
                             /\ b[w] = b[t[s][w]] + Blacks(t, w)
                             /\ b[t[s][w]] \in Nat \ {0}
                             /\ t[s][w] # NULL => t[s][w] \in M
         /\ t.color[w] = "red" => \A s \in Sides : t[s][w] # NULL
  <1>1. /\ Opposite(d) \in Sides /\ Opposite(d) # d
        /\ Opposite(Opposite(d)) = d
        /\ \A s \in Sides : s = d \/ s = Opposite(d)
        BY TwoSides
  <1>2. M \subseteq Pointers /\ NULL \notin M /\ t \in TreeRecords
        BY Numbers DEF Shape
  <1>3. /\ x \in Pointers /\ w \in Pointers /\ p \in Pointers
        BY <1>1, <1>2, Links
  <1>4. /\ b \in [Pointers -> Nat \ {0}] /\ b[NULL] = 1
        /\ \A n \in M : Even(t, b, n, p, d)
        BY DEF Heights
  <1>5. /\ b[x] \in Nat \ {0} /\ b[w] \in Nat \ {0} /\ b[p] \in Nat \ {0}
        /\ Blacks(t, p) \in Nat /\ Blacks(t, w) \in {0, 1}
        BY <1>3, <1>4 DEF Blacks
  <1>6. /\ b[p] = b[x] + Blacks(t, p) + 1
        /\ b[p] = b[w] + Blacks(t, p) + 0
    <2>1. \A s \in Sides : b[p] = b[t[s][p]] + Blacks(t, p) + (IF s = d THEN 1 ELSE 0)
          BY <1>4 DEF Even
    <2>2. /\ b[p] = b[t[d][p]] + Blacks(t, p) + 1
          /\ b[p] = b[t[Opposite(d)][p]] + Blacks(t, p) + 0
          BY <1>1, <2>1
    <2> QED BY <2>2
  <1>7. b[w] = b[x] + 1 /\ b[p] = b[w] + Blacks(t, p)
        BY <1>5, <1>6
  <1>8. w # NULL /\ w # x
        BY <1>4, <1>5, <1>7
  <1>9. /\ w \in M /\ t.up[w] = p /\ w # p /\ w # t.root
        /\ Size(e, w) < Size(e, p)
        BY <1>1, <1>8, KidOf
  <1>10. x # NULL => x \in M /\ t.up[x] = p /\ x # p
         BY KidOf
  <1>11. Size(e, w) \in Nat /\ Size(e, p) \in Nat
         BY <1>9, Numbers
  <1>12. ASSUME NEW s \in Sides
         PROVE  /\ t[s][w] \in Pointers
                /\ t[s][w] \notin {p, w} /\ (x # NULL => t[s][w] # x)
                /\ b[w] = b[t[s][w]] + Blacks(t, w)
                /\ b[t[s][w]] \in Nat \ {0}
                /\ t[s][w] # NULL => t[s][w] \in M
    <2>1. t[s][w] \in Pointers /\ b[t[s][w]] \in Nat \ {0}
          BY <1>2, <1>3, <1>4, Links
    <2>2. b[w] = b[t[s][w]] + Blacks(t, w) + 0
          BY <1>4, <1>9 DEF Even
    <2>3. ASSUME t[s][w] # NULL
          PROVE  t[s][w] \in M /\ t[s][w] # w /\ t.up[t[s][w]] = w
                 /\ Size(e, t[s][w]) < Size(e, w)
          BY <1>9, <2>3, KidOf
    <2>4. t[s][w] # NULL => Size(e, t[s][w]) \in Nat
          BY <2>3, Numbers
    <2>5. t[s][w] \notin {p, w} /\ (x # NULL => t[s][w] # x)
          BY <1>2, <1>9, <1>10, <1>11, <2>3, <2>4
    <2> QED BY <1>5, <2>1, <2>2, <2>3, <2>5
  <1>13. ASSUME t.color[w] = "red", NEW s \in Sides PROVE t[s][w] # NULL
    <2>1. Blacks(t, w) = 0
          BY <1>13 DEF Blacks
    <2>2. b[w] = b[t[s][w]]
          BY <1>5, <1>12, <2>1
    <2> QED BY <1>4, <1>5, <1>7, <2>2
  <1>14. x # p
         BY <1>2, <1>10
  <1> QED BY <1>3, <1>5, <1>7, <1>8, <1>9, <1>12, <1>13, <1>14

(* A red sibling goes up. *)
LEMMA SiblingMadeBlack ==
  ASSUME NEW t, NEW M, NEW N, NEW pos, NEW x, NEW p, NEW d,
         Lacking(t, M, N, pos, x, p, d), NEW u, u = BlackSibling(t, p, d)
  PROVE  /\ Lacking(u, M, N, pos, x, p, d) /\ Untouched(t, u, M)
         /\ u[Opposite(d)][p] \in M /\ u.color[u[Opposite(d)][p]] = "black"
         /\ u = t \/ u.color[p] = "red"
  <1> DEFINE o == Opposite(d)
             w == t[o][p]
             r == Rotate(Paint(Paint(t, w, "black"), p, "red"), p, d)
  <1>1. /\ p \in M /\ d \in Sides /\ t[d][p] = x /\ Color(t, x) = "black"
        /\ Colors(t, M, NULL, NULL)
        BY DEF Lacking
  <1>2. PICK e : Shape(t, M, N, pos, e)
        BY DEF Lacking
  <1>3. PICK b : Heights(t, M, b, p, d)
        BY DEF Lacking
  <1>4. /\ o \in Sides /\ o # d
        BY <1>1, TwoSides
  <1>5. /\ w \in M /\ w # p /\ w # x /\ x \in Pointers /\ x # p
        /\ \A s \in Sides : t[s][w] \in Pointers /\ t[s][w] \notin {p, w}
        /\ t.color[w] = "red" => \A s \in Sides : t[s][w] \in M
    <2>1. w = t[Opposite(d)][p]
          OBVIOUS
    <2> HIDE DEF w
    <2> QED BY <1>1, <1>2, <1>3, <2>1, Sibling
  <1>6. M \subseteq Pointers /\ NULL \notin M
        BY <1>2, Numbers
  <1>7. u = IF Color(t, w) # "red" THEN t ELSE r
        BY DEF BlackSibling
  <1>8. r = Rotate(Paint(Paint(t, w, "black"), p, "red"), p, d)
        /\ t[Opposite(d)][p] = w
        OBVIOUS
  <1>9. /\ \A n \in M : t.color[n] = "red" => \A s \in Sides : Color(t, t[s][n]) = "black"
        /\ \A n \in M : t.color[n] \in {"red", "black"}
        BY <1>1, <1>6, RedIsCalm
  <1>10. Color(t, w) = t.color[w]
         BY <1>5, <1>6 DEF Color
  <1> HIDE DEF w, r
  <1>11. CASE Color(t, w) # "red"
    <2>1. u = t /\ t.color[w] = "black" /\ u[Opposite(d)][p] = w
          BY <1>5, <1>7, <1>8, <1>9, <1>10, <1>11
    <2> QED BY <1>5, <2>1 DEF Untouched
  <1>12. CASE Color(t, w) = "red"
    <2>1. u = r /\ t.color[w] = "red"
          BY <1>7, <1>10, <1>12
    <2>2. t.color[p] = "black"
          BY <1>1, <1>4, <1>8, <1>9, <1>12
    <2>3. /\ \E e2 : Shape(u, M, N, pos, e2)
          /\ \E b2 : Heights(u, M, b2, p, d)
          /\ Colors(u, M, NULL, NULL) /\ Untouched(t, u, M)
          /\ u[d][p] = t[d][p] /\ u[Opposite(d)][p] = t[d][w]
          /\ \A n \in Pointers : u.color[n] = IF n = p THEN "red"
                                     ELSE IF n = w THEN "black" ELSE t.color[n]
          BY <1>1, <1>2, <1>3, <1>5, <1>8, <2>1, <2>2, PushedDown
    <2>4. u.color[p] = "red" /\ Color(u, x) = "black"
          BY <1>1, <1>5, <1>6, <2>3 DEF Color
    <2>5. u[Opposite(d)][p] \in M /\ u.color[u[Opposite(d)][p]] = "black"
      <3>1. t[d][w] \in M /\ t[d][w] # p /\ t[d][w] # w
            BY <1>1, <1>5, <2>1
      <3>2. t.color[t[d][w]] = "black"
            BY <1>1, <1>5, <1>6, <1>9, <2>1, <3>1 DEF Color
      <3> QED BY <1>6, <2>3, <3>1, <3>2
    <2> QED BY <1>1, <2>3, <2>4, <2>5 DEF Lacking
  <1> QED BY <1>11, <1>12

BlackKids(t, w) == \A s \in Sides : Color(t, t[s][w]) = "black"

(* The far nephew is red. *)
LEMMA NephewMadeRed ==
  ASSUME NEW t, NEW M, NEW N, NEW pos, NEW x, NEW p, NEW d,
         Lacking(t, M, N, pos, x, p, d), NEW w \in M, t[Opposite(d)][p] = w,
         t.color[w] = "black", ~BlackKids(t, w),
         NEW u, u = RedNephew(t, p, d)
  PROVE  /\ Lacking(u, M, N, pos, x, p, d) /\ Untouched(t, u, M)
         /\ u[Opposite(d)][p] \in M /\ u.color[u[Opposite(d)][p]] = "black"
         /\ Color(u, u[Opposite(d)][u[Opposite(d)][p]]) = "red"
  <1> DEFINE o == Opposite(d)
             y == t[d][w]
             r == Rotate(Paint(Paint(t, y, "black"), w, "red"), w, o)
  <1>1. /\ p \in M /\ d \in Sides /\ t[d][p] = x /\ Color(t, x) = "black"
        /\ Colors(t, M, NULL, NULL)
        BY DEF Lacking
  <1>2. PICK e : Shape(t, M, N, pos, e)
        BY DEF Lacking
  <1>3. PICK b : Heights(t, M, b, p, d)
        BY DEF Lacking
  <1>4. /\ o \in Sides /\ o # d /\ Opposite(o) = d
        /\ \A s \in Sides : s = d \/ s = o
        BY <1>1, TwoSides
  <1>5. /\ w # p /\ w # x /\ x \in Pointers
        /\ \A s \in Sides : /\ t[s][w] \in Pointers /\ t[s][w] \notin {p, w}
                            /\ (x # NULL => t[s][w] # x)
                            /\ t[s][w] # NULL => t[s][w] \in M
        BY <1>1, <1>2, <1>3, Sibling
  <1>6. M \subseteq Pointers /\ NULL \notin M
        BY <1>2, Numbers
  <1>7. u = IF Color(t, t[o][w]) # "black" THEN t ELSE r
        BY DEF RedNephew
  <1>8. r = Rotate(Paint(Paint(t, y, "black"), w, "red"), w, o)
        /\ t[Opposite(o)][w] = y /\ t[o][p] = w /\ t[d][w] = y
        BY <1>4
  <1>9. /\ \A n \in M : t.color[n] = "red" => \A s \in Sides : Color(t, t[s][n]) = "black"
        /\ \A n \in M : t.color[n] \in {"red", "black"}
        BY <1>1, <1>6, RedIsCalm
  <1> HIDE DEF y, r
  <1>10. \A s \in Sides : Color(t, t[s][w]) \in {"red", "black"}
         BY <1>5, <1>9 DEF Color
  <1>11. CASE Color(t, t[o][w]) # "black"
    <2>1. u = t /\ Color(t, t[o][w]) = "red"
          BY <1>4, <1>7, <1>10, <1>11
    <2> QED BY <1>8, <2>1 DEF Untouched, o
  <1>12. CASE Color(t, t[o][w]) = "black"
    <2>1. u = r /\ Color(t, y) = "red"
          BY <1>1, <1>4, <1>7, <1>8, <1>10, <1>12 DEF BlackKids
    <2>2. y \in M /\ t.color[y] = "red" /\ y # p /\ y # w /\ (x # NULL => y # x)
          BY <1>1, <1>5, <1>8, <2>1 DEF Color
    <2> HIDE DEF o
    <2>3. /\ \E e2 : Shape(u, M, N, pos, e2)
          /\ \E b2 : Heights(u, M, b2, p, d)
          /\ Colors(u, M, NULL, NULL) /\ Untouched(t, u, M)
          /\ u[o][y] = w
          /\ \A n \in M \ {w, y} : \A s \in Sides : t[s][n] = w => u[s][n] = y
          /\ \A n \in M \ {w, y} : \A s \in Sides : t[s][n] # w => u[s][n] = t[s][n]
          /\ \A n \in Pointers : u.color[n] = IF n = w THEN "red"
                                     ELSE IF n = y THEN "black" ELSE t.color[n]
          BY <1>1, <1>2, <1>3, <1>4, <1>5, <1>8, <1>12, <2>1, <2>2, PushedDown
    <2>4. u[o][p] = y /\ u[d][p] = x
          BY <1>1, <1>4, <1>5, <1>8, <2>2, <2>3
    <2>5. Color(u, x) = "black" /\ u.color[y] = "black" /\ Color(u, w) = "red"
          BY <1>1, <1>5, <1>6, <2>2, <2>3 DEF Color
    <2> QED BY <1>1, <2>2, <2>3, <2>4, <2>5 DEF Lacking, o
  <1> QED BY <1>11, <1>12

(* In u the entry w has the color c, p and f are black. *)
Settling(t, u, w, c, p, f) ==
  /\ u.root = t.root /\ u.up = t.up /\ \A s \in Sides : u[s] = t[s]
  /\ \A n \in Pointers : u.color[n] = IF n = p \/ n = f THEN "black"
                                      ELSE IF n = w THEN c ELSE t.color[n]
  /\ \A n \in Pointers : Color(u, n) = IF n = p \/ n = f THEN "black"
                                       ELSE IF n = w THEN c ELSE Color(t, n)

(* The three colors that Settle changes leave the shape. *)
LEMMA SettlingShape ==
  ASSUME NEW t, NEW M, NEW N, NEW pos, NEW e, Shape(t, M, N, pos, e),
         NEW p \in M, NEW w \in M, NEW f \in M, NEW c \in {"red", "black"},
         NEW u, u = Paint(Paint(Paint(t, w, c), p, "black"), f, "black")
  PROVE  Shape(u, M, N, pos, e) /\ Settling(t, u, w, c, p, f)
  <1> DEFINE t1 == Paint(t, w, c)
             t2 == Paint(t1, p, "black")
  <1>1. Shape(t1, M, N, pos, e) /\ Repainted(t, t1, w, c)
        BY PaintShape
  <1> HIDE DEF t1
  <1>2. Shape(t2, M, N, pos, e) /\ Repainted(t1, t2, p, "black")
        BY <1>1, PaintShape
  <1>3. u = Paint(t2, f, "black")
        BY DEF t1
  <1> HIDE DEF t2
  <1>4. Shape(u, M, N, pos, e) /\ Repainted(t2, u, f, "black")
        BY <1>2, <1>3, PaintShape
  <1> QED BY <1>1, <1>2, <1>4 DEF Repainted, Settling

(* The sibling goes up with the color of p: no path lacks an entry. *)
LEMMA Settled ==
  ASSUME NEW t, NEW M, NEW N, NEW pos, NEW x, NEW p, NEW d,
         Lacking(t, M, N, pos, x, p, d), NEW w \in M, t[Opposite(d)][p] = w,
         t.color[w] = "black", NEW f, t[Opposite(d)][w] = f,
         Color(t, f) = "red", NEW u, u = Settle(t, p, d)
  PROVE  /\ \E e2 : Shape(u, M, N, pos, e2)
         /\ \E b2 : Heights(u, M, b2, NULL, "left")
         /\ Colors(u, M, NULL, NULL) /\ Untouched(t, u, M)
  <1> DEFINE o == Opposite(d)
             c == t.color[p]
             t3 == Paint(Paint(Paint(t, w, c), p, "black"), f, "black")
  <1>1. /\ p \in M /\ d \in Sides /\ t[d][p] = x /\ Color(t, x) = "black"
        /\ Colors(t, M, NULL, NULL)
        BY DEF Lacking
  <1>2. PICK e : Shape(t, M, N, pos, e)
        BY DEF Lacking
  <1>3. PICK b : Heights(t, M, b, p, d)
        BY DEF Lacking
  <1>4. /\ o \in Sides /\ o # d /\ \A s \in Sides : s = d \/ s = o
        BY <1>1, TwoSides
  <1>5. M \subseteq Pointers /\ NULL \notin M /\ NULL \in Pointers /\ t \in TreeRecords
        BY <1>2, Numbers DEF Shape, Pointers
  <1>6. /\ w # p /\ w # x /\ x # p /\ x \in Pointers /\ b[x] \in Nat \ {0}
        /\ b[w] = b[x] + 1 /\ b[p] = b[w] + Blacks(t, p)
        /\ \A s \in Sides : /\ t[s][w] \in Pointers /\ t[s][w] \notin {p, w}
                            /\ (x # NULL => t[s][w] # x)
                            /\ b[w] = b[t[s][w]] + Blacks(t, w)
                            /\ b[t[s][w]] \in Nat \ {0}
                            /\ t[s][w] # NULL => t[s][w] \in M
        BY <1>1, <1>2, <1>3, Sibling
  <1>7. /\ f \in M /\ f # NULL /\ f # p /\ f # w /\ f # x /\ t.color[f] = "red"
        BY <1>4, <1>5, <1>6 DEF Color
  <1>8. /\ \A n \in M : t.color[n] = "red" => \A s \in Sides : Color(t, t[s][n]) = "black"
        /\ \A n \in M : t.color[n] \in {"red", "black"}
        /\ Color(t, t.root) = "black"
        BY <1>1, <1>5, RedIsCalm
  <1>9. u = Rotate(t3, p, d)
    <2>1. Color(t, p) = c
          BY <1>1, <1>5 DEF Color
    <2> QED BY <2>1 DEF Settle
  <1>10. c \in {"red", "black"} /\ c = t.color[p]
         BY <1>1, <1>8
  <1>22. t3 = Paint(Paint(Paint(t, w, c), p, "black"), f, "black")
         OBVIOUS
  <1> HIDE DEF c, t3
  <1>11. Shape(t3, M, N, pos, e) /\ Settling(t, t3, w, c, p, f)
    <2>1. c \in {"red", "black"} /\ p \in M /\ w \in M /\ f \in M
          BY <1>1, <1>7, <1>10
    <2>2. Shape(t, M, N, pos, e)
          BY <1>2
    <2> QED BY <2>1, <2>2, <1>22, SettlingShape
  <1>12. /\ t3.root = t.root /\ t3.up = t.up /\ \A s \in Sides : t3[s] = t[s]
         /\ \A n \in Pointers : t3.color[n] = IF n = p \/ n = f THEN "black"
                                      ELSE IF n = w THEN c ELSE t.color[n]
         /\ \A n \in Pointers : Color(t3, n) = IF n = p \/ n = f THEN "black"
                                       ELSE IF n = w THEN c ELSE Color(t, n)
         BY <1>11 DEF Settling
  <1>13. w = t3[Opposite(d)][p] /\ w # NULL
         BY <1>4, <1>5, <1>12 DEF o
  <1>14. \E e2 : Shape(u, M, N, pos, e2)
         BY <1>1, <1>9, <1>11, <1>13, RotateShape
  <1>15. Untouched(t, u, M)
    <2>1. Untouched(t3, u, M)
          BY <1>1, <1>9, <1>11, <1>13, RotateUntouched
    <2> QED BY <1>12, <2>1 DEF Untouched
  <1>16. t[o][w] = f /\ t[o][p] = w
         OBVIOUS
  <1>17. \A s \in Sides : \A n \in M : t[s][n] \in Pointers
         BY <1>5, Links
  <1>18. t.up[w] = p /\ t.up[f] = w
         BY <1>1, <1>2, <1>4, <1>5, <1>7, <1>16, KidOf
  <1>19. \A n \in M : \A s \in Sides : (t[s][n] = w => n = p) /\ (t[s][n] = f => n = w)
    <2>1. \A n \in M : \A s \in Sides : t[s][n] # NULL => t.up[t[s][n]] = n
          BY <1>2, KidOf
    <2> QED BY <1>5, <1>7, <1>18, <2>1
  <1> HIDE DEF o
  <1>20. Colors(u, M, NULL, NULL)
    <2>1. \A n \in M : t3.color[n] \in {"red", "black"}
          BY <1>5, <1>8, <1>10, <1>12
    <2>2. ASSUME NEW n \in M \ {p, w}, t3.color[n] = "red", n # NULL, NEW s \in Sides
          PROVE  t3[s][n] \in {p, NULL} \/ Color(t3, t3[s][n]) = "black"
      <3>1. t.color[n] = "red"
            BY <1>5, <1>12, <2>2
      <3>2. Color(t, t[s][n]) = "black" /\ t[s][n] \in Pointers /\ t[s][n] # w
            BY <1>8, <1>17, <1>19, <2>2, <3>1
      <3> QED BY <1>12, <3>2
    <2>3. \/ t3.color[t3.up[p]] = "black" \/ t3.up[p] = NULL
          \/ w = NULL \/ t3.color[w] = "black"
      <3>1. CASE c = "black"
            BY <1>5, <1>6, <1>7, <1>12, <3>1
      <3>2. CASE c # "black" /\ p = t.root
            BY <1>5, <1>1, <1>8, <1>10, <3>2 DEF Color
      <3>3. CASE c # "black" /\ p # t.root
        <4>1. t.up[p] \in M /\ \E s \in Sides : t[s][t.up[p]] = p
              BY <1>1, <1>2, <3>3, ParentOf
        <4>2. Color(t, p) = "red"
              BY <1>1, <1>5, <1>10, <3>3 DEF Color
        <4>3. t.color[t.up[p]] = "black"
              BY <1>8, <4>1, <4>2
        <4>4. t.up[p] # w
          <5>1. Size(e, p) < Size(e, t.up[p]) /\ Size(e, w) < Size(e, p)
                BY <1>1, <1>2, <1>4, <1>5, <1>16, <3>3, ParentOf, KidOf
          <5>2. Size(e, p) \in Nat /\ Size(e, w) \in Nat /\ Size(e, t.up[p]) \in Nat
                BY <1>1, <1>2, <4>1, Numbers
          <5> QED BY <5>1, <5>2
        <4> QED BY <1>5, <1>12, <4>1, <4>3, <4>4
      <3> QED BY <3>1, <3>2, <3>3
    <2>4. t3.color[p] = "black" /\ Color(t3, f) = "black"
          BY <1>1, <1>5, <1>7, <1>12
    <2>5. IF p = t3.root THEN w = NULL \/ t3.color[w] = "black"
          ELSE t3.root = NULL \/ Color(t3, t3.root) = "black"
      <3>1. CASE p = t.root
        <4>1. c = "black"
              BY <1>1, <1>5, <1>8, <1>10, <3>1 DEF Color
        <4> QED BY <1>5, <1>6, <1>7, <1>12, <3>1, <4>1
      <3>2. CASE p # t.root
        <4>1. t.root \in Pointers /\ t.root # w
          <5>1. t.root # w
                BY <1>1, <1>2, <1>4, <1>5, <1>16, KidOf
          <5>2. t.root \in Pointers
                BY <1>5 DEF TreeRecords
          <5> QED BY <5>1, <5>2
        <4> QED BY <1>8, <1>12, <3>2, <4>1
      <3> QED BY <1>12, <3>1, <3>2
    <2>6. t3[Opposite(d)][w] = f
          BY <1>4, <1>12, <1>16 DEF o
    <2> QED BY <1>1, <1>9, <1>11, <1>13, <2>1, <2>2, <2>3, <2>4, <2>5, <2>6, RotateColors
  <1>21. \E b2 : Heights(u, M, b2, NULL, "left")
    <2> DEFINE b1 == [b EXCEPT ![f] = b[f] + 1]
               b2 == [b1 EXCEPT ![p] = b[x] + 1, ![w] = b[p]]
    <2>1. /\ b \in [Pointers -> Nat \ {0}] /\ b[NULL] = 1
          /\ \A n \in M : Even(t, b, n, p, d)
          BY <1>3 DEF Heights
    <2>2. /\ b[p] \in Nat \ {0} /\ b[f] \in Nat \ {0} /\ b[x] \in Nat \ {0}
          /\ b[x] + 1 \in Nat \ {0} /\ b[f] + 1 \in Nat \ {0}
          BY <1>1, <1>5, <1>6, <1>7, <2>1
    <2>3. /\ b1 \in [Pointers -> Nat \ {0}] /\ b1[NULL] = 1 /\ b1[f] = b[f] + 1
          /\ \A n \in Pointers \ {f} : b1[n] = b[n]
          BY <1>5, <1>7, <2>1, <2>2
    <2> HIDE DEF b1
    <2>4. /\ b2 \in [Pointers -> Nat \ {0}] /\ b2[NULL] = 1
          /\ b2[p] = b[x] + 1 /\ b2[w] = b[p]
          /\ \A n \in Pointers \ {p, w} : b2[n] = b1[n]
          BY <1>1, <1>5, <1>6, <2>2, <2>3
    <2> HIDE DEF b2
    <2>5. EvenBut(t3, M, b1, NULL, "left", p, w)
      <3>1. ASSUME NEW n \in M \ {p, w} PROVE Even(t3, b1, n, NULL, "left")
        <4>1. Even(t, b, n, p, d) /\ n \in Pointers /\ n # NULL
              BY <1>5, <2>1
        <4>2. \A s \in Sides : b1[t3[s][n]] = b[t[s][n]] /\ b[t[s][n]] \in Int
              BY <1>12, <1>17, <1>19, <2>1, <2>3
        <4>3. \A s \in Sides : b[n] = b[t[s][n]] + Blacks(t, n)
              BY <4>1, <4>2 DEF Even, Blacks
        <4>4. CASE n = f
          <5>1. Blacks(t3, n) = 1 /\ Blacks(t, n) = 0
                BY <1>7, <1>12, <4>1, <4>4 DEF Blacks
          <5> QED BY <2>3, <4>1, <4>2, <4>3, <4>4, <5>1 DEF Even
        <4>5. CASE n # f
          <5>1. Blacks(t3, n) = Blacks(t, n) /\ b1[n] = b[n]
                BY <1>12, <2>3, <4>1, <4>5 DEF Blacks
          <5> QED BY <4>1, <4>2, <4>3, <5>1 DEF Even, Blacks
        <4> QED BY <4>4, <4>5
      <3> QED BY <3>1 DEF EvenBut
    <2>6. Turned(t3, b1, b2, p, w, d, NULL, "left")
      <3> DEFINE near == t[d][w]
                 B == Blacks(t, p)
      <3>1. /\ b[w] = b[near] + 1 /\ b[w] = b[f] + 1 /\ near \in Pointers
            /\ b[near] \in Nat
            BY <1>1, <1>4, <1>6, <1>16 DEF Blacks
      <3>2. near # f
        <4>1. t[d][w] # f
              BY <1>2, <1>4, <1>7, <1>16, KidOf, TwoSides, <1>1
        <4> QED BY <4>1
      <3>3. Blacks(t3, p) = 1 /\ Blacks(t3, w) = B /\ B \in {0, 1}
            BY <1>1, <1>5, <1>6, <1>7, <1>10, <1>12 DEF Blacks
      <3> HIDE DEF B
      <3>4. b[p] = b[w] + B
            BY <1>6 DEF B
      <3>5. b1[x] = b[x] /\ b1[near] = b[near] /\ b1[p] = b[p] /\ b1[f] = b[f] + 1
            BY <1>1, <1>5, <1>6, <1>7, <2>3, <3>1, <3>2
      <3>6. /\ t3[d][p] = x /\ t3[d][w] = near /\ t3[Opposite(d)][w] = f
            BY <1>1, <1>4, <1>12, <1>16 DEF o
      <3> HIDE DEF near
      <3>7. /\ b2[p] = b1[x] + 1 + 0 /\ b2[p] = b1[near] + 1 + 0
            /\ b2[w] = b1[p] /\ b1[p] = b2[p] + B /\ b1[p] = b1[f] + B
            BY <1>6, <2>2, <2>4, <3>1, <3>3, <3>4, <3>5
      <3>8. p # NULL
            BY <1>1, <1>5
      <3> QED BY <2>4, <3>3, <3>6, <3>7, <3>8 DEF Turned
    <2>7. Heights(u, M, b2, NULL, "left")
          BY <1>1, <1>9, <1>11, <1>13, <2>5, <2>6, RotateHeights
    <2> QED BY <2>7
  <1> QED BY <1>14, <1>15, <1>20, <1>21

(* BlackSibling keeps the types. *)
LEMMA TypedBlackSibling ==
  ASSUME NEW t \in TreeRecords, NEW p \in Pointers, NEW d \in Sides
  PROVE  BlackSibling(t, p, d) \in TreeRecords
  <1> DEFINE w == t[Opposite(d)][p]
             a == Paint(t, w, "black")
  <1>1. Opposite(d) \in Sides
        BY TwoSides
  <1>2. w \in Pointers
        BY <1>1, Links
  <1>3. a \in TreeRecords
        BY <1>2, TypedPaint
  <1>4. Paint(a, p, "red") \in TreeRecords
        BY <1>3, TypedPaint
  <1>5. Rotate(Paint(a, p, "red"), p, d) \in TreeRecords
        BY <1>4, TypedRotate
  <1>6. BlackSibling(t, p, d) = IF Color(t, w) # "red" THEN t
                                ELSE Rotate(Paint(a, p, "red"), p, d)
        BY DEF BlackSibling
  <1> HIDE DEF w, a
  <1> QED BY <1>5, <1>6

(* RedNephew keeps the types. *)
LEMMA TypedRedNephew ==
  ASSUME NEW t \in TreeRecords, NEW p \in Pointers, NEW d \in Sides
  PROVE  RedNephew(t, p, d) \in TreeRecords
  <1> DEFINE o == Opposite(d)
             w == t[o][p]
             a == Paint(t, t[d][w], "black")
  <1>1. o \in Sides
        BY TwoSides
  <1>2. w \in Pointers
        BY <1>1, Links
  <1>3. t[d][w] \in Pointers
        BY <1>2, Links
  <1>4. a \in TreeRecords
        BY <1>3, TypedPaint
  <1>5. Paint(a, w, "red") \in TreeRecords
        BY <1>2, <1>4, TypedPaint
  <1>6. Rotate(Paint(a, w, "red"), w, o) \in TreeRecords
        BY <1>1, <1>2, <1>5, TypedRotate
  <1>7. RedNephew(t, p, d) = IF Color(t, t[o][w]) # "black" THEN t
                             ELSE Rotate(Paint(a, w, "red"), w, o)
        BY DEF RedNephew
  <1> HIDE DEF o, w, a
  <1> QED BY <1>6, <1>7

(* Settle keeps the types. *)
LEMMA TypedSettle ==
  ASSUME NEW t \in TreeRecords, NEW p \in Pointers, NEW d \in Sides
  PROVE  Settle(t, p, d) \in TreeRecords
  <1> DEFINE o == Opposite(d)
             w == t[o][p]
             a == Paint(t, w, Color(t, p))
             f == Paint(a, p, "black")
  <1>1. o \in Sides
        BY TwoSides
  <1>2. w \in Pointers
        BY <1>1, Links
  <1>3. t[o][w] \in Pointers
        BY <1>1, <1>2, Links
  <1>4. Color(t, p) \in {"red", "black", "invalid"}
        BY DEF Color, TreeRecords
  <1>5. a \in TreeRecords
        BY <1>2, <1>4, TypedPaint
  <1>6. f \in TreeRecords
        BY <1>5, TypedPaint
  <1>7. Paint(f, t[o][w], "black") \in TreeRecords
        BY <1>3, <1>6, TypedPaint
  <1>8. Settle(t, p, d) = Rotate(Paint(f, t[o][w], "black"), p, d)
        BY DEF Settle
  <1> QED BY <1>7, <1>8, TypedRotate

(* A turn of the loop of itree_delete_fixup, by its cases. *)
LEMMA DeleteCases ==
  ASSUME NEW t, NEW x, NEW p0,
         NEW p, p = IF x = NULL THEN p0 ELSE t.up[x],
         NEW d, d = IF x = t.left[p] THEN "left" ELSE "right",
         NEW t1, t1 = BlackSibling(t, p, d),
         NEW w, w = t1[Opposite(d)][p],
         NEW t2, t2 = Settle(RedNephew(t1, p, d), p, d)
  PROVE  DeleteTurn(t, x, p0) =
           IF \A s \in Sides : Color(t1, t1[s][w]) = "black"
           THEN <<Paint(t1, w, "red"), p, p>> ELSE <<t2, t2.root, p>>
  BY DEF DeleteTurn

(* A turn of the loop of itree_delete_fixup keeps the types. *)
LEMMA TypedDeleteTurn ==
  ASSUME NEW t \in TreeRecords, NEW x \in Pointers, NEW p0 \in Pointers
  PROVE  DeleteTurn(t, x, p0) \in TreeRecords \X Pointers \X Pointers
  <1> DEFINE p == IF x = NULL THEN p0 ELSE t.up[x]
             d == IF x = t.left[p] THEN "left" ELSE "right"
             t1 == BlackSibling(t, p, d)
             w == t1[Opposite(d)][p]
             t3 == RedNephew(t1, p, d)
             t2 == Settle(RedNephew(t1, p, d), p, d)
  <1>10. DeleteTurn(t, x, p0) =
           IF \A s \in Sides : Color(t1, t1[s][w]) = "black"
           THEN <<Paint(t1, w, "red"), p, p>> ELSE <<t2, t2.root, p>>
    <2> HIDE DEF p, d, t1, w, t2
    <2> QED BY DeleteCases DEF p, d, t1, w, t2
  <1>8. t2 = Settle(t3, p, d)
        OBVIOUS
  <1> HIDE DEF t2
  <1>1. p \in Pointers
        BY DEF TreeRecords
  <1>2. d \in Sides
        BY DEF Sides
  <1> HIDE DEF p, d
  <1>3. t1 \in TreeRecords /\ t1 = BlackSibling(t, p, d)
        BY <1>1, <1>2, TypedBlackSibling
  <1> HIDE DEF t1
  <1>4. t3 \in TreeRecords
        BY <1>1, <1>2, <1>3, TypedRedNephew
  <1> HIDE DEF t3
  <1>5. t2 \in TreeRecords
        BY <1>1, <1>2, <1>4, <1>8, TypedSettle
  <1>6. w \in Pointers /\ w = t1[Opposite(d)][p]
    <2>1. Opposite(d) \in Sides
          BY <1>2, TwoSides
    <2> QED BY <1>1, <1>3, <2>1, Links
  <1>7. Paint(t1, w, "red") \in TreeRecords
        BY <1>3, <1>6, TypedPaint
  <1> HIDE DEF w
  <1>11. t2.root \in Pointers
         BY <1>5 DEF TreeRecords
  <1> QED BY <1>1, <1>5, <1>7, <1>10, <1>11

-----------------------------------------------------------------------------
(* Where the paths lack a black entry: those through x, the child of an    *)
(* entry on some side, or, when x is the root, all of them alike.          *)
Short(t, M, x, p0) ==
  \E b : IF x = t.root THEN Heights(t, M, b, NULL, "left")
         ELSE \E p \in M : \E d \in Sides :
                t[d][p] = x /\ (x = NULL => p0 = p) /\ Heights(t, M, b, p, d)

(* A red sibling takes the lack from both: their parent lacks it. *)
LEMMA Swung ==
  ASSUME NEW t, NEW M, NEW N, NEW pos, NEW x, NEW p, NEW d,
         Lacking(t, M, N, pos, x, p, d), NEW w \in M, t[Opposite(d)][p] = w,
         t.color[w] = "black", \A s \in Sides : Color(t, t[s][w]) = "black",
         NEW e, Shape(t, M, N, pos, e), NEW u, u = Paint(t, w, "red")
  PROVE  /\ Shape(u, M, N, pos, e) /\ Colors(u, M, p, p) /\ Untouched(t, u, M)
         /\ Short(u, M, p, p) /\ u.root = t.root /\ u.color[p] = t.color[p]
  <1>1. /\ p \in M /\ d \in Sides /\ t[d][p] = x /\ Color(t, x) = "black"
        /\ Colors(t, M, NULL, NULL)
        BY DEF Lacking
  <1>3. PICK b : Heights(t, M, b, p, d)
        BY DEF Lacking
  <1>4. M \subseteq Pointers /\ NULL \notin M /\ NULL \in Pointers /\ t \in TreeRecords
        BY Numbers DEF Shape, Pointers
  <1>5. /\ w # p /\ w # x /\ x # p /\ x \in Pointers /\ b[x] \in Nat \ {0}
        /\ b[w] = b[x] + 1 /\ b[p] = b[w] + Blacks(t, p)
        /\ \A s \in Sides : /\ t[s][w] \in Pointers /\ t[s][w] \notin {p, w}
                            /\ b[w] = b[t[s][w]] + Blacks(t, w)
                            /\ b[t[s][w]] \in Nat \ {0}
        BY <1>1, <1>3, Sibling
  <1>6. Shape(u, M, N, pos, e) /\ Repainted(t, u, w, "red")
        BY PaintShape
  <1>7. /\ u.root = t.root /\ u.up = t.up /\ \A s \in Sides : u[s] = t[s]
        /\ \A m \in Pointers : u.color[m] = IF m = w THEN "red" ELSE t.color[m]
        /\ \A m \in Pointers : Color(u, m) = IF m = w THEN "red" ELSE Color(t, m)
        BY <1>6 DEF Repainted
  <1>8. /\ \A n \in M : t.color[n] = "red" => \A s \in Sides : Color(t, t[s][n]) = "black"
        /\ \A n \in M : t.color[n] \in {"red", "black"}
        /\ Color(t, t.root) = "black"
        BY <1>1, <1>4, RedIsCalm
  <1>9. /\ Opposite(d) \in Sides /\ \A s \in Sides : s = d \/ s = Opposite(d)
        BY <1>1, TwoSides
  <1>10. \A s \in Sides : \A n \in M : t[s][n] \in Pointers
         BY <1>4, Links
  <1>11. \A s \in Sides : \A n \in M : t[s][n] = w => n = p
    <2>1. \A n \in M : \A s \in Sides : t[s][n] # NULL => t.up[t[s][n]] = n
          BY KidOf
    <2> QED BY <1>1, <1>4, <1>9, <2>1
  <1>12. w # t.root
    <2>1. w = t[Opposite(d)][p] /\ w # NULL
          BY <1>4
    <2> QED BY <1>1, <1>9, <2>1, KidOf
  <1>13. Colors(u, M, p, p)
    <2>1. ASSUME NEW n \in M, u.color[n] = "red", n # p, NEW s \in Sides
          PROVE  Color(u, u[s][n]) = "black"
      <3>1. t[s][n] # w /\ t[s][n] \in Pointers
            BY <1>10, <1>11, <2>1
      <3>2. Color(t, t[s][n]) = "black"
            BY <1>4, <1>7, <1>8, <2>1
      <3> QED BY <1>7, <3>1, <3>2
    <2>2. Color(u, u.root) = "black"
      <3>1. t.root \in Pointers
            BY <1>4 DEF TreeRecords
      <3> QED BY <1>7, <1>8, <1>12, <3>1
    <2>3. \A n \in M : u.color[n] \in {"red", "black"}
          BY <1>4, <1>7, <1>8
    <2> QED BY <2>1, <2>2, <2>3 DEF Colors, Calm
  <1> DEFINE b2 == [b EXCEPT ![w] = b[x], ![p] = b[p] - 1]
  <1>14. /\ b \in [Pointers -> Nat \ {0}] /\ b[NULL] = 1
         /\ \A n \in M : Even(t, b, n, p, d)
         BY <1>3 DEF Heights
  <1>15. /\ b[p] \in Nat \ {0} /\ b[p] - 1 \in Nat \ {0} /\ Blacks(t, p) \in {0, 1}
         BY <1>1, <1>4, <1>5, <1>14 DEF Blacks
  <1>16. /\ b2 \in [Pointers -> Nat \ {0}] /\ b2[NULL] = 1
         /\ b2[w] = b[x] /\ b2[p] = b[p] - 1
         /\ \A n \in Pointers \ {w, p} : b2[n] = b[n]
         BY <1>1, <1>4, <1>5, <1>14, <1>15
  <1> HIDE DEF b2
  <1>17. \A s \in Sides : b2[w] = b2[u[s][w]] + Blacks(u, w)
    <2>1. Blacks(t, w) = 1 /\ Blacks(u, w) = 0
          BY <1>4, <1>7 DEF Blacks
    <2>2. \A s \in Sides : b2[u[s][w]] = b[t[s][w]]
          BY <1>5, <1>7, <1>16
    <2> QED BY <1>5, <1>16, <2>1, <2>2
  <1>18. \A s \in Sides : b2[p] = b2[u[s][p]] + Blacks(u, p)
    <2>1. Blacks(u, p) = Blacks(t, p)
          BY <1>1, <1>4, <1>5, <1>7 DEF Blacks
    <2>2. b2[x] = b[x]
          BY <1>5, <1>16
    <2>3. \A s \in Sides : b2[u[s][p]] = b[x]
          BY <1>1, <1>7, <1>9, <1>16, <2>2
    <2> QED BY <1>5, <1>15, <1>16, <2>1, <2>3
  <1>19. ASSUME NEW n \in M \ {w, p}, NEW s \in Sides
         PROVE  /\ t[s][n] # p => b2[n] = b2[u[s][n]] + Blacks(u, n)
                /\ t[s][n] = p => b2[n] = b2[u[s][n]] + Blacks(u, n) + 1
    <2>1. b[n] = b[t[s][n]] + Blacks(t, n) + 0 /\ b[t[s][n]] \in Nat
          BY <1>10, <1>14, <1>19 DEF Even
    <2>2. Blacks(u, n) = Blacks(t, n) /\ b2[n] = b[n] /\ Blacks(u, n) \in {0, 1}
          BY <1>4, <1>7, <1>16 DEF Blacks
    <2>3. t[s][n] # w /\ t[s][n] \in Pointers /\ u[s][n] = t[s][n]
          BY <1>7, <1>10, <1>11
    <2>4. t[s][n] # p => b2[u[s][n]] = b[t[s][n]]
          BY <1>16, <2>3
    <2>5. t[s][n] = p => b2[u[s][n]] = b[t[s][n]] - 1
          BY <1>16, <2>3
    <2> QED BY <2>1, <2>2, <2>4, <2>5
  <1>20. Short(u, M, p, p)
    <2>1. CASE p = t.root
      <3>1. \A n \in M : \A s \in Sides : t[s][n] # p
            BY <1>4, <2>1, KidOf, <1>1
      <3>2. \A n \in M : Even(u, b2, n, NULL, "left")
        <4>1. ASSUME NEW n \in M, NEW s \in Sides
              PROVE  b2[n] = b2[u[s][n]] + Blacks(u, n) /\ n # NULL
                     /\ b2[u[s][n]] \in Nat /\ Blacks(u, n) \in Nat
          <5>1. b2[u[s][n]] \in Nat /\ Blacks(u, n) \in Nat
                BY <1>7, <1>10, <1>16 DEF Blacks
          <5> QED BY <1>4, <1>17, <1>18, <1>19, <3>1, <5>1
        <4> QED BY <4>1 DEF Even
      <3> QED BY <1>7, <1>16, <2>1, <3>2 DEF Short, Heights
    <2>2. CASE p # t.root
      <3> DEFINE q == t.up[p]
                 f == SideOf(t, p)
      <3>1. q \in M /\ f \in Sides /\ t[f][q] = p /\ t[Opposite(f)][q] # p
            /\ t.up[w] = p /\ q # p /\ q # w
        <4>1. /\ q \in M /\ f \in Sides /\ t[f][q] = p /\ t[Opposite(f)][q] # p
              /\ Size(e, p) < Size(e, q)
              BY <1>1, <2>2, ParentOf
        <4>2. t.up[w] = p /\ Size(e, w) < Size(e, p)
          <5>1. w = t[Opposite(d)][p] /\ w # NULL
                BY <1>4
          <5> QED BY <1>1, <1>9, <5>1, KidOf
        <4>3. Size(e, p) \in Nat /\ Size(e, w) \in Nat /\ Size(e, q) \in Nat
              BY <1>1, <4>1, Numbers
        <4> HIDE DEF q, f
        <4> QED BY <4>1, <4>2, <4>3
      <3>2. \A n \in M : \A s \in Sides : t[s][n] = p => t.up[p] = n
            BY <1>1, <1>4, KidOf
      <3>3. \A n \in M : \A s \in Sides : t[s][n] = p <=> n = q /\ s = f
        <4>1. \A s \in Sides : s = f \/ s = Opposite(f)
              BY <3>1, TwoSides
        <4>2. q = t.up[p]
              OBVIOUS
        <4> HIDE DEF q, f
        <4> QED BY <3>1, <3>2, <4>1, <4>2
      <3> HIDE DEF q, f
      <3>4. ASSUME NEW n \in M PROVE Even(u, b2, n, q, f)
        <4>1. ASSUME NEW s \in Sides
              PROVE  b2[n] = b2[u[s][n]] + Blacks(u, n) + (IF n = q /\ s = f THEN 1 ELSE 0)
          <5>1. b2[u[s][n]] \in Nat /\ Blacks(u, n) \in Nat
                BY <1>7, <1>10, <1>16 DEF Blacks
          <5>2. CASE n \in {w, p}
                BY <1>17, <1>18, <3>1, <5>1, <5>2
          <5>3. CASE n \notin {w, p}
                BY <1>19, <3>3, <5>1, <5>3
          <5> QED BY <5>2, <5>3
        <4> QED BY <4>1 DEF Even
      <3>5. Heights(u, M, b2, q, f) /\ u[f][q] = p
            BY <1>7, <1>16, <3>1, <3>4 DEF Heights
      <3> QED BY <1>1, <1>4, <1>7, <2>2, <3>1, <3>5 DEF Short
    <2> QED BY <2>1, <2>2
  <1>21. Untouched(t, u, M) /\ u.color[p] = t.color[p]
         BY <1>1, <1>4, <1>5, <1>7 DEF Untouched
  <1> QED BY <1>6, <1>7, <1>13, <1>20, <1>21

(* A tree without a red pair has none whatever entry is excepted. *)
LEMMA CalmForAny ==
  ASSUME NEW t, NEW M, NULL \notin M, Colors(t, M, NULL, NULL), NEW c
  PROVE  Colors(t, M, c, c)
  <1>1. \A n : Color(t, n) # "black" => n # NULL
        BY DEF Color
  <1>2. ASSUME NEW n \in M, t.color[n] = "red", n # c, NEW s \in Sides
        PROVE  Color(t, t[s][n]) = "black"
    <2>1. CASE n = NULL
          BY <1>2, <2>1, <1>1
    <2>2. CASE n # NULL
          BY <1>1, <1>2, <2>2 DEF Colors, Calm
    <2> QED BY <2>1, <2>2
  <1>3. Color(t, t.root) = "black"
        BY <1>1 DEF Colors
  <1> QED BY <1>2, <1>3 DEF Colors, Calm

(* How far up x is, the place of a missing child included. *)
Depth(e, x) == IF x = NULL THEN -1 ELSE Size(e, x)

(* What a turn of the loop of itree_delete_fixup leaves. *)
AfterDelete(t, M, N, pos, e, x, u, x2, p2) ==
  /\ Untouched(t, u, M) /\ x2 \in M \cup {NULL}
  /\ Colors(u, M, x2, x2) /\ Short(u, M, x2, p2)
  /\ \E e2 : Shape(u, M, N, pos, e2)
  /\ \/ x2 = u.root \/ Color(u, x2) = "red"
     \/ Shape(u, M, N, pos, e) /\ Depth(e, x) < Depth(e, x2)

(* The parent and the side that itree_delete_fixup computes. *)
LEMMA DeletePlace ==
  ASSUME NEW t, NEW M, NEW N, NEW pos, NEW e, Shape(t, M, N, pos, e),
         NEW x \in M \cup {NULL}, NEW p0, Short(t, M, x, p0), x # t.root,
         Colors(t, M, x, x), Color(t, x) # "red",
         NEW p, p = IF x = NULL THEN p0 ELSE t.up[x],
         NEW d, d = IF x = t.left[p] THEN "left" ELSE "right"
  PROVE  Lacking(t, M, N, pos, x, p, d)
  <1>1. PICK b : \E q \in M : \E f \in Sides :
                   t[f][q] = x /\ (x = NULL => p0 = q) /\ Heights(t, M, b, q, f)
        BY DEF Short
  <1>2. PICK q \in M : \E f \in Sides :
                   t[f][q] = x /\ (x = NULL => p0 = q) /\ Heights(t, M, b, q, f)
        BY <1>1
  <1>3. PICK f \in Sides :
                   t[f][q] = x /\ (x = NULL => p0 = q) /\ Heights(t, M, b, q, f)
        BY <1>2
  <1>4. p = q
    <2>1. x # NULL => t.up[x] = q
          BY <1>3, KidOf
    <2> QED BY <1>3, <2>1
  <1>5. t[Opposite(f)][q] # x
        BY <1>3, Sibling
  <1>6. d = f
    <2>1. CASE f = "left"
          BY <1>3, <1>4, <2>1
    <2>2. CASE f = "right"
          BY <1>4, <1>5, <2>2 DEF Opposite
    <2> QED BY <2>1, <2>2 DEF Sides
  <1>7. Color(t, x) = "black"
        BY DEF Color, Colors
  <1>8. Colors(t, M, NULL, NULL)
    <2>1. \A n \in M : t.color[n] = "red" => n # x
          BY Numbers DEF Color
    <2> QED BY <1>7, <2>1 DEF Colors, Calm
  <1>9. p \in M /\ d \in Sides /\ t[d][p] = x /\ Heights(t, M, b, p, d)
        BY <1>3, <1>4, <1>6
  <1> QED BY <1>7, <1>8, <1>9 DEF Lacking

(* A turn of the loop of itree_delete_fixup. *)
LEMMA DeleteTurned ==
  ASSUME NEW t, NEW M, NEW N, NEW pos, NEW e, Shape(t, M, N, pos, e),
         NEW x \in M \cup {NULL}, NEW p0, Short(t, M, x, p0), x # t.root,
         Colors(t, M, x, x), Color(t, x) # "red",
         NEW r, r = DeleteTurn(t, x, p0)
  PROVE  AfterDelete(t, M, N, pos, e, x, r[1], r[2], r[3])
  <1> DEFINE p == IF x = NULL THEN p0 ELSE t.up[x]
             d == IF x = t.left[p] THEN "left" ELSE "right"
             t1 == BlackSibling(t, p, d)
             w == t1[Opposite(d)][p]
             t2 == RedNephew(t1, p, d)
             t3 == Settle(RedNephew(t1, p, d), p, d)
             u == Paint(t1, w, "red")
  <1>1. DeleteTurn(t, x, p0) =
           IF \A s \in Sides : Color(t1, t1[s][w]) = "black"
           THEN <<u, p, p>> ELSE <<t3, t3.root, p>>
    <2> HIDE DEF p, d, t1, w, t3
    <2> QED BY DeleteCases DEF p, d, t1, w, t3
  <1>2. Lacking(t, M, N, pos, x, p, d)
    <2> HIDE DEF p, d
    <2> QED BY DeletePlace DEF p, d
  <1>3. t1 = BlackSibling(t, p, d) /\ t1[Opposite(d)][p] = w
        /\ t2 = RedNephew(t1, p, d) /\ t3 = Settle(t2, p, d)
        /\ u = Paint(t1, w, "red")
        OBVIOUS
  <1> HIDE DEF p, d, t1, w, t2, t3, u
  <1>4. p \in M /\ d \in Sides /\ t[d][p] = x
        BY <1>2 DEF Lacking
  <1>5. /\ Lacking(t1, M, N, pos, x, p, d) /\ Untouched(t, t1, M)
        /\ w \in M /\ t1.color[w] = "black"
        /\ t1 = t \/ t1.color[p] = "red"
        BY <1>2, <1>3, SiblingMadeBlack
  <1>6. CASE \A s \in Sides : Color(t1, t1[s][w]) = "black"
    <2>1. r[1] = u /\ r[2] = p /\ r[3] = p
          BY <1>1, <1>6
    <2>2. PICK e1 : Shape(t1, M, N, pos, e1)
          BY <1>5 DEF Lacking
    <2>3. ASSUME NEW e2, Shape(t1, M, N, pos, e2)
          PROVE  /\ Shape(u, M, N, pos, e2) /\ Colors(u, M, p, p) /\ Untouched(t1, u, M)
                 /\ Short(u, M, p, p) /\ u.color[p] = t1.color[p]
          BY <1>3, <1>5, <1>6, <2>3, Swung
    <2>4. Untouched(t, u, M)
          BY <1>5, <2>2, <2>3 DEF Untouched
    <2>5. Color(u, p) = "red" \/ (Shape(u, M, N, pos, e) /\ Depth(e, x) < Depth(e, p))
      <3>1. CASE t1.color[p] = "red"
        <4>1. p # NULL
              BY <1>4, Numbers
        <4> QED BY <2>2, <2>3, <3>1, <4>1 DEF Color
      <3>2. CASE t1 = t
        <4>1. Depth(e, x) < Depth(e, p)
          <5>1. p # NULL /\ Size(e, p) \in Nat
                BY <1>4, Numbers
          <5>2. x # NULL => Size(e, x) < Size(e, p)
                BY <1>4, KidOf
          <5> QED BY <5>1, <5>2 DEF Depth
        <4> QED BY <2>3, <3>2, <4>1
      <3> QED BY <1>5, <3>1, <3>2
    <2> QED BY <1>4, <2>1, <2>2, <2>3, <2>4, <2>5 DEF AfterDelete
  <1>7. CASE ~ \A s \in Sides : Color(t1, t1[s][w]) = "black"
    <2>1. r[1] = t3 /\ r[2] = t3.root /\ r[3] = p
          BY <1>1, <1>7
    <2> DEFINE v == t2[Opposite(d)][p]
               f == t2[Opposite(d)][v]
    <2>2. /\ Lacking(t2, M, N, pos, x, p, d) /\ Untouched(t1, t2, M)
          /\ v \in M /\ t2.color[v] = "black" /\ Color(t2, f) = "red"
      <3>1. t1[Opposite(d)][p] = w /\ w \in M /\ t1.color[w] = "black"
            /\ Lacking(t1, M, N, pos, x, p, d)
            BY <1>3, <1>5
      <3>2. t2 = RedNephew(t1, p, d)
            BY <1>3
      <3>3. /\ Lacking(t2, M, N, pos, x, p, d) /\ Untouched(t1, t2, M)
            /\ t2[Opposite(d)][p] \in M /\ t2.color[t2[Opposite(d)][p]] = "black"
            /\ Color(t2, t2[Opposite(d)][t2[Opposite(d)][p]]) = "red"
        <4> HIDE DEF v, f
        <4>1. ~BlackKids(t1, w)
              BY <1>7 DEF BlackKids
        <4> QED BY <3>1, <3>2, <4>1, NephewMadeRed
      <3> QED BY <3>3
    <2>3. t2[Opposite(d)][p] = v /\ t2[Opposite(d)][v] = f
          OBVIOUS
    <2> HIDE DEF v, f
    <2>4. /\ \E e2 : Shape(t3, M, N, pos, e2)
          /\ \E b2 : Heights(t3, M, b2, NULL, "left")
          /\ Colors(t3, M, NULL, NULL) /\ Untouched(t2, t3, M)
          BY <1>3, <2>2, <2>3, Settled
    <2>5. Untouched(t, t3, M)
          BY <1>5, <2>2, <2>4 DEF Untouched
    <2>6. t3.root \in M \cup {NULL}
          BY <2>4 DEF Shape, Root
    <2>7. Colors(t3, M, t3.root, t3.root)
      <3>1. NULL \notin M
            BY Numbers
      <3> QED BY <2>4, <3>1, CalmForAny
    <2>8. Short(t3, M, t3.root, p)
          BY <2>4 DEF Short
    <2> QED BY <2>1, <2>4, <2>5, <2>6, <2>7, <2>8 DEF AfterDelete
  <1> QED BY <1>6, <1>7

(* The loop of itree_delete_fixup is a function. *)
LEMMA DeleteLoopEquation ==
  DeleteLoop = [s \in TreeRecords \X Pointers \X Pointers |->
                  IF s[2] = s[1].root \/ Color(s[1], s[2]) = "red"
                  THEN IF s[2] = NULL THEN s[1] ELSE Paint(s[1], s[2], "black")
                  ELSE DeleteLoop[DeleteTurn(s[1], s[2], s[3])]]
  <1> DEFINE S == TreeRecords \X Pointers \X Pointers
             Stop == {s \in S : s[2] = s[1].root \/ Color(s[1], s[2]) = "red"}
             g == [s \in S |-> IF s[2] = NULL THEN s[1] ELSE Paint(s[1], s[2], "black")]
             next == [s \in S |-> DeleteTurn(s[1], s[2], s[3])]
             G(f) == [s \in S |->
                        IF s[2] = s[1].root \/ Color(s[1], s[2]) = "red"
                        THEN IF s[2] = NULL THEN s[1] ELSE Paint(s[1], s[2], "black")
                        ELSE f[DeleteTurn(s[1], s[2], s[3])]]
  <1>1. \A f : IsLoop(S, Stop, g, next, f) <=> f = G(f)
    <2>1. ASSUME NEW f
          PROVE  [s \in S |-> IF s \in Stop THEN g[s] ELSE f[next[s]]] = G(f)
          OBVIOUS
    <2> HIDE DEF S, Stop, g, next, G
    <2> QED BY <2>1 DEF IsLoop
  <1>2. Loops(S, Stop, next)
    <2>1. \A s \in S : next[s] \in S
          BY TypedDeleteTurn
    <2> QED BY <2>1 DEF Loops
  <1>4. \E f : IsLoop(S, Stop, g, next, f)
    <2> HIDE DEF S, Stop, g, next
    <2> QED BY <1>2, LoopExists
  <1>5. \E f : f = G(f)
    <2> HIDE DEF S, Stop, g, next, G
    <2> QED BY <1>1, <1>4
  <1>6. DeleteLoop = CHOOSE f : f = G(f)
        BY DEF DeleteLoop
  <1> HIDE DEF G
  <1>7. DeleteLoop = G(DeleteLoop)
        BY <1>5, <1>6
  <1> QED BY <1>7 DEF G

(* The state of the loop of itree_delete_fixup: from t0, at most n turns   *)
(* are to come.                                                            *)
DeleteState(t0, t, x, p0, M, N, pos, n) ==
  /\ x \in M \cup {NULL} /\ Untouched(t0, t, M)
  /\ Colors(t, M, x, x) /\ Short(t, M, x, p0)
  /\ \E e : /\ Shape(t, M, N, pos, e)
            /\ x = t.root \/ Color(t, x) = "red" \/ N - Depth(e, x) <= n

(* A turn keeps the state of the loop, and goes up or ends it. *)
LEMMA DeleteStep ==
  ASSUME NEW t0, NEW t, NEW x, NEW p0, NEW M, NEW N, NEW pos, NEW n \in Nat,
         DeleteState(t0, t, x, p0, M, N, pos, n),
         x # t.root, Color(t, x) # "red", NEW r, r = DeleteTurn(t, x, p0)
  PROVE  n > 0 /\ DeleteState(t0, r[1], r[2], r[3], M, N, pos, n - 1)
  <1>1. /\ x \in M \cup {NULL} /\ Untouched(t0, t, M)
        /\ Colors(t, M, x, x) /\ Short(t, M, x, p0)
        BY DEF DeleteState
  <1>2. PICK e : Shape(t, M, N, pos, e) /\ N - Depth(e, x) <= n
        BY DEF DeleteState
  <1>3. AfterDelete(t, M, N, pos, e, x, r[1], r[2], r[3])
        BY <1>1, <1>2, DeleteTurned
  <1>4. N \in Nat /\ Depth(e, x) \in Int /\ Depth(e, x) < N
    <2>1. N \in Nat
          BY <1>2 DEF Shape, Ghosts
    <2>2. x # NULL => Size(e, x) \in Nat /\ Size(e, x) < N
          BY <1>1, <1>2, Numbers
    <2> QED BY <2>1, <2>2 DEF Depth
  <1>5. n > 0
        BY <1>2, <1>4
  <1>6. /\ Untouched(t, r[1], M) /\ r[2] \in M \cup {NULL}
        /\ Colors(r[1], M, r[2], r[2]) /\ Short(r[1], M, r[2], r[3])
        BY <1>3 DEF AfterDelete
  <1>7. Untouched(t0, r[1], M)
        BY <1>1, <1>6 DEF Untouched
  <1>8. \E e2 : /\ Shape(r[1], M, N, pos, e2)
                /\ \/ r[2] = r[1].root \/ Color(r[1], r[2]) = "red"
                   \/ N - Depth(e2, r[2]) <= n - 1
    <2>1. CASE r[2] = r[1].root \/ Color(r[1], r[2]) = "red"
          BY <1>3, <2>1 DEF AfterDelete
    <2>2. CASE Shape(r[1], M, N, pos, e) /\ Depth(e, x) < Depth(e, r[2])
      <3>1. Depth(e, r[2]) \in Int
        <4>1. r[2] # NULL => Size(e, r[2]) \in Nat
              BY <1>6, <2>2, Numbers
        <4> QED BY <4>1 DEF Depth
      <3>2. N - Depth(e, r[2]) <= n - 1
            BY <1>2, <1>4, <2>2, <3>1
      <3> QED BY <2>2, <3>2
    <2> QED BY <1>3, <2>1, <2>2 DEF AfterDelete
  <1> QED BY <1>5, <1>6, <1>7, <1>8 DEF DeleteState

(* The end of itree_delete_fixup: x becomes black. *)
LEMMA EndBlack ==
  ASSUME NEW t, NEW M, NEW N, NEW pos, NEW e, Shape(t, M, N, pos, e),
         NEW x \in M, Colors(t, M, x, x), NEW p0, Short(t, M, x, p0),
         x = t.root \/ t.color[x] = "red", NEW u, u = Paint(t, x, "black")
  PROVE  Repaired(t, u, M, N, pos)
  <1>1. /\ M \subseteq Pointers /\ NULL \notin M /\ NULL \in Pointers
        /\ t \in TreeRecords /\ x # NULL
        BY Numbers DEF Shape, Pointers
  <1>2. Shape(u, M, N, pos, e) /\ Repainted(t, u, x, "black")
        BY PaintShape
  <1>3. /\ u.root = t.root /\ \A s \in Sides : u[s] = t[s]
        /\ \A m \in Pointers : u.color[m] = IF m = x THEN "black" ELSE t.color[m]
        /\ \A m \in Pointers : Color(u, m) = IF m = x THEN "black" ELSE Color(t, m)
        BY <1>2 DEF Repainted
  <1>4. \A s \in Sides : \A n \in M : t[s][n] \in Pointers
        BY <1>1, Links
  <1>5. Colors(u, M, NULL, NULL)
    <2>1. ASSUME NEW n \in M, u.color[n] = "red", NEW s \in Sides
          PROVE  Color(u, u[s][n]) = "black"
      <3>1. n # x /\ t.color[n] = "red"
            BY <1>1, <1>3, <2>1
      <3>2. t[s][n] = x \/ Color(t, t[s][n]) = "black"
            BY <3>1 DEF Colors, Calm
      <3> QED BY <1>3, <1>4, <3>2
    <2>2. \A n \in M : u.color[n] \in {"red", "black"}
          BY <1>1, <1>3 DEF Colors
    <2>3. Color(u, u.root) = "black"
      <3>1. t.root \in Pointers
            BY <1>1 DEF TreeRecords
      <3> QED BY <1>3, <3>1 DEF Colors
    <2> QED BY <2>1, <2>2, <2>3 DEF Colors, Calm
  <1>6. PICK b : IF x = t.root THEN Heights(t, M, b, NULL, "left")
                 ELSE \E p \in M : \E d \in Sides :
                        t[d][p] = x /\ (x = NULL => p0 = p) /\ Heights(t, M, b, p, d)
        BY DEF Short
  <1> DEFINE b2 == [b EXCEPT ![x] = b[x] + 1 - Blacks(t, x)]
  <1>7. ASSUME NEW p, NEW d, Heights(t, M, b, p, d),
               \A n \in M : \A s \in Sides : t[s][n] = x <=> n = p /\ s = d,
               x # p, p # NULL => Blacks(t, x) = 0
        PROVE  Heights(u, M, b2, NULL, "left")
    <2>1. /\ b \in [Pointers -> Nat \ {0}] /\ b[NULL] = 1
          /\ \A n \in M : Even(t, b, n, p, d)
          BY <1>7 DEF Heights
    <2>2. Blacks(t, x) \in {0, 1} /\ b[x] \in Nat \ {0}
          BY <1>1, <2>1 DEF Blacks
    <2>3. /\ b2 \in [Pointers -> Nat \ {0}] /\ b2[NULL] = 1
          /\ b2[x] = b[x] + 1 - Blacks(t, x)
          /\ \A n \in Pointers \ {x} : b2[n] = b[n]
          BY <1>1, <2>1, <2>2
    <2> HIDE DEF b2
    <2>4. ASSUME NEW n \in M, NEW s \in Sides
          PROVE  b2[n] = b2[u[s][n]] + Blacks(u, n) + 0
      <3>1. /\ b[n] = b[t[s][n]] + Blacks(t, n) + (IF n = p /\ s = d THEN 1 ELSE 0)
            /\ b[t[s][n]] \in Nat
            BY <1>4, <2>1 DEF Even
      <3>2. CASE n = x
        <4>1. t[s][n] # x /\ ~(n = p /\ s = d)
              BY <1>7, <3>2
        <4>2. b2[u[s][n]] = b[t[s][n]]
              BY <1>3, <1>4, <2>3, <4>1
        <4>3. Blacks(u, n) = 1
              BY <1>1, <1>3, <3>2 DEF Blacks
        <4> QED BY <2>2, <2>3, <3>1, <3>2, <4>1, <4>2, <4>3
      <3>3. CASE n # x /\ t[s][n] # x
        <4>1. ~(n = p /\ s = d)
              BY <1>7, <3>3
        <4>2. b2[u[s][n]] = b[t[s][n]] /\ b2[n] = b[n]
              BY <1>1, <1>3, <1>4, <2>3, <3>3
        <4>3. Blacks(u, n) = Blacks(t, n)
              BY <1>1, <1>3, <3>3 DEF Blacks
        <4> QED BY <3>1, <4>1, <4>2, <4>3 DEF Blacks
      <3>4. CASE n # x /\ t[s][n] = x
        <4>1. n = p /\ s = d /\ Blacks(t, x) = 0
              BY <1>1, <1>7, <3>4
        <4>2. b2[u[s][n]] = b[x] + 1 /\ b2[n] = b[n]
              BY <1>1, <1>3, <2>2, <2>3, <3>4, <4>1
        <4>3. Blacks(u, n) = Blacks(t, n) /\ Blacks(t, n) \in {0, 1}
              BY <1>1, <1>3, <3>4 DEF Blacks
        <4> QED BY <2>2, <3>1, <3>4, <4>1, <4>2, <4>3
      <3> QED BY <3>2, <3>3, <3>4
    <2>5. \A n \in M : Even(u, b2, n, NULL, "left")
          BY <1>1, <2>4 DEF Even
    <2> QED BY <2>3, <2>5 DEF Heights
  <1> HIDE DEF b2
  <1>8. CASE x = t.root
    <2>1. \A n \in M : \A s \in Sides : t[s][n] # x
          BY <1>1, <1>8, KidOf
    <2>2. \A n \in M : \A s \in Sides : t[s][n] = x <=> n = NULL /\ s = "left"
          BY <1>1, <2>1
    <2>3. Heights(u, M, b2, NULL, "left")
          BY <1>1, <1>6, <1>7, <1>8, <2>2
    <2> QED BY <1>2, <1>3, <1>5, <2>3 DEF Repaired, Untouched, Shape
  <1>9. CASE x # t.root
    <2>1. PICK p \in M : \E d \in Sides : t[d][p] = x /\ Heights(t, M, b, p, d)
          BY <1>6, <1>9
    <2>2. PICK d \in Sides : t[d][p] = x /\ Heights(t, M, b, p, d)
          BY <2>1
    <2>3. x # p /\ t[Opposite(d)][p] # x
          BY <1>1, <2>2, KidOf
    <2>4. \A n \in M : \A s \in Sides : t[s][n] = x => t.up[x] = n
          BY <1>1, KidOf
    <2>5. \A s \in Sides : s = d \/ s = Opposite(d)
          BY TwoSides
    <2>6. \A n \in M : \A s \in Sides : t[s][n] = x <=> n = p /\ s = d
          BY <2>2, <2>3, <2>4, <2>5
    <2>7. Blacks(t, x) = 0
          BY <1>9 DEF Blacks
    <2>8. Heights(u, M, b2, NULL, "left")
          BY <1>7, <2>2, <2>3, <2>6, <2>7
    <2> QED BY <1>2, <1>3, <1>5, <2>8 DEF Repaired, Untouched, Shape
  <1> QED BY <1>8, <1>9

(* When the loop ends, its last entry made black repairs the tree. *)
LEMMA DeleteEnds ==
  ASSUME NEW t0, NEW t, NEW x, NEW p0, NEW M, NEW N, NEW pos, NEW n,
         DeleteState(t0, t, x, p0, M, N, pos, n),
         x = t.root \/ Color(t, x) = "red",
         NEW u, u = IF x = NULL THEN t ELSE Paint(t, x, "black")
  PROVE  Repaired(t0, u, M, N, pos)
  <1>1. /\ x \in M \cup {NULL} /\ Untouched(t0, t, M)
        /\ Colors(t, M, x, x) /\ Short(t, M, x, p0)
        BY DEF DeleteState
  <1>2. PICK e : Shape(t, M, N, pos, e)
        BY DEF DeleteState
  <1>3. CASE x = NULL
    <2>1. u = t /\ x = t.root
          BY <1>3 DEF Color
    <2>2. \E b : Heights(t, M, b, NULL, "left")
          BY <1>1, <2>1 DEF Short
    <2>3. Colors(t, M, NULL, NULL)
          BY <1>1, <1>3
    <2> QED BY <1>1, <1>2, <2>1, <2>2, <2>3 DEF Repaired, Shape
  <1>4. CASE x # NULL
    <2>1. x \in M /\ (x = t.root \/ t.color[x] = "red") /\ u = Paint(t, x, "black")
          BY <1>1, <1>4 DEF Color
    <2>2. Repaired(t, u, M, N, pos)
          BY <1>1, <1>2, <2>1, EndBlack
    <2> QED BY <1>1, <2>2 DEF Repaired, Untouched
  <1> QED BY <1>3, <1>4

(* The loop of itree_delete_fixup. *)
LEMMA DeleteLooped ==
  ASSUME NEW t, NEW x, NEW p, NEW M, NEW N, NEW pos, NEW n \in Nat,
         p \in Pointers, DeleteState(t, t, x, p, M, N, pos, n)
  PROVE  Repaired(t, DeleteLoop[<<t, x, p>>], M, N, pos)
  <1> DEFINE S == TreeRecords \X Pointers \X Pointers
             Stop == {s \in S : s[2] = s[1].root \/ Color(s[1], s[2]) = "red"}
             g == [s \in S |-> IF s[2] = NULL THEN s[1] ELSE Paint(s[1], s[2], "black")]
             next == [s \in S |-> DeleteTurn(s[1], s[2], s[3])]
             Inv == [i \in Nat |-> {s \in S : DeleteState(t, s[1], s[2], s[3], M, N, pos, i)}]
             f == DeleteLoop
  <1>1. IsLoop(S, Stop, g, next, f)
    <2>1. f = [s \in S |-> IF s[2] = s[1].root \/ Color(s[1], s[2]) = "red"
                  THEN IF s[2] = NULL THEN s[1] ELSE Paint(s[1], s[2], "black")
                  ELSE f[DeleteTurn(s[1], s[2], s[3])]]
          BY DeleteLoopEquation
    <2> HIDE DEF f
    <2>2. [s \in S |-> IF s[2] = s[1].root \/ Color(s[1], s[2]) = "red"
                  THEN IF s[2] = NULL THEN s[1] ELSE Paint(s[1], s[2], "black")
                  ELSE f[DeleteTurn(s[1], s[2], s[3])]]
            = [s \in S |-> IF s \in Stop THEN g[s] ELSE f[next[s]]]
          OBVIOUS
    <2> HIDE DEF S, Stop, g, next
    <2> QED BY <2>1, <2>2 DEF IsLoop, S
  <1> HIDE DEF f
  <1>2. \A i \in Nat : Inv[i] \subseteq S
        OBVIOUS
  <1>3. ASSUME NEW i \in Nat, NEW s \in Inv[i] \ Stop
        PROVE  \E m \in Nat : m < i /\ next[s] \in Inv[m]
    <2>1. /\ s \in S /\ DeleteState(t, s[1], s[2], s[3], M, N, pos, i)
          /\ s[2] # s[1].root /\ Color(s[1], s[2]) # "red"
          BY <1>3
    <2>2. next[s] = DeleteTurn(s[1], s[2], s[3]) /\ next[s] \in S
      <3>1. s[1] \in TreeRecords /\ s[2] \in Pointers /\ s[3] \in Pointers
            BY <2>1
      <3>2. next[s] = DeleteTurn(s[1], s[2], s[3])
            BY <2>1
      <3> QED BY <3>1, <3>2, TypedDeleteTurn
    <2>3. i > 0 /\ DeleteState(t, next[s][1], next[s][2], next[s][3], M, N, pos, i - 1)
      <3> HIDE DEF next, S
      <3> QED BY <2>1, <2>2, DeleteStep
    <2>4. i - 1 \in Nat /\ i - 1 < i
          BY <2>3
    <2>5. next[s] \in Inv[i - 1]
      <3> HIDE DEF next, S
      <3> QED BY <2>2, <2>3, <2>4
    <2> QED BY <2>4, <2>5
  <1>4. <<t, x, p>> \in Inv[n]
    <2>1. t \in TreeRecords /\ x \in Pointers
      <3>1. x \in M \cup {NULL} /\ \E e : Shape(t, M, N, pos, e)
            BY DEF DeleteState
      <3>2. PICK e : Shape(t, M, N, pos, e)
            BY <3>1
      <3>3. \A m \in M : m \in Pointers
            BY <3>2, Numbers
      <3> QED BY <3>1, <3>2, <3>3 DEF Shape, Pointers
    <2> QED BY <2>1
  <1>5. \E m \in Nat : \E s \in Inv[m] : s \in Stop /\ f[<<t, x, p>>] = g[s]
    <2> HIDE DEF S, Stop, g, next, Inv
    <2>1. Descends(S, Stop, next, Inv)
          BY <1>2, <1>3 DEF Descends
    <2> QED BY <1>1, <1>4, <2>1, LoopEnds
  <1>6. PICK m \in Nat : \E s \in Inv[m] : s \in Stop /\ f[<<t, x, p>>] = g[s]
        BY <1>5
  <1>7. PICK s \in Inv[m] : s \in Stop /\ f[<<t, x, p>>] = g[s]
        BY <1>6
  <1>8. /\ f[<<t, x, p>>] = IF s[2] = NULL THEN s[1] ELSE Paint(s[1], s[2], "black")
        /\ s[2] = s[1].root \/ Color(s[1], s[2]) = "red"
        /\ DeleteState(t, s[1], s[2], s[3], M, N, pos, m)
        BY <1>7
  <1> HIDE DEF S, Stop, g, next, Inv
  <1> QED BY <1>8, DeleteEnds DEF f

(* itree_delete_fixup. *)
LEMMA DeleteFixed ==
  ASSUME NEW t, NEW M, NEW N, NEW pos, NEW e, Shape(t, M, N, pos, e),
         NEW x \in M \cup {NULL}, NEW p \in Pointers, Short(t, M, x, p),
         Colors(t, M, x, x)
  PROVE  Repaired(t, DeleteFix(t, x, p), M, N, pos)
  <1>1. N \in Nat
        BY DEF Shape, Ghosts
  <1>3. N - Depth(e, x) <= N + 1
    <2>1. x # NULL => Size(e, x) \in Nat
          BY Numbers
    <2> QED BY <1>1, <2>1 DEF Depth
  <1>4. DeleteState(t, t, x, p, M, N, pos, N + 1)
        BY <1>3 DEF DeleteState, Untouched
  <1> QED BY <1>1, <1>4, DeleteLooped DEF DeleteFix

(***************************************************************************)
(* Unlinking                                                               *)
(***************************************************************************)
(* pos2 are the positions when the entry at P has gone. *)
Closed(M, pos, pos2, P) ==
  /\ pos2 \in [Entries -> Int] /\ P \in Int
  /\ \A m \in M : pos2[m] = IF pos[m] > P THEN pos[m] - 1 ELSE pos[m]

(* u is t without y, which has no child but x. *)
Unlinked(t, u, y, x, p, s) ==
  /\ u \in TreeRecords /\ u.color = t.color
  /\ u.root = IF p = NULL THEN x ELSE t.root
  /\ \A n \in Pointers : u.up[n] = IF n = x /\ n # NULL THEN p ELSE t.up[n]
  /\ \A n \in Pointers : \A f \in Sides :
       u[f][n] = IF n = p /\ n # NULL /\ f = s THEN x ELSE t[f][n]

(* What itree_delete writes to take y out of its place. *)
LEMMA UnlinkWrites ==
  ASSUME NEW t, NEW M, NEW N, NEW pos, NEW e, Shape(t, M, N, pos, e),
         NEW y \in M, NEW x \in Pointers,
         NEW s, y # t.root => s = SideOf(t, y)
  PROVE  Unlinked(t, Replace(SetUp(t, x, t.up[y]), y, t.up[y], x), y, x,
                  t.up[y], s)
  <1> DEFINE p == t.up[y]
             a == SetUp(t, x, p)
             f == IF y = t.root THEN "left" ELSE SideOf(t, y)
             u == Replace(a, y, p, x)
  <1>1. t \in TreeRecords /\ M \subseteq Pointers /\ NULL \notin M
        BY Numbers DEF Shape
  <1>2. p \in Pointers /\ y \in Pointers
        BY <1>1 DEF TreeRecords
  <1>3. /\ a \in TreeRecords /\ a.root = t.root /\ a.color = t.color
        /\ a.up = IF x = NULL THEN t.up ELSE [t.up EXCEPT ![x] = p]
        /\ \A d \in Sides : a[d] = t[d]
        BY <1>1, <1>2, ParentSet
  <1>4. (y = t.root) <=> (p = NULL)
        BY ParentOf
  <1>5. f \in Sides
        BY ParentOf DEF Sides
  <1>6. p # NULL => t[f][p] = y /\ t[Opposite(f)][p] # y /\ f = s
        BY <1>4, ParentOf
  <1> HIDE DEF a, p, f
  <1>7. Opposite(f) \in Sides
        BY <1>5, TwoSides
  <1>8. p # NULL => a[f][p] = y /\ a[Opposite(f)][p] # y
        BY <1>3, <1>5, <1>6, <1>7
  <1>9. /\ u \in TreeRecords
        /\ u.root = IF p = NULL THEN x ELSE a.root
        /\ \A d \in Sides :
             u[d] = IF p # NULL /\ d = f THEN [a[d] EXCEPT ![p] = x] ELSE a[d]
        /\ u.up = a.up /\ u.color = a.color
    <2>1. a \in TreeRecords
          BY <1>3
    <2> QED BY <1>2, <1>5, <1>8, <2>1, Replaced
  <1> HIDE DEF u
  <1>10. ASSUME NEW n \in Pointers
         PROVE  u.up[n] = IF n = x /\ n # NULL THEN p ELSE t.up[n]
    <2>1. t.up \in [Pointers -> Pointers]
          BY <1>1 DEF TreeRecords
    <2> QED BY <1>3, <1>9, <2>1
  <1>11. ASSUME NEW n \in Pointers, NEW d \in Sides
         PROVE  u[d][n] = IF n = p /\ n # NULL /\ d = s THEN x ELSE t[d][n]
    <2>1. t[d] \in [Pointers -> Pointers] /\ a[d] = t[d]
          BY <1>1, <1>3, Links
    <2>2. u[d][n] = IF p # NULL /\ d = f /\ n = p THEN x ELSE t[d][n]
          BY <1>9, <2>1
    <2> QED BY <1>6, <2>2
  <1>12. Unlinked(t, u, y, x, p, s)
         BY <1>3, <1>9, <1>10, <1>11 DEF Unlinked
  <1> QED BY <1>12 DEF u, a, p

(* Without y, which has a child x on the side d at most. *)
LEMMA UnlinkedShape ==
  ASSUME NEW t, NEW M, NEW N, NEW pos, NEW e, Shape(t, M, N, pos, e),
         NEW y \in M, NEW d \in Sides, NEW x, t[d][y] = x,
         t[Opposite(d)][y] = NULL, \A m \in M \ {y} : pos[m] # pos[y],
         NEW p, t.up[y] = p, NEW f, y # t.root => f = SideOf(t, y),
         NEW u, Unlinked(t, u, y, x, p, f),
         NEW pos2, Closed(M, pos, pos2, pos[y])
  PROVE  \E e2 : Shape(u, M \ {y}, N - 1, pos2, e2)
  <1> DEFINE P == pos[y]
             K == M \ {y}
             e2 == [s \in Sides |-> [n \in Entries |->
                      IF s = "left"
                      THEN (IF e[s][n] > P THEN e[s][n] - 1 ELSE e[s][n])
                      ELSE (IF e[s][n] >= P THEN e[s][n] - 1 ELSE e[s][n])]]
  <1>1. /\ Ghosts(M, N, pos, e) /\ Root(t, M, N, e)
        /\ \A n \in M : /\ Spans(N, pos, e, n) /\ Up(t, M, n)
                        /\ \A s \in Sides : Kid(t, M, pos, e, n, s)
        BY DEF Shape
  <1>2. /\ M \subseteq Entries /\ N \in Nat /\ pos \in [Entries -> Int]
        /\ e \in [Sides -> [Entries -> Int]]
        BY <1>1 DEF Ghosts
  <1>3. P \in Int
        BY <1>2
  <1>4. e2 \in [Sides -> [Entries -> Int]]
    <2>1. \A s \in Sides : \A n \in Entries : e[s][n] \in Int
          BY <1>2
    <2> HIDE DEF P
    <2> QED BY <1>3, <2>1
  <1>5. \A n \in M : /\ e2["left"][n] = IF e["left"][n] > P THEN e["left"][n] - 1
                                                      ELSE e["left"][n]
                     /\ e2["right"][n] = IF e["right"][n] >= P THEN e["right"][n] - 1
                                                        ELSE e["right"][n]
        BY <1>2 DEF Sides
  <1>6. /\ \A n \in M : pos2[n] = IF pos[n] > P THEN pos[n] - 1 ELSE pos[n]
        /\ pos2 \in [Entries -> Int]
        BY DEF Closed
  <1>7. \A n \in M : /\ n # NULL /\ n \in Pointers /\ pos[n] \in Int
                     /\ e["left"][n] \in Int /\ e["right"][n] \in Int
                     /\ Spans(N, pos, e, n)
        BY <1>1, Numbers DEF Sides
  <1>8. 1 <= P /\ P <= N
    <2>1. Spans(N, pos, e, y) /\ pos[y] = P
          BY <1>7
    <2>2. e["left"][y] \in Int /\ e["right"][y] \in Int
          BY <1>7
    <2> HIDE DEF P, e2
    <2> QED BY <1>2, <1>3, <2>1, <2>2 DEF Spans
  <1>9. \A n \in K : pos[n] # P
        OBVIOUS
  <1>10. /\ u.root = IF p = NULL THEN x ELSE t.root
         /\ \A n \in Pointers : u.up[n] = IF n = x /\ n # NULL THEN p ELSE t.up[n]
         /\ \A n \in Pointers : \A s \in Sides :
              u[s][n] = IF n = p /\ n # NULL /\ s = f THEN x ELSE t[s][n]
         /\ u \in TreeRecords
        BY DEF Unlinked
  <1> HIDE DEF e2, P
  <1>11. pos[y] = P
         BY DEF P
  <1>12. N - 1 \in Nat /\ Ghosts(K, N - 1, pos2, e2)
    <2> QED BY <1>2, <1>3, <1>4, <1>6, <1>8 DEF Ghosts
  <1>13. ASSUME NEW n \in K PROVE Spans(N - 1, pos2, e2, n)
    <2>1. Spans(N, pos, e, n) /\ pos[n] # P
          BY <1>7, <1>9
    <2> QED BY <1>2, <1>3, <1>5, <1>6, <1>7, <1>8, <2>1 DEF Spans
  <1>14. /\ Opposite(d) \in Sides /\ Opposite(d) # d
         /\ \A s \in Sides : s = d \/ s = Opposite(d)
         /\ p = NULL <=> y = t.root
         /\ p # NULL => p \in M /\ p # y /\ f \in Sides /\ t[f][p] = y
                        /\ t[Opposite(f)][p] # y
    <2>1. y # t.root => Size(e, y) < Size(e, p) /\ p \in M
          BY ParentOf
    <2>2. Size(e, y) \in Nat
          BY Numbers
    <2> QED BY <2>1, <2>2, TwoSides, ParentOf
  <1>15. x # NULL => /\ x \in K /\ t.up[x] = y
                     /\ \A s \in Sides : e2[s][x] = e2[s][y]
    <2>1. ASSUME x # NULL
          PROVE  /\ x \in K /\ t.up[x] = y
                 /\ \A s \in Sides : e2[s][x] = e2[s][y]
      <3>1. /\ x \in M /\ t.up[x] = y /\ x # y /\ e[d][x] = e[d][y]
            /\ e[Opposite(d)][x] = P + Near(d)
            BY <1>11, <2>1, KidOf
      <3>2. e[Opposite(d)][y] = P
            BY <1>1, <1>11, <1>14 DEF Kid
      <3>3. CASE d = "left"
        <4>1. e["left"][x] = e["left"][y] /\ e["right"][x] = P - 1 /\ e["right"][y] = P
              BY <1>3, <3>1, <3>2, <3>3 DEF Near, Opposite
        <4> QED BY <1>3, <1>5, <3>1, <4>1 DEF Sides
      <3>4. CASE d = "right"
        <4>1. e["right"][x] = e["right"][y] /\ e["left"][x] = P + 1 /\ e["left"][y] = P
              BY <1>3, <3>1, <3>2, <3>4 DEF Near, Opposite
        <4> QED BY <1>3, <1>5, <3>1, <4>1 DEF Sides
      <3> QED BY <3>1, <3>3, <3>4 DEF Sides
    <2> QED BY <2>1
  <1>16. ASSUME NEW n \in K, NEW s \in Sides, t[s][n] # NULL
         PROVE  /\ t[s][n] \in M /\ t.up[t[s][n]] = n
                /\ e2[s][t[s][n]] = e2[s][n]
                /\ e2[Opposite(s)][t[s][n]] = pos2[n] + Near(s)
    <2> DEFINE c == t[s][n]
    <2>1. /\ c \in M /\ t.up[c] = n /\ e[s][c] = e[s][n]
          /\ e[Opposite(s)][c] = pos[n] + Near(s)
          BY <1>16, KidOf
    <2> HIDE DEF c
    <2>2. pos[n] # P /\ n \in M
          BY <1>9
    <2>3. CASE s = "left"
      <3>1. e["left"][c] = e["left"][n] /\ e["right"][c] = pos[n] - 1
            BY <1>7, <2>1, <2>2, <2>3 DEF Near, Opposite
      <3>2. e2["left"][c] = e2["left"][n] /\ e2["right"][c] = pos2[n] - 1
            BY <1>3, <1>5, <1>6, <1>7, <2>1, <2>2, <3>1
      <3>3. pos2[n] - 1 = pos2[n] + Near(s)
            BY <1>6, <1>7, <2>2, <2>3 DEF Near
      <3> QED BY <2>1, <2>3, <3>2, <3>3 DEF Opposite, c
    <2>4. CASE s = "right"
      <3>1. e["right"][c] = e["right"][n] /\ e["left"][c] = pos[n] + 1
            BY <1>7, <2>1, <2>2, <2>4 DEF Near, Opposite
      <3>2. e2["right"][c] = e2["right"][n] /\ e2["left"][c] = pos2[n] + 1
            BY <1>3, <1>5, <1>6, <1>7, <2>1, <2>2, <3>1
      <3>3. pos2[n] + 1 = pos2[n] + Near(s)
            BY <1>6, <1>7, <2>2, <2>4 DEF Near
      <3> QED BY <2>1, <2>4, <3>2, <3>3 DEF Opposite, c
    <2> QED BY <2>3, <2>4 DEF Sides
  <1>17. x = NULL => e2["left"][y] = P /\ e2["right"][y] = P - 1
    <2>1. ASSUME x = NULL PROVE e["left"][y] = P /\ e["right"][y] = P
      <3>1. e[d][y] = P /\ e[Opposite(d)][y] = P
            BY <1>1, <1>11, <1>14, <2>1 DEF Kid
      <3> QED BY <1>14, <3>1 DEF Sides
    <2> QED BY <1>3, <1>5, <2>1
  <1>18. ASSUME NEW n \in K, NEW s \in Sides
         PROVE  Kid(u, K, pos2, e2, n, s)
    <2>1. n \in M /\ n # y /\ n \in Pointers /\ n # NULL /\ pos[n] # P
          BY <1>7, <1>9
    <2>2. CASE n = p /\ s = f
      <3>1. u[s][n] = x /\ t[s][n] = y /\ p # NULL
            BY <1>10, <1>14, <2>1, <2>2
      <3>2. e2[s][y] = e2[s][n] /\ e2[Opposite(s)][y] = pos2[n] + Near(s)
            BY <1>7, <1>16, <3>1
      <3>3. CASE x = NULL
        <4>1. e2["left"][y] = P /\ e2["right"][y] = P - 1
              BY <1>17, <3>3
        <4>2. pos2[n] \in Int
              BY <1>6, <1>7, <2>1
        <4>3. e2[s][n] = pos2[n]
          <5>1. CASE s = "left"
                BY <1>3, <3>2, <4>1, <4>2, <5>1 DEF Near, Opposite
          <5>2. CASE s = "right"
                BY <1>3, <3>2, <4>1, <4>2, <5>2 DEF Near, Opposite
          <5> QED BY <5>1, <5>2 DEF Sides
        <4> QED BY <3>1, <3>3, <4>3 DEF Kid
      <3>4. CASE x # NULL
        <4>1. x \in K /\ u.up[x] = n
              BY <1>7, <1>10, <1>15, <2>2, <3>4
        <4>2. e2[s][x] = e2[s][n] /\ e2[Opposite(s)][x] = pos2[n] + Near(s)
              BY <1>15, <3>2, <3>4, TwoSides
        <4> QED BY <3>1, <3>4, <4>1, <4>2 DEF Kid
      <3> QED BY <3>3, <3>4
    <2>3. CASE ~(n = p /\ s = f)
      <3>1. u[s][n] = t[s][n]
            BY <1>10, <2>1, <2>3
      <3>2. CASE t[s][n] = NULL
        <4>1. e[s][n] = pos[n]
              BY <1>1, <2>1, <3>2 DEF Kid
        <4>2. e2[s][n] = pos2[n]
          <5>1. CASE s = "left"
                BY <1>3, <1>5, <1>6, <1>7, <2>1, <4>1, <5>1
          <5>2. CASE s = "right"
                BY <1>3, <1>5, <1>6, <1>7, <2>1, <4>1, <5>2
          <5> QED BY <5>1, <5>2 DEF Sides
        <4> QED BY <3>1, <3>2, <4>2 DEF Kid
      <3>3. CASE t[s][n] # NULL
        <4> DEFINE c == t[s][n]
        <4>1. /\ c \in M /\ t.up[c] = n /\ e2[s][c] = e2[s][n]
              /\ e2[Opposite(s)][c] = pos2[n] + Near(s)
              BY <1>16, <3>3
        <4>2. c # y
          <5>1. ASSUME c = y PROVE FALSE
            <6>1. n = p
                  BY <4>1, <5>1
            <6>2. s = Opposite(f)
                  BY <1>14, <2>1, <2>3, <6>1, TwoSides
            <6> QED BY <1>14, <2>1, <5>1, <6>1, <6>2
          <5> QED BY <5>1
        <4>3. c # x \/ x = NULL
              BY <1>15, <2>1, <4>1
        <4>4. u.up[c] = n
              BY <1>7, <1>10, <4>1, <4>3
        <4> QED BY <3>1, <3>3, <4>1, <4>2, <4>4 DEF Kid
      <3> QED BY <3>2, <3>3
    <2> QED BY <2>2, <2>3
  <1>19. ASSUME NEW n \in K, n # u.root
         PROVE  u.up[n] \in K /\ \E s \in Sides : u[s][u.up[n]] = n
    <2>1. n \in M /\ n # y /\ n \in Pointers /\ n # NULL
          BY <1>7
    <2>2. CASE n = x
      <3>1. u.up[n] = p
            BY <1>10, <2>1, <2>2
      <3>2. p # NULL
            BY <1>10, <1>19, <2>2
      <3> QED BY <1>7, <1>10, <1>14, <2>2, <3>1, <3>2
    <2>3. CASE n # x
      <3>1. u.up[n] = t.up[n]
            BY <1>10, <2>1, <2>3
      <3>2. n # t.root
        <4>1. CASE p = NULL
              BY <1>14, <2>1, <4>1
        <4>2. CASE p # NULL
              BY <1>10, <1>19, <4>2
        <4> QED BY <4>1, <4>2
      <3>3. PICK s \in Sides : t[s][t.up[n]] = n /\ t.up[n] \in M
            BY <1>1, <2>1, <3>2 DEF Up
      <3>4. t.up[n] # y
            BY <1>14, <2>1, <2>3, <3>3
      <3>5. ~(t.up[n] = p /\ s = f)
        <4>1. ASSUME t.up[n] = p /\ s = f PROVE FALSE
              BY <1>7, <1>14, <2>1, <3>3, <4>1
        <4> QED BY <4>1
      <3>6. u[s][t.up[n]] = n
            BY <1>7, <1>10, <3>3, <3>5
      <3> QED BY <3>1, <3>3, <3>4, <3>6
    <2> QED BY <2>2, <2>3
  <1>20. Root(u, K, N - 1, e2)
    <2>1. t.root # NULL /\ e["left"][t.root] = 1 /\ e["right"][t.root] = N
          /\ t.root \in M /\ t.up[t.root] = NULL
          BY <1>1 DEF Root
    <2>2. CASE p = NULL /\ x = NULL
      <3>1. y = t.root /\ u.root = NULL
            BY <1>10, <1>14, <2>2
      <3>2. e2["left"][y] = P /\ e2["right"][y] = P - 1
            BY <1>17, <2>2
      <3>4. P = 1 /\ N = 1
            BY <1>2, <1>3, <1>5, <2>1, <3>1, <3>2, <1>8
      <3>5. K = {}
        <4>1. ASSUME NEW n \in K PROVE FALSE
          <5>1. Spans(N, pos, e, n) /\ pos[n] # P
                BY <1>7, <1>9
          <5>2. pos[n] \in Int /\ e["left"][n] \in Int /\ e["right"][n] \in Int
                BY <1>7
          <5> QED BY <3>4, <5>1, <5>2 DEF Spans
        <4> QED BY <4>1
      <3> QED BY <3>1, <3>4, <3>5 DEF Root
    <2>3. CASE p = NULL /\ x # NULL
      <3>1. y = t.root /\ u.root = x /\ x \in K /\ u.up[x] = NULL
            BY <1>7, <1>10, <1>14, <1>15, <2>3
      <3>3. e2["left"][y] = 1 /\ e2["right"][y] = N - 1
            BY <1>2, <1>3, <1>5, <1>8, <2>1, <3>1
      <3>4. e2["left"][x] = 1 /\ e2["right"][x] = N - 1
            BY <1>15, <2>3, <3>3 DEF Sides
      <3> QED BY <2>3, <3>1, <3>4 DEF Root
    <2>4. CASE p # NULL
      <3>1. u.root = t.root /\ t.root # y /\ t.root \in K
            BY <1>10, <1>14, <2>1, <2>4
      <3>2. u.up[t.root] = NULL
        <4>1. t.root # x
              BY <1>7, <1>15, <2>1
        <4> QED BY <1>7, <1>10, <2>1, <4>1
      <3>4. e2["left"][t.root] = 1 /\ e2["right"][t.root] = N - 1
            BY <1>2, <1>3, <1>5, <1>8, <2>1
      <3> QED BY <2>1, <3>1, <3>2, <3>4 DEF Root
    <2> QED BY <2>2, <2>3, <2>4
  <1>21. Shape(u, K, N - 1, pos2, e2)
         BY <1>10, <1>12, <1>13, <1>18, <1>19, <1>20 DEF Shape, Up
  <1> QED BY <1>21

(* The tree u of the entries K lacks a black entry above x when c, the     *)
(* color of the entry that was unlinked, is black; p is the parent of x.   *)
Damaged(u, K, x, p, c) ==
  /\ c = "black" => Short(u, K, x, p) /\ Colors(u, K, x, x)
  /\ c # "black" => \E b : Heights(u, K, b, NULL, "left") /\ Colors(u, K, NULL, NULL)

(* Without y the paths through x lack the black entry that y was.          *)
LEMMA UnlinkedBalance ==
  ASSUME NEW t, NEW M, NEW N, NEW pos, NEW e, Shape(t, M, N, pos, e),
         NEW b, Heights(t, M, b, NULL, "left"), Colors(t, M, NULL, NULL),
         NEW y \in M, NEW d \in Sides, NEW x, t[d][y] = x,
         NEW p, t.up[y] = p, NEW f, y # t.root => f = SideOf(t, y),
         NEW u, Unlinked(t, u, y, x, p, f)
  PROVE  Damaged(u, M \ {y}, x, p, t.color[y])
  <1> DEFINE K == M \ {y}
  <1>1. /\ t \in TreeRecords /\ M \subseteq Pointers /\ NULL \notin M
        /\ NULL \in Pointers /\ y # NULL
        BY Numbers DEF Shape, Pointers
  <1>2. /\ u.root = IF p = NULL THEN x ELSE t.root
        /\ \A n \in Pointers : \A s \in Sides :
             u[s][n] = IF n = p /\ n # NULL /\ s = f THEN x ELSE t[s][n]
        /\ u.color = t.color
        BY DEF Unlinked
  <1>3. /\ b \in [Pointers -> Nat \ {0}] /\ b[NULL] = 1
        /\ \A n \in M : Even(t, b, n, NULL, "left")
        BY DEF Heights
  <1>4. /\ (p = NULL) <=> (y = t.root)
        /\ p # NULL => p \in K /\ f \in Sides /\ t[f][p] = y
    <2>1. y # t.root => Size(e, y) < Size(e, p) /\ p \in M
          BY ParentOf
    <2>2. Size(e, y) \in Nat
          BY Numbers
    <2> QED BY <2>1, <2>2, ParentOf
  <1>5. b[y] = b[x] + Blacks(t, y) /\ b[x] \in Nat /\ Blacks(t, y) \in {0, 1}
    <2>1. x \in Pointers
          BY <1>1, Links
    <2>2. b[y] = b[x] + Blacks(t, y) + (IF y = NULL /\ d = "left" THEN 1 ELSE 0)
          BY <1>3 DEF Even
    <2>3. Blacks(t, y) \in {0, 1}
          BY DEF Blacks
    <2> QED BY <1>1, <1>3, <2>1, <2>2, <2>3
  <1>6. ASSUME NEW n \in K, NEW s \in Sides
        PROVE  /\ b[n] = b[t[s][n]] + Blacks(t, n) /\ b[t[s][n]] \in Nat
               /\ n \in Pointers /\ n # NULL /\ Blacks(u, n) = Blacks(t, n)
               /\ Blacks(t, n) \in {0, 1}
    <2>1. n \in Pointers /\ n # NULL /\ t[s][n] \in Pointers /\ n \in M
          BY <1>1, Links
    <2>2. b[n] = b[t[s][n]] + Blacks(t, n) + (IF n = NULL /\ s = "left" THEN 1 ELSE 0)
          BY <1>3, <2>1 DEF Even
    <2>3. Blacks(t, n) \in {0, 1} /\ Blacks(u, n) = Blacks(t, n)
          BY <1>2 DEF Blacks
    <2> QED BY <1>3, <2>1, <2>2, <2>3
  <1>7. \A n \in K : \A s \in Sides :
          b[n] = b[u[s][n]] + Blacks(u, n) + (IF n = p /\ s = f THEN Blacks(t, y) ELSE 0)
    <2>1. ASSUME NEW n \in K, NEW s \in Sides
          PROVE b[n] = b[u[s][n]] + Blacks(u, n) + (IF n = p /\ s = f THEN Blacks(t, y) ELSE 0)
      <3>1. CASE n = p /\ s = f
        <4>1. u[s][n] = x /\ t[s][n] = y
              BY <1>2, <1>4, <1>6, <3>1
        <4>2. b[n] = b[y] + Blacks(u, n) /\ Blacks(u, n) \in {0, 1}
              BY <1>6, <4>1
        <4> QED BY <1>5, <3>1, <4>1, <4>2
      <3>2. CASE ~(n = p /\ s = f)
        <4>1. u[s][n] = t[s][n]
              BY <1>2, <1>6, <3>2
        <4>2. b[n] = b[u[s][n]] + Blacks(u, n) + 0
              BY <1>6, <4>1
        <4> QED BY <3>2, <4>2
      <3> QED BY <3>1, <3>2
    <2> QED BY <2>1
  <1>8. \A n : Color(u, n) = Color(t, n)
        BY <1>2 DEF Color
  <1>9. \A n \in M : t.color[n] \in {"red", "black"} /\ Calm(t, n, NULL, NULL)
        BY DEF Colors
  <1>10. Color(t, t.root) = "black" /\ Color(t, NULL) = "black"
         BY DEF Colors, Color
  <1>11. ASSUME NEW n \in K, t.color[n] = "red", NEW s \in Sides
         PROVE  u[s][n] = x \/ Color(u, u[s][n]) = "black"
    <2>1. Color(t, t[s][n]) = "black"
          BY <1>6, <1>9, <1>10, <1>11 DEF Calm
    <2>2. u[s][n] = x \/ u[s][n] = t[s][n]
          BY <1>2, <1>6
    <2> QED BY <1>8, <2>1, <2>2
  <1>12. ASSUME t.color[y] = "black"
         PROVE  Short(u, K, x, p) /\ Colors(u, K, x, x)
    <2>1. Colors(u, K, x, x)
      <3>1. \A n \in K : u.color[n] \in {"red", "black"} /\ Calm(u, n, x, x)
            BY <1>2, <1>9, <1>11 DEF Calm
      <3>2. u.root = x \/ Color(u, u.root) = "black"
            BY <1>2, <1>8, <1>10
      <3> QED BY <3>1, <3>2 DEF Colors
    <2>2. Blacks(t, y) = 1
          BY <1>12 DEF Blacks
    <2>3. CASE p = NULL
      <3>1. \A n \in K : Even(u, b, n, NULL, "left")
        <4>1. ASSUME NEW n \in K, NEW s \in Sides
              PROVE b[n] = b[u[s][n]] + Blacks(u, n) + (IF n = NULL /\ s = "left" THEN 1 ELSE 0)
          <5>1. n # NULL
                BY <1>6
          <5>2. b[n] = b[u[s][n]] + Blacks(u, n) + 0
                BY <1>7, <2>3, <5>1
          <5> QED BY <5>1, <5>2
        <4> QED BY <4>1 DEF Even
      <3>2. Heights(u, K, b, NULL, "left")
            BY <1>3, <3>1 DEF Heights
      <3> QED BY <1>2, <2>1, <2>3, <3>2 DEF Short
    <2>4. CASE p # NULL
      <3>1. p \in K /\ f \in Sides /\ u[f][p] = x
            BY <1>1, <1>2, <1>4, <2>4
      <3>2. x # u.root
        <4>1. u.root = t.root /\ t.root # NULL
              BY <1>2, <2>4 DEF Shape, Root
        <4>2. x # NULL => x # t.root
              BY KidOf
        <4> QED BY <4>1, <4>2
      <3>3. \A n \in K : Even(u, b, n, p, f)
            BY <1>7, <2>2 DEF Even
      <3>4. Heights(u, K, b, p, f)
            BY <1>3, <3>3 DEF Heights
      <3> QED BY <2>1, <3>1, <3>2, <3>4 DEF Short
    <2> QED BY <2>3, <2>4
  <1>13. ASSUME t.color[y] # "black"
         PROVE  Heights(u, K, b, NULL, "left") /\ Colors(u, K, NULL, NULL)
    <2>1. t.color[y] = "red" /\ Blacks(t, y) = 0
          BY <1>9, <1>13 DEF Blacks
    <2>2. Color(t, x) = "black"
          BY <1>1, <1>9, <1>10, <2>1 DEF Calm
    <2>3. Color(t, y) = "red"
          BY <1>1, <2>1 DEF Color
    <2>4. Colors(u, K, NULL, NULL)
      <3>1. \A n \in K : u.color[n] \in {"red", "black"} /\ Calm(u, n, NULL, NULL)
            BY <1>2, <1>8, <1>9, <1>11, <2>2 DEF Calm
      <3>2. Color(u, u.root) = "black"
            BY <1>2, <1>4, <1>8, <1>10, <2>2
      <3> QED BY <3>1, <3>2 DEF Colors
    <2>5. \A n \in K : Even(u, b, n, NULL, "left")
      <3>1. ASSUME NEW n \in K, NEW s \in Sides
            PROVE b[n] = b[u[s][n]] + Blacks(u, n) + (IF n = NULL /\ s = "left" THEN 1 ELSE 0)
        <4>1. n # NULL
              BY <1>6
        <4>2. b[n] = b[u[s][n]] + Blacks(u, n) + 0
              BY <1>7, <2>1
        <4> QED BY <4>1, <4>2
      <3> QED BY <3>1 DEF Even
    <2> QED BY <1>3, <2>4, <2>5 DEF Heights
  <1> QED BY <1>12, <1>13 DEF Damaged

(***************************************************************************)
(* Taking the place of another entry                                       *)
(***************************************************************************)
(* The entry that stands in the place of n when y has taken that of z. *)
Now(z, y, n) == IF n = z THEN y ELSE n

(* v is u, a tree of the entries K, with y in the place of z. *)
Renamed(u, v, K, z, y) ==
  /\ v \in TreeRecords /\ v.root = Now(z, y, u.root)
  /\ \A n \in K : /\ v.up[Now(z, y, n)] = Now(z, y, u.up[n])
                  /\ v.color[Now(z, y, n)] = u.color[n]
  /\ \A n \in K : \A s \in Sides : v[s][Now(z, y, n)] = Now(z, y, u[s][n])

(* The parent of z, and its children. *)
LEMMA PlaceOf ==
  ASSUME NEW u, NEW K, NEW N, NEW pos, NEW e, Shape(u, K, N, pos, e),
         NEW z \in K, NEW g, g = IF z = u.root THEN "left" ELSE SideOf(u, z)
  PROVE  /\ g \in Sides /\ z # NULL /\ u.up[z] # z
         /\ \A s \in Sides : u[s][z] # z
         /\ u.up[z] # NULL => u[g][u.up[z]] = z /\ u[Opposite(g)][u.up[z]] # z
         /\ \A n \in K : \A s \in Sides :
              u[s][n] = z <=> u.up[z] # NULL /\ n = u.up[z] /\ s = g
         /\ \A n \in K : u.up[n] = z <=> \E s \in Sides : u[s][z] = n
  <1>1. z # NULL /\ \A n \in K : n # NULL
        BY Numbers
  <1>2. g \in Sides
        BY ParentOf DEF Sides
  <1>3. (u.up[z] = NULL) <=> (z = u.root)
        BY ParentOf
  <1>4. u.up[z] # NULL => u[g][u.up[z]] = z /\ u[Opposite(g)][u.up[z]] # z
        BY <1>3, ParentOf
  <1>5. u.up[z] # z
    <2>1. z # u.root => Size(e, z) < Size(e, u.up[z])
          BY ParentOf
    <2>2. Size(e, z) \in Nat
          BY Numbers
    <2> QED BY <1>1, <1>3, <2>1, <2>2
  <1>6. \A n \in K : \A s \in Sides : u[s][n] # NULL => u.up[u[s][n]] = n /\ u[s][n] # n
        BY KidOf
  <1>7. ASSUME NEW n \in K, NEW s \in Sides
        PROVE  u[s][n] = z <=> u.up[z] # NULL /\ n = u.up[z] /\ s = g
    <2>1. ASSUME u[s][n] = z PROVE u.up[z] # NULL /\ n = u.up[z] /\ s = g
      <3>1. u.up[z] = n /\ n # NULL
            BY <1>1, <1>6, <2>1
      <3>2. u[Opposite(g)][n] # z
            BY <1>4, <3>1
      <3>3. s = g \/ s = Opposite(g)
            BY <1>2, TwoSides
      <3> QED BY <2>1, <3>1, <3>2, <3>3
    <2> QED BY <1>4, <2>1
  <1>8. ASSUME NEW n \in K
        PROVE  u.up[n] = z <=> \E s \in Sides : u[s][z] = n
    <2>1. ASSUME u.up[n] = z PROVE \E s \in Sides : u[s][z] = n
      <3>1. n # u.root
            BY <1>1, <2>1, ParentOf
      <3> QED BY <2>1, <3>1, ParentOf
    <2> QED BY <1>1, <1>6, <2>1
  <1> QED BY <1>1, <1>2, <1>4, <1>5, <1>6, <1>7, <1>8

(* What itree_delete writes for the entry that takes the place of z. *)
LEMMA PlaceTaken ==
  ASSUME NEW u, NEW K, NEW N, NEW pos, NEW e, Shape(u, K, N, pos, e),
         NEW z \in K, NEW y \in Entries \ K
  PROVE  /\ Renamed(u, TakePlace(u, z, y), K, z, y)
         /\ \A n \in Pointers \ (K \cup {y}) : \A s \in Sides :
              TakePlace(u, z, y)[s][n] = u[s][n]
  <1> DEFINE q == u.up[z]
             g == IF z = u.root THEN "left" ELSE SideOf(u, z)
             l == u.left[z]
             r == u.right[z]
             t1 == Replace(u, z, q, y)
             a == SetUp(t1, l, y)
             t2 == SetUp(a, r, y)
             v == [t2 EXCEPT !.up[y] = t2.up[z], !.left[y] = t2.left[z],
                             !.right[y] = t2.right[z], !.color[y] = t2.color[z]]
  <1>1. /\ u \in TreeRecords /\ K \subseteq Pointers /\ NULL \notin K
        /\ NULL \in Pointers /\ y \in Pointers /\ y # NULL /\ z \in Pointers
        /\ y # z
        BY Numbers, KeysAssumption DEF Shape, Pointers, KeysAssumption
  <1>2. /\ u.left \in [Pointers -> Pointers] /\ u.right \in [Pointers -> Pointers]
        /\ u.up \in [Pointers -> Pointers] /\ u.root \in Pointers
        /\ u.color \in [Pointers -> {"red", "black", "invalid"}]
        /\ q \in Pointers /\ l \in Pointers /\ r \in Pointers
        BY <1>1 DEF TreeRecords
  <1>3. /\ g \in Sides /\ z # NULL /\ q # z
        /\ \A s \in Sides : u[s][z] # z
        /\ q # NULL => u[g][q] = z /\ u[Opposite(g)][q] # z
        /\ \A n \in K : \A s \in Sides :
             u[s][n] = z <=> q # NULL /\ n = q /\ s = g
        /\ \A n \in K : u.up[n] = z <=> \E s \in Sides : u[s][z] = n
    <2> HIDE DEF l, r, t1, a, t2, v
    <2>1. g = IF z = u.root THEN "left" ELSE SideOf(u, z)
          OBVIOUS
    <2> HIDE DEF g
    <2> QED BY <2>1, PlaceOf
  <1>4. (q = NULL) <=> (z = u.root)
        BY ParentOf
  <1>5. l # z /\ r # z /\ \A n \in K : u.up[n] = z <=> l = n \/ r = n
        BY <1>3 DEF Sides
  <1>6. TakePlace(u, z, y) =
          LET w1 == Replace(u, z, q, y)
              w2 == SetUp(SetUp(w1, w1.left[z], y), w1.right[z], y)
          IN [w2 EXCEPT !.up[y] = w2.up[z], !.left[y] = w2.left[z],
                        !.right[y] = w2.right[z], !.color[y] = w2.color[z]]
        BY Zenon DEF TakePlace
  <1> HIDE DEF g, q
  <1>7. /\ t1 \in TreeRecords
        /\ t1.root = IF q = NULL THEN y ELSE u.root
        /\ \A s \in Sides :
             t1[s] = IF q # NULL /\ s = g THEN [u[s] EXCEPT ![q] = y] ELSE u[s]
        /\ t1.up = u.up /\ t1.color = u.color
    <2> HIDE DEF l, r, a, t2, v
    <2>1. q # NULL => u[g][q] = z /\ u[Opposite(g)][q] # z
          BY <1>3
    <2>2. g \in Sides /\ q \in Pointers
          BY <1>2, <1>3
    <2>3. u \in TreeRecords /\ z \in Pointers /\ y \in Pointers
          BY <1>1
    <2> QED BY <2>1, <2>2, <2>3, Replaced
  <1>8. t1.left[z] = l /\ t1.right[z] = r
        BY <1>1, <1>2, <1>3, <1>7 DEF Sides
  <1>9. TakePlace(u, z, y) = v
        BY <1>6, <1>8
  <1> HIDE DEF t1, l, r
  <1>10. /\ a \in TreeRecords
         /\ a.up = IF l = NULL THEN t1.up ELSE [t1.up EXCEPT ![l] = y]
         /\ \A s \in Sides : a[s] = t1[s]
         /\ a.root = t1.root /\ a.color = t1.color
         BY <1>1, <1>2, <1>7, ParentSet
  <1> HIDE DEF a
  <1>11. /\ t2 \in TreeRecords
         /\ t2.up = IF r = NULL THEN a.up ELSE [a.up EXCEPT ![r] = y]
         /\ \A s \in Sides : t2[s] = a[s]
         /\ t2.root = a.root /\ t2.color = a.color
         BY <1>1, <1>2, <1>10, ParentSet
  <1> HIDE DEF t2
  <1>12. /\ v \in TreeRecords /\ v.root = t2.root
         /\ v.up = [t2.up EXCEPT ![y] = t2.up[z]]
         /\ v.left = [t2.left EXCEPT ![y] = t2.left[z]]
         /\ v.right = [t2.right EXCEPT ![y] = t2.right[z]]
         /\ v.color = [t2.color EXCEPT ![y] = t2.color[z]]
    <2>1. /\ t2.up \in [Pointers -> Pointers] /\ t2.left \in [Pointers -> Pointers]
          /\ t2.right \in [Pointers -> Pointers]
          /\ t2.color \in [Pointers -> {"red", "black", "invalid"}]
          /\ t2 = [root |-> t2.root, up |-> t2.up, left |-> t2.left,
                   right |-> t2.right, color |-> t2.color]
          /\ t2.root \in Pointers
          BY <1>11 DEF TreeRecords
    <2> QED BY <1>1, <1>11, <2>1 DEF TreeRecords
  <1> HIDE DEF v
  <1>13. t2 \in TreeRecords /\ \A s \in Sides : t2[s] \in [Pointers -> Pointers]
         BY <1>11, Links
  <1>14. \A n \in Pointers : t2.up[n] = IF n # NULL /\ (n = l \/ n = r) THEN y ELSE u.up[n]
         BY <1>2, <1>7, <1>10, <1>11
  <1>15. \A n \in Pointers : \A s \in Sides :
           t2[s][n] = IF q # NULL /\ s = g /\ n = q THEN y ELSE u[s][n]
    <2>1. ASSUME NEW s \in Sides
          PROVE  t2[s] = IF q # NULL /\ s = g THEN [u[s] EXCEPT ![q] = y] ELSE u[s]
          BY <1>7, <1>10, <1>11
    <2>2. \A s \in Sides : u[s] \in [Pointers -> Pointers]
          BY <1>1, Links
    <2> QED BY <1>2, <2>1, <2>2
  <1>16. ASSUME NEW n \in Pointers
         PROVE  /\ v.up[n] = IF n = y THEN t2.up[z] ELSE t2.up[n]
                /\ v.color[n] = IF n = y THEN u.color[z] ELSE u.color[n]
                /\ \A s \in Sides : v[s][n] = IF n = y THEN t2[s][z] ELSE t2[s][n]
    <2>1. /\ v.up[n] = IF n = y THEN t2.up[z] ELSE t2.up[n]
          /\ v.color[n] = IF n = y THEN u.color[z] ELSE u.color[n]
      <3>1. t2.up \in [Pointers -> Pointers] /\ t2.color = u.color
            BY <1>7, <1>10, <1>11 DEF TreeRecords
      <3> QED BY <1>1, <1>2, <1>12, <3>1
    <2>2. /\ v.left[n] = IF n = y THEN t2.left[z] ELSE t2.left[n]
          /\ v.right[n] = IF n = y THEN t2.right[z] ELSE t2.right[n]
      <3>1. t2.left \in [Pointers -> Pointers] /\ t2.right \in [Pointers -> Pointers]
            BY <1>11 DEF TreeRecords
      <3> QED BY <1>1, <1>12, <3>1
    <2> QED BY <2>1, <2>2 DEF Sides
  <1>17. v.root = Now(z, y, u.root)
         BY <1>4, <1>7, <1>10, <1>11, <1>12 DEF Now
  <1>18. ASSUME NEW n \in K
         PROVE  /\ v.up[Now(z, y, n)] = Now(z, y, u.up[n])
                /\ v.color[Now(z, y, n)] = u.color[n]
                /\ \A s \in Sides : v[s][Now(z, y, n)] = Now(z, y, u[s][n])
    <2>1. n \in Pointers /\ n # NULL /\ n # y
          BY <1>1
    <2>2. CASE n = z
      <3>1. Now(z, y, n) = y
            BY <2>2 DEF Now
      <3>2. v.up[y] = u.up[z] /\ v.color[y] = u.color[z]
            BY <1>1, <1>5, <1>14, <1>16
      <3>3. \A s \in Sides : v[s][y] = u[s][z]
            BY <1>1, <1>3, <1>15, <1>16
      <3>4. u.up[z] # z
            BY <1>3 DEF q
      <3> QED BY <1>3, <2>2, <3>1, <3>2, <3>3, <3>4 DEF Now
    <2>3. CASE n # z
      <3>1. Now(z, y, n) = n
            BY <2>3 DEF Now
      <3>2. v.up[n] = Now(z, y, u.up[n]) /\ v.color[n] = u.color[n]
            BY <1>5, <1>14, <1>16, <2>1 DEF Now
      <3>3. \A s \in Sides : v[s][n] = Now(z, y, u[s][n])
            BY <1>3, <1>15, <1>16, <2>1 DEF Now
      <3> QED BY <3>1, <3>2, <3>3
    <2> QED BY <2>2, <2>3
  <1>19. ASSUME NEW n \in Pointers \ (K \cup {y}), NEW s \in Sides
         PROVE  v[s][n] = u[s][n]
    <2>1. q # NULL => n # q
      <3>1. q # NULL => q \in K
            BY <1>4, ParentOf DEF q
      <3> QED BY <3>1
    <2> QED BY <1>15, <1>16, <2>1
  <1>20. Renamed(u, v, K, z, y)
         BY <1>12, <1>17, <1>18 DEF Renamed
  <1> QED BY <1>9, <1>19, <1>20

Others(K, z, y) == (K \ {z}) \cup {y}

(* Each entry of the new tree stands for one of the old. *)
LEMMA NowIsOneToOne ==
  ASSUME NEW K, K \subseteq Entries, NEW z \in K, NEW y \in Entries \ K
  PROVE  /\ Now(z, y, NULL) = NULL
         /\ \A n \in K : Now(z, y, n) \in Others(K, z, y) /\ Now(z, y, n) # NULL
         /\ \A m \in Others(K, z, y) : \E n \in K : m = Now(z, y, n)
         /\ \A n \in K : \A c \in K \cup {NULL} : Now(z, y, n) = Now(z, y, c) => n = c
         /\ Others(K, z, y) \subseteq Entries
  BY KeysAssumption DEF Now, Others, KeysAssumption

(* The shape is the same with y in the place of z. *)
LEMMA RenamedShape ==
  ASSUME NEW u, NEW K, NEW N, NEW pos, NEW e, Shape(u, K, N, pos, e),
         NEW z \in K, NEW y \in Entries \ K, NEW v, Renamed(u, v, K, z, y),
         NEW pos3 \in [Entries -> Int], \A n \in K : pos3[Now(z, y, n)] = pos[n]
  PROVE  \E e3 : Shape(v, Others(K, z, y), N, pos3, e3)
  <1> DEFINE K2 == Others(K, z, y)
             e3 == [s \in Sides |-> [n \in Entries |->
                      IF n = y THEN e[s][z] ELSE e[s][n]]]
             Name(n) == Now(z, y, n)
  <1>1. /\ Ghosts(K, N, pos, e) /\ Root(u, K, N, e)
        /\ \A n \in K : /\ Spans(N, pos, e, n) /\ Up(u, K, n)
                        /\ \A s \in Sides : Kid(u, K, pos, e, n, s)
        BY DEF Shape
  <1>2. /\ K \subseteq Entries /\ N \in Nat /\ e \in [Sides -> [Entries -> Int]]
        BY <1>1 DEF Ghosts
  <1>3. /\ e3 \in [Sides -> [Entries -> Int]]
        /\ \A n \in K : \A s \in Sides : e3[s][Name(n)] = e[s][n]
    <2>1. \A s \in Sides : \A n \in Entries : e[s][n] \in Int
          BY <1>2
    <2>2. e3 \in [Sides -> [Entries -> Int]]
          BY <1>2, <2>1
    <2> QED BY <1>2, <2>2 DEF Now
  <1>4. /\ Name(NULL) = NULL
        /\ \A n \in K : Name(n) \in K2 /\ Name(n) # NULL
        /\ \A m \in K2 : \E n \in K : m = Name(n)
        /\ \A n \in K : \A c \in K \cup {NULL} : Name(n) = Name(c) => n = c
        /\ K2 \subseteq Entries
        BY <1>2, NowIsOneToOne
  <1>5. /\ v \in TreeRecords /\ v.root = Name(u.root)
        /\ \A n \in K : v.up[Name(n)] = Name(u.up[n])
        /\ \A n \in K : \A s \in Sides : v[s][Name(n)] = Name(u[s][n])
        BY DEF Renamed
  <1>6. \A n \in K : pos3[Name(n)] = pos[n]
        OBVIOUS
  <1> HIDE DEF e3, K2, Name
  <1>7. Ghosts(K2, N, pos3, e3)
        BY <1>2, <1>3, <1>4 DEF Ghosts
  <1>8. \A n \in K : n # NULL
        BY Numbers
  <1>9. Root(v, K2, N, e3)
    <2>1. CASE u.root = NULL
          BY <1>1, <2>1 DEF Root
    <2>2. CASE u.root # NULL
      <3>1. /\ u.root \in K /\ u.up[u.root] = NULL
            /\ e["left"][u.root] = 1 /\ e["right"][u.root] = N
            BY <1>1, <2>2 DEF Root
      <3>2. v.root \in K2 /\ v.root # NULL /\ v.up[v.root] = NULL
            BY <1>4, <1>5, <3>1
      <3>3. e3["left"][v.root] = 1 /\ e3["right"][v.root] = N
            BY <1>3, <1>5, <3>1 DEF Sides
      <3> QED BY <3>2, <3>3 DEF Root
    <2> QED BY <2>1, <2>2
  <1>10. ASSUME NEW m \in K2
         PROVE  /\ Spans(N, pos3, e3, m) /\ Up(v, K2, m)
                /\ \A s \in Sides : Kid(v, K2, pos3, e3, m, s)
    <2>1. PICK n \in K : m = Name(n)
          BY <1>4
    <2>2. Spans(N, pos, e, n) /\ Up(u, K, n) /\ \A s \in Sides : Kid(u, K, pos, e, n, s)
          BY <1>1
    <2>3. Spans(N, pos3, e3, m)
          BY <1>3, <1>6, <2>1, <2>2 DEF Spans, Sides
    <2>4. ASSUME m # v.root PROVE v.up[m] \in K2 /\ \E s \in Sides : v[s][v.up[m]] = m
      <3>1. n # u.root
            BY <1>5, <2>1, <2>4
      <3>2. u.up[n] \in K
            BY <2>2, <3>1 DEF Up
      <3>3. PICK s \in Sides : u[s][u.up[n]] = n
            BY <2>2, <3>1 DEF Up
      <3>4. v.up[m] = Name(u.up[n])
            BY <1>5, <2>1
      <3>5. v[s][v.up[m]] = m
            BY <1>5, <2>1, <3>2, <3>3, <3>4
      <3> QED BY <1>4, <3>2, <3>4, <3>5
    <2>5. ASSUME NEW s \in Sides PROVE Kid(v, K2, pos3, e3, m, s)
      <3>1. v[s][m] = Name(u[s][n]) /\ e3[s][m] = e[s][n] /\ pos3[m] = pos[n]
            BY <1>3, <1>5, <1>6, <2>1
      <3>2. CASE u[s][n] = NULL
        <4>1. e[s][n] = pos[n]
              BY <2>2, <3>2 DEF Kid
        <4> QED BY <1>4, <3>1, <3>2, <4>1 DEF Kid
      <3>3. CASE u[s][n] # NULL
        <4> DEFINE c == u[s][n]
        <4>1. /\ c \in K /\ u.up[c] = n /\ e[s][c] = e[s][n]
              /\ e[Opposite(s)][c] = pos[n] + Near(s)
              BY <2>2, <3>3 DEF Kid
        <4>2. v[s][m] = Name(c)
              BY <3>1
        <4> HIDE DEF c
        <4>3. Name(c) \in K2 /\ Name(c) # NULL /\ v.up[Name(c)] = m
              BY <1>4, <1>5, <2>1, <4>1
        <4>4. e3[s][Name(c)] = e[s][c] /\ e3[Opposite(s)][Name(c)] = e[Opposite(s)][c]
              BY <1>3, <4>1, TwoSides
        <4> QED BY <3>1, <4>1, <4>2, <4>3, <4>4 DEF Kid
      <3> QED BY <3>2, <3>3
    <2> QED BY <2>3, <2>4, <2>5 DEF Up
  <1>11. Shape(v, K2, N, pos3, e3)
         BY <1>5, <1>7, <1>9, <1>10 DEF Shape
  <1> QED BY <1>11 DEF K2

(* The heights are those of the entries of the old tree. *)
LEMMA RenamedHeights ==
  ASSUME NEW u, NEW K, NEW N, NEW pos, NEW e, Shape(u, K, N, pos, e),
         NEW z \in K, NEW y \in Entries \ K, NEW v, Renamed(u, v, K, z, y),
         NEW b, NEW p \in K \cup {NULL}, NEW d, Heights(u, K, b, p, d)
  PROVE  \E b2 : Heights(v, Others(K, z, y), b2, Now(z, y, p), d)
  <1> DEFINE K2 == Others(K, z, y)
             b2 == [b EXCEPT ![y] = b[z]]
             Name(n) == Now(z, y, n)
  <1>1. /\ K \subseteq Entries /\ y \in Pointers /\ y # NULL /\ K \subseteq Pointers
        /\ NULL \notin K /\ NULL \in Pointers /\ u \in TreeRecords /\ y \notin K
        BY Numbers, KeysAssumption DEF Shape, Ghosts, Pointers, KeysAssumption
  <1>2. /\ b \in [Pointers -> Nat \ {0}] /\ b[NULL] = 1
        /\ \A n \in K : Even(u, b, n, p, d)
        BY DEF Heights
  <1>3. b2 \in [Pointers -> Nat \ {0}] /\ b2[NULL] = 1
        BY <1>1, <1>2
  <1>4. \A n \in K \cup {NULL} : b2[Name(n)] = b[n]
        BY <1>1, <1>2 DEF Now
  <1>5. /\ \A m \in K2 : \E n \in K : m = Name(n)
        /\ \A n \in K : \A c \in K \cup {NULL} : Name(n) = Name(c) => n = c
        BY <1>1, NowIsOneToOne
  <1>6. /\ \A n \in K : v.color[Name(n)] = u.color[n]
        /\ \A n \in K : \A s \in Sides : v[s][Name(n)] = Name(u[s][n])
        BY DEF Renamed
  <1> HIDE DEF b2, K2, Name
  <1>7. ASSUME NEW m \in K2, NEW s \in Sides
        PROVE  b2[m] = b2[v[s][m]] + Blacks(v, m) + (IF m = Name(p) /\ s = d THEN 1 ELSE 0)
    <2>1. PICK n \in K : m = Name(n)
          BY <1>5
    <2>2. b[n] = b[u[s][n]] + Blacks(u, n) + (IF n = p /\ s = d THEN 1 ELSE 0)
          BY <1>2 DEF Even
    <2>3. u[s][n] \in K \cup {NULL}
      <3>1. u[s][n] # NULL => u[s][n] \in K
            BY KidOf
      <3> QED BY <3>1
    <2>4. b2[v[s][m]] = b[u[s][n]] /\ b2[m] = b[n]
          BY <1>4, <1>6, <2>1, <2>3
    <2>5. Blacks(v, m) = Blacks(u, n)
          BY <1>6, <2>1 DEF Blacks
    <2>6. m = Name(p) <=> n = p
          BY <1>5, <2>1
    <2> QED BY <2>2, <2>4, <2>5, <2>6
  <1>8. \A m \in K2 : Even(v, b2, m, Name(p), d)
        BY <1>7 DEF Even
  <1>9. Heights(v, K2, b2, Name(p), d)
        BY <1>3, <1>8 DEF Heights
  <1> QED BY <1>9 DEF K2, Name

(* The colors are the same with y in the place of z. *)
LEMMA RenamedColors ==
  ASSUME NEW u, NEW K, NEW N, NEW pos, NEW e, Shape(u, K, N, pos, e),
         NEW z \in K, NEW y \in Entries \ K, NEW v, Renamed(u, v, K, z, y),
         NEW c \in K \cup {NULL}, Colors(u, K, c, c)
  PROVE  Colors(v, Others(K, z, y), Now(z, y, c), Now(z, y, c))
  <1> DEFINE K2 == Others(K, z, y)
             Name(n) == Now(z, y, n)
  <1>1. /\ K \subseteq Entries /\ NULL \notin K
        BY Numbers, KeysAssumption DEF Shape, Ghosts, KeysAssumption
  <1>2. /\ Name(NULL) = NULL
        /\ \A m \in K2 : \E n \in K : m = Name(n)
        /\ \A n \in K : \A m \in K \cup {NULL} : Name(n) = Name(m) => n = m
        /\ \A n \in K : Name(n) # NULL
    <2>1. Now(z, y, NULL) = NULL /\ \A n \in K : Now(z, y, n) # NULL
          BY <1>1, NowIsOneToOne
    <2>2. \A m \in Others(K, z, y) : \E n \in K : m = Now(z, y, n)
          BY DEF Now, Others
    <2>3. \A n \in K : \A m \in K \cup {NULL} :
            Now(z, y, n) = Now(z, y, m) => n = m
          BY <1>1, NowIsOneToOne
    <2> QED BY <2>1, <2>2, <2>3
  <1>3. /\ v.root = Name(u.root)
        /\ \A n \in K : v.color[Name(n)] = u.color[n]
        /\ \A n \in K : \A s \in Sides : v[s][Name(n)] = Name(u[s][n])
        BY DEF Renamed
  <1> HIDE DEF K2, Name
  <1>4. \A n \in K \cup {NULL} : Color(v, Name(n)) = Color(u, n)
        BY <1>1, <1>2, <1>3 DEF Color
  <1>5. u.root \in K \cup {NULL}
        BY DEF Shape, Root
  <1>6. \A n \in K : \A s \in Sides : u[s][n] \in K \cup {NULL}
    <2>1. \A n \in K : \A s \in Sides : u[s][n] # NULL => u[s][n] \in K
          BY KidOf
    <2> QED BY <2>1
  <1>7. ASSUME NEW m \in K2
        PROVE  v.color[m] \in {"red", "black"} /\ Calm(v, m, Name(c), Name(c))
    <2>1. PICK n \in K : m = Name(n)
          BY <1>2
    <2>2. u.color[n] \in {"red", "black"} /\ Calm(u, n, c, c)
          BY DEF Colors
    <2>3. v.color[m] = u.color[n]
          BY <1>3, <2>1
    <2>4. m # Name(c) => n # c
          BY <2>1
    <2>5. \A s \in Sides : v[s][m] = Name(u[s][n])
          BY <1>3, <2>1
    <2>6. ASSUME v.color[m] = "red", m # Name(c), NEW s \in Sides
          PROVE  v[s][m] = Name(c) \/ Color(v, v[s][m]) = "black"
      <3>1. u[s][n] = c \/ Color(u, u[s][n]) = "black"
            BY <2>2, <2>3, <2>4, <2>6 DEF Calm
      <3> QED BY <1>4, <1>6, <2>5, <3>1
    <2> QED BY <2>2, <2>3, <2>6 DEF Calm
  <1>8. v.root = Name(c) \/ Color(v, v.root) = "black"
    <2>1. u.root = c \/ Color(u, u.root) = "black"
          BY DEF Colors
    <2> QED BY <1>3, <1>4, <1>5, <2>1
  <1>9. Colors(v, K2, Name(c), Name(c))
        BY <1>7, <1>8 DEF Colors
  <1> QED BY <1>9 DEF K2, Name

(* The damage is the same with y in the place of z. *)
LEMMA RenamedDamaged ==
  ASSUME NEW u, NEW K, NEW N, NEW pos, NEW e, Shape(u, K, N, pos, e),
         NEW z \in K, NEW y \in Entries \ K, NEW v, Renamed(u, v, K, z, y),
         NEW x \in K \cup {NULL}, x # z, NEW p \in K \cup {NULL}, NEW c,
         Damaged(u, K, x, p, c)
  PROVE  Damaged(v, Others(K, z, y), x, Now(z, y, p), c)
  <1> DEFINE K2 == Others(K, z, y)
             Name(n) == Now(z, y, n)
  <1>1. K \subseteq Entries /\ NULL \notin K
        BY Numbers, KeysAssumption DEF Shape, Ghosts, KeysAssumption
  <1>2. /\ Name(NULL) = NULL /\ Name(x) = x
        /\ \A n \in K : Name(n) \in K2
        /\ \A n \in K : \A m \in K \cup {NULL} : Name(n) = Name(m) => n = m
        BY <1>1, NowIsOneToOne DEF Now
  <1>3. /\ v.root = Name(u.root) /\ u.root \in K \cup {NULL}
        /\ \A n \in K : \A s \in Sides : v[s][Name(n)] = Name(u[s][n])
        BY DEF Renamed, Shape, Root
  <1>4. ASSUME NEW b, NEW q \in K \cup {NULL}, NEW d, Heights(u, K, b, q, d)
        PROVE  \E b2 : Heights(v, K2, b2, Name(q), d)
        BY <1>4, RenamedHeights
  <1>5. ASSUME NEW a \in K \cup {NULL}, Colors(u, K, a, a)
        PROVE  Colors(v, K2, Name(a), Name(a))
        BY <1>5, RenamedColors
  <1> HIDE DEF K2, Name
  <1>6. ASSUME c = "black" PROVE Short(v, K2, x, Name(p)) /\ Colors(v, K2, x, x)
    <2>1. Short(u, K, x, p) /\ Colors(u, K, x, x)
          BY <1>6 DEF Damaged
    <2>2. Colors(v, K2, x, x)
          BY <1>2, <1>5, <2>1
    <2>3. PICK b : IF x = u.root THEN Heights(u, K, b, NULL, "left")
                   ELSE \E q \in K : \E d \in Sides :
                          u[d][q] = x /\ (x = NULL => p = q) /\ Heights(u, K, b, q, d)
          BY <2>1 DEF Short
    <2>4. x = u.root <=> x = v.root
      <3>1. u.root \in K => (Name(u.root) = Name(x) => u.root = x)
            BY <1>2
      <3>2. x \in K => (Name(x) = Name(u.root) => u.root = x)
            BY <1>2, <1>3
      <3> QED BY <1>2, <1>3, <3>1, <3>2
    <2>5. CASE x = u.root
      <3>1. \E b2 : Heights(v, K2, b2, NULL, "left")
            BY <1>2, <1>4, <2>3, <2>5
      <3> QED BY <2>2, <2>4, <2>5, <3>1 DEF Short
    <2>6. CASE x # u.root
      <3>1. PICK q \in K : \E d \in Sides :
                   u[d][q] = x /\ (x = NULL => p = q) /\ Heights(u, K, b, q, d)
            BY <2>3, <2>6
      <3>2. PICK d \in Sides :
                   u[d][q] = x /\ (x = NULL => p = q) /\ Heights(u, K, b, q, d)
            BY <3>1
      <3>3. PICK b2 : Heights(v, K2, b2, Name(q), d)
            BY <1>4, <3>2
      <3>4. v[d][Name(q)] = x /\ Name(q) \in K2 /\ (x = NULL => Name(p) = Name(q))
            BY <1>2, <1>3, <3>2
      <3> QED BY <2>2, <2>4, <2>6, <3>3, <3>4 DEF Short
    <2> QED BY <2>5, <2>6
  <1>7. ASSUME c # "black"
        PROVE  \E b : Heights(v, K2, b, NULL, "left") /\ Colors(v, K2, NULL, NULL)
    <2>1. PICK b : Heights(u, K, b, NULL, "left") /\ Colors(u, K, NULL, NULL)
          BY <1>7 DEF Damaged
    <2>2. \E b2 : Heights(v, K2, b2, NULL, "left")
          BY <1>2, <1>4, <2>1
    <2>3. Colors(v, K2, NULL, NULL)
          BY <1>2, <1>5, <2>1
    <2> QED BY <2>2, <2>3
  <1>8. Damaged(v, K2, x, Name(p), c)
        BY <1>6, <1>7 DEF Damaged
  <1> QED BY <1>8 DEF K2, Name

(***************************************************************************)
(* Walking                                                                 *)
(***************************************************************************)
(* itree_minimum and itree_maximum. *)
LEMMA ExtremeFound ==
  ASSUME NEW t, NEW M, NEW N, NEW pos, NEW e, Shape(t, M, N, pos, e),
         NEW x \in M, NEW d \in Sides
  PROVE  /\ Extreme(t, x, d) \in M /\ t[d][Extreme(t, x, d)] = NULL
         /\ pos[Extreme(t, x, d)] = e[d][x]
  <1> DEFINE S == Pointers
             Stop == {n \in S : t[d][n] = NULL}
             g == [n \in S |-> n]
             next == [n \in S |-> t[d][n]]
             G(f) == [n \in Pointers |-> IF t[d][n] = NULL THEN n ELSE f[t[d][n]]]
             f == CHOOSE h : h = G(h)
             Inv == [i \in Nat |-> {n \in M : Size(e, n) <= i /\ e[d][n] = e[d][x]}]
  <1>1. \A h : IsLoop(S, Stop, g, next, h) <=> h = G(h)
    <2>1. ASSUME NEW h
          PROVE  [n \in S |-> IF n \in Stop THEN g[n] ELSE h[next[n]]] = G(h)
          OBVIOUS
    <2> HIDE DEF S, Stop, g, next, G
    <2> QED BY <2>1 DEF IsLoop
  <1>2. Loops(S, Stop, next)
    <2>1. \A n \in S : t[d][n] \in S
          BY Links DEF Shape
    <2> QED BY <2>1 DEF Loops
  <1>3. IsLoop(S, Stop, g, next, f)
    <2> HIDE DEF S, Stop, g, next, G
    <2>1. \E h : IsLoop(S, Stop, g, next, h)
          BY <1>2, LoopExists
    <2> QED BY <1>1, <2>1
  <1>4. Extreme(t, x, d) = f[x]
        BY DEF Extreme
  <1> HIDE DEF f, G
  <1>5. M \subseteq S
        BY Numbers
  <1>6. ASSUME NEW i \in Nat, NEW n \in Inv[i] \ Stop
        PROVE  \E m \in Nat : m < i /\ next[n] \in Inv[m]
    <2>1. n \in M /\ Size(e, n) <= i /\ e[d][n] = e[d][x]
          /\ t[d][n] # NULL /\ next[n] = t[d][n]
          BY <1>5, <1>6
    <2>2. next[n] \in M /\ Size(e, next[n]) < Size(e, n) /\ e[d][next[n]] = e[d][n]
          BY <2>1, KidOf
    <2>3. Size(e, next[n]) \in Nat /\ Size(e, n) \in Nat
          BY <2>1, <2>2, Numbers
    <2>4. Size(e, next[n]) < i /\ next[n] \in Inv[Size(e, next[n])]
      <3> HIDE DEF next
      <3> QED BY <2>1, <2>2, <2>3
    <2> QED BY <2>3, <2>4
  <1>7. Size(e, x) \in Nat
        BY Numbers
  <1>8. x \in Inv[Size(e, x)]
        BY <1>7
  <1>9. \A i \in Nat : Inv[i] \subseteq S
        BY <1>5
  <1>10. \E m \in Nat : \E n \in Inv[m] : n \in Stop /\ f[x] = g[n]
    <2> HIDE DEF S, Stop, g, next, Inv
    <2>1. Descends(S, Stop, next, Inv)
          BY <1>6, <1>9 DEF Descends
    <2> QED BY <1>3, <1>7, <1>8, <2>1, LoopEnds
  <1>11. PICK n \in M : n \in Stop /\ f[x] = g[n] /\ e[d][n] = e[d][x]
         BY <1>10
  <1>12. n = Extreme(t, x, d) /\ t[d][n] = NULL
         BY <1>4, <1>5, <1>11
  <1>13. e[d][n] = pos[n]
         BY <1>12 DEF Shape, Kid
  <1> QED BY <1>11, <1>12, <1>13

(* The first or the last position. *)
EndOf(N, d) == IF d = "left" THEN 1 ELSE N

(* The climb of itree_successor and itree_predecessor. *)
LEMMA Climbed ==
  ASSUME NEW t, NEW M, NEW N, NEW pos, NEW e, Shape(t, M, N, pos, e),
         NEW x \in M, NEW d \in Sides, t[d][x] = NULL
  PROVE  \/ Climb(t, x, d) = NULL /\ pos[x] = EndOf(N, d)
         \/ Climb(t, x, d) \in M /\ pos[Climb(t, x, d)] = pos[x] + Near(d)
  <1> DEFINE S == Pointers
             Stop == {n \in S : ~(t.up[n] # NULL /\ n = t[d][t.up[n]])}
             g == [n \in S |-> t.up[n]]
             next == [n \in S |-> t.up[n]]
             G(f) == [n \in Pointers |-> LET y == t.up[n]
                       IN IF y # NULL /\ n = t[d][y] THEN f[y] ELSE y]
             f == CHOOSE h : h = G(h)
             Inv == [i \in Nat |-> {n \in M : N - Size(e, n) <= i /\ e[d][n] = pos[x]}]
  <1>1. \A h : IsLoop(S, Stop, g, next, h) <=> h = G(h)
    <2>1. ASSUME NEW h
          PROVE  [n \in S |-> IF n \in Stop THEN g[n] ELSE h[next[n]]] = G(h)
      <3>1. \A n \in S : (IF n \in Stop THEN g[n] ELSE h[next[n]])
                          = (IF t.up[n] # NULL /\ n = t[d][t.up[n]]
                             THEN h[t.up[n]] ELSE t.up[n])
            OBVIOUS
      <3> HIDE DEF Stop, g, next
      <3> QED BY <3>1
    <2> HIDE DEF S, Stop, g, next, G
    <2> QED BY <2>1 DEF IsLoop
  <1>2. Loops(S, Stop, next)
    <2>1. \A n \in S : t.up[n] \in S
          BY DEF Shape, TreeRecords
    <2> QED BY <2>1 DEF Loops
  <1>3. IsLoop(S, Stop, g, next, f)
    <2> HIDE DEF S, Stop, g, next, G
    <2>1. \E h : IsLoop(S, Stop, g, next, h)
          BY <1>2, LoopExists
    <2> QED BY <1>1, <2>1
  <1>4. Climb(t, x, d) = f[x]
        BY DEF Climb
  <1> HIDE DEF f, G
  <1>5. M \subseteq S /\ NULL \notin M
        BY Numbers
  <1>6. ASSUME NEW i \in Nat, NEW n \in Inv[i] \ Stop
        PROVE  \E m \in Nat : m < i /\ next[n] \in Inv[m]
    <2>1. n \in M /\ N - Size(e, n) <= i /\ e[d][n] = pos[x]
          /\ t.up[n] # NULL /\ n = t[d][t.up[n]] /\ next[n] = t.up[n]
          BY <1>5, <1>6
    <2>2. next[n] \in M /\ Size(e, n) < Size(e, next[n])
      <3> HIDE DEF next
      <3> QED BY <2>1, ParentOf
    <2>3. e[d][n] = e[d][next[n]]
      <3>1. n # NULL /\ t[d][next[n]] = n
            BY <1>5, <2>1
      <3> HIDE DEF next
      <3> QED BY <2>2, <3>1, KidOf
    <2>4. Size(e, next[n]) \in Nat /\ Size(e, n) \in Nat /\ N \in Nat
          /\ Size(e, next[n]) < N
          BY <2>1, <2>2, Numbers
    <2>5. /\ N - Size(e, next[n]) \in Nat /\ N - Size(e, next[n]) < i
          /\ next[n] \in Inv[N - Size(e, next[n])]
      <3> HIDE DEF next
      <3> QED BY <2>1, <2>2, <2>3, <2>4
    <2> QED BY <2>5
  <1>7. N - Size(e, x) \in Nat
        BY Numbers
  <1>8. e[d][x] = pos[x]
        BY DEF Shape, Kid
  <1>9. x \in Inv[N - Size(e, x)]
    <2>1. N - Size(e, x) <= N - Size(e, x)
          BY <1>7
    <2> QED BY <1>7, <1>8, <2>1
  <1>10. \A i \in Nat : Inv[i] \subseteq S
         BY <1>5
  <1>11. \E m \in Nat : \E n \in Inv[m] : n \in Stop /\ f[x] = g[n]
    <2> HIDE DEF S, Stop, g, next, Inv
    <2>1. Descends(S, Stop, next, Inv)
          BY <1>6, <1>10 DEF Descends
    <2> QED BY <1>3, <1>7, <1>9, <2>1, LoopEnds
  <1>12. PICK n \in M : n \in Stop /\ f[x] = g[n] /\ e[d][n] = pos[x]
         BY <1>11
  <1>13. Climb(t, x, d) = t.up[n] /\ ~(t.up[n] # NULL /\ n = t[d][t.up[n]])
         BY <1>4, <1>5, <1>12
  <1> HIDE DEF S, Stop, g, next, Inv
  <1>14. CASE n = t.root
    <2>1. t.up[n] = NULL
          BY <1>14, ParentOf
    <2>2. e["left"][n] = 1 /\ e["right"][n] = N
          BY <1>5, <1>14 DEF Shape, Root
    <2>3. pos[x] = EndOf(N, d)
          BY <1>12, <2>2 DEF EndOf, Sides
    <2> QED BY <1>13, <2>1, <2>3
  <1>15. CASE n # t.root
    <2> DEFINE y == t.up[n]
    <2>1. y \in M /\ y # NULL /\ SideOf(t, n) \in Sides /\ t[SideOf(t, n)][y] = n
          BY <1>5, <1>15, ParentOf
    <2>2. SideOf(t, n) = Opposite(d)
          BY <1>13, <2>1, TwoSides
    <2> HIDE DEF y
    <2>3. e[d][n] = pos[y] + Near(Opposite(d))
      <3>1. n # NULL /\ t[Opposite(d)][y] = n /\ Opposite(d) \in Sides
            BY <1>5, <2>1, <2>2, TwoSides
      <3>2. e[Opposite(Opposite(d))][n] = pos[y] + Near(Opposite(d))
            BY <2>1, <3>1, KidOf
      <3> QED BY <3>2, TwoSides
    <2>4. pos[y] \in Int
          BY <2>1, Numbers
    <2>5. pos[y] = pos[x] + Near(d)
          BY <1>12, <2>3, <2>4 DEF Near, Opposite, Sides
    <2> QED BY <1>13, <2>1, <2>5 DEF y
  <1> QED BY <1>14, <1>15

(* itree_successor and itree_predecessor. *)
LEMMA Stepped ==
  ASSUME NEW t, NEW M, NEW N, NEW pos, NEW e, Shape(t, M, N, pos, e),
         NEW x \in M, NEW d \in Sides
  PROVE  /\ \/ StepTo(t, x, d) = NULL /\ pos[x] = EndOf(N, d)
            \/ StepTo(t, x, d) \in M /\ pos[StepTo(t, x, d)] = pos[x] + Near(d)
         /\ t[d][x] # NULL => /\ StepTo(t, x, d) \in M
                              /\ pos[StepTo(t, x, d)] = pos[x] + Near(d)
                              /\ t[Opposite(d)][StepTo(t, x, d)] = NULL
  <1>1. CASE t[d][x] = NULL
        BY <1>1, Climbed DEF StepTo
  <1>2. CASE t[d][x] # NULL
    <2> DEFINE c == t[d][x]
               o == Opposite(d)
               y == Extreme(t, c, o)
    <2>1. c \in M /\ e[o][c] = pos[x] + Near(d) /\ o \in Sides
          BY <1>2, KidOf, TwoSides
    <2>2. y \in M /\ t[o][y] = NULL /\ pos[y] = e[o][c]
      <3> HIDE DEF c, o
      <3> QED BY <2>1, ExtremeFound
    <2>3. StepTo(t, x, d) = y
          BY <1>2 DEF StepTo
    <2> HIDE DEF y, c
    <2> QED BY <1>2, <2>1, <2>2, <2>3
  <1> QED BY <1>1, <1>2

(***************************************************************************)
(* Removal                                                                 *)
(***************************************************************************)
(* The fields of z are cleared when z is out of the tree. *)
LEMMA Cleared ==
  ASSUME NEW t, NEW v, NEW K, NEW N, NEW pos, Repaired(t, v, K, N, pos),
         NEW z \in Entries \ K, Outside(t, K \cup {z})
  PROVE  Tree([v EXCEPT !.up[z] = NULL, !.left[z] = NULL, !.right[z] = NULL,
                        !.color[z] = "invalid"], K, N, pos)
  <1> DEFINE w == [v EXCEPT !.up[z] = NULL, !.left[z] = NULL, !.right[z] = NULL,
                            !.color[z] = "invalid"]
  <1>1. PICK e : Shape(v, K, N, pos, e)
        BY DEF Repaired
  <1>2. PICK b : Heights(v, K, b, NULL, "left") /\ Colors(v, K, NULL, NULL)
        BY DEF Repaired
  <1>3. /\ v \in TreeRecords /\ K \subseteq Pointers /\ NULL \notin K
        /\ NULL \in Pointers /\ z \in Pointers /\ z # NULL /\ z \notin K
        BY <1>1, Numbers, KeysAssumption DEF Shape, Pointers, KeysAssumption
  <1>4. /\ w \in TreeRecords /\ w.root = v.root
        /\ w.up = [v.up EXCEPT ![z] = NULL]
        /\ w.left = [v.left EXCEPT ![z] = NULL]
        /\ w.right = [v.right EXCEPT ![z] = NULL]
        /\ w.color = [v.color EXCEPT ![z] = "invalid"]
        BY <1>3 DEF TreeRecords
  <1> HIDE DEF w
  <1>5. ASSUME NEW n \in Pointers
        PROVE  /\ w.up[n] = IF n = z THEN NULL ELSE v.up[n]
               /\ w.color[n] = IF n = z THEN "invalid" ELSE v.color[n]
               /\ \A s \in Sides : w[s][n] = IF n = z THEN NULL ELSE v[s][n]
    <2>1. /\ v.up \in [Pointers -> Pointers] /\ v.left \in [Pointers -> Pointers]
          /\ v.right \in [Pointers -> Pointers]
          /\ v.color \in [Pointers -> {"red", "black", "invalid"}]
          BY <1>3 DEF TreeRecords
    <2> QED BY <1>4, <2>1 DEF Sides
  <1>6. \A n \in K : /\ w.up[n] = v.up[n] /\ w.color[n] = v.color[n] /\ n # z
                     /\ \A s \in Sides : w[s][n] = v[s][n] /\ v[s][n] \in K \cup {NULL}
    <2>1. \A n \in K : \A s \in Sides : v[s][n] # NULL => v[s][n] \in K
          BY <1>1, KidOf
    <2> QED BY <1>3, <1>5, <2>1
  <1>7. v.root \in K \cup {NULL}
        BY <1>1 DEF Shape, Root
  <1>8. Shape(w, K, N, pos, e)
    <2>1. Root(w, K, N, e)
          BY <1>1, <1>4, <1>6 DEF Shape, Root
    <2>2. ASSUME NEW n \in K
          PROVE Up(w, K, n) /\ \A s \in Sides : Kid(w, K, pos, e, n, s)
      <3>1. Up(v, K, n) /\ \A s \in Sides : Kid(v, K, pos, e, n, s)
            BY <1>1 DEF Shape
      <3>2. Up(w, K, n)
            BY <1>4, <1>6, <3>1 DEF Up
      <3>3. ASSUME NEW s \in Sides PROVE Kid(w, K, pos, e, n, s)
            BY <1>6, <3>1, <3>3 DEF Kid
      <3> QED BY <3>2, <3>3
    <2> QED BY <1>1, <1>4, <2>1, <2>2 DEF Shape
  <1>9. Heights(w, K, b, NULL, "left")
    <2>1. \A n \in K : Blacks(w, n) = Blacks(v, n)
          BY <1>6 DEF Blacks
    <2>2. \A n \in K : Even(w, b, n, NULL, "left")
      <3>1. \A n \in K : Even(v, b, n, NULL, "left")
            BY <1>2 DEF Heights
      <3> QED BY <1>6, <2>1, <3>1 DEF Even
    <2> QED BY <1>2, <2>2 DEF Heights
  <1>10. \A n \in K \cup {NULL} : Color(w, n) = Color(v, n)
         BY <1>6 DEF Color
  <1>11. Colors(w, K, NULL, NULL)
    <2>1. ASSUME NEW n \in K
          PROVE  w.color[n] \in {"red", "black"} /\ Calm(w, n, NULL, NULL)
      <3>1. v.color[n] \in {"red", "black"} /\ Calm(v, n, NULL, NULL)
            BY <1>2 DEF Colors
      <3> QED BY <1>6, <1>10, <3>1 DEF Calm
    <2>2. w.root = NULL \/ Color(w, w.root) = "black"
          BY <1>2, <1>4, <1>7, <1>10 DEF Colors
    <2> QED BY <2>1, <2>2 DEF Colors
  <1>12. Outside(w, K)
    <2>1. ASSUME NEW n \in Pointers \ K, NEW s \in Sides, n # z
          PROVE  v[s][n] = NULL
          BY <2>1 DEF Repaired, Untouched, Outside
    <2> QED BY <1>5, <2>1 DEF Outside
  <1>13. Tree(w, K, N, pos)
         BY <1>8, <1>9, <1>11, <1>12 DEF Tree
  <1> QED BY <1>13 DEF w

(* itree_delete_fixup, when a black entry was unlinked. *)
LEMMA DamageRepaired ==
  ASSUME NEW u, NEW K, NEW N, NEW pos, NEW e, Shape(u, K, N, pos, e),
         NEW x \in K \cup {NULL}, NEW p \in Pointers, NEW c,
         Damaged(u, K, x, p, c)
  PROVE  Repaired(u, IF c = "black" THEN DeleteFix(u, x, p) ELSE u, K, N, pos)
  <1>1. CASE c = "black"
        BY <1>1, DeleteFixed DEF Damaged
  <1>2. CASE c # "black"
        BY <1>2 DEF Damaged, Repaired, Untouched, Shape
  <1> QED BY <1>1, <1>2

(* The first part of itree_delete: y is unlinked. *)
LEMMA UnlinkedTree ==
  ASSUME NEW t, NEW M, NEW N, NEW pos, Tree(t, M, N, pos), Apart(M, pos),
         NEW y \in M, NEW d \in Sides, NEW x, t[d][y] = x,
         t[Opposite(d)][y] = NULL, NEW pos2, Closed(M, pos, pos2, pos[y])
  PROVE  LET u == Replace(SetUp(t, x, t.up[y]), y, t.up[y], x)
         IN /\ \E e2 : Shape(u, M \ {y}, N - 1, pos2, e2)
            /\ Damaged(u, M \ {y}, x, t.up[y], t.color[y])
            /\ x \in (M \ {y}) \cup {NULL} /\ t.up[y] \in (M \ {y}) \cup {NULL}
            /\ u.color = t.color /\ Outside(u, M)
  <1> DEFINE p == t.up[y]
             s == SideOf(t, y)
             u == Replace(SetUp(t, x, p), y, p, x)
  <1>1. PICK e : Shape(t, M, N, pos, e)
        BY DEF Tree
  <1>2. PICK b : Heights(t, M, b, NULL, "left") /\ Colors(t, M, NULL, NULL)
        BY DEF Tree
  <1>3. /\ t \in TreeRecords /\ y \in Pointers /\ y # NULL
        BY <1>1, Numbers DEF Shape
  <1>4. x \in (M \ {y}) \cup {NULL} /\ x \in Pointers
    <2>1. x # NULL => x \in M /\ x # y
          BY <1>1, KidOf
    <2>2. x \in Pointers
          BY <1>3, Links
    <2> QED BY <2>1, <2>2
  <1>5. p \in (M \ {y}) \cup {NULL}
    <2>1. y # t.root => p \in M /\ Size(e, y) < Size(e, p)
          BY <1>1, ParentOf
    <2>2. y = t.root => p = NULL
          BY <1>1, ParentOf
    <2>3. Size(e, y) \in Nat
          BY <1>1, Numbers
    <2> QED BY <2>1, <2>2, <2>3
  <1>6. Unlinked(t, u, y, x, p, s)
        BY <1>1, <1>4, UnlinkWrites
  <1>7. t.up[y] = p /\ (y # t.root => s = SideOf(t, y))
        OBVIOUS
  <1>8. \A m \in M \ {y} : pos[m] # pos[y]
        BY DEF Apart
  <1> HIDE DEF u, p, s
  <1>9. \E e2 : Shape(u, M \ {y}, N - 1, pos2, e2)
        BY <1>1, <1>6, <1>7, <1>8, UnlinkedShape
  <1>10. Damaged(u, M \ {y}, x, p, t.color[y])
         BY <1>1, <1>2, <1>6, <1>7, UnlinkedBalance
  <1>11. Outside(u, M)
    <2>1. ASSUME NEW n \in Pointers \ M, NEW f \in Sides PROVE u[f][n] = NULL
      <3>1. t[f][n] = NULL
            BY DEF Tree, Outside
      <3>2. ~(n = p /\ n # NULL)
            BY <1>5
      <3> QED BY <1>6, <3>1, <3>2 DEF Unlinked
    <2> QED BY <2>1 DEF Outside
  <1>12. u.color = t.color
         BY <1>6 DEF Unlinked
  <1> QED BY <1>4, <1>5, <1>9, <1>10, <1>11, <1>12 DEF u, p

(* The entry that itree_delete unlinks, and its only child. *)
ToUnlink(t, z) ==
  IF t.left[z] # NULL /\ t.right[z] # NULL THEN Successor(t, z) ELSE z
ChildOf(t, y) == IF t.left[y] # NULL THEN t.left[y] ELSE t.right[y]
SideWithChild(t, y) == IF t.left[y] # NULL THEN "left" ELSE "right"
TreeWithout(t, y) ==
  Replace(SetUp(t, ChildOf(t, y), t.up[y]), y, t.up[y], ChildOf(t, y))

(* itree_delete, step by step. *)
LEMMA RemovalSteps ==
  ASSUME NEW t, NEW z
  PROVE  LET y == ToUnlink(t, z)
             x == ChildOf(t, y)
             p == t.up[y]
             u == TreeWithout(t, y)
             v == IF y = z THEN u ELSE TakePlace(u, z, y)
             w == IF t.color[y] = "black"
                  THEN DeleteFix(v, x, IF p = z THEN y ELSE p) ELSE v
         IN Removed(t, z) = [w EXCEPT !.up[z] = NULL, !.left[z] = NULL,
                                      !.right[z] = NULL, !.color[z] = "invalid"]
  BY Zenon DEF Removed, ToUnlink, ChildOf, TreeWithout

(* It has one child at most. *)
LEMMA OnlyChild ==
  ASSUME NEW t, NEW M, NEW N, NEW pos, NEW e, Shape(t, M, N, pos, e),
         NEW z \in M, NEW y, ToUnlink(t, z) = y
  PROVE  /\ y \in M /\ SideWithChild(t, y) \in Sides
         /\ t[SideWithChild(t, y)][y] = ChildOf(t, y)
         /\ t[Opposite(SideWithChild(t, y))][y] = NULL
         /\ y # z => pos[y] = pos[z] + 1 /\ t.left[y] = NULL
  <1>1. CASE t.left[z] # NULL /\ t.right[z] # NULL
    <2>1. y = StepTo(t, z, "right")
          BY <1>1 DEF ToUnlink, Successor
    <2>2. "right" \in Sides /\ t["right"][z] # NULL
          BY <1>1 DEF Sides
    <2>3. /\ StepTo(t, z, "right") \in M
          /\ pos[StepTo(t, z, "right")] = pos[z] + Near("right")
          /\ t[Opposite("right")][StepTo(t, z, "right")] = NULL
          BY <2>2, Stepped
    <2>4. y \in M /\ pos[y] = pos[z] + 1 /\ t.left[y] = NULL
          BY <2>1, <2>3 DEF Near, Opposite
    <2> QED BY <2>4 DEF SideWithChild, ChildOf, Sides, Opposite
  <1>2. CASE ~(t.left[z] # NULL /\ t.right[z] # NULL)
    <2>1. y = z
          BY <1>2 DEF ToUnlink
    <2> QED BY <1>2, <2>1 DEF SideWithChild, ChildOf, Sides, Opposite
  <1> QED BY <1>1, <1>2

Follows(pos, z, y) == pos[y] = pos[z] + 1

(* The positions when the entry has gone from its place, in two steps. *)
LEMMA MovedPositions ==
  ASSUME NEW M, NEW pos \in [Entries -> Int], M \subseteq Entries, Apart(M, pos),
         NEW z \in M, NEW y \in M, Follows(pos, z, y),
         NEW pos3, Closed(M \ {z}, pos, pos3, pos[z])
  PROVE  \E pos2 : /\ Closed(M, pos, pos2, pos[y])
                   /\ \A n \in M \ {y} : pos3[Now(z, y, n)] = pos2[n]
  <1> DEFINE pos2 == [n \in Entries |-> IF pos[n] > pos[y] THEN pos[n] - 1 ELSE pos[n]]
  <1>1. \A n \in Entries : pos[n] \in Int
        OBVIOUS
  <1>2. pos2 \in [Entries -> Int] /\ Closed(M, pos, pos2, pos[y])
    <2>1. \A n \in Entries : pos2[n] = IF pos[n] > pos[y] THEN pos[n] - 1 ELSE pos[n]
          OBVIOUS
    <2>2. pos[y] \in Int
          BY <1>1
    <2>3. pos2 \in [Entries -> Int]
      <3>1. \A n \in Entries : (IF pos[n] > pos[y] THEN pos[n] - 1 ELSE pos[n]) \in Int
        <4>1. ASSUME NEW n \in Entries, NEW P \in Int
              PROVE  (IF pos[n] > P THEN pos[n] - 1 ELSE pos[n]) \in Int
          <5>1. pos[n] \in Int
                BY <1>1
          <5> QED BY <5>1
        <4> QED BY <2>2, <4>1
      <3> QED BY <3>1
    <2> HIDE DEF pos2
    <2> QED BY <2>1, <2>2, <2>3 DEF Closed
  <1>3. ASSUME NEW n \in M \ {y} PROVE pos3[Now(z, y, n)] = pos2[n]
    <2>1. pos2[n] = IF pos[n] > pos[y] THEN pos[n] - 1 ELSE pos[n]
          OBVIOUS
    <2>2. /\ pos[n] \in Int /\ pos[z] \in Int /\ pos[y] \in Int /\ pos[n] # pos[y]
          /\ pos[y] = pos[z] + 1
          BY <1>1 DEF Apart, Follows
    <2>3. z # y
          BY <2>2
    <2> HIDE DEF pos2
    <2>4. CASE n = z
      <3>1. Now(z, y, n) = y /\ y \in M \ {z}
            BY <2>3, <2>4 DEF Now
      <3>2. pos3[y] = IF pos[y] > pos[z] THEN pos[y] - 1 ELSE pos[y]
            BY <3>1 DEF Closed
      <3> QED BY <2>1, <2>2, <2>4, <3>1, <3>2
    <2>5. CASE n # z
      <3>1. Now(z, y, n) = n /\ n \in M \ {z}
            BY <2>5 DEF Now
      <3>2. pos3[n] = IF pos[n] > pos[z] THEN pos[n] - 1 ELSE pos[n]
            BY <3>1 DEF Closed
      <3> QED BY <2>1, <2>2, <3>1, <3>2
    <2> QED BY <2>4, <2>5
  <1> QED BY <1>2, <1>3

(* itree_delete: the tree without z is a red-black tree, the other entries
   in the order they had. *)
LEMMA RemovedTree ==
  ASSUME NEW t, NEW M, NEW N, NEW pos, Tree(t, M, N, pos), Apart(M, pos),
         NEW z \in M, NEW pos3, Closed(M \ {z}, pos, pos3, pos[z])
  PROVE  Tree(Removed(t, z), M \ {z}, N - 1, pos3)
  <1> DEFINE y == ToUnlink(t, z)
             x == ChildOf(t, y)
             p == t.up[y]
             d == SideWithChild(t, y)
             u == TreeWithout(t, y)
             v == IF y = z THEN u ELSE TakePlace(u, z, y)
             p2 == IF p = z THEN y ELSE p
             w == IF t.color[y] = "black" THEN DeleteFix(v, x, p2) ELSE v
             K == M \ {y}
  <1>1. PICK e : Shape(t, M, N, pos, e)
        BY DEF Tree
  <1>2. /\ y \in M /\ d \in Sides /\ t[d][y] = x /\ t[Opposite(d)][y] = NULL
        /\ y # z => pos[y] = pos[z] + 1 /\ t.left[y] = NULL
    <2> HIDE DEF y
    <2>1. ToUnlink(t, z) = y
          BY DEF y
    <2> QED BY <1>1, <2>1, OnlyChild
  <1>3. Removed(t, z) = [w EXCEPT !.up[z] = NULL, !.left[z] = NULL,
                                  !.right[z] = NULL, !.color[z] = "invalid"]
        BY Zenon, RemovalSteps
  <1>4. u = Replace(SetUp(t, x, t.up[y]), y, t.up[y], x)
        BY DEF TreeWithout
  <1> HIDE DEF y, x, d, u
  <1>5. ASSUME NEW pos2, Closed(M, pos, pos2, pos[y])
        PROVE  /\ \E e2 : Shape(u, K, N - 1, pos2, e2)
               /\ Damaged(u, K, x, p, t.color[y])
               /\ x \in K \cup {NULL} /\ p \in K \cup {NULL}
               /\ u.color = t.color /\ Outside(u, M)
    <2> HIDE DEF v, w, p2
    <2>1. t[d][y] = x /\ t[Opposite(d)][y] = NULL /\ d \in Sides /\ y \in M
          BY <1>2
    <2>2. Tree(t, M, N, pos) /\ Apart(M, pos) /\ Closed(M, pos, pos2, pos[y])
          BY <1>5
    <2>3. LET a == Replace(SetUp(t, x, t.up[y]), y, t.up[y], x)
          IN /\ \E e2 : Shape(a, M \ {y}, N - 1, pos2, e2)
             /\ Damaged(a, M \ {y}, x, t.up[y], t.color[y])
             /\ x \in (M \ {y}) \cup {NULL} /\ t.up[y] \in (M \ {y}) \cup {NULL}
             /\ a.color = t.color /\ Outside(a, M)
          BY <2>1, <2>2, UnlinkedTree
    <2> QED BY <1>4, <2>3
  <1>6. /\ M \subseteq Entries /\ M \subseteq Pointers /\ NULL \notin M
        /\ NULL \in Pointers /\ pos \in [Entries -> Int]
        BY <1>1, Numbers DEF Shape, Ghosts, Pointers
  <1> HIDE DEF w, v, p
  <1>7. CASE y = z
    <2> DEFINE pos2 == [pos3 EXCEPT ![z] = pos[z]]
    <2>1. Closed(M, pos, pos2, pos[y])
      <3>1. pos3 \in [Entries -> Int] /\ pos[z] \in Int
            BY <1>6 DEF Closed
      <3>2. pos2 \in [Entries -> Int] /\ pos2[z] = pos[z]
            /\ \A n \in M \ {z} : pos2[n] = pos3[n]
            BY <1>6, <3>1
      <3>3. ASSUME NEW n \in M
            PROVE  pos2[n] = IF pos[n] > pos[z] THEN pos[n] - 1 ELSE pos[n]
        <4> HIDE DEF pos2
        <4>1. CASE n = z
              BY <3>1, <3>2, <4>1
        <4>2. CASE n # z
              BY <3>2, <4>2 DEF Closed
        <4> QED BY <4>1, <4>2
      <3> HIDE DEF pos2
      <3> QED BY <1>7, <3>1, <3>2, <3>3 DEF Closed
    <2>2. pos3 \in [Entries -> Int] /\ \A n \in K : pos2[n] = pos3[n]
          BY <1>6, <1>7 DEF Closed
    <2> HIDE DEF pos2
    <2>3. PICK e2 : Shape(u, K, N - 1, pos2, e2)
          BY <1>5, <2>1
    <2>4. Shape(u, K, N - 1, pos3, e2)
      <3>1. Ghosts(K, N - 1, pos3, e2) /\ Root(u, K, N - 1, e2)
            BY <2>2, <2>3 DEF Shape, Ghosts
      <3>2. ASSUME NEW n \in K
            PROVE /\ Spans(N - 1, pos3, e2, n) /\ Up(u, K, n)
                  /\ \A s \in Sides : Kid(u, K, pos3, e2, n, s)
        <4>1. /\ Spans(N - 1, pos2, e2, n) /\ Up(u, K, n)
              /\ \A s \in Sides : Kid(u, K, pos2, e2, n, s)
              BY <2>3 DEF Shape
        <4> QED BY <2>2, <4>1 DEF Spans, Kid
      <3> QED BY <2>3, <3>1, <3>2 DEF Shape
    <2>5. /\ Damaged(u, K, x, p, t.color[y])
          /\ x \in K \cup {NULL} /\ p \in K \cup {NULL} /\ Outside(u, M)
          BY <1>5, <2>1
    <2>6. v = u /\ p2 = p /\ p \in Pointers
          BY <1>6, <1>7, <2>5 DEF v
    <2>7. Repaired(u, w, K, N - 1, pos3)
          BY <2>4, <2>5, <2>6, DamageRepaired DEF w
    <2>8. K = M \ {z} /\ K \cup {z} = M /\ z \in Entries \ K
          BY <1>6, <1>7
    <2> HIDE DEF K, p2
    <2>9. Outside(u, K \cup {z})
          BY <2>5, <2>8
    <2>10. Tree([w EXCEPT !.up[z] = NULL, !.left[z] = NULL, !.right[z] = NULL,
                          !.color[z] = "invalid"], K, N - 1, pos3)
      <3>1. z \in Entries \ K
            BY <2>8
      <3> QED BY <2>7, <2>9, <3>1, Cleared
    <2> QED BY <1>3, <2>8, <2>10
  <1>8. CASE y # z
    <2>1. PICK pos2 : /\ Closed(M, pos, pos2, pos[y])
                      /\ \A n \in K : pos3[Now(z, y, n)] = pos2[n]
      <3> HIDE DEF p2
      <3>1. Follows(pos, z, y) /\ y \in M
            BY <1>2, <1>8 DEF Follows
      <3>2. pos \in [Entries -> Int] /\ M \subseteq Entries
            BY <1>6
      <3>3. z \in M /\ Apart(M, pos) /\ Closed(M \ {z}, pos, pos3, pos[z])
            OBVIOUS
      <3>4. \E pos2 : /\ Closed(M, pos, pos2, pos[y])
                      /\ \A n \in M \ {y} : pos3[Now(z, y, n)] = pos2[n]
            BY <3>1, <3>2, <3>3, MovedPositions
      <3> QED BY <3>4
    <2>2. PICK e2 : Shape(u, K, N - 1, pos2, e2)
          BY <1>5, <2>1
    <2>3. /\ Damaged(u, K, x, p, t.color[y])
          /\ x \in K \cup {NULL} /\ p \in K \cup {NULL} /\ Outside(u, M)
          BY <1>5, <2>1
    <2>4. x # z
      <3>1. ASSUME x = z PROVE FALSE
        <4>1. t[d][y] # NULL /\ d = "right" /\ z # NULL
              BY <1>2, <1>6, <1>8, <3>1 DEF Sides
        <4>2. e["left"][z] = pos[y] + 1
          <5>1. e[Opposite(d)][z] = pos[y] + Near(d)
                BY <1>1, <1>2, <3>1, <4>1, KidOf
          <5> QED BY <4>1, <5>1 DEF Near, Opposite
        <4>3. e["left"][z] <= pos[z] /\ pos[z] \in Int
              BY <1>1, Numbers
        <4> QED BY <1>2, <1>8, <4>2, <4>3
      <3> QED BY <3>1
    <2>5. z \in K /\ y \in Entries \ K
          BY <1>2, <1>6, <1>8
    <2>6. v = TakePlace(u, z, y)
          BY <1>8 DEF v
    <2>7. /\ Renamed(u, v, K, z, y)
          /\ \A n \in Pointers \ (K \cup {y}) : \A s \in Sides : v[s][n] = u[s][n]
          BY <2>2, <2>5, <2>6, PlaceTaken
    <2>8. pos3 \in [Entries -> Int]
          BY DEF Closed
    <2>9. PICK e3 : Shape(v, Others(K, z, y), N - 1, pos3, e3)
          BY <2>1, <2>2, <2>5, <2>7, <2>8, RenamedShape
    <2>10. Damaged(v, Others(K, z, y), x, Now(z, y, p), t.color[y])
           BY <2>2, <2>3, <2>4, <2>5, <2>7, RenamedDamaged
    <2>11. Now(z, y, p) = p2 /\ Others(K, z, y) = M \ {z}
           BY <1>2, <1>8, <2>5 DEF Now, Others
    <2>12. /\ p2 \in Pointers /\ x \in (M \ {z}) \cup {NULL}
           BY <1>2, <1>6, <2>3, <2>4
    <2>13. Repaired(v, w, M \ {z}, N - 1, pos3)
      <3> HIDE DEF p2, K
      <3>1. Shape(v, M \ {z}, N - 1, pos3, e3) /\ Damaged(v, M \ {z}, x, p2, t.color[y])
            BY <2>9, <2>10, <2>11
      <3> QED BY <2>12, <3>1, DamageRepaired DEF w
    <2>14. Outside(v, M)
      <3>1. \A n \in Pointers \ M : \A s \in Sides : v[s][n] = u[s][n]
            BY <1>2, <2>7
      <3> QED BY <2>3, <3>1 DEF Outside
    <2>15. (M \ {z}) \cup {z} = M /\ z \in Entries \ (M \ {z})
           BY <1>6
    <2> HIDE DEF p2
    <2>16. Outside(v, (M \ {z}) \cup {z})
           BY <2>14, <2>15
    <2>17. Tree([w EXCEPT !.up[z] = NULL, !.left[z] = NULL, !.right[z] = NULL,
                          !.color[z] = "invalid"], M \ {z}, N - 1, pos3)
      <3>1. z \in Entries \ (M \ {z})
            BY <2>15
      <3> QED BY <2>13, <2>16, <3>1, Cleared
    <2> QED BY <1>3, <2>17
  <1> QED BY <1>7, <1>8

(***************************************************************************)
(* What the properties read in a tree                                      *)
(***************************************************************************)
(* l is the list of the entries of the tree t, at the positions pos.       *)
Lists(t, l, pos) ==
  /\ l \in Seq(Entries) /\ IsInjective(l)
  /\ \A i \in 1 .. Len(l) : pos[l[i]] = i
  /\ Tree(t, ToSet(l), Len(l), pos)

(* What a list of the entries says of positions. *)
LEMMA ListPositions ==
  ASSUME NEW t, NEW l, NEW pos, Lists(t, l, pos)
  PROVE  /\ Len(l) \in Nat /\ Apart(ToSet(l), pos)
         /\ \A i \in 1 .. Len(l) : l[i] \in ToSet(l) /\ pos[l[i]] = i
         /\ \A n \in ToSet(l) : pos[n] \in 1 .. Len(l) /\ l[pos[n]] = n
  <1>1. l \in Seq(Entries) /\ \A i \in 1 .. Len(l) : pos[l[i]] = i
        BY DEF Lists
  <1>2. ToSet(l) = {l[i] : i \in 1 .. Len(l)} /\ Len(l) \in Nat
        BY <1>1, ElementsOf
  <1>3. \A n \in ToSet(l) : \E i \in 1 .. Len(l) : n = l[i]
        BY <1>2
  <1>4. \A n \in ToSet(l) : pos[n] \in 1 .. Len(l) /\ l[pos[n]] = n
        BY <1>1, <1>3
  <1>5. Apart(ToSet(l), pos)
        BY <1>4 DEF Apart
  <1> QED BY <1>1, <1>2, <1>4, <1>5

(* A function that is determined below each entry is the same below all. *)
Rises(t, M, f, g) ==
  /\ f[NULL] = g[NULL]
  /\ \A n \in M : (\A s \in Sides : f[t[s][n]] = g[t[s][n]]) => f[n] = g[n]

(* Two functions that rise the same way are the same. *)
LEMMA SameBelow ==
  ASSUME NEW t, NEW M, NEW N, NEW pos, NEW e, Shape(t, M, N, pos, e),
         NEW f, NEW g, Rises(t, M, f, g)
  PROVE  \A n \in M \cup {NULL} : f[n] = g[n]
  <1> DEFINE Bad == {n \in M : f[n] # g[n]}
             T == {Size(e, n) : n \in Bad}
  <1>1. \A n \in M : Size(e, n) \in Nat
        BY Numbers
  <1>2. ASSUME Bad # {} PROVE FALSE
    <2>1. T \subseteq Nat /\ T # {}
          BY <1>1, <1>2
    <2>2. PICK k \in T : \A j \in T : k <= j
      <3> HIDE DEF T
      <3> QED BY <2>1, MinOfNaturals
    <2>3. PICK n \in Bad : k = Size(e, n)
          BY <2>2
    <2>4. ASSUME NEW s \in Sides PROVE f[t[s][n]] = g[t[s][n]]
      <3>1. CASE t[s][n] = NULL
            BY <3>1 DEF Rises
      <3>2. CASE t[s][n] # NULL
        <4>1. t[s][n] \in M /\ Size(e, t[s][n]) < Size(e, n)
              BY <3>2, KidOf
        <4>2. t[s][n] \notin Bad
          <5>1. ASSUME t[s][n] \in Bad PROVE FALSE
            <6>1. k <= Size(e, t[s][n])
                  BY <2>2, <5>1
            <6> QED BY <1>1, <2>3, <4>1, <6>1
          <5> QED BY <5>1
        <4> QED BY <4>1, <4>2
      <3> QED BY <3>1, <3>2
    <2> QED BY <2>3, <2>4 DEF Rises
  <1> QED BY <1>2 DEF Rises

(* The parts of a list on both sides of a place. *)
LEMMA Joined ==
  ASSUME NEW S, NEW l \in Seq(S), NEW a \in Int, NEW p \in Int, NEW b \in Int,
         1 <= a, a <= p, p <= b, b <= Len(l)
  PROVE  SubSeq(l, a, p - 1) \o <<l[p]>> \o SubSeq(l, p + 1, b) = SubSeq(l, a, b)
  <1> DEFINE A == SubSeq(l, a, p - 1)
             B == A \o <<l[p]>>
             C == SubSeq(l, p + 1, b)
             D == SubSeq(l, a, b)
  <1>0. Len(l) \in Nat /\ \A i \in 1 .. Len(l) : l[i] \in S
        BY LenProperties, ElementOfSeq
  <1>1. A \in Seq(S) /\ Len(A) = p - a /\ \A i \in 1 .. p - a : A[i] = l[a + i - 1]
    <2>1. \A i \in a .. p - 1 : l[i] \in S
          BY <1>0
    <2>2. /\ A \in Seq(S) /\ Len(A) = IF a <= p - 1 THEN (p - 1) - a + 1 ELSE 0
          /\ \A i \in 1 .. (p - 1) - a + 1 : A[i] = l[a + i - 1]
          BY <2>1, SubSeqProperties
    <2>3. (p - 1) - a + 1 = p - a /\ (~(a <= p - 1) => p - a = 0)
          OBVIOUS
    <2> HIDE DEF A
    <2> QED BY <2>2, <2>3
  <1>2. C \in Seq(S) /\ Len(C) = b - p /\ \A i \in 1 .. b - p : C[i] = l[p + i]
    <2>1. \A i \in p + 1 .. b : l[i] \in S
          BY <1>0
    <2>2. /\ C \in Seq(S) /\ Len(C) = IF p + 1 <= b THEN b - (p + 1) + 1 ELSE 0
          /\ \A i \in 1 .. b - (p + 1) + 1 : C[i] = l[(p + 1) + i - 1]
          BY <2>1, SubSeqProperties
    <2>3. b - (p + 1) + 1 = b - p /\ (~(p + 1 <= b) => b - p = 0)
          OBVIOUS
    <2>4. \A i \in 1 .. b - p : (p + 1) + i - 1 = p + i
          OBVIOUS
    <2> HIDE DEF C
    <2> QED BY <2>2, <2>3, <2>4
  <1>3. D \in Seq(S) /\ Len(D) = b - a + 1 /\ \A i \in 1 .. b - a + 1 : D[i] = l[a + i - 1]
    <2>1. \A i \in a .. b : l[i] \in S
          BY <1>0
    <2>2. a <= b
          OBVIOUS
    <2> QED BY <2>1, <2>2, SubSeqProperties
  <1>4. l[p] \in S
        BY <1>0
  <1> HIDE DEF A, C, D
  <1>5. /\ B \in Seq(S) /\ Len(B) = p - a + 1
        /\ \A i \in 1 .. p - a + 1 : B[i] = IF i <= p - a THEN A[i] ELSE l[p]
    <2>1. <<l[p]>> \in Seq(S) /\ Len(<<l[p]>>) = 1 /\ <<l[p]>>[1] = l[p]
          BY <1>4
    <2> DEFINE O == <<l[p]>>
    <2>2. O \in Seq(S) /\ Len(O) = 1 /\ O[1] = l[p]
          BY <2>1
    <2> HIDE DEF O
    <2>3. /\ A \o O \in Seq(S) /\ Len(A \o O) = Len(A) + Len(O)
          /\ \A i \in 1 .. Len(A) + Len(O) :
               (A \o O)[i] = IF i <= Len(A) THEN A[i] ELSE O[i - Len(A)]
          BY <1>1, <2>2, ConcatProperties
    <2>4. \A i \in 1 .. p - a + 1 : ~(i <= p - a) => i - (p - a) = 1
          OBVIOUS
    <2>5. B = A \o O
          BY DEF O
    <2> HIDE DEF B
    <2> QED BY <1>1, <2>2, <2>3, <2>4, <2>5
  <1> HIDE DEF B
  <1>6. /\ B \o C \in Seq(S) /\ Len(B \o C) = Len(B) + Len(C)
        /\ \A i \in 1 .. Len(B) + Len(C) :
             (B \o C)[i] = IF i <= Len(B) THEN B[i] ELSE C[i - Len(B)]
        BY <1>2, <1>5, ConcatProperties
  <1>7. Len(B \o C) = Len(D)
        BY <1>2, <1>3, <1>5, <1>6
  <1>8. ASSUME NEW i \in 1 .. Len(D) PROVE (B \o C)[i] = D[i]
    <2>1. i \in Int /\ 1 <= i /\ i <= b - a + 1 /\ D[i] = l[a + i - 1]
          BY <1>3
    <2>2. CASE i <= p - a
      <3>1. (B \o C)[i] = A[i]
            BY <1>2, <1>5, <1>6, <2>1, <2>2
      <3>2. A[i] = l[a + i - 1]
            BY <1>1, <2>1, <2>2
      <3> QED BY <2>1, <3>1, <3>2
    <2>3. CASE ~(i <= p - a) /\ i <= p - a + 1
      <3>1. (B \o C)[i] = B[i] /\ B[i] = l[p]
            BY <1>2, <1>5, <1>6, <2>1, <2>3
      <3>2. a + i - 1 = p
            BY <2>1, <2>3
      <3> QED BY <2>1, <3>1, <3>2
    <2>4. CASE ~(i <= p - a + 1)
      <3>1. (B \o C)[i] = C[i - (p - a + 1)]
            BY <1>2, <1>5, <1>6, <2>1, <2>4
      <3>2. C[i - (p - a + 1)] = l[p + (i - (p - a + 1))]
            BY <1>2, <2>1, <2>4
      <3>3. p + (i - (p - a + 1)) = a + i - 1
            BY <2>1
      <3> QED BY <2>1, <3>1, <3>2, <3>3
    <2> QED BY <2>1, <2>2, <2>3, <2>4
  <1>9. B \o C = D
        BY <1>3, <1>6, <1>7, <1>8, SeqEqual
  <1> QED BY <1>9 DEF B, A, C, D

(* The walk of a tree meets the entries of its list, in their order. *)
LEMMA Walked ==
  ASSUME NEW t, NEW l, NEW pos, Lists(t, l, pos)
  PROVE  InOrder(t) = l
  <1> DEFINE M == ToSet(l)
             N == Len(l)
             G(f) == [n \in Pointers |-> IF n = NULL THEN <<>>
                        ELSE f[t.left[n]] \o <<n>> \o f[t.right[n]]]
             f == CHOOSE h : h = G(h)
  <1>1. PICK e : Shape(t, M, N, pos, e)
        BY DEF Lists, Tree
  <1> DEFINE W == [n \in Pointers |-> IF n = NULL THEN <<>>
                     ELSE IF n \in M THEN SubSeq(l, e["left"][n], e["right"][n])
                     ELSE <<n>>]
  <1>2. /\ t \in TreeRecords /\ NULL \in Pointers /\ NULL \notin M
        /\ M \subseteq Pointers /\ l \in Seq(Entries) /\ N \in Nat
        BY <1>1, Numbers, ListPositions DEF Shape, Lists, Pointers
  <1>3. \A n \in Pointers \ M : t.left[n] = NULL /\ t.right[n] = NULL
        BY DEF Lists, Tree, Outside, Sides
  <1>4. \A n \in Pointers : t.left[n] \in Pointers /\ t.right[n] \in Pointers
        BY <1>2 DEF TreeRecords
  <1>5. ASSUME NEW n \in M
        PROVE  /\ e["left"][n] \in Int /\ e["right"][n] \in Int /\ pos[n] \in Int
               /\ 1 <= e["left"][n] /\ e["left"][n] <= pos[n]
               /\ pos[n] <= e["right"][n] /\ e["right"][n] <= N
               /\ l[pos[n]] = n
    <2>1. l[pos[n]] = n
          BY ListPositions
    <2>2. "left" \in Sides /\ "right" \in Sides
          BY DEF Sides
    <2>3. /\ pos[n] \in Int /\ \A d \in Sides : e[d][n] \in Int
          /\ e["left"][n] <= pos[n] /\ pos[n] <= e["right"][n]
          /\ 1 <= e["left"][n] /\ e["right"][n] <= N
          BY <1>1, Numbers
    <2> QED BY <2>1, <2>2, <2>3
  <1>6. /\ W[NULL] = <<>>
        /\ \A n \in M : W[n] = SubSeq(l, e["left"][n], e["right"][n])
        /\ \A n \in Pointers \ M : n # NULL => W[n] = <<n>>
        BY <1>2
  <1> HIDE DEF W
  <1>7. ASSUME NEW n \in M
        PROVE  /\ W[t.left[n]] = SubSeq(l, e["left"][n], pos[n] - 1)
               /\ W[t.right[n]] = SubSeq(l, pos[n] + 1, e["right"][n])
    <2>1. ASSUME t.left[n] = NULL PROVE W[t.left[n]] = SubSeq(l, e["left"][n], pos[n] - 1)
      <3>1. e["left"][n] = pos[n]
        <4>1. Kid(t, M, pos, e, n, "left")
              BY <1>1 DEF Shape, Sides
        <4> QED BY <2>1, <4>1 DEF Kid
      <3>2. SubSeq(l, e["left"][n], pos[n] - 1) = <<>>
            BY <1>5, <3>1, SubSeqEmpty
      <3> QED BY <1>6, <2>1, <3>2
    <2>2. ASSUME t.left[n] # NULL PROVE W[t.left[n]] = SubSeq(l, e["left"][n], pos[n] - 1)
      <3> DEFINE c == t["left"][n]
      <3>1. Kid(t, M, pos, e, n, "left")
            BY <1>1 DEF Shape, Sides
      <3>2. c \in M /\ e["left"][c] = e["left"][n]
            /\ e["right"][c] = pos[n] + Near("left")
            BY <2>2, <3>1 DEF Kid, Opposite
      <3>3. pos[n] + Near("left") = pos[n] - 1
            BY <1>5 DEF Near
      <3>4. W[c] = SubSeq(l, e["left"][c], e["right"][c])
            BY <1>6, <3>2
      <3> QED BY <3>2, <3>3, <3>4
    <2>3. ASSUME t.right[n] = NULL PROVE W[t.right[n]] = SubSeq(l, pos[n] + 1, e["right"][n])
      <3>1. e["right"][n] = pos[n]
        <4>1. Kid(t, M, pos, e, n, "right")
              BY <1>1 DEF Shape, Sides
        <4> QED BY <2>3, <4>1 DEF Kid
      <3>2. SubSeq(l, pos[n] + 1, e["right"][n]) = <<>>
            BY <1>5, <3>1, SubSeqEmpty
      <3> QED BY <1>6, <2>3, <3>2
    <2>4. ASSUME t.right[n] # NULL PROVE W[t.right[n]] = SubSeq(l, pos[n] + 1, e["right"][n])
      <3> DEFINE c == t["right"][n]
      <3>1. Kid(t, M, pos, e, n, "right")
            BY <1>1 DEF Shape, Sides
      <3>2. c \in M /\ e["right"][c] = e["right"][n]
            /\ e["left"][c] = pos[n] + Near("right")
            BY <2>4, <3>1 DEF Kid, Opposite
      <3>3. pos[n] + Near("right") = pos[n] + 1
            BY <1>5 DEF Near
      <3>4. W[c] = SubSeq(l, e["left"][c], e["right"][c])
            BY <1>6, <3>2
      <3> QED BY <3>2, <3>3, <3>4
    <2> QED BY <2>1, <2>2, <2>3, <2>4
  <1>8. ASSUME NEW n \in M
        PROVE  W[n] = W[t.left[n]] \o <<n>> \o W[t.right[n]]
    <2>1. SubSeq(l, e["left"][n], pos[n] - 1) \o <<l[pos[n]]>>
            \o SubSeq(l, pos[n] + 1, e["right"][n])
          = SubSeq(l, e["left"][n], e["right"][n])
      <3> HIDE DEF G, f, M
      <3>1. /\ e["left"][n] \in Int /\ e["right"][n] \in Int /\ pos[n] \in Int
            /\ 1 <= e["left"][n] /\ e["left"][n] <= pos[n]
            /\ pos[n] <= e["right"][n] /\ e["right"][n] <= Len(l)
            BY <1>5
      <3>2. l \in Seq(Entries)
            BY <1>2
      <3> QED BY <3>1, <3>2, Joined
    <2> QED BY <1>5, <1>6, <1>7, <2>1
  <1>9. ASSUME NEW n \in Pointers
        PROVE  W[n] = IF n = NULL THEN <<>>
                      ELSE W[t.left[n]] \o <<n>> \o W[t.right[n]]
    <2>1. CASE n \in M
          BY <1>2, <1>8, <2>1
    <2>2. CASE n = NULL
          BY <1>6, <2>2
    <2>3. CASE n \notin M /\ n # NULL
      <3>1. W[n] = <<n>> /\ W[t.left[n]] = <<>> /\ W[t.right[n]] = <<>>
            BY <1>3, <1>6, <2>3
      <3>2. <<n>> \in Seq(Pointers)
            OBVIOUS
      <3>3. <<>> \o <<n>> \o <<>> = <<n>>
            BY <3>2, ConcatEmptySeq
      <3> QED BY <2>3, <3>1, <3>3
    <2> QED BY <2>1, <2>2, <2>3
  <1>10. W = G(W)
    <2>1. W = [n \in Pointers |-> W[n]]
          BY DEF W
    <2> QED BY <1>9, <2>1
  <1>11. f = G(f)
    <2> HIDE DEF G
    <2> QED BY <1>10
  <1>12. InOrder(t) = f[t.root]
         BY DEF InOrder
  <1> HIDE DEF f
  <1>13. \A n \in Pointers : f[n] = IF n = NULL THEN <<>>
                               ELSE f[t.left[n]] \o <<n>> \o f[t.right[n]]
         BY <1>11
  <1>14. Rises(t, M, f, W)
    <2>1. f[NULL] = W[NULL]
          BY <1>2, <1>6, <1>13
    <2>2. ASSUME NEW n \in M, \A s \in Sides : f[t[s][n]] = W[t[s][n]]
          PROVE  f[n] = W[n]
      <3>1. f[t.left[n]] = W[t.left[n]] /\ f[t.right[n]] = W[t.right[n]]
            BY <2>2 DEF Sides
      <3>2. f[n] = f[t.left[n]] \o <<n>> \o f[t.right[n]]
            BY <1>2, <1>13
      <3> QED BY <1>8, <3>1, <3>2
    <2> QED BY <2>1, <2>2 DEF Rises
  <1>15. \A n \in M \cup {NULL} : f[n] = W[n]
    <2> HIDE DEF M, N
    <2> QED BY <1>1, <1>14, SameBelow
  <1>16. CASE t.root = NULL
    <2>1. N = 0
          BY <1>1, <1>16 DEF Shape, Root
    <2>2. l = <<>>
          BY <1>2, <2>1, ElementsOf
    <2> QED BY <1>6, <1>12, <1>15, <1>16, <2>2
  <1>17. CASE t.root # NULL
    <2>1. t.root \in M /\ e["left"][t.root] = 1 /\ e["right"][t.root] = N
          BY <1>1, <1>17 DEF Shape, Root
    <2>2. SubSeq(l, 1, N) = l
          BY <1>2, SubSeqFull
    <2> QED BY <1>6, <1>12, <1>15, <2>1, <2>2
  <1> QED BY <1>16, <1>17

(* The number of black entries does not depend on the path. *)
LEMMA BalancedTree ==
  ASSUME NEW M, NEW N, NEW pos, Tree(tree, M, N, pos), M = Members
  PROVE  Balanced
  <1> DEFINE Black(n) == IF tree.color[n] = "black" THEN 1 ELSE 0
             G(f) == [n \in Pointers |-> IF n = NULL THEN 1
                                         ELSE f[tree.left[n]] + Black(n)]
             f == CHOOSE h : h = G(h)
  <1>1. PICK e : Shape(tree, M, N, pos, e)
        BY DEF Tree
  <1>2. PICK b : Heights(tree, M, b, NULL, "left")
        BY DEF Tree
  <1> DEFINE H == [n \in Pointers |-> IF n = NULL THEN 1
                                      ELSE IF n \in M THEN b[n] ELSE 1 + Black(n)]
  <1>3. /\ tree \in TreeRecords /\ NULL \in Pointers /\ NULL \notin M
        /\ M \subseteq Pointers
        BY <1>1, Numbers DEF Shape, Pointers
  <1>4. \A n \in Pointers \ M : tree.left[n] = NULL
        BY DEF Tree, Outside, Sides
  <1>5. /\ b \in [Pointers -> Nat \ {0}] /\ b[NULL] = 1
        /\ \A n \in M : Even(tree, b, n, NULL, "left")
        BY <1>2 DEF Heights
  <1>6. \A n \in Pointers : Black(n) = Blacks(tree, n) /\ Black(n) \in {0, 1}
        BY DEF Blacks
  <1> HIDE DEF Black
  <1>7. /\ H[NULL] = 1 /\ \A n \in M : H[n] = b[n]
        /\ \A n \in Pointers \ M : n # NULL => H[n] = 1 + Black(n)
        BY <1>3
  <1>8. H = [n \in Pointers |-> H[n]]
        OBVIOUS
  <1> HIDE DEF H
  <1>9. ASSUME NEW n \in M, NEW s \in Sides
        PROVE  /\ b[n] = b[tree[s][n]] + Black(n) /\ b[tree[s][n]] \in Nat
               /\ tree[s][n] \in M \cup {NULL} /\ H[tree[s][n]] = b[tree[s][n]]
    <2>1. tree[s][n] \in M \cup {NULL}
      <3>1. tree[s][n] # NULL => tree[s][n] \in M
            BY <1>1, KidOf
      <3> QED BY <3>1
    <2>2. b[tree[s][n]] \in Nat /\ n # NULL
          BY <1>3, <1>5, <2>1
    <2>3. b[n] = b[tree[s][n]] + Blacks(tree, n)
                   + (IF n = NULL /\ s = "left" THEN 1 ELSE 0)
          BY <1>5 DEF Even
    <2>4. Blacks(tree, n) = Black(n) /\ Black(n) \in {0, 1}
          BY <1>3, <1>6
    <2>5. H[tree[s][n]] = b[tree[s][n]]
          BY <1>5, <1>7, <2>1
    <2> QED BY <2>1, <2>2, <2>3, <2>4, <2>5
  <1>10. \A n \in M : H[n] = H[tree.left[n]] + Black(n)
    <2>1. ASSUME NEW n \in M PROVE H[n] = H[tree.left[n]] + Black(n)
      <3>1. "left" \in Sides
            BY DEF Sides
      <3>2. b[n] = b[tree["left"][n]] + Black(n)
            /\ H[tree["left"][n]] = b[tree["left"][n]]
            BY <1>9, <3>1
      <3> QED BY <1>7, <3>2
    <2> QED BY <2>1
  <1>11. ASSUME NEW n \in Pointers
         PROVE  H[n] = IF n = NULL THEN 1 ELSE H[tree.left[n]] + Black(n)
    <2>1. CASE n = NULL
          BY <1>7, <2>1
    <2>2. CASE n \in M
          BY <1>3, <1>10, <2>2
    <2>3. CASE n \notin M /\ n # NULL
          BY <1>4, <1>7, <2>3
    <2> QED BY <2>1, <2>2, <2>3
  <1>12. H = G(H)
         BY <1>8, <1>11
  <1>13. f = G(f)
    <2> HIDE DEF G
    <2> QED BY <1>12
  <1>14. Balanced = \A m \in Members : f[tree.left[m]] = f[tree.right[m]]
         BY DEF Balanced, Black
  <1> HIDE DEF f
  <1>15. \A n \in Pointers : f[n] = IF n = NULL THEN 1 ELSE f[tree.left[n]] + Black(n)
         BY <1>13
  <1>16. Rises(tree, M, f, H)
    <2>1. f[NULL] = H[NULL]
          BY <1>3, <1>7, <1>15
    <2>2. ASSUME NEW n \in M, \A s \in Sides : f[tree[s][n]] = H[tree[s][n]]
          PROVE  f[n] = H[n]
      <3>1. f[tree.left[n]] = H[tree.left[n]]
            BY <2>2 DEF Sides
      <3>2. f[n] = f[tree.left[n]] + Black(n)
            BY <1>3, <1>15
      <3> QED BY <1>10, <3>1, <3>2
    <2> QED BY <2>1, <2>2 DEF Rises
  <1>17. \A n \in M \cup {NULL} : f[n] = H[n]
         BY <1>1, <1>16, SameBelow
  <1>18. ASSUME NEW m \in M PROVE f[tree.left[m]] = f[tree.right[m]]
    <2>1. "left" \in Sides /\ "right" \in Sides
          BY DEF Sides
    <2>2. /\ b[m] = b[tree["left"][m]] + Black(m)
          /\ b[m] = b[tree["right"][m]] + Black(m)
          /\ b[tree["left"][m]] \in Nat /\ b[tree["right"][m]] \in Nat
          /\ f[tree["left"][m]] = b[tree["left"][m]]
          /\ f[tree["right"][m]] = b[tree["right"][m]]
          BY <1>9, <1>17, <2>1
    <2>3. Black(m) \in Nat
          BY <1>3, <1>6
    <2>4. b[tree["left"][m]] = b[tree["right"][m]]
          BY <2>2, <2>3
    <2> QED BY <2>2, <2>4
  <1> QED BY <1>14, <1>18

(* What __itree_check asserts. *)
LEMMA CheckedTree ==
  ASSUME NEW M, NEW N, NEW pos, Tree(tree, M, N, pos), M = Members
  PROVE  RedBlack
  <1>1. PICK e : Shape(tree, M, N, pos, e)
        BY DEF Tree
  <1>2. Colors(tree, M, NULL, NULL)
        BY DEF Tree
  <1>3. NULL \notin M
        BY <1>1, Numbers
  <1>4. Color(tree, NULL) = "black"
        BY DEF Color
  <1>5. Color(tree, tree.root) = "black"
        BY <1>2, <1>4 DEF Colors
  <1>6. ASSUME NEW m \in M
        PROVE  /\ tree.color[m] # "invalid"
               /\ tree.color[m] = "red" =>
                    \A d \in Sides : Color(tree, tree[d][m]) = "black"
               /\ \A d \in Sides : tree[d][m] # NULL =>
                    tree[d][m] \in M /\ tree.up[tree[d][m]] = m
    <2>1. tree.color[m] \in {"red", "black"} /\ Calm(tree, m, NULL, NULL)
          BY <1>2 DEF Colors
    <2>2. \A d \in Sides : tree[d][m] # NULL =>
                    tree[d][m] \in M /\ tree.up[tree[d][m]] = m
          BY <1>1, KidOf
    <2> QED BY <1>3, <1>4, <2>1, <2>2 DEF Calm
  <1>7. tree.root # NULL => tree.up[tree.root] = NULL
        BY <1>1 DEF Shape, Root
  <1>8. Balanced
        BY BalancedTree
  <1> QED BY <1>5, <1>6, <1>7, <1>8 DEF RedBlack

(* The end of the empty tree. *)
LEMMA ExtremeOfNone ==
  ASSUME NEW t \in TreeRecords, NEW d \in Sides, t[d][NULL] = NULL
  PROVE  Extreme(t, NULL, d) = NULL
  <1> DEFINE S == Pointers
             Stop == {n \in S : t[d][n] = NULL}
             g == [n \in S |-> n]
             next == [n \in S |-> t[d][n]]
             G(f) == [n \in Pointers |-> IF t[d][n] = NULL THEN n ELSE f[t[d][n]]]
             f == CHOOSE h : h = G(h)
  <1>1. \A h : IsLoop(S, Stop, g, next, h) <=> h = G(h)
    <2>1. ASSUME NEW h
          PROVE  [n \in S |-> IF n \in Stop THEN g[n] ELSE h[next[n]]] = G(h)
          OBVIOUS
    <2> HIDE DEF S, Stop, g, next, G
    <2> QED BY <2>1 DEF IsLoop
  <1>2. Loops(S, Stop, next)
    <2>1. \A n \in S : t[d][n] \in S
          BY Links
    <2> QED BY <2>1 DEF Loops
  <1>3. f = G(f)
    <2> HIDE DEF S, Stop, g, next, G
    <2>1. \E h : IsLoop(S, Stop, g, next, h)
          BY <1>2, LoopExists
    <2> QED BY <1>1, <2>1
  <1>4. Extreme(t, NULL, d) = f[NULL]
        BY DEF Extreme
  <1> HIDE DEF f
  <1> QED BY <1>3, <1>4 DEF Pointers

(* next and prev walk the list of the tree, from end to end. *)
LEMMA WalkedBothWays ==
  ASSUME NEW l, NEW pos, Lists(tree, l, pos)
  PROVE  WalkBothWays
  <1> DEFINE M == ToSet(l)
             N == Len(l)
  <1>1. PICK e : Shape(tree, M, N, pos, e)
        BY DEF Lists, Tree
  <1>2. InOrder(tree) = l
        BY Walked
  <1>3. /\ N \in Nat /\ l \in Seq(Entries) /\ tree \in TreeRecords
        /\ \A i \in 1 .. N : l[i] \in M /\ pos[l[i]] = i
        /\ \A n \in M : pos[n] \in 1 .. N /\ l[pos[n]] = n
        BY <1>1, ListPositions DEF Lists, Shape
  <1>4. l = <<>> <=> N = 0
        BY <1>3, ElementsOf
  <1>5. NULL \notin M /\ NULL \in Pointers
        BY <1>1, Numbers DEF Pointers
  <1> HIDE DEF M, N
  <1>6. First(tree) = IF l = <<>> THEN NULL ELSE l[1]
    <2>1. CASE tree.root = NULL
      <3>1. N = 0 /\ tree["left"][NULL] = NULL /\ "left" \in Sides
            BY <1>1, <1>5, <2>1 DEF Shape, Root, Lists, Tree, Outside, Sides, M
      <3> QED BY <1>3, <1>4, <2>1, <3>1, ExtremeOfNone DEF First
    <2>2. CASE tree.root # NULL
      <3>1. tree.root \in M /\ e["left"][tree.root] = 1 /\ "left" \in Sides
            BY <1>1, <2>2 DEF Shape, Root, Sides
      <3>2. First(tree) \in M /\ pos[First(tree)] = 1
            BY <1>1, <3>1, ExtremeFound DEF First
      <3> QED BY <1>3, <1>4, <3>2
    <2> QED BY <2>1, <2>2
  <1>7. ASSUME NEW i \in 1 .. N
        PROVE  /\ Successor(tree, l[i]) = IF i = N THEN NULL ELSE l[i + 1]
               /\ Predecessor(tree, l[i]) = IF i = 1 THEN NULL ELSE l[i - 1]
    <2>1. l[i] \in M /\ pos[l[i]] = i /\ i \in Int /\ 1 <= i /\ i <= N
          BY <1>3
    <2>2. ASSUME NEW d \in Sides
          PROVE  \/ StepTo(tree, l[i], d) = NULL /\ i = EndOf(N, d)
                 \/ /\ i + Near(d) \in 1 .. N
                    /\ StepTo(tree, l[i], d) = l[i + Near(d)]
                    /\ StepTo(tree, l[i], d) # NULL
      <3>1. \/ StepTo(tree, l[i], d) = NULL /\ pos[l[i]] = EndOf(N, d)
            \/ StepTo(tree, l[i], d) \in M /\ pos[StepTo(tree, l[i], d)] = pos[l[i]] + Near(d)
            BY <1>1, <2>1, Stepped
      <3> QED BY <1>3, <1>5, <2>1, <3>1
    <2>3. "left" \in Sides /\ "right" \in Sides
          BY DEF Sides
    <2>4. Successor(tree, l[i]) = IF i = N THEN NULL ELSE l[i + 1]
      <3>1. \/ Successor(tree, l[i]) = NULL /\ i = N
            \/ i + 1 \in 1 .. N /\ Successor(tree, l[i]) = l[i + 1]
            BY <2>2, <2>3 DEF Successor, EndOf, Near
      <3> QED BY <1>3, <2>1, <3>1
    <2>5. Predecessor(tree, l[i]) = IF i = 1 THEN NULL ELSE l[i - 1]
      <3>1. \/ Predecessor(tree, l[i]) = NULL /\ i = 1
            \/ i + (-1) \in 1 .. N /\ Predecessor(tree, l[i]) = l[i + (-1)]
            BY <2>2, <2>3 DEF Predecessor, EndOf, Near
      <3>2. i + (-1) = i - 1
            BY <2>1
      <3> QED BY <1>3, <2>1, <3>1, <3>2
    <2> QED BY <2>4, <2>5
  <1> QED BY <1>2, <1>6, <1>7 DEF WalkBothWays, N

(* The state of the search for k: n is the root of the entries from lo to  *)
(* hi, those before have smaller keys; ret, the first match so far, comes  *)
(* next after hi, and without a match those after have larger keys.        *)
Searching(M, N, pos, e, k, n, ret, lo, hi) ==
  /\ lo \in Int /\ hi \in Int /\ hi >= lo - 1
  /\ n \in M => e["left"][n] = lo /\ e["right"][n] = hi
  /\ n \notin M => n = NULL /\ hi = lo - 1
  /\ \A m \in M : pos[m] < lo => keyOf[m] < k
  /\ ret = NULL => \A m \in M : pos[m] > hi => keyOf[m] > k
  /\ ret # NULL => ret \in M /\ keyOf[ret] = k /\ pos[ret] = hi + 1

(* The loop of search goes down on the left from a match. *)
Turn(k, n) == IF k > keyOf[n] THEN "right" ELSE "left"
Match(k, n, ret) == IF k = keyOf[n] THEN n ELSE ret

(* A turn of the search keeps what it knows, on fewer entries. *)
LEMMA SearchStep ==
  ASSUME NEW t, NEW M, NEW N, NEW pos, NEW e, Shape(t, M, N, pos, e),
         keyOf \in [Entries -> Nat], NEW k \in Nat, Sorted(M, pos),
         NEW n \in M, NEW ret, NEW lo, NEW hi,
         Searching(M, N, pos, e, k, n, ret, lo, hi)
  PROVE  \E lo2, hi2 :
           /\ Searching(M, N, pos, e, k, t[Turn(k, n)][n], Match(k, n, ret), lo2, hi2)
           /\ hi2 - lo2 < hi - lo
  <1> DEFINE d == Turn(k, n)
             c == t[d][n]
             r == Match(k, n, ret)
             lo2 == IF d = "right" THEN pos[n] + 1 ELSE lo
             hi2 == IF d = "right" THEN hi ELSE pos[n] - 1
  <1>1. /\ \A m \in M : pos[m] \in Int /\ keyOf[m] \in Nat
        /\ e["left"][n] <= pos[n] /\ pos[n] <= e["right"][n]
        /\ NULL \notin M
    <2>1. \A m \in M : m \in Entries /\ pos[m] \in Int
          BY Numbers
    <2> QED BY <2>1, Numbers
  <1>2. /\ lo \in Int /\ hi \in Int /\ e["left"][n] = lo /\ e["right"][n] = hi
        /\ \A m \in M : pos[m] < lo => keyOf[m] < k
        /\ ret = NULL => \A m \in M : pos[m] > hi => keyOf[m] > k
        /\ ret # NULL => ret \in M /\ keyOf[ret] = k /\ pos[ret] = hi + 1
        BY DEF Searching
  <1>3. pos[n] \in Int /\ lo <= pos[n] /\ pos[n] <= hi /\ keyOf[n] \in Nat
        BY <1>1, <1>2
  <1>4. d \in Sides
        BY DEF Turn, Sides
  <1>5. /\ c = NULL => e[d][n] = pos[n]
        /\ c # NULL => c \in M /\ e[d][c] = e[d][n]
                       /\ e[Opposite(d)][c] = pos[n] + Near(d)
        BY <1>4 DEF Shape, Kid
  <1>6. \A m \in M : pos[m] <= pos[n] => keyOf[m] <= keyOf[n]
        BY DEF Sorted
  <1>7. \A m \in M : pos[n] <= pos[m] => keyOf[n] <= keyOf[m]
        BY DEF Sorted
  <1> HIDE DEF c
  <1>8. CASE k > keyOf[n]
    <2>1. d = "right" /\ r = ret /\ lo2 = pos[n] + 1 /\ hi2 = hi
          BY <1>3, <1>8 DEF Turn, Match
    <2> HIDE DEF d, r, lo2, hi2
    <2>2. c \in M => e["left"][c] = lo2 /\ e["right"][c] = hi2
          BY <1>1, <1>2, <1>5, <2>1 DEF Opposite, Near
    <2>3. c \notin M => c = NULL /\ hi2 = lo2 - 1
          BY <1>2, <1>3, <1>5, <2>1
    <2>4. \A m \in M : pos[m] < lo2 => keyOf[m] < k
          BY <1>1, <1>3, <1>6, <1>8, <2>1
    <2>5. /\ r = NULL => \A m \in M : pos[m] > hi2 => keyOf[m] > k
          /\ r # NULL => r \in M /\ keyOf[r] = k /\ pos[r] = hi2 + 1
          BY <1>2, <2>1
    <2>6. lo2 \in Int /\ hi2 \in Int /\ hi2 >= lo2 - 1 /\ hi2 - lo2 < hi - lo
          BY <1>2, <1>3, <2>1
    <2>7. Searching(M, N, pos, e, k, c, r, lo2, hi2)
          BY <2>2, <2>3, <2>4, <2>5, <2>6 DEF Searching
    <2> QED BY <2>6, <2>7 DEF d, c, r
  <1>9. CASE ~(k > keyOf[n])
    <2>1. d = "left" /\ lo2 = lo /\ hi2 = pos[n] - 1
          /\ r = IF k = keyOf[n] THEN n ELSE ret
          BY <1>9 DEF Turn, Match
    <2> HIDE DEF d, r, lo2, hi2
    <2>2. c \in M => e["left"][c] = lo2 /\ e["right"][c] = hi2
          BY <1>1, <1>2, <1>3, <1>5, <2>1 DEF Opposite, Near
    <2>3. c \notin M => c = NULL /\ hi2 = lo2 - 1
          BY <1>2, <1>3, <1>5, <2>1
    <2>4. \A m \in M : pos[m] < lo2 => keyOf[m] < k
          BY <1>2, <2>1
    <2>5. /\ r = NULL => \A m \in M : pos[m] > hi2 => keyOf[m] > k
          /\ r # NULL => r \in M /\ keyOf[r] = k /\ pos[r] = hi2 + 1
      <3>1. CASE k = keyOf[n]
            BY <1>1, <1>3, <2>1, <3>1
      <3>2. CASE k # keyOf[n]
        <4>1. k < keyOf[n] /\ r = ret
              BY <1>3, <1>9, <2>1, <3>2
        <4>2. ret = NULL
          <5>1. ASSUME ret # NULL PROVE FALSE
            <6>1. ret \in M /\ keyOf[ret] = k /\ pos[n] <= pos[ret]
                  BY <1>2, <1>3, <5>1
            <6> QED BY <1>3, <1>7, <4>1, <6>1
          <5> QED BY <5>1
        <4>3. \A m \in M : pos[m] > hi2 => keyOf[m] > k
              BY <1>1, <1>3, <1>7, <2>1, <4>1
        <4> QED BY <4>1, <4>2, <4>3
      <3> QED BY <3>1, <3>2
    <2>6. lo2 \in Int /\ hi2 \in Int /\ hi2 >= lo2 - 1 /\ hi2 - lo2 < hi - lo
          BY <1>2, <1>3, <2>1
    <2>7. Searching(M, N, pos, e, k, c, r, lo2, hi2)
          BY <2>2, <2>3, <2>4, <2>5, <2>6 DEF Searching
    <2> QED BY <2>6, <2>7 DEF d, c, r
  <1> QED BY <1>8, <1>9

(* r is the first entry with the key k, or NULL. *)
FirstMatch(M, pos, k, r) ==
  \/ r = NULL /\ \A m \in M : keyOf[m] # k
  \/ /\ r \in M /\ keyOf[r] = k
     /\ \A m \in M : pos[m] < pos[r] => keyOf[m] # k

(* A search comes to the first entry with the key. *)
LEMMA SearchedDown ==
  ASSUME NEW t, NEW M, NEW N, NEW pos, NEW e, Shape(t, M, N, pos, e),
         keyOf \in [Entries -> Nat], NEW k \in Nat, Sorted(M, pos)
  PROVE  FirstMatch(M, pos, k, Search(t, k))
  <1> DEFINE S == Pointers \X Pointers
             Stop == {s \in S : s[1] = NULL}
             g == [s \in S |-> s[2]]
             next == [s \in S |-> <<t[Turn(k, s[1])][s[1]], Match(k, s[1], s[2])>>]
             G(f) == [s \in Pointers \X Pointers |->
                        LET n == s[1]
                            ret == s[2]
                        IN IF n = NULL THEN ret
                           ELSE IF k < keyOf[n] THEN f[<<t.left[n], ret>>]
                           ELSE IF k > keyOf[n] THEN f[<<t.right[n], ret>>]
                           ELSE f[<<t.left[n], n>>]]
             f == CHOOSE h : h = G(h)
             At(i, s) == \E lo, hi :
               /\ Searching(M, N, pos, e, k, s[1], s[2], lo, hi)
               /\ hi - lo + 1 <= i
             Inv == [i \in Nat |-> {s \in S : At(i, s)}]
  <1>1. t \in TreeRecords /\ NULL \in Pointers /\ M \subseteq Entries
        /\ M \subseteq Pointers /\ NULL \notin M
        BY Numbers DEF Shape, Ghosts, Pointers
  <1>2. \A h : IsLoop(S, Stop, g, next, h) <=> h = G(h)
    <2>1. ASSUME NEW h
          PROVE  [s \in S |-> IF s \in Stop THEN g[s] ELSE h[next[s]]] = G(h)
      <3>1. ASSUME NEW s \in S
            PROVE  (IF s \in Stop THEN g[s] ELSE h[next[s]])
                     = LET n == s[1]
                           ret == s[2]
                       IN IF n = NULL THEN ret
                          ELSE IF k < keyOf[n] THEN h[<<t.left[n], ret>>]
                          ELSE IF k > keyOf[n] THEN h[<<t.right[n], ret>>]
                          ELSE h[<<t.left[n], n>>]
        <4> DEFINE n == s[1]
                   ret == s[2]
        <4>1. n \in Pointers /\ ret \in Pointers
              OBVIOUS
        <4>2. CASE n = NULL
              BY <4>2
        <4>3. CASE n # NULL
          <5>1. keyOf[n] \in Nat
                BY <4>1, <4>3 DEF Pointers
          <5>2. s \notin Stop /\ next[s] = <<t[Turn(k, n)][n], Match(k, n, ret)>>
                BY <4>3
          <5>3. CASE k < keyOf[n]
            <6>1. Turn(k, n) = "left" /\ Match(k, n, ret) = ret
                  BY <5>1, <5>3 DEF Turn, Match
            <6> HIDE DEF n, ret, Stop, g, next
            <6> QED BY <4>3, <5>2, <5>3, <6>1 DEF n, ret
          <5>4. CASE k > keyOf[n]
            <6>1. Turn(k, n) = "right" /\ Match(k, n, ret) = ret /\ ~(k < keyOf[n])
                  BY <5>1, <5>4 DEF Turn, Match
            <6> HIDE DEF n, ret, Stop, g, next
            <6> QED BY <4>3, <5>2, <5>4, <6>1 DEF n, ret
          <5>5. CASE k = keyOf[n]
            <6>1. Turn(k, n) = "left" /\ Match(k, n, ret) = n
                  /\ ~(k < keyOf[n]) /\ ~(k > keyOf[n])
                  BY <5>1, <5>5 DEF Turn, Match
            <6> HIDE DEF n, ret, Stop, g, next
            <6> QED BY <4>3, <5>2, <6>1 DEF n, ret
          <5> QED BY <5>1, <5>3, <5>4, <5>5
        <4> QED BY <4>2, <4>3
      <3> HIDE DEF Stop, g, next
      <3> QED BY <3>1
    <2> HIDE DEF S, Stop, g, next, G
    <2> QED BY <2>1 DEF IsLoop
  <1>3. Loops(S, Stop, next)
    <2>1. ASSUME NEW s \in S PROVE next[s] \in S
      <3>1. s[1] \in Pointers /\ s[2] \in Pointers /\ Turn(k, s[1]) \in Sides
            BY DEF Turn, Sides
      <3>2. t[Turn(k, s[1])][s[1]] \in Pointers /\ Match(k, s[1], s[2]) \in Pointers
            BY <1>1, <3>1, Links DEF Match
      <3> QED BY <3>2
    <2> HIDE DEF next
    <2> QED BY <2>1 DEF Loops
  <1>4. IsLoop(S, Stop, g, next, f)
    <2> HIDE DEF S, Stop, g, next, G
    <2>1. \E h : IsLoop(S, Stop, g, next, h)
          BY <1>3, LoopExists
    <2> QED BY <1>2, <2>1
  <1>5. Search(t, k) = f[<<t.root, NULL>>]
        BY DEF Search
  <1> HIDE DEF f, G
  <1>6. ASSUME NEW i \in Nat, NEW s \in Inv[i] \ Stop
        PROVE  \E j \in Nat : j < i /\ next[s] \in Inv[j]
    <2>1. s \in S /\ s[1] # NULL /\ At(i, s)
          BY <1>6
    <2>2. PICK lo, hi : /\ Searching(M, N, pos, e, k, s[1], s[2], lo, hi)
                        /\ hi - lo + 1 <= i
          BY <2>1
    <2>3. s[1] \in M /\ lo \in Int /\ hi \in Int /\ hi >= lo - 1
          BY <2>1, <2>2 DEF Searching
    <2>4. PICK lo2, hi2 :
            /\ Searching(M, N, pos, e, k, t[Turn(k, s[1])][s[1]],
                         Match(k, s[1], s[2]), lo2, hi2)
            /\ hi2 - lo2 < hi - lo
          BY <2>2, <2>3, SearchStep
    <2>5. lo2 \in Int /\ hi2 \in Int /\ hi2 >= lo2 - 1
          BY <2>4 DEF Searching
    <2>6. hi2 - lo2 + 1 \in Nat /\ hi2 - lo2 + 1 < i
          BY <2>2, <2>3, <2>4, <2>5
    <2>7. next[s] \in S
      <3>1. s[1] \in Pointers /\ s[2] \in Pointers /\ Turn(k, s[1]) \in Sides
            BY <2>1 DEF Turn, Sides
      <3>2. t[Turn(k, s[1])][s[1]] \in Pointers /\ Match(k, s[1], s[2]) \in Pointers
            BY <1>1, <3>1, Links DEF Match
      <3> QED BY <2>1, <3>2
    <2>8. next[s][1] = t[Turn(k, s[1])][s[1]] /\ next[s][2] = Match(k, s[1], s[2])
          BY <2>1
    <2> HIDE DEF next, S
    <2>9. At(hi2 - lo2 + 1, next[s])
      <3>1. hi2 - lo2 + 1 <= hi2 - lo2 + 1
            BY <2>6
      <3> QED BY <2>4, <2>8, <3>1
    <2> HIDE DEF At
    <2>10. next[s] \in Inv[hi2 - lo2 + 1]
           BY <2>6, <2>7, <2>9
    <2> QED BY <2>6, <2>10
  <1>7. N \in Nat /\ <<t.root, NULL>> \in Inv[N]
    <2>1. N \in Nat /\ (t.root = NULL => M = {} /\ N = 0)
          /\ (t.root # NULL => t.root \in M /\ e["left"][t.root] = 1
                               /\ e["right"][t.root] = N)
          BY DEF Shape, Ghosts, Root
    <2>2. \A m \in M : pos[m] \in Int /\ 1 <= pos[m] /\ pos[m] <= N
      <3>1. \A m \in M : Spans(N, pos, e, m) /\ pos[m] \in Int
                         /\ e["left"][m] \in Int /\ e["right"][m] \in Int
            BY Numbers DEF Shape, Sides
      <3> QED BY <2>1, <3>1 DEF Spans
    <2>3. Searching(M, N, pos, e, k, t.root, NULL, 1, N)
      <3>1. t.root \notin M => t.root = NULL /\ N = 1 - 1
            BY <2>1
      <3>2. t.root \in M => e["left"][t.root] = 1 /\ e["right"][t.root] = N
            BY <1>1, <2>1
      <3>3. \A m \in M : ~(pos[m] < 1) /\ ~(pos[m] > N)
            BY <2>1, <2>2
      <3> QED BY <2>1, <3>1, <3>2, <3>3 DEF Searching
    <2>4. N - 1 + 1 <= N
          BY <2>1
    <2>5. <<t.root, NULL>> \in S
          BY <1>1 DEF TreeRecords
    <2>6. At(N, <<t.root, NULL>>)
          BY <2>3, <2>4
    <2> HIDE DEF At
    <2> QED BY <2>1, <2>5, <2>6
  <1>8. \A i \in Nat : Inv[i] \subseteq S
        OBVIOUS
  <1>9. \E j \in Nat : \E s \in Inv[j] : s \in Stop /\ f[<<t.root, NULL>>] = g[s]
    <2> HIDE DEF S, Stop, g, next, Inv
    <2>1. Descends(S, Stop, next, Inv)
          BY <1>6, <1>8 DEF Descends
    <2> QED BY <1>4, <1>7, <2>1, LoopEnds
  <1>10. PICK j \in Nat : \E s \in Inv[j] : s \in Stop /\ f[<<t.root, NULL>>] = g[s]
         BY <1>9
  <1>11. PICK s \in Inv[j] : s \in Stop /\ f[<<t.root, NULL>>] = g[s]
         BY <1>10
  <1>12. s[1] = NULL /\ Search(t, k) = s[2] /\ At(j, s)
         BY <1>5, <1>11
  <1>13. PICK lo, hi : Searching(M, N, pos, e, k, s[1], s[2], lo, hi)
         BY <1>12
  <1>14. /\ lo \in Int /\ hi = lo - 1
         /\ \A m \in M : pos[m] < lo => keyOf[m] < k
         /\ s[2] = NULL => \A m \in M : pos[m] > hi => keyOf[m] > k
         /\ s[2] # NULL => s[2] \in M /\ keyOf[s[2]] = k /\ pos[s[2]] = hi + 1
         BY <1>1, <1>12, <1>13 DEF Searching
  <1>15. \A m \in M : pos[m] \in Int /\ keyOf[m] \in Nat
    <2>1. \A m \in M : pos[m] \in Int /\ m \in Entries
          BY Numbers
    <2> QED BY <2>1
  <1> HIDE DEF S, Stop, g, next, Inv, At
  <1>16. CASE s[2] = NULL
    <2>1. ASSUME NEW m \in M PROVE keyOf[m] # k
      <3>1. pos[m] < lo \/ pos[m] > hi
            BY <1>14, <1>15
      <3> QED BY <1>14, <1>15, <1>16, <3>1
    <2> QED BY <1>12, <1>16, <2>1 DEF FirstMatch
  <1>17. CASE s[2] # NULL
    <2>1. pos[s[2]] = lo
          BY <1>14, <1>17
    <2>2. \A m \in M : pos[m] < lo => keyOf[m] # k
          BY <1>14, <1>15
    <2> QED BY <1>12, <1>14, <1>17, <2>1, <2>2 DEF FirstMatch
  <1> QED BY <1>16, <1>17

(***************************************************************************)
(* What insert, remove and a search do to the list                         *)
(***************************************************************************)
(* A search answers the first entry of the list with the key. *)
LEMMA FirstOfList ==
  ASSUME NEW l, NEW pos, Lists(tree, l, pos), Sorted(ToSet(l), pos),
         keyOf \in [Entries -> Nat], NEW k \in Nat
  PROVE  Search(tree, k) = Ordered!FirstWith(l, keyOf, k, NULL)
  <1> DEFINE T == {i \in 1 .. Len(l) : keyOf[l[i]] = k}
             r == Search(tree, k)
  <1>1. PICK e : Shape(tree, ToSet(l), Len(l), pos, e)
        BY DEF Lists, Tree
  <1>2. FirstMatch(ToSet(l), pos, k, r)
    <2> HIDE DEF T
    <2> QED BY <1>1, SearchedDown
  <1>3. Ordered!FirstWith(l, keyOf, k, NULL)
          = IF T # {} THEN IF Min(T) = 0 THEN NULL ELSE l[Min(T)] ELSE NULL
        BY DEF Ordered!FirstWith, Ordered!SelectInSeq, Ordered!Min, Min
  <1>4. /\ Len(l) \in Nat /\ \A i \in 1 .. Len(l) : l[i] \in ToSet(l) /\ pos[l[i]] = i
        /\ \A n \in ToSet(l) : pos[n] \in 1 .. Len(l) /\ l[pos[n]] = n
        BY ListPositions
  <1> HIDE DEF r
  <1>5. CASE r = NULL /\ \A m \in ToSet(l) : keyOf[m] # k
    <2>1. T = {}
          BY <1>4, <1>5
    <2> HIDE DEF T
    <2> QED BY <1>3, <1>5, <2>1 DEF r
  <1>6. CASE /\ r \in ToSet(l) /\ keyOf[r] = k
             /\ \A m \in ToSet(l) : pos[m] < pos[r] => keyOf[m] # k
    <2>1. pos[r] \in T /\ T \subseteq 1 .. Len(l)
          BY <1>4, <1>6
    <2>2. \A i \in T : l[i] \in ToSet(l) /\ keyOf[l[i]] = k /\ pos[l[i]] = i
          BY <1>4
    <2> HIDE DEF T
    <2>3. Min(T) \in T /\ Min(T) <= pos[r]
          BY <1>4, <2>1, MinOfBounded
    <2>4. Min(T) \in 1 .. Len(l) /\ pos[r] \in 1 .. Len(l)
          BY <2>1, <2>3
    <2>5. ~(Min(T) < pos[r])
          BY <1>6, <2>2, <2>3
    <2>6. Min(T) = pos[r] /\ Min(T) # 0
          BY <2>3, <2>4, <2>5
    <2>7. l[Min(T)] = r
          BY <1>4, <1>6, <2>6
    <2> QED BY <1>3, <2>1, <2>6, <2>7 DEF r
  <1> QED BY <1>2, <1>5, <1>6 DEF FirstMatch

(* An entry comes into the list before the first that has a larger key. *)
LEMMA PlaceInList ==
  ASSUME NEW S, NEW l \in Seq(S), NEW ks, NEW e \in S
  PROVE  \E i \in 1 .. Len(l) + 1 :
           /\ Ordered!InsertSorted(l, ks, e) = InsertAt(l, i, e)
           /\ \A j \in 1 .. Len(l) : j < i => ~(ks[l[j]] > ks[e])
           /\ i <= Len(l) => ks[l[i]] > ks[e]
  <1> DEFINE T == {j \in 1 .. Len(l) : ks[l[j]] > ks[e]}
             larger == IF T # {} THEN Min(T) ELSE 0
  <1>1. Len(l) \in Nat
        BY ElementsOf
  <1>2. Ordered!InsertSorted(l, ks, e)
          = InsertAt(l, IF larger = 0 THEN Len(l) + 1 ELSE larger, e)
        BY DEF Ordered!InsertSorted, Ordered!SelectInSeq, Ordered!InsertAt,
               InsertAt, Ordered!Min, Min
  <1>3. CASE T = {}
    <2>1. larger = 0
          BY <1>3
    <2> QED BY <1>1, <1>2, <1>3, <2>1
  <1>4. CASE T # {}
    <2>0. T \subseteq 1 .. Len(l)
          OBVIOUS
    <2> HIDE DEF T
    <2>1. Min(T) \in T /\ \A j \in T : Min(T) <= j
          BY <1>1, <1>4, <2>0, MinOfBounded
    <2> USE DEF T
    <2>2. larger = Min(T) /\ Min(T) \in 1 .. Len(l) /\ ks[l[Min(T)]] > ks[e]
          BY <1>4, <2>1
    <2>3. \A j \in 1 .. Len(l) : j < Min(T) => ~(ks[l[j]] > ks[e])
          BY <2>1, <2>2, <1>1
    <2>4. /\ Ordered!InsertSorted(l, ks, e) = InsertAt(l, larger, e)
          /\ larger \in 1 .. Len(l) + 1
      <3> HIDE DEF larger
      <3> QED BY <1>1, <1>2, <2>2
    <2> QED BY <1>1, <2>2, <2>3, <2>4
  <1> QED BY <1>3, <1>4

(* The keys ks do not decrease along the positions. *)
KeysRise(ks, M, pos) == \A m, n \in M : pos[m] <= pos[n] => ks[m] <= ks[n]

(* insert puts the entry in the tree where the list has it. *)
LEMMA InsertedList ==
  ASSUME NEW l, NEW pos, Lists(tree, l, pos), Sorted(ToSet(l), pos),
         keyOf \in [Entries -> Nat], NEW k \in Nat,
         NEW e \in Entries \ ToSet(l),
         NEW ks \in [Entries -> Nat], ks[e] = k,
         \A m \in Entries \ {e} : ks[m] = keyOf[m]
  PROVE  LET l2 == Ordered!InsertSorted(l, ks, e)
         IN \E pos2 : /\ Lists(Inserted(tree, e, k), l2, pos2)
                      /\ ToSet(l2) = ToSet(l) \cup {e}
                      /\ KeysRise(ks, ToSet(l2), pos2)
  <1> DEFINE M == ToSet(l)
             N == Len(l)
             l2 == Ordered!InsertSorted(l, ks, e)
  <1>1. /\ l \in Seq(Entries) /\ IsInjective(l) /\ Tree(tree, M, N, pos)
        /\ N \in Nat /\ Apart(M, pos) /\ M \subseteq Entries
        /\ \A i \in 1 .. N : l[i] \in M /\ pos[l[i]] = i
        /\ \A n \in M : pos[n] \in 1 .. N /\ l[pos[n]] = n
        BY ListPositions, ElementsOf DEF Lists
  <1>2. PICK i \in 1 .. N + 1 :
          /\ l2 = InsertAt(l, i, e)
          /\ \A j \in 1 .. N : j < i => ~(ks[l[j]] > ks[e])
          /\ i <= N => ks[l[i]] > ks[e]
        BY <1>1, PlaceInList
  <1>3. /\ l2 \in Seq(Entries) /\ Len(l2) = N + 1
        /\ \A j \in 1 .. N + 1 : l2[j] = IF j < i THEN l[j]
                                         ELSE IF j = i THEN e ELSE l[j - 1]
        /\ ToSet(l2) = M \cup {e} /\ IsInjective(l2)
    <2>1. i \in 1 .. Len(l) + 1 /\ l \in Seq(Entries) /\ e \in Entries
          BY <1>1
    <2>2. /\ InsertAt(l, i, e) \in Seq(Entries)
          /\ Len(InsertAt(l, i, e)) = Len(l) + 1
          /\ \A j \in 1 .. Len(l) + 1 :
               InsertAt(l, i, e)[j] = IF j < i THEN l[j]
                                      ELSE IF j = i THEN e ELSE l[j - 1]
      <3> HIDE DEF l2, M, N
      <3> QED BY <2>1, InsertedAt
    <2>3. /\ ToSet(InsertAt(l, i, e)) = ToSet(l) \cup {e}
          /\ IsInjective(l) /\ e \notin ToSet(l) => IsInjective(InsertAt(l, i, e))
      <3> HIDE DEF l2, M, N
      <3> QED BY <2>1, InsertedElements
    <2>4. l2 = InsertAt(l, i, e) /\ IsInjective(l) /\ e \notin ToSet(l)
          BY <1>1, <1>2
    <2> HIDE DEF l2
    <2> QED BY <2>2, <2>3, <2>4
  <1> HIDE DEF l2
  <1>4. \A n \in M : ks[n] = keyOf[n] /\ keyOf[n] \in Nat /\ n # e
        BY <1>1
  <1> HIDE DEF M, N
  <1>5. PICK q \in 1 .. N + 1 :
          /\ Parts(M, pos, q, k)
          /\ \A pos2 : MadeRoom(M, pos, pos2, e, q) =>
               Tree(Inserted(tree, e, k), M \cup {e}, N + 1, pos2)
    <2>1. Sorted(M, pos) /\ e \in Entries \ M
          BY DEF M
    <2> QED BY <1>1, <2>1, InsertedTree
  <1>6. q = i
    <2>1. ASSUME q < i PROVE FALSE
      <3>1. q \in 1 .. N /\ l[q] \in M /\ pos[l[q]] = q
            BY <1>1, <1>5, <2>1
      <3>2. keyOf[l[q]] > k
            BY <1>1, <1>5, <3>1 DEF Parts
      <3> QED BY <1>2, <1>4, <2>1, <3>1, <3>2
    <2>2. ASSUME i < q PROVE FALSE
      <3>1. i \in 1 .. N /\ l[i] \in M /\ pos[l[i]] = i
            BY <1>1, <1>5, <2>2
      <3>2. keyOf[l[i]] <= k
            BY <1>5, <2>2, <3>1 DEF Parts
      <3>3. ks[l[i]] > ks[e]
            BY <1>2, <3>1
      <3> QED BY <1>4, <3>1, <3>2, <3>3
    <2> QED BY <1>1, <1>2, <1>5, <2>1, <2>2
  <1> DEFINE pos2 == [n \in Entries |->
                        IF n = e THEN q
                        ELSE IF n \in M
                             THEN IF pos[n] < q THEN pos[n] ELSE pos[n] + 1
                             ELSE 0]
  <1>7. /\ pos2 \in [Entries -> Int] /\ pos2[e] = q
        /\ \A m \in M : pos2[m] = IF pos[m] < q THEN pos[m] ELSE pos[m] + 1
    <2>1. \A n \in M : pos[n] \in Int /\ n # e /\ n \in Entries
          BY <1>1, <1>4
    <2>2. q \in Int /\ e \in Entries
          BY <1>5
    <2>3. \A n \in Entries : (IF n = e THEN q
                              ELSE IF n \in M
                                   THEN IF pos[n] < q THEN pos[n] ELSE pos[n] + 1
                                   ELSE 0) \in Int
          BY <2>1, <2>2
    <2>4. pos2 \in [Entries -> Int]
          BY <2>3
    <2> QED BY <2>1, <2>2, <2>4
  <1> HIDE DEF pos2
  <1>8. Tree(Inserted(tree, e, k), M \cup {e}, N + 1, pos2)
    <2>1. MadeRoom(M, pos, pos2, e, q)
          BY <1>5, <1>7 DEF MadeRoom
    <2> QED BY <1>5, <2>1
  <1>9. ASSUME NEW j \in 1 .. N + 1 PROVE pos2[l2[j]] = j
    <2>1. CASE j < i
      <3>1. l2[j] = l[j] /\ l[j] \in M /\ pos[l[j]] = j
            BY <1>1, <1>2, <1>3, <2>1
      <3> QED BY <1>6, <1>7, <2>1, <3>1
    <2>2. CASE j = i
          BY <1>3, <1>6, <1>7, <2>2
    <2>3. CASE j > i
      <3>1. j - 1 \in 1 .. N /\ ~(j < i) /\ j # i
            BY <1>1, <1>2, <2>3
      <3>2. l2[j] = l[j - 1] /\ l[j - 1] \in M /\ pos[l[j - 1]] = j - 1
            BY <1>1, <1>3, <3>1
      <3>3. ~(j - 1 < q) /\ j - 1 + 1 = j
            BY <1>1, <1>2, <1>6, <2>3
      <3> QED BY <1>7, <3>2, <3>3
    <2> QED BY <1>1, <1>2, <2>1, <2>2, <2>3
  <1>10. Lists(Inserted(tree, e, k), l2, pos2)
         BY <1>3, <1>8, <1>9 DEF Lists
  <1>11. KeysRise(ks, M \cup {e}, pos2)
    <2>1. ASSUME NEW m \in M, NEW n \in M, pos2[m] <= pos2[n]
          PROVE  ks[m] <= ks[n]
      <3>1. pos[m] \in Int /\ pos[n] \in Int /\ q \in Int
            BY <1>1, <1>5
      <3>2. pos[m] <= pos[n]
            BY <1>7, <2>1, <3>1
      <3> QED BY <1>4, <3>2 DEF Sorted, M
    <2>2. ASSUME NEW m \in M
          PROVE  /\ pos2[m] <= pos2[e] => ks[m] <= ks[e]
                 /\ pos2[e] <= pos2[m] => ks[e] <= ks[m]
      <3>1. pos[m] \in Int /\ q \in Int
            BY <1>1, <1>5
      <3>2. pos2[m] <= q => pos[m] < q
            BY <1>7, <3>1
      <3>3. q <= pos2[m] => pos[m] >= q
            BY <1>7, <3>1
      <3>4. (pos[m] < q => keyOf[m] <= k) /\ (pos[m] >= q => keyOf[m] > k)
            BY <1>5 DEF Parts
      <3> QED BY <1>4, <1>7, <3>2, <3>3, <3>4
    <2>3. ks[e] <= ks[e]
          OBVIOUS
    <2> QED BY <2>1, <2>2, <2>3 DEF KeysRise
  <1> QED BY <1>3, <1>10, <1>11 DEF l2, M

(* The list without its only e. *)
LEMMA FirstRemoved ==
  ASSUME NEW S, NEW s \in Seq(S), NEW e \in ToSet(s)
  PROVE  \E i \in 1 .. Len(s) : /\ s[i] = e
                                /\ Ordered!RemoveFirst(s, e) = RemoveAt(s, i)
  <1>1. Ordered!RemoveFirst(s, e) = RemoveFirst(s, e)
        BY DEF Ordered!RemoveFirst, Ordered!SelectInSeq, Ordered!RemoveAt,
               Ordered!Min, RemoveFirst, SelectInSeq, RemoveAt, Min
  <1> QED BY <1>1, RemovedFirst

(* remove takes the entry out of the tree as it does out of the list. *)
LEMMA RemovedList ==
  ASSUME NEW l, NEW pos, Lists(tree, l, pos), Sorted(ToSet(l), pos),
         NEW e \in ToSet(l), NEW ks,
         \A m \in Entries \ {e} : ks[m] = keyOf[m]
  PROVE  LET l2 == Ordered!RemoveFirst(l, e)
         IN \E pos2 : /\ Lists(Removed(tree, e), l2, pos2)
                      /\ ToSet(l2) = ToSet(l) \ {e}
                      /\ KeysRise(ks, ToSet(l2), pos2)
  <1> DEFINE M == ToSet(l)
             N == Len(l)
             l2 == Ordered!RemoveFirst(l, e)
             P == pos[e]
  <1>1. /\ l \in Seq(Entries) /\ IsInjective(l) /\ Tree(tree, M, N, pos)
        /\ N \in Nat /\ Apart(M, pos) /\ M \subseteq Entries
        /\ \A i \in 1 .. N : l[i] \in M /\ pos[l[i]] = i
        /\ \A n \in M : pos[n] \in 1 .. N /\ l[pos[n]] = n
        BY ListPositions, ElementsOf DEF Lists
  <1>2. PICK i \in 1 .. N : l[i] = e /\ l2 = RemoveAt(l, i)
        BY <1>1, FirstRemoved
  <1>3. /\ l2 \in Seq(Entries) /\ Len(l2) = N - 1
        /\ \A j \in 1 .. N - 1 : l2[j] = IF j < i THEN l[j] ELSE l[j + 1]
    <2>1. i \in 1 .. Len(l) /\ l \in Seq(Entries)
          BY <1>1
    <2>2. /\ RemoveAt(l, i) \in Seq(Entries)
          /\ Len(RemoveAt(l, i)) = Len(l) - 1
          /\ \A j \in 1 .. Len(l) - 1 :
               RemoveAt(l, i)[j] = IF j < i THEN l[j] ELSE l[j + 1]
      <3> HIDE DEF l2, M, N
      <3> QED BY <2>1, RemovedAt
    <2>3. l2 = RemoveAt(l, i)
          BY <1>2
    <2> HIDE DEF l2
    <2> QED BY <2>2, <2>3
  <1>4. /\ ToSet(l2) \subseteq M /\ \A x \in M : x # e => x \in ToSet(l2)
        /\ IsInjective(l2) /\ e \notin ToSet(l2)
        BY <1>1, <1>2, RemovedElements
  <1>5. ToSet(l2) = M \ {e}
        BY <1>4
  <1> HIDE DEF l2
  <1>6. i = P /\ P \in Int
        BY <1>1, <1>2
  <1> DEFINE pos2 == [n \in Entries |->
                        IF n \in M
                        THEN IF pos[n] > P THEN pos[n] - 1 ELSE pos[n]
                        ELSE 0]
  <1>7. /\ pos2 \in [Entries -> Int]
        /\ \A m \in M : pos2[m] = IF pos[m] > P THEN pos[m] - 1 ELSE pos[m]
    <2>1. \A n \in M : pos[n] \in Int /\ n \in Entries
          BY <1>1
    <2> HIDE DEF M, N, P
    <2>2. \A n \in Entries : (IF n \in M
                              THEN IF pos[n] > P THEN pos[n] - 1 ELSE pos[n]
                              ELSE 0) \in Int
          BY <1>6, <2>1
    <2>3. pos2 \in [Entries -> Int]
          BY <2>2
    <2> QED BY <2>1, <2>3
  <1> HIDE DEF pos2, P, M, N
  <1>8. Tree(Removed(tree, e), M \ {e}, N - 1, pos2)
    <2>1. Closed(M \ {e}, pos, pos2, pos[e])
          BY <1>6, <1>7 DEF Closed, P
    <2>2. e \in M
          BY DEF M
    <2> QED BY <1>1, <2>1, <2>2, RemovedTree
  <1>9. ASSUME NEW j \in 1 .. N - 1 PROVE pos2[l2[j]] = j
    <2>1. CASE j < i
      <3>1. l2[j] = l[j] /\ l[j] \in M /\ pos[l[j]] = j
            BY <1>1, <1>2, <1>3, <2>1
      <3> QED BY <1>6, <1>7, <2>1, <3>1
    <2>2. CASE ~(j < i)
      <3>1. j + 1 \in 1 .. N
            BY <1>1
      <3>2. l2[j] = l[j + 1] /\ l[j + 1] \in M /\ pos[l[j + 1]] = j + 1
            BY <1>1, <1>3, <2>2, <3>1
      <3>3. j + 1 > P /\ j + 1 - 1 = j
            BY <1>1, <1>2, <1>6, <2>2
      <3> QED BY <1>7, <3>2, <3>3
    <2> QED BY <2>1, <2>2
  <1>10. Lists(Removed(tree, e), l2, pos2)
         BY <1>3, <1>4, <1>5, <1>8, <1>9 DEF Lists
  <1>11. KeysRise(ks, M \ {e}, pos2)
    <2>1. ASSUME NEW m \in M \ {e}, NEW n \in M \ {e}, pos2[m] <= pos2[n]
          PROVE  ks[m] <= ks[n]
      <3>1. /\ pos[m] \in Int /\ pos[n] \in Int
            /\ ks[m] = keyOf[m] /\ ks[n] = keyOf[n]
            BY <1>1
      <3>2. pos[m] <= pos[n]
        <4>1. pos[m] # P /\ pos[n] # P
          <5>1. e \in M
                BY DEF M
          <5> QED BY <1>1, <5>1 DEF P, Apart
        <4> QED BY <1>6, <1>7, <2>1, <3>1, <4>1
      <3> QED BY <3>1, <3>2 DEF Sorted, M
    <2> QED BY <2>1 DEF KeysRise
  <1> QED BY <1>5, <1>10, <1>11 DEF l2, M

(***************************************************************************)
(* The invariant of the specification                                      *)
(***************************************************************************)
(* The tree is a red-black tree of the entries that have a key, and its    *)
(* order is an order of their keys.                                        *)
TreeListed ==
  /\ keyOf \in [Entries -> Keys \cup {0}]
  /\ \E l, pos : /\ Lists(tree, l, pos) /\ ToSet(l) = Members
                 /\ Sorted(Members, pos)

(* The empty tree is the empty list. *)
LEMMA TreeStarts ==
  ASSUME TreeInit
  PROVE  TreeListed /\ Ordered!ListInit
  <1> DEFINE l == <<>>
             pos == [n \in Entries |-> 0]
             e == [d \in Sides |-> [n \in Entries |-> 0]]
             b == [n \in Pointers |-> 1]
  <1>1. l \in Seq(Entries) /\ IsInjective(l) /\ Len(l) = 0 /\ ToSet(l) = {}
        BY EmptySeq, EmptyList
  <1>2. keyOf = [n \in Entries |-> 0] /\ Members = {}
        BY DEF TreeInit, Members
  <1>3. /\ tree \in TreeRecords /\ tree.root = NULL
        /\ \A n \in Pointers : \A s \in Sides : tree[s][n] = NULL
        BY DEF TreeInit, TreeRecords, Pointers, Sides
  <1>4. Outside(tree, {})
        BY <1>3 DEF Outside
  <1>5. Shape(tree, {}, 0, pos, e)
        BY <1>3 DEF Shape, Root, Ghosts
  <1>6. Heights(tree, {}, b, NULL, "left")
        BY DEF Heights, Pointers
  <1>7. Colors(tree, {}, NULL, NULL)
        BY <1>3 DEF Colors
  <1> HIDE DEF l, pos, e, b
  <1>8. Tree(tree, ToSet(l), Len(l), pos)
        BY <1>1, <1>4, <1>5, <1>6, <1>7 DEF Tree
  <1>9. Lists(tree, l, pos)
        BY <1>1, <1>8 DEF Lists
  <1>10. Sorted(Members, pos)
         BY <1>2 DEF Sorted
  <1>11. TreeListed
         BY <1>1, <1>2, <1>9, <1>10 DEF TreeListed
  <1>12. InOrder(tree) = <<>>
         BY <1>9, Walked DEF l
  <1> QED BY <1>2, <1>11, <1>12 DEF Ordered!ListInit

(* An insertion into the tree is an insertion into the list. *)
LEMMA TreeInserts ==
  ASSUME TreeListed, NEW e \in Entries, NEW k \in Keys, TreeInsert(e, k)
  PROVE  TreeListed' /\ Ordered!ListInsert(e, k)
  <1>1. PICK l : \E pos : /\ Lists(tree, l, pos) /\ ToSet(l) = Members
                          /\ Sorted(Members, pos)
        BY DEF TreeListed
  <1>2. PICK pos : /\ Lists(tree, l, pos) /\ ToSet(l) = Members
                   /\ Sorted(Members, pos)
        BY <1>1
  <1>3. /\ keyOf \in [Entries -> Keys \cup {0}] /\ keyOf \in [Entries -> Nat]
        /\ k \in Nat /\ k # 0 /\ e \in Entries \ ToSet(l)
    <2>1. keyOf \in [Entries -> Keys \cup {0}]
          BY DEF TreeListed
    <2>2. Keys \subseteq Nat \ {0}
          BY KeysAssumption
    <2>3. e \notin Members
          BY DEF TreeInsert
    <2>4. keyOf = [m \in Entries |-> keyOf[m]]
          BY <2>1
    <2>5. \A m \in Entries : keyOf[m] \in Nat
      <3>1. \A m \in Entries : keyOf[m] \in Keys \cup {0}
            BY <2>1
      <3>2. \A k2 \in Keys : k2 \in Nat
            BY <2>2
      <3>3. 0 \in Nat
            OBVIOUS
      <3> QED BY <3>1, <3>2, <3>3, Zenon
    <2>6. keyOf \in [Entries -> Nat]
          BY <2>4, <2>5
    <2> QED BY <1>2, <2>1, <2>2, <2>3, <2>6
  <1> DEFINE ks == [keyOf EXCEPT ![e] = k]
             l2 == Ordered!InsertSorted(l, ks, e)
  <1>4. /\ ks \in [Entries -> Keys \cup {0}] /\ ks \in [Entries -> Nat]
        /\ ks[e] = k /\ \A m \in Entries \ {e} : ks[m] = keyOf[m]
        BY <1>3
  <1>5. keyOf' = ks /\ tree' = Inserted(tree, e, k)
        BY DEF TreeInsert
  <1> HIDE DEF ks
  <1>6. \E pos2 : /\ Lists(Inserted(tree, e, k), l2, pos2)
                  /\ ToSet(l2) = ToSet(l) \cup {e}
                  /\ KeysRise(ks, ToSet(l2), pos2)
    <2>1. Sorted(ToSet(l), pos)
          BY <1>2
    <2> QED BY <1>2, <1>3, <1>4, <2>1, InsertedList
  <1> HIDE DEF l2
  <1>7. PICK pos2 : /\ Lists(tree', l2, pos2)
                    /\ ToSet(l2) = Members \cup {e}
                    /\ KeysRise(ks, ToSet(l2), pos2)
        BY <1>2, <1>5, <1>6
  <1>8. Members' = Members \cup {e}
        BY <1>3, <1>4, <1>5 DEF Members
  <1>9. Sorted(Members, pos2)'
        BY <1>5, <1>7, <1>8 DEF Sorted, KeysRise
  <1>10. TreeListed'
         BY <1>4, <1>5, <1>7, <1>8, <1>9 DEF TreeListed
  <1>11. InOrder(tree) = l /\ InOrder(tree') = l2
         BY <1>2, <1>7, Walked
  <1>12. ~Ordered!Contains(InOrder(tree), e)
    <2>1. l \in Seq(Entries)
          BY <1>2 DEF Lists
    <2>2. ~Contains(l, e)
          BY <1>3, <2>1, ElementsOf
    <2> QED BY <1>11, <2>2 DEF Ordered!Contains, Contains
  <1>13. InOrder(tree)' = Ordered!InsertSorted(InOrder(tree), keyOf', e)
         BY <1>5, <1>11 DEF l2
  <1> QED BY <1>5, <1>10, <1>12, <1>13 DEF Ordered!ListInsert, ks

(* A removal from the tree is a removal from the list. *)
LEMMA TreeRemoves ==
  ASSUME TreeListed, NEW e \in Entries, TreeRemove(e)
  PROVE  TreeListed' /\ Ordered!ListRemove(e)
  <1>1. PICK l : \E pos : /\ Lists(tree, l, pos) /\ ToSet(l) = Members
                          /\ Sorted(Members, pos)
        BY DEF TreeListed
  <1>2. PICK pos : /\ Lists(tree, l, pos) /\ ToSet(l) = Members
                   /\ Sorted(Members, pos)
        BY <1>1
  <1>3. keyOf \in [Entries -> Keys \cup {0}] /\ e \in ToSet(l)
        BY <1>2 DEF TreeListed, TreeRemove
  <1> DEFINE ks == [keyOf EXCEPT ![e] = 0]
             l2 == Ordered!RemoveFirst(l, e)
  <1>4. /\ ks \in [Entries -> Keys \cup {0}] /\ ks[e] = 0
        /\ \A m \in Entries \ {e} : ks[m] = keyOf[m]
        BY <1>3
  <1>5. keyOf' = ks /\ tree' = Removed(tree, e)
        BY DEF TreeRemove
  <1> HIDE DEF ks
  <1>6. \E pos2 : /\ Lists(Removed(tree, e), l2, pos2)
                  /\ ToSet(l2) = ToSet(l) \ {e}
                  /\ KeysRise(ks, ToSet(l2), pos2)
    <2>1. Sorted(ToSet(l), pos)
          BY <1>2
    <2> QED BY <1>2, <1>3, <1>4, <2>1, RemovedList
  <1> HIDE DEF l2
  <1>7. PICK pos2 : /\ Lists(tree', l2, pos2)
                    /\ ToSet(l2) = Members \ {e}
                    /\ KeysRise(ks, ToSet(l2), pos2)
        BY <1>2, <1>5, <1>6
  <1>8. Members' = Members \ {e}
        BY <1>4, <1>5 DEF Members
  <1>9. Sorted(Members, pos2)'
        BY <1>5, <1>7, <1>8 DEF Sorted, KeysRise
  <1>10. TreeListed'
         BY <1>4, <1>5, <1>7, <1>8, <1>9 DEF TreeListed
  <1>11. InOrder(tree) = l /\ InOrder(tree') = l2
         BY <1>2, <1>7, Walked
  <1>12. Ordered!Contains(InOrder(tree), e)
    <2>1. l \in Seq(Entries)
          BY <1>2 DEF Lists
    <2>2. Contains(l, e)
          BY <1>3, <2>1, ElementsOf
    <2> QED BY <1>11, <2>2 DEF Ordered!Contains, Contains
  <1>13. InOrder(tree)' = Ordered!RemoveFirst(InOrder(tree), e)
         BY <1>11 DEF l2
  <1> QED BY <1>5, <1>10, <1>12, <1>13 DEF Ordered!ListRemove, ks

(* Every step keeps the invariant, and is a step of the list or none. *)
LEMMA TreeSteps ==
  ASSUME TreeListed, [TreeNext]_treeVars
  PROVE  TreeListed' /\ [Ordered!ListNext]_Ordered!listVars
  <1>1. ASSUME NEW e \in Entries, NEW k \in Keys, TreeInsert(e, k)
        PROVE  TreeListed' /\ Ordered!ListNext
        BY <1>1, TreeInserts DEF Ordered!ListNext
  <1>2. ASSUME NEW e \in Entries, TreeRemove(e)
        PROVE  TreeListed' /\ Ordered!ListNext
        BY <1>2, TreeRemoves DEF Ordered!ListNext
  <1>3. CASE UNCHANGED treeVars
    <2>1. tree' = tree /\ keyOf' = keyOf
          BY <1>3 DEF treeVars
    <2>2. TreeListed'
          BY <2>1 DEF TreeListed, Members, Sorted
    <2>3. UNCHANGED Ordered!listVars
          BY <2>1 DEF Ordered!listVars
    <2> QED BY <2>2, <2>3
  <1> QED BY <1>1, <1>2, <1>3 DEF TreeNext

(* What the invariant says of a state. *)
LEMMA TreeListedRead ==
  ASSUME TreeListed
  PROVE  RedBlack /\ WalkBothWays /\ SearchFindsFirst
  <1>1. PICK l : \E pos : /\ Lists(tree, l, pos) /\ ToSet(l) = Members
                          /\ Sorted(Members, pos)
        BY DEF TreeListed
  <1>2. PICK pos : /\ Lists(tree, l, pos) /\ ToSet(l) = Members
                   /\ Sorted(Members, pos)
        BY <1>1
  <1>3. keyOf \in [Entries -> Nat] /\ Keys \subseteq Nat
    <2>1. keyOf \in [Entries -> Keys \cup {0}]
          BY DEF TreeListed
    <2>2. Keys \subseteq Nat \ {0}
          BY KeysAssumption
    <2>3. keyOf = [m \in Entries |-> keyOf[m]]
          BY <2>1
    <2>4. \A m \in Entries : keyOf[m] \in Nat
      <3>1. \A m \in Entries : keyOf[m] \in Keys \cup {0}
            BY <2>1
      <3>2. \A k2 \in Keys : k2 \in Nat
            BY <2>2
      <3>3. 0 \in Nat
            OBVIOUS
      <3> QED BY <3>1, <3>2, <3>3, Zenon
    <2> QED BY <2>2, <2>3, <2>4
  <1>4. RedBlack
    <2>1. Tree(tree, Members, Len(l), pos)
          BY <1>2 DEF Lists
    <2> QED BY <2>1, CheckedTree
  <1>5. WalkBothWays
        BY <1>2, WalkedBothWays
  <1>6. SearchFindsFirst
    <2>1. InOrder(tree) = l /\ Sorted(ToSet(l), pos)
          BY <1>2, Walked
    <2>2. \A k \in Keys : Search(tree, k) = Ordered!FirstWith(l, keyOf, k, NULL)
          BY <1>2, <1>3, <2>1, FirstOfList
    <2> QED BY <2>1, <2>2 DEF SearchFindsFirst
  <1> QED BY <1>4, <1>5, <1>6

(* The tree is always that of some list. *)
LEMMA TreeAlwaysListed == TreeSpec => []TreeListed
  <1>1. TreeInit => TreeListed
        BY TreeStarts
  <1>2. TreeListed /\ [TreeNext]_treeVars => TreeListed'
        BY TreeSteps
  <1> QED BY <1>1, <1>2, PTL DEF TreeSpec

-----------------------------------------------------------------------------
(* Whatever is inserted and removed, and in whatever order, the tree passes*)
(* the checks of __itree_check: the root is black, a red entry has black   *)
(* children, every path has as many black entries, and the parent of a     *)
(* child is the entry above it.                                            *)
THEOREM TreeIsRedBlack == TreeSpec => []RedBlack
  <1>1. TreeListed => RedBlack
        BY TreeListedRead
  <1> QED BY <1>1, TreeAlwaysListed, PTL

(* first, next and prev walk all the entries: timecb_check and             *)
(* timecb_remove miss none.                                                *)
THEOREM TreeIsWalked == TreeSpec => []WalkBothWays
  <1>1. TreeListed => WalkBothWays
        BY TreeListedRead
  <1> QED BY <1>1, TreeAlwaysListed, PTL

(* operator[] answers the first of the entries with a key.                 *)
THEOREM TreeIsSearched == TreeSpec => []SearchFindsFirst
  <1>1. TreeListed => SearchFindsFirst
        BY TreeListedRead
  <1> QED BY <1>1, TreeAlwaysListed, PTL

(* The tree is a list in the order of the keys, and of the insertions for  *)
(* equal keys; no removal moves another entry.                             *)
THEOREM TreeIsKeyedList == TreeSpec => ImplementsKeyedList
  <1>1. TreeInit => Ordered!ListInit
        BY TreeStarts
  <1>2. TreeListed /\ [TreeNext]_treeVars => [Ordered!ListNext]_Ordered!listVars
        BY TreeSteps
  <1> QED BY <1>1, <1>2, TreeAlwaysListed, PTL
          DEF TreeSpec, ImplementsKeyedList, Ordered!ListSpec
=============================================================================

---------------------------- MODULE IntervalTree ----------------------------
(***************************************************************************)
(* The red-black tree of itree.C and itree.h, in which core.C keeps its    *)
(* timers.  Entries are linked through fields of their own: an insertion   *)
(* allocates nothing, and a removal moves links and never contents, so the *)
(* other entries stay where the program's pointers say they are.           *)
(*                                                                         *)
(* The tree is a record of its root and of the fields rbe_up, rbe_left,    *)
(* rbe_right and rbe_color of every entry.  The two mirror halves of each  *)
(* loop of itree.C are one definition over a side, d.  A loop is a function*)
(* of what it changes: one turn, and the loop again.  The fields of an     *)
(* entry that is not in the tree are dead, itree_insert writes all four:   *)
(* they have one value here.  So have those of NULL, which the code never  *)
(* reads nor writes.                                                       *)
(***************************************************************************)
EXTENDS Naturals, Sequences

CONSTANTS Entries, \* the structures that can be in the tree
          Keys,    \* the keys, positive numbers
          NULL     \* no entry

ASSUME KeysAssumption == Keys \subseteq Nat \ {0} /\ NULL \notin Entries

VARIABLES tree,    \* the fields of the entries and the root
          keyOf    \* keyOf[e]: the key of e, 0 when it is not in the tree

treeVars == <<tree, keyOf>>

Sides == {"left", "right"}
Opposite(d) == IF d = "left" THEN "right" ELSE "left"
Pointers == Entries \cup {NULL}

TreeRecords ==
  [root : Pointers, up : [Pointers -> Pointers], left : [Pointers -> Pointers],
   right : [Pointers -> Pointers],
   color : [Pointers -> {"red", "black", "invalid"}]]

Color(t, n) == IF n = NULL THEN "black" ELSE t.color[n]
Paint(t, n, c) == [t EXCEPT !.color[n] = c]
SideOf(t, n) == IF n = t.left[t.up[n]] THEN "left" ELSE "right"
Members == {e \in Entries : keyOf[e] # 0}

Link(t, n, d, child) == [t EXCEPT ![d][n] = child]
SetUp(t, n, p) == IF n = NULL THEN t ELSE [t EXCEPT !.up[n] = p]

(* n takes the place of old below p, or as the root. *)
Replace(t, old, p, n) ==
  IF p = NULL THEN [t EXCEPT !.root = n]
  ELSE Link(t, p, IF old = t.left[p] THEN "left" ELSE "right", n)

-----------------------------------------------------------------------------
(* child hangs below n, on the side d. *)
Hang(t, n, d, child) == SetUp(Link(t, n, d, child), child, n)

(* y takes the place of x below the parent of x. *)
Lift(t, x, y) == Replace(SetUp(t, y, t.up[x]), x, t.up[x], y)

(* itree_left_rotate and itree_right_rotate: x goes down on the side d. *)
Rotate(t, x, d) ==
  LET y == t[Opposite(d)][x]
  IN Hang(Lift(Hang(t, x, Opposite(d), t[d][y]), x, y), y, d, x)

(* The end of the repair: x is red, and its red parent hangs, as x does,  *)
(* on the side d; the parent goes up.                                      *)
Raise(t, x, d) ==
  LET p  == t.up[x]
      gp == t.up[p]
  IN Rotate(Paint(Paint(t, p, "black"), gp, "red"), gp, Opposite(d))

(* A turn of the loop of itree_insert_fix: x is red, and so is its parent. *)
InsertTurn(t, x) ==
  LET p  == t.up[x]
      gp == t.up[p]
      d  == SideOf(t, p)
      y  == t[Opposite(d)][gp]
  IN IF Color(t, y) = "red"
     THEN <<Paint(Paint(Paint(t, p, "black"), y, "black"), gp, "red"), gp>>
     ELSE IF SideOf(t, x) # d THEN <<Raise(Rotate(t, p, d), p, d), p>>
     ELSE <<Raise(t, x, d), x>>

InsertLoop[s \in TreeRecords \X Pointers] ==
  IF Color(s[1], s[1].up[s[2]]) # "red" THEN s[1]
  ELSE InsertLoop[InsertTurn(s[1], s[2])]

InsertFix(t, x) ==
  LET t1 == InsertLoop[<<t, x>>]
  IN Paint(t1, t1.root, "black")

EarlyGoLeft(k, kx) == k <= kx \* mutant: an equal key goes first

(* itree_insert asks cmpfn on which side of x to go. *)
GoLeft(k, kx) == k < kx

SideFor(k, x) == IF GoLeft(k, keyOf[x]) THEN "left" ELSE "right"

(* The loop of itree_insert: the entry below which the key k comes. *)
Descend(t, k) ==
  LET below[x \in Entries] == LET c == t[SideFor(k, x)][x]
                              IN IF c = NULL THEN x ELSE below[c]
  IN IF t.root = NULL THEN NULL ELSE below[t.root]

(* itree_insert: z becomes a red leaf, then the tree is repaired. *)
Inserted(t, z, k) ==
  LET y  == Descend(t, k)
      t1 == [t EXCEPT !.left[z] = NULL, !.right[z] = NULL, !.up[z] = y,
                      !.color[z] = "red"]
      t2 == IF y = NULL THEN [t1 EXCEPT !.root = z]
            ELSE Link(t1, y, SideFor(k, y), z)
  IN InsertFix(t2, z)

-----------------------------------------------------------------------------
(* first, itree_minimum and itree_maximum: the end of the tree below x.    *)
Extreme(t, x, d) ==
  LET end[n \in Pointers] == IF t[d][n] = NULL THEN n ELSE end[t[d][n]]
  IN end[x]

First(t) == Extreme(t, t.root, "left")

(* The climb of itree_successor and itree_predecessor: up while x hangs on *)
(* the side d of its parent.                                               *)
Climb(t, x, d) ==
  LET climb[n \in Pointers] ==
        LET y == t.up[n]
        IN IF y # NULL /\ n = t[d][y] THEN climb[y] ELSE y
  IN climb[x]

StepParent(t, x, d) == \* mutant: the parent, on whichever side x hangs
  IF t[d][x] # NULL THEN Extreme(t, t[d][x], Opposite(d)) ELSE t.up[x]

(* itree_successor is StepTo(t, x, "right"), itree_predecessor the other.  *)
StepTo(t, x, d) ==
  IF t[d][x] # NULL THEN Extreme(t, t[d][x], Opposite(d)) ELSE Climb(t, x, d)

Successor(t, x) == StepTo(t, x, "right")
Predecessor(t, x) == StepTo(t, x, "left")

-----------------------------------------------------------------------------
(* The sibling of the child of p on the side d is red: it goes up, and a   *)
(* nephew is the new sibling, a black one.                                 *)
BlackSibling(t, p, d) ==
  LET w == t[Opposite(d)][p]
  IN IF Color(t, w) # "red" THEN t
     ELSE Rotate(Paint(Paint(t, w, "black"), p, "red"), p, d)

(* The nephew on the side d is the only red one: it becomes the sibling. *)
RedNephew(t, p, d) ==
  LET o == Opposite(d)
      w == t[o][p]
  IN IF Color(t, t[o][w]) # "black" THEN t
     ELSE Rotate(Paint(Paint(t, t[d][w], "black"), w, "red"), w, o)

(* The end of the repair: the sibling goes up with the color of p. *)
Settle(t, p, d) ==
  LET w  == t[Opposite(d)][p]
      t1 == Paint(Paint(t, w, Color(t, p)), p, "black")
  IN Rotate(Paint(t1, t[Opposite(d)][w], "black"), p, d)

(* A turn of the loop of itree_delete_fixup: the paths through x, which    *)
(* may be NULL, lack one black entry; p is the parent of x.                *)
DeleteTurn(t, x, p0) ==
  LET p  == IF x = NULL THEN p0 ELSE t.up[x]
      d  == IF x = t.left[p] THEN "left" ELSE "right"
      t1 == BlackSibling(t, p, d)
      w  == t1[Opposite(d)][p]
      t2 == Settle(RedNephew(t1, p, d), p, d)
  IN IF \A s \in Sides : Color(t1, t1[s][w]) = "black"
     THEN <<Paint(t1, w, "red"), p, p>>
     ELSE <<t2, t2.root, p>>

DeleteLoop[s \in TreeRecords \X Pointers \X Pointers] ==
  IF s[2] = s[1].root \/ Color(s[1], s[2]) = "red"
  THEN IF s[2] = NULL THEN s[1] ELSE Paint(s[1], s[2], "black")
  ELSE DeleteLoop[DeleteTurn(s[1], s[2], s[3])]

DeleteFix(t, x, p) == DeleteLoop[<<t, x, p>>]

(* itree_delete, the second part: y, which was unlinked, takes the links   *)
(* and the color of z.                                                     *)
TakePlace(t, z, y) ==
  LET t1 == Replace(t, z, t.up[z], y)
      t2 == SetUp(SetUp(t1, t1.left[z], y), t1.right[z], y)
  IN [t2 EXCEPT !.up[y] = t2.up[z], !.left[y] = t2.left[z],
                !.right[y] = t2.right[z], !.color[y] = t2.color[z]]

RemovedStale(t, z) == \* mutant: "if (p == z) p = y" is forgotten
  LET y  == IF t.left[z] # NULL /\ t.right[z] # NULL THEN Successor(t, z) ELSE z
      x  == IF t.left[y] # NULL THEN t.left[y] ELSE t.right[y]
      p  == t.up[y]
      t1 == Replace(SetUp(t, x, p), y, p, x)
      t2 == IF y = z THEN t1 ELSE TakePlace(t1, z, y)
      t3 == IF t.color[y] = "black" THEN DeleteFix(t2, x, p) ELSE t2
  IN [t3 EXCEPT !.up[z] = NULL, !.left[z] = NULL, !.right[z] = NULL,
                !.color[z] = "invalid"]

(* itree_delete: z, or its successor y when z has two children, is unlinked*)
(* and the tree repaired above its only child x.                           *)
Removed(t, z) ==
  LET y  == IF t.left[z] # NULL /\ t.right[z] # NULL THEN Successor(t, z) ELSE z
      x  == IF t.left[y] # NULL THEN t.left[y] ELSE t.right[y]
      p  == t.up[y]
      t1 == Replace(SetUp(t, x, p), y, p, x)
      t2 == IF y = z THEN t1 ELSE TakePlace(t1, z, y)
      t3 == IF t.color[y] = "black"
            THEN DeleteFix(t2, x, IF p = z THEN y ELSE p) ELSE t2
  IN [t3 EXCEPT !.up[z] = NULL, !.left[z] = NULL, !.right[z] = NULL,
                !.color[z] = "invalid"]

SearchAny(t, k) == \* mutant: the first match met on the way down
  LET find[s \in Pointers \X Pointers] ==
        LET n == s[1]
            ret == s[2]
        IN IF n = NULL \/ ret # NULL THEN ret
           ELSE IF k < keyOf[n] THEN find[<<t.left[n], ret>>]
           ELSE IF k > keyOf[n] THEN find[<<t.right[n], ret>>]
           ELSE find[<<t.left[n], n>>]
  IN find[<<t.root, NULL>>]

(* itree_core::search with the comparison of operator[]: "In case there    *)
(* are duplicate keys, keep looking for the first one".                    *)
Search(t, k) ==
  LET find[s \in Pointers \X Pointers] ==
        LET n == s[1]
            ret == s[2]
        IN IF n = NULL THEN ret
           ELSE IF k < keyOf[n] THEN find[<<t.left[n], ret>>]
           ELSE IF k > keyOf[n] THEN find[<<t.right[n], ret>>]
           ELSE find[<<t.left[n], n>>]
  IN find[<<t.root, NULL>>]

-----------------------------------------------------------------------------
(* clear *)
TreeInit ==
  /\ tree = [root  |-> NULL,
             up    |-> [e \in Pointers |-> NULL],
             left  |-> [e \in Pointers |-> NULL],
             right |-> [e \in Pointers |-> NULL],
             color |-> [e \in Pointers |-> "invalid"]]
  /\ keyOf = [e \in Entries |-> 0]

(* insert *)
TreeInsert(e, k) ==
  /\ e \notin Members
  /\ tree' = Inserted(tree, e, k)
  /\ keyOf' = [keyOf EXCEPT ![e] = k]

(* remove *)
TreeRemove(e) ==
  /\ e \in Members
  /\ tree' = Removed(tree, e)
  /\ keyOf' = [keyOf EXCEPT ![e] = 0]

TreeNext == \E e \in Entries : TreeRemove(e) \/ \E k \in Keys : TreeInsert(e, k)

TreeSpec == TreeInit /\ [][TreeNext]_treeVars

-----------------------------------------------------------------------------
(* All the paths down from an entry have the same number of black entries. *)
Balanced ==
  LET height[n \in Pointers] ==
        IF n = NULL THEN 1
        ELSE height[tree.left[n]] + (IF tree.color[n] = "black" THEN 1 ELSE 0)
  IN \A e \in Members : height[tree.left[e]] = height[tree.right[e]]

(* The assertions of __itree_check: the root is black, a red entry has     *)
(* black children, the same number of black entries lies on every path;    *)
(* and the parent of a child is the entry itself.                          *)
RedBlack ==
  /\ Color(tree, tree.root) = "black"
  /\ \A e \in Members :
       /\ tree.color[e] # "invalid"
       /\ tree.color[e] = "red" => \A d \in Sides :
                                    Color(tree, tree[d][e]) = "black"
       /\ \A d \in Sides : tree[d][e] # NULL => /\ tree[d][e] \in Members
                                               /\ tree.up[tree[d][e]] = e
  /\ tree.root # NULL => tree.up[tree.root] = NULL
  /\ Balanced

(* The entries in the order of the tree, each before those on its right. *)
InOrder(t) ==
  LET walk[n \in Pointers] ==
        IF n = NULL THEN <<>>
        ELSE walk[t.left[n]] \o <<n>> \o walk[t.right[n]]
  IN walk[t.root]

(* next and prev walk the whole tree from end to end, the way timecb_check *)
(* and timecb_remove use them.                                             *)
WalkBothWays ==
  LET s == InOrder(tree)
  IN /\ First(tree) = IF s = <<>> THEN NULL ELSE s[1]
     /\ \A i \in 1..Len(s) :
          /\ Successor(tree, s[i]) = IF i = Len(s) THEN NULL ELSE s[i + 1]
          /\ Predecessor(tree, s[i]) = IF i = 1 THEN NULL ELSE s[i - 1]

(* The tree is the list KeyedList promises: timers of the same date keep   *)
(* the order in which they were set, and no removal moves another entry.   *)
Ordered == INSTANCE KeyedList WITH list <- InOrder(tree)
ImplementsKeyedList == Ordered!ListSpec

(* A search answers the first entry with the key it is given: timecb_remove*)
(* goes forward from it and panics when it does not meet its timer.        *)
SearchFindsFirst ==
  \A k \in Keys :
    Search(tree, k) = Ordered!FirstWith(InOrder(tree), keyOf, k, NULL)
=============================================================================

----------------------------- MODULE KeyedList -----------------------------
(***************************************************************************)
(* What core.C expects of an itree: a list of entries in the order of      *)
(* their keys, entries with the same key in the order they were inserted.  *)
(* Timers are kept in two of them.                                         *)
(***************************************************************************)
EXTENDS Naturals, Sequences, SequencesExt

CONSTANTS Entries, \* the structures that can be in the list
          Keys     \* their keys, numbers

VARIABLES list,    \* the entries, first to last
          keyOf    \* keyOf[e]: the key of e while it is in the list, or 0

listVars == <<list, keyOf>>

-----------------------------------------------------------------------------
(* The list l with e in front of the first entry whose key is larger. *)
InsertSorted(l, ks, e) ==
  LET larger == SelectInSeq(l, LAMBDA f : ks[f] > ks[e])
  IN InsertAt(l, IF larger = 0 THEN Len(l) + 1 ELSE larger, e)

(* The first entry of l with the key k, or none. *)
FirstWith(l, ks, k, none) ==
  LET i == SelectInSeq(l, LAMBDA f : ks[f] = k)
  IN IF i = 0 THEN none ELSE l[i]

-----------------------------------------------------------------------------
ListInit == list = <<>> /\ keyOf = [e \in Entries |-> 0]

ListInsert(e, k) ==
  /\ ~Contains(list, e)
  /\ keyOf' = [keyOf EXCEPT ![e] = k]
  /\ list' = InsertSorted(list, keyOf', e)

ListRemove(e) ==
  /\ Contains(list, e)
  /\ keyOf' = [keyOf EXCEPT ![e] = 0]
  /\ list' = RemoveFirst(list, e)

ListNext == \E e \in Entries : ListRemove(e) \/ \E k \in Keys : ListInsert(e, k)

ListSpec == ListInit /\ [][ListNext]_listVars
=============================================================================

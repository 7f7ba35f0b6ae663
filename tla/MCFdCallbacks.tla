--------------------------- MODULE MCFdCallbacks ---------------------------
(***************************************************************************)
(* Two threads and one color, and four programs: one that reads and        *)
(* writes, one that reads while its color is stolen and gets errors, and   *)
(* two that close a descriptor and get its number again, from a task of    *)
(* its color or from any other.                                            *)
(***************************************************************************)
EXTENDS FdCallbacks

MCFdColor == [f \in Fds |-> 1]

Program(fds, cbs, ops) ==
  [fds |-> fds, cbs |-> cbs, ops |-> ops, stealing |-> FALSE,
   removes |-> FALSE, others |-> FALSE, reuses |-> FALSE, errors |-> FALSE,
   anywhere |-> TRUE]

ReadsAndWrites == Program({1, 2}, 3, {"read", "write"})
Stolen == [Program({1, 2}, 3, {"read"}) EXCEPT !.stealing = TRUE,
                                               !.errors = TRUE,
                                               !.anywhere = FALSE]
Closes == [Program({1}, 4, {"read"}) EXCEPT !.reuses = TRUE]
ClosesAndAccepts == [Closes EXCEPT !.anywhere = FALSE]

MCSettings == {ReadsAndWrites, Stolen, Closes, ClosesAndAccepts}

(* A program that reads and writes while its color is stolen. *)
MCStolenWrites == {[Stolen EXCEPT !.ops = {"read", "write"}, !.fds = {1},
                                  !.cbs = 4]}

(* Programs that find the faults of the others. *)
MCErrors   == {[Program({1}, 4, {"read", "write"}) EXCEPT !.errors = TRUE]}
MCRemoves  == {[Program({1}, 4, {"read", "write"}) EXCEPT !.removes = TRUE]}
MCOthers   == {[Program({1}, 4, {"read", "write"}) EXCEPT !.others = TRUE]}
MCAcceptor == {[Stolen EXCEPT !.errors = FALSE, !.anywhere = TRUE]}
=============================================================================

---------------------------- MODULE MCWebServer ----------------------------
(***************************************************************************)
(* The builds of the web server, each with the clients that it serves      *)
(* without a fault: those that send two requests at once; those that ask   *)
(* for what fails, one request at a time; many, on several sockets; those  *)
(* that leave without their answer, in the middle of a request, or after a *)
(* special one; and those of USE_SENDFILE.                                 *)
(***************************************************************************)
EXTENDS WebServer

Server == [sockets |-> {1}, kinds |-> {"file"}, gzip |-> FALSE,
           sendfile |-> FALSE, maxClients |-> 1, batch |-> 1, maxLength |-> 9,
           clients |-> 2, requests |-> 2, pipelined |-> 1, hasty |-> FALSE,
           halves |-> FALSE]

Errors == {"file", "missing", "bad"}

Pipelined == [Server EXCEPT !.pipelined = 2, !.halves = TRUE]
Failing   == [Server EXCEPT !.kinds = Errors \cup {"special"},
                            !.halves = TRUE]
Many      == [Server EXCEPT !.sockets = {1, 2, 3}, !.maxClients = 2,
                            !.batch = 2, !.clients = 3, !.requests = 1]
Hasty     == [Server EXCEPT !.gzip = TRUE, !.clients = 3,
                            !.hasty = TRUE]
Cutting   == [Hasty EXCEPT !.clients = 2, !.halves = TRUE]
Measuring == [Hasty EXCEPT !.kinds = {"file", "special"}]
Sendfile  == [Server EXCEPT !.kinds = Errors, !.sendfile = TRUE]

MCSettings == {Pipelined, Failing, Many, Hasty, Cutting, Measuring,
               Sendfile}

(* Two requests at once, the first of which fails. *)
MCFailingPipelined == {[Pipelined EXCEPT !.kinds = Errors, !.requests = 3]}

(* Clients that find the faults of the server. *)
MCImpatient == {[Pipelined EXCEPT !.requests = 3, !.pipelined = 3]}
MCLeaving   == {[s EXCEPT !.hasty = TRUE] : s \in MCImpatient}
MCLeaving404 == {[s EXCEPT !.hasty = TRUE, !.pipelined = 1] :
                   s \in MCFailingPipelined}
MCLong      == {[s EXCEPT !.maxLength = 3] : s \in MCImpatient}
MCHalf      == {Cutting}
MCSpecialLeft  == {Measuring}
MCSpecialFirst == {[Pipelined EXCEPT !.kinds = {"file", "special"}]}
=============================================================================

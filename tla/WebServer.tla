----------------------------- MODULE WebServer -----------------------------
(***************************************************************************)
(* The simple web server, as it is built: a color per connection (the      *)
(* number of its socket), so the handlers of a connection run one at a     *)
(* time, in the order they were posted; a handler is one step.             *)
(*                                                                         *)
(* What a client sends is a sequence of chunks.  A chunk <<n, "part">> is  *)
(* a beginning of its n-th request, and <<n, kind>> ends that request: the *)
(* text up to and with the empty line.  The kind says what the request     *)
(* asks for: a file of the cache, a missing one, a special file of the     *)
(* measurements, or nothing that can be parsed.  A read takes all that has *)
(* come, and the client goes on sending between two reads.                 *)
(*                                                                         *)
(* A step that reaches undefined behaviour or a failed assertion names it  *)
(* in fault, and the server stops there.                                   *)
(***************************************************************************)
EXTENDS Integers, FiniteSetsExt, SequencesExt

CONSTANTS
  Sockets,   \* descriptors, and colors, of the connections
  Settings   \* builds of the server, and clients

(* kinds: kinds of requests: "file", "missing", "special" or "bad";        *)
(* gzip, sendfile: the USE_GZIP and USE_SENDFILE build options; maxClients,*)
(* batch, maxLength: MAX_SIMULTANEOUS_CLIENTS, ACCEPT_BATCH_SIZE and       *)
(* MAX_REQUEST_SIZE - 1, in chunks; pipelined: how many requests a client  *)
(* sends before it gets an answer; hasty: clients may close before they    *)
(* have all their answers; halves: they may send a request in two chunks.  *)
(* sockets, clients and requests bound the descriptors in use, the         *)
(* connections, and the requests of each.                                  *)
ASSUME WebAssumption ==
  /\ IsFiniteSet(Sockets)
  /\ \A s \in Settings :
       /\ s.sockets \subseteq Sockets
       /\ s.kinds \subseteq {"file", "missing", "special", "bad"}
       /\ {s.maxClients, s.batch, s.maxLength, s.clients, s.requests, s.pipelined}
            \subseteq Nat \ {0}
       /\ {s.gzip, s.sendfile, s.hasty, s.halves} \subseteq BOOLEAN

VARIABLES
  setting,  \* the build and the clients
  conn,     \* conn[s]: number of the connection of socket s, 0 when closed
  backlog,  \* clients that want to connect
  accepted, \* nb_client_accepted
  decs,     \* number of Dec_Accepted_Clients posted
  peer,     \* peer[s]: the client's end of the connection is open
  wire,     \* what the client has sent and the server has not read
  asked,    \* number of requests the client has begun
  half,     \* the last of them is not complete
  got,      \* the answers the client has got: the numbers of its requests
  cbs,      \* messages of the ReadRequest callbacks of s, in order
  queued,   \* the check of s is posted
  tasks,    \* tasks[s]: the handlers posted on color s
  msgs,     \* the messages allocated so far
  freed,    \* those that were deleted
  files,    \* those whose read_fd is open
  pending,  \* pending_request
  treats,   \* nb_pending_treatments_fd
  fault     \* what went wrong

clientVars == <<backlog, peer, wire, asked, half>>
readVars   == <<cbs, queued>>
listVars   == <<pending, treats>>
memVars    == <<msgs, freed, files>>
vars == <<setting, conn, accepted, decs, clientVars, got, readVars, tasks,
          memVars, listVars, fault>>

NULL == 0

(* get_new_msg *)
NewMsg(s) ==
  [conn |-> conn[s], data |-> <<>>, length |-> 0, reqEnd |-> 0,
   close |-> FALSE, next |-> NULL]

Init ==
  /\ setting \in Settings
  /\ conn = [s \in Sockets |-> 0] /\ backlog = setting.clients
  /\ accepted = 0 /\ decs = 0
  /\ peer = [s \in Sockets |-> FALSE] /\ wire = [s \in Sockets |-> <<>>]
  /\ asked = [s \in Sockets |-> 0] /\ half = [s \in Sockets |-> FALSE]
  /\ got = [s \in Sockets |-> <<>>]
  /\ cbs = [s \in Sockets |-> <<>>] /\ queued = [s \in Sockets |-> FALSE]
  /\ tasks = [s \in Sockets |-> <<>>]
  /\ msgs = <<>> /\ freed = {} /\ files = {}
  /\ pending = [s \in Sockets |-> NULL] /\ treats = [s \in Sockets |-> 0]
  /\ fault = "none"

Task(h, m) == [handler |-> h, msg |-> m]
Runs(s, h) == tasks[s] # <<>> /\ Head(tasks[s]).handler = h
TheMsg(s)  == Head(tasks[s]).msg

(* The handler at the head of s ends and has posted ts.                    *)
Posts(s, ts) == tasks' = [tasks EXCEPT ![s] = Tail(@) \o ts]

-----------------------------------------------------------------------------
(* The clients *)

Send(s, kind) ==
  /\ peer[s] /\ conn[s] # 0
  /\ kind = "part" => setting.halves
  /\ IF half[s] THEN kind # "part" /\ UNCHANGED asked
     ELSE /\ asked[s] < setting.requests
          /\ asked[s] - Len(got[s]) < setting.pipelined
          /\ asked' = [asked EXCEPT ![s] = @ + 1]
  /\ half' = [half EXCEPT ![s] = kind = "part"]
  /\ wire' = [wire EXCEPT ![s] = Append(@, <<asked'[s], kind>>)]
  /\ UNCHANGED <<conn, backlog, peer, accepted, decs, got, readVars, tasks,
                 memVars, listVars, fault>>

(* A reset takes what was not read with it. *)
Hangup(s) ==
  /\ peer[s] /\ conn[s] # 0
  /\ setting.hasty \/ (asked[s] = Len(got[s]) /\ asked[s] > 0)
  /\ peer' = [peer EXCEPT ![s] = FALSE]
  /\ wire' \in {wire, [wire EXCEPT ![s] = <<>>]}
  /\ UNCHANGED <<conn, backlog, asked, half, accepted, decs, got, readVars,
                 tasks, memVars, listVars, fault>>

-----------------------------------------------------------------------------
BatchAllowed(n) == n <= setting.batch /\ n <= setting.maxClients - accepted

(* Accept: a batch of connections, each with a message and a task that     *)
(* will register ReadRequest.  It runs on the color of                     *)
(* Dec_Accepted_Clients.                                                   *)
Accept ==
  /\ backlog > 0 /\ accepted < setting.maxClients
  /\ \E batch \in SUBSET {s \in setting.sockets : conn[s] = 0} :
       LET n == Cardinality(batch)
           order == SetToSeq(batch)
           Index(s) == CHOOSE i \in 1 .. n : order[i] = s
       IN /\ n > 0
          /\ n <= backlog /\ BatchAllowed(n)
          /\ conn' = [s \in Sockets |->
                        IF s \in batch THEN setting.clients - backlog + Index(s)
                                       ELSE conn[s]]
          /\ backlog' = backlog - n /\ accepted' = accepted + n
          /\ peer' = [s \in Sockets |-> s \in batch \/ peer[s]]
          /\ asked' = [s \in Sockets |-> IF s \in batch THEN 0 ELSE asked[s]]
          /\ half' = [s \in Sockets |-> s \notin batch /\ half[s]]
          /\ got' = [s \in Sockets |-> IF s \in batch THEN <<>> ELSE got[s]]
          /\ msgs' = msgs \o [i \in 1 .. n |->
                                [NewMsg(order[i]) EXCEPT
                                   !.conn = conn'[order[i]]]]
          /\ tasks' = [s \in Sockets |->
                         IF s \in batch
                         THEN Append(tasks[s],
                                     Task("RegisterRead", Len(msgs) + Index(s)))
                         ELSE tasks[s]]
  /\ UNCHANGED <<decs, wire, readVars, freed, files, listVars, fault>>

DecAcceptedClients ==
  /\ decs > 0 /\ decs' = decs - 1
  /\ accepted' = accepted - 1
  /\ fault' = IF accepted' < 0 THEN "nb_client_accepted" ELSE fault
  /\ UNCHANGED <<conn, clientVars, got, readVars, tasks, memVars, listVars>>

(* _register_read *)
RegisterRead(s) ==
  /\ Runs(s, "RegisterRead")
  /\ cbs' = [cbs EXCEPT ![s] = Append(@, TheMsg(s))]
  /\ Posts(s, <<>>)
  /\ UNCHANGED <<conn, accepted, decs, clientVars, got, queued, memVars,
                 listVars, fault>>

(* The polling task finds that s can be read. *)
Poll(s) ==
  /\ conn[s] # 0 /\ cbs[s] # <<>> /\ ~queued[s]
  /\ wire[s] # <<>> \/ ~peer[s]
  /\ queued' = [queued EXCEPT ![s] = TRUE]
  /\ tasks' = [tasks EXCEPT ![s] = Append(@, Task("ReadRequest", Head(cbs[s])))]
  /\ UNCHANGED <<conn, accepted, decs, clientVars, got, cbs, memVars, listVars,
                 fault>>

-----------------------------------------------------------------------------
(* The list of pending messages, linked by next *)

ListFrom(ms, m) ==
  LET From[k \in NULL .. Len(ms)] ==
        IF k = NULL THEN <<>> ELSE <<k>> \o From[ms[k].next]
  IN From[m]

(* insert_in_pending_list: msg is linked behind the last one. *)
LinkLast(ms, list, m) ==
  IF list = NULL THEN ms ELSE [ms EXCEPT ![Last(ListFrom(ms, list))].next = m]

(* free_pending_message_list(msg) *)
PendingMsgs(s) == ToSet(ListFrom(msgs, pending[s]))
FreedPending(s, m) == freed \cup (PendingMsgs(s) \ {m})

(* pending_request[s] is left as it is, and may point to freed messages.   *)
TouchPending(s) ==
  fault' = IF PendingMsgs(s) \cap freed # {} THEN "freed message" ELSE fault

-----------------------------------------------------------------------------
(* ReadRequest *)

(* fdcb(socket, selread, NULL) *)
StopReading(s) == cbs' = [cbs EXCEPT ![s] = <<>>]

Ends(data) == {i \in DOMAIN data : data[i][2] # "part"}
FirstEnd(data) == IF Ends(data) = {} THEN 0 ELSE Min(Ends(data))

(* A set of numbers, as an increasing sequence. *)
InOrderOf(S) ==
  CHOOSE f \in [1 .. Cardinality(S) -> S] :
    \A i, j \in DOMAIN f : i < j => f[i] < f[j]

(* The messages for the requests that follow the first one in data, and    *)
(* the one that the next ReadRequest completes.  The length of each is     *)
(* that of all that follows, not of its request.                           *)
Following(m, data) ==
  LET ends == InOrderOf(Ends(data))
      first == Len(msgs) + 1
      Rest(i) == Len(data) - ends[i]
      Request(i) == [m EXCEPT !.data = SubSeq(data, ends[i] + 1, ends[i + 1]),
                              !.length = Rest(i), !.reqEnd = Rest(i),
                              !.next = IF i + 1 < Len(ends) THEN first + i
                                                            ELSE NULL]
      rest == SubSeq(data, Last(ends) + 1, Len(data))
  IN [i \in 1 .. Len(ends) - 1 |-> Request(i)]
       \o <<[m EXCEPT !.data = rest, !.length = Len(rest)]>>

SuccessNow(s, m, ms, out) == \* mutant: other treatments are not waited for
  /\ treats' = [treats EXCEPT ![s] = @ + 1]
  /\ msgs' = IF out = NULL THEN ms ELSE LinkLast(ms, pending[s], out)
  /\ pending' = [pending EXCEPT ![s] = IF @ = NULL THEN out ELSE @]
  /\ Posts(s, <<Task("ParseRequest", m)>>)
  /\ UNCHANGED fault

(* The label success: ms are the messages with m complete, out the first   *)
(* of the messages that follow it.                                         *)
Success(s, m, ms, out) ==
  LET busy == treats[s] # 0
      ms1  == IF busy THEN LinkLast(ms, pending[s], m) ELSE ms
      list == IF busy /\ pending[s] = NULL THEN m ELSE pending[s]
  IN /\ fault' = IF ~busy /\ pending[s] # NULL THEN "pending list" ELSE fault
     /\ treats' = [treats EXCEPT ![s] = IF busy THEN @ ELSE @ + 1]
     /\ msgs' = IF out = NULL THEN ms1 ELSE LinkLast(ms1, list, out)
     /\ pending' = [pending EXCEPT ![s] = IF list = NULL THEN out ELSE list]
     /\ Posts(s, IF busy THEN <<>> ELSE <<Task("ParseRequest", m)>>)

ReadErrorKeeps(s, m) == \* mutant: the connection is not closed
  /\ freed' = FreedPending(s, m)
  /\ TouchPending(s)
  /\ Posts(s, <<>>)
  /\ UNCHANGED <<msgs, listVars>>

(* The client closed, and nothing was read.                                *)
ReadError(s, m) ==
  /\ freed' = FreedPending(s, m)
  /\ TouchPending(s)
  /\ Posts(s, <<Task("Close", m)>>)
  /\ UNCHANGED <<msgs, listVars>>

Registered(s) == IF cbs[s] = <<>> THEN NULL ELSE Head(cbs[s])

(* do_fd_check calls it, and lets the next callback take its place when it *)
(* called fdcb_finished.                                                   *)
ReadRequest(s) ==
  /\ Runs(s, "ReadRequest")
  /\ LET m    == TheMsg(s)
         data == msgs[m].data \o wire[s]
         eof  == ~peer[s]
         ms   == [msgs EXCEPT ![m].data = data, ![m].length = Len(data),
                              ![m].reqEnd = FirstEnd(data), ![m].close = eof]
         more == Following(NewMsg(s), data)
     IN IF Registered(s) # m \* its callback was freed in the meantime
        THEN fault' = "freed callback"
             /\ UNCHANGED <<cbs, tasks, msgs, freed, listVars>>
        ELSE IF Len(data) >= setting.maxLength
        THEN fault' = "request too long"
             /\ UNCHANGED <<cbs, tasks, msgs, freed, listVars>>
        ELSE IF data = <<>>
        THEN ReadError(s, m) /\ StopReading(s)
        ELSE IF Ends(data) = {}
        THEN /\ msgs' = ms /\ Posts(s, <<>>)
             /\ IF eof THEN StopReading(s) ELSE UNCHANGED cbs
             /\ UNCHANGED <<freed, listVars, fault>>
        ELSE IF eof
        THEN Success(s, m, ms, NULL) /\ StopReading(s) /\ UNCHANGED freed
        ELSE /\ Success(s, m, ms \o more,
                        IF Len(more) > 1 THEN Len(msgs) + 1 ELSE NULL)
             /\ cbs' = [cbs EXCEPT ![s] =
                          Append(Tail(@), Len(msgs) + Len(more))]
             /\ UNCHANGED freed
  /\ wire' = [wire EXCEPT ![s] = <<>>]
  /\ queued' = [queued EXCEPT ![s] = FALSE]
  /\ UNCHANGED <<conn, accepted, decs, backlog, peer, asked, half, got, files>>

-----------------------------------------------------------------------------
(* The treatment of a request *)

(* _parse_http_request: the first request of the message. *)
Asked(m) == msgs[m].data[FirstEnd(msgs[m].data)]

(* A special request is the end of its treatment: nothing answers it. *)
ParseRequest(s) ==
  /\ Runs(s, "ParseRequest")
  /\ LET m == TheMsg(s)
         kind == Asked(m)[2]
     IN CASE kind = "bad" ->
               /\ StopReading(s) /\ Posts(s, <<Task("BadRequest", m)>>)
               /\ UNCHANGED <<freed, treats, fault>>
          [] kind # "bad" /\ msgs[m].close ->
               /\ freed' = FreedPending(s, m) /\ TouchPending(s)
               /\ treats' = [treats EXCEPT ![s] = 0]
               /\ Posts(s, <<Task("Close", m)>>) /\ UNCHANGED cbs
          [] kind # "bad" /\ ~msgs[m].close ->
               /\ Posts(s, IF kind = "special" THEN <<>>
                           ELSE <<Task(IF setting.sendfile THEN "WriteHeaders"
                                                      ELSE "CheckInCache", m)>>)
               /\ UNCHANGED <<cbs, freed, treats, fault>>
  /\ UNCHANGED <<conn, accepted, decs, clientVars, got, queued, msgs, files,
                 pending>>

CheckInCache(s) ==
  /\ Runs(s, "CheckInCache")
  /\ LET m == TheMsg(s)
     IN IF Asked(m)[2] = "missing"
        THEN /\ StopReading(s) /\ Posts(s, <<Task("FourOhFor", m)>>)
        ELSE /\ Posts(s, <<Task(IF setting.gzip THEN "CompressResponse"
                                               ELSE "Write", m)>>)
             /\ UNCHANGED cbs
  /\ UNCHANGED <<conn, accepted, decs, clientVars, got, queued, memVars,
                 listVars, fault>>

(* The response is a copy of the file, compressed. *)
CompressResponse(s) ==
  /\ Runs(s, "CompressResponse")
  /\ Posts(s, <<Task("Write", TheMsg(s))>>)
  /\ UNCHANGED <<conn, accepted, decs, clientVars, got, readVars, memVars,
                 listVars, fault>>

(* The same with USE_SENDFILE: the header, held back by TCP_CORK ...        *)
WriteHeaders(s) ==
  /\ Runs(s, "WriteHeaders")
  /\ LET m == TheMsg(s)
     IN IF Asked(m)[2] = "missing"
        THEN /\ StopReading(s) /\ Posts(s, <<Task("FourOhFor", m)>>)
        ELSE /\ \E next \in {"WriteHeaders",
                             IF peer[s] THEN "SendFile" ELSE "FreeRequest"} :
                  Posts(s, <<Task(next, m)>>)
             /\ UNCHANGED cbs
  /\ UNCHANGED <<conn, accepted, decs, clientVars, got, queued, memVars,
                 listVars, fault>>

(* ... then the file, whose last part lets the answer go.                  *)
SendFileAll(s) ==
  /\ Runs(s, "SendFile") /\ peer[s]
  /\ got' = [got EXCEPT ![s] = Append(@, Asked(TheMsg(s))[1])]
  /\ files' = files \ {TheMsg(s)}
  /\ Posts(s, <<Task("FreeRequest", TheMsg(s))>>)
  /\ UNCHANGED <<conn, accepted, decs, clientVars, readVars, msgs, freed,
                 listVars, fault>>

(* The first call opens the file; after an error it stays open.            *)
SendFileSome(s) ==
  /\ Runs(s, "SendFile")
  /\ files' = files \cup {TheMsg(s)}
  /\ \E next \in {"SendFile"} \cup (IF peer[s] THEN {} ELSE {"FreeRequest"}) :
       Posts(s, <<Task(next, TheMsg(s))>>)
  /\ UNCHANGED <<conn, accepted, decs, clientVars, got, readVars, msgs, freed,
                 listVars, fault>>

WriteAllOnly(s) == \* mutant: the message is not freed
  /\ Runs(s, "Write") /\ peer[s]
  /\ got' = [got EXCEPT ![s] = Append(@, Asked(TheMsg(s))[1])]
  /\ Posts(s, <<>>)
  /\ UNCHANGED <<conn, accepted, decs, clientVars, readVars, memVars, listVars,
                 fault>>

(* The whole response, or what is left of it, is written.                  *)
WriteAll(s) ==
  /\ Runs(s, "Write") /\ peer[s]
  /\ got' = [got EXCEPT ![s] = Append(@, Asked(TheMsg(s))[1])]
  /\ Posts(s, <<Task("FreeRequest", TheMsg(s))>>)
  /\ UNCHANGED <<conn, accepted, decs, clientVars, readVars, memVars, listVars,
                 fault>>

(* A part of it, or nothing (EAGAIN): the rest is for another turn.        *)
WriteSome(s) ==
  /\ Runs(s, "Write")
  /\ Posts(s, <<Task("Write", TheMsg(s))>>)
  /\ UNCHANGED <<conn, accepted, decs, clientVars, got, readVars, memVars,
                 listVars, fault>>

(* EPIPE or ECONNRESET.                                                    *)
WriteFails(s) ==
  /\ Runs(s, "Write") /\ ~peer[s]
  /\ Posts(s, <<Task("FreeRequest", TheMsg(s))>>)
  /\ UNCHANGED <<conn, accepted, decs, clientVars, got, readVars, memVars,
                 listVars, fault>>

FreeRequestAlone(s) == \* mutant: the pending requests are left
  /\ Runs(s, "FreeRequest")
  /\ freed' = freed \cup {TheMsg(s)}
  /\ treats' = [treats EXCEPT ![s] = 0] /\ Posts(s, <<>>)
  /\ UNCHANGED <<conn, accepted, decs, clientVars, got, readVars, msgs, files,
                 pending, fault>>

(* take_care_of_HTTP_pipelining when a message is pending. *)
FreeRequest(s) ==
  /\ Runs(s, "FreeRequest")
  /\ freed' = freed \cup {TheMsg(s)}
  /\ LET p == pending[s]
     IN IF p = NULL
        THEN /\ treats' = [treats EXCEPT ![s] = @ - 1]
             /\ fault' = IF treats'[s] # 0 THEN "treatments" ELSE fault
             /\ Posts(s, <<>>) /\ UNCHANGED pending
        ELSE /\ fault' = IF p \in freed THEN "freed message"
                         ELSE IF msgs[p].reqEnd # msgs[p].length
                         THEN "length of a request" ELSE fault
             /\ pending' = [pending EXCEPT ![s] = msgs[p].next]
             /\ Posts(s, <<Task("ParseRequest", p)>>) /\ UNCHANGED treats
  /\ UNCHANGED <<conn, accepted, decs, clientVars, got, readVars, msgs, files>>

(* FourOhFor and BadRequest: an answer, then the end of the connection. *)
ErrorAnswer(s) ==
  /\ Runs(s, "FourOhFor") \/ Runs(s, "BadRequest")
  /\ LET m == TheMsg(s)
     IN /\ got' = IF peer[s] THEN [got EXCEPT ![s] = Append(@, Asked(m)[1])]
                             ELSE got
        /\ freed' = FreedPending(s, m) /\ TouchPending(s)
        /\ treats' = [treats EXCEPT ![s] = 0]
        /\ Posts(s, <<Task("Close", m)>>)
  /\ UNCHANGED <<conn, accepted, decs, clientVars, readVars, msgs, files,
                 pending>>

(* "Can we close the fd ? Yes if no pending treatment is scheduled !" *)
CloseWaits(s) ==
  /\ Runs(s, "Close") /\ treats[s] # 0
  /\ Posts(s, <<Task("Close", TheMsg(s))>>)
  /\ UNCHANGED <<conn, accepted, decs, clientVars, got, readVars, memVars,
                 listVars, fault>>

CloseAnyway(s) == \* mutant: pending treatments are not waited for
  /\ Runs(s, "Close")
  /\ conn' = [conn EXCEPT ![s] = 0]
  /\ decs' = decs + 1
  /\ peer' = [peer EXCEPT ![s] = FALSE] /\ wire' = [wire EXCEPT ![s] = <<>>]
  /\ freed' = freed \cup {TheMsg(s)}
  /\ fault' = IF conn[s] # msgs[TheMsg(s)].conn THEN "closed twice" ELSE fault
  /\ Posts(s, <<>>)
  /\ UNCHANGED <<accepted, backlog, asked, half, got, readVars, msgs, files,
                 listVars>>

CloseSilently(s) == \* mutant: Dec_Accepted_Clients is not posted
  /\ Runs(s, "Close") /\ treats[s] = 0
  /\ conn' = [conn EXCEPT ![s] = 0]
  /\ peer' = [peer EXCEPT ![s] = FALSE] /\ wire' = [wire EXCEPT ![s] = <<>>]
  /\ freed' = freed \cup {TheMsg(s)}
  /\ fault' = IF conn[s] # msgs[TheMsg(s)].conn THEN "closed twice" ELSE fault
  /\ Posts(s, <<>>)
  /\ UNCHANGED <<accepted, decs, backlog, asked, half, got, readVars, msgs,
                 files, listVars>>

(* close fails, or takes another connection, when this one was closed.     *)
Close(s) ==
  /\ Runs(s, "Close") /\ treats[s] = 0
  /\ conn' = [conn EXCEPT ![s] = 0]
  /\ decs' = decs + 1
  /\ peer' = [peer EXCEPT ![s] = FALSE] /\ wire' = [wire EXCEPT ![s] = <<>>]
  /\ freed' = freed \cup {TheMsg(s)}
  /\ fault' = IF conn[s] # msgs[TheMsg(s)].conn THEN "closed twice" ELSE fault
  /\ Posts(s, <<>>)
  /\ UNCHANGED <<accepted, backlog, asked, half, got, readVars, msgs, files,
                 listVars>>

-----------------------------------------------------------------------------
Treatment(s) ==
  \/ ParseRequest(s) \/ CheckInCache(s) \/ CompressResponse(s) \/ WriteAll(s)
  \/ WriteSome(s) \/ WriteFails(s) \/ WriteHeaders(s) \/ SendFileAll(s)
  \/ SendFileSome(s) \/ FreeRequest(s) \/ ErrorAnswer(s)

Handler(s) ==
  \/ RegisterRead(s) \/ ReadRequest(s) \/ Treatment(s)
  \/ CloseWaits(s) \/ Close(s)

Client(s) == (\E k \in setting.kinds \cup {"part"} : Send(s, k)) \/ Hangup(s)

Goes == fault = "none" /\ UNCHANGED setting

Next ==
  /\ Goes
  /\ \/ Accept \/ DecAcceptedClients
     \/ \E s \in Sockets : Poll(s) \/ Handler(s) \/ Client(s)

Spec == Init /\ [][Next]_vars

(* The polling task comes round, a posted handler runs, and a write ends:  *)
(* the client reads, or has gone.                                          *)
Fairness ==
  /\ WF_vars(Goes /\ Accept)
  /\ WF_vars(Goes /\ DecAcceptedClients)
  /\ \A s \in Sockets :
       /\ WF_vars(Goes /\ Poll(s))
       /\ WF_vars(Goes /\ Handler(s))
       /\ SF_vars(Goes /\ (WriteAll(s) \/ WriteFails(s)))

FairSpec == Spec /\ Fairness

-----------------------------------------------------------------------------
Treating == {"ParseRequest", "CheckInCache", "CompressResponse", "Write",
             "WriteHeaders", "SendFile", "FreeRequest", "FourOhFor",
             "BadRequest"}
InTreatment(s) == {i \in DOMAIN tasks[s] : tasks[s][i].handler \in Treating}

(* The answers come in the order of the requests (HTTP pipelining).        *)
InOrder == \A s \in Sockets : \A i \in DOMAIN got[s] : got[s][i] = i

(* nb_client_accepted is the number of connections that are open, or whose *)
(* Dec_Accepted_Clients is to come: the limit of Accept is on connections. *)
ClientsCounted ==
  accepted = Cardinality({s \in Sockets : conn[s] # 0}) + decs

(* "Can we close the fd ? Yes if no pending treatment is scheduled !": a   *)
(* closed connection has no handler left but those of the next one.        *)
ClosedWhenDone ==
  \A s \in Sockets :
    conn[s] = 0 => InTreatment(s) = {} /\ pending[s] = NULL

(* Every message is freed, or a handler, a callback or a list has it; but  *)
(* the message for the next read is lost with the callback that a request  *)
(* which fails removes, and so is the one that holds the half of a request *)
(* of a client that leaves.  A message that is freed has its file closed.  *)
NothingLost ==
  /\ setting.kinds = {"file"} /\ ~(setting.hasty /\ setting.halves) =>
       DOMAIN msgs \ freed \subseteq
         UNION {ToSet(cbs[s]) \cup PendingMsgs(s)
                  \cup {tasks[s][i].msg : i \in DOMAIN tasks[s]} : s \in Sockets}
  /\ files \cap freed = {}

(* No assertion fails, and nothing that was freed is used.                 *)
NoFault == fault = "none"

(* assert(req_size == msg->length), of take_care_of_HTTP_pipelining        *)
RequestAlone == fault # "length of a request"
(* assert(first_pending(msg->socket) == NULL), of ReadRequest              *)
PendingEmpty == fault # "pending list"
(* pop_first_pending gives a message that exists.                          *)
PendingExists == fault # "freed message"
(* close does not fail.                                                    *)
ClosedOnce == fault # "closed twice"
(* A request that fills the buffer gets its connection closed.             *)
LongKicked == fault # "request too long"

(* What the client of s sent and the server has read, or can read.         *)
Chunks(s) ==
  ToSet(wire[s]) \cup
    UNION {ToSet(msgs[m].data) : m \in {k \in DOMAIN msgs : msgs[k].conn = conn[s]}}

AskedSpecial(s) == \E c \in Chunks(s) : c[2] = "special"
HasHalf(s) ==
  \E n \in 1 .. asked[s] :
    {c \in Chunks(s) : c[1] = n} = {<<n, "part">>}

Left(s) == conn[s] # 0 /\ ~peer[s]

RequestNumbers == 1 .. Max({x.requests : x \in Settings})

(* A request gets its answer, the file or the 404 or 400 that ends the     *)
(* connection, before the server closes, unless its client leaves first.   *)
(* It speaks of the requests up to the first special one or the first that *)
(* fails of a connection: a special one gets no answer, and neither do     *)
(* those behind it.                                                        *)
Ending(s) == {c \in Chunks(s) : c[2] \in {"special", "missing", "bad"}}

EveryRequestAnswered ==
  \A s \in Sockets, n \in RequestNumbers :
    /\ peer[s] /\ asked[s] >= n /\ ~half[s]
    /\ \A c \in Ending(s) : c[1] >= n /\ c # <<n, "special">>
    ~> n \in ToSet(got[s]) \/ Left(s)

(* A file that was asked for is sent, whatever was asked for before.       *)
FilesAnswered ==
  \A s \in Sockets, n \in RequestNumbers :
    (peer[s] /\ <<n, "file">> \in Chunks(s)) ~> (n \in ToSet(got[s]) \/ Left(s))

(* README, "(Client closed connection)" -> Close: the connection of a      *)
(* client that has gone is closed, when what the server has got of it ends *)
(* with a whole request and none of them is special.                       *)
ClosedAfterRequests ==
  \A s \in Sockets :
    (Left(s) /\ ~HasHalf(s) /\ ~AskedSpecial(s)) ~> conn[s] = 0

(* The same arrow, of every client that has gone.                          *)
ClosedAfterClient == \A s \in Sockets : Left(s) ~> conn[s] = 0
=============================================================================

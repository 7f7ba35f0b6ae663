----------------------------- MODULE WebProofs ------------------------------
(***************************************************************************)
(* What is proved of the web server, for any number of connections, any    *)
(* build and any bounds: with clients and a build that are Careful no      *)
(* assertion fails, nothing freed is used and no connection is closed      *)
(* twice, the answers come in the order of the requests, a closed          *)
(* connection has nothing left to do, the connections are counted right,   *)
(* and no message is lost.                                                 *)
(***************************************************************************)
EXTENDS WebServer, ListLemmas, FiniteSetTheorems

(* One request of a connection at a time, or two in all. *)
OneByOne  == setting.pipelined = 1 \/ setting.requests = 1
AtMostTwo == setting.requests <= 2 /\ ~setting.hasty

(* Requests that do not end in an error. *)
NoError == setting.kinds \subseteq {"file", "special"}

(* What the faults that the runs of WebLength, WebPendingFreed, WebTwice,  *)
(* WebLong and WebPendingLeft show ask of the clients and of the build:    *)
(* more requests at once, a client that leaves before its answers, or an   *)
(* error behind another request, and a buffer too short for what may come. *)
Careful ==
  /\ OneByOne \/ (AtMostTwo /\ NoError)
  /\ setting.hasty => NoError
  /\ setting.maxLength > IF OneByOne THEN 2 ELSE 4

-----------------------------------------------------------------------------
(* The inductive invariant, in parts *)

Chunk    == (Nat \ {0}) \X {"file", "missing", "special", "bad", "part"}
Message  == [conn : Nat, data : Seq(Chunk), length : Nat, reqEnd : Nat,
             close : BOOLEAN, next : Nat]
Handlers == Treating \cup {"RegisterRead", "ReadRequest", "Close"}

TypeOK ==
  /\ setting \in Settings
  /\ conn \in [Sockets -> Nat] /\ backlog \in Nat
  /\ accepted \in Int /\ decs \in Nat
  /\ peer \in [Sockets -> BOOLEAN] /\ wire \in [Sockets -> Seq(Chunk)]
  /\ asked \in [Sockets -> Nat] /\ half \in [Sockets -> BOOLEAN]
  /\ got \in [Sockets -> Seq(Nat)]
  /\ cbs \in [Sockets -> Seq(Nat)] /\ queued \in [Sockets -> BOOLEAN]
  /\ tasks \in [Sockets -> Seq([handler : Handlers, msg : Nat])]
  /\ msgs \in Seq(Message) /\ freed \subseteq DOMAIN msgs
  /\ files \subseteq Nat
  /\ pending \in [Sockets -> Nat] /\ treats \in [Sockets -> {0, 1}]

(* No two connections have the same number. *)
Numbered ==
  /\ backlog <= setting.clients
  /\ \A s \in Sockets : conn[s] <= setting.clients - backlog
  /\ \A s, t \in Sockets : conn[s] = conn[t] /\ conn[s] # 0 => s = t

(* What the setting lets clients say. *)
Says == {k \in setting.kinds \cup {"part"} : k = "part" => setting.halves}

(* A message ends at most one list, so that a list is one message long,    *)
(* and says what clients may say.                                          *)
Plain ==
  \A m \in DOMAIN msgs :
    /\ msgs[m].next = NULL
    /\ \A i \in DOMAIN msgs[m].data :
         msgs[m].data[i][2] \in Says

Tasks(s)  == ToSet(tasks[s])
Treats(t) == t.handler \in Treating
Class(t)  == IF Treats(t) THEN "treat"
             ELSE IF t.handler = "Close" THEN "close" ELSE "read"

(* The messages that a connection has. *)
Own(s) == {m \in DOMAIN msgs : msgs[m].conn = conn[s]} \ freed

(* The tasks of a connection: one that reads, one that treats a request    *)
(* and one that closes, each with a message of its own.                    *)
OneEach(s) ==
  /\ IsInjective(tasks[s])
  /\ \A t, u \in Tasks(s) : t # u => Class(t) # Class(u) /\ t.msg # u.msg
  /\ cbs[s] = <<>> \/ (cbs[s] = <<Registered(s)>> /\ Registered(s) \in Own(s))
  /\ pending[s] = NULL
       \/ (pending[s] \in Own(s) /\ pending[s] # Registered(s))
  /\ \A t \in Tasks(s) : /\ t.msg \in Own(s) /\ t.msg # pending[s]
                         /\ Class(t) # "read" => t.msg # Registered(s)
  /\ conn[s] = 0 => /\ tasks[s] = <<>> /\ cbs[s] = <<>> /\ ~queued[s]
                    /\ pending[s] = NULL /\ treats[s] = 0
                    /\ ~peer[s] /\ wire[s] = <<>>

(* A read is posted with the message of the callback, and when there is    *)
(* something to read.                                                      *)
Reads(s) ==
  /\ \A t \in Tasks(s) :
       /\ t.handler = "ReadRequest" => queued[s] /\ t.msg = Registered(s)
       /\ t.handler = "RegisterRead" =>
            /\ cbs[s] = <<>> /\ Tasks(s) = {t} /\ treats[s] = 0
            /\ msgs[t.msg].data = <<>>
       /\ t.handler \in {"FourOhFor", "BadRequest", "Close"} => cbs[s] = <<>>
  /\ queued[s] => /\ \E t \in Tasks(s) : t.handler = "ReadRequest"
                  /\ wire[s] # <<>> \/ ~peer[s]

(* pending_request and nb_pending_treatments_fd. *)
Pending(s) ==
  /\ pending[s] # NULL =>
       LET p == msgs[pending[s]]
       IN /\ treats[s] = 1 /\ ~OneByOne /\ ~p.close
          /\ Ends(p.data) = {Len(p.data)} /\ p.reqEnd = p.length
  /\ \A t \in Tasks(s) :
       /\ Treats(t) => treats[s] = 1 /\ Ends(msgs[t.msg].data) # {}
       /\ Treats(t) /\ msgs[t.msg].close =>
            /\ Tasks(s) = {t} /\ cbs[s] = <<>> /\ pending[s] = NULL
            /\ t.handler = "ParseRequest" /\ ~peer[s] /\ wire[s] = <<>>
       /\ t.handler = "Close" => treats[s] = 0 \/ ~peer[s]
       /\ t.handler \in {"FourOhFor", "BadRequest"} => ~NoError

(* What has come of the client and belongs to no request yet.              *)
Held(s) == IF Registered(s) = NULL THEN <<>> ELSE msgs[Registered(s)].data
Text(s) == Held(s) \o wire[s]

Number(m) == Asked(m)[1]

(* The number of the last request that was answered or is in treatment,    *)
(* and of the last one that was read.                                      *)
Answered(s) == \E t \in Tasks(s) : /\ t.handler = "FreeRequest"
                                  /\ Number(t.msg) = Len(got[s])
Current(s) ==
  IF treats[s] = 0 \/ Answered(s) THEN Len(got[s]) ELSE Len(got[s]) + 1
Taken(s) == IF pending[s] = NULL THEN Current(s) ELSE Current(s) + 1

(* Requests are answered, treated, pending and read in the order of their  *)
(* numbers.                                                                *)
Treated(s) ==
  /\ \A t \in Tasks(s) : Treats(t) =>
       /\ Number(t.msg) = Current(s)
       /\ t.handler = "FreeRequest" => Answered(s) \/ ~peer[s]
  /\ pending[s] # NULL => Number(pending[s]) = Current(s) + 1
  /\ Taken(s) <= asked[s]
  /\ asked[s] <= setting.requests
  /\ asked[s] <= Len(got[s]) + setting.pipelined
  /\ ~setting.hasty /\ ~peer[s] /\ conn[s] # 0 => asked[s] = Len(got[s])
  /\ \A i \in DOMAIN got[s] : got[s][i] = i

(* The text goes on from there, one request behind the other, up to what   *)
(* the client has sent.                                                    *)
Follows(d, n) ==
  /\ d # <<>> => d[1][1] = n + 1
  /\ \A i \in 1 .. Len(d) - 1 :
       IF d[i][2] = "part" THEN d[i + 1][1] = d[i][1] /\ d[i + 1][2] # "part"
                           ELSE d[i + 1][1] = d[i][1] + 1

(* The last request in the text d, behind request n, is the last one that  *)
(* the client has begun.                                                   *)
UpTo(d, n, last, open) ==
  IF d = <<>> THEN last = n /\ ~open
  ELSE d[Len(d)][1] = last /\ (open <=> d[Len(d)][2] = "part")

Sent(s) ==
  /\ Follows(Text(s), Taken(s))
  /\ \A i \in DOMAIN Text(s) :
       /\ Text(s)[i][1] <= asked[s]
       /\ Text(s)[i][2] \in Says
  /\ peer[s] => UpTo(Text(s), Taken(s), asked[s], half[s])

(* With one request at a time there is nothing to read before a treatment  *)
(* ends, but that the client has gone.                                     *)
Behind(s) ==
  OneByOne => \A r, t \in Tasks(s) :
    r.handler = "ReadRequest" /\ Treats(t) /\ Before(tasks[s], r, t)
    => Text(s) = <<>> /\ ~peer[s]

Socket(s) ==
  /\ OneEach(s) /\ Reads(s) /\ Pending(s) /\ Treated(s) /\ Sent(s) /\ Behind(s)

WebInv ==
  /\ Numbered /\ Plain /\ ClientsCounted /\ fault = "none"
  /\ \A s \in Sockets : Socket(s)

WebSafe == Careful => TypeOK /\ WebInv

-----------------------------------------------------------------------------
(* Sequences of tasks, texts and lists *)

(* The handler at the head ends and posts one task. *)
LEMMA PostedOne ==
  ASSUME NEW S, NEW q \in Seq(S), q # <<>>, NEW x \in S
  PROVE  /\ Tail(q) \o <<x>> \in Seq(S)
         /\ Len(Tail(q) \o <<x>>) = Len(q)
         /\ (Tail(q) \o <<x>>)[Len(q)] = x
         /\ \A i \in 1 .. Len(q) - 1 : (Tail(q) \o <<x>>)[i] = q[i + 1]
         /\ Len(q) \in Nat /\ Len(q) >= 1 /\ Head(q) = q[1]
  <1>1. Len(q) \in Nat /\ Len(q) >= 1
    BY EmptySeq, LenProperties
  <1>2. /\ Tail(q) \in Seq(S) /\ Len(Tail(q)) = Len(q) - 1
        /\ \A i \in 1 .. Len(q) - 1 : Tail(q)[i] = q[i + 1]
    BY HeadTailProperties
  <1>3. Tail(q) \o <<x>> = Append(Tail(q), x)
    BY <1>2, AppendIsConcat
  <1> QED  BY <1>1, <1>2, <1>3, AppendProperties

(* It ends and posts nothing. *)
LEMMA PostedNone ==
  ASSUME NEW S, NEW q \in Seq(S), q # <<>>
  PROVE  /\ Tail(q) \o <<>> \in Seq(S)
         /\ Len(Tail(q) \o <<>>) = Len(q) - 1
         /\ \A i \in 1 .. Len(q) - 1 : (Tail(q) \o <<>>)[i] = q[i + 1]
         /\ Len(q) \in Nat /\ Len(q) >= 1 /\ Head(q) = q[1]
  <1>1. Len(q) \in Nat /\ Len(q) >= 1
    BY EmptySeq, LenProperties
  <1>2. /\ Tail(q) \in Seq(S) /\ Len(Tail(q)) = Len(q) - 1
        /\ \A i \in 1 .. Len(q) - 1 : Tail(q)[i] = q[i + 1]
    BY HeadTailProperties
  <1>3. Tail(q) \o <<>> = Tail(q)
    BY <1>2, ConcatEmptySeq
  <1> QED  BY <1>1, <1>2, <1>3

(* A task is posted behind the others. *)
LEMMA PostedLast ==
  ASSUME NEW S, NEW q \in Seq(S), NEW x \in S
  PROVE  /\ Append(q, x) \in Seq(S) /\ Len(Append(q, x)) = Len(q) + 1
         /\ Append(q, x)[Len(q) + 1] = x
         /\ \A i \in 1 .. Len(q) : Append(q, x)[i] = q[i]
         /\ Len(q) \in Nat
  BY AppendProperties, LenProperties

(* A list whose messages end it has one message at most. *)
LEMMA ShortList ==
  ASSUME msgs \in Seq(Message), Plain, NEW m \in NULL .. Len(msgs)
  PROVE  ListFrom(msgs, m) = IF m = NULL THEN <<>> ELSE <<m>>
  <1> DEFINE Def(f) == f = [k \in NULL .. Len(msgs) |->
                              IF k = NULL THEN <<>> ELSE <<k>> \o f[msgs[k].next]]
             F == CHOOSE f : Def(f)
             G == [k \in NULL .. Len(msgs) |-> IF k = NULL THEN <<>> ELSE <<k>>]
  <1>1. \A k \in NULL .. Len(msgs) : k # NULL => msgs[k].next = NULL
    BY LenProperties DEF Plain, NULL
  <1>2. \A k : <<k>> \o <<>> = <<k>>
    OBVIOUS
  <1>3. NULL \in NULL .. Len(msgs)
    BY LenProperties DEF NULL
  <1>4. Def(G)
    BY <1>1, <1>2, <1>3 DEF NULL
  <1>5. Def(F)
    BY <1>4
  <1> HIDE DEF F, G
  <1>6. F[NULL] = <<>>
    BY <1>3, <1>5
  <1>7. m # NULL => F[m] = <<m>>
    BY <1>1, <1>2, <1>5, <1>6
  <1>8. ListFrom(msgs, m) = F[m]
    BY DEF ListFrom, F
  <1> QED  BY <1>6, <1>7, <1>8

(* The pending list of a connection has at most one message. *)
LEMMA PendingOne ==
  ASSUME TypeOK, Plain, NEW s \in Sockets, OneEach(s)
  PROVE  PendingMsgs(s) = IF pending[s] = NULL THEN {} ELSE {pending[s]}
  <1>1. pending[s] \in NULL .. Len(msgs)
    BY LenProperties DEF TypeOK, OneEach, Own, NULL
  <1>2. ListFrom(msgs, pending[s]) =
          IF pending[s] = NULL THEN <<>> ELSE <<pending[s]>>
    BY <1>1, ShortList DEF TypeOK
  <1>3. ToSet(<<pending[s]>>) = {pending[s]}
    BY DEF ToSet
  <1> QED  BY <1>2, <1>3, EmptyList DEF PendingMsgs

(* The end of the first request of a text. *)
LEMMA FirstEndIn ==
  ASSUME NEW d \in Seq(Chunk), Ends(d) # {}
  PROVE  /\ FirstEnd(d) \in Ends(d) /\ Ends(d) \subseteq 1 .. Len(d)
         /\ \A i \in Ends(d) : FirstEnd(d) <= i
         /\ Len(d) \in Nat /\ d # <<>>
         /\ d[FirstEnd(d)] \in Chunk
  <1>1. Len(d) \in Nat /\ DOMAIN d = 1 .. Len(d)
    BY LenProperties
  <1>2. Ends(d) \subseteq 1 .. Len(d)
    BY <1>1 DEF Ends
  <1>3. Min(Ends(d)) \in Ends(d) /\ \A i \in Ends(d) : Min(Ends(d)) <= i
    BY <1>1, <1>2, MinOfBounded
  <1> QED  BY <1>1, <1>2, <1>3, ElementOfSeq DEF FirstEnd

(* A text that follows request n begins with request n + 1, in one chunk   *)
(* or two.                                                                 *)
LEMMA FirstNumber ==
  ASSUME NEW d \in Seq(Chunk), NEW n \in Nat, Follows(d, n), Ends(d) # {}
  PROVE  FirstEnd(d) \in {1, 2} /\ d[FirstEnd(d)][1] = n + 1
  <1>1. /\ FirstEnd(d) \in Ends(d) /\ Ends(d) \subseteq 1 .. Len(d)
        /\ \A i \in Ends(d) : FirstEnd(d) <= i
        /\ Len(d) \in Nat /\ d # <<>>
    BY FirstEndIn
  <1>2. DOMAIN d = 1 .. Len(d)
    BY LenProperties
  <1>3. CASE 1 \in Ends(d)
    BY <1>1, <1>3 DEF Follows
  <1>4. CASE 1 \notin Ends(d)
    <2>1. d[1][2] = "part" /\ 1 \in 1 .. Len(d)
      BY <1>1, <1>2, <1>4 DEF Ends
    <2>2. FirstEnd(d) # 1 /\ 1 \in 1 .. Len(d) - 1
      BY <1>1, <1>4
    <2>3. d[2][1] = n + 1 /\ d[2][2] # "part" /\ 2 \in 1 .. Len(d)
      BY <1>1, <2>1, <2>2 DEF Follows
    <2>4. 2 \in Ends(d)
      BY <1>2, <2>3 DEF Ends
    <2> QED  BY <1>1, <2>2, <2>3, <2>4
  <1> QED  BY <1>3, <1>4

(* What is behind a request follows it. *)
LEMMA RestFollows ==
  ASSUME NEW d \in Seq(Chunk), NEW n \in Nat, Follows(d, n), NEW e \in Ends(d),
         NEW k \in Nat, d[e][1] = k
  PROVE  /\ SubSeq(d, e + 1, Len(d)) \in Seq(Chunk)
         /\ Follows(SubSeq(d, e + 1, Len(d)), k)
         /\ Len(SubSeq(d, e + 1, Len(d))) = Len(d) - e
         /\ \A i \in 1 .. Len(d) - e : SubSeq(d, e + 1, Len(d))[i] = d[e + i]
  <1> DEFINE r == SubSeq(d, e + 1, Len(d))
  <1>1. Len(d) \in Nat /\ DOMAIN d = 1 .. Len(d) /\ e \in 1 .. Len(d)
        /\ d[e][2] # "part"
    BY LenProperties DEF Ends
  <1>2. r \in Seq(Chunk) /\ Len(r) = Len(d) - e
        /\ \A i \in 1 .. Len(d) - e : r[i] = d[e + i]
    <2>1. \A i \in e + 1 .. Len(d) : d[i] \in Chunk
      BY <1>1, ElementOfSeq
    <2>2. e + 1 \in Nat /\ (e + 1 <= Len(d) => e + 1 >= 1 /\ Len(d) <= Len(d))
      BY <1>1
    <2>3. Len(r) = IF e + 1 <= Len(d) THEN Len(d) - (e + 1) + 1 ELSE 0
      BY <1>1, <2>2, SubSeqProperties
    <2>4. r \in Seq(Chunk)
      BY <1>1, SubSeqProperties
    <2>5. ASSUME NEW i \in 1 .. Len(d) - e PROVE r[i] = d[e + i]
      <3>1. e + 1 \in 1 .. Len(d) /\ i \in 1 .. Len(d) - (e + 1) + 1
        BY <1>1
      <3>2. r[i] = d[(e + 1) + i - 1] /\ (e + 1) + i - 1 = e + i
        BY <1>1, <3>1, SubSeqProperties
      <3> QED  BY <3>2
    <2> HIDE DEF r
    <2>6. e \in Int /\ Len(d) \in Int /\ e <= Len(d)
      BY <1>1
    <2>7. Len(r) = Len(d) - e
      BY <2>3, <2>6
    <2> QED  BY <2>4, <2>5, <2>7
  <1> HIDE DEF r
  <1>3. ASSUME r # <<>> PROVE r[1][1] = k + 1
    <2>1. Len(r) # 0
      BY <1>2, <1>3, EmptySeq
    <2>2. e \in Int /\ Len(d) \in Int /\ 1 <= e /\ e <= Len(d)
          /\ Len(d) - e # 0
      <3>1. e \in Int /\ Len(d) \in Int /\ 1 <= e /\ e <= Len(d)
        BY <1>1
      <3> QED  BY <1>2, <2>1, <3>1
    <2>3. e \in 1 .. Len(d) - 1 /\ 1 \in 1 .. Len(d) - e
      BY <2>2
    <2>4. r[1] = d[e + 1]
      BY <1>2, <2>3
    <2> QED  BY <1>1, <2>3, <2>4 DEF Follows
  <1>4. ASSUME NEW i \in 1 .. Len(r) - 1
        PROVE  IF r[i][2] = "part"
               THEN r[i + 1][1] = r[i][1] /\ r[i + 1][2] # "part"
               ELSE r[i + 1][1] = r[i][1] + 1
    <2>1. /\ e + i \in 1 .. Len(d) - 1 /\ e + (i + 1) = e + i + 1
          /\ i \in 1 .. Len(d) - e /\ i + 1 \in 1 .. Len(d) - e
      BY <1>1, <1>2
    <2>2. r[i] = d[e + i] /\ r[i + 1] = d[e + i + 1]
      BY <1>2, <2>1, SMTT(40)
    <2> QED  BY <1>1, <2>1, <2>2 DEF Follows
  <1>5. Follows(r, k)
    BY <1>3, <1>4 DEF Follows
  <1> QED  BY <1>2, <1>5 DEF r

(* A text of one request at most has two chunks at most, and ends with it. *)
LEMMA OneRequest ==
  ASSUME NEW d \in Seq(Chunk), NEW n \in Nat, Follows(d, n),
         \A i \in DOMAIN d : d[i][1] <= n + 1
  PROVE  Len(d) <= 2 /\ Ends(d) \subseteq {Len(d)}
  <1>1. Len(d) \in Nat /\ DOMAIN d = 1 .. Len(d)
        /\ \A i \in 1 .. Len(d) : d[i][1] \in Nat
    BY LenProperties, ElementOfSeq DEF Chunk
  <1>2. Len(d) >= 1 => d[1][1] = n + 1
    BY <1>1, EmptySeq DEF Follows
  <1>3. Len(d) >= 2 => d[1][2] = "part" /\ d[2][2] # "part" /\ d[2][1] = n + 1
    <2> SUFFICES ASSUME Len(d) >= 2 PROVE d[1][2] = "part" /\ d[2][2] # "part"
                                          /\ d[2][1] = n + 1
      OBVIOUS
    <2>1. 1 \in 1 .. Len(d) - 1 /\ 2 \in 1 .. Len(d)
      BY <1>1
    <2>2. d[2][1] <= n + 1
      BY <1>1, <2>1
    <2>3. d[1][2] = "part"
      BY <1>1, <1>2, <2>1, <2>2 DEF Follows
    <2> QED  BY <1>2, <2>1, <2>3 DEF Follows
  <1>4. ~(Len(d) >= 3)
    <2> SUFFICES ASSUME Len(d) >= 3 PROVE FALSE
      OBVIOUS
    <2>1. 2 \in 1 .. Len(d) - 1 /\ 3 \in 1 .. Len(d)
      BY <1>1
    <2>2. d[3][1] = n + 2
      BY <1>1, <1>3, <2>1 DEF Follows
    <2>3. d[3][1] <= n + 1
      BY <1>1, <2>1
    <2> QED  BY <2>2, <2>3
  <1>5. Ends(d) \subseteq 1 .. Len(d) /\ (Len(d) >= 2 => 1 \notin Ends(d))
    BY <1>1, <1>3 DEF Ends
  <1>6. Len(d) <= 2
    BY <1>1, <1>4
  <1> QED  BY <1>1, <1>5, <1>6

(* A text of two requests at most. *)
LEMMA TwoRequests ==
  ASSUME NEW d \in Seq(Chunk), NEW n \in Nat, Follows(d, n),
         \A i \in DOMAIN d : d[i][1] <= n + 2
  PROVE  /\ Len(d) <= 4
         /\ Ends(d) \subseteq {FirstEnd(d), Len(d)}
         /\ Ends(d) = {} => Len(d) <= 1
  <1>1. Len(d) \in Nat /\ DOMAIN d = 1 .. Len(d)
        /\ \A i \in 1 .. Len(d) : d[i][1] \in Nat
    BY LenProperties, ElementOfSeq DEF Chunk
  <1>2. CASE Ends(d) = {}
    <2>1. \A i \in 1 .. Len(d) : d[i][2] = "part"
      BY <1>1, <1>2 DEF Ends
    <2>2. ~(Len(d) >= 2)
      <3> SUFFICES ASSUME Len(d) >= 2 PROVE FALSE
        OBVIOUS
      <3>1. 1 \in 1 .. Len(d) - 1 /\ 1 \in 1 .. Len(d) /\ 2 \in 1 .. Len(d)
        BY <1>1
      <3> QED  BY <2>1, <3>1 DEF Follows
    <2> QED  BY <1>1, <1>2, <2>2
  <1>3. CASE Ends(d) # {}
    <2> DEFINE e == FirstEnd(d)
               r == SubSeq(d, e + 1, Len(d))
    <2>1. e \in Ends(d) /\ e \in {1, 2} /\ d[e][1] = n + 1 /\ e \in 1 .. Len(d)
          /\ \A i \in Ends(d) : e <= i
      BY <1>3, FirstNumber, FirstEndIn
    <2>2. /\ r \in Seq(Chunk) /\ Follows(r, n + 1) /\ Len(r) = Len(d) - e
          /\ \A i \in 1 .. Len(d) - e : r[i] = d[e + i]
      BY <2>1, RestFollows
    <2> HIDE DEF r, e
    <2>3. \A i \in DOMAIN r : r[i][1] <= (n + 1) + 1
      <3> SUFFICES ASSUME NEW i \in 1 .. Len(d) - e PROVE r[i][1] <= (n + 1) + 1
        BY <2>2, LenProperties
      <3>1. r[i] = d[e + i] /\ e + i \in 1 .. Len(d)
        BY <1>1, <2>1, <2>2
      <3>2. d[e + i][1] <= n + 2
        BY <1>1, <3>1
      <3> QED  BY <3>1, <3>2
    <2>4. Len(r) <= 2 /\ Ends(r) \subseteq {Len(r)}
      <3>1. n + 1 \in Nat
        OBVIOUS
      <3> QED  BY <2>2, <2>3, <3>1, OneRequest
    <2>5. ASSUME NEW i \in Ends(d), i # e PROVE i = Len(d)
      <3>1. i \in 1 .. Len(d) /\ e <= i /\ d[i][2] # "part"
        BY <1>1, <2>1 DEF Ends
      <3>2. i - e \in 1 .. Len(d) - e /\ e + (i - e) = i
        BY <1>1, <2>1, <2>5, <3>1
      <3>3. i - e \in Ends(r)
        BY <2>2, <3>1, <3>2, LenProperties DEF Ends
      <3>4. Len(r) = Len(d) - e /\ i - e = Len(r)
        BY <2>2, <2>4, <3>3
      <3>5. i \in Int /\ e \in Int /\ Len(d) \in Int
        BY <1>1, <2>1, <3>1
      <3> QED  BY <3>4, <3>5
    <2> QED  BY <1>1, <1>3, <2>1, <2>2, <2>4, <2>5 DEF e
  <1> QED  BY <1>2, <1>3


(* The ends of one request, and of two, in order. *)
LEMMA OneInOrder ==
  ASSUME NEW a \in Nat
  PROVE  InOrderOf({a}) = <<a>>
  <1> DEFINE F == {f \in [1 .. Cardinality({a}) -> {a}] :
                     \A i, j \in DOMAIN f : i < j => f[i] < f[j]}
  <1>1. Cardinality({a}) = 1
    BY FS_Singleton
  <1>2. \A f \in F : f = <<a>>
    BY <1>1
  <1>3. <<a>> \in F
    BY <1>1
  <1>4. InOrderOf({a}) \in F
    BY <1>3 DEF InOrderOf
  <1> QED  BY <1>2, <1>4

(* Two numbers are in order when the smaller one comes first.              *)
LEMMA TwoInOrder ==
  ASSUME NEW a \in Nat, NEW b \in Nat, a < b
  PROVE  InOrderOf({a, b}) = <<a, b>>
  <1> DEFINE F == {f \in [1 .. Cardinality({a, b}) -> {a, b}] :
                     \A i, j \in DOMAIN f : i < j => f[i] < f[j]}
  <1>1. Cardinality({a, b}) = 2
    <2>1. IsFiniteSet({a}) /\ Cardinality({a}) = 1
      BY FS_Singleton
    <2>2. b \notin {a} /\ {a} \cup {b} = {a, b}
      OBVIOUS
    <2> QED  BY <2>1, <2>2, FS_AddElement
  <1>2. ASSUME NEW f \in F PROVE f = <<a, b>>
    <2>1. f \in [1 .. 2 -> {a, b}] /\ f[1] < f[2] /\ f[1] \in {a, b}
          /\ f[2] \in {a, b}
      BY <1>1
    <2>2. f[1] = a /\ f[2] = b
      BY <2>1
    <2>3. <<a, b>> \in [1 .. 2 -> {a, b}] /\ <<a, b>>[1] = a /\ <<a, b>>[2] = b
      OBVIOUS
    <2> HIDE DEF F
    <2>4. \A i \in 1 .. 2 : f[i] = <<a, b>>[i]
      <3> TAKE i \in 1 .. 2
      <3>1. i = 1 \/ i = 2
        OBVIOUS
      <3> QED  BY <2>2, <2>3, <3>1
    <2> QED  BY <2>1, <2>3, <2>4
  <1>3. <<a, b>> \in F
    <2>1. <<a, b>> \in [1 .. 2 -> {a, b}]
      OBVIOUS
    <2>2. \A i, j \in 1 .. 2 : i < j => i = 1 /\ j = 2
      OBVIOUS
    <2> QED  BY <1>1, <2>1, <2>2
  <1>4. InOrderOf({a, b}) \in F
    BY <1>3 DEF InOrderOf
  <1> QED  BY <1>2, <1>4

(* The messages behind a text of one request: one for the next read, with  *)
(* the rest of the text.                                                   *)
Rest(m, d, e) ==
  [m EXCEPT !.data = SubSeq(d, e + 1, Len(d)),
            !.length = Len(SubSeq(d, e + 1, Len(d)))]

(* A text with one request is followed by the message for the next read.   *)
LEMMA FollowingOne ==
  ASSUME NEW m, NEW d \in Seq(Chunk), NEW e \in Nat, Ends(d) = {e}
  PROVE  Following(m, d) = <<Rest(m, d, e)>>
  <1>1. InOrderOf(Ends(d)) = <<e>>
    BY OneInOrder
  <1> DEFINE ends == InOrderOf(Ends(d))
             Request(i) ==
               [m EXCEPT !.data = SubSeq(d, ends[i] + 1, ends[i + 1]),
                         !.length = Len(d) - ends[i],
                         !.reqEnd = Len(d) - ends[i],
                         !.next = IF i + 1 < Len(ends) THEN Len(msgs) + 1 + i
                                                       ELSE NULL]
             f == [i \in 1 .. Len(ends) - 1 |-> Request(i)]
  <1>2. Len(ends) = 1 /\ Last(ends) = e
    <2>1. ends = <<e>>
      BY <1>1
    <2> HIDE DEF ends
    <2> QED  BY <2>1 DEF Last
  <1>3. f = <<>>
    <2> HIDE DEF Request
    <2>1. f \in Seq({Request(i) : i \in 1 .. Len(ends) - 1}) /\ Len(f) = 0
      <3> HIDE DEF ends
      <3> QED  BY <1>2
    <2> HIDE DEF f
    <2> QED  BY <2>1, EmptySeq
  <1>4. Following(m, d) =
          f \o <<[m EXCEPT !.data = SubSeq(d, Last(ends) + 1, Len(d)),
                   !.length = Len(SubSeq(d, Last(ends) + 1, Len(d)))]>>
    BY DEF Following
  <1> HIDE DEF f, ends
  <1>5. Following(m, d) = <<>> \o <<Rest(m, d, e)>>
    BY <1>2, <1>3, <1>4 DEF Rest
  <1> QED  BY <1>5, ConcatEmptySeq

(* Two sequences of one element. *)
LEMMA Pair ==
  ASSUME NEW x, NEW y
  PROVE  <<x>> \o <<y>> = <<x, y>>
  <1> DEFINE S == {x, y}
             a == <<x>> \o <<y>>
  <1>1. /\ <<x>> \in Seq(S) /\ <<y>> \in Seq(S) /\ Len(<<x>>) = 1
        /\ Len(<<y>>) = 1 /\ <<x>>[1] = x /\ <<y>>[1] = y
    OBVIOUS
  <1>2. a \in Seq(S) /\ Len(a) = 2
    BY <1>1, ConcatProperties
  <1>3. a[1] = x
    <2>1. 1 \in 1 .. Len(<<x>>) + Len(<<y>>) /\ 1 <= Len(<<x>>)
      BY <1>1
    <2> QED  BY <1>1, <2>1, ConcatProperties
  <1>4. a[2] = y
    <2>1. 2 \in 1 .. Len(<<x>>) + Len(<<y>>) /\ ~(2 <= Len(<<x>>))
          /\ 2 - Len(<<x>>) = 1
      BY <1>1
    <2> QED  BY <1>1, <2>1, ConcatProperties
  <1>5. /\ <<x, y>> \in Seq(S) /\ Len(<<x, y>>) = 2 /\ <<x, y>>[1] = x
        /\ <<x, y>>[2] = y
    OBVIOUS
  <1> HIDE DEF a, S
  <1>6. \A i \in 1 .. Len(a) : a[i] = <<x, y>>[i]
    <2> TAKE i \in 1 .. Len(a)
    <2>1. i = 1 \/ i = 2
      BY <1>2
    <2> QED  BY <1>3, <1>4, <1>5, <2>1
  <1>7. a = <<x, y>>
    BY <1>2, <1>5, <1>6, SeqEqual
  <1> QED  BY <1>7 DEF a

(* Behind a text of two requests there is one more, for the second.        *)
Second(m, d, e) ==
  [m EXCEPT !.data = SubSeq(d, e + 1, Len(d)), !.length = Len(d) - e,
            !.reqEnd = Len(d) - e, !.next = NULL]

(* A text with two is followed by the second one, and by that message.     *)
LEMMA FollowingTwo ==
  ASSUME NEW m, NEW d \in Seq(Chunk), NEW e \in 1 .. Len(d) - 1,
         Ends(d) = {e, Len(d)}
  PROVE  Following(m, d) = <<Second(m, d, e), Rest(m, d, Len(d))>>
  <1>1. e \in Nat /\ Len(d) \in Nat /\ e < Len(d)
    BY LenProperties
  <1>2. InOrderOf(Ends(d)) = <<e, Len(d)>>
    BY <1>1, TwoInOrder
  <1> DEFINE ends == InOrderOf(Ends(d))
             Request(i) ==
               [m EXCEPT !.data = SubSeq(d, ends[i] + 1, ends[i + 1]),
                         !.length = Len(d) - ends[i],
                         !.reqEnd = Len(d) - ends[i],
                         !.next = IF i + 1 < Len(ends) THEN Len(msgs) + 1 + i
                                                       ELSE NULL]
             f == [i \in 1 .. Len(ends) - 1 |-> Request(i)]
  <1>3. Len(ends) = 2 /\ Last(ends) = Len(d) /\ ends[1] = e
        /\ ends[2] = Len(d)
    BY <1>2 DEF Last
  <1>4. Following(m, d) =
          f \o <<[m EXCEPT !.data = SubSeq(d, Last(ends) + 1, Len(d)),
                   !.length = Len(SubSeq(d, Last(ends) + 1, Len(d)))]>>
    BY DEF Following
  <1> HIDE DEF ends
  <1>5. Request(1) = Second(m, d, e)
    <2>1. ~(1 + 1 < Len(ends)) /\ ends[1 + 1] = Len(d)
      BY <1>3
    <2> QED  BY <1>3, <2>1 DEF Second
  <1> HIDE DEF Request
  <1>6. f = <<Second(m, d, e)>>
    <2>1. f = [i \in 1 .. 1 |-> Request(i)]
      BY <1>3
    <2> HIDE DEF f
    <2>2. f = <<Request(1)>>
      BY <2>1
    <2> QED  BY <1>5, <2>2
  <1> HIDE DEF f
  <1>7. Following(m, d) = <<Second(m, d, e)>> \o <<Rest(m, d, Len(d))>>
    BY <1>3, <1>4, <1>6 DEF Rest
  <1> QED  BY <1>7, Pair

-----------------------------------------------------------------------------
(* The tasks of a connection, as a set and in their order *)

(* The task at the head ends, and posts one. *)
LEMMA Turned ==
  ASSUME NEW S, NEW q \in Seq(S), q # <<>>, IsInjective(q), NEW x \in S,
         x \notin ToSet(q) \ {Head(q)}
  PROVE  /\ Tail(q) \o <<x>> \in Seq(S) /\ IsInjective(Tail(q) \o <<x>>)
         /\ ToSet(Tail(q) \o <<x>>) = (ToSet(q) \ {Head(q)}) \cup {x}
         /\ \A u, v : Before(Tail(q) \o <<x>>, u, v)
                        => u # x /\ (v = x \/ Before(q, u, v))
  <1> DEFINE r == Tail(q) \o <<x>>
             n == Len(q)
  <1>1. /\ r \in Seq(S) /\ Len(r) = n /\ r[n] = x
        /\ \A i \in 1 .. n - 1 : r[i] = q[i + 1]
        /\ n \in Nat /\ n >= 1 /\ Head(q) = q[1]
    BY PostedOne
  <1> HIDE DEF r
  <1>2. ToSet(q) = {q[i] : i \in 1 .. n}
        /\ \A i, j \in 1 .. n : q[i] = q[j] => i = j
    BY ElementsOf
  <1>3. \A i \in 1 .. n - 1 : i + 1 \in 1 .. n /\ i + 1 # 1 /\ q[i + 1] # q[1]
    BY <1>1, <1>2
  <1>4. \A i \in 1 .. n - 1 : r[i] \in ToSet(q) \ {Head(q)} /\ r[i] # x
    BY <1>1, <1>2, <1>3
  <1>5. \A i \in 1 .. n : i \in 1 .. n - 1 \/ i = n
    BY <1>1
  <1>6. \A i, j \in 1 .. n : r[i] = r[j] => i = j
    <2> SUFFICES ASSUME NEW i \in 1 .. n, NEW j \in 1 .. n, r[i] = r[j]
                 PROVE  i = j
      OBVIOUS
    <2>1. CASE i = n \/ j = n
      BY <1>1, <1>4, <1>5, <2>1
    <2>2. CASE i # n /\ j # n
      <3>1. i \in 1 .. n - 1 /\ j \in 1 .. n - 1
        BY <1>5, <2>2
      <3>2. q[i + 1] = q[j + 1] /\ i + 1 \in 1 .. n /\ j + 1 \in 1 .. n
        BY <1>1, <1>3, <3>1
      <3> QED  BY <1>1, <1>2, <3>1, <3>2
    <2> QED  BY <2>1, <2>2
  <1>7. IsInjective(r)
    BY <1>1, <1>6, ElementsOf
  <1>8. ToSet(r) = {r[i] : i \in 1 .. n}
    BY <1>1, ElementsOf
  <1>9. ASSUME NEW e \in ToSet(q), e # Head(q) PROVE e \in ToSet(r)
    <2>1. PICK i \in 1 .. n : e = q[i]
      BY <1>2
    <2>2. i # 1 /\ i - 1 \in 1 .. n - 1 /\ (i - 1) + 1 = i /\ i - 1 \in 1 .. n
      BY <1>1, <1>9, <2>1
    <2>3. r[i - 1] = e
      BY <1>1, <2>1, <2>2
    <2> QED  BY <1>8, <2>2, <2>3
  <1>10. x \in ToSet(r)
    BY <1>1, <1>8
  <1>11. ToSet(r) \subseteq (ToSet(q) \ {Head(q)}) \cup {x}
    BY <1>1, <1>4, <1>5, <1>8
  <1>12. ToSet(r) = (ToSet(q) \ {Head(q)}) \cup {x}
    BY <1>9, <1>10, <1>11
  <1>13. ASSUME NEW u, NEW v, Before(r, u, v)
         PROVE  u # x /\ (v = x \/ Before(q, u, v))
    <2>1. PICK i, j \in 1 .. n : i < j /\ r[i] = u /\ r[j] = v
      BY <1>1, <1>13 DEF Before
    <2>2. i \in 1 .. n - 1
      BY <1>1, <2>1
    <2>3. CASE j = n
      BY <1>1, <1>4, <2>1, <2>2, <2>3
    <2>4. CASE j # n
      <3>1. j \in 1 .. n - 1
        BY <1>5, <2>4
      <3>2. /\ i + 1 \in 1 .. n /\ j + 1 \in 1 .. n /\ i + 1 < j + 1
            /\ q[i + 1] = u /\ q[j + 1] = v
        BY <1>1, <2>1, <2>2, <3>1
      <3> QED  BY <1>4, <2>1, <2>2, <3>2 DEF Before
    <2> QED  BY <2>3, <2>4
  <1> QED  BY <1>1, <1>7, <1>12, <1>13 DEF r

(* It ends, and posts nothing. *)
LEMMA Ended ==
  ASSUME NEW S, NEW q \in Seq(S), q # <<>>, IsInjective(q)
  PROVE  /\ Tail(q) \o <<>> \in Seq(S) /\ IsInjective(Tail(q) \o <<>>)
         /\ ToSet(Tail(q) \o <<>>) = ToSet(q) \ {Head(q)}
         /\ \A u, v : Before(Tail(q) \o <<>>, u, v) => Before(q, u, v)
  <1> DEFINE r == Tail(q)
             n == Len(q)
  <1>1. /\ r \in Seq(S) /\ ToSet(r) \subseteq ToSet(q)
        /\ \A e \in ToSet(q) : e # Head(q) => e \in ToSet(r)
        /\ IsInjective(r) /\ Head(q) \notin ToSet(r) /\ Len(r) = n - 1
    BY TailElements
  <1>2. r \o <<>> = r
    BY <1>1, ConcatEmptySeq
  <1>3. n \in Nat /\ \A i \in 1 .. n - 1 : r[i] = q[i + 1]
    BY <1>2, PostedNone
  <1> HIDE DEF r
  <1>4. ASSUME NEW u, NEW v, Before(r, u, v) PROVE Before(q, u, v)
    <2>1. PICK i, j \in 1 .. n - 1 : i < j /\ r[i] = u /\ r[j] = v
      BY <1>1, <1>4 DEF Before
    <2>2. /\ i + 1 \in 1 .. n /\ j + 1 \in 1 .. n /\ i + 1 < j + 1
          /\ q[i + 1] = u /\ q[j + 1] = v
      BY <1>3, <2>1
    <2> QED  BY <2>2 DEF Before
  <1>5. ToSet(r) = ToSet(q) \ {Head(q)}
    BY <1>1
  <1> QED  BY <1>1, <1>2, <1>4, <1>5 DEF r

(* A task is posted behind the others. *)
LEMMA Added ==
  ASSUME NEW S, NEW q \in Seq(S), IsInjective(q), NEW x \in S, x \notin ToSet(q)
  PROVE  /\ Append(q, x) \in Seq(S) /\ IsInjective(Append(q, x))
         /\ ToSet(Append(q, x)) = ToSet(q) \cup {x}
         /\ \A u, v : Before(Append(q, x), u, v)
                        => u # x /\ (v = x \/ Before(q, u, v))
  <1> DEFINE r == Append(q, x)
             n == Len(q)
  <1>1. /\ r \in Seq(S) /\ ToSet(r) = ToSet(q) \cup {x} /\ IsInjective(r)
        /\ Len(r) = n + 1
    BY AppendedElements
  <1>2. /\ r[n + 1] = x /\ n \in Nat
        /\ \A i \in 1 .. n : r[i] = q[i]
    BY PostedLast
  <1>3. \A i \in 1 .. n : q[i] \in ToSet(q)
    BY ElementsOf
  <1> HIDE DEF r
  <1>4. ASSUME NEW u, NEW v, Before(r, u, v)
        PROVE  u # x /\ (v = x \/ Before(q, u, v))
    <2>1. PICK i, j \in 1 .. n + 1 : i < j /\ r[i] = u /\ r[j] = v
      BY <1>1, <1>4 DEF Before
    <2>2. i \in 1 .. n
      BY <1>2, <2>1
    <2>3. u # x /\ u = q[i]
      BY <1>2, <1>3, <2>1, <2>2
    <2>4. j = n + 1 \/ j \in 1 .. n
      BY <1>2, <2>1
    <2> QED  BY <1>2, <2>1, <2>2, <2>3, <2>4 DEF Before
  <1> QED  BY <1>1, <1>4 DEF r

-----------------------------------------------------------------------------
(* Steps of one connection *)

TaskType == [handler : Handlers, msg : Nat]

(* What a step of s leaves alone: the other connections and their messages. *)
Local(s) ==
  /\ UNCHANGED setting
  /\ \A t \in Sockets \ {s} :
       /\ conn'[t] = conn[t] /\ peer'[t] = peer[t] /\ wire'[t] = wire[t]
       /\ asked'[t] = asked[t] /\ half'[t] = half[t] /\ got'[t] = got[t]
       /\ cbs'[t] = cbs[t] /\ queued'[t] = queued[t] /\ tasks'[t] = tasks[t]
       /\ pending'[t] = pending[t] /\ treats'[t] = treats[t]
  /\ \A m \in DOMAIN msgs \ Own(s) :
       m \in DOMAIN msgs' /\ msgs'[m] = msgs[m] /\ (m \in freed' => m \in freed)

(* The messages that the invariant speaks of are those of the connection. *)
LEMMA OwnOnes ==
  ASSUME TypeOK, NEW s \in Sockets, OneEach(s)
  PROVE  /\ Tasks(s) \subseteq TaskType /\ IsInjective(tasks[s])
         /\ \A t \in Tasks(s) : t.msg \in Own(s)
         /\ Registered(s) # NULL => Registered(s) \in Own(s)
         /\ pending[s] # NULL => pending[s] \in Own(s)
         /\ Own(s) \subseteq DOMAIN msgs /\ DOMAIN msgs = 1 .. Len(msgs)
         /\ Len(msgs) \in Nat /\ NULL \notin Own(s)
         /\ tasks[s] \in Seq(TaskType)
         /\ cbs[s] \in {<<>>, <<Registered(s)>>}
  <1>1. tasks[s] \in Seq(TaskType)
    BY DEF TypeOK, TaskType
  <1>2. Tasks(s) \subseteq TaskType
    BY <1>1, ElementsOf DEF Tasks
  <1>3. DOMAIN msgs = 1 .. Len(msgs) /\ Len(msgs) \in Nat
    BY LenProperties DEF TypeOK
  <1>4. Own(s) \subseteq DOMAIN msgs /\ NULL \notin Own(s)
    BY <1>3 DEF Own, NULL
  <1>5. Registered(s) # NULL => Registered(s) \in Own(s)
    BY DEF OneEach, Registered
  <1> QED  BY <1>1, <1>2, <1>3, <1>4, <1>5 DEF OneEach

(* The invariant of a connection speaks of nothing that such a step        *)
(* changes.                                                                *)
LEMMA SocketKept ==
  ASSUME TypeOK, NEW s \in Sockets, Socket(s), UNCHANGED setting,
         conn'[s] = conn[s], peer'[s] = peer[s], wire'[s] = wire[s],
         asked'[s] = asked[s], half'[s] = half[s], got'[s] = got[s],
         cbs'[s] = cbs[s], queued'[s] = queued[s], tasks'[s] = tasks[s],
         pending'[s] = pending[s], treats'[s] = treats[s],
         conn[s] # 0 => \A m \in Own(s) : m \in Own(s)' /\ msgs'[m] = msgs[m]
  PROVE  Socket(s)'
  <1> DEFINE m == Registered(s)
  <1>1. /\ OneEach(s) /\ Reads(s) /\ Pending(s) /\ Treated(s) /\ Sent(s)
        /\ Behind(s)
    BY DEF Socket
  <1>2. Tasks(s)' = Tasks(s) /\ Registered(s)' = Registered(s)
    BY DEF Tasks, Registered
  <1>3. /\ \A t \in Tasks(s) : t.msg \in Own(s)
        /\ Registered(s) # NULL => Registered(s) \in Own(s)
        /\ pending[s] # NULL => pending[s] \in Own(s)
    BY <1>1, OwnOnes
  <1>4. conn[s] = 0 => Tasks(s) = {} /\ Registered(s) = NULL /\ pending[s] = NULL
    BY <1>1, EmptyList DEF OneEach, Tasks, Registered
  <1>5. /\ \A t \in Tasks(s) : t.msg \in Own(s)' /\ msgs'[t.msg] = msgs[t.msg]
        /\ Registered(s) # NULL => /\ Registered(s) \in Own(s)'
                                   /\ msgs'[Registered(s)] = msgs[Registered(s)]
        /\ pending[s] # NULL => /\ pending[s] \in Own(s)'
                                /\ msgs'[pending[s]] = msgs[pending[s]]
    BY <1>3, <1>4
  <1>6. cbs[s] = <<>> <=> Registered(s) = NULL
    <2>1. Registered(s) # NULL \/ cbs[s] = <<>> \/ Registered(s) \in Own(s)
      BY <1>1 DEF OneEach
    <2>2. NULL \notin Own(s)
      BY <1>1, OwnOnes
    <2>3. cbs[s] = <<>> => Registered(s) = NULL
      BY DEF Registered
    <2> QED  BY <2>1, <2>2, <2>3
  <1>7. OneEach(s)'
    BY <1>1, <1>2, <1>5, <1>6 DEF OneEach
  <1>8. Reads(s)'
    BY <1>1, <1>2, <1>5 DEF Reads
  <1>9. Pending(s)'
    <2>1. OneByOne' = OneByOne /\ NoError' = NoError
      BY DEF OneByOne, NoError
    <2>2. pending'[s] # NULL =>
            /\ treats'[s] = 1 /\ ~OneByOne' /\ ~msgs'[pending'[s]].close
            /\ Ends(msgs'[pending'[s]].data) = {Len(msgs'[pending'[s]].data)}
            /\ msgs'[pending'[s]].reqEnd = msgs'[pending'[s]].length
      BY <1>1, <1>5, <2>1 DEF Pending
    <2>3. \A t \in Tasks(s)' :
            /\ Treats(t) => treats'[s] = 1 /\ Ends(msgs'[t.msg].data) # {}
            /\ Treats(t) /\ msgs'[t.msg].close =>
                 /\ Tasks(s)' = {t} /\ cbs'[s] = <<>> /\ pending'[s] = NULL
                 /\ t.handler = "ParseRequest" /\ ~peer'[s] /\ wire'[s] = <<>>
            /\ t.handler = "Close" => treats'[s] = 0 \/ ~peer'[s]
            /\ t.handler \in {"FourOhFor", "BadRequest"} => ~NoError'
      BY <1>1, <1>2, <1>5, <2>1 DEF Pending
    <2> QED  BY <2>2, <2>3 DEF Pending
  <1>10. /\ \A t \in Tasks(s) : Number(t.msg)' = Number(t.msg)
         /\ pending[s] # NULL => Number(pending[s])' = Number(pending[s])
    BY <1>5 DEF Number, Asked
  <1>11. Answered(s)' = Answered(s)
    BY <1>2, <1>10 DEF Answered
  <1>12. Current(s)' = Current(s) /\ Taken(s)' = Taken(s)
    BY <1>11 DEF Current, Taken
  <1>13. Text(s)' = Text(s)
    BY <1>2, <1>5 DEF Text, Held
  <1>14. Treated(s)'
    BY <1>1, <1>2, <1>10, <1>11, <1>12 DEF Treated
  <1>15. Sent(s)'
    BY <1>1, <1>12, <1>13 DEF Sent, Says
  <1>16. Behind(s)'
    BY <1>1, <1>2, <1>13 DEF Behind, OneByOne
  <1> QED  BY <1>7, <1>8, <1>9, <1>14, <1>15, <1>16 DEF Socket

(* A step of s keeps what holds of the other connections.                  *)
LEMMA OthersKept ==
  ASSUME TypeOK, Numbered, NEW s \in Sockets, Local(s),
         NEW t \in Sockets \ {s}, Socket(t)
  PROVE  Socket(t)'
  <1>1. ASSUME conn[t] # 0, NEW m \in Own(t)
        PROVE  m \in Own(t)' /\ msgs'[m] = msgs[m]
    <2>1. m \in DOMAIN msgs /\ msgs[m].conn = conn[t] /\ m \notin freed
      BY DEF Own
    <2>2. conn[t] # conn[s]
      BY <1>1 DEF Numbered
    <2>3. m \notin Own(s)
      BY <2>1, <2>2 DEF Own
    <2>4. m \in DOMAIN msgs' /\ msgs'[m] = msgs[m] /\ m \notin freed'
          /\ conn'[t] = conn[t]
      BY <2>1, <2>3 DEF Local
    <2> QED  BY <2>1, <2>4 DEF Own
  <1> QED  BY <1>1, SocketKept DEF Local

(* What there is to show of a step of s. *)
Keeps(s) == Local(s) /\ TypeOK' /\ Plain' /\ fault' = "none" /\ Socket(s)'

(* A step that shows it, and opens or closes nothing, keeps the invariant. *)
LEMMA StepKeeps ==
  ASSUME TypeOK, WebInv, NEW s \in Sockets, Keeps(s),
         UNCHANGED <<conn, backlog, accepted, decs>>
  PROVE  TypeOK' /\ WebInv'
  <1>1. Numbered'
    BY DEF WebInv, Numbered, Keeps, Local
  <1>2. ClientsCounted'
    BY DEF WebInv, ClientsCounted
  <1>3. \A t \in Sockets : Socket(t)'
    BY OthersKept DEF WebInv, Keeps
  <1> QED  BY <1>1, <1>2, <1>3 DEF WebInv, Keeps

(* A handler of s ends: the tasks that are left, and their order. *)
LEMMA Posting ==
  ASSUME TypeOK, NEW s \in Sockets, OneEach(s), tasks[s] # <<>>,
         NEW x \in TaskType, x \notin Tasks(s) \ {Head(tasks[s])},
         Posts(s, <<x>>)
  PROVE  /\ tasks' \in [Sockets -> Seq(TaskType)]
         /\ \A t \in Sockets \ {s} : tasks'[t] = tasks[t]
         /\ IsInjective(tasks'[s])
         /\ Tasks(s)' = (Tasks(s) \ {Head(tasks[s])}) \cup {x}
         /\ \A u, v : Before(tasks'[s], u, v)
                        => u # x /\ (v = x \/ Before(tasks[s], u, v))
         /\ Head(tasks[s]) \in Tasks(s)
         /\ \A u : ~Before(tasks[s], u, Head(tasks[s]))
  <1>1. tasks[s] \in Seq(TaskType) /\ tasks \in [Sockets -> Seq(TaskType)]
    BY DEF TypeOK, TaskType
  <1>2. tasks' = [tasks EXCEPT ![s] = Tail(tasks[s]) \o <<x>>]
    BY DEF Posts
  <1>3. IsInjective(tasks[s])
    BY DEF OneEach
  <1> DEFINE r == Tail(tasks[s]) \o <<x>>
  <1>4. /\ r \in Seq(TaskType) /\ IsInjective(r)
        /\ ToSet(r) = (ToSet(tasks[s]) \ {Head(tasks[s])}) \cup {x}
        /\ \A u, v : Before(r, u, v)
                        => u # x /\ (v = x \/ Before(tasks[s], u, v))
    BY <1>1, <1>3, Turned DEF Tasks
  <1>5. /\ Head(tasks[s]) \in ToSet(tasks[s])
        /\ \A u : ~Before(tasks[s], u, Head(tasks[s]))
    BY <1>1, <1>3, HeadOf, HeadFirst
  <1> HIDE DEF r
  <1>6. tasks'[s] = r /\ \A t \in Sockets \ {s} : tasks'[t] = tasks[t]
    BY <1>1, <1>2 DEF r
  <1>7. tasks' \in [Sockets -> Seq(TaskType)]
    BY <1>1, <1>2, <1>4 DEF r
  <1> QED  BY <1>4, <1>5, <1>6, <1>7 DEF Tasks

(* The handler at the head of s ends: its task is gone.                    *)
LEMMA PostingNone ==
  ASSUME TypeOK, NEW s \in Sockets, OneEach(s), tasks[s] # <<>>,
         Posts(s, <<>>)
  PROVE  /\ tasks' \in [Sockets -> Seq(TaskType)]
         /\ \A t \in Sockets \ {s} : tasks'[t] = tasks[t]
         /\ IsInjective(tasks'[s])
         /\ Tasks(s)' = Tasks(s) \ {Head(tasks[s])}
         /\ \A u, v : Before(tasks'[s], u, v) => Before(tasks[s], u, v)
         /\ Head(tasks[s]) \in Tasks(s)
         /\ \A u : ~Before(tasks[s], u, Head(tasks[s]))
  <1>1. tasks[s] \in Seq(TaskType) /\ tasks \in [Sockets -> Seq(TaskType)]
    BY DEF TypeOK, TaskType
  <1>2. tasks' = [tasks EXCEPT ![s] = Tail(tasks[s]) \o <<>>]
    BY DEF Posts
  <1>3. IsInjective(tasks[s])
    BY DEF OneEach
  <1> DEFINE r == Tail(tasks[s]) \o <<>>
  <1>4. /\ r \in Seq(TaskType) /\ IsInjective(r)
        /\ ToSet(r) = ToSet(tasks[s]) \ {Head(tasks[s])}
        /\ \A u, v : Before(r, u, v) => Before(tasks[s], u, v)
    BY <1>1, <1>3, Ended
  <1>5. /\ Head(tasks[s]) \in ToSet(tasks[s])
        /\ \A u : ~Before(tasks[s], u, Head(tasks[s]))
    BY <1>1, <1>3, HeadOf, HeadFirst
  <1> HIDE DEF r
  <1>6. tasks'[s] = r /\ \A t \in Sockets \ {s} : tasks'[t] = tasks[t]
    BY <1>1, <1>2 DEF r
  <1>7. tasks' \in [Sockets -> Seq(TaskType)]
    BY <1>1, <1>2, <1>4 DEF r
  <1> QED  BY <1>4, <1>5, <1>6, <1>7 DEF Tasks

(* A task is posted on s from elsewhere. *)
LEMMA PostedBehind ==
  ASSUME TypeOK, NEW s \in Sockets, OneEach(s), NEW x \in TaskType,
         x \notin Tasks(s), tasks' = [tasks EXCEPT ![s] = Append(@, x)]
  PROVE  /\ tasks' \in [Sockets -> Seq(TaskType)]
         /\ \A t \in Sockets \ {s} : tasks'[t] = tasks[t]
         /\ IsInjective(tasks'[s])
         /\ Tasks(s)' = Tasks(s) \cup {x}
         /\ \A u, v : Before(tasks'[s], u, v)
                        => u # x /\ (v = x \/ Before(tasks[s], u, v))
  <1>1. tasks[s] \in Seq(TaskType) /\ tasks \in [Sockets -> Seq(TaskType)]
    BY DEF TypeOK, TaskType
  <1>3. IsInjective(tasks[s])
    BY DEF OneEach
  <1> DEFINE r == Append(tasks[s], x)
  <1>4. /\ r \in Seq(TaskType) /\ IsInjective(r)
        /\ ToSet(r) = ToSet(tasks[s]) \cup {x}
        /\ \A u, v : Before(r, u, v)
                        => u # x /\ (v = x \/ Before(tasks[s], u, v))
    BY <1>1, <1>3, Added DEF Tasks
  <1>5. tasks'[s] = r /\ \A t \in Sockets \ {s} : tasks'[t] = tasks[t]
    BY <1>1 DEF r
  <1> HIDE DEF r
  <1>6. tasks' \in [Sockets -> Seq(TaskType)]
    <2>1. tasks' = [tasks EXCEPT ![s] = r]
      BY DEF r
    <2> QED  BY <1>1, <1>4, <2>1
  <1> QED  BY <1>4, <1>5, <1>6 DEF Tasks

(* The handler at the head of s, and its message. *)
LEMMA AtHead ==
  ASSUME TypeOK, NEW s \in Sockets, Socket(s), NEW h \in Handlers, Runs(s, h)
  PROVE  /\ tasks[s] # <<>> /\ Head(tasks[s]) \in Tasks(s)
         /\ Head(tasks[s]).handler = h /\ Head(tasks[s]).msg = TheMsg(s)
         /\ TheMsg(s) \in Own(s) /\ TheMsg(s) \in DOMAIN msgs /\ TheMsg(s) # NULL
         /\ TheMsg(s) \in Nat /\ msgs[TheMsg(s)] \in Message
         /\ TheMsg(s) # pending[s] /\ conn[s] # 0 /\ IsInjective(tasks[s])
         /\ \A t \in Tasks(s) : t # Head(tasks[s]) =>
              /\ Class(t) # Class(Head(tasks[s])) /\ t.msg # TheMsg(s)
         /\ \A t \in Tasks(s) : ~Before(tasks[s], t, Head(tasks[s]))
  <1>1. OneEach(s)
    BY DEF Socket
  <1>2. tasks[s] # <<>> /\ Head(tasks[s]).handler = h
    BY DEF Runs
  <1>3. tasks[s] \in Seq(TaskType) /\ IsInjective(tasks[s])
    BY <1>1, OwnOnes
  <1>4. /\ Head(tasks[s]) \in Tasks(s)
        /\ \A u : ~Before(tasks[s], u, Head(tasks[s]))
    BY <1>2, <1>3, HeadOf, HeadFirst DEF Tasks
  <1>5. TheMsg(s) = Head(tasks[s]).msg
    BY DEF TheMsg
  <1>6. TheMsg(s) \in Own(s) /\ TheMsg(s) # pending[s]
    BY <1>1, <1>4, <1>5 DEF OneEach
  <1>7. TheMsg(s) \in 1 .. Len(msgs) /\ DOMAIN msgs = 1 .. Len(msgs)
        /\ Len(msgs) \in Nat
    BY <1>1, <1>6, OwnOnes
  <1>8. msgs[TheMsg(s)] \in Message
    BY <1>7, ElementOfSeq DEF TypeOK
  <1>9. conn[s] # 0
    BY <1>1, <1>2 DEF OneEach
  <1>10. TheMsg(s) # NULL /\ TheMsg(s) \in Nat
    BY <1>7 DEF NULL
  <1>11. \A t \in Tasks(s) : t # Head(tasks[s]) =>
              /\ Class(t) # Class(Head(tasks[s])) /\ t.msg # TheMsg(s)
    BY <1>1, <1>4, <1>5 DEF OneEach
  <1> QED  BY <1>2, <1>3, <1>4, <1>5, <1>6, <1>7, <1>8, <1>9, <1>10, <1>11

(* The treatment at the head of s is the only one. *)
LEMMA Treatment1 ==
  ASSUME TypeOK, NEW s \in Sockets, Socket(s), NEW h \in Treating, Runs(s, h)
  PROVE  /\ treats[s] = 1 /\ Ends(msgs[TheMsg(s)].data) # {}
         /\ Number(TheMsg(s)) = Current(s)
         /\ TheMsg(s) # Registered(s)
         /\ Answered(s) <=> h = "FreeRequest" /\ Number(TheMsg(s)) = Len(got[s])
         /\ \A t \in Tasks(s) : t # Head(tasks[s]) => ~Treats(t)
         /\ h # "ParseRequest" => ~msgs[TheMsg(s)].close
         /\ \A t \in Tasks(s) : t.handler # "RegisterRead"
  <1>1. h \in Handlers
    BY DEF Handlers
  <1> DEFINE t == Head(tasks[s])
  <1>2. /\ t \in Tasks(s) /\ t.handler = h /\ t.msg = TheMsg(s) /\ Treats(t)
        /\ Class(t) = "treat"
        /\ \A u \in Tasks(s) : u # t => Class(u) # Class(t)
    BY <1>1, AtHead DEF Treats, Class
  <1>3. \A u \in Tasks(s) : u # t => ~Treats(u)
    BY <1>2 DEF Class
  <1>4. treats[s] = 1 /\ Ends(msgs[t.msg].data) # {}
        /\ (msgs[t.msg].close => t.handler = "ParseRequest")
    BY <1>2 DEF Socket, Pending
  <1>5. Number(t.msg) = Current(s)
    BY <1>2 DEF Socket, Treated
  <1>6. t.msg # Registered(s)
    BY <1>2 DEF Socket, OneEach
  <1> HIDE DEF t
  <1>7. Answered(s) <=> h = "FreeRequest" /\ Number(TheMsg(s)) = Len(got[s])
    BY <1>2, <1>3 DEF Answered, Treats, Treating
  <1>8. \A u \in Tasks(s) : u.handler # "RegisterRead"
    BY <1>2, <1>4 DEF Socket, Reads
  <1> QED  BY <1>2, <1>3, <1>4, <1>5, <1>6, <1>7, <1>8 DEF t

(* The bounds of the settings, and the numbers of the requests. *)
LEMMA Bounds ==
  ASSUME TypeOK, NEW s \in Sockets
  PROVE  /\ {setting.maxClients, setting.batch, setting.maxLength,
             setting.clients, setting.requests, setting.pipelined}
              \subseteq Nat \ {0}
         /\ {setting.gzip, setting.sendfile, setting.hasty, setting.halves}
              \subseteq BOOLEAN
         /\ setting.kinds \subseteq {"file", "missing", "special", "bad"}
         /\ Len(got[s]) \in Nat /\ asked[s] \in Nat /\ Current(s) \in Nat
         /\ Current(s) \in {Len(got[s]), Len(got[s]) + 1}
         /\ Taken(s) \in {Current(s), Current(s) + 1} /\ Taken(s) \in Nat
  <1>1. Len(got[s]) \in Nat /\ asked[s] \in Nat
    BY LenProperties DEF TypeOK
  <1>2. setting \in Settings
    BY DEF TypeOK
  <1> QED  BY <1>1, <1>2, WebAssumption DEF Current, Taken

(* What is held and what has come is a text of chunks. *)
LEMMA TextType ==
  ASSUME TypeOK, NEW s \in Sockets, OneEach(s)
  PROVE  /\ Text(s) \in Seq(Chunk) /\ Held(s) \in Seq(Chunk)
         /\ wire[s] \in Seq(Chunk)
         /\ Len(Text(s)) \in Nat /\ DOMAIN Text(s) = 1 .. Len(Text(s))
         /\ Text(s) = <<>> <=> Held(s) = <<>> /\ wire[s] = <<>>
         /\ \A i \in 1 .. Len(Text(s)) :
              Text(s)[i] \in Chunk /\ Text(s)[i][1] \in Nat
  <1>1. wire[s] \in Seq(Chunk)
    BY DEF TypeOK
  <1>2. Held(s) \in Seq(Chunk)
    <2>1. CASE Registered(s) = NULL
      BY <2>1, EmptySeq DEF Held
    <2>2. CASE Registered(s) # NULL
      <3>1. Registered(s) \in 1 .. Len(msgs)
        BY <2>2, OwnOnes
      <3>2. msgs[Registered(s)] \in Message
        BY <3>1, ElementOfSeq DEF TypeOK
      <3> QED  BY <2>2, <3>2 DEF Held, Message
    <2> QED  BY <2>1, <2>2
  <1>3. Text(s) \in Seq(Chunk)
    BY <1>1, <1>2, ConcatProperties DEF Text
  <1>4. Len(Text(s)) \in Nat /\ DOMAIN Text(s) = 1 .. Len(Text(s))
    BY <1>3, LenProperties
  <1>5. Text(s) = <<>> <=> Held(s) = <<>> /\ wire[s] = <<>>
    BY <1>1, <1>2, ConcatEqualIffEmpty DEF Text
  <1>6. \A i \in 1 .. Len(Text(s)) : Text(s)[i] \in Chunk
    BY <1>3, ElementOfSeq
  <1> QED  BY <1>1, <1>2, <1>3, <1>4, <1>5, <1>6 DEF Chunk

(* With one request at a time, nothing follows one that is in treatment.   *)
LEMMA NothingBehind ==
  ASSUME TypeOK, NEW s \in Sockets, Socket(s), OneByOne,
         treats[s] # 0, ~Answered(s)
  PROVE  /\ asked[s] = Len(got[s]) + 1 /\ Current(s) = asked[s]
         /\ Taken(s) = asked[s] /\ pending[s] = NULL
         /\ Text(s) = <<>> /\ wire[s] = <<>>
         /\ queued[s] => ~peer[s]
         /\ peer[s] => ~half[s]
         /\ ~setting.hasty => peer[s] \/ conn[s] = 0
  <1>1. OneEach(s) /\ Reads(s) /\ Treated(s) /\ Sent(s)
    BY DEF Socket
  <1>2. /\ Len(got[s]) \in Nat /\ asked[s] \in Nat
        /\ setting.pipelined \in Nat /\ setting.requests \in Nat
    BY Bounds
  <1>3. Current(s) = Len(got[s]) + 1
    BY DEF Current
  <1>4. Taken(s) >= Current(s) /\ Taken(s) <= asked[s]
        /\ (pending[s] # NULL => Taken(s) = Current(s) + 1)
    BY <1>1, <1>2, <1>3 DEF Taken, Treated
  <1>5. asked[s] <= setting.requests /\ asked[s] <= Len(got[s]) + setting.pipelined
    BY <1>1 DEF Treated
  <1>6. asked[s] = Len(got[s]) + 1
    <2>1. CASE setting.pipelined = 1
      BY <1>2, <1>3, <1>4, <1>5, <2>1 DEF Taken
    <2>2. CASE setting.requests = 1
      BY <1>2, <1>3, <1>4, <1>5, <2>2 DEF Taken
    <2> QED  BY <2>1, <2>2 DEF OneByOne
  <1>7. Taken(s) = asked[s] /\ pending[s] = NULL
    BY <1>2, <1>3, <1>4, <1>6 DEF Taken
  <1>8. Text(s) = <<>>
    <2> SUFFICES ASSUME Text(s) # <<>> PROVE FALSE
      OBVIOUS
    <2>1. Len(Text(s)) # 0 /\ Len(Text(s)) \in Nat
          /\ DOMAIN Text(s) = 1 .. Len(Text(s))
      BY <1>1, TextType, EmptySeq
    <2>2. 1 \in DOMAIN Text(s)
      BY <2>1
    <2>3. Text(s)[1][1] <= asked[s]
      BY <1>1, <2>2 DEF Sent
    <2>4. Text(s)[1][1] = Taken(s) + 1
      BY <1>1 DEF Sent, Follows
    <2> QED  BY <1>2, <1>7, <2>3, <2>4
  <1>9. wire[s] = <<>>
    BY <1>1, <1>8, TextType
  <1>10. queued[s] => ~peer[s]
    BY <1>1, <1>9 DEF Reads
  <1>11. peer[s] => ~half[s]
    BY <1>1, <1>8 DEF Sent, UpTo
  <1>12. ~setting.hasty => peer[s] \/ conn[s] = 0
    BY <1>1, <1>2, <1>6 DEF Treated
  <1> QED  BY <1>3, <1>6, <1>7, <1>8, <1>9, <1>10, <1>11, <1>12

(* A treatment goes on with the same request, and posts its next handler.  *)
LEMMA TurnKeeps ==
  ASSUME TypeOK, WebInv, NEW s \in Sockets,
         NEW h \in Treating \ {"FreeRequest"}, Runs(s, h),
         NEW g \in Treating \ {"FourOhFor", "BadRequest"},
         g = "FreeRequest" => ~peer[s], ~msgs[TheMsg(s)].close,
         Posts(s, <<Task(g, TheMsg(s))>>), files' \subseteq Nat,
         UNCHANGED <<setting, conn, accepted, decs, clientVars, got, readVars,
                     msgs, freed, listVars, fault>>
  PROVE  Keeps(s)
  <1> DEFINE t == Head(tasks[s])
             m == TheMsg(s)
             x == Task(g, TheMsg(s))
  <1>1. Socket(s) /\ OneEach(s) /\ Reads(s) /\ Pending(s) /\ Treated(s) /\ Sent(s)
        /\ Behind(s)
    BY DEF WebInv, Socket
  <1>2. h \in Handlers /\ g \in Handlers
    BY DEF Handlers
  <1>3. /\ tasks[s] # <<>> /\ t \in Tasks(s) /\ t.handler = h /\ t.msg = m
        /\ m \in Own(s) /\ m \in Nat
        /\ m # pending[s] /\ conn[s] # 0
        /\ \A u \in Tasks(s) : u # t => Class(u) # Class(t) /\ u.msg # m
    BY <1>1, <1>2, AtHead
  <1>4. /\ treats[s] = 1 /\ Ends(msgs[m].data) # {}
        /\ Number(m) = Current(s) /\ m # Registered(s) /\ ~Answered(s)
        /\ \A u \in Tasks(s) : u # t => ~Treats(u)
        /\ \A u \in Tasks(s) : u.handler # "RegisterRead"
    BY <1>1, Treatment1
  <1>5. /\ x \in TaskType /\ x.handler = g /\ x.msg = m /\ Treats(x)
        /\ Class(x) = "treat" /\ Class(t) = "treat" /\ Treats(t)
        /\ x.handler # "ReadRequest" /\ x.handler # "Close"
    BY <1>2, <1>3 DEF Task, TaskType, Treats, Class, Treating
  <1>6. x \notin Tasks(s) \ {t}
    BY <1>3, <1>5
  <1>7. /\ tasks' \in [Sockets -> Seq(TaskType)]
        /\ \A u \in Sockets \ {s} : tasks'[u] = tasks[u]
        /\ IsInjective(tasks'[s])
        /\ Tasks(s)' = (Tasks(s) \ {t}) \cup {x}
        /\ \A u, v : Before(tasks'[s], u, v)
                        => u # x /\ (v = x \/ Before(tasks[s], u, v))
    BY <1>1, <1>3, <1>5, <1>6, Posting
  <1> HIDE DEF t, m, x
  <1>8. TypeOK'
    BY <1>7 DEF TypeOK, TaskType, clientVars, readVars, listVars
  <1>9. Local(s) /\ Plain' /\ fault' = "none"
    BY <1>7 DEF Local, WebInv, Plain, clientVars, readVars, listVars, Says
  <1>10. /\ Registered(s)' = Registered(s) /\ Own(s)' = Own(s)
         /\ \A k : Number(k)' = Number(k)
    BY DEF Registered, Own, Number, Asked, readVars
  <1>11. OneEach(s)'
    BY <1>1, <1>3, <1>4, <1>5, <1>7, <1>10 DEF OneEach, readVars, listVars,
       clientVars
  <1>12. Reads(s)'
    BY <1>1, <1>4, <1>5, <1>7, <1>10 DEF Reads, readVars, listVars, clientVars,
       Treats, Treating
  <1>13. OneByOne' = OneByOne /\ NoError' = NoError
    BY DEF OneByOne, NoError
  <1>14. Pending(s)'
    <2>1. \A u \in Tasks(s)' :
            /\ Treats(u) => treats'[s] = 1 /\ Ends(msgs'[u.msg].data) # {}
            /\ ~(Treats(u) /\ msgs'[u.msg].close)
            /\ u.handler = "Close" => treats'[s] = 0 \/ ~peer'[s]
            /\ u.handler \in {"FourOhFor", "BadRequest"} => ~NoError'
      BY <1>1, <1>4, <1>5, <1>7, <1>13 DEF Pending, listVars, clientVars, m, x,
         Task
    <2> QED  BY <1>1, <1>13, <2>1 DEF Pending, listVars
  <1>15. ~Answered(s)'
    <2>1. Number(m) # Len(got[s])
      BY <1>4, Bounds DEF Current
    <2> QED  BY <1>4, <1>5, <1>7, <1>10, <2>1 DEF Answered, Treats, Treating
  <1>16. Current(s)' = Current(s) /\ Taken(s)' = Taken(s) /\ Text(s)' = Text(s)
    BY <1>4, <1>10, <1>15 DEF Current, Taken, Text, Held, listVars, clientVars
  <1>17. Treated(s)'
    <2>1. \A u \in Tasks(s)' : Treats(u) =>
            /\ Number(u.msg)' = Current(s)'
            /\ u.handler = "FreeRequest" => Answered(s)' \/ ~peer'[s]
      BY <1>4, <1>5, <1>7, <1>10, <1>16 DEF clientVars, x
    <2>2. Taken(s)' <= asked'[s] /\ asked'[s] <= setting'.requests
          /\ asked'[s] <= Len(got'[s]) + setting'.pipelined
          /\ (~setting'.hasty /\ ~peer'[s] /\ conn'[s] # 0
               => asked'[s] = Len(got'[s]))
          /\ (\A i \in DOMAIN got'[s] : got'[s][i] = i)
          /\ (pending'[s] # NULL => Number(pending[s])' = Current(s)' + 1)
      BY <1>1, <1>10, <1>16 DEF Treated, clientVars, listVars
    <2> QED  BY <2>1, <2>2 DEF Treated, listVars
  <1>18. Sent(s)'
    BY <1>1, <1>16 DEF Sent, clientVars, Says
  <1>19. Behind(s)'
    <2> SUFFICES ASSUME OneByOne, NEW r \in Tasks(s)', r.handler = "ReadRequest"
                 PROVE  Text(s) = <<>> /\ ~peer[s]
      BY <1>13, <1>16 DEF Behind, clientVars
    <2>1. r \in Tasks(s)
      BY <1>5, <1>7
    <2>2. queued[s]
      BY <1>1, <2>1 DEF Reads
    <2> QED  BY <1>1, <1>4, <2>2, NothingBehind
  <1> QED  BY <1>8, <1>9, <1>11, <1>12, <1>14, <1>17, <1>18, <1>19
           DEF Keeps, Socket

(* What a request asks for is one of the kinds of the setting. *)
LEMMA AskedKind ==
  ASSUME TypeOK, Plain, NEW m \in DOMAIN msgs, Ends(msgs[m].data) # {}
  PROVE  /\ Asked(m)[2] \in setting.kinds
         /\ Asked(m)[1] \in Nat
  <1>1. msgs[m] \in Message
    BY LenProperties, ElementOfSeq DEF TypeOK
  <1>2. msgs[m].data \in Seq(Chunk)
    BY <1>1 DEF Message
  <1>3. /\ FirstEnd(msgs[m].data) \in Ends(msgs[m].data)
        /\ msgs[m].data[FirstEnd(msgs[m].data)] \in Chunk
    BY <1>2, FirstEndIn
  <1> QED  BY <1>3 DEF Plain, Ends, Asked, Chunk, Says

(* A request that cannot be answered ends the reading, and its connection. *)
LEMMA StopKeeps ==
  ASSUME TypeOK, WebInv, Careful, NEW s \in Sockets,
         NEW h \in Treating \ {"FreeRequest"}, Runs(s, h),
         NEW g \in {"FourOhFor", "BadRequest"},
         Asked(TheMsg(s))[2] \in {"bad", "missing"},
         StopReading(s), Posts(s, <<Task(g, TheMsg(s))>>),
         UNCHANGED <<setting, conn, accepted, decs, clientVars, got, queued,
                     memVars, listVars, fault>>
  PROVE  Keeps(s)
  <1> DEFINE t == Head(tasks[s])
             m == TheMsg(s)
             x == Task(g, TheMsg(s))
  <1>1. Socket(s) /\ OneEach(s) /\ Reads(s) /\ Pending(s) /\ Treated(s) /\ Sent(s)
        /\ Behind(s)
    BY DEF WebInv, Socket
  <1>2. h \in Handlers /\ g \in Handlers
    BY DEF Handlers, Treating
  <1>3. /\ tasks[s] # <<>> /\ t \in Tasks(s) /\ t.handler = h /\ t.msg = m
        /\ m \in Own(s) /\ m \in Nat /\ m \in DOMAIN msgs
        /\ m # pending[s] /\ conn[s] # 0 /\ m # NULL
        /\ \A u \in Tasks(s) : u # t => Class(u) # Class(t) /\ u.msg # m
    BY <1>1, <1>2, AtHead
  <1>4. /\ treats[s] = 1 /\ Ends(msgs[m].data) # {}
        /\ Number(m) = Current(s) /\ m # Registered(s) /\ ~Answered(s)
        /\ \A u \in Tasks(s) : u # t => ~Treats(u)
        /\ \A u \in Tasks(s) : u.handler # "RegisterRead"
    BY <1>1, Treatment1
  <1>5. /\ x \in TaskType /\ x.handler = g /\ x.msg = m /\ Treats(x)
        /\ Class(x) = "treat" /\ Class(t) = "treat" /\ Treats(t)
        /\ x.handler # "ReadRequest" /\ x.handler # "Close"
    BY <1>2, <1>3 DEF Task, TaskType, Treats, Class, Treating
  <1>6. x \notin Tasks(s) \ {t}
    BY <1>3, <1>5
  <1>7. /\ tasks' \in [Sockets -> Seq(TaskType)]
        /\ \A u \in Sockets \ {s} : tasks'[u] = tasks[u]
        /\ IsInjective(tasks'[s])
        /\ Tasks(s)' = (Tasks(s) \ {t}) \cup {x}
    BY <1>1, <1>3, <1>5, <1>6, Posting
  <1>8. ~NoError
    BY <1>3, <1>4, AskedKind DEF NoError, WebInv
  <1>9. OneByOne /\ ~setting.hasty
    BY <1>8 DEF Careful
  <1>10. /\ Current(s) = asked[s] /\ Taken(s) = asked[s] /\ pending[s] = NULL
         /\ Text(s) = <<>> /\ wire[s] = <<>> /\ peer[s] /\ ~queued[s]
         /\ ~half[s]
    BY <1>1, <1>3, <1>4, <1>9, NothingBehind DEF NULL
  <1>11. \A u \in Tasks(s) : u.handler # "ReadRequest" /\ u.handler # "Close"
    BY <1>1, <1>4, <1>10 DEF Reads, Pending
  <1>12. Tasks(s)' = {x}
    BY <1>3, <1>4, <1>7, <1>11, OwnOnes, <1>1
       DEF TaskType, Handlers, Treats
  <1>13. cbs' \in [Sockets -> Seq(Nat)] /\ cbs'[s] = <<>> /\ Registered(s)' = NULL
         /\ \A u \in Sockets \ {s} : cbs'[u] = cbs[u]
    BY EmptySeq DEF StopReading, TypeOK, Registered
  <1> HIDE DEF t, m, x
  <1>14. TypeOK'
    BY <1>7, <1>13 DEF TypeOK, TaskType, clientVars, memVars, listVars
  <1>15. Local(s) /\ Plain' /\ fault' = "none"
    BY <1>7, <1>13 DEF Local, WebInv, Plain, clientVars, memVars, listVars, Says
  <1>16. Own(s)' = Own(s) /\ \A k : Number(k)' = Number(k)
    BY DEF Own, Number, Asked, memVars
  <1>17. OneEach(s)'
    BY <1>3, <1>5, <1>7, <1>10, <1>12, <1>13, <1>16 DEF OneEach, listVars
  <1>18. Reads(s)'
    BY <1>5, <1>10, <1>12, <1>13, <1>2 DEF Reads, Treats, Treating
  <1>19. OneByOne' = OneByOne /\ NoError' = NoError
    BY DEF OneByOne, NoError
  <1>20. ~msgs[m].close
    BY <1>1, <1>3, <1>4, <1>5, <1>10 DEF Pending
  <1>21. Pending(s)'
    BY <1>4, <1>5, <1>8, <1>10, <1>12, <1>19, <1>20
       DEF Pending, listVars, memVars
  <1>22. ~Answered(s)'
    BY <1>5, <1>12 DEF Answered
  <1>23. /\ Current(s)' = Current(s) /\ Taken(s)' = Taken(s)
    BY <1>4, <1>22 DEF Current, Taken, listVars
  <1>24. Text(s)' = <<>>
    <2>1. wire'[s] = <<>> /\ Held(s)' = <<>>
      BY <1>10, <1>13 DEF Held, clientVars
    <2> QED  BY <2>1 DEF Text
  <1>25. Treated(s)'
    BY <1>1, <1>4, <1>5, <1>10, <1>12, <1>16, <1>23
       DEF Treated, clientVars, listVars
  <1>26. Sent(s)'
    <2>1. DOMAIN Text(s)' = {} /\ Len(Text(s)') = 0
      BY <1>24, EmptyList
    <2> QED  BY <1>10, <1>23, <1>24, <2>1 DEF Sent, Follows, UpTo, clientVars
  <1>27. Behind(s)'
    BY <1>5, <1>12 DEF Behind
  <1> QED  BY <1>14, <1>15, <1>17, <1>18, <1>21, <1>25, <1>26, <1>27
           DEF Keeps, Socket

(* The answer is written, and the client gets it. *)
LEMMA AnswerKeeps ==
  ASSUME TypeOK, WebInv, NEW s \in Sockets,
         NEW h \in {"Write", "SendFile"}, Runs(s, h), peer[s],
         got' = [got EXCEPT ![s] = Append(@, Asked(TheMsg(s))[1])],
         Posts(s, <<Task("FreeRequest", TheMsg(s))>>), files' \subseteq Nat,
         UNCHANGED <<setting, conn, accepted, decs, clientVars, readVars,
                     msgs, freed, listVars, fault>>
  PROVE  Keeps(s)
  <1> DEFINE t == Head(tasks[s])
             m == TheMsg(s)
             x == Task("FreeRequest", TheMsg(s))
  <1>1. Socket(s) /\ OneEach(s) /\ Reads(s) /\ Pending(s) /\ Treated(s) /\ Sent(s)
        /\ Behind(s)
    BY DEF WebInv, Socket
  <1>2. h \in Treating /\ h \in Handlers
    BY DEF Handlers, Treating
  <1>3. /\ tasks[s] # <<>> /\ t \in Tasks(s) /\ t.handler = h /\ t.msg = m
        /\ m \in Own(s) /\ m \in Nat /\ m \in DOMAIN msgs
        /\ m # pending[s] /\ conn[s] # 0
        /\ \A u \in Tasks(s) : u # t => Class(u) # Class(t) /\ u.msg # m
    BY <1>1, <1>2, AtHead
  <1>4. /\ treats[s] = 1 /\ Ends(msgs[m].data) # {}
        /\ Number(m) = Current(s) /\ m # Registered(s) /\ ~Answered(s)
        /\ \A u \in Tasks(s) : u # t => ~Treats(u)
        /\ \A u \in Tasks(s) : u.handler # "RegisterRead"
        /\ ~msgs[m].close
    BY <1>1, <1>2, Treatment1
  <1>5. /\ x \in TaskType /\ x.handler = "FreeRequest" /\ x.msg = m /\ Treats(x)
        /\ Class(x) = "treat" /\ Class(t) = "treat" /\ Treats(t)
    BY <1>2, <1>3 DEF Task, TaskType, Treats, Class, Treating, Handlers
  <1>6. x \notin Tasks(s) \ {t}
    BY <1>3, <1>5
  <1>7. /\ tasks' \in [Sockets -> Seq(TaskType)]
        /\ \A u \in Sockets \ {s} : tasks'[u] = tasks[u]
        /\ IsInjective(tasks'[s])
        /\ Tasks(s)' = (Tasks(s) \ {t}) \cup {x}
    BY <1>1, <1>3, <1>5, <1>6, Posting
  <1> DEFINE n == Len(got[s])
  <1>8. n \in Nat /\ Current(s) = n + 1 /\ Asked(m)[1] = n + 1
    BY <1>4, Bounds DEF Current, Number
  <1>9. /\ got' \in [Sockets -> Seq(Nat)]
        /\ \A u \in Sockets \ {s} : got'[u] = got[u]
        /\ Len(got'[s]) = n + 1
        /\ \A i \in DOMAIN got'[s] : got'[s][i] = i
    <2>1. got \in [Sockets -> Seq(Nat)] /\ got[s] \in Seq(Nat)
      BY DEF TypeOK
    <2>2. got' = [got EXCEPT ![s] = Append(got[s], n + 1)]
      BY <1>8 DEF m
    <2>3. n + 1 \in Nat
      BY <1>8
    <2> DEFINE a == Append(got[s], n + 1)
    <2>4. a \in Seq(Nat) /\ Len(a) = n + 1 /\ a[n + 1] = n + 1
          /\ \A i \in 1 .. n : a[i] = got[s][i]
      BY <2>1, <2>3, PostedLast
    <2> HIDE DEF a
    <2>5. \A i \in 1 .. n : got[s][i] = i
      BY <1>1, <2>1, LenProperties DEF Treated
    <2>6. DOMAIN a = 1 .. n + 1
      BY <2>4, LenProperties
    <2>7. \A i \in DOMAIN a : a[i] = i
      <3> TAKE i \in DOMAIN a
      <3>1. i = n + 1 \/ i \in 1 .. n
        BY <1>8, <2>6
      <3> QED  BY <2>4, <2>5, <3>1
    <2>8. got' = [got EXCEPT ![s] = a]
      BY <2>2 DEF a
    <2> HIDE DEF n
    <2> QED  BY <2>1, <2>4, <2>7, <2>8
  <1> HIDE DEF t, m, x, n
  <1>10. TypeOK'
    BY <1>7, <1>9 DEF TypeOK, TaskType, clientVars, readVars, listVars
  <1>11. Local(s) /\ Plain' /\ fault' = "none"
    BY <1>7, <1>9 DEF Local, WebInv, Plain, clientVars, readVars, listVars, Says
  <1>12. /\ Registered(s)' = Registered(s) /\ Own(s)' = Own(s)
         /\ \A k : Number(k)' = Number(k)
    BY DEF Registered, Own, Number, Asked, readVars
  <1>13. OneEach(s)'
    BY <1>1, <1>3, <1>4, <1>5, <1>7, <1>12 DEF OneEach, readVars, listVars,
       clientVars
  <1>14. Reads(s)'
    BY <1>1, <1>4, <1>5, <1>7, <1>12 DEF Reads, readVars, listVars, clientVars,
       Treats, Treating
  <1>15. OneByOne' = OneByOne /\ NoError' = NoError
    BY DEF OneByOne, NoError
  <1>16. Pending(s)'
    <2>1. \A u \in Tasks(s)' :
            /\ Treats(u) => treats'[s] = 1 /\ Ends(msgs'[u.msg].data) # {}
            /\ ~(Treats(u) /\ msgs'[u.msg].close)
            /\ u.handler = "Close" => treats'[s] = 0 \/ ~peer'[s]
            /\ u.handler \in {"FourOhFor", "BadRequest"} => ~NoError'
      BY <1>1, <1>4, <1>5, <1>7, <1>15 DEF Pending, listVars, clientVars
    <2> QED  BY <1>1, <1>15, <2>1 DEF Pending, listVars
  <1>17. Answered(s)'
    BY <1>4, <1>5, <1>7, <1>8, <1>9, <1>12 DEF Answered
  <1>18. Current(s)' = Current(s) /\ Taken(s)' = Taken(s) /\ Text(s)' = Text(s)
    BY <1>8, <1>9, <1>12, <1>17 DEF Current, Taken, Text, Held, listVars,
       clientVars
  <1>19. Treated(s)'
    <2>1. \A u \in Tasks(s)' : Treats(u) =>
            /\ Number(u.msg)' = Current(s)'
            /\ u.handler = "FreeRequest" => Answered(s)' \/ ~peer'[s]
      BY <1>4, <1>5, <1>7, <1>12, <1>17, <1>18
    <2>2. asked'[s] <= Len(got'[s]) + setting'.pipelined
      <3>1. asked[s] <= n + setting.pipelined
        BY <1>1 DEF Treated, n
      <3>2. asked[s] \in Nat /\ setting.pipelined \in Nat
        BY Bounds
      <3> QED  BY <1>8, <1>9, <3>1, <3>2 DEF clientVars
    <2>3. Taken(s)' <= asked'[s] /\ asked'[s] <= setting'.requests
          /\ peer'[s]
          /\ (\A i \in DOMAIN got'[s] : got'[s][i] = i)
          /\ (pending'[s] # NULL => Number(pending[s])' = Current(s)' + 1)
      BY <1>1, <1>9, <1>12, <1>18 DEF Treated, clientVars, listVars
    <2> QED  BY <2>1, <2>2, <2>3 DEF Treated, listVars
  <1>20. Sent(s)'
    BY <1>1, <1>18 DEF Sent, clientVars, Says
  <1>21. Behind(s)'
    <2> SUFFICES ASSUME OneByOne, NEW r \in Tasks(s)', r.handler = "ReadRequest"
                 PROVE  FALSE
      BY <1>15 DEF Behind
    <2>1. r \in Tasks(s)
      BY <1>5, <1>7
    <2>2. queued[s]
      BY <1>1, <2>1 DEF Reads
    <2> QED  BY <1>1, <1>4, <2>2, NothingBehind
  <1> QED  BY <1>10, <1>11, <1>13, <1>14, <1>16, <1>19, <1>20, <1>21
           DEF Keeps, Socket

(* A request that was not answered and is over has nothing behind it.      *)
LEMMA GoneBehind ==
  ASSUME TypeOK, Careful, NEW s \in Sockets, Socket(s), conn[s] # 0,
         treats[s] # 0, ~Answered(s), ~peer[s]
  PROVE  /\ OneByOne /\ setting.hasty
         /\ Text(s) = <<>> /\ wire[s] = <<>> /\ pending[s] = NULL
  <1>1. /\ Len(got[s]) \in Nat /\ asked[s] \in Nat
        /\ Current(s) = Len(got[s]) + 1 /\ Taken(s) \in {Current(s), Current(s) + 1}
    BY Bounds DEF Current
  <1>2. setting.hasty
    BY <1>1 DEF Socket, Treated
  <1>3. OneByOne
    BY <1>2 DEF Careful, AtMostTwo
  <1> QED  BY <1>2, <1>3, NothingBehind

(* A request is over, and no other one waits.                              *)
LEMMA LastFreed ==
  ASSUME TypeOK, WebInv, Careful, NEW s \in Sockets, FreeRequest(s),
         pending[s] = NULL, UNCHANGED setting
  PROVE  Keeps(s)
  <1> DEFINE t == Head(tasks[s])
             m == TheMsg(s)
  <1>1. Socket(s) /\ OneEach(s) /\ Reads(s) /\ Pending(s) /\ Treated(s) /\ Sent(s)
        /\ Behind(s)
    BY DEF WebInv, Socket
  <1>2. "FreeRequest" \in Treating /\ "FreeRequest" \in Handlers
    BY DEF Handlers, Treating
  <1>3. /\ Runs(s, "FreeRequest") /\ freed' = freed \cup {m}
        /\ treats' = [treats EXCEPT ![s] = @ - 1]
        /\ fault' = IF treats'[s] # 0 THEN "treatments" ELSE fault
        /\ Posts(s, <<>>)
        /\ UNCHANGED <<conn, accepted, decs, clientVars, got, readVars, msgs,
                       files, pending>>
    BY DEF FreeRequest
  <1>4. /\ tasks[s] # <<>> /\ t \in Tasks(s) /\ t.handler = "FreeRequest"
        /\ t.msg = m /\ m \in Own(s) /\ m \in DOMAIN msgs
        /\ m # pending[s] /\ conn[s] # 0
        /\ \A u \in Tasks(s) : u # t => Class(u) # Class(t) /\ u.msg # m
    BY <1>1, <1>2, <1>3, AtHead
  <1>5. /\ treats[s] = 1 /\ m # Registered(s)
        /\ \A u \in Tasks(s) : u # t => ~Treats(u)
        /\ \A u \in Tasks(s) : u.handler # "RegisterRead"
    BY <1>1, <1>2, <1>3, Treatment1
  <1>6. /\ tasks' \in [Sockets -> Seq(TaskType)]
        /\ \A u \in Sockets \ {s} : tasks'[u] = tasks[u]
        /\ IsInjective(tasks'[s])
        /\ Tasks(s)' = Tasks(s) \ {t}
    BY <1>1, <1>3, <1>4, PostingNone
  <1> HIDE DEF t, m
  <1>7. /\ treats' \in [Sockets -> {0, 1}] /\ treats'[s] = 0
        /\ \A u \in Sockets \ {s} : treats'[u] = treats[u]
    <2>1. treats' = [treats EXCEPT ![s] = 0]
      BY <1>3, <1>5
    <2> QED  BY <2>1 DEF TypeOK
  <1>8. TypeOK'
    BY <1>3, <1>4, <1>6, <1>7 DEF TypeOK, TaskType, clientVars, readVars
  <1>9. Local(s) /\ Plain' /\ fault' = "none"
    BY <1>3, <1>4, <1>6, <1>7 DEF Local, WebInv, Plain, clientVars, readVars, Says
  <1>10. /\ Registered(s)' = Registered(s) /\ Own(s)' = Own(s) \ {m}
         /\ \A k : Number(k)' = Number(k)
    BY <1>3 DEF Registered, Own, Number, Asked, readVars
  <1>11. \A u \in Tasks(s)' : ~Treats(u) /\ u.msg # m /\ u \in Tasks(s)
    BY <1>4, <1>5, <1>6
  <1>12. OneEach(s)'
    BY <1>1, <1>3, <1>4, <1>5, <1>6, <1>10, <1>11 DEF OneEach, readVars,
       clientVars
  <1>13. Reads(s)'
    BY <1>1, <1>3, <1>4, <1>5, <1>6, <1>10 DEF Reads, readVars, clientVars
  <1>14. Pending(s)'
    BY <1>3, <1>7, <1>11 DEF Pending, Treats, Treating
  <1>15. Current(s)' = Len(got[s]) /\ Taken(s)' = Len(got[s])
         /\ Text(s)' = Text(s)
    BY <1>3, <1>7, <1>10 DEF Current, Taken, Text, Held, clientVars
  <1>16. Taken(s) \in Nat /\ Len(got[s]) \in Nat /\ asked[s] \in Nat
         /\ Taken(s) >= Len(got[s]) /\ (Answered(s) => Taken(s) = Len(got[s]))
    BY Bounds DEF Taken, Current
  <1>17. Treated(s)'
    BY <1>1, <1>3, <1>11, <1>15, <1>16 DEF Treated, clientVars
  <1>18. Sent(s)'
    <2>1. CASE Answered(s)
      BY <1>1, <1>3, <1>15, <1>16, <2>1 DEF Sent, clientVars, Says
    <2>2. CASE ~Answered(s)
      <3>1. ~peer[s]
        BY <1>1, <1>4, <2>2 DEF Treated, Treats, Treating
      <3>2. Text(s) = <<>>
        BY <1>1, <1>4, <1>5, <2>2, <3>1, GoneBehind
      <3>3. DOMAIN Text(s)' = {} /\ Len(Text(s)') = 0
        BY <1>15, <3>2, EmptyList
      <3> QED  BY <1>3, <1>15, <3>1, <3>2, <3>3 DEF Sent, Follows, clientVars
    <2> QED  BY <2>1, <2>2
  <1>19. Behind(s)'
    BY <1>11 DEF Behind
  <1> QED  BY <1>8, <1>9, <1>12, <1>13, <1>14, <1>17, <1>18, <1>19
           DEF Keeps, Socket

(* A request is over, and the pending one is next.                         *)
LEMMA NextFreed ==
  ASSUME TypeOK, WebInv, Careful, NEW s \in Sockets, FreeRequest(s),
         pending[s] # NULL, UNCHANGED setting
  PROVE  Keeps(s)
  <1> DEFINE t == Head(tasks[s])
             m == TheMsg(s)
             p == pending[s]
             x == Task("ParseRequest", pending[s])
  <1>1. Socket(s) /\ OneEach(s) /\ Reads(s) /\ Pending(s) /\ Treated(s) /\ Sent(s)
        /\ Behind(s)
    BY DEF WebInv, Socket
  <1>2. "FreeRequest" \in Treating /\ "FreeRequest" \in Handlers
        /\ "ParseRequest" \in Treating /\ "ParseRequest" \in Handlers
    BY DEF Handlers, Treating
  <1>3. /\ Runs(s, "FreeRequest") /\ freed' = freed \cup {m}
        /\ fault' = IF p \in freed THEN "freed message"
                    ELSE IF msgs[p].reqEnd # msgs[p].length
                    THEN "length of a request" ELSE fault
        /\ pending' = [pending EXCEPT ![s] = msgs[p].next]
        /\ Posts(s, <<x>>)
        /\ UNCHANGED <<conn, accepted, decs, clientVars, got, readVars, msgs,
                       files, treats>>
    BY DEF FreeRequest
  <1>4. /\ tasks[s] # <<>> /\ t \in Tasks(s) /\ t.handler = "FreeRequest"
        /\ t.msg = m /\ m \in Own(s) /\ m \in DOMAIN msgs /\ m # p
        /\ conn[s] # 0
        /\ \A u \in Tasks(s) : u # t => Class(u) # Class(t) /\ u.msg # m
    BY <1>1, <1>2, <1>3, AtHead
  <1>5. /\ treats[s] = 1 /\ m # Registered(s)
        /\ Number(m) = Current(s)
        /\ Answered(s) <=> Number(m) = Len(got[s])
        /\ \A u \in Tasks(s) : u # t => ~Treats(u)
        /\ \A u \in Tasks(s) : u.handler # "RegisterRead"
    BY <1>1, <1>2, <1>3, Treatment1
  <1>6. /\ p \in Own(s) /\ p \in DOMAIN msgs /\ p \notin freed /\ p \in Nat
        /\ p # Registered(s) /\ \A u \in Tasks(s) : u.msg # p
    BY <1>1, OwnOnes DEF OneEach, Own
  <1>7. /\ ~OneByOne /\ ~msgs[p].close /\ Ends(msgs[p].data) # {}
        /\ msgs[p].reqEnd = msgs[p].length /\ msgs[p].next = NULL
        /\ Number(p) = Current(s) + 1
    BY <1>1, <1>6 DEF Pending, Treated, WebInv, Plain
  <1>8. /\ x \in TaskType /\ x.handler = "ParseRequest" /\ x.msg = p /\ Treats(x)
        /\ Class(x) = "treat" /\ Class(t) = "treat" /\ Treats(t)
    BY <1>2, <1>4, <1>6 DEF Task, TaskType, Treats, Class
  <1>9. x \notin Tasks(s) \ {t}
    BY <1>6, <1>8
  <1>10. /\ tasks' \in [Sockets -> Seq(TaskType)]
         /\ \A u \in Sockets \ {s} : tasks'[u] = tasks[u]
         /\ IsInjective(tasks'[s])
         /\ Tasks(s)' = (Tasks(s) \ {t}) \cup {x}
    BY <1>1, <1>3, <1>4, <1>8, <1>9, Posting
  <1> HIDE DEF t, m, x
  <1>11. /\ pending' \in [Sockets -> Nat] /\ pending'[s] = NULL
         /\ \A u \in Sockets \ {s} : pending'[u] = pending[u]
    <2>1. pending' = [pending EXCEPT ![s] = NULL]
      BY <1>3, <1>7
    <2>2. NULL \in Nat /\ pending \in [Sockets -> Nat]
      BY DEF TypeOK, NULL
    <2> QED  BY <2>1, <2>2
  <1>12. TypeOK'
    BY <1>3, <1>4, <1>10, <1>11 DEF TypeOK, TaskType, clientVars, readVars
  <1>13. Local(s) /\ Plain' /\ fault' = "none"
    BY <1>3, <1>4, <1>6, <1>7, <1>10, <1>11 DEF Local, WebInv, Plain, clientVars,
       readVars, Says
  <1>14. /\ Registered(s)' = Registered(s) /\ Own(s)' = Own(s) \ {m}
         /\ \A k : Number(k)' = Number(k)
    BY <1>3 DEF Registered, Own, Number, Asked, readVars
  <1>15. \A u \in Tasks(s)' :
           u = x \/ (~Treats(u) /\ u.msg # m /\ u.msg # p /\ u \in Tasks(s)
                       /\ Class(u) # "treat")
    <2> SUFFICES ASSUME NEW r \in Tasks(s)', r # x
                 PROVE  /\ ~Treats(r) /\ r.msg # m /\ r.msg # p
                        /\ r \in Tasks(s) /\ Class(r) # "treat"
      OBVIOUS
    <2>1. r \in Tasks(s) /\ r # t
      BY <1>10
    <2> QED  BY <1>4, <1>5, <1>6, <1>8, <2>1
  <1>16. OneEach(s)'
    <2>1. \A u \in Tasks(s)' : /\ u.msg \in Own(s)' /\ u.msg # pending'[s]
                               /\ Class(u) # "read" => u.msg # Registered(s)'
      <3>1. NULL \notin Own(s)
        BY <1>1, OwnOnes
      <3> QED  BY <1>1, <1>4, <1>6, <1>8, <1>11, <1>14, <1>15, <3>1 DEF OneEach
    <2>2. \A u, v \in Tasks(s)' : u # v => Class(u) # Class(v) /\ u.msg # v.msg
      BY <1>1, <1>8, <1>15 DEF OneEach
    <2> QED  BY <1>1, <1>3, <1>4, <1>5, <1>10, <1>11, <1>14, <2>1, <2>2
             DEF OneEach, readVars
  <1>17. Reads(s)'
    BY <1>1, <1>3, <1>5, <1>8, <1>4, <1>10, <1>14, <1>15 DEF Reads, readVars,
       clientVars
  <1>18. NoError' = NoError
    BY DEF NoError
  <1>19. Pending(s)'
    BY <1>1, <1>3, <1>5, <1>7, <1>8, <1>11, <1>15, <1>18 DEF Pending, clientVars,
       Treats, Treating
  <1>20. Answered(s)
    <2>1. ~(~Answered(s) /\ ~peer[s])
      BY <1>1, <1>4, <1>5, <1>7, GoneBehind
    <2> QED  BY <1>1, <1>4, <1>8, <2>1 DEF Treated
  <1>21. ~Answered(s)'
    BY <1>2, <1>8, <1>15 DEF Answered, Treats
  <1>22. /\ Current(s) = Len(got[s]) /\ Current(s)' = Len(got[s]) + 1
         /\ Taken(s)' = Taken(s) /\ Text(s)' = Text(s)
    <2>1. Current(s) = Len(got[s]) /\ Current(s)' = Len(got[s]) + 1
      <3>1. Current(s) = Len(got[s])
        BY <1>20 DEF Current
      <3>2. treats'[s] = 1 /\ got' = got
        BY <1>3, <1>5
      <3>3. Current(s)' = Len(got[s]) + 1
        BY <1>21, <3>2 DEF Current
      <3> QED  BY <3>1, <3>3
    <2>2. Taken(s)' = Taken(s)
      BY <1>11, <2>1 DEF Taken
    <2>3. Text(s)' = Text(s)
      BY <1>3, <1>14 DEF Text, Held, clientVars
    <2> QED  BY <2>1, <2>2, <2>3
  <1>23. Treated(s)'
    <2>1. \A u \in Tasks(s)' : Treats(u) =>
            /\ Number(u.msg)' = Current(s)'
            /\ u.handler # "FreeRequest"
      BY <1>7, <1>8, <1>14, <1>15, <1>22
    <2> QED  BY <1>1, <1>3, <1>11, <1>22, <2>1 DEF Treated, clientVars
  <1>24. Sent(s)'
    BY <1>1, <1>3, <1>22 DEF Sent, clientVars, Says
  <1>25. Behind(s)'
    BY <1>7 DEF Behind, OneByOne
  <1> QED  BY <1>12, <1>13, <1>16, <1>17, <1>19, <1>23, <1>24, <1>25
           DEF Keeps, Socket

(* Nothing answers a request for a special file. *)
LEMMA SpecialKeeps ==
  ASSUME TypeOK, WebInv, NEW s \in Sockets,
         Runs(s, "ParseRequest"), Posts(s, <<>>),
         UNCHANGED <<setting, conn, accepted, decs, clientVars, got, readVars,
                     memVars, listVars, fault>>
  PROVE  Keeps(s)
  <1> DEFINE t == Head(tasks[s])
             m == TheMsg(s)
  <1>1. Socket(s) /\ OneEach(s) /\ Reads(s) /\ Pending(s) /\ Treated(s) /\ Sent(s)
        /\ Behind(s)
    BY DEF WebInv, Socket
  <1>2. "ParseRequest" \in Treating /\ "ParseRequest" \in Handlers
    BY DEF Handlers, Treating
  <1>3. /\ tasks[s] # <<>> /\ t \in Tasks(s) /\ t.handler = "ParseRequest"
        /\ conn[s] # 0
    BY <1>1, <1>2, AtHead
  <1>4. /\ ~Answered(s)
        /\ \A u \in Tasks(s) : u # t => ~Treats(u)
        /\ \A u \in Tasks(s) : u.handler # "RegisterRead"
    BY <1>1, <1>2, Treatment1
  <1>5. /\ tasks' \in [Sockets -> Seq(TaskType)]
        /\ \A u \in Sockets \ {s} : tasks'[u] = tasks[u]
        /\ IsInjective(tasks'[s])
        /\ Tasks(s)' = Tasks(s) \ {t}
    BY <1>1, <1>3, PostingNone
  <1> HIDE DEF t, m
  <1>6. TypeOK'
    BY <1>5 DEF TypeOK, TaskType, clientVars, readVars, memVars, listVars
  <1>7. Local(s) /\ Plain' /\ fault' = "none"
    BY <1>5 DEF Local, WebInv, Plain, clientVars, readVars, memVars, listVars, Says
  <1>8. /\ Registered(s)' = Registered(s) /\ Own(s)' = Own(s)
        /\ \A k : Number(k)' = Number(k)
    BY DEF Registered, Own, Number, Asked, readVars, memVars
  <1>9. \A u \in Tasks(s)' : ~Treats(u) /\ u \in Tasks(s)
    BY <1>4, <1>5
  <1>10. OneEach(s)'
    BY <1>1, <1>3, <1>5, <1>8, <1>9 DEF OneEach, readVars, listVars, clientVars
  <1>11. Reads(s)'
    BY <1>1, <1>3, <1>4, <1>5, <1>8 DEF Reads, readVars, listVars, clientVars,
       memVars
  <1>12. OneByOne' = OneByOne
    BY DEF OneByOne
  <1>13. Pending(s)'
    BY <1>1, <1>9, <1>12 DEF Pending, Treats, Treating, clientVars, memVars,
       listVars
  <1>14. ~Answered(s)'
    BY <1>2, <1>9 DEF Answered, Treats, Treating
  <1>15. Current(s)' = Current(s) /\ Taken(s)' = Taken(s) /\ Text(s)' = Text(s)
    BY <1>4, <1>8, <1>14 DEF Current, Taken, Text, Held, listVars, clientVars,
       memVars
  <1>16. Treated(s)'
    BY <1>1, <1>8, <1>9, <1>15 DEF Treated, clientVars, listVars
  <1>17. Sent(s)'
    BY <1>1, <1>15 DEF Sent, clientVars, Says
  <1>18. Behind(s)'
    BY <1>9 DEF Behind
  <1> QED  BY <1>6, <1>7, <1>10, <1>11, <1>13, <1>16, <1>17, <1>18
           DEF Keeps, Socket

(* A treatment ends with the connection: its text was the last one. n is   *)
(* the number of answers that the client has got then.                     *)
LEMMA LastKeeps ==
  ASSUME TypeOK, WebInv, NEW s \in Sockets,
         NEW h \in Treating, Runs(s, h), Posts(s, <<Task("Close", TheMsg(s))>>),
         Tasks(s) = {Head(tasks[s])}, cbs[s] = <<>>, pending[s] = NULL,
         Text(s) = <<>>,
         got' \in [Sockets -> Seq(Nat)],
         \A t \in Sockets \ {s} : got'[t] = got[t],
         \A i \in DOMAIN got'[s] : got'[s][i] = i,
         Len(got'[s]) <= asked[s], asked[s] <= Len(got'[s]) + setting.pipelined,
         peer[s] => asked[s] = Len(got'[s]) /\ ~half[s],
         ~peer[s] => got' = got,
         treats' = [treats EXCEPT ![s] = 0],
         UNCHANGED <<setting, conn, accepted, decs, clientVars, readVars,
                     memVars, pending, fault>>
  PROVE  Keeps(s)
  <1> DEFINE t == Head(tasks[s])
             m == TheMsg(s)
             x == Task("Close", TheMsg(s))
  <1>1. Socket(s) /\ OneEach(s) /\ Reads(s) /\ Pending(s) /\ Treated(s) /\ Sent(s)
        /\ Behind(s)
    BY DEF WebInv, Socket
  <1>2. h \in Handlers /\ "Close" \in Handlers
    BY DEF Handlers
  <1>3. /\ tasks[s] # <<>> /\ t \in Tasks(s) /\ t.handler = h /\ t.msg = m
        /\ m \in Own(s) /\ m \in Nat /\ m # pending[s] /\ conn[s] # 0 /\ m # NULL
    BY <1>1, <1>2, AtHead
  <1>4. /\ x \in TaskType /\ x.handler = "Close" /\ x.msg = m /\ ~Treats(x)
        /\ t.handler \notin {"ReadRequest", "Close"}
    BY <1>2, <1>3 DEF Task, TaskType, Treats, Treating
  <1>5. /\ tasks' \in [Sockets -> Seq(TaskType)]
        /\ \A u \in Sockets \ {s} : tasks'[u] = tasks[u]
        /\ IsInjective(tasks'[s])
        /\ Tasks(s)' = (Tasks(s) \ {t}) \cup {x}
    BY <1>1, <1>3, <1>4, Posting
  <1>6. Tasks(s)' = {x}
    BY <1>5
  <1>7. /\ treats' \in [Sockets -> {0, 1}] /\ treats'[s] = 0
        /\ \A u \in Sockets \ {s} : treats'[u] = treats[u]
    BY DEF TypeOK
  <1>8. ~queued[s] /\ Registered(s) = NULL
    BY <1>1, <1>3, <1>4 DEF Reads, Registered
  <1> HIDE DEF t, m, x
  <1>9. TypeOK'
    BY <1>5, <1>7 DEF TypeOK, TaskType, clientVars, readVars, memVars
  <1>10. Local(s) /\ Plain' /\ fault' = "none"
    BY <1>5, <1>7 DEF Local, WebInv, Plain, clientVars, readVars, memVars, Says
  <1>11. /\ Registered(s)' = NULL /\ Own(s)' = Own(s) /\ Text(s)' = Text(s)
    BY <1>8 DEF Registered, Own, readVars, memVars, Text, Held, clientVars
  <1>12. OneEach(s)'
    BY <1>3, <1>4, <1>5, <1>6, <1>7, <1>11 DEF OneEach, readVars
  <1>13. Reads(s)'
    BY <1>4, <1>6, <1>8 DEF Reads, readVars
  <1>14. Pending(s)'
    BY <1>4, <1>6, <1>7 DEF Pending
  <1>15. Current(s)' = Len(got'[s]) /\ Taken(s)' = Len(got'[s])
    BY <1>7 DEF Current, Taken
  <1>16. Treated(s)'
    <2>1. ~setting.hasty /\ ~peer[s] => asked[s] = Len(got'[s])
      BY <1>1, <1>3 DEF Treated
    <2> QED  BY <1>1, <1>4, <1>6, <1>15, <2>1 DEF Treated, clientVars
  <1>17. Sent(s)'
    <2>1. DOMAIN Text(s)' = {} /\ Len(Text(s)') = 0
      BY <1>11, EmptyList
    <2> QED  BY <1>11, <1>15, <2>1 DEF Sent, Follows, UpTo, clientVars
  <1>18. Behind(s)'
    BY <1>4, <1>6 DEF Behind
  <1> QED  BY <1>9, <1>10, <1>12, <1>13, <1>14, <1>16, <1>17, <1>18
           DEF Keeps, Socket

(* FreedPending and TouchPending change nothing where no message waits. *)
LEMMA NonePending ==
  ASSUME TypeOK, Plain, NEW s \in Sockets, OneEach(s), pending[s] = NULL, NEW m
  PROVE  FreedPending(s, m) = freed /\ PendingMsgs(s) \cap freed = {}
  <1>1. PendingMsgs(s) = {}
    BY PendingOne
  <1> QED  BY <1>1 DEF FreedPending

(* The request says that the client has closed its end. *)
LEMMA ParseClosed ==
  ASSUME TypeOK, WebInv, Careful, NEW s \in Sockets,
         Runs(s, "ParseRequest"), msgs[TheMsg(s)].close,
         freed' = FreedPending(s, TheMsg(s)), TouchPending(s),
         treats' = [treats EXCEPT ![s] = 0],
         Posts(s, <<Task("Close", TheMsg(s))>>),
         UNCHANGED <<setting, conn, accepted, decs, clientVars, got, readVars,
                     msgs, files, pending>>
  PROVE  Keeps(s)
  <1> DEFINE t == Head(tasks[s])
  <1>1. Socket(s) /\ OneEach(s) /\ Pending(s) /\ Treated(s)
    BY DEF WebInv, Socket
  <1>2. "ParseRequest" \in Treating /\ "ParseRequest" \in Handlers
    BY DEF Handlers, Treating
  <1>3. t \in Tasks(s) /\ t.handler = "ParseRequest" /\ t.msg = TheMsg(s)
        /\ conn[s] # 0
    BY <1>1, <1>2, AtHead
  <1>4. treats[s] = 1 /\ ~Answered(s)
    BY <1>1, <1>2, Treatment1
  <1>5. /\ Tasks(s) = {t} /\ cbs[s] = <<>> /\ pending[s] = NULL /\ ~peer[s]
    BY <1>1, <1>2, <1>3 DEF Pending, Treats
  <1>6. Text(s) = <<>>
    BY <1>1, <1>3, <1>4, <1>5, GoneBehind
  <1>7. freed' = freed /\ fault' = fault
    BY <1>1, <1>5, NonePending DEF TouchPending, WebInv
  <1>8. /\ got \in [Sockets -> Seq(Nat)] /\ Len(got[s]) <= asked[s]
        /\ asked[s] <= Len(got[s]) + setting.pipelined
        /\ \A i \in DOMAIN got[s] : got[s][i] = i
    <2>1. Taken(s) <= asked[s] /\ Taken(s) >= Len(got[s]) /\ Taken(s) \in Nat
          /\ Len(got[s]) \in Nat /\ asked[s] \in Nat
      BY <1>1, Bounds DEF Treated
    <2> QED  BY <1>1, <2>1 DEF Treated, TypeOK
  <1> QED  BY <1>2, <1>5, <1>6, <1>7, <1>8, LastKeeps DEF memVars

(* FourOhFor and BadRequest: an error is answered, and s is to be closed.  *)
LEMMA ErrorAnswerKeeps ==
  ASSUME TypeOK, WebInv, Careful, NEW s \in Sockets, ErrorAnswer(s),
         UNCHANGED setting
  PROVE  Keeps(s)
  <1> DEFINE t == Head(tasks[s])
             m == TheMsg(s)
             n == Len(got[s])
  <1>1. Socket(s) /\ OneEach(s) /\ Reads(s) /\ Pending(s) /\ Treated(s)
    BY DEF WebInv, Socket
  <1>2. PICK h \in {"FourOhFor", "BadRequest"} : Runs(s, h)
    BY DEF ErrorAnswer
  <1>3. h \in Treating /\ h \in Handlers /\ h # "FreeRequest"
        /\ h # "ParseRequest"
    BY DEF Handlers, Treating
  <1>4. t \in Tasks(s) /\ t.handler = h /\ t.msg = m /\ conn[s] # 0
    BY <1>1, <1>2, <1>3, AtHead
  <1>5. /\ treats[s] = 1 /\ ~Answered(s) /\ Number(m) = Current(s)
        /\ \A u \in Tasks(s) : u # t => ~Treats(u)
        /\ \A u \in Tasks(s) : u.handler # "RegisterRead"
    BY <1>1, <1>2, <1>3, Treatment1
  <1>6. ~NoError /\ cbs[s] = <<>>
    BY <1>1, <1>4 DEF Pending, Reads
  <1>7. OneByOne /\ ~setting.hasty
    BY <1>6 DEF Careful
  <1>8. /\ asked[s] = n + 1 /\ Current(s) = asked[s] /\ pending[s] = NULL
        /\ Text(s) = <<>> /\ peer[s] /\ ~queued[s] /\ ~half[s]
    BY <1>1, <1>4, <1>5, <1>7, NothingBehind DEF NULL
  <1>9. \A u \in Tasks(s) : u.handler # "ReadRequest" /\ u.handler # "Close"
    BY <1>1, <1>5, <1>8 DEF Reads, Pending
  <1>10. Tasks(s) = {t}
    BY <1>4, <1>5, <1>9, OwnOnes, <1>1 DEF TaskType, Handlers, Treats
  <1>11. freed' = freed /\ fault' = fault
    BY <1>1, <1>8, NonePending DEF ErrorAnswer, TouchPending, WebInv
  <1>12. /\ n \in Nat /\ n + 1 \in Nat /\ Asked(m)[1] = n + 1
         /\ setting.pipelined \in Nat
    BY <1>5, <1>8, Bounds DEF Number
  <1>13. /\ got' \in [Sockets -> Seq(Nat)]
         /\ \A u \in Sockets \ {s} : got'[u] = got[u]
         /\ Len(got'[s]) = n + 1
         /\ \A i \in DOMAIN got'[s] : got'[s][i] = i
    <2>1. got \in [Sockets -> Seq(Nat)] /\ got[s] \in Seq(Nat)
      BY DEF TypeOK
    <2>2. got' = [got EXCEPT ![s] = Append(got[s], n + 1)]
      BY <1>8, <1>12 DEF ErrorAnswer
    <2> DEFINE a == Append(got[s], n + 1)
    <2>4. a \in Seq(Nat) /\ Len(a) = n + 1 /\ a[n + 1] = n + 1
          /\ \A i \in 1 .. n : a[i] = got[s][i]
      BY <1>12, <2>1, PostedLast
    <2> HIDE DEF a
    <2>5. \A i \in 1 .. n : got[s][i] = i
      BY <1>1, <2>1, LenProperties DEF Treated
    <2>6. DOMAIN a = 1 .. n + 1
      BY <2>4, LenProperties
    <2>7. \A i \in DOMAIN a : a[i] = i
      <3> TAKE i \in DOMAIN a
      <3>1. i = n + 1 \/ i \in 1 .. n
        BY <1>12, <2>6
      <3> QED  BY <2>4, <2>5, <3>1
    <2>8. got' = [got EXCEPT ![s] = a]
      BY <2>2 DEF a
    <2> HIDE DEF n
    <2> QED  BY <2>1, <2>4, <2>7, <2>8
  <1>14. /\ treats' = [treats EXCEPT ![s] = 0]
         /\ Posts(s, <<Task("Close", TheMsg(s))>>)
         /\ UNCHANGED <<conn, accepted, decs, clientVars, readVars, msgs, files,
                        pending>>
    BY DEF ErrorAnswer
  <1> HIDE DEF n
  <1>15. /\ Len(got'[s]) <= asked[s] /\ asked[s] = Len(got'[s])
         /\ asked[s] <= Len(got'[s]) + setting.pipelined
    BY <1>8, <1>12, <1>13
  <1> QED  BY <1>2, <1>3, <1>6, <1>8, <1>10, <1>11, <1>13, <1>14, <1>15,
              LastKeeps DEF memVars

(* The close waits for another turn. *)
LEMMA CloseWaitsKeeps ==
  ASSUME TypeOK, WebInv, NEW s \in Sockets, CloseWaits(s), UNCHANGED setting
  PROVE  Keeps(s)
  <1> DEFINE t == Head(tasks[s])
  <1>1. Socket(s) /\ OneEach(s) /\ Reads(s) /\ Pending(s) /\ Treated(s) /\ Sent(s)
        /\ Behind(s)
    BY DEF WebInv, Socket
  <1>2. /\ Runs(s, "Close") /\ Posts(s, <<Task("Close", TheMsg(s))>>)
        /\ UNCHANGED <<conn, accepted, decs, clientVars, got, readVars, memVars,
                       listVars, fault>>
    BY DEF CloseWaits
  <1>3. "Close" \in Handlers
    BY DEF Handlers
  <1>4. tasks[s] # <<>> /\ t \in Tasks(s) /\ t.handler = "Close"
        /\ t.msg = TheMsg(s) /\ conn[s] # 0
    BY <1>1, <1>2, <1>3, AtHead
  <1>5. t \in TaskType
    BY <1>1, <1>4, OwnOnes
  <1>6. t = Task("Close", TheMsg(s))
    BY <1>4, <1>5 DEF Task, TaskType
  <1> HIDE DEF t
  <1>7. Posts(s, <<t>>) /\ t \notin Tasks(s) \ {t}
    BY <1>2, <1>6
  <1>8. /\ tasks' \in [Sockets -> Seq(TaskType)]
        /\ \A u \in Sockets \ {s} : tasks'[u] = tasks[u]
        /\ IsInjective(tasks'[s])
        /\ Tasks(s)' = (Tasks(s) \ {t}) \cup {t}
        /\ \A u, v : Before(tasks'[s], u, v)
                        => u # t /\ (v = t \/ Before(tasks[s], u, v))
    BY <1>1, <1>4, <1>5, <1>7, Posting DEF t
  <1>9. Tasks(s)' = Tasks(s)
    BY <1>4, <1>8
  <1>10. TypeOK'
    BY <1>2, <1>8 DEF TypeOK, TaskType, clientVars, readVars, memVars, listVars
  <1>11. Local(s) /\ Plain' /\ fault' = "none"
    BY <1>2, <1>8 DEF Local, WebInv, Plain, clientVars, readVars, memVars, listVars, Says
  <1>12. /\ Registered(s)' = Registered(s) /\ Own(s)' = Own(s)
         /\ \A k : Number(k)' = Number(k)
    BY <1>2 DEF Registered, Own, Number, Asked, readVars, memVars
  <1>13. OneEach(s)'
    BY <1>1, <1>2, <1>4, <1>8, <1>9, <1>12 DEF OneEach, readVars, listVars,
       clientVars
  <1>14. Reads(s)'
    BY <1>1, <1>2, <1>9, <1>12 DEF Reads, readVars, listVars, clientVars, memVars
  <1>15. OneByOne' = OneByOne /\ NoError' = NoError
    BY DEF OneByOne, NoError
  <1>16. Pending(s)'
    <2>1. \A u \in Tasks(s) : ~(Treats(u) /\ msgs[u.msg].close)
      BY <1>1, <1>4 DEF Pending
    <2> QED  BY <1>1, <1>2, <1>9, <1>15, <2>1 DEF Pending, clientVars, memVars,
                listVars, readVars
  <1>17. Answered(s)' <=> Answered(s)
    BY <1>2, <1>9, <1>12 DEF Answered
  <1>18. Current(s)' = Current(s) /\ Taken(s)' = Taken(s) /\ Text(s)' = Text(s)
    BY <1>2, <1>12, <1>17 DEF Current, Taken, Text, Held, listVars, clientVars,
       memVars
  <1>19. Treated(s)'
    BY <1>1, <1>2, <1>9, <1>12, <1>17, <1>18 DEF Treated, clientVars, listVars
  <1>20. Sent(s)'
    BY <1>1, <1>2, <1>18 DEF Sent, clientVars, Says
  <1>21. Behind(s)'
    <2>1. ~Treats(t)
      BY <1>4 DEF Treats, Treating
    <2> QED  BY <1>1, <1>2, <1>8, <1>9, <1>15, <1>18, <2>1 DEF Behind, clientVars
  <1> QED  BY <1>10, <1>11, <1>13, <1>14, <1>16, <1>19, <1>20, <1>21
           DEF Keeps, Socket

(* The callback that reads is registered. *)
LEMMA RegisterReadKeeps ==
  ASSUME TypeOK, WebInv, NEW s \in Sockets, RegisterRead(s), UNCHANGED setting
  PROVE  Keeps(s)
  <1> DEFINE t == Head(tasks[s])
             m == TheMsg(s)
  <1>1. Socket(s) /\ OneEach(s) /\ Reads(s) /\ Pending(s) /\ Treated(s) /\ Sent(s)
    BY DEF WebInv, Socket
  <1>2. /\ Runs(s, "RegisterRead") /\ Posts(s, <<>>)
        /\ cbs' = [cbs EXCEPT ![s] = Append(@, m)]
        /\ UNCHANGED <<conn, accepted, decs, clientVars, got, queued, memVars,
                       listVars, fault>>
    BY DEF RegisterRead
  <1>3. "RegisterRead" \in Handlers
    BY DEF Handlers
  <1>4. /\ tasks[s] # <<>> /\ t \in Tasks(s) /\ t.handler = "RegisterRead"
        /\ t.msg = m /\ m \in Own(s) /\ m \in Nat /\ conn[s] # 0 /\ m # NULL
    BY <1>1, <1>2, <1>3, AtHead
  <1>5. /\ cbs[s] = <<>> /\ Tasks(s) = {t} /\ treats[s] = 0
        /\ msgs[m].data = <<>>
    BY <1>1, <1>4 DEF Reads
  <1>6. pending[s] = NULL
    BY <1>1, <1>5 DEF Pending
  <1>7. ~queued[s]
    BY <1>1, <1>4, <1>5 DEF Reads
  <1>8. /\ tasks' \in [Sockets -> Seq(TaskType)]
        /\ \A u \in Sockets \ {s} : tasks'[u] = tasks[u]
        /\ IsInjective(tasks'[s])
        /\ Tasks(s)' = Tasks(s) \ {t}
    BY <1>1, <1>2, <1>4, PostingNone
  <1>9. Tasks(s)' = {}
    BY <1>5, <1>8
  <1>10. /\ cbs' \in [Sockets -> Seq(Nat)] /\ cbs'[s] = <<m>>
         /\ \A u \in Sockets \ {s} : cbs'[u] = cbs[u]
    <2>1. Append(<<>>, m) = <<m>> /\ <<m>> \in Seq(Nat)
      BY <1>4
    <2>2. cbs' = [cbs EXCEPT ![s] = <<m>>]
      BY <1>2, <1>5, <2>1
    <2> QED  BY <2>1, <2>2 DEF TypeOK
  <1>11. Registered(s)' = m /\ Registered(s) = NULL
    BY <1>5, <1>10 DEF Registered
  <1> HIDE DEF t, m
  <1>12. TypeOK'
    BY <1>2, <1>8, <1>10 DEF TypeOK, TaskType, clientVars, memVars, listVars
  <1>13. Local(s) /\ Plain' /\ fault' = "none"
    BY <1>2, <1>8, <1>10 DEF Local, WebInv, Plain, clientVars, memVars, listVars, Says
  <1>14. Own(s)' = Own(s)
    BY <1>2 DEF Own, memVars
  <1>15. OneEach(s)'
    BY <1>2, <1>4, <1>6, <1>8, <1>9, <1>10, <1>11, <1>14 DEF OneEach, listVars
  <1>16. Reads(s)' /\ Pending(s)'
    BY <1>2, <1>6, <1>7, <1>9 DEF Reads, Pending, listVars
  <1>17. Current(s)' = Current(s) /\ Taken(s)' = Taken(s)
    BY <1>2, <1>5 DEF Current, Taken, listVars
  <1>18. Text(s)' = Text(s)
    <2>1. Held(s)' = <<>> /\ Held(s) = <<>>
      BY <1>2, <1>4, <1>5, <1>11 DEF Held, memVars
    <2> QED  BY <1>2, <2>1 DEF Text, clientVars
  <1>19. Treated(s)'
    BY <1>1, <1>2, <1>6, <1>9, <1>17 DEF Treated, clientVars, listVars
  <1>20. Sent(s)'
    BY <1>1, <1>2, <1>17, <1>18 DEF Sent, clientVars, Says
  <1>21. Behind(s)'
    BY <1>9 DEF Behind
  <1> QED  BY <1>12, <1>13, <1>15, <1>16, <1>19, <1>20, <1>21
           DEF Keeps, Socket

(* The check of a connection is posted. *)
LEMMA PollKeeps ==
  ASSUME TypeOK, WebInv, NEW s \in Sockets, Poll(s), UNCHANGED setting
  PROVE  Keeps(s)
  <1> DEFINE x == Task("ReadRequest", Registered(s))
  <1>1. Socket(s) /\ OneEach(s) /\ Reads(s) /\ Pending(s) /\ Treated(s) /\ Sent(s)
    BY DEF WebInv, Socket
  <1>2. /\ conn[s] # 0 /\ cbs[s] # <<>> /\ ~queued[s]
        /\ wire[s] # <<>> \/ ~peer[s]
        /\ queued' = [queued EXCEPT ![s] = TRUE]
        /\ UNCHANGED <<conn, accepted, decs, clientVars, got, cbs, memVars,
                       listVars, fault>>
    BY DEF Poll
  <1>3. tasks' = [tasks EXCEPT ![s] = Append(@, x)]
    BY <1>2 DEF Poll, Registered
  <1>4. Registered(s) \in Own(s) /\ Registered(s) \in Nat
    BY <1>1, <1>2, OwnOnes DEF OneEach, Own
  <1>5. x \in TaskType /\ x.handler = "ReadRequest" /\ x.msg = Registered(s)
        /\ ~Treats(x) /\ Class(x) = "read"
    BY <1>4 DEF TaskType, Task, Handlers, Treats, Treating, Class
  <1>6. \A u \in Tasks(s) : u.handler \notin {"ReadRequest", "RegisterRead",
                              "Close", "FourOhFor", "BadRequest"}
    BY <1>1, <1>2 DEF Reads
  <1>7. \A u \in Tasks(s) : Class(u) = "treat" /\ Treats(u)
    BY <1>1, <1>6, OwnOnes DEF TaskType, Handlers, Treats, Class
  <1>8. x \notin Tasks(s)
    BY <1>5, <1>7
  <1> HIDE DEF x
  <1>9. /\ tasks' \in [Sockets -> Seq(TaskType)]
        /\ \A t \in Sockets \ {s} : tasks'[t] = tasks[t]
        /\ IsInjective(tasks'[s])
        /\ Tasks(s)' = Tasks(s) \cup {x}
        /\ \A u, v : Before(tasks'[s], u, v)
                        => u # x /\ (v = x \/ Before(tasks[s], u, v))
    BY <1>1, <1>3, <1>5, <1>8, PostedBehind
  <1>10. /\ queued' \in [Sockets -> BOOLEAN] /\ queued'[s]
         /\ \A t \in Sockets \ {s} : queued'[t] = queued[t]
    BY <1>2 DEF TypeOK
  <1>11. TypeOK'
    BY <1>2, <1>9, <1>10 DEF TypeOK, TaskType, clientVars, memVars, listVars
  <1>12. Local(s) /\ Plain' /\ fault' = "none"
    BY <1>2, <1>9, <1>10 DEF Local, WebInv, Plain, clientVars, memVars, listVars, Says
  <1>13. /\ Registered(s)' = Registered(s) /\ Own(s)' = Own(s)
         /\ \A k : Number(k)' = Number(k)
    BY <1>2 DEF Registered, Own, Number, Asked, memVars
  <1>14. OneEach(s)'
    <2>1. NULL \notin Own(s)
      BY <1>1, OwnOnes
    <2>2. x.msg # pending[s] /\ \A u \in Tasks(s) : u.msg # x.msg
      BY <1>1, <1>4, <1>5, <1>7, <2>1 DEF OneEach
    <2>3. \A u \in Tasks(s)' :
            /\ u.msg \in Own(s)' /\ u.msg # pending'[s]
            /\ Class(u) # "read" => u.msg # Registered(s)'
      BY <1>1, <1>2, <1>4, <1>5, <1>9, <1>13, <2>2 DEF OneEach, listVars
    <2>4. \A u, v \in Tasks(s)' : u # v => Class(u) # Class(v) /\ u.msg # v.msg
      BY <1>1, <1>5, <1>7, <1>9, <2>2 DEF OneEach
    <2> QED  BY <1>1, <1>2, <1>9, <1>13, <2>3, <2>4 DEF OneEach, listVars
  <1>15. Reads(s)'
    BY <1>2, <1>5, <1>6, <1>9, <1>10, <1>13 DEF Reads, clientVars
  <1>16. OneByOne' = OneByOne /\ NoError' = NoError
    BY DEF OneByOne, NoError
  <1>17. Pending(s)'
    <2>1. \A u \in Tasks(s) : ~(Treats(u) /\ msgs[u.msg].close)
      BY <1>1, <1>2 DEF Pending
    <2> QED  BY <1>1, <1>2, <1>5, <1>9, <1>16, <2>1 DEF Pending, clientVars,
                memVars, listVars
  <1>18. Answered(s)' <=> Answered(s)
    BY <1>2, <1>5, <1>9, <1>13 DEF Answered
  <1>19. Current(s)' = Current(s) /\ Taken(s)' = Taken(s) /\ Text(s)' = Text(s)
    BY <1>2, <1>13, <1>18 DEF Current, Taken, Text, Held, listVars, clientVars,
       memVars
  <1>20. Treated(s)'
    BY <1>1, <1>2, <1>5, <1>9, <1>13, <1>18, <1>19 DEF Treated, clientVars,
       listVars
  <1>21. Sent(s)'
    BY <1>1, <1>2, <1>19 DEF Sent, clientVars, Says
  <1>22. Behind(s)'
    BY <1>5, <1>6, <1>9 DEF Behind
  <1> QED  BY <1>11, <1>12, <1>14, <1>15, <1>17, <1>20, <1>21, <1>22
           DEF Keeps, Socket

(* The client sends a chunk more. *)
LEMMA MoreText ==
  ASSUME NEW d \in Seq(Chunk), NEW n \in Nat, NEW last \in Nat, NEW open \in BOOLEAN,
         Follows(d, n), UpTo(d, n, last, open), NEW c \in Chunk,
         IF open THEN c[1] = last /\ c[2] # "part" ELSE c[1] = last + 1
  PROVE  /\ Append(d, c) \in Seq(Chunk) /\ Follows(Append(d, c), n)
         /\ UpTo(Append(d, c), n, c[1], c[2] = "part")
         /\ DOMAIN Append(d, c) = 1 .. Len(d) + 1
         /\ Append(d, c)[Len(d) + 1] = c
         /\ \A i \in 1 .. Len(d) : Append(d, c)[i] = d[i]
         /\ Len(d) \in Nat
  <1> DEFINE r == Append(d, c)
             k == Len(d)
  <1>1. /\ r \in Seq(Chunk) /\ Len(r) = k + 1 /\ r[k + 1] = c
        /\ (\A i \in 1 .. k : r[i] = d[i]) /\ k \in Nat
    BY PostedLast
  <1> HIDE DEF r
  <1>2. r # <<>> /\ DOMAIN r = 1 .. k + 1
    BY <1>1, EmptySeq, LenProperties
  <1>3. d = <<>> <=> k = 0
    BY <1>1, EmptySeq
  <1>4. r[1][1] = n + 1
    <2>1. CASE d = <<>>
      BY <1>1, <1>3, <2>1 DEF UpTo
    <2>2. CASE d # <<>>
      <3>1. 1 \in 1 .. k
        BY <1>1, <1>3, <2>2
      <3> QED  BY <1>1, <2>2, <3>1 DEF Follows
    <2> QED  BY <2>1, <2>2
  <1>5. ASSUME NEW i \in 1 .. Len(r) - 1
        PROVE  IF r[i][2] = "part"
               THEN r[i + 1][1] = r[i][1] /\ r[i + 1][2] # "part"
               ELSE r[i + 1][1] = r[i][1] + 1
    <2>1. i \in 1 .. k /\ r[i] = d[i] /\ d # <<>> /\ (i = k \/ i \in 1 .. k - 1)
      BY <1>1, <1>3
    <2>2. CASE i = k
      <3>1. d[k][1] = last /\ (open <=> d[k][2] = "part")
        BY <2>1 DEF UpTo
      <3> QED  BY <1>1, <2>1, <2>2, <3>1
    <2>3. CASE i \in 1 .. k - 1
      <3>1. i + 1 \in 1 .. k
        BY <1>1, <2>3
      <3>2. r[i + 1] = d[i + 1]
        BY <1>1, <3>1
      <3> QED  BY <2>1, <2>3, <3>2 DEF Follows
    <2> QED  BY <2>1, <2>2, <2>3
  <1>6. Follows(r, n)
    BY <1>4, <1>5 DEF Follows
  <1>7. UpTo(r, n, c[1], c[2] = "part")
    BY <1>1, <1>2 DEF UpTo
  <1> QED  BY <1>1, <1>2, <1>6, <1>7 DEF r

(* A beginning of a text follows too. *)
LEMMA LessText ==
  ASSUME NEW a \in Seq(Chunk), NEW b \in Seq(Chunk), NEW n \in Nat,
         Follows(a \o b, n)
  PROVE  /\ Follows(a, n)
         /\ \A i \in DOMAIN a : i \in DOMAIN (a \o b) /\ a[i] = (a \o b)[i]
  <1> DEFINE r == a \o b
  <1>1. /\ r \in Seq(Chunk) /\ Len(r) = Len(a) + Len(b)
        /\ \A i \in 1 .. Len(a) + Len(b) :
             r[i] = IF i <= Len(a) THEN a[i] ELSE b[i - Len(a)]
    BY ConcatProperties
  <1>2. Len(a) \in Nat /\ Len(b) \in Nat /\ DOMAIN a = 1 .. Len(a)
    BY LenProperties
  <1> HIDE DEF r
  <1>3. DOMAIN r = 1 .. Len(a) + Len(b)
    BY <1>1, LenProperties
  <1>4. \A i \in 1 .. Len(a) : i \in 1 .. Len(a) + Len(b) /\ r[i] = a[i]
    BY <1>1, <1>2
  <1>5. ASSUME a # <<>> PROVE a[1][1] = n + 1
    <2>1. 1 \in 1 .. Len(a)
      BY <1>2, <1>5, EmptySeq
    <2>2. r # <<>>
      BY <1>1, <1>2, <2>1, EmptySeq
    <2> QED  BY <1>4, <2>1, <2>2 DEF Follows, r
  <1>6. ASSUME NEW i \in 1 .. Len(a) - 1
        PROVE  IF a[i][2] = "part"
               THEN a[i + 1][1] = a[i][1] /\ a[i + 1][2] # "part"
               ELSE a[i + 1][1] = a[i][1] + 1
    <2>1. i \in 1 .. Len(r) - 1 /\ i \in 1 .. Len(a) /\ i + 1 \in 1 .. Len(a)
      BY <1>1, <1>2
    <2> QED  BY <1>4, <2>1 DEF Follows, r
  <1>7. Follows(a, n)
    BY <1>5, <1>6 DEF Follows
  <1> QED  BY <1>2, <1>3, <1>4, <1>7 DEF r

(* A client sends a request, or a part of it.                              *)
LEMMA SendKeeps ==
  ASSUME TypeOK, WebInv, NEW s \in Sockets, NEW kind \in setting.kinds \cup {"part"},
         Send(s, kind), UNCHANGED setting
  PROVE  Keeps(s)
  <1>1. Socket(s) /\ OneEach(s) /\ Reads(s) /\ Pending(s) /\ Treated(s) /\ Sent(s)
        /\ Behind(s)
    BY DEF WebInv, Socket
  <1>2. /\ peer[s] /\ conn[s] # 0 /\ (kind = "part" => setting.halves)
        /\ half' = [half EXCEPT ![s] = kind = "part"]
        /\ wire' = [wire EXCEPT ![s] = Append(@, <<asked'[s], kind>>)]
        /\ UNCHANGED <<conn, backlog, peer, accepted, decs, got, readVars, tasks,
                       memVars, listVars, fault>>
    BY DEF Send
  <1>3. \/ half[s] /\ kind # "part" /\ asked' = asked
        \/ /\ ~half[s] /\ asked[s] < setting.requests
           /\ asked[s] - Len(got[s]) < setting.pipelined
           /\ asked' = [asked EXCEPT ![s] = @ + 1]
    BY DEF Send
  <1>4. /\ asked[s] \in Nat /\ Len(got[s]) \in Nat /\ Taken(s) \in Nat
        /\ setting.requests \in Nat /\ setting.pipelined \in Nat
        /\ setting.kinds \subseteq {"file", "missing", "special", "bad"}
    BY Bounds
  <1>5. /\ asked' \in [Sockets -> Nat] /\ \A t \in Sockets \ {s} : asked'[t] = asked[t]
        /\ asked'[s] = IF half[s] THEN asked[s] ELSE asked[s] + 1
    BY <1>3, <1>4, SMTT(40) DEF TypeOK
  <1>6. /\ asked[s] <= asked'[s] /\ asked'[s] <= setting.requests
        /\ asked'[s] <= Len(got[s]) + setting.pipelined
    BY <1>1, <1>3, <1>4, <1>5 DEF Treated
  <1> DEFINE c == <<asked'[s], kind>>
             d == Text(s)
  <1>7. d \in Seq(Chunk) /\ Held(s) \in Seq(Chunk) /\ wire[s] \in Seq(Chunk)
        /\ half[s] \in BOOLEAN /\ DOMAIN d = 1 .. Len(d)
    BY <1>1, TextType DEF TypeOK
  <1>8. Follows(d, Taken(s)) /\ UpTo(d, Taken(s), asked[s], half[s])
    BY <1>1, <1>2 DEF Sent
  <1>9. c \in Chunk /\ c[1] = asked'[s] /\ c[2] = kind
    <2>1. asked'[s] # 0
      <3>1. half[s] => d # <<>>
        BY <1>8 DEF UpTo
      <3>2. d # <<>> => d[1][1] = Taken(s) + 1 /\ 1 \in DOMAIN d
        BY <1>7, <1>8, EmptySeq, LenProperties DEF Follows
      <3>3. d # <<>> => Taken(s) + 1 <= asked[s]
        BY <1>1, <3>2 DEF Sent
      <3> QED  BY <1>4, <1>5, <3>1, <3>3
    <2>2. asked'[s] \in Nat /\ kind \in {"file", "missing", "special", "bad", "part"}
      BY <1>4, <1>5
    <2> QED  BY <2>1, <2>2 DEF Chunk
  <1>10. IF half[s] THEN c[1] = asked[s] /\ c[2] # "part" ELSE c[1] = asked[s] + 1
    BY <1>3, <1>5, <1>9
  <1> HIDE DEF c, d
  <1>11. /\ Append(d, c) \in Seq(Chunk) /\ Follows(Append(d, c), Taken(s))
         /\ UpTo(Append(d, c), Taken(s), c[1], c[2] = "part")
         /\ DOMAIN Append(d, c) = 1 .. Len(d) + 1
         /\ Append(d, c)[Len(d) + 1] = c
         /\ \A i \in 1 .. Len(d) : Append(d, c)[i] = d[i]
         /\ Len(d) \in Nat
    BY <1>4, <1>7, <1>8, <1>9, <1>10, MoreText
  <1>12. /\ wire' \in [Sockets -> Seq(Chunk)]
         /\ \A t \in Sockets \ {s} : wire'[t] = wire[t]
         /\ wire'[s] = Append(wire[s], c) /\ wire'[s] # <<>>
    <2>1. wire' = [wire EXCEPT ![s] = Append(wire[s], c)]
      BY <1>2 DEF c
    <2> DEFINE w == Append(wire[s], c)
    <2>2. w \in Seq(Chunk) /\ Len(w) = Len(wire[s]) + 1 /\ Len(wire[s]) \in Nat
      BY <1>7, <1>9, PostedLast
    <2> HIDE DEF w
    <2>3. w # <<>>
      BY <2>2, EmptySeq
    <2>4. wire' = [wire EXCEPT ![s] = w]
      BY <2>1 DEF w
    <2>5. wire' \in [Sockets -> Seq(Chunk)] /\ wire'[s] = w
          /\ \A t \in Sockets \ {s} : wire'[t] = wire[t]
      BY <2>2, <2>4 DEF TypeOK
    <2> QED  BY <2>3, <2>5 DEF w
  <1>13. /\ half' \in [Sockets -> BOOLEAN] /\ half'[s] = (kind = "part")
         /\ \A t \in Sockets \ {s} : half'[t] = half[t]
    BY <1>2 DEF TypeOK
  <1>14. TypeOK'
    BY <1>2, <1>5, <1>12, <1>13 DEF TypeOK, TaskType, memVars, listVars, readVars
  <1>15. Local(s) /\ Plain' /\ fault' = "none"
    BY <1>2, <1>5, <1>12, <1>13 DEF Local, WebInv, Plain, memVars, listVars,
       readVars, Says
  <1>16. /\ Registered(s)' = Registered(s) /\ Own(s)' = Own(s)
         /\ Tasks(s)' = Tasks(s)
         /\ \A k : Number(k)' = Number(k)
    BY <1>2 DEF Registered, Own, Number, Asked, memVars, readVars, Tasks
  <1>17. OneEach(s)'
    BY <1>1, <1>2, <1>16 DEF OneEach, readVars, listVars
  <1>18. Reads(s)'
    BY <1>1, <1>2, <1>12, <1>16 DEF Reads, readVars, listVars, memVars
  <1>19. OneByOne' = OneByOne /\ NoError' = NoError
    BY DEF OneByOne, NoError
  <1>20. Pending(s)'
    BY <1>1, <1>2, <1>16, <1>19 DEF Pending, readVars, listVars, memVars
  <1>21. Answered(s)' <=> Answered(s)
    BY <1>2, <1>16 DEF Answered
  <1>22. Current(s)' = Current(s) /\ Taken(s)' = Taken(s)
    BY <1>2, <1>21 DEF Current, Taken, listVars
  <1>23. Text(s)' = Append(d, c)
    <2>1. Held(s)' = Held(s)
      BY <1>2, <1>16 DEF Held, memVars
    <2>2. wire'[s] = wire[s] \o <<c>> /\ Append(d, c) = d \o <<c>>
          /\ <<c>> \in Seq(Chunk)
      BY <1>7, <1>9, <1>12, AppendIsConcat
    <2>3. Held(s) \o (wire[s] \o <<c>>) = (Held(s) \o wire[s]) \o <<c>>
      <3> DEFINE e == <<c>>
      <3>1. e \in Seq(Chunk)
        BY <2>2
      <3> HIDE DEF e
      <3>2. Held(s) \o (wire[s] \o e) = (Held(s) \o wire[s]) \o e
        <4> DEFINE a == Held(s)
                   b == wire[s]
        <4>1. a \in Seq(Chunk) /\ b \in Seq(Chunk)
          BY <1>7
        <4> HIDE DEF a, b
        <4>2. (a \o b) \o e = a \o (b \o e)
          BY <3>1, <4>1, ConcatAssociative
        <4> QED  BY <4>2 DEF a, b
      <3> QED  BY <3>2 DEF e
    <2> QED  BY <2>1, <2>2, <2>3 DEF Text, d
  <1>24. Treated(s)'
    BY <1>1, <1>2, <1>4, <1>5, <1>6, <1>16, <1>21, <1>22, Bounds DEF Treated, listVars
  <1>25. Sent(s)'
    <2>1. ASSUME NEW i \in 1 .. Len(d) + 1
          PROVE  /\ Append(d, c)[i][1] <= asked'[s]
                 /\ Append(d, c)[i][2] \in Says
      <3>1. i = Len(d) + 1 \/ i \in 1 .. Len(d)
        BY <1>11
      <3>2. CASE i = Len(d) + 1
        <4>1. Append(d, c)[i] = c
          BY <1>11, <3>2
        <4>4. c[1] = asked'[s] /\ c[2] = kind
          BY <1>9
        <4>2. asked'[s] <= asked'[s]
          BY <1>4, <1>5
        <4>3. kind \in Says
          BY <1>2 DEF Says
        <4> QED  BY <4>1, <4>2, <4>3, <4>4
      <3>3. CASE i \in 1 .. Len(d)
        <4>1. /\ d[i][1] <= asked[s] /\ d[i][2] \in Says
              /\ Append(d, c)[i] = d[i] /\ d[i] \in Chunk
          BY <1>1, <1>7, <1>11, <3>3, ElementOfSeq DEF Sent, d
        <4>2. d[i][1] \in Nat
          BY <4>1 DEF Chunk
        <4> QED  BY <1>4, <1>5, <1>6, <4>1, <4>2
      <3> QED  BY <3>1, <3>2, <3>3
    <2> QED  BY <1>9, <1>11, <1>13, <1>22, <1>23, <2>1 DEF Sent, Says
  <1>26. Behind(s)'
    <2>1. \A r, t \in Tasks(s) : OneByOne /\ r.handler = "ReadRequest" /\ Treats(t)
            => ~Before(tasks[s], r, t)
      BY <1>1, <1>2 DEF Behind
    <2> QED  BY <1>2, <1>16, <1>19, <2>1 DEF Behind
  <1> QED  BY <1>14, <1>15, <1>17, <1>18, <1>20, <1>24, <1>25, <1>26
           DEF Keeps, Socket

(* A client leaves.                                                        *)
LEMMA HangupKeeps ==
  ASSUME TypeOK, WebInv, NEW s \in Sockets, Hangup(s), UNCHANGED setting
  PROVE  Keeps(s)
  <1>1. Socket(s) /\ OneEach(s) /\ Reads(s) /\ Pending(s) /\ Treated(s) /\ Sent(s)
        /\ Behind(s)
    BY DEF WebInv, Socket
  <1>2. /\ peer[s] /\ conn[s] # 0
        /\ setting.hasty \/ asked[s] = Len(got[s])
        /\ peer' = [peer EXCEPT ![s] = FALSE]
        /\ wire' \in {wire, [wire EXCEPT ![s] = <<>>]}
        /\ UNCHANGED <<conn, backlog, asked, half, accepted, decs, got, readVars,
                       tasks, memVars, listVars, fault>>
    BY DEF Hangup
  <1>3. /\ wire' \in [Sockets -> Seq(Chunk)] /\ wire'[s] \in {wire[s], <<>>}
        /\ \A t \in Sockets \ {s} : wire'[t] = wire[t]
    <2>1. <<>> \in Seq(Chunk)
      BY EmptySeq
    <2> QED  BY <1>2, <2>1 DEF TypeOK
  <1>4. /\ peer' \in [Sockets -> BOOLEAN] /\ ~peer'[s]
        /\ \A t \in Sockets \ {s} : peer'[t] = peer[t]
    BY <1>2 DEF TypeOK
  <1>5. TypeOK'
    BY <1>2, <1>3, <1>4 DEF TypeOK, memVars, listVars, readVars
  <1>6. Local(s) /\ Plain' /\ fault' = "none"
    BY <1>2, <1>3, <1>4 DEF Local, WebInv, Plain, memVars, listVars, readVars, Says
  <1>7. /\ Registered(s)' = Registered(s) /\ Own(s)' = Own(s)
        /\ Tasks(s)' = Tasks(s)
        /\ \A k : Number(k)' = Number(k)
    BY <1>2 DEF Registered, Own, Number, Asked, memVars, readVars, Tasks
  <1>8. OneEach(s)'
    BY <1>1, <1>2, <1>7 DEF OneEach, readVars, listVars
  <1>9. Reads(s)'
    BY <1>1, <1>2, <1>4, <1>7 DEF Reads, readVars, listVars, memVars
  <1>10. OneByOne' = OneByOne /\ NoError' = NoError
    BY DEF OneByOne, NoError
  <1>11. Pending(s)'
    BY <1>1, <1>2, <1>4, <1>7, <1>10 DEF Pending, readVars, listVars, memVars
  <1>12. Answered(s)' <=> Answered(s)
    BY <1>2, <1>7 DEF Answered
  <1>13. Current(s)' = Current(s) /\ Taken(s)' = Taken(s)
    BY <1>2, <1>12 DEF Current, Taken, listVars
  <1>14. Held(s)' = Held(s)
    BY <1>2, <1>7 DEF Held, memVars
  <1>15. Text(s)' = Text(s) \/ Text(s)' = Held(s)
    <2>1. Held(s) \o <<>> = Held(s)
      BY <1>1, TextType, ConcatEmptySeq
    <2> QED  BY <1>3, <1>14, <2>1 DEF Text
  <1>16. Treated(s)'
    BY <1>1, <1>2, <1>4, <1>7, <1>12, <1>13 DEF Treated, listVars
  <1>17. Sent(s)'
    <2>1. /\ Follows(Text(s), Taken(s)) /\ Held(s) \in Seq(Chunk)
          /\ wire[s] \in Seq(Chunk) /\ Taken(s) \in Nat
      BY <1>1, TextType, Bounds DEF Sent
    <2>2. /\ Follows(Held(s), Taken(s))
          /\ \A i \in DOMAIN Held(s) : i \in DOMAIN Text(s)
                                       /\ Held(s)[i] = Text(s)[i]
      BY <2>1, LessText DEF Text
    <2>3. CASE Text(s)' = Text(s)
      BY <1>1, <1>2, <1>4, <1>13, <2>3 DEF Sent, Says
    <2>4. CASE Text(s)' = Held(s)
      <3>1. \A i \in DOMAIN Held(s) : /\ Held(s)[i][1] <= asked[s]
                                      /\ Held(s)[i][2] \in Says
        BY <1>1, <2>2 DEF Sent
      <3> QED  BY <1>2, <1>4, <1>13, <2>2, <2>4, <3>1 DEF Sent, Says
    <2> QED  BY <1>15, <2>3, <2>4
  <1>18. Behind(s)'
    <2>1. \A r, t \in Tasks(s) : OneByOne /\ r.handler = "ReadRequest" /\ Treats(t)
            => ~Before(tasks[s], r, t)
      BY <1>1, <1>2 DEF Behind
    <2> QED  BY <1>2, <1>7, <1>10, <2>1 DEF Behind
  <1> QED  BY <1>5, <1>6, <1>8, <1>9, <1>11, <1>16, <1>17, <1>18
           DEF Keeps, Socket

(* The messages when m has the text d. *)
WithText(m, d, eof) ==
  [msgs EXCEPT ![m].data = d, ![m].length = Len(d), ![m].reqEnd = FirstEnd(d),
               ![m].close = eof]

(* What a read makes of the messages: the text, and those that follow.     *)
LEMMA TextRead ==
  ASSUME TypeOK, NEW m \in DOMAIN msgs, NEW d \in Seq(Chunk), NEW eof \in BOOLEAN,
         NEW more \in Seq(Message)
  PROVE  LET r == WithText(m, d, eof) \o more
         IN /\ r \in Seq(Message) /\ Len(r) = Len(msgs) + Len(more)
            /\ DOMAIN r = 1 .. Len(msgs) + Len(more)
            /\ Len(msgs) \in Nat /\ Len(more) \in Nat
            /\ DOMAIN msgs = 1 .. Len(msgs) /\ DOMAIN msgs \subseteq DOMAIN r
            /\ \A k \in DOMAIN msgs \ {m} : r[k] = msgs[k]
            /\ r[m].data = d /\ r[m].length = Len(d) /\ r[m].close = eof
            /\ r[m].reqEnd = FirstEnd(d) /\ r[m].conn = msgs[m].conn
            /\ r[m].next = msgs[m].next
            /\ \A i \in 1 .. Len(more) : r[Len(msgs) + i] = more[i]
            /\ WithText(m, d, eof) \in Seq(Message)
  <1> DEFINE e == [conn |-> msgs[m].conn, data |-> d, length |-> Len(d),
                   reqEnd |-> FirstEnd(d), close |-> eof, next |-> msgs[m].next]
             ms == WithText(m, d, eof)
             r == ms \o more
  <1>1. Len(msgs) \in Nat /\ Len(more) \in Nat /\ DOMAIN msgs = 1 .. Len(msgs)
        /\ msgs \in Seq(Message)
    BY LenProperties DEF TypeOK
  <1>2. msgs[m] \in Message
    BY <1>1, ElementOfSeq
  <1>3. FirstEnd(d) \in Nat
    <2>1. CASE Ends(d) = {}
      BY <2>1 DEF FirstEnd
    <2>2. CASE Ends(d) # {}
      <3>1. FirstEnd(d) \in 1 .. Len(d)
        BY <2>2, FirstEndIn
      <3> QED  BY <3>1
    <2> QED  BY <2>1, <2>2
  <1>4. e \in Message
    BY <1>2, <1>3, LenProperties DEF Message
  <1>5. ms = [msgs EXCEPT ![m] = e]
    <2> DEFINE o == msgs[m]
               o1 == [o EXCEPT !.data = d]
               o2 == [o1 EXCEPT !.length = Len(d)]
               o3 == [o2 EXCEPT !.reqEnd = FirstEnd(d)]
               o4 == [o3 EXCEPT !.close = eof]
    <2>1. ms = [msgs EXCEPT ![m] = o4]
      BY <1>1 DEF WithText
    <2>2. o4 = e
      <3>1. o = [conn |-> o.conn, data |-> o.data, length |-> o.length,
                 reqEnd |-> o.reqEnd, close |-> o.close, next |-> o.next]
        BY <1>2 DEF Message
      <3> DEFINE c == o.conn
                 n == o.next
      <3>2. o1 = [conn |-> c, data |-> d, length |-> o.length,
                  reqEnd |-> o.reqEnd, close |-> o.close, next |-> n]
        BY <3>1
      <3> HIDE DEF o1
      <3>3. o2 = [conn |-> c, data |-> d, length |-> Len(d),
                  reqEnd |-> o.reqEnd, close |-> o.close, next |-> n]
        BY <3>2
      <3> HIDE DEF o2
      <3>4. o3 = [conn |-> c, data |-> d, length |-> Len(d),
                  reqEnd |-> FirstEnd(d), close |-> o.close, next |-> n]
        BY <3>3
      <3> HIDE DEF o3
      <3>5. o4 = [conn |-> c, data |-> d, length |-> Len(d),
                  reqEnd |-> FirstEnd(d), close |-> eof, next |-> n]
        BY <3>4
      <3> QED  BY <3>5
    <2> QED  BY <2>1, <2>2
  <1> HIDE DEF e
  <1>6. ms \in Seq(Message) /\ Len(ms) = Len(msgs)
        /\ \A k \in 1 .. Len(msgs) : ms[k] = IF k = m THEN e ELSE msgs[k]
    BY <1>1, <1>4, <1>5, ExceptSeq
  <1> HIDE DEF ms
  <1>7. /\ r \in Seq(Message) /\ Len(r) = Len(msgs) + Len(more)
        /\ \A i \in 1 .. Len(msgs) + Len(more) :
             r[i] = IF i <= Len(msgs) THEN ms[i] ELSE more[i - Len(msgs)]
    <2>1. /\ r \in Seq(Message) /\ Len(r) = Len(ms) + Len(more)
          /\ \A i \in 1 .. Len(ms) + Len(more) :
               r[i] = IF i <= Len(ms) THEN ms[i] ELSE more[i - Len(ms)]
      BY <1>6, ConcatProperties
    <2> HIDE DEF r
    <2> QED  BY <1>6, <2>1
  <1> HIDE DEF r
  <1>8. DOMAIN r = 1 .. Len(msgs) + Len(more)
    BY <1>7, LenProperties
  <1>9. \A i \in 1 .. Len(more) : r[Len(msgs) + i] = more[i]
    <2> TAKE i \in 1 .. Len(more)
    <2>1. /\ Len(msgs) + i \in 1 .. Len(msgs) + Len(more)
          /\ ~(Len(msgs) + i <= Len(msgs)) /\ Len(msgs) + i - Len(msgs) = i
      BY <1>1
    <2> QED  BY <1>7, <2>1
  <1>10. \A k \in 1 .. Len(msgs) :
           /\ k \in 1 .. Len(msgs) + Len(more)
           /\ r[k] = IF k = m THEN e ELSE msgs[k]
    BY <1>1, <1>6, <1>7
  <1>11. r[m] = e
    BY <1>1, <1>10
  <1>12. /\ r[m].data = d /\ r[m].length = Len(d) /\ r[m].close = eof
         /\ r[m].reqEnd = FirstEnd(d) /\ r[m].conn = msgs[m].conn
         /\ r[m].next = msgs[m].next
    BY <1>11 DEF e
  <1> QED  BY <1>1, <1>6, <1>7, <1>8, <1>9, <1>10, <1>12 DEF r, ms

(* The head of the tasks is before the others. *)
LEMMA HeadBefore ==
  ASSUME NEW S, NEW q \in Seq(S), q # <<>>, NEW u \in ToSet(q), u # Head(q)
  PROVE  Before(q, Head(q), u)
  <1>1. PICK i \in 1 .. Len(q) : u = q[i]
    BY ElementsOf
  <1>2. Head(q) = q[1] /\ 1 \in 1 .. Len(q) /\ Len(q) \in Nat
    BY HeadOf, LenProperties
  <1>3. 1 < i
    BY <1>1, <1>2
  <1> QED  BY <1>1, <1>2, <1>3 DEF Before

(* A read takes all the text of the connection; how much that can be.      *)
LEMMA Reading ==
  ASSUME TypeOK, WebInv, Careful, NEW s \in Sockets, Runs(s, "ReadRequest")
  PROVE  /\ TheMsg(s) = Registered(s) /\ cbs[s] = <<TheMsg(s)>>
         /\ msgs[TheMsg(s)].data \o wire[s] = Text(s)
         /\ Len(Text(s)) < setting.maxLength
         /\ \A u \in Tasks(s) : u # Head(tasks[s]) =>
              Treats(u) /\ u.handler \notin {"FourOhFor", "BadRequest"}
                        /\ ~msgs[u.msg].close
         /\ pending[s] # NULL => Text(s) = <<>> /\ peer[s]
         /\ Text(s) # <<>> =>
              /\ treats[s] # 0 => ~OneByOne
              /\ ~peer[s] => OneByOne
              /\ Taken(s) + 1 <= asked[s]
              /\ OneByOne \/ treats[s] # 0 =>
                   \A i \in DOMAIN Text(s) : Text(s)[i][1] <= Taken(s) + 1
         /\ \A i \in DOMAIN Text(s) : Text(s)[i][1] <= Taken(s) + 2 \/ OneByOne
  <1> DEFINE t == Head(tasks[s])
             d == Text(s)
  <1>1. Socket(s) /\ OneEach(s) /\ Reads(s) /\ Pending(s) /\ Treated(s) /\ Sent(s)
        /\ Behind(s)
    BY DEF WebInv, Socket
  <1>2. "ReadRequest" \in Handlers
    BY DEF Handlers
  <1>3. /\ tasks[s] # <<>> /\ t \in Tasks(s) /\ t.handler = "ReadRequest"
        /\ t.msg = TheMsg(s) /\ TheMsg(s) # NULL /\ conn[s] # 0
        /\ \A u \in Tasks(s) : u # t => Class(u) # Class(t)
    BY <1>1, <1>2, AtHead
  <1>4. TheMsg(s) = Registered(s) /\ cbs[s] = <<TheMsg(s)>> /\ queued[s]
    BY <1>1, <1>3 DEF Reads, OneEach, Registered
  <1>5. msgs[TheMsg(s)].data \o wire[s] = d
    BY <1>3, <1>4 DEF Text, Held
  <1>6. ASSUME NEW u \in Tasks(s), u # t
        PROVE  Treats(u) /\ u.handler \notin {"FourOhFor", "BadRequest"}
                         /\ ~msgs[u.msg].close
    <2>1. cbs[s] # <<>>
      BY <1>4
    <2>2. u.handler \notin {"FourOhFor", "BadRequest", "Close", "RegisterRead"}
      BY <1>1, <2>1 DEF Reads
    <2>3. u.handler # "ReadRequest"
      BY <1>3, <1>6 DEF Class, Treats, Treating
    <2>4. u.handler \in Handlers
      BY <1>1, OwnOnes DEF TaskType
    <2>5. Treats(u)
      BY <2>2, <2>3, <2>4 DEF Handlers, Treats
    <2> QED  BY <1>1, <2>1, <2>2, <2>5 DEF Pending
  <1>7. /\ d \in Seq(Chunk) /\ DOMAIN d = 1 .. Len(d) /\ Len(d) \in Nat
        /\ \A i \in 1 .. Len(d) : d[i][1] \in Nat /\ d[i][1] <= asked[s]
        /\ Follows(d, Taken(s))
    BY <1>1, TextType DEF Sent
  <1>8. /\ asked[s] \in Nat /\ Len(got[s]) \in Nat /\ Taken(s) \in Nat
        /\ Current(s) \in {Len(got[s]), Len(got[s]) + 1}
        /\ Taken(s) \in {Current(s), Current(s) + 1}
        /\ setting.requests \in Nat \ {0} /\ setting.pipelined \in Nat \ {0}
        /\ setting.maxLength \in Nat
        /\ asked[s] <= setting.requests
        /\ asked[s] <= Len(got[s]) + setting.pipelined
    BY <1>1, Bounds DEF Treated
  <1>9. OneByOne => asked[s] <= Taken(s) + 1
    <2>1. CASE setting.pipelined = 1
      BY <1>8, <2>1
    <2>2. CASE setting.requests = 1
      BY <1>8, <2>2
    <2> QED  BY <2>1, <2>2 DEF OneByOne
  <1>10. ~OneByOne => asked[s] <= 2 /\ ~setting.hasty
    <2>1. ~OneByOne => setting.requests <= 2 /\ ~setting.hasty
      BY DEF Careful, AtMostTwo
    <2> QED  BY <1>8, <2>1
  <1> HIDE DEF t, d
  <1>11. d # <<>> => Taken(s) + 1 <= asked[s]
    <2> SUFFICES ASSUME d # <<>> PROVE Taken(s) + 1 <= asked[s]
      OBVIOUS
    <2>1. 1 \in 1 .. Len(d)
      BY <1>7, EmptySeq
    <2>2. d[1][1] = Taken(s) + 1
      BY <1>7 DEF Follows
    <2> QED  BY <1>7, <2>1, <2>2
  <1>12. treats[s] # 0 => Current(s) >= 1
    <2>1. CASE Answered(s)
      <3>1. PICK u \in Tasks(s) : u.handler = "FreeRequest"
                                  /\ Number(u.msg) = Len(got[s])
        BY <2>1 DEF Answered
      <3>2. u.msg \in 1 .. Len(msgs)
        BY <1>1, OwnOnes
      <3>3. msgs[u.msg] \in Message
        BY <3>2, ElementOfSeq DEF TypeOK
      <3>4. Ends(msgs[u.msg].data) # {} /\ msgs[u.msg].data \in Seq(Chunk)
        BY <1>1, <3>1, <3>3 DEF Pending, Treats, Treating, Message
      <3>5. Number(u.msg) \in Nat \ {0}
        BY <3>4, FirstEndIn DEF Number, Asked, Chunk
      <3> QED  BY <1>8, <2>1, <3>1, <3>5 DEF Current
    <2>2. CASE ~Answered(s)
      BY <1>8, <2>2 DEF Current
    <2> QED  BY <2>1, <2>2
  <1>13. pending[s] # NULL => d = <<>> /\ peer[s]
    <2> SUFFICES ASSUME pending[s] # NULL PROVE d = <<>> /\ peer[s]
      OBVIOUS
    <2>1. treats[s] = 1 /\ ~OneByOne /\ Taken(s) = Current(s) + 1
      BY <1>1 DEF Pending, Taken
    <2>2. asked[s] <= 2 /\ Current(s) >= 1 /\ ~setting.hasty
      BY <1>10, <1>12, <2>1
    <2>3. d = <<>>
      BY <1>8, <1>11, <2>1, <2>2
    <2>4. Taken(s) <= asked[s]
      BY <1>1 DEF Treated
    <2>5. asked[s] # Len(got[s])
      BY <1>8, <2>1, <2>4
    <2>6. peer[s]
      BY <1>1, <1>3, <2>2, <2>5 DEF Treated
    <2> QED  BY <2>3, <2>6
  <1>14. ASSUME d # <<>>, treats[s] # 0, OneByOne PROVE FALSE
    <2>1. CASE ~Answered(s)
      BY <1>1, <1>14, <2>1, NothingBehind DEF d
    <2>2. CASE Answered(s)
      <3>1. PICK u \in Tasks(s) : u.handler = "FreeRequest"
        BY <2>2 DEF Answered
      <3>2. u # t /\ Treats(u)
        BY <1>3, <3>1 DEF Treats, Treating
      <3>3. Before(tasks[s], t, u)
        <4>1. tasks[s] \in Seq(TaskType)
          BY <1>1, OwnOnes
        <4> QED  BY <1>3, <3>2, <4>1, HeadBefore DEF t, Tasks
      <3> QED  BY <1>1, <1>3, <1>14, <3>2, <3>3 DEF Behind, d
    <2> QED  BY <2>1, <2>2
  <1>15. ASSUME d # <<>>, ~peer[s] PROVE OneByOne
    <2>1. asked[s] # Len(got[s])
      BY <1>8, <1>11, <1>15
    <2>2. setting.hasty
      BY <1>1, <1>3, <1>15, <2>1 DEF Treated
    <2> QED  BY <1>10, <2>2
  <1>16. OneByOne \/ treats[s] # 0 => asked[s] <= Taken(s) + 1
    BY <1>8, <1>9, <1>10, <1>12
  <1>17. OneByOne \/ treats[s] # 0 => \A i \in DOMAIN d : d[i][1] <= Taken(s) + 1
    BY <1>7, <1>8, <1>16
  <1>18. ~OneByOne => \A i \in DOMAIN d : d[i][1] <= Taken(s) + 2
    BY <1>7, <1>8, <1>10
  <1>19. Len(d) < setting.maxLength
    <2>1. CASE OneByOne
      <3>1. Len(d) <= 2
        BY <1>7, <1>8, <1>17, <2>1, OneRequest
      <3>2. setting.maxLength > 2
        BY <2>1 DEF Careful
      <3> QED  BY <1>7, <1>8, <3>1, <3>2
    <2>2. CASE ~OneByOne
      <3>1. Len(d) <= 4
        BY <1>7, <1>8, <1>18, <2>2, TwoRequests
      <3>2. setting.maxLength > 4
        BY <2>2 DEF Careful
      <3> QED  BY <1>7, <1>8, <3>1, <3>2
    <2> QED  BY <2>1, <2>2
  <1>20. ASSUME d # <<>>
         PROVE  /\ treats[s] # 0 => ~OneByOne
                /\ ~peer[s] => OneByOne
                /\ Taken(s) + 1 <= asked[s]
                /\ OneByOne \/ treats[s] # 0 =>
                   \A i \in DOMAIN d : d[i][1] <= Taken(s) + 1
    BY <1>11, <1>14, <1>15, <1>17, <1>20
  <1>21. \A u \in Tasks(s) : u # t =>
              Treats(u) /\ u.handler \notin {"FourOhFor", "BadRequest"}
                        /\ ~msgs[u.msg].close
    BY <1>6
  <1>22. \A i \in DOMAIN d : d[i][1] <= Taken(s) + 2 \/ OneByOne
    BY <1>18
  <1> QED  BY <1>4, <1>5, <1>13, <1>19, <1>20, <1>21, <1>22 DEF d, t

(* A read keeps the other messages, and appends some. *)
LEMMA ReadFrame ==
  ASSUME TypeOK, WebInv, Careful, NEW s \in Sockets, Runs(s, "ReadRequest"),
         NEW more \in Seq(Message),
         \A i \in 1 .. Len(more) :
           /\ more[i].conn = conn[s] /\ more[i].next = NULL
           /\ \A j \in DOMAIN more[i].data :
                more[i].data[j][2] \in Says,
         msgs' = WithText(TheMsg(s), Text(s), ~peer[s]) \o more,
         UNCHANGED <<setting, conn, freed>>
  PROVE  /\ msgs' \in Seq(Message) /\ Plain'
         /\ DOMAIN msgs = 1 .. Len(msgs) /\ Len(msgs) \in Nat
         /\ Len(more) \in Nat
         /\ DOMAIN msgs' = 1 .. Len(msgs) + Len(more)
         /\ \A k \in DOMAIN msgs \ {TheMsg(s)} :
              k \in DOMAIN msgs' /\ msgs'[k] = msgs[k]
         /\ \A i \in 1 .. Len(more) :
              /\ msgs'[Len(msgs) + i] = more[i]
              /\ Len(msgs) + i \notin DOMAIN msgs
              /\ Len(msgs) + i \in DOMAIN msgs' /\ Len(msgs) + i \in Nat
              /\ Len(msgs) + i \in Own(s)'
         /\ Own(s) \subseteq Own(s)' /\ TheMsg(s) \in Own(s)
         /\ msgs'[TheMsg(s)].data = Text(s)
         /\ msgs'[TheMsg(s)].length = Len(Text(s))
         /\ msgs'[TheMsg(s)].reqEnd = FirstEnd(Text(s))
         /\ msgs'[TheMsg(s)].close = ~peer[s]
  <1> DEFINE m == TheMsg(s)
             d == Text(s)
  <1>1. Socket(s) /\ OneEach(s) /\ Sent(s)
    BY DEF WebInv, Socket
  <1>2. m \in Own(s) /\ m \in DOMAIN msgs
    BY <1>1, AtHead DEF Handlers
  <1>3. d \in Seq(Chunk) /\ (~peer[s]) \in BOOLEAN
    BY <1>1, TextType
  <1>4. /\ msgs' \in Seq(Message)
        /\ DOMAIN msgs' = 1 .. Len(msgs) + Len(more)
        /\ Len(msgs) \in Nat /\ Len(more) \in Nat
        /\ DOMAIN msgs = 1 .. Len(msgs) /\ DOMAIN msgs \subseteq DOMAIN msgs'
        /\ \A k \in DOMAIN msgs \ {m} : msgs'[k] = msgs[k]
        /\ msgs'[m].data = d /\ msgs'[m].length = Len(d)
        /\ msgs'[m].close = ~peer[s]
        /\ msgs'[m].reqEnd = FirstEnd(d) /\ msgs'[m].conn = msgs[m].conn
        /\ msgs'[m].next = msgs[m].next
        /\ \A i \in 1 .. Len(more) : msgs'[Len(msgs) + i] = more[i]
    <2> DEFINE c == ~peer[s]
               r == WithText(m, d, c) \o more
    <2>1. msgs' = r
      OBVIOUS
    <2> HIDE DEF c
    <2>2. c \in BOOLEAN
      BY <1>3 DEF c
    <2>3. /\ r \in Seq(Message) /\ Len(r) = Len(msgs) + Len(more)
          /\ DOMAIN r = 1 .. Len(msgs) + Len(more)
          /\ Len(msgs) \in Nat /\ Len(more) \in Nat
          /\ DOMAIN msgs = 1 .. Len(msgs) /\ DOMAIN msgs \subseteq DOMAIN r
          /\ \A k \in DOMAIN msgs \ {m} : r[k] = msgs[k]
          /\ r[m].data = d /\ r[m].length = Len(d) /\ r[m].close = c
          /\ r[m].reqEnd = FirstEnd(d) /\ r[m].conn = msgs[m].conn
          /\ r[m].next = msgs[m].next
          /\ \A i \in 1 .. Len(more) : r[Len(msgs) + i] = more[i]
      BY <1>2, <1>3, <2>2, TextRead, SMTT(40)
    <2> HIDE DEF r
    <2> QED  BY <2>1, <2>3 DEF c
  <1> HIDE DEF m, d
  <1>5. \A i \in 1 .. Len(more) :
          /\ Len(msgs) + i \notin DOMAIN msgs
          /\ Len(msgs) + i \in DOMAIN msgs' /\ Len(msgs) + i \in Nat
    BY <1>4
  <1>6. Own(s) \subseteq Own(s)'
    BY <1>4 DEF Own
  <1>7. Plain'
    <2> SUFFICES ASSUME NEW k \in DOMAIN msgs'
                 PROVE  /\ msgs'[k].next = NULL
                        /\ \A i \in DOMAIN msgs'[k].data :
                             msgs'[k].data[i][2] \in Says
      BY DEF Plain, Says
    <2>1. CASE k = m
      BY <1>1, <1>2, <1>4, <2>1 DEF WebInv, Plain, Sent, d
    <2>2. CASE k \in DOMAIN msgs \ {m}
      BY <1>4, <2>2 DEF WebInv, Plain
    <2>3. CASE k \notin DOMAIN msgs
      <3>1. k - Len(msgs) \in 1 .. Len(more) /\ Len(msgs) + (k - Len(msgs)) = k
        BY <1>4, <2>3
      <3>2. msgs'[k] = more[k - Len(msgs)]
        BY <1>4, <3>1
      <3> QED  BY <3>1, <3>2
    <2> QED  BY <2>1, <2>2, <2>3
  <1>8. \A i \in 1 .. Len(more) : Len(msgs) + i \in Own(s)'
    <2> TAKE i \in 1 .. Len(more)
    <2>1. msgs'[Len(msgs) + i].conn = conn'[s]
      BY <1>4
    <2>2. Len(msgs) + i \in DOMAIN msgs' /\ Len(msgs) + i \notin freed'
      BY <1>5 DEF TypeOK
    <2> QED  BY <2>1, <2>2 DEF Own
  <1> QED  BY <1>2, <1>4, <1>5, <1>6, <1>7, <1>8 DEF m, d

(* What a read leaves alone besides. *)
ReadLeaves(s) ==
  /\ wire' = [wire EXCEPT ![s] = <<>>]
  /\ queued' = [queued EXCEPT ![s] = FALSE]
  /\ UNCHANGED <<setting, conn, accepted, decs, backlog, peer, asked, half, got,
                 files, freed, fault>>

(* It empties the wire of s, and its check is no longer posted.            *)
LEMMA ReadLeft ==
  ASSUME TypeOK, NEW s \in Sockets, ReadLeaves(s)
  PROVE  /\ wire' \in [Sockets -> Seq(Chunk)] /\ wire'[s] = <<>>
         /\ queued' \in [Sockets -> BOOLEAN] /\ ~queued'[s]
         /\ \A t \in Sockets \ {s} : wire'[t] = wire[t] /\ queued'[t] = queued[t]
  <1>1. <<>> \in Seq(Chunk)
    BY EmptySeq
  <1> QED  BY <1>1 DEF ReadLeaves, TypeOK

(* A request is complete, and no other one is in treatment: more are the   *)
(* messages behind it.                                                     *)
LEMMA ReadParses ==
  ASSUME TypeOK, WebInv, Careful, NEW s \in Sockets, Runs(s, "ReadRequest"),
         Ends(Text(s)) # {}, treats[s] = 0, ReadLeaves(s),
         NEW more \in Seq(Message), NEW k \in {0, 1, 2}, Len(more) = k,
         k = 0 <=> ~peer[s],
         \A i \in 1 .. k :
           /\ more[i].conn = conn[s] /\ more[i].next = NULL
           /\ \A j \in DOMAIN more[i].data :
                more[i].data[j][2] \in Says,
         NEW n \in Nat, n = Taken(s) + (IF k = 2 THEN 2 ELSE 1), n <= asked[s],
         k = 2 => /\ ~OneByOne /\ ~more[1].close
                  /\ Ends(more[1].data) = {Len(more[1].data)}
                  /\ more[1].reqEnd = more[1].length
                  /\ more[1].data[FirstEnd(more[1].data)][1] = n,
         k # 0 => /\ Follows(more[k].data, n)
                  /\ UpTo(more[k].data, n, asked[s], half[s])
                  /\ \A j \in DOMAIN more[k].data : more[k].data[j][1] <= asked[s],
         msgs' = WithText(TheMsg(s), Text(s), ~peer[s]) \o more,
         cbs' = [cbs EXCEPT ![s] = IF k = 0 THEN <<>> ELSE <<Len(msgs) + k>>],
         pending' = [pending EXCEPT ![s] = IF k = 2 THEN Len(msgs) + 1 ELSE NULL],
         treats' = [treats EXCEPT ![s] = 1],
         Posts(s, <<Task("ParseRequest", TheMsg(s))>>)
  PROVE  Keeps(s)
  <1> DEFINE t == Head(tasks[s])
             m == TheMsg(s)
             d == Text(s)
             x == Task("ParseRequest", TheMsg(s))
             p == IF k = 2 THEN Len(msgs) + 1 ELSE NULL
             r == IF k = 0 THEN NULL ELSE Len(msgs) + k
  <1>1. Socket(s) /\ OneEach(s) /\ Reads(s) /\ Pending(s) /\ Treated(s) /\ Sent(s)
    BY DEF WebInv, Socket
  <1>2. "ReadRequest" \in Handlers /\ "ParseRequest" \in Treating
        /\ "ParseRequest" \in Handlers
    BY DEF Handlers, Treating
  <1>3. /\ tasks[s] # <<>> /\ t \in Tasks(s) /\ t.handler = "ReadRequest"
        /\ t.msg = m /\ m # NULL /\ conn[s] # 0 /\ m \in Nat /\ m \in DOMAIN msgs
    BY <1>1, <1>2, AtHead
  <1>4. \A u \in Tasks(s) : u = t
    <2> SUFFICES ASSUME NEW u \in Tasks(s), u # t PROVE FALSE
      OBVIOUS
    <2>1. Treats(u)
      BY Reading
    <2> QED  BY <1>1, <2>1 DEF Pending
  <1>5. d \in Seq(Chunk) /\ d # <<>>
    BY <1>1, TextType, FirstEndIn
  <1>6. pending[s] = NULL
    BY <1>5, Reading
  <1>7. x \in TaskType /\ x.handler = "ParseRequest" /\ x.msg = m /\ Treats(x)
        /\ Class(x) = "treat"
    BY <1>2, <1>3 DEF Task, TaskType, Treats, Class
  <1>8. /\ tasks' \in [Sockets -> Seq(TaskType)]
        /\ \A u \in Sockets \ {s} : tasks'[u] = tasks[u]
        /\ IsInjective(tasks'[s])
        /\ Tasks(s)' = (Tasks(s) \ {t}) \cup {x}
    BY <1>1, <1>3, <1>4, <1>7, Posting
  <1>9. Tasks(s)' = {x}
    BY <1>3, <1>4, <1>8
  <1>10. /\ msgs' \in Seq(Message) /\ Plain'
         /\ DOMAIN msgs = 1 .. Len(msgs) /\ Len(msgs) \in Nat
         /\ DOMAIN msgs' = 1 .. Len(msgs) + k
         /\ \A i \in DOMAIN msgs \ {m} : i \in DOMAIN msgs' /\ msgs'[i] = msgs[i]
         /\ \A i \in 1 .. k :
              /\ msgs'[Len(msgs) + i] = more[i]
              /\ Len(msgs) + i \notin DOMAIN msgs
              /\ Len(msgs) + i \in DOMAIN msgs' /\ Len(msgs) + i \in Nat
              /\ Len(msgs) + i \in Own(s)'
         /\ Own(s) \subseteq Own(s)' /\ m \in Own(s)
         /\ msgs'[m].data = d /\ (msgs'[m].close => k = 0)
    <2>1. UNCHANGED <<setting, conn, freed>>
      BY DEF ReadLeaves
    <2>2. \A i \in 1 .. Len(more) :
            /\ more[i].conn = conn[s] /\ more[i].next = NULL
            /\ \A j \in DOMAIN more[i].data :
                 more[i].data[j][2] \in Says
      OBVIOUS
    <2>3. /\ msgs' \in Seq(Message) /\ Plain'
          /\ DOMAIN msgs = 1 .. Len(msgs) /\ Len(msgs) \in Nat
          /\ Len(more) \in Nat
          /\ DOMAIN msgs' = 1 .. Len(msgs) + Len(more)
          /\ \A i \in DOMAIN msgs \ {TheMsg(s)} :
               i \in DOMAIN msgs' /\ msgs'[i] = msgs[i]
          /\ \A i \in 1 .. Len(more) :
               /\ msgs'[Len(msgs) + i] = more[i]
               /\ Len(msgs) + i \notin DOMAIN msgs
               /\ Len(msgs) + i \in DOMAIN msgs' /\ Len(msgs) + i \in Nat
               /\ Len(msgs) + i \in Own(s)'
          /\ Own(s) \subseteq Own(s)' /\ TheMsg(s) \in Own(s)
          /\ msgs'[TheMsg(s)].data = Text(s)
          /\ msgs'[TheMsg(s)].length = Len(Text(s))
          /\ msgs'[TheMsg(s)].reqEnd = FirstEnd(Text(s))
          /\ msgs'[TheMsg(s)].close = ~peer[s]
      BY <2>1, <2>2, ReadFrame
    <2> QED  BY <2>3
  <1>11. k # 0 => r \in Own(s)' /\ r \in Nat /\ msgs'[r] = more[k] /\ r # m
                  /\ r # NULL
    BY <1>3, <1>10 DEF NULL
  <1>12. k = 2 => p \in Own(s)' /\ p \in Nat /\ msgs'[p] = more[1] /\ p # m
                  /\ p # r /\ p # NULL
    BY <1>3, <1>10, SMTT(40) DEF NULL
  <1>13. /\ wire' \in [Sockets -> Seq(Chunk)] /\ wire'[s] = <<>>
         /\ queued' \in [Sockets -> BOOLEAN] /\ ~queued'[s]
         /\ \A u \in Sockets \ {s} : wire'[u] = wire[u] /\ queued'[u] = queued[u]
    BY ReadLeft
  <1>14. UNCHANGED <<setting, conn, accepted, decs, backlog, peer, asked, half,
                     got, files, freed, fault>>
    BY DEF ReadLeaves
  <1>15. /\ cbs' \in [Sockets -> Seq(Nat)]
         /\ cbs'[s] = IF k = 0 THEN <<>> ELSE <<r>>
         /\ \A u \in Sockets \ {s} : cbs'[u] = cbs[u]
    <2> DEFINE c == IF k = 0 THEN <<>> ELSE <<r>>
    <2>1. c \in Seq(Nat)
      BY <1>11, EmptySeq
    <2>2. cbs' = [cbs EXCEPT ![s] = c]
      OBVIOUS
    <2> HIDE DEF c
    <2>3. cbs' \in [Sockets -> Seq(Nat)] /\ cbs'[s] = c
          /\ \A u \in Sockets \ {s} : cbs'[u] = cbs[u]
      BY <2>1, <2>2, SMTT(40) DEF TypeOK
    <2> QED  BY <2>3 DEF c
  <1>16. Registered(s)' = r
    BY <1>15 DEF Registered
  <1>17. /\ pending' \in [Sockets -> Nat] /\ pending'[s] = p
         /\ \A u \in Sockets \ {s} : pending'[u] = pending[u]
    BY <1>12 DEF TypeOK, NULL
  <1>18. /\ treats' \in [Sockets -> {0, 1}] /\ treats'[s] = 1
         /\ \A u \in Sockets \ {s} : treats'[u] = treats[u]
    BY DEF TypeOK
  <1> HIDE DEF t, m, d, x, p, r
  <1>19. TypeOK'
    <2>1. DOMAIN msgs \subseteq DOMAIN msgs'
      BY <1>10
    <2> QED
    BY <2>1, <1>8, <1>10, <1>13, <1>14, <1>15, <1>17, <1>18 DEF TypeOK, TaskType
  <1>20. Local(s) /\ fault' = "none"
    BY <1>8, <1>10, <1>13, <1>14, <1>15, <1>17, <1>18 DEF Local, WebInv
  <1>21. OneEach(s)'
    <2>1. x.msg \in Own(s)' /\ x.msg # pending'[s] /\ x.msg # Registered(s)'
      BY <1>3, <1>7, <1>10, <1>11, <1>12, <1>16, <1>17 DEF p, r
    <2>2. cbs'[s] = <<>> \/ (cbs'[s] = <<Registered(s)'>> /\ Registered(s)' \in Own(s)')
      BY <1>11, <1>15, <1>16
    <2>3. pending'[s] = NULL
            \/ (pending'[s] \in Own(s)' /\ pending'[s] # Registered(s)')
      BY <1>12, <1>16, <1>17 DEF p
    <2> QED  BY <1>3, <1>8, <1>9, <1>14, <2>1, <2>2, <2>3 DEF OneEach
  <1>22. Reads(s)'
    BY <1>7, <1>9, <1>13 DEF Reads
  <1>23. OneByOne' = OneByOne /\ NoError' = NoError
    BY <1>14 DEF OneByOne, NoError
  <1>24. Pending(s)'
    <2>1. pending'[s] # NULL =>
            /\ treats'[s] = 1 /\ ~OneByOne' /\ ~msgs'[pending'[s]].close
            /\ Ends(msgs'[pending'[s]].data) = {Len(msgs'[pending'[s]].data)}
            /\ msgs'[pending'[s]].reqEnd = msgs'[pending'[s]].length
      BY <1>12, <1>17, <1>18, <1>23 DEF p
    <2>2. Ends(msgs'[x.msg].data) # {}
      BY <1>7, <1>10 DEF d
    <2>3. msgs'[x.msg].close =>
            /\ cbs'[s] = <<>> /\ pending'[s] = NULL /\ ~peer'[s] /\ wire'[s] = <<>>
      <3>1. msgs'[x.msg].close => k = 0
        BY <1>7, <1>10
      <3>2. k = 0 => cbs'[s] = <<>> /\ pending'[s] = NULL
        BY <1>15, <1>17 DEF p
      <3>3. k = 0 => ~peer'[s]
        BY <1>14
      <3> QED  BY <3>1, <3>2, <3>3, <1>13, <1>14, <1>15, <1>17 DEF p
    <2> QED  BY <1>7, <1>9, <1>18, <2>1, <2>2, <2>3 DEF Pending
  <1>25. ~Answered(s)'
    BY <1>7, <1>9 DEF Answered
  <1>26. /\ Len(got[s]) \in Nat /\ asked[s] \in Nat /\ Taken(s) = Len(got[s])
         /\ Taken(s) \in Nat
    BY <1>6, Bounds DEF Taken, Current
  <1>27. Current(s)' = Taken(s) + 1 /\ Taken(s)' = n
    <2>1. Current(s)' = Taken(s) + 1
      BY <1>14, <1>18, <1>25, <1>26 DEF Current
    <2> QED  BY <1>12, <1>17, <1>26, <2>1 DEF Taken, p
  <1>28. ASSUME NEW u \in Tasks(s)' PROVE Number(u.msg)' = Taken(s) + 1
    <2>1. Follows(d, Taken(s)) /\ Ends(d) # {}
      BY <1>1 DEF Sent, d
    <2>2. d[FirstEnd(d)][1] = Taken(s) + 1
      BY <1>5, <1>26, <2>1, FirstNumber
    <2>3. u.msg = m
      BY <1>7, <1>9
    <2>4. msgs'[u.msg].data[FirstEnd(msgs'[u.msg].data)][1] = Taken(s) + 1
      BY <1>10, <2>2, <2>3
    <2> QED  BY <2>4 DEF Number, Asked
  <1>29. Treated(s)'
    <2>1. pending'[s] # NULL => Number(pending[s])' = Current(s)' + 1
      <3> SUFFICES ASSUME pending'[s] # NULL PROVE Number(pending[s])' = Current(s)' + 1
        OBVIOUS
      <3>1. k = 2 /\ pending'[s] = p
        BY <1>17 DEF p
      <3>2. msgs'[pending'[s]].data[FirstEnd(msgs'[pending'[s]].data)][1] = n
        BY <1>12, <3>1
      <3>3. n = Current(s)' + 1
        BY <1>26, <1>27, <3>1
      <3> QED  BY <3>2, <3>3 DEF Number, Asked
    <2>2. \A u \in Tasks(s)' : u.handler # "FreeRequest"
      BY <1>7, <1>9
    <2>3. Taken(s)' <= asked'[s]
      BY <1>14, <1>27
    <2>4. \A u \in Tasks(s)' : Number(u.msg)' = Current(s)'
      BY <1>27, <1>28
    <2> QED  BY <1>1, <1>14, <2>1, <2>2, <2>3, <2>4 DEF Treated
  <1>30. Text(s)' = IF k = 0 THEN <<>> ELSE more[k].data
    <2>1. CASE k = 0
      BY <1>13, <1>16, <2>1 DEF Text, Held, r
    <2>2. CASE k # 0
      <3>1. Held(s)' = more[k].data
        BY <1>11, <1>16, <2>2 DEF Held
      <3>2. more[k] \in Message
        BY <2>2, ElementOfSeq
      <3>3. more[k].data \in Seq(Chunk)
        BY <3>2 DEF Message
      <3>4. more[k].data \o <<>> = more[k].data
        BY <3>3, ConcatEmptySeq
      <3> QED  BY <1>13, <2>2, <3>1, <3>4 DEF Text
    <2> QED  BY <2>1, <2>2
  <1>31. Sent(s)'
    <2>1. CASE k = 0
      <3>1. DOMAIN Text(s)' = {} /\ Len(Text(s)') = 0
        BY <1>30, <2>1, EmptyList
      <3> QED  BY <1>14, <1>30, <2>1, <3>1 DEF Sent, Follows
    <2>2. CASE k # 0
      <3>1. k \in 1 .. k
        BY <2>2
      <3> QED  BY <1>14, <1>27, <1>30, <2>2, <3>1 DEF Sent, Says
    <2> QED  BY <2>1, <2>2
  <1>32. Behind(s)'
    BY <1>7, <1>9 DEF Behind
  <1> QED  BY <1>10, <1>19, <1>20, <1>21, <1>22, <1>24, <1>29, <1>31, <1>32
           DEF Keeps, Socket

(* Nothing has come, so the client has gone: the connection gets closed. *)
LEMMA ReadErrorKept ==
  ASSUME TypeOK, WebInv, Careful, NEW s \in Sockets, Runs(s, "ReadRequest"),
         Text(s) = <<>>, ReadError(s, TheMsg(s)), StopReading(s),
         wire' = [wire EXCEPT ![s] = <<>>],
         queued' = [queued EXCEPT ![s] = FALSE],
         UNCHANGED <<setting, conn, accepted, decs, backlog, peer, asked, half,
                     got, files>>
  PROVE  Keeps(s)
  <1> DEFINE t == Head(tasks[s])
             m == TheMsg(s)
             x == Task("Close", TheMsg(s))
  <1>1. Socket(s) /\ OneEach(s) /\ Reads(s) /\ Pending(s) /\ Treated(s) /\ Sent(s)
    BY DEF WebInv, Socket
  <1>2. "ReadRequest" \in Handlers /\ "Close" \notin Treating
        /\ "Close" \in Handlers /\ "ReadRequest" \notin Treating
    BY DEF Handlers, Treating
  <1>3. /\ tasks[s] # <<>> /\ t \in Tasks(s) /\ t.handler = "ReadRequest"
        /\ t.msg = m /\ m # NULL /\ conn[s] # 0 /\ m \in Nat /\ m \in Own(s)
        /\ \A u \in Tasks(s) : u # t => u.msg # m
    BY <1>1, <1>2, AtHead
  <1>4. \A u \in Tasks(s) : u # t =>
          Treats(u) /\ u.handler \notin {"FourOhFor", "BadRequest"}
                    /\ ~msgs[u.msg].close
    BY Reading
  <1>5. ~peer[s] /\ wire[s] = <<>>
    <2>1. wire[s] = <<>>
      BY <1>1, TextType
    <2>2. queued[s]
      BY <1>1, <1>3 DEF Reads
    <2> QED  BY <1>1, <2>1, <2>2 DEF Reads
  <1>6. pending[s] = NULL
    BY <1>5, Reading
  <1>7. freed' = freed /\ fault' = fault
    BY <1>1, <1>6, NonePending DEF ReadError, TouchPending, WebInv
  <1>8. ReadLeaves(s) /\ UNCHANGED <<msgs, pending, treats>>
    BY <1>7 DEF ReadLeaves, ReadError, listVars
  <1>9. x \in TaskType /\ x.handler = "Close" /\ x.msg = m /\ ~Treats(x)
        /\ Class(x) = "close"
    BY <1>2, <1>3 DEF Task, TaskType, Treats, Class
  <1>10. x \notin Tasks(s) \ {t}
    BY <1>4, <1>9
  <1>11. Posts(s, <<x>>)
    BY DEF ReadError
  <1>12. /\ tasks' \in [Sockets -> Seq(TaskType)]
         /\ \A u \in Sockets \ {s} : tasks'[u] = tasks[u]
         /\ IsInjective(tasks'[s])
         /\ Tasks(s)' = (Tasks(s) \ {t}) \cup {x}
    BY <1>1, <1>3, <1>9, <1>10, <1>11, Posting
  <1>13. /\ wire' \in [Sockets -> Seq(Chunk)] /\ wire'[s] = <<>>
         /\ queued' \in [Sockets -> BOOLEAN] /\ ~queued'[s]
         /\ \A u \in Sockets \ {s} : wire'[u] = wire[u] /\ queued'[u] = queued[u]
    BY <1>8, ReadLeft
  <1>14. UNCHANGED <<setting, conn, accepted, decs, backlog, peer, asked, half,
                     got, files, freed, fault, msgs, pending, treats>>
    BY <1>8 DEF ReadLeaves
  <1>15. /\ cbs' \in [Sockets -> Seq(Nat)] /\ cbs'[s] = <<>>
         /\ \A u \in Sockets \ {s} : cbs'[u] = cbs[u]
    <2>1. <<>> \in Seq(Nat)
      BY EmptySeq
    <2> QED  BY <2>1 DEF StopReading, TypeOK
  <1>16. Registered(s)' = NULL
    BY <1>15 DEF Registered
  <1> HIDE DEF t, m, x
  <1>17. TypeOK'
    BY <1>12, <1>13, <1>14, <1>15 DEF TypeOK, TaskType
  <1>18. Local(s) /\ fault' = "none" /\ Plain'
    BY <1>12, <1>13, <1>14, <1>15 DEF Local, WebInv, Plain, Says
  <1>19. Own(s)' = Own(s)
    BY <1>14 DEF Own
  <1>20. \A u \in Tasks(s)' : u = x \/ (u \in Tasks(s) /\ u # t /\ Treats(u)
                                          /\ Class(u) = "treat")
    BY <1>4, <1>12 DEF Class
  <1>21. OneEach(s)'
    <2>1. \A u, v \in Tasks(s)' : u # v => Class(u) # Class(v) /\ u.msg # v.msg
      BY <1>1, <1>3, <1>9, <1>20 DEF OneEach
    <2>2. \A u \in Tasks(s)' : u.msg \in Own(s)' /\ u.msg # pending'[s]
                                 /\ u.msg # Registered(s)'
      BY <1>1, <1>3, <1>6, <1>9, <1>14, <1>16, <1>19, <1>20, OwnOnes DEF OneEach
    <2> QED  BY <1>3, <1>6, <1>12, <1>14, <1>15, <2>1, <2>2 DEF OneEach
  <1>22. Reads(s)'
    BY <1>2, <1>9, <1>13, <1>15, <1>20 DEF Reads, Treats, Treating
  <1>23. Pending(s)'
    <2>1. OneByOne' = OneByOne /\ NoError' = NoError
      BY <1>14 DEF OneByOne, NoError
    <2>2. \A u \in Tasks(s)' :
            /\ Treats(u) => treats'[s] = 1 /\ Ends(msgs'[u.msg].data) # {}
            /\ Treats(u) => ~msgs'[u.msg].close
            /\ u.handler = "Close" => treats'[s] = 0 \/ ~peer'[s]
            /\ u.handler \in {"FourOhFor", "BadRequest"} => ~NoError'
      BY <1>1, <1>4, <1>5, <1>9, <1>14, <1>20, <2>1 DEF Pending
    <2> QED  BY <1>6, <1>14, <2>2 DEF Pending
  <1>24. Answered(s)' = Answered(s)
    <2>1. \A u : u.handler = "FreeRequest" => (u \in Tasks(s)' <=> u \in Tasks(s))
      BY <1>3, <1>9, <1>12
    <2>2. \A u \in Tasks(s) : Number(u.msg)' = Number(u.msg)
      BY <1>14 DEF Number, Asked
    <2> QED  BY <1>14, <2>1, <2>2 DEF Answered
  <1>25. Current(s)' = Current(s) /\ Taken(s)' = Taken(s)
    BY <1>14, <1>24 DEF Current, Taken
  <1>26. Treated(s)'
    <2>1. \A u \in Tasks(s)' : Treats(u) =>
            /\ Number(u.msg)' = Current(s)'
            /\ u.handler = "FreeRequest" => Answered(s)' \/ ~peer'[s]
      BY <1>1, <1>9, <1>14, <1>20, <1>24, <1>25 DEF Treated, Number, Asked
    <2> QED  BY <1>1, <1>6, <1>14, <1>25, <2>1 DEF Treated
  <1>27. Text(s)' = Text(s)
    <2>1. Held(s)' = <<>>
      BY <1>16 DEF Held
    <2>2. <<>> \o <<>> = <<>>
      BY EmptySeq, ConcatEmptySeq
    <2> QED  BY <1>13, <2>1, <2>2 DEF Text
  <1>28. Sent(s)'
    BY <1>1, <1>14, <1>25, <1>27 DEF Sent
  <1>29. Behind(s)'
    <2>1. \A u \in Tasks(s)' : u.handler # "ReadRequest"
      BY <1>2, <1>9, <1>20 DEF Treats
    <2> QED  BY <2>1 DEF Behind
  <1> QED  BY <1>17, <1>18, <1>21, <1>22, <1>23, <1>26, <1>28, <1>29
           DEF Keeps, Socket

(* The request is not complete: the message keeps its text for the next    *)
(* read, if there is one.                                                  *)
LEMMA ReadPart ==
  ASSUME TypeOK, WebInv, Careful, NEW s \in Sockets, Runs(s, "ReadRequest"),
         Text(s) # <<>>, Ends(Text(s)) = {}, ReadLeaves(s),
         msgs' = WithText(TheMsg(s), Text(s), ~peer[s]),
         IF peer[s] THEN cbs' = cbs ELSE StopReading(s),
         Posts(s, <<>>), UNCHANGED <<pending, treats>>
  PROVE  Keeps(s)
  <1> DEFINE t == Head(tasks[s])
             m == TheMsg(s)
             d == Text(s)
  <1>1. Socket(s) /\ OneEach(s) /\ Reads(s) /\ Pending(s) /\ Treated(s) /\ Sent(s)
    BY DEF WebInv, Socket
  <1>2. "ReadRequest" \in Handlers /\ "ReadRequest" \notin Treating
    BY DEF Handlers, Treating
  <1>3. /\ tasks[s] # <<>> /\ t \in Tasks(s) /\ t.handler = "ReadRequest"
        /\ t.msg = m /\ m # NULL /\ conn[s] # 0 /\ m \in Nat /\ m \in Own(s)
        /\ \A u \in Tasks(s) : u # t => u.msg # m /\ Class(u) # Class(t)
    BY <1>1, <1>2, AtHead
  <1>4. \A u \in Tasks(s) : u # t =>
          Treats(u) /\ u.handler \notin {"FourOhFor", "BadRequest"}
                    /\ ~msgs[u.msg].close
    BY Reading
  <1>5. /\ pending[s] = NULL /\ Registered(s) = m /\ cbs[s] = <<m>>
        /\ (~peer[s] => treats[s] = 0)
    <2>1. pending[s] = NULL
      BY Reading
    <2>2. ~peer[s] => OneByOne
      BY Reading
    <2>3. treats[s] # 0 => ~OneByOne
      BY Reading
    <2>4. Registered(s) = m /\ cbs[s] = <<m>>
      BY Reading
    <2> QED  BY <2>1, <2>2, <2>3, <2>4
  <1>6. d \in Seq(Chunk)
    BY <1>1, TextType
  <1>7. /\ tasks' \in [Sockets -> Seq(TaskType)]
        /\ \A u \in Sockets \ {s} : tasks'[u] = tasks[u]
        /\ IsInjective(tasks'[s])
        /\ Tasks(s)' = Tasks(s) \ {t}
    BY <1>1, <1>3, PostingNone
  <1>8. /\ msgs' \in Seq(Message) /\ Plain' /\ DOMAIN msgs' = DOMAIN msgs
        /\ \A i \in DOMAIN msgs \ {m} : msgs'[i] = msgs[i]
        /\ Own(s) \subseteq Own(s)' /\ msgs'[m].data = d
    <2> DEFINE more == <<>>
               c == ~peer[s]
    <2>1. UNCHANGED <<setting, conn, freed>>
      BY DEF ReadLeaves
    <2>2. more \in Seq(Message) /\ Len(more) = 0
      BY EmptySeq
    <2>3. \A i \in 1 .. Len(more) :
            /\ more[i].conn = conn[s] /\ more[i].next = NULL
            /\ \A j \in DOMAIN more[i].data :
                 more[i].data[j][2] \in Says
      BY <2>2
    <2>4. m \in DOMAIN msgs /\ c \in BOOLEAN
      BY <1>3 DEF Own
    <2> HIDE DEF c
    <2>5. WithText(m, d, c) \in Seq(Message)
      BY <1>6, <2>2, <2>4, TextRead
    <2>6. msgs' = WithText(m, d, ~peer[s]) \o more
      BY <2>5, ConcatEmptySeq DEF c
    <2> HIDE DEF more
    <2>7. /\ msgs' \in Seq(Message) /\ Plain'
          /\ DOMAIN msgs = 1 .. Len(msgs) /\ Len(msgs) \in Nat
          /\ Len(more) \in Nat
          /\ DOMAIN msgs' = 1 .. Len(msgs) + Len(more)
          /\ \A i \in DOMAIN msgs \ {TheMsg(s)} :
               i \in DOMAIN msgs' /\ msgs'[i] = msgs[i]
          /\ Own(s) \subseteq Own(s)' /\ TheMsg(s) \in Own(s)
          /\ msgs'[TheMsg(s)].data = Text(s)
      BY <2>1, <2>2, <2>3, <2>6, ReadFrame
    <2> QED  BY <2>2, <2>7
  <1>9. /\ wire' \in [Sockets -> Seq(Chunk)] /\ wire'[s] = <<>>
         /\ queued' \in [Sockets -> BOOLEAN] /\ ~queued'[s]
         /\ \A u \in Sockets \ {s} : wire'[u] = wire[u] /\ queued'[u] = queued[u]
    BY ReadLeft
  <1>10. UNCHANGED <<setting, conn, accepted, decs, backlog, peer, asked, half,
                     got, files, freed, fault>>
    BY DEF ReadLeaves
  <1>11. /\ cbs' \in [Sockets -> Seq(Nat)]
         /\ cbs'[s] = IF peer[s] THEN <<m>> ELSE <<>>
         /\ \A u \in Sockets \ {s} : cbs'[u] = cbs[u]
    <2>1. <<>> \in Seq(Nat)
      BY EmptySeq
    <2>2. CASE peer[s]
      BY <1>5, <2>2 DEF TypeOK
    <2>3. CASE ~peer[s]
      BY <2>1, <2>3 DEF StopReading, TypeOK
    <2> QED  BY <2>2, <2>3
  <1>12. Registered(s)' = IF peer[s] THEN m ELSE NULL
    BY <1>11 DEF Registered
  <1> HIDE DEF t, m, d
  <1>13. TypeOK'
    BY <1>7, <1>8, <1>9, <1>10, <1>11 DEF TypeOK, TaskType
  <1>14. Local(s) /\ fault' = "none" /\ Plain'
    BY <1>3, <1>7, <1>8, <1>9, <1>10, <1>11 DEF Local, WebInv
  <1>15. \A u \in Tasks(s)' : /\ u \in Tasks(s) /\ u # t /\ u.msg # m /\ Treats(u)
                              /\ msgs'[u.msg] = msgs[u.msg]
    <2>1. \A u \in Tasks(s) : u.msg \in DOMAIN msgs
      BY <1>1, OwnOnes
    <2> QED  BY <1>3, <1>4, <1>7, <1>8, <2>1
  <1>16. \A u \in Tasks(s)' : Number(u.msg)' = Number(u.msg)
    BY <1>15 DEF Number, Asked
  <1>17. OneEach(s)'
    <2>1. \A u \in Tasks(s)' : u.msg \in Own(s)' /\ u.msg # pending'[s]
                                 /\ u.msg # Registered(s)'
      <3>1. \A u \in Tasks(s) : u.msg \in Own(s) /\ u.msg # NULL
        BY <1>1, OwnOnes
      <3> QED  BY <1>5, <1>8, <1>12, <1>15, <3>1
    <2>2. cbs'[s] = <<>> \/ (cbs'[s] = <<Registered(s)'>> /\ Registered(s)' \in Own(s)')
      BY <1>3, <1>8, <1>11, <1>12
    <2>3. \A u, v \in Tasks(s)' : u # v => Class(u) # Class(v) /\ u.msg # v.msg
      BY <1>1, <1>15 DEF OneEach
    <2> QED  BY <1>3, <1>5, <1>7, <1>10, <2>1, <2>2, <2>3 DEF OneEach
  <1>18. Reads(s)'
    <2>1. \A u \in Tasks(s)' : u.handler \notin {"ReadRequest", "RegisterRead"}
      BY <1>15 DEF Treats, Treating
    <2>2. \A u \in Tasks(s)' : u.handler \notin {"FourOhFor", "BadRequest", "Close"}
      BY <1>4, <1>15 DEF Treats, Treating
    <2> QED  BY <1>9, <2>1, <2>2 DEF Reads
  <1>19. Pending(s)'
    <2>1. OneByOne' = OneByOne /\ NoError' = NoError
      BY <1>10 DEF OneByOne, NoError
    <2>2. \A u \in Tasks(s)' :
            /\ Treats(u) => treats'[s] = 1 /\ Ends(msgs'[u.msg].data) # {}
            /\ ~msgs'[u.msg].close
            /\ u.handler = "Close" => treats'[s] = 0 \/ ~peer'[s]
            /\ u.handler \in {"FourOhFor", "BadRequest"} => ~NoError'
      BY <1>1, <1>4, <1>10, <1>15, <2>1 DEF Pending
    <2> QED  BY <1>5, <2>2 DEF Pending
  <1>20. Answered(s)' = Answered(s)
    <2>1. \A u : u.handler = "FreeRequest" => (u \in Tasks(s)' <=> u \in Tasks(s))
      BY <1>3, <1>7
    <2> QED  BY <1>10, <1>16, <2>1 DEF Answered
  <1>21. Current(s)' = Current(s) /\ Taken(s)' = Taken(s)
    BY <1>10, <1>20 DEF Current, Taken
  <1>22. Treated(s)'
    <2>1. \A u \in Tasks(s)' : Treats(u) =>
            /\ Number(u.msg)' = Current(s)'
            /\ u.handler = "FreeRequest" => Answered(s)' \/ ~peer'[s]
      BY <1>1, <1>10, <1>15, <1>16, <1>20, <1>21 DEF Treated
    <2> QED  BY <1>1, <1>5, <1>10, <1>21, <2>1 DEF Treated
  <1>23. Sent(s)'
    <2>1. CASE peer[s]
      <3>1. Held(s)' = d
        BY <1>3, <1>8, <1>12, <2>1 DEF Held
      <3>2. d \o <<>> = d
        BY <1>6, ConcatEmptySeq
      <3>3. Text(s)' = Text(s)
        BY <1>9, <3>1, <3>2 DEF Text, d
      <3> QED  BY <1>1, <1>10, <1>21, <3>3 DEF Sent, Says
    <2>2. CASE ~peer[s]
      <3>1. Held(s)' = <<>>
        BY <1>12, <2>2 DEF Held
      <3>2. <<>> \o <<>> = <<>>
        BY EmptySeq, ConcatEmptySeq
      <3>3. Text(s)' = <<>> /\ Len(<<>>) = 0 /\ DOMAIN <<>> = {}
        BY <1>9, <3>1, <3>2, EmptySeq DEF Text
      <3> QED  BY <1>10, <2>2, <3>3 DEF Sent, Follows
    <2> QED  BY <2>1, <2>2
  <1>24. Behind(s)'
    <2>1. \A u \in Tasks(s)' : u.handler # "ReadRequest"
      BY <1>2, <1>15 DEF Treats
    <2> QED  BY <2>1 DEF Behind
  <1> QED  BY <1>13, <1>14, <1>17, <1>18, <1>19, <1>22, <1>23, <1>24
           DEF Keeps, Socket

(* The message behind a text of one request. *)
LEMMA RestMessage ==
  ASSUME TypeOK, NEW s \in Sockets, NEW d \in Seq(Chunk), NEW e \in Ends(d)
  PROVE  LET r == Rest(NewMsg(s), d, e)
         IN /\ r \in Message /\ r.conn = conn[s] /\ r.next = NULL
            /\ r.data = SubSeq(d, e + 1, Len(d)) /\ r.close = FALSE
  <1>1. Len(d) \in Nat /\ e \in 1 .. Len(d)
    BY FirstEndIn
  <1> DEFINE q == SubSeq(d, e + 1, Len(d))
  <1>2. q \in Seq(Chunk)
    <2>1. \A i \in e + 1 .. Len(d) : d[i] \in Chunk
      BY <1>1, ElementOfSeq
    <2> QED  BY <1>1, <2>1, SubSeqProperties
  <1> HIDE DEF q
  <1>3. Len(q) \in Nat /\ conn[s] \in Nat /\ NULL \in Nat
    BY <1>2, LenProperties DEF TypeOK, NULL
  <1>4. Rest(NewMsg(s), d, e) =
          [conn |-> conn[s], data |-> q, length |-> Len(q), reqEnd |-> 0,
           close |-> FALSE, next |-> NULL]
    <2> DEFINE z == <<>>
               f == FALSE
               n == [conn |-> conn[s], data |-> z, length |-> 0, reqEnd |-> 0,
                     close |-> f, next |-> NULL]
               n1 == [n EXCEPT !.data = q]
    <2>1. Rest(NewMsg(s), d, e) = [n1 EXCEPT !.length = Len(q)]
      BY DEF Rest, NewMsg, q
    <2> HIDE DEF z, f
    <2>2. n1 = [conn |-> conn[s], data |-> q, length |-> 0, reqEnd |-> 0,
                close |-> f, next |-> NULL]
      OBVIOUS
    <2> HIDE DEF n1
    <2>3. Rest(NewMsg(s), d, e) =
            [conn |-> conn[s], data |-> q, length |-> Len(q), reqEnd |-> 0,
             close |-> f, next |-> NULL]
      BY <2>1, <2>2
    <2> QED  BY <2>3 DEF f
  <1> QED  BY <1>2, <1>3, <1>4, SMTT(40) DEF Message, q

(* A request is complete while another one is in treatment: it is pending, *)
(* and nothing is behind it.                                               *)
LEMMA ReadWaits ==
  ASSUME TypeOK, WebInv, Careful, NEW s \in Sockets, Runs(s, "ReadRequest"),
         Ends(Text(s)) = {Len(Text(s))}, treats[s] # 0, ReadLeaves(s),
         \A i \in DOMAIN Text(s) : Text(s)[i][1] <= Taken(s) + 1,
         msgs' = WithText(TheMsg(s), Text(s), ~peer[s])
                   \o <<Rest(NewMsg(s), Text(s), Len(Text(s)))>>,
         cbs' = [cbs EXCEPT ![s] = <<Len(msgs) + 1>>],
         pending' = [pending EXCEPT ![s] = TheMsg(s)], treats' = treats,
         Posts(s, <<>>)
  PROVE  Keeps(s)
  <1> DEFINE t == Head(tasks[s])
             m == TheMsg(s)
             d == Text(s)
             r == Len(msgs) + 1
             new == Rest(NewMsg(s), Text(s), Len(Text(s)))
  <1>1. Socket(s) /\ OneEach(s) /\ Reads(s) /\ Pending(s) /\ Treated(s) /\ Sent(s)
    BY DEF WebInv, Socket
  <1>2. "ReadRequest" \in Handlers /\ "ReadRequest" \notin Treating
    BY DEF Handlers, Treating
  <1>3. /\ tasks[s] # <<>> /\ t \in Tasks(s) /\ t.handler = "ReadRequest"
        /\ t.msg = m /\ m # NULL /\ conn[s] # 0 /\ m \in Nat /\ m \in Own(s)
        /\ \A u \in Tasks(s) : u # t => u.msg # m /\ Class(u) # Class(t)
    BY <1>1, <1>2, AtHead
  <1>4. \A u \in Tasks(s) : u # t =>
          Treats(u) /\ u.handler \notin {"FourOhFor", "BadRequest"}
                    /\ ~msgs[u.msg].close
    BY Reading
  <1>5. d \in Seq(Chunk) /\ d # <<>> /\ Len(d) \in Nat /\ Len(d) \in Ends(d)
        /\ FirstEnd(d) = Len(d)
    <2>1. d \in Seq(Chunk)
      BY <1>1, TextType
    <2> QED  BY <2>1, FirstEndIn
  <1>6. pending[s] = NULL /\ ~OneByOne /\ peer[s] /\ treats[s] = 1
    <2>1. pending[s] = NULL
      BY <1>5, Reading
    <2>2. ~OneByOne
      BY <1>5, Reading
    <2>3. peer[s]
      BY <1>5, <2>2, Reading
    <2> QED  BY <2>1, <2>2, <2>3 DEF TypeOK
  <1>7. /\ tasks' \in [Sockets -> Seq(TaskType)]
        /\ \A u \in Sockets \ {s} : tasks'[u] = tasks[u]
        /\ IsInjective(tasks'[s])
        /\ Tasks(s)' = Tasks(s) \ {t}
    BY <1>1, <1>3, PostingNone
  <1>8. /\ new \in Message /\ new.conn = conn[s] /\ new.next = NULL
        /\ new.data = <<>>
    <2>1. /\ new \in Message /\ new.conn = conn[s] /\ new.next = NULL
          /\ new.data = SubSeq(d, Len(d) + 1, Len(d))
      BY <1>5, RestMessage
    <2>2. SubSeq(d, Len(d) + 1, Len(d)) = <<>>
      BY <1>5, RestFollows, EmptySeq
    <2> QED  BY <2>1, <2>2
  <1>9. /\ msgs' \in Seq(Message) /\ Plain' /\ DOMAIN msgs \subseteq DOMAIN msgs'
        /\ \A i \in DOMAIN msgs \ {m} : i \in DOMAIN msgs' /\ msgs'[i] = msgs[i]
        /\ Own(s) \subseteq Own(s)' /\ msgs'[m].data = d
        /\ r \in Own(s)' /\ r \notin DOMAIN msgs /\ msgs'[r] = new /\ r \in Nat
        /\ r # NULL
        /\ msgs'[m].length = Len(d) /\ msgs'[m].reqEnd = Len(d)
        /\ ~msgs'[m].close
    <2> DEFINE more == <<new>>
    <2>1. UNCHANGED <<setting, conn, freed>>
      BY DEF ReadLeaves
    <2> HIDE DEF new
    <2>2. more \in Seq(Message) /\ Len(more) = 1 /\ more[1] = new
      BY <1>8
    <2>3. msgs' = WithText(TheMsg(s), Text(s), ~peer[s]) \o more
      BY DEF new
    <2> HIDE DEF more
    <2>4. \A i \in 1 .. Len(more) :
            /\ more[i].conn = conn[s] /\ more[i].next = NULL
            /\ \A j \in DOMAIN more[i].data :
                 more[i].data[j][2] \in Says
      <3>1. \A i \in 1 .. Len(more) : more[i] = new
        BY <2>2
      <3>2. DOMAIN <<>> = {}
        OBVIOUS
      <3> QED  BY <1>8, <3>1, <3>2
    <2>5. /\ msgs' \in Seq(Message) /\ Plain'
          /\ DOMAIN msgs = 1 .. Len(msgs) /\ Len(msgs) \in Nat
          /\ Len(more) \in Nat
          /\ DOMAIN msgs' = 1 .. Len(msgs) + Len(more)
          /\ \A i \in DOMAIN msgs \ {TheMsg(s)} :
               i \in DOMAIN msgs' /\ msgs'[i] = msgs[i]
          /\ \A i \in 1 .. Len(more) :
               /\ msgs'[Len(msgs) + i] = more[i]
               /\ Len(msgs) + i \notin DOMAIN msgs
               /\ Len(msgs) + i \in DOMAIN msgs' /\ Len(msgs) + i \in Nat
               /\ Len(msgs) + i \in Own(s)'
          /\ Own(s) \subseteq Own(s)' /\ TheMsg(s) \in Own(s)
          /\ msgs'[TheMsg(s)].data = Text(s)
          /\ msgs'[TheMsg(s)].length = Len(Text(s))
          /\ msgs'[TheMsg(s)].reqEnd = FirstEnd(Text(s))
          /\ msgs'[TheMsg(s)].close = ~peer[s]
      BY <2>1, <2>2, <2>3, <2>4, ReadFrame
    <2>6. 1 \in 1 .. Len(more) /\ NULL \notin {Len(msgs) + 1}
      BY <2>2, <2>5 DEF NULL
    <2>7. ~msgs'[m].close
      BY <1>6, <2>5
    <2>8. DOMAIN msgs \subseteq DOMAIN msgs'
      BY <2>2, <2>5
    <2> QED  BY <1>5, <2>2, <2>5, <2>6, <2>7, <2>8
  <1>10. r # m
    BY <1>3, <1>9 DEF Own
  <1>11. /\ wire' \in [Sockets -> Seq(Chunk)] /\ wire'[s] = <<>>
         /\ queued' \in [Sockets -> BOOLEAN] /\ ~queued'[s]
         /\ \A u \in Sockets \ {s} : wire'[u] = wire[u] /\ queued'[u] = queued[u]
    BY ReadLeft
  <1>12. UNCHANGED <<setting, conn, accepted, decs, backlog, peer, asked, half,
                     got, files, freed, fault, treats>>
    BY DEF ReadLeaves
  <1>13. /\ cbs' \in [Sockets -> Seq(Nat)] /\ cbs'[s] = <<r>>
         /\ \A u \in Sockets \ {s} : cbs'[u] = cbs[u]
    BY <1>9 DEF TypeOK
  <1>14. Registered(s)' = r
    BY <1>13 DEF Registered
  <1>15. /\ pending' \in [Sockets -> Nat] /\ pending'[s] = m
         /\ \A u \in Sockets \ {s} : pending'[u] = pending[u]
    BY <1>3 DEF TypeOK
  <1> HIDE DEF t, m, d, r, new
  <1>16. TypeOK'
    BY <1>7, <1>9, <1>11, <1>12, <1>13, <1>15 DEF TypeOK, TaskType
  <1>17. Local(s) /\ fault' = "none"
    BY <1>3, <1>7, <1>9, <1>11, <1>12, <1>13, <1>15 DEF Local, WebInv
  <1>18. \A u \in Tasks(s)' : /\ u \in Tasks(s) /\ u # t /\ u.msg # m /\ Treats(u)
                              /\ msgs'[u.msg] = msgs[u.msg]
    <2>1. \A u \in Tasks(s) : u.msg \in DOMAIN msgs
      BY <1>1, OwnOnes
    <2> QED  BY <1>3, <1>4, <1>7, <1>9, <2>1
  <1>19. \A u \in Tasks(s)' : Number(u.msg)' = Number(u.msg)
    BY <1>18 DEF Number, Asked
  <1>20. OneEach(s)'
    <2>1. \A u \in Tasks(s)' : u.msg \in Own(s)' /\ u.msg # pending'[s]
                                 /\ u.msg # Registered(s)'
      <3>1. \A u \in Tasks(s) : u.msg \in Own(s) /\ u.msg \in DOMAIN msgs
        BY <1>1, OwnOnes
      <3> QED  BY <1>9, <1>14, <1>15, <1>18, <3>1
    <2>2. cbs'[s] = <<Registered(s)'>> /\ Registered(s)' \in Own(s)'
      BY <1>9, <1>13, <1>14
    <2>3. pending'[s] \in Own(s)' /\ pending'[s] # Registered(s)'
      BY <1>3, <1>9, <1>10, <1>14, <1>15
    <2>4. \A u, v \in Tasks(s)' : u # v => Class(u) # Class(v) /\ u.msg # v.msg
      BY <1>1, <1>18 DEF OneEach
    <2> QED  BY <1>3, <1>7, <1>12, <2>1, <2>2, <2>3, <2>4 DEF OneEach
  <1>21. Reads(s)'
    <2>1. \A u \in Tasks(s)' : u.handler \notin {"ReadRequest", "RegisterRead"}
      BY <1>18 DEF Treats, Treating
    <2>2. \A u \in Tasks(s)' : u.handler \notin {"FourOhFor", "BadRequest", "Close"}
      BY <1>4, <1>18 DEF Treats, Treating
    <2> QED  BY <1>11, <2>1, <2>2 DEF Reads
  <1>22. Pending(s)'
    <2>1. OneByOne' = OneByOne /\ NoError' = NoError
      BY <1>12 DEF OneByOne, NoError
    <2>2. \A u \in Tasks(s)' :
            /\ Treats(u) => treats'[s] = 1 /\ Ends(msgs'[u.msg].data) # {}
            /\ ~msgs'[u.msg].close
            /\ u.handler = "Close" => treats'[s] = 0 \/ ~peer'[s]
            /\ u.handler \in {"FourOhFor", "BadRequest"} => ~NoError'
      BY <1>1, <1>4, <1>12, <1>18, <2>1 DEF Pending
    <2>3. /\ treats'[s] = 1 /\ ~OneByOne' /\ ~msgs'[pending'[s]].close
          /\ Ends(msgs'[pending'[s]].data) = {Len(msgs'[pending'[s]].data)}
          /\ msgs'[pending'[s]].reqEnd = msgs'[pending'[s]].length
      BY <1>6, <1>9, <1>12, <1>15, <2>1 DEF d
    <2> QED  BY <2>2, <2>3 DEF Pending
  <1>23. Answered(s)' = Answered(s)
    <2>1. \A u : u.handler = "FreeRequest" => (u \in Tasks(s)' <=> u \in Tasks(s))
      BY <1>3, <1>7
    <2> QED  BY <1>12, <1>19, <2>1 DEF Answered
  <1>24. /\ Current(s)' = Current(s) /\ Taken(s)' = Current(s) + 1
         /\ Taken(s) = Current(s) /\ Current(s) \in Nat /\ asked[s] \in Nat
    BY <1>3, <1>6, <1>12, <1>15, <1>23, Bounds DEF Current, Taken
  <1>25. d[Len(d)][1] = Taken(s) + 1 /\ d[Len(d)][2] # "part"
    <2>1. Follows(d, Taken(s)) /\ Taken(s) \in Nat
      BY <1>1, <1>24 DEF Sent, d
    <2> QED  BY <1>5, <2>1, FirstNumber DEF Ends
  <1>26. asked[s] = Current(s) + 1 /\ ~half[s]
    BY <1>1, <1>5, <1>6, <1>24, <1>25 DEF Sent, UpTo, d
  <1>27. Number(pending[s])' = Current(s) + 1
    <2>1. msgs'[pending'[s]].data[FirstEnd(msgs'[pending'[s]].data)][1] = Current(s) + 1
      BY <1>5, <1>9, <1>15, <1>24, <1>25
    <2> QED  BY <2>1 DEF Number, Asked
  <1>28. Treated(s)'
    <2>1. \A u \in Tasks(s)' : Treats(u) =>
            /\ Number(u.msg)' = Current(s)'
            /\ u.handler = "FreeRequest" => Answered(s)' \/ ~peer'[s]
      BY <1>1, <1>12, <1>18, <1>19, <1>23, <1>24 DEF Treated
    <2>2. Taken(s)' <= asked'[s]
      BY <1>12, <1>24, <1>26
    <2> QED  BY <1>1, <1>12, <1>24, <1>27, <2>1, <2>2 DEF Treated
  <1>29. Sent(s)'
    <2>1. Held(s)' = <<>>
      BY <1>8, <1>9, <1>14 DEF Held
    <2>2. <<>> \o <<>> = <<>>
      BY EmptySeq, ConcatEmptySeq
    <2>3. Text(s)' = <<>> /\ Len(<<>>) = 0 /\ DOMAIN <<>> = {}
      BY <1>11, <2>1, <2>2, EmptySeq DEF Text
    <2>4. Follows(<<>>, Taken(s)')
      BY <2>3 DEF Follows
    <2>5. UpTo(<<>>, Taken(s)', asked'[s], half'[s])
      BY <1>12, <1>24, <1>26 DEF UpTo
    <2> QED  BY <2>3, <2>4, <2>5 DEF Sent
  <1>30. Behind(s)'
    <2>1. \A u \in Tasks(s)' : u.handler # "ReadRequest"
      BY <1>2, <1>18 DEF Treats
    <2> QED  BY <2>1 DEF Behind
  <1> QED  BY <1>9, <1>16, <1>17, <1>20, <1>21, <1>22, <1>28, <1>29, <1>30
           DEF Keeps, Socket

(* The client has gone behind a request. *)
LEMMA ParsesLast ==
  ASSUME TypeOK, WebInv, Careful, NEW s \in Sockets, Runs(s, "ReadRequest"),
         Ends(Text(s)) # {}, treats[s] = 0, ~peer[s], ReadLeaves(s),
         msgs' = WithText(TheMsg(s), Text(s), ~peer[s]),
         cbs' = [cbs EXCEPT ![s] = <<>>],
         pending' = [pending EXCEPT ![s] = NULL],
         treats' = [treats EXCEPT ![s] = 1],
         Posts(s, <<Task("ParseRequest", TheMsg(s))>>)
  PROVE  Keeps(s)
  <1> DEFINE more == <<>>
             k == 0
             n == Taken(s) + 1
             m == TheMsg(s)
             d == Text(s)
             c == ~peer[s]
  <1>1. Socket(s) /\ OneEach(s)
    BY DEF WebInv, Socket
  <1>2. d \in Seq(Chunk) /\ d # <<>> /\ Taken(s) \in Nat
    BY <1>1, TextType, FirstEndIn, Bounds
  <1>3. m \in DOMAIN msgs
    BY <1>1, AtHead DEF Handlers
  <1>4. n <= asked[s] /\ n \in Nat
    <2>1. Taken(s) + 1 <= asked[s]
      BY <1>2, Reading
    <2> QED  BY <1>2, <2>1
  <1>5. more \in Seq(Message) /\ Len(more) = 0
    BY EmptySeq
  <1>6. c \in BOOLEAN
    OBVIOUS
  <1> HIDE DEF c
  <1>7. WithText(m, d, c) \in Seq(Message)
    BY <1>2, <1>3, <1>5, <1>6, TextRead
  <1>8. msgs' = WithText(TheMsg(s), Text(s), ~peer[s]) \o more
    BY <1>7, ConcatEmptySeq DEF c
  <1> HIDE DEF more, n
  <1>9. k \in {0, 1, 2} /\ Len(more) = k /\ (k = 0 <=> ~peer[s]) /\ k # 2
    BY <1>5
  <1>10. cbs' = [cbs EXCEPT ![s] = IF k = 0 THEN <<>> ELSE <<Len(msgs) + k>>]
    OBVIOUS
  <1>11. pending' = [pending EXCEPT ![s] = IF k = 2 THEN Len(msgs) + 1 ELSE NULL]
    OBVIOUS
  <1>12. n = Taken(s) + (IF k = 2 THEN 2 ELSE 1)
    BY DEF n
  <1>13. \A i \in 1 .. k :
           /\ more[i].conn = conn[s] /\ more[i].next = NULL
           /\ \A j \in DOMAIN more[i].data :
                more[i].data[j][2] \in Says
    OBVIOUS
  <1>14. k # 0 => /\ Follows(more[k].data, n)
                  /\ UpTo(more[k].data, n, asked[s], half[s])
                  /\ \A j \in DOMAIN more[k].data : more[k].data[j][1] <= asked[s]
    OBVIOUS
  <1> HIDE DEF k
  <1> QED
    BY <1>4, <1>5, <1>8, <1>9, <1>10, <1>11, <1>12, <1>13, <1>14, ReadParses

(* There is one request, and perhaps the beginning of the next one.        *)
LEMMA ParsesOne ==
  ASSUME TypeOK, WebInv, Careful, NEW s \in Sockets, Runs(s, "ReadRequest"),
         NEW e \in Nat, Ends(Text(s)) = {e}, treats[s] = 0, peer[s],
         ReadLeaves(s),
         msgs' = WithText(TheMsg(s), Text(s), ~peer[s])
                   \o <<Rest(NewMsg(s), Text(s), e)>>,
         cbs' = [cbs EXCEPT ![s] = <<Len(msgs) + 1>>],
         pending' = [pending EXCEPT ![s] = NULL],
         treats' = [treats EXCEPT ![s] = 1],
         Posts(s, <<Task("ParseRequest", TheMsg(s))>>)
  PROVE  Keeps(s)
  <1> DEFINE d == Text(s)
             r == SubSeq(d, e + 1, Len(d))
             new == Rest(NewMsg(s), d, e)
             more == <<new>>
             k == 1
             n == Taken(s) + 1
  <1>1. Socket(s) /\ OneEach(s) /\ Sent(s)
    BY DEF WebInv, Socket
  <1>2. /\ d \in Seq(Chunk) /\ d # <<>> /\ Taken(s) \in Nat /\ Len(d) \in Nat
        /\ DOMAIN d = 1 .. Len(d) /\ asked[s] \in Nat
    BY <1>1, TextType, FirstEndIn, Bounds
  <1>3. n <= asked[s] /\ n \in Nat
    <2>1. Taken(s) + 1 <= asked[s]
      BY <1>2, Reading
    <2> QED  BY <1>2, <2>1
  <1>4. /\ Follows(d, Taken(s)) /\ UpTo(d, Taken(s), asked[s], half[s])
        /\ \A i \in 1 .. Len(d) :
             d[i][1] <= asked[s] /\ d[i][2] \in Says
    BY <1>1, <1>2 DEF Sent
  <1>5. /\ e \in Ends(d) /\ FirstEnd(d) = e /\ d[e][1] = n /\ e \in 1 .. Len(d)
        /\ d[e][2] # "part"
    <2>1. FirstEnd(d) \in Ends(d) /\ Ends(d) \subseteq 1 .. Len(d)
      BY <1>2, FirstEndIn
    <2>2. d[FirstEnd(d)][1] = Taken(s) + 1
      BY <1>2, <1>4, FirstNumber
    <2> QED  BY <2>1, <2>2 DEF Ends
  <1> HIDE DEF n
  <1>6. /\ r \in Seq(Chunk) /\ Follows(r, n) /\ Len(r) = Len(d) - e
        /\ \A i \in 1 .. Len(d) - e : r[i] = d[e + i]
    BY <1>2, <1>3, <1>4, <1>5, RestFollows
  <1>7. /\ new \in Message /\ new.conn = conn[s] /\ new.next = NULL
        /\ new.data = r
    BY <1>2, <1>5, RestMessage
  <1> HIDE DEF d, r, new
  <1>8. DOMAIN r = 1 .. Len(d) - e
    BY <1>6, LenProperties
  <1>9. \A i \in DOMAIN r : /\ r[i][1] <= asked[s]
                            /\ r[i][2] \in Says
    <2> TAKE i \in DOMAIN r
    <2>1. r[i] = d[e + i] /\ e + i \in 1 .. Len(d)
      BY <1>2, <1>5, <1>6, <1>8
    <2> QED  BY <1>4, <2>1
  <1>10. UpTo(r, n, asked[s], half[s])
    <2>1. CASE e = Len(d)
      <3>1. Len(r) = 0
        BY <1>2, <1>6, <2>1
      <3>2. r = <<>>
        BY <1>6, <3>1, EmptySeq
      <3>3. n = asked[s] /\ ~half[s]
        BY <1>2, <1>4, <1>5, <2>1 DEF UpTo
      <3> QED  BY <3>2, <3>3 DEF UpTo
    <2>2. CASE e # Len(d)
      <3>1. Len(d) - e \in 1 .. Len(d) - e /\ e + (Len(d) - e) = Len(d)
        <4>1. Len(d) \in Nat
          BY <1>2
        <4>2. e \in 1 .. Len(d)
          BY <1>5
        <4>3. 1 <= e /\ e < Len(d)
          BY <2>2, <4>1, <4>2
        <4> QED  BY <4>1, <4>3
      <3>2. r # <<>> /\ r[Len(r)] = d[Len(d)]
        BY <1>6, <1>8, <3>1, SMTT(40)
      <3> QED  BY <1>2, <1>4, <3>2 DEF UpTo
    <2> QED  BY <2>1, <2>2
  <1>11. more \in Seq(Message) /\ Len(more) = 1 /\ more[1] = new
    BY <1>7
  <1>12. msgs' = WithText(TheMsg(s), Text(s), ~peer[s]) \o more
    BY DEF new, d
  <1> HIDE DEF more
  <1>13. k \in {0, 1, 2} /\ Len(more) = k /\ (k = 0 <=> ~peer[s]) /\ k # 2
    BY <1>11
  <1>14. cbs' = [cbs EXCEPT ![s] = IF k = 0 THEN <<>> ELSE <<Len(msgs) + k>>]
    OBVIOUS
  <1>15. pending' = [pending EXCEPT ![s] = IF k = 2 THEN Len(msgs) + 1 ELSE NULL]
    OBVIOUS
  <1>16. n = Taken(s) + (IF k = 2 THEN 2 ELSE 1)
    BY DEF n
  <1>17. \A i \in 1 .. k :
           /\ more[i].conn = conn[s] /\ more[i].next = NULL
           /\ \A j \in DOMAIN more[i].data :
                more[i].data[j][2] \in Says
    BY <1>7, <1>9, <1>11
  <1>18. k # 0 => /\ Follows(more[k].data, n)
                  /\ UpTo(more[k].data, n, asked[s], half[s])
                  /\ \A j \in DOMAIN more[k].data : more[k].data[j][1] <= asked[s]
    BY <1>6, <1>7, <1>9, <1>10, <1>11
  <1> HIDE DEF k
  <1> QED
    BY <1>3, <1>11, <1>12, <1>13, <1>14, <1>15, <1>16, <1>17, <1>18, ReadParses

(* The message of the second request in a text. *)
LEMMA SecondMessage ==
  ASSUME TypeOK, NEW s \in Sockets, NEW d \in Seq(Chunk), NEW e \in 1 .. Len(d)
  PROVE  LET r == Second(NewMsg(s), d, e)
         IN /\ r \in Message /\ r.conn = conn[s] /\ r.next = NULL
            /\ r.data = SubSeq(d, e + 1, Len(d)) /\ r.close = FALSE
            /\ r.reqEnd = Len(d) - e /\ r.length = Len(d) - e
  <1> DEFINE q == SubSeq(d, e + 1, Len(d))
             l == Len(d) - e
             z == <<>>
             f == FALSE
  <1>1. Len(d) \in Nat /\ l \in Nat
    BY LenProperties
  <1>2. q \in Seq(Chunk)
    <2>1. \A i \in e + 1 .. Len(d) : d[i] \in Chunk
      BY <1>1, ElementOfSeq
    <2> QED  BY <1>1, <2>1, SubSeqProperties
  <1>3. conn[s] \in Nat /\ NULL \in Nat /\ f \in BOOLEAN
    BY DEF TypeOK, NULL
  <1> DEFINE n == [conn |-> conn[s], data |-> z, length |-> 0, reqEnd |-> 0,
                   close |-> f, next |-> NULL]
             n1 == [n EXCEPT !.data = q]
             n2 == [n1 EXCEPT !.length = l]
             n3 == [n2 EXCEPT !.reqEnd = l]
  <1>4. Second(NewMsg(s), d, e) = [n3 EXCEPT !.next = NULL]
    BY DEF Second, NewMsg
  <1> HIDE DEF z, f, q, l
  <1>5. n1 = [conn |-> conn[s], data |-> q, length |-> 0, reqEnd |-> 0,
              close |-> f, next |-> NULL]
    OBVIOUS
  <1> HIDE DEF n1
  <1>6. n2 = [conn |-> conn[s], data |-> q, length |-> l, reqEnd |-> 0,
              close |-> f, next |-> NULL]
    BY <1>5
  <1> HIDE DEF n2
  <1>7. n3 = [conn |-> conn[s], data |-> q, length |-> l, reqEnd |-> l,
              close |-> f, next |-> NULL]
    BY <1>6
  <1> HIDE DEF n3
  <1>8. Second(NewMsg(s), d, e) =
          [conn |-> conn[s], data |-> q, length |-> l, reqEnd |-> l,
           close |-> f, next |-> NULL]
    BY <1>4, <1>7
  <1> DEFINE r == Second(NewMsg(s), d, e)
  <1>9. r \in Message
    BY <1>1, <1>2, <1>3, <1>8 DEF Message
  <1>10. /\ r.conn = conn[s] /\ r.next = NULL /\ r.data = q /\ r.close = f
         /\ r.reqEnd = l /\ r.length = l
    BY <1>8
  <1> QED  BY <1>9, <1>10 DEF q, l, f

(* There are two requests, so that nothing is behind them. *)
LEMMA ParsesTwo ==
  ASSUME TypeOK, WebInv, Careful, NEW s \in Sockets, Runs(s, "ReadRequest"),
         ~OneByOne, treats[s] = 0, peer[s], NEW e \in 1 .. Len(Text(s)) - 1,
         FirstEnd(Text(s)) = e, Ends(Text(s)) = {e, Len(Text(s))}, ReadLeaves(s),
         msgs' = WithText(TheMsg(s), Text(s), ~peer[s])
                   \o <<Second(NewMsg(s), Text(s), e),
                        Rest(NewMsg(s), Text(s), Len(Text(s)))>>,
         cbs' = [cbs EXCEPT ![s] = <<Len(msgs) + 2>>],
         pending' = [pending EXCEPT ![s] = Len(msgs) + 1],
         treats' = [treats EXCEPT ![s] = 1],
         Posts(s, <<Task("ParseRequest", TheMsg(s))>>)
  PROVE  Keeps(s)
  <1> DEFINE d == Text(s)
             r == SubSeq(d, e + 1, Len(d))
             one == Second(NewMsg(s), d, e)
             two == Rest(NewMsg(s), d, Len(d))
             more == <<one, two>>
             k == 2
             n == Taken(s) + 2
  <1>1. Socket(s) /\ OneEach(s) /\ Sent(s)
    BY DEF WebInv, Socket
  <1>2. /\ d \in Seq(Chunk) /\ d # <<>> /\ Taken(s) \in Nat /\ Len(d) \in Nat
        /\ DOMAIN d = 1 .. Len(d) /\ asked[s] \in Nat
    BY <1>1, TextType, FirstEndIn, Bounds
  <1>3. n \in Nat
    BY <1>2
  <1>25. e \in Int /\ Len(d) \in Int /\ 1 <= e /\ e < Len(d) /\ e # Len(d)
    <2> DEFINE l == Len(d)
    <2>1. l \in Nat
      BY <1>2
    <2>2. e \in 1 .. l - 1
      OBVIOUS
    <2> HIDE DEF l
    <2>3. e \in Int /\ l \in Int /\ 1 <= e /\ e < l /\ e # l
      BY <2>1, <2>2
    <2> QED  BY <2>3 DEF l
  <1>26. e \in 1 .. Len(d) /\ Len(d) \in 1 .. Len(d)
    BY <1>25
  <1>4. /\ Follows(d, Taken(s)) /\ UpTo(d, Taken(s), asked[s], half[s])
        /\ \A i \in 1 .. Len(d) :
             d[i][1] <= asked[s] /\ d[i][2] \in Says
    BY <1>1, <1>2 DEF Sent
  <1>5. /\ e \in Ends(d) /\ d[e][1] = Taken(s) + 1 /\ e \in 1 .. Len(d)
        /\ Len(d) \in Ends(d) /\ e # Len(d) /\ d[Len(d)][2] # "part"
    <2>1. d[FirstEnd(d)][1] = Taken(s) + 1
      BY <1>2, <1>4, FirstNumber
    <2>2. e \in Ends(d) /\ Len(d) \in Ends(d)
      OBVIOUS
    <2>3. d[Len(d)][2] # "part"
      BY <2>2 DEF Ends
    <2> QED  BY <1>25, <1>26, <2>1, <2>2, <2>3
  <1>6. \A i \in 1 .. Len(d) : d[i][1] <= Taken(s) + 2
    BY <1>2, Reading
  <1>7. Taken(s) + 1 \in Nat
    BY <1>2
  <1>8. /\ r \in Seq(Chunk) /\ Follows(r, Taken(s) + 1) /\ Len(r) = Len(d) - e
        /\ \A i \in 1 .. Len(d) - e : r[i] = d[e + i]
    BY <1>2, <1>4, <1>5, <1>7, RestFollows
  <1>9. /\ one \in Message /\ one.conn = conn[s] /\ one.next = NULL
        /\ one.data = r /\ ~one.close /\ one.reqEnd = one.length
    <2>1. /\ one \in Message /\ one.conn = conn[s] /\ one.next = NULL
          /\ one.data = SubSeq(d, e + 1, Len(d)) /\ one.close = FALSE
          /\ one.reqEnd = Len(d) - e /\ one.length = Len(d) - e
      BY <1>2, <1>26, SecondMessage
    <2> HIDE DEF one
    <2> QED  BY <2>1
  <1>10. /\ two \in Message /\ two.conn = conn[s] /\ two.next = NULL
         /\ two.data = <<>>
    <2>1. /\ two \in Message /\ two.conn = conn[s] /\ two.next = NULL
          /\ two.data = SubSeq(d, Len(d) + 1, Len(d))
      BY <1>2, <1>5, RestMessage
    <2>2. d[Len(d)][1] \in Nat
      BY <1>1, <1>26, TextType
    <2>3. Len(d) - Len(d) = 0
      BY <1>2
    <2>4. SubSeq(d, Len(d) + 1, Len(d)) = <<>>
      <3>1. /\ SubSeq(d, Len(d) + 1, Len(d)) \in Seq(Chunk)
            /\ Len(SubSeq(d, Len(d) + 1, Len(d))) = Len(d) - Len(d)
        BY <1>2, <1>4, <1>5, <2>2, RestFollows
      <3> QED  BY <2>3, <3>1, EmptySeq
    <2> QED  BY <2>1, <2>4
  <1> HIDE DEF d, r, one, two
  <1>11. DOMAIN r = 1 .. Len(r) /\ Len(r) \in 1 .. Len(r)
    <2>1. Len(d) - e \in 1 .. Len(d) - e
      BY <1>25
    <2> QED  BY <1>8, <2>1, LenProperties
  <1>12. \A i \in DOMAIN r : /\ r[i][1] <= (Taken(s) + 1) + 1
                             /\ r[i][2] \in Says
    <2> TAKE i \in DOMAIN r
    <2>1. r[i] = d[e + i] /\ e + i \in 1 .. Len(d)
      <3>1. i \in 1 .. Len(d) - e
        BY <1>8, <1>11
      <3>2. e + i \in 1 .. Len(d)
        BY <1>25, <3>1
      <3> QED  BY <1>8, <3>1, <3>2
    <2>2. (Taken(s) + 1) + 1 = Taken(s) + 2
      BY <1>2
    <2> QED  BY <1>4, <1>6, <2>1, <2>2
  <1>13. r[Len(r)] = d[Len(d)]
    <2>1. e + (Len(d) - e) = Len(d) /\ Len(d) - e \in 1 .. Len(d) - e
      BY <1>25
    <2>2. r[Len(d) - e] = d[e + (Len(d) - e)]
      BY <1>8, <2>1
    <2> QED  BY <1>8, <2>1, <2>2
  <1>14. Ends(r) = {Len(r)} /\ FirstEnd(r) = Len(r) /\ r[Len(r)][1] = n
    <2>1. Ends(r) \subseteq {Len(r)}
      BY <1>7, <1>8, <1>12, OneRequest
    <2>2. Len(r) \in Ends(r)
      BY <1>5, <1>11, <1>13 DEF Ends
    <2>3. FirstEnd(r) \in Ends(r) /\ r[FirstEnd(r)][1] = (Taken(s) + 1) + 1
      BY <1>7, <1>8, <2>2, FirstEndIn, FirstNumber
    <2>4. (Taken(s) + 1) + 1 = n
      BY <1>2
    <2> QED  BY <2>1, <2>2, <2>3, <2>4
  <1> HIDE DEF n
  <1>15. n <= asked[s] /\ n = asked[s] /\ ~half[s]
    <2>1. n = asked[s] /\ ~half[s]
      BY <1>2, <1>4, <1>5, <1>13, <1>14 DEF UpTo
    <2> QED  BY <1>3, <2>1
  <1>16. /\ more \in Seq(Message) /\ Len(more) = 2 /\ more[1] = one
         /\ more[2] = two
    BY <1>9, <1>10
  <1>17. msgs' = WithText(TheMsg(s), Text(s), ~peer[s]) \o more
    BY DEF one, two, d
  <1> HIDE DEF more
  <1>18. k \in {0, 1, 2} /\ Len(more) = k /\ (k = 0 <=> ~peer[s])
    BY <1>16
  <1>19. cbs' = [cbs EXCEPT ![s] = IF k = 0 THEN <<>> ELSE <<Len(msgs) + k>>]
    OBVIOUS
  <1>20. pending' = [pending EXCEPT ![s] = IF k = 2 THEN Len(msgs) + 1 ELSE NULL]
    OBVIOUS
  <1>21. n = Taken(s) + (IF k = 2 THEN 2 ELSE 1)
    BY DEF n
  <1>22. \A i \in 1 .. k :
           /\ more[i].conn = conn[s] /\ more[i].next = NULL
           /\ \A j \in DOMAIN more[i].data :
                more[i].data[j][2] \in Says
    <2> TAKE i \in 1 .. k
    <2>1. more[i] = one \/ more[i] = two
      <3>1. i = 1 \/ i = 2
        OBVIOUS
      <3> QED  BY <1>16, <3>1
    <2>2. DOMAIN <<>> = {}
      OBVIOUS
    <2> QED  BY <1>9, <1>10, <1>12, <2>1, <2>2
  <1>23. k # 0 => /\ Follows(more[k].data, n)
                  /\ UpTo(more[k].data, n, asked[s], half[s])
                  /\ \A j \in DOMAIN more[k].data : more[k].data[j][1] <= asked[s]
    <2>1. more[k].data = <<>> /\ DOMAIN <<>> = {} /\ Len(<<>>) = 0
      BY <1>10, <1>16
    <2>2. Follows(<<>>, n)
      BY <2>1 DEF Follows
    <2>3. UpTo(<<>>, n, asked[s], half[s])
      BY <1>15 DEF UpTo
    <2> QED  BY <2>1, <2>2, <2>3
  <1>24. k = 2 => /\ ~OneByOne /\ ~more[1].close
                  /\ Ends(more[1].data) = {Len(more[1].data)}
                  /\ more[1].reqEnd = more[1].length
                  /\ more[1].data[FirstEnd(more[1].data)][1] = n
    BY <1>9, <1>14, <1>16
  <1> HIDE DEF k
  <1>27. Ends(Text(s)) # {}
    BY <1>26
  <1>28. n <= asked[s] /\ n \in Nat /\ more \in Seq(Message)
    BY <1>3, <1>15, <1>16
  <1> QED
    BY <1>27, <1>28, <1>3, <1>15, <1>16, <1>17, <1>18, <1>19, <1>20, <1>21, <1>22, <1>23, <1>24,
       ReadParses, ZenonT(60)

(* The label success, with and without another request in treatment.       *)
LEMMA SuccessAlone ==
  ASSUME TypeOK, NEW s \in Sockets, NEW m, NEW ms, NEW out, treats[s] = 0,
         pending[s] = NULL, Success(s, m, ms, out)
  PROVE  /\ fault' = fault /\ msgs' = ms
         /\ treats' = [treats EXCEPT ![s] = 1]
         /\ pending' = [pending EXCEPT ![s] = out]
         /\ Posts(s, <<Task("ParseRequest", m)>>)
  BY DEF Success, LinkLast, TypeOK, NULL

(* Behind a request in treatment, the message becomes the pending list.    *)
LEMMA SuccessBehind ==
  ASSUME TypeOK, NEW s \in Sockets, NEW m, NEW ms, treats[s] # 0, m # NULL,
         pending[s] = NULL, Success(s, m, ms, NULL)
  PROVE  /\ fault' = fault /\ msgs' = ms /\ treats' = treats
         /\ pending' = [pending EXCEPT ![s] = m] /\ Posts(s, <<>>)
  BY DEF Success, LinkLast, TypeOK

(* What ReadRequest comes to: nothing was there to read, the text is the   *)
(* beginning of a request, the client has gone behind its last request, a  *)
(* request waits for the one in treatment, one request was read, or two.   *)
ReadNothing(s) ==
  /\ Text(s) = <<>> /\ ReadError(s, TheMsg(s)) /\ StopReading(s)
  /\ wire' = [wire EXCEPT ![s] = <<>>] /\ queued' = [queued EXCEPT ![s] = FALSE]
  /\ UNCHANGED <<setting, conn, accepted, decs, backlog, peer, asked, half, got,
                 files>>

ReadBeginning(s) ==
  /\ Text(s) # <<>> /\ Ends(Text(s)) = {} /\ ReadLeaves(s)
  /\ msgs' = WithText(TheMsg(s), Text(s), ~peer[s])
  /\ IF peer[s] THEN cbs' = cbs ELSE StopReading(s)
  /\ Posts(s, <<>>) /\ UNCHANGED <<pending, treats>>

(* The request of the message of s is treated. *)
ReadTreated(s) ==
  /\ Ends(Text(s)) # {} /\ treats[s] = 0 /\ pending[s] = NULL /\ ReadLeaves(s)
  /\ treats' = [treats EXCEPT ![s] = 1]
  /\ Posts(s, <<Task("ParseRequest", TheMsg(s))>>)

ReadLast(s) ==
  /\ ReadTreated(s) /\ ~peer[s]
  /\ msgs' = WithText(TheMsg(s), Text(s), ~peer[s])
  /\ cbs' = [cbs EXCEPT ![s] = <<>>] /\ pending' = [pending EXCEPT ![s] = NULL]

ReadBehind(s) ==
  /\ Ends(Text(s)) = {Len(Text(s))} /\ treats[s] # 0 /\ pending[s] = NULL
  /\ \A i \in DOMAIN Text(s) : Text(s)[i][1] <= Taken(s) + 1
  /\ msgs' = WithText(TheMsg(s), Text(s), ~peer[s])
               \o <<Rest(NewMsg(s), Text(s), Len(Text(s)))>>
  /\ cbs' = [cbs EXCEPT ![s] = <<Len(msgs) + 1>>]
  /\ pending' = [pending EXCEPT ![s] = TheMsg(s)] /\ treats' = treats
  /\ Posts(s, <<>>) /\ ReadLeaves(s)

ReadOne(s) ==
  /\ ReadTreated(s) /\ peer[s]
  /\ \E e \in Nat :
       /\ Ends(Text(s)) = {e}
       /\ msgs' = WithText(TheMsg(s), Text(s), ~peer[s])
                    \o <<Rest(NewMsg(s), Text(s), e)>>
  /\ cbs' = [cbs EXCEPT ![s] = <<Len(msgs) + 1>>]
  /\ pending' = [pending EXCEPT ![s] = NULL]

ReadTwo(s) ==
  /\ ReadTreated(s) /\ peer[s] /\ ~OneByOne
  /\ \E e \in 1 .. Len(Text(s)) - 1 :
       /\ FirstEnd(Text(s)) = e /\ Ends(Text(s)) = {e, Len(Text(s))}
       /\ msgs' = WithText(TheMsg(s), Text(s), ~peer[s])
                    \o <<Second(NewMsg(s), Text(s), e),
                         Rest(NewMsg(s), Text(s), Len(Text(s)))>>
  /\ cbs' = [cbs EXCEPT ![s] = <<Len(msgs) + 2>>]
  /\ pending' = [pending EXCEPT ![s] = Len(msgs) + 1]

(* ReadRequest comes to one of the six. *)
LEMMA ReadComesTo ==
  ASSUME TypeOK, WebInv, Careful, NEW s \in Sockets, ReadRequest(s),
         UNCHANGED setting
  PROVE  \/ ReadNothing(s) \/ ReadBeginning(s) \/ ReadLast(s) \/ ReadBehind(s)
         \/ ReadOne(s) \/ ReadTwo(s)
  <1> DEFINE m == TheMsg(s)
             d == msgs[m].data \o wire[s]
             eof == ~peer[s]
             ms == [msgs EXCEPT ![m].data = d, ![m].length = Len(d),
                                ![m].reqEnd = FirstEnd(d), ![m].close = eof]
             more == Following(NewMsg(s), d)
             out == IF Len(more) > 1 THEN Len(msgs) + 1 ELSE NULL
  <1>1. Runs(s, "ReadRequest")
    BY DEF ReadRequest
  <1>2. Socket(s) /\ OneEach(s) /\ Sent(s)
    BY DEF WebInv, Socket
  <1>3. m # NULL /\ tasks[s] # <<>>
    BY <1>1, <1>2, AtHead DEF Handlers
  <1>4. /\ m = Registered(s) /\ cbs[s] = <<m>> /\ d = Text(s)
        /\ Len(d) < setting.maxLength
    BY <1>1, Reading
  <1>5. /\ d \in Seq(Chunk) /\ Len(d) \in Nat /\ DOMAIN d = 1 .. Len(d)
        /\ Taken(s) \in Nat /\ Follows(d, Taken(s))
    BY <1>2, <1>4, TextType, Bounds DEF Sent
  <1>6. setting.maxLength \in Nat
    BY Bounds
  <1>7. ~(Len(d) >= setting.maxLength)
    BY <1>4, <1>5, <1>6
  <1>8. /\ wire' = [wire EXCEPT ![s] = <<>>]
        /\ queued' = [queued EXCEPT ![s] = FALSE]
        /\ UNCHANGED <<setting, conn, accepted, decs, backlog, peer, asked, half,
                       got, files>>
    BY DEF ReadRequest
  <1>9. ms = WithText(TheMsg(s), Text(s), ~peer[s])
    BY <1>4 DEF WithText
  <1>10. CASE d = <<>>
    <2>1. ReadError(s, m) /\ StopReading(s)
      BY <1>4, <1>7, <1>10 DEF ReadRequest
    <2> QED  BY <1>4, <1>8, <1>10, <2>1 DEF ReadNothing
  <1>11. CASE d # <<>> /\ Ends(d) = {}
    <2>1. /\ msgs' = ms /\ Posts(s, <<>>)
          /\ IF eof THEN StopReading(s) ELSE UNCHANGED cbs
          /\ UNCHANGED <<freed, listVars, fault>>
      BY <1>4, <1>7, <1>11 DEF ReadRequest
    <2>2. ReadLeaves(s) /\ UNCHANGED <<pending, treats>>
      BY <1>8, <2>1 DEF ReadLeaves, listVars
    <2>3. IF peer[s] THEN cbs' = cbs ELSE StopReading(s)
      BY <2>1
    <2> QED  BY <1>4, <1>9, <1>11, <2>1, <2>2, <2>3 DEF ReadBeginning
  <1>12. CASE d # <<>> /\ Ends(d) # {} /\ ~peer[s]
    <2>1. Success(s, m, ms, NULL) /\ StopReading(s) /\ UNCHANGED freed
      BY <1>4, <1>7, <1>12 DEF ReadRequest
    <2>2. pending[s] = NULL /\ treats[s] = 0
      <3>1. OneByOne
        BY <1>1, <1>4, <1>12, Reading
      <3>2. treats[s] # 0 => ~OneByOne
        BY <1>1, <1>4, <1>12, Reading
      <3>3. pending[s] = NULL
        BY <1>1, <1>4, <1>12, Reading
      <3> QED  BY <3>1, <3>2, <3>3
    <2>3. /\ fault' = fault /\ msgs' = ms
          /\ treats' = [treats EXCEPT ![s] = 1]
          /\ pending' = [pending EXCEPT ![s] = NULL]
          /\ Posts(s, <<Task("ParseRequest", m)>>)
      <3> HIDE DEF m, ms
      <3> QED  BY <2>1, <2>2, SuccessAlone
    <2>4. ReadLeaves(s)
      BY <1>8, <2>1, <2>3 DEF ReadLeaves
    <2>5. cbs' = [cbs EXCEPT ![s] = <<>>]
      BY <2>1 DEF StopReading
    <2> QED
      BY <1>4, <1>9, <1>12, <2>2, <2>3, <2>4, <2>5 DEF ReadLast, ReadTreated
  <1>13. CASE d # <<>> /\ Ends(d) # {} /\ peer[s]
    <2>1. /\ Success(s, m, ms \o more, out)
          /\ cbs' = [cbs EXCEPT ![s] = Append(Tail(cbs[s]), Len(msgs) + Len(more))]
          /\ UNCHANGED freed
      BY <1>4, <1>7, <1>13 DEF ReadRequest
    <2>2. pending[s] = NULL
      BY <1>1, <1>4, <1>13, Reading
    <2>3. cbs' = [cbs EXCEPT ![s] = <<Len(msgs) + Len(more)>>]
      <3>1. Append(Tail(cbs[s]), Len(msgs) + Len(more)) = <<Len(msgs) + Len(more)>>
        <4> DEFINE x == Len(msgs) + Len(more)
        <4> HIDE DEF x
        <4>1. Append(Tail(cbs[s]), x) = <<x>>
          BY <1>4
        <4> QED  BY <4>1 DEF x
      <3> QED  BY <2>1, <3>1
    <2>4. OneByOne \/ treats[s] # 0 => \A i \in DOMAIN d : d[i][1] <= Taken(s) + 1
      BY <1>1, <1>4, <1>13, Reading
    <2>5. /\ FirstEnd(d) \in Ends(d) /\ Ends(d) \subseteq 1 .. Len(d)
          /\ \A i \in Ends(d) : FirstEnd(d) <= i
      BY <1>5, <1>13, FirstEndIn
    <2>6. treats[s] # 0 => ~OneByOne
      BY <1>1, <1>4, <1>13, Reading
    <2> HIDE DEF m, d, ms
    <2>7. CASE treats[s] # 0
      <3>1. Ends(d) = {Len(d)}
        BY <1>5, <1>13, <2>4, <2>7, OneRequest
      <3>2. more = <<Rest(NewMsg(s), d, Len(d))>>
        BY <1>5, <3>1, FollowingOne
      <3> DEFINE new == Rest(NewMsg(s), d, Len(d))
      <3> HIDE DEF new, more
      <3>3. Len(more) = 1 /\ out = NULL
        BY <3>2 DEF new
      <3>4. /\ fault' = fault /\ msgs' = ms \o more /\ treats' = treats
            /\ pending' = [pending EXCEPT ![s] = m] /\ Posts(s, <<>>)
        BY <1>3, <2>1, <2>2, <2>7, <3>3, SuccessBehind
      <3>5. ReadLeaves(s)
        BY <1>8, <2>1, <3>4 DEF ReadLeaves
      <3>6. \A i \in DOMAIN Text(s) : Text(s)[i][1] <= Taken(s) + 1
        BY <1>4, <2>4, <2>7
      <3>7. msgs' = WithText(TheMsg(s), Text(s), ~peer[s])
                      \o <<Rest(NewMsg(s), Text(s), Len(Text(s)))>>
        BY <1>4, <1>9, <3>2, <3>4
      <3>8. /\ cbs' = [cbs EXCEPT ![s] = <<Len(msgs) + 1>>]
            /\ pending' = [pending EXCEPT ![s] = TheMsg(s)]
        BY <2>3, <3>3, <3>4 DEF m
      <3>9. Ends(Text(s)) = {Len(Text(s))}
        BY <1>4, <3>1
      <3> QED  BY <2>2, <2>7, <3>4, <3>5, <3>6, <3>7, <3>8, <3>9 DEF ReadBehind
    <2>8. CASE treats[s] = 0 /\ Ends(d) = {FirstEnd(d)}
      <3> DEFINE e == FirstEnd(d)
      <3>1. e \in Nat
        BY <2>5
      <3> HIDE DEF e
      <3>2. more = <<Rest(NewMsg(s), d, e)>>
        BY <1>5, <2>8, <3>1, FollowingOne DEF e
      <3> DEFINE new == Rest(NewMsg(s), d, e)
      <3> HIDE DEF new, more
      <3>3. Len(more) = 1 /\ out = NULL
        BY <3>2 DEF new
      <3>4. /\ fault' = fault /\ msgs' = ms \o more
            /\ treats' = [treats EXCEPT ![s] = 1]
            /\ pending' = [pending EXCEPT ![s] = NULL]
            /\ Posts(s, <<Task("ParseRequest", m)>>)
        BY <2>1, <2>2, <2>8, <3>3, SuccessAlone
      <3>5. ReadLeaves(s)
        BY <1>8, <2>1, <3>4 DEF ReadLeaves
      <3>6. msgs' = WithText(TheMsg(s), Text(s), ~peer[s])
                      \o <<Rest(NewMsg(s), Text(s), e)>>
        BY <1>4, <1>9, <3>2, <3>4
      <3>7. cbs' = [cbs EXCEPT ![s] = <<Len(msgs) + 1>>]
        BY <2>3, <3>3
      <3>8. Ends(Text(s)) = {e}
        BY <1>4, <2>8 DEF e
      <3>9. Posts(s, <<Task("ParseRequest", TheMsg(s))>>)
        BY <3>4 DEF m
      <3>10. ReadTreated(s)
        BY <2>2, <2>8, <3>4, <3>5, <3>8, <3>9 DEF ReadTreated
      <3> QED
        BY <1>13, <3>1, <3>4, <3>6, <3>7, <3>8, <3>10 DEF ReadOne
    <2>9. CASE treats[s] = 0 /\ Ends(d) # {FirstEnd(d)}
      <3> DEFINE e == FirstEnd(d)
      <3>1. ~OneByOne
        <4> SUFFICES ASSUME OneByOne PROVE FALSE
          OBVIOUS
        <4>1. Ends(d) \subseteq {Len(d)}
          BY <1>5, <2>4, OneRequest
        <4> QED  BY <2>5, <2>9, <4>1
      <3>2. \A i \in DOMAIN d : d[i][1] <= Taken(s) + 2
        BY <1>1, <1>4, <3>1, Reading
      <3>3. Ends(d) \subseteq {e, Len(d)}
        BY <1>5, <3>2, TwoRequests
      <3>4. Ends(d) = {e, Len(d)} /\ e # Len(d)
        BY <2>5, <2>9, <3>3
      <3>5. e \in 1 .. Len(d) - 1
        BY <1>5, <2>5, <3>4
      <3> HIDE DEF e
      <3>6. more = <<Second(NewMsg(s), d, e), Rest(NewMsg(s), d, Len(d))>>
        BY <1>5, <3>4, <3>5, FollowingTwo
      <3> DEFINE one == Second(NewMsg(s), d, e)
                 two == Rest(NewMsg(s), d, Len(d))
      <3> HIDE DEF one, two, more
      <3>7. Len(more) = 2 /\ out = Len(msgs) + 1
        <4>1. Len(more) = 2
          BY <3>6 DEF one, two
        <4> QED  BY <4>1
      <3>8. /\ fault' = fault /\ msgs' = ms \o more
            /\ treats' = [treats EXCEPT ![s] = 1]
            /\ pending' = [pending EXCEPT ![s] = Len(msgs) + 1]
            /\ Posts(s, <<Task("ParseRequest", m)>>)
        <4> DEFINE o == Len(msgs) + 1
                   q == ms \o more
        <4>1. Success(s, m, q, o)
          BY <2>1, <3>7
        <4> HIDE DEF o, q
        <4>2. /\ fault' = fault /\ msgs' = q
              /\ treats' = [treats EXCEPT ![s] = 1]
              /\ pending' = [pending EXCEPT ![s] = o]
              /\ Posts(s, <<Task("ParseRequest", m)>>)
          BY <2>2, <2>9, <4>1, SuccessAlone
        <4> QED  BY <4>2 DEF o, q
      <3>9. ReadLeaves(s)
        BY <1>8, <2>1, <3>8 DEF ReadLeaves
      <3>10. msgs' = WithText(TheMsg(s), Text(s), ~peer[s])
                       \o <<Second(NewMsg(s), Text(s), e),
                            Rest(NewMsg(s), Text(s), Len(Text(s)))>>
        BY <1>4, <1>9, <3>6, <3>8
      <3>11. cbs' = [cbs EXCEPT ![s] = <<Len(msgs) + 2>>]
        BY <2>3, <3>7
      <3>12. /\ Ends(Text(s)) = {e, Len(Text(s))} /\ FirstEnd(Text(s)) = e
             /\ e \in 1 .. Len(Text(s)) - 1
        BY <1>4, <3>4, <3>5 DEF e
      <3>13. Posts(s, <<Task("ParseRequest", TheMsg(s))>>)
        BY <3>8 DEF m
      <3>14. ReadTreated(s)
        BY <2>2, <2>9, <3>8, <3>9, <3>12, <3>13 DEF ReadTreated
      <3> QED
        BY <1>13, <3>1, <3>8, <3>10, <3>11, <3>12, <3>14 DEF ReadTwo
    <2> QED  BY <2>7, <2>8, <2>9
  <1> QED  BY <1>10, <1>11, <1>12, <1>13

(* ReadRequest keeps the invariant. *)
LEMMA ReadRequestKeeps ==
  ASSUME TypeOK, WebInv, Careful, NEW s \in Sockets, ReadRequest(s),
         UNCHANGED setting
  PROVE  Keeps(s)
  <1>1. Runs(s, "ReadRequest")
    BY DEF ReadRequest
  <1>2. CASE ReadNothing(s)
    BY <1>1, <1>2, ReadErrorKept DEF ReadNothing
  <1>3. CASE ReadBeginning(s)
    BY <1>1, <1>3, ReadPart DEF ReadBeginning
  <1>4. CASE ReadLast(s)
    BY <1>1, <1>4, ParsesLast DEF ReadLast, ReadTreated
  <1>5. CASE ReadBehind(s)
    BY <1>1, <1>5, ReadWaits DEF ReadBehind
  <1>6. CASE ReadOne(s)
    BY <1>1, <1>6, ParsesOne DEF ReadOne, ReadTreated
  <1>7. CASE ReadTwo(s)
    BY <1>1, <1>7, ParsesTwo DEF ReadTwo, ReadTreated
  <1> QED  BY <1>2, <1>3, <1>4, <1>5, <1>6, <1>7, ReadComesTo

(* ParseRequest keeps the invariant, whatever the request asks for.        *)
LEMMA ParseRequestKeeps ==
  ASSUME TypeOK, WebInv, Careful, NEW s \in Sockets, ParseRequest(s),
         UNCHANGED setting
  PROVE  Keeps(s)
  <1> DEFINE m == TheMsg(s)
             kind == Asked(m)[2]
  <1>1. Runs(s, "ParseRequest")
    BY DEF ParseRequest
  <1>2. "ParseRequest" \in Treating \ {"FreeRequest"}
        /\ {"WriteHeaders", "CheckInCache"} \subseteq
             Treating \ {"FourOhFor", "BadRequest", "FreeRequest"}
    BY DEF Treating
  <1>3. UNCHANGED <<conn, accepted, decs, clientVars, got, queued, msgs, files,
                    pending>>
    BY DEF ParseRequest
  <1>4. files' \subseteq Nat
    BY <1>3 DEF TypeOK
  <1>5. CASE kind = "bad"
    <2>1. /\ StopReading(s) /\ Posts(s, <<Task("BadRequest", m)>>)
          /\ UNCHANGED <<freed, treats, fault>>
      BY <1>5 DEF ParseRequest
    <2>2. UNCHANGED <<memVars, listVars>>
      BY <1>3, <2>1 DEF memVars, listVars
    <2> QED  BY <1>1, <1>2, <1>3, <1>5, <2>1, <2>2, StopKeeps
  <1>6. CASE kind # "bad" /\ msgs[m].close
    <2>1. /\ freed' = FreedPending(s, m) /\ TouchPending(s)
          /\ treats' = [treats EXCEPT ![s] = 0]
          /\ Posts(s, <<Task("Close", m)>>) /\ UNCHANGED cbs
      BY <1>6 DEF ParseRequest
    <2>2. UNCHANGED readVars
      BY <1>3, <2>1 DEF readVars
    <2> QED  BY <1>1, <1>3, <1>6, <2>1, <2>2, ParseClosed
  <1>7. CASE kind # "bad" /\ ~msgs[m].close
    <2> DEFINE g == IF setting.sendfile THEN "WriteHeaders" ELSE "CheckInCache"
    <2>1. /\ Posts(s, IF kind = "special" THEN <<>> ELSE <<Task(g, m)>>)
          /\ UNCHANGED <<cbs, freed, treats, fault>>
      BY <1>7 DEF ParseRequest
    <2>2. UNCHANGED <<readVars, memVars, listVars>>
      BY <1>3, <2>1 DEF readVars, memVars, listVars
    <2>3. CASE kind = "special"
      BY <1>1, <1>3, <2>1, <2>2, <2>3, SpecialKeeps
    <2>4. CASE kind # "special"
      <3>1. g \in Treating \ {"FourOhFor", "BadRequest"} /\ g # "FreeRequest"
        BY <1>2
      <3>2. Posts(s, <<Task(g, m)>>)
        BY <2>1, <2>4
      <3> HIDE DEF g
      <3> QED  BY <1>1, <1>2, <1>3, <1>4, <1>7, <2>1, <2>2, <3>1, <3>2, TurnKeeps
    <2> QED  BY <2>3, <2>4
  <1> QED  BY <1>5, <1>6, <1>7

(* A handler of a treatment runs that is not its first one: the request    *)
(* does not close its connection.                                          *)
LEMMA GoesOn ==
  ASSUME TypeOK, WebInv, NEW s \in Sockets,
         NEW h \in Treating \ {"ParseRequest"}, Runs(s, h)
  PROVE  ~msgs[TheMsg(s)].close
  <1>1. Socket(s) /\ h \in Treating
    BY DEF WebInv
  <1> QED  BY <1>1, Treatment1

(* The file is in the cache, or it is not. *)
LEMMA CheckInCacheKeeps ==
  ASSUME TypeOK, WebInv, Careful, NEW s \in Sockets, CheckInCache(s),
         UNCHANGED setting
  PROVE  Keeps(s)
  <1> DEFINE m == TheMsg(s)
  <1>1. Runs(s, "CheckInCache")
    BY DEF CheckInCache
  <1>2. "CheckInCache" \in Treating \ {"FreeRequest"}
        /\ "CheckInCache" \in Treating \ {"ParseRequest"}
        /\ {"CompressResponse", "Write"} \subseteq
             Treating \ {"FourOhFor", "BadRequest", "FreeRequest"}
    BY DEF Treating
  <1>3. UNCHANGED <<conn, accepted, decs, clientVars, got, queued, memVars,
                    listVars, fault>>
    BY DEF CheckInCache
  <1>4. ~msgs[m].close /\ files' \subseteq Nat
    BY <1>1, <1>2, <1>3, GoesOn DEF TypeOK, memVars
  <1>5. CASE Asked(m)[2] = "missing"
    <2>1. StopReading(s) /\ Posts(s, <<Task("FourOhFor", m)>>)
      BY <1>5 DEF CheckInCache
    <2> QED  BY <1>1, <1>2, <1>3, <1>5, <2>1, StopKeeps
  <1>6. CASE Asked(m)[2] # "missing"
    <2> DEFINE g == IF setting.gzip THEN "CompressResponse" ELSE "Write"
    <2>1. Posts(s, <<Task(g, m)>>) /\ UNCHANGED cbs
      BY <1>6 DEF CheckInCache
    <2>2. g \in Treating \ {"FourOhFor", "BadRequest"} /\ g # "FreeRequest"
      BY <1>2
    <2>3. UNCHANGED <<readVars, msgs, freed>>
      BY <1>3, <2>1 DEF readVars, memVars
    <2> HIDE DEF g
    <2> QED  BY <1>1, <1>2, <1>3, <1>4, <2>1, <2>2, <2>3, TurnKeeps
  <1> QED  BY <1>5, <1>6

(* WriteHeaders keeps it, with the file or without.                        *)
LEMMA WriteHeadersKeeps ==
  ASSUME TypeOK, WebInv, Careful, NEW s \in Sockets, WriteHeaders(s),
         UNCHANGED setting
  PROVE  Keeps(s)
  <1> DEFINE m == TheMsg(s)
  <1>1. Runs(s, "WriteHeaders")
    BY DEF WriteHeaders
  <1>2. "WriteHeaders" \in Treating \ {"FreeRequest"}
        /\ "WriteHeaders" \in Treating \ {"ParseRequest"}
        /\ {"WriteHeaders", "SendFile", "FreeRequest"} \subseteq
             Treating \ {"FourOhFor", "BadRequest"}
    BY DEF Treating
  <1>3. UNCHANGED <<conn, accepted, decs, clientVars, got, queued, memVars,
                    listVars, fault>>
    BY DEF WriteHeaders
  <1>4. ~msgs[m].close /\ files' \subseteq Nat
    BY <1>1, <1>2, <1>3, GoesOn DEF TypeOK, memVars
  <1>5. CASE Asked(m)[2] = "missing"
    <2>1. StopReading(s) /\ Posts(s, <<Task("FourOhFor", m)>>)
      BY <1>5 DEF WriteHeaders
    <2> QED  BY <1>1, <1>2, <1>3, <1>5, <2>1, StopKeeps
  <1>6. CASE Asked(m)[2] # "missing"
    <2>1. UNCHANGED cbs
      BY <1>6 DEF WriteHeaders
    <2>2. PICK g \in {"WriteHeaders", IF peer[s] THEN "SendFile" ELSE "FreeRequest"} :
            Posts(s, <<Task(g, m)>>)
      BY <1>6 DEF WriteHeaders
    <2>3. g \in Treating \ {"FourOhFor", "BadRequest"}
          /\ (g = "FreeRequest" => ~peer[s])
      BY <1>2
    <2>4. UNCHANGED <<readVars, msgs, freed>>
      BY <1>3, <2>1 DEF readVars, memVars
    <2> QED  BY <1>1, <1>2, <1>3, <1>4, <2>2, <2>3, <2>4, TurnKeeps
  <1> QED  BY <1>5, <1>6

(* A treatment goes on, without an end of the connection. *)
LEMMA TurnsKeep ==
  ASSUME TypeOK, WebInv, NEW s \in Sockets,
         CompressResponse(s) \/ WriteSome(s) \/ WriteFails(s) \/ SendFileSome(s),
         UNCHANGED setting
  PROVE  Keeps(s)
  <1> DEFINE m == TheMsg(s)
  <1>1. \A h \in {"CompressResponse", "Write", "SendFile"} :
          h \in Treating \ {"FreeRequest"} /\ h \in Treating \ {"ParseRequest"}
    BY DEF Treating
  <1>2. \A g \in {"Write", "SendFile", "FreeRequest"} :
          g \in Treating \ {"FourOhFor", "BadRequest"}
    BY DEF Treating
  <1>3. UNCHANGED <<conn, accepted, decs, clientVars, got, readVars, msgs, freed,
                    listVars, fault>>
    BY DEF CompressResponse, WriteSome, WriteFails, SendFileSome, memVars
  <1>4. PICK h \in {"CompressResponse", "Write", "SendFile"},
             g \in {"Write", "SendFile", "FreeRequest"} :
          /\ Runs(s, h) /\ Posts(s, <<Task(g, m)>>)
          /\ g = "FreeRequest" => ~peer[s]
    <2>1. CASE CompressResponse(s)
      BY <2>1 DEF CompressResponse
    <2>2. CASE WriteSome(s)
      BY <2>2 DEF WriteSome
    <2>3. CASE WriteFails(s)
      BY <2>3 DEF WriteFails
    <2>4. CASE SendFileSome(s)
      <3>1. PICK g \in {"SendFile"} \cup (IF peer[s] THEN {} ELSE {"FreeRequest"}) :
              Posts(s, <<Task(g, m)>>)
        BY <2>4 DEF SendFileSome
      <3>2. Runs(s, "SendFile") /\ g \in {"SendFile", "FreeRequest"}
            /\ (g = "FreeRequest" => ~peer[s])
        BY <2>4, <3>1 DEF SendFileSome
      <3> QED  BY <3>1, <3>2
    <2> QED  BY <2>1, <2>2, <2>3, <2>4
  <1>5. ~msgs[m].close
    BY <1>1, <1>4, GoesOn
  <1>6. files' \subseteq Nat
    <2>1. m \in Nat
      <3>1. Socket(s) /\ h \in Handlers
        BY <1>1 DEF WebInv, Handlers
      <3> QED  BY <1>4, <3>1, AtHead
    <2> QED
      BY <2>1 DEF CompressResponse, WriteSome, WriteFails, SendFileSome, memVars,
                  TypeOK
  <1> QED  BY <1>1, <1>2, <1>3, <1>4, <1>5, <1>6, TurnKeeps

(* The last part of an answer is written. *)
LEMMA AnswersKeep ==
  ASSUME TypeOK, WebInv, NEW s \in Sockets, WriteAll(s) \/ SendFileAll(s),
         UNCHANGED setting
  PROVE  Keeps(s)
  <1>1. PICK h \in {"Write", "SendFile"} : Runs(s, h)
    BY DEF WriteAll, SendFileAll
  <1>2. /\ peer[s]
        /\ got' = [got EXCEPT ![s] = Append(@, Asked(TheMsg(s))[1])]
        /\ Posts(s, <<Task("FreeRequest", TheMsg(s))>>)
        /\ UNCHANGED <<conn, accepted, decs, clientVars, readVars, msgs, freed,
                       listVars, fault>>
    BY DEF WriteAll, SendFileAll, memVars
  <1>3. files' \subseteq Nat
    BY DEF WriteAll, SendFileAll, memVars, TypeOK
  <1> QED  BY <1>1, <1>2, <1>3, AnswerKeeps

(* Every handler of a treatment keeps it.                                  *)
LEMMA TreatmentKeeps ==
  ASSUME TypeOK, WebInv, Careful, NEW s \in Sockets, Treatment(s),
         UNCHANGED setting
  PROVE  Keeps(s)
  BY ParseRequestKeeps, CheckInCacheKeeps, WriteHeadersKeeps, TurnsKeep,
     AnswersKeep, LastFreed, NextFreed, ErrorAnswerKeeps DEF Treatment

(* Every step of a connection but its end. *)
LEMMA ConnectionLocal ==
  ASSUME TypeOK, WebInv, Careful, NEW s \in Sockets, UNCHANGED setting,
         Poll(s) \/ (Handler(s) /\ ~Close(s)) \/ Client(s)
  PROVE  Keeps(s)
  BY PollKeeps, RegisterReadKeeps, ReadRequestKeeps, TreatmentKeeps,
     CloseWaitsKeeps, SendKeeps, HangupKeeps DEF Handler, Client

(* Such a step keeps the invariant. *)
LEMMA ConnectionKeeps ==
  ASSUME TypeOK, WebInv, Careful, NEW s \in Sockets, UNCHANGED setting,
         Poll(s) \/ (Handler(s) /\ ~Close(s)) \/ Client(s)
  PROVE  TypeOK' /\ WebInv'
  <1>1. Keeps(s)
    BY ConnectionLocal
  <1>2. UNCHANGED <<conn, backlog, accepted, decs>>
    <2>1. CASE Poll(s)
      BY <2>1 DEF Poll, clientVars
    <2>2. CASE Client(s)
      BY <2>2 DEF Client, Send, Hangup
    <2>3. CASE RegisterRead(s) \/ ReadRequest(s) \/ CloseWaits(s)
      BY <2>3 DEF RegisterRead, ReadRequest, CloseWaits, clientVars
    <2>4. CASE Treatment(s)
      BY <2>4 DEF Treatment, ParseRequest, CheckInCache, CompressResponse, WriteAll,
                  WriteSome, WriteFails, WriteHeaders, SendFileAll, SendFileSome,
                  FreeRequest, ErrorAnswer, clientVars
    <2> QED  BY <2>1, <2>2, <2>3, <2>4 DEF Handler
  <1> QED  BY <1>1, <1>2, StepKeeps

(* The number of open connections, in their set. *)
Open == {s \in Sockets : conn[s] # 0}

(* Finitely many connections are open.                                     *)
LEMMA OpenFinite == IsFiniteSet(Open) /\ Cardinality(Open) \in Nat
  <1>1. IsFiniteSet(Sockets)
    BY WebAssumption
  <1>2. Open \subseteq Sockets
    BY DEF Open
  <1> QED  BY <1>1, <1>2, FS_Subset, FS_CardinalityType

(* A connection that can be closed has nothing left but that.              *)
LEMMA OnlyClose ==
  ASSUME TypeOK, NEW s \in Sockets, Socket(s), Runs(s, "Close"), treats[s] = 0
  PROVE  /\ Tasks(s) = {Head(tasks[s])} /\ cbs[s] = <<>> /\ pending[s] = NULL
         /\ ~queued[s] /\ Registered(s) = NULL
  <1> DEFINE t == Head(tasks[s])
  <1>1. OneEach(s) /\ Reads(s) /\ Pending(s)
    BY DEF Socket
  <1>2. /\ t \in Tasks(s) /\ t.handler = "Close"
        /\ \A u \in Tasks(s) : u # t => Class(u) # Class(t)
    BY AtHead DEF Handlers
  <1>3. cbs[s] = <<>> /\ pending[s] = NULL
    BY <1>1, <1>2 DEF Reads, Pending
  <1>4. Registered(s) = NULL
    BY <1>3 DEF Registered
  <1>5. \A u \in Tasks(s) : u.handler # "ReadRequest"
    BY <1>1, <1>4, OwnOnes DEF Reads
  <1>6. ~queued[s]
    BY <1>1, <1>5 DEF Reads
  <1>7. ASSUME NEW u \in Tasks(s), u # t PROVE FALSE
    <2>1. u.handler \in Handlers
      BY <1>1, OwnOnes DEF TaskType
    <2>2. ~Treats(u)
      BY <1>1 DEF Pending
    <2>3. u.handler # "Close"
      BY <1>2, <1>7, <2>2 DEF Class, Treats, Treating
    <2>4. u.handler = "RegisterRead"
      BY <1>5, <2>1, <2>2, <2>3 DEF Handlers, Treats
    <2>5. Tasks(s) = {u}
      BY <1>1, <2>4 DEF Reads
    <2> QED  BY <1>2, <1>7, <2>5
  <1> QED  BY <1>2, <1>3, <1>4, <1>6, <1>7

(* Close keeps the invariant: the connection is forgotten, with its number.*)
LEMMA CloseKeeps ==
  ASSUME TypeOK, WebInv, NEW s \in Sockets, Close(s), UNCHANGED setting
  PROVE  TypeOK' /\ WebInv'
  <1> DEFINE t == Head(tasks[s])
             m == TheMsg(s)
  <1>1. Socket(s) /\ OneEach(s) /\ Treated(s) /\ Numbered /\ ClientsCounted
        /\ Plain
    BY DEF WebInv, Socket
  <1>2. /\ Runs(s, "Close") /\ treats[s] = 0
        /\ conn' = [conn EXCEPT ![s] = 0] /\ decs' = decs + 1
        /\ peer' = [peer EXCEPT ![s] = FALSE]
        /\ wire' = [wire EXCEPT ![s] = <<>>]
        /\ freed' = freed \cup {m}
        /\ fault' = IF conn[s] # msgs[m].conn THEN "closed twice" ELSE fault
        /\ Posts(s, <<>>)
        /\ UNCHANGED <<accepted, backlog, asked, half, got, cbs, queued, msgs,
                       files, pending, treats>>
    BY DEF Close, readVars, listVars
  <1>3. /\ tasks[s] # <<>> /\ t \in Tasks(s) /\ t.msg = m /\ m \in Own(s)
        /\ m \in DOMAIN msgs /\ conn[s] # 0
    BY <1>1, <1>2, AtHead DEF Handlers
  <1>4. /\ Tasks(s) = {t} /\ cbs[s] = <<>> /\ pending[s] = NULL /\ ~queued[s]
        /\ Registered(s) = NULL
    BY <1>1, <1>2, OnlyClose
  <1>5. fault' = "none"
    BY <1>2, <1>3 DEF Own, WebInv
  <1>6. /\ tasks' \in [Sockets -> Seq(TaskType)]
        /\ \A u \in Sockets \ {s} : tasks'[u] = tasks[u]
        /\ IsInjective(tasks'[s])
        /\ Tasks(s)' = Tasks(s) \ {t}
    BY <1>1, <1>2, <1>3, PostingNone
  <1>7. tasks'[s] = <<>> /\ Tasks(s)' = {}
    <2>1. tasks'[s] \in Seq(TaskType) /\ ToSet(tasks'[s]) = {}
      BY <1>4, <1>6 DEF Tasks
    <2>2. tasks'[s] = <<>>
      BY <2>1, ElementsOf
    <2> QED  BY <2>1, <2>2 DEF Tasks
  <1>8. /\ conn' \in [Sockets -> Nat] /\ conn'[s] = 0
        /\ peer' \in [Sockets -> BOOLEAN] /\ ~peer'[s]
        /\ \A u \in Sockets \ {s} : conn'[u] = conn[u] /\ peer'[u] = peer[u]
    BY <1>2 DEF TypeOK
  <1>9. /\ wire' \in [Sockets -> Seq(Chunk)] /\ wire'[s] = <<>>
        /\ \A u \in Sockets \ {s} : wire'[u] = wire[u]
    <2>1. <<>> \in Seq(Chunk)
      BY EmptySeq
    <2> QED  BY <1>2, <2>1 DEF TypeOK
  <1>10. freed' \subseteq DOMAIN msgs' /\ decs' \in Nat
    <2>1. freed' = freed \cup {m} /\ msgs' = msgs /\ decs' = decs + 1
      BY <1>2
    <2> HIDE DEF m
    <2> QED  BY <1>3, <2>1 DEF TypeOK
  <1> HIDE DEF t, m
  <1>11. TypeOK'
    BY <1>2, <1>6, <1>8, <1>9, <1>10 DEF TypeOK, TaskType
  <1>12. Local(s) /\ Plain'
    <2>1. Plain'
      BY <1>1, <1>2 DEF Plain, Says
    <2>2. \A k \in DOMAIN msgs \ Own(s) :
            k \in DOMAIN msgs' /\ msgs'[k] = msgs[k] /\ (k \in freed' => k \in freed)
      BY <1>2, <1>3
    <2> QED  BY <1>2, <1>6, <1>8, <1>9, <2>1, <2>2 DEF Local
  <1>13. OneEach(s)'
    BY <1>2, <1>4, <1>6, <1>7, <1>8, <1>9 DEF OneEach
  <1>14. Reads(s)'
    BY <1>2, <1>4, <1>7 DEF Reads
  <1>15. Pending(s)'
    BY <1>2, <1>4, <1>7 DEF Pending
  <1>16. Current(s)' = Len(got[s]) /\ Taken(s)' = Taken(s)
    BY <1>2, <1>4 DEF Current, Taken
  <1>17. Treated(s)'
    BY <1>1, <1>2, <1>4, <1>7, <1>8, <1>16 DEF Treated
  <1>18. Sent(s)'
    <2>1. Registered(s)' = NULL
      BY <1>2, <1>4 DEF Registered
    <2>2. Held(s)' = <<>>
      BY <2>1 DEF Held
    <2>3. <<>> \o <<>> = <<>> /\ Len(<<>>) = 0 /\ DOMAIN <<>> = {}
      BY EmptySeq, ConcatEmptySeq
    <2>4. Text(s)' = <<>>
      BY <1>9, <2>2, <2>3 DEF Text
    <2> QED  BY <1>8, <2>3, <2>4 DEF Sent, Follows
  <1>19. Behind(s)'
    BY <1>7 DEF Behind
  <1>20. Socket(s)'
    BY <1>13, <1>14, <1>15, <1>17, <1>18, <1>19 DEF Socket
  <1>21. \A u \in Sockets \ {s} : Socket(u)'
    BY <1>1, <1>12, OthersKept DEF WebInv
  <1>22. Numbered'
    <2>1. setting.clients \in Nat /\ backlog \in Nat
      BY Bounds DEF TypeOK
    <2>2. 0 <= setting.clients - backlog /\ backlog <= setting.clients
      BY <1>1, <2>1 DEF Numbered
    <2>3. \A u \in Sockets : conn'[u] <= setting.clients - backlog
      BY <1>1, <1>8, <2>2 DEF Numbered
    <2>4. \A u, v \in Sockets : conn'[u] = conn'[v] /\ conn'[u] # 0 => u = v
      BY <1>1, <1>8 DEF Numbered
    <2>5. setting' = setting /\ backlog' = backlog
      BY <1>2
    <2> QED  BY <2>2, <2>3, <2>4, <2>5 DEF Numbered
  <1>23. ClientsCounted'
    <2>1. Open' = Open \ {s} /\ s \in Open
      BY <1>3, <1>8 DEF Open
    <2>2. IsFiniteSet(Open) /\ Cardinality(Open) \in Nat
      BY OpenFinite
    <2>3. Cardinality(Open \ {s}) = Cardinality(Open) - 1
      BY <2>1, <2>2, FS_RemoveElement
    <2>4. accepted = Cardinality(Open) + decs
      BY <1>1 DEF ClientsCounted, Open
    <2>5. accepted' = Cardinality(Open') + decs'
      <3>1. Cardinality(Open') = Cardinality(Open) - 1
        BY <2>1, <2>3
      <3>2. decs \in Nat /\ accepted' = accepted /\ decs' = decs + 1
        BY <1>2 DEF TypeOK
      <3> HIDE DEF Open
      <3> QED  BY <2>2, <2>4, <3>1, <3>2
    <2> QED  BY <2>5 DEF ClientsCounted, Open
  <1> QED  BY <1>5, <1>11, <1>12, <1>20, <1>21, <1>22, <1>23 DEF WebInv

(* Dec_Accepted_Clients *)
LEMMA DecKeeps ==
  ASSUME TypeOK, WebInv, DecAcceptedClients, UNCHANGED setting
  PROVE  TypeOK' /\ WebInv'
  <1>1. /\ decs > 0 /\ decs' = decs - 1 /\ accepted' = accepted - 1
        /\ fault' = IF accepted' < 0 THEN "nb_client_accepted" ELSE fault
        /\ UNCHANGED <<conn, backlog, peer, wire, asked, half, got, cbs, queued,
                       tasks, msgs, freed, files, pending, treats>>
    BY DEF DecAcceptedClients, clientVars, readVars, memVars, listVars
  <1>2. accepted = Cardinality(Open) + decs /\ Cardinality(Open) \in Nat
    BY OpenFinite DEF WebInv, ClientsCounted, Open
  <1>3. decs \in Nat /\ accepted \in Int
    BY DEF TypeOK
  <1>4. ~(accepted' < 0) /\ accepted' \in Int /\ decs' \in Nat
        /\ accepted' = Cardinality(Open) + decs'
    BY <1>1, <1>2, <1>3
  <1>5. fault' = "none"
    BY <1>1, <1>4 DEF WebInv
  <1>6. Open' = Open
    BY <1>1 DEF Open
  <1>7. TypeOK'
    BY <1>1, <1>4 DEF TypeOK
  <1>8. ClientsCounted'
    BY <1>4, <1>6 DEF ClientsCounted, Open
  <1>9. Numbered' /\ Plain'
    BY <1>1 DEF WebInv, Numbered, Plain, Says
  <1>10. \A s \in Sockets : Socket(s)'
    <2> SUFFICES ASSUME NEW s \in Sockets PROVE Socket(s)'
      OBVIOUS
    <2>1. \A m \in Own(s) : m \in Own(s)' /\ msgs'[m] = msgs[m]
      BY <1>1 DEF Own
    <2>2. Socket(s)
      BY DEF WebInv
    <2> QED  BY <1>1, <2>1, <2>2, SocketKept
  <1> QED  BY <1>5, <1>7, <1>8, <1>9, <1>10 DEF WebInv

(* The order of a batch gives each of its sockets an index of its own.     *)
LEMMA BatchOrder ==
  ASSUME NEW S, IsFiniteSet(S)
  PROVE  LET n == Cardinality(S)
             order == SetToSeq(S)
         IN /\ n \in Nat /\ order \in [1 .. n -> S]
            /\ \A x \in S : /\ (CHOOSE i \in 1 .. n : order[i] = x) \in 1 .. n
                            /\ order[CHOOSE i \in 1 .. n : order[i] = x] = x
            /\ \A i \in 1 .. n : (CHOOSE j \in 1 .. n : order[j] = order[i]) = i
  <1> DEFINE n == Cardinality(S)
             order == SetToSeq(S)
  <1>1. n \in Nat /\ ExistsBijection(1 .. n, S)
    BY FS_CardinalityType
  <1>2. PICK f \in Bijection(1 .. n, S) : TRUE
    BY <1>1 DEF ExistsBijection
  <1>3. f \in [1 .. n -> S] /\ IsInjective(f)
    BY <1>2 DEF Bijection, Injection
  <1>4. order \in [1 .. n -> S] /\ IsInjective(order)
    BY <1>3 DEF SetToSeq
  <1>5. order \in Injection(1 .. n, S)
    BY <1>4 DEF Injection
  <1>6. Cardinality(1 .. n) = n
    BY <1>1, FS_Interval
  <1>7. order \in Surjection(1 .. n, S)
    BY <1>5, <1>6, FS_Injection
  <1>8. \A x \in S : \E i \in 1 .. n : order[i] = x
    BY <1>7 DEF Surjection
  <1> HIDE DEF n, order
  <1>9. \A x \in S : /\ (CHOOSE i \in 1 .. n : order[i] = x) \in 1 .. n
                     /\ order[CHOOSE i \in 1 .. n : order[i] = x] = x
    BY <1>8
  <1>10. \A i \in 1 .. n : (CHOOSE j \in 1 .. n : order[j] = order[i]) = i
    <2> TAKE i \in 1 .. n
    <2>1. order[i] \in S
      BY <1>4
    <2> DEFINE k == CHOOSE j \in 1 .. n : order[j] = order[i]
    <2>2. k \in 1 .. n /\ order[k] = order[i]
      BY <1>9, <2>1
    <2> HIDE DEF k
    <2>3. k = i
      BY <1>4, <2>2 DEF IsInjective
    <2> QED  BY <2>3 DEF k
  <1> QED  BY <1>1, <1>4, <1>9, <1>10 DEF n, order

(* A connection as Accept makes it. *)
LEMMA NewConnection ==
  ASSUME TypeOK, NEW s \in Sockets, Socket(s), conn[s] = 0, UNCHANGED setting,
         NEW m \in Own(s)', m # NULL, NEW c \in Nat \ {0}, conn'[s] = c,
         msgs'[m].data = <<>>,
         tasks'[s] = Append(tasks[s], Task("RegisterRead", m)),
         peer'[s], asked'[s] = 0, ~half'[s], got'[s] = <<>>,
         wire'[s] = wire[s], cbs'[s] = cbs[s], queued'[s] = queued[s],
         pending'[s] = pending[s], treats'[s] = treats[s]
  PROVE  Socket(s)' /\ tasks'[s] = <<Task("RegisterRead", m)>>
  <1> DEFINE x == Task("RegisterRead", m)
  <1>1. /\ tasks[s] = <<>> /\ cbs[s] = <<>> /\ ~queued[s]
        /\ pending[s] = NULL /\ treats[s] = 0 /\ wire[s] = <<>>
    BY DEF Socket, OneEach
  <1>2. ~Treats(x) /\ x.handler = "RegisterRead" /\ x.msg = m
    BY DEF Task, Treats, Treating
  <1> HIDE DEF x
  <1>3. tasks'[s] = <<x>>
    BY <1>1 DEF x
  <1>4. IsInjective(<<x>>) /\ ToSet(<<x>>) = {x}
    BY DEF IsInjective, ToSet
  <1>5. Tasks(s)' = {x}
    BY <1>3, <1>4 DEF Tasks
  <1>6. Registered(s)' = NULL
    BY <1>1 DEF Registered
  <1>7. OneEach(s)'
    BY <1>1, <1>2, <1>3, <1>4, <1>5, <1>6 DEF OneEach
  <1>8. Reads(s)'
    BY <1>1, <1>2, <1>5 DEF Reads
  <1>9. Pending(s)'
    BY <1>1, <1>2, <1>5 DEF Pending
  <1>10. Len(<<>>) = 0 /\ DOMAIN <<>> = {} /\ <<>> \o <<>> = <<>>
    BY EmptySeq, ConcatEmptySeq
  <1>11. Current(s)' = 0 /\ Taken(s)' = 0
    BY <1>1, <1>10 DEF Current, Taken
  <1>12. /\ setting.requests \in Nat /\ setting.pipelined \in Nat
    BY Bounds
  <1>13. Treated(s)'
    <2>1. 0 <= setting.requests /\ 0 <= Len(<<>>) + setting.pipelined
      BY <1>10, <1>12
    <2>2. \A t \in Tasks(s)' : ~Treats(t)
      BY <1>2, <1>5
    <2>3. got'[s] = <<>> /\ asked'[s] = 0 /\ peer'[s] /\ setting' = setting
          /\ pending'[s] = NULL
      BY <1>1
    <2> QED  BY <1>10, <1>11, <2>1, <2>2, <2>3 DEF Treated
  <1>14. Sent(s)'
    <2>1. Text(s)' = <<>>
      BY <1>1, <1>6, <1>10 DEF Text, Held
    <2> QED  BY <1>10, <1>11, <2>1 DEF Sent, Follows, UpTo
  <1>15. Behind(s)'
    BY <1>2, <1>5 DEF Behind
  <1> QED  BY <1>3, <1>7, <1>8, <1>9, <1>13, <1>14, <1>15 DEF Socket, x

(* A batch of connections: their numbers, and the messages they are given. *)
LEMMA AcceptKeeps ==
  ASSUME TypeOK, WebInv, Accept, UNCHANGED setting
  PROVE  TypeOK' /\ WebInv'
  <1>1. PICK batch \in SUBSET {s \in setting.sockets : conn[s] = 0} :
       LET n == Cardinality(batch)
           order == SetToSeq(batch)
           Index(s) == CHOOSE i \in 1 .. n : order[i] = s
       IN /\ n > 0
          /\ n <= backlog /\ BatchAllowed(n)
          /\ conn' = [s \in Sockets |->
                        IF s \in batch THEN setting.clients - backlog + Index(s)
                                       ELSE conn[s]]
          /\ backlog' = backlog - n /\ accepted' = accepted + n
          /\ peer' = [s \in Sockets |-> s \in batch \/ peer[s]]
          /\ asked' = [s \in Sockets |-> IF s \in batch THEN 0 ELSE asked[s]]
          /\ half' = [s \in Sockets |-> s \notin batch /\ half[s]]
          /\ got' = [s \in Sockets |-> IF s \in batch THEN <<>> ELSE got[s]]
          /\ msgs' = msgs \o [i \in 1 .. n |->
                                [NewMsg(order[i]) EXCEPT
                                   !.conn = conn'[order[i]]]]
          /\ tasks' = [s \in Sockets |->
                         IF s \in batch
                         THEN Append(tasks[s],
                                     Task("RegisterRead", Len(msgs) + Index(s)))
                         ELSE tasks[s]]
    BY DEF Accept
  <1> DEFINE n == Cardinality(batch)
             order == SetToSeq(batch)
             Index(s) == CHOOSE i \in 1 .. n : order[i] = s
             New(i) == [NewMsg(order[i]) EXCEPT !.conn = conn'[order[i]]]
             new == [i \in 1 .. n |-> New(i)]
             first == setting.clients - backlog
  <1>2. UNCHANGED <<decs, wire, cbs, queued, freed, files, pending, treats, fault>>
    BY DEF Accept, readVars, listVars
  <1>3. /\ n <= backlog /\ backlog' = backlog - n /\ accepted' = accepted + n
        /\ conn' = [s \in Sockets |-> IF s \in batch THEN first + Index(s)
                                                     ELSE conn[s]]
    BY <1>1
  <1>4. /\ peer' = [s \in Sockets |-> s \in batch \/ peer[s]]
        /\ asked' = [s \in Sockets |-> IF s \in batch THEN 0 ELSE asked[s]]
        /\ half' = [s \in Sockets |-> s \notin batch /\ half[s]]
        /\ got' = [s \in Sockets |-> IF s \in batch THEN <<>> ELSE got[s]]
    BY <1>1
  <1>5. /\ msgs' = msgs \o new
        /\ tasks' = [s \in Sockets |->
             IF s \in batch
             THEN Append(tasks[s], Task("RegisterRead", Len(msgs) + Index(s)))
             ELSE tasks[s]]
    BY <1>1
  <1>6. /\ batch \subseteq Sockets /\ IsFiniteSet(batch)
        /\ \A s \in batch : conn[s] = 0
    <2>1. setting.sockets \subseteq Sockets /\ IsFiniteSet(Sockets)
      BY WebAssumption DEF TypeOK
    <2>2. batch \in SUBSET Sockets
      BY <2>1
    <2> QED  BY <2>1, <2>2, FS_Subset
  <1>7. /\ n \in Nat /\ order \in [1 .. n -> batch]
        /\ \A s \in batch : Index(s) \in 1 .. n /\ order[Index(s)] = s
    BY <1>6, BatchOrder
  <1> HIDE DEF n, order, Index, New
  <1>8. first \in Nat /\ backlog \in Nat /\ accepted \in Int
        /\ \A s \in Sockets : conn[s] <= first
    <2>1. setting.clients \in Nat /\ backlog \in Nat /\ accepted \in Int
      BY WebAssumption DEF TypeOK
    <2>2. backlog <= setting.clients
      BY DEF WebInv, Numbered
    <2> QED  BY <2>1, <2>2 DEF WebInv, Numbered
  <1> HIDE DEF first
  <1>9. \A s \in batch : first + Index(s) \in Nat \ {0} /\ Index(s) \in Nat
                         /\ Index(s) >= 1 /\ Index(s) <= n
    BY <1>7, <1>8
  <1>10. /\ conn' \in [Sockets -> Nat]
         /\ \A s \in batch : conn'[s] = first + Index(s)
         /\ \A s \in Sockets \ batch : conn'[s] = conn[s]
    BY <1>3, <1>6, <1>9 DEF TypeOK
  <1>11. \A i \in 1 .. n : /\ New(i) \in Message /\ New(i).conn = conn'[order[i]]
                           /\ New(i).data = <<>> /\ New(i).next = NULL
    <2> SUFFICES ASSUME NEW i \in 1 .. n
                 PROVE  /\ New(i) \in Message /\ New(i).conn = conn'[order[i]]
                        /\ New(i).data = <<>> /\ New(i).next = NULL
      OBVIOUS
    <2> DEFINE c == conn'[order[i]]
               z == <<>>
               f == FALSE
    <2>1. c \in Nat
      BY <1>6, <1>7, <1>10
    <2>2. z \in Seq(Chunk) /\ f \in BOOLEAN /\ NULL \in Nat
      BY EmptySeq DEF NULL
    <2>3. New(i) = [[conn |-> conn[order[i]], data |-> z, length |-> 0,
                     reqEnd |-> 0, close |-> f, next |-> NULL] EXCEPT !.conn = c]
      BY DEF New, NewMsg
    <2> HIDE DEF c, z, f
    <2>4. New(i) = [conn |-> c, data |-> z, length |-> 0, reqEnd |-> 0,
                    close |-> f, next |-> NULL]
      BY <2>3
    <2> QED  BY <2>1, <2>2, <2>4 DEF Message, c, z
  <1>12. new \in Seq(Message) /\ Len(new) = n /\ \A i \in 1 .. n : new[i] = New(i)
    <2>1. new \in [1 .. n -> Message]
      BY <1>11
    <2> QED  BY <1>7, <2>1, IsASeq
  <1> HIDE DEF new
  <1>13. /\ msgs' \in Seq(Message) /\ DOMAIN msgs' = 1 .. Len(msgs) + n
         /\ DOMAIN msgs = 1 .. Len(msgs) /\ Len(msgs) \in Nat
         /\ \A k \in DOMAIN msgs : k \in DOMAIN msgs' /\ msgs'[k] = msgs[k]
         /\ \A i \in 1 .. n : /\ msgs'[Len(msgs) + i] = New(i)
                              /\ Len(msgs) + i \in DOMAIN msgs'
                              /\ Len(msgs) + i \notin DOMAIN msgs
    <2>1. msgs \in Seq(Message) /\ Len(msgs) \in Nat /\ DOMAIN msgs = 1 .. Len(msgs)
      BY LenProperties DEF TypeOK
    <2> DEFINE r == msgs \o new
    <2>2. /\ r \in Seq(Message) /\ Len(r) = Len(msgs) + n
          /\ \A i \in 1 .. Len(msgs) + n :
               r[i] = IF i <= Len(msgs) THEN msgs[i] ELSE new[i - Len(msgs)]
      BY <1>12, <2>1, ConcatProperties
    <2>3. msgs' = r
      BY <1>5
    <2> HIDE DEF r
    <2>4. DOMAIN msgs' = 1 .. Len(msgs) + n
      BY <2>2, <2>3, LenProperties
    <2>5. \A k \in DOMAIN msgs : k \in DOMAIN msgs' /\ msgs'[k] = msgs[k]
      BY <1>7, <2>1, <2>2, <2>3, <2>4
    <2>6. \A i \in 1 .. n : /\ msgs'[Len(msgs) + i] = New(i)
                            /\ Len(msgs) + i \in DOMAIN msgs'
                            /\ Len(msgs) + i \notin DOMAIN msgs
      <3> TAKE i \in 1 .. n
      <3>1. /\ Len(msgs) + i \in 1 .. Len(msgs) + n /\ ~(Len(msgs) + i <= Len(msgs))
            /\ Len(msgs) + i - Len(msgs) = i
        BY <1>7, <2>1
      <3> QED  BY <1>12, <2>1, <2>2, <2>3, <2>4, <3>1
    <2> QED  BY <2>1, <2>2, <2>3, <2>4, <2>5, <2>6
  <1>14. Plain'
    <2> SUFFICES ASSUME NEW k \in DOMAIN msgs'
                 PROVE  /\ msgs'[k].next = NULL
                        /\ \A i \in DOMAIN msgs'[k].data :
                             msgs'[k].data[i][2] \in Says
      BY DEF Plain, Says
    <2>1. CASE k \in DOMAIN msgs
      BY <1>13, <2>1 DEF WebInv, Plain
    <2>2. CASE k \notin DOMAIN msgs
      <3>1. k - Len(msgs) \in 1 .. n /\ Len(msgs) + (k - Len(msgs)) = k
        BY <1>7, <1>13, <2>2
      <3>2. msgs'[k] = New(k - Len(msgs))
        BY <1>13, <3>1
      <3>3. DOMAIN <<>> = {}
        OBVIOUS
      <3> QED  BY <1>11, <3>1, <3>2, <3>3
    <2> QED  BY <2>1, <2>2
  <1>15. \A s \in Sockets : Own(s)' = {m \in DOMAIN msgs' : msgs'[m].conn = conn'[s]}
                                         \ freed
    BY <1>2 DEF Own
  <1>16. ASSUME NEW s \in Sockets \ batch
         PROVE  Socket(s)' /\ tasks'[s] = tasks[s] /\ got'[s] = got[s]
    <2>1. \A m \in Own(s) : m \in Own(s)' /\ msgs'[m] = msgs[m]
      BY <1>10, <1>13, <1>15 DEF Own
    <2>2. /\ peer'[s] = peer[s] /\ asked'[s] = asked[s] /\ half'[s] = half[s]
          /\ got'[s] = got[s] /\ tasks'[s] = tasks[s] /\ conn'[s] = conn[s]
      BY <1>4, <1>5, <1>10 DEF TypeOK
    <2>3. Socket(s)
      BY DEF WebInv
    <2> QED  BY <1>2, <2>1, <2>2, <2>3, SocketKept
  <1>17. ASSUME NEW s \in batch
         PROVE  /\ Socket(s)' /\ tasks'[s] \in Seq(TaskType)
                /\ got'[s] \in Seq(Nat)
    <2> DEFINE m == Len(msgs) + Index(s)
               c == first + Index(s)
    <2>1. s \in Sockets /\ Socket(s) /\ conn[s] = 0
      BY <1>6 DEF WebInv
    <2>2. /\ Index(s) \in 1 .. n /\ order[Index(s)] = s
      BY <1>7
    <2>3. /\ m \in DOMAIN msgs' /\ m \notin DOMAIN msgs /\ msgs'[m] = New(Index(s))
          /\ m # NULL /\ m \in Nat
      BY <1>9, <1>13, <2>2 DEF NULL
    <2>4. msgs'[m].conn = conn'[s] /\ msgs'[m].data = <<>>
      BY <1>11, <2>2, <2>3
    <2>5. m \in Own(s)'
      BY <1>15, <2>1, <2>3, <2>4 DEF TypeOK
    <2>6. c \in Nat \ {0} /\ conn'[s] = c
      BY <1>9, <1>10
    <2>7. /\ tasks'[s] = Append(tasks[s], Task("RegisterRead", m))
          /\ peer'[s] /\ asked'[s] = 0 /\ ~half'[s] /\ got'[s] = <<>>
      BY <1>4, <1>5, <2>1
    <2> HIDE DEF m, c
    <2>8. Socket(s)' /\ tasks'[s] = <<Task("RegisterRead", m)>>
      BY <1>2, <2>1, <2>3, <2>4, <2>5, <2>6, <2>7, NewConnection
    <2>9. Task("RegisterRead", m) \in TaskType
      BY <2>3 DEF Task, TaskType, Handlers
    <2>10. <<>> \in Seq(Nat)
      BY EmptySeq
    <2>11. tasks'[s] \in Seq(TaskType)
      <3> DEFINE x == Task("RegisterRead", m)
      <3> HIDE DEF x
      <3>1. <<x>> \in Seq(TaskType)
        BY <2>9 DEF x
      <3> QED  BY <2>8, <3>1 DEF x
    <2> QED  BY <2>7, <2>8, <2>10, <2>11
  <1>18. TypeOK'
    <2>1. tasks' \in [Sockets -> Seq(TaskType)]
      <3>1. \A s \in Sockets : tasks'[s] \in Seq(TaskType)
        BY <1>16, <1>17 DEF TypeOK, TaskType
      <3> QED  BY <1>5, <3>1
    <2>2. got' \in [Sockets -> Seq(Nat)]
      <3>1. \A s \in Sockets : got'[s] \in Seq(Nat)
        BY <1>16, <1>17 DEF TypeOK
      <3> QED  BY <1>4, <3>1
    <2>3. /\ peer' \in [Sockets -> BOOLEAN] /\ half' \in [Sockets -> BOOLEAN]
          /\ asked' \in [Sockets -> Nat]
      BY <1>4 DEF TypeOK
    <2>4. backlog' \in Nat /\ accepted' \in Int
      BY <1>3, <1>7, <1>8
    <2>5. freed' \subseteq DOMAIN msgs'
      BY <1>2, <1>13 DEF TypeOK
    <2> QED
      BY <1>2, <1>10, <1>13, <2>1, <2>2, <2>3, <2>4, <2>5 DEF TypeOK, TaskType
  <1>19. Numbered'
    <2>1. setting'.clients \in Nat /\ backlog' = backlog - n
          /\ first = setting'.clients - backlog
      BY <1>3, WebAssumption DEF TypeOK, first
    <2>2. backlog' <= setting'.clients /\ setting'.clients - backlog' = first + n
      BY <1>7, <1>8, <2>1
    <2>3. \A s \in Sockets : conn'[s] <= first + n
      <3> TAKE s \in Sockets
      <3>1. CASE s \in batch
        BY <1>7, <1>8, <1>9, <1>10, <3>1
      <3>2. CASE s \notin batch
        <4>1. conn'[s] = conn[s] /\ conn[s] <= first /\ conn[s] \in Nat
          BY <1>8, <1>10, <3>2 DEF TypeOK
        <4> QED  BY <1>7, <1>8, <4>1
      <3> QED  BY <3>1, <3>2
    <2>4. ASSUME NEW s \in Sockets, NEW t \in Sockets, conn'[s] = conn'[t],
                 conn'[s] # 0
          PROVE  s = t
      <3>1. \A u \in Sockets \ batch : conn'[u] = conn[u] /\ conn[u] <= first
                                       /\ conn[u] \in Nat
        BY <1>8, <1>10 DEF TypeOK
      <3>2. \A u \in batch : ~(conn'[u] <= first)
        BY <1>8, <1>9, <1>10
      <3>3. CASE s \in batch /\ t \in batch
        <4>1. Index(s) = Index(t)
          BY <1>8, <1>9, <1>10, <2>4, <3>3
        <4> QED  BY <1>7, <3>3, <4>1
      <3>4. CASE s \notin batch /\ t \notin batch
        BY <2>4, <3>1, <3>4 DEF WebInv, Numbered
      <3> QED  BY <2>4, <3>1, <3>2, <3>3, <3>4
    <2> QED  BY <2>2, <2>3, <2>4 DEF Numbered
  <1>20. ClientsCounted'
    <2>1. Open' = Open \cup batch /\ Open \cap batch = {}
      BY <1>6, <1>9, <1>10 DEF Open
    <2>2. IsFiniteSet(Open) /\ Cardinality(Open) \in Nat
      BY OpenFinite
    <2>3. Cardinality(Open \cup batch) = Cardinality(Open) + n - Cardinality({})
      BY <1>6, <2>1, <2>2, FS_Union DEF n
    <2>4. Cardinality({}) = 0
      BY FS_EmptySet
    <2>5. accepted = Cardinality(Open) + decs /\ decs \in Nat
      BY DEF WebInv, ClientsCounted, Open, TypeOK
    <2>6. Cardinality(Open') = Cardinality(Open) + n
      BY <1>7, <2>1, <2>2, <2>3, <2>4
    <2>7. accepted' = accepted + n /\ decs' = decs
      BY <1>2, <1>3
    <2>8. accepted' = Cardinality(Open') + decs'
      <3> HIDE DEF Open
      <3> QED  BY <1>7, <2>2, <2>5, <2>6, <2>7
    <2> QED  BY <2>8 DEF ClientsCounted, Open
  <1>21. \A s \in Sockets : Socket(s)'
    BY <1>16, <1>17
  <1>22. fault' = "none"
    BY <1>2 DEF WebInv
  <1> QED  BY <1>14, <1>18, <1>19, <1>20, <1>21, <1>22 DEF WebInv

-----------------------------------------------------------------------------
(* The theorems *)

(* The invariant holds when nobody has connected.                          *)
LEMMA InitSafe == Init => WebSafe
  <1> SUFFICES ASSUME Init, Careful PROVE TypeOK /\ WebInv
    BY DEF WebSafe
  <1>1. /\ setting \in Settings
        /\ conn = [s \in Sockets |-> 0] /\ backlog = setting.clients
        /\ accepted = 0 /\ decs = 0
        /\ peer = [s \in Sockets |-> FALSE] /\ wire = [s \in Sockets |-> <<>>]
        /\ asked = [s \in Sockets |-> 0] /\ half = [s \in Sockets |-> FALSE]
        /\ got = [s \in Sockets |-> <<>>]
        /\ cbs = [s \in Sockets |-> <<>>] /\ queued = [s \in Sockets |-> FALSE]
        /\ tasks = [s \in Sockets |-> <<>>]
        /\ msgs = <<>> /\ freed = {} /\ files = {}
        /\ pending = [s \in Sockets |-> NULL] /\ treats = [s \in Sockets |-> 0]
        /\ fault = "none"
    BY DEF Init
  <1>2. \A s \in Settings : s.clients \in Nat
    BY WebAssumption
  <1>3. \A S : <<>> \in Seq(S)
    BY EmptySeq
  <1>4. /\ wire \in [Sockets -> Seq(Chunk)] /\ got \in [Sockets -> Seq(Nat)]
        /\ cbs \in [Sockets -> Seq(Nat)]
        /\ tasks \in [Sockets -> Seq([handler : Handlers, msg : Nat])]
    BY <1>1, <1>3
  <1>5. /\ conn \in [Sockets -> Nat] /\ peer \in [Sockets -> BOOLEAN]
        /\ asked \in [Sockets -> Nat] /\ half \in [Sockets -> BOOLEAN]
        /\ queued \in [Sockets -> BOOLEAN] /\ pending \in [Sockets -> Nat]
        /\ treats \in [Sockets -> {0, 1}]
    BY <1>1 DEF NULL
  <1>6. msgs \in Seq(Message) /\ freed \subseteq DOMAIN msgs /\ files \subseteq Nat
    BY <1>1, <1>3
  <1>7. setting \in Settings /\ backlog \in Nat /\ accepted \in Int /\ decs \in Nat
    BY <1>1, <1>2
  <1>8. TypeOK
    BY <1>4, <1>5, <1>6, <1>7 DEF TypeOK
  <1>9. Numbered /\ Plain
    <2>1. setting.clients - backlog = 0 /\ backlog <= setting.clients
      BY <1>1, <1>2
    <2>2. \A s \in Sockets : conn[s] = 0
      BY <1>1
    <2>3. DOMAIN msgs = {}
      BY <1>1
    <2> QED  BY <2>1, <2>2, <2>3 DEF Numbered, Plain
  <1>10. ClientsCounted
    <2>1. {s \in Sockets : conn[s] # 0} = {}
      BY <1>1
    <2>2. Cardinality({}) = 0
      BY FS_EmptySet
    <2>3. Cardinality({s \in Sockets : conn[s] # 0}) = 0
      BY <2>1, <2>2
    <2> QED  BY <1>1, <2>3 DEF ClientsCounted
  <1>11. ASSUME NEW s \in Sockets PROVE Socket(s)
    <2>1. /\ conn[s] = 0 /\ ~peer[s] /\ wire[s] = <<>> /\ asked[s] = 0
          /\ ~half[s] /\ got[s] = <<>> /\ cbs[s] = <<>> /\ ~queued[s]
          /\ tasks[s] = <<>> /\ pending[s] = NULL /\ treats[s] = 0
      BY <1>1
    <2>2. Tasks(s) = {} /\ IsInjective(<<>>) /\ Registered(s) = NULL
      BY <2>1, EmptyList DEF Tasks, Registered
    <2>3. Len(<<>>) = 0 /\ DOMAIN <<>> = {} /\ <<>> \o <<>> = <<>>
      BY <1>3, EmptySeq, ConcatEmptySeq
    <2>4. Current(s) = 0 /\ Taken(s) = 0
      BY <2>1, <2>3 DEF Current, Taken
    <2>5. Text(s) = <<>>
      BY <2>1, <2>2, <2>3 DEF Text, Held
    <2>6. setting.requests \in Nat /\ setting.pipelined \in Nat
      BY <1>8, Bounds
    <2>7. OneEach(s) /\ Reads(s) /\ Pending(s) /\ Behind(s)
      BY <2>1, <2>2 DEF OneEach, Reads, Pending, Behind
    <2>8. Treated(s)
      <3>1. 0 <= setting.requests /\ 0 <= Len(<<>>) + setting.pipelined
        BY <2>3, <2>6
      <3> QED  BY <2>1, <2>2, <2>3, <2>4, <3>1 DEF Treated
    <2>9. Sent(s)
      BY <2>1, <2>3, <2>4, <2>5 DEF Sent, Follows
    <2> QED  BY <2>7, <2>8, <2>9 DEF Socket
  <1> QED  BY <1>1, <1>8, <1>9, <1>10, <1>11 DEF WebInv

(* Every step keeps it.                                                    *)
LEMMA NextSafe == WebSafe /\ [Next]_vars => WebSafe'
  <1> SUFFICES ASSUME WebSafe, [Next]_vars, Careful' PROVE TypeOK' /\ WebInv'
    BY DEF WebSafe
  <1>1. UNCHANGED setting
    BY DEF Next, Goes, vars
  <1>2. Careful
    BY <1>1 DEF Careful, OneByOne, AtMostTwo, NoError
  <1>3. TypeOK /\ WebInv
    BY <1>2 DEF WebSafe
  <1>4. CASE Accept
    BY <1>1, <1>3, <1>4, AcceptKeeps
  <1>5. CASE DecAcceptedClients
    BY <1>1, <1>3, <1>5, DecKeeps
  <1>6. ASSUME NEW s \in Sockets, Poll(s) \/ Handler(s) \/ Client(s)
        PROVE  TypeOK' /\ WebInv'
    BY <1>1, <1>2, <1>3, <1>6, ConnectionKeeps, CloseKeeps
  <1>7. CASE UNCHANGED vars
    <2>1. UNCHANGED <<setting, conn, backlog, accepted, decs, peer, wire, asked,
                      half, got, cbs, queued, tasks, msgs, freed, files, pending,
                      treats, fault>>
      BY <1>7 DEF vars, clientVars, readVars, memVars, listVars
    <2>2. TypeOK'
      BY <1>3, <2>1 DEF TypeOK
    <2>3. Numbered' /\ Plain' /\ ClientsCounted' /\ fault' = "none"
      BY <1>3, <2>1 DEF WebInv, Numbered, Plain, ClientsCounted, Says
    <2>4. \A s \in Sockets : Socket(s)'
      <3> SUFFICES ASSUME NEW s \in Sockets PROVE Socket(s)'
        OBVIOUS
      <3>1. \A m \in Own(s) : m \in Own(s)' /\ msgs'[m] = msgs[m]
        BY <2>1 DEF Own
      <3>2. Socket(s)
        BY <1>3 DEF WebInv
      <3> QED  BY <1>3, <2>1, <3>1, <3>2, SocketKept
    <2> QED  BY <2>2, <2>3, <2>4 DEF WebInv
  <1> QED  BY <1>4, <1>5, <1>6, <1>7 DEF Next

(* The invariant holds in every state that the server reaches.             *)
THEOREM WebServerSafe == Spec => []WebSafe
  <1>1. Init => WebSafe
    BY InitSafe
  <1>2. WebSafe /\ [Next]_vars => WebSafe'
    BY NextSafe
  <1> QED  BY <1>1, <1>2, PTL DEF Spec

(* No assertion fails, nothing that was freed is used, no connection is    *)
(* closed twice and no request is too long, with clients and a build that  *)
(* are Careful: NoFault.                                                   *)
THEOREM NothingFails == Spec => [](Careful => NoFault)
  <1>1. WebSafe => (Careful => NoFault)
    BY DEF WebSafe, WebInv, NoFault
  <1> QED  BY <1>1, WebServerSafe, PTL

(* A client gets its answers in the order of its requests, one for each    *)
(* (HTTP pipelining): InOrder.                                             *)
THEOREM AnswersInOrder == Spec => [](Careful => InOrder)
  <1>1. WebSafe => (Careful => InOrder)
    BY DEF WebSafe, WebInv, Socket, Treated, InOrder
  <1> QED  BY <1>1, WebServerSafe, PTL

(* A connection that is closed has no handler of a treatment posted, and no*)
(* pending request: ClosedWhenDone.                                        *)
THEOREM ClosedHasNothing == Spec => [](Careful => ClosedWhenDone)
  <1>1. WebSafe => (Careful => ClosedWhenDone)
    <2> SUFFICES ASSUME TypeOK, WebInv, NEW s \in Sockets, conn[s] = 0
                 PROVE  InTreatment(s) = {} /\ pending[s] = NULL
      BY DEF WebSafe, ClosedWhenDone
    <2>1. tasks[s] = <<>> /\ pending[s] = NULL
      BY DEF WebInv, Socket, OneEach
    <2>2. DOMAIN <<>> = {}
      OBVIOUS
    <2> QED  BY <2>1, <2>2 DEF InTreatment
  <1> QED  BY <1>1, WebServerSafe, PTL

(* nb_client_accepted is the number of connections that are open, or whose *)
(* Dec_Accepted_Clients is to come: ClientsCounted.                        *)
THEOREM CountOfClients == Spec => [](Careful => ClientsCounted)
  <1>1. WebSafe => (Careful => ClientsCounted)
    BY DEF WebSafe, WebInv
  <1> QED  BY <1>1, WebServerSafe, PTL

-----------------------------------------------------------------------------
(* Nothing is lost *)

(* What NothingLost asks besides: an error of sendfile leaves the file     *)
(* open, and a client that leaves in the middle of a request is forgotten. *)
Tidy == setting.hasty => ~setting.halves /\ ~setting.sendfile

(* A callback, the pending list or a handler of s has the message. *)
Has(s, m) ==
  \/ m \in ToSet(cbs[s]) \/ (m = pending[s] /\ m # NULL)
  \/ \E t \in Tasks(s) : t.msg = m

(* Only a build with USE_SENDFILE has the handlers of sendfile. *)
Built(s) ==
  setting.sendfile
    \/ \A t \in Tasks(s) : t.handler \notin {"WriteHeaders", "SendFile"}

LostInv ==
  /\ setting.kinds = {"file"} =>
       \A m \in DOMAIN msgs \ freed : \E s \in Sockets : Has(s, m)
  /\ \A m \in files : \E s \in Sockets : Task("SendFile", m) \in Tasks(s)
  /\ \A s \in Sockets : Built(s)

LostSafe == Careful /\ Tidy => LostInv

(* A step of s loses no message that s has, and no message that is new,    *)
(* and leaves no file open without the task that sends it.                 *)
Finds(s) ==
  /\ freed \subseteq freed'
  /\ \A m \in DOMAIN msgs : Has(s, m) => m \in freed' \/ Has(s, m)'
  /\ \A m \in DOMAIN msgs' \ DOMAIN msgs : Has(s, m)'

FilesSent(s) ==
  \A m \in files' : \/ Task("SendFile", m) \in Tasks(s)'
                    \/ m \in files /\ Task("SendFile", m) \notin Tasks(s)

Tends(s) == (setting.kinds = {"file"} => Finds(s)) /\ FilesSent(s) /\ Built(s)'

(* A step that tends to all that s has keeps everything. *)
LEMMA TendsKeeps ==
  ASSUME TypeOK, LostInv, NEW s \in Sockets, Tends(s), UNCHANGED setting,
         \A t \in Sockets \ {s} :
           cbs'[t] = cbs[t] /\ pending'[t] = pending[t] /\ tasks'[t] = tasks[t]
  PROVE  LostInv'
  <1>1. \A t \in Sockets \ {s} :
          /\ Tasks(t)' = Tasks(t) /\ (\A m : Has(t, m) <=> Has(t, m)')
          /\ (Built(t) <=> Built(t)')
    BY DEF Tasks, Has, Built
  <1>2. ASSUME setting'.kinds = {"file"}, NEW m \in DOMAIN msgs' \ freed'
        PROVE  \E t \in Sockets : Has(t, m)'
    <2>1. Finds(s)
      BY <1>2 DEF Tends
    <2>2. CASE m \notin DOMAIN msgs
      BY <1>2, <2>1, <2>2 DEF Finds
    <2>3. CASE m \in DOMAIN msgs
      <3>1. m \notin freed
        BY <1>2, <2>1 DEF Finds
      <3>2. PICK t \in Sockets : Has(t, m)
        BY <1>2, <2>3, <3>1 DEF LostInv
      <3>3. CASE t = s
        BY <1>2, <2>1, <2>3, <3>2, <3>3 DEF Finds
      <3>4. CASE t # s
        BY <1>1, <3>2, <3>4
      <3> QED  BY <3>3, <3>4
    <2> QED  BY <2>2, <2>3
  <1>3. ASSUME NEW m \in files'
        PROVE  \E t \in Sockets : Task("SendFile", m) \in Tasks(t)'
    <2>1. CASE Task("SendFile", m) \in Tasks(s)'
      BY <2>1
    <2>2. CASE m \in files /\ Task("SendFile", m) \notin Tasks(s)
      <3>1. PICK t \in Sockets : Task("SendFile", m) \in Tasks(t)
        BY <2>2 DEF LostInv
      <3> QED  BY <1>1, <2>2, <3>1
    <2> QED  BY <2>1, <2>2 DEF Tends, FilesSent
  <1>4. \A t \in Sockets : Built(t)'
    BY <1>1 DEF Tends, LostInv
  <1> QED  BY <1>2, <1>3, <1>4 DEF LostInv, Task

(* The handler at the head hands its message to the next handler. *)
LEMMA HandedOn ==
  ASSUME TypeOK, NEW s \in Sockets, Socket(s), NEW h \in Handlers, Runs(s, h),
         NEW g \in Handlers, Posts(s, <<Task(g, TheMsg(s))>>)
  PROVE  /\ Tasks(s)' = (Tasks(s) \ {Head(tasks[s])}) \cup {Task(g, TheMsg(s))}
         /\ \A m : (\E t \in Tasks(s) : t.msg = m)
                     <=> (\E t \in Tasks(s)' : t.msg = m)
  <1> DEFINE x == Task(g, TheMsg(s))
  <1>1. OneEach(s)
    BY DEF Socket
  <1>2. /\ tasks[s] # <<>> /\ Head(tasks[s]) \in Tasks(s)
        /\ Head(tasks[s]).msg = TheMsg(s) /\ TheMsg(s) \in Nat
        /\ \A t \in Tasks(s) : t # Head(tasks[s]) => t.msg # TheMsg(s)
    BY AtHead
  <1>3. x \in TaskType /\ x.msg = TheMsg(s)
    BY <1>2 DEF Task, TaskType
  <1> HIDE DEF x
  <1>4. x \notin Tasks(s) \ {Head(tasks[s])}
    BY <1>2, <1>3
  <1>5. Posts(s, <<x>>)
    BY DEF x
  <1>6. Tasks(s)' = (Tasks(s) \ {Head(tasks[s])}) \cup {x}
    BY <1>1, <1>2, <1>3, <1>4, <1>5, Posting
  <1>7. ASSUME NEW m
        PROVE  (\E t \in Tasks(s) : t.msg = m) <=> (\E t \in Tasks(s)' : t.msg = m)
    BY <1>2, <1>3, <1>6
  <1> QED  BY <1>6, <1>7 DEF x

(* It ends: its message is left. *)
LEMMA HandedOff ==
  ASSUME TypeOK, NEW s \in Sockets, Socket(s), NEW h \in Handlers, Runs(s, h),
         Posts(s, <<>>)
  PROVE  /\ Tasks(s)' = Tasks(s) \ {Head(tasks[s])}
         /\ \A m : m # TheMsg(s) /\ (\E t \in Tasks(s) : t.msg = m)
                     => (\E t \in Tasks(s)' : t.msg = m)
  <1>1. OneEach(s)
    BY DEF Socket
  <1>2. /\ tasks[s] # <<>> /\ Head(tasks[s]).msg = TheMsg(s)
    BY AtHead
  <1>3. Tasks(s)' = Tasks(s) \ {Head(tasks[s])}
    BY <1>1, <1>2, PostingNone
  <1> QED  BY <1>2, <1>3

(* The callback and the pending list of s keep what they have, and have    *)
(* what is new.                                                            *)
Minds(s) ==
  /\ \A m \in ToSet(cbs[s]) : m = TheMsg(s) \/ m \in ToSet(cbs'[s])
  /\ pending[s] # NULL => pending'[s] = pending[s]
  /\ \A m \in DOMAIN msgs' \ DOMAIN msgs : Has(s, m)'

(* A handler that hands its message on tends to all. *)
LEMMA OnTends ==
  ASSUME TypeOK, NEW s \in Sockets, Socket(s), Built(s), UNCHANGED setting,
         NEW h \in Handlers \ {"SendFile"}, Runs(s, h), NEW g \in Handlers,
         g \in {"WriteHeaders", "SendFile"} => setting.sendfile \/ h = "WriteHeaders",
         Posts(s, <<Task(g, TheMsg(s))>>), files' = files, freed \subseteq freed',
         setting.kinds = {"file"} => Minds(s)
  PROVE  Tends(s)
  <1>1. /\ Tasks(s)' = (Tasks(s) \ {Head(tasks[s])}) \cup {Task(g, TheMsg(s))}
        /\ \A m : (\E t \in Tasks(s) : t.msg = m)
                    <=> (\E t \in Tasks(s)' : t.msg = m)
    BY HandedOn
  <1>2. /\ Head(tasks[s]) \in Tasks(s) /\ Head(tasks[s]).handler = h
        /\ Head(tasks[s]).msg = TheMsg(s)
    BY AtHead
  <1>3. ASSUME setting.kinds = {"file"} PROVE Finds(s)
    <2>1. ASSUME NEW m \in DOMAIN msgs, Has(s, m) PROVE Has(s, m)'
      <3>1. CASE m \in ToSet(cbs[s])
        <4>1. m = TheMsg(s) \/ m \in ToSet(cbs'[s])
          BY <1>3, <3>1 DEF Minds
        <4>2. m = TheMsg(s) => \E t \in Tasks(s)' : t.msg = m
          BY <1>1, <1>2
        <4> QED  BY <4>1, <4>2 DEF Has
      <3>2. CASE m = pending[s] /\ m # NULL
        BY <1>3, <3>2 DEF Minds, Has
      <3>3. CASE \E t \in Tasks(s) : t.msg = m
        BY <1>1, <3>3 DEF Has
      <3> QED  BY <2>1, <3>1, <3>2, <3>3 DEF Has
    <2> QED  BY <1>3, <2>1 DEF Finds, Minds
  <1>4. FilesSent(s)
    BY <1>1, <1>2 DEF FilesSent, Task
  <1>5. Built(s)'
    <2> SUFFICES ASSUME ~setting.sendfile, NEW t \in Tasks(s)'
                 PROVE  t.handler \notin {"WriteHeaders", "SendFile"}
      BY DEF Built
    <2>1. \A u \in Tasks(s) : u.handler \notin {"WriteHeaders", "SendFile"}
      BY DEF Built
    <2>2. g \notin {"WriteHeaders", "SendFile"}
      BY <1>2, <2>1
    <2> QED  BY <1>1, <2>1, <2>2 DEF Task
  <1> QED  BY <1>3, <1>4, <1>5 DEF Tends

(* A handler that posts nothing tends to all when its message is freed, or *)
(* has a place.                                                            *)
LEMMA OffTends ==
  ASSUME TypeOK, NEW s \in Sockets, Socket(s), Built(s), UNCHANGED setting,
         NEW h \in Handlers \ {"SendFile"}, Runs(s, h), Posts(s, <<>>),
         files' = files, freed \subseteq freed',
         setting.kinds = {"file"} =>
           Minds(s) /\ \A m : m = TheMsg(s) => m \in freed' \/ Has(s, m)'
  PROVE  Tends(s)
  <1>1. /\ Tasks(s)' = Tasks(s) \ {Head(tasks[s])}
        /\ \A m : m # TheMsg(s) /\ (\E t \in Tasks(s) : t.msg = m)
                    => (\E t \in Tasks(s)' : t.msg = m)
    BY HandedOff
  <1>2. Head(tasks[s]) \in Tasks(s) /\ Head(tasks[s]).handler = h
    BY AtHead
  <1>3. ASSUME setting.kinds = {"file"} PROVE Finds(s)
    <2>1. ASSUME NEW m \in DOMAIN msgs, Has(s, m) PROVE m \in freed' \/ Has(s, m)'
      <3>1. CASE m = TheMsg(s)
        BY <1>3, <3>1
      <3>2. CASE m # TheMsg(s) /\ m \in ToSet(cbs[s])
        BY <1>3, <3>2 DEF Minds, Has
      <3>3. CASE m = pending[s] /\ m # NULL
        BY <1>3, <3>3 DEF Minds, Has
      <3>4. CASE m # TheMsg(s) /\ \E t \in Tasks(s) : t.msg = m
        BY <1>1, <3>4 DEF Has
      <3> QED  BY <2>1, <3>1, <3>2, <3>3, <3>4 DEF Has
    <2> QED  BY <1>3, <2>1 DEF Finds, Minds
  <1>4. FilesSent(s)
    BY <1>1, <1>2 DEF FilesSent, Task
  <1>5. Built(s)'
    BY <1>1 DEF Built
  <1> QED  BY <1>3, <1>4, <1>5 DEF Tends

(* A step that leaves what s has tends to all. *)
LEMMA SameTends ==
  ASSUME NEW s \in Sockets, Built(s),
         UNCHANGED <<setting, msgs, freed, files>>,
         cbs'[s] = cbs[s], pending'[s] = pending[s], tasks'[s] = tasks[s]
  PROVE  Tends(s)
  <1>1. Tasks(s)' = Tasks(s)
    BY DEF Tasks
  <1>2. \A m : Has(s, m) => Has(s, m)'
    BY <1>1 DEF Has
  <1>3. FilesSent(s) /\ Built(s)'
    BY <1>1 DEF FilesSent, Built
  <1> QED  BY <1>2, <1>3 DEF Tends, Finds

-----------------------------------------------------------------------------
(* The handlers *)

(* Clients touch nothing of the server. *)
LEMMA ClientTends ==
  ASSUME NEW s \in Sockets, Built(s), Client(s), UNCHANGED setting
  PROVE  Tends(s)
  <1>1. UNCHANGED <<msgs, freed, files, cbs, pending, tasks>>
    BY DEF Client, Send, Hangup, memVars, readVars, listVars
  <1> QED  BY <1>1, SameTends

(* A read is posted with the message of the callback. *)
LEMMA PollTends ==
  ASSUME TypeOK, NEW s \in Sockets, Socket(s), Built(s), Poll(s), UNCHANGED setting
  PROVE  Tends(s)
  <1> DEFINE x == Task("ReadRequest", Head(cbs[s]))
  <1>1. OneEach(s) /\ Reads(s)
    BY DEF Socket
  <1>2. /\ ~queued[s] /\ cbs[s] # <<>> /\ tasks' = [tasks EXCEPT ![s] = Append(@, x)]
        /\ UNCHANGED <<msgs, freed, files, cbs, pending>>
    BY DEF Poll, memVars, listVars
  <1>3. Head(cbs[s]) = Registered(s) /\ Registered(s) \in Nat
    <2>1. Head(cbs[s]) = Registered(s)
      BY <1>2 DEF Registered
    <2>2. Registered(s) # NULL => Registered(s) \in 1 .. Len(msgs)
      BY <1>1, OwnOnes
    <2>3. Len(msgs) \in Nat
      BY <1>1, OwnOnes
    <2> QED  BY <2>1, <2>2, <2>3 DEF NULL
  <1>4. x \in TaskType /\ x \notin Tasks(s)
    BY <1>1, <1>2, <1>3 DEF Task, TaskType, Reads, Handlers
  <1>5. x.handler = "ReadRequest"
    BY DEF Task
  <1> HIDE DEF x
  <1>6. Tasks(s)' = Tasks(s) \cup {x}
    BY <1>1, <1>2, <1>4, PostedBehind
  <1>7. \A m : Has(s, m) => Has(s, m)'
    BY <1>2, <1>6 DEF Has
  <1>8. FilesSent(s) /\ Built(s)'
    BY <1>2, <1>5, <1>6 DEF FilesSent, Built
  <1> QED  BY <1>2, <1>7, <1>8 DEF Tends, Finds

(* The message goes from the handler to the callback. *)
LEMMA RegisterReadTends ==
  ASSUME TypeOK, NEW s \in Sockets, Socket(s), Built(s), RegisterRead(s),
         UNCHANGED setting
  PROVE  Tends(s)
  <1>1. /\ Runs(s, "RegisterRead") /\ Posts(s, <<>>)
        /\ cbs' = [cbs EXCEPT ![s] = Append(@, TheMsg(s))]
        /\ UNCHANGED <<msgs, freed, files, pending>>
    BY DEF RegisterRead, memVars, listVars
  <1>2. "RegisterRead" \in Handlers \ {"SendFile"}
    BY DEF Handlers
  <1>3. cbs[s] \in Seq(Nat) /\ TheMsg(s) \in Nat
    BY <1>1, <1>2, AtHead DEF TypeOK
  <1>4. cbs'[s] = Append(cbs[s], TheMsg(s))
    BY <1>1 DEF TypeOK
  <1>5. ToSet(cbs'[s]) = ToSet(cbs[s]) \cup {TheMsg(s)}
    BY <1>3, <1>4, AppendedElements
  <1>6. Minds(s) /\ \A m : m = TheMsg(s) => Has(s, m)'
    <2>1. Minds(s)
      BY <1>1, <1>5 DEF Minds
    <2>2. ASSUME NEW m, m = TheMsg(s) PROVE Has(s, m)'
      BY <1>5, <2>2 DEF Has
    <2> QED  BY <2>1, <2>2
  <1> QED  BY <1>1, <1>2, <1>6, OffTends

(* A client of a Tidy setting does not leave in the middle of a request. *)
LEMMA NoHalfLeft ==
  ASSUME TypeOK, WebInv, Careful, Tidy, NEW s \in Sockets,
         Runs(s, "ReadRequest"), Text(s) # <<>>, Ends(Text(s)) = {}
  PROVE  peer[s]
  <1> SUFFICES ASSUME ~peer[s] PROVE FALSE
    OBVIOUS
  <1>1. Socket(s) /\ OneEach(s) /\ Treated(s) /\ Sent(s)
    BY DEF WebInv, Socket
  <1>2. Taken(s) + 1 <= asked[s]
    BY Reading
  <1>3. conn[s] # 0
    BY <1>1, AtHead DEF Handlers
  <1>4. /\ Len(got[s]) \in Nat /\ asked[s] \in Nat /\ Taken(s) \in Nat
        /\ Current(s) \in {Len(got[s]), Len(got[s]) + 1}
        /\ Taken(s) \in {Current(s), Current(s) + 1}
    BY Bounds
  <1>5. asked[s] # Len(got[s])
    BY <1>2, <1>4
  <1>6. setting.hasty
    BY <1>1, <1>3, <1>5 DEF Treated
  <1>7. ~setting.halves
    BY <1>6 DEF Tidy
  <1>8. DOMAIN Text(s) = 1 .. Len(Text(s)) /\ Len(Text(s)) \in Nat
    BY <1>1, TextType
  <1>9. 1 \in DOMAIN Text(s)
    <2>1. Len(Text(s)) # 0
      BY <1>1, TextType, EmptySeq
    <2> QED  BY <1>8, <2>1
  <1>10. Text(s)[1][2] \in Says
    BY <1>1, <1>9 DEF Sent
  <1>11. Text(s)[1][2] # "part"
    BY <1>7, <1>10 DEF Says
  <1>12. 1 \in Ends(Text(s))
    BY <1>9, <1>11 DEF Ends
  <1> QED  BY <1>12

(* The messages that a read allocates. *)
LEMMA ReadAllocates ==
  ASSUME TypeOK, WebInv, Careful, NEW s \in Sockets, Runs(s, "ReadRequest"),
         NEW more \in Seq(Message),
         \/ msgs' = WithText(TheMsg(s), Text(s), ~peer[s]) \o more
         \/ more = <<>> /\ msgs' = WithText(TheMsg(s), Text(s), ~peer[s])
  PROVE  /\ DOMAIN msgs' \ DOMAIN msgs = Len(msgs) + 1 .. Len(msgs) + Len(more)
         /\ Len(msgs) \in Nat
  <1>1. Socket(s) /\ OneEach(s)
    BY DEF WebInv, Socket
  <1>2. TheMsg(s) \in DOMAIN msgs
    BY <1>1, AtHead DEF Handlers
  <1>3. Text(s) \in Seq(Chunk) /\ peer[s] \in BOOLEAN
    BY <1>1, TextType DEF TypeOK
  <1> DEFINE r == WithText(TheMsg(s), Text(s), ~peer[s])
             f == ~peer[s]
  <1>4. f \in BOOLEAN
    BY <1>3
  <1>5. /\ DOMAIN (WithText(TheMsg(s), Text(s), f) \o more)
             = 1 .. Len(msgs) + Len(more)
        /\ Len(msgs) \in Nat /\ Len(more) \in Nat /\ DOMAIN msgs = 1 .. Len(msgs)
        /\ WithText(TheMsg(s), Text(s), f) \in Seq(Message)
    <2> HIDE DEF f
    <2> QED  BY <1>2, <1>3, <1>4, TextRead
  <1>6. more = <<>> => r \o more = r
    <2> HIDE DEF r, f
    <2>1. r \in Seq(Message)
      BY <1>5 DEF r, f
    <2> QED  BY <2>1, ConcatEmptySeq
  <1>7. DOMAIN msgs' = 1 .. Len(msgs) + Len(more)
    <2>1. msgs' = r \o more
      BY <1>6
    <2> QED  BY <1>5, <2>1
  <1>8. (1 .. Len(msgs) + Len(more)) \ (1 .. Len(msgs))
          = Len(msgs) + 1 .. Len(msgs) + Len(more)
    <2> DEFINE a == Len(msgs)
               b == Len(more)
    <2>1. a \in Nat /\ b \in Nat
      BY <1>5
    <2> HIDE DEF a, b
    <2>2. (1 .. a + b) \ (1 .. a) = a + 1 .. a + b
      BY <2>1
    <2> QED  BY <2>2 DEF a, b
  <1> QED  BY <1>5, <1>7, <1>8

(* A read leaves a message for the next one, and a place for the others. *)
LEMMA ReadRequestTends ==
  ASSUME TypeOK, WebInv, Careful, Tidy, NEW s \in Sockets, Built(s),
         ReadRequest(s), UNCHANGED setting
  PROVE  Tends(s)
  <1>1. Socket(s) /\ OneEach(s)
    BY DEF WebInv, Socket
  <1>2. /\ Runs(s, "ReadRequest") /\ cbs[s] = <<TheMsg(s)>>
        /\ "ReadRequest" \in Handlers \ {"SendFile"}
        /\ ToSet(cbs[s]) = {TheMsg(s)}
    <2>1. Runs(s, "ReadRequest")
      BY DEF ReadRequest
    <2>2. cbs[s] = <<TheMsg(s)>>
      BY <2>1, Reading
    <2> QED  BY <2>1, <2>2 DEF Handlers, ToSet
  <1>3. pending[s] # NULL => Text(s) = <<>>
    BY <1>2, Reading
  <1>4. TheMsg(s) \in DOMAIN msgs /\ TheMsg(s) # NULL /\ files' = files
    BY <1>1, <1>2, AtHead DEF ReadRequest
  <1>5. "Close" \in Handlers /\ "ParseRequest" \in Handlers
    BY DEF Handlers, Treating
  <1>6. CASE ReadNothing(s)
    <2>1. /\ Posts(s, <<Task("Close", TheMsg(s))>>) /\ freed \subseteq freed'
          /\ UNCHANGED <<msgs, pending>>
      BY <1>6 DEF ReadNothing, ReadError, FreedPending, listVars
    <2>2. Minds(s)
      BY <1>2, <2>1 DEF Minds
    <2> QED  BY <1>1, <1>2, <1>4, <1>5, <2>1, <2>2, OnTends
  <1>7. CASE ReadBeginning(s)
    <2>1. /\ Posts(s, <<>>) /\ msgs' = WithText(TheMsg(s), Text(s), ~peer[s])
          /\ freed' = freed /\ pending' = pending /\ Text(s) # <<>>
          /\ Ends(Text(s)) = {}
      BY <1>7 DEF ReadBeginning, ReadLeaves
    <2>2. cbs' = cbs
      BY <1>2, <1>7, <2>1, NoHalfLeft DEF ReadBeginning
    <2>3. DOMAIN msgs' \ DOMAIN msgs = {}
      <3>1. <<>> \in Seq(Message) /\ Len(<<>>) = 0
        BY EmptySeq
      <3>2. /\ DOMAIN msgs' \ DOMAIN msgs = Len(msgs) + 1 .. Len(msgs) + Len(<<>>)
            /\ Len(msgs) \in Nat
        BY <1>2, <2>1, <3>1, ReadAllocates
      <3> QED  BY <3>1, <3>2
    <2>4. Minds(s) /\ \A m : m = TheMsg(s) => Has(s, m)'
      <3>1. \A m : m = TheMsg(s) => m \in ToSet(cbs'[s])
        BY <1>2, <2>2
      <3> QED  BY <2>1, <2>2, <2>3, <3>1 DEF Minds, Has
    <2> QED  BY <1>1, <1>2, <1>4, <2>1, <2>4, OffTends
  <1>8. CASE ReadLast(s)
    <2>1. /\ Posts(s, <<Task("ParseRequest", TheMsg(s))>>)
          /\ msgs' = WithText(TheMsg(s), Text(s), ~peer[s])
          /\ freed' = freed /\ pending[s] = NULL
      BY <1>8 DEF ReadLast, ReadTreated, ReadLeaves
    <2>2. DOMAIN msgs' \ DOMAIN msgs = {}
      <3>1. <<>> \in Seq(Message) /\ Len(<<>>) = 0
        BY EmptySeq
      <3>2. /\ DOMAIN msgs' \ DOMAIN msgs = Len(msgs) + 1 .. Len(msgs) + Len(<<>>)
            /\ Len(msgs) \in Nat
        BY <1>2, <2>1, <3>1, ReadAllocates
      <3> QED  BY <3>1, <3>2
    <2>3. Minds(s)
      BY <1>2, <2>1, <2>2 DEF Minds
    <2> QED  BY <1>1, <1>2, <1>4, <1>5, <2>1, <2>3, OnTends
  <1>9. /\ \A x : ToSet(<<x>>) = {x}
        /\ cbs \in [Sockets -> Seq(Nat)] /\ pending \in [Sockets -> Nat]
    BY DEF ToSet, TypeOK
  <1>10. ASSUME NEW e \in Ends(Text(s))
         PROVE  Rest(NewMsg(s), Text(s), e) \in Message
    BY <1>1, TextType, RestMessage
  <1>11. CASE ReadBehind(s)
    <2> DEFINE new == Rest(NewMsg(s), Text(s), Len(Text(s)))
    <2>1. /\ Posts(s, <<>>) /\ freed' = freed /\ pending[s] = NULL
          /\ msgs' = WithText(TheMsg(s), Text(s), ~peer[s]) \o <<new>>
          /\ cbs' = [cbs EXCEPT ![s] = <<Len(msgs) + 1>>]
          /\ pending' = [pending EXCEPT ![s] = TheMsg(s)]
          /\ Len(Text(s)) \in Ends(Text(s))
      BY <1>11 DEF ReadBehind, ReadLeaves
    <2>2. new \in Message
      BY <1>10, <2>1
    <2> HIDE DEF new
    <2>3. DOMAIN msgs' \ DOMAIN msgs = {Len(msgs) + 1}
      <3>1. <<new>> \in Seq(Message) /\ Len(<<new>>) = 1
        BY <2>2
      <3>2. /\ DOMAIN msgs' \ DOMAIN msgs = Len(msgs) + 1 .. Len(msgs) + Len(<<new>>)
            /\ Len(msgs) \in Nat
        BY <1>2, <2>1, <3>1, ReadAllocates
      <3> QED  BY <3>1, <3>2
    <2>4. ToSet(cbs'[s]) = {Len(msgs) + 1} /\ pending'[s] = TheMsg(s)
      <3>1. cbs'[s] = <<Len(msgs) + 1>>
        BY <1>9, <2>1
      <3> QED  BY <1>9, <2>1, <3>1
    <2>5. Minds(s)
      BY <1>2, <2>1, <2>3, <2>4 DEF Minds, Has
    <2>6. \A m : m = TheMsg(s) => Has(s, m)'
      BY <1>4, <2>4 DEF Has, NULL
    <2> QED  BY <1>1, <1>2, <1>4, <2>1, <2>5, <2>6, OffTends
  <1>12. CASE ReadOne(s)
    <2>1. PICK e \in Nat :
            /\ Ends(Text(s)) = {e}
            /\ msgs' = WithText(TheMsg(s), Text(s), ~peer[s])
                         \o <<Rest(NewMsg(s), Text(s), e)>>
      BY <1>12 DEF ReadOne
    <2> DEFINE new == Rest(NewMsg(s), Text(s), e)
    <2>2. /\ Posts(s, <<Task("ParseRequest", TheMsg(s))>>) /\ freed' = freed
          /\ pending[s] = NULL
          /\ msgs' = WithText(TheMsg(s), Text(s), ~peer[s]) \o <<new>>
          /\ cbs' = [cbs EXCEPT ![s] = <<Len(msgs) + 1>>]
      BY <1>12, <2>1 DEF ReadOne, ReadTreated, ReadLeaves
    <2>3. new \in Message
      BY <1>10, <2>1
    <2> HIDE DEF new
    <2>4. DOMAIN msgs' \ DOMAIN msgs = {Len(msgs) + 1}
      <3>1. <<new>> \in Seq(Message) /\ Len(<<new>>) = 1
        BY <2>3
      <3>2. /\ DOMAIN msgs' \ DOMAIN msgs = Len(msgs) + 1 .. Len(msgs) + Len(<<new>>)
            /\ Len(msgs) \in Nat
        BY <1>2, <2>2, <3>1, ReadAllocates
      <3> QED  BY <3>1, <3>2
    <2>5. ToSet(cbs'[s]) = {Len(msgs) + 1}
      <3>1. cbs'[s] = <<Len(msgs) + 1>>
        BY <1>9, <2>2
      <3> QED  BY <1>9, <3>1
    <2>6. Minds(s)
      BY <1>2, <2>2, <2>4, <2>5 DEF Minds, Has
    <2> QED  BY <1>1, <1>2, <1>4, <1>5, <2>2, <2>6, OnTends
  <1>13. CASE ReadTwo(s)
    <2>1. PICK e \in 1 .. Len(Text(s)) - 1 :
            /\ Ends(Text(s)) = {e, Len(Text(s))}
            /\ msgs' = WithText(TheMsg(s), Text(s), ~peer[s])
                         \o <<Second(NewMsg(s), Text(s), e),
                              Rest(NewMsg(s), Text(s), Len(Text(s)))>>
      BY <1>13 DEF ReadTwo
    <2> DEFINE one == Second(NewMsg(s), Text(s), e)
               two == Rest(NewMsg(s), Text(s), Len(Text(s)))
    <2>2. /\ Posts(s, <<Task("ParseRequest", TheMsg(s))>>) /\ freed' = freed
          /\ pending[s] = NULL /\ pending' = [pending EXCEPT ![s] = Len(msgs) + 1]
          /\ msgs' = WithText(TheMsg(s), Text(s), ~peer[s]) \o <<one, two>>
          /\ cbs' = [cbs EXCEPT ![s] = <<Len(msgs) + 2>>]
      BY <1>13, <2>1 DEF ReadTwo, ReadTreated, ReadLeaves
    <2>3. one \in Message /\ two \in Message
      <3>1. e \in 1 .. Len(Text(s)) /\ Text(s) \in Seq(Chunk)
        BY <1>1, TextType
      <3> QED  BY <1>10, <2>1, <3>1, SecondMessage
    <2> HIDE DEF one, two
    <2>4. /\ DOMAIN msgs' \ DOMAIN msgs = {Len(msgs) + 1, Len(msgs) + 2}
          /\ Len(msgs) \in Nat
      <3>1. <<one, two>> \in Seq(Message) /\ Len(<<one, two>>) = 2
        BY <2>3
      <3>2. /\ DOMAIN msgs' \ DOMAIN msgs
                 = Len(msgs) + 1 .. Len(msgs) + Len(<<one, two>>)
            /\ Len(msgs) \in Nat
        BY <1>2, <2>2, <3>1, ReadAllocates
      <3> QED  BY <3>1, <3>2
    <2>5. ToSet(cbs'[s]) = {Len(msgs) + 2} /\ pending'[s] = Len(msgs) + 1
      <3>1. cbs'[s] = <<Len(msgs) + 2>>
        BY <1>9, <2>2
      <3> QED  BY <1>9, <2>2, <3>1
    <2>6. ASSUME NEW m \in DOMAIN msgs' \ DOMAIN msgs PROVE Has(s, m)'
      <3>1. m = Len(msgs) + 2 \/ (m = Len(msgs) + 1 /\ m # 0)
        BY <2>4
      <3> QED  BY <2>5, <3>1 DEF Has, NULL
    <2>7. Minds(s)
      BY <1>2, <2>2, <2>6 DEF Minds
    <2> QED  BY <1>1, <1>2, <1>4, <1>5, <2>2, <2>7, OnTends
  <1> QED  BY <1>6, <1>7, <1>8, <1>11, <1>12, <1>13, ReadComesTo

(* A treatment that goes on, and changes nothing else, tends to all. *)
LEMMA ForthTends ==
  ASSUME TypeOK, NEW s \in Sockets, Socket(s), Built(s),
         NEW h \in Handlers \ {"SendFile"}, Runs(s, h), NEW g \in Handlers,
         g \in {"WriteHeaders", "SendFile"} => setting.sendfile \/ h = "WriteHeaders",
         Posts(s, <<Task(g, TheMsg(s))>>), freed \subseteq freed',
         UNCHANGED <<setting, msgs, files, pending>>,
         cbs' = cbs \/ setting.kinds # {"file"}
  PROVE  Tends(s)
  <1>1. setting.kinds = {"file"} => Minds(s)
    BY DEF Minds
  <1> QED  BY <1>1, OnTends

(* A request is parsed. *)
LEMMA ParseRequestTends ==
  ASSUME TypeOK, WebInv, NEW s \in Sockets, Built(s), ParseRequest(s),
         UNCHANGED setting
  PROVE  Tends(s)
  <1> DEFINE m == TheMsg(s)
             kind == Asked(m)[2]
  <1>1. Socket(s) /\ Plain
    BY DEF WebInv
  <1>2. /\ Runs(s, "ParseRequest") /\ UNCHANGED <<msgs, files, pending>>
        /\ "ParseRequest" \in Handlers \ {"SendFile"} /\ "ParseRequest" \in Treating
        /\ {"BadRequest", "Close", "WriteHeaders", "CheckInCache"} \subseteq Handlers
    BY DEF ParseRequest, Handlers, Treating
  <1>3. m \in DOMAIN msgs
    BY <1>1, <1>2, AtHead
  <1>4. kind \in setting.kinds
    <2>1. Ends(msgs[m].data) # {}
      BY <1>1, <1>2, Treatment1
    <2> QED  BY <1>1, <1>3, <2>1, AskedKind
  <1>5. \/ /\ kind = "bad"
           /\ Posts(s, <<Task("BadRequest", m)>>) /\ freed' = freed
        \/ /\ kind # "bad" /\ freed' = FreedPending(s, m) /\ cbs' = cbs
           /\ Posts(s, <<Task("Close", m)>>)
        \/ /\ kind # "bad" /\ freed' = freed /\ cbs' = cbs
           /\ Posts(s, IF kind = "special" THEN <<>>
                       ELSE <<Task(IF setting.sendfile THEN "WriteHeaders"
                                                  ELSE "CheckInCache", m)>>)
    BY DEF ParseRequest
  <1> HIDE DEF m, kind
  <1>6. CASE kind = "bad"
    <2>1. setting.kinds # {"file"}
      BY <1>4, <1>6
    <2> QED  BY <1>1, <1>2, <1>5, <1>6, <2>1, ForthTends DEF m
  <1>7. CASE freed' = FreedPending(s, m) /\ cbs' = cbs /\ Posts(s, <<Task("Close", m)>>)
    <2>1. freed \subseteq freed'
      BY <1>7 DEF FreedPending
    <2> QED  BY <1>1, <1>2, <1>7, <2>1, ForthTends DEF m
  <1>8. CASE /\ kind = "special" /\ freed' = freed /\ Posts(s, <<>>)
    <2>1. setting.kinds # {"file"}
      BY <1>4, <1>8
    <2> QED  BY <1>1, <1>2, <1>8, <2>1, OffTends
  <1>9. CASE /\ freed' = freed /\ cbs' = cbs /\ setting.sendfile
             /\ Posts(s, <<Task("WriteHeaders", m)>>)
    BY <1>1, <1>2, <1>9, ForthTends DEF m
  <1>10. CASE /\ freed' = freed /\ cbs' = cbs
              /\ Posts(s, <<Task("CheckInCache", m)>>)
    BY <1>1, <1>2, <1>10, ForthTends DEF m
  <1> QED  BY <1>5, <1>6, <1>7, <1>8, <1>9, <1>10

(* The build, or the file that is missing, decides where it goes. *)
LEMMA CheckInCacheTends ==
  ASSUME TypeOK, WebInv, NEW s \in Sockets, Built(s), UNCHANGED setting,
         CheckInCache(s) \/ WriteHeaders(s)
  PROVE  Tends(s)
  <1> DEFINE m == TheMsg(s)
             kind == Asked(m)[2]
  <1>1. Socket(s) /\ Plain
    BY DEF WebInv
  <1>2. PICK h \in {"CheckInCache", "WriteHeaders"} :
          /\ Runs(s, h) /\ UNCHANGED <<msgs, files, pending, freed>>
          /\ \/ kind = "missing" /\ Posts(s, <<Task("FourOhFor", m)>>)
             \/ /\ cbs' = cbs
                /\ \E g \in {"CompressResponse", "Write", "FreeRequest",
                             "WriteHeaders", "SendFile"} :
                     /\ g \in {"WriteHeaders", "SendFile"} => h = "WriteHeaders"
                     /\ Posts(s, <<Task(g, m)>>)
    <2>1. CASE CheckInCache(s)
      <3>1. /\ Runs(s, "CheckInCache") /\ UNCHANGED <<msgs, files, pending, freed>>
            /\ \/ kind = "missing" /\ Posts(s, <<Task("FourOhFor", m)>>)
               \/ /\ cbs' = cbs
                  /\ Posts(s, <<Task(IF setting.gzip THEN "CompressResponse"
                                                     ELSE "Write", m)>>)
        BY <2>1 DEF CheckInCache, memVars, listVars
      <3> HIDE DEF m, kind
      <3>2. CASE setting.gzip
        BY <3>1, <3>2
      <3>3. CASE ~setting.gzip
        BY <3>1, <3>3
      <3> QED  BY <3>2, <3>3
    <2>2. CASE WriteHeaders(s)
      <3>1. /\ Runs(s, "WriteHeaders") /\ UNCHANGED <<msgs, files, pending, freed>>
            /\ \/ kind = "missing" /\ Posts(s, <<Task("FourOhFor", m)>>)
               \/ /\ cbs' = cbs
                  /\ \E g \in {"WriteHeaders",
                               IF peer[s] THEN "SendFile" ELSE "FreeRequest"} :
                       Posts(s, <<Task(g, m)>>)
        BY <2>2 DEF WriteHeaders, memVars, listVars
      <3> HIDE DEF m, kind
      <3> QED  BY <3>1
    <2> QED  BY <2>1, <2>2
  <1>3. /\ h \in Handlers \ {"SendFile"} /\ h \in Treating
        /\ {"FourOhFor", "CompressResponse", "Write", "FreeRequest",
            "WriteHeaders", "SendFile"} \subseteq Handlers
    BY DEF Handlers, Treating
  <1>4. m \in DOMAIN msgs
    BY <1>1, <1>2, <1>3, AtHead
  <1>5. kind \in setting.kinds
    <2>1. Ends(msgs[m].data) # {}
      BY <1>1, <1>2, <1>3, Treatment1
    <2> QED  BY <1>1, <1>4, <2>1, AskedKind
  <1> HIDE DEF m, kind
  <1>6. CASE kind = "missing" /\ Posts(s, <<Task("FourOhFor", m)>>)
    <2>1. setting.kinds # {"file"}
      BY <1>5, <1>6
    <2> QED  BY <1>1, <1>2, <1>3, <1>6, <2>1, ForthTends DEF m
  <1>7. ASSUME cbs' = cbs,
               NEW g \in {"CompressResponse", "Write", "FreeRequest",
                          "WriteHeaders", "SendFile"},
               g \in {"WriteHeaders", "SendFile"} => h = "WriteHeaders",
               Posts(s, <<Task(g, m)>>)
        PROVE  Tends(s)
    <2>1. g \in Handlers
      BY <1>3
    <2> QED  BY <1>1, <1>2, <1>3, <1>7, <2>1, ForthTends DEF m
  <1> QED  BY <1>2, <1>6, <1>7

(* The response is compressed and written, in the end or not. *)
LEMMA WriteTends ==
  ASSUME TypeOK, WebInv, NEW s \in Sockets, Built(s), UNCHANGED setting,
         \/ CompressResponse(s) \/ WriteAll(s) \/ WriteSome(s) \/ WriteFails(s)
         \/ ErrorAnswer(s) \/ CloseWaits(s)
  PROVE  Tends(s)
  <1>1. Socket(s)
    BY DEF WebInv
  <1>2. PICK h \in {"CompressResponse", "Write", "FourOhFor", "BadRequest", "Close"},
             g \in {"Write", "FreeRequest", "Close"} :
          /\ Runs(s, h) /\ Posts(s, <<Task(g, TheMsg(s))>>) /\ freed \subseteq freed'
          /\ UNCHANGED <<msgs, files, pending, cbs>>
    <2>1. CASE CompressResponse(s)
      BY <2>1 DEF CompressResponse, readVars, memVars, listVars
    <2>2. CASE WriteAll(s)
      BY <2>2 DEF WriteAll, readVars, memVars, listVars
    <2>3. CASE WriteSome(s)
      BY <2>3 DEF WriteSome, readVars, memVars, listVars
    <2>4. CASE WriteFails(s)
      BY <2>4 DEF WriteFails, readVars, memVars, listVars
    <2>5. CASE ErrorAnswer(s)
      BY <2>5 DEF ErrorAnswer, FreedPending, readVars
    <2>6. CASE CloseWaits(s)
      BY <2>6 DEF CloseWaits, readVars, memVars, listVars
    <2> QED  BY <2>1, <2>2, <2>3, <2>4, <2>5, <2>6
  <1>3. h \in Handlers \ {"SendFile"} /\ g \in Handlers
    BY DEF Handlers, Treating
  <1>4. g \notin {"WriteHeaders", "SendFile"}
    OBVIOUS
  <1> QED  BY <1>1, <1>2, <1>3, <1>4, ForthTends

(* The file is sent: it is closed, or is to be sent on. *)
LEMMA SendFileTends ==
  ASSUME TypeOK, WebInv, Careful, Tidy, NEW s \in Sockets, Built(s),
         UNCHANGED setting, SendFileAll(s) \/ SendFileSome(s)
  PROVE  Tends(s)
  <1> DEFINE m == TheMsg(s)
  <1>1. Socket(s)
    BY DEF WebInv
  <1>2. Runs(s, "SendFile") /\ UNCHANGED <<msgs, freed, cbs, pending>>
    BY DEF SendFileAll, SendFileSome, readVars, listVars
  <1>3. /\ "SendFile" \in Handlers /\ "SendFile" \in Treating
        /\ "FreeRequest" \in Handlers
    BY DEF Handlers, Treating
  <1>4. /\ Head(tasks[s]) \in Tasks(s) /\ Head(tasks[s]).handler = "SendFile"
        /\ Head(tasks[s]).msg = m /\ conn[s] # 0
        /\ \A t \in Tasks(s) : t # Head(tasks[s]) => t.msg # m
    BY <1>1, <1>2, <1>3, AtHead
  <1>5. setting.sendfile
    BY <1>4 DEF Built
  <1>6. peer[s]
    <2>1. treats[s] = 1 /\ ~Answered(s)
      BY <1>1, <1>2, <1>3, Treatment1
    <2>2. ~peer[s] => setting.hasty
      BY <1>1, <1>4, <2>1, GoneBehind
    <2> QED  BY <1>5, <2>2 DEF Tidy
  <1>7. \/ files' = files \ {m} /\ Posts(s, <<Task("FreeRequest", m)>>)
        \/ files' = files \cup {m} /\ Posts(s, <<Task("SendFile", m)>>)
    BY <1>6 DEF SendFileAll, SendFileSome
  <1> HIDE DEF m
  <1>8. ASSUME NEW g \in Handlers, Posts(s, <<Task(g, m)>>)
        PROVE  /\ Tasks(s)' = (Tasks(s) \ {Head(tasks[s])}) \cup {Task(g, m)}
               /\ Finds(s)
    <2>1. /\ Tasks(s)' = (Tasks(s) \ {Head(tasks[s])}) \cup {Task(g, m)}
          /\ \A n : (\E t \in Tasks(s) : t.msg = n)
                      <=> (\E t \in Tasks(s)' : t.msg = n)
      BY <1>1, <1>2, <1>3, <1>8, HandedOn DEF m
    <2> QED  BY <1>2, <2>1 DEF Finds, Has
  <1>9. Built(s)'
    BY <1>5 DEF Built
  <1>10. CASE files' = files \ {m} /\ Posts(s, <<Task("FreeRequest", m)>>)
    <2>1. FilesSent(s)
      BY <1>3, <1>4, <1>8, <1>10 DEF FilesSent, Task
    <2> QED  BY <1>3, <1>8, <1>9, <1>10, <2>1 DEF Tends
  <1>11. CASE files' = files \cup {m} /\ Posts(s, <<Task("SendFile", m)>>)
    <2>1. FilesSent(s)
      BY <1>3, <1>4, <1>8, <1>11 DEF FilesSent, Task
    <2> QED  BY <1>3, <1>8, <1>9, <1>11, <2>1 DEF Tends
  <1> QED  BY <1>7, <1>10, <1>11

(* The message of the request is freed, and the pending one is treated. *)
LEMMA FreeRequestTends ==
  ASSUME TypeOK, WebInv, NEW s \in Sockets, Built(s), FreeRequest(s),
         UNCHANGED setting
  PROVE  Tends(s)
  <1> DEFINE m == TheMsg(s)
             p == pending[s]
             x == Task("ParseRequest", p)
  <1>1. Socket(s) /\ OneEach(s) /\ Plain
    BY DEF WebInv, Socket
  <1>2. /\ Runs(s, "FreeRequest") /\ UNCHANGED <<msgs, files, cbs>>
        /\ freed' = freed \cup {m}
    BY DEF FreeRequest, readVars
  <1>3. {"FreeRequest", "ParseRequest"} \subseteq Handlers \ {"SendFile"}
    BY DEF Handlers, Treating
  <1>4. CASE p = NULL
    <2>1. Posts(s, <<>>) /\ pending' = pending
      BY <1>4 DEF FreeRequest
    <2>2. Minds(s) /\ \A n : n = m => n \in freed'
      BY <1>2, <2>1 DEF Minds
    <2> QED  BY <1>1, <1>2, <1>3, <2>1, <2>2, OffTends
  <1>5. CASE p # NULL
    <2>1. Posts(s, <<x>>) /\ p \in Nat
      BY <1>5 DEF FreeRequest, TypeOK
    <2>2. /\ tasks[s] # <<>> /\ Head(tasks[s]) \in Tasks(s)
          /\ Head(tasks[s]).msg = m /\ Head(tasks[s]).handler = "FreeRequest"
      BY <1>1, <1>2, <1>3, AtHead
    <2>3. x \in TaskType /\ x.msg = p /\ x.handler = "ParseRequest" /\ x \notin Tasks(s)
      BY <1>1, <1>3, <1>5, <2>1 DEF Task, TaskType, OneEach
    <2> HIDE DEF x, p, m
    <2>4. Tasks(s)' = (Tasks(s) \ {Head(tasks[s])}) \cup {x}
      BY <1>1, <2>1, <2>2, <2>3, Posting
    <2>5. ASSUME NEW n, Has(s, n) PROVE n \in freed' \/ Has(s, n)'
      <3>1. CASE n \in ToSet(cbs[s])
        BY <1>2, <3>1 DEF Has
      <3>2. CASE n = p
        BY <2>3, <2>4, <3>2 DEF Has
      <3>3. CASE \E t \in Tasks(s) : t.msg = n
        BY <1>2, <2>2, <2>4, <3>3 DEF Has
      <3> QED  BY <2>5, <3>1, <3>2, <3>3 DEF Has, p
    <2>6. Finds(s)
      BY <1>2, <2>5 DEF Finds
    <2>7. FilesSent(s)
      BY <1>2, <2>2, <2>4 DEF FilesSent, Task
    <2>8. Built(s)'
      BY <2>3, <2>4 DEF Built
    <2> QED  BY <2>6, <2>7, <2>8 DEF Tends
  <1> QED  BY <1>4, <1>5

(* The message of the connection is freed with it. *)
LEMMA CloseTends ==
  ASSUME TypeOK, WebInv, NEW s \in Sockets, Built(s), Close(s), UNCHANGED setting
  PROVE  Tends(s)
  <1>1. Socket(s)
    BY DEF WebInv
  <1>2. /\ Runs(s, "Close") /\ Posts(s, <<>>) /\ freed' = freed \cup {TheMsg(s)}
        /\ UNCHANGED <<msgs, files, cbs, pending>>
    BY DEF Close, readVars, listVars
  <1>3. "Close" \in Handlers \ {"SendFile"}
    BY DEF Handlers
  <1>4. Minds(s) /\ \A n : n = TheMsg(s) => n \in freed'
    BY <1>2 DEF Minds
  <1> QED  BY <1>1, <1>2, <1>3, <1>4, OffTends

-----------------------------------------------------------------------------
(* The steps *)

(* A step of a connection loses nothing. *)
LEMMA ConnectionLost ==
  ASSUME TypeOK, WebInv, LostInv, Careful, Tidy, NEW s \in Sockets,
         UNCHANGED setting, Poll(s) \/ Handler(s) \/ Client(s)
  PROVE  LostInv'
  <1>1. Built(s) /\ Socket(s)
    BY DEF LostInv, WebInv
  <1>2. Tends(s)
    BY <1>1, PollTends, RegisterReadTends, ReadRequestTends, ParseRequestTends,
       CheckInCacheTends, WriteTends, SendFileTends, FreeRequestTends, CloseTends,
       ClientTends
       DEF Handler, Treatment
  <1>3. ASSUME NEW t \in Sockets \ {s}
        PROVE  cbs'[t] = cbs[t] /\ pending'[t] = pending[t] /\ tasks'[t] = tasks[t]
    <2>1. CASE Close(s)
      BY <2>1 DEF Close, Posts, readVars, listVars, TypeOK
    <2>2. CASE ~Close(s)
      <3>1. Keeps(s)
        BY <2>2, ConnectionLocal
      <3> QED  BY <3>1 DEF Keeps, Local
    <2> QED  BY <2>1, <2>2
  <1> QED  BY <1>2, <1>3, TendsKeeps

(* Every message of a batch has the task that registers its read. *)
LEMMA AcceptLost ==
  ASSUME TypeOK, LostInv, Accept, UNCHANGED setting
  PROVE  LostInv'
  <1>1. PICK batch \in SUBSET {s \in setting.sockets : conn[s] = 0} :
       LET n == Cardinality(batch)
           order == SetToSeq(batch)
           Index(s) == CHOOSE i \in 1 .. n : order[i] = s
       IN /\ msgs' = msgs \o [i \in 1 .. n |->
                                [NewMsg(order[i]) EXCEPT
                                   !.conn = conn'[order[i]]]]
          /\ tasks' = [s \in Sockets |->
                         IF s \in batch
                         THEN Append(tasks[s],
                                     Task("RegisterRead", Len(msgs) + Index(s)))
                         ELSE tasks[s]]
    BY DEF Accept
  <1> DEFINE n == Cardinality(batch)
             order == SetToSeq(batch)
             Index(s) == CHOOSE i \in 1 .. n : order[i] = s
             New(i) == [NewMsg(order[i]) EXCEPT !.conn = conn'[order[i]]]
             new == [i \in 1 .. n |-> New(i)]
             x(s) == Task("RegisterRead", Len(msgs) + Index(s))
  <1>2. UNCHANGED <<cbs, freed, files, pending>>
    BY DEF Accept, readVars, listVars
  <1>3. /\ msgs' = msgs \o new
        /\ tasks' = [s \in Sockets |-> IF s \in batch THEN Append(tasks[s], x(s))
                                                      ELSE tasks[s]]
    BY <1>1
  <1>4. batch \subseteq Sockets /\ IsFiniteSet(batch)
    <2>1. setting.sockets \subseteq Sockets /\ IsFiniteSet(Sockets)
      BY WebAssumption DEF TypeOK
    <2>2. batch \in SUBSET Sockets
      BY <2>1
    <2> QED  BY <2>1, <2>2, FS_Subset
  <1>5. /\ n \in Nat /\ order \in [1 .. n -> batch]
        /\ \A s \in batch : Index(s) \in 1 .. n
        /\ \A i \in 1 .. n : Index(order[i]) = i
    BY <1>4, BatchOrder
  <1> HIDE DEF n, order, Index, New
  <1>6. /\ DOMAIN msgs' = 1 .. Len(msgs) + n /\ DOMAIN msgs = 1 .. Len(msgs)
        /\ Len(msgs) \in Nat
    <2> DEFINE T == Message \cup {New(i) : i \in 1 .. n}
    <2>1. msgs \in Seq(Message) /\ Len(msgs) \in Nat /\ DOMAIN msgs = 1 .. Len(msgs)
      BY LenProperties DEF TypeOK
    <2>2. msgs \in Seq(T)
      <3>1. \A i \in 1 .. Len(msgs) : msgs[i] \in T
        BY <2>1, ElementOfSeq
      <3>2. msgs = [i \in 1 .. Len(msgs) |-> msgs[i]]
        BY <2>1, LenProperties
      <3> QED  BY <2>1, <3>1, <3>2, IsASeq
    <2>3. new \in [1 .. n -> T]
      OBVIOUS
    <2> HIDE DEF T, new
    <2>4. new \in Seq(T) /\ Len(new) = n
      BY <1>5, <2>3, IsASeq, LenProperties
    <2> DEFINE r == msgs \o new
    <2>5. r \in Seq(T) /\ Len(r) = Len(msgs) + n
      BY <2>2, <2>4, ConcatProperties
    <2>6. msgs' = r
      BY <1>3
    <2> HIDE DEF r
    <2> QED  BY <2>1, <2>5, <2>6, LenProperties
  <1> HIDE DEF new, x
  <1>7. ASSUME NEW s \in Sockets
        PROVE  /\ Tasks(s) \subseteq Tasks(s)'
               /\ s \in batch => x(s) \in Tasks(s)'
               /\ \A t \in Tasks(s)' : t \in Tasks(s) \/ t.handler = "RegisterRead"
    <2>1. CASE s \in batch
      <3>1. x(s).handler = "RegisterRead" /\ x(s) \in TaskType
        BY <1>5, <1>6, <2>1 DEF x, Task, TaskType, Handlers
      <3>2. tasks'[s] = Append(tasks[s], x(s)) /\ tasks[s] \in Seq(TaskType)
        BY <1>3, <2>1 DEF TypeOK, TaskType
      <3> DEFINE y == x(s)
      <3> HIDE DEF y
      <3>3. ToSet(Append(tasks[s], y)) = ToSet(tasks[s]) \cup {y}
        BY <3>1, <3>2, AppendedElements DEF y
      <3> QED  BY <3>1, <3>2, <3>3 DEF y, Tasks
    <2>2. CASE s \notin batch
      BY <1>3, <2>2 DEF Tasks
    <2> QED  BY <2>1, <2>2
  <1>8. ASSUME setting'.kinds = {"file"}, NEW m \in DOMAIN msgs' \ freed'
        PROVE  \E s \in Sockets : Has(s, m)'
    <2>1. CASE m \in DOMAIN msgs
      <3>1. PICK s \in Sockets : Has(s, m)
        BY <1>2, <1>8, <2>1 DEF LostInv
      <3> QED  BY <1>2, <1>7, <3>1 DEF Has
    <2>2. CASE m \notin DOMAIN msgs
      <3> DEFINE i == m - Len(msgs)
      <3>1. i \in 1 .. n /\ Len(msgs) + i = m
        BY <1>5, <1>6, <2>2
      <3>2. PICK s \in batch : Index(s) = i
        BY <1>5, <3>1
      <3> HIDE DEF i
      <3>3. x(s).msg = m
        BY <3>1, <3>2 DEF x, Task
      <3>4. s \in Sockets /\ x(s) \in Tasks(s)'
        BY <1>4, <1>7
      <3> QED  BY <3>3, <3>4 DEF Has
    <2> QED  BY <2>1, <2>2
  <1>9. ASSUME NEW m \in files'
        PROVE  \E s \in Sockets : Task("SendFile", m) \in Tasks(s)'
    BY <1>2, <1>7 DEF LostInv
  <1>10. \A s \in Sockets : Built(s)'
    BY <1>7 DEF LostInv, Built
  <1> QED  BY <1>8, <1>9, <1>10 DEF LostInv, Task

(* Every step but loses nothing. *)
LEMMA NextLost == WebSafe /\ LostSafe /\ [Next]_vars => LostSafe'
  <1> SUFFICES ASSUME WebSafe, LostSafe, [Next]_vars, Careful', Tidy'
               PROVE  LostInv'
    BY DEF LostSafe
  <1>1. UNCHANGED setting
    BY DEF Next, Goes, vars
  <1>2. Careful /\ Tidy
    BY <1>1 DEF Careful, OneByOne, AtMostTwo, NoError, Tidy
  <1>3. TypeOK /\ WebInv /\ LostInv
    BY <1>2 DEF WebSafe, LostSafe
  <1>4. CASE Accept
    BY <1>1, <1>3, <1>4, AcceptLost
  <1>5. ASSUME UNCHANGED <<msgs, freed, files, cbs, pending, tasks>>
        PROVE  LostInv'
    <2>1. \A s \in Sockets : /\ Tasks(s)' = Tasks(s) /\ (Built(s) => Built(s)')
                             /\ \A m : Has(s, m) <=> Has(s, m)'
      BY <1>1, <1>5 DEF Tasks, Has, Built
    <2>2. /\ setting' = setting /\ files' = files
          /\ DOMAIN msgs' \ freed' = DOMAIN msgs \ freed
      BY <1>1, <1>5
    <2>3. \A m \in files' : \E s \in Sockets : Task("SendFile", m)' \in Tasks(s)'
      BY <1>3, <2>1, <2>2 DEF LostInv, Task
    <2> QED  BY <1>3, <2>1, <2>2, <2>3 DEF LostInv
  <1>6. CASE DecAcceptedClients
    BY <1>5, <1>6 DEF DecAcceptedClients, memVars, listVars, readVars
  <1>7. CASE UNCHANGED vars
    BY <1>5, <1>7 DEF vars, memVars, listVars, readVars
  <1>8. ASSUME NEW s \in Sockets, Poll(s) \/ Handler(s) \/ Client(s)
        PROVE  LostInv'
    BY <1>1, <1>2, <1>3, <1>8, ConnectionLost
  <1> QED  BY <1>4, <1>6, <1>7, <1>8 DEF Next

(* No message and no file is lost at the start. *)
LEMMA InitLost == Init => LostSafe
  <1> SUFFICES ASSUME Init PROVE LostInv
    BY DEF LostSafe
  <1>1. msgs = <<>> /\ files = {} /\ tasks = [s \in Sockets |-> <<>>]
    BY DEF Init
  <1>2. DOMAIN msgs = {}
    BY <1>1
  <1>3. \A s \in Sockets : Tasks(s) = {}
    BY <1>1, EmptyList DEF Tasks
  <1> QED  BY <1>1, <1>2, <1>3 DEF LostInv, Built

(* With the invariant, what the connections have is what NothingLost says. *)
LEMMA LostNothing ==
  ASSUME TypeOK, WebInv, LostInv
  PROVE  NothingLost
  <1>1. ASSUME NEW s \in Sockets
        PROVE  /\ OneEach(s)
               /\ PendingMsgs(s) = IF pending[s] = NULL THEN {} ELSE {pending[s]}
    BY PendingOne DEF WebInv, Socket
  <1>2. ASSUME setting.kinds = {"file"}, NEW m \in DOMAIN msgs \ freed
        PROVE  m \in UNION {ToSet(cbs[s]) \cup PendingMsgs(s)
                              \cup {tasks[s][i].msg : i \in DOMAIN tasks[s]} :
                                s \in Sockets}
    <2>1. PICK s \in Sockets : Has(s, m)
      BY <1>2 DEF LostInv
    <2>2. CASE m \in ToSet(cbs[s])
      BY <2>2
    <2>3. CASE m = pending[s] /\ m # NULL
      <3>1. m \in PendingMsgs(s)
        BY <1>1, <2>3
      <3> QED  BY <3>1
    <2>4. CASE \E t \in Tasks(s) : t.msg = m
      <3>1. m \in {tasks[s][i].msg : i \in DOMAIN tasks[s]}
        BY <2>4 DEF Tasks, ToSet
      <3> QED  BY <3>1
    <2> QED  BY <2>1, <2>2, <2>3, <2>4 DEF Has
  <1>3. ASSUME NEW m \in files PROVE m \notin freed
    <2>1. PICK s \in Sockets : Task("SendFile", m) \in Tasks(s)
      BY DEF LostInv
    <2>2. Task("SendFile", m).msg \in Own(s)
      BY <1>1, <2>1 DEF OneEach
    <2> QED  BY <2>2 DEF Own, Task
  <1> QED  BY <1>2, <1>3 DEF NothingLost

(* Every message is freed or is somewhere, and no file stays open behind   *)
(* its message, with Careful and Tidy settings.                            *)
THEOREM NothingIsLost == Spec => [](Careful /\ Tidy => NothingLost)
  <1>1. Init => WebSafe /\ LostSafe
    BY InitSafe, InitLost
  <1>2. WebSafe /\ LostSafe /\ [Next]_vars => (WebSafe /\ LostSafe)'
    BY NextSafe, NextLost
  <1>3. WebSafe /\ LostSafe => (Careful /\ Tidy => NothingLost)
    BY LostNothing DEF WebSafe, LostSafe
  <1> QED  BY <1>1, <1>2, <1>3, PTL DEF Spec
=============================================================================

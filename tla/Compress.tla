------------------------------ MODULE Compress ------------------------------
(***************************************************************************)
(* Programs that compress with the vendored zlib, of three kinds (mode):   *)
(*                                                                         *)
(*   calls    one stream and the calls of deflate as zlib.h allows them:   *)
(*            input and room in pieces, flushes, a change of parameters;   *)
(*   sync     the web server built with USE_GZIP: CompressResponse does    *)
(*            the whole of it in one call of compress;                     *)
(*   driven   the web server built with USE_EVENT_DRIVEN_GZIP: a turn of   *)
(*            deflate_fast is a task, posted again until the text ends, in *)
(*            the color of the message; the end is a task of a pinned      *)
(*            color, since the memory of a stream, and the number of       *)
(*            streams, belong to the thread that started it.               *)
(*                                                                         *)
(* Tasks run one at a time in each color, as Scheduler promises; a thread  *)
(* may steal a color between two of its tasks.  Negative colors are        *)
(* pinned: color -1 - p runs on thread p.                                  *)
(***************************************************************************)
EXTENDS Deflate, Inflate

CONSTANTS
  Settings, \* the programs: [mode, streams, ...], see MCCompress
  Threads,  \* the threads of the web server, from 0 on
  MaxSim,   \* ZLIB_MAX_SIMULTANEOUS_COMPRESSIONS: 85
  Marker,   \* bytes an empty stored block takes at most: 6
  actual_length,   \* of the header of a compressed response
  MAX_HEADER_SIZE, \* 1024
  UIntSize         \* number of values of uInt: 2^32

ASSUME CompressAssumption ==
  /\ Threads \subseteq Nat /\ MaxSim \in Nat \ {0}
  /\ {actual_length, MAX_HEADER_SIZE, UIntSize} \subseteq Nat \ {0}
  /\ actual_length < MAX_HEADER_SIZE
  /\ Marker >= 1 + (2 * Buf_size) \div ByteBits

\* the zones of a thread: its list keeps the last one
Zones     == (MaxSim + 1) * 6 - 1
StreamFor == 6

Free == -1

VARIABLES
  setting,  \* the program
  stream,   \* of each message: its z_stream and deflate_state
  calls,    \* calls of deflate that were chosen freely
  due,      \* flush parameter the next call must have, or Free
  marks,    \* bytes in and out when a full flush was complete
  tasks,    \* of each color: its queue
  runs_on,  \* of each color: the thread that owns it
  nb_simultaneous_compress, used, \* of each thread: streams and zones
  base_proc, \* of each message: the thread that started its stream
  answered  \* messages posted to Write

server == <<tasks, runs_on, nb_simultaneous_compress, used, base_proc,
            answered>>
program == <<calls, due, marks>>
vars == <<setting, stream, program, server>>

Messages == DOMAIN setting.streams
Plan(m)  == setting.streams[m]
Pinned(p) == -1 - p
Colors   == {Plan(m).color : m \in Messages} \cup {Pinned(p) : p \in Threads}

deflateInit(m) ==
  LET p == Plan(m)
      s == deflateInit2_(p.text, p.level, p.strategy, p.fastest, p.wrap, p.old)
      g == IF p.gzhead = <<>> THEN s ELSE deflateSetHeader(s, p.gzhead)
  IN  IF p.dict = <<>> THEN g ELSE deflateSetDictionary(g, p.dict)

Init ==
  /\ setting \in Settings
  /\ stream = [m \in Messages |-> deflateInit(m)]
  /\ calls = 0 /\ due = Free /\ marks = <<>>
  /\ tasks = [c \in Colors |->
                IF setting.mode = "calls" THEN <<>>
                ELSE LET mine == {m \in Messages : Plan(m).color = c}
                     IN  SetToSeq({<<"CompressResponse", m>> : m \in mine})]
  /\ runs_on = [c \in Colors |-> IF c < 0 THEN -1 - c ELSE 0]
  /\ nb_simultaneous_compress = [p \in Threads |-> 0]
  /\ used = [p \in Threads |-> 0]
  /\ base_proc = [m \in Messages |-> 0]
  /\ answered = {}

Sound == \A m \in Messages : stream[m].fault = "none"

----------------------------------------------------------------------------
(* calls: the caller gives more bytes of input, room and a flush, a        *)
(* bounded number of times as it likes, then asks for the rest with room   *)
(* for it.  After a call that left no room it must ask for the same flush, *)
(* and it gives no more input once it asked for the end.  A call must be   *)
(* of use: there is input, or a flush that was not asked for yet.          *)

S == stream[1]
Left == Len(S.text) - S.total_in - S.avail_in

Allowed(more, room, flush) ==
  /\ more <= Left
  /\ IF due = Free
     THEN more + S.avail_in > 0 \/ flush > S.last_flush \/ flush = Z_FINISH
     ELSE flush = due /\ more = 0
  /\ flush \in Z_PARTIAL_FLUSH .. Z_FULL_FLUSH => room > Marker

\* a call is complete when it leaves some of its room
Complete(s) == s.avail_out > 0 /\ s.ret = "Z_OK"

Call(more, room, flush) ==
  /\ Allowed(more, room, flush)
  /\ \E s \in {deflate([S EXCEPT !.avail_in = @ + more, !.avail_out = room],
                       flush)} :
       /\ stream' = [stream EXCEPT ![1] =
                       Assert_(s, s.ret \in {"Z_OK", "Z_STREAM_END"},
                               "call refused")]
       /\ due' = IF flush = Z_NO_FLUSH \/ (flush # Z_FINISH /\ Complete(s))
                 THEN Free ELSE flush
       /\ marks' = IF flush = Z_FULL_FLUSH /\ Complete(s)
                   THEN <<s.total_in, Len(s.out)>> ELSE marks

Asks == setting.mode = "calls" /\ Sound /\ S.ret # "Z_STREAM_END"

Deflate ==
  /\ Asks
  /\ \/ /\ calls < setting.calls
        /\ calls' = calls + 1
        /\ \E more \in {0} \cup setting.more, room \in setting.rooms,
              flush \in setting.flushes : Call(more, room, flush)
     \/ /\ calls' = calls
        /\ Call(IF due = Free THEN Left ELSE 0, setting.room,
                IF due = Free THEN Z_FINISH ELSE due)
  /\ UNCHANGED <<setting, server>>

\* the room is not all used: what was read must be compressed first
Params ==
  /\ setting.mode = "calls" /\ Sound
  /\ calls < setting.calls /\ due = Free
  /\ \E to \in setting.params :
       \E s \in {deflateParams([S EXCEPT !.avail_out = setting.room],
                               to[1], to[2])} :
         stream' = [stream EXCEPT ![1] =
                      Assert_(s, s.avail_out > 0, "call refused")]
  /\ calls' = calls + 1
  /\ UNCHANGED <<setting, due, marks, server>>

----------------------------------------------------------------------------
(* sync and driven: the tasks of the web server *)

Exit(s) == Assert_(s, FALSE, "exit")

\* file_length * 1.01 - actual_length - 1, cut to an integer: negative for a
\* file shorter than the header
compressed_length(m) ==
  LET hundredths == 101 * Len(Plan(m).text) - 100 * (actual_length + 1)
  IN  IF hundredths >= 0 THEN hundredths \div 100
      ELSE -((-hundredths) \div 100)

\* what malloc gives behind the header
Allocated(m) ==
  (101 * Len(Plan(m).text)) \div 100 + 12 + MAX_HEADER_SIZE - actual_length

\* the length as an uInt: a negative one is nearly UIntSize
Given(m) == [stream[m] EXCEPT !.avail_in = Len(Plan(m).text),
                              !.avail_out = compressed_length(m) % UIntSize]

InMemory(m, s) == Assert_(s, Len(s.out) <= Allocated(m), "past the response")

Compressed(s) == IF s.ret = "Z_STREAM_END" THEN Returns(s, deflateEnd(s))
                 ELSE IF s.ret = "Z_OK" THEN Returns(s, "Z_BUF_ERROR") ELSE s
\* as an uLongf a negative length is no uInt, or 0: it is refused either way
compress2(m) == IF compressed_length(m) < 0
                THEN Returns(stream[m], "Z_BUF_ERROR")
                ELSE Compressed(deflate(Given(m), Z_FINISH))

\* the end is always asked for: nothing is done for block_done
end_async_deflate(s, bstate) ==
  IF bstate \in {"need_more", "finish_started"} THEN Exit(s)
  ELSE IF s.wrap <= 0 THEN Exit(s)
  ELSE Trailer(Assert_([s EXCEPT !.status = "finish"],
                       s.avail_out > 0, "bug2"))

LastBlock(s) == end_async_deflate(s, IF s.ret = "end" THEN "finish_done"
                                     ELSE "finish_started")
AfterTurn(s) ==
  IF s.ret = "loop" THEN s
  ELSE IF s.ret = "need_more" THEN end_async_deflate(s, "need_more")
  ELSE LastBlock(FLUSH_BLOCK(s, TRUE))
\* ret is "loop" when there is another turn
async_deflate_fast(s) == AfterTurn(FastTurn(s, Z_FINISH))

AsyncStart(s) ==
  IF s.avail_out = 0 THEN Exit(s)
  ELSE async_deflate_fast([s EXCEPT !.hash_head = NIL])
async_deflate(s) ==
  IF s.avail_out = 0 THEN Exit(s)
  ELSE AsyncStart(flush_pending(Headers([s EXCEPT !.last_flush = Z_FINISH])))

\* mutant: the end is posted in the color of the message
ThenHere(m, c, s, base) ==
  [tasks EXCEPT ![c] = Append(Tail(@), <<IF s.ret = "loop"
                                         THEN "async_deflate_fast"
                                         ELSE "end_async_compress", m>>)]
\* what is posted after a turn: the next one, or the end on the first thread
Then(m, c, s, base) ==
  IF s.ret = "loop"
  THEN [tasks EXCEPT ![c] = Append(Tail(@), <<"async_deflate_fast", m>>)]
  ELSE [[tasks EXCEPT ![c] = Tail(@)]
          EXCEPT ![Pinned(base)] = Append(@, <<"end_async_compress", m>>)]

Done(c) == [tasks EXCEPT ![c] = Tail(@)]

InOneCall(m, c) ==
  /\ \E s \in {InMemory(m, compress2(m))} :
       /\ stream' = [stream EXCEPT ![m] = Assert_(s, s.ret = "Z_OK", "exit")]
       /\ answered' = IF s.ret = "Z_OK" THEN answered \cup {m} ELSE answered
  /\ tasks' = Done(c)
  /\ UNCHANGED <<runs_on, nb_simultaneous_compress, used, base_proc>>

\* too many streams on this thread: the message waits in the queue
PostedAgain(c) ==
  /\ tasks' = [tasks EXCEPT ![c] = Append(Tail(@), Head(@))]
  /\ UNCHANGED <<stream, runs_on, nb_simultaneous_compress, used, base_proc,
                 answered>>

StreamStarted(m, c, p) ==
  /\ nb_simultaneous_compress' =
       [nb_simultaneous_compress EXCEPT ![p] = @ + 1]
  /\ used' = [used EXCEPT ![p] = @ + StreamFor]
  /\ base_proc' = [base_proc EXCEPT ![m] = p]
  /\ \E s \in {InMemory(m, async_deflate(Given(m)))} :
       /\ stream' = [stream EXCEPT ![m] =
                       Assert_(s, used'[p] <= Zones, "memory")]
       /\ tasks' = Then(m, c, s, p)
  /\ UNCHANGED <<runs_on, answered>>

CompressResponse(m, c, p) ==
  IF setting.mode = "sync" THEN InOneCall(m, c)
  ELSE IF nb_simultaneous_compress[p] >= MaxSim THEN PostedAgain(c)
  ELSE StreamStarted(m, c, p)

AsyncTurn(m, c) ==
  /\ \E s \in {InMemory(m, async_deflate_fast(stream[m]))} :
       /\ stream' = [stream EXCEPT ![m] = s]
       /\ tasks' = Then(m, c, s, base_proc[m])
  /\ UNCHANGED <<runs_on, nb_simultaneous_compress, used, base_proc, answered>>

\* mutant: the stream is still counted when it is answered
EndUncounted(m, c, p) ==
  /\ used' = [used EXCEPT ![p] = @ - StreamFor]
  /\ tasks' = Done(c)
  /\ answered' = answered \cup {m}
  /\ UNCHANGED <<stream, runs_on, base_proc, nb_simultaneous_compress>>
\* deflateEnd, the zone of the z_stream, then end_compress
end_async_compress(m, c, p) ==
  /\ used' = [used EXCEPT ![p] = @ - StreamFor]
  /\ nb_simultaneous_compress' =
       [nb_simultaneous_compress EXCEPT ![p] = @ - 1]
  /\ stream' = [stream EXCEPT ![m] =
                  Assert_(@, nb_simultaneous_compress'[p] >= 0 /\ used'[p] >= 0,
                          "negative count")]
  /\ tasks' = Done(c)
  /\ answered' = answered \cup {m}
  /\ UNCHANGED <<runs_on, base_proc>>

RunTask(c) ==
  /\ Sound /\ tasks[c] # <<>>
  /\ LET t == Head(tasks[c])
         p == runs_on[c]
     IN  \/ t[1] = "CompressResponse" /\ CompressResponse(t[2], c, p)
         \/ t[1] = "async_deflate_fast" /\ AsyncTurn(t[2], c)
         \/ t[1] = "end_async_compress" /\ end_async_compress(t[2], c, p)
  /\ UNCHANGED <<setting, program>>

\* a color that is not pinned moves with its tasks
Steal(c, p) ==
  /\ setting.mode = "driven" /\ Sound
  /\ c >= 0 /\ tasks[c] # <<>> /\ runs_on[c] # p
  /\ runs_on' = [runs_on EXCEPT ![c] = p]
  /\ UNCHANGED <<setting, stream, program, tasks, nb_simultaneous_compress,
                 used, base_proc, answered>>

----------------------------------------------------------------------------
AllColors == UNION {{x.streams[m].color : m \in DOMAIN x.streams} :
                      x \in Settings} \cup {Pinned(p) : p \in Threads}

Next ==
  \/ Deflate
  \/ Params
  \/ \E c \in Colors : RunTask(c)
  \/ \E c \in Colors, p \in Threads : Steal(c, p)

(* The program asks for the rest, as zlib.h says it must; every color with *)
(* tasks gets its turn, wherever it is (EveryTaskRuns of Scheduler).  Weak *)
(* fairness of Deflate and of RunTask(c), written without ENABLED, which   *)
(* TLC would evaluate by compressing again and again: a message that waits *)
(* alone in its queue changes nothing when it runs.                        *)
Waits(c) ==
  /\ Len(tasks[c]) = 1 /\ Head(tasks[c])[1] = "CompressResponse"
  /\ setting.mode = "driven"
  /\ nb_simultaneous_compress[runs_on[c]] >= MaxSim
Ready(c)  == c \in Colors /\ Sound /\ tasks[c] # <<>> /\ ~Waits(c)
Taken(c) == c \in Colors /\ Len(tasks'[c]) <= Len(tasks[c])
                         /\ tasks'[c] # tasks[c]

Fairness ==
  /\ []<>~Asks \/ []<><<setting.mode = "calls">>_stream
  /\ \A c \in AllColors : []<>~Ready(c) \/ []<><<Taken(c)>>_tasks

Spec == Init /\ [][Next]_vars /\ Fairness

----------------------------------------------------------------------------
(* Properties *)

Dict(m)  == Plan(m).dict
Read(m)  == Dict(m) \o SubSeq(stream[m].text, 1, stream[m].total_in)
IsBits(b) == Len(b) = ByteBits
Body(bs) == Joined(SelectSeq(bs, IsBits))
Decoded(m) == Inflated(Body(stream[m].out), Dict(m))

Ended_(m) == IF setting.mode = "calls" THEN stream[m].ret = "Z_STREAM_END"
             ELSE m \in answered

\* the header and the checksum of a gzip stream, bit by bit
Crc(bytes) ==
  LET from[c \in Nat, i \in 1 .. Len(bytes) + 1] ==
        IF i > Len(bytes) THEN c
        ELSE from[Shifted(c ^^ bytes[i], ByteBits), i + 1]
  IN  Word - 1 - from[Word - 1, 1]
GzipFrame(m) ==
  LET p      == Plan(m)
      h      == p.gzhead
      part(f) == IF h # <<>> /\ f \in DOMAIN h[1].fields
                 THEN [i \in DOMAIN h[1].fields[f] |-> GzByte(h[1].fields[f][i])]
                 ELSE <<>>
      head   == GzipStart(h, p.level, p.strategy)
                  \o part("extra") \o part("name") \o part("comment")
      sum    == Crc([i \in DOMAIN head |-> head[i][2]])
  IN  IF h # <<>> /\ h[1].hcrc THEN head \o putLSB(sum, 2) ELSE head

\* the frame around the compressed data
Framed(m) ==
  LET s    == stream[m]
      head == putMSB("zlib", 2)
                \o putMSB(adler32(<<1, 0>>, Dict(m)), IF Dict(m) = <<>> THEN 0
                                                      ELSE 4)
      sum  == putMSB(adler32(<<1, 0>>, SubSeq(s.text, 1, s.total_in)), 4)
      body == SelectSeq(s.out, IsBits)
  IN  s.out = IF Plan(m).wrap = 0 THEN body
              ELSE IF Plan(m).wrap = 1 THEN head \o body \o sum
              ELSE GzipFrame(m) \o body
                     \o putLSB(Crc(SubSeq(s.text, 1, s.total_in)), 4)
                     \o putLSB(s.total_in, 4)

(* What the program got decodes to what it gave: at any moment to a prefix *)
(* of it; to all of it once a flush is complete, however the input and the *)
(* room were cut; to all of it, in its frame and with its checksum, at the *)
(* end.  After a full flush decoding can start afresh (zlib.h).            *)
RoundTrip ==
  \A m \in Messages :
    LET s == stream[m]
        d == Decoded(m)
        flushed == /\ due = Free /\ s.avail_out > 0
                   /\ s.last_flush \in Z_PARTIAL_FLUSH .. Z_FULL_FLUSH
    IN  /\ d.status # "bad" /\ IsPrefix(d.out, Read(m))
        /\ flushed => d.out = Read(m) /\ s.avail_in = 0
        /\ Ended_(m) => /\ d = Stop(Read(m), "final") /\ s.avail_in = 0
                        /\ Framed(m)
        /\ marks # <<>> =>
             LET after == SubSeq(s.out, marks[2] + 1, Len(s.out))
                 rest  == SubSeq(s.text, marks[1] + 1, s.total_in)
                 fresh == Inflated(Body(after), <<>>)
             IN  fresh.status # "bad" /\ IsPrefix(fresh.out, rest)

\* the room computed for a file is at least what its compression takes
RoomEnough(m) ==
  LET whole == deflate([deflateInit(m) EXCEPT !.avail_in = Len(Plan(m).text),
                                              !.avail_out = UIntSize - 1],
                       Z_FINISH)
      room  == compressed_length(m)
  IN  IF room < 0 THEN setting.mode = "driven" ELSE Len(whole.out) <= room

(* No assertion of the DEBUG build fails, no call that zlib.h allows is    *)
(* refused, nothing is written beyond a response, and the counts and zones *)
(* of a thread come back to it.  The web server exits on no compression    *)
(* but that of a file for which the room that CompressResponse computes is *)
(* too small: less than its compression takes or, in the build without     *)
(* events, negative.                                                       *)
NoFault ==
  \A m \in Messages :
    stream[m].fault = "none"
      \/ /\ setting.mode # "calls" /\ ~RoomEnough(m)
         /\ stream[m].fault \in {"exit", "bug2"}

(* compress: "Z_BUF_ERROR if there was not enough room in the output       *)
(* buffer" (compress.c:19), on which the server exits: it never does.      *)
NeverExits == \A m \in Messages : stream[m].fault \notin {"exit", "bug2"}

(* Every stream ends: deflate makes progress whatever the room it is given *)
(* first, and every message that waits for its compression is answered,    *)
(* also one that found too many streams on the thread that ran it, unless  *)
(* the server exits as NoFault says.                                       *)
EveryStreamEnds ==
  \A m \in UNION {DOMAIN x.streams : x \in Settings} :
    m \in Messages ~> (m \in Messages /\ Ended_(m)) \/ ~Sound
=============================================================================

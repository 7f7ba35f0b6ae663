------------------------------ MODULE Deflate ------------------------------
(***************************************************************************)
(* The compressor of the vendored zlib: what deflate.c does to a stream,   *)
(* as operators on the record of its state, which Compress composes into   *)
(* the calls of a program and the tasks of the web server.  Window, match  *)
(* lengths and hash table are scaled down; the tables of the levels are a  *)
(* parameter.                                                              *)
(*                                                                         *)
(* A stream reads text, of which total_in bytes were read and avail_in     *)
(* more may be; out is what the caller got, avail_out the room it left.    *)
(* hash_head is the local variable of the loops, ret what a loop or a call *)
(* answers; window positions are 0-based as in the code.                   *)
(***************************************************************************)
EXTENDS Crc32

CONSTANTS
  w_size,    \* size of the LZ77 window: 32768
  hash_bits, \* log2 of the size of head: 15
  pending_buf_size, \* room for what is pending: 65536
  TOO_FAR,   \* matches of MIN_MATCH bytes farther than that are dropped: 4096
  Filtered,  \* so are those up to that length with the filtered strategy: 5
  BASE,      \* modulus of adler32: 65521
  configuration_table \* of each level: [func, good, lazy, nice, chain]

MIN_MATCH     == 3
MAX_MATCH     == MIN_MATCH + NLengths - 1
MIN_LOOKAHEAD == MAX_MATCH + MIN_MATCH + 1
MAX_DIST      == w_size - MIN_LOOKAHEAD
window_size   == 2 * w_size
hash_size     == 2^hash_bits
hash_shift    == (hash_bits + MIN_MATCH - 1) \div MIN_MATCH
NIL           == 0
\* the longest stored block
MaxStored     == Min({2^Buf_size - 1, pending_buf_size - 5})

ASSUME DeflateAssumption ==
  /\ {w_size, hash_bits, TOO_FAR, Filtered, BASE} \subseteq Nat \ {0}
  /\ pending_buf_size >= 12
  /\ MAX_DIST <= Before(extra_dbits, D_CODES)
  /\ hash_shift * MIN_MATCH >= hash_bits /\ hash_bits >= ByteBits
  /\ BASE > 15 * (LITERALS - 1)

\* the flush parameters of deflate, in the order of zlib.h
Z_NO_FLUSH      == 0
Z_PARTIAL_FLUSH == 1
Z_SYNC_FLUSH    == 2
Z_FULL_FLUSH    == 3
Z_FINISH        == 4

Config(s) == configuration_table[s.level]
Returns(s, r) == [s EXCEPT !.ret = r]

----------------------------------------------------------------------------
(* Checksum and buffers *)

(* adler = <<sum, sum of sums>>.  One byte, and up to 15 of them, are added *)
(* without a division of the first sum.                                    *)
Once(n) == IF n >= BASE THEN n - BASE ELSE n
Summed(a, buf) ==
  LET from[s1 \in Nat, s2 \in Nat, i \in 1 .. Len(buf) + 1] ==
        IF i > Len(buf) THEN <<s1, s2>>
        ELSE from[s1 + buf[i], s2 + s1 + buf[i], i + 1]
  IN  from[a[1], a[2], 1]
adler32(a, buf) ==
  LET t == Summed(a, buf)
  IN  IF Len(buf) = 1 THEN <<Once(t[1]), Once(a[2] + Once(t[1]))>>
      ELSE IF Len(buf) < 16 THEN <<Once(t[1]), t[2] % BASE>>
      ELSE <<t[1] % BASE, t[2] % BASE>>

\* sent: bytes before the pending ones that are not pending any more
flush_pending(s) ==
  LET n == Min({Len(s.pending), s.avail_out})
  IN  [s EXCEPT !.out = @ \o SubSeq(s.pending, 1, n),
                !.pending = SubSeq(@, n + 1, Len(@)),
                !.sent = IF n = Len(s.pending) THEN 0 ELSE @ + n,
                !.avail_out = @ - n]

\* reads new, the next bytes of the text, into the window at position at
Into(s, at, new) ==
  [s EXCEPT !.avail_in = @ - Len(new), !.total_in = @ + Len(new),
            !.adler = IF new = <<>> \/ s.wrap <= 0 THEN @
                      ELSE IF s.wrap = 1 THEN adler32(@, new)
                      ELSE crc32(@, new, s.total_in),
            !.window = [i \in Upto(window_size) |->
                          IF i \in at .. at + Len(new) - 1 THEN new[i - at + 1]
                          ELSE @[i]],
            !.lookahead = @ + Len(new)]
read_buf(s, at, size) ==
  Into(s, at, SubSeq(s.text, s.total_in + 1,
                     s.total_in + Min({s.avail_in, size})))

----------------------------------------------------------------------------
(* The dictionary: head[h] is the last position with hash h, prev links it *)
(* to the one before.                                                      *)

UPDATE_HASH(h, c) == ((h * 2^hash_shift) ^^ c) % hash_size

CLEAR_HASH(s) == [s EXCEPT !.head = [h \in Upto(hash_size) |-> NIL]]

\* with FASTEST no chains are kept
INSERT_STRING(s, at) ==
  LET h == UPDATE_HASH(s.ins_h, s.window[at + MIN_MATCH - 1])
  IN  [s EXCEPT !.ins_h = h,
                !.hash_head = s.head[h],
                !.prev[at % w_size] = IF s.fastest THEN @ ELSE s.head[h],
                !.head[h] = at]

RECURSIVE Inserted(_, _, _)
Inserted(s, from, to) ==
  IF from > to THEN s ELSE Inserted(INSERT_STRING(s, from), from + 1, to)

\* the hash of the first two bytes at position at
HashAt(s, at) == UPDATE_HASH(s.window[at], s.window[at + 1])

Rebased(p) == IF p >= w_size THEN p - w_size ELSE NIL

\* the upper half of the window becomes the lower one
Slid(s) ==
  [s EXCEPT !.window = [i \in Upto(window_size) |-> @[w_size + (i % w_size)]],
            !.match_start = @ - w_size, !.strstart = @ - w_size,
            !.block_start = @ - w_size,
            !.head = [h \in Upto(hash_size) |-> Rebased(@[h])],
            !.prev = [p \in Upto(w_size) |-> IF s.fastest THEN @[p]
                                             ELSE Rebased(@[p])]]

SlideDue(s) == s.strstart >= w_size + MAX_DIST

\* the hash of what was read can be known
Hashed(s) == IF s.lookahead < MIN_MATCH THEN s
             ELSE [s EXCEPT !.ins_h = HashAt(s, s.strstart)]

RECURSIVE fill_window(_), Refilled(_)
\* more: room at the end of the window
More(s) == window_size - s.lookahead - s.strstart
Refilled(s) ==
  IF s.avail_in = 0 THEN s
  ELSE LET t == Hashed(read_buf(Assert_(s, More(s) >= 2, "more < 2"),
                                s.strstart + s.lookahead, More(s)))
       IN  IF t.lookahead < MIN_LOOKAHEAD /\ t.avail_in # 0
           THEN fill_window(t) ELSE t
fill_window(s) == Refilled(IF SlideDue(s) THEN Slid(s) ELSE s)

----------------------------------------------------------------------------
(* Matches *)

\* the two strings agree from byte k on, up to the longest match
RECURSIVE Agree(_, _, _)
Agree(s, cur, k) ==
  IF k < MAX_MATCH /\ s.window[cur + k] = s.window[s.strstart + k]
  THEN Agree(s, cur, k + 1) ELSE k

SameAt(s, cur, k) == s.window[cur + k] = s.window[s.strstart + k]

(* Byte 2 is not compared, for strings of the same hash: what is found is  *)
(* compared once more by check_match.                                      *)
MatchFaults(s, past) ==
  Assert_(Assert_(s, past, "no future"),
          s.strstart <= window_size - MIN_LOOKAHEAD, "need lookahead")

\* best = [len, start, past]; n more links may be followed
RECURSIVE Chain(_, _, _, _)
Chain(s, cur, best, n) ==
  LET try  == /\ SameAt(s, cur, best.len) /\ SameAt(s, cur, best.len - 1)
              /\ SameAt(s, cur, 0) /\ SameAt(s, cur, 1)
      len  == Agree(s, cur, 3)
      more == try /\ len > best.len
      now  == [len |-> IF more THEN len ELSE best.len,
               start |-> IF more THEN cur ELSE best.start,
               past |-> best.past /\ cur < s.strstart]
      next == s.prev[cur % w_size]
      limit == IF s.strstart > MAX_DIST THEN s.strstart - MAX_DIST ELSE NIL
      nice == Min({Config(s).nice, s.lookahead})
  IN  IF (more /\ len >= nice) \/ next <= limit \/ n = 1 THEN now
      ELSE Chain(s, next, now, n - 1)

longest_match(s, cur) ==
  LET tries == IF s.prev_length >= Config(s).good
               THEN Config(s).chain \div 4 ELSE Config(s).chain
      best  == Chain(s, cur, [len |-> s.prev_length, start |-> s.match_start,
                              past |-> TRUE], tries)
  IN  [MatchFaults(s, best.past) EXCEPT !.match_start = best.start,
                                  !.match_length = Min({best.len, s.lookahead})]

longest_match_fast(s, cur) ==
  LET t == MatchFaults(s, cur < s.strstart)
  IN  IF ~(SameAt(s, cur, 0) /\ SameAt(s, cur, 1))
      THEN [t EXCEPT !.match_length = MIN_MATCH - 1]
      ELSE [t EXCEPT !.match_start = cur,
                     !.match_length = Min({Agree(s, cur, 3), s.lookahead})]

\* with the strategy that is set, match_length and match_start
Matched(s) ==
  LET far == s.strstart - s.hash_head
  IN  IF s.strategy = "huffman" \/ (s.strategy = "rle" /\ far # 1) THEN s
      ELSE IF s.fastest \/ s.strategy = "rle"
      THEN longest_match_fast(s, s.hash_head)
      ELSE longest_match(s, s.hash_head)

\* hash_head keeps its value when there is too little lookahead to insert
Looked(s) ==
  IF s.lookahead >= MIN_MATCH THEN INSERT_STRING(s, s.strstart) ELSE s
Candidate(s) == s.hash_head # NIL /\ s.strstart - s.hash_head \in 0 .. MAX_DIST

----------------------------------------------------------------------------
(* Blocks *)

FLUSH_BLOCK_ONLY(s, eof) ==
  LET has == s.block_start >= 0
      buf == IF has THEN [i \in 1 .. s.strstart - s.block_start |->
                            s.window[s.block_start + i - 1]]
             ELSE [i \in 1 .. s.strstart - s.block_start |-> 0]
  IN  flush_pending([_tr_flush_block(s, has, buf, eof)
                       EXCEPT !.block_start = s.strstart])

Answered(s, eof) == IF s.avail_out > 0 THEN s
                    ELSE Returns(s, IF eof THEN "finish_started"
                                    ELSE "need_more")
FLUSH_BLOCK(s, eof) == Answered(FLUSH_BLOCK_ONLY(s, eof), eof)

\* after the loop: the last block of the call
Closed(s, eof) == IF s.ret # "end" THEN s
                  ELSE Returns(s, IF eof THEN "finish_done" ELSE "block_done")
Ended(s, eof) == Closed(FLUSH_BLOCK(s, eof), eof)

(* The head of a turn of a loop: ret is "need_more" when there is too      *)
(* little input, "end" when there is none at all, else "loop".             *)
Enough(s, least, flush) ==
  IF s.lookahead < least /\ flush = Z_NO_FLUSH THEN Returns(s, "need_more")
  ELSE IF s.lookahead = 0 THEN Returns(s, "end") ELSE Returns(s, "loop")
Filled(s, flush) ==
  Enough(IF s.lookahead < MIN_LOOKAHEAD THEN fill_window(s) ELSE s,
         MIN_LOOKAHEAD, flush)

(* deflate_stored: what was read goes into blocks that are not compressed. *)
LateSlide(s) == SlideDue(s) /\ s.block_start < w_size
FilledStored(s, flush) ==
  Enough(IF s.lookahead > 1 THEN s
         ELSE fill_window(Assert_(s, ~LateSlide(s), "slide too late")),
         1, flush)

\* a block that is long enough ends at top
CutAt(s, top) ==
  IF s.strstart = 0 \/ s.strstart >= top
  THEN FLUSH_BLOCK([s EXCEPT !.strstart = top, !.lookahead = s.strstart - top],
                   FALSE)
  ELSE s
\* a block ends before the window slides past it
CutBefore(s) ==
  IF s.ret = "loop" /\ s.strstart - s.block_start >= MAX_DIST
  THEN FLUSH_BLOCK(s, FALSE) ELSE s
Stored(s) ==
  IF s.ret # "loop" THEN s
  ELSE CutBefore(
         CutAt([Assert_(s, s.block_start >= 0, "block gone")
                  EXCEPT !.strstart = @ + s.lookahead, !.lookahead = 0],
               s.block_start + MaxStored))
StoredTurn(s, flush) == Stored(FilledStored(s, flush))

----------------------------------------------------------------------------
(* deflate_fast: a match is taken as soon as it is found *)

check_match(s, start, match, length) ==
  Assert_(s, \A k \in Upto(length) : s.window[start + k] = s.window[match + k],
          "invalid match")

Skipped(s, length) == [s EXCEPT !.lookahead = @ - length, !.match_length = 0,
                                !.strstart = @ + length]
\* the strings of a short match from position at are inserted, a long one is
\* skipped
Entered(s, at, short) ==
  IF short /\ s.lookahead >= MIN_MATCH
  THEN Inserted(s, at + 1, s.strstart - 1)
  ELSE [s EXCEPT !.ins_h = HashAt(s, s.strstart)]
MatchTaken(s) ==
  Entered(Skipped(_tr_tally(check_match(s, s.strstart, s.match_start,
                                        s.match_length),
                            s.strstart - s.match_start,
                            s.match_length - MIN_MATCH), s.match_length),
          s.strstart, ~s.fastest /\ s.match_length <= Config(s).lazy)

LiteralTaken(s) ==
  [_tr_tally(s, 0, s.window[s.strstart]) EXCEPT !.lookahead = @ - 1,
                                                !.strstart = @ + 1]

\* FLUSH_BLOCK may make a turn of the loop the last one
FlushedIfFull(s) == IF BlockFull(s) THEN FLUSH_BLOCK(s, FALSE) ELSE s
Longest(s) == IF Candidate(s) THEN Matched(s) ELSE s
SymbolTaken(s) ==
  IF s.match_length >= MIN_MATCH THEN MatchTaken(s) ELSE LiteralTaken(s)
Fast(s) ==
  IF s.ret # "loop" THEN s ELSE FlushedIfFull(SymbolTaken(Longest(Looked(s))))
FastTurn(s, flush) == Fast(Filled(s, flush))

----------------------------------------------------------------------------
(* deflate_slow: a match is taken if the next position has none longer *)

Worthless(s) ==
  /\ s.match_length <= Filtered
  /\ \/ s.strategy = "filtered"
     \/ /\ s.match_length = MIN_MATCH
        /\ s.strstart - s.match_start > TOO_FAR

Worth(s) ==
  IF Worthless(s) THEN [s EXCEPT !.match_length = MIN_MATCH - 1] ELSE s
Improved(s) ==
  IF Candidate(s) /\ s.prev_length < Config(s).lazy THEN Worth(Matched(s))
  ELSE s
Compared(s) == Improved([s EXCEPT !.prev_length = s.match_length,
                                  !.prev_match = s.match_start,
                                  !.match_length = MIN_MATCH - 1])

\* the match of the step before is taken, its strings are inserted
PreviousTaken(s) ==
  LET last == s.strstart + s.lookahead - MIN_MATCH
      end  == s.strstart + s.prev_length - 2
      c    == check_match(s, s.strstart - 1, s.prev_match, s.prev_length)
  IN  [Inserted(_tr_tally(c, s.strstart - 1 - s.prev_match,
                          s.prev_length - MIN_MATCH),
                s.strstart + 1, Min({last, end}))
         EXCEPT !.lookahead = @ - (s.prev_length - 1), !.prev_length = 0,
                !.match_available = FALSE, !.match_length = MIN_MATCH - 1,
                !.strstart = end + 1]

Advanced(s) == [s EXCEPT !.strstart = @ + 1, !.lookahead = @ - 1]

\* the literal before is taken; FLUSH_BLOCK_ONLY lets the turn go on
LiteralOut(s) == IF BlockFull(s) THEN FLUSH_BLOCK_ONLY(s, FALSE) ELSE s
RoomLeft(s) == IF s.avail_out = 0 THEN Returns(s, "need_more") ELSE s
Decided(s) ==
  IF s.prev_length >= MIN_MATCH /\ s.match_length <= s.prev_length
  THEN FlushedIfFull(PreviousTaken(s))
  ELSE IF s.match_available
  THEN RoomLeft(Advanced(LiteralOut(
                  _tr_tally(s, 0, s.window[s.strstart - 1]))))
  ELSE Advanced([s EXCEPT !.match_available = TRUE])
Slow(s) == IF s.ret # "loop" THEN s ELSE Decided(Compared(Looked(s)))
SlowTurn(s, flush) == Slow(Filled(s, flush))

\* the literal that was waiting for a longer match
\* mutant: it is forgotten when the input ends
LastForgotten(s) == [s EXCEPT !.match_available = FALSE]
LastTaken(s) ==
  IF s.match_available
  THEN [_tr_tally(s, 0, s.window[s.strstart - 1])
          EXCEPT !.match_available = FALSE]
  ELSE s


----------------------------------------------------------------------------
(* The loops *)

Turn(func, s, flush) ==
  CASE func = "deflate_stored" -> StoredTurn(s, flush)
    [] func = "deflate_fast"   -> FastTurn(s, flush)
    [] func = "deflate_slow"   -> SlowTurn(s, flush)

\* 2^n turns, or fewer when the loop ends before
RECURSIVE Turns(_, _, _, _), Second(_, _, _, _)
RECURSIVE Loop(_, _, _), Continued(_, _, _)
Second(func, s, flush, n) ==
  IF s.ret # "loop" THEN s ELSE Turns(func, s, flush, n)
Turns(func, s, flush, n) ==
  IF n = 0 THEN Turn(func, s, flush)
  ELSE Second(func, Turns(func, s, flush, n - 1), flush, n - 1)

Continued(func, s, flush) == IF s.ret = "loop" THEN Loop(func, s, flush) ELSE s
Loop(func, s, flush) == Continued(func, Turns(func, s, flush, 8), flush)

LoopLeft(func, s, flush) ==
  IF s.ret # "end" THEN s
  ELSE Ended(IF func = "deflate_slow" THEN LastTaken(s) ELSE s,
             flush = Z_FINISH)
Run(s, flush) ==
  LoopLeft(Config(s).func, Loop(Config(s).func, s, flush), flush)

----------------------------------------------------------------------------
(* The calls *)

\* head is cleared; window and prev keep what they held
lm_init(s) ==
  [CLEAR_HASH(s) EXCEPT
     !.strstart = 0, !.block_start = 0, !.lookahead = 0, !.ins_h = 0,
     !.match_length = MIN_MATCH - 1, !.prev_length = MIN_MATCH - 1,
     !.match_available = FALSE]

deflateReset(s) ==
  LET w == IF s.wrap < 0 THEN -s.wrap ELSE s.wrap
      t == [s EXCEPT !.total_in = 0, !.pending = <<>>, !.wrap = w,
                     !.status = IF w # 0 THEN "init" ELSE "busy",
                     !.adler = IF w = 2 THEN 0 ELSE <<1, 0>>,
                     !.last_flush = Z_NO_FLUSH]
  IN  lm_init(_tr_init(t))

\* old is what the memory of the stream holds; with FASTEST level 1 at most
deflateInit2_(text, level, strategy, fastest, wrap, old) ==
  deflateReset(
  [text |-> text, total_in |-> 0, avail_in |-> 0, out |-> <<>>, avail_out |-> 0,
   level |-> IF fastest /\ level # 0 THEN 1 ELSE level,
   strategy |-> strategy, fastest |-> fastest, wrap |-> wrap,
   status |-> "init", adler |-> <<1, 0>>, last_flush |-> Z_NO_FLUSH,
   pending |-> <<>>, sent |-> 0, gzhead |-> <<>>, gzindex |-> old,
   window |-> [i \in Upto(window_size) |-> old],
   prev |-> [i \in Upto(w_size) |-> old],
   head |-> [h \in Upto(hash_size) |-> old],
   ins_h |-> old, hash_head |-> NIL,
   strstart |-> old, block_start |-> old, lookahead |-> old,
   match_length |-> old, prev_length |-> old,
   match_start |-> old, prev_match |-> old, match_available |-> FALSE,
   bi |-> <<>>, lf |-> <<>>, df |-> <<>>, tally |-> <<>>, last_eob_len |-> 8,
   compressed_len |-> 0, bits_sent |-> 0, ret |-> "Z_OK", fault |-> "none"])

\* the tail of the dictionary becomes text that was already read
deflateSetDictionary(s, dict) ==
  LET n == Min({Len(dict), MAX_DIST})
      d == SubSeq(dict, Len(dict) - n + 1, Len(dict))
      t == [s EXCEPT !.adler = IF s.wrap # 0 THEN adler32(@, dict) ELSE @]
      w == [t EXCEPT !.window = [i \in Upto(window_size) |->
                                   IF i < n THEN d[i + 1] ELSE @[i]],
                     !.strstart = n, !.block_start = n]
  IN  IF s.wrap = 2 \/ (s.wrap = 1 /\ s.status # "init")
      THEN Returns(s, "Z_STREAM_ERROR")
      ELSE IF Len(dict) < MIN_MATCH THEN t
      ELSE Inserted([w EXCEPT !.ins_h = HashAt(w, 0)], 0, n - MIN_MATCH)

(* The header of a gzip stream, written field by field since it may be     *)
(* longer than pending_buf.  gzhead is NULL or what deflateSetHeader got:  *)
(* fields gives the ones that are not NULL, names with their final zero,   *)
(* hcrc tells whether the header has a checksum of its own.                *)
(*                                                                         *)
(* A byte is added at the number of pending bytes, wherever those are in   *)
(* pending_buf: when some are sent and some are not, it falls among them.  *)
deflateSetHeader(s, head) ==
  IF s.wrap # 2 THEN Returns(s, "Z_STREAM_ERROR")
  ELSE [s EXCEPT !.gzhead = head]

GzByte(b) == <<"gz", b>>
put_bytes(s, bytes) ==
  [Assert_(s, s.sent = 0 \/ bytes = <<>>, "overwritten")
     EXCEPT !.pending = @ \o bytes]
putLSB(what, n) == [i \in 1 .. n |-> <<what, 5 - i>>]

HasCrc(s) == s.gzhead # <<>> /\ s.gzhead[1].hcrc
\* the bytes pending from position beg on are summed up
Covered(s, beg) ==
  IF ~HasCrc(s) \/ Len(s.pending) <= beg THEN s
  ELSE LET new == SubSeq(s.pending, beg + 1, Len(s.pending))
       IN  [s EXCEPT !.adler = crc32(@, [i \in DOMAIN new |-> new[i][2]], beg)]

FieldFlag == [extra |-> 4, name |-> 8, comment |-> 16]
\* magic, method, flags, time, compression, system, length of the extra field
GzipStart(head, level, strategy) ==
  LET has  == IF head = <<>> THEN {} ELSE DOMAIN head[1].fields
      xfl  == IF level = 9 THEN 2
              ELSE IF strategy \in {"huffman", "rle", "fixed"} \/ level < 2
              THEN 4 ELSE 0
      hcrc == IF head # <<>> /\ head[1].hcrc THEN 2 ELSE 0
      size == IF "extra" \in has THEN <<Len(head[1].fields.extra), 0>> ELSE <<>>
      all  == <<31, 139, 8, hcrc + SumOf(LAMBDA f : FieldFlag[f], has),
                0, 0, 0, 0, xfl, 3>> \o size
  IN  [i \in DOMAIN all |-> GzByte(all[i] % LITERALS)]

GzipHeader(s) ==
  LET start == GzipStart(s.gzhead, s.level, s.strategy)
  IN  Covered([s EXCEPT !.adler = 0, !.pending = @ \o start, !.gzindex = 0,
                        !.status = IF s.gzhead = <<>> THEN "busy" ELSE "extra"],
              0)

\* bytes up to the end of the field, or until pending_buf stays full
RECURSIVE PutField(_, _), Emptied(_, _)
Emptied(s, bytes) ==
  IF Len(s.pending) = pending_buf_size THEN s ELSE PutField(s, bytes)
Put(s, bytes, to) ==
  Covered([put_bytes(s, [i \in 1 .. to - s.gzindex |->
                           GzByte(bytes[s.gzindex + i])])
             EXCEPT !.gzindex = to], Len(s.pending))
PutField(s, bytes) ==
  LET to == Min({Len(bytes), s.gzindex + pending_buf_size - Len(s.pending)})
  IN  IF to = Len(bytes) THEN Put(s, bytes, to)
      ELSE Emptied(flush_pending(Put(s, bytes, to)), bytes)

FieldDone(s, size, next) ==
  IF s.gzindex < size THEN s ELSE [s EXCEPT !.gzindex = 0, !.status = next]
Field(s, field, next) ==
  IF s.status # field THEN s
  ELSE IF field \notin DOMAIN s.gzhead[1].fields
  THEN [s EXCEPT !.status = next]
  ELSE FieldDone(PutField(s, s.gzhead[1].fields[field]),
                 Len(s.gzhead[1].fields[field]), next)

HeaderCrc(s) ==
  LET f == IF Len(s.pending) + 2 > pending_buf_size THEN flush_pending(s) ELSE s
  IN  IF s.status # "hcrc" THEN s
      ELSE IF ~HasCrc(s) THEN [s EXCEPT !.status = "busy"]
      ELSE IF Len(f.pending) + 2 > pending_buf_size THEN f
      ELSE [put_bytes(f, putLSB(s.adler, 2)) EXCEPT
              !.adler = 0, !.status = "busy"]

(* The header and the trailer of a zlib stream are bytes of their own kind *)
(* too: the method, and a checksum, cut in 2 or 4 bytes.                   *)
putMSB(what, n) == [i \in 1 .. n |-> <<what, i>>]
Header(s) ==
  [s EXCEPT
     !.pending = @ \o putMSB("zlib", 2)
                   \o putMSB(s.adler, IF s.strstart # 0 THEN 4 ELSE 0),
     !.adler = <<1, 0>>, !.status = "busy"]

Headers(s) ==
  LET h == IF s.wrap = 2 THEN GzipHeader(s) ELSE Header(s)
  IN  HeaderCrc(Field(Field(Field(
        IF s.status = "init" THEN h ELSE s,
        "extra", "name"), "name", "comment"), "comment", "hcrc"))

\* the trailer is written only once
TrailerOf(s) ==
  IF s.wrap = 2 THEN putLSB(s.adler, 4) \o putLSB(s.total_in, 4)
  ELSE putMSB(s.adler, 4)
EndOf(s) == Returns(s, IF s.pending # <<>> THEN "Z_OK" ELSE "Z_STREAM_END")
Trailer(s) ==
  IF s.wrap <= 0 THEN Returns(s, "Z_STREAM_END")
  ELSE EndOf(flush_pending([s EXCEPT !.pending = @ \o TrailerOf(s),
                                     !.wrap = -s.wrap]))

\* an empty block marks the place of a flush
Marked(s, flush) ==
  LET m == IF flush = Z_PARTIAL_FLUSH THEN _tr_align(s)
           ELSE _tr_stored_block(s, <<>>, FALSE)
  IN  flush_pending(IF flush = Z_FULL_FLUSH THEN CLEAR_HASH(m) ELSE m)

\* so that the next call is not taken for a useless one
Again(s) == IF s.avail_out = 0 THEN [s EXCEPT !.last_flush = -1] ELSE s

Finishing(s, flush) ==
  IF flush = Z_FINISH
  THEN Trailer(Assert_(s, s.avail_out > 0, "bug2"))
  ELSE Returns(Assert_(s, s.avail_out > 0, "bug2"), "Z_OK")

StatusFinish(s) == IF s.ret \in {"finish_started", "finish_done"}
                   THEN [s EXCEPT !.status = "finish"] ELSE s
\* what the function of the level answered: b is the state it left
MarkedEnd(s, flush) ==
  IF s.avail_out = 0 THEN Returns(s, "Z_OK") ELSE Finishing(s, flush)
Treated(b, flush) ==
  IF b.ret \in {"need_more", "finish_started"} THEN Returns(Again(b), "Z_OK")
  ELSE IF b.ret = "finish_done" THEN Finishing(b, flush)
  ELSE MarkedEnd(Again(Marked(b, flush)), flush)

Worked(s, flush) ==
  IF s.avail_in = 0 /\ s.lookahead = 0
       /\ (flush = Z_NO_FLUSH \/ s.status = "finish")
  THEN Finishing(s, flush)
  ELSE Treated(StatusFinish(
         Run(Assert_([s EXCEPT !.hash_head = NIL], s.sent = 0, "overwritten"),
             flush)), flush)

\* what is pending goes first; old is the flush of the call before
Useless(s, old, flush) ==
  s.pending = <<>> /\ s.avail_in = 0 /\ flush <= old /\ flush # Z_FINISH
Resumed(s, old, flush) ==
  LET p == flush_pending(s)
  IN  IF s.pending # <<>> /\ p.avail_out = 0 THEN Returns(Again(p), "Z_OK")
      ELSE IF Useless(s, old, flush) \/ (s.status = "finish" /\ s.avail_in # 0)
      THEN Returns(p, "Z_BUF_ERROR")
      ELSE Worked(p, flush)

deflate(s, flush) ==
  IF s.status = "finish" /\ flush # Z_FINISH THEN Returns(s, "Z_STREAM_ERROR")
  ELSE IF s.avail_out = 0 THEN Returns(s, "Z_BUF_ERROR")
  ELSE Resumed(Headers([s EXCEPT !.last_flush = flush]), s.last_flush, flush)

\* another function of the table: what was read is compressed before
deflateParams(s, to, strategy) ==
  LET level == IF s.fastest /\ to # 0 THEN 1 ELSE to
      changes == configuration_table[level].func # Config(s).func
  IN  [IF changes /\ s.total_in # 0 THEN deflate(s, Z_PARTIAL_FLUSH)
       ELSE Returns(s, "Z_OK") EXCEPT !.level = level, !.strategy = strategy]

deflateEnd(s) == IF s.status = "busy" THEN "Z_DATA_ERROR" ELSE "Z_OK"
=============================================================================

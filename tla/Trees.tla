------------------------------- MODULE Trees -------------------------------
(***************************************************************************)
(* The Huffman coder of the vendored zlib: what trees.c does to the state  *)
(* of a stream when a block ends.  The alphabets, the fields of a block    *)
(* header and the byte itself are parameters, so that small ones exercise  *)
(* every branch; the real values are given beside them.                    *)
(*                                                                         *)
(* A byte is a sequence of ByteBits bits, the first to be sent first.  The *)
(* stream is a record; the fields used here are bi (the valid bits of      *)
(* bi_buf), pending (the bytes of pending_buf), lf and df (the frequencies *)
(* of dyn_ltree and dyn_dtree), tally (d_buf and l_buf), last_eob_len,     *)
(* level, strategy, the counters of the DEBUG build (compressed_len,       *)
(* bits_sent) and fault, the first assertion that failed.                  *)
(***************************************************************************)
EXTENDS Integers, FiniteSetsExt, SequencesExt

CONSTANTS
  ByteBits,     \* bits of a byte: 8
  LITERALS,     \* 2^ByteBits, the values of a byte: 256
  LENGTH_CODES, \* codes of the lengths of matches: 29
  D_CODES,      \* codes of the distances: 30
  MAX_BITS,     \* longest code of a literal, length or distance: 15
  MAX_BL_BITS,  \* longest code of a bit length: 7
  extra_lbits,  \* extra bits of each length code
  extra_dbits,  \* extra bits of each distance code
  ZeroBits,     \* extra bits of REPZ_3_10 and of REPZ_11_138: <<3, 7>>
  bl_order,     \* order in which the bit lengths of the bit lengths are sent
  HeaderBits,   \* bits of the three counts of a dynamic block: <<5, 5, 4>>
  static_llen,  \* code lengths of static_ltree, two unused codes included
  static_dlen,  \* code length of static_dtree: 5
  lit_bufsize   \* size of d_buf and l_buf: 16384

BL_CODES    == MAX_BITS + 4
L_CODES     == LITERALS + 1 + LENGTH_CODES
END_BLOCK   == LITERALS
REP_3_6     == MAX_BITS + 1
REPZ_3_10   == MAX_BITS + 2
REPZ_11_138 == MAX_BITS + 3
Short       == 2 + 2^ZeroBits[1]        \* 10
Long        == Short + 2^ZeroBits[2]    \* 138
Buf_size    == 2 * ByteBits

ASSUME TreesAssumption ==
  /\ LITERALS = 2^ByteBits
  /\ Len(extra_lbits) = LENGTH_CODES /\ Len(extra_dbits) = D_CODES
  /\ Len(bl_order) = BL_CODES /\ ToSet(bl_order) = 0 .. BL_CODES - 1
  /\ Len(static_llen) = L_CODES + 2
  /\ BL_CODES <= 2^MAX_BL_BITS

----------------------------------------------------------------------------
(* Bits *)

Upto(n) == 0 .. n - 1
SumOf(f(_), S) == MapThenSumSet(f, S)

\* the n low bits of v, as send_bits emits them
Bits(v, n) == [i \in 1 .. n |-> (v \div 2^(i - 1)) % 2]
\* a code, first bit first: bi_reverse before send_bits
CodeBits(v, n) == [i \in 1 .. n |-> (v \div 2^(n - i)) % 2]

RECURSIVE BytesOf(_), Joined(_)
BytesOf(bs) == IF bs = <<>> THEN <<>>
               ELSE <<SubSeq(bs, 1, ByteBits)>>
                      \o BytesOf(SubSeq(bs, ByteBits + 1, Len(bs)))
Joined(ss) == IF ss = <<>> THEN <<>>
              ELSE IF Len(ss) = 1 THEN ss[1]
              ELSE LET h == Len(ss) \div 2
                   IN  Joined(SubSeq(ss, 1, h))
                         \o Joined(SubSeq(ss, h + 1, Len(ss)))

\* bits missing to the end of the byte
Pad(n)     == (-n) % ByteBits
Padded(bs) == bs \o [i \in 1 .. Pad(Len(bs)) |-> 0]

Assert_(s, cond, what) ==
  IF s.fault = "none" /\ ~cond THEN [s EXCEPT !.fault = what] ELSE s

(* Calls of send_bits in a row: bi_buf is written out when what comes does *)
(* not fit in it any more, so 1 to Buf_size bits stay behind.              *)
Kept(n)  == IF n = 0 THEN 0 ELSE ((n - 1) \div Buf_size) * Buf_size
send_bits(s, bs) ==
  LET all == s.bi \o bs
      n   == IF bs = <<>> THEN 0 ELSE Kept(Len(all))
  IN  [s EXCEPT !.pending = @ \o BytesOf(SubSeq(all, 1, n)),
                !.bi = SubSeq(all, n + 1, Len(all)),
                !.bits_sent = @ + Len(bs)]

\* write out bi_buf when it is full, its first byte when that one is
bi_flush(s) ==
  LET n == IF Len(s.bi) = Buf_size THEN Buf_size
           ELSE IF Len(s.bi) >= ByteBits THEN ByteBits ELSE 0
  IN  [s EXCEPT !.pending = @ \o BytesOf(SubSeq(s.bi, 1, n)),
                !.bi = SubSeq(@, n + 1, Len(@))]

bi_windup(s) ==
  [s EXCEPT !.pending = @ \o BytesOf(Padded(s.bi)),
            !.bi = <<>>,
            !.bits_sent = @ + Pad(@)]

\* buf is a sequence of values of bytes
copy_block(s, buf) ==
  LET w    == bi_windup(s)
      body == BytesOf(Bits(Len(buf), Buf_size)
                        \o [i \in 1 .. Buf_size |->
                              1 - Bits(Len(buf), Buf_size)[i]])
                \o [i \in DOMAIN buf |-> Bits(buf[i], ByteBits)]
  IN  [w EXCEPT !.pending = @ \o body,
                !.last_eob_len = 8,
                !.bits_sent = @ + ByteBits * Len(body)]

----------------------------------------------------------------------------
(* The static tables *)

\* number of values before code c when code i stands for 2^extra[i] of them
Before(extra, c) == SumOf(LAMBDA i : 2^extra[i + 1], Upto(c))

\* the longest match has a code of its own
base_length == [c \in Upto(LENGTH_CODES) |->
                  IF c = LENGTH_CODES - 1 THEN 0 ELSE Before(extra_lbits, c)]
base_dist   == [c \in Upto(D_CODES) |-> Before(extra_dbits, c)]
NLengths    == Before(extra_lbits, LENGTH_CODES - 1)

_length_code == [l \in Upto(NLengths) |->
  IF l = NLengths - 1 THEN LENGTH_CODES - 1
  ELSE Max({c \in Upto(LENGTH_CODES - 1) : base_length[c] <= l})]
d_code == [d \in Upto(Before(extra_dbits, D_CODES)) |->
             Max({c \in Upto(D_CODES) : base_dist[c] <= d})]

(* len: the bit length of each code.  The codes of a length follow each    *)
(* other, after twice the last one of the length before.                   *)
gen_codes(len) ==
  LET used      == {n \in DOMAIN len : len[n] # 0}
      count(b)  == Cardinality({n \in used : len[n] = b})
      next[b \in 0 .. MAX_BITS] ==
        IF b = 0 THEN 0 ELSE (next[b - 1] + count(b - 1)) * 2
  IN  [n \in DOMAIN len |->
         IF len[n] = 0 THEN <<>>
         ELSE CodeBits(next[len[n]]
                         + Cardinality({m \in used : m < n /\ len[m] = len[n]}),
                       len[n])]

static_len   == [n \in Upto(L_CODES + 2) |-> static_llen[n + 1]]
static_ltree == gen_codes(static_len)
static_dtree == [n \in Upto(D_CODES) |-> CodeBits(n, static_dlen)]

\* tree descriptors; no static tree is a tree of zero lengths
l_desc ==
  [elems |-> L_CODES, max_length |-> MAX_BITS, static |-> static_len,
   extra |-> [n \in Upto(L_CODES) |->
                IF n > LITERALS THEN extra_lbits[n - LITERALS] ELSE 0]]
d_desc ==
  [elems |-> D_CODES, max_length |-> MAX_BITS,
   static |-> [n \in Upto(D_CODES) |-> static_dlen],
   extra |-> [n \in Upto(D_CODES) |-> extra_dbits[n + 1]]]
bl_desc ==
  [elems |-> BL_CODES, max_length |-> MAX_BL_BITS,
   static |-> [n \in Upto(BL_CODES) |-> 0],
   extra |-> [n \in Upto(BL_CODES) |->
                CASE n = REP_3_6 -> 2 [] n = REPZ_3_10 -> ZeroBits[1]
                  [] n = REPZ_11_138 -> ZeroBits[2] [] OTHER -> 0]]

----------------------------------------------------------------------------
(* Building a tree.  w is the work space: the heap, the nodes taken out of *)
(* it (the last one first), and the freq, depth and dad of the nodes.      *)

smaller(w, n, m) ==
  \/ w.freq[n] < w.freq[m]
  \/ w.freq[n] = w.freq[m] /\ w.depth[n] <= w.depth[m]

RECURSIVE pqdownheap(_, _)
pqdownheap(w, k) ==
  LET h == w.heap
      j == IF 2 * k < Len(h) /\ smaller(w, h[2 * k + 1], h[2 * k])
           THEN 2 * k + 1 ELSE 2 * k
  IN  IF j > Len(h) THEN w
      ELSE IF smaller(w, h[k], h[j]) THEN w
      ELSE pqdownheap([w EXCEPT !.heap[k] = h[j], !.heap[j] = h[k]], j)

pqremove(w) ==
  LET h == Front(w.heap)
  IN  pqdownheap([w EXCEPT !.heap = [h EXCEPT ![1] = Last(w.heap)]], 1)

RECURSIVE Heaped(_, _), Combined(_, _), Forced(_, _)
Heaped(w, k) == IF k = 0 THEN w ELSE Heaped(pqdownheap(w, k), k - 1)

\* the two least frequent nodes become the sons of a new one
Combined(w, node) ==
  IF Len(w.heap) = 1 THEN [w EXCEPT !.out = w.heap \o @]
  ELSE LET n  == w.heap[1]
           w1 == pqremove(w)
           m  == w1.heap[1]
           w2 == [w1 EXCEPT
                    !.out = <<m, n>> \o @,
                    !.freq[node] = w.freq[n] + w.freq[m],
                    !.depth[node] = Max({w.depth[n], w.depth[m]}) + 1,
                    !.dad = [@ EXCEPT ![n] = node, ![m] = node],
                    !.heap[1] = node]
       IN  Combined(pqdownheap(w2, 1), node + 1)

\* two codes at least: codes that do not occur are added
Forced(used, max_code) ==
  IF Len(used) >= 2 THEN [heap |-> used, max_code |-> max_code]
  ELSE LET top == IF max_code < 2 THEN max_code + 1 ELSE max_code
       IN  Forced(Append(used, IF max_code < 2 THEN top ELSE 0), top)

(* Lengths that exceed max are cut; then leaves are moved down the tree,   *)
(* one for two cut ones, to make room.  bl counts the leaves of a length.  *)
RECURSIVE Balanced(_, _, _)
Balanced(bl, overflow, max) ==
  IF overflow <= 0 THEN bl
  ELSE LET b == Max({i \in 1 .. max - 1 : bl[i] > 0})
       IN  Balanced([[[bl EXCEPT ![b] = @ - 1] EXCEPT ![b + 1] = @ + 2]
                       EXCEPT ![max] = @ - 1],
                    overflow - 2, max)

gen_bitlen(w, desc) ==
  LET max   == desc.max_length
      root  == w.out[1]
      nodes == ToSet(w.out)
      cut[n \in nodes] == IF n = root THEN 0 ELSE Min({cut[w.dad[n]] + 1, max})
      over  == Cardinality({n \in nodes \ {root} : cut[w.dad[n]] + 1 > max})
      least == SelectSeq(Reverse(w.out), LAMBDA n : n < desc.elems)
      count == [b \in 1 .. max |->
                  Cardinality({i \in DOMAIN least : cut[least[i]] = b})]
      bl    == Balanced(count, over, max)
      deeper(b) == SumOf(LAMBDA i : bl[i], b + 1 .. max)
      length(i) == IF over = 0 THEN cut[least[i]]
                   ELSE CHOOSE b \in 1 .. max : /\ deeper(b) < i
                                                /\ i <= deeper(b) + bl[b]
  IN  [n \in Upto(desc.elems) |->
         IF n \notin ToSet(least) THEN 0
         ELSE length(CHOOSE i \in DOMAIN least : least[i] = n)]

\* the work space at the start; the codes of extra do not occur
WorkSpace(freq, desc, heap, extra) ==
  LET zero == [n \in 0 .. 2 * desc.elems |-> 0]
  IN  [heap |-> heap, out |-> <<>>, depth |-> zero, dad |-> zero,
       freq |-> [n \in DOMAIN zero |-> IF n \in extra THEN 1
                                       ELSE IF n < desc.elems THEN freq[n]
                                       ELSE 0]]

\* bits the codes of used take, w.freq times each, when len gives their lengths
Total(w, desc, used, len) ==
  SumOf(LAMBDA n : w.freq[n] * (len[n] + desc.extra[n]), used)

\* what build_tree leaves when w is the work space at its end
TreeOf(w, desc, forced, extra, len) ==
  [max_code |-> forced.max_code, len |-> len, code |-> gen_codes(len),
   opt |-> Total(w, desc, ToSet(forced.heap), len) - Cardinality(extra),
   static |-> Total(w, desc, ToSet(forced.heap), desc.static)
                - SumOf(LAMBDA n : desc.static[n], extra)]
Measured(w, desc, forced, extra) ==
  TreeOf(w, desc, forced, extra, gen_bitlen(w, desc))

(* The tree of the frequencies freq: its lengths, its codes, the bits the  *)
(* block takes with it and with the static tree of desc.                   *)
build_tree(freq, desc) ==
  LET all    == [i \in 1 .. desc.elems |-> i - 1]
      used   == SelectSeq(all, LAMBDA n : freq[n] # 0)
      forced == Forced(used, IF used = <<>> THEN -1 ELSE Last(used))
      extra  == {forced.heap[i] : i \in Len(used) + 1 .. Len(forced.heap)}
      w      == WorkSpace(freq, desc, forced.heap, extra)
  IN  Measured(Combined(Heaped(w, Len(forced.heap) \div 2), desc.elems),
               desc, forced, extra)

----------------------------------------------------------------------------
(* Run lengths of the lengths of a tree *)

(* Runs of equal lengths, cut at max_count.  A run shorter than min is     *)
(* sent code by code; prev is the length of the run before it.             *)
RECURSIVE RunsFrom(_, _, _)
RunsFrom(tree, n, r) ==
  IF n > tree.max_code THEN r.runs
  ELSE LET cur  == tree.len[n]
           next == IF n = tree.max_code THEN -1 ELSE tree.len[n + 1]
           c    == r.count + 1
       IN  IF c < r.max /\ cur = next
           THEN RunsFrom(tree, n + 1, [r EXCEPT !.count = c])
           ELSE RunsFrom(tree, n + 1,
                  [runs |-> Append(r.runs, [len |-> cur, count |-> c,
                                            prev |-> r.prev, min |-> r.min]),
                   count |-> 0, prev |-> cur,
                   max |-> CASE next = 0 -> Long [] next # 0 /\ cur = next -> 6
                             [] OTHER -> 7,
                   min |-> IF next = 0 \/ cur = next THEN 3 ELSE 4])
Runs(tree) ==
  RunsFrom(tree, 0, [runs |-> <<>>, count |-> 0, prev |-> -1,
                     max |-> IF tree.len[0] = 0 THEN Long ELSE 7,
                     min |-> IF tree.len[0] = 0 THEN 3 ELSE 4])

\* how often code c of the bit length tree is counted for a run
CountedFor(r, c) ==
  IF r.count < r.min THEN (IF c = r.len THEN r.count ELSE 0)
  ELSE IF r.len # 0
       THEN (IF c = r.len /\ r.len # r.prev THEN 1 ELSE 0)
              + (IF c = REP_3_6 THEN 1 ELSE 0)
  ELSE IF c = (IF r.count <= Short THEN REPZ_3_10 ELSE REPZ_11_138)
       THEN 1 ELSE 0

scan_tree(tree, c) ==
  LET rs == Runs(tree) IN SumOf(LAMBDA i : CountedFor(rs[i], c), DOMAIN rs)

\* the bits sent for a run, with the codes of the bit length tree
SentFor(r, code) ==
  IF r.count < r.min THEN Joined([i \in 1 .. r.count |-> code[r.len]])
  ELSE IF r.len # 0
       THEN LET fresh == r.len # r.prev
                left  == IF fresh THEN r.count - 1 ELSE r.count
            IN  (IF fresh THEN code[r.len] ELSE <<>>)
                  \o code[REP_3_6] \o Bits(left - 3, 2)
  ELSE IF r.count <= Short
       THEN code[REPZ_3_10] \o Bits(r.count - 3, ZeroBits[1])
  ELSE code[REPZ_11_138] \o Bits(r.count - Short - 1, ZeroBits[2])

send_tree(tree, code) ==
  LET rs == Runs(tree) IN Joined([i \in DOMAIN rs |-> SentFor(rs[i], code)])

\* the tree of the bit lengths, and the last of bl_order to be sent
WithLast(bl, last) ==
  [tree |-> bl, max_blindex |-> last,
   bits |-> bl.opt + 3 * (last + 1)
              + HeaderBits[1] + HeaderBits[2] + HeaderBits[3]]
Ordered(bl) ==
  WithLast(bl, Max({3} \cup {i \in Upto(BL_CODES) :
                               bl.len[bl_order[i + 1]] # 0}))
build_bl_tree(l, d) ==
  Ordered(build_tree([c \in Upto(BL_CODES) |->
                        scan_tree(l, c) + scan_tree(d, c)], bl_desc))

send_all_trees(l, d, bl) ==
  Bits(l.max_code - LITERALS, HeaderBits[1])
    \o Bits(d.max_code, HeaderBits[2])
    \o Bits(bl.max_blindex - 3, HeaderBits[3])
    \o Joined([i \in 1 .. bl.max_blindex + 1 |->
                 Bits(bl.tree.len[bl_order[i]], 3)])
    \o send_tree(l, bl.tree.code) \o send_tree(d, bl.tree.code)

----------------------------------------------------------------------------
(* Blocks *)

init_block(s) ==
  [s EXCEPT !.lf = [n \in Upto(L_CODES) |-> IF n = END_BLOCK THEN 1 ELSE 0],
            !.df = [n \in Upto(D_CODES) |-> 0],
            !.tally = <<>>]

_tr_init(s) ==
  init_block([s EXCEPT !.bi = <<>>, !.last_eob_len = 8,
                       !.compressed_len = 0, !.bits_sent = 0])

\* <<0, c>> is the literal c, <<dist, len>> a match longer than MIN_MATCH by len
_tr_tally(s, dist, lc) ==
  LET t == [s EXCEPT !.tally = Append(@, <<dist, lc>>)]
  IN  IF dist = 0 THEN [t EXCEPT !.lf[lc] = @ + 1]
      ELSE IF lc \notin DOMAIN _length_code \/ dist - 1 \notin DOMAIN d_code
      THEN Assert_(s, FALSE, "bad match")
      ELSE [t EXCEPT !.lf[_length_code[lc] + LITERALS + 1] = @ + 1,
                     !.df[d_code[dist - 1]] = @ + 1]
BlockFull(s) == Len(s.tally) = lit_bufsize - 1

\* what compress_block sends for an entry of the tally
MatchBits(t, c, d, lcode, dcode) ==
  lcode[c + LITERALS + 1] \o Bits(t[2] - base_length[c], extra_lbits[c + 1])
    \o dcode[d] \o Bits(t[1] - 1 - base_dist[d], extra_dbits[d + 1])
SymbolBits(t, lcode, dcode) ==
  IF t[1] = 0 THEN lcode[t[2]]
  ELSE MatchBits(t, _length_code[t[2]], d_code[t[1] - 1], lcode, dcode)

(* d_buf lies in pending_buf: what is written must not reach the entries   *)
(* that are still to be read.                                              *)
RoomFor(s, sym) ==
  LET sent[i \in 0 .. Len(sym)] == IF i = 0 THEN Len(s.bi)
                                   ELSE sent[i - 1] + Len(sym[i])
  IN  \A i \in DOMAIN sym :
        Len(s.pending) + Kept(sent[i]) \div ByteBits < lit_bufsize + 2 * i
SymbolsSent(s, sym, eob) ==
  Assert_([send_bits(s, Joined(sym) \o eob) EXCEPT !.last_eob_len = Len(eob)],
          RoomFor(s, sym), "pendingBuf overflow")
compress_block(s, lcode, dcode) ==
  SymbolsSent(s, [i \in DOMAIN s.tally |->
                    SymbolBits(s.tally[i], lcode, dcode)], lcode[END_BLOCK])

BlockType(k, eof) == Bits(2 * k + (IF eof THEN 1 ELSE 0), 3)
STORED_BLOCK == 0
STATIC_TREES == 1
DYN_TREES    == 2

_tr_stored_block(s, buf, eof) ==
  LET t == [send_bits(s, BlockType(STORED_BLOCK, eof)) EXCEPT
              !.compressed_len = s.compressed_len + 3
                                   + Pad(s.compressed_len + 3)
                                   + (Len(buf) + 4) * ByteBits]
  IN  copy_block(t, buf)

EmptyBlock(s) ==
  bi_flush(send_bits([s EXCEPT !.compressed_len =
                        @ + 3 + Len(static_ltree[END_BLOCK])],
                     BlockType(STATIC_TREES, FALSE) \o static_ltree[END_BLOCK]))

\* one empty block, and another one when inflate could lack lookahead
AndAnother(s) ==
  IF 1 + s.last_eob_len + 10 - Len(s.bi) < 9 THEN EmptyBlock(s) ELSE s
_tr_align(s) ==
  [AndAnother(EmptyBlock(s)) EXCEPT
     !.last_eob_len = Len(static_ltree[END_BLOCK])]

Bytes(bits) == (bits + 3 + ByteBits - 1) \div ByteBits

StaticBlock(s, eof, bits) ==
  [compress_block(send_bits(s, BlockType(STATIC_TREES, eof)),
                  static_ltree, static_dtree)
     EXCEPT !.compressed_len = @ + 3 + bits]
DynamicBlock(s, eof, bits, l, d, bl) ==
  [compress_block(send_bits(s, BlockType(DYN_TREES, eof)
                                 \o send_all_trees(l, d, bl)), l.code, d.code)
     EXCEPT !.compressed_len = @ + 3 + bits]

\* the block of the kind that takes the fewest bytes
Smallest(s, has_buf, buf, eof, l, d, bl) ==
  LET opt  == l.opt + d.opt + bl.bits
      stat == l.static + d.static
      best == Min({Bytes(opt), Bytes(stat)})
  IN  IF has_buf /\ (s.level = 0 \/ Len(buf) + 4 <= best)
      THEN _tr_stored_block(s, buf, eof)
      ELSE IF s.strategy = "fixed" \/ Bytes(stat) = best
      THEN StaticBlock(s, eof, stat)
      ELSE DynamicBlock(s, eof, opt, l, d, bl)
BlockOf(s, has_buf, buf, eof, l, d) ==
  Smallest(s, has_buf, buf, eof, l, d, build_bl_tree(l, d))

\* the next block starts; the last one ends with a byte
BlockEnded(s, eof) ==
  LET next == init_block(Assert_(s, s.compressed_len = s.bits_sent,
                                 "bad compressed size"))
  IN  IF eof THEN bi_windup(next) ELSE next

(* buf: the bytes of the block.  has_buf: they are still in the window.    *)
_tr_flush_block(s, has_buf, buf, eof) ==
  BlockEnded(BlockOf(s, has_buf, buf, eof, build_tree(s.lf, l_desc),
                     build_tree(s.df, d_desc)), eof)
=============================================================================

------------------------------ MODULE Inflate ------------------------------
(***************************************************************************)
(* What a compressed stream means: the reference the compressor is         *)
(* compared with.  It models no code of the repository, which only         *)
(* compresses; it follows the format the compressor says it writes         *)
(* (RFC 1951), with the parameters of Trees.                               *)
(*                                                                         *)
(* in is a sequence of bits and i the next one to read.  Decoding stops at *)
(* the end of in, wherever that is, and tells how far it got:              *)
(* [out, status], status being "more", "final" or "bad".                   *)
(***************************************************************************)
EXTENDS Trees

Stop(out, status) == [out |-> out, status |-> status]

\* n bits from i on, as a number
ValueAt(in, i, n) == SumOf(LAMBDA k : in[i + k] * 2^k, Upto(n))

(* The code of n is the fraction of the code space that the codes before   *)
(* it use, shorter ones first.                                             *)
Canonical(len) ==
  LET before(m, n) == len[m] < len[n] \/ (len[m] = len[n] /\ m < n)
  IN  [n \in {k \in DOMAIN len : len[k] # 0} |->
         CodeBits(SumOf(LAMBDA m : 2^(len[n] - len[m]),
                        {m \in DOMAIN len : len[m] # 0 /\ before(m, n)}),
                  len[n])]

\* the codes use the whole code space
Whole(len) ==
  SumOf(LAMBDA n : 2^(MAX_BITS - len[n]), {n \in DOMAIN len : len[n] # 0})
    = 2^MAX_BITS

\* the symbols whose code is next; one at most for a prefix code
Next_(in, i, code) ==
  {n \in DOMAIN code : /\ i + Len(code[n]) - 1 <= Len(in)
                       /\ SubSeq(in, i, i + Len(code[n]) - 1) = code[n]}

RECURSIVE Copied(_, _, _)
Copied(out, dist, n) ==
  IF n = 0 THEN out
  ELSE Copied(Append(out, out[Len(out) + 1 - dist]), dist, n - 1)

\* the lengths of n codes: runs of them, coded with code
RECURSIVE LengthsAt(_, _, _, _, _)
LengthsAt(in, i, code, n, lens) ==
  IF Len(lens) >= n
  THEN [lens |-> lens, at |-> i, ok |-> Len(lens) = n]
  ELSE LET hits == Next_(in, i, code)
           none == [lens |-> lens, at |-> i, ok |-> FALSE]
       IN  IF Cardinality(hits) # 1 THEN none
           ELSE LET c == CHOOSE x \in hits : TRUE
                    j == i + Len(code[c])
                    x == bl_desc.extra[c]
                    v == ValueAt(in, j, x)
                    run(e, k) == lens \o [q \in 1 .. k |-> e]
                IN  IF j + x - 1 > Len(in) \/ (c = REP_3_6 /\ lens = <<>>)
                    THEN none
                    ELSE LengthsAt(in, j + x, code, n,
                           CASE c = REP_3_6     -> run(Last(lens), 3 + v)
                             [] c = REPZ_3_10   -> run(0, 3 + v)
                             [] c = REPZ_11_138 -> run(0, Short + 1 + v)
                             [] OTHER           -> run(c, 1))

RECURSIVE BlockAt(_, _, _), DataAt(_, _, _, _, _, _)

\* literals and matches up to the end of the block
DataAt(in, i, lcode, dcode, out, final) ==
  LET hits == Next_(in, i, lcode)
  IN  IF Cardinality(hits) > 1 THEN Stop(out, "bad")
      ELSE IF hits = {} THEN Stop(out, "more")
      ELSE LET c == CHOOSE x \in hits : TRUE
               j == i + Len(lcode[c])
           IN  IF c < LITERALS
               THEN DataAt(in, j, lcode, dcode, Append(out, c), final)
               ELSE IF c = END_BLOCK
               THEN IF final THEN Stop(out, "final") ELSE BlockAt(in, j, out)
               ELSE LET lc == c - LITERALS - 1
                        x  == extra_lbits[lc + 1]
                        ds == Next_(in, j + x, dcode)
                    IN  IF lc \notin Upto(LENGTH_CODES) \/ Cardinality(ds) > 1
                        THEN Stop(out, "bad")
                        ELSE IF ds = {} THEN Stop(out, "more")
                        ELSE LET d  == CHOOSE y \in ds : TRUE
                                 k  == j + x + Len(dcode[d])
                                 xd == extra_dbits[d + 1]
                                 dist == 1 + base_dist[d] + ValueAt(in, k, xd)
                                 len  == 3 + (IF lc = LENGTH_CODES - 1
                                              THEN NLengths - 1
                                              ELSE base_length[lc]
                                                     + ValueAt(in, j, x))
                             IN  IF k + xd - 1 > Len(in) THEN Stop(out, "more")
                                 ELSE IF dist > Len(out) THEN Stop(out, "bad")
                                 ELSE DataAt(in, k + xd, lcode, dcode,
                                             Copied(out, dist, len), final)

StoredAt(in, i, out, final) ==
  LET j == i + Pad(i - 1)
      k == j + 2 * Buf_size
      n == ValueAt(in, j, Buf_size)
  IN  IF k - 1 > Len(in) THEN Stop(out, "more")
      ELSE IF ValueAt(in, j + Buf_size, Buf_size) # 2^Buf_size - 1 - n
      THEN Stop(out, "bad")
      ELSE IF k + n * ByteBits - 1 > Len(in) THEN Stop(out, "more")
      ELSE LET all == out \o [q \in 1 .. n |->
                                ValueAt(in, k + (q - 1) * ByteBits, ByteBits)]
           IN  IF final THEN Stop(all, "final")
               ELSE BlockAt(in, k + n * ByteBits, all)

DynamicAt(in, i, out, final) ==
  LET a  == i + HeaderBits[1]
      b  == a + HeaderBits[2]
      h  == b + HeaderBits[3]
      nl == LITERALS + 1 + ValueAt(in, i, HeaderBits[1])
      nd == 1 + ValueAt(in, a, HeaderBits[2])
      nb == 4 + ValueAt(in, b, HeaderBits[3])
      rank(c) == CHOOSE r \in Upto(BL_CODES) : bl_order[r + 1] = c
      bl   == [c \in Upto(BL_CODES) |->
                 IF rank(c) < nb THEN ValueAt(in, h + 3 * rank(c), 3) ELSE 0]
      both == LengthsAt(in, h + 3 * nb, Canonical(bl), nl + nd, <<>>)
      l    == [n \in Upto(nl) |-> both.lens[n + 1]]
      d    == [n \in Upto(nd) |-> both.lens[nl + n + 1]]
  IN  IF h - 1 > Len(in) \/ h + 3 * nb - 1 > Len(in) THEN Stop(out, "more")
      ELSE IF both.ok /\ Whole(bl) /\ Whole(l) /\ Whole(d)
      THEN DataAt(in, both.at, Canonical(l), Canonical(d), out, final)
      ELSE Stop(out, IF both.at > Len(in) - 2 * ByteBits THEN "more" ELSE "bad")

BlockAt(in, i, out) ==
  IF i + 2 > Len(in) THEN Stop(out, "more")
  ELSE LET final == in[i] = 1
           type  == ValueAt(in, i + 1, 2)
       IN  CASE type = STORED_BLOCK -> StoredAt(in, i + 3, out, final)
             [] type = STATIC_TREES ->
                  DataAt(in, i + 3, Canonical(static_len),
                         [n \in Upto(D_CODES) |-> CodeBits(n, static_dlen)],
                         out, final)
             [] type = DYN_TREES -> DynamicAt(in, i + 3, out, final)
             [] OTHER -> Stop(out, "bad")

\* hist: what the decoder knows before the stream (a preset dictionary)
Inflated(in, hist) == BlockAt(in, 1, hist)
=============================================================================

----------------------------- MODULE MCCompress -----------------------------
(***************************************************************************)
(* The instance of Compress that TLC checks: bytes of 4 bits, matches of   *)
(* 3 to 5 bytes, a window of 16 that slides after 23, blocks of 31         *)
(* symbols, codes of 5 bits at most.  The texts are chosen for what they   *)
(* make happen: see the comment of each.                                   *)
(***************************************************************************)
EXTENDS Compress

MCextra_lbits == <<0, 1, 0>>
MCextra_dbits == <<0, 0, 0, 0, 1, 1>>
MCZeroBits    == <<2, 3>>
MCbl_order    == <<6, 7, 8, 0, 3, 4, 2, 5, 1>>
MCHeaderBits  == <<2, 3, 3>>
\* literals, end of block, lengths, two unused codes
MCstatic_llen == [i \in 1 .. 22 |-> CASE i <= 16 -> 5 [] i \in {17, 18} -> 3
                                      [] OTHER -> 4]
MCtable ==
  (0 :> [func |-> "deflate_stored", good |-> 0, lazy |-> 0, nice |-> 0,
         chain |-> 0]) @@
  (1 :> [func |-> "deflate_fast", good |-> 4, lazy |-> 4, nice |-> 5,
         chain |-> 4]) @@
  (6 :> [func |-> "deflate_slow", good |-> 4, lazy |-> 5, nice |-> 5,
         chain |-> 8])

\* lazy matches: a match of 3, then one of 4 a byte later
Lazy == <<1, 2, 3, 9, 2, 3, 4, 5, 8, 1, 2, 3, 4, 5, 1, 2, 3, 4>>
\* nothing to find: stored
Noise == [i \in 1 .. 24 |-> (i * i * 7 + i * 3) % 16]
\* long repetition: the window slides
Rolling == [i \in 1 .. 60 |-> ((i \div 7) + (i % 3)) % 5]
\* frequencies that give codes of 6 bits, which are cut to 5
Skewed == <<0, 1, 0, 2, 0, 1, 0, 3, 0, 1, 0, 4, 0, 1, 0, 2, 0, 1, 0, 3, 0, 1,
            5, 2, 1, 3, 2>>
\* codes of the same length, sent as a run
Even == [i \in 1 .. 30 |-> (i * 5) % 8]
\* what repeats enough to get shorter than the file and its header
Flat(n) == [i \in 1 .. n |-> 1 + (i \div 30)]
Stripes(n) == [i \in 1 .. n |-> IF i % 20 < 12 THEN 3 + (i % 2) ELSE 7]
\* runs, for rle
Repeats == [i \in 1 .. 20 |-> IF i <= 9 THEN 4
                             ELSE IF i <= 15 THEN 6 ELSE i % 3]

Stream_ ==
  [text |-> Lazy, dict |-> <<>>, level |-> 6, strategy |-> "default",
   fastest |-> FALSE, wrap |-> 1, gzhead |-> <<>>, old |-> 1, color |-> 1]
With(text, level, strategy) ==
  [Stream_ EXCEPT !.text = text, !.level = level, !.strategy = strategy]

Calls(s, n, more, rooms, flushes) ==
  [mode |-> "calls", streams |-> <<s>>, calls |-> n, more |-> more,
   rooms |-> rooms, flushes |-> flushes, room |-> 200, params |-> {}]

\* every way to cut input, output and flushes
Cut == {Calls(With(Lazy, 6, "default"), 2, {0, 5, 18}, {1, 8, 200}, 0 .. 4)}

\* a byte of room, or of input, at a time
Drops ==
  {Calls(With(Rolling, l, "default"), 99, {60}, {1}, {4}) : l \in {0, 1, 6}}
    \cup {Calls(With(Rolling, l, "default"), 60, {1}, {200}, {0}) :
            l \in {0, 1, 6}}
    \cup {Calls([With(Rolling, 1, "default") EXCEPT !.fastest = TRUE],
                60, {1}, {200}, {0})}

\* flushes in the middle of text that comes back, by each function
Flushes ==
  {Calls([With(Rolling, l, "default") EXCEPT !.fastest = l = 1, !.wrap = 0],
         3, {7, 27}, {30}, {0, 3}) : l \in {0, 1, 6}}

\* each strategy and kind of block
Kinds ==
  {Calls(With(t, 6, s), 1, {11, 30}, {5, 200}, {0, 2}) :
     t \in {Noise, Skewed, Even, Repeats},
     s \in {"filtered", "huffman", "rle", "fixed"}}

\* a preset dictionary, one longer than the window can hold too
Dicts ==
  {Calls([With(Lazy, l, "default") EXCEPT !.dict = d], 1, {6, 18}, {8, 200},
         {0, 3}) :
     l \in {1, 6}, d \in {<<9, 2, 3, 4, 5>>, SubSeq(Rolling, 1, 12)}}

Changes ==
  {[Calls(With(Rolling, l, "default"), 3, {11, 24}, {200}, {0}) EXCEPT
      !.params = {<<0, "default">>, <<1, "rle">>, <<6, "filtered">>}] :
     l \in {0, 1, 6}}

(* gzip: the default header, one with all its fields cut by the room, and  *)
(* one that fills pending_buf in the middle of a field, sent at once.      *)
Gzip(fields, hcrc) ==
  [With(Lazy, 6, "default") EXCEPT !.wrap = 2,
     !.gzhead = <<[fields |-> fields, hcrc |-> hcrc]>>]
Fields == [extra |-> <<7, 8, 9>>, name |-> <<5, 0>>, comment |-> <<3, 2, 0>>]
LongName == [name |-> [i \in 1 .. 25 |-> IF i = 25 THEN 0 ELSE (i % 15) + 1]]
Gzips ==
  {Calls([With(Lazy, 1, "default") EXCEPT !.wrap = 2], 1, {5}, {8, 200}, {0, 3})}
    \cup {Calls(Gzip(Fields, hcrc), 2, {5}, {1, 12, 200}, {0, 4}) :
            hcrc \in BOOLEAN}
    \cup {Calls(Gzip(LongName, TRUE), 1, {5}, {200}, {0, 2})}

(* The web server, at once and in turns, with files of each length: longer *)
(* than the header, which shrink or not, and shorter.  A file is a string, *)
(* and its last byte 0.  Two messages share a color.                       *)
File(t) == Append([i \in DOMAIN t |-> IF t[i] = 0 THEN 15 ELSE t[i]], 0)
Server(mode, streams) == [mode |-> mode, streams |-> streams]
Page(t, c)  == [With(File(t), 6, "default") EXCEPT !.color = c]
Fast1(t, c) == [Page(t, c) EXCEPT !.fastest = TRUE]
Begins(t, n) == SubSeq(t, 1, n)
Servers ==
  {Server("sync", <<Page(Flat(60), 1), Page(Stripes(68), 2)>>),
   Server("sync", <<Page(Flat(60), 1), Page(Noise, 2)>>),
   Server("sync", <<Page(Begins(Lazy, 9), 1)>>),
   Server("driven", <<Fast1(Stripes(66), 1)>>),
   Server("driven", <<Fast1(Noise, 1)>>),
   Server("driven", <<Fast1(Begins(Lazy, 9), 1), Fast1(Begins(Repeats, 12), 2),
                      Fast1(Begins(Noise, 4), 1)>>)}

MCSettings == UNION {Cut, Drops, Flushes, Kinds, Dicts, Changes, Gzips,
                     Servers}

(* CompressShort.cfg: the files for which the room is too small.           *)
MCShort == {Server("sync", <<Page(t, 1)>>) : t \in {Noise, Begins(Lazy, 9)}}
             \cup {Server("driven", <<Fast1(Noise, 1)>>)}
\* a gzip header longer than pending_buf, and room for a part of it
MCHeader == {Calls(Gzip(LongName, FALSE), 1, {5}, {10}, {0})}
\* a room that ends inside the checksum is among those of these files
MCTrailer == {Server("driven", <<Fast1(Flat(n), 1)>>) : n \in 20 .. 60}
=============================================================================

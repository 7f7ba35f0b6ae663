------------------------------- MODULE Crc32 -------------------------------
(***************************************************************************)
(* The checksum of a gzip stream: crc32.c on a little-endian machine,      *)
(* which takes four bytes at a time once its input is aligned, with tables *)
(* for a byte that is followed by up to three others.  A register holds    *)
(* four bytes.                                                             *)
(***************************************************************************)
EXTENDS Trees, Bitwise

CONSTANT Poly \* the polynomial, its lowest power first: 0xedb88320

Word == 2^(4 * ByteBits)

ASSUME CrcAssumption == Poly \in 0 .. Word - 1

\* the register loses its lowest n bits, one at a time
RECURSIVE Shifted(_, _)
Shifted(c, n) ==
  IF n = 0 THEN c
  ELSE Shifted(IF c % 2 = 1 THEN Poly ^^ (c \div 2) ELSE c \div 2, n - 1)

\* table 0: of each byte; table k: of each byte that k null bytes follow
ByteTable == [b \in Upto(LITERALS) |-> Shifted(b, ByteBits)]
After(c)  == ByteTable[c % LITERALS] ^^ (c \div LITERALS)
crc_table ==
  LET table[k \in 0 .. 3] ==
        IF k = 0 THEN ByteTable
        ELSE [b \in Upto(LITERALS) |-> After(table[k - 1][b])]
  IN  table

Bytewise(c, buf) ==
  LET from[r \in Nat, i \in 1 .. Len(buf) + 1] ==
        IF i > Len(buf) THEN r ELSE from[After(r ^^ buf[i]), i + 1]
  IN  from[c, 1]

\* the first byte of a word is its lowest
DOLIT4(c, buf) ==
  LET w == c ^^ SumOf(LAMBDA i : buf[i + 1] * LITERALS^i, 0 .. 3)
      part(i) == crc_table[3 - i][(w \div LITERALS^i) % LITERALS]
  IN  (part(0) ^^ part(1)) ^^ (part(2) ^^ part(3))

Wordwise(c, buf) ==
  LET rest(i) == SubSeq(buf, i, Len(buf))
      from[r \in Nat, i \in 1 .. Len(buf) + 1] ==
        IF i + 3 > Len(buf) THEN Bytewise(r, rest(i))
        ELSE from[DOLIT4(r, SubSeq(buf, i, i + 3)), i + 4]
  IN  from[c, 1]

\* at is the address of buf: the bytes before the first whole word come first
crc32(crc, buf, at) ==
  LET lead == Min({Len(buf), (-at) % 4})
      c    == Bytewise(Word - 1 - crc, SubSeq(buf, 1, lead))
  IN  Word - 1 - Wordwise(c, SubSeq(buf, lead + 1, Len(buf)))
=============================================================================

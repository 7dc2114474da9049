------------------------------ MODULE BinCoder ------------------------------
(***************************************************************************)
(* The arithmetic coder of bins: BinEncoderBase and TBinEncoder on one     *)
(* side, BinDecoderBase and TBinDecoder on the other, as functions from    *)
(* coder states to coder states.  The encoder holds back bytes that a      *)
(* carry may still change; the decoder reads two bytes ahead.              *)
(*                                                                         *)
(* What is coded is an item: a tuple of its kind, a parameter and a value. *)
(*   <<"ctx", q, lps>>    a bin of a context whose less probable bin has   *)
(*                        probability q / 512; lps is 1 if it is that bin  *)
(*   <<"ep", n, bins>>    n equiprobable bins                              *)
(*   <<"rem", p, value>>  a remaining absolute level or difference; p has  *)
(*                        rice, cutoff and range (maxLog2TrDynamicRange)   *)
(*   <<"trm", 0, bin>>    a terminating bin                                *)
(* Both sides have the same contexts, so q is an input of both.            *)
(***************************************************************************)
EXTENDS Integers, Sequences, SequencesExt

Bits(x, shift) == x \div 2 ^ shift            \* x >> shift
Low(x, bits) == x % 2 ^ bits                  \* the lowest bits of x

\* getLPS, with q = state() >> 6 of the less probable bin.
LpsRange(range, q) == Bits(range * q, 9) + 1

RenormBitsMutant(lpsRange) ==                 \* large ranges are scaled too much
  LET i == Bits(lpsRange, 3)
  IN IF i = 0 THEN 6 ELSE IF i = 1 THEN 5 ELSE IF i < 4 THEN 4 ELSE IF i < 8 THEN 3 ELSE 2

\* getRenormBitsLPS: m_RenormTable_32.
RenormBits(lpsRange) ==
  LET i == Bits(lpsRange, 3)
  IN IF i = 0 THEN 6 ELSE IF i = 1 THEN 5 ELSE IF i < 4 THEN 4 ELSE IF i < 8 THEN 3
     ELSE IF i < 16 THEN 2 ELSE 1

\* Bins are coded at most eight at a time; the chunks are records of the number
\* of bins and their pattern.
Chunks(n, bins) ==
  LET count == (n + 7) \div 8
  IN [i \in 1..count |->
        LET rest == IF i = count THEN 0 ELSE n - 8 * i
        IN [n |-> IF i = count THEN n - 8 * (count - 1) ELSE 8,
            pattern |-> Low(Bits(bins, rest), IF i = count THEN n - 8 * (count - 1) ELSE 8)]]

-----------------------------------------------------------------------------
(* Encoder.                                                                 *)

EncStart ==
  [low |-> 0, range |-> 510, bufferedByte |-> 255, numBufferedBytes |-> 0,
   bitsLeft |-> 23, out |-> << >>]

Repeated(byte, n) == [i \in 1..n |-> byte]

WriteOutMutant(e) ==                          \* the bytes held back miss the carry
  LET leadByte == Bits(e.low, 24 - e.bitsLeft)
      rest == [e EXCEPT !.bitsLeft = @ + 8, !.low = Low(@, 24 - e.bitsLeft)]
      carry == Bits(leadByte, 8)
  IN IF leadByte = 255 THEN [rest EXCEPT !.numBufferedBytes = @ + 1]
     ELSE [rest EXCEPT
            !.numBufferedBytes = 1, !.bufferedByte = leadByte % 256,
            !.out = IF e.numBufferedBytes = 0 THEN @
                    ELSE Append(@, e.bufferedByte + carry)
                         \o Repeated(255, e.numBufferedBytes - 1)]

\* writeOut: bytes of ones are counted until a carry can no longer change them.
WriteOut(e) ==
  LET leadByte == Bits(e.low, 24 - e.bitsLeft)
      rest == [e EXCEPT !.bitsLeft = @ + 8, !.low = Low(@, 24 - e.bitsLeft)]
      carry == Bits(leadByte, 8)
  IN IF leadByte = 255 THEN [rest EXCEPT !.numBufferedBytes = @ + 1]
     ELSE [rest EXCEPT
            !.numBufferedBytes = 1, !.bufferedByte = leadByte % 256,
            !.out = IF e.numBufferedBytes = 0 THEN @
                    ELSE Append(@, e.bufferedByte + carry)
                         \o Repeated((255 + carry) % 256, e.numBufferedBytes - 1)]

\* low and the range are scaled by n bits.
Scaled(e, low, range, n) ==
  LET s == [e EXCEPT !.low = low * 2 ^ n, !.range = range * 2 ^ n, !.bitsLeft = @ - n]
  IN IF s.bitsLeft < 12 THEN WriteOut(s) ELSE s

EncodeBin(e, q, lps) ==
  LET lpsRange == LpsRange(e.range, q)
      range == e.range - lpsRange
  IN IF lps = 1 THEN Scaled(e, e.low + range, lpsRange, RenormBits(lpsRange))
     ELSE IF range < 256 THEN Scaled(e, e.low, range, 1)
     ELSE [e EXCEPT !.range = range]

\* encodeBinEP, encodeBinsEP and encodeAlignedBinsEP; the formula of the last is
\* that of the others for its range, 256.
EncodeBinsEP(e, n, bins) ==
  LET chunk(s, c) ==
        LET t == [s EXCEPT !.low = @ * 2 ^ c.n + s.range * c.pattern, !.bitsLeft = @ - c.n]
        IN IF t.bitsLeft < 12 THEN WriteOut(t) ELSE t
  IN FoldLeft(chunk, e, Chunks(n, bins))

\* encodeRemAbsEP: a unary prefix and a suffix.
EncodeRemAbsEP(e, p, value) ==
  LET quotient == Bits(value, p.rice)
      code == quotient - p.cutoff
      maxPrefix == 32 - p.cutoff - p.range
      escape == code >= 2 ^ maxPrefix - 1
      prefix == IF escape THEN maxPrefix
                ELSE CHOOSE k \in 0..maxPrefix : code \in (2 ^ k - 1)..(2 ^ (k + 1) - 2)
      suffix == (code - (2 ^ prefix - 1)) * 2 ^ p.rice + Low(value, p.rice)
  IN IF quotient < p.cutoff
     THEN EncodeBinsEP(EncodeBinsEP(e, quotient + 1, 2 ^ (quotient + 1) - 2),
                       p.rice, Low(value, p.rice))
     ELSE EncodeBinsEP(EncodeBinsEP(e, prefix + p.cutoff, 2 ^ (prefix + p.cutoff) - 1),
                       IF escape THEN p.range ELSE prefix + p.rice + 1, suffix)

EncodeBinTrm(e, bin) ==
  LET range == e.range - 2
  IN IF bin = 1 THEN [Scaled(e, e.low + range, 2, 7) EXCEPT !.range = 256]
     ELSE IF range >= 256 THEN [e EXCEPT !.range = range]
     ELSE Scaled(e, e.low, range, 1)

Encode(e, item) ==
  CASE item[1] = "ctx" -> EncodeBin(e, item[2], item[3])
    [] item[1] = "ep" -> EncodeBinsEP(e, item[2], item[3])
    [] item[1] = "rem" -> EncodeRemAbsEP(e, item[2], item[3])
    [] item[1] = "trm" -> EncodeBinTrm(e, item[3])

FinishMutant(e) ==                            \* no carry out of the last bits
  LET bits == 24 - e.bitsLeft
      pad == (8 - ((bits + 1) % 8)) % 8
      tail == (2 * Low(Bits(e.low, 8), bits) + 1) * 2 ^ pad
      bytes == (bits + 1 + pad) \div 8
  IN e.out
     \o (IF e.numBufferedBytes > 0
         THEN <<e.bufferedByte>> \o Repeated(255, e.numBufferedBytes - 1) ELSE << >>)
     \o [i \in 1..bytes |-> Low(Bits(tail, 8 * (bytes - i)), 8)]

\* finish and writeByteAlignment: the bytes held back, what is left of low
\* without its lowest byte, a one and zeros up to a whole byte.
Finish(e) ==
  LET carry == Bits(e.low, 32 - e.bitsLeft)
      bits == 24 - e.bitsLeft
      pad == (8 - ((bits + 1) % 8)) % 8
      tail == (2 * Bits(Low(e.low, 32 - e.bitsLeft), 8) + 1) * 2 ^ pad
      bytes == (bits + 1 + pad) \div 8
  IN e.out
     \o (IF carry > 0 THEN <<e.bufferedByte + 1>> \o Repeated(0, e.numBufferedBytes - 1)
         ELSE IF e.numBufferedBytes > 0
         THEN <<e.bufferedByte>> \o Repeated(255, e.numBufferedBytes - 1) ELSE << >>)
     \o [i \in 1..bytes |-> Low(Bits(tail, 8 * (bytes - i)), 8)]

-----------------------------------------------------------------------------
(* Decoder: pos is the place of the next byte in the data, value the value  *)
(* of the item decoded last.                                                *)

\* readByte.  It throws behind the data; the TypeOK of CodedSlice says that it is
\* not called there.
ByteAt(data, i) == IF i \in DOMAIN data THEN data[i] ELSE 0

DecStart(data, pos) ==
  [range |-> 510, value |-> ByteAt(data, pos) * 256 + ByteAt(data, pos + 1),
   bitsNeeded |-> -8, pos |-> pos + 2, item |-> 0]

\* The value is scaled by n bits, and a byte read when eight bits are needed.
Refilled(data, d, value, range, n) ==
  LET needed == d.bitsNeeded + n
  IN IF needed >= 0
     THEN [d EXCEPT !.range = range, !.value = value * 2 ^ n + ByteAt(data, d.pos) * 2 ^ needed,
                    !.bitsNeeded = needed - 8, !.pos = @ + 1]
     ELSE [d EXCEPT !.range = range, !.value = value * 2 ^ n, !.bitsNeeded = needed]

DecodeBin(data, d, q) ==
  LET lpsRange == LpsRange(d.range, q)
      range == d.range - lpsRange
      bits == RenormBits(lpsRange)
  IN IF d.value < range * 2 ^ 7
     THEN [(IF range < 256 THEN Refilled(data, d, d.value, range * 2, 1)
            ELSE [d EXCEPT !.range = range]) EXCEPT !.item = 0]
     ELSE [Refilled(data, d, d.value - range * 2 ^ 7, lpsRange * 2 ^ bits, bits) EXCEPT !.item = 1]

\* decodeBinEP and decodeBinsEP: a chunk of bins is compared bin by bin with
\* halves of the range.
DecodeChunk(data, d, n) ==
  LET r == Refilled(data, d, d.value, d.range, n)
      bin(s, i) == LET half == d.range * 2 ^ (7 + n - i)
                   IN IF s.value >= half
                      THEN [s EXCEPT !.value = @ - half, !.item = 2 * @ + 1]
                      ELSE [s EXCEPT !.item = 2 * @]
  IN FoldLeft(bin, r, [i \in 1..n |-> i])

\* decodeAlignedBinsEP: for the range 256 the bins are bits of the value.
DecodeAlignedChunk(data, d, n) ==
  LET r == [Refilled(data, d, Low(d.value, 15 - n), d.range, n) EXCEPT
              !.item = @ * 2 ^ n + Low(Bits(d.value, 15 - n), n)]
  IN r

\* The item of the result continues that of d.
DecodeBinsEP(data, d, n) ==
  LET chunk(s, c) == IF d.range = 256 THEN DecodeAlignedChunk(data, s, c.n)
                     ELSE DecodeChunk(data, s, c.n)
  IN FoldLeft(chunk, d, Chunks(n, 0))

MaxPrefix(p) == 32 - p.range

\* decodeRemAbsEP: the prefix ends with a zero or has the greatest length.
DecodeRemAbsEP(data, d, p) ==
  LET read(s, i) == IF s.ended THEN s
                    ELSE LET t == DecodeChunk(data, [s.d EXCEPT !.item = 0], 1)
                         IN [d |-> t, ended |-> t.item = 0, ones |-> s.ones + t.item]
      r == FoldLeft(read, [d |-> d, ended |-> FALSE, ones |-> 0], [i \in 1..MaxPrefix(p) |-> i])
      prefix == r.ones
      offset == IF prefix < p.cutoff THEN prefix
                ELSE 2 ^ (prefix - p.cutoff) + p.cutoff - 1
      length == IF prefix < p.cutoff THEN p.rice
                ELSE IF prefix = 32 - p.range THEN p.range
                ELSE p.rice + prefix - p.cutoff
      s == DecodeBinsEP(data, [r.d EXCEPT !.item = 0], length)
  IN [s EXCEPT !.item = @ + offset * 2 ^ p.rice]

DecodeBinTrm(data, d) ==
  LET range == d.range - 2
  IN IF d.value >= range * 2 ^ 7 THEN [d EXCEPT !.range = range, !.item = 1]
     ELSE IF range < 256 THEN [Refilled(data, d, d.value, range * 2, 1) EXCEPT !.item = 0]
     ELSE [d EXCEPT !.range = range, !.item = 0]

\* The item of kind and parameter k at the place of d.
Decode(data, d, k) ==
  LET fresh == [d EXCEPT !.item = 0]
  IN CASE k[1] = "ctx" -> DecodeBin(data, d, k[2])
       [] k[1] = "ep" -> DecodeBinsEP(data, fresh, k[2])
       [] k[1] = "rem" -> DecodeRemAbsEP(data, d, k[2])
       [] k[1] = "trm" -> DecodeBinTrm(data, d)

\* What finish CHECKs: of the byte read last, the bits not yet used are the
\* stop bit and zeros.
StopPattern(data, d) ==
  Low(ByteAt(data, d.pos - 1) * 2 ^ (8 + d.bitsNeeded), 8) = 128
=============================================================================

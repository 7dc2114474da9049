----------------------------- MODULE ByteStream -----------------------------
(***************************************************************************)
(* NAL units in a byte stream, as functions on sequences of bytes: how the *)
(* encoder keeps start codes out of a NAL unit (NALwrite) and counts the   *)
(* bytes this adds to a substream (OutputBitstream), how the decoder finds *)
(* NAL units (AnnexBread), removes those bytes again and remembers where   *)
(* they were (NALread), and what entry points become without them          *)
(* (VLCReader).                                                            *)
(***************************************************************************)
EXTENDS Integers, Sequences, SequencesExt

Byte == 0..255

\* writeNaluContent: emulation prevention bytes in front of bytes of up to 3 that
\* follow two zeros, and after zeros at the end.
Escaped(rbsp) ==
  LET put(s, v) ==
        LET escape == s.zeros = 2 /\ v <= 3
        IN [out |-> s.out \o (IF escape THEN <<3>> ELSE << >>) \o <<v>>,
            zeros |-> IF v # 0 THEN 0 ELSE IF escape THEN 1 ELSE s.zeros + 1]
      all == FoldLeft(put, [out |-> << >>, zeros |-> 0], rbsp)
  IN IF all.zeros > 0 THEN Append(all.out, 3) ELSE all.out

\* countStartCodeEmulations: two zeros and a byte of up to 3, with which the
\* search goes on.
CountStartCodeEmulations(rbsp) ==
  LET next(s, i) == IF i >= s.from /\ i + 2 <= Len(rbsp)
                       /\ rbsp[i] = 0 /\ rbsp[i + 1] = 0 /\ rbsp[i + 2] <= 3
                    THEN [count |-> s.count + 1, from |-> i + 2] ELSE s
  IN FoldLeft(next, [count |-> 0, from |-> 1], [i \in DOMAIN rbsp |-> i]).count

\* writeAnnexBNalUnit.
WithStartCode(nal, long) == (IF long THEN <<0>> ELSE << >>) \o <<0, 0, 1>> \o nal

\* cabac_zero_word_padding, appended to a NAL unit already escaped.
CabacZeroWords(n) == FlattenSeq([i \in 1..n |-> <<0, 0, 3>>])

-----------------------------------------------------------------------------
(* The stream is read from position at, which counts from 0.                *)

\* peekBytes(n) where that many bytes are left.
Ahead(stream, at, bytes) ==
  at + Len(bytes) <= Len(stream) /\ SubSeq(stream, at + 1, at + Len(bytes)) = bytes

AtStartCode(stream, at) == Ahead(stream, at, <<0, 0, 1>>) \/ Ahead(stream, at, <<0, 0, 0, 1>>)

\* The end of a NAL unit: the file ends, or the next three bytes are at most 2.
AtNalEnd(stream, at) ==
  \/ at = Len(stream)
  \/ \E b \in 0..2 : Ahead(stream, at, <<0, 0, b>>)

\* The nearest start code, or the end of the file; the nearest end of a NAL unit.
StartCodeFrom(stream, from) ==
  Min({i \in from..Len(stream) : AtStartCode(stream, i) \/ i = Len(stream)})

NalEndFrom(stream, from) == Min({i \in from..Len(stream) : AtNalEnd(stream, i)})

\* byteStreamNALUnit: the NAL unit and the position after it and the zeros that
\* follow; leading and trailing zeros have to be zeros.
NalUnitAt(stream, at) ==
  LET code == StartCodeFrom(stream, at)
      start == code + (IF Ahead(stream, code, <<0, 0, 1>>) THEN 3 ELSE 4)
      end == NalEndFrom(stream, start)
      next == StartCodeFrom(stream, end)
  IN [bytes |-> SubSeq(stream, start + 1, end),
      next |-> next,
      ok |-> \A i \in ((at + 1)..code) \cup ((end + 1)..next) : stream[i] = 0]

\* convertPayloadToRBSP: the bytes without those for emulation prevention, the
\* places of those in the NAL unit, and whether the CHECKs hold; from a slice
\* the cabac_zero_words are removed.
Unescaped(nal, isVclNalUnit) ==
  LET get(s, i) ==
        LET v == nal[i]
        IN IF s.zeros = 2 /\ v = 3
           THEN [s EXCEPT !.zeros = 0, !.locations = Append(@, i - 1), !.after = TRUE]
           ELSE [out |-> Append(s.out, v), zeros |-> IF v = 0 THEN s.zeros + 1 ELSE 0,
                 locations |-> s.locations, after |-> FALSE,
                 ok |-> s.ok /\ ~(s.zeros >= 2 /\ v < 3) /\ ~(s.after /\ v > 3)]
      all == FoldLeft(get, [out |-> << >>, zeros |-> 0, locations |-> << >>, after |-> FALSE,
                            ok |-> TRUE], [i \in DOMAIN nal |-> i])
      last == CHOOSE n \in 0..Len(all.out) :
                /\ n > 0 => all.out[n] # 0
                /\ \A i \in (n + 1)..Len(all.out) : all.out[i] = 0
  IN [bytes |-> IF isVclNalUnit THEN SubSeq(all.out, 1, last) ELSE all.out,
      locations |-> all.locations, ok |-> all.ok /\ all.zeros = 0]

SubstreamSizesMutant(locations, header, offsets) ==   \* places counted without the bytes before
  LET endOfSliceHeaderLocation == header
      start(i) == FoldLeft(LAMBDA s, o : s + o, 0, SubSeq(offsets, 1, i - 1))
      within(i) == {k \in DOMAIN locations :
                      /\ locations[k] >= start(i) + endOfSliceHeaderLocation
                      /\ locations[k] < start(i + 1) + endOfSliceHeaderLocation}
  IN [i \in DOMAIN offsets |-> offsets[i] - Cardinality(within(i))]

\* parseSliceHeader: entry points count the bytes that were removed, the sizes
\* of substreams do not; header bytes come before the first substream.
SubstreamSizes(locations, header, offsets) ==
  LET endOfSliceHeaderLocation ==
        FoldLeft(LAMBDA end, location : IF location < end THEN end + 1 ELSE end, header, locations)
      start(i) == FoldLeft(LAMBDA s, o : s + o, 0, SubSeq(offsets, 1, i - 1))
      within(i) == {k \in DOMAIN locations :
                      /\ locations[k] >= start(i) + endOfSliceHeaderLocation
                      /\ locations[k] < start(i + 1) + endOfSliceHeaderLocation}
  IN [i \in DOMAIN offsets |-> offsets[i] - Cardinality(within(i))]

=============================================================================

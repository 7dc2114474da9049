----------------------------- MODULE CodedSlice -----------------------------
(***************************************************************************)
(* A slice from its bins to the byte stream and back: the encoder codes    *)
(* items with BinCoder into substreams (EncSlice::encodeSlice), puts them  *)
(* behind a slice header into a NAL unit and that between others into the  *)
(* file (ByteStream); the decoder takes the file apart into NAL units and  *)
(* substreams and decodes the items.  The parsed values of a slice header  *)
(* are taken from the encoder; its bytes are only bytes.                   *)
(***************************************************************************)
EXTENDS BinCoder, ByteStream, FiniteSets

CONSTANTS
  Items,          \* what the encoder may code, as BinCoder describes it
  MaxItems,       \* bound: items of a slice
  MaxSubstreams,  \* bound: substreams of a slice
  SliceHeaders,   \* bytes of slice headers, up to the entry points
  Payloads,       \* bytes of other NAL units
  MaxZeroWords    \* bound: cabac_zero_words after a slice

\* A header ends with the one and the zeros of byte_alignment, a payload with
\* those of rbsp_trailing_bits.
ASSUME BytesAssumption ==
  \A b \in SliceHeaders \cup Payloads : b \in Seq(Byte) /\ b # << >> /\ b[Len(b)] # 0
ASSUME BoundsAssumption ==
  MaxItems \in Nat /\ MaxSubstreams \in Nat \ {0} /\ MaxZeroWords \in Nat

VARIABLES
  stage,     \* "code", "read", "decode" or "done", or "error" after a CHECK
  coder,     \* the encoder of bins
  items,     \* history: the items of each substream
  data,      \* the substreams the encoder has finished
  slice,     \* header, entryPointPresent, and sizes (m_substreamSizes)
  nals,      \* history: the NAL units written, payloads and whether it is a slice
  stream,    \* the file
  at,        \* how much of it has been read
  received,  \* the payloads of the NAL units read
  subs,      \* the substreams the decoder has extracted
  decoder,   \* the decoder of bins; sub, the substream it decodes; and what it
             \* has decoded of each
  sub, decoded

vars == <<stage, coder, items, data, slice, nals, stream, at, received, subs, decoder, sub, decoded>>

encoderVars == <<coder, items, data, slice, nals, stream>>
decoderVars == <<at, received, subs, decoder, sub, decoded>>

-----------------------------------------------------------------------------
(* Encoder.                                                                 *)

CodeItem ==
  /\ stage = "code" /\ Len(data) < Len(items) /\ Len(FlattenSeq(items)) < MaxItems
  /\ \E item \in Items :
       /\ coder' = Encode(coder, item)
       /\ items' = [items EXCEPT ![Len(items)] = Append(@, item)]
  /\ UNCHANGED <<stage, data, slice, nals, stream, decoderVars>>

\* end_of_slice after the last CTU of a substream; there may be another one.
EndOfSubstream ==
  /\ stage = "code" /\ Len(data) < Len(items)
  /\ data' = Append(data, Finish(EncodeBinTrm(coder, 1)))
  /\ coder' = EncStart
  /\ \/ Len(items) < MaxSubstreams /\ items' = Append(items, << >>)
     \/ UNCHANGED items
  /\ UNCHANGED <<stage, slice, nals, stream, decoderVars>>

\* One header for all NAL units; a NAL unit header has no byte that is zero.
NalUnitHeader == <<25, 2>>

NalUnit(payload, zeroWords, long) ==
  WithStartCode(NalUnitHeader \o Escaped(payload) \o CabacZeroWords(zeroWords), long)

\* The sizes of all substreams but the last, the slice with its header, and the
\* access unit: the slice between parameter sets.
WriteSlice ==
  /\ stage = "code" /\ Len(data) = Len(items)
  /\ \E header \in SliceHeaders, payload \in Payloads, zeroWords \in 0..MaxZeroWords,
        entryPointPresent \in BOOLEAN :
       LET rbsp == header \o FlattenSeq(data)
           counted(i) == Len(data[i]) + CountStartCodeEmulations(data[i])
           other == [bytes |-> NalUnitHeader \o payload, vcl |-> FALSE]
       IN /\ slice' = [header |-> header, entryPointPresent |-> entryPointPresent,
                       sizes |-> IF entryPointPresent
                                 THEN [i \in 1..(Len(data) - 1) |-> counted(i)] ELSE << >>]
          /\ nals' = <<other, [bytes |-> NalUnitHeader \o rbsp, vcl |-> TRUE], other>>
          /\ stream' = NalUnit(payload, 0, TRUE) \o NalUnit(rbsp, zeroWords, FALSE)
                       \o NalUnit(payload, 0, TRUE)
  /\ stage' = "read"
  /\ UNCHANGED <<coder, items, data, decoderVars>>

-----------------------------------------------------------------------------
(* Decoder.                                                                 *)

\* The bytes of the slice data, divided by extractSubstream, which adds zeros if
\* there are not as many.
Extracted(bytes, sizes) ==
  LET start(i) == FoldLeft(LAMBDA s, size : s + size, 0, SubSeq(sizes, 1, i - 1))
  IN Append([i \in DOMAIN sizes |-> [k \in 1..sizes[i] |-> ByteAt(bytes, start(i) + k)]],
            SubSeq(bytes, start(Len(sizes) + 1) + 1, Len(bytes)))

ReadNalUnit ==
  /\ stage = "read" /\ at < Len(stream)
  /\ LET unit == NalUnitAt(stream, at)
         vcl == nals[Len(received) + 1].vcl
         rbsp == Unescaped(unit.bytes, vcl)
         header == Len(NalUnitHeader) + Len(slice.header)
     IN /\ at' = unit.next
        /\ received' = Append(received, rbsp.bytes)
        /\ subs' = IF vcl
                   THEN Extracted(SubSeq(rbsp.bytes, header + 1, Len(rbsp.bytes)),
                                  SubstreamSizes(rbsp.locations, header, slice.sizes))
                   ELSE subs
        /\ stage' = IF unit.ok /\ rbsp.ok THEN stage ELSE "error"
  /\ UNCHANGED <<encoderVars, decoder, sub, decoded>>

\* All NAL units have been read; the decoding of the slice starts.
StartSlice ==
  /\ stage = "read" /\ at = Len(stream)
  /\ stage' = "decode" /\ sub' = 1 /\ decoded' = << << >> >>
  /\ decoder' = DecStart(subs[1], 1)
  /\ UNCHANGED <<encoderVars, at, received, subs>>

\* Without entry points all substreams are in one.
Current == IF slice.entryPointPresent THEN subs[sub] ELSE subs[1]

DecodeItem ==
  LET n == Len(decoded[sub]) + 1
  IN /\ stage = "decode" /\ n <= Len(items[sub])
     /\ decoder' = Decode(Current, decoder, items[sub][n])
     /\ decoded' = [decoded EXCEPT ![sub] = Append(@, decoder'.item)]
     /\ UNCHANGED <<stage, encoderVars, at, received, subs, sub>>

\* terminating_bit and, as far as it is called, remaining_bytes; and the start of
\* the next substream.
DecodeEnd ==
  LET end == DecodeBinTrm(Current, decoder)
      last == sub = Len(items)
      remaining == SubSeq(Current, end.pos, Len(Current))
      ok == /\ end.item = 1
            /\ StopPattern(Current, end)
            /\ IF last THEN \A k \in DOMAIN remaining : remaining[k] = 0
               ELSE slice.entryPointPresent => remaining = << >>
  IN /\ stage = "decode" /\ Len(decoded[sub]) = Len(items[sub])
     /\ stage' = IF ~ok THEN "error" ELSE IF last THEN "done" ELSE stage
     /\ IF ok /\ ~last
        THEN /\ sub' = sub + 1 /\ decoded' = Append(decoded, << >>)
             /\ decoder' = IF slice.entryPointPresent THEN DecStart(subs[sub + 1], 1)
                           ELSE DecStart(subs[1], end.pos)
        ELSE decoder' = end /\ UNCHANGED <<sub, decoded>>
     /\ UNCHANGED <<encoderVars, at, received, subs>>

-----------------------------------------------------------------------------
Init ==
  /\ stage = "code" /\ coder = EncStart /\ items = << << >> >> /\ data = << >>
  /\ slice = << >> /\ nals = << >> /\ stream = << >>
  /\ at = 0 /\ received = << >> /\ subs = << >> /\ decoder = << >> /\ sub = 0 /\ decoded = << >>

Next == CodeItem \/ EndOfSubstream \/ WriteSlice \/ ReadNalUnit \/ StartSlice \/ DecodeItem \/ DecodeEnd

Spec == Init /\ [][Next]_vars

-----------------------------------------------------------------------------
(* Properties.                                                              *)

\* The variables hold values of their types: in particular the encoder's
\* registers are in their ranges, a carry makes no byte greater than 255, and
\* the decoder reads no byte behind its data.
TypeOK ==
  /\ stage \in {"code", "read", "decode", "done", "error"}
  /\ coder.range \in 1..510 /\ coder.low \in 0..(2 ^ (33 - coder.bitsLeft) - 1)
  /\ coder.bitsLeft \in 12..23
  /\ coder.out \in Seq(Byte) /\ data \in Seq(Seq(Byte)) /\ stream \in Seq(Byte)
  /\ at \in 0..Len(stream)
  /\ stage \in {"decode", "done"} =>
       /\ decoder.range \in 1..510
       /\ stage = "decode" => decoder.value \in 0..(decoder.range * 2 ^ 7 - 1)
       /\ decoder.bitsNeeded \in -8..-1
       /\ decoder.pos <= Len(Current) + 1

\* What the decoder decodes is what the encoder coded, item for item.
ItemsSurvive ==
  \A i \in DOMAIN decoded : \A k \in DOMAIN decoded[i] :
    decoded[i][k] = items[i][k][3]

\* Nothing the decoder CHECKs fails: each substream ends with its stop pattern,
\* and when the terminating bin is decoded all its bytes have been read.  Without
\* entry points, where the decoder has only its read-ahead to find the next
\* substream by, nothing is left of the slice after the last one either.
EndsWithItsBytes ==
  /\ stage # "error"
  /\ stage = "done" => decoder.pos = Len(Current) + 1

\* The decoder's substreams are the encoder's, whatever bytes were inserted into
\* the header and the data to keep start codes out, and counted in the sizes.
SubstreamsSurvive ==
  stage \in {"decode", "done"} =>
    subs = IF slice.entryPointPresent THEN data ELSE <<FlattenSeq(data)>>

\* The NAL units of the file are read with the payloads they were written with,
\* one after the other, and cabac_zero_words are gone.
NalUnitsSurvive ==
  /\ \A i \in DOMAIN received : received[i] = nals[i].bytes
  /\ stage \in {"decode", "done"} => Len(received) = Len(nals)

\* As the comment in writeNaluContent demands: nothing in a NAL unit looks like a
\* start code, nor like what a decoder takes for an emulation prevention byte.
NoStartCodeInside ==
  \A i \in DOMAIN nals :
    LET nal == NalUnitHeader \o Escaped(SubSeq(nals[i].bytes, 3, Len(nals[i].bytes)))
    IN /\ nal[Len(nal)] # 0
       /\ \A k \in 1..(Len(nal) - 2) : nal[k] = 0 /\ nal[k + 1] = 0 =>
            nal[k + 2] >= 3 /\ (nal[k + 2] = 3 /\ k + 3 <= Len(nal) => nal[k + 3] <= 3)

\* What carries the slice loses nothing: its substreams arrive as they were, in NAL
\* units that arrive as they were, and a decoder that joins in the middle of the
\* stream finds start codes only where there are some.
FramingSurvives == SubstreamsSurvive /\ NalUnitsSurvive /\ NoStartCodeInside
=============================================================================

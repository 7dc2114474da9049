# Verification of NextSoftware2

NextSoftware2 (`README.md` of the repository) is a video codec written in C++, derived from the VTM/ECM line: an
encoder, a decoder and a few bitstream tools. The program is strictly sequential: there are no threads, nothing is
persisted, nothing waits. What makes it hard is

* *state that outlives its owner*: picture buffers that are reused, reference marks, output flags, POCs that repeat,
  entropy contexts kept from picture to picture, a main loop whose variables are set in one iteration and read several
  iterations later;
* *two programs that have to keep in step*: whatever the encoder does not write, the decoder must infer alike: which
  contexts a CTU starts with, which QP is predicted, how a picture is divided, which split is possible, how many bytes
  are left. The two sides are written separately, in different files and often in different order.

A test compares the output file of a stream with its expected checksums, so it exercises only the streams someone has
encoded. The order of pictures, end-of-sequence NAL units, lost pictures, random access, dropped sub-layers, the edges
of pictures and tiles make a space that a model checker explores and a test suite does not.

## Inventory

| Component | State | Operations | Interaction | Modules |
|---|---|---|---|---|
| Decoded picture list (`PicList`, `Picture`, `Slice::apply…Marking`, `DecLib::xGetNewPicBuffer`, `DecApp::xWriteOutput`, `xFlushOutput`) | per picture: POC, referenced, neededForOutput, reconstructed | take a buffer, mark references, look up a reference, bump, flush | shared by `DecLib` and `DecApp` through a pointer | `PictureList` |
| Decoder process (`DecApp::decode`, `DecLib::decode`, `xDecodeSlice`, `xActivateParameterSets`, `finishPicture`) | the pilot slice, the current picture, random-access and GDR members; `m_newCLVS`, EOS, skip, recovery and `loopFiltered` in `DecApp` | one iteration of the loop per NAL unit | calls in both directions on the shared list; results of one iteration used in later ones | `PictureDecoder` |
| Conforming streams | the coded video sequence, its pictures | next picture, EOS | what the decoder may rely on | `ConformingStream`, `DecodedVideo` |
| NAL loop (`isNewPicture`, `skipFrame`, `-t`, POC derivation, SEI) | look-ahead position, first-slice flag, skip counters, POC of the last sub-layer 0 picture | find picture boundaries, skip, derive | drives the decoder process | `NalLoop` |
| Encoder picture management (`EncAppCfg` GOP analysis, `EncGOP`, `EncLib`) | GOP position, last IRAP, list of pictures | choose NAL unit type, lists, marking, DPB sizes | produces what the decoder reads | `EncoderGop`, `CodingChain` |
| Entropy contexts across pictures (`CtxStateStore`, `xUpdateRasInit`) | contexts by slice type, sub-layer and QP | store, load, empty at random access | one store on either side | `ContextStore` |
| Tiles and slices (`PPS::initTiles`, `initRectSlices`, `EncAppCfg`, `HLSWriter`, `HLSyntaxReader`) | slice parameters, slice map | configure, write, read, build the map | parameter sets, slice headers | `PicturePartition`, `PartitionCoding` |
| CTU loops (`EncSlice::encodeSlice`, `DecSlice::decompressSlice`) | contexts, wavefront state, bins of the CTU above, QP predictor, substreams | code and decode a CTU | read the slice map, fill entry points | `SliceData`, `PictureCoding` |
| Coding tree (`UnitPartitioner`, `CABACWriter::split_cu_mode`, `CABACReader`, `EncCu`) | partition stack and depths | split, next part, leave, abandon | encoder search, writer and reader each step one | `CtuPartitioner`, `CodingTree` |
| Arithmetic coder (`BinEncoder`, `BinDecoder`) | low, range, held-back bytes; value, read-ahead | code and decode bins | encoder and decoder must agree | `BinCoder` |
| Byte stream (`NALwrite`, `AnnexBread`, `NALread`, `BitStream`) | position, emulation prevention locations | start codes, escapes, entry points | file to NAL units to substreams | `ByteStream`, `CodedSlice` |
| Parameter sets (`ParameterSetManager`), high-level syntax | stored and active sets, changed flags | store, activate | read by `xDecodeSlice` | planned |
| Parcat, SEIRemovalApp | POC base, last IDR | rewrite NAL units | files | planned |
| Encoder decisions, rate control | cost tables, test-mode stacks | search | within the encoder | no |
| Prediction, transforms, loop filters | sample arrays | arithmetic | within a picture | no |
| Video I/O, options, tools, thirdparty, cfg, models, scripts | – | – | – | no |

What is correct, in a sentence for each group:

* a buffer is never taken from a picture that waits for output or is still a reference; the picture being decoded
  predicts from the pictures its lists mean; every finished picture is written once, in output order, unless the
  stream asks otherwise; the buffers do not grow without bound;
* the loop makes exactly the pictures the user asked for, whole, with their POCs, SEI messages and sequences;
* what this encoder makes of a configuration, its decoder decodes, wherever it joins and whatever sub-layers it drops;
* decoder and encoder start every slice, CTU and wavefront row from the same contexts and QPs, divide the picture
  alike, find the same splits and read the same bytes as were written.

`PROJECT.json` lists each hazard at its line with the properties that are about it.

## How the modules fit together

    EncoderGop ------------+                      NalLoop (NAL units to pictures)
                           v                         :  finishPicture is one step there,
    CodingChain  <---  PictureDecoder  <---  PictureList         : PictureDecoder has its inside
                           ^       ^
            ConformingStream  <-  ConformingStreamProofs  <- FiniteOrders
                | refines
            DecodedVideo

    PicturePartition <- PartitionCoding <- PictureCoding <- PictureCodingProofs <- PartitionCodingProofs
            ^  ^------- SliceData <----------'                |
            +------ PicturePartitionProofs <------------------+

    ContextStore (contexts of slices) <- ContextStoreProofs        NalLoop <- NalLoopProofs
    BinCoder, ByteStream <- CodedSlice      CtuPartitioner <- CodingTree <- CodingTreeProofs

The `MC…` modules give the constants values for TLC. An arrow is EXTENDS or INSTANCE. The levels meet in what they
leave out: a picture of `PictureDecoder` is a CTU loop of `SliceData`, a CTU there is a tree of `CodingTree`, the bins
of which are items of `CodedSlice`.

### Pictures

* `PictureList`: the list and its operations, as operators without state. A list is a function from the number a
  picture got when its buffer was taken to its fields; `finishPicture` sorts the list by POC before it is walked, so
  list order is the order `Before`. `Bumped` states the loop of `xWriteOutput` as a set: the pictures whose displayable
  predecessors leave a count above its limit.
* `PictureDecoder`: the decoder process fed with an arbitrary stream over the constant `Pictures`.
* `ConformingStream`: the same process fed by an encoder that keeps the rules (variable `enc`): those that `checkRPL`,
  `checkCRA`, `checkLeadingPictureRestrictions` and `checkPicTypeAfterEos` check, and what the DPB parameters of an
  SPS demand of whoever signals them (`FitsDpb`). The encoder is any encoder, not the repository's.
* `DecodedVideo`: the abstract specification. Pictures become pending, the file grows at its end in output order, what
  is not written was dropped on request. `ConformingStream!Video` maps pending to the waiting pictures, file to the
  history `shown` and dropped to `discarded`.
* `EncoderGop`: the repository's encoder. `EncAppCfg` turns the rows of a GOP configuration into reference picture
  lists for the pictures near the start and into DPB sizes; `EncGOP::compressGOP` chooses for each picture the NAL unit
  type, the lists (repaired if a reference is missing) and the marking. The operators of the first half are pure; `Init`
  applies them.
* `CodingChain`: this encoder and `PictureDecoder` one after the other. The decoder may tune in late, want the lower
  sub-layers only, and the stream may end after any picture. The decoder's conformance CHECKs are added here.
* `NalLoop`: the loop of `DecApp::decode` NAL unit by NAL unit, for one layer. It is finer than `PictureDecoder` before
  a picture begins and coarser afterwards.

State and actions of `PictureDecoder`: `picList` is `m_cListPic`; `pilot` is `m_apcSlicePilot` between its header and
its activation; `curPic` is `m_pic` until it is finished; `refPicList` is `Slice::m_refPicList`; `dec` and `app` hold
the members and loop variables of `DecLib` and `DecApp`; `shown`, `due` and `discarded` are histories that no guard
reads. One picture goes through

1. `SkipPicture` (`isRandomAccessSkipPicture`) or `BeginPicture`: the flush and `m_newCLVS` that `DecApp` decides
   from the NAL unit header, then `xDecodeSlice` up to the search for lost references;
2. `InsertUnavailablePicture`, `InsertLostPicture`: the loop over `checkThatAllRefPicsAreAvailable`;
3. `ActivatePicture` (marking, buffer, reference lists, end of slice data, and the bumping that ends the iteration) or
   `FailOnReference` (the null dereference in `constructRefPicList`, the self-reference CHECK in `checkRPL`);
4. `FinishPicture` when another picture follows, `EndOfSequenceAfterPicture` when an EOS does, `FinishLastPicture`
   when the file ends. `ActivatePicture(TRUE)` is the case in which reading the slice met the end of the file, so that
   the picture is finished in the same iteration.

`EndOfSequenceAfterSkip` and `EndOfStream` complete the loop. `status` "aborted" stands for an exception, a failed
CHECK or a crash. Where the order of data in a slice header decides (which missing entry comes first), the model takes
any order; where two buffers have the same POC, the look-up takes any of them and the list keeps the order of taking.

State and actions of `NalLoop`: the stream is written one picture unit ahead of the decoder (`WritePicture`, `WriteEos`,
`EndOfFile`), so that the look-ahead of `isNewPicture` has what it needs; `Decode` is one iteration of the loop: it
finishes the picture when the look-ahead sees the next one begin, or reads one NAL unit and handles it. The variables
are `m_isFirstSliceInPicture`, `m_iSkipFrame`, the POCs and flags of `DecLib` and `DecApp`, the SEI messages held;
`missing` is the history of pictures asked for and not finished yet. A picture carries its layout (which NAL units it has), the
state of the encoder before it (`at`) and whether the user asked for it (`due`); no guard of the decoder reads the last two.

### Within a picture

* `ContextStore`: both stores side by side. The contexts a picture leaves are named by the number of that picture,
  so equal names are equal contexts. Each action codes a picture and lets the decoder decode, skip or drop it.
* `PicturePartition` holds the functions of `PPS` from sizes to boundaries and slice maps; `PartitionCoding` goes from
  the configured slices (added one by one) through the writer's and the reader's parameters to two slice maps, one
  slice per step; `SliceData` runs the two CTU loops over a map, one CTU per step, where contexts are the history since
  their initialisation; `PictureCoding` starts the second with the result of the first.
* `CtuPartitioner`: `QTBTPartitioner` as a record and operators on it (`SplitCurrArea`, `NextPart`, `ExitCurrSplit`,
  `CanSplit`, `WriteSplit`, `ReadSplit`). `CodingTree` steps one through the tree; `AbandonSplit` is the encoder that
  gives up a split in the middle. One walk stands for encoder, writer and reader: they are alike as long as every split
  survives and the partitioner forgets what was abandoned, which are the properties.
* `BinCoder`: the registers of both arithmetic coders at full width, as functions from state to state. `ByteStream`:
  emulation prevention, start codes and entry points as functions on sequences of bytes. `CodedSlice`: a slice from its
  items through substreams, NAL units and the file to the items the decoder gets.

## Runs

| Run | Instance | What it shows |
|---|---|---|
| `any_stream` | 7 pictures of all types, references never coded, repeated POCs; 2–3 buffers, 0–1 reordered; 5 pictures begun | buffers, flags and histories stay consistent whatever the stream: `FlagsConsistent`, `DecodesIntoOwnBuffer`, `NoPictureLost`, `OneFate`, `TakesFreeBuffersOnly`, `SilentDuringRecovery` |
| `conforming_layers` | two sub-layers, the lower with 2 buffers and no reordering, the higher with 3–4 and up to 2; IDR, CRA, GDR first, EOS, recovery 0 or 2; 5 pictures, 1 leading and 3 trailing each | `NeverAborts`, `PredictsFromOwnSequence`, `DiscardsOnRequestOnly`, `AtMostOneExtension`, `OutputInOrder`, `WaitingBounded` |
| `refine` | 3 buffers, 3 pictures, output flags of both values, GDR recovery, fairness | the decoder implements `DecodedVideo` (`ImplementsVideo`) and writes all that waits (`WritesEverything`) |
| `nal_loop` | 5 pictures, POC modulus 8 with POCs growing by 3 per sub-layer 0 picture, start POC 12, `-s` 0 or 1, `-t` 0 or 1, two layouts of picture units (one or two slices, prefix and suffix SEI) | `WholePictures`, `SeisWithTheirPicture`, `PocsAgree`, `SequencesStartAlike`, `AllFinished` |
| `chain` | `encoder_randomaccess_nx2_gop16.cfg` (71 frames), `encoder_randomaccess_nx2.cfg` (75), `encoder_lowdelay_nx2.cfg` (45, and 37 with an intra period of 16), `encoder_lowdelay_P_nx2.cfg` (37, IDR pictures), a GOP of 4 with CRA (18, 19) and IDR (22, 25) | `PassesChecks`, `SameReferences`, `FramesInOrder` |
| `contexts` | store of 2, two sub-layers, two QPs, 5 pictures, POC modulus 4, IDR, CRA and GDR without RADL pictures, 1–2 slices | `ContextsAgree`, `StoresConverge` |
| `picture` | 3x3, 1x6 and 2x3 CTUs, lists of tile sizes and raster-scan slices, every division into at most 6 rectangular slices in decoding order; with and without wavefronts and entry points | `PartitionSurvives`, `ContextsAgree`, `StartsFromAbove`, `SubstreamsFit`, `QpsAgreeInOneTile` |
| `coded_slice` | up to 3 items in up to 2 substreams; items around carries, zeros, escapes and the longest prefix; 1 zero word | `ItemsSurvive`, `EndsWithItsBytes`, `FramingSurvives` |
| `partitions` | CTUs of 64x64 in 11 setups: in the middle, at the right, at the bottom, at both edges, MTT depth 0–3, smallest quarter 8 and 16, chroma tree, inter slices with a collocated picture (deep on the left, shallow on the right; intra; unrelated), palette | `CountersMatchStack`, `EverySampleOnce`, `SplitsSurvive`, `NoCheckFails` |
| `idr_radl`, `tiles_qp`, `sub_layers` | `contexts`, `picture` and `chain` with the situation let in or the exception taken out | disagreements, see below |

### Bounds and why they are enough

* *Pictures.* `MaxPics` bounds the pictures begun, as a guard, so that the end of the stream stays reachable and liveness
  means something. Three pictures fill the smallest buffer, reorder, end a sequence and start the next; five let a
  picture wait over a flush and two bumpings with two pictures to reorder, and give the NAL loop a skipped picture, a
  sequence before and after an EOS, and a random access point in each.
* *POCs.* A modulus of 8 with steps of 3 wraps the POC within five pictures in both directions of the derivation.
* *GOPs.* The configurations run over two or three intra periods, so that the end of one meets the start of the next,
  and end with an incomplete GOP; the model follows them exactly, so only the number of frames is a bound.
* *Tiles and slices.* The smallest pictures in which a tile has a slice above, beside and across; three rows make a
  wavefront state that may be stale, one column the case in which the last CTU of a row is the first.
* *Bins.* The registers have their width. Three items are enough to make a held-back run of `0xff` and then a carry, a
  read-ahead past the end of a substream, and an escape whose zeros come from two items; the items are chosen for it.
* *Coding tree.* A CTU of 64 with smallest blocks of 4 or 8 has every kind of split at every limit, since the limits are
  what the setups vary; larger CTUs repeat the same rules at a larger scale, except the 128x128 rules (see below).

`CHECK_DEADLOCK FALSE`: in every run the stream, the picture or the CTU ends and the process stops.

Each property has a mistaken variant of an operator of the code (names ending in `Mutant`) under which its run fails.

### Fairness

`WF_svars(StreamNext)` in `ConformingStream` and `WF_vars(Next)` in `NalLoop`. The program reads a finite file and
waits for nothing, so whenever it can go on it does; no fairness between alternatives is assumed, and the writer of the
stream, which is part of `Next`, can end it any time. `WritesEverything` and `AllFinished` are checked under it and
nothing else is.

## What the code does differently from what it says

Three disagreements are runs that end in a counterexample; the passing runs of the same modules exclude just that
situation, by a constant or by a weaker property.

* `idr_radl`: the encoder empties its context store at the first picture in output order after an IDR picture, so the
  RADL pictures still use what is older; a decoder that starts at the IDR picture has not got it (`DecLib.cpp` 1315).
* `tiles_qp`: in a slice of several tiles the encoder predicts the QP of a tile's first CTU from the tile before, the
  decoder from the slice QP (`EncSlice.cpp` 2045, `DecSlice.cpp` 205).
* `sub_layers`: `constructRefPicList` dereferences the picture of an inactive entry without asking whether there is
  one, so `-t 3` ends the decoder on streams of `encoder_randomaccess_nx2.cfg` (`Slice.cpp` 626).

Others are left in the models, or excluded from them by a named constant, and can be shown with a changed `.cfg`:

* *A lost picture* (`DecLib.cpp` 3614). The comment at 3589 promises that a lost reference is replaced by a copy of an
  earlier frame; for single-slice pictures the read of the pilot's null `m_pic` ends the process, and if it did not,
  the CHECK at 1332 on the slices of a fresh buffer would. `MCAnyStream` with `LossyPictures` and two pictures
  violates `ConcealsLostPicture`. The loop around it stops at a missing POC that is not positive (3598), so a lost
  picture with POC 0 is not replaced and hides those after it.
* *Situations of `ConformingStream`*: `"GdrAfterEos"` lets a GDR picture follow an EOS. It is not preceded by a flush
  (`DecApp.cpp` 253), and pictures of two sequences interleave in the file (`OutputInOrder` fails).
* *EOS*: it sets `m_newCLVS` before the picture in front of it is finished, so a RASL picture there is not output
  (`DecApp.cpp` 380, 405); when the file ends with the first picture after an EOS, `loopFiltered` keeps it from being
  finished (401); an EOS before any finished picture fails the CHECK at 386. After a skipped picture it starts a new
  output sequence, while a CRA or GDR picture after it continues the old POCs.
* *`Excluded` of `NalLoop`*: an IDR picture right after the pictures that `-s` skips, or a CRA or GDR picture of several
  slices as the last of them, is skipped or torn (`DecApp.cpp` 311–316). Without `"IDR first after -s"` in the list
  `AllFinished` fails. The other two, about EOS, only let `AllFinished` hold; the theorems do without them.
* *SEI messages between slices* (`DecLib.cpp` 2653): the comment says that decoding unit information is copied to the
  picture, but it is looked for among the messages the picture already has, and the new ones are deleted.
* *GDR*: an IDR picture before the recovery point stays suppressed (`DecApp.cpp` 417); the recovery POC comes from a
  POC that is reduced later (`DecLib.cpp` 3336, 3529); `-t` makes `prevPicSkipped` true, so that a GDR picture in the
  middle of the stream starts a recovery nobody needs (`DecApp.cpp` 303, 372).
* *Sub-layers and contexts* (`Contexts.h` 970): a decoder that drops sub-layers evicts other entries than the encoder once the store
  is full; `ContextsAgree` excepts that case.
* *Buffers* (`DecLib.cpp` 762): the list is extended on conforming streams as well, by one, because a buffer is taken
  before the bumping that the picture itself triggers. That is why `AtMostOneExtension` says `+ 1`.
* *Tiles in entry points* (`Slice.cpp` 367): entry points are counted at tile boundaries also when no wavefronts are
  used, whatever `software-manual.tex` 2862 says of the option.
* *The encoder*: `checkThatAllRefPicsAreAvailable` returns the missing POC, so a missing POC 0 passes as "all there";
  `decodingRefreshMarking` has an effect only for low-delay configurations with CRA pictures; the DPB values of all
  sub-layers are those of the highest, since `sps_sublayer_dpb_params_flag` is never set.
* *Quarters*: nothing checks that the smallest quarter of inter slices is not larger than that of intra slices. With
  `MinQTLumaISlice` 8 and `MinQTNonISlice` 32 and a collocated intra picture of depth 4, a 32x32 block has no legal
  split at all (`UnitPartitioner.cpp` 375–398) and the CHECK of `EncCu.cpp` 992 fails. The setups keep to collocated
  depths that fit the smallest quarter.

## Proofs

TLC's runs are small instances; the theorems hold for every value of the constants. `FiniteOrders` and
the first part of `ConformingStreamProofs` hold facts about finite sets and the list operations, without reference to a
process.

### The decoder process: `ConformingStreamProofs`, first half

About the decoder with any stream, it proves, for all `Pictures`, `SpsSet`, `MaxTid` and `MaxPics`, everything `any_stream` checks: `TypeCorrect`,
`FlagsStayConsistent`, `OwnBuffer`, `NothingLost`, `EachFateOnce` (invariants), `FreeBuffersOnly` and `SilentRecovery`
(step properties). The assumptions are the types of the constants and `None` being no picture.

None of the invariants is inductive by itself. That `finishPicture` finds the current buffer in the list needs
`DecodesIntoOwnBuffer`; that this survives bumping and insertion needs that nothing is inserted while a picture is
decoded (`OneAtATime`) and that references are marked reconstructed (`FlagsConsistent`), or `xGetNewPicBuffer` would
take them; that no fate is decided twice needs that the current picture has none yet (`OneAtATime`); and that
nothing is written during recovery needs that nothing waits when an iteration begins (`NothingWaitsInRecovery`). `Inv`
is their conjunction. The proof has one lemma per action. These rest on lemmas about the effect of each list operation
(`AfterOutputKeeps`, `MarkedKeeps`, `WithPictureKeeps`, …), and on `IterationEffect` and `CloseStep` for what the
actions share: a loop iteration that suppresses and bumps, and the end of a picture.

`LastDisplay` chooses the last picture of a set in list order. That there is one (`LastOfList`) is shown by counting the
pictures that come after each: a picture with the fewest has none. No induction over the list is needed.

### Conforming streams: `ConformingStreamProofs`, second half

All of what `conforming_layers` checks, and the refinement `refine` checks. Each theorem says `Situations = {} =>
(StreamSpec => …)`: with one of the situations in, the properties do not hold, which is what the situations are there
to show. `Situations = {}` is the value of the passing runs. The assumptions are `StreamAssumption` (POCs are ints that
do not mean "unset"; what a GDR picture at the start refers to has a positive POC, since others are not concealed) and
`LayersAssumption`: no sub-layer signals more buffers than the highest. `EncAppCfg.cpp` 4756–4774 sees to that for
the repository's encoder; `dpb_parameters` of the decoder does not check it, and without it a buffer is taken that the
highest sub-layer still counts on.

`DecodingInv` is the invariant behind `DecodesToTheEnd`, `OwnReferences` and `CancelledOnRequestOnly`. Its core is
`ReferencesKept`: what the encoder may still refer to (`enc.srefs`), the decoder has, marked as a reference, as far as
it is not below the POC where decoding began. To keep that, the list must have one picture for each POC, of the
present sequence only (`OnePicturePerPoc`), which rests on the flush before the first picture of every sequence, and so
on the flags of the loop following the encoder (`Control`); the encoder must use each POC once (`CodedOnce`). A picture
whose header was read finds its references (`PilotIsNext`) until it is activated; lists are built from the marked
pictures of the right POC, and there is one. `SomethingToOutput` is what the CHECK after the loop needs.

`OutputInv` is the invariant behind `FileInOutputOrder`, `ExtendedByOne` and `WaitingKeepsLimits`. Bumping writes what
has more than `reorder` pictures waiting behind it; that this is never too early is `NothingTooEarly`: if a picture to
come precedes one in the file, then more pictures to be output follow it than may be reordered, and `PictureFits`, the DPB
rule kept by the encoder, says such a picture does not come. Limits are kept because bumping ends only below them
(`WithinLimits`), and the references and waiting pictures that cannot be bumped are among those the rule counts.

The rest of the module proves the step refinement `DecoderImplementsVideo`. The mapping turns the history `shown` into a
sequence, so it shows first that the positions in it are those of a sequence, each taken once (`FilePositions`, by counting),
and that the sequence only grows at its end (`FileGrows`). `VideoStep` says what one step of the decoder may do to the
pending pictures, the file and the dropped ones, in terms of the decoder's variables; `StepImplements` derives the
abstract step from it and the invariants, and one lemma per action establishes it.

### The NAL-unit loop: `NalLoopProofs`

The four step properties `nal_loop` checks (`PicturesAreWhole`, `SeisStayWithTheirPicture`, `PocsDifferByOneConstant`,
`SequencesStartTogether`), for all layouts of picture units with any number of slices and SEI messages, all values of `-s`
and `-t`, all POC moduli and all lengths of the stream. They assume `KnownNotToWork \subseteq Excluded`, the two shapes
of streams around `-s` the loop does not handle; the shapes about EOS need not be excluded, since they lose pictures
or stop the loop but tear none. Of the constants is assumed that the modulus is even and at least 4, that from one sub-layer
0 picture to the next the POC grows by at least 3 and by less than half the modulus (which is what a conforming encoder
keeps to), that the `MAX_INT` of the code is larger than any POC, and that a picture header in a slice comes
with a single slice.

`StreamsConform` holds whatever is excluded: the file has NAL units of pictures an encoder may write (`Written`), one after
the other (`Follows`), each unit to its end (`FileOK`). On it rests that `isNewPicture`, which looks past any number of
prefix SEI messages, sees a picture at the first NAL unit of a unit, and only there (`NewPictureAt`).

`DecoderOK` says where the decoder is: before the first slice of the picture it reads next (`Before`) or past it
(`Within`). In either case `Synced` ties its members to the encoder's state at that picture: the count that `-s` left, that a
sequence has to start, the POC of the last sub-layer 0 picture modulo `MaxLsb`, the POC of the random access point. A
picture in hand has the slices and SEI messages read so far (`Decoding`), none are held that belong to another, and what is
finished follows from where the decoder is (`MissingOK`, `FinishedOK`). When the CHECK on what may follow an EOS failed,
nothing more is decoded, and the invariant leaves it at that (`app.aborted`).

Three parts carry the proof. A slice is decoded if and only if its picture is due, although the loop counts `-s` down in
two places and takes the count back (`FirstDecision`, `LaterDecision`): this is where the two shapes are needed. The
POC parsed from `lsb` bits differs from the encoder's by a constant, because both move by less than half the modulus
(`ParsedRelative`, `RemainderOfSum`), where skipped pictures count but leading pictures do not. And there is one lemma per
kind of NAL unit and per place of it (`HeadRead`, first slice, later slice, suffix SEI, EOS, end of file).

### Contexts across pictures: `ContextStoreProofs`

`TypeCorrect`, `SameContexts` and `SameStores`, for every size of the store, sub-layers, QPs, slices and length of the
stream. The last two say `~RadlPictures => …`: with RADL pictures the property is false (`idr_radl`). `PocAssumption` says
that POCs of the stream stay below `MAX_INT`, which stands for no POC. The invariant compares the stores only as
far as the decoder uses them (`Agree`): what it drops or skips may be missing. From a random access on, until the first
picture that follows in output order, the stores differ and nothing is needed of them (`DecoderInv`): in that time the
encoder codes RASL pictures only, which the decoder skips (`LeadingAfterCRA`).

### The coding tree: `CodingTreeProofs`

`SplitsAlwaysSurvive` and `CountersAlwaysMatchStack`, for all `Setups`; of `SetupsAssumption` only the types are used.

The first needs no invariant. Writer and reader are given the same set of possible splits, one of 64, and the same
word of the collocated picture. The lemma `SplitRead` follows the reader from bin to bin (`ReadUpTo`): what it has read is
how the writer's bins begin, and its flags are what the writer meant; where a bin is not there, what it infers is
the only possibility left.

The second is not inductive, since `exitCurrSplit` takes away what it believes was added. `TreeInv` adds the shape of the
stack. Each level is made of the block in hand of the level above (`LinkOK`), so blocks are nested, and a block across
the edge of the picture is in none that is not (`OrderOK`). A level that was split knows its implicit split, which
is one just across the edge (`LevelOK`): that is why the implicit splits counted on the way in are those taken away
on the way out, although the one compares the split with the implicit one and the other asks only whether there was
one. The first needs that a possible split of a block across the edge is the implicit one, or quarters from quarters
(`PossibleSplit`), and this in turn that blocks below a halved one are small enough to be halved (`ImplicitMeans`). With
quarters below quarters only, splitting into them may set the depths of halves to 0 (`NoMttAboveQt`). The quantisation
group is that of the last level that may start one (`GroupOK`), since levels that may are below such levels. There is one
lemma per operation for the members it changes (`SplitFields`, …) and one for the invariant (`SplitKeeps`, …).

### Tiles, slices and CTU loops: `PicturePartitionProofs`, `PictureCodingProofs`, `PartitionCodingProofs`

Seven theorems, for all sizes of pictures, lists of tile sizes, divisions into slices, QPs, and with or without wavefronts
and entry points. Assumed is that pictures are not empty and that the lists of sizes hold positive numbers, at least one.

`TilesFollowLists`: tiles have the sizes of the configured list, the last of which is repeated until the picture ends.
What becomes explicit in the PPS lacks the sizes that repeat at the end of the list (`TrimmedMeans`) and is cut off where
the picture ends (`ClippedMeans`); `initTiles` repeats the last size of that (`InitTilesMeans`), and this comes to the same
(`ExplicitMeans`).

`SameContexts`: the decoder begins every CTU with the encoder's contexts. The two loops are written differently; `SameStart`
shows that their rules for starting anew come to one function of the state. `LoopInv` then says that there is one
sequence of states (`SameStates`) through which the encoder goes and, when it has finished the slice, the decoder. That is
not enough: a CTU in two slices would be coded again after it was decoded. So the invariant has that the slices in hand
passed `checkSliceMap` (`MapsChecked`, `MapMeans`) and that what was decoded is behind (`DecodedPassed`).

`DataReachesItsCtu`: each CTU is decoded from its own data and nothing is left over. Four pieces of code say where a
substream ends: the encoder's loop (`LastInSubstream`), the decoder's (`EndsSubstream`), and the counts of `setNumSubstream` and
`setNumEntryPoints`. They look at different things (the edges of the CTU in hand, the tile of
the next, its row), and agree only on lists that go through the rows of a tile and from tile to tile (`EndsAlike`). That
every list of a slice map is such a list (`InOrder`) is what `PicturePartitionProofs` shows: of the CTUs of a tile
(`CtusOfTileMeans`), of tiles one after the other, of rectangular slices in and of tiles and of raster-scan slices; for
it the tiles must divide the picture (`IsTiled`, `PicturesAreTiled`). `Divided` then says what the encoder has made so far:
the data of all CTUs in order, cut where the rules say, with the sizes adding up; and `Reading` where the decoder is in
it. `FitInv` is their conjunction with `MapsInOrder`.

`SameQpsInOneTile`: the encoder keeps the last QP through the slice, the decoder starts it anew where a row of a tile
begins. In a slice in one tile this has no effect: the first CTU of such a row has the CTU above in its slice
(`AboveInOneTile`) and predicts from it, so what is kept is not used (`PredictsAlike`). In several tiles it is, which is
`tiles_qp`.

`RowsStartFromAbove`: the encoder has one set of kept contexts and one number of bins per column, which go on through all
slices and tiles of the picture; whatever these are, what a CTU finds there is of the CTU directly above. This rests on an order
across slices: the CTU above any CTU is coded before it, in its own slice or an earlier one (`UpFirst`). Raster-scan slices
have it because tiles are in raster order (`RasterUpFirst`). Rectangular slices have it because they are configured in
decoding order: what is drawn grows downwards (`Drawn`, with `Grown` and `UpBefore`, kept by `AddTilesDraws` and
`SplitTileDraws`), and the maps hold exactly the configured slices (`RectLists`). The invariant of the loop is `UpInv`: what
has been coded is behind (`ReachedDone`), each column is coded from the top and its bins are those of its lowest coded CTU
(`Columns`), and the kept contexts are those after the last CTU that began a row (`KeptRow`), between which and the CTU
below there are only the others of the row (`RestOfRow`).

`ConfigurationSurvives`: the reader makes of the parameters and the slice headers the map the encoder has, and reads all
that was written. Nothing in the code compares the two: the writer leaves out what follows from something else, and the
reader has to know in each case what to put there. The invariant `StageInv` says at each stage what the encoder holds
(`Encoder`), what is written up to the slice in hand (`Written`, the concatenation of what each slice alone adds,
`Elements`), and what the reader has of it (`ReadSoFar`). The writer takes the slices one by one or, in one tile, all
at once; `TileRun` shows that those it takes at once are those of the tile, and their heights fill its row of tiles. The
reader's parameters are the writer's as far as they are used (`Agrees`): the number of slices in a tile counts at the first
of them only.
`HeightsRead` shows that what repeats at the end of a list of heights is found again from the height of the tile;
`HeadsAlike` that `initRectSliceMap` then takes the slices in the same steps, and so makes the same map. It is that of the
configured slices because these are drawn in decoding order (`Drawn`): where an offset is not written, the next slice is
where it would be expected (`WhereNext`). For raster-scan slices, `HeadersSoFar` says that what has been read are the headers
of the slices before the one in hand, each with its address and number of tiles as far as these are written.

`TypesHold`: the types of both parts, and with them two bounds. The reader's tile index stays in the picture, which
follows from `StageInv` (`StageTyped`). And the encoder never needs more substreams than it has allocated: rows times
columns of tiles, where a row is one of CTUs with wavefronts and else one of tiles, or the number of slices if that
is larger. A slice ends a substream at the last CTU of a tile's row, or of a tile; after that it has nothing more in
that row and column (`EndsApart`), because the lists go through tiles in raster order (`MapsAscend`, `LaterInTile`). So the
ends, together with the last CTU of the slice, are in different rows or columns, and there are at most as many of
them as pairs of both (`SubstreamsAllocated`, by the pigeonhole principle). What the coders remember of each CTU
(`DataInv`) is typed by what they begin it with: `BeginsFromAbove` for the encoder, and for the decoder that it begins
like the encoder.

Folds and recursive functions (`Boundaries`, `FlattenSeq`) are handled by their defining equations, and induction is
over sets of numbers (`Induction` and `InductionUpTo` of `FiniteOrders`): a set that has the first number, and with each
number the next, has all of them.

### Only model-checked

* `CodedSlice` (with `BinCoder` and `ByteStream`), the samples counted by `EverySampleOnce` and the trees of `Codable` in
  `NoCheckFails`: what folds and recursive functions compute for every input.
* `CodingChain`: the GOP analysis of `EncoderGop` is recursive, and its theorem would be about a configuration, which the
  run has as it is.
* Liveness: `WritesEverything`, `AllFinished`.

## Outside the models

* *Decoder*: several layers (among them `m_iPOCLastDisplay`, which all layers share, `DecApp.cpp` 1080), sub-pictures,
  field pairs, long-term and inter-layer references, mixed NAL unit types, a changing SPS, access units and the checks
  made when one ends, OPI, post filters. Conformance CHECKs that only end the process on illegal streams are left out,
  except those an otherwise legal stream can meet; `CodingChain` adds those on types and lists.
* *Encoder*: fields, long-term and composite references, GDR, DRAP, resolution changes. The encoder's decisions
  (searches, filters, rate control) choose among legal alternatives by cost: a model would be a nondeterministic choice
  with nothing left to check, which is how `CodingTree` and `CodedSlice` have them.
* *Within a picture*: the palette predictor, the motion and filter tables reset with the contexts, sub-picture
  padding; luma and chroma trees side by side, where the reader splits 128x128 blocks of a dual tree into quarters
  whatever the split was; transform splits; the buffer of depths from which `setSplitPred` takes its prediction
  (an input here); bits within a byte; NAL unit header fields; damaged streams; the adaptation of probabilities.
* *Parameter sets and high-level syntax*: parsing is data. Storing and activating with the changed flags is planned.
* *Parcat, SEIRemovalApp*: planned. *Cache model, CabacTraining, BitrateTargeting*: measuring and offline tools.
* *Sample reconstruction*: arithmetic on arrays, without control state, and the largest part of the source together
  with tables of coefficients and the vendored `simde`. For that reason the modelled lines are a small share of all lines,
  and will stay one.

## Plan

Done: the modules above with their runs; the proofs about `PictureDecoder`, `ConformingStream` with `DecodedVideo`,
`ContextStore`, `NalLoop`, `CodingTree`, `PicturePartition`, `PartitionCoding` and `PictureCoding`.

1. `ParameterSets`: storing and activating, the changed flags, an APS that is overwritten between two slices.
2. `Parcat`: concatenation of segments, its output fed to `NalLoop`.
3. Several layers: `m_iPOCLastDisplay`, inter-layer references.

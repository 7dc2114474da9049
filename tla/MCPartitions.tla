---------------------------- MODULE MCPartitions ----------------------------
\* The coding tree of CTUs of 64x64 samples, in the middle and at the edges of pictures.
EXTENDS CodingTree

NoPred == [minQtDepth |-> 0, qtDepth |-> 0, maxBtDepth |-> 0, mttDepth |-> 0]
NoCol == [left |-> NoPred, right |-> NoPred, intra |-> FALSE, related |-> FALSE, maxMtt |-> 0]

\* width, height: of the picture; intra, chroma: an intra slice, its chroma tree; minCu,
\* minQt, maxBt, maxTt, maxMtt: the limits; plt: palette mode; qpSubdiv: the limit of
\* quantisation groups; col: the collocated picture, whether its POC and temporal layer
\* let it deepen the tree (related), its MTT depth, and what it says of both halves.
Base ==
  [ctu |-> 64, width |-> 64, height |-> 64, intra |-> TRUE, chroma |-> FALSE, minCu |-> 4,
   minQt |-> 8, maxBt |-> 32, maxTt |-> 32, maxMtt |-> 2, plt |-> FALSE, qpSubdiv |-> 3,
   tempPartPred |-> FALSE, col |-> NoCol]

\* An inter slice after a coded picture: deep on the left, shallow on the right.
Inter ==
  [Base EXCEPT !.intra = FALSE, !.minQt = 16, !.maxBt = 64, !.maxTt = 64, !.maxMtt = 1,
               !.tempPartPred = TRUE,
               !.col = [left |-> [minQtDepth |-> 2, qtDepth |-> 2, maxBtDepth |-> 2, mttDepth |-> 1],
                        right |-> [minQtDepth |-> 0, qtDepth |-> 1, maxBtDepth |-> 2, mttDepth |-> 1],
                        intra |-> FALSE, related |-> TRUE, maxMtt |-> 2]]

MCSetups ==
  { [Base EXCEPT !.minQt = 16, !.qpSubdiv = 4],
    [Base EXCEPT !.width = 40, !.height = 24],                       \* two edges
    [Base EXCEPT !.width = 40, !.minQt = 16, !.maxMtt = 1],          \* right edge
    [Base EXCEPT !.height = 8, !.maxBt = 64, !.maxMtt = 1],          \* bottom edge, halves of the CTU
    [Base EXCEPT !.width = 24, !.height = 56, !.minQt = 16, !.maxMtt = 0],
    [Base EXCEPT !.chroma = TRUE, !.maxBt = 64, !.height = 48],
    [Base EXCEPT !.width = 32, !.height = 32, !.minQt = 16, !.maxMtt = 3],   \* one deep block
    Inter,
    [Inter EXCEPT !.width = 40, !.col.intra = TRUE],
    [Inter EXCEPT !.plt = TRUE, !.height = 40],
    [Inter EXCEPT !.minCu = 8, !.minQt = 8, !.maxBt = 32, !.col.related = FALSE] }
=============================================================================

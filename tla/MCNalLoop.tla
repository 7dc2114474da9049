------------------------------ MODULE MCNalLoop ------------------------------
\* NalLoop with two layouts of a picture unit: one slice that holds the picture
\* header, before a suffix SEI; and a prefix SEI, a picture header, two slices.
EXTENDS NalLoop

SmallLayouts ==
  {[head |-> << >>, phInSlice |-> TRUE, slices |-> 1, tail |-> <<"SUFFIX_SEI">>],
   [head |-> <<"PREFIX_SEI", "PH">>, phInSlice |-> FALSE, slices |-> 2,
    tail |-> << >>]}
=============================================================================

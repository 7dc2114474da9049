------------------------------ MODULE MCSlice ------------------------------
\* Instances of CodedSlice for TLC.
EXTENDS CodedSlice

Level == [rice |-> 1, cutoff |-> 5, range |-> 15]
Difference == [rice |-> 1, cutoff |-> 0, range |-> 17]

\* Even and very uneven bins; bins that put the encoder on both sides of a
\* carry, or make zeros in the data; levels with and without escape.
SomeItems ==
  {<<"ctx", 255, 0>>, <<"ctx", 255, 1>>, <<"ctx", 4, 1>>,
   <<"ep", 1, 1>>, <<"ep", 16, 0>>, <<"ep", 16, 257>>,
   <<"rem", Level, 9>>, <<"rem", Level, 32767>>, <<"rem", Difference, 37>>,
   <<"trm", 0, 0>>}

\* Headers without and with emulation prevention bytes.
SomeHeaders == {<<128>>, <<0, 0, 1, 0, 0, 1>>}
SomePayloads == {<<0, 0, 0, 0, 3, 128>>}
=============================================================================

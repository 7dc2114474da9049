----------------------------- MODULE MCPicture -----------------------------
\* Instances of PictureCoding for TLC.
EXTENDS PictureCoding
SmallPictures == {[width |-> 3, height |-> 3], [width |-> 1, height |-> 6], [width |-> 2, height |-> 3]}
SmallLists == {<<1>>, <<2>>, <<4>>, <<1, 2>>, <<2, 1>>, <<1, 1, 2>>, <<3, 1, 1>>}
SmallRasters == {<<1>>, <<2, 1>>, <<1, 3>>, <<9>>}
OnePicture == {[width |-> 2, height |-> 3]}
=============================================================================

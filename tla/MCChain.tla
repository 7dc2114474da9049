------------------------------ MODULE MCChain ------------------------------
(* Configurations of src/cfg and small ones, for CodingChain.               *)
EXTENDS CodingChain

List(delta, active) == [delta |-> delta, active |-> active]
Row(poc, tid, active0, delta0, active1, delta1) ==
  [poc |-> poc, tid |-> tid, type |-> "B",
   lists |-> <<List(delta0, active0), List(delta1, active1)>>]

\* encoder_randomaccess_nx2_gop16.cfg
RandomAccess16 ==
  << Row(16, 0, 2, <<16, 32, 24>>,     2, <<16, 32>>),
     Row( 8, 1, 2, <<8, 16>>,          2, <<-8, 8>>),
     Row( 4, 2, 2, <<4, 12>>,          2, <<-4, -12>>),
     Row( 2, 3, 2, <<2, 10>>,          2, <<-2, -6, -14>>),
     Row( 1, 4, 2, <<1, -1>>,          2, <<-1, -3, -7, -15>>),
     Row( 3, 4, 2, <<1, 3>>,           2, <<-1, -5, -13>>),
     Row( 6, 3, 2, <<2, 6>>,           2, <<-2, -10>>),
     Row( 5, 4, 2, <<1, 5>>,           2, <<-1, -3, -11>>),
     Row( 7, 4, 2, <<1, 3, 7>>,        2, <<-1, -9>>),
     Row(12, 2, 2, <<4, 12>>,          2, <<-4, 4>>),
     Row(10, 3, 2, <<2, 10>>,          2, <<-2, -6>>),
     Row( 9, 4, 2, <<1, 9>>,           2, <<-1, -3, -7>>),
     Row(11, 4, 2, <<1, 3, 11>>,       2, <<-1, -5>>),
     Row(14, 3, 2, <<2, 6, 14>>,       2, <<-2, 2>>),
     Row(13, 4, 2, <<1, 5, 13>>,       2, <<-1, -3>>),
     Row(15, 4, 2, <<1, 3, 7, 15>>,    2, <<-1, 1>>) >>

\* encoder_randomaccess_nx2.cfg
RandomAccess32 ==
  << Row(32, 0, 2, <<32, 64, 48, 40, 36>>, 1, <<32, 48>>),
     Row(16, 1, 3, <<16, 32, 48, 24, 20>>, 1, <<-16>>),
     Row( 8, 2, 4, <<8, 24, 16, 40, 12>>, 2, <<-8, -24>>),
     Row( 4, 3, 3, <<4, 8, 20>>, 3, <<-4, -12, -28>>),
     Row( 2, 4, 3, <<2, 6, 18>>, 4, <<-2, -6, -14, -30>>),
     Row( 1, 5, 1, <<1>>, 2, <<-1, -3, -7, -15, -31>>),
     Row( 3, 5, 2, <<1, 3>>, 2, <<-1, -5, -13, -29>>),
     Row( 6, 4, 3, <<2, 4, 6>>, 3, <<-2, -10, -26>>),
     Row( 5, 5, 2, <<1, 5>>, 2, <<-1, -3, -11, -27>>),
     Row( 7, 5, 2, <<1, 3, 7>>, 2, <<-1, -9, -25>>),
     Row(12, 3, 3, <<4, 8, 12, 6>>, 2, <<-4, -20>>),
     Row(10, 4, 4, <<2, 4, 6, 10>>, 3, <<-2, -6, -22>>),
     Row( 9, 5, 2, <<1, 5, 9>>, 2, <<-1, -3, -7, -23>>),
     Row(11, 5, 2, <<1, 3, 11>>, 2, <<-1, -5, -21>>),
     Row(14, 4, 4, <<2, 4, 6, 14>>, 2, <<-2, -18>>),
     Row(13, 5, 2, <<1, 5, 13>>, 2, <<-1, -3, -19>>),
     Row(15, 5, 2, <<1, 3, 7, 15>>, 2, <<-1, -17>>),
     Row(24, 2, 3, <<8, 16, 24>>, 1, <<-8>>),
     Row(20, 3, 3, <<4, 12, 20>>, 2, <<-4, -12>>),
     Row(18, 4, 3, <<2, 10, 18>>, 3, <<-2, -6, -14>>),
     Row(17, 5, 2, <<1, 9, 17>>, 2, <<-1, -3, -7, -15>>),
     Row(19, 5, 2, <<1, 3, 19>>, 2, <<-1, -5, -13>>),
     Row(22, 4, 3, <<2, 6, 22>>, 3, <<-2, -10, 4>>),
     Row(21, 5, 2, <<1, 5, 21>>, 2, <<-1, -3, -11>>),
     Row(23, 5, 2, <<1, 3, 7, 23>>, 2, <<-1, -9>>),
     Row(28, 3, 4, <<4, 8, 12, 28>>, 1, <<-4>>),
     Row(26, 4, 4, <<2, 6, 10, 26>>, 2, <<-2, -6>>),
     Row(25, 5, 2, <<1, 5, 9, 25>>, 2, <<-1, -3, -7>>),
     Row(27, 5, 2, <<1, 3, 11, 27>>, 2, <<-1, -5>>),
     Row(30, 4, 4, <<2, 6, 14, 30>>, 1, <<-2>>),
     Row(29, 5, 2, <<1, 5, 13, 29>>, 2, <<-1, -3>>),
     Row(31, 5, 2, <<1, 3, 7, 15, 31>>, 1, <<-1>>) >>

\* encoder_lowdelay_nx2.cfg
LowDelay8 ==
  << Row(1, 0, 4, <<1, 9, 17, 25>>,  4, <<1, 3, 5, 33>>),
     Row(2, 0, 4, <<1, 2, 10, 18>>,  4, <<1, 2, 4, 26>>),
     Row(3, 0, 4, <<1, 3, 11, 19>>,  4, <<1, 3, 5, 27>>),
     Row(4, 0, 4, <<1, 4, 12, 20>>,  4, <<1, 2, 4, 28>>),
     Row(5, 0, 4, <<1, 5, 13, 21>>,  4, <<1, 3, 5, 29>>),
     Row(6, 0, 4, <<1, 6, 14, 22>>,  4, <<1, 2, 6, 30>>),
     Row(7, 0, 4, <<1, 7, 15, 23>>,  4, <<1, 3, 7, 31>>),
     Row(8, 0, 4, <<1, 8, 16, 24>>,  4, <<1, 2, 4, 32>>) >>

\* encoder_lowdelay_P_nx2.cfg
LowDelayP8 == [i \in 1..8 |-> [LowDelay8[i] EXCEPT !.type = "P", !.lists[2] = List(<< >>, 0)]]

\* A GOP of four pictures on three temporal layers.
RandomAccess4 ==
  << Row(4, 0, 2, <<4, 8>>, 2, <<4, 8>>),
     Row(2, 1, 1, <<2, 6>>, 1, <<-2>>),
     Row(1, 2, 1, <<1>>,    2, <<-1, -3>>),
     Row(3, 2, 2, <<1, 3>>, 1, <<-1>>) >>

Config(rows, period, refresh, frames) ==
  [rows |-> rows, period |-> period, refresh |-> refresh, frames |-> frames]

MCConfigs ==
  {Config(RandomAccess16, 32, 1, 71), Config(LowDelay8, -1, 0, 45),
   Config(LowDelay8, 16, 1, 37), Config(LowDelayP8, 16, 2, 37),
   Config(RandomAccess32, 32, 1, 75)}
  \cup {Config(RandomAccess4, 4, 1, frames) : frames \in {18, 19}}
  \cup {Config(RandomAccess4, 8, 2, frames) : frames \in {22, 25}}

MCSpsSet ==
  {[reorder |-> [t \in Tids |-> MaxNumReorder(c.rows)],
    buffering |-> [t \in Tids |-> MaxDecPicBuffering(c.rows)]] : c \in MCConfigs}
=============================================================================

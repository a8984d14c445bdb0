---------------------------- MODULE MCVideoServer ----------------------------
(* Sizes that differ in both dimensions, one of them with an odd height and  *)
(* one empty; a rate of zero; two levels.                                    *)
EXTENDS VideoServer
SomeSizes == {<<4, 8>>, <<8, 6>>, <<6, 5>>, <<4, 0>>}
SomeRates == {0, 30, 60}
TwoLevels == {"medium", "high"}
AllFaults == {"xvfb", "shm", "x264"}
=============================================================================

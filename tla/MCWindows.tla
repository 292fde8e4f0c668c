----------------------------- MODULE MCWindows -----------------------------
(* Files shorter and longer than one window of six bytes, up to several      *)
(* windows; every content of them as the rolling hash sees it.               *)
EXTENDS Windows

MCFileLengths == [FIXED_SIZE |-> 0 .. 24, FASTCDC |-> {0, 1, 6, 9},
                  GEARCDC |-> {0, 1, 6, 9, 10, 13}]

MCFixedLengths == [FIXED_SIZE |-> {10, 11}, FASTCDC |-> {}, GEARCDC |-> {}]
=============================================================================

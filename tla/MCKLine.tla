------------------------------ MODULE MCKLine ------------------------------
(* Small instances of KLine for TLC.  A tick is half a second in the code's  *)
(* terms; the times are shorter and keep their order.                        *)
EXTENDS KLine, TLC
=============================================================================

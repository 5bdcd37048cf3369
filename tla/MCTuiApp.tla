------------------------------- MODULE MCTuiApp -------------------------------
(* Small instances of TuiApp for TLC.                                      *)
EXTENDS TuiApp

MCTwoNames == {1, 2}
MCThreeNames == {1, 2, 3}
===============================================================================

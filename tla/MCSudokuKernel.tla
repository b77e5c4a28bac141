---------------------------- MODULE MCSudokuKernel --------------------------
(* Instances of SudokuKernel for TLC.                                      *)
EXTENDS SudokuKernel

(* Cells joined by a region (the first and the third), a column (the first *)
(* and the second) and a row (the last three): a digit can settle one cell *)
(* after the other.                                                        *)
MCWindow == {<<0, 0>>, <<1, 0>>, <<1, 1>>, <<1, 4>>}
=============================================================================

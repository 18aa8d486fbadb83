--------------------------- MODULE MCDlmsSession ---------------------------
(* Instances of DlmsSession for TLC. *)
EXTENDS DlmsSession

CONSTANTS r1, r2, d1

\* A register, an object of class Data whose value is no number, a register.
Mixed == <<r1, d1, r2>>
TwoRegisters == <<r1, r2>>

\* Three rows, the last with a column that looks like half a marker, cut at a row, in
\* a marker, and inside rows.
ThreeRows == <<<<Mark, Mark, 1, 1>>, <<Mark, Mark, 2>>, <<Mark, Mark, 3, Mark, 3>>>>
Bytes == <<Mark, Mark, 1, 1, Mark, Mark, 2, Mark, Mark, 3, Mark, 3>>
Cut(p, q) == <<SubSeq(Bytes, 1, p), SubSeq(Bytes, p + 1, q), SubSeq(Bytes, q + 1, 12)>>
ThreeBlocks == {Cut(4, 9), Cut(3, 6), Cut(2, 5)}
=============================================================================

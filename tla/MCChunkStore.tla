---------------------------- MODULE MCChunkStore ----------------------------
(***************************************************************************)
(* Two documents of up to three windows, pages of two rows, and a daemon   *)
(* that replaces or deletes rows while the rotation walks the table.       *)
(***************************************************************************)
EXTENDS ChunkStore

MCIds == 1..4
\* One window, or four of which the third is blank.
MCTexts == {<<1>>, <<1, 2, 0, 0, 3>>}
=============================================================================

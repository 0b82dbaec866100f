--------------------------- MODULE MCStateReader ----------------------------
(* A partition that starts at offset 0 or behind it.                       *)
EXTENDS StateReader

TwoStarts == {0, 2}
=============================================================================

--------------------------- MODULE MCMixedWorkload ---------------------------
EXTENDS MixedWorkload

CONSTANTS r1, r2, w1

TwoReaders == {r1, r2}
OneWriter  == {w1}

Options(sequential, timed, ssd, limited, compaction, flush) ==
  [sequential |-> sequential, timed |-> timed, ssd |-> ssd, limited |-> limited,
   compaction |-> compaction, flush |-> flush]

SomeSettings ==
  {Options(FALSE, FALSE, FALSE, TRUE, "background", TRUE),
   Options(FALSE, TRUE, FALSE, TRUE, "after", FALSE),
   Options(FALSE, FALSE, TRUE, FALSE, "none", FALSE),
   Options(FALSE, FALSE, FALSE, FALSE, "none", FALSE),
   Options(TRUE, FALSE, FALSE, TRUE, "background", TRUE),
   Options(TRUE, FALSE, TRUE, FALSE, "none", FALSE)}
=============================================================================

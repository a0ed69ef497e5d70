------------------------------ MODULE MCHarness ------------------------------
(***************************************************************************)
(* Small campaigns for Harness.  Units 1 and 2 are the boot ROM, 3 is a    *)
(* hole, 4 a device that is not allowed; RAM starts at 6.                  *)
(***************************************************************************)
EXTENDS Harness

Campaign(init, mds, mdsInit, argInit, file, regions, cpi, jumps) ==
  [init |-> init, mds |-> mds, mdsInit |-> mdsInit, argInit |-> argInit, file |-> file,
   regions |-> regions, cpi |-> cpi, jumps |-> jumps]

Plainly     == Campaign(2, FALSE, 0, 0, 3, <<>>, 2, TRUE)
TwoRegions  == Campaign(2, FALSE, 0, 0, 4, <<<<8, 9>>, <<10, 11>>>>, 4, TRUE)
Mds         == Campaign(2, TRUE, 2, 0, 3, <<>>, 3, TRUE)
OwnInit     == Campaign(0, TRUE, 0, 2, 4, <<>>, 3, TRUE)
AnyJump     == Campaign(2, FALSE, 0, 0, 2, <<>>, 3, FALSE)
BareJump    == Campaign(0, TRUE, 0, 0, 1, <<>>, 3, FALSE)
NoCycles    == Campaign(2, FALSE, 0, 0, 3, <<>>, 0, TRUE)

AllCampaigns == {Plainly, TwoRegions, Mds, OwnInit, AnyJump, BareJump, NoCycles}
MdsCampaigns == {OwnInit}

Forbidden == <<14, 16>>
Devices == {<<1, 2>>}

\* The map of these campaigns is one the filters can watch.
ASSUME Watched == StartsOnGranules
=============================================================================

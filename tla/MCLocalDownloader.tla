------------------------- MODULE MCLocalDownloader -------------------------
(***************************************************************************)
(* Instances of LocalDownloader for TLC.                                   *)
(***************************************************************************)
EXTENDS LocalDownloader
CONSTANTS i1, i2, s1, s2, panel, bot
=============================================================================

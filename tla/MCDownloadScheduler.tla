------------------------ MODULE MCDownloadScheduler ------------------------
(***************************************************************************)
(* An instance of DownloadScheduler for TLC.                               *)
(***************************************************************************)
EXTENDS DownloadScheduler, TLC
CONSTANTS r1, r2, r3, r4, c1, c2, c3, tA, tB, dc1, dc2

(* Two requests share file tA, one asks for tB, all in one DC; the fourth  *)
(* names another DC for tA.                                                *)
SharedTask == r1 :> tA @@ r2 :> tA @@ r3 :> tB @@ r4 :> tA
MovedDC == r1 :> dc1 @@ r2 :> dc1 @@ r3 :> dc1 @@ r4 :> dc2
(* A chunk on every lease: with one lane, two of them wait, for the same   *)
(* file or for two files.                                                  *)
OnePerLease == c1 :> r1 @@ c2 :> r2 @@ c3 :> r3
=============================================================================

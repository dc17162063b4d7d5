-------------------------- MODULE MCForwardQueue --------------------------
(***************************************************************************)
(* Instances of ForwardQueue for TLC.                                      *)
(***************************************************************************)
EXTENDS ForwardJobs, TLC
CONSTANTS j1, j2

TwoPolicies == {[attempts |-> 1, history |-> 1], [attempts |-> 2, history |-> 2]}

File(protected) ==
    [media |-> "file", convertible |-> TRUE, fetchable |-> TRUE, protected |-> protected]

(* An album of an open and a protected file, named by the open one, and a  *)
(* protected document without a caption.                                   *)
MixedAlbum ==
    [mode |-> "direct", protectedDialog |-> FALSE, grouped |-> TRUE, text |-> TRUE, at |-> 1,
     parts |-> <<File(FALSE), File(TRUE)>>]
ProtectedFile ==
    [mode |-> "direct", protectedDialog |-> TRUE, grouped |-> FALSE, text |-> FALSE, at |-> 1,
     parts |-> <<File(FALSE)>>]
Messages == (j1 :> MixedAlbum) @@ (j2 :> ProtectedFile)
===========================================================================

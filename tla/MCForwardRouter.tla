-------------------------- MODULE MCForwardRouter --------------------------
(***************************************************************************)
(* Instances of ForwardRouter for TLC.                                     *)
(***************************************************************************)
EXTENDS ForwardRouter, TLC
CONSTANTS c1, c2, c3, mA, mB, mC, mD

(* mA comes from the first listened source, mC from the discussion that is *)
(* linked to the second; mB has a rule, and nobody listens to mD.          *)
TwoSources == <<[parent |-> {mA}, linked |-> {}], [parent |-> {}, linked |-> {mC}]>>

Three(m, k, n, l, o, p) == [message |-> c1 :> m @@ c2 :> n @@ c3 :> o,
                            kind |-> c1 :> k @@ c2 :> l @@ c3 :> p]
(* One message by hand and by itself; a message of a linked discussion; a  *)
(* question about a listened source beside a rule-routed message; a        *)
(* message that nobody listens to beside one with a rule, sent by hand.    *)
Mixed == {Three(mA, "manual", mA, "automatic", mA, "outgoing"),
          Three(mC, "automatic", mB, "ask", mA, "outgoing"),
          Three(mA, "ask", mB, "automatic", mA, "outgoing"),
          Three(mD, "automatic", mB, "manual", mB, "ask")}
=============================================================================

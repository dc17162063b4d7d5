--------------------------- MODULE ForwardSender ---------------------------
(***************************************************************************)
(* One attempt at a forward job: Runtime.Forward of app/forward/queue.go   *)
(* over internal/core/forwarder (forwarder.go, clone.go).  What a message  *)
(* is made of decides how it travels: forwarded by reference, copied by    *)
(* reference, or downloaded, uploaded and sent again; a step that fails    *)
(* falls back to the next, and what cannot be copied is left out.          *)
(*                                                                         *)
(* Attempt(m) is the set of outcomes of one attempt.  An outcome is the    *)
(* error it returns, the posts that reached Telegram in their order, each  *)
(* the set of what it carried, and the parts that had to be left out.      *)
(***************************************************************************)
EXTENDS Naturals, Sequences

(* A part of a message: which media it has, whether Telegram may copy it   *)
(* by reference, whether it can be fetched, whether it is protected.  A    *)
(* message is one part or an album; "at" is the part the job names, whose  *)
(* text it is.                                                             *)
Parts ==
    [media : {"none", "file", "other"}, convertible : BOOLEAN, fetchable : BOOLEAN,
     protected : BOOLEAN]

IsMessage(m) ==
    /\ DOMAIN m = {"mode", "protectedDialog", "grouped", "text", "parts", "at"}
    /\ m.mode \in {"direct", "clone"}
    /\ {m.protectedDialog, m.grouped, m.text} \subseteq BOOLEAN
    /\ m.parts \in Seq(Parts) /\ m.at \in DOMAIN m.parts

(* What a complete copy of m carries: its media, or the text of a message  *)
(* without any.                                                            *)
Whole(m) ==
    LET media == {i \in DOMAIN m.parts : m.parts[i].media # "none"}
    IN IF media = {} THEN {"text"} ELSE media

Outcome(err, posts, omitted) == [err |-> err, posts |-> posts, omitted |-> omitted]

(* A request that posts: an answer means it was posted, an error does not  *)
(* mean that it was not.                                                   *)
Replies == {<<"nil", TRUE>>} \cup ({"failed", "canceled"} \X BOOLEAN)

Post(before, content, omitted) ==
    {Outcome(r[1], IF r[2] THEN Append(before, content) ELSE before, omitted) : r \in Replies}

(* Resolving the two peers, reading the message and, for an album, its     *)
(* history fails before anything is posted.                                *)
Unresolved(m) == {Outcome(err, <<>>, {}) : err \in {"failed", "canceled"}}

(* mediaSizeSum: an album with a part whose media cannot be fetched is     *)
(* refused before the first request.                                       *)
Measurable(m) == m.grouped => \A i \in DOMAIN m.parts : m.parts[i].fetchable

Protected(m, i) == m.protectedDialog \/ m.parts[i].protected

(* forwardTextOnly: the text alone, which an album or a file may lack.     *)
TextOnly(m, before) ==
    IF m.text THEN Post(before, {"text"}, Whole(m) \ {"text"})
    ELSE {Outcome("failed", before, Whole(m))}

(* convForwardedMedia: a photo or document that may not be forwarded is    *)
(* downloaded and uploaded again (cloneMedia, MessagesUploadMedia), any    *)
(* other media is copied by reference.                                     *)
Clones(m, i) == Protected(m, i) /\ m.parts[i].media = "file"
MustConvert(m) ==
    {i \in DOMAIN m.parts : ~Clones(m, i) /\ m.parts[i].media # "none" /\ m.parts[i].convertible}
MayConvert(m) == {i \in DOMAIN m.parts : Clones(m, i) /\ m.parts[i].fetchable}
Conversions(m) == {MustConvert(m) \cup S : S \in SUBSET MayConvert(m)}

(* The clone mode, which the direct mode falls back to: the converted      *)
(* parts in one request, and the text when there are none.                 *)
Clone(m, before) ==
    UNION {IF S = {} THEN TextOnly(m, before) ELSE Post(before, S, Whole(m) \ S)
           : S \in Conversions(m)}

(* The direct mode: MessagesForwardMessages takes all parts or none; an    *)
(* error, also one that hides a delivery, falls through to Clone.          *)
Direct(m) ==
    {Outcome("nil", <<Whole(m)>>, {})} \cup Clone(m, <<>>) \cup Clone(m, <<Whole(m)>>)

Attempt(m) ==
    Unresolved(m) \cup
    IF ~Measurable(m) THEN {Outcome("failed", <<>>, {})}
    ELSE IF m.mode = "direct" /\ ~Protected(m, m.at) THEN Direct(m)
    ELSE Clone(m, <<>>)
=============================================================================

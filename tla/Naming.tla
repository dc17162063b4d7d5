------------------------------- MODULE Naming -------------------------------
(***************************************************************************)
(* Which media a download keeps and under which path (filter.rules,        *)
(* naming.rules, rte/targetpath).  A name is a sequence of runes that are  *)
(* safe in a file name, a path a sequence of segments; a template is a     *)
(* path whose runes "F" and "I" stand for the stem of the file and for the *)
(* text of the message.                                                    *)
(***************************************************************************)
EXTENDS Integers, Sequences, FiniteSets, SequencesExt, FiniteSetsExt

CONSTANTS
    Runes,        \* the runes of names, texts and templates
    Wide,         \* runes of three bytes; all others have one
    Lower,        \* the lower case of the upper case runes
    Numeral,      \* the numbers 1, 2, ... as they are printed
    TitleRunes,   \* runes a title keeps (isMessageTitleFilenameRune)
    Filename,     \* the filename template
    Directory,    \* the directory template
    MaxBytes,     \* the limit on the bytes of a file name
    TitleMax,     \* safeMessageTitleMaxRunes
    TitleTail,    \* safeMessageTitleTailRunes
    Filter        \* the settings of filter.rules, sizes in bytes (0: no bound)

ASSUME NamingAssumption ==
    /\ {MaxBytes, TitleMax, TitleTail} \subseteq Nat /\ MaxBytes > 0
    /\ DOMAIN Filter = {"include", "exclude", "min", "max"}
    /\ Filter.max > 0 => Filter.min <= Filter.max
    /\ Filename \in Seq(Seq(Runes)) /\ Filename # <<>> /\ Directory \in Seq(Seq(Runes))
    /\ {".", "u", " ", "(", ")"} \subseteq Runes \ Wide /\ "(" \notin DOMAIN Lower
    /\ Numeral \in Seq(Seq(Runes)) /\ \A n, k \in DOMAIN Numeral : Numeral[n] = Numeral[k] => n = k
    /\ \A n \in DOMAIN Numeral : Range(Numeral[n]) \cap (Wide \cup DOMAIN Lower \cup {"("}) = {}

(* A medium: the stem and extension of its file, the text of its message,  *)
(* and its size.  filepath.Ext begins with the last dot of a name.         *)
Extensions == {e \in Seq(Runes) : e # <<>> => e[1] = "." /\ \A k \in 2..Len(e) : e[k] # "."}
Media == [stem : Seq(Runes), ext : Extensions, text : Seq(Runes), size : Nat]

ShouldHandle(d) ==
    /\ Filter.include # {} => d.ext \in Filter.include
    /\ d.ext \notin Filter.exclude
    /\ ~(Filter.min > 0 /\ d.size < Filter.min) /\ ~(Filter.max > 0 /\ d.size > Filter.max)

-----------------------------------------------------------------------------
(* The elements of a set of numbers in order, and of a sequence at them.   *)
Ascending(S) == [k \in 1..Cardinality(S) |-> CHOOSE i \in S : Cardinality({j \in S : j <= i}) = k]
OnlyAt(s, S) == [k \in 1..Cardinality(S) |-> s[Ascending(S)[k]]]

-----------------------------------------------------------------------------
(* Lengths are in bytes and no rune is split (rte/targetpath).             *)

Bytes(s) == Len(s) + 2 * Cardinality({k \in DOMAIN s : s[k] \in Wide})
Truncate(s, max) == SubSeq(s, 1, Max({0} \cup {k \in 1..Len(s) : Bytes(SubSeq(s, 1, k)) <= max}))

Ext(s) == LET dots == {k \in DOMAIN s : s[k] = "."} IN IF dots = {} THEN <<>> ELSE SubSeq(s, Max(dots), Len(s))
Stem(s) == SubSeq(s, 1, Len(s) - Len(Ext(s)))

LimitSegment(s, max) ==
    CASE Bytes(s) <= max -> s
      [] Bytes(s) > max /\ Ext(s) # <<>> /\ Bytes(Ext(s)) < max -> Truncate(Stem(s), max - Bytes(Ext(s))) \o Ext(s)
      [] OTHER -> Truncate(s, max)

-----------------------------------------------------------------------------
(* Templates (naming.rules) *)

Marker == <<".", ".", ".">>
LimitRunes(s, max) ==
    LET room == max - Len(Marker)
        tail == Min({TitleTail, room \div 2})
        head == room - tail IN
    CASE Len(s) <= max -> s
      [] Len(s) > max /\ max <= Len(Marker) + 1 -> SubSeq(s, 1, max)
      [] OTHER -> SubSeq(s, 1, head) \o Marker \o SubSeq(s, Len(s) - tail + 1, Len(s))
Untitled == <<"u">>
Title(text, max) ==
    LET kept == OnlyAt(text, {k \in DOMAIN text : text[k] \in TitleRunes}) IN
    IF max <= 0 THEN <<>> ELSE LimitRunes(IF kept = <<>> THEN Untitled ELSE kept, max)

Value(r, d, max) == CASE r = "F" -> d.stem [] r = "I" -> Title(d.text, max) [] OTHER -> <<r>>
Expand(segment, d, max) ==
    LET upto[k \in 0..Len(segment)] == IF k = 0 THEN <<>> ELSE upto[k - 1] \o Value(segment[k], d, max)
    IN upto[Len(segment)]

(* The name rendered with a title of at most max runes, extension included. *)
Rendered(d, max) ==
    LET path == [k \in DOMAIN Filename |-> Expand(Filename[k], d, max)]
        leaf == Last(path) IN
    Front(path) \o <<IF d.ext # <<>> /\ ~IsSuffix(d.ext, leaf) THEN leaf \o d.ext ELSE leaf>>
Fits(d, max) == Bytes(Last(Rendered(d, max))) <= MaxBytes

(* The binary search for a title that fits: a number of runes, or -1.      *)
Search(d, s) ==
    LET mid == (s.low + s.high) \div 2 IN
    CASE s.low > s.high -> s
      [] s.low <= s.high /\ Fits(d, mid) -> [s EXCEPT !.best = mid, !.low = mid + 1]
      [] OTHER -> [s EXCEPT !.high = mid - 1]
LongestTitle(d) ==
    LET after[k \in 0..TitleMax + 1] ==
            IF k = 0 THEN [low |-> 0, high |-> TitleMax, best |-> -1] ELSE Search(d, after[k - 1])
    IN after[TitleMax + 1].best

RenderFileName(d) ==
    LET full == Rendered(d, TitleMax)
        hasTitle == \E k \in DOMAIN Filename : "I" \in Range(Filename[k])
        best == LongestTitle(d) IN
    CASE Fits(d, TitleMax) -> full
      [] ~Fits(d, TitleMax) /\ hasTitle /\ best # -1 -> Rendered(d, best)
      [] OTHER -> Front(full) \o <<LimitSegment(Last(full), MaxBytes)>>

(* ResolveTargetPath: directories of the template and of the name, without *)
(* empty segments, "." and "..".                                           *)
Dots == {<<>>, <<".">>, <<".", ".">>}
Parts(path) == OnlyAt(path, {k \in DOMAIN path : path[k] \notin Dots})
Target(d) ==
    LET dir == Parts([k \in DOMAIN Directory |-> Expand(Directory[k], d, TitleMax)])
        name == Parts(RenderFileName(d)) IN
    IF name = <<>> THEN [dir |-> dir, out |-> Untitled] ELSE [dir |-> dir \o Front(name), out |-> Last(name)]

-----------------------------------------------------------------------------
(* Unique: targets of one batch that differ only in case get a number.     *)

FoldCase(s) == [k \in DOMAIN s |-> IF s[k] \in DOMAIN Lower THEN Lower[s[k]] ELSE s[k]]
Key(t) == <<[k \in DOMAIN t.dir |-> FoldCase(t.dir[k])], FoldCase(t.out)>>

Suffix(n) == <<" ", "(">> \o Numeral[n] \o <<")">>
Numbered(t, n) ==
    [t EXCEPT !.out = Truncate(Stem(@), MaxBytes - Bytes(Suffix(n)) - Bytes(Ext(@))) \o Suffix(n) \o Ext(@)]
FitsNumber(t, n) == Bytes(Suffix(n)) + Bytes(Ext(t.out)) <= MaxBytes

(* The numbers are tried in order, up to the first that is free or that    *)
(* does not fit.                                                           *)
Candidate(t, n) == IF n = 1 THEN t ELSE Numbered(t, n)
Fails(t, n) == n > 1 /\ ~FitsNumber(t, n)
Ends(t, used, n) == Fails(t, n) \/ Key(Candidate(t, n)) \notin used
LastTry(t, used) ==
    CHOOSE n \in 1..Cardinality(used) + 2 : Ends(t, used, n) /\ \A k \in 1..n - 1 : ~Ends(t, used, k)

(* The targets made unique, <<>> when a number does not fit into a name.   *)
UniqueByName(targets) == targets
Place(acc, t) ==
    LET n == LastTry(t, acc.used)
        c == Candidate(t, n) IN
    IF ~acc.ok \/ Fails(t, n) THEN [acc EXCEPT !.ok = FALSE]
    ELSE [acc EXCEPT !.used = @ \cup {Key(c)}, !.out = Append(@, c)]
Unique(targets) ==
    LET placed[k \in 0..Len(targets)] ==
            IF k = 0 THEN [ok |-> TRUE, used |-> {}, out |-> <<>>] ELSE Place(placed[k - 1], targets[k])
        all == placed[Len(targets)] IN
    IF all.ok THEN all.out ELSE <<>>

-----------------------------------------------------------------------------
(* What a target must be: below the root; its name within the limit and    *)
(* with the extension of the file where that leaves room for a name.  When *)
(* nothing was rendered for the file itself, the last directory becomes    *)
(* its name, and that is not limited.                                      *)
SoundTarget(d, t) ==
    /\ t.out \notin Dots /\ \A k \in DOMAIN t.dir : t.dir[k] \notin Dots
    /\ \/ Bytes(t.out) <= MaxBytes /\ (Bytes(d.ext) < MaxBytes => IsSuffix(d.ext, t.out))
       \/ Last(RenderFileName(d)) \in Dots
=============================================================================

------------------------------ MODULE PodNames ------------------------------
(***************************************************************************)
(* The names of pods (internal/podspec/name.go): a docker --name made fit  *)
(* for Kubernetes, and the name a container gets without one.  A text is a *)
(* sequence of characters, of which the letters tell apart only what the   *)
(* code does: those it keeps, those it lowers first, "-", "/", and ":" and *)
(* "@" together.                                                           *)
(***************************************************************************)
EXTENDS Integers, SequencesExt, FiniteSetsExt

CONSTANTS
    Kept,      \* a to z and 0 to 9
    Lower,     \* the lower case of each character
    Dash, Slash,
    Marks,     \* ":" and "@", where an image's tag or digest begins
    Dink,      \* the text "dink"
    RandomSuffixes, \* what RandomSuffix(6) may return
    SuffixLen, \* 6
    MaxLen     \* maxK8sNameLen, 63

ASSUME Characters ==
    /\ Dash \notin Kept /\ Slash \notin Kept /\ Marks \cap Kept = {}
    /\ Kept \cup {Dash} \subseteq DOMAIN Lower /\ Lower[Dash] = Dash
    /\ \A ch \in Kept : Lower[ch] = ch
    /\ Dink \in Seq(Kept) /\ Dink # <<>>
    /\ SuffixLen \in Nat \ {0} /\ RandomSuffixes \subseteq [1 .. SuffixLen -> Kept]
    /\ MaxLen \in Nat /\ MaxLen > Len(Dink)

\* A name of Kubernetes, RFC 1123.
IsPodName(s) ==
    /\ Len(s) \in 1 .. MaxLen
    /\ \A i \in DOMAIN s : s[i] \in Kept \cup {Dash}
    /\ s[1] \in Kept /\ s[Len(s)] \in Kept

Places(s, chars) == {i \in DOMAIN s : s[i] \in chars}
UpTo(s, n) == SubSeq(s, 1, IF n < Len(s) THEN n ELSE Len(s))

\* Every run of characters that are not kept is one dash.
Dashed(s) ==
    LET kept(i) == IF Lower[s[i]] \in Kept THEN Lower[s[i]] ELSE Dash
        all == [i \in DOMAIN s |-> kept(i)]
    IN  FoldLeft(LAMBDA out, ch : IF ch = Dash /\ IsSuffix(<<Dash>>, out) THEN out
                                                                     ELSE Append(out, ch),
                 <<>>, all)

TrimRight(s) == UpTo(s, Max({0} \cup Places(s, Kept)))
TrimLeft(s) == SubSeq(s, Min({Len(s) + 1} \cup Places(s, Kept)), Len(s))

\* Mutant: the cut name keeps the dash it may end with.
SanitizeUntrimmed(input) == UpTo(TrimRight(TrimLeft(Dashed(input))), MaxLen)

\* SanitizeName of a name that is not empty; <<>> is its error.
Sanitize(input) ==
    LET out == TrimRight(TrimLeft(Dashed(input)))
    IN  IF Len(out) > MaxLen THEN TrimRight(UpTo(out, MaxLen)) ELSE out

\* Mutant: the tag is cut off before the path.
ImageBaseTagFirst(image) ==
    LET untagged == UpTo(image, Min({Len(image) + 1} \cup Places(image, Marks)) - 1)
    IN  SubSeq(untagged, Max({0} \cup Places(untagged, {Slash})) + 1, Len(untagged))

\* registry.example.com:5000/library/redis:7.2 is redis.
ImageBase(image) ==
    LET rest == SubSeq(image, Max({0} \cup Places(image, {Slash})) + 1, Len(image))
    IN  UpTo(rest, Min({Len(rest) + 1} \cup Places(rest, Marks)) - 1)

Stem(image) ==
    LET clean == Sanitize(Dink \o <<Dash>> \o ImageBase(image))
    IN  IF clean = <<>> THEN Dink ELSE clean

\* The name is cut at its end, where the suffix is.
GeneratedName(image, suffix) == UpTo(Stem(image) \o <<Dash>> \o suffix, MaxLen)

\* Whether what the cut leaves of dash and suffix is the dash.
CutAfterDash(image) == Len(Stem(image)) = MaxLen - 1
=============================================================================

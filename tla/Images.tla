------------------------------- MODULE Images -------------------------------
(***************************************************************************)
(* The record of pulled images (internal/images/store.go) and its handlers *)
(* (internal/server/images.go).  A reference is its path, segment by       *)
(* segment, and what follows the path: nothing, ":tag", "@digest", or what *)
(* buildRef makes of a name that already has a tag.  An image ID is a      *)
(* sequence of digits, the image of its reference under a hash without     *)
(* collisions.                                                             *)
(*                                                                         *)
(* Clients spell one image in several ways: compose pulls the normalized   *)
(* reference and inspects the short one.                                   *)
(***************************************************************************)
EXTENDS Naturals, SequencesExt

CONSTANTS
    Paths,       \* the paths clients write
    Tags, Latest,
    Digests,
    None,
    Registries,  \* the registries that are not the hub
    Ported,      \* those of them with a port, such as localhost:5000
    Sent,        \* the pulls clients send: fromImage and tag of /images/create
    Digits,      \* the digits each word spells, for those that are hex
    Id,          \* the ID of each reference
    MinDigits    \* the shortest ID prefix that is looked up

VARIABLES
    pulled,      \* the keys of Store.m
    shelf        \* history: what the clients pulled and did not remove

imageVars == <<pulled, shelf>>

Colon(text) == <<":", text>>
At(text) == <<"@", text>>

\* What a client may write: a path, perhaps with a tag or a digest, or
\* sha256:<digits>.
Tails == {<<Colon(t)>> : t \in Tags} \cup {<<At(d)>> : d \in Digests}
Spelled == [path : Paths, tail : Tails \cup {<<>>}]
ById == [path : {<<"sha256">>}, tail : {<<Colon(d)>> : d \in DOMAIN Digits}]

HubPrefixes == << <<"docker.io", "library">>, <<"index.docker.io", "library">>,
                  <<"docker.io">>, <<"index.docker.io">>, <<"library">> >>

\* Mutant: the shortest prefix is cut.
ShortestCut(path) ==
    LET fits == {i \in DOMAIN HubPrefixes : IsStrictPrefix(HubPrefixes[i], path)}
    IN  IF fits = {} THEN path ELSE Tail(path)

\* canonicalRef cuts the first of the prefixes that fits.
CanonicalPath(path) ==
    LET fits == {i \in DOMAIN HubPrefixes : IsStrictPrefix(HubPrefixes[i], path)}
    IN  IF fits = {} THEN path
                     ELSE SubSeq(path, Len(HubPrefixes[Min(fits)]) + 1, Len(path))

Canonical(name) == [name EXCEPT !.path = CanonicalPath(@)]
Followed(name, mark) == [name EXCEPT !.tail = Append(@, mark)]

\* buildRef looks for a digest in fromImage only, and for no tag in it.
BuildRef(pull) ==
    IF \E i \in DOMAIN pull.from.tail : pull.from.tail[i] \in {At(d) : d \in Digests}
      THEN pull.from
      ELSE Followed(pull.from, Colon(IF pull.tag = None THEN Latest ELSE pull.tag))

\* Mutant: the reference is stored as it was written.
RecordAsWritten(pull) == BuildRef(pull)

\* The key a pull is recorded under.
RecordOf(pull) == Canonical(BuildRef(pull))
Refs == {RecordOf(p) : p \in Sent}
Lookups == Spelled \cup Refs \cup ById

ASSUME IdsAreUnique ==
    /\ Id \in [Refs -> Seq(Nat)]
    /\ \A r, s \in Refs : IsPrefix(Id[r], Id[s]) => r = s
    /\ Latest \in Tags /\ None \notin Tags \cup Digests /\ None \notin Refs
    /\ MinDigits \in Nat \ {0}

ASSUME SentAreSpelled == Sent \subseteq [from : Spelled, tag : Tags \cup Digests \cup {None}]

\* A path begins with a registry, or is a name on the hub, perhaps after a prefix of
\* the hub; a name in library is one segment, and no name begins as a prefix does.
HubWords == {"docker.io", "index.docker.io", "library"}
Segments == HubWords \cup UNION {ToSet(p) : p \in Paths}
ASSUME PathsAreNames ==
    /\ HubWords \cap Registries = {} /\ Ported \subseteq Registries
    /\ \A p \in Paths :
          /\ p \in Seq(Segments) /\ p # <<>>
          /\ p[1] \in Registries \/ \E k \in 0 .. Len(p) - 1 :
                /\ k = 0 \/ \E i \in DOMAIN HubPrefixes : SubSeq(p, 1, k) = HubPrefixes[i]
                /\ p[k + 1] \notin HubWords \cup Registries
                /\ k > 0 /\ p[k] = "library" => Len(p) = k + 1

TypeOK ==
    /\ pulled \subseteq Refs
    /\ \A r \in pulled : Canonical(r) = r
    /\ shelf \subseteq [path : Seq(Segments), tail : Tails]

Init == pulled = {} /\ shelf = {}

-----------------------------------------------------------------------------
\* The digits a name consists of, with or without "sha256:"; none if it is not hex.
DigitsOf(name) ==
    LET words == {d \in DOMAIN Digits : name = [path |-> <<d>>, tail |-> <<>>]
                                       \/ name = [path |-> <<"sha256">>, tail |-> <<Colon(d)>>]}
    IN  IF words = {} THEN <<>> ELSE Digits[CHOOSE d \in words : TRUE]

\* findByIDPrefix: a prefix long enough, of one image only.
ByIdPrefix(name) ==
    LET prefix == DigitsOf(name)
        hits == {r \in pulled : IsPrefix(prefix, Id[r])}
    IN  IF Len(prefix) >= MinDigits /\ \E r \in hits : hits = {r}
          THEN CHOOSE r \in hits : TRUE
          ELSE None

\* strings.ContainsAny(name, ":@"): the colon may be that of a registry's port.
HasPort(name) == \E i \in DOMAIN name.path : name.path[i] \in Ported
Marked(name) == name.tail # <<>> \/ HasPort(name)
WithLatest(name) == Followed(name, Colon(Latest))

Find(name) ==
    LET ref == Canonical(name)
    IN  IF ref \in pulled THEN ref
        ELSE IF ~Marked(ref) /\ WithLatest(ref) \in pulled THEN WithLatest(ref)
        ELSE ByIdPrefix(ref)

\* Mutant: the lookup of the removal has no :latest.
RemovedUntagged(name) ==
    LET ref == Canonical(name)
    IN  IF ref \in pulled THEN {ref} ELSE {ByIdPrefix(ref)} \ {None}

\* The record Remove takes out: the same three steps, written out again.
Removed(name) ==
    LET ref == Canonical(name)
        exact == {ref} \cap pulled
        latest == IF ~Marked(ref) THEN {WithLatest(ref)} \cap pulled ELSE {}
    IN  CASE exact # {} -> exact
          [] exact = {} /\ latest # {} -> latest
          [] OTHER -> {ByIdPrefix(ref)} \ {None}

-----------------------------------------------------------------------------
\* The image a name denotes by docker's reference grammar: a path without a
\* registry is one of the hub, and a hub path of one segment is in library.
Normal(path) ==
    LET onHub == IF Head(path) \in {"docker.io", "index.docker.io"} THEN Tail(path) ELSE path
    IN  CASE Head(path) \in Registries -> path
          [] Head(path) \notin Registries /\ Len(onHub) = 1 -> <<"docker.io", "library">> \o onHub
          [] OTHER -> <<"docker.io">> \o onHub
Meaning(name) ==
    [path |-> Normal(name.path), tail |-> IF name.tail = <<>> THEN <<Colon(Latest)>> ELSE name.tail]

\* The pulls of which buildRef makes the reference that was asked for: a digest is
\* in fromImage, and a tag is not.
Proper(pull) ==
    \/ \E d \in Digests : pull.from.tail = <<At(d)>>
    \/ pull.from.tail = <<>> /\ pull.tag \in Tags \cup {None}
Asked(pull) ==
    Meaning(IF pull.from.tail = <<>> /\ pull.tag # None THEN Followed(pull.from, Colon(pull.tag))
                                                       ELSE pull.from)

\* /images/create.
Create(pull) ==
    /\ pulled' = pulled \cup {RecordOf(pull)}
    /\ shelf' = IF Proper(pull) THEN shelf \cup {Asked(pull)} ELSE shelf

\* DELETE /images/{name}, which answers the reference it removed.
Delete(name) ==
    /\ Removed(name) # {}
    /\ pulled' = pulled \ Removed(name)
    /\ shelf' = shelf \ {Meaning(r) : r \in Removed(name)}

Next ==
    \/ \E p \in Sent : Create(p)
    \/ \E n \in Lookups : Delete(n)

Spec == Init /\ [][Next]_imageVars

-----------------------------------------------------------------------------
\* An image is found by every spelling of it from its pull to its removal,
\* whatever spellings those used, and a name that is not also an ID prefix
\* finds nothing else (store.go:52-75, 98-120; TestComposePullThenInspect).
\* Not so for a name without a tag whose registry has a port: its colon keeps
\* Find from trying :latest (store.go:114); nor for what is pulled with a
\* digest in tag, or with a tag in fromImage (images.go:125-133).
FoundAsPulled == \A n \in Spelled :
    /\ Meaning(n) \in shelf /\ ~(n.tail = <<>> /\ HasPort(n)) =>
          Find(n) # None /\ Meaning(Find(n)) = Meaning(n)
    /\ Find(n) # None /\ DigitsOf(Canonical(n)) = <<>> => Meaning(n) \in shelf

\* What a DELETE takes is what an inspect of the same name shows: the lookup is
\* written twice (store.go:98-145, Design.md:140).
RemovesWhatItShows == \A n \in Lookups : Removed(n) = {Find(n)} \ {None}
=============================================================================

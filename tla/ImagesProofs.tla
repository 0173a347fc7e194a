---------------------------- MODULE ImagesProofs ----------------------------
(***************************************************************************)
(* Theorems of Images: every record is kept under its shortest spelling,   *)
(* the records are the images the clients pulled and did not remove, and   *)
(* an inspect and a DELETE of one name resolve it alike.                   *)
(*                                                                         *)
(* The argument is about spellings: whatever prefix of the hub a path has, *)
(* what canonicalRef leaves of it has none, names the same image, and is   *)
(* the only such path that names it.                                       *)
(***************************************************************************)
EXTENDS Images, SequenceTheorems, TLAPS

\* What canonicalRef leaves: a path that no prefix of the hub fits.
Plain(q) == q \in Seq(Segments) /\ q # <<>> /\ q[1] \notin HubWords

\* A hub name where the path k cuts off leaves it.
NameAfter(p, k) ==
    /\ k \in 0 .. Len(p) - 1
    /\ k = 0 \/ \E i \in DOMAIN HubPrefixes : SubSeq(p, 1, k) = HubPrefixes[i]
    /\ p[k + 1] \notin HubWords \cup Registries
    /\ k > 0 /\ p[k] = "library" => Len(p) = k + 1

-----------------------------------------------------------------------------
(***************************************************************************)
(* Prefixes of the hub, segment by segment.                                *)
(***************************************************************************)
LEMMA PrefixSegments ==
    ASSUME NEW s \in Seq(Segments), NEW t \in Seq(Segments)
    PROVE  IsPrefix(s, t) <=> Len(s) <= Len(t) /\ \A i \in 1 .. Len(s) : s[i] = t[i]
<1>1. SUFFICES ASSUME Len(s) <= Len(t)
               PROVE  SubSeq(s, 1, Len(s)) = SubSeq(t, 1, Len(s))
                        <=> \A i \in 1 .. Len(s) : s[i] = t[i]
  BY DEF IsPrefix
<1>2. /\ SubSeq(s, 1, Len(s)) \in Seq(Segments) /\ Len(SubSeq(s, 1, Len(s))) = Len(s)
      /\ \A i \in 1 .. Len(s) : SubSeq(s, 1, Len(s))[i] = s[i]
  BY SubSeqFull
<1>3. /\ SubSeq(t, 1, Len(s)) \in Seq(Segments) /\ Len(SubSeq(t, 1, Len(s))) = Len(s)
      /\ \A i \in 1 .. Len(s) : SubSeq(t, 1, Len(s))[i] = t[i]
  <2>1. \A i \in 1 .. Len(s) : t[i] \in Segments
    BY <1>1, ElementOfSeq
  <2> QED BY <1>1, <2>1, SubSeqProperties, LenProperties
<1> QED BY <1>2, <1>3, SeqEqual

LEMMA HubPrefixesAre ==
    /\ DOMAIN HubPrefixes = 1 .. 5
    /\ HubPrefixes[1] = <<"docker.io", "library">>
    /\ HubPrefixes[2] = <<"index.docker.io", "library">>
    /\ HubPrefixes[3] = <<"docker.io">>
    /\ HubPrefixes[4] = <<"index.docker.io">>
    /\ HubPrefixes[5] = <<"library">>
  BY DEF HubPrefixes

LEMMA HubWordsAreSegments ==
    "docker.io" \in Segments /\ "index.docker.io" \in Segments /\ "library" \in Segments
  BY DEF Segments, HubWords

\* Which prefixes fit a path, by its first two segments.
LEMMA PrefixFits ==
    ASSUME NEW p \in Seq(Segments)
    PROVE  /\ IsStrictPrefix(HubPrefixes[1], p)
                <=> Len(p) > 2 /\ p[1] = "docker.io" /\ p[2] = "library"
           /\ IsStrictPrefix(HubPrefixes[2], p)
                <=> Len(p) > 2 /\ p[1] = "index.docker.io" /\ p[2] = "library"
           /\ IsStrictPrefix(HubPrefixes[3], p) <=> Len(p) > 1 /\ p[1] = "docker.io"
           /\ IsStrictPrefix(HubPrefixes[4], p) <=> Len(p) > 1 /\ p[1] = "index.docker.io"
           /\ IsStrictPrefix(HubPrefixes[5], p) <=> Len(p) > 1 /\ p[1] = "library"
<1>1. ASSUME NEW s \in Seq(Segments)
      PROVE  IsStrictPrefix(s, p) <=> Len(s) < Len(p) /\ \A i \in 1 .. Len(s) : s[i] = p[i]
  <2>1. Len(s) = Len(p) /\ (\A i \in 1 .. Len(s) : s[i] = p[i]) => s = p
    BY SeqEqual
  <2>2. Len(s) \in Nat /\ Len(p) \in Nat
    BY LenProperties
  <2> QED BY <2>1, <2>2, PrefixSegments DEF IsStrictPrefix
<1>2. ASSUME NEW a \in Segments, NEW b \in Segments
      PROVE  /\ IsStrictPrefix(<<a>>, p) <=> Len(p) > 1 /\ p[1] = a
             /\ IsStrictPrefix(<<a, b>>, p) <=> Len(p) > 2 /\ p[1] = a /\ p[2] = b
  <2>1. <<a>> \in Seq(Segments)
    OBVIOUS
  <2>2. <<a, b>> \in Seq(Segments)
    OBVIOUS
  <2>3. 1 .. 1 = {1} /\ 1 .. 2 = {1, 2} /\ Len(p) \in Nat
    BY LenProperties
  <2>4. IsStrictPrefix(<<a>>, p) <=> Len(p) > 1 /\ p[1] = a
    <3> DEFINE s == <<a>>
    <3> HIDE DEF s
    <3>1. IsStrictPrefix(s, p) <=> Len(s) < Len(p) /\ \A i \in 1 .. Len(s) : s[i] = p[i]
      BY <1>1, <2>1 DEF s
    <3>2. Len(s) = 1 /\ s[1] = a
      BY DEF s
    <3>3. IsStrictPrefix(s, p) <=> Len(p) > 1 /\ p[1] = a
      BY <3>1, <3>2, <2>3
    <3> QED BY <3>3 DEF s
  <2>5. IsStrictPrefix(<<a, b>>, p) <=> Len(p) > 2 /\ p[1] = a /\ p[2] = b
    <3> DEFINE s == <<a, b>>
    <3> HIDE DEF s
    <3>1. IsStrictPrefix(s, p) <=> Len(s) < Len(p) /\ \A i \in 1 .. Len(s) : s[i] = p[i]
      BY <1>1, <2>2 DEF s
    <3>2. Len(s) = 2 /\ s[1] = a /\ s[2] = b
      BY DEF s
    <3>3. IsStrictPrefix(s, p) <=> Len(p) > 2 /\ p[1] = a /\ p[2] = b
      BY <3>1, <3>2, <2>3
    <3> QED BY <3>3 DEF s
  <2> QED BY <2>4, <2>5
<1>3. \A a, b \in Segments :
          /\ IsStrictPrefix(<<a>>, p) <=> Len(p) > 1 /\ p[1] = a
          /\ IsStrictPrefix(<<a, b>>, p) <=> Len(p) > 2 /\ p[1] = a /\ p[2] = b
  BY <1>2
<1> HIDE DEF IsStrictPrefix, HubPrefixes
<1>4. /\ IsStrictPrefix(<<"docker.io", "library">>, p)
           <=> Len(p) > 2 /\ p[1] = "docker.io" /\ p[2] = "library"
      /\ IsStrictPrefix(<<"index.docker.io", "library">>, p)
           <=> Len(p) > 2 /\ p[1] = "index.docker.io" /\ p[2] = "library"
  BY <1>3, HubWordsAreSegments
<1>5. /\ IsStrictPrefix(<<"docker.io">>, p) <=> Len(p) > 1 /\ p[1] = "docker.io"
      /\ IsStrictPrefix(<<"index.docker.io">>, p) <=> Len(p) > 1 /\ p[1] = "index.docker.io"
      /\ IsStrictPrefix(<<"library">>, p) <=> Len(p) > 1 /\ p[1] = "library"
  BY <1>3, HubWordsAreSegments
<1>6. /\ IsStrictPrefix(HubPrefixes[1], p)
           <=> Len(p) > 2 /\ p[1] = "docker.io" /\ p[2] = "library"
      /\ IsStrictPrefix(HubPrefixes[2], p)
           <=> Len(p) > 2 /\ p[1] = "index.docker.io" /\ p[2] = "library"
  BY <1>4, HubPrefixesAre
<1>7. /\ IsStrictPrefix(HubPrefixes[3], p) <=> Len(p) > 1 /\ p[1] = "docker.io"
      /\ IsStrictPrefix(HubPrefixes[4], p) <=> Len(p) > 1 /\ p[1] = "index.docker.io"
      /\ IsStrictPrefix(HubPrefixes[5], p) <=> Len(p) > 1 /\ p[1] = "library"
  BY <1>5, HubPrefixesAre
<1> QED BY <1>6, <1>7

LEMMA LeastIs ==
    ASSUME NEW S \in SUBSET Int, NEW i \in S, \A j \in S : i <= j
    PROVE  Min(S) = i
<1>1. \E x \in S : \A y \in S : x =< y
  OBVIOUS
<1>2. Min(S) \in S /\ \A y \in S : Min(S) =< y
  BY <1>1 DEF Min
<1>3. Min(S) <= i /\ i <= Min(S) /\ Min(S) \in Int
  BY <1>2
<1> QED BY <1>3

\* What canonicalRef cuts.
Cut(p) ==
    CASE p[1] \in {"docker.io", "index.docker.io"} /\ Len(p) > 2 /\ p[2] = "library" -> 2
      [] p[1] \in {"docker.io", "index.docker.io"} /\ Len(p) > 1
            /\ ~(Len(p) > 2 /\ p[2] = "library") -> 1
      [] p[1] = "library" /\ Len(p) > 1 -> 1
      [] OTHER -> 0

LEMMA CanonicalCuts ==
    ASSUME NEW p \in Seq(Segments), p # <<>>
    PROVE  CanonicalPath(p) = IF Cut(p) = 0 THEN p ELSE SubSeq(p, Cut(p) + 1, Len(p))
<1> DEFINE fits == {i \in DOMAIN HubPrefixes : IsStrictPrefix(HubPrefixes[i], p)}
<1>1. fits \subseteq 1 .. 5 /\ fits \in SUBSET Int
  BY HubPrefixesAre
<1>2. \A i \in 1 .. 5 : i \in fits <=> IsStrictPrefix(HubPrefixes[i], p)
  BY HubPrefixesAre
<1>3. CanonicalPath(p) = IF fits = {} THEN p
                         ELSE SubSeq(p, Len(HubPrefixes[Min(fits)]) + 1, Len(p))
  BY DEF CanonicalPath
<1>4. Len(HubPrefixes[1]) = 2 /\ Len(HubPrefixes[2]) = 2 /\ Len(HubPrefixes[3]) = 1
      /\ Len(HubPrefixes[4]) = 1 /\ Len(HubPrefixes[5]) = 1
  BY HubPrefixesAre
<1>5. /\ 1 \in fits <=> Len(p) > 2 /\ p[1] = "docker.io" /\ p[2] = "library"
      /\ 2 \in fits <=> Len(p) > 2 /\ p[1] = "index.docker.io" /\ p[2] = "library"
      /\ 3 \in fits <=> Len(p) > 1 /\ p[1] = "docker.io"
      /\ 4 \in fits <=> Len(p) > 1 /\ p[1] = "index.docker.io"
      /\ 5 \in fits <=> Len(p) > 1 /\ p[1] = "library"
  BY <1>2, PrefixFits
<1>6. Len(p) \in Nat
  BY LenProperties
<1> HIDE DEF fits
<1>7. CASE fits = {}
  BY <1>3, <1>5, <1>6, <1>7 DEF Cut
<1>8. CASE fits # {}
  <2>1. PICK m \in 1 .. 5 : m \in fits /\ \A j \in fits : m <= j
    <3>1. CASE 1 \in fits
      BY <3>1, <1>1
    <3>2. CASE 1 \notin fits /\ 2 \in fits
      BY <3>2, <1>1
    <3>3. CASE 1 \notin fits /\ 2 \notin fits /\ 3 \in fits
      BY <3>3, <1>1
    <3>4. CASE 1 \notin fits /\ 2 \notin fits /\ 3 \notin fits /\ 4 \in fits
      BY <3>4, <1>1
    <3>5. CASE 1 \notin fits /\ 2 \notin fits /\ 3 \notin fits /\ 4 \notin fits
      <4>1. PICK j \in fits : TRUE
        BY <1>8
      <4>2. \A k \in fits : k = 5
        BY <3>5, <1>1
      <4> QED BY <4>1, <4>2
    <3> QED BY <3>1, <3>2, <3>3, <3>4, <3>5
  <2>2. Min(fits) = m
    BY <2>1, <1>1, LeastIs
  <2>3. Len(HubPrefixes[m]) = Cut(p) /\ Cut(p) # 0
    <3>1. CASE m \in {1, 2}
      <4>1. Cut(p) = 2
        BY <3>1, <2>1, <1>5 DEF Cut
      <4> QED BY <3>1, <4>1, <1>4
    <3>2. CASE m \in {3, 4}
      <4>1. 1 \notin fits /\ 2 \notin fits
        BY <3>2, <2>1
      <4>2. p[1] \in {"docker.io", "index.docker.io"} /\ Len(p) > 1
        BY <3>2, <2>1, <1>5
      <4>3. ~(Len(p) > 2 /\ p[2] = "library")
        BY <4>1, <4>2, <1>5
      <4>4. Cut(p) = 1
        BY <4>2, <4>3 DEF Cut
      <4> QED BY <3>2, <4>4, <1>4
    <3>3. CASE m = 5
      <4>1. p[1] = "library" /\ Len(p) > 1
        BY <3>3, <2>1, <1>5
      <4>2. Cut(p) = 1
        BY <4>1 DEF Cut
      <4> QED BY <3>3, <4>2, <1>4
    <3> QED BY <3>1, <3>2, <3>3, <2>1
  <2> QED BY <2>2, <2>3, <1>3, <1>8
<1> QED BY <1>7, <1>8

-----------------------------------------------------------------------------
(***************************************************************************)
(* The paths clients write.                                                *)
(***************************************************************************)
LEMMA CutBeforeName ==
    ASSUME NEW p \in Seq(Segments), NEW k, NameAfter(p, k)
    PROVE  /\ k = Cut(p)
           /\ k = 1 => p[1] \in HubWords
           /\ k = 2 => p[1] \in {"docker.io", "index.docker.io"} /\ p[2] = "library"
           /\ k \in {0, 1, 2}
           /\ k = 1 /\ p[1] = "library" => Len(p) = 2
           /\ k = 2 => Len(p) = 3
<1>1. Len(p) \in Nat /\ k \in 0 .. Len(p) - 1
  BY LenProperties DEF NameAfter
<1>2. p[k + 1] \notin HubWords
  BY DEF NameAfter
<1>3. CASE k = 0
  <2>1. p[1] \notin HubWords
    BY <1>2, <1>3
  <2> QED BY <2>1, <1>3 DEF Cut, HubWords
<1>4. CASE k > 0
  <2>1. PICK i \in 1 .. 5 : SubSeq(p, 1, k) = HubPrefixes[i]
    BY <1>4, HubPrefixesAre DEF NameAfter
  <2>2. \A j \in 1 .. k : p[j] \in Segments
    BY <1>1, ElementOfSeq
  <2>3. Len(SubSeq(p, 1, k)) = k /\ \A j \in 1 .. k : SubSeq(p, 1, k)[j] = p[j]
    BY <1>1, <1>4, <2>2, SubSeqProperties
  <2>4. Len(HubPrefixes[i]) = k /\ \A j \in 1 .. k : HubPrefixes[i][j] = p[j]
    BY <2>1, <2>3
  <2>5. CASE i \in {1, 2}
    <3>1. k = 2
      BY <2>4, <2>5, HubPrefixesAre
    <3>2. p[1] \in {"docker.io", "index.docker.io"} /\ p[2] = "library"
      BY <2>4, <2>5, <3>1, HubPrefixesAre
    <3>3. Len(p) = 3
      BY <3>1, <3>2, <1>1 DEF NameAfter
    <3> QED BY <3>1, <3>2, <3>3 DEF Cut
  <2>6. CASE i \in {3, 4}
    <3>1. k = 1
      BY <2>4, <2>6, HubPrefixesAre
    <3>2. p[1] \in {"docker.io", "index.docker.io"} /\ p[2] # "library" /\ Len(p) > 1
      BY <2>4, <2>6, <3>1, <1>1, <1>2, HubPrefixesAre DEF HubWords
    <3> QED BY <3>1, <3>2 DEF Cut, HubWords
  <2>7. CASE i = 5
    <3>1. k = 1
      BY <2>4, <2>7, HubPrefixesAre
    <3>2. p[1] = "library" /\ Len(p) = 2
      BY <2>4, <2>7, <3>1, HubPrefixesAre DEF NameAfter
    <3> QED BY <3>1, <3>2 DEF Cut, HubWords
  <2> QED BY <2>5, <2>6, <2>7
<1> QED BY <1>1, <1>3, <1>4

LEMMA PathShapes ==
    ASSUME NEW p \in Paths
    PROVE  /\ p \in Seq(Segments) /\ p # <<>>
           /\ \/ p[1] \in Registries
              \/ \E k \in 0 .. Len(p) - 1 : NameAfter(p, k)
  BY PathsAreNames DEF NameAfter

LEMMA PlainStays ==
    ASSUME NEW q, Plain(q)
    PROVE  CanonicalPath(q) = q
<1>1. Cut(q) = 0
  BY DEF Cut, Plain, HubWords
<1> QED BY <1>1, CanonicalCuts DEF Plain

\* The image of a name on the hub without a prefix.
LEMMA NormalOfName ==
    ASSUME NEW q, Plain(q), q[1] \notin Registries
    PROVE  Normal(q) = IF Len(q) = 1 THEN <<"docker.io", "library">> \o q ELSE <<"docker.io">> \o q
  BY DEF Plain, Normal, HubWords

LEMMA NormalOfRegistry ==
    ASSUME NEW q, q # <<>>, q[1] \in Registries
    PROVE  Normal(q) = q
  BY DEF Normal

LEMMA RestSegments ==
    ASSUME NEW p \in Seq(Segments), NEW k \in 0 .. Len(p) - 1
    PROVE  /\ SubSeq(p, k + 1, Len(p)) \in Seq(Segments)
           /\ Len(SubSeq(p, k + 1, Len(p))) = Len(p) - k
           /\ \A i \in 1 .. Len(p) - k : SubSeq(p, k + 1, Len(p))[i] = p[i + k]
<1>1. Len(p) \in Nat
  BY LenProperties
<1>2. \A i \in k + 1 .. Len(p) : p[i] \in Segments
  BY <1>1, ElementOfSeq
<1>3. /\ SubSeq(p, k + 1, Len(p)) \in Seq(Segments)
      /\ Len(SubSeq(p, k + 1, Len(p))) = Len(p) - k
      /\ \A i \in 1 .. Len(p) - (k + 1) + 1 : SubSeq(p, k + 1, Len(p))[i] = p[(k + 1) + i - 1]
  BY <1>1, <1>2, SubSeqProperties
<1> QED BY <1>1, <1>3

LEMMA OneBefore ==
    ASSUME NEW a \in Segments, NEW s \in Seq(Segments)
    PROVE  /\ <<a>> \o s \in Seq(Segments) /\ Len(<<a>> \o s) = Len(s) + 1
           /\ (<<a>> \o s)[1] = a /\ \A i \in 1 .. Len(s) : (<<a>> \o s)[i + 1] = s[i]
<1> DEFINE t == <<a>>
<1>1. t \in Seq(Segments) /\ Len(t) = 1 /\ t[1] = a /\ Len(s) \in Nat
  OBVIOUS
<1> HIDE DEF t
<1>2. /\ t \o s \in Seq(Segments) /\ Len(t \o s) = Len(s) + 1
      /\ (t \o s)[1] = a /\ \A i \in 1 .. Len(s) : (t \o s)[i + 1] = s[i]
  BY <1>1, ConcatProperties
<1> QED BY <1>2 DEF t

LEMMA TwoBefore ==
    ASSUME NEW a \in Segments, NEW b \in Segments, NEW s \in Seq(Segments)
    PROVE  /\ <<a, b>> \o s \in Seq(Segments) /\ Len(<<a, b>> \o s) = Len(s) + 2
           /\ (<<a, b>> \o s)[1] = a /\ (<<a, b>> \o s)[2] = b
           /\ \A i \in 1 .. Len(s) : (<<a, b>> \o s)[i + 2] = s[i]
<1> DEFINE t == <<a, b>>
<1>1. t \in Seq(Segments) /\ Len(t) = 2 /\ t[1] = a /\ t[2] = b /\ Len(s) \in Nat
  OBVIOUS
<1> HIDE DEF t
<1>2. /\ t \o s \in Seq(Segments) /\ Len(t \o s) = Len(s) + 2
      /\ (t \o s)[1] = a /\ (t \o s)[2] = b
      /\ \A i \in 1 .. Len(s) : (t \o s)[i + 2] = s[i]
  <2>1. /\ t \o s \in Seq(Segments) /\ Len(t \o s) = Len(t) + Len(s)
        /\ \A i \in 1 .. Len(t) + Len(s) :
              (t \o s)[i] = IF i <= Len(t) THEN t[i] ELSE s[i - Len(t)]
    BY <1>1, ConcatProperties
  <2>2. ASSUME NEW i \in 1 .. Len(s)
        PROVE  (t \o s)[i + 2] = s[i]
    BY <1>1, <2>1
  <2> QED BY <1>1, <2>1, <2>2
<1> QED BY <1>2 DEF t

LEMMA LibraryBefore ==
    ASSUME NEW s \in Seq(Segments)
    PROVE  LET n == <<"docker.io", "library">> \o s
           IN  /\ n \in Seq(Segments) /\ Len(n) = Len(s) + 2
               /\ n[1] = "docker.io" /\ n[2] = "library"
               /\ \A i \in 1 .. Len(s) : n[i + 2] = s[i]
<1> DEFINE a == "docker.io"
           b == "library"
<1>1. a \in Segments /\ b \in Segments
  BY HubWordsAreSegments
<1> HIDE DEF a, b
<1>2. /\ <<a, b>> \o s \in Seq(Segments) /\ Len(<<a, b>> \o s) = Len(s) + 2
      /\ (<<a, b>> \o s)[1] = a /\ (<<a, b>> \o s)[2] = b
      /\ \A i \in 1 .. Len(s) : (<<a, b>> \o s)[i + 2] = s[i]
  BY <1>1, TwoBefore
<1> QED BY <1>2, Zenon DEF a, b

\* A name in library is spelled in two ways that mean one image.
LEMMA InLibrary ==
    ASSUME NEW s \in Seq(Segments), NEW q \in Seq(Segments),
           Len(s) = 2, s[1] = "library", Len(q) = 1, q[1] = s[2]
    PROVE  <<"docker.io">> \o s = <<"docker.io", "library">> \o q
<1> DEFINE l == <<"docker.io">> \o s
           r == <<"docker.io", "library">> \o q
<1>1. l \in Seq(Segments) /\ Len(l) = 3 /\ l[1] = "docker.io" /\ l[2] = s[1] /\ l[3] = s[2]
  <2>1. /\ l \in Seq(Segments) /\ Len(l) = Len(s) + 1 /\ l[1] = "docker.io"
        /\ \A i \in 1 .. Len(s) : l[i + 1] = s[i]
    BY OneBefore, HubWordsAreSegments, Zenon
  <2> HIDE DEF l
  <2>2. 1 \in 1 .. Len(s) /\ 2 \in 1 .. Len(s)
    OBVIOUS
  <2>3. l[1 + 1] = s[1] /\ l[2 + 1] = s[2]
    BY ONLY <2>1, <2>2
  <2> QED BY <2>1, <2>3
<1>2. r \in Seq(Segments) /\ Len(r) = 3 /\ r[1] = "docker.io" /\ r[2] = "library" /\ r[3] = q[1]
  <2>1. /\ r \in Seq(Segments) /\ Len(r) = Len(q) + 2 /\ r[1] = "docker.io" /\ r[2] = "library"
        /\ \A i \in 1 .. Len(q) : r[i + 2] = q[i]
    BY LibraryBefore
  <2> HIDE DEF r
  <2>2. 1 \in 1 .. Len(q)
    OBVIOUS
  <2>3. r[1 + 2] = q[1]
    BY ONLY <2>1, <2>2
  <2> QED BY <2>1, <2>3
<1> HIDE DEF l, r
<1>3. \A i \in 1 .. 3 : l[i] = r[i]
  BY <1>1, <1>2
<1>4. l = r
  BY <1>1, <1>2, <1>3, SeqEqual
<1> QED BY <1>4 DEF l, r

\* What canonicalRef leaves of a path is plain and names the same image.
LEMMA CanonicalIsPlain ==
    ASSUME NEW p \in Paths
    PROVE  /\ Plain(CanonicalPath(p)) /\ ToSet(CanonicalPath(p)) \subseteq ToSet(p)
           /\ Normal(CanonicalPath(p)) = Normal(p)
<1>1. p \in Seq(Segments) /\ p # <<>> /\ Len(p) \in Nat \ {0} /\ 1 \in DOMAIN p
  BY PathShapes, EmptySeq
<1>2. CASE Plain(p)
  BY <1>2, PlainStays
<1>3. CASE ~Plain(p)
  <2>1. PICK k \in 0 .. Len(p) - 1 : NameAfter(p, k)
    BY <1>1, <1>3, PathShapes, PathsAreNames DEF Plain
  <2>2. k = Cut(p) /\ k \in {1, 2}
    <3>1. k = 0 => p[1] \notin HubWords
      BY <2>1 DEF NameAfter
    <3> QED BY <1>1, <1>3, <2>1, <3>1, CutBeforeName DEF Plain
  <2> DEFINE q == SubSeq(p, k + 1, Len(p))
  <2>3. CanonicalPath(p) = q
    BY <1>1, <2>2, CanonicalCuts
  <2>4. q \in Seq(Segments) /\ Len(q) = Len(p) - k /\ \A i \in 1 .. Len(p) - k : q[i] = p[i + k]
    BY <1>1, <2>1, RestSegments
  <2>5. ToSet(q) \subseteq ToSet(p)
    <3>1. DOMAIN q = 1 .. Len(p) - k
      BY <2>4
    <3>2. \A i \in DOMAIN q : i + k \in DOMAIN p /\ q[i] = p[i + k]
      BY <1>1, <2>1, <2>4, <3>1
    <3> HIDE DEF q
    <3> QED BY <3>2 DEF ToSet
  <2> HIDE DEF q
  <2>6. q[1] = p[k + 1] /\ q # <<>>
    BY <2>1, <2>4
  <2>7. Plain(q) /\ q[1] \notin Registries
    BY <2>1, <2>4, <2>6 DEF Plain, NameAfter
  <2>8. Normal(q) = IF Len(q) = 1 THEN <<"docker.io", "library">> \o q ELSE <<"docker.io">> \o q
    BY <2>7, NormalOfName
  <2>9. Head(p) = p[1] /\ p[1] \in HubWords /\ Head(p) \notin Registries
    BY <1>1, <2>1, <2>2, CutBeforeName, PathsAreNames DEF HubWords
  <2>10. CASE k = 1 /\ p[1] # "library"
    <3>1. Tail(p) = q
      BY <1>1, <2>10, TailIsSubSeq DEF q
    <3>2. Normal(p) = IF Len(q) = 1 THEN <<"docker.io", "library">> \o q ELSE <<"docker.io">> \o q
      BY <2>9, <2>10, <3>1 DEF Normal, HubWords
    <3> QED BY <2>3, <2>5, <2>7, <2>8, <3>2
  <2>11. CASE k = 1 /\ p[1] = "library"
    <3>1. Len(p) = 2 /\ Len(q) = 1 /\ q[1] = p[2]
      BY <1>1, <2>1, <2>4, <2>6, <2>11, CutBeforeName
    <3>2. Normal(p) = <<"docker.io">> \o p
      <4>1. Head(p) \notin {"docker.io", "index.docker.io"} /\ Len(p) # 1
        BY <2>9, <2>11, <3>1
      <4> QED BY <2>9, <4>1 DEF Normal
    <3>3. Normal(q) = <<"docker.io", "library">> \o q
      BY <2>8, <3>1
    <3>4. <<"docker.io">> \o p = <<"docker.io", "library">> \o q
      BY <1>1, <2>4, <2>11, <3>1, InLibrary
    <3> QED BY <2>3, <2>5, <2>7, <3>2, <3>3, <3>4
  <2>12. CASE k = 2
    <3>1. /\ p[1] \in {"docker.io", "index.docker.io"} /\ p[2] = "library"
          /\ Len(p) = 3 /\ Len(q) = 1 /\ q[1] = p[3]
      <4>1. p[1] \in {"docker.io", "index.docker.io"} /\ p[2] = "library" /\ Len(p) = 3
        BY <1>1, <2>1, <2>12, CutBeforeName
      <4> QED BY <4>1, <2>4, <2>6, <2>12
    <3>2. Tail(p) \in Seq(Segments) /\ Len(Tail(p)) = 2 /\ Tail(p)[1] = "library" /\ Tail(p)[2] = p[3]
      BY <1>1, <3>1
    <3>3. Normal(p) = <<"docker.io">> \o Tail(p)
      BY <2>9, <3>1, <3>2 DEF Normal
    <3>4. Normal(q) = <<"docker.io", "library">> \o q
      BY <2>8, <3>1
    <3>5. <<"docker.io">> \o Tail(p) = <<"docker.io", "library">> \o q
      BY <2>4, <3>1, <3>2, InLibrary
    <3> QED BY <2>3, <2>5, <2>7, <3>3, <3>4, <3>5
  <2> QED BY <2>2, <2>10, <2>11, <2>12
<1> QED BY <1>2, <1>3

LEMMA NormalShape ==
    ASSUME NEW s, Plain(s), s[1] \notin Registries
    PROVE  /\ Normal(s) \in Seq(Segments) /\ Normal(s)[1] = "docker.io"
           /\ Len(s) = 1 => Len(Normal(s)) = 3 /\ Normal(s)[2] = "library" /\ Normal(s)[3] = s[1]
           /\ Len(s) # 1 => /\ Len(Normal(s)) = Len(s) + 1
                            /\ \A i \in 1 .. Len(s) : Normal(s)[i + 1] = s[i]
<1>1. s \in Seq(Segments) /\ Len(s) \in Nat \ {0}
  BY EmptySeq DEF Plain
<1>2. CASE Len(s) = 1
  <2>1. Normal(s) = <<"docker.io", "library">> \o s
    BY <1>2, NormalOfName
  <2> DEFINE n == <<"docker.io", "library">> \o s
  <2>2. /\ n \in Seq(Segments) /\ Len(n) = Len(s) + 2 /\ n[1] = "docker.io" /\ n[2] = "library"
        /\ \A i \in 1 .. Len(s) : n[i + 2] = s[i]
    BY <1>1, LibraryBefore
  <2> HIDE DEF n
  <2>3. 1 \in 1 .. Len(s) /\ n = Normal(s)
    BY <1>2, <2>1 DEF n
  <2>4. n[1 + 2] = s[1]
    BY ONLY <2>2, <2>3
  <2> QED BY <1>2, <2>2, <2>3, <2>4
<1>3. CASE Len(s) # 1
  <2>1. Normal(s) = <<"docker.io">> \o s
    BY <1>3, NormalOfName
  <2> QED BY <1>1, <1>3, <2>1, OneBefore, HubWordsAreSegments
<1> QED BY <1>2, <1>3

\* Two plain paths that name one image are the same.
LEMMA PlainPathsDiffer ==
    ASSUME NEW q, NEW r, Plain(q), Plain(r), Normal(q) = Normal(r)
    PROVE  q = r
<1>1. q \in Seq(Segments) /\ r \in Seq(Segments) /\ Len(q) \in Nat \ {0} /\ Len(r) \in Nat \ {0}
  BY EmptySeq DEF Plain
<1>2. \A s : Plain(s) /\ s[1] \notin Registries =>
          /\ Normal(s) \in Seq(Segments) /\ Normal(s)[1] = "docker.io"
          /\ Len(s) = 1 => Len(Normal(s)) = 3 /\ Normal(s)[2] = "library" /\ Normal(s)[3] = s[1]
          /\ Len(s) # 1 => /\ Len(Normal(s)) = Len(s) + 1
                           /\ \A i \in 1 .. Len(s) : Normal(s)[i + 1] = s[i]
  BY NormalShape
<1>3. "docker.io" \notin Registries
  BY PathsAreNames DEF HubWords
<1>4. CASE q[1] \in Registries /\ r[1] \in Registries
  BY <1>4, NormalOfRegistry DEF Plain
<1>5. CASE q[1] \in Registries /\ r[1] \notin Registries
  <2>1. Normal(q)[1] = q[1] /\ Normal(r)[1] = "docker.io"
    BY <1>5, <1>2, NormalOfRegistry DEF Plain
  <2> QED BY <1>3, <1>5, <2>1
<1>6. CASE q[1] \notin Registries /\ r[1] \in Registries
  <2>1. Normal(r)[1] = r[1] /\ Normal(q)[1] = "docker.io"
    BY <1>6, <1>2, NormalOfRegistry DEF Plain
  <2> QED BY <1>3, <1>6, <2>1
<1>7. CASE q[1] \notin Registries /\ r[1] \notin Registries
  <2>1. q[1] # "library" /\ r[1] # "library"
    BY DEF Plain, HubWords
  <2>2. Len(q) = 1 <=> Len(r) = 1
    BY <1>1, <1>2, <1>7, <2>1
  <2>3. Len(q) = Len(r)
    BY <1>1, <1>2, <1>7, <2>2
  <2>4. \A i \in 1 .. Len(q) : q[i] = r[i]
    BY <1>1, <1>2, <1>7, <2>2, <2>3
  <2> QED BY <1>1, <2>3, <2>4, SeqEqual
<1> QED BY <1>4, <1>5, <1>6, <1>7

-----------------------------------------------------------------------------
(***************************************************************************)
(* The records.                                                            *)
(***************************************************************************)
\* A reference without a prefix of the hub, with a tag or a digest.
Kept(r) == r = [path |-> r.path, tail |-> r.tail] /\ Plain(r.path) /\ r.tail # <<>>

\* The record of the image a name denotes.
RefOf(name) == [path |-> CanonicalPath(name.path),
                tail |-> IF name.tail = <<>> THEN <<Colon(Latest)>> ELSE name.tail]

LEMMA Marks ==
    /\ \A t : Colon(t) # <<>> /\ At(t) # <<>> /\ Append(<<>>, Colon(t)) = <<Colon(t)>>
    /\ \A t, d : Colon(t) # At(d) /\ <<Colon(t)>> # <<>> /\ <<At(d)>> # <<>>
  BY DEF Colon, At

LEMMA CanonicalIs ==
    ASSUME NEW path, NEW tail
    PROVE  Canonical([path |-> path, tail |-> tail]) = [path |-> CanonicalPath(path), tail |-> tail]
  BY DEF Canonical

LEMMA SpelledIs ==
    ASSUME NEW n \in Spelled
    PROVE  /\ n.path \in Paths /\ n.tail \in Tails \cup {<<>>}
           /\ n = [path |-> n.path, tail |-> n.tail]
           /\ \/ n.tail = <<>>
              \/ \E t \in Tags : n.tail = <<Colon(t)>>
              \/ \E d \in Digests : n.tail = <<At(d)>>
  BY DEF Spelled, Tails

LEMMA RefOfSpelled ==
    ASSUME NEW n \in Spelled
    PROVE  Kept(RefOf(n)) /\ RefOf(n).tail \in Tails /\ Meaning(RefOf(n)) = Meaning(n)
<1>1. Plain(RefOf(n).path) /\ Normal(RefOf(n).path) = Normal(n.path)
  BY SpelledIs, CanonicalIsPlain DEF RefOf
<1>2. RefOf(n).tail \in Tails /\ RefOf(n).tail # <<>>
  BY SpelledIs, Marks, IdsAreUnique DEF RefOf, Tails
<1> QED BY <1>1, <1>2 DEF Kept, RefOf, Meaning

LEMMA MeaningTellsApart ==
    ASSUME NEW r, NEW s, Kept(r), Kept(s), Meaning(r) = Meaning(s)
    PROVE  r = s
<1>1. r.tail = s.tail /\ Normal(r.path) = Normal(s.path)
  BY DEF Meaning, Kept
<1>2. r.path = s.path
  BY <1>1, PlainPathsDiffer DEF Kept
<1> QED BY <1>1, <1>2 DEF Kept

\* A mark goes behind the tail a name has.
LEMMA FollowedIs ==
    ASSUME NEW path, NEW tail, NEW mark
    PROVE  Followed([path |-> path, tail |-> tail], mark) = [path |-> path, tail |-> Append(tail, mark)]
  BY DEF Followed

\* What a pull is recorded as: what it asked for if it was proper, and otherwise a
\* reference that no image has.
LEMMA RecordOfPull ==
    ASSUME NEW p \in Sent
    PROVE  /\ Kept(RecordOf(p))
           /\ Proper(p) => RecordOf(p).tail \in Tails /\ Asked(p) = Meaning(RecordOf(p))
           /\ ~Proper(p) => RecordOf(p).tail \notin Tails
<1>1. p.from \in Spelled /\ p.tag \in Tags \cup Digests \cup {None}
  BY SentAreSpelled
<1> DEFINE f == p.from
           text == IF p.tag = None THEN Latest ELSE p.tag
<1>2. /\ f.path \in Paths /\ f = [path |-> f.path, tail |-> f.tail]
      /\ Plain(CanonicalPath(f.path)) /\ Normal(CanonicalPath(f.path)) = Normal(f.path)
  BY <1>1, SpelledIs, CanonicalIsPlain
<1>3. CASE \E d \in Digests : f.tail = <<At(d)>>
  <2>1. PICK d \in Digests : f.tail = <<At(d)>>
    BY <1>3
  <2>2. 1 \in DOMAIN f.tail /\ f.tail[1] = At(d)
    BY <2>1
  <2>3. BuildRef(p) = f
    BY <2>2 DEF BuildRef
  <2>4. RecordOf(p) = [path |-> CanonicalPath(f.path), tail |-> f.tail]
    BY <1>2, <2>3, CanonicalIs DEF RecordOf
  <2>5. Proper(p) /\ f.tail \in Tails /\ f.tail # <<>>
    BY <1>3, Marks DEF Proper, Tails
  <2>6. Asked(p) = Meaning(f)
    BY <2>5 DEF Asked
  <2> QED BY <1>2, <2>4, <2>5, <2>6 DEF Kept, Meaning
<1>4. CASE f.tail = <<>>
  <2>1. DOMAIN f.tail = {}
    BY <1>4
  <2>2. BuildRef(p) = Followed(f, Colon(text))
    BY <2>1 DEF BuildRef
  <2>3. Followed(f, Colon(text)) = [path |-> f.path, tail |-> <<Colon(text)>>]
    <3>1. Followed([path |-> f.path, tail |-> f.tail], Colon(text))
            = [path |-> f.path, tail |-> Append(f.tail, Colon(text))]
      BY FollowedIs
    <3>2. Append(f.tail, Colon(text)) = <<Colon(text)>>
      BY <1>4, Marks
    <3> HIDE DEF text
    <3> QED BY <1>2, <3>1, <3>2, Zenon
  <2>4. RecordOf(p) = [path |-> CanonicalPath(f.path), tail |-> <<Colon(text)>>]
    BY <2>2, <2>3, CanonicalIs DEF RecordOf
  <2>5. Proper(p) <=> p.tag \in Tags \cup {None}
    BY <1>4, Marks DEF Proper
  <2>6. Proper(p) => <<Colon(text)>> \in Tails
    BY <2>5, IdsAreUnique DEF Tails
  <2>7. Asked(p) = Meaning(IF p.tag = None THEN f ELSE [path |-> f.path, tail |-> <<Colon(text)>>])
    BY <1>4, <2>3 DEF Asked
  <2>8. Asked(p) = Meaning(RecordOf(p))
    BY <1>2, <1>4, <2>4, <2>7, Marks DEF Meaning
  <2>9. ~Proper(p) => <<Colon(text)>> \notin Tails
    <3> SUFFICES ASSUME ~Proper(p), <<Colon(text)>> \in Tails
                 PROVE  FALSE
      OBVIOUS
    <3>1. p.tag \notin Tags /\ p.tag # None /\ text = p.tag
      BY <2>5
    <3>2. \A t, d : Colon(text) = Colon(t) => text = t
      BY DEF Colon
    <3> QED BY <3>1, <3>2, Marks DEF Tails
  <2> QED BY <1>2, <2>4, <2>6, <2>8, <2>9, Marks DEF Kept
<1>5. CASE \E t \in Tags : f.tail = <<Colon(t)>>
  <2>1. PICK t \in Tags : f.tail = <<Colon(t)>>
    BY <1>5
  <2>2. DOMAIN f.tail = {1} /\ f.tail[1] = Colon(t)
    BY <2>1
  <2>3. BuildRef(p) = Followed(f, Colon(text))
    BY <2>2, Marks DEF BuildRef
  <2>4. RecordOf(p) = [path |-> CanonicalPath(f.path), tail |-> Append(f.tail, Colon(text))]
    <3>1. BuildRef(p) = [path |-> f.path, tail |-> Append(f.tail, Colon(text))]
      <4>1. Followed([path |-> f.path, tail |-> f.tail], Colon(text))
              = [path |-> f.path, tail |-> Append(f.tail, Colon(text))]
        BY FollowedIs
      <4> HIDE DEF text
      <4> QED BY <1>2, <2>3, <4>1, Zenon
    <3> QED BY <3>1, CanonicalIs DEF RecordOf
  <2>5. ~Proper(p)
    BY <2>1, Marks DEF Proper
  <2>6. Len(Append(f.tail, Colon(text))) = 2
    BY <2>1
  <2>7. \A m \in Tails : Len(m) = 1
    BY DEF Tails
  <2>8. Append(f.tail, Colon(text)) \notin Tails /\ Append(f.tail, Colon(text)) # <<>>
    <3> DEFINE two == Append(f.tail, Colon(text))
    <3>1. Len(two) = 2
      BY <2>6
    <3> HIDE DEF two
    <3>2. two \notin Tails
      BY <2>7, <3>1
    <3>3. two # <<>>
      BY <3>1
    <3> QED BY <3>2, <3>3 DEF two
  <2> QED BY <1>2, <2>4, <2>5, <2>8 DEF Kept
<1> QED BY <1>1, <1>3, <1>4, <1>5, SpelledIs

LEMMA RefsAreKept ==
    ASSUME NEW r \in Refs
    PROVE  Kept(r)
  BY RecordOfPull DEF Refs

\* The records of references that images have are the images that were pulled and
\* not removed, each once and by its shortest spelling.
ImagesInv ==
    /\ pulled \subseteq Refs
    /\ shelf = {Meaning(r) : r \in {s \in pulled : s.tail \in Tails}}

LEMMA ByIdPrefixPulled ==
    ASSUME NEW name
    PROVE  ByIdPrefix(name) \in pulled \cup {None}
<1> DEFINE hits == {r \in pulled : IsPrefix(DigitsOf(name), Id[r])}
<1>1. hits # {} => (CHOOSE r \in hits : TRUE) \in hits
  OBVIOUS
<1>2. (\E r \in hits : hits = {r}) => (CHOOSE r \in hits : TRUE) \in pulled
  BY <1>1
<1> QED BY <1>2 DEF ByIdPrefix

LEMMA RemovedPulled ==
    ASSUME NEW name
    PROVE  Removed(name) \subseteq pulled
<1>1. ByIdPrefix(Canonical(name)) \in pulled \cup {None}
  BY ByIdPrefixPulled
<1> QED BY <1>1 DEF Removed

LEMMA ImagesStep == ImagesInv /\ [Next]_imageVars => ImagesInv'
<1> SUFFICES ASSUME ImagesInv, [Next]_imageVars
             PROVE  ImagesInv'
  OBVIOUS
<1>1. CASE \E p \in Sent : Create(p)
  <2>1. PICK p \in Sent : Create(p)
    BY <1>1
  <2>2. pulled' = pulled \cup {RecordOf(p)} /\ RecordOf(p) \in Refs
    BY <2>1 DEF Create, Refs
  <2>3. shelf' = IF Proper(p) THEN shelf \cup {Asked(p)} ELSE shelf
    BY <2>1 DEF Create
  <2>4. shelf' = {Meaning(r) : r \in {s \in pulled' : s.tail \in Tails}}
    <3> HIDE DEF Meaning, RecordOf, Proper, Asked, Tails
    <3>1. CASE Proper(p)
      BY <2>2, <2>3, <3>1, RecordOfPull DEF ImagesInv
    <3>2. CASE ~Proper(p)
      <4>1. {s \in pulled' : s.tail \in Tails} = {s \in pulled : s.tail \in Tails}
        BY <2>2, <3>2, RecordOfPull
      <4> QED BY <2>3, <3>2, <4>1 DEF ImagesInv
    <3> QED BY <3>1, <3>2
  <2> QED BY <2>2, <2>4 DEF ImagesInv
<1>2. CASE \E n \in Lookups : Delete(n)
  <2>1. PICK n \in Lookups : Delete(n)
    BY <1>2
  <2>2. pulled' = pulled \ Removed(n) /\ shelf' = shelf \ {Meaning(r) : r \in Removed(n)}
    BY <2>1 DEF Delete
  <2>3. \A r \in pulled, s \in Removed(n) : Meaning(r) = Meaning(s) => r = s
    BY RemovedPulled, RefsAreKept, MeaningTellsApart DEF ImagesInv
  <2>4. shelf' = {Meaning(r) : r \in {s \in pulled' : s.tail \in Tails}}
    <3> HIDE DEF Meaning, Tails
    <3> QED BY <2>2, <2>3 DEF ImagesInv
  <2> QED BY <2>2, <2>4 DEF ImagesInv
<1>3. CASE UNCHANGED imageVars
  BY <1>3 DEF imageVars, ImagesInv
<1> QED BY <1>1, <1>2, <1>3 DEF Next

LEMMA ImagesAlways == Spec => []ImagesInv
<1>1. Init => ImagesInv
  BY DEF Init, ImagesInv
<1> QED BY <1>1, ImagesStep, PTL DEF Spec

-----------------------------------------------------------------------------
\* Every record has the reference a pull was recorded under and no prefix of the
\* hub that canonicalRef would still cut.
THEOREM ImagesTypeCorrect == Spec => []TypeOK
<1>1. ImagesInv => TypeOK
  <2> SUFFICES ASSUME ImagesInv
               PROVE  TypeOK
    OBVIOUS
  <2>1. \A r \in pulled : Canonical(r) = r
    <3> SUFFICES ASSUME NEW r \in pulled
                 PROVE  Canonical(r) = r
      OBVIOUS
    <3>1. Kept(r)
      BY RefsAreKept DEF ImagesInv
    <3>2. CanonicalPath(r.path) = r.path
      BY <3>1, PlainStays DEF Kept
    <3> QED BY <3>1, <3>2 DEF Canonical, Kept
  <2>2. ASSUME NEW r \in pulled, r.tail \in Tails
        PROVE  Meaning(r) \in [path : Seq(Segments), tail : Tails]
    <3>1. Kept(r)
      BY RefsAreKept DEF ImagesInv
    <3>2. Normal(r.path) \in Seq(Segments)
      <4>1. CASE r.path[1] \in Registries
        BY <3>1, <4>1, NormalOfRegistry DEF Plain, Kept
      <4>2. CASE r.path[1] \notin Registries
        BY <3>1, <4>2, NormalShape DEF Kept
      <4> QED BY <4>1, <4>2
    <3> QED BY <2>2, <3>1, <3>2 DEF Meaning, Kept
  <2>3. shelf \subseteq [path : Seq(Segments), tail : Tails]
    <3> HIDE DEF Meaning, Tails
    <3> QED BY <2>2 DEF ImagesInv
  <2> QED BY <2>1, <2>3 DEF TypeOK, ImagesInv
<1> QED BY <1>1, ImagesAlways, PTL

\* The record of a spelling is the one an inspect of it finds, unless it has no tag
\* and the port of a registry; without that record it is only read as digits.
LEMMA FindsRecord ==
    ASSUME ImagesInv, NEW n \in Spelled
    PROVE  /\ Meaning(n) \in shelf <=> RefOf(n) \in pulled
           /\ RefOf(n) \in pulled /\ ~(n.tail = <<>> /\ HasPort(n)) => Find(n) = RefOf(n)
           /\ Find(n) \in {RefOf(n), ByIdPrefix(Canonical(n))}
           /\ Find(n) = RefOf(n) => RefOf(n) \in pulled \/ Find(n) = ByIdPrefix(Canonical(n))
<1>1. Meaning(n) \in shelf <=> RefOf(n) \in pulled
  <2>1. \A r \in pulled : Kept(r)
    BY RefsAreKept DEF ImagesInv
  <2> HIDE DEF Meaning, RefOf, Tails
  <2> QED BY <2>1, RefOfSpelled, MeaningTellsApart DEF ImagesInv
<1>2. Canonical(n) = [path |-> CanonicalPath(n.path), tail |-> n.tail]
  BY SpelledIs DEF Canonical
<1>3. CASE n.tail # <<>>
  <2>1. RefOf(n) = Canonical(n)
    BY <1>2, <1>3 DEF RefOf
  <2>2. Marked(Canonical(n))
    BY <1>2, <1>3 DEF Marked
  <2> QED BY <1>1, <1>3, <2>1, <2>2 DEF Find
<1>4. CASE n.tail = <<>>
  <2>1. RefOf(n) = WithLatest(Canonical(n))
    BY <1>2, <1>4, Marks DEF RefOf, WithLatest, Followed
  <2>2. Canonical(n) \notin pulled
    <3>1. ~Kept(Canonical(n))
      BY <1>2, <1>4 DEF Kept
    <3> QED BY <3>1, RefsAreKept DEF ImagesInv
  <2>3. HasPort(Canonical(n)) => HasPort(n)
    BY <1>2, SpelledIs, CanonicalIsPlain DEF HasPort, ToSet
  <2>4. Marked(Canonical(n)) => HasPort(n)
    BY <1>2, <1>4, <2>3 DEF Marked
  <2> QED BY <1>1, <1>4, <2>1, <2>2, <2>4 DEF Find
<1> QED BY <1>3, <1>4

\* An image is found by every spelling of it from its pull to its removal, a name
\* without a tag at a registry with a port excepted, and a name that is no ID
\* prefix finds nothing else.
THEOREM EverySpellingFinds == Spec => []FoundAsPulled
<1>1. ImagesInv => FoundAsPulled
  <2> SUFFICES ASSUME ImagesInv, NEW n \in Spelled
               PROVE  /\ Meaning(n) \in shelf /\ ~(n.tail = <<>> /\ HasPort(n)) =>
                            Find(n) # None /\ Meaning(Find(n)) = Meaning(n)
                      /\ Find(n) # None /\ DigitsOf(Canonical(n)) = <<>> => Meaning(n) \in shelf
    BY DEF FoundAsPulled
  <2>1. RefOf(n) \in pulled => RefOf(n) # None
    BY IdsAreUnique DEF ImagesInv
  <2>2. Meaning(RefOf(n)) = Meaning(n)
    BY RefOfSpelled
  <2>3. DigitsOf(Canonical(n)) = <<>> => ByIdPrefix(Canonical(n)) = None
    BY IdsAreUnique DEF ByIdPrefix
  <2> QED BY <2>1, <2>2, <2>3, FindsRecord
<1> QED BY <1>1, ImagesAlways, PTL

\* What a DELETE takes is what an inspect of the same name shows.
THEOREM DeletesWhatItShows == Spec => []RemovesWhatItShows
<1>1. ImagesInv => RemovesWhatItShows
  <2> SUFFICES ASSUME ImagesInv, NEW n \in Lookups
               PROVE  Removed(n) = {Find(n)} \ {None}
    BY DEF RemovesWhatItShows
  <2>1. None \notin pulled
    BY IdsAreUnique DEF ImagesInv
  <2> DEFINE ref == Canonical(n)
  <2> HIDE DEF ref
  <2>2. Find(n) = IF ref \in pulled THEN ref
                  ELSE IF ~Marked(ref) /\ WithLatest(ref) \in pulled THEN WithLatest(ref)
                  ELSE ByIdPrefix(ref)
    BY DEF Find, ref
  <2>3. CASE ref \in pulled
    <3>1. Removed(n) = {ref}
      BY <2>3 DEF Removed, ref
    <3> QED BY <2>1, <2>2, <2>3, <3>1
  <2>4. CASE ref \notin pulled /\ ~Marked(ref) /\ WithLatest(ref) \in pulled
    <3>1. Removed(n) = {WithLatest(ref)}
      BY <2>4 DEF Removed, ref
    <3> QED BY <2>1, <2>2, <2>4, <3>1
  <2>5. CASE ref \notin pulled /\ ~(~Marked(ref) /\ WithLatest(ref) \in pulled)
    <3>1. Removed(n) = {ByIdPrefix(ref)} \ {None}
      BY <2>5 DEF Removed, ref
    <3> QED BY <2>2, <2>5, <3>1
  <2> QED BY <2>3, <2>4, <2>5
<1> QED BY <1>1, ImagesAlways, PTL
=============================================================================

--------------------------- MODULE PodSpecsProofs ---------------------------
(***************************************************************************)
(* Theorems of PodSpecs and PodNames.                                      *)
(*                                                                         *)
(* The library states induction for an operator P(_).  Here it is the set  *)
(* of the numbers with the property that is shown to be all of Nat; the    *)
(* values of the folds follow, once a function that satisfies the equation *)
(* of the fold is known to exist.                                          *)
(***************************************************************************)
EXTENDS PodSpecs, SequenceTheorems, FunctionTheorems, FiniteSetTheorems,
        WellFoundedInduction, TLAPS

-----------------------------------------------------------------------------
(***************************************************************************)
(* Numbers, finite sets and folds.                                         *)
(***************************************************************************)
LEMMA LeastNumber ==
    ASSUME NEW T \in SUBSET Nat, T # {}
    PROVE  \E m \in T : \A k \in T : m <= k
<1> DEFINE upto == {0 .. k : k \in T}
<1>1. IsWellFoundedOn(StrictSubsetOrdering(Nat), FiniteSubsetsOf(Nat))
  BY FS_StrictSubsetOrderingWellFounded
<1>2. upto \subseteq FiniteSubsetsOf(Nat)
  <2>1. \A k \in T : IsFiniteSet(0 .. k) /\ 0 .. k \in SUBSET Nat
    BY FS_Interval
  <2> QED BY <2>1 DEF FiniteSubsetsOf
<1>3. upto # {}
  OBVIOUS
<1>4. PICK s \in upto : \A t \in upto : <<t, s>> \notin StrictSubsetOrdering(Nat)
  <2> HIDE DEF upto
  <2> QED BY <1>1, <1>2, <1>3, WFMin
<1>5. PICK m \in T : s = 0 .. m
  OBVIOUS
<1>6. \A k \in T : m <= k
  <2> SUFFICES ASSUME NEW k \in T, k < m
               PROVE  FALSE
    OBVIOUS
  <2>1. (0 .. k) \in upto /\ <<0 .. k, s>> \in StrictSubsetOrdering(Nat)
    BY <1>5 DEF StrictSubsetOrdering
  <2> QED BY <2>1, <1>4
<1> QED BY <1>6

LEMMA InductionOnNat ==
    ASSUME NEW T \in SUBSET Nat, 0 \in T, \A n \in T : n + 1 \in T
    PROVE  \A n \in Nat : n \in T
<1> SUFFICES ASSUME NEW n \in Nat, n \notin T
             PROVE  FALSE
  OBVIOUS
<1>1. PICK m \in Nat \ T : \A k \in Nat \ T : m <= k
  BY LeastNumber
<1>2. m - 1 \in Nat /\ m - 1 \in T
  BY <1>1
<1> QED BY <1>1, <1>2

\* Min and Max are CHOOSE expressions: what they choose exists in a finite set.
LEMMA MinOf ==
    ASSUME NEW S \in SUBSET Nat, S # {}
    PROVE  Min(S) \in S /\ \A y \in S : Min(S) <= y
<1>1. \E x \in S : \A y \in S : x =< y
  BY LeastNumber
<1> QED BY <1>1 DEF Min

LEMMA MaxOf ==
    ASSUME NEW n \in Nat, NEW S \in SUBSET (0 .. n), S # {}
    PROVE  Max(S) \in S /\ \A y \in S : Max(S) >= y
<1> DEFINE above == {n - x : x \in S}
<1>1. above \in SUBSET Nat /\ above # {}
  <2>1. \A x \in S : x \in 0 .. n /\ n - x \in Nat
    OBVIOUS
  <2> QED BY <2>1
<1>2. PICK m \in above : \A k \in above : m <= k
  BY <1>1, LeastNumber
<1>3. PICK x \in S : m = n - x
  BY <1>2
<1>4. \A y \in S : x >= y
  <2> SUFFICES ASSUME NEW y \in S
               PROVE  x >= y
    OBVIOUS
  <2>1. n - y \in above /\ x \in Int /\ y \in Int
    BY <1>3
  <2> HIDE DEF above
  <2>2. n - x <= n - y
    BY <1>2, <1>3, <2>1
  <2> QED BY <2>1, <2>2
<1> QED BY <1>4 DEF Max

LEMMA MaxIs ==
    ASSUME NEW n \in Nat, NEW S \in SUBSET (0 .. n), NEW i \in S, \A j \in S : i >= j
    PROVE  Max(S) = i
<1>1. Max(S) \in S /\ Max(S) >= i
  BY MaxOf
<1>2. \A x \in S : x \in Int
  OBVIOUS
<1>3. i >= Max(S) /\ i \in Int /\ Max(S) \in Int
  <2> HIDE DEF Max
  <2> QED BY <1>1, <1>2
<1> QED BY <1>1, <1>3

LEMMA MinIs ==
    ASSUME NEW S \in SUBSET Nat, NEW i \in S, \A j \in S : i <= j
    PROVE  Min(S) = i
<1>1. Min(S) \in S /\ Min(S) <= i
  BY MinOf
<1>2. \A x \in S : x \in Int
  OBVIOUS
<1>3. i <= Min(S) /\ i \in Int /\ Min(S) \in Int
  BY <1>1, <1>2
<1> QED BY <1>1, <1>3

LEMMA LastOfInterval ==
    ASSUME NEW m \in Nat \ {0}
    PROVE  Max(1 .. m) = m /\ (1 .. m) \ {m} = 1 .. m - 1 /\ m \in 1 .. m
<1>1. 1 .. m \in SUBSET (0 .. m) /\ m \in 1 .. m /\ \A j \in 1 .. m : m >= j
  OBVIOUS
<1>2. Max(1 .. m) = m
  <2> HIDE DEF Max
  <2> QED BY <1>1, MaxIs
<1> QED BY <1>2

\* A fold over the subsets of a finite set is defined: op is applied to the value of
\* the subset without an element and to that element, which pick chooses.
Foldable(D, pick, B, base, op) ==
    /\ IsFiniteSet(D) /\ base \in B /\ op \in [B \X D -> B]
    /\ \A S \in SUBSET D : S # {} => pick[S] \in S

IsFold(g, D, pick, B, base, op) ==
    /\ g \in [SUBSET D -> B]
    /\ \A S \in SUBSET D :
          g[S] = IF S = {} THEN base ELSE op[<<g[S \ {pick[S]}], pick[S]>>]

LEMMA FoldExists ==
    ASSUME NEW D, NEW pick, NEW B, NEW base, NEW op, Foldable(D, pick, B, base, op)
    PROVE  \E g : IsFold(g, D, pick, B, base, op)
<1> USE DEF Foldable, IsFold
<1> DEFINE Small(k) == {S \in SUBSET D : Cardinality(S) <= k}
           Folds(g, k) == \A S \in Small(k) :
               g[S] = IF S = {} THEN base ELSE op[<<g[S \ {pick[S]}], pick[S]>>]
           T == {k \in Nat : \E g \in [Small(k) -> B] : Folds(g, k)}
<1>1. \A S \in SUBSET D : IsFiniteSet(S) /\ Cardinality(S) \in Nat /\ (Cardinality(S) = 0 <=> S = {})
  BY FS_Subset, FS_CardinalityType, FS_EmptySet
<1>2. 0 \in T
  <2>1. Small(0) = {{}}
    BY <1>1, FS_EmptySet
  <2> DEFINE g == [S \in Small(0) |-> base]
  <2>2. g \in [Small(0) -> B] /\ Folds(g, 0)
    BY <2>1
  <2> QED BY <2>2
<1>3. ASSUME NEW k \in T
      PROVE  k + 1 \in T
  <2>1. PICK g \in [Small(k) -> B] : Folds(g, k)
    BY <1>3
  <2> DEFINE h == [S \in Small(k + 1) |->
                     IF S \in Small(k) THEN g[S] ELSE op[<<g[S \ {pick[S]}], pick[S]>>]]
  <2>2. ASSUME NEW S \in Small(k + 1), S # {}
        PROVE  S \ {pick[S]} \in Small(k) /\ pick[S] \in D
               /\ (S \in Small(k) => S \ {pick[S]} \in Small(k))
    <3>1. S \in SUBSET D /\ pick[S] \in S /\ Cardinality(S) \in Nat /\ Cardinality(S) <= k + 1
      BY <1>1, <2>2
    <3>2. Cardinality(S \ {pick[S]}) = Cardinality(S) - 1
      BY <1>1, <3>1, FS_RemoveElement
    <3> QED BY <3>1, <3>2
  <2>3. \A S \in Small(k + 1) : h[S] \in B
    <3> SUFFICES ASSUME NEW S \in Small(k + 1)
                 PROVE  h[S] \in B
      OBVIOUS
    <3>1. CASE S \in Small(k)
      BY <3>1
    <3>2. CASE S \notin Small(k)
      <4>1. S # {}
        BY <1>1, <3>2, <1>3, FS_EmptySet
      <4>2. <<g[S \ {pick[S]}], pick[S]>> \in B \X D
        BY <2>2, <4>1
      <4> QED BY <3>2, <4>2
    <3> QED BY <3>1, <3>2
  <2>4. Folds(h, k + 1)
    <3> SUFFICES ASSUME NEW S \in Small(k + 1)
                 PROVE  h[S] = IF S = {} THEN base ELSE op[<<h[S \ {pick[S]}], pick[S]>>]
      OBVIOUS
    <3>1. {} \in Small(k)
      BY <1>3, FS_EmptySet
    <3>2. CASE S = {}
      BY <2>1, <3>1, <3>2
    <3>3. CASE S # {}
      <4>1. S \ {pick[S]} \in Small(k) /\ S \ {pick[S]} \in Small(k + 1)
        <5>1. S \ {pick[S]} \in Small(k)
          BY <2>2, <3>3
        <5>2. \A U \in Small(k) : U \in Small(k + 1)
          BY <1>1, <1>3
        <5> QED BY <5>1, <5>2
      <4>2. h[S \ {pick[S]}] = g[S \ {pick[S]}]
        BY <4>1
      <4> QED BY <2>1, <3>3, <4>2
    <3> QED BY <3>2, <3>3
  <2>5. h \in [Small(k + 1) -> B]
    BY <2>3
  <2>6. \E f \in [Small(k + 1) -> B] : Folds(f, k + 1)
    <3> HIDE DEF h, Folds, Small
    <3> QED BY <2>4, <2>5
  <2> HIDE DEF h, Folds, Small
  <2>7. k + 1 \in Nat
    BY <1>3
  <2> QED BY <2>6, <2>7
<1>4. Cardinality(D) \in T
  <2> HIDE DEF T
  <2>1. T \in SUBSET Nat
    BY DEF T
  <2> QED BY <1>1, <1>2, <1>3, <2>1, InductionOnNat
<1>5. Small(Cardinality(D)) = SUBSET D
  BY FS_Subset
<1> QED BY <1>4, <1>5

-----------------------------------------------------------------------------
(***************************************************************************)
(* Dashed, one character after the other.                                  *)
(***************************************************************************)
NameChars == Kept \cup {Dash}
FitChar(ch) == IF Lower[ch] \in Kept THEN Lower[ch] ELSE Dash
NoDoubleDash(s) == \A i \in 1 .. Len(s) - 1 : s[i] # Dash \/ s[i + 1] # Dash
Clean(s) == s \in Seq(NameChars) /\ NoDoubleDash(s)

\* The step of Dashed's fold.
Joined(out, ch) == IF ch = Dash /\ IsSuffix(<<Dash>>, out) THEN out ELSE Append(out, ch)

LEMMA EndsInDash ==
    ASSUME NEW out \in Seq(NameChars)
    PROVE  IsSuffix(<<Dash>>, out) <=> out # <<>> /\ out[Len(out)] = Dash
<1> DEFINE d == <<Dash>>
           back == Reverse(out)
<1>1. d \in Seq(NameChars) /\ Len(d) = 1 /\ d[1] = Dash /\ Reverse(d) = d
  <2>1. d \in Seq(NameChars) /\ Len(d) = 1 /\ d[1] = Dash
    BY DEF NameChars
  <2>2. Reverse(d) \in Seq(NameChars) /\ Len(Reverse(d)) = 1 /\ Reverse(d)[1] = Dash
    BY <2>1 DEF Reverse
  <2>3. \A i \in 1 .. 1 : Reverse(d)[i] = d[i]
    BY <2>1, <2>2
  <2> QED BY <2>1, <2>2, <2>3, SeqEqual
<1>2. Len(out) \in Nat /\ DOMAIN out = 1 .. Len(out)
  BY LenProperties
<1>3. /\ back \in Seq(NameChars) /\ Len(back) = Len(out)
      /\ out # <<>> => back[1] = out[Len(out)]
  BY <1>2 DEF Reverse
<1> HIDE DEF d, back
<1>4. SubSeq(d, 1, 1) = d
  BY <1>1, SubSeqFull
<1>5. CASE out = <<>>
  BY <1>1, <1>2, <1>3, <1>5 DEF IsSuffix, IsPrefix, d, back
<1>6. CASE out # <<>>
  <2>1. /\ SubSeq(back, 1, 1) \in Seq(NameChars) /\ Len(SubSeq(back, 1, 1)) = 1
        /\ SubSeq(back, 1, 1)[1] = back[1]
    BY <1>2, <1>3, <1>6, EmptySeq, ElementOfSeq
  <2>2. \A i \in 1 .. 1 : i = 1
    OBVIOUS
  <2>3. SubSeq(back, 1, 1) = d <=> back[1] = Dash
    BY <1>1, <2>1, <2>2, SeqEqual
  <2>4. IsSuffix(d, out) <=> Len(d) <= Len(back) /\ SubSeq(d, 1, Len(d)) = SubSeq(back, 1, Len(d))
    BY <1>1 DEF IsSuffix, IsPrefix, back
  <2>5. Len(out) >= 1
    BY <1>2, <1>6, EmptySeq
  <2> QED BY <1>1, <1>3, <1>4, <1>6, <2>3, <2>4, <2>5 DEF d
<1> QED BY <1>5, <1>6

LEMMA FitCharIs ==
    /\ \A ch : FitChar(ch) \in NameChars
    /\ \A ch \in NameChars : FitChar(ch) = ch /\ ch \in DOMAIN Lower
  BY Characters DEF FitChar, NameChars

LEMMA JoinedIsFit ==
    ASSUME NEW out \in Seq(NameChars), NEW ch \in NameChars
    PROVE  Joined(out, ch) \in Seq(NameChars)
  BY AppendProperties DEF Joined

\* The fold of Dashed, over its characters.
Dashes(all) ==
    FoldLeft(LAMBDA out, ch : IF ch = Dash /\ IsSuffix(<<Dash>>, out) THEN out ELSE Append(out, ch),
             <<>>, all)

LEMMA DashedFolds ==
    ASSUME NEW s
    PROVE  Dashed(s) = Dashes([i \in DOMAIN s |-> FitChar(s[i])])
  BY Zenon DEF Dashes, Dashed, FitChar

LEMMA DashesUnfold ==
    ASSUME NEW all, NEW g,
           g = [S \in SUBSET DOMAIN all |->
                   IF S = {} THEN <<>> ELSE Joined(g[S \ {Max(S)}], all[Max(S)])]
    PROVE  \E f : /\ f = [S \in SUBSET DOMAIN all |->
                            IF S = {} THEN <<>> ELSE Joined(f[S \ {Max(S)}], all[Max(S)])]
                  /\ Dashes(all) = f[DOMAIN all]
  BY Zenon DEF Dashes, FoldLeft, MapThenFoldSet, Joined

\* Dashed(s) is the last of the texts joined for the prefixes of s.
LEMMA DashedSteps ==
    ASSUME NEW s \in Seq(DOMAIN Lower)
    PROVE  \E h : /\ h[0] = <<>> /\ Dashed(s) = h[Len(s)]
                  /\ \A m \in 0 .. Len(s) : h[m] \in Seq(NameChars)
                  /\ \A m \in 1 .. Len(s) : h[m] = Joined(h[m - 1], FitChar(s[m]))
<1> DEFINE all == [i \in DOMAIN s |-> FitChar(s[i])]
           pick == [S \in SUBSET DOMAIN s |-> Max(S)]
           op == [x \in Seq(NameChars) \X DOMAIN s |-> Joined(x[1], all[x[2]])]
<1>1. Len(s) \in Nat /\ DOMAIN s = 1 .. Len(s) /\ IsFiniteSet(DOMAIN s)
  BY LenProperties, FS_Interval
<1>2. \A S \in SUBSET DOMAIN s : S # {} => pick[S] \in S
  <2> SUFFICES ASSUME NEW S \in SUBSET DOMAIN s, S # {}
               PROVE  Max(S) \in S
    OBVIOUS
  <2>1. S \in SUBSET (0 .. Len(s))
    BY <1>1
  <2> QED BY <1>1, <2>1, MaxOf
<1>3. op \in [Seq(NameChars) \X DOMAIN s -> Seq(NameChars)]
  BY JoinedIsFit, FitCharIs
<1>4. <<>> \in Seq(NameChars)
  OBVIOUS
<1>5. PICK g : IsFold(g, DOMAIN s, pick, Seq(NameChars), <<>>, op)
  <2>1. Foldable(DOMAIN s, pick, Seq(NameChars), <<>>, op)
    <3> HIDE DEF op, pick
    <3> QED BY <1>1, <1>2, <1>3, <1>4 DEF Foldable
  <2> QED BY <2>1, FoldExists
<1>6. g = [S \in SUBSET DOMAIN all |->
              IF S = {} THEN <<>> ELSE Joined(g[S \ {Max(S)}], all[Max(S)])]
  <2>1. \A S \in SUBSET DOMAIN s :
            S # {} => op[<<g[S \ {pick[S]}], pick[S]>>] = Joined(g[S \ {Max(S)}], all[Max(S)])
    BY <1>2, <1>5 DEF IsFold
  <2>2. DOMAIN all = DOMAIN s
    OBVIOUS
  <2> HIDE DEF op, pick, all
  <2>3. \A S \in SUBSET DOMAIN all :
            g[S] = IF S = {} THEN <<>> ELSE Joined(g[S \ {Max(S)}], all[Max(S)])
    BY <1>5, <2>1, <2>2 DEF IsFold
  <2> QED BY <1>5, <2>2, <2>3 DEF IsFold
<1>7. PICK f : /\ f = [S \in SUBSET DOMAIN all |->
                         IF S = {} THEN <<>> ELSE Joined(f[S \ {Max(S)}], all[Max(S)])]
               /\ Dashed(s) = f[DOMAIN all]
  <2>1. Dashed(s) = Dashes(all)
    BY DashedFolds
  <2> HIDE DEF all
  <2> QED BY <1>6, <2>1, DashesUnfold
<1> DEFINE h == [m \in 0 .. Len(s) |-> f[1 .. m]]
<1>8. DOMAIN all = DOMAIN s /\ \A m \in 1 .. Len(s) : all[m] = FitChar(s[m])
  BY <1>1
<1> HIDE DEF all
<1>9. \A m \in 0 .. Len(s) : h[m] = f[1 .. m]
  OBVIOUS
<1>10. h[0] = <<>> /\ Dashed(s) = h[Len(s)]
  <2>1. 1 .. 0 = {} /\ {} \in SUBSET DOMAIN s
    OBVIOUS
  <2>2. f[{}] = <<>>
    BY <1>7, <1>8, <2>1
  <2> QED BY <1>1, <1>7, <1>8, <2>1, <2>2
<1>11. \A m \in 1 .. Len(s) : h[m] = Joined(h[m - 1], FitChar(s[m]))
  <2> SUFFICES ASSUME NEW m \in 1 .. Len(s)
               PROVE  h[m] = Joined(h[m - 1], FitChar(s[m]))
    OBVIOUS
  <2>1. m \in Nat \ {0} /\ 1 .. m \in SUBSET DOMAIN s /\ 1 .. m # {}
    <3>1. \A i \in 1 .. m : i \in DOMAIN s
      BY <1>1
    <3>2. m \in Nat \ {0} /\ m \in 1 .. m
      BY <1>1
    <3> QED BY <3>1, <3>2
  <2>2. Max(1 .. m) = m /\ (1 .. m) \ {m} = 1 .. m - 1
    BY <2>1, LastOfInterval
  <2>3. f[1 .. m] = Joined(f[1 .. m - 1], all[m])
    <3>1. f[1 .. m] = Joined(f[(1 .. m) \ {Max(1 .. m)}], all[Max(1 .. m)])
      BY <1>7, <1>8, <2>1
    <3> QED BY <2>1, <2>2, <3>1
  <2>4. m - 1 \in 0 .. Len(s) /\ m \in 0 .. Len(s)
    BY <1>1
  <2> HIDE DEF h
  <2> QED BY <1>8, <1>9, <2>3, <2>4
<1> HIDE DEF h
<1>12. \A m \in 0 .. Len(s) : h[m] \in Seq(NameChars)
  <2> DEFINE T == {m \in Nat : m <= Len(s) => h[m] \in Seq(NameChars)}
  <2>1. 0 \in T
    BY <1>4, <1>10
  <2>2. ASSUME NEW m \in T
        PROVE  m + 1 \in T
    <3> SUFFICES ASSUME m + 1 <= Len(s)
                 PROVE  h[m + 1] \in Seq(NameChars)
      OBVIOUS
    <3>1. m + 1 \in 1 .. Len(s) /\ (m + 1) - 1 = m /\ h[m] \in Seq(NameChars)
      BY <1>1
    <3>2. h[m + 1] = Joined(h[m], FitChar(s[m + 1]))
      BY <1>11, <3>1
    <3> QED BY <3>1, <3>2, JoinedIsFit, FitCharIs
  <2>3. T \in SUBSET Nat
    OBVIOUS
  <2>4. \A m \in Nat : m \in T
    <3> HIDE DEF T
    <3> QED BY <2>1, <2>2, <2>3, InductionOnNat
  <2> QED BY <1>1, <2>4
<1> QED BY <1>10, <1>11, <1>12

\* Dashed leaves only characters that fit, never two dashes in a row.
LEMMA DashedIsClean ==
    ASSUME NEW s \in Seq(DOMAIN Lower)
    PROVE  Clean(Dashed(s))
<1>1. PICK h : /\ h[0] = <<>> /\ Dashed(s) = h[Len(s)]
               /\ \A m \in 0 .. Len(s) : h[m] \in Seq(NameChars)
               /\ \A m \in 1 .. Len(s) : h[m] = Joined(h[m - 1], FitChar(s[m]))
  BY DashedSteps
<1>2. Len(s) \in Nat
  BY LenProperties
<1> DEFINE T == {m \in Nat : m <= Len(s) => NoDoubleDash(h[m])}
<1>3. 0 \in T
  BY <1>1 DEF NoDoubleDash
<1>4. ASSUME NEW m \in T
      PROVE  m + 1 \in T
  <2> SUFFICES ASSUME m + 1 <= Len(s)
               PROVE  NoDoubleDash(h[m + 1])
    OBVIOUS
  <2> DEFINE out == h[m]
             ch == FitChar(s[m + 1])
  <2>1. /\ out \in Seq(NameChars) /\ NoDoubleDash(out) /\ h[m + 1] = Joined(out, ch) /\ ch \in NameChars
        /\ Len(out) \in Nat
    <3>1. m + 1 \in 1 .. Len(s) /\ m \in 0 .. Len(s) /\ (m + 1) - 1 = m
      BY <1>2
    <3> QED BY <1>1, <3>1, FitCharIs, LenProperties
  <2> HIDE DEF out, ch
  <2>2. CASE ch = Dash /\ IsSuffix(<<Dash>>, out)
    BY <2>1, <2>2 DEF Joined
  <2>3. CASE ~(ch = Dash /\ IsSuffix(<<Dash>>, out))
    <3>1. h[m + 1] = Append(out, ch)
      BY <2>1, <2>3 DEF Joined
    <3>2. ch # Dash \/ out = <<>> \/ out[Len(out)] # Dash
      BY <2>1, <2>3, EndsInDash
    <3>3. /\ Len(Append(out, ch)) = Len(out) + 1 /\ Append(out, ch)[Len(out) + 1] = ch
          /\ \A i \in 1 .. Len(out) : Append(out, ch)[i] = out[i]
      BY <2>1, AppendProperties
    <3>4. ASSUME NEW i \in 1 .. Len(out)
          PROVE  Append(out, ch)[i] # Dash \/ Append(out, ch)[i + 1] # Dash
      <4>1. CASE i = Len(out)
        BY <2>1, <3>2, <3>3, <4>1, EmptySeq
      <4>2. CASE i \in 1 .. Len(out) - 1
        BY <2>1, <3>3, <4>2 DEF NoDoubleDash
      <4> QED BY <2>1, <4>1, <4>2
    <3> QED BY <2>1, <3>1, <3>3, <3>4 DEF NoDoubleDash
  <2> QED BY <2>2, <2>3
<1>5. \A m \in Nat : m \in T
  <2>1. T \in SUBSET Nat
    OBVIOUS
  <2> HIDE DEF T
  <2> QED BY <1>3, <1>4, <2>1, InductionOnNat
<1>6. NoDoubleDash(Dashed(s))
  BY <1>1, <1>2, <1>5
<1> QED BY <1>1, <1>2, <1>6 DEF Clean

\* A clean text is left as it is.
LEMMA DashedOfClean ==
    ASSUME NEW s, Clean(s)
    PROVE  Dashed(s) = s
<1>1. s \in Seq(NameChars) /\ s \in Seq(DOMAIN Lower) /\ Len(s) \in Nat
  BY FitCharIs, SeqMonotonic, LenProperties DEF Clean
<1>2. PICK h : /\ h[0] = <<>> /\ Dashed(s) = h[Len(s)]
               /\ \A m \in 0 .. Len(s) : h[m] \in Seq(NameChars)
               /\ \A m \in 1 .. Len(s) : h[m] = Joined(h[m - 1], FitChar(s[m]))
  BY <1>1, DashedSteps
<1> DEFINE Same(m) == Len(h[m]) = m /\ \A i \in 1 .. m : h[m][i] = s[i]
           T == {m \in Nat : m <= Len(s) => Same(m)}
<1>3. 0 \in T
  BY <1>2
<1>4. ASSUME NEW m \in T
      PROVE  m + 1 \in T
  <2> SUFFICES ASSUME m + 1 <= Len(s)
               PROVE  Same(m + 1)
    OBVIOUS
  <2>1. m + 1 \in 1 .. Len(s) /\ m \in 0 .. Len(s) /\ (m + 1) - 1 = m /\ Same(m) /\ m \in Nat
    BY <1>1
  <2> DEFINE out == h[m]
             ch == s[m + 1]
  <2>2. /\ out \in Seq(NameChars) /\ h[m + 1] = Joined(out, ch) /\ ch \in NameChars
        /\ Len(out) = m /\ \A i \in 1 .. m : out[i] = s[i]
    <3>1. s[m + 1] \in NameChars
      BY <1>1, <2>1, ElementOfSeq
    <3> QED BY <1>2, <2>1, <3>1, FitCharIs
  <2> HIDE DEF out, ch
  <2>3. ~(ch = Dash /\ IsSuffix(<<Dash>>, out))
    <3> SUFFICES ASSUME ch = Dash, out # <<>> /\ out[Len(out)] = Dash
                 PROVE  FALSE
      BY <2>2, EndsInDash
    <3>1. m # 0
      BY <2>2, EmptySeq
    <3>2. m \in 1 .. Len(s) - 1 /\ s[m] = Dash /\ s[m + 1] = Dash
      BY <1>1, <2>1, <2>2, <3>1 DEF ch
    <3> QED BY <3>2 DEF Clean, NoDoubleDash
  <2>4. h[m + 1] = Append(out, ch)
    BY <2>2, <2>3 DEF Joined
  <2>5. /\ Len(Append(out, ch)) = Len(out) + 1 /\ Append(out, ch)[Len(out) + 1] = ch
        /\ \A i \in 1 .. Len(out) : Append(out, ch)[i] = out[i]
    BY <2>2, AppendProperties
  <2>6. ASSUME NEW i \in 1 .. m + 1
        PROVE  h[m + 1][i] = s[i]
    <3>1. i = m + 1 \/ i \in 1 .. m
      BY <2>1
    <3> QED BY <2>2, <2>4, <2>5, <3>1 DEF ch
  <2> QED BY <2>2, <2>4, <2>5, <2>6
<1>5. \A m \in Nat : m \in T
  <2>1. T \in SUBSET Nat
    OBVIOUS
  <2> HIDE DEF T
  <2> QED BY <1>3, <1>4, <2>1, InductionOnNat
<1>6. Same(Len(s)) /\ h[Len(s)] \in Seq(NameChars)
  BY <1>1, <1>2, <1>5
<1> QED BY <1>1, <1>2, <1>6, SeqEqual

\* A text that begins with a character that is kept keeps it.
LEMMA DashedKeepsFirst ==
    ASSUME NEW s \in Seq(DOMAIN Lower), s # <<>>, s[1] \in Kept
    PROVE  Dashed(s) # <<>> /\ Dashed(s)[1] = s[1]
<1>1. PICK h : /\ h[0] = <<>> /\ Dashed(s) = h[Len(s)]
               /\ \A m \in 0 .. Len(s) : h[m] \in Seq(NameChars)
               /\ \A m \in 1 .. Len(s) : h[m] = Joined(h[m - 1], FitChar(s[m]))
  BY DashedSteps
<1>2. Len(s) \in Nat \ {0}
  BY EmptySeq
<1>3. FitChar(s[1]) = s[1] /\ s[1] # Dash /\ s[1] \in NameChars
  BY Characters DEF FitChar, NameChars
<1> DEFINE First(m) == h[m] # <<>> /\ h[m][1] = s[1]
           T == {m \in Nat : m + 1 <= Len(s) => First(m + 1)}
<1>4. 0 \in T
  <2>1. h[1] = Joined(h[1 - 1], s[1])
    BY <1>1, <1>2, <1>3
  <2>2. h[1] = Append(<<>>, s[1])
    BY <1>1, <1>3, <2>1 DEF Joined
  <2> QED BY <1>3, <2>2
<1>5. ASSUME NEW m \in T
      PROVE  m + 1 \in T
  <2> SUFFICES ASSUME (m + 1) + 1 <= Len(s)
               PROVE  First((m + 1) + 1)
    OBVIOUS
  <2> DEFINE out == h[m + 1]
             ch == FitChar(s[(m + 1) + 1])
  <2>1. /\ out \in Seq(NameChars) /\ First(m + 1) /\ h[(m + 1) + 1] = Joined(out, ch) /\ ch \in NameChars
    <3>1. (m + 1) + 1 \in 1 .. Len(s) /\ m + 1 \in 0 .. Len(s) /\ ((m + 1) + 1) - 1 = m + 1
      BY <1>2
    <3> QED BY <1>1, <1>2, <3>1, FitCharIs
  <2>2. out # <<>> /\ out[1] = s[1] /\ Len(out) \in Nat \ {0}
    BY <2>1, EmptySeq
  <2> HIDE DEF out, ch
  <2>3. Append(out, ch) # <<>> /\ Append(out, ch)[1] = s[1]
    BY <2>1, <2>2, AppendProperties
  <2> QED BY <2>1, <2>2, <2>3 DEF Joined
<1>6. \A m \in Nat : m \in T
  <2>1. T \in SUBSET Nat
    OBVIOUS
  <2> HIDE DEF T
  <2> QED BY <1>4, <1>5, <2>1, InductionOnNat
<1>7. Len(s) - 1 \in T /\ (Len(s) - 1) + 1 = Len(s)
  <2>1. Len(s) - 1 \in Nat /\ (Len(s) - 1) + 1 = Len(s)
    BY <1>2
  <2> HIDE DEF T
  <2> QED BY <1>6, <2>1
<1> QED BY <1>1, <1>2, <1>7

-----------------------------------------------------------------------------
(***************************************************************************)
(* Cutting and trimming.                                                   *)
(***************************************************************************)
LEMMA Piece ==
    ASSUME NEW S, NEW s \in Seq(S), NEW a \in 1 .. Len(s) + 1, NEW b \in a - 1 .. Len(s)
    PROVE  /\ SubSeq(s, a, b) \in Seq(S) /\ Len(SubSeq(s, a, b)) = b - a + 1
           /\ \A i \in 1 .. b - a + 1 : SubSeq(s, a, b)[i] = s[a + i - 1]
<1>1. Len(s) \in Nat
  BY LenProperties
<1>2. a \in Int /\ b \in Int /\ b - a + 1 \in Nat /\ \A i \in a .. b : i \in 1 .. Len(s)
  BY <1>1
<1>3. \A i \in a .. b : s[i] \in S
  BY <1>2, ElementOfSeq
<1>4. /\ SubSeq(s, a, b) \in Seq(S)
      /\ Len(SubSeq(s, a, b)) = IF a <= b THEN b - a + 1 ELSE 0
      /\ \A i \in 1 .. b - a + 1 : SubSeq(s, a, b)[i] = s[a + i - 1]
  BY <1>2, <1>3, SubSeqProperties
<1> QED BY <1>1, <1>2, <1>4

LEMMA PieceOfClean ==
    ASSUME NEW s, Clean(s), NEW a \in 1 .. Len(s) + 1, NEW b \in a - 1 .. Len(s)
    PROVE  Clean(SubSeq(s, a, b))
<1>1. /\ SubSeq(s, a, b) \in Seq(NameChars) /\ Len(SubSeq(s, a, b)) = b - a + 1
      /\ \A i \in 1 .. b - a + 1 : SubSeq(s, a, b)[i] = s[a + i - 1]
  BY Piece DEF Clean
<1>2. Len(s) \in Nat
  BY LenProperties DEF Clean
<1> DEFINE p == SubSeq(s, a, b)
<1> HIDE DEF p
<1>3. ASSUME NEW i \in 1 .. Len(p) - 1
      PROVE  p[i] # Dash \/ p[i + 1] # Dash
  <2>1. /\ i \in 1 .. b - a + 1 /\ i + 1 \in 1 .. b - a + 1
        /\ a + i - 1 \in 1 .. Len(s) - 1 /\ a + (i + 1) - 1 = (a + i - 1) + 1
    BY <1>1, <1>2 DEF p
  <2>2. p[i] = s[a + i - 1] /\ p[i + 1] = s[(a + i - 1) + 1]
    BY <1>1, <2>1 DEF p
  <2> QED BY <2>1, <2>2 DEF Clean, NoDoubleDash
<1> QED BY <1>1, <1>3 DEF Clean, NoDoubleDash, p

LEMMA UpToIs ==
    ASSUME NEW S, NEW s \in Seq(S), NEW n \in 0 .. Len(s)
    PROVE  UpTo(s, n) = SubSeq(s, 1, n)
<1> DEFINE len == Len(s)
<1>1. len \in Nat /\ n \in 0 .. len
  BY LenProperties
<1>2. UpTo(s, n) = SubSeq(s, 1, IF n < len THEN n ELSE len)
  BY DEF UpTo
<1> HIDE DEF len
<1>3. n < len \/ n = len
  BY <1>1
<1>4. CASE n < len
  BY <1>2, <1>4
<1>5. CASE n = len
  BY <1>2, <1>5
<1> QED BY <1>3, <1>4, <1>5

\* TrimRight keeps what comes up to the last character that is kept.
LEMMA TrimRightCuts ==
    ASSUME NEW s \in Seq(NameChars)
    PROVE  \E m \in 0 .. Len(s) :
               /\ TrimRight(s) = SubSeq(s, 1, m)
               /\ m = 0 \/ s[m] \in Kept
               /\ \A i \in 1 .. Len(s) : s[i] \in Kept => i <= m
<1> DEFINE P == {0} \cup Places(s, Kept)
           m == Max(P)
<1>1. Len(s) \in Nat /\ DOMAIN s = 1 .. Len(s)
  BY LenProperties
<1>2. P \in SUBSET (0 .. Len(s)) /\ P # {}
  BY <1>1 DEF Places
<1>3. m \in P /\ \A i \in P : m >= i
  <2> HIDE DEF P
  <2> QED BY <1>1, <1>2, MaxOf
<1>4. m \in 0 .. Len(s) /\ (m = 0 \/ s[m] \in Kept)
      /\ \A i \in 1 .. Len(s) : s[i] \in Kept => i <= m
  <2> HIDE DEF m
  <2>1. \A i \in 1 .. Len(s) : s[i] \in Kept => i \in P
    BY <1>1 DEF Places
  <2>2. m \in 0 .. Len(s) /\ (m = 0 \/ s[m] \in Kept)
    BY <1>2, <1>3 DEF Places
  <2> HIDE DEF P
  <2>3. \A i \in 1 .. Len(s) : i \in P => i <= m
    BY <1>1, <1>3, <2>2
  <2> QED BY <2>1, <2>2, <2>3
<1>5. TrimRight(s) = SubSeq(s, 1, m)
  BY <1>4, UpToIs DEF TrimRight
<1> HIDE DEF m
<1> QED BY <1>4, <1>5

\* TrimLeft drops what comes before the first one.
LEMMA TrimLeftCuts ==
    ASSUME NEW s \in Seq(NameChars)
    PROVE  \E m \in 1 .. Len(s) + 1 :
               /\ TrimLeft(s) = SubSeq(s, m, Len(s))
               /\ m = Len(s) + 1 \/ s[m] \in Kept
               /\ \A i \in 1 .. Len(s) : s[i] \in Kept => m <= i
<1> DEFINE P == {Len(s) + 1} \cup Places(s, Kept)
           m == Min(P)
<1>1. Len(s) \in Nat /\ DOMAIN s = 1 .. Len(s)
  BY LenProperties
<1>2. P \in SUBSET (1 .. Len(s) + 1) /\ P \in SUBSET Nat /\ P # {}
  BY <1>1 DEF Places
<1>3. m \in P /\ \A i \in P : m <= i
  <2> HIDE DEF P
  <2> QED BY <1>2, MinOf
<1>4. m \in 1 .. Len(s) + 1 /\ (m = Len(s) + 1 \/ s[m] \in Kept)
      /\ \A i \in 1 .. Len(s) : s[i] \in Kept => m <= i
  <2> HIDE DEF m
  <2>1. \A i \in 1 .. Len(s) : s[i] \in Kept => i \in P
    BY <1>1 DEF Places
  <2>2. m \in 1 .. Len(s) + 1 /\ (m = Len(s) + 1 \/ s[m] \in Kept)
    BY <1>2, <1>3 DEF Places
  <2> HIDE DEF P
  <2> QED BY <1>3, <2>1, <2>2
<1>5. TrimLeft(s) = SubSeq(s, m, Len(s))
  BY DEF TrimLeft
<1> HIDE DEF m
<1> QED BY <1>4, <1>5

\* A name that Kubernetes takes, or the empty text.
PodText(s) ==
    /\ Clean(s) /\ Len(s) <= MaxLen
    /\ s # <<>> => s[1] \in Kept /\ s[Len(s)] \in Kept

LEMMA TrimRightOf ==
    ASSUME NEW s, Clean(s), s # <<>> => s[1] \in Kept
    PROVE  LET t == TrimRight(s)
           IN  /\ Clean(t) /\ Len(t) <= Len(s)
               /\ t # <<>> => t[1] \in Kept /\ t[Len(t)] \in Kept
               /\ s # <<>> => t # <<>> /\ t[1] = s[1]
<1> DEFINE t == TrimRight(s)
<1>1. s \in Seq(NameChars) /\ Len(s) \in Nat
  BY LenProperties DEF Clean
<1>2. PICK m \in 0 .. Len(s) : /\ t = SubSeq(s, 1, m)
                               /\ m = 0 \/ s[m] \in Kept
                               /\ \A i \in 1 .. Len(s) : s[i] \in Kept => i <= m
  BY <1>1, TrimRightCuts
<1> HIDE DEF t
<1>3. 1 \in 1 .. Len(s) + 1 /\ m \in 1 - 1 .. Len(s)
  BY <1>1
<1>4. t \in Seq(NameChars) /\ Len(t) = m /\ \A i \in 1 .. m : t[i] = s[i]
  <2>1. t \in Seq(NameChars) /\ Len(t) = m - 1 + 1 /\ \A i \in 1 .. m - 1 + 1 : t[i] = s[1 + i - 1]
    BY <1>1, <1>2, <1>3, Piece
  <2> QED BY <1>1, <2>1
<1>5. Clean(t)
  BY <1>2, <1>3, PieceOfClean
<1>6. t # <<>> => m \in 1 .. m /\ 1 \in 1 .. m /\ m # 0 /\ s # <<>>
  BY <1>1, <1>4, EmptySeq
<1>7. s # <<>> => t # <<>> /\ 1 \in 1 .. m
  <2> SUFFICES ASSUME s # <<>>
               PROVE  t # <<>> /\ 1 \in 1 .. m
    OBVIOUS
  <2>1. Len(s) >= 1 /\ s[1] \in Kept
    BY <1>1, EmptySeq
  <2>2. 1 <= m
    BY <1>1, <1>2, <2>1
  <2> QED BY <1>1, <1>4, <2>2
<1>8. t # <<>> => t[1] \in Kept /\ t[Len(t)] \in Kept
  BY <1>2, <1>4, <1>6
<1>9. s # <<>> => t[1] = s[1]
  BY <1>4, <1>7
<1> QED BY <1>1, <1>4, <1>5, <1>7, <1>8, <1>9 DEF t

LEMMA SanitizedIsPodText ==
    ASSUME NEW s \in Seq(DOMAIN Lower)
    PROVE  /\ PodText(Sanitize(s))
           /\ s # <<>> /\ s[1] \in Kept => Sanitize(s) # <<>>
<1> DEFINE d == Dashed(s)
           l == TrimLeft(d)
           r == TrimRight(l)
           cut == UpTo(r, MaxLen)
<1>1. Clean(d)
  BY DashedIsClean
<1>2. d \in Seq(NameChars) /\ Len(d) \in Nat
  BY <1>1, LenProperties DEF Clean
<1>3. Clean(l) /\ (l # <<>> => l[1] \in Kept) /\ (d # <<>> /\ d[1] \in Kept => l # <<>>)
  <2> HIDE DEF d
  <2>1. PICK m \in 1 .. Len(d) + 1 : /\ l = SubSeq(d, m, Len(d))
                                     /\ m = Len(d) + 1 \/ d[m] \in Kept
                                     /\ \A i \in 1 .. Len(d) : d[i] \in Kept => m <= i
    BY <1>2, TrimLeftCuts
  <2>2. Len(d) \in m - 1 .. Len(d)
    BY <1>2
  <2> HIDE DEF l
  <2>3. Clean(l)
    BY <1>1, <2>1, <2>2, PieceOfClean
  <2>4. /\ l \in Seq(NameChars) /\ Len(l) = Len(d) - m + 1
        /\ \A i \in 1 .. Len(d) - m + 1 : l[i] = d[m + i - 1]
    BY <1>2, <2>1, <2>2, Piece
  <2>5. ASSUME l # <<>>
        PROVE  l[1] \in Kept
    <3>1. 1 \in 1 .. Len(d) - m + 1 /\ m + 1 - 1 = m /\ m # Len(d) + 1
      BY <1>2, <2>4, <2>5, EmptySeq
    <3> QED BY <2>1, <2>4, <3>1
  <2>6. ASSUME d # <<>>, d[1] \in Kept
        PROVE  l # <<>>
    <3>1. 1 \in 1 .. Len(d)
      BY <1>2, <2>6, EmptySeq
    <3>2. m = 1
      BY <2>1, <2>6, <3>1
    <3> QED BY <1>2, <2>4, <3>1, <3>2
  <2> QED BY <2>3, <2>5, <2>6
<1>4. /\ Clean(r) /\ Len(r) \in Nat
      /\ r # <<>> => r[1] \in Kept /\ r[Len(r)] \in Kept
      /\ l # <<>> => r # <<>>
  <2> HIDE DEF l
  <2> QED BY <1>3, TrimRightOf, LenProperties DEF Clean
<1>5. s # <<>> /\ s[1] \in Kept => r # <<>>
  BY <1>3, <1>4, DashedKeepsFirst
<1>6. Sanitize(s) = IF Len(r) > MaxLen THEN TrimRight(cut) ELSE r
  BY DEF Sanitize
<1> HIDE DEF r
<1>7. MaxLen \in Nat \ {0}
  BY Characters, LenProperties
<1>8. CASE Len(r) <= MaxLen
  BY <1>4, <1>5, <1>6, <1>7, <1>8 DEF PodText
<1>9. CASE Len(r) > MaxLen
  <2>1. cut = SubSeq(r, 1, MaxLen) /\ r # <<>>
    BY <1>4, <1>7, <1>9 DEF UpTo
  <2>2. 1 \in 1 .. Len(r) + 1 /\ MaxLen \in 1 - 1 .. Len(r)
    BY <1>4, <1>7, <1>9
  <2>3. Clean(cut)
    BY <1>4, <2>1, <2>2, PieceOfClean
  <2>4. Len(cut) = MaxLen /\ cut[1] = r[1] /\ cut # <<>>
    <3>1. Len(cut) = MaxLen - 1 + 1 /\ \A i \in 1 .. MaxLen - 1 + 1 : cut[i] = r[1 + i - 1]
      BY <1>4, <2>1, <2>2, Piece DEF Clean
    <3> HIDE DEF cut
    <3> QED BY <1>7, <3>1
  <2> HIDE DEF cut
  <2>5. /\ Clean(TrimRight(cut)) /\ Len(TrimRight(cut)) <= MaxLen
        /\ TrimRight(cut) # <<>> =>
              TrimRight(cut)[1] \in Kept /\ TrimRight(cut)[Len(TrimRight(cut))] \in Kept
        /\ TrimRight(cut) # <<>>
    BY <1>4, <2>1, <2>3, <2>4, TrimRightOf
  <2> QED BY <1>6, <1>9, <2>5 DEF PodText
<1> QED BY <1>4, <1>7, <1>8, <1>9

LEMMA SanitizedStays ==
    ASSUME NEW s, PodText(s)
    PROVE  Sanitize(s) = s
<1>1. Clean(s) /\ s \in Seq(NameChars) /\ Len(s) \in Nat /\ Dashed(s) = s
  BY DashedOfClean, LenProperties DEF PodText, Clean
<1>2. s # <<>> => Len(s) \in 1 .. Len(s) /\ 1 \in 1 .. Len(s)
  BY <1>1, EmptySeq
<1>3. TrimLeft(s) = s
  <2>1. PICK m \in 1 .. Len(s) + 1 : /\ TrimLeft(s) = SubSeq(s, m, Len(s))
                                     /\ m = Len(s) + 1 \/ s[m] \in Kept
                                     /\ \A i \in 1 .. Len(s) : s[i] \in Kept => m <= i
    BY <1>1, TrimLeftCuts
  <2>2. m = 1
    <3>1. CASE s = <<>>
      BY <1>1, <3>1
    <3>2. CASE s # <<>>
      BY <1>2, <2>1, <3>2 DEF PodText
    <3> QED BY <3>1, <3>2
  <2> QED BY <1>1, <2>1, <2>2, SubSeqFull
<1>4. TrimRight(s) = s
  <2>1. PICK m \in 0 .. Len(s) : /\ TrimRight(s) = SubSeq(s, 1, m)
                                 /\ m = 0 \/ s[m] \in Kept
                                 /\ \A i \in 1 .. Len(s) : s[i] \in Kept => i <= m
    BY <1>1, TrimRightCuts
  <2>2. m = Len(s)
    <3>1. CASE s = <<>>
      BY <1>1, <3>1
    <3>2. CASE s # <<>>
      <4>1. Len(s) <= m
        BY <1>2, <2>1, <3>2 DEF PodText
      <4> QED BY <1>1, <4>1
    <3> QED BY <3>1, <3>2
  <2> QED BY <1>1, <2>1, <2>2, SubSeqFull
<1>5. ~(Len(s) > MaxLen)
  BY <1>1, Characters DEF PodText
<1> QED BY <1>1, <1>3, <1>4, <1>5 DEF Sanitize

LEMMA PodTextIsPodName ==
    ASSUME NEW s, PodText(s), s # <<>>
    PROVE  IsPodName(s)
<1>1. s \in Seq(NameChars) /\ Len(s) \in Nat \ {0} /\ DOMAIN s = 1 .. Len(s)
  BY EmptySeq, LenProperties DEF PodText, Clean
<1>2. \A i \in DOMAIN s : s[i] \in Kept \cup {Dash}
  BY <1>1, ElementOfSeq DEF NameChars
<1> QED BY <1>1, <1>2, Characters DEF PodText, IsPodName

-----------------------------------------------------------------------------
(***************************************************************************)
(* The name of a container that was given none.                            *)
(***************************************************************************)
\* What lies between the last "/" and the first mark after it.
Component(image, i, j) ==
    /\ i \in 0 .. Len(image) /\ j \in i .. Len(image)
    /\ i = 0 \/ image[i] = Slash
    /\ j = Len(image) \/ image[j + 1] \in Marks
    /\ \A l \in i + 1 .. Len(image) : image[l] # Slash
    /\ \A l \in i + 1 .. j : image[l] \notin Marks

LEMMA OneComponent ==
    ASSUME NEW image, Len(image) \in Nat, NEW i, NEW j, Component(image, i, j),
           NEW k, NEW l, Component(image, k, l)
    PROVE  i = k /\ j = l
<1>1. i \in Nat /\ j \in Nat /\ k \in Nat /\ l \in Nat
      /\ i <= j /\ j <= Len(image) /\ k <= l /\ l <= Len(image)
  BY DEF Component
<1>2. i = k
  <2>1. ~(i < k)
    BY <1>1 DEF Component
  <2>2. ~(k < i)
    BY <1>1 DEF Component
  <2> QED BY <1>1, <2>1, <2>2
<1>3. ~(j < l)
  <2> SUFFICES ASSUME j < l
               PROVE  FALSE
    OBVIOUS
  <2>1. j + 1 \in k + 1 .. l /\ image[j + 1] \in Marks
    BY <1>1, <1>2 DEF Component
  <2> QED BY <2>1 DEF Component
<1>4. ~(l < j)
  <2> SUFFICES ASSUME l < j
               PROVE  FALSE
    OBVIOUS
  <2>1. l + 1 \in i + 1 .. j /\ image[l + 1] \in Marks
    BY <1>1, <1>2 DEF Component
  <2> QED BY <2>1 DEF Component
<1> QED BY <1>1, <1>2, <1>3, <1>4

LEMMA ImageBaseIs ==
    ASSUME NEW S, NEW image \in Seq(S)
    PROVE  \E i, j : Component(image, i, j) /\ ImageBase(image) = SubSeq(image, i + 1, j)
<1> DEFINE slashes == {0} \cup Places(image, {Slash})
           i == Max(slashes)
           rest == SubSeq(image, i + 1, Len(image))
           marks == {Len(rest) + 1} \cup Places(rest, Marks)
           m == Min(marks) - 1
<1>1. Len(image) \in Nat /\ DOMAIN image = 1 .. Len(image)
  BY LenProperties
<1>2. slashes \in SUBSET (0 .. Len(image)) /\ slashes # {}
  BY <1>1 DEF Places
<1>3. i \in slashes /\ \A l \in slashes : i >= l
  <2> HIDE DEF slashes
  <2> QED BY <1>1, <1>2, MaxOf
<1>4. /\ i \in 0 .. Len(image) /\ (i = 0 \/ image[i] = Slash)
      /\ \A l \in i + 1 .. Len(image) : image[l] # Slash
  <2> HIDE DEF i
  <2>1. i \in 0 .. Len(image) /\ (i = 0 \/ image[i] = Slash)
    BY <1>2, <1>3 DEF Places
  <2>2. ASSUME NEW l \in i + 1 .. Len(image), image[l] = Slash
        PROVE  FALSE
    <3>1. l \in slashes
      BY <1>1, <2>1, <2>2 DEF Places
    <3> HIDE DEF slashes
    <3>2. i >= l
      BY <1>3, <3>1
    <3> QED BY <1>1, <2>1, <3>2
  <2> QED BY <2>1, <2>2
<1> HIDE DEF i
<1>5. /\ rest \in Seq(S) /\ Len(rest) = Len(image) - i
      /\ \A l \in 1 .. Len(image) - i : rest[l] = image[i + l]
  <2>1. i + 1 \in 1 .. Len(image) + 1 /\ Len(image) \in (i + 1) - 1 .. Len(image)
    BY <1>1, <1>4
  <2>2. /\ rest \in Seq(S) /\ Len(rest) = Len(image) - (i + 1) + 1
        /\ \A l \in 1 .. Len(image) - (i + 1) + 1 : rest[l] = image[(i + 1) + l - 1]
    BY <2>1, Piece
  <2> HIDE DEF rest
  <2> QED BY <1>1, <1>4, <2>2
<1> HIDE DEF rest
<1>6. Len(rest) \in Nat /\ DOMAIN rest = 1 .. Len(rest)
  BY <1>5, LenProperties
<1>7. marks \in SUBSET (1 .. Len(rest) + 1) /\ marks \in SUBSET Nat /\ marks # {}
  BY <1>6 DEF Places
<1>8. Min(marks) \in marks /\ \A l \in marks : Min(marks) <= l
  <2> HIDE DEF marks
  <2> QED BY <1>7, MinOf
<1>9. /\ m \in 0 .. Len(rest) /\ (m = Len(rest) \/ rest[m + 1] \in Marks)
      /\ \A l \in 1 .. m : rest[l] \notin Marks
  <2> DEFINE n == Min(marks)
  <2> HIDE DEF n
  <2>1. n \in marks /\ \A l \in marks : n <= l
    BY <1>8 DEF n
  <2>2. n \in 1 .. Len(rest) + 1 /\ (n = Len(rest) + 1 \/ rest[n] \in Marks)
    BY <1>6, <2>1 DEF Places
  <2>3. ASSUME NEW l \in 1 .. n - 1, rest[l] \in Marks
        PROVE  FALSE
    <3>1. l \in marks
      BY <1>6, <2>2, <2>3 DEF Places
    <3> HIDE DEF marks
    <3>2. n <= l
      BY <2>1, <3>1
    <3> QED BY <1>6, <2>2, <3>2
  <2>4. m = n - 1
    BY DEF n
  <2> HIDE DEF m
  <2> QED BY <1>6, <2>2, <2>3, <2>4
<1>10. ImageBase(image) = UpTo(rest, m)
  BY DEF ImageBase, rest, i
<1> HIDE DEF m
<1>11. UpTo(rest, m) = SubSeq(rest, 1, m)
  BY <1>5, <1>9, UpToIs
<1> DEFINE j == i + m
           n == Len(image)
<1>12. /\ i \in Nat /\ m \in Nat /\ n \in Nat /\ j \in Nat /\ j = i + m /\ j <= n
       /\ m = Len(rest) => j = n
       /\ m # Len(rest) => m + 1 <= n - i
  <2> DEFINE r == Len(rest)
  <2> HIDE DEF n, r
  <2>1. n \in Nat /\ i \in 0 .. n /\ r \in Nat /\ r = n - i /\ m \in 0 .. r
    BY <1>1, <1>4, <1>5, <1>6, <1>9 DEF n, r
  <2>2. i \in Nat /\ m \in Nat /\ m <= r /\ i + m <= n /\ (m = r => i + m = n) /\ (m # r => m + 1 <= n - i)
    BY <2>1
  <2> QED BY <2>1, <2>2 DEF r
<1> HIDE DEF j, n
<1>13. Component(image, i, j)
  <2>1. j \in i .. n
    BY <1>12
  <2>2. j = n \/ image[j + 1] \in Marks
    <3>1. CASE m = Len(rest)
      BY <1>12, <3>1
    <3>2. CASE m # Len(rest)
      <4>1. m + 1 \in 1 .. n - i /\ i + (m + 1) = j + 1
        BY <1>12, <3>2
      <4> QED BY <1>5, <1>9, <3>2, <4>1 DEF n
    <3> QED BY <3>1, <3>2
  <2>3. ASSUME NEW l \in i + 1 .. j
        PROVE  image[l] \notin Marks
    <3>1. l - i \in 1 .. m /\ l - i \in 1 .. n - i /\ i + (l - i) = l
      BY <1>12
    <3> QED BY <1>5, <1>9, <3>1 DEF n
  <2> QED BY <1>4, <2>1, <2>2, <2>3 DEF Component, n
<1>14. SubSeq(rest, 1, m) = SubSeq(image, i + 1, j)
  <2>1. 1 \in 1 .. Len(rest) + 1 /\ m \in 1 - 1 .. Len(rest)
    <3> DEFINE r == Len(rest)
    <3> HIDE DEF r
    <3>1. r \in Nat /\ m \in 0 .. r
      BY <1>6, <1>9 DEF r
    <3>2. 1 \in 1 .. r + 1 /\ m \in 1 - 1 .. r
      BY <3>1
    <3> QED BY <3>2 DEF r
  <2>2. /\ SubSeq(rest, 1, m) \in Seq(S) /\ Len(SubSeq(rest, 1, m)) = m - 1 + 1
        /\ \A l \in 1 .. m - 1 + 1 : SubSeq(rest, 1, m)[l] = rest[1 + l - 1]
    BY <1>5, <2>1, Piece
  <2>3. i + 1 \in 1 .. n + 1 /\ j \in (i + 1) - 1 .. n
    BY <1>12
  <2>4. /\ SubSeq(image, i + 1, j) \in Seq(S) /\ Len(SubSeq(image, i + 1, j)) = j - (i + 1) + 1
        /\ \A l \in 1 .. j - (i + 1) + 1 : SubSeq(image, i + 1, j)[l] = image[(i + 1) + l - 1]
    BY <2>3, Piece DEF n
  <2>5. m - 1 + 1 = m /\ j - (i + 1) + 1 = m
    BY <1>12
  <2>6. ASSUME NEW l \in 1 .. m
        PROVE  SubSeq(rest, 1, m)[l] = SubSeq(image, i + 1, j)[l]
    <3>1. 1 + l - 1 = l /\ (i + 1) + l - 1 = i + l /\ l \in 1 .. n - i
      BY <1>12
    <3>2. SubSeq(rest, 1, m)[l] = rest[l] /\ SubSeq(image, i + 1, j)[l] = image[i + l]
      BY <2>2, <2>4, <2>5, <3>1
    <3> QED BY <1>5, <3>1, <3>2 DEF n
  <2> DEFINE head == SubSeq(rest, 1, m)
             piece == SubSeq(image, i + 1, j)
  <2>7. /\ head \in Seq(S) /\ piece \in Seq(S) /\ Len(head) = m /\ Len(piece) = m
        /\ \A l \in 1 .. m : head[l] = piece[l]
    BY <2>2, <2>4, <2>5, <2>6
  <2>8. head = piece
    <3> HIDE DEF head, piece
    <3> QED BY <2>7, SeqEqual
  <2> QED BY <2>8
<1> QED BY <1>10, <1>11, <1>13, <1>14

-----------------------------------------------------------------------------
(***************************************************************************)
(* The names.                                                              *)
(***************************************************************************)
LEMMA DinkOf ==
    ASSUME NEW base \in Seq(DOMAIN Lower)
    PROVE  LET s == Dink \o <<Dash>> \o base
           IN  s \in Seq(DOMAIN Lower) /\ s # <<>> /\ s[1] \in Kept
<1> DEFINE d == <<Dash>>
           dd == Dink \o d
           s == dd \o base
<1>1. Dink \in Seq(DOMAIN Lower) /\ d \in Seq(DOMAIN Lower) /\ Dink[1] \in Kept
  <2>1. Kept \subseteq DOMAIN Lower /\ Dash \in DOMAIN Lower
    BY Characters
  <2>2. Dink \in Seq(Kept) /\ Dink # <<>>
    BY Characters
  <2>3. Dink[1] \in Kept
    BY <2>2, ElementOfSeq, EmptySeq, LenProperties
  <2> QED BY <2>1, <2>2, <2>3, SeqMonotonic
<1>2. Len(Dink) \in Nat /\ Len(Dink) >= 1 /\ Len(base) \in Nat
  BY Characters, EmptySeq, LenProperties
<1> HIDE DEF d
<1>3. /\ dd \in Seq(DOMAIN Lower) /\ Len(dd) = Len(Dink) + Len(d) /\ Len(d) \in Nat
      /\ dd[1] = Dink[1]
  BY <1>1, <1>2, ConcatProperties, LenProperties
<1> HIDE DEF dd
<1>4. s \in Seq(DOMAIN Lower) /\ Len(s) = Len(dd) + Len(base) /\ s[1] = dd[1]
  <2>1. /\ s \in Seq(DOMAIN Lower) /\ Len(s) = Len(dd) + Len(base)
        /\ \A i \in 1 .. Len(dd) + Len(base) :
              s[i] = IF i <= Len(dd) THEN dd[i] ELSE base[i - Len(dd)]
    <3>1. dd \in Seq(DOMAIN Lower)
      BY <1>3
    <3> QED BY <3>1, ConcatProperties
  <2> DEFINE a == Len(dd)
             b == Len(base)
  <2>2. a \in Nat /\ a >= 1 /\ b \in Nat
    BY <1>2, <1>3
  <2> HIDE DEF a, b, s
  <2>3. 1 \in 1 .. a + b /\ 1 <= a
    BY <2>2
  <2> QED BY <2>1, <2>3 DEF a, b
<1> HIDE DEF s
<1>5. s # <<>>
  BY <1>2, <1>3, <1>4, EmptySeq
<1> QED BY <1>1, <1>3, <1>4, <1>5 DEF s, dd, d

\* A text that ends with no dash, a dash, and characters that are kept.
LEMMA SuffixedIsClean ==
    ASSUME NEW s, PodText(s), s # <<>>,
           NEW n \in Nat \ {0}, NEW suffix \in [1 .. n -> Kept]
    PROVE  LET t == s \o <<Dash>> \o suffix
           IN  /\ Clean(t) /\ Len(t) = Len(s) + 1 + n
               /\ t # <<>> /\ t[1] \in Kept /\ t[Len(s)] \in Kept
               /\ \A i \in Len(s) + 2 .. Len(t) : t[i] \in Kept
<1> DEFINE d == <<Dash>>
           sd == s \o d
           t == sd \o suffix
           l == Len(s)
<1>1. /\ s \in Seq(NameChars) /\ d \in Seq(NameChars) /\ Len(d) = 1 /\ d[1] = Dash /\ l \in Nat /\ l >= 1
      /\ s[1] \in Kept /\ s[l] \in Kept
  BY EmptySeq, LenProperties DEF PodText, Clean, NameChars
<1>2. suffix \in Seq(NameChars) /\ Len(suffix) = n
  <2>1. suffix \in [1 .. n -> NameChars]
    BY DEF NameChars
  <2> QED BY <2>1, LenProperties
<1> HIDE DEF d
<1>3. /\ sd \in Seq(NameChars) /\ Len(sd) = l + 1 /\ sd[l + 1] = Dash
      /\ \A i \in 1 .. l : sd[i] = s[i]
  <2>1. /\ sd \in Seq(NameChars) /\ Len(sd) = Len(s) + Len(d)
        /\ \A i \in 1 .. Len(s) + Len(d) :
              sd[i] = IF i <= Len(s) THEN s[i] ELSE d[i - Len(s)]
    BY <1>1, ConcatProperties
  <2> HIDE DEF l, sd
  <2>2. /\ sd \in Seq(NameChars) /\ Len(sd) = l + 1
        /\ \A i \in 1 .. l + 1 : sd[i] = IF i <= l THEN s[i] ELSE d[i - l]
    BY <1>1, <2>1 DEF l
  <2>3. l + 1 \in 1 .. l + 1 /\ l + 1 - l = 1 /\ ~ (l + 1 <= l)
    BY <1>1
  <2>4. \A i \in 1 .. l : i \in 1 .. l + 1 /\ i <= l
    BY <1>1
  <2>5. sd[l + 1] = d[1]
    <3> DEFINE k == l + 1
    <3>1. sd[k] = IF k <= l THEN s[k] ELSE d[k - l]
      <4> HIDE DEF k
      <4> QED BY <2>2, <2>3 DEF k
    <3>2. k - l = 1 /\ ~ (k <= l)
      BY <1>1
    <3> HIDE DEF k
    <3>3. sd[k] = d[1]
      BY <3>1, <3>2
    <3> QED BY <3>3 DEF k
  <2> QED BY <1>1, <2>2, <2>4, <2>5
<1> HIDE DEF sd
<1>4. /\ t \in Seq(NameChars) /\ Len(t) = l + 1 + n
      /\ \A i \in 1 .. l + 1 : t[i] = sd[i]
      /\ \A i \in l + 2 .. l + 1 + n : t[i] \in Kept
  <2>1. /\ t \in Seq(NameChars) /\ Len(t) = Len(sd) + Len(suffix)
        /\ \A i \in 1 .. Len(sd) + Len(suffix) :
              t[i] = IF i <= Len(sd) THEN sd[i] ELSE suffix[i - Len(sd)]
    BY <1>2, <1>3, ConcatProperties
  <2> HIDE DEF l, t
  <2>2. /\ t \in Seq(NameChars) /\ Len(t) = l + 1 + n
        /\ \A i \in 1 .. l + 1 + n : t[i] = IF i <= l + 1 THEN sd[i] ELSE suffix[i - (l + 1)]
    BY <1>2, <1>3, <2>1
  <2>3. \A i \in 1 .. l + 1 : i \in 1 .. l + 1 + n /\ i <= l + 1
    BY <1>1
  <2>4. \A i \in l + 2 .. l + 1 + n : i \in 1 .. l + 1 + n /\ ~ (i <= l + 1) /\ i - (l + 1) \in 1 .. n
    BY <1>1
  <2>5. \A i \in l + 2 .. l + 1 + n : t[i] = suffix[i - (l + 1)]
    BY <2>2, <2>4
  <2>6. \A i \in l + 2 .. l + 1 + n : t[i] \in Kept
    BY <2>4, <2>5
  <2> QED BY <2>2, <2>3, <2>6
<1> HIDE DEF t, l
<1>5. \A i \in 1 .. l : t[i] = s[i]
  BY <1>1, <1>3, <1>4
<1>6. t[1] \in Kept /\ t[l] \in Kept /\ t # <<>>
  <2>1. 1 \in 1 .. l /\ l \in 1 .. l
    BY <1>1
  <2>2. Len(t) # 0
    BY <1>1, <1>4
  <2> QED BY <1>1, <1>4, <1>5, <2>1, <2>2, EmptySeq
<1>7. NoDoubleDash(t)
  <2> SUFFICES ASSUME NEW i \in 1 .. Len(t) - 1
               PROVE  t[i] # Dash \/ t[i + 1] # Dash
    BY DEF NoDoubleDash
  <2>1. CASE i + 1 <= l
    <3>1. i \in 1 .. l /\ i + 1 \in 1 .. l /\ i \in 1 .. l - 1
      BY <1>1, <1>4, <2>1
    <3>2. s[i] # Dash \/ s[i + 1] # Dash
      BY <3>1 DEF PodText, Clean, NoDoubleDash, l
    <3> QED BY <1>5, <3>1, <3>2
  <2>2. CASE i = l
    <3>1. l \in 1 .. l
      BY <1>1
    <3>2. t[i] \in Kept
      BY <1>1, <1>5, <2>2, <3>1
    <3> QED BY <3>2, Characters
  <2>3. CASE i > l
    <3>1. i + 1 \in l + 2 .. l + 1 + n
      BY <1>1, <1>4, <2>3
    <3>2. t[i + 1] \in Kept
      BY <1>4, <3>1
    <3> QED BY <3>2, Characters
  <2>4. i + 1 <= l \/ i = l \/ i > l
    BY <1>1
  <2> QED BY <2>1, <2>2, <2>3, <2>4
<1> QED BY <1>4, <1>6, <1>7 DEF Clean, t, sd, d, l

LEMMA ImageBaseIsText ==
    ASSUME NEW S, NEW image \in Seq(S)
    PROVE  ImageBase(image) \in Seq(S)
<1>1. PICK i, j : Component(image, i, j) /\ ImageBase(image) = SubSeq(image, i + 1, j)
  BY ImageBaseIs
<1> DEFINE n == Len(image)
<1>2. n \in Nat
  BY LenProperties
<1>3. i \in 0 .. n /\ j \in i .. n
  BY <1>1 DEF Component
<1> HIDE DEF n
<1>4. i + 1 \in 1 .. n + 1 /\ j \in (i + 1) - 1 .. n
  BY <1>2, <1>3
<1> QED BY <1>1, <1>4, Piece DEF n

LEMMA StemIs ==
    ASSUME NEW image \in Seq(DOMAIN Lower)
    PROVE  /\ Stem(image) = Sanitize(Dink \o <<Dash>> \o ImageBase(image))
           /\ PodText(Stem(image)) /\ Stem(image) # <<>>
<1> DEFINE clean == Sanitize(Dink \o <<Dash>> \o ImageBase(image))
<1>1. PodText(clean) /\ clean # <<>>
  BY ImageBaseIsText, DinkOf, SanitizedIsPodText
<1>2. Stem(image) = IF clean = <<>> THEN Dink ELSE clean
  BY DEF Stem
<1> HIDE DEF clean
<1>3. Stem(image) = clean
  BY <1>1, <1>2
<1> QED BY <1>1, <1>3 DEF clean

\* Wherever the name is cut, but after its dash, it ends with a character that is kept.
LEMMA GeneratedIs ==
    ASSUME NEW image \in Seq(DOMAIN Lower), NEW suffix \in RandomSuffixes, ~CutAfterDash(image)
    PROVE  GeneratedName(image, suffix) # <<>> /\ PodText(GeneratedName(image, suffix))
<1> DEFINE stem == Stem(image)
           t == stem \o <<Dash>> \o suffix
           l == Len(stem)
<1>1. PodText(stem) /\ stem # <<>> /\ l \in Nat /\ l # 0 /\ l <= MaxLen
  BY StemIs, EmptySeq, LenProperties DEF PodText, Clean
<1>2. GeneratedName(image, suffix) = UpTo(t, MaxLen)
  BY DEF GeneratedName
<1>3. l # MaxLen - 1 /\ MaxLen \in Nat \ {0}
  BY Characters, LenProperties DEF CutAfterDash
<1>4. SuffixLen \in Nat \ {0} /\ suffix \in [1 .. SuffixLen -> Kept]
  BY Characters
<1> HIDE DEF stem
<1>5. /\ Clean(t) /\ Len(t) = l + 1 + SuffixLen
      /\ t # <<>> /\ t[1] \in Kept /\ t[l] \in Kept
      /\ \A i \in l + 2 .. Len(t) : t[i] \in Kept
  BY <1>1, <1>4, SuffixedIsClean
<1> HIDE DEF t, l
<1>6. t \in Seq(NameChars) /\ Len(t) \in Nat
  BY <1>5, LenProperties DEF Clean
<1>7. CASE Len(t) <= MaxLen
  <2>1. UpTo(t, MaxLen) = SubSeq(t, 1, Len(t))
    BY <1>3, <1>6, <1>7 DEF UpTo
  <2>2. UpTo(t, MaxLen) = t
    BY <1>6, <2>1, SubSeqFull
  <2>3. Len(t) \in l + 2 .. Len(t)
    BY <1>1, <1>4, <1>5
  <2> QED BY <1>2, <1>5, <1>7, <2>2, <2>3 DEF PodText
<1>8. CASE MaxLen < Len(t)
  <2> DEFINE cut == SubSeq(t, 1, MaxLen)
  <2>1. UpTo(t, MaxLen) = cut
    BY <1>8 DEF UpTo
  <2>2. 1 \in 1 .. Len(t) + 1 /\ MaxLen \in 1 - 1 .. Len(t)
    BY <1>3, <1>6, <1>8
  <2>3. Clean(cut)
    BY <1>5, <2>2, PieceOfClean
  <2>4. Len(cut) = MaxLen /\ \A i \in 1 .. MaxLen : cut[i] = t[i]
    <3>1. Len(cut) = MaxLen - 1 + 1 /\ \A i \in 1 .. MaxLen - 1 + 1 : cut[i] = t[1 + i - 1]
      BY <1>6, <2>2, Piece
    <3> HIDE DEF cut
    <3> QED BY <1>3, <3>1
  <2> HIDE DEF cut
  <2>5. t[MaxLen] \in Kept
    <3>1. CASE l = MaxLen
      BY <1>5, <3>1
    <3>2. CASE l # MaxLen
      <4>1. MaxLen \in l + 2 .. Len(t)
        BY <1>1, <1>3, <1>6, <1>8, <3>2
      <4> QED BY <1>5, <4>1
    <3> QED BY <3>1, <3>2
  <2>6. cut # <<>> /\ cut[1] \in Kept /\ cut[Len(cut)] \in Kept
    <3>1. 1 \in 1 .. MaxLen /\ MaxLen \in 1 .. MaxLen
      BY <1>3
    <3> QED BY <1>3, <1>5, <2>4, <2>5, <3>1
  <2>7. Len(cut) <= MaxLen
    BY <1>3, <2>4
  <2>8. PodText(cut)
    BY <2>3, <2>6, <2>7 DEF PodText
  <2> QED BY <1>2, <2>1, <2>6, <2>8
<1> QED BY <1>3, <1>6, <1>7, <1>8

-----------------------------------------------------------------------------
Named ==
    /\ request.image # <<>>
    /\ request.name # <<>> => podName = Sanitize(request.name) /\ podName # <<>>
    /\ request.name = <<>> =>
          \E suffix \in RandomSuffixes : podName = GeneratedName(request.image, suffix)

\* What has been named is named as the request says, and whoever is past the name is named.
NamesInv ==
    /\ request \in Requests
    /\ podName = <<>> \/ Named
    /\ stage \notin {"name", "refused"} => Named

LEMMA NamesInit == SpecInit => NamesInv
  BY DEF SpecInit, NamesInv

LEMMA NamesNext == NamesInv /\ [SpecNext]_specVars => NamesInv'
<1> SUFFICES ASSUME NamesInv, [SpecNext]_specVars
             PROVE  NamesInv'
  OBVIOUS
<1> USE DEF NamesInv, Enter
<1>1. CASE NameGiven
  BY <1>1 DEF NameGiven, Named
<1>2. CASE ImageRefused \/ NameRefused
  BY <1>2 DEF ImageRefused, NameRefused, Refuse, buildVars, Named
<1>3. CASE NameGenerated
  BY <1>3 DEF NameGenerated, Named
<1>4. CASE Bind
  BY <1>4 DEF Bind, Named
<1>5. CASE AllBound
  BY <1>5 DEF AllBound, buildVars, Named
<1>6. CASE Expose
  BY <1>6 DEF Expose, Named
<1>7. CASE AllExposed
  BY <1>7 DEF AllExposed, buildVars, Named
<1>8. CASE KeyRefused
  BY <1>8 DEF KeyRefused, Refuse, buildVars, Named
<1>9. CASE Sort
  BY <1>9 DEF Sort, Named
<1>10. CASE Fit
  BY <1>10 DEF Fit, Named
<1>11. CASE UserRefused
  BY <1>11 DEF UserRefused, Refuse, buildVars, Named
<1>12. CASE Create
  BY <1>12 DEF Create, Named
<1>13. CASE Again
  BY <1>13 DEF Again, Named
<1>14. CASE UNCHANGED specVars
  BY <1>14 DEF specVars, buildVars, Named
<1> QED BY <1>1, <1>2, <1>3, <1>4, <1>5, <1>6, <1>7, <1>8, <1>9, <1>10, <1>11, <1>12, <1>13, <1>14
        DEF SpecNext

LEMMA AlwaysNamed == Spec => []NamesInv
<1>1. NamesInv /\ UNCHANGED specVars => NamesInv'
  BY NamesNext
<1> QED BY NamesInit, NamesNext, PTL DEF Spec

\* The name of a pod is one that Kubernetes takes, and giving it back as --name names the same pod
\* (podspec/name.go:20-28), for a --name of any length, and for a generated name cut anywhere
\* but after its dash (podspec/name.go:38-41).
THEOREM NamesAreValid == Spec => []ValidNames
<1>1. NamesInv => ValidNames
  <2> SUFFICES ASSUME NamesInv, podName # <<>>,
                      request.name # <<>> \/ ~CutAfterDash(request.image)
               PROVE  IsPodName(podName) /\ Sanitize(podName) = podName
    BY DEF ValidNames
  <2>1. Named /\ request.name \in Seq(DOMAIN Lower) /\ request.image \in Seq(DOMAIN Lower)
    BY RequestsAreWhole DEF NamesInv
  <2>2. PodText(podName)
    <3>1. CASE request.name # <<>>
      BY <2>1, <3>1, SanitizedIsPodText DEF Named
    <3>2. CASE request.name = <<>>
      BY <2>1, <3>2, GeneratedIs DEF Named
    <3> QED BY <3>1, <3>2
  <2> QED BY <2>2, SanitizedStays, PodTextIsPodName
<1> QED BY <1>1, AlwaysNamed, PTL

\* The component that a request states of its image is what ImageBase finds there.
LEMMA BaseIsComponent ==
    ASSUME NEW q \in Requests, q.name = <<>>
    PROVE  ImageBase(q.image) = q.component
<1>1. PICK i \in 0 .. Len(q.image) : \E j \in i .. Len(q.image) :
          Component(q.image, i, j) /\ q.component = SubSeq(q.image, i + 1, j)
  BY ImagesAreReferences DEF Component
<1>2. PICK j \in i .. Len(q.image) : Component(q.image, i, j) /\ q.component = SubSeq(q.image, i + 1, j)
  BY <1>1
<1>3. q.image \in Seq(DOMAIN Lower) /\ Len(q.image) \in Nat
  BY RequestsAreWhole, LenProperties
<1>4. PICK k, l : Component(q.image, k, l) /\ ImageBase(q.image) = SubSeq(q.image, k + 1, l)
  BY <1>3, ImageBaseIs
<1>5. i = k /\ j = l
  BY <1>2, <1>3, <1>4, OneComponent
<1> QED BY <1>2, <1>4, <1>5

\* A generated name is dink, the last component of the image's path, without registry, tag or
\* digest, and of the suffix what fits (podspec/name.go:32-56).
THEOREM NamesShowTheImage == Spec => []NamedAfterImage
<1>1. NamesInv => NamedAfterImage
  <2> SUFFICES ASSUME NamesInv, stage = "created", request.name = <<>>
               PROVE  \E suffix \in RandomSuffixes :
                         podName = UpTo(Sanitize(Dink \o <<Dash>> \o request.component)
                                          \o <<Dash>> \o suffix, MaxLen)
    BY DEF NamedAfterImage
  <2>1. PICK suffix \in RandomSuffixes : podName = GeneratedName(request.image, suffix)
    BY DEF NamesInv, Named
  <2>2. request.image \in Seq(DOMAIN Lower) /\ ImageBase(request.image) = request.component
    BY RequestsAreWhole, BaseIsComponent DEF NamesInv
  <2>3. Stem(request.image) = Sanitize(Dink \o <<Dash>> \o request.component)
    BY <2>2, StemIs
  <2> QED BY <2>1, <2>3 DEF GeneratedName
<1> QED BY <1>1, AlwaysNamed, PTL

-----------------------------------------------------------------------------
(***************************************************************************)
(* The ports of the pod's container, one mapping after the other.          *)
(***************************************************************************)
\* The step of DedupContainerPorts's fold.
Added(out, m) == IF TargetOf(m) \in ToSet(out) THEN out ELSE Append(out, TargetOf(m))

LEMMA TargetOfIsTarget == \A m \in Mappings : TargetOf(m) \in Targets
  BY DEF Mappings, TargetOf, Targets

LEMMA AddedIs ==
    ASSUME NEW out \in Seq(Targets), NEW m \in Mappings
    PROVE  /\ Added(out, m) \in Seq(Targets)
           /\ ToSet(Added(out, m)) = ToSet(out) \cup {TargetOf(m)}
           /\ (\A i, j \in DOMAIN out : out[i] = out[j] => i = j) =>
              \A i, j \in DOMAIN Added(out, m) : Added(out, m)[i] = Added(out, m)[j] => i = j
<1> DEFINE t == TargetOf(m)
           n == Len(out)
           new == Append(out, t)
<1>1. t \in Targets /\ n \in Nat /\ DOMAIN out = 1 .. n
  BY TargetOfIsTarget, LenProperties
<1>2. CASE t \in ToSet(out)
  <2>1. Added(out, m) = out
    BY <1>2 DEF Added
  <2> QED BY <1>2, <2>1
<1>3. CASE t \notin ToSet(out)
  <2>1. Added(out, m) = new
    BY <1>3 DEF Added
  <2> HIDE DEF t
  <2>2. /\ new \in Seq(Targets) /\ DOMAIN new = 1 .. n + 1 /\ new[n + 1] = t
        /\ \A i \in 1 .. n : new[i] = out[i]
    BY <1>1, AppendProperties
  <2> HIDE DEF new, n
  <2>3. \A i \in 1 .. n + 1 : i \in 1 .. n \/ i = n + 1
    BY <1>1
  <2>4. \A i \in 1 .. n : i \in 1 .. n + 1
    BY <1>1
  <2>5. n + 1 \in 1 .. n + 1
    BY <1>1
  <2>6. \A i \in 1 .. n : out[i] # t
    BY <1>1, <1>3 DEF ToSet
  <2>7. ToSet(new) = ToSet(out) \cup {t}
    BY <1>1, <2>2, <2>3, <2>4, <2>5 DEF ToSet
  <2>8. ASSUME \A i, j \in 1 .. n : out[i] = out[j] => i = j, NEW i \in 1 .. n + 1, NEW j \in 1 .. n + 1,
               new[i] = new[j]
        PROVE  i = j
    BY <2>2, <2>3, <2>6, <2>8
  <2> QED BY <1>1, <2>1, <2>2, <2>7, <2>8 DEF t
<1> QED BY <1>2, <1>3

LEMMA DedupUnfold ==
    ASSUME NEW s, NEW g,
           g = [S \in SUBSET DOMAIN s |-> IF S = {} THEN <<>> ELSE Added(g[S \ {Max(S)}], s[Max(S)])]
    PROVE  \E f : /\ f = [S \in SUBSET DOMAIN s |->
                             IF S = {} THEN <<>> ELSE Added(f[S \ {Max(S)}], s[Max(S)])]
                  /\ DedupContainerPorts(s) = f[DOMAIN s]
  BY Zenon DEF DedupContainerPorts, FoldLeft, MapThenFoldSet, Added

LEMMA DedupSteps ==
    ASSUME NEW s \in Seq(Mappings)
    PROVE  \E h : /\ h[0] = <<>> /\ DedupContainerPorts(s) = h[Len(s)]
                  /\ \A m \in 1 .. Len(s) : h[m] = Added(h[m - 1], s[m])
<1> DEFINE pick == [S \in SUBSET DOMAIN s |-> Max(S)]
           op == [x \in Seq(Targets) \X DOMAIN s |-> Added(x[1], s[x[2]])]
<1>1. Len(s) \in Nat /\ DOMAIN s = 1 .. Len(s) /\ IsFiniteSet(DOMAIN s)
  BY LenProperties, FS_Interval
<1>2. \A S \in SUBSET DOMAIN s : S # {} => pick[S] \in S
  <2> SUFFICES ASSUME NEW S \in SUBSET DOMAIN s, S # {}
               PROVE  Max(S) \in S
    OBVIOUS
  <2>1. S \in SUBSET (0 .. Len(s))
    BY <1>1
  <2> QED BY <1>1, <2>1, MaxOf
<1>3. op \in [Seq(Targets) \X DOMAIN s -> Seq(Targets)]
  <2>1. \A m \in DOMAIN s : s[m] \in Mappings
    BY ElementOfSeq, <1>1
  <2> QED BY <2>1, AddedIs
<1>4. <<>> \in Seq(Targets)
  OBVIOUS
<1>5. PICK g : IsFold(g, DOMAIN s, pick, Seq(Targets), <<>>, op)
  <2>1. Foldable(DOMAIN s, pick, Seq(Targets), <<>>, op)
    <3> HIDE DEF op, pick
    <3> QED BY <1>1, <1>2, <1>3, <1>4 DEF Foldable
  <2> QED BY <2>1, FoldExists
<1>6. g = [S \in SUBSET DOMAIN s |-> IF S = {} THEN <<>> ELSE Added(g[S \ {Max(S)}], s[Max(S)])]
  <2>1. \A S \in SUBSET DOMAIN s :
            S # {} => op[<<g[S \ {pick[S]}], pick[S]>>] = Added(g[S \ {Max(S)}], s[Max(S)])
    BY <1>2, <1>5 DEF IsFold
  <2> HIDE DEF op, pick
  <2>2. \A S \in SUBSET DOMAIN s :
            g[S] = IF S = {} THEN <<>> ELSE Added(g[S \ {Max(S)}], s[Max(S)])
    BY <1>5, <2>1 DEF IsFold
  <2> QED BY <1>5, <2>2 DEF IsFold
<1>7. PICK f : /\ f = [S \in SUBSET DOMAIN s |->
                          IF S = {} THEN <<>> ELSE Added(f[S \ {Max(S)}], s[Max(S)])]
               /\ DedupContainerPorts(s) = f[DOMAIN s]
  BY <1>6, DedupUnfold
<1> DEFINE h == [m \in 0 .. Len(s) |-> f[1 .. m]]
<1>8. \A m \in 0 .. Len(s) : h[m] = f[1 .. m]
  OBVIOUS
<1>9. h[0] = <<>> /\ DedupContainerPorts(s) = h[Len(s)]
  <2>1. 1 .. 0 = {} /\ {} \in SUBSET DOMAIN s
    OBVIOUS
  <2>2. f[{}] = <<>>
    BY <1>7, <2>1
  <2> QED BY <1>1, <1>7, <2>1, <2>2
<1>10. \A m \in 1 .. Len(s) : h[m] = Added(h[m - 1], s[m])
  <2> SUFFICES ASSUME NEW m \in 1 .. Len(s)
               PROVE  h[m] = Added(h[m - 1], s[m])
    OBVIOUS
  <2>1. m \in Nat \ {0} /\ 1 .. m \in SUBSET DOMAIN s /\ 1 .. m # {}
    <3>1. \A i \in 1 .. m : i \in DOMAIN s
      BY <1>1
    <3>2. m \in Nat \ {0} /\ m \in 1 .. m
      BY <1>1
    <3> QED BY <3>1, <3>2
  <2>2. Max(1 .. m) = m /\ (1 .. m) \ {m} = 1 .. m - 1
    BY <2>1, LastOfInterval
  <2>3. f[1 .. m] = Added(f[1 .. m - 1], s[m])
    <3>1. f[1 .. m] = Added(f[(1 .. m) \ {Max(1 .. m)}], s[Max(1 .. m)])
      BY <1>7, <2>1
    <3> QED BY <2>1, <2>2, <3>1
  <2>4. m - 1 \in 0 .. Len(s) /\ m \in 0 .. Len(s)
    BY <1>1
  <2> HIDE DEF h
  <2> QED BY <1>8, <2>3, <2>4
<1> HIDE DEF h
<1> QED BY <1>9, <1>10

LEMMA DedupIs ==
    ASSUME NEW s \in Seq(Mappings)
    PROVE  LET out == DedupContainerPorts(s)
           IN  /\ out \in Seq(Targets) /\ ToSet(out) = {TargetOf(s[i]) : i \in DOMAIN s}
               /\ Len(out) = Cardinality(ToSet(out))
<1>1. PICK h : /\ h[0] = <<>> /\ DedupContainerPorts(s) = h[Len(s)]
               /\ \A m \in 1 .. Len(s) : h[m] = Added(h[m - 1], s[m])
  BY DedupSteps
<1> DEFINE len == Len(s)
           Good(m) ==
               /\ h[m] \in Seq(Targets) /\ ToSet(h[m]) = {TargetOf(s[i]) : i \in 1 .. m}
               /\ \A i, j \in DOMAIN h[m] : h[m][i] = h[m][j] => i = j
           T == {m \in Nat : m <= len => Good(m)}
<1>2. len \in Nat /\ DOMAIN s = 1 .. len
  BY LenProperties
<1>3. 0 \in T
  <2> DEFINE none == <<>>
  <2>1. none \in Seq(Targets) /\ DOMAIN none = {} /\ 1 .. 0 = {}
    OBVIOUS
  <2>2. h[0] = none
    BY <1>1
  <2> HIDE DEF none
  <2> QED BY <2>1, <2>2 DEF ToSet
<1>4. ASSUME NEW m \in T
      PROVE  m + 1 \in T
  <2> SUFFICES ASSUME m + 1 <= len
               PROVE  Good(m + 1)
    BY <1>4
  <2>1. m \in Nat /\ Good(m)
    BY <1>2, <1>4
  <2>2. m + 1 \in 1 .. len /\ m + 1 - 1 = m
    BY <1>2, <2>1
  <2>3. s[m + 1] \in Mappings
    BY <2>2, ElementOfSeq
  <2>4. h[m + 1] = Added(h[m], s[m + 1])
    BY <1>1, <2>2
  <2>5. {TargetOf(s[i]) : i \in 1 .. m + 1} = {TargetOf(s[i]) : i \in 1 .. m} \cup {TargetOf(s[m + 1])}
    <3>1. 1 .. m + 1 = (1 .. m) \cup {m + 1}
      BY <2>1
    <3> QED BY <3>1
  <2> DEFINE old == h[m]
             new == h[m + 1]
             last == s[m + 1]
  <2>6. /\ old \in Seq(Targets) /\ \A i, j \in DOMAIN old : old[i] = old[j] => i = j
        /\ last \in Mappings /\ new = Added(old, last)
    BY <2>1, <2>3, <2>4
  <2>7. ToSet(old) = {TargetOf(s[i]) : i \in 1 .. m}
    BY <2>1
  <2> HIDE DEF old, new, last
  <2>8. /\ new \in Seq(Targets) /\ ToSet(new) = ToSet(old) \cup {TargetOf(last)}
        /\ \A i, j \in DOMAIN new : new[i] = new[j] => i = j
    BY <2>6, AddedIs
  <2> QED BY <2>5, <2>7, <2>8 DEF new, last
<1>5. len \in T
  <2> HIDE DEF T
  <2>1. T \in SUBSET Nat
    BY DEF T
  <2> QED BY <1>2, <1>3, <1>4, <2>1, InductionOnNat
<1>6. Good(len)
  BY <1>2, <1>5
<1> DEFINE out == DedupContainerPorts(s)
<1>7. /\ out \in Seq(Targets) /\ ToSet(out) = {TargetOf(s[i]) : i \in 1 .. len}
      /\ \A i, j \in DOMAIN out : out[i] = out[j] => i = j
  BY <1>1, <1>6
<1> HIDE DEF out, Good, T
<1>8. Len(out) = Cardinality(ToSet(out))
  <2>1. Len(out) \in Nat /\ DOMAIN out = 1 .. Len(out)
    BY <1>7, LenProperties
  <2>2. IsFiniteSet(DOMAIN out) /\ Cardinality(DOMAIN out) = Len(out)
    <3> DEFINE n == Len(out)
    <3> HIDE DEF n
    <3>1. n \in Nat /\ DOMAIN out = 1 .. n
      BY <2>1 DEF n
    <3>2. IsFiniteSet(1 .. n) /\ Cardinality(1 .. n) = n
      BY <3>1, FS_Interval
    <3> QED BY <3>1, <3>2 DEF n
  <2>3. out \in Bijection(DOMAIN out, ToSet(out))
    <3>1. out \in [DOMAIN out -> ToSet(out)] /\ \A t \in ToSet(out) : \E i \in DOMAIN out : out[i] = t
      BY <1>7 DEF ToSet
    <3> QED BY <1>7, <3>1, Fun_IsBij
  <2> QED BY <2>2, <2>3, FS_Bijection DEF ExistsBijection
<1> QED BY <1>2, <1>7, <1>8 DEF out

-----------------------------------------------------------------------------
(***************************************************************************)
(* Where the mappings come from: each from one host side of one binding,   *)
(* <<key, index>>, or from one exposed key, <<key, 0>>, and none from the  *)
(* same place as another.                                                  *)
(***************************************************************************)
HostsOf(q, k) == IF q.bindings[k] = <<>> THEN <<Empty>> ELSE q.bindings[k]
BoundOf(q) == {Target(k) : k \in DOMAIN q.bindings}

\* The sources in the bindings W and the exposed keys E.
Sources(q, W, E) ==
    {x \in Keys \X Nat :
        \/ x[1] \in W /\ x[2] \in DOMAIN HostsOf(q, x[1])
        \/ x[1] \in E /\ Target(x[1]) \notin BoundOf(q) /\ x[2] = 0}

What(q, x) == Mapping(Target(x[1]), IF x[2] = 0 THEN Empty ELSE HostsOf(q, x[1])[x[2]])

OneToOne(f, S, T) ==
    /\ f \in [S -> T]
    /\ \A a, b \in S : f[a] = f[b] => a = b
    /\ \A t \in T : \E a \in S : f[a] = t

Laid(q, s, W, E) ==
    /\ s \in Seq(Mappings)
    /\ \E f : OneToOne(f, DOMAIN s, Sources(q, W, E)) /\ \A i \in DOMAIN s : s[i] = What(q, f[i])

LEMMA EmptyIsUnset == Empty \in Unset /\ Empty \in Texts
<1> DEFINE ranks == {Rank[t] : t \in Unset}
<1>1. ranks \in SUBSET Nat /\ ranks # {}
  BY PortTexts
<1>2. PICK m \in ranks : \A k \in ranks : m <= k
  BY <1>1, LeastNumber
<1>3. \E t \in Unset : \A u \in Unset : Rank[t] <= Rank[u]
  BY <1>2
<1> QED BY <1>3, PortTexts DEF Empty

LEMMA HostsAre ==
    ASSUME NEW q \in Requests, NEW k \in DOMAIN q.bindings
    PROVE  /\ k \in Keys /\ HostsOf(q, k) \in Seq(Texts) /\ HostsOf(q, k) # <<>>
           /\ Len(HostsOf(q, k)) \in Nat \ {0} /\ DOMAIN HostsOf(q, k) = 1 .. Len(HostsOf(q, k))
<1>1. k \in Keys /\ q.bindings[k] \in Seq(Texts)
  BY RequestsAreWhole
<1>2. HostsOf(q, k) \in Seq(Texts) /\ HostsOf(q, k) # <<>>
  BY <1>1, EmptyIsUnset DEF HostsOf
<1> QED BY <1>1, <1>2, EmptySeq, LenProperties

LEMMA TargetIsTarget ==
    ASSUME NEW k \in Keys, Parses(k)
    PROVE  Target(k) \in Targets /\ \A t \in Texts : Mapping(Target(k), t) \in Mappings
  BY DEF Keys, Parses, Target, Targets, Protocols, Mapping, Mappings

LEMMA TargetOfMapping ==
    ASSUME NEW k, NEW t
    PROVE  TargetOf(Mapping(Target(k), t)) = Target(k) /\ Mapping(Target(k), t).host = t
  BY DEF TargetOf, Mapping, Target

\* Two sequences one after the other, with what their elements come from.
Joins(h, f, g, s, t) ==
    \A i \in DOMAIN (s \o t) :
        \/ i \in DOMAIN s /\ (s \o t)[i] = s[i] /\ h[i] = f[i]
        \/ \E j \in DOMAIN t : (s \o t)[i] = t[j] /\ h[i] = g[j]

LEMMA Alongside ==
    ASSUME NEW S, NEW s \in Seq(S), NEW t \in Seq(S), NEW A, NEW B, A \cap B = {},
           NEW f, OneToOne(f, DOMAIN s, A), NEW g, OneToOne(g, DOMAIN t, B)
    PROVE  \E h : OneToOne(h, DOMAIN (s \o t), A \cup B) /\ Joins(h, f, g, s, t)
<1> DEFINE m == Len(s)
           n == Len(t)
           st == s \o t
           h == [i \in 1 .. m + n |-> IF i <= m THEN f[i] ELSE g[i - m]]
<1>1. m \in Nat /\ n \in Nat /\ DOMAIN s = 1 .. m /\ DOMAIN t = 1 .. n
  BY LenProperties
<1>2. /\ DOMAIN st = 1 .. m + n
      /\ \A i \in 1 .. m + n : st[i] = IF i <= m THEN s[i] ELSE t[i - m]
  BY ConcatProperties, <1>1
<1> HIDE DEF m, n, st
<1>3. ASSUME NEW i \in 1 .. m + n
      PROVE  \/ i \in 1 .. m /\ i <= m
             \/ ~ (i <= m) /\ i - m \in 1 .. n
  BY <1>1
<1>4. \A i \in 1 .. m + n : \/ i \in 1 .. m /\ st[i] = s[i] /\ h[i] = f[i]
                            \/ i - m \in 1 .. n /\ st[i] = t[i - m] /\ h[i] = g[i - m]
  BY <1>2, <1>3
<1>5. \A i \in 1 .. m : i \in 1 .. m + n /\ h[i] = f[i]
  BY <1>1
<1>6. \A j \in 1 .. n : j + m \in 1 .. m + n /\ h[j + m] = g[j]
  <2> SUFFICES ASSUME NEW j \in 1 .. n
               PROVE  j + m \in 1 .. m + n /\ h[j + m] = g[j]
    OBVIOUS
  <2> DEFINE e == j + m
  <2>1. e \in 1 .. m + n /\ ~ (e <= m) /\ e - m = j
    BY <1>1
  <2> HIDE DEF e
  <2>2. h[e] = g[e - m]
    BY <2>1
  <2> QED BY <2>1, <2>2 DEF e
<1>7. h \in [1 .. m + n -> A \cup B]
  <2>1. \A i \in 1 .. m + n : h[i] \in A \cup B
    BY <1>1, <1>4 DEF OneToOne
  <2> QED BY <2>1
<1> HIDE DEF h
<1>8. ASSUME NEW a \in 1 .. m + n, NEW b \in 1 .. m + n, h[a] = h[b]
      PROVE  a = b
  <2>1. CASE h[a] \in A
    <3>1. a \in 1 .. m /\ b \in 1 .. m /\ h[a] = f[a] /\ h[b] = f[b]
      BY <1>1, <1>4, <1>8, <2>1 DEF OneToOne
    <3> QED BY <1>1, <1>8, <3>1 DEF OneToOne
  <2>2. CASE h[a] \notin A
    <3>1. a - m \in 1 .. n /\ b - m \in 1 .. n /\ h[a] = g[a - m] /\ h[b] = g[b - m]
      BY <1>1, <1>4, <1>8, <2>2 DEF OneToOne
    <3>2. a - m = b - m
      BY <1>1, <1>8, <3>1 DEF OneToOne
    <3> QED BY <1>1, <3>2
  <2> QED BY <2>1, <2>2
<1>9. \A x \in A \cup B : \E a \in 1 .. m + n : h[a] = x
  <2> SUFFICES ASSUME NEW x \in A \cup B
               PROVE  \E a \in 1 .. m + n : h[a] = x
    OBVIOUS
  <2>1. CASE x \in A
    BY <1>1, <1>5, <2>1 DEF OneToOne
  <2>2. CASE x \in B
    <3>1. PICK j \in 1 .. n : g[j] = x
      BY <1>1, <2>2 DEF OneToOne
    <3> QED BY <1>6, <3>1
  <2> QED BY <2>1, <2>2
<1>10. OneToOne(h, DOMAIN st, A \cup B)
  BY <1>2, <1>7, <1>8, <1>9 DEF OneToOne
<1>11. \A i \in DOMAIN st : \/ i \in DOMAIN s /\ st[i] = s[i] /\ h[i] = f[i]
                           \/ \E j \in DOMAIN t : st[i] = t[j] /\ h[i] = g[j]
  BY <1>1, <1>2, <1>4
<1> QED BY <1>10, <1>11 DEF st, Joins

LEMMA LaidNothing ==
    ASSUME NEW q
    PROVE  Laid(q, <<>>, {}, {})
<1> DEFINE none == <<>>
<1>1. none \in Seq(Mappings) /\ DOMAIN none = {}
  OBVIOUS
<1>2. Sources(q, {}, {}) = {}
  BY DEF Sources
<1>3. none \in [{} -> {}]
  OBVIOUS
<1>4. OneToOne(none, {}, {})
  BY <1>3 DEF OneToOne
<1> HIDE DEF none
<1> QED BY <1>1, <1>2, <1>4 DEF Laid, none

LEMMA LaidNext ==
    ASSUME NEW q, NEW s, NEW W, NEW E, Laid(q, s, W, E), NEW t \in Seq(Mappings),
           NEW V, NEW F, NEW B, NEW g, OneToOne(g, DOMAIN t, B), \A j \in DOMAIN t : t[j] = What(q, g[j]),
           Sources(q, W, E) \cap B = {}, Sources(q, V, F) = Sources(q, W, E) \cup B
    PROVE  Laid(q, s \o t, V, F)
<1>1. s \in Seq(Mappings)
  BY DEF Laid
<1>2. PICK f : /\ OneToOne(f, DOMAIN s, Sources(q, W, E))
               /\ \A i \in DOMAIN s : s[i] = What(q, f[i])
  BY DEF Laid
<1>3. PICK h : /\ OneToOne(h, DOMAIN (s \o t), Sources(q, W, E) \cup B)
               /\ Joins(h, f, g, s, t)
  BY <1>1, <1>2, Alongside
<1>4. s \o t \in Seq(Mappings)
  BY <1>1, ConcatProperties
<1>5. \A i \in DOMAIN (s \o t) : (s \o t)[i] = What(q, h[i])
  BY <1>2, <1>3 DEF Joins
<1> QED BY <1>3, <1>4, <1>5 DEF Laid

LEMMA LaidBind ==
    ASSUME NEW q \in Requests, NEW s, NEW W, Laid(q, s, W, {}),
           NEW k \in DOMAIN q.bindings, k \notin W, Parses(k)
    PROVE  Laid(q, s \o [i \in DOMAIN HostsOf(q, k) |-> Mapping(Target(k), HostsOf(q, k)[i])],
                W \cup {k}, {})
<1> DEFINE hosts == HostsOf(q, k)
           n == Len(hosts)
           t == [i \in DOMAIN hosts |-> Mapping(Target(k), hosts[i])]
           B == {<<k, j>> : j \in DOMAIN hosts}
           g == [j \in DOMAIN hosts |-> <<k, j>>]
<1>1. /\ k \in Keys /\ hosts \in Seq(Texts) /\ n \in Nat /\ DOMAIN hosts = 1 .. n
      /\ \A j \in 1 .. n : j \in Nat /\ j # 0 /\ hosts[j] \in Texts
  <2>1. k \in Keys /\ hosts \in Seq(Texts) /\ n \in Nat /\ DOMAIN hosts = 1 .. n
    BY HostsAre
  <2> HIDE DEF hosts
  <2>2. \A j \in 1 .. Len(hosts) : hosts[j] \in Texts
    BY <2>1, ElementOfSeq
  <2> HIDE DEF n
  <2>3. \A j \in 1 .. n : j \in Nat /\ j # 0
    BY <2>1
  <2> QED BY <2>1, <2>2, <2>3 DEF n
<1>2. t \in Seq(Mappings) /\ DOMAIN t = DOMAIN hosts
  <2>1. \A i \in 1 .. n : Mapping(Target(k), hosts[i]) \in Mappings
    BY <1>1, TargetIsTarget
  <2> HIDE DEF hosts, n
  <2>2. t \in [1 .. n -> Mappings]
    BY <1>1, <2>1
  <2> QED BY <1>1, <2>2
<1>3. OneToOne(g, DOMAIN t, B)
  BY <1>2 DEF OneToOne
<1>4. \A j \in DOMAIN t : t[j] = What(q, g[j])
  BY <1>1, <1>2 DEF What
<1>5. Sources(q, W, {}) \cap B = {}
  BY <1>1 DEF Sources
<1>6. Sources(q, W \cup {k}, {}) = Sources(q, W, {}) \cup B
  <2> DEFINE S == Sources(q, W, {})
             V == Sources(q, W \cup {k}, {})
  <2>1. ASSUME NEW x \in V
        PROVE  x \in S \cup B
    <3>1. x \in Keys \X Nat /\ x[1] \in W \cup {k} /\ x[2] \in DOMAIN HostsOf(q, x[1])
      BY DEF Sources
    <3>2. CASE x[1] \in W
      BY <3>1, <3>2 DEF Sources
    <3>3. CASE x[1] = k
      <4>1. x = <<k, x[2]>>
        BY <3>1, <3>3
      <4> QED BY <3>1, <3>3, <4>1
    <3> QED BY <3>1, <3>2, <3>3
  <2>2. ASSUME NEW x \in S
        PROVE  x \in V
    BY DEF Sources
  <2>3. ASSUME NEW x \in B
        PROVE  x \in V
    BY <1>1 DEF Sources
  <2> QED BY <2>1, <2>2, <2>3
<1> HIDE DEF t, B, g, hosts
<1>7. Laid(q, s \o t, W \cup {k}, {})
  BY <1>2, <1>3, <1>4, <1>5, <1>6, LaidNext
<1> QED BY <1>7 DEF t, hosts

LEMMA LaidExpose ==
    ASSUME NEW q \in Requests, NEW s, NEW W \in SUBSET DOMAIN q.bindings, NEW E, Laid(q, s, W, E),
           NEW k \in Keys, k \notin E, Parses(k)
    PROVE  Laid(q, IF Target(k) \in BoundOf(q) THEN s ELSE Append(s, Mapping(Target(k), Empty)),
                W, E \cup {k})
<1>1. CASE Target(k) \in BoundOf(q)
  <2>1. Sources(q, W, E \cup {k}) = Sources(q, W, E)
    BY <1>1 DEF Sources
  <2> QED BY <1>1, <2>1 DEF Laid
<1>2. CASE Target(k) \notin BoundOf(q)
  <2> DEFINE e == Mapping(Target(k), Empty)
             t == <<e>>
             B == {<<k, 0>>}
             g == <<<<k, 0>>>>
  <2>1. e \in Mappings
    BY TargetIsTarget, EmptyIsUnset
  <2>2. t \in Seq(Mappings) /\ DOMAIN t = {1} /\ t[1] = e /\ DOMAIN g = {1} /\ g[1] = <<k, 0>>
    <3>1. DOMAIN t = {1} /\ t[1] = e /\ DOMAIN g = {1} /\ g[1] = <<k, 0>>
      OBVIOUS
    <3> HIDE DEF e
    <3> QED BY <2>1, <3>1
  <2>3. OneToOne(g, DOMAIN t, B)
    BY <2>2 DEF OneToOne
  <2>4. \A j \in DOMAIN t : t[j] = What(q, g[j])
    <3>1. What(q, <<k, 0>>) = e
      BY DEF What
    <3> QED BY <2>2, <3>1
  <2>5. Sources(q, W, E) \cap B = {}
    <3>1. <<k, 0>> \notin Sources(q, W, E)
      <4> SUFFICES ASSUME <<k, 0>> \in Sources(q, W, E)
                   PROVE  FALSE
        OBVIOUS
      <4>1. k \in W /\ 0 \in DOMAIN HostsOf(q, k)
        BY DEF Sources
      <4>2. DOMAIN HostsOf(q, k) = 1 .. Len(HostsOf(q, k))
        BY <4>1, HostsAre
      <4> QED BY <4>1, <4>2
    <3> QED BY <3>1
  <2>6. Sources(q, W, E \cup {k}) = Sources(q, W, E) \cup B
    BY <1>2 DEF Sources
  <2> HIDE DEF t, B, g, e
  <2>7. Laid(q, s \o t, W, E \cup {k})
    BY <2>2, <2>3, <2>4, <2>5, <2>6, LaidNext
  <2>8. Append(s, e) = s \o t
    BY <2>1, AppendIsConcat DEF Laid, t
  <2> QED BY <1>2, <2>7, <2>8 DEF e
<1> QED BY <1>1, <1>2

LEMMA OrdersAre ==
    ASSUME NEW S, NEW s \in Seq(S), NEW t \in Orders(s)
    PROVE  /\ t \in Seq(S) /\ DOMAIN t = DOMAIN s
           /\ \E p : OneToOne(p, DOMAIN s, DOMAIN s) /\ \A i \in DOMAIN s : t[i] = s[p[i]]
<1> DEFINE D == DOMAIN s
           n == Len(s)
<1>1. n \in Nat /\ D = 1 .. n /\ \A i \in D : s[i] \in S
  BY LenProperties, ElementOfSeq
<1>2. PICK p \in Bijection(D, D) : t = [i \in D |-> s[p[i]]]
  BY DEF Orders
<1> HIDE DEF D, n
<1>3. OneToOne(p, D, D)
  BY Fun_BijectionProperties DEF OneToOne
<1>4. t \in Seq(S) /\ DOMAIN t = D
  <2>1. t \in [1 .. n -> S]
    BY <1>1, <1>2, <1>3 DEF OneToOne
  <2> QED BY <1>1, <2>1
<1>5. \A i \in D : t[i] = s[p[i]]
  BY <1>2
<1> QED BY <1>3, <1>4, <1>5 DEF D

LEMMA OneToOneThrough ==
    ASSUME NEW S, NEW T, NEW U, NEW f, OneToOne(f, S, T), NEW g, OneToOne(g, T, U)
    PROVE  OneToOne([a \in S |-> g[f[a]]], S, U)
<1> DEFINE h == [a \in S |-> g[f[a]]]
<1>1. h \in [S -> U] /\ \A a \in S : h[a] = g[f[a]] /\ f[a] \in T
  BY DEF OneToOne
<1> HIDE DEF h
<1>2. \A a, b \in S : h[a] = h[b] => a = b
  BY <1>1 DEF OneToOne
<1>3. \A u \in U : \E a \in S : h[a] = u
  BY <1>1 DEF OneToOne
<1> QED BY <1>1, <1>2, <1>3 DEF OneToOne, h

LEMMA LaidInAnyOrder ==
    ASSUME NEW q, NEW s, NEW W, NEW E, Laid(q, s, W, E), NEW t \in Orders(s)
    PROVE  Laid(q, t, W, E)
<1>1. PICK f : OneToOne(f, DOMAIN s, Sources(q, W, E)) /\ \A i \in DOMAIN s : s[i] = What(q, f[i])
  BY DEF Laid
<1>2. t \in Seq(Mappings) /\ DOMAIN t = DOMAIN s
  BY OrdersAre DEF Laid
<1>3. PICK p : OneToOne(p, DOMAIN s, DOMAIN s) /\ \A i \in DOMAIN s : t[i] = s[p[i]]
  BY OrdersAre DEF Laid
<1> DEFINE h == [i \in DOMAIN s |-> f[p[i]]]
<1>4. OneToOne(h, DOMAIN t, Sources(q, W, E))
  BY <1>1, <1>2, <1>3, OneToOneThrough
<1>5. \A i \in DOMAIN t : t[i] = What(q, h[i])
  <2>1. \A i \in DOMAIN s : p[i] \in DOMAIN s
    BY <1>3 DEF OneToOne
  <2> QED BY <1>1, <1>2, <1>3, <2>1
<1> HIDE DEF h
<1> QED BY <1>2, <1>4, <1>5 DEF Laid

-----------------------------------------------------------------------------
(***************************************************************************)
(* The order of the mappings: one set of sources, one sorted sequence.     *)
(***************************************************************************)
LEMMA LessIsTotal ==
    ASSUME NEW m \in Mappings, NEW n \in Mappings
    PROVE  Less(m, n) \/ Less(n, m) \/ m = n
<1>1. /\ m = [host |-> m.host, port |-> m.port, proto |-> m.proto]
      /\ n = [host |-> n.host, port |-> n.port, proto |-> n.proto]
      /\ m.host \in Texts /\ n.host \in Texts /\ m.port \in Int /\ n.port \in Int
      /\ m.proto \in Protocols /\ n.proto \in Protocols
  BY DEF Mappings
<1>2. Rank[m.host] \in Nat /\ Rank[n.host] \in Nat /\ (Rank[m.host] = Rank[n.host] => m.host = n.host)
  BY <1>1, PortTexts
<1>3. /\ ProtoRank[m.proto] \in Nat /\ ProtoRank[n.proto] \in Nat
      /\ ProtoRank[m.proto] = ProtoRank[n.proto] => m.proto = n.proto
  BY <1>1 DEF ProtoRank, Protocols
<1> HIDE DEF ProtoRank, Protocols
<1>4. CASE m.port # n.port
  BY <1>1, <1>4 DEF Less
<1>5. CASE m.port = n.port /\ m.proto # n.proto
  BY <1>3, <1>5 DEF Less
<1>6. CASE m.port = n.port /\ m.proto = n.proto
  <2>1. TargetOf(m) = TargetOf(n)
    BY <1>6 DEF TargetOf
  <2>2. CASE Rank[m.host] = Rank[n.host]
    BY <1>1, <1>2, <1>6, <2>2
  <2>3. CASE Rank[m.host] # Rank[n.host]
    BY <1>2, <2>1, <2>3, <1>6 DEF Less, TargetOf
  <2> QED BY <2>2, <2>3
<1> QED BY <1>4, <1>5, <1>6

LEMMA LessIsStrict ==
    ASSUME NEW m \in Mappings
    PROVE  ~ Less(m, m)
<1>1. m.port \in Int /\ ProtoRank[m.proto] \in Int /\ Rank[m.host] \in Int
  <2>1. m.host \in Texts /\ m.port \in Int /\ m.proto \in Protocols
    BY DEF Mappings
  <2>2. ProtoRank[m.proto] \in Int
    BY <2>1 DEF ProtoRank, Protocols
  <2> QED BY <2>1, <2>2, PortTexts
<1> HIDE DEF ProtoRank
<1> QED BY <1>1 DEF Less

LEMMA OneToOneBack ==
    ASSUME NEW S, NEW T, NEW f, OneToOne(f, S, T)
    PROVE  \E g : OneToOne(g, T, S) /\ \A t \in T : f[g[t]] = t
<1> DEFINE g == [t \in T |-> CHOOSE a \in S : f[a] = t]
<1>1. \A t \in T : g[t] \in S /\ f[g[t]] = t
  BY DEF OneToOne
<1>2. g \in [T -> S]
  BY <1>1
<1> HIDE DEF g
<1>3. \A a, b \in T : g[a] = g[b] => a = b
  BY <1>1
<1>4. \A a \in S : \E t \in T : g[t] = a
  <2> SUFFICES ASSUME NEW a \in S
               PROVE  g[f[a]] = a /\ f[a] \in T
    OBVIOUS
  <2>1. f[a] \in T /\ f[g[f[a]]] = f[a] /\ g[f[a]] \in S
    BY <1>1 DEF OneToOne
  <2> QED BY <2>1 DEF OneToOne
<1> QED BY <1>1, <1>2, <1>3, <1>4 DEF OneToOne

\* At the first place where two sorted sequences of the same elements differ, neither has the
\* lesser one: it would have it once more than the other.
LEMMA NotLessAtFirst ==
    ASSUME NEW s \in Seq(Mappings), NEW t \in Seq(Mappings), DOMAIN s = DOMAIN t, InOrder(t),
           NEW p, OneToOne(p, DOMAIN s, DOMAIN t), \A i \in DOMAIN s : s[i] = t[p[i]],
           NEW n \in DOMAIN s, \A i \in 1 .. n - 1 : s[i] = t[i]
    PROVE  ~ Less(s[n], t[n])
<1> SUFFICES ASSUME Less(s[n], t[n])
             PROVE  FALSE
  OBVIOUS
<1> DEFINE len == Len(s)
           P == {i \in 1 .. n : s[i] = s[n]}
           Q == {i \in 1 .. n - 1 : s[i] = s[n]}
           f == [i \in P |-> p[i]]
<1>1. len \in Nat /\ DOMAIN s = 1 .. len /\ n \in 1 .. len /\ s[n] \in Mappings
  <2>1. len \in Nat /\ DOMAIN s = 1 .. len
    BY LenProperties
  <2> QED BY <2>1, ElementOfSeq
<1> HIDE DEF len
<1>2. IsFiniteSet(Q) /\ n \notin Q /\ P = Q \cup {n}
  <2>1. Q \subseteq 1 .. n - 1 /\ IsFiniteSet(1 .. n - 1)
    <3>1. n - 1 \in Int /\ Q \subseteq 1 .. n - 1
      BY <1>1
    <3> QED BY <3>1, FS_Interval
  <2>2. \A i \in 1 .. n : i \in 1 .. n - 1 \/ i = n
    BY <1>1
  <2>3. n \in 1 .. n /\ n \notin 1 .. n - 1 /\ \A i \in 1 .. n - 1 : i \in 1 .. n
    BY <1>1
  <2> QED BY <2>1, <2>2, <2>3, FS_Subset
<1>3. IsFiniteSet(P) /\ Cardinality(Q) < Cardinality(P)
  <2> HIDE DEF P, Q
  <2>1. Cardinality(Q) \in Nat
    BY <1>2, FS_CardinalityType
  <2>2. IsFiniteSet(P) /\ Cardinality(P) = Cardinality(Q) + 1
    BY <1>2, FS_AddElement
  <2> QED BY <2>1, <2>2
<1>4. ASSUME NEW i \in P
      PROVE  p[i] \in Q
  <2>1. i \in DOMAIN s /\ s[i] = s[n]
    BY <1>1
  <2>2. p[i] \in 1 .. len /\ t[p[i]] = s[n]
    BY <1>1, <2>1 DEF OneToOne
  <2>3. CASE p[i] < n
    <3>1. p[i] \in 1 .. n - 1
      BY <1>1, <2>2, <2>3
    <3> QED BY <2>2, <3>1
  <2>4. CASE p[i] = n
    BY <1>1, <2>2, <2>4, LessIsStrict
  <2>5. CASE n < p[i]
    <3>1. n \in DOMAIN t /\ p[i] \in DOMAIN t
      BY <1>1, <2>2
    <3>2. ~ Less(t[p[i]], t[n])
      BY <2>5, <3>1 DEF InOrder
    <3> QED BY <2>2, <3>2
  <2> QED BY <1>1, <2>2, <2>3, <2>4, <2>5
<1>5. f \in [P -> Q] /\ \A i \in P : f[i] = p[i] /\ i \in DOMAIN s
  <2>1. \A i \in 1 .. n : i \in DOMAIN s
    BY <1>1
  <2> QED BY <1>4, <2>1
<1> HIDE DEF P, Q, f
<1>6. PICK i, j \in P : i # j /\ f[i] = f[j]
  BY <1>2, <1>3, <1>5, FS_PigeonHole
<1> QED BY <1>5, <1>6 DEF OneToOne

LEMMA SortedOnce ==
    ASSUME NEW s \in Seq(Mappings), NEW t \in Seq(Mappings), InOrder(s), InOrder(t),
           NEW p, OneToOne(p, DOMAIN s, DOMAIN t), \A i \in DOMAIN s : s[i] = t[p[i]]
    PROVE  s = t
<1> DEFINE len == Len(s)
           lent == Len(t)
           D == {i \in 1 .. len : s[i] # t[i]}
<1>1. len \in Nat /\ DOMAIN s = 1 .. len /\ lent \in Nat /\ DOMAIN t = 1 .. lent
  BY LenProperties
<1>2. len = lent
  <2> HIDE DEF len, lent
  <2>1. IsFiniteSet(1 .. len) /\ Cardinality(1 .. len) = len /\ Cardinality(1 .. lent) = lent
    BY <1>1, FS_Interval
  <2>2. p \in Bijection(1 .. len, 1 .. lent)
    BY <1>1, Fun_IsBij DEF OneToOne
  <2> QED BY <2>1, <2>2, FS_Bijection DEF ExistsBijection
<1>3. D = {}
  <2> SUFFICES ASSUME D # {}
               PROVE  FALSE
    OBVIOUS
  <2>1. PICK n \in D : \A i \in D : n <= i
    <3>1. D \in SUBSET Nat
      BY <1>1
    <3> HIDE DEF D
    <3> QED BY <3>1, LeastNumber
  <2>2. n \in 1 .. len /\ s[n] # t[n] /\ \A i \in 1 .. n - 1 : s[i] = t[i]
    <3>1. n \in 1 .. len /\ s[n] # t[n]
      OBVIOUS
    <3>2. ASSUME NEW i \in 1 .. n - 1, s[i] # t[i]
          PROVE  FALSE
      <4>1. i \in D /\ ~ (n <= i)
        BY <1>1, <3>1, <3>2
      <4> HIDE DEF D
      <4> QED BY <2>1, <4>1
    <3> QED BY <3>1, <3>2
  <2> HIDE DEF D, len, lent
  <2>3. DOMAIN s = DOMAIN t /\ n \in DOMAIN s /\ n \in DOMAIN t
    BY <1>1, <1>2, <2>2
  <2>4. ~ Less(s[n], t[n])
    BY <2>2, <2>3, NotLessAtFirst
  <2>5. ~ Less(t[n], s[n])
    <3>1. PICK g : OneToOne(g, DOMAIN t, DOMAIN s) /\ \A j \in DOMAIN t : p[g[j]] = j
      BY OneToOneBack
    <3>2. \A j \in DOMAIN t : t[j] = s[g[j]]
      BY <3>1 DEF OneToOne
    <3>3. \A i \in 1 .. n - 1 : t[i] = s[i]
      BY <2>2
    <3> QED BY <2>3, <3>1, <3>2, <3>3, NotLessAtFirst
  <2>6. s[n] \in Mappings /\ t[n] \in Mappings
    BY <1>1, <2>3, ElementOfSeq DEF len, lent
  <2> QED BY <2>2, <2>4, <2>5, <2>6, LessIsTotal
<1>4. Len(s) = Len(t) /\ \A i \in 1 .. Len(s) : s[i] = t[i]
  BY <1>2, <1>3
<1> QED BY <1>4, SeqEqual

LEMMA LaidInOrderOnce ==
    ASSUME NEW q, NEW W, NEW E, NEW s, Laid(q, s, W, E), InOrder(s), NEW t, Laid(q, t, W, E), InOrder(t)
    PROVE  s = t
<1> DEFINE A == Sources(q, W, E)
<1>1. s \in Seq(Mappings) /\ t \in Seq(Mappings)
  BY DEF Laid
<1>2. PICK f : OneToOne(f, DOMAIN s, A) /\ \A i \in DOMAIN s : s[i] = What(q, f[i])
  BY DEF Laid
<1>3. PICK g : OneToOne(g, DOMAIN t, A) /\ \A i \in DOMAIN t : t[i] = What(q, g[i])
  BY DEF Laid
<1> HIDE DEF A
<1>4. PICK b : OneToOne(b, A, DOMAIN t) /\ \A x \in A : g[b[x]] = x
  BY <1>3, OneToOneBack
<1> DEFINE p == [i \in DOMAIN s |-> b[f[i]]]
<1>5. OneToOne(p, DOMAIN s, DOMAIN t)
  BY <1>2, <1>4, OneToOneThrough
<1>6. \A i \in DOMAIN s : s[i] = t[p[i]]
  <2> SUFFICES ASSUME NEW i \in DOMAIN s
               PROVE  s[i] = t[p[i]]
    OBVIOUS
  <2>1. f[i] \in A /\ p[i] = b[f[i]] /\ b[f[i]] \in DOMAIN t
    BY <1>2, <1>4 DEF OneToOne
  <2> QED BY <1>2, <1>3, <1>4, <2>1
<1> HIDE DEF p
<1> QED BY <1>1, <1>5, <1>6, SortedOnce

-----------------------------------------------------------------------------
(***************************************************************************)
(* The invariant of a /create.  The keys that are walked are those of      *)
(* their map that are not left.                                            *)
(***************************************************************************)
BoundKeys ==
    IF stage = "name" THEN {}
    ELSE IF stage = "bind" THEN DOMAIN request.bindings \ left
    ELSE DOMAIN request.bindings
ExposedKeys ==
    IF stage \in {"name", "bind"} THEN {}
    ELSE IF stage = "expose" THEN request.exposed \ left
    ELSE request.exposed

\* What was walked was taken, and the mappings are those of it.
WalkInv ==
    /\ stage = "bind" => left \subseteq DOMAIN request.bindings
    /\ stage = "expose" => left \subseteq request.exposed
    /\ stage # "refused" =>
          /\ Laid(request, ports, BoundKeys, ExposedKeys)
          /\ bound = {Target(k) : k \in BoundKeys}
          /\ \A k \in BoundKeys \cup ExposedKeys : Parses(k)

TypedAndWalked == TypeOK /\ WalkInv

LEMMA RequestIs ==
    ASSUME NEW q \in Requests
    PROVE  /\ DOMAIN q.bindings \subseteq Keys /\ q.exposed \subseteq Keys
           /\ q.nanoCPUs \in -MaxInt - 1 .. MaxInt /\ q.user \in Seq(Int)
  BY RequestsAreWhole

\* A division that rounds up.
LEMMA CeilDiv ==
    ASSUME NEW n \in Nat, NEW k \in Nat \ {0}
    PROVE  LET d == (n + k - 1) \div k
           IN  d \in Nat /\ d * k >= n /\ d * k - n < k
<1> DEFINE m == n + k - 1
           d == m \div k
           r == m % k
<1>1. m \in Nat
  OBVIOUS
<1>2. d \in Int /\ r \in 0 .. k - 1 /\ m = k * d + r
  <2> HIDE DEF m
  <2> QED BY <1>1
<1>3. m = n + k - 1
  OBVIOUS
<1> HIDE DEF m, d, r
<1>4. d * k >= n /\ d * k - n < k
  <2>1. k * d = d * k
    BY <1>2
  <2> DEFINE dk == d * k
  <2>2. dk \in Int /\ m = dk + r
    BY <1>2, <2>1
  <2> HIDE DEF dk
  <2>3. dk >= n /\ dk - n < k
    BY <1>2, <1>3, <2>2
  <2> QED BY <2>3 DEF dk
<1>5. d >= 0
  <2> SUFFICES ASSUME d <= -1
               PROVE  FALSE
    BY <1>2
  <2>1. d * k <= -k
    BY <1>2
  <2>2. d * k \in Int
    BY <1>2
  <2> QED BY <1>4, <2>1, <2>2
<1> QED BY <1>2, <1>4, <1>5 DEF d, m

LEMMA DivAbove ==
    ASSUME NEW m \in Int, NEW k \in Nat \ {0}, m > k
    PROVE  m \div k \in Int /\ m \div k > 0
<1> DEFINE d == m \div k
           r == m % k
<1>1. d \in Int /\ r \in 0 .. k - 1 /\ m = k * d + r
  OBVIOUS
<1> HIDE DEF d, r
<1>2. d > 0
  <2> SUFFICES ASSUME d <= 0
               PROVE  FALSE
    BY <1>1
  <2>1. k * d <= 0 /\ k * d \in Int
    BY <1>1
  <2> QED BY <1>1, <2>1
<1> QED BY <1>1, <1>2 DEF d

\* The CPU of a request in thousandths, and what comes of it where the sum overflows.
LEMMA MilliIs ==
    ASSUME NEW n \in -MaxInt - 1 .. MaxInt
    PROVE  /\ Milli(n) \in Int
           /\ n <= 0 => Milli(n) = 0
           /\ n \in 1 .. MaxInt - NanoPerMilli + 1 =>
                 Milli(n) * NanoPerMilli >= n /\ Milli(n) * NanoPerMilli - n < NanoPerMilli
           /\ n > MaxInt - NanoPerMilli + 1 => Milli(n) < 0
<1> DEFINE k == NanoPerMilli
<1>1. k \in Nat \ {0} /\ MaxInt \in Nat /\ MaxInt > 2 * k /\ n \in Int
  BY Width, SMT DEF NanoPerMilli
<1>2. Milli(n) = IF n > 0 THEN Quotient(Wrapped(n + k - 1), k) ELSE 0
  BY DEF Milli
<1> HIDE DEF k
<1>3. CASE n <= 0
  BY <1>1, <1>2, <1>3 DEF k
<1>4. CASE n > 0 /\ n <= MaxInt - k + 1
  <2>1. Wrapped(n + k - 1) = n + k - 1 /\ ~ (n + k - 1 < 0)
    BY <1>1, <1>4 DEF Wrapped
  <2>2. Milli(n) = (n + k - 1) \div k
    BY <1>2, <1>4, <2>1 DEF Quotient
  <2>3. n \in Nat
    BY <1>1, <1>4
  <2>4. /\ (n + k - 1) \div k \in Nat
        /\ ((n + k - 1) \div k) * k >= n /\ ((n + k - 1) \div k) * k - n < k
    BY <1>1, <2>3, CeilDiv
  <2> DEFINE d == (n + k - 1) \div k
  <2> HIDE DEF d
  <2>5. Milli(n) \in Int /\ Milli(n) * k >= n /\ Milli(n) * k - n < k
    BY <2>2, <2>4 DEF d
  <2> QED BY <1>1, <1>4, <2>5 DEF k
<1>5. CASE n > MaxInt - k + 1
  <2> DEFINE w == n + k - 1 - MaxInt - MaxInt - 2
  <2>1. n > 0 /\ w \in Int /\ w < -k
    BY <1>1, <1>5
  <2>2. Wrapped(n + k - 1) = w
    BY <1>1, <1>5 DEF Wrapped
  <2> HIDE DEF w
  <2>3. Milli(n) = -((-w) \div k)
    BY <1>1, <1>2, <2>1, <2>2 DEF Quotient
  <2>4. -w \in Int /\ -w > k
    BY <1>1, <2>1
  <2>5. (-w) \div k \in Int /\ (-w) \div k > 0
    BY <1>1, <2>4, DivAbove
  <2> DEFINE d == (-w) \div k
  <2> HIDE DEF d
  <2>6. Milli(n) = -d /\ d \in Int /\ d > 0
    BY <2>3, <2>5 DEF d
  <2> QED BY <1>1, <1>5, <2>1, <2>6 DEF k
<1> QED BY <1>1, <1>3, <1>4, <1>5

LEMMA WalkInit == SpecInit => TypedAndWalked
<1> SUFFICES ASSUME SpecInit
             PROVE  TypedAndWalked
  OBVIOUS
<1>1. BoundKeys = {} /\ ExposedKeys = {}
  BY DEF SpecInit, BoundKeys, ExposedKeys
<1>2. Laid(request, ports, BoundKeys, ExposedKeys)
  BY <1>1, LaidNothing DEF SpecInit
<1>3. TypeOK
  BY DEF SpecInit, TypeOK
<1> QED BY <1>1, <1>2, <1>3 DEF SpecInit, TypedAndWalked, WalkInv

LEMMA WalkBind == TypedAndWalked /\ Bind => TypedAndWalked'
<1> SUFFICES ASSUME TypedAndWalked, Bind
             PROVE  TypedAndWalked'
  OBVIOUS
<1> USE DEF TypedAndWalked, TypeOK, WalkInv, Enter
<1>1. PICK k \in left : /\ Parses(k) /\ bound' = bound \cup {Target(k)}
                        /\ ports' = ports \o [i \in DOMAIN HostsOf(request, k) |->
                                                  Mapping(Target(k), HostsOf(request, k)[i])]
                        /\ stage' = "bind" /\ left' = left \ {k}
  BY DEF Bind, HostsOf
<1>2. /\ stage = "bind" /\ request' = request /\ request \in Requests
      /\ UNCHANGED <<containerPorts, cpu, annotation>>
  BY DEF Bind
<1>3. k \in DOMAIN request.bindings /\ k \in Keys /\ k \notin BoundKeys
  BY <1>1, <1>2, RequestIs DEF BoundKeys
<1>4. BoundKeys' = BoundKeys \cup {k} /\ ExposedKeys' = {} /\ ExposedKeys = {}
  BY <1>1, <1>2 DEF BoundKeys, ExposedKeys
<1>5. Laid(request, ports', BoundKeys \cup {k}, {})
  <2> HIDE DEF TypeOK
  <2> QED BY <1>1, <1>2, <1>3, <1>4, LaidBind
<1>6. ports' \in Seq(Mappings) /\ Laid(request', ports', BoundKeys', ExposedKeys')
  BY <1>2, <1>4, <1>5 DEF Laid
<1>7. bound' = {Target(j) : j \in BoundKeys'} /\ bound' \subseteq Targets
  BY <1>1, <1>2, <1>3, <1>4, TargetIsTarget
<1>8. \A j \in BoundKeys' \cup ExposedKeys' : Parses(j)
  BY <1>1, <1>2, <1>4
<1> QED BY <1>1, <1>2, <1>6, <1>7, <1>8

LEMMA WalkExpose == TypedAndWalked /\ Expose => TypedAndWalked'
<1> SUFFICES ASSUME TypedAndWalked, Expose
             PROVE  TypedAndWalked'
  OBVIOUS
<1> USE DEF TypedAndWalked, TypeOK, WalkInv, Enter
<1>1. PICK k \in left : /\ Parses(k)
                        /\ ports' = IF Target(k) \in bound THEN ports
                                    ELSE Append(ports, Mapping(Target(k), Empty))
                        /\ stage' = "expose" /\ left' = left \ {k}
  BY DEF Expose
<1>2. /\ stage = "expose" /\ request' = request /\ request \in Requests
      /\ UNCHANGED <<bound, containerPorts, cpu, annotation>>
  BY DEF Expose
<1>3. k \in request.exposed /\ k \in Keys /\ k \notin ExposedKeys
  BY <1>1, <1>2, RequestIs DEF ExposedKeys
<1>4. /\ BoundKeys' = BoundKeys /\ BoundKeys = DOMAIN request.bindings
      /\ ExposedKeys' = ExposedKeys \cup {k}
  BY <1>1, <1>2, <1>3 DEF BoundKeys, ExposedKeys
<1>5. bound = BoundOf(request)
  BY <1>2, <1>4 DEF BoundOf
<1>6. Laid(request, ports', BoundKeys, ExposedKeys \cup {k})
  <2>1. Laid(request, ports, BoundKeys, ExposedKeys) /\ BoundKeys \in SUBSET DOMAIN request.bindings
    BY <1>2, <1>4
  <2> HIDE DEF TypeOK
  <2> QED BY <1>1, <1>2, <1>3, <1>5, <2>1, LaidExpose
<1>7. ports' \in Seq(Mappings) /\ Laid(request', ports', BoundKeys', ExposedKeys')
  BY <1>2, <1>4, <1>6 DEF Laid
<1>8. bound' = {Target(j) : j \in BoundKeys'}
  BY <1>2, <1>4
<1>9. \A j \in BoundKeys' \cup ExposedKeys' : Parses(j)
  BY <1>1, <1>2, <1>4
<1> QED BY <1>1, <1>2, <1>7, <1>8, <1>9

LEMMA WalkSort == TypedAndWalked /\ Sort => TypedAndWalked' /\ InOrder(ports')
                                            /\ containerPorts' = DedupContainerPorts(ports')
<1> SUFFICES ASSUME TypedAndWalked, Sort
             PROVE  TypedAndWalked' /\ InOrder(ports') /\ containerPorts' = DedupContainerPorts(ports')
  OBVIOUS
<1>1. /\ stage = "sort" /\ stage' = "fit" /\ left' = {} /\ ports' \in Orders(ports)
      /\ InOrder(ports') /\ containerPorts' = DedupContainerPorts(ports')
      /\ UNCHANGED <<request, bound, cpu, annotation>>
  BY DEF Sort, Enter
<1>2. /\ BoundKeys = DOMAIN request.bindings /\ BoundKeys' = DOMAIN request.bindings
      /\ ExposedKeys = request.exposed /\ ExposedKeys' = request.exposed
  BY <1>1 DEF BoundKeys, ExposedKeys
<1>3. /\ Laid(request, ports, BoundKeys, ExposedKeys) /\ bound = {Target(k) : k \in BoundKeys}
      /\ \A k \in BoundKeys \cup ExposedKeys : Parses(k)
  BY <1>1 DEF TypedAndWalked, WalkInv
<1>4. Laid(request', ports', BoundKeys', ExposedKeys') /\ ports' \in Seq(Mappings)
  <2>1. Laid(request, ports', BoundKeys, ExposedKeys)
    BY <1>1, <1>3, LaidInAnyOrder
  <2> QED BY <1>1, <1>2, <2>1 DEF Laid
<1>5. containerPorts' \in Seq(Targets)
  BY <1>1, <1>4, DedupIs
<1>6. TypeOK'
  BY <1>1, <1>4, <1>5 DEF TypedAndWalked, TypeOK
<1>7. WalkInv'
  BY <1>1, <1>2, <1>3, <1>4 DEF WalkInv
<1> QED BY <1>1, <1>6, <1>7 DEF TypedAndWalked

\* annotation has the ports with what allocateHostPorts writes for those that are unset.
Allocated(s, a) ==
    /\ a \in Seq(Mappings) /\ DOMAIN a = DOMAIN s
    /\ \A i \in DOMAIN s :
          IF s[i].host \in Unset THEN \E h \in Given : a[i] = [s[i] EXCEPT !.host = h]
                                 ELSE a[i] = s[i]

LEMMA CreateAllocates == ports \in Seq(Mappings) /\ Create => Allocated(ports, annotation')
<1> SUFFICES ASSUME ports \in Seq(Mappings), Create
             PROVE  Allocated(ports, annotation')
  OBVIOUS
<1> DEFINE unset == {i \in DOMAIN ports : ports[i].host \in Unset}
           n == Len(ports)
<1>1. PICK port \in [unset -> Given] :
          annotation' = [i \in DOMAIN ports |->
              IF i \in unset THEN [ports[i] EXCEPT !.host = port[i]] ELSE ports[i]]
  BY DEF Create
<1>2. n \in Nat /\ DOMAIN ports = 1 .. n /\ \A i \in 1 .. n : ports[i] \in Mappings
  BY ElementOfSeq, LenProperties
<1>3. \A i \in unset : port[i] \in Given /\ port[i] \in Texts
  BY PortTexts
<1> DEFINE a == annotation'
<1>4. /\ DOMAIN a = 1 .. n
      /\ \A i \in 1 .. n : a[i] = IF i \in unset THEN [ports[i] EXCEPT !.host = port[i]] ELSE ports[i]
  BY <1>1, <1>2
<1>5. \A i \in 1 .. n : a[i] \in Mappings
  <2> SUFFICES ASSUME NEW i \in 1 .. n
               PROVE  a[i] \in Mappings
    OBVIOUS
  <2>1. ports[i] \in Mappings
    BY <1>2
  <2>2. CASE i \in unset
    <3>1. a[i] = [ports[i] EXCEPT !.host = port[i]] /\ port[i] \in Texts
      BY <1>3, <1>4, <2>2
    <3> QED BY <2>1, <3>1 DEF Mappings
  <2>3. CASE i \notin unset
    BY <1>4, <2>1, <2>3
  <2> QED BY <2>2, <2>3
<1>6. a \in Seq(Mappings)
  <2>1. a = [i \in 1 .. n |-> a[i]]
    BY <1>1, <1>2
  <2>2. a \in [1 .. n -> Mappings]
    BY <1>5, <2>1
  <2> HIDE DEF a, n
  <2> QED BY <1>2, <2>2
<1>7. ASSUME NEW i \in DOMAIN ports
      PROVE  IF ports[i].host \in Unset THEN \E h \in Given : a[i] = [ports[i] EXCEPT !.host = h]
                                        ELSE a[i] = ports[i]
  BY <1>2, <1>3, <1>4
<1> QED BY <1>2, <1>4, <1>6, <1>7 DEF Allocated

LEMMA WalkNext == TypedAndWalked /\ [SpecNext]_specVars => TypedAndWalked'
<1> SUFFICES ASSUME TypedAndWalked, [SpecNext]_specVars
             PROVE  TypedAndWalked'
  OBVIOUS
<1> USE DEF TypedAndWalked, TypeOK, WalkInv, Enter
<1>1. CASE NameGiven \/ NameGenerated
  <2>1. /\ stage = "name" /\ stage' = "bind" /\ left' = DOMAIN request.bindings
        /\ UNCHANGED <<request, bound, ports, containerPorts, cpu, annotation>>
    BY <1>1 DEF NameGiven, NameGenerated
  <2>2. BoundKeys' = {} /\ ExposedKeys' = {} /\ BoundKeys = {} /\ ExposedKeys = {}
    BY <2>1 DEF BoundKeys, ExposedKeys
  <2> QED BY <2>1, <2>2
<1>2. CASE ImageRefused \/ NameRefused \/ KeyRefused \/ UserRefused
  BY <1>2 DEF ImageRefused, NameRefused, KeyRefused, UserRefused, Refuse, buildVars
<1>3. CASE Bind
  BY <1>3, WalkBind
<1>4. CASE AllBound
  <2>1. /\ stage = "bind" /\ stage' = "expose" /\ left = {} /\ left' = request.exposed
        /\ UNCHANGED <<request, bound, ports, containerPorts, cpu, annotation>>
    BY <1>4 DEF AllBound, buildVars
  <2>2. BoundKeys' = BoundKeys /\ ExposedKeys' = {} /\ ExposedKeys = {}
    BY <2>1 DEF BoundKeys, ExposedKeys
  <2> QED BY <2>1, <2>2
<1>5. CASE Expose
  BY <1>5, WalkExpose
<1>6. CASE AllExposed
  <2>1. /\ stage = "expose" /\ stage' = "sort" /\ left = {} /\ left' = {}
        /\ UNCHANGED <<request, bound, ports, containerPorts, cpu, annotation>>
    BY <1>6 DEF AllExposed, buildVars
  <2>2. BoundKeys' = BoundKeys /\ ExposedKeys' = ExposedKeys
    BY <2>1 DEF BoundKeys, ExposedKeys
  <2> QED BY <2>1, <2>2
<1>7. CASE Sort
  BY <1>7, WalkSort
<1>8. CASE Fit
  <2>1. /\ stage = "fit" /\ stage' = "built" /\ left' = {} /\ annotation' = ports
        /\ cpu' = Milli(request.nanoCPUs) /\ UNCHANGED <<request, bound, ports, containerPorts>>
    BY <1>8 DEF Fit
  <2>2. BoundKeys' = BoundKeys /\ ExposedKeys' = ExposedKeys
    BY <2>1 DEF BoundKeys, ExposedKeys
  <2>3. cpu' \in Int
    BY <2>1, RequestIs, MilliIs
  <2> QED BY <2>1, <2>2, <2>3
<1>9. CASE Create
  <2>1. /\ stage = "built" /\ stage' = "created" /\ left' = {}
        /\ UNCHANGED <<request, bound, ports, containerPorts, cpu>>
    BY <1>9 DEF Create
  <2>2. BoundKeys' = BoundKeys /\ ExposedKeys' = ExposedKeys
    BY <2>1 DEF BoundKeys, ExposedKeys
  <2>3. annotation' \in Seq(Mappings)
    BY <1>9, CreateAllocates DEF Allocated
  <2> QED BY <2>1, <2>2, <2>3
<1>10. CASE Again
  <2>1. /\ stage' = "name" /\ left' = {} /\ bound' = {} /\ ports' = <<>> /\ containerPorts' = <<>>
        /\ cpu' = 0 /\ annotation' = <<>> /\ request' = request
    BY <1>10 DEF Again
  <2>2. BoundKeys' = {} /\ ExposedKeys' = {}
    BY <2>1 DEF BoundKeys, ExposedKeys
  <2>3. Laid(request', ports', BoundKeys', ExposedKeys')
    BY <2>1, <2>2, LaidNothing
  <2> QED BY <2>1, <2>2, <2>3
<1>11. CASE UNCHANGED specVars
  BY <1>11 DEF specVars, buildVars, BoundKeys, ExposedKeys
<1> QED BY <1>1, <1>2, <1>3, <1>4, <1>5, <1>6, <1>7, <1>8, <1>9, <1>10, <1>11 DEF SpecNext

\* The state of a /create has its type.
THEOREM PodSpecsTypeCorrect == Spec => []TypeOK
<1>1. TypedAndWalked => TypeOK
  BY DEF TypedAndWalked
<1> QED BY <1>1, WalkInit, WalkNext, PTL DEF Spec

-----------------------------------------------------------------------------
(***************************************************************************)
(* What comes of a request.                                                *)
(***************************************************************************)
Accepts(q) ==
    /\ q.image # <<>>
    /\ q.name # <<>> => Sanitize(q.name) # <<>>
    /\ \A k \in DOMAIN q.bindings \cup q.exposed : Parses(k)
    /\ \A i \in DOMAIN q.user : q.user[i] >= 0

\* The mappings of all that q asks for, sorted.
Whole(q, s) == Laid(q, s, DOMAIN q.bindings, q.exposed) /\ InOrder(s)

OutcomeOf(q, e) ==
    /\ e.stage \in {"created", "refused"}
    /\ e.stage = "refused" => ~ Accepts(q)
    /\ e.stage = "created" =>
          Accepts(q) /\ Whole(q, e.ports) /\ (q.name # <<>> => e.podName = Sanitize(q.name))

OutcomeInv ==
    /\ stage \in {"fit", "built", "created"} =>
          InOrder(ports) /\ containerPorts = DedupContainerPorts(ports)
    /\ stage \in {"built", "created"} =>
          cpu = Milli(request.nanoCPUs) /\ \A i \in DOMAIN request.user : request.user[i] >= 0
    /\ stage = "created" => Allocated(ports, annotation)
    /\ stage = "refused" => ~ Accepts(request)
    /\ earlier = None \/ OutcomeOf(request, earlier)

PodSpecsInv == NamesInv /\ TypedAndWalked /\ OutcomeInv

\* What is created was accepted, and has the mappings of the whole request.
LEMMA CreatedIsAccepted ==
    ASSUME PodSpecsInv, stage = "created"
    PROVE  /\ request \in Requests /\ Accepts(request) /\ Whole(request, ports)
           /\ request.name # <<>> => podName = Sanitize(request.name)
           /\ bound = BoundOf(request)
<1>1. BoundKeys = DOMAIN request.bindings /\ ExposedKeys = request.exposed
  BY DEF BoundKeys, ExposedKeys
<1>2. /\ Laid(request, ports, BoundKeys, ExposedKeys) /\ bound = {Target(k) : k \in BoundKeys}
      /\ \A k \in BoundKeys \cup ExposedKeys : Parses(k)
  BY DEF PodSpecsInv, TypedAndWalked, WalkInv
<1>3. Named /\ request \in Requests
  BY DEF PodSpecsInv, NamesInv
<1> QED BY <1>1, <1>2, <1>3 DEF PodSpecsInv, OutcomeInv, Accepts, Whole, Named, BoundOf

LEMMA OutcomeNext == PodSpecsInv /\ [SpecNext]_specVars => OutcomeInv'
<1> SUFFICES ASSUME PodSpecsInv, [SpecNext]_specVars
             PROVE  OutcomeInv'
  OBVIOUS
<1>1. request' = request
  BY DEF SpecNext, specVars, ImageRefused, NameGiven, NameRefused, NameGenerated, Bind, AllBound, Expose, AllExposed,
         KeyRefused, Sort, Fit, UserRefused, Create, Again, Refuse
<1>2. OutcomeInv
  BY DEF PodSpecsInv
<1>3. CASE NameGiven \/ NameGenerated
  BY <1>2, <1>3 DEF NameGiven, NameGenerated, Enter, OutcomeInv
<1>4. CASE ImageRefused \/ NameRefused
  BY <1>2, <1>4 DEF ImageRefused, NameRefused, Refuse, Enter, OutcomeInv, Accepts
<1>5. CASE KeyRefused
  <2>1. PICK k \in left : ~ Parses(k)
    BY <1>5 DEF KeyRefused
  <2>2. k \in DOMAIN request.bindings \cup request.exposed
    BY <2>1 DEF PodSpecsInv, TypedAndWalked, TypeOK
  <2>3. ~ Accepts(request)
    BY <2>1, <2>2 DEF Accepts
  <2> QED BY <1>1, <1>2, <1>5, <2>3 DEF KeyRefused, Refuse, Enter, OutcomeInv
<1>6. CASE UserRefused
  <2>1. PICK i \in DOMAIN request.user : request.user[i] < 0
    BY <1>6 DEF UserRefused
  <2>2. request.user[i] \in Int
    <3>1. request \in Requests
      BY DEF PodSpecsInv, NamesInv
    <3>2. request.user \in Seq(Int)
      BY <3>1, RequestIs
    <3> QED BY <2>1, <3>2, ElementOfSeq, LenProperties
  <2>3. ~ (request.user[i] >= 0)
    BY <2>1, <2>2
  <2>4. ~ Accepts(request)
    BY <2>1, <2>3 DEF Accepts
  <2> QED BY <1>1, <1>2, <1>6, <2>4 DEF UserRefused, Refuse, Enter, OutcomeInv
<1>7. CASE Bind
  BY <1>2, <1>7 DEF Bind, Enter, OutcomeInv
<1>8. CASE AllBound
  BY <1>2, <1>8 DEF AllBound, Enter, OutcomeInv
<1>9. CASE Expose
  BY <1>2, <1>9 DEF Expose, Enter, OutcomeInv
<1>10. CASE AllExposed
  BY <1>2, <1>10 DEF AllExposed, Enter, OutcomeInv
<1>11. CASE Sort
  <2>1. InOrder(ports') /\ containerPorts' = DedupContainerPorts(ports')
    BY <1>11, WalkSort DEF PodSpecsInv
  <2> QED BY <1>2, <1>11, <2>1 DEF Sort, Enter, OutcomeInv
<1>12. CASE Fit
  <2>1. request \in Requests
    BY DEF PodSpecsInv, NamesInv
  <2> QED BY <1>2, <1>12, <2>1 DEF Fit, Enter, OutcomeInv
<1>13. CASE Create
  <2>1. Allocated(ports, annotation')
    BY <1>13, CreateAllocates DEF PodSpecsInv, TypedAndWalked, TypeOK
  <2>2. ports' = ports /\ stage = "built" /\ stage' = "created"
        /\ UNCHANGED <<request, containerPorts, cpu, earlier>>
    BY <1>13 DEF Create, Enter
  <2> QED BY <1>2, <2>1, <2>2 DEF OutcomeInv
<1>14. CASE Again
  <2>1. /\ earlier' = [stage |-> stage, ports |-> ports, podName |-> podName]
        /\ stage \in {"created", "refused"} /\ stage' = "name"
    BY <1>14 DEF Again, Enter
  <2>2. OutcomeOf(request, earlier')
    <3>1. /\ earlier'.stage = stage /\ earlier'.ports = ports /\ earlier'.podName = podName
      BY <2>1
    <3>2. CASE stage = "created"
      <4>1. Accepts(request) /\ Whole(request, ports) /\ (request.name # <<>> => podName = Sanitize(request.name))
        BY <3>2, CreatedIsAccepted
      <4> QED BY <3>1, <3>2, <4>1 DEF OutcomeOf
    <3>3. CASE stage = "refused"
      BY <1>2, <3>1, <3>3 DEF OutcomeOf, OutcomeInv
    <3> QED BY <2>1, <3>2, <3>3
  <2> QED BY <1>1, <2>1, <2>2 DEF OutcomeInv
<1>15. CASE UNCHANGED specVars
  BY <1>2, <1>15 DEF specVars, buildVars, OutcomeInv
<1> QED BY <1>3, <1>4, <1>5, <1>6, <1>7, <1>8, <1>9, <1>10, <1>11, <1>12, <1>13, <1>14, <1>15 DEF SpecNext

LEMMA AlwaysWhole == Spec => []PodSpecsInv
<1>1. SpecInit => PodSpecsInv
  <2>1. SpecInit => OutcomeInv
    BY DEF SpecInit, OutcomeInv
  <2> QED BY <2>1, NamesInit, WalkInit DEF PodSpecsInv
<1>2. PodSpecsInv /\ [SpecNext]_specVars => PodSpecsInv'
  BY NamesNext, WalkNext, OutcomeNext DEF PodSpecsInv
<1> QED BY <1>1, <1>2, PTL DEF Spec

\* What comes of a request does not depend on the order in which Go walks its maps, nor on what its
\* sort makes of equals: the same request is refused again, or gets the same mappings in the same
\* order (podspec/spec.go:192-225).
THEOREM SameRequestSameMappings == Spec => []SameOutcome
<1>1. PodSpecsInv => SameOutcome
  <2> SUFFICES ASSUME PodSpecsInv, Finished, earlier # None
               PROVE  /\ stage = earlier.stage
                      /\ stage = "created" => ports = earlier.ports
                      /\ stage = "created" /\ request.name # <<>> => podName = earlier.podName
    BY DEF SameOutcome
  <2>1. OutcomeInv /\ OutcomeOf(request, earlier)
    BY DEF PodSpecsInv, OutcomeInv
  <2>2. CASE stage = "created"
    <3>1. /\ Accepts(request) /\ Whole(request, ports)
          /\ request.name # <<>> => podName = Sanitize(request.name)
      BY <2>2, CreatedIsAccepted
    <3>2. /\ earlier.stage = "created" /\ Whole(request, earlier.ports)
          /\ request.name # <<>> => earlier.podName = Sanitize(request.name)
      BY <2>1, <3>1 DEF OutcomeOf
    <3>3. ports = earlier.ports
      BY <3>1, <3>2, LaidInOrderOnce DEF Whole
    <3> QED BY <2>2, <3>1, <3>2, <3>3
  <2>3. CASE stage = "refused"
    BY <2>1, <2>3 DEF OutcomeOf, OutcomeInv
  <2> QED BY <2>2, <2>3 DEF Finished
<1> QED BY <1>1, AlwaysWhole, PTL

\* A container that asks for some CPU gets that much and less than a thousandth more, unless the
\* sum overflows, when the limit is negative (podspec/spec.go:143-147).
THEOREM CPURoundsUp == Spec => []CPUAsAsked
<1>1. PodSpecsInv => CPUAsAsked
  <2> SUFFICES ASSUME PodSpecsInv, stage = "created"
               PROVE  /\ request.nanoCPUs <= 0 => cpu = 0
                      /\ request.nanoCPUs \in 1 .. MaxInt - NanoPerMilli + 1 =>
                            /\ cpu * NanoPerMilli >= request.nanoCPUs
                            /\ cpu * NanoPerMilli - request.nanoCPUs < NanoPerMilli
                      /\ request.nanoCPUs > MaxInt - NanoPerMilli + 1 => cpu < 0
    BY DEF CPUAsAsked
  <2>1. cpu = Milli(request.nanoCPUs) /\ request \in Requests
    BY DEF PodSpecsInv, OutcomeInv, NamesInv
  <2> QED BY <2>1, RequestIs, MilliIs
<1> QED BY <1>1, AlwaysWhole, PTL

-----------------------------------------------------------------------------
(***************************************************************************)
(* What inspect and ps show.                                               *)
(***************************************************************************)
LEMMA SourceIs ==
    ASSUME NEW q \in Requests, NEW W \in SUBSET DOMAIN q.bindings, NEW E \in SUBSET q.exposed,
           NEW x \in Sources(q, W, E)
    PROVE  /\ TargetOf(What(q, x)) = Target(x[1]) /\ x[1] \in W \cup E
           /\ \/ x[1] \in W /\ x[2] # 0 /\ x[2] \in DOMAIN HostsOf(q, x[1])
                 /\ What(q, x).host = HostsOf(q, x[1])[x[2]]
              \/ x[1] \in E /\ x[2] = 0 /\ Target(x[1]) \notin BoundOf(q) /\ What(q, x).host = Empty
<1>1. CASE x[1] \in W /\ x[2] \in DOMAIN HostsOf(q, x[1])
  <2>1. x[2] # 0
    <3>1. DOMAIN HostsOf(q, x[1]) = 1 .. Len(HostsOf(q, x[1]))
      BY <1>1, HostsAre
    <3> QED BY <1>1, <3>1
  <2>2. What(q, x) = Mapping(Target(x[1]), HostsOf(q, x[1])[x[2]])
    BY <2>1 DEF What
  <2> QED BY <1>1, <2>1, <2>2, TargetOfMapping
<1>2. CASE x[1] \in E /\ Target(x[1]) \notin BoundOf(q) /\ x[2] = 0
  <2>1. What(q, x) = Mapping(Target(x[1]), Empty)
    BY <1>2 DEF What
  <2> QED BY <1>2, <2>1, TargetOfMapping
<1> QED BY <1>1, <1>2 DEF Sources

LEMMA TargetsOfWhole ==
    ASSUME NEW q \in Requests, NEW s, Laid(q, s, DOMAIN q.bindings, q.exposed)
    PROVE  {TargetOf(s[i]) : i \in DOMAIN s} = {Target(k) : k \in DOMAIN q.bindings \cup q.exposed}
<1> DEFINE A == Sources(q, DOMAIN q.bindings, q.exposed)
<1>1. PICK f : OneToOne(f, DOMAIN s, A) /\ \A i \in DOMAIN s : s[i] = What(q, f[i])
  BY DEF Laid
<1>2. \A i \in DOMAIN s : TargetOf(s[i]) \in {Target(k) : k \in DOMAIN q.bindings \cup q.exposed}
  <2> SUFFICES ASSUME NEW i \in DOMAIN s
               PROVE  TargetOf(s[i]) \in {Target(k) : k \in DOMAIN q.bindings \cup q.exposed}
    OBVIOUS
  <2>1. f[i] \in A /\ s[i] = What(q, f[i])
    BY <1>1 DEF OneToOne
  <2> QED BY <2>1, SourceIs
<1>3. ASSUME NEW x \in A
      PROVE  \E i \in DOMAIN s : TargetOf(s[i]) = Target(x[1])
  <2>1. PICK i \in DOMAIN s : f[i] = x
    BY <1>1 DEF OneToOne
  <2> QED BY <1>1, <2>1, <1>3, SourceIs
<1>4. ASSUME NEW k \in DOMAIN q.bindings
      PROVE  \E i \in DOMAIN s : TargetOf(s[i]) = Target(k)
  <2>1. k \in Keys /\ 1 \in DOMAIN HostsOf(q, k)
    <3>1. k \in Keys /\ DOMAIN HostsOf(q, k) = 1 .. Len(HostsOf(q, k)) /\ Len(HostsOf(q, k)) \in Nat \ {0}
      BY HostsAre
    <3> DEFINE n == Len(HostsOf(q, k))
    <3>2. n \in Nat \ {0}
      BY <3>1
    <3> HIDE DEF n
    <3>3. 1 \in 1 .. n
      BY <3>2
    <3> QED BY <3>1, <3>3 DEF n
  <2>2. <<k, 1>> \in A
    BY <2>1 DEF Sources
  <2> HIDE DEF A
  <2> QED BY <1>3, <2>2
<1>5. ASSUME NEW k \in q.exposed
      PROVE  \E i \in DOMAIN s : TargetOf(s[i]) = Target(k)
  <2>1. CASE Target(k) \in BoundOf(q)
    BY <1>4, <2>1 DEF BoundOf
  <2>2. CASE Target(k) \notin BoundOf(q)
    <3>1. k \in Keys
      BY RequestIs
    <3>2. <<k, 0>> \in A
      BY <2>2, <3>1 DEF Sources
    <3> HIDE DEF A
    <3> QED BY <1>3, <3>2
  <2> QED BY <2>1, <2>2
<1> QED BY <1>2, <1>4, <1>5

LEMMA HostIsAsked ==
    ASSUME NEW q \in Requests, NEW s, Laid(q, s, DOMAIN q.bindings, q.exposed), NEW i \in DOMAIN s
    PROVE  \/ s[i].host \in Unset
           \/ \E k \in DOMAIN q.bindings :
                 Target(k) = TargetOf(s[i]) /\ s[i].host \in ToSet(q.bindings[k])
<1> DEFINE A == Sources(q, DOMAIN q.bindings, q.exposed)
<1>1. PICK x \in A : s[i] = What(q, x)
  BY DEF Laid, OneToOne
<1>2. TargetOf(s[i]) = Target(x[1])
  BY <1>1, SourceIs
<1>3. \/ x[1] \in DOMAIN q.bindings /\ x[2] \in DOMAIN HostsOf(q, x[1])
         /\ s[i].host = HostsOf(q, x[1])[x[2]]
      \/ s[i].host = Empty
  BY <1>1, SourceIs
<1>4. CASE s[i].host = Empty
  BY <1>4, EmptyIsUnset
<1>5. CASE /\ x[1] \in DOMAIN q.bindings /\ x[2] \in DOMAIN HostsOf(q, x[1])
           /\ s[i].host = HostsOf(q, x[1])[x[2]]
  <2>1. CASE q.bindings[x[1]] = <<>>
    <3>1. s[i].host = Empty
      BY <1>5, <2>1 DEF HostsOf
    <3> QED BY <3>1, EmptyIsUnset
  <2>2. CASE q.bindings[x[1]] # <<>>
    <3>1. s[i].host \in ToSet(q.bindings[x[1]])
      BY <1>5, <2>2 DEF HostsOf, ToSet
    <3> QED BY <1>2, <1>5, <3>1
  <2> QED BY <2>1, <2>2
<1> QED BY <1>3, <1>4, <1>5

LEMMA ShownIs ==
    ASSUME NEW s \in Seq(Mappings)
    PROVE  /\ DOMAIN PortsBindings(s) = {TargetOf(s[i]) : i \in DOMAIN s}
           /\ \A t \in DOMAIN PortsBindings(s) :
                 \E i \in DOMAIN s : TargetOf(s[i]) = t /\ PortsBindings(s)[t] = s[i].host
<1>1. DOMAIN PortsBindings(s) = {TargetOf(s[i]) : i \in DOMAIN s}
  BY DEF PortsBindings
<1>2. ASSUME NEW t \in {TargetOf(s[i]) : i \in DOMAIN s}
      PROVE  \E i \in DOMAIN s : TargetOf(s[i]) = t /\ PortsBindings(s)[t] = s[i].host
  <2> DEFINE at == {i \in DOMAIN s : TargetOf(s[i]) = t}
  <2>1. PortsBindings(s)[t] = s[Max(at)].host
    BY DEF PortsBindings
  <2>2. at # {} /\ at \in SUBSET (0 .. Len(s)) /\ Len(s) \in Nat
    <3>1. Len(s) \in Nat /\ DOMAIN s = 1 .. Len(s)
      BY LenProperties
    <3> QED BY <3>1
  <2>3. Max(at) \in at
    <3> HIDE DEF at
    <3> QED BY <2>2, MaxOf
  <2> QED BY <2>1, <2>3
<1> QED BY <1>1, <1>2

\* inspect shows every port asked for, under the host port the client fixed for it or one the
\* kernel gave, and ps has that row too (server/summary.go:192-227).
THEOREM InspectShowsTheBindings == Spec => []InspectAgrees
<1>1. PodSpecsInv => InspectAgrees
  <2> SUFFICES ASSUME PodSpecsInv, stage = "created"
               PROVE  InspectAgrees
    BY DEF InspectAgrees
  <2> DEFINE shown == PortsBindings(annotation)
             rows == ToSet(SummaryPorts(annotation))
  <2>1. /\ request \in Requests /\ Laid(request, ports, DOMAIN request.bindings, request.exposed)
        /\ ports \in Seq(Mappings)
    BY CreatedIsAccepted DEF Whole, Laid
  <2>2. Allocated(ports, annotation)
    BY DEF PodSpecsInv, OutcomeInv
  <2>3. annotation \in Seq(Mappings) /\ DOMAIN annotation = DOMAIN ports
    BY <2>2 DEF Allocated
  <2>4. ASSUME NEW i \in DOMAIN ports
        PROVE  /\ TargetOf(annotation[i]) = TargetOf(ports[i])
               /\ \/ ports[i].host \in Unset /\ annotation[i].host \in Given
                  \/ ports[i].host \notin Unset /\ annotation[i].host = ports[i].host
    <3>1. ports[i] \in Mappings
      BY <2>1, ElementOfSeq, LenProperties
    <3>2. CASE ports[i].host \in Unset
      <4>1. PICK h \in Given : annotation[i] = [ports[i] EXCEPT !.host = h]
        BY <2>2, <3>2 DEF Allocated
      <4> QED BY <3>1, <3>2, <4>1 DEF Mappings, TargetOf
    <3>3. CASE ports[i].host \notin Unset
      BY <2>2, <3>3 DEF Allocated
    <3> QED BY <3>2, <3>3
  <2>5. DOMAIN shown = AskedTargets
    <3>1. {TargetOf(annotation[i]) : i \in DOMAIN annotation} = {TargetOf(ports[i]) : i \in DOMAIN ports}
      BY <2>3, <2>4
    <3>2. {TargetOf(ports[i]) : i \in DOMAIN ports} = AskedTargets
      BY <2>1, TargetsOfWhole DEF AskedTargets
    <3> QED BY <2>3, <3>1, <3>2, ShownIs
  <2>6. ASSUME NEW t \in DOMAIN shown
        PROVE  /\ shown[t] \in (AskedHosts(t) \ Unset) \cup Given
               /\ [target |-> t, public |-> IF shown[t] \in Numeric THEN shown[t] ELSE None] \in rows
    <3>1. PICK i \in DOMAIN annotation : TargetOf(annotation[i]) = t /\ shown[t] = annotation[i].host
      BY <2>3, ShownIs
    <3> HIDE DEF shown
    <3>2. shown[t] \in (AskedHosts(t) \ Unset) \cup Given
      <4>1. CASE ports[i].host \in Unset
        BY <2>3, <2>4, <3>1, <4>1
      <4>2. CASE ports[i].host \notin Unset
        <5>1. PICK k \in DOMAIN request.bindings :
                  Target(k) = TargetOf(ports[i]) /\ ports[i].host \in ToSet(request.bindings[k])
          BY <2>1, <2>3, <3>1, <4>2, HostIsAsked
        <5>2. k \in AskedKeys(t)
          BY <2>3, <2>4, <3>1, <5>1 DEF AskedKeys
        <5>3. ports[i].host \in AskedHosts(t)
          BY <5>1, <5>2 DEF AskedHosts
        <5> QED BY <2>3, <2>4, <3>1, <4>2, <5>3
      <4> QED BY <4>1, <4>2
    <3>3. SummaryPorts(annotation)[i] =
              [target |-> t, public |-> IF shown[t] \in Numeric THEN shown[t] ELSE None]
      BY <3>1 DEF SummaryPorts
    <3>4. i \in DOMAIN SummaryPorts(annotation)
      BY <3>1 DEF SummaryPorts
    <3> QED BY <3>2, <3>3, <3>4 DEF ToSet
  <2> QED BY <2>5, <2>6 DEF InspectAgrees
<1> QED BY <1>1, AlwaysWhole, PTL

-----------------------------------------------------------------------------
(***************************************************************************)
(* How many mappings a port has.                                           *)
(***************************************************************************)
SidesOf(q, k) == IF q.bindings[k] = <<>> THEN 1 ELSE Len(q.bindings[k])
SumOfSides(q, K) == MapThenSumSet(LAMBDA k : IF q.bindings[k] = <<>> THEN 1 ELSE Len(q.bindings[k]), K)

Pick(S) == CHOOSE x \in S : TRUE

LEMMA SumUnfolds ==
    ASSUME NEW q, NEW K, NEW g,
           g = [S \in SUBSET K |-> IF S = {} THEN 0
                                   ELSE SidesOf(q, Pick(S)) + g[S \ {Pick(S)}]]
    PROVE  \E f : /\ f = [S \in SUBSET K |->
                            IF S = {} THEN 0 ELSE SidesOf(q, Pick(S)) + f[S \ {Pick(S)}]]
                  /\ SumOfSides(q, K) = f[K]
  BY Zenon DEF Pick, SumOfSides, SidesOf, MapThenSumSet, MapThenFoldSet

\* The host sides of the bindings K.
Sides(q, K) == {x \in Keys \X Nat : x[1] \in K /\ x[2] \in DOMAIN HostsOf(q, x[1])}

LEMMA SidesOfOneMore ==
    ASSUME NEW q \in Requests, NEW S \in SUBSET DOMAIN q.bindings, IsFiniteSet(Sides(q, S)),
           NEW k \in DOMAIN q.bindings, k \notin S
    PROVE  /\ IsFiniteSet(Sides(q, S \cup {k})) /\ SidesOf(q, k) \in Nat
           /\ Cardinality(Sides(q, S \cup {k})) = SidesOf(q, k) + Cardinality(Sides(q, S))
<1> DEFINE n == Len(HostsOf(q, k))
           A == Sides(q, S)
           B == {<<k, j>> : j \in 1 .. n}
           g == [j \in 1 .. n |-> <<k, j>>]
<1>1. k \in Keys /\ DOMAIN HostsOf(q, k) = 1 .. n /\ n \in Nat
  BY HostsAre
<1>2. n = SidesOf(q, k)
  BY DEF SidesOf, HostsOf
<1> HIDE DEF n
<1>3. IsFiniteSet(B) /\ Cardinality(B) = n
  <2>1. IsFiniteSet(1 .. n) /\ Cardinality(1 .. n) = n
    BY <1>1, FS_Interval
  <2>2. g \in Bijection(1 .. n, B)
    <3>1. g \in [1 .. n -> B] /\ \A a, b \in 1 .. n : g[a] = g[b] => a = b
      OBVIOUS
    <3>2. \A t \in B : \E a \in 1 .. n : g[a] = t
      OBVIOUS
    <3> HIDE DEF g, B
    <3> QED BY <3>1, <3>2, Fun_IsBij
  <2> HIDE DEF g, B
  <2> QED BY <2>1, <2>2, FS_Bijection DEF ExistsBijection
<1>4. Sides(q, S \cup {k}) = A \cup B
  <2>1. ASSUME NEW x \in Sides(q, S \cup {k})
        PROVE  x \in A \cup B
    <3>1. x \in Keys \X Nat /\ x[1] \in S \cup {k} /\ x[2] \in DOMAIN HostsOf(q, x[1])
      BY DEF Sides
    <3>2. CASE x[1] \in S
      BY <3>1, <3>2 DEF Sides
    <3>3. CASE x[1] = k
      <4>1. x = <<k, x[2]>> /\ x[2] \in 1 .. n
        BY <1>1, <3>1, <3>3
      <4> QED BY <4>1
    <3> QED BY <3>1, <3>2, <3>3
  <2>2. ASSUME NEW x \in A
        PROVE  x \in Sides(q, S \cup {k})
    BY DEF Sides
  <2>3. ASSUME NEW j \in 1 .. n
        PROVE  <<k, j>> \in Sides(q, S \cup {k})
    BY <1>1 DEF Sides
  <2> QED BY <2>1, <2>2, <2>3
<1>5. A \cap B = {}
  BY DEF Sides
<1> HIDE DEF A, B, g
<1>6. IsFiniteSet(A) /\ Cardinality(A) \in Nat
  BY FS_CardinalityType DEF A
<1>7. IsFiniteSet(A \cup B) /\ Cardinality(A \cup B) = Cardinality(A) + Cardinality(B)
  <2>1. Cardinality(A \cap B) = 0
    BY <1>5, FS_EmptySet
  <2>2. IsFiniteSet(A \cup B) /\ Cardinality(A \cup B) = Cardinality(A) + Cardinality(B) - Cardinality(A \cap B)
    BY <1>3, <1>6, FS_Union
  <2> QED BY <1>1, <1>3, <1>6, <2>1, <2>2
<1>8. Cardinality(A \cup B) = n + Cardinality(A)
  BY <1>1, <1>3, <1>6, <1>7
<1>9. IsFiniteSet(Sides(q, S \cup {k})) /\ Cardinality(Sides(q, S \cup {k})) = n + Cardinality(A)
  BY <1>4, <1>7, <1>8
<1> QED BY <1>1, <1>2, <1>9 DEF A

LEMMA SumIsCount ==
    ASSUME NEW q \in Requests, NEW K \in SUBSET DOMAIN q.bindings
    PROVE  IsFiniteSet(Sides(q, K)) /\ SumOfSides(q, K) = Cardinality(Sides(q, K))
<1> DEFINE pick == [S \in SUBSET K |-> Pick(S)]
           op == [x \in Nat \X K |-> SidesOf(q, x[2]) + x[1]]
<1>1. IsFiniteSet(K)
  BY RequestsAreWhole, FS_Subset
<1>2. \A S \in SUBSET K : S # {} => pick[S] \in S
  BY DEF Pick
<1>3. \A k \in K : SidesOf(q, k) \in Nat
  <2>1. \A k \in K : q.bindings[k] \in Seq(Texts)
    BY RequestsAreWhole
  <2> QED BY <2>1, LenProperties DEF SidesOf
<1>4. PICK g : IsFold(g, K, pick, Nat, 0, op)
  <2>1. op \in [Nat \X K -> Nat]
    BY <1>3
  <2>2. Foldable(K, pick, Nat, 0, op)
    <3> HIDE DEF op, pick
    <3> QED BY <1>1, <1>2, <2>1 DEF Foldable
  <2> HIDE DEF op, pick
  <2> QED BY <2>2, FoldExists
<1>5. g = [S \in SUBSET K |-> IF S = {} THEN 0
                              ELSE SidesOf(q, Pick(S)) + g[S \ {Pick(S)}]]
  <2>1. \A S \in SUBSET K : S # {} =>
            op[<<g[S \ {pick[S]}], pick[S]>>] = SidesOf(q, Pick(S)) + g[S \ {Pick(S)}]
    BY <1>2, <1>4 DEF IsFold
  <2> HIDE DEF op, pick
  <2>2. \A S \in SUBSET K :
            g[S] = IF S = {} THEN 0 ELSE SidesOf(q, Pick(S)) + g[S \ {Pick(S)}]
    BY <1>4, <2>1 DEF IsFold
  <2> QED BY <1>4, <2>2 DEF IsFold
<1>6. PICK f : /\ f = [S \in SUBSET K |->
                         IF S = {} THEN 0 ELSE SidesOf(q, Pick(S)) + f[S \ {Pick(S)}]]
               /\ SumOfSides(q, K) = f[K]
  BY <1>5, SumUnfolds
<1> DEFINE T == {n \in Nat : \A S \in SUBSET K : Cardinality(S) = n =>
                     IsFiniteSet(Sides(q, S)) /\ f[S] = Cardinality(Sides(q, S))}
<1>7. \A S \in SUBSET K : IsFiniteSet(S) /\ Cardinality(S) \in Nat /\ (Cardinality(S) = 0 <=> S = {})
  BY <1>1, FS_Subset, FS_CardinalityType, FS_EmptySet
<1>8. 0 \in T
  <2>1. Sides(q, {}) = {}
    BY DEF Sides
  <2>2. f[{}] = 0
    BY <1>6
  <2> QED BY <1>7, <2>1, <2>2, FS_EmptySet
<1>9. ASSUME NEW n \in T
      PROVE  n + 1 \in T
  <2> SUFFICES ASSUME NEW S \in SUBSET K, Cardinality(S) = n + 1
               PROVE  IsFiniteSet(Sides(q, S)) /\ f[S] = Cardinality(Sides(q, S))
    BY <1>9
  <2> DEFINE k == Pick(S)
             R == S \ {k}
  <2>1. S # {} /\ n \in Nat
    BY <1>7, <1>9
  <2>2. k \in S
    BY <2>1 DEF Pick
  <2>3. f[S] = SidesOf(q, k) + f[R]
    BY <1>6, <2>1
  <2> HIDE DEF k
  <2>4. R \in SUBSET K /\ k \notin R /\ R \cup {k} = S /\ k \in DOMAIN q.bindings
    BY <2>2
  <2>5. Cardinality(R) = n
    <3>1. Cardinality(R) = Cardinality(S) - 1
      BY <1>7, <2>2, FS_RemoveElement
    <3> QED BY <2>1, <3>1
  <2>6. IsFiniteSet(Sides(q, R)) /\ f[R] = Cardinality(Sides(q, R))
    BY <1>9, <2>4, <2>5
  <2> HIDE DEF R
  <2>7. R \in SUBSET DOMAIN q.bindings
    BY <2>4
  <2>8. IsFiniteSet(Sides(q, S)) /\ Cardinality(Sides(q, S)) = SidesOf(q, k) + Cardinality(Sides(q, R))
    BY <2>4, <2>6, <2>7, SidesOfOneMore
  <2> QED BY <2>3, <2>6, <2>8
<1>10. Cardinality(K) \in T
  <2> HIDE DEF T
  <2>1. T \in SUBSET Nat
    BY DEF T
  <2> QED BY <1>7, <1>8, <1>9, <2>1, InductionOnNat
<1> QED BY <1>6, <1>10

\* The mappings of a port that is bound are as many as the host sides of its bindings.
LEMMA MappedAsBound ==
    ASSUME NEW q \in Requests, NEW s, Laid(q, s, DOMAIN q.bindings, q.exposed), NEW t \in BoundOf(q)
    PROVE  LET keys == {k \in DOMAIN q.bindings : Target(k) = t}
           IN  Cardinality({i \in DOMAIN s : TargetOf(s[i]) = t}) = SumOfSides(q, keys)
<1> DEFINE keys == {k \in DOMAIN q.bindings : Target(k) = t}
           at == {i \in DOMAIN s : TargetOf(s[i]) = t}
           A == Sources(q, DOMAIN q.bindings, q.exposed)
           S == Sides(q, keys)
<1>1. PICK f : OneToOne(f, DOMAIN s, A) /\ \A i \in DOMAIN s : s[i] = What(q, f[i])
  BY DEF Laid
<1>2. IsFiniteSet(at)
  <2>1. s \in Seq(Mappings) /\ Len(s) \in Nat /\ DOMAIN s = 1 .. Len(s)
    BY LenProperties DEF Laid
  <2>2. IsFiniteSet(1 .. Len(s))
    BY <2>1, FS_Interval
  <2> QED BY <2>1, <2>2, FS_Subset
<1> DEFINE g == [i \in at |-> f[i]]
<1>3. ASSUME NEW i \in at
      PROVE  g[i] \in S
  <2>1. f[i] \in A /\ TargetOf(What(q, f[i])) = t
    BY <1>1 DEF OneToOne
  <2>2. Target(f[i][1]) = t /\ f[i][1] \in DOMAIN q.bindings /\ f[i][2] \in DOMAIN HostsOf(q, f[i][1])
    BY <2>1, SourceIs
  <2>3. f[i] \in Keys \X Nat
    BY <2>1 DEF Sources
  <2> QED BY <2>2, <2>3 DEF Sides
<1>4. \A x \in S : \E i \in at : g[i] = x
  <2> SUFFICES ASSUME NEW x \in S
               PROVE  \E i \in at : g[i] = x
    OBVIOUS
  <2>1. x \in A /\ Target(x[1]) = t
    BY DEF Sides, Sources
  <2>2. PICK i \in DOMAIN s : f[i] = x
    BY <1>1, <2>1 DEF OneToOne
  <2>3. TargetOf(s[i]) = t
    BY <1>1, <2>1, <2>2, SourceIs
  <2> QED BY <2>2, <2>3
<1>5. g \in Bijection(at, S)
  <2>1. g \in [at -> S]
    BY <1>3
  <2>2. \A i, j \in at : g[i] = g[j] => i = j
    BY <1>1 DEF OneToOne
  <2> HIDE DEF g, at, S
  <2> QED BY <1>4, <2>1, <2>2, Fun_IsBij
<1>6. SumOfSides(q, keys) = Cardinality(S)
  BY SumIsCount
<1> HIDE DEF at, S, g
<1>7. Cardinality(at) = Cardinality(S)
  BY <1>2, <1>5, FS_Bijection DEF ExistsBijection
<1> QED BY <1>6, <1>7 DEF at

\* A port that is published is mapped as often as its bindings say, however its key is written, and
\* exposing it too maps it no further; the pod's container declares every port once
\* (podspec/spec.go:192-214, 248-267).
THEOREM PublishedOnce == Spec => []PublishedAsBound
<1>1. PodSpecsInv => PublishedAsBound
  <2> SUFFICES ASSUME PodSpecsInv, stage = "created"
               PROVE  PublishedAsBound
    BY DEF PublishedAsBound
  <2>1. /\ request \in Requests /\ bound = BoundOf(request)
        /\ Laid(request, ports, DOMAIN request.bindings, request.exposed)
        /\ ports \in Seq(Mappings) /\ containerPorts = DedupContainerPorts(ports)
    BY CreatedIsAccepted DEF Whole, Laid, PodSpecsInv, OutcomeInv
  <2>2. ASSUME NEW t \in bound
        PROVE  Cardinality({i \in DOMAIN ports : TargetOf(ports[i]) = t})
                 = MapThenSumSet(LAMBDA k : IF request.bindings[k] = <<>> THEN 1
                                            ELSE Len(request.bindings[k]), AskedKeys(t))
    <3>1. Cardinality({i \in DOMAIN ports : TargetOf(ports[i]) = t}) = SumOfSides(request, AskedKeys(t))
      BY <2>1, MappedAsBound DEF AskedKeys
    <3> QED BY <3>1 DEF SumOfSides
  <2>3. ToSet(containerPorts) = AskedTargets /\ Len(containerPorts) = Cardinality(AskedTargets)
    <3>1. {TargetOf(ports[i]) : i \in DOMAIN ports} = AskedTargets
      BY <2>1, TargetsOfWhole DEF AskedTargets
    <3> QED BY <2>1, <3>1, DedupIs
  <2> QED BY <2>2, <2>3 DEF PublishedAsBound
<1> QED BY <1>1, AlwaysWhole, PTL
=============================================================================

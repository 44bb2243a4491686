-------------------------- MODULE TranscriptProofs --------------------------
(***************************************************************************)
(* What becomes of the words of a call, for any vocabulary, bounds and     *)
(* numbers of rows: those spoken stand in the text they were taken from,   *)
(* each prediction leaves the rows it should, a truth once told stays, no  *)
(* row of the evaluation vanishes, and what the two evaluations print is   *)
(* what was measured.                                                      *)
(***************************************************************************)
EXTENDS Chunker, Shadows, EvalLog, Evaluation, SequenceTheorems, FiniteSetTheorems,
        FunctionTheorems, WellFoundedInduction, TLAPS

----------------------------------------------------------------------------
\* Greatest numbers and common prefixes.

\* A set of numbers that is not empty has a greatest one, when it has a bound.
LEMMA Greatest ==
    ASSUME NEW n \in Nat, NEW T \in SUBSET (0 .. n), T # {}
    PROVE  Max(T) \in T /\ \A y \in T : Max(T) >= y
<1> DEFINE U == {m \in Nat : \E x \in T : m = n - x}
           R == {p \in Nat \X Nat : p[1] < p[2]}
<1>1. U \subseteq Nat /\ U # {}
  <2>1. PICK x \in T : TRUE
    OBVIOUS
  <2>2. n - x \in Nat
    OBVIOUS
  <2> QED BY <2>2
<1>2. \A v, u \in Nat : v < u => <<v, u>> \in R
  OBVIOUS
<1>3. IsWellFoundedOn(R, Nat)
  BY NatLessThanWellFounded DEF OpToRel
<1> HIDE DEF R, U
<1>4. PICK u \in U : \A v \in U : ~ (<<v, u>> \in R)
  BY <1>1, <1>3, WFMin
<1>5. PICK x \in T : u = n - x
  BY DEF U
<1>6. \A y \in T : x >= y
  <2> SUFFICES ASSUME NEW y \in T, ~(x >= y) PROVE FALSE
    OBVIOUS
  <2>1. n - y \in U /\ n - y \in Nat /\ u \in Nat /\ n - y < u
    BY <1>5 DEF U
  <2> QED BY <1>2, <1>4, <2>1
<1> QED BY <1>6 DEF Max

\* A prefix, place by place.
LEMMA PrefixByPlace ==
    ASSUME NEW S, NEW s \in Seq(S), NEW t \in Seq(S)
    PROVE  IsPrefix(s, t) <=> Len(s) <= Len(t) /\ \A i \in 1 .. Len(s) : s[i] = t[i]
<1>1. Len(s) \in Nat /\ Len(t) \in Nat
  BY LenProperties
<1>2. SubSeq(s, 1, Len(s)) = s
  BY SubSeqFull
<1> SUFFICES ASSUME Len(s) <= Len(t)
             PROVE  SubSeq(s, 1, Len(s)) = SubSeq(t, 1, Len(s)) <=> \A i \in 1 .. Len(s) : s[i] = t[i]
  BY DEF IsPrefix
<1>3. \A i \in 1 .. Len(s) : t[i] \in S
  BY <1>1, ElementOfSeq
<1>4. /\ SubSeq(t, 1, Len(s)) \in Seq(S) /\ Len(SubSeq(t, 1, Len(s))) = Len(s)
      /\ \A i \in 1 .. Len(s) : SubSeq(t, 1, Len(s))[i] = t[i]
  BY <1>1, <1>3, SubSeqProperties
<1>5. ASSUME \A i \in 1 .. Len(s) : s[i] = t[i] PROVE s = SubSeq(t, 1, Len(s))
  BY <1>4, <1>5, SeqEqual
<1> QED BY <1>2, <1>4, <1>5

\* What two sequences agree on is a prefix of both.
LEMMA AgreedPrefix ==
    ASSUME NEW S, NEW s \in Seq(S), NEW t \in Seq(S)
    PROVE  LET agreed == LongestCommonPrefix({s, t}) IN
           agreed \in Seq(S) /\ IsPrefix(agreed, s) /\ IsPrefix(agreed, t)
<1> DEFINE C == CommonPrefixes({s, t})
           T == {n \in 0 .. Len(s) : SubSeq(s, 1, n) \in C}
<1>1. Len(s) \in Nat /\ Len(t) \in Nat
  BY LenProperties
<1>2. \A u \in {s, t} : \A n \in 0 .. Len(u) : SubSeq(u, 1, n) \in Seq(S) /\ Len(SubSeq(u, 1, n)) = n
  <2> TAKE u \in {s, t}
  <2> TAKE n \in 0 .. Len(u)
  <2>1. \A i \in 1 .. n : u[i] \in S
    BY <1>1, ElementOfSeq
  <2> QED BY <1>1, <2>1, SubSeqProperties
<1>3. \A p : p \in C <=> p \in Prefixes(s) \cup Prefixes(t) /\ IsPrefix(p, s) /\ IsPrefix(p, t)
  BY DEF CommonPrefixes
<1>4. \A p \in C : p \in Seq(S)
  BY <1>2, <1>3 DEF Prefixes
<1>5. \A p \in C : \E n \in T : p = SubSeq(s, 1, n)
  <2> SUFFICES ASSUME NEW p \in C PROVE \E n \in T : p = SubSeq(s, 1, n)
    OBVIOUS
  <2>1. IsPrefix(p, s) /\ p \in Seq(S) /\ Len(p) \in Nat
    BY <1>3, <1>4, LenProperties
  <2>2. Len(p) \in 0 .. Len(s) /\ SubSeq(p, 1, Len(p)) = SubSeq(s, 1, Len(p))
    BY <1>1, <2>1 DEF IsPrefix
  <2>3. p = SubSeq(s, 1, Len(p))
    BY <2>1, <2>2, SubSeqFull
  <2> QED BY <2>2, <2>3
<1>6. 0 \in T
  <2>1. SubSeq(s, 1, 0) = <<>> /\ SubSeq(t, 1, 0) = <<>> /\ Len(<<>>) = 0
    BY <1>1, SubSeqEmpty
  <2>2. SubSeq(<<>>, 1, 0) = <<>>
    BY <2>1, SubSeqEmpty
  <2>3. IsPrefix(<<>>, s) /\ IsPrefix(<<>>, t)
    BY <1>1, <2>1, <2>2 DEF IsPrefix
  <2>4. <<>> \in Prefixes(s)
    BY <1>1, <2>1 DEF Prefixes
  <2> HIDE DEF C
  <2>5. <<>> \in C
    BY <1>3, <2>3, <2>4
  <2>6. SubSeq(s, 1, 0) \in C
    BY <2>1, <2>5
  <2>7. 0 \in 0 .. Len(s)
    BY <1>1
  <2> QED BY <2>6, <2>7
<1>7. Max(T) \in T /\ \A n \in T : Max(T) >= n
  <2>1. T \in SUBSET (0 .. Len(s)) /\ T # {}
    BY <1>6
  <2> HIDE DEF T
  <2> QED BY <1>1, <2>1, Greatest
<1> DEFINE best == SubSeq(s, 1, Max(T))
<1>8. best \in C /\ \A p \in C : Len(p) <= Len(best)
  <2>1. best \in C /\ Len(best) = Max(T)
    BY <1>2, <1>7
  <2>2. ASSUME NEW p \in C PROVE Len(p) <= Len(best)
    <3>1. PICK n \in T : p = SubSeq(s, 1, n)
      BY <1>5
    <3>2. Len(p) = n
      BY <1>2, <3>1
    <3> QED BY <1>1, <1>7, <2>1, <3>1, <3>2
  <2> QED BY <2>1, <2>2
<1>9. LongestCommonPrefix({s, t}) \in C
  <2> HIDE DEF C
  <2> QED BY <1>8 DEF LongestCommonPrefix, C
<1> QED BY <1>3, <1>9, <1>4

----------------------------------------------------------------------------
\* The chunker.

----------------------------------------------------------------------------
Ages == {None} \cup 0 .. Timeout

\* What a call works on, when sp was spoken before it: the units it has so far carry on from
\* there to the end of the committed words.
CarriesOn(sp, s) ==
    /\ s \in [stable : Seq(Words), committed : Nat, since : Ages, units : Seq(Words)]
    /\ s.committed <= Len(s.stable)
    /\ sp \o s.units = SubSeq(s.stable, 1, s.committed)

Endings == [final : Seq(Words), spoken : Seq(Words), stable : Seq(Words), said : Seq(Words)]

ChunkerInv ==
    /\ hyp \in Seq(Words) /\ stable \in Seq(Words) /\ spoken \in Seq(Words)
    /\ committed \in Nat /\ committed <= Len(stable)
    /\ quiet \in 0 .. EndOfTurn /\ since \in Ages
    /\ ended \in Endings
    /\ SpokenStands

----------------------------------------------------------------------------
LEMMA PlacesOfPending ==
    ASSUME NEW S, NEW w \in Seq(S), NEW c \in Nat, c <= Len(w)
    PROVE  LET p == SubSeq(w, c + 1, Len(w)) IN
           /\ p \in Seq(S) /\ Len(p) = Len(w) - c
           /\ \A i \in 1 .. Len(w) - c : p[i] = w[c + i]
<1>1. Len(w) \in Nat /\ c + 1 \in Int /\ Len(w) \in Int
  BY LenProperties
<1>2. \A i \in c + 1 .. Len(w) : w[i] \in S
  <2>1. \A i \in c + 1 .. Len(w) : i \in 1 .. Len(w)
    BY <1>1
  <2> QED BY <2>1, ElementOfSeq
<1> DEFINE a == c + 1
<1>3. a \in Int /\ \A i \in a .. Len(w) : w[i] \in S
  BY <1>1, <1>2
<1>4. a = c + 1
  OBVIOUS
<1> HIDE DEF a
<1>5. /\ SubSeq(w, a, Len(w)) \in Seq(S)
      /\ Len(SubSeq(w, a, Len(w))) = IF a <= Len(w) THEN Len(w) - a + 1 ELSE 0
      /\ \A i \in 1 .. Len(w) - a + 1 : SubSeq(w, a, Len(w))[i] = w[a + i - 1]
  BY <1>1, <1>3, SubSeqProperties
<1>6. Len(w) - a + 1 = Len(w) - c /\ (IF a <= Len(w) THEN Len(w) - a + 1 ELSE 0) = Len(w) - c
  BY <1>1, <1>4
<1>7. \A i \in 1 .. Len(w) - c : a + i - 1 = c + i
  BY <1>1, <1>4
<1> QED BY <1>4, <1>5, <1>6, <1>7

LEMMA PlacesOfPrefix ==
    ASSUME NEW S, NEW w \in Seq(S), NEW c \in Nat, c <= Len(w)
    PROVE  /\ SubSeq(w, 1, c) \in Seq(S) /\ Len(SubSeq(w, 1, c)) = c
           /\ \A i \in 1 .. c : SubSeq(w, 1, c)[i] = w[i]
<1>1. Len(w) \in Nat
  BY LenProperties
<1>2. \A i \in 1 .. c : w[i] \in S
  BY <1>1, ElementOfSeq
<1> QED BY <1>1, <1>2, SubSeqProperties

\* The lesser of two.
LEMMA Least ==
    ASSUME NEW a \in Nat, NEW b \in Nat
    PROVE  Min({a, b}) \in 0 .. b
<1>1. \E x \in {a, b} : \A y \in {a, b} : x =< y
  BY a <= b \/ b <= a
<1>2. Min({a, b}) \in {a, b} /\ \A y \in {a, b} : Min({a, b}) =< y
  BY <1>1 DEF Min
<1> QED BY <1>2

LEMMA PrefixOfPrefix ==
    ASSUME NEW S, NEW s \in Seq(S), NEW t \in Seq(S), IsPrefix(s, t),
           NEW c \in Nat, c <= Len(s)
    PROVE  IsPrefix(SubSeq(s, 1, c), t)
<1>1. Len(s) \in Nat /\ Len(t) \in Nat
  BY LenProperties
<1>2. Len(s) <= Len(t) /\ \A i \in 1 .. Len(s) : s[i] = t[i]
  BY PrefixByPlace
<1> DEFINE p == SubSeq(s, 1, c)
<1>3. p \in Seq(S) /\ Len(p) = c /\ \A i \in 1 .. c : p[i] = s[i]
  BY PlacesOfPrefix
<1> HIDE DEF p
<1>4. \A i \in 1 .. Len(p) : p[i] = t[i]
  BY <1>1, <1>2, <1>3
<1>5. IsPrefix(p, t)
  BY <1>1, <1>2, <1>3, <1>4, PrefixByPlace
<1> QED BY <1>5 DEF p

LEMMA PrefixOfConcat ==
    ASSUME NEW S, NEW s \in Seq(S), NEW t \in Seq(S)
    PROVE  IsPrefix(s, s \o t)
<1>1. Len(s) \in Nat /\ Len(t) \in Nat
  BY LenProperties
<1>2. /\ s \o t \in Seq(S) /\ Len(s \o t) = Len(s) + Len(t)
      /\ \A i \in 1 .. Len(s) + Len(t) : (s \o t)[i] = IF i <= Len(s) THEN s[i] ELSE t[i - Len(s)]
  BY ConcatProperties
<1>3. \A i \in 1 .. Len(s) : i \in 1 .. Len(s) + Len(t)
  BY <1>1
<1>4. \A i \in 1 .. Len(s) : s[i] = (s \o t)[i]
  BY <1>1, <1>2, <1>3
<1>5. Len(s) <= Len(s \o t)
  BY <1>1, <1>2
<1> QED BY <1>2, <1>4, <1>5, PrefixByPlace

LEMMA RestOfWords ==
    ASSUME NEW S, NEW w \in Seq(S), NEW c \in Nat
    PROVE  /\ SubSeq(w, c + 1, Len(w)) \in Seq(S)
           /\ Len(SubSeq(w, c + 1, Len(w))) \in Nat
           /\ Len(SubSeq(w, c + 1, Len(w))) >= Len(w) - c
<1>1. Len(w) \in Nat /\ c + 1 \in Int
  BY LenProperties
<1>2. CASE c <= Len(w)
  <2>1. SubSeq(w, c + 1, Len(w)) \in Seq(S) /\ Len(SubSeq(w, c + 1, Len(w))) = Len(w) - c
    BY <1>2, PlacesOfPending
  <2> QED BY <1>1, <1>2, <2>1
<1>3. CASE ~(c <= Len(w))
  <2>1. SubSeq(w, c + 1, Len(w)) = <<>>
    BY <1>1, <1>3, SubSeqEmpty
  <2>2. <<>> \in Seq(S) /\ Len(<<>>) = 0
    BY EmptySeq
  <2>3. 0 >= Len(w) - c
    BY <1>1, <1>3
  <2> QED BY <2>1, <2>2, <2>3
<1> QED BY <1>2, <1>3

LEMMA EmittingCarriesOn ==
    ASSUME NEW sp \in Seq(Words), NEW s, CarriesOn(sp, s), NEW count \in 0 .. Len(Pending(s))
    PROVE  CarriesOn(sp, Emit(s, count)) /\ Emit(s, count).stable = s.stable
           /\ Emit(s, count).committed = s.committed + count
<1> DEFINE w == s.stable
           c == s.committed
           p == Pending(s)
           more == SubSeq(p, 1, count)
<1>1. /\ s \in [stable : Seq(Words), committed : Nat, since : Ages, units : Seq(Words)]
      /\ w \in Seq(Words) /\ c \in Nat /\ c <= Len(w) /\ s.units \in Seq(Words)
      /\ sp \o s.units = SubSeq(w, 1, c)
  BY DEF CarriesOn
<1>2. Len(w) \in Nat
  BY <1>1, LenProperties
<1>3. p \in Seq(Words) /\ Len(p) = Len(w) - c /\ \A i \in 1 .. Len(w) - c : p[i] = w[c + i]
  BY <1>1, PlacesOfPending DEF Pending
<1>4. count \in Nat /\ count <= Len(p) /\ c + count <= Len(w) /\ c + count \in Nat
  BY <1>1, <1>2, <1>3
<1>5. more \in Seq(Words) /\ Len(more) = count /\ \A i \in 1 .. count : more[i] = p[i]
  <2> HIDE DEF p
  <2> QED BY <1>3, <1>4, PlacesOfPrefix
<1> DEFINE e == c + count
<1>6. more = SubSeq(w, c + 1, e)
  <2>0. e \in Nat /\ e <= Len(w) /\ e = c + count
    BY <1>4
  <2>1. SubSeq(w, 1, e) \in Seq(Words) /\ Len(SubSeq(w, 1, e)) = e
        /\ \A i \in 1 .. e : SubSeq(w, 1, e)[i] = w[i]
    <3> HIDE DEF e, w
    <3> QED BY <1>1, <2>0, PlacesOfPrefix
  <2> DEFINE a == c + 1
  <2>2. a \in Int /\ \A i \in a .. e : w[i] \in Words
    <3>1. \A i \in a .. e : i \in 1 .. Len(w)
      BY <1>1, <1>2, <2>0
    <3> QED BY <1>1, <3>1, ElementOfSeq
  <2>3. a = c + 1
    OBVIOUS
  <2> HIDE DEF a, e, w, c, p, more
  <2>4. /\ SubSeq(w, a, e) \in Seq(Words)
        /\ Len(SubSeq(w, a, e)) = IF a <= e THEN e - a + 1 ELSE 0
        /\ \A i \in 1 .. e - a + 1 : SubSeq(w, a, e)[i] = w[a + i - 1]
    BY <2>0, <2>2, SubSeqProperties
  <2>5. Len(SubSeq(w, a, e)) = count /\ e - a + 1 = count
    <3>1. c \in Int /\ count \in Nat /\ e = c + count /\ a = c + 1
      BY <1>1, <1>4, <2>0, <2>3
    <3>2. e - a + 1 = count /\ (a <= e <=> count # 0)
      BY <3>1
    <3> QED BY <2>4, <3>1, <3>2
  <2>6. \A i \in 1 .. count : SubSeq(w, a, e)[i] = w[c + i]
    <3>1. \A i \in 1 .. count : a + i - 1 = c + i
      BY <1>1, <2>3
    <3> QED BY <2>4, <2>5, <3>1
  <2>7. \A i \in 1 .. count : more[i] = w[c + i]
    <3> TAKE i \in 1 .. count
    <3>1. i \in 1 .. Len(w) - c
      BY <1>1, <1>2, <1>3, <1>4
    <3>2. p[i] = w[c + i]
      BY <1>3, <3>1
    <3> QED BY <1>5, <3>2
  <2>8. more = SubSeq(w, a, e)
    BY <1>5, <2>4, <2>5, <2>6, <2>7, SeqEqual
  <2> QED BY <2>3, <2>8
<1>7. SubSeq(w, 1, c) \o SubSeq(w, c + 1, e) = SubSeq(w, 1, e)
  <2>1. 1 \in 1 .. Len(w) + 1 /\ c \in 1 - 1 .. Len(w) /\ e \in c .. Len(w)
    BY <1>1, <1>2, <1>4
  <2> HIDE DEF w, e, c
  <2> QED BY <1>1, <2>1, ConcatAdjacentSubSeq
<1>8. sp \o (s.units \o more) = SubSeq(w, 1, e) /\ s.units \o more \in Seq(Words)
  <2>1. (sp \o s.units) \o more = sp \o (s.units \o more)
    <3> DEFINE q == s.units
    <3>1. sp \in Seq(Words) /\ q \in Seq(Words) /\ more \in Seq(Words)
      BY <1>1, <1>5
    <3> HIDE DEF more, q
    <3>2. (sp \o q) \o more = sp \o (q \o more)
      BY <3>1, ConcatAssociative
    <3> QED BY <3>2 DEF q
  <2>2. s.units \o more \in Seq(Words)
    BY <1>1, <1>5, ConcatProperties
  <2> QED BY <1>1, <1>6, <1>7, <2>1, <2>2
<1>9. /\ Emit(s, count) \in [stable : Seq(Words), committed : Nat, since : Ages, units : Seq(Words)]
      /\ Emit(s, count).stable = w /\ Emit(s, count).committed = e
      /\ Emit(s, count).units = s.units \o more
  <2> DEFINE v == IF e < Len(w) THEN 0 ELSE None
             u == s.units \o more
  <2>1. Emit(s, count) = [s EXCEPT !.committed = e, !.since = v, !.units = u]
    BY DEF Emit
  <2>2. v \in Ages /\ u \in Seq(Words) /\ e \in Nat
    BY <1>4, <1>8 DEF Ages, None, Timeout
  <2> HIDE DEF v, u, e, more, p
  <2>3. /\ Emit(s, count) \in [stable : Seq(Words), committed : Nat, since : Ages, units : Seq(Words)]
        /\ Emit(s, count).stable = s.stable /\ Emit(s, count).committed = e
        /\ Emit(s, count).units = u
    BY <1>1, <2>1, <2>2
  <2> QED BY <2>3 DEF u
<1> QED BY <1>4, <1>8, <1>9 DEF CarriesOn

LEMMA EmittingAllCarriesOn ==
    ASSUME NEW sp \in Seq(Words), NEW s, CarriesOn(sp, s)
    PROVE  /\ CarriesOn(sp, EmitAll(s)) /\ EmitAll(s).stable = s.stable
           /\ EmitAll(s).committed = Len(s.stable)
<1>1. s.stable \in Seq(Words) /\ s.committed \in Nat /\ s.committed <= Len(s.stable)
  BY DEF CarriesOn
<1>2. Pending(s) \in Seq(Words) /\ Len(Pending(s)) = Len(s.stable) - s.committed
  BY <1>1, PlacesOfPending DEF Pending
<1>3. Len(Pending(s)) \in Nat /\ Len(s.stable) \in Nat
  BY <1>1, <1>2, LenProperties
<1>4. CASE Pending(s) = <<>>
  <2>1. Len(Pending(s)) = 0
    BY <1>4
  <2>2. s.committed = Len(s.stable)
    BY <1>1, <1>2, <1>3, <2>1
  <2> QED BY <1>4, <2>2 DEF EmitAll
<1>5. CASE Pending(s) # <<>>
  <2>1. Len(Pending(s)) \in 0 .. Len(Pending(s))
    BY <1>3
  <2>2. /\ CarriesOn(sp, Emit(s, Len(Pending(s)))) /\ Emit(s, Len(Pending(s))).stable = s.stable
        /\ Emit(s, Len(Pending(s))).committed = s.committed + Len(Pending(s))
    BY <2>1, EmittingCarriesOn
  <2> QED BY <1>1, <1>2, <1>3, <1>5, <2>2 DEF EmitAll
<1> QED BY <1>4, <1>5

LEMMA TryingCarriesOn ==
    ASSUME NEW sp \in Seq(Words), NEW s, CarriesOn(sp, s)
    PROVE  CarriesOn(sp, TryCommit(s))
<1> DEFINE p == Pending(s)
<1>1. s.stable \in Seq(Words) /\ s.committed \in Nat /\ s.committed <= Len(s.stable)
  BY DEF CarriesOn
<1>2. p \in Seq(Words)
  BY <1>1, PlacesOfPending DEF Pending
<1>3. Len(p) \in Nat /\ DOMAIN p = 1 .. Len(p)
  BY <1>2, LenProperties
<1>4. ASSUME NEW T \in SUBSET (DOMAIN p), T # {} PROVE CarriesOn(sp, Emit(s, Max(T)))
  <2>1. T \in SUBSET (0 .. Len(p))
    BY <1>3
  <2> HIDE DEF p
  <2>2. Max(T) \in T
    BY <1>3, <1>4, <2>1, Greatest
  <2>3. Max(T) \in 0 .. Len(Pending(s))
    BY <2>1, <2>2 DEF p
  <2> QED BY <2>3, EmittingCarriesOn
<1>5. CASE StrongCuts(p) # {}
  <2>1. StrongCuts(p) \in SUBSET (DOMAIN p)
    BY DEF StrongCuts
  <2>2. CarriesOn(sp, Emit(s, Max(StrongCuts(p))))
    BY <1>4, <1>5, <2>1
  <2> QED BY <1>5, <2>2 DEF TryCommit
<1>6. CASE StrongCuts(p) = {} /\ WeakCuts(p) # {}
  <2>1. WeakCuts(p) \in SUBSET (DOMAIN p)
    BY DEF WeakCuts
  <2>2. CarriesOn(sp, Emit(s, Max(WeakCuts(p))))
    BY <1>4, <1>6, <2>1
  <2> QED BY <1>6, <2>2 DEF TryCommit
<1>7. CASE StrongCuts(p) = {} /\ WeakCuts(p) = {}
  BY <1>7, EmittingAllCarriesOn DEF TryCommit
<1> QED BY <1>5, <1>6, <1>7

\* Longer words are taken when they start with what was committed.
LEMMA ExtendingCarriesOn ==
    ASSUME NEW sp \in Seq(Words), NEW s, CarriesOn(sp, s), NEW words \in Seq(Words),
           IsPrefix(SubSeq(s.stable, 1, s.committed), words)
    PROVE  /\ CarriesOn(sp, ExtendStable(s, words))
           /\ Len(ExtendStable(s, words).stable) >= Len(words)
<1> DEFINE w == s.stable
           c == s.committed
<1>1. /\ s \in [stable : Seq(Words), committed : Nat, since : Ages, units : Seq(Words)]
      /\ w \in Seq(Words) /\ c \in Nat /\ c <= Len(w)
      /\ sp \o s.units = SubSeq(w, 1, c)
  BY DEF CarriesOn
<1>2. Len(w) \in Nat /\ Len(words) \in Nat
  BY <1>1, LenProperties
<1>3. CASE Len(words) <= Len(w)
  BY <1>2, <1>3 DEF ExtendStable
<1>4. CASE ~(Len(words) <= Len(w))
  <2>1. /\ ExtendStable(s, words) \in [stable : Seq(Words), committed : Nat, since : Ages, units : Seq(Words)]
        /\ ExtendStable(s, words).stable = words /\ ExtendStable(s, words).committed = c
        /\ ExtendStable(s, words).units = s.units
    <3> DEFINE v == IF s.since = None THEN 0 ELSE s.since
    <3>1. ExtendStable(s, words) = [s EXCEPT !.stable = words, !.since = v]
      BY <1>4 DEF ExtendStable
    <3>2. v \in Ages
      BY <1>1 DEF Ages, None, Timeout
    <3> HIDE DEF v, w, c
    <3> QED BY <1>1, <3>1, <3>2 DEF w, c
  <2>2. SubSeq(w, 1, c) \in Seq(Words) /\ Len(SubSeq(w, 1, c)) = c
    BY <1>1, PlacesOfPrefix
  <2>3. SubSeq(SubSeq(w, 1, c), 1, c) = SubSeq(words, 1, c)
    BY <1>1, <2>2 DEF IsPrefix
  <2>4. SubSeq(SubSeq(w, 1, c), 1, c) = SubSeq(w, 1, c)
    <3> DEFINE z == SubSeq(w, 1, c)
    <3>1. z \in Seq(Words) /\ Len(z) = c
      BY <2>2
    <3> HIDE DEF z
    <3>2. SubSeq(z, 1, c) = z
      BY <3>1, SubSeqFull
    <3> QED BY <3>2 DEF z
  <2>5. sp \o s.units = SubSeq(words, 1, c)
    BY <1>1, <2>3, <2>4
  <2>6. c <= Len(words)
    BY <1>1, <1>2, <1>4
  <2> QED BY <1>2, <2>1, <2>5, <2>6 DEF CarriesOn
<1> QED BY <1>3, <1>4

LEMMA OfHypotheses == \A words \in Hypotheses : words \in Seq(Words)
  BY DEF Hypotheses, BoundedSeq, SeqOf

LEMMA DrainingCarriesOn ==
    ASSUME NEW sp \in Seq(Words), NEW s, CarriesOn(sp, s)
    PROVE  CarriesOn(sp, Drain(s))
<1>1. CarriesOn(sp, TryCommit(s))
  BY TryingCarriesOn
<1>2. CarriesOn(sp, TryCommit(TryCommit(s)))
  BY <1>1, TryingCarriesOn
<1>3. CarriesOn(sp, TryCommit(TryCommit(TryCommit(s))))
  BY <1>2, TryingCarriesOn
<1> QED BY <1>3 DEF Drain

\* A call starts with no units of its own.
LEMMA NowCarriesOn ==
    ASSUME ChunkerInv
    PROVE  /\ spoken \in Seq(Words) /\ CarriesOn(spoken, Now)
           /\ Now.stable = stable /\ Now.committed = committed
           /\ SubSeq(Now.stable, 1, Now.committed) = Already
<1>1. /\ stable \in Seq(Words) /\ committed \in Nat /\ since \in Ages /\ spoken \in Seq(Words)
      /\ committed <= Len(stable) /\ spoken = SubSeq(stable, 1, committed)
  BY DEF ChunkerInv, SpokenStands, Already
<1>2. /\ Now.stable = stable /\ Now.committed = committed /\ Now.units = <<>>
      /\ Now \in [stable : Seq(Words), committed : Nat, since : Ages, units : Seq(Words)]
  BY <1>1, EmptySeq DEF Now
<1>3. spoken \o <<>> = spoken
  BY <1>1, ConcatEmptySeq
<1> QED BY <1>1, <1>2, <1>3 DEF CarriesOn, Already

\* While an utterance lasts no final has ended it.
LEMMA NothingEnded == NotEnded \in Endings /\ FinalIsSaid(NotEnded)
<1>1. Len(<<>>) = 0 /\ <<>> \in Seq(Words)
  BY EmptySeq
<1>2. NotEnded \in Endings
  BY <1>1 DEF NotEnded, Endings
<1>3. IsPrefix(<<>>, <<>>)
  BY <1>1 DEF IsPrefix
<1>4. /\ NotEnded.final = <<>> /\ NotEnded.spoken = <<>>
      /\ NotEnded.stable = <<>> /\ NotEnded.said = <<>>
  BY DEF NotEnded
<1>5. FinalIsSaid(NotEnded)
  BY <1>1, <1>3, <1>4 DEF FinalIsSaid
<1> QED BY <1>2, <1>5

LEMMA LeavingStands ==
    ASSUME ChunkerInv, NEW s, CarriesOn(spoken, s), Leaves(s),
           hyp' \in Seq(Words), quiet' \in 0 .. EndOfTurn
    PROVE  ChunkerInv'
<1>1. /\ s.stable \in Seq(Words) /\ s.committed \in Nat /\ s.since \in Ages /\ s.units \in Seq(Words)
      /\ s.committed <= Len(s.stable) /\ spoken \o s.units = SubSeq(s.stable, 1, s.committed)
  BY DEF CarriesOn
<1>2. SubSeq(s.stable, 1, s.committed) \in Seq(Words)
  BY <1>1, PlacesOfPrefix
<1>3. /\ stable' = s.stable /\ committed' = s.committed /\ since' = s.since
      /\ spoken' = SubSeq(s.stable, 1, s.committed) /\ ended' = NotEnded
  BY <1>1 DEF Leaves
<1>4. spoken' = Already'
  BY <1>3 DEF Already
<1>5. ended' \in Endings /\ FinalIsSaid(ended')
  BY <1>3, NothingEnded
<1> QED BY <1>1, <1>2, <1>3, <1>4, <1>5 DEF ChunkerInv, SpokenStands

\* A new speech start, and the end of a final, leave nothing committed.
LEMMA ClearingStands ==
    ASSUME Cleared, ended' \in Endings, FinalIsSaid(ended')
    PROVE  ChunkerInv'
<1>1. /\ hyp' = <<>> /\ stable' = <<>> /\ committed' = 0 /\ quiet' = 0 /\ since' = None
      /\ spoken' = <<>>
  BY DEF Cleared
<1>2. Len(<<>>) = 0 /\ <<>> \in Seq(Words)
  BY EmptySeq
<1>3. SubSeq(<<>>, 1, 0) = <<>>
  BY <1>2, SubSeqEmpty
<1>4. spoken' = Already'
  BY <1>1, <1>3 DEF Already
<1>5. 0 \in 0 .. EndOfTurn /\ None \in Ages
  BY DEF EndOfTurn, Ages
<1> QED BY <1>1, <1>2, <1>4, <1>5 DEF ChunkerInv, SpokenStands

LEMMA PartialStands == ChunkerInv /\ OnPartial => ChunkerInv'
<1> SUFFICES ASSUME ChunkerInv, OnPartial PROVE ChunkerInv'
  OBVIOUS
<1> DEFINE Agreed(words) == LongestCommonPrefix({hyp, words})
           Longer(words) == Len(Agreed(words)) > Len(stable) /\ IsPrefix(stable, Agreed(words))
           Taken(words) == IF Longer(words) THEN ExtendStable(Now, Agreed(words)) ELSE Now
<1>1. PICK words \in Hypotheses :
        /\ hyp' = words
        /\ quiet' \in {0} \cup (IF words = hyp THEN {quiet} ELSE {})
        /\ Leaves(Drain(Taken(words)))
  BY DEF OnPartial
<1>2. hyp \in Seq(Words) /\ words \in Seq(Words) /\ stable \in Seq(Words) /\ quiet \in 0 .. EndOfTurn
      /\ committed \in Nat /\ committed <= Len(stable)
  BY OfHypotheses DEF ChunkerInv
<1>3. /\ spoken \in Seq(Words) /\ CarriesOn(spoken, Now)
      /\ SubSeq(Now.stable, 1, Now.committed) = Already
  BY NowCarriesOn
<1>4. Agreed(words) \in Seq(Words)
  BY <1>2, AgreedPrefix
<1> HIDE DEF Agreed
<1>5. CarriesOn(spoken, Taken(words))
  <2>1. CASE Longer(words)
    <3>1. IsPrefix(stable, Agreed(words))
      BY <2>1
    <3>2. IsPrefix(Already, Agreed(words))
      BY <1>2, <1>4, <3>1, PrefixOfPrefix DEF Already
    <3>3. CarriesOn(spoken, ExtendStable(Now, Agreed(words)))
      BY <1>3, <1>4, <3>2, ExtendingCarriesOn
    <3> QED BY <2>1, <3>3
  <2>2. CASE ~Longer(words)
    BY <1>3, <2>2
  <2> QED BY <2>1, <2>2
<1> HIDE DEF Taken
<1>6. CarriesOn(spoken, Drain(Taken(words)))
  BY <1>3, <1>5, DrainingCarriesOn
<1>7. hyp' \in Seq(Words) /\ quiet' \in 0 .. EndOfTurn
  BY <1>1, <1>2 DEF EndOfTurn
<1> QED BY <1>1, <1>6, <1>7, LeavingStands

\* What a final is taken for: the words already spoken, then its own.
SeenIn(words) == IF IsPrefix(Already, words) THEN words
                 ELSE Already \o SubSeq(words, committed + 1, Len(words))

LEMMA SeenInAFinal ==
    ASSUME ChunkerInv, NEW words \in Seq(Words)
    PROVE  LET x == SeenIn(words) IN
           /\ x \in Seq(Words) /\ IsPrefix(Already, x)
           /\ Len(words) > Len(stable) =>
                Len(x) = Len(words) /\ \A i \in committed + 1 .. Len(words) : x[i] = words[i]
           /\ Len(words) <= Len(stable) => Len(x) <= Len(stable)
<1> DEFINE x == SeenIn(words)
<1>1. x = IF IsPrefix(Already, words) THEN words
          ELSE Already \o SubSeq(words, committed + 1, Len(words))
  BY DEF SeenIn
<1> HIDE DEF x
<1> DEFINE rest == SubSeq(words, committed + 1, Len(words))
<1>2. /\ stable \in Seq(Words) /\ committed \in Nat /\ committed <= Len(stable)
      /\ Len(words) \in Nat /\ Len(stable) \in Nat
  BY LenProperties DEF ChunkerInv
<1>3. Already \in Seq(Words) /\ Len(Already) = committed
  BY <1>2, PlacesOfPrefix DEF Already
<1>4. CASE IsPrefix(Already, words)
  <2>1. x = words
    BY <1>1, <1>4
  <2> QED BY <1>2, <1>4, <2>1 DEF x
<1>5. CASE ~IsPrefix(Already, words)
  <2>1. /\ rest \in Seq(Words) /\ Len(rest) \in Nat
        /\ committed <= Len(words) =>
             Len(rest) = Len(words) - committed
             /\ \A i \in 1 .. Len(words) - committed : rest[i] = words[committed + i]
        /\ ~(committed <= Len(words)) => Len(rest) = 0
    <3>1. CASE committed <= Len(words)
      <4>1. /\ rest \in Seq(Words) /\ Len(rest) = Len(words) - committed
            /\ \A i \in 1 .. Len(words) - committed : rest[i] = words[committed + i]
        BY <1>2, <3>1, PlacesOfPending
      <4> HIDE DEF rest
      <4> QED BY <1>2, <3>1, <4>1
    <3>2. CASE ~(committed <= Len(words))
      <4>1. rest = <<>>
        BY <1>2, <3>2, SubSeqEmpty
      <4>2. <<>> \in Seq(Words) /\ Len(<<>>) = 0
        BY EmptySeq
      <4> QED BY <3>2, <4>1, <4>2
    <3> QED BY <3>1, <3>2
  <2>2. x = Already \o rest
    BY <1>5, <1>1
  <2> HIDE DEF rest
  <2>3. /\ x \in Seq(Words) /\ Len(x) = committed + Len(rest)
        /\ \A i \in 1 .. committed + Len(rest) :
             x[i] = IF i <= committed THEN Already[i] ELSE rest[i - committed]
    <3> DEFINE y == Already \o rest
    <3>1. /\ y \in Seq(Words) /\ Len(y) = Len(Already) + Len(rest)
          /\ \A i \in 1 .. Len(Already) + Len(rest) :
               y[i] = IF i <= Len(Already) THEN Already[i] ELSE rest[i - Len(Already)]
      BY <1>3, <2>1, ConcatProperties
    <3>2. x = y
      BY <2>2
    <3> HIDE DEF y
    <3> QED BY <1>3, <3>1, <3>2
  <2>4. IsPrefix(Already, x)
    <3>1. IsPrefix(Already, Already \o rest)
      BY <1>3, <2>1, PrefixOfConcat
    <3> QED BY <2>2, <3>1
  <2>5. ASSUME Len(words) > Len(stable)
        PROVE  Len(x) = Len(words) /\ \A i \in committed + 1 .. Len(words) : x[i] = words[i]
    <3>1. committed <= Len(words) /\ Len(x) = Len(words)
      <4>1. committed <= Len(words)
        BY <1>2, <2>5
      <4>2. Len(rest) = Len(words) - committed /\ Len(x) = committed + Len(rest)
        BY <2>1, <2>3, <4>1
      <4> QED BY <1>2, <4>1, <4>2
    <3>2. ASSUME NEW i \in committed + 1 .. Len(words) PROVE x[i] = words[i]
      <4>1. /\ i \in 1 .. committed + Len(rest) /\ ~(i <= committed)
            /\ i - committed \in 1 .. Len(words) - committed /\ committed + (i - committed) = i
        BY <1>2, <2>1, <3>1
      <4> QED BY <2>1, <2>3, <3>1, <4>1
    <3> QED BY <3>1, <3>2
  <2>6. Len(words) <= Len(stable) => Len(x) <= Len(stable)
    BY <1>2, <2>1, <2>3
  <2> QED BY <2>3, <2>4, <2>5, <2>6 DEF x
<1> QED BY <1>4, <1>5

LEMMA FinalStands == ChunkerInv /\ OnFinal => ChunkerInv'
<1> SUFFICES ASSUME ChunkerInv, OnFinal PROVE ChunkerInv'
  OBVIOUS
<1> DEFINE Taken(words) == ExtendStable(Now, SeenIn(words))
<1>1. PICK words \in Hypotheses :
        /\ Cleared
        /\ ended' = [final |-> words, spoken |-> spoken, stable |-> stable,
                     said |-> spoken \o EmitAll(Taken(words)).units]
  BY DEF OnFinal, SeenIn
<1>2. /\ words \in Seq(Words) /\ stable \in Seq(Words)
      /\ committed \in Nat /\ committed <= Len(stable)
      /\ spoken = Already
  BY OfHypotheses DEF ChunkerInv, SpokenStands
<1>3. /\ spoken \in Seq(Words) /\ CarriesOn(spoken, Now) /\ Now.stable = stable
      /\ SubSeq(Now.stable, 1, Now.committed) = Already
  BY NowCarriesOn
<1>4. Len(spoken) = committed /\ Len(words) \in Nat /\ Len(stable) \in Nat
  BY <1>2, PlacesOfPrefix, LenProperties DEF Already
<1> DEFINE x == SeenIn(words)
<1>5. Taken(words) = ExtendStable(Now, x)
  OBVIOUS
<1> HIDE DEF Taken
<1>6. /\ x \in Seq(Words) /\ IsPrefix(Already, x)
      /\ Len(words) > Len(stable) =>
           Len(x) = Len(words) /\ \A i \in committed + 1 .. Len(words) : x[i] = words[i]
      /\ Len(words) <= Len(stable) => Len(x) <= Len(stable)
  BY <1>2, SeenInAFinal
<1> HIDE DEF x
<1>7. CarriesOn(spoken, Taken(words))
  BY <1>3, <1>6, <1>5, ExtendingCarriesOn
<1>8. Taken(words).stable = IF Len(x) <= Len(stable) THEN stable ELSE x
  BY <1>3, <1>5 DEF ExtendStable, CarriesOn
<1> DEFINE s == EmitAll(Taken(words))
<1>9. CarriesOn(spoken, s) /\ s.stable = Taken(words).stable /\ s.committed = Len(s.stable)
  BY <1>3, <1>7, EmittingAllCarriesOn
<1>10. ended' = [final |-> words, spoken |-> spoken, stable |-> stable, said |-> spoken \o s.units]
  BY <1>1
<1> HIDE DEF s
<1>11. /\ spoken \o s.units = SubSeq(s.stable, 1, Len(s.stable)) /\ s.stable \in Seq(Words)
       /\ s.units \in Seq(Words)
  BY <1>9 DEF CarriesOn
<1>12. spoken \o s.units = s.stable
  BY <1>11, SubSeqFull
<1>13. IsPrefix(spoken, s.stable)
  BY <1>3, <1>11, <1>12, PrefixOfConcat
<1>14. ended' = [final |-> words, spoken |-> spoken, stable |-> stable, said |-> s.stable]
  BY <1>10, <1>12
<1>15. ended' \in Endings
  BY <1>2, <1>3, <1>11, <1>14 DEF Endings
<1>16. ASSUME Len(words) > Len(stable)
       PROVE  Len(s.stable) = Len(words)
              /\ \A i \in Len(spoken) + 1 .. Len(words) : s.stable[i] = words[i]
  <2>1. s.stable = x
    BY <1>4, <1>6, <1>8, <1>9, <1>16
  <2> QED BY <1>4, <1>6, <1>16, <2>1
<1>17. ASSUME Len(words) <= Len(stable) PROVE s.stable = stable
  BY <1>6, <1>8, <1>9, <1>17
<1>18. FinalIsSaid(ended')
  BY <1>13, <1>14, <1>16, <1>17 DEF FinalIsSaid
<1> QED BY <1>1, <1>15, <1>18, ClearingStands

LEMMA TickStands == ChunkerInv /\ ChunkerTick => ChunkerInv'
<1> SUFFICES ASSUME ChunkerInv, ChunkerTick PROVE ChunkerInv'
  OBVIOUS
<1> DEFINE silent == hyp # <<>> /\ quiet >= MaxSilence
           s == IF silent THEN AdoptHypothesis ELSE Now
           Left == IF silent /\ Pending(s) # <<>> /\ SilenceMayCommit(Pending(s)) THEN EmitAll(s)
                   ELSE IF s.since >= Timeout THEN EmitAll(s) ELSE s
<1>1. UNCHANGED <<hyp, quiet>> /\ Leaves(Left)
  BY DEF ChunkerTick
<1>2. /\ spoken \in Seq(Words) /\ CarriesOn(spoken, Now)
      /\ SubSeq(Now.stable, 1, Now.committed) = Already
  BY NowCarriesOn
<1>3. hyp \in Seq(Words) /\ quiet \in 0 .. EndOfTurn
  BY DEF ChunkerInv
<1>4. CarriesOn(spoken, AdoptHypothesis)
  <2>1. CASE IsPrefix(Already, hyp)
    <3>1. CarriesOn(spoken, ExtendStable(Now, hyp))
      BY <1>2, <1>3, <2>1, ExtendingCarriesOn
    <3> QED BY <2>1, <3>1 DEF AdoptHypothesis
  <2>2. CASE ~IsPrefix(Already, hyp)
    BY <1>2, <2>2 DEF AdoptHypothesis
  <2> QED BY <2>1, <2>2
<1>5. CarriesOn(spoken, s)
  BY <1>2, <1>4
<1> HIDE DEF s
<1>6. CarriesOn(spoken, EmitAll(s))
  BY <1>2, <1>5, EmittingAllCarriesOn
<1>7. CarriesOn(spoken, Left)
  BY <1>5, <1>6
<1> HIDE DEF Left
<1>8. hyp' \in Seq(Words) /\ quiet' \in 0 .. EndOfTurn
  BY <1>1, <1>3
<1> QED BY <1>1, <1>7, <1>8, LeavingStands

LEMMA ElapseStands == ChunkerInv /\ Elapse => ChunkerInv'
<1> SUFFICES ASSUME ChunkerInv, Elapse PROVE ChunkerInv'
  OBVIOUS
<1>1. /\ UNCHANGED <<hyp, stable, committed, spoken>> /\ ended' = NotEnded
      /\ quiet' = Min({quiet + 1, EndOfTurn})
      /\ since' = IF since = None THEN None ELSE Min({since + 1, Timeout})
  BY DEF Elapse
<1>2. quiet \in 0 .. EndOfTurn /\ since \in Ages
  BY DEF ChunkerInv
<1>3. quiet' \in 0 .. EndOfTurn
  <2>1. quiet + 1 \in Nat /\ EndOfTurn \in Nat
    BY <1>2 DEF EndOfTurn
  <2> QED BY <1>1, <2>1, Least
<1>4. since' \in Ages
  <2>1. CASE since = None
    BY <1>1, <1>2, <2>1
  <2>2. CASE since # None
    <3>1. since + 1 \in Nat /\ Timeout \in Nat
      BY <1>2, <2>2 DEF Ages, None, Timeout
    <3>2. Min({since + 1, Timeout}) \in 0 .. Timeout
      BY <3>1, Least
    <3> QED BY <1>1, <2>2, <3>2 DEF Ages
  <2> QED BY <2>1, <2>2
<1>5. Already' = Already
  BY <1>1 DEF Already
<1>6. ended' \in Endings /\ FinalIsSaid(ended')
  BY <1>1, NothingEnded
<1> QED BY <1>1, <1>3, <1>4, <1>5, <1>6 DEF ChunkerInv, SpokenStands

LEMMA ChunkerStarts == ChunkerInit => ChunkerInv
<1> SUFFICES ASSUME ChunkerInit PROVE ChunkerInv
  OBVIOUS
<1>1. Len(<<>>) = 0 /\ <<>> \in Seq(Words)
  BY EmptySeq
<1>2. SubSeq(<<>>, 1, 0) = <<>>
  BY <1>1, SubSeqEmpty
<1>3. /\ hyp = <<>> /\ stable = <<>> /\ committed = 0 /\ quiet = 0 /\ since = None
      /\ spoken = <<>> /\ ended = NotEnded
  BY DEF ChunkerInit
<1>4. ended \in Endings /\ FinalIsSaid(ended)
  BY <1>3, NothingEnded
<1>5. spoken = Already
  BY <1>2, <1>3 DEF Already
<1>6. 0 \in 0 .. EndOfTurn /\ None \in Ages
  BY DEF EndOfTurn, Ages
<1> QED BY <1>1, <1>3, <1>4, <1>5, <1>6 DEF ChunkerInv, SpokenStands

LEMMA ChunkerKeeps == ChunkerInv /\ [ChunkerNext]_chunkerVars => ChunkerInv'
<1> SUFFICES ASSUME ChunkerInv, [ChunkerNext]_chunkerVars PROVE ChunkerInv'
  OBVIOUS
<1>1. CASE OnPartial
  BY <1>1, PartialStands
<1>2. CASE OnFinal
  BY <1>2, FinalStands
<1>3. CASE ChunkerTick
  BY <1>3, TickStands
<1>4. CASE Reset
  <2>1. Cleared /\ ended' = NotEnded
    BY <1>4 DEF Reset
  <2>2. ended' \in Endings /\ FinalIsSaid(ended')
    BY <2>1, NothingEnded
  <2> QED BY <2>1, <2>2, ClearingStands
<1>5. CASE Elapse
  BY <1>5, ElapseStands
<1>6. CASE UNCHANGED chunkerVars
  BY <1>6 DEF chunkerVars, ChunkerInv, SpokenStands, Already
<1> QED BY <1>1, <1>2, <1>3, <1>4, <1>5, <1>6 DEF ChunkerNext

\* What the listener was given is the committed words for as long as the utterance lasts,
\* whatever the recognizer revises (on_partial, tick); a final longer than the stable words
\* is said to its end from there, and one that is no longer changes nothing (on_final,
\* _extend_stable).
THEOREM SpokenWordsStand == ChunkerSpec => []SpokenStands
<1>1. ChunkerInv => SpokenStands
  BY DEF ChunkerInv
<1> QED BY <1>1, ChunkerStarts, ChunkerKeeps, PTL DEF ChunkerSpec

----------------------------------------------------------------------------
(* No text of the chunker is longer than the hypotheses it hears. *)

Short(w) == Len(w) <= MaxWords

ChunkerBounds ==
    /\ Short(hyp) /\ Short(stable)
    /\ Short(ended.final) /\ Short(ended.spoken) /\ Short(ended.stable) /\ Short(ended.said)

LEMMA ShortIsHypothesis == \A w : w \in Hypotheses <=> w \in Seq(Words) /\ Short(w)
<1>1. ASSUME NEW w \in Hypotheses PROVE w \in Seq(Words) /\ Short(w)
  <2>1. PICK m \in 0 .. MaxWords : w \in [1 .. m -> Words]
    BY <1>1 DEF Hypotheses, BoundedSeq, SeqOf
  <2>2. m \in Nat /\ m <= MaxWords
    BY ChunkerAssumption
  <2>3. w \in Seq(Words)
    BY <2>1, <2>2, IsASeq
  <2>4. Len(w) = m
    BY <2>1, <2>2, <2>3, LenProperties
  <2> QED BY <2>2, <2>3, <2>4 DEF Short
<1>2. ASSUME NEW w \in Seq(Words), Short(w) PROVE w \in Hypotheses
  <2>1. w \in [1 .. Len(w) -> Words] /\ Len(w) \in Nat
    BY LenProperties
  <2>2. Len(w) \in 0 .. MaxWords
    BY <1>2, <2>1, ChunkerAssumption DEF Short
  <2> QED BY <2>1, <2>2 DEF Hypotheses, BoundedSeq, SeqOf
<1> QED BY <1>1, <1>2

LEMMA EmptyIsShort == Short(<<>>)
  BY EmptySeq, ChunkerAssumption DEF Short

\* Committing takes nothing from the stable words and adds nothing to them.
LEMMA DrainingKeepsText ==
    ASSUME NEW sp \in Seq(Words), NEW s, CarriesOn(sp, s)
    PROVE  Drain(s).stable = s.stable
<1>1. ASSUME NEW x, CarriesOn(sp, x) PROVE TryCommit(x).stable = x.stable
  <2>1. x \in [stable : Seq(Words), committed : Nat, since : Ages, units : Seq(Words)]
    BY <1>1 DEF CarriesOn
  <2>2. \A c : Emit(x, c).stable = x.stable
    BY <2>1 DEF Emit
  <2>3. EmitAll(x).stable = x.stable
    BY <2>2 DEF EmitAll
  <2> QED BY <2>2, <2>3 DEF TryCommit
<1>2. CarriesOn(sp, TryCommit(s)) /\ CarriesOn(sp, TryCommit(TryCommit(s)))
  BY TryingCarriesOn
<1> QED BY <1>1, <1>2 DEF Drain

LEMMA ExtendingStaysShort ==
    ASSUME NEW sp \in Seq(Words), NEW s, CarriesOn(sp, s), Short(s.stable), NEW w, Short(w)
    PROVE  Short(ExtendStable(s, w).stable)
<1>1. s \in [stable : Seq(Words), committed : Nat, since : Ages, units : Seq(Words)]
  BY DEF CarriesOn
<1>2. ExtendStable(s, w).stable \in {s.stable, w}
  BY <1>1 DEF ExtendStable
<1> QED BY <1>2

LEMMA PartialStaysShort == ChunkerInv /\ ChunkerBounds /\ OnPartial => ChunkerBounds'
<1> SUFFICES ASSUME ChunkerInv, ChunkerBounds, OnPartial PROVE ChunkerBounds'
  OBVIOUS
<1> DEFINE Agreed(words) == LongestCommonPrefix({hyp, words})
           Longer(words) == Len(Agreed(words)) > Len(stable) /\ IsPrefix(stable, Agreed(words))
           Taken(words) == IF Longer(words) THEN ExtendStable(Now, Agreed(words)) ELSE Now
<1>1. PICK words \in Hypotheses : hyp' = words /\ Leaves(Drain(Taken(words)))
  BY DEF OnPartial
<1>2. /\ hyp \in Seq(Words) /\ words \in Seq(Words) /\ stable \in Seq(Words)
      /\ committed \in Nat /\ committed <= Len(stable) /\ Short(words)
  BY ShortIsHypothesis DEF ChunkerInv
<1>3. /\ spoken \in Seq(Words) /\ CarriesOn(spoken, Now) /\ Now.stable = stable
      /\ SubSeq(Now.stable, 1, Now.committed) = Already
  BY NowCarriesOn
<1>4. Agreed(words) \in Seq(Words) /\ IsPrefix(Agreed(words), words)
  BY <1>2, AgreedPrefix
<1> HIDE DEF Agreed
<1>5. Short(Agreed(words))
  <2>1. Len(Agreed(words)) <= Len(words)
    BY <1>2, <1>4, PrefixByPlace
  <2>2. Len(Agreed(words)) \in Nat /\ Len(words) \in Nat
    BY <1>2, <1>4, LenProperties
  <2> QED BY <1>2, <2>1, <2>2, ChunkerAssumption DEF Short
<1>6. CarriesOn(spoken, Taken(words)) /\ Short(Taken(words).stable)
  <2>1. CASE Longer(words)
    <3>1. IsPrefix(Already, Agreed(words))
      BY <1>2, <1>4, <2>1, PrefixOfPrefix DEF Already
    <3>2. CarriesOn(spoken, ExtendStable(Now, Agreed(words)))
      BY <1>3, <1>4, <3>1, ExtendingCarriesOn
    <3>3. Short(ExtendStable(Now, Agreed(words)).stable)
      BY <1>3, <1>5, ExtendingStaysShort DEF ChunkerBounds
    <3> QED BY <2>1, <3>2, <3>3
  <2>2. CASE ~Longer(words)
    BY <1>3, <2>2 DEF ChunkerBounds
  <2> QED BY <2>1, <2>2
<1> HIDE DEF Taken
<1>7. Short(Drain(Taken(words)).stable)
  BY <1>3, <1>6, DrainingKeepsText
<1>8. stable' = Drain(Taken(words)).stable /\ ended' = NotEnded
  BY <1>1 DEF Leaves
<1> QED BY <1>1, <1>2, <1>7, <1>8, EmptyIsShort DEF ChunkerBounds, NotEnded

LEMMA FinalStaysShort == ChunkerInv /\ ChunkerBounds /\ OnFinal => ChunkerBounds'
<1> SUFFICES ASSUME ChunkerInv, ChunkerBounds, OnFinal PROVE ChunkerBounds'
  OBVIOUS
<1> DEFINE Rest(words) == SubSeq(words, committed + 1, Len(words))
           Seen(words) == IF IsPrefix(Already, words) THEN words ELSE Already \o Rest(words)
           Taken(words) == ExtendStable(Now, Seen(words))
<1>1. PICK words \in Hypotheses :
        /\ Cleared
        /\ ended' = [final |-> words, spoken |-> spoken, stable |-> stable,
                     said |-> spoken \o EmitAll(Taken(words)).units]
  BY DEF OnFinal
<1>2. /\ words \in Seq(Words) /\ stable \in Seq(Words) /\ Short(words)
      /\ committed \in Nat /\ committed <= Len(stable)
  BY ShortIsHypothesis DEF ChunkerInv
<1>3. /\ spoken \in Seq(Words) /\ CarriesOn(spoken, Now) /\ Now.stable = stable
      /\ SubSeq(Now.stable, 1, Now.committed) = Already
  BY NowCarriesOn
<1>4. Already \in Seq(Words) /\ Len(Already) = committed
  BY <1>2, PlacesOfPrefix DEF Already
<1>5. Len(words) \in Nat /\ Len(stable) \in Nat
  BY <1>2, LenProperties
<1>6. Seen(words) \in Seq(Words) /\ IsPrefix(Already, Seen(words)) /\ Short(Seen(words))
  <2>1. CASE IsPrefix(Already, words)
    BY <1>2, <2>1
  <2>2. CASE ~IsPrefix(Already, words)
    <3>1. Rest(words) \in Seq(Words) /\ Len(Rest(words)) \in Nat
          /\ committed + Len(Rest(words)) <= IF committed <= Len(words) THEN Len(words) ELSE committed
      <4>1. CASE committed <= Len(words)
        <5>1. Rest(words) \in Seq(Words) /\ Len(Rest(words)) = Len(words) - committed
          BY <1>2, <4>1, PlacesOfPending
        <5> QED BY <1>2, <1>5, <4>1, <5>1
      <4>2. CASE ~(committed <= Len(words))
        <5>1. Rest(words) = <<>>
          BY <1>2, <1>5, <4>2, SubSeqEmpty
        <5>2. <<>> \in Seq(Words) /\ Len(<<>>) = 0
          BY EmptySeq
        <5> QED BY <1>2, <1>5, <4>2, <5>1, <5>2
      <4> QED BY <4>1, <4>2
    <3> HIDE DEF Rest
    <3>2. /\ Already \o Rest(words) \in Seq(Words)
          /\ Len(Already \o Rest(words)) = committed + Len(Rest(words))
      BY <1>4, <3>1, ConcatProperties
    <3>3. IsPrefix(Already, Already \o Rest(words))
      BY <1>4, <3>1, PrefixOfConcat
    <3>4. committed <= MaxWords /\ Len(words) <= MaxWords
      BY <1>2, <1>5, ChunkerAssumption DEF ChunkerBounds, Short
    <3>5. Len(Already \o Rest(words)) <= MaxWords
      BY <1>2, <1>5, <3>1, <3>2, <3>4, ChunkerAssumption
    <3> QED BY <2>2, <3>2, <3>3, <3>5 DEF Short
  <2> QED BY <2>1, <2>2
<1> HIDE DEF Seen
<1>7. CarriesOn(spoken, Taken(words)) /\ Short(Taken(words).stable)
  BY <1>3, <1>6, ExtendingCarriesOn, ExtendingStaysShort DEF ChunkerBounds
<1> HIDE DEF Taken
<1> DEFINE s == EmitAll(Taken(words))
<1>8. CarriesOn(spoken, s) /\ s.stable = Taken(words).stable /\ s.committed = Len(s.stable)
  BY <1>3, <1>7, EmittingAllCarriesOn
<1> HIDE DEF s
<1>9. spoken \o s.units = SubSeq(s.stable, 1, Len(s.stable)) /\ s.stable \in Seq(Words)
  BY <1>8 DEF CarriesOn
<1>10. spoken \o s.units = s.stable
  BY <1>9, SubSeqFull
<1>11. /\ ended' = [final |-> words, spoken |-> spoken, stable |-> stable, said |-> s.stable]
       /\ Short(s.stable)
  BY <1>1, <1>7, <1>8, <1>10 DEF s
<1>12. hyp' = <<>> /\ stable' = <<>>
  BY <1>1 DEF Cleared
<1>13. Short(spoken)
  <2>1. Len(spoken) = committed
    BY <1>4 DEF ChunkerInv, SpokenStands
  <2> QED BY <1>2, <1>5, <2>1, ChunkerAssumption DEF ChunkerBounds, Short
<1>14. Short(stable)
  BY DEF ChunkerBounds
<1> QED BY <1>2, <1>11, <1>12, <1>13, <1>14, EmptyIsShort DEF ChunkerBounds

LEMMA TickStaysShort == ChunkerInv /\ ChunkerBounds /\ ChunkerTick => ChunkerBounds'
<1> SUFFICES ASSUME ChunkerInv, ChunkerBounds, ChunkerTick PROVE ChunkerBounds'
  OBVIOUS
<1> DEFINE silent == hyp # <<>> /\ quiet >= MaxSilence
           s == IF silent THEN AdoptHypothesis ELSE Now
           Left == IF silent /\ Pending(s) # <<>> /\ SilenceMayCommit(Pending(s)) THEN EmitAll(s)
                   ELSE IF s.since >= Timeout THEN EmitAll(s) ELSE s
<1>1. UNCHANGED <<hyp, quiet>> /\ Leaves(Left)
  BY DEF ChunkerTick
<1>2. /\ spoken \in Seq(Words) /\ CarriesOn(spoken, Now) /\ Now.stable = stable
      /\ SubSeq(Now.stable, 1, Now.committed) = Already
  BY NowCarriesOn
<1>3. hyp \in Seq(Words) /\ Short(hyp) /\ Short(stable)
  BY DEF ChunkerInv, ChunkerBounds
<1>4. CarriesOn(spoken, AdoptHypothesis) /\ Short(AdoptHypothesis.stable)
  <2>1. CASE IsPrefix(Already, hyp)
    BY <1>2, <1>3, <2>1, ExtendingCarriesOn, ExtendingStaysShort DEF AdoptHypothesis
  <2>2. CASE ~IsPrefix(Already, hyp)
    BY <1>2, <1>3, <2>2 DEF AdoptHypothesis
  <2> QED BY <2>1, <2>2
<1>5. CarriesOn(spoken, s) /\ Short(s.stable)
  BY <1>2, <1>3, <1>4
<1> HIDE DEF s
<1>6. EmitAll(s).stable = s.stable
  BY <1>2, <1>5, EmittingAllCarriesOn
<1>7. Short(Left.stable)
  BY <1>5, <1>6
<1> HIDE DEF Left
<1>8. stable' = Left.stable /\ ended' = NotEnded
  BY <1>1 DEF Leaves
<1> QED BY <1>1, <1>3, <1>7, <1>8, EmptyIsShort DEF ChunkerBounds, NotEnded

LEMMA ChunkerIsTyped == ChunkerInv /\ ChunkerBounds => ChunkerTypeOK
<1> SUFFICES ASSUME ChunkerInv, ChunkerBounds PROVE ChunkerTypeOK
  OBVIOUS
<1>1. /\ hyp \in Hypotheses /\ stable \in Hypotheses
      /\ ended \in Endings
      /\ ended.final \in Hypotheses /\ ended.spoken \in Hypotheses
      /\ ended.stable \in Hypotheses /\ ended.said \in Hypotheses
  BY ShortIsHypothesis DEF ChunkerInv, ChunkerBounds, Endings
<1>2. /\ stable \in Seq(Words) /\ committed \in Nat /\ committed <= Len(stable) /\ Len(stable) \in Nat
      /\ spoken = SubSeq(stable, 1, committed)
  BY LenProperties DEF ChunkerInv, SpokenStands, Already
<1>3. spoken \in Hypotheses
  <2>1. spoken \in Seq(Words) /\ Len(spoken) = committed
    BY <1>2, PlacesOfPrefix
  <2>2. Short(spoken)
    BY <1>2, <2>1, ChunkerAssumption DEF Short, ChunkerBounds
  <2> QED BY <2>1, <2>2, ShortIsHypothesis
<1> QED BY <1>1, <1>2, <1>3 DEF ChunkerInv, ChunkerTypeOK, Ages, Endings

\* What the chunker holds is never longer than the hypotheses it hears, also the text of a
\* final that was revised behind the words already spoken, and no more is committed than is
\* stable.
THEOREM ChunkerTypes == ChunkerSpec => []ChunkerTypeOK
<1>1. ChunkerInit => ChunkerInv /\ ChunkerBounds
  <2> SUFFICES ASSUME ChunkerInit PROVE ChunkerInv /\ ChunkerBounds
    OBVIOUS
  <2>1. ChunkerInv
    BY ChunkerStarts
  <2>2. ChunkerBounds
    BY EmptyIsShort DEF ChunkerInit, NotEnded, ChunkerBounds
  <2> QED BY <2>1, <2>2
<1>2. ChunkerInv /\ ChunkerBounds /\ [ChunkerNext]_chunkerVars => ChunkerInv' /\ ChunkerBounds'
  <2> SUFFICES ASSUME ChunkerInv, ChunkerBounds, [ChunkerNext]_chunkerVars PROVE ChunkerBounds'
    BY ChunkerKeeps
  <2>1. CASE OnPartial
    BY <2>1, PartialStaysShort
  <2>2. CASE OnFinal
    BY <2>2, FinalStaysShort
  <2>3. CASE ChunkerTick
    BY <2>3, TickStaysShort
  <2>4. CASE Reset
    BY <2>4, EmptyIsShort DEF Reset, Cleared, NotEnded, ChunkerBounds
  <2>5. CASE Elapse
    BY <2>5, EmptyIsShort DEF Elapse, NotEnded, ChunkerBounds
  <2>6. CASE UNCHANGED chunkerVars
    BY <2>6 DEF chunkerVars, ChunkerBounds
  <2> QED BY <2>1, <2>2, <2>3, <2>4, <2>5, <2>6 DEF ChunkerNext
<1> QED BY <1>1, <1>2, ChunkerIsTyped, PTL DEF ChunkerSpec

----------------------------------------------------------------------------
\* The shadow of the predictions.

----------------------------------------------------------------------------

AttemptRecords ==
    [prefix : Seq(Vocabulary), answer : {"asked", "answered", "failed", "cancelled"},
     settled : BOOLEAN, actual : Vocabulary \cup {NoWord}, logged : BOOLEAN, rows : Nat]

\* A row is written once, and only for what was answered or failed and has its outcome.
AttemptStarted(a) ==
    /\ a \in AttemptRecords
    /\ a.rows = IF a.logged THEN 1 ELSE 0
    /\ a.logged => a.answer \in {"answered", "failed"} /\ a.settled
    /\ a.answer = "failed" => a.logged

\* And it is written as soon as both are there.
AttemptOK(a) == AttemptStarted(a) /\ (a.answer = "answered" /\ a.settled => a.logged)

\* What becomes of an attempt while its request is left alone.
Advances(a, b) ==
    /\ AttemptOK(b)
    /\ b.prefix = a.prefix /\ b.answer = a.answer
    /\ a.logged => b.logged
    /\ a.settled => b.settled

\* Once the session closes everything has its outcome; when it is over nothing is asked any
\* more; and no prefix is asked for twice at a time.
ShadowInv ==
    /\ previous \in Seq(Vocabulary) /\ attempts \in Seq(AttemptRecords)
    /\ shadow \in {"open", "closing", "closed"}
    /\ \A i \in 1 .. Len(attempts) :
         /\ AttemptOK(attempts[i])
         /\ shadow # "open" => attempts[i].settled
         /\ shadow = "closed" => attempts[i].answer # "asked"
    /\ \A i, k \in 1 .. Len(attempts) :
         attempts[i].prefix = attempts[k].prefix /\ ~attempts[i].logged /\ ~attempts[k].logged
           => i = k

----------------------------------------------------------------------------
(* One attempt. *)

LEMMA AttemptIsEmitted ==
    ASSUME NEW a, AttemptStarted(a)
    PROVE  Advances(a, EmitIfReady(a)) /\ EmitIfReady(a).actual = a.actual
           /\ EmitIfReady(a).settled = a.settled
<1>1. a \in AttemptRecords /\ a.rows = IF a.logged THEN 1 ELSE 0
  BY DEF AttemptStarted
<1>2. CASE ~(a.answer = "answered" /\ a.settled /\ ~a.logged)
  <2>1. EmitIfReady(a) = a
    BY <1>2 DEF EmitIfReady
  <2> QED BY <1>2, <2>1 DEF Advances, AttemptOK, AttemptStarted
<1>3. CASE a.answer = "answered" /\ a.settled /\ ~a.logged
  <2>1. EmitIfReady(a) = [a EXCEPT !.logged = TRUE, !.rows = 1]
    BY <1>1, <1>3 DEF EmitIfReady
  <2>2. Advances(a, [a EXCEPT !.logged = TRUE, !.rows = 1])
    BY <1>1, <1>3 DEF Advances, AttemptOK, AttemptStarted, AttemptRecords
  <2>3. /\ [a EXCEPT !.logged = TRUE, !.rows = 1].actual = a.actual
        /\ [a EXCEPT !.logged = TRUE, !.rows = 1].settled = a.settled
    BY <1>1 DEF AttemptRecords
  <2> QED BY <2>1, <2>2, <2>3
<1> QED BY <1>2, <1>3

\* An attempt that is not on the log yet may be settled, with a word or without.
LEMMA AttemptGetsOutcome ==
    ASSUME NEW a, AttemptOK(a), ~a.logged, NEW w \in Vocabulary
    PROVE  /\ AttemptStarted([a EXCEPT !.actual = w, !.settled = TRUE])
           /\ AttemptStarted([a EXCEPT !.settled = TRUE])
           /\ Advances(a, EmitIfReady([a EXCEPT !.actual = w, !.settled = TRUE]))
           /\ EmitIfReady([a EXCEPT !.actual = w, !.settled = TRUE]).actual = w
<1> DEFINE b == [a EXCEPT !.actual = w, !.settled = TRUE]
<1>1. /\ AttemptStarted(b) /\ b.actual = w /\ b.prefix = a.prefix /\ b.answer = a.answer
      /\ b.settled /\ b.logged = a.logged
  BY DEF AttemptOK, AttemptStarted, AttemptRecords
<1>2. AttemptStarted([a EXCEPT !.settled = TRUE])
  BY DEF AttemptOK, AttemptStarted, AttemptRecords
<1> HIDE DEF b
<1>3. Advances(b, EmitIfReady(b)) /\ EmitIfReady(b).actual = b.actual
  BY <1>1, AttemptIsEmitted
<1>4. Advances(a, EmitIfReady(b)) /\ EmitIfReady(b).actual = w
  BY <1>1, <1>3 DEF Advances
<1> QED BY <1>1, <1>2, <1>4 DEF b

LEMMA AttemptSettlesEmpty ==
    ASSUME NEW a, AttemptOK(a), ~a.logged
    PROVE  LET b == EmitIfReady([a EXCEPT !.settled = TRUE]) IN
           Advances(a, b) /\ b.actual = a.actual /\ b.settled
<1> DEFINE b == [a EXCEPT !.settled = TRUE]
<1>1. /\ AttemptStarted(b) /\ b.actual = a.actual /\ b.prefix = a.prefix /\ b.answer = a.answer
      /\ b.settled /\ b.logged = a.logged
  BY DEF AttemptOK, AttemptStarted, AttemptRecords
<1> HIDE DEF b
<1>2. Advances(b, EmitIfReady(b)) /\ EmitIfReady(b).actual = b.actual
  BY <1>1, AttemptIsEmitted
<1>3. Advances(a, EmitIfReady(b)) /\ EmitIfReady(b).actual = a.actual /\ EmitIfReady(b).settled
  BY <1>1, <1>2 DEF Advances
<1> QED BY <1>3 DEF b

LEMMA AttemptSettles ==
    ASSUME NEW a, AttemptOK(a)
    PROVE  Advances(a, Settle(a)) /\ Settle(a).actual = a.actual /\ Settle(a).settled
<1>1. CASE a.settled
  BY <1>1 DEF Settle, Advances
<1>2. CASE ~a.settled
  <2>1. ~a.logged
    BY <1>2 DEF AttemptOK, AttemptStarted
  <2> QED BY <1>2, <2>1, AttemptSettlesEmpty DEF Settle
<1> QED BY <1>1, <1>2

\* A word becomes the truth only as the one after the prefix, within what is stable.
LEMMA AttemptResolves ==
    ASSUME NEW a, AttemptOK(a), NEW text \in Seq(Vocabulary), NEW n \in Nat, n <= Len(text)
    PROVE  LET b == Resolve(a, text, n) IN
           /\ Advances(a, b)
           /\ b.actual # a.actual =>
                /\ Len(a.prefix) < n /\ IsPrefix(a.prefix, text)
                /\ b.actual = text[Len(a.prefix) + 1]
<1>1. a.prefix \in Seq(Vocabulary)
  BY DEF AttemptOK, AttemptStarted, AttemptRecords
<1>2. Len(a.prefix) \in Nat /\ Len(text) \in Nat
  BY <1>1, LenProperties
<1>3. CASE a.actual # NoWord \/ a.logged \/ n <= Len(a.prefix)
  BY <1>3 DEF Resolve, Advances
<1>4. CASE ~(a.actual # NoWord \/ a.logged \/ n <= Len(a.prefix))
  <2> DEFINE w == text[Len(a.prefix) + 1]
  <2>1. Len(a.prefix) + 1 \in 1 .. Len(text) /\ Len(a.prefix) < n
    BY <1>2, <1>4
  <2>2. w \in Vocabulary
    BY <2>1, ElementOfSeq
  <2>3. CASE IsPrefix(a.prefix, text)
    <3>1. Resolve(a, text, n) = EmitIfReady([a EXCEPT !.actual = w, !.settled = TRUE])
      BY <1>4, <2>3 DEF Resolve
    <3> HIDE DEF w
    <3>2. /\ Advances(a, EmitIfReady([a EXCEPT !.actual = w, !.settled = TRUE]))
          /\ EmitIfReady([a EXCEPT !.actual = w, !.settled = TRUE]).actual = w
      BY <1>4, <2>2, AttemptGetsOutcome
    <3> QED BY <2>1, <2>3, <3>1, <3>2 DEF w
  <2>4. CASE ~IsPrefix(a.prefix, text)
    <3>1. Resolve(a, text, n) = EmitIfReady([a EXCEPT !.settled = TRUE])
      BY <1>4, <2>4 DEF Resolve
    <3> QED BY <1>4, <3>1, AttemptSettlesEmpty
  <2> QED BY <2>3, <2>4
<1> QED BY <1>3, <1>4

LEMMA AdvancesTwice ==
    ASSUME NEW a, NEW b, NEW c, Advances(a, b), Advances(b, c) PROVE Advances(a, c)
  BY DEF Advances

LEMMA OfTexts == \A text \in Texts : text \in Seq(Vocabulary)
  BY DEF Texts, BoundedSeq, SeqOf

----------------------------------------------------------------------------
(* The evaluator. *)

\* A step that only moves the attempts on.
LEMMA AttemptsAdvance ==
    ASSUME ShadowInv, previous' \in Seq(Vocabulary),
           attempts' = [i \in 1 .. Len(attempts) |-> attempts'[i]],
           \A i \in 1 .. Len(attempts) : Advances(attempts[i], attempts'[i]),
           \/ shadow' = shadow
           \/ /\ shadow = "open" /\ shadow' = "closing"
              /\ \A i \in 1 .. Len(attempts) : attempts'[i].settled
    PROVE  ShadowInv' /\ attempts' \in Seq(AttemptRecords) /\ Len(attempts') = Len(attempts)
<1> DEFINE N == Len(attempts)
<1>1. N \in Nat /\ attempts \in Seq(AttemptRecords) /\ shadow \in {"open", "closing", "closed"}
  BY LenProperties DEF ShadowInv
<1>2. \A i \in 1 .. N : attempts'[i] \in AttemptRecords
  BY DEF Advances, AttemptOK, AttemptStarted
<1>3. attempts' \in [1 .. N -> AttemptRecords]
  BY <1>2
<1>4. attempts' \in Seq(AttemptRecords) /\ Len(attempts') = N
  BY <1>1, <1>3, IsASeq, LenProperties
<1>5. \A i \in 1 .. N :
         /\ AttemptOK(attempts'[i])
         /\ shadow' # "open" => attempts'[i].settled
         /\ shadow' = "closed" => attempts'[i].answer # "asked"
  BY DEF ShadowInv, Advances
<1>6. \A i, k \in 1 .. N :
         attempts'[i].prefix = attempts'[k].prefix /\ ~attempts'[i].logged /\ ~attempts'[k].logged
           => i = k
  BY DEF ShadowInv, Advances
<1>7. shadow' \in {"open", "closing", "closed"}
  BY <1>1
<1> QED BY <1>4, <1>5, <1>6, <1>7 DEF ShadowInv

\* What a step may say of the truth of each prediction.
TruthOK ==
    \A i \in DOMAIN attempts : attempts'[i].actual # attempts[i].actual =>
         LET said == Append(attempts[i].prefix, attempts'[i].actual) IN
         /\ IsPrefix(said, observed'.text)
         /\ observed'.final \/ IsPrefix(said, previous)

LEMMA AttemptsAre ==
    ASSUME ShadowInv
    PROVE  /\ Len(attempts) \in Nat /\ DOMAIN attempts = 1 .. Len(attempts)
           /\ attempts \in [1 .. Len(attempts) -> AttemptRecords]
           /\ \A i \in 1 .. Len(attempts) : attempts[i] \in AttemptRecords /\ AttemptOK(attempts[i])
           /\ \A i \in 1 .. Len(attempts) : attempts[i].prefix \in Seq(Vocabulary)
<1>1. /\ Len(attempts) \in Nat /\ DOMAIN attempts = 1 .. Len(attempts)
      /\ attempts \in [1 .. Len(attempts) -> AttemptRecords]
  BY LenProperties DEF ShadowInv
<1>2. \A i \in 1 .. Len(attempts) : attempts[i] \in AttemptRecords /\ AttemptOK(attempts[i])
  BY <1>1 DEF ShadowInv
<1>3. \A i \in 1 .. Len(attempts) : attempts[i].prefix \in Seq(Vocabulary)
  BY <1>2 DEF AttemptRecords
<1> QED BY <1>1, <1>2, <1>3

\* The word after a prefix of a text, put after it.
LEMMA SaidIsHeard ==
    ASSUME NEW S, NEW p \in Seq(S), NEW t \in Seq(S), IsPrefix(p, t), Len(p) < Len(t)
    PROVE  IsPrefix(Append(p, t[Len(p) + 1]), t)
<1>1. Len(p) \in Nat /\ Len(t) \in Nat
  BY LenProperties
<1>2. \A i \in 1 .. Len(p) : p[i] = t[i]
  BY PrefixByPlace
<1>3. Len(p) + 1 \in 1 .. Len(t)
  BY <1>1
<1> DEFINE w == t[Len(p) + 1]
           q == Append(p, w)
<1>4. w \in S
  BY <1>3, ElementOfSeq
<1>5. q \in Seq(S) /\ Len(q) = Len(p) + 1 /\ (\A i \in 1 .. Len(p) : q[i] = p[i]) /\ q[Len(p) + 1] = w
  <2> HIDE DEF w
  <2> QED BY <1>4, AppendProperties
<1> HIDE DEF q
<1>6. \A i \in 1 .. Len(q) : q[i] = t[i]
  <2> TAKE i \in 1 .. Len(q)
  <2>1. i \in 1 .. Len(p) \/ i = Len(p) + 1
    BY <1>1, <1>5
  <2> QED BY <1>2, <1>5, <2>1
<1>7. IsPrefix(q, t)
  BY <1>1, <1>5, <1>6, PrefixByPlace
<1> QED BY <1>7 DEF q

LEMMA PartialIsObserved == ShadowInv /\ ObservePartial => ShadowInv' /\ TruthOK
<1> SUFFICES ASSUME ShadowInv, ObservePartial PROVE ShadowInv' /\ TruthOK
  OBVIOUS
<1> DEFINE Agreed(text) == LongestCommonPrefix({previous, text})
           Resolved(text) == [i \in DOMAIN attempts |-> Resolve(attempts[i], text, Len(Agreed(text)))]
           Fresh(text) == [prefix |-> Agreed(text), answer |-> "asked", settled |-> FALSE,
                           actual |-> NoWord, logged |-> FALSE, rows |-> 0]
           N == Len(attempts)
<1>1. PICK text \in Texts :
         /\ previous' = text /\ observed' = [text |-> text, final |-> FALSE]
         /\ \/ Asks(Resolved(text), Agreed(text)) /\ attempts' = Append(Resolved(text), Fresh(text))
            \/ ~Asks(Resolved(text), Agreed(text)) /\ attempts' = Resolved(text)
  BY DEF ObservePartial, EachAttempt
<1>2. shadow = "open" /\ shadow' = "open"
  BY DEF ObservePartial
<1>3. text \in Seq(Vocabulary) /\ previous \in Seq(Vocabulary) /\ observed'.text = text
  BY <1>1, OfTexts DEF ShadowInv
<1>4. N \in Nat /\ DOMAIN attempts = 1 .. N
  BY AttemptsAre
<1> DEFINE agreed == Agreed(text)
           resolved == Resolved(text)
<1>5. agreed \in Seq(Vocabulary) /\ IsPrefix(agreed, previous) /\ IsPrefix(agreed, text)
  BY <1>3, AgreedPrefix
<1>6. Len(agreed) \in Nat /\ Len(previous) \in Nat /\ Len(text) \in Nat
  BY <1>3, <1>5, LenProperties
<1>7. Len(agreed) <= Len(text) /\ Len(agreed) <= Len(previous)
      /\ \A k \in 1 .. Len(agreed) : agreed[k] = text[k] /\ agreed[k] = previous[k]
  <2> HIDE DEF agreed
  <2>1. Len(agreed) <= Len(text) /\ \A k \in 1 .. Len(agreed) : agreed[k] = text[k]
    BY <1>3, <1>5, PrefixByPlace
  <2>2. Len(agreed) <= Len(previous) /\ \A k \in 1 .. Len(agreed) : agreed[k] = previous[k]
    BY <1>3, <1>5, PrefixByPlace
  <2> QED BY <2>1, <2>2
<1>8. resolved = [i \in 1 .. N |-> Resolve(attempts[i], text, Len(agreed))]
  BY <1>4
<1> HIDE DEF Agreed, Resolved
<1>9. \A i \in 1 .. N :
         /\ Advances(attempts[i], resolved[i])
         /\ resolved[i].actual # attempts[i].actual =>
              /\ Len(attempts[i].prefix) < Len(agreed) /\ IsPrefix(attempts[i].prefix, text)
              /\ resolved[i].actual = text[Len(attempts[i].prefix) + 1]
  <2> TAKE i \in 1 .. N
  <2>1. AttemptOK(attempts[i])
    BY AttemptsAre
  <2>2. resolved[i] = Resolve(attempts[i], text, Len(agreed))
    BY <1>8
  <2> QED BY <1>3, <1>6, <1>7, <2>1, <2>2, AttemptResolves
<1>10. \A i \in 1 .. N : attempts'[i] = resolved[i]
  <2>1. resolved \in Seq(AttemptRecords) /\ Len(resolved) = N
    <3>1. \A i \in 1 .. N : resolved[i] \in AttemptRecords
      BY <1>9 DEF Advances, AttemptOK, AttemptStarted
    <3>2. resolved \in [1 .. N -> AttemptRecords]
      BY <1>8, <3>1
    <3> HIDE DEF resolved
    <3> QED BY <1>4, <3>2, IsASeq, LenProperties
  <2>2. Fresh(text) \in AttemptRecords
    BY <1>5 DEF AttemptRecords
  <2> HIDE DEF Fresh
  <2> QED BY <1>1, <2>1, <2>2, AppendProperties
<1>11. TruthOK
  <2> SUFFICES ASSUME NEW i \in 1 .. N, attempts'[i].actual # attempts[i].actual
               PROVE  /\ IsPrefix(Append(attempts[i].prefix, attempts'[i].actual), text)
                      /\ IsPrefix(Append(attempts[i].prefix, attempts'[i].actual), previous)
    BY <1>3, <1>4 DEF TruthOK
  <2> DEFINE p == attempts[i].prefix
  <2>1. p \in Seq(Vocabulary)
    BY AttemptsAre
  <2>2. /\ Len(p) < Len(agreed) /\ IsPrefix(p, text)
        /\ attempts'[i].actual = text[Len(p) + 1]
    BY <1>9, <1>10
  <2> HIDE DEF p
  <2>3. Len(p) \in Nat /\ Len(p) < Len(text) /\ Len(p) < Len(previous) /\ Len(p) + 1 \in 1 .. Len(agreed)
    <3>1. Len(p) \in Nat
      BY <2>1, LenProperties
    <3> QED BY <1>6, <1>7, <2>2, <3>1
  <2>4. text[Len(p) + 1] = previous[Len(p) + 1]
    BY <1>7, <2>3
  <2>5. IsPrefix(p, previous)
    <3>1. \A k \in 1 .. Len(p) : p[k] = text[k]
      BY <1>3, <2>1, <2>2, PrefixByPlace
    <3>2. \A k \in 1 .. Len(p) : k \in 1 .. Len(agreed)
      BY <1>6, <2>2, <2>3
    <3>3. \A k \in 1 .. Len(p) : p[k] = previous[k]
      BY <1>7, <3>1, <3>2
    <3>4. Len(p) <= Len(previous)
      BY <1>6, <2>3
    <3> QED BY <1>3, <2>1, <3>3, <3>4, PrefixByPlace
  <2>6. IsPrefix(Append(p, text[Len(p) + 1]), text)
    BY <1>3, <2>1, <2>2, <2>3, SaidIsHeard
  <2>7. IsPrefix(Append(p, previous[Len(p) + 1]), previous)
    BY <1>3, <2>1, <2>3, <2>5, SaidIsHeard
  <2> QED BY <2>2, <2>4, <2>6, <2>7 DEF p
<1>12. CASE attempts' = resolved
  <2>1. attempts' = [i \in 1 .. Len(attempts) |-> attempts'[i]]
    BY <1>8, <1>12
  <2>2. \A i \in 1 .. Len(attempts) : Advances(attempts[i], attempts'[i])
    BY <1>9, <1>10
  <2>3. previous' \in Seq(Vocabulary)
    BY <1>1, <1>3
  <2>4. ShadowInv'
    BY <1>2, <2>1, <2>2, <2>3, AttemptsAdvance
  <2> QED BY <1>11, <2>4
<1>13. CASE Asks(resolved, agreed) /\ attempts' = Append(resolved, Fresh(text))
  <2> DEFINE fresh == Fresh(text)
  <2>1. /\ fresh \in AttemptRecords /\ AttemptOK(fresh)
        /\ fresh.prefix = agreed /\ ~fresh.settled /\ ~fresh.logged /\ fresh.answer = "asked"
    BY <1>5 DEF AttemptRecords, AttemptOK, AttemptStarted
  <2> HIDE DEF Fresh
  <2>2. resolved \in Seq(AttemptRecords) /\ Len(resolved) = N
    <3>1. \A i \in 1 .. N : resolved[i] \in AttemptRecords
      BY <1>9 DEF Advances, AttemptOK, AttemptStarted
    <3>2. resolved \in [1 .. N -> AttemptRecords]
      BY <1>8, <3>1
    <3> HIDE DEF resolved
    <3> QED BY <1>4, <3>2, IsASeq, LenProperties
  <2>3. /\ attempts' \in Seq(AttemptRecords) /\ Len(attempts') = N + 1
        /\ attempts'[N + 1] = fresh
    BY <1>13, <2>1, <2>2, AppendProperties
  <2>4. DOMAIN resolved = 1 .. N
    BY <1>8
  <2>5. \A i \in 1 .. N : attempts'[i].prefix = agreed => attempts'[i].logged
    BY <1>10, <1>13, <2>4 DEF Asks
  <2>6. \A i \in 1 .. N + 1 : i \in 1 .. N \/ i = N + 1
    BY <1>4
  <2>7. \A i \in 1 .. N : Advances(attempts[i], attempts'[i])
    BY <1>9, <1>10
  <2>8. \A i \in 1 .. N + 1 : AttemptOK(attempts'[i])
    BY <2>1, <2>3, <2>6, <2>7 DEF Advances
  <2>9. \A i, k \in 1 .. N :
         attempts'[i].prefix = attempts'[k].prefix /\ ~attempts'[i].logged /\ ~attempts'[k].logged
           => i = k
    BY <2>7 DEF ShadowInv, Advances
  <2>10. \A i, k \in 1 .. N + 1 :
         attempts'[i].prefix = attempts'[k].prefix /\ ~attempts'[i].logged /\ ~attempts'[k].logged
           => i = k
    <3> TAKE i, k \in 1 .. N + 1
    <3>1. CASE i \in 1 .. N /\ k \in 1 .. N
      BY <2>9, <3>1
    <3>2. CASE i = N + 1 /\ k = N + 1
      BY <3>2
    <3>3. CASE i \in 1 .. N /\ k = N + 1
      BY <2>1, <2>3, <2>5, <3>3
    <3>4. CASE i = N + 1 /\ k \in 1 .. N
      BY <2>1, <2>3, <2>5, <3>4
    <3> QED BY <2>6, <3>1, <3>2, <3>3, <3>4
  <2>11. previous' \in Seq(Vocabulary)
    BY <1>1, <1>3
  <2> HIDE DEF fresh, resolved, agreed
  <2>12. ShadowInv'
    BY <1>2, <2>3, <2>8, <2>10, <2>11 DEF ShadowInv
  <2> QED BY <1>11, <2>12
<1> QED BY <1>1, <1>12, <1>13

LEMMA FinalIsObserved == ShadowInv /\ ObserveFinal => ShadowInv' /\ TruthOK
<1> SUFFICES ASSUME ShadowInv, ObserveFinal PROVE ShadowInv' /\ TruthOK
  OBVIOUS
<1> DEFINE N == Len(attempts)
<1>1. PICK text \in Texts :
         /\ attempts' = [i \in DOMAIN attempts |-> Settle(Resolve(attempts[i], text, Len(text)))]
         /\ observed' = [text |-> text, final |-> TRUE]
  BY DEF ObserveFinal, EachAttempt
<1>2. shadow = "open" /\ shadow' = shadow /\ previous' = <<>>
  BY DEF ObserveFinal
<1>3. text \in Seq(Vocabulary) /\ observed'.text = text /\ observed'.final /\ <<>> \in Seq(Vocabulary)
  BY <1>1, OfTexts, EmptySeq
<1>4. N \in Nat /\ DOMAIN attempts = 1 .. N /\ Len(text) \in Nat
  BY <1>3, AttemptsAre, LenProperties
<1>5. attempts' = [i \in 1 .. N |-> Settle(Resolve(attempts[i], text, Len(text)))]
  BY <1>1, <1>4
<1>6. \A i \in 1 .. N :
         /\ Advances(attempts[i], attempts'[i])
         /\ attempts'[i].actual # attempts[i].actual =>
              /\ Len(attempts[i].prefix) < Len(text) /\ IsPrefix(attempts[i].prefix, text)
              /\ attempts'[i].actual = text[Len(attempts[i].prefix) + 1]
  <2> TAKE i \in 1 .. N
  <2> DEFINE b == Resolve(attempts[i], text, Len(text))
  <2>1. AttemptOK(attempts[i])
    BY AttemptsAre
  <2>2. attempts'[i] = Settle(b)
    BY <1>5
  <2>3. /\ Advances(attempts[i], b)
        /\ b.actual # attempts[i].actual =>
              /\ Len(attempts[i].prefix) < Len(text) /\ IsPrefix(attempts[i].prefix, text)
              /\ b.actual = text[Len(attempts[i].prefix) + 1]
    BY <1>3, <1>4, <2>1, AttemptResolves
  <2> HIDE DEF b
  <2>4. AttemptOK(b)
    BY <2>3 DEF Advances
  <2>5. Advances(b, Settle(b)) /\ Settle(b).actual = b.actual
    BY <2>4, AttemptSettles
  <2>6. Advances(attempts[i], Settle(b))
    BY <2>3, <2>5, AdvancesTwice
  <2> QED BY <2>2, <2>3, <2>5, <2>6
<1>7. TruthOK
  <2> SUFFICES ASSUME NEW i \in 1 .. N, attempts'[i].actual # attempts[i].actual
               PROVE  IsPrefix(Append(attempts[i].prefix, attempts'[i].actual), text)
    BY <1>3, <1>4 DEF TruthOK
  <2>1. attempts[i].prefix \in Seq(Vocabulary)
    BY AttemptsAre
  <2> QED BY <1>3, <1>6, <2>1, SaidIsHeard
<1>8. attempts' = [i \in 1 .. Len(attempts) |-> attempts'[i]]
  BY <1>5
<1>9. previous' \in Seq(Vocabulary)
  BY <1>2, <1>3
<1>10. ShadowInv'
  BY <1>2, <1>6, <1>8, <1>9, AttemptsAdvance
<1> QED BY <1>7, <1>10

\* A new speech start, and the close.
LEMMA ResetSettles ==
    ASSUME ShadowInv, ShadowReset, shadow = "open", shadow' \in {"open", "closing"}
    PROVE  ShadowInv' /\ TruthOK
<1> DEFINE N == Len(attempts)
<1>1. /\ previous' = <<>> /\ attempts' = [i \in DOMAIN attempts |-> Settle(attempts[i])]
  BY DEF ShadowReset, EachAttempt
<1>2. N \in Nat /\ DOMAIN attempts = 1 .. N /\ <<>> \in Seq(Vocabulary)
  BY AttemptsAre, EmptySeq
<1>3. attempts' = [i \in 1 .. N |-> Settle(attempts[i])]
  BY <1>1, <1>2
<1>4. \A i \in 1 .. N : /\ Advances(attempts[i], attempts'[i]) /\ attempts'[i].settled
                        /\ attempts'[i].actual = attempts[i].actual
  <2> TAKE i \in 1 .. N
  <2>1. AttemptOK(attempts[i])
    BY AttemptsAre
  <2>2. attempts'[i] = Settle(attempts[i])
    BY <1>3
  <2> QED BY <2>1, <2>2, AttemptSettles
<1>5. TruthOK
  BY <1>2, <1>4 DEF TruthOK
<1>6. attempts' = [i \in 1 .. Len(attempts) |-> attempts'[i]]
  BY <1>3
<1>7. previous' \in Seq(Vocabulary)
  BY <1>1, <1>2
<1>8. ShadowInv'
  BY <1>4, <1>6, <1>7, AttemptsAdvance
<1> QED BY <1>5, <1>8

\* A step that only changes what is known of the request of one attempt, or of several.
LEMMA AnswersArrive ==
    ASSUME ShadowInv, previous' = previous,
           attempts' = [i \in 1 .. Len(attempts) |-> attempts'[i]],
           \A i \in 1 .. Len(attempts) :
              /\ AttemptOK(attempts'[i])
              /\ attempts'[i].prefix = attempts[i].prefix /\ attempts'[i].actual = attempts[i].actual
              /\ attempts[i].logged => attempts'[i].logged
              /\ attempts[i].settled => attempts'[i].settled
              /\ attempts'[i].answer = "asked" => attempts[i].answer = "asked",
           \/ shadow' = shadow
           \/ /\ shadow = "closing" /\ shadow' = "closed"
              /\ \A i \in 1 .. Len(attempts) : attempts'[i].answer # "asked"
    PROVE  ShadowInv' /\ TruthOK
<1> DEFINE N == Len(attempts)
<1>1. /\ N \in Nat /\ attempts \in Seq(AttemptRecords) /\ shadow \in {"open", "closing", "closed"}
      /\ DOMAIN attempts = 1 .. N /\ previous \in Seq(Vocabulary)
  BY AttemptsAre DEF ShadowInv
<1>2. \A i \in 1 .. N : attempts'[i] \in AttemptRecords
  BY DEF AttemptOK, AttemptStarted
<1>3. attempts' \in [1 .. N -> AttemptRecords]
  BY <1>2
<1>4. attempts' \in Seq(AttemptRecords) /\ Len(attempts') = N
  BY <1>1, <1>3, IsASeq, LenProperties
<1>5. \A i \in 1 .. N :
         /\ AttemptOK(attempts'[i])
         /\ shadow' # "open" => attempts'[i].settled
         /\ shadow' = "closed" => attempts'[i].answer # "asked"
  BY <1>1 DEF ShadowInv
<1>6. \A i, k \in 1 .. N :
         attempts'[i].prefix = attempts'[k].prefix /\ ~attempts'[i].logged /\ ~attempts'[k].logged
           => i = k
  BY DEF ShadowInv
<1>7. shadow' \in {"open", "closing", "closed"} /\ previous' \in Seq(Vocabulary)
  BY <1>1
<1>8. ShadowInv'
  BY <1>4, <1>5, <1>6, <1>7 DEF ShadowInv
<1>9. TruthOK
  BY <1>1 DEF TruthOK
<1> QED BY <1>8, <1>9

LEMMA AttemptIsAnswered ==
    ASSUME NEW a, AttemptOK(a), a.answer = "asked"
    PROVE  LET b == EmitIfReady([a EXCEPT !.answer = "answered"])
               c == [a EXCEPT !.answer = "failed", !.settled = TRUE, !.logged = TRUE, !.rows = @ + 1]
           IN \A r \in {b, c} :
                /\ AttemptOK(r) /\ r.prefix = a.prefix /\ r.actual = a.actual
                /\ r.answer # "asked" /\ (a.settled => r.settled) /\ (a.logged => r.logged)
<1>1. a \in AttemptRecords /\ ~a.logged /\ a.rows = 0
  BY DEF AttemptOK, AttemptStarted
<1>2. a.rows + 1 = 1
  BY <1>1
<1> DEFINE x == [a EXCEPT !.answer = "answered"]
           c == [a EXCEPT !.answer = "failed", !.settled = TRUE, !.logged = TRUE, !.rows = 1]
<1>3. /\ AttemptStarted(x) /\ x.prefix = a.prefix /\ x.actual = a.actual /\ x.answer = "answered"
      /\ x.settled = a.settled /\ x.logged = a.logged
  BY <1>1 DEF AttemptStarted, AttemptRecords
<1>4. /\ AttemptOK(c) /\ c.prefix = a.prefix /\ c.actual = a.actual /\ c.answer = "failed"
      /\ c.settled /\ c.logged
  BY <1>1 DEF AttemptOK, AttemptStarted, AttemptRecords
<1>5. [a EXCEPT !.answer = "failed", !.settled = TRUE, !.logged = TRUE, !.rows = @ + 1] = c
  BY <1>1, <1>2
<1> HIDE DEF x, c
<1>6. Advances(x, EmitIfReady(x)) /\ EmitIfReady(x).actual = x.actual
  BY <1>3, AttemptIsEmitted
<1>7. /\ AttemptOK(EmitIfReady(x)) /\ EmitIfReady(x).prefix = a.prefix
      /\ EmitIfReady(x).actual = a.actual /\ EmitIfReady(x).answer = "answered"
      /\ (a.settled => EmitIfReady(x).settled) /\ (a.logged => EmitIfReady(x).logged)
  BY <1>3, <1>6 DEF Advances
<1> QED BY <1>1, <1>4, <1>5, <1>7 DEF x

\* One attempt gets its answer.
LEMMA OneAnswerArrives ==
    ASSUME ShadowInv, NEW i \in DOMAIN attempts, Predicted(i) \/ PredictionFails(i)
    PROVE  ShadowInv' /\ TruthOK
<1> DEFINE N == Len(attempts)
           b == EmitIfReady([attempts[i] EXCEPT !.answer = "answered"])
           c == [attempts[i] EXCEPT !.answer = "failed", !.settled = TRUE, !.logged = TRUE, !.rows = @ + 1]
<1>1. PICK r \in {b, c} : attempts' = [attempts EXCEPT ![i] = r]
  BY DEF Predicted, PredictionFails
<1>2. attempts[i].answer = "asked" /\ previous' = previous /\ shadow' = shadow
  BY DEF Predicted, PredictionFails
<1>3. i \in 1 .. N /\ attempts \in [1 .. N -> AttemptRecords]
      /\ \A k \in 1 .. N : AttemptOK(attempts[k])
  BY AttemptsAre
<1>4. /\ AttemptOK(r) /\ r.prefix = attempts[i].prefix /\ r.actual = attempts[i].actual
      /\ r.answer # "asked" /\ (attempts[i].settled => r.settled)
      /\ (attempts[i].logged => r.logged)
  BY <1>2, <1>3, AttemptIsAnswered
<1> HIDE DEF b, c
<1>5. /\ attempts' = [k \in 1 .. N |-> attempts'[k]]
      /\ \A k \in 1 .. N : attempts'[k] = IF k = i THEN r ELSE attempts[k]
  BY <1>1, <1>3
<1>6. \A k \in 1 .. N :
              /\ AttemptOK(attempts'[k])
              /\ attempts'[k].prefix = attempts[k].prefix /\ attempts'[k].actual = attempts[k].actual
              /\ attempts[k].logged => attempts'[k].logged
              /\ attempts[k].settled => attempts'[k].settled
              /\ attempts'[k].answer = "asked" => attempts[k].answer = "asked"
  BY <1>3, <1>4, <1>5
<1> QED BY <1>2, <1>5, <1>6, AnswersArrive

\* The requests that are left are cancelled.
LEMMA RequestsAreCut == ShadowInv /\ ShadowClosed => ShadowInv' /\ TruthOK
<1> SUFFICES ASSUME ShadowInv, ShadowClosed PROVE ShadowInv' /\ TruthOK
  OBVIOUS
<1> DEFINE N == Len(attempts)
           Cut(a) == IF a.answer = "asked" THEN [a EXCEPT !.answer = "cancelled"] ELSE a
<1>1. /\ shadow = "closing" /\ shadow' = "closed" /\ previous' = previous
      /\ attempts' = [k \in DOMAIN attempts |-> Cut(attempts[k])]
  BY DEF ShadowClosed, EachAttempt
<1>2. /\ DOMAIN attempts = 1 .. N /\ \A k \in 1 .. N : AttemptOK(attempts[k])
  BY AttemptsAre
<1>3. \A a : AttemptOK(a) =>
         /\ AttemptOK(Cut(a)) /\ Cut(a).prefix = a.prefix /\ Cut(a).actual = a.actual
         /\ Cut(a).answer # "asked" /\ Cut(a).logged = a.logged /\ Cut(a).settled = a.settled
  BY DEF AttemptOK, AttemptStarted, AttemptRecords
<1>4. \A k \in 1 .. N : attempts'[k] = Cut(attempts[k])
  BY <1>1, <1>2
<1>5. attempts' = [k \in 1 .. N |-> attempts'[k]]
  BY <1>1, <1>2
<1> HIDE DEF Cut
<1>6. \A k \in 1 .. N :
              /\ AttemptOK(attempts'[k])
              /\ attempts'[k].prefix = attempts[k].prefix /\ attempts'[k].actual = attempts[k].actual
              /\ attempts[k].logged => attempts'[k].logged
              /\ attempts[k].settled => attempts'[k].settled
              /\ attempts'[k].answer = "asked" => attempts[k].answer = "asked"
              /\ attempts'[k].answer # "asked"
  BY <1>2, <1>3, <1>4
<1> QED BY <1>1, <1>5, <1>6, AnswersArrive

LEMMA ShadowStarts == ShadowInit => ShadowInv
<1> SUFFICES ASSUME ShadowInit PROVE ShadowInv
  OBVIOUS
<1>1. previous = <<>> /\ attempts = <<>> /\ shadow = "open"
  BY DEF ShadowInit
<1>2. <<>> \in Seq(Vocabulary) /\ <<>> \in Seq(AttemptRecords) /\ Len(<<>>) = 0
  BY EmptySeq
<1>3. \A i : i \in 1 .. 0 => FALSE
  OBVIOUS
<1> QED BY <1>1, <1>2, <1>3 DEF ShadowInv

LEMMA ShadowGoesOn == ShadowInv /\ [ShadowNext]_shadowVars => ShadowInv' /\ [TruthOK]_shadowVars
<1> SUFFICES ASSUME ShadowInv, [ShadowNext]_shadowVars PROVE ShadowInv' /\ [TruthOK]_shadowVars
  OBVIOUS
<1>1. CASE ObservePartial
  BY <1>1, PartialIsObserved
<1>2. CASE ObserveFinal
  BY <1>2, FinalIsObserved
<1>3. CASE ObserveSpeechStart
  <2>1. ShadowReset /\ shadow = "open" /\ shadow' = "open"
    BY <1>3 DEF ObserveSpeechStart
  <2> QED BY <2>1, ResetSettles
<1>4. CASE ShadowCloses
  <2>1. ShadowReset /\ shadow = "open" /\ shadow' = "closing"
    BY <1>4 DEF ShadowCloses
  <2> QED BY <2>1, ResetSettles
<1>5. CASE ShadowClosed
  BY <1>5, RequestsAreCut
<1>6. CASE \E i \in DOMAIN attempts : Predicted(i) \/ PredictionFails(i)
  BY <1>6, OneAnswerArrives
<1>7. CASE UNCHANGED shadowVars
  BY <1>7 DEF shadowVars, ShadowInv
<1> QED BY <1>1, <1>2, <1>3, <1>4, <1>5, <1>6, <1>7 DEF ShadowNext, Observing, ShadowClosing

\* An attempt the predictor answered has one row when the session is over, whenever the
\* answer came; a failed one has its error row, one that was cut off none; and no prefix is
\* asked for twice at a time.
THEOREM AttemptsAreCounted == ShadowSpec => []OneRowPerAttempt
<1>1. ShadowInv => OneRowPerAttempt
  <2> SUFFICES ASSUME ShadowInv PROVE OneRowPerAttempt
    OBVIOUS
  <2>1. DOMAIN attempts = 1 .. Len(attempts)
    BY AttemptsAre
  <2>2. \A i \in 1 .. Len(attempts) :
          /\ attempts[i].rows <= 1
          /\ shadow = "closed" =>
               (attempts[i].rows = 1 <=> attempts[i].answer \in {"answered", "failed"})
    <3> TAKE i \in 1 .. Len(attempts)
    <3>1. /\ AttemptOK(attempts[i])
          /\ shadow = "closed" => attempts[i].answer # "asked" /\ attempts[i].settled
      BY DEF ShadowInv
    <3> QED BY <3>1 DEF AttemptOK, AttemptStarted
  <2> QED BY <2>1, <2>2 DEF OneRowPerAttempt, ShadowInv
<1>2. ShadowInv /\ [ShadowNext]_shadowVars => ShadowInv'
  BY ShadowGoesOn
<1> QED BY <1>1, <1>2, ShadowStarts, PTL DEF ShadowSpec

\* A word becomes the truth of a prediction only when it follows the prefix in a final, or in
\* two hypotheses in a row.
THEOREM TheTruthIsStable == ShadowSpec => TruthIsStable
<1>1. ShadowInv /\ [ShadowNext]_shadowVars => ShadowInv' /\ [TruthOK]_shadowVars
  BY ShadowGoesOn
<1>2. [TruthOK]_shadowVars
      => [\A i \in DOMAIN attempts : attempts'[i].actual # attempts[i].actual =>
            LET said == Append(attempts[i].prefix, attempts'[i].actual) IN
            /\ IsPrefix(said, observed'.text)
            /\ observed'.final \/ IsPrefix(said, previous)]_shadowVars
  BY DEF TruthOK
<1> QED BY <1>1, <1>2, ShadowStarts, PTL DEF ShadowSpec, TruthIsStable

----------------------------------------------------------------------------
(* No text of the shadow is longer than the hypotheses it hears. *)

Brief(w) == Len(w) <= MaxHypothesis

ShadowBounds ==
    /\ Brief(previous) /\ Len(attempts) <= MaxShadowAttempts
    /\ \A i \in 1 .. Len(attempts) : Brief(attempts[i].prefix)
    /\ observed \in [text : Texts, final : BOOLEAN]

LEMMA BriefIsText == \A w : w \in Texts <=> w \in Seq(Vocabulary) /\ Brief(w)
<1>1. ASSUME NEW w \in Texts PROVE w \in Seq(Vocabulary) /\ Brief(w)
  <2>1. PICK m \in 0 .. MaxHypothesis : w \in [1 .. m -> Vocabulary]
    BY <1>1 DEF Texts, BoundedSeq, SeqOf
  <2>2. m \in Nat /\ m <= MaxHypothesis
    BY ShadowAssumption
  <2>3. w \in Seq(Vocabulary)
    BY <2>1, <2>2, IsASeq
  <2>4. Len(w) = m
    BY <2>1, <2>2, <2>3, LenProperties
  <2> QED BY <2>2, <2>3, <2>4 DEF Brief
<1>2. ASSUME NEW w \in Seq(Vocabulary), Brief(w) PROVE w \in Texts
  <2>1. w \in [1 .. Len(w) -> Vocabulary] /\ Len(w) \in Nat
    BY LenProperties
  <2>2. Len(w) \in 0 .. MaxHypothesis
    BY <1>2, <2>1, ShadowAssumption DEF Brief
  <2> QED BY <2>1, <2>2 DEF Texts, BoundedSeq, SeqOf
<1> QED BY <1>1, <1>2

LEMMA EmptyIsBrief == <<>> \in Texts /\ Brief(<<>>)
<1>1. <<>> \in Seq(Vocabulary) /\ Len(<<>>) = 0
  BY EmptySeq
<1>2. Brief(<<>>)
  BY <1>1, ShadowAssumption DEF Brief
<1> QED BY <1>1, <1>2, BriefIsText

\* A step that leaves each attempt its prefix.
LEMMA PrefixesStay ==
    ASSUME ShadowInv, ShadowBounds, ShadowInv', Brief(previous'),
           observed' \in [text : Texts, final : BOOLEAN], DOMAIN attempts' = DOMAIN attempts,
           \A i \in 1 .. Len(attempts) : attempts'[i].prefix = attempts[i].prefix
    PROVE  ShadowBounds'
<1>1. DOMAIN attempts = 1 .. Len(attempts) /\ Len(attempts) \in Nat
  BY LenProperties DEF ShadowInv
<1>2. DOMAIN attempts' = 1 .. Len(attempts') /\ Len(attempts') \in Nat
  BY LenProperties DEF ShadowInv
<1>3. Len(attempts') = Len(attempts)
  BY <1>1, <1>2
<1> QED BY <1>3 DEF ShadowBounds

\* One more attempt, at a prefix of what was heard.
LEMMA AsksBriefly ==
    ASSUME ShadowInv, ShadowBounds, NEW rs \in Seq(AttemptRecords), Len(rs) = Len(attempts),
           \A i \in 1 .. Len(attempts) : rs[i].prefix = attempts[i].prefix,
           NEW a \in AttemptRecords, Brief(a.prefix), Len(attempts) < MaxShadowAttempts,
           attempts' = Append(rs, a), Brief(previous'), observed' \in [text : Texts, final : BOOLEAN]
    PROVE  ShadowBounds'
<1>1. Len(attempts) \in Nat
  BY LenProperties DEF ShadowInv
<1>2. /\ Len(attempts') = Len(attempts) + 1 /\ attempts'[Len(attempts) + 1] = a
      /\ \A i \in 1 .. Len(attempts) : attempts'[i] = rs[i]
  BY AppendProperties
<1>3. \A i \in 1 .. Len(attempts') : Brief(attempts'[i].prefix)
  <2> TAKE i \in 1 .. Len(attempts')
  <2>1. i \in 1 .. Len(attempts) \/ i = Len(attempts) + 1
    BY <1>1, <1>2
  <2> QED BY <1>2, <2>1 DEF ShadowBounds
<1>4. Len(attempts') <= MaxShadowAttempts
  BY <1>1, <1>2, ShadowAssumption
<1> QED BY <1>3, <1>4 DEF ShadowBounds

LEMMA PartialStaysBrief == ShadowInv /\ ShadowBounds /\ ObservePartial => ShadowBounds'
<1> SUFFICES ASSUME ShadowInv, ShadowBounds, ObservePartial PROVE ShadowBounds'
  OBVIOUS
<1> DEFINE Agreed(text) == LongestCommonPrefix({previous, text})
           Resolved(text) == [i \in DOMAIN attempts |-> Resolve(attempts[i], text, Len(Agreed(text)))]
           Fresh(text) == [prefix |-> Agreed(text), answer |-> "asked", settled |-> FALSE,
                           actual |-> NoWord, logged |-> FALSE, rows |-> 0]
           N == Len(attempts)
<1>1. PICK text \in Texts :
         /\ previous' = text /\ observed' = [text |-> text, final |-> FALSE]
         /\ \/ /\ Len(attempts) < MaxShadowAttempts
               /\ attempts' = Append(Resolved(text), Fresh(text))
            \/ attempts' = Resolved(text)
  BY DEF ObservePartial, EachAttempt
<1>2. ShadowInv'
  BY PartialIsObserved
<1>3. text \in Seq(Vocabulary) /\ previous \in Seq(Vocabulary) /\ Brief(text)
      /\ observed' \in [text : Texts, final : BOOLEAN] /\ Brief(previous')
  BY <1>1, BriefIsText DEF ShadowInv
<1>4. /\ N \in Nat /\ DOMAIN attempts = 1 .. N /\ \A i \in 1 .. N : AttemptOK(attempts[i])
  BY AttemptsAre
<1>5. Agreed(text) \in Seq(Vocabulary) /\ IsPrefix(Agreed(text), text)
  BY <1>3, AgreedPrefix
<1> HIDE DEF Agreed
<1>6. Len(Agreed(text)) \in Nat /\ Len(text) \in Nat /\ Len(Agreed(text)) <= Len(text)
  BY <1>3, <1>5, LenProperties, PrefixByPlace
<1>7. Brief(Agreed(text))
  BY <1>3, <1>6, ShadowAssumption DEF Brief
<1>8. \A i \in 1 .. N : /\ Resolved(text)[i].prefix = attempts[i].prefix
                        /\ Resolved(text)[i] \in AttemptRecords
  <2> TAKE i \in 1 .. N
  <2>1. Advances(attempts[i], Resolve(attempts[i], text, Len(Agreed(text))))
    BY <1>3, <1>4, <1>6, AttemptResolves
  <2> QED BY <1>4, <2>1 DEF Advances, AttemptOK, AttemptStarted
<1>9. Resolved(text) \in Seq(AttemptRecords) /\ Len(Resolved(text)) = N
  <2>1. Resolved(text) \in [1 .. N -> AttemptRecords]
    BY <1>4, <1>8
  <2> HIDE DEF Resolved
  <2> QED BY <1>4, <2>1, IsASeq, LenProperties
<1>10. Fresh(text) \in AttemptRecords /\ Fresh(text).prefix = Agreed(text)
  BY <1>5 DEF AttemptRecords
<1>11. CASE attempts' = Resolved(text)
  <2>1. DOMAIN attempts' = DOMAIN attempts
    BY <1>11
  <2> HIDE DEF Resolved
  <2> QED BY <1>2, <1>3, <1>8, <1>11, <2>1, PrefixesStay
<1>12. CASE Len(attempts) < MaxShadowAttempts /\ attempts' = Append(Resolved(text), Fresh(text))
  <2> HIDE DEF Resolved, Fresh
  <2> QED BY <1>3, <1>7, <1>8, <1>9, <1>10, <1>12, AsksBriefly
<1> QED BY <1>1, <1>11, <1>12

LEMMA FinalStaysBrief == ShadowInv /\ ShadowBounds /\ ObserveFinal => ShadowBounds'
<1> SUFFICES ASSUME ShadowInv, ShadowBounds, ObserveFinal PROVE ShadowBounds'
  OBVIOUS
<1>1. PICK text \in Texts :
         /\ attempts' = [i \in DOMAIN attempts |-> Settle(Resolve(attempts[i], text, Len(text)))]
         /\ observed' = [text |-> text, final |-> TRUE] /\ previous' = <<>>
  BY DEF ObserveFinal, EachAttempt
<1>2. ShadowInv'
  BY FinalIsObserved
<1>3. text \in Seq(Vocabulary) /\ Len(text) \in Nat
      /\ observed' \in [text : Texts, final : BOOLEAN] /\ Brief(previous')
  BY <1>1, BriefIsText, EmptyIsBrief, LenProperties
<1>4. DOMAIN attempts = 1 .. Len(attempts) /\ \A i \in 1 .. Len(attempts) : AttemptOK(attempts[i])
  BY AttemptsAre
<1>5. \A i \in 1 .. Len(attempts) : attempts'[i].prefix = attempts[i].prefix
  <2> TAKE i \in 1 .. Len(attempts)
  <2> DEFINE b == Resolve(attempts[i], text, Len(text))
  <2>1. Advances(attempts[i], b)
    BY <1>3, <1>4, AttemptResolves
  <2>2. attempts'[i] = Settle(b)
    BY <1>1, <1>4
  <2> HIDE DEF b
  <2>3. Advances(b, Settle(b))
    BY <2>1, AttemptSettles DEF Advances
  <2> QED BY <2>1, <2>2, <2>3 DEF Advances
<1>6. DOMAIN attempts' = DOMAIN attempts
  BY <1>1
<1> QED BY <1>2, <1>3, <1>5, <1>6, PrefixesStay

LEMMA ResetStaysBrief ==
    ASSUME ShadowInv, ShadowBounds, ShadowReset, ShadowInv' PROVE ShadowBounds'
<1>1. /\ attempts' = [i \in DOMAIN attempts |-> Settle(attempts[i])]
      /\ observed' = Unheard /\ previous' = <<>>
  BY DEF ShadowReset, EachAttempt
<1>2. observed' \in [text : Texts, final : BOOLEAN] /\ Brief(previous')
  BY <1>1, EmptyIsBrief DEF Unheard
<1>3. DOMAIN attempts = 1 .. Len(attempts) /\ \A i \in 1 .. Len(attempts) : AttemptOK(attempts[i])
  BY AttemptsAre
<1>4. \A i \in 1 .. Len(attempts) : attempts'[i].prefix = attempts[i].prefix
  BY <1>1, <1>3, AttemptSettles DEF Advances
<1>5. DOMAIN attempts' = DOMAIN attempts
  BY <1>1
<1> QED BY <1>2, <1>4, <1>5, PrefixesStay

LEMMA AnswerStaysBrief ==
    ASSUME ShadowInv, ShadowBounds, NEW i \in DOMAIN attempts, Predicted(i) \/ PredictionFails(i)
    PROVE  ShadowBounds'
<1> DEFINE b == EmitIfReady([attempts[i] EXCEPT !.answer = "answered"])
           c == [attempts[i] EXCEPT !.answer = "failed", !.settled = TRUE, !.logged = TRUE, !.rows = @ + 1]
<1>1. PICK r \in {b, c} : attempts' = [attempts EXCEPT ![i] = r]
  BY DEF Predicted, PredictionFails
<1>2. attempts[i].answer = "asked" /\ previous' = previous /\ observed' = observed
  BY DEF Predicted, PredictionFails
<1>3. DOMAIN attempts = 1 .. Len(attempts) /\ \A k \in 1 .. Len(attempts) : AttemptOK(attempts[k])
  BY AttemptsAre
<1>4. r.prefix = attempts[i].prefix
  BY <1>2, <1>3, AttemptIsAnswered
<1> HIDE DEF b, c
<1>5. DOMAIN attempts' = DOMAIN attempts
      /\ \A k \in 1 .. Len(attempts) : attempts'[k] = IF k = i THEN r ELSE attempts[k]
  BY <1>1, <1>3
<1>6. ShadowInv'
  BY OneAnswerArrives
<1> QED BY <1>2, <1>4, <1>5, <1>6, PrefixesStay DEF ShadowBounds

LEMMA CutStaysBrief == ShadowInv /\ ShadowBounds /\ ShadowClosed => ShadowBounds'
<1> SUFFICES ASSUME ShadowInv, ShadowBounds, ShadowClosed PROVE ShadowBounds'
  OBVIOUS
<1> DEFINE Cut(a) == IF a.answer = "asked" THEN [a EXCEPT !.answer = "cancelled"] ELSE a
<1>1. /\ previous' = previous /\ observed' = observed
      /\ attempts' = [k \in DOMAIN attempts |-> Cut(attempts[k])]
  BY DEF ShadowClosed, EachAttempt
<1>2. /\ DOMAIN attempts = 1 .. Len(attempts)
      /\ \A k \in 1 .. Len(attempts) : attempts[k] \in AttemptRecords
  BY AttemptsAre
<1>3. \A a \in AttemptRecords : Cut(a).prefix = a.prefix
  BY DEF AttemptRecords
<1>4. \A k \in 1 .. Len(attempts) : attempts'[k].prefix = attempts[k].prefix
  BY <1>1, <1>2, <1>3
<1>5. DOMAIN attempts' = DOMAIN attempts
  BY <1>1
<1>6. ShadowInv'
  BY RequestsAreCut
<1> QED BY <1>1, <1>4, <1>5, <1>6, PrefixesStay DEF ShadowBounds

LEMMA ShadowStaysBrief ==
    ShadowInv /\ ShadowBounds /\ [ShadowNext]_shadowVars => ShadowInv' /\ ShadowBounds'
<1> SUFFICES ASSUME ShadowInv, ShadowBounds, [ShadowNext]_shadowVars PROVE ShadowInv' /\ ShadowBounds'
  OBVIOUS
<1>1. ShadowInv'
  BY ShadowGoesOn
<1>2. CASE ObservePartial
  BY <1>1, <1>2, PartialStaysBrief
<1>3. CASE ObserveFinal
  BY <1>1, <1>3, FinalStaysBrief
<1>4. CASE ObserveSpeechStart \/ ShadowCloses
  <2>1. ShadowReset
    BY <1>4 DEF ObserveSpeechStart, ShadowCloses
  <2> QED BY <1>1, <2>1, ResetStaysBrief
<1>5. CASE ShadowClosed
  BY <1>1, <1>5, CutStaysBrief
<1>6. CASE \E i \in DOMAIN attempts : Predicted(i) \/ PredictionFails(i)
  BY <1>1, <1>6, AnswerStaysBrief
<1>7. CASE UNCHANGED shadowVars
  BY <1>1, <1>7 DEF shadowVars, ShadowBounds
<1> QED BY <1>2, <1>3, <1>4, <1>5, <1>6, <1>7 DEF ShadowNext, Observing, ShadowClosing

\* The shadow keeps the prefix it asked with, which is never longer than what was heard, and
\* what it takes for the next word is a word of the vocabulary.
THEOREM ShadowTypes == ShadowSpec => []ShadowTypeOK
<1>1. ShadowInit => ShadowBounds
  <2> SUFFICES ASSUME ShadowInit PROVE ShadowBounds
    OBVIOUS
  <2>1. previous = <<>> /\ attempts = <<>> /\ observed = Unheard
    BY DEF ShadowInit
  <2>2. Len(attempts) = 0
    BY <2>1
  <2> QED BY <2>1, <2>2, EmptyIsBrief, ShadowAssumption DEF ShadowBounds, Unheard
<1>2. ShadowInv /\ ShadowBounds => ShadowTypeOK
  <2> SUFFICES ASSUME ShadowInv, ShadowBounds PROVE ShadowTypeOK
    OBVIOUS
  <2>1. previous \in Texts
    BY BriefIsText DEF ShadowInv, ShadowBounds
  <2>2. DOMAIN attempts = 1 .. Len(attempts)
    BY AttemptsAre
  <2>3. \A i \in 1 .. Len(attempts) : attempts[i] \in AttemptRecords /\ attempts[i].prefix \in Texts
    BY AttemptsAre, BriefIsText DEF ShadowBounds
  <2>4. \A i \in DOMAIN attempts :
          attempts[i] \in [prefix : Texts, answer : {"asked", "answered", "failed", "cancelled"},
                           settled : BOOLEAN, actual : Vocabulary \cup {NoWord},
                           logged : BOOLEAN, rows : Nat]
    BY <2>2, <2>3 DEF AttemptRecords
  <2> QED BY <2>1, <2>4 DEF ShadowTypeOK, ShadowInv, ShadowBounds
<1> QED BY <1>1, <1>2, ShadowStarts, ShadowStaysBrief, PTL DEF ShadowSpec

----------------------------------------------------------------------------
\* The shadow of the acoustic windows.

ArmRecords ==
    [status : {"armed", "resolved", "prefix_revised", "no_next_word",
               "predictor_error", "closed", "closed_incomplete", "incomplete"},
     predictor : {"asked", "candidates", "empty", "failed"}, full : BOOLEAN,
     scoring : {"no", "running", "over", "failed", "cut"}, scores : 0 .. Windows, rows : Nat]

\* One arm while the session is on: it has no row before its word is known and its scorer
\* is through.
ArmStarted(a) ==
    /\ a \in ArmRecords /\ a.rows \in {0, 1} /\ a.scoring # "cut"
    /\ a.status \notin {"closed", "closed_incomplete", "incomplete"}
    /\ a.rows = 1 => a.status # "armed" /\ a.scoring # "running"
    /\ a.scoring = "no" => a.scores = 0
    /\ a.scoring = "running" => a.scores < Windows

\* And it has its row once nothing is waited for.
ArmOK(a) ==
    ArmStarted(a) /\ (a.status # "armed" /\ a.scoring \in {"over", "failed"} => a.rows = 1)

\* When the session is over it has one, which says whether its scorer was cut.
ArmClosed(a) ==
    /\ a \in ArmRecords /\ a.rows = 1 /\ a.scoring # "running"
    /\ a.scoring = "cut" => a.status \in {"closed", "closed_incomplete", "incomplete"}

AcousticInv ==
    /\ collector \in {"open", "unpredicted", "closing", "closed"}
    /\ arms \in Seq(ArmRecords) /\ Len(arms) <= MaxArms
    /\ \A i \in 1 .. Len(arms) : IF collector = "closed" THEN ArmClosed(arms[i]) ELSE ArmOK(arms[i])

----------------------------------------------------------------------------
(* One arm. *)

LEMMA ArmIsLogged ==
    ASSUME NEW a, ArmStarted(a) PROVE ArmOK(MaybeLog(a))
<1>1. [a EXCEPT !.rows = 1] \in ArmRecords
  BY DEF ArmStarted, ArmRecords
<1>2. Logged(a) \/ Waits(a) \/ MaybeLog(a) = [a EXCEPT !.rows = 1]
  BY DEF MaybeLog, ArmStarted, Logged
<1>3. CASE Logged(a) \/ Waits(a)
  BY <1>3 DEF MaybeLog, ArmOK, ArmStarted, Logged, Waits
<1>4. CASE ~(Logged(a) \/ Waits(a))
  BY <1>1, <1>2, <1>4 DEF ArmOK, ArmStarted, ArmRecords, Logged, Waits
<1> QED BY <1>3, <1>4

LEMMA ArmStartsScoring ==
    ASSUME NEW a, ArmOK(a) PROVE ArmOK(StartScoring(a))
  BY AcousticAssumption DEF StartScoring, ArmOK, ArmStarted, ArmRecords, Logged

LEMMA ArmHears ==
    ASSUME NEW a, ArmOK(a),
           NEW answer \in {"candidates", "empty"}, NEW status \in {"armed", "resolved", "prefix_revised", "no_next_word"}
    PROVE  /\ ArmOK([a EXCEPT !.predictor = answer])
           /\ ArmOK([a EXCEPT !.full = TRUE])
           /\ ~Logged(a) => ArmStarted([a EXCEPT !.status = status])
<1>1. ArmOK([a EXCEPT !.predictor = answer])
  BY DEF ArmOK, ArmStarted, ArmRecords
<1>2. ArmOK([a EXCEPT !.full = TRUE])
  BY DEF ArmOK, ArmStarted, ArmRecords
<1>3. ~Logged(a) => ArmStarted([a EXCEPT !.status = status])
  BY DEF ArmOK, ArmStarted, ArmRecords, Logged
<1> QED BY <1>1, <1>2, <1>3

\* What the predictor says to an arm that is closed changes no more than that.
LEMMA ArmStaysClosed ==
    ASSUME NEW a, ArmClosed(a), NEW answer \in {"candidates", "empty"}
    PROVE  ArmClosed(StartScoring([a EXCEPT !.predictor = answer])) /\ ArmClosed(Refused(a))
<1>1. \A p \in {"candidates", "empty", "failed"} :
        ArmClosed([a EXCEPT !.predictor = p]) /\ Logged([a EXCEPT !.predictor = p])
  BY DEF ArmClosed, ArmRecords, Logged
<1>2. Logged(a)
  BY DEF ArmClosed, Logged
<1> QED BY <1>1, <1>2 DEF StartScoring, Refused

LEMMA ArmIsRefused ==
    ASSUME NEW a, ArmOK(a) PROVE ArmOK(Refused(a))
<1>1. ArmOK([a EXCEPT !.predictor = "failed"])
  BY DEF ArmOK, ArmStarted, ArmRecords
<1>2. ~Logged(a) => ArmStarted([[a EXCEPT !.predictor = "failed"] EXCEPT !.status = "predictor_error"])
  BY DEF ArmOK, ArmStarted, ArmRecords, Logged
<1> QED BY <1>1, <1>2, ArmIsLogged DEF Refused

LEMMA ArmScores ==
    ASSUME NEW a, ArmOK(a), a.scoring = "running"
    PROVE  LET b == [a EXCEPT !.scores = @ + 1] IN
           /\ ArmOK(IF b.scores = Windows THEN MaybeLog([b EXCEPT !.scoring = "over"]) ELSE b)
           /\ ArmOK(MaybeLog([a EXCEPT !.scoring = "failed"]))
<1> DEFINE b == [a EXCEPT !.scores = @ + 1]
<1>1. a.scores + 1 \in 0 .. Windows /\ a.scores \in Nat /\ (a.scores + 1 # Windows => a.scores + 1 < Windows)
  BY AcousticAssumption DEF ArmOK, ArmStarted, ArmRecords
<1>2. \A n \in 0 .. Windows : n # Windows => n < Windows
  BY AcousticAssumption
<1>3. \A n \in 0 .. Windows :
        LET c == [a EXCEPT !.scores = n] IN
        /\ c.scores = n
        /\ n # Windows => ArmOK(c)
        /\ ArmStarted([c EXCEPT !.scoring = "over"])
  BY <1>2 DEF ArmOK, ArmStarted, ArmRecords
<1>4. ArmStarted([a EXCEPT !.scoring = "failed"])
  BY DEF ArmOK, ArmStarted, ArmRecords
<1> QED BY <1>1, <1>3, <1>4, ArmIsLogged

\* The last step of an arm.
LEMMA ArmCloses ==
    ASSUME NEW a, ArmOK(a)
    PROVE  ArmClosed(LET b == IF a.scoring = "running" THEN [a EXCEPT !.scoring = "cut"] ELSE a
                     IN IF Logged(b) THEN b
                        ELSE [b EXCEPT !.rows = @ + 1,
                                 !.status = CASE @ = "resolved" -> "closed_incomplete"
                                              [] @ = "armed" -> "closed"
                                              [] OTHER -> IF b.scoring = "cut" THEN "incomplete" ELSE @])
<1> DEFINE b == IF a.scoring = "running" THEN [a EXCEPT !.scoring = "cut"] ELSE a
           status == CASE b.status = "resolved" -> "closed_incomplete"
                       [] b.status = "armed" -> "closed"
                       [] OTHER -> IF b.scoring = "cut" THEN "incomplete" ELSE b.status
<1>1. b \in ArmRecords /\ b.rows = a.rows /\ b.scoring # "running" /\ b.status = a.status
      /\ (b.scoring = "cut" => a.scoring = "running")
  BY DEF ArmOK, ArmStarted, ArmRecords
<1>2. status \in {"closed_incomplete", "closed", "incomplete", b.status}
      /\ (b.scoring = "cut" => status \in {"closed", "closed_incomplete", "incomplete"})
  OBVIOUS
<1>3. CASE a.rows = 1
  BY <1>1, <1>3 DEF ArmOK, ArmStarted, ArmClosed, Logged
<1>4. CASE a.rows = 0
  <2>1. b.rows + 1 = 1
    BY <1>1, <1>4
  <2> HIDE DEF b, status
  <2>2. ArmClosed([b EXCEPT !.rows = 1, !.status = status])
    BY <1>1, <1>2 DEF ArmClosed, ArmRecords
  <2>3. ~Logged(b)
    BY <1>1, <1>4 DEF Logged
  <2> QED BY <2>1, <2>2, <2>3 DEF b, status
<1> QED BY <1>3, <1>4 DEF ArmOK, ArmStarted

----------------------------------------------------------------------------
(* The collector. *)

\* Steps that leave every arm as it should be while the session is on.
LEMMA ArmsGoOn ==
    ASSUME AcousticInv, NEW n \in Nat, n <= MaxArms, arms' \in Seq(ArmRecords), Len(arms') = n,
           collector # "closed", collector' \in {"open", "unpredicted", "closing"},
           \A i \in 1 .. n : ArmOK(arms'[i])
    PROVE  AcousticInv'
  BY DEF AcousticInv

LEMMA AcousticKeeps ==
    ASSUME AcousticInv, [AcousticNext]_acousticVars PROVE AcousticInv'
<1> DEFINE N == Len(arms)
<1>1. N \in Nat /\ DOMAIN arms = 1 .. N /\ arms \in [1 .. N -> ArmRecords]
  BY LenProperties DEF AcousticInv
<1>2. ASSUME NEW f, f = [i \in 1 .. N |-> f[i]], \A i \in 1 .. N : f[i] \in ArmRecords
      PROVE  f \in Seq(ArmRecords) /\ Len(f) = N
  <2>1. f \in [1 .. N -> ArmRecords]
    BY <1>2
  <2> QED BY <1>1, <2>1, IsASeq, LenProperties
<1>3. CASE UNCHANGED acousticVars
  BY <1>3 DEF AcousticInv, acousticVars
<1>4. CASE ArmPrediction
  <2>1. NewArm \in ArmRecords /\ ArmOK(NewArm)
    BY AcousticAssumption DEF NewArm, ArmOK, ArmStarted, ArmRecords
  <2>2. arms' \in Seq(ArmRecords) /\ Len(arms') = N + 1 /\ arms'[N + 1] = NewArm
        /\ \A i \in 1 .. N : arms'[i] = arms[i]
    BY <1>4, <2>1, AppendProperties DEF ArmPrediction, AcousticInv
  <2>3. \A i \in 1 .. N + 1 : i = N + 1 \/ i \in 1 .. N
    BY <1>1
  <2>4. N + 1 <= MaxArms /\ N + 1 \in Nat /\ collector = "open" /\ collector' = "open"
    BY <1>1, <1>4, AcousticAssumption DEF ArmPrediction
  <2>5. \A i \in 1 .. N + 1 : ArmOK(arms'[i])
    BY <2>1, <2>2, <2>3, <2>4 DEF AcousticInv
  <2> QED BY <2>2, <2>4, <2>5, ArmsGoOn
<1>5. ASSUME NEW i \in 1 .. N, NEW a, OnArm(i, a), UNCHANGED collector,
             IF collector = "closed" THEN ArmClosed(a) ELSE ArmOK(a)
      PROVE  AcousticInv'
  <2>1. a \in ArmRecords
    BY <1>5 DEF ArmClosed, ArmOK, ArmStarted
  <2>2. arms' = [arms EXCEPT ![i] = a]
    BY <1>5 DEF OnArm
  <2>3. arms' \in Seq(ArmRecords) /\ Len(arms') = N
    <3>1. arms' \in [1 .. N -> ArmRecords]
      BY <1>1, <2>1, <2>2
    <3> QED BY <1>1, <3>1, IsASeq, LenProperties
  <2>4. \A j \in 1 .. N : arms'[j] = IF j = i THEN a ELSE arms[j]
    BY <1>1, <2>2
  <2> QED BY <1>5, <2>3, <2>4 DEF AcousticInv
<1>6. ASSUME collector # "closed", collector' \in {"open", "unpredicted", "closing"},
             arms' = [i \in 1 .. N |-> arms'[i]], \A i \in 1 .. N : ArmOK(arms'[i])
      PROVE  AcousticInv'
  <2>1. \A i \in 1 .. N : arms'[i] \in ArmRecords
    BY <1>6 DEF ArmOK, ArmStarted
  <2>2. arms' \in [1 .. N -> ArmRecords]
    BY <1>6, <2>1
  <2>3. arms' \in Seq(ArmRecords) /\ Len(arms') = N
    BY <1>1, <2>2, IsASeq, LenProperties
  <2> QED BY <1>1, <1>6, <2>3, ArmsGoOn DEF AcousticInv
<1>7. CASE \E i \in DOMAIN arms : PredictorAnswers(i)
  <2>1. PICK i \in 1 .. N : PredictorAnswers(i)
    BY <1>1, <1>7
  <2>2. PICK answer \in {"candidates", "empty"} :
          OnArm(i, StartScoring([arms[i] EXCEPT !.predictor = answer]))
    BY <2>1 DEF PredictorAnswers
  <2>3. CASE collector # "closed"
    BY <1>5, <2>1, <2>2, <2>3, ArmHears, ArmStartsScoring DEF PredictorAnswers, AcousticInv
  <2>4. CASE collector = "closed"
    <3>1. ArmClosed(StartScoring([arms[i] EXCEPT !.predictor = answer]))
      BY <2>4, ArmStaysClosed DEF AcousticInv
    <3> QED BY <1>5, <2>1, <2>2, <2>4, <3>1 DEF PredictorAnswers
  <2> QED BY <2>3, <2>4
<1>8. CASE \E i \in DOMAIN arms : PredictorRefuses(i)
  <2>1. PICK i \in 1 .. N : PredictorRefuses(i)
    BY <1>1, <1>8
  <2>2. OnArm(i, Refused(arms[i])) /\ UNCHANGED collector
    BY <2>1 DEF PredictorRefuses
  <2>3. CASE collector # "closed"
    BY <1>5, <2>2, <2>3, ArmIsRefused DEF AcousticInv
  <2>4. CASE collector = "closed"
    <3>1. ArmClosed(Refused(arms[i]))
      BY <2>4, ArmStaysClosed DEF AcousticInv
    <3> QED BY <1>5, <2>2, <2>4, <3>1
  <2> QED BY <2>3, <2>4
<1>9. CASE Scoring
  <2>1. PICK i \in 1 .. N : WindowScored(i) \/ ScoringFails(i)
    BY <1>1, <1>9 DEF Scoring
  <2>2. arms[i].scoring = "running" /\ collector # "closed" /\ ArmOK(arms[i]) /\ UNCHANGED collector
    BY <2>1 DEF WindowScored, ScoringFails, AcousticInv, ArmClosed
  <2> DEFINE b == [arms[i] EXCEPT !.scores = @ + 1]
             scored == IF b.scores = Windows THEN MaybeLog([b EXCEPT !.scoring = "over"]) ELSE b
             failed == MaybeLog([arms[i] EXCEPT !.scoring = "failed"])
  <2>3. ArmOK(scored) /\ ArmOK(failed)
    BY <2>2, ArmScores
  <2>4. OnArm(i, scored) \/ OnArm(i, failed)
    BY <2>1 DEF WindowScored, ScoringFails
  <2> HIDE DEF scored, failed
  <2> QED BY <1>5, <2>2, <2>3, <2>4
<1>10. CASE FeedPcm
  <2>1. PICK done \in SUBSET {i \in DOMAIN arms : ~Logged(arms[i]) /\ ~arms[i].full} :
          arms' = [i \in DOMAIN arms |->
                     IF i \in done THEN StartScoring([arms[i] EXCEPT !.full = TRUE]) ELSE arms[i]]
    BY <1>10 DEF FeedPcm
  <2>2. collector # "closed" /\ collector' \in {"open", "unpredicted"}
    BY <1>10 DEF FeedPcm, Collects
  <2>3. \A i \in 1 .. N : ArmOK(arms[i])
    BY <2>2 DEF AcousticInv
  <2>4. \A i \in 1 .. N : ArmOK(StartScoring([arms[i] EXCEPT !.full = TRUE]))
    BY <2>3, ArmHears, ArmStartsScoring
  <2> QED BY <1>1, <1>6, <2>1, <2>2, <2>3, <2>4
<1>11. CASE ObserveStt
  <2>1. PICK outcome \in [DOMAIN arms -> {"armed", "resolved", "prefix_revised"}], final \in BOOLEAN :
          arms' = [i \in DOMAIN arms |->
                     IF Logged(arms[i]) \/ arms[i].status # "armed" THEN arms[i]
                     ELSE MaybeLog([arms[i] EXCEPT !.status =
                            IF final /\ outcome[i] = "armed" THEN "no_next_word" ELSE outcome[i]])]
    BY <1>11 DEF ObserveStt
  <2>2. collector # "closed" /\ collector' \in {"open", "unpredicted"}
    BY <1>11 DEF ObserveStt, Collects
  <2>3. \A i \in 1 .. N : ArmOK(arms[i])
    BY <2>2 DEF AcousticInv
  <2>4. \A i \in 1 .. N : ~Logged(arms[i]) =>
          ArmOK(MaybeLog([arms[i] EXCEPT !.status =
                    IF final /\ outcome[i] = "armed" THEN "no_next_word" ELSE outcome[i]]))
    <3> SUFFICES ASSUME NEW i \in 1 .. N, ~Logged(arms[i])
                 PROVE  ArmOK(MaybeLog([arms[i] EXCEPT !.status =
                          IF final /\ outcome[i] = "armed" THEN "no_next_word" ELSE outcome[i]]))
      OBVIOUS
    <3> DEFINE status == IF final /\ outcome[i] = "armed" THEN "no_next_word" ELSE outcome[i]
    <3>1. status \in {"armed", "resolved", "prefix_revised", "no_next_word"}
      BY <1>1, <2>1
    <3> HIDE DEF status
    <3>2. ArmStarted([arms[i] EXCEPT !.status = status])
      BY <2>3, <3>1, ArmHears
    <3> QED BY <3>2, ArmIsLogged DEF status
  <2> QED BY <1>1, <1>6, <2>1, <2>2, <2>3, <2>4
<1>12. CASE PredictorCloses
  <2>1. \A i \in 1 .. N : ArmOK(arms[i])
    BY <1>12 DEF AcousticInv, PredictorCloses
  <2> QED BY <1>1, <1>6, <1>12, <2>1, ArmIsRefused DEF PredictorCloses
<1>13. CASE CollectorCloses
  BY <1>13 DEF CollectorCloses, AcousticInv
<1>14. CASE CollectorClosed
  <2>1. \A i \in 1 .. N : ArmOK(arms[i])
    BY <1>14 DEF AcousticInv, CollectorClosed
  <2>2. \A i \in 1 .. N : ArmClosed(arms'[i])
    BY <1>1, <1>14, <2>1, ArmCloses DEF CollectorClosed
  <2>3. arms' \in [1 .. N -> ArmRecords]
    BY <1>1, <1>14, <2>2 DEF CollectorClosed, ArmClosed
  <2>4. arms' \in Seq(ArmRecords) /\ Len(arms') = N
    BY <1>1, <2>3, IsASeq, LenProperties
  <2> QED BY <1>14, <2>2, <2>4 DEF CollectorClosed, AcousticInv
<1> QED
  BY <1>3, <1>4, <1>7, <1>8, <1>9, <1>10, <1>11, <1>12, <1>13, <1>14 DEF AcousticNext

LEMMA AcousticStarts == AcousticInit => AcousticInv
  BY AcousticAssumption, EmptySeq DEF AcousticInit, AcousticInv

\* However the answers, the audio, the scorer and the close come, an arm has one row, and
\* only when its scorer is through (_maybe_log, AcousticShadowSttSession.aclose).
THEOREM ArmsAreWhole == AcousticSpec => []RowsAreWhole
<1>1. AcousticInv => RowsAreWhole
  <2> SUFFICES ASSUME AcousticInv PROVE RowsAreWhole
    OBVIOUS
  <2>1. DOMAIN arms = 1 .. Len(arms)
    BY LenProperties DEF AcousticInv
  <2> QED BY <2>1 DEF AcousticInv, RowsAreWhole, ArmOK, ArmStarted, ArmClosed, Logged
<1> QED BY <1>1, AcousticStarts, AcousticKeeps, PTL DEF AcousticSpec

\* Both collectors of predictions write the rows of their attempts as they should: one row
\* for each, when it has all it waits for.
THEOREM ShadowsAddUp == ShadowSpec /\ AcousticSpec => []ShadowRowsAddUp
<1>1. OneRowPerAttempt /\ RowsAreWhole <=> ShadowRowsAddUp
  BY DEF ShadowRowsAddUp
<1> QED BY <1>1, AttemptsAreCounted, ArmsAreWhole, PTL

\* An arm has the states of its predictor and of its scorer, at most a score for each window.
THEOREM AcousticTypes == AcousticSpec => []AcousticTypeOK
<1>1. AcousticInv => AcousticTypeOK
  <2> SUFFICES ASSUME AcousticInv PROVE AcousticTypeOK
    OBVIOUS
  <2>1. DOMAIN arms = 1 .. Len(arms)
    BY LenProperties DEF AcousticInv
  <2>2. \A i \in 1 .. Len(arms) : arms[i] \in ArmRecords
    BY DEF AcousticInv, ArmOK, ArmStarted, ArmClosed
  <2>3. AcousticInv
    OBVIOUS
  <2> QED BY <2>1, <2>2, <2>3 DEF AcousticInv, AcousticTypeOK, ArmRecords
<1> QED BY <1>1, AcousticStarts, AcousticKeeps, PTL DEF AcousticSpec

----------------------------------------------------------------------------
\* The log of the evaluation.

\* Each row is in one of these places.
Ledger(R, Q, T, F, M) ==
    /\ Q \subseteq R /\ F \subseteq R /\ M \subseteq R
    /\ \A n \in Logs : T[n] \subseteq R
    /\ \A r \in R : r \in Q \/ r \in F \/ r \in M \/ \E n \in Logs : r \in T[n]
    /\ Q \cap F = {} /\ Q \cap M = {} /\ F \cap M = {}
    /\ \A n \in Logs : T[n] \cap Q = {} /\ T[n] \cap F = {} /\ T[n] \cap M = {}
    /\ \A n, m \in Logs : n # m => T[n] \cap T[m] = {}

AllRows == 1 .. Len(rowOf)
InHands == [n \in Logs |-> Rows(threads[n])]
Filed == {file.lines[i].row : i \in 1 .. Len(file.lines)} \ {VerdictRow}

LedgerOK == Ledger(AllRows, Rows(evqueue), InHands, Filed, missed)

\* And there it is once.
Apart(s) == \A i, k \in 1 .. Len(s) : s[i] = s[k] => i = k

OnceOK ==
    /\ Apart(evqueue) /\ \A n \in Logs : Apart(threads[n])
    /\ \A i, k \in 1 .. Len(file.lines) :
         file.lines[i].row = file.lines[k].row /\ file.lines[i].row # VerdictRow => i = k

\* The writer task and the thread it waits for go together while the log is not closed, the
\* stop is the last the queue gets, and what ended in time has left nothing.
WriterOK ==
    /\ evlog.n = 0 => evlog.state = "closed"
    /\ \A n \in Logs : n > evlog.n => threads[n] = <<>>
    /\ evlog.state = "open" => writer \in {"waiting", "writing"} /\ Stop \notin ToSet(evqueue)
    /\ evlog.state = "closed" => writer = "ended"
    /\ evlog.state # "closed" => (threads[evlog.n] # <<>> <=> writer \in {"writing", "last"})
    /\ writer = "last" \/ (evlog.state = "closing" /\ writer = "ended") => evqueue = <<>>
    /\ \A i \in 1 .. Len(evqueue) : evqueue[i] = Stop => i = Len(evqueue)
    /\ evlog.n # 0 /\ evlog.state = "closed" /\ ~evlog.late =>
         Rows(evqueue) = {} /\ threads[evlog.n] = <<>>

\* What a judge is said to have heard can be read, and its judge heard it.
VerdictOK ==
    verdict.pc \in {"resolved", "accepted"} /\ verdict.row # 0 =>
      /\ verdict.row \in DOMAIN rowOf /\ rowOf[verdict.row] = verdict.by
      /\ \E k \in 1 .. Len(file.lines) : file.lines[k] = [row |-> verdict.row, whole |-> TRUE]

EvalInv == EvalTypeOK /\ LedgerOK /\ OnceOK /\ WriterOK /\ VerdictOK /\ VerdictNamesTheHeard
----------------------------------------------------------------------------
(* The ledger of the rows. *)

\* A new row is queued, dropped, or queued by a log that finds an old queue.
LEMMA LedgerTakes ==
    ASSUME NEW R, NEW Q, NEW T, NEW F, NEW M, Ledger(R, Q, T, F, M), NEW x, x \notin R
    PROVE  /\ Ledger(R \cup {x}, Q \cup {x}, T, F, M)
           /\ Ledger(R \cup {x}, Q, T, F, M \cup {x})
           /\ Ledger(R \cup {x}, {x}, T, F, M \cup Q)
<1>1. Ledger(R \cup {x}, Q \cup {x}, T, F, M)
  BY DEF Ledger
<1>2. Ledger(R \cup {x}, Q, T, F, M \cup {x})
  BY DEF Ledger
<1>3. Ledger(R \cup {x}, {x}, T, F, M \cup Q)
  BY DEF Ledger
<1> QED BY <1>1, <1>2, <1>3

\* The queue goes to a thread that has nothing in hand.
LEMMA LedgerHands ==
    ASSUME NEW R, NEW Q, NEW T, NEW F, NEW M, Ledger(R, Q, T, F, M),
           NEW n \in Logs, T[n] = {},
           NEW U, \A k \in Logs : U[k] = IF k = n THEN Q ELSE T[k]
    PROVE  Ledger(R, {}, U, F, M)
<1>1. U[n] = Q /\ \A k \in Logs : k # n => U[k] = T[k]
  OBVIOUS
<1>2. \A k \in Logs : /\ U[k] \subseteq R /\ U[k] \cap {} = {} /\ U[k] \cap F = {} /\ U[k] \cap M = {}
                      /\ \A m \in Logs : k # m => U[k] \cap U[m] = {}
  BY <1>1 DEF Ledger
<1>3. \A r \in R : r \in {} \/ r \in F \/ r \in M \/ \E k \in Logs : r \in U[k]
  BY <1>1 DEF Ledger
<1> QED BY <1>2, <1>3 DEF Ledger

\* A thread is done: some of its rows are on file, the others are known to be missing.
LEMMA LedgerLands ==
    ASSUME NEW R, NEW Q, NEW T, NEW F, NEW M, Ledger(R, Q, T, F, M),
           NEW n \in Logs, NEW W \in SUBSET T[n],
           NEW U, \A k \in Logs : U[k] = IF k = n THEN {} ELSE T[k]
    PROVE  Ledger(R, Q, U, F \cup W, M \cup (T[n] \ (F \cup W)))
<1>1. U[n] = {} /\ \A k \in Logs : k # n => U[k] = T[k]
  OBVIOUS
<1> DEFINE G == F \cup W
           N == M \cup (T[n] \ G)
<1>2. \A k \in Logs : /\ U[k] \subseteq R /\ U[k] \cap Q = {} /\ U[k] \cap G = {} /\ U[k] \cap N = {}
                      /\ \A m \in Logs : k # m => U[k] \cap U[m] = {}
  BY <1>1 DEF Ledger
<1>3. \A r \in R : r \in Q \/ r \in G \/ r \in N \/ \E k \in Logs : r \in U[k]
  BY <1>1 DEF Ledger
<1>4. /\ Q \subseteq R /\ G \subseteq R /\ N \subseteq R
      /\ Q \cap G = {} /\ Q \cap N = {} /\ G \cap N = {}
  BY DEF Ledger
<1> QED BY <1>2, <1>3, <1>4 DEF Ledger

\* The process dies.
LEMMA LedgerCrashes ==
    ASSUME NEW R, NEW Q, NEW T, NEW F, NEW M, Ledger(R, Q, T, F, M),
           NEW n \in Logs, NEW W \in SUBSET T[n],
           NEW U, \A k \in Logs : U[k] = {},
           NEW L \in SUBSET R, Q \subseteq L, \A k \in Logs : T[k] \subseteq L
    PROVE  Ledger(R, {}, U, F \cup W, M \cup (L \ (F \cup W)))
<1> DEFINE G == F \cup W
           N == M \cup (L \ G)
<1>1. \A k \in Logs : /\ U[k] \subseteq R /\ U[k] \cap {} = {} /\ U[k] \cap G = {} /\ U[k] \cap N = {}
                      /\ \A m \in Logs : k # m => U[k] \cap U[m] = {}
  OBVIOUS
<1>2. \A r \in R : r \in {} \/ r \in G \/ r \in N \/ \E k \in Logs : r \in U[k]
  BY DEF Ledger
<1>3. G \subseteq R /\ N \subseteq R /\ G \cap N = {}
  BY DEF Ledger
<1> QED BY <1>1, <1>2, <1>3 DEF Ledger

----------------------------------------------------------------------------
(* What is appended to the file. *)

LineRecords == [row : EvalRows \cup {VerdictRow}, whole : BOOLEAN]
FileRecords == [exists : BOOLEAN, torn : BOOLEAN, lines : Seq(LineRecords)]

\* The rows that come to be on file are these.
Lands(p) ==
    /\ file' \in FileRecords
    /\ Len(file'.lines) = Len(file.lines) + Len(p)
    /\ \A i \in 1 .. Len(file.lines) : file'.lines[i] = file.lines[i]
    /\ \A i \in 1 .. Len(p) : file'.lines[Len(file.lines) + i].row = p[i]

LEMMA AppendedLines ==
    ASSUME NEW f \in FileRecords, NEW p \in Seq(EvalRows \cup {VerdictRow})
    PROVE  LET g == Appended(f, p).lines IN
           /\ g \in Seq(LineRecords) /\ Len(g) = Len(f.lines) + Len(p)
           /\ \A i \in 1 .. Len(f.lines) : g[i] = f.lines[i]
           /\ \A i \in 1 .. Len(p) :
                g[Len(f.lines) + i].row = p[i]
<1> DEFINE more == [i \in DOMAIN p |-> [row |-> p[i], whole |-> i > 1 \/ ~f.torn]]
<1>1. DOMAIN p = 1 .. Len(p) /\ Len(p) \in Nat /\ f.lines \in Seq(LineRecords)
  BY LenProperties DEF FileRecords
<1>2. \A i \in 1 .. Len(p) : p[i] \in EvalRows \cup {VerdictRow}
  BY ElementOfSeq
<1>3. \A i \in 1 .. Len(p) : more[i] \in LineRecords
  BY <1>1, <1>2 DEF LineRecords
<1>4. more \in [1 .. Len(p) -> LineRecords]
  BY <1>1, <1>3
<1>5. \A i \in 1 .. Len(p) : more[i].row = p[i]
  BY <1>1
<1>6. Appended(f, p).lines = f.lines \o more
  BY DEF Appended
<1> HIDE DEF more
<1>7. more \in Seq(LineRecords) /\ Len(more) = Len(p)
  BY <1>1, <1>4, IsASeq, LenProperties
<1> DEFINE a == f.lines
           b == a \o more
<1>8. a \in Seq(LineRecords) /\ Len(a) \in Nat
  BY <1>1, LenProperties
<1> HIDE DEF a
<1>9. /\ b \in Seq(LineRecords) /\ Len(b) = Len(a) + Len(more)
      /\ \A i \in 1 .. Len(a) + Len(more) : b[i] = IF i <= Len(a) THEN a[i] ELSE more[i - Len(a)]
  BY <1>7, <1>8, ConcatProperties
<1> HIDE DEF b
<1>10. \A i \in 1 .. Len(a) : b[i] = a[i]
  BY <1>1, <1>7, <1>8, <1>9
<1>11. \A i \in 1 .. Len(p) : b[Len(a) + i] = more[i]
  <2> TAKE i \in 1 .. Len(p)
  <2>1. Len(a) + i \in 1 .. Len(a) + Len(more) /\ ~(Len(a) + i <= Len(a)) /\ (Len(a) + i) - Len(a) = i
    BY <1>1, <1>7, <1>8
  <2> QED BY <1>9, <2>1
<1> QED BY <1>5, <1>6, <1>7, <1>9, <1>10, <1>11 DEF a, b

\* A write that is cut short leaves a start of what it was given.
LEMMA WhatLands ==
    ASSUME file \in FileRecords, NEW s \in Seq(EvalRows \cup {VerdictRow}),
           file' \in {Appended(file, s)} \cup CutShort(file, s)
    PROVE  \E p \in Seq(EvalRows \cup {VerdictRow}) :
             /\ Len(p) \in 0 .. Len(s) /\ \A i \in 1 .. Len(p) : p[i] = s[i]
             /\ file' = Appended(file, s) => p = s
             /\ Lands(p)
<1>1. Len(s) \in Nat /\ file.lines \in Seq(LineRecords) /\ file.torn \in BOOLEAN
  BY LenProperties DEF FileRecords
<1> DEFINE Part(p) == [i \in DOMAIN p |-> [row |-> p[i], whole |-> i > 1 \/ ~file.torn]]
           Whole(p, t) == [exists |-> TRUE, torn |-> t, lines |-> file.lines \o Part(p)]
<1>2. ASSUME NEW p \in Seq(EvalRows \cup {VerdictRow}), NEW t \in BOOLEAN, file' = Whole(p, t)
      PROVE  Lands(p)
  <2>1. file'.lines = Appended(file, p).lines
    BY <1>2 DEF Appended
  <2>2. /\ file'.lines \in Seq(LineRecords) /\ Len(file'.lines) = Len(file.lines) + Len(p)
        /\ \A i \in 1 .. Len(file.lines) : file'.lines[i] = file.lines[i]
        /\ \A i \in 1 .. Len(p) :
             file'.lines[Len(file.lines) + i].row = p[i]
    BY <2>1, AppendedLines
  <2>3. file' \in FileRecords
    <3> DEFINE l == file.lines \o Part(p)
    <3>1. file' = [exists |-> TRUE, torn |-> t, lines |-> l] /\ file'.lines = l
      BY <1>2
    <3> HIDE DEF l
    <3>2. l \in Seq(LineRecords)
      BY <2>2, <3>1
    <3> QED BY <3>1, <3>2 DEF FileRecords
  <2> QED BY <2>2, <2>3 DEF Lands
<1>3. \A p : Appended(file, p) = Whole(p, file.torn /\ p = <<>>)
  BY DEF Appended
<1>4. \A p : (file.torn /\ p = <<>>) \in BOOLEAN
  OBVIOUS
<1>5. CASE file' = Appended(file, s)
  <2>1. file' = Whole(s, file.torn /\ s = <<>>)
    BY <1>3, <1>5
  <2> HIDE DEF Whole
  <2>2. Lands(s)
    BY <1>2, <1>4, <2>1
  <2> QED BY <1>1, <2>2
<1>6. CASE file' # Appended(file, s)
  <2>1. PICK n \in 0 .. Len(s) - 1, part \in BOOLEAN :
          file' = [Appended(file, SubSeq(s, 1, n)) EXCEPT !.torn = @ \/ part]
    BY <1>6 DEF CutShort
  <2> DEFINE p == SubSeq(s, 1, n)
  <2>2. /\ p \in Seq(EvalRows \cup {VerdictRow}) /\ Len(p) = n
        /\ \A i \in 1 .. n : p[i] = s[i]
    <3>1. \A i \in 1 .. n : s[i] \in EvalRows \cup {VerdictRow}
      BY <1>1, ElementOfSeq
    <3> QED BY <1>1, <3>1, SubSeqProperties
  <2> HIDE DEF p
  <2>3. file' = [Appended(file, p) EXCEPT !.torn = @ \/ part]
    BY <2>1 DEF p
  <2> DEFINE t == Appended(file, p).torn \/ part
  <2>4. file' = Whole(p, t)
    BY <2>3 DEF Appended
  <2>5. t \in BOOLEAN
    OBVIOUS
  <2> HIDE DEF Whole, t
  <2>6. Lands(p)
    BY <1>2, <2>2, <2>4, <2>5
  <2>7. n \in 0 .. Len(s)
    BY <1>1
  <2> QED BY <1>6, <2>2, <2>6, <2>7
<1> QED BY <1>5, <1>6

----------------------------------------------------------------------------
(* The log. *)

RowsGrow ==
    /\ rowOf' \in Seq(Judges \cup {Nobody}) /\ Len(rowOf) <= Len(rowOf')
    /\ \A r \in 1 .. Len(rowOf) : rowOf'[r] = rowOf[r]

FileGrows ==
    /\ file' \in FileRecords /\ Len(file.lines) <= Len(file'.lines)
    /\ \A i \in 1 .. Len(file.lines) : file'.lines[i] = file.lines[i]

LinesOnce ==
    \A i, k \in 1 .. Len(file.lines) :
      file.lines[i].row = file.lines[k].row /\ file.lines[i].row # VerdictRow => i = k

LEMMA EvalIs ==
    ASSUME EvalInv
    PROVE  /\ rowOf \in Seq(Judges \cup {Nobody}) /\ Len(rowOf) \in Nat /\ Len(rowOf) <= MaxRows
           /\ DOMAIN rowOf = 1 .. Len(rowOf)
           /\ evqueue \in Seq(EvalRows \cup {Stop}) /\ Len(evqueue) \in Nat
           /\ DOMAIN evqueue = 1 .. Len(evqueue)
           /\ \A n \in Logs : threads[n] \in Seq(EvalRows) /\ Len(threads[n]) \in Nat
           /\ file \in FileRecords /\ file.lines \in Seq(LineRecords) /\ Len(file.lines) \in Nat
           /\ DOMAIN file.lines = 1 .. Len(file.lines)
           /\ MaxRows \in Nat /\ MaxLogs \in Nat /\ VerdictRow = MaxRows + 1 /\ Stop = 0
           /\ evlog.n \in Nat /\ evlog.n <= MaxLogs /\ (evlog.n # 0 => evlog.n \in Logs)
<1>1. /\ rowOf \in Seq(Judges \cup {Nobody}) /\ Len(rowOf) <= MaxRows
      /\ evqueue \in Seq(EvalRows \cup {Stop}) /\ threads \in [Logs -> Seq(EvalRows)]
      /\ evlog.n \in 0 .. MaxLogs
  BY DEF EvalInv, EvalTypeOK
<1>2. file \in FileRecords
  BY DEF EvalInv, EvalTypeOK, FileRecords, LineRecords
<1>3. file.lines \in Seq(LineRecords)
  BY <1>2 DEF FileRecords
<1>4. MaxRows \in Nat /\ MaxLogs \in Nat
  BY EvalLogAssumption
<1>5. \A n \in Logs : threads[n] \in Seq(EvalRows) /\ Len(threads[n]) \in Nat
  BY <1>1, LenProperties
<1>6. /\ Len(rowOf) \in Nat /\ DOMAIN rowOf = 1 .. Len(rowOf)
      /\ Len(evqueue) \in Nat /\ DOMAIN evqueue = 1 .. Len(evqueue)
      /\ Len(file.lines) \in Nat /\ DOMAIN file.lines = 1 .. Len(file.lines)
  BY <1>1, <1>3, LenProperties
<1>7. evlog.n \in Nat /\ evlog.n <= MaxLogs /\ (evlog.n # 0 => evlog.n \in Logs)
  BY <1>1, <1>4 DEF Logs
<1>8. VerdictRow = MaxRows + 1 /\ Stop = 0
  BY DEF VerdictRow, Stop
<1> QED BY <1>1, <1>2, <1>3, <1>4, <1>5, <1>6, <1>7, <1>8

LEMMA RowsByPlace ==
    ASSUME NEW S, NEW s \in Seq(S)
    PROVE  Rows(s) = {s[i] : i \in 1 .. Len(s)} \ {Stop} /\ Len(s) \in Nat
<1>1. DOMAIN s = 1 .. Len(s) /\ Len(s) \in Nat
  BY LenProperties
<1> QED BY <1>1 DEF Rows, ToSet

LEMMA RowsAppended ==
    ASSUME NEW S, NEW s \in Seq(S), NEW e \in S
    PROVE  /\ Append(s, e) \in Seq(S) /\ Len(Append(s, e)) = Len(s) + 1
           /\ Rows(Append(s, e)) = Rows(s) \cup ({e} \ {Stop})
           /\ Apart(s) /\ e \notin {s[i] : i \in 1 .. Len(s)} => Apart(Append(s, e))
           /\ \A i \in 1 .. Len(s) : Append(s, e)[i] = s[i]
           /\ Append(s, e)[Len(s) + 1] = e
<1> DEFINE t == Append(s, e)
<1>1. /\ t \in Seq(S) /\ Len(t) = Len(s) + 1 /\ Len(s) \in Nat
      /\ (\A i \in 1 .. Len(s) : t[i] = s[i]) /\ t[Len(s) + 1] = e
  BY AppendProperties, LenProperties
<1> HIDE DEF t
<1>2. \A i \in 1 .. Len(t) : i \in 1 .. Len(s) \/ i = Len(s) + 1
  BY <1>1
<1>3. (\A i \in 1 .. Len(s) : i \in 1 .. Len(t)) /\ Len(s) + 1 \in 1 .. Len(t)
  BY <1>1
<1>4. {t[i] : i \in 1 .. Len(t)} = {s[i] : i \in 1 .. Len(s)} \cup {e}
  BY <1>1, <1>2, <1>3
<1>5. Rows(t) = Rows(s) \cup ({e} \ {Stop})
  <2>1. Rows(t) = {t[i] : i \in 1 .. Len(t)} \ {Stop} /\ Rows(s) = {s[i] : i \in 1 .. Len(s)} \ {Stop}
    BY <1>1, RowsByPlace
  <2> QED BY <1>4, <2>1
<1>6. ASSUME Apart(s), e \notin {s[i] : i \in 1 .. Len(s)} PROVE Apart(t)
  BY <1>1, <1>2, <1>6 DEF Apart
<1> QED BY <1>1, <1>5, <1>6 DEF t

\* What lands is on file, each row once.
LEMMA FiledLands ==
    ASSUME EvalInv, NEW p \in Seq(EvalRows \cup {VerdictRow}), Lands(p), Apart(p),
           \A i \in 1 .. Len(p) : p[i] \notin Filed
    PROVE  /\ Filed' = Filed \cup ({p[i] : i \in 1 .. Len(p)} \ {VerdictRow})
           /\ LinesOnce' /\ FileGrows
<1> DEFINE N == Len(file.lines)
           P == Len(p)
<1>1. N \in Nat /\ P \in Nat
  BY EvalIs, LenProperties
<1>2. /\ file' \in FileRecords /\ Len(file'.lines) = N + P
      /\ \A i \in 1 .. N : file'.lines[i] = file.lines[i]
      /\ \A i \in 1 .. P : file'.lines[N + i].row = p[i]
  BY DEF Lands
<1>3. \A i \in 1 .. N + P : i \in 1 .. N \/ \E j \in 1 .. P : i = N + j
  <2> TAKE i \in 1 .. N + P
  <2>1. CASE i <= N
    BY <1>1, <2>1
  <2>2. CASE ~(i <= N)
    <3>1. i - N \in 1 .. P /\ i = N + (i - N)
      BY <1>1, <2>2
    <3> QED BY <3>1
  <2> QED BY <2>1, <2>2
<1>4. (\A i \in 1 .. N : i \in 1 .. N + P) /\ (\A j \in 1 .. P : N + j \in 1 .. N + P)
  BY <1>1
<1>5. FileGrows
  BY <1>1, <1>2 DEF FileGrows
<1>6. Filed' = {file'.lines[i].row : i \in 1 .. N + P} \ {VerdictRow}
  BY <1>2 DEF Filed, VerdictRow
<1>7. Filed = {file.lines[i].row : i \in 1 .. N} \ {VerdictRow}
  BY DEF Filed
<1> HIDE DEF N, P
<1>8. {file'.lines[i].row : i \in 1 .. N + P}
        = {file.lines[i].row : i \in 1 .. N} \cup {p[i] : i \in 1 .. P}
  BY <1>2, <1>3, <1>4
<1>9. Filed' = Filed \cup ({p[i] : i \in 1 .. P} \ {VerdictRow})
  BY <1>6, <1>7, <1>8
<1>10. \A i, k \in 1 .. N :
         file.lines[i].row = file.lines[k].row /\ file.lines[i].row # VerdictRow => i = k
  BY DEF EvalInv, OnceOK, N
<1>11. \A i, k \in 1 .. P : p[i] = p[k] => i = k
  BY DEF Apart, P
<1>12. \A i \in 1 .. N, k \in 1 .. P : file.lines[i].row # VerdictRow => file.lines[i].row # p[k]
  BY <1>7 DEF P
<1>13. \A i, k \in 1 .. N + P :
         file'.lines[i].row = file'.lines[k].row /\ file'.lines[i].row # VerdictRow => i = k
  <2> SUFFICES ASSUME NEW i \in 1 .. N + P, NEW k \in 1 .. N + P,
                      file'.lines[i].row = file'.lines[k].row, file'.lines[i].row # VerdictRow
               PROVE  i = k
    OBVIOUS
  <2>1. CASE i \in 1 .. N /\ k \in 1 .. N
    BY <1>2, <1>10, <2>1
  <2>2. CASE i \in 1 .. N /\ \E j \in 1 .. P : k = N + j
    BY <1>2, <1>12, <2>2
  <2>3. CASE k \in 1 .. N /\ \E j \in 1 .. P : i = N + j
    BY <1>2, <1>12, <2>3
  <2>4. CASE (\E j \in 1 .. P : i = N + j) /\ (\E j \in 1 .. P : k = N + j)
    BY <1>2, <1>11, <2>4
  <2> QED BY <1>3, <2>1, <2>2, <2>3, <2>4
<1>14. LinesOnce'
  BY <1>2, <1>13 DEF LinesOnce, VerdictRow
<1> QED BY <1>5, <1>9, <1>14 DEF P

\* A verdict is as good as it was when rows and lines are only added.
LEMMA VerdictStands ==
    ASSUME EvalInv, verdict' = verdict \/ verdict'.pc = "none", RowsGrow, FileGrows
    PROVE  VerdictOK' /\ VerdictNamesTheHeard'
<1>1. CASE verdict'.pc = "none"
  BY <1>1 DEF VerdictOK, VerdictNamesTheHeard
<1>2. CASE verdict' = verdict
  <2> DEFINE N == Len(file.lines)
  <2>1. /\ N \in Nat /\ DOMAIN file.lines = 1 .. N /\ DOMAIN rowOf = 1 .. Len(rowOf)
        /\ Len(rowOf) \in Nat
    BY EvalIs
  <2>2. /\ file'.lines \in Seq(LineRecords) /\ N <= Len(file'.lines)
        /\ \A i \in 1 .. N : file'.lines[i] = file.lines[i]
    BY DEF FileGrows, FileRecords
  <2>3. Len(file'.lines) \in Nat /\ DOMAIN file'.lines = 1 .. Len(file'.lines)
    BY <2>2, LenProperties
  <2>4. /\ rowOf' \in Seq(Judges \cup {Nobody}) /\ Len(rowOf) <= Len(rowOf')
        /\ \A r \in 1 .. Len(rowOf) : rowOf'[r] = rowOf[r]
    BY DEF RowsGrow
  <2>5. Len(rowOf') \in Nat /\ DOMAIN rowOf' = 1 .. Len(rowOf')
    BY <2>4, LenProperties
  <2>6. \A i \in 1 .. N : i \in 1 .. Len(file'.lines)
    BY <2>1, <2>2, <2>3
  <2>7. \A r \in 1 .. Len(rowOf) : r \in DOMAIN rowOf'
    BY <2>1, <2>4, <2>5
  <2>8. VerdictOK'
    BY <1>2, <2>1, <2>2, <2>4, <2>6, <2>7 DEF EvalInv, VerdictOK
  <2>9. VerdictNamesTheHeard'
    <3> SUFFICES ASSUME verdict.pc = "accepted"
                 PROVE  \E i \in DOMAIN file'.lines :
                          /\ file'.lines[i].row = VerdictRow
                          /\ verdict.row # 0 =>
                               /\ rowOf'[verdict.row] = verdict.by
                               /\ \E k \in 1 .. i - 1 : file'.lines[k] = [row |-> verdict.row, whole |-> TRUE]
      BY <1>2 DEF VerdictNamesTheHeard, VerdictRow
    <3>1. PICK i \in 1 .. N :
            /\ file.lines[i].row = VerdictRow
            /\ verdict.row # 0 =>
                 /\ rowOf[verdict.row] = verdict.by
                 /\ \E k \in 1 .. i - 1 : file.lines[k] = [row |-> verdict.row, whole |-> TRUE]
      BY <2>1 DEF EvalInv, VerdictNamesTheHeard
    <3>2. \A k \in 1 .. i - 1 : k \in 1 .. N
      BY <2>1
    <3>3. verdict.row # 0 => verdict.row \in 1 .. Len(rowOf)
      BY <2>1 DEF EvalInv, VerdictOK
    <3> QED BY <2>2, <2>3, <2>4, <2>6, <3>1, <3>2, <3>3
  <2> QED BY <2>8, <2>9
<1> QED BY <1>1, <1>2
EvlogRecords ==
    [n : 0 .. MaxLogs, state : {"open", "closing", "closed"}, late : BOOLEAN, crashes : 0 .. MaxCrashes]

LEMMA RowsOfCall ==
    ASSUME EvalInv
    PROVE  /\ \A r \in AllRows : r \in EvalRows /\ r # Stop /\ r # VerdictRow
           /\ Len(rowOf) + 1 \notin AllRows
           /\ (Len(rowOf) < MaxRows => Len(rowOf) + 1 \in EvalRows)
           /\ VerdictRow \notin Filed /\ \A r \in EvalRows : r # VerdictRow /\ r # Stop
           /\ Len(rowOf) + 1 \notin {evqueue[i] : i \in 1 .. Len(evqueue)}
           /\ 1 .. Len(rowOf) + 1 = AllRows \cup {Len(rowOf) + 1}
<1>1. Len(rowOf) \in Nat /\ Len(rowOf) <= MaxRows /\ MaxRows \in Nat /\ VerdictRow = MaxRows + 1 /\ Stop = 0
  BY EvalIs
<1>2. \A r \in AllRows : r \in EvalRows /\ r # Stop /\ r # VerdictRow
  BY <1>1 DEF AllRows, EvalRows
<1>3. Len(rowOf) + 1 \notin AllRows /\ (Len(rowOf) < MaxRows => Len(rowOf) + 1 \in EvalRows)
  BY <1>1 DEF AllRows, EvalRows
<1>4. VerdictRow \notin Filed /\ \A r \in EvalRows : r # VerdictRow /\ r # Stop
  BY <1>1 DEF Filed, EvalRows
<1>5. Rows(evqueue) = {evqueue[i] : i \in 1 .. Len(evqueue)} \ {Stop}
  <2>1. evqueue \in Seq(EvalRows \cup {Stop})
    BY EvalIs
  <2> QED BY <2>1, RowsByPlace
<1>6. Len(rowOf) + 1 \notin {evqueue[i] : i \in 1 .. Len(evqueue)}
  <2>1. Rows(evqueue) \subseteq AllRows
    BY DEF EvalInv, LedgerOK, Ledger
  <2>2. Len(rowOf) + 1 # Stop
    BY <1>1
  <2> QED BY <1>3, <1>5, <2>1, <2>2
<1>7. 1 .. Len(rowOf) + 1 = AllRows \cup {Len(rowOf) + 1}
  BY <1>1 DEF AllRows
<1> QED BY <1>2, <1>3, <1>4, <1>6, <1>7

\* A row more.
LEMMA RowIsAdded ==
    ASSUME EvalInv, Len(rowOf) < MaxRows, NEW by \in Judges \cup {Nobody}, rowOf' = Append(rowOf, by)
    PROVE  /\ RowsGrow /\ Len(rowOf') = Len(rowOf) + 1 /\ Len(rowOf') <= MaxRows
           /\ AllRows' = AllRows \cup {Len(rowOf) + 1}
<1>1. /\ rowOf \in Seq(Judges \cup {Nobody}) /\ Len(rowOf) \in Nat /\ MaxRows \in Nat
  BY EvalIs
<1>2. /\ rowOf' \in Seq(Judges \cup {Nobody}) /\ Len(rowOf') = Len(rowOf) + 1
      /\ \A r \in 1 .. Len(rowOf) : rowOf'[r] = rowOf[r]
  BY <1>1, AppendProperties
<1>3. RowsGrow /\ Len(rowOf') <= MaxRows
  BY <1>1, <1>2 DEF RowsGrow
<1>4. AllRows' = AllRows \cup {Len(rowOf) + 1}
  BY <1>2, RowsOfCall DEF AllRows
<1> QED BY <1>2, <1>3, <1>4

LEMMA NothingAdded ==
    ASSUME EvalInv
    PROVE  /\ rowOf' = rowOf => RowsGrow /\ AllRows' = AllRows
           /\ file' = file => FileGrows /\ Filed' = Filed /\ LinesOnce'
<1>1. /\ rowOf \in Seq(Judges \cup {Nobody}) /\ Len(rowOf) \in Nat
      /\ file \in FileRecords /\ Len(file.lines) \in Nat
  BY EvalIs
<1>2. rowOf' = rowOf => RowsGrow /\ AllRows' = AllRows
  BY <1>1 DEF RowsGrow, AllRows
<1>3. file' = file => FileGrows
  BY <1>1 DEF FileGrows
<1>4. file' = file => Filed' = Filed
  BY DEF Filed, VerdictRow
<1>5. LinesOnce
  BY DEF EvalInv, OnceOK, LinesOnce
<1>6. file' = file => LinesOnce'
  BY <1>5 DEF LinesOnce, VerdictRow
<1> QED BY <1>2, <1>3, <1>4, <1>6

LEMMA OpenKeeps == EvalInv /\ OpenCall => EvalInv'
<1> SUFFICES ASSUME EvalInv, OpenCall PROVE EvalInv'
  OBVIOUS
<1> DEFINE x == Len(rowOf) + 1
<1>1. /\ evlog.state = "closed" /\ evlog.n < MaxLogs /\ Len(rowOf) < MaxRows
      /\ evlog' = [evlog EXCEPT !.n = @ + 1, !.state = "open", !.late = FALSE]
      /\ rowOf' = Append(rowOf, Nobody)
      /\ missed' = missed \cup Rows(evqueue)
      /\ evqueue' = <<Len(rowOf')>> /\ writer' = "waiting"
      /\ UNCHANGED <<threads, file, verdict>>
  BY DEF OpenCall
<1>2. /\ RowsGrow /\ Len(rowOf') = x /\ Len(rowOf') <= MaxRows /\ AllRows' = AllRows \cup {x}
  BY <1>1, RowIsAdded
<1>3. FileGrows /\ Filed' = Filed /\ LinesOnce'
  BY <1>1, NothingAdded
<1>4. VerdictOK' /\ VerdictNamesTheHeard'
  BY <1>1, <1>2, <1>3, VerdictStands
<1>5. x \in EvalRows /\ x \notin AllRows /\ x # Stop
  BY <1>1, RowsOfCall
<1>6. evlog \in EvlogRecords /\ evlog.n \in Nat /\ MaxLogs \in Nat
  BY EvalIs DEF EvalInv, EvalTypeOK, EvlogRecords
<1>7. /\ evlog' \in EvlogRecords /\ evlog'.n = evlog.n + 1 /\ evlog'.state = "open"
  <2>1. evlog.n + 1 \in 0 .. MaxLogs
    BY <1>1, <1>6
  <2>2. \A m \in 0 .. MaxLogs : LET e == [evlog EXCEPT !.n = m, !.state = "open", !.late = FALSE] IN
           e \in EvlogRecords /\ e.n = m /\ e.state = "open"
    BY <1>6 DEF EvlogRecords
  <2> QED BY <1>1, <2>1, <2>2
<1>8. /\ evqueue' = <<x>> /\ <<x>> \in Seq(EvalRows \cup {Stop}) /\ Len(<<x>>) = 1 /\ <<x>>[1] = x
      /\ Rows(<<x>>) = {x} /\ Apart(<<x>>) /\ Stop \notin ToSet(<<x>>)
  <2>1. evqueue' = <<x>>
    BY <1>1, <1>2
  <2> HIDE DEF x
  <2>2. <<x>> \in Seq(EvalRows \cup {Stop}) /\ Len(<<x>>) = 1 /\ <<x>>[1] = x /\ DOMAIN <<x>> = 1 .. 1
    BY <1>5
  <2>3. ToSet(<<x>>) = {x}
    BY <2>2 DEF ToSet
  <2>4. Rows(<<x>>) = {x} /\ Stop \notin ToSet(<<x>>)
    BY <1>5, <2>3 DEF Rows
  <2>5. Apart(<<x>>)
    BY <2>2 DEF Apart
  <2> QED BY <2>1, <2>2, <2>4, <2>5
<1>9. InHands' = InHands
  BY <1>1 DEF InHands, Rows, Stop
<1>10. Rows(evqueue') = {x}
  BY <1>8
<1>11. LedgerOK'
  <2>1. Ledger(AllRows, Rows(evqueue), InHands, Filed, missed)
    BY DEF EvalInv, LedgerOK
  <2>2. Ledger(AllRows \cup {x}, {x}, InHands, Filed, missed \cup Rows(evqueue))
    BY <1>5, <2>1, LedgerTakes
  <2> QED BY <1>1, <1>2, <1>3, <1>9, <1>10, <2>2 DEF LedgerOK
<1>12. OnceOK'
  BY <1>1, <1>3, <1>8 DEF EvalInv, OnceOK, LinesOnce
<1>13. EvalTypeOK'
  <2>1. missed' \subseteq EvalRows
    <3>1. Rows(evqueue) \subseteq AllRows
      BY DEF EvalInv, LedgerOK, Ledger
    <3>2. \A r \in AllRows : r \in EvalRows
      BY RowsOfCall
    <3>3. missed \subseteq EvalRows
      BY DEF EvalInv, EvalTypeOK
    <3> QED BY <1>1, <3>1, <3>2, <3>3
  <2>2. 1 <= QueueSize
    BY EvalLogAssumption
  <2>3. rowOf' \in Seq(Judges \cup {Nobody})
    BY <1>2 DEF RowsGrow
  <2> QED BY <1>1, <1>2, <1>7, <1>8, <2>1, <2>2, <2>3 DEF EvalInv, EvalTypeOK, EvlogRecords
<1>14. WriterOK'
  <2>1. \A n \in Logs : n > evlog.n + 1 => threads[n] = <<>>
    BY <1>6 DEF EvalInv, WriterOK, Logs
  <2>2. threads[evlog.n + 1] = <<>>
    <3>1. evlog.n + 1 \in Logs /\ evlog.n + 1 > evlog.n
      BY <1>1, <1>6 DEF Logs
    <3> QED BY <3>1 DEF EvalInv, WriterOK
  <2>3. \A i \in 1 .. Len(evqueue') : evqueue'[i] # Stop
    BY <1>5, <1>8
  <2>4. evlog'.n # 0
    BY <1>6, <1>7
  <2> QED BY <1>1, <1>7, <1>8, <2>1, <2>2, <2>3, <2>4 DEF WriterOK
<1> QED BY <1>4, <1>11, <1>12, <1>13, <1>14 DEF EvalInv

LEMMA AppendKeeps == EvalInv /\ AppendRow => EvalInv'
<1> SUFFICES ASSUME EvalInv, AppendRow PROVE EvalInv'
  OBVIOUS
<1> DEFINE x == Len(rowOf) + 1
<1>1. PICK by \in Judges \cup {Nobody} : rowOf' = Append(rowOf, by)
  BY DEF AppendRow
<1>2. /\ evlog.state = "open" /\ Len(rowOf) < MaxRows
      /\ UNCHANGED <<evlog, writer, threads, file, verdict>>
  BY DEF AppendRow
<1>3. /\ RowsGrow /\ Len(rowOf') = x /\ Len(rowOf') <= MaxRows /\ AllRows' = AllRows \cup {x}
  BY <1>1, <1>2, RowIsAdded
<1>4. \/ Len(evqueue) < QueueSize /\ evqueue' = Append(evqueue, x) /\ missed' = missed
      \/ missed' = missed \cup {x} /\ evqueue' = evqueue
  BY <1>3 DEF AppendRow
<1>5. FileGrows /\ Filed' = Filed /\ LinesOnce'
  BY <1>2, NothingAdded
<1>6. VerdictOK' /\ VerdictNamesTheHeard'
  BY <1>2, <1>3, <1>5, VerdictStands
<1>7. /\ x \in EvalRows /\ x \notin AllRows /\ x # Stop
      /\ x \notin {evqueue[i] : i \in 1 .. Len(evqueue)}
  BY <1>2, RowsOfCall
<1>8. /\ evqueue \in Seq(EvalRows \cup {Stop}) /\ Len(evqueue) \in Nat /\ QueueSize \in Nat
      /\ DOMAIN evqueue = 1 .. Len(evqueue)
  BY EvalIs, EvalLogAssumption
<1>9. InHands' = InHands
  BY <1>2 DEF InHands, Rows, Stop
<1>10. Ledger(AllRows, Rows(evqueue), InHands, Filed, missed)
  BY DEF EvalInv, LedgerOK
<1>11. rowOf' \in Seq(Judges \cup {Nobody})
  BY <1>3 DEF RowsGrow
<1>12. CASE Len(evqueue) < QueueSize /\ evqueue' = Append(evqueue, x) /\ missed' = missed
  <2>1. /\ Append(evqueue, x) \in Seq(EvalRows \cup {Stop})
        /\ Len(Append(evqueue, x)) = Len(evqueue) + 1
        /\ Rows(Append(evqueue, x)) = Rows(evqueue) \cup ({x} \ {Stop})
        /\ Apart(evqueue) => Apart(Append(evqueue, x))
        /\ \A i \in 1 .. Len(evqueue) : Append(evqueue, x)[i] = evqueue[i]
        /\ Append(evqueue, x)[Len(evqueue) + 1] = x
    BY <1>7, <1>8, RowsAppended
  <2>2. Rows(evqueue') = Rows(evqueue) \cup {x}
    BY <1>7, <1>12, <2>1
  <2>3. LedgerOK'
    <3>1. Ledger(AllRows \cup {x}, Rows(evqueue) \cup {x}, InHands, Filed, missed)
      BY <1>7, <1>10, LedgerTakes
    <3> QED BY <1>3, <1>5, <1>9, <1>12, <2>2, <3>1 DEF LedgerOK
  <2>4. OnceOK'
    BY <1>2, <1>5, <1>12, <2>1 DEF EvalInv, OnceOK, LinesOnce
  <2>5. EvalTypeOK'
    <3>1. Len(evqueue') <= QueueSize
      BY <1>8, <1>12, <2>1
    <3> QED BY <1>2, <1>3, <1>11, <1>12, <2>1, <3>1 DEF EvalInv, EvalTypeOK
  <2>6. WriterOK'
    <3>1. Stop \notin ToSet(evqueue) /\ writer \in {"waiting", "writing"}
      BY <1>2 DEF EvalInv, WriterOK
    <3>2. \A i \in 1 .. Len(evqueue) : evqueue[i] # Stop
      BY <1>8, <3>1 DEF ToSet
    <3>3. Len(evqueue') = Len(evqueue) + 1 /\ DOMAIN evqueue' = 1 .. Len(evqueue) + 1
      BY <1>12, <2>1, LenProperties
    <3>4. \A i \in 1 .. Len(evqueue) + 1 : i \in 1 .. Len(evqueue) \/ i = Len(evqueue) + 1
      BY <1>8
    <3>5. \A i \in 1 .. Len(evqueue') : evqueue'[i] # Stop
      BY <1>7, <1>12, <2>1, <3>2, <3>3, <3>4
    <3>6. Stop \notin ToSet(evqueue')
      BY <3>3, <3>5 DEF ToSet
    <3> QED BY <1>2, <3>1, <3>5, <3>6 DEF EvalInv, WriterOK, Stop
  <2> QED BY <1>6, <2>3, <2>4, <2>5, <2>6 DEF EvalInv
<1>13. CASE missed' = missed \cup {x} /\ evqueue' = evqueue
  <2>1. LedgerOK'
    <3>1. Ledger(AllRows \cup {x}, Rows(evqueue), InHands, Filed, missed \cup {x})
      BY <1>7, <1>10, LedgerTakes
    <3>2. Rows(evqueue') = Rows(evqueue)
      BY <1>13
    <3> QED BY <1>3, <1>5, <1>9, <1>13, <3>1, <3>2 DEF LedgerOK
  <2>2. OnceOK'
    BY <1>2, <1>5, <1>13 DEF EvalInv, OnceOK, LinesOnce
  <2>3. EvalTypeOK'
    BY <1>2, <1>3, <1>7, <1>11, <1>13 DEF EvalInv, EvalTypeOK
  <2>4. WriterOK'
    BY <1>2, <1>13 DEF EvalInv, WriterOK, Stop
  <2> QED BY <1>6, <2>1, <2>2, <2>3, <2>4 DEF EvalInv
<1> QED BY <1>4, <1>12, <1>13
\* What a turn of the writer takes: every row of the queue.
LEMMA BatchIs ==
    ASSUME EvalInv, evqueue # <<>>
    PROVE  LET batch == IF Last(evqueue) = Stop THEN Front(evqueue) ELSE evqueue IN
           /\ batch \in Seq(EvalRows) /\ Rows(batch) = Rows(evqueue) /\ Apart(batch)
           /\ Stop \notin ToSet(evqueue) => batch # <<>> /\ Last(evqueue) # Stop
           /\ batch = <<>> => Last(evqueue) = Stop /\ Rows(evqueue) = {}
<1> DEFINE N == Len(evqueue)
<1>1. /\ evqueue \in Seq(EvalRows \cup {Stop}) /\ N \in Nat /\ DOMAIN evqueue = 1 .. N
  BY EvalIs
<1>2. N # 0 /\ N \in 1 .. N
  <2>1. N # 0
    BY <1>1, EmptySeq, SeqEqual
  <2> QED BY <1>1, <2>1
<1>3. \A i \in 1 .. N : evqueue[i] = Stop => i = N
  BY DEF EvalInv, WriterOK
<1>4. \A i \in 1 .. N : evqueue[i] \in EvalRows \cup {Stop}
  BY <1>1, ElementOfSeq
<1>5. Last(evqueue) = evqueue[N]
  BY DEF Last
<1>6. Rows(evqueue) = {evqueue[i] : i \in 1 .. N} \ {Stop} /\ Apart(evqueue)
  BY <1>1, RowsByPlace DEF EvalInv, OnceOK
<1>0. N = Len(evqueue)
  OBVIOUS
<1> HIDE DEF N
<1>7. ASSUME NEW m \in 0 .. N, \A i \in 1 .. m : evqueue[i] # Stop
      PROVE  LET b == SubSeq(evqueue, 1, m) IN
             /\ b \in Seq(EvalRows) /\ Len(b) = m /\ (\A i \in 1 .. m : b[i] = evqueue[i])
             /\ Rows(b) = {evqueue[i] : i \in 1 .. m} \ {Stop} /\ Apart(b)
  <2> DEFINE b == SubSeq(evqueue, 1, m)
  <2>1. m \in Nat /\ \A i \in 1 .. m : evqueue[i] \in EvalRows
    BY <1>1, <1>4, <1>7
  <2>2. b \in Seq(EvalRows) /\ Len(b) = m /\ \A i \in 1 .. m : b[i] = evqueue[i]
    BY <1>1, <2>1, SubSeqProperties
  <2> HIDE DEF b
  <2>3. Rows(b) = {evqueue[i] : i \in 1 .. m} \ {Stop}
    <3>1. Rows(b) = {b[i] : i \in 1 .. m} \ {Stop}
      BY <2>2, RowsByPlace
    <3> QED BY <2>2, <3>1
  <2>4. Apart(b)
    BY <1>0, <1>1, <1>6, <2>1, <2>2 DEF Apart
  <2> QED BY <2>2, <2>3, <2>4 DEF b
<1>8. CASE evqueue[N] = Stop
  <2>1. N - 1 \in 0 .. N /\ \A i \in 1 .. N - 1 : evqueue[i] # Stop
    BY <1>1, <1>2, <1>3
  <2> DEFINE b == SubSeq(evqueue, 1, N - 1)
  <2>2. /\ b \in Seq(EvalRows) /\ Len(b) = N - 1
        /\ Rows(b) = {evqueue[i] : i \in 1 .. N - 1} \ {Stop} /\ Apart(b)
    BY <1>7, <2>1
  <2> HIDE DEF b
  <2>3. \A i \in 1 .. N : i \in 1 .. N - 1 \/ i = N
    BY <1>1
  <2>4. \A i \in 1 .. N - 1 : i \in 1 .. N
    BY <1>1
  <2>5. Rows(b) = Rows(evqueue)
    BY <1>6, <1>8, <2>2, <2>3, <2>4
  <2>6. Stop \in ToSet(evqueue)
    BY <1>1, <1>2, <1>8 DEF ToSet
  <2>7. b = <<>> => Rows(b) = {}
    <3>1. DOMAIN b = 1 .. N - 1
      BY <2>2, LenProperties
    <3>2. \A i \in 1 .. Len(<<>>) : FALSE
      BY EmptySeq
    <3>3. b = <<>> => 1 .. N - 1 = 1 .. Len(<<>>)
      BY <2>2
    <3> QED BY <2>2, <3>2, <3>3
  <2>8. Front(evqueue) = b
    BY <1>0 DEF Front, b
  <2> QED BY <1>5, <1>8, <2>2, <2>5, <2>6, <2>7, <2>8
<1>9. CASE evqueue[N] # Stop
  <2>1. N \in 0 .. N /\ \A i \in 1 .. N : evqueue[i] # Stop
    BY <1>1, <1>3, <1>9
  <2>2. SubSeq(evqueue, 1, N) = evqueue
    BY <1>0, <1>1, SubSeqFull
  <2>3. evqueue \in Seq(EvalRows)
    BY <1>7, <2>1, <2>2
  <2> QED BY <1>5, <1>6, <1>9, <2>3
<1> QED BY <1>8, <1>9

LEMMA NoRows == /\ <<>> \in Seq(EvalRows) /\ <<>> \in Seq(EvalRows \cup {Stop}) /\ Len(<<>>) = 0
                /\ Rows(<<>>) = {} /\ Apart(<<>>) /\ Stop \notin ToSet(<<>>)
                /\ \A i \in 1 .. Len(<<>>) : FALSE
<1>1. /\ <<>> \in Seq(EvalRows) /\ <<>> \in Seq(EvalRows \cup {Stop}) /\ Len(<<>>) = 0
  BY EmptySeq
<1>2. \A i \in 1 .. Len(<<>>) : FALSE
  BY <1>1
<1>3. DOMAIN <<>> = 1 .. 0
  BY <1>1, LenProperties
<1>4. ToSet(<<>>) = {}
  BY <1>3 DEF ToSet
<1> QED BY <1>1, <1>2, <1>4 DEF Rows, Apart

LEMMA TakingKeeps == EvalInv /\ WriterTakes => EvalInv'
<1> SUFFICES ASSUME EvalInv, WriterTakes PROVE EvalInv'
  OBVIOUS
<1> DEFINE batch == IF Last(evqueue) = Stop THEN Front(evqueue) ELSE evqueue
<1>1. /\ writer = "waiting" /\ evqueue # <<>> /\ evqueue' = <<>>
      /\ threads' = [threads EXCEPT ![evlog.n] = batch]
      /\ writer' = IF batch # <<>> THEN IF Last(evqueue) = Stop THEN "last" ELSE "writing" ELSE "ended"
      /\ UNCHANGED <<rowOf, evlog, file, missed, verdict>>
  BY DEF WriterTakes
<1>2. /\ batch \in Seq(EvalRows) /\ Rows(batch) = Rows(evqueue) /\ Apart(batch)
      /\ Stop \notin ToSet(evqueue) => batch # <<>> /\ Last(evqueue) # Stop
      /\ batch = <<>> => Last(evqueue) = Stop /\ Rows(evqueue) = {}
  BY <1>1, BatchIs
<1> HIDE DEF batch
<1>3. RowsGrow /\ AllRows' = AllRows /\ FileGrows /\ Filed' = Filed /\ LinesOnce'
  BY <1>1, NothingAdded
<1>4. VerdictOK' /\ VerdictNamesTheHeard'
  BY <1>1, <1>3, VerdictStands
<1>5. evlog.n \in Logs /\ evlog.state # "closed" /\ evlog.state \in {"open", "closing"}
      /\ threads[evlog.n] = <<>> /\ threads \in [Logs -> Seq(EvalRows)]
  BY <1>1, EvalIs DEF EvalInv, WriterOK, EvalTypeOK
<1>6. \A k \in Logs : threads'[k] = IF k = evlog.n THEN batch ELSE threads[k]
  BY <1>1, <1>5
<1>7. LedgerOK'
  <2>1. Ledger(AllRows, Rows(evqueue), InHands, Filed, missed)
    BY DEF EvalInv, LedgerOK
  <2>2. InHands[evlog.n] = {}
    BY <1>5, NoRows DEF InHands
  <2>3. \A k \in Logs : InHands'[k] = IF k = evlog.n THEN Rows(evqueue) ELSE InHands[k]
    <3> TAKE k \in Logs
    <3>1. InHands'[k] = Rows(threads'[k]) /\ InHands[k] = Rows(threads[k])
      BY DEF InHands, Rows, Stop
    <3> QED BY <1>2, <1>6, <3>1
  <2> DEFINE U == InHands'
             n == evlog.n
  <2>4. n \in Logs /\ InHands[n] = {} /\ \A k \in Logs : U[k] = IF k = n THEN Rows(evqueue) ELSE InHands[k]
    BY <1>5, <2>2, <2>3
  <2> HIDE DEF U, n
  <2>6. Ledger(AllRows, {}, U, Filed, missed)
    BY <2>1, <2>4, LedgerHands
  <2>5. Rows(evqueue') = {}
    BY <1>1, NoRows
  <2> QED BY <1>1, <1>3, <2>5, <2>6 DEF LedgerOK, U
<1>8. OnceOK'
  BY <1>1, <1>2, <1>3, <1>6, NoRows DEF EvalInv, OnceOK, LinesOnce
<1>9. EvalTypeOK'
  <2>1. threads' \in [Logs -> Seq(EvalRows)]
    BY <1>1, <1>2, <1>5
  <2>2. Len(evqueue') <= QueueSize
    BY <1>1, NoRows, EvalLogAssumption
  <2>3. writer' \in {"waiting", "writing", "last", "ended"}
    BY <1>1
  <2> QED BY <1>1, <2>1, <2>2, <2>3, NoRows DEF EvalInv, EvalTypeOK
<1>10. WriterOK'
  <2>1. evlog.state = "open" => writer' = "writing"
    BY <1>1, <1>2 DEF EvalInv, WriterOK
  <2>2. threads'[evlog.n] # <<>> <=> writer' \in {"writing", "last"}
    BY <1>1, <1>5, <1>6
  <2>3. \A n \in Logs : n > evlog.n => threads'[n] = <<>>
    <3>1. \A n \in Logs : n > evlog.n => n # evlog.n
      BY <1>5, EvalIs DEF Logs
    <3> QED BY <1>6, <3>1 DEF EvalInv, WriterOK
  <2>4. evlog.n # 0
    BY <1>5 DEF Logs
  <2> QED BY <1>1, <1>5, <2>1, <2>2, <2>3, <2>4, NoRows DEF WriterOK
<1> QED BY <1>4, <1>7, <1>8, <1>9, <1>10 DEF EvalInv

\* A thread is done, and what it had is on file or missed.
LEMMA BatchKeeps == ASSUME NEW n \in Logs PROVE EvalInv /\ (BatchWritten(n) \/ BatchFails(n)) => EvalInv'
<1> SUFFICES ASSUME EvalInv, BatchWritten(n) \/ BatchFails(n) PROVE EvalInv'
  OBVIOUS
<1> DEFINE s == threads[n]
<1>1. /\ s # <<>> /\ threads' = [threads EXCEPT ![n] = <<>>]
      /\ writer' = IF n # evlog.n THEN writer
                   ELSE CASE writer = "writing" -> "waiting" [] OTHER -> "ended"
      /\ UNCHANGED <<rowOf, evlog, evqueue, verdict>>
  BY DEF BatchWritten, BatchFails, ThreadDone
<1>2. /\ s \in Seq(EvalRows) /\ threads \in [Logs -> Seq(EvalRows)] /\ file \in FileRecords
      /\ Len(s) \in Nat
  BY EvalIs DEF EvalInv, EvalTypeOK
<1>3. s \in Seq(EvalRows \cup {VerdictRow})
  BY <1>2
<1>4. file' \in {Appended(file, s)} \cup CutShort(file, s)
  BY DEF BatchWritten, BatchFails
<1> HIDE DEF s
<1>5. PICK p \in Seq(EvalRows \cup {VerdictRow}) :
        /\ Len(p) \in 0 .. Len(s) /\ \A i \in 1 .. Len(p) : p[i] = s[i]
        /\ file' = Appended(file, s) => p = s
        /\ Lands(p)
  BY <1>2, <1>3, <1>4, WhatLands
<1> DEFINE W == {p[i] : i \in 1 .. Len(p)}
<1>6. Rows(s) = {s[i] : i \in 1 .. Len(s)} \ {Stop} /\ Apart(s) /\ Rows(s) = InHands[n]
  BY <1>2, RowsByPlace DEF EvalInv, OnceOK, InHands, s
<1>7. \A i \in 1 .. Len(s) : s[i] \in EvalRows /\ s[i] # Stop /\ s[i] # VerdictRow
  BY <1>2, ElementOfSeq, RowsOfCall
<1>8. \A i \in 1 .. Len(p) : i \in 1 .. Len(s)
  BY <1>2, <1>5
<1>9. Apart(p) /\ W \subseteq Rows(s) /\ VerdictRow \notin W
  BY <1>5, <1>6, <1>7, <1>8 DEF Apart
<1>10. Ledger(AllRows, Rows(evqueue), InHands, Filed, missed)
  BY DEF EvalInv, LedgerOK
<1>11. \A i \in 1 .. Len(p) : p[i] \notin Filed
  BY <1>6, <1>9, <1>10 DEF Ledger
<1>12. Filed' = Filed \cup W /\ LinesOnce' /\ FileGrows
  BY <1>5, <1>9, <1>11, FiledLands
<1>13. RowsGrow /\ AllRows' = AllRows
  BY <1>1, NothingAdded
<1>14. VerdictOK' /\ VerdictNamesTheHeard'
  BY <1>1, <1>12, <1>13, VerdictStands
<1>15. \A k \in Logs : threads'[k] = IF k = n THEN <<>> ELSE threads[k]
  BY <1>1, <1>2
<1> HIDE DEF W
<1>16. missed' = missed \cup (InHands[n] \ (Filed \cup W))
  <2>1. CASE BatchWritten(n)
    <3>1. missed' = missed /\ p = s
      BY <1>5, <2>1 DEF BatchWritten, s
    <3>2. W = Rows(s)
      BY <1>6, <1>7, <3>1 DEF W
    <3> QED BY <1>6, <3>1, <3>2
  <2>2. CASE BatchFails(n)
    <3>1. missed' = missed \cup {r \in Rows(s) : \A i \in DOMAIN file'.lines : file'.lines[i].row # r}
      BY <2>2 DEF BatchFails, s
    <3>2. file'.lines \in Seq(LineRecords)
      BY <1>12 DEF FileGrows, FileRecords
    <3>3. DOMAIN file'.lines = 1 .. Len(file'.lines)
      BY <3>2, LenProperties
    <3>4. Filed' = {file'.lines[i].row : i \in 1 .. Len(file'.lines)} \ {VerdictRow}
      BY DEF Filed, VerdictRow
    <3>5. VerdictRow \notin Rows(s)
      BY <1>6, <1>7
    <3>6. {r \in Rows(s) : \A i \in DOMAIN file'.lines : file'.lines[i].row # r} = Rows(s) \ Filed'
      BY <3>3, <3>4, <3>5
    <3> QED BY <1>6, <1>12, <3>1, <3>6
  <2> QED BY <2>1, <2>2
<1>17. LedgerOK'
  <2>1. \A k \in Logs : InHands'[k] = IF k = n THEN {} ELSE InHands[k]
    <3> TAKE k \in Logs
    <3>1. InHands'[k] = Rows(threads'[k]) /\ InHands[k] = Rows(threads[k])
      BY DEF InHands, Rows, Stop
    <3> QED BY <1>15, <3>1, NoRows
  <2>2. W \in SUBSET InHands[n]
    BY <1>6, <1>9
  <2>3. Ledger(AllRows, Rows(evqueue), InHands', Filed \cup W, missed \cup (InHands[n] \ (Filed \cup W)))
    BY <1>10, <2>1, <2>2, LedgerLands
  <2>4. Rows(evqueue') = Rows(evqueue)
    BY <1>1
  <2> QED BY <1>12, <1>13, <1>16, <2>3, <2>4 DEF LedgerOK
<1>18. OnceOK'
  BY <1>1, <1>12, <1>15, NoRows DEF EvalInv, OnceOK, LinesOnce
<1>19. EvalTypeOK'
  <2>1. threads' \in [Logs -> Seq(EvalRows)]
    BY <1>1, <1>2, NoRows
  <2>2. missed' \subseteq EvalRows
    <3>1. InHands[n] \subseteq EvalRows
      BY <1>6, <1>7
    <3> QED BY <1>16, <3>1 DEF EvalInv, EvalTypeOK
  <2>3. writer' \in {"waiting", "writing", "last", "ended"}
    BY <1>1 DEF EvalInv, EvalTypeOK
  <2>4. file' \in FileRecords
    BY <1>12 DEF FileGrows
  <2> QED BY <1>1, <2>1, <2>2, <2>3, <2>4 DEF EvalInv, EvalTypeOK, FileRecords, LineRecords, VerdictRow, EvalRows
<1>20. WriterOK'
  <2>1. \A k \in Logs : k > evlog.n => threads'[k] = <<>>
    BY <1>15 DEF EvalInv, WriterOK
  <2>2. CASE n # evlog.n
    BY <1>1, <1>15, <2>1, <2>2, EvalIs DEF EvalInv, WriterOK, Stop
  <2>3. CASE n = evlog.n
    <3>1. evlog.state # "closed" => writer \in {"writing", "last"}
      BY <1>1, <2>3 DEF EvalInv, WriterOK, s
    <3>2. threads'[evlog.n] = <<>>
      BY <1>15, <2>3
    <3> QED BY <1>1, <2>1, <2>3, <3>1, <3>2 DEF EvalInv, WriterOK, Stop
  <2> QED BY <2>2, <2>3
<1> QED BY <1>14, <1>17, <1>18, <1>19, <1>20 DEF EvalInv
LEMMA ClosingKeeps == EvalInv /\ EvalClosing => EvalInv'
<1> SUFFICES ASSUME EvalInv, EvalClosing PROVE EvalInv'
  OBVIOUS
<1>1. UNCHANGED <<rowOf, threads, file, missed, verdict>>
  BY DEF EvalClosing, CloseBegins, CloseEnds, CloseTimesOut
<1>2. RowsGrow /\ AllRows' = AllRows /\ FileGrows /\ Filed' = Filed /\ LinesOnce' /\ InHands' = InHands
  BY <1>1, NothingAdded DEF InHands, Rows, Stop
<1>3. VerdictOK' /\ VerdictNamesTheHeard'
  BY <1>1, <1>2, VerdictStands
<1>4. /\ evlog \in EvlogRecords /\ evqueue \in Seq(EvalRows \cup {Stop}) /\ Len(evqueue) \in Nat
      /\ DOMAIN evqueue = 1 .. Len(evqueue)
  BY EvalIs DEF EvalInv, EvalTypeOK, EvlogRecords
<1>5. CASE evqueue' = evqueue
  <2>1. Rows(evqueue') = Rows(evqueue)
    BY <1>5
  <2>2. LedgerOK'
    BY <1>1, <1>2, <2>1 DEF EvalInv, LedgerOK
  <2>3. OnceOK'
    BY <1>1, <1>2, <1>5 DEF EvalInv, OnceOK, LinesOnce
  <2>4. CASE evlog.state = "open" /\ evlog' = [evlog EXCEPT !.state = "closing"] /\ writer' = writer
    <3>1. /\ evlog' \in EvlogRecords /\ evlog'.state = "closing"
          /\ evlog'.n = evlog.n /\ evlog'.late = evlog.late
      BY <1>4, <2>4 DEF EvlogRecords
    <3>2. EvalTypeOK'
      BY <1>1, <1>5, <2>4, <3>1 DEF EvalInv, EvalTypeOK, EvlogRecords
    <3>3. WriterOK'
      BY <1>1, <1>5, <2>4, <3>1 DEF EvalInv, WriterOK, Stop
    <3> QED BY <1>3, <2>2, <2>3, <3>2, <3>3 DEF EvalInv
  <2>5. CASE CloseEnds
    <3>1. /\ evlog.state = "closing" /\ writer = "ended" /\ writer' = writer
          /\ evlog' = [evlog EXCEPT !.state = "closed"]
      BY <2>5 DEF CloseEnds
    <3>2. /\ evlog' \in EvlogRecords /\ evlog'.state = "closed"
          /\ evlog'.n = evlog.n /\ evlog'.late = evlog.late
      BY <1>4, <3>1 DEF EvlogRecords
    <3>3. EvalTypeOK'
      BY <1>1, <1>5, <3>1, <3>2 DEF EvalInv, EvalTypeOK, EvlogRecords
    <3>4. evqueue = <<>> /\ threads[evlog.n] = <<>>
      BY <3>1 DEF EvalInv, WriterOK
    <3>5. WriterOK'
      BY <1>1, <1>5, <3>1, <3>2, <3>4, NoRows DEF EvalInv, WriterOK, Stop
    <3> QED BY <1>3, <2>2, <2>3, <3>3, <3>5 DEF EvalInv
  <2>6. CASE CloseTimesOut
    <3>1. /\ evlog.state = "closing" /\ writer # "ended" /\ writer' = "ended"
          /\ writer = "waiting" => evqueue = <<>>
          /\ evlog' = [evlog EXCEPT !.state = "closed", !.late = threads[evlog.n] # <<>>]
      BY <2>6 DEF CloseTimesOut
    <3> DEFINE late == threads[evlog.n] # <<>>
    <3>2. late \in BOOLEAN
      OBVIOUS
    <3> HIDE DEF late
    <3>3. /\ evlog' \in EvlogRecords /\ evlog'.state = "closed"
          /\ evlog'.n = evlog.n /\ evlog'.late = late
      <4>1. evlog' = [evlog EXCEPT !.state = "closed", !.late = late]
        BY <3>1 DEF late
      <4> QED BY <1>4, <3>2, <4>1 DEF EvlogRecords
    <3>4. EvalTypeOK'
      BY <1>1, <1>5, <3>1, <3>3 DEF EvalInv, EvalTypeOK, EvlogRecords
    <3>5. ~late => threads[evlog.n] = <<>> /\ evqueue = <<>>
      BY <3>1 DEF EvalInv, WriterOK, EvalTypeOK, late
    <3>6. WriterOK'
      BY <1>1, <1>5, <3>1, <3>3, <3>5, NoRows DEF EvalInv, WriterOK, Stop
    <3> QED BY <1>3, <2>2, <2>3, <3>4, <3>6 DEF EvalInv
  <2>7. \/ CloseEnds \/ CloseTimesOut
        \/ evlog.state = "open" /\ evlog' = [evlog EXCEPT !.state = "closing"] /\ writer' = writer
    BY DEF EvalClosing, CloseBegins
  <2> QED BY <2>4, <2>5, <2>6, <2>7
<1>6. CASE evqueue' # evqueue
  <2>1. /\ evlog.state = "open" /\ evlog' = [evlog EXCEPT !.state = "closing"] /\ writer' = writer
        /\ Len(evqueue) < QueueSize /\ evqueue' = Append(evqueue, Stop)
    BY <1>6 DEF EvalClosing, CloseBegins, CloseEnds, CloseTimesOut
  <2>2. /\ evlog' \in EvlogRecords /\ evlog'.state = "closing"
        /\ evlog'.n = evlog.n /\ evlog'.late = evlog.late
    BY <1>4, <2>1 DEF EvlogRecords
  <2>3. /\ Stop \notin ToSet(evqueue) /\ writer \in {"waiting", "writing"}
        /\ \A i \in 1 .. Len(evqueue) : evqueue[i] # Stop
    BY <1>4, <2>1 DEF EvalInv, WriterOK, ToSet
  <2> DEFINE q == Append(evqueue, Stop)
  <2>4. /\ q \in Seq(EvalRows \cup {Stop}) /\ Len(q) = Len(evqueue) + 1
        /\ Rows(q) = Rows(evqueue) \cup ({Stop} \ {Stop})
        /\ Apart(evqueue) => Apart(q)
        /\ \A i \in 1 .. Len(evqueue) : q[i] = evqueue[i]
        /\ q[Len(evqueue) + 1] = Stop
    BY <1>4, <2>3, RowsAppended
  <2> HIDE DEF q
  <2>5. evqueue' = q
    BY <2>1 DEF q
  <2>6. Rows(evqueue') = Rows(evqueue)
    BY <2>4, <2>5
  <2>7. LedgerOK'
    BY <1>1, <1>2, <2>6 DEF EvalInv, LedgerOK
  <2>8. OnceOK'
    BY <1>1, <1>2, <2>4, <2>5 DEF EvalInv, OnceOK, LinesOnce
  <2>9. EvalTypeOK'
    <3>1. Len(q) <= QueueSize
      BY <1>4, <2>1, <2>4, EvalLogAssumption
    <3> QED BY <1>1, <2>1, <2>2, <2>4, <2>5, <3>1 DEF EvalInv, EvalTypeOK, EvlogRecords
  <2>10. \A i \in 1 .. Len(q) : q[i] = Stop => i = Len(q)
    <3>1. \A i \in 1 .. Len(evqueue) + 1 : i \in 1 .. Len(evqueue) \/ i = Len(evqueue) + 1
      BY <1>4
    <3> QED BY <2>3, <2>4, <3>1
  <2>11. WriterOK'
    BY <1>1, <2>1, <2>2, <2>3, <2>5, <2>10 DEF EvalInv, WriterOK, Stop
  <2> QED BY <1>3, <2>7, <2>8, <2>9, <2>11 DEF EvalInv
<1> QED BY <1>5, <1>6

LEMMA CrashKeeps == EvalInv /\ Crash => EvalInv'
<1> SUFFICES ASSUME EvalInv, Crash PROVE EvalInv'
  OBVIOUS
<1>1. /\ evlog.crashes < MaxCrashes
      /\ evlog' = [evlog EXCEPT !.state = "closed", !.late = TRUE, !.crashes = @ + 1]
      /\ evqueue' = <<>> /\ writer' = "ended" /\ threads' = [n \in Logs |-> <<>>]
      /\ verdict' = IF verdict.pc \in {"asked", "resolved"} THEN [verdict EXCEPT !.pc = "none"]
                    ELSE verdict
      /\ rowOf' = rowOf
  BY DEF Crash
<1>2. PICK n \in Logs :
         /\ file' \in IF threads[n] = <<>> THEN {file} ELSE CutShort(file, threads[n])
         /\ missed' = missed \cup ((Rows(evqueue) \cup UNION {Rows(threads[k]) : k \in Logs})
                                    \ {file'.lines[i].row : i \in DOMAIN file'.lines})
  BY DEF Crash
<1> DEFINE s == threads[n]
<1>3. /\ s \in Seq(EvalRows) /\ file \in FileRecords /\ Len(s) \in Nat
      /\ evqueue \in Seq(EvalRows \cup {Stop}) /\ evlog \in EvlogRecords
  BY EvalIs DEF EvalInv, EvalTypeOK, EvlogRecords
<1>4. s \in Seq(EvalRows \cup {VerdictRow})
  BY <1>3
<1>5. file' = file \/ file' \in {Appended(file, s)} \cup CutShort(file, s)
  BY <1>2
<1>6. Ledger(AllRows, Rows(evqueue), InHands, Filed, missed)
  BY DEF EvalInv, LedgerOK
<1> HIDE DEF s
<1>7. Rows(s) = {s[i] : i \in 1 .. Len(s)} \ {Stop} /\ Apart(s) /\ Rows(s) = InHands[n]
  BY <1>3, RowsByPlace DEF EvalInv, OnceOK, InHands, s
<1>8. \A i \in 1 .. Len(s) : s[i] \in EvalRows /\ s[i] # Stop /\ s[i] # VerdictRow
  BY <1>3, ElementOfSeq, RowsOfCall
<1>9. PICK W \in SUBSET InHands[n] : Filed' = Filed \cup W /\ LinesOnce' /\ FileGrows
  <2>1. CASE file' = file
    <3>1. Filed' = Filed \cup {} /\ LinesOnce' /\ FileGrows
      BY <2>1, NothingAdded
    <3> QED BY <3>1
  <2>2. CASE file' \in {Appended(file, s)} \cup CutShort(file, s)
    <3>1. PICK p \in Seq(EvalRows \cup {VerdictRow}) :
            /\ Len(p) \in 0 .. Len(s) /\ \A i \in 1 .. Len(p) : p[i] = s[i]
            /\ Lands(p)
      BY <1>3, <1>4, <2>2, WhatLands
    <3> DEFINE W == {p[i] : i \in 1 .. Len(p)}
    <3>2. \A i \in 1 .. Len(p) : i \in 1 .. Len(s)
      BY <1>3, <3>1
    <3>3. Apart(p) /\ W \subseteq Rows(s) /\ VerdictRow \notin W
      BY <1>7, <1>8, <3>1, <3>2 DEF Apart
    <3>4. \A i \in 1 .. Len(p) : p[i] \notin Filed
      <4>1. InHands[n] \cap Filed = {}
        BY <1>6 DEF Ledger
      <4>2. \A i \in 1 .. Len(p) : p[i] \in W
        OBVIOUS
      <4> HIDE DEF W
      <4> QED BY <1>7, <3>3, <4>1, <4>2
    <3>5. Filed' = Filed \cup W /\ LinesOnce' /\ FileGrows
      BY <3>1, <3>3, <3>4, FiledLands
    <3> HIDE DEF W
    <3> QED BY <1>7, <3>3, <3>5
  <2> QED BY <1>5, <2>1, <2>2
<1>10. RowsGrow /\ AllRows' = AllRows
  BY <1>1, NothingAdded
<1>11. verdict \in [pc : {"none", "asked", "resolved", "accepted"},
                    by : Judges \cup {Nobody}, row : 0 .. MaxRows]
  BY DEF EvalInv, EvalTypeOK
<1>12. /\ verdict' = verdict \/ verdict'.pc = "none"
       /\ verdict' \in [pc : {"none", "asked", "resolved", "accepted"},
                        by : Judges \cup {Nobody}, row : 0 .. MaxRows]
  BY <1>1, <1>11
<1>13. VerdictOK' /\ VerdictNamesTheHeard'
  BY <1>9, <1>10, <1>12, VerdictStands
<1> DEFINE Lost == Rows(evqueue) \cup UNION {InHands[k] : k \in Logs}
<1>14. missed' = missed \cup (Lost \ (Filed \cup W))
  <2>1. \A k \in Logs : InHands[k] = Rows(threads[k])
    BY DEF InHands
  <2>2. Lost \subseteq AllRows
    BY <1>6 DEF Ledger
  <2>3. VerdictRow \notin Lost
    BY <2>2, RowsOfCall
  <2>4. UNION {Rows(threads[k]) : k \in Logs} = UNION {InHands[k] : k \in Logs}
    BY <2>1
  <2>5. file'.lines \in Seq(LineRecords)
    BY <1>9 DEF FileGrows, FileRecords
  <2>6. DOMAIN file'.lines = 1 .. Len(file'.lines)
    BY <2>5, LenProperties
  <2>7. Filed' = {file'.lines[i].row : i \in 1 .. Len(file'.lines)} \ {VerdictRow}
    BY DEF Filed, VerdictRow
  <2>8. missed' = missed \cup (Lost \ {file'.lines[i].row : i \in 1 .. Len(file'.lines)})
    BY <1>2, <2>4, <2>6
  <2> HIDE DEF Lost
  <2> QED BY <1>9, <2>3, <2>7, <2>8
<1>15. LedgerOK'
  <2> DEFINE U == InHands'
  <2>1. \A k \in Logs : U[k] = {}
    <3> TAKE k \in Logs
    <3>1. InHands'[k] = Rows(threads'[k]) /\ threads'[k] = <<>>
      BY <1>1 DEF InHands, Rows, Stop
    <3> QED BY <3>1, NoRows
  <2> HIDE DEF U
  <2>2. Ledger(AllRows, {}, U, Filed \cup W, missed \cup (Lost \ (Filed \cup W)))
    <3>1. /\ Lost \in SUBSET AllRows /\ Rows(evqueue) \subseteq Lost
          /\ \A k \in Logs : InHands[k] \subseteq Lost
      BY <1>6 DEF Ledger
    <3> HIDE DEF Lost
    <3> QED BY <1>6, <1>9, <2>1, <3>1, LedgerCrashes
  <2>3. Rows(evqueue') = {}
    BY <1>1, NoRows
  <2> HIDE DEF Lost
  <2> QED BY <1>9, <1>10, <1>14, <2>2, <2>3 DEF LedgerOK, U
<1>16. OnceOK'
  BY <1>1, <1>9, NoRows DEF OnceOK, LinesOnce
<1>17. /\ evlog' \in EvlogRecords /\ evlog'.n = evlog.n /\ evlog'.state = "closed" /\ evlog'.late = TRUE
  <2>1. evlog.crashes + 1 \in 0 .. MaxCrashes
    BY <1>1, <1>3, EvalLogAssumption DEF EvlogRecords
  <2>2. \A m \in 0 .. MaxCrashes : LET e == [evlog EXCEPT !.state = "closed", !.late = TRUE, !.crashes = m] IN
           e \in EvlogRecords /\ e.n = evlog.n /\ e.state = "closed" /\ e.late = TRUE
    BY <1>3 DEF EvlogRecords
  <2> QED BY <1>1, <2>1, <2>2
<1>18. EvalTypeOK'
  <2>1. threads' \in [Logs -> Seq(EvalRows)]
    BY <1>1, NoRows
  <2>2. missed' \subseteq EvalRows
    <3>1. Lost \subseteq AllRows
      BY <1>6 DEF Ledger
    <3> HIDE DEF Lost
    <3>2. Lost \subseteq EvalRows
      BY <3>1, RowsOfCall
    <3> QED BY <1>14, <3>2 DEF EvalInv, EvalTypeOK
  <2>3. Len(evqueue') <= QueueSize
    BY <1>1, NoRows, EvalLogAssumption
  <2>4. file' \in FileRecords
    BY <1>9 DEF FileGrows
  <2> QED BY <1>1, <1>12, <1>17, <2>1, <2>2, <2>3, <2>4, NoRows
          DEF EvalInv, EvalTypeOK, FileRecords, LineRecords, VerdictRow, EvalRows, EvlogRecords
<1>19. WriterOK'
  <2>1. \A k \in Logs : threads'[k] = <<>>
    BY <1>1
  <2> QED BY <1>1, <1>17, <2>1, NoRows DEF WriterOK, Stop
<1> QED BY <1>13, <1>15, <1>16, <1>18, <1>19 DEF EvalInv
\* The request of a judge moves no row.
LEMMA JudgingMoves ==
    ASSUME EvalInv, UNCHANGED <<rowOf, evlog, evqueue, writer, threads, missed>>,
           Filed' = Filed, LinesOnce', FileGrows,
           verdict' \in [pc : {"none", "asked", "resolved", "accepted"},
                         by : Judges \cup {Nobody}, row : 0 .. MaxRows],
           VerdictOK', VerdictNamesTheHeard'
    PROVE  EvalInv'
<1>1. AllRows' = AllRows /\ InHands' = InHands /\ Rows(evqueue') = Rows(evqueue)
  BY DEF AllRows, InHands, Rows, Stop
<1>2. LedgerOK'
  BY <1>1 DEF EvalInv, LedgerOK
<1>3. OnceOK'
  BY DEF EvalInv, OnceOK, LinesOnce
<1>4. WriterOK'
  BY DEF EvalInv, WriterOK, Stop
<1>5. EvalTypeOK'
  BY DEF EvalInv, EvalTypeOK, FileGrows, FileRecords, LineRecords, VerdictRow, EvalRows
<1> QED BY <1>2, <1>3, <1>4, <1>5 DEF EvalInv

LEMMA VerdictLands ==
    ASSUME EvalInv, file' \in {Appended(file, <<VerdictRow>>)} \cup CutShort(file, <<VerdictRow>>)
    PROVE  /\ Filed' = Filed /\ LinesOnce' /\ FileGrows
           /\ file' = Appended(file, <<VerdictRow>>) => Lands(<<VerdictRow>>)
<1> DEFINE s == <<VerdictRow>>
<1>1. s \in Seq(EvalRows \cup {VerdictRow}) /\ Len(s) = 1 /\ s[1] = VerdictRow
  OBVIOUS
<1>2. file \in FileRecords
  BY EvalIs
<1> HIDE DEF s
<1>3. file' \in {Appended(file, s)} \cup CutShort(file, s)
  BY DEF s
<1>4. PICK p \in Seq(EvalRows \cup {VerdictRow}) :
         /\ Len(p) \in 0 .. Len(s) /\ \A i \in 1 .. Len(p) : p[i] = s[i]
         /\ file' = Appended(file, s) => p = s
         /\ Lands(p)
  BY <1>1, <1>2, <1>3, WhatLands
<1>5. \A i \in 1 .. Len(p) : i = 1 /\ p[i] = VerdictRow
  BY <1>1, <1>4
<1>6. Apart(p) /\ \A i \in 1 .. Len(p) : p[i] \notin Filed
  BY <1>5 DEF Apart, Filed
<1>7. Filed' = Filed \cup ({p[i] : i \in 1 .. Len(p)} \ {VerdictRow}) /\ LinesOnce' /\ FileGrows
  BY <1>4, <1>6, FiledLands
<1>8. {p[i] : i \in 1 .. Len(p)} \ {VerdictRow} = {}
  BY <1>5
<1>9. Filed' = Filed
  BY <1>7, <1>8
<1> QED BY <1>4, <1>7, <1>9 DEF s

LEMMA JudgingKeeps == EvalInv /\ Judging => EvalInv'
<1> SUFFICES ASSUME EvalInv, Judging PROVE EvalInv'
  OBVIOUS
<1> DEFINE N == Len(file.lines)
           Verdicts == [pc : {"none", "asked", "resolved", "accepted"},
                        by : Judges \cup {Nobody}, row : 0 .. MaxRows]
<1>1. UNCHANGED <<rowOf, evlog, evqueue, writer, threads, missed>>
  BY DEF Judging, VerdictAsked, VerdictResolved, VerdictAccepted, VerdictFails
<1>2. /\ verdict \in Verdicts /\ N \in Nat /\ DOMAIN file.lines = 1 .. N
      /\ file.lines \in Seq(LineRecords) /\ file \in FileRecords /\ MaxRows \in Nat
      /\ DOMAIN rowOf = 1 .. Len(rowOf) /\ Len(rowOf) \in Nat /\ Len(rowOf) <= MaxRows
  BY EvalIs DEF EvalInv, EvalTypeOK
<1>3. RowsGrow
  BY <1>1, NothingAdded
<1>4. CASE VerdictAsked
  <2>1. PICK by \in Judges : verdict' = [pc |-> "asked", by |-> by, row |-> 0]
    BY <1>4 DEF VerdictAsked
  <2>2. file' = file
    BY <1>4 DEF VerdictAsked
  <2>3. Filed' = Filed /\ LinesOnce' /\ FileGrows
    BY <2>2, NothingAdded
  <2>4. verdict' \in Verdicts /\ VerdictOK' /\ VerdictNamesTheHeard'
    BY <1>2, <2>1 DEF VerdictOK, VerdictNamesTheHeard
  <2> QED BY <1>1, <2>3, <2>4, JudgingMoves
<1>5. CASE VerdictResolved
  <2> DEFINE heardBy == HeardBy(verdict.by)
             row == IF heardBy = {} THEN 0 ELSE file.lines[Max(heardBy)].row
  <2>1. /\ verdict.pc = "asked" /\ verdict' = [verdict EXCEPT !.pc = "resolved", !.row = row]
        /\ file' = file
    BY <1>5 DEF VerdictResolved
  <2>2. Filed' = Filed /\ LinesOnce' /\ FileGrows
    BY <2>1, NothingAdded
  <2>3. row # 0 => /\ row \in DOMAIN rowOf /\ rowOf[row] = verdict.by
                   /\ \E k \in 1 .. N : file.lines[k] = [row |-> row, whole |-> TRUE]
    <3> SUFFICES ASSUME heardBy # {}
                 PROVE  LET r == file.lines[Max(heardBy)].row IN
                        /\ r \in DOMAIN rowOf /\ rowOf[r] = verdict.by
                        /\ \E k \in 1 .. N : file.lines[k] = [row |-> r, whole |-> TRUE]
      OBVIOUS
    <3>1. heardBy \in SUBSET (0 .. N)
      BY <1>2 DEF HeardBy
    <3>2. Max(heardBy) \in heardBy
      <4> HIDE DEF heardBy, N
      <4> QED BY <1>2, <3>1, Greatest
    <3> DEFINE k == Max(heardBy)
    <3> HIDE DEF k
    <3>3. /\ k \in 1 .. N /\ file.lines[k].whole /\ file.lines[k].row \in DOMAIN rowOf
          /\ rowOf[file.lines[k].row] = verdict.by
      BY <1>2, <3>2 DEF HeardBy, k
    <3>4. file.lines[k] \in LineRecords
      BY <1>2, <3>3, ElementOfSeq
    <3>5. file.lines[k] = [row |-> file.lines[k].row, whole |-> TRUE]
      BY <3>3, <3>4 DEF LineRecords
    <3> QED BY <3>3, <3>5 DEF k
  <2>4. row \in 0 .. MaxRows
    BY <1>2, <2>3
  <2> HIDE DEF row
  <2>5. verdict' \in Verdicts /\ verdict'.pc = "resolved" /\ verdict'.row = row /\ verdict'.by = verdict.by
    BY <1>2, <2>1, <2>4
  <2>6. VerdictOK' /\ VerdictNamesTheHeard'
    BY <1>1, <2>1, <2>3, <2>5 DEF VerdictOK, VerdictNamesTheHeard
  <2> QED BY <1>1, <2>2, <2>5, <2>6, JudgingMoves
<1>6. CASE VerdictAccepted
  <2>1. /\ verdict.pc = "resolved" /\ verdict' = [verdict EXCEPT !.pc = "accepted"]
        /\ file' = Appended(file, <<VerdictRow>>)
    BY <1>6 DEF VerdictAccepted
  <2>2. Filed' = Filed /\ LinesOnce' /\ FileGrows /\ Lands(<<VerdictRow>>)
    BY <2>1, VerdictLands
  <2>3. verdict' \in Verdicts /\ verdict'.pc = "accepted" /\ verdict'.row = verdict.row /\ verdict'.by = verdict.by
    BY <1>2, <2>1
  <2>4. verdict.row # 0 =>
          /\ verdict.row \in DOMAIN rowOf /\ rowOf[verdict.row] = verdict.by
          /\ \E k \in 1 .. N : file.lines[k] = [row |-> verdict.row, whole |-> TRUE]
    BY <2>1 DEF EvalInv, VerdictOK
  <2>5. /\ Len(file'.lines) = N + 1 /\ \A i \in 1 .. N : file'.lines[i] = file.lines[i]
        /\ file'.lines[N + 1].row = VerdictRow /\ file'.lines \in Seq(LineRecords)
    BY <2>2 DEF Lands, FileRecords
  <2>6. DOMAIN file'.lines = 1 .. N + 1
    BY <2>5, LenProperties
  <2>7. N + 1 \in 1 .. N + 1 /\ (N + 1) - 1 = N /\ \A k \in 1 .. N : k \in 1 .. N + 1
    BY <1>2
  <2>8. VerdictOK'
    BY <1>1, <2>3, <2>4, <2>5, <2>7 DEF VerdictOK
  <2>9. VerdictNamesTheHeard'
    <3>1. N + 1 \in DOMAIN file'.lines /\ file'.lines[N + 1].row = VerdictRow
      BY <2>5, <2>6, <2>7
    <3>2. ASSUME verdict'.row # 0
          PROVE  /\ rowOf'[verdict'.row] = verdict'.by
                 /\ \E k \in 1 .. (N + 1) - 1 :
                      file'.lines[k] = [row |-> verdict'.row, whole |-> TRUE]
      <4>1. verdict.row # 0
        BY <2>3, <3>2
      <4>2. PICK k \in 1 .. N : file.lines[k] = [row |-> verdict.row, whole |-> TRUE]
        BY <2>4, <4>1
      <4>3. file'.lines[k] = [row |-> verdict'.row, whole |-> TRUE]
        BY <2>3, <2>5, <4>2
      <4>4. k \in 1 .. (N + 1) - 1
        BY <2>7, <4>2
      <4>5. rowOf'[verdict'.row] = verdict'.by
        BY <1>1, <2>3, <2>4, <4>1
      <4> QED BY <4>3, <4>4, <4>5
    <3> QED BY <3>1, <3>2 DEF VerdictNamesTheHeard, VerdictRow
  <2> QED BY <1>1, <2>2, <2>3, <2>8, <2>9, JudgingMoves
<1>7. CASE VerdictFails
  <2>1. verdict' = NoVerdict /\ file' \in CutShort(file, <<VerdictRow>>)
    BY <1>7 DEF VerdictFails
  <2>2. Filed' = Filed /\ LinesOnce' /\ FileGrows
    BY <2>1, VerdictLands
  <2>3. verdict' \in Verdicts /\ verdict'.pc = "none"
    BY <1>2, <2>1 DEF NoVerdict
  <2>4. VerdictOK' /\ VerdictNamesTheHeard'
    BY <2>3 DEF VerdictOK, VerdictNamesTheHeard
  <2> QED BY <1>1, <2>2, <2>3, <2>4, JudgingMoves
<1> QED BY <1>4, <1>5, <1>6, <1>7 DEF Judging

LEMMA EvalStarts == EvalInit => EvalInv
<1> SUFFICES ASSUME EvalInit PROVE EvalInv
  OBVIOUS
<1>1. /\ rowOf = <<>> /\ evlog = [n |-> 0, state |-> "closed", late |-> FALSE, crashes |-> 0]
      /\ evqueue = <<>> /\ writer = "ended" /\ threads = [n \in Logs |-> <<>>]
      /\ file = [exists |-> FALSE, lines |-> <<>>, torn |-> FALSE]
      /\ missed = {} /\ verdict = NoVerdict
  BY DEF EvalInit
<1>2. /\ <<>> \in Seq(Judges \cup {Nobody}) /\ <<>> \in Seq(LineRecords)
      /\ file.lines = <<>> /\ Len(<<>>) = 0
  BY <1>1, EmptySeq
<1>3. EvalTypeOK
  <2>1. 0 \in 0 .. MaxLogs /\ 0 \in 0 .. MaxCrashes /\ 0 <= MaxRows /\ 0 <= QueueSize /\ 0 \in 0 .. MaxRows
    BY EvalLogAssumption
  <2>2. threads \in [Logs -> Seq(EvalRows)]
    BY <1>1, NoRows
  <2>3. file \in FileRecords
    BY <1>1, <1>2 DEF FileRecords
  <2>4. verdict \in [pc : {"none", "asked", "resolved", "accepted"},
                     by : Judges \cup {Nobody}, row : 0 .. MaxRows]
    BY <1>1, <2>1 DEF NoVerdict
  <2>5. evlog \in EvlogRecords
    BY <1>1, <2>1 DEF EvlogRecords
  <2> QED BY <1>1, <1>2, <2>1, <2>2, <2>3, <2>4, <2>5, NoRows
          DEF EvalTypeOK, FileRecords, LineRecords, EvlogRecords
<1>4. LedgerOK
  <2>1. AllRows = {} /\ Rows(evqueue) = {} /\ Filed = {} /\ missed = {}
    BY <1>1, <1>2, NoRows DEF AllRows, Filed
  <2>2. \A n \in Logs : InHands[n] = {}
    BY <1>1, NoRows DEF InHands
  <2> QED BY <2>1, <2>2 DEF LedgerOK, Ledger
<1>5. OnceOK
  BY <1>1, <1>2, NoRows DEF OnceOK
<1>6. WriterOK
  BY <1>1, NoRows DEF WriterOK
<1>7. VerdictOK /\ VerdictNamesTheHeard
  BY <1>1 DEF VerdictOK, VerdictNamesTheHeard, NoVerdict
<1> QED BY <1>3, <1>4, <1>5, <1>6, <1>7 DEF EvalInv

LEMMA EvalKeeps == EvalInv /\ [EvalNext]_evalVars => EvalInv'
<1> SUFFICES ASSUME EvalInv, [EvalNext]_evalVars PROVE EvalInv'
  OBVIOUS
<1>1. CASE OpenCall
  BY <1>1, OpenKeeps
<1>2. CASE AppendRow
  BY <1>2, AppendKeeps
<1>3. CASE WriterTakes
  BY <1>3, TakingKeeps
<1>4. CASE \E n \in Logs : BatchWritten(n) \/ BatchFails(n)
  BY <1>4, BatchKeeps
<1>5. CASE EvalClosing
  BY <1>5, ClosingKeeps
<1>6. CASE Crash
  BY <1>6, CrashKeeps
<1>7. CASE Judging
  BY <1>7, JudgingKeeps
<1>8. CASE UNCHANGED evalVars
  <2>1. /\ UNCHANGED <<rowOf, evlog, evqueue, writer, threads, missed>>
        /\ file' = file /\ verdict' = verdict
    BY <1>8 DEF evalVars
  <2>2. Filed' = Filed /\ LinesOnce' /\ FileGrows /\ RowsGrow
    BY <2>1, NothingAdded
  <2>3. VerdictOK' /\ VerdictNamesTheHeard'
    BY <2>1, <2>2, VerdictStands
  <2>4. verdict' \in [pc : {"none", "asked", "resolved", "accepted"},
                      by : Judges \cup {Nobody}, row : 0 .. MaxRows]
    BY <2>1 DEF EvalInv, EvalTypeOK
  <2> QED BY <2>1, <2>2, <2>3, <2>4, JudgingMoves
<1> QED BY <1>1, <1>2, <1>3, <1>4, <1>5, <1>6, <1>7, <1>8 DEF EvalNext, Logging

----------------------------------------------------------------------------
(* What the file says. *)

\* A set of places where there can be no two.
LEMMA OnePlace ==
    ASSUME NEW S, \A i, k \in S : i = k
    PROVE  Cardinality(S) = IF S = {} THEN 0 ELSE 1
<1>1. CASE S = {}
  BY <1>1, FS_EmptySet
<1>2. CASE S # {}
  <2>1. PICK i \in S : TRUE
    BY <1>2
  <2>2. S = {i}
    BY <2>1
  <2>3. Cardinality({i}) = 1
    BY FS_Singleton
  <2> QED BY <1>2, <2>2, <2>3
<1> QED BY <1>1, <1>2

\* Each row is in one place: queued, in the hands of a thread, on file once, or missed; and a
\* log that was closed in time has left nothing behind.
THEOREM EveryRowIsAccountedFor == EvalSpec => []NoRowVanishes
<1>1. EvalInv => NoRowVanishes
  <2> SUFFICES ASSUME EvalInv PROVE NoRowVanishes
    OBVIOUS
  <2>1. Ledger(AllRows, Rows(evqueue), InHands, Filed, missed) /\ OnceOK
    BY DEF EvalInv, LedgerOK
  <2>2. /\ DOMAIN evqueue = 1 .. Len(evqueue) /\ DOMAIN file.lines = 1 .. Len(file.lines)
        /\ DOMAIN rowOf = AllRows
    BY EvalIs DEF AllRows
  <2>3. ASSUME NEW r \in DOMAIN rowOf
        PROVE  Cardinality({i \in DOMAIN evqueue : evqueue[i] = r})
               + Cardinality({n \in Logs : r \in Rows(threads[n])})
               + Cardinality({i \in DOMAIN file.lines : file.lines[i].row = r})
               + (IF r \in missed THEN 1 ELSE 0) = 1
    <3> DEFINE Q == {i \in DOMAIN evqueue : evqueue[i] = r}
               T == {n \in Logs : r \in Rows(threads[n])}
               F == {i \in DOMAIN file.lines : file.lines[i].row = r}
    <3>1. r \in AllRows /\ r # Stop /\ r # VerdictRow
      BY <2>2, RowsOfCall
    <3>2. \A i, k \in Q : i = k
      BY <2>1, <2>2 DEF OnceOK, Apart
    <3>3. \A i, k \in T : i = k
      BY <2>1 DEF Ledger, InHands
    <3>4. \A i, k \in F : i = k
      BY <2>1, <2>2, <3>1 DEF OnceOK
    <3>5. Q # {} <=> r \in Rows(evqueue)
      <4>1. evqueue \in Seq(EvalRows \cup {Stop})
        BY EvalIs
      <4>2. Rows(evqueue) = {evqueue[i] : i \in 1 .. Len(evqueue)} \ {Stop}
        BY <4>1, RowsByPlace
      <4> QED BY <2>2, <3>1, <4>2
    <3>6. T # {} <=> \E n \in Logs : r \in InHands[n]
      BY DEF InHands
    <3>7. F # {} <=> r \in Filed
      BY <2>2, <3>1 DEF Filed
    <3>8. /\ r \in Rows(evqueue) \/ r \in Filed \/ r \in missed \/ \E n \in Logs : r \in InHands[n]
          /\ ~(r \in Rows(evqueue) /\ r \in Filed) /\ ~(r \in Rows(evqueue) /\ r \in missed)
          /\ ~(r \in Filed /\ r \in missed)
          /\ (\E n \in Logs : r \in InHands[n]) =>
                r \notin Rows(evqueue) /\ r \notin Filed /\ r \notin missed
      BY <2>1, <3>1 DEF Ledger
    <3>9. /\ Cardinality(Q) = IF r \in Rows(evqueue) THEN 1 ELSE 0
          /\ Cardinality(T) = IF \E n \in Logs : r \in InHands[n] THEN 1 ELSE 0
          /\ Cardinality(F) = IF r \in Filed THEN 1 ELSE 0
      <4> HIDE DEF Q, T, F
      <4> QED BY <3>2, <3>3, <3>4, <3>5, <3>6, <3>7, OnePlace
    <3> HIDE DEF Q, T, F
    <3>10. Cardinality(Q) + Cardinality(T) + Cardinality(F) + (IF r \in missed THEN 1 ELSE 0) = 1
      BY <3>8, <3>9
    <3> QED BY <3>10 DEF Q, T, F
  <2>4. evlog.n # 0 /\ evlog.state = "closed" /\ ~evlog.late =>
          Rows(evqueue) = {} /\ threads[evlog.n] = <<>>
    BY DEF EvalInv, WriterOK
  <2> QED BY <2>3, <2>4 DEF NoRowVanishes
<1> QED BY <1>1, EvalStarts, EvalKeeps, PTL DEF EvalSpec

\* A verdict that was accepted is on file, after the utterance it is about, which its judge
\* heard and could be read.
THEOREM VerdictsNameTheHeard == EvalSpec => []VerdictNamesTheHeard
<1>1. EvalInv => VerdictNamesTheHeard
  BY DEF EvalInv
<1> QED BY <1>1, EvalStarts, EvalKeeps, PTL DEF EvalSpec

\* The rows, the queue, the threads and the file of the evaluation keep their types.
THEOREM EvalTypes == EvalSpec => []EvalTypeOK
<1>1. EvalInv => EvalTypeOK
  BY DEF EvalInv
<1> QED BY <1>1, EvalStarts, EvalKeeps, PTL DEF EvalSpec

----------------------------------------------------------------------------
\* Counting the rows of a bag.

IsList(bag) == IsFiniteSet(DOMAIN bag) /\ bag \in [DOMAIN bag -> Nat \ {0}]

LEMMA EmptyIsList == IsList(EmptyTally) /\ DOMAIN EmptyTally = {}
  BY FS_EmptySet DEF IsList, EmptyTally

LEMMA AddedIsList ==
    ASSUME NEW bag, IsList(bag), NEW row
    PROVE  IsList(OneMore(bag, row)) /\ DOMAIN OneMore(bag, row) = DOMAIN bag \cup {row}
<1>1. DOMAIN OneMore(bag, row) = DOMAIN bag \cup {row}
  BY DEF OneMore
<1>2. IsFiniteSet(DOMAIN bag \cup {row})
  BY FS_AddElement DEF IsList
<1>3. \A r \in DOMAIN bag : bag[r] \in Nat \ {0}
  BY DEF IsList
<1>4. CASE row \in DOMAIN bag
  BY <1>1, <1>2, <1>3, <1>4 DEF IsList, OneMore
<1>5. CASE row \notin DOMAIN bag
  BY <1>1, <1>2, <1>3, <1>5 DEF IsList, OneMore
<1> QED BY <1>4, <1>5

\* The copies of some rows are pairs of a row and its number among its like.
LEMMA CopiesAre ==
    ASSUME NEW bag, IsList(bag), NEW rows, rows \subseteq DOMAIN bag
    PROVE  /\ \A c \in Copies(bag, rows) :
                 c = <<c[1], c[2]>> /\ c[1] \in rows /\ c[2] \in 1 .. bag[c[1]]
           /\ \A r \in rows : \A k \in 1 .. bag[r] : <<r, k>> \in Copies(bag, rows)
           /\ \A r \in rows : <<r, 1>> \in Copies(bag, rows)
<1>1. \A r \in DOMAIN bag : bag[r] \in Nat /\ 1 \in 1 .. bag[r]
  BY DEF IsList
<1>2. ASSUME NEW c \in Copies(bag, rows)
      PROVE  c = <<c[1], c[2]>> /\ c[1] \in rows /\ c[2] \in 1 .. bag[c[1]]
  <2>1. PICK r \in rows : c \in {r} \X (1 .. bag[r])
    BY DEF Copies
  <2> QED BY <2>1
<1>3. ASSUME NEW r \in rows, NEW k \in 1 .. bag[r]
      PROVE  <<r, k>> \in Copies(bag, rows)
  <2>1. <<r, k>> \in {r} \X (1 .. bag[r])
    OBVIOUS
  <2> QED BY <2>1 DEF Copies
<1> QED BY <1>1, <1>2, <1>3

LEMMA CopiesAreFinite ==
    ASSUME NEW bag, IsList(bag), NEW rows, rows \subseteq DOMAIN bag
    PROVE  IsFiniteSet(Copies(bag, rows)) /\ HowMany(bag, rows) \in Nat
<1> DEFINE some(r) == {r} \X (1 .. bag[r])
           f == [r \in DOMAIN bag |-> some(r)]
           all == {some(r) : r \in DOMAIN bag}
<1>1. \A r \in DOMAIN bag : bag[r] \in Nat
  BY DEF IsList
<1>2. IsFiniteSet(all)
  <2>1. f \in Surjection(DOMAIN bag, all)
    <3>1. f \in [DOMAIN bag -> all]
      OBVIOUS
    <3>2. \A t \in all : \E r \in DOMAIN bag : f[r] = t
      OBVIOUS
    <3> HIDE DEF f, all
    <3> QED BY <3>1, <3>2 DEF Surjection
  <2> HIDE DEF f, all
  <2> QED BY <2>1, FS_Surjection DEF IsList
<1>3. \A t \in all : IsFiniteSet(t)
  <2> SUFFICES ASSUME NEW r \in DOMAIN bag PROVE IsFiniteSet({r} \X (1 .. bag[r]))
    OBVIOUS
  <2>1. bag[r] \in Int /\ 1 \in Int
    BY <1>1
  <2>2. IsFiniteSet(1 .. bag[r])
    BY <2>1, FS_Interval
  <2>3. IsFiniteSet({r})
    BY FS_Singleton
  <2> QED BY <2>2, <2>3, FS_Product
<1>4. Copies(bag, rows) \subseteq UNION all
  <2> SUFFICES ASSUME NEW c \in Copies(bag, rows) PROVE c \in UNION all
    OBVIOUS
  <2>1. c = <<c[1], c[2]>> /\ c[1] \in DOMAIN bag /\ c[2] \in 1 .. bag[c[1]]
    BY CopiesAre
  <2>2. c \in {c[1]} \X (1 .. bag[c[1]])
    BY <2>1
  <2> QED BY <2>1, <2>2
<1> HIDE DEF all
<1>5. IsFiniteSet(UNION all)
  BY <1>2, <1>3, FS_UNION
<1>6. IsFiniteSet(Copies(bag, rows))
  BY <1>4, <1>5, FS_Subset
<1> QED BY <1>6, FS_CardinalityType DEF HowMany

LEMMA FewerRows ==
    ASSUME NEW bag, IsList(bag), NEW rows, rows \subseteq DOMAIN bag, NEW few, few \subseteq rows
    PROVE  /\ HowMany(bag, few) <= HowMany(bag, rows)
           /\ HowMany(bag, few) = HowMany(bag, rows) => few = rows
<1>1. Copies(bag, few) \subseteq Copies(bag, rows)
  BY DEF Copies
<1>2. ASSUME Copies(bag, rows) = Copies(bag, few), NEW r \in rows PROVE r \in few
  <2>1. <<r, 1>> \in Copies(bag, few)
    BY <1>2, CopiesAre
  <2>2. <<r, 1>>[1] \in few
    BY <2>1, CopiesAre
  <2> QED BY <2>2
<1>3. IsFiniteSet(Copies(bag, rows))
  BY CopiesAreFinite
<1>4. /\ Cardinality(Copies(bag, few)) <= Cardinality(Copies(bag, rows))
      /\ Cardinality(Copies(bag, rows)) = Cardinality(Copies(bag, few))
           => Copies(bag, rows) = Copies(bag, few)
  BY <1>1, <1>3, FS_Subset
<1> QED BY <1>2, <1>4 DEF HowMany

LEMMA ApartRows ==
    ASSUME NEW bag, IsList(bag), NEW rows, NEW others, rows \cap others = {},
           rows \subseteq DOMAIN bag, others \subseteq DOMAIN bag
    PROVE  HowMany(bag, rows \cup others) = HowMany(bag, rows) + HowMany(bag, others)
<1>1. Copies(bag, rows \cup others) = Copies(bag, rows) \cup Copies(bag, others)
  BY DEF Copies
<1>2. Copies(bag, rows) \cap Copies(bag, others) = {}
  <2> SUFFICES ASSUME NEW c \in Copies(bag, rows), c \in Copies(bag, others) PROVE FALSE
    OBVIOUS
  <2>1. c[1] \in rows /\ c[1] \in others
    BY CopiesAre
  <2> QED BY <2>1
<1>3. IsFiniteSet(Copies(bag, rows)) /\ IsFiniteSet(Copies(bag, others))
  BY CopiesAreFinite
<1>4. Cardinality({}) = 0
  BY FS_EmptySet
<1>5. Cardinality(Copies(bag, rows)) \in Nat /\ Cardinality(Copies(bag, others)) \in Nat
  BY <1>3, FS_CardinalityType
<1>6. Cardinality(Copies(bag, rows) \cup Copies(bag, others))
        = Cardinality(Copies(bag, rows)) + Cardinality(Copies(bag, others)) - Cardinality({})
  BY <1>2, <1>3, FS_Union
<1>7. Cardinality(Copies(bag, rows) \cup Copies(bag, others))
        = Cardinality(Copies(bag, rows)) + Cardinality(Copies(bag, others))
  BY <1>4, <1>5, <1>6
<1> QED BY <1>1, <1>7 DEF HowMany

LEMMA WithoutRows ==
    ASSUME NEW bag, IsList(bag), NEW rows, rows \subseteq DOMAIN bag
    PROVE  HowMany(bag, rows) = 0 <=> rows = {}
<1>1. Copies(bag, rows) = {} <=> rows = {}
  BY CopiesAre
<1>2. IsFiniteSet(Copies(bag, rows))
  BY CopiesAreFinite
<1> QED BY <1>1, <1>2, FS_EmptySet DEF HowMany
----------------------------------------------------------------------------
\* The gate.

\* A window that was asked for and never answered has no rank.
ReplayInv ==
    /\ IsList(replayed)
    /\ \A r \in DOMAIN replayed : r.window = "error" => r.kept = {}

LEMMA ReplayStarts == ReplayInit => ReplayInv
  BY EmptyIsList DEF ReplayInit, ReplayInv

LEMMA ReplayRecords ==
    ASSUME ReplayInv, NEW r, Recorded(r), r.window = "error" => r.kept = {}
    PROVE  ReplayInv'
<1>1. IsList(replayed') /\ DOMAIN replayed' = DOMAIN replayed \cup {r}
  BY AddedIsList DEF Recorded, ReplayInv
<1>2. IsList(replayed)'
  BY <1>1 DEF IsList
<1> QED BY <1>1, <1>2 DEF ReplayInv

LEMMA ReplaySteps == ReplayInv /\ [ReplayNext]_replayVars => ReplayInv'
<1> SUFFICES ASSUME ReplayInv, [ReplayNext]_replayVars PROVE ReplayInv'
  OBVIOUS
<1>1. CASE UNCHANGED replayVars
  BY <1>1 DEF ReplayInv, replayVars
<1>2. ASSUME NEW lang \in Langs, PredictorFails(lang) PROVE ReplayInv'
  <2> DEFINE r == [Blank(lang) EXCEPT !.predicted = FALSE]
  <2>1. Recorded(r)
    BY <1>2 DEF PredictorFails
  <2>2. r.window = "none"
    BY DEF Blank
  <2> HIDE DEF r
  <2> QED BY <2>1, <2>2, ReplayRecords
<1>3. ASSUME NEW lang \in Langs, PrunerSilent(lang) PROVE ReplayInv'
  <2>1. PICK ranks \in Ranked, window \in {"none", "error"} :
          Recorded([Blank(lang) EXCEPT !.prior = ranks.prior, !.window = window])
    BY <1>3 DEF PrunerSilent
  <2> DEFINE r == [Blank(lang) EXCEPT !.prior = ranks.prior, !.window = window]
  <2>2. r.kept = {}
    BY DEF Blank
  <2>3. Recorded(r)
    BY <2>1
  <2> HIDE DEF r
  <2> QED BY <2>2, <2>3, ReplayRecords
<1>4. ASSUME NEW lang \in Langs, PrunerAnswers(lang) PROVE ReplayInv'
  <2>1. PICK ranks \in Ranked, predictor \in Trips, pruner \in Trips,
             baseline \in {{}} \union {{b} : b \in Baselines} :
          Recorded([Blank(lang) EXCEPT
                      !.prior = ranks.prior, !.window = "answered", !.kept = ranks.kept,
                      !.trip = {pruner},
                      !.lead = {b - (Max({WindowMs, predictor}) + pruner) : b \in baseline}])
    BY <1>4 DEF PrunerAnswers
  <2> DEFINE lead == {b - (Max({WindowMs, predictor}) + pruner) : b \in baseline}
             r == [Blank(lang) EXCEPT !.prior = ranks.prior, !.window = "answered",
                                      !.kept = ranks.kept, !.trip = {pruner}, !.lead = lead]
  <2>2. Recorded(r)
    BY <2>1
  <2> HIDE DEF lead
  <2>3. r.window = "answered"
    BY DEF Blank
  <2> HIDE DEF r
  <2> QED BY <2>2, <2>3, ReplayRecords
<1> QED BY <1>1, <1>2, <1>3, <1>4 DEF ReplayNext, RunSample

\* Rounding hides half a ten-thousandth.
LEMMA RateBound ==
    ASSUME NEW n \in Nat, NEW of \in Nat, AtLeast(Rate(n, of), 9500)
    PROVE  20000 * n >= 18999 * of
<1>1. of # 0 /\ (20000 * n + of) \div (2 * of) >= 9500
  BY DEF AtLeast, Rate
<1> DEFINE a == 20000 * n + of
           b == 2 * of
           q == a \div b
<1>2. a \in Nat /\ b \in Nat /\ b > 0
  BY <1>1
<1>3. q \in Int /\ b * q <= a
  <2> HIDE DEF a, b
  <2> QED BY <1>2
<1>4. b * 9500 <= b * q
  <2>1. q >= 9500
    BY <1>1
  <2> HIDE DEF b, q
  <2> QED BY <1>2, <1>3, <2>1
<1>5. b * 9500 <= a
  <2>1. b * q \in Int /\ b * 9500 \in Int
    BY <1>2, <1>3
  <2> HIDE DEF a, b, q
  <2> QED BY <1>2, <1>3, <1>4, <2>1
<1> QED BY <1>5

\* What passes every check has kept what it was given.
LEMMA PassedIsKept ==
    ASSUME ReplayInv, NEW lang, ChecksPass(lang)
    PROVE  LET supplied == {r \in Of(lang) : r.window # "none" /\ r.prior # {}}
           IN 20000 * Count({r \in supplied : ~Within(Top5, r.kept)}) <= 1001 * Count(supplied)
<1> DEFINE rows == {r \in Of(lang) : r.window # "none"}
           eligible == {r \in rows : r.prior # {}}
           answered == {r \in eligible : r.window # "error"}
           kept == {r \in answered : Within(Top5, r.kept)}
           supplied == {r \in Of(lang) : r.window # "none" /\ r.prior # {}}
           lost == {r \in supplied : ~Within(Top5, r.kept)}
<1>1. eligible = supplied
  OBVIOUS
<1>2. Top5 \in 1 .. TopK
  BY ReplayAssumption
<1>3. AtLeast(Rate(Count(kept), Count(eligible)), 9500)
  BY <1>2 DEF ChecksPass, WindowMetrics
<1>4. supplied = kept \cup lost /\ kept \cap lost = {}
  <2>1. \A r \in supplied : Within(Top5, r.kept) => r.window # "error"
    BY DEF ReplayInv, Of, Within
  <2> QED BY <2>1
<1>5. supplied \subseteq DOMAIN replayed /\ lost \subseteq supplied /\ kept \subseteq supplied
  BY DEF Of
<1> HIDE DEF eligible, kept, supplied, lost
<1>6. Count(supplied) = Count(kept) + Count(lost)
  BY <1>4, <1>5, ApartRows DEF Count, ReplayInv
<1>7. Count(supplied) \in Nat /\ Count(kept) \in Nat /\ Count(lost) \in Nat
  BY <1>5, CopiesAreFinite DEF Count, ReplayInv
<1>8. 20000 * Count(kept) >= 18999 * Count(supplied)
  BY <1>1, <1>3, <1>7, RateBound
<1>9. 20000 * Count(lost) <= 1001 * Count(supplied)
  BY <1>6, <1>7, <1>8
<1> QED BY <1>9 DEF lost, supplied

LEMMA RejectedIsSeen ==
    ASSUME ReplayInv, NEW lang, Rejects(lang)
    PROVE  Count(Of(lang)) >= MinSamples
<1>1. ASSUME NEW few, few \subseteq Of(lang), Count(few) >= MinSamples
      PROVE  Count(Of(lang)) >= MinSamples
  <2>1. Of(lang) \subseteq DOMAIN replayed /\ few \subseteq DOMAIN replayed
    BY <1>1 DEF Of
  <2>2. Count(few) <= Count(Of(lang))
    BY <1>1, <2>1, FewerRows DEF Count, ReplayInv
  <2>3. Count(few) \in Nat /\ Count(Of(lang)) \in Nat
    BY <2>1, CopiesAreFinite DEF Count, ReplayInv
  <2> QED BY <1>1, <2>2, <2>3, ReplayAssumption
<1>2. CASE PredictionMetrics(lang).samples >= MinSamples
  <2>1. Count({r \in Of(lang) : r.predicted}) >= MinSamples
    BY <1>2 DEF PredictionMetrics
  <2> QED BY <1>1, <2>1
<1>3. CASE WindowMetrics(lang).samples >= MinSamples
  <2>1. Count({r \in Of(lang) : r.window # "none"}) >= MinSamples
    BY <1>3 DEF WindowMetrics
  <2> QED BY <1>1, <2>1
<1>4. CASE WindowMetrics(lang).trips >= MinSamples
  <2>1. Count({r \in {r \in Of(lang) : r.window # "none"} : r.trip # {}}) >= MinSamples
    BY <1>4 DEF WindowMetrics
  <2> QED BY <1>1, <2>1
<1> QED BY <1>2, <1>3, <1>4 DEF Rejects

LEMMA VerdictsAreEarned == ReplayInv => VerdictIsEarned
<1> SUFFICES ASSUME ReplayInv PROVE VerdictIsEarned
  OBVIOUS
<1>1. Verdict = "PROMOTE" => \A lang \in Langs : ChecksPass(lang)
  BY DEF Verdict
<1>2. Verdict = "REJECT" => \E lang \in Langs : Rejects(lang)
  BY DEF Verdict
<1> QED BY <1>1, <1>2, PassedIsKept, RejectedIsSeen DEF VerdictIsEarned
----------------------------------------------------------------------------
\* The report of a call.

LogInv == IsList(log) /\ LoggedRows \subseteq Row \union OldRow

LEMMA LogStarts == LogInit => LogInv
  BY EmptyIsList DEF LogInit, LogInv, LoggedRows

LEMMA LogSteps == LogInv /\ [LogNext]_logVars => LogInv'
<1> SUFFICES ASSUME LogInv, [LogNext]_logVars PROVE LogInv'
  OBVIOUS
<1>1. CASE UNCHANGED logVars
  BY <1>1 DEF LogInv, LoggedRows, logVars
<1>2. CASE LogRow
  <2>1. PICK r \in Row \union OldRow : log' = OneMore(log, r)
    BY <1>2 DEF LogRow
  <2>2. IsList(log') /\ DOMAIN log' = DOMAIN log \cup {r}
    BY <2>1, AddedIsList DEF LogInv
  <2>3. IsList(log)'
    BY <2>2 DEF IsList
  <2>4. (LoggedRows \subseteq Row \union OldRow)'
    <3>1. LoggedRows' = LoggedRows \cup {r} /\ Row' = Row /\ OldRow' = OldRow
      BY <2>2 DEF LoggedRows, Row, OldRow
    <3> QED BY <3>1 DEF LogInv
  <2> QED BY <2>3, <2>4 DEF LogInv
<1> QED BY <1>1, <1>2 DEF LogNext

Keyed(rows) == {r \in rows : r.key # NoKey}
Older(rows) == {r \in rows : r.key = NoKey}
KeyedFirsts(rows) == {r \in Keyed(rows) : r.first}

\* What the counts are made of.
LEMMA CountsAre ==
    ASSUME LogInv, NEW rows, rows \subseteq LoggedRows
    PROVE  /\ UtteranceCount(rows) = Cardinality(KeysOf(rows)) + RowCount(Older(rows))
           /\ RowCount(FirstChunks(rows)) = RowCount(KeyedFirsts(rows)) + RowCount(Older(rows))
           /\ RowCount(rows) = RowCount(Keyed(rows)) + RowCount(Older(rows))
           /\ RowCount(Older(rows)) \in Nat /\ RowCount(KeyedFirsts(rows)) \in Nat
<1>1. \A r \in rows : (r.key = NoKey => r.first)
  BY ReportAssumption DEF LogInv, Row, OldRow
<1>2. {r.key : r \in {r \in rows : r.key # NoKey}} = KeysOf(rows)
  BY DEF KeysOf
<1>3. UtteranceCount(rows) = Cardinality(KeysOf(rows)) + RowCount(Older(rows))
  BY <1>2 DEF UtteranceCount, Older
<1>4. /\ Keyed(rows) \subseteq DOMAIN log /\ Older(rows) \subseteq DOMAIN log
      /\ KeyedFirsts(rows) \subseteq DOMAIN log
      /\ KeyedFirsts(rows) \cap Older(rows) = {} /\ Keyed(rows) \cap Older(rows) = {}
      /\ FirstChunks(rows) = KeyedFirsts(rows) \cup Older(rows)
      /\ rows = Keyed(rows) \cup Older(rows)
  BY <1>1 DEF Keyed, Older, KeyedFirsts, FirstChunks, LoggedRows
<1>5. /\ RowCount(FirstChunks(rows)) = RowCount(KeyedFirsts(rows)) + RowCount(Older(rows))
      /\ RowCount(rows) = RowCount(Keyed(rows)) + RowCount(Older(rows))
  BY <1>4, ApartRows DEF RowCount, LogInv
<1>6. RowCount(Older(rows)) \in Nat /\ RowCount(KeyedFirsts(rows)) \in Nat
  BY <1>4, CopiesAreFinite DEF RowCount, LogInv
<1> QED BY <1>3, <1>5, <1>6

\* A first chunk has its number or it does not.
LEMMA FirstsAreTimedOrNot ==
    ASSUME LogInv, NEW rows, rows \subseteq LoggedRows
    PROVE  LET firsts == FirstChunks(rows)
           IN /\ RowCount(firsts) = Samples(rows) + RowCount(firsts \ Timed(firsts))
              /\ RowCount(firsts) \in Nat /\ Samples(rows) \in Nat
              /\ RowCount(firsts \ Timed(firsts)) \in Nat
<1> DEFINE firsts == FirstChunks(rows)
<1>1. /\ firsts = Timed(firsts) \cup (firsts \ Timed(firsts)) /\ firsts \subseteq DOMAIN log
      /\ Timed(firsts) \subseteq DOMAIN log /\ firsts \ Timed(firsts) \subseteq DOMAIN log
      /\ Timed(firsts) \cap (firsts \ Timed(firsts)) = {}
  BY DEF FirstChunks, Timed, LoggedRows
<1>2. Samples(rows) = RowCount(Timed(firsts))
  BY DEF Samples
<1> HIDE DEF firsts
<1>3. RowCount(firsts) = RowCount(Timed(firsts)) + RowCount(firsts \ Timed(firsts))
  BY <1>1, ApartRows DEF RowCount, LogInv
<1>4. /\ RowCount(firsts) \in Nat /\ RowCount(Timed(firsts)) \in Nat
      /\ RowCount(firsts \ Timed(firsts)) \in Nat
  BY <1>1, CopiesAreFinite DEF RowCount, LogInv
<1> QED BY <1>2, <1>3, <1>4 DEF firsts

\* The keys are those of the rows; each copy of a first chunk is one of its key.
LEMMA KeysAreFinite ==
    ASSUME LogInv, NEW rows, rows \subseteq LoggedRows
    PROVE  IsFiniteSet(KeysOf(rows)) /\ Cardinality(KeysOf(rows)) \in Nat
<1> DEFINE K == {r.key : r \in rows}
           f == [r \in rows |-> r.key]
<1>1. f \in Surjection(rows, K)
  <2>1. f \in [rows -> K] /\ \A k \in K : \E r \in rows : f[r] = k
    OBVIOUS
  <2> HIDE DEF f, K
  <2> QED BY <2>1 DEF Surjection
<1>2. IsFiniteSet(rows)
  BY FS_Subset DEF LogInv, IsList, LoggedRows
<1>3. KeysOf(rows) \subseteq K
  BY DEF KeysOf
<1> HIDE DEF f, K
<1>4. IsFiniteSet(K)
  BY <1>1, <1>2, FS_Surjection
<1>5. IsFiniteSet(KeysOf(rows))
  BY <1>3, <1>4, FS_Subset
<1> QED BY <1>5, FS_CardinalityType

LEMMA AnomaliesAreCounts ==
    ASSUME LogInv, NEW rows, rows \subseteq LoggedRows
    PROVE  Missing(rows) \in Nat /\ Excess(rows) \in Nat
<1>1. /\ IsFiniteSet({key \in KeysOf(rows) : FirstsOf(key, rows) = 0})
      /\ IsFiniteSet({key \in KeysOf(rows) : FirstsOf(key, rows) > 1})
  BY KeysAreFinite, FS_Subset
<1> QED BY <1>1, FS_CardinalityType DEF Missing, Excess

LEMMA FirstsOfKeys ==
    ASSUME LogInv, NEW rows, rows \subseteq LoggedRows, NEW key \in KeysOf(rows)
    PROVE  LET firsts == {r \in FirstChunks(rows) : r.key = key}
           IN /\ firsts \subseteq DOMAIN log /\ firsts \subseteq KeyedFirsts(rows)
              /\ FirstsOf(key, rows) = HowMany(log, firsts) /\ FirstsOf(key, rows) \in Nat
              /\ IsFiniteSet(Copies(log, firsts))
              /\ Copies(log, firsts) \subseteq Copies(log, KeyedFirsts(rows))
<1> DEFINE firsts == {r \in FirstChunks(rows) : r.key = key}
<1>1. firsts \subseteq DOMAIN log /\ firsts \subseteq KeyedFirsts(rows)
  BY DEF FirstChunks, LoggedRows, KeyedFirsts, Keyed, KeysOf
<1>2. FirstsOf(key, rows) = HowMany(log, firsts)
  BY DEF FirstsOf, RowCount
<1> HIDE DEF firsts
<1>3. HowMany(log, firsts) \in Nat /\ IsFiniteSet(Copies(log, firsts))
  BY <1>1, CopiesAreFinite DEF LogInv
<1>4. Copies(log, firsts) \subseteq Copies(log, KeyedFirsts(rows))
  BY <1>1 DEF Copies
<1> QED BY <1>1, <1>2, <1>3, <1>4 DEF firsts

\* The keys that are not missing, and of which each first chunk is.
Found(rows) == {key \in KeysOf(rows) : FirstsOf(key, rows) # 0}

LEMMA FoundOrMissing ==
    ASSUME LogInv, NEW rows, rows \subseteq LoggedRows
    PROVE  /\ IsFiniteSet(Found(rows)) /\ Cardinality(Found(rows)) \in Nat
           /\ Cardinality(KeysOf(rows)) = Cardinality(Found(rows)) + Missing(rows)
<1> DEFINE none == {key \in KeysOf(rows) : FirstsOf(key, rows) = 0}
<1>1. none \subseteq KeysOf(rows) /\ Found(rows) = KeysOf(rows) \ none /\ Missing(rows) = Cardinality(none)
  BY DEF Found, Missing
<1> HIDE DEF none
<1>2. KeysOf(rows) \cap none = none
  BY <1>1
<1>3. IsFiniteSet(Found(rows)) /\ IsFiniteSet(none)
  BY <1>1, KeysAreFinite, FS_Subset
<1>4. Cardinality(Found(rows)) = Cardinality(KeysOf(rows)) - Cardinality(none)
  BY <1>1, <1>2, KeysAreFinite, FS_Difference
<1>5. Cardinality(Found(rows)) \in Nat /\ Cardinality(none) \in Nat /\ Cardinality(KeysOf(rows)) \in Nat
  BY <1>3, KeysAreFinite, FS_CardinalityType
<1> QED BY <1>1, <1>3, <1>4, <1>5

LEMMA FirstsAreFound ==
    ASSUME LogInv, NEW rows, rows \subseteq LoggedRows, NEW r \in KeyedFirsts(rows)
    PROVE  r.key \in Found(rows)
<1> DEFINE firsts == {x \in FirstChunks(rows) : x.key = r.key}
<1>1. r.key \in KeysOf(rows) /\ r \in firsts
  BY DEF KeyedFirsts, Keyed, KeysOf, FirstChunks
<1>2. firsts \subseteq DOMAIN log /\ FirstsOf(r.key, rows) = HowMany(log, firsts)
  BY <1>1, FirstsOfKeys
<1> HIDE DEF firsts
<1>3. HowMany(log, firsts) # 0
  BY <1>1, <1>2, WithoutRows DEF LogInv
<1> QED BY <1>1, <1>2, <1>3 DEF Found

\* Every utterance that has a key and is not missing has a first chunk.
LEMMA EachFoundHasAFirst ==
    ASSUME LogInv, NEW rows, rows \subseteq LoggedRows
    PROVE  Cardinality(Found(rows)) <= RowCount(KeyedFirsts(rows))
<1> DEFINE firsts(key) == {r \in FirstChunks(rows) : r.key = key}
           all == Copies(log, KeyedFirsts(rows))
           f == [c \in all |-> c[1].key]
<1>2. KeyedFirsts(rows) \subseteq DOMAIN log
  BY DEF KeyedFirsts, Keyed, LoggedRows
<1>3. IsFiniteSet(all)
  BY <1>2, CopiesAreFinite DEF LogInv
<1>4. f \in [all -> Found(rows)]
  <2>1. \A c \in all : c[1] \in KeyedFirsts(rows)
    BY <1>2, CopiesAre DEF LogInv
  <2>2. \A r \in KeyedFirsts(rows) : r.key \in Found(rows)
    BY FirstsAreFound
  <2> HIDE DEF all
  <2> QED BY <2>1, <2>2
<1>5. ASSUME NEW key \in Found(rows) PROVE \E c \in all : f[c] = key
  <2>1. FirstsOf(key, rows) # 0 /\ key \in KeysOf(rows)
    BY DEF Found
  <2>2. firsts(key) \subseteq DOMAIN log /\ HowMany(log, firsts(key)) # 0
    BY <2>1, FirstsOfKeys
  <2>3. PICK r \in firsts(key) : TRUE
    BY <2>2, WithoutRows DEF LogInv
  <2>4. <<r, 1>> \in Copies(log, firsts(key))
    BY <2>2, <2>3, CopiesAre DEF LogInv
  <2>5. <<r, 1>> \in all
    BY <2>1, <2>4, FirstsOfKeys
  <2>6. r.key = key
    BY <2>3
  <2> HIDE DEF all
  <2> QED BY <2>5, <2>6
<1>6. f \in Surjection(all, Found(rows))
  <2> HIDE DEF f, all
  <2> QED BY <1>4, <1>5 DEF Surjection
<1> HIDE DEF f, all
<1>7. Cardinality(Found(rows)) <= Cardinality(all)
  BY <1>3, <1>6, FS_Surjection
<1> QED BY <1>7 DEF all, RowCount, HowMany

\* No utterance has two first chunks, if there is none in excess.
LEMMA NoneExcess ==
    ASSUME LogInv, NEW rows, rows \subseteq LoggedRows, Excess(rows) = 0
    PROVE  RowCount(KeyedFirsts(rows)) <= Cardinality(Found(rows))
<1> DEFINE firsts(key) == {r \in FirstChunks(rows) : r.key = key}
           all == Copies(log, KeyedFirsts(rows))
           f == [c \in all |-> c[1].key]
           many == {key \in KeysOf(rows) : FirstsOf(key, rows) > 1}
<1>1. many = {}
  <2>1. IsFiniteSet(many)
    BY KeysAreFinite, FS_Subset
  <2>2. Cardinality(many) = 0
    BY DEF Excess
  <2> HIDE DEF many
  <2> QED BY <2>1, <2>2, FS_EmptySet
<1>2. KeyedFirsts(rows) \subseteq DOMAIN log
  BY DEF KeyedFirsts, Keyed, LoggedRows
<1>3. \A c \in all : /\ c = <<c[1], c[2]>> /\ c[1] \in KeyedFirsts(rows)
                     /\ c[2] \in 1 .. log[c[1]]
  BY <1>2, CopiesAre DEF LogInv
<1>4. f \in [all -> Found(rows)]
  <2>1. \A r \in KeyedFirsts(rows) : r.key \in Found(rows)
    BY FirstsAreFound
  <2> HIDE DEF all
  <2> QED BY <1>3, <2>1
<1>5. ASSUME NEW c \in all, NEW d \in all, f[c] = f[d] PROVE c = d
  <2> DEFINE key == c[1].key
  <2>1. key \in KeysOf(rows) /\ d[1].key = key
    BY <1>4, <1>5 DEF Found
  <2>2. c[1] \in firsts(key) /\ d[1] \in firsts(key)
    BY <1>3, <2>1 DEF KeyedFirsts, Keyed, FirstChunks
  <2> HIDE DEF key
  <2>3. firsts(key) \subseteq DOMAIN log /\ IsFiniteSet(Copies(log, firsts(key)))
    BY <2>1, FirstsOfKeys
  <2>4. \A e \in all : e[1] \in firsts(key) => e \in Copies(log, firsts(key))
    <3> TAKE e \in all
    <3> HAVE e[1] \in firsts(key)
    <3>1. <<e[1], e[2]>> \in Copies(log, firsts(key))
      BY <1>3, <2>3, CopiesAre DEF LogInv
    <3> QED BY <1>3, <3>1
  <2>5. c \in Copies(log, firsts(key)) /\ d \in Copies(log, firsts(key))
    BY <2>2, <2>4
  <2>6. Cardinality(Copies(log, firsts(key))) \in Nat /\ ~(Cardinality(Copies(log, firsts(key))) > 1)
    <3>1. FirstsOf(key, rows) = HowMany(log, firsts(key)) /\ FirstsOf(key, rows) \in Nat
      BY <2>1, FirstsOfKeys
    <3>2. ~(FirstsOf(key, rows) > 1)
      BY <1>1, <2>1
    <3> QED BY <3>1, <3>2 DEF HowMany
  <2> DEFINE C == Copies(log, firsts(key))
  <2> HIDE DEF C
  <2>7. IsFiniteSet(C) /\ c \in C /\ d \in C /\ Cardinality(C) \in Nat /\ ~(Cardinality(C) > 1)
    BY <2>3, <2>5, <2>6 DEF C
  <2>8. Cardinality(C) # 0
    BY <2>7, FS_EmptySet
  <2>9. PICK x : C = {x}
    BY <2>7, <2>8, FS_Singleton
  <2> QED BY <2>7, <2>9
<1>6. f \in Injection(all, Found(rows))
  <2> HIDE DEF f, all
  <2> QED BY <1>4, <1>5 DEF Injection, IsInjective
<1> HIDE DEF f, all
<1>7. Cardinality(all) <= Cardinality(Found(rows))
  BY <1>6, FoundOrMissing, FS_Injection
<1> QED BY <1>7 DEF all, RowCount, HowMany

\* First chunks and missing ones make up the utterances.
LEMMA FirstsAndUtterances ==
    ASSUME LogInv, NEW rows, rows \subseteq LoggedRows
    PROVE  LET firsts == RowCount(FirstChunks(rows))
           IN /\ UtteranceCount(rows) <= firsts + Missing(rows)
              /\ Excess(rows) = 0 => UtteranceCount(rows) = firsts + Missing(rows)
              /\ firsts > UtteranceCount(rows) => Excess(rows) > 0
              /\ firsts \in Nat /\ UtteranceCount(rows) \in Nat /\ Missing(rows) \in Nat
<1> DEFINE keys == Cardinality(KeysOf(rows))
           found == Cardinality(Found(rows))
           keyed == RowCount(KeyedFirsts(rows))
           older == RowCount(Older(rows))
           firsts == RowCount(FirstChunks(rows))
<1>1. /\ UtteranceCount(rows) = keys + older /\ firsts = keyed + older
      /\ older \in Nat /\ keyed \in Nat
  BY CountsAre
<1>2. Missing(rows) \in Nat /\ Excess(rows) \in Nat
  BY AnomaliesAreCounts
<1>3. keys = found + Missing(rows) /\ found \in Nat
  BY FoundOrMissing
<1>4. found <= keyed /\ (Excess(rows) = 0 => keyed <= found)
  BY EachFoundHasAFirst, NoneExcess
<1> HIDE DEF keys, found, keyed, older, firsts
<1>5. /\ UtteranceCount(rows) <= firsts + Missing(rows)
      /\ Excess(rows) = 0 => UtteranceCount(rows) = firsts + Missing(rows)
      /\ firsts > UtteranceCount(rows) => Excess(rows) > 0
      /\ firsts \in Nat /\ UtteranceCount(rows) \in Nat /\ Missing(rows) \in Nat
  BY <1>1, <1>2, <1>3, <1>4
<1> QED BY <1>5 DEF firsts

\* Rows of different fates are counted apart.
LEMMA FatesApart ==
    ASSUME LogInv
    PROVE  /\ RowCount(Spoken) + Fated({"cut", "cancelled"}) + Fated({"errored"}) <= RowCount(LoggedRows)
           /\ RowCount(Spoken) <= Fated({"delivered", "cut"})
<1> DEFINE cut == {r \in LoggedRows : r.fate \in {"cut", "cancelled"}}
           errored == {r \in LoggedRows : r.fate \in {"errored"}}
           out == {r \in LoggedRows : r.fate \in {"delivered", "cut"}}
<1>1. /\ Spoken \cap cut = {} /\ (Spoken \cup cut) \cap errored = {} /\ Spoken \subseteq out
      /\ (Spoken \cup cut) \cup errored \subseteq LoggedRows
      /\ LoggedRows \subseteq DOMAIN log /\ cut \subseteq DOMAIN log /\ errored \subseteq DOMAIN log
      /\ Spoken \subseteq DOMAIN log /\ out \subseteq DOMAIN log
  BY DEF Spoken, LoggedRows
<1>2. /\ Fated({"cut", "cancelled"}) = RowCount(cut) /\ Fated({"errored"}) = RowCount(errored)
      /\ Fated({"delivered", "cut"}) = RowCount(out)
  BY DEF Fated
<1> HIDE DEF cut, errored, out
<1>3. RowCount(Spoken \cup cut) = RowCount(Spoken) + RowCount(cut)
  BY <1>1, ApartRows DEF RowCount, LogInv
<1>4. RowCount((Spoken \cup cut) \cup errored) = RowCount(Spoken \cup cut) + RowCount(errored)
  BY <1>1, ApartRows DEF RowCount, LogInv
<1>5. RowCount((Spoken \cup cut) \cup errored) <= RowCount(LoggedRows)
  BY <1>1, FewerRows DEF RowCount, LogInv
<1>6. RowCount(Spoken) <= RowCount(out)
  BY <1>1, FewerRows DEF RowCount, LogInv
<1> QED BY <1>2, <1>3, <1>4, <1>5, <1>6

\* A log without keys.
LEMMA OldLogs ==
    ASSUME LogInv, KeysOf(LoggedRows) = {}, NEW rows, rows \subseteq LoggedRows
    PROVE  UtteranceCount(rows) = RowCount(rows) /\ Samples(rows) = RowCount(Timed(rows))
<1>1. Keyed(rows) = {} /\ KeysOf(rows) = {}
  BY DEF Keyed, KeysOf
<1>2. Cardinality(KeysOf(rows)) = 0
  BY <1>1, FS_EmptySet
<1>3. RowCount(Keyed(rows)) = 0
  BY <1>1, WithoutRows DEF RowCount, LogInv
<1>4. FirstChunks(rows) = rows
  <2>1. \A r \in rows : r.key = NoKey
    BY <1>1 DEF Keyed
  <2>2. \A r \in rows : r.key = NoKey => r.first
    BY ReportAssumption DEF LogInv, Row, OldRow
  <2> QED BY <2>1, <2>2 DEF FirstChunks
<1> QED BY <1>2, <1>3, <1>4, CountsAre DEF Samples

LEMMA ReportsAgree == LogInv => ReportsAddUp
<1> SUFFICES ASSUME LogInv PROVE ReportsAddUp
  OBVIOUS
<1>1. Spoken \subseteq LoggedRows /\ LoggedRows \subseteq DOMAIN log /\ LoggedRows \subseteq LoggedRows
  BY DEF Spoken, LoggedRows
<1>2. /\ RowCount(FirstChunks(Spoken)) = Samples(Spoken) + Untimed
      /\ Samples(Spoken) \in Nat /\ Untimed \in Nat
  BY <1>1, FirstsAreTimedOrNot DEF Untimed
<1>3. /\ UtteranceCount(Spoken) <= Samples(Spoken) + Untimed + Missing(Spoken)
      /\ Excess(Spoken) = 0 => UtteranceCount(Spoken) = Samples(Spoken) + Untimed + Missing(Spoken)
  BY <1>1, <1>2, FirstsAndUtterances
<1>4. /\ Latency.utterances <= Latency.n + Untimed + Latency.missing
      /\ Latency.excess = 0 => Latency.utterances = Latency.n + Untimed + Latency.missing
  BY <1>3 DEF Latency
<1>7. Summary.delivered = Summary.chunks => Summary.utterances <= Summary.n + Untimed + Summary.missing
  <2> SUFFICES ASSUME RowCount(Spoken) = RowCount(LoggedRows)
               PROVE  UtteranceCount(LoggedRows) <= Samples(Spoken) + Untimed + Missing(Spoken)
    BY DEF Summary
  <2>1. Spoken = LoggedRows
    BY <1>1, FewerRows DEF RowCount, LogInv
  <2> QED BY <1>3, <2>1
<1>8. Summary.n > Summary.utterances => Summary.excess > 0
  <2> SUFFICES ASSUME Samples(Spoken) > UtteranceCount(LoggedRows) PROVE Excess(LoggedRows) > 0
    BY DEF Summary
  <2>1. /\ FirstChunks(Spoken) \subseteq FirstChunks(LoggedRows)
        /\ FirstChunks(LoggedRows) \subseteq DOMAIN log
    BY <1>1 DEF FirstChunks
  <2>2. RowCount(FirstChunks(Spoken)) <= RowCount(FirstChunks(LoggedRows))
    BY <2>1, FewerRows DEF RowCount, LogInv
  <2>3. RowCount(FirstChunks(LoggedRows)) \in Nat /\ UtteranceCount(LoggedRows) \in Nat
    BY <1>1, FirstsAndUtterances
  <2>4. RowCount(FirstChunks(LoggedRows)) > UtteranceCount(LoggedRows)
    BY <1>2, <2>2, <2>3
  <2> QED BY <1>1, <2>4, FirstsAndUtterances
<1>5. /\ Summary.delivered + Summary.cancelled + Summary.errored <= Summary.chunks
      /\ Summary.delivered <= Counts.delivered
  BY FatesApart DEF Summary, Counts
<1>6. ASSUME KeysOf(LoggedRows) = {}
      PROVE  Shared(Latency, OldLatency) /\ Shared(Counts, OldCounts) /\ Shared(Summary, OldSummary)
  <2>1. /\ UtteranceCount(Spoken) = RowCount(Spoken) /\ Samples(Spoken) = RowCount(Timed(Spoken))
        /\ UtteranceCount(LoggedRows) = RowCount(LoggedRows)
    BY <1>1, <1>6, OldLogs
  <2>2. Shared(Latency, OldLatency)
    BY <2>1 DEF Shared, Latency, OldLatency
  <2>3. Shared(Counts, OldCounts)
    BY <2>1 DEF Shared, Counts, OldCounts
  <2>4. Shared(Summary, OldSummary)
    BY <2>1 DEF Shared, Summary, OldSummary
  <2> QED BY <2>2, <2>3, <2>4
<1> QED BY <1>4, <1>5, <1>6, <1>7, <1>8 DEF ReportsAddUp

----------------------------------------------------------------------------
\* What the scripts print is what was measured: a benchmark is promoted only if it lost one
\* word in twenty at most, and the reports of a call agree with its log and with each other,
\* for any samples, words and rows, any cuts of the ranking and any number of languages
\* (benchmark_gate.py evaluate_promotion_gate; review_call.py summary_json, print_latency).
THEOREM EvaluationStaysHonest == ReplaySpec /\ LogSpec => []EvaluationIsHonest
<1>1. ReplayInv /\ LogInv => EvaluationIsHonest
  BY VerdictsAreEarned, ReportsAgree DEF EvaluationIsHonest
<1> QED BY <1>1, ReplayStarts, ReplaySteps, LogStarts, LogSteps, PTL DEF ReplaySpec, LogSpec

=============================================================================

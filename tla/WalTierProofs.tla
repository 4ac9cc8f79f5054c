---------------------------- MODULE WalTierProofs ---------------------------
(* What is proved about WalTier, for every set of handles and every bound:   *)
(* facts about the operators of WalImage, type correctness with the          *)
(* precondition of try_install on which it rests, the ETag chain without     *)
(* ABA, durability, and the append-only log that the callers see.            *)
EXTENDS WalTier, SequenceTheorems, TLAPS, FiniteSetTheorems

-----------------------------------------------------------------------------
(* Facts about the operators of WalImage, for every image.                   *)

\* first_lsn and next_lsn are LSNs: the sentinel -1 never shows.
LEMMA LsnTypes ==
  ASSUME NEW img \in Image
  PROVE  /\ img.snap \in SnapRef /\ img.entries \in Seq(Entry)
         /\ Len(img.entries) \in Nat
         /\ img.snap.lsn \in Int /\ img.snap.lsn >= -1
         /\ FirstLsn(img) \in Nat /\ NextLsn(img) \in Nat
         /\ NextLsn(img) = FirstLsn(img) + Len(img.entries)
<1>1. /\ img.snap \in SnapRef /\ img.entries \in Seq(Entry)
  BY DEF Image
<1>2. Len(img.entries) \in Nat
  BY <1>1, LenProperties
<1>3. img.snap.lsn \in Int /\ img.snap.lsn >= -1
  BY <1>1 DEF SnapRef, Key, NoSnap, Lsn
<1> QED
  BY <1>1, <1>2, <1>3 DEF FirstLsn, NextLsn

\* A suffix of a sequence, by length and elements.
LEMMA Suffix ==
  ASSUME NEW S, NEW e \in Seq(S), NEW m \in Nat
  PROVE  /\ SubSeq(e, m + 1, Len(e)) \in Seq(S)
         /\ m <= Len(e) => Len(SubSeq(e, m + 1, Len(e))) = Len(e) - m
         /\ \A i \in 1 .. Len(e) - m : SubSeq(e, m + 1, Len(e))[i] = e[m + i]
<1>1. Len(e) \in Nat /\ \A i \in m + 1 .. Len(e) : e[i] \in S
  BY LenProperties, ElementOfSeq
<1>2. /\ SubSeq(e, m + 1, Len(e)) \in Seq(S)
      /\ Len(SubSeq(e, m + 1, Len(e))) = IF m + 1 <= Len(e) THEN Len(e) - (m + 1) + 1 ELSE 0
      /\ \A i \in 1 .. Len(e) - (m + 1) + 1 :
           SubSeq(e, m + 1, Len(e))[i] = e[m + 1 + i - 1]
  BY <1>1, SubSeqProperties
<1> QED
  BY <1>1, <1>2

\* entries_from returns entries of the image; when the LSN lies inside the
\* image, exactly those from that LSN on.
LEMMA EntriesFromProperties ==
  ASSUME NEW img \in Image, NEW lsn \in Nat
  PROVE  /\ EntriesFrom(img, lsn) \in Seq(Entry)
         /\ FirstLsn(img) <= lsn /\ lsn <= NextLsn(img) =>
              /\ Len(EntriesFrom(img, lsn)) = NextLsn(img) - lsn
              /\ \A i \in 1 .. NextLsn(img) - lsn :
                   EntriesFrom(img, lsn)[i] = img.entries[lsn - FirstLsn(img) + i]
<1>1. /\ FirstLsn(img) \in Nat /\ img.entries \in Seq(Entry) /\ Len(img.entries) \in Nat
      /\ NextLsn(img) = FirstLsn(img) + Len(img.entries)
  BY LsnTypes
<1> DEFINE skip == IF lsn > FirstLsn(img) THEN lsn - FirstLsn(img) ELSE 0
<1>2. /\ skip \in Nat
      /\ FirstLsn(img) <= lsn => skip = lsn - FirstLsn(img)
      /\ EntriesFrom(img, lsn) = SubSeq(img.entries, skip + 1, Len(img.entries))
  BY <1>1 DEF EntriesFrom
<1> HIDE DEF skip
<1> DEFINE suf == SubSeq(img.entries, skip + 1, Len(img.entries))
<1>3. /\ suf \in Seq(Entry)
      /\ skip <= Len(img.entries) => Len(suf) = Len(img.entries) - skip
      /\ \A i \in 1 .. Len(img.entries) - skip : suf[i] = img.entries[skip + i]
  BY <1>1, <1>2, Suffix
<1> HIDE DEF suf
<1>4. ASSUME FirstLsn(img) <= lsn, lsn <= NextLsn(img)
      PROVE  /\ Len(suf) = NextLsn(img) - lsn
             /\ \A i \in 1 .. NextLsn(img) - lsn :
                  suf[i] = img.entries[lsn - FirstLsn(img) + i]
  <2>1. skip = lsn - FirstLsn(img) /\ Len(img.entries) - skip = NextLsn(img) - lsn
    BY <1>1, <1>2, <1>4
  <2>2. skip <= Len(img.entries)
    BY <1>1, <1>2, <1>4, <2>1
  <2> QED
    BY <1>3, <2>1, <2>2
<1>5. EntriesFrom(img, lsn) = suf
  BY <1>2 DEF suf
<1> QED
  BY <1>3, <1>4, <1>5, Zenon

\* The first entries of an image left by a fold that covers some of them.
LEMMA FoldSuffix ==
  ASSUME NEW img \in Image, NEW fold \in SnapRef, AppliesTo(fold, img)
  PROVE  /\ fold # NoSnap /\ fold \in Key
         /\ fold.lsn + 1 - FirstLsn(img) \in 1 .. Len(img.entries)
<1>1. fold.lsn \in Int
  BY DEF SnapRef, Key, NoSnap, Lsn
<1>2. fold # NoSnap
  BY LsnTypes DEF AppliesTo, NoSnap
<1> QED
  BY <1>1, <1>2, LsnTypes DEF AppliesTo, SnapRef

\* encode_view with or without a fold that applies: an image with the same
\* next LSN, one entry per LSN, plus the batch.
LEMMA EncodeViewProperties ==
  ASSUME NEW img \in Image, NEW fold \in SnapRef, NEW extra \in Seq(Entry),
         fold = NoSnap \/ AppliesTo(fold, img)
  PROVE  LET v == EncodeView(img, fold, extra)
         IN  /\ v \in Image
             /\ v.snap = IF fold = NoSnap THEN img.snap ELSE fold
             /\ FirstLsn(v) >= FirstLsn(img)
             /\ fold # NoSnap => FirstLsn(v) > FirstLsn(img)
             /\ FirstLsn(v) <= NextLsn(img)
             /\ NextLsn(v) = NextLsn(img) + Len(extra)
             /\ \A i \in 1 .. Len(v.entries) :
                  v.entries[i] = IF FirstLsn(v) + i <= NextLsn(img)
                                 THEN img.entries[FirstLsn(v) - FirstLsn(img) + i]
                                 ELSE extra[FirstLsn(v) + i - NextLsn(img)]
<1> DEFINE v == EncodeView(img, fold, extra)
<1>1. /\ FirstLsn(img) \in Nat /\ img.entries \in Seq(Entry) /\ Len(img.entries) \in Nat
      /\ NextLsn(img) = FirstLsn(img) + Len(img.entries) /\ img.snap \in SnapRef
      /\ FirstLsn(img) = img.snap.lsn + 1
  BY LsnTypes DEF FirstLsn
<1> DEFINE skip == IF fold = NoSnap THEN 0 ELSE fold.lsn + 1 - FirstLsn(img)
<1>2. /\ skip \in 0 .. Len(img.entries)
      /\ fold = NoSnap => skip = 0
      /\ fold # NoSnap => skip = fold.lsn + 1 - FirstLsn(img) /\ skip >= 1
      /\ v = [snap    |-> IF fold = NoSnap THEN img.snap ELSE fold,
              entries |-> SubSeq(img.entries, skip + 1, Len(img.entries)) \o extra]
  BY <1>1, FoldSuffix DEF EncodeView
<1> HIDE DEF skip, v
<1> DEFINE kept == SubSeq(img.entries, skip + 1, Len(img.entries))
<1>3. /\ kept \in Seq(Entry) /\ Len(kept) = Len(img.entries) - skip
      /\ \A i \in 1 .. Len(img.entries) - skip : kept[i] = img.entries[skip + i]
  BY <1>1, <1>2, Suffix
<1>4. /\ v.snap = IF fold = NoSnap THEN img.snap ELSE fold
      /\ v.entries = kept \o extra
  BY <1>2
<1> HIDE DEF kept
<1> DEFINE all == kept \o extra
<1>5. /\ all \in Seq(Entry) /\ Len(all) = Len(kept) + Len(extra)
      /\ Len(extra) \in Nat
      /\ \A i \in 1 .. Len(kept) + Len(extra) :
           /\ i <= Len(kept) => all[i] = kept[i]
           /\ ~(i <= Len(kept)) => all[i] = extra[i - Len(kept)]
  <2>1. /\ all \in Seq(Entry) /\ Len(all) = Len(kept) + Len(extra)
        /\ \A i \in 1 .. Len(kept) + Len(extra) :
             all[i] = IF i <= Len(kept) THEN kept[i] ELSE extra[i - Len(kept)]
    BY <1>3, ConcatProperties
  <2>2. Len(extra) \in Nat
    BY LenProperties
  <2> HIDE DEF all
  <2> QED BY <2>1, <2>2
<1> HIDE DEF all
<1>6. v \in Image /\ v.entries = all
  <2>1. v.entries = all
    BY <1>4 DEF all
  <2>2. v = [snap |-> IF fold = NoSnap THEN img.snap ELSE fold, entries |-> all]
    BY <1>2 DEF all, kept
  <2> QED BY <1>1, <1>5, <2>1, <2>2 DEF Image
<1>7. FirstLsn(v) = FirstLsn(img) + skip
  <2>1. CASE fold = NoSnap
    BY <1>1, <1>2, <1>4, <2>1 DEF FirstLsn
  <2>2. CASE fold # NoSnap
    <3>1. fold.lsn \in Int
      BY DEF SnapRef, Key, NoSnap, Lsn
    <3>2. FirstLsn(v) = fold.lsn + 1
      BY <1>4, <2>2 DEF FirstLsn
    <3> QED BY <1>1, <1>2, <2>2, <3>1, <3>2
  <2> QED BY <2>1, <2>2
<1>8. NextLsn(v) = NextLsn(img) + Len(extra)
  <2>1. Len(v.entries) = Len(img.entries) - skip + Len(extra)
    BY <1>3, <1>5, <1>6
  <2>2. NextLsn(v) = FirstLsn(v) + Len(v.entries)
    BY DEF NextLsn
  <2> QED BY <1>1, <1>2, <1>5, <1>7, <2>1, <2>2
<1>9. \A i \in 1 .. Len(v.entries) :
         v.entries[i] = IF FirstLsn(v) + i <= NextLsn(img)
                        THEN img.entries[FirstLsn(v) - FirstLsn(img) + i]
                        ELSE extra[FirstLsn(v) + i - NextLsn(img)]
  <2> SUFFICES ASSUME NEW i \in 1 .. Len(v.entries)
               PROVE  v.entries[i] = IF FirstLsn(v) + i <= NextLsn(img)
                        THEN img.entries[FirstLsn(v) - FirstLsn(img) + i]
                        ELSE extra[FirstLsn(v) + i - NextLsn(img)]
    OBVIOUS
  <2>0. /\ i \in 1 .. Len(kept) + Len(extra) /\ Len(kept) \in Nat /\ i \in Nat
        /\ skip \in Nat /\ Len(kept) = Len(img.entries) - skip
    BY <1>1, <1>2, <1>3, <1>5, <1>6
  <2>a. /\ FirstLsn(v) = FirstLsn(img) + skip
        /\ NextLsn(img) = FirstLsn(img) + Len(img.entries)
        /\ FirstLsn(img) \in Nat /\ Len(img.entries) \in Nat
        /\ FirstLsn(v) \in Int /\ NextLsn(img) \in Int
    BY <1>1, <1>2, <1>7
  <2>1. CASE i <= Len(kept)
    <3>1. v.entries[i] = kept[i]
      BY <1>5, <1>6, <2>0, <2>1
    <3>2. kept[i] = img.entries[skip + i]
      BY <1>1, <1>2, <1>3, <2>0, <2>1
    <3>3. skip + i = FirstLsn(v) - FirstLsn(img) + i /\ FirstLsn(v) + i <= NextLsn(img)
      BY <2>0, <2>a, <2>1
    <3> QED BY <3>1, <3>2, <3>3
  <2>2. CASE ~(i <= Len(kept))
    <3>1. v.entries[i] = extra[i - Len(kept)]
      BY <1>5, <1>6, <2>0, <2>2
    <3>a. NextLsn(img) = FirstLsn(v) + Len(kept)
      BY <2>0, <2>a
    <3>2. i - Len(kept) = FirstLsn(v) + i - NextLsn(img)
      <4>1. ASSUME NEW a \in Int, NEW k \in Int, NEW j \in Int, NEW n \in Int, n = a + k
            PROVE  j - k = a + j - n
        BY <4>1
      <4>2. Len(kept) \in Int /\ i \in Int
        BY <2>0
      <4> QED BY <2>a, <3>a, <4>1, <4>2, Zenon
    <3>3. ~(FirstLsn(v) + i <= NextLsn(img))
      BY <2>0, <2>a, <2>2
    <3> QED BY <3>1, <3>2, <3>3
  <2> QED BY <2>1, <2>2
<1>10. /\ FirstLsn(v) >= FirstLsn(img) /\ FirstLsn(v) <= NextLsn(img)
       /\ fold # NoSnap => FirstLsn(v) > FirstLsn(img)
  BY <1>1, <1>2, <1>7
<1>11. v.snap = IF fold = NoSnap THEN img.snap ELSE fold
  BY <1>4
<1>12. v \in Image
  BY <1>6
<1>13. /\ v \in Image
       /\ v.snap = IF fold = NoSnap THEN img.snap ELSE fold
       /\ FirstLsn(v) >= FirstLsn(img)
       /\ fold # NoSnap => FirstLsn(v) > FirstLsn(img)
       /\ FirstLsn(v) <= NextLsn(img)
       /\ NextLsn(v) = NextLsn(img) + Len(extra)
       /\ \A i \in 1 .. Len(v.entries) :
            v.entries[i] = IF FirstLsn(v) + i <= NextLsn(img)
                           THEN img.entries[FirstLsn(v) - FirstLsn(img) + i]
                           ELSE extra[FirstLsn(v) + i - NextLsn(img)]
  BY <1>8, <1>9, <1>10, <1>11, <1>12, Zenon
<1> QED
  BY <1>13, Zenon DEF v

\* The image that install_pending_fold and push_back leave behind is the one
\* that encode_view sent.
LEMMA InstallMatchesView ==
  ASSUME NEW img \in Image, NEW fold \in SnapRef, NEW extra \in Seq(Entry),
         AppliesTo(fold, img)
  PROVE  Pushed(Folded(img, fold), extra) = EncodeView(img, fold, extra)
<1>1. fold # NoSnap /\ fold.lsn \in Int /\ FirstLsn(img) \in Int
  BY FoldSuffix, LsnTypes DEF SnapRef, Key, NoSnap, Lsn
<1>2. fold.lsn - FirstLsn(img) + 2 = fold.lsn + 1 - FirstLsn(img) + 1
  BY <1>1
<1> DEFINE kept == SubSeq(img.entries, fold.lsn + 1 - FirstLsn(img) + 1, Len(img.entries))
<1>3. Folded(img, fold) = [snap |-> fold, entries |-> kept]
  BY <1>2, Zenon DEF Folded
<1>4. EncodeView(img, fold, extra) = [snap |-> fold, entries |-> kept \o extra]
  BY <1>1, Zenon DEF EncodeView
<1> HIDE DEF kept
<1>5. Folded(img, fold).snap = fold /\ Folded(img, fold).entries = kept
  BY <1>3
<1> QED
  BY <1>4, <1>5, Zenon DEF Pushed
-----------------------------------------------------------------------------
(* Slices by LSN                                                             *)

\* The entries of s with an LSN from a up to, not including, b.
Slice(s, a, b) == SubSeq(s, a + 1, b)

\* A slice by length and elements.
LEMMA SliceProperties ==
  ASSUME NEW s \in Seq(Entry), NEW a \in Nat, NEW b \in Nat, a <= b, b <= Len(s)
  PROVE  /\ Slice(s, a, b) \in Seq(Entry)
         /\ Len(Slice(s, a, b)) = b - a
         /\ \A i \in 1 .. b - a : Slice(s, a, b)[i] = s[a + i]
<1>1. Len(s) \in Nat /\ \A i \in a + 1 .. b : s[i] \in Entry
  BY LenProperties, ElementOfSeq
<1>2. /\ SubSeq(s, a + 1, b) \in Seq(Entry)
      /\ Len(SubSeq(s, a + 1, b)) = IF a + 1 <= b THEN b - (a + 1) + 1 ELSE 0
      /\ \A i \in 1 .. b - (a + 1) + 1 : SubSeq(s, a + 1, b)[i] = s[a + 1 + i - 1]
  BY <1>1, SubSeqProperties
<1> QED
  BY <1>1, <1>2 DEF Slice

\* The whole sequence, and nothing of it.
LEMMA SliceEnds ==
  ASSUME NEW s \in Seq(Entry)
  PROVE  /\ Slice(s, 0, Len(s)) = s
         /\ \A a \in Nat : Slice(s, a, a) = << >>
<1>1. SubSeq(s, 1, Len(s)) = s
  BY SubSeqFull
<1>2. \A a \in Nat : SubSeq(s, a + 1, a) = << >>
  BY SubSeqEmpty
<1> QED
  BY <1>1, <1>2 DEF Slice

\* Adjacent slices make one.
LEMMA SliceConcat ==
  ASSUME NEW s \in Seq(Entry), NEW a \in Nat, NEW b \in Nat, NEW c \in Nat,
         a <= b, b <= c, c <= Len(s)
  PROVE  Slice(s, a, b) \o Slice(s, b, c) = Slice(s, a, c)
<1>0. Len(s) \in Nat
  BY LenProperties
<1> DEFINE x == Slice(s, a, b)
           y == Slice(s, b, c)
           z == Slice(s, a, c)
<1>1. /\ x \in Seq(Entry) /\ Len(x) = b - a /\ \A i \in 1 .. b - a : x[i] = s[a + i]
      /\ y \in Seq(Entry) /\ Len(y) = c - b /\ \A i \in 1 .. c - b : y[i] = s[b + i]
      /\ z \in Seq(Entry) /\ Len(z) = c - a /\ \A i \in 1 .. c - a : z[i] = s[a + i]
  <2>1. b <= Len(s) /\ a <= c
    BY <1>0
  <2>2. x \in Seq(Entry) /\ Len(x) = b - a /\ \A i \in 1 .. b - a : x[i] = s[a + i]
    BY <2>1, SliceProperties
  <2>3. y \in Seq(Entry) /\ Len(y) = c - b /\ \A i \in 1 .. c - b : y[i] = s[b + i]
    BY SliceProperties
  <2>4. z \in Seq(Entry) /\ Len(z) = c - a /\ \A i \in 1 .. c - a : z[i] = s[a + i]
    BY <2>1, SliceProperties
  <2> QED BY <2>2, <2>3, <2>4
<1> HIDE DEF x, y, z
<1>2. /\ x \o y \in Seq(Entry) /\ Len(x \o y) = Len(x) + Len(y)
      /\ \A i \in 1 .. Len(x) + Len(y) : (x \o y)[i] = IF i <= Len(x) THEN x[i] ELSE y[i - Len(x)]
  BY <1>1, ConcatProperties
<1>3. Len(x \o y) = c - a
  BY <1>1, <1>2
<1>4. ASSUME NEW i \in 1 .. c - a PROVE (x \o y)[i] = z[i]
  <2>1. CASE i <= b - a
    BY <1>1, <1>2, <2>1
  <2>2. CASE ~(i <= b - a)
    <3>1. i - (b - a) \in 1 .. c - b /\ b + (i - (b - a)) = a + i
      BY <2>2
    <3>2. (x \o y)[i] = y[i - (b - a)]
      BY <1>1, <1>2, <2>2
    <3> QED BY <1>1, <3>1, <3>2
  <2> QED BY <2>1, <2>2
<1>5. x \o y = z
  BY <1>1, <1>2, <1>3, <1>4, SeqEqual
<1> QED
  BY <1>5 DEF x, y, z

\* A slice of a slice.
LEMMA SliceOfSlice ==
  ASSUME NEW s \in Seq(Entry), NEW a \in Nat, NEW b \in Nat, NEW m \in Nat, NEW n \in Nat,
         a <= b, b <= Len(s), m <= n, n <= b - a
  PROVE  Slice(Slice(s, a, b), m, n) = Slice(s, a + m, a + n)
<1>0. Len(s) \in Nat
  BY LenProperties
<1> DEFINE x == Slice(s, a, b)
           y == Slice(x, m, n)
           z == Slice(s, a + m, a + n)
<1>1. x \in Seq(Entry) /\ Len(x) = b - a /\ \A i \in 1 .. b - a : x[i] = s[a + i]
  BY <1>0, SliceProperties
<1>2. /\ z \in Seq(Entry) /\ Len(z) = n - m
      /\ \A i \in 1 .. n - m : z[i] = s[a + m + i]
  <2>1. a + m \in Nat /\ a + n \in Nat /\ a + m <= a + n /\ a + n <= Len(s)
        /\ (a + n) - (a + m) = n - m
    BY <1>0
  <2> HIDE DEF z
  <2>2. /\ z \in Seq(Entry) /\ Len(z) = (a + n) - (a + m)
        /\ \A i \in 1 .. (a + n) - (a + m) : z[i] = s[a + m + i]
    BY <2>1, SliceProperties DEF z
  <2> QED BY <2>1, <2>2
<1> HIDE DEF x, z
<1>3. y \in Seq(Entry) /\ Len(y) = n - m /\ \A i \in 1 .. n - m : y[i] = x[m + i]
  BY <1>1, SliceProperties
<1> HIDE DEF y
<1>4. ASSUME NEW i \in 1 .. n - m PROVE y[i] = z[i]
  <2>1. m + i \in 1 .. b - a /\ a + (m + i) = a + m + i
    OBVIOUS
  <2> QED BY <1>1, <1>2, <1>3, <2>1
<1>5. y = z
  BY <1>2, <1>3, <1>4, SeqEqual
<1> QED
  BY <1>5 DEF x, y, z

\* What is appended leaves the earlier slices alone, and is the last one.
LEMMA SliceGrow ==
  ASSUME NEW s \in Seq(Entry), NEW e \in Seq(Entry)
  PROVE  /\ s \o e \in Seq(Entry) /\ Len(s \o e) = Len(s) + Len(e)
         /\ Len(s) \in Nat /\ Len(e) \in Nat
         /\ \A a, b \in Nat : a <= b /\ b <= Len(s) => Slice(s \o e, a, b) = Slice(s, a, b)
         /\ Slice(s \o e, Len(s), Len(s) + Len(e)) = e
<1>1. Len(s) \in Nat /\ Len(e) \in Nat
  BY LenProperties
<1> DEFINE t == s \o e
<1>2. /\ t \in Seq(Entry) /\ Len(t) = Len(s) + Len(e)
      /\ \A i \in 1 .. Len(s) + Len(e) : t[i] = IF i <= Len(s) THEN s[i] ELSE e[i - Len(s)]
  BY ConcatProperties
<1> HIDE DEF t
<1>3. ASSUME NEW a \in Nat, NEW b \in Nat, a <= b, b <= Len(s)
      PROVE  Slice(t, a, b) = Slice(s, a, b)
  <2>1. /\ Slice(s, a, b) \in Seq(Entry) /\ Len(Slice(s, a, b)) = b - a
        /\ \A i \in 1 .. b - a : Slice(s, a, b)[i] = s[a + i]
    BY <1>3, SliceProperties
  <2>2. b <= Len(t)
    BY <1>1, <1>2, <1>3
  <2>3. /\ Slice(t, a, b) \in Seq(Entry) /\ Len(Slice(t, a, b)) = b - a
        /\ \A i \in 1 .. b - a : Slice(t, a, b)[i] = t[a + i]
    BY <1>2, <1>3, <2>2, SliceProperties
  <2>4. \A i \in 1 .. b - a : t[a + i] = s[a + i]
    BY <1>1, <1>2, <1>3
  <2>5. \A i \in 1 .. b - a : Slice(t, a, b)[i] = Slice(s, a, b)[i]
    BY <2>1, <2>3, <2>4
  <2> QED BY <2>1, <2>3, <2>5, SeqEqual
<1>4. Slice(t, Len(s), Len(s) + Len(e)) = e
  <2> DEFINE l == Len(s)
             n == Len(s) + Len(e)
             z == Slice(t, l, n)
  <2>1. l \in Nat /\ n \in Nat /\ l <= n /\ n <= Len(t) /\ n - l = Len(e)
    BY <1>1, <1>2
  <2>2. z \in Seq(Entry) /\ Len(z) = Len(e) /\ \A i \in 1 .. Len(e) : z[i] = t[l + i]
    <3> HIDE DEF l, n
    <3>1. z \in Seq(Entry) /\ Len(z) = n - l /\ \A i \in 1 .. n - l : z[i] = t[l + i]
      BY <1>2, <2>1, SliceProperties
    <3> QED BY <2>1, <3>1
  <2>3. \A i \in 1 .. Len(e) : t[l + i] = e[i]
    <3> SUFFICES ASSUME NEW i \in 1 .. Len(e) PROVE t[l + i] = e[i]
      OBVIOUS
    <3>1. l + i \in 1 .. Len(s) + Len(e) /\ ~(l + i <= Len(s)) /\ (l + i) - Len(s) = i
      BY <1>1
    <3> QED BY <1>2, <3>1
  <2> HIDE DEF z
  <2>4. z = e
    BY <2>2, <2>3, SeqEqual
  <2> QED BY <2>4 DEF z
<1> QED
  BY <1>1, <1>2, <1>3, <1>4 DEF t
-----------------------------------------------------------------------------
(* Type correctness of WalTier for every set of handles and every bound, and *)
(* the precondition of try_install on which it rests.                        *)

\* A ready fold covers live entries of its handle's image at all times: each
\* method that changes the image or takes over a compaction re-checks it.
ReadyApplies ==
  \A h \in Handles : comp[h].st = "ready" => AppliesTo(comp[h].fold, image[h])

\* A snapshot is only fetched for an image that was read.
GotKnown ==
  \A h \in Handles : pc[h] \in {"openSnap", "snap"} => call[h].got # None

\* A handle that is being opened has no compaction.
Opening == {"down", "openGet", "openPut", "openSnap"}

OpeningIdle ==
  \A h \in Handles : pc[h] \in Opening => comp[h].st # "ready"

HandleInv == HandleTypeOK /\ ReadyApplies /\ GotKnown /\ OpeningIdle

TypeInv == StoreTypeOK /\ JobTypeOK /\ HandleInv /\ OtherTypeOK
-----------------------------------------------------------------------------
(* The operators                                                             *)

LEMMA NoneIsNoImage == None \notin Image
  BY NoneAssumption

LEMMA ConstantTypes ==
  /\ EmptyImage \in Image /\ NoSnap \in SnapRef
  /\ NoFold \in Comps /\ NoGarbage \in Garbage /\ NoJob \in Jobs /\ NoCall \in Calls
<1>1. << >> \in Seq(Entry) /\ << >> \in Seq(Key)
  BY EmptySeq
<1> QED
  BY <1>1 DEF EmptyImage, Image, SnapRef, NoFold, Comps, NoGarbage, Garbage, NoJob, Jobs,
              NoCall, Calls, Ops

LEMMA RangeType ==
  ASSUME NEW S, NEW s \in Seq(S)
  PROVE  Range(s) \subseteq S
<1>1. DOMAIN s = 1 .. Len(s)
  BY LenProperties
<1> QED
  BY <1>1, ElementOfSeq DEF Range

LEMMA BatchType ==
  ASSUME submitted \in Nat, NEW n \in Nat
  PROVE  Batch(n) \in Seq(Entry) /\ (n # 0 => Batch(n) # << >>)
<1>1. Batch(n) \in [1 .. n -> Entry]
  BY DEF Batch, Entry
<1> QED
  BY <1>1, SeqDef

LEMMA QueueType ==
  ASSUME NEW g \in Garbage, NEW key \in SnapRef
  PROVE  QueueObsolete(g, key) \in Garbage
<1>1. g.queue \in Seq(Key) /\ g.overflowed \in Nat
  BY DEF Garbage
<1>2. CASE key = NoSnap \/ key \in Range(g.queue)
  BY <1>2, Zenon DEF QueueObsolete
<1>3. CASE ~(key = NoSnap \/ key \in Range(g.queue)) /\ Len(g.queue) = MaxPendingDeletes
  <2>1. QueueObsolete(g, key) = [g EXCEPT !.overflowed = g.overflowed + 1]
    BY <1>3 DEF QueueObsolete
  <2> QED BY <1>1, <2>1 DEF Garbage
<1>4. CASE ~(key = NoSnap \/ key \in Range(g.queue)) /\ Len(g.queue) # MaxPendingDeletes
  <2>1. QueueObsolete(g, key) = [g EXCEPT !.queue = Append(g.queue, key)]
    BY <1>4 DEF QueueObsolete
  <2>2. Append(g.queue, key) \in Seq(Key)
    BY <1>1, <1>4, AppendProperties DEF SnapRef
  <2> HIDE DEF Garbage
  <2>3. ASSUME NEW q \in Seq(Key) PROVE [g EXCEPT !.queue = q] \in Garbage
    BY DEF Garbage
  <2> QED BY <2>1, <2>2, <2>3, Zenon
<1> QED
  BY <1>2, <1>3, <1>4

\* discard_superseded_fold leaves a fold only if it applies.
LEMMA DiscardType ==
  ASSUME NEW c \in Comps, NEW img \in Image
  PROVE  /\ DiscardSuperseded(c, img) \in Comps
         /\ DiscardedKey(c, img) \in SnapRef
         /\ LET d == DiscardSuperseded(c, img) IN d.st = "ready" => AppliesTo(d.fold, img)
<1>1. c.fold \in SnapRef /\ NoSnap \in SnapRef
  BY DEF Comps, SnapRef
<1>2. CASE c.st # "ready" \/ AppliesTo(c.fold, img)
  BY <1>1, <1>2 DEF DiscardSuperseded, DiscardedKey
<1>3. CASE ~(c.st # "ready" \/ AppliesTo(c.fold, img))
  BY <1>1, <1>3 DEF DiscardSuperseded, DiscardedKey, Comps
<1> QED
  BY <1>2, <1>3

LEMMA IntegratedType ==
  ASSUME NEW c \in Comps
  PROVE  Integrated(c) \in Comps
BY DEF Integrated, Comps, SnapRef

LEMMA SyncType ==
  ASSUME HandleInv, NEW w \in Handles
  PROVE  /\ Synced(w) \in Comps /\ SyncedGarbage(w) \in Garbage
         /\ Synced(w).st = "ready" => AppliesTo(Synced(w).fold, image[w])
<1>1. comp[w] \in Comps /\ garbage[w] \in Garbage /\ image[w] \in Image
  BY DEF HandleInv, HandleTypeOK
<1>2. Integrated(comp[w]) \in Comps
  BY <1>1, IntegratedType
<1> QED
  BY <1>1, <1>2, DiscardType, QueueType DEF Synced, SyncedGarbage

LEMMA CandidateType ==
  ASSUME HandleInv, NEW w \in Handles, NEW c \in Comps, NEW extra \in Seq(Entry),
         c.st = "ready" => AppliesTo(c.fold, image[w])
  PROVE  Candidate(w, c, extra) \in Image
<1>1. image[w] \in Image /\ ReadyFold(c) \in SnapRef
  BY DEF HandleInv, HandleTypeOK, ReadyFold, Comps, SnapRef
<1>2. ReadyFold(c) = NoSnap \/ AppliesTo(ReadyFold(c), image[w])
  BY DEF ReadyFold
<1> QED
  BY <1>1, <1>2, EncodeViewProperties DEF Candidate

LEMMA RequestType ==
  ASSUME HandleInv, NEW w \in Handles
  PROVE  Request(w) \in Requests
<1>1. /\ comp[w] \in Comps /\ call[w].batch \in Seq(Entry) /\ etag[w] \in Image \cup {None}
      /\ comp[w].st = "ready" => AppliesTo(comp[w].fold, image[w])
  BY DEF HandleInv, HandleTypeOK, Calls, ReadyApplies
<1>2. Candidate(w, comp[w], call[w].batch) \in Image
  BY <1>1, CandidateType
<1> QED
  BY <1>1, <1>2 DEF Request, Requests
-----------------------------------------------------------------------------
(* The parts that the actions share.  Each lemma says that the handles keep  *)
(* their types and facts when one of them makes that move.                   *)

\* A move that leaves the compaction and the image alone.
LEMMA ControlMove ==
  ASSUME HandleInv, NEW h \in Handles,
         NEW p \in Pcs, NEW c \in Calls, p \in {"openSnap", "snap"} => c.got # None,
         p \in Opening => comp[h].st # "ready",
         pc' = [pc EXCEPT ![h] = p], call' = [call EXCEPT ![h] = c],
         UNCHANGED <<coreVars, writerVars>>
  PROVE  HandleInv'
<1>1. HandleTypeOK'
  BY DEF HandleInv, HandleTypeOK, coreVars, writerVars
<1>2. ReadyApplies'
  BY DEF HandleInv, ReadyApplies, coreVars, writerVars
<1>3. GotKnown'
  BY DEF HandleInv, HandleTypeOK, GotKnown
<1>4. OpeningIdle'
  BY DEF HandleInv, HandleTypeOK, OpeningIdle, writerVars
<1> QED
  BY <1>1, <1>2, <1>3, <1>4 DEF HandleInv

\* A move that sets everything of one handle.
LEMMA FullMove ==
  ASSUME HandleInv, NEW h \in Handles,
         NEW p \in Pcs, NEW c \in Calls, p \in {"openSnap", "snap"} => c.got # None,
         NEW img \in Image, NEW tag \in Image \cup {None}, NEW st \in Seq(Entry),
         NEW k \in Comps, NEW g \in Garbage, p \in Opening => k.st # "ready",
         k.st = "ready" => AppliesTo(k.fold, img),
         pc' = [pc EXCEPT ![h] = p], call' = [call EXCEPT ![h] = c],
         image' = [image EXCEPT ![h] = img], etag' = [etag EXCEPT ![h] = tag],
         state' = [state EXCEPT ![h] = st], comp' = [comp EXCEPT ![h] = k],
         garbage' = [garbage EXCEPT ![h] = g]
  PROVE  HandleInv'
<1>1. HandleTypeOK'
  BY DEF HandleInv, HandleTypeOK
<1>2. ReadyApplies'
  BY DEF HandleInv, HandleTypeOK, ReadyApplies
<1>3. GotKnown'
  BY DEF HandleInv, HandleTypeOK, GotKnown
<1>4. OpeningIdle'
  BY DEF HandleInv, HandleTypeOK, OpeningIdle, writerVars
<1> QED
  BY <1>1, <1>2, <1>3, <1>4 DEF HandleInv

\* A move that sets the control and the compaction of one handle.
LEMMA MaintenanceMove ==
  ASSUME HandleInv, NEW h \in Handles,
         NEW p \in Pcs, NEW c \in Calls, p \in {"openSnap", "snap"} => c.got # None,
         NEW k \in Comps, NEW g \in Garbage, p \in Opening => k.st # "ready",
         k.st = "ready" => AppliesTo(k.fold, image[h]),
         pc' = [pc EXCEPT ![h] = p], call' = [call EXCEPT ![h] = c],
         comp' = [comp EXCEPT ![h] = k], garbage' = [garbage EXCEPT ![h] = g],
         UNCHANGED coreVars
  PROVE  HandleInv'
<1>1. HandleTypeOK'
  BY DEF HandleInv, HandleTypeOK, coreVars
<1>2. ReadyApplies'
  BY DEF HandleInv, HandleTypeOK, ReadyApplies, coreVars
<1>3. GotKnown'
  BY DEF HandleInv, HandleTypeOK, GotKnown
<1>4. OpeningIdle'
  BY DEF HandleInv, HandleTypeOK, OpeningIdle, writerVars
<1> QED
  BY <1>1, <1>2, <1>3, <1>4 DEF HandleInv

LEMMA ForgetType ==
  ASSUME HandleInv, NEW h \in Handles, Forget(h)
  PROVE  HandleInv' /\ lossy' \in BOOLEAN
<1>1. "down" \in Pcs /\ NoFold.st # "ready"/\ << >> \in Seq(Entry)
  BY EmptySeq DEF Pcs, NoFold
<1>2. HandleInv'
  <2>1. /\ pc' = [pc EXCEPT ![h] = "down"] /\ call' = [call EXCEPT ![h] = NoCall]
        /\ image' = [image EXCEPT ![h] = EmptyImage] /\ etag' = [etag EXCEPT ![h] = None]
        /\ state' = [state EXCEPT ![h] = << >>] /\ comp' = [comp EXCEPT ![h] = NoFold]
        /\ garbage' = [garbage EXCEPT ![h] = NoGarbage]
    BY DEF Forget
  <2> QED BY <1>1, <2>1, ConstantTypes, FullMove
<1> QED
  BY <1>2 DEF Forget

LEMMA ReturnType ==
  ASSUME HandleInv, lossy \in BOOLEAN, NEW h \in Handles, Return(h)
  PROVE  HandleInv' /\ lossy' \in BOOLEAN
<1>1. CASE call[h].op \in {"open", "close"}
  BY <1>1, ForgetType DEF Return
<1>2. CASE call[h].op \notin {"open", "close"}
  <2>1. "idle" \in Pcs \ Opening
    BY DEF Pcs, Opening
  <2>2. /\ pc' = [pc EXCEPT ![h] = "idle"] /\ call' = [call EXCEPT ![h] = NoCall]
        /\ UNCHANGED <<coreVars, writerVars>> /\ lossy' = lossy
    BY <1>2 DEF Return
  <2> QED BY <2>1, <2>2, ConstantTypes, ControlMove
<1> QED
  BY <1>1, <1>2

LEMMA ReturnNotAppliedType ==
  ASSUME HandleInv, OtherTypeOK, NEW h \in Handles, ReturnNotApplied(h)
  PROVE  HandleInv' /\ lossy' \in BOOLEAN /\ denied' \subseteq Entry
<1>1. call[h].batch \in Seq(Entry)
  BY DEF HandleInv, HandleTypeOK, Calls
<1>2. denied' \subseteq Entry
  BY <1>1, RangeType DEF ReturnNotApplied, OtherTypeOK
<1> QED
  BY <1>2, ReturnType DEF ReturnNotApplied, OtherTypeOK

LEMMA MissingType ==
  ASSUME HandleInv, OtherTypeOK, NEW h \in Handles, NEW again \in {"openGet", "get"},
         again = "openGet" => comp[h].st # "ready", MissingSnapshot(h, again)
  PROVE  HandleInv' /\ lossy' \in BOOLEAN /\ denied' \subseteq Entry /\ corrupt' \in BOOLEAN
<1> DEFINE c == call[h]
           next == [c EXCEPT !.races = @ + 1, !.missing = c.got, !.got = None]
<1>1. c \in Calls /\ again \in Pcs /\ (again \in Opening => comp[h].st # "ready")
  BY DEF HandleInv, HandleTypeOK, Pcs, Opening
<1>2. next \in Calls
  <2>1. c.races + 1 \in Nat /\ c.got \in Image \cup {None}
    BY <1>1 DEF Calls
  <2>2. ASSUME NEW n \in Nat, NEW m \in Image \cup {None}
        PROVE  [c EXCEPT !.races = n, !.missing = m, !.got = None] \in Calls
    BY <1>1 DEF Calls
  <2>3. next = [c EXCEPT !.races = c.races + 1, !.missing = c.got, !.got = None]
    BY Zenon
  <2> QED BY <2>1, <2>2, <2>3, Zenon
<1>3. corrupt' \in BOOLEAN
  BY DEF MissingSnapshot
<1>4. CASE c.missing = c.got \/ c.races + 1 = MaxRaces
  <2>1. ReturnNotApplied(h)
    BY <1>4 DEF MissingSnapshot
  <2> QED BY <1>3, <2>1, ReturnNotAppliedType
<1>5. CASE ~(c.missing = c.got \/ c.races + 1 = MaxRaces)
  <2>1. /\ pc' = [pc EXCEPT ![h] = again] /\ call' = [call EXCEPT ![h] = next]
        /\ UNCHANGED <<coreVars, writerVars, denied, lossy>>
    BY <1>5 DEF MissingSnapshot
  <2> HIDE DEF next
  <2>2. HandleInv'
    BY <1>1, <1>2, <2>1, ControlMove
  <2> QED BY <1>3, <2>1, <2>2 DEF OtherTypeOK
<1> QED
  BY <1>4, <1>5

LEMMA OpenedType ==
  ASSUME HandleInv, OtherTypeOK, NEW h \in Handles, NEW img \in Image,
         NEW tag \in Image \cup {None}, NEW st \in Seq(Entry),
         comp[h].st # "ready", Opened(h, img, tag, st)
  PROVE  HandleInv' /\ lossy' \in BOOLEAN /\ denied' \subseteq Entry
<1>1. "idle" \in Pcs \ Opening /\ comp[h] \in Comps /\ garbage[h] \in Garbage
  BY DEF Pcs, Opening, HandleInv, HandleTypeOK
<1>2. comp' = [comp EXCEPT ![h] = comp[h]] /\ garbage' = [garbage EXCEPT ![h] = garbage[h]]
  BY DEF Opened, writerVars, HandleInv, HandleTypeOK
<1>3. /\ pc' = [pc EXCEPT ![h] = "idle"] /\ call' = [call EXCEPT ![h] = NoCall]
      /\ image' = [image EXCEPT ![h] = img] /\ etag' = [etag EXCEPT ![h] = tag]
      /\ state' = [state EXCEPT ![h] = st]
  BY DEF Opened
<1>4. HandleInv'
  BY <1>1, <1>2, <1>3, ConstantTypes, FullMove
<1> QED
  BY <1>4 DEF Opened, OtherTypeOK

\* PUTs that fail count against the bound.
LEMMA FaultType ==
  ASSUME OtherTypeOK, Fault \/ NoFault
  PROVE  faults' \in Nat
BY DEF OtherTypeOK, Fault, NoFault

\* What refresh's caller goes on with.
LEMMA ProceedType ==
  ASSUME HandleInv, NEW h \in Handles, Proceed(h)
  PROVE  \E p \in Pcs \ (Opening \cup {"snap"}), c \in Calls :
           pc' = [pc EXCEPT ![h] = p] /\ call' = [call EXCEPT ![h] = c]
<1> DEFINE c    == call[h]
           kept == [NoCall EXCEPT !.op = c.op, !.attempt = c.attempt, !.batch = c.batch]
           p    == CASE c.op = "refresh"             -> "idle"
                     [] c.op \in {"flush", "close"}  -> "flush"
                     [] OTHER                        -> "reconcile"
           next == IF c.op = "refresh" THEN NoCall ELSE kept
<1>1. c \in Calls
  BY DEF HandleInv, HandleTypeOK
<1>2. c.op \in Ops /\ c.attempt \in Nat /\ c.batch \in Seq(Entry)
  BY <1>1 DEF Calls
<1>3. ASSUME NEW op \in Ops, NEW n \in Nat, NEW b \in Seq(Entry)
      PROVE  [NoCall EXCEPT !.op = op, !.attempt = n, !.batch = b] \in Calls
  BY ConstantTypes DEF Calls
<1>4. kept \in Calls
  BY <1>2, <1>3
<1>5. next \in Calls
  <2> HIDE DEF kept
  <2> QED BY <1>4, ConstantTypes
<1>6. p \in Pcs \ (Opening \cup {"snap"})
  BY DEF Pcs, Opening
<1>7. pc' = [pc EXCEPT ![h] = p] /\ call' = [call EXCEPT ![h] = next]
  BY Zenon DEF Proceed
<1> HIDE DEF p, next
<1> QED
  BY <1>5, <1>6, <1>7

\* A newer image is taken over: its fold is checked against it.
LEMMA AdoptType ==
  ASSUME HandleInv, OtherTypeOK, NEW h \in Handles, NEW img \in Image, NEW st \in Seq(Entry),
         Adopt(h, img, st)
  PROVE  HandleInv' /\ lossy' \in BOOLEAN /\ denied' \subseteq Entry
<1> DEFINE k == DiscardSuperseded(comp[h], img)
           g == QueueObsolete(QueueObsolete(garbage[h], DiscardedKey(comp[h], img)),
                              SupersededKey(h, img))
<1>1. comp[h] \in Comps /\ garbage[h] \in Garbage /\ image[h].snap \in SnapRef
  BY DEF HandleInv, HandleTypeOK, Image
<1>2. k \in Comps /\ (k.st = "ready" => AppliesTo(k.fold, img))
      /\ DiscardedKey(comp[h], img) \in SnapRef
  BY <1>1, DiscardType
<1>3. SupersededKey(h, img) \in SnapRef
  BY <1>1 DEF SupersededKey, SnapRef
<1>4. g \in Garbage
  BY <1>1, <1>2, <1>3, QueueType
<1>5. PICK p \in Pcs \ (Opening \cup {"snap"}), c \in Calls :
        pc' = [pc EXCEPT ![h] = p] /\ call' = [call EXCEPT ![h] = c]
  BY ProceedType DEF Adopt
<1>6. /\ image' = [image EXCEPT ![h] = img] /\ etag' = [etag EXCEPT ![h] = img]
      /\ state' = [state EXCEPT ![h] = st] /\ comp' = [comp EXCEPT ![h] = k]
      /\ garbage' = [garbage EXCEPT ![h] = g]
  BY Zenon DEF Adopt
<1>7. p \notin {"openSnap", "snap"} /\ p \notin Opening
  BY <1>5 DEF Opening
<1> HIDE DEF k, g
<1>8. HandleInv'
  BY <1>2, <1>4, <1>5, <1>6, <1>7, FullMove
<1> QED
  BY <1>8 DEF Adopt, OtherTypeOK

\* One round of append.
LEMMA TryInstallType ==
  ASSUME OtherTypeOK, NEW w \in Handles, NEW op \in Ops, NEW k, NEW batch \in Seq(Entry),
         NEW n \in Nat, NEW lost \in SUBSET Entry, TryInstall(w, op, k, batch, n, lost)
  PROVE  /\ denied' \subseteq Entry
         /\ \E p \in {"idle", "cas"}, c \in Calls :
              pc' = [pc EXCEPT ![w] = p] /\ call' = [call EXCEPT ![w] = c]
<1> DEFINE full == Len(Candidate(w, k, batch).entries) > MaxLive
           stop == batch = << >> \/ full
           p    == IF stop THEN "idle" ELSE "cas"
           next == [NoCall EXCEPT !.op = op, !.attempt = n, !.batch = batch]
           c    == IF stop THEN NoCall ELSE next
<1>1. denied' \subseteq Entry
  BY RangeType DEF TryInstall, OtherTypeOK
<1>2. next \in Calls
  BY ConstantTypes DEF Calls
<1>3. pc' = [pc EXCEPT ![w] = p] /\ call' = [call EXCEPT ![w] = c]
  BY Zenon DEF TryInstall
<1> HIDE DEF next, stop
<1>4. p \in {"idle", "cas"} /\ c \in Calls
  BY <1>2, ConstantTypes
<1> HIDE DEF p, c
<1> QED
  BY <1>1, <1>3, <1>4

\* A compaction of a non-empty image.
LEMMA SpawnType ==
  ASSUME JobTypeOK, OtherTypeOK, NEW w \in Handles, NEW img \in Image, img.entries # << >>,
         SpawnCompaction(w, img)
  PROVE  /\ JobTypeOK' /\ faults' \in Nat
         /\ \E k \in Comps : k.st # "ready" /\ comp' = [comp EXCEPT ![w] = k]
<1> DEFINE lsn == NextLsn(img) - 1
<1>1. lsn \in Nat /\ img.snap \in SnapRef /\ img.entries \in Seq(Entry)
  <2>1. Len(img.entries) # 0
    BY LsnTypes, EmptySeq
  <2> QED BY <2>1, LsnTypes
<1> HIDE DEF lsn
<1>2. CASE /\ Fault /\ UNCHANGED jobVars
           /\ comp' = [comp EXCEPT ![w] = [st |-> "failed", fold |-> NoSnap]]
  <2>1. JobTypeOK'
    BY <1>2 DEF JobTypeOK, jobVars
  <2>2. [st |-> "failed", fold |-> NoSnap] \in Comps
    BY DEF Comps, SnapRef
  <2> QED BY <1>2, <2>1, <2>2, FaultType
<1>3. CASE ~(/\ Fault /\ UNCHANGED jobVars
             /\ comp' = [comp EXCEPT ![w] = [st |-> "failed", fold |-> NoSnap]])
  <2> DEFINE job == [NoJob EXCEPT !.st   = IF img.snap = NoSnap THEN "publish" ELSE "fetch",
                                  !.lsn  = lsn, !.base = img.snap, !.body = img.entries]
             k == [st |-> "running", fold |-> [lsn |-> lsn, id |-> spawned + 1]]
  <2>1. /\ spawned < MaxJobs /\ NoFault /\ spawned' = spawned + 1
        /\ jobs' = [jobs EXCEPT ![spawned + 1] = job]
        /\ comp' = [comp EXCEPT ![w] = k]
    BY <1>3, Zenon DEF SpawnCompaction, lsn
  <2>2. job \in Jobs
    <3>1. ASSUME NEW st \in {"publish", "fetch"}
          PROVE [NoJob EXCEPT !.st = st, !.lsn = lsn, !.base = img.snap, !.body = img.entries]
                  \in Jobs
      BY <1>1, ConstantTypes DEF Jobs
    <3> QED BY <3>1
  <2>3. spawned \in Nat
    BY BoundsAssumption DEF JobTypeOK
  <2>4. k \in Comps /\ k.st # "ready"
    BY <1>1, <2>3 DEF Comps, SnapRef, Key, Lsn
  <2> HIDE DEF job, k
  <2>5. JobTypeOK'
    BY <2>1, <2>2, BoundsAssumption DEF JobTypeOK, JobIds
  <2> QED BY <2>1, <2>4, <2>5, FaultType
<1> QED
  BY <1>2, <1>3

\* A snapshot object disappears.
LEMMA DeleteType ==
  ASSUME StoreTypeOK, NEW key, DeleteSnapshot(key)
  PROVE  /\ DOMAIN snaps' \subseteq Key
         /\ \A k \in DOMAIN snaps' : snaps'[k] \in Seq(Entry)
BY DEF StoreTypeOK, DeleteSnapshot, Restrict

\* A PUT that wins.
LEMMA PutType ==
  ASSUME OtherTypeOK, NEW expect, NEW data \in Image, PutIfMatch(expect, data)
  PROVE  wal' \in Image /\ history' \in Seq(Entry)
<1>1. history \in Seq(Entry) /\ Len(history) \in Nat
  BY LenProperties DEF OtherTypeOK
<1>2. EntriesFrom(data, Len(history)) \in Seq(Entry)
  BY <1>1, EntriesFromProperties
<1> QED
  BY <1>1, <1>2, ConcatProperties DEF PutIfMatch

LEMMA AcceptedType ==
  ASSUME HandleInv, OtherTypeOK, NEW w \in Handles, Accepted(w)
  PROVE  /\ wal' \in Image /\ history' \in Seq(Entry)
         /\ \E img \in Image, tag \in Image, st \in Seq(Entry), g \in Garbage :
              /\ image' = [image EXCEPT ![w] = img] /\ etag' = [etag EXCEPT ![w] = tag]
              /\ state' = [state EXCEPT ![w] = st] /\ garbage' = [garbage EXCEPT ![w] = g]
<1> DEFINE batch == call[w].batch
           fold  == ReadyFold(comp[w])
           base  == IF fold = NoSnap THEN image[w] ELSE Folded(image[w], fold)
           old   == IF fold # NoSnap /\ image[w].snap # fold THEN image[w].snap ELSE NoSnap
           tag   == Candidate(w, comp[w], batch)
<1>1. /\ comp[w] \in Comps /\ garbage[w] \in Garbage /\ image[w] \in Image
      /\ image[w].snap \in SnapRef /\ image[w].entries \in Seq(Entry) /\ batch \in Seq(Entry)
      /\ state[w] \in Seq(Entry)
  BY DEF HandleInv, HandleTypeOK, Image, Calls
<1>2. comp[w].st = "ready" => AppliesTo(comp[w].fold, image[w])
  BY DEF HandleInv, ReadyApplies
<1>3. tag \in Image
  BY <1>1, <1>2, CandidateType
<1>4. fold \in SnapRef /\ (fold = NoSnap \/ AppliesTo(fold, image[w]))
  BY <1>1, <1>2 DEF ReadyFold, Comps, SnapRef
<1>5. Pushed(base, batch) \in Image
  <2>1. CASE fold = NoSnap
    <3>1. image[w].entries \o batch \in Seq(Entry)
      BY <1>1, ConcatProperties
    <3>2. Pushed(base, batch) = [snap |-> image[w].snap, entries |-> image[w].entries \o batch]
      BY <2>1, Zenon DEF Pushed
    <3>3. ASSUME NEW r \in SnapRef, NEW q \in Seq(Entry)
          PROVE  [snap |-> r, entries |-> q] \in Image
      BY DEF Image
    <3> QED BY <1>1, <3>1, <3>2, <3>3, Zenon
  <2>2. CASE fold # NoSnap
    <3>1. Pushed(base, batch) = EncodeView(image[w], fold, batch)
      BY <1>1, <1>4, <2>2, InstallMatchesView
    <3> QED BY <1>1, <1>4, <3>1, EncodeViewProperties
  <2> QED BY <2>1, <2>2
<1>6. state[w] \o batch \in Seq(Entry)
  BY <1>1, ConcatProperties
<1>7. QueueObsolete(garbage[w], old) \in Garbage
  <2>1. old \in SnapRef
    BY <1>1, ConstantTypes
  <2> QED BY <1>1, <2>1, QueueType
<1>8. /\ PutIfMatch(etag[w], tag)
      /\ etag' = [etag EXCEPT ![w] = tag]
      /\ image' = [image EXCEPT ![w] = Pushed(base, batch)]
      /\ state' = [state EXCEPT ![w] = state[w] \o batch]
      /\ garbage' = [garbage EXCEPT ![w] = QueueObsolete(garbage[w], old)]
  BY Zenon DEF Accepted
<1>9. wal' \in Image /\ history' \in Seq(Entry)
  BY <1>3, <1>8, PutType
<1> HIDE DEF tag, base, old, batch
<1> QED
  BY <1>3, <1>5, <1>6, <1>7, <1>8, <1>9
-----------------------------------------------------------------------------
(* The actions                                                               *)

\* Steps of Core::open and Core::refresh that only read the store.
LEMMA ReadSteps ==
  ASSUME TypeInv, NEW h \in Handles,
         OpenGet(h) \/ OpenSnap(h) \/ RefreshGet(h) \/ RefreshSnap(h)
  PROVE  TypeInv'
<1>1. HandleInv /\ OtherTypeOK /\ StoreTypeOK /\ JobTypeOK
  BY DEF TypeInv
<1>2. UNCHANGED <<storeVars, jobVars, envVars, history, acked>>
  BY DEF OpenGet, OpenSnap, RefreshGet, RefreshSnap
<1>3. StoreTypeOK' /\ JobTypeOK'
  BY <1>1, <1>2 DEF StoreTypeOK, JobTypeOK, storeVars, jobVars
<1>4. Fault \/ NoFault
  BY DEF OpenGet, OpenSnap, RefreshGet, RefreshSnap
<1>5. call[h] \in Calls /\ state[h] \in Seq(Entry) /\ image[h] \in Image /\ corrupt \in BOOLEAN
  BY <1>1 DEF HandleInv, HandleTypeOK, OtherTypeOK
<1>6. wal # None => wal \in Image /\ wal.entries \in Seq(Entry) /\ wal.snap \in SnapRef
  BY <1>1 DEF StoreTypeOK, Image
<1>7. ASSUME NEW got \in Image
      PROVE  [call[h] EXCEPT !.got = got] \in Calls /\ [call[h] EXCEPT !.got = got].got # None
  BY <1>5, NoneIsNoImage DEF Calls
<1>8. pc[h] \in {"openSnap", "snap"} => call[h].got \in Image
  BY <1>1, <1>5 DEF HandleInv, GotKnown, Calls
<1> DEFINE Done == /\ HandleInv' /\ lossy' \in BOOLEAN /\ denied' \subseteq Entry
                   /\ corrupt' \in BOOLEAN
<1>9. ASSUME OpenGet(h) PROVE Done
  <2>1. corrupt' = corrupt /\ pc[h] \in Opening /\ comp[h].st # "ready"
    BY <1>1, <1>9 DEF OpenGet, Opening, HandleInv, OpeningIdle
  <2>2. CASE ReturnNotApplied(h)
    BY <1>1, <1>5, <2>1, <2>2, ReturnNotAppliedType
  <2>3. CASE Opened(h, EmptyImage, None, << >>)
    <3>1. << >> \in Seq(Entry)
      BY EmptySeq
    <3> QED BY <1>1, <1>5, <2>1, <2>3, <3>1, OpenedType, ConstantTypes
  <2>4. CASE /\ pc' = [pc EXCEPT ![h] = "openPut"]
             /\ UNCHANGED <<call, coreVars, writerVars, denied, lossy>>
    <3>1. "openPut" \in Pcs /\ call' = [call EXCEPT ![h] = call[h]]
      BY <1>1, <2>4 DEF Pcs, HandleInv, HandleTypeOK
    <3>2. HandleInv'
      BY <1>1, <1>5, <2>1, <2>4, <3>1, ControlMove
    <3> QED BY <1>1, <1>5, <2>1, <2>4, <3>2 DEF OtherTypeOK
  <2>5. CASE wal # None /\ Opened(h, wal, wal, wal.entries)
    BY <1>1, <1>5, <1>6, <2>1, <2>5, OpenedType
  <2>6. CASE /\ wal # None /\ pc' = [pc EXCEPT ![h] = "openSnap"]
             /\ call' = [call EXCEPT ![h].got = wal]
             /\ UNCHANGED <<coreVars, writerVars, denied, lossy>>
    <3>1. "openSnap" \in Pcs /\ call' = [call EXCEPT ![h] = [call[h] EXCEPT !.got = wal]]
      BY <2>6 DEF Pcs
    <3>2. HandleInv'
      BY <1>1, <1>6, <1>7, <2>1, <2>6, <3>1, ControlMove
    <3> QED BY <1>1, <1>5, <2>1, <2>6, <3>2 DEF OtherTypeOK
  <2> QED BY <1>9, <2>2, <2>3, <2>4, <2>5, <2>6 DEF OpenGet
<1>10. ASSUME OpenSnap(h) PROVE Done
  <2>1. comp[h].st # "ready" /\ call[h].got \in Image
    BY <1>1, <1>8, <1>10 DEF OpenSnap, Opening, HandleInv, OpeningIdle
  <2> DEFINE got == call[h].got
             st  == snaps[got.snap] \o EntriesFrom(got, FirstLsn(got))
  <2>2. CASE ReturnNotApplied(h) /\ UNCHANGED corrupt
    BY <1>1, <1>5, <2>2, ReturnNotAppliedType
  <2>3. CASE got.snap \in DOMAIN snaps /\ Opened(h, got, got, st) /\ UNCHANGED corrupt
    <3>1. snaps[got.snap] \in Seq(Entry) /\ EntriesFrom(got, FirstLsn(got)) \in Seq(Entry)
      BY <1>1, <2>1, <2>3, LsnTypes, EntriesFromProperties DEF StoreTypeOK
    <3>2. st \in Seq(Entry)
      BY <3>1, ConcatProperties
    <3> HIDE DEF st, got
    <3> QED BY <1>1, <1>5, <2>1, <2>3, <3>2, OpenedType DEF got
  <2>4. CASE MissingSnapshot(h, "openGet")
    BY <1>1, <2>1, <2>4, MissingType
  <2> QED BY <1>10, <2>2, <2>3, <2>4 DEF OpenSnap
<1>11. ASSUME RefreshGet(h) PROVE Done
  <2>1. corrupt' = corrupt
    BY <1>11 DEF RefreshGet
  <2>2. CASE ReturnNotApplied(h)
    BY <1>1, <1>5, <2>1, <2>2, ReturnNotAppliedType
  <2>3. CASE Proceed(h) /\ UNCHANGED <<coreVars, writerVars, denied, lossy>>
    <3>1. PICK p \in Pcs \ (Opening \cup {"snap"}), c \in Calls :
            pc' = [pc EXCEPT ![h] = p] /\ call' = [call EXCEPT ![h] = c]
      BY <1>1, <2>3, ProceedType
    <3>2. p \notin {"openSnap", "snap"} /\ p \notin Opening
      BY <3>1 DEF Opening
    <3>3. HandleInv'
      BY <1>1, <2>3, <3>1, <3>2, ControlMove
    <3> QED BY <1>1, <1>5, <2>1, <2>3, <3>3 DEF OtherTypeOK
  <2> DEFINE st == state[h] \o EntriesFrom(wal, NextLsn(image[h]))
  <2>4. CASE wal # None /\ Adopt(h, wal, st)
    <3>1. EntriesFrom(wal, NextLsn(image[h])) \in Seq(Entry)
      BY <1>5, <1>6, <2>4, LsnTypes, EntriesFromProperties
    <3>2. st \in Seq(Entry)
      BY <1>5, <3>1, ConcatProperties
    <3> HIDE DEF st
    <3> QED BY <1>1, <1>5, <1>6, <2>1, <2>4, <3>2, AdoptType
  <2>5. CASE /\ wal # None /\ pc' = [pc EXCEPT ![h] = "snap"]
             /\ call' = [call EXCEPT ![h].got = wal]
             /\ UNCHANGED <<coreVars, writerVars, denied, lossy>>
    <3>1. "snap" \in Pcs \ Opening /\ call' = [call EXCEPT ![h] = [call[h] EXCEPT !.got = wal]]
      BY <2>5 DEF Pcs, Opening
    <3>2. HandleInv'
      BY <1>1, <1>6, <1>7, <2>1, <2>5, <3>1, ControlMove
    <3> QED BY <1>1, <1>5, <2>1, <2>5, <3>2 DEF OtherTypeOK
  <2> QED BY <1>11, <2>2, <2>3, <2>4, <2>5 DEF RefreshGet
<1>12. ASSUME RefreshSnap(h) PROVE Done
  <2>1. call[h].got \in Image
    BY <1>8, <1>12 DEF RefreshSnap
  <2> DEFINE got == call[h].got
             st  == snaps[got.snap] \o EntriesFrom(got, got.snap.lsn + 1)
  <2>2. CASE ReturnNotApplied(h) /\ UNCHANGED corrupt
    BY <1>1, <1>5, <2>2, ReturnNotAppliedType
  <2>3. CASE got.snap \in DOMAIN snaps /\ Adopt(h, got, st) /\ UNCHANGED corrupt
    <3>1. snaps[got.snap] \in Seq(Entry)
      BY <1>1, <2>1, <2>3 DEF StoreTypeOK
    <3>2. got.snap.lsn + 1 \in Nat
      BY <2>1, LsnTypes DEF FirstLsn
    <3>3. EntriesFrom(got, got.snap.lsn + 1) \in Seq(Entry)
      BY <2>1, <3>2, EntriesFromProperties
    <3>4. st \in Seq(Entry)
      BY <3>1, <3>3, ConcatProperties
    <3> HIDE DEF st, got
    <3> QED BY <1>1, <1>5, <2>1, <2>3, <3>4, AdoptType DEF got
  <2>4. CASE MissingSnapshot(h, "get")
    BY <1>1, <2>1, <2>4, MissingType
  <2> QED BY <1>12, <2>2, <2>3, <2>4 DEF RefreshSnap
<1>13. Done
  BY <1>9, <1>10, <1>11, <1>12
<1> QED
  BY <1>1, <1>2, <1>3, <1>4, <1>13, FaultType DEF TypeInv, OtherTypeOK, envVars

\* The create-only PUT of Core::open.
LEMMA OpenPutStep ==
  ASSUME TypeInv, NEW w \in Handles, OpenPut(w)
  PROVE  TypeInv'
<1>1. HandleInv /\ OtherTypeOK /\ StoreTypeOK /\ JobTypeOK
  BY DEF TypeInv
<1>2. UNCHANGED <<snaps, doomed, jobVars, envVars, acked, corrupt>> /\ (Fault \/ NoFault)
  BY DEF OpenPut
<1>3. comp[w].st # "ready" /\ call[w] \in Calls /\ << >> \in Seq(Entry)
  BY <1>1, EmptySeq DEF OpenPut, HandleInv, HandleTypeOK, OpeningIdle, Opening
<1>4. [expect |-> None, data |-> EmptyImage] \in Requests
  BY ConstantTypes DEF Requests
<1> DEFINE Done == /\ HandleInv' /\ lossy' \in BOOLEAN /\ denied' \subseteq Entry
                   /\ wal' \in Image \cup {None} /\ history' \in Seq(Entry)
                   /\ inflight' \subseteq Requests
<1>5. Done
  <2>1. CASE /\ PutIfMatch(None, EmptyImage)
             /\ Opened(w, EmptyImage, EmptyImage, << >>) /\ UNCHANGED inflight
    BY <1>1, <1>3, <2>1, ConstantTypes, OpenedType, PutType DEF StoreTypeOK
  <2>2. CASE ReturnNotApplied(w) /\ UNCHANGED <<wal, history, inflight>>
    BY <1>1, <2>2, ReturnNotAppliedType DEF StoreTypeOK, OtherTypeOK
  <2>3. CASE /\ pc' = [pc EXCEPT ![w] = "openGet"]
             /\ call' = [call EXCEPT ![w].races = @ + 1]
             /\ UNCHANGED <<coreVars, writerVars, denied, lossy>>
             /\ UNCHANGED <<wal, history, inflight>>
    <3>1. "openGet" \in Pcs
      BY DEF Pcs
    <3>2. [call[w] EXCEPT !.races = call[w].races + 1] \in Calls
      BY <1>3 DEF Calls
    <3>3. call' = [call EXCEPT ![w] = [call[w] EXCEPT !.races = call[w].races + 1]]
      BY <2>3
    <3>4. HandleInv'
      BY <1>1, <1>3, <2>3, <3>1, <3>2, <3>3, ControlMove
    <3> QED BY <1>1, <2>3, <3>4 DEF StoreTypeOK, OtherTypeOK
  <2>4. CASE /\ ReturnNotApplied(w) /\ UNCHANGED <<wal, history>>
             /\ inflight' = inflight \cup {[expect |-> None, data |-> EmptyImage]}
    BY <1>1, <1>4, <2>4, ReturnNotAppliedType DEF StoreTypeOK, OtherTypeOK
  <2> QED BY <2>1, <2>2, <2>3, <2>4 DEF OpenPut
<1>6. StoreTypeOK' /\ JobTypeOK'
  BY <1>1, <1>2, <1>5 DEF StoreTypeOK, JobTypeOK, jobVars
<1> QED
  BY <1>1, <1>2, <1>5, <1>6, FaultType DEF TypeInv, OtherTypeOK, envVars

\* Methods that begin, and the ones that only look after the compaction.
LEMMA LocalSteps ==
  ASSUME TypeInv, NEW h \in Handles,
         \/ Refresh(h) \/ StartMaintenance(h) \/ WaitForCompaction(h)
         \/ CompactionStatus(h) \/ TakeCompactionError(h)
  PROVE  TypeInv'
<1>1. HandleInv /\ OtherTypeOK /\ StoreTypeOK /\ JobTypeOK
  BY DEF TypeInv
<1>2. UNCHANGED <<storeVars, jobVars, coreVars, envVars, obsVars, faults>>
  BY DEF Refresh, StartMaintenance, WaitForCompaction, CompactionStatus, TakeCompactionError,
         NoFault
<1>3. StoreTypeOK' /\ JobTypeOK' /\ OtherTypeOK'
  BY <1>1, <1>2 DEF StoreTypeOK, JobTypeOK, OtherTypeOK, storeVars, jobVars, envVars, obsVars
<1>4. /\ call[h] \in Calls /\ comp[h] \in Comps /\ garbage[h] \in Garbage
      /\ pc \in [Handles -> Pcs] /\ call \in [Handles -> Calls]
      /\ comp \in [Handles -> Comps] /\ garbage \in [Handles -> Garbage]
  BY <1>1 DEF HandleInv, HandleTypeOK
<1>5. /\ Synced(h) \in Comps /\ SyncedGarbage(h) \in Garbage
      /\ Synced(h).st = "ready" => AppliesTo(Synced(h).fold, image[h])
  BY <1>1, SyncType
<1>6. ASSUME NEW op \in Ops PROVE [call[h] EXCEPT !.op = op] \in Calls
  BY <1>4 DEF Calls
<1>7. {"get", "gc", "wait", "idle", "flush"} \subseteq Pcs \ (Opening \cup {"snap"})
  BY DEF Pcs, Opening
<1>8. ASSUME Refresh(h) PROVE HandleInv'
  <2>1. call' = [call EXCEPT ![h] = [call[h] EXCEPT !.op = "refresh"]] /\ "refresh" \in Ops
    BY <1>8 DEF Refresh, Ops
  <2>2. /\ pc' = [pc EXCEPT ![h] = "get"] /\ comp' = [comp EXCEPT ![h] = Synced(h)]
        /\ garbage' = [garbage EXCEPT ![h] = SyncedGarbage(h)]
    BY <1>8 DEF Refresh, SyncCompaction
  <2> QED BY <1>1, <1>2, <1>5, <1>6, <1>7, <2>1, <2>2, MaintenanceMove
<1>9. ASSUME StartMaintenance(h) PROVE HandleInv'
  <2>1. PICK op \in {"wait", "flush", "close", "gc"} :
          /\ pc' = [pc EXCEPT ![h] = IF op = "gc" THEN "gc" ELSE "wait"]
          /\ call' = [call EXCEPT ![h].op = op]
    BY <1>9 DEF StartMaintenance
  <2>2. call' = [call EXCEPT ![h] = [call[h] EXCEPT !.op = op]] /\ op \in Ops
    BY <2>1 DEF Ops
  <2>3. PICK p \in {"gc", "wait"} : pc' = [pc EXCEPT ![h] = p]
    BY <2>1
  <2>4. UNCHANGED <<coreVars, writerVars>>
    BY <1>9 DEF StartMaintenance
  <2> QED BY <1>1, <1>6, <1>7, <2>2, <2>3, <2>4, ControlMove
<1>10. ASSUME WaitForCompaction(h) PROVE HandleInv'
  <2>1. /\ pc' = [pc EXCEPT ![h] = IF call[h].op = "wait" THEN "idle" ELSE "flush"]
        /\ call' = [call EXCEPT ![h] = IF call[h].op = "wait" THEN NoCall ELSE call[h]]
        /\ comp' = [comp EXCEPT ![h] = Synced(h)]
        /\ garbage' = [garbage EXCEPT ![h] = SyncedGarbage(h)]
    BY <1>10 DEF WaitForCompaction, SyncCompaction
  <2>2. PICK p \in {"idle", "flush"} : pc' = [pc EXCEPT ![h] = p]
    BY <2>1
  <2>3. PICK c \in Calls : call' = [call EXCEPT ![h] = c]
    BY <1>4, <2>1, ConstantTypes
  <2> QED BY <1>1, <1>2, <1>5, <1>7, <2>1, <2>2, <2>3, MaintenanceMove
<1>11. ASSUME CompactionStatus(h) \/ TakeCompactionError(h) PROVE HandleInv'
  <2>1. /\ pc' = [pc EXCEPT ![h] = "idle"] /\ call' = [call EXCEPT ![h] = call[h]]
    BY <1>4, <1>11 DEF CompactionStatus, TakeCompactionError
  <2>2. CASE CompactionStatus(h)
    BY <1>1, <1>2, <1>4, <1>5, <1>7, <2>1, <2>2, MaintenanceMove
       DEF CompactionStatus, SyncCompaction
  <2>3. CASE TakeCompactionError(h)
    <3>1. /\ comp' = [comp EXCEPT ![h] = NoFold]
          /\ garbage' = [garbage EXCEPT ![h] = garbage[h]]
      BY <1>4, <2>3 DEF TakeCompactionError
    <3>2. NoFold.st # "ready"
      BY DEF NoFold
    <3> QED BY <1>1, <1>2, <1>4, <1>7, <2>1, <3>1, <3>2, ConstantTypes, MaintenanceMove
  <2> QED BY <1>11, <2>2, <2>3
<1>12. HandleInv'
  BY <1>8, <1>9, <1>10, <1>11
<1> QED
  BY <1>3, <1>12 DEF TypeInv

\* The rounds of append that prepare a PUT.
LEMMA RoundSteps ==
  ASSUME TypeInv, NEW w \in Handles, Write(w) \/ Reconcile(w)
  PROVE  TypeInv'
<1>1. HandleInv /\ OtherTypeOK /\ StoreTypeOK /\ JobTypeOK /\ submitted \in Nat
  BY DEF TypeInv, OtherTypeOK
<1>2. UNCHANGED <<storeVars, jobVars, drops, history, acked, corrupt, faults>>
  BY DEF Write, Reconcile, NoFault
<1>3. StoreTypeOK' /\ JobTypeOK'
  BY <1>1, <1>2 DEF StoreTypeOK, JobTypeOK, storeVars, jobVars
<1>4. ASSUME NEW n \in 0 .. MaxBatch
      PROVE  Batch(n) \in Seq(Entry) /\ Range(Batch(n)) \subseteq Entry
  <2>1. n \in Nat
    BY BoundsAssumption
  <2>2. Batch(n) \in Seq(Entry)
    BY <1>1, <2>1, BatchType
  <2> QED BY <2>2, RangeType
<1>5. ASSUME NEW n \in 0 .. MaxBatch, Submit(n)
      PROVE  submitted' \in Nat
  BY <1>1, <1>5, BoundsAssumption DEF Submit
<1>6. {"idle", "cas"} \subseteq Pcs \ (Opening \cup {"snap"})
  BY DEF Pcs, Opening
<1> DEFINE Done == /\ HandleInv' /\ lossy' \in BOOLEAN /\ denied' \subseteq Entry
                   /\ submitted' \in Nat
<1>7. ASSUME Write(w) PROVE Done
  <2>1. PICK n \in 0 .. MaxBatch, op \in {"write", "write_batch"} :
          Submit(n) /\ TryInstall(w, op, Synced(w), Batch(n), 1, {})
    BY <1>7 DEF Write
  <2>2. /\ comp' = [comp EXCEPT ![w] = Synced(w)]
        /\ garbage' = [garbage EXCEPT ![w] = SyncedGarbage(w)]
        /\ UNCHANGED coreVars /\ lossy' = lossy
    BY <1>7 DEF Write, SyncCompaction
  <2>3. op \in Ops /\ Batch(n) \in Seq(Entry) /\ 1 \in Nat /\ {} \in SUBSET Entry
    BY <1>4 DEF Ops
  <2>4. /\ denied' \subseteq Entry
        /\ \E p \in {"idle", "cas"}, c \in Calls :
             pc' = [pc EXCEPT ![w] = p] /\ call' = [call EXCEPT ![w] = c]
    <3> HIDE DEF Done
    <3>1. TryInstall(w, op, Synced(w), Batch(n), 1, {})
      BY <2>1
    <3> QED BY <1>1, <2>3, <3>1, TryInstallType
  <2>5. PICK p \in {"idle", "cas"}, c \in Calls :
          pc' = [pc EXCEPT ![w] = p] /\ call' = [call EXCEPT ![w] = c]
    BY <2>4
  <2>6. HandleInv'
    BY <1>1, <1>6, <2>2, <2>5, SyncType, MaintenanceMove
  <2> QED BY <1>1, <1>5, <2>1, <2>2, <2>4, <2>6 DEF OtherTypeOK
<1>8. ASSUME Reconcile(w) PROVE Done
  <2> DEFINE c == call[w]
  <2>1. /\ c \in Calls /\ c.batch \in Seq(Entry) /\ c.attempt + 1 \in Nat /\ c.op \in Ops
        /\ Range(c.batch) \subseteq Entry
    <3>1. c \in Calls
      BY <1>1 DEF HandleInv, HandleTypeOK
    <3>2. c.batch \in Seq(Entry) /\ c.attempt + 1 \in Nat /\ c.op \in Ops
      BY <3>1 DEF Calls
    <3> QED BY <3>1, <3>2, RangeType
  <2>2. ASSUME NEW b \in Seq(Entry), NEW lost \in SUBSET Entry,
               TryInstall(w, c.op, comp[w], b, c.attempt + 1, lost),
               UNCHANGED <<coreVars, writerVars, lossy>>
        PROVE  HandleInv' /\ denied' \subseteq Entry /\ lossy' \in BOOLEAN
    <3>1. /\ denied' \subseteq Entry
          /\ \E p \in {"idle", "cas"}, k \in Calls :
               pc' = [pc EXCEPT ![w] = p] /\ call' = [call EXCEPT ![w] = k]
      BY <1>1, <2>1, <2>2, TryInstallType
    <3>2. PICK p \in {"idle", "cas"}, k \in Calls :
            pc' = [pc EXCEPT ![w] = p] /\ call' = [call EXCEPT ![w] = k]
      BY <3>1
    <3>3. HandleInv'
      BY <1>1, <1>6, <2>2, <3>2, ControlMove
    <3> QED BY <1>1, <2>2, <3>1, <3>3 DEF OtherTypeOK
  <2>3. CASE ReturnNotApplied(w) /\ UNCHANGED submitted
    BY <1>1, <2>3, ReturnNotAppliedType DEF OtherTypeOK
  <2>4. CASE /\ TryInstall(w, c.op, comp[w], c.batch, c.attempt + 1, {})
             /\ UNCHANGED <<submitted, coreVars, writerVars, lossy>>
    BY <1>1, <2>1, <2>2, <2>4
  <2>5. ASSUME NEW n \in 0 .. MaxBatch, Submit(n),
               /\ denied' = denied \cup Range(c.batch) \cup Range(Batch(n))
               /\ Return(w)
        PROVE  Done
    <3>1. HandleInv' /\ lossy' \in BOOLEAN
      BY <1>1, <2>5, ReturnType DEF OtherTypeOK
    <3> QED BY <1>1, <1>4, <1>5, <2>1, <2>5, <3>1 DEF OtherTypeOK
  <2>6. ASSUME NEW n \in 0 .. MaxBatch, Submit(n),
               TryInstall(w, c.op, comp[w], Batch(n), c.attempt + 1, Range(c.batch)),
               UNCHANGED <<coreVars, writerVars, lossy>>
        PROVE  Done
    BY <1>4, <1>5, <2>1, <2>2, <2>6
  <2> QED BY <1>8, <2>3, <2>4, <2>5, <2>6 DEF Reconcile
<1>9. Done
  BY <1>7, <1>8
<1> QED
  BY <1>1, <1>2, <1>3, <1>9 DEF TypeInv, OtherTypeOK

\* The outcomes of the PUT.
LEMMA PutSteps ==
  ASSUME TypeInv, NEW w \in Handles,
         \/ AppendAccepted(w) \/ FlushAccepted(w)
         \/ PutRejected(w) \/ PutFailed(w) \/ PutUnknown(w)
  PROVE  TypeInv'
<1>1. HandleInv /\ OtherTypeOK /\ StoreTypeOK /\ JobTypeOK
  BY DEF TypeInv
<1>2. /\ call[w] \in Calls /\ comp[w] \in Comps /\ image[w] \in Image
      /\ call[w].batch \in Seq(Entry)
      /\ image \in [Handles -> Image] /\ call \in [Handles -> Calls]
  BY <1>1 DEF HandleInv, HandleTypeOK, Calls
<1>3. {"get", "idle", "flush"} \subseteq Pcs \ (Opening \cup {"snap"})
  BY DEF Pcs, Opening
<1>4. Installed(comp[w]) \in Comps /\ Installed(comp[w]).st # "ready"
  BY <1>2 DEF Installed, Comps, SnapRef
<1>5. ASSUME AppendAccepted(w) PROVE TypeInv'
  <2>1. /\ wal' \in Image /\ history' \in Seq(Entry)
        /\ \E img \in Image, tag \in Image, st \in Seq(Entry), g \in Garbage :
             /\ image' = [image EXCEPT ![w] = img] /\ etag' = [etag EXCEPT ![w] = tag]
             /\ state' = [state EXCEPT ![w] = st] /\ garbage' = [garbage EXCEPT ![w] = g]
    BY <1>1, <1>5, AcceptedType DEF AppendAccepted
  <2>2. PICK img \in Image, tag \in Image, st \in Seq(Entry), g \in Garbage :
             /\ image' = [image EXCEPT ![w] = img] /\ etag' = [etag EXCEPT ![w] = tag]
             /\ state' = [state EXCEPT ![w] = st] /\ garbage' = [garbage EXCEPT ![w] = g]
    BY <2>1
  <2>3. image'[w] = img
    BY <1>2, <2>2
  <2>4. /\ JobTypeOK' /\ faults' \in Nat
        /\ \E k \in Comps : k.st # "ready" /\ comp' = [comp EXCEPT ![w] = k]
    <3>1. CASE /\ comp' = [comp EXCEPT ![w] = Installed(@)] /\ NoFault /\ UNCHANGED jobVars
      <4>1. JobTypeOK'
        BY <1>1, <3>1 DEF JobTypeOK, jobVars
      <4> QED BY <1>1, <1>4, <3>1, <4>1, FaultType
    <3>2. CASE image'[w].entries # << >> /\ SpawnCompaction(w, image'[w])
      BY <1>1, <2>3, <3>2, SpawnType
    <3> QED BY <1>5, <3>1, <3>2 DEF AppendAccepted, MayCompact
  <2>5. PICK k \in Comps : k.st # "ready" /\ comp' = [comp EXCEPT ![w] = k]
    BY <2>4
  <2>6. pc' = [pc EXCEPT ![w] = "idle"] /\ call' = [call EXCEPT ![w] = NoCall]
    BY <1>5 DEF AppendAccepted
  <2>7. HandleInv'
    BY <1>1, <1>3, <2>2, <2>5, <2>6, ConstantTypes, FullMove
  <2>8. UNCHANGED <<snaps, inflight, doomed, envVars, denied, corrupt, lossy>>
    BY <1>5 DEF AppendAccepted
  <2>9. acked' \subseteq Nat \X Entry
    <3>1. ASSUME NEW i \in DOMAIN call[w].batch
          PROVE  <<NextLsn(image[w]) + i - 1, call[w].batch[i]>> \in Nat \X Entry
      <4>1. i \in 1 .. Len(call[w].batch) /\ Len(call[w].batch) \in Nat
        BY <1>2, LenProperties
      <4>2. call[w].batch[i] \in Entry
        BY <1>2, <4>1, ElementOfSeq
      <4>3. NextLsn(image[w]) \in Nat
        BY <1>2, LsnTypes
      <4>4. NextLsn(image[w]) + i - 1 \in Nat
        BY <4>1, <4>3
      <4> QED BY <4>2, <4>4
    <3>2. acked \subseteq Nat \X Entry
      BY <1>1 DEF OtherTypeOK
    <3>3. acked' = acked \cup {<<NextLsn(image[w]) + i - 1, call[w].batch[i]>> :
                               i \in DOMAIN call[w].batch}
      BY <1>5 DEF AppendAccepted
    <3> QED BY <3>1, <3>2, <3>3
  <2>10. StoreTypeOK'
    BY <1>1, <2>1, <2>8 DEF StoreTypeOK
  <2>11. OtherTypeOK'
    BY <1>1, <2>1, <2>4, <2>8, <2>9 DEF OtherTypeOK, envVars
  <2> QED BY <2>4, <2>7, <2>10, <2>11 DEF TypeInv
<1>6. ASSUME FlushAccepted(w) PROVE TypeInv'
  <2>1. /\ wal' \in Image /\ history' \in Seq(Entry)
        /\ \E img \in Image, tag \in Image, st \in Seq(Entry), g \in Garbage :
             /\ image' = [image EXCEPT ![w] = img] /\ etag' = [etag EXCEPT ![w] = tag]
             /\ state' = [state EXCEPT ![w] = st] /\ garbage' = [garbage EXCEPT ![w] = g]
    BY <1>1, <1>6, AcceptedType DEF FlushAccepted
  <2>2. PICK img \in Image, tag \in Image, st \in Seq(Entry), g \in Garbage :
             /\ image' = [image EXCEPT ![w] = img] /\ etag' = [etag EXCEPT ![w] = tag]
             /\ state' = [state EXCEPT ![w] = st] /\ garbage' = [garbage EXCEPT ![w] = g]
    BY <2>1
  <2>3. /\ pc' = [pc EXCEPT ![w] = "flush"] /\ call' = [call EXCEPT ![w] = call[w]]
        /\ comp' = [comp EXCEPT ![w] = Installed(comp[w])]
        /\ UNCHANGED <<snaps, inflight, doomed, jobVars, envVars, acked, denied, corrupt, lossy>>
        /\ UNCHANGED faults
    BY <1>2, <1>6 DEF FlushAccepted, NoFault
  <2>4. HandleInv'
    BY <1>1, <1>2, <1>3, <1>4, <2>2, <2>3, FullMove
  <2>5. StoreTypeOK' /\ JobTypeOK'
    BY <1>1, <2>1, <2>3 DEF StoreTypeOK, JobTypeOK, jobVars
  <2>6. OtherTypeOK'
    BY <1>1, <2>1, <2>3 DEF OtherTypeOK, envVars
  <2> QED BY <2>4, <2>5, <2>6 DEF TypeInv
<1>7. ASSUME PutRejected(w) PROVE TypeInv'
  <2>1. /\ pc' = [pc EXCEPT ![w] = "get"] /\ call' = [call EXCEPT ![w] = call[w]]
        /\ UNCHANGED <<storeVars, jobVars, coreVars, writerVars, envVars, obsVars>>
        /\ Fault \/ NoFault
    BY <1>2, <1>7 DEF PutRejected
  <2>2. HandleInv'
    BY <1>1, <1>2, <1>3, <2>1, ControlMove
  <2>3. StoreTypeOK' /\ JobTypeOK'
    BY <1>1, <2>1 DEF StoreTypeOK, JobTypeOK, storeVars, jobVars
  <2>4. OtherTypeOK'
    BY <1>1, <2>1, FaultType DEF OtherTypeOK, envVars, obsVars
  <2> QED BY <2>2, <2>3, <2>4 DEF TypeInv
<1>8. ASSUME PutFailed(w) PROVE TypeInv'
  <2>1. HandleInv' /\ lossy' \in BOOLEAN /\ denied' \subseteq Entry
    BY <1>1, <1>8, ReturnNotAppliedType DEF PutFailed
  <2>2. UNCHANGED <<storeVars, jobVars, envVars, history, acked, corrupt>> /\ Fault
    BY <1>8 DEF PutFailed
  <2>3. StoreTypeOK' /\ JobTypeOK'
    BY <1>1, <2>2 DEF StoreTypeOK, JobTypeOK, storeVars, jobVars
  <2>4. OtherTypeOK'
    BY <1>1, <2>1, <2>2, FaultType DEF OtherTypeOK, envVars
  <2> QED BY <2>1, <2>3, <2>4 DEF TypeInv
<1>9. ASSUME PutUnknown(w) PROVE TypeInv'
  <2>1. HandleInv' /\ lossy' \in BOOLEAN
    BY <1>1, <1>9, ReturnType DEF PutUnknown, OtherTypeOK
  <2>2. /\ UNCHANGED <<wal, snaps, doomed, jobVars, envVars, history, acked, denied, corrupt>>
        /\ Fault /\ inflight' = inflight \cup {Request(w)}
    BY <1>9 DEF PutUnknown
  <2>3. Request(w) \in Requests
    BY <1>1, RequestType
  <2>4. StoreTypeOK' /\ JobTypeOK'
    BY <1>1, <2>2, <2>3 DEF StoreTypeOK, JobTypeOK, jobVars
  <2>5. OtherTypeOK'
    BY <1>1, <2>1, <2>2, FaultType DEF OtherTypeOK, envVars
  <2> QED BY <2>1, <2>4, <2>5 DEF TypeInv
<1> QED
  BY <1>5, <1>6, <1>7, <1>8, <1>9

\* The steps of flush and collect_garbage, and a new compaction.
LEMMA FlushSteps ==
  ASSUME TypeInv, NEW w \in Handles,
         FlushStep(w) \/ GcDelete(w) \/ GcDone(w) \/ CompactNow(w)
  PROVE  TypeInv'
<1>1. HandleInv /\ OtherTypeOK /\ StoreTypeOK /\ JobTypeOK /\ lossy \in BOOLEAN
  BY DEF TypeInv, OtherTypeOK
<1>2. /\ call[w] \in Calls /\ comp[w] \in Comps /\ image[w] \in Image
      /\ garbage[w] \in Garbage
      /\ pc \in [Handles -> Pcs] /\ call \in [Handles -> Calls]
      /\ comp \in [Handles -> Comps] /\ garbage \in [Handles -> Garbage]
  BY <1>1 DEF HandleInv, HandleTypeOK
<1>3. {"cas", "gc", "idle"} \subseteq Pcs \ (Opening \cup {"snap"})
  BY DEF Pcs, Opening
<1>4. ASSUME FlushStep(w) PROVE TypeInv'
  <2>1. HandleInv' /\ lossy' \in BOOLEAN
    <3>1. CASE Return(w)
      BY <1>1, <3>1, ReturnType
    <3>2. CASE /\ pc' = [pc EXCEPT ![w] = "cas"]
               /\ call' = [call EXCEPT ![w].attempt = @ + 1]
               /\ UNCHANGED <<coreVars, writerVars, lossy>>
      <4>1. [call[w] EXCEPT !.attempt = call[w].attempt + 1] \in Calls
        <5>1. call[w].attempt + 1 \in Nat
          BY <1>2 DEF Calls
        <5>2. ASSUME NEW n \in Nat PROVE [call[w] EXCEPT !.attempt = n] \in Calls
          BY <1>2 DEF Calls
        <5> QED BY <5>1, <5>2
      <4>2. call' = [call EXCEPT ![w] = [call[w] EXCEPT !.attempt = call[w].attempt + 1]]
        BY <3>2
      <4> QED BY <1>1, <1>3, <3>2, <4>1, <4>2, ControlMove
    <3>3. CASE /\ pc' = [pc EXCEPT ![w] = "gc"]
               /\ UNCHANGED <<call, coreVars, writerVars, lossy>>
      <4>1. call' = [call EXCEPT ![w] = call[w]]
        BY <1>2, <3>3
      <4> QED BY <1>1, <1>2, <1>3, <3>3, <4>1, ControlMove
    <3> QED BY <1>4, <3>1, <3>2, <3>3 DEF FlushStep
  <2>2. UNCHANGED <<storeVars, jobVars, envVars, history, acked, denied, corrupt, faults>>
    BY <1>4 DEF FlushStep, NoFault
  <2>3. StoreTypeOK' /\ JobTypeOK'
    BY <1>1, <2>2 DEF StoreTypeOK, JobTypeOK, storeVars, jobVars
  <2>4. OtherTypeOK'
    BY <1>1, <2>1, <2>2 DEF OtherTypeOK, envVars
  <2> QED BY <2>1, <2>3, <2>4 DEF TypeInv
<1>5. ASSUME GcDelete(w) PROVE TypeInv'
  <2> DEFINE key == Head(garbage[w].queue)
  <2>1. /\ garbage[w].queue \in Seq(Key) /\ garbage[w].queue # << >>
        /\ UNCHANGED <<wal, inflight, jobVars, envVars, history, acked, denied, corrupt>>
        /\ Fault \/ NoFault
    BY <1>2, <1>5 DEF GcDelete, Garbage
  <2>2. key \in Key /\ Tail(garbage[w].queue) \in Seq(Key)
    BY <2>1, HeadTailProperties
  <2> DEFINE Done == /\ HandleInv' /\ lossy' \in BOOLEAN /\ doomed' \subseteq Key
                     /\ DOMAIN snaps' \subseteq Key
                     /\ \A k \in DOMAIN snaps' : snaps'[k] \in Seq(Entry)
  <2>3. Done
    <3>1. CASE /\ DeleteSnapshot(key)
               /\ garbage' = [garbage EXCEPT ![w].queue = Tail(@)]
               /\ UNCHANGED <<doomed, pc, call, coreVars, comp, lossy>>
      <4> DEFINE g == [garbage[w] EXCEPT !.queue = Tail(garbage[w].queue)]
      <4>1. g \in Garbage
        BY <1>2, <2>2 DEF Garbage
      <4>2. garbage' = [garbage EXCEPT ![w] = g]
        BY <3>1
      <4> HIDE DEF g
      <4>3. HandleTypeOK' /\ ReadyApplies' /\ GotKnown' /\ OpeningIdle'
        BY <1>1, <3>1, <4>1, <4>2
           DEF HandleInv, HandleTypeOK, ReadyApplies, GotKnown, OpeningIdle, coreVars
      <4>4. HandleInv'
        BY <4>3 DEF HandleInv
      <4> QED BY <1>1, <3>1, <4>4, DeleteType DEF StoreTypeOK
    <3>2. CASE /\ doomed' \in {doomed, doomed \cup {key}}
               /\ Return(w) /\ UNCHANGED snaps
      BY <1>1, <2>2, <3>2, ReturnType DEF StoreTypeOK
    <3> HIDE DEF Done
    <3> QED BY <1>5, <3>1, <3>2 DEF GcDelete
  <2>4. StoreTypeOK' /\ JobTypeOK'
    BY <1>1, <2>1, <2>3 DEF StoreTypeOK, JobTypeOK, jobVars
  <2>5. OtherTypeOK'
    BY <1>1, <2>1, <2>3, FaultType DEF OtherTypeOK, envVars
  <2> QED BY <2>3, <2>4, <2>5 DEF TypeInv
<1>6. ASSUME GcDone(w) PROVE TypeInv'
  <2>1. HandleInv' /\ lossy' \in BOOLEAN
    BY <1>1, <1>6, ReturnType DEF GcDone
  <2>2. UNCHANGED <<storeVars, jobVars, envVars, history, acked, denied, corrupt, faults>>
    BY <1>6 DEF GcDone, NoFault
  <2>3. StoreTypeOK' /\ JobTypeOK'
    BY <1>1, <2>2 DEF StoreTypeOK, JobTypeOK, storeVars, jobVars
  <2>4. OtherTypeOK'
    BY <1>1, <2>1, <2>2 DEF OtherTypeOK, envVars
  <2> QED BY <2>1, <2>3, <2>4 DEF TypeInv
<1>7. ASSUME CompactNow(w) PROVE TypeInv'
  <2>1. /\ image[w].entries # << >> /\ SpawnCompaction(w, image[w])
        /\ garbage' = [garbage EXCEPT ![w] = SyncedGarbage(w)]
        /\ UNCHANGED <<storeVars, coreVars, envVars, obsVars>>
        /\ pc' = [pc EXCEPT ![w] = "idle"] /\ call' = [call EXCEPT ![w] = call[w]]
    BY <1>2, <1>7 DEF CompactNow
  <2>2. /\ JobTypeOK' /\ faults' \in Nat
        /\ \E k \in Comps : k.st # "ready" /\ comp' = [comp EXCEPT ![w] = k]
    BY <1>1, <1>2, <2>1, SpawnType
  <2>3. PICK k \in Comps : k.st # "ready" /\ comp' = [comp EXCEPT ![w] = k]
    BY <2>2
  <2>4. HandleInv'
    BY <1>1, <1>2, <1>3, <2>1, <2>3, SyncType, MaintenanceMove
  <2>5. StoreTypeOK'
    BY <1>1, <2>1 DEF StoreTypeOK, storeVars
  <2>6. OtherTypeOK'
    BY <1>1, <2>1, <2>2 DEF OtherTypeOK, envVars, obsVars
  <2> QED BY <2>2, <2>4, <2>5, <2>6 DEF TypeInv
<1> QED
  BY <1>4, <1>5, <1>6, <1>7

\* The compactor threads and the late effects of unanswered requests.
LEMMA BackgroundSteps ==
  ASSUME TypeInv,
         \/ \E i \in JobIds : JobFetch(i) \/ JobPublish(i) \/ LateUpload(i)
         \/ \E r \in inflight : LatePut(r)
         \/ \E k \in doomed : LateDelete(k)
  PROVE  TypeInv'
<1>1. HandleInv /\ OtherTypeOK /\ StoreTypeOK /\ JobTypeOK
  BY DEF TypeInv
<1>2. ASSUME UNCHANGED <<pc, call, coreVars, writerVars>> PROVE HandleInv'
  BY <1>1, <1>2 DEF HandleInv, HandleTypeOK, ReadyApplies, GotKnown, OpeningIdle, coreVars,
                    writerVars
<1>3. ASSUME NEW i \in JobIds, JobFetch(i) \/ JobPublish(i) \/ LateUpload(i) PROVE TypeInv'
  <2>1. /\ jobs[i] \in Jobs /\ jobs[i].body \in Seq(Entry) /\ jobs[i].lsn \in Nat
        /\ jobs[i].base \in SnapRef /\ jobs[i].tries \in Nat
    BY <1>1 DEF JobTypeOK, Jobs
  <2>2. ASSUME NEW st \in {"failed", "done"}, EndJob(i, st)
        PROVE  jobs' \in [JobIds -> Jobs]
    <3>1. [NoJob EXCEPT !.st = st, !.lsn = jobs[i].lsn] \in Jobs
      BY <2>1, ConstantTypes DEF Jobs
    <3> QED BY <1>1, <2>2, <3>1 DEF EndJob, JobTypeOK
  <2>3. JobKey(i) \in Key
    BY <2>1 DEF JobKey, Key, Lsn, JobIds
  <2>4. /\ UNCHANGED <<wal, inflight, doomed, spawned, pc, call, coreVars, writerVars, envVars,
                       obsVars>>
        /\ Fault \/ NoFault
    BY <1>3 DEF JobFetch, JobPublish, LateUpload, storeVars
  <2>5. jobs' \in [JobIds -> Jobs]
    <3>1. CASE /\ jobs[i].base \in DOMAIN snaps
               /\ jobs' = [jobs EXCEPT ![i] = [jobs[i] EXCEPT
                                 !.st = "publish", !.base = NoSnap,
                                 !.body = snaps[jobs[i].base] \o jobs[i].body]]
      <4> DEFINE body == snaps[jobs[i].base] \o jobs[i].body
      <4>1. body \in Seq(Entry)
        BY <1>1, <2>1, <3>1, ConcatProperties DEF StoreTypeOK
      <4>2. jobs' = [jobs EXCEPT ![i] = [jobs[i] EXCEPT !.st = "publish", !.base = NoSnap,
                                                       !.body = body]]
        BY <3>1, Zenon
      <4> HIDE DEF body
      <4>3. [jobs[i] EXCEPT !.st = "publish", !.base = NoSnap, !.body = body] \in Jobs
        BY <2>1, <4>1, ConstantTypes DEF Jobs
      <4> QED BY <1>1, <4>2, <4>3 DEF JobTypeOK
    <3>2. CASE jobs' = [jobs EXCEPT ![i].tries = @ + 1]
      <4>1. [jobs[i] EXCEPT !.tries = jobs[i].tries + 1] \in Jobs
        BY <2>1 DEF Jobs
      <4> QED BY <1>1, <3>2, <4>1 DEF JobTypeOK
    <3>3. CASE jobs' = [jobs EXCEPT ![i].st = "unknown"]
      <4>1. [jobs[i] EXCEPT !.st = "unknown"] \in Jobs
        BY <2>1 DEF Jobs
      <4> QED BY <1>1, <3>3, <4>1 DEF JobTypeOK
    <3> QED BY <1>3, <2>2, <3>1, <3>2, <3>3 DEF JobFetch, JobPublish, LateUpload
  <2>6. StoreTypeOK'
    <3>1. CASE PutSnapshot(JobKey(i), jobs[i].body)
      BY <1>1, <2>1, <2>3, <2>4, <3>1 DEF StoreTypeOK, PutSnapshot
    <3>2. CASE UNCHANGED snaps
      BY <1>1, <2>4, <3>2 DEF StoreTypeOK
    <3> QED BY <1>3, <3>1, <3>2 DEF JobFetch, JobPublish, LateUpload, storeVars
  <2>7. JobTypeOK' /\ OtherTypeOK'
    BY <1>1, <2>4, <2>5, FaultType DEF JobTypeOK, OtherTypeOK, envVars, obsVars
  <2> QED BY <1>2, <2>4, <2>6, <2>7 DEF TypeInv
<1>4. ASSUME NEW r \in inflight, LatePut(r) PROVE TypeInv'
  <2>1. r.data \in Image
    BY <1>1 DEF StoreTypeOK, Requests
  <2>2. /\ PutIfMatch(r.expect, r.data) /\ inflight' = inflight \ {r} /\ NoFault
        /\ UNCHANGED <<snaps, doomed, jobVars, pc, call, coreVars, writerVars, envVars,
                       acked, denied, corrupt, lossy>>
    BY <1>4 DEF LatePut
  <2>3. wal' \in Image /\ history' \in Seq(Entry)
    BY <1>1, <2>1, <2>2, PutType
  <2>4. StoreTypeOK' /\ JobTypeOK' /\ OtherTypeOK'
    BY <1>1, <2>2, <2>3, FaultType DEF StoreTypeOK, JobTypeOK, OtherTypeOK, jobVars, envVars
  <2> QED BY <1>2, <2>2, <2>4 DEF TypeInv
<1>5. ASSUME NEW k \in doomed, LateDelete(k) PROVE TypeInv'
  <2>1. /\ DeleteSnapshot(k) /\ doomed' = doomed \ {k} /\ NoFault
        /\ UNCHANGED <<wal, inflight, jobVars, pc, call, coreVars, writerVars, envVars, obsVars>>
    BY <1>5 DEF LateDelete
  <2>2. StoreTypeOK'
    BY <1>1, <2>1, DeleteType DEF StoreTypeOK
  <2>3. JobTypeOK' /\ OtherTypeOK'
    BY <1>1, <2>1, FaultType DEF JobTypeOK, OtherTypeOK, jobVars, envVars, obsVars
  <2> QED BY <1>2, <2>1, <2>2, <2>3 DEF TypeInv
<1> QED
  BY <1>3, <1>4, <1>5

\* The end of a handle.
LEMMA DropStep ==
  ASSUME TypeInv, NEW h \in Handles, Drop(h)
  PROVE  TypeInv'
<1>1. HandleInv /\ OtherTypeOK /\ StoreTypeOK /\ JobTypeOK
  BY DEF TypeInv
<1>2. HandleInv' /\ lossy' \in BOOLEAN
  BY <1>1, ForgetType DEF Drop
<1>3. /\ UNCHANGED <<wal, snaps, jobVars, submitted, history, acked, denied, corrupt, faults>>
      /\ drops' = drops + 1
  BY DEF Drop, NoFault
<1>4. Request(h) \in Requests /\ [expect |-> None, data |-> EmptyImage] \in Requests
  BY <1>1, RequestType, ConstantTypes DEF Requests
<1>5. inflight' \subseteq Requests
  BY <1>1, <1>4 DEF Drop, StoreTypeOK
<1>6. doomed' \subseteq Key
  <2>1. garbage[h].queue \in Seq(Key)
    BY <1>1 DEF HandleInv, HandleTypeOK, Garbage
  <2>2. garbage[h].queue # << >> => Head(garbage[h].queue) \in Key
    BY <2>1, HeadTailProperties
  <2> QED BY <1>1, <2>2 DEF Drop, StoreTypeOK
<1>7. StoreTypeOK' /\ JobTypeOK' /\ OtherTypeOK'
  BY <1>1, <1>2, <1>3, <1>5, <1>6 DEF StoreTypeOK, JobTypeOK, OtherTypeOK, jobVars
<1> QED
  BY <1>2, <1>7 DEF TypeInv
-----------------------------------------------------------------------------
(* The theorems                                                              *)

LEMMA TypeInit == Init => TypeInv
<1> SUFFICES ASSUME Init PROVE TypeInv
  OBVIOUS
<1>1. << >> \in Seq(Entry) /\ DOMAIN << >> = {}
  BY EmptySeq
<1>2. StoreTypeOK
  BY <1>1 DEF Init, StoreTypeOK
<1>3. JobTypeOK
  BY ConstantTypes, BoundsAssumption DEF Init, JobTypeOK
<1>4. HandleTypeOK
  BY <1>1, ConstantTypes DEF Init, HandleTypeOK, Pcs
<1>5. ReadyApplies /\ GotKnown /\ OpeningIdle
  BY DEF Init, ReadyApplies, GotKnown, OpeningIdle, NoFold
<1>6. OtherTypeOK
  BY <1>1 DEF Init, OtherTypeOK
<1> QED
  BY <1>2, <1>3, <1>4, <1>5, <1>6 DEF TypeInv, HandleInv

\* TypeInv is inductive: one case per action of Next.
LEMMA TypeNext == TypeInv /\ [Next]_vars => TypeInv'
<1> SUFFICES ASSUME TypeInv, [Next]_vars PROVE TypeInv'
  OBVIOUS
<1>1. CASE UNCHANGED vars
  BY <1>1 DEF vars, storeVars, jobVars, coreVars, writerVars, envVars, obsVars, TypeInv,
              StoreTypeOK, JobTypeOK, HandleInv, HandleTypeOK, ReadyApplies, GotKnown,
              OpeningIdle, OtherTypeOK
<1>2. ASSUME NEW h \in Handles, HandleStep(h) \/ Refresh(h) \/ Drop(h) PROVE TypeInv'
  BY <1>2, ReadSteps, LocalSteps, DropStep DEF HandleStep
<1>3. ASSUME NEW w \in Writers,
             \/ WriterStep(w) \/ Write(w) \/ StartMaintenance(w)
             \/ CompactNow(w) \/ CompactionStatus(w) \/ TakeCompactionError(w)
      PROVE  TypeInv'
  <2>1. w \in Handles
    BY DEF Handles
  <2> QED BY <1>3, <2>1, OpenPutStep, PutSteps, RoundSteps, LocalSteps, FlushSteps DEF WriterStep
<1>4. CASE \/ \E i \in JobIds : JobStep(i) \/ LateUpload(i)
           \/ \E r \in inflight : LatePut(r)
           \/ \E k \in doomed : LateDelete(k)
  BY <1>4, BackgroundSteps DEF JobStep
<1> QED
  BY <1>1, <1>2, <1>3, <1>4 DEF Next

\* Every variable keeps its type, whatever the handles, compactors and late
\* requests do: queue_obsolete only ever queues names of snapshots, and
\* try_install only ever encodes images.
THEOREM TypeCorrect == Spec => []TypeOK
<1>1. TypeInv => TypeOK
  BY DEF TypeInv, HandleInv, TypeOK
<1> QED
  BY <1>1, TypeInit, TypeNext, PTL DEF Spec

\* The debug_assert of try_install holds for any number of writers, limits and
\* faults: a ready fold always covers live entries of the image it is
\* installed in, so the LSN subtraction does not underflow.
THEOREM FoldAlwaysFits == Spec => []FoldFits
<1>1. TypeInv => FoldFits
  BY DEF TypeInv, HandleInv, ReadyApplies, FoldFits
<1> QED
  BY <1>1, TypeInit, TypeNext, PTL DEF Spec
-----------------------------------------------------------------------------
(* The ETag chain of WalTier has no ABA, for every set of handles and every  *)
(* bound: although an ETag may repeat with the content, each accepted PUT    *)
(* moves the WAL object to an image it never held.                           *)

\* A handle that holds an ETag holds the image it validates: the edits made
\* after a winning PUT agree with the bytes that were sent.
ViewHeld ==
  \A h \in Handles : etag[h] # None => image[h] = etag[h]

\* A PUT is only prepared when it carries entries or a fold.
CasMoves ==
  \A h \in Handles : pc[h] = "cas" => call[h].batch # << >> \/ comp[h].st = "ready"

\* A PUT on its way moves forward from the image it expects.
LateMoves ==
  \A r \in inflight : r.expect # None => Newer(r.data, r.expect)

HandleChain == ViewHeld /\ CasMoves

ChainInv == HandleChain /\ LateMoves
-----------------------------------------------------------------------------
(* What the PUTs carry                                                       *)

\* Without a fold, too, push_back yields the image that was sent.
LEMMA PushMatchesView ==
  ASSUME NEW img \in Image, NEW extra \in Seq(Entry)
  PROVE  Pushed(img, extra) = EncodeView(img, NoSnap, extra)
<1>1. img.entries \in Seq(Entry)
  BY LsnTypes
<1>2. SubSeq(img.entries, 1, Len(img.entries)) = img.entries
  <2>1. ASSUME NEW e \in Seq(Entry) PROVE SubSeq(e, 1, Len(e)) = e
    BY SubSeqFull
  <2> QED BY <1>1, <2>1
<1>3. EncodeView(img, NoSnap, extra)
        = [snap |-> img.snap, entries |-> SubSeq(img.entries, 0 + 1, Len(img.entries)) \o extra]
  BY Zenon DEF EncodeView
<1>4. 0 + 1 = 1
  OBVIOUS
<1> QED
  BY <1>2, <1>3, <1>4, Zenon DEF Pushed

\* The candidate of a PUT is newer than the image it was built from.
LEMMA CandidateNewer ==
  ASSUME TypeInv, NEW w \in Handles,
         call[w].batch # << >> \/ comp[w].st = "ready"
  PROVE  Newer(Candidate(w, comp[w], call[w].batch), image[w])
<1> DEFINE batch == call[w].batch
           fold  == ReadyFold(comp[w])
           v     == EncodeView(image[w], fold, batch)
<1>1. /\ image[w] \in Image /\ batch \in Seq(Entry) /\ comp[w] \in Comps
      /\ comp[w].st = "ready" => AppliesTo(comp[w].fold, image[w])
  BY DEF TypeInv, HandleInv, HandleTypeOK, Calls, ReadyApplies
<1>2. fold \in SnapRef /\ (fold = NoSnap \/ AppliesTo(fold, image[w]))
  BY <1>1 DEF ReadyFold, Comps, SnapRef
<1>3. comp[w].st = "ready" => fold # NoSnap
  <2> SUFFICES ASSUME comp[w].st = "ready" PROVE fold # NoSnap
    OBVIOUS
  <2>1. fold = comp[w].fold /\ AppliesTo(fold, image[w])
    BY <1>1 DEF ReadyFold
  <2> QED BY <1>1, <1>2, <2>1, FoldSuffix
<1>4. /\ v \in Image /\ FirstLsn(v) >= FirstLsn(image[w])
      /\ fold # NoSnap => FirstLsn(v) > FirstLsn(image[w])
      /\ NextLsn(v) = NextLsn(image[w]) + Len(batch)
  BY <1>1, <1>2, EncodeViewProperties
<1>5. Len(batch) \in Nat /\ (batch # << >> => Len(batch) > 0)
  BY <1>1, LenProperties, EmptySeq
<1>6. /\ FirstLsn(v) \in Nat /\ FirstLsn(image[w]) \in Nat
      /\ NextLsn(v) \in Nat /\ NextLsn(image[w]) \in Nat
  BY <1>1, <1>4, LsnTypes
<1>7. Candidate(w, comp[w], batch) = v
  BY DEF Candidate
<1> HIDE DEF v, fold, batch
<1>8. batch # << >> \/ fold # NoSnap
  BY <1>3 DEF batch
<1>9. Newer(v, image[w])
  BY <1>4, <1>5, <1>6, <1>8 DEF Newer
<1> QED
  BY <1>7, <1>9 DEF batch

LEMMA RequestNewer ==
  ASSUME TypeInv, HandleChain, NEW w \in Handles, pc[w] = "cas"
  PROVE  Request(w).expect # None => Newer(Request(w).data, Request(w).expect)
BY CandidateNewer DEF HandleChain, ViewHeld, CasMoves, Request

\* After a winning PUT the handle's image is the one it sent.
LEMMA AcceptedView ==
  ASSUME TypeInv, NEW w \in Handles, Accepted(w)
  PROVE  image'[w] = etag'[w]
<1> DEFINE batch == call[w].batch
           fold  == ReadyFold(comp[w])
           base  == IF fold = NoSnap THEN image[w] ELSE Folded(image[w], fold)
<1>1. /\ image[w] \in Image /\ batch \in Seq(Entry) /\ comp[w] \in Comps
      /\ comp[w].st = "ready" => AppliesTo(comp[w].fold, image[w])
      /\ image \in [Handles -> Image] /\ etag \in [Handles -> Image \cup {None}]
  BY DEF TypeInv, HandleInv, HandleTypeOK, Calls, ReadyApplies
<1>2. fold \in SnapRef /\ (fold = NoSnap \/ AppliesTo(fold, image[w]))
  BY <1>1 DEF ReadyFold, Comps, SnapRef
<1>3. Pushed(base, batch) = EncodeView(image[w], fold, batch)
  <2>1. CASE fold = NoSnap
    BY <1>1, <2>1, PushMatchesView
  <2>2. CASE fold # NoSnap
    BY <1>1, <1>2, <2>2, InstallMatchesView
  <2> QED BY <2>1, <2>2
<1>4. /\ etag' = [etag EXCEPT ![w] = EncodeView(image[w], fold, batch)]
      /\ image' = [image EXCEPT ![w] = Pushed(base, batch)]
  BY Zenon DEF Accepted, Candidate
<1> HIDE DEF batch, fold, base
<1> QED
  BY <1>1, <1>3, <1>4
-----------------------------------------------------------------------------
(* Steps of a handle                                                         *)

\* The handle h moves alone, and keeps its part of the invariant.
Moves(h) ==
  /\ \A g \in Handles \ {h} :
       /\ pc'[g] = pc[g] /\ call'[g] = call[g] /\ comp'[g] = comp[g]
       /\ image'[g] = image[g] /\ etag'[g] = etag[g]
  /\ etag'[h] # None => image'[h] = etag'[h]
  /\ pc'[h] = "cas" => call'[h].batch # << >> \/ comp'[h].st = "ready"

LEMMA MovesKeep ==
  ASSUME HandleChain, NEW h \in Handles, Moves(h)
  PROVE  HandleChain'
BY DEF HandleChain, ViewHeld, CasMoves, Moves

\* A move of the control away from the PUT.
LEMMA LeaveMoves ==
  ASSUME TypeInv, HandleChain, NEW h \in Handles, NEW p, p # "cas", NEW c, NEW k,
         pc' = [pc EXCEPT ![h] = p], call' = [call EXCEPT ![h] = c],
         comp' = [comp EXCEPT ![h] = k], UNCHANGED coreVars
  PROVE  Moves(h)
BY DEF TypeInv, HandleInv, HandleTypeOK, HandleChain, ViewHeld, Moves, coreVars

\* A move that gives the handle an image and its ETag.
LEMMA ViewMoves ==
  ASSUME TypeInv, NEW h \in Handles, NEW p, p # "cas", NEW c, NEW k, NEW img, NEW tag,
         tag # None => img = tag,
         pc' = [pc EXCEPT ![h] = p], call' = [call EXCEPT ![h] = c],
         comp' = [comp EXCEPT ![h] = k],
         image' = [image EXCEPT ![h] = img], etag' = [etag EXCEPT ![h] = tag]
  PROVE  Moves(h)
BY DEF TypeInv, HandleInv, HandleTypeOK, Moves

\* A function that is not changed is changed nowhere.
LEMMA SameFunctions ==
  ASSUME TypeInv, NEW h \in Handles
  PROVE  /\ call = [call EXCEPT ![h] = call[h]] /\ comp = [comp EXCEPT ![h] = comp[h]]
         /\ pc = [pc EXCEPT ![h] = pc[h]]
BY DEF TypeInv, HandleInv, HandleTypeOK

LEMMA ForgetMoves ==
  ASSUME TypeInv, NEW h \in Handles, Forget(h)
  PROVE  Moves(h)
<1>1. /\ pc' = [pc EXCEPT ![h] = "down"] /\ call' = [call EXCEPT ![h] = NoCall]
      /\ image' = [image EXCEPT ![h] = EmptyImage] /\ etag' = [etag EXCEPT ![h] = None]
      /\ comp' = [comp EXCEPT ![h] = NoFold]
  BY DEF Forget
<1> QED
  BY <1>1, ViewMoves

LEMMA ReturnMoves ==
  ASSUME TypeInv, HandleChain, NEW h \in Handles, Return(h)
  PROVE  Moves(h)
<1>1. CASE call[h].op \in {"open", "close"}
  BY <1>1, ForgetMoves DEF Return
<1>2. CASE call[h].op \notin {"open", "close"}
  <2>1. /\ pc' = [pc EXCEPT ![h] = "idle"] /\ call' = [call EXCEPT ![h] = NoCall]
        /\ UNCHANGED <<coreVars, writerVars>>
    BY <1>2 DEF Return
  <2>2. comp' = [comp EXCEPT ![h] = comp[h]]
    BY <2>1, SameFunctions DEF writerVars
  <2> QED BY <2>1, <2>2, LeaveMoves
<1> QED
  BY <1>1, <1>2

LEMMA MissingMoves ==
  ASSUME TypeInv, HandleChain, NEW h \in Handles, NEW again \in {"openGet", "get"},
         MissingSnapshot(h, again)
  PROVE  Moves(h)
<1> DEFINE c    == call[h]
           next == [c EXCEPT !.races = @ + 1, !.missing = c.got, !.got = None]
<1>1. CASE c.missing = c.got \/ c.races + 1 = MaxRaces
  <2>1. Return(h)
    BY <1>1 DEF MissingSnapshot, ReturnNotApplied
  <2> QED BY <2>1, ReturnMoves
<1>2. CASE ~(c.missing = c.got \/ c.races + 1 = MaxRaces)
  <2>1. /\ pc' = [pc EXCEPT ![h] = again] /\ call' = [call EXCEPT ![h] = next]
        /\ UNCHANGED <<coreVars, writerVars>>
    BY <1>2 DEF MissingSnapshot
  <2>2. comp' = [comp EXCEPT ![h] = comp[h]] /\ again # "cas"
    BY <2>1, SameFunctions DEF writerVars
  <2> HIDE DEF next
  <2> QED BY <2>1, <2>2, LeaveMoves
<1> QED
  BY <1>1, <1>2

LEMMA OpenedMoves ==
  ASSUME TypeInv, NEW h \in Handles, NEW img, NEW tag, NEW st, tag # None => img = tag,
         Opened(h, img, tag, st)
  PROVE  Moves(h)
<1>1. /\ pc' = [pc EXCEPT ![h] = "idle"] /\ call' = [call EXCEPT ![h] = NoCall]
      /\ image' = [image EXCEPT ![h] = img] /\ etag' = [etag EXCEPT ![h] = tag]
      /\ comp' = [comp EXCEPT ![h] = comp[h]]
  BY SameFunctions DEF Opened, writerVars
<1> QED
  BY <1>1, ViewMoves

\* The caller of refresh goes on.
LEMMA ProceedMoves ==
  ASSUME TypeInv, NEW h \in Handles, Proceed(h)
  PROVE  \E p, c : /\ p # "cas"
                   /\ pc' = [pc EXCEPT ![h] = p] /\ call' = [call EXCEPT ![h] = c]
<1> DEFINE c    == call[h]
           kept == [NoCall EXCEPT !.op = c.op, !.attempt = c.attempt, !.batch = c.batch]
           p    == CASE c.op = "refresh"             -> "idle"
                     [] c.op \in {"flush", "close"}  -> "flush"
                     [] OTHER                        -> "reconcile"
           next == IF c.op = "refresh" THEN NoCall ELSE kept
<1>1. p # "cas"
  OBVIOUS
<1>2. pc' = [pc EXCEPT ![h] = p] /\ call' = [call EXCEPT ![h] = next]
  BY Zenon DEF Proceed
<1> HIDE DEF p, next
<1> QED
  BY <1>1, <1>2

LEMMA AdoptMoves ==
  ASSUME TypeInv, NEW h \in Handles, NEW img, NEW st, Adopt(h, img, st)
  PROVE  Moves(h)
<1>1. PICK p, c : /\ p # "cas"
                  /\ pc' = [pc EXCEPT ![h] = p] /\ call' = [call EXCEPT ![h] = c]
  BY ProceedMoves DEF Adopt
<1>2. /\ image' = [image EXCEPT ![h] = img] /\ etag' = [etag EXCEPT ![h] = img]
      /\ comp' = [comp EXCEPT ![h] = DiscardSuperseded(comp[h], img)]
  BY Zenon DEF Adopt
<1> QED
  BY <1>1, <1>2, ViewMoves

\* A round of append reaches the PUT only with a batch.
LEMMA TryInstallMoves ==
  ASSUME TypeInv, HandleChain, NEW w \in Handles, NEW op, NEW k, NEW batch, NEW n, NEW lost,
         NEW kk, comp' = [comp EXCEPT ![w] = kk], UNCHANGED coreVars,
         TryInstall(w, op, k, batch, n, lost)
  PROVE  Moves(w)
<1> DEFINE stop == batch = << >> \/ Len(Candidate(w, k, batch).entries) > MaxLive
           next == [NoCall EXCEPT !.op = op, !.attempt = n, !.batch = batch]
<1>1. CASE stop
  <2>1. pc' = [pc EXCEPT ![w] = "idle"] /\ call' = [call EXCEPT ![w] = NoCall]
    BY <1>1 DEF TryInstall
  <2> QED BY <2>1, LeaveMoves
<1>2. CASE ~stop
  <2>1. pc' = [pc EXCEPT ![w] = "cas"] /\ call' = [call EXCEPT ![w] = next]
    BY <1>2 DEF TryInstall
  <2>2. next.batch = batch /\ batch # << >>
    BY <1>2 DEF NoCall
  <2> HIDE DEF next
  <2> QED BY <2>1, <2>2
          DEF TypeInv, HandleInv, HandleTypeOK, HandleChain, ViewHeld, Moves, coreVars
<1> QED
  BY <1>1, <1>2
-----------------------------------------------------------------------------
(* The actions                                                               *)

\* What every step must do: keep the invariant, and move the WAL forward.
Advances == wal' # wal /\ wal # None => Newer(wal', wal)

ChainStep == ChainInv' /\ Advances

\* A step of a handle that sends nothing to the WAL object.
LEMMA LocalChain ==
  ASSUME ChainInv, NEW h \in Handles, Moves(h), UNCHANGED <<wal, inflight>>
  PROVE  ChainStep
<1>1. HandleChain'
  BY MovesKeep DEF ChainInv
<1>2. LateMoves'
  BY DEF ChainInv, LateMoves
<1> QED
  BY <1>1, <1>2 DEF ChainStep, ChainInv, Advances

LEMMA ReadChain ==
  ASSUME TypeInv, ChainInv, NEW h \in Handles,
         OpenGet(h) \/ OpenSnap(h) \/ RefreshGet(h) \/ RefreshSnap(h)
  PROVE  ChainStep
<1>1. HandleChain
  BY DEF ChainInv
<1>2. UNCHANGED <<wal, inflight>>
  BY DEF OpenGet, OpenSnap, RefreshGet, RefreshSnap, storeVars
<1>3. ASSUME NEW p \in {"openSnap", "snap", "openPut"}, NEW c,
             pc' = [pc EXCEPT ![h] = p], call' = [call EXCEPT ![h] = c],
             UNCHANGED <<coreVars, writerVars>>
      PROVE  Moves(h)
  <2>1. comp' = [comp EXCEPT ![h] = comp[h]] /\ p # "cas"
    BY <1>3, SameFunctions DEF writerVars
  <2> QED BY <1>1, <1>3, <2>1, LeaveMoves
<1>4. ASSUME OpenGet(h) PROVE Moves(h)
  <2>1. CASE ReturnNotApplied(h)
    BY <1>1, <2>1, ReturnMoves DEF ReturnNotApplied
  <2>2. CASE Opened(h, EmptyImage, None, << >>)
    BY <2>2, OpenedMoves
  <2>3. CASE /\ pc' = [pc EXCEPT ![h] = "openPut"]
             /\ UNCHANGED <<call, coreVars, writerVars>>
    <3>1. call' = [call EXCEPT ![h] = call[h]]
      BY <2>3, SameFunctions
    <3> QED BY <1>3, <2>3, <3>1
  <2>4. CASE Opened(h, wal, wal, wal.entries)
    BY <2>4, OpenedMoves
  <2>5. CASE /\ pc' = [pc EXCEPT ![h] = "openSnap"]
             /\ call' = [call EXCEPT ![h].got = wal]
             /\ UNCHANGED <<coreVars, writerVars>>
    BY <1>3, <2>5
  <2> QED BY <1>4, <2>1, <2>2, <2>3, <2>4, <2>5 DEF OpenGet
<1>5. ASSUME OpenSnap(h) PROVE Moves(h)
  <2> DEFINE got == call[h].got
  <2>1. CASE ReturnNotApplied(h)
    BY <1>1, <2>1, ReturnMoves DEF ReturnNotApplied
  <2>2. CASE Opened(h, got, got, snaps[got.snap] \o EntriesFrom(got, FirstLsn(got)))
    BY <2>2, OpenedMoves
  <2>3. CASE MissingSnapshot(h, "openGet")
    BY <1>1, <2>3, MissingMoves
  <2> QED BY <1>5, <2>1, <2>2, <2>3 DEF OpenSnap
<1>6. ASSUME RefreshGet(h) PROVE Moves(h)
  <2>1. CASE ReturnNotApplied(h)
    BY <1>1, <2>1, ReturnMoves DEF ReturnNotApplied
  <2>2. CASE Proceed(h) /\ UNCHANGED <<coreVars, writerVars>>
    <3>1. PICK p, c : /\ p # "cas"
                      /\ pc' = [pc EXCEPT ![h] = p] /\ call' = [call EXCEPT ![h] = c]
      BY <2>2, ProceedMoves
    <3>2. comp' = [comp EXCEPT ![h] = comp[h]]
      BY <2>2, SameFunctions DEF writerVars
    <3> QED BY <1>1, <2>2, <3>1, <3>2, LeaveMoves
  <2>3. CASE Adopt(h, wal, state[h] \o EntriesFrom(wal, NextLsn(image[h])))
    BY <2>3, AdoptMoves
  <2>4. CASE /\ pc' = [pc EXCEPT ![h] = "snap"]
             /\ call' = [call EXCEPT ![h].got = wal]
             /\ UNCHANGED <<coreVars, writerVars>>
    BY <1>3, <2>4
  <2> QED BY <1>6, <2>1, <2>2, <2>3, <2>4 DEF RefreshGet
<1>7. ASSUME RefreshSnap(h) PROVE Moves(h)
  <2> DEFINE got == call[h].got
  <2>1. CASE ReturnNotApplied(h)
    BY <1>1, <2>1, ReturnMoves DEF ReturnNotApplied
  <2>2. CASE Adopt(h, got, snaps[got.snap] \o EntriesFrom(got, got.snap.lsn + 1))
    BY <2>2, AdoptMoves
  <2>3. CASE MissingSnapshot(h, "get")
    BY <1>1, <2>3, MissingMoves
  <2> QED BY <1>7, <2>1, <2>2, <2>3 DEF RefreshSnap
<1>8. Moves(h)
  BY <1>4, <1>5, <1>6, <1>7
<1> QED
  BY <1>2, <1>8, LocalChain

\* The create-only PUT replaces no image.
LEMMA OpenPutChain ==
  ASSUME TypeInv, ChainInv, NEW w \in Handles, OpenPut(w)
  PROVE  ChainStep
<1>1. HandleChain /\ LateMoves
  BY DEF ChainInv
<1>2. Moves(w)
  <2>1. CASE Opened(w, EmptyImage, EmptyImage, << >>)
    BY <2>1, OpenedMoves
  <2>2. CASE ReturnNotApplied(w)
    BY <1>1, <2>2, ReturnMoves DEF ReturnNotApplied
  <2>3. CASE /\ pc' = [pc EXCEPT ![w] = "openGet"]
             /\ call' = [call EXCEPT ![w].races = @ + 1]
             /\ UNCHANGED <<coreVars, writerVars>>
    <3>1. comp' = [comp EXCEPT ![w] = comp[w]]
      BY <2>3, SameFunctions DEF writerVars
    <3> QED BY <1>1, <2>3, <3>1, LeaveMoves
  <2> QED BY <2>1, <2>2, <2>3 DEF OpenPut
<1>3. inflight' \subseteq inflight \cup {[expect |-> None, data |-> EmptyImage]}
  BY DEF OpenPut
<1>4. LateMoves'
  BY <1>1, <1>3 DEF LateMoves
<1>5. Advances
  BY DEF OpenPut, PutIfMatch, Advances
<1> QED
  BY <1>1, <1>2, <1>4, <1>5, MovesKeep DEF ChainStep, ChainInv

\* Methods that begin, and the ones that look after the compaction.
LEMMA MaintenanceChain ==
  ASSUME TypeInv, ChainInv, NEW h \in Handles,
         \/ Refresh(h) \/ StartMaintenance(h) \/ WaitForCompaction(h) \/ CompactNow(h)
         \/ CompactionStatus(h) \/ TakeCompactionError(h)
  PROVE  ChainStep
<1>1. HandleChain
  BY DEF ChainInv
<1>2. UNCHANGED <<wal, inflight>> /\ UNCHANGED coreVars
  BY DEF Refresh, StartMaintenance, WaitForCompaction, CompactNow, CompactionStatus,
         TakeCompactionError, storeVars
<1>3. \E p : p # "cas" /\ pc' = [pc EXCEPT ![h] = p]
  <2>1. CASE CompactNow(h) \/ CompactionStatus(h) \/ TakeCompactionError(h)
    <3>1. pc' = [pc EXCEPT ![h] = "idle"]
      BY <2>1, SameFunctions DEF CompactNow, CompactionStatus, TakeCompactionError
    <3> QED BY <3>1
  <2>2. CASE Refresh(h)
    BY <2>2 DEF Refresh
  <2>3. CASE StartMaintenance(h)
    <3>1. PICK op : pc' = [pc EXCEPT ![h] = IF op = "gc" THEN "gc" ELSE "wait"]
      BY <2>3 DEF StartMaintenance
    <3>2. PICK p \in {"gc", "wait"} : pc' = [pc EXCEPT ![h] = p]
      BY <3>1
    <3> QED BY <3>2
  <2>4. CASE WaitForCompaction(h)
    <3>1. pc' = [pc EXCEPT ![h] = IF call[h].op = "wait" THEN "idle" ELSE "flush"]
      BY <2>4 DEF WaitForCompaction
    <3>2. PICK p \in {"idle", "flush"} : pc' = [pc EXCEPT ![h] = p]
      BY <3>1
    <3> QED BY <3>2
  <2> QED BY <2>1, <2>2, <2>3, <2>4
<1>4. \E c : call' = [call EXCEPT ![h] = c]
  <2>1. CASE CompactNow(h) \/ CompactionStatus(h) \/ TakeCompactionError(h)
    BY <2>1, SameFunctions DEF CompactNow, CompactionStatus, TakeCompactionError
  <2>2. CASE Refresh(h)
    <3>1. call' = [call EXCEPT ![h] = [call[h] EXCEPT !.op = "refresh"]]
      BY <2>2 DEF Refresh
    <3> QED BY <3>1
  <2>3. CASE StartMaintenance(h)
    <3>1. PICK op : call' = [call EXCEPT ![h] = [call[h] EXCEPT !.op = op]]
      BY <2>3 DEF StartMaintenance
    <3> QED BY <3>1
  <2>4. CASE WaitForCompaction(h)
    BY <2>4 DEF WaitForCompaction
  <2> QED BY <2>1, <2>2, <2>3, <2>4
<1>5. \E k : comp' = [comp EXCEPT ![h] = k]
  <2>1. CASE Refresh(h) \/ WaitForCompaction(h) \/ CompactionStatus(h)
    BY <2>1 DEF Refresh, WaitForCompaction, CompactionStatus, SyncCompaction
  <2>2. CASE StartMaintenance(h)
    BY <2>2, SameFunctions DEF StartMaintenance, writerVars
  <2>3. CASE CompactNow(h)
    BY <2>3 DEF CompactNow, SpawnCompaction
  <2>4. CASE TakeCompactionError(h)
    BY <2>4 DEF TakeCompactionError
  <2> QED BY <2>1, <2>2, <2>3, <2>4
<1>6. PICK p, c, k : /\ p # "cas" /\ pc' = [pc EXCEPT ![h] = p]
                     /\ call' = [call EXCEPT ![h] = c] /\ comp' = [comp EXCEPT ![h] = k]
  BY <1>3, <1>4, <1>5
<1>7. Moves(h)
  BY <1>1, <1>2, <1>6, LeaveMoves
<1> QED
  BY <1>2, <1>7, LocalChain

\* The rounds of append, and the steps of flush and collect_garbage.
LEMMA RoundChain ==
  ASSUME TypeInv, ChainInv, NEW w \in Handles,
         Write(w) \/ Reconcile(w) \/ FlushStep(w) \/ GcDelete(w) \/ GcDone(w)
  PROVE  ChainStep
<1>1. HandleChain
  BY DEF ChainInv
<1>2. UNCHANGED <<wal, inflight>>
  BY DEF Write, Reconcile, FlushStep, GcDelete, GcDone, storeVars
<1>3. ASSUME Write(w) PROVE Moves(w)
  <2>1. PICK n, op : TryInstall(w, op, Synced(w), Batch(n), 1, {})
    BY <1>3 DEF Write
  <2>2. comp' = [comp EXCEPT ![w] = Synced(w)] /\ UNCHANGED coreVars
    BY <1>3 DEF Write, SyncCompaction
  <2> QED BY <1>1, <2>1, <2>2, TryInstallMoves
<1>4. ASSUME Reconcile(w) PROVE Moves(w)
  <2>1. ASSUME NEW op, NEW b, NEW n, NEW lost, TryInstall(w, op, comp[w], b, n, lost),
               UNCHANGED <<coreVars, writerVars>>
        PROVE  Moves(w)
    <3>1. comp' = [comp EXCEPT ![w] = comp[w]]
      BY <2>1, SameFunctions DEF writerVars
    <3> QED BY <1>1, <2>1, <3>1, TryInstallMoves
  <2>2. CASE Return(w)
    BY <1>1, <2>2, ReturnMoves
  <2>3. CASE ~Return(w)
    BY <1>4, <2>1, <2>3 DEF Reconcile, ReturnNotApplied
  <2> QED BY <2>2, <2>3
<1>5. ASSUME FlushStep(w) PROVE Moves(w)
  <2>1. CASE Return(w)
    BY <1>1, <2>1, ReturnMoves
  <2>2. CASE /\ comp[w].st = "ready" /\ pc' = [pc EXCEPT ![w] = "cas"]
             /\ call' = [call EXCEPT ![w].attempt = @ + 1]
             /\ UNCHANGED <<coreVars, writerVars>>
    BY <1>1, <2>2 DEF TypeInv, HandleInv, HandleTypeOK, HandleChain, ViewHeld, Moves,
                      coreVars, writerVars
  <2>3. CASE pc' = [pc EXCEPT ![w] = "gc"] /\ UNCHANGED <<call, coreVars, writerVars>>
    <3>1. call' = [call EXCEPT ![w] = call[w]] /\ comp' = [comp EXCEPT ![w] = comp[w]]
      BY <2>3, SameFunctions DEF writerVars
    <3> QED BY <1>1, <2>3, <3>1, LeaveMoves
  <2> QED BY <1>5, <2>1, <2>2, <2>3 DEF FlushStep
<1>6. ASSUME GcDelete(w) \/ GcDone(w) PROVE Moves(w)
  <2>1. CASE Return(w)
    BY <1>1, <2>1, ReturnMoves
  <2>2. CASE pc[w] = "gc" /\ UNCHANGED <<pc, call, coreVars, comp>>
    BY <1>1, <2>2 DEF HandleChain, ViewHeld, Moves, coreVars
  <2> QED BY <1>6, <2>1, <2>2 DEF GcDelete, GcDone
<1>7. Moves(w)
  BY <1>3, <1>4, <1>5, <1>6
<1> QED
  BY <1>2, <1>7, LocalChain

\* The outcomes of the PUT.
LEMMA PutChain ==
  ASSUME TypeInv, ChainInv, NEW w \in Handles,
         \/ AppendAccepted(w) \/ FlushAccepted(w)
         \/ PutRejected(w) \/ PutFailed(w) \/ PutUnknown(w)
  PROVE  ChainStep
<1>1. HandleChain /\ LateMoves /\ pc[w] = "cas"
  BY DEF ChainInv, AppendAccepted, FlushAccepted, PutRejected, PutFailed, PutUnknown
<1>2. ASSUME Accepted(w), NEW p \in {"idle", "flush"}, pc' = [pc EXCEPT ![w] = p],
             \E c : call' = [call EXCEPT ![w] = c],
             \E k : comp' = [comp EXCEPT ![w] = k], UNCHANGED inflight
      PROVE  ChainStep
  <2>1. /\ \E img : image' = [image EXCEPT ![w] = img]
        /\ \E tag : etag' = [etag EXCEPT ![w] = tag]
    BY <1>2, Zenon DEF Accepted
  <2>2. image'[w] = etag'[w]
    BY <1>2, AcceptedView
  <2>3. PICK img : image' = [image EXCEPT ![w] = img]
    BY <2>1
  <2>4. PICK tag : etag' = [etag EXCEPT ![w] = tag]
    BY <2>1
  <2>5. Moves(w)
    <3>1. img = tag
      BY <2>2, <2>3, <2>4 DEF TypeInv, HandleInv, HandleTypeOK
    <3>2. PICK c : call' = [call EXCEPT ![w] = c]
      BY <1>2
    <3>3. PICK k : comp' = [comp EXCEPT ![w] = k]
      BY <1>2
    <3> QED BY <1>2, <2>3, <2>4, <3>1, <3>2, <3>3, ViewMoves
  <2>6. LateMoves'
    BY <1>1, <1>2 DEF LateMoves
  <2>7. wal = etag[w] /\ wal' = Candidate(w, comp[w], call[w].batch)
    BY <1>2 DEF Accepted, PutIfMatch
  <2>8. wal # None => image[w] = wal
    BY <1>1, <2>7 DEF HandleChain, ViewHeld
  <2>9. Newer(Candidate(w, comp[w], call[w].batch), image[w])
    BY <1>1, CandidateNewer DEF HandleChain, CasMoves
  <2>10. Advances
    BY <2>7, <2>8, <2>9 DEF Advances
  <2> QED BY <1>1, <2>5, <2>6, <2>10, MovesKeep DEF ChainStep, ChainInv
<1>3. CASE AppendAccepted(w)
  <2>1. /\ Accepted(w) /\ pc' = [pc EXCEPT ![w] = "idle"] /\ UNCHANGED inflight
        /\ call' = [call EXCEPT ![w] = NoCall]
    BY <1>3 DEF AppendAccepted
  <2>2. \E k : comp' = [comp EXCEPT ![w] = k]
    BY <1>3 DEF AppendAccepted, SpawnCompaction
  <2> QED BY <1>2, <2>1, <2>2
<1>4. CASE FlushAccepted(w)
  <2>1. /\ Accepted(w) /\ pc' = [pc EXCEPT ![w] = "flush"] /\ UNCHANGED inflight
        /\ call' = [call EXCEPT ![w] = call[w]]
        /\ comp' = [comp EXCEPT ![w] = Installed(comp[w])]
    BY <1>4, SameFunctions DEF FlushAccepted
  <2> QED BY <1>2, <2>1
<1>5. CASE PutRejected(w)
  <2>1. /\ pc' = [pc EXCEPT ![w] = "get"] /\ UNCHANGED coreVars /\ UNCHANGED <<wal, inflight>>
        /\ call' = [call EXCEPT ![w] = call[w]] /\ comp' = [comp EXCEPT ![w] = comp[w]]
    BY <1>5, SameFunctions DEF PutRejected, storeVars, writerVars
  <2> QED BY <1>1, <2>1, LeaveMoves, LocalChain
<1>6. CASE PutFailed(w)
  <2>1. Return(w) /\ UNCHANGED <<wal, inflight>>
    BY <1>6 DEF PutFailed, ReturnNotApplied, storeVars
  <2> QED BY <1>1, <2>1, ReturnMoves, LocalChain
<1>7. CASE PutUnknown(w)
  <2>1. Return(w) /\ UNCHANGED wal /\ inflight' = inflight \cup {Request(w)}
    BY <1>7 DEF PutUnknown
  <2>2. LateMoves'
    BY <1>1, <2>1, RequestNewer DEF LateMoves
  <2>3. HandleChain'
    BY <1>1, <2>1, ReturnMoves, MovesKeep
  <2> QED BY <2>1, <2>2, <2>3 DEF ChainStep, ChainInv, Advances
<1> QED
  BY <1>3, <1>4, <1>5, <1>6, <1>7

\* A handle ends, perhaps with its PUT on the way.
LEMMA DropChain ==
  ASSUME TypeInv, ChainInv, NEW h \in Handles, Drop(h)
  PROVE  ChainStep
<1>1. HandleChain /\ LateMoves
  BY DEF ChainInv
<1>2. Forget(h) /\ UNCHANGED wal
  BY DEF Drop
<1>3. HandleChain'
  BY <1>1, <1>2, ForgetMoves, MovesKeep
<1> DEFINE put == [expect |-> None, data |-> EmptyImage]
           own == Request(h)
<1>4. /\ put.expect = None
      /\ pc[h] = "cas" /\ own.expect # None => Newer(own.data, own.expect)
  BY <1>1, RequestNewer
<1>5. inflight' \in {inflight} \cup (IF pc[h] = "cas" THEN {inflight \cup {own}} ELSE {})
                              \cup (IF pc[h] = "openPut" THEN {inflight \cup {put}} ELSE {})
  BY Zenon DEF Drop
<1> HIDE DEF put, own
<1>6. \A r \in inflight' : r \in inflight \/ (pc[h] = "cas" /\ r = own) \/ r = put
  BY <1>5
<1>7. LateMoves'
  BY <1>1, <1>4, <1>6 DEF LateMoves
<1> QED
  BY <1>2, <1>3, <1>7 DEF ChainStep, ChainInv, Advances

\* The compactor threads and the late effects of unanswered requests.
LEMMA BackgroundChain ==
  ASSUME TypeInv, ChainInv,
         \/ \E i \in JobIds : JobFetch(i) \/ JobPublish(i) \/ LateUpload(i)
         \/ \E r \in inflight : LatePut(r)
         \/ \E k \in doomed : LateDelete(k)
  PROVE  ChainStep
<1>1. HandleChain /\ LateMoves
  BY DEF ChainInv
<1>2. UNCHANGED <<pc, call, coreVars, writerVars>>
  BY DEF JobFetch, JobPublish, LateUpload, LatePut, LateDelete
<1>3. HandleChain'
  BY <1>1, <1>2 DEF HandleChain, ViewHeld, CasMoves, coreVars, writerVars
<1>4. inflight' \subseteq inflight
  BY DEF JobFetch, JobPublish, LateUpload, LatePut, LateDelete, storeVars
<1>5. LateMoves'
  BY <1>1, <1>4 DEF LateMoves
<1>6. Advances
  <2>1. CASE \E r \in inflight : LatePut(r)
    <3>1. PICK r \in inflight : wal = r.expect /\ wal' = r.data
      BY <2>1 DEF LatePut, PutIfMatch
    <3> QED BY <1>1, <3>1 DEF LateMoves, Advances
  <2>2. CASE UNCHANGED wal
    BY <2>2 DEF Advances
  <2> QED BY <2>1, <2>2 DEF JobFetch, JobPublish, LateUpload, LateDelete, storeVars
<1> QED
  BY <1>3, <1>5, <1>6 DEF ChainStep, ChainInv
-----------------------------------------------------------------------------
(* The theorem                                                               *)

LEMMA ChainInit == Init => ChainInv
BY DEF Init, ChainInv, HandleChain, ViewHeld, CasMoves, LateMoves

\* One case per action of Next.
LEMMA ChainNext == TypeInv /\ ChainInv /\ [Next]_vars => ChainStep
<1> SUFFICES ASSUME TypeInv, ChainInv, [Next]_vars PROVE ChainStep
  OBVIOUS
<1>1. CASE UNCHANGED vars
  BY <1>1 DEF vars, storeVars, coreVars, writerVars, ChainStep, Advances, ChainInv,
              HandleChain, ViewHeld, CasMoves, LateMoves
<1>2. ASSUME NEW h \in Handles, HandleStep(h) \/ Refresh(h) \/ Drop(h) PROVE ChainStep
  BY <1>2, ReadChain, MaintenanceChain, DropChain DEF HandleStep
<1>3. ASSUME NEW w \in Writers,
             \/ WriterStep(w) \/ Write(w) \/ StartMaintenance(w)
             \/ CompactNow(w) \/ CompactionStatus(w) \/ TakeCompactionError(w)
      PROVE  ChainStep
  <2>1. w \in Handles
    BY DEF Handles
  <2> QED BY <1>3, <2>1, OpenPutChain, PutChain, RoundChain, MaintenanceChain DEF WriterStep
<1>4. CASE \/ \E i \in JobIds : JobStep(i) \/ LateUpload(i)
           \/ \E r \in inflight : LatePut(r)
           \/ \E k \in doomed : LateDelete(k)
  BY <1>4, BackgroundChain DEF JobStep
<1> QED
  BY <1>1, <1>2, <1>3, <1>4 DEF Next

\* Every accepted PUT, at once or late, moves the WAL object to an image that
\* has more committed or more folded entries: a stale ETag never matches again
\* although put_if_match may hand out the same ETag for the same content.
THEOREM ChainAdvances == Spec => WalAdvances
<1>1. TypeInv /\ ChainInv /\ [Next]_vars => ChainInv'
  BY ChainNext DEF ChainStep
<1>2. TypeInv /\ ChainInv /\ [Next]_vars
        => [wal' # wal /\ wal # None => Newer(wal', wal)]_vars
  BY ChainNext DEF ChainStep, Advances
<1> QED
  BY <1>1, <1>2, TypeInit, TypeNext, ChainInit, PTL DEF Spec, WalAdvances
-----------------------------------------------------------------------------
(* Durability of WalTier for every set of handles and every bound: the WAL   *)
(* object and its snapshot always rebuild every accepted entry, handles show *)
(* committed prefixes, and collect_garbage never reaches a snapshot that can *)
(* still be named.                                                           *)
(*                                                                           *)
(* The parts of the invariant are predicates of the values they speak of:    *)
(* hist is the history, w the WAL object, stored the names of the snapshot   *)
(* objects.  A step that leaves these values alone keeps the predicate, and  *)
(* one lemma says which changes of hist, w and stored keep all of them.      *)

\* The snapshot that the WAL object names.
Named(w) == IF w = None THEN NoSnap ELSE w.snap

\* The image holds what was committed under its LSNs.
Agrees(img, hist) ==
  NextLsn(img) <= Len(hist) /\ img.entries = Slice(hist, FirstLsn(img), NextLsn(img))

\* The image was stored at some time: it names the current snapshot or one
\* that was superseded by a longer one.
Past(img, hist, w) ==
  /\ Agrees(img, hist)
  /\ img.snap = Named(w) \/ img.snap.lsn < Named(w).lsn
  /\ Len(img.entries) <= MaxLive

\* No PUT can name this snapshot again: a fold only replaces a shorter one.
Dead(key, w) == key # Named(w) /\ key.lsn <= Named(w).lsn

\* A snapshot that may still be named is in the store.
Kept(key, w, stored) == key \in stored \/ Dead(key, w)

\* new continues old: it keeps old's entries from its own first LSN on, adds
\* extra, and names old's snapshot or a longer one.
Continues(new, old, extra) ==
  /\ FirstLsn(old) <= FirstLsn(new) /\ FirstLsn(new) <= NextLsn(old)
  /\ new.entries = Slice(old.entries, FirstLsn(new) - FirstLsn(old), Len(old.entries)) \o extra
  /\ new.snap = old.snap \/ old.snap.lsn < new.snap.lsn

\* What opening the log reads.
WalOK(hist, w, stored) ==
  /\ w = None => hist = << >>
  /\ w # None => /\ NextLsn(w) = Len(hist) /\ Past(w, hist, w)
                 /\ w.snap # NoSnap => w.snap \in stored

\* Every snapshot holds the entries up to its LSN.
SnapsOK(hist, objects) ==
  \A k \in DOMAIN objects : k.lsn < Len(hist) /\ objects[k] = Slice(hist, 0, k.lsn + 1)

\* A compactor's copy of the entries after its base, and its uploaded object.
JobOK(i, job, hist, w, stored) ==
  /\ job.st \in {"fetch", "publish", "unknown"} =>
       /\ job.lsn < Len(hist) /\ job.base.lsn <= job.lsn
       /\ job.body = Slice(hist, job.base.lsn + 1, job.lsn + 1)
  /\ job.st \in {"publish", "unknown"} => job.base = NoSnap
  /\ job.st = "done" => Kept([lsn |-> job.lsn, id |-> i], w, stored)

\* The entries that a PUT adds to the image it expects.
Carried(r) == IF r.expect = None THEN << >> ELSE EntriesFrom(r.data, NextLsn(r.expect))

\* A PUT without an answer.
RequestOK(r, w, stored) ==
  /\ r.expect = None => r.data = EmptyImage
  /\ r.expect # None => /\ Continues(r.data, r.expect, Carried(r))
                        /\ Len(r.data.entries) <= MaxLive
                        /\ r.data.snap # NoSnap => Kept(r.data.snap, w, stored)

\* The application state of a handle is the replay up to its image.
ViewOK(img, tag, st, hist, w) ==
  /\ Past(img, hist, w)
  /\ st = Slice(hist, 0, NextLsn(img))
  /\ tag # None => w # None

WriteOps == {"write", "write_batch"}

\* Which method runs at which point.
ControlOK(p, c) ==
  /\ p \in Opening => c.op = "open"
  /\ p = "idle" => c = NoCall
  /\ p \in {"get", "snap"} => c.op \in WriteOps \cup {"refresh", "flush", "close"}
  /\ p = "cas" => c.op \in WriteOps \cup {"flush", "close"}
  /\ p = "reconcile" => c.op \in WriteOps
  /\ p = "wait" => c.op \in {"wait", "flush", "close"}
  /\ p = "flush" => c.op \in {"flush", "close"}
  /\ p = "gc" => c.op \in {"gc", "flush", "close"}
  /\ c.op \notin WriteOps => c.batch = << >>

\* The image whose snapshot is being fetched is not the one whose snapshot was
\* missing before, and what was missing is dead.
FetchOK(p, c, img, hist, w) ==
  /\ p \in {"openSnap", "snap"} =>
       /\ c.got # None /\ Past(c.got, hist, w) /\ c.got.snap # NoSnap
       /\ c.got # c.missing /\ w # None
  /\ p = "snap" => FirstLsn(c.got) > NextLsn(img)
  /\ c.missing # None => Dead(c.missing.snap, w)

\* The fold of a handle covers entries it shows; when it is ready it is there.
FoldOK(p, k, img, w, stored) ==
  /\ k.st \in {"running", "ready"} => k.fold.lsn < NextLsn(img) /\ p \notin Opening
  /\ k.st = "ready" => Kept(k.fold, w, stored)
  /\ k.st \notin {"running", "ready"} => k.fold = NoSnap

\* Only dead snapshots are queued.
QueueOK(g, w) == \A key \in Range(g.queue) : Dead(key, w)

\* A writer holds an ETag, and its next image fits the limit.
PutOK(h, p, c, img, tag, k) ==
  /\ p = "cas" \/ (h \in Writers /\ p \notin Opening) => tag # None
  /\ p = "cas" => Len(EncodeView(img, ReadyFold(k), c.batch).entries) <= MaxLive

LocalOK(h, p, c, img, tag, st, k, g, hist, w, stored) ==
  /\ ViewOK(img, tag, st, hist, w)
  /\ ControlOK(p, c)
  /\ FetchOK(p, c, img, hist, w)
  /\ FoldOK(p, k, img, w, stored)
  /\ QueueOK(g, w)
  /\ PutOK(h, p, c, img, tag, k)

\* A running compaction and its job agree on the LSN.
LinkOK(k, work, started) ==
  k.st = "running" => k.fold.id \in 1 .. started /\ work[k.fold.id].lsn = k.fold.lsn

HandleOK(h) ==
  /\ LocalOK(h, pc[h], call[h], image[h], etag[h], state[h], comp[h], garbage[h],
             history, wal, DOMAIN snaps)
  /\ LinkOK(comp[h], jobs, spawned)

HandlesOK  == \A h \in Handles : HandleOK(h)
JobsOK     == \A i \in JobIds : JobOK(i, jobs[i], history, wal, DOMAIN snaps)
RequestsOK == \A r \in inflight : RequestOK(r, wal, DOMAIN snaps)
DoomedOK   == \A k \in doomed : Dead(k, wal)
AcksOK     == \A p \in acked : p[1] < Len(history) /\ history[p[1] + 1] = p[2]
StoreOK    == WalOK(history, wal, DOMAIN snaps) /\ SnapsOK(history, snaps)

SafeInv ==
  /\ StoreOK /\ HandlesOK /\ JobsOK /\ RequestsOK /\ DoomedOK /\ AcksOK /\ ~corrupt
-----------------------------------------------------------------------------
(* What an image, and one that continues it, hold                            *)

LEMMA EntriesFromSlice ==
  ASSUME NEW img \in Image, NEW lsn \in Nat, FirstLsn(img) <= lsn, lsn <= NextLsn(img)
  PROVE  EntriesFrom(img, lsn) = Slice(img.entries, lsn - FirstLsn(img), Len(img.entries))
<1>1. FirstLsn(img) \in Nat
  BY LsnTypes
<1>2. (IF lsn > FirstLsn(img) THEN lsn - FirstLsn(img) ELSE 0) = lsn - FirstLsn(img)
  BY <1>1
<1> QED
  BY <1>2, Zenon DEF EntriesFrom, Slice

\* entries_from on an image that agrees with the history.
LEMMA EntriesFromHistory ==
  ASSUME NEW img \in Image, NEW hist \in Seq(Entry), Agrees(img, hist),
         NEW lsn \in Nat, FirstLsn(img) <= lsn, lsn <= NextLsn(img)
  PROVE  EntriesFrom(img, lsn) = Slice(hist, lsn, NextLsn(img))
<1>1. /\ FirstLsn(img) \in Nat /\ NextLsn(img) \in Nat /\ Len(img.entries) \in Nat
      /\ NextLsn(img) = FirstLsn(img) + Len(img.entries) /\ Len(hist) \in Nat
  BY LsnTypes, LenProperties
<1> DEFINE a == FirstLsn(img)
           b == NextLsn(img)
           m == lsn - FirstLsn(img)
           n == Len(img.entries)
<1>2. /\ a \in Nat /\ b \in Nat /\ m \in Nat /\ n \in Nat /\ a <= b /\ b <= Len(hist)
      /\ m <= n /\ n <= b - a /\ a + m = lsn /\ a + n = b
  BY <1>1 DEF Agrees
<1>3. EntriesFrom(img, lsn) = Slice(Slice(hist, a, b), m, n)
  BY EntriesFromSlice DEF Agrees
<1> HIDE DEF a, b, m, n
<1>4. Slice(Slice(hist, a, b), m, n) = Slice(hist, a + m, a + n)
  BY <1>2, SliceOfSlice
<1> QED
  BY <1>2, <1>3, <1>4 DEF b

\* What a continuation adds comes after the old image.
LEMMA ContinuesEnd ==
  ASSUME NEW new \in Image, NEW old \in Image, NEW extra \in Seq(Entry),
         Continues(new, old, extra)
  PROVE  /\ NextLsn(new) = NextLsn(old) + Len(extra) /\ Len(extra) \in Nat
         /\ EntriesFrom(new, NextLsn(old)) = extra
<1>1. /\ FirstLsn(new) \in Nat /\ NextLsn(new) \in Nat /\ Len(new.entries) \in Nat
      /\ NextLsn(new) = FirstLsn(new) + Len(new.entries)
      /\ FirstLsn(old) \in Nat /\ NextLsn(old) \in Nat /\ Len(old.entries) \in Nat
      /\ NextLsn(old) = FirstLsn(old) + Len(old.entries)
      /\ new.entries \in Seq(Entry) /\ old.entries \in Seq(Entry)
  BY LsnTypes
<1> DEFINE m == FirstLsn(new) - FirstLsn(old)
           n == Len(old.entries)
           x == Slice(old.entries, m, n)
<1>2. m \in Nat /\ n \in Nat /\ m <= n
  BY <1>1 DEF Continues
<1>3. x \in Seq(Entry) /\ Len(x) = n - m
  <2>1. n <= Len(old.entries)
    BY <1>1
  <2> HIDE DEF m, n
  <2> QED BY <1>1, <1>2, <2>1, SliceProperties
<1>4. new.entries = x \o extra
  BY DEF Continues
<1> HIDE DEF x
<1>5. /\ Len(x \o extra) = Len(x) + Len(extra) /\ Len(extra) \in Nat
      /\ Slice(x \o extra, Len(x), Len(x) + Len(extra)) = extra
  BY <1>3, SliceGrow
<1>a. Len(new.entries) = Len(old.entries) - (FirstLsn(new) - FirstLsn(old)) + Len(extra)
  BY <1>3, <1>4, <1>5
<1>6. NextLsn(new) = NextLsn(old) + Len(extra)
  BY <1>1, <1>5, <1>a
<1>7. /\ FirstLsn(new) <= NextLsn(old) /\ NextLsn(old) <= NextLsn(new)
      /\ NextLsn(old) - FirstLsn(new) = Len(x)
      /\ Len(new.entries) = Len(x) + Len(extra)
  <2>1. FirstLsn(new) <= NextLsn(old)
    BY DEF Continues
  <2>2. Len(new.entries) = Len(x) + Len(extra)
    BY <1>4, <1>5
  <2>3. NextLsn(old) - FirstLsn(new) = Len(x)
    BY <1>1, <1>3
  <2> QED BY <1>1, <1>5, <1>6, <2>1, <2>2, <2>3
<1>8. EntriesFrom(new, NextLsn(old))
        = Slice(new.entries, NextLsn(old) - FirstLsn(new), Len(new.entries))
  BY <1>1, <1>7, EntriesFromSlice
<1> QED
  BY <1>4, <1>5, <1>6, <1>7, <1>8

\* encode_view continues the image it edits.
LEMMA ViewContinues ==
  ASSUME NEW img \in Image, NEW fold \in SnapRef, NEW extra \in Seq(Entry),
         fold = NoSnap \/ AppliesTo(fold, img)
  PROVE  /\ EncodeView(img, fold, extra) \in Image
         /\ Continues(EncodeView(img, fold, extra), img, extra)
<1> DEFINE v == EncodeView(img, fold, extra)
<1>1. /\ v \in Image /\ v.snap = IF fold = NoSnap THEN img.snap ELSE fold
      /\ FirstLsn(v) >= FirstLsn(img) /\ FirstLsn(v) <= NextLsn(img)
      /\ fold # NoSnap => FirstLsn(v) > FirstLsn(img)
  BY EncodeViewProperties
<1>2. /\ img.snap.lsn \in Int /\ v.snap.lsn \in Int
      /\ FirstLsn(v) = v.snap.lsn + 1 /\ FirstLsn(img) = img.snap.lsn + 1
  BY <1>1, LsnTypes DEF FirstLsn
<1>3. v.snap = img.snap \/ img.snap.lsn < v.snap.lsn
  <2> HIDE DEF v
  <2> QED BY <1>1, <1>2
<1> DEFINE skip == IF fold = NoSnap THEN 0 ELSE fold.lsn + 1 - FirstLsn(img)
<1>4. v.entries = Slice(img.entries, skip, Len(img.entries)) \o extra
  BY DEF EncodeView, Slice
<1>5. skip = FirstLsn(v) - FirstLsn(img)
  <2> HIDE DEF v
  <2> QED BY <1>1, <1>2
<1> HIDE DEF v, skip
<1>6. Continues(v, img, extra)
  BY <1>1, <1>2, <1>3, <1>4, <1>5 DEF Continues
<1> QED
  BY <1>1, <1>6 DEF v

\* A PUT that lands on the image it continues adds exactly its own entries.
LEMMA Landing ==
  ASSUME NEW new \in Image, NEW old \in Image, NEW extra \in Seq(Entry),
         NEW hist \in Seq(Entry), Continues(new, old, extra), Agrees(old, hist),
         NextLsn(old) = Len(hist)
  PROVE  /\ EntriesFrom(new, Len(hist)) = extra
         /\ hist \o extra \in Seq(Entry)
         /\ Agrees(new, hist \o extra) /\ NextLsn(new) = Len(hist \o extra)
<1>1. /\ FirstLsn(new) \in Nat /\ NextLsn(new) \in Nat /\ Len(new.entries) \in Nat
      /\ NextLsn(new) = FirstLsn(new) + Len(new.entries)
      /\ FirstLsn(old) \in Nat /\ NextLsn(old) \in Nat /\ Len(old.entries) \in Nat
      /\ NextLsn(old) = FirstLsn(old) + Len(old.entries)
  BY LsnTypes
<1>2. /\ NextLsn(new) = NextLsn(old) + Len(extra) /\ Len(extra) \in Nat
      /\ EntriesFrom(new, NextLsn(old)) = extra
  BY ContinuesEnd
<1> DEFINE t == hist \o extra
<1>3. /\ t \in Seq(Entry) /\ Len(t) = Len(hist) + Len(extra)
      /\ Len(hist) \in Nat
      /\ \A a, b \in Nat : a <= b /\ b <= Len(hist) => Slice(t, a, b) = Slice(hist, a, b)
      /\ Slice(t, Len(hist), Len(hist) + Len(extra)) = extra
  BY SliceGrow
<1> HIDE DEF t
<1>4. NextLsn(new) = Len(t)
  BY <1>2, <1>3
<1> DEFINE a == FirstLsn(old)
           b == NextLsn(old)
           m == FirstLsn(new) - FirstLsn(old)
           n == Len(old.entries)
<1>5. /\ a \in Nat /\ b \in Nat /\ m \in Nat /\ n \in Nat /\ a <= b /\ b <= Len(hist)
      /\ m <= n /\ n <= b - a /\ a + m = FirstLsn(new) /\ a + n = b
  BY <1>1 DEF Continues
<1>6. /\ old.entries = Slice(hist, a, b)
      /\ new.entries = Slice(old.entries, m, n) \o extra
  BY DEF Agrees, Continues
<1>7. b = Len(hist) /\ FirstLsn(new) <= b
  BY DEF Continues
<1> HIDE DEF a, b, m, n
<1>8. Slice(Slice(hist, a, b), m, n) = Slice(hist, FirstLsn(new), b)
  <2>1. Slice(Slice(hist, a, b), m, n) = Slice(hist, a + m, a + n)
    BY <1>5, SliceOfSlice
  <2> QED BY <1>5, <2>1
<1>9. Slice(hist, FirstLsn(new), b) = Slice(t, FirstLsn(new), b)
  BY <1>1, <1>3, <1>5, <1>7
<1>10. new.entries = Slice(t, FirstLsn(new), b) \o Slice(t, b, Len(t))
  BY <1>3, <1>6, <1>7, <1>8, <1>9
<1>11. Slice(t, FirstLsn(new), b) \o Slice(t, b, Len(t)) = Slice(t, FirstLsn(new), Len(t))
  <2> DEFINE f == FirstLsn(new)
             e == Len(t)
  <2>1. f \in Nat /\ b \in Nat /\ e \in Nat /\ f <= b /\ b <= e /\ e <= Len(t)
    BY <1>1, <1>2, <1>3, <1>5, <1>7
  <2> HIDE DEF f, e
  <2>2. Slice(t, f, b) \o Slice(t, b, e) = Slice(t, f, e)
    BY <1>3, <2>1, SliceConcat
  <2> QED BY <2>2 DEF f, e
<1>12. Agrees(new, t)
  BY <1>1, <1>4, <1>10, <1>11 DEF Agrees
<1> QED
  BY <1>2, <1>3, <1>4, <1>12 DEF t
-----------------------------------------------------------------------------
(* What the steps of the others may do to the history, the WAL object and    *)
(* the snapshots                                                             *)

\* The history grows, the named snapshot is replaced by longer ones only, and
\* what is deleted is dead.
Grows(hist, w, stored, hist2, w2, stored2) ==
  /\ \E extra \in Seq(Entry) : hist2 = hist \o extra
  /\ Named(w2) = Named(w) \/ Named(w).lsn < Named(w2).lsn
  /\ w # None => w2 # None
  /\ \A key \in SnapRef : Kept(key, w, stored) => Kept(key, w2, stored2)

LEMMA NamedType ==
  ASSUME NEW w \in Image \cup {None}
  PROVE  Named(w) \in SnapRef /\ Named(w).lsn \in Int /\ Named(w).lsn >= -1
<1>1. Named(w) \in SnapRef
  BY LsnTypes, ConstantTypes DEF Named
<1> QED
  BY <1>1 DEF SnapRef, Key, NoSnap, Lsn

LEMMA SnapRefLsn ==
  ASSUME NEW key \in SnapRef
  PROVE  key.lsn \in Int /\ key.lsn >= -1 /\ (key # NoSnap => key \in Key /\ key.lsn \in Nat)
BY DEF SnapRef, Key, NoSnap, Lsn

LEMMA DeadGrows ==
  ASSUME NEW w \in Image \cup {None}, NEW w2 \in Image \cup {None}, NEW key \in SnapRef,
         Named(w2) = Named(w) \/ Named(w).lsn < Named(w2).lsn, Dead(key, w)
  PROVE  Dead(key, w2)
BY NamedType, SnapRefLsn DEF Dead

\* A slice of the history stays what it is.
LEMMA HistoryGrows ==
  ASSUME NEW hist \in Seq(Entry), NEW hist2, NEW extra \in Seq(Entry), hist2 = hist \o extra,
         NEW a \in Nat, NEW b \in Nat, a <= b, b <= Len(hist)
  PROVE  Slice(hist2, a, b) = Slice(hist, a, b) /\ b <= Len(hist2)
<1>1. /\ Len(hist \o extra) = Len(hist) + Len(extra) /\ Len(hist) \in Nat /\ Len(extra) \in Nat
      /\ \A c, d \in Nat : c <= d /\ d <= Len(hist) => Slice(hist \o extra, c, d) = Slice(hist, c, d)
  BY SliceGrow
<1> QED
  BY <1>1

LEMMA PastGrows ==
  ASSUME NEW img \in Image, NEW hist \in Seq(Entry), NEW hist2, NEW extra \in Seq(Entry),
         hist2 = hist \o extra, NEW w \in Image \cup {None}, NEW w2 \in Image \cup {None},
         Named(w2) = Named(w) \/ Named(w).lsn < Named(w2).lsn, Past(img, hist, w)
  PROVE  Past(img, hist2, w2)
<1>1. /\ FirstLsn(img) \in Nat /\ NextLsn(img) \in Nat /\ FirstLsn(img) <= NextLsn(img)
      /\ img.snap \in SnapRef /\ img.snap.lsn \in Int
  BY LsnTypes
<1>2. NextLsn(img) <= Len(hist) /\ img.entries = Slice(hist, FirstLsn(img), NextLsn(img))
  BY DEF Past, Agrees
<1>3. /\ Slice(hist2, FirstLsn(img), NextLsn(img)) = Slice(hist, FirstLsn(img), NextLsn(img))
      /\ NextLsn(img) <= Len(hist2)
  BY <1>1, <1>2, HistoryGrows
<1>4. img.snap = Named(w2) \/ img.snap.lsn < Named(w2).lsn
  BY <1>1, NamedType DEF Past
<1> QED
  BY <1>2, <1>3, <1>4 DEF Past, Agrees

LEMMA LocalGrows ==
  ASSUME NEW h, NEW p, NEW c \in Calls, NEW img \in Image, NEW tag, NEW st, NEW k \in Comps,
         NEW g \in Garbage, NEW hist \in Seq(Entry), NEW hist2,
         NEW w \in Image \cup {None}, NEW w2 \in Image \cup {None}, NEW stored, NEW stored2,
         Grows(hist, w, stored, hist2, w2, stored2),
         LocalOK(h, p, c, img, tag, st, k, g, hist, w, stored)
  PROVE  LocalOK(h, p, c, img, tag, st, k, g, hist2, w2, stored2)
<1>1. PICK extra \in Seq(Entry) : hist2 = hist \o extra
  BY DEF Grows
<1>2. Named(w2) = Named(w) \/ Named(w).lsn < Named(w2).lsn
  BY DEF Grows
<1>3. ViewOK(img, tag, st, hist2, w2)
  <2>1. Past(img, hist, w) /\ st = Slice(hist, 0, NextLsn(img)) /\ (tag # None => w # None)
    BY DEF LocalOK, ViewOK
  <2>2. Past(img, hist2, w2)
    BY <1>1, <1>2, <2>1, PastGrows
  <2>3. 0 \in Nat /\ NextLsn(img) \in Nat /\ 0 <= NextLsn(img) /\ NextLsn(img) <= Len(hist)
    BY <2>1, LsnTypes DEF Past, Agrees
  <2>4. Slice(hist2, 0, NextLsn(img)) = Slice(hist, 0, NextLsn(img))
    BY <1>1, <2>3, HistoryGrows
  <2> QED BY <2>1, <2>2, <2>4 DEF ViewOK, Grows
<1>4. FetchOK(p, c, img, hist2, w2)
  <2>1. c.got \in Image \cup {None} /\ c.missing \in Image \cup {None}
    BY DEF Calls
  <2>2. FetchOK(p, c, img, hist, w)
    BY DEF LocalOK
  <2>3. ASSUME p \in {"openSnap", "snap"} PROVE Past(c.got, hist2, w2)
    BY <1>1, <1>2, <2>1, <2>2, <2>3, PastGrows DEF FetchOK
  <2>4. ASSUME c.missing # None PROVE Dead(c.missing.snap, w2)
    <3>1. c.missing.snap \in SnapRef /\ Dead(c.missing.snap, w)
      BY <2>1, <2>2, <2>4, LsnTypes DEF FetchOK
    <3> QED BY <1>2, <3>1, DeadGrows
  <2>5. w # None => w2 # None
    BY DEF Grows
  <2> QED BY <2>2, <2>3, <2>4, <2>5, Zenon DEF FetchOK
<1>5. FoldOK(p, k, img, w2, stored2)
  <2>1. k.fold \in SnapRef
    BY DEF Comps
  <2>2. FoldOK(p, k, img, w, stored)
    BY DEF LocalOK
  <2>3. Kept(k.fold, w, stored) => Kept(k.fold, w2, stored2)
    BY <2>1 DEF Grows
  <2> QED BY <2>2, <2>3, Zenon DEF FoldOK
<1>6. QueueOK(g, w2)
  <2>1. Range(g.queue) \subseteq Key /\ QueueOK(g, w)
    BY RangeType DEF Garbage, LocalOK
  <2> QED BY <1>2, <2>1, DeadGrows DEF QueueOK, SnapRef
<1> QED
  BY <1>3, <1>4, <1>5, <1>6 DEF LocalOK

LEMMA JobGrows ==
  ASSUME NEW i \in JobIds, NEW job \in Jobs, NEW hist \in Seq(Entry), NEW hist2,
         NEW w \in Image \cup {None}, NEW w2 \in Image \cup {None}, NEW stored, NEW stored2,
         Grows(hist, w, stored, hist2, w2, stored2), JobOK(i, job, hist, w, stored)
  PROVE  JobOK(i, job, hist2, w2, stored2)
<1>1. PICK extra \in Seq(Entry) : hist2 = hist \o extra
  BY DEF Grows
<1>2. job.lsn \in Nat /\ job.base \in SnapRef
  BY DEF Jobs
<1>3. ASSUME job.st \in {"fetch", "publish", "unknown"}
      PROVE  job.lsn < Len(hist2) /\ job.body = Slice(hist2, job.base.lsn + 1, job.lsn + 1)
  <2>1. /\ job.lsn < Len(hist) /\ job.base.lsn <= job.lsn
        /\ job.body = Slice(hist, job.base.lsn + 1, job.lsn + 1)
    BY <1>3 DEF JobOK
  <2> DEFINE a == job.base.lsn + 1
             b == job.lsn + 1
  <2>2. a \in Nat /\ b \in Nat /\ a <= b /\ b <= Len(hist)
    BY <1>2, <2>1, SnapRefLsn, LenProperties
  <2>3. job.body = Slice(hist, a, b)
    BY <2>1
  <2> HIDE DEF a, b
  <2>4. Slice(hist2, a, b) = Slice(hist, a, b) /\ b <= Len(hist2)
    BY <1>1, <2>2, HistoryGrows
  <2>5. Len(hist2) \in Nat
    BY <1>1, SliceGrow
  <2>6. job.lsn < Len(hist2)
    BY <1>2, <2>4, <2>5 DEF b
  <2> QED BY <2>3, <2>4, <2>6 DEF a, b
<1>4. ASSUME job.st = "done" PROVE Kept([lsn |-> job.lsn, id |-> i], w2, stored2)
  <2> DEFINE key == [lsn |-> job.lsn, id |-> i]
  <2>1. key \in SnapRef
    BY <1>2 DEF SnapRef, Key, Lsn, JobIds
  <2>2. Kept(key, w, stored)
    BY <1>4 DEF JobOK
  <2> HIDE DEF key
  <2>3. Kept(key, w2, stored2)
    BY <2>1, <2>2 DEF Grows
  <2> QED BY <2>3 DEF key
<1> QED
  BY <1>3, <1>4, Zenon DEF JobOK

LEMMA RequestGrows ==
  ASSUME NEW r \in Requests, NEW hist, NEW hist2, NEW w, NEW w2, NEW stored, NEW stored2,
         Grows(hist, w, stored, hist2, w2, stored2), RequestOK(r, w, stored)
  PROVE  RequestOK(r, w2, stored2)
<1>1. r.data.snap \in SnapRef
  BY LsnTypes DEF Requests
<1>2. Kept(r.data.snap, w, stored) => Kept(r.data.snap, w2, stored2)
  BY <1>1 DEF Grows
<1> QED
  BY <1>2, Zenon DEF RequestOK
-----------------------------------------------------------------------------
(* Steps                                                                     *)

\* The step keeps everything that is not its own.
GrowsNow == Grows(history, wal, DOMAIN snaps, history', wal', DOMAIN snaps')

\* Compactors keep the LSN they were started for.
LsnsKept == spawned <= spawned' /\ \A i \in 1 .. spawned : jobs'[i].lsn = jobs[i].lsn

Same(g) ==
  /\ pc'[g] = pc[g] /\ call'[g] = call[g] /\ image'[g] = image[g] /\ etag'[g] = etag[g]
  /\ state'[g] = state[g] /\ comp'[g] = comp[g] /\ garbage'[g] = garbage[g]

\* Every handle is left alone, or is taken care of.
HandlesFine == \A g \in Handles : Same(g) \/ HandleOK(g)'

\* A step that does not touch the store.
LEMMA GrowsQuiet ==
  ASSUME TypeInv, UNCHANGED <<history, wal, snaps>>
  PROVE  GrowsNow
<1>1. history \in Seq(Entry) /\ << >> \in Seq(Entry)
  BY EmptySeq DEF TypeInv, OtherTypeOK
<1>2. history \o << >> = history
  BY <1>1, ConcatEmptySeq
<1> QED
  BY <1>1, <1>2 DEF GrowsNow, Grows

\* What holds of a handle holds of the same values after the step.
LEMMA LocalKept ==
  ASSUME TypeInv, TypeInv', SafeInv, GrowsNow, LsnsKept, NEW g \in Handles
  PROVE  /\ LocalOK(g, pc[g], call[g], image[g], etag[g], state[g], comp[g], garbage[g],
                    history', wal', DOMAIN snaps')
         /\ LinkOK(comp[g], jobs', spawned')
<1>1. /\ history \in Seq(Entry) /\ wal \in Image \cup {None} /\ wal' \in Image \cup {None}
      /\ spawned \in Nat /\ spawned' \in Nat
  BY BoundsAssumption DEF TypeInv, StoreTypeOK, JobTypeOK, OtherTypeOK
<1>2. call[g] \in Calls /\ image[g] \in Image /\ comp[g] \in Comps /\ garbage[g] \in Garbage
  BY DEF TypeInv, HandleInv, HandleTypeOK
<1>3. /\ LocalOK(g, pc[g], call[g], image[g], etag[g], state[g], comp[g], garbage[g],
                 history, wal, DOMAIN snaps)
      /\ LinkOK(comp[g], jobs, spawned)
  BY DEF SafeInv, HandlesOK, HandleOK
<1>4. LocalOK(g, pc[g], call[g], image[g], etag[g], state[g], comp[g], garbage[g],
              history', wal', DOMAIN snaps')
  BY <1>1, <1>2, <1>3, LocalGrows DEF GrowsNow
<1>5. LinkOK(comp[g], jobs', spawned')
  BY <1>1, <1>3 DEF LinkOK, LsnsKept
<1> QED
  BY <1>4, <1>5

\* What remains to be shown of a step.
LEMMA StepKeeps ==
  ASSUME TypeInv, TypeInv', SafeInv, GrowsNow, LsnsKept, HandlesFine, StoreOK',
         \A i \in JobIds : jobs'[i] = jobs[i] \/ JobOK(i, jobs'[i], history', wal', DOMAIN snaps'),
         \A r \in inflight' : r \in inflight \/ RequestOK(r, wal', DOMAIN snaps'),
         \A k \in doomed' : k \in doomed \/ Dead(k, wal'),
         AcksOK', ~corrupt'
  PROVE  SafeInv'
<1>1. /\ history \in Seq(Entry) /\ wal \in Image \cup {None} /\ wal' \in Image \cup {None}
      /\ inflight \subseteq Requests /\ doomed \subseteq Key /\ jobs \in [JobIds -> Jobs]
      /\ spawned \in Nat
  BY BoundsAssumption DEF TypeInv, StoreTypeOK, JobTypeOK, OtherTypeOK
<1>2. Named(wal') = Named(wal) \/ Named(wal).lsn < Named(wal').lsn
  BY DEF GrowsNow, Grows
<1>3. HandlesOK'
  <2> SUFFICES ASSUME NEW g \in Handles, Same(g) PROVE HandleOK(g)'
    BY DEF HandlesFine, HandlesOK
  <2>1. /\ LocalOK(g, pc[g], call[g], image[g], etag[g], state[g], comp[g], garbage[g],
                   history', wal', DOMAIN snaps')
        /\ LinkOK(comp[g], jobs', spawned')
    BY LocalKept
  <2> QED BY <2>1 DEF Same, HandleOK
<1>4. JobsOK'
  <2> SUFFICES ASSUME NEW i \in JobIds PROVE JobOK(i, jobs'[i], history', wal', DOMAIN snaps')
    BY DEF JobsOK
  <2>1. jobs[i] \in Jobs /\ JobOK(i, jobs[i], history, wal, DOMAIN snaps)
    BY <1>1 DEF SafeInv, JobsOK
  <2>2. JobOK(i, jobs[i], history', wal', DOMAIN snaps')
    BY <1>1, <2>1, JobGrows DEF GrowsNow
  <2> QED BY <2>2
<1>5. RequestsOK'
  <2> SUFFICES ASSUME NEW r \in inflight, r \in inflight' PROVE RequestOK(r, wal', DOMAIN snaps')
    BY DEF RequestsOK
  <2>1. r \in Requests /\ RequestOK(r, wal, DOMAIN snaps)
    BY <1>1 DEF SafeInv, RequestsOK
  <2> QED BY <2>1, RequestGrows DEF GrowsNow
<1>6. DoomedOK'
  <2> SUFFICES ASSUME NEW k \in doomed, k \in doomed' PROVE Dead(k, wal')
    BY DEF DoomedOK
  <2>1. k \in SnapRef /\ Dead(k, wal)
    BY <1>1 DEF SafeInv, DoomedOK, SnapRef
  <2> QED BY <1>1, <1>2, <2>1, DeadGrows
<1> QED
  BY <1>3, <1>4, <1>5, <1>6 DEF SafeInv

\* A step of one handle: it keeps its part when the new values do.
LEMMA OneMoves ==
  ASSUME TypeInv, NEW h \in Handles, NEW p, NEW c, NEW img, NEW tag, NEW st, NEW k, NEW g,
         pc' = [pc EXCEPT ![h] = p], call' = [call EXCEPT ![h] = c],
         image' = [image EXCEPT ![h] = img], etag' = [etag EXCEPT ![h] = tag],
         state' = [state EXCEPT ![h] = st], comp' = [comp EXCEPT ![h] = k],
         garbage' = [garbage EXCEPT ![h] = g],
         LocalOK(h, p, c, img, tag, st, k, g, history', wal', DOMAIN snaps'),
         LinkOK(k, jobs', spawned')
  PROVE  HandlesFine
<1>1. \A f \in Handles \ {h} : Same(f)
  BY DEF TypeInv, HandleInv, HandleTypeOK, Same
<1>2. /\ pc'[h] = p /\ call'[h] = c /\ image'[h] = img /\ etag'[h] = tag /\ state'[h] = st
      /\ comp'[h] = k /\ garbage'[h] = g
  BY DEF TypeInv, HandleInv, HandleTypeOK
<1>3. HandleOK(h)'
  BY <1>2 DEF HandleOK
<1> QED
  BY <1>1, <1>3 DEF HandlesFine

\* Functions that a step leaves alone.
LEMMA SameCore ==
  ASSUME TypeInv, NEW h \in Handles, UNCHANGED coreVars
  PROVE  /\ image' = [image EXCEPT ![h] = image[h]] /\ etag' = [etag EXCEPT ![h] = etag[h]]
         /\ state' = [state EXCEPT ![h] = state[h]]
BY DEF TypeInv, HandleInv, HandleTypeOK, coreVars

LEMMA SameWriter ==
  ASSUME TypeInv, NEW h \in Handles, UNCHANGED writerVars
  PROVE  comp' = [comp EXCEPT ![h] = comp[h]] /\ garbage' = [garbage EXCEPT ![h] = garbage[h]]
BY DEF TypeInv, HandleInv, HandleTypeOK, writerVars
-----------------------------------------------------------------------------
(* The parts that the actions share                                          *)

LEMMA EmptyPast ==
  ASSUME NEW hist \in Seq(Entry), NEW w \in Image \cup {None}
  PROVE  /\ Past(EmptyImage, hist, w) /\ NextLsn(EmptyImage) = 0
         /\ << >> = Slice(hist, 0, NextLsn(EmptyImage))
<1>1. EmptyImage.snap = NoSnap /\ EmptyImage.entries = << >>
  BY DEF EmptyImage
<1>2. Len(<< >>) = 0
  BY EmptySeq
<1>3. FirstLsn(EmptyImage) = 0 /\ NextLsn(EmptyImage) = 0
  BY <1>1, <1>2 DEF FirstLsn, NextLsn, NoSnap
<1>4. Slice(hist, 0, 0) = << >> /\ Len(hist) \in Nat
  BY SliceEnds, LenProperties
<1>5. NoSnap = Named(w) \/ NoSnap.lsn < Named(w).lsn
  <2>1. NoSnap.lsn = -1
    BY DEF NoSnap
  <2>2. CASE Named(w) = NoSnap
    BY <2>2
  <2>3. CASE Named(w) # NoSnap
    <3>1. Named(w).lsn \in Nat
      BY <2>3, NamedType, SnapRefLsn
    <3> QED BY <2>1, <3>1
  <2> QED BY <2>2, <2>3
<1> QED
  BY <1>1, <1>2, <1>3, <1>4, <1>5, OptionsAssumption DEF Past, Agrees

\* No handle.
LEMMA LocalDown ==
  ASSUME NEW h, NEW hist \in Seq(Entry), NEW w \in Image \cup {None}, NEW stored
  PROVE  LocalOK(h, "down", NoCall, EmptyImage, None, << >>, NoFold, NoGarbage, hist, w, stored)
<1>1. ViewOK(EmptyImage, None, << >>, hist, w)
  BY EmptyPast DEF ViewOK
<1>2. ControlOK("down", NoCall)
  BY DEF ControlOK, NoCall, Opening, WriteOps
<1>3. FetchOK("down", NoCall, EmptyImage, hist, w)
  BY DEF FetchOK, NoCall
<1>4. FoldOK("down", NoFold, EmptyImage, w, stored)
  BY DEF FoldOK, NoFold
<1>5. QueueOK(NoGarbage, w)
  BY EmptySeq DEF QueueOK, NoGarbage, Range
<1>6. PutOK(h, "down", NoCall, EmptyImage, None, NoFold)
  BY DEF PutOK, Opening
<1> QED
  BY <1>1, <1>2, <1>3, <1>4, <1>5, <1>6 DEF LocalOK

LEMMA ForgetSafe ==
  ASSUME TypeInv, TypeInv', NEW h \in Handles, Forget(h)
  PROVE  HandlesFine
<1>1. history' \in Seq(Entry) /\ wal' \in Image \cup {None}
  BY DEF TypeInv, StoreTypeOK, OtherTypeOK
<1>2. LocalOK(h, "down", NoCall, EmptyImage, None, << >>, NoFold, NoGarbage,
              history', wal', DOMAIN snaps')
  BY <1>1, LocalDown
<1>3. LinkOK(NoFold, jobs', spawned')
  BY DEF LinkOK, NoFold
<1>4. /\ pc' = [pc EXCEPT ![h] = "down"] /\ call' = [call EXCEPT ![h] = NoCall]
      /\ image' = [image EXCEPT ![h] = EmptyImage] /\ etag' = [etag EXCEPT ![h] = None]
      /\ state' = [state EXCEPT ![h] = << >>] /\ comp' = [comp EXCEPT ![h] = NoFold]
      /\ garbage' = [garbage EXCEPT ![h] = NoGarbage]
  BY DEF Forget
<1> QED
  BY <1>2, <1>3, <1>4, OneMoves

\* A move of the control, the compaction and the cleanup queue of one handle.
LEMMA MoveSafe ==
  ASSUME TypeInv, TypeInv', SafeInv, GrowsNow, LsnsKept, NEW h \in Handles,
         NEW p, NEW c, NEW k, NEW g,
         pc' = [pc EXCEPT ![h] = p], call' = [call EXCEPT ![h] = c],
         comp' = [comp EXCEPT ![h] = k], garbage' = [garbage EXCEPT ![h] = g],
         UNCHANGED coreVars,
         ControlOK(p, c), FetchOK(p, c, image[h], history', wal'),
         FoldOK(p, k, image[h], wal', DOMAIN snaps'), QueueOK(g, wal'),
         LinkOK(k, jobs', spawned'), PutOK(h, p, c, image[h], etag[h], k)
  PROVE  HandlesFine
<1>1. ViewOK(image[h], etag[h], state[h], history', wal')
  BY LocalKept DEF LocalOK
<1>2. LocalOK(h, p, c, image[h], etag[h], state[h], k, g, history', wal', DOMAIN snaps')
  BY <1>1 DEF LocalOK
<1>3. /\ image' = [image EXCEPT ![h] = image[h]] /\ etag' = [etag EXCEPT ![h] = etag[h]]
      /\ state' = [state EXCEPT ![h] = state[h]]
  BY SameCore
<1> QED
  BY <1>2, <1>3, OneMoves

\* A move of the control alone.
LEMMA ControlSafe ==
  ASSUME TypeInv, TypeInv', SafeInv, GrowsNow, LsnsKept, NEW h \in Handles, NEW p, NEW c,
         pc' = [pc EXCEPT ![h] = p], call' = [call EXCEPT ![h] = c],
         UNCHANGED <<coreVars, writerVars>>,
         ControlOK(p, c), FetchOK(p, c, image[h], history', wal'),
         p \in Opening <=> pc[h] \in Opening,
         p = "cas" => /\ etag[h] # None
                      /\ Len(EncodeView(image[h], ReadyFold(comp[h]), c.batch).entries) <= MaxLive
  PROVE  HandlesFine
<1>1. /\ FoldOK(pc[h], comp[h], image[h], wal', DOMAIN snaps') /\ QueueOK(garbage[h], wal')
      /\ PutOK(h, pc[h], call[h], image[h], etag[h], comp[h])
      /\ LinkOK(comp[h], jobs', spawned')
  BY LocalKept DEF LocalOK
<1>2. FoldOK(p, comp[h], image[h], wal', DOMAIN snaps')
  BY <1>1, Zenon DEF FoldOK
<1>3. PutOK(h, p, c, image[h], etag[h], comp[h])
  BY <1>1, Zenon DEF PutOK
<1>4. /\ comp' = [comp EXCEPT ![h] = comp[h]] /\ garbage' = [garbage EXCEPT ![h] = garbage[h]]
      /\ UNCHANGED coreVars
  BY SameWriter
<1> QED
  BY <1>1, <1>2, <1>3, <1>4, MoveSafe

\* Between methods.
LEMMA IdleControl ==
  ASSUME NEW img, NEW hist, NEW w
  PROVE  ControlOK("idle", NoCall) /\ FetchOK("idle", NoCall, img, hist, w)
BY DEF ControlOK, FetchOK, NoCall, Opening, WriteOps

LEMMA ReturnSafe ==
  ASSUME TypeInv, TypeInv', SafeInv, GrowsNow, LsnsKept, NEW h \in Handles, Return(h)
  PROVE  HandlesFine
<1>1. CASE call[h].op \in {"open", "close"}
  BY <1>1, ForgetSafe DEF Return
<1>2. CASE call[h].op \notin {"open", "close"}
  <2>1. ControlOK(pc[h], call[h])
    BY DEF SafeInv, HandlesOK, HandleOK, LocalOK
  <2>2. pc[h] \notin Opening /\ "idle" \notin Opening
    BY <1>2, <2>1 DEF ControlOK, Opening
  <2>3. /\ pc' = [pc EXCEPT ![h] = "idle"] /\ call' = [call EXCEPT ![h] = NoCall]
        /\ UNCHANGED <<coreVars, writerVars>>
    BY <1>2 DEF Return
  <2> QED BY <2>2, <2>3, IdleControl, ControlSafe
<1> QED
  BY <1>1, <1>2

\* A snapshot that is gone is dead, and it is not the one missed before: the
\* reader goes on, and nothing is reported as corrupt.
LEMMA MissingSafe ==
  ASSUME TypeInv, TypeInv', SafeInv, GrowsNow, LsnsKept, NEW h \in Handles,
         UNCHANGED <<history, wal, snaps>>, NEW again,
         \/ pc[h] = "openSnap" /\ again = "openGet"
         \/ pc[h] = "snap" /\ again = "get",
         call[h].got.snap \notin DOMAIN snaps, MissingSnapshot(h, again)
  PROVE  HandlesFine /\ ~corrupt'
<1> DEFINE c    == call[h]
           next == [c EXCEPT !.races = @ + 1, !.missing = c.got, !.got = None]
<1>1. /\ ControlOK(pc[h], c) /\ FetchOK(pc[h], c, image[h], history, wal)
      /\ WalOK(history, wal, DOMAIN snaps) /\ ~corrupt
  BY DEF SafeInv, StoreOK, HandlesOK, HandleOK, LocalOK
<1>2. /\ c.got # None /\ Past(c.got, history, wal) /\ c.got.snap # NoSnap
      /\ c.got # c.missing /\ wal # None
  BY <1>1 DEF FetchOK
<1>3. c \in Calls /\ c.got \in Image /\ wal \in Image
  BY <1>2 DEF TypeInv, HandleInv, HandleTypeOK, StoreTypeOK, Calls
<1>4. Dead(c.got.snap, wal)
  <2>1. c.got.snap # Named(wal)
    BY <1>1, <1>2 DEF WalOK, Named
  <2>2. c.got.snap.lsn < Named(wal).lsn
    BY <1>2, <2>1 DEF Past
  <2>3. c.got.snap.lsn \in Int /\ Named(wal).lsn \in Int
    BY <1>3, NamedType, LsnTypes
  <2> QED BY <2>1, <2>2, <2>3 DEF Dead
<1>5. ~corrupt'
  BY <1>1, <1>2 DEF MissingSnapshot
<1>6. CASE c.races + 1 = MaxRaces
  <2>1. Return(h)
    BY <1>6, Zenon DEF MissingSnapshot, ReturnNotApplied
  <2> QED BY <1>5, <2>1, ReturnSafe
<1>7. CASE c.races + 1 # MaxRaces
  <2>1. /\ pc' = [pc EXCEPT ![h] = again] /\ call' = [call EXCEPT ![h] = next]
        /\ UNCHANGED <<coreVars, writerVars>>
    BY <1>2, <1>7, Zenon DEF MissingSnapshot
  <2>2. next.op = c.op /\ next.batch = c.batch /\ next.missing = c.got
    BY <1>3 DEF Calls
  <2> HIDE DEF next
  <2>3. ControlOK(again, next)
    BY <1>1, <2>2 DEF ControlOK, Opening
  <2>4. FetchOK(again, next, image[h], history', wal')
    BY <1>4, <2>2 DEF FetchOK
  <2>5. (again \in Opening <=> pc[h] \in Opening) /\ again # "cas"
    BY DEF Opening
  <2>6. HandlesFine
    BY <2>1, <2>3, <2>4, <2>5, ControlSafe
  <2> QED BY <1>5, <2>6
<1> QED
  BY <1>6, <1>7

\* Core::open ends with a view of what is committed.
LEMMA OpenedSafe ==
  ASSUME TypeInv, TypeInv', SafeInv, GrowsNow, LsnsKept, NEW h \in Handles,
         pc[h] \in Opening, NEW img, NEW tag, NEW st, ViewOK(img, tag, st, history', wal'),
         h \in Writers => tag # None, Opened(h, img, tag, st)
  PROVE  HandlesFine
<1>1. /\ FoldOK(pc[h], comp[h], image[h], wal', DOMAIN snaps') /\ QueueOK(garbage[h], wal')
      /\ LinkOK(comp[h], jobs', spawned')
  BY LocalKept DEF LocalOK
<1>2. FoldOK("idle", comp[h], img, wal', DOMAIN snaps')
  BY <1>1 DEF FoldOK
<1>3. PutOK(h, "idle", NoCall, img, tag, comp[h])
  BY DEF PutOK
<1>4. LocalOK(h, "idle", NoCall, img, tag, st, comp[h], garbage[h], history', wal', DOMAIN snaps')
  BY <1>1, <1>2, <1>3, IdleControl DEF LocalOK
<1>5. /\ pc' = [pc EXCEPT ![h] = "idle"] /\ call' = [call EXCEPT ![h] = NoCall]
      /\ image' = [image EXCEPT ![h] = img] /\ etag' = [etag EXCEPT ![h] = tag]
      /\ state' = [state EXCEPT ![h] = st] /\ UNCHANGED writerVars
  BY DEF Opened
<1>6. comp' = [comp EXCEPT ![h] = comp[h]] /\ garbage' = [garbage EXCEPT ![h] = garbage[h]]
  BY <1>5, SameWriter
<1> QED
  BY <1>1, <1>4, <1>5, <1>6, OneMoves

\* The caller of refresh goes on.
LEMMA ProceedSafe ==
  ASSUME TypeInv, SafeInv, NEW h \in Handles, pc[h] \in {"get", "snap"}, Proceed(h)
  PROVE  \E p \in {"idle", "flush", "reconcile"}, c \in Calls :
           /\ pc' = [pc EXCEPT ![h] = p] /\ call' = [call EXCEPT ![h] = c]
           /\ ControlOK(p, c) /\ c.missing = None /\ c.batch = call[h].batch
<1> DEFINE c    == call[h]
           kept == [NoCall EXCEPT !.op = c.op, !.attempt = c.attempt, !.batch = c.batch]
           p    == CASE c.op = "refresh"             -> "idle"
                     [] c.op \in {"flush", "close"}  -> "flush"
                     [] OTHER                        -> "reconcile"
           next == IF c.op = "refresh" THEN NoCall ELSE kept
<1>1. ControlOK(pc[h], c)
  BY DEF SafeInv, HandlesOK, HandleOK, LocalOK
<1>2. /\ c.op \in WriteOps \cup {"refresh", "flush", "close"}
      /\ c.op \notin WriteOps => c.batch = << >>
  BY <1>1 DEF ControlOK
<1>3. c.op \in Ops /\ c.attempt \in Nat /\ c.batch \in Seq(Entry)
  BY DEF TypeInv, HandleInv, HandleTypeOK, Calls
<1>4. kept.op = c.op /\ kept.batch = c.batch /\ kept.missing = None /\ kept \in Calls
  BY <1>3, ConstantTypes DEF Calls, NoCall
<1>5. NoCall.batch = << >> /\ NoCall.missing = None /\ NoCall \in Calls
  BY ConstantTypes DEF NoCall
<1>6. pc' = [pc EXCEPT ![h] = p] /\ call' = [call EXCEPT ![h] = next]
  BY Zenon DEF Proceed
<1> HIDE DEF kept
<1>7. CASE c.op = "refresh"
  <2>1. p = "idle" /\ next = NoCall /\ c.batch = << >>
    BY <1>2, <1>7 DEF WriteOps
  <2>2. ControlOK("idle", NoCall)
    BY IdleControl
  <2> HIDE DEF p, next
  <2> QED BY <1>5, <1>6, <2>1, <2>2
<1>8. CASE c.op # "refresh"
  <2>1. next = kept
    BY <1>8
  <2>2. \/ p = "flush" /\ c.op \in {"flush", "close"}
        \/ p = "reconcile" /\ c.op \in WriteOps
    BY <1>2, <1>8 DEF WriteOps
  <2> HIDE DEF p, next
  <2>3. ControlOK(p, kept)
    BY <1>2, <1>4, <2>2 DEF ControlOK, Opening, WriteOps
  <2>4. p \in {"idle", "flush", "reconcile"}
    BY <2>2
  <2> QED BY <1>4, <1>6, <2>1, <2>3, <2>4
<1> QED
  BY <1>7, <1>8

\* The head and the tail of a queue.
LEMMA HeadInRange ==
  ASSUME NEW S, NEW q \in Seq(S), q # << >>
  PROVE  Head(q) \in Range(q) /\ Range(Tail(q)) \subseteq Range(q)
<1>1. /\ DOMAIN q = 1 .. Len(q) /\ Len(q) \in Nat /\ Len(q) # 0
  BY LenProperties, EmptySeq
<1>2. Head(q) = q[1] /\ 1 \in DOMAIN q
  BY <1>1, HeadTailProperties
<1>3. /\ Tail(q) \in Seq(S) /\ Len(Tail(q)) = Len(q) - 1
      /\ \A i \in 1 .. Len(Tail(q)) : Tail(q)[i] = q[i + 1]
  BY <1>1, HeadTailProperties
<1>4. DOMAIN Tail(q) = 1 .. Len(q) - 1
  BY <1>3, LenProperties
<1>5. ASSUME NEW i \in DOMAIN Tail(q) PROVE i + 1 \in DOMAIN q /\ Tail(q)[i] = q[i + 1]
  BY <1>1, <1>3, <1>4
<1> QED
  BY <1>2, <1>5 DEF Range

\* queue_obsolete takes a dead snapshot.
LEMMA QueueSafe ==
  ASSUME NEW g \in Garbage, NEW key \in SnapRef, NEW w, QueueOK(g, w),
         key = NoSnap \/ Dead(key, w)
  PROVE  QueueOK(QueueObsolete(g, key), w)
<1>1. g.queue \in Seq(Key) /\ Len(g.queue) \in Nat
  BY LenProperties DEF Garbage
<1>2. CASE key = NoSnap \/ key \in Range(g.queue)
  BY <1>2, Zenon DEF QueueObsolete
<1>3. CASE ~(key = NoSnap \/ key \in Range(g.queue)) /\ Len(g.queue) = MaxPendingDeletes
  <2>1. QueueObsolete(g, key) = [g EXCEPT !.overflowed = g.overflowed + 1]
    BY <1>3 DEF QueueObsolete
  <2>2. QueueObsolete(g, key).queue = g.queue
    BY <2>1 DEF Garbage
  <2> QED BY <2>2 DEF QueueOK
<1>4. CASE ~(key = NoSnap \/ key \in Range(g.queue)) /\ Len(g.queue) # MaxPendingDeletes
  <2> DEFINE q == Append(g.queue, key)
  <2>1. QueueObsolete(g, key) = [g EXCEPT !.queue = q]
    BY <1>4 DEF QueueObsolete
  <2>2. key \in Key
    BY <1>4 DEF SnapRef
  <2>3. /\ DOMAIN q = 1 .. Len(g.queue) + 1 /\ DOMAIN g.queue = 1 .. Len(g.queue)
        /\ \A i \in 1 .. Len(g.queue) : q[i] = g.queue[i]
        /\ q[Len(g.queue) + 1] = key
    BY <1>1, <2>2, AppendProperties, LenProperties
  <2> HIDE DEF q
  <2>4. QueueObsolete(g, key).queue = q
    <3>1. ASSUME NEW x PROVE [g EXCEPT !.queue = x].queue = x
      BY DEF Garbage
    <3> QED BY <2>1, <3>1
  <2>5. \A i \in DOMAIN q : Dead(q[i], w)
    <3> SUFFICES ASSUME NEW i \in DOMAIN q PROVE Dead(q[i], w)
      OBVIOUS
    <3>1. CASE i = Len(g.queue) + 1
      <4>1. q[i] = key
        BY <2>3, <3>1
      <4>2. Dead(key, w)
        BY <1>4
      <4> QED BY <4>1, <4>2
    <3>2. CASE i \in 1 .. Len(g.queue)
      BY <2>3, <3>2 DEF QueueOK, Range
    <3> QED BY <1>1, <2>3, <3>1, <3>2
  <2> QED BY <2>4, <2>5 DEF QueueOK, Range
<1> QED
  BY <1>2, <1>3, <1>4

\* discard_superseded_fold on an image that was stored: the fold that is given
\* up is dead, unless that image names it.
LEMMA DiscardSafe ==
  ASSUME NEW k \in Comps, NEW old, NEW img \in Image, NEW p, NEW q, q \notin Opening,
         NEW hist, NEW w \in Image \cup {None}, NEW stored,
         FoldOK(p, k, old, w, stored), Past(img, hist, w),
         k.st \in {"running", "ready"} => k.fold.lsn < NextLsn(img)
  PROVE  /\ FoldOK(q, DiscardSuperseded(k, img), img, w, stored)
         /\ DiscardedKey(k, img) = NoSnap \/ Dead(DiscardedKey(k, img), w)
         /\ DiscardSuperseded(k, img).st = "running" => DiscardSuperseded(k, img) = k
<1>1. CASE k.st # "ready" \/ AppliesTo(k.fold, img)
  <2>1. DiscardSuperseded(k, img) = k
    BY <1>1 DEF DiscardSuperseded
  <2>2. FoldOK(q, k, img, w, stored)
    BY DEF FoldOK
  <2>3. DiscardedKey(k, img) = NoSnap
    BY <2>1 DEF DiscardedKey, FoldOK
  <2> QED BY <2>1, <2>2, <2>3
<1>2. CASE ~(k.st # "ready" \/ AppliesTo(k.fold, img))
  <2> DEFINE st == IF img.snap = k.fold THEN "installed" ELSE "superseded"
  <2>1. DiscardSuperseded(k, img) = [st |-> st, fold |-> NoSnap]
    BY <1>2 DEF DiscardSuperseded
  <2>2. /\ k.fold \in SnapRef /\ img.snap \in SnapRef
        /\ FirstLsn(img) \in Nat /\ NextLsn(img) \in Nat /\ FirstLsn(img) = img.snap.lsn + 1
        /\ img.snap.lsn \in Int
    BY LsnTypes DEF Comps, FirstLsn
  <2>3. k.fold.lsn \in Int /\ Named(w).lsn \in Int
    BY <2>2, SnapRefLsn, NamedType
  <2>4. k.fold.lsn <= img.snap.lsn
    BY <1>2, <2>2, <2>3 DEF AppliesTo
  <2>5. img.snap # k.fold => Dead(k.fold, w)
    BY <2>2, <2>3, <2>4 DEF Past, Dead
  <2>6. FoldOK(q, [st |-> st, fold |-> NoSnap], img, w, stored)
    BY DEF FoldOK
  <2>7. DiscardedKey(k, img) = NoSnap \/ Dead(DiscardedKey(k, img), w)
    BY <2>1, <2>5 DEF DiscardedKey
  <2> QED BY <2>1, <2>6, <2>7
<1> QED
  BY <1>1, <1>2

\* integrate_compaction and discard_superseded_fold.
LEMMA SyncSafe ==
  ASSUME TypeInv, SafeInv, NEW h \in Handles, pc[h] \notin Opening
  PROVE  /\ \A q : q \notin Opening => FoldOK(q, Synced(h), image[h], wal, DOMAIN snaps)
         /\ QueueOK(SyncedGarbage(h), wal) /\ LinkOK(Synced(h), jobs, spawned)
<1>1. /\ comp[h] \in Comps /\ image[h] \in Image /\ garbage[h] \in Garbage
      /\ wal \in Image \cup {None} /\ jobs \in [JobIds -> Jobs] /\ spawned \in 0 .. MaxJobs
  BY DEF TypeInv, HandleInv, HandleTypeOK, StoreTypeOK, JobTypeOK
<1>2. /\ FoldOK(pc[h], comp[h], image[h], wal, DOMAIN snaps)
      /\ Past(image[h], history, wal) /\ QueueOK(garbage[h], wal)
      /\ LinkOK(comp[h], jobs, spawned) /\ JobsOK
  BY DEF SafeInv, HandlesOK, HandleOK, LocalOK, ViewOK
<1> DEFINE k == Integrated(comp[h])
<1>3. k \in Comps
  BY <1>1, IntegratedType
<1>4. FoldOK("idle", k, image[h], wal, DOMAIN snaps) /\ LinkOK(k, jobs, spawned)
  <2>0. "idle" \notin Opening
    BY DEF Opening
  <2>1. CASE comp[h].st # "running"
    BY <1>2, <2>0, <2>1 DEF Integrated, FoldOK, LinkOK
  <2>2. CASE comp[h].st = "running"
    <3> DEFINE i   == comp[h].fold.id
               job == jobs[i]
    <3>1. /\ i \in JobIds /\ job.lsn = comp[h].fold.lsn
          /\ comp[h].fold.lsn < NextLsn(image[h])
      BY <1>1, <1>2, <2>2, BoundsAssumption DEF LinkOK, FoldOK, JobIds
    <3>2. CASE job.st = "done"
      <4>1. k = [comp[h] EXCEPT !.st = "ready"]
        BY <2>2, <3>2 DEF Integrated
      <4>2. k.st = "ready" /\ k.fold = comp[h].fold
        BY <1>1, <4>1 DEF Comps
      <4>3. JobOK(i, job, history, wal, DOMAIN snaps)
        BY <1>2, <3>1 DEF JobsOK
      <4>4. comp[h].fold = [lsn |-> job.lsn, id |-> i]
        <5>1. comp[h].fold \in Key \cup {NoSnap}
          BY <1>1 DEF Comps, SnapRef
        <5> QED BY <3>1, <5>1 DEF Key, NoSnap
      <4>5. Kept(comp[h].fold, wal, DOMAIN snaps)
        BY <3>2, <4>3, <4>4 DEF JobOK
      <4> HIDE DEF k, job
      <4> QED BY <2>0, <3>1, <4>2, <4>5 DEF FoldOK, LinkOK
    <3>3. CASE job.st \in {"failed", "unknown"}
      <4>1. k = [st |-> "failed", fold |-> NoSnap]
        BY <2>2, <3>3 DEF Integrated
      <4> QED BY <4>1 DEF FoldOK, LinkOK
    <3>4. CASE job.st \notin {"done", "failed", "unknown"}
      <4>1. k = comp[h]
        BY <2>2, <3>4 DEF Integrated
      <4> QED BY <1>2, <2>0, <4>1 DEF FoldOK
    <3> QED BY <3>2, <3>3, <3>4
  <2> QED BY <2>1, <2>2
<1> HIDE DEF k
<1>5. k.st \in {"running", "ready"} => k.fold.lsn < NextLsn(image[h])
  BY <1>4 DEF FoldOK
<1> DEFINE d   == DiscardSuperseded(k, image[h])
           key == DiscardedKey(k, image[h])
<1>6. \A q : q \notin Opening => FoldOK(q, d, image[h], wal, DOMAIN snaps)
  BY <1>1, <1>2, <1>3, <1>4, <1>5, DiscardSafe
<1>7. "idle" \notin Opening
  BY DEF Opening
<1>8. (key = NoSnap \/ Dead(key, wal)) /\ (d.st = "running" => d = k)
  BY <1>1, <1>2, <1>3, <1>4, <1>5, <1>7, DiscardSafe
<1>9. key \in SnapRef
  BY <1>1, <1>3, DiscardType
<1> HIDE DEF d, key
<1>10. QueueOK(QueueObsolete(garbage[h], key), wal)
  BY <1>1, <1>2, <1>8, <1>9, QueueSafe
<1>11. LinkOK(d, jobs, spawned)
  BY <1>4, <1>8 DEF LinkOK
<1> QED
  BY <1>6, <1>10, <1>11 DEF Synced, SyncedGarbage, d, key, k

\* refresh takes over a newer image: the snapshot and the fold that it leaves
\* behind are dead.
LEMMA AdoptSafe ==
  ASSUME TypeInv, TypeInv', SafeInv, NEW h \in Handles, pc[h] \in {"get", "snap"},
         UNCHANGED <<history, wal, snaps, jobs, spawned>>,
         NEW img \in Image, NEW st, ViewOK(img, img, st, history, wal),
         NextLsn(image[h]) <= NextLsn(img),
         image[h].snap = img.snap \/ image[h].snap.lsn < img.snap.lsn,
         Adopt(h, img, st)
  PROVE  HandlesFine
<1>1. /\ comp[h] \in Comps /\ image[h] \in Image /\ garbage[h] \in Garbage
      /\ wal \in Image \cup {None}
  BY DEF TypeInv, HandleInv, HandleTypeOK, StoreTypeOK
<1>2. /\ FoldOK(pc[h], comp[h], image[h], wal, DOMAIN snaps)
      /\ QueueOK(garbage[h], wal) /\ LinkOK(comp[h], jobs, spawned) /\ Past(img, history, wal)
  BY DEF SafeInv, HandlesOK, HandleOK, LocalOK, ViewOK
<1>3. PICK p \in {"idle", "flush", "reconcile"}, c \in Calls :
         /\ pc' = [pc EXCEPT ![h] = p] /\ call' = [call EXCEPT ![h] = c]
         /\ ControlOK(p, c) /\ c.missing = None /\ c.batch = call[h].batch
  BY ProceedSafe DEF Adopt
<1> DEFINE k    == DiscardSuperseded(comp[h], img)
           gone == DiscardedKey(comp[h], img)
           old  == SupersededKey(h, img)
           g1   == QueueObsolete(garbage[h], gone)
           g2   == QueueObsolete(g1, old)
<1>4. comp[h].st \in {"running", "ready"} => comp[h].fold.lsn < NextLsn(img)
  <2>1. comp[h].fold \in SnapRef /\ NextLsn(image[h]) \in Nat /\ NextLsn(img) \in Nat
    BY <1>1, LsnTypes DEF Comps
  <2>2. comp[h].fold.lsn \in Int
    BY <2>1, SnapRefLsn
  <2> QED BY <1>2, <2>1, <2>2 DEF FoldOK
<1>5. p \notin Opening
  BY DEF Opening
<1>6. /\ FoldOK(p, k, img, wal, DOMAIN snaps) /\ (gone = NoSnap \/ Dead(gone, wal))
      /\ k.st = "running" => k = comp[h]
  BY <1>1, <1>2, <1>4, <1>5, DiscardSafe
<1>7. gone \in SnapRef
  BY <1>1, DiscardType
<1>8. old \in SnapRef /\ (old = NoSnap \/ Dead(old, wal))
  <2>1. CASE old = NoSnap
    BY <2>1, ConstantTypes
  <2>2. CASE old # NoSnap
    <3>1. old = image[h].snap /\ image[h].snap # img.snap
      BY <2>2, Zenon DEF SupersededKey
    <3>2. /\ image[h].snap \in SnapRef /\ image[h].snap.lsn \in Int /\ img.snap.lsn \in Int
          /\ Named(wal).lsn \in Int
      BY <1>1, LsnTypes, NamedType
    <3>3. image[h].snap.lsn < img.snap.lsn
      BY <3>1
    <3>4. Dead(image[h].snap, wal)
      BY <1>2, <3>2, <3>3 DEF Past, Dead
    <3> QED BY <3>1, <3>2, <3>4
  <2> QED BY <2>1, <2>2
<1>9. LinkOK(k, jobs, spawned)
  BY <1>2, <1>6 DEF LinkOK
<1>10. /\ image' = [image EXCEPT ![h] = img] /\ etag' = [etag EXCEPT ![h] = img]
       /\ state' = [state EXCEPT ![h] = st] /\ comp' = [comp EXCEPT ![h] = k]
       /\ garbage' = [garbage EXCEPT ![h] = g2]
  BY Zenon DEF Adopt
<1> HIDE DEF k, gone, old
<1>11. g1 \in Garbage /\ QueueOK(g1, wal)
  BY <1>1, <1>2, <1>6, <1>7, QueueType, QueueSafe
<1> HIDE DEF g1
<1>12. QueueOK(g2, wal)
  BY <1>8, <1>11, QueueSafe
<1> HIDE DEF g2
<1>13. FetchOK(p, c, img, history, wal)
  BY <1>3 DEF FetchOK
<1>14. PutOK(h, p, c, img, img, k)
  BY NoneIsNoImage DEF PutOK
<1>15. LocalOK(h, p, c, img, img, st, k, g2, history', wal', DOMAIN snaps')
  BY <1>3, <1>6, <1>12, <1>13, <1>14 DEF LocalOK
<1>16. LinkOK(k, jobs', spawned')
  BY <1>9
<1> QED
  BY <1>3, <1>10, <1>15, <1>16, OneMoves

\* A round of append reaches its PUT only with an image that fits the limit.
LEMMA TryInstallSafe ==
  ASSUME TypeInv, TypeInv', SafeInv, GrowsNow, LsnsKept, NEW w \in Writers, w \in Handles,
         pc[w] \notin Opening, NEW op \in WriteOps, NEW k \in Comps, NEW g,
         NEW batch \in Seq(Entry), NEW n \in Nat, NEW lost,
         TryInstall(w, op, k, batch, n, lost),
         comp' = [comp EXCEPT ![w] = k], garbage' = [garbage EXCEPT ![w] = g],
         UNCHANGED coreVars, FoldOK("idle", k, image[w], wal', DOMAIN snaps'),
         QueueOK(g, wal'), LinkOK(k, jobs', spawned')
  PROVE  HandlesFine
<1> DEFINE full == Len(Candidate(w, k, batch).entries) > MaxLive
           next == [NoCall EXCEPT !.op = op, !.attempt = n, !.batch = batch]
<1>1. PutOK(w, pc[w], call[w], image[w], etag[w], comp[w]) /\ etag[w] # None
  BY DEF SafeInv, HandlesOK, HandleOK, LocalOK, PutOK
<1>2. CASE batch = << >> \/ full
  <2>1. pc' = [pc EXCEPT ![w] = "idle"] /\ call' = [call EXCEPT ![w] = NoCall]
    BY <1>2 DEF TryInstall
  <2>2. PutOK(w, "idle", NoCall, image[w], etag[w], k)
    BY <1>1 DEF PutOK
  <2> QED BY <2>1, <2>2, IdleControl, MoveSafe
<1>3. CASE ~(batch = << >> \/ full)
  <2>1. pc' = [pc EXCEPT ![w] = "cas"] /\ call' = [call EXCEPT ![w] = next]
    BY <1>3 DEF TryInstall
  <2>3. next.op = op /\ next.batch = batch /\ next.missing = None
    BY DEF NoCall
  <2>4. Len(EncodeView(image[w], ReadyFold(k), batch).entries) <= MaxLive
    <3>1. k.st = "ready" => AppliesTo(k.fold, image[w])
      BY <2>1 DEF TypeInv, HandleInv, HandleTypeOK, ReadyApplies, coreVars
    <3>2. Candidate(w, k, batch) \in Image
      BY <3>1, CandidateType DEF TypeInv
    <3>3. Len(Candidate(w, k, batch).entries) \in Nat
      BY <3>2, LsnTypes
    <3>4. Len(Candidate(w, k, batch).entries) <= MaxLive
      BY <1>3, <3>3, OptionsAssumption
    <3> QED BY <3>4 DEF Candidate
  <2> HIDE DEF next
  <2>5. ControlOK("cas", next)
    BY <2>3 DEF ControlOK, Opening, WriteOps
  <2>6. FetchOK("cas", next, image[w], history', wal')
    BY <2>3 DEF FetchOK
  <2>7. FoldOK("cas", k, image[w], wal', DOMAIN snaps')
    BY DEF FoldOK, Opening
  <2>8. PutOK(w, "cas", next, image[w], etag[w], k)
    BY <1>1, <2>3, <2>4 DEF PutOK
  <2> QED BY <2>1, <2>5, <2>6, <2>7, <2>8, MoveSafe
<1> QED
  BY <1>2, <1>3
-----------------------------------------------------------------------------
(* The actions: reading                                                      *)

\* A step that leaves the store, the compactors and the answers alone.
LEMMA QuietGrows ==
  ASSUME TypeInv, UNCHANGED <<wal, snaps, history, jobs, spawned>>
  PROVE  GrowsNow /\ LsnsKept
<1>1. spawned \in Nat
  BY BoundsAssumption DEF TypeInv, JobTypeOK
<1> QED
  BY <1>1, GrowsQuiet DEF LsnsKept

\* Such a step may send a PUT of the WAL object or a DELETE.
LEMMA SendStep ==
  ASSUME TypeInv, TypeInv', SafeInv, UNCHANGED <<wal, snaps, jobVars, history, acked>>,
         \A r \in inflight' : r \in inflight \/ RequestOK(r, wal, DOMAIN snaps),
         \A k \in doomed' : k \in doomed \/ Dead(k, wal),
         HandlesFine, ~corrupt'
  PROVE  SafeInv'
<1>1. UNCHANGED <<wal, snaps, history, jobs, spawned, acked>>
  BY DEF jobVars
<1>2. GrowsNow /\ LsnsKept
  BY <1>1, QuietGrows
<1>3. StoreOK' /\ AcksOK'
  BY <1>1 DEF SafeInv, StoreOK, AcksOK
<1> QED
  BY <1>1, <1>2, <1>3, StepKeeps

LEMMA QuietStep ==
  ASSUME TypeInv, TypeInv', SafeInv, UNCHANGED <<storeVars, jobVars, history, acked>>,
         HandlesFine, ~corrupt'
  PROVE  SafeInv'
<1>1. UNCHANGED <<wal, snaps, jobVars, history, acked>> /\ inflight' = inflight /\ doomed' = doomed
  BY DEF storeVars
<1> QED
  BY <1>1, SendStep

\* The replay of an image on its snapshot.
LEMMA ReplayView ==
  ASSUME NEW img \in Image, NEW hist \in Seq(Entry), NEW w, w # None, Past(img, hist, w),
         NEW objects, SnapsOK(hist, objects), img.snap \in DOMAIN objects, img.snap # NoSnap
  PROVE  ViewOK(img, img, objects[img.snap] \o EntriesFrom(img, FirstLsn(img)), hist, w)
<1> DEFINE a == FirstLsn(img)
           b == NextLsn(img)
<1>1. /\ 0 \in Nat /\ a \in Nat /\ b \in Nat /\ 0 <= a /\ a <= b /\ b <= Len(hist)
      /\ a = img.snap.lsn + 1
  BY LsnTypes DEF Past, Agrees, FirstLsn
<1>2. objects[img.snap] = Slice(hist, 0, a)
  BY <1>1 DEF SnapsOK
<1>3. EntriesFrom(img, a) = Slice(hist, a, b)
  BY <1>1, EntriesFromHistory DEF Past
<1> HIDE DEF a, b
<1>4. Slice(hist, 0, a) \o Slice(hist, a, b) = Slice(hist, 0, b)
  BY <1>1, SliceConcat
<1> QED
  BY <1>2, <1>3, <1>4 DEF ViewOK, a, b

\* The WAL object that was read names a snapshot that was not missing before.
LEMMA FetchStarts ==
  ASSUME TypeInv, SafeInv, NEW h \in Handles, wal # None, wal.snap # NoSnap,
         NEW p \in {"openSnap", "snap"}, p = "snap" => FirstLsn(wal) > NextLsn(image[h])
  PROVE  FetchOK(p, [call[h] EXCEPT !.got = wal], image[h], history, wal)
<1> DEFINE c == [call[h] EXCEPT !.got = wal]
<1>1. c.got = wal /\ c.missing = call[h].missing
  BY DEF TypeInv, HandleInv, HandleTypeOK, Calls
<1>2. Past(wal, history, wal)
  BY DEF SafeInv, StoreOK, WalOK
<1>3. call[h].missing # None => Dead(call[h].missing.snap, wal)
  BY DEF SafeInv, HandlesOK, HandleOK, LocalOK, FetchOK
<1>4. wal # call[h].missing
  BY <1>3 DEF Dead, Named
<1> HIDE DEF c
<1> QED
  BY <1>1, <1>2, <1>3, <1>4 DEF FetchOK, c

LEMMA OpenGetSafe ==
  ASSUME TypeInv, TypeInv', SafeInv, NEW h \in Handles, OpenGet(h)
  PROVE  SafeInv'
<1>1. /\ UNCHANGED <<storeVars, jobVars, history, acked>> /\ corrupt' = corrupt
      /\ pc[h] \in Opening /\ pc[h] \notin {"openSnap"}
  BY DEF OpenGet, Opening
<1>2. UNCHANGED <<wal, snaps, history, jobs, spawned>>
  BY <1>1 DEF storeVars, jobVars
<1>3. GrowsNow /\ LsnsKept
  BY <1>2, QuietGrows
<1>4. /\ ControlOK(pc[h], call[h]) /\ FetchOK(pc[h], call[h], image[h], history, wal)
      /\ WalOK(history, wal, DOMAIN snaps) /\ ~corrupt
  BY DEF SafeInv, StoreOK, HandlesOK, HandleOK, LocalOK
<1>5. history \in Seq(Entry) /\ wal \in Image \cup {None} /\ call[h] \in Calls
  BY DEF TypeInv, OtherTypeOK, StoreTypeOK, HandleInv, HandleTypeOK
<1>6. HandlesFine
  <2>1. CASE ReturnNotApplied(h)
    BY <1>3, <2>1, ReturnSafe DEF ReturnNotApplied
  <2>2. CASE h \in Replicas /\ Opened(h, EmptyImage, None, << >>)
    <3>1. ViewOK(EmptyImage, None, << >>, history', wal')
      BY <1>2, <1>5, EmptyPast DEF ViewOK
    <3>2. h \notin Writers
      BY <2>2, HandlesAssumption
    <3> QED BY <1>1, <1>3, <2>2, <3>1, <3>2, OpenedSafe
  <2>3. CASE pc' = [pc EXCEPT ![h] = "openPut"] /\ UNCHANGED <<call, coreVars, writerVars>>
    <3>1. call' = [call EXCEPT ![h] = call[h]]
      BY <2>3, SameFunctions
    <3>2. ControlOK("openPut", call[h])
      BY <1>1, <1>4 DEF ControlOK, Opening
    <3>3. FetchOK("openPut", call[h], image[h], history', wal')
      BY <1>2, <1>4 DEF FetchOK
    <3>4. "openPut" \in Opening
      BY DEF Opening
    <3> QED BY <1>1, <1>3, <2>3, <3>1, <3>2, <3>3, <3>4, ControlSafe
  <2>4. CASE wal # None /\ wal.snap = NoSnap /\ Opened(h, wal, wal, wal.entries)
    <3>1. FirstLsn(wal) = 0
      BY <2>4 DEF FirstLsn, NoSnap
    <3>2. ViewOK(wal, wal, wal.entries, history', wal')
      BY <1>2, <1>4, <2>4, <3>1 DEF ViewOK, WalOK, Past, Agrees
    <3> QED BY <1>1, <1>3, <2>4, <3>2, OpenedSafe
  <2>5. CASE /\ wal # None /\ wal.snap # NoSnap
             /\ pc' = [pc EXCEPT ![h] = "openSnap"] /\ call' = [call EXCEPT ![h].got = wal]
             /\ UNCHANGED <<coreVars, writerVars>>
    <3> DEFINE c == [call[h] EXCEPT !.got = wal]
    <3>1. call' = [call EXCEPT ![h] = c]
      BY <2>5
    <3>2. FetchOK("openSnap", c, image[h], history', wal')
      BY <1>2, <2>5, FetchStarts
    <3>3. c.op = call[h].op /\ c.batch = call[h].batch
      BY <1>5 DEF Calls
    <3> HIDE DEF c
    <3>4. ControlOK("openSnap", c)
      BY <1>1, <1>4, <3>3 DEF ControlOK, Opening
    <3>5. "openSnap" \in Opening
      BY DEF Opening
    <3> QED BY <1>1, <1>3, <2>5, <3>1, <3>2, <3>4, <3>5, ControlSafe
  <2> QED BY <2>1, <2>2, <2>3, <2>4, <2>5 DEF OpenGet
<1> QED
  BY <1>1, <1>4, <1>6, QuietStep

LEMMA OpenSnapSafe ==
  ASSUME TypeInv, TypeInv', SafeInv, NEW h \in Handles, OpenSnap(h)
  PROVE  SafeInv'
<1> DEFINE got == call[h].got
<1>1. /\ UNCHANGED <<storeVars, jobVars, history, acked>> /\ pc[h] = "openSnap"
      /\ pc[h] \in Opening
  BY DEF OpenSnap, Opening
<1>2. UNCHANGED <<wal, snaps, history, jobs, spawned>>
  BY <1>1 DEF storeVars, jobVars
<1>3. GrowsNow /\ LsnsKept
  BY <1>2, QuietGrows
<1>4. /\ FetchOK(pc[h], call[h], image[h], history, wal)
      /\ SnapsOK(history, snaps) /\ ~corrupt
  BY DEF SafeInv, StoreOK, HandlesOK, HandleOK, LocalOK
<1>5. history \in Seq(Entry) /\ call[h] \in Calls
  BY DEF TypeInv, OtherTypeOK, HandleInv, HandleTypeOK
<1>6. /\ got # None /\ Past(got, history, wal) /\ got.snap # NoSnap /\ wal # None
      /\ got \in Image
  BY <1>1, <1>4, <1>5 DEF FetchOK, Calls
<1>7. HandlesFine /\ ~corrupt'
  <2>1. CASE ReturnNotApplied(h) /\ UNCHANGED corrupt
    BY <1>3, <1>4, <2>1, ReturnSafe DEF ReturnNotApplied
  <2>2. CASE /\ got.snap \in DOMAIN snaps /\ UNCHANGED corrupt
             /\ Opened(h, got, got, snaps[got.snap] \o EntriesFrom(got, FirstLsn(got)))
    <3> DEFINE st == snaps[got.snap] \o EntriesFrom(got, FirstLsn(got))
    <3>1. ViewOK(got, got, st, history', wal')
      BY <1>2, <1>4, <1>5, <1>6, <2>2, ReplayView
    <3> HIDE DEF st
    <3>2. Opened(h, got, got, st)
      BY <2>2 DEF st
    <3>3. HandlesFine
      BY <1>1, <1>3, <1>6, <3>1, <3>2, OpenedSafe
    <3> QED BY <1>4, <2>2, <3>3
  <2>3. CASE got.snap \notin DOMAIN snaps /\ MissingSnapshot(h, "openGet")
    BY <1>1, <1>2, <1>3, <2>3, MissingSafe
  <2> QED BY <2>1, <2>2, <2>3 DEF OpenSnap
<1> QED
  BY <1>1, <1>7, QuietStep

LEMMA RefreshGetSafe ==
  ASSUME TypeInv, TypeInv', SafeInv, NEW h \in Handles, RefreshGet(h)
  PROVE  SafeInv'
<1>1. /\ UNCHANGED <<storeVars, jobVars, history, acked>> /\ corrupt' = corrupt
      /\ pc[h] = "get" /\ pc[h] \notin Opening
  BY DEF RefreshGet, Opening
<1>2. UNCHANGED <<wal, snaps, history, jobs, spawned>>
  BY <1>1 DEF storeVars, jobVars
<1>3. GrowsNow /\ LsnsKept
  BY <1>2, QuietGrows
<1>4. /\ ControlOK(pc[h], call[h]) /\ FetchOK(pc[h], call[h], image[h], history, wal)
      /\ WalOK(history, wal, DOMAIN snaps) /\ ~corrupt
      /\ ViewOK(image[h], etag[h], state[h], history, wal)
  BY DEF SafeInv, StoreOK, HandlesOK, HandleOK, LocalOK
<1>5. /\ history \in Seq(Entry) /\ wal \in Image \cup {None} /\ call[h] \in Calls
      /\ image[h] \in Image
  BY DEF TypeInv, OtherTypeOK, StoreTypeOK, HandleInv, HandleTypeOK
<1>6. HandlesFine
  <2>1. CASE ReturnNotApplied(h)
    BY <1>3, <2>1, ReturnSafe DEF ReturnNotApplied
  <2>2. CASE Proceed(h) /\ UNCHANGED <<coreVars, writerVars>>
    <3>1. PICK p \in {"idle", "flush", "reconcile"}, c \in Calls :
             /\ pc' = [pc EXCEPT ![h] = p] /\ call' = [call EXCEPT ![h] = c]
             /\ ControlOK(p, c) /\ c.missing = None /\ c.batch = call[h].batch
      BY <1>1, <2>2, ProceedSafe
    <3>2. FetchOK(p, c, image[h], history', wal')
      BY <3>1 DEF FetchOK
    <3>3. p \notin Opening /\ p # "cas"
      BY DEF Opening
    <3> QED BY <1>1, <1>3, <2>2, <3>1, <3>2, <3>3, ControlSafe
  <2>3. CASE /\ wal \notin {None, etag[h]} /\ FirstLsn(wal) <= NextLsn(image[h])
             /\ Adopt(h, wal, state[h] \o EntriesFrom(wal, NextLsn(image[h])))
    <3> DEFINE a  == NextLsn(image[h])
               b  == NextLsn(wal)
               st == state[h] \o EntriesFrom(wal, a)
    <3>1. wal \in Image /\ Past(wal, history, wal) /\ b = Len(history)
      BY <1>4, <1>5, <2>3 DEF WalOK
    <3>2. /\ 0 \in Nat /\ a \in Nat /\ b \in Nat /\ 0 <= a /\ a <= b /\ b <= Len(history)
          /\ FirstLsn(wal) <= a
      BY <1>4, <1>5, <2>3, <3>1, LsnTypes DEF ViewOK, Past, Agrees
    <3>3. EntriesFrom(wal, a) = Slice(history, a, b)
      BY <1>5, <3>1, <3>2, EntriesFromHistory DEF Past
    <3>4. state[h] = Slice(history, 0, a)
      BY <1>4 DEF ViewOK
    <3>5. image[h].snap = wal.snap \/ image[h].snap.lsn < wal.snap.lsn
      BY <1>4, <2>3 DEF ViewOK, Past, Named
    <3>6. Adopt(h, wal, st)
      BY <2>3
    <3> HIDE DEF a, b
    <3>7. Slice(history, 0, a) \o Slice(history, a, b) = Slice(history, 0, b)
      BY <1>5, <3>2, SliceConcat
    <3>8. st = Slice(history, 0, b)
      BY <3>3, <3>4, <3>7
    <3> HIDE DEF st
    <3>9. ViewOK(wal, wal, st, history, wal)
      BY <3>1, <3>8 DEF ViewOK, b
    <3>10. NextLsn(image[h]) <= NextLsn(wal)
      BY <3>2 DEF a, b
    <3> QED BY <1>1, <1>2, <3>1, <3>5, <3>6, <3>9, <3>10, AdoptSafe
  <2>4. CASE /\ wal \notin {None, etag[h]} /\ FirstLsn(wal) > NextLsn(image[h])
             /\ pc' = [pc EXCEPT ![h] = "snap"] /\ call' = [call EXCEPT ![h].got = wal]
             /\ UNCHANGED <<coreVars, writerVars>>
    <3> DEFINE c == [call[h] EXCEPT !.got = wal]
    <3>1. call' = [call EXCEPT ![h] = c]
      BY <2>4
    <3>2. wal # None /\ wal.snap # NoSnap
      BY <1>5, <2>4, LsnTypes DEF FirstLsn, NoSnap
    <3>3. FetchOK("snap", c, image[h], history', wal')
      BY <1>2, <2>4, <3>2, FetchStarts
    <3>4. c.op = call[h].op /\ c.batch = call[h].batch
      BY <1>5 DEF Calls
    <3> HIDE DEF c
    <3>5. ControlOK("snap", c)
      BY <1>1, <1>4, <3>4 DEF ControlOK, Opening
    <3>6. "snap" \notin Opening
      BY DEF Opening
    <3> QED BY <1>1, <1>3, <2>4, <3>1, <3>3, <3>5, <3>6, ControlSafe
  <2> QED BY <2>1, <2>2, <2>3, <2>4 DEF RefreshGet
<1> QED
  BY <1>1, <1>4, <1>6, QuietStep

LEMMA RefreshSnapSafe ==
  ASSUME TypeInv, TypeInv', SafeInv, NEW h \in Handles, RefreshSnap(h)
  PROVE  SafeInv'
<1> DEFINE got == call[h].got
<1>1. UNCHANGED <<storeVars, jobVars, history, acked>> /\ pc[h] = "snap"
  BY DEF RefreshSnap
<1>2. UNCHANGED <<wal, snaps, history, jobs, spawned>>
  BY <1>1 DEF storeVars, jobVars
<1>3. GrowsNow /\ LsnsKept
  BY <1>2, QuietGrows
<1>4. /\ FetchOK(pc[h], call[h], image[h], history, wal)
      /\ SnapsOK(history, snaps) /\ ~corrupt
  BY DEF SafeInv, StoreOK, HandlesOK, HandleOK, LocalOK
<1>5. history \in Seq(Entry) /\ call[h] \in Calls /\ image[h] \in Image
  BY DEF TypeInv, OtherTypeOK, HandleInv, HandleTypeOK
<1>6. /\ got # None /\ Past(got, history, wal) /\ got.snap # NoSnap /\ wal # None
      /\ got \in Image /\ FirstLsn(got) > NextLsn(image[h])
  BY <1>1, <1>4, <1>5 DEF FetchOK, Calls
<1>7. HandlesFine /\ ~corrupt'
  <2>1. CASE ReturnNotApplied(h) /\ UNCHANGED corrupt
    BY <1>3, <1>4, <2>1, ReturnSafe DEF ReturnNotApplied
  <2>2. CASE /\ got.snap \in DOMAIN snaps /\ UNCHANGED corrupt
             /\ Adopt(h, got, snaps[got.snap] \o EntriesFrom(got, got.snap.lsn + 1))
    <3> DEFINE st == snaps[got.snap] \o EntriesFrom(got, FirstLsn(got))
    <3>1. ViewOK(got, got, st, history, wal)
      BY <1>4, <1>5, <1>6, <2>2, ReplayView
    <3>2. Adopt(h, got, st)
      BY <2>2 DEF FirstLsn
    <3> HIDE DEF st
    <3>3. /\ NextLsn(image[h]) <= NextLsn(got)
          /\ image[h].snap.lsn < got.snap.lsn
      <4>1. /\ NextLsn(image[h]) \in Nat /\ FirstLsn(image[h]) \in Nat
            /\ NextLsn(image[h]) >= FirstLsn(image[h])
            /\ FirstLsn(image[h]) = image[h].snap.lsn + 1 /\ image[h].snap.lsn \in Int
        BY <1>5, LsnTypes DEF FirstLsn
      <4>2. /\ NextLsn(got) \in Nat /\ FirstLsn(got) \in Nat /\ NextLsn(got) >= FirstLsn(got)
            /\ FirstLsn(got) = got.snap.lsn + 1 /\ got.snap.lsn \in Int
        BY <1>6, LsnTypes DEF FirstLsn
      <4> HIDE DEF got
      <4> QED BY <1>6, <4>1, <4>2
    <3>4. HandlesFine
      BY <1>1, <1>2, <1>6, <3>1, <3>2, <3>3, AdoptSafe
    <3> QED BY <1>4, <2>2, <3>4
  <2>3. CASE got.snap \notin DOMAIN snaps /\ MissingSnapshot(h, "get")
    BY <1>1, <1>2, <1>3, <2>3, MissingSafe
  <2> QED BY <2>1, <2>2, <2>3 DEF RefreshSnap
<1> QED
  BY <1>1, <1>7, QuietStep
-----------------------------------------------------------------------------
(* The actions: writing the WAL object                                       *)

\* A PUT of the WAL object takes effect, at once or late: exactly the entries
\* it carries are added, and a snapshot that it names is there.
LEMMA LandSafe ==
  ASSUME TypeInv, TypeInv', SafeInv, NEW r \in Requests, RequestOK(r, wal, DOMAIN snaps),
         PutIfMatch(r.expect, r.data), UNCHANGED snaps
  PROVE  /\ GrowsNow /\ StoreOK' /\ history' = history \o Carried(r)
         /\ wal' = r.data /\ Carried(r) \in Seq(Entry)
<1>1. /\ wal = r.expect /\ wal' = r.data
      /\ history' = history \o EntriesFrom(r.data, Len(history))
  BY DEF PutIfMatch
<1>2. /\ wal \in Image \cup {None} /\ r.data \in Image /\ history \in Seq(Entry)
      /\ wal' \in Image \cup {None} /\ Len(history) \in Nat /\ DOMAIN snaps \subseteq Key
      /\ history' \in Seq(Entry)
  BY LenProperties DEF TypeInv, StoreTypeOK, OtherTypeOK, Requests
<1>3. WalOK(history, wal, DOMAIN snaps) /\ SnapsOK(history, snaps)
  BY DEF SafeInv, StoreOK
<1>4. r.data # None
  BY <1>2, NoneIsNoImage
<1>5. /\ history' = history \o Carried(r) /\ Carried(r) \in Seq(Entry)
      /\ NextLsn(r.data) = Len(history') /\ Agrees(r.data, history')
      /\ Len(r.data.entries) <= MaxLive
      /\ r.data.snap = Named(wal) \/ Named(wal).lsn < r.data.snap.lsn
      /\ r.data.snap # NoSnap => r.data.snap \in DOMAIN snaps
  <2>1. CASE r.expect = None
    <3>1. r.data = EmptyImage /\ history = << >> /\ Carried(r) = << >>
      BY <1>1, <1>3, <2>1 DEF RequestOK, WalOK, Carried
    <3>2. << >> \in Seq(Entry) /\ Len(<< >>) = 0
      BY EmptySeq
    <3>3. EntriesFrom(EmptyImage, 0) = << >>
      <4>1. /\ FirstLsn(EmptyImage) = 0 /\ NextLsn(EmptyImage) = 0 /\ 0 \in Nat
            /\ EmptyImage.entries = << >> /\ EmptyImage \in Image
        BY <3>2, ConstantTypes DEF FirstLsn, NextLsn, EmptyImage, NoSnap
      <4>2. EntriesFrom(EmptyImage, 0) \in Seq(Entry) /\ Len(EntriesFrom(EmptyImage, 0)) = 0
        BY <4>1, EntriesFromProperties
      <4> QED BY <4>2, EmptySeq
    <3>4. history' = << >> /\ history' = history \o Carried(r)
      <4>1. << >> \o << >> = << >>
        BY <3>2, ConcatEmptySeq
      <4> QED BY <1>1, <3>1, <3>2, <3>3, <4>1
    <3>5. /\ Past(EmptyImage, history', wal) /\ NextLsn(EmptyImage) = 0
          /\ EmptyImage.snap = NoSnap
      BY <1>2, EmptyPast DEF EmptyImage
    <3>6. Named(wal) = NoSnap
      BY <1>1, <2>1 DEF Named
    <3> QED BY <3>1, <3>2, <3>4, <3>5, <3>6 DEF Past
  <2>2. CASE r.expect # None
    <3> DEFINE extra == Carried(r)
    <3>1. /\ wal \in Image /\ NextLsn(wal) = Len(history) /\ Agrees(wal, history)
          /\ Named(wal) = wal.snap
      BY <1>1, <1>2, <1>3, <2>2 DEF WalOK, Past, Named
    <3>2. extra = EntriesFrom(r.data, Len(history)) /\ extra \in Seq(Entry)
      BY <1>1, <1>2, <2>2, <3>1, EntriesFromProperties DEF Carried
    <3>3. /\ Continues(r.data, wal, extra) /\ Len(r.data.entries) <= MaxLive
          /\ r.data.snap # NoSnap => Kept(r.data.snap, wal, DOMAIN snaps)
      BY <1>1, <2>2 DEF RequestOK
    <3> HIDE DEF extra
    <3>4. Agrees(r.data, history \o extra) /\ NextLsn(r.data) = Len(history \o extra)
      <4> DEFINE data == r.data
      <4>1. data \in Image /\ Continues(data, wal, extra)
        BY <1>2, <3>3
      <4> HIDE DEF data
      <4>2. Agrees(data, history \o extra) /\ NextLsn(data) = Len(history \o extra)
        BY <1>2, <3>1, <3>2, <4>1, Landing
      <4> QED BY <4>2 DEF data
    <3>5. r.data.snap = Named(wal) \/ Named(wal).lsn < r.data.snap.lsn
      BY <3>1, <3>3 DEF Continues
    <3>6. ASSUME r.data.snap # NoSnap PROVE r.data.snap \in DOMAIN snaps
      <4>1. Named(wal).lsn \in Int /\ r.data.snap.lsn \in Int
        BY <1>2, NamedType, LsnTypes
      <4>2. ~Dead(r.data.snap, wal)
        BY <3>5, <4>1 DEF Dead
      <4> QED BY <3>3, <3>6, <4>2 DEF Kept
    <3>7. history' = history \o extra
      BY <1>1, <3>2
    <3> QED BY <3>2, <3>3, <3>4, <3>5, <3>6, <3>7 DEF extra
  <2> QED BY <2>1, <2>2
<1>6. Named(wal') = r.data.snap
  BY <1>1, <1>4 DEF Named
<1>7. GrowsNow
  <2>1. Named(wal') = Named(wal) \/ Named(wal).lsn < Named(wal').lsn
    BY <1>5, <1>6
  <2>2. \A key \in SnapRef : Dead(key, wal) => Dead(key, wal')
    BY <1>2, <2>1, DeadGrows
  <2> QED BY <1>1, <1>4, <1>5, <2>1, <2>2 DEF GrowsNow, Grows, Kept
<1>8. StoreOK'
  <2>1. WalOK(history', wal', DOMAIN snaps')
    BY <1>1, <1>4, <1>5, <1>6 DEF WalOK, Past
  <2>2. SnapsOK(history', snaps)
    <3> SUFFICES ASSUME NEW k \in DOMAIN snaps
                 PROVE  k.lsn < Len(history') /\ snaps[k] = Slice(history', 0, k.lsn + 1)
      BY DEF SnapsOK
    <3> DEFINE b == k.lsn + 1
    <3>1. k.lsn \in Nat /\ k.lsn < Len(history) /\ snaps[k] = Slice(history, 0, b)
      BY <1>2, <1>3 DEF SnapsOK, Key, Lsn
    <3>2. 0 \in Nat /\ b \in Nat /\ 0 <= b /\ b <= Len(history)
      BY <1>2, <3>1
    <3> HIDE DEF b
    <3>3. Slice(history', 0, b) = Slice(history, 0, b) /\ b <= Len(history')
      <4>1. PICK extra \in Seq(Entry) : history' = history \o extra
        BY <1>5
      <4>2. history \in Seq(Entry)
        BY <1>2
      <4> QED BY <3>2, <4>1, <4>2, HistoryGrows
    <3>4. k.lsn < Len(history')
      <4>1. Len(history') \in Nat
        BY <1>2, LenProperties
      <4> QED BY <3>1, <3>3, <4>1 DEF b
    <3> QED BY <3>1, <3>3, <3>4 DEF b
  <2> QED BY <2>1, <2>2 DEF StoreOK
<1> QED
  BY <1>1, <1>5, <1>7, <1>8

\* An LSN that was returned keeps its entry.
LEMMA AcksGrow ==
  ASSUME TypeInv, SafeInv, GrowsNow, NEW p \in acked
  PROVE  p[1] < Len(history') /\ history'[p[1] + 1] = p[2]
<1>1. history \in Seq(Entry) /\ p[1] \in Nat
  BY DEF TypeInv, OtherTypeOK
<1>2. PICK extra \in Seq(Entry) : history' = history \o extra
  BY DEF GrowsNow, Grows
<1>3. p[1] < Len(history) /\ history[p[1] + 1] = p[2]
  BY DEF SafeInv, AcksOK
<1>4. /\ Len(history \o extra) = Len(history) + Len(extra) /\ Len(history) \in Nat
      /\ Len(extra) \in Nat
      /\ \A i \in 1 .. Len(history) : (history \o extra)[i] = history[i]
  BY <1>1, ConcatProperties, LenProperties
<1>5. p[1] + 1 \in 1 .. Len(history)
  BY <1>1, <1>3, <1>4
<1> QED
  BY <1>1, <1>2, <1>3, <1>4, <1>5

\* The PUT that a handle is about to send.
LEMMA RequestSafe ==
  ASSUME TypeInv, ChainInv, SafeInv, NEW w \in Handles, pc[w] = "cas"
  PROVE  /\ RequestOK(Request(w), wal, DOMAIN snaps) /\ Request(w) \in Requests
         /\ Carried(Request(w)) = call[w].batch /\ image[w] = etag[w] /\ etag[w] # None
<1> DEFINE batch == call[w].batch
           fold  == ReadyFold(comp[w])
           v     == EncodeView(image[w], fold, batch)
<1>1. /\ image[w] \in Image /\ batch \in Seq(Entry) /\ comp[w] \in Comps
      /\ wal \in Image \cup {None}
      /\ comp[w].st = "ready" => AppliesTo(comp[w].fold, image[w])
  BY DEF TypeInv, HandleInv, HandleTypeOK, StoreTypeOK, Calls, ReadyApplies
<1>2. fold \in SnapRef /\ (fold = NoSnap \/ AppliesTo(fold, image[w]))
  BY <1>1 DEF ReadyFold, Comps, SnapRef
<1>3. /\ PutOK(w, "cas", call[w], image[w], etag[w], comp[w])
      /\ FoldOK("cas", comp[w], image[w], wal, DOMAIN snaps)
      /\ Past(image[w], history, wal) /\ WalOK(history, wal, DOMAIN snaps)
  BY DEF SafeInv, StoreOK, HandlesOK, HandleOK, LocalOK, ViewOK
<1>4. image[w] = etag[w] /\ etag[w] # None
  BY <1>3 DEF PutOK, ChainInv, HandleChain, ViewHeld
<1>5. v \in Image /\ Continues(v, image[w], batch)
  BY <1>1, <1>2, ViewContinues
<1>6. v.snap = IF fold = NoSnap THEN image[w].snap ELSE fold
  BY Zenon DEF EncodeView
<1>7. Len(v.entries) <= MaxLive
  BY <1>3 DEF PutOK
<1>8. Request(w) = [expect |-> etag[w], data |-> v]
  BY DEF Request, Candidate
<1> HIDE DEF v
<1>9. EntriesFrom(v, NextLsn(image[w])) = batch
  BY <1>1, <1>5, ContinuesEnd
<1>10. v.snap # NoSnap => Kept(v.snap, wal, DOMAIN snaps)
  <2>1. CASE fold # NoSnap
    <3>1. comp[w].st = "ready" /\ v.snap = comp[w].fold
      BY <1>6, <2>1 DEF ReadyFold
    <3> QED BY <1>3, <3>1 DEF FoldOK
  <2>2. CASE fold = NoSnap
    <3>1. v.snap = image[w].snap
      BY <1>6, <2>2
    <3>2. CASE image[w].snap = Named(wal)
      BY <1>3, <3>1, <3>2 DEF WalOK, Named, Kept
    <3>3. CASE image[w].snap.lsn < Named(wal).lsn
      <4>1. image[w].snap.lsn \in Int /\ Named(wal).lsn \in Int
        BY <1>1, LsnTypes, NamedType
      <4>2. Dead(image[w].snap, wal)
        BY <3>3, <4>1 DEF Dead
      <4> QED BY <3>1, <4>2 DEF Kept
    <3> QED BY <1>3, <3>2, <3>3 DEF Past
  <2> QED BY <2>1, <2>2
<1>11. Carried(Request(w)) = batch
  BY <1>4, <1>8, <1>9 DEF Carried
<1>12. RequestOK(Request(w), wal, DOMAIN snaps)
  <2>1. Request(w).expect = image[w] /\ Request(w).data = v /\ Request(w).expect # None
    BY <1>4, <1>8
  <2> QED BY <1>5, <1>7, <1>10, <1>11, <2>1 DEF RequestOK
<1>13. Request(w) \in Requests
  BY RequestType DEF TypeInv
<1> QED
  BY <1>4, <1>11, <1>12, <1>13

LEMMA OpenPutSafe ==
  ASSUME TypeInv, TypeInv', SafeInv, NEW w \in Handles, OpenPut(w)
  PROVE  SafeInv'
<1> DEFINE r == [expect |-> None, data |-> EmptyImage]
<1>1. /\ pc[w] = "openPut" /\ pc[w] \in Opening /\ UNCHANGED <<snaps, doomed, jobs, spawned, acked>>
      /\ UNCHANGED jobVars /\ corrupt' = corrupt
  BY DEF OpenPut, Opening, jobVars
<1>2. r \in Requests /\ r.expect = None /\ r.data = EmptyImage
  BY ConstantTypes DEF Requests
<1>3. /\ ControlOK(pc[w], call[w]) /\ FetchOK(pc[w], call[w], image[w], history, wal) /\ ~corrupt
  BY DEF SafeInv, HandlesOK, HandleOK, LocalOK
<1>4. RequestOK(r, wal, DOMAIN snaps)
  BY <1>2 DEF RequestOK
<1> HIDE DEF r
<1>5. CASE /\ PutIfMatch(None, EmptyImage) /\ Opened(w, EmptyImage, EmptyImage, << >>)
           /\ UNCHANGED inflight
  <2>1. GrowsNow /\ StoreOK' /\ wal' = EmptyImage
    BY <1>1, <1>2, <1>4, <1>5, LandSafe
  <2>2. LsnsKept
    <3>1. spawned \in Nat
      BY BoundsAssumption DEF TypeInv, JobTypeOK
    <3> QED BY <1>1, <3>1 DEF LsnsKept
  <2>3. EmptyImage # None
    BY ConstantTypes, NoneIsNoImage
  <2>4. ViewOK(EmptyImage, EmptyImage, << >>, history', wal')
    <3>1. history' \in Seq(Entry) /\ wal' \in Image \cup {None}
      BY DEF TypeInv, StoreTypeOK, OtherTypeOK
    <3> QED BY <2>1, <2>3, <3>1, EmptyPast DEF ViewOK
  <2>5. HandlesFine
    BY <1>1, <1>5, <2>1, <2>2, <2>3, <2>4, OpenedSafe
  <2>6. AcksOK'
    BY <1>1, <2>1, AcksGrow DEF AcksOK
  <2> QED BY <1>1, <1>3, <1>5, <2>1, <2>2, <2>5, <2>6, StepKeeps
<1>6. CASE UNCHANGED <<wal, history, inflight>> /\ ReturnNotApplied(w)
  <2>1. UNCHANGED <<storeVars, jobVars, history, acked>>
    BY <1>1, <1>6 DEF storeVars
  <2>2. HandlesFine
    BY <1>1, <1>6, QuietGrows, ReturnSafe DEF ReturnNotApplied
  <2> QED BY <1>1, <1>3, <2>1, <2>2, QuietStep
<1>7. CASE /\ UNCHANGED <<wal, history, inflight>> /\ pc' = [pc EXCEPT ![w] = "openGet"]
           /\ call' = [call EXCEPT ![w].races = @ + 1] /\ UNCHANGED <<coreVars, writerVars>>
  <2> DEFINE c == [call[w] EXCEPT !.races = call[w].races + 1]
  <2>1. UNCHANGED <<storeVars, jobVars, history, acked>>
    BY <1>1, <1>7 DEF storeVars
  <2>2. GrowsNow /\ LsnsKept
    BY <1>1, <1>7, QuietGrows
  <2>3. call' = [call EXCEPT ![w] = c]
    BY <1>7
  <2>4. c.op = call[w].op /\ c.missing = call[w].missing /\ c.batch = call[w].batch
    BY DEF TypeInv, HandleInv, HandleTypeOK, Calls
  <2> HIDE DEF c
  <2>5. ControlOK("openGet", c)
    BY <1>1, <1>3, <2>4 DEF ControlOK, Opening
  <2>6. FetchOK("openGet", c, image[w], history', wal')
    BY <1>3, <1>7, <2>4 DEF FetchOK
  <2>7. "openGet" \in Opening
    BY DEF Opening
  <2>8. HandlesFine
    BY <1>1, <1>7, <2>2, <2>3, <2>5, <2>6, <2>7, ControlSafe
  <2> QED BY <1>1, <1>3, <2>1, <2>8, QuietStep
<1>8. CASE ReturnNotApplied(w) /\ inflight' = inflight \cup {r} /\ UNCHANGED <<wal, history>>
  <2>1. HandlesFine
    BY <1>1, <1>8, QuietGrows, ReturnSafe DEF ReturnNotApplied
  <2> QED BY <1>1, <1>3, <1>4, <1>8, <2>1, SendStep
<1> QED
  BY <1>5, <1>6, <1>7, <1>8 DEF OpenPut, r

\* The PUT of a writer is rejected, fails or is not answered.
LEMMA PutLostSafe ==
  ASSUME TypeInv, TypeInv', ChainInv, SafeInv, NEW w \in Handles,
         PutRejected(w) \/ PutFailed(w) \/ PutUnknown(w)
  PROVE  SafeInv'
<1>1. pc[w] = "cas" /\ UNCHANGED <<wal, snaps, doomed, jobVars, history, acked, corrupt>>
  BY DEF PutRejected, PutFailed, PutUnknown, storeVars, obsVars
<1>2. GrowsNow /\ LsnsKept
  BY <1>1, QuietGrows DEF jobVars
<1>3. ~corrupt' /\ ControlOK(pc[w], call[w]) /\ FetchOK(pc[w], call[w], image[w], history, wal)
  BY <1>1 DEF SafeInv, HandlesOK, HandleOK, LocalOK
<1>4. CASE PutRejected(w)
  <2>1. /\ pc' = [pc EXCEPT ![w] = "get"] /\ UNCHANGED <<coreVars, writerVars>>
        /\ call' = [call EXCEPT ![w] = call[w]] /\ inflight' = inflight
    BY <1>4, SameFunctions DEF PutRejected, storeVars
  <2>2. ControlOK("get", call[w])
    BY <1>1, <1>3 DEF ControlOK, Opening
  <2>3. FetchOK("get", call[w], image[w], history', wal')
    BY <1>1, <1>3 DEF FetchOK
  <2>4. "get" \notin Opening /\ pc[w] \notin Opening
    BY <1>1 DEF Opening
  <2>5. HandlesFine
    BY <1>2, <2>1, <2>2, <2>3, <2>4, ControlSafe
  <2> QED BY <1>1, <1>3, <2>1, <2>5, SendStep
<1>5. CASE PutFailed(w) \/ PutUnknown(w)
  <2>1. Return(w) /\ inflight' \subseteq inflight \cup {Request(w)}
    BY <1>5 DEF PutFailed, PutUnknown, ReturnNotApplied, storeVars
  <2>2. HandlesFine
    BY <1>2, <2>1, ReturnSafe
  <2>3. RequestOK(Request(w), wal, DOMAIN snaps)
    BY <1>1, RequestSafe
  <2> HIDE DEF Request
  <2> QED BY <1>1, <1>3, <2>1, <2>2, <2>3, SendStep
<1> QED
  BY <1>4, <1>5

LEMMA DropSafe ==
  ASSUME TypeInv, TypeInv', ChainInv, SafeInv, NEW h \in Handles, Drop(h)
  PROVE  SafeInv'
<1> DEFINE put == [expect |-> None, data |-> EmptyImage]
           own == Request(h)
           key == Head(garbage[h].queue)
<1>1. UNCHANGED <<wal, snaps, jobVars, history, acked, corrupt>> /\ Forget(h)
  BY DEF Drop
<1>2. HandlesFine /\ ~corrupt'
  BY <1>1, ForgetSafe DEF SafeInv
<1>3. /\ RequestOK(put, wal, DOMAIN snaps)
      /\ pc[h] = "cas" => RequestOK(own, wal, DOMAIN snaps)
  BY RequestSafe DEF RequestOK
<1>4. garbage[h].queue # << >> => Dead(key, wal)
  <2> SUFFICES ASSUME garbage[h].queue # << >> PROVE Dead(key, wal)
    OBVIOUS
  <2>1. garbage[h].queue \in Seq(Key) /\ QueueOK(garbage[h], wal)
    BY DEF TypeInv, HandleInv, HandleTypeOK, Garbage, SafeInv, HandlesOK, HandleOK, LocalOK
  <2>2. key \in Range(garbage[h].queue)
    BY <2>1, HeadInRange
  <2> QED BY <2>1, <2>2 DEF QueueOK
<1>5. inflight' \in {inflight} \cup (IF pc[h] = "cas" THEN {inflight \cup {own}} ELSE {})
                              \cup (IF pc[h] = "openPut" THEN {inflight \cup {put}} ELSE {})
  BY Zenon DEF Drop
<1>6. doomed' \in {doomed} \cup (IF pc[h] = "gc" /\ garbage[h].queue # << >>
                                 THEN {doomed \cup {key}} ELSE {})
  BY Zenon DEF Drop
<1> HIDE DEF put, own, key
<1>7. \A r \in inflight' : r \in inflight \/ RequestOK(r, wal, DOMAIN snaps)
  BY <1>3, <1>5
<1>8. \A k \in doomed' : k \in doomed \/ Dead(k, wal)
  BY <1>4, <1>6
<1> QED
  BY <1>1, <1>2, <1>7, <1>8, SendStep
-----------------------------------------------------------------------------
(* The actions: flush and collect_garbage                                    *)

\* Removing a dead snapshot takes away nothing that can still be named.
LEMMA DeleteSafe ==
  ASSUME TypeInv, SafeInv, NEW key, Dead(key, wal), DeleteSnapshot(key),
         UNCHANGED <<wal, history>>
  PROVE  GrowsNow /\ StoreOK'
<1>1. /\ DOMAIN snaps' = DOMAIN snaps \ {key}
      /\ \A k \in DOMAIN snaps' : snaps'[k] = snaps[k]
  BY DEF DeleteSnapshot, Restrict
<1>2. WalOK(history, wal, DOMAIN snaps) /\ SnapsOK(history, snaps)
  BY DEF SafeInv, StoreOK
<1>3. GrowsNow
  <2>1. history \in Seq(Entry) /\ << >> \in Seq(Entry)
    BY EmptySeq DEF TypeInv, OtherTypeOK
  <2>2. history \o << >> = history
    BY <2>1, ConcatEmptySeq
  <2> QED BY <1>1, <2>1, <2>2 DEF GrowsNow, Grows, Kept
<1>4. WalOK(history', wal', DOMAIN snaps')
  BY <1>1, <1>2 DEF WalOK, Dead, Named
<1>5. SnapsOK(history', snaps')
  BY <1>1, <1>2 DEF SnapsOK
<1> QED
  BY <1>3, <1>4, <1>5 DEF StoreOK

LEMMA FlushStepSafe ==
  ASSUME TypeInv, TypeInv', SafeInv, NEW w \in Writers, w \in Handles, FlushStep(w)
  PROVE  SafeInv'
<1>1. /\ UNCHANGED <<storeVars, jobVars, history, acked>> /\ corrupt' = corrupt
      /\ pc[w] = "flush" /\ pc[w] \notin Opening
  BY DEF FlushStep, Opening
<1>2. UNCHANGED <<wal, snaps, history, jobs, spawned>>
  BY <1>1 DEF storeVars, jobVars
<1>3. GrowsNow /\ LsnsKept
  BY <1>2, QuietGrows
<1>4. /\ ControlOK(pc[w], call[w]) /\ FetchOK(pc[w], call[w], image[w], history, wal)
      /\ PutOK(w, pc[w], call[w], image[w], etag[w], comp[w])
      /\ Past(image[w], history, wal) /\ ~corrupt
  BY DEF SafeInv, HandlesOK, HandleOK, LocalOK, ViewOK
<1>5. HandlesFine
  <2>1. CASE Return(w)
    BY <1>3, <2>1, ReturnSafe
  <2>2. CASE /\ comp[w].st = "ready" /\ pc' = [pc EXCEPT ![w] = "cas"]
             /\ call' = [call EXCEPT ![w].attempt = @ + 1]
             /\ UNCHANGED <<coreVars, writerVars>>
    <3> DEFINE c    == [call[w] EXCEPT !.attempt = call[w].attempt + 1]
               fold == ReadyFold(comp[w])
               v    == EncodeView(image[w], fold, c.batch)
    <3>1. call' = [call EXCEPT ![w] = c]
      BY <2>2
    <3>2. c.op = call[w].op /\ c.missing = call[w].missing /\ c.batch = call[w].batch
      BY DEF TypeInv, HandleInv, HandleTypeOK, Calls
    <3> HIDE DEF c
    <3>3. c.batch = << >> /\ ControlOK("cas", c)
      BY <1>1, <1>4, <3>2 DEF ControlOK, Opening, WriteOps
    <3>4. FetchOK("cas", c, image[w], history', wal')
      BY <1>2, <1>4, <3>2 DEF FetchOK
    <3>5. "cas" \notin Opening
      BY DEF Opening
    <3>6. etag[w] # None
      BY <1>1, <1>4 DEF PutOK
    <3>7. Len(v.entries) <= MaxLive
      <4>1. /\ image[w] \in Image /\ comp[w] \in Comps /\ c.batch \in Seq(Entry)
            /\ comp[w].st = "ready" => AppliesTo(comp[w].fold, image[w])
        BY <3>3, EmptySeq DEF TypeInv, HandleInv, HandleTypeOK, ReadyApplies
      <4>2. fold \in SnapRef /\ (fold = NoSnap \/ AppliesTo(fold, image[w]))
        BY <4>1 DEF ReadyFold, Comps, SnapRef
      <4>3. /\ v \in Image /\ FirstLsn(v) >= FirstLsn(image[w])
            /\ NextLsn(v) = NextLsn(image[w]) + Len(c.batch)
        BY <4>1, <4>2, EncodeViewProperties
      <4>4. Len(c.batch) = 0
        BY <3>3, EmptySeq
      <4>5. /\ Len(v.entries) \in Nat /\ FirstLsn(v) \in Nat
            /\ NextLsn(v) = FirstLsn(v) + Len(v.entries)
        BY <4>3, LsnTypes
      <4>6. /\ Len(image[w].entries) \in Nat /\ FirstLsn(image[w]) \in Nat
            /\ NextLsn(image[w]) = FirstLsn(image[w]) + Len(image[w].entries)
        BY <4>1, LsnTypes
      <4>7. Len(image[w].entries) <= MaxLive
        BY <1>4 DEF Past
      <4> HIDE DEF v
      <4> QED BY <4>3, <4>4, <4>5, <4>6, <4>7, OptionsAssumption
    <3> QED BY <1>1, <1>3, <2>2, <3>1, <3>3, <3>4, <3>5, <3>6, <3>7, ControlSafe
  <2>3. CASE pc' = [pc EXCEPT ![w] = "gc"] /\ UNCHANGED <<call, coreVars, writerVars>>
    <3>1. call' = [call EXCEPT ![w] = call[w]]
      BY <2>3, SameFunctions
    <3>2. ControlOK("gc", call[w])
      BY <1>1, <1>4 DEF ControlOK, Opening
    <3>3. FetchOK("gc", call[w], image[w], history', wal')
      BY <1>2, <1>4 DEF FetchOK
    <3>4. "gc" \notin Opening
      BY DEF Opening
    <3> QED BY <1>1, <1>3, <2>3, <3>1, <3>2, <3>3, <3>4, ControlSafe
  <2> QED BY <2>1, <2>2, <2>3 DEF FlushStep
<1> QED
  BY <1>1, <1>4, <1>5, QuietStep

LEMMA GcSafe ==
  ASSUME TypeInv, TypeInv', SafeInv, NEW w \in Handles, GcDelete(w) \/ GcDone(w)
  PROVE  SafeInv'
<1> DEFINE key == Head(garbage[w].queue)
           g   == [garbage[w] EXCEPT !.queue = Tail(garbage[w].queue)]
<1>1. UNCHANGED <<wal, inflight, jobVars, history, acked, corrupt>> /\ pc[w] = "gc"
  BY DEF GcDelete, GcDone, storeVars
<1>2. ~corrupt' /\ QueueOK(garbage[w], wal) /\ garbage[w] \in Garbage
  BY <1>1 DEF SafeInv, HandlesOK, HandleOK, LocalOK, TypeInv, HandleInv, HandleTypeOK
<1>3. CASE Return(w) /\ UNCHANGED snaps /\ doomed' \subseteq doomed
  <2>1. HandlesFine
    BY <1>1, <1>3, QuietGrows, ReturnSafe DEF jobVars
  <2> QED BY <1>1, <1>2, <1>3, <2>1, SendStep
<1>4. ASSUME garbage[w].queue # << >>
      PROVE  Dead(key, wal) /\ QueueOK(g, wal) /\ g.queue = Tail(garbage[w].queue)
  <2>1. garbage[w].queue \in Seq(Key)
    BY <1>2 DEF Garbage
  <2>2. key \in Range(garbage[w].queue) /\ Range(Tail(garbage[w].queue)) \subseteq Range(garbage[w].queue)
    BY <1>4, <2>1, HeadInRange
  <2>3. g.queue = Tail(garbage[w].queue)
    BY <1>2 DEF Garbage
  <2> HIDE DEF g
  <2> QED BY <1>2, <2>2, <2>3 DEF QueueOK
<1>5. CASE /\ garbage[w].queue # << >> /\ Return(w) /\ UNCHANGED snaps
           /\ doomed' \in {doomed, doomed \cup {key}}
  <2>1. HandlesFine
    BY <1>1, <1>5, QuietGrows, ReturnSafe DEF jobVars
  <2>2. Dead(key, wal)
    BY <1>4, <1>5
  <2> HIDE DEF key
  <2> QED BY <1>1, <1>2, <1>5, <2>1, <2>2, SendStep
<1>6. CASE /\ garbage[w].queue # << >> /\ DeleteSnapshot(key)
           /\ garbage' = [garbage EXCEPT ![w].queue = Tail(@)]
           /\ UNCHANGED <<doomed, pc, call, coreVars, comp>>
  <2>1. Dead(key, wal) /\ QueueOK(g, wal) /\ garbage' = [garbage EXCEPT ![w] = g]
    BY <1>4, <1>6
  <2> HIDE DEF g, key
  <2>2. GrowsNow /\ StoreOK'
    BY <1>1, <1>6, <2>1, DeleteSafe
  <2>3. LsnsKept
    <3>1. spawned \in Nat /\ UNCHANGED <<jobs, spawned>>
      BY <1>1, BoundsAssumption DEF TypeInv, JobTypeOK, jobVars
    <3> QED BY <3>1 DEF LsnsKept
  <2>4. /\ LocalOK(w, pc[w], call[w], image[w], etag[w], state[w], comp[w], garbage[w],
                   history', wal', DOMAIN snaps')
        /\ LinkOK(comp[w], jobs', spawned')
    BY <2>2, <2>3, LocalKept
  <2>5. /\ pc' = [pc EXCEPT ![w] = pc[w]] /\ call' = [call EXCEPT ![w] = call[w]]
        /\ comp' = [comp EXCEPT ![w] = comp[w]] /\ UNCHANGED coreVars
    BY <1>6, SameFunctions
  <2>6. QueueOK(g, wal')
    BY <1>1, <2>1
  <2>7. HandlesFine
    BY <2>1, <2>2, <2>3, <2>4, <2>5, <2>6, MoveSafe DEF LocalOK
  <2>8. AcksOK'
    BY <1>1, <2>2, AcksGrow DEF AcksOK
  <2>9. jobs' = jobs
    BY <1>1 DEF jobVars
  <2> QED BY <1>1, <1>2, <1>6, <2>2, <2>3, <2>7, <2>8, <2>9, StepKeeps
<1> QED
  BY <1>3, <1>5, <1>6 DEF GcDelete, GcDone, storeVars
-----------------------------------------------------------------------------
(* The actions: compactors, and late effects of unanswered requests          *)

\* The handles do not move.
LEMMA NobodyMoves ==
  ASSUME UNCHANGED <<pc, call, coreVars, writerVars>>
  PROVE  HandlesFine
BY DEF HandlesFine, Same, coreVars, writerVars

LEMMA LateSafe ==
  ASSUME TypeInv, TypeInv', SafeInv,
         (\E r \in inflight : LatePut(r)) \/ (\E k \in doomed : LateDelete(k))
  PROVE  SafeInv'
<1>1. /\ UNCHANGED <<jobVars, acked, corrupt, pc, call, coreVars, writerVars>>
      /\ inflight' \subseteq inflight /\ doomed' \subseteq doomed
  BY DEF LatePut, LateDelete, obsVars
<1>2. HandlesFine
  BY <1>1, NobodyMoves
<1>3. LsnsKept /\ jobs' = jobs
  <2>1. spawned \in Nat /\ UNCHANGED <<jobs, spawned>>
    BY <1>1, BoundsAssumption DEF TypeInv, JobTypeOK, jobVars
  <2> QED BY <2>1 DEF LsnsKept
<1>4. GrowsNow /\ StoreOK'
  <2>1. CASE \E r \in inflight : LatePut(r)
    <3>1. PICK r \in inflight : PutIfMatch(r.expect, r.data) /\ UNCHANGED snaps
      BY <2>1 DEF LatePut
    <3>2. r \in Requests /\ RequestOK(r, wal, DOMAIN snaps)
      BY DEF TypeInv, StoreTypeOK, SafeInv, RequestsOK
    <3> QED BY <3>1, <3>2, LandSafe
  <2>2. CASE \E k \in doomed : LateDelete(k)
    <3>1. PICK k \in doomed : DeleteSnapshot(k) /\ UNCHANGED <<wal, history>>
      BY <2>2 DEF LateDelete, obsVars
    <3>2. Dead(k, wal)
      BY DEF SafeInv, DoomedOK
    <3> QED BY <3>1, <3>2, DeleteSafe
  <2> QED BY <2>1, <2>2
<1>5. AcksOK' /\ ~corrupt'
  BY <1>1, <1>4, AcksGrow DEF AcksOK, SafeInv
<1> QED
  BY <1>1, <1>2, <1>3, <1>4, <1>5, StepKeeps

\* A compactor goes on with its job.
LEMMA JobStepSafe ==
  ASSUME TypeInv, TypeInv', SafeInv, NEW i \in JobIds, NEW job,
         jobs' = [jobs EXCEPT ![i] = job], job.lsn = jobs[i].lsn, UNCHANGED spawned,
         UNCHANGED <<wal, inflight, doomed, pc, call, coreVars, writerVars, obsVars>>,
         GrowsNow, StoreOK', JobOK(i, job, history', wal', DOMAIN snaps')
  PROVE  SafeInv'
<1>1. /\ UNCHANGED <<acked, corrupt>> /\ inflight' = inflight /\ doomed' = doomed
  BY DEF obsVars
<1>2. HandlesFine
  BY NobodyMoves
<1>3. jobs \in [JobIds -> Jobs] /\ spawned \in 0 .. MaxJobs
  BY DEF TypeInv, JobTypeOK
<1>4. LsnsKept
  BY <1>3, BoundsAssumption DEF LsnsKept, JobIds
<1>5. \A j \in JobIds : jobs'[j] = jobs[j] \/ JobOK(j, jobs'[j], history', wal', DOMAIN snaps')
  BY <1>3
<1>6. AcksOK' /\ ~corrupt'
  BY <1>1, AcksGrow DEF AcksOK, SafeInv
<1> QED
  BY <1>1, <1>2, <1>4, <1>5, <1>6, StepKeeps

\* A job that ends, or has a new state and the same work.
LEMMA JobEnds ==
  ASSUME NEW i \in JobIds, NEW job \in Jobs, NEW hist, NEW w, NEW stored, NEW st,
         st \notin {"fetch", "publish", "unknown"},
         st = "done" => Kept([lsn |-> job.lsn, id |-> i], w, stored)
  PROVE  /\ [NoJob EXCEPT !.st = st, !.lsn = job.lsn].lsn = job.lsn
         /\ JobOK(i, [NoJob EXCEPT !.st = st, !.lsn = job.lsn], hist, w, stored)
<1> DEFINE end == [NoJob EXCEPT !.st = st, !.lsn = job.lsn]
<1>1. end.st = st /\ end.lsn = job.lsn
  BY DEF NoJob
<1> HIDE DEF end
<1>2. JobOK(i, end, hist, w, stored)
  BY <1>1 DEF JobOK
<1> QED
  BY <1>1, <1>2 DEF end

LEMMA JobFetchSafe ==
  ASSUME TypeInv, TypeInv', SafeInv, NEW i \in JobIds, JobFetch(i)
  PROVE  SafeInv'
<1> DEFINE job == jobs[i]
<1>1. /\ job.st = "fetch" /\ UNCHANGED spawned /\ UNCHANGED <<wal, snaps, history>>
      /\ UNCHANGED <<wal, inflight, doomed, pc, call, coreVars, writerVars, obsVars>>
  BY DEF JobFetch, storeVars, obsVars
<1>2. /\ job \in Jobs /\ history \in Seq(Entry) /\ JobOK(i, job, history, wal, DOMAIN snaps)
      /\ StoreOK
  BY DEF TypeInv, JobTypeOK, OtherTypeOK, SafeInv, JobsOK
<1>3. GrowsNow /\ StoreOK'
  BY <1>1, <1>2, GrowsQuiet DEF StoreOK
<1>4. CASE EndJob(i, "failed")
  <2> DEFINE end == [NoJob EXCEPT !.st = "failed", !.lsn = job.lsn]
  <2>1. jobs' = [jobs EXCEPT ![i] = end]
    BY <1>4 DEF EndJob
  <2>2. end.lsn = job.lsn /\ JobOK(i, end, history', wal', DOMAIN snaps')
    BY <1>2, JobEnds
  <2> HIDE DEF end
  <2> QED BY <1>1, <1>3, <2>1, <2>2, JobStepSafe
<1>5. CASE /\ job.base \in DOMAIN snaps
           /\ jobs' = [jobs EXCEPT ![i] = [jobs[i] EXCEPT
                          !.st = "publish", !.base = NoSnap,
                          !.body = snaps[jobs[i].base] \o jobs[i].body]]
  <2> DEFINE next == [job EXCEPT !.st = "publish", !.base = NoSnap,
                                 !.body = snaps[job.base] \o job.body]
             a    == job.base.lsn + 1
             b    == job.lsn + 1
  <2>1. /\ next.st = "publish" /\ next.base = NoSnap /\ next.lsn = job.lsn
        /\ next.body = snaps[job.base] \o job.body
    BY <1>2 DEF Jobs
  <2>2. /\ job.lsn < Len(history) /\ job.base.lsn <= job.lsn /\ job.body = Slice(history, a, b)
    BY <1>1, <1>2 DEF JobOK
  <2>3. snaps[job.base] = Slice(history, 0, a)
    BY <1>2, <1>5 DEF StoreOK, SnapsOK
  <2>4. /\ 0 \in Nat /\ a \in Nat /\ b \in Nat /\ 0 <= a /\ a <= b /\ b <= Len(history)
    <3>1. job.lsn \in Nat /\ job.base \in SnapRef /\ Len(history) \in Nat
      BY <1>2, LenProperties DEF Jobs
    <3>2. job.base.lsn \in Int /\ job.base.lsn >= -1
      BY <3>1, SnapRefLsn
    <3> HIDE DEF job
    <3> QED BY <2>2, <3>1, <3>2
  <2>5. NoSnap.lsn + 1 = 0 /\ NoSnap.lsn = -1 /\ job.lsn \in Nat
    BY <1>2 DEF NoSnap, Jobs
  <2>6. jobs' = [jobs EXCEPT ![i] = next]
    BY <1>5
  <2> HIDE DEF a, next
  <2>7. Slice(history, 0, a) \o Slice(history, a, b) = Slice(history, 0, b)
    <3> HIDE DEF b
    <3> QED BY <1>2, <2>4, SliceConcat
  <2>8. next.body = Slice(history, NoSnap.lsn + 1, job.lsn + 1)
    BY <2>1, <2>2, <2>3, <2>5, <2>7
  <2> HIDE DEF job
  <2>9. JobOK(i, next, history', wal', DOMAIN snaps')
    <3>1. next.lsn < Len(history') /\ next.base.lsn <= next.lsn
      BY <1>1, <2>1, <2>2, <2>5
    <3>2. next.body = Slice(history', next.base.lsn + 1, next.lsn + 1)
      BY <1>1, <2>1, <2>8
    <3> QED BY <2>1, <3>1, <3>2 DEF JobOK
  <2>10. next.lsn = jobs[i].lsn
    BY <2>1 DEF job
  <2> QED BY <1>1, <1>3, <2>6, <2>9, <2>10, JobStepSafe
<1> QED
  BY <1>4, <1>5 DEF JobFetch

\* A snapshot object appears under the key of its compactor.
LEMMA UploadSafe ==
  ASSUME TypeInv, SafeInv, NEW i \in JobIds, jobs[i].st \in {"publish", "unknown"},
         PutSnapshot(JobKey(i), jobs[i].body), UNCHANGED <<wal, history>>
  PROVE  /\ GrowsNow /\ StoreOK'
         /\ Kept([lsn |-> jobs[i].lsn, id |-> i], wal', DOMAIN snaps')
<1> DEFINE job == jobs[i]
           key == [lsn |-> job.lsn, id |-> i]
<1>1. /\ job \in Jobs /\ history \in Seq(Entry) /\ JobOK(i, job, history, wal, DOMAIN snaps)
      /\ WalOK(history, wal, DOMAIN snaps) /\ SnapsOK(history, snaps)
  BY DEF TypeInv, JobTypeOK, OtherTypeOK, SafeInv, JobsOK, StoreOK
<1>2. job.lsn < Len(history) /\ job.body = Slice(history, 0, job.lsn + 1) /\ key.lsn = job.lsn
  <2>1. job.base = NoSnap /\ NoSnap.lsn + 1 = 0
    BY <1>1 DEF JobOK, NoSnap
  <2> QED BY <1>1, <2>1 DEF JobOK
<1>3. JobKey(i) = key
  BY DEF JobKey
<1> HIDE DEF key
<1>4. /\ DOMAIN snaps' = DOMAIN snaps \cup {key} /\ snaps'[key] = job.body
      /\ \A k \in DOMAIN snaps : k = key \/ snaps'[k] = snaps[k]
  BY <1>3 DEF PutSnapshot
<1>5. GrowsNow
  <2>1. history \in Seq(Entry) /\ << >> \in Seq(Entry)
    BY <1>1, EmptySeq
  <2>2. history \o << >> = history
    BY <2>1, ConcatEmptySeq
  <2> QED BY <1>4, <2>1, <2>2 DEF GrowsNow, Grows, Kept
<1>6. WalOK(history', wal', DOMAIN snaps')
  BY <1>1, <1>4 DEF WalOK
<1>7. SnapsOK(history', snaps')
  BY <1>1, <1>2, <1>4 DEF SnapsOK
<1> QED
  BY <1>4, <1>5, <1>6, <1>7 DEF StoreOK, Kept, key

LEMMA JobPublishSafe ==
  ASSUME TypeInv, TypeInv', SafeInv, NEW i \in JobIds, JobPublish(i) \/ LateUpload(i)
  PROVE  SafeInv'
<1> DEFINE job == jobs[i]
<1>1. /\ job.st \in {"publish", "unknown"} /\ UNCHANGED spawned /\ UNCHANGED <<wal, history>>
      /\ UNCHANGED <<wal, inflight, doomed, pc, call, coreVars, writerVars, obsVars>>
  BY DEF JobPublish, LateUpload, obsVars
<1>2. /\ job \in Jobs /\ JobOK(i, job, history, wal, DOMAIN snaps) /\ StoreOK
  BY DEF TypeInv, JobTypeOK, SafeInv, JobsOK
<1>3. ASSUME NEW st, st \in {"failed", "done"}, EndJob(i, st), GrowsNow, StoreOK',
             st = "done" => Kept([lsn |-> job.lsn, id |-> i], wal', DOMAIN snaps')
      PROVE  SafeInv'
  <2> DEFINE end == [NoJob EXCEPT !.st = st, !.lsn = job.lsn]
  <2>1. jobs' = [jobs EXCEPT ![i] = end]
    BY <1>3 DEF EndJob
  <2>2. end.lsn = job.lsn /\ JobOK(i, end, history', wal', DOMAIN snaps')
    BY <1>2, <1>3, JobEnds
  <2> HIDE DEF end
  <2> QED BY <1>1, <1>3, <2>1, <2>2, JobStepSafe
<1>4. CASE UNCHANGED snaps
  <2>1. GrowsNow /\ StoreOK'
    BY <1>1, <1>2, <1>4, GrowsQuiet DEF StoreOK
  <2>2. ASSUME NEW next, jobs' = [jobs EXCEPT ![i] = next], next.lsn = job.lsn,
               next.base = job.base, next.body = job.body,
               next.st \in {"publish", "unknown"}
        PROVE  SafeInv'
    <3>1. JobOK(i, next, history', wal', DOMAIN snaps')
      BY <1>1, <1>2, <1>4, <2>2 DEF JobOK
    <3> QED BY <1>1, <2>1, <2>2, <3>1, JobStepSafe
  <2>3. CASE EndJob(i, "failed")
    BY <1>3, <2>1, <2>3
  <2>4. CASE job.st = "publish" /\ jobs' = [jobs EXCEPT ![i].tries = @ + 1]
    <3> DEFINE next == [job EXCEPT !.tries = job.tries + 1]
    <3>1. jobs' = [jobs EXCEPT ![i] = next]
      BY <2>4
    <3>2. next.lsn = job.lsn /\ next.base = job.base /\ next.body = job.body /\ next.st = job.st
      BY <1>2 DEF Jobs
    <3> HIDE DEF next
    <3> QED BY <2>2, <2>4, <3>1, <3>2
  <2>5. CASE jobs' = [jobs EXCEPT ![i].st = "unknown"]
    <3> DEFINE next == [job EXCEPT !.st = "unknown"]
    <3>1. jobs' = [jobs EXCEPT ![i] = next]
      BY <2>5
    <3>2. /\ next.lsn = job.lsn /\ next.base = job.base /\ next.body = job.body
          /\ next.st = "unknown"
      BY <1>2 DEF Jobs
    <3> HIDE DEF next
    <3> QED BY <2>2, <3>1, <3>2
  <2>6. CASE EndJob(i, "done") /\ PutSnapshot(JobKey(i), job.body)
    BY <1>1, <1>3, <2>6, UploadSafe
  <2> QED BY <2>3, <2>4, <2>5, <2>6 DEF JobPublish, LateUpload
<1>5. CASE PutSnapshot(JobKey(i), job.body) /\ (EndJob(i, "done") \/ EndJob(i, "failed"))
  BY <1>1, <1>3, <1>5, UploadSafe
<1> QED
  BY <1>4, <1>5 DEF JobPublish, LateUpload
-----------------------------------------------------------------------------
(* The actions: methods that begin, and rounds of append                     *)

\* The preamble of the public methods.
LEMMA SyncMove ==
  ASSUME TypeInv, TypeInv', SafeInv, NEW h \in Handles, pc[h] \notin Opening,
         UNCHANGED <<wal, snaps, history, jobs, spawned>>, UNCHANGED coreVars,
         SyncCompaction(h), NEW p, NEW c,
         pc' = [pc EXCEPT ![h] = p], call' = [call EXCEPT ![h] = c],
         ControlOK(p, c), FetchOK(p, c, image[h], history', wal'), p \notin Opening \cup {"cas"}
  PROVE  HandlesFine
<1>1. GrowsNow /\ LsnsKept
  BY QuietGrows
<1>2. /\ FoldOK(p, Synced(h), image[h], wal, DOMAIN snaps) /\ QueueOK(SyncedGarbage(h), wal)
      /\ LinkOK(Synced(h), jobs, spawned)
  BY SyncSafe
<1>3. PutOK(h, pc[h], call[h], image[h], etag[h], comp[h])
  BY DEF SafeInv, HandlesOK, HandleOK, LocalOK
<1>4. PutOK(h, p, c, image[h], etag[h], Synced(h))
  BY <1>3 DEF PutOK
<1>6. /\ comp' = [comp EXCEPT ![h] = Synced(h)]
      /\ garbage' = [garbage EXCEPT ![h] = SyncedGarbage(h)]
  BY DEF SyncCompaction
<1>7. /\ FoldOK(p, Synced(h), image[h], wal', DOMAIN snaps') /\ QueueOK(SyncedGarbage(h), wal')
      /\ LinkOK(Synced(h), jobs', spawned')
  BY <1>2
<1> QED
  BY <1>1, <1>4, <1>6, <1>7, MoveSafe

\* The locals of a method that begins.
LEMMA BeginCall ==
  ASSUME NEW op
  PROVE  /\ [NoCall EXCEPT !.op = op].op = op /\ [NoCall EXCEPT !.op = op].batch = << >>
         /\ [NoCall EXCEPT !.op = op].missing = None
BY DEF NoCall

LEMMA MaintenanceSafe ==
  ASSUME TypeInv, TypeInv', SafeInv, NEW h \in Handles,
         \/ Refresh(h) \/ StartMaintenance(h) \/ WaitForCompaction(h)
         \/ CompactionStatus(h) \/ TakeCompactionError(h)
  PROVE  SafeInv'
<1>1. /\ UNCHANGED <<storeVars, jobVars, history, acked>> /\ corrupt' = corrupt
      /\ UNCHANGED coreVars /\ pc[h] \in {"idle", "wait"} /\ pc[h] \notin Opening
  BY DEF Refresh, StartMaintenance, WaitForCompaction, CompactionStatus, TakeCompactionError,
         Opening, obsVars
<1>2. UNCHANGED <<wal, snaps, history, jobs, spawned>>
  BY <1>1 DEF storeVars, jobVars
<1>3. GrowsNow /\ LsnsKept
  BY <1>2, QuietGrows
<1>4. /\ ControlOK(pc[h], call[h]) /\ FetchOK(pc[h], call[h], image[h], history, wal) /\ ~corrupt
      /\ PutOK(h, pc[h], call[h], image[h], etag[h], comp[h])
  BY DEF SafeInv, HandlesOK, HandleOK, LocalOK
<1>5. pc[h] = "idle" => call[h] = NoCall
  BY <1>4 DEF ControlOK
<1>6. HandlesFine
  <2>1. CASE Refresh(h)
    <3> DEFINE c == [NoCall EXCEPT !.op = "refresh"]
    <3>1. /\ pc' = [pc EXCEPT ![h] = "get"] /\ call' = [call EXCEPT ![h] = c]
          /\ SyncCompaction(h)
      BY <1>5, <2>1 DEF Refresh
    <3>2. c.op = "refresh" /\ c.batch = << >> /\ c.missing = None
      BY BeginCall
    <3> HIDE DEF c
    <3>3. ControlOK("get", c)
      BY <3>2 DEF ControlOK, Opening
    <3>4. "get" \notin Opening \cup {"cas"}
      BY DEF Opening
    <3>5. FetchOK("get", c, image[h], history', wal')
      BY <3>2 DEF FetchOK
    <3> QED BY <1>1, <1>2, <3>1, <3>3, <3>4, <3>5, SyncMove
  <2>2. CASE StartMaintenance(h)
    <3>1. PICK op \in {"wait", "flush", "close", "gc"} :
             /\ pc' = [pc EXCEPT ![h] = IF op = "gc" THEN "gc" ELSE "wait"]
             /\ call' = [call EXCEPT ![h].op = op]
      BY <2>2 DEF StartMaintenance
    <3> DEFINE c == [NoCall EXCEPT !.op = op]
               p == IF op = "gc" THEN "gc" ELSE "wait"
    <3>2. /\ pc' = [pc EXCEPT ![h] = p] /\ call' = [call EXCEPT ![h] = c]
          /\ UNCHANGED <<coreVars, writerVars>>
      BY <1>5, <2>2, <3>1 DEF StartMaintenance
    <3>3. c.op = op /\ c.batch = << >> /\ c.missing = None
      BY BeginCall
    <3>4. (p = "gc" /\ op = "gc") \/ (p = "wait" /\ op \in {"wait", "flush", "close"})
      BY <3>1
    <3> HIDE DEF c, p
    <3>5. ControlOK(p, c)
      BY <3>3, <3>4 DEF ControlOK, Opening
    <3>6. FetchOK(p, c, image[h], history', wal')
      BY <3>3, <3>4 DEF FetchOK
    <3>7. p \notin Opening /\ p # "cas"
      BY <3>4 DEF Opening
    <3> QED BY <1>1, <1>3, <3>2, <3>5, <3>6, <3>7, ControlSafe
  <2>3. CASE WaitForCompaction(h)
    <3>1. /\ pc[h] = "wait" /\ SyncCompaction(h)
          /\ pc' = [pc EXCEPT ![h] = IF call[h].op = "wait" THEN "idle" ELSE "flush"]
          /\ call' = [call EXCEPT ![h] = IF call[h].op = "wait" THEN NoCall ELSE call[h]]
      BY <2>3 DEF WaitForCompaction
    <3>2. CASE call[h].op = "wait"
      <4>1. pc' = [pc EXCEPT ![h] = "idle"] /\ call' = [call EXCEPT ![h] = NoCall]
        BY <3>1, <3>2
      <4>2. "idle" \notin Opening \cup {"cas"}
        BY DEF Opening
      <4> QED BY <1>1, <1>2, <3>1, <4>1, <4>2, IdleControl, SyncMove
    <3>3. CASE call[h].op # "wait"
      <4>1. pc' = [pc EXCEPT ![h] = "flush"] /\ call' = [call EXCEPT ![h] = call[h]]
        BY <3>1, <3>3
      <4>2. call[h].op \in {"flush", "close"}
        BY <1>4, <3>1, <3>3 DEF ControlOK
      <4>3. ControlOK("flush", call[h])
        BY <1>4, <3>1, <4>2 DEF ControlOK, Opening
      <4>4. "flush" \notin Opening \cup {"cas"}
        BY DEF Opening
      <4>5. FetchOK("flush", call[h], image[h], history', wal')
        BY <1>2, <1>4 DEF FetchOK
      <4> QED BY <1>1, <1>2, <3>1, <4>1, <4>3, <4>4, <4>5, SyncMove
    <3> QED BY <3>2, <3>3
  <2>4. CASE CompactionStatus(h)
    <3>1. /\ SyncCompaction(h) /\ pc[h] = "idle"
          /\ pc' = [pc EXCEPT ![h] = "idle"] /\ call' = [call EXCEPT ![h] = NoCall]
      BY <1>5, <2>4, SameFunctions DEF CompactionStatus
    <3>2. "idle" \notin Opening \cup {"cas"}
      BY DEF Opening
    <3> QED BY <1>1, <1>2, <3>1, <3>2, IdleControl, SyncMove
  <2>5. CASE TakeCompactionError(h)
    <3>1. /\ pc[h] = "idle" /\ comp' = [comp EXCEPT ![h] = NoFold] /\ UNCHANGED garbage
          /\ pc' = [pc EXCEPT ![h] = "idle"] /\ call' = [call EXCEPT ![h] = NoCall]
      BY <1>5, <2>5, SameFunctions DEF TakeCompactionError
    <3>2. garbage' = [garbage EXCEPT ![h] = garbage[h]]
      BY <3>1 DEF TypeInv, HandleInv, HandleTypeOK
    <3>3. FoldOK("idle", NoFold, image[h], wal', DOMAIN snaps') /\ LinkOK(NoFold, jobs', spawned')
      BY DEF FoldOK, LinkOK, NoFold
    <3>4. QueueOK(garbage[h], wal')
      BY <1>3, LocalKept DEF LocalOK
    <3>5. PutOK(h, "idle", NoCall, image[h], etag[h], NoFold)
      BY <1>4, <3>1 DEF PutOK
    <3> QED BY <1>1, <1>3, <3>1, <3>2, <3>3, <3>4, <3>5, IdleControl, MoveSafe
  <2> QED BY <2>1, <2>2, <2>3, <2>4, <2>5
<1> QED
  BY <1>1, <1>4, <1>6, QuietStep

LEMMA RoundSafe ==
  ASSUME TypeInv, TypeInv', SafeInv, NEW w \in Writers, w \in Handles, Write(w) \/ Reconcile(w)
  PROVE  SafeInv'
<1>1. /\ UNCHANGED <<storeVars, jobVars, history, acked>> /\ corrupt' = corrupt
      /\ pc[w] \in {"idle", "reconcile"} /\ pc[w] \notin Opening
  BY DEF Write, Reconcile, Opening
<1>2. UNCHANGED <<wal, snaps, history, jobs, spawned>>
  BY <1>1 DEF storeVars, jobVars
<1>3. GrowsNow /\ LsnsKept
  BY <1>2, QuietGrows
<1>4. /\ ControlOK(pc[w], call[w]) /\ ~corrupt
      /\ FoldOK(pc[w], comp[w], image[w], wal, DOMAIN snaps) /\ QueueOK(garbage[w], wal)
      /\ LinkOK(comp[w], jobs, spawned)
  BY DEF SafeInv, HandlesOK, HandleOK, LocalOK
<1>5. submitted \in Nat /\ call[w] \in Calls /\ comp[w] \in Comps
  BY DEF TypeInv, OtherTypeOK, HandleInv, HandleTypeOK
<1>6. ASSUME Write(w) PROVE HandlesFine
  <2>1. PICK n \in 0 .. MaxBatch, op \in WriteOps :
           TryInstall(w, op, Synced(w), Batch(n), 1, {})
    BY <1>6 DEF Write, WriteOps
  <2>2. Batch(n) \in Seq(Entry) /\ 1 \in Nat
    BY <1>5, BatchType, BoundsAssumption
  <2>3. Synced(w) \in Comps
    BY SyncType DEF TypeInv
  <2>4. "idle" \notin Opening
    BY DEF Opening
  <2>5. /\ FoldOK("idle", Synced(w), image[w], wal', DOMAIN snaps')
        /\ QueueOK(SyncedGarbage(w), wal') /\ LinkOK(Synced(w), jobs', spawned')
    BY <1>1, <1>2, <2>4, SyncSafe
  <2>6. /\ comp' = [comp EXCEPT ![w] = Synced(w)] /\ UNCHANGED coreVars
        /\ garbage' = [garbage EXCEPT ![w] = SyncedGarbage(w)]
    BY <1>6 DEF Write, SyncCompaction
  <2> QED BY <1>1, <1>3, <2>1, <2>2, <2>3, <2>5, <2>6, TryInstallSafe
<1>7. ASSUME Reconcile(w) PROVE HandlesFine
  <2>1. ASSUME NEW op \in WriteOps, NEW b \in Seq(Entry), NEW n \in Nat, NEW lost,
               TryInstall(w, op, comp[w], b, n, lost), UNCHANGED <<coreVars, writerVars>>
        PROVE  HandlesFine
    <3>1. FoldOK("idle", comp[w], image[w], wal', DOMAIN snaps')
      BY <1>2, <1>4 DEF FoldOK, Opening
    <3>2. QueueOK(garbage[w], wal') /\ LinkOK(comp[w], jobs', spawned')
      BY <1>2, <1>4
    <3>3. /\ comp' = [comp EXCEPT ![w] = comp[w]] /\ garbage' = [garbage EXCEPT ![w] = garbage[w]]
          /\ UNCHANGED coreVars
      BY <2>1, SameWriter
    <3> QED BY <1>1, <1>3, <1>5, <2>1, <3>1, <3>2, <3>3, TryInstallSafe
  <2>2. CASE Return(w)
    BY <1>3, <2>2, ReturnSafe
  <2>3. CASE ~Return(w)
    <3>1. /\ call[w].op \in WriteOps /\ call[w].batch \in Seq(Entry)
          /\ call[w].attempt + 1 \in Nat
      BY <1>4, <1>5, <1>7 DEF Reconcile, ControlOK, Calls
    <3>2. \A n \in 0 .. MaxBatch : Batch(n) \in Seq(Entry)
      BY <1>5, BatchType, BoundsAssumption
    <3>3. \E lost : \E b \in Seq(Entry) :
            /\ TryInstall(w, call[w].op, comp[w], b, call[w].attempt + 1, lost)
            /\ UNCHANGED <<coreVars, writerVars>>
      BY <1>7, <2>3, <3>1, <3>2, Zenon DEF Reconcile, ReturnNotApplied
    <3> QED BY <2>1, <3>1, <3>3
  <2> QED BY <2>2, <2>3
<1> QED
  BY <1>1, <1>4, <1>6, <1>7, QuietStep
-----------------------------------------------------------------------------
(* The actions: compactions that start, and accepted PUTs                    *)

\* spawn_compaction hands over the entries after the snapshot of the image.
LEMMA SpawnSafe ==
  ASSUME TypeInv, TypeInv', NEW w \in Handles, NEW img \in Image, img.entries # << >>,
         Agrees(img, history'), SpawnCompaction(w, img)
  PROVE  /\ LsnsKept
         /\ \A i \in JobIds : \/ jobs'[i] = jobs[i]
                              \/ JobOK(i, jobs'[i], history', wal', DOMAIN snaps')
         /\ \E k \in Comps :
              /\ comp' = [comp EXCEPT ![w] = k] /\ k.st # "ready" /\ LinkOK(k, jobs', spawned')
              /\ \A p : p \notin Opening => FoldOK(p, k, img, wal', DOMAIN snaps')
<1>1. /\ jobs \in [JobIds -> Jobs] /\ spawned \in 0 .. MaxJobs /\ spawned \in Nat /\ MaxJobs \in Nat
  BY BoundsAssumption DEF TypeInv, JobTypeOK
<1>2. CASE /\ comp' = [comp EXCEPT ![w] = [st |-> "failed", fold |-> NoSnap]]
           /\ UNCHANGED jobVars
  <2> DEFINE k == [st |-> "failed", fold |-> NoSnap]
  <2>1. jobs' = jobs /\ spawned' = spawned
    BY <1>2 DEF jobVars
  <2>2. /\ LinkOK(k, jobs', spawned') /\ k.st # "ready" /\ k \in Comps
        /\ \A p : FoldOK(p, k, img, wal', DOMAIN snaps')
    BY ConstantTypes DEF LinkOK, FoldOK, Comps
  <2>3. LsnsKept
    BY <1>1, <2>1 DEF LsnsKept
  <2> QED BY <1>2, <2>1, <2>2, <2>3
<1>3. CASE SpawnCompaction(w, img) /\ spawned < MaxJobs /\ spawned' = spawned + 1
  <2> DEFINE i   == spawned + 1
             lsn == NextLsn(img) - 1
             st  == IF img.snap = NoSnap THEN "publish" ELSE "fetch"
             job == [NoJob EXCEPT !.st = st, !.lsn = lsn, !.base = img.snap, !.body = img.entries]
             k   == [st |-> "running", fold |-> [lsn |-> lsn, id |-> i]]
  <2>1. jobs' = [jobs EXCEPT ![i] = job] /\ comp' = [comp EXCEPT ![w] = k]
    <3>1. ~UNCHANGED jobVars
      BY <1>1, <1>3 DEF jobVars
    <3> QED BY <1>3, <3>1, Zenon DEF SpawnCompaction
  <2>2. /\ NextLsn(img) \in Nat /\ FirstLsn(img) \in Nat /\ FirstLsn(img) = img.snap.lsn + 1
        /\ NextLsn(img) > FirstLsn(img) /\ img.snap.lsn \in Int /\ img.snap \in SnapRef
    <3>1. Len(img.entries) # 0
      BY LsnTypes, EmptySeq
    <3> QED BY <3>1, LsnTypes DEF FirstLsn
  <2>3. lsn \in Nat /\ lsn + 1 = NextLsn(img) /\ img.snap.lsn <= lsn /\ lsn < NextLsn(img)
    BY <2>2
  <2>4. i \in JobIds /\ i \in Nat /\ i \in 1 .. spawned' /\ \A j \in 1 .. spawned : j # i
    BY <1>1, <1>3 DEF JobIds
  <2>5. /\ job.st = st /\ job.lsn = lsn /\ job.base = img.snap /\ job.body = img.entries
    BY DEF NoJob
  <2>6. k \in Comps /\ k.st = "running" /\ k.fold.lsn = lsn /\ k.fold.id = i
    BY <2>3, <2>4 DEF Comps, SnapRef, Key, Lsn
  <2>7. NextLsn(img) <= Len(history') /\ img.entries = Slice(history', FirstLsn(img), NextLsn(img))
    BY DEF Agrees
  <2>8. st \in {"fetch", "publish"} /\ (st = "publish" => img.snap = NoSnap)
    OBVIOUS
  <2> HIDE DEF job, k, st, lsn, i
  <2>9. JobOK(i, job, history', wal', DOMAIN snaps')
    <3>1. lsn < Len(history')
      <4>1. Len(history') \in Nat
        BY LenProperties DEF TypeInv, OtherTypeOK
      <4> QED BY <2>2, <2>3, <2>7, <4>1
    <3>2. img.entries = Slice(history', img.snap.lsn + 1, lsn + 1)
      BY <2>2, <2>3, <2>7
    <3> QED BY <2>3, <2>5, <2>8, <3>1, <3>2 DEF JobOK
  <2>10. \A j \in JobIds : jobs'[j] = jobs[j] \/ JobOK(j, jobs'[j], history', wal', DOMAIN snaps')
    BY <1>1, <2>1, <2>4, <2>9
  <2>11. LsnsKept
    <3>1. \A j \in 1 .. spawned : j \in JobIds
      BY <1>1 DEF JobIds
    <3> QED BY <1>1, <1>3, <2>1, <2>4, <3>1 DEF LsnsKept
  <2>12. LinkOK(k, jobs', spawned')
    <3>1. jobs'[i] = job
      BY <1>1, <2>1, <2>4
    <3> QED BY <2>4, <2>5, <2>6, <3>1 DEF LinkOK
  <2>13. \A p : p \notin Opening => FoldOK(p, k, img, wal', DOMAIN snaps')
    BY <2>3, <2>6 DEF FoldOK
  <2> QED BY <2>1, <2>6, <2>10, <2>11, <2>12, <2>13
<1> QED
  BY <1>2, <1>3, Zenon DEF SpawnCompaction

LEMMA CompactNowSafe ==
  ASSUME TypeInv, TypeInv', SafeInv, NEW w \in Handles, CompactNow(w)
  PROVE  SafeInv'
<1>1. /\ pc[w] = "idle" /\ image[w].entries # << >> /\ SpawnCompaction(w, image[w])
      /\ garbage' = [garbage EXCEPT ![w] = SyncedGarbage(w)] /\ UNCHANGED coreVars
      /\ UNCHANGED <<wal, snaps, history, inflight, doomed, acked, corrupt>>
  BY DEF CompactNow, storeVars, obsVars
<1>2. /\ image[w] \in Image /\ Agrees(image[w], history') /\ ControlOK(pc[w], call[w])
      /\ PutOK(w, pc[w], call[w], image[w], etag[w], comp[w]) /\ ~corrupt' /\ StoreOK
  BY <1>1 DEF SafeInv, HandlesOK, HandleOK, LocalOK, ViewOK, Past, TypeInv, HandleInv,
              HandleTypeOK
<1>3. "idle" \notin Opening
  BY DEF Opening
<1>4. LsnsKept /\ \A i \in JobIds : jobs'[i] = jobs[i] \/ JobOK(i, jobs'[i], history', wal', DOMAIN snaps')
  BY <1>1, <1>2, SpawnSafe
<1>5. PICK k \in Comps :
         /\ comp' = [comp EXCEPT ![w] = k] /\ k.st # "ready" /\ LinkOK(k, jobs', spawned')
         /\ \A p : p \notin Opening => FoldOK(p, k, image[w], wal', DOMAIN snaps')
  BY <1>1, <1>2, SpawnSafe
<1>6. GrowsNow
  BY <1>1, GrowsQuiet
<1>7. QueueOK(SyncedGarbage(w), wal')
  BY <1>1, <1>3, SyncSafe
<1>8. pc' = [pc EXCEPT ![w] = "idle"] /\ call' = [call EXCEPT ![w] = NoCall]
  <2>1. call[w] = NoCall /\ UNCHANGED <<pc, call>>
    BY <1>1, <1>2 DEF ControlOK, CompactNow
  <2> QED BY <1>1, <2>1, SameFunctions
<1>9. PutOK(w, "idle", NoCall, image[w], etag[w], k)
  BY <1>1, <1>2 DEF PutOK
<1>10. FoldOK("idle", k, image[w], wal', DOMAIN snaps')
  BY <1>3, <1>5
<1>11. HandlesFine
  BY <1>1, <1>4, <1>5, <1>6, <1>7, <1>8, <1>9, <1>10, IdleControl, MoveSafe
<1>12. StoreOK' /\ AcksOK'
  BY <1>1, <1>2 DEF SafeInv, StoreOK, AcksOK
<1> QED
  BY <1>1, <1>2, <1>4, <1>6, <1>11, <1>12, StepKeeps

\* A winning PUT: the handle shows the image it sent, and the snapshot that a
\* fold replaces is dead from now on.
LEMMA AcceptedSafe ==
  ASSUME TypeInv, TypeInv', ChainInv, SafeInv, NEW w \in Handles, pc[w] = "cas", Accepted(w),
         UNCHANGED snaps
  PROVE  /\ GrowsNow /\ StoreOK' /\ history' = history \o call[w].batch
         /\ NextLsn(image[w]) = Len(history)
         /\ \E img, st, g :
              /\ img \in Image
              /\ image' = [image EXCEPT ![w] = img] /\ etag' = [etag EXCEPT ![w] = img]
              /\ state' = [state EXCEPT ![w] = st] /\ garbage' = [garbage EXCEPT ![w] = g]
              /\ ViewOK(img, img, st, history', wal') /\ QueueOK(g, wal')
              /\ NextLsn(image[w]) <= NextLsn(img)
<1> DEFINE batch == call[w].batch
           fold  == ReadyFold(comp[w])
           v     == Candidate(w, comp[w], batch)
           r     == Request(w)
           old   == IF fold # NoSnap /\ image[w].snap # fold THEN image[w].snap ELSE NoSnap
           g     == QueueObsolete(garbage[w], old)
           st    == state[w] \o batch
<1>1. /\ RequestOK(r, wal, DOMAIN snaps) /\ r \in Requests /\ Carried(r) = batch
      /\ image[w] = etag[w] /\ etag[w] # None
  BY RequestSafe
<1>2. r.expect = etag[w] /\ r.data = v
  BY DEF Request
<1>3. PutIfMatch(etag[w], v) /\ wal = etag[w]
  BY Zenon DEF Accepted, PutIfMatch
<1> HIDE DEF r, v
<1>4. /\ GrowsNow /\ StoreOK' /\ history' = history \o batch /\ wal' = v /\ batch \in Seq(Entry)
  BY <1>1, <1>2, <1>3, LandSafe
<1>5. /\ image[w] \in Image /\ garbage[w] \in Garbage /\ history \in Seq(Entry) /\ wal = image[w]
      /\ wal \in Image /\ wal' \in Image \cup {None} /\ history' \in Seq(Entry)
      /\ image \in [Handles -> Image] /\ etag \in [Handles -> Image \cup {None}]
  BY <1>1, <1>3 DEF TypeInv, HandleInv, HandleTypeOK, StoreTypeOK, OtherTypeOK
<1>6. v \in Image /\ v # None
  BY <1>1, <1>2, NoneIsNoImage DEF Requests
<1>7. /\ NextLsn(image[w]) = Len(history) /\ state[w] = Slice(history, 0, Len(history))
      /\ QueueOK(garbage[w], wal)
  BY <1>1, <1>3 DEF SafeInv, StoreOK, WalOK, HandlesOK, HandleOK, LocalOK, ViewOK
<1>8. NextLsn(v) = Len(history') /\ Past(v, history', v)
  BY <1>4, <1>6 DEF StoreOK, WalOK
<1>9. ViewOK(v, v, st, history', wal')
  <2>1. state[w] = history /\ Slice(history', 0, Len(history')) = history'
    BY <1>5, <1>7, SliceEnds
  <2>2. st = Slice(history', 0, NextLsn(v))
    BY <1>4, <1>8, <2>1
  <2> HIDE DEF st
  <2> QED BY <1>4, <1>6, <1>8, <2>2 DEF ViewOK
<1>10. NextLsn(image[w]) <= NextLsn(v)
  <2>1. Len(history \o batch) = Len(history) + Len(batch) /\ Len(history) \in Nat /\ Len(batch) \in Nat
    BY <1>4, <1>5, SliceGrow
  <2> QED BY <1>4, <1>7, <1>8, <2>1
<1>11. QueueOK(garbage[w], wal')
  BY <1>4, <1>5, LocalGrows DEF GrowsNow, SafeInv, HandlesOK, HandleOK, LocalOK, TypeInv,
     HandleInv, HandleTypeOK
<1>12. old \in SnapRef /\ (old = NoSnap \/ Dead(old, wal'))
  <2>1. CASE old = NoSnap
    BY <2>1, ConstantTypes
  <2>2. CASE old # NoSnap
    <3>1. old = image[w].snap /\ fold # NoSnap /\ image[w].snap # fold
      BY <2>2
    <3>2. v.snap = fold
      BY <3>1, Zenon DEF v, Candidate, EncodeView
    <3>3. Continues(v, image[w], batch)
      BY <1>1, <1>2 DEF RequestOK
    <3>4. image[w].snap.lsn < v.snap.lsn
      BY <3>1, <3>2, <3>3 DEF Continues
    <3>5. /\ image[w].snap \in SnapRef /\ image[w].snap.lsn \in Int /\ v.snap.lsn \in Int
      BY <1>5, <1>6, LsnTypes
    <3>6. Named(wal') = v.snap
      BY <1>4, <1>6 DEF Named
    <3>7. Dead(image[w].snap, wal')
      BY <3>4, <3>5, <3>6 DEF Dead
    <3> QED BY <3>1, <3>5, <3>7
  <2> QED BY <2>1, <2>2
<1>13. /\ etag' = [etag EXCEPT ![w] = v] /\ state' = [state EXCEPT ![w] = st]
       /\ garbage' = [garbage EXCEPT ![w] = g]
       /\ \E img : image' = [image EXCEPT ![w] = img]
  BY Zenon DEF Accepted, v
<1>14. image' = [image EXCEPT ![w] = v]
  <2>1. PICK img : image' = [image EXCEPT ![w] = img]
    BY <1>13
  <2>2. image'[w] = etag'[w]
    BY AcceptedView
  <2> QED BY <1>5, <1>13, <2>1, <2>2
<1> HIDE DEF old, st
<1>15. QueueOK(g, wal')
  BY <1>5, <1>11, <1>12, QueueSafe
<1> HIDE DEF g
<1> QED
  BY <1>4, <1>6, <1>7, <1>9, <1>10, <1>13, <1>14, <1>15

\* What install_pending_fold leaves of the compaction.
LEMMA InstalledSafe ==
  ASSUME NEW k \in Comps, NEW p, NEW q, q \notin Opening, NEW old \in Image, NEW img \in Image,
         NEW w, NEW stored, FoldOK(p, k, old, w, stored), NextLsn(old) <= NextLsn(img),
         NEW work, NEW started, LinkOK(k, work, started)
  PROVE  /\ FoldOK(q, Installed(k), img, w, stored) /\ LinkOK(Installed(k), work, started)
         /\ Installed(k).st # "ready" /\ Installed(k) \in Comps
<1>1. CASE k.st = "ready"
  BY <1>1, ConstantTypes DEF Installed, FoldOK, LinkOK, Comps
<1>2. CASE k.st # "ready"
  <2>1. Installed(k) = k
    BY <1>2 DEF Installed
  <2>2. k.fold.lsn \in Int /\ NextLsn(old) \in Nat /\ NextLsn(img) \in Nat
    <3>1. k.fold \in SnapRef
      BY DEF Comps
    <3> QED BY <3>1, SnapRefLsn, LsnTypes
  <2>3. FoldOK(q, k, img, w, stored)
    BY <1>2, <2>2 DEF FoldOK
  <2> QED BY <1>2, <2>1, <2>3
<1> QED
  BY <1>1, <1>2

LEMMA AcceptSafe ==
  ASSUME TypeInv, TypeInv', ChainInv, SafeInv, NEW w \in Handles,
         AppendAccepted(w) \/ FlushAccepted(w)
  PROVE  SafeInv'
<1>1. pc[w] = "cas" /\ Accepted(w) /\ UNCHANGED <<snaps, inflight, doomed, corrupt>>
  BY DEF AppendAccepted, FlushAccepted
<1>2. /\ GrowsNow /\ StoreOK' /\ history' = history \o call[w].batch
      /\ NextLsn(image[w]) = Len(history)
  BY <1>1, AcceptedSafe
<1>3. PICK img, st, g :
         /\ img \in Image
         /\ image' = [image EXCEPT ![w] = img] /\ etag' = [etag EXCEPT ![w] = img]
         /\ state' = [state EXCEPT ![w] = st] /\ garbage' = [garbage EXCEPT ![w] = g]
         /\ ViewOK(img, img, st, history', wal') /\ QueueOK(g, wal')
         /\ NextLsn(image[w]) <= NextLsn(img)
  BY <1>1, AcceptedSafe
<1>4. /\ image[w] \in Image /\ comp[w] \in Comps /\ call[w] \in Calls /\ history \in Seq(Entry)
      /\ image'[w] = img /\ spawned \in Nat /\ wal \in Image \cup {None}
      /\ wal' \in Image \cup {None} /\ garbage[w] \in Garbage /\ call[w].batch \in Seq(Entry)
  BY <1>3, BoundsAssumption DEF TypeInv, HandleInv, HandleTypeOK, OtherTypeOK, JobTypeOK,
     StoreTypeOK, Calls
<1>5. /\ ControlOK(pc[w], call[w]) /\ FetchOK(pc[w], call[w], image[w], history', wal')
      /\ FoldOK(pc[w], comp[w], image[w], wal', DOMAIN snaps')
      /\ LinkOK(comp[w], jobs, spawned) /\ ~corrupt'
  <2>1. /\ LocalOK(w, pc[w], call[w], image[w], etag[w], state[w], comp[w], garbage[w],
                   history, wal, DOMAIN snaps)
        /\ LinkOK(comp[w], jobs, spawned) /\ ~corrupt'
    BY <1>1 DEF SafeInv, HandlesOK, HandleOK
  <2>2. LocalOK(w, pc[w], call[w], image[w], etag[w], state[w], comp[w], garbage[w],
                history', wal', DOMAIN snaps')
    BY <1>2, <1>4, <2>1, LocalGrows DEF GrowsNow
  <2> QED BY <2>1, <2>2 DEF LocalOK
<1>6. ASSUME NEW p \in {"idle", "flush"}, NEW c, NEW k, ControlOK(p, c),
             FetchOK(p, c, img, history', wal'), FoldOK(p, k, img, wal', DOMAIN snaps'),
             LinkOK(k, jobs', spawned'), pc' = [pc EXCEPT ![w] = p],
             call' = [call EXCEPT ![w] = c], comp' = [comp EXCEPT ![w] = k]
      PROVE  HandlesFine
  <2>1. PutOK(w, p, c, img, img, k)
    BY <1>3, <1>6, NoneIsNoImage DEF PutOK
  <2>2. LocalOK(w, p, c, img, img, st, k, g, history', wal', DOMAIN snaps')
    BY <1>3, <1>6, <2>1 DEF LocalOK
  <2> QED BY <1>3, <1>6, <2>2, OneMoves
<1>7. ASSUME NEW p \in {"idle", "flush"}, comp' = [comp EXCEPT ![w] = Installed(comp[w])],
             UNCHANGED jobVars
      PROVE  /\ LsnsKept /\ LinkOK(Installed(comp[w]), jobs', spawned') /\ jobs' = jobs
             /\ FoldOK(p, Installed(comp[w]), img, wal', DOMAIN snaps')
  <2>1. p \notin Opening /\ jobs' = jobs /\ spawned' = spawned
    BY <1>7 DEF Opening, jobVars
  <2>2. /\ FoldOK(p, Installed(comp[w]), img, wal', DOMAIN snaps')
        /\ LinkOK(Installed(comp[w]), jobs, spawned)
    <3>1. img \in Image /\ NextLsn(image[w]) <= NextLsn(img)
      BY <1>3
    <3> QED BY <1>4, <1>5, <2>1, <3>1, InstalledSafe
  <2>3. LsnsKept
    BY <1>4, <2>1 DEF LsnsKept
  <2> QED BY <2>1, <2>2, <2>3
<1>8. CASE FlushAccepted(w)
  <2>1. /\ comp' = [comp EXCEPT ![w] = Installed(comp[w])] /\ pc' = [pc EXCEPT ![w] = "flush"]
        /\ call' = [call EXCEPT ![w] = call[w]] /\ UNCHANGED jobVars /\ acked' = acked
        /\ call[w].op \in {"flush", "close"}
    BY <1>8, SameFunctions DEF FlushAccepted
  <2>2. ControlOK("flush", call[w])
    BY <1>1, <1>5, <2>1 DEF ControlOK, Opening
  <2>3. FetchOK("flush", call[w], img, history', wal')
    BY <1>5 DEF FetchOK
  <2>4. /\ LsnsKept /\ LinkOK(Installed(comp[w]), jobs', spawned') /\ jobs' = jobs
        /\ FoldOK("flush", Installed(comp[w]), img, wal', DOMAIN snaps')
    BY <1>7, <2>1
  <2>5. HandlesFine
    BY <1>6, <2>1, <2>2, <2>3, <2>4
  <2>6. AcksOK'
    BY <1>2, <2>1, AcksGrow DEF AcksOK
  <2> QED BY <1>1, <1>2, <1>5, <2>4, <2>5, <2>6, StepKeeps
<1>9. CASE AppendAccepted(w)
  <2>1. /\ pc' = [pc EXCEPT ![w] = "idle"] /\ call' = [call EXCEPT ![w] = NoCall]
        /\ acked' = acked \cup {<<NextLsn(image[w]) + i - 1, call[w].batch[i]>> :
                                  i \in DOMAIN call[w].batch}
    BY <1>9 DEF AppendAccepted
  <2>2. AcksOK'
    <3> DEFINE batch == call[w].batch
    <3>1. /\ Len(history \o batch) = Len(history) + Len(batch) /\ Len(history) \in Nat
          /\ Len(batch) \in Nat /\ DOMAIN batch = 1 .. Len(batch)
          /\ \A i \in 1 .. Len(batch) : (history \o batch)[Len(history) + i] = batch[i]
      BY <1>4, ConcatProperties, LenProperties
    <3>2. ASSUME NEW i \in DOMAIN batch
          PROVE  Len(history) + i - 1 < Len(history') /\ history'[Len(history) + i - 1 + 1] = batch[i]
      <4> HIDE DEF batch
      <4>1. i \in 1 .. Len(batch) /\ Len(history) + i - 1 + 1 = Len(history) + i
        BY <3>1, <3>2
      <4>2. history' = history \o batch
        BY <1>2 DEF batch
      <4>3. Len(history) + i - 1 < Len(history')
        BY <3>1, <4>1, <4>2
      <4>4. history'[Len(history) + i] = batch[i]
        BY <3>1, <4>1, <4>2
      <4> QED BY <4>1, <4>3, <4>4
    <3> SUFFICES ASSUME NEW p \in acked' PROVE p[1] < Len(history') /\ history'[p[1] + 1] = p[2]
      BY DEF AcksOK
    <3>3. CASE p \in acked
      BY <1>2, <3>3, AcksGrow
    <3>4. CASE p \notin acked
      <4>1. PICK i \in DOMAIN batch : p = <<Len(history) + i - 1, batch[i]>>
        BY <1>2, <2>1, <3>4
      <4>2. p[1] = Len(history) + i - 1 /\ p[2] = batch[i]
        BY <4>1
      <4> QED BY <3>2, <4>2
    <3> QED BY <3>3, <3>4
  <2>3. "idle" \notin Opening
    BY DEF Opening
  <2>4. CASE comp' = [comp EXCEPT ![w] = Installed(comp[w])] /\ UNCHANGED jobVars
    <3>1. /\ LsnsKept /\ LinkOK(Installed(comp[w]), jobs', spawned') /\ jobs' = jobs
          /\ FoldOK("idle", Installed(comp[w]), img, wal', DOMAIN snaps')
      BY <1>7, <2>4
    <3>2. HandlesFine
      BY <1>6, <2>1, <2>4, <3>1, IdleControl
    <3> QED BY <1>1, <1>2, <1>5, <2>2, <3>1, <3>2, StepKeeps
  <2>5. CASE MayCompact(Installed(comp[w]), img) /\ SpawnCompaction(w, img)
    <3>1. img.entries # << >> /\ Agrees(img, history')
      BY <1>3, <2>5 DEF MayCompact, ViewOK, Past
    <3>2. /\ LsnsKept
          /\ \A i \in JobIds : \/ jobs'[i] = jobs[i]
                               \/ JobOK(i, jobs'[i], history', wal', DOMAIN snaps')
      BY <1>3, <2>5, <3>1, SpawnSafe
    <3>3. PICK k \in Comps :
             /\ comp' = [comp EXCEPT ![w] = k] /\ k.st # "ready" /\ LinkOK(k, jobs', spawned')
             /\ \A p : p \notin Opening => FoldOK(p, k, img, wal', DOMAIN snaps')
      BY <1>3, <2>5, <3>1, SpawnSafe
    <3>4. HandlesFine
      BY <1>6, <2>1, <2>3, <3>3, IdleControl
    <3> QED BY <1>1, <1>2, <1>5, <2>2, <3>2, <3>4, StepKeeps
  <2> QED BY <1>4, <1>9, <2>4, <2>5 DEF AppendAccepted
<1> QED
  BY <1>8, <1>9
-----------------------------------------------------------------------------
(* The theorems                                                              *)

LEMMA SafeInit == Init => SafeInv
<1> SUFFICES ASSUME Init PROVE SafeInv
  OBVIOUS
<1>1. TypeInv /\ << >> \in Seq(Entry) /\ DOMAIN << >> = {} /\ Len(<< >>) = 0
  BY TypeInit, EmptySeq
<1>2. history \in Seq(Entry) /\ wal \in Image \cup {None} /\ wal = None /\ history = << >>
  BY <1>1 DEF Init
<1>3. StoreOK
  BY <1>1 DEF Init, StoreOK, WalOK, SnapsOK
<1>4. HandlesOK
  <2> SUFFICES ASSUME NEW h \in Handles PROVE HandleOK(h)
    BY DEF HandlesOK
  <2>1. /\ pc[h] = "down" /\ call[h] = NoCall /\ image[h] = EmptyImage /\ etag[h] = None
        /\ state[h] = << >> /\ comp[h] = NoFold /\ garbage[h] = NoGarbage
    BY DEF Init
  <2>2. LocalOK(h, "down", NoCall, EmptyImage, None, << >>, NoFold, NoGarbage,
                history, wal, DOMAIN snaps)
    BY <1>2, LocalDown
  <2>3. LinkOK(NoFold, jobs, spawned)
    BY DEF LinkOK, NoFold
  <2> QED BY <2>1, <2>2, <2>3 DEF HandleOK
<1>5. JobsOK
  BY DEF Init, JobsOK, JobOK, NoJob
<1>6. RequestsOK /\ DoomedOK /\ AcksOK /\ ~corrupt
  BY DEF Init, RequestsOK, DoomedOK, AcksOK
<1> QED
  BY <1>3, <1>4, <1>5, <1>6 DEF SafeInv

\* One case per action of Next.
LEMMA SafeNext == TypeInv /\ TypeInv' /\ ChainInv /\ SafeInv /\ [Next]_vars => SafeInv'
<1> SUFFICES ASSUME TypeInv, TypeInv', ChainInv, SafeInv, [Next]_vars PROVE SafeInv'
  OBVIOUS
<1>1. CASE UNCHANGED vars
  <2>1. /\ UNCHANGED <<pc, call, coreVars, writerVars>>
        /\ UNCHANGED <<storeVars, jobVars, history, acked>> /\ UNCHANGED corrupt
    BY <1>1 DEF vars, obsVars
  <2>2. HandlesFine /\ ~corrupt'
    BY <2>1, NobodyMoves DEF SafeInv
  <2> QED BY <2>1, <2>2, QuietStep
<1>2. ASSUME NEW h \in Handles, HandleStep(h) PROVE SafeInv'
  BY <1>2, OpenGetSafe, OpenSnapSafe, RefreshGetSafe, RefreshSnapSafe DEF HandleStep
<1>3. ASSUME NEW h \in Handles, Refresh(h) PROVE SafeInv'
  BY <1>3, MaintenanceSafe
<1>4. ASSUME NEW h \in Handles, Drop(h) PROVE SafeInv'
  BY <1>4, DropSafe
<1>5. ASSUME NEW w \in Writers, WriterStep(w) PROVE SafeInv'
  <2>1. w \in Handles
    BY DEF Handles
  <2>2. CASE OpenPut(w)
    BY <2>1, <2>2, OpenPutSafe
  <2>3. CASE AppendAccepted(w) \/ FlushAccepted(w)
    BY <2>1, <2>3, AcceptSafe
  <2>4. CASE PutRejected(w) \/ PutFailed(w) \/ PutUnknown(w)
    BY <2>1, <2>4, PutLostSafe
  <2>5. CASE Reconcile(w)
    BY <2>1, <2>5, RoundSafe
  <2>6. CASE WaitForCompaction(w)
    BY <2>1, <2>6, MaintenanceSafe
  <2>7. CASE FlushStep(w)
    BY <2>1, <2>7, FlushStepSafe
  <2>8. CASE GcDelete(w) \/ GcDone(w)
    BY <2>1, <2>8, GcSafe
  <2> QED BY <1>5, <2>2, <2>3, <2>4, <2>5, <2>6, <2>7, <2>8 DEF WriterStep
<1>6. ASSUME NEW w \in Writers,
             \/ Write(w) \/ StartMaintenance(w) \/ CompactNow(w)
             \/ CompactionStatus(w) \/ TakeCompactionError(w)
      PROVE  SafeInv'
  <2>1. w \in Handles
    BY DEF Handles
  <2>2. CASE Write(w)
    BY <2>1, <2>2, RoundSafe
  <2>3. CASE CompactNow(w)
    BY <2>1, <2>3, CompactNowSafe
  <2>4. CASE StartMaintenance(w) \/ CompactionStatus(w) \/ TakeCompactionError(w)
    BY <2>1, <2>4, MaintenanceSafe
  <2> QED BY <1>6, <2>2, <2>3, <2>4
<1>7. ASSUME NEW i \in JobIds, JobStep(i) \/ LateUpload(i) PROVE SafeInv'
  BY <1>7, JobFetchSafe, JobPublishSafe DEF JobStep
<1>8. CASE (\E r \in inflight : LatePut(r)) \/ (\E k \in doomed : LateDelete(k))
  BY <1>8, LateSafe
<1> QED
  BY <1>1, <1>2, <1>3, <1>4, <1>5, <1>6, <1>7, <1>8 DEF Next

\* The three invariants hold in every reachable state.
LEMMA AlwaysSafe == Spec => [](TypeInv /\ ChainInv /\ SafeInv)
<1>1. TypeInv /\ ChainInv /\ [Next]_vars => ChainInv'
  BY ChainNext DEF ChainStep
<1> QED
  BY <1>1, TypeInit, TypeNext, ChainInit, SafeInit, SafeNext, PTL DEF Spec

\* Opening the log rebuilds the history.
LEMMA RebuildsHistory ==
  ASSUME TypeInv, SafeInv
  PROVE  Rebuilt = history
<1>1. CASE wal = None
  BY <1>1 DEF Rebuilt, SafeInv, StoreOK, WalOK
<1>2. CASE wal # None
  <2>1. wal \in Image /\ history \in Seq(Entry)
    BY <1>2 DEF TypeInv, StoreTypeOK, OtherTypeOK
  <2> DEFINE a == FirstLsn(wal)
             b == NextLsn(wal)
             body == IF wal.snap = NoSnap THEN << >> ELSE snaps[wal.snap]
  <2>2. /\ 0 \in Nat /\ a \in Nat /\ b \in Nat /\ 0 <= a /\ a <= b /\ b <= Len(history)
        /\ a = wal.snap.lsn + 1 /\ b = Len(history)
    BY <1>2, <2>1, LsnTypes DEF FirstLsn, SafeInv, StoreOK, WalOK, Past, Agrees
  <2>3. wal.entries = Slice(history, a, b)
    BY <1>2 DEF SafeInv, StoreOK, WalOK, Past, Agrees
  <2>4. body = Slice(history, 0, a)
    <3>1. CASE wal.snap = NoSnap
      <4>1. a = 0 /\ Slice(history, 0, 0) = << >>
        BY <2>1, <2>2, <3>1, SliceEnds DEF NoSnap
      <4> QED BY <3>1, <4>1
    <3>2. CASE wal.snap # NoSnap
      BY <1>2, <2>2, <3>2 DEF SafeInv, StoreOK, WalOK, SnapsOK
    <3> QED BY <3>1, <3>2
  <2>5. Rebuilt = body \o wal.entries
    BY <1>2 DEF Rebuilt
  <2> HIDE DEF a, b, body
  <2>6. Slice(history, 0, a) \o Slice(history, a, b) = Slice(history, 0, b)
    BY <2>1, <2>2, SliceConcat
  <2>7. Slice(history, 0, b) = history
    BY <2>1, <2>2, SliceEnds
  <2> QED BY <2>3, <2>4, <2>5, <2>6, <2>7
<1> QED
  BY <1>1, <1>2

\* Opening the log at any moment rebuilds every accepted entry in LSN order:
\* the snapshot the WAL object names is in the store, and its entries fit the
\* limit, for any number of writers, compactors, folds, crashes and late PUTs.
THEOREM AlwaysRecoverable == Spec => []Recoverable
<1>1. TypeInv /\ SafeInv => Recoverable
  BY RebuildsHistory DEF Recoverable, SafeInv, StoreOK, WalOK, Past
<1> QED
  BY <1>1, AlwaysSafe, PTL

\* An LSN that write or write_batch returned holds that entry for ever: what is
\* rebuilt from the stored objects has the entry at that place.
THEOREM AcksAreDurable == Spec => []AckedDurable
<1>1. TypeInv /\ SafeInv => AckedDurable
  BY RebuildsHistory DEF AckedDurable, SafeInv, AcksOK
<1> QED
  BY <1>1, AlwaysSafe, PTL

\* Every handle shows the replay of a committed prefix, and the image it edits
\* after a CAS is the one it sent, whose ETag it holds.
THEOREM HandlesShowPrefixes == Spec => []ViewsAreCommitted
<1>1. TypeInv /\ ChainInv /\ SafeInv => ViewsAreCommitted
  <2> SUFFICES ASSUME TypeInv, ChainInv, SafeInv, NEW h \in Handles
               PROVE  /\ etag[h] # None => image[h] = etag[h]
                      /\ NextLsn(image[h]) <= Len(history)
                      /\ state[h] = SubSeq(history, 1, NextLsn(image[h]))
    BY DEF ViewsAreCommitted
  <2>1. etag[h] # None => image[h] = etag[h]
    BY DEF ChainInv, HandleChain, ViewHeld
  <2>2. ViewOK(image[h], etag[h], state[h], history, wal)
    BY DEF SafeInv, HandlesOK, HandleOK, LocalOK
  <2>3. state[h] = SubSeq(history, 0 + 1, NextLsn(image[h]))
    BY <2>2 DEF ViewOK, Slice
  <2>4. NextLsn(image[h]) <= Len(history)
    BY <2>2 DEF ViewOK, Past, Agrees
  <2> QED BY <2>1, <2>3, <2>4
<1> QED
  BY <1>1, AlwaysSafe, PTL

\* collect_garbage never removes a snapshot that the WAL object names or that a
\* PUT can still make it name, and every such snapshot is in the store: a late
\* PUT that installs a fold finds its snapshot, a late DELETE hits nothing.
THEOREM GarbageIsDead == Spec => []GarbageStaysDead
<1>1. TypeInv /\ ChainInv /\ SafeInv => GarbageStaysDead
  <2> SUFFICES ASSUME TypeInv, ChainInv, SafeInv PROVE GarbageStaysDead
    OBVIOUS
  <2>1. \A k \in Reclaimable : Dead(k, wal) /\ k \in Key
    <3>1. \A k \in doomed : Dead(k, wal) /\ k \in Key
      BY DEF SafeInv, DoomedOK, TypeInv, StoreTypeOK
    <3>2. ASSUME NEW h \in Handles, NEW k \in Range(garbage[h].queue)
          PROVE  Dead(k, wal) /\ k \in Key
      <4>1. QueueOK(garbage[h], wal) /\ garbage[h].queue \in Seq(Key)
        BY DEF SafeInv, HandlesOK, HandleOK, LocalOK, TypeInv, HandleInv, HandleTypeOK, Garbage
      <4> QED BY <4>1, RangeType DEF QueueOK
    <3> QED BY <3>1, <3>2 DEF Reclaimable
  <2>2. ASSUME NEW k \in Installable
        PROVE  ~(k \in Key /\ Dead(k, wal)) /\ (k # NoSnap => k \in DOMAIN snaps)
    <3>1. CASE wal # None /\ k = wal.snap
      BY <3>1 DEF Dead, Named, SafeInv, StoreOK, WalOK
    <3>2. ASSUME NEW r \in inflight, r.expect = wal, k = r.data.snap
          PROVE  ~(k \in Key /\ Dead(k, wal)) /\ (k # NoSnap => k \in DOMAIN snaps)
      <4>1. r \in Requests /\ RequestOK(r, wal, DOMAIN snaps)
        BY DEF TypeInv, StoreTypeOK, SafeInv, RequestsOK
      <4>2. CASE wal = None
        <5>1. k = NoSnap
          BY <3>2, <4>1, <4>2 DEF RequestOK, EmptyImage
        <5> QED BY <5>1 DEF Key, NoSnap, Lsn
      <4>3. CASE wal # None
        <5>1. /\ Named(wal) = wal.snap
              /\ k = wal.snap \/ wal.snap.lsn < k.lsn
              /\ k # NoSnap => Kept(k, wal, DOMAIN snaps)
          BY <3>2, <4>1, <4>3 DEF RequestOK, Continues, Named
        <5>2. k \in SnapRef /\ k.lsn \in Int /\ wal.snap.lsn \in Int
          BY <3>2, <4>1, <4>3, LsnTypes, SnapRefLsn DEF Requests, TypeInv, StoreTypeOK
        <5> QED BY <5>1, <5>2 DEF Dead, Kept
      <4> QED BY <4>2, <4>3
    <3>3. ASSUME NEW h \in Handles, etag[h] # None, etag[h] = wal, k = ReadyFold(comp[h])
          PROVE  ~(k \in Key /\ Dead(k, wal)) /\ (k # NoSnap => k \in DOMAIN snaps)
      <4>1. CASE comp[h].st # "ready"
        BY <3>3, <4>1 DEF ReadyFold, Key, NoSnap, Lsn
      <4>2. CASE comp[h].st = "ready"
        <5>1. k = comp[h].fold /\ AppliesTo(k, image[h]) /\ image[h] = wal
          BY <3>3, <4>2 DEF ReadyFold, TypeInv, HandleInv, ReadyApplies, ChainInv, HandleChain,
             ViewHeld
        <5>2. Kept(k, wal, DOMAIN snaps)
          BY <4>2, <5>1 DEF SafeInv, HandlesOK, HandleOK, LocalOK, FoldOK
        <5>3. k.lsn \in Int /\ wal.snap.lsn \in Int /\ wal.snap = Named(wal)
          BY <3>3, <5>1, LsnTypes, SnapRefLsn DEF TypeInv, StoreTypeOK, HandleInv, HandleTypeOK,
             Comps, Named
        <5> QED BY <5>1, <5>2, <5>3 DEF AppliesTo, FirstLsn, Dead, Kept
      <4> QED BY <4>1, <4>2
    <3> QED BY <3>1, <3>2, <3>3 DEF Installable, CanLand
  <2> QED BY <2>1, <2>2 DEF GarbageStaysDead
<1> QED
  BY <1>1, AlwaysSafe, PTL

\* A healthy store never makes open or refresh report Corrupt: a reader that
\* loses races against folds and deletions never finds the same snapshot
\* missing twice, and the WAL object does not disappear from under an ETag.
THEOREM NeverReportsCorrupt == Spec => []NeverCorrupt
<1>1. SafeInv => NeverCorrupt
  BY DEF NeverCorrupt, SafeInv, HandlesOK, HandleOK, LocalOK, ViewOK
<1> QED
  BY <1>1, AlwaysSafe, PTL
-----------------------------------------------------------------------------
(* What callers of WalTier may rely on, for every set of handles and every   *)
(* bound: an entry is committed at most once, one that was reported as not   *)
(* applied never is, and together the handles, compactors and late answers   *)
(* implement AppendLog.                                                      *)
(*                                                                           *)
(* The argument is a ledger: every entry that was submitted is in at most    *)
(* one of the history, the denied entries, the batch of one running method   *)
(* and one PUT without an answer.  A step of a handle moves entries of its   *)
(* own batch, a late PUT moves those it carries.                             *)

\* The sequence repeats no entry, and has none that is gone.
Apart(s, n, gone) == IsInjective(s) /\ Range(s) \subseteq 1 .. n /\ Range(s) \cap gone = {}

\* n entries were submitted: hist is committed, gone denied, batch[h] pending
\* in the method of h, and reqs are the PUTs without an answer.
Ledger(hist, gone, n, batch, reqs) ==
  /\ gone \subseteq 1 .. n
  /\ Apart(hist, n, gone)
  /\ \A h \in Handles : Apart(batch[h], n, gone \cup Range(hist))
  /\ \A r \in reqs : Apart(Carried(r), n, gone \cup Range(hist))
  /\ \A h, g \in Handles : h # g => Range(batch[h]) \cap Range(batch[g]) = {}
  /\ \A r, q \in reqs : r # q => Range(Carried(r)) \cap Range(Carried(q)) = {}
  /\ \A h \in Handles, r \in reqs : Range(batch[h]) \cap Range(Carried(r)) = {}

Pending == [h \in Handles |-> call[h].batch]

LedgerInv == Ledger(history, denied, submitted, Pending, inflight)
-----------------------------------------------------------------------------
(* Sequences without repetition                                              *)

LEMMA EmptyApart == IsInjective(<< >>) /\ Range(<< >>) = {}
BY EmptySeq DEF IsInjective, Range

LEMMA ConcatApart ==
  ASSUME NEW s \in Seq(Entry), NEW t \in Seq(Entry)
  PROVE  /\ Range(s \o t) = Range(s) \cup Range(t)
         /\ IsInjective(s) /\ IsInjective(t) /\ Range(s) \cap Range(t) = {} => IsInjective(s \o t)
<1> DEFINE u == s \o t
           m == Len(s)
           n == Len(t)
<1>1. /\ m \in Nat /\ n \in Nat /\ DOMAIN s = 1 .. m /\ DOMAIN t = 1 .. n
      /\ u \in Seq(Entry) /\ Len(u) = m + n
      /\ \A i \in 1 .. m : u[i] = s[i]
      /\ \A i \in 1 .. n : u[m + i] = t[i]
  BY ConcatProperties, LenProperties
<1>2. DOMAIN u = 1 .. m + n
  BY <1>1, LenProperties
<1>3. \A i \in 1 .. m + n : i \in 1 .. m \/ (i - m \in 1 .. n /\ m + (i - m) = i)
  BY <1>1
<1>4. /\ \A i \in 1 .. m : i \in 1 .. m + n
      /\ \A i \in 1 .. n : m + i \in 1 .. m + n
  BY <1>1
<1> HIDE DEF u, m, n
<1>5. ASSUME NEW i \in 1 .. m + n
      PROVE  (i \in 1 .. m /\ u[i] = s[i]) \/ (i - m \in 1 .. n /\ u[i] = t[i - m])
  BY <1>1, <1>3
<1>6. Range(u) = Range(s) \cup Range(t)
  <2>1. Range(u) \subseteq Range(s) \cup Range(t)
    BY <1>1, <1>2, <1>5 DEF Range
  <2>2. Range(s) \subseteq Range(u)
    BY <1>1, <1>2, <1>4 DEF Range
  <2>3. Range(t) \subseteq Range(u)
    BY <1>1, <1>2, <1>4 DEF Range
  <2> QED BY <2>1, <2>2, <2>3
<1>7. ASSUME IsInjective(s), IsInjective(t), Range(s) \cap Range(t) = {}
      PROVE  IsInjective(u)
  <2> SUFFICES ASSUME NEW i \in 1 .. m + n, NEW j \in 1 .. m + n, u[i] = u[j] PROVE i = j
    BY <1>2 DEF IsInjective
  <2>1. CASE i \in 1 .. m /\ j \in 1 .. m
    BY <1>1, <1>7, <2>1 DEF IsInjective
  <2>2. CASE i - m \in 1 .. n /\ j - m \in 1 .. n /\ u[i] = t[i - m] /\ u[j] = t[j - m]
    <3>1. i - m = j - m
      BY <1>1, <1>7, <2>2 DEF IsInjective
    <3> QED BY <1>1, <3>1
  <2>3. \A k \in 1 .. m : s[k] \in Range(s)
    BY <1>1 DEF Range
  <2>4. \A k \in 1 .. n : t[k] \in Range(t)
    BY <1>1 DEF Range
  <2> QED BY <1>5, <1>7, <2>1, <2>2, <2>3, <2>4
<1> QED
  BY <1>6, <1>7 DEF u

LEMMA SliceRange ==
  ASSUME NEW s \in Seq(Entry), NEW a \in Nat, NEW b \in Nat, a <= b, b <= Len(s)
  PROVE  Range(Slice(s, a, b)) \subseteq Range(s)
<1>1. /\ Slice(s, a, b) \in Seq(Entry) /\ Len(Slice(s, a, b)) = b - a
      /\ \A i \in 1 .. b - a : Slice(s, a, b)[i] = s[a + i]
  BY SliceProperties
<1>2. DOMAIN s = 1 .. Len(s) /\ DOMAIN Slice(s, a, b) = 1 .. b - a /\ Len(s) \in Nat
  BY <1>1, LenProperties
<1>3. \A i \in 1 .. b - a : a + i \in 1 .. Len(s)
  BY <1>2
<1> QED
  BY <1>1, <1>2, <1>3 DEF Range

\* A batch takes entries that nobody submitted before.
LEMMA BatchApart ==
  ASSUME submitted \in Nat, NEW n \in Nat
  PROVE  /\ Batch(n) \in Seq(Entry) /\ IsInjective(Batch(n))
         /\ Range(Batch(n)) = (submitted + 1) .. (submitted + n)
<1>1. /\ Batch(n) \in Seq(Entry) /\ DOMAIN Batch(n) = 1 .. n
      /\ \A i \in 1 .. n : Batch(n)[i] = submitted + i
  BY BatchType DEF Batch
<1>2. IsInjective(Batch(n))
  BY <1>1 DEF IsInjective
<1>3. \A e \in (submitted + 1) .. (submitted + n) :
         e - submitted \in 1 .. n /\ submitted + (e - submitted) = e
  OBVIOUS
<1>4. \A e \in (submitted + 1) .. (submitted + n) : e \in Range(Batch(n))
  BY <1>1, <1>3 DEF Range
<1>5. \A i \in 1 .. n : submitted + i \in (submitted + 1) .. (submitted + n)
  OBVIOUS
<1>6. \A e \in Range(Batch(n)) : e \in (submitted + 1) .. (submitted + n)
  BY <1>1, <1>5 DEF Range
<1> QED
  BY <1>1, <1>2, <1>4, <1>6
-----------------------------------------------------------------------------
(* How entries move                                                          *)

\* What is h's own: its pending batch and the entries submitted in this step.
Own(batch, h, n, n2) == Range(batch[h]) \cup ((n + 1) .. n2)

\* h keeps, gives up or sends what is its own; q is the PUT it may send.
Spends(h, q, gone, n, batch, reqs, gone2, n2, batch2, reqs2) ==
  /\ \A g \in Handles : g # h => batch2[g] = batch[g]
  /\ IsInjective(batch2[h]) /\ Range(batch2[h]) \subseteq Own(batch, h, n, n2)
  /\ gone2 \subseteq gone \cup Own(batch, h, n, n2) /\ gone2 \cap Range(batch2[h]) = {}
  /\ \A r \in reqs2 : r \in reqs \/ r = q \/ Carried(r) = << >>
  /\ q \in reqs2 =>
       \/ Carried(q) = << >>
       \/ /\ IsInjective(Carried(q)) /\ Range(Carried(q)) \subseteq Own(batch, h, n, n2)
          /\ Range(Carried(q)) \cap (gone2 \cup Range(batch2[h])) = {}

LEMMA Spend ==
  ASSUME NEW hist, NEW gone, NEW n \in Nat, NEW batch, NEW reqs,
         Ledger(hist, gone, n, batch, reqs),
         NEW gone2, NEW n2 \in Nat, n <= n2, NEW batch2, NEW reqs2, NEW h \in Handles, NEW q,
         Spends(h, q, gone, n, batch, reqs, gone2, n2, batch2, reqs2)
  PROVE  Ledger(hist, gone2, n2, batch2, reqs2)
<1> DEFINE own == Own(batch, h, n, n2)
<1>a. /\ \A g \in Handles : g # h => batch2[g] = batch[g]
      /\ IsInjective(batch2[h]) /\ Range(batch2[h]) \subseteq own
      /\ gone2 \subseteq gone \cup own /\ gone2 \cap Range(batch2[h]) = {}
  BY DEF Spends
<1>b. /\ \A r \in reqs2 : r \in reqs \/ r = q \/ Carried(r) = << >>
      /\ q \in reqs2 =>
           \/ Carried(q) = << >>
           \/ /\ IsInjective(Carried(q)) /\ Range(Carried(q)) \subseteq own
              /\ Range(Carried(q)) \cap (gone2 \cup Range(batch2[h])) = {}
  BY DEF Spends
<1>c. own = Range(batch[h]) \cup ((n + 1) .. n2)
  BY DEF Own
<1> HIDE DEF own
<1>1. 1 .. n \subseteq 1 .. n2 /\ (n + 1) .. n2 \subseteq 1 .. n2 /\ (1 .. n) \cap ((n + 1) .. n2) = {}
  OBVIOUS
<1>2. /\ gone \subseteq 1 .. n
      /\ Apart(hist, n, gone)
      /\ \A g \in Handles : Apart(batch[g], n, gone \cup Range(hist))
      /\ \A r \in reqs : Apart(Carried(r), n, gone \cup Range(hist))
      /\ \A f, g \in Handles : f # g => Range(batch[f]) \cap Range(batch[g]) = {}
      /\ \A r, s \in reqs : r # s => Range(Carried(r)) \cap Range(Carried(s)) = {}
      /\ \A g \in Handles, r \in reqs : Range(batch[g]) \cap Range(Carried(r)) = {}
  BY DEF Ledger
<1>3. own \subseteq 1 .. n2 /\ own \cap Range(hist) = {}
  BY <1>1, <1>2, <1>c DEF Apart
<1>4. \A g \in Handles : g # h => own \cap Range(batch[g]) = {}
  BY <1>1, <1>2, <1>c DEF Apart
<1>5. \A r \in reqs : own \cap Range(Carried(r)) = {}
  BY <1>1, <1>2, <1>c DEF Apart
<1>6. \A r \in reqs2 : \/ r \in reqs
                       \/ /\ IsInjective(Carried(r)) /\ Range(Carried(r)) \subseteq own
                          /\ Range(Carried(r)) \cap (gone2 \cup Range(batch2[h])) = {}
                          /\ r = q \/ Range(Carried(r)) = {}
  BY <1>b, EmptyApart
<1>7. gone2 \subseteq 1 .. n2
  BY <1>1, <1>2, <1>3, <1>a
<1>8. Apart(hist, n2, gone2)
  BY <1>a, <1>1, <1>2, <1>3 DEF Apart
<1>9. ASSUME NEW g \in Handles PROVE Apart(batch2[g], n2, gone2 \cup Range(hist))
  <2>1. CASE g = h
    BY <1>a, <1>3, <2>1 DEF Apart
  <2>2. CASE g # h
    BY <1>a, <1>1, <1>2, <1>4, <2>2 DEF Apart
  <2> QED BY <2>1, <2>2
<1>10. ASSUME NEW r \in reqs2 PROVE Apart(Carried(r), n2, gone2 \cup Range(hist))
  <2>1. CASE r \in reqs
    BY <1>a, <1>1, <1>2, <1>5, <2>1 DEF Apart
  <2>2. CASE r \notin reqs
    BY <1>a, <1>3, <1>6, <2>2 DEF Apart
  <2> QED BY <2>1, <2>2
<1>11. ASSUME NEW f \in Handles, NEW g \in Handles, f # g
       PROVE  Range(batch2[f]) \cap Range(batch2[g]) = {}
  <2>1. CASE f = h
    BY <1>a, <1>4, <1>11, <2>1
  <2>2. CASE g = h
    BY <1>a, <1>4, <1>11, <2>2
  <2>3. CASE f # h /\ g # h
    BY <1>a, <1>2, <1>11, <2>3
  <2> QED BY <2>1, <2>2, <2>3
<1>12. ASSUME NEW r \in reqs2, NEW s \in reqs2, r # s
       PROVE  Range(Carried(r)) \cap Range(Carried(s)) = {}
  BY <1>a, <1>2, <1>5, <1>6, <1>12
<1>13. ASSUME NEW g \in Handles, NEW r \in reqs2
       PROVE  Range(batch2[g]) \cap Range(Carried(r)) = {}
  <2>1. CASE g = h
    BY <1>a, <1>5, <1>6, <2>1
  <2>2. CASE g # h
    BY <1>a, <1>2, <1>4, <1>6, <2>2
  <2> QED BY <2>1, <2>2
<1> QED
  BY <1>7, <1>8, <1>9, <1>10, <1>11, <1>12, <1>13 DEF Ledger

\* A PUT is accepted: the batch of its method is committed.
LEMMA Commit ==
  ASSUME NEW hist \in Seq(Entry), NEW gone, NEW n, NEW batch, NEW reqs,
         Ledger(hist, gone, n, batch, reqs), NEW h \in Handles, batch[h] \in Seq(Entry),
         NEW batch2, \A g \in Handles : g # h => batch2[g] = batch[g], batch2[h] = << >>
  PROVE  Ledger(hist \o batch[h], gone, n, batch2, reqs)
<1>1. /\ gone \subseteq 1 .. n
      /\ Apart(hist, n, gone)
      /\ \A g \in Handles : Apart(batch[g], n, gone \cup Range(hist))
      /\ \A r \in reqs : Apart(Carried(r), n, gone \cup Range(hist))
      /\ \A f, g \in Handles : f # g => Range(batch[f]) \cap Range(batch[g]) = {}
      /\ \A r, s \in reqs : r # s => Range(Carried(r)) \cap Range(Carried(s)) = {}
      /\ \A g \in Handles, r \in reqs : Range(batch[g]) \cap Range(Carried(r)) = {}
  BY DEF Ledger
<1>2. /\ Range(hist \o batch[h]) = Range(hist) \cup Range(batch[h])
      /\ IsInjective(hist \o batch[h])
  BY <1>1, ConcatApart DEF Apart
<1>3. Apart(hist \o batch[h], n, gone)
  BY <1>1, <1>2 DEF Apart
<1>4. \A g \in Handles : Apart(batch2[g], n, gone \cup Range(hist \o batch[h]))
  BY <1>1, <1>2, EmptyApart DEF Apart
<1>5. \A r \in reqs : Apart(Carried(r), n, gone \cup Range(hist \o batch[h]))
  BY <1>1, <1>2 DEF Apart
<1>6. \A f, g \in Handles : f # g => Range(batch2[f]) \cap Range(batch2[g]) = {}
  BY <1>1, EmptyApart
<1>7. \A g \in Handles, r \in reqs : Range(batch2[g]) \cap Range(Carried(r)) = {}
  BY <1>1, EmptyApart
<1> QED
  BY <1>1, <1>3, <1>4, <1>5, <1>6, <1>7 DEF Ledger

\* A PUT without an answer is carried out.
LEMMA CommitLate ==
  ASSUME NEW hist \in Seq(Entry), NEW gone, NEW n, NEW batch, NEW reqs,
         Ledger(hist, gone, n, batch, reqs), NEW q \in reqs, Carried(q) \in Seq(Entry)
  PROVE  Ledger(hist \o Carried(q), gone, n, batch, reqs \ {q})
<1>1. /\ gone \subseteq 1 .. n
      /\ Apart(hist, n, gone)
      /\ \A g \in Handles : Apart(batch[g], n, gone \cup Range(hist))
      /\ \A r \in reqs : Apart(Carried(r), n, gone \cup Range(hist))
      /\ \A f, g \in Handles : f # g => Range(batch[f]) \cap Range(batch[g]) = {}
      /\ \A r, s \in reqs : r # s => Range(Carried(r)) \cap Range(Carried(s)) = {}
      /\ \A g \in Handles, r \in reqs : Range(batch[g]) \cap Range(Carried(r)) = {}
  BY DEF Ledger
<1>2. /\ Range(hist \o Carried(q)) = Range(hist) \cup Range(Carried(q))
      /\ IsInjective(hist \o Carried(q))
  BY <1>1, ConcatApart DEF Apart
<1>3. Apart(hist \o Carried(q), n, gone)
  BY <1>1, <1>2 DEF Apart
<1>4. \A g \in Handles : Apart(batch[g], n, gone \cup Range(hist \o Carried(q)))
  BY <1>1, <1>2 DEF Apart
<1>5. \A r \in reqs \ {q} : Apart(Carried(r), n, gone \cup Range(hist \o Carried(q)))
  BY <1>1, <1>2 DEF Apart
<1> QED
  BY <1>1, <1>3, <1>4, <1>5 DEF Ledger
-----------------------------------------------------------------------------
(* What a step of a handle does to its batch and to its view                 *)

\* The batch stays, or is given up; only then are its entries denied.
Settles(h) ==
  \E c : /\ call' = [call EXCEPT ![h] = c]
         /\ \/ c.batch = call[h].batch /\ UNCHANGED denied
            \/ c.batch = << >> /\ denied' \subseteq denied \cup Range(call[h].batch)

\* An open handle that stays open does not step back.
Shows(h) ==
  \E p, st : /\ pc' = [pc EXCEPT ![h] = p] /\ state' = [state EXCEPT ![h] = st]
             /\ \/ p \in Opening \/ pc[h] \in Opening
                \/ NextLsn(image[h]) <= NextLsn(image'[h])

LEMMA QuietShows ==
  ASSUME TypeInv, NEW h \in Handles, NEW p, pc' = [pc EXCEPT ![h] = p], UNCHANGED coreVars
  PROVE  Shows(h)
<1>1. state' = [state EXCEPT ![h] = state[h]] /\ image' = image
  BY SameCore DEF coreVars
<1>2. NextLsn(image[h]) \in Nat
  BY LsnTypes DEF TypeInv, HandleInv, HandleTypeOK
<1>3. NextLsn(image[h]) <= NextLsn(image'[h])
  BY <1>1, <1>2
<1> QED
  BY <1>1, <1>3 DEF Shows

LEMMA KeepSettles ==
  ASSUME TypeInv, NEW h \in Handles, NEW c, call' = [call EXCEPT ![h] = c],
         c.batch = call[h].batch, UNCHANGED denied
  PROVE  Settles(h)
BY DEF Settles

LEMMA SameSettles ==
  ASSUME TypeInv, NEW h \in Handles, UNCHANGED <<call, denied>>
  PROVE  Settles(h)
<1>1. call' = [call EXCEPT ![h] = call[h]]
  BY SameFunctions
<1> QED
  BY <1>1 DEF Settles

LEMMA EndSettles ==
  ASSUME NEW h \in Handles, call' = [call EXCEPT ![h] = NoCall],
         denied' \subseteq denied \cup Range(call[h].batch)
  PROVE  Settles(h)
<1>1. NoCall.batch = << >>
  BY DEF NoCall
<1> QED
  BY <1>1 DEF Settles

LEMMA ReturnEnds ==
  ASSUME TypeInv, NEW h \in Handles, Return(h)
  PROVE  Shows(h) /\ call' = [call EXCEPT ![h] = NoCall]
<1>1. CASE call[h].op \in {"open", "close"}
  <2>1. /\ pc' = [pc EXCEPT ![h] = "down"] /\ state' = [state EXCEPT ![h] = << >>]
        /\ call' = [call EXCEPT ![h] = NoCall] /\ "down" \in Opening
    BY <1>1 DEF Return, Forget, Opening
  <2> QED BY <2>1 DEF Shows
<1>2. CASE call[h].op \notin {"open", "close"}
  <2>1. /\ pc' = [pc EXCEPT ![h] = "idle"] /\ call' = [call EXCEPT ![h] = NoCall]
        /\ UNCHANGED coreVars
    BY <1>2 DEF Return
  <2> QED BY <2>1, QuietShows
<1> QED
  BY <1>1, <1>2

LEMMA ReturnSettles ==
  ASSUME TypeInv, NEW h \in Handles, Return(h),
         denied' \subseteq denied \cup Range(call[h].batch)
  PROVE  Settles(h) /\ Shows(h)
BY ReturnEnds, EndSettles

LEMMA NotAppliedSettles ==
  ASSUME TypeInv, NEW h \in Handles, ReturnNotApplied(h)
  PROVE  Settles(h) /\ Shows(h)
<1>1. Return(h) /\ denied' \subseteq denied \cup Range(call[h].batch)
  BY DEF ReturnNotApplied
<1> QED
  BY <1>1, ReturnSettles

LEMMA MissingSettles ==
  ASSUME TypeInv, NEW h \in Handles, NEW again, MissingSnapshot(h, again)
  PROVE  Settles(h) /\ Shows(h)
<1> DEFINE c    == call[h]
           next == [c EXCEPT !.races = @ + 1, !.missing = c.got, !.got = None]
<1>1. CASE ReturnNotApplied(h)
  BY <1>1, NotAppliedSettles
<1>2. CASE /\ pc' = [pc EXCEPT ![h] = again] /\ call' = [call EXCEPT ![h] = next]
           /\ UNCHANGED <<coreVars, denied>>
  <2>1. next.batch = call[h].batch
    BY DEF TypeInv, HandleInv, HandleTypeOK, Calls
  <2> HIDE DEF next
  <2> QED BY <1>2, <2>1, QuietShows, KeepSettles
<1> QED
  BY <1>1, <1>2, Zenon DEF MissingSnapshot

LEMMA OpenedSettles ==
  ASSUME TypeInv, NEW h \in Handles, pc[h] \in Opening, NEW img, NEW tag, NEW st,
         Opened(h, img, tag, st)
  PROVE  Settles(h) /\ Shows(h)
<1>1. /\ pc' = [pc EXCEPT ![h] = "idle"] /\ call' = [call EXCEPT ![h] = NoCall]
      /\ state' = [state EXCEPT ![h] = st] /\ denied' = denied
  BY DEF Opened
<1>2. Settles(h)
  BY <1>1, EndSettles
<1> QED
  BY <1>1, <1>2 DEF Shows

\* refresh hands the batch back to append.
LEMMA ProceedSettles ==
  ASSUME TypeInv, NEW h \in Handles, Proceed(h), UNCHANGED denied
  PROVE  Settles(h) /\ \E p : pc' = [pc EXCEPT ![h] = p]
<1> DEFINE kept == [NoCall EXCEPT !.op = call[h].op, !.attempt = call[h].attempt,
                                  !.batch = call[h].batch]
<1>1. kept.batch = call[h].batch
  BY DEF NoCall
<1>2. /\ call' = [call EXCEPT ![h] = IF call[h].op = "refresh" THEN NoCall ELSE kept]
      /\ \E p : pc' = [pc EXCEPT ![h] = p]
  BY Zenon DEF Proceed
<1> HIDE DEF kept
<1>3. CASE call[h].op = "refresh"
  BY <1>2, <1>3, EndSettles
<1>4. CASE call[h].op # "refresh"
  BY <1>1, <1>2, <1>4, KeepSettles
<1> QED
  BY <1>2, <1>3, <1>4

LEMMA AdoptSettles ==
  ASSUME TypeInv, NEW h \in Handles, NEW img, NEW st, Adopt(h, img, st),
         NextLsn(image[h]) <= NextLsn(img)
  PROVE  Settles(h) /\ Shows(h)
<1>1. /\ Proceed(h) /\ UNCHANGED denied /\ state' = [state EXCEPT ![h] = st]
      /\ image' = [image EXCEPT ![h] = img]
  BY DEF Adopt
<1>2. image'[h] = img
  BY <1>1 DEF TypeInv, HandleInv, HandleTypeOK
<1> QED
  BY <1>1, <1>2, ProceedSettles DEF Shows

LEMMA OpenSettles ==
  ASSUME TypeInv, NEW h \in Handles, OpenGet(h) \/ OpenSnap(h)
  PROVE  Settles(h) /\ Shows(h)
<1>1. pc[h] \in Opening
  BY DEF OpenGet, OpenSnap, Opening
<1>2. CASE OpenSnap(h)
  <2>1. CASE ReturnNotApplied(h)
    BY <2>1, NotAppliedSettles
  <2>2. CASE \E img, tag, st : Opened(h, img, tag, st)
    BY <1>1, <2>2, OpenedSettles
  <2>3. CASE MissingSnapshot(h, "openGet")
    BY <2>3, MissingSettles
  <2> QED BY <1>2, <2>1, <2>2, <2>3, Zenon DEF OpenSnap
<1>3. CASE OpenGet(h)
  <2> DEFINE c == [call[h] EXCEPT !.got = wal]
  <2>1. CASE ReturnNotApplied(h)
    BY <2>1, NotAppliedSettles
  <2>2. CASE \E img, tag, st : Opened(h, img, tag, st)
    BY <1>1, <2>2, OpenedSettles
  <2>3. CASE /\ pc' = [pc EXCEPT ![h] = "openPut"] /\ UNCHANGED <<call, coreVars, denied>>
    BY <2>3, QuietShows, SameSettles
  <2>4. CASE /\ pc' = [pc EXCEPT ![h] = "openSnap"] /\ call' = [call EXCEPT ![h] = c]
             /\ UNCHANGED <<coreVars, denied>>
    <3>1. c.batch = call[h].batch
      BY DEF TypeInv, HandleInv, HandleTypeOK, Calls
    <3> HIDE DEF c
    <3> QED BY <2>4, <3>1, QuietShows, KeepSettles
  <2> QED BY <1>3, <2>1, <2>2, <2>3, <2>4, Zenon DEF OpenGet
<1> QED
  BY <1>2, <1>3

\* refresh adopts images that hold at least what the handle shows.
LEMMA RefreshSettles ==
  ASSUME TypeInv, SafeInv, NEW h \in Handles, RefreshGet(h) \/ RefreshSnap(h)
  PROVE  Settles(h) /\ Shows(h)
<1>1. /\ image[h] \in Image /\ call[h] \in Calls /\ wal \in Image \cup {None}
      /\ history \in Seq(Entry)
  BY DEF TypeInv, HandleInv, HandleTypeOK, StoreTypeOK, OtherTypeOK
<1>2. NextLsn(image[h]) \in Nat /\ NextLsn(image[h]) <= Len(history)
  BY <1>1, LsnTypes DEF SafeInv, HandlesOK, HandleOK, LocalOK, ViewOK, Past, Agrees
<1>3. CASE RefreshGet(h)
  <2> DEFINE c == [call[h] EXCEPT !.got = wal]
  <2>1. CASE ReturnNotApplied(h)
    BY <2>1, NotAppliedSettles
  <2>2. CASE Proceed(h) /\ UNCHANGED <<coreVars, denied>>
    BY <2>2, ProceedSettles, QuietShows
  <2>3. CASE wal # None /\ \E st : Adopt(h, wal, st)
    <3>1. NextLsn(wal) = Len(history)
      BY <2>3 DEF SafeInv, StoreOK, WalOK
    <3> QED BY <1>2, <2>3, <3>1, AdoptSettles
  <2>4. CASE /\ pc' = [pc EXCEPT ![h] = "snap"] /\ call' = [call EXCEPT ![h] = c]
             /\ UNCHANGED <<coreVars, denied>>
    <3>1. c.batch = call[h].batch
      BY <1>1 DEF Calls
    <3> HIDE DEF c
    <3> QED BY <2>4, <3>1, QuietShows, KeepSettles
  <2> QED BY <1>3, <2>1, <2>2, <2>3, <2>4, Zenon DEF RefreshGet
<1>4. CASE RefreshSnap(h)
  <2>1. CASE ReturnNotApplied(h)
    BY <2>1, NotAppliedSettles
  <2>2. CASE \E st : Adopt(h, call[h].got, st)
    <3>1. call[h].got \in Image /\ FirstLsn(call[h].got) > NextLsn(image[h])
      BY <1>1, <1>4 DEF RefreshSnap, SafeInv, HandlesOK, HandleOK, LocalOK, FetchOK, Calls
    <3>2. /\ FirstLsn(call[h].got) \in Nat /\ NextLsn(call[h].got) \in Nat
          /\ FirstLsn(call[h].got) <= NextLsn(call[h].got)
      BY <3>1, LsnTypes
    <3>3. NextLsn(image[h]) <= NextLsn(call[h].got)
      BY <1>2, <3>1, <3>2
    <3> QED BY <2>2, <3>3, AdoptSettles
  <2>3. CASE MissingSnapshot(h, "get")
    BY <2>3, MissingSettles
  <2> QED BY <1>4, <2>1, <2>2, <2>3, Zenon DEF RefreshSnap
<1> QED
  BY <1>3, <1>4

\* open creates the WAL object.
LEMMA CreateSettles ==
  ASSUME TypeInv, TypeInv', SafeInv, NEW w \in Handles, OpenPut(w)
  PROVE  /\ Settles(w) /\ Shows(w) /\ history' = history
         /\ \A r \in inflight' : r \in inflight \/ Carried(r) = << >>
<1> DEFINE q == [expect |-> None, data |-> EmptyImage]
           c == [call[w] EXCEPT !.races = call[w].races + 1]
<1>1. /\ q \in Requests /\ q.expect = None /\ q.data = EmptyImage /\ Carried(q) = << >>
      /\ pc[w] \in Opening
  BY ConstantTypes DEF Requests, Carried, OpenPut, Opening
<1>2. c.batch = call[w].batch
  BY DEF TypeInv, HandleInv, HandleTypeOK, Calls
<1> HIDE DEF q, c
<1>3. CASE /\ PutIfMatch(None, EmptyImage) /\ Opened(w, EmptyImage, EmptyImage, << >>)
           /\ UNCHANGED <<inflight, snaps>>
  <2>1. RequestOK(q, wal, DOMAIN snaps)
    BY <1>1 DEF RequestOK
  <2>2. history' = history \o << >>
    BY <1>1, <1>3, <2>1, LandSafe
  <2>3. history \in Seq(Entry)
    BY DEF TypeInv, OtherTypeOK
  <2>4. history' = history
    BY <2>2, <2>3, ConcatEmptySeq
  <2> QED BY <1>1, <1>3, <2>4, OpenedSettles
<1>4. CASE UNCHANGED <<history, inflight>> /\ ReturnNotApplied(w)
  BY <1>4, NotAppliedSettles
<1>5. CASE /\ UNCHANGED <<history, inflight>> /\ pc' = [pc EXCEPT ![w] = "openGet"]
           /\ call' = [call EXCEPT ![w] = c] /\ UNCHANGED <<coreVars, denied>>
  BY <1>2, <1>5, QuietShows, KeepSettles
<1>6. CASE ReturnNotApplied(w) /\ inflight' = inflight \cup {q} /\ UNCHANGED history
  BY <1>1, <1>6, NotAppliedSettles
<1> QED
  BY <1>3, <1>4, <1>5, <1>6 DEF OpenPut, q, c

\* The methods that only look after compactions and garbage.
LEMMA MaintenanceSettles ==
  ASSUME TypeInv, NEW h \in Handles,
         \/ Refresh(h) \/ StartMaintenance(h) \/ WaitForCompaction(h) \/ CompactNow(h)
         \/ CompactionStatus(h) \/ TakeCompactionError(h)
  PROVE  Settles(h) /\ Shows(h)
<1>1. UNCHANGED <<coreVars, denied>>
  BY DEF Refresh, StartMaintenance, WaitForCompaction, CompactNow, CompactionStatus,
         TakeCompactionError, obsVars
<1>2. ASSUME NEW op PROVE [call[h] EXCEPT !.op = op].batch = call[h].batch
  BY DEF TypeInv, HandleInv, HandleTypeOK, Calls
<1>3. CASE Refresh(h) \/ StartMaintenance(h)
  <2>1. PICK op, p : pc' = [pc EXCEPT ![h] = p] /\ call' = [call EXCEPT ![h] = [call[h] EXCEPT !.op = op]]
    BY <1>3, Zenon DEF Refresh, StartMaintenance
  <2> QED BY <1>1, <1>2, <2>1, QuietShows, KeepSettles
<1>4. CASE WaitForCompaction(h)
  <2>1. /\ \E p : pc' = [pc EXCEPT ![h] = p]
        /\ call' = [call EXCEPT ![h] = IF call[h].op = "wait" THEN NoCall ELSE call[h]]
    BY <1>4, Zenon DEF WaitForCompaction
  <2>2. CASE call[h].op = "wait"
    BY <1>1, <2>1, <2>2, QuietShows, EndSettles
  <2>3. CASE call[h].op # "wait"
    BY <1>1, <2>1, <2>3, QuietShows, KeepSettles
  <2> QED BY <2>2, <2>3
<1>5. CASE CompactNow(h) \/ CompactionStatus(h) \/ TakeCompactionError(h)
  <2>1. UNCHANGED <<pc, call>>
    BY <1>5 DEF CompactNow, CompactionStatus, TakeCompactionError
  <2>2. pc' = [pc EXCEPT ![h] = pc[h]]
    BY <2>1, SameFunctions
  <2> QED BY <1>1, <2>1, <2>2, QuietShows, SameSettles
<1> QED
  BY <1>3, <1>4, <1>5

LEMMA FlushSettles ==
  ASSUME TypeInv, NEW w \in Handles,
         FlushStep(w) \/ GcDelete(w) \/ GcDone(w) \/ PutRejected(w) \/ PutFailed(w)
  PROVE  Settles(w) /\ Shows(w)
<1> DEFINE c == [call[w] EXCEPT !.attempt = call[w].attempt + 1]
<1>1. CASE Return(w) /\ denied' \subseteq denied \cup Range(call[w].batch)
  BY <1>1, ReturnSettles
<1>2. CASE \E p : /\ pc' = [pc EXCEPT ![w] = p] /\ UNCHANGED <<call, coreVars, denied>>
  BY <1>2, QuietShows, SameSettles
<1>3. CASE /\ pc' = [pc EXCEPT ![w] = "cas"] /\ call' = [call EXCEPT ![w] = c]
           /\ UNCHANGED <<coreVars, denied>>
  <2>1. c.batch = call[w].batch
    BY DEF TypeInv, HandleInv, HandleTypeOK, Calls
  <2> HIDE DEF c
  <2> QED BY <1>3, <2>1, QuietShows, KeepSettles
<1>4. CASE UNCHANGED <<pc, call, coreVars, denied>>
  <2>1. pc' = [pc EXCEPT ![w] = pc[w]]
    BY <1>4, SameFunctions
  <2> QED BY <1>4, <2>1, QuietShows, SameSettles
<1> QED
  BY <1>1, <1>2, <1>3, <1>4, Zenon DEF FlushStep, GcDelete, GcDone, PutRejected, PutFailed,
     ReturnNotApplied, obsVars
-----------------------------------------------------------------------------
(* The ledger, action by action                                              *)

\* The batches after a step of h.
LEMMA PendingMoves ==
  ASSUME TypeInv, NEW h \in Handles, NEW c, call' = [call EXCEPT ![h] = c]
  PROVE  /\ \A g \in Handles : g # h => Pending'[g] = Pending[g]
         /\ Pending'[h] = c.batch /\ Pending[h] = call[h].batch
         /\ Pending[h] \in Seq(Entry)
<1>1. call'[h] = c /\ \A g \in Handles : g # h => call'[g] = call[g]
  BY DEF TypeInv, HandleInv, HandleTypeOK
<1>2. call[h].batch \in Seq(Entry)
  BY DEF TypeInv, HandleInv, HandleTypeOK, Calls
<1> QED
  BY <1>1, <1>2 DEF Pending

\* The step keeps the batch, or gives it up, and may send q with its entries.
LEMMA SettlesLedger ==
  ASSUME TypeInv, LedgerInv, NEW h \in Handles, Settles(h), UNCHANGED <<history, submitted>>,
         NEW q, \A r \in inflight' : r \in inflight \/ r = q \/ Carried(r) = << >>,
         q \in inflight' =>
           \/ Carried(q) = << >>
           \/ Carried(q) = call[h].batch /\ UNCHANGED denied /\ call'[h].batch = << >>
  PROVE  LedgerInv'
<1> DEFINE own    == Own(Pending, h, submitted, submitted)
           batch2 == Pending'
           gone2  == denied'
           reqs2  == inflight'
<1>1. PICK c : /\ call' = [call EXCEPT ![h] = c]
               /\ \/ c.batch = call[h].batch /\ UNCHANGED denied
                  \/ c.batch = << >> /\ denied' \subseteq denied \cup Range(call[h].batch)
  BY DEF Settles
<1>2. /\ \A g \in Handles : g # h => batch2[g] = Pending[g]
      /\ batch2[h] = c.batch /\ Pending[h] = call[h].batch /\ call'[h].batch = c.batch
  BY <1>1, PendingMoves DEF TypeInv, HandleInv, HandleTypeOK
<1>3. /\ submitted \in Nat /\ Ledger(history, denied, submitted, Pending, inflight)
      /\ Apart(Pending[h], submitted, denied \cup Range(history)) /\ submitted <= submitted
  <2>1. submitted \in Nat /\ Ledger(history, denied, submitted, Pending, inflight)
    BY DEF TypeInv, OtherTypeOK, LedgerInv
  <2>2. Apart(Pending[h], submitted, denied \cup Range(history))
    BY <2>1 DEF Ledger
  <2> QED BY <2>1, <2>2
<1>4. Range(Pending[h]) \subseteq own
  BY DEF Own
<1>5. /\ IsInjective(batch2[h]) /\ Range(batch2[h]) \subseteq own
      /\ gone2 \subseteq denied \cup own /\ gone2 \cap Range(batch2[h]) = {}
  <2> HIDE DEF batch2, own
  <2> QED BY <1>1, <1>2, <1>3, <1>4, EmptyApart DEF Apart
<1>6. /\ \A r \in reqs2 : r \in inflight \/ r = q \/ Carried(r) = << >>
      /\ q \in reqs2 => \/ Carried(q) = << >>
                        \/ /\ IsInjective(Carried(q)) /\ Range(Carried(q)) \subseteq own
                           /\ Range(Carried(q)) \cap (gone2 \cup Range(batch2[h])) = {}
  <2> HIDE DEF batch2, own
  <2> QED BY <1>2, <1>3, <1>4, EmptyApart DEF Apart
<1> HIDE DEF batch2, gone2, reqs2
<1>7. Spends(h, q, denied, submitted, Pending, inflight, gone2, submitted, batch2, reqs2)
  BY <1>2, <1>5, <1>6 DEF Spends
<1>8. Ledger(history, gone2, submitted, batch2, reqs2)
  BY <1>3, <1>7, Spend
<1> QED
  BY <1>8 DEF LedgerInv, batch2, gone2, reqs2

\* Methods that keep their batch or end without a PUT on its way.
LEMMA QuietLedger ==
  ASSUME TypeInv, LedgerInv, NEW h \in Handles, Settles(h), UNCHANGED <<history, submitted>>,
         \A r \in inflight' : r \in inflight \/ Carried(r) = << >>
  PROVE  LedgerInv'
<1>1. PICK q : q = [expect |-> None, data |-> EmptyImage]
  OBVIOUS
<1>2. Carried(q) = << >>
  BY <1>1 DEF Carried
<1> QED
  BY <1>2, SettlesLedger

\* A PUT without an answer carries the batch of the method that ends.
LEMMA SendLedger ==
  ASSUME TypeInv, ChainInv, SafeInv, LedgerInv, NEW w \in Handles,
         PutUnknown(w) \/ Drop(w)
  PROVE  LedgerInv' /\ Shows(w)
<1> DEFINE put == [expect |-> None, data |-> EmptyImage]
           own == Request(w)
<1>1. /\ call' = [call EXCEPT ![w] = NoCall] /\ UNCHANGED <<history, submitted, denied>> /\ Shows(w)
  <2>1. CASE PutUnknown(w)
    BY <2>1, ReturnEnds DEF PutUnknown, envVars
  <2>2. CASE Drop(w)
    <3>1. /\ pc' = [pc EXCEPT ![w] = "down"] /\ call' = [call EXCEPT ![w] = NoCall]
          /\ state' = [state EXCEPT ![w] = << >>] /\ "down" \in Opening
      BY <2>2 DEF Drop, Forget, Opening
    <3>2. Shows(w)
      BY <3>1 DEF Shows
    <3>3. UNCHANGED <<history, submitted, denied>>
      BY <2>2 DEF Drop
    <3> QED BY <3>1, <3>2, <3>3
  <2> QED BY <2>1, <2>2
<1>2. call'[w].batch = << >>
  BY <1>1 DEF TypeInv, HandleInv, HandleTypeOK, NoCall
<1>3. Settles(w)
  BY <1>1, EndSettles
<1>4. Carried(put) = << >> /\ (pc[w] = "cas" => Carried(own) = call[w].batch)
  BY RequestSafe DEF Carried
<1>5. inflight' \in {inflight} \cup (IF pc[w] = "cas" THEN {inflight \cup {own}} ELSE {})
                              \cup (IF pc[w] = "openPut" THEN {inflight \cup {put}} ELSE {})
  <2>1. CASE PutUnknown(w)
    BY <2>1 DEF PutUnknown
  <2>2. CASE Drop(w)
    BY <2>2, Zenon DEF Drop
  <2> QED BY <2>1, <2>2
<1> HIDE DEF put, own
<1>6. CASE pc[w] = "cas"
  <2>1. \A r \in inflight' : r \in inflight \/ r = own \/ Carried(r) = << >>
    BY <1>4, <1>5
  <2> QED BY <1>1, <1>2, <1>3, <1>4, <1>6, <2>1, SettlesLedger
<1>7. CASE pc[w] # "cas"
  <2>1. \A r \in inflight' : r \in inflight \/ Carried(r) = << >>
    BY <1>4, <1>5, <1>7
  <2> QED BY <1>1, <1>3, <2>1, QuietLedger
<1> QED
  BY <1>6, <1>7

\* A round of append works on the pending batch and on newly submitted entries.
LEMMA RoundLedger ==
  ASSUME TypeInv, LedgerInv, NEW w \in Handles, NEW n \in Nat, submitted' = submitted + n,
         UNCHANGED <<history, inflight>>, NEW c, call' = [call EXCEPT ![w] = c],
         IsInjective(c.batch), Range(c.batch) \subseteq Range(call[w].batch) \cup Range(Batch(n)),
         denied' \subseteq denied \cup Range(call[w].batch) \cup Range(Batch(n)),
         denied' \cap Range(c.batch) = {}
  PROVE  LedgerInv'
<1> DEFINE n2     == submitted + n
           own    == Own(Pending, w, submitted, n2)
           batch2 == Pending'
           gone2  == denied'
           q      == [expect |-> None, data |-> EmptyImage]
<1>1. /\ \A g \in Handles : g # w => batch2[g] = Pending[g]
      /\ batch2[w] = c.batch /\ Pending[w] = call[w].batch
  BY PendingMoves
<1>2. submitted \in Nat /\ Ledger(history, denied, submitted, Pending, inflight)
  BY DEF TypeInv, OtherTypeOK, LedgerInv
<1>3. n2 \in Nat /\ submitted <= n2 /\ Carried(q) = << >>
  BY <1>2 DEF Carried
<1>4. own = Range(call[w].batch) \cup Range(Batch(n))
  BY <1>1, <1>2, BatchApart DEF Own
<1>5. submitted' = n2
  OBVIOUS
<1> HIDE DEF n2, batch2, gone2, q
<1>6. Spends(w, q, denied, submitted, Pending, inflight, gone2, n2, batch2, inflight)
  <2>1. /\ Range(batch2[w]) \subseteq own /\ gone2 \subseteq denied \cup own
        /\ gone2 \cap Range(batch2[w]) = {} /\ IsInjective(batch2[w])
    <3> HIDE DEF own
    <3> QED BY <1>1, <1>4 DEF gone2
  <2> QED BY <1>1, <1>3, <2>1 DEF Spends
<1>7. Ledger(history, gone2, n2, batch2, inflight)
  BY <1>2, <1>3, <1>6, Spend
<1> QED
  BY <1>5, <1>7 DEF LedgerInv, batch2, gone2

\* Up to the next PUT: the round goes on with b, and lost is given up.
LEMMA TryInstallLedger ==
  ASSUME TypeInv, LedgerInv, NEW w \in Handles, NEW n \in Nat, submitted' = submitted + n,
         UNCHANGED <<history, inflight>>, NEW op, NEW k, NEW b, NEW attempt, NEW lost,
         TryInstall(w, op, k, b, attempt, lost), b \in {call[w].batch, Batch(n)},
         lost = {} \/ (b = Batch(n) /\ lost = Range(call[w].batch))
  PROVE  LedgerInv' /\ \E p : pc' = [pc EXCEPT ![w] = p]
<1> DEFINE full == Len(Candidate(w, k, b).entries) > MaxLive
           stop == b = << >> \/ full
           next == [NoCall EXCEPT !.op = op, !.attempt = attempt, !.batch = b]
           c    == IF stop THEN NoCall ELSE next
<1>1. /\ denied' = denied \cup lost \cup (IF full THEN Range(b) ELSE {})
      /\ call' = [call EXCEPT ![w] = c] /\ \E p : pc' = [pc EXCEPT ![w] = p]
  BY Zenon DEF TryInstall
<1>2. NoCall.batch = << >> /\ next.batch = b
  BY DEF NoCall
<1> HIDE DEF full, next
<1>3. (c.batch = << >> \/ (c.batch = b /\ ~full))
  BY <1>2
<1> HIDE DEF c
<1>4. submitted \in Nat /\ Ledger(history, denied, submitted, Pending, inflight)
  BY DEF TypeInv, OtherTypeOK, LedgerInv
<1>5. /\ denied \subseteq 1 .. submitted
      /\ IsInjective(call[w].batch) /\ Range(call[w].batch) \subseteq 1 .. submitted
      /\ Range(call[w].batch) \cap denied = {}
  BY <1>4 DEF Ledger, Apart, Pending
<1>6. /\ IsInjective(Batch(n)) /\ Range(Batch(n)) \cap (1 .. submitted) = {}
  <2>1. ((submitted + 1) .. (submitted + n)) \cap (1 .. submitted) = {}
    BY <1>4
  <2> QED BY <1>4, <2>1, BatchApart
<1>7. IsInjective(b) /\ Range(b) \cap denied = {} /\ Range(b) \cap lost = {}
  BY <1>5, <1>6
<1>8. /\ IsInjective(c.batch) /\ Range(c.batch) \subseteq Range(call[w].batch) \cup Range(Batch(n))
      /\ denied' \subseteq denied \cup Range(call[w].batch) \cup Range(Batch(n))
      /\ denied' \cap Range(c.batch) = {}
  BY <1>1, <1>3, <1>7, EmptyApart
<1> QED
  BY <1>1, <1>8, RoundLedger

LEMMA WriteLedger ==
  ASSUME TypeInv, LedgerInv, NEW w \in Handles, Write(w)
  PROVE  LedgerInv' /\ Shows(w)
<1>1. UNCHANGED <<history, inflight, coreVars>>
  BY DEF Write, storeVars
<1>2. PICK n \in 0 .. MaxBatch, op \in {"write", "write_batch"} :
        Submit(n) /\ TryInstall(w, op, Synced(w), Batch(n), 1, {})
  BY DEF Write
<1>3. n \in Nat /\ submitted' = submitted + n
  BY <1>2, BoundsAssumption DEF Submit
<1>4. PICK k : k = Synced(w)
  OBVIOUS
<1>5. LedgerInv' /\ \E p : pc' = [pc EXCEPT ![w] = p]
  BY <1>1, <1>2, <1>3, <1>4, TryInstallLedger
<1> QED
  BY <1>1, <1>5, QuietShows

LEMMA ReconcileLedger ==
  ASSUME TypeInv, LedgerInv, NEW w \in Handles, Reconcile(w)
  PROVE  LedgerInv' /\ Shows(w)
<1>1. UNCHANGED <<history, inflight>>
  BY DEF Reconcile, storeVars
<1> DEFINE pending == Range(call[w].batch)
           next    == call[w].attempt + 1
<1>2. submitted \in Nat
  BY DEF TypeInv, OtherTypeOK
<1>3. CASE ReturnNotApplied(w) /\ UNCHANGED submitted
  <2>1. Settles(w) /\ Shows(w)
    BY <1>3, NotAppliedSettles
  <2> QED BY <1>1, <1>3, <2>1, QuietLedger
<1>4. CASE /\ TryInstall(w, call[w].op, comp[w], call[w].batch, next, {})
           /\ UNCHANGED <<submitted, coreVars>>
  <2>1. 0 \in Nat /\ submitted' = submitted + 0
    BY <1>2, <1>4
  <2>2. LedgerInv' /\ \E p : pc' = [pc EXCEPT ![w] = p]
    BY <1>1, <1>4, <2>1, TryInstallLedger
  <2> QED BY <1>4, <2>2, QuietShows
<1>5. ASSUME NEW n \in 0 .. MaxBatch, Submit(n), Return(w),
             denied' = denied \cup pending \cup Range(Batch(n))
      PROVE  LedgerInv' /\ Shows(w)
  <2>1. Shows(w) /\ call' = [call EXCEPT ![w] = NoCall] /\ NoCall.batch = << >>
    BY <1>5, ReturnEnds DEF NoCall
  <2>2. n \in Nat /\ submitted' = submitted + n
    BY <1>5, BoundsAssumption DEF Submit
  <2>3. IsInjective(NoCall.batch) /\ Range(NoCall.batch) = {}
    BY <2>1, EmptyApart
  <2> QED BY <1>1, <1>5, <2>1, <2>2, <2>3, RoundLedger
<1>6. ASSUME NEW n \in 0 .. MaxBatch, Submit(n), UNCHANGED coreVars,
             TryInstall(w, call[w].op, comp[w], Batch(n), next, pending)
      PROVE  LedgerInv' /\ Shows(w)
  <2>1. n \in Nat /\ submitted' = submitted + n
    BY <1>6, BoundsAssumption DEF Submit
  <2>2. LedgerInv' /\ \E p : pc' = [pc EXCEPT ![w] = p]
    BY <1>1, <1>6, <2>1, TryInstallLedger
  <2> QED BY <1>6, <2>2, QuietShows
<1> QED
  BY <1>3, <1>4, <1>5, <1>6, Zenon DEF Reconcile

\* An accepted PUT commits exactly the batch of its method.
LEMMA AcceptLedger ==
  ASSUME TypeInv, TypeInv', ChainInv, SafeInv, LedgerInv, NEW w \in Handles,
         AppendAccepted(w) \/ FlushAccepted(w)
  PROVE  LedgerInv'
<1>1. /\ pc[w] = "cas" /\ Accepted(w) /\ UNCHANGED <<snaps, inflight, denied, submitted>>
      /\ ControlOK(pc[w], call[w])
  BY DEF AppendAccepted, FlushAccepted, envVars, SafeInv, HandlesOK, HandleOK, LocalOK
<1>2. history' = history \o call[w].batch /\ history \in Seq(Entry)
  BY <1>1, AcceptedSafe DEF TypeInv, OtherTypeOK
<1>3. PICK c : call' = [call EXCEPT ![w] = c] /\ c.batch = << >>
  <2>1. CASE AppendAccepted(w)
    <3>1. NoCall.batch = << >>
      BY DEF NoCall
    <3> QED BY <2>1, <3>1 DEF AppendAccepted
  <2>2. CASE FlushAccepted(w)
    <3>1. call[w].batch = << >>
      BY <1>1, <2>2 DEF FlushAccepted, ControlOK, WriteOps
    <3> QED BY <2>2, <3>1, SameFunctions DEF FlushAccepted
  <2> QED BY <2>1, <2>2
<1> DEFINE batch2 == Pending'
<1>4. /\ \A g \in Handles : g # w => batch2[g] = Pending[g]
      /\ batch2[w] = << >> /\ Pending[w] = call[w].batch /\ Pending[w] \in Seq(Entry)
  BY <1>3, PendingMoves
<1>5. Ledger(history, denied, submitted, Pending, inflight)
  BY DEF LedgerInv
<1> HIDE DEF batch2
<1>6. Ledger(history \o Pending[w], denied, submitted, batch2, inflight)
  BY <1>2, <1>4, <1>5, Commit
<1> QED
  BY <1>1, <1>2, <1>4, <1>6 DEF LedgerInv, batch2

\* A late PUT commits exactly the entries it carries.
LEMMA LateLedger ==
  ASSUME TypeInv, TypeInv', SafeInv, LedgerInv, NEW r \in inflight, LatePut(r)
  PROVE  LedgerInv' /\ history' = history \o Carried(r) /\ Carried(r) \in Seq(Entry)
<1>1. /\ PutIfMatch(r.expect, r.data) /\ UNCHANGED <<snaps, call, denied, submitted>>
      /\ inflight' = inflight \ {r}
  BY DEF LatePut, envVars
<1>2. r \in Requests /\ RequestOK(r, wal, DOMAIN snaps)
  BY DEF TypeInv, StoreTypeOK, SafeInv, RequestsOK
<1>3. history' = history \o Carried(r) /\ Carried(r) \in Seq(Entry) /\ history \in Seq(Entry)
  BY <1>1, <1>2, LandSafe DEF TypeInv, OtherTypeOK
<1>4. Ledger(history, denied, submitted, Pending, inflight) /\ Pending' = Pending
  BY <1>1 DEF LedgerInv, Pending
<1>5. Ledger(history \o Carried(r), denied, submitted, Pending, inflight \ {r})
  BY <1>3, <1>4, CommitLate
<1> QED
  BY <1>1, <1>3, <1>4, <1>5 DEF LedgerInv
-----------------------------------------------------------------------------
(* The refinement of AppendLog, step by step                                 *)

\* What callers see: the view variable of AppendLog.
View == [h \in Handles |-> IF pc[h] \in Opening THEN None ELSE state[h]]

PromiseStep == [Promise!Next]_(Promise!vars)

\* The same facts are needed before and after a step, so they have names.
HistoryRebuilt == Rebuilt = history

PrefixesShown ==
  \A h \in Handles : /\ NextLsn(image[h]) \in 0 .. Len(history)
                     /\ Len(state[h]) = NextLsn(image[h])
                     /\ state[h] = SubSeq(history, 1, NextLsn(image[h]))

LEMMA RebuiltNow == TypeInv /\ SafeInv => Rebuilt = history
BY RebuildsHistory

LEMMA RebuiltNext == TypeInv' /\ SafeInv' => Rebuilt' = history'
<1>1. TypeInv /\ SafeInv => HistoryRebuilt
  BY RebuiltNow DEF HistoryRebuilt
<1>2. TypeInv' /\ SafeInv' => HistoryRebuilt'
  BY <1>1, PTL
<1> QED
  BY <1>2 DEF HistoryRebuilt

\* The state of a handle is a prefix of the history.
LEMMA PrefixShown ==
  ASSUME TypeInv, SafeInv, NEW h \in Handles
  PROVE  /\ NextLsn(image[h]) \in 0 .. Len(history) /\ Len(state[h]) = NextLsn(image[h])
         /\ state[h] = SubSeq(history, 1, NextLsn(image[h])) /\ Len(history) \in Nat
<1> DEFINE n == NextLsn(image[h])
<1>1. n \in Nat /\ history \in Seq(Entry)
  BY LsnTypes DEF TypeInv, HandleInv, HandleTypeOK, OtherTypeOK
<1>2. ViewOK(image[h], etag[h], state[h], history, wal)
  BY DEF SafeInv, HandlesOK, HandleOK, LocalOK
<1>3. 0 \in Nat /\ 0 <= n /\ n <= Len(history) /\ Len(history) \in Nat
  BY <1>1, <1>2, LenProperties DEF ViewOK, Past, Agrees
<1>4. state[h] = Slice(history, 0, n)
  BY <1>2 DEF ViewOK
<1> HIDE DEF n
<1>5. Len(Slice(history, 0, n)) = n - 0
  BY <1>1, <1>3, SliceProperties
<1>6. Slice(history, 0, n) = SubSeq(history, 0 + 1, n)
  BY DEF Slice
<1> QED
  BY <1>1, <1>3, <1>4, <1>5, <1>6 DEF n

LEMMA PrefixesNow == TypeInv /\ SafeInv => PrefixesShown
BY PrefixShown DEF PrefixesShown

LEMMA PrefixesNext == TypeInv' /\ SafeInv' => PrefixesShown'
BY PrefixesNow, PTL

LEMMA ViewMovesAt ==
  ASSUME TypeInv, NEW h \in Handles, NEW p, NEW st, pc' = [pc EXCEPT ![h] = p],
         state' = [state EXCEPT ![h] = st]
  PROVE  /\ View' = [View EXCEPT ![h] = IF p \in Opening THEN None ELSE st]
         /\ pc'[h] = p /\ state'[h] = st
BY DEF View, TypeInv, HandleInv, HandleTypeOK

\* A step of one handle that commits nothing observes or closes.
LEMMA ObserveStep ==
  ASSUME TypeInv, TypeInv', SafeInv, SafeInv', NEW h \in Handles, Shows(h),
         UNCHANGED <<history, acked>>
  PROVE  PromiseStep
<1>1. Rebuilt = history /\ Rebuilt' = history
  BY RebuiltNow, RebuiltNext
<1>2. PICK p, st : /\ pc' = [pc EXCEPT ![h] = p] /\ state' = [state EXCEPT ![h] = st]
                   /\ \/ p \in Opening \/ pc[h] \in Opening
                      \/ NextLsn(image[h]) <= NextLsn(image'[h])
  BY DEF Shows
<1>3. /\ View' = [View EXCEPT ![h] = IF p \in Opening THEN None ELSE st]
      /\ pc'[h] = p /\ state'[h] = st
  BY <1>2, ViewMovesAt
<1>4. CASE p \in Opening
  <2>1. View' = [View EXCEPT ![h] = None]
    BY <1>3, <1>4
  <2>2. Promise!Close(h)
    BY <1>1, <2>1 DEF Promise!Close, View, Opening
  <2> QED BY <2>2 DEF PromiseStep, Promise!Next
<1>5. CASE p \notin Opening
  <2> DEFINE n == NextLsn(image'[h])
  <2>1. n \in 0 .. Len(history) /\ st = SubSeq(history, 1, n)
    BY <1>3, PrefixesNext DEF PrefixesShown
  <2>2. View' = [View EXCEPT ![h] = SubSeq(history, 1, n)]
    BY <1>3, <1>5, <2>1
  <2>3. View[h] # None => n >= Len(View[h])
    <3>1. CASE pc[h] \in Opening
      BY <3>1 DEF View
    <3>2. CASE pc[h] \notin Opening
      <4>1. View[h] = state[h] /\ Len(state[h]) = NextLsn(image[h]) /\ NextLsn(image[h]) <= n
        BY <1>2, <1>5, <3>2, PrefixesNow DEF PrefixesShown, View
      <4>2. Len(state[h]) \in Int /\ n \in Int
        BY <2>1, <4>1, PrefixesNow DEF PrefixesShown
      <4> HIDE DEF n
      <4> QED BY <4>1, <4>2
    <3> QED BY <3>1, <3>2
  <2> HIDE DEF n
  <2>4. Promise!Observe(h)
    BY <1>1, <2>1, <2>2, <2>3 DEF Promise!Observe, View, Opening
  <2> QED BY <2>4 DEF PromiseStep, Promise!Next
<1> QED
  BY <1>4, <1>5

\* A late PUT appends unseen; one that only installs a fold is invisible.
LEMMA UnseenStep ==
  ASSUME TypeInv, TypeInv', SafeInv, SafeInv', NEW extra \in Seq(Entry),
         history' = history \o extra, UNCHANGED <<pc, state, acked>>
  PROVE  PromiseStep
<1>1. Rebuilt = history /\ Rebuilt' = history' /\ history \in Seq(Entry) /\ View' = View
  BY RebuiltNow, RebuiltNext DEF TypeInv, OtherTypeOK, View
<1>2. CASE extra = << >>
  <2>1. history' = history
    BY <1>1, <1>2, ConcatEmptySeq
  <2>2. UNCHANGED Promise!vars
    BY <1>1, <2>1 DEF Promise!vars, View, Opening
  <2> QED BY <2>2 DEF PromiseStep
<1>3. CASE extra # << >>
  <2>1. /\ Len(history') = Len(history) + Len(extra) /\ Len(history) \in Nat /\ Len(extra) \in Nat
        /\ Slice(history', Len(history), Len(history) + Len(extra)) = extra
    BY <1>1, SliceGrow
  <2>2. Len(extra) # 0
    BY <1>3, EmptySeq
  <2>3. Len(history') > Len(history)
    BY <2>1, <2>2
  <2>4. SubSeq(history', Len(history) + 1, Len(history')) = extra
    BY <2>1 DEF Slice
  <2>5. Promise!Grow
    BY <1>1, <2>3, <2>4 DEF Promise!Grow, Promise!Added
  <2>6. Promise!AppendUnseen
    BY <1>1, <2>5 DEF Promise!AppendUnseen, View, Opening
  <2> QED BY <2>6 DEF PromiseStep, Promise!Next
<1> QED
  BY <1>2, <1>3

\* An accepted PUT of append is an append by a handle that shows the whole log;
\* one of flush is invisible.
LEMMA AcceptStep ==
  ASSUME TypeInv, TypeInv', ChainInv, SafeInv, SafeInv', NEW w \in Handles,
         AppendAccepted(w) \/ FlushAccepted(w)
  PROVE  PromiseStep
<1> DEFINE batch == call[w].batch
<1>1. /\ pc[w] = "cas" /\ Accepted(w) /\ UNCHANGED snaps /\ ControlOK(pc[w], call[w])
      /\ state' = [state EXCEPT ![w] = state[w] \o batch]
  BY DEF AppendAccepted, FlushAccepted, Accepted, SafeInv, HandlesOK, HandleOK, LocalOK
<1>2. /\ history' = history \o batch /\ NextLsn(image[w]) = Len(history)
      /\ history \in Seq(Entry) /\ batch \in Seq(Entry)
  BY <1>1, AcceptedSafe DEF TypeInv, OtherTypeOK, HandleInv, HandleTypeOK, Calls
<1>3. PICK p : pc' = [pc EXCEPT ![w] = p] /\ p \notin Opening
  BY DEF AppendAccepted, FlushAccepted, Opening
<1>4. CASE batch = << >>
  <2>1. history' = history
    BY <1>2, <1>4, ConcatEmptySeq
  <2>2. acked' = acked
    <3>1. CASE FlushAccepted(w)
      BY <3>1 DEF FlushAccepted
    <3>2. CASE AppendAccepted(w)
      <4>1. DOMAIN batch = {}
        BY <1>4, EmptySeq
      <4> QED BY <3>2, <4>1 DEF AppendAccepted
    <3> QED BY <3>1, <3>2
  <2>3. NextLsn(image[w]) <= NextLsn(image'[w])
    <3>1. PICK img : image' = [image EXCEPT ![w] = img] /\ NextLsn(image[w]) <= NextLsn(img)
      BY <1>1, AcceptedSafe
    <3> QED BY <3>1 DEF TypeInv, HandleInv, HandleTypeOK
  <2>4. Shows(w)
    BY <1>1, <1>3, <2>3 DEF Shows
  <2> QED BY <2>1, <2>2, <2>4, ObserveStep
<1>5. CASE batch # << >>
  <2>1. AppendAccepted(w)
    BY <1>1, <1>5 DEF FlushAccepted, ControlOK, WriteOps
  <2>2. Rebuilt = history /\ Rebuilt' = history'
    BY RebuiltNow, RebuiltNext
  <2>3. View[w] = history /\ state[w] = history
    <3>1. state[w] = SubSeq(history, 1, Len(history))
      BY <1>2, PrefixesNow DEF PrefixesShown
    <3>2. SubSeq(history, 1, Len(history)) = history
      BY <1>2, SubSeqFull
    <3>3. pc[w] \notin Opening
      BY <1>1 DEF Opening
    <3> QED BY <3>1, <3>2, <3>3 DEF View
  <2>4. View' = [View EXCEPT ![w] = history']
    BY <1>1, <1>2, <1>3, <2>3, ViewMovesAt
  <2>5. /\ Len(history') = Len(history) + Len(batch) /\ Len(history) \in Nat /\ Len(batch) \in Nat
        /\ Slice(history', Len(history), Len(history) + Len(batch)) = batch
    BY <1>2, SliceGrow
  <2>6. Len(batch) # 0
    BY <1>2, <1>5, EmptySeq
  <2>7. Len(history') > Len(history)
    BY <2>5, <2>6
  <2>8. SubSeq(history', Len(history) + 1, Len(history')) = batch
    BY <2>5 DEF Slice
  <2>9. acked' = acked \cup {<<Len(history) + i - 1, batch[i]>> : i \in DOMAIN batch}
    BY <1>2, <2>1 DEF AppendAccepted
  <2> HIDE DEF batch
  <2>10. Promise!Grow /\ Promise!Added = batch
    BY <1>2, <2>2, <2>7, <2>8 DEF Promise!Grow, Promise!Added
  <2>11. Promise!Append1(w)
    <3>1. acked' = acked \cup {<<Len(Rebuilt) + i - 1, Promise!Added[i]>> : i \in DOMAIN Promise!Added}
      BY <2>2, <2>9, <2>10
    <3> QED BY <2>2, <2>3, <2>4, <2>10, <3>1 DEF Promise!Append1, View, Opening
  <2> QED BY <2>11 DEF PromiseStep, Promise!Next
<1> QED
  BY <1>4, <1>5
-----------------------------------------------------------------------------
(* The theorems                                                              *)

LEMMA LedgerInit == Init => LedgerInv
<1> SUFFICES ASSUME Init PROVE LedgerInv
  OBVIOUS
<1>1. /\ history = << >> /\ denied = {} /\ inflight = {}
      /\ \A h \in Handles : Pending[h] = << >>
  BY DEF Init, Pending, NoCall
<1> QED
  BY <1>1, EmptyApart DEF LedgerInv, Ledger, Apart

Inv == TypeInv /\ ChainInv /\ SafeInv

\* One case per action of Next: the ledger stays in order, and callers see a
\* step of AppendLog or none.
LEMMA CallersNext == Inv /\ Inv' /\ LedgerInv /\ [Next]_vars => LedgerInv' /\ PromiseStep
<1> SUFFICES ASSUME TypeInv, TypeInv', ChainInv, SafeInv, SafeInv', LedgerInv, [Next]_vars
             PROVE  LedgerInv' /\ PromiseStep
  BY DEF Inv
<1>1. ASSUME UNCHANGED <<pc, state, call, history, acked, denied, submitted, inflight>>
      PROVE  LedgerInv' /\ PromiseStep
  <2>1. LedgerInv'
    BY <1>1 DEF LedgerInv, Pending
  <2>2. history' = history \o << >> /\ << >> \in Seq(Entry)
    BY <1>1, ConcatEmptySeq, EmptySeq DEF TypeInv, OtherTypeOK
  <2> QED BY <1>1, <2>1, <2>2, UnseenStep
<1>2. ASSUME NEW h \in Handles, Settles(h), Shows(h), UNCHANGED <<history, submitted, acked>>,
             \A r \in inflight' : r \in inflight \/ Carried(r) = << >>
      PROVE  LedgerInv' /\ PromiseStep
  BY <1>2, QuietLedger, ObserveStep
<1>3. CASE UNCHANGED vars
  BY <1>1, <1>3 DEF vars, coreVars, obsVars, envVars, storeVars
<1>4. ASSUME NEW h \in Handles, HandleStep(h) \/ Refresh(h) PROVE LedgerInv' /\ PromiseStep
  <2>1. UNCHANGED <<history, submitted, acked, inflight>>
    BY <1>4 DEF HandleStep, OpenGet, OpenSnap, RefreshGet, RefreshSnap, Refresh, storeVars,
       envVars, obsVars
  <2>2. Settles(h) /\ Shows(h)
    BY <1>4, OpenSettles, RefreshSettles, MaintenanceSettles DEF HandleStep
  <2> QED BY <1>2, <2>1, <2>2
<1>5. ASSUME NEW h \in Handles, Drop(h) \/ PutUnknown(h) PROVE LedgerInv' /\ PromiseStep
  <2>1. LedgerInv' /\ Shows(h) /\ UNCHANGED <<history, acked>>
    BY <1>5, SendLedger DEF Drop, PutUnknown
  <2> QED BY <2>1, ObserveStep
<1>6. ASSUME NEW w \in Handles, OpenPut(w) PROVE LedgerInv' /\ PromiseStep
  <2>1. /\ Settles(w) /\ Shows(w) /\ history' = history
        /\ \A r \in inflight' : r \in inflight \/ Carried(r) = << >>
    BY <1>6, CreateSettles
  <2>2. UNCHANGED <<submitted, acked>>
    BY <1>6 DEF OpenPut, envVars
  <2> QED BY <1>2, <2>1, <2>2
<1>7. ASSUME NEW w \in Handles, AppendAccepted(w) \/ FlushAccepted(w)
      PROVE  LedgerInv' /\ PromiseStep
  BY <1>7, AcceptLedger, AcceptStep
<1>8. ASSUME NEW w \in Handles, Write(w) \/ Reconcile(w) PROVE LedgerInv' /\ PromiseStep
  <2>1. LedgerInv' /\ Shows(w) /\ UNCHANGED <<history, acked>>
    BY <1>8, WriteLedger, ReconcileLedger DEF Write, Reconcile
  <2> QED BY <2>1, ObserveStep
<1>9. ASSUME NEW w \in Handles,
             \/ FlushStep(w) \/ GcDelete(w) \/ GcDone(w) \/ PutRejected(w) \/ PutFailed(w)
             \/ StartMaintenance(w) \/ WaitForCompaction(w) \/ CompactNow(w)
             \/ CompactionStatus(w) \/ TakeCompactionError(w)
      PROVE  LedgerInv' /\ PromiseStep
  <2>1. UNCHANGED <<history, submitted, acked, inflight>>
    BY <1>9 DEF FlushStep, GcDelete, GcDone, PutRejected, PutFailed, StartMaintenance,
       WaitForCompaction, CompactNow, CompactionStatus, TakeCompactionError, storeVars,
       envVars, obsVars
  <2>2. Settles(w) /\ Shows(w)
    BY <1>9, FlushSettles, MaintenanceSettles
  <2> QED BY <1>2, <2>1, <2>2
<1>10. ASSUME NEW w \in Writers,
             \/ WriterStep(w) \/ Write(w) \/ StartMaintenance(w)
             \/ CompactNow(w) \/ CompactionStatus(w) \/ TakeCompactionError(w)
       PROVE  LedgerInv' /\ PromiseStep
  <2>1. w \in Handles
    BY DEF Handles
  <2> QED BY <1>5, <1>6, <1>7, <1>8, <1>9, <1>10, <2>1 DEF WriterStep
<1>11. CASE \E r \in inflight : LatePut(r)
  <2>1. PICK r \in inflight : LatePut(r)
    BY <1>11
  <2>2. LedgerInv' /\ history' = history \o Carried(r) /\ Carried(r) \in Seq(Entry)
    BY <2>1, LateLedger
  <2>3. UNCHANGED <<pc, state, acked>>
    BY <2>1 DEF LatePut, coreVars
  <2> QED BY <2>2, <2>3, UnseenStep
<1>12. CASE \/ \E i \in JobIds : JobStep(i) \/ LateUpload(i)
            \/ \E k \in doomed : LateDelete(k)
  <2>1. UNCHANGED <<pc, state, call, history, acked, denied, submitted, inflight>>
    BY <1>12 DEF JobStep, JobFetch, JobPublish, LateUpload, LateDelete, storeVars, coreVars,
       obsVars, envVars
  <2> QED BY <1>1, <2>1
<1> QED
  BY <1>3, <1>4, <1>5, <1>10, <1>11, <1>12 DEF Next

LEMMA AlwaysLedger == Spec => [](Inv /\ LedgerInv)
<1>1. Spec => []Inv
  BY AlwaysSafe DEF Inv
<1>2. Inv /\ Inv' /\ LedgerInv /\ [Next]_vars => LedgerInv'
  BY CallersNext
<1> QED
  BY <1>1, <1>2, LedgerInit, PTL DEF Spec

\* No entry is committed twice, whatever is retried, lost or late: an uncertain
\* PUT is never sent again by append, and a rejected one never lands.
THEOREM CommittedOnce == Spec => []AppliedOnce
<1>1. LedgerInv => AppliedOnce
  BY DEF LedgerInv, Ledger, Apart, AppliedOnce
<1> QED
  BY <1>1, AlwaysLedger, PTL

\* NotApplied is the truth for good: no entry that a caller was told is not
\* applied, and none that reconciliation replaced, is in the log or in a PUT
\* that the store would still accept.
THEOREM DeniedNeverLands == Spec => []NotAppliedNeverLands
<1>1. TypeInv /\ SafeInv /\ LedgerInv => NotAppliedNeverLands
  <2> SUFFICES ASSUME TypeInv, SafeInv, LedgerInv PROVE NotAppliedNeverLands
    OBVIOUS
  <2>1. /\ Range(history) \cap denied = {}
        /\ \A r \in inflight : Range(Carried(r)) \cap denied = {}
    BY DEF LedgerInv, Ledger, Apart
  <2>2. ASSUME NEW r \in inflight, r.expect = wal
        PROVE  denied \cap Range(r.data.entries) = {}
    <3>1. r \in Requests /\ RequestOK(r, wal, DOMAIN snaps)
      BY DEF TypeInv, StoreTypeOK, SafeInv, RequestsOK
    <3>2. CASE wal = None
      <4>1. r.data.entries = << >>
        BY <2>2, <3>1, <3>2 DEF RequestOK, EmptyImage
      <4> QED BY <4>1, EmptyApart
    <3>3. CASE wal # None
      <4> DEFINE new   == r.data
                 extra == Carried(r)
                 m     == FirstLsn(new) - FirstLsn(wal)
                 n     == Len(wal.entries)
      <4>1. /\ new \in Image /\ wal \in Image /\ Continues(new, wal, extra)
            /\ wal.entries \in Seq(Entry)
        BY <2>2, <3>1, <3>3, LsnTypes DEF Requests, RequestOK, TypeInv, StoreTypeOK
      <4>2. extra \in Seq(Entry) /\ new.entries = Slice(wal.entries, m, n) \o extra
        <5>1. extra = EntriesFrom(new, NextLsn(wal))
          BY <2>2, <3>3 DEF Carried
        <5>2. NextLsn(wal) \in Nat
          BY <4>1, LsnTypes
        <5>3. EntriesFrom(new, NextLsn(wal)) \in Seq(Entry)
          BY <4>1, <5>2, EntriesFromProperties
        <5> QED BY <4>1, <5>1, <5>3 DEF Continues
      <4>3. m \in Nat /\ n \in Nat /\ m <= n /\ n <= Len(wal.entries)
        BY <4>1, LsnTypes DEF Continues
      <4> HIDE DEF new, extra, m, n
      <4>4. Slice(wal.entries, m, n) \in Seq(Entry) /\ Range(Slice(wal.entries, m, n)) \subseteq Range(wal.entries)
        BY <4>1, <4>3, SliceProperties, SliceRange
      <4>5. Range(new.entries) \subseteq Range(wal.entries) \cup Range(extra)
        BY <4>2, <4>4, ConcatApart
      <4>6. Range(wal.entries) \subseteq Range(history)
        <5> DEFINE a == FirstLsn(wal)
                   b == NextLsn(wal)
        <5>1. /\ a \in Nat /\ b \in Nat /\ a <= b /\ b <= Len(history) /\ history \in Seq(Entry)
              /\ wal.entries = Slice(history, a, b)
          BY <3>3, <4>1, LsnTypes DEF SafeInv, StoreOK, WalOK, Past, Agrees, TypeInv, OtherTypeOK
        <5> HIDE DEF a, b
        <5> QED BY <5>1, SliceRange
      <4>7. Range(extra) \cap denied = {}
        BY <2>1 DEF extra
      <4> QED BY <2>1, <4>5, <4>6, <4>7 DEF new
    <3> QED BY <3>2, <3>3
  <2> QED BY <2>1, <2>2 DEF NotAppliedNeverLands, CanLand
<1> QED
  BY <1>1, AlwaysLedger, PTL DEF Inv

\* WalTier implements AppendLog: whatever the writers, compactors and late
\* answers do, callers see one log that grows by whole batches, through
\* committed prefixes that never step back, and folds are invisible.
THEOREM PromiseKept == Spec => KeepsPromise
<1>1. Init => Promise!Init
  <2> SUFFICES ASSUME Init PROVE Promise!Init
    OBVIOUS
  <2>1. Rebuilt = << >> /\ acked = {}
    BY DEF Init, Rebuilt
  <2>2. View = [h \in Handles |-> None]
    BY DEF Init, View, Opening
  <2> QED BY <2>1, <2>2 DEF Promise!Init, View, Opening
<1>2. Inv /\ Inv' /\ LedgerInv /\ [Next]_vars => [Promise!Next]_(Promise!vars)
  BY CallersNext DEF PromiseStep
<1> QED
  BY <1>1, <1>2, AlwaysLedger, PTL DEF Spec, KeepsPromise, Promise!Spec
-----------------------------------------------------------------------------
(* The accounting of garbage: as long as no handle ends early, every         *)
(* snapshot that fell out of use is watched by a writer or was counted as    *)
(* debt when the writer's queue was full.                                    *)
(*                                                                           *)
(* Untracked itself is not inductive: it accepts a snapshot because some     *)
(* idle writer still shows a stale image that names it, and that writer may  *)
(* go away without a trace.  The invariant counts every spent snapshot that  *)
(* is not in a queue, on its way to be deleted, the fold of a compaction, or *)
(* the base of a fold that is ready to be installed.                         *)

\* The snapshots of which the writer w keeps track.
Held(w) ==
  Range(garbage[w].queue) \cup {comp[w].fold}
    \cup (IF comp[w].st = "ready" THEN {image[w].snap} ELSE {})

Watched == doomed \cup UNION {Held(w) : w \in Writers}

\* Uploaded snapshots that the WAL does not name.
Spent == {k \in DOMAIN snaps : jobs[k.id].st = "done" /\ k # Named(wal)}

Loose == Spent \ Watched

LooseCounted ==
  /\ IsFiniteSet(Loose) /\ IsFiniteSet(Debts)
  /\ Cardinality(Loose) <= Cardinality(Debts)

\* The snapshots that a handle can bring into an image: the one its image
\* names, and the one it is fetching.
Shown(h) ==
  {image[h].snap} \cup (IF pc[h] \in {"openSnap", "snap"} THEN {call[h].got.snap} ELSE {})

\* Everything that was named by an image at some time and still counts.
Published ==
  {Named(wal), NoSnap} \cup {r.data.snap : r \in inflight} \cup UNION {Shown(h) : h \in Handles}

Busy == {"running", "ready"}

\* A fold that its writer did not take over yet is known to nobody else, and
\* the ids of later compactions are new.
FoldsPrivate ==
  \A h \in Handles : comp[h].st = "running" =>
    /\ comp[h].fold \notin Published
    /\ \A g \in Handles \ {h} : comp[g].st \in Busy => comp[g].fold # comp[h].fold

IdsIssued ==
  /\ \A k \in Published : k.id <= spawned
  /\ \A h \in Handles : comp[h].st \in Busy => comp[h].fold.id <= spawned
  /\ \A k \in DOMAIN snaps : k.id \in 1 .. spawned /\ k.lsn = jobs[k.id].lsn
  /\ \A i \in JobIds : jobs[i].st # "none" => i <= spawned

\* Replicas do not compact.
OnlyWritersFold == \A h \in Handles : comp[h].st \in Busy => h \in Writers

\* A compactor at work has an owner that waits for its result.
JobsOwned ==
  \A i \in JobIds : jobs[i].st \in {"fetch", "publish"} =>
    \E w \in Writers : comp[w].st = "running" /\ comp[w].fold = JobKey(i)

\* An unanswered PUT that can land and installs a fold has its writer waiting
\* with that fold on the same image.
LateOwned ==
  \A r \in inflight : r.expect # None =>
    /\ wal # None
    /\ r.expect = wal \/ Newer(wal, r.expect)
    /\ r.expect = wal /\ r.data.snap # r.expect.snap =>
         \E w \in Writers : comp[w].st = "ready" /\ comp[w].fold = r.data.snap /\ etag[w] = wal

Sound ==
  /\ LooseCounted /\ FoldsPrivate /\ IdsIssued /\ OnlyWritersFold /\ JobsOwned /\ LateOwned

DebtInv == lossy \/ Sound
-----------------------------------------------------------------------------
(* Counting                                                                  *)

\* What leaves the books is paid for one by one.
LEMMA CountGrows ==
  ASSUME NEW L, NEW D, IsFiniteSet(L), IsFiniteSet(D), Cardinality(L) <= Cardinality(D),
         NEW N, NEW M, IsFiniteSet(N), IsFiniteSet(M), Cardinality(N) <= Cardinality(M),
         M \cap D = {}, NEW L2, L2 \subseteq L \cup N
  PROVE  /\ IsFiniteSet(L2) /\ IsFiniteSet(D \cup M)
         /\ Cardinality(L2) <= Cardinality(D \cup M)
<1>1. /\ IsFiniteSet(L \cup N) /\ IsFiniteSet(D \cup M)
      /\ Cardinality(L \cup N) = Cardinality(L) + Cardinality(N) - Cardinality(L \cap N)
      /\ Cardinality(D \cup M) = Cardinality(D) + Cardinality(M) - Cardinality(D \cap M)
  BY FS_Union
<1>2. D \cap M = {}
  OBVIOUS
<1>3. Cardinality(D \cap M) = 0
  BY <1>2, FS_EmptySet
<1>4. IsFiniteSet(L \cap N)
  BY FS_Intersection
<1>5. Cardinality(L \cap N) \in Nat /\ Cardinality(L) \in Nat /\ Cardinality(N) \in Nat
      /\ Cardinality(D) \in Nat /\ Cardinality(M) \in Nat
  BY <1>4, FS_CardinalityType
<1>6. IsFiniteSet(L2) /\ Cardinality(L2) <= Cardinality(L \cup N) /\ Cardinality(L2) \in Nat
  BY <1>1, FS_Subset, FS_CardinalityType
<1> QED
  BY <1>1, <1>3, <1>5, <1>6

\* A queue operation pays for the keys in N: it counts each of them.
Pays(g, g2, N) ==
  /\ IsFiniteSet(N) /\ g.overflowed + Cardinality(N) <= g2.overflowed
  /\ Range(g.queue) \subseteq Range(g2.queue)

LEMMA PaysNothing ==
  ASSUME NEW g \in Garbage
  PROVE  Pays(g, g, {})
BY FS_EmptySet DEF Pays, Garbage

\* queue_obsolete queues the key or counts it.
LEMMA QueuePays ==
  ASSUME NEW g \in Garbage, NEW key \in SnapRef
  PROVE  \E N : /\ Pays(g, QueueObsolete(g, key), N)
                /\ key = NoSnap \/ key \in Range(QueueObsolete(g, key).queue) \cup N
<1>1. g.queue \in Seq(Key) /\ g.overflowed \in Nat
  BY DEF Garbage
<1>2. CASE key = NoSnap \/ key \in Range(g.queue)
  <2>1. QueueObsolete(g, key) = g
    BY <1>2, Zenon DEF QueueObsolete
  <2> QED BY <1>2, <2>1, PaysNothing
<1>3. CASE ~(key = NoSnap \/ key \in Range(g.queue)) /\ Len(g.queue) = MaxPendingDeletes
  <2>1. QueueObsolete(g, key) = [g EXCEPT !.overflowed = g.overflowed + 1]
    BY <1>3 DEF QueueObsolete
  <2>2. QueueObsolete(g, key).overflowed = g.overflowed + 1 /\ QueueObsolete(g, key).queue = g.queue
    BY <1>1, <2>1 DEF Garbage
  <2>3. IsFiniteSet({key}) /\ Cardinality({key}) = 1
    BY FS_Singleton
  <2>4. Pays(g, QueueObsolete(g, key), {key})
    BY <1>1, <2>2, <2>3 DEF Pays
  <2> QED BY <2>4
<1>4. CASE ~(key = NoSnap \/ key \in Range(g.queue)) /\ Len(g.queue) # MaxPendingDeletes
  <2>1. QueueObsolete(g, key) = [g EXCEPT !.queue = Append(g.queue, key)]
    BY <1>4 DEF QueueObsolete
  <2>2. /\ QueueObsolete(g, key).overflowed = g.overflowed
        /\ QueueObsolete(g, key).queue = Append(g.queue, key)
    BY <1>1, <2>1 DEF Garbage
  <2>3. Range(Append(g.queue, key)) = Range(g.queue) \cup {key}
    <3> DEFINE q == Append(g.queue, key)
    <3>1. /\ DOMAIN q = 1 .. Len(g.queue) + 1 /\ DOMAIN g.queue = 1 .. Len(g.queue)
          /\ \A i \in 1 .. Len(g.queue) : q[i] = g.queue[i]
          /\ q[Len(g.queue) + 1] = key /\ Len(g.queue) \in Nat
      BY <1>1, <1>4, AppendProperties, LenProperties DEF SnapRef
    <3> HIDE DEF q
    <3>2. DOMAIN q = DOMAIN g.queue \cup {Len(g.queue) + 1}
      BY <3>1
    <3>3. Range(q) = Range(g.queue) \cup {key}
      BY <3>1, <3>2 DEF Range
    <3> QED BY <3>3 DEF q
  <2>4. IsFiniteSet({}) /\ Cardinality({}) = 0
    BY FS_EmptySet
  <2>5. Pays(g, QueueObsolete(g, key), {})
    BY <1>1, <2>2, <2>3, <2>4 DEF Pays
  <2>6. key \in Range(QueueObsolete(g, key).queue)
    BY <2>2, <2>3
  <2> QED BY <2>5, <2>6
<1> QED
  BY <1>2, <1>3, <1>4

LEMMA PaysTwice ==
  ASSUME NEW g \in Garbage, NEW g1 \in Garbage, NEW g2 \in Garbage, NEW N1, NEW N2,
         Pays(g, g1, N1), Pays(g1, g2, N2)
  PROVE  Pays(g, g2, N1 \cup N2)
<1>1. IsFiniteSet(N1) /\ IsFiniteSet(N2)
  BY DEF Pays
<1>2. /\ IsFiniteSet(N1 \cup N2) /\ IsFiniteSet(N1 \cap N2)
      /\ Cardinality(N1 \cup N2) = Cardinality(N1) + Cardinality(N2) - Cardinality(N1 \cap N2)
  BY <1>1, FS_Union, FS_Intersection
<1>3. /\ Cardinality(N1) \in Nat /\ Cardinality(N2) \in Nat
      /\ Cardinality(N1 \cap N2) \in Nat /\ Cardinality(N1 \cup N2) \in Nat
  BY <1>1, <1>2, FS_CardinalityType
<1>4. g.overflowed \in Nat /\ g1.overflowed \in Nat /\ g2.overflowed \in Nat
  BY DEF Garbage
<1> QED
  BY <1>2, <1>3, <1>4 DEF Pays

\* The debts of one writer grow by what it counts.
LEMMA DebtsGrow ==
  ASSUME NEW w \in Writers, NEW o \in Nat, NEW o2 \in Nat, o <= o2,
         garbage[w].overflowed = o, garbage'[w].overflowed = o2,
         \A v \in Writers \ {w} : garbage'[v].overflowed = garbage[v].overflowed
  PROVE  \E M : /\ IsFiniteSet(M) /\ Cardinality(M) = o2 - o
                /\ M \cap Debts = {} /\ Debts' = Debts \cup M
<1> DEFINE a == o + 1
           I == a .. o2
           M == {w} \X I
<1>1. IsFiniteSet(I) /\ Cardinality(I) = o2 - o
  <2>1. a \in Int /\ o2 \in Int /\ a = o + 1
    OBVIOUS
  <2> HIDE DEF a
  <2>2. IsFiniteSet(I) /\ Cardinality(I) = IF a > o2 THEN 0 ELSE o2 - a + 1
    BY <2>1, FS_Interval
  <2> HIDE DEF I
  <2> QED BY <2>1, <2>2
<1>2. IsFiniteSet({w}) /\ Cardinality({w}) = 1
  BY FS_Singleton
<1>3. IsFiniteSet(M) /\ Cardinality(M) = o2 - o
  <2> HIDE DEF I
  <2>1. IsFiniteSet(M) /\ Cardinality(M) = Cardinality({w}) * Cardinality(I)
    BY <1>1, <1>2, FS_Product, Zenon
  <2> HIDE DEF M
  <2> QED BY <1>1, <1>2, <2>1
<1>4. M \cap Debts = {}
  <2>1. SUFFICES ASSUME NEW x \in M, x \in Debts PROVE FALSE
    OBVIOUS
  <2>2. x[1] = w /\ x[2] \in (o + 1) .. o2
    OBVIOUS
  <2>3. PICK v \in Writers : x \in {v} \X (1 .. garbage[v].overflowed)
    BY <2>1 DEF Debts
  <2>4. x[1] = v /\ x[2] \in 1 .. garbage[v].overflowed
    BY <2>3
  <2> QED BY <2>2, <2>4
<1>5. Debts' = Debts \cup M
  <2>1. Debts' = UNION {{v} \X (1 .. garbage'[v].overflowed) : v \in Writers}
    BY DEF Debts
  <2>2. ASSUME NEW x \in Debts' PROVE x \in Debts \cup M
    <3>1. PICK v \in Writers : x \in {v} \X (1 .. garbage'[v].overflowed)
      BY <2>1, <2>2
    <3>2. CASE v # w
      BY <3>1, <3>2 DEF Debts
    <3>3. CASE v = w
      <4>1. x \in {w} \X (1 .. o2)
        BY <3>1, <3>3
      <4>2. x \in {w} \X (1 .. o) \/ x \in M
        BY <4>1
      <4> QED BY <4>2 DEF Debts
    <3> QED BY <3>2, <3>3
  <2>3. ASSUME NEW x \in Debts PROVE x \in Debts'
    <3>1. PICK v \in Writers : x \in {v} \X (1 .. garbage[v].overflowed)
      BY <2>3 DEF Debts
    <3>2. CASE v # w
      BY <2>1, <3>1, <3>2
    <3>3. CASE v = w
      <4>1. x \in {w} \X (1 .. o2)
        BY <3>1, <3>3
      <4> QED BY <2>1, <4>1
    <3> QED BY <3>2, <3>3
  <2>4. ASSUME NEW x \in M PROVE x \in Debts'
    <3>1. x \in {w} \X (1 .. o2)
      BY <2>4
    <3> QED BY <2>1, <3>1
  <2> QED BY <2>2, <2>3, <2>4
<1> QED
  BY <1>3, <1>4, <1>5
-----------------------------------------------------------------------------
(* A step of one handle                                                      *)

\* The handle h starts a compactor.
Starts(h) ==
  /\ h \in Writers /\ spawned + 1 \in JobIds /\ spawned' = spawned + 1
  /\ \E job \in Jobs :
       /\ job.st \in {"fetch", "publish"}
       /\ jobs' = [jobs EXCEPT ![spawned + 1] = job]
       /\ comp'[h] = [st |-> "running", fold |-> [lsn |-> job.lsn, id |-> spawned + 1]]

OthersStay(h) ==
  \A g \in Handles \ {h} :
    /\ pc'[g] = pc[g] /\ call'[g] = call[g] /\ image'[g] = image[g] /\ etag'[g] = etag[g]
    /\ comp'[g] = comp[g] /\ garbage'[g] = garbage[g]

\* What becomes of the fold: it may be taken over or given up, but not while
\* the compactor is at work, and not while it can be installed.
FoldTurns(h) ==
  /\ UNCHANGED jobVars \/ Starts(h)
  /\ comp'[h].st = "running" => comp'[h] = comp[h] \/ Starts(h)
  /\ comp'[h].st = "ready" => comp[h].st \in Busy /\ comp'[h].fold = comp[h].fold
  /\ comp[h].st = "ready" /\ etag[h] = wal /\ wal' = wal =>
       comp'[h] = comp[h] /\ etag'[h] = etag[h]
  /\ comp[h].st = "running" /\ jobs[comp[h].fold.id].st \in {"fetch", "publish"} =>
       comp'[h] = comp[h]

\* The PUT that the handle may leave behind.
Sends(h, r) ==
  \/ r.expect = None /\ r.data.snap = NoSnap
  \/ /\ etag[h] # None /\ r.expect = etag[h]
     /\ r.data.snap \in {image[h].snap, ReadyFold(comp[h])}
     /\ r.data.snap # image[h].snap =>
          /\ comp[h].st = "ready" /\ r.data.snap = comp[h].fold
          /\ comp'[h] = comp[h] /\ etag'[h] = etag[h]

\* Where the names come from that the step puts into images.
NameTurns(h) ==
  /\ Shown(h)' \subseteq Shown(h) \cup {Named(wal), NoSnap, ReadyFold(comp[h])}
  /\ Named(wal') \in {Named(wal), ReadyFold(comp[h])}
  /\ wal # None => wal' # None
  /\ \A r \in inflight' : r \in inflight \/ Sends(h, r)

\* What the handle stops watching is dead and gone, or it is counted.
Accounts(h) ==
  /\ DOMAIN snaps' \subseteq DOMAIN snaps /\ doomed \subseteq doomed'
  /\ h \notin Writers => wal' = wal
  /\ h \in Writers =>
       \E N : /\ IsFiniteSet(N)
              /\ garbage[h].overflowed + Cardinality(N) <= garbage'[h].overflowed
              /\ \A k \in Spent' : k \in Held(h) \cup {Named(wal)} => k \in Held(h)' \cup N

Turns(h) == OthersStay(h) /\ FoldTurns(h) /\ NameTurns(h) /\ Accounts(h)

LEMMA PublishedTurns ==
  ASSUME NEW h \in Handles, OthersStay(h), NameTurns(h)
  PROVE  Published' \subseteq Published \cup {ReadyFold(comp[h])}
<1> SUFFICES ASSUME NEW k \in Published' PROVE k \in Published \cup {ReadyFold(comp[h])}
  OBVIOUS
<1>1. CASE k \in {Named(wal'), NoSnap}
  BY <1>1 DEF Published, NameTurns
<1>2. CASE k \in {r.data.snap : r \in inflight'}
  <2>1. PICK r \in inflight' : k = r.data.snap
    BY <1>2
  <2>2. CASE r \in inflight
    BY <2>1, <2>2 DEF Published
  <2>3. CASE Sends(h, r)
    <3>1. k \in {NoSnap, image[h].snap, ReadyFold(comp[h])}
      BY <2>1, <2>3 DEF Sends
    <3>2. image[h].snap \in Shown(h)
      BY DEF Shown
    <3> QED BY <3>1, <3>2 DEF Published
  <2> QED BY <2>1, <2>2, <2>3 DEF NameTurns
<1>3. CASE k \in UNION {Shown(g)' : g \in Handles}
  <2>1. PICK g \in Handles : k \in Shown(g)'
    BY <1>3
  <2>2. CASE g = h
    <3>1. k \in Shown(h) \cup {Named(wal), NoSnap, ReadyFold(comp[h])}
      BY <2>1, <2>2 DEF NameTurns
    <3> QED BY <3>1 DEF Published
  <2>3. CASE g # h
    <3>1. k \in Shown(g)
      BY <2>1, <2>3 DEF OthersStay, Shown
    <3> QED BY <3>1 DEF Published
  <2> QED BY <2>2, <2>3
<1>4. Published' = {Named(wal'), NoSnap} \cup {r.data.snap : r \in inflight'}
                     \cup UNION {Shown(g)' : g \in Handles}
  BY DEF Published, Named
<1> QED
  BY <1>1, <1>2, <1>3, <1>4

\* The ids of the folds in use, and that a running fold has a name.
LEMMA FoldNames ==
  ASSUME TypeInv, SafeInv, IdsIssued, NEW h \in Handles
  PROVE  /\ comp[h].st = "running" => comp[h].fold # NoSnap
         /\ ReadyFold(comp[h]).id <= spawned
         /\ comp[h].st \notin Busy => comp[h].fold = NoSnap
<1>1. comp[h].st = "running" => comp[h].fold.id \in 1 .. spawned
  BY DEF SafeInv, HandlesOK, HandleOK, LinkOK
<1>2. NoSnap.id = 0 /\ spawned \in Nat
  BY DEF NoSnap, TypeInv, JobTypeOK
<1>3. comp[h].st \notin Busy => comp[h].fold = NoSnap
  BY DEF SafeInv, HandlesOK, HandleOK, LocalOK, FoldOK, Busy
<1>4. ReadyFold(comp[h]).id <= spawned
  BY <1>2 DEF ReadyFold, IdsIssued, Busy
<1> QED
  BY <1>1, <1>2, <1>3, <1>4

LEMMA TurnIds ==
  ASSUME TypeInv, SafeInv, IdsIssued, OnlyWritersFold, NEW h \in Handles, Turns(h)
  PROVE  IdsIssued' /\ OnlyWritersFold'
<1> USE DEF Turns
<1>1. spawned \in Nat /\ jobs \in [JobIds -> Jobs]
  BY DEF TypeInv, JobTypeOK
<1>2. spawned' \in Nat /\ spawned <= spawned'
  BY <1>1 DEF FoldTurns, jobVars, Starts
<1>3. /\ \A k \in Published : k.id \in Int
      /\ \A g \in Handles : comp[g].fold.id \in Int
  <2>1. \A k \in SnapRef : k.id \in Int
    BY DEF SnapRef, Key, NoSnap
  <2>2. \A g \in Handles : comp[g].fold \in SnapRef /\ image[g].snap \in SnapRef
    BY DEF TypeInv, HandleInv, HandleTypeOK, Comps, Image
  <2>3. \A g \in Handles : pc[g] \in {"openSnap", "snap"} => call[g].got.snap \in SnapRef
    BY DEF TypeInv, HandleInv, HandleTypeOK, GotKnown, Calls, Image
  <2>4. \A r \in inflight : r.data.snap \in SnapRef
    BY DEF TypeInv, StoreTypeOK, Requests, Image
  <2>5. Named(wal) \in SnapRef /\ NoSnap \in SnapRef
    BY NamedType DEF TypeInv, StoreTypeOK, SnapRef
  <2>6. \A k \in Published : k \in SnapRef
    BY <2>2, <2>3, <2>4, <2>5 DEF Published, Shown
  <2> QED BY <2>1, <2>2, <2>6
<1>4. \A k \in Published' : k.id <= spawned'
  <2>1. ReadyFold(comp[h]).id \in Int /\ ReadyFold(comp[h]).id <= spawned
    BY <1>3, FoldNames DEF ReadyFold, NoSnap
  <2>2. \A k \in Published \cup {ReadyFold(comp[h])} : k.id \in Int /\ k.id <= spawned
    BY <1>3, <2>1 DEF IdsIssued
  <2> QED BY <1>1, <1>2, <2>2, PublishedTurns
<1>5. \A g \in Handles : comp'[g].st \in Busy => comp'[g].fold.id <= spawned' /\ g \in Writers
  <2> SUFFICES ASSUME NEW g \in Handles, comp'[g].st \in Busy
               PROVE  comp'[g].fold.id <= spawned' /\ g \in Writers
    OBVIOUS
  <2>1. CASE g # h
    BY <1>1, <1>2, <1>3, <2>1 DEF OthersStay, IdsIssued, OnlyWritersFold
  <2>2. CASE g = h /\ Starts(h)
    BY <1>1, <2>2 DEF Starts
  <2>3. CASE g = h /\ comp'[g].fold = comp[g].fold /\ comp[g].st \in Busy
    BY <1>1, <1>2, <1>3, <2>3 DEF IdsIssued, OnlyWritersFold
  <2> QED BY <2>1, <2>2, <2>3 DEF FoldTurns, Busy
<1>6. \A k \in DOMAIN snaps' : k.id \in 1 .. spawned' /\ k.lsn = jobs'[k.id].lsn
  <2> SUFFICES ASSUME NEW k \in DOMAIN snaps'
               PROVE  k.id \in 1 .. spawned' /\ k.lsn = jobs'[k.id].lsn
    OBVIOUS
  <2>1. k.id \in 1 .. spawned /\ k.lsn = jobs[k.id].lsn
    BY DEF Accounts, IdsIssued
  <2>2. CASE UNCHANGED jobVars
    BY <2>1, <2>2 DEF jobVars
  <2>3. CASE Starts(h)
    <3>1. jobs'[k.id] = jobs[k.id]
      BY <1>1, <2>1, <2>3 DEF Starts, JobIds
    <3> QED BY <1>1, <1>2, <2>1, <3>1
  <2> QED BY <2>2, <2>3 DEF FoldTurns
<1>7. \A i \in JobIds : jobs'[i].st # "none" => i <= spawned'
  <2>1. CASE UNCHANGED jobVars
    BY <2>1 DEF jobVars, IdsIssued
  <2>2. CASE Starts(h)
    <3> SUFFICES ASSUME NEW i \in JobIds, jobs'[i].st # "none", i # spawned + 1
                 PROVE  i <= spawned'
      BY <1>1, <2>2 DEF Starts
    <3>1. jobs'[i] = jobs[i]
      BY <1>1, <2>2 DEF Starts
    <3> QED BY <1>1, <1>2, <3>1 DEF IdsIssued, JobIds
  <2> QED BY <2>1, <2>2 DEF FoldTurns
<1> QED
  BY <1>4, <1>5, <1>6, <1>7 DEF IdsIssued, OnlyWritersFold

LEMMA TurnFolds ==
  ASSUME TypeInv, SafeInv, IdsIssued, FoldsPrivate, NEW h \in Handles, Turns(h)
  PROVE  FoldsPrivate'
<1> USE DEF Turns
<1>1. spawned \in Nat
  BY DEF TypeInv, JobTypeOK
<1>2. Published' \subseteq Published \cup {ReadyFold(comp[h])}
  BY PublishedTurns
<1>3. \A k \in Published' : k.id <= spawned
  BY <1>2, FoldNames DEF IdsIssued
<1> SUFFICES ASSUME NEW g \in Handles, comp'[g].st = "running"
             PROVE  /\ comp'[g].fold \notin Published'
                    /\ \A x \in Handles \ {g} :
                         comp'[x].st \in Busy => comp'[x].fold # comp'[g].fold
  BY DEF FoldsPrivate
<1>4. CASE g = h /\ Starts(h)
  <2>1. comp'[g].fold.id = spawned + 1
    BY <1>4 DEF Starts
  <2>2. \A x \in Handles \ {g} : comp'[x].st \in Busy => comp'[x].fold.id <= spawned
    BY <1>4 DEF OthersStay, IdsIssued
  <2>3. ~(spawned + 1 <= spawned)
    BY <1>1
  <2> QED BY <1>3, <2>1, <2>2, <2>3, Zenon
<1>5. CASE comp'[g] = comp[g]
  <2>1. comp[g].fold \notin Published /\ comp[g].fold # NoSnap /\ comp[g].fold.id <= spawned
    BY <1>5, FoldNames DEF FoldsPrivate, IdsIssued, Busy
  <2>2. comp[g].fold # ReadyFold(comp[h])
    <3>1. CASE g = h
      BY <1>5, <2>1, <3>1 DEF ReadyFold
    <3>2. CASE g # h
      BY <1>5, <2>1, <3>2 DEF ReadyFold, FoldsPrivate, Busy
    <3> QED BY <3>1, <3>2
  <2>3. ASSUME NEW x \in Handles \ {g}, comp'[x].st \in Busy PROVE comp'[x].fold # comp[g].fold
    <3>1. CASE x # h
      BY <1>5, <2>3, <3>1 DEF OthersStay, FoldsPrivate
    <3>2. CASE x = h /\ Starts(h)
      BY <1>1, <2>1, <3>2 DEF Starts
    <3>3. CASE comp[x].st \in Busy /\ comp'[x].fold = comp[x].fold
      BY <1>5, <3>3 DEF FoldsPrivate
    <3> QED BY <2>3, <3>1, <3>2, <3>3 DEF FoldTurns, Busy
  <2> QED BY <1>2, <1>5, <2>1, <2>2, <2>3
<1> QED
  BY <1>4, <1>5 DEF FoldTurns, OthersStay

\* No upload is completed by the step of a handle.
LEMMA SpentTurns ==
  ASSUME TypeInv, IdsIssued, NEW h, FoldTurns(h), DOMAIN snaps' \subseteq DOMAIN snaps,
         NEW k \in Spent', k # Named(wal)
  PROVE  k \in Spent
<1>1. spawned \in Nat /\ jobs \in [JobIds -> Jobs]
  BY DEF TypeInv, JobTypeOK
<1>2. k \in DOMAIN snaps' /\ jobs'[k.id].st = "done"
  BY DEF Spent
<1>3. k \in DOMAIN snaps /\ k.id \in 1 .. spawned
  BY <1>2 DEF IdsIssued
<1>4. jobs'[k.id] = jobs[k.id]
  <2>1. CASE UNCHANGED jobVars
    BY <2>1 DEF jobVars
  <2>2. CASE Starts(h)
    BY <1>1, <1>3, <2>2 DEF Starts, JobIds
  <2> QED BY <2>1, <2>2 DEF FoldTurns
<1> QED
  BY <1>2, <1>3, <1>4 DEF Spent

\* The order on the images that the WAL object takes.
LEMMA NewerChain ==
  ASSUME NEW a \in Image, NEW b \in Image, NEW c \in Image, Newer(b, a), Newer(c, b)
  PROVE  Newer(c, a) /\ c # a
<1>1. /\ NextLsn(a) \in Nat /\ NextLsn(b) \in Nat /\ NextLsn(c) \in Nat
      /\ FirstLsn(a) \in Nat /\ FirstLsn(b) \in Nat /\ FirstLsn(c) \in Nat
  BY LsnTypes
<1> QED
  BY <1>1 DEF Newer

\* What a handle shows is the stored image or an older one.
LEMMA ShownBehind ==
  ASSUME TypeInv, SafeInv, wal # None, NEW img \in Image, Past(img, history, wal)
  PROVE  img = wal \/ Newer(wal, img)
<1>1. wal \in Image /\ history \in Seq(Entry)
  BY DEF TypeInv, StoreTypeOK, OtherTypeOK
<1>2. /\ NextLsn(img) \in Nat /\ FirstLsn(img) \in Nat /\ NextLsn(wal) \in Nat
      /\ FirstLsn(wal) \in Nat
  BY <1>1, LsnTypes
<1>3. /\ NextLsn(wal) = Len(history) /\ wal.entries = Slice(history, FirstLsn(wal), NextLsn(wal))
      /\ NextLsn(img) <= Len(history)
      /\ img.entries = Slice(history, FirstLsn(img), NextLsn(img))
      /\ img.snap = wal.snap \/ img.snap.lsn < wal.snap.lsn
  BY DEF SafeInv, StoreOK, WalOK, Past, Agrees, Named
<1>4. CASE img.snap = wal.snap /\ NextLsn(img) = NextLsn(wal)
  <2>1. FirstLsn(img) = FirstLsn(wal)
    BY <1>4 DEF FirstLsn
  <2>2. img.entries = wal.entries
    BY <1>3, <1>4, <2>1
  <2> QED BY <1>1, <1>4, <2>2 DEF Image
<1>5. CASE img.snap = wal.snap /\ NextLsn(img) # NextLsn(wal)
  <2>1. FirstLsn(img) = FirstLsn(wal)
    BY <1>5 DEF FirstLsn
  <2> QED BY <1>2, <1>3, <1>5, <2>1 DEF Newer
<1>6. CASE img.snap.lsn < wal.snap.lsn
  <2>1. FirstLsn(img) < FirstLsn(wal)
    <3>1. img.snap.lsn \in Int /\ wal.snap.lsn \in Int
      BY <1>1, SnapRefLsn DEF Image
    <3> QED BY <1>6, <3>1 DEF FirstLsn
  <2> QED BY <1>2, <1>3, <2>1 DEF Newer
<1> QED
  BY <1>3, <1>4, <1>5, <1>6

LEMMA TurnJobs ==
  ASSUME TypeInv, SafeInv, JobsOwned, IdsIssued, NEW h \in Handles, Turns(h)
  PROVE  JobsOwned'
<1> USE DEF Turns
<1>1. spawned \in Nat /\ jobs \in [JobIds -> Jobs]
  BY DEF TypeInv, JobTypeOK
<1> SUFFICES ASSUME NEW i \in JobIds, jobs'[i].st \in {"fetch", "publish"}
             PROVE  \E w \in Writers : comp'[w].st = "running" /\ comp'[w].fold = JobKey(i)'
  BY DEF JobsOwned
<1>2. CASE Starts(h) /\ i = spawned + 1
  <2>1. PICK job \in Jobs :
          /\ jobs' = [jobs EXCEPT ![spawned + 1] = job]
          /\ comp'[h] = [st |-> "running", fold |-> [lsn |-> job.lsn, id |-> spawned + 1]]
    BY <1>2 DEF Starts
  <2>2. jobs'[i] = job
    BY <1>1, <1>2, <2>1
  <2>3. comp'[h].st = "running" /\ comp'[h].fold = JobKey(i)'
    BY <1>2, <2>1, <2>2 DEF JobKey
  <2> QED BY <1>2, <2>3 DEF Starts
<1>3. CASE ~(Starts(h) /\ i = spawned + 1)
  <2>1. jobs'[i] = jobs[i]
    <3>1. CASE UNCHANGED jobVars
      BY <3>1 DEF jobVars
    <3>2. CASE Starts(h)
      BY <1>1, <1>3, <3>2 DEF Starts
    <3> QED BY <3>1, <3>2 DEF FoldTurns
  <2>2. PICK w \in Writers : comp[w].st = "running" /\ comp[w].fold = JobKey(i)
    BY <2>1 DEF JobsOwned
  <2>3. JobKey(i)' = JobKey(i) /\ JobKey(i).id = i
    BY <2>1 DEF JobKey
  <2>4. comp'[w] = comp[w]
    <3>1. CASE w = h
      BY <2>1, <2>2, <2>3, <3>1 DEF FoldTurns
    <3>2. CASE w # h
      BY <3>2 DEF OthersStay, Handles
    <3> QED BY <3>1, <3>2
  <2> QED BY <2>2, <2>3, <2>4
<1> QED
  BY <1>2, <1>3

LEMMA TurnLate ==
  ASSUME TypeInv, TypeInv', ChainInv, SafeInv, Advances, OnlyWritersFold, LateOwned,
         NEW h \in Handles, Turns(h),
         wal' # wal => UNCHANGED inflight
  PROVE  LateOwned'
<1> USE DEF Turns
<1> SUFFICES ASSUME NEW r \in inflight', r.expect # None
             PROVE  /\ wal' # None
                    /\ r.expect = wal' \/ Newer(wal', r.expect)
                    /\ r.expect = wal' /\ r.data.snap # r.expect.snap =>
                         \E w \in Writers : /\ comp'[w].st = "ready" /\ comp'[w].fold = r.data.snap
                                            /\ etag'[w] = wal'
  BY DEF LateOwned
<1>1. r.expect \in Image /\ wal' \in Image \cup {None} /\ wal \in Image \cup {None}
  BY DEF TypeInv, StoreTypeOK, Requests
<1>2. CASE r \in inflight
  <2>1. /\ wal # None
        /\ r.expect = wal \/ Newer(wal, r.expect)
        /\ r.expect = wal /\ r.data.snap # r.expect.snap =>
             \E w \in Writers : comp[w].st = "ready" /\ comp[w].fold = r.data.snap /\ etag[w] = wal
    BY <1>2 DEF LateOwned
  <2>2. wal' # None
    BY <2>1 DEF NameTurns
  <2>3. CASE wal' = wal
    <3>1. ASSUME NEW w \in Writers, comp[w].st = "ready", etag[w] = wal
          PROVE  comp'[w] = comp[w] /\ etag'[w] = etag[w]
      <4>1. CASE w = h
        BY <2>3, <3>1, <4>1 DEF FoldTurns
      <4>2. CASE w # h
        BY <4>2 DEF OthersStay, Handles
      <4> QED BY <4>1, <4>2
    <3>2. r.expect = wal' \/ Newer(wal', r.expect)
      BY <2>1, <2>3
    <3>3. ASSUME r.expect = wal', r.data.snap # r.expect.snap
          PROVE  \E w \in Writers : /\ comp'[w].st = "ready" /\ comp'[w].fold = r.data.snap
                                    /\ etag'[w] = wal'
      <4>1. PICK w \in Writers : comp[w].st = "ready" /\ comp[w].fold = r.data.snap /\ etag[w] = wal
        BY <2>1, <2>3, <3>3
      <4>2. comp'[w] = comp[w] /\ etag'[w] = etag[w]
        BY <3>1, <4>1
      <4> QED BY <2>3, <4>1, <4>2
    <3> QED BY <2>2, <3>2, <3>3
  <2>4. CASE wal' # wal
    <3>1. Newer(wal', wal)
      BY <2>1, <2>4 DEF Advances
    <3>2. CASE r.expect = wal
      BY <2>2, <2>4, <3>1, <3>2
    <3>3. CASE Newer(wal, r.expect)
      BY <1>1, <2>1, <2>2, <3>1, <3>3, NewerChain
    <3> QED BY <2>1, <3>2, <3>3
  <2> QED BY <2>3, <2>4
<1>3. CASE r \notin inflight
  <2>1. Sends(h, r) /\ wal' = wal
    BY <1>3 DEF NameTurns
  <2>2. /\ etag[h] # None /\ r.expect = etag[h]
        /\ r.data.snap # image[h].snap =>
             /\ comp[h].st = "ready" /\ r.data.snap = comp[h].fold
             /\ comp'[h] = comp[h] /\ etag'[h] = etag[h]
    BY <2>1 DEF Sends
  <2>3. image[h] = etag[h] /\ image[h] \in Image
    BY <2>2 DEF ChainInv, HandleChain, ViewHeld, TypeInv, HandleInv, HandleTypeOK
  <2>4. Past(image[h], history, wal) /\ wal # None
    BY <2>2 DEF SafeInv, HandlesOK, HandleOK, LocalOK, ViewOK
  <2>5. r.expect = wal \/ Newer(wal, r.expect)
    BY <2>2, <2>3, <2>4, ShownBehind
  <2>6. comp[h].st = "ready" => h \in Writers
    BY DEF OnlyWritersFold, Busy
  <2> QED BY <2>1, <2>2, <2>3, <2>4, <2>5, <2>6
<1> QED
  BY <1>2, <1>3

LEMMA TurnLoose ==
  ASSUME TypeInv, TypeInv', SafeInv, IdsIssued, LooseCounted, NEW h \in Handles, Turns(h)
  PROVE  LooseCounted'
<1> USE DEF Turns
<1>1. spawned \in Nat /\ jobs \in [JobIds -> Jobs]
  BY DEF TypeInv, JobTypeOK
<1>2. garbage \in [Handles -> Garbage] /\ garbage' \in [Handles -> Garbage]
  BY DEF TypeInv, HandleInv, HandleTypeOK
<1>3. ASSUME NEW k \in Spent', k # Named(wal) PROVE k \in Spent
  BY <1>3, SpentTurns DEF Accounts
<1>4. ASSUME NEW w \in Writers, w # h PROVE Held(w)' = Held(w)
  BY <1>4 DEF OthersStay, Held, Handles
<1>5. \A w \in Writers \ {h} : garbage'[w].overflowed = garbage[w].overflowed
  BY DEF OthersStay, Handles
<1>6. Watched' = doomed' \cup UNION {Held(w)' : w \in Writers}
  BY DEF Watched
<1>7. CASE h \in Writers
  <2>1. PICK N : /\ IsFiniteSet(N)
                 /\ garbage[h].overflowed + Cardinality(N) <= garbage'[h].overflowed
                 /\ \A k \in Spent' : k \in Held(h) \cup {Named(wal)} => k \in Held(h)' \cup N
    BY <1>7 DEF Accounts
  <2>2. ASSUME NEW k \in Loose', k \notin N PROVE k \in Loose
    <3>1. k \in Spent' /\ k \notin Watched'
      BY <2>2 DEF Loose
    <3>2. k \notin Held(h)' /\ k \notin doomed'
      BY <1>6, <1>7, <3>1
    <3>3. k \notin Held(h) /\ k # Named(wal)
      BY <2>1, <2>2, <3>1, <3>2
    <3>4. k \in Spent
      BY <1>3, <3>1, <3>3
    <3>5. \A w \in Writers : k \notin Held(w)
      BY <1>4, <1>6, <3>1, <3>3
    <3>6. k \notin doomed
      BY <3>2 DEF Accounts
    <3> QED BY <3>4, <3>5, <3>6 DEF Loose, Watched
  <2>3. Loose' \subseteq Loose \cup N
    BY <2>2
  <2>4. Cardinality(N) \in Nat
    BY <2>1, FS_CardinalityType
  <2>5. garbage[h].overflowed \in Nat /\ garbage'[h].overflowed \in Nat
    BY <1>2 DEF Garbage
  <2>6. PICK M : /\ IsFiniteSet(M)
                 /\ Cardinality(M) = garbage'[h].overflowed - garbage[h].overflowed
                 /\ M \cap Debts = {} /\ Debts' = Debts \cup M
    <3>1. garbage[h].overflowed <= garbage'[h].overflowed
      BY <2>1, <2>4, <2>5
    <3> QED BY <1>5, <1>7, <2>5, <3>1, DebtsGrow
  <2>7. Cardinality(N) <= Cardinality(M)
    BY <2>1, <2>4, <2>5, <2>6
  <2>8. /\ IsFiniteSet(Loose') /\ IsFiniteSet(Debts \cup M)
        /\ Cardinality(Loose') <= Cardinality(Debts \cup M)
    BY <2>1, <2>3, <2>6, <2>7, CountGrows DEF LooseCounted
  <2> QED BY <2>6, <2>8 DEF LooseCounted
<1>8. CASE h \notin Writers
  <2>1. \A w \in Writers : Held(w)' = Held(w) /\ garbage'[w].overflowed = garbage[w].overflowed
    BY <1>4, <1>5, <1>8
  <2>2. Loose' \subseteq Loose
    <3> SUFFICES ASSUME NEW k \in Loose' PROVE k \in Loose
      OBVIOUS
    <3>1. k \in Spent' /\ k \notin Watched' /\ k # Named(wal)
      BY <1>8 DEF Loose, Spent, Accounts, Named
    <3>2. k \notin Watched
      BY <1>6, <2>1, <3>1 DEF Watched, Accounts
    <3> QED BY <1>3, <3>1, <3>2 DEF Loose
  <2>3. Debts' = Debts
    BY <2>1 DEF Debts
  <2>4. IsFiniteSet(Loose') /\ Cardinality(Loose') <= Cardinality(Loose)
    BY <2>2, FS_Subset DEF LooseCounted
  <2>5. Cardinality(Loose') \in Nat /\ Cardinality(Loose) \in Nat /\ Cardinality(Debts) \in Nat
    BY <2>4, FS_CardinalityType DEF LooseCounted
  <2> QED BY <2>3, <2>4, <2>5 DEF LooseCounted
<1> QED
  BY <1>7, <1>8

\* A step of a handle keeps the books.
LEMMA TurnSound ==
  ASSUME TypeInv, TypeInv', ChainInv, SafeInv, Advances, Sound, NEW h \in Handles, Turns(h),
         wal' # wal => UNCHANGED inflight
  PROVE  Sound'
BY TurnIds, TurnFolds, TurnJobs, TurnLate, TurnLoose DEF Sound
-----------------------------------------------------------------------------
(* The moves of a handle that leave the snapshot of the WAL alone            *)

Calm(h) ==
  /\ wal' = wal \/ (h \in Writers /\ wal = None /\ Named(wal') = NoSnap)
  /\ UNCHANGED snaps /\ doomed \subseteq doomed'
  /\ UNCHANGED jobVars \/ Starts(h)
  /\ \A r \in inflight' : r \in inflight \/ Sends(h, r)

\* What a fold with its base keeps watched.
Holds(k, img) == {k.fold} \cup (IF k.st = "ready" THEN {img.snap} ELSE {})

LEMMA FullTurns ==
  ASSUME TypeInv, IdsIssued, NEW h \in Handles, Calm(h),
         NEW p, NEW c, NEW img, NEW tag, NEW k, NEW g,
         pc' = [pc EXCEPT ![h] = p], call' = [call EXCEPT ![h] = c],
         image' = [image EXCEPT ![h] = img], etag' = [etag EXCEPT ![h] = tag],
         comp' = [comp EXCEPT ![h] = k], garbage' = [garbage EXCEPT ![h] = g],
         k.st = "running" => k = comp[h] \/ Starts(h),
         k.st = "ready" => comp[h].st \in Busy /\ k.fold = comp[h].fold,
         comp[h].st = "ready" /\ etag[h] = wal => k = comp[h] /\ tag = etag[h],
         comp[h].st = "running" /\ jobs[comp[h].fold.id].st \in {"fetch", "publish"} => k = comp[h],
         img.snap \in Shown(h) \cup {Named(wal), NoSnap},
         p \in {"openSnap", "snap"} => c.got.snap \in Shown(h) \cup {Named(wal), NoSnap},
         h \in Writers =>
           \E N : /\ Pays(garbage[h], g, N)
                  /\ \A x \in Spent : x \in Holds(comp[h], image[h]) =>
                                        x \in Range(g.queue) \cup N \cup Holds(k, img)
  PROVE  Turns(h)
<1>1. /\ pc'[h] = p /\ call'[h] = c /\ image'[h] = img /\ etag'[h] = tag
      /\ comp'[h] = k /\ garbage'[h] = g
  BY DEF TypeInv, HandleInv, HandleTypeOK
<1>2. OthersStay(h)
  BY DEF OthersStay, TypeInv, HandleInv, HandleTypeOK
<1>3. FoldTurns(h)
  BY <1>1 DEF FoldTurns, Calm
<1>4. NameTurns(h)
  <2>1. Shown(h)' \subseteq Shown(h) \cup {Named(wal), NoSnap, ReadyFold(comp[h])}
    BY <1>1 DEF Shown
  <2> QED BY <2>1 DEF NameTurns, Calm, Named
<1>5. Spent' \subseteq Spent
  BY <1>3, SpentTurns DEF Calm, Spent, Named
<1>6. ASSUME h \in Writers
      PROVE  \E N : /\ IsFiniteSet(N)
                    /\ garbage[h].overflowed + Cardinality(N) <= garbage'[h].overflowed
                    /\ \A x \in Spent' : x \in Held(h) \cup {Named(wal)} => x \in Held(h)' \cup N
  <2>1. PICK N : /\ Pays(garbage[h], g, N)
                 /\ \A x \in Spent : x \in Holds(comp[h], image[h]) =>
                                       x \in Range(g.queue) \cup N \cup Holds(k, img)
    BY <1>6
  <2>2. Held(h) = Range(garbage[h].queue) \cup Holds(comp[h], image[h])
    BY DEF Held, Holds
  <2>3. Held(h)' = Range(g.queue) \cup Holds(k, img)
    BY <1>1 DEF Held, Holds
  <2>4. \A x \in Spent : x # Named(wal)
    BY DEF Spent
  <2> QED BY <1>1, <1>5, <2>1, <2>2, <2>3, <2>4 DEF Pays
<1>7. Accounts(h)
  BY <1>6 DEF Accounts, Calm
<1> QED
  BY <1>2, <1>3, <1>4, <1>7 DEF Turns

\* A move of the control.
LEMMA ControlTurns ==
  ASSUME TypeInv, IdsIssued, NEW h \in Handles, Calm(h), NEW p, NEW c,
         pc' = [pc EXCEPT ![h] = p], call' = [call EXCEPT ![h] = c],
         UNCHANGED <<coreVars, writerVars>>,
         p \in {"openSnap", "snap"} => c.got.snap \in Shown(h) \cup {Named(wal), NoSnap}
  PROVE  Turns(h)
<1>1. /\ image' = [image EXCEPT ![h] = image[h]] /\ etag' = [etag EXCEPT ![h] = etag[h]]
      /\ comp' = [comp EXCEPT ![h] = comp[h]] /\ garbage' = [garbage EXCEPT ![h] = garbage[h]]
  BY DEF TypeInv, HandleInv, HandleTypeOK, coreVars, writerVars
<1>2. Pays(garbage[h], garbage[h], {})
  BY PaysNothing DEF TypeInv, HandleInv, HandleTypeOK
<1>3. image[h].snap \in Shown(h)
  BY DEF Shown
<1>4. comp[h].st = "ready" => comp[h].st \in Busy /\ comp[h].fold = comp[h].fold
  BY DEF Busy
<1>5. \E N : /\ Pays(garbage[h], garbage[h], N)
             /\ \A x \in Spent : x \in Holds(comp[h], image[h]) =>
                                   x \in Range(garbage[h].queue) \cup N \cup Holds(comp[h], image[h])
  BY <1>2
<1> QED
  BY <1>1, <1>3, <1>4, <1>5, FullTurns

\* A handle that ends without a trace left nothing to track.
LEMMA ForgetTurns ==
  ASSUME TypeInv, SafeInv, IdsIssued, OnlyWritersFold, NEW h \in Handles, Calm(h),
         Forget(h), ~lossy'
  PROVE  Turns(h)
<1>1. /\ pc' = [pc EXCEPT ![h] = "down"] /\ call' = [call EXCEPT ![h] = NoCall]
      /\ image' = [image EXCEPT ![h] = EmptyImage] /\ etag' = [etag EXCEPT ![h] = None]
      /\ comp' = [comp EXCEPT ![h] = NoFold] /\ garbage' = [garbage EXCEPT ![h] = NoGarbage]
  BY DEF Forget
<1>2. comp[h].st \notin Busy /\ (h \in Writers => garbage[h] = NoGarbage)
  BY DEF Forget, Tracks, Busy, OnlyWritersFold
<1>3. comp[h].fold = NoSnap
  BY <1>2, FoldNames
<1>4. /\ NoFold.st = "idle" /\ NoFold.fold = NoSnap /\ EmptyImage.snap = NoSnap
      /\ "down" \notin {"openSnap", "snap"}
  BY DEF NoFold, EmptyImage
<1>5. comp[h].st # "ready" /\ comp[h].st # "running"
  BY <1>2 DEF Busy
<1>6. h \in Writers =>
        \E N : /\ Pays(garbage[h], NoGarbage, N)
               /\ \A x \in Spent : x \in Holds(comp[h], image[h]) =>
                                     x \in Range(NoGarbage.queue) \cup N \cup Holds(NoFold, EmptyImage)
  <2>1. NoGarbage \in Garbage
    BY ConstantTypes
  <2>2. Pays(NoGarbage, NoGarbage, {})
    BY <2>1, PaysNothing
  <2>3. Holds(comp[h], image[h]) = {NoSnap} /\ Holds(NoFold, EmptyImage) = {NoSnap}
    BY <1>3, <1>4, <1>5 DEF Holds
  <2> QED BY <1>2, <2>2, <2>3
<1> HIDE DEF NoFold, EmptyImage, NoGarbage, NoCall
<1>7. EmptyImage.snap \in Shown(h) \cup {Named(wal), NoSnap}
  BY <1>4
<1>8. NoFold.st # "running" /\ NoFold.st # "ready"
  BY <1>4
<1> QED
  BY <1>1, <1>4, <1>5, <1>6, <1>7, <1>8, FullTurns

LEMMA ReturnTurns ==
  ASSUME TypeInv, SafeInv, IdsIssued, OnlyWritersFold, NEW h \in Handles, Calm(h),
         Return(h), ~lossy'
  PROVE  Turns(h)
<1>1. CASE call[h].op \in {"open", "close"}
  BY <1>1, ForgetTurns DEF Return
<1>2. CASE call[h].op \notin {"open", "close"}
  <2>1. /\ pc' = [pc EXCEPT ![h] = "idle"] /\ call' = [call EXCEPT ![h] = NoCall]
        /\ UNCHANGED <<coreVars, writerVars>> /\ "idle" \notin {"openSnap", "snap"}
    BY <1>2 DEF Return
  <2> QED BY <2>1, ControlTurns
<1> QED
  BY <1>1, <1>2

LEMMA MissingTurns ==
  ASSUME TypeInv, SafeInv, IdsIssued, OnlyWritersFold, NEW h \in Handles, Calm(h), ~lossy',
         NEW again \in {"openGet", "get"}, MissingSnapshot(h, again)
  PROVE  Turns(h)
<1> DEFINE c    == call[h]
           next == [c EXCEPT !.races = @ + 1, !.missing = c.got, !.got = None]
<1>1. CASE ReturnNotApplied(h)
  BY <1>1, ReturnTurns DEF ReturnNotApplied
<1>2. CASE /\ pc' = [pc EXCEPT ![h] = again] /\ call' = [call EXCEPT ![h] = next]
           /\ UNCHANGED <<coreVars, writerVars>>
  <2>1. again \notin {"openSnap", "snap"}
    OBVIOUS
  <2> HIDE DEF next
  <2> QED BY <1>2, <2>1, ControlTurns
<1> QED
  BY <1>1, <1>2, Zenon DEF MissingSnapshot

LEMMA OpenedTurns ==
  ASSUME TypeInv, SafeInv, IdsIssued, NEW h \in Handles, Calm(h), pc[h] \in Opening,
         NEW img, NEW tag, NEW st,
         Opened(h, img, tag, st), img.snap \in Shown(h) \cup {Named(wal), NoSnap}
  PROVE  Turns(h)
<1>1. /\ pc' = [pc EXCEPT ![h] = "idle"] /\ call' = [call EXCEPT ![h] = NoCall]
      /\ image' = [image EXCEPT ![h] = img] /\ etag' = [etag EXCEPT ![h] = tag]
      /\ comp' = [comp EXCEPT ![h] = comp[h]] /\ garbage' = [garbage EXCEPT ![h] = garbage[h]]
      /\ "idle" \notin {"openSnap", "snap"}
  BY DEF Opened, writerVars, TypeInv, HandleInv, HandleTypeOK
<1>2. comp[h].st # "ready" /\ comp[h].st # "running"
  BY DEF SafeInv, HandlesOK, HandleOK, LocalOK, FoldOK
<1>3. Pays(garbage[h], garbage[h], {})
  BY PaysNothing DEF TypeInv, HandleInv, HandleTypeOK
<1>4. \E N : /\ Pays(garbage[h], garbage[h], N)
             /\ \A x \in Spent : x \in Holds(comp[h], image[h]) =>
                                   x \in Range(garbage[h].queue) \cup N \cup Holds(comp[h], img)
  BY <1>2, <1>3 DEF Holds
<1> QED
  BY <1>1, <1>2, <1>4, FullTurns

\* A spent snapshot is an uploaded object with a name.
LEMMA SpentKeys ==
  ASSUME TypeInv, NEW k \in Spent
  PROVE  k # NoSnap /\ k # Named(wal) /\ jobs[k.id].st = "done"
<1>1. k \in Key
  BY DEF Spent, TypeInv, StoreTypeOK
<1> QED
  BY <1>1 DEF Spent, Key, NoSnap, Lsn

\* refresh takes over another image: the fold that no longer applies and the
\* snapshot that the old image named are queued or counted.
LEMMA AdoptTurns ==
  ASSUME TypeInv, SafeInv, IdsIssued, NEW h \in Handles, Calm(h), NEW img \in Image, NEW st,
         Adopt(h, img, st), img.snap \in Shown(h) \cup {Named(wal), NoSnap},
         NextLsn(image[h]) <= NextLsn(img),
         comp[h].st = "ready" => etag[h] # wal,
         comp[h].st = "ready" /\ img.snap = comp[h].fold => comp[h].fold \notin Spent
  PROVE  Turns(h)
<1> DEFINE c0 == comp[h]
           c1 == DiscardSuperseded(c0, img)
           g0 == garbage[h]
           g1 == QueueObsolete(g0, DiscardedKey(c0, img))
           g2 == QueueObsolete(g1, SupersededKey(h, img))
<1>1. PICK p, c : /\ pc' = [pc EXCEPT ![h] = p] /\ call' = [call EXCEPT ![h] = c]
                  /\ p \notin {"openSnap", "snap"}
  <2>1. Proceed(h)
    BY DEF Adopt
  <2>2. ASSUME NEW q, q = CASE call[h].op = "refresh"            -> "idle"
                            [] call[h].op \in {"flush", "close"} -> "flush"
                            [] OTHER                             -> "reconcile"
        PROVE  q \notin {"openSnap", "snap"}
    BY <2>2
  <2> QED BY <2>1, <2>2, Zenon DEF Proceed
<1>2. /\ image' = [image EXCEPT ![h] = img] /\ etag' = [etag EXCEPT ![h] = img]
      /\ comp' = [comp EXCEPT ![h] = c1] /\ garbage' = [garbage EXCEPT ![h] = g2]
  BY Zenon DEF Adopt
<1>3. c0 \in Comps /\ g0 \in Garbage /\ image[h] \in Image
  BY DEF TypeInv, HandleInv, HandleTypeOK
<1>4. /\ DiscardedKey(c0, img) \in SnapRef /\ SupersededKey(h, img) \in SnapRef
      /\ c1 \in Comps
  BY <1>3, DiscardType DEF SupersededKey, Image, SnapRef
<1>5. g1 \in Garbage
  BY <1>3, <1>4, QueueType
<1>6. g2 \in Garbage
  BY <1>4, <1>5, QueueType
<1>7. /\ c1 = c0
      \/ /\ c0.st = "ready" /\ ~AppliesTo(c0.fold, img) /\ c1.st \in {"installed", "superseded"}
         /\ c1.fold = NoSnap
         /\ img.snap = c0.fold \/ DiscardedKey(c0, img) = c0.fold
  BY DEF DiscardSuperseded, DiscardedKey
<1>8. c0.st = "ready" => AppliesTo(c0.fold, image[h])
  BY DEF TypeInv, HandleInv, ReadyApplies
<1>9. ASSUME c1 # c0 PROVE img.snap # image[h].snap
  <2>1. NextLsn(image[h]) \in Nat /\ NextLsn(img) \in Nat
    BY <1>3, LsnTypes
  <2>2. c0.fold.lsn \in Int
    BY <1>3, SnapRefLsn DEF Comps
  <2> QED BY <1>7, <1>8, <1>9, <2>1, <2>2 DEF AppliesTo, FirstLsn
<1>10. ASSUME h \in Writers
       PROVE  \E N : /\ Pays(g0, g2, N)
                     /\ \A x \in Spent : x \in Holds(c0, image[h]) =>
                                           x \in Range(g2.queue) \cup N \cup Holds(c1, img)
  <2> HIDE DEF g0, g1, g2, c0, c1
  <2>1. PICK N1 : /\ Pays(g0, g1, N1)
                  /\ DiscardedKey(c0, img) = NoSnap
                       \/ DiscardedKey(c0, img) \in Range(g1.queue) \cup N1
    BY <1>3, <1>4, QueuePays DEF g1
  <2>2. PICK N2 : /\ Pays(g1, g2, N2)
                  /\ SupersededKey(h, img) = NoSnap
                       \/ SupersededKey(h, img) \in Range(g2.queue) \cup N2
    BY <1>4, <1>5, QueuePays DEF g2
  <2>3. Pays(g0, g2, N1 \cup N2)
    BY <1>3, <1>5, <1>6, <2>1, <2>2, PaysTwice
  <2>4. Range(g1.queue) \subseteq Range(g2.queue)
    BY <2>2 DEF Pays
  <2>5. ASSUME NEW x \in Spent, x \in Holds(c0, image[h])
        PROVE  x \in Range(g2.queue) \cup (N1 \cup N2) \cup Holds(c1, img)
    <3>1. x # NoSnap
      BY SpentKeys
    <3>2. CASE x = c0.fold
      <4>1. CASE c1 = c0
        BY <3>2, <4>1 DEF Holds
      <4>2. CASE c1 # c0
        <5>1. img.snap # c0.fold
          BY <1>7, <2>5, <3>2, <4>2 DEF c0
        <5>2. DiscardedKey(c0, img) = x
          BY <1>7, <3>2, <4>2, <5>1
        <5> QED BY <2>1, <2>4, <3>1, <5>2
      <4> QED BY <4>1, <4>2
    <3>3. CASE c0.st = "ready" /\ x = image[h].snap
      <4>1. CASE img.snap = image[h].snap
        BY <1>9, <3>3, <4>1 DEF Holds
      <4>2. CASE img.snap # image[h].snap
        <5>1. SupersededKey(h, img) = x
          BY <1>10, <3>3, <4>2 DEF SupersededKey
        <5> QED BY <2>2, <3>1, <5>1
      <4> QED BY <4>1, <4>2
    <3> QED BY <2>5, <3>2, <3>3 DEF Holds
  <2> QED BY <2>3, <2>5
<1>11. c1.st = "running" => c1 = comp[h]
  BY <1>7 DEF c0
<1>12. c1.st = "ready" => comp[h].st \in Busy /\ c1.fold = comp[h].fold
  BY <1>7 DEF c0, Busy
<1>13. comp[h].st = "running" => c1 = comp[h]
  BY <1>7 DEF c0
<1> HIDE DEF c1, g1, g2
<1> QED
  BY <1>1, <1>2, <1>10, <1>11, <1>12, <1>13, FullTurns

\* The preamble of the public methods: a finished compaction is taken over, and
\* its fold is queued or counted when it no longer applies.
LEMMA SyncFolds ==
  ASSUME TypeInv, SafeInv, IdsIssued, FoldsPrivate, NEW w \in Handles
  PROVE  /\ Synced(w).st = "running" => Synced(w) = comp[w]
         /\ Synced(w).st = "ready" => comp[w].st \in Busy /\ Synced(w).fold = comp[w].fold
         /\ comp[w].st = "ready" => Synced(w) = comp[w]
         /\ comp[w].st = "running" /\ jobs[comp[w].fold.id].st \in {"fetch", "publish"} =>
              Synced(w) = comp[w]
         /\ \E N : /\ Pays(garbage[w], SyncedGarbage(w), N)
                   /\ \A x \in Spent : x \in Holds(comp[w], image[w]) =>
                        x \in Range(SyncedGarbage(w).queue) \cup N \cup Holds(Synced(w), image[w])
         /\ Synced(w).st \notin Busy =>
              \A x \in Spent : x \in Holds(comp[w], image[w]) => x = comp[w].fold
<1> DEFINE c0  == comp[w]
           c1  == Integrated(c0)
           c2  == Synced(w)
           key == DiscardedKey(c1, image[w])
<1>1. c0 \in Comps /\ garbage[w] \in Garbage /\ image[w] \in Image
  BY DEF TypeInv, HandleInv, HandleTypeOK
<1>2. c1 \in Comps
  BY <1>1, IntegratedType
<1>3. key \in SnapRef
  BY <1>1, <1>2, DiscardType
<1>4. \/ c1 = c0
      \/ c0.st = "running" /\ jobs[c0.fold.id].st = "done" /\ c1.st = "ready" /\ c1.fold = c0.fold
      \/ /\ c0.st = "running" /\ jobs[c0.fold.id].st \in {"failed", "unknown"}
         /\ c1.st = "failed" /\ c1.fold = NoSnap
  BY <1>1 DEF Integrated, Comps
<1>5. \/ c2 = c1
      \/ /\ c1.st = "ready" /\ ~AppliesTo(c1.fold, image[w])
         /\ c2.st \in {"installed", "superseded"} /\ c2.fold = NoSnap
         /\ image[w].snap = c1.fold \/ key = c1.fold
  BY DEF Synced, DiscardSuperseded, DiscardedKey
<1>6. c0.st = "ready" => AppliesTo(c0.fold, image[w])
  BY DEF TypeInv, HandleInv, ReadyApplies
<1>7. c0.st = "running" => image[w].snap # c0.fold
  <2>1. image[w].snap \in Published
    BY DEF Published, Shown
  <2> QED BY <2>1 DEF FoldsPrivate
<1>8. c0.st \notin Busy => c0.fold = NoSnap
  BY FoldNames
<1> HIDE DEF c1, c2, key
<1>9. c0.st = "ready" => c2 = c0
  BY <1>4, <1>5, <1>6
<1>10. PICK N : /\ Pays(garbage[w], SyncedGarbage(w), N)
                /\ key = NoSnap \/ key \in Range(SyncedGarbage(w).queue) \cup N
  BY <1>1, <1>3, QueuePays DEF SyncedGarbage, key, c1
<1>11. ASSUME NEW x \in Spent, x \in Holds(c0, image[w])
       PROVE  x \in Range(SyncedGarbage(w).queue) \cup N \cup Holds(c2, image[w])
  <2>1. x # NoSnap /\ jobs[x.id].st = "done"
    BY SpentKeys
  <2>2. CASE c2 = c0
    BY <1>11, <2>2
  <2>3. CASE c2 # c0
    <3>1. c0.st = "running" /\ x = c0.fold
      BY <1>4, <1>5, <1>6, <1>9, <1>11, <2>3 DEF Holds
    <3>2. c1.st = "ready" /\ c1.fold = c0.fold
      BY <1>4, <1>5, <2>1, <2>3, <3>1
    <3>3. CASE c2 = c1
      BY <3>1, <3>2, <3>3 DEF Holds
    <3>4. CASE key = x
      BY <1>10, <2>1, <3>4
    <3> QED BY <1>5, <1>7, <3>1, <3>2, <3>3, <3>4
  <2> QED BY <2>2, <2>3
<1>12. c2.st \notin Busy =>
         \A x \in Spent : x \in Holds(c0, image[w]) => x = c0.fold
  BY <1>9 DEF Holds, Busy
<1>13. c2.st = "running" => c2 = c0
  BY <1>4, <1>5
<1>14. c2.st = "ready" => c0.st \in Busy /\ c2.fold = c0.fold
  BY <1>4, <1>5 DEF Busy
<1>15. c0.st = "running" /\ jobs[c0.fold.id].st \in {"fetch", "publish"} => c2 = c0
  BY <1>4, <1>5
<1> QED
  BY <1>9, <1>10, <1>11, <1>12, <1>13, <1>14, <1>15 DEF c2

LEMMA SyncTurns ==
  ASSUME TypeInv, SafeInv, IdsIssued, FoldsPrivate, NEW h \in Handles, Calm(h), NEW p, NEW c,
         pc' = [pc EXCEPT ![h] = p], call' = [call EXCEPT ![h] = c],
         p \notin {"openSnap", "snap"}, SyncCompaction(h), UNCHANGED coreVars
  PROVE  Turns(h)
<1>1. /\ image' = [image EXCEPT ![h] = image[h]] /\ etag' = [etag EXCEPT ![h] = etag[h]]
      /\ comp' = [comp EXCEPT ![h] = Synced(h)]
      /\ garbage' = [garbage EXCEPT ![h] = SyncedGarbage(h)]
  BY DEF TypeInv, HandleInv, HandleTypeOK, coreVars, SyncCompaction
<1>2. image[h].snap \in Shown(h)
  BY DEF Shown
<1> QED
  BY <1>1, <1>2, SyncFolds, FullTurns
-----------------------------------------------------------------------------
(* The actions of the handles                                                *)

LEMMA ProceedTurns ==
  ASSUME TypeInv, IdsIssued, NEW h \in Handles, Calm(h), Proceed(h),
         UNCHANGED <<coreVars, writerVars>>
  PROVE  Turns(h)
<1>1. PICK p, c : /\ pc' = [pc EXCEPT ![h] = p] /\ call' = [call EXCEPT ![h] = c]
                  /\ p \notin {"openSnap", "snap"}
  <2>1. ASSUME NEW q, q = CASE call[h].op = "refresh"            -> "idle"
                            [] call[h].op \in {"flush", "close"} -> "flush"
                            [] OTHER                             -> "reconcile"
        PROVE  q \notin {"openSnap", "snap"}
    BY <2>1
  <2> QED BY <2>1, Zenon DEF Proceed
<1> QED
  BY <1>1, ControlTurns

\* The handle goes on to fetch the snapshot that the WAL object names now.
LEMMA FetchTurns ==
  ASSUME TypeInv, IdsIssued, NEW h \in Handles, Calm(h), wal # None, NEW p,
         pc' = [pc EXCEPT ![h] = p], call' = [call EXCEPT ![h] = [call[h] EXCEPT !.got = wal]],
         UNCHANGED <<coreVars, writerVars>>
  PROVE  Turns(h)
<1> DEFINE c == [call[h] EXCEPT !.got = wal]
<1>1. c.got = wal
  BY DEF TypeInv, HandleInv, HandleTypeOK, Calls
<1>2. c.got.snap = Named(wal)
  BY <1>1 DEF Named
<1> HIDE DEF c
<1> QED
  BY <1>2, ControlTurns DEF c

LEMMA OpenTurns ==
  ASSUME TypeInv, SafeInv, IdsIssued, OnlyWritersFold, ~lossy', NEW h \in Handles,
         OpenGet(h) \/ OpenSnap(h)
  PROVE  Turns(h)
<1>1. pc[h] \in Opening /\ Calm(h)
  BY DEF OpenGet, OpenSnap, Opening, Calm, storeVars
<1>2. CASE ReturnNotApplied(h)
  BY <1>1, <1>2, ReturnTurns DEF ReturnNotApplied
<1>3. CASE OpenSnap(h)
  <2>1. CASE \E st : Opened(h, call[h].got, call[h].got, st)
    <3>1. call[h].got.snap \in Shown(h)
      BY <1>3 DEF OpenSnap, Shown
    <3> QED BY <1>1, <2>1, <3>1, OpenedTurns
  <2>2. CASE MissingSnapshot(h, "openGet")
    BY <1>1, <2>2, MissingTurns
  <2> QED BY <1>2, <1>3, <2>1, <2>2, Zenon DEF OpenSnap
<1>4. CASE OpenGet(h)
  <2>1. CASE Opened(h, EmptyImage, None, << >>)
    <3>1. EmptyImage.snap = NoSnap
      BY DEF EmptyImage
    <3> HIDE DEF EmptyImage
    <3> QED BY <1>1, <2>1, <3>1, OpenedTurns
  <2>2. CASE pc' = [pc EXCEPT ![h] = "openPut"] /\ UNCHANGED <<call, coreVars, writerVars>>
    <3>1. call' = [call EXCEPT ![h] = call[h]] /\ "openPut" \notin {"openSnap", "snap"}
      BY <2>2, SameFunctions
    <3> QED BY <1>1, <2>2, <3>1, ControlTurns
  <2>3. CASE wal # None /\ Opened(h, wal, wal, wal.entries)
    <3>1. wal.snap = Named(wal)
      BY <2>3 DEF Named
    <3> QED BY <1>1, <2>3, <3>1, OpenedTurns
  <2>4. CASE /\ wal # None /\ pc' = [pc EXCEPT ![h] = "openSnap"]
             /\ call' = [call EXCEPT ![h] = [call[h] EXCEPT !.got = wal]]
             /\ UNCHANGED <<coreVars, writerVars>>
    BY <1>1, <2>4, FetchTurns
  <2> QED BY <1>2, <1>4, <2>1, <2>2, <2>3, <2>4, Zenon DEF OpenGet
<1> QED
  BY <1>3, <1>4

LEMMA RefreshTurns ==
  ASSUME TypeInv, ChainInv, SafeInv, IdsIssued, OnlyWritersFold, ~lossy', NEW h \in Handles,
         RefreshGet(h) \/ RefreshSnap(h)
  PROVE  Turns(h)
<1>1. Calm(h)
  BY DEF RefreshGet, RefreshSnap, Calm, storeVars
<1>2. CASE ReturnNotApplied(h)
  BY <1>1, <1>2, ReturnTurns DEF ReturnNotApplied
<1>3. /\ image[h] \in Image /\ call[h] \in Calls /\ wal \in Image \cup {None}
      /\ history \in Seq(Entry) /\ comp[h] \in Comps
  BY DEF TypeInv, HandleInv, HandleTypeOK, StoreTypeOK, OtherTypeOK
<1>4. NextLsn(image[h]) \in Nat /\ NextLsn(image[h]) <= Len(history)
  BY <1>3, LsnTypes DEF SafeInv, HandlesOK, HandleOK, LocalOK, ViewOK, Past, Agrees
<1>5. CASE RefreshGet(h)
  <2>1. CASE Proceed(h) /\ UNCHANGED <<coreVars, writerVars>>
    BY <1>1, <2>1, ProceedTurns
  <2>2. CASE wal # None /\ wal # etag[h] /\ \E st : Adopt(h, wal, st)
    <3>1. NextLsn(wal) = Len(history)
      BY <2>2 DEF SafeInv, StoreOK, WalOK
    <3>2. wal.snap = Named(wal) /\ wal \in Image
      BY <1>3, <2>2 DEF Named
    <3>3. wal.snap \notin Spent
      BY <3>2 DEF Spent
    <3>4. PICK st : Adopt(h, wal, st)
      BY <2>2
    <3> QED BY <1>1, <1>4, <2>2, <3>1, <3>2, <3>3, <3>4, AdoptTurns
  <2>3. CASE /\ wal # None /\ pc' = [pc EXCEPT ![h] = "snap"]
             /\ call' = [call EXCEPT ![h] = [call[h] EXCEPT !.got = wal]]
             /\ UNCHANGED <<coreVars, writerVars>>
    BY <1>1, <2>3, FetchTurns
  <2> QED BY <1>2, <1>5, <2>1, <2>2, <2>3, Zenon DEF RefreshGet
<1>6. CASE RefreshSnap(h)
  <2> DEFINE got == call[h].got
  <2>1. CASE \E st : Adopt(h, got, st)
    <3>1. /\ pc[h] = "snap" /\ got # None /\ Past(got, history, wal) /\ wal # None
          /\ FirstLsn(got) > NextLsn(image[h])
      BY <1>6 DEF RefreshSnap, SafeInv, HandlesOK, HandleOK, LocalOK, FetchOK
    <3>2. got \in Image /\ wal \in Image
      BY <1>3, <3>1 DEF Calls
    <3>3. got.snap \in Shown(h)
      BY <3>1 DEF Shown
    <3> HIDE DEF got
    <3>4. /\ FirstLsn(got) \in Nat /\ NextLsn(got) \in Nat /\ FirstLsn(got) <= NextLsn(got)
          /\ FirstLsn(wal) \in Nat /\ NextLsn(wal) \in Nat /\ FirstLsn(wal) <= NextLsn(wal)
          /\ got.snap.lsn \in Int /\ wal.snap.lsn \in Int
      BY <3>2, LsnTypes
    <3>5. NextLsn(image[h]) <= NextLsn(got)
      BY <1>4, <3>1, <3>4
    <3>6. etag[h] # wal
      <4>1. FirstLsn(got) <= FirstLsn(wal)
        BY <3>1, <3>4 DEF Past, Named, FirstLsn
      <4>2. etag[h] = wal => image[h] = wal
        BY <3>1 DEF ChainInv, HandleChain, ViewHeld
      <4> QED BY <1>4, <3>1, <3>4, <4>1, <4>2
    <3>7. comp[h].st = "ready" => got.snap # comp[h].fold
      <4>1. comp[h].st = "ready" => comp[h].fold.lsn < NextLsn(image[h])
        BY DEF SafeInv, HandlesOK, HandleOK, LocalOK, FoldOK
      <4> QED BY <1>4, <3>1, <3>4, <4>1 DEF FirstLsn
    <3>8. PICK st : Adopt(h, got, st)
      BY <2>1
    <3> QED BY <1>1, <3>2, <3>3, <3>5, <3>6, <3>7, <3>8, AdoptTurns
  <2>2. CASE MissingSnapshot(h, "get")
    BY <1>1, <2>2, MissingTurns
  <2> QED BY <1>2, <1>6, <2>1, <2>2, Zenon DEF RefreshSnap
<1> QED
  BY <1>5, <1>6

\* Methods that begin, and the ones that look after the compaction.
LEMMA MaintenanceTurns ==
  ASSUME TypeInv, SafeInv, IdsIssued, FoldsPrivate, NEW h \in Handles,
         \/ Refresh(h) \/ StartMaintenance(h) \/ WaitForCompaction(h)
         \/ CompactionStatus(h) \/ TakeCompactionError(h)
  PROVE  Turns(h)
<1>1. Calm(h) /\ UNCHANGED coreVars
  BY DEF Refresh, StartMaintenance, WaitForCompaction, CompactionStatus, TakeCompactionError,
         storeVars, Calm
<1>2. \E p : p \notin {"openSnap", "snap"} /\ pc' = [pc EXCEPT ![h] = p]
  <2>1. CASE CompactionStatus(h) \/ TakeCompactionError(h)
    <3>1. pc' = [pc EXCEPT ![h] = "idle"]
      BY <2>1, SameFunctions DEF CompactionStatus, TakeCompactionError
    <3> QED BY <3>1
  <2>2. CASE Refresh(h)
    BY <2>2 DEF Refresh
  <2>3. CASE StartMaintenance(h)
    <3>1. PICK op : pc' = [pc EXCEPT ![h] = IF op = "gc" THEN "gc" ELSE "wait"]
      BY <2>3 DEF StartMaintenance
    <3>2. PICK p \in {"gc", "wait"} : pc' = [pc EXCEPT ![h] = p]
      BY <3>1
    <3> QED BY <3>2
  <2>4. CASE WaitForCompaction(h)
    <3>1. pc' = [pc EXCEPT ![h] = IF call[h].op = "wait" THEN "idle" ELSE "flush"]
      BY <2>4 DEF WaitForCompaction
    <3>2. PICK p \in {"idle", "flush"} : pc' = [pc EXCEPT ![h] = p]
      BY <3>1
    <3> QED BY <3>2
  <2> QED BY <2>1, <2>2, <2>3, <2>4
<1>3. \E c : call' = [call EXCEPT ![h] = c]
  <2>1. CASE CompactionStatus(h) \/ TakeCompactionError(h)
    BY <2>1, SameFunctions DEF CompactionStatus, TakeCompactionError
  <2>2. CASE Refresh(h)
    <3>1. call' = [call EXCEPT ![h] = [call[h] EXCEPT !.op = "refresh"]]
      BY <2>2 DEF Refresh
    <3> QED BY <3>1
  <2>3. CASE StartMaintenance(h)
    <3>1. PICK op : call' = [call EXCEPT ![h] = [call[h] EXCEPT !.op = op]]
      BY <2>3 DEF StartMaintenance
    <3> QED BY <3>1
  <2>4. CASE WaitForCompaction(h)
    BY <2>4 DEF WaitForCompaction
  <2> QED BY <2>1, <2>2, <2>3, <2>4
<1>4. PICK p, c : /\ p \notin {"openSnap", "snap"} /\ pc' = [pc EXCEPT ![h] = p]
                  /\ call' = [call EXCEPT ![h] = c]
  BY <1>2, <1>3
<1>5. CASE Refresh(h) \/ WaitForCompaction(h) \/ CompactionStatus(h)
  <2>1. SyncCompaction(h)
    BY <1>5 DEF Refresh, WaitForCompaction, CompactionStatus
  <2> QED BY <1>1, <1>4, <2>1, SyncTurns
<1>6. CASE StartMaintenance(h)
  <2>1. UNCHANGED writerVars
    BY <1>6 DEF StartMaintenance
  <2> QED BY <1>1, <1>4, <2>1, ControlTurns
<1>7. CASE TakeCompactionError(h)
  <2>1. /\ Synced(h).st = "failed" /\ comp' = [comp EXCEPT ![h] = NoFold] /\ garbage' = garbage
    BY <1>7 DEF TakeCompactionError
  <2>2. /\ image' = [image EXCEPT ![h] = image[h]] /\ etag' = [etag EXCEPT ![h] = etag[h]]
        /\ garbage' = [garbage EXCEPT ![h] = garbage[h]]
    BY <1>1, <2>1 DEF TypeInv, HandleInv, HandleTypeOK, coreVars
  <2>3. NoFold.st = "idle" /\ NoFold.fold = NoSnap
    BY DEF NoFold
  <2>4. Synced(h).st \notin Busy
    BY <2>1 DEF Busy
  <2>5. comp[h].st # "ready" /\ ~(comp[h].st = "running"
                                  /\ jobs[comp[h].fold.id].st \in {"fetch", "publish"})
    BY <2>1, SyncFolds
  <2>6. comp[h].fold \notin Spent
    <3> SUFFICES ASSUME comp[h].fold \in Spent PROVE FALSE
      OBVIOUS
    <3>1. comp[h].fold # NoSnap /\ jobs[comp[h].fold.id].st = "done"
      BY SpentKeys
    <3>2. comp[h].st = "running"
      BY <2>5, <3>1, FoldNames DEF Busy
    <3>3. Integrated(comp[h]).st = "ready"
      BY <3>1, <3>2 DEF Integrated, TypeInv, HandleInv, HandleTypeOK, Comps
    <3>4. Synced(h).st \in {"ready", "installed", "superseded"}
      BY <3>3 DEF Synced, DiscardSuperseded
    <3> QED BY <2>1, <3>4
  <2>7. Pays(garbage[h], garbage[h], {})
    BY PaysNothing DEF TypeInv, HandleInv, HandleTypeOK
  <2>8. \E N : /\ Pays(garbage[h], garbage[h], N)
               /\ \A x \in Spent : x \in Holds(comp[h], image[h]) =>
                                     x \in Range(garbage[h].queue) \cup N \cup Holds(NoFold, image[h])
    BY <2>4, <2>6, <2>7, SyncFolds
  <2>9. image[h].snap \in Shown(h)
    BY DEF Shown
  <2> HIDE DEF NoFold
  <2>10. NoFold.st # "running" /\ NoFold.st # "ready"
    BY <2>3
  <2> QED BY <1>1, <1>4, <2>1, <2>2, <2>5, <2>8, <2>9, <2>10, FullTurns
<1> QED
  BY <1>5, <1>6, <1>7

LEMMA TryInstallTurns ==
  ASSUME TypeInv, IdsIssued, NEW w \in Handles, NEW op, NEW k, NEW batch, NEW n, NEW lost,
         TryInstall(w, op, k, batch, n, lost)
  PROVE  \E p, c : /\ pc' = [pc EXCEPT ![w] = p] /\ call' = [call EXCEPT ![w] = c]
                   /\ p \notin {"openSnap", "snap"}
<1> DEFINE stop == batch = << >> \/ Len(Candidate(w, k, batch).entries) > MaxLive
           next == [NoCall EXCEPT !.op = op, !.attempt = n, !.batch = batch]
<1>1. CASE stop
  <2>1. pc' = [pc EXCEPT ![w] = "idle"] /\ call' = [call EXCEPT ![w] = NoCall]
    BY <1>1 DEF TryInstall
  <2>2. "idle" \notin {"openSnap", "snap"}
    OBVIOUS
  <2> QED BY <2>1, <2>2, Zenon
<1>2. CASE ~stop
  <2>1. pc' = [pc EXCEPT ![w] = "cas"] /\ call' = [call EXCEPT ![w] = next]
    BY <1>2 DEF TryInstall
  <2>2. "cas" \notin {"openSnap", "snap"}
    OBVIOUS
  <2> HIDE DEF next
  <2> QED BY <2>1, <2>2, Zenon
<1> QED
  BY <1>1, <1>2

\* The rounds of append, and flush.
LEMMA RoundTurns ==
  ASSUME TypeInv, SafeInv, IdsIssued, FoldsPrivate, OnlyWritersFold, ~lossy', NEW w \in Handles,
         Write(w) \/ Reconcile(w) \/ FlushStep(w) \/ GcDone(w) \/ PutRejected(w) \/ PutFailed(w)
  PROVE  Turns(w)
<1>1. Calm(w)
  BY DEF Write, Reconcile, FlushStep, GcDone, PutRejected, PutFailed, storeVars, Calm
<1>2. CASE Return(w)
  BY <1>1, <1>2, ReturnTurns
<1>3. CASE Write(w)
  <2>1. PICK n, op : TryInstall(w, op, Synced(w), Batch(n), 1, {})
    BY <1>3 DEF Write
  <2>2. SyncCompaction(w) /\ UNCHANGED coreVars
    BY <1>3 DEF Write
  <2> QED BY <1>1, <2>1, <2>2, TryInstallTurns, SyncTurns
<1>4. CASE Reconcile(w)
  <2>1. ASSUME NEW op, NEW b, NEW n, NEW lost, TryInstall(w, op, comp[w], b, n, lost),
               UNCHANGED <<coreVars, writerVars>>
        PROVE  Turns(w)
    BY <1>1, <2>1, TryInstallTurns, ControlTurns
  <2> QED BY <1>2, <1>4, <2>1 DEF Reconcile, ReturnNotApplied
<1>5. CASE FlushStep(w)
  <2> DEFINE c == [call[w] EXCEPT !.attempt = @ + 1]
  <2>1. CASE /\ pc' = [pc EXCEPT ![w] = "cas"] /\ call' = [call EXCEPT ![w] = c]
             /\ UNCHANGED <<coreVars, writerVars>>
    <3>1. "cas" \notin {"openSnap", "snap"}
      OBVIOUS
    <3> HIDE DEF c
    <3> QED BY <1>1, <2>1, <3>1, ControlTurns
  <2>2. CASE pc' = [pc EXCEPT ![w] = "gc"] /\ UNCHANGED <<call, coreVars, writerVars>>
    <3>1. call' = [call EXCEPT ![w] = call[w]] /\ "gc" \notin {"openSnap", "snap"}
      BY <2>2, SameFunctions
    <3> QED BY <1>1, <2>2, <3>1, ControlTurns
  <2> QED BY <1>2, <1>5, <2>1, <2>2, Zenon DEF FlushStep
<1>6. CASE GcDone(w) \/ PutFailed(w)
  BY <1>2, <1>6 DEF GcDone, PutFailed, ReturnNotApplied
<1>7. CASE PutRejected(w)
  <2>1. /\ pc' = [pc EXCEPT ![w] = "get"] /\ call' = [call EXCEPT ![w] = call[w]]
        /\ UNCHANGED <<coreVars, writerVars>> /\ "get" \notin {"openSnap", "snap"}
    BY <1>7, SameFunctions DEF PutRejected
  <2> QED BY <1>1, <2>1, ControlTurns
<1> QED
  BY <1>3, <1>4, <1>5, <1>6, <1>7

\* The create-only PUT names no snapshot.
LEMMA OpenPutTurns ==
  ASSUME TypeInv, SafeInv, IdsIssued, OnlyWritersFold, ~lossy', NEW w \in Writers, OpenPut(w)
  PROVE  Turns(w) /\ (wal' # wal => UNCHANGED inflight)
<1> DEFINE put == [expect |-> None, data |-> EmptyImage]
<1>1. w \in Handles /\ pc[w] \in Opening
  BY DEF Handles, OpenPut, Opening
<1>2. /\ put.expect = None /\ put.data.snap = NoSnap /\ EmptyImage.snap = NoSnap
      /\ Named(EmptyImage) = NoSnap
  BY DEF EmptyImage, Named
<1>3. \A r \in inflight' : r \in inflight \/ r = put
  BY DEF OpenPut
<1>4. wal' = wal \/ (wal = None /\ wal' = EmptyImage)
  BY DEF OpenPut, PutIfMatch
<1>5. snaps' = snaps /\ doomed' = doomed /\ UNCHANGED jobVars
  BY DEF OpenPut
<1> HIDE DEF put, EmptyImage
<1>6. \A r \in inflight' : r \in inflight \/ Sends(w, r)
  BY <1>2, <1>3 DEF Sends
<1>7. Calm(w)
  BY <1>2, <1>4, <1>5, <1>6 DEF Calm
<1>8. ASSUME Opened(w, EmptyImage, EmptyImage, << >>) PROVE Turns(w)
  BY <1>1, <1>2, <1>7, <1>8, OpenedTurns
<1>9. ASSUME ReturnNotApplied(w) PROVE Turns(w)
  BY <1>1, <1>7, <1>9, ReturnTurns DEF ReturnNotApplied
<1> DEFINE c == [call[w] EXCEPT !.races = @ + 1]
<1>10. ASSUME pc' = [pc EXCEPT ![w] = "openGet"], call' = [call EXCEPT ![w] = c],
              UNCHANGED <<coreVars, writerVars>>
       PROVE  Turns(w)
  <2>1. "openGet" \notin {"openSnap", "snap"}
    OBVIOUS
  <2> HIDE DEF c
  <2> QED BY <1>1, <1>7, <1>10, <2>1, ControlTurns
<1>11. Turns(w)
  BY <1>8, <1>9, <1>10, Zenon DEF OpenPut
<1>12. wal' # wal => UNCHANGED inflight
  BY DEF OpenPut
<1> QED
  BY <1>11, <1>12

\* The request of a PUT at "cas".
LEMMA RequestSends ==
  ASSUME TypeInv, ChainInv, SafeInv, NEW h \in Handles, pc[h] = "cas",
         comp[h].st = "ready" => comp'[h] = comp[h] /\ etag'[h] = etag[h]
  PROVE  Sends(h, Request(h))
<1>1. etag[h] # None
  BY RequestSafe
<1>2. /\ Request(h).expect = etag[h]
      /\ Request(h).data.snap =
           IF ReadyFold(comp[h]) = NoSnap THEN image[h].snap ELSE ReadyFold(comp[h])
  BY DEF Request, Candidate, EncodeView
<1>3. ReadyFold(comp[h]) # NoSnap => comp[h].st = "ready" /\ ReadyFold(comp[h]) = comp[h].fold
  BY DEF ReadyFold
<1> QED
  BY <1>1, <1>2, <1>3 DEF Sends

\* A PUT without an answer, and the end of a handle.
LEMMA SendTurns ==
  ASSUME TypeInv, ChainInv, SafeInv, IdsIssued, OnlyWritersFold, ~lossy', NEW h \in Handles,
         PutUnknown(h) \/ Drop(h)
  PROVE  Turns(h) /\ UNCHANGED wal
<1> DEFINE put == [expect |-> None, data |-> EmptyImage]
           own == Request(h)
           key == Head(garbage[h].queue)
<1>1. UNCHANGED <<wal, snaps, jobVars>>
  BY DEF PutUnknown, Drop
<1>2. Forget(h) => comp[h].st # "ready"
  BY DEF Forget, Tracks, OnlyWritersFold, Busy
<1>3. CASE PutUnknown(h)
  <2>1. pc[h] = "cas" /\ inflight' = inflight \cup {own} /\ doomed' = doomed /\ Return(h)
    BY <1>3 DEF PutUnknown
  <2>2. comp[h].st = "ready" => comp'[h] = comp[h] /\ etag'[h] = etag[h]
    BY <1>2, <2>1 DEF Return, coreVars, writerVars
  <2>3. Sends(h, own)
    BY <2>1, <2>2, RequestSends
  <2> HIDE DEF own
  <2>4. Calm(h)
    BY <1>1, <2>1, <2>3 DEF Calm
  <2> QED BY <1>1, <2>1, <2>4, ReturnTurns
<1>4. CASE Drop(h)
  <2>1. Forget(h)
    BY <1>4 DEF Drop
  <2>2. Sends(h, put) /\ (pc[h] = "cas" => Sends(h, own))
    BY <1>2, <2>1, RequestSends DEF Sends, EmptyImage
  <2>3. inflight' \in {inflight} \cup (IF pc[h] = "cas" THEN {inflight \cup {own}} ELSE {})
                                \cup (IF pc[h] = "openPut" THEN {inflight \cup {put}} ELSE {})
    BY <1>4, Zenon DEF Drop
  <2>4. doomed' \in {doomed} \cup (IF pc[h] = "gc" /\ garbage[h].queue # << >>
                                   THEN {doomed \cup {key}} ELSE {})
    BY <1>4, Zenon DEF Drop
  <2> HIDE DEF put, own, key
  <2>5. \A r \in inflight' : r \in inflight \/ Sends(h, r)
    BY <2>2, <2>3
  <2>6. doomed \subseteq doomed'
    BY <2>4
  <2>7. Calm(h)
    BY <1>1, <2>5, <2>6 DEF Calm
  <2> QED BY <1>1, <2>1, <2>7, ForgetTurns
<1> QED
  BY <1>3, <1>4

\* The compaction that begins: a job of its own, or nothing at all.
LEMMA SpawnTurns ==
  ASSUME TypeInv, NEW w \in Writers, NEW img \in Image, img.entries # << >>,
         SpawnCompaction(w, img)
  PROVE  \E k : /\ comp' = [comp EXCEPT ![w] = k]
                /\ \/ UNCHANGED jobVars /\ k.st = "failed"
                   \/ Starts(w) /\ k.st = "running"
<1> DEFINE lsn == NextLsn(img) - 1
<1>1. lsn \in Nat /\ img.snap \in SnapRef /\ img.entries \in Seq(Entry)
  <2>1. Len(img.entries) # 0
    BY LsnTypes, EmptySeq
  <2> QED BY <2>1, LsnTypes
<1>2. w \in Handles /\ comp \in [Handles -> Comps] /\ spawned \in 0 .. MaxJobs /\ MaxJobs \in Nat
  BY BoundsAssumption DEF Handles, TypeInv, HandleInv, HandleTypeOK, JobTypeOK
<1> HIDE DEF lsn
<1>3. CASE /\ UNCHANGED jobVars
           /\ comp' = [comp EXCEPT ![w] = [st |-> "failed", fold |-> NoSnap]]
  <2> DEFINE k == [st |-> "failed", fold |-> NoSnap]
  <2>1. k.st = "failed"
    OBVIOUS
  <2>2. UNCHANGED jobVars /\ comp' = [comp EXCEPT ![w] = k]
    BY <1>3
  <2> HIDE DEF k
  <2> QED BY <2>1, <2>2
<1>4. CASE ~(/\ UNCHANGED jobVars
             /\ comp' = [comp EXCEPT ![w] = [st |-> "failed", fold |-> NoSnap]])
  <2> DEFINE job == [NoJob EXCEPT !.st   = IF img.snap = NoSnap THEN "publish" ELSE "fetch",
                                  !.lsn  = lsn, !.base = img.snap, !.body = img.entries]
             k == [st |-> "running", fold |-> [lsn |-> lsn, id |-> spawned + 1]]
  <2>1. /\ spawned < MaxJobs /\ spawned' = spawned + 1
        /\ jobs' = [jobs EXCEPT ![spawned + 1] = job]
        /\ comp' = [comp EXCEPT ![w] = k]
    BY <1>4, Zenon DEF SpawnCompaction, lsn
  <2>2. job \in Jobs
    <3>1. ASSUME NEW st \in {"publish", "fetch"}
          PROVE [NoJob EXCEPT !.st = st, !.lsn = lsn, !.base = img.snap, !.body = img.entries]
                  \in Jobs
      BY <1>1, ConstantTypes DEF Jobs
    <3> QED BY <3>1
  <2>3. job.st \in {"fetch", "publish"} /\ job.lsn = lsn /\ k.st = "running"
    BY DEF NoJob
  <2>4. comp'[w] = [st |-> "running", fold |-> [lsn |-> job.lsn, id |-> spawned + 1]]
    BY <1>2, <2>1, <2>3
  <2>5. spawned + 1 \in JobIds
    BY <1>2, <2>1 DEF JobIds
  <2> HIDE DEF job, k
  <2>6. Starts(w)
    BY <2>1, <2>2, <2>3, <2>4, <2>5 DEF Starts
  <2> QED BY <2>1, <2>3, <2>6
<1> QED
  BY <1>3, <1>4

LEMMA CompactNowTurns ==
  ASSUME TypeInv, SafeInv, IdsIssued, FoldsPrivate, NEW w \in Writers, CompactNow(w)
  PROVE  Turns(w)
<1>1. /\ Synced(w).st \notin Busy /\ image[w].entries # << >> /\ SpawnCompaction(w, image[w])
      /\ garbage' = [garbage EXCEPT ![w] = SyncedGarbage(w)] /\ UNCHANGED coreVars
      /\ UNCHANGED <<wal, snaps, inflight, doomed>> /\ UNCHANGED <<pc, call>>
  BY DEF CompactNow, storeVars, Busy
<1>2. w \in Handles /\ image[w] \in Image /\ pc[w] = "idle"
  BY DEF Handles, TypeInv, HandleInv, HandleTypeOK, CompactNow
<1>3. PICK k : /\ comp' = [comp EXCEPT ![w] = k]
               /\ \/ UNCHANGED jobVars /\ k.st = "failed"
                  \/ Starts(w) /\ k.st = "running"
  BY <1>1, <1>2, SpawnTurns
<1>4. Calm(w)
  BY <1>1, <1>3 DEF Calm
<1>5. /\ image' = [image EXCEPT ![w] = image[w]] /\ etag' = [etag EXCEPT ![w] = etag[w]]
      /\ pc' = [pc EXCEPT ![w] = "idle"] /\ call' = [call EXCEPT ![w] = call[w]]
  BY <1>1, <1>2 DEF TypeInv, HandleInv, HandleTypeOK, coreVars
<1>6. /\ comp[w].st # "ready"
      /\ ~(comp[w].st = "running" /\ jobs[comp[w].fold.id].st \in {"fetch", "publish"})
  BY <1>1, <1>2, SyncFolds DEF Busy
<1>7. \E N : /\ Pays(garbage[w], SyncedGarbage(w), N)
             /\ \A x \in Spent : x \in Holds(comp[w], image[w]) =>
                  x \in Range(SyncedGarbage(w).queue) \cup N \cup Holds(k, image[w])
  <2>1. PICK N : /\ Pays(garbage[w], SyncedGarbage(w), N)
                 /\ \A x \in Spent : x \in Holds(comp[w], image[w]) =>
                      x \in Range(SyncedGarbage(w).queue) \cup N \cup Holds(Synced(w), image[w])
    BY <1>2, SyncFolds
  <2>2. Holds(Synced(w), image[w]) = {NoSnap} \/ Synced(w) = comp[w]
    <3>1. Synced(w).fold = NoSnap \/ Synced(w) = comp[w]
      BY <1>1, <1>2 DEF Synced, DiscardSuperseded, Integrated, Busy
    <3> QED BY <1>1, <3>1 DEF Holds, Busy
  <2>3. ASSUME Synced(w) = comp[w] PROVE Holds(Synced(w), image[w]) = {NoSnap}
    <3>1. comp[w].fold = NoSnap
      BY <1>1, <1>2, <2>3, FoldNames
    <3> QED BY <1>1, <2>3, <3>1 DEF Holds, Busy
  <2>4. \A x \in Spent : x # NoSnap
    BY SpentKeys
  <2> QED BY <2>1, <2>2, <2>3, <2>4
<1>8. image[w].snap \in Shown(w) /\ "idle" \notin {"openSnap", "snap"}
  BY DEF Shown
<1> QED
  BY <1>2, <1>3, <1>4, <1>5, <1>1, <1>6, <1>7, <1>8, FullTurns

\* collect_garbage: the snapshot that leaves the queue is gone.
LEMMA GcTurns ==
  ASSUME TypeInv, TypeInv', SafeInv, IdsIssued, OnlyWritersFold, ~lossy', NEW w \in Writers,
         GcDelete(w)
  PROVE  Turns(w)
<1> DEFINE key == Head(garbage[w].queue)
           g2  == [garbage[w] EXCEPT !.queue = Tail(@)]
<1>1. w \in Handles /\ garbage[w] \in Garbage
  BY DEF Handles, TypeInv, HandleInv, HandleTypeOK
<1>2. CASE Return(w)
  <2>1. Calm(w)
    <3>1. UNCHANGED <<wal, inflight, jobVars>> /\ garbage[w].queue # << >>
      BY DEF GcDelete
    <3>2. CASE UNCHANGED snaps /\ doomed' \in {doomed, doomed \cup {key}}
      BY <3>1, <3>2 DEF Calm
    <3>3. CASE /\ garbage' = [garbage EXCEPT ![w] = g2]
      <4>1. garbage'[w] = g2 /\ g2.queue = Tail(garbage[w].queue)
        BY <1>1, <3>3 DEF TypeInv, HandleInv, HandleTypeOK, Garbage
      <4>2. garbage[w].queue \in Seq(Key)
        BY <1>1 DEF Garbage
      <4>3. Tail(garbage[w].queue) # garbage[w].queue
        <5> DEFINE q == garbage[w].queue
                   t == Tail(q)
        <5>1. Len(q) \in Nat /\ Len(t) = Len(q) - 1
          BY <3>1, <4>2, LenProperties, HeadTailProperties
        <5> HIDE DEF q, t
        <5>2. t # q
          BY <5>1
        <5> QED BY <5>2 DEF q, t
      <4>4. garbage'[w] # garbage[w]
        BY <4>1, <4>3
      <4>5. garbage[w] # NoGarbage
        BY <3>1 DEF NoGarbage
      <4>6. lossy'
        BY <1>1, <1>2, <4>4, <4>5 DEF Return, Forget, Tracks, writerVars
      <4> QED BY <4>6
    <3> QED BY <3>2, <3>3, Zenon DEF GcDelete
  <2> QED BY <1>1, <1>2, <2>1, ReturnTurns
<1>3. CASE /\ DeleteSnapshot(key) /\ garbage' = [garbage EXCEPT ![w] = g2]
           /\ UNCHANGED <<doomed, pc, call, coreVars, comp>>
  <2>1. UNCHANGED <<wal, inflight, jobVars>> /\ garbage[w].queue # << >>
    BY DEF GcDelete
  <2>2. DOMAIN snaps' = DOMAIN snaps \ {key}
    BY <1>3 DEF DeleteSnapshot, Restrict
  <2>3. /\ garbage'[w] = g2 /\ g2.queue = Tail(garbage[w].queue)
        /\ g2.overflowed = garbage[w].overflowed /\ garbage[w].queue \in Seq(Key)
    BY <1>1, <1>3 DEF TypeInv, HandleInv, HandleTypeOK, Garbage
  <2> HIDE DEF g2
  <2>4. Range(garbage[w].queue) \subseteq Range(Tail(garbage[w].queue)) \cup {key}
    <3> DEFINE q == garbage[w].queue
               t == Tail(q)
    <3>1. /\ DOMAIN q = 1 .. Len(q) /\ Len(q) \in Nat /\ key = q[1]
          /\ DOMAIN t = 1 .. Len(q) - 1 /\ \A i \in 1 .. Len(q) - 1 : t[i] = q[i + 1]
      BY <2>1, <2>3, LenProperties, HeadTailProperties
    <3> HIDE DEF q, t, key
    <3>2. ASSUME NEW i \in DOMAIN q, i # 1 PROVE q[i] \in Range(t)
      <4>1. i - 1 \in DOMAIN t /\ t[i - 1] = q[i]
        BY <3>1, <3>2
      <4> QED BY <4>1 DEF Range
    <3>3. \A i \in DOMAIN q : q[i] \in Range(t) \cup {key}
      BY <3>1, <3>2
    <3>4. Range(q) \subseteq Range(t) \cup {key}
      BY <3>3 DEF Range
    <3> QED BY <3>4 DEF q, t
  <2> HIDE DEF key
  <2>5. OthersStay(w)
    BY <1>3 DEF OthersStay, coreVars, TypeInv, HandleInv, HandleTypeOK
  <2>6. FoldTurns(w)
    BY <1>3, <2>1 DEF FoldTurns, coreVars, Busy
  <2>7. NameTurns(w)
    BY <1>3, <2>1 DEF NameTurns, Shown, coreVars, Named
  <2>8. IsFiniteSet({}) /\ Cardinality({}) = 0 /\ garbage[w].overflowed \in Nat
    BY <1>1, FS_EmptySet DEF Garbage
  <2>9. \A x \in Spent' : x # key /\ x # Named(wal)
    BY <2>1, <2>2 DEF Spent, Named
  <2>10. \A x \in Spent' : x \in Held(w) \cup {Named(wal)} => x \in Held(w)'
    BY <1>3, <2>3, <2>4, <2>9 DEF Held, coreVars
  <2>11. Accounts(w)
    <3>1. garbage[w].overflowed + Cardinality({}) <= garbage'[w].overflowed
      BY <2>3, <2>8
    <3>2. /\ DOMAIN snaps' \subseteq DOMAIN snaps /\ doomed \subseteq doomed' /\ wal' = wal
      BY <1>3, <2>1, <2>2
    <3>3. \E N : /\ IsFiniteSet(N)
                 /\ garbage[w].overflowed + Cardinality(N) <= garbage'[w].overflowed
                 /\ \A x \in Spent' : x \in Held(w) \cup {Named(wal)} => x \in Held(w)' \cup N
      BY <2>8, <2>10, <3>1
    <3> QED BY <3>2, <3>3 DEF Accounts
  <2> QED BY <2>5, <2>6, <2>7, <2>11 DEF Turns
<1> QED
  BY <1>2, <1>3, Zenon DEF GcDelete

\* A PUT that wins: the fold becomes the snapshot of the WAL, and the one it
\* replaces is queued or counted.
LEMMA AcceptTurns ==
  ASSUME TypeInv, TypeInv', ChainInv, SafeInv, IdsIssued, NEW w \in Writers,
         AppendAccepted(w) \/ FlushAccepted(w)
  PROVE  Turns(w) /\ UNCHANGED inflight
<1> DEFINE fold == ReadyFold(comp[w])
           v    == Candidate(w, comp[w], call[w].batch)
           old  == IF fold # NoSnap /\ image[w].snap # fold THEN image[w].snap ELSE NoSnap
           g    == QueueObsolete(garbage[w], old)
<1>1. /\ w \in Handles /\ image[w] \in Image /\ comp[w] \in Comps /\ garbage[w] \in Garbage
      /\ wal \in Image \cup {None} /\ wal' \in Image \cup {None}
  BY DEF Handles, TypeInv, HandleInv, HandleTypeOK, StoreTypeOK
<1>2. pc[w] = "cas" /\ Accepted(w) /\ UNCHANGED <<snaps, inflight, doomed>>
  BY DEF AppendAccepted, FlushAccepted
<1>3. /\ wal = etag[w] /\ wal' = v /\ etag' = [etag EXCEPT ![w] = v]
      /\ garbage' = [garbage EXCEPT ![w] = g]
      /\ \E img : image' = [image EXCEPT ![w] = img]
  BY <1>2, Zenon DEF Accepted, PutIfMatch
<1>4. image[w] = etag[w] /\ etag[w] # None
  BY <1>1, <1>2, RequestSafe
<1>5. v.snap = IF fold = NoSnap THEN image[w].snap ELSE fold
  BY DEF Candidate, EncodeView
<1>6. wal # None /\ wal' # None /\ Newer(wal', wal) /\ wal' # wal
  <2>1. call[w].batch # << >> \/ comp[w].st = "ready"
    BY <1>1, <1>2 DEF ChainInv, HandleChain, CasMoves
  <2>2. Newer(v, image[w])
    BY <1>1, <2>1, CandidateNewer
  <2>3. ~Newer(image[w], image[w])
    BY <1>1, LsnTypes DEF Newer
  <2>4. Request(w) \in Requests /\ Request(w).data = v
    BY <1>1, <1>2, RequestSafe DEF Request
  <2>5. v # None
    BY <2>4, NoneIsNoImage DEF Requests
  <2> HIDE DEF v
  <2> QED BY <1>3, <1>4, <2>2, <2>3, <2>5
<1>7. image'[w] = v /\ etag'[w] = v /\ garbage'[w] = g
  <2>1. image'[w] = etag'[w]
    BY <1>1, <1>2, AcceptedView
  <2> HIDE DEF v, g
  <2>2. etag'[w] = v /\ garbage'[w] = g
    BY <1>1, <1>3 DEF TypeInv, HandleInv, HandleTypeOK
  <2> QED BY <2>1, <2>2
<1>8. Named(wal) = image[w].snap /\ Named(wal') = v.snap
  <2> HIDE DEF v
  <2> QED BY <1>3, <1>4, <1>6 DEF Named
<1>9. PICK p, c : /\ pc' = [pc EXCEPT ![w] = p] /\ call' = [call EXCEPT ![w] = c]
                  /\ p \notin {"openSnap", "snap"}
  <2>1. CASE AppendAccepted(w)
    <3>1. pc' = [pc EXCEPT ![w] = "idle"] /\ call' = [call EXCEPT ![w] = NoCall]
      BY <2>1 DEF AppendAccepted
    <3>2. "idle" \notin {"openSnap", "snap"}
      OBVIOUS
    <3> QED BY <3>1, <3>2, Zenon
  <2>2. CASE FlushAccepted(w)
    <3>1. pc' = [pc EXCEPT ![w] = "flush"] /\ call' = [call EXCEPT ![w] = call[w]]
      BY <1>1, <2>2, SameFunctions DEF FlushAccepted
    <3>2. "flush" \notin {"openSnap", "snap"}
      OBVIOUS
    <3> QED BY <3>1, <3>2, Zenon
  <2> QED BY <2>1, <2>2
<1>10. /\ comp[w].st = "ready" => Installed(comp[w]).st = "installed"
       /\ comp[w].st # "ready" => Installed(comp[w]) = comp[w]
  BY DEF Installed
<1>11. PICK k : /\ comp' = [comp EXCEPT ![w] = k]
                /\ \/ UNCHANGED jobVars /\ k = Installed(comp[w])
                   \/ /\ comp[w].st # "running" /\ k.st \in {"failed", "running"}
                      /\ \/ UNCHANGED jobVars /\ k.st = "failed"
                         \/ Starts(w) /\ k.st = "running"
  <2>1. CASE UNCHANGED jobVars /\ comp' = [comp EXCEPT ![w] = Installed(comp[w])]
    BY <2>1, Zenon
  <2>2. CASE MayCompact(Installed(comp[w]), image'[w]) /\ SpawnCompaction(w, image'[w])
    <3>1. image'[w] \in Image /\ image'[w].entries # << >>
      BY <1>1, <2>2 DEF TypeInv, HandleInv, HandleTypeOK, MayCompact
    <3>2. PICK k : /\ comp' = [comp EXCEPT ![w] = k]
                   /\ \/ UNCHANGED jobVars /\ k.st = "failed"
                      \/ Starts(w) /\ k.st = "running"
      BY <2>2, <3>1, SpawnTurns
    <3>3. comp[w].st # "running"
      BY <1>10, <2>2 DEF MayCompact
    <3> QED BY <3>2, <3>3
  <2> QED BY <2>1, <2>2 DEF AppendAccepted, FlushAccepted
<1> HIDE DEF v, g, fold
<1>12. comp'[w] = k
  BY <1>1, <1>11 DEF TypeInv, HandleInv, HandleTypeOK
<1>13. k.st # "ready"
  BY <1>10, <1>11
<1>14. OthersStay(w)
  BY <1>3, <1>9, <1>11 DEF OthersStay, TypeInv, HandleInv, HandleTypeOK
<1>15. FoldTurns(w)
  BY <1>6, <1>10, <1>11, <1>12, <1>13 DEF FoldTurns
<1>16. NameTurns(w)
  <2>1. pc'[w] = p
    BY <1>1, <1>9 DEF TypeInv, HandleInv, HandleTypeOK
  <2>2. Shown(w)' = {v.snap}
    BY <1>7, <1>9, <2>1 DEF Shown
  <2>3. image[w].snap \in Shown(w)
    BY DEF Shown
  <2> QED BY <1>2, <1>5, <1>6, <1>8, <2>2, <2>3 DEF NameTurns, fold
<1>17. Accounts(w)
  <2>1. old \in SnapRef /\ Range(garbage[w].queue) \subseteq Range(garbage[w].queue)
    BY <1>1, LsnTypes, ConstantTypes
  <2>2. PICK N : Pays(garbage[w], g, N) /\ (old = NoSnap \/ old \in Range(g.queue) \cup N)
    <3> HIDE DEF old
    <3> QED BY <1>1, <2>1, QueuePays DEF g
  <2>3. ASSUME NEW x \in Spent', x \in Held(w) \cup {Named(wal)} PROVE x \in Held(w)' \cup N
    <3>1. x # NoSnap /\ x # v.snap
      <4>1. x # NoSnap /\ x \in DOMAIN snaps' /\ x # Named(wal')
        <5>1. x \in DOMAIN snaps' /\ x # Named(wal')
          BY DEF Spent, Named
        <5>2. x \in Key
          BY <5>1 DEF TypeInv, StoreTypeOK
        <5> QED BY <5>1, <5>2 DEF Key, NoSnap, Lsn
      <4> QED BY <1>8, <4>1
    <3>2. CASE x \in Range(garbage[w].queue)
      BY <1>7, <2>2, <3>2 DEF Pays, Held
    <3>3. CASE x = image[w].snap
      <4>1. fold # NoSnap /\ image[w].snap # fold
        BY <1>5, <3>1, <3>3
      <4>2. x \in Range(g.queue) \cup N
        BY <2>2, <3>1, <3>3, <4>1
      <4> QED BY <1>7, <4>2 DEF Held
    <3>4. CASE x = comp[w].fold
      <4>1. comp[w].st # "ready"
        BY <1>5, <3>1, <3>4 DEF fold, ReadyFold
      <4>2. comp[w].st = "running"
        BY <1>1, <3>1, <3>4, <4>1, FoldNames DEF Busy
      <4>3. k = comp[w]
        BY <1>10, <1>11, <4>1, <4>2
      <4> QED BY <1>12, <3>4, <4>3 DEF Held
    <3> QED BY <1>8, <2>3, <3>2, <3>3, <3>4 DEF Held
  <2>4. \E M : /\ IsFiniteSet(M)
               /\ garbage[w].overflowed + Cardinality(M) <= garbage'[w].overflowed
               /\ \A x \in Spent' : x \in Held(w) \cup {Named(wal)} => x \in Held(w)' \cup M
    BY <1>7, <2>2, <2>3 DEF Pays
  <2> QED BY <1>2, <2>4 DEF Accounts
<1> QED
  BY <1>2, <1>14, <1>15, <1>16, <1>17 DEF Turns
-----------------------------------------------------------------------------
(* The steps of nobody: compactors and late answers                          *)

\* Fewer loose snapshots, the same debts.
LEMMA FewerLoose ==
  ASSUME LooseCounted, Loose' \subseteq Loose, Debts' = Debts
  PROVE  LooseCounted'
<1>1. IsFiniteSet(Loose') /\ Cardinality(Loose') <= Cardinality(Loose)
  BY FS_Subset DEF LooseCounted
<1>2. Cardinality(Loose') \in Nat /\ Cardinality(Loose) \in Nat /\ Cardinality(Debts) \in Nat
  BY <1>1, FS_CardinalityType DEF LooseCounted
<1> QED
  BY <1>1, <1>2 DEF LooseCounted

\* A compactor goes on: what it uploads is the fold its owner waits for.
LEMMA JobSound ==
  ASSUME TypeInv, TypeInv', Sound, NEW i \in JobIds, NEW job,
         jobs' = [jobs EXCEPT ![i] = job], job.lsn = jobs[i].lsn, jobs[i].st # "none",
         job.st \in {"fetch", "publish", "done"} => jobs[i].st \in {"fetch", "publish"},
         DOMAIN snaps' \subseteq DOMAIN snaps \cup {JobKey(i)}, UNCHANGED spawned,
         UNCHANGED <<wal, inflight, doomed, pc, call, coreVars, writerVars>>
  PROVE  Sound'
<1>1. /\ jobs \in [JobIds -> Jobs] /\ jobs'[i] = job
      /\ \A j \in JobIds : j # i => jobs'[j] = jobs[j]
  BY DEF TypeInv, JobTypeOK
<1>2. \A j \in JobIds : JobKey(j)' = JobKey(j)
  BY <1>1 DEF JobKey
<1>3. JobKey(i).id = i /\ JobKey(i).lsn = jobs[i].lsn
  BY DEF JobKey
<1>4. UNCHANGED <<Published, Debts, Watched>>
  BY DEF Published, Shown, Debts, Watched, Held, Named, coreVars, writerVars
<1>5. FoldsPrivate' /\ OnlyWritersFold' /\ LateOwned'
  BY <1>4 DEF Sound, FoldsPrivate, OnlyWritersFold, LateOwned, coreVars, writerVars, Newer
<1>6. IdsIssued'
  <2>1. i \in 1 .. spawned /\ spawned \in 0 .. MaxJobs /\ MaxJobs \in Nat
    BY BoundsAssumption DEF Sound, IdsIssued, TypeInv, JobTypeOK, JobIds
  <2>2. ASSUME NEW k \in DOMAIN snaps' PROVE k.id \in 1 .. spawned /\ k.lsn = jobs'[k.id].lsn
    <3>1. CASE k = JobKey(i)
      BY <1>1, <1>3, <2>1, <3>1
    <3>2. CASE k \in DOMAIN snaps
      <4>1. k.id \in 1 .. spawned /\ k.lsn = jobs[k.id].lsn /\ k.id \in JobIds
        BY <2>1, <3>2 DEF Sound, IdsIssued, JobIds
      <4>2. jobs'[k.id].lsn = jobs[k.id].lsn
        BY <1>1, <4>1
      <4> QED BY <4>1, <4>2
    <3> QED BY <3>1, <3>2
  <2>3. \A j \in JobIds : jobs'[j].st # "none" => j <= spawned
    BY <1>1, <2>1 DEF Sound, IdsIssued
  <2> QED BY <1>4, <2>2, <2>3 DEF Sound, IdsIssued, writerVars
<1>7. JobsOwned'
  <2> SUFFICES ASSUME NEW j \in JobIds, jobs'[j].st \in {"fetch", "publish"}
               PROVE  \E w \in Writers : comp'[w].st = "running" /\ comp'[w].fold = JobKey(j)'
    BY DEF JobsOwned
  <2>1. jobs[j].st \in {"fetch", "publish"}
    BY <1>1
  <2>2. comp' = comp
    BY DEF writerVars
  <2> QED BY <1>2, <2>1, <2>2 DEF Sound, JobsOwned
<1>8. Loose' \subseteq Loose
  <2> SUFFICES ASSUME NEW k \in Loose' PROVE k \in Loose
    OBVIOUS
  <2>1. /\ k \in DOMAIN snaps' /\ jobs'[k.id].st = "done" /\ k # Named(wal) /\ k \notin Watched
    BY <1>4 DEF Loose, Spent, Named
  <2>2. k \in Key /\ k.id \in 1 .. spawned /\ k.lsn = jobs'[k.id].lsn /\ k.id \in JobIds
    <3>1. spawned \in 0 .. MaxJobs /\ MaxJobs \in Nat
      BY BoundsAssumption DEF TypeInv, JobTypeOK
    <3>2. k.id \in 1 .. spawned /\ k.lsn = jobs'[k.id].lsn
      BY <1>6, <2>1 DEF IdsIssued
    <3> QED BY <2>1, <3>1, <3>2 DEF TypeInv, StoreTypeOK, JobIds
  <2>3. CASE k.id = i
    <3>1. PICK w \in Writers : comp[w].fold = JobKey(i)
      BY <1>1, <2>1, <2>3 DEF Sound, JobsOwned
    <3>2. k = JobKey(i)
      BY <1>1, <2>2, <2>3 DEF Key, JobKey
    <3> QED BY <2>1, <3>1, <3>2 DEF Watched, Held
  <2>4. CASE k.id # i
    <3>1. jobs'[k.id] = jobs[k.id] /\ k \in DOMAIN snaps
      BY <1>1, <1>3, <2>1, <2>2, <2>4
    <3> QED BY <2>1, <3>1 DEF Loose, Spent
  <2> QED BY <2>3, <2>4
<1> QED
  BY <1>4, <1>5, <1>6, <1>7, <1>8, FewerLoose DEF Sound

LEMMA CompactorSound ==
  ASSUME TypeInv, TypeInv', Sound, NEW i \in JobIds, JobFetch(i) \/ JobPublish(i) \/ LateUpload(i)
  PROVE  Sound'
<1>1. /\ jobs[i].st \in {"fetch", "publish", "unknown"} /\ UNCHANGED spawned
      /\ UNCHANGED <<wal, inflight, doomed, pc, call, coreVars, writerVars>>
  BY DEF JobFetch, JobPublish, LateUpload, storeVars
<1>2. DOMAIN snaps' \subseteq DOMAIN snaps \cup {JobKey(i)}
  BY DEF JobFetch, JobPublish, LateUpload, storeVars, PutSnapshot
<1>3. jobs[i] \in Jobs
  BY DEF TypeInv, JobTypeOK
<1>4. ASSUME NEW job, jobs' = [jobs EXCEPT ![i] = job], job.lsn = jobs[i].lsn,
             job.st \in {"failed", "unknown"} \/ jobs[i].st \in {"fetch", "publish"}
      PROVE  Sound'
  <2>1. job.st \in {"fetch", "publish", "done"} => jobs[i].st \in {"fetch", "publish"}
    BY <1>4
  <2>2. jobs[i].st # "none"
    BY <1>1
  <2> QED BY <1>1, <1>2, <1>4, <2>1, <2>2, JobSound
<1>5. ASSUME NEW st, EndJob(i, st), st = "failed" \/ jobs[i].st \in {"fetch", "publish"}
      PROVE  Sound'
  <2> DEFINE end == [NoJob EXCEPT !.st = st, !.lsn = jobs[i].lsn]
  <2>1. jobs' = [jobs EXCEPT ![i] = end]
    BY <1>5 DEF EndJob
  <2>2. end.lsn = jobs[i].lsn /\ end.st = st
    BY DEF NoJob
  <2> HIDE DEF end
  <2> QED BY <1>4, <1>5, <2>1, <2>2
<1>6. CASE JobFetch(i)
  <2> DEFINE next == [jobs[i] EXCEPT !.st = "publish", !.base = NoSnap,
                                     !.body = snaps[jobs[i].base] \o jobs[i].body]
  <2>1. jobs[i].st = "fetch"
    BY <1>6 DEF JobFetch
  <2>2. CASE jobs' = [jobs EXCEPT ![i] = next]
    <3>1. next.lsn = jobs[i].lsn
      BY <1>3 DEF Jobs
    <3> HIDE DEF next
    <3> QED BY <1>4, <2>1, <2>2, <3>1
  <2>3. CASE EndJob(i, "failed")
    BY <1>5, <2>3
  <2> QED BY <1>6, <2>2, <2>3, Zenon DEF JobFetch
<1>7. CASE JobPublish(i)
  <2> DEFINE next == [jobs[i] EXCEPT !.tries = jobs[i].tries + 1]
             lost == [jobs[i] EXCEPT !.st = "unknown"]
  <2>1. jobs[i].st = "publish"
    BY <1>7 DEF JobPublish
  <2>2. next.lsn = jobs[i].lsn /\ lost.lsn = jobs[i].lsn
    BY <1>3 DEF Jobs
  <2>3. \/ jobs' = [jobs EXCEPT ![i] = next] \/ jobs' = [jobs EXCEPT ![i] = lost]
        \/ EndJob(i, "done") \/ EndJob(i, "failed")
    BY <1>7, Zenon DEF JobPublish
  <2> HIDE DEF next, lost
  <2> QED BY <1>4, <1>5, <2>1, <2>2, <2>3
<1>8. CASE LateUpload(i)
  BY <1>5, <1>8 DEF LateUpload
<1> QED
  BY <1>6, <1>7, <1>8

\* An unanswered PUT is carried out: its writer still watches both snapshots.
LEMMA LatePutSound ==
  ASSUME TypeInv, TypeInv', ChainInv, Sound, NEW r \in inflight, LatePut(r)
  PROVE  Sound'
<1>1. /\ wal = r.expect /\ wal' = r.data /\ inflight' = inflight \ {r}
      /\ UNCHANGED <<snaps, doomed, jobVars, pc, call, coreVars, writerVars>>
  BY DEF LatePut, PutIfMatch
<1>2. r \in Requests /\ wal \in Image \cup {None}
  BY DEF TypeInv, StoreTypeOK
<1>3. wal' \in Image /\ wal' # None /\ Named(wal') = r.data.snap
  BY <1>1, <1>2, NoneIsNoImage DEF Requests, Named
<1>4. UNCHANGED <<Debts, Watched>>
  BY <1>1 DEF Debts, Watched, Held, coreVars, writerVars
<1>5. Published' \subseteq Published
  <2>1. \A h \in Handles : Shown(h)' = Shown(h)
    BY <1>1 DEF Shown, coreVars
  <2>2. Published' = {Named(wal'), NoSnap} \cup {q.data.snap : q \in inflight'}
                       \cup UNION {Shown(h)' : h \in Handles}
    BY DEF Published, Named
  <2> QED BY <1>1, <1>3, <2>1, <2>2 DEF Published
<1>6. FoldsPrivate' /\ IdsIssued' /\ OnlyWritersFold'
  BY <1>1, <1>5 DEF Sound, FoldsPrivate, IdsIssued, OnlyWritersFold, writerVars, jobVars
<1>7. JobsOwned'
  BY <1>1 DEF Sound, JobsOwned, JobKey, writerVars, jobVars
<1>8. LateOwned'
  <2> SUFFICES ASSUME NEW q \in inflight', q.expect # None
               PROVE  wal' # None /\ Newer(wal', q.expect) /\ q.expect # wal'
    BY DEF LateOwned
  <2>1. q \in inflight /\ q.expect \in Image
    BY <1>1 DEF TypeInv, StoreTypeOK, Requests
  <2>2. wal # None /\ (q.expect = wal \/ Newer(wal, q.expect))
    BY <2>1 DEF Sound, LateOwned
  <2>3. Newer(wal', wal) /\ wal \in Image
    BY <1>1, <1>2, <2>2 DEF ChainInv, LateMoves
  <2>4. ~Newer(wal', wal')
    BY <1>3, LsnTypes DEF Newer
  <2>5. CASE q.expect = wal
    BY <1>3, <2>3, <2>4, <2>5
  <2>6. CASE Newer(wal, q.expect)
    BY <1>3, <2>1, <2>3, <2>6, NewerChain
  <2> QED BY <2>2, <2>5, <2>6
<1>9. Loose' \subseteq Loose
  <2> SUFFICES ASSUME NEW k \in Loose' PROVE k \in Loose
    OBVIOUS
  <2>1. /\ k \in DOMAIN snaps /\ jobs[k.id].st = "done" /\ k # r.data.snap /\ k \notin Watched
    BY <1>1, <1>3, <1>4 DEF Loose, Spent, Named, jobVars
  <2>2. k # NoSnap
    <3>1. k \in Key
      BY <2>1 DEF TypeInv, StoreTypeOK
    <3> QED BY <3>1 DEF Key, NoSnap, Lsn
  <2>3. ASSUME k = Named(wal) PROVE FALSE
    <3>1. wal # None /\ k = wal.snap
      BY <2>2, <2>3 DEF Named
    <3>2. PICK w \in Writers : comp[w].st = "ready" /\ etag[w] = wal
      BY <1>1, <2>1, <3>1 DEF Sound, LateOwned
    <3>3. image[w] = wal
      BY <3>1, <3>2 DEF ChainInv, HandleChain, ViewHeld, Handles
    <3> QED BY <2>1, <3>1, <3>2, <3>3 DEF Watched, Held
  <2> QED BY <2>1, <2>3 DEF Loose, Spent
<1> QED
  BY <1>4, <1>6, <1>7, <1>8, <1>9, FewerLoose DEF Sound

\* An unanswered DELETE is carried out.
LEMMA LateDeleteSound ==
  ASSUME Sound, NEW key \in doomed, LateDelete(key)
  PROVE  Sound'
<1>1. /\ DOMAIN snaps' = DOMAIN snaps \ {key} /\ doomed' = doomed \ {key}
      /\ UNCHANGED <<wal, inflight, jobVars, pc, call, coreVars, writerVars>>
  BY DEF LateDelete, DeleteSnapshot, Restrict
<1>2. UNCHANGED <<Debts, Published>> /\ \A w \in Writers : Held(w)' = Held(w)
  BY <1>1 DEF Debts, Published, Shown, Held, Named, coreVars, writerVars
<1>3. FoldsPrivate' /\ IdsIssued' /\ OnlyWritersFold' /\ JobsOwned' /\ LateOwned'
  BY <1>1, <1>2 DEF Sound, FoldsPrivate, IdsIssued, OnlyWritersFold, JobsOwned, LateOwned,
     JobKey, Newer, coreVars, writerVars, jobVars
<1>4. Loose' \subseteq Loose
  <2> SUFFICES ASSUME NEW k \in Loose' PROVE k \in Loose
    OBVIOUS
  <2>1. k \in Spent /\ k # key /\ k \notin doomed' /\ \A w \in Writers : k \notin Held(w)'
    BY <1>1 DEF Loose, Spent, Watched, Named, jobVars
  <2>2. k \notin Watched
    BY <1>1, <1>2, <2>1 DEF Watched
  <2> QED BY <2>1, <2>2 DEF Loose
<1> QED
  BY <1>2, <1>3, <1>4, FewerLoose DEF Sound
-----------------------------------------------------------------------------
(* The theorem                                                               *)

\* A loss stays a loss.
LEMMA LossyStays ==
  ASSUME [Next]_vars, lossy
  PROVE  lossy'
<1>1. ASSUME NEW h, Return(h) PROVE lossy'
  BY <1>1 DEF Return, Forget
<1>2. ASSUME NEW h, NEW again, MissingSnapshot(h, again) PROVE lossy'
  BY <1>1, <1>2 DEF MissingSnapshot, ReturnNotApplied
<1>3. ASSUME NEW h, HandleStep(h) \/ Refresh(h) \/ Drop(h) PROVE lossy'
  <2>1. CASE Refresh(h) \/ Drop(h)
    BY <2>1 DEF Refresh, Drop, Forget, obsVars
  <2>2. CASE OpenGet(h)
    BY <1>1, <2>2 DEF OpenGet, ReturnNotApplied, Opened
  <2>3. CASE OpenSnap(h)
    BY <1>1, <1>2, <2>3, Zenon DEF OpenSnap, ReturnNotApplied, Opened
  <2>4. CASE RefreshGet(h)
    BY <1>1, <2>4 DEF RefreshGet, ReturnNotApplied, Adopt
  <2>5. CASE RefreshSnap(h)
    BY <1>1, <1>2, <2>5, Zenon DEF RefreshSnap, ReturnNotApplied, Adopt
  <2> QED BY <1>3, <2>1, <2>2, <2>3, <2>4, <2>5 DEF HandleStep
<1>4. ASSUME NEW w, WriterStep(w) PROVE lossy'
  <2>1. CASE OpenPut(w)
    BY <1>1, <2>1 DEF OpenPut, ReturnNotApplied, Opened
  <2>2. CASE AppendAccepted(w) \/ FlushAccepted(w)
    BY <2>2 DEF AppendAccepted, FlushAccepted
  <2>3. CASE PutRejected(w) \/ PutFailed(w) \/ PutUnknown(w)
    BY <1>1, <2>3 DEF PutRejected, PutFailed, PutUnknown, ReturnNotApplied, obsVars
  <2>4. CASE Reconcile(w)
    BY <1>1, <2>4, Zenon DEF Reconcile, ReturnNotApplied
  <2>5. CASE WaitForCompaction(w) \/ FlushStep(w)
    BY <1>1, <2>5 DEF WaitForCompaction, FlushStep, obsVars
  <2>6. CASE GcDelete(w) \/ GcDone(w)
    BY <1>1, <2>6, Zenon DEF GcDelete, GcDone
  <2> QED BY <1>4, <2>1, <2>2, <2>3, <2>4, <2>5, <2>6 DEF WriterStep
<1>5. ASSUME NEW w, \/ Write(w) \/ StartMaintenance(w) \/ CompactNow(w) \/ CompactionStatus(w)
                    \/ TakeCompactionError(w)
      PROVE  lossy'
  BY <1>5 DEF Write, StartMaintenance, CompactNow, CompactionStatus, TakeCompactionError, obsVars
<1>6. ASSUME NEW i, JobStep(i) \/ LateUpload(i) PROVE lossy'
  BY <1>6 DEF JobStep, JobFetch, JobPublish, LateUpload, obsVars
<1>7. ASSUME NEW x, LatePut(x) \/ LateDelete(x) PROVE lossy'
  BY <1>7 DEF LatePut, LateDelete, obsVars
<1>8. CASE UNCHANGED vars
  BY <1>8 DEF vars, obsVars
<1> QED
  BY <1>3, <1>4, <1>5, <1>6, <1>7, <1>8 DEF Next

LEMMA DebtInit == Init => DebtInv
<1> SUFFICES ASSUME Init PROVE Sound
  BY DEF DebtInv, Sound
<1>1. /\ wal = None /\ DOMAIN snaps = {} /\ inflight = {} /\ spawned = 0
      /\ comp = [h \in Handles |-> NoFold] /\ image = [h \in Handles |-> EmptyImage]
      /\ pc = [h \in Handles |-> "down"] /\ jobs = [i \in JobIds |-> NoJob]
      /\ garbage = [h \in Handles |-> NoGarbage]
  BY DEF Init
<1>2. /\ NoFold.st = "idle" /\ EmptyImage.snap = NoSnap /\ NoJob.st = "none"
      /\ NoGarbage.overflowed = 0 /\ NoSnap.id = 0
  BY DEF NoFold, EmptyImage, NoJob, NoGarbage, NoSnap
<1>3. Published = {NoSnap}
  BY <1>1, <1>2 DEF Published, Shown, Named
<1>4. Loose = {} /\ Debts = {}
  <2>1. Loose = {}
    BY <1>1 DEF Loose, Spent
  <2>2. \A w \in Writers : 1 .. garbage[w].overflowed = {}
    BY <1>1, <1>2 DEF Handles
  <2> QED BY <2>1, <2>2 DEF Debts
<1>5. LooseCounted
  <2>1. IsFiniteSet({}) /\ Cardinality({}) = 0
    BY FS_EmptySet
  <2> QED BY <1>4, <2>1 DEF LooseCounted
<1> QED
  BY <1>1, <1>2, <1>3, <1>5 DEF Sound, FoldsPrivate, IdsIssued, OnlyWritersFold, JobsOwned,
     LateOwned, Busy

LEMMA DebtNext == Inv /\ Inv' /\ DebtInv /\ [Next]_vars => DebtInv'
<1> SUFFICES ASSUME TypeInv, TypeInv', ChainInv, SafeInv, DebtInv, [Next]_vars, ~lossy'
             PROVE  Sound'
  BY DEF Inv, DebtInv, Sound
<1>1. Sound
  BY LossyStays DEF DebtInv, Sound
<1>2. Advances
  BY ChainNext DEF ChainStep
<1>3. IdsIssued /\ FoldsPrivate /\ OnlyWritersFold
  BY <1>1 DEF Sound
<1>4. ASSUME NEW h \in Handles, Turns(h), wal' # wal => UNCHANGED inflight PROVE Sound'
  BY <1>1, <1>2, <1>4, TurnSound
<1>5. CASE UNCHANGED vars
  <2>1. UNCHANGED <<wal, snaps, inflight, doomed, jobs, spawned, pc, call, image, etag, comp,
                    garbage>>
    BY <1>5 DEF vars, storeVars, jobVars, coreVars, writerVars
  <2>2. UNCHANGED <<Published, Loose, Debts>>
    BY <2>1 DEF Published, Shown, Named, Loose, Spent, Watched, Held, Debts
  <2>3. LooseCounted' /\ FoldsPrivate' /\ IdsIssued'
    BY <1>1, <2>1, <2>2 DEF Sound, LooseCounted, FoldsPrivate, IdsIssued
  <2>4. OnlyWritersFold' /\ JobsOwned' /\ LateOwned'
    BY <1>1, <2>1 DEF Sound, OnlyWritersFold, JobsOwned, LateOwned, JobKey, Newer
  <2> QED BY <2>3, <2>4 DEF Sound
<1>6. ASSUME NEW h \in Handles, HandleStep(h) \/ Refresh(h) PROVE Sound'
  <2>1. wal' = wal
    BY <1>6 DEF HandleStep, OpenGet, OpenSnap, RefreshGet, RefreshSnap, Refresh, storeVars
  <2>2. Turns(h)
    BY <1>3, <1>6, OpenTurns, RefreshTurns, MaintenanceTurns DEF HandleStep
  <2> QED BY <1>4, <2>1, <2>2
<1>7. ASSUME NEW h \in Handles, Drop(h) \/ PutUnknown(h) PROVE Sound'
  BY <1>3, <1>4, <1>7, SendTurns
<1>8. ASSUME NEW w \in Writers, OpenPut(w) \/ AppendAccepted(w) \/ FlushAccepted(w) PROVE Sound'
  <2>1. w \in Handles
    BY DEF Handles
  <2>2. Turns(w) /\ (wal' # wal => UNCHANGED inflight)
    BY <1>3, <1>8, OpenPutTurns, AcceptTurns
  <2> QED BY <1>4, <2>1, <2>2
<1>9. ASSUME NEW w \in Writers,
             \/ Write(w) \/ Reconcile(w) \/ FlushStep(w) \/ GcDone(w) \/ PutRejected(w)
             \/ PutFailed(w) \/ StartMaintenance(w) \/ WaitForCompaction(w)
             \/ CompactionStatus(w) \/ TakeCompactionError(w) \/ CompactNow(w) \/ GcDelete(w)
      PROVE  Sound'
  <2>1. w \in Handles
    BY DEF Handles
  <2>2. wal' = wal
    BY <1>9 DEF Write, Reconcile, FlushStep, GcDone, PutRejected, PutFailed, StartMaintenance,
       WaitForCompaction, CompactionStatus, TakeCompactionError, CompactNow, GcDelete, storeVars
  <2>3. Turns(w)
    BY <1>3, <1>9, <2>1, RoundTurns, MaintenanceTurns, CompactNowTurns, GcTurns
  <2> QED BY <1>4, <2>1, <2>2, <2>3
<1>10. ASSUME NEW w \in Writers,
              \/ WriterStep(w) \/ Write(w) \/ StartMaintenance(w)
              \/ CompactNow(w) \/ CompactionStatus(w) \/ TakeCompactionError(w)
       PROVE  Sound'
  <2>1. w \in Handles
    BY DEF Handles
  <2> QED BY <1>7, <1>8, <1>9, <1>10, <2>1 DEF WriterStep
<1>11. ASSUME NEW i \in JobIds, JobStep(i) \/ LateUpload(i) PROVE Sound'
  BY <1>1, <1>11, CompactorSound DEF JobStep
<1>12. ASSUME NEW r \in inflight, LatePut(r) PROVE Sound'
  BY <1>1, <1>12, LatePutSound
<1>13. ASSUME NEW k \in doomed, LateDelete(k) PROVE Sound'
  BY <1>1, <1>13, LateDeleteSound
<1> QED
  BY <1>5, <1>6, <1>7, <1>10, <1>11, <1>12, <1>13 DEF Next

\* Untracked asks more of a snapshot than Loose does.
LEMMA DebtInvReported == Inv /\ DebtInv => DebtReported
<1> SUFFICES ASSUME TypeInv, SafeInv, LooseCounted
             PROVE  Cardinality(Untracked) <= Cardinality(Debts)
  BY DEF Inv, DebtInv, Sound, DebtReported
<1>1. Untracked \subseteq Loose
  <2> SUFFICES ASSUME NEW k \in Untracked PROVE k \in Loose
    OBVIOUS
  <2>1. /\ k \in DOMAIN snaps /\ jobs[k.id].st = "done" /\ (wal = None \/ wal.snap # k)
        /\ \A w \in Writers : comp[w].fold # k /\ image[w].snap # k
        /\ k \notin Reclaimable
    BY DEF Untracked
  <2>2. k # NoSnap
    <3>1. k \in Key
      BY <2>1 DEF TypeInv, StoreTypeOK
    <3> QED BY <3>1 DEF Key, NoSnap, Lsn
  <2>3. k \in Spent
    BY <2>1, <2>2 DEF Spent, Named
  <2>4. k \notin doomed /\ \A w \in Writers : k \notin Range(garbage[w].queue)
    BY <2>1 DEF Reclaimable, Handles
  <2>5. \A w \in Writers : k \notin Held(w)
    BY <2>1, <2>4 DEF Held
  <2> QED BY <2>3, <2>4, <2>5 DEF Loose, Watched
<1>2. IsFiniteSet(Untracked) /\ Cardinality(Untracked) <= Cardinality(Loose)
  BY <1>1, FS_Subset DEF LooseCounted
<1>3. /\ Cardinality(Untracked) \in Nat /\ Cardinality(Loose) \in Nat
      /\ Cardinality(Debts) \in Nat
  BY <1>2, FS_CardinalityType DEF LooseCounted
<1> QED
  BY <1>2, <1>3 DEF LooseCounted

\* No garbage is forgotten in silence: as long as every handle finishes its
\* maintenance before it ends, the uploaded snapshots that fell out of use and
\* that no writer knows of are at most as many as garbage_overflowed counts.
THEOREM DebtsAreReported == Spec => []DebtReported
<1>1. Spec => []Inv
  BY AlwaysSafe DEF Inv
<1> QED
  BY <1>1, DebtInit, DebtNext, DebtInvReported, PTL DEF Spec
=============================================================================

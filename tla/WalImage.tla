------------------------------ MODULE WalImage ------------------------------
(* The WAL object of waltier (src/image.rs): an optional snapshot reference  *)
(* followed by the live entries.  LSNs are not stored with the entries: they *)
(* are implied by the snapshot reference, so every operation on an image is  *)
(* arithmetic on LSNs and positions.                                         *)
(*                                                                           *)
(* A snapshot key "snap/<lsn>-<random id>" is the record [lsn, id]; the      *)
(* reference SnapshotRef {key, lsn} is that same record, because a           *)
(* compaction puts its fold LSN into the key.  "No snapshot" is the record   *)
(* with LSN -1, so that the first live LSN is lsn + 1 in both cases.         *)
EXTENDS Integers, Sequences

CONSTANTS
  \* the outcome of reading an object, or of holding an ETag, that is absent
  None

\* Lsn: a u64 in the code; the bounds of the instances stay far below it.
Lsn == Nat

NoSnap == [lsn |-> -1, id |-> 0]

\* Names a snapshot object can have.
Key == [lsn : Lsn, id : Nat \ {0}]

\* Option<SnapshotRef>
SnapRef == Key \cup {NoSnap}

\* Application payloads; the instances number them.
Entry == Nat

\* WalImage: the snapshot reference and the entries appended after it.
Image == [snap : SnapRef, entries : Seq(Entry)]

\* An absent object and an absent ETag are no image.
ASSUME NoneAssumption == None \notin Image

\* WalImage::empty
EmptyImage == [snap |-> NoSnap, entries |-> << >>]

\* WalImage::first_lsn: the LSN of the first live entry.
FirstLsn(img) == img.snap.lsn + 1

\* WalImage::next_lsn: the LSN the next accepted entry gets.
NextLsn(img) == FirstLsn(img) + Len(img.entries)

\* mutant: the count of entries to skip is one short.
EntriesFromShort(img, lsn) ==
  LET skip == IF lsn > FirstLsn(img) THEN lsn - FirstLsn(img) - 1 ELSE 0
  IN  SubSeq(img.entries, skip + 1, Len(img.entries))

\* WalImage::entries_from: the live entries with LSN >= lsn, in order; the
\* whole image when lsn lies before the first live entry (saturating_sub).
EntriesFrom(img, lsn) ==
  LET skip == IF lsn > FirstLsn(img) THEN lsn - FirstLsn(img) ELSE 0
  IN  SubSeq(img.entries, skip + 1, Len(img.entries))

\* Fold::applies_to: the fold covers a non-empty prefix of the live entries.
AppliesTo(fold, img) == fold.lsn >= FirstLsn(img) /\ fold.lsn < NextLsn(img)

\* mutant: pops one entry less than the fold covers (0..n for 0..=n).
FoldedShort(img, fold) ==
  [snap    |-> fold,
   entries |-> SubSeq(img.entries, fold.lsn - FirstLsn(img) + 1, Len(img.entries))]

\* The image left when the entries up to the fold's LSN give way to its
\* snapshot: the swap made by install_pending_fold.
Folded(img, fold) ==
  [snap    |-> fold,
   entries |-> SubSeq(img.entries, fold.lsn - FirstLsn(img) + 2, Len(img.entries))]

\* The push_back of accepted entries.
Pushed(img, extra) == [snap |-> img.snap, entries |-> img.entries \o extra]

\* mutant: skips one entry too many.
EncodeViewLong(img, fold, extra) ==
  LET skip == IF fold = NoSnap THEN 0 ELSE fold.lsn + 2 - FirstLsn(img)
  IN  [snap    |-> IF fold = NoSnap THEN img.snap ELSE fold,
       entries |-> SubSeq(img.entries, skip + 1, Len(img.entries)) \o extra]

\* WalImage::encode_view: the candidate image that is PUT.  fold is NoSnap
\* when no compaction is ready.  The byte layout is abstracted: decode is the
\* inverse of the encoding.
EncodeView(img, fold, extra) ==
  LET skip == IF fold = NoSnap THEN 0 ELSE fold.lsn + 1 - FirstLsn(img)
  IN  [snap    |-> IF fold = NoSnap THEN img.snap ELSE fold,
       entries |-> SubSeq(img.entries, skip + 1, Len(img.entries)) \o extra]
=============================================================================

----------------------------- MODULE ImageCodec -----------------------------
(* The byte format of the WAL object and the limits around it, with smaller  *)
(* integers: a cell has Base values instead of 256, u32 has W32 cells, u64   *)
(* has W64 and the magic number is one cell.  Everything else is as in the   *)
(* code: what encode_view checks before it narrows lengths and counts, what  *)
(* decode refuses and as what, and the LSN arithmetic that goes unchecked    *)
(* once an image was accepted.                                               *)
(*                                                                           *)
(* The object may hold any bytes.  A handle that could decode them goes on   *)
(* to append and fold under its limits until LSNs or budgets run out.        *)
EXTENDS Integers, Sequences, FiniteSets

CONSTANTS
  None,
  Base, W32, W64,    \* values of a cell, cells of a u32 and of a u64
  MaxImageBytes,     \* Options::max_image_bytes
  MaxLiveEntries,    \* Options::max_live_entries
  MaxRead,           \* bound: length of the bytes found in the store
  Payloads,          \* entries that callers append
  Names              \* keys of snapshots

ASSUME BaseAssumption == Base \in Nat /\ Base > 2

Pow[n \in Nat] == IF n = 0 THEN 1 ELSE Base * Pow[n - 1]      \* Base ^ n

Max32 == Pow[W32] - 1
Max64 == Pow[W64] - 1

ASSUME WidthAssumption == W32 \in Nat \ {0} /\ W64 \in Nat \ {0}
ASSUME OptionsAssumption ==
  /\ MaxImageBytes \in Nat /\ MaxImageBytes >= 2 + W32
  /\ MaxLiveEntries \in 1 .. Max32

Cell == 0 .. Base - 1
Magic == 1

VARIABLES
  bytes,   \* the WAL object
  image    \* the image of the handle, None before it has opened the log

vars == <<bytes, image>>
-----------------------------------------------------------------------------
(* Integers, little-endian                                                   *)

\* to_le_bytes; a value that does not fit loses its high cells (as u32).
ToLE(n, w) == [i \in 1 .. w |-> (n \div Pow[i - 1]) % Base]

\* from_le_bytes
FromLE(s) ==
  LET sum[n \in 0 .. Len(s)] == IF n = 0 THEN 0 ELSE sum[n - 1] + s[n] * Pow[n - 1]
  IN  sum[Len(s)]

\* String::from_utf8: the highest cell value stands for bytes that are not UTF-8.
IsUtf8(s) == \A i \in DOMAIN s : s[i] < Base - 1

ASSUME PayloadAssumption == \A e \in Payloads : e \in Seq(Cell)
ASSUME NameAssumption == \A k \in Names : k \in Seq(Cell) /\ IsUtf8(k)
-----------------------------------------------------------------------------
(* Images                                                                    *)

NoRef == [lsn |-> -1, key |-> << >>]      \* no snapshot

Image(snap, entries) == [snap |-> snap, entries |-> entries]

FirstLsn(img) == img.snap.lsn + 1
NextLsn(img) == FirstLsn(img) + Len(img.entries)

Limits(bytesLimit, entriesLimit) == [bytes |-> bytesLimit, entries |-> entriesLimit]

Opts == Limits(MaxImageBytes, MaxLiveEntries)

Ok(val) == [err |-> "none", val |-> val]
Err(why) == [err |-> why, val |-> << >>]

\* mutant: the last LSN plus one may wrap
CheckLsnLoose(snap, count) == snap.lsn + count <= Max64

\* check_lsn: first and next LSN are representable.
CheckLsn(snap, count) == snap.lsn + 1 <= Max64 /\ snap.lsn + 1 + count <= Max64

Framed(s) == ToLE(Len(s), W32) \o s

Concat(ss) ==
  LET cat[n \in 0 .. Len(ss)] == IF n = 0 THEN << >> ELSE cat[n - 1] \o ss[n]
  IN  cat[Len(ss)]

\* The layout; the casts of lengths and of the count narrow.
Layout(img) ==
  <<Magic>>
    \o (IF img.snap = NoRef THEN <<0>>
        ELSE <<1>> \o ToLE(img.snap.lsn, W64) \o Framed(img.snap.key))
    \o ToLE(Len(img.entries), W32)
    \o Concat([i \in DOMAIN img.entries |-> Framed(img.entries[i])])

\* mutant: only the size of the image is limited
EncodeUnchecked(img, lim) ==
  IF Len(img.entries) > lim.entries THEN Err("LimitExceeded")
  ELSE IF ~CheckLsn(img.snap, Len(img.entries)) THEN Err("LsnExhausted")
  ELSE IF Len(Layout(img)) > lim.bytes THEN Err("LimitExceeded")
  ELSE Ok(Layout(img))

\* encode, and encode_view on the candidate it would write.
Encode(img, lim) ==
  IF Len(img.entries) > lim.entries \/ Len(img.entries) > Max32 THEN Err("LimitExceeded")
  ELSE IF ~CheckLsn(img.snap, Len(img.entries)) THEN Err("LsnExhausted")
  ELSE IF Len(img.snap.key) > Max32 THEN Err("LimitExceeded")
  ELSE IF \E i \in DOMAIN img.entries : Len(img.entries[i]) > Max32 THEN Err("LimitExceeded")
  ELSE IF Len(Layout(img)) > lim.bytes THEN Err("LimitExceeded")
  ELSE Ok(Layout(img))

\* The candidate of encode_view: a fold covers the first skip live entries.
View(img, snap, skip, extra) ==
  Image(IF snap = NoRef THEN img.snap ELSE snap,
        SubSeq(img.entries, skip + 1, Len(img.entries)) \o extra)
-----------------------------------------------------------------------------
(* Decoding                                                                  *)

\* Reader::take: n cells behind position pos, if there are as many.
Has(data, pos, n) == Len(data) - pos >= n
Take(data, pos, n) == SubSeq(data, pos + 1, pos + n)
U32(data, pos) == FromLE(Take(data, pos, W32))

\* The snapshot reference behind magic and flag, and the position after it.
DecodeRef(data) ==
  LET at == 2 + W64 + W32
      len == U32(data, 2 + W64)
      key == Take(data, at, len)
  IN  IF ~Has(data, 1, 1) THEN Err("Corrupt")
      ELSE IF data[2] = 0 THEN Ok([ref |-> NoRef, pos |-> 2])
      ELSE IF data[2] > 1 THEN Err("Corrupt")                  \* bad flag
      ELSE IF ~Has(data, 2, W64 + W32) THEN Err("Corrupt")
      ELSE IF ~Has(data, at, len) THEN Err("Corrupt")
      ELSE IF ~IsUtf8(key) THEN Err("Corrupt")
      ELSE Ok([ref |-> [lsn |-> FromLE(Take(data, 2, W64)), key |-> key],
               pos |-> at + len])

\* Positions behind the n-th of the entries that start at pos; -1 once the
\* body is too short.
EntryEnds(data, pos, count) ==
  LET end[n \in 0 .. count] ==
        IF n = 0 THEN pos
        ELSE IF end[n - 1] = -1 \/ ~Has(data, end[n - 1], W32) THEN -1
        ELSE LET len == U32(data, end[n - 1])
             IN  IF Has(data, end[n - 1] + W32, len) THEN end[n - 1] + W32 + len ELSE -1
  IN  end

\* mutant: bytes behind the last entry are ignored
DecodeBodyOpen(data, ref, pos, lim) ==
  LET count == U32(data, pos)
      end == EntryEnds(data, pos + W32, count)
  IN  IF ~Has(data, pos, W32) THEN Err("Corrupt")
      ELSE IF ~CheckLsn(ref, count) THEN Err("Corrupt")
      ELSE IF count > (Len(data) - pos - W32) \div W32 THEN Err("Corrupt")
      ELSE IF count > lim.entries THEN Err("LimitExceeded")
      ELSE IF end[count] = -1 THEN Err("Corrupt")
      ELSE Ok(Image(ref, [i \in 1 .. count |->
                            SubSeq(data, end[i - 1] + W32 + 1, end[i])]))

\* The count and the entries, which must end with the body.
DecodeBody(data, ref, pos, lim) ==
  LET count == U32(data, pos)
      end == EntryEnds(data, pos + W32, count)
  IN  IF ~Has(data, pos, W32) THEN Err("Corrupt")
      ELSE IF ~CheckLsn(ref, count) THEN Err("Corrupt")        \* LSN overflow
      ELSE IF count > (Len(data) - pos - W32) \div W32 THEN Err("Corrupt")
      ELSE IF count > lim.entries THEN Err("LimitExceeded")
      ELSE IF end[count] = -1 THEN Err("Corrupt")              \* truncated
      ELSE IF end[count] < Len(data) THEN Err("Corrupt")       \* trailing bytes
      ELSE Ok(Image(ref, [i \in 1 .. count |->
                            SubSeq(data, end[i - 1] + W32 + 1, end[i])]))

Decode(data, lim) ==
  IF Len(data) > lim.bytes THEN Err("LimitExceeded")
  ELSE IF ~Has(data, 0, 1) \/ data[1] # Magic THEN Err("Corrupt")
  ELSE LET head == DecodeRef(data)
       IN  IF head.err # "none" THEN head
           ELSE DecodeBody(data, head.val.ref, head.val.pos, lim)
-----------------------------------------------------------------------------
(* A handle on an object that may hold anything                              *)

Init ==
  /\ \E n \in 0 .. MaxRead : bytes \in [1 .. n -> Cell]
  /\ image = None

Open ==
  /\ image = None
  /\ Decode(bytes, Opts).err = "none"
  /\ image' = Decode(bytes, Opts).val
  /\ UNCHANGED bytes

\* Batches of at most two entries.
Batches == {<< >>} \cup {<<e>> : e \in Payloads} \cup {<<e, f>> : e, f \in Payloads}

\* No fold, or one that covers a non-empty prefix of the live entries.
Folds(img) ==
  {[snap |-> NoRef, skip |-> 0]}
    \cup {[snap |-> [lsn |-> FirstLsn(img) + n - 1, key |-> k], skip |-> n] :
            n \in 1 .. Len(img.entries), k \in Names}

\* mutant: the pop loop leaves the entry at the fold's LSN
EditedShort(img, f, extra) ==
  LET popped == IF f.snap = NoRef THEN 0 ELSE f.snap.lsn - FirstLsn(img)
  IN  Image(IF f.snap = NoRef THEN img.snap ELSE f.snap,
            SubSeq(img.entries, popped + 1, Len(img.entries)) \o extra)

\* install_pending_fold pops the entries from first_lsn to the fold's LSN and
\* append adds its own: the handle's image is edited in place.
Edited(img, f, extra) ==
  LET popped == IF f.snap = NoRef THEN 0 ELSE f.snap.lsn - FirstLsn(img) + 1
  IN  Image(IF f.snap = NoRef THEN img.snap ELSE f.snap,
            SubSeq(img.entries, popped + 1, Len(img.entries)) \o extra)

\* A PUT of the candidate that is accepted; a refused candidate changes nothing.
Install(f, extra) ==
  LET out == Encode(View(image, f.snap, f.skip, extra), Opts)
  IN  /\ out.err = "none"
      /\ bytes' = out.val
      /\ image' = Edited(image, f, extra)

Next ==
  \/ Open
  \/ image # None /\ \E f \in Folds(image), extra \in Batches : Install(f, extra)

Spec == Init /\ [][Next]_vars
-----------------------------------------------------------------------------
(* Properties                                                                *)

Wide == Limits(MaxRead + MaxImageBytes, Max32)

\* What decode accepts is the one encoding of an image: no torn, extended or
\* altered object is read as an image that would be written differently.
CanonicalBytes ==
  LET d == Decode(bytes, Wide) IN d.err = "none" => Layout(d.val) = bytes

\* The handle's image, edited in place after each PUT, is what any reader with
\* the same limits decodes from the object.
EditedAsWritten == image # None => Decode(bytes, Opts) = Ok(image)

\* first_lsn and next_lsn, computed without checks, never overflow.
NoOverflow == image # None => FirstLsn(image) <= Max64 /\ NextLsn(image) <= Max64

\* encode_view accepts a candidate exactly when the bytes it would write are
\* decoded under the same limits to that candidate: no narrowing cast loses
\* anything, nothing is published that cannot be read back, and nothing that
\* could be is refused.
EncodeIffReadable ==
  image # None =>
    \A f \in Folds(image), extra \in Batches :
      LET view == View(image, f.snap, f.skip, extra)
      IN  (Encode(view, Opts).err = "none") <=> (Decode(Layout(view), Opts) = Ok(view))
=============================================================================

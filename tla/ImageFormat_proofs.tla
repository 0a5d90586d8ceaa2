------------------------- MODULE ImageFormat_proofs -------------------------
(***************************************************************************)
(* Proofs about ImageFormat, for any manifests, files, sizes, words and    *)
(* alignment: what the packer computes are words; what the validator       *)
(* accepts, and what the provider stages, are the packed bytes; and an     *)
(* image that is torn, or too large for a word, is refused.                *)
(***************************************************************************)
EXTENDS ImageFormat, SequenceTheorems, WellFoundedInduction, TLAPS

-----------------------------------------------------------------------------
(* Arithmetic of words.                                                    *)

\* What the assumption on the constants says, by types.
LEMMA Constants ==
    /\ Word \in Nat /\ Word > 1 /\ Alignment \in Nat \ {0} /\ Alignment <= Word
    /\ HeaderSize \in Words /\ HeaderSize > 0 /\ EntrySize \in Words /\ EntrySize > 0
    /\ MaxEntries \in Nat /\ MaxDamages \in Nat /\ Sizes \subseteq Nat
    /\ Word % Alignment = 0
BY ImageFormatAssumption DEF Words

\* Division with remainder.
LEMMA DivMod ==
    ASSUME NEW x \in Nat, NEW a \in Nat \ {0}
    PROVE  /\ x \div a \in Nat /\ x % a \in 0 .. a - 1
           /\ x - (x % a) = a * (x \div a)
<1>1. x \div a \in Nat /\ a \in Nat /\ a > 0
  OBVIOUS
<1>2. x % a \in 0 .. a - 1
  OBVIOUS
<1>3. x - (x % a) = a * (x \div a)
  BY <1>1
<1> QED
  BY <1>1, <1>2, <1>3

\* A multiple leaves no remainder.
LEMMA Multiple ==
    ASSUME NEW q \in Nat, NEW a \in Nat \ {0}
    PROVE  q * a \in Nat /\ (q * a) % a = 0
OBVIOUS

\* A sum of two words wraps once at most.
LEMMA Wrap ==
    ASSUME NEW x \in Nat, NEW w \in Nat, x < 2 * w
    PROVE  x % w = IF x < w THEN x ELSE x - w
OBVIOUS

\* Multiples that are less than one step apart.
LEMMA Close ==
    ASSUME NEW p \in Nat, NEW q \in Nat, NEW a \in Nat \ {0}, p * a - q * a < a
    PROVE  p <= q
OBVIOUS

\* Products are monotonic.
LEMMA ProductMonotonic ==
    ASSUME NEW p \in Nat, NEW q \in Nat, NEW a \in Nat, p <= q
    PROVE  p * a <= q * a
OBVIOUS

\* The sum of two words.
LEMMA AddWords ==
    ASSUME NEW v \in Words, NEW w \in Words
    PROVE  Add(v, w) = IF v + w < Word THEN v + w ELSE v + w - Word
<1> DEFINE y == v + w
<1>1. y \in Nat /\ y < 2 * Word /\ Word \in Nat
  BY Constants DEF Words
<1>2. v \in Nat /\ w \in Nat
  BY Constants DEF Words
<1>3. Add(v, w) = y % Word
  BY DEF Add
<1> HIDE DEF y
<1>4. y % Word = IF y < Word THEN y ELSE y - Word
  BY <1>1, Wrap
<1>5. Add(v, w) = IF y < Word THEN y ELSE y - Word
  BY <1>3, <1>4
<1> QED
  BY <1>1, <1>2, <1>5 DEF y

\* align_up_u32() gives the least aligned word from its argument on, or zero when
\* the sum wraps.
LEMMA AlignUp ==
    ASSUME NEW v \in Words
    PROVE  /\ align_up_u32(v) \in Words /\ Aligned(align_up_u32(v))
           /\ \/ align_up_u32(v) >= v /\ align_up_u32(v) < v + Alignment
              \/ align_up_u32(v) = 0 /\ v + Alignment > Word
           /\ \A m \in Words : Aligned(m) /\ v <= m => align_up_u32(v) <= m
<1> DEFINE A == Alignment
           x == Add(v, A - 1)
           d == x \div A
           r == x % A
           u == align_up_u32(v)
<1>0. A \in Nat \ {0} /\ Word \in Nat /\ A <= Word /\ v \in Nat /\ v < Word
  BY Constants DEF Words
<1>1. x = IF v + (A - 1) < Word THEN v + (A - 1) ELSE v + (A - 1) - Word
  <2>1. A - 1 \in Words
    BY <1>0 DEF Words
  <2> QED
    BY <2>1, AddWords
<1> HIDE DEF A
<1>2. x \in Nat /\ x < Word
  BY <1>0, <1>1
<1> HIDE DEF x
<1>3. x - r = d * A /\ r \in 0 .. A - 1 /\ d \in Nat
  <2>1. x - r = A * d /\ r \in 0 .. A - 1 /\ d \in Nat
    BY <1>0, <1>2, DivMod
  <2> HIDE DEF d, r
  <2> QED
    BY <1>0, <2>1
<1>4. u = d * A
  BY DEF align_up_u32, x, A
<1> HIDE DEF d, r, u
<1>5. d * A \in Nat /\ (d * A) % A = 0
  BY <1>0, <1>3, Multiple
<1>6. u \in Words /\ u \in Nat /\ u % A = 0
  BY <1>0, <1>2, <1>3, <1>4, <1>5 DEF Words
<1>7. CASE v + (A - 1) < Word
  <2>1. u = v + (A - 1) - r
    BY <1>0, <1>1, <1>3, <1>4, <1>5, <1>7
  <2>2. u >= v /\ u < v + A
    BY <1>0, <1>3, <2>1
  <2>3. ASSUME NEW m \in Words, m % A = 0, v <= m PROVE u <= m
    <3> DEFINE e == m \div A
    <3>0. m \in Nat
      BY DEF Words
    <3>1. m = e * A /\ e \in Nat
      <4>1. m - 0 = A * e /\ e \in Nat
        BY <1>0, <2>3, <3>0, DivMod
      <4> HIDE DEF e
      <4> QED
        BY <1>0, <3>0, <4>1
    <3> HIDE DEF e
    <3>2. d * A - e * A < A
      <4>1. u < m + A
        BY <1>0, <1>6, <2>2, <2>3, <3>0
      <4> QED
        BY <1>0, <1>4, <1>6, <3>0, <3>1, <4>1
    <3>3. d <= e
      BY <1>0, <1>3, <3>1, <3>2, Close
    <3>4. d * A <= e * A
      BY <1>0, <1>3, <3>1, <3>3, ProductMonotonic
    <3> QED
      BY <1>4, <3>1, <3>4
  <2> QED
    BY <1>6, <2>2, <2>3 DEF Aligned, u, A
<1>8. CASE ~(v + (A - 1) < Word)
  <2>1. x < A
    BY <1>0, <1>1, <1>8
  <2>2. d <= 0
    <3>1. d * A - 0 * A < A
      BY <1>0, <1>2, <1>3, <1>5, <2>1
    <3> QED
      BY <1>0, <1>3, <3>1, Close
  <2>3. u = 0 /\ v + A > Word
    BY <1>0, <1>3, <1>4, <1>8, <2>2
  <2>4. \A m \in Words : u <= m
    BY <2>3 DEF Words
  <2> QED
    BY <1>6, <2>3, <2>4 DEF Aligned, u, A
<1> QED
  BY <1>7, <1>8

\* The place behind the table.
LEMMA TableEndType ==
    ASSUME NEW n \in Nat
    PROVE  TableEnd(n) \in Nat /\ TableEnd(n) >= HeaderSize
<1>1. n * EntrySize \in Nat
  BY Constants DEF Words
<1> QED
  BY <1>1, Constants DEF TableEnd, Words

-----------------------------------------------------------------------------
(* Types.                                                                  *)

Cells   == (Files \X Nat) \cup {<<"zero", 0>>, <<"other", 0>>}
Headers == [fixed : {"v1", "other"}, count : Nat, payload_offset : Words,
            file_size : Words, manifest_crc : {crc32(m) : m \in Manifests \cup {<< >>}}]
Entries == [id : Nat, offset : Words, size : Nat,
            crc : {crc32(c) : c \in Seq(Cells)}, flags : {0, 1}]
Disks   == [len : Nat, header : Headers, table : Seq(Entries), body : Seq(Cells)]

\* The types, with that of the file, which exists from the first write on.
TypeInv ==
    /\ TypeOK
    /\ pc = "load" => offsets = << >>
    /\ pc \in {"header", "write", "ok"} => Len(offsets) = Len(manifest)
    /\ pc \in {"load", "read", "header"} => disk = NoFile /\ written = 0
    /\ pc # "ok" => damages = << >>
    /\ pc \in {"write", "ok"} => disk \in Disks
    /\ pc = "failed" => disk = NoFile \/ disk \in Disks

\* Zeros that were asked for, none for a negative number.
LEMMA ZerosType ==
    ASSUME NEW n \in Int
    PROVE  /\ Zeros(n) \in Seq(Cells)
           /\ Len(Zeros(n)) = IF n > 0 THEN n ELSE 0
<1>1. <<"zero", 0>> \in Cells
  BY DEF Cells
<1>2. CASE n > 0
  BY <1>1, <1>2 DEF Zeros
<1>3. CASE ~(n > 0)
  <2>1. 1 .. n = 1 .. 0
    BY <1>3
  <2>2. Zeros(n) = [k \in 1 .. 0 |-> <<"zero", 0>>]
    BY <2>1 DEF Zeros
  <2> QED
    BY <1>1, <1>3, <2>2
<1> QED
  BY <1>2, <1>3

\* A line of the manifest, and the payload it names.
LEMMA LineType ==
    ASSUME manifest \in Manifests, sizeOf \in [Files -> Sizes]
    PROVE  /\ manifest \in Seq([id : Words, file : Files]) /\ Len(manifest) \in Nat
           /\ \A i \in 1 .. Len(manifest) :
                 /\ manifest[i].id \in Words /\ manifest[i].file \in Files
                 /\ sizeOf[manifest[i].file] \in Nat
                 /\ Payload(i) \in Seq(Cells)
                 /\ Len(Payload(i)) = sizeOf[manifest[i].file]
<1>1. manifest \in Seq([id : Words, file : Files]) /\ Len(manifest) \in Nat
  <2> DEFINE S == [id : 0 .. Word - 1, file : Files]
  <2>1. Manifests \subseteq Seq(S)
    BY ImageFormatAssumption
  <2>3. S = [id : Words, file : Files]
    BY DEF Words
  <2> HIDE DEF S
  <2>2. manifest \in Seq(S) /\ Len(manifest) \in Nat
    BY <2>1
  <2> QED
    BY <2>2, <2>3
<1>2. ASSUME NEW i \in 1 .. Len(manifest)
      PROVE  /\ manifest[i].id \in Words /\ manifest[i].file \in Files
             /\ sizeOf[manifest[i].file] \in Nat
             /\ Payload(i) \in Seq(Cells)
             /\ Len(Payload(i)) = sizeOf[manifest[i].file]
  <2> DEFINE f == manifest[i].file
             n == sizeOf[f]
  <2>1. manifest[i] \in [id : Words, file : Files]
    BY <1>1, ElementOfSeq
  <2>2. manifest[i].id \in Words /\ f \in Files
    BY <2>1
  <2>3. n \in Nat
    BY <2>2, Constants
  <2> HIDE DEF f, n
  <2>4. Payload(i) = [k \in 1 .. n |-> <<f, k>>]
    BY DEF Payload, Content, f, n
  <2>5. \A k \in 1 .. n : <<f, k>> \in Cells
    BY <2>2 DEF Cells
  <2> QED
    BY <2>2, <2>3, <2>4, <2>5 DEF f, n
<1> QED
  BY <1>1, <1>2

\* Differences of words are words.
LEMMA SubType ==
    ASSUME NEW v \in Int, NEW w \in Int
    PROVE  Sub(v, w) \in Words /\ Add(v, w) \in Words
BY Constants DEF Sub, Add, Words

\* What is written for a payload.
LEMMA PaddedType ==
    ASSUME TypeOK, NEW i \in 1 .. Len(offsets)
    PROVE  LET end == Add(offsets[i], sizeOf[manifest[i].file])
               gap == Sub(align_up_u32(end), end)
           IN  /\ Padded(i) \in Seq(Cells) /\ gap \in Nat
               /\ Padded(i) = Payload(i) \o Zeros(gap)
               /\ Len(Padded(i)) = sizeOf[manifest[i].file] + gap
               /\ Len(Zeros(gap)) = gap
<1> DEFINE n == sizeOf[manifest[i].file]
           end == Add(offsets[i], n)
           gap == Sub(align_up_u32(end), end)
<1>1. i \in 1 .. Len(manifest) /\ offsets[i] \in Words
  BY LineType DEF TypeOK
<1>2. n \in Nat /\ Payload(i) \in Seq(Cells) /\ Len(Payload(i)) = n
  BY <1>1, LineType DEF TypeOK
<1>3. Padded(i) = Payload(i) \o Zeros(gap)
  BY DEF Padded
<1> HIDE DEF n
<1>4. end \in Words
  <2>1. offsets[i] \in Int /\ n \in Int
    BY <1>1, <1>2, Constants DEF Words
  <2> QED
    BY <2>1, SubType
<1> HIDE DEF end
<1>5. gap \in Words /\ gap \in Nat
  <2>1. align_up_u32(end) \in Int /\ end \in Int
    BY <1>4, AlignUp DEF Words
  <2>2. gap \in Words
    BY <2>1, SubType
  <2> QED
    BY <2>2 DEF Words
<1> HIDE DEF gap
<1>6. Zeros(gap) \in Seq(Cells) /\ Len(Zeros(gap)) = gap
  BY <1>5, ZerosType
<1>7. /\ Payload(i) \o Zeros(gap) \in Seq(Cells)
      /\ Len(Payload(i) \o Zeros(gap)) = Len(Payload(i)) + Len(Zeros(gap))
  BY <1>2, <1>6, ConcatProperties
<1> QED
  BY <1>2, <1>3, <1>5, <1>6, <1>7 DEF gap, end, n

\* The first place is a word.
LEMMA FirstPlaceType ==
    ASSUME TypeOK
    PROVE  payload_offset \in Words /\ Aligned(payload_offset)
<1>1. TableEnd(Len(manifest)) \in Nat
  BY LineType, TableEndType DEF TypeOK
<1>2. TableEnd(Len(manifest)) % Word \in Words
  BY <1>1, Constants DEF Words
<1> QED
  BY <1>2, AlignUp DEF payload_offset

\* One change of a file: what it leaves as it was.
DamageKinds == {"id", "field", "byte", "length"}
Changed(kind, d) ==
    /\ d \in Disks /\ Len(d.table) = Len(disk.table)
    /\ d.header.manifest_crc \in {disk.header.manifest_crc, crc32(<< >>)}
    /\ \A i \in 1 .. Len(disk.table) :
          /\ d.table[i].crc \in {disk.table[i].crc, crc32(<< >>)}
          /\ kind # "id" => d.table[i].id = disk.table[i].id
    /\ kind = "length" =>
          /\ d.header = disk.header /\ d.table = disk.table /\ d.body = disk.body
          /\ d.len < disk.len

\* The header has changed.
LEMMA HeaderChanged ==
    ASSUME disk \in Disks, NEW h \in Headers,
           h.manifest_crc \in {disk.header.manifest_crc, crc32(<< >>)},
           NEW d, d = [disk EXCEPT !.header = h]
    PROVE  Changed("field", d)
BY DEF Changed, Disks

\* An entry has changed.
LEMMA EntryChanged ==
    ASSUME disk \in Disks, NEW i \in 1 .. Len(disk.table), NEW e \in Entries,
           e.crc \in {disk.table[i].crc, crc32(<< >>)},
           NEW kind \in {"id", "field"}, kind # "id" => e.id = disk.table[i].id,
           NEW d, d = [disk EXCEPT !.table[i] = e]
    PROVE  Changed(kind, d)
<1>1. disk.table \in Seq(Entries) /\ Len(disk.table) \in Nat
  BY DEF Disks
<1>2. /\ d.table = [disk.table EXCEPT ![i] = e] /\ d.header = disk.header
      /\ d.body = disk.body /\ d.len = disk.len
      /\ d = [len |-> d.len, header |-> d.header, table |-> d.table, body |-> d.body]
  BY DEF Disks
<1>3. /\ d.table \in Seq(Entries) /\ Len(d.table) = Len(disk.table)
      /\ \A j \in 1 .. Len(disk.table) :
            d.table[j] = IF j = i THEN e ELSE disk.table[j]
  BY <1>1, <1>2
<1>4. d \in Disks /\ d.header.manifest_crc = disk.header.manifest_crc
  BY <1>2, <1>3 DEF Disks
<1>5. ASSUME NEW j \in 1 .. Len(disk.table)
      PROVE  /\ d.table[j].crc \in {disk.table[j].crc, crc32(<< >>)}
             /\ kind # "id" => d.table[j].id = disk.table[j].id
  <2>1. CASE j = i
    BY <1>3, <2>1
  <2>2. CASE j # i
    BY <1>3, <2>2
  <2> QED
    BY <2>1, <2>2
<1>6. kind # "length"
  OBVIOUS
<1> QED
  BY <1>3, <1>4, <1>5, <1>6 DEF Changed

\* Every change of a packed file is one of them.
LEMMA DamageStep ==
    ASSUME TypeInv, LengthChanges \/ ByteChanges \/ HeaderChanges \/ EntryChanges
    PROVE  /\ \E kind \in DamageKinds : Changed(kind, disk') /\ Damage(kind, disk')
           /\ pc = "ok" /\ disk \in Disks
<1>1. pc = "ok" /\ disk \in Disks
  BY DEF TypeInv, LengthChanges, ByteChanges, HeaderChanges, EntryChanges, Damage
<1>2. crc32(<< >>) \in {crc32(c) : c \in Seq(Cells)}
  <2>1. << >> \in Seq(Cells)
    BY EmptySeq
  <2> QED
    BY <2>1, Zenon
<1>3. CASE LengthChanges
  <2>1. PICK n \in 0 .. disk.len - 1 : Damage("length", [disk EXCEPT !.len = n])
    BY <1>3 DEF LengthChanges
  <2>2. disk' = [disk EXCEPT !.len = n] /\ n \in Nat /\ n < disk.len
    BY <1>1, <2>1 DEF Damage, Disks
  <2>3. Changed("length", disk')
    BY <1>1, <2>2 DEF Changed, Disks
  <2> QED
    BY <1>1, <2>1, <2>3 DEF Damage, DamageKinds
<1>4. CASE ByteChanges
  <2>1. PICK k \in 1 .. Len(disk.body) :
                Damage("byte", [disk EXCEPT !.body[k] = <<"other", 0>>])
    BY <1>4 DEF ByteChanges
  <2>2. disk' = [disk EXCEPT !.body[k] = <<"other", 0>>]
    BY <2>1 DEF Damage
  <2>3. [disk.body EXCEPT ![k] = <<"other", 0>>] \in Seq(Cells)
    BY <1>1 DEF Disks, Cells
  <2>4. Changed("byte", disk')
    BY <1>1, <2>2, <2>3 DEF Changed, Disks
  <2> QED
    BY <1>1, <2>1, <2>4 DEF Damage, DamageKinds
<1>5. CASE HeaderChanges
  <2>1. PICK h : /\ Damage("field", [disk EXCEPT !.header = h])
                 /\ \/ h = [disk.header EXCEPT !.fixed = "other"]
                    \/ h = [disk.header EXCEPT !.manifest_crc = crc32(<< >>)]
                    \/ \E w \in Words :
                          \/ h = [disk.header EXCEPT !.count = w]
                          \/ h = [disk.header EXCEPT !.payload_offset = w]
                          \/ h = [disk.header EXCEPT !.file_size = w]
    BY <1>5 DEF HeaderChanges
  <2>2. disk.header \in Headers /\ Words \subseteq Nat
    BY <1>1 DEF Disks, Words
  <2>3. crc32(<< >>) \in {crc32(m) : m \in Manifests \cup {<< >>}}
    OBVIOUS
  <2> HIDE DEF Words
  <2>4. h \in Headers /\ h.manifest_crc \in {disk.header.manifest_crc, crc32(<< >>)}
    BY <2>1, <2>2, <2>3 DEF Headers
  <2>5. Changed("field", disk')
    <3>1. disk' = [disk EXCEPT !.header = h]
      BY <2>1 DEF Damage
    <3> QED
      BY <1>1, <2>4, <3>1, HeaderChanged
  <2> QED
    BY <1>1, <2>1, <2>5 DEF Damage, DamageKinds
<1>6. CASE EntryChanges
  <2>1. PICK i \in 1 .. Len(disk.table) :
           \/ \E w \in Words :
                 \/ Damage("id", [disk EXCEPT !.table[i] = [disk.table[i] EXCEPT !.id = w]])
                 \/ Damage("field", [disk EXCEPT !.table[i] = [disk.table[i] EXCEPT !.offset = w]])
                 \/ Damage("field", [disk EXCEPT !.table[i] = [disk.table[i] EXCEPT !.size = w]])
           \/ Damage("field", [disk EXCEPT !.table[i] = [disk.table[i] EXCEPT !.flags = 1]])
           \/ Damage("field", [disk EXCEPT !.table[i] =
                                  [disk.table[i] EXCEPT !.crc = crc32(<< >>)]])
    BY <1>6 DEF EntryChanges
  <2> DEFINE entry == disk.table[i]
             With(e) == [disk EXCEPT !.table[i] = e]
  <2>2. entry \in Entries /\ Words \subseteq Nat
    BY <1>1 DEF Disks, Words
  <2>3. ASSUME NEW e \in Entries, e.crc \in {entry.crc, crc32(<< >>)},
               NEW kind \in {"id", "field"}, kind # "id" => e.id = entry.id,
               Damage(kind, With(e))
        PROVE  \E l \in DamageKinds : Changed(l, disk') /\ Damage(l, disk')
    <3>1. disk' = With(e)
      BY <2>3 DEF Damage
    <3>2. Changed(kind, disk')
      BY <1>1, <2>3, <3>1, EntryChanged
    <3>3. kind \in DamageKinds /\ Damage(kind, disk')
      BY <2>3, <3>1 DEF DamageKinds
    <3> QED
      BY <3>2, <3>3
  <2>4. ASSUME NEW w \in Words
        PROVE  /\ [entry EXCEPT !.id = w] \in Entries
               /\ [entry EXCEPT !.id = w].crc = entry.crc
               /\ [entry EXCEPT !.offset = w] \in Entries
               /\ [entry EXCEPT !.offset = w].crc = entry.crc
               /\ [entry EXCEPT !.offset = w].id = entry.id
               /\ [entry EXCEPT !.size = w] \in Entries
               /\ [entry EXCEPT !.size = w].crc = entry.crc
               /\ [entry EXCEPT !.size = w].id = entry.id
    BY <2>2 DEF Entries
  <2>5. /\ [entry EXCEPT !.flags = 1] \in Entries
        /\ [entry EXCEPT !.flags = 1].crc = entry.crc
        /\ [entry EXCEPT !.flags = 1].id = entry.id
        /\ [entry EXCEPT !.crc = crc32(<< >>)] \in Entries
        /\ [entry EXCEPT !.crc = crc32(<< >>)].crc = crc32(<< >>)
        /\ [entry EXCEPT !.crc = crc32(<< >>)].id = entry.id
    BY <1>2, <2>2 DEF Entries
  <2>6. \/ \E w \in Words : \/ Damage("id", With([entry EXCEPT !.id = w]))
                             \/ Damage("field", With([entry EXCEPT !.offset = w]))
                             \/ Damage("field", With([entry EXCEPT !.size = w]))
        \/ Damage("field", With([entry EXCEPT !.flags = 1]))
        \/ Damage("field", With([entry EXCEPT !.crc = crc32(<< >>)]))
    BY <2>1
  <2> HIDE DEF With, entry
  <2> QED
    BY <1>1, <2>3, <2>4, <2>5, <2>6
<1> QED
  BY <1>1, <1>3, <1>4, <1>5, <1>6

\* The header and the table that are written.
LEMMA TableType ==
    ASSUME TypeOK, Len(offsets) = Len(manifest)
    PROVE  /\ Header \in Headers /\ Table \in Seq(Entries)
           /\ Len(Table) = Len(manifest) /\ Len(manifest) \in Nat
           /\ \A i \in 1 .. Len(manifest) : Table[i] = Entry(i)
<1>1. manifest \in Manifests /\ cursor \in Words /\ payload_offset \in Words
  BY FirstPlaceType DEF TypeOK
<1>2. Len(manifest) \in Nat
  BY LineType DEF TypeOK
<1>3. Header \in Headers
  <2>1. crc32(manifest) \in {crc32(m) : m \in Manifests \cup {<< >>}}
    BY <1>1
  <2> QED
    BY <1>1, <1>2, <2>1 DEF Header, Headers
<1>4. ASSUME NEW i \in 1 .. Len(manifest) PROVE Entry(i) \in Entries
  <2>1. offsets[i] \in Words
    BY DEF TypeOK
  <2>2. /\ manifest[i].id \in Nat /\ sizeOf[manifest[i].file] \in Nat
        /\ Payload(i) \in Seq(Cells)
    BY LineType DEF TypeOK, Words
  <2>3. crc32(Payload(i)) \in {crc32(c) : c \in Seq(Cells)}
    BY <2>2, Zenon
  <2> QED
    BY <2>1, <2>2, <2>3 DEF Entry, Entries
<1>5. Table \in Seq(Entries) /\ Len(Table) = Len(manifest)
  BY <1>2, <1>4 DEF Table
<1> QED
  BY <1>2, <1>3, <1>5 DEF Table

\* TypeInv holds initially ...
LEMMA InitType == Init => TypeInv
<1> SUFFICES ASSUME Init PROVE TypeInv
  OBVIOUS
<1>1. manifest \in Manifests /\ sizeOf \in [Files -> Sizes] /\ Len(manifest) \in Nat
  BY LineType DEF Init
<1>2. 0 \in Words /\ << >> \in Seq(Words)
  BY Constants, EmptySeq DEF Words
<1>3. << >> \in Seq({"id", "field", "byte", "length"}) /\ Len(<< >>) = 0
  BY EmptySeq
<1>4. disk.len = 0
  BY DEF Init, NoFile
<1> QED
  BY <1>1, <1>2, <1>3, <1>4, Constants DEF Init, TypeInv, TypeOK

\* ... and every step preserves it.
LEMMA NextType == TypeInv /\ [Next]_vars => TypeInv'
<1> SUFFICES ASSUME TypeInv, [Next]_vars PROVE TypeInv'
  OBVIOUS
<1>1. TypeOK /\ Len(manifest) \in Nat /\ payload_offset \in Words
  BY LineType, FirstPlaceType DEF TypeInv, TypeOK
<1>2. CASE LoadManifest
  BY <1>1, <1>2 DEF LoadManifest, Fail, TypeInv, TypeOK
<1>3. CASE ReadPayload
  <2> DEFINE size == sizeOf[manifest[Len(offsets) + 1].file]
  <2>1. /\ pc = "read" /\ Len(offsets) < Len(manifest)
        /\ UNCHANGED <<manifest, sizeOf, written, disk, damages>>
    BY <1>3 DEF ReadPayload
  <2>2. Len(offsets) \in Nat /\ Len(offsets) + 1 \in 1 .. Len(manifest) /\ cursor \in Words
    BY <1>1, <2>1 DEF TypeOK
  <2>3. size \in Nat
    BY <1>1, <2>2, LineType DEF TypeOK
  <2>4. align_up_u32(Add(cursor, size)) \in Words
    <3>1. cursor \in Int /\ size \in Int
      BY <2>2, <2>3 DEF Words
    <3> QED
      BY <3>1, SubType, AlignUp
  <2>5. /\ offsets' \in Seq(Words) /\ Len(offsets') <= Len(manifest)
        /\ Len(offsets) <= Len(offsets')
        /\ cursor' \in Words /\ pc' \in {"read", "failed"}
    <3>1. CASE /\ offsets' = Append(offsets, cursor)
               /\ cursor' = align_up_u32(Add(cursor, size)) /\ UNCHANGED pc
      BY <1>1, <2>1, <2>2, <2>4, <3>1 DEF TypeOK
    <3>2. CASE Fail
      BY <1>1, <2>1, <2>2, <3>2 DEF Fail, TypeOK
    <3> QED
      BY <1>3, <3>1, <3>2 DEF ReadPayload
  <2> QED
    BY <1>1, <2>1, <2>2, <2>5 DEF TypeInv, TypeOK
<1>4. CASE OpenOutput
  BY <1>1, <1>4 DEF OpenOutput, Fail, TypeInv, TypeOK
<1>5. CASE WriteHead
  <2> DEFINE padding == Zeros(payload_offset - TableEnd(Len(manifest)))
  <2>1. /\ pc = "header" /\ pc' = "write" /\ Len(offsets) = Len(manifest)
        /\ disk' = [len |-> TableEnd(Len(manifest)) + Len(padding),
                    header |-> Header, table |-> Table, body |-> padding]
        /\ UNCHANGED <<manifest, sizeOf, offsets, cursor, written, damages>>
    BY <1>5 DEF WriteHead, TypeInv
  <2>2. TableEnd(Len(manifest)) \in Nat
    BY <1>1, TableEndType
  <2>3. padding \in Seq(Cells) /\ Len(padding) \in Nat
    <3>1. payload_offset - TableEnd(Len(manifest)) \in Int
      BY <1>1, <2>2 DEF Words
    <3> QED
      BY <3>1, ZerosType
  <2> HIDE DEF padding
  <2>4. disk' \in Disks
    BY <1>1, <2>1, <2>2, <2>3, TableType DEF Disks
  <2>5. disk'.len \in Nat
    BY <2>4 DEF Disks
  <2> QED
    BY <1>1, <2>1, <2>4, <2>5 DEF TypeInv, TypeOK
<1>6. CASE WritePayload
  <2>1. /\ pc = "write" /\ Len(offsets) = Len(manifest) /\ disk \in Disks
        /\ written < Len(manifest) /\ written' = written + 1
        /\ disk' = [disk EXCEPT !.len = @ + Len(Padded(written + 1)),
                                !.body = @ \o Padded(written + 1)]
        /\ UNCHANGED <<manifest, sizeOf, pc, offsets, cursor, damages>>
    BY <1>6 DEF WritePayload, TypeInv
  <2>2. written + 1 \in 1 .. Len(offsets)
    BY <1>1, <2>1 DEF TypeOK
  <2>3. Padded(written + 1) \in Seq(Cells)
    BY <1>1, <2>2, PaddedType
  <2>4. disk.body \o Padded(written + 1) \in Seq(Cells)
    BY <2>1, <2>3, ConcatProperties DEF Disks
  <2>5. disk' \in Disks /\ disk'.len \in Nat
    <3>1. Len(Padded(written + 1)) \in Nat /\ disk.len \in Nat
      BY <2>1, <2>3 DEF Disks
    <3>2. disk.len + Len(Padded(written + 1)) \in Nat
      BY <3>1
    <3> QED
      BY <2>1, <2>4, <3>2 DEF Disks
  <2> QED
    BY <1>1, <2>1, <2>2, <2>5 DEF TypeInv, TypeOK
<1>7. CASE CloseOutput
  BY <1>1, <1>7 DEF CloseOutput, TypeInv, TypeOK
<1>8. CASE WriteFails
  <2>1. /\ pc = "write" /\ pc' = "failed" /\ disk \in Disks
        /\ UNCHANGED <<manifest, sizeOf, offsets, cursor, written, damages>>
    BY <1>8 DEF WriteFails, TypeInv
  <2>2. PICK n \in 0 .. disk.len : disk' = [disk EXCEPT !.len = n]
    BY <1>8 DEF WriteFails
  <2>3. disk' \in Disks /\ disk'.len \in Nat
    BY <2>1, <2>2 DEF Disks
  <2> QED
    BY <1>1, <2>1, <2>3 DEF TypeInv, TypeOK
<1>9. CASE LengthChanges \/ ByteChanges \/ HeaderChanges \/ EntryChanges
  <2>1. PICK kind \in DamageKinds : Changed(kind, disk') /\ Damage(kind, disk')
    BY <1>9, DamageStep
  <2>2. /\ pc = "ok" /\ Len(damages) < MaxDamages /\ damages' = Append(damages, kind)
        /\ disk' \in Disks
        /\ UNCHANGED <<manifest, sizeOf, pc, offsets, cursor, written>>
    BY <2>1 DEF Damage, Changed
  <2>3. damages' \in Seq({"id", "field", "byte", "length"}) /\ Len(damages') <= MaxDamages
    BY <1>1, <2>1, <2>2, Constants DEF TypeOK, DamageKinds
  <2>4. disk'.len \in Nat
    BY <2>2 DEF Disks
  <2> QED
    BY <1>1, <2>2, <2>3, <2>4 DEF TypeInv, TypeOK
<1>10. CASE UNCHANGED vars
  BY <1>1, <1>10 DEF vars, TypeInv, TypeOK
<1> QED
  BY <1>2, <1>3, <1>4, <1>5, <1>6, <1>7, <1>8, <1>9, <1>10 DEF Next

\* pack_image() computes words, reads no more payloads than there are lines, and
\* writes none that it has not read.
THEOREM TypeCorrect == Spec => []TypeOK
<1>1. TypeInv => TypeOK
  BY DEF TypeInv
<1> QED
  BY <1>1, InitType, NextType, PTL DEF Spec

-----------------------------------------------------------------------------
(* The seals: what the checksums and the identifiers in the file say.      *)

\* Something may be on the disk.
Begun == pc \in {"write", "ok"} \/ disk.len > 0

SameIds == \A k \in 1 .. Len(damages) : damages[k] # "id"

\* The checksums are those of the manifest and of the payloads, or were changed
\* into one that covers nothing; the identifiers are the manifest's unless one
\* was changed.
Sealed(d, sameids) ==
    /\ Len(d.table) = Len(manifest)
    /\ d.header.manifest_crc \in {crc32(manifest), crc32(<< >>)}
    /\ \A i \in 1 .. Len(manifest) :
          /\ d.table[i].crc \in {crc32(Payload(i)), crc32(<< >>)}
          /\ sameids => d.table[i].id = manifest[i].id

SealInv ==
    /\ TypeInv
    /\ pc \in {"read", "header", "write", "ok"} => load_manifest(manifest)
    /\ Begun => load_manifest(manifest) /\ Sealed(disk, SameIds)

\* No step changes what the packer was given, nor what follows from it.
LEMMA GivenStays ==
    ASSUME [Next]_vars
    PROVE  /\ UNCHANGED <<manifest, sizeOf>>
           /\ load_manifest(manifest)' <=> load_manifest(manifest)
           /\ \A i : Payload(i)' = Payload(i)
           /\ payload_offset' = payload_offset
<1>1. UNCHANGED <<manifest, sizeOf>>
  BY DEF Next, vars, LoadManifest, ReadPayload, OpenOutput, WriteHead, WritePayload,
         CloseOutput, WriteFails, LengthChanges, ByteChanges, HeaderChanges,
         EntryChanges, Damage
<1> QED
  BY <1>1 DEF load_manifest, Payload, Content, payload_offset, TableEnd, align_up_u32, Add

\* SealInv holds initially ...
LEMMA InitSeal == Init => SealInv
<1> SUFFICES ASSUME Init PROVE SealInv
  OBVIOUS
<1>1. pc = "load" /\ disk.len = 0
  BY DEF Init, NoFile
<1> QED
  BY <1>1, InitType DEF SealInv, Begun

\* ... and every step preserves it.
LEMMA NextSeal == SealInv /\ [Next]_vars => SealInv'
<1> SUFFICES ASSUME SealInv, [Next]_vars PROVE SealInv'
  OBVIOUS
<1>1. TypeInv /\ TypeInv' /\ TypeOK /\ UNCHANGED <<manifest, sizeOf>>
  BY NextType, GivenStays DEF SealInv, TypeInv
<1>2. (load_manifest(manifest)' <=> load_manifest(manifest))
      /\ \A i : Payload(i)' = Payload(i)
  BY GivenStays
<1>3. ASSUME pc' \notin {"write", "ok"}, UNCHANGED disk, pc \in {"load", "read"},
             pc' \in {"read", "header"} => load_manifest(manifest)
      PROVE  SealInv'
  <2>1. disk'.len = 0
    BY <1>1, <1>3 DEF TypeInv, NoFile
  <2> QED
    BY <1>1, <1>2, <1>3, <2>1 DEF SealInv, Begun
<1>4. CASE LoadManifest
  BY <1>3, <1>4 DEF LoadManifest, Fail
<1>5. CASE ReadPayload
  BY <1>3, <1>5 DEF ReadPayload, Fail, SealInv
<1>6. CASE OpenOutput
  BY <1>3, <1>6 DEF OpenOutput, Fail, SealInv
<1>7. CASE WriteHead
  <2>1. /\ pc = "header" /\ disk'.header = Header /\ disk'.table = Table
        /\ UNCHANGED <<offsets, damages>> /\ Len(offsets) = Len(manifest)
    BY <1>1, <1>7 DEF WriteHead, TypeInv
  <2>2. Sealed(disk', SameIds')
    <3>1. /\ Len(Table) = Len(manifest)
          /\ \A i \in 1 .. Len(manifest) : Table[i] = Entry(i)
      BY <1>1, <2>1, TableType
    <3>2. Header.manifest_crc = crc32(manifest)
      BY DEF Header
    <3>3. \A i : Entry(i).crc = crc32(Payload(i)) /\ Entry(i).id = manifest[i].id
      BY DEF Entry
    <3> QED
      BY <2>1, <3>1, <3>2, <3>3 DEF Sealed
  <2>3. Sealed(disk, SameIds)'
    BY <1>1, <1>2, <2>2 DEF Sealed, crc32
  <2> QED
    BY <1>1, <1>2, <2>1, <2>3 DEF SealInv
<1>8. ASSUME pc \in {"write", "ok"}, pc' \in {"write", "ok", "failed"},
             disk'.header = disk.header, disk'.table = disk.table, UNCHANGED damages
      PROVE  SealInv'
  <2>1. load_manifest(manifest) /\ Sealed(disk, SameIds)
    BY <1>8 DEF SealInv, Begun
  <2>2. Sealed(disk, SameIds)'
    BY <1>1, <1>2, <1>8, <2>1 DEF Sealed, SameIds, crc32
  <2> QED
    BY <1>1, <1>2, <2>1, <2>2 DEF SealInv
<1>9. CASE WritePayload
  <2>1. disk \in Disks /\ pc = "write" /\ pc' = "write" /\ UNCHANGED damages
    BY <1>1, <1>9 DEF WritePayload, TypeInv
  <2>2. disk'.header = disk.header /\ disk'.table = disk.table
    BY <1>9, <2>1 DEF WritePayload, Disks
  <2> QED
    BY <1>8, <2>1, <2>2
<1>10. CASE CloseOutput
  BY <1>8, <1>10 DEF CloseOutput
<1>11. CASE WriteFails
  <2>1. disk \in Disks /\ pc = "write" /\ pc' = "failed" /\ UNCHANGED damages
    BY <1>1, <1>11 DEF WriteFails, TypeInv
  <2>2. disk'.header = disk.header /\ disk'.table = disk.table
    BY <1>11, <2>1 DEF WriteFails, Disks
  <2> QED
    BY <1>8, <2>1, <2>2
<1>12. CASE LengthChanges \/ ByteChanges \/ HeaderChanges \/ EntryChanges
  <2>1. PICK kind \in DamageKinds : Changed(kind, disk') /\ Damage(kind, disk')
    BY <1>1, <1>12, DamageStep
  <2>2. pc = "ok" /\ UNCHANGED pc /\ damages' = Append(damages, kind)
    BY <2>1 DEF Damage
  <2>3. load_manifest(manifest) /\ Sealed(disk, SameIds)
    BY <2>2 DEF SealInv, Begun
  <2>4. SameIds' => SameIds /\ kind # "id"
    <3>1. damages \in Seq(DamageKinds) /\ Len(damages) \in Nat
      BY <1>1 DEF TypeOK, DamageKinds
    <3>2. /\ Len(damages') = Len(damages) + 1 /\ damages'[Len(damages) + 1] = kind
          /\ \A k \in 1 .. Len(damages) : damages'[k] = damages[k]
      BY <2>1, <2>2, <3>1
    <3> QED
      BY <3>1, <3>2 DEF SameIds
  <2>5. Sealed(disk', SameIds')
    BY <2>1, <2>3, <2>4 DEF Sealed, Changed
  <2>6. Sealed(disk, SameIds)'
    BY <1>1, <1>2, <2>5 DEF Sealed, crc32
  <2> QED
    BY <1>1, <1>2, <2>3, <2>6 DEF SealInv
<1>13. CASE UNCHANGED vars
  <2>1. SameIds' <=> SameIds
    BY <1>13 DEF vars, SameIds
  <2>2. Sealed(disk, SameIds) => Sealed(disk, SameIds)'
    BY <1>1, <1>2, <1>13, <2>1 DEF vars, Sealed, crc32
  <2> QED
    BY <1>1, <1>2, <1>13, <2>2 DEF vars, SealInv, Begun
<1> QED
  BY <1>4, <1>5, <1>6, <1>7, <1>9, <1>10, <1>11, <1>12, <1>13 DEF Next

\* What is known of a file that may be read.
LEMMA BegunDisk ==
    ASSUME SealInv, disk.len > 0
    PROVE  /\ Sealed(disk, SameIds) /\ disk \in Disks
           /\ load_manifest(manifest) /\ pc \in {"write", "ok", "failed"}
<1>1. disk # NoFile
  BY DEF NoFile
<1>2. TypeInv /\ pc \in {"load", "read", "header", "write", "ok", "failed"}
  BY DEF SealInv, TypeInv, TypeOK
<1>3. disk \in Disks /\ pc \in {"write", "ok", "failed"}
  BY <1>1, <1>2 DEF TypeInv
<1> QED
  BY <1>3 DEF SealInv, Begun

\* A payload with a checksum that holds is the packed one: the checksum of no
\* bytes is that of no payload which is not empty.
LEMMA SealedBytes ==
    ASSUME SealInv, disk.len > 0, NEW i \in 1 .. Len(manifest),
           EntryAt(disk, i).size # 0, ChecksumHolds(disk, EntryAt(disk, i))
    PROVE  Bytes(disk, EntryAt(disk, i).offset, EntryAt(disk, i).size) = Payload(i)
<1> DEFINE e == EntryAt(disk, i)
           bytes == Bytes(disk, e.offset, e.size)
<1>1. Sealed(disk, SameIds) /\ disk \in Disks
  BY BegunDisk
<1>2. e = disk.table[i] /\ e \in Entries
  BY <1>1 DEF EntryAt, Sealed, Disks
<1>3. e.crc \in {crc32(Payload(i)), crc32(<< >>)}
  BY <1>1, <1>2 DEF Sealed
<1>4. e.crc = crc32(bytes)
  BY DEF ChecksumHolds
<1>5. bytes # << >>
  <2>1. 1 \in 1 .. e.size
    BY <1>2 DEF Entries
  <2>2. DOMAIN bytes = 1 .. e.size
    BY DEF Bytes
  <2>3. DOMAIN << >> = {}
    OBVIOUS
  <2> HIDE DEF e, bytes
  <2> QED
    BY <2>1, <2>2, <2>3, Zenon
<1> HIDE DEF bytes
<1>6. bytes = Payload(i) \/ bytes = << >>
  BY <1>3, <1>4 DEF crc32
<1> QED
  BY <1>5, <1>6 DEF bytes

\* In a table that the provider accepts, an identifier names one entry.
LEMMA StagesEntry ==
    ASSUME NEW d, parse_image_entries(d), d.header.count \in Nat,
           NEW i \in 1 .. d.header.count
    PROVE  stage_module(d, EntryAt(d, i).id) = read_payload(d, EntryAt(d, i))
<1> DEFINE id == EntryAt(d, i).id
           Found == {j \in 1 .. d.header.count : EntryAt(d, j).id = id}
<1>1. \A k \in 1 .. d.header.count : \A j \in 1 .. k - 1 : EntryAt(d, j).id # EntryAt(d, k).id
  BY DEF parse_image_entries
<1>2. Found = {i}
  <2>1. ASSUME NEW j \in Found PROVE j = i
    <3>1. j \in 1 .. d.header.count /\ EntryAt(d, j).id = id
      OBVIOUS
    <3>2. CASE j < i
      BY <1>1, <3>1, <3>2
    <3>3. CASE i < j
      BY <1>1, <3>1, <3>3
    <3> QED
      BY <3>1, <3>2, <3>3
  <2> QED
    BY <2>1
<1>3. (CHOOSE k \in Found : \A j \in Found : k <= j) = i
  BY <1>2
<1>4. Found # {}
  BY <1>2
<1>5. stage_module(d, id) = IF ~parse_image_entries(d) \/ Found = {} THEN Error
        ELSE read_payload(d, EntryAt(d, CHOOSE k \in Found : \A j \in Found : k <= j))
  BY DEF stage_module
<1> HIDE DEF Found
<1> QED
  BY <1>3, <1>4, <1>5

\* A file that holds what the validator asks is one that the provider accepts, if
\* a long of the console can measure it.
LEMMA AcceptedIsParsed ==
    ASSUME NEW m, NEW d \in Disks, load_manifest(m), Len(m) \in Nat,
           Sized(d, EELongMax), HeaderHolds(d, d.header), d.header.count = Len(m),
           \A i \in 1 .. Len(m) : EntryHolds(m, d, i) /\ ChecksumHolds(d, EntryAt(d, i)),
           \A i \in 1 .. Len(m) : EntryAt(d, i) \in Entries
    PROVE  parse_image_entries(d)
<1>2. /\ Len(m) \in 1 .. MaxEntries /\ \A i \in 1 .. Len(m) : m[i].id # 0
      /\ \A i, j \in 1 .. Len(m) : m[i].id = m[j].id => i = j
  BY DEF load_manifest
<1>3. d.len \in Nat /\ d.header.payload_offset \in Nat
  BY DEF Disks, Headers, Words
<1>4. ASSUME NEW i \in 1 .. Len(m)
      PROVE  LET e == EntryAt(d, i)
             IN  /\ e.id = m[i].id /\ e.id # 0 /\ e.size # 0 /\ e.flags = 0
                 /\ e.offset >= d.header.payload_offset /\ e.offset <= d.len
                 /\ Aligned(e.offset) /\ e.size <= d.len - e.offset
  <2> DEFINE e == EntryAt(d, i)
  <2>1. /\ e.id = m[i].id /\ e.size # 0 /\ e.flags = 0
        /\ e.offset >= d.header.payload_offset /\ Aligned(e.offset)
        /\ e.offset + e.size <= d.len
    BY DEF EntryHolds, ChecksumHolds, InFile
  <2>2. e.offset \in Nat /\ e.size \in Nat
    BY DEF Entries, Words
  <2> QED
    BY <1>2, <1>3, <2>1, <2>2
<1>5. d.header.payload_offset <= d.len
  <2>1. 1 \in 1 .. Len(m) /\ EntryAt(d, 1).offset \in Nat
    BY <1>2 DEF Entries, Words
  <2> QED
    BY <1>3, <1>4, <2>1
<1>6. parse_header(d)
  BY <1>2, <1>5 DEF parse_header
<1>7. ASSUME NEW i \in 1 .. Len(m), NEW j \in 1 .. i - 1
      PROVE  EntryAt(d, j).id # EntryAt(d, i).id
  <2>1. j \in 1 .. Len(m) /\ j # i
    OBVIOUS
  <2> QED
    BY <1>2, <1>4, <2>1
<1> QED
  BY <1>4, <1>6, <1>7 DEF parse_image_entries

\* The manifests are sequences of lines.
LEMMA ManifestType ==
    ASSUME NEW m \in Manifests
    PROVE  m \in Seq([id : 0 .. Word - 1, file : Files]) /\ Len(m) \in Nat
<1> DEFINE S == [id : 0 .. Word - 1, file : Files]
<1>1. m \in Seq(S)
  BY ImageFormatAssumption
<1> HIDE DEF S
<1>2. Len(m) \in Nat
  BY <1>1
<1> QED
  BY <1>1, <1>2 DEF S

\* A file that the console can measure, and that holds what the validator asks of
\* the manifest that was packed, is staged byte for byte.
LEMMA HoldsExact ==
    ASSUME SealInv, disk.len > 0, manifest \in Manifests, load_manifest(manifest),
           Sized(disk, EELongMax), HeaderHolds(disk, disk.header),
           disk.header.count = Len(manifest),
           \A i \in 1 .. Len(manifest) :
              EntryHolds(manifest, disk, i) /\ ChecksumHolds(disk, EntryAt(disk, i))
    PROVE  Exact(disk)
<1>1. Sealed(disk, SameIds) /\ disk \in Disks /\ Len(manifest) \in Nat
  BY BegunDisk, ManifestType
<1>2. \A i \in 1 .. Len(manifest) :
         EntryAt(disk, i) = disk.table[i] /\ EntryAt(disk, i) \in Entries
  BY <1>1 DEF EntryAt, Sealed, Disks
<1>3. parse_image_entries(disk)
  BY <1>1, <1>2, AcceptedIsParsed
<1>4. ASSUME NEW i \in 1 .. Len(manifest)
      PROVE  stage_module(disk, manifest[i].id) = Payload(i)
  <2> DEFINE e == EntryAt(disk, i)
  <2>1. e.id = manifest[i].id /\ e.size # 0 /\ ChecksumHolds(disk, e)
    BY DEF EntryHolds
  <2>2. stage_module(disk, e.id) = read_payload(disk, e)
    BY <1>1, <1>3, StagesEntry
  <2>3. Bytes(disk, e.offset, e.size) = Payload(i)
    BY <1>1, <1>2, <2>1, SealedBytes
  <2> HIDE DEF e
  <2> QED
    BY <2>1, <2>2, <2>3 DEF read_payload
<1> QED
  BY <1>4 DEF Exact

\* Nothing is staged from a file that a long of the console cannot measure.
LEMMA TooLargeRefused ==
    ASSUME NEW d, ~(d.len <= EELongMax)
    PROVE  \A id : stage_module(d, id) = Error
<1>1. ~parse_image_entries(d)
  BY DEF parse_image_entries, parse_header, Sized
<1> QED
  BY <1>1 DEF stage_module

\* What the validator accepts is exact.
LEMMA SealExact == SealInv => ValidatedIsExact
<1> SUFFICES ASSUME SealInv, disk.len > 0, NEW m \in Manifests,
                    validate_image(m, disk) = "ok"
             PROVE  m = manifest /\ Provided(disk)
  BY DEF ValidatedIsExact
<1>1. Sealed(disk, SameIds) /\ disk \in Disks
  BY BegunDisk
<1>2. /\ validate_header(m, disk)
      /\ \A i \in 1 .. Len(m) :
            EntryHolds(m, disk, i) /\ ChecksumHolds(disk, EntryAt(disk, i))
  BY DEF validate_image
<1>3. m = manifest
  <2>1. crc32(m) \in {crc32(manifest), crc32(<< >>)}
    BY <1>1, <1>2 DEF validate_header, Sealed
  <2>2. Len(m) # 0
    BY <1>2, ManifestType DEF validate_header, load_manifest
  <2>3. m # << >>
    BY <2>2, ManifestType
  <2> QED
    BY <2>1, <2>3 DEF crc32
<1>4. CASE disk.len <= EELongMax
  <2>1. /\ load_manifest(m) /\ Sized(disk, HostLongMax)
        /\ HeaderHolds(disk, disk.header) /\ disk.header.count = Len(m)
    BY <1>2 DEF validate_header
  <2>2. Sized(disk, EELongMax)
    BY <1>4, <2>1 DEF Sized
  <2>3. Exact(disk)
    BY <1>2, <1>3, <2>1, <2>2, HoldsExact
  <2> QED
    BY <1>3, <1>4, <2>3 DEF Provided
<1>5. CASE ~(disk.len <= EELongMax)
  BY <1>3, <1>5, TooLargeRefused DEF Provided, Usable
<1> QED
  BY <1>4, <1>5

\* What the provider stages without the validator.
LEMMA SealStaged == SealInv => ExactOrRefused
<1> SUFFICES ASSUME SealInv, disk.len > 0, SameIds, NEW id \in Ids
             PROVE  LET bytes == stage_module(disk, id)
                    IN  bytes = Error \/ \E i \in 1 .. Len(manifest) :
                                            manifest[i].id = id /\ bytes = Payload(i)
  BY DEF ExactOrRefused, SameIds
<1>1. Sealed(disk, SameIds) /\ disk \in Disks
  BY BegunDisk
<1> DEFINE Found == {i \in 1 .. disk.header.count : EntryAt(disk, i).id = id}
<1>2. CASE ~parse_image_entries(disk) \/ Found = {}
  BY <1>2 DEF stage_module
<1>3. CASE parse_image_entries(disk) /\ Found # {}
  <2>1. PICK i \in 1 .. disk.header.count : EntryAt(disk, i).id = id
    BY <1>3
  <2>2. EntryAt(disk, i).id # 0 /\ EntryAt(disk, i).size # 0
    BY <1>3, <2>1 DEF parse_image_entries
  <2>3. i \in 1 .. Len(manifest) /\ EntryAt(disk, i) = disk.table[i]
    BY <1>1, <2>1, <2>2 DEF EntryAt, Sealed
  <2>4. manifest[i].id = id
    BY <1>1, <2>1, <2>3 DEF Sealed
  <2>5. stage_module(disk, id) = read_payload(disk, EntryAt(disk, i))
    <3>1. disk.header.count \in Nat
      BY <1>1 DEF Disks, Headers
    <3> QED
      BY <1>3, <2>1, <3>1, StagesEntry
  <2>6. CASE ChecksumHolds(disk, EntryAt(disk, i))
    <3>1. Bytes(disk, EntryAt(disk, i).offset, EntryAt(disk, i).size) = Payload(i)
      BY <2>2, <2>3, <2>6, SealedBytes
    <3> QED
      BY <2>3, <2>4, <2>5, <2>6, <3>1 DEF read_payload
  <2>7. CASE ~ChecksumHolds(disk, EntryAt(disk, i))
    BY <2>5, <2>7 DEF read_payload
  <2> QED
    BY <2>6, <2>7
<1> QED
  BY <1>2, <1>3

\* A manifest that the validator accepts the file with is the one that was packed,
\* and the provider then stages each module's own bytes, or none if the file is
\* too large for a long of the console, whatever happened to it, and however often.
THEOREM AcceptedIsExact == Spec => []ValidatedIsExact
BY InitSeal, NextSeal, SealExact, PTL DEF Spec

\* The provider stages a module's own bytes or nothing, as long as no identifier
\* was changed.
THEOREM StagedIsExact == Spec => []ExactOrRefused
BY InitSeal, NextSeal, SealStaged, PTL DEF Spec

-----------------------------------------------------------------------------
(* The places: where pack_image() puts the payloads.                       *)

\* The size of a payload and its place; behind the last one is the file's end.
Size(i) == sizeOf[manifest[i].file]
Pos(i)  == IF i <= Len(offsets) THEN offsets[i] ELSE cursor

\* The sum behind a payload has not wrapped before the n-th place.
Straight(n) == \A j \in 1 .. n : Pos(j) # 0

\* Each place is the next aligned one behind the payload before it, or zero when
\* the sum wraps; before that they ascend.
Placed ==
    /\ Pos(1) = payload_offset
    /\ \A i \in 1 .. Len(offsets) :
          /\ Size(i) > 0 /\ offsets[i] + Size(i) < Word
          /\ Pos(i + 1) = align_up_u32(offsets[i] + Size(i))
    /\ \A j \in 1 .. Len(offsets) + 1 :
          Straight(j) => \A i \in 1 .. j - 1 : Pos(i) < Pos(j)

PlaceInv ==
    /\ TypeInv
    /\ pc # "load" /\ load_manifest(manifest) => Placed

\* A place and its payload, in types.
LEMMA PlaceType ==
    ASSUME TypeOK
    PROVE  /\ Len(offsets) \in Nat /\ Len(manifest) \in Nat
           /\ \A i \in 1 .. Len(offsets) :
                 offsets[i] \in Words /\ offsets[i] \in Nat /\ Size(i) \in Nat
           /\ \A i \in Nat \ {0} : Pos(i) \in Words /\ Pos(i) \in Nat
<1>1. Len(offsets) \in Nat /\ Len(manifest) \in Nat /\ Len(offsets) <= Len(manifest)
  BY LineType DEF TypeOK
<1>2. \A i \in 1 .. Len(offsets) : offsets[i] \in Words
  BY <1>1 DEF TypeOK
<1>3. \A i \in 1 .. Len(offsets) : Size(i) \in Nat
  BY <1>1, LineType DEF TypeOK, Size
<1>4. cursor \in Words /\ Words \subseteq Nat
  BY DEF TypeOK, Words
<1> HIDE DEF Words
<1>5. ASSUME NEW i \in Nat \ {0} PROVE Pos(i) \in Words
  <2>1. CASE i <= Len(offsets)
    <3>1. i \in 1 .. Len(offsets)
      BY <1>1, <2>1
    <3> QED
      BY <1>2, <2>1, <3>1 DEF Pos
  <2>2. CASE ~(i <= Len(offsets))
    BY <1>4, <2>2 DEF Pos
  <2> QED
    BY <2>1, <2>2
<1> QED
  BY <1>1, <1>2, <1>3, <1>4, <1>5

\* Places that stay stay placed.
LEMMA PlacedStays ==
    ASSUME Placed, UNCHANGED <<manifest, sizeOf, offsets, cursor>>, payload_offset' = payload_offset
    PROVE  Placed'
BY DEF Placed, Pos, Size, Straight, align_up_u32, Add

\* The places hold when the next payload has been read.
LEMMA PlacedReads ==
    ASSUME TypeOK, Placed, Len(offsets) < Len(manifest),
           Size(Len(offsets) + 1) > 0, Size(Len(offsets) + 1) <= Word - 1 - cursor,
           offsets' = Append(offsets, cursor),
           cursor' = align_up_u32(Add(cursor, Size(Len(offsets) + 1))),
           UNCHANGED <<manifest, sizeOf>>, payload_offset' = payload_offset
    PROVE  Placed'
<1> DEFINE n    == Len(offsets)
           size == Size(n + 1)
           end  == cursor + size
<1>1. n \in Nat /\ offsets \in Seq(Words) /\ cursor \in Words /\ cursor \in Nat
  BY PlaceType DEF TypeOK, Words
<1>2. size \in Nat
  BY <1>1, LineType DEF TypeOK, Size
<1>3. end \in Words /\ end \in Nat /\ end > cursor /\ end < Word
  BY <1>1, <1>2, Constants DEF Words
<1>4. Add(cursor, size) = end
  <2>1. size \in Words
    BY <1>1, <1>2, Constants DEF Words
  <2>2. cursor + size < Word
    BY <1>3
  <2> HIDE DEF size
  <2> QED
    BY <1>1, <2>1, <2>2, AddWords DEF end
<1>5. cursor' = align_up_u32(end)
  BY <1>4
<1>6. cursor' \in Words /\ (cursor' # 0 => cursor' >= end)
  BY <1>3, <1>5, AlignUp
<1>7. /\ Len(offsets') = n + 1 /\ offsets'[n + 1] = cursor
      /\ \A i \in 1 .. n : offsets'[i] = offsets[i]
  BY <1>1
<1>8. /\ \A i \in 1 .. n + 1 : Pos(i)' = Pos(i)
      /\ Pos(n + 1) = cursor
      /\ \A i \in Nat : i > n + 1 => Pos(i)' = cursor'
  BY <1>1, <1>7 DEF Pos
<1>9. \A i : Size(i)' = Size(i)
  BY DEF Size
<1>10. Pos(1)' = payload_offset'
  BY <1>1, <1>8 DEF Placed
<1>11. ASSUME NEW i \in 1 .. n + 1
       PROVE  /\ Size(i)' > 0 /\ offsets'[i] + Size(i)' < Word
              /\ Pos(i + 1)' = align_up_u32(offsets'[i] + Size(i)')
  <2>1. CASE i \in 1 .. n
    <3>1. /\ Size(i) > 0 /\ offsets[i] + Size(i) < Word
          /\ Pos(i + 1) = align_up_u32(offsets[i] + Size(i))
      BY <2>1 DEF Placed
    <3>2. i + 1 \in 1 .. n + 1
      BY <1>1, <2>1
    <3> QED
      BY <1>7, <1>8, <1>9, <2>1, <3>1, <3>2
  <2>2. CASE i = n + 1
    <3>1. Pos(i + 1)' = cursor'
      BY <1>1, <1>8, <2>2
    <3>2. offsets'[i] + Size(i)' = end /\ Size(i)' > 0
      BY <1>7, <1>9, <2>2
    <3> QED
      BY <1>3, <1>5, <3>1, <3>2
  <2> QED
    BY <1>1, <2>1, <2>2
<1>12. ASSUME NEW j \in 1 .. n + 2, Straight(j)', NEW i \in 1 .. j - 1
       PROVE  Pos(i)' < Pos(j)'
  <2>1. CASE j \in 1 .. n + 1
    <3>1. \A k \in 1 .. j : k \in 1 .. n + 1
      BY <1>1, <2>1
    <3>2. Straight(j)
      BY <1>8, <1>12, <3>1 DEF Straight
    <3>3. Pos(i) < Pos(j)
      BY <2>1, <3>2 DEF Placed
    <3> QED
      BY <1>1, <1>8, <2>1, <3>3
  <2>2. CASE j = n + 2
    <3>0. Pos(j)' = cursor' /\ j \in 1 .. j
      BY <1>1, <1>8, <2>2
    <3>1. cursor' # 0
      BY <1>12, <3>0 DEF Straight
    <3>2. \A k \in 1 .. n + 1 : Pos(k) # 0
      BY <1>1, <1>8, <1>12, <2>2 DEF Straight
    <3>3. i \in 1 .. n + 1 /\ Pos(i) <= cursor
      <4>1. CASE i = n + 1
        BY <1>1, <1>8, <2>2, <4>1
      <4>2. CASE i \in 1 .. n
        <5>1. Straight(n + 1) /\ n + 1 \in 1 .. Len(offsets) + 1 /\ i \in 1 .. (n + 1) - 1
          BY <1>1, <3>2, <4>2 DEF Straight
        <5>2. Pos(i) < Pos(n + 1)
          BY <5>1 DEF Placed
        <5>3. Pos(i) \in Nat
          <6>1. i \in Nat \ {0}
            BY <1>1, <4>2
          <6> QED
            BY <6>1, PlaceType
        <5> QED
          BY <1>1, <1>8, <4>2, <5>2, <5>3
      <4> QED
        BY <1>1, <2>2, <4>1, <4>2
    <3>4. Pos(i) \in Nat /\ cursor' \in Nat
      <4>1. i \in Nat \ {0}
        BY <1>1, <3>3
      <4> QED
        BY <1>6, <4>1, PlaceType DEF Words
    <3> QED
      BY <1>1, <1>3, <1>6, <1>8, <3>0, <3>1, <3>3, <3>4
  <2> QED
    BY <1>1, <2>1, <2>2
<1>13. n + 2 = Len(offsets') + 1 /\ n + 1 = Len(offsets')
  BY <1>1, <1>7
<1>14. \A x : align_up_u32(x)' = align_up_u32(x)
  BY DEF align_up_u32, Add
<1> HIDE DEF n
<1> QED
  BY <1>10, <1>11, <1>12, <1>13, <1>14 DEF Placed

\* PlaceInv holds initially ...
LEMMA InitPlace == Init => PlaceInv
BY InitType DEF Init, PlaceInv

\* ... and every step preserves it.
LEMMA NextPlace == PlaceInv /\ [Next]_vars => PlaceInv'
<1> SUFFICES ASSUME PlaceInv, [Next]_vars PROVE PlaceInv'
  OBVIOUS
<1>1. TypeInv /\ TypeInv' /\ TypeOK /\ UNCHANGED <<manifest, sizeOf>>
      /\ (load_manifest(manifest)' <=> load_manifest(manifest))
      /\ payload_offset' = payload_offset
  BY NextType, GivenStays DEF PlaceInv, TypeInv
<1>2. ASSUME UNCHANGED <<offsets, cursor>>, pc # "load" \/ pc' = "load" PROVE PlaceInv'
  <2>1. Placed => Placed'
    BY <1>1, <1>2, PlacedStays
  <2> QED
    BY <1>1, <1>2, <2>1 DEF PlaceInv
<1>3. CASE LoadManifest
  <2>1. pc = "load" /\ offsets = << >> /\ offsets' = << >>
    BY <1>1, <1>3 DEF LoadManifest, Fail, TypeInv
  <2>2. CASE load_manifest(manifest)
    <3>1. cursor' = payload_offset' /\ Len(offsets') = 0
      BY <1>1, <1>3, <2>1, <2>2 DEF LoadManifest
    <3>2. Pos(1)' = payload_offset'
      BY <3>1 DEF Pos
    <3>3. Placed'
      BY <3>1, <3>2 DEF Placed
    <3> QED
      BY <1>1, <3>3 DEF PlaceInv
  <2>3. CASE ~load_manifest(manifest)
    BY <1>1, <2>3 DEF PlaceInv
  <2> QED
    BY <2>2, <2>3
<1>4. CASE ReadPayload
  <2>1. CASE Fail
    BY <1>2, <1>4, <2>1 DEF ReadPayload, Fail
  <2>2. CASE ~Fail
    <3>1. /\ pc = "read" /\ Len(offsets) < Len(manifest)
          /\ Size(Len(offsets) + 1) > 0 /\ Size(Len(offsets) + 1) <= Word - 1 - cursor
          /\ offsets' = Append(offsets, cursor)
          /\ cursor' = align_up_u32(Add(cursor, Size(Len(offsets) + 1)))
      BY <1>4, <2>2 DEF ReadPayload, Size
    <3>2. Placed => Placed'
      BY <1>1, <3>1, PlacedReads
    <3> QED
      BY <1>1, <3>1, <3>2 DEF PlaceInv
  <2> QED
    BY <2>1, <2>2
<1>5. CASE OpenOutput
  BY <1>2, <1>5 DEF OpenOutput, Fail
<1>6. CASE WriteHead \/ WritePayload \/ CloseOutput \/ WriteFails
  BY <1>2, <1>6 DEF WriteHead, WritePayload, CloseOutput, WriteFails
<1>7. CASE LengthChanges \/ ByteChanges \/ HeaderChanges \/ EntryChanges
  BY <1>2, <1>7 DEF LengthChanges, ByteChanges, HeaderChanges, EntryChanges, Damage
<1>8. CASE UNCHANGED vars
  BY <1>2, <1>8 DEF vars
<1> QED
  BY <1>3, <1>4, <1>5, <1>6, <1>7, <1>8 DEF Next

-----------------------------------------------------------------------------
(* The layout: what has been written, and where.                           *)

\* The difference of two words.
LEMMA SubWords ==
    ASSUME NEW v \in Words, NEW w \in Words
    PROVE  Sub(v, w) = IF v >= w THEN v - w ELSE v - w + Word
<1>1. v \in Nat /\ w \in Nat /\ v < Word /\ w < Word /\ Word \in Nat
  BY Constants DEF Words
<1>2. CASE v >= w
  <2> DEFINE x == v - w
  <2>1. x \in Nat /\ x < Word /\ x < 2 * Word
    BY <1>1, <1>2
  <2>2. Sub(v, w) = x % Word
    BY DEF Sub
  <2> HIDE DEF x
  <2>3. x % Word = x
    BY <1>1, <2>1
  <2> QED
    BY <1>2, <2>2, <2>3 DEF x
<1>3. CASE ~(v >= w)
  <2> DEFINE e == w - v
  <2>1. e \in Nat /\ 0 < e /\ e < Word /\ v - w = 0 - e
    BY <1>1, <1>3
  <2>2. Sub(v, w) = (0 - e) % Word
    BY <2>1 DEF Sub
  <2>3. v - w + Word = Word - e
    BY <1>1
  <2> HIDE DEF e
  <2>4. (0 - e) % Word = Word - e
    BY <1>1, <2>1
  <2> QED
    BY <1>3, <2>2, <2>3, <2>4
<1> QED
  BY <1>2, <1>3

\* What is written for a payload ends where the next one goes, or at the end of
\* the words when the sum wraps.
LEMMA PaddedEnd ==
    ASSUME TypeOK, Placed, NEW i \in 1 .. Len(offsets)
    PROVE  /\ Padded(i) \in Seq(Cells)
           /\ Pos(i + 1) # 0 => /\ offsets[i] + Len(Padded(i)) = Pos(i + 1)
                                /\ offsets[i] + Size(i) <= Pos(i + 1)
           /\ Pos(i + 1) = 0 => offsets[i] + Len(Padded(i)) = Word
           /\ \A k \in 1 .. Size(i) : Padded(i)[k] = Payload(i)[k]
           /\ Size(i) <= Len(Padded(i))
<1> DEFINE n   == Size(i)
           end == Add(offsets[i], n)
           up  == align_up_u32(end)
           gap == Sub(up, end)
<1>1. /\ offsets[i] \in Words /\ offsets[i] \in Nat /\ n \in Nat /\ Word \in Nat
  BY PlaceType, Constants
<1>2. n > 0 /\ offsets[i] + n < Word /\ Pos(i + 1) = align_up_u32(offsets[i] + n)
  BY DEF Placed
<1>3. /\ Padded(i) \in Seq(Cells) /\ gap \in Nat
      /\ Padded(i) = Payload(i) \o Zeros(gap)
      /\ Len(Padded(i)) = n + gap
  BY PaddedType DEF Size
<1>4. Payload(i) \in Seq(Cells) /\ Len(Payload(i)) = n
  <2>1. i \in 1 .. Len(manifest)
    BY PlaceType DEF TypeOK
  <2> QED
    BY <2>1, LineType DEF TypeOK, Size
<1>5. Zeros(gap) \in Seq(Cells)
  BY <1>3, ZerosType
<1> HIDE DEF n
<1>6. end = offsets[i] + n /\ end \in Words /\ end \in Nat /\ end > 0 /\ end < Word
  <2>1. n \in Words /\ offsets[i] + n \in Words /\ offsets[i] + n \in Nat
    BY <1>1, <1>2 DEF Words
  <2> QED
    BY <1>1, <1>2, <2>1, AddWords
<1>7. up = Pos(i + 1)
  BY <1>2, <1>6
<1> HIDE DEF end
<1>8. up \in Words /\ up \in Nat /\ (up >= end \/ up = 0)
  BY <1>6, AlignUp DEF Words
<1> HIDE DEF up
<1>9. gap = IF up >= end THEN up - end ELSE up - end + Word
  BY <1>6, <1>8, SubWords
<1> HIDE DEF gap
<1>10. \A k \in 1 .. n : Padded(i)[k] = Payload(i)[k]
  <2>1. \A k \in 1 .. Len(Payload(i)) + Len(Zeros(gap)) :
           (Payload(i) \o Zeros(gap))[k] =
              IF k <= Len(Payload(i)) THEN Payload(i)[k] ELSE Zeros(gap)[k - Len(Payload(i))]
    BY <1>4, <1>5, ConcatProperties
  <2>2. Len(Zeros(gap)) \in Nat
    BY <1>5
  <2> QED
    BY <1>1, <1>3, <1>4, <2>1, <2>2
<1>11. n <= Len(Padded(i))
  BY <1>1, <1>3
<1>12. /\ up # 0 => offsets[i] + Len(Padded(i)) = up /\ offsets[i] + n <= up
       /\ up = 0 => offsets[i] + Len(Padded(i)) = Word
  <2>1. CASE up >= end
    <3>1. up # 0 /\ gap = up - end /\ offsets[i] + n <= up
      BY <1>6, <1>8, <1>9, <2>1
    <3>2. gap = up - (offsets[i] + n)
      BY <1>6, <3>1
    <3>3. offsets[i] + (n + gap) = up
      <4>1. up \in Nat /\ n \in Nat /\ gap \in Nat /\ offsets[i] \in Nat
        BY <1>1, <1>3, <1>8
      <4> QED
        BY <3>2, <4>1
    <3> QED
      BY <1>3, <3>1, <3>3
  <2>2. CASE ~(up >= end)
    <3>1. up = 0 /\ gap = up - end + Word
      BY <1>8, <1>9, <2>2
    <3>2. gap = Word - (offsets[i] + n)
      BY <1>1, <1>6, <3>1
    <3>3. offsets[i] + (n + gap) = Word
      <4>1. n \in Nat /\ gap \in Nat /\ offsets[i] \in Nat /\ Word \in Nat
        BY <1>1, <1>3
      <4> QED
        BY <3>2, <4>1
    <3> QED
      BY <1>3, <3>1, <3>3
  <2> QED
    BY <2>1, <2>2
<1> QED
  BY <1>3, <1>7, <1>10, <1>11, <1>12 DEF n

\* The payloads that a body holds, each at its place.
Laid(body, w) ==
    \A j \in 1 .. w : \A k \in 1 .. Size(j) :
       body[offsets[j] - TableEnd(Len(manifest)) + k] = Payload(j)[k]

\* A body with w payloads ends at the next place, or behind what a word can say.
Follows(body, w) ==
    IF Straight(w + 1)
    THEN TableEnd(Len(manifest)) + Len(body) = Pos(w + 1) /\ Laid(body, w)
    ELSE TableEnd(Len(manifest)) + Len(body) >= Word

\* The next payload follows.
LEMMA WritesPayload ==
    ASSUME TypeOK, Placed, NEW w \in Nat, w + 1 \in 1 .. Len(offsets),
           payload_offset >= TableEnd(Len(manifest)),
           NEW body \in Seq(Cells), Follows(body, w)
    PROVE  Follows(body \o Padded(w + 1), w + 1)
<1> DEFINE T == TableEnd(Len(manifest))
           P == Padded(w + 1)
           b == body \o P
<1>1. T \in Nat /\ payload_offset \in Nat /\ Word \in Nat
  BY PlaceType, TableEndType, FirstPlaceType, Constants DEF Words
<1>2. P \in Seq(Cells) /\ Len(P) \in Nat /\ Len(body) \in Nat
  BY PaddedEnd
<1>3. /\ Len(b) = Len(body) + Len(P)
      /\ \A k \in 1 .. Len(body) + Len(P) :
            b[k] = IF k <= Len(body) THEN body[k] ELSE P[k - Len(body)]
  <2> HIDE DEF P
  <2> QED
    BY <1>2, ConcatProperties
<1>4. w + 1 \in Nat \ {0} /\ w + 2 \in Nat \ {0} /\ (w + 1) + 1 = w + 2
  OBVIOUS
<1>5. Pos(w + 1) = offsets[w + 1] /\ offsets[w + 1] \in Nat /\ Pos(w + 2) \in Nat
  BY <1>4, PlaceType DEF Pos
<1>6. /\ Pos(w + 2) # 0 => offsets[w + 1] + Len(P) = Pos(w + 2)
      /\ Pos(w + 2) = 0 => offsets[w + 1] + Len(P) = Word
      /\ \A k \in 1 .. Size(w + 1) : P[k] = Payload(w + 1)[k]
      /\ Size(w + 1) <= Len(P) /\ Size(w + 1) \in Nat
  BY <1>4, PaddedEnd, PlaceType
<1>7. Straight(w + 2) <=> Straight(w + 1) /\ Pos(w + 2) # 0
  <2>1. \A j \in 1 .. w + 2 : j \in 1 .. w + 1 \/ j = w + 2
    OBVIOUS
  <2>2. w + 2 \in 1 .. w + 2 /\ \A j \in 1 .. w + 1 : j \in 1 .. w + 2
    OBVIOUS
  <2> QED
    BY <2>1, <2>2 DEF Straight
<1>8. CASE ~Straight(w + 1)
  <2>1. T + Len(body) >= Word
    BY <1>8 DEF Follows
  <2>2. T + Len(b) >= Word
    BY <1>1, <1>2, <1>3, <2>1
  <2> HIDE DEF b, T
  <2> QED
    BY <1>4, <1>7, <1>8, <2>2 DEF Follows, T, b
<1>9. CASE Straight(w + 1)
  <2>1. T + Len(body) = offsets[w + 1] /\ Laid(body, w)
    BY <1>5, <1>9 DEF Follows
  <2>2. CASE Pos(w + 2) = 0
    <3>1. T + Len(b) >= Word
      BY <1>1, <1>2, <1>3, <1>5, <1>6, <2>1, <2>2
    <3> HIDE DEF b, T
    <3> QED
      BY <1>4, <1>7, <2>2, <3>1 DEF Follows, T, b
  <2>3. CASE Pos(w + 2) # 0
    <3>1. T + Len(b) = Pos(w + 2)
      BY <1>1, <1>2, <1>3, <1>5, <1>6, <2>1, <2>3
    <3>2. ASSUME NEW j \in 1 .. w + 1, NEW k \in 1 .. Size(j)
          PROVE  b[offsets[j] - T + k] = Payload(j)[k]
      <4>1. CASE j = w + 1
        <5>1. offsets[j] - T + k = Len(body) + k /\ k \in 1 .. Len(P)
          <6>1. offsets[j] = T + Len(body)
            BY <2>1, <4>1
          <6>2. k \in 1 .. Size(w + 1)
            BY <4>1
          <6>3. Size(w + 1) \in Nat /\ Size(w + 1) <= Len(P)
            BY <1>6
          <6> HIDE DEF T, P, b
          <6>4. k \in Nat /\ 1 <= k /\ k <= Len(P)
            BY <1>2, <6>2, <6>3
          <6> QED
            BY <1>1, <1>2, <6>1, <6>4
        <5>2. b[Len(body) + k] = P[k]
          BY <1>2, <1>3, <5>1
        <5> HIDE DEF b, P
        <5> QED
          BY <1>6, <4>1, <5>1, <5>2
      <4>2. CASE j \in 1 .. w
        <5>1. body[offsets[j] - T + k] = Payload(j)[k]
          BY <2>1, <4>2 DEF Laid
        <5>2. /\ j \in 1 .. Len(offsets) /\ j + 1 \in 1 .. w + 1
              /\ offsets[j] \in Nat /\ Size(j) \in Nat /\ Pos(j) = offsets[j]
          BY <4>2, PlaceType DEF Pos
        <5>3. Pos(j + 1) # 0 /\ offsets[j] + Size(j) <= Pos(j + 1)
          BY <1>9, <5>2, PaddedEnd DEF Straight
        <5>4. w + 1 \in 1 .. Len(offsets) + 1 /\ Pos(j + 1) \in Nat
          BY <5>2, PlaceType
        <5>5. Pos(j + 1) <= Pos(w + 1)
          <6>1. CASE j + 1 = w + 1
            BY <1>5, <6>1
          <6>2. CASE j + 1 \in 1 .. (w + 1) - 1
            <7>1. Pos(j + 1) < Pos(w + 1)
              BY <1>9, <5>4, <6>2 DEF Placed
            <7> QED
              BY <1>5, <5>4, <7>1
          <6> QED
            BY <5>2, <6>1, <6>2
        <5>6. offsets[j] >= payload_offset
          <6>1. CASE j = 1
            BY <1>1, <5>2, <6>1 DEF Placed
          <6>2. CASE j > 1
            <7>1. Straight(j) /\ 1 \in 1 .. j - 1 /\ j \in 1 .. Len(offsets) + 1
              BY <1>9, <4>2, <5>2, <6>2 DEF Straight
            <7>2. Pos(1) < Pos(j) /\ Pos(1) = payload_offset
              BY <7>1 DEF Placed
            <7> QED
              BY <1>1, <5>2, <7>2
          <6> QED
            BY <4>2, <6>1, <6>2
        <5>7. offsets[j] - T + k \in 1 .. Len(body)
          <6>1. k \in Nat /\ 1 <= k /\ k <= Size(j)
            BY <5>2
          <6>2. T + Len(body) = Pos(w + 1) /\ payload_offset >= T
            BY <1>5, <2>1
          <6> HIDE DEF T, P, b
          <6>3. offsets[j] + k <= T + Len(body)
            <7>1. offsets[j] + k <= offsets[j] + Size(j)
              BY <5>2, <6>1
            <7>2. offsets[j] + Size(j) <= T + Len(body)
              <8>1. Pos(j + 1) <= T + Len(body)
                BY <5>5, <6>2
              <8> QED
                BY <1>1, <1>2, <5>2, <5>3, <5>4, <8>1
            <7> QED
              BY <1>1, <1>2, <5>2, <6>1, <7>1, <7>2
          <6>4. offsets[j] - T + k >= 1
            <7>1. offsets[j] >= T
              BY <1>1, <5>2, <5>6, <6>2
            <7> QED
              BY <1>1, <5>2, <6>1, <7>1
          <6>5. T \in Nat /\ Len(body) \in Nat /\ offsets[j] \in Nat /\ k \in Nat
            BY <1>1, <1>2, <5>2, <6>1
          <6> QED
            BY <6>3, <6>4, <6>5
        <5>8. b[offsets[j] - T + k] = body[offsets[j] - T + k]
          BY <1>2, <1>3, <5>7
        <5> QED
          BY <5>1, <5>8
      <4>3. j = w + 1 \/ j \in 1 .. w
        OBVIOUS
      <4> HIDE DEF b, P, T
      <4> QED
        BY <4>1, <4>2, <4>3, Zenon
    <3>3. Laid(b, w + 1)
      BY <3>2 DEF Laid
    <3> HIDE DEF b, T
    <3> QED
      BY <1>4, <1>7, <1>9, <2>3, <3>1, <3>3 DEF Follows, T, b
  <2> QED
    BY <2>2, <2>3
<1> QED
  BY <1>8, <1>9

OnlyCut == \A k \in 1 .. Len(damages) : damages[k] = "length"

\* The file on the disk is what was written, or a first part of it.
Layout ==
    /\ Len(offsets) = Len(manifest)
    /\ disk.header = Header /\ disk.table = Table
    /\ disk.len <= WrittenLen
    /\ pc = "write" \/ (pc = "ok" /\ damages = << >>) => disk.len = WrittenLen
    /\ pc = "ok" => /\ written = Len(manifest)
                    /\ payload_offset >= TableEnd(Len(manifest))
    /\ payload_offset >= TableEnd(Len(manifest)) => Follows(disk.body, written)

LayoutInv ==
    /\ SealInv /\ PlaceInv
    /\ Begun /\ OnlyCut => Layout

\* The first place is in the words only when the table ends there.
LEMMA FirstFollows ==
    ASSUME TypeOK, Placed, payload_offset >= TableEnd(Len(manifest)),
           NEW body, Len(body) = payload_offset - TableEnd(Len(manifest))
    PROVE  Follows(body, 0)
<1>1. TableEnd(Len(manifest)) \in Nat /\ TableEnd(Len(manifest)) > 0 /\ payload_offset \in Nat
  BY PlaceType, TableEndType, FirstPlaceType, Constants DEF Words
<1>2. Pos(1) = payload_offset /\ Pos(1) # 0
  BY <1>1 DEF Placed
<1>3. Straight(0 + 1)
  BY <1>2 DEF Straight
<1>4. Laid(body, 0)
  BY DEF Laid
<1>5. TableEnd(Len(manifest)) + Len(body) = Pos(0 + 1)
  BY <1>1, <1>2
<1> QED
  BY <1>3, <1>4, <1>5 DEF Follows

\* What follows still follows when nothing of it changes.
LEMMA FollowsStays ==
    ASSUME UNCHANGED <<manifest, sizeOf, offsets, cursor>>
    PROVE  /\ Header' = Header /\ Table' = Table
           /\ Follows(disk.body', written') => Follows(disk.body, written)'
<1>1. Header' = Header
  BY DEF Header, payload_offset, TableEnd, align_up_u32, Add, crc32
<1>2. Table' = Table
  BY DEF Table, Entry, Payload, Content, crc32
<1>3. /\ \A i : Pos(i)' = Pos(i) /\ Size(i)' = Size(i) /\ Payload(i)' = Payload(i)
      /\ TableEnd(Len(manifest))' = TableEnd(Len(manifest))
  BY DEF Pos, Size, Payload, Content, TableEnd
<1>4. \A n : Straight(n)' <=> Straight(n)
  BY <1>3 DEF Straight
<1>5. ASSUME Follows(disk.body', written') PROVE Follows(disk.body, written)'
  <2>1. Straight(written' + 1) <=> Straight(written + 1)'
    BY <1>3 DEF Straight
  <2>2. Laid(disk.body', written') => Laid(disk.body, written)'
    BY <1>3 DEF Laid
  <2>3. Pos(written' + 1) = Pos(written + 1)'
    BY DEF Pos
  <2> QED
    BY <1>3, <1>5, <2>1, <2>2, <2>3 DEF Follows
<1> QED
  BY <1>1, <1>2, <1>5

\* LayoutInv holds initially ...
LEMMA InitLayout == Init => LayoutInv
<1> SUFFICES ASSUME Init PROVE LayoutInv
  OBVIOUS
<1>1. pc = "load" /\ disk.len = 0
  BY DEF Init, NoFile
<1> QED
  BY <1>1, InitSeal, InitPlace DEF LayoutInv, Begun

\* ... and every step preserves it.
LEMMA NextLayout == LayoutInv /\ [Next]_vars => LayoutInv'
<1> SUFFICES ASSUME LayoutInv, [Next]_vars PROVE LayoutInv'
  OBVIOUS
<1>1. /\ SealInv /\ SealInv' /\ PlaceInv /\ PlaceInv' /\ TypeInv /\ TypeOK
      /\ UNCHANGED <<manifest, sizeOf>> /\ payload_offset' = payload_offset
      /\ TableEnd(Len(manifest))' = TableEnd(Len(manifest))
  BY NextSeal, NextPlace, GivenStays DEF LayoutInv, SealInv, TypeInv, TableEnd
<1>2. ASSUME pc' \notin {"write", "ok"}, UNCHANGED disk, pc \in {"load", "read"}
      PROVE  LayoutInv'
  <2>1. disk'.len = 0
    BY <1>1, <1>2 DEF TypeInv, NoFile
  <2> QED
    BY <1>1, <1>2, <2>1 DEF LayoutInv, Begun
<1>3. CASE LoadManifest \/ ReadPayload \/ OpenOutput
  BY <1>2, <1>3 DEF LoadManifest, ReadPayload, OpenOutput, Fail
<1> DEFINE T == TableEnd(Len(manifest))
<1>4. T \in Nat /\ T' = T
  BY <1>1, PlaceType, TableEndType
<1> HIDE DEF T
<1>5. CASE WriteHead
  <2> DEFINE padding == Zeros(payload_offset - T)
  <2>1. /\ pc = "header" /\ pc' = "write" /\ Len(offsets) = Len(manifest) /\ written = 0
        /\ disk' = [len |-> T + Len(padding),
                    header |-> Header, table |-> Table, body |-> padding]
        /\ UNCHANGED <<manifest, sizeOf, offsets, cursor, written, damages>>
    BY <1>1, <1>5 DEF WriteHead, TypeInv, T
  <2>2. /\ disk'.len = T + Len(padding) /\ disk'.header = Header
        /\ disk'.table = Table /\ disk'.body = padding
    BY <2>1
  <2>3. Len(padding) \in Nat
        /\ (payload_offset >= T => Len(padding) = payload_offset - T)
    <3> DEFINE x == payload_offset - T
    <3>1. x \in Int /\ payload_offset \in Nat
      BY <1>1, <1>4, FirstPlaceType DEF Words
    <3>2. payload_offset >= T => x >= 0
      BY <1>4, <3>1
    <3> HIDE DEF x
    <3>3. Len(Zeros(x)) = IF x > 0 THEN x ELSE 0
      BY <3>1, ZerosType
    <3>4. Len(Zeros(x)) \in Nat /\ (x >= 0 => Len(Zeros(x)) = x)
      BY <3>1, <3>3
    <3> QED
      BY <3>2, <3>4 DEF x
  <2> HIDE DEF padding
  <2>4. WrittenLen' = T + Len(padding)
    BY <1>1, <2>1, <2>2, TableType DEF WrittenLen, TableEnd, T
  <2>5. Placed
    BY <1>1, <2>1 DEF PlaceInv, SealInv
  <2>6. payload_offset >= T => Follows(disk'.body, written')
    BY <1>1, <2>1, <2>2, <2>3, <2>5, FirstFollows DEF T
  <2>7. Layout'
    BY <1>1, <1>4, <2>1, <2>2, <2>3, <2>4, <2>6, FollowsStays DEF Layout, T
  <2> QED
    BY <1>1, <2>7 DEF LayoutInv
<1>6. CASE WritePayload
  <2> DEFINE P == Padded(written + 1)
  <2>1. /\ pc = "write" /\ pc' = "write" /\ written < Len(manifest) /\ written' = written + 1
        /\ payload_offset >= T /\ disk \in Disks /\ Len(offsets) = Len(manifest)
        /\ disk' = [disk EXCEPT !.len = @ + Len(P), !.body = @ \o P]
        /\ UNCHANGED <<manifest, sizeOf, offsets, cursor, damages>>
    BY <1>1, <1>6 DEF WritePayload, TypeInv, T
  <2>2. /\ disk'.len = disk.len + Len(P) /\ disk'.header = disk.header
        /\ disk'.table = disk.table /\ disk'.body = disk.body \o P
    BY <2>1 DEF Disks
  <2>3. written \in Nat /\ written + 1 \in 1 .. Len(offsets) /\ Placed
    <3>1. load_manifest(manifest)
      BY <1>1, <2>1 DEF SealInv
    <3>2. written \in 0 .. Len(offsets) /\ Len(offsets) \in Nat
      BY <1>1, PlaceType DEF TypeOK
    <3> QED
      BY <1>1, <2>1, <3>1, <3>2 DEF PlaceInv
  <2>4. P \in Seq(Cells) /\ Len(P) \in Nat
    BY <1>1, <2>3, PaddedEnd
  <2>5. /\ disk.body \in Seq(Cells) /\ Len(disk.body) \in Nat /\ disk.len \in Nat
        /\ Len(disk.table) \in Nat
    BY <2>1 DEF Disks
  <2>6. Len(disk.body \o P) = Len(disk.body) + Len(P)
    <3> HIDE DEF P
    <3> QED
      BY <2>4, <2>5, ConcatProperties
  <2>7. WrittenLen' = WrittenLen + Len(P) /\ WrittenLen \in Nat
    <3>1. TableEnd(Len(disk.table)) \in Nat
      BY <2>5, TableEndType
    <3>2. WrittenLen' = TableEnd(Len(disk.table)) + Len(disk.body \o P)
      BY <2>2 DEF WrittenLen, TableEnd
    <3> HIDE DEF P
    <3> QED
      BY <2>4, <2>5, <2>6, <3>1, <3>2 DEF WrittenLen
  <2>8. ASSUME OnlyCut PROVE Layout'
    <3>1. Layout
      BY <2>1, <2>8 DEF LayoutInv, Begun
    <3>2. Follows(disk'.body, written')
      BY <1>1, <2>1, <2>2, <2>3, <2>5, <3>1, WritesPayload DEF Layout, T
    <3>3. disk'.len = WrittenLen'
      <4> HIDE DEF P
      <4> QED
        BY <2>1, <2>2, <2>4, <2>5, <2>7, <3>1 DEF Layout
    <3>4. WrittenLen' \in Nat
      <4> HIDE DEF P
      <4> QED
        BY <2>4, <2>7
    <3>5. Follows(disk.body, written)' /\ Header' = Header /\ Table' = Table
      BY <1>1, <2>1, <3>2, FollowsStays
    <3> QED
      BY <1>1, <2>1, <2>2, <3>1, <3>3, <3>4, <3>5 DEF Layout
  <2>9. OnlyCut' => OnlyCut
    BY <2>1 DEF OnlyCut
  <2> QED
    BY <1>1, <2>8, <2>9 DEF LayoutInv
<1>7. ASSUME pc \in {"write", "ok"}, pc' \in {"write", "ok", "failed"},
             UNCHANGED <<offsets, cursor, written>>, OnlyCut' => OnlyCut,
             disk'.header = disk.header, disk'.table = disk.table,
             disk'.body = disk.body, disk'.len <= disk.len,
             pc' = "write" \/ (pc' = "ok" /\ damages' = << >>) =>
                /\ disk'.len = disk.len
                /\ pc = "write" \/ (pc = "ok" /\ damages = << >>),
             pc' = "ok" => \/ pc = "ok"
                           \/ /\ written = Len(manifest)
                              /\ payload_offset >= TableEnd(Len(manifest))
      PROVE  LayoutInv'
  <2>1. ASSUME OnlyCut PROVE Layout'
    <3>1. Layout
      BY <1>7, <2>1 DEF LayoutInv, Begun
    <3>2. WrittenLen' = WrittenLen /\ WrittenLen \in Nat /\ disk.len \in Nat
      <4>1. disk \in Disks
        BY <1>1, <1>7 DEF TypeInv
      <4>2. /\ Len(disk.body) \in Nat /\ disk.len \in Nat
            /\ TableEnd(Len(disk.table)) \in Nat
        BY <4>1, TableEndType DEF Disks
      <4> QED
        BY <1>7, <4>2 DEF WrittenLen, TableEnd
    <3>3. disk'.len <= WrittenLen'
      <4>1. disk'.len \in Nat
        BY <1>1 DEF SealInv, TypeInv, TypeOK
      <4> QED
        BY <1>7, <3>1, <3>2, <4>1 DEF Layout
    <3>4. payload_offset >= TableEnd(Len(manifest)) => Follows(disk'.body, written')
      BY <1>7, <3>1 DEF Layout
    <3>5. payload_offset >= TableEnd(Len(manifest)) => Follows(disk.body, written)'
      BY <1>1, <1>7, <3>4, FollowsStays
    <3>6. Header' = Header /\ Table' = Table
      BY <1>1, <1>7, FollowsStays
    <3> QED
      BY <1>1, <1>7, <3>1, <3>2, <3>3, <3>5, <3>6 DEF Layout
  <2> QED
    BY <1>1, <1>7, <2>1 DEF LayoutInv
<1>8. ASSUME UNCHANGED damages PROVE OnlyCut' => OnlyCut
  BY <1>8 DEF OnlyCut
<1>9. CASE CloseOutput
  <2>1. disk \in Disks /\ disk.len \in Nat
    BY <1>1, <1>9 DEF CloseOutput, TypeInv, Disks
  <2> QED
    BY <1>7, <1>8, <1>9, <2>1 DEF CloseOutput
<1>10. CASE WriteFails
  <2>1. /\ disk \in Disks /\ pc = "write" /\ pc' = "failed"
        /\ UNCHANGED <<offsets, cursor, written, damages>>
    BY <1>1, <1>10 DEF WriteFails, TypeInv
  <2>2. PICK n \in 0 .. disk.len : disk' = [disk EXCEPT !.len = n]
    BY <1>10 DEF WriteFails
  <2>3. /\ disk'.header = disk.header /\ disk'.table = disk.table
        /\ disk'.body = disk.body /\ disk'.len <= disk.len
    BY <2>1, <2>2 DEF Disks
  <2> QED
    BY <1>7, <1>8, <2>1, <2>3
<1>11. CASE LengthChanges \/ ByteChanges \/ HeaderChanges \/ EntryChanges
  <2>1. PICK kind \in DamageKinds : Changed(kind, disk') /\ Damage(kind, disk')
    BY <1>1, <1>11, DamageStep
  <2>2. /\ pc = "ok" /\ UNCHANGED <<pc, offsets, cursor, written>>
        /\ damages' = Append(damages, kind)
    BY <2>1 DEF Damage
  <2>3. /\ damages \in Seq(DamageKinds) /\ Len(damages) \in Nat
        /\ Len(damages') = Len(damages) + 1 /\ damages'[Len(damages) + 1] = kind
        /\ \A k \in 1 .. Len(damages) : damages'[k] = damages[k]
    <3>1. damages \in Seq(DamageKinds) /\ Len(damages) \in Nat
      BY <1>1 DEF TypeOK, DamageKinds
    <3> QED
      BY <2>1, <2>2, <3>1
  <2>4. damages' # << >>
    BY <2>3
  <2>5. OnlyCut' => OnlyCut /\ kind = "length"
    BY <2>3 DEF OnlyCut
  <2>6. CASE kind = "length"
    <3>1. /\ disk'.header = disk.header /\ disk'.table = disk.table
          /\ disk'.body = disk.body /\ disk'.len < disk.len
      BY <2>1, <2>6 DEF Changed
    <3>2. disk'.len <= disk.len
      <4>1. disk.len \in Nat /\ disk'.len \in Nat
        BY <1>1 DEF SealInv, TypeInv, TypeOK
      <4> QED
        BY <3>1, <4>1
    <3> QED
      BY <1>7, <2>2, <2>4, <2>5, <3>1, <3>2
  <2>7. CASE kind # "length"
    BY <1>1, <2>5, <2>7 DEF LayoutInv
  <2> QED
    BY <2>6, <2>7
<1>12. CASE UNCHANGED vars
  <2>1. UNCHANGED <<pc, offsets, cursor, written, disk, damages>>
    BY <1>12 DEF vars
  <2>2. Layout => Layout'
    <3>1. WrittenLen' = WrittenLen
      BY <2>1 DEF WrittenLen, TableEnd
    <3> QED
      BY <1>1, <2>1, <3>1, FollowsStays DEF Layout
  <2> QED
    BY <1>1, <1>8, <2>1, <2>2 DEF LayoutInv, Begun
<1> QED
  BY <1>3, <1>5, <1>6, <1>9, <1>10, <1>11, <1>12 DEF Next

-----------------------------------------------------------------------------
(* What the readers say of what was written.                               *)

\* Division keeps an order.
LEMMA DivBound ==
    ASSUME NEW p \in Nat, NEW a \in Nat \ {0}, NEW x \in Nat, p * a <= x
    PROVE  p <= x \div a
OBVIOUS

\* The least element of a set of numbers.
LEMMA Least ==
    ASSUME NEW S, S \subseteq Nat, S # {}
    PROVE  \E i \in S : \A j \in S : i <= j
<1>1. PICK i \in S : \A j \in S : ~(<<j, i>> \in OpToRel(<, Nat))
  BY WFMin, NatLessThanWellFounded, Zenon
<1>2. \A j \in S : ~(j < i)
  BY <1>1 DEF OpToRel
<1> QED
  BY <1>2

\* Places that have not wrapped ascend.
LEMMA Ascends ==
    ASSUME TypeOK, Placed, NEW n \in 1 .. Len(offsets) + 1, Straight(n),
           NEW i \in 1 .. n, NEW j \in i .. n
    PROVE  /\ payload_offset <= Pos(i) /\ Pos(i) <= Pos(j)
           /\ Pos(i) \in Nat /\ Pos(j) \in Nat /\ payload_offset \in Nat
<1>1. ASSUME NEW k \in 1 .. n, NEW l \in k .. n
      PROVE  Pos(k) \in Nat /\ Pos(l) \in Nat /\ Pos(k) <= Pos(l)
  <2>1. Len(offsets) \in Nat /\ k \in Nat \ {0} /\ l \in Nat \ {0}
    BY PlaceType
  <2>2. Pos(k) \in Nat /\ Pos(l) \in Nat
    BY <2>1, PlaceType
  <2>3. CASE k = l
    BY <2>2, <2>3
  <2>4. CASE k < l
    <3>1. /\ l \in 1 .. Len(offsets) + 1 /\ k \in 1 .. l - 1
          /\ \A m \in 1 .. l : m \in 1 .. n
      BY <2>1, <2>4
    <3>2. Straight(l)
      BY <3>1 DEF Straight
    <3>3. Pos(k) < Pos(l)
      BY <3>1, <3>2 DEF Placed
    <3> QED
      BY <2>2, <3>3
  <2> QED
    BY <2>1, <2>3, <2>4
<1>2. 1 \in 1 .. n /\ i \in 1 .. n
  OBVIOUS
<1>3. Pos(1) <= Pos(i) /\ Pos(1) \in Nat
  BY <1>1, <1>2
<1>4. Pos(1) = payload_offset
  BY DEF Placed
<1>5. Pos(i) \in Nat /\ Pos(j) \in Nat /\ Pos(i) <= Pos(j)
  BY <1>1
<1> QED
  BY <1>3, <1>4, <1>5

\* The entries on the disk are those of the payloads.
LEMMA EntriesRead ==
    ASSUME TypeOK, Len(offsets) = Len(manifest), disk.table = Table
    PROVE  /\ Len(disk.table) = Len(manifest)
           /\ \A i \in 1 .. Len(manifest) :
                 LET e == EntryAt(disk, i)
                 IN  /\ e.id = manifest[i].id /\ e.offset = offsets[i]
                     /\ e.offset = Pos(i) /\ e.offset \in Nat /\ e.offset \in Words
                     /\ e.size = Size(i) /\ e.size \in Nat
                     /\ e.crc = crc32(Payload(i)) /\ e.flags = 0
<1>1. Len(disk.table) = Len(manifest) /\ \A i \in 1 .. Len(manifest) : disk.table[i] = Entry(i)
  BY TableType
<1>2. \A i \in 1 .. Len(manifest) : EntryAt(disk, i) = Entry(i)
  BY <1>1 DEF EntryAt
<1>3. ASSUME NEW i \in 1 .. Len(manifest)
      PROVE  /\ Pos(i) = offsets[i] /\ offsets[i] \in Nat /\ offsets[i] \in Words
             /\ Size(i) \in Nat
  BY PlaceType DEF Pos
<1> QED
  BY <1>1, <1>2, <1>3 DEF Entry, Size

\* A payload is read from where it was laid.
LEMMA LaidBytes ==
    ASSUME TypeOK, Placed, Len(offsets) = Len(manifest), disk.table = Table,
           payload_offset >= TableEnd(Len(manifest)),
           Straight(Len(manifest) + 1), Laid(disk.body, Len(manifest)),
           NEW i \in 1 .. Len(manifest)
    PROVE  Bytes(disk, offsets[i], Size(i)) = Payload(i)
<1> DEFINE T == TableEnd(Len(manifest))
           n == Size(i)
           o == offsets[i]
<1>1. T \in Nat /\ o \in Nat /\ n \in Nat /\ Pos(i) = o /\ Len(manifest) \in Nat
  <2>1. Len(manifest) \in Nat
    BY PlaceType
  <2>2. T \in Nat
    BY <2>1, TableEndType
  <2>3. o \in Nat /\ n \in Nat /\ Pos(i) = o
    BY <2>1, PlaceType DEF Pos
  <2> QED
    BY <2>1, <2>2, <2>3
<1>2. T <= o
  <2>1. /\ Len(manifest) + 1 \in 1 .. Len(offsets) + 1
        /\ i \in 1 .. Len(manifest) + 1 /\ i \in i .. Len(manifest) + 1
    BY <1>1
  <2>2. payload_offset <= Pos(i) /\ payload_offset \in Nat
    BY <2>1, Ascends
  <2> QED
    BY <1>1, <2>2
<1>3. ASSUME NEW k \in 1 .. n PROVE CellAt(disk, o + k) = Payload(i)[k]
  <2>1. disk.body[o - T + k] = Payload(i)[k]
    BY <1>3 DEF Laid
  <2>2. TableEnd(Len(disk.table)) = T
    BY EntriesRead
  <2> HIDE DEF T, o, n
  <2>3. o + k > T /\ (o + k) - T = (o - T) + k
    BY <1>1, <1>2, <1>3
  <2>4. ASSUME NEW p, p > T PROVE CellAt(disk, p) = disk.body[p - T]
    BY <2>2, <2>4 DEF CellAt
  <2>5. CellAt(disk, o + k) = disk.body[(o + k) - T]
    BY <2>3, <2>4
  <2> QED
    BY <2>1, <2>3, <2>5, Zenon
<1>4. Payload(i) = [k \in 1 .. n |-> Payload(i)[k]]
  BY DEF Payload, Content, Size
<1> HIDE DEF n, o
<1>5. Bytes(disk, o, n) = [k \in 1 .. n |-> Payload(i)[k]]
  BY <1>3 DEF Bytes
<1> QED
  BY <1>4, <1>5 DEF n, o

\* Both readers refuse a file whose header does not hold.
LEMMA HeaderRefused ==
    ASSUME NEW m, NEW d,
           ~(d.len \in HeaderSize .. Word - 1) \/ ~HeaderHolds(d, d.header)
    PROVE  /\ validate_image(m, d) = "refused"
           /\ \A id : stage_module(d, id) = Error
<1>1. ~validate_header(m, d)
  BY DEF validate_header, Sized
<1>2. ~parse_image_entries(d)
  BY DEF parse_image_entries, parse_header, Sized
<1> QED
  BY <1>1, <1>2 DEF validate_image, stage_module

\* The header of a complete image holds.
LEMMA HeaderGood ==
    ASSUME TypeOK, NEW d, d.header = Header, d.len = cursor,
           payload_offset >= TableEnd(Len(manifest)), payload_offset <= cursor
    PROVE  d.len \in HeaderSize .. Word - 1 /\ HeaderHolds(d, d.header)
<1> DEFINE n == Len(manifest)
           p == n * EntrySize
<1>1. n \in Nat
  BY PlaceType
<1>2. p \in Nat
  BY <1>1, Constants DEF Words
<1>3. /\ payload_offset \in Nat /\ payload_offset < Word /\ cursor \in Nat /\ cursor < Word
      /\ Aligned(payload_offset) /\ Word \in Nat
  BY FirstPlaceType, Constants DEF TypeOK, Words
<1>4. HeaderSize \in Nat /\ EntrySize \in Nat \ {0} /\ HeaderSize < Word
  BY Constants DEF Words
<1>5. TableEnd(n) = HeaderSize + p
  BY DEF TableEnd
<1>6. n <= (Word - 1 - HeaderSize) \div EntrySize
  <2> DEFINE x == Word - 1 - HeaderSize
  <2>1. x \in Nat
    BY <1>3, <1>4
  <2>2. p <= x
    <3> HIDE DEF p
    <3> QED
      BY <1>2, <1>3, <1>4, <1>5
  <2> HIDE DEF x, n
  <2>3. n <= x \div EntrySize
    BY <1>1, <1>4, <2>1, <2>2, DivBound
  <2> QED
    BY <2>3 DEF x
<1>7. TableEnd(n) \in Nat /\ TableEnd(n) >= HeaderSize /\ TableEnd(n) <= cursor
  <2>1. TableEnd(n) \in Nat /\ TableEnd(n) >= HeaderSize
    BY <1>1, TableEndType
  <2> QED
    BY <1>3, <2>1
<1>8. d.len \in HeaderSize .. Word - 1
  BY <1>3, <1>4, <1>7
<1>9. /\ d.header.fixed = "v1" /\ d.header.file_size = d.len /\ d.header.count = n
      /\ d.header.payload_offset = payload_offset
  BY DEF Header
<1> HIDE DEF n
<1> QED
  BY <1>3, <1>6, <1>7, <1>8, <1>9 DEF HeaderHolds, n

\* The packer's own image is accepted, or refused when it does not fit a word.
LEMMA LayoutGood == LayoutInv => PackedIsGood
<1> SUFFICES ASSUME LayoutInv, pc = "ok", damages = << >>
             PROVE  /\ validate_image(manifest, disk) =
                          IF Fits /\ disk.len <= HostLongMax THEN "ok" ELSE "refused"
                    /\ IF Fits THEN Provided(disk) ELSE ~Usable(disk)
  BY DEF PackedIsGood
<1> DEFINE n == Len(manifest)
           T == TableEnd(n)
<1>1. Layout /\ SealInv /\ Placed /\ TypeOK /\ load_manifest(manifest) /\ disk \in Disks
  <2>1. OnlyCut
    BY DEF OnlyCut
  <2>2. /\ Layout /\ SealInv /\ PlaceInv /\ TypeInv /\ load_manifest(manifest)
    BY <2>1 DEF LayoutInv, Begun, SealInv
  <2> QED
    BY <2>2 DEF PlaceInv, TypeInv
<1>2. /\ Len(offsets) = n /\ disk.header = Header /\ disk.table = Table
      /\ disk.len = WrittenLen /\ payload_offset >= T /\ Follows(disk.body, n)
  BY <1>1 DEF Layout
<1>3. n \in Nat /\ T \in Nat /\ Word \in Nat /\ disk.len \in Nat
  BY <1>1, PlaceType, TableEndType, Constants DEF Disks
<1>4. WrittenLen = T + Len(disk.body)
  BY <1>1, <1>2, EntriesRead DEF WrittenLen
<1>5. CASE ~Straight(n + 1)
  <2>1. WrittenLen >= Word
    BY <1>2, <1>4, <1>5 DEF Follows
  <2>2. ~(disk.len \in HeaderSize .. Word - 1)
    BY <1>2, <1>3, <2>1
  <2>3. ~Fits
    BY <1>2, <1>3, <2>1 DEF Fits
  <2>4. validate_image(manifest, disk) = "refused" /\ \A id : stage_module(disk, id) = Error
    BY <2>2, HeaderRefused
  <2> QED
    BY <2>3, <2>4 DEF Usable
<1>6. CASE Straight(n + 1)
  <2>1. WrittenLen = Pos(n + 1) /\ Laid(disk.body, n)
    BY <1>2, <1>4, <1>6 DEF Follows
  <2>2. Pos(n + 1) = cursor /\ cursor \in Nat /\ cursor \in Words /\ cursor < Word
    BY <1>1, <1>2, <1>3 DEF Pos, TypeOK, Words
  <2>3. disk.len = cursor /\ Fits
    BY <1>2, <2>1, <2>2 DEF Fits
  <2>4. ASSUME NEW i \in 1 .. n + 1, NEW j \in i .. n + 1
        PROVE  /\ payload_offset <= Pos(i) /\ Pos(i) <= Pos(j)
               /\ Pos(i) \in Nat /\ Pos(j) \in Nat /\ payload_offset \in Nat
    <3>1. n + 1 \in 1 .. Len(offsets) + 1
      BY <1>2, <1>3
    <3> HIDE DEF n
    <3> QED
      BY <1>1, <1>6, <3>1, Ascends
  <2>5. payload_offset <= cursor /\ payload_offset \in Nat
    <3>1. n + 1 \in 1 .. n + 1 /\ n + 1 \in n + 1 .. n + 1
      BY <1>3
    <3> QED
      BY <2>2, <2>4, <3>1
  <2>6. /\ disk.len \in HeaderSize .. Word - 1 /\ HeaderHolds(disk, disk.header)
        /\ disk.header.count = n /\ disk.header.manifest_crc = crc32(manifest)
    <3>1. disk.len \in HeaderSize .. Word - 1 /\ HeaderHolds(disk, disk.header)
      BY <1>1, <1>2, <2>3, <2>5, HeaderGood
    <3>2. disk.header.count = n /\ disk.header.manifest_crc = crc32(manifest)
      BY <1>2 DEF Header
    <3> QED
      BY <3>1, <3>2
  <2>7. ASSUME NEW i \in 1 .. n
        PROVE  EntryHolds(manifest, disk, i) /\ ChecksumHolds(disk, EntryAt(disk, i))
    <3> DEFINE e == EntryAt(disk, i)
    <3>1. /\ e.id = manifest[i].id /\ e.offset = offsets[i] /\ e.offset = Pos(i)
          /\ e.offset \in Nat /\ e.offset \in Words
          /\ e.size = Size(i) /\ e.size \in Nat /\ e.crc = crc32(Payload(i)) /\ e.flags = 0
      BY <1>1, <1>2, EntriesRead
    <3>2. /\ i \in 1 .. Len(offsets) /\ i + 1 \in 1 .. n + 1 /\ i \in 1 .. n + 1
          /\ n + 1 \in i + 1 .. n + 1 /\ i \in i .. n + 1
      BY <1>2, <1>3
    <3>3. /\ Size(i) > 0 /\ offsets[i] + Size(i) <= Pos(i + 1)
      <4>1. Pos(i + 1) # 0
        BY <1>6, <3>2 DEF Straight
      <4> QED
        BY <1>1, <3>2, <4>1, PaddedEnd DEF Placed
    <3>4. e.offset + e.size <= cursor
      <4>1. Pos(i + 1) <= Pos(n + 1) /\ Pos(i + 1) \in Nat
        BY <2>4, <3>2
      <4> HIDE DEF e
      <4> QED
        BY <2>2, <3>1, <3>3, <4>1
    <3>5. e.size <= Sub(disk.len, e.offset)
      <4>1. Sub(disk.len, e.offset) = IF cursor >= e.offset THEN cursor - e.offset
                                      ELSE cursor - e.offset + Word
        BY <2>2, <2>3, <3>1, SubWords
      <4> HIDE DEF e
      <4> QED
        BY <2>2, <3>1, <3>4, <4>1
    <3>6. Aligned(e.offset) /\ e.offset >= payload_offset
      <4>1. Aligned(Pos(i))
        <5>1. CASE i = 1
          BY <1>1, <5>1, FirstPlaceType DEF Placed
        <5>2. CASE i > 1
          <6>1. i - 1 \in 1 .. Len(offsets) /\ (i - 1) + 1 = i
            BY <3>2, <5>2
          <6>2. Pos(i) = align_up_u32(offsets[i - 1] + Size(i - 1))
                /\ offsets[i - 1] + Size(i - 1) < Word
            BY <1>1, <6>1 DEF Placed
          <6>3. offsets[i - 1] + Size(i - 1) \in Words
            <7>1. offsets[i - 1] \in Nat /\ Size(i - 1) \in Nat
              BY <1>1, <6>1, PlaceType
            <7> QED
              BY <1>3, <6>2, <7>1 DEF Words
          <6> QED
            BY <6>2, <6>3, AlignUp
        <5> QED
          BY <5>1, <5>2
      <4> QED
        BY <2>4, <3>1, <3>2, <4>1
    <3>7. i # 1 => e.offset >= Add(EntryAt(disk, i - 1).offset, EntryAt(disk, i - 1).size)
      <4> SUFFICES ASSUME i # 1
                   PROVE  e.offset >= Add(EntryAt(disk, i - 1).offset, EntryAt(disk, i - 1).size)
        OBVIOUS
      <4>1. i - 1 \in 1 .. n /\ i - 1 \in 1 .. Len(offsets) /\ (i - 1) + 1 = i
        BY <1>2, <3>2
      <4>2. /\ EntryAt(disk, i - 1).offset = offsets[i - 1]
            /\ EntryAt(disk, i - 1).size = Size(i - 1)
        BY <1>1, <1>2, <4>1, EntriesRead
      <4>3. /\ offsets[i - 1] + Size(i - 1) < Word
            /\ offsets[i - 1] \in Nat /\ offsets[i - 1] \in Words /\ Size(i - 1) \in Nat
        BY <1>1, <4>1, PlaceType DEF Placed
      <4>4. offsets[i - 1] + Size(i - 1) <= Pos(i)
        <5>1. Pos(i) # 0
          BY <1>6, <3>2 DEF Straight
        <5> QED
          BY <1>1, <4>1, <5>1, PaddedEnd
      <4>5. Add(offsets[i - 1], Size(i - 1)) = offsets[i - 1] + Size(i - 1)
        <5>1. Size(i - 1) \in Words
          BY <1>3, <4>3 DEF Words
        <5> QED
          BY <4>3, <5>1, AddWords
      <4> HIDE DEF e
      <4> QED
        BY <3>1, <4>2, <4>3, <4>4, <4>5
    <3>8. disk.header.payload_offset = payload_offset
      BY <1>2 DEF Header
    <3>9. EntryHolds(manifest, disk, i)
      <4>1. e.size # 0
        BY <3>1, <3>3
      <4> QED
        BY <3>1, <3>5, <3>6, <3>7, <3>8, <4>1 DEF EntryHolds
    <3>10. Bytes(disk, offsets[i], Size(i)) = Payload(i)
      BY <1>1, <1>2, <1>6, <2>1, LaidBytes
    <3>11. ChecksumHolds(disk, e)
      BY <2>3, <3>1, <3>4, <3>10 DEF ChecksumHolds, InFile
    <3> QED
      BY <3>9, <3>11
  <2>8. validate_image(manifest, disk) =
           IF disk.len <= HostLongMax THEN "ok" ELSE "refused"
    <3>1. CASE disk.len <= HostLongMax
      <4>1. validate_header(manifest, disk)
        BY <1>1, <2>6, <3>1 DEF validate_header, Sized
      <4> QED
        BY <2>7, <3>1, <4>1 DEF validate_image
    <3>2. CASE ~(disk.len <= HostLongMax)
      BY <3>2 DEF validate_image, validate_header, Sized
    <3> QED
      BY <3>1, <3>2
  <2>9. Provided(disk)
    <3>1. CASE disk.len <= EELongMax
      <4>1. Sized(disk, EELongMax)
        BY <2>6, <3>1 DEF Sized
      <4>2. manifest \in Manifests /\ disk.len > 0
        BY <1>1, <2>6, Constants DEF TypeOK, Words
      <4>3. Exact(disk)
        BY <1>1, <2>6, <2>7, <4>1, <4>2, HoldsExact
      <4> QED
        BY <3>1, <4>3 DEF Provided
    <3>2. CASE ~(disk.len <= EELongMax)
      BY <3>2, TooLargeRefused DEF Provided, Usable
    <3> QED
      BY <3>1, <3>2
  <2> QED
    BY <2>3, <2>8, <2>9
<1> QED
  BY <1>5, <1>6

\* pack_image() makes an image that the validator accepts and that stages every
\* module, where a long of either reader can measure it, or, when it does not fit
\* a word, one that both refuse.
THEOREM PackedGood == Spec => []PackedIsGood
BY InitLayout, NextLayout, LayoutGood, PTL DEF Spec

\* What the provider asks of every entry, one refuses.
LEMMA EntryRefused ==
    ASSUME NEW d, NEW i \in 1 .. d.header.count,
           ~(EntryAt(d, i).offset >= d.header.payload_offset)
    PROVE  \A id : stage_module(d, id) = Error
<1>1. ~parse_image_entries(d)
  BY DEF parse_image_entries
<1> QED
  BY <1>1 DEF stage_module

\* The first entry that is not good is one that the validator refuses, and not one
\* that lies outside the file: the payload before it ends in the file, and the
\* file ends at an aligned place.
LEMMA FirstBad ==
    ASSUME TypeOK, Placed, disk \in Disks, Len(offsets) = Len(manifest),
           disk.header = Header, disk.table = Table, disk.len = cursor,
           Aligned(cursor), TableEnd(Len(manifest)) <= cursor,
           NEW f \in 1 .. Len(manifest), EntryHolds(manifest, disk, f),
           \A i \in 1 .. f - 1 : ChecksumHolds(disk, EntryAt(disk, i))
    PROVE  InFile(disk, EntryAt(disk, f).offset, EntryAt(disk, f).size)
<1> DEFINE e == EntryAt(disk, f)
           T == TableEnd(Len(manifest))
<1>1. /\ e.offset = Pos(f) /\ e.offset \in Nat /\ e.offset \in Words /\ e.size \in Nat
  BY EntriesRead
<1>2. cursor \in Words /\ cursor \in Nat /\ cursor < Word /\ Word \in Nat
      /\ Len(manifest) \in Nat
  BY PlaceType, Constants DEF TypeOK, Words
<1>3. e.offset <= cursor
  <2>1. CASE f = 1
    <3>1. Pos(f) = align_up_u32(T % Word)
      BY <2>1 DEF Placed, payload_offset
    <3>2. T \in Nat /\ T < Word
      BY <1>2, TableEndType
    <3> HIDE DEF T
    <3>3. T % Word = T
      BY <1>2, <3>2
    <3>4. T \in Words
      BY <1>2, <3>2 DEF Words
    <3>5. align_up_u32(T) <= cursor
      BY <1>2, <3>4, AlignUp DEF T
    <3> QED
      BY <1>1, <3>1, <3>3, <3>5
  <2>2. CASE f > 1
    <3>1. f - 1 \in 1 .. Len(manifest) /\ f - 1 \in 1 .. Len(offsets) /\ (f - 1) + 1 = f
          /\ f - 1 \in 1 .. f - 1
      BY <1>2, <2>2
    <3> DEFINE end == offsets[f - 1] + Size(f - 1)
    <3>2. end < Word /\ Pos(f) = align_up_u32(end)
      BY <3>1 DEF Placed
    <3>3. offsets[f - 1] \in Nat /\ Size(f - 1) \in Nat
      BY <3>1, PlaceType
    <3>4. end \in Words
      BY <1>2, <3>2, <3>3 DEF Words
    <3>5. end <= cursor
      <4>1. ChecksumHolds(disk, EntryAt(disk, f - 1))
        BY <3>1
      <4>2. InFile(disk, EntryAt(disk, f - 1).offset, EntryAt(disk, f - 1).size)
        BY <4>1 DEF ChecksumHolds
      <4>3. /\ EntryAt(disk, f - 1).offset = offsets[f - 1]
            /\ EntryAt(disk, f - 1).size = Size(f - 1)
        BY <3>1, EntriesRead
      <4> QED
        BY <4>2, <4>3 DEF InFile
    <3> HIDE DEF end
    <3>6. align_up_u32(end) <= cursor
      BY <1>2, <3>4, <3>5, AlignUp
    <3> QED
      BY <1>1, <3>2, <3>6
  <2> QED
    BY <2>1, <2>2
<1>4. e.size <= Sub(cursor, e.offset)
  BY DEF EntryHolds
<1>5. Sub(cursor, e.offset) = cursor - e.offset
  <2> HIDE DEF e
  <2> QED
    BY <1>1, <1>2, <1>3, SubWords
<1> HIDE DEF e
<1>6. e.offset + e.size <= cursor
  BY <1>1, <1>2, <1>3, <1>4, <1>5
<1> QED
  BY <1>6 DEF InFile, e

\* The end of the file is an aligned place.
LEMMA CursorAligned ==
    ASSUME TypeOK, Placed
    PROVE  Aligned(cursor)
<1> DEFINE n == Len(offsets)
<1>1. n \in Nat
  BY PlaceType
<1>2. Pos(n + 1) = cursor
  BY <1>1 DEF Pos
<1>3. CASE n = 0
  BY <1>2, <1>3, FirstPlaceType DEF Placed
<1>4. CASE n > 0
  <2>1. n \in 1 .. n /\ offsets[n] \in Nat /\ Size(n) \in Nat
    BY <1>1, <1>4, PlaceType
  <2>2. Pos(n + 1) = align_up_u32(offsets[n] + Size(n)) /\ offsets[n] + Size(n) < Word
    BY <2>1 DEF Placed
  <2>3. offsets[n] + Size(n) \in Words
    BY <2>1, <2>2, Constants DEF Words
  <2> QED
    BY <1>2, <2>2, <2>3, AlignUp
<1> QED
  BY <1>1, <1>3, <1>4

\* A torn image is refused.
LEMMA LayoutTorn == LayoutInv => TornRefused
<1> SUFFICES ASSUME LayoutInv, disk.len > 0, Torn, OnlyCut, Returned
             PROVE  validate_image(manifest, disk) = "refused" /\ ~Usable(disk)
  BY DEF TornRefused, OnlyCut
<1> DEFINE n == Len(manifest)
           T == TableEnd(n)
<1>1. Layout /\ Placed /\ TypeOK /\ load_manifest(manifest) /\ disk \in Disks
  <2>1. SealInv /\ PlaceInv /\ Layout
    BY DEF LayoutInv, Begun
  <2>2. TypeInv /\ TypeOK
    BY <2>1 DEF SealInv, TypeInv
  <2>3. load_manifest(manifest) /\ disk \in Disks /\ pc # "load"
    BY <2>1, BegunDisk
  <2> QED
    BY <2>1, <2>2, <2>3 DEF PlaceInv
<1>2. /\ Len(offsets) = n /\ disk.header = Header /\ disk.table = Table
      /\ disk.len <= WrittenLen /\ (payload_offset >= T => Follows(disk.body, written))
  BY <1>1 DEF Layout
<1>3. /\ n \in Nat /\ T \in Nat /\ T > 0 /\ disk.len \in Nat /\ cursor \in Nat
      /\ cursor < Word /\ payload_offset \in Nat /\ written \in 0 .. n
      /\ Word \in Nat
  <2>1. n \in Nat
    BY <1>1, PlaceType
  <2>2. T \in Nat /\ T > 0
    BY <2>1, TableEndType, Constants DEF Words
  <2> QED
    BY <1>1, <1>2, <2>1, <2>2, FirstPlaceType, Constants DEF TypeOK, Words, Disks
<1>4. CASE ~HeaderHolds(disk, disk.header)
  BY <1>4, HeaderRefused DEF Usable
<1>5. CASE HeaderHolds(disk, disk.header)
  <2>1. disk.len = cursor /\ payload_offset >= T /\ T <= cursor
    BY <1>2, <1>5 DEF HeaderHolds, Header
  <2>2. Follows(disk.body, written) /\ WrittenLen = T + Len(disk.body)
    BY <1>1, <1>2, <2>1, EntriesRead DEF WrittenLen
  <2>3. Pos(n + 1) = cursor
    BY <1>2, <1>3 DEF Pos
  <2>4. ~Straight(n + 1)
    <3> SUFFICES ASSUME Straight(n + 1) PROVE FALSE
      OBVIOUS
    <3>1. Straight(written + 1)
      <4>1. \A j \in 1 .. written + 1 : j \in 1 .. n + 1
        BY <1>3
      <4> QED
        BY <4>1 DEF Straight
    <3>2. WrittenLen = Pos(written + 1)
      BY <2>2, <3>1 DEF Follows
    <3>3. CASE written < n
      <4>1. written + 1 \in 1 .. (n + 1) - 1 /\ n + 1 \in 1 .. Len(offsets) + 1
        BY <1>2, <1>3, <3>3
      <4>2. Pos(written + 1) < Pos(n + 1)
        BY <1>1, <4>1 DEF Placed
      <4>3. Pos(written + 1) \in Nat
        BY <1>1, <4>1, PlaceType
      <4> QED
        BY <1>2, <1>3, <2>1, <2>3, <3>2, <4>2, <4>3
    <3>4. CASE written = n
      BY <1>3, <2>1, <2>3, <3>2, <3>4 DEF Torn
    <3> QED
      BY <1>3, <3>3, <3>4
  <2>5. PICK j \in 1 .. n + 1 : Pos(j) = 0
    BY <2>4 DEF Straight
  <2>6. j \in 1 .. n
    BY <1>3, <2>1, <2>3, <2>5
  <2>7. /\ EntryAt(disk, j).offset = 0 /\ disk.header.count = n
        /\ disk.header.payload_offset = payload_offset
    BY <1>1, <1>2, <2>5, <2>6, EntriesRead DEF Header
  <2>8. ~(EntryAt(disk, j).offset >= disk.header.payload_offset)
    BY <1>3, <2>1, <2>7
  <2>9. ~Usable(disk)
    BY <2>6, <2>7, <2>8, EntryRefused DEF Usable
  <2>10. validate_image(manifest, disk) = "refused"
    <3> DEFINE Good(i) == EntryHolds(manifest, disk, i) /\ ChecksumHolds(disk, EntryAt(disk, i))
               Bad     == {i \in 1 .. Len(manifest) : ~Good(i)}
               first   == CHOOSE i \in Bad : \A k \in Bad : i <= k
    <3>1. validate_image(manifest, disk) =
             IF ~validate_header(manifest, disk) THEN "refused"
             ELSE IF Bad = {} THEN "ok"
             ELSE IF /\ EntryHolds(manifest, disk, first)
                     /\ ~InFile(disk, EntryAt(disk, first).offset, EntryAt(disk, first).size)
                  THEN "undefined" ELSE "refused"
      BY DEF validate_image
    <3>2. j \in Bad
      BY <2>6, <2>8 DEF EntryHolds
    <3>3. first \in Bad /\ \A k \in Bad : first <= k
      <4>1. Bad \subseteq Nat /\ Bad # {}
        BY <3>2
      <4> HIDE DEF Bad
      <4>2. \E i \in Bad : \A k \in Bad : i <= k
        BY <4>1, Least
      <4> QED
        BY <4>2
    <3> HIDE DEF first
    <3>4. first \in 1 .. n /\ \A i \in 1 .. first - 1 : ChecksumHolds(disk, EntryAt(disk, i))
      <4>1. first \in 1 .. n
        BY <3>3
      <4>2. ASSUME NEW i \in 1 .. first - 1 PROVE Good(i)
        <5>1. i \in 1 .. Len(manifest) /\ ~(first <= i)
          BY <1>3, <4>1
        <5> HIDE DEF Good
        <5> QED
          BY <3>3, <5>1
      <4> QED
        BY <4>1, <4>2
    <3>5. EntryHolds(manifest, disk, first) =>
             InFile(disk, EntryAt(disk, first).offset, EntryAt(disk, first).size)
      BY <1>1, <1>2, <2>1, <3>4, FirstBad, CursorAligned
    <3> HIDE DEF Bad, Good
    <3> QED
      BY <3>1, <3>2, <3>5
  <2> QED
    BY <2>9, <2>10
<1> QED
  BY <1>4, <1>5

\* An image that was not written to its end, or was cut afterwards, is refused by
\* both readers, wherever it ends.
THEOREM TornIsRefused == Spec => []TornRefused
BY InitLayout, NextLayout, LayoutTorn, PTL DEF Spec

=============================================================================

---------------------------- MODULE ImageFormat ----------------------------
(***************************************************************************)
(* The image file: pack_image() of tools/ps2_irximg.c writes it, the       *)
(* validator of that tool and the provider of ps2_drivers_img.c read it.   *)
(*                                                                         *)
(* A file is its length and what was written at each place: a header, a    *)
(* table, and the body behind them, one cell per byte.  What lies past the *)
(* length is not on the disk.  Offsets and sizes are words, and wrap.  The *)
(* six header fields that are compared with constants are one, "fixed".    *)
(***************************************************************************)
EXTENDS Integers, Sequences

CONSTANTS
    Manifests,   \* manifest files: sequences of lines [id, file]
    Files,       \* IRX files
    Sizes,       \* their sizes in bytes
    HeaderSize, EntrySize, Alignment, MaxEntries,    \* IRXIMG_*
    Word,        \* UINT32_MAX + 1
    HostLongMax, \* LONG_MAX where the tool runs: each reader of a file
    EELongMax,   \* and on the console            takes its size from ftell()
    MaxDamages   \* bound: changes made to the file after it was packed

ASSUME ImageFormatAssumption ==
    /\ HeaderSize \in 1 .. Word - 1 /\ EntrySize \in 1 .. Word - 1
    /\ Word \in Nat /\ Alignment \in 1 .. Word /\ Word % Alignment = 0
    /\ MaxEntries \in Nat /\ MaxDamages \in Nat /\ Sizes \subseteq Nat
    /\ HostLongMax \in Nat /\ EELongMax \in Nat
    /\ Manifests \subseteq Seq([id : 0 .. Word - 1, file : Files])

VARIABLES
    manifest,  \* what the packer was given: the manifest and
    sizeOf,    \* the size of each IRX file (constants of a behaviour)
    pc,        \* where pack_image() is; "ok" and "failed" when it has returned
    offsets,   \* the offsets of the payloads read so far
    cursor,    \* where the next one goes
    written,   \* how many payloads have been written
    disk,      \* the image file
    damages    \* what happened to it since: "id", "field", "byte", "length"

vars == <<manifest, sizeOf, pc, offsets, cursor, written, disk, damages>>

-----------------------------------------------------------------------------
(* Words, manifests and checksums.                                         *)

Add(a, b) == (a + b) % Word
Sub(a, b) == (a - b) % Word

\* Slip: the sum is wider than a word.
align_up_u32_Wide(value) == ((value + Alignment - 1) \div Alignment) * Alignment

align_up_u32(value) == (Add(value, Alignment - 1) \div Alignment) * Alignment

Aligned(value) == value % Alignment = 0

\* A checksum tells contents apart: no collision happens.
crc32(content) == <<"crc32", content>>

\* load_manifest(): a line that does not parse is one whose id is 0.
load_manifest(m) ==
    /\ Len(m) \in 1 .. MaxEntries
    /\ \A i \in 1 .. Len(m) : m[i].id # 0
    /\ \A i, j \in 1 .. Len(m) : m[i].id = m[j].id => i = j

\* The answer of a call that found nothing to stage: no payload is empty.
Error == << >>

Content(file) == [k \in 1 .. sizeOf[file] |-> <<file, k>>]
Zeros(n)      == [k \in 1 .. n |-> <<"zero", 0>>]

Payload(i) == Content(manifest[i].file)

-----------------------------------------------------------------------------
(* pack_image()                                                            *)

TableEnd(count) == HeaderSize + count * EntrySize
payload_offset  == align_up_u32(TableEnd(Len(manifest)) % Word)

NoFile == [len |-> 0, header |-> << >>, table |-> << >>, body |-> << >>]

Fail == pc' = "failed" /\ UNCHANGED <<offsets, cursor>>

LoadManifest ==
    /\ pc = "load"
    /\ IF load_manifest(manifest)
       THEN pc' = "read" /\ cursor' = payload_offset /\ UNCHANGED offsets
       ELSE Fail
    /\ UNCHANGED <<manifest, sizeOf, written, disk, damages>>

\* read_file() refuses a file that is empty, not there, or larger than a long or
\* a word can say; any of its calls may fail; so must the image fit a word.
ReadPayload ==
    /\ pc = "read" /\ Len(offsets) < Len(manifest)
    /\ LET size == sizeOf[manifest[Len(offsets) + 1].file]
       IN  \/ /\ size > 0 /\ size <= HostLongMax /\ size <= Word - 1 - cursor
              /\ offsets' = Append(offsets, cursor)
              /\ cursor' = align_up_u32(Add(cursor, size))
              /\ UNCHANGED pc
           \/ Fail
    /\ UNCHANGED <<manifest, sizeOf, written, disk, damages>>

OpenOutput ==
    /\ pc = "read" /\ Len(offsets) = Len(manifest)
    /\ \/ pc' = "header" /\ UNCHANGED <<offsets, cursor>>
       \/ Fail
    /\ UNCHANGED <<manifest, sizeOf, written, disk, damages>>

Header ==
    [fixed |-> "v1", count |-> Len(manifest), payload_offset |-> payload_offset,
     file_size |-> cursor, manifest_crc |-> crc32(manifest)]

Entry(i) ==
    [id |-> manifest[i].id, offset |-> offsets[i],
     size |-> sizeOf[manifest[i].file], crc |-> crc32(Payload(i)), flags |-> 0]

\* Slip: the zeros are left out.
Padded_NoZeros(i) == Payload(i)

\* The payload and the zeros behind it.
Padded(i) ==
    LET end == Add(offsets[i], sizeOf[manifest[i].file])
    IN  Payload(i) \o Zeros(Sub(align_up_u32(end), end))

Table == [i \in 1 .. Len(manifest) |-> Entry(i)]

\* Header, table and padding.
WriteHead ==
    /\ pc = "header" /\ pc' = "write"
    /\ LET padding == Zeros(payload_offset - TableEnd(Len(manifest)))
       IN  disk' = [len |-> TableEnd(Len(manifest)) + Len(padding),
                    header |-> Header, table |-> Table, body |-> padding]
    /\ UNCHANGED <<manifest, sizeOf, offsets, cursor, written, damages>>

\* The payloads, unless the table's end has wrapped.
WritePayload ==
    /\ pc = "write" /\ payload_offset >= TableEnd(Len(manifest))
    /\ written < Len(manifest) /\ written' = written + 1
    /\ disk' = [disk EXCEPT !.len = @ + Len(Padded(written + 1)),
                            !.body = @ \o Padded(written + 1)]
    /\ UNCHANGED <<manifest, sizeOf, pc, offsets, cursor, damages>>

CloseOutput ==
    /\ pc = "write" /\ payload_offset >= TableEnd(Len(manifest))
    /\ written = Len(manifest) /\ pc' = "ok"
    /\ UNCHANGED <<manifest, sizeOf, offsets, cursor, written, disk, damages>>

\* All is written through a buffer: a write or fclose() that fails, or the end of
\* the process, leaves any first part of what was written, or all.
WriteFails ==
    /\ pc = "write" /\ pc' = "failed"
    /\ \E n \in 0 .. disk.len : disk' = [disk EXCEPT !.len = n]
    /\ UNCHANGED <<manifest, sizeOf, offsets, cursor, written, damages>>

-----------------------------------------------------------------------------
(* What may happen to the file on its way to the console.                  *)

Returned == pc \in {"ok", "failed"}

\* A file whose packing failed is not shipped.
Damage(kind, d) ==
    /\ pc = "ok" /\ disk.len > 0 /\ Len(damages) < MaxDamages
    /\ disk' = d /\ damages' = Append(damages, kind)
    /\ UNCHANGED <<manifest, sizeOf, pc, offsets, cursor, written>>

LengthChanges ==
    \E n \in 0 .. disk.len - 1 : Damage("length", [disk EXCEPT !.len = n])

ByteChanges ==
    \E k \in 1 .. Len(disk.body) : Damage("byte", [disk EXCEPT !.body[k] = <<"other", 0>>])

Words == 0 .. Word - 1

HeaderChanges ==
    \/ Damage("field", [disk EXCEPT !.header.fixed = "other"])
    \/ Damage("field", [disk EXCEPT !.header.manifest_crc = crc32(<< >>)])
    \/ \E w \in Words : \/ Damage("field", [disk EXCEPT !.header.count = w])
                        \/ Damage("field", [disk EXCEPT !.header.payload_offset = w])
                        \/ Damage("field", [disk EXCEPT !.header.file_size = w])

EntryChanges ==
    \E i \in 1 .. Len(disk.table) :
       \/ \E w \in Words : \/ Damage("id", [disk EXCEPT !.table[i].id = w])
                           \/ Damage("field", [disk EXCEPT !.table[i].offset = w])
                           \/ Damage("field", [disk EXCEPT !.table[i].size = w])
       \/ Damage("field", [disk EXCEPT !.table[i].flags = 1])
       \/ Damage("field", [disk EXCEPT !.table[i].crc = crc32(<< >>)])

-----------------------------------------------------------------------------
(* Reading it.                                                             *)

\* Behind the table lies padding, up to the payloads.
EntryAt(d, i) ==
    IF i \in 1 .. Len(d.table) THEN d.table[i]
    ELSE [id |-> 0, offset |-> 0, size |-> 0, crc |-> crc32(<< >>), flags |-> 0]

InFile(d, offset, size) == offset + size <= d.len

CellAt(d, p) ==
    IF p > TableEnd(Len(d.table)) THEN d.body[p - TableEnd(Len(d.table))]
                                  ELSE <<"table", p>>

Bytes(d, offset, size) == [k \in 1 .. size |-> CellAt(d, offset + k)]

ChecksumHolds(d, e) ==
    InFile(d, e.offset, e.size) /\ e.crc = crc32(Bytes(d, e.offset, e.size))

\* The header checks that both readers make; the sum is a word.
HeaderHolds(d, h) ==
    /\ h.fixed = "v1" /\ h.file_size = d.len
    /\ h.count <= (Word - 1 - HeaderSize) \div EntrySize
    /\ TableEnd(h.count) <= d.len /\ h.payload_offset >= TableEnd(h.count)
    /\ Aligned(h.payload_offset)

\* A file that is read at all: not shorter than a header, its size a word, and a
\* long of the reader (ftell() has no other answer for a larger one than -1).
\* Offsets are compared with that size before a seek casts them to long.
Sized(d, LongMax) == d.len \in HeaderSize .. Word - 1 /\ d.len <= LongMax

\* What the validator asks of the i-th entry, without its checksum.
EntryHolds(m, d, i) ==
    LET e == EntryAt(d, i)
        previous_end == IF i = 1 THEN d.header.payload_offset
                        ELSE Add(EntryAt(d, i - 1).offset, EntryAt(d, i - 1).size)
    IN  /\ e.id = m[i].id /\ e.size # 0 /\ e.flags = 0
        /\ e.offset >= d.header.payload_offset /\ Aligned(e.offset)
        /\ e.offset >= previous_end
        /\ e.size <= Sub(d.len, e.offset)

\* Slip: the checksum of the manifest is not compared.
validate_header_NoManifest(m, d) ==
    /\ load_manifest(m) /\ Sized(d, HostLongMax) /\ HeaderHolds(d, d.header)
    /\ d.header.count = Len(m)

validate_header(m, d) ==
    /\ load_manifest(m) /\ Sized(d, HostLongMax) /\ HeaderHolds(d, d.header)
    /\ d.header.count = Len(m)
    /\ d.header.manifest_crc = crc32(m)

\* validate_image_internal(): "undefined" when it computes the checksum of bytes
\* that are not in the file, since an offset past its end makes the difference
\* image_size - offset wrap.
validate_image(m, d) ==
    IF ~validate_header(m, d) THEN "refused"
    ELSE LET Good(i) == EntryHolds(m, d, i) /\ ChecksumHolds(d, EntryAt(d, i))
             Bad     == {i \in 1 .. Len(m) : ~Good(i)}
             first   == CHOOSE i \in Bad : \A j \in Bad : i <= j
         IN  IF Bad = {} THEN "ok"
             ELSE IF /\ EntryHolds(m, d, first)
                     /\ ~InFile(d, EntryAt(d, first).offset, EntryAt(d, first).size)
                  THEN "undefined" ELSE "refused"

\* Slip: the length that the header declares is not compared with the file's.
parse_header_AnyLength(d) ==
    LET h == d.header
    IN  /\ Sized(d, EELongMax) /\ h.fixed = "v1" /\ h.count \in 1 .. MaxEntries
        /\ TableEnd(h.count) <= d.len /\ h.payload_offset >= TableEnd(h.count)
        /\ h.payload_offset <= d.len /\ Aligned(h.payload_offset)

parse_header(d) ==
    /\ Sized(d, EELongMax) /\ HeaderHolds(d, d.header)
    /\ d.header.count \in 1 .. MaxEntries
    /\ d.header.payload_offset <= d.len

\* parse_image_entries() of the provider.
parse_image_entries(d) ==
    /\ parse_header(d)
    /\ \A i \in 1 .. d.header.count :
          LET e == EntryAt(d, i)
          IN  /\ e.id # 0 /\ e.size # 0 /\ e.flags = 0
              /\ e.offset >= d.header.payload_offset /\ e.offset <= d.len
              /\ Aligned(e.offset) /\ e.size <= d.len - e.offset
              /\ \A j \in 1 .. i - 1 : EntryAt(d, j).id # e.id

\* Slip: the payload is taken as it is.
read_payload_NoCrc(d, e) == Bytes(d, e.offset, e.size)

read_payload(d, e) ==
    IF ChecksumHolds(d, e) THEN Bytes(d, e.offset, e.size) ELSE Error

\* What the provider stages for an identifier: its bytes, or an error.
stage_module(d, id) ==
    LET Found == {i \in 1 .. d.header.count : EntryAt(d, i).id = id}
    IN  IF ~parse_image_entries(d) \/ Found = {} THEN Error
        ELSE read_payload(d, EntryAt(d, CHOOSE i \in Found : \A j \in Found : i <= j))

-----------------------------------------------------------------------------
Init ==
    /\ manifest \in Manifests /\ sizeOf \in [Files -> Sizes]
    /\ pc = "load" /\ offsets = << >> /\ cursor = 0 /\ written = 0
    /\ disk = NoFile /\ damages = << >>

Next ==
    \/ LoadManifest \/ ReadPayload \/ OpenOutput
    \/ WriteHead \/ WritePayload \/ CloseOutput \/ WriteFails
    \/ LengthChanges \/ ByteChanges \/ HeaderChanges \/ EntryChanges

Spec == Init /\ [][Next]_vars

-----------------------------------------------------------------------------
(* Properties.                                                             *)

\* Every variable has its type: what the packer computes are words, and it never
\* writes more offsets than there are payloads.
TypeOK ==
    /\ manifest \in Manifests /\ sizeOf \in [Files -> Sizes]
    /\ pc \in {"load", "read", "header", "write", "ok", "failed"}
    /\ offsets \in Seq(Words) /\ Len(offsets) <= Len(manifest)
    /\ cursor \in Words /\ written \in 0 .. Len(offsets)
    /\ disk.len \in Nat
    /\ damages \in Seq({"id", "field", "byte", "length"}) /\ Len(damages) <= MaxDamages

Ids == 1 .. MaxEntries

\* The provider stages each module of the manifest with its own bytes.
Exact(d) ==
    \A i \in 1 .. Len(manifest) :
       manifest[i].id \in Ids => stage_module(d, manifest[i].id) = Payload(i)

\* The provider stages something from the file.
Usable(d) == \E id \in Ids : stage_module(d, id) # Error

\* From an image that a long of the console can measure the provider stages each
\* module, and from a larger one none.
Provided(d) == IF d.len <= EELongMax THEN Exact(d) ELSE ~Usable(d)

\* What has been written, on the disk or not.
WrittenLen == TableEnd(Len(disk.table)) + Len(disk.body)

\* The image can be described in words.
Fits == WrittenLen < Word

\* The file ends before the image does.
Torn == written < Len(manifest) \/ disk.len < WrittenLen

\* An image whose packing succeeded, and that can be described in words, is one
\* that the validator accepts, where a long can measure it, and that the provider
\* stages each module from, byte for byte, if a long of the console can (one that
\* the validator accepts may be too large for the console, and is refused whole).
\* A file too large to be described, which the packer takes for a small one when
\* the sum wraps, is refused by both.
PackedIsGood ==
    pc = "ok" /\ damages = << >> =>
       /\ validate_image(manifest, disk) =
             IF Fits /\ disk.len <= HostLongMax THEN "ok" ELSE "refused"
       /\ IF Fits THEN Provided(disk) ELSE ~Usable(disk)

\* A file that was not written to its end, or was cut afterwards at any byte,
\* padding included, is refused: nothing is staged from it.
TornRefused ==
    Returned /\ disk.len > 0 /\ Torn
    /\ (\A k \in 1 .. Len(damages) : damages[k] = "length") =>
       validate_image(manifest, disk) = "refused" /\ ~Usable(disk)

\* What the validator accepts, for whatever manifest it is given, is what that
\* manifest describes, and the provider stages exactly that (or nothing of what
\* is too large for it), whatever happened to the file: a stale manifest, or one with the same modules in another order
\* or from other files, is not accepted.
ValidatedIsExact ==
    Returned /\ disk.len > 0 =>
       \A m \in Manifests :
          validate_image(m, disk) = "ok" => m = manifest /\ Provided(disk)

\* Without the validator: one change anywhere but in an identifier, which no
\* checksum covers, makes the provider stage the module's own bytes or an error.
ExactOrRefused ==
    Returned /\ disk.len > 0 /\ (\A k \in 1 .. Len(damages) : damages[k] # "id") =>
       \A id \in Ids :
          LET bytes == stage_module(disk, id)
          IN  bytes = Error \/ \E i \in 1 .. Len(manifest) :
                                    manifest[i].id = id /\ bytes = Payload(i)
=============================================================================

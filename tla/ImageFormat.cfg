\* The sizes of the format divided by four; words of seven bits, longs of seven
\* bits with their sign on the console and wider on the host; files of one byte,
\* of one unit and more, and of sizes with which the image is the largest that
\* the console can measure, or the smallest that it cannot, and with which the
\* sum behind a payload is the largest that fits a word, or wraps, behind the
\* first payload or the last.  Every single change of the file.
CONSTANTS
    Manifests <- MCManifests
    Files = {"a", "b"}
    Sizes = {0, 1, 5, 44, 46, 54, 102, 108, 110}
    HeaderSize = 11
    EntrySize = 5
    Alignment = 4
    MaxEntries = 2
    Word = 128
    HostLongMax = 1000
    EELongMax = 63
    MaxDamages = 1
SPECIFICATION Spec
CHECK_DEADLOCK FALSE
INVARIANTS TypeOK PackedIsGood TornRefused ValidatedIsExact ExactOrRefused

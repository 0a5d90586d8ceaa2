\* Two image files; heap bound: 10 blocks, what a five-module staging that
\* replaces a remembered path holds at its peak (5 payloads, array, entries,
\* file, two paths), so success is reachable and one block less is not enough.
CONSTANTS
    NULL = NULL
    BadReq = BadReq
    Paths = {"imgA", "imgB"}
    Reqs <- MCReqs
    Marks <- MCMarks
    Ids <- MCIds
    Bases <- MCBases
    Requests <- MCRequests
    Images <- MCImages
    Blocks = {1, 2, 3, 4, 5, 6, 7, 8, 9, 10}
SPECIFICATION Spec
INVARIANTS TypeOK HeapExact CountExact SourceRemembered BytesExact
PROPERTY Contract

---------------------------- MODULE ImageStaging ----------------------------
(***************************************************************************)
(* The external-image provider, ps2_drivers_img.c, with the executor that  *)
(* consumes it, ps2_irx_module_image.c.                                    *)
(*                                                                         *)
(* An application thread calls one entry point at a time.  A staging call  *)
(* is a sequence of steps, one per point at which it may fail, so that     *)
(* what it has allocated so far is visible; the other entry points are one *)
(* step.  The C heap is the set of live blocks: malloc() and fopen() add   *)
(* one, free() and fclose() remove one, and every pointer the code holds   *)
(* is either NULL or a block.                                              *)
(***************************************************************************)
EXTENDS Integers, Sequences, FiniteSets

CONSTANTS Ids,        \* module identifiers
          Paths,      \* image file names
          Reqs,       \* requirement bits inside PS2_DRIVER_REQ_KNOWN_MASK
          BadReq,     \* any bit outside it
          Marks,      \* the identifiers each bit marks in expand_requirements()
          Bases,      \* the sets the boot and filesystem helpers start from
          Requests,   \* the requirement words the application passes
          Images,     \* entry tables an image may have: identifier -> size
          Blocks,     \* heap addresses
          NULL

Requested(R) == UNION {Marks[r] : r \in R}

ASSUME StagingAssumption ==
    /\ Ids \subseteq Nat /\ IsFiniteSet(Ids)
    /\ NULL \notin Paths /\ NULL \notin Blocks /\ BadReq \notin Reqs
    /\ Marks \in [Reqs -> SUBSET Ids]
    /\ Requests \subseteq SUBSET (Reqs \cup {BadReq})
    /\ Bases \subseteq SUBSET Reqs
    /\ \A d \in Images : DOMAIN d \subseteq Ids /\ d \in [DOMAIN d -> Nat \ {0}]

VARIABLES
    heap,        \* live blocks
    ptr,         \* the pointer variables, global and local, by name
    gSlots,      \* contents of g_staged_modules
    gCapacity, gCount, gBytes,   \* g_staged_capacity, _count, _bytes
    source,      \* the string g_image_path points to, NULL if none
    gLast,       \* g_last_requirements
    pc,          \* where the staging call is; "idle" between calls
    arg,         \* the call's arguments
    dir,         \* the parsed entry table
    slots,       \* contents of the local array staged
    index, todo, bytes,  \* staged_index, identifiers still to stage, staged_bytes
    result,      \* what the last call that returns anything returned
    asked        \* history: the call made last, as the application made it

globals == <<gSlots, gCapacity, gCount, gBytes, source, gLast>>
locals  == <<pc, arg, dir, slots, index, todo, bytes>>
vars    == <<heap, ptr, globals, locals, result, asked>>

GlobalPtrs == {"path", "modules"}                \* g_image_path, g_staged_modules
LocalPtrs  == {"copy", "file", "table", "entries", "staged"}
PtrNames   == GlobalPtrs \cup LocalPtrs

Slot      == [id : Ids \cup {0}, data : Blocks \cup {NULL}, size : Nat]
EmptySlot == [id |-> 0, data |-> NULL, size |-> 0]
NoArg     == [by |-> "none", path |-> NULL, req |-> {}]

\* The application's call, before the code has looked at it.
Asks(op, p, R, id) == asked' = [op |-> op, path |-> p, req |-> R, id |-> id]
NoCall == [op |-> "none", path |-> NULL, req |-> {}, id |-> 0]

Live(s)       == {i \in 1 .. Len(s) : s[i].data # NULL}
DataBlocks(s) == {s[i].data : i \in Live(s)}
StagedIds     == {gSlots[i].id : i \in Live(gSlots)}

\* g_staged_modules != NULL || g_staged_count != 0u
Active == ptr["modules"] # NULL \/ gCount # 0

\* Slip: the mask check forgotten.
BadWord_NoMask(R) == R = {}

BadWord(R) == R = {} \/ ~(R \subseteq Reqs)

-----------------------------------------------------------------------------
(* The heap: an allocation takes a block that is not live, or fails.       *)

CanAlloc(h) == \E b \in Blocks : b \notin h
Fresh(h)    == CHOOSE b \in Blocks : b \notin h
Held(names) == {ptr[k] : k \in names} \ {NULL}

-----------------------------------------------------------------------------
(* Entry and exit of the calls.                                            *)

\* A call that fails before it has changed anything.
Reject(e) == result' = e /\ UNCHANGED <<heap, ptr, globals, locals>>

\* Slip: restage() remembers the word before it looks at the result.
Fail_Remembers(e, frees) ==
    /\ pc # "idle"
    /\ result' = e
    /\ heap' = heap \ frees
    /\ ptr' = [k \in PtrNames |-> IF k \in LocalPtrs THEN NULL ELSE ptr[k]]
    /\ pc' = "idle" /\ arg' = NoArg /\ dir' = << >>
    /\ slots' = << >> /\ index' = 1 /\ todo' = {} /\ bytes' = 0
    /\ gLast' = IF arg.by = "restage" THEN arg.req ELSE gLast
    /\ UNCHANGED <<gSlots, gCapacity, gCount, gBytes, source>>

\* A staging call returns an error after it has freed `frees`.
Fail(e, frees) ==
    /\ pc # "idle"
    /\ result' = e
    /\ heap' = heap \ frees
    /\ ptr' = [k \in PtrNames |-> IF k \in LocalPtrs THEN NULL ELSE ptr[k]]
    /\ pc' = "idle" /\ arg' = NoArg /\ dir' = << >>
    /\ slots' = << >> /\ index' = 1 /\ todo' = {} /\ bytes' = 0
    /\ UNCHANGED globals

\* ps2_drivers_img_stage(), up to its call of stage_from_path(); also
\* ps2_drivers_img_stage_default(), which names the path.
ps2_drivers_img_stage(p, R) ==
    /\ pc = "idle"
    /\ IF p = NULL \/ BadWord(R) THEN Reject("ARGUMENT")
       ELSE IF Active THEN Reject("ALREADY_STAGED")
       ELSE \/ Reject("MEMORY")
            \/ /\ CanAlloc(heap)
               /\ heap' = heap \cup {Fresh(heap)}
               /\ ptr' = [ptr EXCEPT !["copy"] = Fresh(heap)]
               /\ pc' = "open"
               /\ arg' = [by |-> "stage", path |-> p, req |-> R]
               /\ UNCHANGED <<globals, dir, slots, index, todo, bytes, result>>

\* ps2_drivers_img_stage_for_boot_device(), _for_path() and
\* _for_all_filesystems(): a base set and the application's own bits.  A NULL
\* launch path or a bit outside the mask is refused.
StageFor(p, base, extra) ==
    IF base = NULL \/ ~(extra \subseteq Reqs)
    THEN pc = "idle" /\ Reject("ARGUMENT")
    ELSE ps2_drivers_img_stage(p, base \cup extra)

\* ps2_drivers_img_stage_for_current_boot(): the launch path is getcwd()'s
\* answer, and getcwd() may fail.
StageForCurrentBoot(p, base, extra) ==
    \/ pc = "idle" /\ extra \subseteq Reqs /\ Reject("CWD")
    \/ StageFor(p, base, extra)

\* ps2_drivers_img_restage(), up to its call of stage_from_path().
ps2_drivers_img_restage(R) ==
    /\ pc = "idle"
    /\ IF BadWord(R) THEN Reject("ARGUMENT")
       ELSE IF ptr["path"] = NULL THEN Reject("NO_SOURCE")
       ELSE /\ pc' = "open"
            /\ arg' = [by |-> "restage", path |-> source, req |-> R]
            /\ UNCHANGED <<heap, ptr, globals, dir, slots, index, todo, bytes,
                           result>>

\* Slip: the remembered word is only tested.
ps2_drivers_img_restage_last_All ==
    /\ pc = "idle"
    /\ IF ptr["path"] = NULL \/ gLast = {} THEN Reject("NO_SOURCE")
       ELSE ps2_drivers_img_restage(Reqs)

ps2_drivers_img_restage_last ==
    /\ pc = "idle"
    /\ IF ptr["path"] = NULL \/ gLast = {} THEN Reject("NO_SOURCE")
       ELSE ps2_drivers_img_restage(gLast)

-----------------------------------------------------------------------------
(* stage_from_path(), one step per point of failure.                       *)

\* What the caller frees on an error: the path copy (NULL under restage).
OnError(names) == Held(names \cup {"copy"})

\* Lines 447-466: the checks, expand_requirements(), fopen().
OpenImage ==
    /\ pc = "open"
    /\ IF BadWord(arg.req) THEN Fail("ARGUMENT", OnError({}))
       ELSE IF Active THEN Fail("ALREADY_STAGED", OnError({}))
       ELSE IF Requested(arg.req) = {} THEN Fail("ARGUMENT", OnError({}))
       ELSE \/ Fail("OPEN", OnError({}))
            \/ /\ CanAlloc(heap)
               /\ heap' = heap \cup {Fresh(heap)}
               /\ ptr' = [ptr EXCEPT !["file"] = Fresh(heap)]
               /\ pc' = "header"
               /\ UNCHANGED <<globals, arg, dir, slots, index, todo, bytes, result>>

\* The file size and the fixed header, which may be short or malformed.
ReadHeader ==
    \/ /\ pc = "header"
       /\ \E e \in {"IO", "FORMAT"} : Fail(e, OnError({"file"}))
    \/ /\ pc = "header"
       /\ pc' = "tables"
       /\ UNCHANGED <<heap, ptr, globals, arg, dir, slots, index, todo, bytes,
                      result>>

\* parse_image_entries(): both tables are allocated, or neither is kept.
AllocTables ==
    \/ pc = "tables" /\ Fail("MEMORY", OnError({"file"}))
    \/ /\ pc = "tables"
       /\ CanAlloc(heap) /\ CanAlloc(heap \cup {Fresh(heap)})
       /\ LET t == Fresh(heap)
              n == Fresh(heap \cup {t})
          IN  /\ heap' = heap \cup {t, n}
              /\ ptr' = [ptr EXCEPT !["table"] = t, !["entries"] = n]
       /\ pc' = "entries"
       /\ UNCHANGED <<globals, arg, dir, slots, index, todo, bytes, result>>

\* The raw table is read, decoded into entries, validated and freed.  A valid
\* table has no duplicate identifier: it is a function.
ReadEntries ==
    \/ /\ pc = "entries"
       /\ \E e \in {"IO", "FORMAT"} :
             Fail(e, OnError({"table", "entries", "file"}))
    \/ /\ pc = "entries"
       /\ dir' \in Images
       /\ heap' = heap \ Held({"table"})
       /\ ptr' = [ptr EXCEPT !["table"] = NULL]
       /\ pc' = "array"
       /\ UNCHANGED <<globals, arg, slots, index, todo, bytes, result>>

\* calloc(requested_count, sizeof(*staged))
AllocArray ==
    \/ pc = "array" /\ Fail("MEMORY", OnError({"entries", "file"}))
    \/ /\ pc = "array"
       /\ CanAlloc(heap)
       /\ heap' = heap \cup {Fresh(heap)}
       /\ ptr' = [ptr EXCEPT !["staged"] = Fresh(heap)]
       /\ slots' = [i \in 1 .. Cardinality(Requested(arg.req)) |-> EmptySlot]
       /\ todo' = Requested(arg.req)
       /\ pc' = "module"
       /\ UNCHANGED <<globals, arg, dir, index, bytes, result>>

\* The label fail: entries, the file, free_staged_array(staged, capacity).
FailFrees == OnError({"entries", "file", "staged"}) \cup DataBlocks(slots)

\* The loop visits the requested identifiers in increasing order.
NextId(id) == id \in todo /\ \A j \in todo : id <= j

\* Slip: a missing module is skipped.
MissingModule_Skip(id) ==
    /\ id \notin DOMAIN dir
    /\ todo' = todo \ {id} /\ index' = index + 1
    /\ UNCHANGED <<heap, ptr, globals, pc, arg, dir, slots, bytes, result>>

MissingModule(id) == id \notin DOMAIN dir /\ Fail("MISSING_MODULE", FailFrees)

NoMemory(id) == id \in DOMAIN dir /\ Fail("MEMORY", FailFrees)

\* Slip: the payload buffer is not freed.
BadPayload_Leak(id) ==
    /\ id \in DOMAIN dir /\ CanAlloc(heap)
    /\ pc # "idle" /\ pc' = "idle" /\ result' = "CRC"
    /\ heap' = (heap \cup {Fresh(heap)}) \ FailFrees
    /\ ptr' = [k \in PtrNames |-> IF k \in LocalPtrs THEN NULL ELSE ptr[k]]
    /\ arg' = NoArg /\ dir' = << >>
    /\ slots' = << >> /\ index' = 1 /\ todo' = {} /\ bytes' = 0
    /\ UNCHANGED globals

\* The payload buffer is freed on a short read and on a wrong checksum.
BadPayload(id) ==
    /\ id \in DOMAIN dir /\ CanAlloc(heap)
    /\ LET data == Fresh(heap)
       IN  \E e \in {"IO", "CRC"} : Fail(e, FailFrees \cup {data})

GoodPayload(id) ==
    /\ id \in DOMAIN dir /\ CanAlloc(heap)
    /\ heap' = heap \cup {Fresh(heap)}
    /\ slots' = [slots EXCEPT ![index] =
                    [id |-> id, data |-> Fresh(heap), size |-> dir[id]]]
    /\ index' = index + 1
    /\ bytes' = bytes + dir[id]
    /\ todo' = todo \ {id}
    /\ UNCHANGED <<ptr, globals, pc, arg, dir, result>>

StageModule ==
    /\ pc = "module"
    /\ \E id \in todo :
          /\ NextId(id)
          /\ \/ MissingModule(id)
             \/ NoMemory(id)
             \/ BadPayload(id)
             \/ GoodPayload(id)

\* Success: the locals become the globals (537-541) and the caller remembers
\* the request, under stage() also its own copy of the path (577-580).
Commit ==
    /\ pc = "module" /\ todo = {}
    /\ gSlots' = slots
    /\ gCapacity' = Cardinality(Requested(arg.req))
    /\ gCount' = Cardinality(Requested(arg.req))
    /\ gBytes' = bytes
    /\ gLast' = arg.req
    /\ source' = arg.path
    /\ LET replaced == IF arg.by = "stage" THEN {"path"} ELSE {}
           kept     == IF arg.by = "stage" THEN ptr["copy"] ELSE ptr["path"]
       IN  /\ heap' = heap \ Held({"entries", "file"} \cup replaced)
           /\ ptr' = [k \in PtrNames |-> IF k = "modules" THEN ptr["staged"]
                                         ELSE IF k = "path" THEN kept ELSE NULL]
    /\ result' = "OK"
    /\ pc' = "idle" /\ arg' = NoArg /\ dir' = << >>
    /\ slots' = << >> /\ index' = 1 /\ todo' = {} /\ bytes' = 0

-----------------------------------------------------------------------------
(* The other entry points.                                                 *)

\* free_staged_array() and the resets.
ps2_drivers_img_discard_staged ==
    /\ pc = "idle"
    /\ heap' = heap \ (Held({"modules"}) \cup DataBlocks(gSlots))
    /\ ptr' = [ptr EXCEPT !["modules"] = NULL]
    /\ gSlots' = << >> /\ gCapacity' = 0 /\ gCount' = 0 /\ gBytes' = 0
    /\ UNCHANGED <<source, gLast, locals, result>>

\* Slip: the request outlives its source.
forget_source_KeepsLast ==
    /\ pc = "idle"
    /\ heap' = heap \ Held({"path"})
    /\ ptr' = [ptr EXCEPT !["path"] = NULL]
    /\ source' = NULL
    /\ UNCHANGED <<gSlots, gCapacity, gCount, gBytes, gLast, locals, result>>

ps2_drivers_img_forget_source ==
    /\ pc = "idle"
    /\ heap' = heap \ Held({"path"})
    /\ ptr' = [ptr EXCEPT !["path"] = NULL]
    /\ source' = NULL /\ gLast' = {}
    /\ UNCHANGED <<gSlots, gCapacity, gCount, gBytes, locals, result>>

\* The slots ps2_drivers_img_get_staged() and _release_staged() accept.
Holding(id) ==
    {i \in 1 .. gCapacity : gSlots[i].id = id /\ gSlots[i].data # NULL}

\* Slip: the slot's size is cleared before it is subtracted.
BytesLeft_SizeCleared(i) == gBytes

BytesLeft(i) == IF gBytes >= gSlots[i].size THEN gBytes - gSlots[i].size ELSE 0

\* Slip: the array outlives its last payload.
ArrayDone_Never(left) == FALSE

ArrayDone(left) == left = 0 /\ ptr["modules"] # NULL

\* ps2_drivers_img_release_staged() of the slot i: its payload, its share of
\* the counters, and the array once no payload is left.
ps2_drivers_img_release_staged(i) ==
    LET left == IF gCount > 0 THEN gCount - 1 ELSE 0
    IN  /\ gCount' = left
        /\ IF ArrayDone(left)
           THEN /\ heap' = heap \ ({gSlots[i].data} \cup Held({"modules"}))
                /\ ptr' = [ptr EXCEPT !["modules"] = NULL]
                /\ gSlots' = << >> /\ gCapacity' = 0 /\ gBytes' = 0
           ELSE /\ heap' = heap \ {gSlots[i].data}
                /\ gSlots' = [gSlots EXCEPT ![i] = [id |-> @.id, data |-> NULL, size |-> 0]]
                /\ gBytes' = BytesLeft(i)
                /\ UNCHANGED <<ptr, gCapacity>>

\* ps2_irx_exec() of the image flavour: the first slot that holds the module is
\* executed and released, whatever SifExecModuleBuffer() answers.
ps2_irx_exec(id) ==
    /\ pc = "idle"
    /\ IF Holding(id) = {} THEN Reject("NOT_STAGED")
       ELSE /\ \E i \in Holding(id) :
                  /\ \A j \in Holding(id) : i <= j
                  /\ ps2_drivers_img_release_staged(i)
            /\ result' = "EXECUTED"
            /\ UNCHANGED <<source, gLast, locals>>

-----------------------------------------------------------------------------
Init ==
    /\ heap = {} /\ ptr = [k \in PtrNames |-> NULL]
    /\ gSlots = << >> /\ gCapacity = 0 /\ gCount = 0 /\ gBytes = 0
    /\ source = NULL /\ gLast = {}
    /\ pc = "idle" /\ arg = NoArg /\ dir = << >>
    /\ slots = << >> /\ index = 1 /\ todo = {} /\ bytes = 0
    /\ result = "OK" /\ asked = NoCall

\* The application makes a call, at once answered or begun.
Call ==
    \/ \E p \in Paths \cup {NULL}, R \in Requests :
          ps2_drivers_img_stage(p, R) /\ Asks("stage", p, R, 0)
    \/ \E p \in Paths, base \in Bases, R \in Requests :
          /\ StageFor(p, base, R) \/ StageForCurrentBoot(p, base, R)
          /\ Asks("stage", p, base \cup R, 0)
    \/ \E p \in Paths, R \in Requests :
          StageFor(p, NULL, R) /\ Asks("stage", p, R, 0)
    \/ \E R \in Requests : ps2_drivers_img_restage(R) /\ Asks("restage", NULL, R, 0)
    \/ ps2_drivers_img_restage_last /\ Asks("restage_last", NULL, {}, 0)
    \/ ps2_drivers_img_discard_staged /\ Asks("discard", NULL, {}, 0)
    \/ ps2_drivers_img_forget_source /\ Asks("forget", NULL, {}, 0)
    \/ \E id \in Ids : ps2_irx_exec(id) /\ Asks("exec", NULL, {}, id)

Step ==
    \/ OpenImage
    \/ ReadHeader
    \/ AllocTables
    \/ ReadEntries
    \/ AllocArray
    \/ StageModule
    \/ Commit

Next == Call \/ (Step /\ UNCHANGED asked)

Spec == Init /\ [][Next]_vars

-----------------------------------------------------------------------------
(* Properties.                                                             *)

PcValues == {"idle", "open", "header", "tables", "entries", "array", "module"}
Results  == {"OK", "ARGUMENT", "ALREADY_STAGED", "OPEN", "IO", "FORMAT",
             "MISSING_MODULE", "CRC", "MEMORY", "NO_SOURCE", "CWD",
             "NOT_STAGED", "EXECUTED"}

\* Every variable of the program has its type, and pointers are NULL or blocks.
TypeOK ==
    /\ heap \subseteq Blocks
    /\ ptr \in [PtrNames -> Blocks \cup {NULL}]
    /\ gSlots \in Seq(Slot) /\ slots \in Seq(Slot)
    /\ gCapacity \in Nat /\ gCount \in Nat /\ gBytes \in Nat
    /\ source \in Paths \cup {NULL} /\ gLast \in SUBSET Reqs
    /\ pc \in PcValues /\ result \in Results
    /\ arg \in [by : {"none", "stage", "restage"}, path : Paths \cup {NULL},
                req : SUBSET Reqs]
    /\ dir \in Images \cup {<< >>}
    /\ index \in Nat /\ todo \in SUBSET Ids /\ bytes \in Nat

\* No block is leaked, freed twice or used after free, on any path through a
\* staging call: the live blocks are exactly those some variable points to, and
\* no two variables point to the same one.
HeapExact ==
    /\ heap = Held(PtrNames) \cup DataBlocks(gSlots) \cup DataBlocks(slots)
    /\ \A k, l \in PtrNames : ptr[k] = ptr[l] /\ ptr[k] # NULL => k = l
    /\ \A s \in {gSlots, slots} :
          /\ DataBlocks(s) \cap Held(PtrNames) = {}
          /\ \A i, j \in Live(s) : s[i].data = s[j].data => i = j
    /\ DataBlocks(gSlots) \cap DataBlocks(slots) = {}

\* The counters that decide "already staged" and the end of the array are
\* those of the slots: after any mix of partial execution, failed staging and
\* discarding, staging is refused exactly while some module is still staged,
\* and no module is staged twice.
CountExact ==
    /\ gCapacity = Len(gSlots)
    /\ gCount = Cardinality(Live(gSlots))
    /\ (ptr["modules"] = NULL) <=> (Live(gSlots) = {})
    /\ \A i, j \in Live(gSlots) : gSlots[i].id = gSlots[j].id => i = j

\* The bytes of the payloads an array holds, by slot and place.
Payload(s) == UNION {{i} \X (1 .. s[i].size) : i \in Live(s)}

\* g_staged_bytes counts the bytes still staged: each release takes off what its
\* module added, so the counter reaches zero with the last module, and never by
\* the clamp of the subtraction.
BytesExact == gBytes = Cardinality(Payload(gSlots))

\* The remembered request and the remembered path are remembered together, so
\* restage_last() has a source exactly when some stage succeeded since the last
\* forget_source().
SourceRemembered ==
    /\ (ptr["path"] = NULL) <=> (source = NULL)
    /\ (source = NULL) <=> (gLast = {})

C == INSTANCE StagingContract
       WITH staged <- StagedIds, last <- gLast, Closure <- Requested,
            call <- asked, answer <- IF pc = "idle" THEN result ELSE "none"

\* The provider implements its contract, call by call: a staging call that fails,
\* at whatever step, leaves the staged set, the remembered image and the
\* remembered word as they were; one that succeeds has staged the whole set and
\* remembers what the application asked for, restage_last() the word of the last
\* success and no other; a module is executed at most once per staging.
Contract == C!Contract
=============================================================================

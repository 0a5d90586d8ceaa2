------------------------ MODULE ImageStaging_proofs ------------------------
(***************************************************************************)
(* For every set of modules, images, requests and heap blocks: the image   *)
(* provider keeps its types, leaks and aliases no block, keeps its         *)
(* counters exact and implements its contract.                             *)
(***************************************************************************)
EXTENDS ImageStaging, FiniteSetTheorems, TLAPS

\* How far a call has come determines what its locals hold.
CallInv ==
    /\ pc = "idle" => ptr["copy"] = NULL
    /\ pc \in {"idle", "open"} => ptr["file"] = NULL
    /\ pc # "entries" => ptr["table"] = NULL
    /\ pc \notin {"entries", "array", "module"} => ptr["entries"] = NULL
    /\ pc # "module" => ptr["staged"] = NULL
    /\ pc = "module" => ptr["staged"] # NULL
    /\ pc # "idle" =>
         /\ arg.req # {} /\ arg.path \in Paths
         /\ \/ arg.by = "stage" /\ ptr["copy"] # NULL
            \/ arg.by = "restage" /\ arg.path = source /\ ptr["copy"] = NULL
    /\ pc \notin {"idle", "open"} =>
         ptr["modules"] = NULL /\ Requested(arg.req) # {}
    /\ ptr["modules"] = NULL => gSlots = << >>

\* The slots filled so far are those below index, one for each identifier
\* already taken from todo.
LoopInv ==
    /\ pc # "module" => slots = << >> /\ index = 1 /\ todo = {} /\ bytes = 0
    /\ pc = "module" =>
         /\ todo \subseteq Requested(arg.req)
         /\ Len(slots) = Cardinality(Requested(arg.req))
         /\ index + Cardinality(todo) = Len(slots) + 1
         /\ index >= 1
         /\ \A i \in 1 .. Len(slots) : slots[i].data # NULL <=> i < index
         /\ \A i \in 1 .. Len(slots) :
               i < index => slots[i].id \in Requested(arg.req) \ todo
         /\ \A id \in Requested(arg.req) \ todo :
               \E i \in 1 .. Len(slots) : i < index /\ slots[i].id = id
         /\ \A i, j \in 1 .. Len(slots) :
               i < index /\ j < index /\ slots[i].id = slots[j].id => i = j

IInv == TypeOK /\ HeapExact /\ CountExact /\ SourceRemembered /\ CallInv /\ LoopInv

-----------------------------------------------------------------------------
\* A set of requirement bits stands for a finite set of identifiers.
LEMMA RequestedFinite ==
    ASSUME NEW R \in SUBSET Reqs
    PROVE  /\ Requested(R) \in SUBSET Ids
           /\ IsFiniteSet(Requested(R))
           /\ Cardinality(Requested(R)) \in Nat
<1>1. Requested(R) \in SUBSET Ids
  BY StagingAssumption DEF Requested
<1>2. IsFiniteSet(Requested(R))
  BY <1>1, StagingAssumption, FS_Subset
<1> QED
  BY <1>1, <1>2, FS_CardinalityType

\* malloc() answers with a block that is not live.
LEMMA FreshIsFree ==
    ASSUME NEW h, CanAlloc(h)
    PROVE  Fresh(h) \in Blocks /\ Fresh(h) \notin h /\ Fresh(h) # NULL
BY StagingAssumption DEF CanAlloc, Fresh

\* A rejected call changes no variable the invariant is about.
LEMMA RejectKeeps ==
    ASSUME IInv, NEW e \in Results, Reject(e)
    PROVE  IInv'
<1> USE DEF Reject, globals, locals
<1>1. TypeOK'
  BY DEF IInv, TypeOK
<1>2. HeapExact'
  <2>1. Held(PtrNames)' = Held(PtrNames) /\ Live(slots)' = Live(slots)
        /\ Live(gSlots)' = Live(gSlots)
    BY DEF Held, Live
  <2>2. DataBlocks(slots)' = DataBlocks(slots)
        /\ DataBlocks(gSlots)' = DataBlocks(gSlots)
    BY <2>1 DEF DataBlocks
  <2> QED
    BY <2>1, <2>2 DEF IInv, HeapExact
<1>3. CountExact' /\ SourceRemembered'
  BY DEF IInv, CountExact, SourceRemembered, Live
<1>4. CallInv' /\ LoopInv'
  BY DEF IInv, CallInv, LoopInv
<1> QED
  BY <1>1, <1>2, <1>3, <1>4 DEF IInv

\* An error return that frees all the call's blocks and no other keeps the
\* invariant: every error path below is an instance of this lemma.
LEMMA FailKeeps ==
    ASSUME IInv, NEW e \in Results, NEW F, Fail(e, F),
           Held(LocalPtrs) \cup DataBlocks(slots) \subseteq F,
           F \cap (Held(GlobalPtrs) \cup DataBlocks(gSlots)) = {}
    PROVE  IInv'
<1> USE DEF Fail, globals
<1>1. TypeOK'
  BY DEF IInv, TypeOK, NoArg, PtrNames, LocalPtrs, GlobalPtrs, PcValues
<1>2. DataBlocks(slots)' = {} /\ DataBlocks(gSlots)' = DataBlocks(gSlots)
      /\ Live(slots)' = {} /\ Live(gSlots)' = Live(gSlots)
  BY DEF DataBlocks, Live
<1>3. Held(PtrNames)' = Held(GlobalPtrs)
  BY DEF IInv, TypeOK, Held, PtrNames, GlobalPtrs, LocalPtrs
<1>4. HeapExact'
  <2>1. heap = Held(LocalPtrs) \cup Held(GlobalPtrs) \cup DataBlocks(gSlots)
               \cup DataBlocks(slots)
    BY DEF IInv, HeapExact, Held, PtrNames
  <2>2. heap' = Held(PtrNames)' \cup DataBlocks(gSlots)' \cup DataBlocks(slots)'
    BY <1>2, <1>3, <2>1
  <2>3. \A k, l \in PtrNames : ptr'[k] = ptr'[l] /\ ptr'[k] # NULL => k = l
    BY DEF IInv, HeapExact, PtrNames
  <2>4. Held(GlobalPtrs) \subseteq Held(PtrNames)
    BY DEF Held, PtrNames
  <2>5. \A i, j \in Live(gSlots)' : gSlots'[i].data = gSlots'[j].data => i = j
    BY <1>2 DEF IInv, HeapExact
  <2>6. DataBlocks(gSlots)' \cap Held(PtrNames)' = {}
    BY <1>2, <1>3, <2>4 DEF IInv, HeapExact
  <2> QED
    BY <1>2, <2>2, <2>3, <2>5, <2>6 DEF HeapExact
<1>5. CountExact'
  BY <1>2 DEF IInv, CountExact, PtrNames, GlobalPtrs, LocalPtrs
<1>6. SourceRemembered'
  BY DEF IInv, SourceRemembered, PtrNames, GlobalPtrs, LocalPtrs
<1>7. CallInv' /\ LoopInv'
  BY DEF IInv, CallInv, LoopInv, PtrNames, GlobalPtrs, LocalPtrs
<1> QED
  BY <1>1, <1>4, <1>5, <1>6, <1>7 DEF IInv

\* A new block stored in a pointer that was NULL keeps the heap exact.
LEMMA AllocKeepsHeap ==
    ASSUME TypeOK, HeapExact,
           NEW k \in PtrNames, ptr[k] = NULL,
           NEW b \in Blocks, b \notin heap,
           heap' = heap \cup {b}, ptr' = [ptr EXCEPT ![k] = b],
           gSlots' = gSlots, DataBlocks(slots)' = DataBlocks(slots),
           \A i, j \in Live(slots)' : slots'[i].data = slots'[j].data => i = j
    PROVE  HeapExact'
<1>0. b # NULL
  BY StagingAssumption
<1>1. Live(gSlots)' = Live(gSlots) /\ DataBlocks(gSlots)' = DataBlocks(gSlots)
  BY DEF DataBlocks, Live
<1>2. Held(PtrNames)' = Held(PtrNames) \cup {b}
  BY <1>0 DEF Held, TypeOK
<1>3. \A l \in PtrNames : ptr[l] # b
  BY <1>0 DEF HeapExact, Held
<1>4. \A m, l \in PtrNames : ptr'[m] = ptr'[l] /\ ptr'[m] # NULL => m = l
  BY <1>3 DEF HeapExact, TypeOK
<1>5. heap' = Held(PtrNames)' \cup DataBlocks(gSlots)' \cup DataBlocks(slots)'
  BY <1>1, <1>2 DEF HeapExact
<1>6. DataBlocks(gSlots)' \cap Held(PtrNames)' = {}
      /\ DataBlocks(slots)' \cap Held(PtrNames)' = {}
  BY <1>1, <1>2 DEF HeapExact
<1> QED
  BY <1>1, <1>4, <1>5, <1>6 DEF HeapExact

\* The blocks an error path frees besides the call's own are none: a block the
\* call holds is neither global nor staged.
LEMMA LocalBlocksApart ==
    ASSUME IInv
    PROVE  (Held(LocalPtrs) \cup DataBlocks(slots))
             \cap (Held(GlobalPtrs) \cup DataBlocks(gSlots)) = {}
<1>1. Held(LocalPtrs) \cap Held(GlobalPtrs) = {}
  BY DEF IInv, HeapExact, Held, PtrNames, LocalPtrs, GlobalPtrs
<1>2. Held(LocalPtrs) \subseteq Held(PtrNames) /\ Held(GlobalPtrs) \subseteq Held(PtrNames)
  BY DEF Held, PtrNames
<1> QED
  BY <1>1, <1>2 DEF IInv, HeapExact

\* ps2_drivers_img_stage(): the path copy is the only block the call holds when
\* it enters stage_from_path().
LEMMA StageEntryKeeps ==
    ASSUME IInv, NEW p \in Paths \cup {NULL}, NEW R,
           ps2_drivers_img_stage(p, R)
    PROVE  IInv'
<1> USE DEF ps2_drivers_img_stage
<1>1. CASE Reject("ARGUMENT") \/ Reject("ALREADY_STAGED") \/ Reject("MEMORY")
  BY <1>1, RejectKeeps DEF Results
<1>2. CASE ~(Reject("ARGUMENT") \/ Reject("ALREADY_STAGED") \/ Reject("MEMORY"))
  <2> DEFINE b == Fresh(heap)
  <2>1. /\ pc = "idle" /\ p \in Paths /\ R # {} /\ R \subseteq Reqs /\ ~Active
        /\ CanAlloc(heap) /\ heap' = heap \cup {b}
        /\ ptr' = [ptr EXCEPT !["copy"] = b]
        /\ pc' = "open" /\ arg' = [by |-> "stage", path |-> p, req |-> R]
        /\ UNCHANGED <<globals, dir, slots, index, todo, bytes, result>>
    BY <1>2 DEF BadWord
  <2>2. b \in Blocks /\ b \notin heap /\ b # NULL
    BY <2>1, FreshIsFree
  <2> HIDE DEF b
  <2>3. TypeOK'
    BY <2>1, <2>2 DEF IInv, TypeOK, PcValues, globals, PtrNames, LocalPtrs
  <2>4. HeapExact'
    <3>1. "copy" \in PtrNames /\ ptr["copy"] = NULL
      BY <2>1 DEF IInv, CallInv, PtrNames, LocalPtrs
    <3>2. /\ Live(slots)' = Live(slots)
          /\ DataBlocks(slots)' = DataBlocks(slots)
          /\ \A i, j \in Live(slots)' : slots'[i].data = slots'[j].data => i = j
      BY <2>1 DEF IInv, HeapExact, DataBlocks, Live
    <3> QED
      BY <2>1, <2>2, <3>1, <3>2, AllocKeepsHeap DEF IInv, globals
  <2>5. CountExact' /\ SourceRemembered'
    BY <2>1 DEF IInv, TypeOK, CountExact, SourceRemembered, globals, Live,
                PtrNames, LocalPtrs, GlobalPtrs
  <2>6. CallInv' /\ LoopInv'
    BY <2>1, <2>2 DEF IInv, TypeOK, CallInv, LoopInv, globals,
                      PtrNames, LocalPtrs, GlobalPtrs
  <2> QED
    BY <2>3, <2>4, <2>5, <2>6 DEF IInv
<1> QED
  BY <1>1, <1>2

\* The boot, path and filesystem helpers add nothing to stage() but refusals.
LEMMA StageForKeeps ==
    ASSUME IInv, NEW p \in Paths, NEW base, NEW extra,
           StageFor(p, base, extra)
    PROVE  IInv'
<1>1. CASE Reject("ARGUMENT")
  BY <1>1, RejectKeeps DEF Results
<1>2. CASE ps2_drivers_img_stage(p, base \cup extra)
  BY <1>2, StageEntryKeeps
<1> QED
  BY <1>1, <1>2 DEF StageFor

\* ps2_drivers_img_restage() enters with no block of its own: the path it uses
\* is the remembered one.
LEMMA RestageEntryKeeps ==
    ASSUME IInv, NEW R, ps2_drivers_img_restage(R)
    PROVE  IInv'
<1> USE DEF ps2_drivers_img_restage
<1>1. CASE Reject("ARGUMENT") \/ Reject("NO_SOURCE")
  BY <1>1, RejectKeeps DEF Results
<1>2. CASE ~(Reject("ARGUMENT") \/ Reject("NO_SOURCE"))
  <2>1. /\ pc = "idle" /\ R # {} /\ R \subseteq Reqs /\ ptr["path"] # NULL
        /\ pc' = "open" /\ arg' = [by |-> "restage", path |-> source, req |-> R]
        /\ UNCHANGED <<heap, ptr, globals, dir, slots, index, todo, bytes, result>>
    BY <1>2 DEF BadWord
  <2>2. TypeOK'
    BY <2>1 DEF IInv, TypeOK, PcValues, globals
  <2>3. HeapExact'
    <3>1. Held(PtrNames)' = Held(PtrNames) /\ Live(slots)' = Live(slots)
          /\ Live(gSlots)' = Live(gSlots)
      BY <2>1 DEF Held, Live, globals
    <3>2. DataBlocks(slots)' = DataBlocks(slots)
          /\ DataBlocks(gSlots)' = DataBlocks(gSlots)
      BY <2>1, <3>1 DEF DataBlocks, globals
    <3> QED
      BY <2>1, <3>1, <3>2 DEF IInv, HeapExact, globals
  <2>4. CountExact' /\ SourceRemembered'
    BY <2>1 DEF IInv, CountExact, SourceRemembered, globals, Live
  <2>5. CallInv' /\ LoopInv'
    BY <2>1 DEF IInv, TypeOK, SourceRemembered, CallInv, LoopInv, globals
  <2> QED
    BY <2>2, <2>3, <2>4, <2>5 DEF IInv
<1> QED
  BY <1>1, <1>2

\* An error path whose free() calls name every local pointer that may be held.
LEMMA ErrorPathKeeps ==
    ASSUME IInv, NEW e \in Results, NEW names \in SUBSET LocalPtrs, NEW extra,
           \A k \in LocalPtrs : ptr[k] # NULL => k \in names \cup {"copy"},
           DataBlocks(slots) \subseteq extra,
           extra \cap heap \subseteq DataBlocks(slots),
           Fail(e, OnError(names) \cup extra)
    PROVE  IInv'
<1>1. OnError(names) = Held(LocalPtrs)
  BY DEF OnError, Held, LocalPtrs
<1>2. Held(GlobalPtrs) \cup DataBlocks(gSlots) \subseteq heap
  BY DEF IInv, HeapExact, Held, PtrNames
<1> QED
  BY <1>1, <1>2, FailKeeps, LocalBlocksApart

\* fopen() and the checks before it (447-466).
LEMMA OpenImageKeeps ==
    ASSUME IInv, OpenImage
    PROVE  IInv'
<1> USE DEF OpenImage
<1>1. ASSUME NEW e \in Results, Fail(e, OnError({}))
      PROVE  IInv'
  <2>1. slots = << >> /\ \A k \in LocalPtrs : ptr[k] # NULL => k = "copy"
    BY DEF IInv, CallInv, LoopInv, LocalPtrs
  <2>2. DataBlocks(slots) = {}
    BY <2>1 DEF DataBlocks, Live
  <2>3. Fail(e, OnError({}) \cup {})
    BY <1>1
  <2> QED
    BY <2>1, <2>2, <2>3, ErrorPathKeeps
<1>2. CASE \E e \in Results : Fail(e, OnError({}))
  BY <1>1, <1>2
<1>3. CASE ~ \E e \in Results : Fail(e, OnError({}))
  <2> DEFINE b == Fresh(heap)
  <2>1. /\ pc = "open" /\ ~Active /\ Requested(arg.req) # {} /\ CanAlloc(heap)
        /\ heap' = heap \cup {b} /\ ptr' = [ptr EXCEPT !["file"] = b]
        /\ pc' = "header"
        /\ UNCHANGED <<globals, arg, dir, slots, index, todo, bytes, result>>
    BY <1>3 DEF Results
  <2>2. b \in Blocks /\ b \notin heap /\ b # NULL
    BY <2>1, FreshIsFree
  <2> HIDE DEF b
  <2>3. TypeOK'
    BY <2>1, <2>2 DEF IInv, TypeOK, PcValues, globals, PtrNames, LocalPtrs
  <2>4. HeapExact'
    <3>1. "file" \in PtrNames /\ ptr["file"] = NULL
      BY <2>1 DEF IInv, CallInv, PtrNames, LocalPtrs
    <3>2. /\ Live(slots)' = Live(slots)
          /\ DataBlocks(slots)' = DataBlocks(slots)
          /\ \A i, j \in Live(slots)' : slots'[i].data = slots'[j].data => i = j
      BY <2>1 DEF IInv, HeapExact, DataBlocks, Live
    <3> QED
      BY <2>1, <2>2, <3>1, <3>2, AllocKeepsHeap DEF IInv, globals
  <2>5. CountExact' /\ SourceRemembered'
    BY <2>1 DEF IInv, TypeOK, CountExact, SourceRemembered, globals, Live,
                PtrNames, LocalPtrs, GlobalPtrs
  <2>6. CallInv' /\ LoopInv'
    BY <2>1, <2>2 DEF IInv, TypeOK, CallInv, LoopInv, globals, Active,
                      PtrNames, LocalPtrs, GlobalPtrs
  <2> QED
    BY <2>3, <2>4, <2>5, <2>6 DEF IInv
<1> QED
  BY <1>2, <1>3

\* The header, short, malformed or read.
LEMMA ReadHeaderKeeps ==
    ASSUME IInv, ReadHeader
    PROVE  IInv'
<1>1. ASSUME pc = "header", NEW e \in {"IO", "FORMAT"}, Fail(e, OnError({"file"}))
      PROVE  IInv'
  <2>1. slots = << >> /\ \A k \in LocalPtrs : ptr[k] # NULL => k \in {"file", "copy"}
    BY <1>1 DEF IInv, CallInv, LoopInv, LocalPtrs
  <2>2. DataBlocks(slots) = {}
    BY <2>1 DEF DataBlocks, Live
  <2>3. Fail(e, OnError({"file"}) \cup {}) /\ e \in Results
    BY <1>1 DEF Results
  <2>4. {"file"} \in SUBSET LocalPtrs
    BY DEF LocalPtrs
  <2> QED
    BY <2>1, <2>2, <2>3, <2>4, ErrorPathKeeps
<1>2. CASE /\ pc = "header" /\ pc' = "tables"
           /\ UNCHANGED <<heap, ptr, globals, arg, dir, slots, index, todo, bytes,
                          result>>
  <2>1. TypeOK'
    BY <1>2 DEF IInv, TypeOK, PcValues, globals
  <2>2. HeapExact'
    <3>1. Held(PtrNames)' = Held(PtrNames) /\ Live(slots)' = Live(slots)
          /\ Live(gSlots)' = Live(gSlots)
      BY <1>2 DEF Held, Live, globals
    <3>2. DataBlocks(slots)' = DataBlocks(slots)
          /\ DataBlocks(gSlots)' = DataBlocks(gSlots)
      BY <1>2, <3>1 DEF DataBlocks, globals
    <3> QED
      BY <1>2, <3>1, <3>2 DEF IInv, HeapExact, globals
  <2>3. CountExact' /\ SourceRemembered'
    BY <1>2 DEF IInv, CountExact, SourceRemembered, globals, Live
  <2>4. CallInv' /\ LoopInv'
    BY <1>2 DEF IInv, CallInv, LoopInv, globals
  <2> QED
    BY <2>1, <2>2, <2>3, <2>4 DEF IInv
<1> QED
  BY <1>1, <1>2 DEF ReadHeader

\* Both tables of parse_image_entries(), or none.
LEMMA AllocTablesKeeps ==
    ASSUME IInv, AllocTables
    PROVE  IInv'
<1>1. CASE pc = "tables" /\ Fail("MEMORY", OnError({"file"}))
  <2>1. slots = << >> /\ \A k \in LocalPtrs : ptr[k] # NULL => k \in {"file", "copy"}
    BY <1>1 DEF IInv, CallInv, LoopInv, LocalPtrs
  <2>2. DataBlocks(slots) = {}
    BY <2>1 DEF DataBlocks, Live
  <2>3. Fail("MEMORY", OnError({"file"}) \cup {}) /\ "MEMORY" \in Results
    BY <1>1 DEF Results
  <2>4. {"file"} \in SUBSET LocalPtrs
    BY DEF LocalPtrs
  <2> QED
    BY <2>1, <2>2, <2>3, <2>4, ErrorPathKeeps
<1>2. CASE ~(pc = "tables" /\ Fail("MEMORY", OnError({"file"})))
  <2> DEFINE t == Fresh(heap)
             n == Fresh(heap \cup {t})
  <2>1. /\ pc = "tables" /\ CanAlloc(heap) /\ CanAlloc(heap \cup {t})
        /\ heap' = heap \cup {t, n}
        /\ ptr' = [ptr EXCEPT !["table"] = t, !["entries"] = n]
        /\ pc' = "entries"
        /\ UNCHANGED <<globals, arg, dir, slots, index, todo, bytes, result>>
    BY <1>2 DEF AllocTables
  <2>2. /\ t \in Blocks /\ t \notin heap /\ t # NULL
        /\ n \in Blocks /\ n \notin heap /\ n # NULL /\ n # t
    BY <2>1, FreshIsFree
  <2> HIDE DEF t, n
  <2>3. TypeOK'
    BY <2>1, <2>2 DEF IInv, TypeOK, PcValues, globals, PtrNames, LocalPtrs
  <2>4. HeapExact'
    <3>1. ptr["table"] = NULL /\ ptr["entries"] = NULL
      BY <2>1 DEF IInv, CallInv
    <3>2. /\ Live(slots)' = Live(slots) /\ Live(gSlots)' = Live(gSlots)
          /\ DataBlocks(slots)' = DataBlocks(slots)
          /\ DataBlocks(gSlots)' = DataBlocks(gSlots)
      BY <2>1 DEF DataBlocks, Live, globals
    <3>3. Held(PtrNames)' = Held(PtrNames) \cup {t, n}
      BY <2>1, <2>2, <3>1 DEF IInv, TypeOK, Held, PtrNames, LocalPtrs, GlobalPtrs
    <3>4. \A l \in PtrNames : ptr[l] # t /\ ptr[l] # n
      BY <2>2 DEF IInv, HeapExact, Held
    <3>5. \A m, l \in PtrNames : ptr'[m] = ptr'[l] /\ ptr'[m] # NULL => m = l
      BY <2>1, <2>2, <3>4 DEF IInv, HeapExact, TypeOK, PtrNames, LocalPtrs
    <3>6. heap' = Held(PtrNames)' \cup DataBlocks(gSlots)' \cup DataBlocks(slots)'
      BY <2>1, <3>2, <3>3 DEF IInv, HeapExact
    <3>7. DataBlocks(gSlots)' \cap Held(PtrNames)' = {}
          /\ DataBlocks(slots)' \cap Held(PtrNames)' = {}
      BY <2>2, <3>2, <3>3 DEF IInv, HeapExact
    <3> QED
      BY <2>1, <3>2, <3>5, <3>6, <3>7 DEF IInv, HeapExact, globals
  <2>5. CountExact' /\ SourceRemembered'
    BY <2>1 DEF IInv, TypeOK, CountExact, SourceRemembered, globals, Live,
                PtrNames, LocalPtrs, GlobalPtrs
  <2>6. CallInv' /\ LoopInv'
    BY <2>1, <2>2 DEF IInv, TypeOK, CallInv, LoopInv, globals,
                      PtrNames, LocalPtrs, GlobalPtrs
  <2> QED
    BY <2>3, <2>4, <2>5, <2>6 DEF IInv
<1> QED
  BY <1>1, <1>2

\* The raw table is freed on success as well as on every error.
LEMMA ReadEntriesKeeps ==
    ASSUME IInv, ReadEntries
    PROVE  IInv'
<1>1. ASSUME pc = "entries", NEW e \in {"IO", "FORMAT"},
             Fail(e, OnError({"table", "entries", "file"}))
      PROVE  IInv'
  <2>1. slots = << >> /\ \A k \in LocalPtrs :
            ptr[k] # NULL => k \in {"table", "entries", "file", "copy"}
    BY <1>1 DEF IInv, CallInv, LoopInv, LocalPtrs
  <2>2. DataBlocks(slots) = {}
    BY <2>1 DEF DataBlocks, Live
  <2>3. Fail(e, OnError({"table", "entries", "file"}) \cup {}) /\ e \in Results
    BY <1>1 DEF Results
  <2>4. {"table", "entries", "file"} \in SUBSET LocalPtrs
    BY DEF LocalPtrs
  <2> QED
    BY <2>1, <2>2, <2>3, <2>4, ErrorPathKeeps
<1>2. CASE /\ pc = "entries" /\ dir' \in Images
           /\ heap' = heap \ Held({"table"})
           /\ ptr' = [ptr EXCEPT !["table"] = NULL]
           /\ pc' = "array"
           /\ UNCHANGED <<globals, arg, slots, index, todo, bytes, result>>
  <2>1. TypeOK'
    BY <1>2 DEF IInv, TypeOK, PcValues, globals, PtrNames, LocalPtrs
  <2>2. HeapExact'
    <3>1. /\ Live(slots)' = Live(slots) /\ Live(gSlots)' = Live(gSlots)
          /\ DataBlocks(slots)' = DataBlocks(slots)
          /\ DataBlocks(gSlots)' = DataBlocks(gSlots)
      BY <1>2 DEF DataBlocks, Live, globals
    <3>2. Held(PtrNames)' = Held(PtrNames) \ Held({"table"})
      <4>1. \A k \in PtrNames : ptr'[k] = IF k = "table" THEN NULL ELSE ptr[k]
        BY <1>2 DEF IInv, TypeOK
      <4> QED
        BY <4>1 DEF IInv, HeapExact, Held, PtrNames, LocalPtrs
    <3>3. Held({"table"}) \subseteq Held(PtrNames)
      BY DEF Held, PtrNames, LocalPtrs
    <3>4. \A m, l \in PtrNames : ptr'[m] = ptr'[l] /\ ptr'[m] # NULL => m = l
      BY <1>2 DEF IInv, HeapExact, TypeOK
    <3>5. heap' = Held(PtrNames)' \cup DataBlocks(gSlots)' \cup DataBlocks(slots)'
      BY <1>2, <3>1, <3>2, <3>3 DEF IInv, HeapExact
    <3>6. DataBlocks(gSlots)' \cap Held(PtrNames)' = {}
          /\ DataBlocks(slots)' \cap Held(PtrNames)' = {}
      BY <3>1, <3>2 DEF IInv, HeapExact
    <3> QED
      BY <1>2, <3>1, <3>4, <3>5, <3>6 DEF IInv, HeapExact, globals
  <2>3. CountExact' /\ SourceRemembered'
    BY <1>2 DEF IInv, TypeOK, CountExact, SourceRemembered, globals, Live,
                PtrNames, LocalPtrs, GlobalPtrs
  <2>4. CallInv' /\ LoopInv'
    BY <1>2 DEF IInv, TypeOK, CallInv, LoopInv, globals,
                PtrNames, LocalPtrs, GlobalPtrs
  <2> QED
    BY <2>1, <2>2, <2>3, <2>4 DEF IInv
<1> QED
  BY <1>1, <1>2 DEF ReadEntries

\* calloc() of the slots: as many as there are requested modules, all empty.
LEMMA AllocArrayKeeps ==
    ASSUME IInv, AllocArray
    PROVE  IInv'
<1>1. CASE pc = "array" /\ Fail("MEMORY", OnError({"entries", "file"}))
  <2>1. slots = << >> /\ \A k \in LocalPtrs :
            ptr[k] # NULL => k \in {"entries", "file", "copy"}
    BY <1>1 DEF IInv, CallInv, LoopInv, LocalPtrs
  <2>2. DataBlocks(slots) = {}
    BY <2>1 DEF DataBlocks, Live
  <2>3. Fail("MEMORY", OnError({"entries", "file"}) \cup {}) /\ "MEMORY" \in Results
    BY <1>1 DEF Results
  <2>4. {"entries", "file"} \in SUBSET LocalPtrs
    BY DEF LocalPtrs
  <2> QED
    BY <2>1, <2>2, <2>3, <2>4, ErrorPathKeeps
<1>2. CASE ~(pc = "array" /\ Fail("MEMORY", OnError({"entries", "file"})))
  <2> DEFINE b == Fresh(heap)
             n == Cardinality(Requested(arg.req))
  <2>1. /\ pc = "array" /\ CanAlloc(heap)
        /\ heap' = heap \cup {b} /\ ptr' = [ptr EXCEPT !["staged"] = b]
        /\ slots' = [i \in 1 .. n |-> EmptySlot]
        /\ todo' = Requested(arg.req)
        /\ pc' = "module"
        /\ UNCHANGED <<globals, arg, dir, index, bytes, result>>
    BY <1>2 DEF AllocArray
  <2>2. b \in Blocks /\ b \notin heap /\ b # NULL
    BY <2>1, FreshIsFree
  <2>3. n \in Nat /\ Requested(arg.req) \in SUBSET Ids
    BY RequestedFinite DEF IInv, TypeOK
  <2> HIDE DEF b, n
  <2>4. slots' \in Seq(Slot) /\ Len(slots') = n
        /\ \A i \in 1 .. n : slots'[i] = EmptySlot
    BY <2>1, <2>3 DEF EmptySlot, Slot
  <2>5. Live(slots)' = {} /\ DataBlocks(slots)' = {}
    BY <2>4 DEF Live, DataBlocks, EmptySlot
  <2>6. slots = << >> /\ index = 1
    BY <2>1 DEF IInv, LoopInv
  <2>7. TypeOK'
    BY <2>1, <2>2, <2>3, <2>4 DEF IInv, TypeOK, PcValues, globals, PtrNames, LocalPtrs
  <2>8. HeapExact'
    <3>1. "staged" \in PtrNames /\ ptr["staged"] = NULL
      BY <2>1 DEF IInv, CallInv, PtrNames, LocalPtrs
    <3>2. DataBlocks(slots) = {}
      BY <2>6 DEF DataBlocks, Live
    <3> QED
      BY <2>1, <2>2, <2>5, <3>1, <3>2, AllocKeepsHeap DEF IInv, globals
  <2>9. CountExact' /\ SourceRemembered'
    BY <2>1 DEF IInv, TypeOK, CountExact, SourceRemembered, globals, Live,
                PtrNames, LocalPtrs, GlobalPtrs
  <2>10. CallInv'
    BY <2>1, <2>2 DEF IInv, TypeOK, CallInv, globals, PtrNames, LocalPtrs, GlobalPtrs
  <2>11. LoopInv'
    BY <2>1, <2>3, <2>4, <2>6 DEF LoopInv, n, EmptySlot
  <2> QED
    BY <2>7, <2>8, <2>9, <2>10, <2>11 DEF IInv
<1> QED
  BY <1>1, <1>2

\* A payload is stored in the first empty slot, which exists because modules
\* still to stage and slots still empty are equally many.
LEMMA GoodPayloadKeeps ==
    ASSUME IInv, pc = "module", NEW id \in todo, GoodPayload(id)
    PROVE  IInv'
<1> DEFINE b == Fresh(heap)
           N == Requested(arg.req)
<1>1. b \in Blocks /\ b \notin heap /\ b # NULL
  BY FreshIsFree DEF GoodPayload
<1>2. /\ heap' = heap \cup {b}
      /\ slots' = [slots EXCEPT ![index] = [id |-> id, data |-> b, size |-> dir[id]]]
      /\ index' = index + 1 /\ bytes' = bytes + dir[id] /\ todo' = todo \ {id}
      /\ UNCHANGED <<ptr, globals, pc, arg, dir, result>>
      /\ id \in DOMAIN dir
  BY DEF GoodPayload
<1>3. /\ N \in SUBSET Ids /\ IsFiniteSet(N) /\ Cardinality(N) \in Nat
  BY RequestedFinite DEF IInv, TypeOK
<1> HIDE DEF b, N
<1>4. todo \subseteq N /\ IsFiniteSet(todo)
  BY <1>3, FS_Subset DEF IInv, LoopInv, N
<1>5. Cardinality(todo) \in Nat /\ Cardinality(todo) > 0
      /\ Cardinality(todo') = Cardinality(todo) - 1
  BY <1>2, <1>4, FS_RemoveElement, FS_EmptySet, FS_CardinalityType
<1>6. index \in 1 .. Len(slots)
  BY <1>5 DEF IInv, LoopInv, TypeOK
<1>7. dir[id] \in Nat
  <2>1. dir \in Images
    BY <1>2 DEF IInv, TypeOK
  <2> QED
    BY <1>2, <2>1, StagingAssumption
<1>8. /\ slots' \in Seq(Slot) /\ Len(slots') = Len(slots)
      /\ slots'[index] = [id |-> id, data |-> b, size |-> dir[id]]
      /\ \A i \in 1 .. Len(slots) : i # index => slots'[i] = slots[i]
  BY <1>1, <1>2, <1>3, <1>4, <1>6, <1>7 DEF IInv, TypeOK, Slot
<1>9. TypeOK'
  BY <1>1, <1>2, <1>7, <1>8 DEF IInv, TypeOK, PcValues, globals
<1>10. HeapExact'
  <2>1. /\ Live(gSlots)' = Live(gSlots) /\ DataBlocks(gSlots)' = DataBlocks(gSlots)
        /\ Held(PtrNames)' = Held(PtrNames)
    BY <1>2 DEF DataBlocks, Live, Held, globals
  <2>2. index \notin Live(slots)
    BY <1>6 DEF IInv, LoopInv, TypeOK, Live
  <2>3. Live(slots)' = Live(slots) \cup {index}
    BY <1>1, <1>6, <1>8 DEF Live
  <2>4. DataBlocks(slots)' = DataBlocks(slots) \cup {b}
    BY <1>8, <2>2, <2>3 DEF DataBlocks, Live
  <2>5. heap' = Held(PtrNames)' \cup DataBlocks(gSlots)' \cup DataBlocks(slots)'
    BY <1>2, <2>1, <2>4 DEF IInv, HeapExact
  <2>6. \A i \in Live(slots) : slots[i].data # b /\ slots'[i] = slots[i]
    BY <1>1, <1>8, <2>2 DEF IInv, HeapExact, DataBlocks, Live
  <2>7. \A i, j \in Live(slots)' : slots'[i].data = slots'[j].data => i = j
    BY <1>8, <2>3, <2>6 DEF IInv, HeapExact
  <2>8. /\ DataBlocks(slots)' \cap Held(PtrNames)' = {}
        /\ DataBlocks(gSlots)' \cap Held(PtrNames)' = {}
        /\ DataBlocks(gSlots)' \cap DataBlocks(slots)' = {}
    BY <1>1, <2>1, <2>4 DEF IInv, HeapExact
  <2>9. \A k, l \in PtrNames : ptr'[k] = ptr'[l] /\ ptr'[k] # NULL => k = l
    BY <1>2 DEF IInv, HeapExact
  <2>10. \A i, j \in Live(gSlots)' : gSlots'[i].data = gSlots'[j].data => i = j
    BY <1>2, <2>1 DEF IInv, HeapExact, globals
  <2> QED
    BY <2>5, <2>7, <2>8, <2>9, <2>10 DEF HeapExact
<1>11. CountExact' /\ SourceRemembered' /\ CallInv'
  BY <1>2 DEF IInv, CountExact, SourceRemembered, CallInv, globals, Live
<1>12. LoopInv'
  <2>1. /\ todo' \subseteq N /\ Len(slots') = Cardinality(N)
        /\ index' + Cardinality(todo') = Len(slots') + 1 /\ index' >= 1
    BY <1>2, <1>4, <1>5, <1>8 DEF IInv, LoopInv, TypeOK, N
  <2>2. \A i \in 1 .. Len(slots') : slots'[i].data # NULL <=> i < index'
    BY <1>1, <1>2, <1>6, <1>8 DEF IInv, LoopInv, TypeOK
  <2>3. \A i \in 1 .. Len(slots') : i < index' => slots'[i].id \in N \ todo'
    BY <1>2, <1>4, <1>6, <1>8 DEF IInv, LoopInv, TypeOK, N
  <2>4. \A x \in N \ todo' : \E i \in 1 .. Len(slots') : i < index' /\ slots'[i].id = x
    <3>1. ASSUME NEW x \in N \ todo'
          PROVE  \E i \in 1 .. Len(slots') : i < index' /\ slots'[i].id = x
      <4>1. CASE x = id
        BY <1>2, <1>6, <1>8, <4>1 DEF IInv, TypeOK
      <4>2. CASE x # id
        <5>1. PICK i \in 1 .. Len(slots) : i < index /\ slots[i].id = x
          BY <1>2, <3>1, <4>2 DEF IInv, LoopInv, N
        <5> QED
          BY <1>2, <1>6, <1>8, <5>1 DEF IInv, TypeOK
      <4> QED
        BY <4>1, <4>2
    <3> QED
      BY <3>1
  <2>5. \A i, j \in 1 .. Len(slots') :
           i < index' /\ j < index' /\ slots'[i].id = slots'[j].id => i = j
    <3>1. \A i \in 1 .. Len(slots) : i < index => slots[i].id # id /\ slots'[i] = slots[i]
      BY <1>6, <1>8 DEF IInv, LoopInv, TypeOK
    <3> QED
      BY <1>2, <1>6, <1>8, <3>1 DEF IInv, LoopInv, TypeOK
  <2> QED
    BY <1>2, <2>1, <2>2, <2>3, <2>4, <2>5 DEF LoopInv, N
<1> QED
  BY <1>9, <1>10, <1>11, <1>12 DEF IInv

\* One iteration of the loop over the identifiers, failing or not.
LEMMA StageModuleKeeps ==
    ASSUME IInv, StageModule
    PROVE  IInv'
<1>1. PICK id \in todo : MissingModule(id) \/ NoMemory(id) \/ BadPayload(id)
                         \/ GoodPayload(id)
  BY DEF StageModule
<1>2. pc = "module"
  BY DEF StageModule
<1>3. ASSUME NEW e \in Results, NEW extra, extra \cap heap = {},
             Fail(e, FailFrees \cup extra)
      PROVE  IInv'
  <2>1. \A k \in LocalPtrs :
            ptr[k] # NULL => k \in {"entries", "file", "staged"} \cup {"copy"}
    BY <1>2 DEF IInv, CallInv, LocalPtrs
  <2>2. Fail(e, OnError({"entries", "file", "staged"})
                \cup (DataBlocks(slots) \cup extra))
    <3>1. FailFrees \cup extra = OnError({"entries", "file", "staged"})
                \cup (DataBlocks(slots) \cup extra)
      BY DEF FailFrees
    <3> QED
      BY <1>3, <3>1
  <2>3. {"entries", "file", "staged"} \in SUBSET LocalPtrs
    BY DEF LocalPtrs
  <2> QED
    BY <1>3, <2>1, <2>2, <2>3, ErrorPathKeeps
<1>4. CASE MissingModule(id) \/ NoMemory(id)
  <2>1. \E e \in Results : Fail(e, FailFrees \cup {})
    BY <1>4 DEF MissingModule, NoMemory, Results
  <2> QED
    BY <1>3, <2>1
<1>5. CASE BadPayload(id)
  <2>1. Fresh(heap) \notin heap
    BY <1>5, FreshIsFree DEF BadPayload
  <2>2. \E e \in Results : Fail(e, FailFrees \cup {Fresh(heap)})
    BY <1>5 DEF BadPayload, Results
  <2> QED
    BY <1>3, <2>1, <2>2
<1>6. CASE GoodPayload(id)
  BY <1>2, <1>6, GoodPayloadKeeps
<1> QED
  BY <1>1, <1>4, <1>5, <1>6

\* When the loop ends every slot is filled, so the counter the code copies from
\* requested_count is the number of live slots.
LEMMA LoopDone ==
    ASSUME IInv, Commit
    PROVE  /\ Live(slots) = 1 .. Len(slots)
           /\ Len(slots) = Cardinality(Requested(arg.req))
           /\ Len(slots) > 0
           /\ {slots[i].id : i \in Live(slots)} = Requested(arg.req)
           /\ Cardinality(Live(slots)) = Len(slots)
<1>1. pc = "module" /\ todo = {}
  BY DEF Commit
<1>2. index = Len(slots) + 1 /\ Len(slots) = Cardinality(Requested(arg.req))
  BY <1>1, FS_EmptySet DEF IInv, LoopInv, TypeOK
<1>3. Live(slots) = 1 .. Len(slots)
  BY <1>1, <1>2 DEF IInv, LoopInv, TypeOK, Live
<1>4. Len(slots) > 0
  BY <1>1, <1>2, RequestedFinite, FS_EmptySet DEF IInv, TypeOK, CallInv
<1>5. {slots[i].id : i \in Live(slots)} = Requested(arg.req)
  BY <1>1, <1>2, <1>3 DEF IInv, LoopInv
<1>6. Cardinality(Live(slots)) = Len(slots)
  <2>1. Len(slots) \in Int /\ 1 \in Int
    BY DEF IInv, TypeOK
  <2>2. Cardinality(1 .. Len(slots)) = Len(slots)
    BY <1>4, <2>1, FS_Interval
  <2> QED
    BY <1>3, <2>2
<1> QED
  BY <1>2, <1>3, <1>4, <1>5, <1>6

\* Success: the locals become the globals, and the replaced path is freed.
LEMMA CommitKeeps ==
    ASSUME IInv, Commit
    PROVE  IInv'
<1> DEFINE kept == IF arg.by = "stage" THEN ptr["copy"] ELSE ptr["path"]
           gone == {"entries", "file"}
                     \cup (IF arg.by = "stage" THEN {"path"} ELSE {})
<1>1. /\ pc = "module" /\ todo = {} /\ ptr["modules"] = NULL /\ gSlots = << >>
      /\ ptr["table"] = NULL /\ ptr["staged"] # NULL /\ arg.path \in Paths
      /\ arg.req # {}
      /\ \/ arg.by = "stage" /\ ptr["copy"] # NULL
         \/ arg.by = "restage" /\ arg.path = source /\ ptr["copy"] = NULL
  BY DEF Commit, IInv, CallInv
<1>2. /\ gSlots' = slots /\ gBytes' = bytes /\ gLast' = arg.req /\ source' = arg.path
      /\ gCapacity' = Cardinality(Requested(arg.req))
      /\ gCount' = Cardinality(Requested(arg.req))
      /\ heap' = heap \ Held(gone)
      /\ ptr' = [k \in PtrNames |-> IF k = "modules" THEN ptr["staged"]
                                    ELSE IF k = "path" THEN kept ELSE NULL]
      /\ result' = "OK" /\ pc' = "idle" /\ arg' = NoArg /\ dir' = << >>
      /\ slots' = << >> /\ index' = 1 /\ todo' = {} /\ bytes' = 0
  BY DEF Commit
<1>3. kept # NULL /\ kept \in Blocks
  BY <1>1, StagingAssumption DEF IInv, TypeOK, SourceRemembered, PtrNames,
                                 LocalPtrs, GlobalPtrs
<1>4. Cardinality(Requested(arg.req)) \in Nat
  BY RequestedFinite DEF IInv, TypeOK
<1>5. TypeOK'
  BY <1>1, <1>2, <1>3, <1>4 DEF IInv, TypeOK, PcValues, Results, NoArg, PtrNames,
                                LocalPtrs
<1>6. /\ Live(gSlots)' = Live(slots) /\ DataBlocks(gSlots)' = DataBlocks(slots)
      /\ Live(slots)' = {} /\ DataBlocks(slots)' = {} /\ DataBlocks(gSlots) = {}
  BY <1>1, <1>2 DEF Live, DataBlocks
<1>7. HeapExact'
  <2>1. Held(PtrNames)' = {ptr["staged"], kept}
    BY <1>1, <1>2, <1>3 DEF Held, PtrNames, LocalPtrs, GlobalPtrs
  <2>2. Held(PtrNames) = Held(gone) \cup {ptr["staged"], kept}
    BY <1>1, <1>3 DEF Held, PtrNames, LocalPtrs, GlobalPtrs
  <2>3. ptr["staged"] \notin Held(gone) /\ kept \notin Held(gone) /\ ptr["staged"] # kept
    BY <1>1, <1>3 DEF IInv, HeapExact, Held, PtrNames, LocalPtrs, GlobalPtrs
  <2>4. Held(gone) \cap DataBlocks(slots) = {}
    BY <2>2 DEF IInv, HeapExact
  <2>5. heap' = Held(PtrNames)' \cup DataBlocks(gSlots)' \cup DataBlocks(slots)'
    <3>1. heap = Held(gone) \cup {ptr["staged"], kept} \cup DataBlocks(slots)
      BY <1>6, <2>2 DEF IInv, HeapExact
    <3>2. heap' = heap \ Held(gone)
      BY <1>2
    <3>3. heap' = {ptr["staged"], kept} \cup DataBlocks(slots)
      BY <2>3, <2>4, <3>1, <3>2
    <3> QED
      BY <1>6, <2>1, <3>3
  <2>6. \A k, l \in PtrNames : ptr'[k] = ptr'[l] /\ ptr'[k] # NULL => k = l
    BY <1>2, <2>3
  <2>7. DataBlocks(gSlots)' \cap Held(PtrNames)' = {}
    BY <1>6, <2>1, <2>2 DEF IInv, HeapExact
  <2>8. \A i, j \in Live(gSlots)' : gSlots'[i].data = gSlots'[j].data => i = j
    BY <1>2, <1>6 DEF IInv, HeapExact
  <2> QED
    BY <1>6, <2>5, <2>6, <2>7, <2>8 DEF HeapExact
<1>8. CountExact'
  <2>1. \A i, j \in Live(slots) : slots[i].id = slots[j].id => i = j
    BY <1>1 DEF IInv, LoopInv, Live
  <2>2. Live(gSlots)' # {} /\ ptr'["modules"] # NULL
    BY <1>1, <1>2, <1>6, LoopDone DEF PtrNames, GlobalPtrs
  <2> QED
    BY <1>2, <1>6, <2>1, <2>2, LoopDone DEF CountExact
<1>9. SourceRemembered'
  BY <1>1, <1>2, <1>3, StagingAssumption DEF SourceRemembered, PtrNames, GlobalPtrs
<1>10. CallInv' /\ LoopInv'
  BY <1>1, <1>2 DEF CallInv, LoopInv, PtrNames, LocalPtrs, GlobalPtrs
<1> QED
  BY <1>5, <1>7, <1>8, <1>9, <1>10 DEF IInv

\* ps2_drivers_img_discard_staged() frees the array and every payload.
LEMMA DiscardKeeps ==
    ASSUME IInv, ps2_drivers_img_discard_staged
    PROVE  IInv'
<1> USE DEF ps2_drivers_img_discard_staged, locals
<1>1. TypeOK'
  <2>1. ptr' \in [PtrNames -> Blocks \cup {NULL}] /\ heap' \subseteq Blocks
    BY DEF IInv, TypeOK
  <2>2. gSlots' \in Seq(Slot)
    OBVIOUS
  <2> QED
    BY <2>1, <2>2 DEF IInv, TypeOK
<1>2. /\ Live(gSlots)' = {} /\ DataBlocks(gSlots)' = {}
      /\ Live(slots)' = Live(slots) /\ DataBlocks(slots)' = DataBlocks(slots)
  BY DEF Live, DataBlocks
<1>3. HeapExact'
  <2>1. \A k \in PtrNames : ptr'[k] = IF k = "modules" THEN NULL ELSE ptr[k]
    BY DEF IInv, TypeOK
  <2>2. Held(PtrNames)' = Held(PtrNames) \ Held({"modules"})
        /\ Held({"modules"}) \subseteq Held(PtrNames)
    BY <2>1 DEF IInv, HeapExact, Held, PtrNames, GlobalPtrs
  <2>3. heap' = Held(PtrNames)' \cup DataBlocks(gSlots)' \cup DataBlocks(slots)'
    BY <1>2, <2>2 DEF IInv, HeapExact
  <2>4. \A k, l \in PtrNames : ptr'[k] = ptr'[l] /\ ptr'[k] # NULL => k = l
    BY <2>1 DEF IInv, HeapExact
  <2>5. DataBlocks(slots)' \cap Held(PtrNames)' = {}
    BY <1>2, <2>2 DEF IInv, HeapExact
  <2> QED
    BY <1>2, <2>3, <2>4, <2>5 DEF IInv, HeapExact
<1>4. CountExact' /\ SourceRemembered'
  BY <1>2, FS_EmptySet DEF IInv, TypeOK, CountExact, SourceRemembered,
                           PtrNames, GlobalPtrs
<1>5. CallInv' /\ LoopInv'
  BY DEF IInv, TypeOK, CallInv, LoopInv, PtrNames, LocalPtrs, GlobalPtrs
<1> QED
  BY <1>1, <1>3, <1>4, <1>5 DEF IInv

\* ps2_drivers_img_forget_source() frees the path and clears the request.
LEMMA ForgetKeeps ==
    ASSUME IInv, ps2_drivers_img_forget_source
    PROVE  IInv'
<1> USE DEF ps2_drivers_img_forget_source, locals
<1>1. TypeOK'
  BY DEF IInv, TypeOK
<1>2. /\ Live(gSlots)' = Live(gSlots) /\ DataBlocks(gSlots)' = DataBlocks(gSlots)
      /\ Live(slots)' = Live(slots) /\ DataBlocks(slots)' = DataBlocks(slots)
  BY DEF Live, DataBlocks
<1>3. HeapExact'
  <2>1. \A k \in PtrNames : ptr'[k] = IF k = "path" THEN NULL ELSE ptr[k]
    BY DEF IInv, TypeOK
  <2>2. Held(PtrNames)' = Held(PtrNames) \ Held({"path"})
        /\ Held({"path"}) \subseteq Held(PtrNames)
    BY <2>1 DEF IInv, HeapExact, Held, PtrNames, GlobalPtrs
  <2>3. heap' = Held(PtrNames)' \cup DataBlocks(gSlots)' \cup DataBlocks(slots)'
    BY <1>2, <2>2 DEF IInv, HeapExact
  <2>4. \A k, l \in PtrNames : ptr'[k] = ptr'[l] /\ ptr'[k] # NULL => k = l
    BY <2>1 DEF IInv, HeapExact
  <2>5. DataBlocks(slots)' \cap Held(PtrNames)' = {}
        /\ DataBlocks(gSlots)' \cap Held(PtrNames)' = {}
    BY <1>2, <2>2 DEF IInv, HeapExact
  <2> QED
    BY <1>2, <2>3, <2>4, <2>5 DEF IInv, HeapExact
<1>4. CountExact' /\ SourceRemembered'
  BY <1>2 DEF IInv, TypeOK, CountExact, SourceRemembered, PtrNames, LocalPtrs, GlobalPtrs
<1>5. CallInv' /\ LoopInv'
  BY DEF IInv, TypeOK, CallInv, LoopInv, PtrNames, LocalPtrs, GlobalPtrs
<1> QED
  BY <1>1, <1>3, <1>4, <1>5 DEF IInv

\* What a release does to the slots: the released one is no longer live, the
\* others stay, and the array goes with the last of them.
LEMMA ReleaseSlots ==
    ASSUME IInv, NEW id, NEW i \in Holding(id), ps2_drivers_img_release_staged(i)
    PROVE  /\ i \in Live(gSlots) /\ gSlots[i].id = id
           /\ Live(gSlots)' = Live(gSlots) \ {i}
           /\ DataBlocks(gSlots)' = DataBlocks(gSlots) \ {gSlots[i].data}
           /\ \A j \in Live(gSlots)' : gSlots'[j] = gSlots[j]
           /\ gSlots' \in Seq(Slot) /\ gCount' \in Nat
           /\ gCount' = Cardinality(Live(gSlots)')
           /\ \/ /\ ptr["modules"] # NULL /\ Live(gSlots)' = {} /\ gSlots' = << >>
                 /\ heap' = heap \ ({gSlots[i].data} \cup Held({"modules"}))
                 /\ ptr' = [ptr EXCEPT !["modules"] = NULL]
                 /\ gCapacity' = 0 /\ gBytes' = 0
              \/ /\ ptr["modules"] # NULL /\ Live(gSlots)' # {}
                 /\ Len(gSlots') = Len(gSlots)
                 /\ heap' = heap \ {gSlots[i].data}
                 /\ gBytes' = BytesLeft(i)
                 /\ ptr' = ptr /\ gCapacity' = gCapacity
<1> DEFINE S == Live(gSlots)
           left == IF gCount > 0 THEN gCount - 1 ELSE 0
<1>1. i \in S /\ gSlots[i].id = id /\ i \in 1 .. Len(gSlots)
  BY DEF Holding, IInv, CountExact, Live
<1>2. IsFiniteSet(S) /\ Cardinality(S) \in Nat
  <2>1. IsFiniteSet(1 .. Len(gSlots))
    BY FS_Interval DEF IInv, TypeOK
  <2>2. S \in SUBSET (1 .. Len(gSlots))
    BY DEF Live
  <2> QED
    BY <2>1, <2>2, FS_Subset, FS_CardinalityType
<1>3. Cardinality(S) > 0 /\ Cardinality(S \ {i}) = Cardinality(S) - 1
      /\ IsFiniteSet(S \ {i})
  BY <1>1, <1>2, FS_RemoveElement, FS_EmptySet
<1>4. left = Cardinality(S \ {i}) /\ gCount' = left /\ ptr["modules"] # NULL
  BY <1>1, <1>2, <1>3 DEF ps2_drivers_img_release_staged, IInv, CountExact
<1>5. left = 0 <=> S \ {i} = {}
  BY <1>3, <1>4, FS_EmptySet
<1>6. \A j \in S : j # i => gSlots[j].data # gSlots[i].data
  BY <1>1 DEF IInv, HeapExact
<1>7. CASE left = 0
  <2>1. /\ heap' = heap \ ({gSlots[i].data} \cup Held({"modules"}))
        /\ ptr' = [ptr EXCEPT !["modules"] = NULL]
        /\ gSlots' = << >> /\ gCapacity' = 0 /\ gBytes' = 0
    BY <1>4, <1>7 DEF ps2_drivers_img_release_staged, ArrayDone
  <2>2. Live(gSlots)' = {} /\ DataBlocks(gSlots)' = {} /\ gSlots' \in Seq(Slot)
    BY <2>1 DEF Live, DataBlocks
  <2>3. S = {i}
    BY <1>1, <1>5, <1>7
  <2>4. DataBlocks(gSlots) = {gSlots[i].data}
    BY <2>3 DEF DataBlocks
  <2> QED
    BY <1>1, <1>3, <1>4, <1>5, <1>7, <2>1, <2>2, <2>4, FS_CardinalityType
<1>8. CASE left # 0
  <2>1. /\ heap' = heap \ {gSlots[i].data}
        /\ gSlots' = [gSlots EXCEPT ![i] = [id |-> gSlots[i].id, data |-> NULL,
                                            size |-> 0]]
        /\ gBytes' = BytesLeft(i) /\ ptr' = ptr /\ gCapacity' = gCapacity
    BY <1>4, <1>8 DEF ps2_drivers_img_release_staged, ArrayDone
  <2>2. /\ gSlots' \in Seq(Slot) /\ Len(gSlots') = Len(gSlots)
        /\ gSlots'[i].data = NULL
        /\ \A j \in 1 .. Len(gSlots) : j # i => gSlots'[j] = gSlots[j]
    <3> DEFINE r == [id |-> gSlots[i].id, data |-> NULL, size |-> 0]
    <3>0. gSlots \in Seq(Slot) /\ gSlots[i] \in Slot
      BY <1>1 DEF IInv, TypeOK
    <3>1. gSlots \in Seq(Slot) /\ gSlots[i].id \in Ids \cup {0}
      BY <3>0 DEF Slot
    <3>2. r \in Slot /\ r.data = NULL
      BY <3>1 DEF Slot
    <3>3. gSlots' = [gSlots EXCEPT ![i] = r]
      BY <2>1
    <3> HIDE DEF r
    <3> QED
      BY <1>1, <3>1, <3>2, <3>3
  <2>3. Live(gSlots)' = S \ {i}
    BY <1>1, <2>2 DEF Live
  <2>4. \A j \in Live(gSlots)' : gSlots'[j] = gSlots[j]
    BY <2>2, <2>3 DEF Live
  <2>5. DataBlocks(gSlots)' = DataBlocks(gSlots) \ {gSlots[i].data}
    BY <1>6, <2>3, <2>4 DEF DataBlocks
  <2> QED
    BY <1>1, <1>3, <1>4, <1>5, <1>8, <2>1, <2>2, <2>3, <2>4, <2>5, FS_CardinalityType
<1> QED
  BY <1>7, <1>8

\* ps2_irx_exec(): a rejected module, or one slot released.
LEMMA ExecKeeps ==
    ASSUME IInv, NEW id \in Ids, ps2_irx_exec(id)
    PROVE  IInv'
<1>1. CASE Reject("NOT_STAGED")
  BY <1>1, RejectKeeps DEF Results
<1>2. CASE ~Reject("NOT_STAGED")
  <2>1. /\ pc = "idle" /\ result' = "EXECUTED"
        /\ UNCHANGED <<source, gLast, locals>>
    BY <1>2 DEF ps2_irx_exec
  <2>2. PICK i \in Holding(id) : ps2_drivers_img_release_staged(i)
    BY <1>2 DEF ps2_irx_exec
  <2>20. i \in Live(gSlots)
    BY <2>2, ReleaseSlots
  <2>3. Live(slots)' = Live(slots) /\ DataBlocks(slots)' = DataBlocks(slots)
        /\ slots' = slots
    BY <2>1 DEF Live, DataBlocks, locals
  <2>4. gBytes' \in Nat
    <3>0. i \in 1 .. Len(gSlots)
      BY <2>20 DEF Live
    <3>1. gSlots[i].size \in Nat
      <4>1. gSlots[i] \in Slot
        BY <3>0 DEF IInv, TypeOK
      <4> QED
        BY <4>1 DEF Slot
    <3>2. gBytes' = 0 \/ gBytes' = BytesLeft(i)
      BY <2>2, ReleaseSlots
    <3>3. gBytes \in Nat
      BY DEF IInv, TypeOK
    <3> QED
      BY <3>1, <3>2, <3>3 DEF BytesLeft
  <2>5. TypeOK'
    <3>1. gSlots' \in Seq(Slot) /\ gCount' \in Nat
          /\ gCapacity' \in Nat /\ heap' \subseteq Blocks
      BY <2>2, ReleaseSlots DEF IInv, TypeOK
    <3>2. ptr' \in [PtrNames -> Blocks \cup {NULL}]
      BY <2>2, ReleaseSlots DEF IInv, TypeOK
    <3> QED
      BY <2>1, <2>4, <3>1, <3>2 DEF IInv, TypeOK, Results, locals
  <2>6. HeapExact'
    <3>0. /\ DataBlocks(gSlots)' = DataBlocks(gSlots) \ {gSlots[i].data}
          /\ \A j, k \in Live(gSlots)' : gSlots'[j].data = gSlots'[k].data => j = k
      BY <2>2, ReleaseSlots DEF IInv, HeapExact
    <3>1. gSlots[i].data \notin Held(PtrNames) /\ gSlots[i].data \notin DataBlocks(slots)
      BY <2>20 DEF IInv, HeapExact, DataBlocks
    <3>2. Held({"modules"}) \subseteq Held(PtrNames)
          /\ Held({"modules"}) \cap DataBlocks(slots) = {}
          /\ Held({"modules"}) \cap DataBlocks(gSlots) = {}
      <4>1. Held({"modules"}) \subseteq Held(PtrNames)
        BY DEF Held, PtrNames, GlobalPtrs
      <4> QED
        BY <4>1 DEF IInv, HeapExact
    <3>3. CASE ptr' = ptr /\ heap' = heap \ {gSlots[i].data}
      <4>1. Held(PtrNames)' = Held(PtrNames)
        BY <3>3 DEF Held
      <4> QED
        BY <2>3, <3>0, <3>1, <3>3, <4>1 DEF IInv, HeapExact
    <3>4. CASE /\ ptr' = [ptr EXCEPT !["modules"] = NULL]
               /\ heap' = heap \ ({gSlots[i].data} \cup Held({"modules"}))
      <4>1. \A k \in PtrNames : ptr'[k] = IF k = "modules" THEN NULL ELSE ptr[k]
        BY <3>4 DEF IInv, TypeOK
      <4>2. Held(PtrNames)' = Held(PtrNames) \ Held({"modules"})
        BY <4>1 DEF IInv, HeapExact, Held, PtrNames, GlobalPtrs
      <4>3. \A k, l \in PtrNames : ptr'[k] = ptr'[l] /\ ptr'[k] # NULL => k = l
        BY <4>1 DEF IInv, HeapExact
      <4> QED
        BY <2>3, <3>0, <3>1, <3>2, <3>4, <4>2, <4>3 DEF IInv, HeapExact
    <3> QED
      BY <2>2, <3>3, <3>4, ReleaseSlots
  <2>7. CountExact'
    <3>1. gCapacity' = Len(gSlots')
      BY <2>2, ReleaseSlots DEF IInv, CountExact
    <3>2. ptr'["modules"] = NULL <=> Live(gSlots)' = {}
      BY <2>2, ReleaseSlots DEF IInv, TypeOK, PtrNames, GlobalPtrs
    <3>3. \A j, k \in Live(gSlots)' : gSlots'[j].id = gSlots'[k].id => j = k
      BY <2>2, ReleaseSlots DEF IInv, CountExact
    <3> QED
      BY <2>2, <3>1, <3>2, <3>3, ReleaseSlots DEF CountExact
  <2>8. ptr' = ptr \/ ptr' = [ptr EXCEPT !["modules"] = NULL]
    BY <2>2, ReleaseSlots
  <2>9. ptr'["modules"] = NULL => gSlots' = << >>
    BY <2>2, ReleaseSlots DEF IInv, TypeOK, PtrNames, GlobalPtrs
  <2>10. SourceRemembered'
    BY <2>1, <2>8 DEF IInv, TypeOK, SourceRemembered, PtrNames, GlobalPtrs
  <2>11. CallInv' /\ LoopInv'
    BY <2>1, <2>8, <2>9 DEF IInv, TypeOK, CallInv, LoopInv, locals, PtrNames,
                            LocalPtrs, GlobalPtrs
  <2> QED
    BY <2>5, <2>6, <2>7, <2>10, <2>11 DEF IInv
<1> QED
  BY <1>1, <1>2

-----------------------------------------------------------------------------
\* At start-up no call is active and every global is zero or NULL.
LEMMA InitEstablishes == Init => IInv
<1> SUFFICES ASSUME Init PROVE IInv
  OBVIOUS
<1> USE DEF Init
<1>1. TypeOK
  BY DEF TypeOK, PcValues, Results, NoArg
<1>2. Live(gSlots) = {} /\ Live(slots) = {} /\ DataBlocks(gSlots) = {}
      /\ DataBlocks(slots) = {} /\ Held(PtrNames) = {}
  BY DEF Live, DataBlocks, Held
<1>3. HeapExact
  BY <1>2 DEF HeapExact
<1>4. CountExact
  BY <1>2, FS_EmptySet DEF CountExact, PtrNames, GlobalPtrs
<1>5. SourceRemembered /\ CallInv /\ LoopInv
  BY DEF SourceRemembered, CallInv, LoopInv, PtrNames, GlobalPtrs, LocalPtrs
<1> QED
  BY <1>1, <1>3, <1>4, <1>5 DEF IInv

\* The invariant reads only the variables.
LEMMA StutterKeeps == IInv /\ UNCHANGED vars => IInv'
<1> SUFFICES ASSUME IInv, UNCHANGED vars PROVE IInv'
  OBVIOUS
<1>1. Reject(result) /\ result \in Results
  BY DEF vars, Reject, globals, locals, IInv, TypeOK
<1> QED
  BY <1>1, RejectKeeps

\* Every call and every step inside a call keeps the invariant.
LEMMA StepKeeps == IInv /\ [Next]_vars => IInv'
<1> SUFFICES ASSUME IInv, [Next]_vars PROVE IInv'
  OBVIOUS
<1>1. ASSUME NEW p \in Paths \cup {NULL}, NEW R \in Requests, ps2_drivers_img_stage(p, R)
      PROVE  IInv'
  BY <1>1, StageEntryKeeps
<1>2. ASSUME NEW p \in Paths, NEW base, NEW R \in Requests, StageFor(p, base, R)
      PROVE  IInv'
  BY <1>2, StageForKeeps
<1>3. ASSUME NEW p \in Paths, NEW base \in Bases, NEW R \in Requests,
             StageForCurrentBoot(p, base, R)
      PROVE  IInv'
  BY <1>3, StageForKeeps, RejectKeeps DEF StageForCurrentBoot, Results
<1>4. ASSUME NEW R \in Requests, ps2_drivers_img_restage(R)
      PROVE  IInv'
  BY <1>4, RestageEntryKeeps
<1>5. CASE ps2_drivers_img_restage_last
  BY <1>5, RestageEntryKeeps, RejectKeeps DEF ps2_drivers_img_restage_last, Results
<1>6. CASE ps2_drivers_img_discard_staged
  BY <1>6, DiscardKeeps
<1>7. CASE ps2_drivers_img_forget_source
  BY <1>7, ForgetKeeps
<1>8. ASSUME NEW id \in Ids, ps2_irx_exec(id)
      PROVE  IInv'
  BY <1>8, ExecKeeps
<1>9. CASE Step
  BY <1>9, OpenImageKeeps, ReadHeaderKeeps, AllocTablesKeeps, ReadEntriesKeeps,
     AllocArrayKeeps, StageModuleKeeps, CommitKeeps DEF Step
<1>10. CASE UNCHANGED vars
  BY <1>10, StutterKeeps
<1> QED
  BY <1>1, <1>2, <1>3, <1>4, <1>5, <1>6, <1>7, <1>8, <1>9, <1>10 DEF Next, Call

\* The inductive invariant holds in every reachable state of the provider.
THEOREM Invariance == Spec => []IInv
<1>1. Init => IInv
  BY InitEstablishes
<1>2. IInv /\ [Next]_vars => IInv'
  BY StepKeeps
<1> QED
  BY <1>1, <1>2, PTL DEF Spec

\* Every variable of the provider keeps its type, for any image, any heap and
\* any sequence of calls.
THEOREM TypeCorrect == Spec => []TypeOK
<1>1. IInv => TypeOK
  BY DEF IInv
<1> QED
  BY <1>1, Invariance, PTL

\* No path through ps2_drivers_img.c leaks a block, frees one twice or leaves a
\* pointer to a freed one.
THEOREM HeapSafe == Spec => []HeapExact
<1>1. IInv => HeapExact
  BY DEF IInv
<1> QED
  BY <1>1, Invariance, PTL

\* The counter and the array pointer that decide ALREADY_STAGED always agree
\* with the slots.
THEOREM CountersExact == Spec => []CountExact
<1>1. IInv => CountExact
  BY DEF IInv
<1> QED
  BY <1>1, Invariance, PTL

\* The remembered path and the remembered request come and go together.
THEOREM SourceKept == Spec => []SourceRemembered
<1>1. IInv => SourceRemembered
  BY DEF IInv
<1> QED
  BY <1>1, Invariance, PTL

-----------------------------------------------------------------------------
(* The byte counters.                                                      *)

\* The bytes counted are those of the slots filled, in the array that is being
\* filled as in the one that is staged.
BytesInv == BytesExact /\ bytes = Cardinality(Payload(slots))

\* An array without payloads has no bytes.
LEMMA PayloadNone ==
    ASSUME NEW s, Live(s) = {}
    PROVE  Cardinality(Payload(s)) = 0
<1>1. Payload(s) = {}
  BY DEF Payload
<1> QED
  BY <1>1, FS_EmptySet

\* The bytes of one slot.
LEMMA SlotBytes ==
    ASSUME NEW i, NEW n \in Nat
    PROVE  IsFiniteSet({i} \X (1 .. n)) /\ Cardinality({i} \X (1 .. n)) = n
<1>1. IsFiniteSet({i}) /\ Cardinality({i}) = 1
  BY FS_Singleton
<1>2. IsFiniteSet(1 .. n) /\ Cardinality(1 .. n) = n
  BY FS_Interval
<1>3. /\ IsFiniteSet({i} \X (1 .. n))
      /\ Cardinality({i} \X (1 .. n)) = Cardinality({i}) * Cardinality(1 .. n)
  BY <1>1, <1>2, FS_Product
<1> QED
  BY <1>1, <1>2, <1>3

\* The bytes of an array are finitely many.
LEMMA PayloadFinite ==
    ASSUME NEW s \in Seq(Slot)
    PROVE  IsFiniteSet(Payload(s)) /\ Cardinality(Payload(s)) \in Nat
<1> DEFINE Bytes(i) == {i} \X (1 .. s[i].size)
           T == {Bytes(i) : i \in Live(s)}
<1>1. \A i \in Live(s) : s[i].size \in Nat
  <2>1. \A i \in 1 .. Len(s) : s[i] \in Slot
    OBVIOUS
  <2> QED
    BY <2>1 DEF Live, Slot
<1>2. IsFiniteSet(Live(s))
  <2>1. IsFiniteSet(1 .. Len(s)) /\ Live(s) \in SUBSET (1 .. Len(s))
    BY FS_Interval DEF Live
  <2> QED
    BY <2>1, FS_Subset
<1>3. IsFiniteSet(T)
  <2> DEFINE f == [i \in Live(s) |-> Bytes(i)]
  <2>1. f \in Surjection(Live(s), T)
    BY DEF Surjection
  <2> HIDE DEF f, T
  <2> QED
    BY <1>2, <2>1, FS_Surjection
<1>4. \A b \in T : IsFiniteSet(b)
  <2>1. ASSUME NEW i \in Live(s) PROVE IsFiniteSet(Bytes(i))
    <3>1. PICK n \in Nat : n = s[i].size
      BY <1>1
    <3>2. IsFiniteSet({i} \X (1 .. n))
      BY SlotBytes
    <3> QED
      BY <3>1, <3>2
  <2> QED
    BY <2>1, Zenon
<1>5. Payload(s) = UNION T
  BY DEF Payload
<1> HIDE DEF T
<1> QED
  BY <1>3, <1>4, <1>5, FS_UNION, FS_CardinalityType

\* One payload more is its size in bytes more.
LEMMA PayloadAdd ==
    ASSUME NEW s \in Seq(Slot), NEW t \in Seq(Slot), NEW i \in Live(t),
           Live(s) = Live(t) \ {i}, \A j \in Live(s) : s[j].size = t[j].size
    PROVE  /\ Cardinality(Payload(s)) \in Nat /\ t[i].size \in Nat
           /\ Cardinality(Payload(t)) = Cardinality(Payload(s)) + t[i].size
<1> DEFINE B == {i} \X (1 .. t[i].size)
<1>1. t[i].size \in Nat
  <2>1. t[i] \in Slot
    BY DEF Live
  <2> QED
    BY <2>1 DEF Slot
<1>2. IsFiniteSet(B) /\ Cardinality(B) = t[i].size
  BY <1>1, SlotBytes
<1>3. IsFiniteSet(Payload(s)) /\ Cardinality(Payload(s)) \in Nat
  BY PayloadFinite
<1>4. Payload(t) = Payload(s) \cup B
  <2>1. Payload(t) = (UNION {{j} \X (1 .. t[j].size) : j \in Live(s)}) \cup B
    BY DEF Payload
  <2>2. Payload(s) = UNION {{j} \X (1 .. t[j].size) : j \in Live(s)}
    BY DEF Payload
  <2> QED
    BY <2>1, <2>2
<1>5. Payload(s) \cap B = {}
  BY DEF Payload
<1> HIDE DEF B
<1>6. Cardinality(Payload(t)) =
         Cardinality(Payload(s)) + Cardinality(B) - Cardinality(Payload(s) \cap B)
  BY <1>2, <1>3, <1>4, FS_Union
<1>7. Cardinality(Payload(s) \cap B) = 0
  BY <1>5, FS_EmptySet
<1> QED
  BY <1>1, <1>2, <1>3, <1>6, <1>7

\* A step that changes neither array nor counter.
LEMMA BytesStay ==
    ASSUME BytesInv, UNCHANGED <<gSlots, gBytes, slots, bytes>>
    PROVE  BytesInv'
BY DEF BytesInv, BytesExact, Payload, Live

\* An error return counts no byte of the call it ends.
LEMMA FailBytes ==
    ASSUME BytesInv, NEW e, NEW F, Fail(e, F)
    PROVE  BytesInv'
<1>1. slots' = << >> /\ bytes' = 0 /\ UNCHANGED <<gSlots, gBytes>>
  BY DEF Fail, globals
<1>2. Live(slots') = {} /\ Payload(gSlots)' = Payload(gSlots)
  BY <1>1 DEF Live, Payload
<1>3. Cardinality(Payload(slots')) = 0
  BY <1>2, PayloadNone
<1> QED
  BY <1>1, <1>2, <1>3 DEF BytesInv, BytesExact

\* A payload that was read adds its size to both.
LEMMA GoodPayloadBytes ==
    ASSUME IInv, BytesInv, pc = "module", NEW id \in todo, GoodPayload(id)
    PROVE  BytesInv'
<1>1. IInv'
  BY GoodPayloadKeeps
<1>2. slots \in Seq(Slot) /\ slots' \in Seq(Slot)
  BY <1>1 DEF IInv, TypeOK
<1>3. /\ slots' = [slots EXCEPT ![index] = [id |-> id, data |-> Fresh(heap),
                                            size |-> dir[id]]]
      /\ bytes' = bytes + dir[id] /\ index' = index + 1 /\ UNCHANGED <<gSlots, gBytes>>
      /\ Len(slots') = Len(slots)
  BY <1>2 DEF GoodPayload, globals
<1>4. Fresh(heap) # NULL
  BY FreshIsFree DEF GoodPayload
<1>5. index \in 1 .. Len(slots)
  <2>1. /\ index + 1 + Cardinality(todo') = Len(slots) + 1 /\ index >= 1 /\ index \in Nat
        /\ pc' = "module"
    BY <1>1, <1>3 DEF IInv, LoopInv, TypeOK, GoodPayload
  <2>2. Cardinality(todo') \in Nat
    <3>1. arg' = arg /\ todo' \subseteq Requested(arg.req) /\ arg.req \in SUBSET Reqs
      BY <1>1, <2>1 DEF IInv, LoopInv, TypeOK, GoodPayload
    <3>2. IsFiniteSet(Requested(arg.req))
      BY <3>1, RequestedFinite
    <3> QED
      BY <3>1, <3>2, FS_Subset, FS_CardinalityType
  <2> QED
    BY <1>2, <2>1, <2>2
<1>6. /\ slots'[index].data # NULL /\ slots'[index].size = dir[id]
      /\ \A i \in 1 .. Len(slots) : i # index => slots'[i] = slots[i]
  BY <1>2, <1>3, <1>4, <1>5
<1>7. index \notin Live(slots)
  BY <1>5 DEF IInv, LoopInv, TypeOK, Live
<1>8. /\ index \in Live(slots') /\ Live(slots) = Live(slots') \ {index}
      /\ \A j \in Live(slots) : slots[j].size = slots'[j].size
  BY <1>3, <1>5, <1>6, <1>7 DEF Live
<1>9. /\ Cardinality(Payload(slots)) \in Nat
      /\ Cardinality(Payload(slots')) = Cardinality(Payload(slots)) + dir[id]
  BY <1>2, <1>6, <1>8, PayloadAdd
<1>10. Payload(gSlots)' = Payload(gSlots)
  BY <1>3 DEF Payload, Live
<1> QED
  BY <1>3, <1>9, <1>10 DEF BytesInv, BytesExact

\* A release takes off what its slot holds, and the last one takes off the rest.
LEMMA ReleaseBytes ==
    ASSUME IInv, BytesInv, NEW id, NEW i \in Holding(id),
           ps2_drivers_img_release_staged(i), UNCHANGED <<slots, bytes>>
    PROVE  BytesInv'
<1>1. /\ i \in Live(gSlots) /\ Live(gSlots') = Live(gSlots) \ {i}
      /\ \A j \in Live(gSlots') : gSlots'[j] = gSlots[j]
      /\ gSlots' \in Seq(Slot)
      /\ (Live(gSlots') = {} /\ gBytes' = 0) \/ gBytes' = BytesLeft(i)
  BY ReleaseSlots DEF Live
<1>2. gSlots \in Seq(Slot) /\ gBytes = Cardinality(Payload(gSlots))
  BY DEF IInv, TypeOK, BytesInv, BytesExact
<1>3. /\ Cardinality(Payload(gSlots')) \in Nat /\ gSlots[i].size \in Nat
      /\ gBytes = Cardinality(Payload(gSlots')) + gSlots[i].size
  BY <1>1, <1>2, PayloadAdd
<1>4. gBytes' = Cardinality(Payload(gSlots'))
  <2>1. CASE Live(gSlots') = {} /\ gBytes' = 0
    BY <2>1, PayloadNone
  <2>2. CASE gBytes' = BytesLeft(i)
    BY <1>3, <2>2 DEF BytesLeft
  <2> QED
    BY <1>1, <2>1, <2>2
<1>5. Payload(slots)' = Payload(slots)
  BY DEF Payload, Live
<1> QED
  BY <1>4, <1>5 DEF BytesInv, BytesExact

\* Every call and every step keep the byte counters exact.
LEMMA StepBytes == IInv /\ BytesInv /\ [Next]_vars => BytesInv'
<1> SUFFICES ASSUME IInv, BytesInv, [Next]_vars PROVE BytesInv'
  OBVIOUS
<1>1. ASSUME NEW e, NEW F, Fail(e, F) PROVE BytesInv'
  BY <1>1, FailBytes
<1>2. ASSUME UNCHANGED <<gSlots, gBytes, slots, bytes>> PROVE BytesInv'
  BY <1>2, BytesStay
<1>3. ASSUME NEW e, Reject(e) PROVE BytesInv'
  BY <1>2, <1>3 DEF Reject, globals, locals
<1>4. ASSUME NEW p, NEW R, ps2_drivers_img_stage(p, R) PROVE BytesInv'
  BY <1>2, <1>3, <1>4 DEF ps2_drivers_img_stage, globals
<1>5. ASSUME NEW p, NEW base, NEW extra, StageFor(p, base, extra) PROVE BytesInv'
  BY <1>3, <1>4, <1>5 DEF StageFor
<1>6. ASSUME NEW p, NEW base, NEW extra, StageForCurrentBoot(p, base, extra)
      PROVE  BytesInv'
  BY <1>3, <1>5, <1>6 DEF StageForCurrentBoot
<1>7. ASSUME NEW R, ps2_drivers_img_restage(R) PROVE BytesInv'
  BY <1>2, <1>3, <1>7 DEF ps2_drivers_img_restage, globals
<1>8. CASE ps2_drivers_img_restage_last
  BY <1>3, <1>7, <1>8 DEF ps2_drivers_img_restage_last
<1>9. CASE ps2_drivers_img_discard_staged
  <2>1. gSlots' = << >> /\ gBytes' = 0 /\ UNCHANGED <<slots, bytes>>
    BY <1>9 DEF ps2_drivers_img_discard_staged, locals
  <2>2. Live(gSlots') = {} /\ Payload(slots)' = Payload(slots)
    BY <2>1 DEF Live, Payload
  <2>3. Cardinality(Payload(gSlots')) = 0
    BY <2>2, PayloadNone
  <2> QED
    BY <2>1, <2>2, <2>3 DEF BytesInv, BytesExact
<1>10. CASE ps2_drivers_img_forget_source
  BY <1>2, <1>10 DEF ps2_drivers_img_forget_source, locals
<1>11. ASSUME NEW id \in Ids, ps2_irx_exec(id) PROVE BytesInv'
  <2>1. CASE Reject("NOT_STAGED")
    BY <1>3, <2>1
  <2>2. CASE ~Reject("NOT_STAGED")
    <3>1. PICK i \in Holding(id) : ps2_drivers_img_release_staged(i)
      BY <1>11, <2>2 DEF ps2_irx_exec
    <3>2. UNCHANGED <<slots, bytes>>
      BY <1>11, <2>2 DEF ps2_irx_exec, locals
    <3> QED
      BY <3>1, <3>2, ReleaseBytes
  <2> QED
    BY <2>1, <2>2
<1>12. CASE OpenImage \/ ReadHeader \/ AllocTables \/ ReadEntries
  BY <1>1, <1>2, <1>12 DEF OpenImage, ReadHeader, AllocTables, ReadEntries, globals
<1>13. CASE AllocArray
  <2>1. CASE pc = "array" /\ Fail("MEMORY", OnError({"entries", "file"}))
    BY <1>1, <2>1
  <2>2. CASE ~(pc = "array" /\ Fail("MEMORY", OnError({"entries", "file"})))
    <3>1. /\ pc = "array" /\ UNCHANGED <<gSlots, gBytes, bytes>>
          /\ slots' = [i \in 1 .. Cardinality(Requested(arg.req)) |-> EmptySlot]
      BY <1>13, <2>2 DEF AllocArray, globals
    <3>2. Cardinality(Requested(arg.req)) \in Nat
      BY RequestedFinite DEF IInv, TypeOK
    <3>3. Live(slots') = {} /\ Payload(gSlots)' = Payload(gSlots)
      BY <3>1, <3>2 DEF Live, EmptySlot, Payload
    <3>4. Cardinality(Payload(slots')) = 0
      BY <3>3, PayloadNone
    <3>5. bytes = 0
      BY <3>1 DEF IInv, LoopInv
    <3> QED
      BY <3>1, <3>3, <3>4, <3>5 DEF BytesInv, BytesExact
  <2> QED
    BY <2>1, <2>2
<1>14. CASE StageModule
  <2>1. PICK id \in todo : MissingModule(id) \/ NoMemory(id) \/ BadPayload(id)
                           \/ GoodPayload(id)
    BY <1>14 DEF StageModule
  <2>2. pc = "module"
    BY <1>14 DEF StageModule
  <2> QED
    BY <1>1, <2>1, <2>2, GoodPayloadBytes DEF MissingModule, NoMemory, BadPayload
<1>15. CASE Commit
  <2>1. gSlots' = slots /\ gBytes' = bytes /\ slots' = << >> /\ bytes' = 0
    BY <1>15 DEF Commit
  <2>2. Live(slots') = {} /\ Payload(gSlots') = Payload(slots)
    BY <2>1 DEF Live
  <2>3. Cardinality(Payload(slots')) = 0
    BY <2>2, PayloadNone
  <2> QED
    BY <2>1, <2>2, <2>3 DEF BytesInv, BytesExact
<1>16. CASE UNCHANGED vars
  BY <1>2, <1>16 DEF vars, globals, locals
<1> QED
  BY <1>4, <1>5, <1>6, <1>7, <1>8, <1>9, <1>10, <1>11, <1>12, <1>13, <1>14, <1>15, <1>16
     DEF Next, Call, Step

\* g_staged_bytes is the number of bytes still staged, for any sizes and any order
\* of releases: the clamp at zero is never what makes it so.
THEOREM BytesCounted == Spec => []BytesExact
<1>1. Init => BytesInv
  <2> SUFFICES ASSUME Init PROVE BytesInv
    OBVIOUS
  <2>1. gSlots = << >> /\ slots = << >> /\ gBytes = 0 /\ bytes = 0
    BY DEF Init
  <2>2. Live(gSlots) = {} /\ Live(slots) = {}
    BY <2>1 DEF Live
  <2> QED
    BY <2>1, <2>2, PayloadNone DEF BytesInv, BytesExact
<1>2. IInv /\ BytesInv /\ [Next]_vars => BytesInv'
  BY StepBytes
<1>3. BytesInv => BytesExact
  BY DEF BytesInv
<1> QED
  BY <1>1, <1>2, <1>3, Invariance, PTL DEF Spec

-----------------------------------------------------------------------------
(* Refinement.  A call of the application is the contract's Start, or its  *)
(* whole answer when it is refused at once; inside a call every step but   *)
(* the last is a stutter, and the last is Refuse or, for Commit, Succeed.  *)

\* What a running call works with is what the application asked for: the image
\* it named or the remembered one, the word it named or the remembered one.
AskedInv ==
    pc # "idle" =>
       /\ asked.op \in C!StagingOps
       /\ arg.path = IF asked.op = "stage" THEN asked.path ELSE source
       /\ arg.req = IF asked.op = "restage_last" THEN gLast ELSE asked.req

\* What is staged, and what is remembered, are functions of these globals.
LEMMA UnseenStep ==
    ASSUME UNCHANGED globals
    PROVE  StagedIds' = StagedIds /\ UNCHANGED <<source, gLast>>
<1>1. gSlots' = gSlots /\ source' = source /\ gLast' = gLast
  BY DEF globals
<1>2. Live(gSlots)' = Live(gSlots)
  BY <1>1 DEF Live
<1>3. StagedIds' = StagedIds
  BY <1>1, <1>2 DEF StagedIds
<1> QED
  BY <1>1, <1>3

\* A call that is refused as already staged finds something staged.
LEMMA ActiveStaged ==
    ASSUME IInv, Active
    PROVE  StagedIds # {}
<1>1. Live(gSlots) # {}
  <2>1. CASE ptr["modules"] # NULL
    BY <2>1 DEF IInv, CountExact
  <2>2. CASE gCount # 0
    BY <2>2, FS_EmptySet DEF IInv, CountExact
  <2> QED
    BY <2>1, <2>2 DEF Active
<1> QED
  BY <1>1 DEF StagedIds

\* How a staging call answers at once.
RefusedAtOnce(e) ==
    /\ pc = "idle" /\ Reject(e) /\ e \in C!Errors
    /\ e = "ALREADY_STAGED" => Active
    /\ e = "NO_SOURCE" => ptr["path"] = NULL \/ gLast = {}

\* How a staging call gets under way, with this image and this word.
Begun(by, p, R) ==
    /\ pc = "idle" /\ pc' = "open"
    /\ arg' = [by |-> by, path |-> p, req |-> R]
    /\ UNCHANGED globals

\* ps2_drivers_img_stage() is refused at once, or under way with what it was
\* asked; no source is not one of its errors.
LEMMA StageSeen ==
    ASSUME NEW p, NEW R, ps2_drivers_img_stage(p, R)
    PROVE  Begun("stage", p, R) \/ \E e : RefusedAtOnce(e) /\ e # "NO_SOURCE"
<1> USE DEF ps2_drivers_img_stage
<1>1. ASSUME NEW e \in {"ARGUMENT", "MEMORY"}, Reject(e)
      PROVE  \E x : RefusedAtOnce(x) /\ x # "NO_SOURCE"
  BY <1>1 DEF RefusedAtOnce, C!Errors
<1>2. CASE p = NULL \/ BadWord(R)
  BY <1>1, <1>2
<1>3. CASE ~(p = NULL \/ BadWord(R)) /\ Active
  BY <1>3 DEF RefusedAtOnce, C!Errors
<1>4. CASE ~(p = NULL \/ BadWord(R)) /\ ~Active
  BY <1>1, <1>4 DEF Begun
<1> QED
  BY <1>2, <1>3, <1>4

\* So are the helpers that put a word together.
LEMMA StageForSeen ==
    ASSUME NEW p, NEW base, NEW extra,
           StageFor(p, base, extra) \/ StageForCurrentBoot(p, base, extra)
    PROVE  \/ base # NULL /\ Begun("stage", p, base \cup extra)
           \/ \E e : RefusedAtOnce(e) /\ e # "NO_SOURCE"
<1>1. ASSUME NEW e \in {"ARGUMENT", "CWD"}, pc = "idle", Reject(e)
      PROVE  \E x : RefusedAtOnce(x) /\ x # "NO_SOURCE"
  BY <1>1 DEF RefusedAtOnce, C!Errors
<1>2. CASE base # NULL /\ ps2_drivers_img_stage(p, base \cup extra)
  BY <1>2, StageSeen
<1> QED
  BY <1>1, <1>2 DEF StageFor, StageForCurrentBoot

\* And ps2_drivers_img_restage(), with the remembered image.
LEMMA RestageSeen ==
    ASSUME NEW R, ps2_drivers_img_restage(R)
    PROVE  Begun("restage", source, R) \/ \E e : RefusedAtOnce(e)
<1> USE DEF ps2_drivers_img_restage
<1>1. CASE Reject("ARGUMENT")
  BY <1>1 DEF RefusedAtOnce, C!Errors
<1>2. CASE Reject("NO_SOURCE") /\ ptr["path"] = NULL
  BY <1>2 DEF RefusedAtOnce, C!Errors
<1>3. CASE ~Reject("ARGUMENT") /\ ~(Reject("NO_SOURCE") /\ ptr["path"] = NULL)
  BY <1>3 DEF Begun
<1> QED
  BY <1>1, <1>2, <1>3

\* A staging call that is refused at once is the contract's Refuse.
LEMMA RefusedSeen ==
    ASSUME IInv, NEW e, RefusedAtOnce(e), NEW op \in C!StagingOps, NEW p, NEW R,
           Asks(op, p, R, 0), e = "NO_SOURCE" => op # "stage"
    PROVE  C!CNext /\ AskedInv'
<1>1. /\ pc = "idle" /\ pc' = "idle" /\ result' = e /\ asked'.op = op
      /\ UNCHANGED globals
  BY DEF RefusedAtOnce, Reject, locals, Asks
<1>2. StagedIds' = StagedIds /\ UNCHANGED <<source, gLast>>
  BY <1>1, UnseenStep
<1>3. e = "ALREADY_STAGED" => StagedIds # {}
  BY ActiveStaged DEF RefusedAtOnce
<1>4. e = "NO_SOURCE" => source = NULL
  BY DEF RefusedAtOnce, IInv, SourceRemembered
<1>5. result \in Results /\ result # "none"
  BY DEF IInv, TypeOK, Results
<1>6. C!Refuse
  BY <1>1, <1>2, <1>3, <1>4, <1>5 DEF C!Refuse, C!Running, C!kept, RefusedAtOnce
<1> QED
  BY <1>1, <1>6 DEF C!CNext, AskedInv

\* A staging call that gets under way is the contract's Start.
LEMMA BegunSeen ==
    ASSUME IInv, NEW by, NEW p, NEW R, Begun(by, p, R),
           NEW op \in C!StagingOps, NEW q, NEW S, Asks(op, q, S, 0),
           p = IF op = "stage" THEN q ELSE source,
           R = IF op = "restage_last" THEN gLast ELSE S
    PROVE  C!CNext /\ AskedInv'
<1>1. /\ pc = "idle" /\ pc' = "open" /\ asked' = [op |-> op, path |-> q, req |-> S, id |-> 0]
      /\ arg' = [by |-> by, path |-> p, req |-> R] /\ UNCHANGED globals
  BY DEF Begun, Asks
<1>2. StagedIds' = StagedIds /\ UNCHANGED <<source, gLast>>
  BY <1>1, UnseenStep
<1>3. result # "none"
  BY DEF IInv, TypeOK, Results
<1>4. C!Start
  BY <1>1, <1>2, <1>3 DEF C!Start, C!Running, C!kept
<1> QED
  BY <1>1, <1>2, <1>4 DEF C!CNext, AskedInv

\* An error return inside a call is the contract's Refuse.
LEMMA FailSeen ==
    ASSUME IInv, AskedInv, NEW e, NEW F, Fail(e, F), UNCHANGED asked,
           e \in C!Errors \ {"NO_SOURCE"}, e = "ALREADY_STAGED" => Active
    PROVE  C!CNext /\ AskedInv'
<1>1. pc # "idle" /\ pc' = "idle" /\ result' = e /\ UNCHANGED globals
  BY DEF Fail
<1>2. StagedIds' = StagedIds /\ UNCHANGED <<source, gLast>>
  BY <1>1, UnseenStep
<1>3. e = "ALREADY_STAGED" => StagedIds # {}
  BY ActiveStaged
<1>4. C!Refuse
  BY <1>1, <1>2, <1>3 DEF C!Refuse, C!Running, C!kept, AskedInv
<1> QED
  BY <1>1, <1>4 DEF C!CNext, AskedInv

\* A step further inside a call is not seen.
LEMMA FurtherSeen ==
    ASSUME AskedInv, pc # "idle", pc' # "idle", UNCHANGED <<globals, arg, asked>>
    PROVE  UNCHANGED C!cvars /\ AskedInv'
<1>1. StagedIds' = StagedIds /\ UNCHANGED <<source, gLast>>
  BY UnseenStep
<1> QED
  BY <1>1 DEF C!cvars, C!kept, AskedInv

\* A committed staging is the contract's Succeed.
LEMMA CommitSeen ==
    ASSUME IInv, AskedInv, Commit, UNCHANGED asked
    PROVE  C!CNext /\ AskedInv'
<1>1. StagedIds = {}
  BY DEF Commit, IInv, CallInv, StagedIds, Live
<1>2. StagedIds' = Requested(arg.req)
  <2>1. gSlots' = slots
    BY DEF Commit
  <2>2. Live(gSlots)' = Live(slots)
    BY <2>1 DEF Live
  <2>3. StagedIds' = {slots[i].id : i \in Live(slots)}
    BY <2>1, <2>2 DEF StagedIds
  <2>4. {slots[i].id : i \in Live(slots)} = Requested(arg.req)
    BY LoopDone
  <2> QED
    BY <2>3, <2>4
<1>3. /\ arg.req \in SUBSET Reqs /\ arg.path \in Paths /\ Requested(arg.req) # {}
      /\ source' = arg.path /\ gLast' = arg.req
  BY DEF Commit, IInv, TypeOK, CallInv
<1>4. pc # "idle" /\ pc' = "idle" /\ result' = "OK"
  BY DEF Commit
<1>5. arg.path = C!Image /\ arg.req = C!Word
  BY <1>4 DEF AskedInv, C!Image, C!Word
<1>6. C!Succeed
  BY <1>1, <1>2, <1>3, <1>4, <1>5 DEF C!Succeed, C!Running
<1> QED
  BY <1>4, <1>6 DEF C!CNext, AskedInv

\* An execution is the contract's, with a module or without.
LEMMA ExecSeen ==
    ASSUME IInv, NEW id \in Ids, ps2_irx_exec(id), Asks("exec", NULL, {}, id)
    PROVE  C!CNext /\ AskedInv'
<1>1. /\ pc = "idle" /\ pc' = "idle" /\ asked'.op = "exec" /\ asked'.id = id
      /\ UNCHANGED <<source, gLast>>
  BY DEF ps2_irx_exec, Reject, globals, locals, Asks
<1>2. result # "none"
  BY DEF IInv, TypeOK, Results
<1>3. /\ StagedIds' = StagedIds \ {id}
      /\ result' = IF id \in StagedIds THEN "EXECUTED" ELSE "NOT_STAGED"
  <2>1. CASE Holding(id) = {}
    <3>1. result' = "NOT_STAGED" /\ UNCHANGED globals
      BY <2>1 DEF ps2_irx_exec, Reject
    <3>2. id \notin StagedIds
      BY <2>1 DEF StagedIds, Holding, Live, IInv, CountExact
    <3> QED
      BY <3>1, <3>2, UnseenStep
  <2>2. CASE Holding(id) # {}
    <3>1. result' = "EXECUTED"
      BY <2>2 DEF ps2_irx_exec
    <3>2. PICK i \in Holding(id) : ps2_drivers_img_release_staged(i)
      BY <2>2 DEF ps2_irx_exec
    <3>3. /\ i \in Live(gSlots) /\ gSlots[i].id = id
          /\ Live(gSlots)' = Live(gSlots) \ {i}
          /\ \A j \in Live(gSlots)' : gSlots'[j] = gSlots[j]
      BY <3>2, ReleaseSlots
    <3>4. \A j \in Live(gSlots) : gSlots[j].id = id => j = i
      BY <3>3 DEF IInv, CountExact
    <3> QED
      BY <3>1, <3>3, <3>4 DEF StagedIds
  <2> QED
    BY <2>1, <2>2
<1>4. C!Execute
  BY <1>1, <1>2, <1>3 DEF C!Execute, C!Running
<1> QED
  BY <1>1, <1>4 DEF C!CNext, AskedInv

\* So are the two resets.
LEMMA ResetSeen ==
    ASSUME IInv,
           \/ ps2_drivers_img_discard_staged /\ Asks("discard", NULL, {}, 0)
           \/ ps2_drivers_img_forget_source /\ Asks("forget", NULL, {}, 0)
    PROVE  C!CNext /\ AskedInv'
<1>1. result # "none"
  BY DEF IInv, TypeOK, Results
<1>2. CASE ps2_drivers_img_discard_staged /\ Asks("discard", NULL, {}, 0)
  <2>1. /\ pc = "idle" /\ pc' = "idle" /\ asked'.op = "discard" /\ result' = result
        /\ gSlots' = << >> /\ UNCHANGED <<source, gLast>>
    BY <1>2 DEF ps2_drivers_img_discard_staged, locals, Asks
  <2>2. StagedIds' = {}
    BY <2>1 DEF StagedIds, Live
  <2>3. C!Discard
    BY <1>1, <2>1, <2>2 DEF C!Discard, C!Running
  <2> QED
    BY <2>1, <2>3 DEF C!CNext, AskedInv
<1>3. CASE ps2_drivers_img_forget_source /\ Asks("forget", NULL, {}, 0)
  <2>1. /\ pc = "idle" /\ pc' = "idle" /\ asked'.op = "forget" /\ result' = result
        /\ gSlots' = gSlots /\ source' = NULL /\ gLast' = {}
    BY <1>3 DEF ps2_drivers_img_forget_source, locals, Asks
  <2>2. StagedIds' = StagedIds
    BY <2>1 DEF StagedIds, Live
  <2>3. C!Forget
    BY <1>1, <2>1, <2>2 DEF C!Forget, C!Running
  <2> QED
    BY <2>1, <2>3 DEF C!CNext, AskedInv
<1> QED
  BY <1>2, <1>3

\* Every call of the application is seen as what the contract allows of it.
LEMMA CallSeen ==
    ASSUME IInv, Call
    PROVE  C!CNext /\ AskedInv'
<1> DEFINE Goal == C!CNext /\ AskedInv'
<1>0. "stage" \in C!StagingOps /\ "restage" \in C!StagingOps
      /\ "restage_last" \in C!StagingOps
  BY DEF C!StagingOps
<1>1. ASSUME NEW p, NEW R, ps2_drivers_img_stage(p, R), Asks("stage", p, R, 0)
      PROVE  Goal
  <2>1. CASE Begun("stage", p, R)
    BY <1>0, <1>1, <2>1, BegunSeen
  <2>2. ASSUME NEW e, RefusedAtOnce(e), e # "NO_SOURCE" PROVE Goal
    BY <1>0, <1>1, <2>2, RefusedSeen
  <2> QED
    BY <1>1, <2>1, <2>2, StageSeen
<1>2. ASSUME NEW p, NEW base, NEW R,
             StageFor(p, base, R) \/ StageForCurrentBoot(p, base, R),
             \/ Asks("stage", p, base \cup R, 0)
             \/ base = NULL /\ Asks("stage", p, R, 0)
      PROVE  Goal
  <2>1. CASE base # NULL /\ Begun("stage", p, base \cup R)
    BY <1>0, <1>2, <2>1, BegunSeen
  <2>2. ASSUME NEW e, RefusedAtOnce(e), e # "NO_SOURCE" PROVE Goal
    BY <1>0, <1>2, <2>2, RefusedSeen
  <2> QED
    BY <1>2, <2>1, <2>2, StageForSeen
<1>3. ASSUME NEW R, ps2_drivers_img_restage(R), Asks("restage", NULL, R, 0)
      PROVE  Goal
  <2>1. CASE Begun("restage", source, R)
    BY <1>0, <1>3, <2>1, BegunSeen
  <2>2. ASSUME NEW e, RefusedAtOnce(e) PROVE Goal
    BY <1>0, <1>3, <2>2, RefusedSeen
  <2> QED
    BY <1>3, <2>1, <2>2, RestageSeen
<1>4. ASSUME ps2_drivers_img_restage_last, Asks("restage_last", NULL, {}, 0)
      PROVE  Goal
  <2>1. CASE Begun("restage", source, gLast)
    BY <1>0, <1>4, <2>1, BegunSeen
  <2>2. ASSUME NEW e, RefusedAtOnce(e) PROVE Goal
    BY <1>0, <1>4, <2>2, RefusedSeen
  <2>3. CASE ps2_drivers_img_restage(gLast)
    BY <2>1, <2>2, <2>3, RestageSeen
  <2>4. CASE pc = "idle" /\ (ptr["path"] = NULL \/ gLast = {}) /\ Reject("NO_SOURCE")
    <3>1. RefusedAtOnce("NO_SOURCE")
      BY <2>4 DEF RefusedAtOnce, C!Errors
    <3> QED
      BY <2>2, <3>1
  <2> QED
    BY <1>4, <2>3, <2>4 DEF ps2_drivers_img_restage_last
<1>5. ASSUME NEW id \in Ids, ps2_irx_exec(id), Asks("exec", NULL, {}, id)
      PROVE  Goal
  BY <1>5, ExecSeen
<1> HIDE DEF Goal
<1>6. ASSUME \/ ps2_drivers_img_discard_staged /\ Asks("discard", NULL, {}, 0)
             \/ ps2_drivers_img_forget_source /\ Asks("forget", NULL, {}, 0)
      PROVE  Goal
  BY <1>6, ResetSeen DEF Goal
<1>7. Goal
  BY <1>1, <1>2, <1>3, <1>4, <1>5, <1>6 DEF Call
<1> QED
  BY <1>7 DEF Goal

\* Every step inside a call is a stutter, an error return or the success.
LEMMA InsideSeen ==
    ASSUME IInv, AskedInv, Step, UNCHANGED asked
    PROVE  (C!CNext \/ UNCHANGED C!cvars) /\ AskedInv'
<1> DEFINE Goal == (C!CNext \/ UNCHANGED C!cvars) /\ AskedInv'
<1>1. ASSUME NEW e \in {"ARGUMENT", "OPEN", "IO", "FORMAT", "MISSING_MODULE", "CRC",
                        "MEMORY"}, NEW F, Fail(e, F)
      PROVE  Goal
  BY <1>1, FailSeen DEF C!Errors
<1>2. ASSUME pc # "idle", pc' # "idle", UNCHANGED <<globals, arg>>
      PROVE  Goal
  BY <1>2, FurtherSeen
<1>3. ASSUME Active, NEW F, Fail("ALREADY_STAGED", F)
       PROVE  Goal
  BY <1>3, FailSeen DEF C!Errors
<1>4. ASSUME Commit PROVE Goal
  BY <1>4, CommitSeen
<1> HIDE DEF Goal
<1>5. ASSUME OpenImage PROVE Goal
  <2>1. \/ Fail("ARGUMENT", OnError({})) \/ Fail("OPEN", OnError({}))
        \/ Active /\ Fail("ALREADY_STAGED", OnError({}))
        \/ pc = "open" /\ pc' = "header" /\ UNCHANGED <<globals, arg>>
    BY <1>5 DEF OpenImage
  <2> QED
    BY <1>1, <1>2, <1>3, <2>1
<1>6. ASSUME ReadHeader \/ AllocTables PROVE Goal
  <2>1. \/ \E e \in {"IO", "FORMAT", "MEMORY"} : Fail(e, OnError({"file"}))
        \/ pc # "idle" /\ pc' # "idle" /\ UNCHANGED <<globals, arg>>
    BY <1>6 DEF ReadHeader, AllocTables
  <2> QED
    BY <1>1, <1>2, <2>1
<1>7. ASSUME ReadEntries \/ AllocArray PROVE Goal
  <2>1. \/ \E e \in {"IO", "FORMAT"} : Fail(e, OnError({"table", "entries", "file"}))
        \/ Fail("MEMORY", OnError({"entries", "file"}))
        \/ pc # "idle" /\ pc' # "idle" /\ UNCHANGED <<globals, arg>>
    BY <1>7 DEF ReadEntries, AllocArray
  <2> QED
    BY <1>1, <1>2, <2>1
<1>8. ASSUME StageModule PROVE Goal
  <2>1. pc = "module" /\ \E id \in todo :
           MissingModule(id) \/ NoMemory(id) \/ BadPayload(id) \/ GoodPayload(id)
    BY <1>8 DEF StageModule
  <2>2. ASSUME NEW id, MissingModule(id) \/ NoMemory(id) \/ BadPayload(id)
        PROVE  Goal
    <3>1. \E e \in {"MISSING_MODULE", "MEMORY", "IO", "CRC"} : \E F : Fail(e, F)
      BY <2>2 DEF MissingModule, NoMemory, BadPayload
    <3> QED
      BY <1>1, <3>1
  <2>3. ASSUME NEW id, GoodPayload(id) PROVE Goal
    BY <1>2, <2>1, <2>3 DEF GoodPayload
  <2> QED
    BY <2>1, <2>2, <2>3
<1>9. Goal
  BY <1>5, <1>6, <1>7, <1>8, <1>4 DEF Step
<1> QED
  BY <1>9 DEF Goal

\* Every step of the provider is a step of the contract or a stutter.
LEMMA NextSeen == IInv /\ AskedInv /\ [Next]_vars => [C!CNext]_C!cvars /\ AskedInv'
<1> SUFFICES ASSUME IInv, AskedInv, [Next]_vars
             PROVE  (C!CNext \/ UNCHANGED C!cvars) /\ AskedInv'
  OBVIOUS
<1>1. CASE UNCHANGED vars
  <2>1. UNCHANGED <<globals, pc, arg, asked, result>>
    BY <1>1 DEF vars, locals
  <2>2. StagedIds' = StagedIds /\ UNCHANGED <<source, gLast>>
    BY <2>1, UnseenStep
  <2> QED
    BY <2>1, <2>2 DEF C!cvars, C!kept, AskedInv
<1>2. CASE Call
  BY <1>2, CallSeen
<1>3. CASE Step /\ UNCHANGED asked
  BY <1>3, InsideSeen
<1> QED
  BY <1>1, <1>2, <1>3 DEF Next

\* The provider implements StagingContract, for any images, any requests, any
\* heap and any order of calls: a staging call that fails, at whatever step,
\* leaves what is staged and remembered alone; one that succeeds has staged the
\* whole set the application asked for and remembers it; a staged module runs at
\* most once.
THEOREM Implements == Spec => Contract
<1>1. Init => C!CInit /\ AskedInv
  BY DEF Init, C!CInit, C!Running, StagedIds, Live, AskedInv, NoCall
<1>2. IInv /\ AskedInv /\ [Next]_vars => [C!CNext]_C!cvars /\ AskedInv'
  BY NextSeen
<1> QED
  BY <1>1, <1>2, Invariance, PTL DEF Spec, Contract, C!Contract
=============================================================================

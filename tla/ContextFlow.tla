---------------------------- MODULE ContextFlow -----------------------------
(***************************************************************************)
(* From a file on disk to a cached request memory: UMS's onboarding,       *)
(* change consumption, reindexing and recovery (src/ums) and CM's cache    *)
(* (src/cm/cache.py, freshness.py), with writers that edit the repository  *)
(* at any time.                                                            *)
(*                                                                         *)
(* reindex is three steps, one for each time it reads the disk: the        *)
(* inventory hashes the files, extraction reads them again, and the        *)
(* summarizer reads the documents a third time.  UMS and CM live in one    *)
(* process; a crash takes both and the queues of the bus between them.     *)
(***************************************************************************)
EXTENDS RequestMemory

CONSTANTS
  Contents,    \* path -> the contents it may have, the first one first
  Specs,       \* the assembly specs that are asked for
  SliceSize,   \* slice_size of Onboarding
  MaxEdits,    \* bound: edits of files
  MaxFaults,   \* bound: refused publishes and writes, lost events, edits stat
               \* misses and crashes, together
  MaxUpdates   \* bound: index.updated messages that CM has not handled

ASSUME InputsBuild ==
  /\ ConfigBuilds
  /\ \A p \in Paths : IsInjective(Contents[p])
  /\ \A s \in Specs : SpecBuilds(s) /\ ReferencesResolve(s)

VARIABLES
  disk,     \* path -> its bytes, or None
  stat,     \* path -> size and mtime, as a counter
  inbox,    \* the paths of write.committed and commit.created not yet drained
  pc,       \* "onboarding", "idle", "scanned", "extracted" or "down"
  work,     \* locals of reindex: [inventory, changed, files, clear]; of Onboarding: pending
  ums,      \* the bundle: [inventory, files, summaries, architecture]
  tracker,  \* FreshnessTracker._state
  by_hash,  \* SummaryStore._by_hash
  durable,  \* Storage: [index, summaries], None when never written
  updates,  \* index.updated messages CM has not handled: sets of paths
  cache,    \* Cache._entries: spec -> [artifact, invalidated] or None
  refused,  \* history: specs whose assembly raised
  excused,  \* history: paths UMS was not told about, see FreshMeansCurrent
  masked,   \* history: paths whose last edit changed neither size nor mtime
  torn,     \* history: hashes under which other bytes were read
  edits, faults

vars == <<disk, stat, inbox, pc, work, ums, tracker, by_hash, durable, updates, cache,
          refused, excused, masked, torn, edits, faults>>
history == <<refused, excused, masked, torn>>
bounds == <<edits, faults>>

NoWork == [inventory |-> <<>>, changed |-> {}, files |-> <<>>, clear |-> {}, pending |-> <<>>]
Fresh == {p \in DOMAIN tracker : tracker[p] = "fresh"}
StalePaths == DOMAIN tracker \ Fresh
OnDisk == {p \in Paths : disk[p] # None}

-----------------------------------------------------------------------------
(* Reads of the disk.                                                      *)

Scan == [p \in OnDisk |-> [stat |-> stat[p], hash |-> disk[p]]]

\* rescan: a file whose size and mtime are the recorded ones is not read.
Rescan(previous) ==
  [p \in OnDisk |-> IF p \in DOMAIN previous /\ previous[p].stat = stat[p]
                      THEN previous[p] ELSE [stat |-> stat[p], hash |-> disk[p]]]
Changed(previous, inventory) ==
  {p \in DOMAIN inventory : p \notin DOMAIN previous \/ previous[p].hash # inventory[p].hash}
  \cup (DOMAIN previous \ DOMAIN inventory)

\* Mutant: by path alone.
ReusedByPath(p, inventory, previous) == p \in DOMAIN previous
Reused(p, inventory, previous) ==
  p \in DOMAIN previous /\ previous[p].content_hash = inventory[p].hash
ExtractRepo(inventory, previous) ==
  [p \in DOMAIN inventory |-> IF Reused(p, inventory, previous) THEN previous[p]
                              ELSE ExtractFile(p, inventory[p].hash, disk[p])]
\* The hashes of files whose bytes are no longer the hashed ones when extracted.
TornBy(inventory, previous) ==
  {inventory[p].hash : p \in {q \in DOMAIN inventory :
     ~Reused(q, inventory, previous) /\ disk[q] # inventory[q].hash}}

\* get_or_build for every file: one record per hash, by its first path.
Builders(files) ==
  {p \in DOMAIN files : /\ files[p].content_hash \notin DOMAIN by_hash
                        /\ \A q \in DOMAIN files : q < p => files[q].content_hash # files[p].content_hash}
ReadsText(entry) == entry.classification.language \in DOC_LANGS /\ ~entry.unparsed
StoreWith(known, files) ==
  LET builds == Builders(files)
  IN [h \in DOMAIN known \cup {files[p].content_hash : p \in builds} |->
        IF h \in DOMAIN known THEN known[h]
        ELSE LET p == CHOOSE q \in builds : files[q].content_hash = h
             IN SummarizeFile(files[p], disk[p])]
SummariesOf(files, store) == [p \in DOMAIN files |-> store[files[p].content_hash]]
\* A document is read once more for its summary.
TornByText(files) ==
  {files[p].content_hash : p \in {q \in Builders(files) :
     ReadsText(files[q]) /\ disk[q] # files[q].content_hash}}
TextReadable(files) == \A p \in Builders(files) : ReadsText(files[p]) => p \in OnDisk

-----------------------------------------------------------------------------
(* Writers.                                                                *)

\* A file is written, created or deleted, and write.committed names it, unless the
\* process is down; the event may be lost, and stat may not show the edit.
Announced(p) == IF pc = "down" THEN inbox ELSE inbox \cup {p}

Edit(p, bytes) ==
  /\ edits < MaxEdits
  /\ bytes # disk[p]
  /\ edits' = edits + 1
  /\ disk' = [disk EXCEPT ![p] = bytes]
  /\ \/ /\ stat' = [stat EXCEPT ![p] = @ + 1]
        /\ inbox' = Announced(p)
        /\ masked' = masked \ {p}
        /\ UNCHANGED <<excused, work, faults>>
     \/ /\ faults < MaxFaults /\ faults' = faults + 1
        /\ stat' = [stat EXCEPT ![p] = @ + 1]
        /\ masked' = masked \ {p}
        /\ excused' = excused \cup {p}
        /\ work' = [work EXCEPT !.clear = @ \ {p}]
        /\ UNCHANGED inbox
     \/ /\ faults < MaxFaults /\ faults' = faults + 1
        /\ bytes # None /\ disk[p] # None
        /\ inbox' = Announced(p)
        /\ masked' = masked \cup {p}
        /\ UNCHANGED <<stat, excused, work>>
  /\ UNCHANGED <<pc, ums, tracker, by_hash, durable, updates, cache, refused, torn>>

-----------------------------------------------------------------------------
(* UMS.                                                                    *)

Bundle(inventory, files, store, architecture) ==
  [inventory |-> inventory, files |-> files, summaries |-> SummariesOf(files, store),
   architecture |-> architecture]

\* Onboarding.step and bundle: the next slice.
OnboardStep ==
  /\ pc = "onboarding"
  /\ work.pending # <<>>
  /\ LET batch == ToSet(SubSeq(work.pending, 1, Min({SliceSize, Len(work.pending)})))
         rest == SubSeq(work.pending, Min({SliceSize, Len(work.pending)}) + 1, Len(work.pending))
         files == [p \in DOMAIN work.files \cup batch |->
                     IF p \in batch THEN ExtractFile(p, work.inventory[p].hash, disk[p])
                                    ELSE work.files[p]]
         store == StoreWith(by_hash, files)
     IN /\ batch \subseteq OnDisk
        /\ work' = [work EXCEPT !.files = files, !.pending = rest]
        /\ by_hash' = store
        /\ ums' = Bundle(work.inventory, files, store, Architecture(files))
        /\ tracker' = [p \in DOMAIN files |-> "fresh"]
        /\ torn' = torn \cup TornByText(files) \cup
                   {work.inventory[p].hash : p \in {q \in batch : disk[q] # work.inventory[q].hash}}
  /\ UNCHANGED <<disk, stat, inbox, pc, durable, updates, cache, refused, excused, masked, bounds>>

\* A file of the slice is gone: its read raises, and the caller starts over.
OnboardAgain ==
  /\ pc = "onboarding"
  /\ \E p \in ToSet(work.pending) : p \notin OnDisk
  /\ work' = [NoWork EXCEPT !.inventory = Scan, !.pending = Sorted(OnDisk)]
  /\ ums' = Bundle(Scan, <<>>, <<>>, Architecture(<<>>))
  /\ tracker' = <<>>
  /\ cache' = [s \in Specs |-> None]
  /\ excused' = {}
  /\ UNCHANGED <<disk, stat, inbox, pc, by_hash, durable, updates, refused, masked, torn, bounds>>

\* The job is complete: the caller persists and publishes repo.indexed.
OnboardDone ==
  /\ pc = "onboarding"
  /\ work.pending = <<>>
  /\ pc' = "idle"
  /\ work' = NoWork
  /\ durable' = [index |-> [inventory |-> ums.inventory, freshness |-> tracker],
                 summaries |-> by_hash]
  /\ UNCHANGED <<disk, stat, inbox, ums, tracker, by_hash, updates, cache, history, bounds>>

ConsumeChanges ==
  /\ pc = "idle"
  /\ inbox # {}
  /\ tracker' = [p \in DOMAIN tracker \cup inbox |-> IF p \in inbox THEN "stale" ELSE tracker[p]]
  /\ inbox' = {}
  /\ UNCHANGED <<disk, stat, pc, work, ums, by_hash, durable, updates, cache, history, bounds>>

\* reindex, first read: the inventory.
ReindexScan ==
  /\ pc = "idle"
  /\ Len(updates) < MaxUpdates
  /\ pc' = "scanned"
  /\ LET inv == Rescan(ums.inventory) IN
       work' = [NoWork EXCEPT !.inventory = inv, !.changed = Changed(ums.inventory, inv),
                              !.clear = excused]
  /\ UNCHANGED <<disk, stat, inbox, ums, tracker, by_hash, durable, updates, cache, history, bounds>>

\* Second read: the files whose hash is new.
ReindexExtract ==
  /\ pc = "scanned"
  /\ \A p \in DOMAIN work.inventory \ OnDisk : Reused(p, work.inventory, ums.files)
  /\ pc' = "extracted"
  /\ work' = [work EXCEPT !.files = ExtractRepo(work.inventory, ums.files)]
  /\ torn' = torn \cup TornBy(work.inventory, ums.files)
  /\ UNCHANGED <<disk, stat, inbox, ums, tracker, by_hash, durable, updates, cache, refused,
                 excused, masked, bounds>>

\* A file vanished between two reads: reindex raises before it has changed anything.
ReindexRaises ==
  /\ \/ /\ pc = "scanned"
        /\ \E p \in DOMAIN work.inventory \ OnDisk : ~Reused(p, work.inventory, ums.files)
     \/ pc = "extracted" /\ ~TextReadable(work.files)
  /\ pc' = "idle"
  /\ work' = NoWork
  /\ UNCHANGED <<disk, stat, inbox, ums, tracker, by_hash, durable, updates, cache, history, bounds>>

\* Mutant: imports are not compared.
StructuralChangeSymbols(old, new, paths) ==
  \E p \in paths : \/ p \notin DOMAIN old \/ p \notin DOMAIN new
                   \/ old[p].symbols # new[p].symbols
StructuralChange(old, new, paths) ==
  \E p \in paths : \/ p \notin DOMAIN old \/ p \notin DOMAIN new
                   \/ old[p].symbols # new[p].symbols
                   \/ old[p].imports # new[p].imports

\* Mutant: only what was announced.
TouchedStale == StalePaths
Touched == work.changed \cup StalePaths

\* The tracker after reindex: gone files dropped, every file there fresh.
Reindexed(old, inventory) ==
  [p \in (DOMAIN old \ (DOMAIN ums.inventory \ DOMAIN inventory)) \cup DOMAIN inventory |->
     IF p \in DOMAIN inventory THEN "fresh" ELSE old[p]]

\* Third read, then freshness, two writes, the event, and the new state.  A write or
\* the publish may raise: what was done before it stays, and the caller keeps its
\* old state.
ReindexBuild ==
  /\ pc = "extracted"
  /\ TextReadable(work.files)
  /\ pc' = "idle"
  /\ work' = NoWork
  /\ LET store == StoreWith(by_hash, work.files)
         arch == IF StructuralChange(ums.files, work.files, Touched)
                   THEN Architecture(work.files) ELSE ums.architecture
         index == [inventory |-> work.inventory, freshness |-> Reindexed(tracker, work.inventory)]
     IN /\ by_hash' = store
        /\ torn' = torn \cup TornByText(work.files)
        /\ tracker' = index.freshness
        /\ \/ /\ durable' = [index |-> index, summaries |-> store]
              /\ updates' = Append(updates, Touched)
              /\ ums' = Bundle(work.inventory, work.files, store, arch)
              /\ excused' = excused \ work.clear
              /\ UNCHANGED faults
           \/ /\ faults < MaxFaults /\ faults' = faults + 1
              /\ durable' \in {durable, [durable EXCEPT !.index = index],
                               [index |-> index, summaries |-> store]}
              /\ excused' = excused \cup Touched
              /\ UNCHANGED <<updates, ums>>
  /\ UNCHANGED <<disk, stat, inbox, cache, refused, masked, edits>>

-----------------------------------------------------------------------------
(* CM.                                                                     *)

Assembled(spec) == Build(spec, Pipeline(spec, ums.files, ums.summaries, Fresh))

\* Cache.get: an invalidated entry is not served.
Served(spec) == cache[spec] # None /\ ~cache[spec].invalidated

\* gather to assemble in one call, then put.  An artifact that fails validation is
\* an exception and is not cached.
Assemble(spec) ==
  /\ pc \in {"onboarding", "idle"}
  /\ \E rm \in {Assembled(spec)} :
        \/ /\ Validate(rm)
           /\ cache' = [cache EXCEPT ![spec] = [artifact |-> rm, invalidated |-> FALSE]]
           /\ UNCHANGED refused
        \/ /\ ~Validate(rm)
           /\ refused' = refused \cup {spec}
           /\ UNCHANGED cache
  /\ UNCHANGED <<disk, stat, inbox, pc, work, ums, tracker, by_hash, durable, updates,
                 excused, masked, torn, bounds>>

\* get_or_assemble on a miss; a hit changes nothing.
GetOrAssemble(spec) == ~Served(spec) /\ Assemble(spec)
\* rebuild: whether there is an entry or not.
Rebuild(spec) == Served(spec) /\ Assemble(spec)

Overlaps(spec, changed) ==
  Served(spec) /\ ArtifactPaths(cache[spec].artifact) \cap changed # {}

Invalidate(specs) ==
  cache' = [s \in Specs |-> IF s \in specs THEN [cache[s] EXCEPT !.invalidated = TRUE] ELSE cache[s]]

\* on_index_updated.  When the publish of context.invalidated raises, the entries up
\* to that one are invalidated and the bus delivers the message again.
OnIndexUpdated ==
  /\ pc = "idle"
  /\ updates # <<>>
  /\ LET hit == {s \in Specs : Overlaps(s, Head(updates))} IN
       \/ /\ Invalidate(hit)
          /\ updates' = Tail(updates)
          /\ UNCHANGED faults
       \/ /\ faults < MaxFaults /\ faults' = faults + 1
          /\ \E some \in SUBSET hit \ {{}} : Invalidate(some)
          /\ UNCHANGED updates
  /\ UNCHANGED <<disk, stat, inbox, pc, work, ums, tracker, by_hash, durable, history, edits>>

-----------------------------------------------------------------------------
(* Crash and recovery.                                                     *)

NoBundle == Bundle(<<>>, <<>>, <<>>, Architecture(<<>>))

Crash ==
  /\ pc # "down"
  /\ faults < MaxFaults /\ faults' = faults + 1
  /\ pc' = "down"
  /\ work' = NoWork
  /\ ums' = NoBundle
  /\ tracker' = <<>>
  /\ by_hash' = <<>>
  /\ inbox' = {}
  /\ updates' = <<>>
  /\ cache' = [s \in Specs |-> None]
  /\ UNCHANGED <<disk, stat, durable, history, edits>>

\* FreshnessTracker.sweep over the restored map.
Sweep(old, loaded, inventory) ==
  [p \in (DOMAIN old \cup DOMAIN inventory) \ (DOMAIN loaded \ DOMAIN inventory) |->
     CASE p \notin DOMAIN inventory -> old[p]
       [] p \in DOMAIN inventory /\ p \in Changed(loaded, inventory) -> "stale"
       [] p \in DOMAIN inventory /\ p \notin Changed(loaded, inventory) ->
            IF p \in DOMAIN old THEN old[p] ELSE "fresh"]

\* The caller's recovery: restore and sweep, or every region rebuild-needed when the
\* index does not verify; then extract from the disk, with no previous extraction.
RecoverWith(inventory, map) ==
  LET files == ExtractRepo(inventory, <<>>)
      known == IF durable.summaries = None THEN <<>> ELSE durable.summaries
      store == [h \in DOMAIN known \cup {files[p].content_hash : p \in DOMAIN files} |->
                  IF h \in DOMAIN known THEN known[h]
                  ELSE LET p == Min({q \in DOMAIN files : files[q].content_hash = h})
                       IN SummarizeFile(files[p], disk[p])]
  IN /\ ums' = Bundle(inventory, files, store, Architecture(files))
     /\ by_hash' = store
     /\ tracker' = map
     /\ torn' = torn \cup TornBy(inventory, <<>>)
     /\ excused' = {}

Recover ==
  /\ pc = "down"
  /\ durable.index # None
  /\ pc' = "idle"
  /\ \/ LET inv == Rescan(durable.index.inventory)
        IN RecoverWith(inv, Sweep(durable.index.freshness, durable.index.inventory, inv))
     \/ RecoverWith(Scan, [p \in OnDisk |-> "rebuild-needed"])
  /\ UNCHANGED <<disk, stat, inbox, work, durable, updates, cache, refused, masked, bounds>>

\* Nothing was ever saved: onboard.
StartOnboarding ==
  /\ pc = "down"
  /\ durable.index = None
  /\ pc' = "onboarding"
  /\ work' = [NoWork EXCEPT !.inventory = Scan, !.pending = Sorted(OnDisk)]
  /\ excused' = {}
  /\ UNCHANGED <<disk, stat, inbox, ums, tracker, by_hash, durable, updates, cache, refused,
                 masked, torn, bounds>>

Init ==
  /\ disk = [p \in Paths |-> Contents[p][1]]
  /\ stat = [p \in Paths |-> 0]
  /\ inbox = {}
  /\ pc = "down"
  /\ work = NoWork
  /\ ums = NoBundle
  /\ tracker = <<>>
  /\ by_hash = <<>>
  /\ durable = [index |-> None, summaries |-> None]
  /\ updates = <<>>
  /\ cache = [s \in Specs |-> None]
  /\ refused = {} /\ excused = {} /\ masked = {} /\ torn = {}
  /\ edits = 0 /\ faults = 0

Next ==
  \/ \E p \in Paths : \E bytes \in ToSet(Contents[p]) : Edit(p, bytes)
  \/ OnboardStep \/ OnboardAgain \/ OnboardDone
  \/ ConsumeChanges
  \/ ReindexScan \/ ReindexExtract \/ ReindexBuild \/ ReindexRaises
  \/ \E spec \in Specs : GetOrAssemble(spec) \/ Rebuild(spec)
  \/ OnIndexUpdated
  \/ Crash \/ Recover \/ StartOnboarding

Spec == Init /\ [][Next]_vars

-----------------------------------------------------------------------------
(* Properties.                                                             *)

\* INVARIANT ("serving stale as fresh is structurally impossible", ums/query.py):
\* a region that queries flag as fresh holds what is on disk, and every file is
\* tracked, however edits fall between the reads of reindex, unless UMS has not been
\* told: the change event is not drained yet or was lost, or the last reindex raised
\* after it had marked everything fresh (one more reindex heals both); the edit left
\* size and mtime alone; or other bytes were read under this hash.  A summary is the
\* one of a file with these bytes.
FreshMeansCurrent ==
  pc = "idle" => \A p \in Paths \ (inbox \cup excused \cup masked) :
    /\ disk[p] # None => p \in DOMAIN tracker
    /\ p \in Fresh /\ disk[p] \notin torn =>
         /\ disk[p] # None
         /\ ums.files[p] = ExtractFile(p, disk[p], disk[p])
         /\ \E q \in Paths : ums.summaries[p] = SummarizeFile(ExtractFile(q, disk[p], disk[p]), disk[p])

\* INVARIANT (structural gating of semantic.build): an architecture that was reused
\* is the one that would be built from the files of the bundle.
ArchitectureCurrent == ums.architecture = Architecture(ums.files)

\* INVARIANT (CM-I5, cm/freshness.py): an artifact that the cache serves shows of
\* every UMS item what the bundle says now, unless an index.updated that names its
\* path is still to be handled; also when the handler failed half way.
CacheCoherent ==
  \A s \in Specs : Served(s) =>
    LET items == ItemsOf(cache[s].artifact)
        pending == UNION {updates[i] : i \in DOMAIN updates}
        cands == Considered("concept", ums.files, ums.summaries)
    IN \A i \in DOMAIN items : items[i].source = "ums" /\ items[i].id[2] \notin pending =>
         \E k \in DOMAIN cands :
           /\ IsPrefix(cands[k].id, items[i].id)
           /\ \E t \in 1..3 : items[i].content.text = cands[k].content[TIERS[t]]

\* INVARIANT (CM-I1, I21, seam fix of cm/assembler.py): whatever UMS holds, the
\* pipeline's artifact passes its own validation gates; it respects the ceiling and
\* the envelope of each section, accounts for every candidate, and keeps the
\* variants of a contradiction apart.
ContextSound ==
  /\ refused = {}
  /\ \A s \in Specs : cache[s] # None =>
       LET rm == cache[s].artifact
           envelopes == SectionEnvelopes(s.budget)
       IN /\ rm.candidate_count = rm.selected_count + rm.dropped
          /\ MapThenSumSet(LAMBDA x : envelopes[x], SectionSet) <= s.budget
          /\ \A x \in SectionSet :
               /\ rm.section_used[x] <= envelopes[x]
               /\ rm.section_used[x] = MapThenSumSet(
                    LAMBDA i : TokenCount(rm.sections[x][i].content.text), DOMAIN rm.sections[x])
=============================================================================

----------------------------- MODULE EventSchema -----------------------------
(***************************************************************************)
(* The event-schema registry of src/event-schema/event_schema.go:          *)
(* handleEvent on the two in-memory maps (eventModelMap, schemaVersionMap),*)
(* capacity eviction of models and schema versions, the idle offload sweep *)
(* and the synchronous reload of cold stubs, the periodic flush of the     *)
(* dirty sets to the two tables, and a process restart (Setup after a      *)
(* crash, including the panic of a failed flush).                          *)
(*                                                                         *)
(* Every operation runs under both registry locks in the code, so each is  *)
(* one atomic step here.  Go pointers are kept: a model or version object  *)
(* lives in a heap (mheap, vheap) and the maps hold pointers to it, so an  *)
(* object reachable from both the cache and a dirty set is one object.     *)
(* Reservoir samples are abstracted to their total counter; frequency      *)
(* counters are a separate global map and are not part of this module.    *)
(***************************************************************************)
EXTENDS Naturals, FiniteSets, Sequences, FiniteSetsExt, TLC

CONSTANTS
    WriteKeys,          \* source write keys
    Kinds,              \* <eventType, eventIdentifier> an event resolves to
    Fields,             \* flattened field paths
    FieldOrder,         \* Fields in the order sort.Strings puts them
    Payloads,           \* flattened events: [Fields -> TypeName \cup {NilValue, Absent}]
    NilValue,           \* a JSON null
    Absent,             \* field not in the event
    SubTypeName,        \* <<t1, t2>>: type name t1 is a substring of t2
    CaptureNilAsUnknown,        \* EventSchemas.captureUnknowns
    DisableInMemoryCache,       \* manager.disableInMemoryCache
    EventModelLimit,            \* EventSchemas.eventModelLimit
    SchemaVersionPerEventModelLimit,
    FlushInterval,              \* EventSchemas.syncIntervalInS
    OffloadLoopInterval,        \* EventSchemas.offloadLoopIntervalInS
    OffloadThreshold,           \* EventSchemas.offloadThresholdInS
    MaxTime,            \* bound: last clock value
    MaxModels,          \* bound: model uuids handed out by uuid.NewV4
    MaxVersions,        \* bound: version uuids handed out by uuid.NewV4
    MaxCount,           \* bound: reservoir total counter of one object
    MaxRestarts,        \* bound: process restarts
    MaxLoads,           \* bound: reloads between two restarts
    NoRow               \* no row with this uuid in the table

ASSUME EventModelLimit >= 1 /\ SchemaVersionPerEventModelLimit >= 1
ASSUME FlushInterval >= 1 /\ OffloadLoopInterval >= 1

ModelIDs   == 1..MaxModels
VersionIDs == 1..MaxVersions
HotKeys    == WriteKeys \X Kinds

\* A Go nil pointer; heap objects are named <<uuid, load generation>>.
NilPtr == <<0, 0>>

(***************************************************************************)
(* Type & hash extraction (getSchema, getSchemaHash).                      *)
(***************************************************************************)

\* reflect.TypeOf(v).String(); a nil value is "unknown" or left out.
GetSchema(p) ==
    [f \in {g \in Fields : p[g] # Absent /\ (p[g] # NilValue \/ CaptureNilAsUnknown)}
        |-> IF p[f] = NilValue THEN "unknown" ELSE p[f]]

\* The "path:type," pairs in sorted path order that getSchemaHash digests;
\* the MD5 of that string is taken to be injective.
SchemaHash(schema) ==
    LET keys == SelectSeq(FieldOrder, LAMBDA f : f \in DOMAIN schema)
    IN  [i \in 1..Len(keys) |-> <<keys[i], schema[keys[i]]>>]

Hashes == {SchemaHash(GetSchema(p)) : p \in Payloads}

\* strings.Contains(t, typ) on the comma-joined list of recorded type names.
TypeRecorded(ts, typ) ==
    \E i \in 1..Len(ts) : ts[i] = typ \/ <<typ, ts[i]>> \in SubTypeName

\* mergeSchema: the model's schema maps a field to the type names joined so far.
MergeSchema(master, schema) ==
    [f \in DOMAIN master \cup DOMAIN schema |->
        IF f \notin DOMAIN master THEN <<schema[f]>>
        ELSE IF f \in DOMAIN schema /\ ~TypeRecorded(master[f], schema[f])
             THEN Append(master[f], schema[f])
             ELSE master[f]]

EmptySchema == [f \in {} |-> <<>>]

(***************************************************************************)
(* Objects, rows and stubs.                                                *)
(***************************************************************************)

\* Mutant: the insert's writeKey and eventType columns swapped.
RowOfSwappedColumns(m) == [wk |-> m.kind, kind |-> m.wk, schema |-> m.schema,
                           lastSeen |-> m.lastSeen, total |-> m.total]

RowOf(m)  == [wk |-> m.wk, kind |-> m.kind, schema |-> m.schema,
              lastSeen |-> m.lastSeen, total |-> m.total]
VRowOf(v) == [model |-> v.model, hash |-> v.hash, lastSeen |-> v.lastSeen,
              total |-> v.total]

\* OffloadedModelT, and the identity oldestSeenModel copies.
ModelIdent(m) == [uuid |-> m.uuid, lastSeen |-> m.lastSeen, wk |-> m.wk, kind |-> m.kind]

\* Mutant: the reloaded sampler forgets the persisted total,
\* NewReservoirSampler(size, n, 0).
LoadModelFreshSample(u, row) ==
    [uuid |-> u, wk |-> row.wk, kind |-> row.kind, schema |-> row.schema,
     lastSeen |-> row.lastSeen, total |-> 0]

LoadVersionFreshSample(v, row) ==
    [uuid |-> v, model |-> row.model, hash |-> row.hash,
     lastSeen |-> row.lastSeen, total |-> 0]

\* A model scanned from event_models: its sampler resumes at the stored total.
LoadModel(u, row) ==
    [uuid |-> u, wk |-> row.wk, kind |-> row.kind, schema |-> row.schema,
     lastSeen |-> row.lastSeen, total |-> row.total]

LoadVersion(v, row) ==
    [uuid |-> v, model |-> row.model, hash |-> row.hash,
     lastSeen |-> row.lastSeen, total |-> row.total]

EmptyVersions == [h \in Hashes |-> NilPtr]

VARIABLES
    now,            \* timeutil.Now()
    nextFlush,      \* next tick of the flushEventSchemas ticker
    nextOffload,    \* end of the offloadSchemas sleep
    restarts,
    hot,            \* eventModelMap: <<writeKey, kind>> -> model pointer
    vcache,         \* schemaVersionMap: model uuid -> schema hash -> version pointer
    stubs,          \* offloadedEventModels, as a set of OffloadedModelT
    dirtyM,         \* updatedEventModels: model uuid -> pointer
    dirtyV,         \* updatedSchemaVersions: version uuid -> pointer
    toDelM,         \* toDeleteEventModelIDs
    toDelV,         \* toDeleteSchemaVersionIDs
    mheap,          \* EventModelT objects
    vheap,          \* SchemaVersionT objects
    gen,            \* load generation, names the objects a load allocates
    nextM,          \* next fresh model uuid
    nextV,          \* next fresh version uuid
    dbM,            \* event_models table: uuid -> row
    dbV             \* schema_versions table: uuid -> row

clock    == <<now, nextFlush, nextOffload, restarts>>
registry == <<hot, vcache, stubs, dirtyM, dirtyV, toDelM, toDelV, mheap, vheap,
              gen, nextM, nextV>>
store    == <<dbM, dbV>>
vars     == <<clock, registry, store>>

NoDirtyM == [u \in ModelIDs |-> NilPtr]
NoDirtyV == [v \in VersionIDs |-> NilPtr]

(***************************************************************************)
(* handleEvent works on a copy of the registry state and the result is     *)
(* installed at the end; ptr is the event's model (nil: event dropped).    *)
(***************************************************************************)
Current ==
    [hot |-> hot, vcache |-> vcache, stubs |-> stubs, dirtyM |-> dirtyM,
     dirtyV |-> dirtyV, toDelM |-> toDelM, toDelV |-> toDelV, mheap |-> mheap,
     vheap |-> vheap, gen |-> gen, nextM |-> nextM, nextV |-> nextV, ptr |-> NilPtr]

Install(s) ==
    /\ hot' = s.hot       /\ vcache' = s.vcache /\ stubs' = s.stubs
    /\ dirtyM' = s.dirtyM /\ dirtyV' = s.dirtyV /\ toDelM' = s.toDelM
    /\ toDelV' = s.toDelV /\ mheap' = s.mheap   /\ vheap' = s.vheap
    /\ gen' = s.gen       /\ nextM' = s.nextM   /\ nextV' = s.nextV

HotEntries(s, w) == {e \in {w} \X Kinds : s.hot[e] # NilPtr}
StubsOf(s, w)    == {st \in s.stubs : st.wk = w}

\* oldestSeenModel: the hot model with the least lastSeen is taken first;
\* then every stub as old or older overwrites the identity fields of that
\* same object (of a fresh one when no model is hot).  Map order is
\* random, so any of the tied candidates may be chosen.
OldestSeenModel(s, w) ==
    LET H    == {s.hot[e] : e \in HotEntries(s, w)}
        S    == StubsOf(s, w)
        hmin == Min({s.mheap[o].lastSeen : o \in H})
        smin == Min({st.lastSeen : st \in S})
        oldestHot == {o \in H : s.mheap[o].lastSeen = hmin}
    IN  IF S # {} /\ (H = {} \/ smin <= hmin)
        THEN {[ptr |-> o, id |-> st] :
                o \in (IF H = {} THEN {NilPtr} ELSE oldestHot),
                st \in {t \in S : t.lastSeen = smin}}
        ELSE {[ptr |-> o, id |-> ModelIdent(s.mheap[o])] : o \in oldestHot}

\* Lines 318-321: tombstone the victim, drop it and its versions from the
\* caches (deleteFromEventModelCache keys on the object's own fields).
EvictModel(s, c) ==
    [s EXCEPT
        !.mheap  = IF c.ptr = NilPtr THEN @
                   ELSE [@ EXCEPT ![c.ptr].uuid = c.id.uuid, ![c.ptr].wk = c.id.wk,
                                  ![c.ptr].kind = c.id.kind],
        !.toDelM = @ \cup {c.id.uuid},
        !.hot    = [@ EXCEPT ![<<c.id.wk, c.id.kind>>] = NilPtr],
        !.vcache = [@ EXCEPT ![c.id.uuid] = EmptyVersions]]

AtModelLimit(n) == n >= EventModelLimit

\* Lines 307-323: a new model, evicting the oldest first when the write key
\* holds eventModelLimit models, hot and offloaded together.
CreateModel(s, w, k) ==
    LET u     == s.nextM
        id    == <<u, s.gen>>
        total == Cardinality(HotEntries(s, w)) + Cardinality(StubsOf(s, w))
        model == [uuid |-> u, wk |-> w, kind |-> k, schema |-> EmptySchema,
                  lastSeen |-> now, total |-> 0]
        Admit(t) == [t EXCEPT !.mheap  = @ @@ (id :> model),
                              !.hot    = [@ EXCEPT ![<<w, k>>] = id],
                              !.dirtyM = [@ EXCEPT ![u] = id],
                              !.nextM  = u + 1,
                              !.ptr    = id]
    IN  IF u > MaxModels THEN {}
        ELSE IF AtModelLimit(total)
             THEN {Admit(EvictModel(s, c)) : c \in OldestSeenModel(s, w)}
             ELSE {Admit(s)}

\* Which row a scan leaves in a map when several rows share its key.
\* keyOf maps each row to the map key the scan stores it under.
ScanWinners(rows, keyOf) ==
    {f \in [{keyOf[r] : r \in rows} -> rows] : \A key \in DOMAIN f : keyOf[f[key]] = key}

\* reloadModel: populateEventModels and populateSchemaVersions filtered on
\* the stub's uuid, then the stub is deleted whatever the scans found.
Reload(s, st) ==
    LET u     == st.uuid
        g     == s.gen + 1
        row   == dbM[u]
        vrows == {v \in VersionIDs : dbV[v] # NoRow /\ dbV[v].model = u}
        s1    == IF row = NoRow THEN s
                 ELSE [s EXCEPT !.mheap = @ @@ (<<u, g>> :> LoadModel(u, row)),
                                !.hot   = [@ EXCEPT ![<<row.wk, row.kind>>] = <<u, g>>]]
    IN  IF g > MaxLoads THEN {}
        ELSE {[s1 EXCEPT
                 !.vheap  = @ @@ [x \in {<<win[h], g>> : h \in DOMAIN win} |->
                                      LoadVersion(x[1], dbV[x[1]])],
                 !.vcache = [@ EXCEPT ![u] = [h \in Hashes |->
                                 IF h \in DOMAIN win THEN <<win[h], g>> ELSE @[h]]],
                 !.stubs  = @ \ {st},
                 !.gen    = g]
              : win \in ScanWinners(vrows, [v \in vrows |-> dbV[v].hash])}

\* Lines 287-325: the model of <<w, k>>, from the hot map, reloaded from
\* its cold stub, or created.
LookupModel(s, w, k) ==
    IF s.hot[<<w, k>>] # NilPtr
    THEN {[s EXCEPT !.ptr = s.hot[<<w, k>>]]}
    ELSE IF \E st \in s.stubs : st.wk = w /\ st.kind = k
         THEN LET st == CHOOSE t \in s.stubs : t.wk = w /\ t.kind = k
              IN  {[t EXCEPT !.ptr = t.hot[<<w, k>>]] : t \in Reload(s, st)}
         ELSE CreateModel(s, w, k)

\* oldestSeenVersion: a version of the model with the least lastSeen.
OldestSeenVersion(s, mu) ==
    LET P  == {s.vcache[mu][h] : h \in {x \in Hashes : s.vcache[mu][x] # NilPtr}}
        mn == Min({s.vheap[q].lastSeen : q \in P})
    IN  {q \in P : s.vheap[q].lastSeen = mn}

\* Lines 349-351: tombstone the version and drop it from the cache.
EvictVersion(s, q) ==
    [s EXCEPT !.toDelV = @ \cup {s.vheap[q].uuid},
              !.vcache[s.vheap[q].model][s.vheap[q].hash] = NilPtr]

\* Mutant: evicts only once the limit is already exceeded.
AtVersionLimitOffByOne(n) == n > SchemaVersionPerEventModelLimit

AtVersionLimit(n) == n >= SchemaVersionPerEventModelLimit

\* Mutant: line 359 left out.
MarkModelDirtySkipped(s) == s

\* Line 359: the event's model goes into updatedEventModels.
MarkModelDirty(s) == [s EXCEPT !.dirtyM[s.mheap[s.ptr].uuid] = s.ptr]

\* Lines 354-359 for version q: lastSeen, updateSchemaVersionCache(sv, true),
\* both reservoir samples, and the model marked dirty.
TouchVersion(s, q) ==
    LET sv == s.vheap[q]
    IN  MarkModelDirty(
          [s EXCEPT !.vheap[q].lastSeen = now,
                    !.vheap[q].total = @ + 1,
                    !.vcache[sv.model][sv.hash] = q,
                    !.dirtyV[sv.uuid] = q,
                    !.mheap[s.ptr].total = @ + 1])

\* Lines 326-359: the rest of handleEvent once the model is known.
RecordVersion(s, p) ==
    LET o      == s.ptr
        mu     == s.mheap[o].uuid
        schema == GetSchema(p)
        h      == SchemaHash(schema)
        s1     == [s EXCEPT !.mheap[o].lastSeen = now]
        found  == s.vcache[mu][h]
        v      == s.nextV
        q      == <<v, s.gen>>
        s2     == [s1 EXCEPT !.vheap  = @ @@ (q :> [uuid |-> v, model |-> mu, hash |-> h,
                                                    lastSeen |-> now, total |-> 0]),
                             !.mheap[o].schema = MergeSchema(@, schema),
                             !.nextV  = v + 1]
        n      == Cardinality({x \in Hashes : s.vcache[mu][x] # NilPtr})
    IN  IF s.mheap[o].total >= MaxCount THEN {}
        ELSE IF found # NilPtr
        THEN IF s.vheap[found].total >= MaxCount THEN {} ELSE {TouchVersion(s1, found)}
        ELSE IF v > MaxVersions THEN {}
        ELSE IF AtVersionLimit(n)
             THEN {TouchVersion(EvictVersion(s2, old), q) : old \in OldestSeenVersion(s2, mu)}
             ELSE {TouchVersion(s2, q)}

(***************************************************************************)
(* Actions.                                                                *)
(***************************************************************************)

\* handleEvent(writeKey, event) for an event of kind k with flattened payload p.
HandleEvent(w, k, p) ==
    /\ \E s1 \in LookupModel(Current, w, k) :
          IF s1.ptr = NilPtr
          THEN Install(s1)                    \* reload found no row: dropped
          ELSE \E s2 \in RecordVersion(s1, p) : Install(s2)
    /\ UNCHANGED <<clock, store>>

\* handleEvent's early returns (no "type", or a track event with no
\* "event" name) and RecordEventSchema on a full channel: nothing changes.
DropEvent == UNCHANGED vars

\* One tick of flushEventSchemas (lines 489-586), the whole body under both
\* locks.  With nothing dirty it only waits for the next tick.
FlushEventSchemas ==
    LET DM == {u \in ModelIDs : dirtyM[u] # NilPtr}
        DV == {v \in VersionIDs : dirtyV[v] # NilPtr}
        dbV1 == IF DM # {} /\ toDelM # {}
                THEN [v \in VersionIDs |-> IF dbV[v] # NoRow /\ dbV[v].model \in toDelM
                                           THEN NoRow ELSE dbV[v]]
                ELSE dbV
    IN  /\ now = nextFlush
        /\ nextFlush' = now + FlushInterval
        /\ IF DM = {} /\ DV = {}
           THEN UNCHANGED <<registry, store>>
           ELSE /\ dbM' = IF DM = {} THEN dbM
                          ELSE [u \in ModelIDs |->
                                  IF u \in DM THEN RowOf(mheap[dirtyM[u]])
                                  ELSE IF u \in toDelM THEN NoRow ELSE dbM[u]]
                /\ dbV' = IF DV = {} THEN dbV1
                          ELSE [v \in VersionIDs |->
                                  IF v \in DV THEN VRowOf(vheap[dirtyV[v]])
                                  ELSE IF v \in toDelV THEN NoRow ELSE dbV1[v]]
                /\ dirtyM' = NoDirtyM
                /\ dirtyV' = NoDirtyV
                /\ toDelM' = {}
                /\ UNCHANGED <<hot, vcache, stubs, toDelV, mheap, vheap, gen, nextM, nextV>>
        /\ UNCHANGED <<now, nextOffload, restarts>>

\* Mutant: the threshold compared as a bare Duration (nanoseconds).
IsStaleMissingUnit(t, lastSeen) == t - lastSeen > 0

IsStale(t, lastSeen) == t - lastSeen > OffloadThreshold

\* One pass of offloadSchemas (lines 596-613): every hot model idle for
\* longer than the threshold becomes a stub and leaves both caches.
OffloadSchemas ==
    LET idle == {mheap[hot[e]] : e \in {x \in HotKeys : hot[x] # NilPtr
                                          /\ IsStale(now, mheap[hot[x]].lastSeen)}}
        keys == {<<m.wk, m.kind>> : m \in idle}
    IN  /\ now = nextOffload
        /\ nextOffload' = now + OffloadLoopInterval
        /\ stubs' = {st \in stubs : <<st.wk, st.kind>> \notin keys}
                      \cup {ModelIdent(m) : m \in idle}
        /\ hot' = [e \in HotKeys |-> IF e \in keys THEN NilPtr ELSE hot[e]]
        /\ vcache' = [u \in ModelIDs |->
                        IF \E m \in idle : m.uuid = u THEN EmptyVersions ELSE vcache[u]]
        /\ UNCHANGED <<now, nextFlush, restarts, dirtyM, dirtyV, toDelM, toDelV,
                       mheap, vheap, gen, nextM, nextV, store>>

\* Time passes only up to the next due tick: the loops fire on time.
Tick ==
    /\ now < MaxTime /\ now < nextFlush /\ now < nextOffload
    /\ now' = now + 1
    /\ UNCHANGED <<nextFlush, nextOffload, restarts, registry, store>>

\* The process dies (a panic such as assertTxnError's in a failed flush, or
\* any crash) and Setup runs again: all memory is lost and, unless the cache
\* is disabled, populateEventSchemas scans both tables into the maps.
Restart ==
    LET mrows == IF DisableInMemoryCache THEN {} ELSE {u \in ModelIDs : dbM[u] # NoRow}
        vrows == IF DisableInMemoryCache THEN {} ELSE {v \in VersionIDs : dbV[v] # NoRow}
    IN
    /\ restarts < MaxRestarts
    /\ restarts' = restarts + 1
    /\ \E mwin \in ScanWinners(mrows, [u \in mrows |-> <<dbM[u].wk, dbM[u].kind>>]),
          vwin \in ScanWinners(vrows, [v \in vrows |-> <<dbV[v].model, dbV[v].hash>>]) :
          /\ hot'    = [e \in HotKeys |-> IF e \in DOMAIN mwin THEN <<mwin[e], 0>> ELSE NilPtr]
          /\ mheap'  = [x \in {<<mwin[e], 0>> : e \in DOMAIN mwin} |-> LoadModel(x[1], dbM[x[1]])]
          /\ vcache' = [u \in ModelIDs |-> [h \in Hashes |->
                           IF <<u, h>> \in DOMAIN vwin THEN <<vwin[<<u, h>>], 0>> ELSE NilPtr]]
          /\ vheap'  = [x \in {<<vwin[e], 0>> : e \in DOMAIN vwin} |-> LoadVersion(x[1], dbV[x[1]])]
    /\ stubs' = {} /\ dirtyM' = NoDirtyM /\ dirtyV' = NoDirtyV
    /\ toDelM' = {} /\ toDelV' = {} /\ gen' = 0
    /\ nextFlush' = now + FlushInterval
    /\ nextOffload' = now + OffloadLoopInterval
    /\ UNCHANGED <<now, nextM, nextV, store>>

Init ==
    /\ now = 1 /\ nextFlush = 1 + FlushInterval /\ nextOffload = 1 + OffloadLoopInterval
    /\ restarts = 0
    /\ hot = [e \in HotKeys |-> NilPtr]
    /\ vcache = [u \in ModelIDs |-> EmptyVersions]
    /\ stubs = {} /\ dirtyM = NoDirtyM /\ dirtyV = NoDirtyV
    /\ toDelM = {} /\ toDelV = {}
    /\ mheap = <<>> /\ vheap = <<>>
    /\ gen = 0 /\ nextM = 1 /\ nextV = 1
    /\ dbM = [u \in ModelIDs |-> NoRow]
    /\ dbV = [v \in VersionIDs |-> NoRow]

Next ==
    \/ \E w \in WriteKeys, k \in Kinds, p \in Payloads : HandleEvent(w, k, p)
    \/ DropEvent
    \/ FlushEventSchemas
    \/ OffloadSchemas
    \/ Tick
    \/ Restart

Spec == Init /\ [][Next]_vars

(***************************************************************************)
(* Properties.                                                             *)
(***************************************************************************)

Ptrs == ((ModelIDs \cup VersionIDs) \X (0..MaxLoads)) \cup {NilPtr}

TypeOK ==
    /\ now \in 1..MaxTime /\ restarts \in 0..MaxRestarts
    /\ hot \in [HotKeys -> Ptrs]
    /\ vcache \in [ModelIDs -> [Hashes -> Ptrs]]
    /\ dirtyM \in [ModelIDs -> Ptrs] /\ dirtyV \in [VersionIDs -> Ptrs]
    /\ toDelM \subseteq ModelIDs /\ toDelV \subseteq VersionIDs
    /\ \A st \in stubs : st.uuid \in ModelIDs /\ <<st.wk, st.kind>> \in HotKeys
    /\ \A e \in HotKeys : hot[e] # NilPtr => hot[e] \in DOMAIN mheap
    /\ \A u \in ModelIDs : dirtyM[u] # NilPtr => dirtyM[u] \in DOMAIN mheap
    /\ \A v \in VersionIDs : dirtyV[v] # NilPtr => dirtyV[v] \in DOMAIN vheap
    /\ \A u \in ModelIDs : dbM[u] = NoRow \/ <<dbM[u].wk, dbM[u].kind>> \in HotKeys
    /\ \A v \in VersionIDs : dbV[v] = NoRow \/ dbV[v].hash \in Hashes

\* No silent loss (spec 4.7): a hot model or cached schema version whose
\* in-memory state differs from its row is in updatedEventModels /
\* updatedSchemaVersions, so the next flush writes it.  Broken by any path
\* of handleEvent, reload or restart that changes an object without marking
\* it, or by a flush that clears a dirty set it did not write.
EveryUnsavedChangeIsDirty ==
    /\ \A e \in HotKeys : hot[e] # NilPtr =>
          LET m == mheap[hot[e]]
          IN  dirtyM[m.uuid] = hot[e] \/ dbM[m.uuid] = RowOf(m)
    /\ \A u \in ModelIDs, h \in Hashes : vcache[u][h] # NilPtr =>
          LET sv == vheap[vcache[u][h]]
          IN  dirtyV[sv.uuid] = vcache[u][h] \/ dbV[sv.uuid] = VRowOf(sv)

\* The persisted TotalCount of a model or version never goes backwards
\* while its row exists: a flush never writes an object that missed events
\* already written, e.g. one reloaded from a row older than memory.
StoreTotalsNeverDecrease ==
    [][/\ \A u \in ModelIDs : dbM[u] # NoRow /\ dbM'[u] # NoRow
                                 => dbM'[u].total >= dbM[u].total
       /\ \A v \in VersionIDs : dbV[v] # NoRow /\ dbV'[v] # NoRow
                                 => dbV'[v].total >= dbV[v].total]_store

\* Capacity (spec 4.4): a write key never holds more than eventModelLimit
\* models, hot and offloaded together, after handleEvent's eviction.
\* It fails once an offloaded stub is the oldest model: line 319 tombstones
\* the stub's uuid but leaves the stub counted (finding 1).
ModelLimitRespected ==
    \A w \in WriteKeys :
        Cardinality(HotEntries(Current, w)) + Cardinality(StubsOf(Current, w))
            <= EventModelLimit

\* A model never has more than schemaVersionPerEventModelLimit cached versions.
VersionLimitRespected ==
    \A u \in ModelIDs :
        Cardinality({h \in Hashes : vcache[u][h] # NilPtr}) <= SchemaVersionPerEventModelLimit

\* Hot/cold consistency that reloadModel assumes (spec 4.5): every stub
\* names a row of event_models with the stub's key, so a reload finds it.
StubsAreReloadable ==
    \A st \in stubs :
        /\ dbM[st.uuid] # NoRow
        /\ dbM[st.uuid].wk = st.wk /\ dbM[st.uuid].kind = st.kind

\* The model under key <<w, k>> of eventModelMap is the model of <<w, k>>:
\* its uuid and key fields are its own (offload/reload keep the identity).
HotModelsKeepIdentity ==
    \A e \in HotKeys : hot[e] # NilPtr =>
        LET m == mheap[hot[e]] IN <<m.wk, m.kind>> = e /\ m.uuid = hot[e][1]

\* After eviction and a flush the store respects the capacity too: a write
\* key has at most eventModelLimit rows in event_models, which is what a
\* restart loads back.
StoreModelLimitRespected ==
    \A w \in WriteKeys :
        Cardinality({u \in ModelIDs : dbM[u] # NoRow /\ dbM[u].wk = w}) <= EventModelLimit

=============================================================================

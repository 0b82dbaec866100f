------------------------- MODULE SchemaCacheProofs --------------------------
(***************************************************************************)
(* Proofs about SchemaCache for every set of subjects, readers, schemas    *)
(* and seeds, every register mode and every bound.  The registry and the   *)
(* cache only ever grow (Grows), so a conjunct of the invariant is         *)
(* disturbed only by the steps that write the maps it talks about.         *)
(***************************************************************************)
EXTENDS SchemaCache, FiniteSetTheorems, TLAPS

Keys == Range(Local) \union {f[2] : f \in Foreign}

\* The registry hands out the IDs 1, 2, ... and a version is one of them.
RegistryInv ==
  /\ mode \in Modes
  /\ schemas \in Seq(Keys) /\ DOMAIN schemas \subseteq IDs
  /\ versions \in [Subjects -> Seq(Nat)]
  /\ \A s \in Subjects : Range(versions[s]) \subseteq DOMAIN schemas

InternedInv ==
  /\ DOMAIN interned \subseteq Subjects
  /\ \A s \in DOMAIN interned : interned[s] = Local[s]

\* The registry knows id as the schema of s.
Known(s, id) == id \in Range(versions[s]) /\ (mode # "UseLatest" => schemas[id] = interned[s])

Goroutine == [pc : {"send", "failed", "refused", "cancelled", "answered", "done"},
              attempt : Nat, id : Nat, messageType : Types \union {None}]

\* A goroutine that has an answer has one the registry gave for its subject,
\* and when it is done the cache has it too.
ResolvingInv ==
  /\ DOMAIN resolving \subseteq Nat \X (DOMAIN interned)
  /\ resolving \in [DOMAIN resolving -> Goroutine]
  /\ \A g \in DOMAIN resolving :
       /\ resolving[g].pc \in {"answered", "done"} =>
            Known(g[2], resolving[g].id)
            /\ resolving[g].messageType = schemas[resolving[g].id].messageType
       /\ resolving[g].pc = "done" => Serializes(g[2])

SubjectsInv ==
  /\ DOMAIN subjectIDs \subseteq Subjects
  /\ \A s \in DOMAIN subjectIDs :
       /\ subjectIDs[s] \in Range(versions[s])
       /\ \/ mode \in SeedModes /\ subjectIDs[s] \in Seeds
          \/ /\ s \in DOMAIN interned /\ Known(s, subjectIDs[s])
             /\ subjectIDs[s] \in DOMAIN writerSchemas

\* What is cached for an ID is the registry's; a schema that is cached
\* without references has none.
WritersInv ==
  /\ DOMAIN writerSchemas \subseteq DOMAIN schemas
  /\ WriterSchemasAreTheRegistrys
  /\ DOMAIN writerMessageTypes \subseteq DOMAIN schemas
  /\ \A id \in DOMAIN writerMessageTypes :
       writerMessageTypes[id] = schemas[id].messageType
  /\ DOMAIN writerReferences \subseteq DOMAIN writerSchemas
  /\ \A id \in DOMAIN writerReferences :
       writerReferences[id] = References[schemas[id].schema]
  /\ mode # "UseLatest" => \A id \in DOMAIN writerSchemas \ DOMAIN writerReferences :
       References[schemas[id].schema] = {}

FetchState == [pc : {"send", "answered", "failed", "cancelled"}, attempt : Nat, left : Int]

\* A marked ID has one goroutine and any other ID has none.
FetchesInv ==
  /\ fetches \in [IDs -> Seq(FetchState)]
  /\ \A id \in IDs : /\ Len(fetches[id]) = IF id \in fetching THEN 1 ELSE 0
                     /\ \A n \in DOMAIN fetches[id] :
                          fetches[id][n].pc = "answered" => id \in DOMAIN schemas

\* A reader between its two critical sections has the writer's schema.
ReadersInv ==
  /\ readers \in [Readers -> [pc : {"idle", "read", "second"}, id : IDs \union {0},
                              schema : Texts \union {None}]]
  /\ \A r \in Readers :
       /\ readers[r].pc # "idle" => readers[r].id \in IDs
       /\ readers[r].pc = "second" =>
            /\ readers[r].id \in DOMAIN writerSchemas
            /\ mode # "UseLatest" => readers[r].schema = schemas[readers[r].id].schema
  /\ \A id \in DOMAIN validators :
       /\ id \in DOMAIN schemas
       /\ mode # "UseLatest" => validators[id] = schemas[id].schema

CountsInv == faults \in 0 .. MaxFaults /\ prewarms \in 0 .. MaxPrewarms

CacheInv ==
  /\ RegistryInv /\ InternedInv /\ ResolvingInv /\ SubjectsInv /\ WritersInv
  /\ FetchesInv /\ ReadersInv /\ CountsInv

-----------------------------------------------------------------------------
(***************************************************************************)
(* The registry and the maps.                                              *)
(***************************************************************************)
\* Put sets one entry.
LEMMA PutFacts ==
  ASSUME NEW f, NEW x, NEW y
  PROVE  /\ DOMAIN Put(f, x, y) = DOMAIN f \union {x}
         /\ Put(f, x, y)[x] = y
         /\ \A z \in DOMAIN f : z # x => Put(f, x, y)[z] = f[z]
BY DEF Put

\* The schemas the registry and the serdes know have finitely many
\* references, and a text and a message type of those listed.
LEMMA KeyFacts ==
  ASSUME NEW key \in Keys
  PROVE  /\ key.schema \in Texts /\ key.messageType \in Types
         /\ IsFiniteSet(References[key.schema])
<1>1. CASE key \in Range(Local)
  <2>1. PICK s \in Subjects : key = Local[s]
    BY <1>1, CacheAssumption DEF Range
  <2>2. IsFiniteSet(References[key.schema])
    BY <2>1, CacheAssumption, FS_EmptySet
  <2> QED BY <1>1, <2>2 DEF Texts, Types
<1>2. CASE key \in {f[2] : f \in Foreign}
  BY <1>2, CacheAssumption DEF Texts, Types
<1> QED BY <1>1, <1>2 DEF Keys

\* The ID of a schema is the one the registry has for it, or the next.
LEMMA IDOfFacts ==
  ASSUME schemas \in Seq(Keys), NEW key
  PROVE  \/ IDOf(key) \in DOMAIN schemas /\ schemas[IDOf(key)] = key
         \/ IDOf(key) = Len(schemas) + 1 /\ IDOf(key) \notin DOMAIN schemas
BY DEF IDOf

\* What is registered and cached stays.
Grows ==
  /\ mode' = mode
  /\ DOMAIN schemas \subseteq DOMAIN schemas'
  /\ \A id \in DOMAIN schemas : schemas'[id] = schemas[id]
  /\ \A s \in Subjects : Range(versions[s]) \subseteq Range(versions'[s])
  /\ DOMAIN interned \subseteq DOMAIN interned'
  /\ \A s \in DOMAIN interned : interned'[s] = interned[s]
  /\ DOMAIN writerSchemas \subseteq DOMAIN writerSchemas'
  /\ DOMAIN subjectIDs \subseteq DOMAIN subjectIDs'

\* Appending to a sequence adds one element.
LEMMA AppendedRange ==
  ASSUME NEW S, NEW q \in Seq(S), NEW x \in S
  PROVE  /\ Append(q, x) \in Seq(S) /\ DOMAIN Append(q, x) = DOMAIN q \union {Len(q) + 1}
         /\ \A i \in DOMAIN q : Append(q, x)[i] = q[i]
         /\ Append(q, x)[Len(q) + 1] = x
         /\ Range(Append(q, x)) = Range(q) \union {x}
<1>1. /\ Append(q, x) \in Seq(S) /\ DOMAIN Append(q, x) = DOMAIN q \union {Len(q) + 1}
      /\ \A i \in DOMAIN q : Append(q, x)[i] = q[i]
      /\ Append(q, x)[Len(q) + 1] = x
  OBVIOUS
<1> QED BY <1>1 DEF Range

\* A registration keeps the registry sound, loses nothing, and afterwards
\* the subject has the schema under the ID that is answered.
LEMMA RegisterFacts ==
  ASSUME RegistryInv, NEW s \in Subjects, NEW key \in Keys, Register(s, key), mode' = mode
  PROVE  /\ RegistryInv'
         /\ DOMAIN schemas \subseteq DOMAIN schemas'
         /\ \A id \in DOMAIN schemas : schemas'[id] = schemas[id]
         /\ \A t \in Subjects : Range(versions[t]) \subseteq Range(versions'[t])
         /\ IDOf(key) \in Range(versions'[s]) /\ schemas'[IDOf(key)] = key
         /\ IDOf(key) \in Nat \ {0}
<1> DEFINE id == IDOf(key)
<1>1. /\ id \in IDs
      /\ schemas' = IF id \in DOMAIN schemas THEN schemas ELSE Append(schemas, key)
      /\ versions' = IF id \in Range(versions[s]) THEN versions
                     ELSE [versions EXCEPT ![s] = Append(@, id)]
  BY DEF Register
<1>2. \/ id \in DOMAIN schemas /\ schemas[id] = key
      \/ id = Len(schemas) + 1 /\ id \notin DOMAIN schemas
  BY IDOfFacts DEF RegistryInv
<1>3. id \in Nat \ {0}
  BY <1>1, CacheAssumption DEF IDs
<1> HIDE DEF id
<1>4. /\ schemas' \in Seq(Keys) /\ DOMAIN schemas' = DOMAIN schemas \union {id}
      /\ \A i \in DOMAIN schemas : schemas'[i] = schemas[i]
      /\ schemas'[id] = key
  <2>1. CASE id \in DOMAIN schemas
    BY <1>1, <1>2, <2>1 DEF RegistryInv
  <2>2. CASE id = Len(schemas) + 1 /\ id \notin DOMAIN schemas
    <3>1. schemas' = Append(schemas, key) /\ schemas \in Seq(Keys)
      BY <1>1, <2>2 DEF RegistryInv
    <3> QED BY <2>2, <3>1, AppendedRange
  <2> QED BY <1>2, <2>1, <2>2
<1>5. /\ versions' \in [Subjects -> Seq(Nat)]
      /\ \A t \in Subjects : Range(versions[t]) \subseteq Range(versions'[t])
      /\ \A t \in Subjects : Range(versions'[t]) \subseteq Range(versions[t]) \union {id}
      /\ id \in Range(versions'[s])
  <2>1. CASE id \in Range(versions[s])
    BY <1>1, <2>1 DEF RegistryInv
  <2>2. CASE id \notin Range(versions[s])
    <3>1. /\ versions' = [versions EXCEPT ![s] = Append(@, id)]
          /\ versions \in [Subjects -> Seq(Nat)]
      BY <1>1, <2>2 DEF RegistryInv
    <3>2. /\ Append(versions[s], id) \in Seq(Nat)
          /\ Range(Append(versions[s], id)) = Range(versions[s]) \union {id}
      BY <1>3, <3>1, AppendedRange
    <3>3. versions'[s] = Append(versions[s], id) /\ \A t \in Subjects : t # s => versions'[t] = versions[t]
      BY <3>1
    <3> QED BY <3>1, <3>2, <3>3
  <2> QED BY <2>1, <2>2
<1>6. RegistryInv'
  BY <1>1, <1>4, <1>5 DEF RegistryInv
<1> QED BY <1>3, <1>4, <1>5, <1>6 DEF id

\* An answered lookup names the schema it asked for.
LEMMA LookupFacts ==
  ASSUME RegistryInv, NEW s \in Subjects, NEW key, Lookup(s, key) # 0
  PROVE  /\ Lookup(s, key) \in Range(versions[s]) /\ Lookup(s, key) \in Nat
         /\ schemas[Lookup(s, key)] = key
<1>1. Lookup(s, key) = IDOf(key) /\ IDOf(key) \in Range(versions[s])
  BY DEF Lookup
<1>2. IDOf(key) \in DOMAIN schemas /\ DOMAIN schemas \subseteq Nat
  BY <1>1 DEF RegistryInv
<1> QED BY <1>1, <1>2, IDOfFacts DEF RegistryInv

\* The latest version is a version.
LEMMA LatestFacts ==
  ASSUME RegistryInv, NEW s \in Subjects, Latest(s) # 0
  PROVE  Latest(s) \in Range(versions[s]) /\ Latest(s) \in Nat
<1>1. versions[s] \in Seq(Nat) /\ versions[s] # <<>> /\ Latest(s) = versions[s][Len(versions[s])]
  BY DEF RegistryInv, Latest, Last
<1>2. Len(versions[s]) \in DOMAIN versions[s]
  BY <1>1
<1> QED BY <1>1, <1>2 DEF Range

-----------------------------------------------------------------------------
(***************************************************************************)
(* A conjunct whose own maps are left alone survives whatever grows.       *)
(***************************************************************************)
\* What the registry knows it keeps knowing.
LEMMA KnownKept ==
  ASSUME RegistryInv, Grows, NEW s \in DOMAIN interned, s \in Subjects, NEW id, Known(s, id)
  PROVE  Known(s, id)' /\ schemas'[id] = schemas[id]
BY DEF RegistryInv, Grows, Known

\* The prewarming goroutines.
LEMMA ResolvingKept ==
  ASSUME RegistryInv, InternedInv, ResolvingInv, Grows, UNCHANGED resolving
  PROVE  ResolvingInv'
<1>1. ASSUME NEW g \in DOMAIN resolving, resolving[g].pc \in {"answered", "done"}
      PROVE  /\ Known(g[2], resolving[g].id)'
             /\ resolving[g].messageType = schemas'[resolving[g].id].messageType
  <2>1. g[2] \in DOMAIN interned /\ g[2] \in Subjects /\ Known(g[2], resolving[g].id)
    BY <1>1 DEF ResolvingInv, InternedInv
  <2> QED BY <1>1, <2>1, KnownKept DEF ResolvingInv
<1>2. \A g \in DOMAIN resolving : Serializes(g[2]) => Serializes(g[2])'
  BY DEF Grows, Serializes
<1>3. DOMAIN resolving \subseteq Nat \X (DOMAIN interned')
  BY DEF ResolvingInv, Grows
<1> QED BY <1>1, <1>2, <1>3 DEF ResolvingInv, Known, Serializes

\* The subject IDs.
LEMMA SubjectsKept ==
  ASSUME RegistryInv, SubjectsInv, Grows, UNCHANGED subjectIDs
  PROVE  SubjectsInv'
<1>1. ASSUME NEW s \in DOMAIN subjectIDs
      PROVE  /\ subjectIDs[s] \in Range(versions'[s])
             /\ \/ mode' \in SeedModes /\ subjectIDs[s] \in Seeds
                \/ /\ s \in DOMAIN interned' /\ Known(s, subjectIDs[s])'
                   /\ subjectIDs[s] \in DOMAIN writerSchemas'
  BY <1>1, KnownKept DEF SubjectsInv, Grows
<1> QED BY <1>1 DEF SubjectsInv, Known

\* The writer schemas, their message types and references.
LEMMA WritersKept ==
  ASSUME RegistryInv, WritersInv, Grows,
         UNCHANGED <<writerSchemas, writerMessageTypes, writerReferences>>
  PROVE  WritersInv'
<1>1. WriterSchemasAreTheRegistrys'
  BY DEF WritersInv, WriterSchemasAreTheRegistrys, Grows
<1> QED BY <1>1 DEF WritersInv, Grows

\* The fetching goroutines.
LEMMA FetchesKept ==
  ASSUME FetchesInv, Grows, UNCHANGED <<fetches, fetching>>
  PROVE  FetchesInv'
BY DEF FetchesInv, Grows

\* The readers and the compiled validators.
LEMMA ReadersKept ==
  ASSUME RegistryInv, WritersInv, ReadersInv, Grows, UNCHANGED <<readers, validators>>
  PROVE  ReadersInv'
<1>1. ASSUME NEW r \in Readers, readers[r].pc = "second"
      PROVE  /\ readers[r].id \in DOMAIN writerSchemas'
             /\ mode' # "UseLatest" => readers[r].schema = schemas'[readers[r].id].schema
  BY <1>1 DEF ReadersInv, WritersInv, Grows
<1>2. \A id \in DOMAIN validators :
        /\ id \in DOMAIN schemas'
        /\ mode' # "UseLatest" => validators[id] = schemas'[id].schema
  BY DEF ReadersInv, Grows
<1> QED BY <1>1, <1>2 DEF ReadersInv

\* A step that writes none of the maps that grow.
LEMMA NothingGrows ==
  ASSUME UNCHANGED <<mode, registry, interned, subjectIDs, writerSchemas>>
  PROVE  Grows
BY DEF Grows, registry

\* The registry and the interned schemas are typed by themselves.
LEMMA RegistryKept ==
  ASSUME RegistryInv, UNCHANGED <<mode, registry>>
  PROVE  RegistryInv'
BY DEF RegistryInv, registry

LEMMA InternedKept ==
  ASSUME InternedInv, UNCHANGED interned
  PROVE  InternedInv'
BY DEF InternedInv

-----------------------------------------------------------------------------
(***************************************************************************)
(* The registry and prewarming.                                            *)
(***************************************************************************)
\* Another application registers.
LEMMA ForeignRegisterStep ==
  ASSUME CacheInv, ForeignRegister
  PROVE  CacheInv'
<1>1. /\ RegistryInv /\ InternedInv /\ ResolvingInv /\ SubjectsInv /\ WritersInv
      /\ FetchesInv /\ ReadersInv /\ CountsInv
  BY DEF CacheInv
<1>2. PICK f \in Foreign : Register(f[1], f[2])
  BY DEF ForeignRegister
<1>3. /\ UNCHANGED <<mode, interned, subjectIDs, writerSchemas, writerMessageTypes>>
      /\ UNCHANGED <<writerReferences, fetching, fetches, resolving, readers>>
      /\ UNCHANGED <<validators, faults, prewarms>>
  BY DEF ForeignRegister, cache
<1>4. f[1] \in Subjects /\ f[2] \in Keys
  BY <1>2, CacheAssumption DEF Keys
<1>5. RegistryInv' /\ Grows
  BY <1>1, <1>2, <1>3, <1>4, RegisterFacts DEF Grows
<1>6. InternedInv' /\ ResolvingInv' /\ SubjectsInv' /\ WritersInv' /\ FetchesInv' /\ ReadersInv'
  BY <1>1, <1>3, <1>5, InternedKept, ResolvingKept, SubjectsKept, WritersKept, FetchesKept,
     ReadersKept
<1>7. CountsInv'
  BY <1>1, <1>3 DEF CountsInv
<1> QED BY <1>5, <1>6, <1>7 DEF CacheInv

\* A serde interns its schema.
LEMMA InternStep ==
  ASSUME CacheInv, NEW s \in Subjects, Intern(s)
  PROVE  CacheInv'
<1>1. /\ RegistryInv /\ InternedInv /\ ResolvingInv /\ SubjectsInv /\ WritersInv
      /\ FetchesInv /\ ReadersInv /\ CountsInv
  BY DEF CacheInv
<1>2. /\ s \notin DOMAIN interned /\ interned' = Put(interned, s, Local[s])
      /\ UNCHANGED <<mode, registry, subjectIDs, writerSchemas, writerMessageTypes>>
      /\ UNCHANGED <<writerReferences, fetching, fetches, resolving, readers>>
      /\ UNCHANGED <<validators, faults, prewarms>>
  BY DEF Intern
<1>3. /\ DOMAIN interned' = DOMAIN interned \union {s} /\ interned'[s] = Local[s]
      /\ \A t \in DOMAIN interned : interned'[t] = interned[t]
  BY <1>2 DEF Put
<1>4. Grows
  BY <1>2, <1>3 DEF Grows, registry
<1>5. InternedInv'
  BY <1>1, <1>3 DEF InternedInv
<1>6. RegistryInv' /\ ResolvingInv' /\ SubjectsInv' /\ WritersInv' /\ FetchesInv' /\ ReadersInv'
  BY <1>1, <1>2, <1>4, RegistryKept, ResolvingKept, SubjectsKept, WritersKept, FetchesKept,
     ReadersKept
<1>7. CountsInv'
  BY <1>1, <1>2 DEF CountsInv
<1> QED BY <1>5, <1>6, <1>7 DEF CacheInv

\* A step that writes only the prewarming goroutines and the counters.
LEMMA ResolvingOnly ==
  ASSUME CacheInv, ResolvingInv', CountsInv',
         UNCHANGED <<mode, registry, cache, fetches, readers, validators>>
  PROVE  CacheInv'
<1>1. /\ RegistryInv /\ InternedInv /\ SubjectsInv /\ WritersInv
      /\ FetchesInv /\ ReadersInv
  BY DEF CacheInv
<1>2. /\ UNCHANGED <<mode, registry, interned, subjectIDs, writerSchemas>>
      /\ UNCHANGED <<writerMessageTypes, writerReferences, fetching, fetches, readers>>
      /\ UNCHANGED validators
  BY DEF cache
<1>3. Grows
  BY <1>2, NothingGrows
<1>4. RegistryInv' /\ InternedInv' /\ SubjectsInv' /\ WritersInv' /\ FetchesInv' /\ ReadersInv'
  BY <1>1, <1>2, <1>3, RegistryKept, InternedKept, SubjectsKept, WritersKept, FetchesKept,
     ReadersKept
<1> QED BY <1>4 DEF CacheInv

\* A prewarm starts and ends.
LEMMA PrewarmStep ==
  ASSUME CacheInv, StartPrewarm \/ \E call \in 1 .. MaxPrewarms : FinishPrewarm(call)
  PROVE  CacheInv'
<1>1. CASE StartPrewarm
  <2> DEFINE new == [pc |-> "send", attempt |-> 0, id |-> 0, messageType |-> None]
             call == prewarms + 1
  <2>1. /\ UNCHANGED <<mode, registry, cache, fetches, readers, validators>>
        /\ UNCHANGED faults
        /\ call <= MaxPrewarms /\ prewarms' = call
        /\ resolving' = [g \in DOMAIN resolving \union ({call} \X (DOMAIN interned)) |->
             IF g \in DOMAIN resolving THEN resolving[g] ELSE new]
    BY <1>1 DEF StartPrewarm
  <2>2. CountsInv' /\ call \in Nat
    BY <2>1, CacheAssumption DEF CacheInv, CountsInv
  <2>3. new \in Goroutine /\ new.pc = "send"
    BY DEF Goroutine
  <2> HIDE DEF new, call
  <2>4. /\ DOMAIN resolving' = DOMAIN resolving \union ({call} \X (DOMAIN interned))
        /\ \A g \in DOMAIN resolving' : \/ g \in DOMAIN resolving /\ resolving'[g] = resolving[g]
                                        \/ resolving'[g] = new
    BY <2>1
  <2>5. UNCHANGED <<mode, interned, schemas, versions, subjectIDs>>
    BY <2>1 DEF cache, registry
  <2>6. ResolvingInv
    BY DEF CacheInv
  <2>7. DOMAIN resolving' \subseteq Nat \X (DOMAIN interned')
    BY <2>2, <2>4, <2>5, <2>6 DEF ResolvingInv
  <2>8. resolving' \in [DOMAIN resolving' -> Goroutine]
    BY <2>1, <2>3, <2>4, <2>6 DEF ResolvingInv
  <2>9. ASSUME NEW g \in DOMAIN resolving'
        PROVE  /\ resolving'[g].pc \in {"answered", "done"} =>
                    Known(g[2], resolving[g].id)'
                    /\ resolving'[g].messageType = schemas'[resolving'[g].id].messageType
               /\ resolving'[g].pc = "done" => Serializes(g[2])'
    <3>1. CASE resolving'[g] = new
      BY <2>3, <3>1
    <3>2. CASE g \in DOMAIN resolving /\ resolving'[g] = resolving[g]
      BY <2>5, <2>6, <3>2 DEF ResolvingInv, Known, Serializes
    <3> QED BY <2>4, <2>9, <3>1, <3>2
  <2>10. ResolvingInv'
    BY <2>7, <2>8, <2>9 DEF ResolvingInv, Known
  <2> QED BY <2>1, <2>2, <2>10, ResolvingOnly
<1>2. ASSUME NEW call, FinishPrewarm(call) PROVE CacheInv'
  <2>1. /\ UNCHANGED <<mode, registry, cache, fetches, readers, validators>>
        /\ UNCHANGED <<faults, prewarms>>
        /\ resolving' = [g \in DOMAIN resolving \ Prewarming(call) |-> resolving[g]]
    BY <1>2 DEF FinishPrewarm
  <2>2. UNCHANGED <<mode, interned, schemas, versions, subjectIDs>>
    BY <2>1 DEF cache, registry
  <2>3. /\ DOMAIN resolving' \subseteq DOMAIN resolving
        /\ \A g \in DOMAIN resolving' : resolving'[g] = resolving[g]
    BY <2>1
  <2>4. ResolvingInv
    BY DEF CacheInv
  <2>5. resolving' \in [DOMAIN resolving' -> Goroutine]
    BY <2>1, <2>3, <2>4 DEF ResolvingInv
  <2>6. ResolvingInv'
    BY <2>2, <2>3, <2>4, <2>5 DEF ResolvingInv, Known, Serializes
  <2>7. CountsInv'
    BY <2>1 DEF CacheInv, CountsInv
  <2> QED BY <2>1, <2>6, <2>7, ResolvingOnly
<1> QED BY <1>1, <1>2

\* One goroutine moves while the registry may register: the rest stays.
LEMMA ResolvingMoves ==
  ASSUME CacheInv, NEW g \in DOMAIN resolving, NEW v, resolving' = [resolving EXCEPT ![g] = v],
         v \in Goroutine,
         v.pc # "done", RegistryInv', Grows,
         v.pc = "answered" => /\ Known(g[2], v.id)'
                              /\ v.messageType = schemas'[v.id].messageType,
         UNCHANGED <<mode, cache, fetches, readers, validators>>, CountsInv'
  PROVE  CacheInv'
<1>1. /\ RegistryInv /\ InternedInv /\ ResolvingInv /\ SubjectsInv /\ WritersInv
      /\ FetchesInv /\ ReadersInv
  BY DEF CacheInv
<1>2. /\ UNCHANGED <<mode, interned, subjectIDs, writerSchemas>>
      /\ UNCHANGED <<writerMessageTypes, writerReferences, fetching, fetches, readers>>
      /\ UNCHANGED validators
  BY DEF cache
<1>3. /\ DOMAIN resolving' = DOMAIN resolving /\ resolving'[g] = v
      /\ \A t \in DOMAIN resolving : t # g => resolving'[t] = resolving[t]
  BY <1>1 DEF ResolvingInv
<1>4. ResolvingInv'
  <2>1. ASSUME NEW t \in DOMAIN resolving, t # g, resolving[t].pc \in {"answered", "done"}
        PROVE  /\ Known(t[2], resolving[t].id)'
               /\ resolving'[t].messageType = schemas'[resolving'[t].id].messageType
    <3>1. t[2] \in DOMAIN interned /\ t[2] \in Subjects /\ Known(t[2], resolving[t].id)
      BY <1>1, <2>1 DEF ResolvingInv, InternedInv
    <3> QED BY <1>1, <1>3, <2>1, <3>1, KnownKept DEF ResolvingInv
  <2>2. \A t \in DOMAIN resolving : Serializes(t[2]) => Serializes(t[2])'
    BY <1>2 DEF Serializes
  <2>3. resolving' \in [DOMAIN resolving' -> Goroutine]
    BY <1>1, <1>3 DEF ResolvingInv
  <2>4. ASSUME NEW t \in DOMAIN resolving'
        PROVE  /\ resolving'[t].pc \in {"answered", "done"} =>
                    Known(t[2], resolving[t].id)'
                    /\ resolving'[t].messageType = schemas'[resolving'[t].id].messageType
               /\ resolving'[t].pc = "done" => Serializes(t[2])'
    <3>1. CASE t = g
      BY <1>3, <3>1 DEF Known
    <3>2. CASE t # g
      BY <1>1, <1>3, <2>1, <2>2, <2>4, <3>2 DEF ResolvingInv, Known
    <3> QED BY <3>1, <3>2
  <2>5. DOMAIN resolving' \subseteq Nat \X (DOMAIN interned')
    BY <1>1, <1>2, <1>3 DEF ResolvingInv
  <2> QED BY <2>3, <2>4, <2>5 DEF ResolvingInv, Known
<1>5. InternedInv' /\ SubjectsInv' /\ WritersInv' /\ FetchesInv' /\ ReadersInv'
  BY <1>1, <1>2, InternedKept, SubjectsKept, WritersKept, FetchesKept, ReadersKept
<1> QED BY <1>4, <1>5 DEF CacheInv

\* The counters allow a fault.
LEMMA FaultCounts ==
  ASSUME CacheInv, Fault \/ UNCHANGED faults, UNCHANGED prewarms
  PROVE  CountsInv'
BY CacheAssumption DEF CacheInv, CountsInv, Fault

\* The registry answers a prewarming goroutine.
LEMMA ResolveAnsweredStep ==
  ASSUME CacheInv, NEW g \in DOMAIN resolving, ResolveAnswered(g)
  PROVE  CacheInv'
<1> DEFINE s == g[2]
           local == interned[s]
           Answered(id) ==
             IF id = 0 THEN [resolving[g] EXCEPT !.pc = "refused"]
             ELSE [resolving[g] EXCEPT !.pc = "answered", !.id = id,
                     !.messageType = IF mode = "UseLatest" THEN schemas[id].messageType
                                     ELSE local.messageType]
<1>1. /\ RegistryInv /\ InternedInv /\ ResolvingInv
  BY DEF CacheInv
<1>2. /\ UNCHANGED <<mode, cache, fetches, readers, validators>>
      /\ UNCHANGED <<faults, prewarms>>
  BY DEF ResolveAnswered
<1>3. /\ s \in Subjects /\ s \in DOMAIN interned /\ local \in Keys /\ local = Local[s]
      /\ local.messageType \in Types
  <2>1. s \in Subjects /\ s \in DOMAIN interned /\ local = Local[s]
    BY <1>1 DEF ResolvingInv, InternedInv
  <2>2. local \in Keys
    BY <2>1, CacheAssumption DEF Keys, Range
  <2> QED BY <2>1, <2>2, KeyFacts
<1>4. \/ /\ mode = "AutoRegister" /\ Register(s, local)
         /\ resolving' = [resolving EXCEPT ![g] = Answered(IDOf(local))]
      \/ /\ mode = "LookupOnly" /\ UNCHANGED registry
         /\ resolving' = [resolving EXCEPT ![g] = Answered(Lookup(s, local))]
      \/ /\ mode = "UseLatest" /\ UNCHANGED registry
         /\ resolving' = [resolving EXCEPT ![g] = Answered(Latest(s))]
  <2>1. mode \in {"AutoRegister", "LookupOnly", "UseLatest"}
    BY <1>1, CacheAssumption DEF RegistryInv
  <2> QED BY <1>1, <2>1 DEF ResolveAnswered, ResolvingInv
<1>5. resolving[g] \in Goroutine /\ resolving[g].pc = "send"
  BY <1>1 DEF ResolvingInv, ResolveAnswered
<1>6. CountsInv'
  BY <1>2, FaultCounts
<1>7. UNCHANGED <<interned, subjectIDs, writerSchemas>>
  BY <1>2 DEF cache
<1> HIDE DEF local, s
<1>8. ASSUME NEW id \in Nat, RegistryInv', Grows,
             resolving' = [resolving EXCEPT ![g] = Answered(id)],
             id # 0 => /\ id \in Range(versions'[s])
                       /\ mode # "UseLatest" => schemas'[id] = local
                       /\ mode = "UseLatest" => id \in DOMAIN schemas
      PROVE  CacheInv'
  <2>1. /\ Answered(id) \in Goroutine /\ Answered(id).pc # "done"
        /\ Answered(id).pc = "answered" => /\ id # 0 /\ Answered(id).id = id
             /\ Answered(id).messageType = IF mode = "UseLatest" THEN schemas[id].messageType
                                           ELSE local.messageType
    <3>1. mode = "UseLatest" /\ id # 0 => schemas[id].messageType \in Types
      BY <1>1, <1>8, KeyFacts DEF RegistryInv
    <3> QED BY <1>3, <1>5, <1>8, <3>1 DEF Goroutine
  <2>2. PICK v : v = Answered(id)
    OBVIOUS
  <2>3. /\ v \in Goroutine /\ v.pc # "done" /\ resolving' = [resolving EXCEPT ![g] = v]
        /\ v.pc = "answered" => /\ id # 0 /\ v.id = id
             /\ v.messageType = IF mode = "UseLatest" THEN schemas[id].messageType
                                ELSE local.messageType
    BY <1>8, <2>1, <2>2
  <2> HIDE DEF Answered
  <2>4. v.pc = "answered" =>
          Known(s, v.id)' /\ v.messageType = schemas'[v.id].messageType
    <3> SUFFICES ASSUME v.pc = "answered"
                 PROVE  Known(s, id)' /\ v.messageType = schemas'[id].messageType
      BY <2>3
    <3>1. mode' = mode /\ interned'[s] = local
      BY <1>2, <1>7 DEF local
    <3>2. Known(s, id)'
      BY <1>8, <2>3, <3>1 DEF Known
    <3>3. mode = "UseLatest" => schemas'[id] = schemas[id]
      BY <1>8, <2>3 DEF Grows
    <3> QED BY <1>8, <2>3, <3>2, <3>3
  <2> QED BY <1>2, <1>6, <1>8, <2>3, <2>4, ResolvingMoves DEF s
<1>9. CASE /\ mode = "AutoRegister" /\ Register(s, local)
           /\ resolving' = [resolving EXCEPT ![g] = Answered(IDOf(local))]
  <2>1. /\ RegistryInv' /\ Grows /\ IDOf(local) \in Nat
        /\ IDOf(local) \in Range(versions'[s]) /\ schemas'[IDOf(local)] = local
    BY <1>1, <1>2, <1>3, <1>7, <1>9, RegisterFacts DEF Grows
  <2> QED BY <1>8, <1>9, <2>1
<1>10. CASE UNCHANGED registry
  <2>1. RegistryInv' /\ Grows /\ versions' = versions /\ schemas' = schemas
    BY <1>1, <1>2, <1>7, <1>10, RegistryKept, NothingGrows DEF registry
  <2>2. CASE /\ mode = "LookupOnly"
             /\ resolving' = [resolving EXCEPT ![g] = Answered(Lookup(s, local))]
    <3>1. Lookup(s, local) # 0 =>
            /\ Lookup(s, local) \in Range(versions'[s]) /\ Lookup(s, local) \in Nat
            /\ schemas'[Lookup(s, local)] = local
      BY <1>1, <1>3, <2>1, LookupFacts
    <3>2. Lookup(s, local) \in Nat
      BY <3>1
    <3> QED BY <1>8, <2>1, <2>2, <3>1, <3>2
  <2>3. CASE /\ mode = "UseLatest"
             /\ resolving' = [resolving EXCEPT ![g] = Answered(Latest(s))]
    <3>1. Latest(s) # 0 => Latest(s) \in Range(versions'[s]) /\ Latest(s) \in Nat
                           /\ Latest(s) \in DOMAIN schemas
      BY <1>1, <1>3, <2>1, LatestFacts DEF RegistryInv
    <3>2. Latest(s) \in Nat
      BY <3>1
    <3> QED BY <1>8, <2>1, <2>3, <3>1, <3>2
  <2>4. mode = "LookupOnly" \/ mode = "UseLatest" \/ mode = "AutoRegister"
    BY <1>4
  <2>5. CASE mode = "AutoRegister"
    BY <1>4, <1>9, <2>5
  <2> QED BY <1>4, <2>2, <2>3, <2>5
<1> QED BY <1>4, <1>9, <1>10

\* A request that brings no ID may still have registered the schema.
LEMMA HandledFacts ==
  ASSUME CacheInv, NEW g \in DOMAIN resolving, NEW handled, Handled(g, handled),
         UNCHANGED <<mode, interned, subjectIDs, writerSchemas>>
  PROVE  RegistryInv' /\ Grows
<1>1. RegistryInv /\ InternedInv /\ ResolvingInv
  BY DEF CacheInv
<1>2. CASE UNCHANGED registry
  BY <1>1, <1>2, RegistryKept, NothingGrows
<1>3. CASE Register(g[2], interned[g[2]])
  <2>1. g[2] \in Subjects /\ interned[g[2]] = Local[g[2]]
    BY <1>1 DEF ResolvingInv, InternedInv
  <2>2. interned[g[2]] \in Keys
    BY <2>1, CacheAssumption DEF Keys, Range
  <2> QED BY <1>1, <1>3, <2>1, <2>2, RegisterFacts DEF Grows
<1> QED BY <1>2, <1>3 DEF Handled

\* The request or its answer is lost, or refused.
LEMMA ResolveLostStep ==
  ASSUME CacheInv, NEW g \in DOMAIN resolving, NEW handled,
         \/ ResolveRefused(g, handled)
         \/ \E cancelled \in BOOLEAN : ResolveLost(g, handled, cancelled)
  PROVE  CacheInv'
<1>1. resolving \in [DOMAIN resolving -> Goroutine] /\ resolving[g] \in Goroutine
  BY DEF CacheInv, ResolvingInv
<1>2. /\ UNCHANGED <<mode, cache, fetches, readers, validators>>
      /\ UNCHANGED prewarms /\ Fault /\ resolving[g].pc = "send" /\ Handled(g, handled)
  BY DEF ResolveLost, ResolveRefused
<1>3. PICK v : /\ resolving' = [resolving EXCEPT ![g] = v]
               /\ \/ v = [resolving[g] EXCEPT !.pc = "refused"]
                  \/ \E cancelled \in BOOLEAN : v = Retried(resolving[g], cancelled)
  <2>1. CASE ResolveRefused(g, handled)
    BY <1>1, <2>1 DEF ResolveRefused
  <2>2. ASSUME NEW cancelled \in BOOLEAN, ResolveLost(g, handled, cancelled)
        PROVE  resolving' = [resolving EXCEPT ![g] = Retried(resolving[g], cancelled)]
    BY <1>1, <2>2 DEF ResolveLost
  <2> QED BY <2>1, <2>2
<1>4. v \in Goroutine /\ v.pc # "done" /\ v.pc # "answered"
  <2>1. CASE v = [resolving[g] EXCEPT !.pc = "refused"]
    BY <1>1, <2>1 DEF Goroutine
  <2>2. ASSUME NEW cancelled \in BOOLEAN, v = Retried(resolving[g], cancelled)
        PROVE  v \in Goroutine /\ v.pc # "done" /\ v.pc # "answered"
    BY <1>1, <1>2, <2>2 DEF Retried, Goroutine
  <2> QED BY <1>3, <2>1, <2>2
<1>5. UNCHANGED <<mode, interned, subjectIDs, writerSchemas>>
  BY <1>2 DEF cache
<1>6. RegistryInv' /\ Grows
  BY <1>2, <1>5, HandledFacts
<1>7. CountsInv'
  BY <1>2, FaultCounts
<1> QED BY <1>2, <1>3, <1>4, <1>6, <1>7, ResolvingMoves

\* The answer of the registry is stored under the subject and the ID.
LEMMA ResolveStoredStep ==
  ASSUME CacheInv, NEW g \in DOMAIN resolving, ResolveStored(g)
  PROVE  CacheInv'
<1> DEFINE s == g[2]
           id == resolving[g].id
           type == resolving[g].messageType
<1>1. /\ RegistryInv /\ InternedInv /\ ResolvingInv /\ SubjectsInv /\ WritersInv
      /\ FetchesInv /\ ReadersInv /\ CountsInv
  BY DEF CacheInv
<1>2. /\ UNCHANGED <<mode, registry, interned, writerReferences>>
      /\ UNCHANGED <<fetching, fetches, readers, validators, faults, prewarms>>
      /\ resolving[g].pc = "answered"
      /\ resolving' = [resolving EXCEPT ![g].pc = "done"]
      /\ subjectIDs' = Put(subjectIDs, s, id)
      /\ writerSchemas' = Put(writerSchemas, id, interned[s].schema)
      /\ writerMessageTypes' = IF type = None THEN writerMessageTypes
                               ELSE Put(writerMessageTypes, id, type)
  BY DEF ResolveStored
<1>3. /\ s \in Subjects /\ s \in DOMAIN interned /\ interned[s] = Local[s]
      /\ Known(s, id) /\ type = schemas[id].messageType
  BY <1>1, <1>2 DEF ResolvingInv, InternedInv
<1>4. id \in DOMAIN schemas
  BY <1>1, <1>3 DEF Known, RegistryInv
<1> HIDE DEF id, type, s
<1>5. /\ DOMAIN writerSchemas' = DOMAIN writerSchemas \union {id}
      /\ writerSchemas'[id] = interned[s].schema
      /\ \A i \in DOMAIN writerSchemas : i # id => writerSchemas'[i] = writerSchemas[i]
  BY <1>2 DEF Put
<1>6. /\ DOMAIN subjectIDs' = DOMAIN subjectIDs \union {s} /\ subjectIDs'[s] = id
      /\ \A t \in DOMAIN subjectIDs : t # s => subjectIDs'[t] = subjectIDs[t]
  BY <1>2 DEF Put
<1>7. Grows
  BY <1>2, <1>5, <1>6 DEF Grows, registry
<1>8. ResolvingInv'
  <2>1. /\ DOMAIN resolving' = DOMAIN resolving
        /\ resolving'[g] = [resolving[g] EXCEPT !.pc = "done"]
        /\ \A t \in DOMAIN resolving : t # g => resolving'[t] = resolving[t]
    BY <1>1, <1>2 DEF ResolvingInv
  <2>2. /\ resolving'[g].pc = "done" /\ resolving'[g].id = resolving[g].id
        /\ resolving'[g].messageType = resolving[g].messageType
        /\ resolving'[g] \in Goroutine
    BY <1>1, <2>1 DEF ResolvingInv, Goroutine
  <2>3. resolving' \in [DOMAIN resolving' -> Goroutine]
    BY <1>1, <1>2, <2>1, <2>2 DEF ResolvingInv
  <2>4. UNCHANGED <<mode, versions, schemas, interned>>
    BY <1>2 DEF registry
  <2>5. ASSUME NEW t \in DOMAIN resolving'
        PROVE  /\ resolving'[t].pc \in {"answered", "done"} =>
                    Known(t[2], resolving[t].id)'
                    /\ resolving'[t].messageType = schemas'[resolving'[t].id].messageType
               /\ resolving'[t].pc = "done" => Serializes(t[2])'
    <3>1. CASE t = g
      BY <1>3, <1>6, <2>2, <2>4, <3>1 DEF Known, Serializes, id, type, s
    <3>2. CASE t # g
      BY <1>1, <1>6, <2>1, <2>4, <2>5, <3>2 DEF ResolvingInv, Known, Serializes
    <3> QED BY <3>1, <3>2
  <2> QED BY <1>1, <2>1, <2>3, <2>4, <2>5 DEF ResolvingInv, Known
<1>9. SubjectsInv'
  <2>1. ASSUME NEW t \in DOMAIN subjectIDs'
        PROVE  /\ subjectIDs'[t] \in Range(versions'[t])
               /\ \/ mode' \in SeedModes /\ subjectIDs'[t] \in Seeds
                  \/ /\ t \in DOMAIN interned' /\ Known(t, subjectIDs[t])'
                     /\ subjectIDs'[t] \in DOMAIN writerSchemas'
    <3>1. UNCHANGED <<mode, versions, schemas, interned>>
      BY <1>2 DEF registry
    <3>2. CASE t = s
      BY <1>3, <1>5, <1>6, <3>1, <3>2 DEF Known
    <3>3. CASE t # s
      BY <1>1, <1>5, <1>6, <2>1, <3>1, <3>3 DEF SubjectsInv, Known
    <3> QED BY <3>2, <3>3
  <2> QED BY <1>1, <1>3, <1>6, <2>1 DEF SubjectsInv, Known
<1>10. WritersInv'
  <2>1. UNCHANGED <<mode, schemas, interned, writerReferences>>
    BY <1>2 DEF registry
  <2>2. WriterSchemasAreTheRegistrys'
    <3>1. ASSUME NEW i \in DOMAIN writerSchemas'
          PROVE  \/ writerSchemas'[i] = schemas[i].schema
                 \/ /\ mode = "UseLatest"
                    /\ \E t \in DOMAIN interned : writerSchemas'[i] = interned[t].schema
      <4>1. CASE i = id
        BY <1>3, <1>5, <4>1 DEF Known
      <4>2. CASE i # id
        BY <1>1, <1>5, <3>1, <4>2 DEF WritersInv, WriterSchemasAreTheRegistrys
      <4> QED BY <4>1, <4>2
    <3> QED BY <2>1, <3>1 DEF WriterSchemasAreTheRegistrys
  <2>3. /\ DOMAIN writerMessageTypes' \subseteq DOMAIN schemas
        /\ \A i \in DOMAIN writerMessageTypes' :
             writerMessageTypes'[i] = schemas[i].messageType
    <3>1. CASE type = None
      BY <1>1, <1>2, <3>1 DEF WritersInv
    <3>2. CASE type # None
      <4>1. writerMessageTypes' = Put(writerMessageTypes, id, type)
        BY <1>2, <3>2
      <4> QED BY <1>1, <1>3, <1>4, <4>1 DEF WritersInv, Put
    <3> QED BY <3>1, <3>2
  <2>4. mode # "UseLatest" => References[schemas[id].schema] = {}
    BY <1>3, CacheAssumption DEF Known
  <2> QED BY <1>1, <1>4, <1>5, <2>1, <2>2, <2>3, <2>4 DEF WritersInv
<1>11. RegistryInv' /\ InternedInv' /\ FetchesInv' /\ ReadersInv'
  BY <1>1, <1>2, <1>7, RegistryKept, InternedKept, FetchesKept, ReadersKept
<1>12. CountsInv'
  BY <1>1, <1>2 DEF CountsInv
<1> QED BY <1>8, <1>9, <1>10, <1>11, <1>12 DEF CacheInv

-----------------------------------------------------------------------------
(***************************************************************************)
(* The background fetch.                                                   *)
(***************************************************************************)
\* Taking the only element of a sequence leaves none.
LEMMA RemoveOnly ==
  ASSUME NEW S, NEW q \in Seq(S), Len(q) <= 1, NEW n \in DOMAIN q
  PROVE  RemoveAt(q, n) \in Seq(S) /\ Len(RemoveAt(q, n)) = 0 /\ Len(q) = 1
<1>1. PICK k \in Nat : k = Len(q)
  OBVIOUS
<1>2. DOMAIN q = 1 .. k
  BY <1>1
<1>3. k = 1 /\ n = 1
  BY <1>1, <1>2
<1>4. Len(q) = 1 /\ n = 1
  BY <1>1, <1>3
<1> QED BY <1>4 DEF RemoveAt

\* A fetching goroutine moves.
LEMMA FetchMoves ==
  ASSUME CacheInv, NEW id \in IDs, NEW n \in DOMAIN fetches[id],
         NEW v \in FetchState, v.pc = "answered" => id \in DOMAIN schemas,
         fetches' = [fetches EXCEPT ![id][n] = v],
         UNCHANGED <<mode, registry, cache, resolving, readers, validators, prewarms>>,
         Fault \/ UNCHANGED faults
  PROVE  CacheInv'
<1>1. /\ RegistryInv /\ InternedInv /\ ResolvingInv /\ SubjectsInv /\ WritersInv
      /\ FetchesInv /\ ReadersInv
  BY DEF CacheInv
<1>2. /\ UNCHANGED <<mode, registry, interned, subjectIDs, writerSchemas>>
      /\ UNCHANGED <<writerMessageTypes, writerReferences, fetching, resolving, readers>>
      /\ UNCHANGED <<validators, prewarms>>
  BY DEF cache
<1>3. Grows
  BY <1>2, NothingGrows
<1>4. /\ fetches' \in [IDs -> Seq(FetchState)]
      /\ \A i \in IDs : i # id => fetches'[i] = fetches[i]
      /\ fetches'[id] \in Seq(FetchState)
      /\ Len(fetches'[id]) = Len(fetches[id]) /\ DOMAIN fetches'[id] = DOMAIN fetches[id]
      /\ \A k \in DOMAIN fetches[id] : fetches'[id][k] = IF k = n THEN v ELSE fetches[id][k]
  <2>1. fetches \in [IDs -> Seq(FetchState)]
    BY <1>1 DEF FetchesInv
  <2>2. fetches' = [fetches EXCEPT ![id] = [fetches[id] EXCEPT ![n] = v]]
    BY <2>1
  <2>3. [fetches[id] EXCEPT ![n] = v] \in Seq(FetchState)
    BY <2>1
  <2> QED BY <2>1, <2>2, <2>3
<1>5. FetchesInv'
  <2>1. ASSUME NEW i \in IDs
        PROVE  /\ Len(fetches'[i]) = IF i \in fetching THEN 1 ELSE 0
               /\ \A k \in DOMAIN fetches'[i] :
                    fetches'[i][k].pc = "answered" => i \in DOMAIN schemas
    BY <1>1, <1>4 DEF FetchesInv
  <2>2. UNCHANGED <<fetching, schemas>>
    BY <1>2 DEF registry
  <2> QED BY <1>4, <2>1, <2>2 DEF FetchesInv
<1>6. RegistryInv' /\ InternedInv' /\ ResolvingInv' /\ SubjectsInv' /\ WritersInv' /\ ReadersInv'
  BY <1>1, <1>2, <1>3, RegistryKept, InternedKept, ResolvingKept, SubjectsKept, WritersKept,
     ReadersKept
<1>7. CountsInv'
  BY <1>2, FaultCounts
<1> QED BY <1>5, <1>6, <1>7 DEF CacheInv

\* A fetch whose answer is lost fails or is sent again.
LEMMA RetryTyped ==
  ASSUME NEW f \in FetchState, f.pc = "send"
  PROVE  /\ [f EXCEPT !.pc = "failed"] \in FetchState
         /\ [f EXCEPT !.pc = "failed"].pc # "answered"
         /\ [f EXCEPT !.attempt = @ + 1] \in FetchState
         /\ [f EXCEPT !.attempt = @ + 1].pc # "answered"
BY DEF FetchState

\* The registry answers a fetch, or the answer is lost or refused.
LEMMA FetchStep ==
  ASSUME CacheInv, NEW id \in IDs, NEW n,
         FetchAnswered(id, n) \/ FetchLost(id, n) \/ FetchRefused(id, n)
  PROVE  CacheInv'
<1>1. /\ RegistryInv /\ FetchesInv
  BY DEF CacheInv
<1>2. /\ n \in DOMAIN fetches[id] /\ fetches[id][n].pc = "send"
      /\ UNCHANGED <<mode, registry, cache, resolving, readers, validators, prewarms>>
      /\ Fault \/ UNCHANGED faults
  BY DEF FetchAnswered, FetchLost, FetchRefused
<1>3. fetches[id] \in Seq(FetchState) /\ fetches[id][n] \in FetchState
  BY <1>1, <1>2 DEF FetchesInv
<1>4. CASE FetchAnswered(id, n)
  <2> DEFINE v == IF id \in DOMAIN schemas THEN ResolvedSchemaByID(id, fetches[id][n])
                  ELSE [fetches[id][n] EXCEPT !.pc = "failed"]
  <2>1. fetches' = [fetches EXCEPT ![id][n] = v]
    BY <1>1, <1>2, <1>4 DEF FetchAnswered, FetchesInv
  <2>2. v \in FetchState
    <3>1. CASE id \in DOMAIN schemas
      <4>1. Cardinality(References[schemas[id].schema]) \in Int
        <5>1. schemas[id] \in Keys
          BY <1>1, <3>1 DEF RegistryInv
        <5>2. IsFiniteSet(References[schemas[id].schema])
          BY <5>1, KeyFacts
        <5> QED BY <5>2, FS_CardinalityType
      <4> QED BY <1>3, <3>1, <4>1 DEF ResolvedSchemaByID, FetchState
    <3>2. CASE id \notin DOMAIN schemas
      BY <1>3, <3>2 DEF FetchState
    <3> QED BY <3>1, <3>2
  <2>3. v.pc = "answered" => id \in DOMAIN schemas
    BY <1>3 DEF FetchState
  <2> HIDE DEF v
  <2> QED BY <1>2, <2>1, <2>2, <2>3, FetchMoves
<1>5. CASE FetchLost(id, n)
  <2> DEFINE v == Retried(fetches[id][n], FALSE)
  <2>1. fetches' = [fetches EXCEPT ![id][n] = v]
    BY <1>1, <1>2, <1>5 DEF FetchLost, FetchesInv
  <2>2. \/ v = [fetches[id][n] EXCEPT !.pc = "failed"]
        \/ v = [fetches[id][n] EXCEPT !.attempt = @ + 1]
    BY Zenon DEF Retried
  <2> HIDE DEF v
  <2>3. v \in FetchState /\ v.pc # "answered"
    BY <1>2, <1>3, <2>2, RetryTyped
  <2> QED BY <1>2, <2>1, <2>3, FetchMoves
<1>6. CASE FetchRefused(id, n)
  <2> DEFINE v == [fetches[id][n] EXCEPT !.pc = "failed"]
  <2>1. fetches' = [fetches EXCEPT ![id][n] = v]
    BY <1>1, <1>2, <1>6 DEF FetchRefused, FetchesInv
  <2>2. v \in FetchState /\ v.pc # "answered"
    BY <1>2, <1>3, RetryTyped
  <2> HIDE DEF v
  <2> QED BY <1>2, <2>1, <2>2, FetchMoves
<1> QED BY <1>4, <1>5, <1>6

\* A cached writer schema that comes from the registry: with its references,
\* or without them when it has none.
LEMMA WriterPut ==
  ASSUME RegistryInv, WritersInv, NEW id \in DOMAIN schemas,
         UNCHANGED <<mode, registry, interned>>,
         writerSchemas' = Put(writerSchemas, id, schemas[id].schema),
         \/ UNCHANGED writerMessageTypes
         \/ writerMessageTypes' = Put(writerMessageTypes, id, schemas[id].messageType),
         \/ UNCHANGED writerReferences /\ References[schemas[id].schema] = {}
         \/ writerReferences' = Put(writerReferences, id, References[schemas[id].schema])
  PROVE  WritersInv' /\ DOMAIN writerSchemas' = DOMAIN writerSchemas \union {id}
<1>1. UNCHANGED <<mode, schemas, interned>>
  BY DEF registry
<1>2. /\ DOMAIN writerSchemas' = DOMAIN writerSchemas \union {id}
      /\ writerSchemas'[id] = schemas[id].schema
      /\ \A i \in DOMAIN writerSchemas : i # id => writerSchemas'[i] = writerSchemas[i]
  BY DEF Put
<1>3. WriterSchemasAreTheRegistrys'
  <2>1. ASSUME NEW i \in DOMAIN writerSchemas'
        PROVE  \/ writerSchemas'[i] = schemas[i].schema
               \/ /\ mode = "UseLatest"
                  /\ \E t \in DOMAIN interned : writerSchemas'[i] = interned[t].schema
    <3>1. CASE i = id
      BY <1>2, <3>1
    <3>2. CASE i # id
      BY <1>2, <2>1, <3>2 DEF WritersInv, WriterSchemasAreTheRegistrys
    <3> QED BY <3>1, <3>2
  <2> QED BY <1>1, <2>1 DEF WriterSchemasAreTheRegistrys
<1>4. /\ DOMAIN writerMessageTypes' \subseteq DOMAIN schemas
      /\ \A i \in DOMAIN writerMessageTypes' : writerMessageTypes'[i] = schemas[i].messageType
  BY DEF WritersInv, Put
<1>5. /\ DOMAIN writerReferences' \subseteq DOMAIN writerSchemas'
      /\ \A i \in DOMAIN writerReferences' :
           writerReferences'[i] = References[schemas[i].schema]
      /\ mode # "UseLatest" => \A i \in DOMAIN writerSchemas' \ DOMAIN writerReferences' :
           References[schemas[i].schema] = {}
  <2>1. CASE UNCHANGED writerReferences /\ References[schemas[id].schema] = {}
    BY <1>2, <2>1 DEF WritersInv
  <2>2. CASE writerReferences' = Put(writerReferences, id, References[schemas[id].schema])
    <3>1. /\ DOMAIN writerReferences' = DOMAIN writerReferences \union {id}
          /\ writerReferences'[id] = References[schemas[id].schema]
          /\ \A i \in DOMAIN writerReferences :
               i # id => writerReferences'[i] = writerReferences[i]
      BY <2>2 DEF Put
    <3> QED BY <1>2, <3>1 DEF WritersInv
  <2> QED BY <2>1, <2>2
<1>6. DOMAIN writerSchemas' \subseteq DOMAIN schemas
  BY <1>2 DEF WritersInv
<1> QED BY <1>1, <1>2, <1>3, <1>4, <1>5, <1>6 DEF WritersInv

\* A fetch ends.
LEMMA FetchStoredStep ==
  ASSUME CacheInv, NEW id \in IDs, NEW n, FetchStored(id, n)
  PROVE  CacheInv'
<1>1. /\ RegistryInv /\ InternedInv /\ ResolvingInv /\ SubjectsInv /\ WritersInv
      /\ FetchesInv /\ ReadersInv /\ CountsInv
  BY DEF CacheInv
<1>2. /\ n \in DOMAIN fetches[id]
      /\ fetching' = fetching \ {id}
      /\ fetches' = [fetches EXCEPT ![id] = RemoveAt(fetches[id], n)]
      /\ UNCHANGED <<mode, registry, interned, subjectIDs, resolving>>
      /\ UNCHANGED <<readers, validators, faults, prewarms>>
  BY <1>1 DEF FetchStored, MarkerRemoved, FetchesInv
<1>3. UNCHANGED <<versions, schemas>>
  BY <1>2 DEF registry
<1>4. WritersInv' /\ DOMAIN writerSchemas \subseteq DOMAIN writerSchemas'
  <2>1. CASE fetches[id][n].pc # "answered"
    <3>1. UNCHANGED <<writerSchemas, writerMessageTypes, writerReferences>>
      BY <2>1 DEF FetchStored
    <3> QED BY <1>1, <1>2, <1>3, <3>1 DEF WritersInv, WriterSchemasAreTheRegistrys
  <2>2. CASE fetches[id][n].pc = "answered"
    <3>1. id \in DOMAIN schemas
      BY <1>1, <1>2, <2>2 DEF FetchesInv
    <3>2. /\ writerSchemas' = Put(writerSchemas, id, schemas[id].schema)
          /\ \/ UNCHANGED writerMessageTypes
             \/ writerMessageTypes' = Put(writerMessageTypes, id, schemas[id].messageType)
          /\ writerReferences' = Put(writerReferences, id, References[schemas[id].schema])
      BY <2>2 DEF FetchStored
    <3>3. WritersInv' /\ DOMAIN writerSchemas' = DOMAIN writerSchemas \union {id}
      BY <1>1, <1>2, <3>1, <3>2, WriterPut
    <3> QED BY <3>3
  <2> QED BY <2>1, <2>2
<1>5. Grows
  BY <1>2, <1>3, <1>4 DEF Grows
<1>6. FetchesInv'
  <2>1. fetches \in [IDs -> Seq(FetchState)] /\ Len(fetches[id]) <= 1
        /\ fetches[id] \in Seq(FetchState)
    BY <1>1 DEF FetchesInv
  <2>2. /\ RemoveAt(fetches[id], n) \in Seq(FetchState)
        /\ Len(RemoveAt(fetches[id], n)) = 0
    BY <1>2, <2>1, RemoveOnly
  <2>3. /\ fetches' \in [IDs -> Seq(FetchState)] /\ fetches'[id] \in Seq(FetchState)
        /\ Len(fetches'[id]) = 0
        /\ \A i \in IDs : i # id => fetches'[i] = fetches[i]
    BY <1>2, <2>1, <2>2
  <2>4. DOMAIN fetches'[id] = {}
    BY <2>3
  <2> QED BY <1>1, <1>2, <1>3, <2>3, <2>4 DEF FetchesInv
<1>7. RegistryInv' /\ InternedInv' /\ ResolvingInv' /\ SubjectsInv' /\ ReadersInv'
  BY <1>1, <1>2, <1>5, RegistryKept, InternedKept, ResolvingKept, SubjectsKept, ReadersKept
<1>8. CountsInv'
  BY <1>1, <1>2 DEF CountsInv
<1> QED BY <1>4, <1>6, <1>7, <1>8 DEF CacheInv

-----------------------------------------------------------------------------
(***************************************************************************)
(* Readers and seeds.                                                      *)
(***************************************************************************)
\* A step that writes only the readers, the validators and the fetches.
LEMMA ReadersOnly ==
  ASSUME CacheInv, FetchesInv', ReadersInv',
         UNCHANGED <<mode, registry, interned, subjectIDs, writerSchemas>>,
         UNCHANGED <<writerMessageTypes, writerReferences, resolving, faults, prewarms>>
  PROVE  CacheInv'
<1>1. /\ RegistryInv /\ InternedInv /\ ResolvingInv /\ SubjectsInv /\ WritersInv
      /\ CountsInv
  BY DEF CacheInv
<1>2. Grows
  BY NothingGrows
<1>3. RegistryInv' /\ InternedInv' /\ ResolvingInv' /\ SubjectsInv' /\ WritersInv'
  BY <1>1, <1>2, RegistryKept, InternedKept, ResolvingKept, SubjectsKept, WritersKept
<1>4. CountsInv'
  BY <1>1 DEF CountsInv
<1> QED BY <1>3, <1>4 DEF CacheInv

\* A cached text is one of those listed.
LEMMA CachedText ==
  ASSUME RegistryInv, InternedInv, WritersInv, NEW id \in DOMAIN writerSchemas
  PROVE  writerSchemas[id] \in Texts
<1>1. CASE writerSchemas[id] = schemas[id].schema
  <2>1. schemas[id] \in Keys
    BY DEF RegistryInv, WritersInv
  <2> QED BY <1>1, <2>1, KeyFacts
<1>2. ASSUME NEW s \in DOMAIN interned, writerSchemas[id] = interned[s].schema
      PROVE  writerSchemas[id] \in Texts
  <2>1. interned[s] \in Keys
    BY CacheAssumption DEF InternedInv, Keys, Range
  <2> QED BY <1>2, <2>1, KeyFacts
<1> QED BY <1>1, <1>2 DEF WritersInv, WriterSchemasAreTheRegistrys

\* One reader moves.
LEMMA ReaderMoves ==
  ASSUME CacheInv, NEW r \in Readers, NEW v, readers' = [readers EXCEPT ![r] = v],
         v \in [pc : {"idle", "read", "second"}, id : IDs \union {0},
                schema : Texts \union {None}],
         v.pc # "idle" => v.id \in IDs,
         v.pc = "second" => /\ v.id \in DOMAIN writerSchemas
                            /\ mode # "UseLatest" => v.schema = schemas[v.id].schema,
         UNCHANGED <<mode, registry, writerSchemas>>,
         \A id \in DOMAIN validators' :
           /\ id \in DOMAIN schemas
           /\ mode # "UseLatest" => validators'[id] = schemas[id].schema
  PROVE  ReadersInv'
<1>1. /\ UNCHANGED <<mode, schemas, writerSchemas>> /\ ReadersInv
  BY DEF registry, CacheInv
<1>2. /\ readers'[r] = v /\ \A q \in Readers : q # r => readers'[q] = readers[q]
      /\ readers' \in [Readers -> [pc : {"idle", "read", "second"}, id : IDs \union {0},
                                   schema : Texts \union {None}]]
  BY <1>1 DEF ReadersInv
<1>3. ASSUME NEW q \in Readers
      PROVE  /\ readers'[q].pc # "idle" => readers'[q].id \in IDs
             /\ readers'[q].pc = "second" =>
                  /\ readers'[q].id \in DOMAIN writerSchemas
                  /\ mode # "UseLatest" => readers'[q].schema = schemas[readers'[q].id].schema
  <2>1. CASE q = r
    BY <1>2, <2>1
  <2>2. CASE q # r
    BY <1>1, <1>2, <2>2 DEF ReadersInv
  <2> QED BY <2>1, <2>2
<1> QED BY <1>1, <1>2, <1>3 DEF ReadersInv

\* A reader asks for the writer schema, and starts a fetch when it is missing
\* and no fetch is marked.
LEMMA ReadSchemaStep ==
  ASSUME CacheInv, NEW r \in Readers, ReadSchema(r)
  PROVE  CacheInv'
<1> DEFINE id == readers[r].id
<1>1. /\ RegistryInv /\ InternedInv /\ WritersInv /\ FetchesInv /\ ReadersInv
  BY DEF CacheInv
<1>2. /\ UNCHANGED <<mode, registry, interned, subjectIDs, writerSchemas>>
      /\ UNCHANGED <<writerMessageTypes, writerReferences, resolving, faults, prewarms>>
      /\ UNCHANGED validators /\ readers[r].pc = "read"
  BY DEF ReadSchema
<1>3. /\ id \in IDs
      /\ readers[r] \in [pc : {"idle", "read", "second"}, id : IDs \union {0},
                         schema : Texts \union {None}]
  BY <1>1, <1>2 DEF ReadersInv
<1>4. UNCHANGED schemas /\ Grows
  BY <1>2, NothingGrows DEF registry
<1>5. CASE id \in DOMAIN writerSchemas
  <2>1. /\ readers' = [readers EXCEPT ![r].pc = "second", ![r].schema = writerSchemas[id]]
        /\ UNCHANGED <<fetching, fetches>>
    BY <1>5 DEF ReadSchema
  <2>2. PICK v : v = [readers[r] EXCEPT !.pc = "second", !.schema = writerSchemas[id]]
    OBVIOUS
  <2>3. readers' = [readers EXCEPT ![r] = v]
    BY <1>1, <2>1, <2>2 DEF ReadersInv
  <2>4. writerSchemas[id] \in Texts
    BY <1>1, <1>5, CachedText
  <2>5. /\ v \in [pc : {"idle", "read", "second"}, id : IDs \union {0},
                  schema : Texts \union {None}]
        /\ v.pc = "second" /\ v.id = id /\ v.schema = writerSchemas[id]
    BY <1>3, <2>2, <2>4
  <2>6. mode # "UseLatest" => writerSchemas[id] = schemas[id].schema
    BY <1>1, <1>5 DEF WritersInv, WriterSchemasAreTheRegistrys
  <2>7. ReadersInv'
    <3>1. \A i \in DOMAIN validators' :
            /\ i \in DOMAIN schemas
            /\ mode # "UseLatest" => validators'[i] = schemas[i].schema
      BY <1>1, <1>2 DEF ReadersInv
    <3> HIDE DEF id
    <3> QED BY <1>2, <1>3, <1>5, <2>3, <2>5, <2>6, <3>1, ReaderMoves
  <2>8. FetchesInv'
    BY <1>1, <1>4, <2>1, FetchesKept
  <2> QED BY <1>2, <2>7, <2>8, ReadersOnly
<1>6. CASE id \notin DOMAIN writerSchemas
  <2>1. /\ id \notin fetching /\ fetching' = fetching \union {id}
        /\ fetches' = [fetches EXCEPT ![id] = Append(fetches[id], Fetcher)]
        /\ UNCHANGED readers
    BY <1>1, <1>3, <1>6 DEF ReadSchema, Starts, FetchesInv
  <2>2. ReadersInv'
    BY <1>1, <1>2, <1>4, <2>1, ReadersKept
  <2>3. FetchesInv'
    <3> HIDE DEF id
    <3>1. /\ fetches \in [IDs -> Seq(FetchState)] /\ Fetcher \in FetchState
          /\ Fetcher.pc # "answered" /\ Len(fetches[id]) = 0
      BY <1>1, <1>3, <2>1 DEF FetchesInv, FetchState, Fetcher
    <3>2. /\ Append(fetches[id], Fetcher) \in Seq(FetchState)
          /\ Len(Append(fetches[id], Fetcher)) = 1
          /\ \A n \in DOMAIN Append(fetches[id], Fetcher) :
               Append(fetches[id], Fetcher)[n] = Fetcher
      BY <1>3, <3>1
    <3>3. /\ fetches' \in [IDs -> Seq(FetchState)]
          /\ fetches'[id] = Append(fetches[id], Fetcher)
          /\ \A i \in IDs : i # id => fetches'[i] = fetches[i]
      BY <1>3, <2>1, <3>1, <3>2
    <3> QED BY <1>1, <1>4, <2>1, <3>1, <3>2, <3>3 DEF FetchesInv
  <2> QED BY <1>2, <2>2, <2>3, ReadersOnly
<1> QED BY <1>5, <1>6

\* A record arrives, and a record is decoded.
LEMMA RecordStep ==
  ASSUME CacheInv, NEW r \in Readers,
         (\E id \in IDs : Arrives(r, id)) \/ (\E kind \in Kinds : ReadSecond(r, kind))
  PROVE  CacheInv'
<1>1. RegistryInv /\ WritersInv /\ FetchesInv /\ ReadersInv
  BY DEF CacheInv
<1>2. UNCHANGED <<mode, registry, cache, fetches, resolving, faults, prewarms>>
  BY DEF Arrives, ReadSecond
<1>3. /\ UNCHANGED <<mode, registry, interned, subjectIDs, writerSchemas>>
      /\ UNCHANGED <<writerMessageTypes, writerReferences, resolving, faults, prewarms>>
      /\ UNCHANGED <<fetching, fetches>>
  BY <1>2 DEF cache
<1>4. FetchesInv'
  BY <1>1, <1>3, NothingGrows, FetchesKept
<1>5. ASSUME NEW id \in IDs, Arrives(r, id) PROVE ReadersInv'
  <2>1. /\ readers[r] = Idle /\ UNCHANGED validators
        /\ readers' = [readers EXCEPT ![r].pc = "read", ![r].id = id]
    BY <1>5 DEF Arrives
  <2>2. PICK v : v = [readers[r] EXCEPT !.pc = "read", !.id = id]
    OBVIOUS
  <2>3. readers' = [readers EXCEPT ![r] = v]
    BY <1>1, <2>1, <2>2 DEF ReadersInv
  <2>4. /\ v \in [pc : {"idle", "read", "second"}, id : IDs \union {0},
                  schema : Texts \union {None}]
        /\ v.pc = "read" /\ v.id = id
    BY <1>1, <2>2 DEF ReadersInv
  <2>5. \A i \in DOMAIN validators' :
          /\ i \in DOMAIN schemas
          /\ mode # "UseLatest" => validators'[i] = schemas[i].schema
    BY <1>1, <2>1 DEF ReadersInv
  <2> QED BY <1>3, <2>3, <2>4, <2>5, ReaderMoves
<1>6. ASSUME NEW kind \in Kinds, ReadSecond(r, kind) PROVE ReadersInv'
  <2> DEFINE id == readers[r].id
             schema == readers[r].schema
  <2>1. /\ readers[r].pc = "second" /\ readers' = [readers EXCEPT ![r] = Idle]
        /\ validators' = IF kind = "json"
                         THEN Put(validators, id, Second(kind, id, schema))
                         ELSE validators
    BY <1>6 DEF ReadSecond
  <2>2. PICK v : v = Idle
    OBVIOUS
  <2>3. /\ v \in [pc : {"idle", "read", "second"}, id : IDs \union {0},
                  schema : Texts \union {None}]
        /\ v.pc = "idle" /\ readers' = [readers EXCEPT ![r] = v]
    BY <2>1, <2>2 DEF Idle
  <2>4. /\ id \in DOMAIN schemas
        /\ mode # "UseLatest" => schema = schemas[id].schema
    BY <1>1, <2>1 DEF ReadersInv, WritersInv
  <2>5. \A i \in DOMAIN validators' :
          /\ i \in DOMAIN schemas
          /\ mode # "UseLatest" => validators'[i] = schemas[i].schema
    <3>1. CASE kind # "json"
      BY <1>1, <2>1, <3>1 DEF ReadersInv
    <3>2. CASE kind = "json"
      <4>1. Second(kind, id, schema) = validatorFor(id, schema)
        BY <3>2 DEF Second
      <4> HIDE DEF id, schema
      <4>2. mode # "UseLatest" => validatorFor(id, schema) = schemas[id].schema
        BY <1>1, <2>4 DEF validatorFor, ReadersInv
      <4>3. /\ DOMAIN validators' = DOMAIN validators \union {id}
            /\ validators'[id] = validatorFor(id, schema)
            /\ \A i \in DOMAIN validators : i # id => validators'[i] = validators[i]
        BY <2>1, <3>2, <4>1 DEF Put
      <4> QED BY <1>1, <2>4, <4>2, <4>3 DEF ReadersInv
    <3> QED BY <3>1, <3>2
  <2> QED BY <1>3, <2>3, <2>5, ReaderMoves
<1> QED BY <1>3, <1>4, <1>5, <1>6, ReadersOnly

\* The application seeds the cache at startup.
LEMMA SeedStep ==
  ASSUME CacheInv, NEW id \in Seeds,
         \/ SeedWriterSchema(id) \/ SeedWriterMessageType(id)
         \/ \E s \in Subjects : SeedSubjectID(s, id)
  PROVE  CacheInv'
<1>1. /\ RegistryInv /\ InternedInv /\ ResolvingInv /\ SubjectsInv /\ WritersInv
      /\ FetchesInv /\ ReadersInv /\ CountsInv
  BY DEF CacheInv
<1>2. /\ UNCHANGED <<mode, registry, interned, writerReferences, resolving>>
      /\ UNCHANGED <<fetching, fetches, readers, validators, faults, prewarms>>
  BY DEF SeedWriterSchema, SeedWriterMessageType, SeedSubjectID
<1>3. UNCHANGED <<schemas, versions>>
  BY <1>2 DEF registry
<1>4. /\ SubjectsInv' /\ WritersInv' /\ Grows
  <2>1. CASE SeedWriterSchema(id)
    <3>1. /\ id \in DOMAIN schemas /\ References[schemas[id].schema] = {}
          /\ writerSchemas' = Put(writerSchemas, id, schemas[id].schema)
          /\ UNCHANGED <<subjectIDs, writerMessageTypes>>
      BY <2>1 DEF SeedWriterSchema
    <3>2. WritersInv' /\ DOMAIN writerSchemas' = DOMAIN writerSchemas \union {id}
      BY <1>1, <1>2, <3>1, WriterPut
    <3>3. Grows
      BY <1>2, <1>3, <3>1, <3>2 DEF Grows
    <3> QED BY <1>1, <3>1, <3>2, <3>3, SubjectsKept
  <2>2. CASE SeedWriterMessageType(id)
    <3>1. /\ id \in DOMAIN schemas /\ UNCHANGED <<subjectIDs, writerSchemas>>
          /\ writerMessageTypes' = Put(writerMessageTypes, id, schemas[id].messageType)
      BY <2>2 DEF SeedWriterMessageType
    <3>2. Grows
      BY <1>2, <3>1, NothingGrows
    <3>3. /\ DOMAIN writerMessageTypes' \subseteq DOMAIN schemas
          /\ \A i \in DOMAIN writerMessageTypes' :
               writerMessageTypes'[i] = schemas[i].messageType
      BY <1>1, <3>1 DEF WritersInv, Put
    <3>4. WritersInv'
      BY <1>1, <1>2, <1>3, <3>1, <3>3 DEF WritersInv, WriterSchemasAreTheRegistrys
    <3> QED BY <1>1, <3>1, <3>2, <3>4, SubjectsKept
  <2>3. ASSUME NEW s \in Subjects, SeedSubjectID(s, id)
        PROVE  SubjectsInv' /\ WritersInv' /\ Grows
    <3>1. /\ id \in Range(versions[s]) /\ subjectIDs' = Put(subjectIDs, s, id)
          /\ UNCHANGED <<writerSchemas, writerMessageTypes>> /\ mode \in SeedModes
      BY <2>3 DEF SeedSubjectID, Startup
    <3>2. /\ DOMAIN subjectIDs' = DOMAIN subjectIDs \union {s} /\ subjectIDs'[s] = id
          /\ \A t \in DOMAIN subjectIDs : t # s => subjectIDs'[t] = subjectIDs[t]
      BY <3>1 DEF Put
    <3>3. Grows
      BY <1>2, <1>3, <3>1, <3>2 DEF Grows
    <3>4. ASSUME NEW t \in DOMAIN subjectIDs'
          PROVE  /\ subjectIDs'[t] \in Range(versions'[t])
                 /\ \/ mode' \in SeedModes /\ subjectIDs'[t] \in Seeds
                    \/ /\ t \in DOMAIN interned' /\ Known(t, subjectIDs[t])'
                       /\ subjectIDs'[t] \in DOMAIN writerSchemas'
      <4>1. CASE t = s
        BY <1>2, <1>3, <3>1, <3>2, <4>1
      <4>2. CASE t # s
        BY <1>1, <1>2, <1>3, <3>1, <3>2, <3>4, <4>2 DEF SubjectsInv, Known
      <4> QED BY <4>1, <4>2
    <3>5. SubjectsInv'
      BY <1>1, <3>2, <3>4 DEF SubjectsInv, Known
    <3> QED BY <1>1, <1>2, <3>1, <3>3, <3>5, WritersKept
  <2> QED BY <2>1, <2>2, <2>3
<1>5. RegistryInv' /\ InternedInv' /\ ResolvingInv' /\ FetchesInv' /\ ReadersInv'
  BY <1>1, <1>2, <1>4, RegistryKept, InternedKept, ResolvingKept, FetchesKept, ReadersKept
<1>6. CountsInv'
  BY <1>1, <1>2 DEF CountsInv
<1> QED BY <1>4, <1>5, <1>6 DEF CacheInv

-----------------------------------------------------------------------------
(***************************************************************************)
(* The results.                                                            *)
(***************************************************************************)
LEMMA InitCache == Init => CacheInv
<1> SUFFICES ASSUME Init PROVE CacheInv
  OBVIOUS
<1>1. /\ DOMAIN schemas = {} /\ DOMAIN interned = {} /\ DOMAIN subjectIDs = {}
      /\ DOMAIN writerSchemas = {} /\ DOMAIN writerMessageTypes = {}
      /\ DOMAIN writerReferences = {} /\ DOMAIN resolving = {} /\ DOMAIN validators = {}
  BY DEF Init
<1>2. RegistryInv
  <2>1. schemas \in Seq(Keys) /\ <<>> \in Seq(Nat) /\ mode \in Modes
        /\ versions = [s \in Subjects |-> <<>>]
    BY DEF Init
  <2>2. \A s \in Subjects : Range(versions[s]) = {}
    BY <2>1 DEF Range
  <2> QED BY <1>1, <2>1, <2>2 DEF RegistryInv
<1>3. ResolvingInv
  <2>1. resolving \in [{} -> {}]
    BY DEF Init
  <2> QED BY <1>1, <2>1 DEF ResolvingInv
<1>4. InternedInv /\ SubjectsInv
  BY <1>1 DEF InternedInv, SubjectsInv
<1>5. WritersInv
  BY <1>1 DEF WritersInv, WriterSchemasAreTheRegistrys
<1>6. FetchesInv
  BY DEF Init, FetchesInv
<1>7. ReadersInv
  <2>1. Idle \in [pc : {"idle", "read", "second"}, id : IDs \union {0},
                  schema : Texts \union {None}] /\ Idle.pc = "idle"
    BY DEF Idle
  <2> QED BY <1>1, <2>1 DEF Init, ReadersInv
<1>8. CountsInv
  BY CacheAssumption DEF Init, CountsInv
<1> QED BY <1>2, <1>3, <1>4, <1>5, <1>6, <1>7, <1>8 DEF CacheInv

\* Every step keeps the invariant.
LEMMA CacheStep ==
  ASSUME CacheInv, [Next]_vars
  PROVE  CacheInv'
<1>1. CASE ForeignRegister
  BY <1>1, ForeignRegisterStep
<1>2. ASSUME NEW s \in Subjects, Intern(s) PROVE CacheInv'
  BY <1>2, InternStep
<1>3. CASE StartPrewarm \/ \E call \in 1 .. MaxPrewarms : FinishPrewarm(call)
  BY <1>3, PrewarmStep
<1>4. ASSUME NEW g \in DOMAIN resolving,
             \/ ResolveAnswered(g) \/ ResolveStored(g)
             \/ \E handled \in BOOLEAN :
                  \/ ResolveRefused(g, handled)
                  \/ \E cancelled \in BOOLEAN : ResolveLost(g, handled, cancelled)
      PROVE  CacheInv'
  BY <1>4, ResolveAnsweredStep, ResolveStoredStep, ResolveLostStep
<1>5. ASSUME NEW id \in IDs, NEW n \in 1 .. MaxFetches,
             \/ FetchAnswered(id, n) \/ FetchStored(id, n)
             \/ FetchLost(id, n) \/ FetchRefused(id, n)
      PROVE  CacheInv'
  BY <1>5, FetchStep, FetchStoredStep
<1>6. ASSUME NEW r \in Readers, \/ ReadSchema(r)
                                \/ \E kind \in Kinds : ReadSecond(r, kind)
                                \/ \E id \in IDs : Arrives(r, id)
      PROVE  CacheInv'
  BY <1>6, ReadSchemaStep, RecordStep
<1>7. ASSUME NEW id \in Seeds, \/ SeedWriterSchema(id) \/ SeedWriterMessageType(id)
                               \/ \E s \in Subjects : SeedSubjectID(s, id)
      PROVE  CacheInv'
  BY <1>7, SeedStep
<1>8. CASE UNCHANGED vars
  <2>1. /\ UNCHANGED <<mode, registry, cache, fetches, readers, validators>>
        /\ UNCHANGED <<resolving, faults, prewarms>>
    BY <1>8 DEF vars
  <2>2. UNCHANGED <<mode, registry, interned, subjectIDs, writerSchemas>>
    BY <2>1 DEF cache
  <2>3. ResolvingInv' /\ CountsInv'
    BY <2>1, <2>2, NothingGrows, ResolvingKept DEF CacheInv, CountsInv
  <2> QED BY <2>1, <2>3, ResolvingOnly
<1> QED BY <1>1, <1>2, <1>3, <1>4, <1>5, <1>6, <1>7, <1>8 DEF Next

\* CacheInv is an invariant of the specification.
THEOREM CacheInvariant == Spec => []CacheInv
<1>1. CacheInv /\ [Next]_vars => CacheInv'
  BY CacheStep
<1> QED BY <1>1, InitCache, PTL DEF Spec

\* The maps hold what their types say, and WriterSchema never has two
\* fetches of one ID in flight, for any number of readers and lost answers.
THEOREM CacheTypes == Spec => []TypeOK
<1>1. CacheInv => TypeOK
  <2> SUFFICES ASSUME CacheInv PROVE TypeOK
    OBVIOUS
  <2>1. /\ RegistryInv /\ InternedInv /\ SubjectsInv /\ WritersInv /\ FetchesInv /\ CountsInv
    BY DEF CacheInv
  <2>2. Range(subjectIDs) \subseteq DOMAIN schemas
    <3>1. \A s \in DOMAIN subjectIDs : subjectIDs[s] \in DOMAIN schemas
      BY <2>1 DEF SubjectsInv, RegistryInv
    <3> QED BY <3>1 DEF Range
  <2>3. \A id \in DOMAIN writerSchemas : writerSchemas[id] \in Texts
    BY <2>1, CachedText
  <2> QED BY <2>1, <2>2, <2>3
          DEF TypeOK, RegistryInv, InternedInv, SubjectsInv, WritersInv, FetchesInv, CountsInv
<1> QED BY <1>1, CacheInvariant, PTL

\* A subject resolves to an ID that the registry has for it, as the interned
\* schema, and that the cache can decode: for every interleaving of lost and
\* repeated registrations with those of other applications.
THEOREM Resolved == Spec => []ResolvedAsInterned
<1>1. CacheInv => ResolvedAsInterned
  BY DEF CacheInv, SubjectsInv, Known, ResolvedAsInterned
<1> QED BY <1>1, CacheInvariant, PTL

\* A record is decoded with the schema, the references and the message type
\* it was written with, for any number of readers between their critical
\* sections and whichever of prewarming, seeding and a late fetch wrote the
\* cache last.
THEOREM Decoded == Spec => []DecodedAsWritten
<1>1. CacheInv => DecodedAsWritten
  <2> SUFFICES ASSUME CacheInv, NEW r \in Readers, readers[r].pc = "second",
                      mode # "UseLatest"
               PROVE  LET writer == schemas[readers[r].id]
                          Reads(kind) == Second(kind, readers[r].id, readers[r].schema)
                      IN /\ readers[r].schema = writer.schema
                         /\ Reads("avro") = References[writer.schema]
                         /\ Reads("protobuf") \in {writer.messageType, None}
                         /\ Reads("json") = writer.schema
    BY DEF DecodedAsWritten, CacheInv, WritersInv
  <2> DEFINE id == readers[r].id
             schema == readers[r].schema
  <2>1. WritersInv /\ ReadersInv
    BY DEF CacheInv
  <2>2. id \in DOMAIN writerSchemas /\ schema = schemas[id].schema
    BY <2>1 DEF ReadersInv
  <2> HIDE DEF id, schema
  <2>3. Second("avro", id, schema) = References[schemas[id].schema]
    BY <2>1, <2>2 DEF Second, WriterReferences, WritersInv
  <2>4. Second("protobuf", id, schema) \in {schemas[id].messageType, None}
    BY <2>1, <2>2 DEF Second, MessageType, WritersInv
  <2>5. Second("json", id, schema) = schemas[id].schema
    BY <2>1, <2>2 DEF Second, validatorFor, ReadersInv
  <2> QED BY <2>2, <2>3, <2>4, <2>5 DEF id, schema
<1> QED BY <1>1, CacheInvariant, PTL

-----------------------------------------------------------------------------
(***************************************************************************)
(* The report of a prewarm: what its failures cost.                        *)
(***************************************************************************)
\* The requests of the prewarms under way that got no answer: as many of a
\* goroutine as it went on retrying after, and all of one that gave up.
LostRequests ==
  {p \in (DOMAIN resolving) \X (0 .. MaxRetries) :
     p[2] < resolving[p[1]].attempt \/ resolving[p[1]].pc = "failed"}

\* Each of them was a fault of its own.
LostInv ==
  /\ \A g \in DOMAIN resolving : resolving[g].attempt <= MaxRetries
  /\ IsFiniteSet(LostRequests) /\ Cardinality(LostRequests) <= faults

\* A step of which no goroutine loses a request: every goroutine is as it was
\* with respect to its attempts, or new.
LEMMA LostKept ==
  ASSUME CacheInv, LostInv, Fault \/ UNCHANGED faults,
         \A g \in DOMAIN resolving' :
           \/ /\ g \in DOMAIN resolving
              /\ resolving'[g].attempt = resolving[g].attempt
              /\ (resolving'[g].pc = "failed") <=> (resolving[g].pc = "failed")
           \/ resolving'[g].attempt = 0 /\ resolving'[g].pc # "failed"
  PROVE  LostInv'
<1>1. MaxRetries \in Nat /\ faults \in Nat /\ faults' \in Int /\ faults <= faults'
  BY CacheAssumption DEF CacheInv, CountsInv, Fault
<1>2. LostRequests' \in SUBSET LostRequests
  <2> SUFFICES ASSUME NEW p \in LostRequests' PROVE p \in LostRequests
    OBVIOUS
  <2>1. PICK g \in DOMAIN resolving', n \in 0 .. MaxRetries : p = <<g, n>>
    BY DEF LostRequests
  <2>2. n < resolving'[g].attempt \/ resolving'[g].pc = "failed"
    BY <2>1 DEF LostRequests
  <2>3. ~(resolving'[g].attempt = 0 /\ resolving'[g].pc # "failed")
    BY <1>1, <2>2
  <2>4. /\ g \in DOMAIN resolving
        /\ n < resolving[g].attempt \/ resolving[g].pc = "failed"
    BY <2>2, <2>3
  <2> QED BY <2>1, <2>4 DEF LostRequests
<1>3. IsFiniteSet(LostRequests) /\ Cardinality(LostRequests) <= faults
  BY DEF LostInv
<1>4. /\ IsFiniteSet(LostRequests')
      /\ Cardinality(LostRequests') <= Cardinality(LostRequests)
  BY <1>2, <1>3, FS_Subset
<1>5. Cardinality(LostRequests) \in Nat /\ Cardinality(LostRequests') \in Nat
  BY <1>3, <1>4, FS_CardinalityType
<1>6. Cardinality(LostRequests') <= faults'
  BY <1>1, <1>3, <1>4, <1>5
<1>7. \A g \in DOMAIN resolving' : resolving'[g].attempt <= MaxRetries
  BY <1>1 DEF LostInv
<1> QED BY <1>4, <1>6, <1>7 DEF LostInv

\* A lost request is a fault, and one more of those the goroutine lost.
LEMMA RequestLost ==
  ASSUME CacheInv, LostInv, NEW g \in DOMAIN resolving, NEW handled \in BOOLEAN,
         NEW cancelled \in BOOLEAN, ResolveLost(g, handled, cancelled)
  PROVE  LostInv'
<1> DEFINE k == resolving[g].attempt
<1>1. /\ Fault /\ resolving[g].pc = "send"
      /\ resolving' = [resolving EXCEPT ![g] = Retried(resolving[g], cancelled)]
  BY DEF ResolveLost, CacheInv, ResolvingInv
<1>2. resolving \in [DOMAIN resolving -> Goroutine] /\ resolving[g] \in Goroutine
  BY DEF CacheInv, ResolvingInv
<1>3. /\ DOMAIN resolving' = DOMAIN resolving /\ resolving'[g] = Retried(resolving[g], cancelled)
      /\ \A t \in DOMAIN resolving : t # g => resolving'[t] = resolving[t]
  BY <1>1, <1>2
<1>4. /\ \A t \in DOMAIN resolving : resolving[t].attempt <= MaxRetries
      /\ IsFiniteSet(LostRequests) /\ Cardinality(LostRequests) <= faults
  BY DEF LostInv
<1>5. /\ MaxRetries \in Nat /\ faults \in Nat /\ faults' = faults + 1
      /\ Cardinality(LostRequests) \in Nat
  BY <1>1, <1>4, FS_CardinalityType, CacheAssumption DEF CacheInv, CountsInv, Fault
<1>6. k \in Nat /\ k <= MaxRetries
  BY <1>2, <1>4 DEF Goroutine
<1>7. /\ Retried(resolving[g], cancelled).attempt <= MaxRetries
      /\ \/ Retried(resolving[g], cancelled).attempt = k /\ Retried(resolving[g], cancelled).pc = "cancelled"
         \/ /\ Retried(resolving[g], cancelled).attempt = k /\ Retried(resolving[g], cancelled).pc = "failed"
            /\ k = MaxRetries
         \/ Retried(resolving[g], cancelled).attempt = k + 1 /\ Retried(resolving[g], cancelled).pc = "send"
  BY <1>1, <1>2, <1>5, <1>6 DEF Retried, GivesUp, Goroutine
<1>8. \A t \in DOMAIN resolving' : resolving'[t].attempt <= MaxRetries
  BY <1>3, <1>4, <1>7
<1> HIDE DEF k
<1>9. LostRequests' \in SUBSET (LostRequests \union {<<g, k>>})
  <2> SUFFICES ASSUME NEW p \in LostRequests', p \notin LostRequests
               PROVE  p = <<g, k>>
    OBVIOUS
  <2>1. PICK t \in DOMAIN resolving, n \in 0 .. MaxRetries : p = <<t, n>>
    BY <1>3 DEF LostRequests
  <2>2. /\ n < resolving'[t].attempt \/ resolving'[t].pc = "failed"
        /\ ~(n < resolving[t].attempt) /\ resolving[t].pc # "failed"
    BY <2>1 DEF LostRequests
  <2>3. t = g
    BY <2>2, <1>3
  <2>4. n \in Int /\ n <= MaxRetries /\ k <= n
    <3>1. n \in Int /\ n <= MaxRetries /\ ~(n < k)
      BY <2>2, <2>3, <1>5 DEF k
    <3> QED BY <3>1, <1>6
  <2>5. n = k
    <3>1. \/ n < k \/ k = MaxRetries \/ n < k + 1
      BY <2>2, <2>3, <1>3, <1>7
    <3> QED BY <3>1, <2>4, <1>5, <1>6
  <2> QED BY <2>1, <2>3, <2>5
<1>10. /\ IsFiniteSet(LostRequests \union {<<g, k>>})
       /\ Cardinality(LostRequests \union {<<g, k>>}) <= faults'
  <2>1. /\ IsFiniteSet(LostRequests \union {<<g, k>>})
        /\ \/ Cardinality(LostRequests \union {<<g, k>>}) = Cardinality(LostRequests)
           \/ Cardinality(LostRequests \union {<<g, k>>}) = Cardinality(LostRequests) + 1
    BY <1>4, FS_AddElement
  <2> QED BY <2>1, <1>4, <1>5
<1>11. /\ IsFiniteSet(LostRequests')
       /\ Cardinality(LostRequests') <= Cardinality(LostRequests \union {<<g, k>>})
  BY <1>9, <1>10, FS_Subset
<1>12. /\ Cardinality(LostRequests') \in Nat
       /\ Cardinality(LostRequests \union {<<g, k>>}) \in Nat
  BY <1>10, <1>11, FS_CardinalityType
<1>13. Cardinality(LostRequests') <= faults'
  BY <1>5, <1>10, <1>11, <1>12
<1> QED BY <1>8, <1>11, <1>13 DEF LostInv

\* An answer, or a refusal, costs none of the attempts.
LEMMA RequestAnswered ==
  ASSUME CacheInv, LostInv, NEW g \in DOMAIN resolving,
         \/ ResolveAnswered(g) \/ ResolveStored(g)
         \/ \E handled \in BOOLEAN : ResolveRefused(g, handled)
  PROVE  LostInv'
<1>1. resolving \in [DOMAIN resolving -> Goroutine] /\ resolving[g] \in Goroutine
  BY DEF CacheInv, ResolvingInv
<1>2. Fault \/ UNCHANGED faults
  BY DEF ResolveAnswered, ResolveStored, ResolveRefused
<1>3. resolving[g].pc # "failed"
  BY DEF ResolveAnswered, ResolveStored, ResolveRefused
<1>4. ASSUME NEW v, resolving' = [resolving EXCEPT ![g] = v],
             v.attempt = resolving[g].attempt, v.pc # "failed"
      PROVE  LostInv'
  BY <1>1, <1>2, <1>3, <1>4, LostKept
<1>5. CASE ResolveStored(g)
  <2>1. PICK v : v = [resolving[g] EXCEPT !.pc = "done"]
    OBVIOUS
  <2>2. resolving' = [resolving EXCEPT ![g] = v]
    BY <1>1, <1>5, <2>1 DEF ResolveStored
  <2>3. v.attempt = resolving[g].attempt /\ v.pc # "failed"
    BY <1>1, <2>1 DEF Goroutine
  <2> QED BY <1>4, <2>2, <2>3
<1>6. ASSUME NEW handled, ResolveRefused(g, handled) PROVE LostInv'
  <2>1. PICK v : v = [resolving[g] EXCEPT !.pc = "refused"]
    OBVIOUS
  <2>2. resolving' = [resolving EXCEPT ![g] = v]
    BY <1>1, <1>6, <2>1 DEF ResolveRefused
  <2>3. v.attempt = resolving[g].attempt /\ v.pc # "failed"
    BY <1>1, <2>1 DEF Goroutine
  <2> QED BY <1>4, <2>2, <2>3
<1>7. CASE ResolveAnswered(g)
  <2> DEFINE Answered(id, type) ==
        IF id = 0 THEN [resolving[g] EXCEPT !.pc = "refused"]
        ELSE [resolving[g] EXCEPT !.pc = "answered", !.id = id, !.messageType = type]
  <2>1. PICK id, type : resolving' = [resolving EXCEPT ![g] = Answered(id, type)]
    <3>1. mode \in {"AutoRegister", "LookupOnly", "UseLatest"}
      BY CacheAssumption DEF CacheInv, RegistryInv
    <3> QED BY <1>1, <1>7, <3>1 DEF ResolveAnswered
  <2>2. PICK v : v = Answered(id, type)
    OBVIOUS
  <2>3. v.attempt = resolving[g].attempt /\ v.pc # "failed"
    BY <1>1, <2>2 DEF Goroutine
  <2> HIDE DEF Answered
  <2> QED BY <1>4, <2>1, <2>2, <2>3
<1> QED BY <1>5, <1>6, <1>7

\* Every step keeps the count.
LEMMA LostStep ==
  ASSUME CacheInv, LostInv, [Next]_vars
  PROVE  LostInv'
<1>1. CASE UNCHANGED resolving /\ (Fault \/ UNCHANGED faults)
  BY <1>1, LostKept
<1>2. CASE ForeignRegister
  BY <1>1, <1>2 DEF ForeignRegister
<1>3. ASSUME NEW s \in Subjects, Intern(s) PROVE LostInv'
  BY <1>1, <1>3 DEF Intern
<1>4. CASE StartPrewarm
  <2>1. /\ UNCHANGED faults
        /\ resolving' = [g \in DOMAIN resolving \union ({prewarms + 1} \X (DOMAIN interned)) |->
             IF g \in DOMAIN resolving THEN resolving[g]
             ELSE [pc |-> "send", attempt |-> 0, id |-> 0, messageType |-> None]]
    BY <1>4 DEF StartPrewarm
  <2> QED BY <2>1, LostKept
<1>5. ASSUME NEW call, FinishPrewarm(call) PROVE LostInv'
  <2>1. /\ UNCHANGED faults
        /\ resolving' = [g \in DOMAIN resolving \ Prewarming(call) |-> resolving[g]]
    BY <1>5 DEF FinishPrewarm
  <2> QED BY <2>1, LostKept
<1>6. ASSUME NEW g \in DOMAIN resolving,
             \/ ResolveAnswered(g) \/ ResolveStored(g)
             \/ \E handled \in BOOLEAN :
                  \/ ResolveRefused(g, handled)
                  \/ \E cancelled \in BOOLEAN : ResolveLost(g, handled, cancelled)
      PROVE  LostInv'
  BY <1>6, RequestAnswered, RequestLost
<1>7. ASSUME NEW id, NEW n, \/ FetchAnswered(id, n) \/ FetchStored(id, n)
                            \/ FetchLost(id, n) \/ FetchRefused(id, n)
      PROVE  LostInv'
  BY <1>1, <1>7 DEF FetchAnswered, FetchLost, FetchRefused, FetchStored
<1>8. ASSUME NEW r, \/ ReadSchema(r)
                    \/ \E kind \in Kinds : ReadSecond(r, kind)
                    \/ \E id \in IDs : Arrives(r, id)
      PROVE  LostInv'
  BY <1>1, <1>8 DEF ReadSchema, ReadSecond, Arrives
<1>9. ASSUME NEW id, \/ SeedWriterSchema(id) \/ SeedWriterMessageType(id)
                     \/ \E s \in Subjects : SeedSubjectID(s, id)
      PROVE  LostInv'
  BY <1>1, <1>9 DEF SeedWriterSchema, SeedWriterMessageType, SeedSubjectID
<1>10. CASE UNCHANGED vars
  BY <1>1, <1>10 DEF vars
<1> QED BY <1>2, <1>3, <1>4, <1>5, <1>6, <1>7, <1>8, <1>9, <1>10 DEF Next

\* The goroutines that gave up lost all their requests.
LEMMA FailuresCost ==
  ASSUME CacheInv, LostInv, NEW call
  PROVE  (MaxRetries + 1) * Cardinality(GaveUp(call)) <= faults
<1> DEFINE F == GaveUp(call)
           J == [g \in F |-> <<g, 0>>]
<1>1. MaxRetries \in Nat /\ faults \in Nat
  BY CacheAssumption DEF CacheInv, CountsInv
<1>2. IsFiniteSet(LostRequests) /\ Cardinality(LostRequests) <= faults
  BY DEF LostInv
<1>3. F \X (0 .. MaxRetries) \in SUBSET LostRequests
  BY DEF LostRequests, GaveUp, Prewarming
<1>4. IsFiniteSet(F)
  <2>1. 0 \in 0 .. MaxRetries
    BY <1>1
  <2>2. J \in [F -> LostRequests]
    BY <1>3, <2>1
  <2>3. J \in Injection(F, LostRequests)
    BY <2>2 DEF Injection, IsInjective
  <2> QED BY <2>3, <1>2, FS_Injection
<1>5. IsFiniteSet(0 .. MaxRetries) /\ Cardinality(0 .. MaxRetries) = MaxRetries + 1
  BY <1>1, FS_Interval
<1>6. Cardinality(F \X (0 .. MaxRetries)) = Cardinality(F) * (MaxRetries + 1)
  BY <1>4, <1>5, FS_Product
<1>7. Cardinality(F \X (0 .. MaxRetries)) <= Cardinality(LostRequests)
  BY <1>2, <1>3, FS_Subset
<1>8. Cardinality(F) \in Nat /\ Cardinality(LostRequests) \in Nat
  BY <1>2, <1>4, FS_CardinalityType
<1> HIDE DEF F
<1>9. (MaxRetries + 1) * Cardinality(F) <= faults
  <2>1. PICK c \in Nat, m \in Nat : c = Cardinality(F) /\ m = MaxRetries + 1
    BY <1>1, <1>8
  <2>2. c * m <= faults
    BY <2>1, <1>1, <1>2, <1>6, <1>7, <1>8
  <2>3. m * c = c * m
    BY <2>1
  <2> QED BY <2>1, <2>2, <2>3
<1> QED BY <1>9 DEF F

\* A prewarm tells the truth, however many calls of it run at once and for
\* any number of subjects: it reports as resolved only subjects that Serialize
\* finds, with an ID the registry has for them, and a subject that it reports
\* as failed, neither refused nor cancelled, lost every one of its attempts
\* (send in client.go), each a fault of its own.
THEOREM TrueReport == Spec => ReportIsTrue
<1>1. ASSUME CacheInv, NEW call
      PROVE  \A s \in DOMAIN Report(call) :
               Serializes(s) /\ Report(call)[s] \in Range(versions[s])
  <2> SUFFICES ASSUME NEW g \in Prewarming(call), resolving[g].pc = "done"
               PROVE  /\ Serializes(g[2])
                      /\ resolving[<<call, g[2]>>].id \in Range(versions[g[2]])
    BY DEF Report
  <2>1. g \in DOMAIN resolving /\ g = <<call, g[2]>>
    BY <1>1 DEF Prewarming, CacheInv, ResolvingInv
  <2> QED BY <1>1, <2>1 DEF CacheInv, ResolvingInv, Known
<1>2. Init => LostInv
  <2> SUFFICES ASSUME Init PROVE LostInv
    OBVIOUS
  <2>1. DOMAIN resolving = {} /\ faults = 0
    BY DEF Init
  <2>2. LostRequests = {}
    BY <2>1 DEF LostRequests
  <2> QED BY <2>1, <2>2, FS_EmptySet DEF LostInv
<1>3. CacheInv /\ LostInv /\ [Next]_vars => LostInv'
  BY LostStep
<1>4. Spec => []LostInv
  BY <1>2, <1>3, CacheInvariant, PTL DEF Spec
<1>5. CacheInv /\ LostInv =>
        [\A call \in 1 .. MaxPrewarms : FinishPrewarm(call) =>
           /\ \A s \in DOMAIN Report(call) :
                Serializes(s) /\ Report(call)[s] \in Range(versions[s])
           /\ (MaxRetries + 1) * Cardinality(GaveUp(call)) <= faults]_vars
  BY <1>1, FailuresCost
<1> QED BY <1>4, <1>5, CacheInvariant, PTL DEF ReportIsTrue
=============================================================================

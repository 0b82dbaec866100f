---------------------------- MODULE SchemaCache ----------------------------
(***************************************************************************)
(* The schema cache (schema/cache.go) between serdes, which read it in     *)
(* several critical sections and never wait (serde.go, avro.go,            *)
(* protobuf.go, jsonschema.go), and the registry, which it reaches through *)
(* a client that retries (client.go).  The registry is the one of          *)
(* krabkatest/registrystub.go.                                             *)
(*                                                                         *)
(* Prewarming runs one goroutine per subject, a missing writer schema one  *)
(* background fetch per schema ID.  A request is handled by the registry   *)
(* and its answer received in one step, or it fails: handled or not.       *)
(***************************************************************************)
EXTENDS Integers, FiniteSets, SequencesExt

CONSTANTS
  Subjects, Readers,
  Local,          \* Local[s]: the schema and message type a serde interns
  Foreign,        \* what other applications register: subject and schema
  References,     \* References[schema]: what its references resolve to
  Kinds,          \* the serdes of this application
  Modes,          \* the register modes explored
  Seeds,          \* the IDs that may be seeded,
  SeedModes,      \* and the modes explored with seeding
  MaxRetries, MaxIDs, MaxFaults, MaxPrewarms, MaxFetches,
  ReadCalls       \* a bound: the prewarming calls explored with reading

ASSUME CacheAssumption ==
  /\ {MaxRetries, MaxIDs, MaxFaults, MaxPrewarms, MaxFetches, ReadCalls} \subseteq Nat
  /\ SeedModes \subseteq Modes /\ Modes \subseteq {"AutoRegister", "LookupOnly", "UseLatest"}
  /\ Kinds \subseteq {"avro", "protobuf", "json"}
  /\ DOMAIN Local = Subjects /\ \A f \in Foreign : f[1] \in Subjects
  /\ \A s \in Subjects : References[Local[s].schema] = {}
  /\ \A f \in Foreign : IsFiniteSet(References[f[2].schema])

IDs  == 1 .. MaxIDs
None == "none"

VARIABLES
  mode,
  schemas,              \* the registry: its schemas by ID,
  versions,             \* and the versions of every subject
  interned, subjectIDs,
  writerSchemas, writerMessageTypes, writerReferences,
  fetching,             \* the IDs marked as being fetched
  fetches,              \* the fetching goroutines of every ID
  resolving,            \* the goroutines of every prewarming call, by subject
  readers,              \* the records being deserialized
  validators,           \* the JSON serde's compiled validators, by ID
  faults, prewarms

registry == <<schemas, versions>>
cache    == <<interned, subjectIDs, writerSchemas, writerMessageTypes,
              writerReferences, fetching>>
vars == <<mode, registry, cache, fetches, resolving, readers,
          validators, faults, prewarms>>

(* The function f with f[x] = y. *)
Put(f, x, y) == [z \in DOMAIN f \union {x} |-> IF z = x THEN y ELSE f[z]]

---------------------------------------------------------------------------
(* The registry. *)

IDOf(key) == IF \E id \in DOMAIN schemas : schemas[id] = key
             THEN CHOOSE id \in DOMAIN schemas : schemas[id] = key
             ELSE Len(schemas) + 1

Register(subject, key) ==
  LET id == IDOf(key)
  IN /\ id \in IDs
     /\ schemas' = IF id \in DOMAIN schemas THEN schemas ELSE Append(schemas, key)
     /\ versions' = IF id \in Range(versions[subject]) THEN versions
                    ELSE [versions EXCEPT ![subject] = Append(@, id)]

(* Defect: any version of the subject will do. *)
LookupAny(subject, key) == IF versions[subject] = <<>> THEN 0 ELSE Last(versions[subject])

(* The answer of a GET or of a lookup; 0 is HTTP 404. *)
Lookup(subject, key) ==
  IF IDOf(key) \in Range(versions[subject]) THEN IDOf(key) ELSE 0

Latest(subject) == IF versions[subject] = <<>> THEN 0 ELSE Last(versions[subject])

(* Another application registers a schema. *)
ForeignRegister ==
  /\ \E f \in Foreign : Register(f[1], f[2])
  /\ registry' # registry
  /\ UNCHANGED <<mode, cache, fetches, resolving, readers, validators,
                 faults, prewarms>>

---------------------------------------------------------------------------
(* The client's send: a transport error, 429 or 5xx is retried.            *)

Fault == faults < MaxFaults /\ faults' = faults + 1

(* Defect: one retry fewer. *)
GiveUpEarly(goroutine) == goroutine.attempt + 1 >= MaxRetries

GivesUp(goroutine) == goroutine.attempt >= MaxRetries

Retried(goroutine, cancelled) ==
  IF cancelled THEN [goroutine EXCEPT !.pc = "cancelled"]
  ELSE IF GivesUp(goroutine) THEN [goroutine EXCEPT !.pc = "failed"]
  ELSE [goroutine EXCEPT !.attempt = @ + 1]

---------------------------------------------------------------------------
(* Interning and prewarming. *)

(* Intern keeps the first schema of a subject. *)
Intern(s) ==
  /\ s \notin DOMAIN interned
  /\ interned' = Put(interned, s, Local[s])
  /\ UNCHANGED <<mode, registry, subjectIDs, writerSchemas, writerMessageTypes,
                 writerReferences, fetching, fetches, resolving,
                 readers, validators, faults, prewarms>>

(* No record was read, but for one that left no trace. *)
NothingRead ==
  /\ fetching = {} /\ validators = <<>> /\ writerReferences = <<>>
  /\ \A r \in Readers : readers[r].pc = "idle"

(* PrewarmReport starts a goroutine for every interned subject; another    *)
(* call of it may still be under way.                                      *)
StartPrewarm ==
  LET call == prewarms + 1
  IN /\ call <= MaxPrewarms /\ prewarms' = call
     /\ call <= ReadCalls \/ NothingRead
     /\ interned # <<>>
     /\ resolving' = [g \in DOMAIN resolving \union ({call} \X DOMAIN interned) |->
          IF g \in DOMAIN resolving THEN resolving[g]
          ELSE [pc |-> "send", attempt |-> 0, id |-> 0, messageType |-> None]]
     /\ UNCHANGED <<mode, registry, cache, fetches, readers, validators,
                    faults>>

(* The registry answers the request of resolve; an unknown subject or      *)
(* schema is HTTP 404, which is not retried.                               *)
ResolveAnswered(g) ==
  LET subject == g[2]
      local   == interned[subject]
      Answer(id) == resolving' = [resolving EXCEPT ![g] =
        IF id = 0 THEN [@ EXCEPT !.pc = "refused"]
        ELSE [@ EXCEPT !.pc = "answered", !.id = id,
              !.messageType = IF mode = "UseLatest" THEN schemas[id].messageType
                              ELSE local.messageType]]
  IN /\ resolving[g].pc = "send"
     /\ CASE mode = "AutoRegister" -> Register(subject, local) /\ Answer(IDOf(local))
          [] mode = "LookupOnly"   -> Answer(Lookup(subject, local)) /\ UNCHANGED registry
          [] mode = "UseLatest"    -> Answer(Latest(subject)) /\ UNCHANGED registry
     /\ UNCHANGED <<mode, cache, fetches, readers, validators, faults,
                    prewarms>>

(* What becomes of the request at the registry when no ID arrives. *)
Handled(g, handled) ==
  IF handled /\ mode = "AutoRegister" THEN Register(g[2], interned[g[2]])
  ELSE UNCHANGED registry

(* No answer arrives, or one that is retried; the registry may have        *)
(* handled the request.  A cancelled context ends the retries.             *)
ResolveLost(g, handled, cancelled) ==
  /\ resolving[g].pc = "send"
  /\ Fault
  /\ resolving' = [resolving EXCEPT ![g] = Retried(@, cancelled)]
  /\ Handled(g, handled)
  /\ UNCHANGED <<mode, cache, fetches, readers, validators, prewarms>>

(* The registry refuses the request, or its answer cannot be parsed or     *)
(* names no ID: an error that is not retried.                              *)
ResolveRefused(g, handled) ==
  /\ resolving[g].pc = "send"
  /\ Fault
  /\ resolving' = [resolving EXCEPT ![g].pc = "refused"]
  /\ Handled(g, handled)
  /\ UNCHANGED <<mode, cache, fetches, readers, validators, prewarms>>

(* Defect: the answer is stored under the subject only. *)
StoreIDOnly(g) ==
  LET answer == resolving[g]
  IN /\ answer.pc = "answered"
     /\ resolving' = [resolving EXCEPT ![g].pc = "done"]
     /\ subjectIDs' = Put(subjectIDs, g[2], answer.id)
     /\ UNCHANGED <<mode, registry, interned, writerSchemas, writerMessageTypes,
                    writerReferences, fetching, fetches, readers,
                    validators, faults, prewarms>>

(* resolve stores its answer, with the local schema. *)
ResolveStored(g) ==
  LET answer == resolving[g]
  IN /\ answer.pc = "answered"
     /\ resolving' = [resolving EXCEPT ![g].pc = "done"]
     /\ subjectIDs' = Put(subjectIDs, g[2], answer.id)
     /\ writerSchemas' = Put(writerSchemas, answer.id, interned[g[2]].schema)
     /\ writerMessageTypes' = IF answer.messageType = None THEN writerMessageTypes
                              ELSE Put(writerMessageTypes, answer.id, answer.messageType)
     /\ UNCHANGED <<mode, registry, interned, writerReferences, fetching, fetches,
                    readers, validators, faults, prewarms>>

(* The goroutines of one call, and those that ran out of attempts. *)
Prewarming(call) == {g \in DOMAIN resolving : g[1] = call}
GaveUp(call)     == {g \in Prewarming(call) : resolving[g].pc = "failed"}

(* The report: the IDs of the resolved subjects; the others failed. *)
Report(call) ==
  [s \in {g[2] : g \in {h \in Prewarming(call) : resolving[h].pc = "done"}} |->
     resolving[<<call, s>>].id]

(* Serialize finds the ID of its subject; it never asks the registry. *)
Serializes(s) == s \in DOMAIN subjectIDs

(* Defect: a failed goroutine sends no outcome. *)
SentOnSuccess(g) == resolving[g].pc = "done"

Sent(g) == resolving[g].pc \in {"done", "failed", "refused", "cancelled"}

(* Every goroutine of the call sent its outcome; the report is returned. *)
FinishPrewarm(call) ==
  /\ Prewarming(call) # {}
  /\ \A g \in Prewarming(call) : Sent(g)
  /\ resolving' = [g \in DOMAIN resolving \ Prewarming(call) |-> resolving[g]]
  /\ UNCHANGED <<mode, registry, cache, fetches, readers, validators, faults,
                 prewarms>>

---------------------------------------------------------------------------
(* The background fetch of a writer schema. *)

(* left: the references to request once the schema itself has arrived. *)
Fetcher == [pc |-> "send", attempt |-> 0, left |-> -1]

(* ResolvedSchemaByID after one of its requests: SchemaByID, then a        *)
(* Version for every reference, each with retries of its own.              *)
ResolvedSchemaByID(id, fetch) ==
  LET left == IF fetch.left = -1 THEN Cardinality(References[schemas[id].schema])
              ELSE fetch.left - 1
  IN [pc |-> IF left = 0 THEN "answered" ELSE "send", attempt |-> 0, left |-> left]

(* The registry answers; an unknown ID is HTTP 404. *)
FetchAnswered(id, n) ==
  /\ n \in DOMAIN fetches[id] /\ fetches[id][n].pc = "send"
  /\ fetches' = [fetches EXCEPT ![id][n] =
                   IF id \in DOMAIN schemas THEN ResolvedSchemaByID(id, @)
                   ELSE [@ EXCEPT !.pc = "failed"]]
  /\ UNCHANGED <<mode, registry, cache, resolving, readers, validators,
                 faults, prewarms>>

FetchLost(id, n) ==
  /\ n \in DOMAIN fetches[id] /\ fetches[id][n].pc = "send"
  /\ Fault
  /\ fetches' = [fetches EXCEPT ![id][n] = Retried(@, FALSE)]
  /\ UNCHANGED <<mode, registry, cache, resolving, readers, validators,
                 prewarms>>

(* An answer that is not retried. *)
FetchRefused(id, n) ==
  /\ n \in DOMAIN fetches[id] /\ fetches[id][n].pc = "send"
  /\ Fault
  /\ fetches' = [fetches EXCEPT ![id][n].pc = "failed"]
  /\ UNCHANGED <<mode, registry, cache, resolving, readers, validators,
                 prewarms>>

(* Defect: a failed fetch leaves its marker behind. *)
MarkerStays(id, n) == IF fetches[id][n].pc = "failed" THEN fetching ELSE fetching \ {id}

(* The marker is removed in any case. *)
MarkerRemoved(id, n) == fetching \ {id}

(* fetchWriterSchema ends: a fetched schema replaces the entry. *)
FetchStored(id, n) ==
  /\ n \in DOMAIN fetches[id] /\ fetches[id][n].pc \in {"answered", "failed"}
  /\ fetching' = MarkerRemoved(id, n)
  /\ fetches' = [fetches EXCEPT ![id] = RemoveAt(@, n)]
  /\ IF fetches[id][n].pc = "answered"
     THEN /\ writerSchemas' = Put(writerSchemas, id, schemas[id].schema)
          /\ writerMessageTypes' = IF schemas[id].messageType = None THEN writerMessageTypes
                                   ELSE Put(writerMessageTypes, id, schemas[id].messageType)
          /\ writerReferences' = Put(writerReferences, id,
                                     References[schemas[id].schema])
     ELSE UNCHANGED <<writerSchemas, writerMessageTypes, writerReferences>>
  /\ UNCHANGED <<mode, registry, interned, subjectIDs, resolving,
                 readers, validators, faults, prewarms>>

---------------------------------------------------------------------------
(* Deserialization. *)

(* Defect: every miss starts a fetch. *)
StartsAlways(id) == TRUE

(* WriterSchema starts a fetch unless one is marked. *)
Starts(id) == id \notin fetching

(* deserializeBody asks for the writer schema; a miss is a retriable error *)
(* and the application retries the record.                                 *)
ReadSchema(r) ==
  LET id == readers[r].id
  IN /\ readers[r].pc = "read"
     /\ IF id \in DOMAIN writerSchemas
        THEN /\ readers' = [readers EXCEPT ![r].pc = "second",
                                           ![r].schema = writerSchemas[id]]
             /\ UNCHANGED <<fetching, fetches>>
        ELSE /\ Starts(id) /\ Len(fetches[id]) < MaxFetches
             /\ fetching' = fetching \union {id}
             /\ fetches' = [fetches EXCEPT ![id] = Append(@, Fetcher)]
             /\ UNCHANGED readers
     /\ UNCHANGED <<mode, registry, interned, subjectIDs, writerSchemas,
                    writerMessageTypes, writerReferences, resolving,
                    validators, faults, prewarms>>

Idle == [pc |-> "idle", id |-> 0, schema |-> None]

(* Defect: the compiled validator of any other schema is taken. *)
AnyValidator(id, schema) == IF validators = <<>> THEN schema
                            ELSE validators[CHOOSE other \in DOMAIN validators : TRUE]

(* The validator is compiled once for an ID. *)
validatorFor(id, schema) == IF id \in DOMAIN validators THEN validators[id] ELSE schema

(* The references of a schema; the message type the descriptor must have,  *)
(* which is not checked when it is unknown.                                *)
WriterReferences(id) == IF id \in DOMAIN writerReferences THEN writerReferences[id] ELSE {}
MessageType(id) == IF id \in DOMAIN writerMessageTypes THEN writerMessageTypes[id] ELSE None

(* What a serde reads next. *)
Second(kind, id, schema) ==
  CASE kind = "avro"     -> WriterReferences(id)
    [] kind = "protobuf" -> MessageType(id)
    [] kind = "json"     -> validatorFor(id, schema)

(* The record is decoded. *)
ReadSecond(r, kind) ==
  /\ readers[r].pc = "second"
  /\ readers' = [readers EXCEPT ![r] = Idle]
  /\ validators' = IF kind = "json"
                   THEN Put(validators, readers[r].id,
                            Second(kind, readers[r].id, readers[r].schema))
                   ELSE validators
  /\ UNCHANGED <<mode, registry, cache, fetches, resolving, faults, prewarms>>

(* A record arrives, with the ID its writer put on it. *)
Arrives(r, id) ==
  /\ readers[r] = Idle /\ prewarms <= ReadCalls
  /\ readers' = [readers EXCEPT ![r].pc = "read", ![r].id = id]
  /\ UNCHANGED <<mode, registry, cache, fetches, resolving, validators, faults, prewarms>>

(* The Seed methods, used at startup, with what the registry has.  A       *)
(* schema with references cannot be seeded: there is no method for them.   *)
Startup == mode \in SeedModes /\ interned = <<>> /\ prewarms = 0

SeedSubjectID(s, id) ==
  /\ Startup /\ id \in Seeds /\ id \in Range(versions[s])
  /\ subjectIDs' = Put(subjectIDs, s, id)
  /\ UNCHANGED <<mode, registry, interned, writerSchemas, writerMessageTypes,
                 writerReferences, fetching, fetches, resolving, readers,
                 validators, faults, prewarms>>

SeedWriterSchema(id) ==
  /\ Startup /\ id \in Seeds /\ id \in DOMAIN schemas /\ References[schemas[id].schema] = {}
  /\ writerSchemas' = Put(writerSchemas, id, schemas[id].schema)
  /\ UNCHANGED <<mode, registry, interned, subjectIDs, writerMessageTypes,
                 writerReferences, fetching, fetches, resolving, readers,
                 validators, faults, prewarms>>

SeedWriterMessageType(id) ==
  /\ Startup /\ id \in Seeds /\ id \in DOMAIN schemas
  /\ writerMessageTypes' = Put(writerMessageTypes, id, schemas[id].messageType)
  /\ UNCHANGED <<mode, registry, interned, subjectIDs, writerSchemas,
                 writerReferences, fetching, fetches, resolving, readers,
                 validators, faults, prewarms>>

---------------------------------------------------------------------------
Init ==
  /\ mode \in Modes
  /\ schemas = <<>> /\ versions = [s \in Subjects |-> <<>>]
  /\ interned = <<>> /\ subjectIDs = <<>>
  /\ writerSchemas = <<>> /\ writerMessageTypes = <<>> /\ writerReferences = <<>>
  /\ fetching = {} /\ fetches = [id \in IDs |-> <<>>]
  /\ resolving = <<>>
  /\ readers = [r \in Readers |-> Idle]
  /\ validators = <<>>
  /\ faults = 0 /\ prewarms = 0

Next ==
  \/ ForeignRegister
  \/ \E s \in Subjects : Intern(s)
  \/ StartPrewarm
  \/ \E call \in 1 .. MaxPrewarms : FinishPrewarm(call)
  \/ \E g \in DOMAIN resolving :
       \/ ResolveAnswered(g) \/ ResolveStored(g)
       \/ \E handled \in BOOLEAN :
            \/ ResolveRefused(g, handled)
            \/ \E cancelled \in BOOLEAN : ResolveLost(g, handled, cancelled)
  \/ \E id \in IDs, n \in 1 .. MaxFetches :
       \/ FetchAnswered(id, n) \/ FetchStored(id, n)
       \/ FetchLost(id, n) \/ FetchRefused(id, n)
  \/ \E r \in Readers : \/ ReadSchema(r)
                        \/ \E kind \in Kinds : ReadSecond(r, kind)
                        \/ \E id \in IDs : Arrives(r, id)
  \/ \E id \in Seeds : \/ SeedWriterSchema(id) \/ SeedWriterMessageType(id)
                       \/ \E s \in Subjects : SeedSubjectID(s, id)

Spec == Init /\ [][Next]_vars

(* A goroutine of the call gets an answer or stores it, or the call ends.  *)
PrewarmProgress(call) ==
  \/ FinishPrewarm(call)
  \/ \E g \in Prewarming(call) : ResolveAnswered(g) \/ ResolveStored(g)

(* Goroutines run, the registry answers in the end, and the application    *)
(* retries a record whose schema is pending.                               *)
FairSpec ==
  /\ Spec
  /\ \A call \in 1 .. MaxPrewarms : WF_vars(PrewarmProgress(call))
  /\ \A id \in IDs : WF_vars(FetchAnswered(id, 1) \/ FetchStored(id, 1))
  /\ \A r \in Readers : WF_vars(ReadSchema(r)) /\ WF_vars(\E kind \in Kinds : ReadSecond(r, kind))

---------------------------------------------------------------------------
Texts == {schema.schema : schema \in Range(Local)} \union {f[2].schema : f \in Foreign}
Types == {schema.messageType : schema \in Range(Local)} \union {f[2].messageType : f \in Foreign}

(* The cache's maps hold what their types say, and every marker of a fetch *)
(* belongs to the one goroutine that will remove it: WriterSchema starts   *)
(* at most one fetch of an ID at a time.                                   *)
TypeOK ==
  /\ mode \in Modes
  /\ DOMAIN interned \subseteq Subjects /\ DOMAIN subjectIDs \subseteq Subjects
  /\ Range(subjectIDs) \subseteq DOMAIN schemas
  /\ \A id \in DOMAIN writerSchemas : writerSchemas[id] \in Texts
  /\ DOMAIN writerReferences \subseteq DOMAIN writerSchemas
  /\ \A id \in IDs : Len(fetches[id]) = IF id \in fetching THEN 1 ELSE 0
  /\ faults \in 0 .. MaxFaults /\ prewarms \in 0 .. MaxPrewarms

(* A subject resolves to an ID that serves the records written under it:   *)
(* unless the ID was seeded, and except with UseLatest, the registry knows *)
(* it under that subject as the local schema; and the cache can decode its *)
(* own records without a fetch.  This holds when the answer of a           *)
(* registration was lost and it is sent again, when two calls prewarm at   *)
(* once, and when another application registers meanwhile.                 *)
ResolvedAsInterned ==
  \A s \in DOMAIN subjectIDs :
    LET id == subjectIDs[s]
    IN /\ id \in Range(versions[s])
       /\ \/ mode \in SeedModes /\ id \in Seeds
          \/ /\ id \in DOMAIN writerSchemas
             /\ mode # "UseLatest" => schemas[id] = interned[s]

(* A cached writer schema is the registry's, whichever of prewarming,      *)
(* seeding and a late background fetch wrote it last; UseLatest records    *)
(* the local schema instead.                                               *)
WriterSchemasAreTheRegistrys ==
  \A id \in DOMAIN writerSchemas :
    \/ writerSchemas[id] = schemas[id].schema
    \/ /\ mode = "UseLatest"
       /\ \E s \in DOMAIN interned : writerSchemas[id] = interned[s].schema

(* A record is decoded with the schema, references and message type it was *)
(* written with, although they are read in separate critical sections and  *)
(* validators are kept for ever; an unknown message type is not checked.   *)
DecodedAsWritten ==
  /\ WriterSchemasAreTheRegistrys
  /\ \A r \in Readers : readers[r].pc = "second" /\ mode # "UseLatest" =>
       LET writer == schemas[readers[r].id]
           Reads(kind) == Second(kind, readers[r].id, readers[r].schema)
       IN /\ readers[r].schema = writer.schema
          /\ Reads("avro") = References[writer.schema]
          /\ Reads("protobuf") \in {writer.messageType, None}
          /\ Reads("json") = writer.schema

(* Prewarming tells the truth: a subject is reported resolved with an ID   *)
(* the registry has for it and Serialize finds, whichever call of it wrote *)
(* last; and a subject that fails for want of an answer has cost every one *)
(* of its attempts.  A refusal (cache_test.go:115) or a cancelled context  *)
(* ends a subject after one.                                               *)
ReportIsTrue ==
  [][\A call \in 1 .. MaxPrewarms : FinishPrewarm(call) =>
       /\ \A s \in DOMAIN Report(call) :
            Serializes(s) /\ Report(call)[s] \in Range(versions[s])
       /\ (MaxRetries + 1) * Cardinality(GaveUp(call)) <= faults]_vars

(* A record of a registered schema is decoded in the end, although the     *)
(* reader never waits and its fetch may fail: the next miss starts another *)
(* one.                                                                    *)
ReaderServed ==
  \A r \in Readers :
    readers[r].pc = "read" /\ readers[r].id \in DOMAIN schemas ~> readers[r].pc # "read"

(* Every call of prewarming returns, although its requests fail; a request *)
(* that hangs under a context without a deadline is not one that fails.    *)
PrewarmReturns == resolving # <<>> ~> resolving = <<>>
=============================================================================

--------------------------- MODULE Compatibility ---------------------------
(***************************************************************************)
(* The local compatibility checks of JSON and Protobuf schemas             *)
(* (schema/compat.go).                                                     *)
(*                                                                         *)
(* A JSON schema has types (none: any type), properties or none, required  *)
(* properties, and may be closed to others.  A Protobuf file has messages, *)
(* each a function from field numbers to their kind, whether the field is  *)
(* a list and whether it is required.                                      *)
(***************************************************************************)
EXTENDS Integers, FiniteSets, TLC

NoProperties == [name \in {} |-> {}]

(* Defect: the reader must not have types the writer lacks. *)
NarrowsReversed(reader, writer) ==
  reader.types # {} /\ (writer.types = {} \/ ~(reader.types \subseteq writer.types))

Narrows(reader, writer) ==
  reader.types # {} /\ (writer.types = {} \/ ~(writer.types \subseteq reader.types))

(* There is no incompatibility. *)
RECURSIVE checkJSONReader(_, _)
checkJSONReader(reader, writer) ==
  /\ ~Narrows(reader, writer)
  /\ "object" \in reader.types \/ reader.hasProperties =>
       /\ reader.required \subseteq writer.required
       /\ \A name \in DOMAIN writer.properties :
            IF name \in DOMAIN reader.properties
            THEN checkJSONReader(reader.properties[name], writer.properties[name])
            ELSE ~reader.closed

protoWireType(kind) ==
  CASE kind \in {"int32", "int64", "uint32", "uint64", "sint32", "sint64", "bool", "enum"} -> 0
    [] kind \in {"fixed64", "sfixed64", "double"}  -> 1
    [] kind \in {"string", "bytes", "message"}     -> 2
    [] kind = "group"                              -> 3
    [] kind \in {"fixed32", "sfixed32", "float"}   -> 5

checkProtobufReader(reader, writer) ==
  \A name \in DOMAIN writer :
    /\ name \in DOMAIN reader
    /\ \A number \in DOMAIN writer[name] \intersect DOMAIN reader[name] :
         /\ protoWireType(reader[name][number].kind) = protoWireType(writer[name][number].kind)
         /\ reader[name][number].list = writer[name][number].list
    /\ \A number \in DOMAIN reader[name] :
         reader[name][number].required => number \in DOMAIN writer[name]

directions(m) == IF m = "full" THEN {"backward", "forward"} ELSE {m}

(* The reader and the writer of each direction that a mode asks for. *)
ReadersAndWriters(previous, candidate, m) ==
  {IF direction = "backward" THEN <<candidate, previous>> ELSE <<previous, candidate>> :
     direction \in directions(m)}

JSONCompatibility(previous, candidate, m) ==
  \A pair \in ReadersAndWriters(previous, candidate, m) : checkJSONReader(pair[1], pair[2])

ProtobufCompatibility(previous, candidate, m) ==
  \A pair \in ReadersAndWriters(previous, candidate, m) : checkProtobufReader(pair[1], pair[2])

---------------------------------------------------------------------------
(* What the checks stand for: a document that a writer produces is one the *)
(* reader accepts.  A writer produces documents of its schema without      *)
(* properties that the schema does not declare.                            *)
(*                                                                         *)
(* compat.go:17 asks this of every pair that is let through, and two kinds *)
(* of reader break it, because the checks do not look at what they         *)
(* require: see JSONGap and ProtobufGap.                                   *)

Node(types, properties, required, closed) ==
  [types |-> types, hasProperties |-> properties # NoProperties, properties |-> properties,
   required |-> required, closed |-> closed]

SomeTypes   == {{}, {"string"}, {"string", "integer"}}
SomeLeaves  == {Node(types, NoProperties, {}, FALSE) : types \in SomeTypes}
SomeObjects ==
  {Node(types, properties, required, closed) :
     types \in {{}, {"object"}}, required \in SUBSET {"a"}, closed \in BOOLEAN,
     properties \in UNION {[names -> SomeLeaves] : names \in SUBSET {"a", "b"}}}
SomeSchemas == SomeLeaves \union SomeObjects

SomeDocuments ==
  {[type |-> t, fields |-> NoProperties] : t \in {"string", "integer"}}
  \union {[type |-> "object", fields |-> fields] :
            fields \in UNION {[names -> {"string", "integer"}] : names \in SUBSET {"a", "b"}}}

Accepts(node, document) ==
  /\ node.types = {} \/ document.type \in node.types
  /\ document.type = "object" =>
       /\ node.required \subseteq DOMAIN document.fields
       /\ node.closed => DOMAIN document.fields \subseteq DOMAIN node.properties
       /\ \A name \in DOMAIN document.fields \intersect DOMAIN node.properties :
            \/ node.properties[name].types = {}
            \/ document.fields[name] \in node.properties[name].types

Produces(node, document) ==
  Accepts(node, document) /\ DOMAIN document.fields \subseteq DOMAIN node.properties

SomeFields == {f \in [kind : {"int32", "uint64", "string"}, list : BOOLEAN, required : BOOLEAN] :
                 ~(f.list /\ f.required)}
SomeFiles  == {"m" :> fields : fields \in UNION {[numbers -> SomeFields] : numbers \in SUBSET {1, 2}}}

(* A message of the writer has its required fields and some others; the    *)
(* reader parses it when it finds the required fields, and the wire types  *)
(* it expects.                                                             *)
Parses(reader, writer) ==
  \A numbers \in SUBSET DOMAIN writer["m"] :
    {n \in DOMAIN writer["m"] : writer["m"][n].required} \subseteq numbers =>
      /\ {n \in DOMAIN reader["m"] : reader["m"][n].required} \subseteq numbers
      /\ \A n \in numbers \intersect DOMAIN reader["m"] :
           protoWireType(reader["m"][n].kind) = protoWireType(writer["m"][n].kind)

Understands(reader, writer) ==
  \A document \in SomeDocuments : Produces(writer, document) => Accepts(reader, document)

(* The reader has neither the type object nor properties, and the check    *)
(* returns (compat.go:129) before it looks at what the reader requires and *)
(* whether it is closed, although the writer produces objects.             *)
JSONGap(reader, writer) ==
  /\ reader.types = {} /\ ~reader.hasProperties
  /\ writer.types = {} \/ "object" \in writer.types
  /\ writer.required \subseteq DOMAIN writer.properties
  /\ \/ ~(reader.required \subseteq writer.required)
     \/ reader.closed /\ DOMAIN writer.properties # {}

(* A field that the reader requires is asked to be one of the writer's     *)
(* fields (compat.go:180), which the writer may leave out.                 *)
ProtobufGap(reader, writer) ==
  \E n \in DOMAIN reader["m"] \intersect DOMAIN writer["m"] :
    reader["m"][n].required /\ ~writer["m"][n].required

(* The check of a mode speaks of the readers of that mode: what it accepts *)
(* can be read, except at a gap, where it cannot.                          *)
Misses(Compatible(_, _, _), Works(_, _), Gap(_, _), samples) ==
  \A previous, candidate \in samples :
    \A m \in {"backward", "forward", "full"} :
      Compatible(previous, candidate, m) =>
        \A pair \in ReadersAndWriters(previous, candidate, m) :
          Works(pair[1], pair[2]) <=> ~Gap(pair[1], pair[2])

ChecksMissOnlyTheGaps ==
  /\ Misses(JSONCompatibility, Understands, JSONGap, SomeSchemas)
  /\ Misses(ProtobufCompatibility, Parses, ProtobufGap, SomeFiles)
=============================================================================

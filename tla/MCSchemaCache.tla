---------------------------- MODULE MCSchemaCache ----------------------------
(***************************************************************************)
(* Two subjects that share a schema, and another application that          *)
(* registers the same schema or one with a reference.  The records that    *)
(* carry the registry's IDs are framed by WireFormat, and the versions of  *)
(* a subject pass the checks of Compatibility.                             *)
(***************************************************************************)
EXTENDS SchemaCache, WireFormat, Compatibility

Order  == [schema |-> "order", messageType |-> "Order"]
Nested == [schema |-> "nested", messageType |-> None]

MCSubjects   == {"keys", "values"}
MCLocal      == [s \in MCSubjects |-> Order]
MCForeign    == {<<"values", Order>>, <<"values", Nested>>}
MCReferences == [text \in {"order", "nested"} |-> IF text = "nested" THEN {"leaf"} ELSE {}]
MCKinds      == {"avro", "protobuf", "json"}
MCModes      == {"AutoRegister", "LookupOnly", "UseLatest"}

RegistryFrames == {id \in IDs : FrameSurvives(id)}

---------------------------------------------------------------------------
(* A record framed with a registered ID gives back its ID, its path of     *)
(* message indexes and its body, whatever the bytes of the body and        *)
(* although the path has a short form, up to the largest IDs and indexes;  *)
(* a frame that ends early is refused (wireformat.go).  And the reader of  *)
(* a mode can read what the writer of that mode produces, for the schemas  *)
(* its check accepts (compat.go), except at exactly two gaps of the check: *)
(* a JSON reader that requires properties, or is closed, without a type or *)
(* properties, and a Protobuf reader that requires a field the writer may  *)
(* leave out.                                                              *)
RecordsCanBeRead ==
  schemas # <<>> => /\ DOMAIN schemas \subseteq RegistryFrames
                    /\ SampleFramesSurvive
                    /\ ChecksMissOnlyTheGaps
=============================================================================

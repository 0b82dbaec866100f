----------------------------- MODULE JSONBridge -----------------------------
(***************************************************************************)
(* Records of one JSON value each as rows of a batch and back: the         *)
(* JSONRowBridge (columnar/jsonbridge.go) under the RowCodec               *)
(* (columnar/rowcodec.go).  A bridge is its fields: Null until the first   *)
(* batch with rows infers them.                                            *)
(*                                                                         *)
(* A document is a pair of its kind and its content: "n" (null), "i" (an   *)
(* integer), "f" (a number with a point or an exponent, in halves), "b",   *)
(* "s" (a string of a text), "o" (an object, a sequence of keys with       *)
(* documents, or an array).  A text is a word ("w"), base64 of a word      *)
(* ("64"), or what a document looks like in JSON.                          *)
(***************************************************************************)
EXTENDS ColumnarOperators, BlobCodec

None == <<"n", 0>>

jsonKind(doc) == doc[1]

(* A row that is no object is one column. *)
objectFor(scalar, doc) ==
  IF ~scalar /\ jsonKind(doc) = "o" THEN doc[2] ELSE <<<<"value", doc>>>>

ValueOf(object, name) ==
  LET at == {i \in DOMAIN object : object[i][1] = name}
  IN IF at = {} THEN None ELSE object[Max(at)][2]

---------------------------------------------------------------------------
(* Fields: inferred from the rows, or declared by a JSON Schema. *)

Column(name, nullable, type, tag) ==
  [name |-> name, nullable |-> nullable, type |-> type, tag |-> tag]

ColumnOfKind(name, kind) ==
  Column(name, TRUE,
         CASE kind = "i" -> "int64" [] kind = "f" -> "float64" [] kind = "b" -> "bool"
           [] OTHER -> "string",
         IF kind = "o" THEN "json" ELSE "none")

(* Defect: the first sample decides, also a null one. *)
InferredFromFirst(name, samples) == ColumnOfKind(name, jsonKind(samples[1]))

inferredField(name, samples) ==
  LET typed == SelectSeq(samples, LAMBDA doc : jsonKind(doc) # "n")
  IN ColumnOfKind(name, IF typed = <<>> THEN "n" ELSE jsonKind(typed[1]))

InferredFields(objects) ==
  LET pairs == FlattenSeq(objects)
      names == FirstAppearances([i \in DOMAIN pairs |-> pairs[i][1]])
  IN [n \in DOMAIN names |->
        LET own == SelectSeq(pairs, LAMBDA pair : pair[1] = names[n])
        IN inferredField(names[n], [i \in DOMAIN own |-> own[i][2]])]

(* A declaration is its types, whether it is base64, and the definition it *)
(* refers to (one or none).  A reference is followed once.                 *)
resolveJSONSchemaRef(declaration, definitions) ==
  IF declaration.ref = {} THEN Read(declaration, <<>>)
  ELSE IF declaration.ref \subseteq DOMAIN definitions
  THEN Read(definitions[CHOOSE name \in declaration.ref : TRUE], <<>>) ELSE Failed

jsonSchemaField(name, declaration, nullable, definitions) ==
  LET resolved == resolveJSONSchemaRef(declaration, definitions)
      types    == SelectSeq(resolved.value.types, LAMBDA type : type # "null")
      type     == IF types = <<>> THEN "any" ELSE types[1]
  IN IF ~resolved.ok THEN Failed
     ELSE Read(Column(name, nullable \/ Contains(resolved.value.types, "null"),
            CASE type = "integer" -> "int64" [] type = "number" -> "float64"
              [] type = "boolean" -> "bool"
              [] type \in {"any", "string"} /\ resolved.value.base64 -> "binary"
              [] OTHER -> "string",
            CASE type = "object" -> "json"
              [] type \in {"any", "string"} /\ resolved.value.base64 -> "binary"
              [] OTHER -> "none"), <<>>)

(* The properties are a sequence of names with declarations. *)
jsonSchemaFields(schema, scalar) ==
  IF scalar THEN Mapped(jsonSchemaField("value", schema.root, FALSE, schema.definitions),
                        LAMBDA field : <<field>>)
  ELSE LET fields == [i \in DOMAIN schema.properties |->
             jsonSchemaField(schema.properties[i][1], schema.properties[i][2],
                             schema.properties[i][1] \notin schema.required, schema.definitions)]
       IN IF \A i \in DOMAIN fields : fields[i].ok
          THEN Read([i \in DOMAIN fields |-> fields[i].value], <<>>) ELSE Failed

---------------------------------------------------------------------------
(* Values. *)

(* A float64 holds the integers of one bit less than an int64; the others  *)
(* are rounded to the nearest even one.                                    *)
Rounded(n) ==
  IF Abs(n) <= 2 ^ (Bits - 2) \/ n % 2 = 0 THEN n
  ELSE IF n % 4 = 1 THEN n - 1 ELSE n + 1

InInt64(n) == MinInt64 <= n /\ n <= MaxInt64

(* A number as it is printed. *)
Number(halves) == IF halves % 2 = 0 THEN <<"i", halves \div 2>> ELSE <<"f", halves>>

stringify(doc) ==
  CASE jsonKind(doc) = "s" -> doc[2] [] jsonKind(doc) = "f" -> Number(doc[2]) [] OTHER -> doc

(* The integer that a number or a string of digits stands for. *)
exactInt64(doc) ==
  LET number == IF jsonKind(doc) = "s" THEN doc[2] ELSE stringify(doc)
  IN IF number[1] = "i" /\ InInt64(number[2]) THEN Read(number[2], <<>>) ELSE Failed

(* A cell is the content of its column. *)
appendGoValue(type, doc) ==
  CASE type = "string"  -> Read(stringify(doc), <<>>)
    [] type = "int64"   -> exactInt64(doc)
    [] type = "float64" -> IF jsonKind(doc) = "f" THEN Read(doc[2], <<>>)
                           ELSE Mapped(exactInt64(doc), LAMBDA n : 2 * Rounded(n))
    [] type = "bool"    -> IF jsonKind(doc) = "b" THEN Read(doc[2], <<>>) ELSE Failed
    [] type = "binary"  -> IF jsonKind(doc) = "s" THEN Read(doc[2], <<>>) ELSE Failed

writeJSONValue(doc, field) ==
  LET converted == CASE field.tag = "json" -> Read(<<"s", doc>>, <<>>)
                     [] field.tag = "binary" ->
                          IF jsonKind(doc) = "s" /\ doc[2][1] = "64"
                          THEN Read(<<"s", <<"w", doc[2][2]>>>>, <<>>) ELSE Failed
                     [] jsonKind(doc) = "i" /\ ~InInt64(doc[2]) -> Failed
                     [] jsonKind(doc) = "o" -> Read(<<"s", doc>>, <<>>)
                     [] OTHER -> Read(doc, <<>>)
  IN IF jsonKind(doc) = "n" THEN IF field.nullable THEN Read(Null, <<>>) ELSE Failed
     ELSE IF ~converted.ok THEN Failed
     ELSE Mapped(appendGoValue(field.type, converted.value), LAMBDA cell : <<cell>>)

readJSONValue(cell, field) ==
  CASE cell = Null             -> None
    [] field.tag = "json"      -> cell[1]
    [] field.tag = "binary"    -> <<"s", <<"64", cell[1][2]>>>>
    [] field.type = "int64"    -> <<"i", cell[1]>>
    [] field.type = "float64"  -> Number(cell[1])
    [] field.type = "bool"     -> <<"b", cell[1]>>
    [] OTHER                   -> <<"s", cell[1]>>

---------------------------------------------------------------------------
(* Batches: the fields, and for every row its cells.  A batch without a    *)
(* column has no rows.                                                     *)

(* The fields are kept as soon as a batch has rows, before they are        *)
(* written.                                                                *)
RowsToBatch(bridge, scalar, docs) ==
  LET objects == [i \in DOMAIN docs |-> objectFor(scalar, docs[i])]
      fields  == IF bridge = Null THEN InferredFields(objects) ELSE bridge[1]
      written == [i \in DOMAIN docs |-> [c \in DOMAIN fields |->
                    writeJSONValue(ValueOf(objects[i], fields[c].name), fields[c])]]
  IN [bridge |-> IF bridge = Null /\ docs = <<>> THEN Null ELSE <<fields>>,
      batch  |-> IF \E i \in DOMAIN docs : \E c \in DOMAIN fields : ~written[i][c].ok THEN Failed
                 ELSE Read([fields |-> fields,
                            rows |-> IF fields = <<>> THEN <<>> ELSE
                              [i \in DOMAIN docs |-> [c \in DOMAIN fields |-> written[i][c].value]]],
                           <<>>)]

BatchToRows(scalar, batch) ==
  [i \in DOMAIN batch.rows |->
     LET read == [c \in DOMAIN batch.fields |->
                    <<batch.fields[c].name, readJSONValue(batch.rows[i][c], batch.fields[c])>>]
     IN IF scalar THEN read[1][2] ELSE <<"o", read>>]

(* RowCodec: the metadata columns stand next to the rows of the bridge. *)
DecodeRows(bridge, scalar, records) ==
  LET payload == RowsToBatch(bridge, scalar, [i \in DOMAIN records |-> records[i].value])
  IN [bridge |-> payload.bridge,
      batch  |-> IF payload.batch.ok /\ Len(payload.batch.value.rows) = Len(records)
                 THEN Read([payload |-> payload.batch.value,
                            metadata |-> [i \in DOMAIN records |->
                              [key |-> records[i].key, ts |-> records[i].ts,
                               headers |-> encodeHeaders(records[i].headers)]]], <<>>)
                 ELSE Failed]

EncodeRows(scalar, batch) ==
  LET rows == BatchToRows(scalar, batch.payload)
  IN [i \in DOMAIN rows |-> [key |-> batch.metadata[i].key, ts |-> batch.metadata[i].ts,
                             headers |-> decodeHeaders(batch.metadata[i].headers).value,
                             value |-> rows[i]]]

---------------------------------------------------------------------------
(* A document as it reads, quoted or not. *)
Plain(doc) == LET text == IF jsonKind(doc) = "s" THEN doc[2] ELSE doc
              IN IF text[1] = "i" THEN <<"f", 2 * text[2]>> ELSE text

IsNumber(doc) == jsonKind(doc) \in {"i", "f"}
Same(d, e)    == d = e \/ (IsNumber(d) /\ IsNumber(e) /\ Plain(d) = Plain(e))

(* The number that a float64 holds for an integer. *)
AsFloat(d, e) == /\ Plain(d)[1] = "f" /\ Plain(d)[2] % 2 = 0
                 /\ Plain(e) = <<"f", 2 * Rounded(Plain(d)[2] \div 2)>>

KeysOf(object) == {object[i][1] : i \in DOMAIN object}

(* What comes back of a batch that is accepted: every record in its place  *)
(* with its key, timestamp and headers, and an object with the keys of the *)
(* bridge's fields and no others, the value of each as it reads.  A key of *)
(* the document that is no field is dropped, a field it lacks is null.     *)
CarriesRecords(bridge, scalar, records) ==
  LET decoded == DecodeRows(bridge, scalar, records).batch
      back    == EncodeRows(scalar, decoded.value)
  IN decoded.ok =>
       /\ Len(back) = Len(records)
       /\ \A i \in DOMAIN records :
            /\ [back[i] EXCEPT !.value = None] = [records[i] EXCEPT !.value = None]
            /\ KeysOf(objectFor(scalar, back[i].value))
                 = {decoded.value.payload.fields[c].name : c \in DOMAIN decoded.value.payload.fields}
            /\ \A c \in DOMAIN decoded.value.payload.fields :
                 LET field == decoded.value.payload.fields[c]
                     sent  == ValueOf(objectFor(scalar, records[i].value), field.name)
                     got   == ValueOf(objectFor(scalar, back[i].value), field.name)
                 IN \/ Plain(sent) = Plain(got)
                    \/ field.type = "float64" /\ AsFloat(sent, got)

SomeDocs == {None, <<"i", 5>>, <<"i", 2 ^ (Bits - 2) + 1>>, <<"i", MaxInt64 + 1>>, <<"f", 3>>,
             <<"f", 4>>, <<"b", 1>>, <<"s", <<"w", 1>>>>, <<"s", <<"i", 5>>>>,
             <<"s", <<"64", 1>>>>, <<"o", <<>>>>}
SomeObjects == {<<"o", <<<<"a", doc>>>>>> : doc \in SomeDocs}
SomeRowsAfter == SomeObjects \union {<<"o", <<<<"b", doc>>>>>> : doc \in SomeDocs} \union SomeDocs

RecordOf(i, doc) == [key |-> IF i = 1 THEN Null ELSE <<<<i>>>>, ts |-> i,
                     headers |-> <<[key |-> <<1>>, value |-> Null]>>, value |-> doc]
RecordsOf(docs)    == [i \in DOMAIN docs |-> RecordOf(i, docs[i])]

(* The first value of a column that is not null comes back as it was, and  *)
(* no value of the batch that infers the fields is left out.               *)
InfersFromValues(scalar, records) ==
  LET decoded == DecodeRows(Null, scalar, records).batch
      back    == EncodeRows(scalar, decoded.value)
      objects == [i \in DOMAIN records |-> objectFor(scalar, records[i].value)]
      Values(name) == {i \in DOMAIN records : ValueOf(objects[i], name) # None}
  IN decoded.ok => \A i \in DOMAIN records : \A n \in DOMAIN objects[i] :
       LET name == objects[i][n][1]
       IN /\ \E c \in DOMAIN decoded.value.payload.fields : decoded.value.payload.fields[c].name = name
          /\ Values(name) # {} =>
               LET first == Min(Values(name))
               IN Same(ValueOf(objects[first], name),
                       ValueOf(objectFor(scalar, back[first].value), name))

InferredRowsSurvive ==
  \A scalar \in BOOLEAN : \A first \in BoundedSeq(IF scalar THEN SomeDocs ELSE SomeObjects, 2) :
    LET bridge == DecodeRows(Null, scalar, RecordsOf(first)).bridge
    IN /\ InfersFromValues(scalar, RecordsOf(first))
       /\ CarriesRecords(Null, scalar, RecordsOf(first))
       /\ \A after \in SomeRowsAfter : CarriesRecords(bridge, scalar, RecordsOf(<<after>>))

Declaration(types, base64, ref) == [types |-> types, base64 |-> base64, ref |-> ref]

SomeDeclarations ==
  {Declaration(<<type>>, FALSE, {}) : type \in {"integer", "number", "boolean", "string", "object"}}
  \union {Declaration(<<"string">>, TRUE, {}), Declaration(<<"null", "integer", "string">>, FALSE, {}),
          Declaration(<<>>, FALSE, {1}), Declaration(<<>>, FALSE, {2})}

SomeSchema(declaration, required) ==
  [root |-> declaration, properties |-> <<<<"a", declaration>>>>,
   required |-> IF required THEN {"a"} ELSE {},
   definitions |-> [d \in {1} |-> Declaration(<<"number", "null">>, FALSE, {})]]

(* A document of the first type that a schema declares. *)
Conforms(doc, declaration) ==
  LET types == SelectSeq(declaration.types, LAMBDA type : type # "null")
  IN CASE types[1] = "integer" -> jsonKind(doc) = "i" /\ InInt64(doc[2])
       [] types[1] = "number"  -> IsNumber(doc) /\ (jsonKind(doc) = "i" => InInt64(doc[2]))
       [] types[1] = "boolean" -> jsonKind(doc) = "b"
       [] types[1] = "object"  -> jsonKind(doc) = "o"
       [] types[1] = "string"  -> jsonKind(doc) = "s" /\ (declaration.base64 => doc[2][1] = "64")

(* A value of the declared type is accepted and comes back as it was, a    *)
(* null of a required field is refused, a reference to nothing is refused. *)
DeclaredRowsSurvive ==
  \A scalar \in BOOLEAN, required \in BOOLEAN, declaration \in SomeDeclarations :
    LET schema   == SomeSchema(declaration, required)
        fields   == jsonSchemaFields(schema, scalar)
        target   == IF declaration.ref = {} THEN declaration ELSE schema.definitions[1]
        Row(doc) == RecordsOf(<<IF scalar THEN doc ELSE <<"o", <<<<"a", doc>>>>>>>>)
    IN /\ fields.ok <=> declaration.ref # {2}
       /\ fields.ok => \A doc \in SomeDocs :
            LET decoded == DecodeRows(<<fields.value>>, scalar, Row(doc)).batch
                got     == ValueOf(objectFor(scalar, EncodeRows(scalar, decoded.value)[1].value),
                                   fields.value[1].name)
            IN /\ CarriesRecords(<<fields.value>>, scalar, Row(doc))
               /\ doc # None /\ Conforms(doc, target) =>
                    /\ decoded.ok
                    /\ Same(doc, got) \/ (target.types[1] = "number" /\ AsFloat(doc, got))
               /\ doc = None => (decoded.ok <=> \/ ~required /\ ~scalar
                                               \/ Contains(target.types, "null"))
=============================================================================

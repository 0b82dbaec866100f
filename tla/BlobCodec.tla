----------------------------- MODULE BlobCodec -----------------------------
(***************************************************************************)
(* Rows and the envelopes of their records: the columns a decoded batch    *)
(* has besides its payload (columnar/support.go), and the codec that packs *)
(* rows of one envelope into records below a size (blob.go).               *)
(*                                                                         *)
(* Nullable bytes are a sequence of at most one byte string.  A row has a  *)
(* key, a timestamp, headers and the size of its payload; a field has a    *)
(* name and the name kept in its metadata.                                 *)
(***************************************************************************)
EXTENDS Wire

Null == <<>>

(* bytes.Equal does not tell null from empty. *)
Content(nullable)  == IF nullable = Null THEN <<>> ELSE nullable[1]
BytesEqual(a, b)   == Content(a) = Content(b)
headersEqual(g, h) ==
  /\ Len(g) = Len(h)
  /\ \A i \in DOMAIN g : g[i].key = h[i].key /\ BytesEqual(g[i].value, h[i].value)

---------------------------------------------------------------------------
(* The column of the headers. *)

encodeHeaders(headers) ==
  BigEndian(4, Len(headers)) \o FlattenSeq([i \in DOMAIN headers |->
    appendSized(headers[i].key)
    \o IF headers[i].value = Null THEN BigEndian(4, -1) ELSE appendSized(headers[i].value[1])])

(* Defect: a null value is read as an empty one. *)
HeaderNotNull(i, data) ==
  LET key    == Sized(data)
      length == ReadInt(4, key.rest)
      value  == Take(IF length.value = -1 THEN 0 ELSE length.value, length.rest)
  IN IF key.ok /\ length.ok /\ value.ok
     THEN Read([key |-> key.value, value |-> <<value.value>>], value.rest) ELSE Failed

(* One header; a value of length -1 is null. *)
Header(i, data) ==
  LET key    == Sized(data)
      length == ReadInt(4, key.rest)
      value  == Take(length.value, length.rest)
  IN IF ~key.ok \/ ~length.ok THEN Failed
     ELSE IF length.value = -1
     THEN Read([key |-> key.value, value |-> Null], length.rest)
     ELSE IF value.ok
     THEN Read([key |-> key.value, value |-> <<value.value>>], value.rest) ELSE Failed

decodeHeaders(data) ==
  LET count   == ReadInt(4, data)
      headers == Counted(count, Header)
  IN IF /\ count.ok /\ count.value <= Len(count.rest) \div 8 + 1
        /\ headers.ok /\ headers.rest = <<>>
     THEN headers ELSE Failed

---------------------------------------------------------------------------
(* The metadata columns, and payload columns of the same name. *)

reservedColumns ==
  <<<<"__key">>, <<"__timestamp">>, <<"__partition">>, <<"__offset">>, <<"__headers">>>>

isReserved(name) == \E i \in DOMAIN reservedColumns : reservedColumns[i] = name

(* A name is a sequence of words. *)
PayloadColumn(name) == <<"__payload_">> \o name

escapedPayloadField(field) ==
  IF isReserved(field.name)
  THEN [name |-> PayloadColumn(field.name), original |-> <<field.name>>] ELSE field

restoredPayloadField(field) ==
  IF field.original = Null THEN field
  ELSE [name |-> field.original[1], original |-> Null]

withMetadata(payload) ==
  [i \in DOMAIN payload |-> escapedPayloadField(payload[i])]
  \o [i \in DOMAIN reservedColumns |-> [name |-> reservedColumns[i], original |-> Null]]

payloadOnly(fields) ==
  LET kept == SelectSeq(fields, LAMBDA f : ~isReserved(f.name))
  IN [i \in DOMAIN kept |-> restoredPayloadField(kept[i])]

---------------------------------------------------------------------------
(* BlobCodec.Encode. *)

(* The length of the Arrow stream of the rows, padded. *)
IPCSize(rows) ==
  LET size == FoldLeft(LAMBDA sum, row : sum + row.size, 0, rows)
  IN 1 + size + (size % 2)

SameEnvelope(r, s) == /\ BytesEqual(r.key, s.key)
                      /\ r.ts = s.ts
                      /\ headersEqual(r.headers, s.headers)

envelopeRows(batch, start) ==
  LET others == {e \in start + 1 .. Len(batch) : ~SameEnvelope(batch[start], batch[e])}
  IN (IF others = {} THEN Len(batch) + 1 ELSE Min(others)) - start

(* Defect: the search gives up one row below the cap. *)
LargestBelow(batch, start, available, cap) ==
  LET search[low \in 1 .. available + 1, high \in 0 .. available, best \in 0 .. available] ==
        IF low > high THEN best
        ELSE LET rows == low + (high - low) \div 2
             IN IF IPCSize(SubSeq(batch, start, start + rows - 1)) < cap
                THEN search[rows + 1, high, rows] ELSE search[low, rows - 1, best]
  IN search[1, available, 0]

(* The binary search; 0 when one row exceeds the cap. *)
largestChunk(batch, start, available, cap) ==
  LET search[low \in 1 .. available + 1, high \in 0 .. available, best \in 0 .. available] ==
        IF low > high THEN best
        ELSE LET rows == low + (high - low) \div 2
             IN IF IPCSize(SubSeq(batch, start, start + rows - 1)) <= cap
                THEN search[rows + 1, high, rows] ELSE search[low, rows - 1, best]
  IN search[1, available, 0]

(* The envelope of a record is that of its last row. *)
Encode(batch, cap) ==
  LET from[start \in 1 .. Len(batch) + 1] ==
        LET rows == largestChunk(batch, start, envelopeRows(batch, start), cap)
            last == batch[start + rows - 1]
        IN IF start > Len(batch) THEN Read(<<>>, <<>>)
           ELSE IF rows = 0 \/ ~from[start + rows].ok THEN Failed
           ELSE Read(<<[key |-> last.key, ts |-> last.ts, headers |-> last.headers,
                        rows |-> SubSeq(batch, start, start + rows - 1)]>>
                     \o from[start + rows].value, <<>>)
  IN from[1]

---------------------------------------------------------------------------
Envelope(row) == [key |-> row.key, ts |-> row.ts, headers |-> row.headers]

(* What is left of an envelope without the difference of null and empty.   *)
Defined(nullable)     == <<Content(nullable)>>
NullAsEmpty(envelope) ==
  [envelope EXCEPT !.key = Defined(@),
                   !.headers = [i \in DOMAIN @ |-> [@[i] EXCEPT !.value = Defined(@)]]]

(* A batch is refused exactly when one of its rows is too large.  Else its *)
(* records hold its rows in order, each under the cap, each with the       *)
(* envelope of its last row, and none could have taken the next row.  The  *)
(* envelopes of its other rows may differ from it in one way: a null key   *)
(* or header value and an empty one travel together, although BlobCodec    *)
(* promises rows that "share one key, timestamp, and header list".         *)
PacksRows(batch, cap) ==
  LET encoded == Encode(batch, cap)
      records == encoded.value
  IN /\ encoded.ok <=> \A i \in DOMAIN batch : IPCSize(<<batch[i]>>) <= cap
     /\ encoded.ok =>
          /\ FlattenSeq([n \in DOMAIN records |-> records[n].rows]) = batch
          /\ \A n \in DOMAIN records :
               /\ IPCSize(records[n].rows) <= cap
               /\ Envelope(records[n]) = Envelope(Last(records[n].rows))
               /\ \A i \in DOMAIN records[n].rows :
                    NullAsEmpty(Envelope(records[n].rows[i])) = NullAsEmpty(Envelope(records[n]))
               /\ n < Len(records) =>
                    \/ NullAsEmpty(Envelope(records[n])) # NullAsEmpty(Envelope(records[n + 1]))
                    \/ IPCSize(Append(records[n].rows, records[n + 1].rows[1])) > cap

SomeHeaders ==
  LET entries == [key : {<<>>, <<1>>}, value : {Null, <<<<>>>>, <<<<1, 2>>>>}]
  IN UNION {[1 .. n -> entries] : n \in 0 .. 2}

SomeEnvelopes ==
  {[key |-> k, ts |-> t, headers |-> <<>>] : k \in {Null, <<<<>>>>, <<<<1>>>>}, t \in {0, 1}}
  \union {[key |-> Null, ts |-> 0, headers |-> <<[key |-> <<1>>, value |-> v]>>] :
            v \in {Null, <<<<>>>>}}
SomeRows == {[key |-> e.key, ts |-> e.ts, headers |-> e.headers, size |-> s] :
               e \in SomeEnvelopes, s \in {1, 4}}

SomePayloads ==
  LET fields == [name : {<<"a">>, <<"__key">>, PayloadColumn(<<"__key">>)}, original : {Null}]
  IN UNION {[1 .. n -> fields] : n \in 0 .. 2}

SamplesPack == \A n \in 0 .. 3, cap \in {3, 5, 7} : \A batch \in [1 .. n -> SomeRows] :
                 PacksRows(batch, cap)

(* Null and empty header values, their order and their keys survive the    *)
(* headers column, and damaged bytes are refused; a payload survives the   *)
(* metadata columns whatever its names.                                    *)
ColumnsSurvive ==
  /\ \A headers \in SomeHeaders :
       /\ decodeHeaders(encodeHeaders(headers)) = Read(headers, <<>>)
       /\ \A data \in Truncated(encodeHeaders(headers)) \union Extended(encodeHeaders(headers)) :
            ~decodeHeaders(data).ok
  /\ \A payload \in SomePayloads : payloadOnly(withMetadata(payload)) = payload
=============================================================================

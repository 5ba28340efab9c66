------------------------------ MODULE RpcConvert ------------------------------
(***************************************************************************)
(* The value conversion of src/edge-rust/src/grpc_server.rs between        *)
(* protobuf's google.protobuf.Value/Struct and serde_json::Value: the      *)
(* metadata of AddEmbedding and UpdateEmbedding on the way in, the filters *)
(* of the filtered searches, and the metadata of every returned embedding  *)
(* on the way out.                                                         *)
(*                                                                         *)
(* A protobuf Value is a record by its kind: "unset" is a Value whose kind *)
(* is None.  A number is an element of Numbers (finite f64 values) or one  *)
(* of the model values NaN and Inf.  A Struct, and a JSON object, is a     *)
(* function from its keys; a list is a sequence.  serde_json's Map and     *)
(* prost's BTreeMap are both ordered by key, so functions lose nothing.    *)
(***************************************************************************)
EXTENDS Integers, SequencesExt

CONSTANTS
    FieldNames,  \* keys of a metadata or filter Struct
    Strings,     \* string values
    Numbers,     \* finite f64 values
    NaN, Inf,    \* non-finite f64 values
    NoStruct     \* None: the request carries no Struct / no metadata

JNull == [t |-> "Null"]

\* serde_json's From<f64>: Number::from_f64, which refuses a non-finite
\* value, or Null.  A Number made from an f64 is held as a float.
json_from_f64(x) == IF x \in {NaN, Inf} THEN JNull ELSE [t |-> "Number", n |-> x]

RECURSIVE convert_proto_value(_), convert_struct_to_json(_)

\* convert_proto_value: an unset kind becomes Null.
convert_proto_value(v) ==
    CASE v.kind = "null"   -> JNull
      [] v.kind = "number" -> json_from_f64(v.n)
      [] v.kind = "string" -> [t |-> "String", s |-> v.s]
      [] v.kind = "bool"   -> [t |-> "Bool", b |-> v.b]
      [] v.kind = "struct" -> convert_struct_to_json(v.fields)
      [] v.kind = "list"   ->
            [t |-> "Array", a |-> [i \in DOMAIN v.values |->
                                       convert_proto_value(v.values[i])]]
      [] v.kind = "unset"  -> JNull

convert_struct_to_json(fields) ==
    [t |-> "Object", m |-> [k \in DOMAIN fields |-> convert_proto_value(fields[k])]]

\* The handlers' metadata conversion: Some(Struct) to Some(HashMap), None
\* to None.
MetadataFromRequest(st) ==
    IF st = NoStruct THEN NoStruct
    ELSE [k \in DOMAIN st |-> convert_proto_value(st[k])]

\* convert_filters_struct: a missing filters Struct is the empty map.
convert_filters_struct(st) ==
    IF st = NoStruct THEN [k \in {} |-> JNull]
    ELSE [k \in DOMAIN st |-> convert_proto_value(st[k])]

\* Mutant: nested objects come back as empty Structs.
RECURSIVE convert_json_value_flat(_)
convert_json_value_flat(j) ==
    CASE j.t = "Null"   -> [kind |-> "null"]
      [] j.t = "Bool"   -> [kind |-> "bool", b |-> j.b]
      [] j.t = "Number" -> [kind |-> "number", n |-> j.n]
      [] j.t = "String" -> [kind |-> "string", s |-> j.s]
      [] j.t = "Array"  ->
            [kind |-> "list", values |-> [i \in DOMAIN j.a |->
                                             convert_json_value_flat(j.a[i])]]
      [] j.t = "Object" -> [kind |-> "struct", fields |-> [k \in {} |-> JNull]]

\* convert_json_value.  A Number made from an f64 is a float: as_i64 and
\* as_u64 give None and as_f64 gives it back, so it stays the same number.
RECURSIVE convert_json_value(_)
convert_json_value(j) ==
    CASE j.t = "Null"   -> [kind |-> "null"]
      [] j.t = "Bool"   -> [kind |-> "bool", b |-> j.b]
      [] j.t = "Number" -> [kind |-> "number", n |-> j.n]
      [] j.t = "String" -> [kind |-> "string", s |-> j.s]
      [] j.t = "Array"  ->
            [kind |-> "list", values |-> [i \in DOMAIN j.a |->
                                             convert_json_value(j.a[i])]]
      [] j.t = "Object" ->
            [kind |-> "struct", fields |-> [k \in DOMAIN j.m |->
                                               convert_json_value(j.m[k])]]

\* convert_embedding_to_proto, on the metadata: None stays None.
convert_embedding_to_proto(meta) ==
    IF meta = NoStruct THEN NoStruct
    ELSE [k \in DOMAIN meta |-> convert_json_value(meta[k])]

-----------------------------------------------------------------------------
(* The values a request may carry: scalars, and lists and Structs of them, *)
(* as metadata values of one level of nesting.                             *)

Scalars ==
    {[kind |-> "null"], [kind |-> "unset"]}
    \cup {[kind |-> "bool", b |-> x] : x \in BOOLEAN}
    \cup {[kind |-> "number", n |-> x] : x \in Numbers \cup {NaN, Inf}}
    \cup {[kind |-> "string", s |-> x] : x \in Strings}

StructsOf(V) == UNION {[ks -> V] : ks \in SUBSET FieldNames}

ProtoValues ==
    Scalars
    \cup {[kind |-> "struct", fields |-> f] : f \in StructsOf(Scalars)}
    \cup {[kind |-> "list", values |-> s] : s \in BoundedSeq(Scalars, 2)}

\* A metadata Struct: absent, flat over every field, or one nested value.
RequestStructs ==
    {NoStruct} \cup StructsOf(Scalars)
    \cup UNION {[{f} -> ProtoValues] : f \in FieldNames}

VARIABLES
    request,   \* the Struct of an AddEmbedding request's metadata
    stored,    \* Embedding.metadata after the handler's conversion
    filter,    \* the filter map a search with the same Struct gets
    returned,  \* the metadata of the embedding a search returns
    pc

vars == <<request, stored, filter, returned, pc>>

Init ==
    /\ request \in RequestStructs
    /\ stored = NoStruct /\ filter = NoStruct /\ returned = NoStruct
    /\ pc = "sent"

\* add_embedding's conversion of the request, and search_filters's of a
\* filters Struct with the same content.
Receive ==
    /\ pc = "sent"
    /\ stored' = MetadataFromRequest(request)
    /\ filter' = convert_filters_struct(request)
    /\ pc' = "stored"
    /\ UNCHANGED <<request, returned>>

\* A search returns the embedding: convert_embedding_to_proto.
Reply ==
    /\ pc = "stored"
    /\ returned' = convert_embedding_to_proto(stored)
    /\ pc' = "returned"
    /\ UNCHANGED <<request, stored, filter>>

Done == pc = "returned" /\ UNCHANGED vars

Next == Receive \/ Reply \/ Done

Spec == Init /\ [][Next]_vars

-----------------------------------------------------------------------------
(* Properties.                                                             *)

TypeOK ==
    /\ request \in RequestStructs
    /\ pc \in {"sent", "stored", "returned"}
    /\ returned = NoStruct \/ DOMAIN returned \subseteq FieldNames

RECURSIVE SpecValue(_)
\* A payload spec 6 allows: null, bool, a (finite) number, string, list or
\* object of such; not an unset kind, NaN or an infinity.
SpecValue(v) ==
    CASE v.kind = "struct" -> \A k \in DOMAIN v.fields : SpecValue(v.fields[k])
      [] v.kind = "list"   -> \A i \in DOMAIN v.values : SpecValue(v.values[i])
      [] v.kind = "number" -> v.n \in Numbers
      [] OTHER             -> v.kind # "unset"

\* Metadata comes back from a search as it was sent, whenever every value
\* in it is a payload spec 6 allows; and whatever it holds, the keys the
\* core indexes (the stored metadata's and the filter's) are the request
\* Struct's keys, which is all the database model keeps of them.
RoundTrip ==
    pc = "returned" =>
        /\ (request # NoStruct /\ \A k \in DOMAIN request : SpecValue(request[k]))
              => returned = request
        /\ request = NoStruct => returned = NoStruct
        /\ request # NoStruct =>
              DOMAIN stored = DOMAIN request /\ DOMAIN filter = DOMAIN request

=============================================================================

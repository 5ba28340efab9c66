------------------------------- MODULE Bitmap -------------------------------
(***************************************************************************)
(* The metadata-to-bitmap projector and the subset test of                 *)
(* src/edge-rust/src/db.rs.  Metadata is abstracted to the set of its keys *)
(* (only key presence reaches the bitmap), or NoMeta for None.  A bitmap   *)
(* is a sequence of booleans, one per declared metadata field.             *)
(***************************************************************************)
EXTENDS Integers, Sequences

CONSTANT NoMeta     \* metadata: None

\* Bit i is set iff the metadata exists and has the key metadata_fields[i].
generate_bitmap_from_metadata(metadata, metadata_fields) ==
    [i \in 1..Len(metadata_fields) |->
        metadata # NoMeta /\ metadata_fields[i] \in metadata]

\* The same projection of a filter object (the server always passes Some).
generate_bitmap_from_filters(filters, metadata_fields) ==
    [i \in 1..Len(metadata_fields) |-> metadata_fields[i] \in filters]

\* The filter bitmap is a subset of the embedding bitmap; bitmaps of
\* different lengths never match.
bitmap_matches(embedding_bitmap, filter_bitmap) ==
    /\ Len(embedding_bitmap) = Len(filter_bitmap)
    /\ \A i \in 1..Len(filter_bitmap) :
          filter_bitmap[i] => embedding_bitmap[i]

=============================================================================

---------------------------- MODULE BoundedReads ----------------------------
(***************************************************************************)
(* The three bounded readers behind verification and export: an artifact's *)
(* file (read_bounded_file), the stream of a printed PDF (read_pdf_stream) *)
(* and a Markdown bundle on disk (read_markdown_bundle_with_limits), while *)
(* others append to the file or add and remove assets of the bundle.       *)
(***************************************************************************)
EXTENDS Integers, FiniteSetsExt

CONSTANTS
    maximum_bytes,     \* the limit of the read
    READ_BYTES,        \* the size of one read
    LargestSource,     \* a source grows up to this size
    Assets,            \* names in the bundle's asset directory
    maximum_assets

VARIABLES
    reader,    \* which reader runs
    size,      \* bytes of the file or stream; of index.md for a bundle
    entries,   \* the asset directory
    got,       \* bytes read
    listed,    \* asset names listed first
    taken,     \* assets read
    phase      \* where the reader stands, or its result

readVars == <<reader, size, entries, got, listed, taken, phase>>

Results == {"ok", "tooLarge", "stalled", "changed", "io"}
Running == phase \notin Results
smaller(a, b) == IF a < b THEN a ELSE b

-----------------------------------------------------------------------------
(* A file.                                                                 *)

\* The size of the metadata is checked first.
OpenFile ==
    /\ phase = "open" /\ reader # "pdf"
    /\ phase' = IF size > maximum_bytes THEN "tooLarge" ELSE "reading"
    /\ UNCHANGED <<reader, size, entries, got, listed, taken>>

\* Mutation: a full buffer is taken for the end of the file.
ReadUntilFull ==
    /\ phase = "reading" /\ reader # "pdf"
    /\ \/ /\ got = maximum_bytes \/ size = got
          /\ phase' = IF reader = "file" THEN "ok" ELSE "listing"
          /\ UNCHANGED got
       \/ \E n \in 1..smaller(READ_BYTES, smaller(size - got, maximum_bytes - got)) :
            got' = got + n /\ UNCHANGED phase
    /\ UNCHANGED <<reader, size, entries, listed, taken>>

\* read_bounded_open_file: at the limit one more byte is tried for.
read_bounded_open_file ==
    /\ phase = "reading" /\ reader # "pdf"
    /\ \/ /\ got = maximum_bytes /\ size > got
          /\ phase' = "tooLarge"
          /\ UNCHANGED got
       \/ /\ size = got
          /\ phase' = IF reader = "file" THEN "ok" ELSE "listing"
          /\ UNCHANGED got
       \/ \E n \in 1..smaller(READ_BYTES, smaller(size - got, maximum_bytes - got)) :
            got' = got + n /\ UNCHANGED phase
    /\ UNCHANGED <<reader, size, entries, listed, taken>>

-----------------------------------------------------------------------------
(* A PDF stream: the browser chooses how much it returns.                  *)

PdfRequest == smaller(READ_BYTES, IF maximum_bytes + 1 > got THEN maximum_bytes + 1 - got ELSE 1)

read_pdf_stream ==
    /\ phase \in {"open", "reading"} /\ reader = "pdf"
    /\ \E n \in 0..smaller(PdfRequest, size - got), eof \in BOOLEAN :
         /\ eof => got + n = size
         /\ got' = got + n
         /\ phase' = IF got + n > maximum_bytes THEN "tooLarge"
                     ELSE IF n = 0 /\ ~eof THEN "stalled"
                     ELSE IF eof THEN "ok" ELSE "reading"
    /\ UNCHANGED <<reader, size, entries, listed, taken>>

-----------------------------------------------------------------------------
(* A Markdown bundle: index.md as above, then the assets.  Every asset has  *)
(* one byte.                                                               *)

directory_names ==
    /\ phase = "listing"
    /\ listed' = entries
    /\ phase' = IF Cardinality(entries) > maximum_assets THEN "tooLarge" ELSE "assets"
    /\ UNCHANGED <<reader, size, entries, got, taken>>

read_markdown_asset ==
    /\ phase = "assets"
    /\ \E name \in listed \ taken :
         IF name \notin entries THEN phase' = "io" /\ UNCHANGED <<got, taken>>
         ELSE IF got + 1 > maximum_bytes THEN phase' = "tooLarge" /\ UNCHANGED <<got, taken>>
         ELSE got' = got + 1 /\ taken' = taken \cup {name} /\ UNCHANGED phase
    /\ UNCHANGED <<reader, size, entries, listed>>

\* The names are listed once more behind the last asset.
ListAgain ==
    /\ phase = "assets" /\ taken = listed
    /\ phase' = IF entries = listed THEN "ok" ELSE "changed"
    /\ UNCHANGED <<reader, size, entries, got, listed, taken>>

-----------------------------------------------------------------------------
(* Others.                                                                 *)

AppendToFile ==
    /\ Running /\ reader = "file" /\ size < LargestSource
    /\ size' = size + 1
    /\ UNCHANGED <<reader, entries, got, listed, taken, phase>>

EditBundle ==
    /\ Running /\ reader = "bundle"
    /\ \E name \in Assets : entries' = (entries \ {name}) \cup ({name} \ entries)
    /\ UNCHANGED <<reader, size, got, listed, taken, phase>>

ReadsInit ==
    /\ reader \in {"file", "pdf", "bundle"}
    /\ size \in 0..LargestSource
    /\ entries \in SUBSET Assets
    /\ got = 0 /\ listed = {} /\ taken = {}
    /\ phase = "open"

ReadsNext ==
    \/ OpenFile \/ read_bounded_open_file
    \/ read_pdf_stream
    \/ directory_names \/ read_markdown_asset \/ ListAgain
    \/ AppendToFile \/ EditBundle

ReadsSpec == ReadsInit /\ [][ReadsNext]_readVars

-----------------------------------------------------------------------------
\* A read that succeeds has everything there was at its end and no more than
\* the limit, and a read that is refused for size had more than the limit to
\* read, however the source grows under it and whatever sizes the single reads
\* have (read_bounded_open_file, read_pdf_stream, the second listing of
\* read_markdown_bundle_with_limits).
ReadsAreWhole ==
    /\ phase = "ok" =>
         /\ got <= maximum_bytes
         /\ got = size + Cardinality(taken)
         /\ reader = "bundle" => taken = entries
    /\ phase = "tooLarge" =>
         \/ size + Cardinality(listed) > maximum_bytes
         \/ Cardinality(listed) > maximum_assets

=============================================================================

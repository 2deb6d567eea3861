--------------------------- MODULE DerivedFormats ---------------------------
(***************************************************************************)
(* ArtifactService::export and export_capture: reading a captured HTML     *)
(* artifact, proving it anew or against the capture's own record, deriving *)
(* the requested formats under one aggregate limit, and committing them    *)
(* together.  The artifact is a file that others may replace at any time;  *)
(* the service may be shut down at any time.                               *)
(*                                                                         *)
(* The transaction that writes the formats is ExportTransaction; here it   *)
(* commits everything or nothing.                                          *)
(***************************************************************************)
EXTENDS Integers, FiniteSets, SequencesExt

CONSTANTS
    MAXIMUM_EXPORT_BYTES,
    MAXIMUM_MARKDOWN_ASSETS,
    FormatBytes,     \* sizes a format may have
    AssetCounts      \* assets a Markdown bundle may have

Formats == {"Pdf", "Markdown", "Zip"}  \* Zip stands for the one-file formats
Contents == {"captured", "replaced", "broken"}
None == "none"

VARIABLES
    stored,     \* the content of the artifact's file
    asked,      \* the request: [how, formats]
    receipt,    \* the capture's verification record: [of, mode]
    natural,    \* format |-> [bytes, files], what the renderers produce
    call,       \* where the call stands, and how it ended
    source,     \* the bytes read
    evidence,   \* the verification record the export relies on
    remaining,  \* ArtifactTransactionLimits still free
    prepared,   \* formats prepared so far
    page,       \* a runtime page is open
    staged,     \* temporary artifacts on disk
    closing,    \* the service is shutting down
    proved,     \* contents a browser has verified offline
    committed   \* what the transaction wrote

formatVars == <<stored, asked, receipt, natural, call, source, evidence, remaining, prepared,
                page, staged, closing, proved, committed>>

Ended == {"committed", "invalid", "unreadable", "unverified", "limit", "failed", "cancelled"}
Limits(files, bytes) == [files |-> files, bytes |-> bytes]
FullLimits == Limits(MAXIMUM_MARKDOWN_ASSETS + 1, MAXIMUM_EXPORT_BYTES)
Record(of, mode) == [of |-> of, mode |-> mode]

\* A call that ends drops its temporary files with the stack; a page is closed
\* by the step that opened it.
Ends(how) == call' = how /\ staged' = FALSE

----------------------------------------------------------------------------
(* Requests.                                                               *)

validate_export_request(formats) ==
    formats # <<>> /\ Cardinality(ToSet(formats)) = Len(formats)

Begin ==
    /\ call = "idle"
    /\ call' = IF closing \/ ~validate_export_request(asked.formats) THEN "invalid" ELSE "reading"
    /\ UNCHANGED <<stored, asked, receipt, natural, source, evidence, remaining, prepared, page,
                   staged, closing, proved, committed>>

\* A capture kept in memory brings its bytes; a file is read when it is needed.
read_input ==
    /\ call = "reading"
    /\ \/ /\ source' = IF asked.how = "captureBytes" THEN "captured" ELSE stored
          /\ call' = "proving"
       \/ asked.how # "captureBytes" /\ call' = "unreadable" /\ UNCHANGED source
    /\ UNCHANGED <<stored, asked, receipt, natural, evidence, remaining, prepared, page, staged,
                   closing, proved, committed>>

----------------------------------------------------------------------------
(* The proof.                                                              *)

\* Mutation: any offline record will do.
AnyOfflineRecord(content, verification) == verification.mode = "Offline"

\* OfflineHtmlArtifact::from_static_proof.
from_static_proof(content, verification) ==
    verification.mode = "Offline" /\ verification.of = content

\* verify_html of the bytes, then the way of each entry point.
verify_html ==
    /\ call = "proving"
    /\ IF source = "broken" THEN call' = "unverified" /\ UNCHANGED evidence
       ELSE IF asked.how = "export" THEN call' = "staging" /\ UNCHANGED evidence
       ELSE /\ evidence' = receipt
            /\ call' = IF from_static_proof(source, receipt) THEN "formats" ELSE "unverified"
    /\ UNCHANGED <<stored, asked, receipt, natural, source, remaining, prepared, page, staged,
                   closing, proved, committed>>

\* stage_temporary_artifact, for the offline check or for printing.
stage_temporary_artifact ==
    /\ call \in {"staging", "printStaging"}
    /\ \/ staged' = TRUE /\ call' = IF call = "staging" THEN "opening" ELSE "printOpening"
       \/ Ends("failed")
    /\ UNCHANGED <<stored, asked, receipt, natural, source, evidence, remaining, prepared, page,
                   closing, proved, committed>>

open_verifier ==
    /\ call \in {"opening", "printOpening"}
    /\ \/ /\ ~closing
          /\ page' = TRUE
          /\ call' = IF call = "opening" THEN "observing" ELSE "printing"
          /\ UNCHANGED staged
       \/ Ends(IF closing THEN "cancelled" ELSE "failed") /\ UNCHANGED page
    /\ UNCHANGED <<stored, asked, receipt, natural, source, evidence, remaining, prepared, closing,
                   proved, committed>>

\* offline_verification_result: no attempted request, no page error, stable.
\* The select is biased to the cancellation; the page is closed in every case.
verify_offline ==
    /\ call = "observing"
    /\ page' = FALSE
    /\ \/ /\ ~closing
          /\ evidence' = Record(source, "Offline")
          /\ proved' = proved \cup {source}
          /\ call' = IF from_static_proof(source, evidence') THEN "formats" ELSE "unverified"
          /\ staged' = FALSE
       \/ Ends(IF closing THEN "cancelled" ELSE "unverified") /\ UNCHANGED <<evidence, proved>>
    /\ UNCHANGED <<stored, asked, receipt, natural, source, remaining, prepared, closing, committed>>

----------------------------------------------------------------------------
(* The formats.                                                            *)

Current == asked.formats[Len(prepared) + 1]

\* Mutation: the entry point of a bundle is charged with its assets and again.
ChargesEntryTwice(limits, made) ==
    Limits(limits.files - made.files - (IF made.files > 1 THEN 1 ELSE 0), limits.bytes - made.bytes)

\* charge_export; a negative result is the error.
charge_export(limits, made) == Limits(limits.files - made.files, limits.bytes - made.bytes)

\* What preparing a format refuses by itself: a PDF or a bundle that is larger
\* than what is left, a bundle with more assets than files are left for.
PreparedWithin(format, made) ==
    CASE format = "Pdf" -> made.bytes <= remaining.bytes
      [] format = "Markdown" ->
           /\ made.files - 1 <= (IF remaining.files = 0 THEN 0 ELSE remaining.files - 1)
           /\ made.bytes <= remaining.bytes
      [] format = "Zip" -> TRUE

Charge ==
    LET made == natural[Current]
        left == charge_export(remaining, made)
    IN IF ~PreparedWithin(Current, made) \/ left.files < 0 \/ left.bytes < 0
         THEN call' = "limit" /\ UNCHANGED <<remaining, prepared>>
         ELSE /\ remaining' = left
              /\ prepared' = Append(prepared, [format |-> Current, of |-> source])
              /\ call' = "formats"

\* export_validated's loop: PDF is printed by a browser, the rest is derived
\* from the bytes at hand (prepare_markdown, prepare_zip and so on).
prepare_format ==
    /\ call = "formats"
    /\ Len(prepared) < Len(asked.formats)
    /\ \/ /\ Current = "Pdf"
          /\ call' = "printStaging"
          /\ UNCHANGED <<remaining, prepared>>
       \/ Current # "Pdf" /\ Charge
       \/ Current # "Pdf" /\ call' = "failed" /\ UNCHANGED <<remaining, prepared>>
    /\ UNCHANGED <<stored, asked, receipt, natural, source, evidence, page, staged, closing, proved,
                   committed>>

\* render_pdf: the print-media check, printing, and closing the page whatever
\* came of them.
render_pdf ==
    /\ call = "printing"
    /\ page' = FALSE
    /\ \/ ~closing /\ Charge
       \/ /\ call' = IF closing THEN "cancelled" ELSE "failed"
          /\ UNCHANGED <<remaining, prepared>>
    /\ staged' = FALSE
    /\ UNCHANGED <<stored, asked, receipt, natural, source, evidence, closing, proved, committed>>

\* prepare_export_directory and the transaction.
CommitFormats ==
    /\ call = "formats"
    /\ Len(prepared) = Len(asked.formats)
    /\ \/ committed' = prepared /\ call' = "committed"
       \/ call' = "failed" /\ UNCHANGED committed
    /\ UNCHANGED <<stored, asked, receipt, natural, source, evidence, remaining, prepared, page,
                   staged, closing, proved>>

----------------------------------------------------------------------------
(* Others.                                                                 *)

ReplaceArtifact ==
    /\ call \in {"idle", "reading", "proving"}
    /\ \E content \in Contents \ {stored} : stored' = content
    /\ UNCHANGED <<asked, receipt, natural, call, source, evidence, remaining, prepared, page,
                   staged, closing, proved, committed>>

Shutdown ==
    /\ ~closing
    /\ closing' = TRUE
    /\ UNCHANGED <<stored, asked, receipt, natural, call, source, evidence, remaining, prepared,
                   page, staged, proved, committed>>

Sizes == [bytes : FormatBytes, files : {1}]
BundleSizes == [bytes : FormatBytes, files : {1 + n : n \in AssetCounts}]

FormatsInit ==
    /\ stored = "captured"
    /\ asked \in [how : {"export", "captureFile", "captureBytes"},
                  formats : {s \in BoundedSeq(Formats, 3) : Len(s) < 3 \/ validate_export_request(s)}]
    /\ receipt \in {Record("captured", mode) : mode \in {"Static", "Offline"}}
    /\ natural \in {[f \in Formats |-> CASE f = "Pdf" -> p [] f = "Markdown" -> b [] f = "Zip" -> z] :
                    p \in Sizes, b \in BundleSizes, z \in Sizes}
    /\ call = "idle"
    /\ source = None
    /\ evidence = Record(None, None)
    /\ remaining = FullLimits
    /\ prepared = <<>>
    /\ page = FALSE /\ staged = FALSE /\ closing = FALSE
    /\ proved = IF receipt.mode = "Offline" THEN {"captured"} ELSE {}
    /\ committed = <<>>

FormatsNext ==
    \/ Begin \/ read_input
    \/ verify_html \/ stage_temporary_artifact \/ open_verifier \/ verify_offline
    \/ prepare_format \/ render_pdf \/ CommitFormats
    \/ ReplaceArtifact \/ Shutdown

FormatsSpec == FormatsInit /\ [][FormatsNext]_formatVars

----------------------------------------------------------------------------
\* Every format that is written was derived from bytes a browser has verified
\* offline, also when the artifact's file was replaced after its capture or
\* while the call ran (from_static_proof compares the record with the bytes
\* that were read), and a call that ends leaves no page and no temporary
\* artifact behind, whichever step failed or was cancelled.
DerivedFromVerified ==
    /\ \A i \in DOMAIN committed : committed[i].of \in proved
    /\ call \in Ended => ~page /\ ~staged

\* One limit for all formats together: the call is refused for size exactly
\* when the formats it asked for exceed the bytes or the files of one export
\* (charge_export and the limits it hands to each renderer).
LimitIsAggregate ==
    LET bytes == FoldLeft(LAMBDA n, f : n + natural[f].bytes, 0, asked.formats)
        files == FoldLeft(LAMBDA n, f : n + natural[f].files, 0, asked.formats)
        fits == bytes <= FullLimits.bytes /\ files <= FullLimits.files
    IN (call = "committed" => fits) /\ (call = "limit" => ~fits)

=============================================================================

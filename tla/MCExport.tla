------------------------------ MODULE MCExport ------------------------------
(***************************************************************************)
(* Instances of ExportTransaction: two artifacts, a file and a directory.  *)
(***************************************************************************)
EXTENDS ExportTransaction

MCEntryKind == <<"File", "Directory">>

File(b) == [kind |-> "File", bytes |-> b]
Folder(b) == [kind |-> "Directory", bytes |-> b]

\* No directory, an empty one, and one with both names taken and a bystander
\* (an edit may free one of the names).
MCOutputs ==
    {Missing, EmptyDirectory,
     [EmptyDirectory EXCEPT ![<<0, 0>>] = File(Foreign),
                            ![<<1, 0>>] = File(Foreign),
                            ![<<2, 0>>] = Folder(Foreign)]}

MCTaken ==
    {[EmptyDirectory EXCEPT ![<<1, 0>>] = File(Foreign),
                            ![<<2, 0>>] = Folder(Foreign)]}
\* Someone else may write at any point but "restore" (see the run that covers
\* it).
MCEditPoints == Points \ {"restore"}
NoPoints == {}
RestoreWindow == {"restore"}
=============================================================================

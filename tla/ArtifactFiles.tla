--------------------------- MODULE ArtifactFiles ---------------------------
(***************************************************************************)
(* The end of a capture, for several captures that write to one directory: *)
(* the artifact is encoded into a staging file beside its destination, read *)
(* back, verified, hashed again and made visible under the conflict policy  *)
(* of the request (pipeline::artifact::finalize, FileArtifactWriter,        *)
(* StagedFileArtifact, MemoryArtifactWriter).                               *)
(*                                                                         *)
(* Name 0 is the requested destination, name i its candidate with suffix i. *)
(* Content is abstracted to its length and to whether its bytes are those   *)
(* that were encoded.  Other programs may create and delete files in the    *)
(* directory at any time, and may damage a staging file until it is hashed; *)
(* the moment between the last check of the staging file and the rename is   *)
(* outside this fault model.                                                *)
(***************************************************************************)
EXTENDS Naturals, FiniteSets

CONSTANTS Artifacts,       \* the captures that finish at the same time
          Policies,        \* conflict policies of the requests, or "Memory"
          MaxSuffix,       \* candidates of a uniquified name
          artifact_bytes,  \* request.limits.artifact_bytes
          MaxEncoded,      \* the longest document that is encoded
          MaxDamage        \* how often another program damages a staging file

VARIABLES finalizing,      \* the step a capture has reached
          conflict,        \* its conflict policy
          encoded,         \* bytes written and hashed by the writer
          stagedFile,      \* length and integrity of the staged bytes, and
                           \* whether the staging path still names them
          suffix,          \* the candidate persist_unique tries next
          receipt,         \* what the caller was told
          published,       \* the content a capture made visible
          destinations,    \* what every name of the directory holds
          damage

fileVars == <<finalizing, conflict, encoded, stagedFile, suffix, receipt, published,
              destinations, damage>>

CandidateNames == 0..MaxSuffix
Unpublished == [bytes |-> 0, intact |-> FALSE]

FilesInit ==
  /\ finalizing = [a \in Artifacts |-> "create"]
  /\ conflict \in [Artifacts -> Policies]
  /\ encoded = [a \in Artifacts |-> 0]
  /\ stagedFile = [a \in Artifacts |-> [bytes |-> 0, intact |-> TRUE, linked |-> FALSE]]
  /\ suffix = [a \in Artifacts |-> 0]
  /\ receipt = [a \in Artifacts |-> "none"]
  /\ published = [a \in Artifacts |-> Unpublished]
  /\ destinations \in [CandidateNames -> {"none", "file", "link"}]
  /\ damage = 0

Reaches(a, step) == finalizing' = [finalizing EXCEPT ![a] = step]

\* An error, or the drop of a cancelled future: the staging file is unlinked.
Refuse(a, how) ==
  /\ Reaches(a, "over")
  /\ receipt' = [receipt EXCEPT ![a] = how]
  /\ stagedFile' = [stagedFile EXCEPT ![a].linked = FALSE]
  /\ UNCHANGED <<conflict, encoded, suffix, published, destinations, damage>>

Proceed(a, step) ==
  /\ Reaches(a, step)
  /\ UNCHANGED <<conflict, encoded, stagedFile, suffix, receipt, published, destinations, damage>>

-----------------------------------------------------------------------------
\* FileArtifactWriter::create looks at the destination once, long before commit.
validate_destination(a) ==
  \/ destinations[0] = "none"
  \/ conflict[a] \in {"Uniquify", "Memory"}
  \/ conflict[a] = "Replace" /\ destinations[0] # "link"

CreateWriter(a) ==
  /\ finalizing[a] = "create"
  /\ \/ /\ validate_destination(a)
        /\ Reaches(a, "encode")
        /\ stagedFile' = [stagedFile EXCEPT ![a].linked = conflict[a] # "Memory"]
        /\ UNCHANGED <<conflict, encoded, suffix, receipt, published, destinations, damage>>
     \/ conflict[a] # "Memory" /\ Refuse(a, "failed")

\* PreparedWriter::write refuses the write that would pass the limit.
WriteEncoded(a) ==
  /\ finalizing[a] = "encode" /\ encoded[a] < MaxEncoded
  /\ IF encoded[a] + 1 > artifact_bytes THEN Refuse(a, "failed")
     ELSE /\ encoded' = [encoded EXCEPT ![a] = @ + 1]
          /\ stagedFile' = [stagedFile EXCEPT ![a].bytes = @ + 1]
          /\ UNCHANGED <<finalizing, conflict, suffix, receipt, published, destinations, damage>>

FinishWriter(a) ==
  /\ finalizing[a] = "encode" /\ encoded[a] > 0
  /\ \/ Proceed(a, "readback")
     \/ Refuse(a, "failed")

\* StagedFileArtifact::read_all: only the length is compared here.
Readback(a) ==
  /\ finalizing[a] = "readback"
  /\ IF stagedFile[a].bytes = encoded[a] THEN Proceed(a, "verify") ELSE Refuse(a, "failed")

\* Static, and if requested offline, verification of the bytes that were read.
\* Damaged bytes may happen to verify.
VerifyReadback(a) ==
  /\ finalizing[a] = "verify"
  /\ Proceed(a, "claim") \/ Refuse(a, "failed")

\* A cancellation is seen at the next check, at the latest by claim_commit.
SeeCancelled(a) ==
  /\ finalizing[a] \in {"encode", "readback", "verify", "claim"}
  /\ Refuse(a, "cancelled")

ClaimCommit(a) ==
  /\ finalizing[a] = "claim"
  /\ Proceed(a, IF conflict[a] = "Memory" THEN "memory" ELSE "identity")

\* MemoryArtifact::into_result.
CommitMemory(a) ==
  /\ finalizing[a] = "memory"
  /\ Reaches(a, "over")
  /\ receipt' = [receipt EXCEPT ![a] = "committed"]
  /\ UNCHANGED <<conflict, encoded, stagedFile, suffix, published, destinations, damage>>

\* The parent directory is opened and the staging path still names the open file.
validate_staging_path_identity(a) ==
  /\ finalizing[a] = "identity"
  /\ \/ stagedFile[a].linked /\ Proceed(a, "hash")
     \/ Refuse(a, "failed")

HashLengthOnly(a) ==
  /\ finalizing[a] = "hash"
  /\ IF stagedFile[a].linked /\ stagedFile[a].bytes = encoded[a]
     THEN Proceed(a, "persist") ELSE Refuse(a, "failed")

\* validate_staged_contents: the open file is read again, its length, a trailing
\* byte, its digest and then once more its path are compared.
validate_staged_contents(a) ==
  /\ finalizing[a] = "hash"
  /\ IF stagedFile[a].linked /\ stagedFile[a].bytes = encoded[a] /\ stagedFile[a].intact
     THEN Proceed(a, "persist") ELSE Refuse(a, "failed")

\* The rename of the staging file.
Publishes(a, name) ==
  /\ destinations' = [destinations EXCEPT ![name] = a]
  /\ published' = [published EXCEPT ![a] = [bytes |-> stagedFile[a].bytes,
                                            intact |-> stagedFile[a].intact]]
  /\ stagedFile' = [stagedFile EXCEPT ![a].linked = FALSE]
  /\ Reaches(a, "sync")
  /\ UNCHANGED <<conflict, encoded, suffix, receipt, damage>>

PersistOver(a) ==
  /\ finalizing[a] = "persist" /\ conflict[a] = "Fail"
  /\ Publishes(a, 0) \/ Refuse(a, "failed")

persist_noclobber(a) ==
  /\ finalizing[a] = "persist" /\ conflict[a] = "Fail"
  /\ \/ destinations[0] = "none" /\ Publishes(a, 0)
     \/ Refuse(a, "failed")

persist_replace(a) ==
  /\ finalizing[a] = "persist" /\ conflict[a] = "Replace"
  /\ Publishes(a, 0) \/ Refuse(a, "failed")

\* persist_unique: the next candidate, as long as one is taken.
persist_unique(a) ==
  /\ finalizing[a] = "persist" /\ conflict[a] = "Uniquify"
  /\ \/ destinations[suffix[a]] = "none" /\ Publishes(a, suffix[a])
     \/ /\ destinations[suffix[a]] # "none" /\ suffix[a] < MaxSuffix
        /\ suffix' = [suffix EXCEPT ![a] = @ + 1]
        /\ UNCHANGED <<finalizing, conflict, encoded, stagedFile, receipt, published,
                       destinations, damage>>
     \/ Refuse(a, "failed")

\* A failed synchronisation of the directory is not a failed commit.
sync_parent_directory(a) ==
  /\ finalizing[a] = "sync"
  /\ Reaches(a, "over")
  /\ receipt' = [receipt EXCEPT ![a] = "committed"]
  /\ UNCHANGED <<conflict, encoded, stagedFile, suffix, published, destinations, damage>>

-----------------------------------------------------------------------------
(* Other programs, and the end of the process (external). *)

ForeignFile(name) ==
  /\ destinations' \in {[destinations EXCEPT ![name] = "file"], [destinations EXCEPT ![name] = "none"]}
  /\ destinations' # destinations
  /\ destinations[name] = "none" \/ destinations'[name] = "none"
  /\ UNCHANGED <<finalizing, conflict, encoded, stagedFile, suffix, receipt, published, damage>>

DamageStaging(a) ==
  /\ finalizing[a] \in {"readback", "verify", "claim", "identity", "hash"}
  /\ conflict[a] # "Memory" /\ damage < MaxDamage
  /\ damage' = damage + 1
  /\ \/ stagedFile' = [stagedFile EXCEPT ![a].intact = FALSE]
     \/ stagedFile' = [stagedFile EXCEPT ![a].intact = FALSE, ![a].bytes = @ + 1]
     \/ stagedFile' = [stagedFile EXCEPT ![a].linked = FALSE]
  /\ UNCHANGED <<finalizing, conflict, encoded, suffix, receipt, published, destinations>>

ProcessEnds(a) ==
  /\ finalizing[a] # "over"
  /\ Reaches(a, "over")
  /\ receipt' = [receipt EXCEPT ![a] = "lost"]
  /\ UNCHANGED <<conflict, encoded, stagedFile, suffix, published, destinations, damage>>

FilesNext ==
  \/ \E a \in Artifacts :
       \/ CreateWriter(a) \/ WriteEncoded(a) \/ FinishWriter(a) \/ Readback(a)
       \/ VerifyReadback(a) \/ SeeCancelled(a) \/ ClaimCommit(a) \/ CommitMemory(a)
       \/ validate_staging_path_identity(a) \/ validate_staged_contents(a)
       \/ persist_noclobber(a) \/ persist_replace(a) \/ persist_unique(a)
       \/ sync_parent_directory(a) \/ DamageStaging(a) \/ ProcessEnds(a)
  \/ \E name \in CandidateNames : ForeignFile(name)

FilesSpec == FilesInit /\ [][FilesNext]_fileVars

\* The documents stay within artifact_bytes, and the names tried within MaxSuffix.
FilesTypeOK ==
  /\ encoded \in [Artifacts -> 0..artifact_bytes]
  /\ suffix \in [Artifacts -> CandidateNames]
  /\ receipt \in [Artifacts -> {"none", "failed", "cancelled", "committed", "lost"}]
  /\ destinations \in [CandidateNames -> {"none", "file", "link"} \cup Artifacts]

-----------------------------------------------------------------------------
\* A capture that its caller was told failed or was cancelled has made nothing
\* visible, and what any capture made visible is the whole document it encoded and
\* verified, however captures, other programs and a crash interleave
\* (finalize, validate_staged_contents, commit_with_parent_sync).
VisibleMeansCommitted ==
  \A a \in Artifacts :
    published[a] # Unpublished =>
      /\ receipt[a] \in {"none", "committed", "lost"}
      /\ published[a] = [bytes |-> encoded[a], intact |-> TRUE]

\* Unless its policy is Replace, a capture never takes the place of a file,
\* not even of one that appeared after validate_destination looked
\* (persist_noclobber, persist_unique).
ClobbersNothing ==
  \A a \in Artifacts, name \in CandidateNames :
    /\ destinations[name] # a /\ destinations'[name] = a
    /\ conflict[a] # "Replace"
    => destinations[name] = "none"
=============================================================================

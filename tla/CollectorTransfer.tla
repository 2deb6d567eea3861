------------------------- MODULE CollectorTransfer -------------------------
(***************************************************************************)
(* Moving one frame observation from the collector in the page to the      *)
(* host: handshake and negotiation, prepare, a descriptor the host turns   *)
(* into a TransferPlan, one read, push and acknowledge per chunk, release. *)
(* Each call crosses the CDP session and may fail; the page may load again *)
(* between two calls, which discards what the collector had stored; the    *)
(* capture may be cancelled between two calls, which drops the future.     *)
(* A byte of the payload is its index.                                     *)
(***************************************************************************)
EXTENDS Integers, Sequences, FiniteSets

CONSTANTS
    PayloadSizes,      \* encoded sizes of the observation
    HostChunkLimits,   \* limits.collector_chunk_bytes
    CollectorVersions, \* major versions a page's collector may report
    PayloadLimits      \* remaining observation bytes of the capture

VARIABLES
    observed,       \* size of the observation the page would prepare
    host_chunk, payload_limit, major,
    transfer,       \* where the host is
    observation,    \* stored by the collector: chunkCount, size, acknowledged
    plan,           \* TransferPlan
    next_sequence, assembled, pageFault

transferVars == <<observed, host_chunk, payload_limit, major, transfer, observation,
                  plan, next_sequence, assembled, pageFault>>

fixedInputs == <<observed, host_chunk, payload_limit, major>>

NoObservation == [chunkCount |-> 0, bytes |-> 0, acknowledged |-> {}]
NoPlan == [chunks |-> 0, encoded_bytes |-> 0, maximum_chunk_bytes |-> 0]

TransferInit ==
    /\ observed \in PayloadSizes
    /\ host_chunk \in HostChunkLimits
    /\ payload_limit \in PayloadLimits
    /\ major \in CollectorVersions
    /\ transfer = "handshake"
    /\ observation = NoObservation
    /\ plan = NoPlan
    /\ next_sequence = 0
    /\ assembled = <<>>
    /\ pageFault = FALSE

DivCeil(a, b) == (a + b - 1) \div b
AtLeastOne(n) == IF n > 1 THEN n ELSE 1

\* The collector echoes the host's limit, so the negotiated size is the host's.
handshake ==
    /\ transfer = "handshake"
    /\ transfer' = CASE major # 1 -> "protocol_major"
                     [] major = 1 /\ host_chunk = 0 -> "chunk_limit"
                     [] OTHER -> "prepare"
    /\ UNCHANGED <<fixedInputs, observation, plan, next_sequence, assembled, pageFault>>

\* prepare in the collector: the chunks of the stored bytes.
chunkCount(bytes, maximum) == AtLeastOne(DivCeil(bytes, maximum))

\* CollectorCommand::Prepare, its descriptor, and TransferPlan::new.
prepare ==
    LET chunks == chunkCount(observed, host_chunk)
    IN  /\ transfer = "prepare"
        /\ IF payload_limit < 1 \/ observed > payload_limit
             THEN transfer' = "payload_limit" /\ UNCHANGED <<observation, plan>>
             ELSE /\ observation' = [chunkCount |-> chunks, bytes |-> observed,
                                     acknowledged |-> {}]
                  /\ IF chunks # AtLeastOne(DivCeil(observed, host_chunk))
                       THEN transfer' = "chunk_total" /\ UNCHANGED plan
                       ELSE /\ transfer' = "read"
                            /\ plan' = [chunks |-> chunks, encoded_bytes |-> observed,
                                        maximum_chunk_bytes |-> host_chunk]
        /\ UNCHANGED <<fixedInputs, next_sequence, assembled, pageFault>>

Stored(bytes) == [i \in 1..bytes |-> i]

\* What read returns for a sequence number: the bytes of a subarray.
ReadPayload(sequence) ==
    LET offset == sequence * plan.maximum_chunk_bytes
        end == IF offset + plan.maximum_chunk_bytes < observation.bytes
                 THEN offset + plan.maximum_chunk_bytes ELSE observation.bytes
    IN  [i \in 1..(end - offset) |-> offset + i]

LastChunkFull(sequence) == plan.maximum_chunk_bytes

expected_chunk_bytes(sequence) ==
    IF sequence + 1 < plan.chunks
      THEN plan.maximum_chunk_bytes
      ELSE plan.encoded_bytes - plan.maximum_chunk_bytes * (plan.chunks - 1)

\* read, then ChunkAssembler::push; a collector that has no observation throws.
read_and_push ==
    LET chunk == ReadPayload(next_sequence)
        payload == assembled \o chunk
        last == next_sequence + 1 = plan.chunks
    IN  /\ transfer = "read" /\ next_sequence < plan.chunks
        /\ CASE observation = NoObservation -> transfer' = "unavailable" /\ UNCHANGED assembled
             [] observation # NoObservation /\ Len(chunk) # expected_chunk_bytes(next_sequence) ->
                  transfer' = "chunk_length" /\ UNCHANGED assembled
             [] observation # NoObservation /\ Len(chunk) = expected_chunk_bytes(next_sequence)
                  /\ last /\ payload # Stored(observation.bytes) ->
                  transfer' = "payload_digest" /\ UNCHANGED assembled
             [] OTHER -> transfer' = "acknowledge" /\ assembled' = payload
        /\ UNCHANGED <<fixedInputs, observation, plan, next_sequence, pageFault>>

acknowledge ==
    /\ transfer = "acknowledge"
    /\ IF observation = NoObservation
         THEN transfer' = "unavailable" /\ UNCHANGED <<observation, next_sequence>>
         ELSE /\ observation' = [observation EXCEPT !.acknowledged = @ \cup {next_sequence}]
              /\ next_sequence' = next_sequence + 1
              /\ transfer' = IF next_sequence' = plan.chunks THEN "complete" ELSE "read"
    /\ UNCHANGED <<fixedInputs, plan, assembled, pageFault>>

Broken == {"unavailable", "chunk_length", "payload_digest", "session"}

\* release follows a complete and a broken collection alike.
release ==
    /\ transfer \in Broken \cup {"complete"}
    /\ observation' = NoObservation
    /\ transfer' = IF transfer = "complete" THEN "observed" ELSE "failed"
    /\ UNCHANGED <<fixedInputs, plan, next_sequence, assembled, pageFault>>

\* A call fails with its session; release follows only a planned transfer.
SessionFails ==
    /\ transfer \in {"handshake", "prepare", "read", "acknowledge"}
    /\ pageFault' = TRUE
    /\ transfer' = IF transfer \in {"handshake", "prepare"} THEN "failed" ELSE "session"
    /\ UNCHANGED <<fixedInputs, observation, plan, next_sequence, assembled>>

\* release itself fails: the observation was complete and is not used.
ReleaseFails ==
    /\ transfer \in Broken \cup {"complete"}
    /\ pageFault' = TRUE
    /\ transfer' = "failed"
    /\ UNCHANGED <<fixedInputs, observation, plan, next_sequence, assembled>>

\* A navigation gives the page a new collector without stored observations.
PageReloads ==
    /\ observation # NoObservation /\ ~pageFault
    /\ observation' = NoObservation
    /\ pageFault' = TRUE
    /\ UNCHANGED <<fixedInputs, transfer, plan, next_sequence, assembled>>

\* The job is cancelled: the collection future is dropped where it waits.
CollectionCancelled ==
    /\ transfer \in {"handshake", "prepare", "read", "acknowledge", "complete"}
    /\ transfer' = "cancelled"
    /\ UNCHANGED <<fixedInputs, observation, plan, next_sequence, assembled, pageFault>>

TransferNext ==
    \/ handshake \/ prepare \/ read_and_push \/ acknowledge \/ release
    \/ SessionFails \/ ReleaseFails \/ PageReloads \/ CollectionCancelled

TransferSpec == TransferInit /\ [][TransferNext]_transferVars

\* Types; the sequence asked for and those acknowledged are within the plan.
TransferTypeOK ==
    /\ transfer \in {"handshake", "prepare", "read", "acknowledge", "complete", "observed",
                     "failed", "cancelled", "protocol_major", "chunk_limit", "chunk_total",
                     "payload_limit"} \cup Broken
    /\ next_sequence \in 0..plan.chunks
    /\ observation.acknowledged \subseteq 0..(observation.chunkCount)

\* Host and collector agree on every chunk: unless the page or its session
\* fails, no transfer breaks and what the host decodes is the stored
\* observation, for every size around a multiple of the chunk size and for an
\* empty one (chunkCount, read, TransferPlan::new, expected_chunk_bytes).
AgreedChunks ==
    /\ transfer \in Broken \cup {"failed"} => pageFault
    /\ transfer # "chunk_total"
    /\ transfer = "observed" => assembled = Stored(observed)
=============================================================================

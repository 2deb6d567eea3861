--------------------------- MODULE SnapshotBudget ---------------------------
(***************************************************************************)
(* The payload budget of one collector snapshot.  snapshotDocument reserves*)
(* the frames, nodes and source bytes of a document, allocates bytes for   *)
(* what it adds (canvas and video pixels, CSSOM rules), recurses into the  *)
(* inline frames, serializes the clone within maximumDocumentBytes and     *)
(* settles the reservation in commitDocument.  JavaScript runs one such    *)
(* call at a time; the stack holds the reservations of the documents that  *)
(* are being snapshotted, outermost first.                                 *)
(***************************************************************************)
EXTENDS Integers, Sequences, FiniteSets

CONSTANTS maximumFrames, maximumFrameDepth, maximumNodes, maximumPayloadBytes

VARIABLES
    remainingFrames, remainingNodes, remainingPayloadBytes,
    reservations,      \* open SnapshotReservation records
    snapshot,          \* "running", "done", "failed", "limit" or "refused"
    payloadBytes       \* size of the serialized top document

snapshotVars == <<remainingFrames, remainingNodes, remainingPayloadBytes,
                  reservations, snapshot, payloadBytes>>

Sizes == 0..maximumPayloadBytes

SnapshotInit ==
    /\ remainingFrames = maximumFrames
    /\ remainingNodes = maximumNodes
    /\ remainingPayloadBytes = maximumPayloadBytes
    /\ reservations = <<>>
    /\ snapshot = "running"
    /\ payloadBytes = 0

Innermost == reservations[Len(reservations)]

SnapshotLimit ==
    /\ snapshot' = "limit"
    /\ UNCHANGED <<remainingFrames, remainingNodes, remainingPayloadBytes,
                   reservations, payloadBytes>>

\* A document with so many nodes and source bytes starts: the top document, or
\* an inline frame of the innermost one.
reserveDocument(nodes, bytes) ==
    /\ snapshot = "running"
    /\ IF \/ Len(reservations) > maximumFrameDepth
          \/ remainingFrames < 1
          \/ nodes > remainingNodes
          \/ bytes > remainingPayloadBytes
         THEN SnapshotLimit
         ELSE /\ remainingFrames' = remainingFrames - 1
              /\ remainingNodes' = remainingNodes - nodes
              /\ remainingPayloadBytes' = remainingPayloadBytes - bytes
              /\ reservations' = Append(reservations,
                   [allocated |-> 0, nested |-> 0, nestedNodes |-> 0, nestedFrames |-> 0,
                    nodes |-> nodes, source |-> bytes])
              /\ UNCHANGED <<snapshot, payloadBytes>>

\* reservePayloadAllocation of an upper bound, then settlePayloadAllocation of
\* what was used, as captureCanvasDataUrl, materializeVideo and
\* materializeCssRules do within one call; used = 0 when the encoding failed.
allocatePayload(upper, used) ==
    /\ snapshot = "running" /\ reservations # <<>>
    /\ IF upper > remainingPayloadBytes \/ used > remainingPayloadBytes
         THEN SnapshotLimit
         ELSE /\ remainingPayloadBytes' = remainingPayloadBytes - used
              /\ reservations' =
                   [reservations EXCEPT ![Len(reservations)].allocated = @ + used]
              /\ UNCHANGED <<remainingFrames, remainingNodes, snapshot, payloadBytes>>

DoublyAllocatedDocumentBytes(r) == 2 * r.allocated + r.nested + r.source + remainingPayloadBytes

maximumDocumentBytes(r) == r.allocated + r.nested + r.source + remainingPayloadBytes

\* What a document of so many serialized bytes adds to its nested documents.
ownPayloadBytes(r, bytes) == IF bytes > r.nested THEN bytes - r.nested ELSE 0

\* recordNestedSnapshot: the caller learns the size of the inline document.
WithNested(rs, r, bytes) ==
    [rs EXCEPT ![Len(rs)].nested = @ + bytes,
               ![Len(rs)].nestedNodes = @ + r.nodes + r.nestedNodes,
               ![Len(rs)].nestedFrames = @ + r.nestedFrames + 1]

\* The end of snapshotDocument: bounded serialization, then commitDocument.
commitDocument(bytes) ==
    LET r == Innermost
        adjustment == ownPayloadBytes(r, bytes) - r.source
        available == remainingPayloadBytes + r.allocated
        outer == SubSeq(reservations, 1, Len(reservations) - 1)
    IN  /\ snapshot = "running" /\ reservations # <<>>
        /\ CASE bytes > maximumDocumentBytes(r) -> SnapshotLimit
             [] bytes <= maximumDocumentBytes(r) /\ adjustment > available ->
                  /\ snapshot' = "refused"
                  /\ UNCHANGED <<remainingFrames, remainingNodes, remainingPayloadBytes,
                                 reservations, payloadBytes>>
             [] OTHER ->
                  /\ remainingPayloadBytes' = available - adjustment
                  /\ reservations' = IF outer = <<>> THEN <<>> ELSE WithNested(outer, r, bytes)
                  /\ snapshot' = IF outer = <<>> THEN "done" ELSE snapshot
                  /\ payloadBytes' = IF outer = <<>> THEN bytes ELSE payloadBytes
                  /\ UNCHANGED <<remainingFrames, remainingNodes>>

\* Any other error: copyInlineFrame turns the one of an inline document into a
\* warning and goes on without it; its reservation is not given back.
abandonDocument ==
    /\ snapshot = "running" /\ reservations # <<>>
    /\ reservations' = SubSeq(reservations, 1, Len(reservations) - 1)
    /\ snapshot' = IF Len(reservations) = 1 THEN "failed" ELSE snapshot
    /\ UNCHANGED <<remainingFrames, remainingNodes, remainingPayloadBytes, payloadBytes>>

SnapshotNext ==
    \/ /\ reservations = <<>> => remainingFrames = maximumFrames
       /\ \E nodes \in 1..(maximumNodes + 1), bytes \in Sizes : reserveDocument(nodes, bytes)
    \/ \E upper, used \in Sizes : allocatePayload(upper, used)
    \/ \E bytes \in 0..(maximumPayloadBytes + 1) : commitDocument(bytes)
    \/ abandonDocument

SnapshotSpec == SnapshotInit /\ [][SnapshotNext]_snapshotVars

\* No counter of the budget leaves its range, and no nesting its depth.
SnapshotTypeOK ==
    /\ remainingFrames \in 0..maximumFrames
    /\ remainingNodes \in 0..maximumNodes
    /\ remainingPayloadBytes \in 0..maximumPayloadBytes
    /\ Len(reservations) <= maximumFrameDepth + 1
    /\ snapshot \in {"running", "done", "failed", "limit", "refused"}

\* A document serialized within maximumDocumentBytes is never refused by
\* commitDocument afterwards, whatever was allocated and however its inline
\* documents were nested, pruned or abandoned.
CommitFits == snapshot # "refused"

\* The bytes taken from the budget cover the document that is handed over, so a
\* snapshot never exceeds the payload limit the host sent with prepare.
PayloadCovered ==
    snapshot = "done" => payloadBytes <= maximumPayloadBytes - remainingPayloadBytes
=============================================================================

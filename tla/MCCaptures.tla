----------------------------- MODULE MCCaptures -----------------------------
(***************************************************************************)
(* What a capture does and what schedules captures, each component on a    *)
(* small instance of its own: the registry of checkpoints, batches and     *)
(* crawls, then the stages of one capture from the frames of a page to the *)
(* files that are published and the formats derived from them.             *)
(*                                                                         *)
(* A behaviour is one of its component `part`. CheckpointRegistry keeps    *)
(* its own variables; the other components share no state, so they take    *)
(* turns in the variables x1, ..., x18.                                    *)
(***************************************************************************)
EXTENDS CheckpointRegistry, Integers, Sequences, TLC

CONSTANTS
    Parts,                        \* the components a run looks at
    d1, d2, direct, alias, other  \* destinations, and paths to them

VARIABLES part, x1, x2, x3, x4, x5, x6, x7, x8, x9, x10, x11, x12, x13, x14, x15, x16, x17, x18

\* Two spellings of one destination, and a path to another.
TwoSpellings == direct :> d1 @@ alias :> d1 @@ other :> d2

\* A batch that may be repeated and one that may not, and sites whose seed 2
\* links to 1 and 3.
BatchRequests == {[policy |-> "replace", retry_failed |-> TRUE],
                  [policy |-> "fail", retry_failed |-> FALSE]}

Request(links, pages, depth, retry) ==
    [site |-> links, maximum_pages |-> pages, maximum_depth |-> depth, retry_failed |-> retry]
Sites == {<<a, {1, 3}, b, {5}, {4}, {}>> : a \in {{3, 5}, {4, 5}}, b \in {{1, 4}, {5}}}
CrawlRequests ==
    {Request(links, 5, 2, FALSE) : links \in Sites}
    \cup {Request(<<{4, 5}, {1, 3}, {5}, {}, {}, {}>>, 4, 2, FALSE),
          Request(<<{6}, {1, 3}, {4}, {5}, {}, {}>>, 6, 3, TRUE)}

\* A style sheet and a sheet in a data URL that import each other, and an image.
PageUrls == {"c", "a", "p"}
PageReferences == << <<"c", "a", "p">>, <<"p">> >>
UrlSchemes == [u \in PageUrls |-> IF u = "a" THEN "data" ELSE "http"]
UrlKinds == [u \in PageUrls |-> IF u = "p" THEN "plain" ELSE "css"]
UrlBytes == [u \in PageUrls |-> 1]
UrlContent == [u \in PageUrls |-> u]
UrlNested == [u \in PageUrls |-> IF u = "c" THEN <<"a", "p">> ELSE IF u = "a" THEN <<"c">> ELSE <<>>]

\* Elements of a page, documents of its frames, and what its references became.
HeadElements == {"script", "json", "base", "policy", "ownPolicy", "trigger", "repairData"}
BodyElements == {"flow", "misnested", "handler", "image", "frame", "svgScript"}
FrameDocuments == {<<"flow">>, <<"misnested">>, <<"handler", "image">>, <<"frame">>}
Embedded(data, inner) == [outcome |-> "embedded", data |-> data, inner |-> inner]
Failed == [outcome |-> "failed", data |-> "empty", inner |-> <<>>]
ResolvedResources == {Failed, Embedded("s", <<Embedded("empty", <<>>), Failed>>)}

\* The conflict policies of two captures that finish together.
Rivals == {<<"Fail", "Fail">>, <<"Fail", "Replace">>, <<"Uniquify", "Replace">>,
           <<"Uniquify", "Uniquify">>, <<"Uniquify", "Memory">>}

StyleTokens ==
    {[type |-> t, value |-> <<>>] : t \in {"import", "space", "url", "imageSet", "open", "close"}}
    \cup {[type |-> "string", value |-> <<"a">>], [type |-> "string", value |-> <<"#">>],
          [type |-> "unquotedUrl", value |-> <<"b">>]}

Batch == INSTANCE BatchSchedule WITH
    request <- x1, file <- x2, disk <- x3, manifest <- x4, outcome <- x5,
    queue <- x6, running <- x7, phase <- x8, cancelled <- x9, crashes <- x10,
    failures <- x11, edits <- x12, NumJobs <- 3, Concurrency <- 2,
    Requests <- BatchRequests, MaxCrashes <- 2, MaxFailures <- 1,
    MaxEdits <- 1

Crawl == INSTANCE CrawlSchedule WITH
    request <- x1, file <- x2, disk <- x3, manifest <- x4, seen <- x5,
    active <- x6, results <- x7, phase <- x8, cancelled <- x9, crashes <- x10,
    failures <- x11, edits <- x12, Pages <- 1..6, Root <- 2,
    Requests <- CrawlRequests, Concurrency <- 2, MaxCrashes <- 1,
    MaxFailures <- 1, MaxEdits <- 1

Frames == INSTANCE FrameAssembly WITH
    owner <- x1, attached <- x2, pruned <- x3, descriptors <- x4,
    assembly <- x5, todo <- x6, frames <- x7, next_frame_id <- x8,
    rendered <- x9, Frames <- 1..4, frame_limit <- 3, depth_limit <- 2

Resolution == INSTANCE ResourceResolution WITH
    policy <- x1, frame <- x2, waiting <- x3, batch <- x4, prefetched <- x5,
    stack <- x6, call <- x7, returned <- x8, records <- x9, resources <- x10,
    failed_loads <- x11, received_bytes <- x12, total_bytes <- x13,
    entries <- x14, embedded_digests <- x15, cancelled <- x16,
    storeFault <- x17, outcome <- x18, References <- PageReferences,
    session <- <<"s1", "s2">>, Urls <- PageUrls, Schemes <- UrlSchemes,
    Kinds <- UrlKinds, Bytes <- UrlBytes, Content <- UrlContent,
    Nested <- UrlNested, Malformed <- {}, concurrent_resources <- 2,
    resource_recursion_depth <- 2, html_depth <- 1, max_resources <- 7,
    resource_limit <- 3, total_limit <- 5

Snapshot == INSTANCE SnapshotBudget WITH
    remainingFrames <- x1, remainingNodes <- x2, remainingPayloadBytes <- x3,
    reservations <- x4, snapshot <- x5, payloadBytes <- x6,
    maximumFrames <- 3, maximumFrameDepth <- 1, maximumNodes <- 3,
    maximumPayloadBytes <- 4

Transfer == INSTANCE CollectorTransfer WITH
    observed <- x1, host_chunk <- x2, payload_limit <- x3, major <- x4,
    transfer <- x5, observation <- x6, plan <- x7, next_sequence <- x8,
    assembled <- x9, pageFault <- x10, PayloadSizes <- 0..5,
    HostChunkLimits <- 0..3, CollectorVersions <- {1, 2},
    PayloadLimits <- {0, 2, 5}

Files == INSTANCE ArtifactFiles WITH
    finalizing <- x1, conflict <- x2, encoded <- x3, stagedFile <- x4,
    suffix <- x5, receipt <- x6, published <- x7, destinations <- x8,
    damage <- x9, Artifacts <- {"a1", "a2"},
    Policies <- {"Fail", "Replace", "Uniquify", "Memory"}, MaxSuffix <- 1,
    artifact_bytes <- 1, MaxEncoded <- 2, MaxDamage <- 1

Encoding == INSTANCE ArtifactEncoding WITH
    stage <- x1, page <- x2, document <- x3, manifest <- x4,
    HeadKinds <- HeadElements, BodyKinds <- BodyElements,
    FrameBodies <- FrameDocuments, MaxHead <- 1, MaxBody <- 2,
    MAXIMUM_INLINE_FRAME_DEPTH <- 1, Resources <- ResolvedResources

Rewriting == INSTANCE ReferenceRewriting WITH
    places <- x1, discovered <- x2, rewritten <- x3, Tokens <- StyleTokens,
    MaxTokens <- 3, Characters <- {"u", ",", " ", "(", ")"},
    MaxCharacters <- 4, Values <- {<<>>, <<"#", "x">>}, Maximum <- 3

Formats == INSTANCE DerivedFormats WITH
    stored <- x1, asked <- x2, receipt <- x3, natural <- x4, call <- x5,
    source <- x6, evidence <- x7, remaining <- x8, prepared <- x9,
    page <- x10, staged <- x11, closing <- x12, proved <- x13,
    committed <- x14, MAXIMUM_EXPORT_BYTES <- 2, MAXIMUM_MARKDOWN_ASSETS <- 1,
    FormatBytes <- {1}, AssetCounts <- {0, 1}

Reads == INSTANCE BoundedReads WITH
    reader <- x1, size <- x2, entries <- x3, got <- x4, listed <- x5,
    taken <- x6, phase <- x7, maximum_bytes <- 3, READ_BYTES <- 2,
    LargestSource <- 5, Assets <- {"a", "b", "c"}, maximum_assets <- 2
-----------------------------------------------------------------------------
captureVars ==
    <<vars, part, x1, x2, x3, x4, x5, x6, x7, x8, x9, x10, x11, x12, x13, x14, x15, x16, x17, x18>>

\* The variables a component leaves alone, from the n-th on.
Unused18 == x18 = 0
Unused17 == x17 = 0 /\ Unused18
Unused16 == x16 = 0 /\ Unused17
Unused15 == x15 = 0 /\ Unused16
Unused14 == x14 = 0 /\ Unused15
Unused13 == x13 = 0 /\ Unused14
Unused12 == x12 = 0 /\ Unused13
Unused11 == x11 = 0 /\ Unused12
Unused10 == x10 = 0 /\ Unused11
Unused9 == x9 = 0 /\ Unused10
Unused8 == x8 = 0 /\ Unused9
Unused7 == x7 = 0 /\ Unused8
Unused6 == x6 = 0 /\ Unused7
Unused5 == x5 = 0 /\ Unused6
Unused4 == x4 = 0 /\ Unused5
Unused3 == x3 = 0 /\ Unused4
Unused2 == x2 = 0 /\ Unused3
Unused1 == x1 = 0 /\ Unused2

CapturesInit ==
    /\ part \in Parts /\ Init
    /\ part # "checkpoints" => destination = [o \in Owners |-> d1]
    /\ \/ part = "checkpoints" /\ Unused1
       \/ part = "batch" /\ Batch!Init /\ Unused13
       \/ part = "crawl" /\ Crawl!Init /\ Unused13
       \/ part = "frames" /\ Frames!AssemblyInit /\ Unused10
       \/ part = "resolution" /\ Resolution!ResolutionInit
       \/ part = "snapshot" /\ Snapshot!SnapshotInit /\ Unused7
       \/ part = "transfer" /\ Transfer!TransferInit /\ Unused11
       \/ /\ part = "files" /\ Files!FilesInit /\ Unused10
          /\ <<x2["a1"], x2["a2"]>> \in Rivals
       \/ part = "encoding" /\ Encoding!EncodingInit /\ Unused5
       \/ part = "rewriting" /\ Rewriting!RewritingInit /\ Unused4
       \/ part = "formats" /\ Formats!FormatsInit /\ Unused15
       \/ part = "reads" /\ Reads!ReadsInit /\ Unused8

from18 == x18
from17 == <<from18, x17>>
from16 == <<from17, x16>>
from15 == <<from16, x15>>
from14 == <<from15, x14>>
from13 == <<from14, x13>>
from12 == <<from13, x12>>
from11 == <<from12, x11>>
from10 == <<from11, x10>>
from9 == <<from10, x9>>
from8 == <<from9, x8>>
from7 == <<from8, x7>>
from6 == <<from7, x6>>
from5 == <<from6, x5>>
from4 == <<from5, x4>>
from3 == <<from4, x3>>
from2 == <<from3, x2>>
from1 == <<from2, x1>>
Elsewhere(p) == part = p /\ UNCHANGED <<part, vars>>

RegistryStep == part = "checkpoints" /\ Next /\ UNCHANGED <<part, from1>>
BatchStep == Elsewhere("batch") /\ Batch!Next /\ UNCHANGED from13
CrawlStep == Elsewhere("crawl") /\ Crawl!Next /\ UNCHANGED from13
FramesStep == Elsewhere("frames") /\ Frames!AssemblyNext /\ UNCHANGED from10
ResolutionStep == Elsewhere("resolution") /\ Resolution!ResolutionNext
SnapshotStep == Elsewhere("snapshot") /\ Snapshot!SnapshotNext /\ UNCHANGED from7
TransferStep == Elsewhere("transfer") /\ Transfer!TransferNext /\ UNCHANGED from11
FilesStep == Elsewhere("files") /\ Files!FilesNext /\ UNCHANGED from10
EncodingStep == Elsewhere("encoding") /\ Encoding!EncodingNext /\ UNCHANGED from5
RewritingStep == Elsewhere("rewriting") /\ Rewriting!RewritingNext /\ UNCHANGED from4
FormatsStep == Elsewhere("formats") /\ Formats!FormatsNext /\ UNCHANGED from15
ReadsStep == Elsewhere("reads") /\ Reads!ReadsNext /\ UNCHANGED from8

CapturesNext == RegistryStep \/ BatchStep \/ CrawlStep \/ FramesStep \/ ResolutionStep \/ SnapshotStep \/ TransferStep \/ FilesStep \/ EncodingStep \/ RewritingStep \/ FormatsStep \/ ReadsStep

RegistryFairness ==
    /\ \A o \in Owners :
        /\ SF_vars(part = "checkpoints" /\ Lock(o))
        /\ WF_vars(part = "checkpoints" /\ shutdown /\ GiveUp(o))
        /\ WF_vars(part = "checkpoints" /\ Confirm(o))
        /\ WF_vars(part = "checkpoints" /\ EndWrite(o))
        /\ WF_vars(part = "checkpoints" /\ DropLease(o))
    /\ WF_vars(part = "checkpoints" /\ CancelShutdown)
    /\ WF_vars(part = "checkpoints" /\ Wait)

batchVars == Batch!vars
BatchFairness ==
    WF_batchVars(part = "batch" /\ Batch!Load) /\ WF_batchVars(part = "batch" /\ Batch!Step)

crawlVars == Crawl!vars
CrawlFairness ==
    /\ WF_crawlVars(part = "crawl" /\ Crawl!Call)
    /\ WF_crawlVars(part = "crawl" /\ Crawl!Step)

CapturesSpec ==
    /\ CapturesInit /\ [][CapturesNext]_captureVars
    /\ RegistryFairness /\ BatchFairness /\ CrawlFairness
-----------------------------------------------------------------------------
(* Schedules. OneWriter and SealedRegistry are those of CheckpointRegistry. *)

\* Every variable keeps its type, and every counter, buffer and budget its
\* limit.
StaysInBounds ==
    /\ part = "checkpoints" => TypeOK
    /\ part = "batch" => Batch!TypeOK
    /\ part = "crawl" => Crawl!TypeOK
    /\ part = "frames" => Frames!AssemblyTypeOK
    /\ part = "snapshot" => Snapshot!SnapshotTypeOK
    /\ part = "transfer" => Transfer!TransferTypeOK
    /\ part = "resolution" => Resolution!ResolutionTypeOK
    /\ part = "files" => Files!FilesTypeOK

\* A batch and a crawl accept whatever manifest an earlier call left. The
\* batch's manifest tells of no artifact that is not there (BatchSchedule); the
\* crawl's schedules pages in breadth-first order and forgets no link
\* (CrawlSchedule).
ManifestsHold ==
    /\ part = "batch" => Batch!ResumeAccepted /\ Batch!RecordsAreTrue
    /\ part = "crawl" => Crawl!ResumeAccepted /\ Crawl!BreadthFirst /\ Crawl!NoLinkForgotten

\* No step takes back what a manifest recorded: neither a capture whose
\* artifact is there (BatchSchedule) nor a page that was scheduled
\* (CrawlSchedule).
SchedulesKeepProgress ==
    [][/\ part = "batch" => Batch!KeepsProgress
       /\ part = "crawl" => Crawl!UnschedulesNothing]_captureVars

\* Owners are interchangeable: one of them stands for all.
Waiter == CHOOSE o \in Owners : TRUE

\* A waiter for a checkpoint's mutex gets it or gives up and the shutdown's
\* wait returns (CheckpointRegistry), a batch
\* that is called again gets every job done (BatchSchedule), and a crawl that
\* is called again gets through (CrawlSchedule).
SchedulesFinish ==
    (\/ part = "checkpoints" /\ (closed \/ stage[Waiter] = "waiting")
     \/ part = "batch" /\ Batch!Persistent
     \/ part = "crawl")
    ~>
    (\/ part = "checkpoints" /\ (closed => waited) /\ stage[Waiter] # "waiting"
     \/ part = "batch" /\ Batch!AllDone
     \/ part = "crawl" /\ Crawl!Through)
-----------------------------------------------------------------------------
(* One capture. *)

\* Frames are embedded in their own elements, and the artifact of a page of
\* which nothing was pruned passes the verifier's frame checks (FrameAssembly).
FramesVerify == part = "frames" => Frames!FramesInPlace /\ Frames!WholePageVerifies

\* A document that was serialized within its budget is not refused later
\* (SnapshotBudget), and host and collector agree on every chunk of it
\* (CollectorTransfer).
ObservationArrives ==
    /\ part = "snapshot" => Snapshot!CommitFits /\ Snapshot!PayloadCovered
    /\ part = "transfer" => Transfer!AgreedChunks

\* Every reference that got an identifier gets its one outcome unless the job
\* was cancelled or the content store failed (ResourceResolution).
ReferencesResolved == part = "resolution" => Resolution!IncompleteOnlyAfterFault

\* A URL that failed to load in a frame is never embedded there afterwards
\* (ResourceResolution).
FailedStaysFailed == [][part = "resolution" => Resolution!FailedStaysFailed]_captureVars

\* The verifier accepts what the encoder wrote, and the artifact opens as the
\* tree that was captured (ArtifactEncoding).
EncodedReopens == part = "encoding" => Encoding!EncodedVerifies /\ Encoding!ReopensAsCaptured

\* The verifier finds the replacements where the references were, and the
\* limit on references is exact (ReferenceRewriting).
RewriteRoundTrips ==
    part = "rewriting" => Rewriting!RewriteRoundTrips /\ Rewriting!LimitIsExact

\* What became visible is a whole verified document of a capture that did not
\* report a failure (ArtifactFiles).
VisibleMeansCommitted == part = "files" => Files!VisibleMeansCommitted

\* A capture replaces a file only under the Replace policy (ArtifactFiles).
NothingClobbered == [][part = "files" => Files!ClobbersNothing]_captureVars

\* Derived formats come from verified bytes and share one limit
\* (DerivedFormats), and a bounded read is whole or refused (BoundedReads).
ExportsFromVerified ==
    /\ part = "formats" => Formats!DerivedFromVerified /\ Formats!LimitIsAggregate
    /\ part = "reads" => Reads!ReadsAreWhole
=============================================================================

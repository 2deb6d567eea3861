---------------------------- MODULE CrawlSchedule ----------------------------
(***************************************************************************)
(* SchedulerService::crawl with a resume manifest: a breadth-first crawl   *)
(* that captures a few pages of one depth at a time, persists the manifest *)
(* after every page, and is called again after a crash, an error or a      *)
(* shutdown.                                                               *)
(*                                                                         *)
(* Pages are numbered in the order of their URLs. A site gives the links   *)
(* of each page after normalisation, origin and nofollow. Digests are      *)
(* numbers; a capture produces one that no file or record of the page has. *)
(***************************************************************************)
EXTENDS Integers, FiniteSets, Sequences, SequencesExt

CONSTANTS
    Pages,          \* pages, in URL order
    Root,           \* the seed
    Requests,       \* the sites, and the options they are crawled with
    Concurrency,    \* concurrency
    MaxCrashes,     \* bound: crashes, errors and shutdowns
    MaxFailures,    \* bound: captures that fail
    MaxEdits        \* bound: artifacts that are deleted or edited

VARIABLES
    request,     \* the site and the options, the same in every call
    file,        \* the digest of each page's artifact, 0 when there is none
    disk,        \* the persisted manifest, or NoManifest
    manifest,    \* the manifest in memory
    seen,        \* the URLs scheduled so far
    active,      \* the items being captured, then processed
    results,     \* the outcomes of active items
    phase,       \* where the crawl is
    cancelled,   \* the runtime is shutting down
    crashes, failures, edits

vars == <<request, file, disk, manifest, seen, active, results, phase, cancelled, crashes,
          failures, edits>>

site == request.site
MaximumPages == request.maximum_pages
MaximumDepth == request.maximum_depth
RetryFailed == request.retry_failed

NoManifest == [jobs |-> <<>>, frontier |-> <<>>, pending |-> <<>>]
Item(url, depth, ordinal) == [url |-> url, depth |-> depth, ordinal |-> ordinal]

Init ==
    /\ request \in Requests
    /\ file = [p \in Pages |-> 0]
    /\ disk = NoManifest /\ manifest = NoManifest
    /\ seen = {} /\ active = <<>> /\ results = <<>>
    /\ phase = "idle" /\ cancelled = FALSE
    /\ crashes = 0 /\ failures = 0 /\ edits = 0

Urls(items) == [i \in DOMAIN items |-> items[i].url]
Scheduled(m) == DOMAIN m.jobs \cup ToSet(Urls(m.frontier))
Without(f, keys) == [x \in DOMAIN f \ keys |-> f[x]]
With(f, key, value) == [x \in DOMAIN f \cup {key} |-> IF x = key THEN value ELSE f[x]]

\* sort_frontier
SortFrontier(items) ==
    SortSeq(items, LAMBDA a, b : \/ a.depth < b.depth
                                 \/ a.depth = b.depth /\ a.ordinal < b.ordinal)

\* A manifest persisted with the pending list it was loaded with.
WithPendingAsLoaded(m) == m

\* persist_crawl_pending: what is persisted lists the frontier again.
WithPending(m) == [m EXCEPT !.pending = Urls(m.frontier)]
-----------------------------------------------------------------------------
(* Loading. *)

NewManifest ==
    [jobs |-> <<>>, frontier |-> <<Item(Root, 0, 0)>>, pending |-> <<Root>>]

\* load_or_create_manifest, for the same plan
Loaded == IF disk.jobs = <<>> /\ disk.frontier = <<>> THEN NewManifest ELSE disk

\* The jobs and the frontier of a manifest, as items.
Items(m) ==
    {Item(p, m.jobs[p].depth, m.jobs[p].ordinal) : p \in DOMAIN m.jobs} \cup ToSet(m.frontier)

\* validate_crawl_manifest
Valid(m) ==
    /\ Cardinality(DOMAIN m.jobs) + Len(m.frontier) <= MaximumPages
    /\ \A x \in Items(m) :
        /\ x.depth <= MaximumDepth /\ x.ordinal < MaximumPages
        /\ (x.depth = 0 \/ x.ordinal = 0 \/ x.url = Root) => x = Item(Root, 0, 0)
    /\ Cardinality({x.url : x \in Items(m)}) = Cardinality(DOMAIN m.jobs) + Len(m.frontier)
    /\ Cardinality({x.ordinal : x \in Items(m)}) = Cardinality(DOMAIN m.jobs) + Len(m.frontier)
    /\ \E x \in Items(m) : x.ordinal = 0
    /\ m.pending = Urls(m.frontier)

\* resume_artifact_is_current, and retry_failed
Retry(m) ==
    {p \in DOMAIN m.jobs : IF m.jobs[p].status = "succeeded"
                           THEN file[p] # m.jobs[p].digest ELSE RetryFailed}

\* refresh_crawl_resume_state that keeps the pages it cannot reuse out of the
\* frontier.
RefreshForgetting(m) == [m EXCEPT !.jobs = Without(@, Retry(m))]

\* refresh_crawl_resume_state
Refresh(m) ==
    [m EXCEPT
        !.jobs = Without(@, Retry(m)),
        !.frontier = SortFrontier(@ \o SetToSeq({Item(p, m.jobs[p].depth, m.jobs[p].ordinal) :
                                                 p \in Retry(m)}))]

Load ==
    /\ phase \in {"idle", "done"}
    /\ IF Valid(Loaded)
       THEN /\ manifest' = WithPending(Refresh(Loaded))
            /\ seen' = Scheduled(manifest')
            /\ phase' = "persist"
       ELSE phase' = "rejected" /\ UNCHANGED <<manifest, seen>>
    /\ active' = <<>> /\ results' = <<>> /\ cancelled' = FALSE
    /\ UNCHANGED <<request, file, disk, crashes, failures, edits>>

\* persist_manifest_if_configured: an atomic replacement.
Persist ==
    /\ phase = "persist"
    /\ disk' = manifest
    /\ phase' = IF active = <<>> THEN "pick" ELSE "process"
    /\ UNCHANGED <<request, file, manifest, seen, active, results, cancelled, crashes,
                   failures, edits>>
-----------------------------------------------------------------------------
(* Crawling. *)

MinOf(a, b) == IF a < b THEN a ELSE b

\* The frontier items of the first depth.
LevelWidth(items) == Len(SelectSeq(items, LAMBDA x : x.depth = items[1].depth))

Pick ==
    /\ phase = "pick"
    /\ manifest.frontier # <<>> /\ Cardinality(DOMAIN manifest.jobs) < MaximumPages
    /\ LET frontier == SortFrontier(manifest.frontier)
           width == MinOf(Concurrency, MaximumPages - Cardinality(DOMAIN manifest.jobs))
       IN  /\ manifest' = [manifest EXCEPT !.frontier = frontier]
           /\ active' = SubSeq(frontier, 1, MinOf(width, LevelWidth(frontier)))
    /\ results' = <<>>
    /\ phase' = "capture"
    /\ UNCHANGED <<request, file, disk, seen, cancelled, crashes, failures, edits>>

\* The digest of a new capture: of no file and no record of that page.
NewDigest(p) ==
    CHOOSE d \in 1..3 : /\ d # file[p]
                        /\ p \in DOMAIN disk.jobs => d # disk.jobs[p].digest

\* job::run ends: a new artifact in place of the old one, or a failure, which
\* is what a cancelled capture ends in.
Succeed(i) ==
    LET p == active[i].url
    IN  /\ file' = [file EXCEPT ![p] = NewDigest(p)]
        /\ results' = With(results, i, [status |-> "succeeded", digest |-> NewDigest(p)])
        /\ UNCHANGED failures
FailCapture(i) ==
    /\ cancelled \/ failures < MaxFailures
    /\ failures' = IF cancelled THEN failures ELSE failures + 1
    /\ results' = With(results, i, [status |-> "failed", digest |-> 0])
    /\ UNCHANGED file

Capture(i) ==
    /\ phase = "capture" /\ i \in DOMAIN active \ DOMAIN results
    /\ Succeed(i) \/ FailCapture(i)
    /\ phase' = IF DOMAIN results' = DOMAIN active THEN "process" ELSE "capture"
    /\ UNCHANGED <<request, disk, manifest, seen, active, cancelled, crashes, edits>>

\* New links in URL order, as long as the page limit allows.
Fresh(url) ==
    LET links == SetToSortSeq(site[url] \ seen, <)
    IN  SubSeq(links, 1, MinOf(Len(links), MaximumPages - MinOf(Cardinality(seen), MaximumPages)))

\* The frontier items for a page's links.
FollowLinks(item) ==
    [k \in 1..Len(Fresh(item.url)) |->
        Item(Fresh(item.url)[k], item.depth + 1, Cardinality(seen) + k - 1)]

\* One item of the chunk, in frontier order.
ProcessInOrderOf(n) ==
    LET item == active[n]
        result == results[n]
        job == [status |-> result.status, digest |-> result.digest,
                depth |-> item.depth, ordinal |-> item.ordinal]
        new == IF result.status = "succeeded" /\ item.depth < MaximumDepth
               THEN FollowLinks(item) ELSE <<>>
        rest == SelectSeq(manifest.frontier, LAMBDA x : x # item)
    IN  /\ manifest' = WithPending([manifest EXCEPT
                !.jobs = With(@, item.url, job),
                !.frontier = SortFrontier(rest \o new)])
        /\ seen' = seen \cup ToSet(Urls(new))
        /\ active' = RemoveAt(active, n)
        /\ results' = RemoveAt([i \in 1..Len(active) |-> results[i]], n)

\* A chunk processed in the order in which its captures end.
ProcessAny ==
    /\ phase = "process" /\ active # <<>>
    /\ \E n \in DOMAIN active : ProcessInOrderOf(n)
    /\ phase' = "persist"
    /\ UNCHANGED <<request, file, disk, cancelled, crashes, failures, edits>>

Process ==
    /\ phase = "process" /\ active # <<>>
    /\ ProcessInOrderOf(1)
    /\ phase' = "persist"
    /\ UNCHANGED <<request, file, disk, cancelled, crashes, failures, edits>>

Finish ==
    /\ phase = "pick"
    /\ manifest.frontier = <<>> \/ Cardinality(DOMAIN manifest.jobs) >= MaximumPages
    /\ phase' = "done"
    /\ UNCHANGED <<request, file, disk, manifest, seen, active, results, cancelled, crashes,
                   failures, edits>>
-----------------------------------------------------------------------------
(* Interruptions. *)

\* The process dies, the call is dropped, the manifest cannot be written or the
\* links of a captured page cannot be read: the crawl ends where it is.
Interrupt ==
    /\ phase \in {"persist", "pick", "capture", "process"} /\ crashes < MaxCrashes
    /\ crashes' = crashes + 1
    /\ phase' = "idle" /\ cancelled' = FALSE
    /\ manifest' = NoManifest /\ seen' = {} /\ active' = <<>> /\ results' = <<>>
    /\ UNCHANGED <<request, file, disk, failures, edits>>

\* The runtime closes: what is captured from now on fails.
Cancel ==
    /\ phase \in {"persist", "pick", "capture", "process"} /\ ~cancelled /\ crashes < MaxCrashes
    /\ crashes' = crashes + 1
    /\ cancelled' = TRUE
    /\ UNCHANGED <<request, file, disk, manifest, seen, active, results, phase, failures,
                   edits>>

\* Somebody deletes or edits an artifact.
Edit(p) ==
    /\ file[p] # 0 /\ edits < MaxEdits
    /\ edits' = edits + 1
    /\ file' = [file EXCEPT ![p] = 0]
    /\ UNCHANGED <<request, disk, manifest, seen, active, results, phase, cancelled,
                   crashes, failures>>

Step == Persist \/ Pick \/ (\E i \in 1..Concurrency : Capture(i)) \/ Process \/ Finish

Next == Load \/ Step \/ Interrupt \/ Cancel \/ (\E p \in Pages : Edit(p))

Call == phase = "idle" /\ Load

\* The crawl is called again after an interruption, and its task is polled.
Fairness == WF_vars(Call) /\ WF_vars(Step)

Spec == Init /\ [][Next]_vars /\ Fairness
-----------------------------------------------------------------------------
(* Properties. *)

Records(m) ==
    /\ DOMAIN m.jobs \subseteq Pages
    /\ \A p \in DOMAIN m.jobs :
        m.jobs[p] \in [status : {"succeeded", "failed"}, digest : 0..3,
                       depth : 0..MaximumDepth, ordinal : Nat]
    /\ \A i \in DOMAIN m.frontier :
        m.frontier[i] \in [url : Pages, depth : 0..MaximumDepth, ordinal : Nat]

\* Types; the frontier in memory is a queue in breadth-first order, no URL of
\* which is recorded, and seen is what is scheduled.
TypeOK ==
    /\ Records(disk) /\ Records(manifest)
    /\ file \in [Pages -> 0..3]
    /\ phase \in {"idle", "persist", "pick", "capture", "process", "done", "rejected"}
    /\ ToSet(Urls(manifest.frontier)) \cap DOMAIN manifest.jobs = {}
    /\ manifest.frontier = SortFrontier(manifest.frontier)
    /\ seen = Scheduled(manifest)

\* Whatever instant the crawl was stopped at, the manifest it left is one that
\* the next call with the same plan accepts: its own validation never turns a
\* crawl's checkpoint away.
ResumeAccepted == phase # "rejected" /\ (disk # NoManifest => Valid(disk))

\* A page that was scheduled stays scheduled, at the same depth and ordinal,
\* through crashes, errors, shutdowns and stale artifacts.
UnschedulesNothing == disk # disk' => Items(disk) \subseteq Items(disk')

\* The pages whose links are followed.
Followed == {x \in Items(manifest) : /\ x.url \in DOMAIN manifest.jobs
                                     /\ manifest.jobs[x.url].status = "succeeded"
                                     /\ x.depth < MaximumDepth}
Parents(url) == {x \in Followed : url \in site[x.url]}
FirstParent(url) == CHOOSE x \in Parents(url) : \A y \in Parents(url) : x.ordinal <= y.ordinal
Before(a, b) ==
    LET p == FirstParent(a).ordinal
        q == FirstParent(b).ordinal
    IN  p < q \/ (p = q /\ a < b)

\* When the crawl is through, every page was scheduled from the first page that
\* links to it, one level deeper, and pages are numbered by that parent and then
\* by URL; a page left out for the page limit comes after all of them. Neither
\* the concurrency nor an interruption shows.
BreadthFirst ==
    (phase = "done" /\ ~RetryFailed
     /\ (edits = 0 \/ \A p \in DOMAIN manifest.jobs : manifest.jobs[p].status = "succeeded")) =>
        LET scheduled == Items(manifest) \ {Item(Root, 0, 0)}
            missing == (UNION {site[x.url] : x \in Followed}) \ Scheduled(manifest)
        IN  /\ \A x \in scheduled : Parents(x.url) # {}
            /\ \A x \in scheduled : x.depth = FirstParent(x.url).depth + 1
            /\ \A x, y \in scheduled : x.ordinal < y.ordinal => Before(x.url, y.url)
            /\ \A x \in scheduled, u \in missing : Before(x.url, u)

\* When the crawl is through, every link of a captured page within the depth
\* limit has its own record, unless the page limit was reached, even when pages
\* failed, were retried or had to be captured again.
NoLinkForgotten ==
    phase = "done" =>
        \/ Cardinality(DOMAIN manifest.jobs) = MaximumPages
        \/ \A x \in Followed : site[x.url] \subseteq DOMAIN manifest.jobs

\* The result lists its pages in breadth-first order: a page never comes before
\* a page of a smaller depth.
ResultBreadthFirst ==
    phase = "done" =>
        \A x, y \in Items(manifest) : x.ordinal < y.ordinal => x.depth <= y.depth

\* A crawl that is called again after each interruption gets through.
Through == phase = "done"
=============================================================================

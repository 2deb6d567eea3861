------------------------- MODULE ResourceResolution -------------------------
(***************************************************************************)
(* How the pipeline turns the resource references of the rendered frames   *)
(* into data URLs: references get identifiers, batches are prefetched,     *)
(* each reference is loaded, stored, and, when it is a stylesheet, an SVG  *)
(* image or an HTML document, rewritten after its own references were      *)
(* resolved, recursively.  The recursion of ResourceResolver::resolve is   *)
(* the stack; a value or an error travels through returned.                *)
(*                                                                         *)
(* The page is a constant: the references of each frame in rendering       *)
(* order, and for each URL its kind, size, content and nested references.  *)
(***************************************************************************)
EXTENDS Integers, FiniteSets, Sequences, SequencesExt

CONSTANTS
    References,            \* frame -> sequence of URLs, frames 1..n in order
    session,               \* frame -> browser session and frame it loads from
    Urls, Schemes, Kinds,  \* Schemes[u], Kinds[u]
    Bytes, Content,        \* size and digest of what u answers
    Nested, Malformed,     \* references inside composites; composites that do not parse
    concurrent_resources, resource_recursion_depth, html_depth,
    max_resources, resource_limit, total_limit

VARIABLES
    policy,        \* missing_resources: "Warn" or "Fail"
    frame,         \* the frame being rendered
    waiting,       \* its references not yet prefetched: <<id, url>>
    batch,         \* prefetched references not yet resolved
    prefetched,    \* id -> "ok" or the code of an error
    stack,         \* composite resources being rewritten
    call,          \* the resolve about to run: url, id, depth
    returned,      \* what the innermost resolve returned
    records,       \* id -> outcome
    resources,     \* budget.resources() = summary.discovered = next id
    failed_loads,  \* keys <<session, url>> with a failed load
    received_bytes, total_bytes, entries, embedded_digests,
    cancelled, storeFault, outcome

resolutionVars ==
    <<policy, frame, waiting, batch, prefetched, stack, call, returned,
      records, resources, failed_loads, received_bytes, total_bytes, entries,
      embedded_digests, cancelled, storeFault, outcome>>

accounts == <<received_bytes, total_bytes, entries, embedded_digests>>

Nothing == [tag |-> "none"]
Ok(n) == [tag |-> "ok", bytes |-> n]
Err(code) == [tag |-> "err", code |-> code]

Limit == "offprint.resource.limit"
Store == "offprint.resource.store"
Cancelled == "cancelled"
Load == "load"
Refused == "refused"

Embedded(u, d, n) == [url |-> u, tag |-> "embedded", digest |-> d, bytes |-> n,
                      from |-> session[frame]]
Failed(u, code) == [url |-> u, tag |-> "failed", code |-> code, from |-> session[frame]]

Key(u) == <<session[frame], u>>

ResolutionInit ==
    /\ policy \in {"Warn", "Fail"}
    /\ frame = 0
    /\ waiting = <<>> /\ batch = <<>> /\ prefetched = <<>>
    /\ stack = <<>> /\ call = Nothing /\ returned = Nothing
    /\ records = <<>> /\ resources = 0
    /\ failed_loads = {}
    /\ received_bytes = 0 /\ total_bytes = 0 /\ entries = {} /\ embedded_digests = {}
    /\ cancelled = FALSE /\ storeFault = FALSE
    /\ outcome = "running"

Idle == outcome = "running" /\ stack = <<>> /\ call = Nothing /\ returned = Nothing

\* validate_complete: one record for every reference that got an identifier.
Complete(recs, n) == DOMAIN recs = 1..n

\* render_frame_document: the references of the next frame, bounded by what the
\* budget has left, all get their identifiers before the first is loaded.
begin_references ==
    LET urls == References[frame + 1]
    IN  /\ Idle /\ waiting = <<>> /\ batch = <<>>
        /\ frame < Len(References)
        /\ IF resources + Len(urls) > max_resources
             THEN outcome' = Limit /\ UNCHANGED <<frame, waiting, resources>>
             ELSE /\ frame' = frame + 1
                  /\ waiting' = [i \in DOMAIN urls |-> <<resources + i, urls[i]>>]
                  /\ resources' = resources + Len(urls)
                  /\ UNCHANGED outcome
        /\ UNCHANGED <<policy, batch, prefetched, stack, call, returned, records,
                       failed_loads, accounts, cancelled, storeFault>>

\* The loads of one batch run together; a URL known to fail is not asked again.
prefetch_resources ==
    LET n == Min({concurrent_resources, Len(waiting)})
        candidates == {waiting[i][1] : i \in {j \in 1..n :
                          /\ Schemes[waiting[j][2]] \in {"http", "blob", "file"}
                          /\ Key(waiting[j][2]) \notin failed_loads}}
    IN  /\ Idle /\ waiting # <<>> /\ batch = <<>>
        /\ batch' = SubSeq(waiting, 1, n)
        /\ waiting' = SubSeq(waiting, n + 1, Len(waiting))
        /\ prefetched' \in [candidates -> {"ok", Load}]
        /\ UNCHANGED <<policy, frame, stack, call, returned, records, resources, failed_loads,
                       accounts, cancelled, storeFault, outcome>>

\* ContentStore::insert_stream: received bytes are charged before the limits
\* are checked, and stay charged when the resource is refused.
insert_stream(digest, n, stored) ==
    /\ received_bytes' = received_bytes + n
    /\ CASE n > resource_limit \/ received_bytes + n > total_limit ->
              stored = Limit /\ UNCHANGED <<entries, storeFault>>
         [] OTHER ->
              \/ stored = "ok" /\ entries' = entries \cup {<<digest, n>>} /\ UNCHANGED storeFault
              \/ ~storeFault /\ storeFault' = TRUE /\ stored = Store /\ UNCHANGED entries

MissingUnrecorded(u, id, code) ==
    /\ UNCHANGED records
    /\ returned' = IF policy = "Fail" THEN Err(code) ELSE Ok(0)

\* missing: a failed record, then an error or the empty data URL.
missing(u, id, code) ==
    /\ records' = (id :> Failed(u, code)) @@ records
    /\ returned' = IF policy = "Fail" THEN Err(code) ELSE Ok(0)

Composite(u) == Kinds[u] \in {"css", "svg", "html"}

\* A stylesheet, SVG image or HTML document that does not parse, is too deep,
\* or is already being rewritten further out, is not rewritten.
Depth(u) == IF Kinds[u] = "html" THEN html_depth ELSE resource_recursion_depth

MayEnter(u, depth) ==
    /\ depth < Depth(u)
    /\ \A i \in DOMAIN stack : stack[i].url # u
    /\ u \notin Malformed

NeverKnown(u) == FALSE

\* Whether the load of u is answered from failed_loads.
KnownToFail(u) == Key(u) \in failed_loads

Answers(u, id) ==
    CASE Schemes[u] = "other" -> {Load}
      [] id \in DOMAIN prefetched -> {prefetched[id]}
      [] OTHER -> {"ok", Load}

\* record_embedded after its content is in the store.
record_embedded(u, id, n) ==
    /\ records' = (id :> Embedded(u, Content[u], n)) @@ records
    /\ embedded_digests' = embedded_digests \cup {<<Content[u], n>>}
    /\ returned' = Ok(n)

\* The next reference of the batch of the frame.
resolve_reference ==
    /\ Idle /\ batch # <<>>
    /\ batch' = Tail(batch)
    /\ call' = [tag |-> "call", id |-> Head(batch)[1], url |-> Head(batch)[2], depth |-> 0]
    /\ UNCHANGED <<policy, frame, waiting, prefetched, stack, returned, records, resources,
                   failed_loads, accounts, cancelled, storeFault, outcome>>

CallEnds ==
    /\ call' = Nothing
    /\ UNCHANGED <<policy, frame, waiting, batch, prefetched, resources, cancelled, outcome>>

resolve_cancelled ==
    /\ call # Nothing /\ cancelled
    /\ returned' = Err(Cancelled)
    /\ CallEnds /\ UNCHANGED <<stack, records, failed_loads, accounts, storeFault>>

\* The load fails, now or earlier for the same browser frame and URL.
resolve_failed ==
    /\ call # Nothing /\ ~cancelled
    /\ KnownToFail(call.url) \/ Load \in Answers(call.url, call.id)
    /\ failed_loads' = failed_loads \cup {Key(call.url)}
    /\ missing(call.url, call.id, Load)
    /\ CallEnds /\ UNCHANGED <<stack, accounts, storeFault>>

\* The body arrives and is stored or refused.  The budget, charged after the
\* store, never refuses: the store has counted at least as much.  A plain
\* resource is embedded, a composite one is entered.
resolve_loaded ==
    LET u == call.url
        n == Bytes[u]
    IN  /\ call # Nothing /\ ~cancelled
        /\ ~KnownToFail(u) /\ "ok" \in Answers(u, call.id)
        /\ \E stored \in {"ok", Limit, Store} :
             /\ insert_stream(Content[u], n, stored)
             /\ IF stored # "ok"
                  THEN /\ failed_loads' = failed_loads \cup {Key(u)}
                       /\ missing(u, call.id, stored)
                       /\ UNCHANGED <<stack, total_bytes, embedded_digests>>
                  ELSE /\ total_bytes' = total_bytes + n
                       /\ UNCHANGED failed_loads
                       /\ CASE Composite(u) /\ ~MayEnter(u, call.depth) ->
                                 /\ missing(u, call.id, Refused)
                                 /\ UNCHANGED <<stack, embedded_digests>>
                            [] Composite(u) /\ resources + Len(Nested[u]) > max_resources ->
                                 /\ returned' = Err(Limit)
                                 /\ UNCHANGED <<stack, records, embedded_digests>>
                            [] Composite(u) ->
                                 /\ stack' = Append(stack, [url |-> u, id |-> call.id,
                                       depth |-> call.depth, next |-> 1, bytes |-> n])
                                 /\ UNCHANGED <<returned, records, embedded_digests>>
                            [] OTHER ->
                                 /\ record_embedded(u, call.id, n)
                                 /\ UNCHANGED stack
        /\ CallEnds

Top == stack[Len(stack)]

Rewriting == stack # <<>> /\ call = Nothing /\ returned = Nothing

\* The next reference inside the innermost composite resource: it gets its
\* identifier only now, which the budget may refuse.
resolve_nested ==
    /\ Rewriting /\ Top.next <= Len(Nested[Top.url])
    /\ IF resources + 1 > max_resources
         THEN returned' = Err(Limit) /\ UNCHANGED <<stack, call, resources>>
         ELSE /\ resources' = resources + 1
              /\ call' = [tag |-> "call", id |-> resources + 1,
                          url |-> Nested[Top.url][Top.next], depth |-> Top.depth + 1]
              /\ stack' = [stack EXCEPT ![Len(stack)].next = @ + 1]
              /\ UNCHANGED returned
    /\ UNCHANGED <<policy, frame, waiting, batch, prefetched, records, failed_loads,
                   accounts, cancelled, storeFault, outcome>>

\* All references inside are resolved: the rewritten content is stored and
\* recorded.  An error of the store leaves the resource without a record.
finish_composite ==
    /\ Rewriting /\ Top.next > Len(Nested[Top.url])
    /\ \E stored \in {"ok", Limit, Store} :
         /\ insert_stream(Content[Top.url], Top.bytes, stored)
         /\ IF stored = "ok"
              THEN record_embedded(Top.url, Top.id, Top.bytes)
              ELSE returned' = Err(stored) /\ UNCHANGED <<records, embedded_digests>>
    /\ stack' = Front(stack)
    /\ UNCHANGED <<policy, frame, waiting, batch, prefetched, call, resources, failed_loads,
                   total_bytes, cancelled, outcome>>

\* The value or the error of a resolve reaches its caller.  A limit error
\* passes through every composite resource; any other makes it a missing one.
return_to_caller ==
    /\ returned # Nothing
    /\ CASE stack = <<>> ->
              /\ outcome' = IF returned.tag = "ok" THEN outcome ELSE returned.code
              /\ returned' = Nothing /\ UNCHANGED <<stack, records>>
         [] returned.tag = "ok" ->
              /\ stack' = [stack EXCEPT ![Len(stack)].bytes = @ + returned.bytes]
              /\ returned' = Nothing /\ UNCHANGED <<records, outcome>>
         [] returned = Err(Limit) ->
              stack' = Front(stack) /\ UNCHANGED <<returned, records, outcome>>
         [] OTHER ->
              /\ missing(Top.url, Top.id, returned.code)
              /\ stack' = Front(stack) /\ UNCHANGED outcome
    /\ UNCHANGED <<policy, frame, waiting, batch, prefetched, call, resources, failed_loads,
                   accounts, cancelled, storeFault>>

validate_complete ==
    /\ Idle /\ waiting = <<>> /\ batch = <<>> /\ frame = Len(References)
    /\ outcome' = IF Complete(records, resources) THEN "captured" ELSE "incomplete"
    /\ UNCHANGED <<policy, frame, waiting, batch, prefetched, stack, call, returned, records,
                   resources, failed_loads, accounts, cancelled, storeFault>>

\* The caller cancels the job.
CancelJob ==
    /\ ~cancelled /\ outcome = "running"
    /\ cancelled' = TRUE
    /\ UNCHANGED <<policy, frame, waiting, batch, prefetched, stack, call, returned, records,
                   resources, failed_loads, accounts, storeFault, outcome>>

ResolutionNext ==
    \/ begin_references \/ prefetch_resources \/ resolve_reference
    \/ resolve_cancelled \/ resolve_failed \/ resolve_loaded
    \/ resolve_nested \/ finish_composite \/ return_to_caller
    \/ validate_complete \/ CancelJob

ResolutionSpec == ResolutionInit /\ [][ResolutionNext]_resolutionVars

\* Types; identifiers stay within max_resources, records within the identifiers.
ResolutionTypeOK ==
    /\ outcome \in {"running", "captured", "incomplete", Limit, Store, Load, Refused, Cancelled}
    /\ resources \in 0..max_resources
    /\ DOMAIN records \subseteq 1..resources
    /\ failed_loads \subseteq Range(session) \X Urls

\* A capture only ends as incomplete after its job was cancelled or the content
\* store failed: whatever the shape of the page, cycles and depth limits
\* included, every reference that got an identifier also got its one outcome
\* (begin_reference, missing, record_embedded, validate_complete).
IncompleteOnlyAfterFault == outcome = "incomplete" => cancelled \/ storeFault

\* Once a URL failed to load in a browser frame, no later reference to it there
\* is embedded: not by asking the browser again, and not from a prefetch of the
\* same batch that succeeded (failed_loads in ResourceResolver::resolve).
FailedStaysFailed ==
    \A id \in DOMAIN records' \ DOMAIN records :
        LET r == records'[id]
        IN  r.tag = "embedded" /\ ~Composite(r.url) => <<r.from, r.url>> \notin failed_loads
=============================================================================

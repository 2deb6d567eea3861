--------------------------- MODULE BrowserService ---------------------------
(***************************************************************************)
(* The browser service of the core crate: which browser a capture, `list`, *)
(* `remove` and `doctor` select, and how removal and the readiness probe   *)
(* interleave with captures that start, use and release the shared browser.*)
(*                                                                         *)
(* A local browser is known by how it was found: the configured executable,*)
(* the single managed revision the catalog holds for a platform, or the    *)
(* browser of the system.  The machine says which of them answer the       *)
(* version probe and where a remote endpoint answers; it does not change   *)
(* while the service runs, except for the managed revision.                *)
(***************************************************************************)
EXTENDS Naturals, Sequences, FiniteSets, SequencesExt

CONSTANTS
    Captures,           \* captures that open a page
    maximum_contexts    \* the size of the context semaphore

NoBrowser == "none"
Locals == {"explicit", "managed", "system"}
Specs == {"auto", "executable", "remote"}

VARIABLES
    setup,      \* RuntimeConfiguration: default spec, source policy, installation policy
    machine,    \* what the machine offers, see Machines
    managed,    \* the managed revision is installed
    running,    \* the browser the backend owns
    leases,     \* shared locks on the managed revision: the backend's, doctor's
    gate,       \* owned_backend_gate: its holder, or NoBrowser
    capture,    \* capture |-> [at, spec, found]
    removal,    \* the call of remove: [at, force, selected, others, owns]
    doctor      \* the call of doctor: [at, selected, compatible, ready, recovery]

serviceVars == <<setup, machine, managed, running, leases, gate, capture, removal, doctor>>

----------------------------------------------------------------------------
(* Discovery.                                                              *)

Setups == [spec : Specs, source : {"Auto", "Managed", "System"}, install : BOOLEAN]

Machines == [answering : SUBSET {"explicit", "system"},
             endpoints : SUBSET {"jsonVersion", "jsonList", "webSocket"}]

\* `probe`: a file that prints the version of a supported Chromium.
probe(browser) == browser \in machine.answering

\* ChromiumDiscovery::discover: explicit path, managed cache, system browsers.
Discovered(explicit, cache, source) ==
    SelectSeq(<<"explicit", "managed", "system">>,
              LAMBDA b : \/ b = "explicit" /\ explicit /\ probe(b)
                         \/ b = "managed" /\ cache /\ source # "System" /\ managed
                         \/ b = "system" /\ source # "Managed" /\ probe(b))

first(candidates) == IF candidates = <<>> THEN NoBrowser ELSE Head(candidates)

\* The discovery RuntimeState holds: it keeps the managed cache and the system
\* browsers behind a configured executable.
ServiceDiscovery == Discovered(setup.spec = "executable", TRUE, setup.source)

\* An address answers when it names a WebSocket url, or is one that speaks CDP.
answers(address) == address \in machine.endpoints

\* resolve_remote_endpoint: the first of the three addresses that answers.
resolve_remote_endpoint ==
    first(SelectSeq(<<"jsonVersion", "jsonList", "webSocket">>,
                    LAMBDA e : answers(e)))

effective_selection(requested) == IF requested = "auto" THEN setup.spec ELSE requested

\* BrowserOwner::matches (every capture here has the service's headed flag).
matches(spec) ==
    \/ spec = "auto" /\ running \in Locals
    \/ spec = "executable" /\ running = "explicit"
    \/ spec = "remote" /\ running = "remote"

\* connect_remote_browser, and probe_remote_browser before it closes again.
connect_remote_browser == IF resolve_remote_endpoint = NoBrowser THEN NoBrowser ELSE "remote"

\* What start_browser settles on for a selection, before any installation.
Resolved(spec) ==
    CASE spec = "auto" -> first(ServiceDiscovery)
      [] spec = "executable" -> first(SelectSeq(Discovered(TRUE, FALSE, "Auto"),
                                                LAMBDA b : b = "explicit"))
      [] spec = "remote" -> connect_remote_browser

----------------------------------------------------------------------------
(* Captures: open_page, acquire_page, and the backend below the gate.      *)

Permits == maximum_contexts - Cardinality({c \in Captures :
              capture[c].at \in {"permit", "gate", "resolved", "leased", "page"}})

CaptureMoves(c, at) == capture' = [capture EXCEPT ![c].at = at]

open_page(c) ==
    /\ capture[c].at = "idle"
    /\ Permits > 0
    /\ \E spec \in {"auto", "executable"} :
          capture' = [capture EXCEPT ![c] = [at |-> "permit", spec |-> spec, found |-> NoBrowser]]
    /\ UNCHANGED <<setup, machine, managed, running, leases, gate, removal, doctor>>

acquire_page(c) ==
    /\ capture[c].at = "permit"
    /\ gate = NoBrowser
    /\ LET spec == effective_selection(capture[c].spec) IN
         IF running # NoBrowser
           THEN CaptureMoves(c, IF matches(spec) THEN "page" ELSE "idle") /\ UNCHANGED gate
           ELSE CaptureMoves(c, "gate") /\ gate' = c
    /\ UNCHANGED <<setup, machine, managed, running, leases, removal, doctor>>

\* resolve_auto_browser installs the managed revision when nothing is selected
\* and the policies allow it; the installation may fail.
InstallAllowed(spec) == spec = "auto" /\ setup.install /\ setup.source # "System"

resolve_browser(c) ==
    /\ capture[c].at = "gate"
    /\ LET spec == effective_selection(capture[c].spec) IN
         \/ /\ Resolved(spec) # NoBrowser
            /\ capture' = [capture EXCEPT ![c].at = "resolved", ![c].found = Resolved(spec)]
            /\ UNCHANGED <<managed, gate>>
         \/ /\ Resolved(spec) = NoBrowser /\ InstallAllowed(spec)
            /\ managed' = TRUE
            /\ capture' = [capture EXCEPT ![c].at = "resolved", ![c].found = "managed"]
            /\ UNCHANGED gate
         \/ /\ Resolved(spec) = NoBrowser
            /\ CaptureMoves(c, "idle")
            /\ gate' = NoBrowser
            /\ UNCHANGED managed
    /\ UNCHANGED <<setup, machine, running, leases, removal, doctor>>

\* managed_browser_lease: a shared lock on an installed revision, or an error.
managed_browser_lease(c) ==
    /\ capture[c].at = "resolved"
    /\ IF capture[c].found = "managed"
         THEN IF managed THEN /\ leases' = leases \cup {"backend"}
                              /\ CaptureMoves(c, "leased")
                              /\ UNCHANGED gate
                         ELSE /\ CaptureMoves(c, "idle")
                              /\ gate' = NoBrowser
                              /\ UNCHANGED leases
         ELSE CaptureMoves(c, "leased") /\ UNCHANGED <<leases, gate>>
    /\ UNCHANGED <<setup, machine, managed, running, removal, doctor>>

\* start_local and start_remote; the gate is released with the lease in hand.
start_browser(c) ==
    /\ capture[c].at = "leased"
    /\ \/ running' = capture[c].found /\ CaptureMoves(c, "page") /\ UNCHANGED leases
       \/ CaptureMoves(c, "idle") /\ leases' = leases \ {"backend"} /\ UNCHANGED running
    /\ gate' = NoBrowser
    /\ UNCHANGED <<setup, machine, managed, removal, doctor>>

close_page(c) ==
    /\ capture[c].at = "page"
    /\ CaptureMoves(c, "idle")
    /\ UNCHANGED <<setup, machine, managed, running, leases, gate, removal, doctor>>

----------------------------------------------------------------------------
(* BrowserService::remove.                                                 *)

RemovalStops(why) == removal' = [removal EXCEPT !.at = why]

\* The discovery and the check that the revision is installed.
remove(force) ==
    /\ removal.at = "idle"
    /\ removal' = [at |-> IF managed THEN "discovered" ELSE "refused", force |-> force,
                   selected |-> managed /\ first(ServiceDiscovery) = "managed",
                   others |-> \E i \in DOMAIN ServiceDiscovery : ServiceDiscovery[i] # "managed",
                   owns |-> FALSE]
    /\ UNCHANGED <<setup, machine, managed, running, leases, gate, capture, doctor>>

\* active_browser_snapshot waits for the owner lock, which acquisition holds
\* while it starts a browser.
RemovalChecksFirst ==
    /\ removal.at = "discovered"
    /\ gate = NoBrowser
    /\ LET owns == running = "managed" IN
         removal' = [removal EXCEPT !.owns = owns,
                       !.at = IF \/ owns /\ Permits < maximum_contexts
                                 \/ removal.selected /\ ~removal.force
                                 \/ removal.selected /\ ~removal.others
                                THEN "refused" ELSE "closing"]
    /\ UNCHANGED <<setup, machine, managed, running, leases, gate, capture, doctor>>

\* Mutation: closes the browser without looking at the permits again.
CloseUnchecked ==
    /\ removal.at = "closing"
    /\ IF ~removal.owns THEN RemovalStops("removing") /\ UNCHANGED <<running, leases>>
       ELSE /\ gate = NoBrowser
            /\ running' = NoBrowser
            /\ leases' = leases \ {"backend"}
            /\ RemovalStops("removing")
    /\ UNCHANGED <<setup, machine, managed, gate, capture, doctor>>

\* close_idle_browser, whose test under the gate is the one that counts.
close_idle_browser ==
    /\ removal.at = "closing"
    /\ IF ~removal.owns THEN RemovalStops("removing") /\ UNCHANGED <<running, leases>>
       ELSE /\ gate = NoBrowser
            /\ IF Permits < maximum_contexts
                 THEN RemovalStops("refused") /\ UNCHANGED <<running, leases>>
                 ELSE /\ running' = NoBrowser
                      /\ leases' = leases \ {"backend"}
                      /\ RemovalStops("removing")
    /\ UNCHANGED <<setup, machine, managed, gate, capture, doctor>>

\* ManagedBrowserManager::remove: refused while anybody holds a shared lock.
ManagedRemove ==
    /\ removal.at = "removing"
    /\ IF ~managed \/ leases # {}
         THEN RemovalStops("refused") /\ UNCHANGED managed
         ELSE managed' = FALSE /\ RemovalStops("removed")
    /\ UNCHANGED <<setup, machine, running, leases, gate, capture, doctor>>

----------------------------------------------------------------------------
(* BrowserService::doctor.                                                 *)

DoctorDiscovers ==
    /\ doctor.at = "idle"
    /\ LET chosen == IF setup.spec = "remote" THEN connect_remote_browser ELSE first(ServiceDiscovery)
       IN doctor' = [doctor EXCEPT !.at = IF chosen = "managed" THEN "leasing" ELSE "probing",
                                   !.selected = chosen]
    /\ UNCHANGED <<setup, machine, managed, running, leases, gate, capture, removal>>

\* probe_selected_browser holds the managed revision while it probes.
DoctorLeases ==
    /\ doctor.at = "leasing"
    /\ leases' = IF managed THEN leases \cup {"doctor"} ELSE leases
    /\ doctor' = [doctor EXCEPT !.at = IF managed THEN "probing" ELSE "failed"]
    /\ UNCHANGED <<setup, machine, managed, running, gate, capture, removal>>

\* A probe launches a process of its own (or connects to the endpoint), reads
\* the collector's handshake and may fail.
probe_selected_browser ==
    /\ doctor.at = "probing"
    /\ \E works \in BOOLEAN :
         doctor' = [doctor EXCEPT !.at = "probed",
                                  !.compatible = works /\ doctor.selected # NoBrowser]
    /\ leases' = leases \ {"doctor"}
    /\ UNCHANGED <<setup, machine, managed, running, gate, capture, removal>>

\* The report: a remote browser carries constraints, so it is never ready, and
\* neither is a service whose output directory cannot be written.
DoctorReports ==
    /\ doctor.at \in {"probed", "failed"}
    /\ \E writable \in BOOLEAN :
         doctor' = [doctor EXCEPT !.at = "reported",
                      !.ready = doctor.selected \in Locals /\ doctor.compatible /\ writable]
    /\ UNCHANGED <<setup, machine, managed, running, leases, gate, capture, removal>>

----------------------------------------------------------------------------
ServiceInit ==
    /\ setup \in Setups
    /\ machine \in Machines
    /\ setup.spec # "remote" => machine.endpoints = {}
    /\ managed \in BOOLEAN
    /\ running = NoBrowser
    /\ leases = {}
    /\ gate = NoBrowser
    /\ capture = [c \in Captures |-> [at |-> "idle", spec |-> "auto", found |-> NoBrowser]]
    /\ removal = [at |-> "idle", force |-> FALSE, selected |-> FALSE, others |-> FALSE,
                  owns |-> FALSE]
    /\ doctor = [at |-> "idle", selected |-> NoBrowser, compatible |-> FALSE, ready |-> FALSE]

ServiceNext ==
    \/ \E c \in Captures :
         \/ open_page(c)
         \/ acquire_page(c)
         \/ resolve_browser(c)
         \/ managed_browser_lease(c)
         \/ start_browser(c)
         \/ close_page(c)
    \/ \E force \in BOOLEAN : remove(force)
    \/ RemovalChecksFirst
    \/ close_idle_browser
    \/ ManagedRemove
    \/ DoctorDiscovers
    \/ DoctorLeases
    \/ probe_selected_browser
    \/ DoctorReports

ServiceSpec == ServiceInit /\ [][ServiceNext]_serviceVars

----------------------------------------------------------------------------
\* A capture that has been given a page keeps its browser: `remove` neither
\* closes the process under it (close_idle_browser looks at the context permits
\* again under the gate) nor takes the managed revision away (the backend's
\* shared lock), however removal, the readiness probe and captures interleave.
HeldBrowserStays ==
    \A c \in Captures : capture[c].at = "page" =>
        /\ running # NoBrowser
        /\ running = "managed" => managed

\* What `ready` promises: "Its `ready` field describes the canonical local
\* offline capture path" (docs/concepts/browsers.md).  When the report is made,
\* and nothing was removed since the probe, the service's own selection can be
\* started.  The code's discovery goes on to the managed cache and the system
\* behind a configured executable, start_browser does not.
ReadyMeansStartable ==
    (doctor.at = "reported" /\ doctor.ready /\ removal.at # "removed") =>
        Resolved(effective_selection("auto")) # NoBrowser

=============================================================================

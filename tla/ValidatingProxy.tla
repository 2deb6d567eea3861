-------------------------- MODULE ValidatingProxy ---------------------------
(***************************************************************************)
(* The loopback proxy all traffic of a page goes through                   *)
(* (chromium/src/proxy.rs) and the guard that judges destinations          *)
(* (browser/src/network.rs).                                               *)
(*                                                                         *)
(* The connection budget is shared by all pages of the browser.  Nothing   *)
(* orders the tasks of the connections, set_guard and deny_all.            *)
(***************************************************************************)
EXTENDS Integers, FiniteSets

CONSTANTS Connections, Addresses, Hosts, InitialHost,
          class,                   \* the AddressClass of each address
          literal,                 \* each host: the address it spells out, if any
          CustomRules,             \* the NetworkRules of the custom policy
          GuardPolicies,           \* the policies set_guard may be given
          MAXIMUM_CONNECTION_TASKS, ConnectionBudget

VARIABLES policyNow,     \* ProxyPolicy: Pending, Guarded by a policy, DenyAll
          trafficDenied, proxyCancelled,   \* the two cancellation tokens
          acceptor,      \* the accept loop: idle, a connection it admits, or ended
          connection,    \* each connection: its step
          judged,        \* each connection: the policy it read
          pinned,        \* each connection: the validated addresses
          upstream,      \* each connection: where it connected to
          late,          \* connections that read the policy after deny_all
          everDenied,    \* whether deny_all was ever called
          budgetUsed     \* permits held by the other pages

proxyVars == <<policyNow, trafficDenied, proxyCancelled, acceptor, connection, judged, pinned,
               upstream, late, everDenied, budgetUsed>>

ProxyInit ==
    /\ policyNow = "Pending" /\ trafficDenied = FALSE /\ proxyCancelled = FALSE
    /\ acceptor = "idle"
    /\ connection = [c \in Connections |-> "none"] /\ judged = [c \in Connections |-> "none"]
    /\ pinned = [c \in Connections |-> {}] /\ upstream = [c \in Connections |-> {}]
    /\ late = {} /\ everDenied = FALSE /\ budgetUsed \in 0..ConnectionBudget

-----------------------------------------------------------------------------
(* NetworkGuard. *)

initial_loopback == InitialHost = "localhost" \/ \E a \in literal[InitialHost] : class[a] = "Loopback"

custom_allows(rules, host, address) ==
    \/ host \in rules.allowed_hosts \/ address \in rules.networks
    \/ class[address] \in rules.allowed_classes \cup {"Public"}

validate_address(guard, host, address) ==
    CASE guard = "Unrestricted" -> TRUE
      [] guard = "Server" -> class[address] = "Public"
      [] guard = "Standard" -> \/ class[address] = "Public"
                               \/ class[address] = "Loopback" /\ initial_loopback /\ host = InitialHost
      [] OTHER -> custom_allows(CustomRules, host, address)

\* Mutant: one allowed address is enough.
ValidateFirst(guard, host, addresses) ==
    addresses # {} /\ \E a \in addresses : validate_address(guard, host, a)

\* validate_resolved: no answer and any blocked address refuse the host.
validate_resolved(guard, host, addresses) ==
    addresses # {} /\ \A a \in addresses : validate_address(guard, host, a)

-----------------------------------------------------------------------------
(* set_guard and deny_all. *)

policyRest == <<acceptor, connection, judged, pinned, upstream, late, budgetUsed, proxyCancelled>>

\* Mutant: a guard replaces whatever was decided before.
SetGuardAlways(guard) ==
    /\ policyNow' = guard
    /\ UNCHANGED <<policyRest, trafficDenied, everDenied>>

set_guard(guard) ==
    /\ policyNow # "DenyAll" /\ policyNow' = guard
    /\ UNCHANGED <<policyRest, trafficDenied, everDenied>>

deny_all ==
    /\ policyNow # "DenyAll" /\ policyNow' = "DenyAll" /\ everDenied' = TRUE
    /\ UNCHANGED <<policyRest, trafficDenied>>

DenyTraffic ==
    /\ everDenied /\ ~trafficDenied /\ trafficDenied' = TRUE
    /\ UNCHANGED <<policyNow, everDenied, policyRest>>

CloseProxy ==
    /\ ~proxyCancelled /\ proxyCancelled' = TRUE /\ trafficDenied' = TRUE
    /\ UNCHANGED <<policyNow, acceptor, connection, judged, pinned, upstream, late, everDenied, budgetUsed>>

-----------------------------------------------------------------------------
(* run_proxy. *)

loopUnchanged == <<policyNow, everDenied, trafficDenied, proxyCancelled, judged, pinned, upstream, late>>
InSet == {c \in Connections : connection[c] \in {"head", "rejecting", "judging", "resolving", "connecting",
                                                  "forwarding", "finished"}}
Permitted == {c \in Connections : connection[c] \in {"head", "judging", "resolving", "connecting", "forwarding"}}
Moves(c, to) == connection' = [connection EXCEPT ![c] = to]

\* A browser opens a connection (external).
OpenConnection(c) ==
    /\ connection[c] = "none" /\ acceptor # "ended" /\ Moves(c, "waiting")
    /\ UNCHANGED <<loopUnchanged, acceptor, budgetUsed>>

AcceptConnection(c) ==
    /\ acceptor = "idle" /\ ~proxyCancelled /\ connection[c] = "waiting"
    /\ Cardinality(InSet) < MAXIMUM_CONNECTION_TASKS
    /\ acceptor' = c /\ Moves(c, "accepted")
    /\ UNCHANGED <<loopUnchanged, budgetUsed>>

\* Mutant: the budget has room for one more.
AdmitBeyond(c) ==
    /\ acceptor = c /\ ~proxyCancelled
    /\ acceptor' = "idle"
    /\ \/ trafficDenied /\ Moves(c, "rejecting")
       \/ ~trafficDenied /\ Cardinality(Permitted) + budgetUsed <= ConnectionBudget /\ Moves(c, "head")
       \/ ~trafficDenied /\ Moves(c, "closed")
    /\ UNCHANGED <<loopUnchanged, budgetUsed>>

\* Denied traffic needs no permit; without one in time the socket is dropped.
AdmitConnection(c) ==
    /\ acceptor = c /\ ~proxyCancelled
    /\ acceptor' = "idle"
    /\ \/ trafficDenied /\ Moves(c, "rejecting")
       \/ ~trafficDenied /\ Cardinality(Permitted) + budgetUsed < ConnectionBudget /\ Moves(c, "head")
       \/ ~trafficDenied /\ Moves(c, "closed")
    /\ UNCHANGED <<loopUnchanged, budgetUsed>>

\* Mutant: a finished connection keeps its place.
NeverJoined(c) == FALSE /\ UNCHANGED <<loopUnchanged, acceptor, connection, budgetUsed>>

\* join_next makes room for the next connection.
JoinConnection(c) ==
    /\ acceptor = "idle" /\ connection[c] = "finished" /\ Moves(c, "closed")
    /\ UNCHANGED <<loopUnchanged, acceptor, budgetUsed>>

\* Cancelled: every connection is aborted and joined before the task ends.
EndProxy ==
    /\ proxyCancelled /\ acceptor # "ended"
    /\ acceptor' = "ended"
    /\ connection' = [c \in Connections |-> IF connection[c] = "none" THEN "none" ELSE "closed"]
    /\ UNCHANGED <<loopUnchanged, budgetUsed>>

\* Other pages take and give back permits (external).
OtherPermits ==
    /\ budgetUsed' \in 0..(ConnectionBudget - Cardinality(Permitted)) /\ budgetUsed' # budgetUsed
    /\ UNCHANGED <<loopUnchanged, acceptor, connection>>

-----------------------------------------------------------------------------
(* serve_connection and reject_connection. *)

serveRest == <<policyNow, everDenied, trafficDenied, proxyCancelled, acceptor, budgetUsed>>

RejectConnection(c) ==
    /\ connection[c] = "rejecting" /\ Moves(c, "finished")
    /\ UNCHANGED <<serveRest, judged, pinned, upstream, late>>

\* read_request_head, within its deadline and size.
ReadHead(c) ==
    /\ connection[c] = "head" /\ (Moves(c, "judging") \/ Moves(c, "finished"))
    /\ UNCHANGED <<serveRest, judged, pinned, upstream, late>>

ReadProxyPolicy(c) ==
    /\ connection[c] = "judging"
    /\ judged' = [judged EXCEPT ![c] = policyNow]
    /\ late' = IF everDenied THEN late \cup {c} ELSE late
    /\ Moves(c, IF policyNow \in {"Pending", "DenyAll"} THEN "finished" ELSE "resolving")
    /\ UNCHANGED <<serveRest, pinned, upstream>>

\* Whatever the resolver answers is judged, and only that is connected to.
resolve_validated_addresses(c) ==
    /\ connection[c] = "resolving"
    /\ \E host \in Hosts, answer \in SUBSET Addresses :
           /\ literal[host] # {} => answer = literal[host]
           /\ IF validate_resolved(judged[c], host, answer)
              THEN Moves(c, "connecting") /\ pinned' = [pinned EXCEPT ![c] = answer \X {host}]
              ELSE Moves(c, "finished") /\ UNCHANGED pinned
    /\ UNCHANGED <<serveRest, judged, upstream, late>>

connect_pinned(c) ==
    /\ connection[c] = "connecting"
    /\ \/ \E a \in pinned[c] : upstream' = [upstream EXCEPT ![c] = {a}] /\ Moves(c, "forwarding")
       \/ Moves(c, "finished") /\ UNCHANGED upstream
    /\ UNCHANGED <<serveRest, judged, pinned, late>>

\* Once traffic is denied a connection may stop wherever it waits.
StopServing(c) ==
    /\ trafficDenied /\ connection[c] \in {"resolving", "connecting", "forwarding"}
    /\ Moves(c, "finished")
    /\ UNCHANGED <<serveRest, judged, pinned, upstream, late>>

EndForwarding(c) ==
    /\ connection[c] = "forwarding" /\ Moves(c, "finished")
    /\ UNCHANGED <<serveRest, judged, pinned, upstream, late>>

Serve(c) == \/ RejectConnection(c) \/ ReadHead(c) \/ ReadProxyPolicy(c)
            \/ resolve_validated_addresses(c) \/ connect_pinned(c) \/ StopServing(c)
Accepting == \/ EndProxy
             \/ \E c \in Connections : AdmitConnection(c) \/ JoinConnection(c)

ProxyNext ==
    \/ \E guard \in GuardPolicies : set_guard(guard)
    \/ deny_all \/ DenyTraffic \/ CloseProxy \/ Accepting \/ OtherPermits
    \/ \E c \in Connections : OpenConnection(c) \/ AcceptConnection(c) \/ Serve(c) \/ EndForwarding(c)

\* Deadlines end the reading of a head, the wait for a permit, name resolution
\* and connecting; a forwarded connection may stay open as long as traffic is
\* allowed.
ProxyFairness ==
    /\ WF_proxyVars(Accepting) /\ WF_proxyVars(DenyTraffic)
    /\ \A c \in Connections : SF_proxyVars(AcceptConnection(c)) /\ WF_proxyVars(Serve(c))
ProxySpec == ProxyInit /\ [][ProxyNext]_proxyVars /\ ProxyFairness

-----------------------------------------------------------------------------
\* Connection tasks and permits stay within their limits.
ProxyTypeOK ==
    /\ policyNow \in GuardPolicies \cup {"Pending", "DenyAll"}
    /\ Cardinality(InSet) <= MAXIMUM_CONNECTION_TASKS
    /\ Cardinality(Permitted) + budgetUsed <= ConnectionBudget

\* The proxy connects only to addresses the policy it read allows for the host
\* asked for: every address of an answer is judged, and no second lookup happens
\* between the judgement and the connection.
ConnectsOnlyValidated ==
    \A c \in Connections : \A a \in upstream[c] : validate_address(judged[c], a[2], a[1])

\* What deny_all forbids stays forbidden: a connection that reads the policy
\* after it never reaches an upstream, although a guard may be set later.
DenialIsFinal == \A c \in late : upstream[c] = {}

\* Both: what the proxy connects to, the policy in force allows.
ProxyObeysPolicy == ConnectsOnlyValidated /\ DenialIsFinal

\* After deny_all every connection is answered or closed, without a permit of
\* the budget and with all its predecessors still in the set of tasks.
SomeDenied == trafficDenied /\ \E c \in Connections : connection[c] = "waiting"
AllGone == \A c \in Connections : connection[c] \in {"none", "closed"}

=============================================================================

---------------------------- MODULE CdpCommands ----------------------------
(***************************************************************************)
(* The command side of the CDP client: callers that wait for an answer or  *)
(* only for the write, the bounded outbound channel, the wire task that    *)
(* owns the socket, and the closers that stop it.                          *)
(*                                                                         *)
(* A command is known by its caller. The browser answers what it was sent  *)
(* in any order, late or never.                                            *)
(***************************************************************************)
EXTENDS Naturals, Sequences, Functions

CONSTANTS
    Commands,          \* callers of command_with_timeout
    NoWaits,           \* callers of command_no_wait
    Closers,           \* callers of close
    COMMAND_CAPACITY   \* of the outbound channel

VARIABLES
    caller,         \* where each caller is; at the end, what it got
    answer,         \* the oneshot of each caller: what the wire task sent it
    outbound,       \* the outbound channel
    cancellations,  \* the cancellation channel, whose order nothing observes
    pending,        \* the commands the wire task waits for
    browser,        \* the commands the browser has and did not answer
    wire,           \* "running", or the outcome of the wire task
    joinable        \* ClientInner::task is still there to be joined

commandVars == <<caller, answer, outbound, cancellations, pending, browser, wire, joinable>>

Waiters == Commands \cup NoWaits

CommandsInit ==
    /\ caller = [c \in Waiters \cup Closers |-> "idle"]
    /\ answer = [c \in Waiters |-> "none"]
    /\ outbound = <<>> /\ cancellations = {} /\ pending = {} /\ browser = {}
    /\ wire = "running" /\ joinable = TRUE
-----------------------------------------------------------------------------
(* Callers. *)

CallerGoes(c, stage) == caller' = [caller EXCEPT ![c] = stage]

\* The caller starts; its message may have to wait for room in the channel.
Start(c) ==
    /\ caller[c] = "idle"
    /\ CallerGoes(c, "sending")
    /\ UNCHANGED <<answer, outbound, cancellations, pending, browser, wire, joinable>>

\* The send completes: from here on a command is cancelled when it is dropped.
Enqueue(c) ==
    /\ caller[c] = "sending" /\ wire = "running" /\ Len(outbound) < COMMAND_CAPACITY
    /\ outbound' = Append(outbound, c)
    /\ CallerGoes(c, IF c \in Closers THEN "joining" ELSE "waiting")
    /\ UNCHANGED <<answer, cancellations, pending, browser, wire, joinable>>

\* The wire task is gone: its end of the channel refuses the message.
Refused(c) ==
    /\ caller[c] = "sending" /\ wire # "running" /\ c \in Waiters
    /\ CallerGoes(c, "closed")
    /\ UNCHANGED <<answer, outbound, cancellations, pending, browser, wire, joinable>>

\* The oneshot yields: the answer, the failure of the wire, or its end.
Answered(c) ==
    /\ c \in Waiters /\ caller[c] = "waiting" /\ answer[c] # "none"
    /\ CallerGoes(c, answer[c])
    /\ UNCHANGED <<answer, outbound, cancellations, pending, browser, wire, joinable>>

\* The deadline fires, or the caller's future is dropped. The receiving end of
\* the oneshot closes first; only then does a command's guard send its id.
Expire(c) ==
    /\ c \in Waiters
    /\ \/ caller[c] = "sending" /\ CallerGoes(c, "timeout")
       \/ caller[c] = "waiting" /\ c \in NoWaits /\ CallerGoes(c, "timeout")
       \/ caller[c] = "waiting" /\ c \in Commands /\ CallerGoes(c, "left")
    /\ UNCHANGED <<answer, outbound, cancellations, pending, browser, wire, joinable>>

\* Mutant: the guard is disarmed before the answer is there.
DropDisarmedGuard(c) == UNCHANGED cancellations

\* The guard of a command that never got its answer.
DropGuard(c) == cancellations' = cancellations \cup {c}

CancelOnDrop(c) ==
    /\ c \in Commands /\ caller[c] = "left"
    /\ CallerGoes(c, "timeout")
    /\ IF wire = "running" THEN DropGuard(c) ELSE UNCHANGED cancellations
    /\ UNCHANGED <<answer, outbound, pending, browser, wire, joinable>>
-----------------------------------------------------------------------------
(* The wire task. It selects among its channels in any order. *)

TakeCancellation ==
    /\ wire = "running"
    /\ \E c \in cancellations :
          /\ cancellations' = cancellations \ {c}
          /\ pending' = pending \ {c}
    /\ UNCHANGED <<caller, answer, outbound, browser, wire, joinable>>

\* The oneshot is closed: nobody waits for this message any more.
IsClosed(c) == caller[c] \in {"left", "timeout"}

\* Mutant: a wire task that leaves its pending commands in place.
EndsSilently(outcome, sent) ==
    /\ wire' = outcome
    /\ answer' = [c \in Waiters |->
          IF answer[c] = "none" /\ c \in Range(outbound) \cup sent
          THEN "closed" ELSE answer[c]]
    /\ outbound' = <<>> /\ cancellations' = {} /\ UNCHANGED pending

\* The end of the wire task: everything pending gets the terminal error, and
\* what is still in the channel is dropped with its oneshot.
Ends(outcome, sent) ==
    /\ wire' = outcome
    /\ answer' = [c \in Waiters |->
          IF answer[c] = "none" /\ c \in pending \cup Range(outbound) \cup sent
          THEN "closed" ELSE answer[c]]
    /\ outbound' = <<>> /\ cancellations' = {} /\ pending' = {}

SendWire(c) ==
    /\ outbound' = Tail(outbound)
    /\ browser' = browser \cup {c}
    /\ pending' = IF c \in Commands THEN pending \cup {c} ELSE pending
    /\ answer' = IF c \in NoWaits THEN [answer EXCEPT ![c] = "sent"] ELSE answer
    /\ UNCHANGED <<caller, cancellations, wire, joinable>>

\* A failed or overdue write ends the task, with the message's own error first.
SendWireFails(c) == Ends("failed", {c}) /\ UNCHANGED <<caller, browser, joinable>>

TakeOutbound ==
    /\ wire = "running" /\ outbound # <<>>
    /\ LET c == Head(outbound) IN
       \/ /\ c \in Waiters /\ IsClosed(c)
          /\ outbound' = Tail(outbound)
          /\ UNCHANGED <<caller, answer, cancellations, pending, browser, wire, joinable>>
       \/ c \in Waiters /\ ~IsClosed(c) /\ (SendWire(c) \/ SendWireFails(c))

\* A close message, with a close of the socket that works or not.
CloseWire ==
    /\ wire = "running" /\ outbound # <<>> /\ Head(outbound) \in Closers
    /\ \E outcome \in {"ok", "failed"} : Ends(outcome, {})
    /\ UNCHANGED <<caller, browser, joinable>>

\* A message with an id: the result or the rejection of a command, or, after
\* a cancellation, of nobody.
RouteAnswer(c) ==
    /\ wire = "running" /\ c \in browser
    /\ browser' = browser \ {c}
    /\ \E result \in {"ok", "rejected"} :
          answer' = IF c \in pending THEN [answer EXCEPT ![c] = result] ELSE answer
    /\ pending' = pending \ {c}
    /\ UNCHANGED <<caller, outbound, cancellations, wire, joinable>>

\* A message that ends the connection: a close frame, data that does not
\* decode, an oversized event, a socket error or the end of the stream.
RouteFatal ==
    /\ wire = "running"
    /\ Ends("failed", {})
    /\ UNCHANGED <<caller, browser, joinable>>
-----------------------------------------------------------------------------
(* Closers. *)

\* The close message cannot be sent: the deadline passes, or the task is gone.
\* The first closer to get here aborts the task it takes when it timed out.
CloseUnsent(c) ==
    /\ c \in Closers /\ caller[c] = "sending" /\ CallerGoes(c, "failed")
    /\ \/ wire # "running" /\ UNCHANGED <<answer, outbound, cancellations, pending, wire>>
       \/ wire = "running" /\ ~joinable
          /\ UNCHANGED <<answer, outbound, cancellations, pending, wire>>
       \/ wire = "running" /\ joinable /\ Ends("aborted", {})
    /\ joinable' = FALSE
    /\ UNCHANGED browser

\* The closer takes the task, if another closer has not, and waits for it.
Join(c) ==
    /\ c \in Closers /\ caller[c] = "joining"
    /\ IF joinable THEN CallerGoes(c, "joined") ELSE CallerGoes(c, "ok")
    /\ joinable' = FALSE
    /\ UNCHANGED <<answer, outbound, cancellations, pending, browser, wire>>

Joined(c) ==
    /\ c \in Closers /\ caller[c] = "joined"
    /\ \/ wire # "running" /\ CallerGoes(c, wire)
          /\ UNCHANGED <<answer, outbound, cancellations, pending, wire>>
       \/ wire = "running" /\ CallerGoes(c, "failed") /\ Ends("aborted", {})
    /\ UNCHANGED <<browser, joinable>>
-----------------------------------------------------------------------------
WireStep == TakeCancellation \/ TakeOutbound \/ CloseWire

CallerStep(c) == Enqueue(c) \/ Refused(c) \/ Answered(c) \/ CancelOnDrop(c)

CloserStep(c) == Enqueue(c) \/ CloseUnsent(c) \/ Join(c) \/ Joined(c)

CommandsNext ==
    \/ WireStep \/ RouteFatal
    \/ \E c \in Waiters : RouteAnswer(c) \/ Expire(c) \/ CallerStep(c)
    \/ \E c \in Closers : CloserStep(c)
    \/ \E c \in Waiters \cup Closers : Start(c)

\* The runtime keeps polling the wire task and every caller. No deadline is
\* assumed to fire and the browser owes no answer.
CommandsFairness ==
    /\ WF_commandVars(WireStep)
    /\ \A c \in Waiters : WF_commandVars(CallerStep(c))
    /\ \A c \in Closers : WF_commandVars(CloserStep(c))

CommandsSpec == CommandsInit /\ [][CommandsNext]_commandVars /\ CommandsFairness

\* Types; the command channel holds at most COMMAND_CAPACITY messages.
CommandsTypeOK ==
    /\ caller \in [Waiters \cup Closers ->
          {"idle", "sending", "waiting", "left", "joining", "joined", "sent",
           "ok", "rejected", "closed", "timeout", "failed", "aborted"}]
    /\ answer \in [Waiters -> {"none", "sent", "ok", "rejected", "closed"}]
    /\ outbound \in Seq(Waiters \cup Closers) /\ Len(outbound) =< COMMAND_CAPACITY
    /\ cancellations \subseteq Commands /\ pending \subseteq Commands
    /\ browser \subseteq Waiters
    /\ wire \in {"running", "ok", "failed", "aborted"} /\ joinable \in BOOLEAN

\* A command nobody waits for leaves the pending table: whichever of the
\* message and the cancellation the wire task takes first, an entry of the
\* table whose caller is gone has its cancellation on the way.
NoAbandonedCommand ==
    \A c \in pending : caller[c] = "timeout" => c \in cancellations

\* No caller waits for an answer that cannot come: its message is in the channel
\* or in the table of a wire task that runs, or its oneshot has the answer.
NobodyStranded ==
    \A c \in Waiters : caller[c] = "waiting" /\ answer[c] = "none" =>
        wire = "running" /\ c \in Range(outbound) \cup pending

\* Once the wire task has ended, however it ended, every caller returns,
\* without a deadline firing: none waits for an answer that cannot come.
WireEnded == wire # "running"
CallersReturned == \A c \in Waiters \cup Closers :
    caller[c] \notin {"sending", "waiting", "left", "joining", "joined"}

=============================================================================

--------------------------- MODULE CaptureJobsInvariant ---------------------------
(***************************************************************************)
(* The inductive invariant of CaptureJobs: what relates the terminal       *)
(* decision, the place of the task, its outcome, its published result and  *)
(* the progress of the shutdown.                                           *)
(***************************************************************************)
EXTENDS CaptureJobs

Unstarted == {"new", "admitted", "refused"}
Working == {"running", "claim", "swap", "commit"}
Settled == {"emit", "finish", "unregister", "notify", "gone"}
Published == {"unregister", "notify", "gone"}

\* Who holds the terminal decision, and that a cancelled token belongs to a
\* claimed cancellation.
DecisionInv ==
    \A j \in Jobs :
        /\ claimedBy[j] = "nobody" <=> decision[j] = "undecided"
        /\ claimedBy[j] = "task" <=> decision[j] = "commit"
        /\ j \in timedOut <=> claimedBy[j] = "deadline"
        /\ pc[j] = "commit" => decision[j] = "commit"
        /\ decision[j] = "commit" => pc[j] \notin Unstarted \cup {"running", "claim", "swap"}
        /\ j \in token => decision[j] = "cancellation"

\* A thread between the two halves of request_cancel saw a cancellation.
SignalInv == \A s \in signalling : decision[s[1]] = "cancellation"

\* What the pipeline returned, against the place of the task and the status.
OutcomeInv ==
    \A j \in Jobs :
        /\ outcome[j] = "none" <=> pc[j] \in Unstarted \cup Working
        /\ j \in committed <=> outcome[j] = "ok"
        /\ outcome[j] = "ok" => decision[j] = "commit"
        /\ outcome[j] = "cancelled" => decision[j] = "cancellation"
        /\ pc[j] \in Unstarted \cup {"running", "settle"} => status[j] \in Pipeline
        /\ pc[j] \in {"claim", "swap", "commit"} => status[j] = "committing"
        /\ pc[j] = "settle" /\ outcome[j] = "ok" => status[j] = "committing"
        /\ pc[j] = "cancelling" => /\ status[j] = "cancelling"
                                   /\ outcome[j] \in {"error", "cancelled"}
                                   /\ decision[j] = "cancellation"

\* The verdict, and the event and the result made of it.
VerdictInv ==
    \A j \in Jobs :
        /\ verdict[j] = "none" <=> pc[j] \notin Settled
        /\ pc[j] \in Settled =>
            /\ status[j] = EventOf[verdict[j]]
            /\ verdict[j] = "ok" <=> outcome[j] = "ok"
            /\ verdict[j] = "timeout" => claimedBy[j] = "deadline"
            /\ verdict[j] = "cancelled" => claimedBy[j] \in {"caller", "close", "token"}
            /\ outcome[j] = "cancelled" => verdict[j] \in {"cancelled", "timeout"}
        /\ pc[j] \in Published \cup {"finish"} => events[j] = EventOf[verdict[j]]
        /\ pc[j] \notin Published \cup {"finish"} => events[j] = "none"
        /\ pc[j] \in Published => result[j] = verdict[j]
        /\ pc[j] \notin Published => result[j] = "none"

\* The registry against the tasks and against the progress of the shutdown.
ShutdownInv ==
    /\ \A j \in Jobs : j \in registry <=> pc[j] \notin Unstarted \cup {"notify", "gone"}
    /\ phase = "OPEN" <=> closing = "none"
    /\ locked <=> closing = "sweep"
    /\ \A j \in swept : decision[j] # "undecided"
    /\ closing \notin {"none", "lock", "sweep"} => \A j \in registry : decision[j] # "undecided"
    /\ shutdown => closing \notin {"none", "lock", "sweep", "cancel"}
    /\ closing \in {"contexts", "backend", "complete", "publish", "done"} /\ closeError = "none"
        => registry = {}
    /\ closeResult # "none" => closing = "done"
    /\ closeResult = "ok" => closeError = "none"

IInv == TypeOK /\ DecisionInv /\ SignalInv /\ OutcomeInv /\ VerdictInv /\ ShutdownInv

=============================================================================

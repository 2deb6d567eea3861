--------------------------- MODULE CaptureJobsProofs ---------------------------
(***************************************************************************)
(* The steps of the capture pipeline, the commit and the steps that settle *)
(* a job preserve the invariant.                                           *)
(***************************************************************************)
EXTENDS CaptureJobsInvariant, TLAPS

\* ensure_open at the head of start.
LEMMA StartStep ==
  ASSUME TypeOK, DecisionInv, SignalInv, OutcomeInv, VerdictInv, ShutdownInv,
         NEW j \in Jobs, Start(j)
  PROVE  IInv'
<1> USE DEF Unstarted, Working, Settled, Published
<1> USE DEF Start, jobVars, controlVars, closeVars
<1>2. TypeOK'
  BY ZenonT(60) DEF TypeOK, Decisions, Claimants, Statuses, Places, Outcomes, Verdicts, Terminal
<1>3. DecisionInv'
  BY ZenonT(60) DEF TypeOK, Decisions, DecisionInv
<1>4. SignalInv'
  BY Zenon DEF TypeOK, Decisions, SignalInv
<1>5. OutcomeInv'
  BY SMTT(60) DEF TypeOK, OutcomeInv, DecisionInv
<1>6. VerdictInv'
  BY SMTT(60) DEF TypeOK, DecisionInv, OutcomeInv, VerdictInv
<1>7. ShutdownInv'
  BY SMTT(60) DEF TypeOK, OutcomeInv, ShutdownInv
<1> QED
  BY <1>2, <1>3, <1>4, <1>5, <1>6, <1>7, Zenon DEF IInv

\* register_job, while the runtime is open and afterwards.
LEMMA RegisterStep ==
  ASSUME TypeOK, DecisionInv, SignalInv, OutcomeInv, VerdictInv, ShutdownInv,
         NEW j \in Jobs, Register(j)
  PROVE  IInv'
<1> USE DEF Unstarted, Working, Settled, Published
<1>1. CASE phase = "OPEN"
  <2>1. /\ pc[j] = "admitted"
        /\ phase = "OPEN"
        /\ registry' = registry \cup {j}
        /\ woken' = TRUE
        /\ armed' = armed \cup {j}
        /\ pc' = [pc EXCEPT ![j] = "running"]
        /\ UNCHANGED <<phase, shutdown, locked, decision, claimedBy, token, signalling, timedOut, status,
                        outcome, verdict, committed, events, result, panics, closer, closing,
                        swept, closeError, closeResult>>
    BY <1>1, Zenon DEF Register, jobVars, controlVars, closeVars, Pipeline, Decisions
  <2>2. TypeOK'
    BY <2>1, SMTT(60) DEF TypeOK, Decisions, Claimants, Statuses, Places, Outcomes, Verdicts, Terminal
  <2>3. DecisionInv'
    BY <2>1, ZenonT(60) DEF TypeOK, Decisions, DecisionInv
  <2>4. SignalInv'
    BY <2>1, Zenon DEF TypeOK, Decisions, SignalInv
  <2>5. OutcomeInv'
    BY <2>1, SMTT(60) DEF TypeOK, OutcomeInv, DecisionInv
  <2>6. VerdictInv'
    BY <2>1, SMTT(60) DEF TypeOK, DecisionInv, OutcomeInv, VerdictInv
  <2>7. ShutdownInv'
    BY <2>1, SMTT(60) DEF TypeOK, OutcomeInv, ShutdownInv
  <2> QED
    BY <2>2, <2>3, <2>4, <2>5, <2>6, <2>7, Zenon DEF IInv
<1>2. CASE phase # "OPEN"
  <2>1. /\ pc[j] = "admitted"
        /\ pc' = [pc EXCEPT ![j] = "refused"]
        /\ UNCHANGED <<phase, shutdown, registry, locked, decision, claimedBy, token, signalling, armed,
                        timedOut, status, outcome, verdict, committed, events, result, panics,
                        closer, closing, swept, woken, closeError, closeResult>>
    BY <1>2, Zenon DEF Register, jobVars, controlVars, closeVars, Pipeline, Decisions
  <2>2. TypeOK'
    BY <2>1, ZenonT(60) DEF TypeOK, Decisions, Claimants, Statuses, Places, Outcomes, Verdicts, Terminal
  <2>3. DecisionInv'
    BY <2>1, ZenonT(60) DEF TypeOK, Decisions, DecisionInv
  <2>4. SignalInv'
    BY <2>1, Zenon DEF TypeOK, Decisions, SignalInv
  <2>5. OutcomeInv'
    BY <2>1, SMTT(60) DEF TypeOK, OutcomeInv, DecisionInv
  <2>6. VerdictInv'
    BY <2>1, SMTT(60) DEF TypeOK, DecisionInv, OutcomeInv, VerdictInv
  <2>7. ShutdownInv'
    BY <2>1, SMTT(60) DEF TypeOK, OutcomeInv, ShutdownInv
  <2> QED
    BY <2>2, <2>3, <2>4, <2>5, <2>6, <2>7, Zenon DEF IInv
<1> QED
  BY <1>1, <1>2, Zenon DEF Register

\* A caller's cancellation claim.
LEMMA CancelStep ==
  ASSUME TypeOK, DecisionInv, SignalInv, OutcomeInv, VerdictInv, ShutdownInv,
         NEW j \in Jobs, Cancel(j)
  PROVE  IInv'
<1> USE DEF Unstarted, Working, Settled, Published
<1> USE DEF Cancel, ClaimCancellation, jobVars, controlVars, closeVars
<1>2. TypeOK'
  BY SMTT(60) DEF TypeOK, Decisions, Claimants, Statuses, Places, Outcomes, Verdicts, Terminal
<1>3. DecisionInv'
  BY ZenonT(60) DEF TypeOK, Decisions, DecisionInv
<1>4. SignalInv'
  BY SMTT(60) DEF TypeOK, Decisions, SignalInv
<1>5. OutcomeInv'
  BY SMTT(60) DEF TypeOK, OutcomeInv, DecisionInv
<1>6. VerdictInv'
  BY SMTT(60) DEF TypeOK, DecisionInv, OutcomeInv, VerdictInv
<1>7. ShutdownInv'
  BY SMTT(60) DEF TypeOK, OutcomeInv, ShutdownInv
<1> QED
  BY <1>2, <1>3, <1>4, <1>5, <1>6, <1>7, Zenon DEF IInv

\* The deadline's cancellation claim.
LEMMA DeadlineStep ==
  ASSUME TypeOK, DecisionInv, SignalInv, OutcomeInv, VerdictInv, ShutdownInv,
         NEW j \in Jobs, Deadline(j)
  PROVE  IInv'
<1> USE DEF Unstarted, Working, Settled, Published
<1> USE DEF Deadline, Cancelled, jobVars, controlVars, closeVars
<1>2. TypeOK'
  BY SMTT(60) DEF TypeOK, Decisions, Claimants, Statuses, Places, Outcomes, Verdicts, Terminal
<1>3. DecisionInv'
  BY ZenonT(60) DEF TypeOK, Decisions, DecisionInv
<1>4. SignalInv'
  BY ZenonT(60) DEF TypeOK, Decisions, SignalInv
<1>5. OutcomeInv'
  BY SMTT(60) DEF TypeOK, OutcomeInv, DecisionInv
<1>6. VerdictInv'
  BY SMTT(60) DEF TypeOK, DecisionInv, OutcomeInv, VerdictInv
<1>7. ShutdownInv'
  BY SMTT(60) DEF TypeOK, OutcomeInv, ShutdownInv
<1> QED
  BY <1>2, <1>3, <1>4, <1>5, <1>6, <1>7, Zenon DEF IInv

\* A stage transition.
LEMMA AdvanceStep ==
  ASSUME TypeOK, DecisionInv, SignalInv, OutcomeInv, VerdictInv, ShutdownInv,
         NEW j \in Jobs, Advance(j)
  PROVE  IInv'
<1> USE DEF Unstarted, Working, Settled, Published
<1> USE DEF Advance, Cancelled, pipelineFrame, jobVars, controlVars, closeVars
<1>2. TypeOK'
  BY SMTT(60) DEF TypeOK, Decisions, Claimants, Statuses, Places, Outcomes, Verdicts, Terminal, Pipeline, Following
<1>3. DecisionInv'
  BY ZenonT(60) DEF TypeOK, Decisions, DecisionInv
<1>4. SignalInv'
  BY Zenon DEF TypeOK, Decisions, SignalInv
<1>5. OutcomeInv'
  BY SMTT(60) DEF TypeOK, OutcomeInv, DecisionInv, Pipeline, Following
<1>6. VerdictInv'
  BY SMTT(60) DEF TypeOK, DecisionInv, OutcomeInv, VerdictInv
<1>7. ShutdownInv'
  BY SMTT(60) DEF TypeOK, OutcomeInv, ShutdownInv
<1> QED
  BY <1>2, <1>3, <1>4, <1>5, <1>6, <1>7, Zenon DEF IInv

\* A failing stage.
LEMMA StageFailsStep ==
  ASSUME TypeOK, DecisionInv, SignalInv, OutcomeInv, VerdictInv, ShutdownInv,
         NEW j \in Jobs, StageFails(j)
  PROVE  IInv'
<1> USE DEF Unstarted, Working, Settled, Published
<1> USE DEF StageFails, Return, pipelineFrame, jobVars, controlVars, closeVars
<1>2. TypeOK'
  BY ZenonT(60) DEF TypeOK, Decisions, Claimants, Statuses, Places, Outcomes, Verdicts, Terminal
<1>3. DecisionInv'
  BY ZenonT(60) DEF TypeOK, Decisions, DecisionInv
<1>4. SignalInv'
  BY Zenon DEF TypeOK, Decisions, SignalInv
<1>5. OutcomeInv'
  BY SMTT(60) DEF TypeOK, OutcomeInv, DecisionInv
<1>6. VerdictInv'
  BY SMTT(60) DEF TypeOK, DecisionInv, OutcomeInv, VerdictInv
<1>7. ShutdownInv'
  BY SMTT(60) DEF TypeOK, OutcomeInv, ShutdownInv
<1> QED
  BY <1>2, <1>3, <1>4, <1>5, <1>6, <1>7, Zenon DEF IInv

\* A panicking stage.
LEMMA PanicStep ==
  ASSUME TypeOK, DecisionInv, SignalInv, OutcomeInv, VerdictInv, ShutdownInv,
         NEW j \in Jobs, Panic(j)
  PROVE  IInv'
<1> USE DEF Unstarted, Working, Settled, Published
<1> USE DEF Panic, Return, pipelineFrame, jobVars, controlVars, closeVars
<1>2. TypeOK'
  BY SMTT(60) DEF TypeOK, Decisions, Claimants, Statuses, Places, Outcomes, Verdicts, Terminal
<1>3. DecisionInv'
  BY ZenonT(60) DEF TypeOK, Decisions, DecisionInv
<1>4. SignalInv'
  BY Zenon DEF TypeOK, Decisions, SignalInv
<1>5. OutcomeInv'
  BY SMTT(60) DEF TypeOK, OutcomeInv, DecisionInv
<1>6. VerdictInv'
  BY SMTT(60) DEF TypeOK, DecisionInv, OutcomeInv, VerdictInv
<1>7. ShutdownInv'
  BY SMTT(60) DEF TypeOK, OutcomeInv, ShutdownInv
<1> QED
  BY <1>2, <1>3, <1>4, <1>5, <1>6, <1>7, Zenon DEF IInv

\* A stage stopped by its token: the decision was claimed before.
LEMMA InterruptStep ==
  ASSUME TypeOK, DecisionInv, SignalInv, OutcomeInv, VerdictInv, ShutdownInv,
         NEW j \in Jobs, Interrupt(j)
  PROVE  IInv'
<1> USE DEF Unstarted, Working, Settled, Published
<1>1. CASE Cancelled(j)
  <2>1. /\ pc[j] = "running"
        /\ decision[j] = "cancellation"
        /\ outcome' = [outcome EXCEPT ![j] = "cancelled"]
        /\ pc' = [pc EXCEPT ![j] = "settle"]
        /\ UNCHANGED <<phase, shutdown, registry, locked, decision, claimedBy, token, signalling, armed,
                        timedOut, status, verdict, committed, events, result, panics, closer,
                        closing, swept, woken, closeError, closeResult>>
    BY <1>1, ZenonT(60) DEF Interrupt, Return, pipelineFrame, Cancelled, TypeOK, DecisionInv, ShutdownInv, Unstarted, jobVars, controlVars, closeVars, Pipeline, Decisions
  <2>2. TypeOK'
    BY <2>1, ZenonT(60) DEF TypeOK, Decisions, Claimants, Statuses, Places, Outcomes, Verdicts, Terminal
  <2>3. DecisionInv'
    BY <2>1, ZenonT(60) DEF TypeOK, Decisions, DecisionInv
  <2>4. SignalInv'
    BY <2>1, Zenon DEF TypeOK, Decisions, SignalInv
  <2>5. OutcomeInv'
    BY <2>1, SMTT(60) DEF TypeOK, OutcomeInv, DecisionInv
  <2>6. VerdictInv'
    BY <2>1, SMTT(60) DEF TypeOK, DecisionInv, OutcomeInv, VerdictInv
  <2>7. ShutdownInv'
    BY <2>1, SMTT(60) DEF TypeOK, OutcomeInv, ShutdownInv
  <2> QED
    BY <2>2, <2>3, <2>4, <2>5, <2>6, <2>7, Zenon DEF IInv
<1> QED
  BY <1>1, Zenon DEF Interrupt

\* The last token check before the claim.
LEMMA ReachCommitStep ==
  ASSUME TypeOK, DecisionInv, SignalInv, OutcomeInv, VerdictInv, ShutdownInv,
         NEW j \in Jobs, ReachCommit(j)
  PROVE  IInv'
<1> USE DEF Unstarted, Working, Settled, Published
<1> USE DEF ReachCommit, pipelineFrame, jobVars, controlVars, closeVars
<1>2. TypeOK'
  BY ZenonT(60) DEF TypeOK, Decisions, Claimants, Statuses, Places, Outcomes, Verdicts, Terminal
<1>3. DecisionInv'
  BY Zenon DEF TypeOK, Decisions, DecisionInv
<1>4. SignalInv'
  BY Zenon DEF TypeOK, Decisions, SignalInv
<1>5. OutcomeInv'
  BY SMTT(60) DEF TypeOK, OutcomeInv, DecisionInv
<1>6. VerdictInv'
  BY SMTT(60) DEF TypeOK, DecisionInv, OutcomeInv, VerdictInv
<1>7. ShutdownInv'
  BY SMTT(60) DEF TypeOK, OutcomeInv, ShutdownInv
<1> QED
  BY <1>2, <1>3, <1>4, <1>5, <1>6, <1>7, Zenon DEF IInv

\* claim_commit looking at the token.
LEMMA ObserveTokenStep ==
  ASSUME TypeOK, DecisionInv, SignalInv, OutcomeInv, VerdictInv, ShutdownInv,
         NEW j \in Jobs, ObserveToken(j)
  PROVE  IInv'
<1> USE DEF Unstarted, Working, Settled, Published
<1>1. CASE Cancelled(j) /\ decision[j] = "undecided"
  <2>1. /\ pc[j] = "claim"
        /\ decision[j] = "undecided"
        /\ pc' = [pc EXCEPT ![j] = "swap"]
        /\ decision' = [decision EXCEPT ![j] = "cancellation"]
        /\ claimedBy' = [claimedBy EXCEPT ![j] = "token"]
        /\ token' = token \cup {j}
        /\ UNCHANGED <<phase, shutdown, registry, locked, signalling, armed, timedOut, status, outcome,
                        verdict, committed, events, result, panics, closer, closing, swept,
                        woken, closeError, closeResult>>
    BY <1>1, Zenon DEF ObserveToken, Cancelled, jobVars, controlVars, closeVars, Pipeline, Decisions
  <2>2. TypeOK'
    BY <2>1, ZenonT(60) DEF TypeOK, Decisions, Claimants, Statuses, Places, Outcomes, Verdicts, Terminal
  <2>3. DecisionInv'
    BY <2>1, Zenon DEF TypeOK, Decisions, DecisionInv
  <2>4. SignalInv'
    BY <2>1, ZenonT(60) DEF TypeOK, Decisions, SignalInv
  <2>5. OutcomeInv'
    BY <2>1, SMTT(60) DEF TypeOK, OutcomeInv, DecisionInv
  <2>6. VerdictInv'
    BY <2>1, SMTT(60) DEF TypeOK, DecisionInv, OutcomeInv, VerdictInv
  <2>7. ShutdownInv'
    BY <2>1, SMTT(60) DEF TypeOK, OutcomeInv, ShutdownInv
  <2> QED
    BY <2>2, <2>3, <2>4, <2>5, <2>6, <2>7, Zenon DEF IInv
<1>2. CASE ~(Cancelled(j) /\ decision[j] = "undecided")
  <2>1. /\ pc[j] = "claim"
        /\ pc' = [pc EXCEPT ![j] = "swap"]
        /\ UNCHANGED <<phase, shutdown, registry, locked, decision, claimedBy, token, signalling, armed,
                        timedOut, status, outcome, verdict, committed, events, result, panics,
                        closer, closing, swept, woken, closeError, closeResult>>
    BY <1>2, Zenon DEF ObserveToken, Cancelled, jobVars, controlVars, closeVars, Pipeline, Decisions
  <2>2. TypeOK'
    BY <2>1, ZenonT(60) DEF TypeOK, Decisions, Claimants, Statuses, Places, Outcomes, Verdicts, Terminal
  <2>3. DecisionInv'
    BY <2>1, Zenon DEF TypeOK, Decisions, DecisionInv
  <2>4. SignalInv'
    BY <2>1, Zenon DEF TypeOK, Decisions, SignalInv
  <2>5. OutcomeInv'
    BY <2>1, SMTT(60) DEF TypeOK, OutcomeInv, DecisionInv
  <2>6. VerdictInv'
    BY <2>1, SMTT(60) DEF TypeOK, DecisionInv, OutcomeInv, VerdictInv
  <2>7. ShutdownInv'
    BY <2>1, SMTT(60) DEF TypeOK, OutcomeInv, ShutdownInv
  <2> QED
    BY <2>2, <2>3, <2>4, <2>5, <2>6, <2>7, Zenon DEF IInv
<1> QED
  BY <1>1, <1>2, Zenon DEF ObserveToken

\* claim_commit's compare-and-swap.
LEMMA ClaimCommitStep ==
  ASSUME TypeOK, DecisionInv, SignalInv, OutcomeInv, VerdictInv, ShutdownInv,
         NEW j \in Jobs, ClaimCommit(j)
  PROVE  IInv'
<1> USE DEF Unstarted, Working, Settled, Published
<1>1. CASE decision[j] = "undecided"
  <2>1. /\ pc[j] = "swap"
        /\ decision[j] = "undecided"
        /\ decision' = [decision EXCEPT ![j] = "commit"]
        /\ claimedBy' = [claimedBy EXCEPT ![j] = "task"]
        /\ pc' = [pc EXCEPT ![j] = "commit"]
        /\ UNCHANGED <<phase, shutdown, registry, locked, token, signalling, armed, timedOut, status,
                        outcome, verdict, committed, events, result, panics, closer, closing,
                        swept, woken, closeError, closeResult>>
    BY <1>1, Zenon DEF ClaimCommit, Return, jobVars, controlVars, closeVars, Pipeline, Decisions
  <2>2. TypeOK'
    BY <2>1, ZenonT(60) DEF TypeOK, Decisions, Claimants, Statuses, Places, Outcomes, Verdicts, Terminal
  <2>3. DecisionInv'
    BY <2>1, ZenonT(60) DEF TypeOK, Decisions, DecisionInv
  <2>4. SignalInv'
    BY <2>1, Zenon DEF TypeOK, Decisions, SignalInv
  <2>5. OutcomeInv'
    BY <2>1, SMTT(60) DEF TypeOK, OutcomeInv, DecisionInv, Pipeline
  <2>6. VerdictInv'
    BY <2>1, SMTT(60) DEF TypeOK, DecisionInv, OutcomeInv, VerdictInv
  <2>7. ShutdownInv'
    BY <2>1, SMTT(60) DEF TypeOK, OutcomeInv, ShutdownInv
  <2> QED
    BY <2>2, <2>3, <2>4, <2>5, <2>6, <2>7, Zenon DEF IInv
<1>2. CASE decision[j] # "undecided"
  <2>1. /\ pc[j] = "swap"
        /\ decision[j] = "cancellation"
        /\ outcome' = [outcome EXCEPT ![j] = "cancelled"]
        /\ pc' = [pc EXCEPT ![j] = "settle"]
        /\ UNCHANGED <<phase, shutdown, registry, locked, decision, claimedBy, token, signalling, armed,
                        timedOut, status, verdict, committed, events, result, panics, closer,
                        closing, swept, woken, closeError, closeResult>>
    BY <1>2, Zenon DEF ClaimCommit, Return, TypeOK, DecisionInv, jobVars, controlVars, closeVars, Pipeline, Decisions
  <2>2. TypeOK'
    BY <2>1, ZenonT(60) DEF TypeOK, Decisions, Claimants, Statuses, Places, Outcomes, Verdicts, Terminal
  <2>3. DecisionInv'
    BY <2>1, ZenonT(60) DEF TypeOK, Decisions, DecisionInv
  <2>4. SignalInv'
    BY <2>1, Zenon DEF TypeOK, Decisions, SignalInv
  <2>5. OutcomeInv'
    BY <2>1, SMTT(60) DEF TypeOK, OutcomeInv, DecisionInv, Pipeline
  <2>6. VerdictInv'
    BY <2>1, SMTT(60) DEF TypeOK, DecisionInv, OutcomeInv, VerdictInv
  <2>7. ShutdownInv'
    BY <2>1, SMTT(60) DEF TypeOK, OutcomeInv, ShutdownInv
  <2> QED
    BY <2>2, <2>3, <2>4, <2>5, <2>6, <2>7, Zenon DEF IInv
<1> QED
  BY <1>1, <1>2, Zenon DEF ClaimCommit

\* The commit of the staged artifact.
LEMMA CommitStep ==
  ASSUME TypeOK, DecisionInv, SignalInv, OutcomeInv, VerdictInv, ShutdownInv,
         NEW j \in Jobs, Commit(j)
  PROVE  IInv'
<1> USE DEF Unstarted, Working, Settled, Published
<1>1. CASE outcome'[j] = "ok"
  <2>1. /\ pc[j] = "commit"
        /\ committed' = committed \cup {j}
        /\ outcome' = [outcome EXCEPT ![j] = "ok"]
        /\ pc' = [pc EXCEPT ![j] = "settle"]
        /\ UNCHANGED <<phase, shutdown, registry, locked, decision, claimedBy, token, signalling, armed,
                        timedOut, status, verdict, events, result, panics, closer, closing,
                        swept, woken, closeError, closeResult>>
    BY <1>1, Zenon DEF Commit, Return, pipelineFrame, TypeOK, jobVars, controlVars, closeVars, Pipeline, Decisions
  <2>2. TypeOK'
    BY <2>1, ZenonT(40) DEF TypeOK, Decisions, Claimants, Statuses, Places, Outcomes, Verdicts, Terminal
  <2>3. DecisionInv'
    BY <2>1, ZenonT(60) DEF TypeOK, Decisions, DecisionInv
  <2>4. SignalInv'
    BY <2>1, Zenon DEF TypeOK, Decisions, SignalInv
  <2>5. OutcomeInv'
    BY <2>1, SMTT(60) DEF TypeOK, OutcomeInv, DecisionInv, Pipeline
  <2>6. VerdictInv'
    BY <2>1, SMTT(60) DEF TypeOK, DecisionInv, OutcomeInv, VerdictInv
  <2>7. ShutdownInv'
    BY <2>1, SMTT(60) DEF TypeOK, OutcomeInv, ShutdownInv
  <2> QED
    BY <2>2, <2>3, <2>4, <2>5, <2>6, <2>7, Zenon DEF IInv
<1>2. CASE outcome'[j] # "ok"
  <2>1. /\ pc[j] = "commit"
        /\ outcome' = [outcome EXCEPT ![j] = "error"]
        /\ pc' = [pc EXCEPT ![j] = "settle"]
        /\ UNCHANGED <<phase, shutdown, registry, locked, decision, claimedBy, token, signalling, armed,
                        timedOut, status, verdict, committed, events, result, panics, closer,
                        closing, swept, woken, closeError, closeResult>>
    BY <1>2, ZenonT(60) DEF Commit, Return, pipelineFrame, TypeOK, jobVars, controlVars, closeVars, Pipeline, Decisions
  <2>2. TypeOK'
    BY <2>1, ZenonT(60) DEF TypeOK, Decisions, Claimants, Statuses, Places, Outcomes, Verdicts, Terminal
  <2>3. DecisionInv'
    BY <2>1, ZenonT(60) DEF TypeOK, Decisions, DecisionInv
  <2>4. SignalInv'
    BY <2>1, Zenon DEF TypeOK, Decisions, SignalInv
  <2>5. OutcomeInv'
    BY <2>1, SMTT(60) DEF TypeOK, OutcomeInv, DecisionInv, Pipeline
  <2>6. VerdictInv'
    BY <2>1, SMTT(60) DEF TypeOK, DecisionInv, OutcomeInv, VerdictInv
  <2>7. ShutdownInv'
    BY <2>1, SMTT(60) DEF TypeOK, OutcomeInv, ShutdownInv
  <2> QED
    BY <2>2, <2>3, <2>4, <2>5, <2>6, <2>7, Zenon DEF IInv
<1> QED
  BY <1>1, <1>2, Zenon DEF Commit

\* The match on the pipeline's result.
LEMMA SettleStep ==
  ASSUME TypeOK, DecisionInv, SignalInv, OutcomeInv, VerdictInv, ShutdownInv,
         NEW j \in Jobs, Settle(j)
  PROVE  IInv'
<1> USE DEF Unstarted, Working, Settled, Published
<1>1. CASE outcome[j] = "ok"
  <2>1. /\ pc[j] = "settle"
        /\ outcome[j] = "ok"
        /\ status' = [status EXCEPT ![j] = "succeeded"]
        /\ verdict' = [verdict EXCEPT ![j] = "ok"]
        /\ pc' = [pc EXCEPT ![j] = "emit"]
        /\ UNCHANGED <<phase, shutdown, registry, locked, decision, claimedBy, token, signalling, armed,
                        timedOut, outcome, committed, events, result, panics, closer, closing,
                        swept, woken, closeError, closeResult>>
    BY <1>1, Zenon DEF Settle, Fail, can_transition, settleFrame, OutcomeInv, jobVars, controlVars, closeVars, Pipeline, Decisions
  <2>2. TypeOK'
    BY <2>1, ZenonT(60) DEF TypeOK, Decisions, Claimants, Statuses, Places, Outcomes, Verdicts, Terminal
  <2>3. DecisionInv'
    BY <2>1, ZenonT(60) DEF TypeOK, Decisions, DecisionInv
  <2>4. SignalInv'
    BY <2>1, Zenon DEF TypeOK, Decisions, SignalInv
  <2>5. OutcomeInv'
    BY <2>1, SMTT(60) DEF TypeOK, OutcomeInv, DecisionInv
  <2>6. VerdictInv'
    BY <2>1, SMTT(60) DEF TypeOK, DecisionInv, OutcomeInv, VerdictInv, EventOf, Pipeline
  <2>7. ShutdownInv'
    BY <2>1, SMTT(60) DEF TypeOK, OutcomeInv, ShutdownInv
  <2> QED
    BY <2>2, <2>3, <2>4, <2>5, <2>6, <2>7, Zenon DEF IInv
<1>2. CASE outcome[j] \in {"error", "cancelled"} /\ decision[j] = "cancellation"
  <2>1. /\ pc[j] = "settle"
        /\ outcome[j] \in {"error", "cancelled"}
        /\ decision[j] = "cancellation"
        /\ status' = [status EXCEPT ![j] = "cancelling"]
        /\ pc' = [pc EXCEPT ![j] = "cancelling"]
        /\ UNCHANGED <<phase, shutdown, registry, locked, decision, claimedBy, token, signalling, armed,
                        timedOut, outcome, verdict, committed, events, result, panics, closer,
                        closing, swept, woken, closeError, closeResult>>
    BY <1>2, Zenon DEF Settle, Fail, can_transition, settleFrame, OutcomeInv, jobVars, controlVars, closeVars, Pipeline, Decisions
  <2>2. TypeOK'
    BY <2>1, ZenonT(60) DEF TypeOK, Decisions, Claimants, Statuses, Places, Outcomes, Verdicts, Terminal
  <2>3. DecisionInv'
    BY <2>1, ZenonT(60) DEF TypeOK, Decisions, DecisionInv
  <2>4. SignalInv'
    BY <2>1, Zenon DEF TypeOK, Decisions, SignalInv
  <2>5. OutcomeInv'
    BY <2>1, SMTT(60) DEF TypeOK, OutcomeInv, DecisionInv
  <2>6. VerdictInv'
    BY <2>1, SMTT(60) DEF TypeOK, DecisionInv, OutcomeInv, VerdictInv, EventOf, Pipeline
  <2>7. ShutdownInv'
    BY <2>1, SMTT(60) DEF TypeOK, OutcomeInv, ShutdownInv
  <2> QED
    BY <2>2, <2>3, <2>4, <2>5, <2>6, <2>7, Zenon DEF IInv
<1>3. CASE (outcome[j] = "error" /\ decision[j] # "cancellation") \/ outcome[j] = "panic"
  <2>1. /\ pc[j] = "settle"
        /\ outcome[j] \in {"error", "panic"}
        /\ status' = [status EXCEPT ![j] = "failed"]
        /\ verdict' = [verdict EXCEPT ![j] = "failed"]
        /\ pc' = [pc EXCEPT ![j] = "emit"]
        /\ UNCHANGED <<phase, shutdown, registry, locked, decision, claimedBy, token, signalling, armed,
                        timedOut, outcome, committed, events, result, panics, closer, closing,
                        swept, woken, closeError, closeResult>>
    BY <1>3, Zenon DEF Settle, Fail, can_transition, settleFrame, OutcomeInv, jobVars, controlVars, closeVars, Pipeline, Decisions
  <2>2. TypeOK'
    BY <2>1, ZenonT(60) DEF TypeOK, Decisions, Claimants, Statuses, Places, Outcomes, Verdicts, Terminal
  <2>3. DecisionInv'
    BY <2>1, ZenonT(60) DEF TypeOK, Decisions, DecisionInv
  <2>4. SignalInv'
    BY <2>1, Zenon DEF TypeOK, Decisions, SignalInv
  <2>5. OutcomeInv'
    BY <2>1, SMTT(60) DEF TypeOK, OutcomeInv, DecisionInv
  <2>6. VerdictInv'
    BY <2>1, SMTT(60) DEF TypeOK, DecisionInv, OutcomeInv, VerdictInv, EventOf, Pipeline
  <2>7. ShutdownInv'
    BY <2>1, SMTT(60) DEF TypeOK, OutcomeInv, ShutdownInv
  <2> QED
    BY <2>2, <2>3, <2>4, <2>5, <2>6, <2>7, Zenon DEF IInv
<1> QED
  BY <1>1, <1>2, <1>3, Zenon DEF Settle, OutcomeInv, TypeOK, Outcomes

\* The second transition of a cancelled job.
LEMMA SettleCancelledStep ==
  ASSUME TypeOK, DecisionInv, SignalInv, OutcomeInv, VerdictInv, ShutdownInv,
         NEW j \in Jobs, SettleCancelled(j)
  PROVE  IInv'
<1> USE DEF Unstarted, Working, Settled, Published
<1>1. CASE j \in timedOut
  <2>1. /\ pc[j] = "cancelling"
        /\ j \in timedOut
        /\ status' = [status EXCEPT ![j] = "cancelled"]
        /\ verdict' = [verdict EXCEPT ![j] = "timeout"]
        /\ pc' = [pc EXCEPT ![j] = "emit"]
        /\ UNCHANGED <<phase, shutdown, registry, locked, decision, claimedBy, token, signalling, armed,
                        timedOut, outcome, committed, events, result, panics, closer, closing,
                        swept, woken, closeError, closeResult>>
    BY <1>1, Zenon DEF SettleCancelled, Fail, can_transition, settleFrame, OutcomeInv, jobVars, controlVars, closeVars, Pipeline, Decisions
  <2>2. TypeOK'
    BY <2>1, ZenonT(60) DEF TypeOK, Decisions, Claimants, Statuses, Places, Outcomes, Verdicts, Terminal
  <2>3. DecisionInv'
    BY <2>1, ZenonT(60) DEF TypeOK, Decisions, DecisionInv
  <2>4. SignalInv'
    BY <2>1, Zenon DEF TypeOK, Decisions, SignalInv
  <2>5. OutcomeInv'
    BY <2>1, SMTT(60) DEF TypeOK, OutcomeInv, DecisionInv
  <2>6. VerdictInv'
    BY <2>1, SMTT(60) DEF TypeOK, DecisionInv, OutcomeInv, VerdictInv, EventOf, Claimants
  <2>7. ShutdownInv'
    BY <2>1, SMTT(60) DEF TypeOK, OutcomeInv, ShutdownInv
  <2> QED
    BY <2>2, <2>3, <2>4, <2>5, <2>6, <2>7, Zenon DEF IInv
<1>2. CASE j \notin timedOut
  <2>1. /\ pc[j] = "cancelling"
        /\ j \notin timedOut
        /\ status' = [status EXCEPT ![j] = "cancelled"]
        /\ verdict' = [verdict EXCEPT ![j] = "cancelled"]
        /\ pc' = [pc EXCEPT ![j] = "emit"]
        /\ UNCHANGED <<phase, shutdown, registry, locked, decision, claimedBy, token, signalling, armed,
                        timedOut, outcome, committed, events, result, panics, closer, closing,
                        swept, woken, closeError, closeResult>>
    BY <1>2, ZenonT(60) DEF SettleCancelled, Fail, can_transition, settleFrame, OutcomeInv, jobVars, controlVars, closeVars, Pipeline, Decisions
  <2>2. TypeOK'
    BY <2>1, ZenonT(60) DEF TypeOK, Decisions, Claimants, Statuses, Places, Outcomes, Verdicts, Terminal
  <2>3. DecisionInv'
    BY <2>1, ZenonT(60) DEF TypeOK, Decisions, DecisionInv
  <2>4. SignalInv'
    BY <2>1, Zenon DEF TypeOK, Decisions, SignalInv
  <2>5. OutcomeInv'
    BY <2>1, SMTT(60) DEF TypeOK, OutcomeInv, DecisionInv
  <2>6. VerdictInv'
    BY <2>1, SMTT(60) DEF TypeOK, DecisionInv, OutcomeInv, VerdictInv, EventOf, Claimants
  <2>7. ShutdownInv'
    BY <2>1, SMTT(60) DEF TypeOK, OutcomeInv, ShutdownInv
  <2> QED
    BY <2>2, <2>3, <2>4, <2>5, <2>6, <2>7, Zenon DEF IInv
<1> QED
  BY <1>1, <1>2, Zenon DEF SettleCancelled

\* The terminal event.
LEMMA EmitStep ==
  ASSUME TypeOK, DecisionInv, SignalInv, OutcomeInv, VerdictInv, ShutdownInv,
         NEW j \in Jobs, Emit(j)
  PROVE  IInv'
<1> USE DEF Unstarted, Working, Settled, Published
<1> USE DEF Emit, settleFrame, jobVars, controlVars, closeVars
<1>2. TypeOK'
  BY SMTT(60) DEF TypeOK, Decisions, Claimants, Statuses, Places, Outcomes, Verdicts, Terminal, VerdictInv, EventOf
<1>3. DecisionInv'
  BY ZenonT(60) DEF TypeOK, Decisions, DecisionInv
<1>4. SignalInv'
  BY Zenon DEF TypeOK, Decisions, SignalInv
<1>5. OutcomeInv'
  BY SMTT(60) DEF TypeOK, OutcomeInv, DecisionInv
<1>6. VerdictInv'
  BY SMTT(60) DEF TypeOK, DecisionInv, OutcomeInv, VerdictInv
<1>7. ShutdownInv'
  BY SMTT(60) DEF TypeOK, OutcomeInv, ShutdownInv
<1> QED
  BY <1>2, <1>3, <1>4, <1>5, <1>6, <1>7, Zenon DEF IInv

\* The published result.
LEMMA FinishStep ==
  ASSUME TypeOK, DecisionInv, SignalInv, OutcomeInv, VerdictInv, ShutdownInv,
         NEW j \in Jobs, Finish(j)
  PROVE  IInv'
<1> USE DEF Unstarted, Working, Settled, Published
<1> USE DEF Finish, settleFrame, jobVars, controlVars, closeVars
<1>2. TypeOK'
  BY ZenonT(60) DEF TypeOK, Decisions, Claimants, Statuses, Places, Outcomes, Verdicts, Terminal
<1>3. DecisionInv'
  BY ZenonT(60) DEF TypeOK, Decisions, DecisionInv
<1>4. SignalInv'
  BY Zenon DEF TypeOK, Decisions, SignalInv
<1>5. OutcomeInv'
  BY SMTT(60) DEF TypeOK, OutcomeInv, DecisionInv
<1>6. VerdictInv'
  BY SMTT(60) DEF TypeOK, DecisionInv, OutcomeInv, VerdictInv
<1>7. ShutdownInv'
  BY SMTT(60) DEF TypeOK, OutcomeInv, ShutdownInv
<1> QED
  BY <1>2, <1>3, <1>4, <1>5, <1>6, <1>7, Zenon DEF IInv

\* The removal from the registry.
LEMMA UnregisterStep ==
  ASSUME TypeOK, DecisionInv, SignalInv, OutcomeInv, VerdictInv, ShutdownInv,
         NEW j \in Jobs, Unregister(j)
  PROVE  IInv'
<1> USE DEF Unstarted, Working, Settled, Published
<1> USE DEF Unregister, settleFrame, jobVars, controlVars, closeVars
<1>2. TypeOK'
  BY Zenon DEF TypeOK, Decisions, Claimants, Statuses, Places, Outcomes, Verdicts, Terminal
<1>3. DecisionInv'
  BY ZenonT(60) DEF TypeOK, Decisions, DecisionInv
<1>4. SignalInv'
  BY Zenon DEF TypeOK, Decisions, SignalInv
<1>5. OutcomeInv'
  BY SMTT(60) DEF TypeOK, OutcomeInv, DecisionInv
<1>6. VerdictInv'
  BY SMTT(60) DEF TypeOK, DecisionInv, OutcomeInv, VerdictInv
<1>7. ShutdownInv'
  BY SMTT(60) DEF TypeOK, OutcomeInv, ShutdownInv
<1> QED
  BY <1>2, <1>3, <1>4, <1>5, <1>6, <1>7, Zenon DEF IInv

\* The notification of the removal.
LEMMA NotifyStep ==
  ASSUME TypeOK, DecisionInv, SignalInv, OutcomeInv, VerdictInv, ShutdownInv,
         NEW j \in Jobs, Notify(j)
  PROVE  IInv'
<1> USE DEF Unstarted, Working, Settled, Published
<1> USE DEF Notify, settleFrame, jobVars, controlVars, closeVars
<1>2. TypeOK'
  BY Zenon DEF TypeOK, Decisions, Claimants, Statuses, Places, Outcomes, Verdicts, Terminal
<1>3. DecisionInv'
  BY ZenonT(60) DEF TypeOK, Decisions, DecisionInv
<1>4. SignalInv'
  BY Zenon DEF TypeOK, Decisions, SignalInv
<1>5. OutcomeInv'
  BY SMTT(60) DEF TypeOK, OutcomeInv, DecisionInv
<1>6. VerdictInv'
  BY SMTT(60) DEF TypeOK, DecisionInv, OutcomeInv, VerdictInv
<1>7. ShutdownInv'
  BY SMTT(60) DEF TypeOK, OutcomeInv, ShutdownInv
<1> QED
  BY <1>2, <1>3, <1>4, <1>5, <1>6, <1>7, Zenon DEF IInv

\* The second half of request_cancel.
LEMMA SignalStep ==
  ASSUME TypeOK, DecisionInv, SignalInv, OutcomeInv, VerdictInv, ShutdownInv,
         NEW j \in Jobs, NEW who \in {"caller", "close"}, Signal(j, who)
  PROVE  IInv'
<1> USE DEF Unstarted, Working, Settled, Published
<1> USE DEF Signal, jobVars, controlVars, closeVars
<1>2. TypeOK'
  BY ZenonT(60) DEF TypeOK, Decisions, Claimants, Statuses, Places, Outcomes, Verdicts, Terminal
<1>3. DecisionInv'
  BY ZenonT(60) DEF TypeOK, Decisions, DecisionInv, SignalInv
<1>4. SignalInv'
  BY Zenon DEF TypeOK, Decisions, SignalInv
<1>5. OutcomeInv'
  BY ZenonT(60) DEF TypeOK, OutcomeInv, DecisionInv
<1>6. VerdictInv'
  BY ZenonT(60) DEF TypeOK, DecisionInv, OutcomeInv, VerdictInv
<1>7. ShutdownInv'
  BY SMTT(60) DEF TypeOK, OutcomeInv, ShutdownInv
<1> QED
  BY <1>2, <1>3, <1>4, <1>5, <1>6, <1>7, Zenon DEF IInv

\* close claiming the decision of one registered job.
LEMMA SweepStep ==
  ASSUME TypeOK, DecisionInv, SignalInv, OutcomeInv, VerdictInv, ShutdownInv,
         NEW j \in Jobs, Sweep(j)
  PROVE  IInv'
<1> USE DEF Unstarted, Working, Settled, Published
<1> USE DEF Sweep, ClaimCancellation, jobVars, controlVars, closeVars
<1>2. TypeOK'
  BY SMTT(60) DEF TypeOK, Decisions, Claimants, Statuses, Places, Outcomes, Verdicts, Terminal
<1>3. DecisionInv'
  BY ZenonT(60) DEF TypeOK, Decisions, DecisionInv
<1>4. SignalInv'
  BY SMTT(60) DEF TypeOK, Decisions, SignalInv
<1>5. OutcomeInv'
  BY SMTT(60) DEF TypeOK, OutcomeInv, DecisionInv
<1>6. VerdictInv'
  BY SMTT(60) DEF TypeOK, DecisionInv, OutcomeInv, VerdictInv
<1>7. ShutdownInv'
  BY SMTT(60) DEF TypeOK, OutcomeInv, ShutdownInv, Decisions
<1> QED
  BY <1>2, <1>3, <1>4, <1>5, <1>6, <1>7, Zenon DEF IInv

\* Steps that leave the jobs alone keep what is said about the jobs.
LEMMA JobsUntouched ==
  ASSUME DecisionInv, SignalInv, OutcomeInv, VerdictInv, UNCHANGED <<controlVars, jobVars>>
  PROVE  DecisionInv' /\ SignalInv' /\ OutcomeInv' /\ VerdictInv'
<1>1. DecisionInv' /\ SignalInv'
  BY Zenon DEF DecisionInv, SignalInv, controlVars, jobVars
<1>2. OutcomeInv'
  BY ZenonT(60) DEF OutcomeInv, controlVars, jobVars
<1>3. VerdictInv'
  BY ZenonT(60) DEF VerdictInv, controlVars, jobVars
<1> QED
  BY <1>1, <1>2, <1>3, Zenon

\* The steps of close that leave the jobs alone.
LEMMA CloseStep ==
  ASSUME TypeOK, DecisionInv, SignalInv, OutcomeInv, VerdictInv, ShutdownInv,
         \/ \E c \in Closers : BeginClose(c) \/ CloseReturns(c)
         \/ LockRegistry \/ UnlockRegistry \/ CancelShutdown \/ AwaitCheckpoints \/ ArmNotification
         \/ InspectRegistry \/ Wake \/ AwaitContexts \/ CloseBackend
         \/ MarkClosed \/ Publish \/ JobsTimeout
  PROVE  IInv'
<1> USE DEF jobVars, controlVars, closeVars, ShutdownStep
<1> DEFINE kept == TypeOK' /\ ShutdownInv' /\ UNCHANGED <<controlVars, jobVars>>
<1> SUFFICES kept
  BY JobsUntouched, Zenon DEF IInv
<1>1. CASE \E c \in Closers : BeginClose(c)
  BY <1>1, SMTT(60) DEF BeginClose, TypeOK, ShutdownInv, ShutdownPlaces, ShutdownErrors
<1>2. CASE \E c \in Closers : CloseReturns(c)
  BY <1>2, SMTT(60) DEF CloseReturns, TypeOK, ShutdownInv, ShutdownPlaces, ShutdownErrors
<1>3. CASE LockRegistry
  BY <1>3, SMTT(60) DEF LockRegistry, TypeOK, ShutdownInv, ShutdownPlaces, ShutdownErrors
<1>4. CASE UnlockRegistry
  BY <1>4, ZenonT(60) DEF UnlockRegistry, TypeOK, ShutdownInv, ShutdownPlaces, ShutdownErrors
<1>5. CASE CancelShutdown
  BY <1>5, SMTT(60) DEF CancelShutdown, TypeOK, ShutdownInv, ShutdownPlaces, ShutdownErrors
<1>6. CASE AwaitCheckpoints
  BY <1>6, SMTT(60) DEF AwaitCheckpoints, TypeOK, ShutdownInv, ShutdownPlaces, ShutdownErrors
<1>7. CASE ArmNotification
  BY <1>7, ZenonT(60) DEF ArmNotification, TypeOK, ShutdownInv, ShutdownPlaces, ShutdownErrors
<1>8. CASE InspectRegistry
  BY <1>8, SMTT(60) DEF InspectRegistry, TypeOK, ShutdownInv, ShutdownPlaces, ShutdownErrors
<1>9. CASE Wake
  BY <1>9, SMTT(60) DEF Wake, TypeOK, ShutdownInv, ShutdownPlaces, ShutdownErrors
<1>10. CASE AwaitContexts
  BY <1>10, SMTT(60) DEF AwaitContexts, TypeOK, ShutdownInv, ShutdownPlaces, ShutdownErrors
<1>11. CASE CloseBackend
  BY <1>11, SMTT(60) DEF CloseBackend, TypeOK, ShutdownInv, ShutdownPlaces, ShutdownErrors
<1>12. CASE MarkClosed
  BY <1>12, SMTT(60) DEF MarkClosed, TypeOK, ShutdownInv, ShutdownPlaces, ShutdownErrors
<1>13. CASE Publish
  BY <1>13, SMTT(60) DEF Publish, TypeOK, ShutdownInv, ShutdownPlaces, ShutdownErrors
<1>14. CASE JobsTimeout
  BY <1>14, SMTT(60) DEF JobsTimeout, TypeOK, ShutdownInv, ShutdownPlaces, ShutdownErrors
<1> QED
  BY <1>1, <1>2, <1>3, <1>4, <1>5, <1>6, <1>7, <1>8, <1>9, <1>10, <1>11, <1>12, <1>13, <1>14, Zenon

\* Every step of the runtime preserves the invariant.
LEMMA Preservation == IInv /\ [Next]_vars => IInv'
<1>1. IInv /\ UNCHANGED vars => IInv'
  <2> SUFFICES ASSUME IInv, UNCHANGED vars PROVE IInv'
    BY Zenon
  <2>1. TypeOK' /\ ShutdownInv'
    BY SMTT(60) DEF vars, IInv, TypeOK, ShutdownInv
  <2> QED
    BY <2>1, JobsUntouched, Zenon DEF IInv, vars, controlVars, jobVars
<1>2. IInv /\ Next => IInv'
  BY StartStep, RegisterStep, CancelStep, DeadlineStep, AdvanceStep, StageFailsStep,
     PanicStep, InterruptStep, ReachCommitStep, ObserveTokenStep, ClaimCommitStep,
     CommitStep, SettleStep, SettleCancelledStep, EmitStep, FinishStep,
     UnregisterStep, NotifyStep, SignalStep, SweepStep, CloseStep,
     ZenonT(30)
  DEF IInv, Next, Job, TaskStep, Shutdown
<1> QED
  BY <1>1, <1>2, Zenon

\* The initial state satisfies the invariant.
LEMMA Initial == Init => IInv
<1> SUFFICES ASSUME Init PROVE IInv
  BY Zenon
<1>1. TypeOK
  BY Zenon DEF Init, TypeOK, Decisions, Claimants, Statuses, Places, Outcomes, Verdicts, ShutdownErrors,
           ShutdownPlaces, Pipeline
<1>2. DecisionInv /\ SignalInv
  BY Zenon DEF Init, DecisionInv, SignalInv, Unstarted
<1>3. OutcomeInv
  BY Zenon DEF Init, OutcomeInv, Unstarted, Working, Pipeline
<1>4. VerdictInv
  BY Zenon DEF Init, VerdictInv, Settled, Published
<1>5. ShutdownInv
  BY Zenon DEF Init, ShutdownInv, Unstarted
<1> QED
  BY <1>1, <1>2, <1>3, <1>4, <1>5, Zenon DEF IInv

\* The invariant holds in every reachable state.
THEOREM Invariance == Spec => []IInv
  BY Initial, Preservation, PTL DEF Spec

\* The variables keep their types.
THEOREM TypeCorrect == Spec => []TypeOK
  BY Invariance, PTL DEF IInv

\* JobControl: a claimed cancellation and a committed artifact exclude each
\* other, for any number of jobs and callers.
THEOREM CancellationWins == Spec => []CancellationLeavesDestination
<1>1. IInv => CancellationLeavesDestination
  BY ZenonT(60) DEF IInv, TypeOK, DecisionInv, OutcomeInv, CancellationLeavesDestination
<1> QED
  BY <1>1, Invariance, PTL

\* run_capture_job: result, status, terminal event and artifact agree.
THEOREM Agreement == Spec => []TerminalAgreement
<1>1. IInv => TerminalAgreement
  <2> SUFFICES ASSUME IInv, NEW j \in Jobs, result[j] # "none"
               PROVE  /\ result[j] = "ok" <=> j \in committed
                      /\ status[j] = EventOf[result[j]]
                      /\ events[j] = EventOf[result[j]]
                      /\ result[j] = "timeout" => claimedBy[j] = "deadline"
                      /\ result[j] = "cancelled" => claimedBy[j] \in {"caller", "close", "token"}
    BY Zenon DEF TerminalAgreement
  <2>1. pc[j] \in Published /\ result[j] = verdict[j]
    BY Zenon DEF IInv, VerdictInv
  <2> QED
    BY <2>1, ZenonT(60) DEF IInv, OutcomeInv, VerdictInv, Published, Settled
<1> QED
  BY <1>1, Invariance, PTL

\* close claims the decision of every registered job before it wakes them, so
\* that no cancelled pipeline is reported as a failure.
THEOREM NeverFails == Spec => []CancellationNeverFails
<1>1. IInv => CancellationNeverFails
  BY Zenon DEF IInv, VerdictInv, CancellationNeverFails
<1> QED
  BY <1>1, Invariance, PTL

\* finish_close: a successful close leaves no registered and no unsettled job.
THEOREM Settlement == Spec => []ClosedMeansSettled
<1>1. IInv => ClosedMeansSettled
  BY SMTT(60) DEF IInv, TypeOK, VerdictInv, ShutdownInv, ClosedMeansSettled, Unstarted, Settled, Published
<1> QED
  BY <1>1, Invariance, PTL

\* The registry only shrinks once its lock was taken by close; results and
\* terminal decisions are final.
THEOREM Finality == Spec => NoLateChange
<1>1. IInv /\ [Next]_vars =>
        [/\ closing \notin {"none", "lock"} => registry' \subseteq registry
         /\ \A j \in Jobs : /\ result[j] # "none" => result'[j] = result[j]
                            /\ events[j] # "none" => events'[j] = events[j]
                            /\ decision[j] # "undecided" => decision'[j] = decision[j]]_vars
  <2> SUFFICES ASSUME IInv, [Next]_vars
               PROVE  /\ closing \notin {"none", "lock"} => registry' \subseteq registry
                      /\ \A i \in Jobs : /\ result[i] # "none" => result'[i] = result[i]
                                         /\ events[i] # "none" => events'[i] = events[i]
                                         /\ decision[i] # "undecided" => decision'[i] = decision[i]
    BY Zenon
  <2> USE DEF jobVars, controlVars, closeVars
  <2>1. CASE \E j \in Jobs : Register(j) \/ Unregister(j)
    BY <2>1, Zenon DEF Register, Unregister, IInv, ShutdownInv, settleFrame
  <2>2. CASE \E j \in Jobs : Cancel(j) \/ Sweep(j)
    BY <2>2, SMTT(60) DEF Cancel, Sweep, ClaimCancellation, IInv, TypeOK
  <2>3. CASE \E j \in Jobs : Deadline(j) \/ ObserveToken(j) \/ ClaimCommit(j)
    BY <2>3, SMTT(60) DEF Deadline, ObserveToken, ClaimCommit, IInv, TypeOK
  <2>4. CASE \E j \in Jobs : Emit(j) \/ Finish(j)
    BY <2>4, SMTT(60) DEF Emit, Finish, settleFrame, IInv, TypeOK, VerdictInv, Published
  <2>5. CASE \E j \in Jobs : \/ Start(j) \/ Advance(j) \/ StageFails(j) \/ Panic(j) \/ Interrupt(j)
                             \/ ReachCommit(j) \/ Commit(j)
    BY <2>5, ZenonT(60) DEF Start, Advance, StageFails, Panic, Interrupt, ReachCommit, Commit, pipelineFrame
  <2>6. CASE \E j \in Jobs : \/ Settle(j) \/ SettleCancelled(j) \/ Notify(j)
                             \/ \E who \in {"caller", "close"} : Signal(j, who)
    BY <2>6, ZenonT(60) DEF Settle, SettleCancelled, Notify, settleFrame, Signal
  <2>7. CASE \/ \E c \in Closers : BeginClose(c) \/ CloseReturns(c)
             \/ LockRegistry \/ UnlockRegistry \/ CancelShutdown \/ AwaitCheckpoints
             \/ ArmNotification \/ InspectRegistry \/ Wake \/ AwaitContexts \/ CloseBackend
             \/ MarkClosed \/ Publish \/ JobsTimeout
    BY <2>7, ZenonT(30) DEF BeginClose, CloseReturns, LockRegistry, UnlockRegistry, CancelShutdown,
                AwaitCheckpoints, ArmNotification, InspectRegistry, Wake, AwaitContexts,
                CloseBackend, MarkClosed, Publish, JobsTimeout, ShutdownStep
  <2>8. CASE UNCHANGED vars
    BY <2>8, ZenonT(30) DEF vars
  <2> QED
    BY <2>1, <2>2, <2>3, <2>4, <2>5, <2>6, <2>7, <2>8, Zenon DEF Next, Job, TaskStep, Shutdown
<1> QED
  BY <1>1, Invariance, PTL DEF Spec, NoLateChange

=============================================================================

----------------------------- MODULE MCControl ------------------------------
(* Control messages on one connection, each question in behaviours of its    *)
(* own: the sender by itself under the fairness its owner gives it           *)
(* (part = "sender"), and the generation summaries that use it               *)
(* (part = "summary").                                                       *)
EXTENDS Summary

VARIABLE part

rest_vars == <<epoch, generation, summary_dirty_tiles, summary_async_pending_count,
               summary_async_pending_full, completion, stamped, told>>
control_vars == <<part, summary_vars>>

ControlInit == part \in {"sender", "summary"} /\ SummaryInit

ControlNext ==
    /\ UNCHANGED part
    /\ \/ /\ part = "sender"
          /\ Next /\ UNCHANGED rest_vars
          /\ \A m \in Messages : tx'.type[m] # SummaryType
       \/ part = "summary" /\ SummaryNext

\* A step of the sender alone.
Alone(Step) == part = "sender" /\ Step /\ UNCHANGED <<part, rest_vars>>

\* The fairness of AsyncTcp!FairSpec, for the sender alone.
ControlFairness ==
    /\ WF_control_vars(Alone(Reap)) /\ WF_control_vars(Alone(DrainPass))
    /\ WF_control_vars(Alone(FinishDestroy)) /\ SF_control_vars(Alone(KernelProgress))

ControlSpec == ControlInit /\ [][ControlNext]_control_vars /\ ControlFairness

\* Every queued message is eventually reported: the reaps of the frame timer
\* drive the ring and the fallback, or destroy fails what they leave
\* (EventuallyReported, in the behaviours of the sender alone).
SenderReports ==
    \A m \in Messages : part = "sender" /\ m < next_id ~> tx.outcome[m] # "none"

============================================================================

-------------------------- MODULE DeliveryPipeline --------------------------
(***************************************************************************)
(* What a ThreadedQueue promises the plugin that feeds it, without threads, *)
(* locks or a bounded queue: messages are accepted one by one and settled  *)
(* in the order of acceptance, each exactly once; while the pipeline is    *)
(* open they are settled in batches that share one fate; only a closed     *)
(* pipeline throws messages away.                                          *)
(***************************************************************************)
EXTENDS Integers, Sequences

CONSTANTS Message, MaxBatch

VARIABLES accepted, fate, open

pipeVars == <<accepted, fate, open>>

Unsettled == Len(accepted) - Len(fate)

PipeInit ==
    /\ accepted = <<>>
    /\ fate = <<>>
    /\ open = FALSE

Open ==
    /\ ~open
    /\ open' = TRUE
    /\ UNCHANGED <<accepted, fate>>

Close ==
    /\ open
    /\ open' = FALSE
    /\ UNCHANGED <<accepted, fate>>

\* A push that began before the close may still be accepted after it.
Accept(m) ==
    /\ accepted' = Append(accepted, m)
    /\ UNCHANGED <<fate, open>>

\* One fate for the n oldest unsettled messages.
SettleOldest(f, n) ==
    /\ n =< Unsettled
    /\ fate' = fate \o [i \in 1..n |-> f]
    /\ UNCHANGED <<accepted, open>>

SettleBatch(f, n) ==
    /\ open
    /\ n =< MaxBatch
    /\ SettleOldest(f, n)

Discard(n) ==
    /\ ~open
    /\ SettleOldest("discarded", n)

PipeNext ==
    \/ Open
    \/ Close
    \/ \E m \in Message : Accept(m)
    \/ \E f \in {"inserted", "uncommitted", "failed"} :
          \E n \in 1..Unsettled : SettleBatch(f, n)
    \/ \E n \in 1..Unsettled : Discard(n)

PipeSpec == PipeInit /\ [][PipeNext]_pipeVars
=============================================================================

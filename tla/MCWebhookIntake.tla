-------------------------- MODULE MCWebhookIntake --------------------------
(* Instances of WebhookIntake for TLC. *)
EXTENDS WebhookIntake, TLC

\* Every event carries the first message: the channel repeats it.
Repeated == [e \in Event |-> <<CHOOSE m \in Msg : TRUE>>]

\* One sender.
OneSender == [m \in Msg |-> CHOOSE c \in Contact : TRUE]
=============================================================================

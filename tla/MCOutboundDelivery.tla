------------------------- MODULE MCOutboundDelivery -------------------------
(* Instances of OutboundDelivery for TLC. *)
EXTENDS OutboundDelivery, TLC

\* All messages in one conversation: the conversations share nothing but the
\* workers.
OneConv == [m \in Msg |-> CHOOSE c \in Conv : TRUE]

NoBridge == {}
Second == {2}

WorkerSymmetry == Permutations(Worker)
=============================================================================

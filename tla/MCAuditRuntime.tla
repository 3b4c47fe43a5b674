--------------------------- MODULE MCAuditRuntime ---------------------------
(* Instances of AuditRuntime for TLC.  Every worker is configured with the *)
(* same consumer name, as the processes of one deployment are.             *)
EXTENDS AuditRuntime, TLC

TheConsumer == CHOOSE c \in Consumers : TRUE
MCConsumerOf == [w \in Workers |-> TheConsumer]
=============================================================================

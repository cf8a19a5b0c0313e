----------------------------- MODULE MCReplicas -----------------------------
(* Small instances of Replicas for TLC. *)
EXTENDS Replicas

CONSTANTS a, b

TwoReplicas == {a, b}
=============================================================================

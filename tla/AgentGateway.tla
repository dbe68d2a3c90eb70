----------------------------- MODULE AgentGateway -----------------------------
(***************************************************************************)
(* What stands between an agent and the vault: the gatekeeper and the pair *)
(* codes of AgentAccess, the guarded reads of VaultReads and the audit log *)
(* of AuditTrail, over one set of rules and one clock.                     *)
(***************************************************************************)
EXTENDS VaultReads, AuditTrail

GatewayInit == ReadsInit /\ AuditInit

GatewayNext ==
    \/ ReadsNext /\ UNCHANGED auditVars
    \/ AuditNext /\ UNCHANGED readVars

GatewaySpec == GatewayInit /\ [][GatewayNext]_<<vars, readVars, auditVars>>

\* Every variable has its type, the agents' counters are exact, and the audit
\* entries are linked as their requests ran.
GatewayInv == ReadsInv /\ AuditInv

\* What a search and an aggregation answer is exact.
AnswersExact == SearchExact /\ AggregateExact
=============================================================================

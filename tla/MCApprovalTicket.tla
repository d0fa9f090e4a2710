-------------------------- MODULE MCApprovalTicket --------------------------
(* An instance of ApprovalTicket for TLC: three tickets, hence two further *)
(* ones for the request after the first is over.                           *)
EXTENDS ApprovalTicket
=============================================================================

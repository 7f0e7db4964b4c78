---------------------------- MODULE MCStaffSync -----------------------------
(* A payment taken at the CRM desk and a charge posted at the PMS desk. *)
EXTENDS StaffSync

CONSTANTS deposit, spa, w1, w2

=============================================================================

---------------------------- MODULE MCSwitchMu ----------------------------
(* Four handlers of one provider process contend for the switch.           *)
EXTENDS SwitchMu
=============================================================================

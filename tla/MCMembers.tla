----------------------------- MODULE MCMembers -----------------------------
(* Every set of ports and trunks with numbers up to MaxPort is formatted.  *)
EXTENDS Members
=============================================================================

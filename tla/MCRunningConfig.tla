-------------------------- MODULE MCRunningConfig --------------------------
(* Every text of at most MaxLines lines over a few VLANs, ports and        *)
(* members.                                                                *)
EXTENDS RunningConfig, TLC

Interchangeable == Permutations(Vlan) \union Permutations(Member)
=============================================================================

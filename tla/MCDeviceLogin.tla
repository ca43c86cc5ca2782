---------------------------- MODULE MCDeviceLogin ----------------------------
(***************************************************************************)
(* A small instance of DeviceLogin: two sign-ins of one Owner or of two.   *)
(***************************************************************************)
EXTENDS DeviceLogin

CONSTANTS l1, l2, a1, a2

MCLogins == {l1, l2}
MCAccounts == {a1, a2}
=============================================================================

------------------------------- MODULE MCService -------------------------------
(***************************************************************************)
(* Clients that send what protocol.h says: names and moves have a payload. *)
(* INVITE stands for MOVE, ACCEPT for USERS, REVOKE, DECLINE and RESIGN:   *)
(* the service loop deals with their packets alike.                        *)
(***************************************************************************)
EXTENDS ServiceProperties

Packets(types, size) == [type : types, size : {size}]
ProtocolRequests ==
  Packets({"LOGIN", "INVITE"}, 2) \cup Packets({"ACCEPT", "other"}, 0)
===============================================================================

------------------------------ MODULE MCServer ------------------------------
(***************************************************************************)
(* Two masters; descriptors for the listening socket, the serial port and  *)
(* one connection, or for two connections and no port.                     *)
(***************************************************************************)
EXTENDS Server

MCFds == 3 .. 5
=============================================================================

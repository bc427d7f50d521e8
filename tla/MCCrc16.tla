------------------------------ MODULE MCCrc16 -------------------------------
(***************************************************************************)
(* Short bodies of extreme bytes and two real requests; damage of one bit  *)
(* and of up to sixteen.                                                   *)
(***************************************************************************)
EXTENDS Crc16

Extreme == {0, 1, 17, 128, 255}

MCBodies ==
  { << a, b >> : a \in Extreme, b \in Extreme } \cup
  { << 17, 3, 0, 107, 0, 3 >>, << 0, 6, 255, 255, 128, 1 >> }

MCBursts ==
  { << 2^t >> : t \in 0 .. 7 } \cup { << 255 >>, << 128, 1 >>, << 255, 255 >>, << 1, 128 >> }
=============================================================================

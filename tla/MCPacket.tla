------------------------------ MODULE MCPacket ------------------------------
(***************************************************************************)
(* Instance of Packet: up to two options on a chain of three headers, ESP  *)
(* at any subset of the positions (tunnel in tunnel included).  PadLens    *)
(* lies on both sides of the four preallocated bytes; data and header      *)
(* lengths cover the residues modulo 4 that decide the automatic padding.  *)
(***************************************************************************)
EXTENDS Packet

MCHeaderLens == {8, 11, 20}
MCPadLens == {0, 4, 5, 9}
MCVarLens == {0, 3, 8}
MCDataLens == {0, 1, 2, 3}
=============================================================================

--------------------------- MODULE MCShadowsocks ---------------------------
(* Instances of AeadStream for TLC.                                        *)
EXTENDS AeadStream
=============================================================================

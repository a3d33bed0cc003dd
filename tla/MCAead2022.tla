----------------------------- MODULE MCAead2022 -----------------------------
(* Instances of Aead2022 for TLC.                                          *)
EXTENDS Aead2022

\* The stamp of the server is behind ours by what is allowed, and too old a
\* tick later; or too far ahead, and the same as ours a tick later.
MCSkews == {-1, 2}
=============================================================================

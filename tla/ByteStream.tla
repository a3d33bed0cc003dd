----------------------------- MODULE ByteStream -----------------------------
(***************************************************************************)
(* What a one-way encrypted stream promises, whatever its packets, buffers *)
(* and partial reads and writes are: the bytes that went in come out once, *)
(* in order; the end of the stream is reported after the last of them, and *)
(* anything else that ends the stream is an error.                         *)
(***************************************************************************)
EXTENDS Naturals, Sequences, SequencesExt

VARIABLES
  in,      \* the bytes that went into the stream
  out,     \* the bytes that came out
  closed,  \* has the sender closed its end?
  end      \* how the receiver sees the stream: "open", "eof" or "error"

streamVars == <<in, out, closed, end>>

Init ==
  /\ in = <<>>
  /\ out = <<>>
  /\ closed = FALSE
  /\ end = "open"

\* The sender adds bytes.
Send ==
  /\ ~closed
  /\ IsStrictPrefix(in, in')
  /\ UNCHANGED <<out, closed, end>>

\* The receiver gets more of the bytes sent.
Deliver ==
  /\ end = "open"
  /\ IsStrictPrefix(out, out')
  /\ IsPrefix(out', in)
  /\ UNCHANGED <<in, closed, end>>

Close ==
  /\ closed' = TRUE
  /\ UNCHANGED <<in, out, end>>

\* A clean end: nothing is missing.
Eof ==
  /\ end = "open"
  /\ closed
  /\ out = in
  /\ end' = "eof"
  /\ UNCHANGED <<in, out, closed>>

Fail ==
  /\ end = "open"
  /\ end' = "error"
  /\ UNCHANGED <<in, out, closed>>

Next == Send \/ Deliver \/ Close \/ Eof \/ Fail

Spec == Init /\ [][Next]_streamVars
=============================================================================

----------------------------- MODULE ByteStream -----------------------------
(***************************************************************************)
(* What a tunnel promises of one direction: the bytes a reader has taken   *)
(* from the source are written to the sink once each and in order, and the *)
(* sink is ended after the last of them.  Connections, epochs, offsets,    *)
(* replays and acknowledgements do not exist here.  A byte is its position *)
(* in the source.  A stream that has been torn promises nothing any more.  *)
(***************************************************************************)
EXTENDS Naturals, Sequences

VARIABLES
  taken,      \* how many bytes have been taken from the source
  ended,      \* the source has ended
  delivered,  \* what the sink has received
  closed,     \* the sink was told the end
  torn        \* two writers met at the sink

stream == <<taken, ended, delivered, closed, torn>>

Init == taken = 0 /\ ~ended /\ delivered = <<>> /\ ~closed /\ ~torn

Take ==
  /\ ~ended
  /\ taken' \in Nat /\ taken' > taken
  /\ UNCHANGED <<ended, delivered, closed, torn>>

EndSource ==
  /\ ~ended
  /\ ended' = TRUE
  /\ UNCHANGED <<taken, delivered, closed, torn>>

\* Bytes are written that were taken before, after all that precede them.
Deliver ==
  /\ ~closed
  /\ Len(delivered') > Len(delivered) /\ Len(delivered') <= taken
  /\ delivered' = [i \in 1..Len(delivered') |-> IF i <= Len(delivered) THEN delivered[i] ELSE i]
  /\ UNCHANGED <<taken, ended, closed, torn>>

CloseSink ==
  /\ ended /\ Len(delivered) = taken
  /\ closed' = TRUE
  /\ UNCHANGED <<taken, ended, delivered, torn>>

Tear == torn'

Next == Take \/ EndSource \/ Deliver \/ CloseSink \/ Tear

Spec == Init /\ [][Next]_stream
=============================================================================

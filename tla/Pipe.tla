---------------------------------- MODULE Pipe ----------------------------------
(***************************************************************************)
(* What a bridge promises for one direction of a connection: a pipe that   *)
(* hands on what was put in, in order and once, and that shows its reader  *)
(* a clean end only when nothing is missing.  WsProxy.tla implements one   *)
(* for each direction.                                                     *)
(***************************************************************************)
EXTENDS Naturals, Sequences

CONSTANT Units       \* what the pipe carries

VARIABLES
  sent,      \* what the writer has put in
  closed,    \* has the writer ended its stream?
  got,       \* what the reader has taken out
  end        \* what the reader knows of the end: "open", "clean" or "cut"

pipeVars == <<sent, closed, got, end>>

PipeInit ==
  /\ sent = <<>>
  /\ closed = FALSE
  /\ got = <<>>
  /\ end = "open"

(* One unit, or a message of two.                                          *)
Put ==
  /\ ~closed
  /\ \E u, v \in Units : sent' \in {Append(sent, u), sent \o <<u, v>>}
  /\ UNCHANGED <<closed, got, end>>

EndInput ==
  /\ closed' = TRUE
  /\ UNCHANGED <<sent, got, end>>

(* Any number of units at once, the next ones in order.                    *)
Take ==
  /\ end = "open"
  /\ \E n \in Len(got) .. Len(sent) : got' = SubSeq(sent, 1, n)
  /\ UNCHANGED <<sent, closed, end>>

SeeEnd ==
  /\ end = "open"
  /\ \/ end' = "clean" /\ closed /\ got = sent
     \/ end' = "cut"
  /\ UNCHANGED <<sent, closed, got>>

PipeNext == Put \/ EndInput \/ Take \/ SeeEnd

PipeSpec == PipeInit /\ [][PipeNext]_pipeVars
================================================================================

------------------------------ MODULE SessionLog ------------------------------
(***************************************************************************)
(* What the session store promises a reader: the transcript of a session   *)
(* is at every moment one that some uploader offered, or such a transcript *)
(* cut short by appends still to come.  It changes by one appended event   *)
(* or by the replacement of the whole, and every change has a revision of  *)
(* its own.                                                                *)
(***************************************************************************)
EXTENDS Naturals, Sequences, SequencesExt

VARIABLES offered,  \* transcripts uploaders have read from the source so far
          log,      \* the transcript a reader gets
          revision

vars == <<offered, log, revision>>

Init == offered = {} /\ log = <<>> /\ revision = 0

\* The source is read by an uploader.
Offer(l) ==
  /\ offered' = offered \cup {l}
  /\ UNCHANGED <<log, revision>>

AppendEvent ==
  /\ \E l \in offered : IsStrictPrefix(log, l) /\ log' = SubSeq(l, 1, Len(log) + 1)
  /\ revision' = revision + 1
  /\ UNCHANGED offered

Replace ==
  /\ log' \in offered
  /\ revision' = revision + 1
  /\ UNCHANGED offered

Next == (\E l \in offered' : Offer(l)) \/ AppendEvent \/ Replace

Spec == Init /\ [][Next]_vars
=============================================================================

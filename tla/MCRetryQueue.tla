---------------------------- MODULE MCRetryQueue ----------------------------
(***************************************************************************)
(* Instances of RetryQueue for TLC: the files an earlier binary may have   *)
(* left, and load() written as the loop of the code to be compared with    *)
(* the declarative IsLoadOf of the specification.                          *)
(***************************************************************************)
EXTENDS RetryQueue

CONSTANTS s1, s2, c1, a, junk

Old(k, v, tries) == [key |-> k, op |-> a, version |-> v, attempts |-> tries]

\* No file; a file with an item that was tried before, a junk line and an
\* unversioned line of the same key (mixed-version rollout).
SomeDisks == { <<>>, <<Old(c1, 1, 1), junk, Old(c1, 0, 0)>> }

NoDisk == { <<>> }

\* load() line by line, as in the code.
LoadLine(acc, line) ==
  IF line = Junk THEN acc
  ELSE LET i == IndexOfKey(acc, line.key)
       IN  IF i = 0 THEN Append(acc, line)
           ELSE IF acc[i].version <= line.version THEN ReplaceAt(acc, i, line) ELSE acc

LoadLoop(lines) == FoldLeft(LoadLine, <<>>, lines)

SmallItems == [key : {s1, c1}, op : {a}, version : 0..1, attempts : 0..1]

\* The loop of load() computes the file's IsLoadOf, for every file of at most
\* three lines over two keys.
LoadLoopIsLoad ==
  \A lines \in BoundedSeq(SmallItems \cup {junk}, 3) : IsLoadOf(lines, LoadLoop(lines))

ASSUME LoadLoopIsLoad
=============================================================================

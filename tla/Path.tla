-------------------------------- MODULE Path --------------------------------
(***************************************************************************)
(* PathConsolidate and PathBreakdown.  A path that starts with a slash is  *)
(* the sequence of its segments, with "" for two slashes in a row and for  *)
(* a slash at the end.  The limits of 1000 characters for a path and of 32 *)
(* for a name are left out.                                                *)
(***************************************************************************)
EXTENDS Integers, Sequences

Special == {"", ".", ".."}

\* Mutant: two slashes in a row make a segment with an empty name.
StaysWithEmpty(segments, i) ==
  /\ segments[i] \notin {".", ".."}
  /\ i < Len(segments) => segments[i + 1] # ".."

\* ".." frees the segment right before it, unless that one is NULL already; it
\* does not look further back.
Stays(segments, i) ==
  /\ segments[i] \notin Special
  /\ i < Len(segments) => segments[i + 1] # ".."

\* The remaining segments in order.
PathConsolidate(segments) ==
  LET kept[i \in 0..Len(segments)] ==
        IF i = 0 THEN <<>>
        ELSE IF Stays(segments, i) THEN Append(kept[i - 1], segments[i])
        ELSE kept[i - 1]
  IN  kept[Len(segments)]

\* What a path means: every ".." takes back the last name that is left.
Meaning(segments) ==
  LET walk[i \in 0..Len(segments)] ==
        IF i = 0 THEN <<>>
        ELSE IF segments[i] \in {"", "."} THEN walk[i - 1]
        ELSE IF segments[i] = ".."
        THEN SubSeq(walk[i - 1], 1, Len(walk[i - 1]) - 1)
        ELSE Append(walk[i - 1], segments[i])
  IN  walk[Len(segments)]

\* The paths in which ".." comes first or right after a name.
UpFromName(segments) ==
  \A i \in DOMAIN segments :
    segments[i] = ".." => i = 1 \/ segments[i - 1] \notin Special
=============================================================================

------------------------------ MODULE RoomLog ------------------------------
(***************************************************************************)
(* What the page of a session promises: it shows the frames of the room in *)
(* the order in which they were written, none of them twice, and leaves    *)
(* out only frames that the room itself has dropped.  It may start afresh, *)
(* and then the same holds from the first frame on; of what it has shown   *)
(* it keeps the newest.                                                    *)
(***************************************************************************)
EXTENDS Naturals, Sequences

CONSTANT BufferCap

VARIABLES
  top,   \* frames are numbered as they are written; this is the newest
  lo,    \* the room has dropped the frames up to this one
  view   \* what the page shows

(* Of the frames after a, b is the first that the room may still have. *)
Follows(a, b) == a < b /\ (b = a + 1 \/ b <= lo + 1)

Shown == IF view = <<>> THEN 0 ELSE view[Len(view)]

Kept(entries) ==
  IF Len(entries) <= BufferCap THEN entries
  ELSE SubSeq(entries, Len(entries) - BufferCap + 1, Len(entries))

LogInit == top = 0 /\ lo = 0 /\ view = <<>>

Write == top' = top + 1 /\ lo' \in lo .. top' /\ UNCHANGED view
Drop == lo' \in lo .. top /\ UNCHANGED <<top, view>>
Show(i) == Follows(Shown, i) /\ view' = Kept(Append(view, i)) /\ UNCHANGED <<top, lo>>
Wipe == view' = <<>> /\ UNCHANGED <<top, lo>>

LogNext == Write \/ Drop \/ Wipe \/ \E i \in 1 .. top : Show(i)

LogSpec == LogInit /\ [][LogNext]_<<top, lo, view>>
=============================================================================

-------------------------------- MODULE Paging --------------------------------
(***************************************************************************)
(* A listener pages through the play history (api/history.go:42-133, its   *)
(* twin per stage at 208-249, and helpers.go:22-37) while plays are being  *)
(* logged.  Each response takes two queries, the count and the page.  The  *)
(* browser goes on while the page is below the number of pages that the    *)
(* last response's total gives (web/src/app/history/page.tsx:22-98).       *)
(* A play is the number of the row; later rows have larger played_at.      *)
(***************************************************************************)
EXTENDS Naturals

CONSTANTS
    PerPage,
    MaxPlays      \* bound on the rows

VARIABLES
    plays,        \* how many rows track_plays has
    order,        \* the sort parameter
    page,         \* the page asked for
    step,         \* "count", "select", "shown", "done"
    total,        \* meta.total of the response
    seen,         \* history: the rows shown so far
    started,      \* history: the rows there were at the first request
    late          \* history: a play was logged between the last two queries

vars == <<plays, order, page, step, total, seen, started, late>>

Init ==
    /\ plays \in 0..MaxPlays /\ started = plays
    /\ order \in {"newest", "oldest"}
    /\ page = 1 /\ step = "count" /\ total = 0
    /\ seen = {} /\ late = FALSE

\* logPlay inserts a row.
LogPlay ==
    /\ plays < MaxPlays
    /\ plays' = plays + 1
    /\ late' = (late \/ step = "select")
    /\ UNCHANGED <<order, page, step, total, seen, started>>

\* The row in place i of the sorted table.
Row(i) == IF order = "oldest" THEN i ELSE plays + 1 - i

Count ==
    /\ step = "count"
    /\ step' = "select"
    /\ total' = plays
    /\ late' = FALSE
    /\ UNCHANGED <<plays, order, page, seen, started>>

\* Variant: pages are counted from zero.
OffsetZeroBased == page * PerPage

Offset == (page - 1) * PerPage

\* LIMIT PerPage OFFSET Offset.
Select ==
    /\ step = "select"
    /\ step' = "shown"
    /\ seen' = seen \cup {Row(i) : i \in ((Offset + 1)..(Offset + PerPage)) \cap (1..plays)}
    /\ UNCHANGED <<plays, order, page, total, started, late>>

\* The button of the next page is disabled on what total makes the last one.
MorePages == page * PerPage < total

TurnTo(p) ==
    /\ step = "shown"
    /\ page' = p /\ step' = "count"
    /\ UNCHANGED <<plays, order, total, seen, started, late>>

NextPage == MorePages /\ TurnTo(page + 1)

PreviousPage == page > 1 /\ TurnTo(page - 1)

Next == LogPlay \/ Count \/ Select \/ NextPage \/ PreviousPage

Spec == Init /\ [][Next]_vars

-----------------------------------------------------------------------------

\* Whoever has turned to the last page has seen every play there was at the
\* start, although new ones push the others down or lengthen the list; only a
\* play logged between the two queries of the last page can hide one
\* (history.go:80-98, helpers.go:36).
PagesMissNone ==
    step = "shown" /\ ~MorePages => late \/ 1..started \subseteq seen
=============================================================================

----------------------------- MODULE JournalFile -----------------------------
(***************************************************************************)
(* The bytes of an append-only journal (ops.jsonl, the organizer's         *)
(* journal.jsonl), as far as its writers and readers tell them apart: the  *)
(* complete lines, and what follows the last newline.  A record is written *)
(* in three pieces, since a write may stop anywhere: a part of its text,   *)
(* the rest of it, the newline.                                            *)
(***************************************************************************)
EXTENDS Naturals, Sequences

CONSTANTS Entries,   \* the records that may be appended
          Damaged,   \* a complete line that is no record
          Nothing    \* after the last newline

Line  == Entries \cup {Damaged}
\* The text of an entry without its newline: all of it or a part.
Torn  == [entry : Entries, whole : BOOLEAN]
ASSUME NothingIsNoText == Nothing \notin Torn

File == [present : BOOLEAN,          \* the file exists
         listed  : BOOLEAN,          \* its directory entry is durable
         ino     : Nat,              \* which file it is
         lines   : Seq(Line),
         synced  : Nat,              \* that many lines are durable
         tail    : Torn \cup {Nothing}]
NoFile(i) == [present |-> FALSE, listed |-> FALSE, ino |-> i, lines |-> <<>>,
              synced |-> 0, tail |-> Nothing]

IsTorn(f) == f.tail # Nothing

\* A newline ends the tail: text that was whole is a record from then on.
AddNewline(f) ==
  [f EXCEPT !.tail = Nothing,
            !.lines = Append(@, IF f.tail.whole THEN f.tail.entry ELSE Damaged)]

\* The next piece of entry e, at the end of the file.
AddPiece(f, e) ==
  IF f.tail = Nothing THEN [f EXCEPT !.tail = [entry |-> e, whole |-> FALSE]]
  ELSE IF ~f.tail.whole THEN [f EXCEPT !.tail.whole = TRUE]
  ELSE AddNewline(f)

\* What a power failure may leave: the durable lines, some of the others, and
\* the line after them torn, whole or not.
TailsAfter(f, n) ==
  {Nothing} \cup
  (IF n < Len(f.lines)
   THEN [entry : {f.lines[n + 1]} \ {Damaged}, whole : BOOLEAN]
   ELSE IF IsTorn(f) THEN {f.tail, [f.tail EXCEPT !.whole = FALSE]} ELSE {})

CutAfter(f, n) == {[f EXCEPT !.lines = SubSeq(@, 1, n), !.tail = t] : t \in TailsAfter(f, n)}

Cuts(f)     == UNION {CutAfter(f, n) : n \in f.synced..Len(f.lines)}
Vanished(f) == IF f.listed THEN {} ELSE {NoFile(f.ino)}

AfterPowerLoss(f) == Cuts(f) \cup Vanished(f)

IsEntry(x) == x \in Entries
=============================================================================

----------------------------- MODULE MCOrganizer -----------------------------
EXTENDS Organizer

MCVids == 1..6
\* Version 2 is a save of the second playthrough; 3 is 1 saved again without play, 5 is 4
\* edited outside the game; of 6 only the file's own time is known.
MCLineOf == [v \in MCVids |-> IF v = 2 THEN 20 ELSE 10]
MCPlayOf == [v \in MCVids |-> IF v <= 3 THEN 1 ELSE 2]
MCSavedAt == [v \in MCVids |-> IF v = 5 THEN 4 ELSE v]
MCClockOf == [v \in MCVids |-> IF v = 6 THEN "mtime" ELSE "meta"]
MCOutside == {<<1, 0>>, <<2, 0>>}

Nothing == [k \in {"game", "save", "meddle", "fail", "op", "boot", "backup", "note", "combine", "fix"} |-> 0]
Left(kinds) == [k \in DOMAIN Nothing |-> IF k \in DOMAIN kinds THEN kinds[k] ELSE 0]
Seen(s, p, at, seq) == [Obs(s, p, "scan", 0, at) EXCEPT !.seq = seq]
\* Saves of two clocks, a version before the one it is an edit of, in one slot.
Mixed == <<Seen(1, <<6, 0>>, 1, 1), Seen(1, <<0, 5>>, 2, 2), Seen(1, <<4, 5>>, 3, 3)>>
Told == <<Seen(1, <<1, 0>>, 1, 1), Seen(1, <<1, 3>>, 2, 2), Seen(1, <<4, 3>>, 3, 3)>>

OneSlot(p) == [s \in Slots |-> IF s = 1 THEN p ELSE Empty]
Kept == <<[at |-> 1, has |-> OneSlot(<<1, 0>>)], [at |-> 2, has |-> OneSlot(<<1, 3>>)]>>
Begin(pair, recs, kept, kinds) == [live |-> OneSlot(pair), journal |-> recs, entries |-> kept, left |-> Left(kinds)]
MCBeginnings ==
  { \* an operation among game saves, the cloud and mishaps
    Begin(<<2, 0>>, <<>>, <<>>, [game |-> 1, save |-> 1, fail |-> 1, op |-> 1]),
    Begin(<<1, 0>>, <<>>, <<>>, [meddle |-> 1, fail |-> 1, op |-> 2]),
    \* a first run over backups, while the game saves and backups are made, or cut short
    Begin(<<1, 3>>, <<>>, Kept, [fail |-> 2, boot |-> 2]),
    Begin(<<1, 3>>, <<>>, Kept, [game |-> 1, save |-> 1, boot |-> 1, backup |-> 1]),
    \* notes and Combines
    Begin(<<1, 0>>, SubSeq(Told, 1, 1), <<>>, [note |-> 2, combine |-> 2, fail |-> 1]),
    \* corrections
    Begin(<<4, 3>>, Told, <<>>, [fix |-> 2]),
    Begin(<<4, 5>>, Mixed, <<>>, [fix |-> 1]) }

\* Two slots of one playthrough's versions, and the owner at work in his file manager.
TwoSlotsOutside == {<<4, 0>>, <<4, 5>>}
TwoSlotsBeginnings ==
  {[live |-> [s \in Slots |-> IF s = 1 THEN <<5, 0>> ELSE <<2, 0>>],
    journal |-> <<Seen(2, <<2, 0>>, 1, 1), Seen(1, <<5, 0>>, 2, 2)>>, entries |-> <<>>,
    left |-> Left([meddle |-> 2])]}
=============================================================================

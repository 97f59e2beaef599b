------------------------------ MODULE Organizer ------------------------------
(***************************************************************************)
(* The organizer of a vault (core/organizer): windows look at the live     *)
(* slots and journal what they saw, live operations record what they       *)
(* placed, a first run reads the history out of old backups, and the owner *)
(* writes notes and corrects the lineage - all into one store whose        *)
(* transactions may be cut short.  The game, the cloud and the owner's own *)
(* hands change the slots meanwhile.                                       *)
(***************************************************************************)
EXTENDS Lineage

CONSTANTS Windows, Nobody,
          Beginnings,         \* [live, journal, entries, left]: what is there, and how
                              \* often each thing may happen; one of them is chosen
          Outside             \* pairs the cloud or the owner may put into a slot

ASSUME OrganizerParameters == Nobody \notin Windows /\ Outside \subseteq Pairs

VARIABLES live,     \* the pair in each slot, or Torn: half written
          game,     \* is the game running?
          oplock,   \* who holds the live-op lock
          liveop,   \* a live operation: what it places where, and how far it is
          journal,  \* the complete lines of journal.jsonl
          tail,     \* after the last newline: none, part of a record, or all of it
          notes,    \* notes.json: each save file's note
          lineage,  \* lineage.json: corrections, Combines, Splits, the bootstrap
          entries,  \* backups from before recording: when taken, what was in the slots
          win,      \* each window: what it is doing and what it has read
          now, left,
          held,     \* what each slot held, whole, at some time
          acked,    \* operations reported as recorded
          said,     \* words of notes reported as saved: <<pid, word>>
          joined,   \* words the Combines reported as done had to carry: <<pid, word>>
          fate      \* each operation: what came over what it placed

vars == <<live, game, oplock, liveop, journal, tail, notes, lineage, entries, win, now, left,
          held, acked, said, joined, fate>>

Torn     == <<-2, -2>>
NoTail   == [t |-> "none"]
PartTail == [t |-> "part"]
NoOp     == [id |-> 0, slot |-> 0, pair |-> Empty, was |-> Empty, at |-> "none", by |-> Nobody]
NoEdit   == [pid |-> 0, base |-> 0, text |-> {}]
Unread   == [s \in Slots |-> Torn]
NoLines  == [cors |-> <<>>, into |-> [p \in Lines |-> p], splits |-> {}]
NoView   == [recs |-> <<>>, lin |-> NoLines]
Rest     == [at |-> "idle", asked |-> FALSE, seen |-> Unread, edit |-> NoEdit,
             saw |-> NoView, plan |-> <<>>, cut |-> 0]
NoNote   == [revs |-> <<>>, pinned |-> FALSE]

May(k)      == left[k] > 0
Spend(k)    == left' = [left EXCEPT ![k] = @ - 1]
Go(w, at)   == win' = [win EXCEPT ![w].at = at]
Idle(w)     == win[w].at = "idle"
Tick        == now' = now + 1
Become(s, p, ok) == /\ live' = [live EXCEPT ![s] = [pair |-> p, whole |-> ok]]
                    /\ held' = IF ok THEN [held EXCEPT ![s] = @ \cup {p}] ELSE held

\* --- the store ----------------------------------------------------------------

Seqs == {journal[i].seq : i \in 1..Len(journal)}
Ats  == {journal[i].at : i \in 1..Len(journal)}
\* StoreTx.append: the next number, and now but never before the last record.
Stamped(recs) ==
  [i \in 1..Len(recs) |->
     [recs[i] EXCEPT !.seq = Highest(Seqs) + i,
                     !.at = IF @ = Unstamped THEN Highest(Ats \cup {now}) ELSE @]]

\* The next append ends a torn line: a record that was all there counts again.
Sealed == IF tail.t \in {"none", "part"} THEN journal ELSE Append(journal, tail)

After(recs) == IF recs = <<>> THEN journal ELSE Sealed \o Stamped(recs)
Appended(recs) == journal' = After(recs) /\ tail' = IF recs = <<>> THEN tail ELSE NoTail

\* The process or the disk fails inside the write: a part of the batch is there,
\* and the line after it in part or whole, without its newline.
CutShort(recs) ==
  \E n \in 0..(Len(recs) - 1) :
    /\ journal' = Sealed \o SubSeq(Stamped(recs), 1, n)
    /\ tail' \in {NoTail, PartTail, Stamped(recs)[n + 1]}

\* --- looking at the live slots -------------------------------------------------

\* Journal.observe: a record for each slot whose pair is not its last one; never
\* for a slot half written, or while the game ran when the window asked.
Wanted(seen, asked) == {s \in Slots : seen[s] # Torn /\ ~asked}
\* Mutant (CatchesUp): a pair the slot had once before is no news.
OnlyUnheardOf(recs, seen, asked) ==
  LET old(s) == \E i \in 1..Len(recs) : recs[i].slot = s /\ recs[i].pair = seen[s]
      new    == InOrder({s \in Wanted(seen, asked) : ~old(s)}, <)
  IN  [i \in 1..Len(new) |-> Obs(new[i], seen[new[i]], "scan", 0, Unstamped)]
News(recs, seen, asked) ==
  LET new == InOrder({s \in Wanted(seen, asked) : LastPair(recs, s) # seen[s]}, <)
  IN  [i \in 1..Len(new) |-> Obs(new[i], seen[new[i]], "scan", 0, Unstamped)]

\* scan_live: each member is checked for a whole save.
Look == [s \in Slots |-> IF live[s].whole THEN live[s].pair ELSE Torn]

KeptVids == UNION {{<<v, entries[i].at>> : v \in UNION {Members(entries[i].has[s]) : s \in Slots}}
                     : i \in 1..Len(entries)}
Parent   == Graph(Edges(journal, KeptVids), lineage.cors)
\* What a window's view was built from; only corrections look at it again.
Shown(recs) ==
  IF May("fix") THEN [recs |-> recs, lin |-> [k \in DOMAIN NoLines |-> lineage[k]]] ELSE NoView
GraphShown(w) == Graph(Edges(win[w].saw.recs, KeptVids), win[w].saw.lin.cors)
\* The versions of the view, and the save file it has each of them in.
InView(w)       == UNION {Members(win[w].saw.recs[i].pair) : i \in 1..Len(win[w].saw.recs)}
LineShown(w, v) == EffectivePid(GraphShown(w), win[w].saw.lin.into, win[w].saw.lin.splits, v)

\* Organizer.refresh asks for the game first, scans the entries, then looks at
\* the live folders under the live-op lock, if it is free, and journals them.
RefreshStart(w) ==
  /\ Idle(w)
  /\ win' = [win EXCEPT ![w].at = "scan", ![w].asked = game]
  /\ UNCHANGED <<live, game, oplock, liveop, journal, tail, notes, lineage, entries, now, left, held, acked, said, joined, fate>>

\* Mutant (ShownIsTrue): the look does not wait for the live-op lock.
LooksAnyway(w) ==
  /\ win[w].at = "scan" /\ win' = [win EXCEPT ![w].at = "look", ![w].seen = Look]
  /\ UNCHANGED <<live, game, oplock, liveop, journal, tail, notes, lineage, entries, now, left, held, acked, said, joined, fate>>

RefreshLook(w) ==
  /\ win[w].at = "scan" /\ oplock = Nobody
  /\ oplock' = w
  /\ \/ win' = [win EXCEPT ![w].at = "look", ![w].seen = Look] /\ UNCHANGED left
     \/ win' = [win EXCEPT ![w].at = "look", ![w].seen = Unread] /\ May("fail") /\ Spend("fail")
  /\ UNCHANGED <<live, game, liveop, journal, tail, notes, lineage, entries, now, held, acked, said, joined, fate>>

\* A live write holds the lock: looked at, not journaled this time.
RefreshBusy(w) ==
  /\ win[w].at = "scan" /\ oplock # Nobody
  /\ UNCHANGED <<live, game, oplock, liveop, journal, tail, notes, lineage, entries, now, left, held, acked, said, joined, fate>>
  /\ win' = [win EXCEPT ![w] = [Rest EXCEPT !.edit = win[w].edit, !.saw = Shown(journal)]]

RefreshRecord(w) ==
  LET news == News(journal, win[w].seen, win[w].asked) IN
  /\ win[w].at = "look" /\ Appended(news) /\ oplock' = Nobody
  /\ win' = [win EXCEPT ![w] = [Rest EXCEPT !.edit = win[w].edit, !.saw = Shown(After(news))]]
  /\ UNCHANGED <<live, game, liveop, notes, lineage, entries, now, left, held, acked, said, joined, fate>>

\* --- a live operation -----------------------------------------------------------

OpsKnown == {<<journal[i].op, journal[i].slot>> : i \in {j \in 1..Len(journal) : journal[j].t = "op"}}
\* record_ops: nothing when the operation and slot are recorded already.
OpRecords(ok) == IF <<liveop.id, liveop.slot>> \in OpsKnown THEN <<>>
                 ELSE <<OpOf(liveop.id, liveop.slot, liveop.pair, liveop.was, ok)>>

\* The operation looks first; then its slot is written member by member.
OpStart(w) ==
  /\ Idle(w) /\ oplock = Nobody /\ liveop = NoOp /\ ~game /\ May("op")
  /\ \E s \in Slots, p \in Outside :
       /\ live[s].whole /\ p # live[s].pair
       /\ liveop' = [id |-> left["op"], slot |-> s, pair |-> p, was |-> live[s].pair, at |-> "begun", by |-> w]
  /\ Appended(News(journal, Look, FALSE))
  /\ oplock' = w /\ Go(w, "op") /\ Spend("op")
  /\ UNCHANGED <<live, game, notes, lineage, entries, now, held, acked, said, joined, fate>>

OpWrite(w) ==
  /\ liveop.by = w /\ liveop.at = "begun"
  /\ \E ok \in BOOLEAN : live' = [live EXCEPT ![liveop.slot] = [pair |-> <<liveop.pair[1], liveop.was[2]>>, whole |-> ok]]
  /\ liveop' = [liveop EXCEPT !.at = "half"]
  /\ UNCHANGED <<game, oplock, journal, tail, notes, lineage, entries, win, now, left, held, acked, said, joined, fate>>

OpFinish(w) ==
  /\ liveop.by = w /\ liveop.at = "half"
  /\ Become(liveop.slot, liveop.pair, TRUE) /\ Tick
  /\ liveop' = [liveop EXCEPT !.at = "placed"]
  /\ fate' = [fate EXCEPT ![liveop.slot] = Append(@, [op |-> liveop.id, by |-> {}])]
  /\ UNCHANGED <<game, oplock, journal, tail, notes, lineage, entries, win, left, acked, said, joined>>

Ack(clean) == acked' = acked \cup {[id |-> liveop.id, slot |-> liveop.slot, pair |-> liveop.pair,
                                    done |-> liveop.at = "placed", clean |-> clean]}
OpRecord(w) ==
  /\ liveop.by = w /\ liveop.at = "placed"
  /\ Appended(OpRecords(TRUE)) /\ Ack(TRUE)
  /\ liveop' = NoOp /\ oplock' = Nobody /\ Go(w, "idle")
  /\ UNCHANGED <<live, game, notes, lineage, entries, now, left, held, said, joined, fate>>

\* After a crash: what was placed is recorded, what was not is put back and
\* recorded as rolled back - again, if the crash came after the record.
Recover(w) ==
  /\ Idle(w) /\ oplock = Nobody /\ liveop # NoOp /\ liveop.by = Nobody /\ ~game
  /\ IF liveop.at = "placed" THEN UNCHANGED <<live, held>>
     ELSE Become(liveop.slot, liveop.was, TRUE)
  /\ Appended(OpRecords(liveop.at = "placed")) /\ Ack(FALSE)
  /\ liveop' = NoOp
  /\ UNCHANGED <<game, oplock, notes, lineage, entries, win, now, left, said, joined, fate>>

\* --- the history from before recording (bootstrap) --------------------------------

Starts == {journal[i].at : i \in {j \in 1..Len(journal) : journal[j].src \in {"scan", "app"}}}
Cutoff == IF lineage.done >= 0 THEN lineage.done ELSE IF Starts = {} THEN now ELSE Lowest(Starts)
Represented == {journal[i].entry : i \in 1..Len(journal)}

\* Entries before the cutoff that no record came from, oldest first, each slot
\* against the step before it in journal and entries together.
StepBefore(i, s) ==
  LET old == SelectSeq(Ordered(journal), LAMBDA r : r.slot = s /\ r.done /\ r.at <= entries[i].at)
      from == {j \in 1..(i - 1) : j \notin Represented /\ entries[j].at >= (IF old = <<>> THEN 0 ELSE Last(old).at)}
  IN  IF from # {} THEN entries[Highest(from)].has[s] ELSE IF old = <<>> THEN NoPair ELSE Last(old).pair
Backfill(cut) ==
  LET due == {d \in (1..Len(entries)) \X Slots :
                /\ d[1] \notin Represented /\ entries[d[1]].at < cut
                /\ entries[d[1]].has[d[2]] # StepBefore(d[1], d[2])}
      seq == InOrder(due, Earlier)
  IN  [n \in 1..Len(seq) |-> Obs(seq[n][2], entries[seq[n][1]].has[seq[n][2]], "backfill", seq[n][1],
                                 entries[seq[n][1]].at)]

BootPlan(w) ==
  /\ Idle(w) /\ May("boot") /\ Spend("boot")
  /\ win' = [win EXCEPT ![w].at = "fill", ![w].plan = Backfill(Cutoff), ![w].cut = Cutoff]
  /\ UNCHANGED <<live, game, oplock, liveop, journal, tail, notes, lineage, entries, now, held, acked, said, joined, fate>>

BootFill(w) ==
  /\ win[w].at = "fill" /\ Appended(win[w].plan) /\ Go(w, "now")
  /\ UNCHANGED <<live, game, oplock, liveop, notes, lineage, entries, now, left, held, acked, said, joined, fate>>

\* The live slots as they are now, under the live-op lock if it is free, with a
\* fresh look for the game.
BootObserve(w) ==
  /\ win[w].at = "now" /\ Go(w, "mark")
  /\ IF oplock # Nobody THEN UNCHANGED <<journal, tail>> ELSE Appended(News(journal, Look, game))
  /\ UNCHANGED <<live, game, oplock, liveop, notes, lineage, entries, now, left, held, acked, said, joined, fate>>

BootDone(w) ==
  /\ win[w].at = "mark"
  /\ lineage' = [lineage EXCEPT !.done = IF @ >= 0 THEN @ ELSE win[w].cut]
  /\ win' = [win EXCEPT ![w].at = "idle", ![w].plan = <<>>, ![w].cut = 0]
  /\ UNCHANGED <<live, game, oplock, liveop, journal, tail, notes, entries, now, left, held, acked, said, joined, fate>>

\* --- the owner's notes ---------------------------------------------------------------

LastText(pid) == IF notes[pid].revs = <<>> THEN {} ELSE Last(notes[pid].revs)
\* Mutant (NotesSurvive): only the newest text is kept.
RevisedInPlace(pid, text) == notes' = [notes EXCEPT ![pid].revs = <<text>>]

\* A new revision; every earlier one is kept.
Revised(pid, text) == notes' = [notes EXCEPT ![pid].revs = Append(@, text)]

OpenNote(w, pid) ==
  /\ Idle(w) /\ win[w].edit = NoEdit /\ May("note") /\ Spend("note")
  /\ win' = [win EXCEPT ![w].edit = [pid |-> pid, base |-> Len(notes[pid].revs), text |-> LastText(pid)]]
  /\ UNCHANGED <<live, game, oplock, liveop, journal, tail, notes, lineage, entries, now, held, acked, said, joined, fate>>

\* set_save_note: refused when the note has moved on; the editor then has the
\* current note, and its own words are still in it.  The same text is no revision.
SaveNote(w) ==
  LET e == win[w].edit IN
  /\ Idle(w) /\ e # NoEdit
  /\ IF e.base = Len(notes[e.pid].revs)
     THEN /\ IF e.text \cup {w} = LastText(e.pid) THEN UNCHANGED notes ELSE Revised(e.pid, e.text \cup {w})
          /\ said' = said \cup {<<e.pid, w>>}
          /\ win' = [win EXCEPT ![w].edit = NoEdit]
     ELSE /\ win' = [win EXCEPT ![w].edit.base = Len(notes[e.pid].revs), ![w].edit.text = LastText(e.pid)]
          /\ UNCHANGED <<notes, said>>
  /\ UNCHANGED <<live, game, oplock, liveop, journal, tail, lineage, entries, now, left, held, acked, joined, fate>>

SetPinned(w, pid) ==
  /\ Idle(w) /\ May("note") /\ Spend("note") /\ notes' = [notes EXCEPT ![pid].pinned = ~@]
  /\ UNCHANGED <<live, game, oplock, liveop, journal, tail, lineage, entries, win, now, held, acked, said, joined, fate>>

\* --- the owner's corrections of the lineage --------------------------------------------

\* Mutant (LineageIsSound): the save files as the window names them, not as they are by now.
CombineAsNamed(w, pid, other) ==
  /\ Idle(w) /\ pid # other /\ May("combine") /\ Spend("combine")
  /\ lineage' = [lineage EXCEPT !.into[pid] = other]
  /\ UNCHANGED <<live, game, oplock, liveop, journal, tail, notes, entries, win, now, held, acked, said, joined, fate>>

\* combine and _merge_note: the document lineage.json is replaced first, then
\* notes.json; a process that fails between them has combined without the words.
Combine(w, pid, other) ==
  LET root   == Canonical(lineage.into, pid)
      target == Canonical(lineage.into, other)
  IN  /\ Idle(w) /\ root # target /\ May("combine") /\ Spend("combine")
      /\ lineage' = [lineage EXCEPT !.into[root] = target]
      /\ IF LastText(root) = {} THEN UNCHANGED notes ELSE Revised(target, LastText(target) \cup LastText(root))
      /\ joined' = joined \cup ({target} \X LastText(root))
      /\ UNCHANGED <<live, game, oplock, liveop, journal, tail, entries, win, now, held, acked, said, fate>>

CombineCut(w, pid, other) ==
  LET root   == Canonical(lineage.into, pid)
      target == Canonical(lineage.into, other)
  IN  /\ Idle(w) /\ root # target /\ May("combine") /\ May("fail")
      /\ left' = [left EXCEPT !["combine"] = @ - 1, !["fail"] = @ - 1]
      /\ lineage' = [lineage EXCEPT !.into[root] = target]
      /\ win' = [win EXCEPT ![w] = Rest]
      /\ UNCHANGED <<live, game, oplock, liveop, journal, tail, notes, entries, now, held, acked, said, joined, fate>>

Uncombine(w, pid) ==
  /\ Idle(w) /\ lineage.into[pid] # pid /\ May("combine") /\ Spend("combine")
  /\ lineage' = [lineage EXCEPT !.into[pid] = pid]
  /\ UNCHANGED <<live, game, oplock, liveop, journal, tail, notes, entries, win, now, held, acked, said, joined, fate>>

Correct(cors) == lineage' = [lineage EXCEPT !.cors = cors]
ByOwner(w) ==
  /\ Idle(w) /\ May("fix") /\ Spend("fix")
  /\ UNCHANGED <<live, game, oplock, liveop, journal, tail, notes, entries, win, now, held, acked, said, joined, fate>>

\* set_parent: the window refuses what its own graph calls a loop, and two lines.
Known == UNION {Members(journal[i].pair) : i \in 1..Len(journal)}
Offers(w, child) ==
  {0} \cup {p \in InView(w) \ {child} :
              LineShown(w, p) = LineShown(w, child) /\ ~Reaches(GraphShown(w), p, child)}
SetParent(w, child, parent) ==
  /\ ByOwner(w) /\ child \in InView(w) /\ parent \in Offers(w, child)
  /\ Correct(Append(lineage.cors, Correction("set_parent", child, parent, NextSeq(lineage.cors))))

\* mark_unrelated takes back a link drawn between the two.
MarkUnrelated(w, a, b) ==
  LET drawn(c) == c.kind = "set_parent" /\ c.parent # 0 /\ {c.child, c.parent} = {a, b}
      kept     == SelectSeq(lineage.cors, LAMBDA c : ~drawn(c))
  IN  ByOwner(w) /\ a < b /\ Correct(Append(kept, Correction("not_related", a, b, NextSeq(kept))))

RemoveCorrection(w) ==
  /\ ByOwner(w)
  /\ \E i \in 1..Len(lineage.cors) : Correct(SelectSeq(lineage.cors, LAMBDA c : c # lineage.cors[i]))

\* The branch of v, by the lines and the graph the window shows; a number is never used twice.
Split(w, v) ==
  LET branch == {u \in InView(w) : LineShown(w, u) = LineShown(w, v) /\ Reaches(GraphShown(w), u, v)}
  IN  /\ ByOwner(w) /\ v \in InView(w)
      /\ lineage' = [lineage EXCEPT !.mark = @ + 1,
                                    !.splits = @ \cup {[n |-> lineage.mark + 1, from |-> LineOf[v], vids |-> branch]}]
Unsplit(w) ==
  /\ ByOwner(w) /\ \E sp \in lineage.splits : lineage' = [lineage EXCEPT !.splits = @ \ {sp}]

\* --- what changes the slots from outside --------------------------------------------

StartGame ==
  /\ ~game /\ liveop = NoOp /\ May("game") /\ Spend("game") /\ game' = TRUE
  /\ UNCHANGED <<live, oplock, liveop, journal, tail, notes, lineage, entries, win, now, held, acked, said, joined, fate>>

StopGame ==
  /\ game /\ (\A s \in Slots : live[s].whole) /\ game' = FALSE
  /\ UNCHANGED <<live, oplock, liveop, journal, tail, notes, lineage, entries, win, now, left, held, acked, said, joined, fate>>

\* What came over an operation's pair while it was the last one placed there.
Over(s, how) == fate' = [fate EXCEPT ![s] = IF @ = <<>> THEN @ ELSE [@ EXCEPT ![Len(@)].by = @ \cup {how}]]

Used       == UNION {Members(p) : p \in UNION {held[s] : s \in Slots} \cup Outside}
NextOf(s)  == {v \in Vids : LineOf[v] \in {LineOf[m] : m \in Members(live[s].pair)} /\ \A u \in Used : v > u}
OlderOf(p) == IF p[1] < p[2] THEN 1 ELSE 2
\* The game saves over the older member, file by file.
GameWrites(s) ==
  /\ game /\ live[s].whole /\ NextOf(s) # {} /\ May("save") /\ Spend("save")
  /\ Become(s, [live[s].pair EXCEPT ![OlderOf(live[s].pair)] = Lowest(NextOf(s))], FALSE)
  /\ UNCHANGED <<game, oplock, liveop, journal, tail, notes, lineage, entries, win, now, acked, said, joined, fate>>

GameSaved(s) ==
  /\ game /\ ~live[s].whole
  /\ Become(s, live[s].pair, TRUE) /\ Over(s, "played") /\ Tick
  /\ UNCHANGED <<game, oplock, liveop, journal, tail, notes, lineage, entries, win, left, acked, said, joined>>

\* Steam Cloud, or the owner in his file manager.
Meddle(s) ==
  /\ May("meddle") /\ Spend("meddle") /\ ~game /\ liveop = NoOp /\ live[s].whole
  /\ \E p \in Outside \ {live[s].pair} : Become(s, p, TRUE)
  /\ Over(s, "meddled") /\ Tick
  /\ UNCHANGED <<game, oplock, liveop, journal, tail, notes, lineage, entries, win, acked, said, joined>>

Backup ==
  /\ May("backup") /\ Spend("backup") /\ liveop = NoOp /\ \A s \in Slots : live[s].whole
  /\ entries' = Append(entries, [at |-> now, has |-> [s \in Slots |-> live[s].pair]]) /\ Tick
  /\ UNCHANGED <<live, game, oplock, liveop, journal, tail, notes, lineage, win, held, acked, said, joined, fate>>

\* --- mishaps ------------------------------------------------------------------------

\* What the window had in hand is gone; its locks are free; what an operation had
\* done so far stays in the slot, where a refresh may see it before the recovery
\* records it (no caller names the slots of open operations to it): for every
\* operation on that slot it came from outside.
Ended(w) ==
  /\ win' = [win EXCEPT ![w] = Rest]
  /\ oplock' = IF oplock = w THEN Nobody ELSE oplock
  /\ liveop' = IF liveop.by = w THEN [liveop EXCEPT !.by = Nobody] ELSE liveop
  /\ held' = IF liveop.by = w /\ live[liveop.slot].whole
             THEN [held EXCEPT ![liveop.slot] = @ \cup {live[liveop.slot].pair}] ELSE held
  /\ fate' = IF liveop.by # w THEN fate
             ELSE [fate EXCEPT ![liveop.slot] = [i \in DOMAIN @ |-> [@[i] EXCEPT !.by = @ \cup {"meddled"}]]]

Crash(w) ==
  /\ win[w].at # "idle" /\ May("fail") /\ Spend("fail") /\ Ended(w)
  /\ UNCHANGED <<live, game, journal, tail, notes, lineage, entries, now, acked, said, joined>>

\* A journal append cut short, by a crash or by the disk.
Pending(w) ==
  CASE win[w].at = "look"                       -> News(journal, win[w].seen, win[w].asked)
    [] win[w].at = "op" /\ liveop.at = "placed" -> OpRecords(TRUE)
    [] win[w].at = "fill"                       -> win[w].plan
    [] OTHER                                    -> <<>>
BrokenAppend(w) ==
  /\ Pending(w) # <<>> /\ May("fail") /\ Spend("fail")
  /\ CutShort(Pending(w)) /\ Ended(w)
  /\ UNCHANGED <<live, game, notes, lineage, entries, now, acked, said, joined>>
\* --- the organizer ----------------------------------------------------------------------

Init ==
  \E b \in Beginnings :
    /\ live = [s \in Slots |-> [pair |-> b.live[s], whole |-> TRUE]]
    /\ journal = b.journal /\ entries = b.entries /\ left = b.left
    /\ now = 1 + Highest({b.journal[i].at : i \in 1..Len(b.journal)} \cup {b.entries[i].at : i \in 1..Len(b.entries)})
    /\ held = [s \in Slots |-> {b.live[s]} \cup {b.journal[i].pair : i \in {j \in 1..Len(b.journal) : b.journal[j].slot = s}}
                                \cup {b.entries[i].has[s] : i \in 1..Len(b.entries)}]
    /\ game = FALSE /\ oplock = Nobody /\ liveop = NoOp /\ tail = NoTail
    /\ notes = [p \in Lines |-> NoNote]
    /\ lineage = [cors |-> <<>>, into |-> [p \in Lines |-> p], splits |-> {}, mark |-> 0, done |-> -1]
    /\ win = [w \in Windows |-> Rest]
    /\ acked = {} /\ said = {} /\ joined = {} /\ fate = [s \in Slots |-> <<>>]

Refreshing(w) == RefreshStart(w) \/ RefreshLook(w) \/ RefreshBusy(w) \/ RefreshRecord(w)
Operating(w)  == OpWrite(w) \/ OpFinish(w) \/ OpRecord(w) \/ Recover(w)
Booting(w)    == BootFill(w) \/ BootObserve(w) \/ BootDone(w)
Writing(w)    == SaveNote(w) \/ \E p \in Lines : OpenNote(w, p) \/ SetPinned(w, p)
Joining(w)    == \E p, q \in Lines : Combine(w, p, q) \/ CombineCut(w, p, q) \/ Uncombine(w, p)
Correcting(w) ==
  \/ \E a \in Known, b \in Known \cup {0} : SetParent(w, a, b)
  \/ \E a, b \in Known : MarkUnrelated(w, a, b)
  \/ \E v \in Known : Split(w, v)
  \/ RemoveCorrection(w) \/ Unsplit(w)
World == StartGame \/ StopGame \/ Backup \/ \E s \in Slots : GameWrites(s) \/ GameSaved(s) \/ Meddle(s)

Next ==
  \/ World
  \/ \E w \in Windows : \/ Refreshing(w) \/ OpStart(w) \/ Operating(w) \/ BootPlan(w) \/ Booting(w)
                        \/ Writing(w) \/ Joining(w) \/ Correcting(w) \/ Crash(w) \/ BrokenAppend(w)

Fairness ==
  /\ WF_vars(StopGame) /\ \A s \in Slots : WF_vars(GameSaved(s))
  /\ \A w \in Windows : SF_vars(Refreshing(w)) /\ SF_vars(Operating(w)) /\ WF_vars(Booting(w))
Spec == Init /\ [][Next]_vars /\ Fairness

\* --- what must hold ---------------------------------------------------------------------

\* Every record is a record, every window a window.
TypeOK ==
  /\ \A s \in Slots : live[s].pair \in Pairs /\ live[s].whole \in BOOLEAN
  /\ game \in BOOLEAN /\ oplock \in Windows \cup {Nobody} /\ liveop.by \in Windows \cup {Nobody}
  /\ \A i \in 1..Len(journal) : journal[i].t \in {"obs", "op"} /\ journal[i].pair \in Pairs /\ journal[i].seq > 0
  /\ tail.t \in {"none", "part", "obs", "op"}
  /\ \A p \in Lines : lineage.into[p] \in Lines /\ notes[p].pinned \in BOOLEAN
  /\ \A w \in Windows : win[w].at \in {"idle", "scan", "look", "op", "fill", "now", "mark"}
  /\ now \in Nat /\ \A k \in DOMAIN left : left[k] \in Nat

\* What the journal says a slot held, it held at rest: not what an operation had
\* half placed, nor a save the game was in the middle of.
SeenIsTrue == \A i \in 1..Len(journal) : journal[i].t = "obs" => journal[i].pair \in held[journal[i].slot]

\* An operation reported as recorded is bound once, to its slot and pair, if it
\* was done, and not at all if it was put back - whatever was torn or retried.
AckedOpsBind ==
  \A a \in acked :
    Cardinality({o \in Ops(journal, KeptVids) : o.op = a.id /\ o.slot = a.slot /\ o.pair = a.pair})
      = IF a.done THEN 1 ELSE 0

\* "Confirmed" only when someone played on what the operation placed, "reverted"
\* or "unexpected" only when something outside came over it.
FateOf(o) == UNION {fate[o.slot][i].by : i \in {j \in 1..Len(fate[o.slot]) : fate[o.slot][j].op = o.op}}
OutcomeTrue ==
  \A o \in Ops(journal, KeptVids) :
    /\ o.is = "confirmed" => FateOf(o) # {}
    /\ o.is \in {"reverted", "unexpected"} => "meddled" \in FateOf(o)

\* Two windows editing one note lose none of the words either was told are saved.
NoteWords == \A x \in said : x[2] \in LastText(x[1])
\* A note's earlier revisions stay as they were.
NotesKept == [][\A p \in Lines : IsPrefix(notes[p].revs, notes'[p].revs)]_vars
\* A Combine reported as done has the words of the note it folded in.
CombineCarries == \A x \in joined : x[2] \in LastText(x[1])

\* Whatever two windows with different pictures correct, no version is its own
\* ancestor, and no save file is combined into itself by way of another.
GraphIsForest == LET p == Parent IN \A v \in Vids : p[v] # 0 => ~Reaches(p, p[v], v)
\* The journal's evidence alone: "An edge that would close a cycle (only owner corrections
\* can) is dropped and reported" (docs/organizer/designs/D1-core-model.md:744).
OnlyOwnersClose ==
  LET p == Recorded(Edges(journal, KeptVids), <<>>) IN \A v \in Vids : p[v] # 0 => ~Reaches(p, p[v], v)
AliasesEnd    == \A p \in Lines : LET c == Canonical(lineage.into, p) IN lineage.into[c] = c

\* Every version is found in the view: folded away, it is under a row of its own
\* save file that is not, and in the tree that row is the one it is counted at.
AllPairs == {journal[i].pair : i \in 1..Len(journal)} \cup {live[s].pair : s \in Slots}
              \cup UNION {{entries[i].has[s] : s \in Slots} : i \in 1..Len(entries)}
Marked   == UNION {Members(journal[i].pair) \cup Members(journal[i].evicted) :
                     i \in {j \in 1..Len(journal) : journal[j].t = "op" /\ journal[j].done}}
View     == Picture(AllPairs, Edges(journal, KeptVids), lineage, Marked, UNION {Members(live[s].pair) : s \in Slots})
IsFoundIn(g, fold, drawn, v) ==
  \A row \in {Final(fold, v)} :
    /\ fold[row] = 0 /\ g.pid[row] = g.pid[v]
    /\ fold[v] # 0 /\ v \in g.tree => DrawnParent(g, drawn, v) = row
EveryVersionShown ==
  \A g \in {View} : \A fold \in {Folding(g)} : \A drawn \in {Drawn(g, fold)} :
    \A v \in g.heads : IsFoundIn(g, fold, drawn, v)

\* Two branches of one drawn tree never run through the same cell.
TreeOf(g, drawn) == [v \in drawn |-> DrawnParent(g, drawn, v)]
ApartIn(up) ==
  \A span \in {Spans(up, Mains(up))} : \A lane \in {Lanes(up, span)} :
    \A a, b \in DOMAIN lane : a # b /\ lane[a] = lane[b] => span[a] \cap span[b] = {}
LanesApart ==
  \A g \in {View} : \A drawn \in {Drawn(g, Folding(g))} :
    \A line \in {g.pid[v] : v \in g.shown} : ApartIn(TreeOf(g, {v \in drawn : g.pid[v] = line}))

\* Once the slots stay as they are, the journal comes to say what they hold.
CatchesUp == <>[](\A s \in Slots : live[s].whole => LastPair(journal, s) = live[s].pair)

\* What the journal says of a slot is what was there: a reading is of one state, a told
\* operation binds, its outcome does not depend on the order of the lines.
ShownIsTrue == TypeOK /\ SeenIsTrue /\ AckedOpsBind /\ OutcomeTrue

\* The lineage the windows draw is a forest with every version in it, whatever
\* corrections and Combines they made of old graphs.
LineageIsSound == GraphIsForest /\ AliasesEnd /\ EveryVersionShown /\ LanesApart

\* No edit, Combine or split of another window takes away the words of a note.
NotesSurvive == []NoteWords /\ []CombineCarries /\ NotesKept
=============================================================================

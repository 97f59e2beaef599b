---------------------------- MODULE CommandLine ----------------------------
(* nmsvault-cli: each command is a process of its own that reads the vault  *)
(* and the saves, shows what it would do, asks, does it after a look again  *)
(* at what it read, and ends with an exit code.  Two terminals, the game    *)
(* and the owner's hands on the vault go on between these steps.            *)
EXTENDS Integers, Sequences, FiniteSets, SequencesExt

CONSTANTS Terminals, LiveSlots,
          Lives      \* how the vault begins, what may be typed, and how often each thing may happen

VARIABLES
  saves,      \* LiveSlots -> a save: which one it is, and was it played since it was put there
  before,    \* the snapshots of the live folder that a whole undo may take, oldest first
  moves,     \* the journal: moves that are done, oldest first
  torn,      \* a move whose process ended in the middle
  probe,     \* is the game running: "no", "yes" or "unknown"
  layout,    \* of the vault: its mode, what is left of an interrupted upgrade, the old folders
             \* that are there (olds), in part deleted (part) and in the store (folded), the
             \* hand-made folders copied in, the other entries, the copy from before the upgrade
  memo,      \* a save file's note: the lines of its newest revision, and the revision
  toRead,    \* the content index: versions nobody has read, waiting and at work
  term,      \* what each terminal runs
  luck       \* what may still be typed and happen

cliVars == <<saves, before, moves, torn, probe, layout, memo, toRead, term, luck>>
World   == <<saves, before, moves, torn, probe, layout, memo, toRead>>

NoMove == [kind |-> "none", was |-> <<>>, now |-> <<>>, undoes |-> 0, sealed |-> FALSE]
NoPreview == [blocked |-> FALSE, asks |-> {}, seen |-> <<>>, new |-> <<>>, undoes |-> 0, rev |-> 0,
              free |-> {}]
MoveOf(cmd, plan) ==
  [kind |-> cmd, was |-> plan.seen, now |-> plan.new, undoes |-> plan.undoes, sealed |-> FALSE]
SlotsOf(move) == DOMAIN move.now
NoWish == [cmd |-> "none", slot |-> 1, save |-> 1, yes |-> FALSE, codes |-> {}, force |-> FALSE,
           answer |-> "none"]
Prompt == [wish |-> NoWish, at |-> "ended", plan |-> NoPreview, agreed |-> {}, code |-> 0,
           said |-> "none", idle |-> 0]
Luck(what) == luck[what] > 0 /\ luck' = [luck EXCEPT ![what] = @ - 1]

LiveCommands  == {"place", "swap", "keep", "undo", "panic"}
StoreCommands == {"upgrade", "fold", "copyin", "free", "rollback", "stay", "fsck"}
Asking        == {"upgrade", "rollback"}
ByHand        == {1, 2}     \* hand-made folders the catalog lists in place

Stands(t, at)   == term[t].at = at
Cmd(t)       == term[t].wish.cmd
Turns(t, at)  == term' = [term EXCEPT ![t].at = at]
\* A command ends: its exit code and its last word.
Exits(t, code, said) ==
  term' = [term EXCEPT ![t].at = "ended", ![t].code = code, ![t].said = said]

-----------------------------------------------------------------------------
(* main: the paths are checked, then the command runs.                      *)

\* Commands that may start a vault where there is none (_MAY_START_VAULT).
MayStart == {"backup", "import"} \cup StoreCommands
\* startup_notice: whoever opens the vault clears what an interrupted upgrade left.
Notice == layout' = [layout EXCEPT !.left = FALSE]

Types(t, wish) ==
  /\ Stands(t, "ended") /\ Luck("commands")
  /\ UNCHANGED <<saves, before, moves, torn, probe, memo, toRead>>
  /\ IF layout.mode = "none" /\ wish.cmd \notin MayStart
     THEN /\ term' = [term EXCEPT ![t] = [Prompt EXCEPT !.wish = wish, !.code = 1, !.said = "path"]]
          /\ UNCHANGED layout
     ELSE /\ term' = [term EXCEPT ![t] = [Prompt EXCEPT !.wish = wish, !.at = "open"]]
          /\ IF wish.cmd \in StoreCommands \cup {"backup", "import", "list", "promote"}
             THEN Notice ELSE UNCHANGED layout

-----------------------------------------------------------------------------
(* Moves of live slots: plan, show, ask, execute.                           *)

Ahead(slots)     == IF \E s \in slots : saves[s].played THEN {"AHEAD"} ELSE {}
Twin(slot, id)   == IF \E s \in LiveSlots \ {slot} : saves[s].id = id THEN {"TWIN"} ELSE {}
Game             == IF probe = "unknown" THEN {"GAME_STATE_UNKNOWN"} ELSE {}
OnlyOf(slots, f) == [s \in slots |-> f[s]]
Untouched(id)    == [id |-> id, played |-> FALSE]
OtherSlot(s)     == CHOOSE r \in LiveSlots : r # s
Exchanged        == [s \in LiveSlots |-> saves[OtherSlot(s)]]
SaveIds(f)       == [s \in DOMAIN f |-> f[s].id]

Undone(i)  == \E j \in DOMAIN moves : moves[j].undoes = i
\* cmd_undo: the newest move of the slot that is not itself an undo.
Undoable(i, s) == s \in SlotsOf(moves[i]) /\ moves[i].undoes = 0
Newest(s)  == {i \in DOMAIN moves : Undoable(i, s) /\ \A j \in DOMAIN moves : j > i => ~Undoable(j, s)}

\* vault_problem, recovery_pending and game_warning.
Closed == layout.mode # "store" \/ layout.undoing
Preview(asks, new, more) ==
  [NoPreview EXCEPT !.blocked = Closed \/ torn # NoMove \/ probe = "yes" \/ more,
                    !.asks = asks \cup Game, !.seen = OnlyOf(DOMAIN new, saves), !.new = new]

PlanPlace(wish) ==
  Preview(Ahead({wish.slot}) \cup Twin(wish.slot, wish.save), wish.slot :> Untouched(wish.save),
          saves[wish.slot].id = wish.save)
PlanSwap == Preview({}, Exchanged, \E s \in LiveSlots : saves[s].id = 0)
PlanKeep(wish) ==
  [NoPreview EXCEPT !.blocked = Closed \/ saves[wish.slot].id = 0,
                    !.seen = OnlyOf({wish.slot}, saves)]
\* What was played since a swap goes back with its save.
PlanUndo(i) ==
  LET move == moves[i] IN
  [Preview(Ahead(SlotsOf(move)), IF move.kind = "swap" THEN Exchanged ELSE move.was,
           Undone(i) \/ SaveIds(OnlyOf(SlotsOf(move), saves)) # SaveIds(move.now))
     EXCEPT !.undoes = i]
\* The whole folder: it asks nothing, and meets the vault, a torn move and the game only when
\* it is executed.
PlanPanic ==
  LET snapshot == Last(before) IN
  IF before = <<>> THEN [NoPreview EXCEPT !.blocked = TRUE]
  ELSE LET held == {s \in LiveSlots : snapshot[s].id # 0} IN
       [NoPreview EXCEPT !.seen = OnlyOf(held, saves), !.new = OnlyOf(held, snapshot)]

Plans(t) ==
  /\ Stands(t, "open") /\ Cmd(t) \in LiveCommands
  /\ UNCHANGED <<World, luck>>
  /\ LET wish == term[t].wish
         shown(plan) == term' = [term EXCEPT ![t].at = "shown", ![t].plan = plan] IN
     \/ wish.cmd = "place" /\ shown(PlanPlace(wish))
     \/ wish.cmd = "swap"  /\ shown(PlanSwap)
     \/ wish.cmd = "keep"  /\ shown(PlanKeep(wish))
     \/ wish.cmd = "panic" /\ shown(PlanPanic)
     \/ wish.cmd = "undo" /\ \E i \in Newest(wish.slot) :
          IF moves[i].kind = "panic" THEN Exits(t, 1, "whole folder") ELSE shown(PlanUndo(i))
     \/ wish.cmd = "undo" /\ Newest(wish.slot) = {} /\ Exits(t, 1, "no move")

\* --yes answers Go on?; a confirmation of the plan is answered by its own code, or by the
\* owner who has read it.
Answered(wish, asks) ==
  IF ~wish.yes /\ wish.answer = "yes" THEN wish.codes \cup asks ELSE wish.codes

\* _run: --force is added last, so it answers only what came up after the plan.
Asks(t) ==
  /\ Stands(t, "shown") /\ Cmd(t) \in LiveCommands
  /\ UNCHANGED <<World, luck>>
  /\ LET wish == term[t].wish
         plan == term[t].plan
         yes  == wish.yes \/ wish.cmd = "keep"
         said == Answered(wish, plan.asks) IN
     IF plan.blocked THEN Exits(t, 2, "blocked")
     ELSE IF ~yes /\ wish.answer # "yes" THEN Exits(t, 1, "cancelled")
     ELSE IF ~(plan.asks \subseteq said) THEN Exits(t, 1, "needs codes")
     ELSE term' = [term EXCEPT ![t].at = "go",
                     ![t].agreed = said \cup {"go"}
                                     \cup (IF wish.force THEN {"GAME_STATE_UNKNOWN"} ELSE {})]

\* One live write at a time.
Writing == \E t \in Terminals : term[t].at = "writing"

\* execute, as far as its `writing` event: everything the plan rests on is looked at again.
Changed(plan) == OnlyOf(DOMAIN plan.seen, saves) # plan.seen
Begins(t) ==
  /\ Stands(t, "go") /\ Cmd(t) \in LiveCommands \ {"keep"}
  /\ UNCHANGED <<saves, moves, torn, probe, layout, memo, toRead, luck>>
  /\ LET refuse(why) == Exits(t, 1, why) /\ UNCHANGED before IN
     IF Writing \/ Closed THEN refuse("refused")
     ELSE IF Changed(term[t].plan) THEN refuse("stale")
     ELSE IF torn # NoMove \/ probe = "yes" \/ ~(Game \subseteq term[t].agreed) THEN refuse("refused")
     ELSE Turns(t, "writing") /\ before' = Append(before, saves)

\* The write, refused when the slot has changed meanwhile; a write that fails is put back.
\* The snapshot of a move that wrote nothing is none that an undo takes.
WritesSlots(t) ==
  /\ Stands(t, "writing")
  /\ UNCHANGED <<torn, probe, layout, memo, toRead>>
  /\ LET plan   == term[t].plan
         nothing == UNCHANGED <<saves, moves>> /\ before' = Front(before) IN
     \/ Changed(plan) /\ UNCHANGED luck /\ nothing /\ Exits(t, 1, "stale")
     \/ /\ ~Changed(plan) /\ UNCHANGED <<luck, before>>
        /\ saves' = plan.new @@ saves /\ moves' = Append(moves, MoveOf(Cmd(t), plan))
        /\ Exits(t, 0, "done")
     \/ ~Changed(plan) /\ Luck("faults") /\ nothing /\ Exits(t, 1, "rolled back")

\* Keep a copy: nothing live is written; the vault gets an entry.
Keeps(t) ==
  /\ Stands(t, "go") /\ Cmd(t) = "keep"
  /\ UNCHANGED <<saves, before, moves, torn, probe, memo, toRead, luck>>
  /\ IF Closed THEN Exits(t, 1, "refused") /\ UNCHANGED layout
     ELSE IF Changed(term[t].plan) THEN Exits(t, 1, "stale") /\ UNCHANGED layout
     ELSE /\ layout' = [layout EXCEPT !.entries = @ + 1]
          /\ Exits(t, 0, "done")

\* The terminal is closed while the move writes: some of its slots are written.
Killed(t) ==
  /\ Stands(t, "writing") /\ Luck("kills")
  /\ LET plan == term[t].plan IN
       /\ ~Changed(plan)
       /\ \E written \in SUBSET DOMAIN plan.new : \E sealed \in {FALSE, written = DOMAIN plan.new} :
            /\ torn' = [MoveOf(Cmd(t), plan) EXCEPT !.sealed = sealed]
            /\ saves' = OnlyOf(written, plan.new) @@ saves
  /\ term' = [term EXCEPT ![t] = Prompt]
  /\ UNCHANGED <<before, moves, probe, layout, memo, toRead>>

\* What a torn move's slots hold: what it found, what it wrote, some of each, or neither.
Holds(f)  == OnlyOf(SlotsOf(torn), saves) = f
OnlyTorn  == \A s \in SlotsOf(torn) : saves[s] \in {torn.was[s], torn.now[s]}
WaysOut   == IF ~OnlyTorn THEN {"leave"}
             ELSE IF torn.sealed \/ Holds(torn.now) THEN {"forward"}
             ELSE IF Holds(torn.was) THEN {"back"} ELSE {"forward", "back"}
\* recover --op: the list first; what is finished or untouched is settled on the way, and
\* nothing waits while another terminal writes.
Listed(t) ==
  /\ Stands(t, "open") /\ Cmd(t) = "recover"
  /\ UNCHANGED <<probe, layout, memo, toRead, saves, luck>>
  /\ LET settled == torn' = NoMove /\ Exits(t, 1, "nothing waits") IN
     IF torn = NoMove \/ Writing
     THEN Exits(t, 1, "nothing waits") /\ UNCHANGED <<torn, moves, before>>
     ELSE IF torn.sealed /\ Holds(torn.now) /\ probe = "no"
     THEN settled /\ moves' = Append(moves, torn) /\ UNCHANGED before
     ELSE IF ~torn.sealed /\ Holds(torn.was) /\ probe = "no"
     THEN settled /\ before' = Front(before) /\ UNCHANGED moves
     ELSE /\ term' = [term EXCEPT ![t].at = "choose", ![t].agreed = WaysOut]
          /\ UNCHANGED <<torn, moves, before>>

\* --choice, or what is recommended; a slot that was written since is only ever left.
Recovers(t) ==
  /\ Stands(t, "choose")
  /\ UNCHANGED <<probe, layout, memo, toRead, luck>>
  /\ \E choice \in term[t].agreed :
       IF \/ torn = NoMove \/ probe = "yes" \/ (probe = "unknown" /\ ~term[t].wish.force) \/ Writing
          \/ choice # "leave" /\ ~OnlyTorn
       THEN Exits(t, 1, "refused") /\ UNCHANGED <<saves, moves, torn, before>>
       ELSE /\ torn' = NoMove /\ Exits(t, 0, "done")
            /\ saves'  = CASE choice = "forward" -> torn.now @@ saves
                           [] choice = "back"    -> torn.was @@ saves
                           [] choice = "leave"   -> saves
            /\ moves'  = IF choice = "forward" THEN Append(moves, torn) ELSE moves
            /\ before' = IF choice = "forward" THEN before ELSE Front(before)

-----------------------------------------------------------------------------
(* store upgrade | fold | copy-in | free-old-folders | rollback | fsck.     *)

NoFormat == layout.mode = "noformat"
NotFolded(l) == l.olds \ l.folded
MayGo     == layout.olds \cap layout.folded
Agreed(wish) == wish.yes \/ wish.answer = "yes"

\* What stands in the way, as each command finds it before it asks.
Problem(cmd) ==
  CASE cmd = "upgrade"  -> layout.mode \in {"none", "store"} \/ layout.undoing
    [] cmd \in {"fold", "copyin", "free", "fsck"} -> layout.mode # "store" \/ layout.undoing
    [] cmd = "rollback" -> layout.mode # "store" \/ ~layout.pre
    [] OTHER            -> FALSE

StoreShown(t) ==
  /\ Stands(t, "open") /\ Cmd(t) \in StoreCommands
  /\ UNCHANGED <<saves, before, moves, torn, probe, memo, toRead, luck>>
  /\ LET wish == term[t].wish IN
     IF wish.cmd = "upgrade" /\ layout.mode = "new"
     THEN /\ layout' = [layout EXCEPT !.mode = "store"]                     \* start_new_vault
          /\ Exits(t, 0, "new vault")
     ELSE /\ UNCHANGED layout
          /\ IF NoFormat \/ Problem(wish.cmd) THEN Exits(t, 1, "error")
             ELSE IF wish.cmd = "free" /\ MayGo = {} THEN Exits(t, 0, "nothing to free")
             ELSE IF wish.cmd = "free" /\ ~wish.yes THEN Exits(t, 0, "shown only")
             ELSE IF wish.cmd = "stay" /\ ~layout.undoing THEN Exits(t, 0, "nothing to do")
             ELSE IF wish.cmd \in Asking /\ ~Agreed(wish) THEN Exits(t, 1, "cancelled")
             ELSE term' = [term EXCEPT ![t].at = "run", ![t].agreed = {"go"},
                                       ![t].plan.rev = layout.entries, ![t].plan.free = MayGo]

\* run_fold: an old folder that cannot be read in stays a folder and the fold goes on, or space
\* runs out and it stops there; a deep check of the store follows a whole fold. What was read in
\* before stays read in, whatever the exit code.
Folds(t, from) ==
  \E read \in SUBSET NotFolded(from) :
    /\ layout' = [from EXCEPT !.folded = @ \cup read]
    /\ \/ read = NotFolded(from) /\ ~from.hurt /\ UNCHANGED luck /\ Exits(t, 0, "done")
       \/ read = NotFolded(from) /\ from.hurt /\ UNCHANGED luck /\ Exits(t, 1, "damaged")
       \/ read # NotFolded(from) /\ Luck("faults") /\ Exits(t, 1, "failed")
       \/ read # NotFolded(from) /\ Luck("faults") /\ Exits(t, 0, "waits for space")

\* run_upgrade, then the fold.
Upgrades(t) ==
  /\ Stands(t, "run") /\ Cmd(t) = "upgrade"
  /\ UNCHANGED <<saves, before, moves, torn, probe, memo, toRead>>
  /\ LET ok == layout.mode = "classic" IN
     \/ ~ok /\ Exits(t, 1, "error") /\ UNCHANGED <<layout, luck>>
     \/ ok /\ Luck("faults") /\ UNCHANGED layout /\ Exits(t, 1, "error")
     \/ ok /\ Folds(t, [layout EXCEPT !.mode = "store", !.pre = TRUE])

\* Every hand-made folder is copied in that can be (copy_in); the exit is 1 when one cannot.
TakesIn(t) ==
  \E in \in SUBSET (ByHand \ layout.copied) :
    /\ layout' = [layout EXCEPT !.copied = @ \cup in, !.entries = @ + Cardinality(in)]
    /\ \/ layout'.copied = ByHand /\ UNCHANGED luck /\ Exits(t, 0, "done")
       \/ layout'.copied # ByHand /\ Luck("faults") /\ Exits(t, 1, "failed")
FoldsIn(t) ==
  /\ Stands(t, "run") /\ Cmd(t) \in {"fold", "copyin"}
  /\ UNCHANGED <<saves, before, moves, torn, probe, memo, toRead>>
  /\ \/ Problem(Cmd(t)) /\ Exits(t, 1, "error") /\ UNCHANGED <<layout, luck>>
     \/ ~Problem(Cmd(t)) /\ Cmd(t) = "fold" /\ Folds(t, layout)
     \/ ~Problem(Cmd(t)) /\ Cmd(t) = "copyin" /\ TakesIn(t)

\* run_free: a deep check first; of the folders shown those go that are still in the store. One
\* of which a file cannot be deleted stays, in part or whole, and the others still go.
Frees(t) ==
  /\ Stands(t, "run") /\ Cmd(t) = "free"
  /\ UNCHANGED <<saves, before, moves, torn, probe, memo, toRead>>
  /\ LET due == term[t].plan.free \cap MayGo IN
     \/ Problem("free") /\ Exits(t, 1, "error") /\ UNCHANGED <<layout, luck>>
     \/ ~Problem("free") /\ layout.hurt /\ Exits(t, 1, "damaged") /\ UNCHANGED <<layout, luck>>
     \/ /\ ~Problem("free") /\ ~layout.hurt
        /\ \E stuck \in SUBSET due : \E cut \in SUBSET stuck :
             /\ layout' = [layout EXCEPT !.olds = @ \ (due \ stuck),
                                         !.part = (@ \ (due \ stuck)) \cup cut]
             /\ IF stuck = {} THEN UNCHANGED luck /\ Exits(t, 0, "done")
                ELSE Luck("faults") /\ Exits(t, 1, "leftovers")

\* run_rollback: what it would write out is compared with what was shown; keep-upgrade.
Rolls(t) ==
  /\ Stands(t, "run") /\ Cmd(t) \in {"rollback", "stay"}
  /\ UNCHANGED <<saves, before, moves, torn, probe, memo, toRead>>
  /\ LET back == [layout EXCEPT !.mode = "classic", !.undoing = FALSE, !.folded = {},
                                !.pre = FALSE, !.olds = @ \cup layout.folded, !.part = {},
                                !.copied = {}, !.hurt = FALSE]
         may  == ~Problem("rollback") /\ torn = NoMove /\ ~Writing
                   /\ layout.entries = term[t].plan.rev IN
     \/ /\ Cmd(t) = "stay" /\ layout' = [layout EXCEPT !.undoing = FALSE] /\ UNCHANGED luck
        /\ Exits(t, 0, "done")
     \/ /\ Cmd(t) = "rollback" /\ ~may /\ Exits(t, 1, "error") /\ UNCHANGED <<layout, luck>>
     \/ /\ Cmd(t) = "rollback" /\ may /\ layout' = back /\ UNCHANGED luck
        /\ Exits(t, 0, "done")
     \/ /\ Cmd(t) = "rollback" /\ may /\ Luck("faults")
        /\ layout' = [layout EXCEPT !.undoing = TRUE] /\ Exits(t, 1, "interrupted")

\* fsck --repair finds a good copy or does not.
Checks(t) ==
  /\ Stands(t, "run") /\ Cmd(t) = "fsck"
  /\ UNCHANGED <<saves, before, moves, torn, probe, memo, toRead, luck>>
  /\ \/ Problem("fsck") /\ Exits(t, 1, "error") /\ UNCHANGED layout
     \/ ~Problem("fsck") /\ ~layout.hurt /\ Exits(t, 0, "no damage") /\ UNCHANGED layout
     \/ ~Problem("fsck") /\ layout.hurt /\ Exits(t, 1, "damage") /\ UNCHANGED layout
     \/ /\ ~Problem("fsck") /\ layout.hurt /\ term[t].wish.yes
        /\ layout' = [layout EXCEPT !.hurt = FALSE]
        /\ Exits(t, 0, "repaired")

-----------------------------------------------------------------------------
(* Classic commands, notes and the index.                                   *)

\* backup, import, discover --add: an entry, or an error and none. Of another vault some entries
\* may be in when one fails: copied one by one that is an error, and a merge reports it and still
\* exits 0 (_report's result is not looked at). A vault begins with the first write to it.
Adds(t) ==
  /\ Stands(t, "open") /\ Cmd(t) \in {"backup", "import"}
  /\ UNCHANGED <<saves, before, moves, torn, probe, memo, toRead>>
  /\ LET refused == NoFormat \/ layout.undoing
         begun   == IF layout.mode = "none" THEN "store" ELSE layout.mode IN
     \/ refused /\ Exits(t, 1, "error") /\ UNCHANGED <<layout, luck>>
     \/ /\ ~refused /\ UNCHANGED luck
        /\ layout' = [layout EXCEPT !.entries = @ + 1, !.mode = begun]
        /\ Exits(t, 0, "done")
     \/ ~refused /\ Luck("faults") /\ Exits(t, 1, "error")
        /\ layout' \in {layout, [layout EXCEPT !.mode = begun]}
     \/ /\ ~refused /\ Cmd(t) = "import" /\ Luck("faults")
        /\ layout' = [layout EXCEPT !.entries = @ + 1, !.mode = begun]
        /\ Exits(t, 1, "error") \/ Exits(t, 0, "FAILED")

\* promote: one command, no question; what the plan asks is confirmed for the owner, only a
\* game that cannot be seen needs --force.
Promotes(t) ==
  /\ Stands(t, "open") /\ Cmd(t) = "promote"
  /\ UNCHANGED <<torn, probe, layout, memo, toRead, luck>>
  /\ LET s    == term[t].wish.slot
         new  == s :> Untouched(saves[s].id)
         ends(code, why) == Exits(t, code, why) /\ UNCHANGED <<saves, before, moves>> IN
     IF saves[s].id = 0 THEN ends(1, "nothing there")
     ELSE IF ~saves[s].played THEN ends(0, "already loads")
     ELSE IF Closed THEN ends(1, "refused")
     ELSE IF probe = "yes" THEN ends(2, "refused")
     ELSE IF torn # NoMove \/ Writing \/ (probe = "unknown" /\ ~term[t].wish.force) THEN ends(1, "refused")
     ELSE /\ before' = Append(before, saves) /\ saves' = new @@ saves
          /\ moves' = Append(moves, [NoMove EXCEPT !.kind = "promote", !.was = OnlyOf({s}, saves),
                                                    !.now = new])
          /\ Exits(t, 0, "done")

\* list, board, saves, history, verify: they look.
Lists(t) ==
  /\ Stands(t, "open") /\ Cmd(t) = "list"
  /\ UNCHANGED <<World, luck>>
  /\ \/ ~NoFormat /\ Exits(t, 0, "listed")
     \/ Exits(t, 1, "error")

\* note --append and --set: the note is read with the model, and written if it is still the
\* revision that was read.
ReadsNote(t) ==
  /\ Stands(t, "open") /\ Cmd(t) \in {"append", "setnote"}
  /\ UNCHANGED <<World, luck>>
  /\ term' = [term EXCEPT ![t].at = "note", ![t].agreed = {"go"},
                ![t].plan.rev = memo.rev, ![t].plan.seen = memo.lines]
WritesNote(t) ==
  /\ Stands(t, "note")
  /\ UNCHANGED <<saves, before, moves, torn, probe, layout, toRead, luck>>
  /\ IF memo.rev # term[t].plan.rev THEN Exits(t, 1, "conflict") /\ UNCHANGED memo
     ELSE /\ memo' = [rev |-> memo.rev + 1,
                      lines |-> IF Cmd(t) = "append" THEN Append(term[t].plan.seen, memo.rev + 1)
                                ELSE <<memo.rev + 1>>]

          /\ Exits(t, 0, "done")

\* index build: every version is asked for, then _follow waits while anything can start.
AsksIndex(t) ==
  /\ Stands(t, "open") /\ Cmd(t) = "build"
  /\ UNCHANGED <<saves, before, moves, torn, probe, layout, memo, luck>>
  /\ toRead' = [toRead EXCEPT !.waiting = @ \cup toRead.new, !.new = {}]
  /\ Turns(t, "follow")
\* A background version does not start while the game runs; a live one does.
Indexes == \E v \in toRead.waiting :
  /\ \E t \in Terminals : Stands(t, "follow")
  /\ toRead.busy = {} /\ (v = "old" => probe # "yes")
  /\ toRead' = [toRead EXCEPT !.waiting = @ \ {v}, !.busy = {v}]
  /\ UNCHANGED <<saves, before, moves, torn, probe, layout, memo, term, luck>>
Indexed ==
  /\ toRead.busy # {}
  /\ toRead' = [toRead EXCEPT !.busy = {}]
  /\ UNCHANGED <<saves, before, moves, torn, probe, layout, memo, term, luck>>
Idlers == 2      \* looks in a row at which nothing could start (STUCK_S)
Follows(t) ==
  /\ Stands(t, "follow")
  /\ UNCHANGED <<World, luck>>
  /\ IF toRead.waiting \cup toRead.busy = {} THEN Exits(t, 0, "indexed")
     ELSE IF toRead.busy # {} THEN term' = [term EXCEPT ![t].idle = 0]
     ELSE IF term[t].idle >= Idlers THEN Exits(t, 2, "stopped")
     ELSE term' = [term EXCEPT ![t].idle = @ + 1]

-----------------------------------------------------------------------------
(* Outside: the game and the owner's hands.                                 *)

GameTurns ==
  /\ Luck("game") /\ probe' \in {"no", "yes", "unknown"} \ {probe}
  /\ UNCHANGED <<saves, before, moves, torn, layout, memo, toRead, term>>
GamePlays ==
  /\ probe # "no" /\ Luck("plays")
  /\ \E s \in LiveSlots : ~saves[s].played /\ saves[s].id # 0 /\ saves' = [saves EXCEPT ![s].played = TRUE]
  /\ UNCHANGED <<before, moves, torn, probe, layout, memo, toRead, term>>
Hurt ==
  /\ Luck("hurt")
  /\ layout' \in {[layout EXCEPT !.hurt = layout.mode = "store"], [layout EXCEPT !.pre = FALSE]}
  /\ UNCHANGED <<saves, before, moves, torn, probe, memo, toRead, term>>

CliInit ==
  /\ \E life \in Lives : layout = life.layout /\ luck = life.luck
  /\ saves = [s \in LiveSlots |-> [id |-> s, played |-> s = 1]]
  /\ before = <<>>
  /\ moves = <<>> /\ torn = NoMove /\ probe = "no"
  /\ memo = [rev |-> 0, lines |-> <<>>]
  /\ toRead = [new |-> {"live", "old"}, waiting |-> {}, busy |-> {}]
  /\ term = [t \in Terminals |-> Prompt]

CliNext ==
  \/ \E t \in Terminals :
       \/ \E wish \in luck.wishes : Types(t, wish)
       \/ Plans(t) \/ Asks(t) \/ Begins(t) \/ WritesSlots(t) \/ Keeps(t) \/ Killed(t)
       \/ Listed(t) \/ Recovers(t)
       \/ StoreShown(t) \/ Upgrades(t) \/ FoldsIn(t) \/ Frees(t) \/ Rolls(t) \/ Checks(t)
       \/ Adds(t) \/ Promotes(t) \/ Lists(t) \/ ReadsNote(t) \/ WritesNote(t)
       \/ AsksIndex(t) \/ Follows(t)
  \/ Indexes \/ Indexed \/ GameTurns \/ GamePlays \/ Hurt
-----------------------------------------------------------------------------
(* Properties.                                                              *)

\* Plays that are in no slot after a step, and slots that a step changes.
Lost    == {s \in LiveSlots : saves[s].played /\ \A r \in LiveSlots : saves'[r] # saves[s]}
Touched == {s \in LiveSlots : saves'[s] # saves[s]}
\* Old folders of which a step deletes something.
Deleted == (layout.olds \ layout'.olds) \cup (layout'.part \ layout.part)
LaterThan(i, slots) == {j \in DOMAIN moves : /\ j > i /\ SlotsOf(moves[j]) \cap slots # {}
                                             /\ moves[j].undoes = 0 /\ ~Undone(j)}

\* A play that a command replaces was one that the owner had been asked about and agreed to,
\* by its code or with its text in view, even when the game or another terminal comes between
\* the question and the write. A panic asks for the whole folder, promote and recover ask
\* nothing; recover changes only slots that hold what its move left in them.
AskedFor(t) ==
  LET cmd == Cmd(t) IN
  /\ saves' # saves => cmd \in LiveCommands \cup {"promote", "recover"}
  /\ saves' # saves /\ cmd \in LiveCommands => "go" \in term[t].agreed
  /\ Lost # {} /\ cmd \in LiveCommands \ {"panic"} =>
       /\ "AHEAD" \in term[t].plan.asks
       /\ "AHEAD" \in term[t].wish.codes \/ (~term[t].wish.yes /\ term[t].wish.answer = "yes")
  /\ cmd = "recover" => \A s \in Touched : saves[s] \in {torn.was[s], torn.now[s]}
  /\ Deleted # {} => /\ cmd = "free" /\ term[t].wish.yes /\ ~layout.hurt
                     /\ Deleted \subseteq layout.folded \cap term[t].plan.free
  /\ layout.mode = "store" /\ layout'.mode # "store" =>
       /\ Agreed(term[t].wish) /\ layout.pre /\ torn = NoMove /\ ~Writing
       /\ layout.entries = term[t].plan.rev

\* What a command that failed may have changed: it has added to the vault, or deleted old
\* folders that the store holds. Only an undo of the upgrade can be left half done.
OnlyAdded ==
  /\ layout'.entries >= layout.entries /\ layout.copied \subseteq layout'.copied
  /\ layout.folded \subseteq layout'.folded /\ layout'.undoing = layout.undoing
  /\ layout.mode = "store" => layout'.mode = "store"
\* Some of what a store command was to do is not done.
Unfinished(t) ==
  CASE Cmd(t) \in {"upgrade", "fold"} -> NotFolded(layout') # {} \/ layout'.hurt
    [] Cmd(t) = "copyin"              -> layout'.copied # ByHand
    [] Cmd(t) = "free"                -> layout'.olds \cap term[t].plan.free # {}

\* An exit code other than 0 leaves the saves and the notes alone and takes nothing from the
\* vault, though a part of what was asked may be done: 2 that nothing was. A command that works
\* through many folders exits with 0 when all of them are done and with 1 when one is not, but
\* for a fold that waits for space.
SaidSo(t) ==
  LET end == term'[t] IN
  /\ end.code # 0 => /\ UNCHANGED <<saves, memo>> /\ (moves' = moves \/ Cmd(t) = "recover")
                     /\ end.said # "interrupted" => OnlyAdded
                     /\ end.said \in {"failed", "leftovers"} => Unfinished(t)
  /\ end.code = 2 => UNCHANGED <<layout, moves>>
  /\ end.code = 0 /\ end.said = "done" =>
       CASE Cmd(t) = "place"    -> saves'[end.wish.slot] = Untouched(end.wish.save)
         [] Cmd(t) = "undo"     -> /\ SaveIds(OnlyOf(DOMAIN end.plan.new, saves')) =
                                        SaveIds(moves[end.plan.undoes].was)
                                   /\ LaterThan(end.plan.undoes, DOMAIN end.plan.new) = {}
         [] Cmd(t) = "swap"     -> saves' = Exchanged
         [] Cmd(t) \in {"upgrade", "fold", "copyin", "free"} -> ~Unfinished(t)
         [] Cmd(t) = "append"   -> IsPrefix(memo.lines, memo'.lines)
         [] Cmd(t) \in {"keep", "backup", "import"} -> layout'.entries > layout.entries
         [] OTHER -> TRUE

CommandEnds(t) == term[t].at # "ended" /\ term'[t].at = "ended" /\ Cmd(t) = term'[t].wish.cmd
=============================================================================

------------------------------- MODULE LiveOps -------------------------------
(***************************************************************************)
(* Live operations as a whole: one app at a time (the live-op lock) runs   *)
(* operations and recovery; the game or a cloud sync writes the same       *)
(* files whenever it likes; the app may crash between any two steps.       *)
(***************************************************************************)
EXTENDS Recovery

Init ==
  /\ live \in {[s \in Slots |-> [f \in Files |-> IF f \in here[s] THEN First ELSE Absent]] :
                 here \in [Slots -> Filled]}
  /\ temps = {} /\ vault = {} /\ kept = {}
  /\ status = [o \in Ops |-> "none"]
  /\ rec = [o \in Ops |-> NoPlan]
  /\ settled = [o \in Ops |-> {}]
  /\ oplog = [o \in Ops |-> "none"]
  /\ lineage = [o \in Ops |-> "none"]
  /\ marker = {}
  /\ run = NoRun
  /\ offered = [o \in Ops |-> {}]
  /\ told = [o \in Ops |-> "nothing"]
  /\ game = FALSE
  /\ outside = 0
  /\ late = [k \in 1..MaxOutside |-> "no"]
  /\ gone = {}
  /\ crashes = 0
  /\ faults = 0

\* The game, or a sync, writes one file of a slot.  `late` notes the writes
\* that fall between the app's last look at a slot and its own write.
Moment == CASE run.pc \in {"rename", "restore"} -> "swap"
            [] /\ run.mode = "forward"
               /\ run.pc \in {"rederive", "replan", "stage", "check"} -> "forward"
            [] OTHER -> "no"

OutsideWrite(s, f) ==
  /\ outside < MaxOutside
  /\ outside' = outside + 1
  /\ live' = [live EXCEPT ![s][f] = Game(outside + 1)]
  /\ late' = [late EXCEPT ![outside + 1] = Moment]
  /\ UNCHANGED <<temps, vault, kept, journal, records, run, owner, game, gone, crashes, faults>>

GameStarts == /\ ~game /\ game' = TRUE
              /\ UNCHANGED <<disk, journal, records, run, owner, outside, late, gone, crashes, faults>>
GameStops  == /\ game /\ game' = FALSE
              /\ UNCHANGED <<disk, journal, records, run, owner, outside, late, gone, crashes, faults>>

\* The app is killed, or the power fails: its memory is gone, the lock is free.
Crash ==
  /\ run.pc # "idle" /\ crashes < MaxCrashes
  /\ crashes' = crashes + 1
  /\ run' = NoRun
  /\ offered' = [o \in Ops |-> {}]
  /\ UNCHANGED <<disk, journal, records, told, outer, gone, faults>>

Outer == (\E s \in Slots, f \in Files : OutsideWrite(s, f)) \/ GameStarts \/ GameStops \/ Crash

Next == Execute \/ Recover \/ Outer

Spec == Init /\ [][Next]_vars

\* Fairness: a run in progress goes on, and the owner opens the app and decides
\* what it offers again and again.
RunGoesOn    == run.pc # "idle" /\ (Execute \/ Recover)
OwnerDecides == \E o \in Ops, choice \in Choice : Resolve(o, choice)

FairSpec == /\ Spec
            /\ WF_vars(RunGoesOn)
            /\ SF_vars(StartListing)
            /\ SF_vars(OwnerDecides)

-----------------------------------------------------------------------------
\* Every variable has its type.
TypeOK == LiveTypeOK

Holds(o, s, f) == live[s][f] = Op(o)
Written(o)     == \E s \in Slots, f \in Files : Holds(o, s, f)

\* Write-ahead (D5 I11): a file holds an op's bytes only when the journal has
\* the op's `writing` record with that file in it; a staged file is left over
\* only while recovery still knows the op as open.
WriteAhead ==
  \A o \in Ops :
    /\ \A s \in Slots, f \in Files : Holds(o, s, f) =>
         /\ status[o] \notin {"none", "preparing"}
         /\ s \in Targets(rec[o]) /\ rec[o].post[s][f] = Op(o)
    /\ TempsOf(o) # {} => IsOpen(o)

\* What an op wrote over can be put back from the vault (D5 I2), at every
\* moment and whatever happened to the op since.
CanGoBack ==
  \A o \in Ops, s \in Slots, f \in Files :
    Holds(o, s, f) => rec[o].pre[s][f] = Absent \/ <<s, f, rec[o].pre[s][f]>> \in vault

\* A save is lost only when the game wrote it inside a race window: between
\* the comparison and the last rename of a swap, between the keep and the last
\* restore of a rollback, or during a forward recovery.
NothingLost == \A c \in gone : c[3].by = "game" /\ late[c[3].n] # "no"

\* An open op blocks every other live write of the account (D5 I10).
OpenMoves == {o \in Ops : IsOpen(o) /\ rec[o].kind = "place"}
OneOpenMove == \A o, p \in OpenMoves : o = p

\* A closed op leaves no half-written slot: put back or abandoned, none of its
\* bytes are left; done, nothing it should have replaced is left.
ClosedIsWhole ==
  \A o \in Ops :
    /\ status[o] \in {"rolled_back", "abandoned"} => ~Written(o)
    /\ status[o] = "done" =>
         \A s \in Targets(rec[o]), f \in Files :
           rec[o].kind = "place" /\ live[s][f] = rec[o].pre[s][f] => rec[o].post[s][f] = live[s][f]

\* While the journal has an open op whose bytes are in a live slot, this
\* machine has its marker: a removed vault drive is noticed (D5 2.7.4).
MarkerCovers == \A o \in Ops : IsOpen(o) /\ Written(o) => o \in marker

\* The organizer's lineage agrees with the journal: a slot bound to a move is
\* never one that was put back, and the other way round.
LineageAgrees ==
  \A o \in Ops : /\ lineage[o] = "done" => status[o] \notin {"rolled_back", "abandoned", "failed"}
                 /\ lineage[o] = "rolled_back" => status[o] # "done" /\ ~Written(o)
                 /\ status[o] = "done" /\ rec[o].kind = "place" => lineage[o] = "done"

\* A closed op stays closed with the same end.
EndIsFinal ==
  [][\A o \in Ops : status[o] \in {"done", "rolled_back", "abandoned", "left"}
                      => status'[o] = status[o]]_vars

\* What the owner is told of an op is so, whatever could not be recorded: told
\* that it is done, no file is still the one to be replaced; told that it was
\* put back, none of its bytes are left, unless they were left on request
\* (OpOutcome of execute and of recovery).
TellsTheTruth ==
  [][\A o \in Ops : told'[o] # told[o] =>
       /\ told'[o] = "rolled_back" /\ status'[o] # "left" => ~Written(o)'
       /\ told'[o] = "done" /\ rec[o].kind = "place" =>
            \A s \in Targets(rec[o]), f \in Files :
              live'[s][f] = rec[o].pre[s][f] => rec[o].post[s][f] = live'[s][f]]_vars

\* Once the game stays closed, every interrupted op is closed at last: no mix
\* of contents, failures and old offers leaves one without a way out.
\* One is the code's own: a crash left the staged copy of a file that the write
\* does not change, every other file is as planned; only forward is offered,
\* and its check finds the staged copy (recovery._forward_steam sweeps only
\* when a file is missing).
Unfinishable(o) == SlotState(o) = "post" /\ TempsOf(o) # {}
OpenIsClosed == <>[]~game => \A o \in Ops : IsOpen(o) ~> ~IsOpen(o) \/ Unfinishable(o)

-----------------------------------------------------------------------------
\* What the owner is promised (module AtomicMove).  A file that holds bytes of
\* an undecided op counts as what the op found there.

Undecided(o) == status[o] \in {"preparing", "writing", "failed"}

OwnersView ==
  [s \in Slots |-> [f \in Files |->
     IF \E o \in Ops : Undecided(o) /\ Holds(o, s, f)
     THEN rec[CHOOSE o \in Ops : Undecided(o) /\ Holds(o, s, f)].pre[s][f]
     ELSE live[s][f]]]

Fate == [o \in Ops |-> IF status[o] = "none" THEN "none"
                       ELSE IF Undecided(o) THEN "open"
                       ELSE IF status[o] = "left" THEN "left" ELSE "closed"]

Goal == [o \in Ops |->
           {<<s, f, rec[o].pre[s][f], rec[o].post[s][f]>> : s \in Targets(rec[o]), f \in Files}
             \ (Slots \X Files \X Content \X {Absent})]

Promise == INSTANCE AtomicMove WITH slots <- OwnersView, fate <- Fate, goal <- Goal

\* Each operation moves its save into all its slots at once or not at all.
MovesAreAtomic == Promise!Spec

\* No step may cost the owner a save: bytes of the game are never lost, and an operation
\* that is over left no slot half written (SteamWriter's swap, recovery's back).
BytesKept == NothingLost /\ ClosedIsWhole

\* Journal, marker and history tell one story of an operation at every step: one open
\* move an account, a marker for it, a lineage record only of a move that holds, and the
\* intent on disk before the first rename.
RecordsAgree == OneOpenMove /\ MarkerCovers /\ LineageAgrees /\ WriteAhead

\* What the owner was told of an operation stays true: an end is final, and told as it
\* was.
OutcomesHold == EndIsFinal /\ TellsTheTruth
=============================================================================

------------------------------- MODULE Desktop -------------------------------
(* The window (gui.py, the Organizer's view, the vault window) and its one  *)
(* worker thread.  Listings, scans and writes are jobs of the worker; the   *)
(* operations of the classic panes run on a thread of their own behind a    *)
(* wait dialog that keeps the event loop turning, so answers are delivered, *)
(* and the window is asked to close, in the middle of them.                 *)
EXTENDS Integers, Sequences, FiniteSets, SequencesExt

CONSTANTS Days    \* how often each thing may happen

VARIABLES
  truth,      \* changes made to the vault and the saves
  home,       \* layouts: another vault, an upgrade, other live folders
  ui,         \* the panes, the Organizer's view, the queue of the worker
  running,    \* the job the worker is at
  results,    \* finished, not delivered
  frames,     \* classic operations, each inside the event loop of the one before
  window,     \* how far a close has come
  chances     \* what may still happen

desktopVars == <<truth, home, ui, running, results, frames, window, chances>>

NoJob == [kind |-> "none", low |-> FALSE, counts |-> FALSE, tag |-> 0, home |-> 0, at |-> "end"]
Job(kind, low, counts, tag, h) ==
  [kind |-> kind, low |-> low, counts |-> counts, tag |-> tag, home |-> h, at |-> "begin"]
\* What a job leaves: a status, and the state of the vault that it has seen.
Result(job, status, version, h) ==
  [kind |-> job.kind, counts |-> job.counts, tag |-> job.tag, status |-> status,
   version |-> version, home |-> h]

Open      == window.at = "open"
Chance(c) == chances[c] > 0 /\ chances' = [chances EXCEPT ![c] = @ - 1]

-----------------------------------------------------------------------------
(* What the handlers do to the window, each from one state of it to the     *)
(* next; h is the layout that the vault has at the time.                    *)

Submit2(u, job) == [u EXCEPT !.queue = Append(@, job)]

\* refresh: only the newest listing counts.
Refresh(u, h) ==
  Submit2([u EXCEPT !.gen = @ + 1], Job("list", FALSE, FALSE, u.gen + 1, h))

\* Mutant (ChangesShown): a scan under way is taken for the one that is asked for.
Mutant_Rescan(u, record) ==
  IF u.scanning THEN u
  ELSE Submit2([u EXCEPT !.scanning = TRUE], Job("scan", TRUE, FALSE, record, 0))

\* rescan: a scan under way may have read what has changed since, so another follows it.
Rescan(u, record) ==
  IF u.scanning THEN [u EXCEPT !.pending = IF @ = "record" \/ record = 1 THEN "record" ELSE "plain"]
  ELSE Submit2([u EXCEPT !.scanning = TRUE], Job("scan", TRUE, FALSE, record, 0))

\* sources_changed and OrganizerView.vault_changed: the next scan opens a new organizer.
SourcesChanged(u) == [u EXCEPT !.reopen = TRUE]
Reopening(u)      == [SourcesChanged(u) EXCEPT !.checked = FALSE]

\* What a handler that was told of a change owes the owner from then on.
Owes(u, pane, view, h) ==
  [u EXCEPT !.owed = [list |-> IF pane THEN truth ELSE @.list,
                      model |-> IF view THEN truth ELSE @.model, home |-> h]]

\* vault_changed: both tabs read again; only with mode_changed is it told of a new layout.
VaultChanged(u, mode, h) ==
  Owes(Refresh(Rescan(IF mode THEN Reopening(u) ELSE u, 1), h), TRUE, TRUE,
       IF mode THEN h ELSE u.owed.home)

\* _moved and _organizer_changed.
Moved(u, h) == Owes(Rescan(Refresh(u, h), 1), TRUE, TRUE, u.owed.home)

\* _scan_over: what was asked for meanwhile follows as soon as the loop is idle.
ScanOver(u) ==
  [u EXCEPT !.scanning = FALSE, !.pending = "no",
            !.again = IF u.pending = "no" THEN @ ELSE u.pending]

-----------------------------------------------------------------------------
(* The work under way.                                                      *)

Foreground == \/ running.counts
              \/ \E i \in DOMAIN ui.queue : ui.queue[i].counts
              \/ \E i \in DOMAIN results : results[i].counts

\* Operations counted by _classic_ops: _run counts its result box too.
Counted(f)  == f.kind = "run" \/ f.at = "thread"
ClassicOps  == \E i \in DOMAIN frames : Counted(frames[i])

\* Mutant (NothingIsCut): the operations behind the wait dialog are not asked about.
Mutant_RunningWork == IF Foreground THEN "worker" ELSE "none"

RunningWork == IF ClassicOps THEN "classic" ELSE IF Foreground THEN "worker" ELSE "none"

\* A dialog whose job runs is modal, as the wait dialog and every question are.
InDialog(kind) == kind \in {"move", "recover", "panic"}
Grabbed ==
  \/ frames # <<>> \/ window.asked # "no"
  \/ InDialog(running.kind)
  \/ \E i \in DOMAIN ui.queue : InDialog(ui.queue[i].kind)
  \/ \E i \in DOMAIN results : InDialog(results[i].kind)

\* The owner can reach the window's buttons and menus.
Reachable == Open /\ ~Grabbed /\ ~window.finishing

-----------------------------------------------------------------------------
(* The owner.                                                               *)

\* The jobs the owner waits for.  Writes: a move, an undo, the recovery of a move, the
\* restore of a folder, the vault window's.  Reads: the plan of an undo, of the undo of the
\* last move into a slot, what the vault window or the log shows.
Writes == {"move", "undoing", "recover", "panic", "layout"}
Reads  == {"undo", "undoslot", "look"}
StartWork(kind) ==
  /\ Reachable /\ kind # "undoing" /\ Chance(kind)
  /\ ui' = Submit2(ui, Job(kind, FALSE, TRUE, 0, home))
  /\ UNCHANGED <<truth, home, running, results, frames, window>>

\* on_backup and its like, on_free_old_folders, _empty_steps.
Classics == {"run", "free", "keep"}
Frame(kind) == [kind |-> kind, at |-> "thread", status |-> "none"]
StartClassic(kind) ==
  /\ Reachable /\ Chance(kind)
  /\ frames' = Append(frames, Frame(kind))
  /\ UNCHANGED <<truth, home, ui, running, results, window>>

\* The Organizer's Rescan button, and a look again after a note was saved.
LookAgain(record) ==
  /\ Reachable /\ Chance("rescan") /\ (record = 1 => ~ui.scanning)
  /\ ui' = Rescan(ui, record)
  /\ UNCHANGED <<truth, home, running, results, frames, window>>

\* on_rescan: other live folders may be found.
OnRescan ==
  /\ Reachable /\ Chance("sources")
  /\ home' = home + 1
  /\ ui' = Owes(Rescan(SourcesChanged(Refresh(ui, home')), 1), TRUE, TRUE, home')
  /\ UNCHANGED <<truth, running, results, frames, window>>

\* on_choose_vault and switch_vault: never while an operation runs.
SwitchVault ==
  /\ Reachable /\ RunningWork = "none" /\ Chance("switch")
  /\ home' = home + 1
  /\ ui' = [VaultChanged(ui, TRUE, home') EXCEPT
              !.switched = home', !.excused = @ \/ (running.kind = "scan" /\ running.at # "begin")]
  /\ UNCHANGED <<truth, running, results, frames, window>>

-----------------------------------------------------------------------------
(* The worker thread.                                                       *)

\* A plan or a write never waits behind a scan that is still queued.
NextJob(q) ==
  LET first == {i \in DOMAIN q : ~q[i].low}
  IN  IF first = {} THEN 1 ELSE CHOOSE i \in first : \A j \in first : i <= j

WorkerTakes ==
  /\ Open /\ running = NoJob /\ ui.queue # <<>>
  /\ running' = ui.queue[NextJob(ui.queue)]
  /\ ui' = [ui EXCEPT !.queue = RemoveAt(@, NextJob(@))]
  /\ UNCHANGED <<truth, home, results, frames, window, chances>>

Ends(result) == running' = NoJob /\ results' = Append(results, result)

\* _read_vault: of the vault that was open when the listing was asked for.
ReadVault ==
  /\ running.kind = "list"
  /\ \E status \in {"done", "error"} :
       /\ status = "error" => Chance("fail")
       /\ status = "done" => UNCHANGED chances
       /\ Ends(Result(running, status, truth, running.home))
  /\ UNCHANGED <<truth, home, ui, frames, window>>

\* _scan_job, first the organizer: the wish for a new one is over before there is one.
ScanOpens ==
  /\ running.kind = "scan" /\ running.at = "begin"
  /\ LET anew == ui.org = 0 \/ ui.reopen IN
     \/ /\ running' = [running EXCEPT !.at = "open"]
        /\ ui' = IF anew THEN [ui EXCEPT !.org = home, !.reopen = FALSE] ELSE ui
        /\ UNCHANGED <<results, chances>>
     \/ /\ anew /\ Chance("fail")
        /\ ui' = [ui EXCEPT !.reopen = FALSE, !.excused = @ \/ ui.org # 0]
        /\ Ends(Result(running, "error", 0, 0))
  /\ UNCHANGED <<truth, home, frames, window>>

\* refresh of the organizer.
ScanReads ==
  /\ running.kind = "scan" /\ running.at = "open"
  /\ \/ /\ running' = [running EXCEPT !.at = "read", !.tag = truth, !.home = ui.org]
        /\ UNCHANGED <<results, chances>>
     \/ Chance("fail") /\ Ends(Result(running, "error", 0, 0))
  /\ UNCHANGED <<truth, home, ui, frames, window>>

\* _extras: once per vault, the moves that were interrupted.
ScanLooks ==
  /\ running.kind = "scan" /\ running.at = "read"
  /\ Ends(Result(running, "done", running.tag, running.home))
  /\ \/ /\ ui' = IF ui.checked THEN ui
                 ELSE [ui EXCEPT !.checked = TRUE, !.looked = running.home]
        /\ UNCHANGED chances
     \/ /\ Chance("fail") /\ ~ui.checked
        /\ ui' \in {ui, [ui EXCEPT !.checked = TRUE, !.excused = TRUE]}
  /\ UNCHANGED <<truth, home, frames, window>>

\* A read ends with an answer or an error.
WorkReads ==
  /\ running.kind \in Reads
  /\ \/ Ends(Result(running, "done", 0, 0)) /\ UNCHANGED chances
     \/ Chance("fail") /\ Ends(Result(running, "error", 0, 0))
  /\ UNCHANGED <<truth, home, ui, frames, window>>

\* A write ends done, fails with nothing changed, or fails after something was.
WorkWrites ==
  /\ running.kind \in Writes
  /\ \/ /\ Ends(Result(running, "done", 0, 0)) /\ UNCHANGED chances
        /\ truth' = truth + 1
        /\ home' = IF running.kind = "layout" THEN home + 1 ELSE home
     \/ /\ Chance("fail") /\ Ends(Result(running, "error", 0, 0))
        /\ truth' \in {truth, truth + 1}
        /\ home' \in IF running.kind = "layout" THEN {home, home + 1} ELSE {home}
  /\ UNCHANGED <<ui, frames, window>>

-----------------------------------------------------------------------------
(* Delivery, on the Tk thread, at any turn of its loop.                     *)

Delivered2 == Open /\ results # <<>> /\ results' = Tail(results)

\* _listing_ready, _listing_failed: an answer that a newer refresh has overtaken is nothing.
ListingReady ==
  /\ Delivered2 /\ Head(results).kind = "list"
  /\ ui' = IF Head(results).tag # ui.gen THEN ui
           ELSE [ui EXCEPT !.listing = [ok |-> Head(results).status = "done",
                                        version |-> Head(results).version,
                                        home |-> Head(results).home]]
  /\ UNCHANGED <<truth, home, running, frames, window, chances>>

\* _scanned, _scan_failed.
Scanned ==
  /\ Delivered2 /\ Head(results).kind = "scan"
  /\ ui' = IF Head(results).status = "done"
           THEN [ScanOver(ui) EXCEPT !.model = [ok |-> TRUE, version |-> Head(results).version,
                                                home |-> Head(results).home]]
           ELSE [ScanOver(ui) EXCEPT !.model.ok = FALSE]
  /\ UNCHANGED <<truth, home, running, frames, window, chances>>

\* after_idle: the scan that was asked for while one ran.
ScanAgain ==
  /\ Open /\ ui.again # "no"
  /\ ui' = Rescan([ui EXCEPT !.again = "no"], IF ui.again = "record" THEN 1 ELSE 0)
  /\ UNCHANGED <<truth, home, running, results, frames, window, chances>>

\* _undo_planned: what needs no confirmation is executed at once; else a dialog or the
\* steps are shown.
UndoPlanned ==
  /\ Delivered2 /\ Head(results).kind = "undo"
  /\ \/ ui' = ui
     \/ Head(results).status = "done" /\ ui' = Submit2(ui, Job("undoing", FALSE, TRUE, 0, home))
  /\ UNCHANGED <<truth, home, running, frames, window, chances>>

\* What was read is shown in its own window.
LookShown ==
  /\ Delivered2 /\ Head(results).kind = "look"
  /\ UNCHANGED <<truth, home, ui, running, frames, window, chances>>

\* _executed, _undone, _applied, the vault window's _upgraded, _copied, _undone and _kept,
\* which then reads the vault again; a job that failed is told of in its window and
\* nothing is read again.
WorkDone ==
  /\ Delivered2 /\ Head(results).kind \in Writes
  /\ LET kind == Head(results).kind IN
     \/ Head(results).status = "error" /\ ui' = ui
     \/ /\ Head(results).status # "error"
        /\ ui' = CASE kind \in {"move", "undoing"} -> Moved(ui, home)
                   [] kind = "recover" -> Owes(Rescan(ui, 1), FALSE, TRUE, ui.owed.home)
                   [] kind = "panic"   -> VaultChanged(ui, FALSE, home)
                   [] kind = "layout"  -> Submit2(VaultChanged(ui, TRUE, home),
                                                  Job("look", FALSE, TRUE, 0, home))
  /\ UNCHANGED <<truth, home, running, frames, window, chances>>

\* planned of on_undo_slot: the plan is shown, or, when the undo would empty the slot, the
\* steps are, and a copy is made first - whatever the window is doing.
UndoSlotPlanned ==
  /\ Delivered2 /\ Head(results).kind = "undoslot"
  /\ \/ UNCHANGED <<frames, window>>
     \/ /\ Head(results).status = "done" /\ frames' = Append(frames, Frame("keep"))
        /\ window' = [window EXCEPT !.late = @ \/ window.finishing \/ window.asked = "worker"]
  /\ UNCHANGED <<truth, home, ui, running, chances>>

-----------------------------------------------------------------------------
(* Classic operations.                                                      *)

At2(i, at) == i \in DOMAIN frames /\ frames[i].at = at

\* The thread of _run_worker ends; the game may be running, or the operation fails, before
\* or after something was written.
ThreadEnds(i) ==
  /\ At2(i, "thread") /\ window.at # "gone"
  /\ \E status \in {"done", "invalid", "game", "error"} :
       /\ status = "done" => UNCHANGED chances
       /\ status # "done" => Chance("fail")
       /\ status \in {"invalid", "game"} => frames[i].kind = "run"
       /\ frames' = [frames EXCEPT ![i].at = "over", ![i].status = status]
       /\ truth' \in CASE status \in {"done", "invalid"} -> {truth + 1}
                       [] status = "game"                -> {truth}
                       [] OTHER                          -> {truth, truth + 1}
       /\ home' = IF status = "done" /\ frames[i].kind = "free" THEN home + 1 ELSE home
  /\ UNCHANGED <<ui, running, results, window>>

Top(at) == Open /\ frames # <<>> /\ Last(frames).at = at
Pop     == frames' = Front(frames)
\* A loop inside which another runs cannot go on: the innermost ends first.
Still   == UNCHANGED <<truth, home, running, results, window, chances>>

\* _run_and_show: the owner may go on though the game runs.
ProceedAnyway ==
  /\ Top("over") /\ Last(frames).status = "game"
  /\ \/ frames' = [frames EXCEPT ![Len(frames)] = Frame("run")]
     \/ Pop
  /\ Still /\ UNCHANGED ui

\* What is written is announced, though what came out may be invalid; then the result box.
RunOver ==
  /\ Top("over") /\ Last(frames).kind = "run" /\ Last(frames).status # "game"
  /\ frames' = [frames EXCEPT ![Len(frames)].at = "box"]
  /\ Still
  /\ ui' = IF Last(frames).status = "error" THEN ui ELSE VaultChanged(ui, FALSE, home)

BoxClosed == Top("box") /\ Pop /\ Still /\ UNCHANGED ui

\* on_free_old_folders announces the new layout, _empty_steps nothing.
OtherOver ==
  /\ Top("over") /\ Last(frames).kind \in {"free", "keep"} /\ Pop /\ Still
  /\ ui' = IF Last(frames) = [kind |-> "free", at |-> "over", status |-> "done"]
           THEN VaultChanged(ui, TRUE, home) ELSE ui

-----------------------------------------------------------------------------
(* Closing.                                                                 *)

\* destroy: queued jobs are dropped, the running one is waited for; what it leaves, and the
\* threads of the classic operations, end with the process.
Dropped == {ui.queue[i].kind : i \in {j \in DOMAIN ui.queue : ui.queue[j].counts}}
Cut     == {frames[i].kind : i \in {j \in DOMAIN frames : frames[j].at = "thread"}}
Destroy(how) ==
  window' = [window EXCEPT !.at = "leaving", !.how = how, !.closing = FALSE, !.finishing = FALSE,
                           !.asked = "no", !.cut = Cut, !.dropped = Dropped]
\* The owner chose to go on editing a note.
Refused == window' = [window EXCEPT !.closing = FALSE, !.finishing = FALSE, !.asked = "no"]
OnlyWindow == UNCHANGED <<truth, home, ui, running, results, frames>>

\* request_close: the wait dialog's own grab does not keep the title bar from asking.
RequestClose ==
  /\ Open /\ window.asked = "no" /\ ~window.closing /\ ~window.finishing
  /\ Chance("close") /\ OnlyWindow
  /\ IF RunningWork = "none" THEN Destroy("close") \/ Refused
     ELSE window' = [window EXCEPT !.asked = RunningWork]

\* The answer: wait for it; or no, which only a journaled job can be left with.
AnswerClose ==
  /\ Open /\ window.asked # "no" /\ OnlyWindow /\ UNCHANGED chances
  /\ \/ window' = [window EXCEPT !.asked = "no", !.closing = TRUE]
     \/ window' = [window EXCEPT !.asked = "no", !.finishing = window.asked = "worker"]
     \/ Refused

\* _close_poll.
ClosePoll ==
  /\ Open /\ window.closing /\ RunningWork = "none" /\ ~Grabbed
  /\ OnlyWindow /\ UNCHANGED chances
  /\ Destroy("poll") \/ Refused

\* _finish_poll asks for the worker's jobs only.
FinishPoll ==
  /\ Open /\ window.finishing /\ ~Foreground
  /\ OnlyWindow /\ UNCHANGED chances
  /\ Destroy("finish") \/ Refused

\* on_install_update, once its script waits.
InstallAndLeave ==
  /\ Reachable /\ Chance("update") /\ OnlyWindow
  /\ Destroy("update") \/ Refused

\* shutdown(wait=True).
Gone ==
  /\ window.at = "leaving" /\ running = NoJob
  /\ window' = [window EXCEPT !.at = "gone"]
  /\ OnlyWindow /\ UNCHANGED chances

-----------------------------------------------------------------------------
(* App.__init__: the listing is asked for, the first scan follows.          *)
Unread == [ok |-> FALSE, version |-> 0, home |-> 0]
DesktopInit ==
  /\ truth = 0 /\ home = 1 /\ running = NoJob /\ results = <<>> /\ frames = <<>>
  /\ ui = [gen |-> 1, listing |-> Unread, queue |-> <<Job("list", FALSE, FALSE, 1, 1)>>,
           scanning |-> FALSE, pending |-> "no", again |-> "record", reopen |-> FALSE,
           checked |-> FALSE, looked |-> 0, org |-> 0, model |-> Unread, switched |-> 1,
           excused |-> FALSE, owed |-> [list |-> 0, model |-> 0, home |-> 1]]
  /\ window = [at |-> "open", asked |-> "no", closing |-> FALSE, finishing |-> FALSE,
               how |-> "none", late |-> FALSE, cut |-> {}, dropped |-> {}]
  /\ chances \in Days

DesktopNext ==
  \/ \E kind \in Writes \cup Reads : StartWork(kind)
  \/ \E kind \in Classics : StartClassic(kind)
  \/ \E record \in {0, 1} : LookAgain(record)
  \/ OnRescan \/ SwitchVault
  \/ WorkerTakes \/ ReadVault \/ ScanOpens \/ ScanReads \/ ScanLooks \/ WorkReads \/ WorkWrites
  \/ ListingReady \/ Scanned \/ ScanAgain
  \/ UndoPlanned \/ LookShown \/ WorkDone \/ UndoSlotPlanned
  \/ \E i \in DOMAIN frames : ThreadEnds(i)
  \/ ProceedAnyway \/ RunOver \/ BoxClosed \/ OtherOver
  \/ RequestClose \/ AnswerClose \/ ClosePoll \/ FinishPoll \/ InstallAndLeave \/ Gone

DesktopSpec == DesktopInit /\ [][DesktopNext]_desktopVars

-----------------------------------------------------------------------------
(* Properties.                                                              *)

\* request_close: the program never ends in the middle of a write, nor drops one that was
\* asked for.  Two ways round it are in the code: an update that is installed drops what is
\* still queued, and an answer that comes while the program finishes may begin the copy of
\* a slot, which the poll does not see.
NothingIsCut ==
  window.at = "gone" =>
    /\ running.counts = FALSE
    /\ ~window.late => window.cut = {}
    /\ window.how # "update" => window.dropped = {}

Quiet == Open /\ ui.queue = <<>> /\ running = NoJob /\ results = <<>> /\ ui.again = "no"

\* Once nothing is under way, both tabs show every change that a handler was told of, of
\* the vault that is open, or say that they cannot.
ShownInTheEnd ==
  Quiet =>
    /\ ~ui.scanning /\ ui.pending = "no"
    /\ ui.listing.ok => /\ ui.listing.version >= ui.owed.list
                        /\ ui.listing.home >= ui.owed.home
    /\ ui.model.ok => /\ ui.model.version >= ui.owed.model
                      /\ ui.model.home >= ui.owed.home \/ ui.excused

\* When they count as looked for, the interrupted moves are those of the vault that is
\* open.  Left out (excused): a scan of the vault before was under way at the switch and
\* counts as a look at the new one, a look that failed, and a failure to open the new
\* organizer, after which the old one is scanned.
RecoveryIsOffered == Quiet /\ ui.checked /\ ~ui.excused => ui.looked >= ui.switched

\* What the window shows in the end is the vault that it has.
ChangesShown == ShownInTheEnd /\ RecoveryIsOffered
=============================================================================

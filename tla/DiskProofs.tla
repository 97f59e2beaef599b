----------------------------- MODULE DiskProofs -----------------------------
(***************************************************************************)
(* Proofs about what is on the disk when a process stops in the middle:    *)
(* the operations journal (OpJournal) and, from the section on updates on, *)
(* the folder of the program itself (SelfUpdate).  Each part is about the  *)
(* steps of its own module.                                                *)
(*                                                                         *)
(* What an append acknowledged stays a record of the journal, for any      *)
(* processes, operations, events and any number of crashes, failing steps, *)
(* power failures and restored copies; on a file system that makes a new   *)
(* file's directory entry durable with its contents.  And on any file      *)
(* system, each process reads the journal as the file has it, whatever it  *)
(* cached, and the acknowledged events of an op are numbered upwards       *)
(* (ReadersAgree).                                                         *)
(*                                                                         *)
(* A number is one more than the events counted under the lock, so what    *)
(* has to hold is that an acknowledged event is never numbered above its   *)
(* place in the file: sealing off another's torn line, or cutting the file *)
(* after the last durable line, must not move an acknowledged event down;  *)
(* and that what a process has read of the file's inode is its beginning.  *)
(***************************************************************************)
EXTENDS OpJournal, SelfUpdate, TLAPS, FiniteSetTheorems, SequenceTheorems

-----------------------------------------------------------------------------
\* The file

\* A newline turns the tail into one more line and touches nothing else of the
\* file (opjournal.py _write_line).
LEMMA NewlineAdds ==
  ASSUME NEW f \in File, IsTorn(f)
  PROVE  /\ AddNewline(f) \in File
         /\ AddNewline(f).tail = Nothing
         /\ AddNewline(f).present = f.present /\ AddNewline(f).listed = f.listed
         /\ AddNewline(f).synced = f.synced /\ AddNewline(f).ino = f.ino
         /\ AddNewline(f).lines =
              Append(f.lines, IF f.tail.whole THEN f.tail.entry ELSE Damaged)
<1>1. f.tail \in Torn
  BY DEF File, IsTorn
<1>2. (IF f.tail.whole THEN f.tail.entry ELSE Damaged) \in Line
  BY <1>1 DEF Torn, Line
<1>3. Append(f.lines, IF f.tail.whole THEN f.tail.entry ELSE Damaged) \in Seq(Line)
  BY <1>2 DEF File
<1> QED
  BY <1>3 DEF File, AddNewline

\* A piece of an entry lengthens a tail of that entry or ends its line
\* (opjournal.py _write_line).
LEMMA PieceAdds ==
  ASSUME NEW f \in File, NEW e \in Entries,
         IsTorn(f) => f.tail.entry = e
  PROVE  /\ AddPiece(f, e) \in File
         /\ AddPiece(f, e).present = f.present /\ AddPiece(f, e).listed = f.listed
         /\ AddPiece(f, e).synced = f.synced /\ AddPiece(f, e).ino = f.ino
         /\ \/ /\ AddPiece(f, e).lines = f.lines
               /\ IsTorn(AddPiece(f, e)) /\ AddPiece(f, e).tail.entry = e
            \/ /\ AddPiece(f, e).lines = Append(f.lines, e)
               /\ ~IsTorn(AddPiece(f, e))
<1>1. CASE f.tail = Nothing
  <2>1. [entry |-> e, whole |-> FALSE] \in Torn
    BY DEF Torn
  <2> QED
    BY <1>1, <2>1, NothingIsNoText DEF File, AddPiece, IsTorn
<1>2. CASE f.tail # Nothing /\ ~f.tail.whole
  <2>1. f.tail \in Torn
    BY <1>2 DEF File
  <2>2. [f.tail EXCEPT !.whole = TRUE] \in Torn /\ [f.tail EXCEPT !.whole = TRUE].entry = f.tail.entry
    BY <2>1 DEF Torn
  <2>3. AddPiece(f, e) = [f EXCEPT !.tail = [f.tail EXCEPT !.whole = TRUE]]
    BY <1>2 DEF AddPiece, File
  <2> QED
    BY <1>2, <2>2, <2>3, NothingIsNoText DEF File, IsTorn
<1>3. CASE f.tail # Nothing /\ f.tail.whole
  BY <1>3, NewlineAdds DEF AddPiece, IsTorn
<1> QED
  BY <1>1, <1>2, <1>3

\* A power failure leaves at least the durable lines, if the file was listed.
LEMMA PowerLossKeeps ==
  ASSUME NEW f \in File, f.synced <= Len(f.lines), NEW g \in AfterPowerLoss(f)
  PROVE  /\ g \in File
         /\ f.listed => /\ g.present = f.present /\ g.listed = f.listed
                        /\ Len(g.lines) \in Nat /\ f.synced <= Len(g.lines)
                        /\ \A i \in 1..f.synced : g.lines[i] = f.lines[i]
<1>1. CASE ~f.listed /\ g = NoFile(f.ino)
  <2>1. <<>> \in Seq(Line)
    OBVIOUS
  <2> QED
    BY <1>1, <2>1 DEF File, NoFile
<1>2. ASSUME NEW n \in f.synced..Len(f.lines), NEW t \in TailsAfter(f, n),
             g = [f EXCEPT !.lines = SubSeq(@, 1, n), !.tail = t]
      PROVE  g \in File /\ g.present = f.present /\ g.listed = f.listed
             /\ Len(g.lines) = n /\ \A i \in 1..n : g.lines[i] = f.lines[i]
  <2>1. f.synced \in Nat /\ f.lines \in Seq(Line) /\ n \in Nat /\ n <= Len(f.lines)
    BY DEF File
  <2>2. SubSeq(f.lines, 1, n) \in Seq(Line) /\ Len(SubSeq(f.lines, 1, n)) = n
        /\ \A i \in 1..n : SubSeq(f.lines, 1, n)[i] = f.lines[i]
    BY <2>1
  <2>3. t \in Torn \cup {Nothing}
    <3>1. CASE n < Len(f.lines)
      <4>1. f.lines[n + 1] \in Line
        BY <2>1, <3>1
      <4>2. t = Nothing \/ t \in [entry : {f.lines[n + 1]} \ {Damaged}, whole : BOOLEAN]
        BY <3>1 DEF TailsAfter
      <4> QED
        BY <4>1, <4>2 DEF Line, Torn
    <3>2. CASE ~(n < Len(f.lines)) /\ IsTorn(f)
      <4>1. f.tail \in Torn
        BY <3>2 DEF File, IsTorn
      <4>2. [f.tail EXCEPT !.whole = FALSE] \in Torn
        BY <4>1 DEF Torn
      <4> QED
        BY <3>2, <4>1, <4>2 DEF TailsAfter
    <3>3. CASE ~(n < Len(f.lines)) /\ ~IsTorn(f)
      BY <3>3 DEF TailsAfter
    <3> QED
      BY <3>1, <3>2, <3>3
  <2> QED
    BY <1>2, <2>1, <2>2, <2>3 DEF File
<1>3. \/ ~f.listed /\ g = NoFile(f.ino)
      \/ \E n \in f.synced..Len(f.lines) : \E t \in TailsAfter(f, n) :
            g = [f EXCEPT !.lines = SubSeq(@, 1, n), !.tail = t]
  <2>1. ASSUME g \in Cuts(f)
        PROVE  \E n \in f.synced..Len(f.lines) : \E t \in TailsAfter(f, n) :
                  g = [f EXCEPT !.lines = SubSeq(@, 1, n), !.tail = t]
    <3>1. PICK n \in f.synced..Len(f.lines) : g \in CutAfter(f, n)
      BY <2>1 DEF Cuts
    <3> QED
      BY <3>1 DEF CutAfter
  <2>2. g \in Vanished(f) => ~f.listed /\ g = NoFile(f.ino)
    BY DEF Vanished
  <2> QED
    BY <2>1, <2>2 DEF AfterPowerLoss
<1>4. f.synced \in Nat
  BY DEF File
<1>5. CASE \E n \in f.synced..Len(f.lines) : \E t \in TailsAfter(f, n) :
            g = [f EXCEPT !.lines = SubSeq(@, 1, n), !.tail = t]
  <2>1. PICK n \in f.synced..Len(f.lines) : \E t \in TailsAfter(f, n) :
            g = [f EXCEPT !.lines = SubSeq(@, 1, n), !.tail = t]
    BY <1>5
  <2>2. g \in File /\ g.present = f.present /\ g.listed = f.listed
        /\ Len(g.lines) = n /\ \A i \in 1..n : g.lines[i] = f.lines[i]
    BY <1>2, <2>1
  <2>3. Len(f.lines) \in Nat
    BY DEF File
  <2> QED
    BY <1>4, <2>1, <2>2, <2>3
<1> QED
  BY <1>1, <1>3, <1>5

-----------------------------------------------------------------------------
\* The inductive invariant

Steps   == {"idle", "open", "seal", "write", "sync", "syncdir"}
Results == {"none", "called", "ok", "failed", "taken away"}

Typed ==
  /\ file \in File /\ file.synced <= Len(file.lines)
  /\ call \in [Procs -> [step : Steps, entry : Entries \cup {0}, created : BOOLEAN]]
  /\ result \in [Entries -> Results]

\* An event that a power failure cannot take.
Durable(e) ==
  /\ file.present /\ file.listed
  /\ \E i \in 1..file.synced : file.lines[i] = e

\* How far an append has come, and what the file has of its event by then.
Stage(p) ==
  /\ call[p].step # "idle" => call[p].entry \in Entries
  /\ call[p].step \in {"seal", "write", "sync", "syncdir"} => file.present
  /\ call[p].step = "seal" => IsTorn(file)
  /\ call[p].step = "write" => (IsTorn(file) => file.tail.entry = call[p].entry)
  /\ call[p].step = "sync" => IsIn(call[p].entry, file)
  /\ call[p].step = "syncdir" => Durable(call[p].entry)

\* The store lock: one append at a time.
OneWriter == \A p, q \in Writing : p = q

Inv ==
  /\ Typed
  /\ OneWriter
  /\ \A p \in Procs : Stage(p)
  /\ \A e \in Entries : result[e] = "ok" => Durable(e)

\* No other process is in an append.
LEMMA OthersRest ==
  ASSUME Inv, NEW p \in Procs, call[p].step # "idle"
  PROVE  \A q \in Procs : q # p => call[q].step = "idle"
BY DEF Inv, OneWriter, Writing

-----------------------------------------------------------------------------
\* Every step keeps it

\* Reading touches neither the file nor an append.
LEMMA ReadKeeps ==
  ASSUME Inv, NEW p \in Procs, ReadOps(p) PROVE Inv'
BY DEF ReadOps, Inv, Typed, OneWriter, Writing, Stage, IsIn, Durable

\* append begins only when no other is under way.
LEMMA BeginKeeps ==
  ASSUME Inv, NEW p \in Procs, NEW e \in Entries, NEW o \in Ops, Begin(p, e, o)
  PROVE  Inv'
<1>1. /\ file' = file
      /\ Writing = {} /\ result' = [result EXCEPT ![e] = "called"]
      /\ call' = [call EXCEPT ![p] = [step |-> "open", entry |-> e, created |-> ~file.present]]
  BY DEF Begin
<1>2. Typed'
  <2>1. [step |-> "open", entry |-> e, created |-> ~file.present]
          \in [step : Steps, entry : Entries \cup {0}, created : BOOLEAN]
    BY DEF Steps
  <2> QED
    BY <1>1, <2>1 DEF Inv, Typed, Results
<1>3. OneWriter'
  BY <1>1 DEF OneWriter, Writing, Inv, Typed
<1>4. \A q \in Procs : Stage(q)'
  <2>1. \A q \in Procs : q # p => call'[q] = call[q]
    BY <1>1 DEF Inv, Typed
  <2>2. call'[p].step = "open" /\ call'[p].entry = e
    BY <1>1 DEF Inv, Typed
  <2> QED
    BY <1>1, <2>1, <2>2 DEF Writing, Stage
<1>5. \A d \in Entries : result'[d] = "ok" => Durable(d)'
  BY <1>1 DEF Inv, Typed, Durable
<1> QED
  BY <1>2, <1>3, <1>4, <1>5 DEF Inv

\* A step within an append of p, to its step s.
Moves(p, s) ==
  /\ s \in Steps /\ call[p].step # "idle"
  /\ call' = [call EXCEPT ![p].step = s] /\ result' = result

\* The file changes at its end only, and nothing durable ceases to be so.
Grows ==
  /\ file' \in File /\ file'.synced <= Len(file'.lines)
  /\ file.present => file'.present
  /\ file.listed => file'.listed
  /\ file.synced <= file'.synced
  /\ Len(file.lines) <= Len(file'.lines)
  /\ \A i \in 1..Len(file.lines) : file'.lines[i] = file.lines[i]

\* The file as an append of p that has come to step s needs it.
Ready(p, s) ==
  /\ s \in {"seal", "write", "sync", "syncdir"} /\ file'.present
  /\ s = "seal" => IsTorn(file')
  /\ s = "write" => (IsTorn(file') => file'.tail.entry = call[p].entry)
  /\ s = "sync" => IsIn(call[p].entry, file')
  /\ s = "syncdir" => /\ file'.listed
                      /\ \E i \in 1..file'.synced : file'.lines[i] = call[p].entry

\* A step within an append.
LEMMA GoesOnKeeps ==
  ASSUME Inv, NEW p \in Procs, NEW s, Moves(p, s), Grows, Ready(p, s)
  PROVE  Inv'
<1> USE DEF Moves, Grows, Ready
<1>1. /\ call'[p].step = s /\ call'[p].entry = call[p].entry /\ call[p].entry \in Entries
      /\ \A q \in Procs : q # p => call'[q] = call[q] /\ call[q].step = "idle"
  BY OthersRest DEF Inv, Typed, Stage
<1>2. Typed'
  BY DEF Inv, Typed, Steps
<1>3. OneWriter'
  BY <1>1 DEF OneWriter, Writing
<1>4. \A q \in Procs : Stage(q)'
  BY <1>1 DEF Stage, IsIn, Durable
<1>5. ASSUME NEW e \in Entries, result'[e] = "ok" PROVE Durable(e)'
  <2>1. Durable(e)
    BY <1>5 DEF Inv
  <2>2. file.synced \in Nat /\ file'.synced \in Nat /\ Len(file.lines) \in Nat /\ file.synced <= Len(file.lines)
    BY DEF Inv, Typed, File
  <2> QED
    BY <2>1, <2>2 DEF Durable
<1> QED
  BY <1>2, <1>3, <1>4, <1>5 DEF Inv

\* What the end of an append has to keep: acknowledged means durable.
LEMMA EndsKeeps ==
  ASSUME Inv, NEW p \in Procs, NEW what \in {"ok", "failed"}, call[p].step # "idle",
         Ends(p, what), file' \in File, file'.synced <= Len(file'.lines),
         file'.present = file.present, file'.lines = file.lines,
         file'.synced >= file.synced, file.listed => file'.listed,
         what = "ok" => /\ file'.present /\ file'.listed
                        /\ \E i \in 1..file'.synced : file'.lines[i] = call[p].entry
  PROVE  Inv'
<1>1. /\ call'[p] = Idle
      /\ \A q \in Procs : q # p => call'[q] = call[q] /\ call[q].step = "idle"
  BY OthersRest DEF Inv, Typed, Ends
<1>2. Typed'
  <2>1. Idle \in [step : Steps, entry : Entries \cup {0}, created : BOOLEAN]
    BY DEF Idle, Steps
  <2> QED
    BY <2>1 DEF Inv, Typed, Ends, Results
<1>3. \A q \in Procs : call'[q].step = "idle"
  BY <1>1 DEF Idle
<1>4. OneWriter' /\ \A q \in Procs : Stage(q)'
  BY <1>3 DEF OneWriter, Writing, Stage
<1>5. ASSUME NEW e \in Entries, result'[e] = "ok" PROVE Durable(e)'
  <2>1. (e = call[p].entry /\ what = "ok") \/ result[e] = "ok"
    BY <1>5 DEF Inv, Typed, Ends
  <2>2. file.synced \in Nat /\ file'.synced \in Nat
    BY DEF Inv, Typed, File
  <2>3. result[e] = "ok" => Durable(e)
    BY DEF Inv
  <2> QED
    BY <2>1, <2>2, <2>3 DEF Durable
<1> QED
  BY <1>2, <1>4, <1>5 DEF Inv

\* The file is made, or found; a torn line is sealed off before the write.
LEMMA OpenKeeps ==
  ASSUME Inv, NEW p \in Procs, Open(p) PROVE Inv'
<1> DEFINE s == IF IsTorn(file) THEN "seal" ELSE "write"
<1>1. file \in File /\ file.synced <= Len(file.lines)
  BY DEF Inv, Typed
<1>2. Moves(p, s)
  BY DEF Open, SealsFirst, Moves, Steps
<1>3. /\ file' \in File /\ file'.present /\ file'.synced = file.synced
      /\ file'.listed = file.listed /\ file'.lines = file.lines /\ file'.tail = file.tail
  BY <1>1 DEF File, Open
<1>4. Grows
  BY <1>1, <1>3 DEF Grows, File
<1>5. Ready(p, s)
  BY <1>3 DEF Ready, IsTorn
<1> QED
  BY <1>2, <1>4, <1>5, GoesOnKeeps

\* What a line torn by a crash becomes is one more line at the end.
LEMMA SealKeeps ==
  ASSUME Inv, NEW p \in Procs, Seal(p) PROVE Inv'
<1>1. file \in File /\ file.synced <= Len(file.lines) /\ IsTorn(file) /\ file.present
  BY DEF Inv, Typed, Stage, Seal
<1>2. PICK x \in Line : AddNewline(file).lines = Append(file.lines, x)
  <2>1. (IF file.tail.whole THEN file.tail.entry ELSE Damaged) \in Line
    BY <1>1 DEF File, IsTorn, Torn, Line
  <2> QED
    BY <1>1, <2>1, NewlineAdds
<1>3. /\ file' \in File /\ file'.present = file.present /\ file'.listed = file.listed
      /\ file'.synced = file.synced /\ file'.lines = Append(file.lines, x) /\ ~IsTorn(file')
  BY <1>1, <1>2, NewlineAdds DEF Seal, IsTorn
<1>4. Grows
  BY <1>1, <1>3 DEF File, Grows
<1>5. Moves(p, "write")
  BY DEF Seal, Moves, Steps
<1>6. Ready(p, "write")
  BY <1>1, <1>3 DEF Ready
<1> QED
  BY <1>4, <1>5, <1>6, GoesOnKeeps

\* The last piece of a write makes the event the last line of the file.
LEMMA WriteKeeps ==
  ASSUME Inv, NEW p \in Procs, Write(p) PROVE Inv'
<1> DEFINE s == IF IsTorn(file') THEN "write" ELSE "sync"
           e == call[p].entry
<1>1. file \in File /\ file.synced <= Len(file.lines) /\ file.present /\ e \in Entries
      /\ (IsTorn(file) => file.tail.entry = e)
  BY DEF Inv, Typed, Stage, Write
<1>2. Moves(p, s)
  BY DEF Write, Moves, Steps
<1>3. /\ file' \in File /\ file'.present = file.present /\ file'.listed = file.listed
      /\ file'.synced = file.synced
      /\ \/ file'.lines = file.lines /\ IsTorn(file') /\ file'.tail.entry = e
         \/ file'.lines = Append(file.lines, e) /\ ~IsTorn(file')
  BY <1>1, PieceAdds DEF Write
<1>4. file.lines \in Seq(Line) /\ e \in Line /\ file.synced \in Nat
  BY <1>1 DEF File, Line
<1>5. Grows
  BY <1>1, <1>3, <1>4 DEF Grows
<1>6. ~IsTorn(file') => IsIn(e, file')
  <2>1. SUFFICES ASSUME ~IsTorn(file') PROVE IsIn(e, file')
    OBVIOUS
  <2>2. Len(file.lines) + 1 \in DOMAIN file'.lines /\ file'.lines[Len(file.lines) + 1] = e
    BY <1>3, <1>4, <2>1
  <2> QED
    BY <2>2 DEF IsIn
<1>7. Ready(p, s)
  BY <1>1, <1>3, <1>6 DEF Ready
<1> QED
  BY <1>2, <1>5, <1>7, GoesOnKeeps

\* fsync makes every line durable, and the file's entry with it on the file
\* systems the theorem is about; then the append of a new file goes on.
LEMMA SyncKeeps ==
  ASSUME EntryWithFile = TRUE, Inv, NEW p \in Procs, Sync(p) PROVE Inv'
<1> DEFINE e == call[p].entry
<1>1. file \in File /\ file.synced <= Len(file.lines) /\ file.present /\ IsIn(e, file)
      /\ call[p].step = "sync"
  BY DEF Inv, Typed, Stage, Sync
<1>2. file.lines \in Seq(Line) /\ file.synced \in Nat
  BY <1>1 DEF File
<1>3. /\ file' \in File /\ file'.present /\ file'.listed /\ file'.lines = file.lines
      /\ file'.synced = Len(file.lines)
  <2>1. (file.listed \/ EntryWithFile) = TRUE
    OBVIOUS
  <2>2. file' = [file EXCEPT !.synced = Len(file.lines), !.listed = (file.listed \/ EntryWithFile)]
    BY DEF Sync, SyncedLines
  <2>3. file' = [file EXCEPT !.synced = Len(file.lines), !.listed = TRUE]
    BY <2>1, <2>2
  <2>4. file' \in File /\ file'.present = file.present /\ file'.listed = TRUE
        /\ file'.lines = file.lines /\ file'.synced = Len(file.lines)
    <3>1. file' = [present |-> file.present, listed |-> TRUE, ino |-> file.ino,
                   lines |-> file.lines, synced |-> Len(file.lines), tail |-> file.tail]
      BY <1>1, <2>3 DEF File
    <3>2. file.present \in BOOLEAN /\ file.ino \in Nat /\ file.tail \in Torn \cup {Nothing}
          /\ Len(file.lines) \in Nat
      BY <1>1, <1>2 DEF File
    <3> QED
      BY <1>2, <3>1, <3>2 DEF File
  <2> QED
    BY <1>1, <2>4
<1>4. \E i \in 1..file'.synced : file'.lines[i] = e
  BY <1>1, <1>2, <1>3 DEF IsIn
<1>5. CASE call[p].created
  <2>1. Moves(p, "syncdir")
    BY <1>1, <1>5 DEF Sync, Moves, Steps
  <2>2. Grows
    BY <1>1, <1>2, <1>3 DEF Grows
  <2>3. Ready(p, "syncdir")
    BY <1>3, <1>4 DEF Ready
  <2> QED
    BY <2>1, <2>2, <2>3, GoesOnKeeps
<1>6. CASE ~call[p].created
  <2>1. Ends(p, "ok")
    BY <1>6 DEF Sync
  <2>2. file'.present = file.present /\ file'.synced >= file.synced /\ file'.synced <= Len(file'.lines)
    BY <1>1, <1>2, <1>3
  <2> QED
    BY <1>1, <1>3, <1>4, <2>1, <2>2, EndsKeeps
<1> QED
  BY <1>5, <1>6

\* The directory of a new file is synced: the append returns.
LEMMA SyncDirKeeps ==
  ASSUME Inv, NEW p \in Procs, SyncDir(p) PROVE Inv'
<1>1. file \in File /\ file.synced <= Len(file.lines) /\ Durable(call[p].entry)
      /\ call[p].step = "syncdir" /\ Ends(p, "ok")
  BY DEF Inv, Typed, Stage, SyncDir
<1>2. /\ file' \in File /\ file'.present = file.present /\ file'.listed
      /\ file'.synced = file.synced /\ file'.lines = file.lines
  BY <1>1 DEF File, SyncDir
<1>3. file.synced \in Nat
  BY <1>1 DEF File
<1> QED
  BY <1>1, <1>2, <1>3, EndsKeeps DEF Durable

\* A failed append is not acknowledged.
LEMMA FailKeeps ==
  ASSUME Inv, NEW p \in Procs, Fail(p) PROVE Inv'
<1>1. file \in File /\ file.synced <= Len(file.lines) /\ file' = file
      /\ call[p].step # "idle" /\ Ends(p, "failed")
  BY DEF Inv, Typed, Fail
<1>2. file.synced \in Nat
  BY <1>1 DEF File
<1> QED
  BY <1>1, <1>2, EndsKeeps


-----------------------------------------------------------------------------
\* Crashes, power failures and restored copies

\* A process that stops acknowledges nothing more.
LEMMA StoppedKeeps ==
  ASSUME Inv, NEW P \in SUBSET Procs, Stopped(P)
  PROVE  /\ call' \in [Procs -> [step : Steps, entry : Entries \cup {0}, created : BOOLEAN]]
         /\ result' \in [Entries -> Results]
         /\ OneWriter'
         /\ \A q \in Procs : (call'[q] = call[q] /\ q \notin P) \/ call'[q].step = "idle"
         /\ \A e \in Entries : result'[e] = "ok" => result[e] = "ok"
<1>1. Idle \in [step : Steps, entry : Entries \cup {0}, created : BOOLEAN] /\ Idle.step = "idle"
  BY DEF Idle, Steps
<1>2. \A q \in Procs : call'[q] = IF q \in P THEN Idle ELSE call[q]
  BY DEF Stopped
<1>3. call' \in [Procs -> [step : Steps, entry : Entries \cup {0}, created : BOOLEAN]]
  BY <1>1 DEF Stopped, Inv, Typed
<1>4. result' \in [Entries -> Results] /\ \A e \in Entries : result'[e] = "ok" => result[e] = "ok"
  BY DEF Stopped, Inv, Typed, Results
<1>5. OneWriter'
  BY <1>1, <1>2 DEF OneWriter, Writing, Inv
<1> QED
  BY <1>1, <1>2, <1>3, <1>4, <1>5

LEMMA CrashKeeps ==
  ASSUME Inv, NEW p \in Procs, Crash(p) PROVE Inv'
<1>1. Stopped({p}) /\ file' = file
  BY DEF Crash
<1>2. Typed' /\ OneWriter'
  BY <1>1, StoppedKeeps DEF Typed, Inv
<1>3. \A q \in Procs : Stage(q)'
  <2>1. \A q \in Procs : call'[q] = call[q] \/ call'[q].step = "idle"
    BY <1>1, StoppedKeeps
  <2> QED
    BY <1>1, <2>1 DEF Inv, Stage, Durable
<1>4. \A e \in Entries : result'[e] = "ok" => Durable(e)'
  BY <1>1, StoppedKeeps DEF Inv, Durable
<1> QED
  BY <1>2, <1>3, <1>4 DEF Inv

LEMMA PowerLossStepKeeps ==
  ASSUME Inv, PowerLoss PROVE Inv'
<1>1. PICK f \in AfterPowerLoss(file) : file' = [f EXCEPT !.synced = Len(f.lines)]
  BY DEF PowerLoss
<1>2. file \in File /\ file.synced <= Len(file.lines) /\ file.synced \in Nat
  BY DEF Inv, Typed, File
<1>3. /\ f \in File
      /\ file.listed => /\ f.present = file.present /\ f.listed = file.listed
                        /\ Len(f.lines) \in Nat /\ file.synced <= Len(f.lines)
                        /\ \A i \in 1..file.synced : f.lines[i] = file.lines[i]
  BY <1>2, PowerLossKeeps
<1>4. /\ file' \in File /\ file'.present = f.present /\ file'.listed = f.listed
      /\ file'.lines = f.lines /\ file'.synced = Len(f.lines) /\ Len(f.lines) \in Nat
  BY <1>1, <1>3 DEF File
<1>5. Stopped(Procs)
  BY DEF PowerLoss
<1>6. \A q \in Procs : call'[q].step = "idle"
  BY <1>5, StoppedKeeps
<1>7. Typed' /\ OneWriter' /\ \A q \in Procs : Stage(q)'
  BY <1>4, <1>5, <1>6, StoppedKeeps DEF Typed, Stage
<1>8. ASSUME NEW e \in Entries, result'[e] = "ok" PROVE Durable(e)'
  <2>1. Durable(e)
    BY <1>5, <1>8, StoppedKeeps DEF Inv
  <2>2. file.present /\ file.listed
    BY <2>1 DEF Durable
  <2>3. PICK i \in 1..file.synced : file.lines[i] = e
    BY <2>1 DEF Durable
  <2>4. file'.present = file.present /\ file'.listed = file.listed
    BY <1>3, <1>4, <2>2
  <2>5. i \in 1..file'.synced /\ file'.lines[i] = e
    BY <1>2, <1>3, <1>4, <2>2, <2>3
  <2> QED
    BY <2>2, <2>4, <2>5 DEF Durable
<1> QED
  BY <1>7, <1>8 DEF Inv

\* What the older copy lacks is marked as taken away; the rest was durable.
LEMMA RestoreKeeps ==
  ASSUME Inv, NEW n \in 0..(Len(file.lines) - 1), Restore(n) PROVE Inv'
<1>1. file \in File /\ file.lines \in Seq(Line) /\ file.synced \in Nat /\ file.ino \in Nat
      /\ file.synced <= Len(file.lines) /\ n \in Nat /\ n <= Len(file.lines)
  BY DEF Inv, Typed, File
<1>2. SubSeq(file.lines, 1, n) \in Seq(Line) /\ Len(SubSeq(file.lines, 1, n)) = n
      /\ \A i \in 1..n : SubSeq(file.lines, 1, n)[i] = file.lines[i]
  BY <1>1
<1>3. /\ file' \in File /\ file'.present /\ file'.listed /\ file'.synced = n
      /\ file'.lines = SubSeq(file.lines, 1, n)
  <2>1. file' = [present |-> file.present, listed |-> TRUE, ino |-> file.ino + 1,
                 lines |-> SubSeq(file.lines, 1, n), synced |-> n, tail |-> Nothing]
    BY <1>1 DEF Restore, File
  <2>2. file.present /\ file.present \in BOOLEAN
    BY <1>1 DEF Restore, File
  <2>3. file' \in File /\ file'.present = file.present /\ file'.listed = TRUE
        /\ file'.synced = n /\ file'.lines = SubSeq(file.lines, 1, n)
    BY <1>1, <1>2, <2>1, <2>2 DEF File
  <2> QED
    BY <2>2, <2>3
<1>4. Writing = {} /\ call' = call
  BY DEF Restore
<1>5. result' \in [Entries -> Results]
  BY DEF Restore, Inv, Typed, Results
<1>6. Typed'
  BY <1>1, <1>2, <1>3, <1>4, <1>5 DEF Typed, Inv
<1>7. OneWriter' /\ \A q \in Procs : Stage(q)'
  BY <1>4 DEF OneWriter, Writing, Stage
<1>8. ASSUME NEW e \in Entries, result'[e] = "ok" PROVE Durable(e)'
  <2>1. result[e] = "ok" /\ ~\E i \in (n + 1)..Len(file.lines) : file.lines[i] = e
    BY <1>8 DEF Restore
  <2>2. PICK i \in 1..file.synced : file.lines[i] = e
    BY <2>1 DEF Inv, Durable
  <2>3. i \in 1..n
    BY <1>1, <2>1, <2>2
  <2> QED
    BY <1>2, <1>3, <2>2, <2>3 DEF Durable
<1> QED
  BY <1>6, <1>7, <1>8 DEF Inv

-----------------------------------------------------------------------------
\* The theorem

LEMMA InvStarts ==
  ASSUME Init PROVE Inv
<1>1. file \in File /\ file.synced <= Len(file.lines)
  <2>1. <<>> \in Seq(Line) /\ Len(<<>>) = 0
    OBVIOUS
  <2> QED
    BY <2>1 DEF Init, NoFile, File
<1>2. Typed
  <2>1. Idle \in [step : Steps, entry : Entries \cup {0}, created : BOOLEAN]
    BY DEF Idle, Steps
  <2> QED
    BY <1>1, <2>1 DEF Init, Typed, Results
<1>3. \A p \in Procs : call[p].step = "idle"
  BY DEF Init, Idle
<1>4. \A e \in Entries : result[e] # "ok"
  BY DEF Init
<1> QED
  BY <1>2, <1>3, <1>4 DEF Inv, OneWriter, Writing, Stage

LEMMA InvSteps ==
  ASSUME EntryWithFile = TRUE, Inv, [Next]_vars PROVE Inv'
<1>1. CASE UNCHANGED vars
  BY <1>1 DEF vars, Inv, Typed, OneWriter, Writing, Stage, IsIn, Durable
<1>2. CASE \E p \in Procs : App(p)
  <2>1. PICK p \in Procs : App(p)
    BY <1>2
  <2>2. CASE ReadOps(p)
    BY <2>2, ReadKeeps
  <2>3. CASE \E e \in Entries, o \in Ops : Begin(p, e, o)
    BY <2>3, BeginKeeps
  <2>4. CASE Open(p)
    BY <2>4, OpenKeeps
  <2>5. CASE Seal(p)
    BY <2>5, SealKeeps
  <2>6. CASE Write(p)
    BY <2>6, WriteKeeps
  <2>7. CASE Sync(p)
    BY <2>7, SyncKeeps
  <2>8. CASE SyncDir(p)
    BY <2>8, SyncDirKeeps
  <2> QED
    BY <2>1, <2>2, <2>3, <2>4, <2>5, <2>6, <2>7, <2>8 DEF App
<1>3. CASE \E p \in Procs : Fail(p) \/ Crash(p)
  BY <1>3, FailKeeps, CrashKeeps
<1>4. CASE PowerLoss
  BY <1>4, PowerLossStepKeeps
<1>5. CASE \E n \in 0..(Len(file.lines) - 1) : Restore(n)
  BY <1>5, RestoreKeeps
<1> QED
  BY <1>1, <1>2, <1>3, <1>4, <1>5 DEF Next

\* What an append acknowledged is durable, and so a readable record, through
\* every crash, failing write, failing fsync and power failure, until an older
\* copy of the journal takes it away (opjournal.py append, _append_line); where
\* the fsync of a new file makes its directory entry durable with it.
THEOREM AckedStays ==
  ASSUME EntryWithFile = TRUE
  PROVE  Spec => []AckedIsReadable
<1>1. Init => Inv
  BY InvStarts
<1>2. Inv /\ [Next]_vars => Inv'
  BY InvSteps
<1>3. Inv => AckedIsReadable
  <2>1. SUFFICES ASSUME Inv, NEW e \in Entries, result[e] = "ok"
                 PROVE  file.present /\ IsIn(e, file)
    BY DEF AckedIsReadable
  <2>2. Durable(e) /\ file.lines \in Seq(Line) /\ file.synced \in Nat /\ file.synced <= Len(file.lines)
    BY <2>1 DEF Inv, Typed, File
  <2> QED
    BY <2>2 DEF Durable, IsIn
<1> QED
  BY <1>1, <1>2, <1>3, PTL DEF Spec

-----------------------------------------------------------------------------
\* Reading and numbering: the inductive invariant.  It says nothing of what is
\* durable beyond what the fsync of the file itself gives, so it needs no
\* assumption about directory entries.

\* Line i is an event whose append returned.
Acked(i) == file.lines[i] \in Entries /\ result[file.lines[i]] = "ok"

\* The events of an op among the first i lines.
Upto(s, i, o) == {k \in EventsOf(s, o) : k <= i}

FileSound ==
  /\ file.synced <= Len(file.lines) /\ file.ino >= 1
  /\ ~file.present => file.lines = <<>> /\ file.tail = Nothing

\* An event that was begun belongs to an op.
EventsNamed == \A e \in Entries : result[e] # "none" => events[e].op \in Ops

\* Every record was begun; an acknowledged one is durable, and its number is at
\* most its place among the events of its op.
LinesKnown ==
  \A i \in DOMAIN file.lines : file.lines[i] \in Entries =>
    /\ result[file.lines[i]] # "none"
    /\ Acked(i) => /\ i <= file.synced
                   /\ events[file.lines[i]].seq <= 
                        Cardinality(Upto(file.lines, i, events[file.lines[i]].op))

\* No record is there twice.
LinesOnce ==
  \A i, j \in DOMAIN file.lines :
    file.lines[i] \in Entries /\ file.lines[i] = file.lines[j] => i = j

\* The torn line is of an append that never returned, and no record of it is there.
TailFresh ==
  IsTorn(file) => /\ result[file.tail.entry] \notin {"none", "ok"}
                  /\ ~IsIn(file.tail.entry, file)

InOrder ==
  \A i, j \in DOMAIN file.lines :
    i < j /\ Acked(i) /\ Acked(j) /\ events[file.lines[i]].op = events[file.lines[j]].op
      => events[file.lines[i]].seq < events[file.lines[j]].seq

\* The event e under way is numbered above every acknowledged one of its op.
Above(e) ==
  \A i \in DOMAIN file.lines :
    Acked(i) /\ events[file.lines[i]].op = events[e].op => events[file.lines[i]].seq < events[e].seq

\* What the file has of event e when its append has come to a step.
AtStep(e, step) ==
  LET before == Cardinality(EventsOf(file.lines, events[e].op)) IN
  /\ step # "open" => file.present
  /\ step = "open" => (IsTorn(file) => file.tail.entry # e)
  /\ step = "seal" => IsTorn(file) /\ file.tail.entry # e
  /\ step = "write" => (IsTorn(file) => file.tail.entry = e)
  /\ step \in {"open", "seal", "write"} => ~IsIn(e, file) /\ events[e].seq <= 1 + before
  /\ step \in {"sync", "syncdir"} =>
       /\ ~IsTorn(file) /\ Len(file.lines) \in DOMAIN file.lines
       /\ file.lines[Len(file.lines)] = e /\ events[e].seq <= before
  /\ step = "syncdir" => file.synced = Len(file.lines)

Progress(p) ==
  LET e == call[p].entry IN
  call[p].step # "idle" =>
    e \in Entries /\ result[e] = "called" /\ Above(e) /\ AtStep(e, call[p].step)

\* What a process has read of the file as it is now.
Follows(c) ==
  /\ c.ino <= file.ino
  /\ c.ino = file.ino =>
       /\ file.present
       /\ c.offset <= Len(file.lines) /\ c.seen = SubSeq(file.lines, 1, c.offset)
       /\ \A o \in Ops \ c.dirty : c.last[o] = LastOf(c.seen, o)

FileInv == FileSound /\ LinesKnown /\ LinesOnce /\ TailFresh /\ InOrder

ReadInv ==
  /\ TypeOK /\ OneWriter /\ EventsNamed /\ FileInv
  /\ \A p \in Procs : Progress(p) /\ Follows(cache[p])

-----------------------------------------------------------------------------
\* Reading and counting

CacheType == [ino : Nat, offset : Nat, seen : Seq(Line), last : [Ops -> SUBSET Entries],
              dirty : SUBSET Ops]
CallType  == [step : Steps, entry : Entries \cup {0}, created : BOOLEAN]
EventType == [op : Ops \cup {None}, seq : Nat]

\* What the type invariant says of the file and of what was read.
LEMMA ReadTypes ==
  ASSUME TypeOK
  PROVE  /\ file \in File /\ file.lines \in Seq(Line) /\ Len(file.lines) \in Nat
         /\ file.synced \in Nat /\ file.ino \in Nat
         /\ cache \in [Procs -> CacheType] /\ \A p \in Procs : cache[p] \in CacheType
         /\ call \in [Procs -> CallType] /\ result \in [Entries -> Results]
         /\ events \in [Entries -> EventType] /\ \A e \in Entries : events[e].seq \in Nat
<1>1. file \in File
  BY DEF TypeOK
<1>2. cache \in [Procs -> CacheType]
  BY DEF TypeOK, CacheType
<1>3. \A p \in Procs : cache[p] \in CacheType
  BY <1>2
<1>4. file.lines \in Seq(Line) /\ file.synced \in Nat /\ file.ino \in Nat
  BY <1>1 DEF File
<1>5. call \in [Procs -> CallType] /\ result \in [Entries -> Results]
  BY DEF TypeOK, CallType, Results, Steps
<1>6. events \in [Entries -> EventType]
  BY DEF TypeOK, EventType
<1>7. \A e \in Entries : events[e].seq \in Nat
  BY <1>6 DEF EventType
<1> QED
  BY <1>1, <1>2, <1>3, <1>4, <1>5, <1>6, <1>7

\* The events of an op among some lines can be counted.
LEMMA EventsCounted ==
  ASSUME NEW s \in Seq(Line), NEW o
  PROVE  IsFiniteSet(EventsOf(s, o)) /\ Cardinality(EventsOf(s, o)) \in Nat
<1>1. EventsOf(s, o) \in SUBSET (1..Len(s)) /\ Len(s) \in Int
  BY DEF EventsOf
<1>2. IsFiniteSet(1..Len(s))
  BY <1>1, FS_Interval
<1> QED
  BY <1>1, <1>2, FS_Subset, FS_CardinalityType

\* The place of a line among the events of its op is at most their number.
LEMMA PlaceBounded ==
  ASSUME NEW s \in Seq(Line), NEW i, NEW o
  PROVE  /\ Cardinality(Upto(s, i, o)) \in Nat
         /\ Cardinality(Upto(s, i, o)) <= Cardinality(EventsOf(s, o))
         /\ i = Len(s) => Upto(s, i, o) = EventsOf(s, o)
<1>1. Upto(s, i, o) \in SUBSET EventsOf(s, o)
  BY DEF Upto
<1>2. IsFiniteSet(EventsOf(s, o))
  BY EventsCounted
<1>3. i = Len(s) => Upto(s, i, o) = EventsOf(s, o)
  BY DEF Upto, EventsOf
<1> QED
  BY <1>1, <1>2, <1>3, FS_Subset, FS_CardinalityType

\* More lines have no fewer events, and one event more counts.
LEMMA CountsGrow ==
  ASSUME NEW s \in Seq(Line), NEW t \in Seq(Line), NEW o,
         Len(s) <= Len(t), \A i \in 1..Len(s) : t[i] = s[i]
  PROVE  /\ Cardinality(EventsOf(s, o)) <= Cardinality(EventsOf(t, o))
         /\ Len(t) = Len(s) + 1 /\ t[Len(t)] \in Entries /\ events[t[Len(t)]].op = o
              => 1 + Cardinality(EventsOf(s, o)) <= Cardinality(EventsOf(t, o))
<1>1. EventsOf(s, o) \in SUBSET EventsOf(t, o)
  BY DEF EventsOf
<1>2. IsFiniteSet(EventsOf(s, o)) /\ IsFiniteSet(EventsOf(t, o))
      /\ Cardinality(EventsOf(s, o)) \in Nat /\ Cardinality(EventsOf(t, o)) \in Nat
  BY EventsCounted
<1>3. Cardinality(EventsOf(s, o)) <= Cardinality(EventsOf(t, o))
  BY <1>1, <1>2, FS_Subset
<1>4. ASSUME Len(t) = Len(s) + 1, t[Len(t)] \in Entries, events[t[Len(t)]].op = o
      PROVE  1 + Cardinality(EventsOf(s, o)) <= Cardinality(EventsOf(t, o))
  <2> DEFINE n == Len(t)
             S == EventsOf(s, o)
  <2>1. n \in EventsOf(t, o) /\ n \notin S
    BY <1>4 DEF EventsOf, IsEntry
  <2>2. S \cup {n} \in SUBSET EventsOf(t, o)
    BY <1>1, <2>1
  <2> HIDE DEF n, S
  <2>3. Cardinality(S \cup {n}) <= Cardinality(EventsOf(t, o))
    BY <1>2, <2>2, FS_Subset
  <2>4. Cardinality(S \cup {n}) = Cardinality(S) + 1
    BY <1>2, <2>1, FS_AddElement DEF S
  <2> QED
    BY <1>2, <2>3, <2>4 DEF S
<1> QED
  BY <1>3, <1>4

\* The last event of an op is an event, if there is one.
LEMMA LastIsEntry ==
  ASSUME NEW s, NEW o PROVE LastOf(s, o) \in SUBSET Entries
BY DEF LastOf, EventsOf, IsEntry

\* Without new events of an op, its last event stays what it was.
LEMMA LastStays ==
  ASSUME NEW s \in Seq(Line), NEW n \in 0..Len(s), NEW o,
         o \notin Touched(SubSeq(s, n + 1, Len(s)))
  PROVE  LastOf(SubSeq(s, 1, n), o) = LastOf(s, o)
<1> DEFINE old == SubSeq(s, 1, n)
           new == SubSeq(s, n + 1, Len(s))
<1>1. Len(s) \in Nat /\ n \in Nat /\ n <= Len(s)
  OBVIOUS
<1>2. old \in Seq(Line) /\ Len(old) = n /\ \A i \in 1..n : old[i] = s[i]
  BY <1>1
<1>3. DOMAIN new = 1..(Len(s) - n) /\ \A i \in 1..(Len(s) - n) : new[i] = s[n + i]
  <2>1. \A i \in (n + 1)..Len(s) : s[i] \in Line
    BY <1>1
  <2>2. /\ new \in Seq(Line)
        /\ Len(new) = IF n + 1 <= Len(s) THEN Len(s) - (n + 1) + 1 ELSE 0
        /\ \A i \in 1..(Len(s) - (n + 1) + 1) : new[i] = s[n + 1 + i - 1]
    BY <1>1, <2>1, SubSeqProperties
  <2>3. Len(new) = Len(s) - n /\ Len(s) - (n + 1) + 1 = Len(s) - n
    BY <1>1, <2>2
  <2>4. DOMAIN new = 1..Len(new)
    BY <2>2
  <2>5. ASSUME NEW i \in 1..(Len(s) - n) PROVE new[i] = s[n + i]
    <3>1. n + 1 + i - 1 = n + i /\ i \in 1..(Len(s) - (n + 1) + 1)
      BY <1>1
    <3>2. new[i] = s[n + 1 + i - 1]
      BY <2>2, <3>1
    <3> QED
      BY <3>1, <3>2
  <2> HIDE DEF new
  <2> QED
    BY <2>3, <2>4, <2>5
<1>4. EventsOf(old, o) = EventsOf(s, o)
  <2>1. ASSUME NEW i \in EventsOf(s, o) PROVE i \in EventsOf(old, o)
    <3>1. i \in 1..Len(s) /\ IsEntry(s[i]) /\ events[s[i]].op = o
      BY DEF EventsOf
    <3>2. CASE i > n
      <4>1. i - n \in 1..(Len(s) - n) /\ n + (i - n) = i
        BY <1>1, <3>1, <3>2
      <4>2. i - n \in DOMAIN new /\ new[i - n] = s[i]
        BY <1>3, <4>1
      <4>3. o \in Touched(new)
        BY <3>1, <4>2 DEF Touched
      <4> QED
        BY <4>3
    <3>3. CASE ~(i > n)
      <4>1. i \in 1..n
        BY <1>1, <3>1, <3>3
      <4> QED
        BY <1>2, <3>1, <4>1 DEF EventsOf
    <3> QED
      BY <3>2, <3>3
  <2>2. ASSUME NEW i \in EventsOf(old, o) PROVE i \in EventsOf(s, o)
    <3>1. i \in 1..n /\ IsEntry(old[i]) /\ events[old[i]].op = o
      BY <1>2 DEF EventsOf
    <3>2. i \in DOMAIN s /\ s[i] = old[i]
      BY <1>1, <1>2, <3>1
    <3> QED
      BY <3>1, <3>2 DEF EventsOf
  <2> QED
    BY <2>1, <2>2
<1>5. \A i \in EventsOf(old, o) : old[i] = s[i]
  BY <1>2 DEF EventsOf
<1> DEFINE latest == {k \in EventsOf(old, o) : \A j \in EventsOf(old, o) : j <= k}
<1>6. LastOf(old, o) = {old[i] : i \in latest} /\ LastOf(s, o) = {s[i] : i \in latest}
  BY <1>4 DEF LastOf
<1>7. \A i \in latest : old[i] = s[i]
  BY <1>5
<1>8. LastOf(old, o) = LastOf(s, o)
  <2> HIDE DEF old, latest
  <2> QED
    BY <1>6, <1>7
<1> QED
  BY <1>8

\* Every op with new events among known ones is an op.
LEMMA TouchedAreOps ==
  ASSUME TypeOK, EventsNamed, LinesKnown, NEW n \in 0..Len(file.lines)
  PROVE  Touched(SubSeq(file.lines, n + 1, Len(file.lines))) \in SUBSET Ops
<1> DEFINE s == file.lines
           new == SubSeq(s, n + 1, Len(s))
<1>1. s \in Seq(Line) /\ Len(s) \in Nat /\ n \in Nat
  BY ReadTypes
<1>2. SUFFICES ASSUME NEW i \in DOMAIN new, IsEntry(new[i]) PROVE events[new[i]].op \in Ops
  BY DEF Touched
<1>3. \A k \in (n + 1)..Len(s) : s[k] \in Line
  BY <1>1
<1>4. /\ new \in Seq(Line)
      /\ Len(new) = IF n + 1 <= Len(s) THEN Len(s) - (n + 1) + 1 ELSE 0
      /\ \A k \in 1..(Len(s) - (n + 1) + 1) : new[k] = s[n + 1 + k - 1]
  BY <1>1, <1>3, SubSeqProperties
<1>5. i \in 1..Len(new)
  BY <1>4
<1> HIDE DEF new
<1>6. i \in 1..(Len(s) - (n + 1) + 1) /\ n + 1 + i - 1 = n + i /\ n + i \in 1..Len(s)
  <2>1. n + 1 <= Len(s)
    BY <1>4, <1>5
  <2>2. Len(new) = Len(s) - (n + 1) + 1
    BY <1>4, <2>1
  <2> QED
    BY <1>1, <1>5, <2>2
<1>7. new[i] = s[n + i] /\ n + i \in DOMAIN s
  <2>1. new[i] = s[n + 1 + i - 1]
    BY <1>4, <1>6
  <2> QED
    BY <1>1, <1>6, <2>1
<1>8. new[i] \in Entries /\ result[new[i]] # "none"
  BY <1>2, <1>7 DEF LinesKnown, IsEntry
<1> QED
  BY <1>8 DEF EventsNamed

\* A cache with one of its fields changed.
LEMMA CacheChanged ==
  ASSUME NEW c \in CacheType, NEW x
  PROVE  /\ [c EXCEPT !.offset = x]
              = [ino |-> c.ino, offset |-> x, seen |-> c.seen, last |-> c.last, dirty |-> c.dirty]
         /\ [c EXCEPT !.seen = x]
              = [ino |-> c.ino, offset |-> c.offset, seen |-> x, last |-> c.last, dirty |-> c.dirty]
         /\ [c EXCEPT !.last = x]
              = [ino |-> c.ino, offset |-> c.offset, seen |-> c.seen, last |-> x, dirty |-> c.dirty]
         /\ [c EXCEPT !.dirty = x]
              = [ino |-> c.ino, offset |-> c.offset, seen |-> c.seen, last |-> c.last, dirty |-> x]
<1>1. [c EXCEPT !.offset = x]
        = [ino |-> c.ino, offset |-> x, seen |-> c.seen, last |-> c.last, dirty |-> c.dirty]
  BY DEF CacheType
<1>2. [c EXCEPT !.seen = x]
        = [ino |-> c.ino, offset |-> c.offset, seen |-> x, last |-> c.last, dirty |-> c.dirty]
  BY DEF CacheType
<1>3. [c EXCEPT !.last = x]
        = [ino |-> c.ino, offset |-> c.offset, seen |-> c.seen, last |-> x, dirty |-> c.dirty]
  BY DEF CacheType
<1>4. [c EXCEPT !.dirty = x]
        = [ino |-> c.ino, offset |-> c.offset, seen |-> c.seen, last |-> c.last, dirty |-> x]
  BY DEF CacheType
<1> QED
  BY <1>1, <1>2, <1>3, <1>4

\* A cache that has read some more.
Advanced(c, n, s, d) == [c EXCEPT !.offset = n, !.seen = s, !.dirty = d]

LEMMA CacheAdvanced ==
  ASSUME NEW c \in CacheType, NEW n \in Nat, NEW s \in Seq(Line), NEW d \in SUBSET Ops
  PROVE  Advanced(c, n, s, d)
           = [ino |-> c.ino, offset |-> n, seen |-> s, last |-> c.last, dirty |-> d]
<1> DEFINE c1 == [c EXCEPT !.offset = n]
           c2 == [c1 EXCEPT !.seen = s]
<1>1. c1 = [ino |-> c.ino, offset |-> n, seen |-> c.seen, last |-> c.last, dirty |-> c.dirty]
  BY CacheChanged
<1>2. c1 \in CacheType
  BY <1>1 DEF CacheType
<1>3. c2 = [ino |-> c1.ino, offset |-> c1.offset, seen |-> s, last |-> c1.last, dirty |-> c1.dirty]
  <2> HIDE DEF c1
  <2> QED
    BY <1>2, CacheChanged
<1>4. c2 = [ino |-> c.ino, offset |-> n, seen |-> s, last |-> c.last, dirty |-> c.dirty]
  <2> HIDE DEF c1, c2
  <2> QED
    BY <1>1, <1>3
<1>5. c2 \in CacheType
  <2> HIDE DEF c2
  <2> QED
    BY <1>4 DEF CacheType
<1>6. [c2 EXCEPT !.dirty = d] = [ino |-> c.ino, offset |-> n, seen |-> s, last |-> c.last, dirty |-> d]
  <2> HIDE DEF c2
  <2> QED
    BY <1>4, <1>5, CacheChanged
<1> QED
  BY <1>6 DEF Advanced

\* A cache whose ops were folded.
LEMMA CacheFolded ==
  ASSUME NEW c \in CacheType, NEW l \in [Ops -> SUBSET Entries], NEW d \in SUBSET Ops
  PROVE  [c EXCEPT !.last = l, !.dirty = d]
           = [ino |-> c.ino, offset |-> c.offset, seen |-> c.seen, last |-> l, dirty |-> d]
<1> DEFINE c1 == [c EXCEPT !.last = l]
<1>1. c1 = [ino |-> c.ino, offset |-> c.offset, seen |-> c.seen, last |-> l, dirty |-> c.dirty]
  BY CacheChanged
<1>2. c1 \in CacheType
  BY <1>1 DEF CacheType
<1>3. [c1 EXCEPT !.dirty = d]
        = [ino |-> c.ino, offset |-> c.offset, seen |-> c.seen, last |-> l, dirty |-> d]
  <2> HIDE DEF c1
  <2> QED
    BY <1>1, <1>2, CacheChanged
<1> QED
  BY <1>3

\* Reading up to now gives exactly the lines of the file, and only an op with new
\* events has a last event that is not the file's (opjournal.py _refresh).
LEMMA RefreshedReads ==
  ASSUME ReadInv, NEW p \in Procs, file.present
  PROVE  LET c == Refreshed(cache[p]) IN
         /\ c \in CacheType /\ c.ino = file.ino /\ c.offset = Len(file.lines)
         /\ c.seen = file.lines
         /\ \A o \in Ops \ c.dirty : c.last[o] = LastOf(file.lines, o)
<1> DEFINE s == file.lines
           b == Base(cache[p])
           new == SubSeq(s, b.offset + 1, Len(s))
           c == [b EXCEPT !.offset = Len(s), !.seen = @ \o new, !.dirty = @ \cup Touched(new)]
<1>1. s \in Seq(Line) /\ Len(s) \in Nat /\ file.ino \in Nat /\ cache[p] \in CacheType
  BY ReadTypes DEF ReadInv
<1>2. Refreshed(cache[p]) = c
  BY DEF Refreshed
<1>3. /\ b \in CacheType /\ b.ino = file.ino /\ b.offset \in 0..Len(s)
      /\ b.seen = SubSeq(s, 1, b.offset)
      /\ \A o \in Ops \ b.dirty : b.last[o] = LastOf(b.seen, o)
  <2>1. CASE cache[p].ino # file.ino \/ Len(s) < cache[p].offset
    <3>1. b = [ino |-> file.ino, offset |-> 0, seen |-> <<>>, last |-> [o \in Ops |-> {}], dirty |-> {}]
      BY <2>1 DEF Base, Unread
    <3>2. <<>> \in Seq(Line) /\ SubSeq(s, 1, 0) = <<>> /\ 0 \in Nat /\ [o \in Ops |-> {}] \in [Ops -> SUBSET Entries]
      BY <1>1, SubSeqEmpty
    <3>3. b \in CacheType /\ b.ino = file.ino /\ b.offset = 0 /\ b.seen = <<>> /\ b.dirty = {}
      BY <1>1, <3>1, <3>2 DEF CacheType
    <3>4. \A o \in Ops : b.last[o] = {} /\ LastOf(<<>>, o) = {}
      <4>1. \A o \in Ops : LastOf(<<>>, o) = {}
        BY DEF LastOf, EventsOf
      <4>2. \A o \in Ops : b.last[o] = {}
        BY <3>1
      <4> QED
        BY <4>1, <4>2
    <3>5. 0 \in 0..Len(s)
      BY <1>1
    <3> QED
      BY <3>2, <3>3, <3>4, <3>5
  <2>2. CASE ~(cache[p].ino # file.ino \/ Len(s) < cache[p].offset)
    <3>1. b = cache[p]
      BY <2>2 DEF Base
    <3>2. Follows(cache[p]) /\ cache[p].ino = file.ino
      BY <2>2 DEF ReadInv
    <3>3. cache[p].offset \in Nat /\ cache[p].offset <= Len(s)
      BY <1>1, <3>2 DEF Follows, CacheType
    <3>4. cache[p].offset \in 0..Len(s)
      BY <1>1, <3>3
    <3> QED
      BY <1>1, <3>1, <3>2, <3>4 DEF Follows
  <2> QED
    BY <2>1, <2>2
<1>4. b.seen \o new = s
  <2>1. 1 \in 1..Len(s)+1 /\ b.offset \in (1-1)..Len(s) /\ Len(s) \in b.offset..Len(s)
    BY <1>1, <1>3
  <2>2. SubSeq(s, 1, b.offset) \o new = SubSeq(s, 1, Len(s))
    BY <1>1, <2>1, ConcatAdjacentSubSeq
  <2> QED
    BY <1>1, <1>3, <2>2, SubSeqFull
<1>5. Touched(new) \in SUBSET Ops
  BY <1>3, TouchedAreOps DEF ReadInv, FileInv
<1> HIDE DEF b, new
<1>6. c = [ino |-> b.ino, offset |-> Len(s), seen |-> s, last |-> b.last, dirty |-> b.dirty \cup Touched(new)]
  <2> DEFINE d == b.dirty \cup Touched(new)
  <2>1. c = Advanced(b, Len(s), s, d)
    BY <1>4 DEF Advanced
  <2>2. d \in SUBSET Ops
    BY <1>3, <1>5 DEF CacheType
  <2>3. b \in CacheType /\ Len(s) \in Nat /\ s \in Seq(Line)
    BY <1>1, <1>3
  <2> HIDE DEF c, d
  <2>4. Advanced(b, Len(s), s, d)
          = [ino |-> b.ino, offset |-> Len(s), seen |-> s, last |-> b.last, dirty |-> d]
    BY <2>2, <2>3, CacheAdvanced
  <2> QED
    BY <2>1, <2>4 DEF d
<1>7. c \in CacheType
  BY <1>1, <1>3, <1>5, <1>6 DEF CacheType
<1>8. ASSUME NEW o \in Ops \ c.dirty PROVE c.last[o] = LastOf(s, o)
  <2>1. o \in Ops /\ o \notin b.dirty /\ o \notin Touched(new) /\ c.last = b.last
    BY <1>6, <1>8
  <2>2. b.last[o] = LastOf(SubSeq(s, 1, b.offset), o)
    BY <1>3, <2>1
  <2>3. LastOf(SubSeq(s, 1, b.offset), o) = LastOf(s, o)
    BY <1>1, <1>3, <2>1, LastStays DEF new
  <2> QED
    BY <2>1, <2>2, <2>3
<1> HIDE DEF c
<1>9. /\ c \in CacheType /\ c.ino = file.ino /\ c.offset = Len(s) /\ c.seen = s
      /\ \A o \in Ops \ c.dirty : c.last[o] = LastOf(s, o)
  BY <1>3, <1>6, <1>7, <1>8
<1> QED
  BY <1>2, <1>9 DEF c

\* Folding leaves every op with the last event of the file, or none when there is no file.
LEMMA FoldedReads ==
  ASSUME ReadInv, NEW p \in Procs
  PROVE  LET c == Folded(Refreshed(cache[p])) IN
         /\ c \in CacheType /\ (file.present => c.ino = file.ino /\ c.offset = Len(file.lines)
                                                 /\ c.seen = file.lines)
         /\ (~file.present => c.ino = 0)
         /\ \A o \in Ops : c.last[o] = IF file.present THEN LastOf(file.lines, o) ELSE {}
<1> DEFINE r == Refreshed(cache[p])
           c == Folded(r)
<1>1. r \in CacheType
  <2>1. Unread \in CacheType
    <3>1. <<>> \in Seq(Line) /\ 0 \in Nat
      OBVIOUS
    <3> QED
      BY <3>1 DEF Unread, CacheType
  <2>2. CASE file.present
    BY <2>2, RefreshedReads
  <2>3. CASE ~file.present
    BY <2>1, <2>3 DEF Refreshed
  <2> QED
    BY <2>2, <2>3
<1>2. \A o \in Ops : LastOf(r.seen, o) \in SUBSET Entries
  BY LastIsEntry
<1> HIDE DEF r
<1>3. c = [ino |-> r.ino, offset |-> r.offset, seen |-> r.seen,
           last |-> [o \in Ops |-> IF o \in r.dirty THEN LastOf(r.seen, o) ELSE r.last[o]],
           dirty |-> {}]
  <2> DEFINE l == [o \in Ops |-> IF o \in r.dirty THEN LastOf(r.seen, o) ELSE r.last[o]]
             d == {}
  <2>1. l \in [Ops -> SUBSET Entries]
    BY <1>1, <1>2 DEF CacheType
  <2>2. d \in SUBSET Ops
    OBVIOUS
  <2>3. c = [r EXCEPT !.last = l, !.dirty = d]
    BY DEF Folded
  <2> HIDE DEF c, d, l
  <2>4. [r EXCEPT !.last = l, !.dirty = d]
          = [ino |-> r.ino, offset |-> r.offset, seen |-> r.seen, last |-> l, dirty |-> d]
    BY <1>1, <2>1, <2>2, CacheFolded
  <2> QED
    BY <2>3, <2>4 DEF l, d
<1>4. c \in CacheType
  BY <1>1, <1>2, <1>3 DEF CacheType
<1>5. CASE file.present
  BY <1>1, <1>3, <1>4, <1>5, RefreshedReads DEF r
<1>6. CASE ~file.present
  <2>1. r = Unread
    BY <1>6 DEF r, Refreshed
  <2>2. r.ino = 0 /\ r.dirty = {} /\ \A o \in Ops : r.last[o] = {}
    BY <2>1 DEF Unread
  <2>3. c.ino = 0 /\ \A o \in Ops : c.last[o] = {}
    BY <1>3, <2>2
  <2> QED
    BY <1>4, <1>6, <2>3 DEF r
<1> QED
  BY <1>5, <1>6 DEF r

-----------------------------------------------------------------------------
\* What stays when the file grows, is cut or is put back

\* The lines s have the same events before and after.
LEMMA EventsStay ==
  ASSUME NEW s, \A k \in DOMAIN s : s[k] \in Entries => events'[s[k]] = events[s[k]],
         NEW o, NEW i
  PROVE  /\ EventsOf(s, o)' = EventsOf(s, o)
         /\ Upto(s, i, o)' = Upto(s, i, o)
         /\ LastOf(s, o)' = LastOf(s, o)
<1>1. EventsOf(s, o)' = EventsOf(s, o)
  BY DEF EventsOf, IsEntry
<1> QED
  BY <1>1 DEF Upto, LastOf

\* The first n lines stay.
LinesKept(n) ==
  /\ n \in 0..Len(file.lines) /\ n <= Len(file'.lines)
  /\ \A i \in 1..n : file'.lines[i] = file.lines[i]

\* The place of a line that stays.
LEMMA PlaceStays ==
  ASSUME file \in File, file' \in File, NEW n, LinesKept(n), NEW i \in 1..n, NEW o
  PROVE  Upto(file'.lines, i, o) = Upto(file.lines, i, o)
<1>1. file.lines \in Seq(Line) /\ file'.lines \in Seq(Line)
  BY DEF File
<1>2. \A k \in 1..i : k \in DOMAIN file.lines /\ k \in DOMAIN file'.lines
                      /\ file'.lines[k] = file.lines[k]
  BY <1>1 DEF LinesKept
<1>3. \A k \in DOMAIN file.lines \cup DOMAIN file'.lines : k <= i => k \in 1..i
  BY <1>1 DEF LinesKept
<1> QED
  BY <1>2, <1>3 DEF Upto, EventsOf

\* No append is acknowledged or forgotten.
Softer ==
  /\ \A e \in Entries : result'[e] = "ok" => result[e] = "ok"
  /\ \A e \in Entries : result[e] # "none" => result'[e] # "none"

\* A line that is added is of an append that has not returned and is not there yet.
OneMore(n) ==
  /\ n = Len(file.lines) /\ Len(file'.lines) = n + 1
  /\ file'.lines[n + 1] \in Entries =>
       /\ result'[file'.lines[n + 1]] \notin {"none", "ok"}
       /\ ~IsIn(file'.lines[n + 1], file)

LEMMA LinesCarry ==
  ASSUME file \in File, file' \in File, LinesKnown, LinesOnce, InOrder,
         NEW n, LinesKept(n), events' = events, Softer,
         file.synced <= file'.synced \/ n <= file'.synced,
         Len(file'.lines) = n \/ OneMore(n)
  PROVE  LinesKnown' /\ LinesOnce' /\ InOrder'
<1>1. /\ file.lines \in Seq(Line) /\ file'.lines \in Seq(Line) /\ n \in Nat /\ n <= Len(file.lines)
      /\ file.synced \in Nat /\ file'.synced \in Nat /\ Len(file.lines) \in Nat
  BY DEF File, LinesKept
<1>2. \A i \in DOMAIN file'.lines : i \in 1..n \/ (i = n + 1 /\ OneMore(n))
  BY <1>1 DEF OneMore
<1>3. \A i \in 1..n : i \in DOMAIN file.lines /\ file'.lines[i] = file.lines[i]
  BY <1>1 DEF LinesKept
<1>4. \A i \in DOMAIN file'.lines : Acked(i)' => i \in 1..n /\ Acked(i)
  BY <1>2, <1>3 DEF Acked, OneMore, Softer
<1>5. LinesKnown'
  <2>1. SUFFICES ASSUME NEW i \in DOMAIN file'.lines, file'.lines[i] \in Entries
                 PROVE  /\ result'[file'.lines[i]] # "none"
                        /\ Acked(i)' => /\ i <= file'.synced
                              /\ (events[file.lines[i]].seq <=
                                    Cardinality(Upto(file.lines, i, events[file.lines[i]].op)))'
    BY DEF LinesKnown
  <2>2. result'[file'.lines[i]] # "none"
    BY <1>2, <1>3, <2>1 DEF LinesKnown, Softer, OneMore
  <2>3. ASSUME Acked(i)' 
        PROVE  /\ i <= file'.synced
               /\ (events[file.lines[i]].seq <=
                     Cardinality(Upto(file.lines, i, events[file.lines[i]].op)))'
    <3> DEFINE o == events[file.lines[i]].op
    <3>1. i \in 1..n /\ Acked(i) /\ file'.lines[i] = file.lines[i] /\ i \in DOMAIN file.lines
      BY <1>3, <1>4, <2>3
    <3>2. i <= file.synced /\ events[file.lines[i]].seq <= Cardinality(Upto(file.lines, i, o))
      BY <2>1, <3>1 DEF LinesKnown
    <3>3. Upto(file'.lines, i, o) = Upto(file.lines, i, o)
      BY <3>1, PlaceStays
    <3>4. (Upto(file.lines, i, events[file.lines[i]].op))' = Upto(file.lines, i, o)
      BY <3>1, <3>3 DEF Upto, EventsOf
    <3>5. i <= file'.synced
      BY <1>1, <3>1, <3>2
    <3> QED
      BY <3>1, <3>2, <3>4, <3>5
  <2> QED
    BY <2>2, <2>3
<1>6. LinesOnce'
  BY <1>1, <1>2, <1>3 DEF LinesOnce, OneMore, IsIn
<1>7. InOrder'
  BY <1>3, <1>4 DEF InOrder
<1> QED
  BY <1>5, <1>6, <1>7

\* What a process has read of a file that then only grows is still so.
LEMMA FollowsCarry ==
  ASSUME file \in File, file' \in File, LinesKept(Len(file.lines)), file'.ino = file.ino,
         file.present => file'.present,
         \A k \in DOMAIN file.lines :
            file.lines[k] \in Entries => events'[file.lines[k]] = events[file.lines[k]],
         NEW q \in Procs, cache[q] \in CacheType, cache'[q] = cache[q], Follows(cache[q])
  PROVE  Follows(cache[q])'
<1> DEFINE c == cache[q]
<1>1. /\ file.lines \in Seq(Line) /\ file'.lines \in Seq(Line) /\ c.offset \in Nat
      /\ Len(file.lines) <= Len(file'.lines)
      /\ \A i \in 1..Len(file.lines) : file'.lines[i] = file.lines[i]
  BY DEF File, CacheType, LinesKept
<1>2. CASE c.ino # file.ino
  BY <1>2 DEF Follows
<1>3. CASE c.ino = file.ino
  <2>1. /\ file.present /\ c.offset <= Len(file.lines) /\ c.seen = SubSeq(file.lines, 1, c.offset)
        /\ \A o \in Ops \ c.dirty : c.last[o] = LastOf(c.seen, o)
    BY <1>3 DEF Follows
  <2>2. /\ c.seen \in Seq(Line) /\ Len(c.seen) = c.offset
        /\ \A k \in 1..c.offset : c.seen[k] = file.lines[k]
    BY <1>1, <2>1
  <2>3. SubSeq(file'.lines, 1, c.offset) = c.seen
    <3> DEFINE t == SubSeq(file'.lines, 1, c.offset)
    <3>1. t \in Seq(Line) /\ Len(t) = c.offset /\ \A k \in 1..c.offset : t[k] = file'.lines[k]
      BY <1>1, <2>1
    <3>2. \A k \in 1..Len(t) : t[k] = c.seen[k]
      BY <1>1, <2>1, <2>2, <3>1
    <3> HIDE DEF t
    <3> QED
      BY <2>2, <3>1, <3>2, SeqEqual DEF t
  <2>4. \A o : LastOf(c.seen, o)' = LastOf(c.seen, o)
    <3>1. \A k \in DOMAIN c.seen : c.seen[k] \in Entries => events'[c.seen[k]] = events[c.seen[k]]
      BY <1>1, <2>1, <2>2
    <3>2. \A o : EventsOf(c.seen, o)' = EventsOf(c.seen, o)
      BY <3>1 DEF EventsOf, IsEntry
    <3> QED
      BY <3>2 DEF LastOf
  <2>5. c.offset <= Len(file'.lines)
    BY <1>1, <2>1
  <2>6. \A o \in Ops \ cache'[q].dirty : cache'[q].last[o] = LastOf(cache[q].seen, o)'
    BY <2>1, <2>4
  <2>7. cache'[q].seen = SubSeq(file'.lines, 1, cache'[q].offset) /\ cache'[q].offset <= Len(file'.lines)
    BY <2>3, <2>5
  <2>8. file'.present /\ cache'[q].ino <= file'.ino
    BY <1>3, <2>1 DEF Follows
  <2> QED
    BY <2>6, <2>7, <2>8 DEF Follows
<1> QED
  BY <1>2, <1>3

\* Nothing of the event under way changes while no other append returns.
LEMMA AboveStays ==
  ASSUME file \in File, file' \in File, NEW n, LinesKept(n), events' = events, Softer,
         Len(file'.lines) = n \/ OneMore(n), NEW e \in Entries, Above(e)
  PROVE  Above(e)'
<1>1. /\ file.lines \in Seq(Line) /\ file'.lines \in Seq(Line) /\ n \in Nat /\ n <= Len(file.lines)
  BY DEF File, LinesKept
<1>2. ASSUME NEW i \in DOMAIN file'.lines, Acked(i)'
      PROVE  i \in DOMAIN file.lines /\ Acked(i) /\ file'.lines[i] = file.lines[i]
  <2>1. i \in 1..n \/ (i = n + 1 /\ OneMore(n))
    BY <1>1, <1>2 DEF OneMore
  <2>2. i \in 1..n
    BY <1>2, <2>1 DEF OneMore, Acked
  <2> QED
    BY <1>1, <1>2, <2>2 DEF LinesKept, Acked, Softer
<1> QED
  BY <1>2 DEF Above

\* A step within an append of p, to its step s.
GoesTo(p, s) ==
  /\ call[p].step # "idle" /\ s \in Steps
  /\ call' = [call EXCEPT ![p].step = s]
  /\ UNCHANGED <<cache, events, result, breaks, restores>>

\* The file gets at most a line more.
Extends ==
  /\ file' \in File /\ file'.ino = file.ino /\ file'.present
  /\ LinesKept(Len(file.lines))
  /\ Len(file'.lines) = Len(file.lines) \/ OneMore(Len(file.lines))
  /\ file.synced <= file'.synced /\ file'.synced <= Len(file'.lines)
  /\ TailFresh'

\* The event that p appends is where step s needs it.
Reaches(p, s) == \A e : e = call[p].entry => AtStep(e, s)'

LEMMA GoesOnReads ==
  ASSUME ReadInv, NEW p \in Procs, NEW s, GoesTo(p, s), Extends, Reaches(p, s)
  PROVE  ReadInv'
<1> SUFFICES ASSUME NEW e, e = call[p].entry PROVE ReadInv'
  OBVIOUS
<1> USE DEF GoesTo, Extends, Reaches
<1>1. file \in File /\ call \in [Procs -> CallType] /\ \A q \in Procs : cache[q] \in CacheType
  BY ReadTypes DEF ReadInv
<1>2. /\ call'[p].step = s /\ call'[p].entry = e
      /\ \A q \in Procs : q # p => call'[q] = call[q] /\ call[q].step = "idle"
  BY <1>1 DEF ReadInv, OneWriter, Writing, CallType
<1>3. e \in Entries /\ result[e] = "called" /\ Above(e)
  BY DEF ReadInv, Progress
<1>4. Softer
  BY DEF Softer
<1>5. TypeOK'
  <2>1. call' \in [Procs -> CallType]
    BY <1>1 DEF CallType
  <2> QED
    BY <2>1 DEF ReadInv, TypeOK, CallType, Steps
<1>6. OneWriter' /\ EventsNamed'
  BY <1>2 DEF ReadInv, OneWriter, Writing, EventsNamed
<1>7. LinesKnown' /\ LinesOnce' /\ InOrder'
  BY <1>1, <1>4, LinesCarry DEF ReadInv, FileInv
<1>8. FileSound'
  BY DEF ReadInv, FileInv, FileSound
<1>9. \A q \in Procs : Follows(cache[q])'
  BY <1>1, FollowsCarry DEF ReadInv
<1>10. \A q \in Procs : Progress(q)'
  <2>1. Above(e)'
    BY <1>1, <1>3, <1>4, AboveStays
  <2>2. Progress(p)'
    BY <1>2, <1>3, <2>1 DEF Progress
  <2>3. ASSUME NEW q \in Procs, q # p PROVE Progress(q)'
    BY <1>2, <2>3 DEF Progress
  <2> QED
    BY <2>2, <2>3
<1> QED
  BY <1>5, <1>6, <1>7, <1>8, <1>9, <1>10 DEF ReadInv, FileInv

-----------------------------------------------------------------------------
\* Each step of an append keeps the invariant of reading and numbering

\* The file that is opened is as it was; a torn line is sealed off first.
LEMMA OpenReads ==
  ASSUME ReadInv, NEW p \in Procs, Open(p) PROVE ReadInv'
<1> SUFFICES ASSUME NEW e, e = call[p].entry, NEW s, s = IF IsTorn(file) THEN "seal" ELSE "write"
             PROVE  ReadInv'
  OBVIOUS
<1>1. file \in File /\ file.lines \in Seq(Line) /\ Len(file.lines) \in Nat /\ file.synced \in Nat
  BY ReadTypes DEF ReadInv
<1>2. AtStep(e, "open") /\ file.synced <= Len(file.lines) /\ TailFresh
  BY DEF ReadInv, Progress, Open, FileInv, FileSound
<1>3. /\ file' \in File /\ file'.ino = file.ino /\ file'.present /\ file'.synced = file.synced
      /\ file'.lines = file.lines /\ file'.tail = file.tail
  BY <1>1 DEF Open, File
<1>4. LinesKept(Len(file.lines)) /\ Len(file'.lines) = Len(file.lines)
  BY <1>1, <1>3 DEF LinesKept
<1>5. TailFresh'
  BY <1>2, <1>3 DEF TailFresh, IsTorn, IsIn, Open
<1>6. (Cardinality(EventsOf(file.lines, events[e].op)))' = Cardinality(EventsOf(file.lines, events[e].op))
  BY <1>3 DEF EventsOf, Open
<1>7. AtStep(e, s)'
  BY <1>2, <1>3, <1>6 DEF AtStep, IsTorn, IsIn, Open
<1>8. GoesTo(p, s)
  BY DEF Open, SealsFirst, Steps, GoesTo
<1>9. Extends
  BY <1>1, <1>2, <1>3, <1>4, <1>5 DEF Extends
<1> QED
  BY <1>7, <1>8, <1>9, GoesOnReads DEF Reaches

\* What is sealed off is no event, or one whose append never returned.
LEMMA SealReads ==
  ASSUME ReadInv, NEW p \in Procs, Seal(p) PROVE ReadInv'
<1> SUFFICES ASSUME NEW e, e = call[p].entry,
                    NEW x, x = IF file.tail.whole THEN file.tail.entry ELSE Damaged
             PROVE  ReadInv'
  OBVIOUS
<1>1. file \in File /\ file.lines \in Seq(Line) /\ Len(file.lines) \in Nat /\ file.synced \in Nat
  BY ReadTypes DEF ReadInv
<1>2. e \in Entries /\ AtStep(e, "seal") /\ file.synced <= Len(file.lines) /\ TailFresh
  BY DEF ReadInv, Progress, Seal, FileInv, FileSound
<1>3. IsTorn(file) /\ file.tail.entry # e /\ file.tail \in Torn /\ file.present
  BY <1>1, <1>2 DEF AtStep, File, IsTorn
<1>4. x \in Line
  BY <1>3 DEF Torn, Line
<1>5. /\ file' \in File /\ file'.ino = file.ino /\ file'.present /\ file'.synced = file.synced
      /\ file'.lines = Append(file.lines, x) /\ ~IsTorn(file')
  BY <1>1, <1>3, NewlineAdds DEF Seal, IsTorn
<1>6. /\ Len(file'.lines) = Len(file.lines) + 1 /\ file'.lines[Len(file.lines) + 1] = x
      /\ \A i \in 1..Len(file.lines) : file'.lines[i] = file.lines[i]
  BY <1>1, <1>4, <1>5
<1>7. LinesKept(Len(file.lines))
  BY <1>1, <1>6 DEF LinesKept
<1>8. x \in Entries => x = file.tail.entry
  BY LinesDiffer
<1>9. OneMore(Len(file.lines))
  BY <1>2, <1>3, <1>6, <1>8 DEF OneMore, TailFresh, Seal
<1>10. AtStep(e, "write")'
  <2>1. ~IsIn(e, file) /\ events[e].seq <= 1 + Cardinality(EventsOf(file.lines, events[e].op))
    BY <1>2 DEF AtStep
  <2>2. \A i \in DOMAIN file'.lines : i \in 1..Len(file.lines) \/ i = Len(file.lines) + 1
    BY <1>1, <1>5, <1>6
  <2>3. ~IsIn(e, file')
    <3>1. SUFFICES ASSUME NEW i \in DOMAIN file'.lines, file'.lines[i] = e PROVE FALSE
      BY DEF IsIn
    <3>2. CASE i \in 1..Len(file.lines)
      <4>1. i \in DOMAIN file.lines /\ file.lines[i] = e
        BY <1>1, <1>6, <3>1, <3>2
      <4> QED
        BY <2>1, <4>1 DEF IsIn
    <3>3. CASE i = Len(file.lines) + 1
      BY <1>2, <1>3, <1>6, <1>8, <3>1, <3>3
    <3> QED
      BY <2>2, <3>2, <3>3
  <2>4. Cardinality(EventsOf(file.lines, events[e].op)) <= Cardinality(EventsOf(file'.lines, events[e].op))
    <3>1. file'.lines \in Seq(Line)
      BY <1>5 DEF File
    <3> QED
      BY <1>1, <1>6, <3>1, CountsGrow, SMTT(30)
  <2>5. (EventsOf(file.lines, events[e].op))' = EventsOf(file'.lines, events[e].op)
    BY DEF EventsOf, Seal
  <2>6. /\ Cardinality(EventsOf(file.lines, events[e].op)) \in Nat
        /\ Cardinality(EventsOf(file'.lines, events[e].op)) \in Nat /\ events[e].seq \in Nat
    <3>1. file'.lines \in Seq(Line)
      BY <1>5 DEF File
    <3> QED
      BY <1>1, <1>2, <3>1, EventsCounted, ReadTypes DEF ReadInv
  <2>7. events'[e].seq <= 1 + Cardinality(EventsOf(file'.lines, events[e].op))
    BY <2>1, <2>4, <2>6 DEF Seal
  <2> QED
    BY <1>5, <2>3, <2>5, <2>7 DEF AtStep, IsIn
<1>11. TailFresh'
  BY <1>5 DEF TailFresh, IsTorn
<1>12. Extends
  BY <1>1, <1>2, <1>5, <1>6, <1>7, <1>9, <1>11 DEF Extends
<1>13. GoesTo(p, "write")
  BY DEF Seal, GoesTo, Steps
<1> QED
  BY <1>10, <1>12, <1>13, GoesOnReads DEF Reaches

\* The line that is written is the event's, and counts among those of its op.
LEMMA WriteReads ==
  ASSUME ReadInv, NEW p \in Procs, Write(p) PROVE ReadInv'
<1> SUFFICES ASSUME NEW e, e = call[p].entry PROVE ReadInv'
  OBVIOUS
<1>1. file \in File /\ file.lines \in Seq(Line) /\ Len(file.lines) \in Nat /\ file.synced \in Nat
  BY ReadTypes DEF ReadInv
<1>2. /\ e \in Entries /\ result[e] = "called" /\ AtStep(e, "write")
      /\ file.synced <= Len(file.lines)
  BY DEF ReadInv, Progress, Write, FileInv, FileSound
<1>3. /\ file.present /\ (IsTorn(file) => file.tail.entry = e) /\ ~IsIn(e, file)
      /\ events[e].seq <= 1 + Cardinality(EventsOf(file.lines, events[e].op))
  BY <1>2 DEF AtStep
<1>4. /\ file' \in File /\ file'.present = file.present /\ file'.ino = file.ino
      /\ file'.synced = file.synced
      /\ \/ file'.lines = file.lines /\ IsTorn(file') /\ file'.tail.entry = e
         \/ file'.lines = Append(file.lines, e) /\ ~IsTorn(file')
  BY <1>1, <1>2, <1>3, PieceAdds DEF Write
<1>5. UNCHANGED <<cache, events, result, breaks, restores>>
  BY DEF Write
<1>6. CASE file'.lines = file.lines /\ IsTorn(file') /\ file'.tail.entry = e
  <2>1. TailFresh'
    BY <1>2, <1>3, <1>5, <1>6 DEF TailFresh, IsIn
  <2>2. Extends
    BY <1>1, <1>2, <1>3, <1>4, <1>6, <2>1 DEF Extends, LinesKept
  <2>3. (Cardinality(EventsOf(file.lines, events[e].op)))' = Cardinality(EventsOf(file.lines, events[e].op))
    BY <1>5, <1>6 DEF EventsOf
  <2>4. AtStep(e, "write")'
    BY <1>3, <1>4, <1>5, <1>6, <2>3 DEF AtStep, IsIn
  <2>5. GoesTo(p, "write")
    BY <1>6 DEF Write, GoesTo, Steps
  <2> QED
    BY <2>2, <2>4, <2>5, GoesOnReads DEF Reaches
<1>7. CASE file'.lines = Append(file.lines, e) /\ ~IsTorn(file')
  <2>1. e \in Line
    BY <1>2 DEF Line
  <2>2. /\ Len(file'.lines) = Len(file.lines) + 1 /\ file'.lines[Len(file.lines) + 1] = e
        /\ file'.lines \in Seq(Line)
        /\ \A i \in 1..Len(file.lines) : file'.lines[i] = file.lines[i]
    BY <1>1, <1>7, <2>1
  <2>3. LinesKept(Len(file.lines))
    BY <1>1, <2>2 DEF LinesKept
  <2>4. OneMore(Len(file.lines))
    BY <1>2, <1>3, <1>5, <2>2 DEF OneMore
  <2>5. TailFresh'
    BY <1>7 DEF TailFresh, IsTorn
  <2>6. Extends
    BY <1>1, <1>2, <1>3, <1>4, <2>2, <2>3, <2>4, <2>5 DEF Extends
  <2>7. 1 + Cardinality(EventsOf(file.lines, events[e].op)) <= Cardinality(EventsOf(file'.lines, events[e].op))
    BY <1>1, <1>2, <2>2, CountsGrow, SMTT(30)
  <2>8. (EventsOf(file.lines, events[e].op))' = EventsOf(file'.lines, events[e].op)
    BY <1>5 DEF EventsOf
  <2>9. /\ Cardinality(EventsOf(file.lines, events[e].op)) \in Nat
        /\ Cardinality(EventsOf(file'.lines, events[e].op)) \in Nat /\ events[e].seq \in Nat
    BY <1>1, <1>2, <2>2, EventsCounted, ReadTypes DEF ReadInv
  <2>10. events'[e].seq <= Cardinality(EventsOf(file'.lines, events[e].op))
    BY <1>3, <1>5, <2>7, <2>9
  <2>11. Len(file'.lines) \in DOMAIN file'.lines /\ file'.lines[Len(file'.lines)] = e
    BY <1>1, <2>2
  <2>12. AtStep(e, "sync")'
    BY <1>3, <1>4, <1>7, <2>8, <2>10, <2>11 DEF AtStep
  <2>13. GoesTo(p, "sync")
    BY <1>7 DEF Write, GoesTo, Steps
  <2> QED
    BY <2>6, <2>12, <2>13, GoesOnReads DEF Reaches
<1> QED
  BY <1>4, <1>6, <1>7

\* What the end of an append has to keep: an acknowledged event is the last line
\* of the file, which is durable.
EndsWell(p, what) ==
  /\ call[p].step # "idle" /\ what \in {"ok", "failed"} /\ Ends(p, what)
  /\ UNCHANGED <<cache, events, restores>> /\ breaks' \in 0..MaxBreaks
  /\ file' \in File /\ file'.ino = file.ino /\ file'.present = file.present
  /\ file'.lines = file.lines /\ file'.tail = file.tail
  /\ file.synced <= file'.synced /\ file'.synced <= Len(file'.lines)
  /\ what = "ok" => call[p].step \in {"sync", "syncdir"} /\ file'.synced = Len(file.lines)

LEMMA EndsReads ==
  ASSUME ReadInv, NEW p \in Procs, NEW what, EndsWell(p, what)
  PROVE  ReadInv'
<1> USE DEF EndsWell
<1> SUFFICES ASSUME NEW e, e = call[p].entry, NEW n, n = Len(file.lines) PROVE ReadInv'
  OBVIOUS
<1>1. /\ file \in File /\ file.lines \in Seq(Line) /\ n \in Nat /\ file.synced \in Nat
      /\ call \in [Procs -> CallType] /\ result \in [Entries -> Results]
      /\ \A q \in Procs : cache[q] \in CacheType
      /\ \A d \in Entries : events[d].seq \in Nat
  BY ReadTypes DEF ReadInv
<1>2. e \in Entries /\ result[e] = "called" /\ Above(e) /\ AtStep(e, call[p].step)
  BY DEF ReadInv, Progress
<1>3. /\ call' = [call EXCEPT ![p] = Idle]
      /\ result' = [result EXCEPT ![e] = what]
      /\ \A q \in Procs : call'[q].step = "idle"
  BY <1>1 DEF Ends, ReadInv, OneWriter, Writing, Idle
<1>4. TypeOK'
  <2>1. call' \in [Procs -> CallType]
    BY <1>1, <1>3 DEF CallType, Idle, Steps
  <2>2. result' \in [Entries -> Results]
    BY <1>1, <1>3 DEF Results
  <2> QED
    BY <2>1, <2>2 DEF ReadInv, TypeOK, CallType, Steps, Results
<1>5. OneWriter' /\ \A q \in Procs : Progress(q)'
  BY <1>3 DEF OneWriter, Writing, Progress
<1>6. EventsNamed'
  BY <1>1, <1>2, <1>3 DEF ReadInv, EventsNamed
<1>7. FileSound'
  BY <1>1 DEF ReadInv, FileInv, FileSound
<1>8. TailFresh'
  <2>1. what = "ok" => ~IsTorn(file)
    BY <1>2 DEF AtStep
  <2>2. IsTorn(file) => file.tail.entry \in Entries
    BY <1>1 DEF File, IsTorn, Torn
  <2> QED
    BY <1>1, <1>3, <2>1, <2>2 DEF ReadInv, FileInv, TailFresh, IsTorn, IsIn
<1>9. \A q \in Procs : Follows(cache[q])'
  <2>1. LinesKept(n)
    BY <1>1 DEF LinesKept
  <2> QED
    BY <1>1, <2>1, FollowsCarry DEF ReadInv
<1>10. what = "ok" => /\ n \in DOMAIN file.lines /\ file.lines[n] = e
                      /\ events[e].seq <= Cardinality(Upto(file.lines, n, events[e].op))
  <2>1. what = "ok" => /\ n \in DOMAIN file.lines /\ file.lines[n] = e
                       /\ events[e].seq <= Cardinality(EventsOf(file.lines, events[e].op))
    BY <1>2 DEF AtStep
  <2>2. Upto(file.lines, n, events[e].op) = EventsOf(file.lines, events[e].op)
    BY <1>1, PlaceBounded
  <2> QED
    BY <2>1, <2>2
<1>11. \A i \in DOMAIN file.lines :
          Acked(i)' => \/ Acked(i) /\ file.lines[i] # e
                       \/ i = n /\ file.lines[i] = e /\ what = "ok"
  <2>1. SUFFICES ASSUME NEW i \in DOMAIN file.lines, Acked(i)'
                 PROVE  \/ Acked(i) /\ file.lines[i] # e
                        \/ i = n /\ file.lines[i] = e /\ what = "ok"
    OBVIOUS
  <2>2. file.lines[i] \in Entries /\ result'[file.lines[i]] = "ok"
    BY <2>1 DEF Acked
  <2>3. CASE file.lines[i] = e
    <3>1. what = "ok"
      BY <1>1, <1>2, <1>3, <2>2, <2>3
    <3> QED
      BY <1>10, <2>2, <2>3, <3>1 DEF ReadInv, FileInv, LinesOnce
  <2>4. CASE file.lines[i] # e
    BY <1>1, <1>3, <2>2, <2>4 DEF Acked
  <2> QED
    BY <2>3, <2>4
<1>12. LinesKnown'
  <2>1. SUFFICES ASSUME NEW i \in DOMAIN file.lines, file.lines[i] \in Entries
                 PROVE  /\ result'[file.lines[i]] # "none"
                        /\ Acked(i)' => /\ i <= file'.synced
                              /\ (events[file.lines[i]].seq <=
                                    Cardinality(Upto(file.lines, i, events[file.lines[i]].op)))'
    BY DEF LinesKnown
  <2>2. result'[file.lines[i]] # "none"
    BY <1>1, <1>3, <2>1 DEF ReadInv, FileInv, LinesKnown
  <2>3. (Cardinality(Upto(file.lines, i, events[file.lines[i]].op)))'
          = Cardinality(Upto(file.lines, i, events[file.lines[i]].op))
    BY DEF Upto, EventsOf
  <2>4. ASSUME Acked(i)'
        PROVE  /\ i <= file'.synced
               /\ events[file.lines[i]].seq <= Cardinality(Upto(file.lines, i, events[file.lines[i]].op))
    <3>1. CASE Acked(i)
      <4>1. /\ i <= file.synced
            /\ events[file.lines[i]].seq <= Cardinality(Upto(file.lines, i, events[file.lines[i]].op))
        BY <2>1, <3>1 DEF ReadInv, FileInv, LinesKnown
      <4>2. file'.synced \in Nat /\ i \in Nat
        BY <1>1 DEF File
      <4> QED
        BY <1>1, <4>1, <4>2
    <3>2. CASE i = n /\ file.lines[i] = e /\ what = "ok"
      BY <1>1, <1>10, <3>2
    <3> QED
      BY <1>11, <2>4, <3>1, <3>2
  <2> QED
    BY <2>2, <2>3, <2>4
<1>13. LinesOnce'
  BY DEF ReadInv, FileInv, LinesOnce
<1>14. InOrder'
  <2>1. SUFFICES ASSUME NEW i \in DOMAIN file.lines, NEW j \in DOMAIN file.lines, i < j,
                        Acked(i)', Acked(j)', events[file.lines[i]].op = events[file.lines[j]].op
                 PROVE  events[file.lines[i]].seq < events[file.lines[j]].seq
    BY DEF InOrder
  <2>2. i # n
    BY <1>1, <2>1
  <2>3. Acked(i)
    BY <1>11, <2>1, <2>2
  <2>4. CASE Acked(j)
    BY <2>1, <2>3, <2>4 DEF ReadInv, FileInv, InOrder
  <2>5. CASE file.lines[j] = e
    BY <1>2, <2>1, <2>3, <2>5 DEF Above
  <2> QED
    BY <1>11, <2>1, <2>4, <2>5
<1> QED
  BY <1>4, <1>5, <1>6, <1>7, <1>8, <1>9, <1>12, <1>13, <1>14 DEF ReadInv, FileInv

\* fsync makes every line of the file durable; the append returns unless the file is new.
LEMMA SyncReads ==
  ASSUME ReadInv, NEW p \in Procs, Sync(p) PROVE ReadInv'
<1> SUFFICES ASSUME NEW e, e = call[p].entry PROVE ReadInv'
  OBVIOUS
<1>1. /\ file \in File /\ file.lines \in Seq(Line) /\ Len(file.lines) \in Nat /\ file.synced \in Nat
      /\ file.listed \in BOOLEAN
  BY ReadTypes DEF ReadInv, File
<1>2. /\ e \in Entries /\ AtStep(e, "sync") /\ file.synced <= Len(file.lines) /\ TailFresh
      /\ file.present
  BY DEF ReadInv, Progress, Sync, FileInv, FileSound, AtStep
<1>3. /\ file' \in File /\ file'.present = file.present /\ file'.ino = file.ino
      /\ file'.lines = file.lines /\ file'.tail = file.tail /\ file'.synced = Len(file.lines)
  <2>1. file' = [present |-> file.present, listed |-> (file.listed \/ EntryWithFile), ino |-> file.ino,
                 lines |-> file.lines, synced |-> Len(file.lines), tail |-> file.tail]
    BY <1>1 DEF Sync, SyncedLines, File
  <2>2. (file.listed \/ EntryWithFile) \in BOOLEAN
    OBVIOUS
  <2>3. file.present \in BOOLEAN /\ file.ino \in Nat /\ file.tail \in Torn \cup {Nothing}
    BY <1>1 DEF File
  <2> QED
    BY <1>1, <2>1, <2>2, <2>3 DEF File
<1>4. UNCHANGED <<cache, events, breaks, restores>>
  BY DEF Sync
<1>5. CASE call[p].created
  <2>1. GoesTo(p, "syncdir")
    BY <1>5 DEF Sync, GoesTo, Steps
  <2>2. LinesKept(Len(file.lines))
    BY <1>1, <1>3 DEF LinesKept
  <2>3. TailFresh'
    BY <1>2, <1>3, <2>1 DEF TailFresh, IsTorn, IsIn, GoesTo
  <2>4. Extends
    BY <1>1, <1>2, <1>3, <2>2, <2>3 DEF Extends
  <2>5. (Cardinality(EventsOf(file.lines, events[e].op)))' = Cardinality(EventsOf(file.lines, events[e].op))
    BY <1>3, <1>4 DEF EventsOf
  <2>6. AtStep(e, "syncdir")'
    BY <1>2, <1>3, <1>4, <2>5 DEF AtStep, IsTorn, IsIn
  <2> QED
    BY <2>1, <2>4, <2>6, GoesOnReads DEF Reaches
<1>6. CASE ~call[p].created
  <2>1. Ends(p, "ok") /\ call[p].step = "sync"
    BY <1>6 DEF Sync
  <2>2. breaks' \in 0..MaxBreaks
    BY <1>4 DEF ReadInv, TypeOK
  <2>3. EndsWell(p, "ok")
    BY <1>1, <1>2, <1>3, <1>4, <2>1, <2>2 DEF EndsWell
  <2> QED
    BY <2>3, EndsReads
<1> QED
  BY <1>5, <1>6

\* The directory of a new file is synced: the append returns.
LEMMA SyncDirReads ==
  ASSUME ReadInv, NEW p \in Procs, SyncDir(p) PROVE ReadInv'
<1>1. file \in File /\ file.lines \in Seq(Line) /\ Len(file.lines) \in Nat /\ file.synced \in Nat
  BY ReadTypes DEF ReadInv
<1>2. call[p].step = "syncdir" /\ file.synced = Len(file.lines)
  BY DEF ReadInv, Progress, SyncDir, AtStep
<1>3. /\ file' \in File /\ file'.present = file.present /\ file'.ino = file.ino
      /\ file'.lines = file.lines /\ file'.tail = file.tail /\ file'.synced = file.synced
  BY <1>1 DEF SyncDir, File
<1>4. Ends(p, "ok") /\ UNCHANGED <<cache, events, restores>> /\ breaks' \in 0..MaxBreaks
  BY DEF SyncDir, ReadInv, TypeOK
<1>5. EndsWell(p, "ok")
  BY <1>1, <1>2, <1>3, <1>4 DEF EndsWell
<1> QED
  BY <1>5, EndsReads

\* One failing step more is within the bound.
LEMMA BreakCounted ==
  ASSUME ReadInv, Break PROVE breaks' \in 0..MaxBreaks
<1>1. breaks \in 0..MaxBreaks
  BY DEF ReadInv, TypeOK
<1> QED
  BY <1>1, BoundsAreNat DEF Break

\* A step that fails leaves the file, and the event unacknowledged.
LEMMA FailReads ==
  ASSUME ReadInv, NEW p \in Procs, Fail(p) PROVE ReadInv'
<1>1. file \in File /\ file.synced \in Nat /\ file.synced <= Len(file.lines)
  BY ReadTypes DEF ReadInv, FileInv, FileSound
<1>2. file' = file /\ UNCHANGED <<cache, events, restores>> /\ call[p].step # "idle"
      /\ Ends(p, "failed") /\ breaks' \in 0..MaxBreaks
  BY BreakCounted DEF Fail
<1>3. EndsWell(p, "failed")
  BY <1>1, <1>2 DEF EndsWell
<1> QED
  BY <1>3, EndsReads

-----------------------------------------------------------------------------
\* Reading, beginning, stopping and restoring keep it

\* read_ops touches the reader's cache only.
LEMMA ReadOpsReads ==
  ASSUME ReadInv, NEW p \in Procs, ReadOps(p) PROVE ReadInv'
<1> SUFFICES ASSUME NEW c, c = Folded(Refreshed(cache[p])) PROVE ReadInv'
  OBVIOUS
<1>1. /\ file \in File /\ file.lines \in Seq(Line) /\ file.ino \in Nat
      /\ cache \in [Procs -> CacheType]
  BY ReadTypes DEF ReadInv
<1>2. /\ c \in CacheType
      /\ file.present => c.ino = file.ino /\ c.offset = Len(file.lines) /\ c.seen = file.lines
      /\ ~file.present => c.ino = 0
      /\ \A o \in Ops : c.last[o] = IF file.present THEN LastOf(file.lines, o) ELSE {}
  BY FoldedReads
<1>3. UNCHANGED <<file, call, events, result, breaks, restores>> /\ cache' = [cache EXCEPT ![p] = c]
  BY DEF ReadOps
<1>4. TypeOK'
  <2>1. cache' \in [Procs -> CacheType]
    BY <1>1, <1>2, <1>3
  <2> QED
    BY <1>3, <2>1 DEF ReadInv, TypeOK, CacheType
<1>5. OneWriter' /\ EventsNamed' /\ \A q \in Procs : Progress(q)'
  <2>1. OneWriter' /\ EventsNamed'
    BY <1>3 DEF ReadInv, OneWriter, Writing, EventsNamed
  <2>2. ASSUME NEW q \in Procs PROVE Progress(q)'
    <3>1. Above(call[q].entry)' = Above(call[q].entry)
      BY <1>3 DEF Above, Acked
    <3>2. AtStep(call[q].entry, call[q].step)' = AtStep(call[q].entry, call[q].step)
      BY <1>3 DEF AtStep, IsIn, IsTorn, EventsOf
    <3> QED
      BY <1>3, <3>1, <3>2 DEF ReadInv, Progress
  <2> QED
    BY <2>1, <2>2
<1>6. FileInv'
  BY <1>3 DEF ReadInv, FileInv, FileSound, LinesKnown, LinesOnce, TailFresh, InOrder, Acked, IsIn,
              Upto, EventsOf
<1>7. \A q \in Procs : Follows(cache[q])'
  <2>1. ASSUME NEW q \in Procs, q # p PROVE Follows(cache[q])'
    <3>1. cache'[q] = cache[q]
      BY <1>1, <1>3, <2>1
    <3> QED
      BY <1>3, <3>1 DEF ReadInv, Follows, LastOf, EventsOf
  <2>2. Follows(cache[p])'
    <3>1. cache'[p] = c
      BY <1>1, <1>3
    <3>2. CASE ~file.present
      <4>1. c.ino = 0 /\ file.ino >= 1
        BY <1>2, <3>2 DEF ReadInv, FileInv, FileSound
      <4> QED
        BY <1>1, <1>3, <3>1, <4>1 DEF Follows
    <3>3. CASE file.present
      <4>1. c.ino = file.ino /\ c.offset = Len(file.lines) /\ c.seen = SubSeq(file.lines, 1, c.offset)
        BY <1>1, <1>2, <3>3, SubSeqFull
      <4>2. \A o \in Ops : c.last[o] = LastOf(file.lines, o)
        BY <1>2, <3>3
      <4>3. ASSUME NEW o \in Ops PROVE cache'[p].last[o] = LastOf(cache[p].seen, o)'
        <5>1. LastOf(cache[p].seen, o)' = LastOf(file.lines, o)
          BY <1>2, <1>3, <3>1, <3>3 DEF LastOf, EventsOf
        <5> QED
          BY <3>1, <4>2, <5>1
      <4>4. Len(file.lines) \in Nat
        BY <1>1
      <4> QED
        BY <1>1, <1>3, <3>1, <3>3, <4>1, <4>3, <4>4 DEF Follows
    <3> QED
      BY <3>2, <3>3
  <2> QED
    BY <2>1, <2>2
<1> QED
  BY <1>4, <1>5, <1>6, <1>7 DEF ReadInv

\* The next number of the op is above every acknowledged one: what the process has
\* read is the whole file.
LEMMA BeginReads ==
  ASSUME ReadInv, NEW p \in Procs, NEW e \in Entries, NEW o \in Ops, Begin(p, e, o)
  PROVE  ReadInv'
<1> SUFFICES ASSUME NEW c, c = Refreshed(cache[p]) PROVE ReadInv'
  OBVIOUS
<1>1. /\ file \in File /\ file.lines \in Seq(Line) /\ file.ino \in Nat
      /\ cache \in [Procs -> CacheType] /\ \A q \in Procs : cache[q] \in CacheType
      /\ call \in [Procs -> CallType] /\ result \in [Entries -> Results]
      /\ events \in [Entries -> EventType] /\ \A d \in Entries : events[d].seq \in Nat
  BY ReadTypes DEF ReadInv
<1>2. /\ c \in CacheType /\ c.seen = file.lines
      /\ file.present => /\ c.ino = file.ino /\ c.offset = Len(file.lines)
                         /\ \A x \in Ops \ c.dirty : c.last[x] = LastOf(file.lines, x)
      /\ ~file.present => c.ino = 0
  <2>1. CASE file.present
    BY <2>1, RefreshedReads
  <2>2. CASE ~file.present
    <3>1. c = Unread /\ file.lines = <<>>
      BY <2>2 DEF Refreshed, ReadInv, FileInv, FileSound
    <3>2. <<>> \in Seq(Line) /\ 0 \in Nat
      OBVIOUS
    <3> QED
      BY <2>2, <3>1, <3>2 DEF Unread, CacheType
  <2> QED
    BY <2>1, <2>2
<1> DEFINE m == 1 + Cardinality(EventsOf(file.lines, o))
<1>3. /\ Writing = {} /\ result[e] = "none"
      /\ cache' = [cache EXCEPT ![p] = c]
      /\ events' = [events EXCEPT ![e] = [op |-> o, seq |-> m]]
      /\ call' = [call EXCEPT ![p] = [step |-> "open", entry |-> e, created |-> ~file.present]]
      /\ result' = [result EXCEPT ![e] = "called"]
      /\ UNCHANGED <<file, breaks, restores>>
  BY <1>2 DEF Begin, View
<1>4. Cardinality(EventsOf(file.lines, o)) \in Nat
  BY <1>1, EventsCounted
<1>5. m \in Nat
  BY <1>4
<1> HIDE DEF m
<1>6. \A i \in DOMAIN file.lines : file.lines[i] # e
  BY <1>3 DEF ReadInv, FileInv, LinesKnown
<1>7. \A i \in DOMAIN file.lines :
         file.lines[i] \in Entries => /\ events'[file.lines[i]] = events[file.lines[i]]
                                      /\ result'[file.lines[i]] = result[file.lines[i]]
  BY <1>1, <1>3, <1>6
<1>8. \A i, x : /\ EventsOf(file.lines, x)' = EventsOf(file.lines, x)
                /\ Upto(file.lines, i, x)' = Upto(file.lines, i, x)
                /\ LastOf(file.lines, x)' = LastOf(file.lines, x)
  <2>1. \A x : EventsOf(file.lines, x)' = EventsOf(file.lines, x)
    BY <1>3, <1>7 DEF EventsOf, IsEntry
  <2> QED
    BY <1>3, <2>1 DEF Upto, LastOf
<1>9. \A i \in DOMAIN file.lines : Acked(i)' <=> Acked(i)
  BY <1>3, <1>7 DEF Acked
<1>10. TypeOK'
  <2>1. cache' \in [Procs -> CacheType]
    BY <1>1, <1>2, <1>3
  <2>2. events' \in [Entries -> EventType]
    BY <1>1, <1>3, <1>5 DEF EventType
  <2>3. call' \in [Procs -> CallType]
    BY <1>1, <1>3 DEF CallType, Steps
  <2>4. result' \in [Entries -> Results]
    BY <1>1, <1>3 DEF Results
  <2> QED
    BY <1>3, <2>1, <2>2, <2>3, <2>4
       DEF ReadInv, TypeOK, CacheType, EventType, CallType, Steps, Results
<1>11. \A q \in Procs : q # p => call'[q].step = "idle"
  BY <1>1, <1>3 DEF Writing
<1>12. OneWriter'
  BY <1>11 DEF OneWriter, Writing
<1>13. EventsNamed'
  BY <1>1, <1>3 DEF ReadInv, EventsNamed
<1>14. LinesKnown'
  <2>1. SUFFICES ASSUME NEW i \in DOMAIN file.lines, file.lines[i] \in Entries
                 PROVE  /\ result'[file.lines[i]] # "none"
                        /\ Acked(i)' => /\ i <= file.synced
                              /\ (events[file.lines[i]].seq <=
                                    Cardinality(Upto(file.lines, i, events[file.lines[i]].op)))'
    BY <1>3 DEF LinesKnown
  <2>2. result'[file.lines[i]] # "none"
    BY <1>7, <2>1 DEF ReadInv, FileInv, LinesKnown
  <2>3. ASSUME Acked(i)'
        PROVE  /\ i <= file.synced
               /\ (events[file.lines[i]].seq <=
                     Cardinality(Upto(file.lines, i, events[file.lines[i]].op)))'
    <3> DEFINE x == events[file.lines[i]].op
    <3>1. i <= file.synced /\ events[file.lines[i]].seq <= Cardinality(Upto(file.lines, i, x))
      BY <1>9, <2>1, <2>3 DEF ReadInv, FileInv, LinesKnown
    <3>2. (Upto(file.lines, i, events[file.lines[i]].op))' = Upto(file.lines, i, x)
      <4>1. (EventsOf(file.lines, events[file.lines[i]].op))' = EventsOf(file.lines, x)
        BY <1>3, <1>7, <2>1 DEF EventsOf, IsEntry
      <4> QED
        BY <4>1 DEF Upto
    <3> QED
      BY <1>3, <1>7, <2>1, <3>1, <3>2
  <2> QED
    BY <2>2, <2>3
<1>15. FileSound' /\ LinesOnce'
  BY <1>3 DEF ReadInv, FileInv, FileSound, LinesOnce
<1>16. TailFresh' /\ (IsTorn(file) => file.tail.entry # e)
  BY <1>1, <1>3 DEF ReadInv, FileInv, TailFresh, IsIn
<1>17. InOrder'
  BY <1>3, <1>7, <1>9 DEF ReadInv, FileInv, InOrder, Acked
<1>18. Above(e)'
  <2>1. SUFFICES ASSUME NEW i \in DOMAIN file.lines, Acked(i)', events'[file.lines[i]].op = events'[e].op
                 PROVE  events'[file.lines[i]].seq < events'[e].seq
    BY <1>3 DEF Above
  <2>2. Acked(i) /\ file.lines[i] \in Entries /\ events'[file.lines[i]] = events[file.lines[i]]
    BY <1>7, <1>9, <2>1 DEF Acked
  <2>3. events'[e].op = o /\ events'[e].seq = m
    BY <1>1, <1>3
  <2>4. events[file.lines[i]].seq <= Cardinality(Upto(file.lines, i, o))
    BY <2>1, <2>2, <2>3 DEF ReadInv, FileInv, LinesKnown
  <2>5. /\ Cardinality(Upto(file.lines, i, o)) \in Nat
        /\ Cardinality(Upto(file.lines, i, o)) <= Cardinality(EventsOf(file.lines, o))
    BY <1>1, PlaceBounded
  <2>6. events[file.lines[i]].seq \in Nat
    BY <1>1, <2>2
  <2> QED
    BY <1>4, <2>2, <2>3, <2>4, <2>5, <2>6 DEF m
<1>19. Progress(p)'
  <2>1. call'[p].step = "open" /\ call'[p].entry = e /\ result'[e] = "called"
    BY <1>1, <1>3
  <2>2. ~IsIn(e, file)'
    BY <1>3, <1>6 DEF IsIn
  <2>3. events'[e].op = o /\ events'[e].seq = m
    BY <1>1, <1>3
  <2>4. (EventsOf(file.lines, events[e].op))' = EventsOf(file.lines, o)
    BY <1>8, <2>3 DEF EventsOf
  <2>5. AtStep(e, "open")'
    BY <1>3, <1>4, <1>16, <2>2, <2>3, <2>4 DEF AtStep, IsTorn, m
  <2> QED
    BY <1>18, <2>1, <2>5 DEF Progress
<1>20. \A q \in Procs : Progress(q)'
  BY <1>11, <1>19 DEF Progress
<1>21. \A q \in Procs : Follows(cache[q])'
  <2>1. LinesKept(Len(file.lines))
    BY <1>1, <1>3 DEF LinesKept
  <2>2. ASSUME NEW q \in Procs, q # p PROVE Follows(cache[q])'
    <3>1. cache'[q] = cache[q] /\ cache[q] \in CacheType /\ Follows(cache[q])
      BY <1>1, <1>3, <2>2 DEF ReadInv
    <3> QED
      BY <1>1, <1>3, <1>7, <2>1, <3>1, FollowsCarry
  <2>3. Follows(cache[p])'
    <3>1. cache'[p] = c
      BY <1>1, <1>3
    <3>2. CASE ~file.present
      <4>1. c.ino = 0 /\ file.ino >= 1
        BY <1>2, <3>2 DEF ReadInv, FileInv, FileSound
      <4> QED
        BY <1>1, <1>3, <3>1, <4>1 DEF Follows
    <3>3. CASE file.present
      <4>1. c.ino = file.ino /\ c.offset = Len(file.lines) /\ c.seen = SubSeq(file.lines, 1, c.offset)
        BY <1>1, <1>2, <3>3, SubSeqFull
      <4>2. \A x \in Ops \ c.dirty : c.last[x] = LastOf(file.lines, x)'
        BY <1>2, <1>8, <3>3
      <4>3. ASSUME NEW x \in Ops \ cache'[p].dirty
            PROVE  cache'[p].last[x] = LastOf(cache[p].seen, x)'
        <5>1. LastOf(cache[p].seen, x)' = LastOf(file.lines, x)'
          BY <1>2, <1>3, <3>1 DEF LastOf, EventsOf
        <5> QED
          BY <3>1, <4>2, <5>1
      <4>4. Len(file.lines) \in Nat
        BY <1>1
      <4> QED
        BY <1>1, <1>3, <3>1, <3>3, <4>1, <4>3, <4>4 DEF Follows
    <3> QED
      BY <3>2, <3>3
  <2> QED
    BY <2>2, <2>3
<1> QED
  BY <1>10, <1>12, <1>13, <1>14, <1>15, <1>16, <1>17, <1>20, <1>21 DEF ReadInv, FileInv

\* What a power failure leaves of a file: its first lines, and after them nothing
\* or text of the next line or of the torn one.
LEMMA PowerLossCuts ==
  ASSUME NEW f \in File, f.synced <= Len(f.lines), ~f.present => f.lines = <<>> /\ f.tail = Nothing,
         NEW g \in AfterPowerLoss(f)
  PROVE  /\ g.ino = f.ino /\ (~g.present => g.lines = <<>> /\ g.tail = Nothing)
         /\ \E n \in 0..Len(f.lines) :
              /\ Len(g.lines) = n /\ \A i \in 1..n : g.lines[i] = f.lines[i]
              /\ IsTorn(g) => \/ /\ n \in f.synced..(Len(f.lines) - 1)
                                 /\ f.lines[n + 1] \in Entries /\ g.tail.entry = f.lines[n + 1]
                              \/ n = Len(f.lines) /\ IsTorn(f) /\ g.tail.entry = f.tail.entry
<1>1. f.lines \in Seq(Line) /\ Len(f.lines) \in Nat /\ f.synced \in Nat
  BY DEF File
<1>2. CASE g \in Vanished(f)
  <2>1. g = NoFile(f.ino)
    BY <1>2 DEF Vanished
  <2>2. g.ino = f.ino /\ g.lines = <<>> /\ g.tail = Nothing
    BY <2>1 DEF NoFile
  <2>3. 0 \in 0..Len(f.lines) /\ Len(g.lines) = 0 /\ ~IsTorn(g)
    BY <1>1, <2>2 DEF IsTorn
  <2> QED
    BY <2>2, <2>3
<1>3. CASE g \in Cuts(f)
  <2>1. PICK n \in f.synced..Len(f.lines) : g \in CutAfter(f, n)
    BY <1>3 DEF Cuts
  <2>2. PICK t \in TailsAfter(f, n) : g = [f EXCEPT !.lines = SubSeq(@, 1, n), !.tail = t]
    BY <2>1 DEF CutAfter
  <2>3. n \in Nat /\ n <= Len(f.lines)
    BY <1>1, <2>1
  <2>4. /\ SubSeq(f.lines, 1, n) \in Seq(Line) /\ Len(SubSeq(f.lines, 1, n)) = n
        /\ \A i \in 1..n : SubSeq(f.lines, 1, n)[i] = f.lines[i]
    BY <1>1, <2>3
  <2>5. g = [present |-> f.present, listed |-> f.listed, ino |-> f.ino,
             lines |-> SubSeq(f.lines, 1, n), synced |-> f.synced, tail |-> t]
    BY <2>2 DEF File
  <2>6. g.ino = f.ino /\ g.present = f.present /\ g.lines = SubSeq(f.lines, 1, n) /\ g.tail = t
    BY <2>5
  <2>7. ASSUME t # Nothing, n < Len(f.lines)
        PROVE  f.lines[n + 1] \in Entries /\ t.entry = f.lines[n + 1]
    <3>1. t \in [entry : {f.lines[n + 1]} \ {Damaged}, whole : BOOLEAN]
      BY <2>7 DEF TailsAfter
    <3>2. f.lines[n + 1] \in Line /\ t.entry = f.lines[n + 1] /\ t.entry # Damaged
      BY <1>1, <2>3, <2>7, <3>1
    <3> QED
      BY <3>2 DEF Line
  <2>8. ASSUME t # Nothing, ~(n < Len(f.lines))
        PROVE  n = Len(f.lines) /\ IsTorn(f) /\ t.entry = f.tail.entry
    <3>1. IsTorn(f) /\ (t = f.tail \/ t = [f.tail EXCEPT !.whole = FALSE])
      BY <2>8 DEF TailsAfter
    <3>2. f.tail \in Torn
      BY <3>1 DEF File, IsTorn
    <3> QED
      BY <1>1, <2>3, <2>8, <3>1, <3>2 DEF Torn
  <2>9. ~f.present => g.lines = <<>> /\ t = Nothing
    <3>1. SUFFICES ASSUME ~f.present PROVE g.lines = <<>> /\ t = Nothing
      OBVIOUS
    <3>2. Len(f.lines) = 0 /\ ~IsTorn(f)
      BY <3>1 DEF IsTorn
    <3>3. n = 0
      BY <2>3, <3>2
    <3>4. g.lines = <<>>
      BY <2>4, <2>6, <3>3
    <3> QED
      BY <2>8, <3>2, <3>3, <3>4
  <2>10. IsTorn(g) => \/ /\ n \in f.synced..(Len(f.lines) - 1)
                         /\ f.lines[n + 1] \in Entries /\ g.tail.entry = f.lines[n + 1]
                      \/ n = Len(f.lines) /\ IsTorn(f) /\ g.tail.entry = f.tail.entry
    <3>1. SUFFICES ASSUME t # Nothing
                   PROVE  \/ /\ n \in f.synced..(Len(f.lines) - 1)
                             /\ f.lines[n + 1] \in Entries /\ t.entry = f.lines[n + 1]
                          \/ n = Len(f.lines) /\ IsTorn(f) /\ t.entry = f.tail.entry
      BY <2>6 DEF IsTorn
    <3>2. n < Len(f.lines) => n \in f.synced..(Len(f.lines) - 1)
      BY <1>1, <2>1
    <3> QED
      BY <2>7, <2>8, <3>1, <3>2
  <2> QED
    BY <2>3, <2>4, <2>6, <2>9, <2>10
<1> QED
  BY <1>2, <1>3 DEF AfterPowerLoss

\* A process that stops forgets what it read and acknowledges nothing more.
LEMMA StopsReads ==
  ASSUME ReadInv, NEW P \in SUBSET Procs, Stopped(P)
  PROVE  /\ call' \in [Procs -> CallType] /\ cache' \in [Procs -> CacheType]
         /\ result' \in [Entries -> Results] /\ Softer /\ OneWriter'
         /\ \A q \in Procs : q \in P => call'[q].step = "idle" /\ cache'[q] = Unread
         /\ \A q \in Procs : q \notin P => call'[q] = call[q] /\ cache'[q] = cache[q]
<1>1. /\ call \in [Procs -> CallType] /\ cache \in [Procs -> CacheType]
      /\ result \in [Entries -> Results]
  BY ReadTypes DEF ReadInv
<1>2. Idle \in CallType /\ Idle.step = "idle" /\ Unread \in CacheType
  <2>1. <<>> \in Seq(Line) /\ 0 \in Nat
    OBVIOUS
  <2> QED
    BY <2>1 DEF Idle, CallType, Steps, Unread, CacheType
<1>3. /\ \A q \in Procs : call'[q] = IF q \in P THEN Idle ELSE call[q]
      /\ \A q \in Procs : cache'[q] = IF q \in P THEN Unread ELSE cache[q]
  BY DEF Stopped
<1>4. call' \in [Procs -> CallType]
  BY <1>1, <1>2 DEF Stopped
<1>5. cache' \in [Procs -> CacheType]
  BY <1>1, <1>2 DEF Stopped
<1>6. result' \in [Entries -> Results] /\ Softer
  BY <1>1 DEF Stopped, Results, Softer
<1>7. OneWriter'
  BY <1>2, <1>3 DEF ReadInv, OneWriter, Writing
<1> QED
  BY <1>2, <1>3, <1>4, <1>5, <1>6, <1>7

\* A crash of one process leaves the file, and any other append, as they are.
LEMMA CrashReads ==
  ASSUME ReadInv, NEW p \in Procs, Crash(p) PROVE ReadInv'
<1>1. /\ file \in File /\ file.lines \in Seq(Line) /\ Len(file.lines) \in Nat /\ file.ino \in Nat
      /\ \A q \in Procs : cache[q] \in CacheType
  BY ReadTypes DEF ReadInv
<1>2. Stopped({p}) /\ UNCHANGED <<file, events, restores>> /\ breaks' \in 0..MaxBreaks
  BY BreakCounted DEF Crash
<1>3. /\ call' \in [Procs -> CallType] /\ cache' \in [Procs -> CacheType]
      /\ result' \in [Entries -> Results] /\ Softer /\ OneWriter'
      /\ call'[p].step = "idle" /\ cache'[p] = Unread
      /\ \A q \in Procs : q # p => call'[q] = call[q] /\ cache'[q] = cache[q]
  BY <1>2, StopsReads
<1>4. TypeOK'
  BY <1>2, <1>3 DEF ReadInv, TypeOK, CallType, CacheType, Steps, Results
<1>5. LinesKept(Len(file.lines))
  BY <1>1, <1>2 DEF LinesKept
<1>6. LinesKnown' /\ LinesOnce' /\ InOrder'
  <2>1. file.synced <= file'.synced
    BY <1>1, <1>2 DEF File
  <2> QED
    BY <1>1, <1>2, <1>3, <1>5, <2>1, LinesCarry DEF ReadInv, FileInv
<1>7. FileSound' /\ TailFresh'
  <2>1. FileSound'
    BY <1>2 DEF ReadInv, FileInv, FileSound
  <2>2. IsTorn(file) => file.tail.entry \in Entries
    BY <1>1 DEF File, IsTorn, Torn
  <2> QED
    BY <1>2, <1>3, <2>1, <2>2 DEF ReadInv, FileInv, TailFresh, IsTorn, IsIn, Softer
<1>8. EventsNamed'
  BY <1>2 DEF ReadInv, EventsNamed, Stopped, Progress, Writing
<1>9. \A q \in Procs : Progress(q)'
  <2>1. ASSUME NEW q \in Procs, q # p, call[q].step # "idle" PROVE Progress(q)'
    <3>1. call'[q] = call[q]
      BY <1>3, <2>1
    <3> SUFFICES ASSUME NEW e, e = call[q].entry, NEW s, s = call[q].step PROVE Progress(q)'
      OBVIOUS
    <3>2. e \in Entries /\ result[e] = "called" /\ Above(e) /\ AtStep(e, s)
      BY <2>1 DEF ReadInv, Progress
    <3>3. call[p].step = "idle"
      BY <2>1 DEF ReadInv, OneWriter, Writing
    <3>4. result'[e] = "called"
      BY <1>2, <3>2, <3>3 DEF Stopped, Writing
    <3>5. Above(e)'
      BY <1>1, <1>2, <1>3, <1>5, <3>2, AboveStays
    <3>6. AtStep(e, s)'
      BY <1>2, <3>2 DEF AtStep, IsTorn, IsIn, EventsOf
    <3> QED
      BY <3>1, <3>2, <3>4, <3>5, <3>6 DEF Progress
  <2>2. ASSUME NEW q \in Procs, q = p \/ call[q].step = "idle" PROVE Progress(q)'
    BY <1>3, <2>2 DEF Progress
  <2> QED
    BY <2>1, <2>2
<1>10. \A q \in Procs : Follows(cache[q])'
  <2>1. ASSUME NEW q \in Procs, q # p PROVE Follows(cache[q])'
    <3>1. cache'[q] = cache[q] /\ cache[q] \in CacheType /\ Follows(cache[q])
      BY <1>1, <1>3, <2>1 DEF ReadInv
    <3> QED
      BY <1>1, <1>2, <1>5, <3>1, FollowsCarry
  <2>2. Follows(cache[p])'
    BY <1>1, <1>2, <1>3 DEF ReadInv, FileInv, FileSound, Follows, Unread
  <2> QED
    BY <2>1, <2>2
<1> QED
  BY <1>3, <1>4, <1>6, <1>7, <1>8, <1>9, <1>10 DEF ReadInv, FileInv

\* What a power failure leaves is a beginning of the file, durable from then on.
LEMMA PowerLossReads ==
  ASSUME ReadInv, PowerLoss PROVE ReadInv'
<1>1. /\ file \in File /\ file.lines \in Seq(Line) /\ Len(file.lines) \in Nat /\ file.ino \in Nat
      /\ file.synced \in Nat /\ file.synced <= Len(file.lines)
      /\ ~file.present => file.lines = <<>> /\ file.tail = Nothing
  BY ReadTypes DEF ReadInv, FileInv, FileSound
<1>2. PICK f \in AfterPowerLoss(file) : file' = [f EXCEPT !.synced = Len(f.lines)]
  BY DEF PowerLoss
<1>3. /\ f \in File /\ f.ino = file.ino /\ (~f.present => f.lines = <<>> /\ f.tail = Nothing)
  BY <1>1, <1>2, PowerLossKeeps, PowerLossCuts
<1>4. PICK n \in 0..Len(file.lines) :
         /\ Len(f.lines) = n /\ \A i \in 1..n : f.lines[i] = file.lines[i]
         /\ IsTorn(f) => \/ /\ n \in file.synced..(Len(file.lines) - 1)
                            /\ file.lines[n + 1] \in Entries /\ f.tail.entry = file.lines[n + 1]
                         \/ n = Len(file.lines) /\ IsTorn(file) /\ f.tail.entry = file.tail.entry
  BY <1>1, <1>2, PowerLossCuts
<1>5. /\ file' \in File /\ file'.ino = file.ino /\ file'.lines = f.lines /\ file'.tail = f.tail
      /\ file'.synced = n /\ file'.present = f.present
  BY <1>2, <1>3, <1>4 DEF File
<1>6. Stopped(Procs) /\ UNCHANGED <<events, restores>> /\ breaks' \in 0..MaxBreaks
  BY BreakCounted DEF PowerLoss
<1>7. /\ call' \in [Procs -> CallType] /\ cache' \in [Procs -> CacheType]
      /\ result' \in [Entries -> Results] /\ Softer /\ OneWriter'
      /\ \A q \in Procs : call'[q].step = "idle" /\ cache'[q] = Unread
  BY <1>6, StopsReads
<1>8. TypeOK'
  BY <1>5, <1>6, <1>7 DEF ReadInv, TypeOK, CallType, CacheType, Steps, Results
<1>9. LinesKept(n) /\ Len(file'.lines) = n
  BY <1>1, <1>4, <1>5 DEF LinesKept
<1>10. LinesKnown' /\ LinesOnce' /\ InOrder'
  <2>1. n <= file'.synced
    BY <1>1, <1>5
  <2> QED
    BY <1>1, <1>5, <1>6, <1>7, <1>9, <2>1, LinesCarry DEF ReadInv, FileInv
<1>11. FileSound'
  <2>1. file.ino >= 1
    BY DEF ReadInv, FileInv, FileSound
  <2> QED
    BY <1>1, <1>3, <1>4, <1>5, <2>1 DEF FileSound
<1>12. TailFresh'
  <2>1. SUFFICES ASSUME NEW e, e = f.tail.entry, IsTorn(f)
                 PROVE  result'[e] \notin {"none", "ok"} /\ ~IsIn(e, file')
    BY <1>5 DEF TailFresh, IsTorn, IsIn
  <2>2. \A i \in DOMAIN file'.lines : i \in 1..n /\ file'.lines[i] = file.lines[i] /\ i \in DOMAIN file.lines
    <3>1. file'.lines \in Seq(Line)
      BY <1>5 DEF File
    <3> QED
      BY <1>1, <1>4, <1>5, <3>1
  <2>3. CASE n \in file.synced..(Len(file.lines) - 1) /\ file.lines[n + 1] \in Entries /\ e = file.lines[n + 1]
    <3>1. n + 1 \in DOMAIN file.lines /\ ~(n + 1 <= file.synced) /\ n \in Nat
      BY <1>1, <2>3
    <3>2. result[e] # "none" /\ ~Acked(n + 1)
      BY <2>3, <3>1 DEF ReadInv, FileInv, LinesKnown
    <3>3. result[e] # "ok" /\ e \in Entries
      BY <2>3, <3>2 DEF Acked
    <3>4. result'[e] \notin {"none", "ok"}
      BY <1>7, <3>2, <3>3 DEF Softer
    <3>5. ~IsIn(e, file')
      <4>1. SUFFICES ASSUME NEW i \in DOMAIN file'.lines, file'.lines[i] = e PROVE FALSE
        BY DEF IsIn
      <4>2. i \in 1..n /\ i \in DOMAIN file.lines /\ file.lines[i] = e
        BY <2>2, <4>1
      <4>3. i = n + 1
        BY <2>3, <3>1, <4>2 DEF ReadInv, FileInv, LinesOnce
      <4> QED
        BY <3>1, <4>2, <4>3
    <3> QED
      BY <3>4, <3>5
  <2>4. CASE IsTorn(file) /\ e = file.tail.entry
    <3>1. result[e] \notin {"none", "ok"} /\ ~IsIn(e, file) /\ e \in Entries
      BY <1>1, <2>4 DEF ReadInv, FileInv, TailFresh, File, IsTorn, Torn
    <3>2. result'[e] \notin {"none", "ok"}
      BY <1>7, <3>1 DEF Softer
    <3> QED
      BY <2>2, <3>1, <3>2 DEF IsIn
  <2> QED
    BY <1>4, <2>1, <2>3, <2>4
<1>13. EventsNamed'
  BY <1>6 DEF ReadInv, EventsNamed, Stopped, Progress, Writing
<1>14. \A q \in Procs : Progress(q)' /\ Follows(cache[q])'
  BY <1>1, <1>5, <1>7 DEF ReadInv, FileInv, FileSound, Follows, Unread, Progress
<1> QED
  BY <1>7, <1>8, <1>10, <1>11, <1>12, <1>13, <1>14 DEF ReadInv, FileInv

\* An older copy is a beginning of the file under an inode that nobody has read.
LEMMA RestoreReads ==
  ASSUME ReadInv, NEW n \in 0..(Len(file.lines) - 1), Restore(n) PROVE ReadInv'
<1>1. /\ file \in File /\ file.lines \in Seq(Line) /\ Len(file.lines) \in Nat /\ file.ino \in Nat
      /\ file.synced \in Nat /\ n \in Nat /\ n <= Len(file.lines) /\ n \in 0..Len(file.lines)
      /\ \A q \in Procs : cache[q] \in CacheType
  BY ReadTypes DEF ReadInv
<1>2. SubSeq(file.lines, 1, n) \in Seq(Line) /\ Len(SubSeq(file.lines, 1, n)) = n
      /\ \A i \in 1..n : SubSeq(file.lines, 1, n)[i] = file.lines[i]
  BY <1>1
<1>3. /\ file' \in File /\ file'.present /\ file'.ino = file.ino + 1 /\ file'.synced = n
      /\ file'.lines = SubSeq(file.lines, 1, n) /\ file'.tail = Nothing
  <2>1. file' = [present |-> file.present, listed |-> TRUE, ino |-> file.ino + 1,
                 lines |-> SubSeq(file.lines, 1, n), synced |-> n, tail |-> Nothing]
    BY <1>1 DEF Restore, File
  <2>2. file.present /\ file.present \in BOOLEAN
    BY <1>1 DEF Restore, File
  <2>3. file' \in File /\ file'.present = file.present /\ file'.ino = file.ino + 1 /\ file'.synced = n
        /\ file'.lines = SubSeq(file.lines, 1, n) /\ file'.tail = Nothing
    BY <1>1, <1>2, <2>1, <2>2 DEF File
  <2> QED
    BY <2>2, <2>3
<1>4. Writing = {} /\ UNCHANGED <<call, cache, events, breaks>>
  BY DEF Restore
<1>5. result' \in [Entries -> Results] /\ Softer
  <2>1. result \in [Entries -> Results]
    BY ReadTypes DEF ReadInv
  <2> QED
    BY <2>1 DEF Restore, Results, Softer
<1>6. restores' \in 0..MaxRestores
  <2>1. restores \in 0..MaxRestores
    BY DEF ReadInv, TypeOK
  <2>2. restores < MaxRestores /\ restores' = restores + 1
    BY DEF Restore
  <2> QED
    BY <2>1, <2>2, BoundsAreNat
<1>7. TypeOK'
  BY <1>3, <1>4, <1>5, <1>6 DEF ReadInv, TypeOK, Results
<1>8. LinesKept(n) /\ Len(file'.lines) = n
  BY <1>1, <1>2, <1>3 DEF LinesKept
<1>9. LinesKnown' /\ LinesOnce' /\ InOrder'
  <2>1. n <= file'.synced
    BY <1>1, <1>3
  <2> QED
    BY <1>1, <1>3, <1>4, <1>5, <1>8, <2>1, LinesCarry DEF ReadInv, FileInv
<1>10. FileSound' /\ TailFresh'
  <2>1. file.ino >= 1
    BY DEF ReadInv, FileInv, FileSound
  <2> QED
    BY <1>1, <1>2, <1>3, <2>1 DEF FileSound, TailFresh, IsTorn
<1>11. OneWriter' /\ EventsNamed' /\ \A q \in Procs : Progress(q)'
  <2>1. OneWriter' /\ \A q \in Procs : Progress(q)'
    BY <1>4 DEF OneWriter, Writing, Progress
  <2>2. \A e \in Entries : result[e] = "none" => result'[e] = "none"
    <3>1. ASSUME NEW e \in Entries, NEW i \in (n + 1)..Len(file.lines), file.lines[i] = e
          PROVE  result[e] # "none"
      <4>1. i \in DOMAIN file.lines
        BY <1>1, <3>1
      <4> QED
        BY <3>1, <4>1 DEF ReadInv, FileInv, LinesKnown
    <3> QED
      BY <3>1 DEF Restore
  <2> QED
    BY <1>4, <2>1, <2>2 DEF ReadInv, EventsNamed
<1>12. \A q \in Procs : Follows(cache[q])'
  <2>1. ASSUME NEW q \in Procs PROVE cache[q].ino <= file'.ino /\ cache[q].ino # file'.ino
    <3>1. cache[q].ino <= file.ino /\ cache[q].ino \in Nat
      BY <1>1 DEF ReadInv, Follows, CacheType
    <3> QED
      BY <1>1, <1>3, <3>1
  <2> QED
    BY <1>4, <2>1 DEF Follows
<1> QED
  BY <1>7, <1>9, <1>10, <1>11, <1>12 DEF ReadInv, FileInv

-----------------------------------------------------------------------------
\* The theorem about readers

LEMMA ReadInvStarts ==
  ASSUME Init PROVE ReadInv
<1>1. <<>> \in Seq(Line) /\ Len(<<>>) = 0 /\ DOMAIN <<>> = {}
  OBVIOUS
<1>2. /\ file \in File /\ file.synced = 0 /\ file.ino = 1 /\ file.lines = <<>>
      /\ file.tail = Nothing /\ ~IsTorn(file)
  BY <1>1 DEF Init, NoFile, File, IsTorn
<1>3. TypeOK
  <2>1. Unread \in CacheType /\ Idle \in CallType /\ NoEvent \in EventType
    BY <1>1 DEF Unread, CacheType, Idle, CallType, Steps, NoEvent, EventType
  <2>2. cache \in [Procs -> CacheType] /\ call \in [Procs -> CallType] /\ events \in [Entries -> EventType]
    BY <2>1 DEF Init
  <2>3. breaks \in 0..MaxBreaks /\ restores \in 0..MaxRestores
    BY BoundsAreNat DEF Init
  <2>4. result \in [Entries -> Results]
    BY DEF Init, Results
  <2> QED
    BY <1>2, <2>2, <2>3, <2>4 DEF TypeOK, CacheType, CallType, EventType, Steps, Results
<1>4. \A p \in Procs : call[p].step = "idle" /\ cache[p].ino = 0
  BY DEF Init, Idle, Unread
<1>5. OneWriter /\ EventsNamed /\ \A p \in Procs : Progress(p) /\ Follows(cache[p])
  BY <1>2, <1>4 DEF Init, OneWriter, Writing, EventsNamed, Progress, Follows
<1>6. FileInv
  BY <1>1, <1>2 DEF FileInv, FileSound, LinesKnown, LinesOnce, TailFresh, InOrder
<1> QED
  BY <1>3, <1>5, <1>6 DEF ReadInv

LEMMA ReadInvSteps ==
  ASSUME ReadInv, [Next]_vars PROVE ReadInv'
<1>1. CASE UNCHANGED vars
  <2> USE <1>1 DEF vars
  <2>1. TypeOK' /\ OneWriter' /\ EventsNamed'
    BY DEF ReadInv, TypeOK, OneWriter, Writing, EventsNamed
  <2>2. FileInv'
    BY DEF ReadInv, FileInv, FileSound, LinesKnown, LinesOnce, TailFresh, InOrder, Acked, IsIn,
           IsTorn, Upto, EventsOf
  <2>3. ASSUME NEW q \in Procs PROVE Progress(q)'
    <3>1. Above(call[q].entry)' = Above(call[q].entry)
      BY DEF Above, Acked
    <3>2. AtStep(call[q].entry, call[q].step)' = AtStep(call[q].entry, call[q].step)
      BY DEF AtStep, IsIn, IsTorn, EventsOf
    <3> QED
      BY <3>1, <3>2 DEF ReadInv, Progress
  <2>4. ASSUME NEW q \in Procs PROVE Follows(cache[q])'
    BY DEF ReadInv, Follows, LastOf, EventsOf
  <2> QED
    BY <2>1, <2>2, <2>3, <2>4 DEF ReadInv
<1>2. CASE \E p \in Procs : App(p)
  <2>1. PICK p \in Procs : App(p)
    BY <1>2
  <2>2. CASE ReadOps(p)
    BY <2>2, ReadOpsReads
  <2>3. CASE \E e \in Entries, o \in Ops : Begin(p, e, o)
    BY <2>3, BeginReads
  <2>4. CASE Open(p)
    BY <2>4, OpenReads
  <2>5. CASE Seal(p)
    BY <2>5, SealReads
  <2>6. CASE Write(p)
    BY <2>6, WriteReads
  <2>7. CASE Sync(p)
    BY <2>7, SyncReads
  <2>8. CASE SyncDir(p)
    BY <2>8, SyncDirReads
  <2> QED
    BY <2>1, <2>2, <2>3, <2>4, <2>5, <2>6, <2>7, <2>8 DEF App
<1>3. CASE \E p \in Procs : Fail(p) \/ Crash(p)
  BY <1>3, FailReads, CrashReads
<1>4. CASE PowerLoss
  BY <1>4, PowerLossReads
<1>5. CASE \E n \in 0..(Len(file.lines) - 1) : Restore(n)
  BY <1>5, RestoreReads
<1> QED
  BY <1>1, <1>2, <1>3, <1>4, <1>5 DEF Next

\* Whatever a process has read before and whatever was appended, torn, sealed off,
\* lost or put back since, read_ops gives each op the last event the file has of it
\* (opjournal.py _refresh, read_ops); and the acknowledged events of an op are
\* numbered upwards in the order of the file, whoever appended them
\* (opjournal.py append): whether or not fsync makes a directory entry durable.
THEOREM ReadersSeeTheFile == Spec => ReadersAgree
<1>1. Init => ReadInv
  BY ReadInvStarts
<1>2. ReadInv /\ [Next]_vars => ReadInv'
  BY ReadInvSteps
<1>3. ReadInv => TypeOK /\ AckedInOrder
  <2>1. SUFFICES ASSUME ReadInv PROVE AckedInOrder
    BY DEF ReadInv
  <2> QED
    BY <2>1 DEF ReadInv, FileInv, InOrder, Acked, AckedInOrder
<1>4. ReadInv /\ [Next]_vars =>
        [\A p \in Procs : ReadOps(p) =>
           \A o \in Ops : cache'[p].last[o] = IF file.present THEN LastOf(file.lines, o) ELSE {}]_vars
  <2>1. SUFFICES ASSUME ReadInv, NEW p \in Procs, ReadOps(p), NEW o \in Ops
                 PROVE  cache'[p].last[o] = IF file.present THEN LastOf(file.lines, o) ELSE {}
    OBVIOUS
  <2>2. cache \in [Procs -> CacheType]
    BY <2>1, ReadTypes DEF ReadInv
  <2>3. cache'[p] = Folded(Refreshed(cache[p]))
    BY <2>1, <2>2 DEF ReadOps
  <2> QED
    BY <2>1, <2>3, FoldedReads
<1> QED
  BY <1>1, <1>2, <1>3, <1>4, PTL DEF Spec, ReadersAgree, ReadsTheFile

-----------------------------------------------------------------------------
(* Installing an update (UpdateIsSafe).                                     *)

Trees    == Versions \cup {"none"}
Runtimes == Versions \cup {"none", "part"}
Labels   == {"backup", "wait", "clear", "aside", "launcher", "runtime", "rest", "tidy",
             "undo", "back", "restore", "start", "cleanup", "ended"}

UpdateTyped ==
  /\ looking \in BOOLEAN
  /\ banner \in Offers \cup {NoRelease} /\ chosen \in Offers \cup {NoRelease}
  /\ app \in Trees
  /\ stage \in {"idle", "download", "check", "launch", "leave"}
  /\ folder \in [exe : Trees, rt : Runtimes, old : Runtimes]
  /\ work \in [there : BOOLEAN, tree : Trees, backup : Trees]
  /\ scripts \in Seq([at : Labels, tries : Nat])
  /\ mishaps \in [faults : Nat, crashed : BOOLEAN, robbed : BOOLEAN]

\* Only a program that runs looks for releases or installs one.
NeedsProgram == app = "none" => stage = "idle" /\ ~looking

\* One script at a time is at work, and none while the next is prepared.
Alive(s)   == s \in DOMAIN scripts /\ scripts[s].at # "ended"
Preparing  == stage \in {"download", "check", "launch"}
OneScript ==
  ~mishaps.robbed => /\ \A s, t \in DOMAIN scripts : Alive(s) /\ Alive(t) => s = t
                     /\ Preparing => ~Waiting

\* What the folder and WORK hold while the script is at each of its commands.
Bootable == folder.exe \in Versions /\ folder.rt \in Versions
Matched  == mishaps.crashed \/ folder.exe = folder.rt
Stocked  == work.there /\ work.tree \in Versions /\ work.backup \in Versions
Was(version) == mishaps.crashed \/ work.backup = version

Fits(at) ==
  /\ at = "backup"  => Bootable /\ Matched /\ work.backup = "none"
                       /\ (work.there => work.tree \in Versions)
  /\ at = "wait"    => Bootable /\ Matched /\ Stocked /\ work.backup = folder.exe
  /\ at \in {"clear", "aside"} =>
       folder.exe = "none" /\ folder.rt \in Versions /\ Stocked /\ Was(folder.rt)
  /\ at = "aside"   => folder.old = "none" \/ mishaps.faults > 0
  /\ at = "launcher" => folder.exe = "none" /\ folder.rt = "none"
  /\ at \in {"runtime", "rest"} => folder.exe = work.tree
  /\ at = "runtime" => folder.rt = "none"
  /\ at = "rest"    => folder.rt = "part"
  /\ at \in {"launcher", "runtime", "rest", "undo", "back"} =>
       Stocked /\ folder.old \in Versions /\ Was(folder.old)
  /\ at \in {"undo", "back"} => mishaps.faults > 0
  /\ at = "undo"    => folder.rt \in {"none", "part"}
  /\ at = "back"    => folder.rt = "none"
  /\ at = "tidy"    => Bootable /\ folder.exe = folder.rt
  /\ at = "restore" => mishaps.faults > 0 /\ folder.rt \in Versions /\ Stocked /\ Was(folder.rt)
  /\ at \in {"start", "cleanup"} => Bootable /\ Matched

\* What the install folder and WORK hold in the cases the script provides for.
Recoverable ==
  Ordinary =>
    /\ StillThere
    /\ app # "none" => Bootable
    /\ ~Waiting /\ ~mishaps.crashed => Bootable /\ Matched
    /\ Preparing => work.backup = "none"
    /\ stage = "launch" /\ work.there => work.tree \in Versions
    /\ \A s \in DOMAIN scripts : Fits(scripts[s].at)

\* Where the versions come from.
NewEnough(version) == version \in Versions \ {Current} => IsNewer(version, Current)
Ascends ==
  Declared /\ ~mishaps.robbed =>
    /\ NewEnough(folder.rt) /\ NewEnough(folder.old) /\ NewEnough(app)
    /\ banner # NoRelease => IsNewer(banner.version, Current)
    /\ stage \in {"download", "check"} =>
         chosen # NoRelease /\ PickAsset(chosen.assets) # 0 /\ IsNewer(chosen.version, Current)
    /\ stage = "check" => work.tree \in {"none", chosen.holds}
    /\ stage = "launch" \/ Waiting => NewEnough(work.tree)

UpdateInv == UpdateTyped /\ NeedsProgram /\ OneScript /\ Recoverable /\ Ascends

-----------------------------------------------------------------------------
(* Facts about versions: a later one of a later one is later.               *)

\* The i-th number of a version text, 0 where it has none.
NumberAt(v, i) == IF i <= Len(Numbers[v]) THEN Numbers[v][i] ELSE 0
Later(a, b) == \E i \in Nat \ {0} : /\ NumberAt(a, i) > NumberAt(b, i)
                                    /\ \A j \in 1 .. i - 1 : NumberAt(a, j) = NumberAt(b, j)

LEMMA NumbersAreNat == \A v \in Versions, i \in Nat \ {0} : NumberAt(v, i) \in Nat
  <1> TAKE v \in Versions, i \in Nat \ {0}
  <1>1. Numbers[v] \in Seq(Nat)
    BY VersionsAreTexts
  <1>2. i <= Len(Numbers[v]) => Numbers[v][i] \in Nat
    BY <1>1
  <1> QED
    BY <1>1, <1>2 DEF NumberAt

\* IsNewer is Later, of texts that are not junk.
LEMMA NewerIsLater ==
  ASSUME NEW a \in Versions, NEW b \in Versions
  PROVE  IsNewer(a, b) <=> Numbers[a] # <<>> /\ Numbers[b] # <<>> /\ Later(a, b)
  <1> DEFINE n == Longer(Numbers[a], Numbers[b])
  <1>1. Numbers[a] \in Seq(Nat) /\ Numbers[b] \in Seq(Nat)
    BY VersionsAreTexts
  <1>2. n \in Nat /\ Len(Numbers[a]) <= n /\ Len(Numbers[b]) <= n
    BY <1>1 DEF Longer
  <1>3. \A i \in 1 .. n : /\ Padded(Numbers[a], n)[i] = NumberAt(a, i)
                          /\ Padded(Numbers[b], n)[i] = NumberAt(b, i)
    BY DEF Padded, NumberAt
  <1>4. \A i \in Nat \ {0} : i \notin 1 .. n => NumberAt(a, i) = 0 /\ NumberAt(b, i) = 0
    BY <1>1, <1>2 DEF NumberAt
  <1>5. ASSUME Later(a, b)
        PROVE  \E i \in 1 .. n : /\ Padded(Numbers[a], n)[i] > Padded(Numbers[b], n)[i]
                                 /\ \A j \in 1 .. i - 1 :
                                      Padded(Numbers[a], n)[j] = Padded(Numbers[b], n)[j]
    <2>1. PICK i \in Nat \ {0} : /\ NumberAt(a, i) > NumberAt(b, i)
                                 /\ \A j \in 1 .. i - 1 : NumberAt(a, j) = NumberAt(b, j)
      BY <1>5 DEF Later
    <2>2. i \in 1 .. n
      BY <2>1, <1>4
    <2>3. \A j \in 1 .. i - 1 : j \in 1 .. n
      BY <2>2, <1>2
    <2> HIDE DEF n
    <2> QED
      BY <2>1, <2>2, <2>3, <1>3
  <1>6. ASSUME NEW i \in 1 .. n, Padded(Numbers[a], n)[i] > Padded(Numbers[b], n)[i],
               \A j \in 1 .. i - 1 : Padded(Numbers[a], n)[j] = Padded(Numbers[b], n)[j]
        PROVE  Later(a, b)
    <2>1. \A j \in 1 .. i - 1 : j \in 1 .. n
      BY <1>2
    <2>2. i \in Nat \ {0}
      BY <1>2
    <2> HIDE DEF n
    <2>3. NumberAt(a, i) > NumberAt(b, i) /\ \A j \in 1 .. i - 1 : NumberAt(a, j) = NumberAt(b, j)
      BY <1>6, <1>3, <2>1
    <2> QED
      BY <2>2, <2>3 DEF Later
  <1> HIDE DEF n
  <1>7. IsNewer(a, b) <=> /\ Numbers[a] # <<>> /\ Numbers[b] # <<>>
                          /\ \E i \in 1 .. n : /\ Padded(Numbers[a], n)[i] > Padded(Numbers[b], n)[i]
                                               /\ \A j \in 1 .. i - 1 :
                                                    Padded(Numbers[a], n)[j] = Padded(Numbers[b], n)[j]
    BY DEF IsNewer, n
  <1> QED
    BY <1>5, <1>6, <1>7

LEMMA LaterOfLater ==
  ASSUME NEW a \in Versions, NEW b \in Versions, NEW c \in Versions, Later(a, b), Later(b, c)
  PROVE  Later(a, c)
  <1>1. PICK i \in Nat \ {0} : /\ NumberAt(a, i) > NumberAt(b, i)
                               /\ \A j \in 1 .. i - 1 : NumberAt(a, j) = NumberAt(b, j)
    BY DEF Later
  <1>2. PICK k \in Nat \ {0} : /\ NumberAt(b, k) > NumberAt(c, k)
                               /\ \A j \in 1 .. k - 1 : NumberAt(b, j) = NumberAt(c, j)
    BY DEF Later
  <1>3. \A j \in Nat \ {0} : NumberAt(a, j) \in Nat /\ NumberAt(b, j) \in Nat /\ NumberAt(c, j) \in Nat
    BY NumbersAreNat
  <1>4. CASE i <= k
    <2>1. NumberAt(b, i) >= NumberAt(c, i)
      <3>1. CASE i = k
        BY <3>1, <1>2, <1>3
      <3>2. CASE i # k
        <4>1. i \in 1 .. k - 1
          BY <3>2, <1>4
        <4> QED
          BY <4>1, <1>2, <1>3
      <3> QED
        BY <3>1, <3>2
    <2>2. NumberAt(a, i) > NumberAt(c, i)
      BY <2>1, <1>1, <1>3
    <2>3. \A j \in 1 .. i - 1 : j \in 1 .. k - 1
      BY <1>4
    <2> QED
      BY <2>2, <2>3, <1>1, <1>2 DEF Later
  <1>5. CASE k < i
    <2>1. k \in 1 .. i - 1 /\ \A j \in 1 .. k - 1 : j \in 1 .. i - 1
      BY <1>5
    <2> QED
      BY <2>1, <1>1, <1>2 DEF Later
  <1> QED
    BY <1>4, <1>5

LEMMA NewerOfNewer ==
  ASSUME NEW a \in Versions, NEW b \in Versions, NEW c \in Versions, IsNewer(a, b), IsNewer(b, c)
  PROVE  IsNewer(a, c)
  BY NewerIsLater, LaterOfLater

\* The same numbers are as new.
LEMMA SameIsAsNew ==
  ASSUME NEW a, NEW b, NEW c, SameVersion(a, b), IsNewer(b, c)
  PROVE  IsNewer(a, c)
  BY DEF SameVersion, IsNewer

-----------------------------------------------------------------------------
(* Facts about the scripts.                                                 *)

Scripts2 == Seq([at : Labels, tries : Nat])

LEMMA ScriptIsTyped ==
  ASSUME scripts \in Scripts2, NEW s \in DOMAIN scripts
  PROVE  scripts[s] \in [at : Labels, tries : Nat]
  <1> DEFINE T == [at : Labels, tries : Nat]
  <1>1. scripts \in Seq(T) /\ s \in 1 .. Len(scripts)
    BY DEF Scripts2
  <1> HIDE DEF T
  <1>2. scripts[s] \in T
    BY <1>1
  <1> QED
    BY <1>2 DEF T

LEMMA ScriptGoes ==
  ASSUME scripts \in Scripts2, NEW s \in DOMAIN scripts, NEW next \in Labels,
         scripts' = [scripts EXCEPT ![s].at = next]
  PROVE  /\ scripts' \in Scripts2 /\ DOMAIN scripts' = DOMAIN scripts
         /\ scripts'[s].at = next
         /\ \A t \in DOMAIN scripts : t # s => scripts'[t] = scripts[t]
  <1>1. scripts[s] \in [at : Labels, tries : Nat]
    BY ScriptIsTyped
  <1>2. [scripts[s] EXCEPT !.at = next] \in [at : Labels, tries : Nat]
    BY <1>1
  <1>3. scripts' = [scripts EXCEPT ![s] = [scripts[s] EXCEPT !.at = next]]
    OBVIOUS
  <1> QED
    BY <1>1, <1>2, <1>3 DEF Scripts2

LEMMA ScriptTries ==
  ASSUME scripts \in Scripts2, NEW s \in DOMAIN scripts,
         scripts' = [scripts EXCEPT ![s] = Tried(@)]
  PROVE  /\ scripts' \in Scripts2 /\ DOMAIN scripts' = DOMAIN scripts
         /\ scripts'[s].at \in {scripts[s].at, "cleanup"}
         /\ \A t \in DOMAIN scripts : t # s => scripts'[t] = scripts[t]
  <1> DEFINE new == Tried(scripts[s])
  <1>1. scripts[s] \in [at : Labels, tries : Nat]
    BY ScriptIsTyped
  <1>2. new \in [at : Labels, tries : Nat] /\ new.at \in {scripts[s].at, "cleanup"}
    BY <1>1 DEF Labels, Tried
  <1>3. scripts' = [scripts EXCEPT ![s] = new]
    OBVIOUS
  <1> HIDE DEF new
  <1> QED
    BY <1>2, <1>3 DEF Scripts2

LEMMA ScriptsStop ==
  ASSUME scripts \in Scripts2, scripts' = StoppedScripts
  PROVE  /\ scripts' \in Scripts2 /\ DOMAIN scripts' = DOMAIN scripts
         /\ \A t \in DOMAIN scripts' : scripts'[t].at = "ended"
  <1>1. \A t \in DOMAIN scripts : scripts[t] \in [at : Labels, tries : Nat]
    BY ScriptIsTyped
  <1>2. \A t \in DOMAIN scripts : [scripts[t] EXCEPT !.at = "ended"] \in [at : Labels, tries : Nat]
    BY <1>1 DEF Labels
  <1>3. scripts' = [t \in 1 .. Len(scripts) |-> [scripts[t] EXCEPT !.at = "ended"]] /\ Len(scripts) \in Nat
    BY DEF StoppedScripts, Scripts2
  <1>4. scripts' \in [1 .. Len(scripts) -> [at : Labels, tries : Nat]]
    BY <1>2, <1>3 DEF Scripts2
  <1>5. DOMAIN scripts' = 1 .. Len(scripts) /\ DOMAIN scripts = 1 .. Len(scripts)
    BY <1>3 DEF Scripts2
  <1>6. scripts' \in Scripts2
    BY <1>3, <1>4 DEF Scripts2
  <1>7. \A t \in DOMAIN scripts : scripts'[t].at = "ended"
    BY <1>1, <1>3, <1>5
  <1> QED
    BY <1>5, <1>6, <1>7

LEMMA ScriptStarts ==
  ASSUME scripts \in Scripts2, scripts' = Append(scripts, Script)
  PROVE  /\ scripts' \in Scripts2 /\ DOMAIN scripts' = DOMAIN scripts \cup {Len(scripts) + 1}
         /\ Len(scripts) + 1 \notin DOMAIN scripts
         /\ scripts'[Len(scripts) + 1].at = "backup"
         /\ \A t \in DOMAIN scripts : scripts'[t] = scripts[t]
  <1>1. Script \in [at : Labels, tries : Nat] /\ Script.at = "backup"
    BY DEF Script, Labels
  <1> HIDE DEF Script
  <1> QED
    BY <1>1 DEF Scripts2

-----------------------------------------------------------------------------
(* A command of the script: what all of them have in common.                *)

\* Only s moves on, and nothing of the window changes; a fault is one more.
Moved2(s) ==
  /\ Alive(s)
  /\ scripts' \in Scripts2 /\ DOMAIN scripts' = DOMAIN scripts
  /\ \A t \in DOMAIN scripts : t # s => scripts'[t] = scripts[t]
  /\ UNCHANGED <<offerVars, installVars>>
  /\ mishaps' \in [faults : Nat, crashed : BOOLEAN, robbed : BOOLEAN]
  /\ mishaps'.robbed = mishaps.robbed /\ mishaps'.crashed = mishaps.crashed
  /\ mishaps'.faults >= mishaps.faults

LEMMA FaultIsOneMore ==
  ASSUME UpdateTyped, Fine \/ Fault
  PROVE  /\ mishaps' \in [faults : Nat, crashed : BOOLEAN, robbed : BOOLEAN]
         /\ mishaps'.robbed = mishaps.robbed /\ mishaps'.crashed = mishaps.crashed
         /\ mishaps'.faults >= mishaps.faults
         /\ Fault => mishaps'.faults = mishaps.faults + 1
  BY DEF UpdateTyped, Fine, Fault

LEMMA GoesMoves ==
  ASSUME UpdateTyped, NEW s, NEW at \in Labels \ {"ended"}, At(s, at),
         NEW next \in Labels, Goes(s, next), Fine \/ Fault, ScriptOnly
  PROVE  Moved2(s) /\ scripts'[s].at = next
  <1>1. s \in DOMAIN scripts /\ Alive(s)
    BY DEF At, Alive
  <1>2. scripts \in Scripts2
    BY DEF UpdateTyped, Scripts2
  <1>3. scripts' = [scripts EXCEPT ![s].at = next]
    BY DEF Goes
  <1> QED
    BY <1>1, <1>2, <1>3, ScriptGoes, FaultIsOneMore DEF Moved2, ScriptOnly

\* Each command moves its script to one of these.
LEMMA TakeBackupMoves ==
  ASSUME UpdateTyped, NEW s, TakeBackup(s)
  PROVE  Moved2(s) /\ scripts'[s].at \in {"cleanup", "wait"}
  <1>1. At(s, "backup") /\ (Fine \/ Fault) /\ ScriptOnly
    BY DEF TakeBackup
  <1>2. \E next \in {"cleanup", "wait"} : Goes(s, next)
    BY DEF TakeBackup
  <1> QED
    BY <1>1, <1>2, GoesMoves DEF Labels

LEMMA ClearOldMoves ==
  ASSUME UpdateTyped, NEW s, ClearOld(s)
  PROVE  Moved2(s) /\ scripts'[s].at \in {"aside"}
  <1>1. At(s, "clear") /\ (Fine \/ Fault) /\ ScriptOnly
    BY DEF ClearOld
  <1>2. \E next \in {"aside"} : Goes(s, next)
    BY DEF ClearOld
  <1> QED
    BY <1>1, <1>2, GoesMoves DEF Labels

LEMMA MoveAsideMoves ==
  ASSUME UpdateTyped, NEW s, MoveAside(s)
  PROVE  Moved2(s) /\ scripts'[s].at \in {"restore", "launcher"}
  <1>1. At(s, "aside") /\ (Fine \/ Fault) /\ ScriptOnly
    BY DEF MoveAside
  <1>2. \E next \in {"restore", "launcher"} : Goes(s, next)
    BY DEF MoveAside
  <1> QED
    BY <1>1, <1>2, GoesMoves DEF Labels

LEMMA TidyMoves ==
  ASSUME UpdateTyped, NEW s, Tidy(s)
  PROVE  Moved2(s) /\ scripts'[s].at \in {"start"}
  <1>1. At(s, "tidy") /\ (Fine \/ Fault) /\ ScriptOnly
    BY DEF Tidy
  <1>2. \E next \in {"start"} : Goes(s, next)
    BY DEF Tidy
  <1> QED
    BY <1>1, <1>2, GoesMoves DEF Labels

LEMMA DropNewMoves ==
  ASSUME UpdateTyped, NEW s, DropNew(s)
  PROVE  Moved2(s) /\ scripts'[s].at \in {"back"}
  <1>1. At(s, "undo") /\ (Fine \/ Fault) /\ ScriptOnly
    BY DEF DropNew
  <1>2. \E next \in {"back"} : Goes(s, next)
    BY DEF DropNew
  <1> QED
    BY <1>1, <1>2, GoesMoves DEF Labels

LEMMA PutBackMoves ==
  ASSUME UpdateTyped, NEW s, PutBack(s)
  PROVE  Moved2(s) /\ scripts'[s].at \in {"restore"}
  <1>1. At(s, "back") /\ (Fine \/ Fault) /\ ScriptOnly
    BY DEF PutBack
  <1>2. \E next \in {"restore"} : Goes(s, next)
    BY DEF PutBack
  <1> QED
    BY <1>1, <1>2, GoesMoves DEF Labels

LEMMA RestoreLauncherMoves ==
  ASSUME UpdateTyped, NEW s, RestoreLauncher(s)
  PROVE  Moved2(s) /\ scripts'[s].at \in {"start"}
  <1>1. At(s, "restore") /\ (Fine \/ Fault) /\ ScriptOnly
    BY DEF RestoreLauncher
  <1>2. \E next \in {"start"} : Goes(s, next)
    BY DEF RestoreLauncher
  <1> QED
    BY <1>1, <1>2, GoesMoves DEF Labels

LEMMA StartAppMoves ==
  ASSUME UpdateTyped, NEW s, StartApp(s)
  PROVE  Moved2(s) /\ scripts'[s].at \in {"cleanup"}
  <1>1. At(s, "start") /\ (Fine \/ Fault) /\ ScriptOnly
    BY DEF StartApp
  <1>2. \E next \in {"cleanup"} : Goes(s, next)
    BY DEF StartApp
  <1> QED
    BY <1>1, <1>2, GoesMoves DEF Labels

LEMMA CleanupMoves ==
  ASSUME UpdateTyped, NEW s, Cleanup(s)
  PROVE  Moved2(s) /\ scripts'[s].at \in {"ended"}
  <1>1. At(s, "cleanup") /\ (Fine \/ Fault) /\ ScriptOnly
    BY DEF Cleanup
  <1>2. \E next \in {"ended"} : Goes(s, next)
    BY DEF Cleanup
  <1> QED
    BY <1>1, <1>2, GoesMoves DEF Labels

LEMMA CopyNewMoves ==
  ASSUME UpdateTyped, NEW s, CopyNew(s)
  PROVE  Moved2(s) /\ scripts'[s].at \in {"runtime", "rest", "tidy", "undo"}
  <1>1. PICK part \in {"launcher", "runtime", "rest"} :
          /\ At(s, part) /\ (Fine \/ Fault) /\ ScriptOnly
          /\ Goes(s, Copied[part]) \/ Goes(s, "undo")
    BY DEF CopyNew, Copied
  <1>2. Copied[part] \in {"runtime", "rest", "tidy"}
    BY DEF Copied
  <1>3. \E next \in {"runtime", "rest", "tidy", "undo"} : Goes(s, next)
    BY <1>1, <1>2
  <1> QED
    BY <1>1, <1>3, GoesMoves DEF Labels

LEMMA WaitForExitMoves ==
  ASSUME UpdateTyped, NEW s, WaitForExit(s)
  PROVE  Moved2(s) /\ scripts'[s].at \in {"wait", "clear", "cleanup"}
  <1>1. At(s, "wait") /\ Fine /\ ScriptOnly
    BY DEF WaitForExit
  <1>2. CASE Goes(s, "clear")
    BY <1>1, <1>2, GoesMoves DEF Labels
  <1>3. CASE scripts' = [scripts EXCEPT ![s] = Tried(@)]
    <2>1. s \in DOMAIN scripts /\ Alive(s) /\ scripts[s].at = "wait" /\ scripts \in Scripts2
      BY <1>1 DEF At, Alive, UpdateTyped, Scripts2
    <2> QED
      BY <1>1, <1>3, <2>1, ScriptTries, FaultIsOneMore DEF Moved2, ScriptOnly
  <1> QED
    BY <1>2, <1>3 DEF WaitForExit

LEMMA StepMoves == ASSUME UpdateTyped, NEW s, ScriptStep(s) PROVE Moved2(s)
  BY TakeBackupMoves, WaitForExitMoves, ClearOldMoves, MoveAsideMoves, CopyNewMoves, TidyMoves,
     DropNewMoves, PutBackMoves, RestoreLauncherMoves, StartAppMoves, CleanupMoves DEF ScriptStep

-----------------------------------------------------------------------------
(* A command of the script: types.                                          *)

\* What the script writes in the folder and in WORK are versions it found there.
Writes2 ==
  /\ folder' \in [exe : Trees, rt : Runtimes, old : Runtimes]
  /\ work' \in [there : BOOLEAN, tree : Trees, backup : Trees]
  /\ app' \in {app, folder.rt} \cap Trees
  /\ folder'.rt \in {folder.rt, folder.old, work.tree, "none", "part"}
  /\ folder'.old \in {folder.rt, folder.old, "none", "part"}
  /\ work'.tree \in {work.tree, "none"}

LEMMA NothingIsNoVersion ==
  ASSUME UpdateTyped
  PROVE  NoWork \in [there : BOOLEAN, tree : Trees, backup : Trees] /\ NoWork.tree = "none"
         /\ NoWork.backup = "none" /\ NoWork.there = FALSE
  BY DEF NoWork, Trees

LEMMA TakeBackupWrites == ASSUME UpdateTyped, NEW s, TakeBackup(s) PROVE Writes2
  BY NothingIsNoVersion DEF UpdateTyped, TakeBackup, Writes2, Trees, Runtimes

LEMMA WaitForExitWrites == ASSUME UpdateTyped, NEW s, WaitForExit(s) PROVE Writes2
  BY NothingIsNoVersion DEF UpdateTyped, WaitForExit, Writes2, Trees, Runtimes

LEMMA ClearOldWrites == ASSUME UpdateTyped, NEW s, ClearOld(s) PROVE Writes2
  BY NothingIsNoVersion DEF UpdateTyped, ClearOld, Writes2, Trees, Runtimes

LEMMA MoveAsideWrites == ASSUME UpdateTyped, NEW s, MoveAside(s) PROVE Writes2
  BY NothingIsNoVersion DEF UpdateTyped, MoveAside, Writes2, Trees, Runtimes

LEMMA CopyNewWrites == ASSUME UpdateTyped, NEW s, CopyNew(s) PROVE Writes2
  <1>1. /\ UNCHANGED <<app, work>>
        /\ folder' \in {folder, [folder EXCEPT !.exe = work.tree], [folder EXCEPT !.rt = "part"],
                       [folder EXCEPT !.rt = work.tree]}
    BY DEF CopyNew, Copied
  <1> QED
    BY <1>1 DEF UpdateTyped, Writes2, Trees, Runtimes

LEMMA TidyWrites == ASSUME UpdateTyped, NEW s, Tidy(s) PROVE Writes2
  BY NothingIsNoVersion DEF UpdateTyped, Tidy, Writes2, Trees, Runtimes

LEMMA DropNewWrites == ASSUME UpdateTyped, NEW s, DropNew(s) PROVE Writes2
  BY NothingIsNoVersion DEF UpdateTyped, DropNew, Writes2, Trees, Runtimes

LEMMA PutBackWrites == ASSUME UpdateTyped, NEW s, PutBack(s) PROVE Writes2
  BY NothingIsNoVersion DEF UpdateTyped, PutBack, Writes2, Trees, Runtimes

LEMMA RestoreLauncherWrites == ASSUME UpdateTyped, NEW s, RestoreLauncher(s) PROVE Writes2
  BY NothingIsNoVersion DEF UpdateTyped, RestoreLauncher, Writes2, Trees, Runtimes

LEMMA StartAppWrites == ASSUME UpdateTyped, NEW s, StartApp(s) PROVE Writes2
  BY NothingIsNoVersion DEF UpdateTyped, StartApp, Writes2, Trees, Runtimes, Startable

LEMMA CleanupWrites == ASSUME UpdateTyped, NEW s, Cleanup(s) PROVE Writes2
  BY NothingIsNoVersion DEF UpdateTyped, Cleanup, Writes2, Trees, Runtimes

LEMMA StepWrites == ASSUME UpdateTyped, NEW s, ScriptStep(s) PROVE Writes2
  BY TakeBackupWrites, WaitForExitWrites, ClearOldWrites, MoveAsideWrites, CopyNewWrites, TidyWrites,
     DropNewWrites, PutBackWrites, RestoreLauncherWrites, StartAppWrites, CleanupWrites DEF ScriptStep

LEMMA StepTyped == ASSUME UpdateTyped, NEW s, ScriptStep(s) PROVE UpdateTyped'
  BY StepMoves, StepWrites DEF UpdateTyped, Moved2, Writes2, Scripts2, offerVars, installVars

\* A program that runs stays, and it is the only script at work.
LEMMA StepKeepsOne ==
  ASSUME UpdateTyped, NeedsProgram, OneScript, NEW s, ScriptStep(s)
  PROVE  NeedsProgram' /\ OneScript'
  <1>1. Moved2(s)
    BY StepMoves
  <1>2. app' = "none" => app = "none"
    BY DEF ScriptStep, TakeBackup, WaitForExit, ClearOld, MoveAside, CopyNew, Tidy, DropNew, PutBack,
           RestoreLauncher, StartApp, Cleanup
  <1>3. NeedsProgram'
    BY <1>1, <1>2 DEF NeedsProgram, Moved2, offerVars, installVars
  <1>4. \A t \in DOMAIN scripts : Alive(t)' => Alive(t)
    BY <1>1 DEF Moved2, Alive
  <1>5. Waiting
    BY <1>1 DEF Moved2, Alive, Waiting, At
  <1>6. OneScript'
    BY <1>1, <1>4, <1>5 DEF OneScript, Moved2, Preparing, installVars
  <1> QED
    BY <1>3, <1>6

\* The versions the script moves about are not older than the one there was.
LEMMA StepAscends ==
  ASSUME UpdateTyped, OneScript, Ascends, NEW s, ScriptStep(s)
  PROVE  Ascends'
  <1>1. Moved2(s) /\ Writes2
    BY StepMoves, StepWrites
  <1>2. Waiting
    BY <1>1 DEF Moved2, Alive, Waiting, At
  <1>3. SUFFICES ASSUME Declared, ~mishaps.robbed
                 PROVE  Ascends'
    BY <1>1 DEF Ascends, Moved2, Declared
  <1>4. ~Preparing
    BY <1>2, <1>3 DEF OneScript
  <1>5. \A v \in {folder.rt, folder.old, work.tree, app, "none", "part"} : NewEnough(v)
    BY <1>2, <1>3, VersionsAreTexts DEF Ascends, NewEnough
  <1>6. NewEnough(folder'.rt) /\ NewEnough(folder'.old) /\ NewEnough(app') /\ NewEnough(work'.tree)
    BY <1>1, <1>5 DEF Writes2
  <1>7. banner' # NoRelease => IsNewer(banner'.version, Current)
    BY <1>1, <1>3 DEF Ascends, Moved2, offerVars
  <1>8. stage' \notin {"download", "check", "launch"}
    BY <1>1, <1>4 DEF Moved2, installVars, Preparing
  <1> QED
    BY <1>6, <1>7, <1>8 DEF Ascends, NewEnough

-----------------------------------------------------------------------------
(* A command of the script: what the folder and WORK hold.                  *)

\* A launcher and a runtime are somewhere.
Present ==
  /\ folder.exe \in Versions \/ work.backup \in Versions \/ work.tree \in Versions
  /\ folder.rt \in Versions \/ folder.old \in Versions \/ work.tree \in Versions

LEMMA PresentIsThere == ASSUME Present' PROVE StillThere'
  <1>1. Versions \cap {folder'.exe, work'.backup, work'.tree} # {}
    BY DEF Present
  <1>2. Versions \cap {folder'.rt, folder'.old, work'.tree} # {}
    BY DEF Present
  <1> QED
    BY <1>1, <1>2 DEF StillThere

LEMMA EndedFits == ASSUME NEW at, at = "ended" PROVE Fits(at)'
  BY DEF Fits

\* All that is to be seen of a command: where s gets, and what is there then.
Holds2(at) ==
  Ordinary => /\ Fits(at) /\ Present /\ (app # "none" => Bootable)
              /\ at = "ended" /\ ~mishaps.crashed => Bootable /\ Matched

LEMMA Recovers ==
  ASSUME UpdateTyped, OneScript, NEW s, Moved2(s), Holds2(scripts[s].at)'
  PROVE  Recoverable'
  <1>1. SUFFICES ASSUME Ordinary'
                 PROVE  Recoverable'
    BY DEF Recoverable
  <1>2. ~mishaps.robbed /\ Alive(s)
    BY <1>1 DEF Ordinary, Moved2
  <1>3. Waiting /\ ~Preparing
    BY <1>2 DEF OneScript, Alive, Waiting, At
  <1>4. ~Preparing' /\ stage' # "launch"
    BY <1>3 DEF Moved2, Preparing, installVars
  <1>5. Fits(scripts[s].at)' /\ Present' /\ (app' # "none" => Bootable')
    BY <1>1 DEF Holds2
  <1>6. s \in DOMAIN scripts' /\ (~Waiting' => scripts'[s].at = "ended")
    BY <1>2 DEF Moved2, Alive, Waiting, At
  <1>7. ~Waiting' /\ ~mishaps'.crashed => Bootable' /\ Matched'
    BY <1>1, <1>6 DEF Holds2
  <1>8. \A t \in DOMAIN scripts' : t # s => scripts'[t].at = "ended"
    BY <1>2 DEF OneScript, Moved2, Alive
  <1>9. \A t \in DOMAIN scripts' : Fits(scripts[t].at)'
    BY <1>5, <1>8, EndedFits
  <1>10. StillThere'
    BY <1>5, PresentIsThere
  <1> QED
    BY <1>4, <1>5, <1>7, <1>9, <1>10 DEF Recoverable

\* Where a command sends its script.
LEMMA GoesThere ==
  ASSUME UpdateTyped, NEW s \in DOMAIN scripts, NEW next, Goes(s, next)
  PROVE  scripts'[s].at = next
  <1>1. scripts[s] \in [at : Labels, tries : Nat]
    BY ScriptIsTyped DEF UpdateTyped, Scripts2
  <1> QED
    BY <1>1 DEF Goes

\* What is known of a script that is at work at a command.
LEMMA FitsNow ==
  ASSUME Recoverable, NEW s, Alive(s), Ordinary
  PROVE  Fits(scripts[s].at) /\ (app # "none" => Bootable)
  BY DEF Recoverable, Alive

LEMMA TakeBackupRecovers ==
  ASSUME UpdateTyped, OneScript, Recoverable, NEW s, TakeBackup(s)
  PROVE  Recoverable'
  <1>1. Moved2(s) /\ scripts[s].at = "backup" /\ At(s, "backup")
    BY TakeBackupMoves DEF TakeBackup, At
  <1>2. Ordinary' => Ordinary
    BY <1>1 DEF Ordinary, Moved2, UpdateTyped
  <1>3. Ordinary' => Fits("backup") /\ (app # "none" => Bootable)
    BY <1>1, <1>2, FitsNow DEF Moved2
  <1>4. scripts'[s].at = IF work'.backup = "none" THEN "cleanup" ELSE "wait"
    BY <1>1, GoesThere DEF TakeBackup, At
  <1>5. Holds2(scripts[s].at)'
    BY <1>1, <1>3, <1>4, NothingIsNoVersion, VersionsAreTexts
       DEF UpdateTyped, TakeBackup, Moved2, Holds2, Fits, Present, Ordinary, Bootable, Matched, Stocked, Was, Trees, Runtimes
  <1> QED
    BY <1>1, <1>5, Recovers

LEMMA ClearOldRecovers ==
  ASSUME UpdateTyped, OneScript, Recoverable, NEW s, ClearOld(s)
  PROVE  Recoverable'
  <1>1. Moved2(s) /\ scripts[s].at = "clear" /\ At(s, "clear")
    BY ClearOldMoves DEF ClearOld, At
  <1>2. Ordinary' => Ordinary
    BY <1>1 DEF Ordinary, Moved2, UpdateTyped
  <1>3. Ordinary' => Fits("clear") /\ (app # "none" => Bootable)
    BY <1>1, <1>2, FitsNow DEF Moved2
  <1>4. scripts'[s].at = "aside"
    BY <1>1, GoesThere DEF ClearOld, At
  <1>5. CASE Fault
    <2>1. mishaps'.faults = mishaps.faults + 1 /\ mishaps.faults \in Nat /\ ~Fine
      BY <1>5 DEF Fault, Fine, UpdateTyped
    <2>2. Ordinary' => mishaps.faults = 0
      BY <2>1 DEF Ordinary
    <2>3. folder' = [folder EXCEPT !.old = "part"] /\ UNCHANGED <<app, work>>
      BY <2>1 DEF ClearOld
    <2>4. Holds2(scripts[s].at)'
      BY <1>1, <1>3, <1>4, <2>1, <2>3
         DEF UpdateTyped, Moved2, Holds2, Fits, Present, Ordinary, Bootable, Matched, Stocked, Was, Trees, Runtimes
    <2> QED
      BY <1>1, <2>4, Recovers
  <1>6. CASE Fine
    <2>1. UNCHANGED mishaps /\ ~Fault
      BY <1>6 DEF Fine, Fault, UpdateTyped
    <2>2. Holds2(scripts[s].at)'
      BY <1>1, <1>3, <1>4, <2>1, VersionsAreTexts
         DEF UpdateTyped, ClearOld, Moved2, Holds2, Fits, Present, Ordinary, Bootable, Matched, Stocked, Was, Trees, Runtimes
    <2> QED
      BY <1>1, <2>2, Recovers
  <1> QED
    BY <1>5, <1>6 DEF ClearOld

LEMMA MoveAsideRecovers ==
  ASSUME UpdateTyped, OneScript, Recoverable, NEW s, MoveAside(s)
  PROVE  Recoverable'
  <1>1. Moved2(s) /\ scripts[s].at = "aside" /\ At(s, "aside")
    BY MoveAsideMoves DEF MoveAside, At
  <1>2. Ordinary' => Ordinary
    BY <1>1 DEF Ordinary, Moved2, UpdateTyped
  <1>3. Ordinary' => Fits("aside") /\ (app # "none" => Bootable)
    BY <1>1, <1>2, FitsNow DEF Moved2
  <1>4. scripts'[s].at = IF folder'.rt # "none" THEN "restore" ELSE "launcher"
    BY <1>1, GoesThere DEF MoveAside, At
  <1>5. CASE Fault
    <2>1. mishaps'.faults = mishaps.faults + 1 /\ mishaps.faults \in Nat /\ ~Fine
      BY <1>5 DEF Fault, Fine, UpdateTyped
    <2>2. Ordinary' => mishaps.faults = 0
      BY <2>1 DEF Ordinary
    <2>3. Holds2(scripts[s].at)'
      BY <1>1, <1>3, <1>4, <1>5, <2>1, <2>2, VersionsAreTexts
         DEF UpdateTyped, MoveAside, Moved2, Holds2, Fits, Present, Ordinary, Bootable, Matched, Stocked, Was, Trees, Runtimes
    <2> QED
      BY <1>1, <2>3, Recovers
  <1>6. CASE Fine
    <2>1. UNCHANGED mishaps /\ ~Fault
      BY <1>6 DEF Fine, Fault, UpdateTyped
    <2>2. Holds2(scripts[s].at)'
      BY <1>1, <1>3, <1>4, <2>1, VersionsAreTexts
         DEF UpdateTyped, MoveAside, Moved2, Holds2, Fits, Present, Ordinary, Bootable, Matched, Stocked, Was, Trees, Runtimes
    <2> QED
      BY <1>1, <2>2, Recovers
  <1> QED
    BY <1>5, <1>6 DEF MoveAside

LEMMA TidyRecovers ==
  ASSUME UpdateTyped, OneScript, Recoverable, NEW s, Tidy(s)
  PROVE  Recoverable'
  <1>1. Moved2(s) /\ scripts[s].at = "tidy" /\ At(s, "tidy")
    BY TidyMoves DEF Tidy, At
  <1>2. Ordinary' => Ordinary
    BY <1>1 DEF Ordinary, Moved2, UpdateTyped
  <1>3. Ordinary' => Fits("tidy") /\ (app # "none" => Bootable)
    BY <1>1, <1>2, FitsNow DEF Moved2
  <1>4. scripts'[s].at = "start"
    BY <1>1, GoesThere DEF Tidy, At
  <1>5. CASE Fault
    <2>1. mishaps'.faults = mishaps.faults + 1 /\ mishaps.faults \in Nat /\ ~Fine
      BY <1>5 DEF Fault, Fine, UpdateTyped
    <2>2. Ordinary' => mishaps.faults = 0
      BY <2>1 DEF Ordinary
    <2>3. Holds2(scripts[s].at)'
      BY <1>1, <1>3, <1>4, <1>5, <2>1, <2>2, VersionsAreTexts
         DEF UpdateTyped, Tidy, Moved2, Holds2, Fits, Present, Ordinary, Bootable, Matched, Stocked, Was, Trees, Runtimes
    <2> QED
      BY <1>1, <2>3, Recovers
  <1>6. CASE Fine
    <2>1. UNCHANGED mishaps /\ ~Fault
      BY <1>6 DEF Fine, Fault, UpdateTyped
    <2>2. Holds2(scripts[s].at)'
      BY <1>1, <1>3, <1>4, <2>1, VersionsAreTexts
         DEF UpdateTyped, Tidy, Moved2, Holds2, Fits, Present, Ordinary, Bootable, Matched, Stocked, Was, Trees, Runtimes
    <2> QED
      BY <1>1, <2>2, Recovers
  <1> QED
    BY <1>5, <1>6 DEF Tidy

LEMMA DropNewRecovers ==
  ASSUME UpdateTyped, OneScript, Recoverable, NEW s, DropNew(s)
  PROVE  Recoverable'
  <1>1. Moved2(s) /\ scripts[s].at = "undo" /\ At(s, "undo")
    BY DropNewMoves DEF DropNew, At
  <1>2. Ordinary' => Ordinary
    BY <1>1 DEF Ordinary, Moved2, UpdateTyped
  <1>3. Ordinary' => Fits("undo") /\ (app # "none" => Bootable)
    BY <1>1, <1>2, FitsNow DEF Moved2
  <1>4. scripts'[s].at = "back"
    BY <1>1, GoesThere DEF DropNew, At
  <1>5. CASE Fault
    <2>1. mishaps'.faults = mishaps.faults + 1 /\ mishaps.faults \in Nat /\ ~Fine
      BY <1>5 DEF Fault, Fine, UpdateTyped
    <2>2. Ordinary' => mishaps.faults = 0
      BY <2>1 DEF Ordinary
    <2>3. Holds2(scripts[s].at)'
      BY <1>1, <1>3, <1>4, <1>5, <2>1, <2>2, VersionsAreTexts
         DEF UpdateTyped, DropNew, Moved2, Holds2, Fits, Present, Ordinary, Bootable, Matched, Stocked, Was, Trees, Runtimes
    <2> QED
      BY <1>1, <2>3, Recovers
  <1>6. CASE Fine
    <2>1. UNCHANGED mishaps /\ ~Fault
      BY <1>6 DEF Fine, Fault, UpdateTyped
    <2>2. Holds2(scripts[s].at)'
      BY <1>1, <1>3, <1>4, <2>1, VersionsAreTexts
         DEF UpdateTyped, DropNew, Moved2, Holds2, Fits, Present, Ordinary, Bootable, Matched, Stocked, Was, Trees, Runtimes
    <2> QED
      BY <1>1, <2>2, Recovers
  <1> QED
    BY <1>5, <1>6 DEF DropNew

LEMMA PutBackRecovers ==
  ASSUME UpdateTyped, OneScript, Recoverable, NEW s, PutBack(s)
  PROVE  Recoverable'
  <1>1. Moved2(s) /\ scripts[s].at = "back" /\ At(s, "back")
    BY PutBackMoves DEF PutBack, At
  <1>2. Ordinary' => Ordinary
    BY <1>1 DEF Ordinary, Moved2, UpdateTyped
  <1>3. Ordinary' => Fits("back") /\ (app # "none" => Bootable)
    BY <1>1, <1>2, FitsNow DEF Moved2
  <1>4. scripts'[s].at = "restore"
    BY <1>1, GoesThere DEF PutBack, At
  <1>5. CASE Fault
    <2>1. mishaps'.faults = mishaps.faults + 1 /\ mishaps.faults \in Nat /\ ~Fine
      BY <1>5 DEF Fault, Fine, UpdateTyped
    <2>2. Ordinary' => mishaps.faults = 0
      BY <2>1 DEF Ordinary
    <2>3. Holds2(scripts[s].at)'
      BY <1>1, <1>3, <1>4, <1>5, <2>1, <2>2, VersionsAreTexts
         DEF UpdateTyped, PutBack, Moved2, Holds2, Fits, Present, Ordinary, Bootable, Matched, Stocked, Was, Trees, Runtimes
    <2> QED
      BY <1>1, <2>3, Recovers
  <1>6. CASE Fine
    <2>1. UNCHANGED mishaps /\ ~Fault
      BY <1>6 DEF Fine, Fault, UpdateTyped
    <2>2. Holds2(scripts[s].at)'
      BY <1>1, <1>3, <1>4, <2>1, VersionsAreTexts
         DEF UpdateTyped, PutBack, Moved2, Holds2, Fits, Present, Ordinary, Bootable, Matched, Stocked, Was, Trees, Runtimes
    <2> QED
      BY <1>1, <2>2, Recovers
  <1> QED
    BY <1>5, <1>6 DEF PutBack

LEMMA RestoreLauncherRecovers ==
  ASSUME UpdateTyped, OneScript, Recoverable, NEW s, RestoreLauncher(s)
  PROVE  Recoverable'
  <1>1. Moved2(s) /\ scripts[s].at = "restore" /\ At(s, "restore")
    BY RestoreLauncherMoves DEF RestoreLauncher, At
  <1>2. Ordinary' => Ordinary
    BY <1>1 DEF Ordinary, Moved2, UpdateTyped
  <1>3. Ordinary' => Fits("restore") /\ (app # "none" => Bootable)
    BY <1>1, <1>2, FitsNow DEF Moved2
  <1>4. scripts'[s].at = "start"
    BY <1>1, GoesThere DEF RestoreLauncher, At
  <1>5. CASE Fault
    <2>1. mishaps'.faults = mishaps.faults + 1 /\ mishaps.faults \in Nat /\ ~Fine
      BY <1>5 DEF Fault, Fine, UpdateTyped
    <2>2. Ordinary' => mishaps.faults = 0
      BY <2>1 DEF Ordinary
    <2>3. Holds2(scripts[s].at)'
      BY <1>1, <1>3, <1>4, <1>5, <2>1, <2>2, VersionsAreTexts
         DEF UpdateTyped, RestoreLauncher, Moved2, Holds2, Fits, Present, Ordinary, Bootable, Matched, Stocked, Was, Trees, Runtimes
    <2> QED
      BY <1>1, <2>3, Recovers
  <1>6. CASE Fine
    <2>1. UNCHANGED mishaps /\ ~Fault
      BY <1>6 DEF Fine, Fault, UpdateTyped
    <2>2. Holds2(scripts[s].at)'
      BY <1>1, <1>3, <1>4, <2>1, VersionsAreTexts
         DEF UpdateTyped, RestoreLauncher, Moved2, Holds2, Fits, Present, Ordinary, Bootable, Matched, Stocked, Was, Trees, Runtimes
    <2> QED
      BY <1>1, <2>2, Recovers
  <1> QED
    BY <1>5, <1>6 DEF RestoreLauncher

LEMMA StartAppRecovers ==
  ASSUME UpdateTyped, OneScript, Recoverable, NEW s, StartApp(s)
  PROVE  Recoverable'
  <1>1. Moved2(s) /\ scripts[s].at = "start" /\ At(s, "start")
    BY StartAppMoves DEF StartApp, At
  <1>2. Ordinary' => Ordinary
    BY <1>1 DEF Ordinary, Moved2, UpdateTyped
  <1>3. Ordinary' => Fits("start") /\ (app # "none" => Bootable)
    BY <1>1, <1>2, FitsNow DEF Moved2
  <1>4. scripts'[s].at = "cleanup"
    BY <1>1, GoesThere DEF StartApp, At
  <1>5. Holds2(scripts[s].at)'
    BY <1>1, <1>3, <1>4, NothingIsNoVersion, VersionsAreTexts
       DEF UpdateTyped, StartApp, Moved2, Holds2, Fits, Present, Ordinary, Bootable, Matched, Stocked, Was, Trees, Runtimes, Startable
  <1> QED
    BY <1>1, <1>5, Recovers

LEMMA CleanupRecovers ==
  ASSUME UpdateTyped, OneScript, Recoverable, NEW s, Cleanup(s)
  PROVE  Recoverable'
  <1>1. Moved2(s) /\ scripts[s].at = "cleanup" /\ At(s, "cleanup")
    BY CleanupMoves DEF Cleanup, At
  <1>2. Ordinary' => Ordinary
    BY <1>1 DEF Ordinary, Moved2, UpdateTyped
  <1>3. Ordinary' => Fits("cleanup") /\ (app # "none" => Bootable)
    BY <1>1, <1>2, FitsNow DEF Moved2
  <1>4. scripts'[s].at = "ended"
    BY <1>1, GoesThere DEF Cleanup, At
  <1>5. Holds2(scripts[s].at)'
    BY <1>1, <1>3, <1>4, NothingIsNoVersion, VersionsAreTexts
       DEF UpdateTyped, Cleanup, Moved2, Holds2, Fits, Present, Ordinary, Bootable, Matched, Stocked, Was, Trees, Runtimes
  <1> QED
    BY <1>1, <1>5, Recovers

LEMMA WaitForExitRecovers ==
  ASSUME UpdateTyped, OneScript, Recoverable, NEW s, WaitForExit(s)
  PROVE  Recoverable'
  <1>1. Moved2(s) /\ scripts[s].at = "wait" /\ s \in DOMAIN scripts /\ UNCHANGED <<app, work, mishaps>>
    BY WaitForExitMoves DEF WaitForExit, At, Fine
  <1>2. Ordinary' => Ordinary
    BY <1>1 DEF Ordinary
  <1>3. Ordinary' => Fits("wait") /\ (app # "none" => Bootable)
    BY <1>1, <1>2, FitsNow DEF Moved2
  <1>4. CASE app = "none" /\ folder' = [folder EXCEPT !.exe = "none"] /\ Goes(s, "clear")
    <2>1. scripts'[s].at = "clear"
      BY <1>1, <1>4, GoesThere
    <2>2. Holds2(scripts[s].at)'
      BY <1>1, <1>3, <1>4, <2>1 DEF UpdateTyped, Holds2, Fits, Present, Ordinary, Bootable, Matched,
         Stocked, Was, Trees, Runtimes
    <2> QED
      BY <1>1, <2>2, Recovers
  <1>5. CASE UNCHANGED folder /\ scripts' = [scripts EXCEPT ![s] = Tried(@)]
    <2>1. scripts'[s].at \in {"wait", "cleanup"}
      BY <1>1, <1>5, ScriptTries DEF UpdateTyped, Scripts2
    <2>2. Holds2(scripts[s].at)'
      BY <1>1, <1>3, <1>5, <2>1 DEF UpdateTyped, Holds2, Fits, Present, Ordinary, Bootable, Matched,
         Stocked, Was, Trees, Runtimes
    <2> QED
      BY <1>1, <2>2, Recovers
  <1> QED
    BY <1>4, <1>5 DEF WaitForExit

LEMMA CopyNewRecovers ==
  ASSUME UpdateTyped, OneScript, Recoverable, NEW s, CopyNew(s)
  PROVE  Recoverable'
  <1>1. Moved2(s) /\ UNCHANGED <<app, work>>
    BY CopyNewMoves DEF CopyNew
  <1>2. Ordinary' => Ordinary
    BY <1>1 DEF Ordinary, Moved2, UpdateTyped
  <1>3. PICK part \in {"launcher", "runtime", "rest"} :
          /\ At(s, part)
          /\ \/ /\ work.tree # "none" /\ Fine /\ Goes(s, Copied[part])
                /\ folder' = CASE part = "launcher" -> [folder EXCEPT !.exe = work.tree]
                               [] part = "runtime"  -> [folder EXCEPT !.rt = "part"]
                               [] part = "rest"     -> [folder EXCEPT !.rt = work.tree]
             \/ /\ IF work.tree = "none" THEN Fine ELSE Fault
                /\ Goes(s, "undo") /\ UNCHANGED folder
    BY DEF CopyNew, Copied
  <1>4. s \in DOMAIN scripts /\ scripts[s].at = part
    BY <1>3 DEF At
  <1>5. Ordinary' => Fits(part) /\ (app # "none" => Bootable)
    BY <1>1, <1>2, <1>4, FitsNow DEF Moved2
  <1>6. CASE Goes(s, "undo") /\ UNCHANGED folder /\ (work.tree # "none" => Fault)
    <2>1. scripts'[s].at = "undo"
      BY <1>4, <1>6, GoesThere
    <2>2. Ordinary' => work.tree = "none" \/ (mishaps'.faults > 0 /\ mishaps.faults = 0)
      BY <1>6 DEF Fault, Ordinary, UpdateTyped
    <2>3. Holds2(scripts[s].at)'
      BY <1>1, <1>3, <1>5, <2>1, <2>2, <1>6, VersionsAreTexts
         DEF UpdateTyped, Moved2, Holds2, Fits, Present, Ordinary, Bootable, Matched, Stocked, Was,
             Trees, Runtimes
    <2> QED
      BY <1>1, <2>3, Recovers
  <1>7. CASE /\ work.tree # "none" /\ Goes(s, Copied[part])
             /\ folder' = CASE part = "launcher" -> [folder EXCEPT !.exe = work.tree]
                            [] part = "runtime"  -> [folder EXCEPT !.rt = "part"]
                            [] part = "rest"     -> [folder EXCEPT !.rt = work.tree]
    <2>1. scripts'[s].at = CASE part = "launcher" -> "runtime"
                             [] part = "runtime"  -> "rest"
                             [] part = "rest"     -> "tidy"
      BY <1>3, <1>4, <1>7, GoesThere DEF Copied
    <2>2. Holds2(scripts[s].at)'
      <3>1. CASE part = "launcher"
        BY <1>1, <1>5, <1>7, <2>1, <3>1, VersionsAreTexts
           DEF UpdateTyped, Moved2, Holds2, Fits, Present, Ordinary, Bootable, Matched, Stocked, Was, Trees, Runtimes
      <3>2. CASE part = "runtime"
        BY <1>1, <1>5, <1>7, <2>1, <3>2, VersionsAreTexts
           DEF UpdateTyped, Moved2, Holds2, Fits, Present, Ordinary, Bootable, Matched, Stocked, Was, Trees, Runtimes
      <3>3. CASE part = "rest"
        BY <1>1, <1>5, <1>7, <2>1, <3>3, VersionsAreTexts
           DEF UpdateTyped, Moved2, Holds2, Fits, Present, Ordinary, Bootable, Matched, Stocked, Was, Trees, Runtimes
      <3> QED
        BY <1>3, <3>1, <3>2, <3>3
    <2> QED
      BY <1>1, <2>2, Recovers
  <1> QED
    BY <1>3, <1>6, <1>7

LEMMA StepRecovers ==
  ASSUME UpdateTyped, OneScript, Recoverable, NEW s, ScriptStep(s)
  PROVE  Recoverable'
  BY TakeBackupRecovers, WaitForExitRecovers, ClearOldRecovers, MoveAsideRecovers, CopyNewRecovers,
     TidyRecovers, DropNewRecovers, PutBackRecovers, RestoreLauncherRecovers, StartAppRecovers,
     CleanupRecovers DEF ScriptStep

-----------------------------------------------------------------------------
(* The window: checking, preparing an update, leaving.                      *)

\* Nothing that the folder's state is judged by changes.
SameFiles == UNCHANGED <<folder, scripts, mishaps>>

LEMMA FilesKeep ==
  ASSUME UpdateTyped, Recoverable, OneScript, SameFiles,
         Ordinary => /\ StillThere'
                     /\ app' # "none" => app # "none"
                     /\ Preparing' => work'.backup = "none"
                     /\ Preparing' \/ UNCHANGED work
                     /\ stage' = "launch" /\ work'.there => work'.tree \in Versions
                     /\ Preparing' => ~Waiting
  PROVE  Recoverable'
  <1>1. Ordinary' = Ordinary /\ Bootable' = Bootable /\ Matched' = Matched /\ Waiting' = Waiting
    BY DEF SameFiles, Ordinary, Bootable, Matched, Waiting, At
  <1>2. SUFFICES ASSUME Ordinary
                 PROVE  Recoverable'
    BY <1>1 DEF Recoverable
  <1>3. (app' # "none" => Bootable') /\ (~Waiting' /\ ~mishaps'.crashed => Bootable' /\ Matched')
    BY <1>1, <1>2 DEF Recoverable, SameFiles
  <1>4. \A s \in DOMAIN scripts' : Fits(scripts[s].at)'
    <2>1. CASE Preparing'
      <3>1. \A s \in DOMAIN scripts : scripts[s].at = "ended"
        BY <1>2, <2>1 DEF Waiting, At
      <3> QED
        BY <3>1, EndedFits DEF SameFiles
    <2>2. CASE UNCHANGED work
      <3>1. \A s \in DOMAIN scripts : Fits(scripts[s].at)
        BY <1>2 DEF Recoverable
      <3>2. ASSUME NEW s \in DOMAIN scripts'
            PROVE  Fits(scripts[s].at)'
        <4>1. Fits(scripts[s].at)
          BY <3>1 DEF SameFiles
        <4> QED
          BY <4>1, <2>2 DEF SameFiles, Fits, Bootable, Matched, Stocked, Was
      <3> QED
        BY <3>2
    <2> QED
      BY <1>2, <2>1, <2>2
  <1> QED
    BY <1>2, <1>3, <1>4 DEF Recoverable

LEMMA BootableIsThere == ASSUME Bootable' PROVE StillThere'
  BY PresentIsThere DEF Bootable, Present

LEMMA CheckKeeps ==
  ASSUME UpdateInv, StartupCheck \/ CheckNow \/ ToggleCheck
  PROVE  UpdateInv'
  <1>1. /\ UNCHANGED <<banner, app, installVars, folder, work, scripts, mishaps>>
        /\ looking' \in BOOLEAN /\ app # "none"
    BY DEF UpdateInv, UpdateTyped, StartupCheck, CheckNow, ToggleCheck
  <1>2. UpdateTyped'
    BY <1>1 DEF UpdateInv, UpdateTyped, installVars
  <1>3. NeedsProgram' /\ OneScript'
    BY <1>1 DEF UpdateInv, NeedsProgram, OneScript, Alive, Preparing, Waiting, At, installVars
  <1>4. Recoverable'
    <2>1. Ordinary => StillThere'
      BY <1>1 DEF UpdateInv, Recoverable, StillThere, Ordinary
    <2> QED
      BY <1>1, <2>1, FilesKeep DEF UpdateInv, SameFiles, Preparing, installVars, Recoverable, OneScript, Ordinary
  <1>5. Ascends'
    BY <1>1 DEF UpdateInv, Ascends, NewEnough, Waiting, At, installVars
  <1> QED
    BY <1>2, <1>3, <1>4, <1>5 DEF UpdateInv

LEMMA CheckDoneKeeps ==
  ASSUME UpdateInv, CheckDone
  PROVE  UpdateInv'
  <1>1. /\ UNCHANGED <<app, installVars, folder, work, scripts, mishaps>>
        /\ looking /\ looking' = FALSE
        /\ \/ banner' = banner
           \/ banner' \in Offers /\ IsNewer(banner'.version, app)
    BY DEF CheckDone
  <1>2. app \in Versions
    BY <1>1 DEF UpdateInv, UpdateTyped, NeedsProgram, Trees
  <1>3. UpdateTyped'
    BY <1>1 DEF UpdateInv, UpdateTyped, installVars
  <1>4. NeedsProgram' /\ OneScript'
    BY <1>1 DEF UpdateInv, NeedsProgram, OneScript, Alive, Preparing, Waiting, At, installVars
  <1>5. Recoverable'
    <2>1. Ordinary => StillThere'
      BY <1>1 DEF UpdateInv, Recoverable, StillThere, Ordinary
    <2> QED
      BY <1>1, <2>1, FilesKeep DEF UpdateInv, SameFiles, Preparing, installVars, Recoverable, OneScript, Ordinary
  <1>6. ASSUME Declared, ~mishaps.robbed, banner' # NoRelease
        PROVE  IsNewer(banner'.version, Current)
    <2>1. CASE banner' = banner
      BY <1>6, <2>1 DEF UpdateInv, Ascends
    <2>2. CASE banner' \in Offers /\ IsNewer(banner'.version, app)
      <3>1. banner'.version \in Versions /\ Current \in Versions
        BY <2>2, OffersAreReleases, VersionsAreTexts
      <3>2. app = Current \/ IsNewer(app, Current)
        BY <1>2, <1>6 DEF UpdateInv, Ascends, NewEnough
      <3> QED
        BY <1>2, <2>2, <3>1, <3>2, NewerOfNewer
    <2> QED
      BY <1>1, <2>1, <2>2
  <1>7. Ascends'
    BY <1>1, <1>6 DEF UpdateInv, Ascends, NewEnough, Waiting, At, installVars, Declared
  <1> QED
    BY <1>3, <1>4, <1>5, <1>7 DEF UpdateInv

LEMMA InstallKeeps ==
  ASSUME UpdateInv, Install
  PROVE  UpdateInv'
  <1>1. /\ app # "none" /\ stage = "idle" /\ banner # NoRelease /\ PickAsset(banner.assets) # 0
        /\ stage' = "download" /\ chosen' = banner /\ work' = [NoWork EXCEPT !.there = TRUE]
        /\ mishaps' = [mishaps EXCEPT !.robbed = @ \/ Waiting]
        /\ UNCHANGED <<offerVars, app, folder, scripts>>
    BY DEF Install, CanInstall
  <1>2. /\ mishaps' \in [faults : Nat, crashed : BOOLEAN, robbed : BOOLEAN]
        /\ mishaps'.faults = mishaps.faults /\ mishaps'.crashed = mishaps.crashed
        /\ ~mishaps'.robbed => ~mishaps.robbed /\ ~Waiting
    BY <1>1 DEF UpdateInv, UpdateTyped, Waiting
  <1>3. work' \in [there : BOOLEAN, tree : Trees, backup : Trees] /\ work'.tree = "none" /\ work'.backup = "none"
    BY <1>1 DEF NoWork, Trees
  <1>4. UpdateTyped'
    BY <1>1, <1>2, <1>3 DEF UpdateInv, UpdateTyped, offerVars
  <1>5. NeedsProgram' /\ OneScript'
    BY <1>1, <1>2 DEF UpdateInv, NeedsProgram, OneScript, Alive, Preparing, Waiting, At, offerVars
  <1>6. Recoverable'
    <2>1. SUFFICES ASSUME Ordinary'
                   PROVE  Recoverable'
      BY DEF Recoverable
    <2>2. Ordinary /\ ~Waiting /\ ~Waiting'
      BY <1>1, <1>2, <2>1 DEF Ordinary, Waiting, At
    <2>3. Bootable /\ Bootable' /\ StillThere'
      BY <1>1, <2>2, BootableIsThere DEF UpdateInv, Recoverable, Bootable
    <2>4. ~mishaps'.crashed => Matched'
      BY <1>1, <1>2, <2>2 DEF UpdateInv, Recoverable, Matched
    <2>5. \A s \in DOMAIN scripts' : Fits(scripts[s].at)'
      BY <2>2, EndedFits DEF Waiting, At
    <2> QED
      BY <1>1, <1>3, <2>3, <2>4, <2>5 DEF Recoverable
  <1>7. Ascends'
    BY <1>1, <1>2 DEF UpdateInv, Ascends, NewEnough, Waiting, At, offerVars, Declared
  <1> QED
    BY <1>4, <1>5, <1>6, <1>7 DEF UpdateInv

LEMMA FetchKeeps ==
  ASSUME UpdateInv, Fetch
  PROVE  UpdateInv'
  <1>1. /\ stage = "download" /\ UNCHANGED <<offerVars, chosen, app, folder, scripts, mishaps>>
        /\ \/ stage' = "idle" /\ UNCHANGED work
           \/ stage' = "check" /\ work' = [work EXCEPT !.tree = chosen.holds]
    BY DEF Fetch
  <1>2. chosen.holds \in Trees
    BY OffersAreReleases DEF UpdateInv, UpdateTyped, Trees, NoRelease
  <1>3. UpdateTyped'
    BY <1>1, <1>2 DEF UpdateInv, UpdateTyped, offerVars
  <1>4. NeedsProgram' /\ OneScript'
    BY <1>1 DEF UpdateInv, NeedsProgram, OneScript, Alive, Preparing, Waiting, At, offerVars
  <1>5. Recoverable'
    <2>1. Ordinary => Bootable
      BY <1>1 DEF UpdateInv, Recoverable, NeedsProgram
    <2>2. Ordinary => StillThere'
      BY <1>1, <2>1, BootableIsThere DEF Bootable
    <2>3. Ordinary => (Preparing' => work'.backup = "none") /\ ~Waiting
      BY <1>1 DEF UpdateInv, Recoverable, Preparing, UpdateTyped, OneScript, Ordinary
    <2>4. SameFiles /\ stage' # "launch" /\ app' = app /\ (Preparing' \/ UNCHANGED work)
      BY <1>1 DEF SameFiles, Preparing
    <2> QED
      BY <2>2, <2>3, <2>4, FilesKeep DEF UpdateInv
  <1>6. Ascends'
    BY <1>1 DEF UpdateInv, UpdateTyped, Ascends, NewEnough, Waiting, At, offerVars, OneScript, Preparing
  <1> QED
    BY <1>3, <1>4, <1>5, <1>6 DEF UpdateInv

LEMMA VerifyKeeps ==
  ASSUME UpdateInv, Verify
  PROVE  UpdateInv'
  <1>1. /\ stage = "check" /\ UNCHANGED <<offerVars, chosen, app, folder, work, scripts, mishaps>>
        /\ \/ stage' = "idle"
           \/ /\ stage' = "launch" /\ work.tree # "none"
              /\ chosen.declares => SameVersion(work.tree, chosen.version)
    BY DEF Verify
  <1>2. UpdateTyped'
    BY <1>1 DEF UpdateInv, UpdateTyped, offerVars
  <1>3. NeedsProgram' /\ OneScript'
    BY <1>1 DEF UpdateInv, NeedsProgram, OneScript, Alive, Preparing, Waiting, At, offerVars
  <1>4. Recoverable'
    <2>1. Ordinary => StillThere'
      BY <1>1 DEF UpdateInv, Recoverable, StillThere, Ordinary
    <2>2. Ordinary => (Preparing' => work'.backup = "none") /\ ~Waiting
      BY <1>1 DEF UpdateInv, Recoverable, Preparing, OneScript, Ordinary
    <2>3. SameFiles /\ app' = app /\ UNCHANGED work /\ (stage' = "launch" => work'.tree \in Versions)
      BY <1>1 DEF SameFiles, UpdateInv, UpdateTyped, Trees
    <2> QED
      BY <2>1, <2>2, <2>3, FilesKeep DEF UpdateInv
  <1>5. ASSUME Declared, ~mishaps.robbed, stage' = "launch"
        PROVE  NewEnough(work.tree)
    <2>1. chosen \in Offers /\ PickAsset(chosen.assets) # 0 /\ IsNewer(chosen.version, Current)
      BY <1>1, <1>5 DEF UpdateInv, UpdateTyped, Ascends
    <2>2. chosen.declares
      BY <2>1, <1>5 DEF Declared
    <2>3. SameVersion(work.tree, chosen.version)
      BY <1>1, <1>5, <2>2
    <2> QED
      BY <2>1, <2>3, SameIsAsNew DEF NewEnough
  <1>6. Ascends'
    BY <1>1, <1>5 DEF UpdateInv, Ascends, NewEnough, Waiting, At, offerVars, OneScript, Preparing, Declared
  <1> QED
    BY <1>2, <1>3, <1>4, <1>6 DEF UpdateInv

LEMMA LaunchKeeps ==
  ASSUME UpdateInv, Launch
  PROVE  UpdateInv'
  <1>1. /\ stage = "launch" /\ UNCHANGED <<offerVars, chosen, app, folder, work, mishaps>>
        /\ \/ stage' = "idle" /\ UNCHANGED scripts
           \/ stage' = "leave" /\ scripts' = Append(scripts, Script)
    BY DEF Launch
  <1>2. app # "none"
    BY <1>1 DEF UpdateInv, NeedsProgram
  <1>3. CASE stage' = "idle" /\ UNCHANGED scripts
    <2>1. UpdateTyped'
      BY <1>1, <1>3 DEF UpdateInv, UpdateTyped, offerVars
    <2>2. NeedsProgram' /\ OneScript'
      BY <1>1, <1>2, <1>3 DEF UpdateInv, NeedsProgram, OneScript, Alive, Preparing, Waiting, At, offerVars
    <2>3. Ordinary => StillThere' /\ ~Preparing'
      BY <1>1, <1>3 DEF UpdateInv, Recoverable, StillThere, Ordinary, Preparing
    <2>4. SameFiles /\ app' = app /\ UNCHANGED work /\ stage' # "launch" /\ ~Preparing'
      BY <1>1, <1>3 DEF SameFiles, Preparing
    <2>5. Recoverable'
      BY <2>3, <2>4, FilesKeep DEF UpdateInv
    <2>6. Ascends'
      BY <1>1, <1>3 DEF UpdateInv, Ascends, NewEnough, Waiting, At, offerVars, Declared
    <2> QED
      BY <2>1, <2>2, <2>5, <2>6 DEF UpdateInv
  <1>4. CASE stage' = "leave" /\ scripts' = Append(scripts, Script)
    <2>1. PICK new \in Nat :
          /\ scripts' \in Scripts2 /\ DOMAIN scripts' = DOMAIN scripts \cup {new}
          /\ new \notin DOMAIN scripts /\ scripts'[new].at = "backup"
          /\ \A t \in DOMAIN scripts : scripts'[t] = scripts[t]
      <3>1. scripts \in Scripts2 /\ Len(scripts) + 1 \in Nat
        BY DEF UpdateInv, UpdateTyped, Scripts2
      <3> QED
        BY <1>4, <3>1, ScriptStarts
    <2>2. UpdateTyped'
      BY <1>1, <1>4, <2>1 DEF UpdateInv, UpdateTyped, Scripts2, offerVars
    <2>3. ~mishaps.robbed => \A t \in DOMAIN scripts : scripts[t].at = "ended"
      BY <1>1 DEF UpdateInv, OneScript, Preparing, Waiting, At
    <2>4. NeedsProgram' /\ OneScript'
      BY <1>1, <1>2, <1>4, <2>1, <2>3 DEF UpdateInv, NeedsProgram, OneScript, Alive, Preparing
    <2>5. Recoverable'
      <3>1. SUFFICES ASSUME Ordinary'
                     PROVE  Recoverable'
        BY DEF Recoverable
      <3>2. Ordinary /\ ~mishaps.robbed /\ ~Waiting
        BY <1>1, <2>3, <3>1 DEF Ordinary, Waiting, At
      <3>3. Bootable /\ (work.there => work.tree \in Versions) /\ work.backup = "none" /\ StillThere
            /\ (~mishaps.crashed => Matched)
        BY <1>1, <1>2, <3>2 DEF UpdateInv, Recoverable, Preparing
      <3>4. Bootable' /\ StillThere' /\ (~mishaps'.crashed => Matched')
        BY <1>1, <3>3, BootableIsThere DEF Bootable, Matched
      <3>5. Fits(scripts[new].at)'
        BY <1>1, <2>1, <3>3 DEF Fits, Bootable, Matched
      <3>6. \A t \in DOMAIN scripts : scripts'[t].at = "ended"
        BY <2>1, <2>3, <3>2
      <3>7. \A t \in DOMAIN scripts' : Fits(scripts[t].at)'
        BY <2>1, <3>5, <3>6, EndedFits
      <3>8. Waiting'
        BY <2>1 DEF Waiting, At
      <3> QED
        BY <1>4, <3>4, <3>7, <3>8 DEF Recoverable, Preparing
    <2>6. Ascends'
      BY <1>1, <1>4 DEF UpdateInv, Ascends, NewEnough, offerVars, Declared
    <2> QED
      BY <2>2, <2>4, <2>5, <2>6 DEF UpdateInv
  <1> QED
    BY <1>1, <1>3, <1>4

LEMMA LeaveKeeps ==
  ASSUME UpdateInv, Leave
  PROVE  UpdateInv'
  <1>1. /\ UNCHANGED <<folder, work, scripts, mishaps>> /\ stage' = "idle"
        /\ \/ app' = "none" /\ chosen' = NoRelease /\ looking' = FALSE /\ banner' = NoRelease
           \/ UNCHANGED <<app, chosen, looking, banner>>
    BY DEF Leave, Forgets
  <1>2. UpdateTyped'
    BY <1>1 DEF UpdateInv, UpdateTyped, Trees
  <1>3. NeedsProgram' /\ OneScript'
    BY <1>1 DEF UpdateInv, NeedsProgram, OneScript, Alive, Preparing, Waiting, At
  <1>4. Ordinary => StillThere'
    BY <1>1 DEF UpdateInv, Recoverable, StillThere, Ordinary
  <1>5. SameFiles /\ (app' # "none" => app # "none") /\ UNCHANGED work /\ stage' # "launch" /\ ~Preparing'
    BY <1>1 DEF SameFiles, Preparing
  <1>6. Recoverable'
    BY <1>4, <1>5, FilesKeep DEF UpdateInv
  <1>7. Ascends'
    BY <1>1, VersionsAreTexts DEF UpdateInv, Ascends, NewEnough, Waiting, At, Declared
  <1> QED
    BY <1>2, <1>3, <1>6, <1>7 DEF UpdateInv

-----------------------------------------------------------------------------
(* What else happens.                                                       *)

\* Nothing that is there goes, and no script goes on.
LEMMA StopKeeps ==
  ASSUME UpdateTyped, Recoverable, scripts' = StoppedScripts, stage' = "idle",
         UNCHANGED <<folder, work>>, app' = "none",
         mishaps' = [mishaps EXCEPT !.crashed = TRUE]
  PROVE  Recoverable'
  <1>1. /\ mishaps'.crashed = TRUE /\ mishaps'.faults = mishaps.faults /\ mishaps'.robbed = mishaps.robbed
    BY DEF UpdateTyped
  <1>2. \A t \in DOMAIN scripts' : scripts'[t].at = "ended"
    BY ScriptsStop DEF UpdateTyped, Scripts2
  <1>3. \A t \in DOMAIN scripts' : Fits(scripts[t].at)'
    BY <1>2, EndedFits
  <1>4. Ordinary' => StillThere'
    BY <1>1 DEF Ordinary, Recoverable, StillThere
  <1> QED
    BY <1>1, <1>3, <1>4 DEF Recoverable, Preparing

LEMMA PowerCutKeeps ==
  ASSUME UpdateInv, PowerCut
  PROVE  UpdateInv'
  <1>1. /\ mishaps' = [mishaps EXCEPT !.crashed = TRUE]
        /\ app' = "none" /\ stage' = "idle" /\ scripts' = StoppedScripts
        /\ chosen' = NoRelease /\ looking' = FALSE /\ banner' = NoRelease
        /\ UNCHANGED <<folder, work>>
    BY DEF PowerCut, Forgets
  <1>2. /\ scripts' \in Scripts2 /\ \A t \in DOMAIN scripts' : scripts'[t].at = "ended"
    BY <1>1, ScriptsStop DEF UpdateInv, UpdateTyped, Scripts2
  <1>3. UpdateTyped'
    BY <1>1, <1>2 DEF UpdateInv, UpdateTyped, Trees, Scripts2
  <1>4. NeedsProgram' /\ OneScript'
    BY <1>1, <1>2 DEF NeedsProgram, OneScript, Alive, Preparing
  <1>5. Recoverable'
    BY <1>1, StopKeeps DEF UpdateInv
  <1>6. ~Waiting' /\ mishaps'.robbed = mishaps.robbed
    BY <1>1, <1>2 DEF Waiting, At, UpdateInv, UpdateTyped
  <1>7. Ascends'
    BY <1>1, <1>6, VersionsAreTexts DEF UpdateInv, Ascends, NewEnough, Declared
  <1> QED
    BY <1>3, <1>4, <1>5, <1>7 DEF UpdateInv

LEMMA StartAgainKeeps ==
  ASSUME UpdateInv, StartAgain
  PROVE  UpdateInv'
  <1>1. /\ app = "none" /\ folder.exe # "none" /\ folder.rt \in Versions /\ app' = folder.rt
        /\ UNCHANGED <<offerVars, installVars, folder, work, scripts, mishaps>>
    BY DEF StartAgain, Startable
  <1>2. UpdateTyped'
    BY <1>1 DEF UpdateInv, UpdateTyped, Trees, offerVars, installVars
  <1>3. NeedsProgram' /\ OneScript'
    BY <1>1, VersionsAreTexts
       DEF UpdateInv, NeedsProgram, OneScript, Alive, Preparing, Waiting, At, offerVars, installVars
  <1>4. Bootable /\ Bootable'
    BY <1>1 DEF UpdateInv, UpdateTyped, Trees, Bootable
  <1>5. Recoverable'
    <2>1. Ordinary' = Ordinary /\ Matched' = Matched /\ Waiting' = Waiting /\ StillThere'
      BY <1>1, <1>4, BootableIsThere DEF Ordinary, Matched, Waiting, At
    <2>2. ~Preparing' /\ stage' # "launch"
      BY <1>1 DEF UpdateInv, NeedsProgram, Preparing, installVars
    <2>3. ASSUME Ordinary, NEW s \in DOMAIN scripts'
          PROVE  Fits(scripts[s].at)'
      <3>1. Fits(scripts[s].at)
        BY <1>1, <2>3 DEF UpdateInv, Recoverable
      <3> QED
        BY <1>1, <3>1 DEF Fits, Bootable, Matched, Stocked, Was
    <2> QED
      BY <1>1, <1>4, <2>1, <2>2, <2>3 DEF UpdateInv, Recoverable
  <1>6. Ascends'
    BY <1>1 DEF UpdateInv, Ascends, NewEnough, Waiting, At, offerVars, installVars, Declared
  <1> QED
    BY <1>2, <1>3, <1>5, <1>6 DEF UpdateInv

LEMMA SweepKeeps ==
  ASSUME UpdateInv, Sweep
  PROVE  UpdateInv'
  <1>1. /\ mishaps' = [mishaps EXCEPT !.robbed = @ \/ mishaps.crashed \/ Waiting]
        /\ work' = NoWork /\ scripts' = StoppedScripts
        /\ UNCHANGED <<offerVars, app, installVars, folder>>
    BY DEF Sweep
  <1>2. /\ scripts' \in Scripts2 /\ \A t \in DOMAIN scripts' : scripts'[t].at = "ended"
    BY <1>1, ScriptsStop DEF UpdateInv, UpdateTyped, Scripts2
  <1>3. /\ mishaps' \in [faults : Nat, crashed : BOOLEAN, robbed : BOOLEAN]
        /\ mishaps'.faults = mishaps.faults /\ mishaps'.crashed = mishaps.crashed
        /\ ~mishaps'.robbed => ~mishaps.robbed /\ ~mishaps.crashed /\ ~Waiting
    BY <1>1 DEF UpdateInv, UpdateTyped, Waiting
  <1>4. /\ work' \in [there : BOOLEAN, tree : Trees, backup : Trees] /\ work'.there = FALSE
        /\ work'.tree = "none" /\ work'.backup = "none"
    BY <1>1 DEF NoWork, Trees
  <1>5. UpdateTyped'
    BY <1>1, <1>2, <1>3, <1>4 DEF UpdateInv, UpdateTyped, Scripts2, offerVars, installVars
  <1>6. NeedsProgram' /\ OneScript'
    BY <1>1, <1>2, <1>3
       DEF UpdateInv, NeedsProgram, OneScript, Alive, Preparing, Waiting, At, offerVars, installVars
  <1>7. Recoverable'
    <2>1. SUFFICES ASSUME Ordinary'
                   PROVE  Recoverable'
      BY DEF Recoverable
    <2>2. Ordinary /\ ~Waiting /\ ~mishaps.crashed
      BY <1>3, <2>1 DEF Ordinary
    <2>3. Bootable /\ Matched
      BY <2>2 DEF UpdateInv, Recoverable
    <2>4. Bootable' /\ Matched' /\ StillThere'
      BY <1>1, <1>3, <2>3, BootableIsThere DEF Bootable, Matched
    <2>5. \A t \in DOMAIN scripts' : Fits(scripts[t].at)'
      BY <1>2, EndedFits
    <2> QED
      BY <1>4, <2>4, <2>5 DEF Recoverable
  <1>8. Ascends'
    BY <1>1, <1>3, <1>4, VersionsAreTexts
       DEF UpdateInv, Ascends, NewEnough, offerVars, installVars, Declared
  <1> QED
    BY <1>5, <1>6, <1>7, <1>8 DEF UpdateInv

-----------------------------------------------------------------------------
(* The theorem.                                                             *)

LEMMA UpdateInvInit == UpdateInit => UpdateInv
  <1> HAVE UpdateInit
  <1>1. /\ looking = FALSE /\ banner = NoRelease /\ app = Current /\ stage = "idle" /\ chosen = NoRelease
        /\ folder = [exe |-> Current, rt |-> Current, old |-> "none"] /\ scripts = <<>>
        /\ mishaps = [faults |-> 0, crashed |-> FALSE, robbed |-> FALSE]
        /\ work.there = FALSE /\ work.tree = "none" /\ work.backup = "none"
        /\ work \in [there : BOOLEAN, tree : Trees, backup : Trees]
    BY DEF UpdateInit, NoWork, Trees
  <1>2. Current \in Versions
    BY VersionsAreTexts
  <1>3. UpdateTyped
    <2>1. scripts \in Seq([at : Labels, tries : Nat])
      BY <1>1
    <2>2. folder \in [exe : Trees, rt : Runtimes, old : Runtimes] /\ app \in Trees
      BY <1>1, <1>2 DEF Trees, Runtimes
    <2>3. mishaps \in [faults : Nat, crashed : BOOLEAN, robbed : BOOLEAN]
      BY <1>1
    <2> QED
      BY <1>1, <2>1, <2>2, <2>3 DEF UpdateTyped
  <1>4. NeedsProgram /\ OneScript /\ ~Waiting
    BY <1>1, <1>2, VersionsAreTexts DEF NeedsProgram, OneScript, Preparing, Waiting
  <1>5. Bootable /\ Matched
    BY <1>1, <1>2 DEF Bootable, Matched
  <1>6. StillThere
    <2>1. Current \in Versions \cap {folder.exe, work.backup, work.tree}
      BY <1>1, <1>2
    <2>2. Current \in Versions \cap {folder.rt, folder.old, work.tree}
      BY <1>1, <1>2
    <2> QED
      BY <2>1, <2>2 DEF StillThere
  <1>7. Recoverable
    BY <1>1, <1>5, <1>6 DEF Recoverable, Preparing
  <1>8. Ascends
    BY <1>1, <1>4, VersionsAreTexts DEF Ascends, NewEnough
  <1> QED
    BY <1>3, <1>4, <1>7, <1>8 DEF UpdateInv

LEMMA UpdateInvNext == UpdateInv /\ [UpdateNext]_updateVars => UpdateInv'
  <1> SUFFICES ASSUME UpdateInv, [UpdateNext]_updateVars
               PROVE  UpdateInv'
    OBVIOUS
  <1>1. CASE StartupCheck \/ CheckNow \/ ToggleCheck
    BY <1>1, CheckKeeps
  <1>2. CASE CheckDone
    BY <1>2, CheckDoneKeeps
  <1>3. CASE Install
    BY <1>3, InstallKeeps
  <1>4. CASE Fetch
    BY <1>4, FetchKeeps
  <1>5. CASE Verify
    BY <1>5, VerifyKeeps
  <1>6. CASE Launch
    BY <1>6, LaunchKeeps
  <1>7. CASE Leave
    BY <1>7, LeaveKeeps
  <1>8. ASSUME NEW s \in DOMAIN scripts, ScriptStep(s)
        PROVE  UpdateInv'
    BY <1>8, StepTyped, StepKeepsOne, StepRecovers, StepAscends DEF UpdateInv
  <1>9. CASE PowerCut
    BY <1>9, PowerCutKeeps
  <1>10. CASE StartAgain
    BY <1>10, StartAgainKeeps
  <1>11. CASE Sweep
    BY <1>11, SweepKeeps
  <1>12. CASE UNCHANGED updateVars
    <2>1. UNCHANGED <<looking, banner, app, stage, chosen, folder, work, scripts, mishaps>>
      BY <1>12 DEF updateVars, offerVars, installVars
    <2>2. UpdateTyped' /\ NeedsProgram' /\ OneScript' /\ Ascends'
      BY <2>1 DEF UpdateInv, UpdateTyped, NeedsProgram, OneScript, Ascends, NewEnough, Alive, Preparing,
                  Waiting, At, Declared
    <2>3. Recoverable'
      BY <2>1 DEF UpdateInv, Recoverable, Ordinary, StillThere, Bootable, Matched, Waiting, At, Preparing,
                  Fits, Stocked, Was
    <2> QED
      BY <2>2, <2>3 DEF UpdateInv
  <1> QED
    BY <1>1, <1>2, <1>3, <1>4, <1>5, <1>6, <1>7, <1>8, <1>9, <1>10, <1>11, <1>12 DEF UpdateNext

LEMMA UpdateInvIsEnough == UpdateInv => UpdateIsSafe
  <1> HAVE UpdateInv
  <1>1. EndsWhole
    <2>1. SUFFICES ASSUME Ordinary, ~mishaps.crashed, \A s \in DOMAIN scripts : At(s, "ended")
                   PROVE  folder.rt \in Versions /\ folder.exe = folder.rt
      BY DEF EndsWhole
    <2>2. ~Waiting
      BY <2>1 DEF Waiting, At
    <2> QED
      BY <2>1, <2>2 DEF UpdateInv, Recoverable, Bootable, Matched
  <1>2. StillThere
    BY DEF UpdateInv, Recoverable, StillThere
  <1>3. NeverOlder
    BY DEF UpdateInv, Ascends, NewEnough, NeverOlder
  <1> QED
    BY <1>1, <1>2, <1>3 DEF UpdateIsSafe

\* Installing an update leaves a whole program behind whichever one command of the script fails,
\* never an older one, and a launcher and a runtime are on the disk at every moment, for any
\* releases, numbers of retries, faults and scripts (updates.py, on_install_update).
THEOREM UpdatesAreSafe == UpdateSpec => []UpdateIsSafe
  <1>1. UpdateSpec => []UpdateInv
    BY UpdateInvInit, UpdateInvNext, PTL DEF UpdateSpec
  <1> QED
    BY <1>1, UpdateInvIsEnough, PTL
=============================================================================

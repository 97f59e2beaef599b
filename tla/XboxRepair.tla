---------------------------- MODULE XboxRepair -----------------------------
(* What a classic restore does to an Xbox account folder before it writes: *)
(* it repairs a damaged containers.index, and gives an account that has    *)
(* none the backup's account data (core/liveops/classic.py).               *)
EXTENDS XboxWriter

CONSTANTS Damages,   \* the ways containers.index may be damaged
          Backups,   \* the backups a restore may be asked for
          Account    \* the save that is the account data

VARIABLES damage,    \* what is wrong with containers.index; `index` is what it held
          fix        \* the repair at work

repairVars == <<vars, damage, fix>>

Whole   == [kind |-> "none", kept |-> 0, named |-> FALSE, header |-> TRUE]
NoFix   == [pc |-> "idle", raw |-> Whole, index |-> 0, backup |-> 0]
Bodies  == {b.body : b \in blobs}
Listed(i) == {i.recs[s].dir : s \in {x \in Saves : i.recs[x] # NoRecord}}
Dirs    == {b.dir : b \in blobs} \cup {c.dir : c \in conts}

\* The records in the order of the file, and what still reads of them: with no
\* header none does, else those before the cut and perhaps the next one's name.
InFile  == SelectSeq(Order, LAMBDA s : index.recs[s] # NoRecord)
Kept(d) == IF d.header THEN {InFile[i] : i \in 1..d.kept} ELSE {}
\* Mutant (RepairIsSound): the last name in the file is the cut one.
Mutant_CutOff(d) == IF d.header /\ d.named THEN {InFile[Len(InFile)]} ELSE {}
CutOff(d) == IF d.header /\ d.named THEN {InFile[d.kept + 1]} ELSE {}
Salvaged(d) == [s \in Saves |-> IF s \in Kept(d) THEN index.recs[s] ELSE NoRecord]
Orphans(d)  == Dirs \ {index.recs[s].dir : s \in Kept(d)}

\* The one lost record whose name still reads gets the one unlisted folder.
Rebuildable_(d) == Cardinality(Orphans(d)) = 1 /\ CutOff(d) # {}
                   /\ \E c \in conts : c.dir \in Orphans(d)
Rebuilt(d) ==
  LET found == {c \in conts : c.dir \in Orphans(d)}
      last  == {c \in found : \A x \in found : x.n <= c.n} IN
  [s \in Saves |-> IF s \in CutOff(d) /\ last # {}
                   THEN LET c == CHOOSE x \in last : TRUE IN
                        [dir |-> c.dir, ext |-> c.n, sync |-> "modified", ft |-> 4]
                   ELSE Salvaged(d)[s]]

\* The guard: it refuses rather than guess, and writes nothing.
Refused(d, b) ==
  \/ d.kind = "newer" \/ b.newer
  \/ IF d.header THEN b.account # "ours" ELSE b.source # "here"
  \/ Orphans(d) # {} /\ ~Rebuildable_(d)

Planned(d) == [ft   |-> IF d.header THEN index.ft ELSE 3,
               sync |-> IF d.header THEN index.sync ELSE "synced",
               recs |-> IF Orphans(d) # {} THEN Rebuilt(d) ELSE Salvaged(d)]

Breaks(d) ==
  /\ damage = Whole /\ run.pc = "idle" /\ ~IsOpen /\ Spend("damages")
  /\ d.header => d.kept < Len(InFile)
  /\ damage' = d
  /\ UNCHANGED <<folder, twin, past, vault, fresh, op, run, offered, fix>>

\* The Xbox app writes its index anew.
AppRepairs ==
  /\ damage # Whole /\ Spend("syncs")
  /\ damage' = Whole
  /\ UNCHANGED <<folder, twin, past, vault, fresh, op, run, offered, fix>>

\* The damaged bytes are read before the lock is taken, and again under it.
RepairLooks(b) ==
  /\ fix.pc = "idle" /\ run.pc = "idle" /\ damage # Whole /\ Spend("repairs")
  /\ fix' = [NoFix EXCEPT !.pc = "plan", !.raw = damage, !.backup = b]
  /\ UNCHANGED <<folder, twin, past, vault, fresh, op, run, offered, damage>>

RepairPlans ==
  /\ fix.pc = "plan"
  /\ fix' = IF damage # fix.raw \/ Refused(damage, fix.backup) THEN NoFix
            ELSE [fix EXCEPT !.pc = "keep", !.index = Planned(damage)]
  /\ UNCHANGED <<vars, damage>>

Copied_ == Bodies
\* The whole folder is copied into the vault, verified file by file.
RepairPreserves ==
  /\ fix.pc = "keep"
  /\ vault' = vault \cup Copied_
  /\ fix' = [fix EXCEPT !.pc = "write"]
  /\ UNCHANGED <<folder, twin, past, fresh, op, run, offered, count, damage>>

\* The code does not look at the index again: here the app does not write it
\* between the look under the lock and this step.
RepairWrites ==
  /\ fix.pc = "write" /\ fix.raw = damage
  /\ fix' = NoFix
  /\ IF Dirs \subseteq Listed(fix.index)
     THEN /\ index' = fix.index /\ damage' = Whole
          /\ op' = [op EXCEPT !.touched = Saves]
     ELSE UNCHANGED <<index, damage, op>>
  /\ UNCHANGED <<blobs, conts, xgs, twin, past, vault, fresh, run, offered, count>>

RepairEnds ==
  /\ fix.pc # "idle" /\ (fix.pc = "write" => fix.raw # damage \/ count["crashes"] > 0)
  /\ fix' = NoFix
  /\ UNCHANGED <<vars, damage>>

-----------------------------------------------------------------------------
(* Account data (write_save): blobs, index, no second copy *)

HasAccount == Now(Account) # {} \/ (twin /\ xgs[Account].data # 0)

NextExt(r) == (r.ext % MaxExt) + 1
GiveStages ==
  LET r == Base(Account, fresh, 7)  n == NextExt(r) IN
  /\ damage = Whole /\ fix.pc = "idle" /\ run.pc = "idle" /\ ~IsOpen /\ ~HasAccount /\ Spend("gives")
  /\ blobs' = blobs \cup {[dir |-> r.dir, name |-> fresh + i, body |-> 1] : i \in {1, 2}}
  /\ conts' = {c \in conts : c.dir # r.dir \/ c.n # n}
              \cup {[dir |-> r.dir, n |-> n, data |-> fresh + 1, meta |-> fresh + 2]}
  /\ run' = [Idle EXCEPT !.pc = "give", !.todo = <<<<Account, "cont">>>>,
                         !.seen = {[r EXCEPT !.ext = n, !.ft = Max({7, @ + 1}),
                                             !.sync = IF @ = "created" THEN @ ELSE "modified"]}]
  /\ fresh' = fresh + 3
  /\ UNCHANGED <<index, xgs, twin, past, vault, op, offered, damage, fix>>
GiveLists ==
  /\ run.pc = "give" /\ Stop
  /\ \E r \in run.seen :
       index' = [index EXCEPT !.recs[Account] = r, !.sync = "modified", !.ft = Max({@, r.ft})]
  /\ UNCHANGED <<blobs, conts, xgs, twin, past, vault, fresh, op, offered, count, damage, fix>>

-----------------------------------------------------------------------------
RepairInit == Init /\ damage = Whole /\ fix = NoFix
\* A damaged index does not read: the writer, its recovery and the app's own
\* changes wait for the repair.
RepairNext ==
  \/ damage = Whole /\ Next /\ UNCHANGED <<damage, fix>>
  \/ \E d \in Damages : Breaks(d)
  \/ \E b \in Backups : RepairLooks(b)
  \/ AppRepairs \/ RepairPlans \/ RepairPreserves \/ RepairWrites \/ RepairEnds
  \/ GiveStages \/ GiveLists
RepairSpec ==
  /\ RepairInit /\ [][RepairNext]_repairVars
  /\ WF_repairVars(damage = Whole /\ Work /\ UNCHANGED <<damage, fix>>)
  /\ WF_repairVars(damage = Whole /\ List /\ UNCHANGED <<damage, fix>>)
  /\ \A choice \in {"forward", "back", "leave"} :
       SF_repairVars(damage = Whole /\ Resolve(choice) /\ UNCHANGED <<damage, fix>>)

Repaired == fix.pc = "write" /\ damage # Whole /\ damage' = Whole /\ fix'.pc = "idle"

\* The repaired index lists every save folder, also those the damage took out
\* of it (_index_repair_plan, _repair_files).
NothingUnlisted == [][Repaired => {b.dir : b \in blobs} \subseteq Listed(index')]_repairVars

\* A save keeps the name it had. The code's exception: when the record cut off
\* had no folder (the app had deleted it), the folder of a later record gets
\* its name (_rebuild_lost_records).
Misled(s) == s = InFile[damage.kept + 1] /\ index.recs[s].sync = "deleted"
NamesAreKept ==
  [][Repaired => \A s \in Saves :
       index'.recs[s] # NoRecord => index'.recs[s].dir = index.recs[s].dir \/ Misled(s)]_repairVars

\* When the index is written, all the folder held is in the vault.
RepairKeeps == [][Repaired => Bodies \subseteq vault']_repairVars

\* A repair of the index adds no save that was not listed, gives every folder its own
\* name, keeps the times moving forward and destroys nothing.
RepairIsSound == TimesForward /\ NothingUnlisted /\ NamesAreKept /\ RepairKeeps
=============================================================================

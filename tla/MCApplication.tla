--------------------------- MODULE MCApplication ----------------------------
(* The parts of the application around the Organizer. They share nothing, so each is run on   *)
(* its own, the others at rest: a behaviour begins with the choice of the part.               *)
(*   vault  - two windows, two slots of which one is played, another vault with one or two    *)
(*            entries                                                                         *)
(*   update - a release that is newer, one that is not, one that holds something else and     *)
(*            one that does not say what it holds                                             *)
(*   dialog - two versions, two accounts, two slots                                           *)
(*   window - sessions of two or three things that the owner does or that fail                *)
(*   line   - two terminals with a command or two each, two live slots                        *)
EXTENDS ClassicVault, SelfUpdate, MoveDialog, Desktop, CommandLine, TLC
CONSTANTS w1, w2

VARIABLE part   \* which of them runs

Never == [c \in {"saves", "erases", "backup", "extract", "batch", "inplace", "vault",
                 "inplaceVault", "faults", "crashes", "interrupts"} |-> 0]
Sources == {<<"src", 0, 1>>, <<"src", 0, 2>>}
Orders  == {<<"empty", "live", "still">>}
Scopes == {
  ("backup" :> 2) @@ Never,
  ("extract" :> 2) @@ ("saves" :> 1) @@ Never,
  ("backup" :> 1) @@ ("saves" :> 2) @@ ("faults" :> 1) @@ Never,
  ("extract" :> 1) @@ ("saves" :> 1) @@ ("erases" :> 1) @@ Never,
  ("extract" :> 3) @@ ("crashes" :> 1) @@ Never,
  ("batch" :> 1) @@ ("saves" :> 1) @@ ("faults" :> 1) @@ Never,
  ("vault" :> 2) @@ ("faults" :> 1) @@ ("crashes" :> 1) @@ Never,
  ("vault" :> 1) @@ ("inplaceVault" :> 1) @@ ("inplace" :> 1) @@ Never,
  ("inplace" :> 2) @@ ("extract" :> 1) @@ Never,
  ("extract" :> 1) @@ ("interrupts" :> 1) @@ Never }
Imports == {("vault" :> 2) @@ ("crashes" :> 1) @@ Never}
Alike == Permutations(Windows)

VersionNumbers == ("0.8" :> <<0, 8>>) @@ ("0.9" :> <<0, 9>>) @@ ("0.10" :> <<0, 10>>)
                    @@ ("1" :> <<1>>) @@ ("1.0" :> <<1, 0>>)
Published == {
  [version |-> "0.10", assets |-> <<"text", "zip">>, holds |-> "0.10", declares |-> TRUE],
  [version |-> "0.8",  assets |-> <<"zip">>,         holds |-> "0.8",  declares |-> TRUE],
  [version |-> "1.0",  assets |-> <<"zip">>,         holds |-> "1",    declares |-> TRUE],
  [version |-> "1",    assets |-> <<"elsewhere">>,   holds |-> "1",    declares |-> FALSE] }
Uneventful == [c \in {"move", "undo", "recover", "panic", "layout", "undoslot", "look", "run", "free",
                    "keep", "rescan", "sources", "switch", "fail", "close", "update"} |-> 0]
Sessions == {
  ("run" :> 1) @@ ("close" :> 1) @@ ("fail" :> 1) @@ Uneventful,
  ("run" :> 1) @@ ("undo" :> 1) @@ ("fail" :> 1) @@ Uneventful,
  ("switch" :> 1) @@ ("layout" :> 1) @@ ("fail" :> 1) @@ Uneventful,
  ("switch" :> 1) @@ ("rescan" :> 1) @@ ("fail" :> 1) @@ Uneventful,
  ("undoslot" :> 1) @@ ("keep" :> 1) @@ ("close" :> 1) @@ Uneventful,
  ("undoslot" :> 1) @@ ("free" :> 1) @@ ("look" :> 1) @@ Uneventful,
  ("move" :> 1) @@ ("sources" :> 1) @@ ("fail" :> 1) @@ Uneventful,
  ("recover" :> 1) @@ ("panic" :> 1) @@ ("undo" :> 1) @@ Uneventful,
  ("undo" :> 1) @@ ("look" :> 1) @@ ("update" :> 1) @@ Uneventful,
  ("undo" :> 2) @@ ("rescan" :> 2) @@ Uneventful }

Typed(c) == [NoWish EXCEPT !.cmd = c]
Yes(w)   == [w EXCEPT !.yes = TRUE]
Ask(w)   == [w EXCEPT !.answer = "yes"]
MoveCommands ==
  {Yes(Typed("place")), [Yes(Typed("place")) EXCEPT !.slot = 1, !.save = 7, !.codes = {"AHEAD"}],
   [Ask(Typed("place")) EXCEPT !.save = 7], [Ask(Typed("place")) EXCEPT !.save = 8, !.slot = 2],
   [Yes(Typed("place")) EXCEPT !.save = 7], [Typed("place") EXCEPT !.save = 8],
   Ask(Typed("swap")), [Yes(Typed("swap")) EXCEPT !.force = TRUE],
   Typed("keep"), Ask(Typed("undo")), Yes(Typed("undo")), Ask(Typed("panic"))}
Settling == {Typed("recover"), [Typed("recover") EXCEPT !.force = TRUE], Typed("promote"),
            [Typed("promote") EXCEPT !.force = TRUE, !.slot = 2]}
StoreWork == {Ask(Typed("upgrade")), Typed("upgrade"), Typed("fold"), Typed("copyin"),
              Typed("free"), Yes(Typed("free")), Ask(Typed("rollback")), Yes(Typed("rollback")),
              Typed("stay"), Typed("fsck"), Yes(Typed("fsck")), Typed("backup"), Typed("import"),
              Typed("list")}
QuietWork == {Typed("append"), Typed("setnote"), Typed("build"), Typed("list")}
FullLayout == [mode |-> "store", left |-> TRUE, olds |-> {1, 2}, part |-> {}, folded |-> {1, 2},
            copied |-> {}, pre |-> TRUE, hurt |-> FALSE, undoing |-> FALSE, entries |-> 0]
NoLuck  == [c \in {"commands", "faults", "kills", "game", "plays", "hurt"} |-> 0]
Day(l, w, c) == [layout |-> l, luck |-> c @@ ("wishes" :> w) @@ NoLuck]
ClassicLayout == [FullLayout EXCEPT !.mode = "classic", !.folded = {}, !.pre = FALSE]
Evenings ==
  {Day(FullLayout, MoveCommands \cup Settling, ("commands" :> 2) @@ ("plays" :> 1) @@ ("game" :> 1)),
   Day(FullLayout, {Ask(Typed("swap")), Ask(Typed("undo")), Yes([Typed("place") EXCEPT !.save = 8])},
       "commands" :> 3),
   Day(FullLayout, {Ask(Typed("swap")), [Ask(Typed("place")) EXCEPT !.save = 7]} \cup Settling,
       ("commands" :> 2) @@ ("kills" :> 1) @@ ("game" :> 1)),
   Day(FullLayout, {Yes(Typed("free")), Ask(Typed("rollback")), Typed("backup"), Typed("keep"),
                    Ask(Typed("swap"))}, "commands" :> 2),
   Day(FullLayout, QuietWork, ("commands" :> 2) @@ ("game" :> 1)),
   Day([FullLayout EXCEPT !.folded = {1}], StoreWork \cup {Ask(Typed("swap"))},
       ("commands" :> 2) @@ ("faults" :> 1) @@ ("hurt" :> 1)),
   Day([FullLayout EXCEPT !.undoing = TRUE], StoreWork \cup {Ask(Typed("swap"))}, "commands" :> 2),
   Day(ClassicLayout, StoreWork, ("commands" :> 2) @@ ("faults" :> 1))}
  \cup {Day([ClassicLayout EXCEPT !.mode = m, !.olds = {}, !.copied = ByHand],
            StoreWork \cup QuietWork, ("commands" :> 1) @@ ("faults" :> 1)) :
           m \in {"none", "new", "noformat"}}

AllKinds  == {"move", "replace", "plan", "panic"}
Patience  == [k \in AllKinds |-> IF k = "panic" THEN 4 ELSE 3]
FullSlots == {{}, {1}, {1, 2}}

VaultRests  == count = CHOOSE c \in Counts : TRUE
UpdateRests == consent = "off" /\ checked
WindowRests == chances = CHOOSE d \in Days : TRUE
LineRests   == [layout |-> layout, luck |-> luck] = CHOOSE life \in Lives : TRUE
DialogRests == dlg.kind = "replace" /\ dlg.want = 1 /\ dlg.fixed = 1

AppInit ==
  /\ part \in {"vault", "update", "dialog", "window", "line"}
  /\ Init        /\ (part = "vault"  \/ VaultRests)
  /\ UpdateInit  /\ (part = "update" \/ UpdateRests)
  /\ DialogInit  /\ (part = "dialog" \/ DialogRests)
  /\ DesktopInit /\ (part = "window" \/ WindowRests)
  /\ CliInit     /\ (part = "line"   \/ LineRests)
AppNext ==
  \/ part = "vault"  /\ Next       /\ UNCHANGED <<part, updateVars, dialogVars, desktopVars, cliVars>>
  \/ part = "update" /\ UpdateNext /\ UNCHANGED <<part, vars, dialogVars, desktopVars, cliVars>>
  \/ part = "dialog" /\ DialogNext /\ UNCHANGED <<part, vars, updateVars, desktopVars, cliVars>>
  \/ part = "window" /\ DesktopNext /\ UNCHANGED <<part, vars, updateVars, dialogVars, cliVars>>
  \/ part = "line" /\ CliNext     /\ UNCHANGED <<part, vars, updateVars, dialogVars, desktopVars>>
AppSpec == AppInit /\ [][AppNext]_<<part, vars, updateVars, dialogVars, desktopVars, cliVars>>
=============================================================================

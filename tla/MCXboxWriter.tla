---------------------------- MODULE MCXboxWriter ---------------------------
(* Small instances of XboxWriter and XboxRepair: one slot and the account   *)
(* data; each behaviour spends one scope.                                   *)
EXTENDS XboxRepair
CONSTANTS A, B, C

Folder(a, b, c, copies, stray) ==
  LET kinds == (A :> a) @@ (B :> b) @@ (C :> c) IN
  [kind |-> kinds, twin |-> copies # "none", stray |-> stray,
   copied |-> IF copies = "full" THEN {s \in {A, B, C} : kinds[s] = "live"} ELSE {}]
Starts == {Folder("live", "live", "live", "full", {}), Folder("live", "live", "live", "none", {A}),
           Folder("live", "absent", "absent", "full", {}), Folder("deleted", "live", "live", "empty", {}),
           Folder("absent", "absent", "deleted", "none", {}),
           Folder("live", "live", "deleted", "none", {})}
Stamps == {<<1, 2>>, <<8, 9>>}

Breaking == [kind : {"cut"}, kept : 0..2, named : BOOLEAN, header : {TRUE}]
            \cup {[kind |-> "cut", kept |-> 0, named |-> FALSE, header |-> FALSE],
                  [kind |-> "newer", kept |-> 0, named |-> FALSE, header |-> TRUE]}
Restored_ == {[account |-> "ours", source |-> "here", newer |-> FALSE],
             [account |-> "other", source |-> "there", newer |-> FALSE],
             [account |-> "ours", source |-> "here", newer |-> TRUE]}

Never  == [ops |-> 0, plays |-> 0, syncs |-> 0, crashes |-> 0, faults |-> 0, damages |-> 0, repairs |-> 0, gives |-> 0]
Synced == ("ops" :> 1) @@ ("syncs" :> 1) @@ ("faults" :> 1) @@ Never
Played == ("ops" :> 1) @@ ("plays" :> 1) @@ ("crashes" :> 1) @@ Never
Broken == ("ops" :> 1) @@ ("crashes" :> 1) @@ ("faults" :> 1) @@ Never
Twice  == ("ops" :> 2) @@ Never
Cut    == ("ops" :> 1) @@ ("crashes" :> 1) @@ ("syncs" :> 1) @@ Never
Mended == ("damages" :> 1) @@ ("repairs" :> 1) @@ ("syncs" :> 1) @@ ("crashes" :> 1) @@ Never
Given  == ("gives" :> 1) @@ ("plays" :> 1) @@ ("crashes" :> 1) @@ ("syncs" :> 1) @@ Never
Later  == ("damages" :> 1) @@ ("repairs" :> 1) @@ ("gives" :> 1) @@ ("ops" :> 1) @@ Never
Racing == {("ops" :> 1) @@ ("syncs" :> 1) @@ Never}
Scopes == {Synced, Played, Broken, Twice, Cut, Mended, Given, Later}
=============================================================================

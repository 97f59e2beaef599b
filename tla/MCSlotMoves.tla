---------------------------- MODULE MCSlotMoves ----------------------------
(* Small instances of SlotMoves: two slots, two saves and an older version  *)
(* of the first in the vault; each behaviour spends one scope.              *)
EXTENDS SlotMoves, TLC

V(pid, play) == [pid |-> pid, play |-> play, n |-> 0]
Both  == 1 :> [a |-> V("x", 3), b |-> V("x", 2), newer |-> "a"]
         @@ 2 :> [a |-> V("y", 1), b |-> NoSave, newer |-> "a"]
Older == {[a |-> V("x", 1), b |-> NoSave, newer |-> "a"]}

Never  == [sessions |-> 0, plays |-> 0, deletes |-> 0, syncs |-> 0, moves |-> 0, undos |-> 0, steps |-> 0, faults |-> 0]
Races  == ("sessions" :> 1) @@ ("plays" :> 1) @@ ("moves" :> 1) @@ ("undos" :> 1) @@ Never
Erased == ("sessions" :> 1) @@ ("deletes" :> 1) @@ ("moves" :> 1) @@ ("undos" :> 1) @@ Never
Back   == ("sessions" :> 1) @@ ("moves" :> 2) @@ Never
Steps  == ("moves" :> 2) @@ ("steps" :> 2) @@ Never
Failed == ("moves" :> 2) @@ ("steps" :> 1) @@ ("faults" :> 1) @@ Never
Mixed  == ("moves" :> 1) @@ ("undos" :> 1) @@ ("steps" :> 2) @@ Never
Undone == ("moves" :> 1) @@ ("undos" :> 2) @@ Never
Long   == ("sessions" :> 2) @@ ("plays" :> 1) @@ ("moves" :> 1) @@ Never
Synced == ("syncs" :> 1) @@ ("moves" :> 1) @@ ("undos" :> 1) @@ Never
Away   == ("sessions" :> 1) @@ ("syncs" :> 1) @@ ("moves" :> 1) @@ ("faults" :> 1) @@ Never
Over   == ("moves" :> 2) @@ ("undos" :> 1) @@ Never
Scopes == {Over, Races, Erased, Back, Steps, Failed, Mixed, Undone, Long, Synced, Away}
Alike  == Permutations(Windows)
=============================================================================

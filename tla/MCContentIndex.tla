--------------------------- MODULE MCContentIndex ---------------------------
(* Two versions, the second one large enough to run alone, and the deep    *)
(* detail of each; five groups of things that may happen together.         *)
EXTENDS ContentIndex

CONSTANTS a, b, da, db1

MCVids == {a, b}
MCDeep == (a :> da) @@ (b :> db1)
MCKeys == {a, b, da, db1}
MCSize == (a :> 2) @@ (b :> 3) @@ (da :> 1) @@ (db1 :> 2)
MCStored == {(a :> "old") @@ (b :> "old")}

Never == [c \in {"cold", "inline", "request", "deep", "compare", "read", "pause", "cancel", "rebuild", "close", "wait",
                 "game", "slow", "unavailable", "bad", "broken", "wrong", "trouble"} |-> 0]
Loading    == ("cold" :> 1) @@ ("deep" :> 1) @@ Never
Working    == ("request" :> 1) @@ ("deep" :> 1) @@ ("game" :> 1) @@ Never
Failing    == ("request" :> 1) @@ ("wrong" :> 2) @@ Never
Hanging    == ("request" :> 1) @@ ("deep" :> 1) @@ ("slow" :> 1) @@ Never
Starting   == ("request" :> 1) @@ ("broken" :> 1) @@ ("bad" :> 2) @@ ("unavailable" :> 1) @@ Never
Inline     == ("inline" :> 1) @@ ("request" :> 1) @@ ("bad" :> 1) @@ ("pause" :> 1) @@ ("cancel" :> 1) @@ Never
Cancelling == ("request" :> 1) @@ ("deep" :> 1) @@ ("cancel" :> 1) @@ Never
Pausing    == ("request" :> 1) @@ ("pause" :> 1) @@ ("game" :> 2) @@ Never
Rebuilding == ("request" :> 1) @@ ("rebuild" :> 1) @@ ("trouble" :> 1) @@ Never
Clearing   == ("rebuild" :> 1) @@ ("read" :> 1) @@ Never
Comparing  == ("request" :> 1) @@ ("compare" :> 2) @@ Never
Reading    == ("request" :> 1) @@ ("read" :> 2) @@ ("compare" :> 1) @@ Never
Closing    == ("request" :> 1) @@ ("close" :> 1) @@ ("wait" :> 1) @@ ("compare" :> 1) @@ Never
MCCounts == {Loading, Working, Failing, Hanging, Starting, Inline, Cancelling, Pausing, Rebuilding, Clearing, Comparing, Reading, Closing}
=============================================================================

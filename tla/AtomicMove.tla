----------------------------- MODULE AtomicMove ------------------------------
(***************************************************************************)
(* What a live operation promises, seen by the owner of the saves: the     *)
(* files of its target slots all change to the moved save in one step, or  *)
(* none does.  Only the game changes a slot otherwise; and what the game   *)
(* wrote into a slot of an op that is not decided yet may be undone by it, *)
(* back to what the op had found.  How files, journal and recovery achieve *)
(* this is module LiveOps, which implements this specification.            *)
(***************************************************************************)
CONSTANTS Slots, Files, Ops

VARIABLES slots,   \* what each file of each slot holds
          fate,    \* op -> none, open (undecided), closed (moved or not) or left
          goal     \* op -> once it is planned: slot, file, old and new content

vars == <<slots, fate, goal>>

MovedBy(o) == [by |-> "op", n |-> o]
FromGame(c) == c.by = "game"

Init == /\ fate = [o \in Ops |-> "none"]
        /\ goal = [o \in Ops |-> {}]

Begin(o) == /\ fate[o] = "none" /\ fate' = [fate EXCEPT ![o] = "open"]
            /\ UNCHANGED <<slots, goal>>

\* An op is planned once, from what its slots hold, unless the game has just
\* written there.
Aim(o) == /\ fate[o] = "open" /\ goal[o] = {}
          /\ goal' = [goal EXCEPT ![o] = goal'[o]]
          /\ \A x \in goal'[o] :
               LET now == slots[x[1]][x[2]] IN
               (x[3] = now \/ FromGame(now)) /\ x[4] \in {x[3], MovedBy(o)}
          /\ UNCHANGED <<slots, fate>>

Decide(o) == /\ fate[o] = "open" /\ fate' = [fate EXCEPT ![o] = "closed"]
             /\ UNCHANGED goal

OnGoal(o, s, f)   == \E x \in goal[o] : x[1] = s /\ x[2] = f
AtGoal(o, s, f)   == \E x \in goal[o] : x[1] = s /\ x[2] = f /\ slots'[s][f] = x[4]
Untouched(s, f)   == slots'[s][f] = slots[s][f]

\* All of the op's files, save those the game wrote again since.
Move(o) ==
  /\ goal[o] # {}
  /\ Decide(o)
  /\ \A s \in Slots, f \in Files :
       \/ AtGoal(o, s, f)
       \/ Untouched(s, f) /\ (OnGoal(o, s, f) => FromGame(slots[s][f]))

NoMove(o) == Decide(o) /\ UNCHANGED slots

\* The owner leaves a slot that changed, or that could not be put back, as it
\* is: the only end with a mix of old and new files.
Leave(o) ==
  /\ fate[o] \in {"open", "closed"} /\ fate' = [fate EXCEPT ![o] = "left"]
  /\ \A s \in Slots, f \in Files :
       Untouched(s, f) \/ (fate[o] = "open" /\ AtGoal(o, s, f))
  /\ UNCHANGED goal

OneFile(s, f) ==
  /\ slots' = [slots EXCEPT ![s][f] = slots'[s][f]]
  /\ UNCHANGED <<fate, goal>>

PutBack(o, s, f) ==
  /\ fate[o] = "open" /\ FromGame(slots[s][f])
  /\ \E x \in goal[o] : x[1] = s /\ x[2] = f /\ slots'[s][f] = x[3]
  /\ OneFile(s, f)

\* The recovery of a move that was made may write it again.
MoveAgain(o, s, f) ==
  /\ fate[o] = "closed" /\ FromGame(slots[s][f])
  /\ \E x \in goal[o] : x[1] = s /\ x[2] = f /\ slots'[s][f] = x[4]
  /\ OneFile(s, f)

GameWrites(s, f) == OneFile(s, f) /\ FromGame(slots'[s][f])

Next ==
  \/ \E o \in Ops : Begin(o) \/ Aim(o) \/ Move(o) \/ NoMove(o) \/ Leave(o)
  \/ \E s \in Slots, f \in Files :
       GameWrites(s, f) \/ \E o \in Ops : PutBack(o, s, f) \/ MoveAgain(o, s, f)

Spec == Init /\ [][Next]_vars
=============================================================================

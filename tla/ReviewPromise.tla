----------------------------- MODULE ReviewPromise -----------------------------
(***************************************************************************)
(* What the review queue promises to who asks for a review, with no lease,    *)
(* invocation or journal in sight: a request is tried a bounded number of     *)
(* times; it is answered once, with the review of what was asked, or given up,  *)
(* but only when every try is spent; and then nothing more happens to it.      *)
(***************************************************************************)
EXTENDS Naturals

CONSTANTS Run, Request, AnswerTo(_), MaxTries, NotAsked, NoAnswer

VARIABLE fate
vars == <<fate>>

Fate(asked, tries, ended, answer) ==
  [asked |-> asked, tries |-> tries, ended |-> ended, answer |-> answer]

Unasked == Fate(NotAsked, 0, "no", NoAnswer)

Waiting(f) == f.asked # NotAsked /\ f.ended = "no"

Asked(f, g) == f = Unasked /\ \E q \in Request : g = Fate(q, 0, "no", NoAnswer)
Tried(f, g) ==
  Waiting(f) /\ f.tries < MaxTries /\ g = Fate(f.asked, f.tries + 1, "no", NoAnswer)
Answered(f, g) ==
  Waiting(f) /\ f.tries > 0 /\ g = Fate(f.asked, f.tries, "answered", AnswerTo(f.asked))
GivenUp(f, g) ==
  Waiting(f) /\ f.tries = MaxTries /\ g = Fate(f.asked, f.tries, "given up", NoAnswer)

Moves(f, g) == Asked(f, g) \/ Tried(f, g) \/ Answered(f, g) \/ GivenUp(f, g)

Init == fate = [r \in Run |-> Unasked]

\* One step may concern several runs: who takes one up gives up the exhausted ones.
Next ==
  /\ DOMAIN fate' = Run
  /\ \A r \in Run : fate'[r] = fate[r] \/ Moves(fate[r], fate'[r])

Spec == Init /\ [][Next]_vars
=============================================================================

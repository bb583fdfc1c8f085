----------------------------- MODULE Monitoring -----------------------------
(***************************************************************************)
(* What lone worker monitoring promises, session by session: once started, *)
(* a worker is watched, or in the hands of a responder, until the session  *)
(* ends; only a responder can dismiss the watch, and nobody's session ends *)
(* while a responder has them.                                             *)
(***************************************************************************)
CONSTANT Sessions

VARIABLE phase   \* of each session: see Phases

Phases == {
  "none",       \* not started
  "watched",    \* a safety check is scheduled
  "helped",     \* an incident is open
  "dismissed",  \* a responder closed the incident as real and scheduled no check
  "ended" }

Move(s, from, to) == phase[s] \in from /\ phase' = [phase EXCEPT ![s] = to]

Start(s) == Move(s, {"none"}, "watched")

\* A check is missed, or somebody raises the alarm.
Raise(s) == Move(s, {"watched", "dismissed"}, "helped")

\* The last open incident is closed and the watch goes on.
Resume(s) == Move(s, {"helped"}, "watched")

Dismiss(s) == Move(s, {"helped"}, "dismissed")

\* The worker checks in after all.
Return(s) == Move(s, {"dismissed"}, "watched")

End(s) == Move(s, {"watched", "dismissed"}, "ended")

Init == phase = [s \in Sessions |-> "none"]

Next ==
  \E s \in Sessions :
    Start(s) \/ Raise(s) \/ Resume(s) \/ Dismiss(s) \/ Return(s) \/ End(s)

Spec == Init /\ [][Next]_phase

=============================================================================

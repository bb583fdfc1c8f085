------------------------------ MODULE RotaSync ------------------------------
(***************************************************************************)
(* The rota planner of one browser tab against the server: the debounced   *)
(* autosave, the saves the user waits for, switching from plan to plan and *)
(* the loads that replace what is on screen                                *)
(* (frontend/contexts/rota-shifts-context.tsx and                          *)
(* components/rota/rota-calendar-client.tsx).                              *)
(*                                                                         *)
(* A save sends the whole plan, so the content of a plan is the set of     *)
(* edits it includes.  Requests run in parallel over HTTP: whether they    *)
(* arrive in order, and whether the user waits for what the page is        *)
(* waiting for, is fixed at the start, so that properties can ask for it.  *)
(***************************************************************************)
EXTENDS Integers, SequencesExt

CONSTANTS
  Plans,
  First,       \* the plan opened first
  Modes,       \* what the network, the user and the plans may be like, with bounds on
               \* changes of the staff pool, moves by the browser's buttons and failures
  MaxEdits,    \* bound: edits are 1 .. MaxEdits
  MaxWire      \* bound: saves in flight

VARIABLES
  mode,     \* Unopened, or the mode of this behaviour
  server,   \* the content stored of each plan
  url,      \* the plan the address names
  rotaPlanId, \* the plan the planner shows and saves to
  content,  \* what it shows
  saveTimer, \* the autosave is due
  load,     \* the load in progress, and its answer
  wire,     \* saves in flight
  leaving,  \* the plan to go to once the save in flight is answered
  chain,    \* how far a save before publishing has come, and the plan it is for
  owner,    \* ghost: of the edits made, in order, the plan each was made on
  dropped,  \* ghost: edits given up by something other than a switch
  blind,    \* ghost: the load in progress was not asked for by a switch of the page's own
  left      \* what is left of the bounds on pools, jumps and failures

syncVars == <<mode, server, url, rotaPlanId, content, saveTimer, load, wire, leaving, chain,
          owner, dropped, blind, left>>

Edits == 1 .. MaxEdits
NoPlan == "no plan"
NoData == [none |-> TRUE]    \* a plan that was created and never saved
Data(S) == [set |-> S]
Unopened == [left |-> [pools |-> 0, jumps |-> 0, fails |-> 0]]
Idle == [phase |-> "idle"]
NoChain == [step |-> 0]

Made == DOMAIN owner
EditsIn(d) == IF d = NoData THEN {} ELSE d.set
\* The planner is on screen, not the spinner (planLoading).
Visible == mode # Unopened /\ load = Idle /\ rotaPlanId # NoPlan
\* A save somebody waits for is in flight.
Awaited == leaving # NoPlan \/ chain # NoChain
\* A careful user waits for it, and leaves a page alone whose load failed, which
\* shows the plan before under the new address.
MayAct == Visible /\ (mode.careful => ~Awaited /\ url = rotaPlanId)

page == <<url, rotaPlanId, content, saveTimer, load, leaving, chain>>
ghosts == <<owner, dropped, blind>>

----------------------------------------------------------------------------
(* Saving.                                                                 *)

\* Mutant: the save of a switch is sent for the plan switched to.
Save_Target(plan, by) ==
  [plan |-> IF by = "leave" THEN leaving' ELSE plan, set |-> content, by |-> by]

\* The plan of the render that asked, and the content at the time of sending.
Save(plan, by) == [plan |-> plan, set |-> content, by |-> by]

Send(save) == Len(wire) < MaxWire /\ wire' = Append(wire, save)

\* Mutant: the change does not restart the timer.
Edit_Quiet(e) ==
  /\ MayAct
  /\ e = Len(owner) + 1
  /\ content' = content \cup {e}
  /\ owner' = Append(owner, rotaPlanId)
  /\ UNCHANGED <<mode, server, url, rotaPlanId, saveTimer, load, wire, leaving, chain, dropped,
                 blind, left>>

Edit(e) ==
  /\ MayAct
  /\ e = Len(owner) + 1
  /\ content' = content \cup {e}
  /\ owner' = Append(owner, rotaPlanId)
  /\ saveTimer' = TRUE
  /\ UNCHANGED <<mode, server, url, rotaPlanId, load, wire, leaving, chain, dropped, blind, left>>

\* 1.5 seconds after the last change of state.
Fire ==
  /\ saveTimer
  /\ saveTimer' = FALSE
  /\ Send(Save(rotaPlanId, "auto"))
  /\ UNCHANGED <<mode, server, url, rotaPlanId, content, load, leaving, chain, ghosts, left>>

\* saveRotaPlan, awaited before the switch.
GoToPlan(p) ==
  /\ MayAct /\ leaving = NoPlan /\ p # url
  /\ leaving' = p
  /\ Send(Save(rotaPlanId, "leave"))
  /\ UNCHANGED <<mode, server, url, rotaPlanId, content, saveTimer, load, chain, ghosts, left>>

\* Attendance of a published employee: saveRotaPlan, then publishRota, which saves
\* again.
Publish ==
  /\ MayAct /\ chain = NoChain
  /\ chain' = [step |-> 1, plan |-> rotaPlanId]
  /\ Send(Save(rotaPlanId, "chain"))
  /\ UNCHANGED <<mode, server, url, rotaPlanId, content, saveTimer, load, leaving, ghosts, left>>

----------------------------------------------------------------------------
(* Loading.                                                                *)

Loading == load' = [phase |-> "sent"]

\* Mutant: a switch goes on when its save has failed.
Answered_Anyway(save, ok) ==
  \/ /\ save.by = "auto"
     /\ UNCHANGED page
  \/ /\ save.by = "leave"
     /\ leaving' = NoPlan
     /\ url' = leaving /\ Loading
     /\ UNCHANGED <<rotaPlanId, content, saveTimer, chain>>
  \/ /\ save.by = "chain"
     /\ chain' = IF ok /\ chain.step = 1 THEN [chain EXCEPT !.step = 2] ELSE NoChain
     /\ UNCHANGED <<url, rotaPlanId, content, saveTimer, load, leaving>>

\* What a page does when the answer of its save arrives.
Answered(save, ok) ==
  \/ /\ save.by = "auto"
     /\ UNCHANGED page
  \/ /\ save.by = "leave"
     /\ leaving' = NoPlan
     /\ IF ok THEN url' = leaving /\ Loading ELSE UNCHANGED <<url, load>>
     /\ UNCHANGED <<rotaPlanId, content, saveTimer, chain>>
  \/ /\ save.by = "chain"
     /\ chain' = IF ok /\ chain.step = 1 THEN [chain EXCEPT !.step = 2] ELSE NoChain
     /\ UNCHANGED <<url, rotaPlanId, content, saveTimer, load, leaving>>

\* The saves still in flight, with the one that follows a first save.
Rest(i, ok) ==
  RemoveAt(wire, i) \o IF ok /\ wire[i].by = "chain" /\ chain.step = 1
                         THEN <<Save(chain.plan, "chain")>> ELSE <<>>

Next_(i) == mode.ordered => i = 1

\* The server stores the plan and the page sees the answer.
Stored(i) ==
  /\ i \in DOMAIN wire /\ Next_(i)
  /\ server' = [server EXCEPT ![wire[i].plan] = Data(wire[i].set)]
  /\ Answered(wire[i], TRUE)
  /\ wire' = Rest(i, TRUE)
  /\ blind' = (blind /\ url' = url)
  /\ UNCHANGED <<mode, owner, dropped, left>>

\* Where an edit still is.
Alive(e) ==
  \/ e \in EditsIn(server[owner[e]])
  \/ rotaPlanId = owner[e] /\ e \in content
  \/ \E i \in DOMAIN wire : wire[i].plan = owner[e] /\ e \in wire[i].set

GivenUp == {e \in Made : Alive(e) /\ ~Alive(e)'}

\* The request fails, or only its answer: an autosave says nothing, the others stop.
Fails(i, stored) ==
  /\ i \in DOMAIN wire /\ Next_(i)
  /\ left.fails > 0 /\ left' = [left EXCEPT !.fails = @ - 1]
  /\ server' = IF stored THEN [server EXCEPT ![wire[i].plan] = Data(wire[i].set)] ELSE server
  /\ Answered(wire[i], FALSE)
  /\ wire' = Rest(i, FALSE)
  /\ blind' = (blind /\ url' = url)
  /\ UNCHANGED <<mode, owner>>
  /\ dropped' = dropped \cup GivenUp

LoadServed ==
  /\ load = [phase |-> "sent"]
  /\ load' = [phase |-> "answered", data |-> server[url]]
  /\ UNCHANGED <<mode, server, url, rotaPlanId, content, saveTimer, wire, leaving, chain, ghosts, left>>

\* Swallowed: the plan before is still on screen, under the new address.
LoadFails ==
  /\ load = [phase |-> "sent"]
  /\ left.fails > 0 /\ left' = [left EXCEPT !.fails = @ - 1]
  /\ load' = Idle
  /\ blind' = TRUE
  /\ UNCHANGED <<mode, server, url, rotaPlanId, content, saveTimer, wire, leaving, chain, owner, dropped>>

\* A plan without data changes the name and the days and leaves the rest on screen.
\* The new state restarts the timer.
LoadRotaPlan ==
  /\ load.phase = "answered"
  /\ load' = Idle
  /\ rotaPlanId' = url
  /\ content' = IF load.data = NoData THEN content ELSE EditsIn(load.data)
  /\ saveTimer' = TRUE
  /\ blind' = TRUE
  /\ UNCHANGED <<mode, server, url, wire, leaving, chain, owner, left>>
  /\ dropped' = IF ~blind THEN dropped
                ELSE dropped \cup GivenUp
                       \cup {e \in Made : owner[e] = url /\ e \notin EditsIn(load.data)}

\* The staff pool arrives or is refreshed: names on screen change, and the load
\* effect runs again, for its callback has changed.
PoolChange ==
  /\ mode # Unopened
  /\ left.pools > 0 /\ left' = [left EXCEPT !.pools = @ - 1]
  /\ Loading
  /\ saveTimer' = (rotaPlanId # NoPlan)
  /\ blind' = (blind \/ url = rotaPlanId)
  /\ UNCHANGED <<mode, server, url, rotaPlanId, content, wire, leaving, chain, owner, dropped>>

\* Back, forward or a link: the address changes without a save.
Jump(p) ==
  /\ mode # Unopened /\ ~(mode.careful /\ Awaited) /\ p # url
  /\ left.jumps > 0 /\ left' = [left EXCEPT !.jumps = @ - 1]
  /\ url' = p
  /\ Loading
  /\ blind' = TRUE
  /\ UNCHANGED <<mode, server, rotaPlanId, content, saveTimer, wire, leaving, chain, owner, dropped>>

----------------------------------------------------------------------------
Open(m) ==
  /\ mode = Unopened
  /\ mode' = m
  /\ server' = [p \in Plans |-> IF m.bare /\ p # First THEN NoData ELSE Data({})]
  /\ Loading
  /\ left' = m.left
  /\ UNCHANGED <<url, rotaPlanId, content, saveTimer, wire, leaving, chain, ghosts>>

SyncInit ==
  /\ mode = Unopened
  /\ server = [p \in Plans |-> NoData]
  /\ url = First
  /\ rotaPlanId = NoPlan
  /\ content = {}
  /\ saveTimer = FALSE
  /\ load = Idle
  /\ wire = <<>>
  /\ leaving = NoPlan
  /\ chain = NoChain
  /\ owner = <<>>
  /\ dropped = {}
  /\ blind = TRUE
  /\ left = Unopened.left

SyncNext ==
  \/ \E m \in Modes : Open(m)
  \/ \E e \in Edits : Edit(e)
  \/ Fire
  \/ \E p \in Plans : GoToPlan(p) \/ Jump(p)
  \/ Publish
  \/ \E i \in 1 .. MaxWire : Stored(i) \/ \E stored \in BOOLEAN : Fails(i, stored)
  \/ LoadServed \/ LoadFails \/ LoadRotaPlan
  \/ PoolChange

\* The browser fires its timers and requests are answered; of the user nothing is
\* assumed.
SyncFairness ==
  /\ WF_syncVars(Fire)
  /\ WF_syncVars(\E i \in 1 .. MaxWire : Stored(i))
  /\ WF_syncVars(LoadServed) /\ WF_syncVars(LoadRotaPlan)

SyncSpec == SyncInit /\ [][SyncNext]_syncVars /\ SyncFairness

----------------------------------------------------------------------------
SyncTypeOK ==
  /\ mode \in Modes \cup {Unopened}
  /\ server \in [Plans -> {NoData} \cup [set : SUBSET Edits]]
  /\ url \in Plans /\ rotaPlanId \in Plans \cup {NoPlan} /\ leaving \in Plans \cup {NoPlan}
  /\ content \subseteq Edits /\ dropped \subseteq Edits
  /\ wire \in Seq([plan : Plans, set : SUBSET Edits, by : {"auto", "leave", "chain"}])

\* No plan is stored with an edit made on another one, in whatever order requests
\* arrive, fail or are overtaken by loads.  It takes a user who waits for the saves
\* the page waits for, and plans saved once before.
NoForeign ==
  mode # Unopened /\ mode.careful /\ ~mode.bare =>
    \A p \in Plans : \A e \in EditsIn(server[p]) : owner[e] = p

Lost == {e \in Made : ~Alive(e)} \ dropped

\* With requests in order and a user who waits, no edit is lost by switching plans,
\* however autosaves, saves before publishing, failures and reloads fall; what is
\* lost went with a failed autosave, a reload or a move the page knew nothing of.
LeftIsSaved == mode # Unopened /\ mode.careful /\ mode.ordered => Lost = {}

\* "Flushes the debounced autosave first so switching rotas cannot drop recent
\* edits", also while the user goes on editing.
SwitchKeepsEdits == mode # Unopened /\ mode.ordered => Lost = {}

Saved == {e \in Made : e \in EditsIn(server[owner[e]])}

\* With requests in order and a user who waits, an edit reaches the server unless a
\* request fails or it is dropped.
EventuallySaved ==
  \A e \in Edits :
    (e \in Made /\ mode.careful /\ mode.ordered) ~>
      (e \in Saved \/ e \in dropped \/ left.fails < mode.left.fails)

=============================================================================

------------------------------ MODULE Session ------------------------------
(***************************************************************************)
(* Signing in and out in a browser with several tabs open                  *)
(* (frontend/contexts/auth-context.tsx, lib/session-sync.ts and the        *)
(* handling of 401 in lib/api.ts).  The tabs share one token in            *)
(* localStorage; each keeps in memory the user it shows, and hears of a    *)
(* sign-out elsewhere from storage events and a broadcast channel.         *)
(*                                                                         *)
(* A token stands for the user it was issued to.  Support sessions, which  *)
(* keep a second token aside, are left out.                                *)
(***************************************************************************)
EXTENDS Integers

CONSTANTS
  Tabs,
  MaxTokens   \* bound: sign-ins, and sessions the server ends by itself

VARIABLES
  token,   \* the token stored, NoToken if none
  issued,  \* how many the server issued: tokens are 1 .. issued
  valid,   \* those the server still accepts
  user,    \* what each tab shows: the token whose user it is, NoToken when signed out
  request, \* each tab's request in flight (bound: one)
  inbox,   \* news of a sign-out each tab has yet to handle
  late     \* ghost: tabs that were signed in by an answer a sign-out had overtaken

sessionVars == <<token, issued, valid, user, request, inbox, late>>

NoToken == 0
Tokens == 1 .. MaxTokens
NoRequest == [kind |-> "none"]
\* The page is loading and has not read the token yet.
Booting == [kind |-> "booting"]
Kinds == {"mount", "login", "work", "logout"}

Asking(kind, k) == [kind |-> kind, token |-> k, answer |-> "none", overtaken |-> FALSE]
InFlight(t) == request[t].kind \in Kinds

----------------------------------------------------------------------------
(* Storage and its events.                                                 *)

\* A storage event fires in the other tabs, and only if there was a token.
StorageEvents(t) ==
  [x \in Tabs |-> IF x # t /\ token # NoToken THEN 1 ELSE 0]

\* A message reaches every listener, the sender's own too.
Messages == [x \in Tabs |-> 1]
Nothing == [x \in Tabs |-> 0]

\* A tab that is loading has no listener.
Post(events, messages) ==
  inbox' = [x \in Tabs |-> IF request'[x] = Booting THEN 0
                           ELSE inbox[x] + events[x] + messages[x]]

ClearSession == token' = NoToken
Show(t, k) == user' = [user EXCEPT ![t] = k]
Ends(t, next) == request' = [request EXCEPT ![t] = next]

----------------------------------------------------------------------------
(* The user.                                                               *)

\* The answer of the login, the token stored and the request for the user are one
\* step: nothing is awaited between them.
Login(t) ==
  /\ request[t] = NoRequest /\ user[t] = NoToken
  /\ issued < MaxTokens /\ issued' = issued + 1
  /\ token' = issued'
  /\ valid' = valid \cup {issued'}
  /\ Ends(t, Asking("login", issued'))
  /\ UNCHANGED <<user, inbox, late>>

\* Any call of the API made from the page.
Work(t) ==
  /\ request[t] = NoRequest /\ user[t] # NoToken
  /\ Ends(t, Asking("work", token))
  /\ UNCHANGED <<token, issued, valid, user, inbox, late>>

Logout(t) ==
  /\ request[t] = NoRequest /\ user[t] # NoToken
  /\ Ends(t, Asking("logout", token))
  /\ UNCHANGED <<token, issued, valid, user, inbox, late>>

\* Reloading loses what the tab keeps in memory, its listeners and its inbox.
Restart(t) ==
  /\ Ends(t, Booting)
  /\ Show(t, NoToken)
  /\ late' = late \ {t}

Reload(t) ==
  /\ request[t] # Booting
  /\ Restart(t)
  /\ Post(Nothing, Nothing)
  /\ UNCHANGED <<token, issued, valid>>

\* The effect of AuthProvider on a fresh page.
Mount(t) ==
  /\ request[t] = Booting
  /\ Ends(t, IF token = NoToken THEN NoRequest ELSE Asking("mount", token))
  /\ UNCHANGED <<token, issued, valid, user, inbox, late>>

----------------------------------------------------------------------------
(* The server.                                                             *)

Serve(t) ==
  LET r == request[t] IN
  /\ InFlight(t) /\ r.answer = "none"
  /\ Ends(t, [r EXCEPT !.answer = IF r.token \in valid THEN "ok" ELSE "401"])
  /\ valid' = IF r.kind = "logout" THEN valid \ {r.token} ELSE valid
  /\ UNCHANGED <<token, issued, user, inbox, late>>

\* Expired, or ended by an administrator or a change of password.
Expire(k) ==
  /\ k \in valid
  /\ valid' = valid \ {k}
  /\ UNCHANGED <<token, issued, user, request, inbox, late>>

----------------------------------------------------------------------------
(* Answers.                                                                *)

\* clearSession, and for a logout the broadcast before it.
SignOut(t, messages) ==
  /\ ClearSession
  /\ Show(t, NoToken)
  /\ late' = late \ {t}
  /\ Post(StorageEvents(t), messages)

AnswerOk(t) ==
  LET r == request[t] IN
  /\ InFlight(t) /\ r.answer = "ok"
  /\ Ends(t, NoRequest)
  /\ \/ /\ r.kind \in {"mount", "login"}
        /\ Show(t, r.token)
        /\ late' = IF r.overtaken THEN late \cup {t} ELSE late
        /\ UNCHANGED <<token, inbox>>
     \/ /\ r.kind = "work"
        /\ UNCHANGED <<token, user, inbox, late>>
     \/ /\ r.kind = "logout"
        /\ SignOut(t, Messages)
  /\ UNCHANGED <<issued, valid>>

\* Mutant: other tabs are not told that the token went.
Answer401_Quiet(t) ==
  /\ InFlight(t) /\ request[t].answer = "401" /\ request[t].token # NoToken
  /\ Restart(t)
  /\ ClearSession
  /\ Post(Nothing, IF request[t].kind = "logout" THEN Messages ELSE Nothing)
  /\ UNCHANGED <<issued, valid>>

\* The handler removes whatever token is stored by now and loads the login page; a
\* logout still broadcasts.
Answer401(t) ==
  /\ InFlight(t) /\ request[t].answer = "401" /\ request[t].token # NoToken
  /\ Restart(t)
  /\ ClearSession
  /\ Post(StorageEvents(t), IF request[t].kind = "logout" THEN Messages ELSE Nothing)
  /\ UNCHANGED <<issued, valid>>

\* Sent without a token, a call only fails; a logout goes on.
AnswerUnsigned(t) ==
  /\ InFlight(t) /\ request[t].answer = "401" /\ request[t].token = NoToken
  /\ Ends(t, NoRequest)
  /\ IF request[t].kind = "logout" THEN SignOut(t, Messages)
                                   ELSE UNCHANGED <<token, user, inbox, late>>
  /\ UNCHANGED <<issued, valid>>

\* No answer, or an error of the server: loading the page signs out on any error, a
\* login leaves the token it stored.
NoAnswer(t) ==
  /\ InFlight(t)
  /\ Ends(t, NoRequest)
  /\ CASE request[t].kind = "mount" -> SignOut(t, Nothing)
       [] request[t].kind = "logout" -> SignOut(t, Messages)
       [] OTHER -> UNCHANGED <<token, user, inbox, late>>
  /\ UNCHANGED <<issued, valid>>

\* Mutant: news is ignored by a tab that is waiting for an answer.
HandleSignOut_Idle(t) ==
  /\ inbox[t] > 0
  /\ IF InFlight(t)
       THEN /\ inbox' = [inbox EXCEPT ![t] = @ - 1]
            /\ UNCHANGED <<token, user, request, late>>
       ELSE /\ UNCHANGED request
            /\ ClearSession /\ Show(t, NoToken) /\ late' = late \ {t}
            /\ inbox' = [x \in Tabs |-> inbox[x] + StorageEvents(t)[x] - (IF x = t THEN 1 ELSE 0)]
  /\ UNCHANGED <<issued, valid>>

\* onRemoteLogout: the tab signs out too, and removes whatever token is stored by
\* now.  An answer in flight is not cancelled.
HandleSignOut(t) ==
  /\ inbox[t] > 0
  /\ request' = IF InFlight(t) THEN [request EXCEPT ![t].overtaken = TRUE] ELSE request
  /\ ClearSession
  /\ Show(t, NoToken)
  /\ late' = late \ {t}
  /\ inbox' = [x \in Tabs |-> inbox[x] + StorageEvents(t)[x] - (IF x = t THEN 1 ELSE 0)]
  /\ UNCHANGED <<issued, valid>>

----------------------------------------------------------------------------
SessionInit ==
  /\ token = NoToken
  /\ issued = 0
  /\ valid = {}
  /\ user = [t \in Tabs |-> NoToken]
  /\ request = [t \in Tabs |-> Booting]
  /\ inbox = [t \in Tabs |-> 0]
  /\ late = {}

TabStep(t) ==
  \/ Login(t) \/ Work(t) \/ Logout(t) \/ Reload(t) \/ Mount(t)
  \/ Serve(t)
  \/ AnswerOk(t) \/ Answer401(t) \/ AnswerUnsigned(t) \/ NoAnswer(t)
  \/ HandleSignOut(t)

SessionNext ==
  \/ \E t \in Tabs : TabStep(t)
  \/ \E k \in Tokens : Expire(k)

\* A tab handles its events; of the user and the server nothing is assumed.
SessionFairness == \A t \in Tabs : WF_sessionVars(HandleSignOut(t))

SessionSpec == SessionInit /\ [][SessionNext]_sessionVars /\ SessionFairness

----------------------------------------------------------------------------
SessionTypeOK ==
  /\ token \in Tokens \cup {NoToken}
  /\ issued \in 0 .. MaxTokens /\ valid \subseteq 1 .. issued
  /\ user \in [Tabs -> 0 .. issued]
  /\ inbox \in [Tabs -> Nat]
  /\ late \subseteq Tabs

\* A tab shows a user without a token stored only while news of the sign-out is on
\* its way to it, or because an answer came to it after that news
\* ("Keeps every open tab agreed on whether we are signed in.").
TabsAgree ==
  token = NoToken =>
    \A t \in Tabs : user[t] # NoToken => inbox[t] > 0 \/ t \in late

\* When the token is gone, every tab signs out, unless somebody signs in again or an
\* answer was overtaken.
SignOutSpreads ==
  token = NoToken ~>
    (token # NoToken \/ \A t \in Tabs : user[t] = NoToken \/ t \in late)

=============================================================================

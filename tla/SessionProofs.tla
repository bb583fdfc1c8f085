--------------------------- MODULE SessionProofs ---------------------------
(***************************************************************************)
(* The tabs of a browser agree on whether somebody is signed in, for any   *)
(* number of tabs and however reloads, answers, errors and news of         *)
(* sign-outs interleave.                                                   *)
(***************************************************************************)
EXTENDS Session, TLAPS

\* What a tab may have in flight, of the tokens issued so far; the stored one is of those.
Asked == [kind : Kinds, token : 0 .. issued, answer : {"none", "ok", "401"}, overtaken : BOOLEAN]
RequestsOK == request \in [Tabs -> {NoRequest, Booting} \cup Asked] /\ token <= issued

\* A page that loads shows nobody.
LoadingShowsNobody == \A t \in Tabs : request[t] = Booting => user[t] = NoToken

\* The answer of this request shows a user.
ShowsUser(t) == request[t].kind \in {"mount", "login"}

\* A tab about to be signed in by an answer, while no token is stored, was overtaken by
\* the sign-out or has yet to hear of it.
AnswerHears ==
  \A t \in Tabs : ShowsUser(t) /\ token = NoToken => request[t].overtaken \/ inbox[t] > 0

SessionInv == SessionTypeOK /\ RequestsOK /\ LoadingShowsNobody /\ AnswerHears /\ TabsAgree

-----------------------------------------------------------------------------
\* One lemma per action.

USE DEF NoToken, NoRequest, Booting, Kinds, Tokens, InFlight, ShowsUser, Ends, Show

\* A login stores a token.
LEMMA LoginKeeps ==
  ASSUME MaxTokens \in Nat, SessionInv, NEW t \in Tabs, Login(t)
  PROVE  SessionInv'
<1>1. SessionTypeOK' /\ RequestsOK'
  BY DEF SessionInv, SessionTypeOK, RequestsOK, Asked, Login, Asking
<1>2. LoadingShowsNobody'
  BY DEF SessionInv, SessionTypeOK, RequestsOK, Asked, LoadingShowsNobody, Login, Asking
<1>3. AnswerHears'
  BY DEF SessionInv, SessionTypeOK, RequestsOK, Asked, AnswerHears, LoadingShowsNobody, Login,
     Asking
<1>4. TabsAgree'
  BY DEF SessionInv, SessionTypeOK, RequestsOK, Asked, AnswerHears, LoadingShowsNobody, TabsAgree,
         Login, Asking
<1>5. QED
  BY <1>1, <1>2, <1>3, <1>4 DEF SessionInv

\* A call is sent with the token stored.
LEMMA WorkKeeps ==
  ASSUME MaxTokens \in Nat, SessionInv, NEW t \in Tabs, Work(t)
  PROVE  SessionInv'
<1>1. SessionTypeOK' /\ RequestsOK'
  BY DEF SessionInv, SessionTypeOK, RequestsOK, Asked, Work, Asking
<1>2. LoadingShowsNobody'
  BY DEF SessionInv, SessionTypeOK, RequestsOK, Asked, LoadingShowsNobody, Work, Asking
<1>3. AnswerHears'
  BY DEF SessionInv, SessionTypeOK, RequestsOK, Asked, AnswerHears, LoadingShowsNobody, Work,
     Asking
<1>4. TabsAgree'
  BY DEF SessionInv, SessionTypeOK, RequestsOK, Asked, AnswerHears, LoadingShowsNobody, TabsAgree,
         Work, Asking
<1>5. QED
  BY <1>1, <1>2, <1>3, <1>4 DEF SessionInv

\* So is a logout.
LEMMA LogoutKeeps ==
  ASSUME MaxTokens \in Nat, SessionInv, NEW t \in Tabs, Logout(t)
  PROVE  SessionInv'
<1>1. SessionTypeOK' /\ RequestsOK'
  BY DEF SessionInv, SessionTypeOK, RequestsOK, Asked, Logout, Asking
<1>2. LoadingShowsNobody'
  BY DEF SessionInv, SessionTypeOK, RequestsOK, Asked, LoadingShowsNobody, Logout, Asking
<1>3. AnswerHears'
  BY DEF SessionInv, SessionTypeOK, RequestsOK, Asked, AnswerHears, LoadingShowsNobody, Logout,
     Asking
<1>4. TabsAgree'
  BY DEF SessionInv, SessionTypeOK, RequestsOK, Asked, AnswerHears, LoadingShowsNobody, TabsAgree,
         Logout, Asking
<1>5. QED
  BY <1>1, <1>2, <1>3, <1>4 DEF SessionInv

\* A page that loaded asks for its user if a token is stored.
LEMMA MountKeeps ==
  ASSUME MaxTokens \in Nat, SessionInv, NEW t \in Tabs, Mount(t)
  PROVE  SessionInv'
<1>1. SessionTypeOK' /\ RequestsOK'
  BY DEF SessionInv, SessionTypeOK, RequestsOK, Asked, Mount, Asking
<1>2. LoadingShowsNobody'
  BY DEF SessionInv, SessionTypeOK, RequestsOK, Asked, LoadingShowsNobody, Mount, Asking
<1>3. AnswerHears'
  BY DEF SessionInv, SessionTypeOK, RequestsOK, Asked, AnswerHears, LoadingShowsNobody, Mount,
     Asking
<1>4. TabsAgree'
  BY DEF SessionInv, SessionTypeOK, RequestsOK, Asked, AnswerHears, LoadingShowsNobody, TabsAgree,
         Mount, Asking
<1>5. QED
  BY <1>1, <1>2, <1>3, <1>4 DEF SessionInv

\* A page that reloads shows nobody and forgets its news.
LEMMA ReloadKeeps ==
  ASSUME MaxTokens \in Nat, SessionInv, NEW t \in Tabs, Reload(t)
  PROVE  SessionInv'
<1>1. SessionTypeOK' /\ RequestsOK'
  BY DEF SessionInv, SessionTypeOK, RequestsOK, Asked, Reload, Restart, Post, Nothing
<1>2. LoadingShowsNobody'
  BY DEF SessionInv, SessionTypeOK, RequestsOK, Asked, LoadingShowsNobody, Reload, Restart, Post,
     Nothing
<1>3. AnswerHears'
  BY DEF SessionInv, SessionTypeOK, RequestsOK, Asked, AnswerHears, LoadingShowsNobody, Reload,
     Restart, Post, Nothing
<1>4. TabsAgree'
  BY DEF SessionInv, SessionTypeOK, RequestsOK, Asked, AnswerHears, LoadingShowsNobody, TabsAgree,
         Reload, Restart, Post, Nothing
<1>5. QED
  BY <1>1, <1>2, <1>3, <1>4 DEF SessionInv

\* The server answers, and may end the session.
LEMMA ServeKeeps ==
  ASSUME MaxTokens \in Nat, SessionInv, NEW t \in Tabs, Serve(t)
  PROVE  SessionInv'
<1>1. SessionTypeOK' /\ RequestsOK'
  BY DEF SessionInv, SessionTypeOK, RequestsOK, Asked, Serve
<1>2. LoadingShowsNobody'
  BY DEF SessionInv, SessionTypeOK, RequestsOK, Asked, LoadingShowsNobody, Serve
<1>3. AnswerHears'
  BY DEF SessionInv, SessionTypeOK, RequestsOK, Asked, AnswerHears, LoadingShowsNobody, Serve
<1>4. TabsAgree'
  BY DEF SessionInv, SessionTypeOK, RequestsOK, Asked, AnswerHears, LoadingShowsNobody, TabsAgree,
         Serve
<1>5. QED
  BY <1>1, <1>2, <1>3, <1>4 DEF SessionInv

\* An answer signs its tab in or out; a tab it signs in too late is marked.
LEMMA AnswerOkKeeps ==
  ASSUME MaxTokens \in Nat, SessionInv, NEW t \in Tabs, AnswerOk(t)
  PROVE  SessionInv'
<1>1. SessionTypeOK' /\ RequestsOK'
  BY DEF SessionInv, SessionTypeOK, RequestsOK, Asked, AnswerOk, SignOut, ClearSession, Post,
     StorageEvents, Messages
<1>2. LoadingShowsNobody'
  BY DEF SessionInv, SessionTypeOK, RequestsOK, Asked, LoadingShowsNobody, AnswerOk, SignOut,
     ClearSession, Post, StorageEvents, Messages
<1>3. AnswerHears'
  BY DEF SessionInv, SessionTypeOK, RequestsOK, Asked, AnswerHears, LoadingShowsNobody, AnswerOk,
     SignOut, ClearSession, Post, StorageEvents, Messages
<1>4. TabsAgree'
  BY DEF SessionInv, SessionTypeOK, RequestsOK, Asked, AnswerHears, LoadingShowsNobody, TabsAgree,
         AnswerOk, SignOut, ClearSession, Post, StorageEvents, Messages
<1>5. QED
  BY <1>1, <1>2, <1>3, <1>4 DEF SessionInv

\* A token refused is removed, and every other tab hears of it.
LEMMA Answer401Keeps ==
  ASSUME MaxTokens \in Nat, SessionInv, NEW t \in Tabs, Answer401(t)
  PROVE  SessionInv'
<1>1. SessionTypeOK' /\ RequestsOK'
  BY DEF SessionInv, SessionTypeOK, RequestsOK, Asked, Answer401, Restart, ClearSession, Post,
     StorageEvents, Messages, Nothing
<1>2. LoadingShowsNobody'
  BY DEF SessionInv, SessionTypeOK, RequestsOK, Asked, LoadingShowsNobody, Answer401, Restart,
     ClearSession, Post, StorageEvents, Messages, Nothing
<1>3. AnswerHears'
  BY DEF SessionInv, SessionTypeOK, RequestsOK, Asked, AnswerHears, LoadingShowsNobody,
     Answer401, Restart, ClearSession, Post, StorageEvents, Messages, Nothing
<1>4. TabsAgree'
  BY DEF SessionInv, SessionTypeOK, RequestsOK, Asked, AnswerHears, LoadingShowsNobody, TabsAgree,
         Answer401, Restart, ClearSession, Post, StorageEvents, Messages, Nothing
<1>5. QED
  BY <1>1, <1>2, <1>3, <1>4 DEF SessionInv

\* A call refused for want of a token changes nothing, unless it is a logout.
LEMMA AnswerUnsignedKeeps ==
  ASSUME MaxTokens \in Nat, SessionInv, NEW t \in Tabs, AnswerUnsigned(t)
  PROVE  SessionInv'
<1>1. SessionTypeOK' /\ RequestsOK'
  BY DEF SessionInv, SessionTypeOK, RequestsOK, Asked, AnswerUnsigned, SignOut, ClearSession,
     Post, StorageEvents, Messages
<1>2. LoadingShowsNobody'
  BY DEF SessionInv, SessionTypeOK, RequestsOK, Asked, LoadingShowsNobody, AnswerUnsigned,
     SignOut, ClearSession, Post, StorageEvents, Messages
<1>3. AnswerHears'
  BY DEF SessionInv, SessionTypeOK, RequestsOK, Asked, AnswerHears, LoadingShowsNobody,
     AnswerUnsigned, SignOut, ClearSession, Post, StorageEvents, Messages
<1>4. TabsAgree'
  BY DEF SessionInv, SessionTypeOK, RequestsOK, Asked, AnswerHears, LoadingShowsNobody, TabsAgree,
         AnswerUnsigned, SignOut, ClearSession, Post, StorageEvents, Messages
<1>5. QED
  BY <1>1, <1>2, <1>3, <1>4 DEF SessionInv

\* An error of the server signs a loading page out, and every other tab hears of it.
LEMMA NoAnswerKeeps ==
  ASSUME MaxTokens \in Nat, SessionInv, NEW t \in Tabs, NoAnswer(t)
  PROVE  SessionInv'
<1>1. SessionTypeOK' /\ RequestsOK'
  BY DEF SessionInv, SessionTypeOK, RequestsOK, Asked, NoAnswer, SignOut, ClearSession, Post,
     StorageEvents, Messages, Nothing
<1>2. LoadingShowsNobody'
  BY DEF SessionInv, SessionTypeOK, RequestsOK, Asked, LoadingShowsNobody, NoAnswer, SignOut,
     ClearSession, Post, StorageEvents, Messages, Nothing
<1>3. AnswerHears'
  BY DEF SessionInv, SessionTypeOK, RequestsOK, Asked, AnswerHears, LoadingShowsNobody, NoAnswer,
     SignOut, ClearSession, Post, StorageEvents, Messages, Nothing
<1>4. TabsAgree'
  BY DEF SessionInv, SessionTypeOK, RequestsOK, Asked, AnswerHears, LoadingShowsNobody, TabsAgree,
         NoAnswer, SignOut, ClearSession, Post, StorageEvents, Messages, Nothing
<1>5. QED
  BY <1>1, <1>2, <1>3, <1>4 DEF SessionInv

\* News of a sign-out signs the tab out and marks what it has in flight as overtaken.
LEMMA HandleSignOutKeeps ==
  ASSUME MaxTokens \in Nat, SessionInv, NEW t \in Tabs, HandleSignOut(t)
  PROVE  SessionInv'
<1>1. SessionTypeOK'
  BY DEF SessionInv, SessionTypeOK, HandleSignOut, ClearSession, StorageEvents
<1>2. /\ RequestsOK'
      /\ \A x \in Tabs : /\ request'[x] = Booting <=> request[x] = Booting
                       /\ request'[x].kind = request[x].kind
                       /\ x # t => request'[x] = request[x]
      /\ InFlight(t) => request'[t].overtaken
  <2>1. CASE InFlight(t)
    <3>1. request[t] \in Asked /\ request' = [request EXCEPT ![t] = [request[t] EXCEPT !.overtaken = TRUE]]
      BY <2>1 DEF SessionInv, RequestsOK, HandleSignOut
    <3>2. [request[t] EXCEPT !.overtaken = TRUE] \in Asked
      BY <3>1 DEF Asked
    <3>3. /\ [request[t] EXCEPT !.overtaken = TRUE].kind = request[t].kind
          /\ [request[t] EXCEPT !.overtaken = TRUE].overtaken
      BY <3>1 DEF Asked
    <3>4. QED
      BY <3>1, <3>2, <3>3 DEF SessionInv, SessionTypeOK, RequestsOK, Asked, HandleSignOut,
         ClearSession
  <2>2. CASE ~InFlight(t)
    BY <2>2 DEF SessionInv, SessionTypeOK, RequestsOK, Asked, HandleSignOut, ClearSession
  <2>3. QED
    BY <2>1, <2>2
<1>3. LoadingShowsNobody'
  BY <1>2 DEF SessionInv, SessionTypeOK, LoadingShowsNobody, HandleSignOut
<1>4. AnswerHears'
  BY <1>2 DEF SessionInv, SessionTypeOK, AnswerHears, HandleSignOut, ClearSession, StorageEvents
<1>5. TabsAgree'
  BY DEF SessionInv, SessionTypeOK, TabsAgree, HandleSignOut, ClearSession, StorageEvents
<1>6. QED
  BY <1>1, <1>2, <1>3, <1>4, <1>5 DEF SessionInv

\* A session the server ends by itself is only refused later.
LEMMA ExpireKeeps ==
  ASSUME SessionInv, NEW k \in Tokens, Expire(k)
  PROVE  SessionInv'
BY DEF SessionInv, SessionTypeOK, RequestsOK, Asked, LoadingShowsNobody, AnswerHears, TabsAgree,
   Expire

-----------------------------------------------------------------------------
\* Every step preserves the invariant.
LEMMA NextKeeps ==
  ASSUME MaxTokens \in Nat, SessionInv, [SessionNext]_sessionVars
  PROVE  SessionInv'
<1>1. CASE UNCHANGED sessionVars
  BY <1>1 DEF sessionVars, SessionInv, SessionTypeOK, RequestsOK, Asked, LoadingShowsNobody,
     AnswerHears,
              TabsAgree
<1>2. ASSUME NEW t \in Tabs, TabStep(t)
      PROVE  SessionInv'
  BY <1>2, LoginKeeps, WorkKeeps, LogoutKeeps, ReloadKeeps, MountKeeps, ServeKeeps, AnswerOkKeeps,
     Answer401Keeps, AnswerUnsignedKeeps, NoAnswerKeeps, HandleSignOutKeeps DEF TabStep
<1>3. QED
  BY <1>1, <1>2, ExpireKeeps DEF SessionNext

\* What tabs have in flight and in their inbox keeps them agreed, for every number of tabs
\* (SessionInv is the inductive invariant).
THEOREM SessionInductive ==
  ASSUME MaxTokens \in Nat
  PROVE  SessionSpec => []SessionInv
<1>1. SessionInit => SessionInv
  BY DEF SessionInit, SessionInv, SessionTypeOK, RequestsOK, LoadingShowsNobody, AnswerHears,
     TabsAgree
<1>2. SessionInv /\ [SessionNext]_sessionVars => SessionInv'
  BY NextKeeps
<1>3. QED
  BY <1>1, <1>2, PTL DEF SessionSpec

\* Tokens, users and inboxes keep their types.
THEOREM TypeCorrect ==
  ASSUME MaxTokens \in Nat
  PROVE  SessionSpec => []SessionTypeOK
<1>1. SessionInv => SessionTypeOK
  BY DEF SessionInv
<1>2. QED
  BY <1>1, SessionInductive, PTL

\* A tab shows a user without a token stored only while news of the sign-out is on its way
\* to it, or because an answer that the sign-out had overtaken signed it in again.
THEOREM OpenTabsAgree ==
  ASSUME MaxTokens \in Nat
  PROVE  SessionSpec => []TabsAgree
<1>1. SessionInv => TabsAgree
  BY DEF SessionInv
<1>2. QED
  BY <1>1, SessionInductive, PTL

============================================================================

----------------------------- MODULE WebSession -----------------------------
(***************************************************************************)
(* The signed-in session of the web client, shared by the tabs of one      *)
(* browser: localStorage (lib/session.ts), the HttpOnly refresh cookie,    *)
(* the Web Lock "tabmail-refresh" and the request layer (lib/api/base.ts). *)
(* Signing in, signing out and changing the password mutate cookie and     *)
(* storage under the lock; an ordinary request that meets 401 renews the   *)
(* access token under the same lock; the forms that started a credential   *)
(* request resume after the lock is released, when another tab may already *)
(* have signed in as somebody else: the dialog, the account page and the   *)
(* provider (auth-dialog.tsx, account/page.tsx, auth-context.tsx) reread   *)
(* the storage, the form of the home page (home-content.tsx) installs its  *)
(* answer once more.  The server rotates refresh tokens within a family    *)
(* and revokes the family when a consumed token comes back.                *)
(***************************************************************************)
EXTENDS Integers, FiniteSets, Sequences

CONSTANTS Tabs, Users, None,
          MaxTokens,   \* access tokens minted
          MaxFamilies, \* sign-ins
          MaxLost,     \* replies lost by the network or failed by the server
          MaxCalls     \* requests and submissions started by the users

ASSUME SessionBounds ==
  /\ None \notin Users \cup Tabs \cup Nat
  /\ {MaxTokens, MaxFamilies} \subseteq Nat \ {0} \* the session left by an earlier visit
  /\ {MaxLost, MaxCalls} \subseteq Nat

VARIABLES
  storage,  \* localStorage: access token, user, session epoch
  cookie,   \* the refresh token in the cookie jar, or None
  families, \* server: refresh token families, one per sign-in
  expired,  \* server: access tokens that answer 401
  minted,   \* server: the access tokens issued, the user of each
  lock,     \* holder of the Web Lock, or None
  cred,     \* tab -> its login, logout or password request
  req,      \* tab -> its ordinary request
  op,       \* tab -> its token renewal, started by tryRefreshToken
  shown,    \* what the last step handed to a caller or told the user
  lost,     \* replies lost or failed so far
  calls     \* requests and submissions started so far

vars == <<storage, cookie, families, expired, minted, lock, cred, req, op, shown,
          lost, calls>>
serverState == <<cookie, families, expired, minted>>

Token == 1 .. MaxTokens
Kinds == {"login", "logout", "password"}

\* The identity scope: not the token, which rotates, but epoch and user.
sessionScope == [epoch |-> storage.epoch, user |-> storage.user]
current(scope) == scope = sessionScope

NoCred == [pc |-> "idle", kind |-> "login", user |-> None, scope |-> None,
           token |-> None, owns |-> "view", remount |-> None]
NoReq == [pc |-> "idle", kind |-> "read", scope |-> None, token |-> None]
NoOp == [pc |-> "idle", scope |-> None, token |-> None]

Quiet == shown' = None
Call == calls < MaxCalls /\ calls' = calls + 1

-----------------------------------------------------------------------------
(* Storage.                                                                *)

Cleared == [token |-> None, user |-> None, epoch |-> storage.epoch + 1]
Installed(token, user) ==
  [token |-> token, user |-> user, epoch |-> storage.epoch + 1]

-----------------------------------------------------------------------------
(* The server's side of credentials.                                       *)

Valid(token) == token # None /\ token \notin expired
NextToken == Len(minted) + 1
Mint(user) ==
  /\ Len(minted) < MaxTokens
  /\ minted' = Append(minted, user) /\ UNCHANGED expired

\* POST /auth/login: a new family and an access token.
ServeLogin(user) ==
  /\ Len(families) < MaxFamilies
  /\ families' = Append(families, [user |-> user, seq |-> 1, revoked |-> FALSE])
  /\ Mint(user)

RevokeFamilies(F) == families' = [g \in DOMAIN families |->
                       [families[g] EXCEPT !.revoked = @ \/ g \in F]]

\* POST /auth/logout revokes the cookie's family; /auth/change-password every
\* family and access token of the user.
Logout ==
  /\ RevokeFamilies(IF cookie = None THEN {} ELSE {cookie.family})
  /\ UNCHANGED <<minted, expired>>
ChangePassword(user) ==
  /\ RevokeFamilies({g \in DOMAIN families : families[g].user = user})
  /\ UNCHANGED minted
  /\ expired' = expired \cup {n \in DOMAIN minted : minted[n] = user}
ServeEnd(kind, token) ==
  IF kind = "logout" THEN Logout ELSE ChangePassword(minted[token])

\* A credential request served, and the cookie its reply sets: the new family's
\* first refresh token, or none.
Serve(c) ==
  IF c.kind = "login" THEN ServeLogin(c.user)
  ELSE Valid(c.token) /\ ServeEnd(c.kind, c.token)
SetCookie(kind) ==
  IF kind = "login" THEN [family |-> Len(families) + 1, seq |-> 1] ELSE None

\* RotateRefreshToken: a token already consumed revokes its whole family; one
\* past its date, or of a frozen user, is only refused.
CanRotate ==
  /\ cookie # None /\ ~families[cookie.family].revoked
  /\ cookie.seq = families[cookie.family].seq
RotateFamily ==
  /\ CanRotate
  /\ families' = [families EXCEPT ![cookie.family].seq = @ + 1]
Rotate == RotateFamily /\ Mint(families[cookie.family].user)
Descendant == [cookie EXCEPT !.seq = @ + 1]
RefuseRotation ==
  /\ cookie # None
  /\ RevokeFamilies(IF CanRotate THEN {} ELSE {cookie.family})
  /\ cookie' = None /\ UNCHANGED <<minted, expired>>

\* Access tokens share one lifetime: the oldest expires first.
Expire ==
  /\ \E n \in DOMAIN minted \ expired :
       1 .. n - 1 \subseteq expired /\ expired' = expired \cup {n}
  /\ UNCHANGED <<storage, cookie, families, minted, lock, cred, req, op, lost, calls>>
  /\ Quiet

-----------------------------------------------------------------------------
(* doRefreshToken, called with the lock held for the scope and the token   *)
(* that failed.  The reply is used only if neither changed meanwhile, and  *)
(* only if it is about the stored user.                                    *)

stillMine(scope, token) == current(scope) /\ storage.token = token

\* MUTANT: a refresh reply is stored without asking whether the session changed.
acceptsAny(scope, token, user) == TRUE

\* MUTANT: a refresh reply is stored without asking whose it is.
acceptsForeign(scope, token, user) == stillMine(scope, token)

accepts(scope, token, user) == stillMine(scope, token) /\ user = storage.user

RefreshOK(scope, token, renewed) ==
  /\ Rotate /\ cookie' = Descendant
  /\ IF accepts(scope, token, families[cookie.family].user)
     THEN renewed /\ storage' = [storage EXCEPT !.token = NextToken]
     ELSE ~renewed /\ UNCHANGED storage
  /\ UNCHANGED lost

\* 401 clears the identity that asked.
RefreshDenied(scope, token, renewed) ==
  /\ RefuseRotation /\ ~renewed
  /\ storage' = IF stillMine(scope, token) THEN Cleared ELSE storage
  /\ UNCHANGED lost

\* Without a cookie the server answers 400: nothing is renewed or cleared.
RefreshWithout(renewed) ==
  /\ cookie = None /\ ~renewed
  /\ UNCHANGED <<storage, serverState, lost>>

\* The reply, its body or its Set-Cookie is lost, or the server fails with 500
\* before the rotation or after it: the identity is kept.
RefreshLost(renewed) ==
  /\ lost < MaxLost /\ lost' = lost + 1
  /\ ~renewed
  /\ \/ Rotate /\ cookie' \in {cookie, Descendant}
     \/ RotateFamily /\ cookie' = Descendant /\ UNCHANGED <<minted, expired>>
     \/ UNCHANGED serverState
  /\ UNCHANGED storage

doRefreshToken(scope, token, renewed) ==
  \/ RefreshOK(scope, token, renewed)
  \/ RefreshDenied(scope, token, renewed)
  \/ RefreshWithout(renewed)
  \/ RefreshLost(renewed)

-----------------------------------------------------------------------------
(* credentialRequest: login, logout and change-password.                   *)

SetCred(t, r) == cred' = [cred EXCEPT ![t] = r]

\* navigator.locks.request("tabmail-refresh") runs one callback at a time.
lockFree == lock = None

\* A form or menu starts its request: one attempt at a time, for the scope it
\* was started in.
Attempt(t, kind, user, owns) ==
  /\ cred[t].pc = "idle"
  /\ SetCred(t, [NoCred EXCEPT !.pc = "wait", !.kind = kind, !.user = user,
                                !.scope = sessionScope, !.owns = owns])
  /\ UNCHANGED <<storage, serverState, lock, req, op, lost>> /\ Quiet /\ Call

\* The dialog or the form of the home page, open since nobody was signed in;
\* another tab may have signed in meanwhile.
submitAuth(t) ==
  \E u \in Users, owns \in {"view", "home"} : Attempt(t, "login", u, owns)
changePassword(t) ==
  storage.token # None /\ Attempt(t, "password", storage.user, "view")
logout(t) == storage.token # None /\ Attempt(t, "logout", storage.user, "view")

\* A platform administrator selects another company: the token stays, the scope
\* does not.
setTenantId ==
  /\ storage.token # None /\ Call
  /\ storage' = [storage EXCEPT !.epoch = @ + 1]
  /\ UNCHANGED <<serverState, lock, cred, req, op, lost>> /\ Quiet

\* The lock is granted; a request of a retired scope is dropped.
CredAcquire(t) ==
  /\ cred[t].pc = "wait" /\ lockFree
  /\ IF current(cred[t].scope)
     THEN /\ lock' = t
          /\ SetCred(t, [cred[t] EXCEPT !.pc = "sent", !.token =
                          IF cred[t].kind = "login" THEN None ELSE storage.token])
     ELSE SetCred(t, [cred[t] EXCEPT !.pc = "failed"]) /\ UNCHANGED lock
  /\ UNCHANGED <<storage, serverState, req, op, lost, calls>> /\ Quiet

\* The answer installs or clears the identity before the lock is released.
CredOK(t) ==
  /\ cred[t].pc \in {"sent", "resent"}
  /\ Serve(cred[t]) /\ cookie' = SetCookie(cred[t].kind)
  /\ IF current(cred[t].scope)
     THEN /\ storage' = IF cred[t].kind = "login"
                        THEN Installed(NextToken, cred[t].user) ELSE Cleared
          /\ SetCred(t, [cred[t] EXCEPT !.pc = "done", !.token =
                          IF cred[t].kind = "login" THEN NextToken
                          ELSE None])
     ELSE SetCred(t, [cred[t] EXCEPT !.pc = "failed"]) /\ UNCHANGED storage
  /\ lock' = None
  /\ UNCHANGED <<req, op, lost, calls>> /\ Quiet

\* 401: the token is renewed inside the lock already held; after a second 401
\* the request fails as unauthorized.
CredUnauthorized(t) ==
  /\ cred[t].pc \in {"sent", "resent"} /\ cred[t].kind # "login"
  /\ ~Valid(cred[t].token)
  /\ LET renew == cred[t].pc = "sent" /\ current(cred[t].scope) IN
     /\ SetCred(t, [cred[t] EXCEPT !.pc = IF renew THEN "renew" ELSE "denied"])
     /\ lock' = IF renew THEN lock ELSE None
  /\ UNCHANGED <<storage, serverState, req, op, lost, calls>> /\ Quiet

RenewReply(t) ==
  /\ cred[t].pc = "renew"
  /\ \E renewed \in BOOLEAN :
       /\ doRefreshToken(cred[t].scope, cred[t].token, renewed)
       /\ LET isLogout == cred[t].kind = "logout" IN
          IF cred[t].scope # sessionScope'
          THEN /\ lock' = None
               /\ SetCred(t, [cred[t] EXCEPT !.pc =
                    IF isLogout /\ storage'.token = None THEN "done" ELSE "failed"])
          ELSE IF ~renewed
          THEN SetCred(t, [cred[t] EXCEPT !.pc = "denied"]) /\ lock' = None
          ELSE IF isLogout
          THEN /\ SetCred(t, [cred[t] EXCEPT !.pc = "resent",
                                             !.token = storage'.token])
               /\ UNCHANGED lock
          ELSE SetCred(t, [cred[t] EXCEPT !.pc = "failed"]) /\ lock' = None
  /\ UNCHANGED <<req, op, calls>> /\ Quiet

\* MUTANT: the renewal takes the lock its caller holds.
RenewRelocking(t) == lockFree /\ RenewReply(t)

CredRenew(t) == RenewReply(t)

\* The server never acted, or it did and its answer is lost: all of it, or only
\* the body, after the browser took the cookie.
CredLost(t) ==
  /\ cred[t].pc \in {"sent", "resent"} /\ lost < MaxLost
  /\ \/ UNCHANGED serverState
     \/ Serve(cred[t]) /\ cookie' \in {cookie, SetCookie(cred[t].kind)}
  /\ SetCred(t, [cred[t] EXCEPT !.pc = "failed"])
  /\ lost' = lost + 1 /\ lock' = None
  /\ UNCHANGED <<storage, req, op, calls>> /\ Quiet

\* A wrong password, or any other answer but 401, is the form's error.
CredRefused(t) ==
  /\ cred[t].pc = "sent" /\ cred[t].kind \in {"login", "password"}
  /\ cred[t].kind = "password" => Valid(cred[t].token)
  /\ SetCred(t, [cred[t] EXCEPT !.pc = "failed"])
  /\ lock' = None
  /\ UNCHANGED <<storage, serverState, req, op, lost, calls>> /\ Quiet

\* Closing the dialog, editing a field or leaving the page retires the view.
RetireView(t) ==
  /\ cred[t].pc # "idle" /\ cred[t].owns = "view"
  /\ SetCred(t, [cred[t] EXCEPT !.owns = "retired"])
  /\ UNCHANGED <<storage, serverState, lock, req, op, lost, calls>> /\ Quiet

\* AuthProvider remounts its subtree under the new scope: an attempt that still
\* owns its view carries that scope across.
Remount(t) ==
  /\ cred[t].pc # "idle" /\ cred[t].owns = "view" /\ ~current(cred[t].scope)
  /\ SetCred(t, [cred[t] EXCEPT !.owns = "remount", !.remount = sessionScope])
  /\ UNCHANGED <<storage, serverState, lock, req, op, lost, calls>> /\ Quiet

\* The form resumes after the lock was released.
ownsReceipt(c) == c.owns = "view" \/ (c.owns = "remount" /\ current(c.remount))

\* MUTANT: the form announces success without rereading.
identityUnread(c) == TRUE

identityIs(c) == IF c.kind = "login" THEN storage.token = c.token
                 ELSE storage.token = None /\ storage.user = None

Resume(t) ==
  /\ \/ cred[t].pc = "failed"
     \/ cred[t].pc = "done" /\ cred[t].owns # "home"
  /\ shown' = IF cred[t].pc = "done" /\ ownsReceipt(cred[t]) /\ identityIs(cred[t])
              THEN [what |-> cred[t].kind, user |-> cred[t].user]
              ELSE None
  /\ SetCred(t, NoCred)
  /\ UNCHANGED <<storage, serverState, lock, req, op, lost, calls>>

\* The form of the home page installs its answer again, without the lock and
\* without asking who is signed in by now.
ReinstallHome(t) ==
  LET c == cred[t] IN
  /\ c.pc = "done" /\ c.owns = "home"
  /\ storage' = IF storage.token = c.token /\ storage.user = c.user
                THEN storage ELSE Installed(c.token, c.user)
  /\ SetCred(t, NoCred)
  /\ UNCHANGED <<serverState, lock, req, op, lost, calls>> /\ Quiet

\* logout() of the provider: refused as unauthorized, it clears the identity
\* itself, without the lock, unless the scope changed.
ResumeDenied(t) ==
  /\ cred[t].pc = "denied"
  /\ storage' = IF cred[t].kind = "logout" /\ current(cred[t].scope)
                THEN Cleared ELSE storage
  /\ SetCred(t, NoCred)
  /\ UNCHANGED <<serverState, lock, req, op, lost, calls>> /\ Quiet

-----------------------------------------------------------------------------
(* request: everything else.                                               *)

SetReq(t, r) == req' = [req EXCEPT ![t] = r]

\* buildHeaders and the first fetch: scope and token are read in one turn.
Start(t) ==
  /\ req[t].pc = "idle"
  /\ \E kind \in {"read", "write"} :
       SetReq(t, [pc |-> "sent", kind |-> kind, scope |-> sessionScope,
                  token |-> storage.token])
  /\ UNCHANGED <<storage, serverState, lock, cred, op, lost>> /\ Quiet /\ Call

\* MUTANT: an answer is delivered whoever asked.
ignoresScope(scope) == TRUE

\* The answer reaches the caller only in the scope that asked for it.
keepsScope(scope) == current(scope)

Answered(t) ==
  /\ req[t].pc \in {"sent", "resent"} /\ Valid(req[t].token)
  /\ SetReq(t, NoReq)
  /\ shown' = IF keepsScope(req[t].scope)
              THEN [what |-> "result", user |-> minted[req[t].token],
                    asker |-> req[t].scope.user]
              ELSE None
  /\ UNCHANGED <<storage, serverState, lock, cred, op, lost, calls>>

\* 401 with a session token: join the tab's renewal for this scope or start
\* one.  A refused second attempt, or one without a token, is an error.
Refused(t) ==
  /\ req[t].pc \in {"sent", "resent"} /\ ~Valid(req[t].token)
  /\ IF req[t].pc = "sent" /\ req[t].token # None /\ current(req[t].scope)
     THEN /\ SetReq(t, [req[t] EXCEPT !.pc = "renew"])
          /\ op' = IF op[t].pc = "idle"
                   THEN [op EXCEPT ![t] = [pc |-> "wait", scope |-> req[t].scope,
                                           token |-> req[t].token]]
                   ELSE op
     ELSE SetReq(t, NoReq) /\ UNCHANGED op
  /\ UNCHANGED <<storage, serverState, lock, cred, lost, calls>> /\ Quiet

ReqLost(t) ==
  /\ req[t].pc \in {"sent", "resent"} /\ lost < MaxLost
  /\ lost' = lost + 1
  /\ SetReq(t, NoReq)
  /\ UNCHANGED <<storage, serverState, lock, cred, op, calls>> /\ Quiet

\* The renewal settles: a safe read is sent again with fresh headers, a write
\* is given back to its user.
OpEnds(t, renewed) ==
  /\ op' = [op EXCEPT ![t] = NoOp]
  /\ req' = [req EXCEPT ![t] =
      IF @.pc # "renew" THEN @
      ELSE IF renewed /\ req[t].scope = sessionScope' /\ @.kind = "read"
      THEN [@ EXCEPT !.pc = "resent", !.token = storage'.token]
      ELSE NoReq]

\* The lock is granted to the renewal: nothing to do for a retired scope, after
\* a sign-out, or when another tab has renewed already.
OpAcquire(t) ==
  /\ op[t].pc = "wait" /\ lockFree
  /\ IF stillMine(op[t].scope, op[t].token)
     THEN /\ lock' = t
          /\ op' = [op EXCEPT ![t].pc = "fetch"]
          /\ UNCHANGED <<storage, req>>
     ELSE /\ UNCHANGED <<storage, lock>>
          /\ OpEnds(t, current(op[t].scope) /\ storage.token # None)
  /\ UNCHANGED <<serverState, cred, lost, calls>> /\ Quiet

OpFetched(t) ==
  /\ op[t].pc = "fetch"
  /\ \E renewed \in BOOLEAN :
       doRefreshToken(op[t].scope, op[t].token, renewed) /\ OpEnds(t, renewed)
  /\ lock' = None
  /\ UNCHANGED <<cred, calls>> /\ Quiet

-----------------------------------------------------------------------------
\* The tabs open signed out, or on the storage and the cookie an earlier visit
\* left behind.
SignedOut ==
  /\ storage = [token |-> None, user |-> None, epoch |-> 0]
  /\ cookie = None /\ families = <<>> /\ minted = <<>>
SignedIn(u) ==
  /\ storage = [token |-> 1, user |-> u, epoch |-> 0]
  /\ cookie = [family |-> 1, seq |-> 1] /\ minted = <<u>>
  /\ families = <<[user |-> u, seq |-> 1, revoked |-> FALSE]>>

Init ==
  /\ SignedOut \/ \E u \in Users : SignedIn(u)
  /\ expired = {} /\ lock = None /\ lost = 0 /\ calls = 0
  /\ cred = [t \in Tabs |-> NoCred]
  /\ req = [t \in Tabs |-> NoReq]
  /\ op = [t \in Tabs |-> NoOp]
  /\ shown = None

CredStep(t) ==
  \/ CredAcquire(t) \/ CredOK(t) \/ CredUnauthorized(t) \/ CredRenew(t)
  \/ CredLost(t) \/ CredRefused(t) \/ Resume(t) \/ ReinstallHome(t)
  \/ ResumeDenied(t)
ReqStep(t) ==
  Answered(t) \/ Refused(t) \/ ReqLost(t) \/ OpAcquire(t) \/ OpFetched(t)

Next ==
  \/ \E t \in Tabs : submitAuth(t) \/ changePassword(t) \/ logout(t)
  \/ setTenantId
  \/ \E t \in Tabs : RetireView(t) \/ Remount(t) \/ Start(t)
  \/ \E t \in Tabs : CredStep(t) \/ ReqStep(t)
  \/ Expire

\* The browser settles every fetch and grants the lock in turn.
Fairness ==
  \A t \in Tabs :
    /\ WF_vars(CredOK(t) \/ CredRefused(t) \/ CredUnauthorized(t)
               \/ CredRenew(t))
    /\ WF_vars(Resume(t) \/ ReinstallHome(t) \/ ResumeDenied(t))
    /\ SF_vars(CredAcquire(t)) /\ SF_vars(OpAcquire(t))
    /\ WF_vars(Answered(t) \/ Refused(t)) /\ WF_vars(OpFetched(t))

Spec == Init /\ [][Next]_vars /\ Fairness

-----------------------------------------------------------------------------
Scope == [epoch : Nat, user : Users \cup {None}]
CredRecord ==
  [pc : {"idle", "wait", "sent", "renew", "resent", "done", "failed", "denied"},
   kind : Kinds, user : Users \cup {None}, scope : Scope \cup {None},
   token : Token \cup {None}, owns : {"view", "retired", "remount", "home"},
   remount : Scope \cup {None}]
ReqRecord == [pc : {"idle", "sent", "renew", "resent"}, kind : {"read", "write"},
              scope : Scope \cup {None}, token : Token \cup {None}]
OpRecord == [pc : {"idle", "wait", "fetch"}, scope : Scope \cup {None},
             token : Token \cup {None}]

TypeOK ==
  /\ storage \in [token : Token \cup {None}, user : Users \cup {None}, epoch : Nat]
  /\ families \in Seq([user : Users, seq : Nat, revoked : BOOLEAN])
  /\ Len(families) <= MaxFamilies
  /\ cookie # None => /\ cookie \in [family : DOMAIN families, seq : Nat]
                      /\ cookie.seq \in 1 .. families[cookie.family].seq
  /\ minted \in Seq(Users) /\ Len(minted) <= MaxTokens
  /\ expired \subseteq DOMAIN minted
  /\ lock \in Tabs \cup {None} /\ lost \in 0 .. MaxLost /\ calls \in 0 .. MaxCalls
  /\ cred \in [Tabs -> CredRecord] /\ req \in [Tabs -> ReqRecord]
  /\ op \in [Tabs -> OpRecord]

\* The stored access token belongs to the stored user, whatever cookie a
\* renewal happened to use: a sign-in whose answer was lost, or a form that
\* installs an older answer, leaves another user's cookie beside the identity.
OneIdentity ==
  /\ (storage.token = None) <=> (storage.user = None)
  /\ storage.token # None => minted[storage.token] = storage.user

\* A result handed to its caller was computed for the user who asked, and that
\* user is still the one signed in.
ResultsForAsker ==
  shown # None /\ shown.what = "result"
  => shown.user = shown.asker /\ storage.user = shown.asker

\* A renewal signs nobody in: one that outlives a sign-out leaves the storage
\* empty.  A token appears there only with a sign-in of the user who asked: with
\* its answer, or when the home page installs that answer again.
RenewalSignsNobodyIn ==
  [][(storage.token = None /\ storage'.token # None)
     => \E t \in Tabs :
          /\ cred[t].kind = "login" /\ storage'.user = cred[t].user
          /\ \/ cred[t].pc = "sent"
             \/ /\ cred[t].pc = "done" /\ cred[t].owns = "home"
                /\ storage'.token = cred[t].token]_vars

\* "The request layer installs the identity while holding the shared cookie
\* lock.  Never reinstall it from a component continuation after release"
\* (auth-dialog.tsx): another token is stored only by a step of the tab that
\* holds the lock.  The home page installs after the release, also over a
\* sign-out or a sign-in of another tab.
InstalledUnderLock ==
  [][storage'.token \notin {None, storage.token}
     => \E t \in Tabs : /\ lock = t
                        /\ cred[t] # cred'[t] \/ op[t] # op'[t]]_vars

\* A form reports success only about the identity that is in storage then, even
\* when another tab signed in or out after the lock was released.
SuccessIsCurrent ==
  shown # None /\ shown.what \in Kinds
  => storage.user = IF shown.what = "login" THEN shown.user ELSE None

\* Every request that was started settles: nothing waits for ever on the lock
\* or on a renewal.
RequestsSettle ==
  \A t \in Tabs : (req[t].pc # "idle" ~> req[t].pc = "idle")
                  /\ (cred[t].pc # "idle" ~> cred[t].pc = "idle")
=============================================================================

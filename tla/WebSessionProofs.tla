-------------------------- MODULE WebSessionProofs --------------------------
(***************************************************************************)
(* Proofs about WebSession, for any tabs, users and bounds.                *)
(*                                                                         *)
(* The stored token belongs to the stored user because every token that a  *)
(* request, a renewal or a form still carries is known to belong to the    *)
(* scope that captured it (SInv).  Those facts survive because the server  *)
(* only ever adds to what it has minted (Grows), so each action is first   *)
(* reduced to what it does to the server and then to the record it writes. *)
(***************************************************************************)
EXTENDS WebSession, FiniteSetTheorems, SequenceTheorems, TLAPS

\* What is minted for a user stays minted for that user.
Belongs(token, user) == token \in DOMAIN minted /\ minted[token] = user

\* The server's half of the types.
ServerOK ==
  /\ families \in Seq([user : Users, seq : Nat, revoked : BOOLEAN])
  /\ Len(families) <= MaxFamilies
  /\ cookie # None => /\ cookie \in [family : DOMAIN families, seq : Nat]
                      /\ cookie.seq \in 1 .. families[cookie.family].seq
  /\ minted \in Seq(Users) /\ Len(minted) <= MaxTokens
  /\ expired \subseteq DOMAIN minted

\* The stored identity: nobody, or a user with a token of that user's.
StorageOK ==
  /\ storage \in [token : Token \cup {None}, user : Users \cup {None}, epoch : Nat]
  /\ \/ storage.token = None /\ storage.user = None
     \/ storage.user \in Users /\ Belongs(storage.token, storage.user)

\* A login knows for whom; only requests of a signed-in user renew; a login
\* that is done holds the token that was minted for it.
CredOwns(c) ==
  /\ c \in CredRecord
  /\ c.kind = "login" /\ c.pc # "idle" => c.user \in Users
  /\ c.owns = "home" => c.kind = "login"
  /\ c.pc \in {"renew", "resent"} => c.kind # "login"
  /\ c.kind = "login" /\ c.pc = "done" => Belongs(c.token, c.user)

\* The token a request travels with is one of the user of its scope.
ReqOwns(r) ==
  /\ r \in ReqRecord
  /\ r.pc # "idle" /\ r.token # None => Belongs(r.token, r.scope.user)

\* The Web Lock: whoever mutates credentials or renews them holds it, and a
\* tab does one of the two at a time.
InLock(t) == cred[t].pc \in {"sent", "renew", "resent"}
LockIsExclusive ==
  \A t \in Tabs : /\ InLock(t) \/ op[t].pc = "fetch" => lock = t
                  /\ ~(InLock(t) /\ op[t].pc = "fetch")

CredsOwn == cred \in [Tabs -> CredRecord] /\ \A t \in Tabs : CredOwns(cred[t])
ReqsOwn == req \in [Tabs -> ReqRecord] /\ \A t \in Tabs : ReqOwns(req[t])
Bounded == lock \in Tabs \cup {None} /\ lost \in 0 .. MaxLost /\ calls \in 0 .. MaxCalls

SInv ==
  /\ ServerOK /\ StorageOK /\ CredsOwn /\ ReqsOwn /\ op \in [Tabs -> OpRecord]
  /\ Bounded /\ LockIsExclusive

-----------------------------------------------------------------------------
(* The server.                                                             *)

\* A function on 1 .. n is a sequence of length n.
LEMMA FunctionIsSequence ==
  ASSUME NEW S, NEW n \in Nat, NEW f \in [1 .. n -> S]
  PROVE  f \in Seq(S) /\ Len(f) = n /\ DOMAIN f = 1 .. n
<1>1. f \in Seq(S)
  BY SeqDef
<1>2. Len(f) \in Nat /\ DOMAIN f = 1 .. Len(f)
  BY <1>1, LenProperties
<1>3. DOMAIN f = 1 .. n
  OBVIOUS
<1>. QED BY <1>1, <1>2, <1>3

\* Nothing that was minted is taken back or changes its user.
Grows == \A token, user : Belongs(token, user) => Belongs(token, user)'

\* An access token is added at the end, for the user it was minted for.
LEMMA MintGrows ==
  ASSUME minted \in Seq(Users), Len(minted) <= MaxTokens, expired \subseteq DOMAIN minted,
         NEW user \in Users, Mint(user)
  PROVE  /\ minted' \in Seq(Users) /\ Len(minted') <= MaxTokens
         /\ expired' \subseteq DOMAIN minted'
         /\ Grows /\ NextToken \in Token
         /\ NextToken \in DOMAIN minted' /\ minted'[NextToken] = user
<1>1. Len(minted) \in Nat /\ Len(minted) < MaxTokens
  BY DEF Mint
<1>2. /\ minted' = Append(minted, user) /\ expired' = expired
  BY DEF Mint
<1>3. /\ minted' \in Seq(Users) /\ Len(minted') = Len(minted) + 1
      /\ DOMAIN minted' = 1 .. Len(minted) + 1 /\ DOMAIN minted = 1 .. Len(minted)
      /\ minted'[Len(minted) + 1] = user
      /\ \A n \in 1 .. Len(minted) : minted'[n] = minted[n]
  BY <1>1, <1>2
<1>. QED
  BY <1>1, <1>2, <1>3, SessionBounds DEF Grows, Belongs, NextToken, Token

\* A sign-in opens a family for its user and mints the user's first token,
\* whether or not the browser receives the family's cookie.
LEMMA LoginServed ==
  ASSUME ServerOK, NEW user \in Users, ServeLogin(user),
         cookie' = cookie \/ cookie' = SetCookie("login")
  PROVE  /\ ServerOK' /\ Grows /\ NextToken \in Token
         /\ NextToken \in DOMAIN minted' /\ minted'[NextToken] = user
<1>. DEFINE n == Len(families)
            F == [user : Users, seq : Nat, revoked : BOOLEAN]
            f == [user |-> user, seq |-> 1, revoked |-> FALSE]
<1>1. n \in Nat /\ DOMAIN families = 1 .. n /\ families \in Seq(F)
  BY LenProperties DEF ServerOK
<1>2. n < MaxFamilies /\ families' = Append(families, f) /\ Mint(user)
  BY DEF ServeLogin
<1>3. /\ families' \in Seq(F) /\ Len(families') = n + 1 /\ DOMAIN families' = 1 .. n + 1
      /\ families'[n + 1] = f /\ \A g \in 1 .. n : families'[g] = families[g]
  BY <1>1, <1>2
<1>4. Len(families') <= MaxFamilies
  BY <1>1, <1>2, <1>3, SessionBounds
<1>5. cookie' # None => /\ cookie' \in [family : DOMAIN families', seq : Nat]
                        /\ cookie'.seq \in 1 .. families'[cookie'.family].seq
  <2>1. CASE cookie' = SetCookie("login")
    BY <1>1, <1>3, <2>1 DEF SetCookie
  <2>2. CASE cookie' = cookie
    BY <1>1, <1>3, <2>2 DEF ServerOK
  <2>. QED BY <2>1, <2>2
<1>. QED BY <1>2, <1>3, <1>4, <1>5, MintGrows DEF ServerOK

\* Revoking families changes nothing else of them, so any cookie stays one.
LEMMA RevocationServed ==
  ASSUME ServerOK, NEW F, RevokeFamilies(F), cookie' = cookie \/ cookie' = None
  PROVE  /\ families' \in Seq([user : Users, seq : Nat, revoked : BOOLEAN])
         /\ Len(families') <= MaxFamilies
         /\ cookie' # None => /\ cookie' \in [family : DOMAIN families', seq : Nat]
                              /\ cookie'.seq \in 1 .. families'[cookie'.family].seq
<1>. DEFINE n == Len(families)
            S == [user : Users, seq : Nat, revoked : BOOLEAN]
<1>1. n \in Nat /\ DOMAIN families = 1 .. n /\ families \in [1 .. n -> S] /\ n <= MaxFamilies
  BY LenProperties DEF ServerOK
<1>2. families' = [g \in 1 .. n |-> [families[g] EXCEPT !.revoked = @ \/ g \in F]]
  BY <1>1 DEF RevokeFamilies
<1>3. \A g \in 1 .. n : /\ [families[g] EXCEPT !.revoked = @ \/ g \in F] \in S
                        /\ [families[g] EXCEPT !.revoked = @ \/ g \in F].seq = families[g].seq
  <2>. TAKE g \in 1 .. n
  <2>1. families[g] \in S
    BY <1>1
  <2>2. (families[g].revoked \/ g \in F) \in BOOLEAN
    OBVIOUS
  <2>. QED BY <2>1, <2>2
<1>4. families' \in [1 .. n -> S] /\ \A g \in 1 .. n : families'[g].seq = families[g].seq
  BY <1>2, <1>3
<1>5. families' \in Seq(S) /\ Len(families') = n /\ DOMAIN families' = 1 .. n
  BY <1>1, <1>4, FunctionIsSequence
<1>6. cookie' # None => /\ cookie' \in [family : 1 .. n, seq : Nat]
                        /\ cookie'.seq \in 1 .. families'[cookie'.family].seq
  BY <1>1, <1>4 DEF ServerOK
<1>. QED BY <1>1, <1>5, <1>6

\* Signing out and changing a password keep every token's owner.
LEMMA EndServed ==
  ASSUME ServerOK, NEW kind, NEW token, ServeEnd(kind, token),
         cookie' = cookie \/ cookie' = None
  PROVE  ServerOK' /\ Grows
<1>1. \E F : RevokeFamilies(F)
  BY DEF ServeEnd, Logout, ChangePassword
<1>2. minted' = minted
  BY DEF ServeEnd, Logout, ChangePassword
<1>3. expired' \subseteq DOMAIN minted
  BY DEF ServeEnd, Logout, ChangePassword, ServerOK
<1>. QED BY <1>1, <1>2, <1>3, RevocationServed DEF ServerOK, Grows, Belongs

\* A refused rotation leaves the tokens alone, too.
LEMMA RefusalServed ==
  ASSUME ServerOK, RefuseRotation
  PROVE  ServerOK' /\ Grows
<1>1. \E F : RevokeFamilies(F)
  BY DEF RefuseRotation
<1>2. cookie' = None /\ minted' = minted /\ expired' = expired
  BY DEF RefuseRotation
<1>. QED BY <1>1, <1>2, RevocationServed DEF ServerOK, Grows, Belongs

\* Rotating a family keeps the cookie one of its tokens, whether or not the
\* browser receives the descendant.
LEMMA FamilyRotated ==
  ASSUME ServerOK, RotateFamily, cookie' = cookie \/ cookie' = Descendant
  PROVE  /\ families' \in Seq([user : Users, seq : Nat, revoked : BOOLEAN])
         /\ Len(families') <= MaxFamilies
         /\ cookie' # None => /\ cookie' \in [family : DOMAIN families', seq : Nat]
                              /\ cookie'.seq \in 1 .. families'[cookie'.family].seq
         /\ families[cookie.family].user \in Users
<1>. DEFINE n == Len(families)
            S == [user : Users, seq : Nat, revoked : BOOLEAN]
            c == cookie.family
<1>1. n \in Nat /\ DOMAIN families = 1 .. n /\ families \in [1 .. n -> S] /\ n <= MaxFamilies
  BY LenProperties DEF ServerOK
<1>2. /\ cookie \in [family : 1 .. n, seq : Nat] /\ cookie.seq = families[c].seq
      /\ cookie.seq >= 1
  BY <1>1 DEF RotateFamily, CanRotate, ServerOK
<1>3. c \in 1 .. n /\ families[c] \in S
  BY <1>1, <1>2
<1>4. families' = [families EXCEPT ![c].seq = @ + 1]
  BY DEF RotateFamily
<1>5. families' \in [1 .. n -> S] /\ families'[c].seq = families[c].seq + 1
  BY <1>1, <1>3, <1>4
<1>6. families' \in Seq(S) /\ Len(families') = n /\ DOMAIN families' = 1 .. n
  BY <1>1, <1>5, FunctionIsSequence
<1>7. cookie' \in [family : 1 .. n, seq : Nat] /\ cookie'.family = c
      /\ cookie'.seq \in 1 .. families'[c].seq
  BY <1>2, <1>3, <1>5 DEF Descendant
<1>. QED BY <1>1, <1>3, <1>6, <1>7

\* A rotation mints for the user of the family.
LEMMA RotationServed ==
  ASSUME ServerOK, Rotate, cookie' = cookie \/ cookie' = Descendant
  PROVE  /\ ServerOK' /\ Grows /\ NextToken \in Token
         /\ families[cookie.family].user \in Users
         /\ NextToken \in DOMAIN minted'
         /\ minted'[NextToken] = families[cookie.family].user
<1>1. RotateFamily /\ Mint(families[cookie.family].user)
  BY DEF Rotate
<1>. QED BY <1>1, FamilyRotated, MintGrows DEF ServerOK

-----------------------------------------------------------------------------
(* The frame: what one step writes, and what it leaves alone.              *)

\* A server that does nothing forgets nothing.
LEMMA ServerFrame ==
  ASSUME ServerOK, UNCHANGED serverState
  PROVE  ServerOK' /\ Grows
BY DEF ServerOK, Grows, Belongs, serverState

\* A stored identity that is left alone, or cleared, is one.
LEMMA StorageFrame ==
  ASSUME StorageOK, Grows, UNCHANGED storage \/ storage' = Cleared
  PROVE  StorageOK'
BY DEF StorageOK, Grows, Belongs, Cleared

\* Writing one tab's credential request.
LEMMA CredWritten ==
  ASSUME CredsOwn, Grows, NEW t \in Tabs, NEW r \in CredRecord, SetCred(t, r),
         r.kind = "login" /\ r.pc # "idle" => r.user \in Users,
         r.owns = "home" => r.kind = "login",
         r.pc \in {"renew", "resent"} => r.kind # "login",
         r.kind = "login" /\ r.pc = "done"
           => r.token \in DOMAIN minted' /\ minted'[r.token] = r.user
  PROVE  CredsOwn'
<1>1. cred' \in [Tabs -> CredRecord]
  BY DEF CredsOwn, SetCred
<1>2. ASSUME NEW u \in Tabs PROVE CredOwns(cred[u])'
  <2>1. CASE u = t
    <3>1. cred'[u] = r
      BY <2>1 DEF CredsOwn, SetCred
    <3>. QED BY <3>1 DEF CredOwns, Belongs
  <2>2. CASE u # t
    <3>1. cred'[u] = cred[u] /\ CredOwns(cred[u])
      BY <2>2 DEF CredsOwn, SetCred
    <3>. QED BY <3>1 DEF CredOwns, Belongs, Grows
  <2>. QED BY <2>1, <2>2
<1>. QED BY <1>1, <1>2 DEF CredsOwn

LEMMA CredFrame ==
  ASSUME CredsOwn, Grows, UNCHANGED cred
  PROVE  CredsOwn'
<1>1. ASSUME NEW u \in Tabs PROVE CredOwns(cred[u])'
  BY DEF CredsOwn, CredOwns, Belongs, Grows
<1>. QED BY <1>1 DEF CredsOwn

\* Writing one tab's ordinary request.
LEMMA ReqWritten ==
  ASSUME ReqsOwn, Grows, NEW t \in Tabs, NEW r \in ReqRecord, req' = [req EXCEPT ![t] = r],
         r.pc # "idle" /\ r.token # None
           => r.token \in DOMAIN minted' /\ minted'[r.token] = r.scope.user
  PROVE  ReqsOwn'
<1>1. req' \in [Tabs -> ReqRecord]
  BY DEF ReqsOwn
<1>2. ASSUME NEW u \in Tabs PROVE ReqOwns(req[u])'
  <2>1. CASE u = t
    <3>1. req'[u] = r
      BY <2>1 DEF ReqsOwn
    <3>. QED BY <3>1 DEF ReqOwns, Belongs
  <2>2. CASE u # t
    <3>1. req'[u] = req[u] /\ ReqOwns(req[u])
      BY <2>2 DEF ReqsOwn
    <3>. QED BY <3>1 DEF ReqOwns, Belongs, Grows
  <2>. QED BY <2>1, <2>2
<1>. QED BY <1>1, <1>2 DEF ReqsOwn

LEMMA ReqFrame ==
  ASSUME ReqsOwn, Grows, UNCHANGED req
  PROVE  ReqsOwn'
<1>1. ASSUME NEW u \in Tabs PROVE ReqOwns(req[u])'
  BY DEF ReqsOwn, ReqOwns, Belongs, Grows
<1>. QED BY <1>1 DEF ReqsOwn

\* Every outcome of a renewal leaves a stored identity that is one user's, and
\* none of them signs anybody in.
LEMMA Refreshed ==
  ASSUME ServerOK, StorageOK, Bounded, NEW scope, NEW token, NEW renewed \in BOOLEAN,
         doRefreshToken(scope, token, renewed)
  PROVE  /\ ServerOK' /\ StorageOK' /\ Grows /\ lost' \in 0 .. MaxLost
         /\ storage.token = None => storage'.token = None
<1>1. CASE RefreshOK(scope, token, renewed)
  <2>. DEFINE user == families[cookie.family].user
  <2>1. Rotate /\ cookie' = Descendant /\ lost' = lost
    BY <1>1 DEF RefreshOK
  <2>2. /\ ServerOK' /\ Grows /\ NextToken \in Token /\ user \in Users
        /\ NextToken \in DOMAIN minted' /\ minted'[NextToken] = user
    BY <2>1, RotationServed
  <2>3. CASE accepts(scope, token, user)
    <3>1. storage' = [storage EXCEPT !.token = NextToken] /\ user = storage.user
      BY <1>1, <2>3 DEF RefreshOK, accepts
    <3>2. storage.token # None
      BY <2>2, <3>1, LenProperties, SessionBounds DEF StorageOK, Belongs, ServerOK
    <3>3. storage' \in [token : Token \cup {None}, user : Users \cup {None}, epoch : Nat]
          /\ storage'.user = user /\ storage'.token = NextToken
      BY <2>2, <3>1 DEF StorageOK
    <3>. QED BY <2>1, <2>2, <3>2, <3>3 DEF StorageOK, Belongs, Bounded
  <2>4. CASE ~accepts(scope, token, user)
    <3>1. UNCHANGED storage
      BY <1>1, <2>4 DEF RefreshOK
    <3>. QED BY <2>1, <2>2, <3>1, StorageFrame DEF Bounded
  <2>. QED BY <2>3, <2>4
<1>2. CASE RefreshDenied(scope, token, renewed)
  <2>1. ServerOK' /\ Grows
    BY <1>2, RefusalServed DEF RefreshDenied
  <2>2. UNCHANGED storage \/ storage' = Cleared
    BY <1>2 DEF RefreshDenied
  <2>. QED BY <1>2, <2>1, <2>2, StorageFrame DEF RefreshDenied, Bounded, Cleared
<1>3. CASE RefreshWithout(renewed)
  <2>1. UNCHANGED <<storage, serverState, lost>>
    BY <1>3 DEF RefreshWithout
  <2>. QED BY <2>1, ServerFrame, StorageFrame DEF Bounded
<1>4. CASE RefreshLost(renewed)
  <2>1. ServerOK' /\ Grows
    <3>1. CASE Rotate /\ cookie' \in {cookie, Descendant}
      BY <3>1, RotationServed
    <3>2. CASE RotateFamily /\ cookie' = Descendant /\ UNCHANGED <<minted, expired>>
      BY <3>2, FamilyRotated DEF ServerOK, Grows, Belongs
    <3>3. CASE UNCHANGED serverState
      BY <3>3, ServerFrame
    <3>. QED BY <1>4, <3>1, <3>2, <3>3 DEF RefreshLost
  <2>2. UNCHANGED storage /\ lost' \in 0 .. MaxLost
    BY <1>4, SessionBounds DEF RefreshLost, Bounded
  <2>. QED BY <2>1, <2>2, StorageFrame
<1>. QED BY <1>1, <1>2, <1>3, <1>4 DEF doRefreshToken

-----------------------------------------------------------------------------
(* One lemma per group of actions: each preserves the invariant.           *)

LEMMA InitialInvariant == Init => SInv
<1>. SUFFICES ASSUME Init PROVE SInv
  OBVIOUS
<1>1. ServerOK /\ StorageOK
  <2>1. CASE SignedOut
    BY <2>1, SessionBounds DEF Init, SignedOut, ServerOK, StorageOK
  <2>2. ASSUME NEW u \in Users, SignedIn(u) PROVE ServerOK /\ StorageOK
    <3>. DEFINE f == [user |-> u, seq |-> 1, revoked |-> FALSE]
    <3>1. /\ families = <<f>> /\ minted = <<u>> /\ cookie = [family |-> 1, seq |-> 1]
          /\ storage = [token |-> 1, user |-> u, epoch |-> 0] /\ expired = {}
      BY <2>2 DEF Init, SignedIn
    <3>2. /\ families \in Seq([user : Users, seq : Nat, revoked : BOOLEAN])
          /\ Len(families) = 1 /\ DOMAIN families = {1} /\ families[1] = f
      BY <3>1
    <3>3. minted \in Seq(Users) /\ Len(minted) = 1 /\ DOMAIN minted = {1} /\ minted[1] = u
      BY <3>1
    <3>4. ServerOK
      BY <3>1, <3>2, <3>3, SessionBounds DEF ServerOK
    <3>5. StorageOK
      BY <3>1, <3>3, SessionBounds DEF StorageOK, Belongs, Token
    <3>. QED BY <3>4, <3>5
  <2>. QED BY <2>1, <2>2 DEF Init
<1>2. NoCred \in CredRecord /\ NoReq \in ReqRecord /\ NoOp \in OpRecord
  BY DEF NoCred, NoReq, NoOp, CredRecord, ReqRecord, OpRecord, Kinds
<1>3. CredsOwn /\ ReqsOwn /\ op \in [Tabs -> OpRecord]
  BY <1>2 DEF Init, CredsOwn, CredOwns, ReqsOwn, ReqOwns, NoCred, NoReq
<1>4. Bounded /\ LockIsExclusive
  BY SessionBounds DEF Init, Bounded, LockIsExclusive, InLock, NoCred, NoOp
<1>. QED BY <1>1, <1>3, <1>4 DEF SInv

\* The scope a step captures is one.
LEMMA ScopeIsScope ==
  ASSUME StorageOK
  PROVE  sessionScope \in Scope
BY DEF StorageOK, sessionScope, Scope

\* Steps of the users in one tab.
LEMMA UserStep ==
  ASSUME SInv, NEW t \in Tabs,
         \/ submitAuth(t) \/ changePassword(t) \/ logout(t)
         \/ RetireView(t) \/ Remount(t) \/ Start(t)
  PROVE  SInv'
<1>1. ServerOK /\ StorageOK /\ CredsOwn /\ ReqsOwn /\ Bounded /\ LockIsExclusive
  BY DEF SInv
<1>2. ASSUME NEW kind \in Kinds, NEW user \in Users \cup {None},
             kind = "login" => user \in Users,
             NEW owns \in {"view", "home"}, owns = "home" => kind = "login",
             Attempt(t, kind, user, owns)
      PROVE  SInv'
  <2>. DEFINE r == [NoCred EXCEPT !.pc = "wait", !.kind = kind, !.user = user,
                                  !.scope = sessionScope, !.owns = owns]
  <2>1. /\ SetCred(t, r) /\ cred[t].pc = "idle"
        /\ UNCHANGED <<storage, serverState, lock, req, op, lost>> /\ Call
    BY <1>2 DEF Attempt
  <2>2. /\ r \in CredRecord /\ r.pc = "wait" /\ r.kind = kind /\ r.user = user
        /\ r.owns = owns
    BY <1>1, ScopeIsScope DEF NoCred, CredRecord
  <2>3. ServerOK' /\ Grows
    BY <1>1, <2>1, ServerFrame
  <2>4. CredsOwn'
    BY <1>1, <1>2, <2>1, <2>2, <2>3, CredWritten
  <2>5. StorageOK' /\ ReqsOwn'
    BY <1>1, <2>1, <2>3, StorageFrame, ReqFrame
  <2>6. Bounded'
    BY <1>1, <2>1, SessionBounds DEF Bounded, Call
  <2>7. LockIsExclusive'
    BY <1>1, <2>1, <2>2 DEF LockIsExclusive, InLock, CredsOwn, SetCred
  <2>. QED BY <2>1, <2>3, <2>4, <2>5, <2>6, <2>7 DEF SInv
<1>3. CASE submitAuth(t) \/ changePassword(t) \/ logout(t)
  BY <1>1, <1>2, <1>3 DEF submitAuth, changePassword, logout, StorageOK, Kinds
<1>4. CASE RetireView(t) \/ Remount(t)
  <2>1. PICK owns \in {"retired", "remount"}, scope \in Scope \cup {None} :
           SetCred(t, [cred[t] EXCEPT !.owns = owns, !.remount = scope])
    <3>1. cred[t] \in CredRecord /\ cred[t].remount \in Scope \cup {None}
      BY <1>1 DEF CredsOwn, CredRecord
    <3>2. CASE RetireView(t)
      <4>1. [cred[t] EXCEPT !.owns = "retired"]
            = [cred[t] EXCEPT !.owns = "retired", !.remount = cred[t].remount]
        BY <3>1 DEF CredRecord
      <4>. QED BY <3>1, <3>2, <4>1 DEF RetireView
    <3>3. CASE Remount(t)
      BY <1>1, <3>3, ScopeIsScope DEF Remount
    <3>. QED BY <1>4, <3>2, <3>3
  <2>. DEFINE r == [cred[t] EXCEPT !.owns = owns, !.remount = scope]
  <2>2. UNCHANGED <<storage, serverState, lock, req, op, lost, calls>>
    BY <1>4 DEF RetireView, Remount
  <2>3. cred[t] \in CredRecord /\ CredOwns(cred[t])
    BY <1>1 DEF CredsOwn
  <2>4. /\ r \in CredRecord /\ r.pc = cred[t].pc /\ r.kind = cred[t].kind
        /\ r.user = cred[t].user /\ r.token = cred[t].token /\ r.owns # "home"
    BY <2>3 DEF CredRecord
  <2>5. ServerOK' /\ Grows
    BY <1>1, <2>2, ServerFrame
  <2>6. CredsOwn'
    BY <1>1, <2>1, <2>3, <2>4, <2>5, CredWritten DEF CredOwns, Grows, Belongs
  <2>7. StorageOK' /\ ReqsOwn'
    BY <1>1, <2>2, <2>5, StorageFrame, ReqFrame
  <2>8. Bounded' /\ LockIsExclusive'
    BY <1>1, <2>1, <2>2, <2>4 DEF Bounded, LockIsExclusive, InLock, CredsOwn, SetCred
  <2>. QED BY <2>2, <2>5, <2>6, <2>7, <2>8 DEF SInv
<1>5. CASE Start(t)
  <2>1. PICK kind \in {"read", "write"} :
           req' = [req EXCEPT ![t] = [pc |-> "sent", kind |-> kind, scope |-> sessionScope,
                                      token |-> storage.token]]
    BY <1>5 DEF Start, SetReq
  <2>. DEFINE r == [pc |-> "sent", kind |-> kind, scope |-> sessionScope,
                    token |-> storage.token]
  <2>2. r \in ReqRecord
    BY <1>1, ScopeIsScope DEF StorageOK, ReqRecord
  <2>3. ServerOK' /\ Grows
    BY <1>1, <1>5, ServerFrame DEF Start
  <2>4. ReqsOwn'
    BY <1>1, <2>1, <2>2, <2>3, ReqWritten DEF StorageOK, Belongs, Grows, sessionScope
  <2>5. StorageOK' /\ CredsOwn'
    BY <1>1, <1>5, <2>3, StorageFrame, CredFrame DEF Start
  <2>6. Bounded' /\ LockIsExclusive'
    BY <1>1, <1>5, SessionBounds DEF Start, Call, Bounded, LockIsExclusive, InLock
  <2>. QED BY <1>5, <2>3, <2>4, <2>5, <2>6 DEF SInv, Start
<1>. QED BY <1>3, <1>4, <1>5

\* A credential request that moves on, with another token or the same.
LEMMA CredMoves ==
  ASSUME CredsOwn, Grows, NEW t \in Tabs, cred[t].pc # "idle",
         NEW p \in {"sent", "renew", "resent", "done", "failed", "denied"},
         p \in {"renew", "resent", "done"} => cred[t].kind # "login",
         NEW k \in Token \cup {None},
         SetCred(t, [cred[t] EXCEPT !.pc = p]) \/ SetCred(t, [cred[t] EXCEPT !.pc = p, !.token = k])
  PROVE  CredsOwn' /\ cred' \in [Tabs -> CredRecord] /\ cred'[t].pc = p
         /\ \A u \in Tabs \ {t} : cred'[u] = cred[u]
<1>1. PICK r : SetCred(t, r) /\ (\/ r = [cred[t] EXCEPT !.pc = p]
                                 \/ r = [cred[t] EXCEPT !.pc = p, !.token = k])
  OBVIOUS
<1>2. cred[t] \in CredRecord /\ CredOwns(cred[t])
  BY DEF CredsOwn
<1>3. /\ r \in CredRecord /\ r.pc = p /\ r.kind = cred[t].kind /\ r.user = cred[t].user
      /\ r.owns = cred[t].owns
  BY <1>1, <1>2 DEF CredRecord
<1>4. CredsOwn'
  BY <1>1, <1>2, <1>3, CredWritten DEF CredOwns
<1>. QED BY <1>1, <1>3, <1>4 DEF CredsOwn, SetCred

\* A credential request that is over.
LEMMA CredEnds ==
  ASSUME CredsOwn, Grows, NEW t \in Tabs, SetCred(t, NoCred)
  PROVE  CredsOwn' /\ cred'[t].pc = "idle" /\ \A u \in Tabs \ {t} : cred'[u] = cred[u]
<1>1. NoCred \in CredRecord /\ NoCred.pc = "idle" /\ NoCred.owns = "view"
  BY DEF NoCred, CredRecord, Kinds
<1>2. CredsOwn'
  BY <1>1, CredWritten DEF CredsOwn
<1>. QED BY <1>1, <1>2 DEF CredsOwn, SetCred

\* Steps of a credential request.
LEMMA CredentialStep ==
  ASSUME SInv, NEW t \in Tabs, CredStep(t)
  PROVE  SInv'
<1>1. /\ ServerOK /\ StorageOK /\ CredsOwn /\ ReqsOwn /\ Bounded /\ LockIsExclusive
      /\ cred[t] \in CredRecord /\ CredOwns(cred[t])
  BY DEF SInv, CredsOwn
<1>2. CASE CredAcquire(t)
  <2>1. UNCHANGED <<storage, serverState, req, op, lost, calls>> /\ lockFree
        /\ cred[t].pc = "wait"
    BY <1>2 DEF CredAcquire
  <2>2. ServerOK' /\ Grows /\ StorageOK' /\ ReqsOwn'
    BY <1>1, <2>1, ServerFrame, StorageFrame, ReqFrame
  <2>3. CASE current(cred[t].scope)
    <3>. DEFINE k == IF cred[t].kind = "login" THEN None ELSE storage.token
    <3>1. lock' = t /\ SetCred(t, [cred[t] EXCEPT !.pc = "sent", !.token = k])
      BY <1>2, <2>3 DEF CredAcquire
    <3>2. k \in Token \cup {None}
      BY <1>1 DEF StorageOK
    <3>3. CredsOwn' /\ cred'[t].pc = "sent" /\ \A u \in Tabs \ {t} : cred'[u] = cred[u]
      BY <1>1, <2>1, <2>2, <3>1, <3>2, CredMoves
    <3>4. Bounded' /\ LockIsExclusive'
      BY <1>1, <2>1, <3>1, <3>3, SessionBounds
      DEF Bounded, LockIsExclusive, InLock, lockFree
    <3>. QED BY <2>1, <2>2, <3>3, <3>4 DEF SInv
  <2>4. CASE ~current(cred[t].scope)
    <3>1. lock' = lock /\ SetCred(t, [cred[t] EXCEPT !.pc = "failed"])
      BY <1>2, <2>4 DEF CredAcquire
    <3>2. CredsOwn' /\ cred'[t].pc = "failed" /\ \A u \in Tabs \ {t} : cred'[u] = cred[u]
      BY <1>1, <2>1, <2>2, <3>1, CredMoves
    <3>3. Bounded' /\ LockIsExclusive'
      BY <1>1, <2>1, <3>1, <3>2 DEF Bounded, LockIsExclusive, InLock
    <3>. QED BY <2>1, <2>2, <3>2, <3>3 DEF SInv
  <2>. QED BY <2>3, <2>4
<1>3. CASE CredOK(t)
  <2>1. /\ UNCHANGED <<req, op, lost, calls>> /\ lock' = None
        /\ cred[t].pc \in {"sent", "resent"} /\ lock = t
    BY <1>1, <1>3 DEF CredOK, LockIsExclusive, InLock
  <2>2. CASE cred[t].kind = "login"
    <3>1. cred[t].user \in Users /\ ServeLogin(cred[t].user)
      BY <1>1, <1>3, <2>1, <2>2 DEF CredOK, Serve, CredOwns
    <3>2. /\ ServerOK' /\ Grows /\ NextToken \in Token
          /\ NextToken \in DOMAIN minted' /\ minted'[NextToken] = cred[t].user
      BY <1>1, <1>3, <2>2, <3>1, LoginServed DEF CredOK
    <3>3. CASE current(cred[t].scope)
      <4>. DEFINE r == [cred[t] EXCEPT !.pc = "done", !.token = NextToken]
      <4>1. storage' = Installed(NextToken, cred[t].user) /\ SetCred(t, r)
        BY <1>3, <2>2, <3>3 DEF CredOK
      <4>2. StorageOK'
        BY <1>1, <3>1, <3>2, <4>1 DEF StorageOK, Installed, Belongs
      <4>3. /\ r \in CredRecord /\ r.pc = "done" /\ r.token = NextToken
            /\ r.user = cred[t].user /\ r.kind = cred[t].kind
        BY <1>1, <3>2 DEF CredRecord
      <4>4. CredsOwn'
        BY <1>1, <2>2, <3>1, <3>2, <4>1, <4>3, CredWritten
      <4>5. cred'[t].pc = "done" /\ \A u \in Tabs \ {t} : cred'[u] = cred[u]
        BY <1>1, <4>1, <4>3 DEF CredsOwn, SetCred
      <4>6. Bounded' /\ LockIsExclusive'
        BY <1>1, <2>1, <4>5, SessionBounds DEF Bounded, LockIsExclusive, InLock
      <4>7. ReqsOwn'
        BY <1>1, <2>1, <3>2, ReqFrame
      <4>. QED BY <2>1, <3>2, <4>2, <4>4, <4>6, <4>7 DEF SInv
    <3>4. CASE ~current(cred[t].scope)
      <4>1. storage' = storage /\ SetCred(t, [cred[t] EXCEPT !.pc = "failed"])
        BY <1>3, <3>4 DEF CredOK
      <4>2. StorageOK' /\ ReqsOwn'
        BY <1>1, <2>1, <3>2, <4>1, StorageFrame, ReqFrame
      <4>3. CredsOwn' /\ cred'[t].pc = "failed" /\ \A u \in Tabs \ {t} : cred'[u] = cred[u]
        BY <1>1, <2>1, <3>2, <4>1, CredMoves
      <4>4. Bounded' /\ LockIsExclusive'
        BY <1>1, <2>1, <4>3, SessionBounds DEF Bounded, LockIsExclusive, InLock
      <4>. QED BY <2>1, <3>2, <4>2, <4>3, <4>4 DEF SInv
    <3>. QED BY <3>3, <3>4
  <2>3. CASE cred[t].kind # "login"
    <3>1. ServerOK' /\ Grows
      BY <1>1, <1>3, <2>3, EndServed DEF CredOK, Serve, SetCookie
    <3>2. PICK p \in {"done", "failed"} : \/ SetCred(t, [cred[t] EXCEPT !.pc = p])
                                          \/ SetCred(t, [cred[t] EXCEPT !.pc = p, !.token = None])
      BY <1>3, <2>3 DEF CredOK
    <3>3. UNCHANGED storage \/ storage' = Cleared
      BY <1>3, <2>3 DEF CredOK
    <3>4. StorageOK' /\ ReqsOwn'
      BY <1>1, <2>1, <3>1, <3>3, StorageFrame, ReqFrame
    <3>5. CredsOwn' /\ cred'[t].pc = p /\ \A u \in Tabs \ {t} : cred'[u] = cred[u]
      BY <1>1, <2>1, <2>3, <3>1, <3>2, CredMoves
    <3>6. Bounded' /\ LockIsExclusive'
      BY <1>1, <2>1, <3>5, SessionBounds DEF Bounded, LockIsExclusive, InLock
    <3>. QED BY <2>1, <3>1, <3>4, <3>5, <3>6 DEF SInv
  <2>. QED BY <2>2, <2>3
<1>4. CASE CredUnauthorized(t)
  <2>1. /\ UNCHANGED <<storage, serverState, req, op, lost, calls>> /\ lock = t
        /\ cred[t].kind # "login" /\ cred[t].pc # "idle"
    BY <1>1, <1>4 DEF CredUnauthorized, LockIsExclusive, InLock
  <2>2. PICK p \in {"renew", "denied"} : /\ SetCred(t, [cred[t] EXCEPT !.pc = p])
                                        /\ lock' = IF p = "renew" THEN lock ELSE None
    BY <1>4 DEF CredUnauthorized
  <2>3. ServerOK' /\ Grows /\ StorageOK' /\ ReqsOwn'
    BY <1>1, <2>1, ServerFrame, StorageFrame, ReqFrame
  <2>4. CredsOwn' /\ cred'[t].pc = p /\ \A u \in Tabs \ {t} : cred'[u] = cred[u]
    BY <1>1, <2>1, <2>2, <2>3, CredMoves
  <2>5. Bounded' /\ LockIsExclusive'
    BY <1>1, <1>4, <2>1, <2>2, <2>4, SessionBounds
    DEF Bounded, LockIsExclusive, InLock, CredUnauthorized
  <2>. QED BY <2>1, <2>3, <2>4, <2>5 DEF SInv
<1>5. CASE CredRenew(t)
  <2>1. PICK renewed \in BOOLEAN : doRefreshToken(cred[t].scope, cred[t].token, renewed)
    BY <1>5 DEF CredRenew, RenewReply
  <2>2. /\ cred[t].pc = "renew" /\ UNCHANGED <<req, op, calls>> /\ lock = t
        /\ cred[t].kind # "login"
    BY <1>1, <1>5 DEF CredRenew, RenewReply, LockIsExclusive, InLock, CredOwns
  <2>3. ServerOK' /\ StorageOK' /\ Grows /\ lost' \in 0 .. MaxLost
    BY <1>1, <2>1, Refreshed
  <2>4. PICK p \in {"done", "failed", "denied", "resent"} :
           /\ \/ SetCred(t, [cred[t] EXCEPT !.pc = p])
              \/ SetCred(t, [cred[t] EXCEPT !.pc = p, !.token = storage'.token])
           /\ lock' = IF p = "resent" THEN lock ELSE None
    BY <1>5 DEF CredRenew, RenewReply
  <2>5. storage'.token \in Token \cup {None} /\ ReqsOwn'
    BY <1>1, <2>2, <2>3, ReqFrame DEF StorageOK
  <2>6. CredsOwn' /\ cred'[t].pc = p /\ \A u \in Tabs \ {t} : cred'[u] = cred[u]
    BY <1>1, <2>2, <2>3, <2>4, <2>5, CredMoves
  <2>7. Bounded' /\ LockIsExclusive'
    BY <1>1, <2>2, <2>3, <2>4, <2>6, SessionBounds DEF Bounded, LockIsExclusive, InLock
  <2>. QED BY <2>2, <2>3, <2>5, <2>6, <2>7 DEF SInv
<1>6. CASE CredLost(t) \/ CredRefused(t)
  <2>1. /\ UNCHANGED <<storage, req, op, calls>> /\ lock = t /\ lock' = None /\ InLock(t)
        /\ cred[t].pc # "idle" /\ SetCred(t, [cred[t] EXCEPT !.pc = "failed"])
    BY <1>1, <1>6 DEF CredLost, CredRefused, LockIsExclusive, InLock
  <2>2. ServerOK' /\ Grows
    <3>1. CASE UNCHANGED serverState
      BY <1>1, <3>1, ServerFrame
    <3>2. CASE Serve(cred[t]) /\ cookie' \in {cookie, SetCookie(cred[t].kind)}
      <4>1. CASE cred[t].kind = "login"
        BY <1>1, <2>1, <3>2, <4>1, LoginServed DEF Serve, CredOwns
      <4>2. CASE cred[t].kind # "login"
        BY <1>1, <3>2, <4>2, EndServed DEF Serve, SetCookie
      <4>. QED BY <4>1, <4>2
    <3>. QED BY <1>6, <3>1, <3>2 DEF CredLost, CredRefused
  <2>3. StorageOK' /\ ReqsOwn'
    BY <1>1, <2>1, <2>2, StorageFrame, ReqFrame
  <2>4. CredsOwn' /\ cred'[t].pc = "failed" /\ \A u \in Tabs \ {t} : cred'[u] = cred[u]
    BY <1>1, <2>1, <2>2, CredMoves
  <2>5. lost' \in 0 .. MaxLost
    BY <1>1, <1>6, SessionBounds DEF CredLost, CredRefused, Bounded
  <2>6. Bounded' /\ LockIsExclusive'
    BY <1>1, <2>1, <2>4, <2>5, SessionBounds DEF Bounded, LockIsExclusive, InLock
  <2>. QED BY <2>1, <2>2, <2>3, <2>4, <2>6 DEF SInv
<1>7. CASE Resume(t) \/ ResumeDenied(t)
  <2>1. /\ UNCHANGED <<serverState, lock, req, op, lost, calls>> /\ SetCred(t, NoCred)
        /\ UNCHANGED storage \/ storage' = Cleared
    BY <1>7 DEF Resume, ResumeDenied
  <2>2. ServerOK' /\ Grows
    BY <1>1, <2>1, ServerFrame
  <2>3. StorageOK' /\ ReqsOwn'
    BY <1>1, <2>1, <2>2, StorageFrame, ReqFrame
  <2>4. CredsOwn' /\ cred'[t].pc = "idle" /\ \A u \in Tabs \ {t} : cred'[u] = cred[u]
    BY <1>1, <2>1, <2>2, CredEnds
  <2>5. Bounded' /\ LockIsExclusive'
    BY <1>1, <2>1, <2>4 DEF Bounded, LockIsExclusive, InLock
  <2>. QED BY <2>1, <2>2, <2>3, <2>4, <2>5 DEF SInv
<1>8. CASE ReinstallHome(t)
  <2>1. /\ UNCHANGED <<serverState, lock, req, op, lost, calls>> /\ SetCred(t, NoCred)
        /\ UNCHANGED storage \/ storage' = Installed(cred[t].token, cred[t].user)
        /\ cred[t].pc = "done" /\ cred[t].owns = "home"
    BY <1>8 DEF ReinstallHome
  <2>2. ServerOK' /\ Grows
    BY <1>1, <2>1, ServerFrame
  <2>3. cred[t].user \in Users /\ cred[t].token \in Token /\ Belongs(cred[t].token, cred[t].user)
    BY <1>1, <2>1, LenProperties, SessionBounds DEF CredOwns, Belongs, ServerOK, Token
  <2>4. StorageOK'
    <3>1. CASE UNCHANGED storage
      BY <1>1, <2>2, <3>1, StorageFrame
    <3>2. CASE storage' = Installed(cred[t].token, cred[t].user)
      BY <1>1, <2>2, <2>3, <3>2 DEF StorageOK, Installed, Grows, Belongs
    <3>. QED BY <2>1, <3>1, <3>2
  <2>5. CredsOwn' /\ cred'[t].pc = "idle" /\ \A u \in Tabs \ {t} : cred'[u] = cred[u]
    BY <1>1, <2>1, <2>2, CredEnds
  <2>6. Bounded' /\ LockIsExclusive'
    BY <1>1, <2>1, <2>5 DEF Bounded, LockIsExclusive, InLock
  <2>7. ReqsOwn'
    BY <1>1, <2>1, <2>2, ReqFrame
  <2>. QED BY <2>1, <2>2, <2>4, <2>5, <2>6, <2>7 DEF SInv
<1>. QED BY <1>2, <1>3, <1>4, <1>5, <1>6, <1>7, <1>8 DEF CredStep

\* Writing one tab's renewal, and with it the request that waits for it.
LEMMA OpSettles ==
  ASSUME SInv, ServerOK', StorageOK', Grows, NEW t \in Tabs, NEW renewed,
         OpEnds(t, renewed)
  PROVE  ReqsOwn' /\ op' \in [Tabs -> OpRecord] /\ op'[t].pc = "idle"
         /\ \A u \in Tabs \ {t} : op'[u] = op[u]
<1>1. /\ NoOp \in OpRecord /\ NoOp.pc = "idle" /\ NoReq \in ReqRecord /\ NoReq.pc = "idle"
  BY DEF NoOp, NoReq, OpRecord, ReqRecord
<1>2. ReqsOwn /\ op \in [Tabs -> OpRecord] /\ req[t] \in ReqRecord /\ ReqOwns(req[t])
  BY DEF SInv, ReqsOwn
<1>3. op' \in [Tabs -> OpRecord] /\ op'[t].pc = "idle" /\ \A u \in Tabs \ {t} : op'[u] = op[u]
  BY <1>1, <1>2 DEF OpEnds
<1>4. PICK r : /\ req' = [req EXCEPT ![t] = r]
               /\ \/ r = req[t] \/ r = NoReq
                  \/ /\ r = [req[t] EXCEPT !.pc = "resent", !.token = storage'.token]
                     /\ req[t].scope = sessionScope'
  BY <1>2 DEF OpEnds, ReqsOwn
<1>5. CASE r = req[t]
  BY <1>2, <1>3, <1>4, <1>5, ReqWritten DEF ReqOwns, Belongs, Grows
<1>6. CASE r = NoReq
  BY <1>1, <1>2, <1>3, <1>4, <1>6, ReqWritten
<1>7. CASE r = [req[t] EXCEPT !.pc = "resent", !.token = storage'.token]
           /\ req[t].scope = sessionScope'
  <2>1. /\ r \in ReqRecord /\ r.token = storage'.token /\ r.scope = sessionScope'
    BY <1>2, <1>7 DEF ReqRecord, StorageOK
  <2>2. r.token # None => r.token \in DOMAIN minted' /\ minted'[r.token] = r.scope.user
    BY <2>1 DEF StorageOK, Belongs, sessionScope
  <2>. QED BY <1>2, <1>3, <1>4, <2>1, <2>2, ReqWritten
<1>. QED BY <1>4, <1>5, <1>6, <1>7

\* Steps of an ordinary request and of its renewal.
LEMMA RequestStep ==
  ASSUME SInv, NEW t \in Tabs, ReqStep(t)
  PROVE  SInv'
<1>1. /\ ServerOK /\ StorageOK /\ CredsOwn /\ ReqsOwn /\ Bounded /\ LockIsExclusive
      /\ op \in [Tabs -> OpRecord] /\ req[t] \in ReqRecord /\ ReqOwns(req[t])
  BY DEF SInv, ReqsOwn
<1>2. NoReq \in ReqRecord /\ NoReq.pc = "idle"
  BY DEF NoReq, ReqRecord
<1>3. CASE Answered(t) \/ ReqLost(t)
  <2>1. /\ UNCHANGED <<storage, serverState, lock, cred, op, calls>>
        /\ req' = [req EXCEPT ![t] = NoReq]
    BY <1>3 DEF Answered, ReqLost, SetReq
  <2>2. ServerOK' /\ Grows /\ StorageOK' /\ CredsOwn'
    BY <1>1, <2>1, ServerFrame, StorageFrame, CredFrame
  <2>3. ReqsOwn'
    BY <1>1, <1>2, <2>1, <2>2, ReqWritten
  <2>4. Bounded' /\ LockIsExclusive'
    BY <1>1, <1>3, <2>1, SessionBounds
    DEF Answered, ReqLost, Bounded, LockIsExclusive, InLock
  <2>. QED BY <1>1, <2>1, <2>2, <2>3, <2>4 DEF SInv
<1>4. CASE Refused(t)
  <2>1. UNCHANGED <<storage, serverState, lock, cred, lost, calls>>
    BY <1>4 DEF Refused
  <2>2. ServerOK' /\ Grows /\ StorageOK' /\ CredsOwn'
    BY <1>1, <2>1, ServerFrame, StorageFrame, CredFrame
  <2>3. PICK r \in ReqRecord : /\ req' = [req EXCEPT ![t] = r]
                               /\ \/ r.pc = "idle"
                                  \/ r.token = req[t].token /\ r.scope = req[t].scope
    BY <1>1, <1>2, <1>4 DEF Refused, SetReq, ReqRecord
  <2>4. ReqsOwn'
    BY <1>1, <1>4, <2>2, <2>3, ReqWritten DEF Refused, ReqOwns, Belongs, Grows
  <2>5. op' \in [Tabs -> OpRecord] /\ \A u \in Tabs : op'[u].pc = "fetch" => op[u].pc = "fetch"
    BY <1>1, <1>4 DEF Refused, OpRecord, ReqRecord
  <2>6. Bounded' /\ LockIsExclusive'
    BY <1>1, <2>1, <2>5 DEF Bounded, LockIsExclusive, InLock
  <2>. QED BY <2>2, <2>4, <2>5, <2>6 DEF SInv
<1>5. CASE OpAcquire(t)
  <2>1. UNCHANGED <<storage, serverState, cred, lost, calls>> /\ lockFree /\ op[t].pc = "wait"
    BY <1>5 DEF OpAcquire
  <2>2. ServerOK' /\ Grows /\ StorageOK' /\ CredsOwn'
    BY <1>1, <2>1, ServerFrame, StorageFrame, CredFrame
  <2>3. CASE stillMine(op[t].scope, op[t].token)
    <3>1. lock' = t /\ op' = [op EXCEPT ![t].pc = "fetch"] /\ UNCHANGED req
      BY <1>5, <2>3 DEF OpAcquire
    <3>2. op' \in [Tabs -> OpRecord] /\ \A u \in Tabs \ {t} : op'[u] = op[u]
      BY <1>1, <3>1 DEF OpRecord
    <3>3. Bounded' /\ LockIsExclusive'
      BY <1>1, <2>1, <3>1, <3>2, SessionBounds DEF Bounded, LockIsExclusive, InLock, lockFree
    <3>4. ReqsOwn'
      BY <1>1, <2>2, <3>1, ReqFrame
    <3>. QED BY <2>2, <3>2, <3>3, <3>4 DEF SInv
  <2>4. CASE ~stillMine(op[t].scope, op[t].token)
    <3>1. lock' = lock /\ OpEnds(t, current(op[t].scope) /\ storage.token # None)
      BY <1>5, <2>4 DEF OpAcquire
    <3>2. /\ ReqsOwn' /\ op' \in [Tabs -> OpRecord] /\ op'[t].pc = "idle"
          /\ \A u \in Tabs \ {t} : op'[u] = op[u]
      BY <2>2, <3>1, OpSettles
    <3>3. Bounded' /\ LockIsExclusive'
      BY <1>1, <2>1, <3>1, <3>2 DEF Bounded, LockIsExclusive, InLock
    <3>. QED BY <2>2, <3>2, <3>3 DEF SInv
  <2>. QED BY <2>3, <2>4
<1>6. CASE OpFetched(t)
  <2>1. PICK renewed \in BOOLEAN :
           doRefreshToken(op[t].scope, op[t].token, renewed) /\ OpEnds(t, renewed)
    BY <1>6 DEF OpFetched
  <2>2. UNCHANGED <<cred, calls>> /\ lock' = None /\ lock = t
    BY <1>1, <1>6 DEF OpFetched, LockIsExclusive
  <2>3. ServerOK' /\ StorageOK' /\ Grows /\ lost' \in 0 .. MaxLost
    BY <1>1, <2>1, Refreshed
  <2>4. /\ ReqsOwn' /\ op' \in [Tabs -> OpRecord] /\ op'[t].pc = "idle"
        /\ \A u \in Tabs \ {t} : op'[u] = op[u]
    BY <2>1, <2>3, OpSettles
  <2>5. CredsOwn'
    BY <1>1, <2>2, <2>3, CredFrame
  <2>6. Bounded' /\ LockIsExclusive'
    BY <1>1, <1>6, <2>2, <2>3, <2>4, SessionBounds
    DEF Bounded, LockIsExclusive, InLock, OpFetched
  <2>. QED BY <2>3, <2>4, <2>5, <2>6 DEF SInv
<1>. QED BY <1>3, <1>4, <1>5, <1>6 DEF ReqStep

-----------------------------------------------------------------------------
(* The theorems.                                                           *)

\* A change of company, and an access token that expires.
LEMMA WorldStep ==
  ASSUME SInv, setTenantId \/ Expire
  PROVE  SInv'
<1>1. ServerOK' /\ Grows
  BY ServerFrame
  DEF SInv, setTenantId, Expire, ServerOK, Grows, Belongs
<1>2. StorageOK'
  BY <1>1 DEF SInv, setTenantId, Expire, StorageOK, Grows, Belongs
<1>3. CredsOwn' /\ ReqsOwn'
  BY <1>1, CredFrame, ReqFrame DEF SInv, setTenantId, Expire
<1>4. Bounded' /\ LockIsExclusive'
  BY SessionBounds
  DEF SInv, setTenantId, Expire, Call, Bounded, LockIsExclusive, InLock
<1>. QED BY <1>1, <1>2, <1>3, <1>4 DEF SInv, setTenantId, Expire

\* The session invariant is preserved by every step.
LEMMA SessionStep == SInv /\ [Next]_vars => SInv'
<1>. SUFFICES ASSUME SInv, [Next]_vars PROVE SInv'
  OBVIOUS
<1>1. CASE UNCHANGED vars
  <2>1. ServerOK' /\ Grows
    BY <1>1, ServerFrame DEF SInv, vars, serverState
  <2>2. StorageOK' /\ CredsOwn' /\ ReqsOwn'
    BY <1>1, <2>1, StorageFrame, CredFrame, ReqFrame DEF SInv, vars
  <2>. QED BY <1>1, <2>1, <2>2 DEF SInv, vars, Bounded, LockIsExclusive, InLock
<1>2. ASSUME NEW t \in Tabs, CredStep(t) \/ ReqStep(t) PROVE SInv'
  BY <1>2, CredentialStep, RequestStep
<1>3. ASSUME NEW t \in Tabs,
             \/ submitAuth(t) \/ changePassword(t) \/ logout(t)
             \/ RetireView(t) \/ Remount(t) \/ Start(t)
      PROVE  SInv'
  BY <1>3, UserStep
<1>4. CASE setTenantId \/ Expire
  BY <1>4, WorldStep
<1>. QED BY <1>1, <1>2, <1>3, <1>4 DEF Next

\* Whatever the tabs, their sign-ins, renewals, retries and lost replies do:
\* every token still carried by a request or a form belongs to its scope's user.
THEOREM SessionInvariant == Spec => []SInv
BY InitialInvariant, SessionStep, PTL DEF Spec

\* Every variable keeps its type, within the named bounds.
THEOREM TypesHold == Spec => []TypeOK
<1>1. SInv => TypeOK
  BY DEF SInv, TypeOK, ServerOK, StorageOK, CredsOwn, ReqsOwn, Bounded
<1>. QED BY <1>1, SessionInvariant, PTL

\* navigator.locks serialises sign-in, sign-out, password change and renewal
\* over all tabs.
THEOREM OneCredentialChange == Spec => []LockIsExclusive
<1>1. SInv => LockIsExclusive
  BY DEF SInv
<1>. QED BY <1>1, SessionInvariant, PTL

\* The stored token and the stored user are one identity: a renewal installs
\* nothing that a cookie of another user yields, though sign-ins whose answer was
\* lost and reinstalled answers leave such a cookie behind.
THEOREM IdentityIsOne == Spec => []OneIdentity
<1>1. SInv => OneIdentity
  BY LenProperties, SessionBounds DEF SInv, StorageOK, ServerOK, OneIdentity, Belongs
<1>. QED BY <1>1, SessionInvariant, PTL

\* What may fill the storage: the answer to a tab's login, installed by the request
\* layer or once more by the home page.
FilledBySignIn(t) ==
  /\ cred[t].kind = "login" /\ storage'.user = cred[t].user
  /\ \/ cred[t].pc = "sent"
     \/ /\ cred[t].pc = "done" /\ cred[t].owns = "home"
        /\ storage'.token = cred[t].token

\* A renewal never signs anybody in: an empty storage is filled by the answer to
\* a login, or by the home page with such an answer, for the user who asked.
THEOREM NoRenewalSignsIn == Spec => RenewalSignsNobodyIn
<1>1. SInv /\ [Next]_vars =>
        [(storage.token = None /\ storage'.token # None)
         => \E t \in Tabs : FilledBySignIn(t)]_vars
  <2>. SUFFICES ASSUME SInv, Next, storage.token = None, storage'.token # None
                PROVE  \E t \in Tabs : FilledBySignIn(t)
    OBVIOUS
  <2>1. ServerOK /\ StorageOK /\ Bounded /\ CredsOwn
    BY DEF SInv
  <2>2. ASSUME NEW scope, NEW token, NEW renewed \in BOOLEAN,
               doRefreshToken(scope, token, renewed)
        PROVE  FALSE
    BY <2>1, <2>2, Refreshed
  <2>3. ASSUME NEW t \in Tabs, CredOK(t) PROVE FilledBySignIn(t)
    <3>1. storage' # storage /\ storage'.token # None
      OBVIOUS
    <3>2. cred[t].kind = "login" /\ storage' = Installed(NextToken, cred[t].user)
      BY <2>3, <3>1 DEF CredOK, Cleared
    <3>3. cred[t].pc = "sent"
      BY <2>1, <2>3, <3>2 DEF CredOK, CredsOwn, CredOwns
    <3>. QED BY <3>2, <3>3 DEF Installed, FilledBySignIn
  <2>4. ASSUME NEW t \in Tabs, ReinstallHome(t) PROVE FilledBySignIn(t)
    <3>1. cred[t].kind = "login"
      BY <2>1, <2>4 DEF ReinstallHome, CredsOwn, CredOwns
    <3>2. storage' = Installed(cred[t].token, cred[t].user)
      BY <2>4 DEF ReinstallHome
    <3>. QED BY <2>4, <3>1, <3>2 DEF ReinstallHome, Installed, FilledBySignIn
  <2>5. ASSUME NEW t \in Tabs, CredStep(t) \/ ReqStep(t), ~CredOK(t), ~ReinstallHome(t)
        PROVE  FALSE
    BY <2>2, <2>5
    DEF CredStep, ReqStep, CredAcquire, CredUnauthorized, CredRenew, RenewReply, CredLost,
        CredRefused, Resume, ResumeDenied, Cleared, Answered, Refused, ReqLost, OpAcquire,
        OpFetched
  <2>6. ASSUME NEW t \in Tabs,
               \/ submitAuth(t) \/ changePassword(t) \/ logout(t)
               \/ RetireView(t) \/ Remount(t) \/ Start(t)
        PROVE  FALSE
    BY <2>1, <2>6
    DEF submitAuth, changePassword, logout, Attempt, RetireView, Remount, Start
  <2>7. ~(setTenantId \/ Expire)
    BY <2>1 DEF setTenantId, Expire
  <2>. QED BY <2>3, <2>4, <2>5, <2>6, <2>7 DEF Next
<1>2. [][(storage.token = None /\ storage'.token # None)
         => \E t \in Tabs : FilledBySignIn(t)]_vars => RenewalSignsNobodyIn
  BY PTL DEF RenewalSignsNobodyIn, FilledBySignIn
<1>. QED BY <1>1, <1>2, SessionInvariant, PTL DEF Spec

\* What `shown` holds is what the step before handed over.
ShownOK == ResultsForAsker /\ SuccessIsCurrent

LEMMA ShownStep == SInv /\ ShownOK /\ [Next]_vars => ShownOK'
<1>. SUFFICES ASSUME SInv, ShownOK, [Next]_vars PROVE ShownOK'
  OBVIOUS
<1>1. CASE UNCHANGED vars
  BY <1>1 DEF vars, ShownOK, ResultsForAsker, SuccessIsCurrent
<1>2. CASE shown' = None
  BY <1>2 DEF ShownOK, ResultsForAsker, SuccessIsCurrent
<1>3. ASSUME NEW t \in Tabs, Answered(t) PROVE ShownOK'
  <2>1. CASE keepsScope(req[t].scope)
    <3>1. shown' = [what |-> "result", user |-> minted[req[t].token],
                    asker |-> req[t].scope.user] /\ storage' = storage
      BY <1>3, <2>1 DEF Answered
    <3>2. minted[req[t].token] = req[t].scope.user
      BY <1>3 DEF SInv, ReqsOwn, ReqOwns, Belongs, Answered, Valid
    <3>3. storage.user = req[t].scope.user
      BY <2>1 DEF keepsScope, current, sessionScope
    <3>. QED BY <3>1, <3>2, <3>3 DEF ShownOK, ResultsForAsker, SuccessIsCurrent, Kinds
  <2>2. CASE ~keepsScope(req[t].scope)
    BY <1>2, <1>3, <2>2 DEF Answered
  <2>. QED BY <2>1, <2>2
<1>4. ASSUME NEW t \in Tabs, Resume(t) PROVE ShownOK'
  <2>1. CASE cred[t].pc = "done" /\ ownsReceipt(cred[t]) /\ identityIs(cred[t])
    <3>1. shown' = [what |-> cred[t].kind, user |-> cred[t].user] /\ storage' = storage
      BY <1>4, <2>1 DEF Resume
    <3>2. cred[t].kind \in Kinds /\ CredOwns(cred[t])
      BY DEF SInv, CredsOwn, CredRecord
    <3>3. cred[t].kind = "login" => storage.user = cred[t].user
      BY <2>1, <3>2, LenProperties, SessionBounds
      DEF SInv, StorageOK, ServerOK, CredOwns, identityIs, Belongs
    <3>4. cred[t].kind # "login" => storage.user = None
      BY <2>1 DEF identityIs
    <3>. QED BY <3>1, <3>2, <3>3, <3>4 DEF ShownOK, ResultsForAsker, SuccessIsCurrent, Kinds
  <2>2. CASE ~(cred[t].pc = "done" /\ ownsReceipt(cred[t]) /\ identityIs(cred[t]))
    BY <1>2, <1>4, <2>2 DEF Resume
  <2>. QED BY <2>1, <2>2
<1>5. ASSUME NEW t \in Tabs, CredStep(t) \/ ReqStep(t), ~Answered(t), ~Resume(t)
      PROVE  shown' = None
  BY <1>5
  DEF CredStep, ReqStep, CredAcquire, CredOK, CredUnauthorized, CredRenew, RenewReply,
      CredLost, CredRefused, ReinstallHome, ResumeDenied, Refused, ReqLost, OpAcquire,
      OpFetched, Quiet
<1>6. ASSUME NEW t \in Tabs,
             \/ submitAuth(t) \/ changePassword(t) \/ logout(t)
             \/ RetireView(t) \/ Remount(t) \/ Start(t)
      PROVE  shown' = None
  BY <1>6 DEF submitAuth, changePassword, logout, Attempt, RetireView, Remount, Start, Quiet
<1>7. ASSUME setTenantId \/ Expire PROVE shown' = None
  BY <1>7 DEF setTenantId, Expire, Quiet
<1>. QED BY <1>1, <1>2, <1>3, <1>4, <1>5, <1>6, <1>7 DEF Next

\* request() hands a result only to the user who asked, who is still signed in.
THEOREM ResultsReachAsker == Spec => []ResultsForAsker
<1>1. Init => ShownOK
  BY DEF Init, ShownOK, ResultsForAsker, SuccessIsCurrent
<1>2. ShownOK => ResultsForAsker
  BY DEF ShownOK
<1>. QED BY <1>1, <1>2, ShownStep, SessionInvariant, PTL DEF Spec

\* A form that reports success reports the identity that is stored at that time.
THEOREM SuccessIsTrue == Spec => []SuccessIsCurrent
<1>1. Init => ShownOK
  BY DEF Init, ShownOK, ResultsForAsker, SuccessIsCurrent
<1>2. ShownOK => SuccessIsCurrent
  BY DEF ShownOK
<1>. QED BY <1>1, <1>2, ShownStep, SessionInvariant, PTL DEF Spec
=============================================================================

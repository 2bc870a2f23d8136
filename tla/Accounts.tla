------------------------------ MODULE Accounts -------------------------------
(***************************************************************************)
(* Accounts of the web app (api/app.py, api/auth.py, api/throttle.py,       *)
(* api/db.py, api/cli.py): registration by invite, and sign-in, both with   *)
(* slow password hashing between their transactions, limits on attempts     *)
(* kept as a log in the database, and an admin who makes and revokes        *)
(* invites.  Registration mode "invite".                                    *)
(***************************************************************************)
EXTENDS Integers, FiniteSets, Sequences

CONSTANTS
  Emails,
  Clients,       \* client addresses
  Invites,
  EmailOf,       \* the address an invite is for
  RegisterLimit, \* register_ip_limit
  AccountLimit,  \* login_account_limit
  ClientLimit,   \* login_ip_limit
  Window,        \* login_window_seconds, register_window_seconds
  Retention,     \* _LOG_RETENTION_SECONDS
  MaxAttempts,   \* bound: requests that are admitted
  MaxTime        \* bound: ticks

NoInvite == "none"

ASSUME AccountsAssumption ==
  /\ NoInvite \notin Invites
  /\ EmailOf \in [Invites -> Emails]
  /\ {RegisterLimit, AccountLimit, ClientLimit} \subseteq Nat \ {0}
  /\ Window \in Nat \ {0} /\ Retention \in Nat /\ Window <= Retention
  /\ MaxAttempts \in Nat /\ MaxTime \in Nat

VARIABLES
  now,
  attempt,  \* every admitted request, in order: kind, address, client, time, end
  logged,   \* auth_attempts: what is still in the log, by scope
  invite,   \* invites: none, open, used, revoked or expired
  account   \* users: the invite an address has registered with, if any

accountVars == <<now, attempt, logged, invite, account>>

Scopes == {"register_ip", "login_account", "login_ip"}

AccountsTypeOK ==
  /\ now \in 0..MaxTime
  /\ attempt \in Seq([kind : {"register", "login"}, email : Emails, client : Clients,
                      invite : Invites \union {NoInvite}, at : 0..MaxTime,
                      end : {"checking", "hashing", "failed", "ok"}])
  /\ logged \in [Scopes -> SUBSET (1..Len(attempt))]
  /\ invite \in [Invites -> {"none", "open", "used", "revoked", "expired"}]
  /\ account \in [Emails -> Invites \union {NoInvite}]

AccountsInit ==
  /\ now = 0 /\ attempt = << >>
  /\ logged = [s \in Scopes |-> {}]
  /\ invite = [i \in Invites |-> "none"]
  /\ account = [e \in Emails |-> NoInvite]

Tick ==
  /\ now < MaxTime /\ now' = now + 1
  /\ UNCHANGED <<attempt, logged, invite, account>>

-----------------------------------------------------------------------------
(* Limits. *)

Recent(time) == {i \in 1..Len(attempt) : attempt[i].at > time}
Kept == [s \in Scopes |-> logged[s] \intersect {i \in 1..Len(attempt) : attempt[i].at >= now - Retention}]

(* Attempts of a scope in the window, for an address or a client.            *)
InScope(s, i, email, client) ==
  IF s = "login_account" THEN attempt[i].email = email ELSE attempt[i].client = client
LimitOf(s) == CASE s = "register_ip" -> RegisterLimit
                [] s = "login_account" -> AccountLimit
                [] OTHER -> ClientLimit
Count(s, email, client) ==
  Cardinality({i \in Kept[s] \intersect Recent(now - Window) : InScope(s, i, email, client)})

(* admit: checked and recorded in one transaction, under every scope.        *)
Admit(scopes, a) ==
  /\ Len(attempt) < MaxAttempts
  /\ \A s \in scopes : Count(s, a.email, a.client) < LimitOf(s)
  /\ attempt' = Append(attempt, a)
  /\ logged' = [s \in Scopes |-> IF s \in scopes THEN Kept[s] \union {Len(attempt')} ELSE Kept[s]]

End(i, how) == attempt' = [attempt EXCEPT ![i].end = how]

-----------------------------------------------------------------------------
(* Registration: admitted, the invite looked up, the password hashed, then   *)
(* one transaction that looks again.                                         *)

Register(email, client, i) ==
  /\ Admit({"register_ip"}, [kind |-> "register", email |-> email, client |-> client,
                             invite |-> i, at |-> now, end |-> "checking"])
  /\ UNCHANGED <<now, invite, account>>

Usable(i, email) == invite[i] = "open" /\ EmailOf[i] = email

CheckInvite(i) ==
  /\ attempt[i].kind = "register" /\ attempt[i].end = "checking"
  /\ End(i, IF Usable(attempt[i].invite, attempt[i].email) THEN "hashing" ELSE "failed")
  /\ UNCHANGED <<now, logged, invite, account>>

MayCreate(a) == Usable(a.invite, a.email) /\ account[a.email] = NoInvite

(* use_invite marks none that was revoked or used, and then there is no      *)
(* account either.                                                           *)
CanUse(i) == invite[i] \in {"open", "expired"}

(* (mutated form: what was found before the password was hashed is trusted.) *)
CreateUser_Trusted(i) ==
  LET a == attempt[i] IN
  /\ a.end = "hashing"
  /\ IF account[a.email] = NoInvite
       THEN /\ account' = [account EXCEPT ![a.email] = a.invite]
            /\ invite' = IF CanUse(a.invite) THEN [invite EXCEPT ![a.invite] = "used"] ELSE invite
            /\ End(i, "ok")
       ELSE End(i, "failed") /\ UNCHANGED <<invite, account>>
  /\ UNCHANGED <<now, logged>>

CreateUser(i) ==
  LET a == attempt[i] IN
  /\ a.end = "hashing"
  /\ IF MayCreate(a) /\ CanUse(a.invite)
       THEN /\ account' = [account EXCEPT ![a.email] = a.invite]
            /\ invite' = [invite EXCEPT ![a.invite] = "used"]
            /\ End(i, "ok")
       ELSE End(i, "failed") /\ UNCHANGED <<invite, account>>
  /\ UNCHANGED <<now, logged>>

-----------------------------------------------------------------------------
(* Sign-in, of an address with an account or without. *)

Login(email, client) ==
  /\ Admit({"login_account", "login_ip"},
           [kind |-> "login", email |-> email, client |-> client,
            invite |-> NoInvite, at |-> now, end |-> "checking"])
  /\ UNCHANGED <<now, invite, account>>

WrongPassword(i) ==
  /\ attempt[i].kind = "login" /\ attempt[i].end = "checking"
  /\ End(i, "failed")
  /\ UNCHANGED <<now, logged, invite, account>>

(* (mutated form: a success clears its client as well.)                      *)
Forgiven_Client(i) ==
  [logged EXCEPT !["login_account"] = {j \in @ : attempt[j].email # attempt[i].email},
                 !["login_ip"] = {j \in @ : attempt[j].client # attempt[i].client}]

(* Only failures count: a success takes its own records back, and those of   *)
(* its account.                                                              *)
Forgiven(i) ==
  [logged EXCEPT !["login_account"] = {j \in @ : attempt[j].email # attempt[i].email},
                 !["login_ip"] = @ \ {i}]

RightPassword(i) ==
  /\ attempt[i].kind = "login" /\ attempt[i].end = "checking"
  /\ account[attempt[i].email] # NoInvite
  /\ End(i, "ok") /\ logged' = Forgiven(i)
  /\ UNCHANGED <<now, invite, account>>

-----------------------------------------------------------------------------
(* agentfinx invites, and time. *)

CreateInvite(i) ==
  /\ invite[i] = "none" /\ account[EmailOf[i]] = NoInvite
  /\ invite' = [invite EXCEPT ![i] = "open"]
  /\ UNCHANGED <<now, attempt, logged, account>>

RevokeInvite(i) ==
  /\ invite[i] \in {"open", "expired"}
  /\ invite' = [invite EXCEPT ![i] = "revoked"]
  /\ UNCHANGED <<now, attempt, logged, account>>

Expire(i) ==
  /\ invite[i] = "open"
  /\ invite' = [invite EXCEPT ![i] = "expired"]
  /\ UNCHANGED <<now, attempt, logged, account>>

AccountsNext ==
  \/ Tick
  \/ \E email \in Emails, client \in Clients :
       Login(email, client) \/ \E i \in Invites : Register(email, client, i)
  \/ \E i \in 1..Len(attempt) :
       CheckInvite(i) \/ CreateUser(i) \/ WrongPassword(i) \/ RightPassword(i)
  \/ \E i \in Invites : CreateInvite(i) \/ RevokeInvite(i) \/ Expire(i)

AccountsSpec == AccountsInit /\ [][AccountsNext]_accountVars

-----------------------------------------------------------------------------
(* Properties. *)

(* An account stands for one invite that was open for its address when it    *)
(* was made: the invite is used, by no other account, and was never revoked, *)
(* although hashing lies between the look-up and the transaction.            *)
AccountHasItsInvite ==
  \A e \in Emails : account[e] # NoInvite =>
    /\ invite[account[e]] = "used" /\ EmailOf[account[e]] = e
    /\ \A f \in Emails \ {e} : account[f] # account[e]

(* In no window does one client fail more sign-ins than its limit, nor an    *)
(* account without a success more than its own, however many requests hash   *)
(* in parallel and whatever successes they mix in.                           *)
FailedSignIns(S) == Cardinality({i \in S \intersect Recent(now - Window) :
                              attempt[i].kind = "login" /\ attempt[i].end = "failed"})
FailuresAreLimited ==
  /\ \A c \in Clients : FailedSignIns({i \in 1..Len(attempt) : attempt[i].client = c}) <= ClientLimit
  /\ \A e \in Emails :
       (\A i \in 1..Len(attempt) : attempt[i].kind = "login" /\ attempt[i].email = e => attempt[i].end # "ok")
         => FailedSignIns({i \in 1..Len(attempt) : attempt[i].email = e}) <= AccountLimit
=============================================================================
